---------------------------- MODULE Diagnostics ----------------------------
(***************************************************************************)
(* The settings of src/src/diagnostics.cpp: the OpenCL device that builds  *)
(* the documents, the options it builds them with, and the limit on the    *)
(* problems reported.  The devices are what ICLInfo::GetDevices returns at *)
(* the time of the call; drivers and hardware may change it.               *)
(***************************************************************************)
EXTENDS Integers, Sequences, FiniteSets

CONSTANTS
    Devices,     \* records [id, power, std]: GetID, GetPowerIndex, GetCLStandard
    Platforms,   \* the sequences of devices GetDevices may return
    OptionLists, \* records [flags, std]: build options, std the -cl-std among them
    DefaultLimit, \* INT8_MAX
    IntBits,     \* width of int and uint32_t (32 in the code)
    SizeBits,    \* width of uint64_t (64 in the code)
    NoDevice,    \* m_device is empty
    NoStd,       \* no -cl-std among the options
    NoFlags      \* the empty option list

ASSUME DevicesAssumption ==
    /\ \A d \in Devices : d.id \in 0 .. 2 ^ IntBits - 1 /\ d.power \in Nat
    /\ NoDevice \notin Devices
ASSUME OptionListsAssumption ==
    \A o \in OptionLists : o = [flags |-> o.flags, std |-> o.std]
ASSUME PlatformsAssumption == Platforms \subseteq Seq(Devices)
ASSUME WidthsAssumption ==
    /\ IntBits \in Nat \ {0}
    /\ SizeBits \in Nat /\ SizeBits > IntBits
    /\ DefaultLimit \in 0 .. 2 ^ IntBits - 1 /\ DefaultLimit < 2 ^ SizeBits

VARIABLES
    devices,             \* what GetDevices returns
    device,              \* m_device
    buildOptions,        \* m_buildOptions: flags, and the -cl-std that ends up in it
    maxNumberOfProblems  \* m_maxNumberOfProblems

diagnosticsVars == <<devices, device, buildOptions, maxNumberOfProblems>>

-----------------------------------------------------------------------------
(* Conversions of the numbers that come in from JSON. *)

ToUnsigned(n, bits) == n % 2 ^ bits
ToInt(n) == LET u == ToUnsigned(n, IntBits)
            IN  IF u < 2 ^ (IntBits - 1) THEN u ELSE u - 2 ^ IntBits

\* static_cast<uint32_t>(int64_t), and nlohmann's conversion to uint32_t
ToIdentifier(n) == ToUnsigned(n, IntBits)
\* Fault: the number from the settings is stored as it is.
ToProblemsCountUnconverted(n) == n
\* SetMaxProblemsCount(uint64_t) called with static_cast<int>(int64_t)
ToProblemsCount(n) == ToUnsigned(ToInt(n), SizeBits)

-----------------------------------------------------------------------------
(* Choosing a device. *)

First(I) == CHOOSE i \in I : \A j \in I : i <= j

\* std::max_element: the first of the strongest.
SelectOpenCLDeviceByPowerIndex(ds) ==
    ds[First({i \in DOMAIN ds : \A j \in DOMAIN ds : ds[j].power <= ds[i].power})]

\* Fault: automatic selection ignores the device in use.
SelectOpenCLDeviceAnew(ds, identifier, current) ==
    LET matching == {i \in DOMAIN ds : identifier > 0 /\ ds[i].id = identifier}
    IN  CASE ds = <<>> -> current
          [] ds # <<>> /\ matching # {} -> ds[First(matching)]
          [] ds # <<>> /\ matching = {} -> SelectOpenCLDeviceByPowerIndex(ds)

\* The device after SetOpenCLDevice(identifier), `current` before it.  An
\* identifier nobody has counts as 0; 0 keeps a device that no other beats.
SelectOpenCLDevice(ds, identifier, current) ==
    LET matching == {i \in DOMAIN ds : identifier > 0 /\ ds[i].id = identifier}
        strongest == SelectOpenCLDeviceByPowerIndex(ds)
    IN  CASE ds = <<>> -> current
          [] ds # <<>> /\ matching # {} -> ds[First(matching)]
          [] ds # <<>> /\ matching = {} ->
               IF current = NoDevice \/ strongest.power > current.power THEN strongest ELSE current

\* GetCLStandard of the device, "CL" without one (lsp.cpp, main.cpp).
StandardOf(d) == IF d = NoDevice THEN "CL" ELSE d.std

\* SetBuildOptions: the device's standard is appended unless the list names one.
WithStandard(options, d) ==
    [flags |-> options.flags,
     std   |-> IF options.std = NoStd /\ d # NoDevice THEN StandardOf(d) ELSE options.std]

-----------------------------------------------------------------------------
(* The operations. *)

\* The constructor: SetOpenCLDevice(0), then SetBuildOptions("").
DiagnosticsInit ==
    /\ devices \in Platforms
    /\ device = SelectOpenCLDevice(devices, 0, NoDevice)
    /\ buildOptions = WithStandard([flags |-> NoFlags, std |-> NoStd], device)
    /\ maxNumberOfProblems = DefaultLimit

SetOpenCLDevice(identifier) ==
    device' = SelectOpenCLDevice(devices, identifier, device)

\* Fault: the options are completed before the device of the same settings is set.
SetBuildOptionsFirst(options) ==
    buildOptions' = WithStandard(options, device)

SetBuildOptions(options) ==
    buildOptions' = WithStandard(options, device')

SetMaxProblemsCount(n) ==
    maxNumberOfProblems' = n

\* Drivers are installed, devices are plugged in and out.
PlatformChanges ==
    /\ devices' \in Platforms
    /\ UNCHANGED <<device, buildOptions, maxNumberOfProblems>>
=============================================================================
