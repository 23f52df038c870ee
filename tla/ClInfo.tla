------------------------------- MODULE ClInfo -------------------------------
(***************************************************************************)
(* src/src/clinfo.cpp: the OpenCL platforms and devices of the machine, as *)
(* diagnostics choose among them (GetDevices) and as the clinfo subcommand *)
(* lists them (json).  A platform is [devices, unreadable, garbled] and a  *)
(* device [id, power, versioning, says30, cversion, unreadable, garbled],  *)
(* what the driver answers.  Any query may fail instead: `unreadable` has  *)
(* those that do.  The properties listed are in groups that fail together; *)
(* "identity" stands for the name, type, vendor and driver version and     *)
(* "flag" for whatever nothing but the listing asks for.  `garbled`: some  *)
(* text that the driver answers with is not UTF-8.                         *)
(***************************************************************************)
EXTENDS Integers, FiniteSetsExt, SequencesExt

DeviceQueries == {"identity", "version", "extensions", "cversion", "power", "flag"}
PlatformQueries == {"name", "extensions", "devices"}

DeviceAnswers == [id : Nat, power : Nat, versioning : BOOLEAN, says30 : BOOLEAN,
                  cversion : STRING, unreadable : SUBSET DeviceQueries, garbled : BOOLEAN]
PlatformAnswers ==
    [devices : Seq(DeviceAnswers), unreadable : SUBSET PlatformQueries, garbled : BOOLEAN]

Fails(d, queries) == queries \cap d.unreadable # {}

-----------------------------------------------------------------------------
(* One device. *)

\* A device that cannot be identified gets the number of automatic selection.
CalculateDeviceID(d) == IF Fails(d, {"identity", "version"}) THEN 0 ELSE d.id

GetDevicePowerIndex(d) == IF Fails(d, {"power"}) THEN 0 ELSE d.power

\* The standard of a device for which GetCLStandard throws.
Throws == "throws"

\* says30: the version contains 3.0; cversion: the digits of the version of
\* OpenCL C, "" when there are none.
GetCLStandard(d) ==
    CASE Fails(d, {"extensions", IF d.versioning THEN "version" ELSE "cversion"}) -> Throws
      [] d.versioning /\ ~Fails(d, {"extensions", "version"}) ->
           IF d.says30 THEN "CLC++2021" ELSE "CLC++"
      [] ~d.versioning /\ ~Fails(d, {"extensions", "cversion"}) ->
           IF d.cversion \in {"2.1", "2.2"} THEN "CL2.0" ELSE "CL" \o d.cversion

-----------------------------------------------------------------------------
(* GetDevices. *)

OclsDevice(d) ==
    [id |-> CalculateDeviceID(d), power |-> GetDevicePowerIndex(d), std |-> GetCLStandard(d)]

\* Fault: a device that throws is kept.
PlatformDevicesPast(p) ==
    IF "devices" \in p.unreadable THEN <<>>
    ELSE [i \in DOMAIN p.devices |-> OclsDevice(p.devices[i])]

\* What std::transform has appended when it ends or a device throws.
PlatformDevices(p) ==
    LET throwing == {i \in DOMAIN p.devices : GetCLStandard(p.devices[i]) = Throws}
        reached == Min(throwing \cup {Len(p.devices) + 1}) - 1
    IN  IF "devices" \in p.unreadable THEN <<>>
        ELSE [i \in 1 .. reached |-> OclsDevice(p.devices[i])]

\* Fault: an exception ends the search on all platforms.
GetDevicesInOneTry(platforms) ==
    LET failing == {i \in DOMAIN platforms :
                      Len(PlatformDevices(platforms[i])) < Len(platforms[i].devices)}
        reached == Min(failing \cup {Len(platforms)})
    IN  FlattenSeq([i \in 1 .. reached |-> PlatformDevices(platforms[i])])

\* A platform that fails leaves out the rest of its own devices only.
GetDevices(platforms) ==
    FlattenSeq([i \in DOMAIN platforms |-> PlatformDevices(platforms[i])])

-----------------------------------------------------------------------------
(* json, the listing. *)

\* A property that cannot be read, or whose value has no name, is left out.
GetDeviceJSONInfo(d) ==
    [id |-> CalculateDeviceID(d), shown |-> DeviceQueries \ d.unreadable]

\* Fault: a device some property of which cannot be read is left out.
GetPlatformJSONInfoOfReadable(p) ==
    LET readable == SelectSeq(p.devices, LAMBDA d : d.unreadable = {})
    IN  [shown |-> PlatformQueries \ p.unreadable,
         devices |-> IF "devices" \in p.unreadable THEN <<>>
                     ELSE [i \in DOMAIN readable |-> GetDeviceJSONInfo(readable[i])]]

GetPlatformJSONInfo(p) ==
    [shown |-> PlatformQueries \ p.unreadable,
     devices |-> IF "devices" \in p.unreadable THEN <<>>
                 ELSE [i \in DOMAIN p.devices |-> GetDeviceJSONInfo(p.devices[i])]]

ListedDevices(p) == IF "devices" \in p.unreadable THEN {} ELSE ToSet(p.devices)

\* The extensions of a platform are queried outside of every try, and a device of
\* which nothing can be read leaves a null where an object is expected.
JsonThrows(platforms) ==
    \E p \in ToSet(platforms) :
        \/ "extensions" \in p.unreadable
        \/ \E d \in ListedDevices(p) : d.unreadable = DeviceQueries

\* Text that is not UTF-8 has no JSON.
DumpThrows(platforms) ==
    \E p \in ToSet(platforms) : p.garbled \/ \E d \in ListedDevices(p) : d.garbled

Json(platforms) == [i \in DOMAIN platforms |-> GetPlatformJSONInfo(platforms[i])]
=============================================================================
