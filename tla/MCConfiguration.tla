-------------------------- MODULE MCConfiguration --------------------------
(* Instances of Configuration for TLC. *)
EXTENDS Configuration

CONSTANTS flags

\* Integers of 4 bits stand for the 32 of the code, and 6 for the 64.
Gpu == [id |-> 3, power |-> 2, std |-> "CL3.0"]
Cpu == [id |-> 5, power |-> 1, std |-> "CL1.2"]
Twin == [id |-> 3, power |-> 2, std |-> "CLC++"]  \* same name and driver, same id
MCDevices == {Gpu, Cpu, Twin}

OnePlatform == {<<Cpu, Gpu>>}
ChangingPlatforms == {<<>>, <<Cpu>>, <<Twin, Gpu>>, <<Cpu, Gpu>>}

Plain == [flags |-> flags, std |-> NoStd]
WithStd == [flags |-> flags, std |-> "CL2.0"]
MCOptionLists == {Plain, WithStd}

\* 0 is automatic selection, 19 is 3 after the cast to 4 bits, -1 no device's.
Complete == {[deviceID |-> 5, options |-> Plain, limit |-> 2],
             [deviceID |-> 0, options |-> WithStd, limit |-> -1],
             [deviceID |-> 19, options |-> Plain, limit |-> 2]}
TwoDevices == {[deviceID |-> 3, options |-> Plain, limit |-> 2],
               [deviceID |-> 5, options |-> Plain, limit |-> 2]}
Partial == {[deviceID |-> Invalid, options |-> Plain, limit |-> 2],
            [deviceID |-> 5, options |-> Invalid, limit |-> Invalid],
            [deviceID |-> -1, options |-> WithStd, limit |-> 9]}

CompleteOrAbsent == Complete \cup {Absent}
PartialInitially == Complete \cup
    {Absent,
     [deviceID |-> Absent, options |-> Plain, limit |-> Absent],
     [deviceID |-> 3, options |-> Absent, limit |-> Invalid],
     [deviceID |-> Invalid, options |-> WithStd, limit |-> 2]}

AllCapabilities == [configuration : BOOLEAN, dynamicRegistration : BOOLEAN]
FullCapabilities == {[configuration |-> TRUE, dynamicRegistration |-> TRUE]}
StaticClient == {[configuration |-> TRUE, dynamicRegistration |-> FALSE]}
=============================================================================
