----------------------------- MODULE MCJsonRpc -----------------------------
(* Instances of JsonRpc for TLC. *)
EXTENDS JsonRpc

Request(kind, size) == [kind |-> kind, request |-> TRUE, size |-> size]
Notification(kind, size) == [kind |-> kind, request |-> FALSE, size |-> size]

\* Every way a message can be dispatched, with bodies of one and two units.
Method ==
    {Request("initialize", 2), Request("registered", 1), Request("shutdown", 1),
     Notification("registered", 2), Notification("exit", 1), Notification("response", 1)}
Unregistered ==
    {Request("unregistered", 1), Notification("unregistered", 2),
     Request("$/unregistered", 1), Notification("$/unregistered", 1),
     Notification("setTrace", 1)}

\* Garbage bodies of one to three units: a message after one of them is cut where
\* its own frame ends, or elsewhere.  Size 0 is a header without a length.
Malformed ==
    {Notification("garbage", size) : size \in 1 .. 3}
      \cup {Notification("registered", 0), Notification("unmeasured", 1)}
AllMessages == Method \cup Unregistered \cup Malformed
Hostile == Method \cup Malformed
=============================================================================
