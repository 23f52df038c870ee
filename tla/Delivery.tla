------------------------------ MODULE Delivery ------------------------------
(***************************************************************************)
(* What a client relies on when it writes messages to the server's         *)
(* standard input: the server takes up well-formed messages one by one, in *)
(* the order they were sent.  It leaves one out only behind a malformed    *)
(* one, and takes up a malformed one at most behind another.  Messages are *)
(* known by their position in the client's stream.  JsonRpc implements it. *)
(***************************************************************************)
EXTENDS Naturals, Sequences

VARIABLES
    sent,       \* for each message the client has written, whether it is well-formed
    delivered   \* the messages the server has taken up, in its order

vars == <<sent, delivered>>

Init == sent = <<>> /\ delivered = <<>>

Send ==
    /\ \E wellFormed \in BOOLEAN : sent' = Append(sent, wellFormed)
    /\ UNCHANGED delivered

LastDelivered == IF delivered = <<>> THEN 0 ELSE delivered[Len(delivered)]

BehindMalformed(n) == \E m \in 1 .. n - 1 : ~sent[m]

Deliver ==
    /\ \E n \in LastDelivered + 1 .. Len(sent) :
         /\ sent[n] \/ BehindMalformed(n)
         /\ \A skipped \in LastDelivered + 1 .. n - 1 : ~sent[skipped] \/ BehindMalformed(skipped)
         /\ delivered' = Append(delivered, n)
    /\ UNCHANGED sent

Spec == Init /\ [][Send \/ Deliver]_vars
=============================================================================
