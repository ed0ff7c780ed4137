------------------------------ MODULE Mailbox -------------------------------
(***************************************************************************)
(* What an inbox promises: a message is sent at most once, and a message   *)
(* that was sent is delivered at most once and is never lost on the way.   *)
(***************************************************************************)
EXTENDS Sequences

CONSTANT Messages
VARIABLES pending, delivered

Init == pending = {} /\ delivered = <<>>

Send(m) ==
    /\ m \notin pending
    /\ \A i \in DOMAIN delivered : delivered[i] # m
    /\ pending' = pending \cup {m}
    /\ UNCHANGED delivered

Deliver(m) ==
    /\ m \in pending
    /\ pending' = pending \ {m}
    /\ delivered' = Append(delivered, m)

Next == \E m \in Messages : Send(m) \/ Deliver(m)

Spec == Init /\ [][Next]_<<pending, delivered>>
=============================================================================
