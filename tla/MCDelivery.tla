----------------------------- MODULE MCDelivery -----------------------------
(***************************************************************************)
(* Instances of Delivery for TLC.                                          *)
(***************************************************************************)
EXTENDS Delivery, TLC

CONSTANTS w1, w2, w3, w4,      \* deposits
          user, child,         \* senders
          d1, d2, s1, c1       \* processes

\* w1 and w2 are two messages of one user; w3 is a child's result that wakes
\* its parent, w4 the same child's result after a stop.
MCSenderOf == [w \in Writers |-> IF w \in {w3, w4} THEN child ELSE user]
MCKind == [w \in Writers |-> CASE w = w3 -> "wake" [] w = w4 -> "park" [] OTHER -> "plain"]

\* The slots of the drivers are interchangeable (for the safety runs).
SlotSymmetry == Permutations(Drivers)
=============================================================================
