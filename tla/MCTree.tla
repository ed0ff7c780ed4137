------------------------------- MODULE MCTree -------------------------------
(***************************************************************************)
(* TLC's instance of what is decided about a tree of agents outside any    *)
(* one branch: which agents there are, how they are named, funded and      *)
(* removed (Creation, Removal), and what becomes of the children's returns *)
(* under a gate (Gate).  The two share no variable: Gate's children exist  *)
(* or not, Creation's agents return or not.  A behaviour is a behaviour of *)
(* one of them, chosen by `which`, while the other stands still in its     *)
(* initial state, where its properties hold.                               *)
(***************************************************************************)
EXTENDS Gate, Removal, TLC

VARIABLE which

\* A root and a child of it, and two names that are alike.
MCIds == {<<1>>, <<1, 2>>}
Naming == Permutations(Names)

treeVars == <<which, gateVars, lifeVars>>

Init == which \in {"gate", "life"} /\ GateInit /\ LifeInit

Next ==
    \/ which = "gate" /\ GateNext /\ UNCHANGED <<which, lifeVars>>
    \/ which = "life" /\ LifeNext /\ UNCHANGED <<which, gateVars>>

Spec == Init /\ [][Next]_treeVars
=============================================================================
