------------------------------- MODULE MCStops -------------------------------
(***************************************************************************)
(* TLC's instance of how agents end.  The two sides of a `litany stop`:    *)
(* the cascade over the drivers of a subtree (StopCascade), and what the   *)
(* signal does to the tool call one driver is in (ToolCall).  And an end   *)
(* nobody asked for: a child's driver dies, and the sweeps report it       *)
(* (Returns).  The signal is all that the first two share; in Returns a    *)
(* stopped driver is one that ceases or dies.  A behaviour is a behaviour  *)
(* of one of the three, chosen by `which`, while the others stand still in *)
(* an initial state of their own.                                          *)
(***************************************************************************)
EXTENDS StopCascade, ToolCall, Returns

\* A root with a child, and a second root.
MCAgents == {<<1>>, <<1, 1>>, <<2>>}
MCTarget == <<1>>

VARIABLE which

stopsVars == <<which, cascadeVars, callVars, returnVars>>

\* An initial state for the ones that stand still.
CascadeAtRest == CascadeInit /\ mail = {}
CallAtRest ==
    CallInit /\ phase = "tool" /\ traits = [obeys |-> {}, holds |-> FALSE, leaves |-> FALSE]

InCascade(A) == which = "cascade" /\ A /\ UNCHANGED <<which, callVars, returnVars>>
InCall(A) == which = "call" /\ A /\ UNCHANGED <<which, cascadeVars, returnVars>>
InReturn(A) == which = "return" /\ A /\ UNCHANGED <<which, cascadeVars, callVars>>

Init ==
    /\ ReturnsInit
    /\ \/ which = "cascade" /\ CascadeInit /\ CallAtRest
       \/ which = "call" /\ CallInit /\ CascadeAtRest
       \/ which = "return" /\ CallAtRest /\ CascadeAtRest

Next == InCascade(CascadeNext) \/ InCall(CallNext) \/ InReturn(ReturnsNext)

\* Once it has begun, `litany stop` is scheduled and its clock runs; so are
\* the executor and the tools that are the harness's own.
Spec ==
    /\ Init /\ [][Next]_stopsVars
    /\ WF_stopsVars(InCascade(Stop /\ stop # "idle"))
    /\ WF_stopsVars(InCall(Executor)) /\ WF_stopsVars(InCall(BuiltInTool))
=============================================================================
