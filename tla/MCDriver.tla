------------------------------ MODULE MCDriver ------------------------------
(***************************************************************************)
(* TLC's instance of what one driver does to one branch: its tool windows  *)
(* (ToolWindow), the landings of its compactors (Compaction) and what the  *)
(* workflow binds to a hop (Procedures).  They share no variable:          *)
(* Delivery's lock makes the driver alone, a flush never lies inside a     *)
(* window, and which children a hook forks does not depend on what the     *)
(* transcript says.  A behaviour of this module is a behaviour of one of   *)
(* them, chosen by `which`, while the others rest in an initial state,     *)
(* where their properties hold.                                            *)
(***************************************************************************)
EXTENDS ToolWindow, Compaction, Procedures, TLC

VARIABLE which

-----------------------------------------------------------------------------
(* Procedures: two versions of one lineage, a config its workflow may be   *)
(* marked from and one that does not load.                                 *)

MCBindings ==
    [old |-> (<<"user", "message">> :> <<<<"dispatch", "worker">>>>
               @@ <<"post", "step">> :> <<<<"notify_ui">>, <<"dispatch", "titler">>>>),
     new |-> (<<"user", "message">> :> <<<<"dispatch", "titler">>>>
               @@ <<"titler", "return">> :> <<<<"land_response", "title">>>>
               @@ <<"worker", "return">> :> <<<<"dispatch", "guard">>, <<"gate_return_on", "guard.ok">>>>
               @@ <<"on_tool", "return">> :> <<<<"dispatch", "guard">>>>),
     odd |-> (<<"worker", "flush">> :> <<<<"dispatch", "reviewer">>, <<"deliver_result">>>>),
     bad |-> (<<"pre", "step">> :> <<<<"spawn_root_agent">>>>)]
MCVersion == [old |-> 1, new |-> 2, odd |-> 2, bad |-> 3]
MCRoles ==
    [old |-> {"worker", "titler"},
     new |-> {"worker", "titler", "guard", "compactor"},
     odd |-> {"worker", "titler", "guard", "reviewer", "compactor"},
     bad |-> {"worker"}]
MCCeiling == [old |-> 1, new |-> 2, odd |-> 1, bad |-> 9]

ASSUME HookBounds == ConfigsAssumption /\ BindingsAssumption /\ MaximaAssumption

-----------------------------------------------------------------------------

OneHook == tip = "new" /\ marks = <<None>>

Init ==
    /\ which \in {"window", "landings", "hooks"}
    /\ WindowInit /\ LandingInit
    /\ ProceduresInit /\ (which # "hooks" => OneHook)

Next ==
    \/ which = "window" /\ WindowNext /\ UNCHANGED <<which, landingVars, procedureVars>>
    \/ which = "landings" /\ LandingNext /\ UNCHANGED <<which, windowVars, procedureVars>>
    \/ which = "hooks" /\ ProceduresNext /\ UNCHANGED <<which, windowVars, landingVars>>

Spec == Init /\ [][Next]_<<which, windowVars, landingVars, procedureVars>>

-----------------------------------------------------------------------------

\* The types of the window's and of the landings' state.
TypeOK == WindowTypeOK /\ LandingTypeOK
=============================================================================
