----------------------------- MODULE Procedures -----------------------------
(***************************************************************************)
(* The children a workflow forks of its own accord.  A hop resolves its    *)
(* agent's workflow once - the nearest workflow mark on the descent, else  *)
(* the config commit the agent follows - and runs the bindings of each     *)
(* circumstance it meets; a fork reads what governs it again, for its      *)
(* budget and for whether the child keeps the dispatcher's dialog.  The    *)
(* operator moves marks and the lineage's tip between any two of these.    *)
(*                                                                         *)
(* A role a binding forks at a circumstance of the branch itself is        *)
(* machinery under that workflow, and machinery runs no such binding: it   *)
(* would fork the procedure that forked it, without end.                   *)
(*                                                                         *)
(* An agent is its number in the order of forks, 1 the root.  An event is  *)
(* the pair of words of its key; an action, its name and its argument.     *)
(***************************************************************************)
EXTENDS Integers, SequencesExt

CONSTANTS
    Configs,    \* config commits
    Bindings,   \* workflow.yaml, the events: keys to the actions bound, as written
    Version,    \* version: the schema version of each
    Roles,      \* providers.yaml: the roles each declares, which have souls there
    Clock,      \* the configs whose workflow.yaml has a compaction clock
    Ceiling,    \* budgets: max_depth of each
    ByHand,     \* the roles a model dispatches of its own accord
    Started,    \* the configs the root may be marked to run before its first hop
    MaxAgents,  \* bound: agents
    MaxHops,    \* bound: hops
    MaxMoves    \* bound: moves of the lineage's tip, and of workflow marks

ConfigsAssumption ==
    /\ Clock \subseteq Configs
    /\ Started \subseteq Configs
    /\ \A c \in Configs : Version[c] \in Nat /\ Ceiling[c] \in Nat
\* What is bound to a circumstance is a sequence of actions.
BindingsAssumption ==
    \A c \in Configs : \A e \in DOMAIN Bindings[c] :
        Bindings[c][e] \in Seq(ToSet(Bindings[c][e]))
MaximaAssumption == {MaxAgents, MaxHops, MaxMoves} \subseteq Nat

VARIABLES
    agents,  \* each agent, as its dispatch commit records it
    hops,    \* the drive of each: what it resolved, and what it has yet to run
    marks,   \* refs/litany/workflow: the config an agent is marked to run, or None
    tip,     \* the config commit every agent follows
    notices, \* the agents with a notify or an abandoned mark
    moves, begun

procedureVars == <<agents, hops, marks, tip, notices, moves, begun>>

None == "none"
Dispatched == DOMAIN agents

-----------------------------------------------------------------------------
(* The vocabulary of workflow.yaml.                                        *)

UserMessage == <<"user", "message">>
WorkerFlush == <<"worker", "flush">>
BranchStopped == <<"branch", "stopped">>
PreStep == <<"pre", "step">>
PostStep == <<"post", "step">>
OnToolReturn == <<"on_tool", "return">>
Lifecycle == {UserMessage, WorkerFlush, BranchStopped, PreStep, PostStep, OnToolReturn}
Returned(role) == <<role, "return">>
Asked == <<"a model", "asked">>

Plain == {"deliver_result", "land_compaction", "stage_proposal", "mark_abandoned", "notify_ui"}
Reserved == {"goal.md", "soul.md", "name", "facts.md", "summary", "messages", "skills",
             "descriptions", "steps", "tools"}

\* Action::parse declines retired and unknown names, and a wrong arity.
Parses(action) ==
    \/ action[1] \in Plain /\ Len(action) = 1
    \/ action[1] \in {"dispatch", "gate_return_on"} /\ Len(action) = 2
    \/ action[1] = "land_response" /\ Len(action) = 2 /\ action[2] \notin Reserved

Supported == 2
ActionsFor(wf, event) == IF event \in DOMAIN Bindings[wf] THEN Bindings[wf][event] ELSE <<>>
Named(actions) == {a[2] : a \in {b \in ToSet(actions) : b[1] = "dispatch"}}

\* Workflow::validate, and the guard on the schema version.
Reads(wf) ==
    /\ Version[wf] <= Supported
    /\ \A e \in DOMAIN Bindings[wf] : \A i \in DOMAIN Bindings[wf][e] : Parses(Bindings[wf][e][i])

\* check_workflow_against_roles: in the config the roles will resolve from.
Declares(wf, commit) ==
    \A e \in DOMAIN Bindings[wf] : Named(Bindings[wf][e]) \subseteq Roles[commit]

-----------------------------------------------------------------------------
(* Machinery.                                                              *)

FiresUserMessage(version) == version >= 2

SelfFiring(version) ==
    {PreStep, PostStep, OnToolReturn, WorkerFlush}
      \cup IF FiresUserMessage(version) THEN {UserMessage} ELSE {}

SelfFiringActions(wf, event) ==
    LET bound == ActionsFor(wf, event)
    IN IF bound = <<>> /\ event = WorkerFlush THEN <<<<"dispatch", "compactor">>>> ELSE bound

Machinery(wf, version) ==
    UNION {Named(SelfFiringActions(wf, e)) : e \in SelfFiring(version)}

\* Mutant: a child of a hook still reads as any other.
IsMachinery_Hooks(wf, version, role) == role \in Named(SelfFiringActions(wf, WorkerFlush))
IsMachinery(wf, version, role) == role \in Machinery(wf, version)

-----------------------------------------------------------------------------
(* What governs an agent, and a fork.                                      *)

NearestMark(a) ==
    LET near[n \in 0 .. Len(agents)] ==
          IF n = 0 THEN None
          ELSE IF marks[n] # None THEN marks[n] ELSE near[agents[n].parent]
    IN near[a]
Depth(a) ==
    LET depth[n \in 0 .. Len(agents)] ==
          IF n = 0 THEN -1 ELSE 1 + depth[agents[n].parent]
    IN depth[a]

Source(a) == LET marked == NearestMark(a) IN IF marked = None THEN tip ELSE marked

\* The fork of one child: the budget refuses it; the soul is not there; or
\* the child is minted, and started.
Refused(a) == Depth(a) + 1 > Ceiling[Source(a)]
Souls(role) == role \in Roles[tip]
KeepsDialog(a, role) == IsMachinery(Source(a), Version[Source(a)], role)
NewChild(a, role, event, wf, version) ==
    [parent |-> a, role |-> role, event |-> event, wf |-> wf, version |-> version,
     keeps |-> KeepsDialog(a, role),
     returned |-> FALSE, answered |-> FALSE]
Mint(child) ==
    /\ Len(agents) < MaxAgents
    /\ agents' = Append(agents, child)
    /\ marks' = Append(marks, None)

-----------------------------------------------------------------------------
(* One hop.                                                                *)

Idle == [at |-> "off", wf |-> None, version |-> 0, events |-> <<>>, event |-> Asked,
         todo |-> <<>>, moved |-> FALSE]

ProceduresInit ==
    /\ tip \in {c \in Configs : Reads(c) /\ Declares(c, c)}
    /\ agents = <<[parent |-> 0, role |-> "worker", event |-> Asked, wf |-> None, version |-> 0,
                   keeps |-> FALSE, returned |-> FALSE, answered |-> FALSE]>>
    /\ \E m \in {None} \cup Started : marks = <<m>>
    /\ hops = <<Idle>> /\ notices = {} /\ moves = 0 /\ begun = 0

Pending(a) == {c \in Dispatched : agents[c].parent = a /\ agents[c].returned /\ ~agents[c].answered}

\* child_actions: what a child's return runs when nothing is bound.
ChildActions(wf, role) ==
    LET bound == ActionsFor(wf, Returned(role))
    IN IF bound # <<>> THEN bound
       ELSE CASE role = "compactor" -> <<<<"land_compaction">>>>
              [] role = "reviewer" -> <<<<"stage_proposal">>>>
              [] OTHER -> <<<<"deliver_result">>>>

\* resolve_worker, then the boundary: the returns pending and, when the
\* drain delivered a message of the operator's, user_message; then the step.
Begin(a) ==
    /\ hops[a].at = "off" /\ ~agents[a].returned /\ begun < MaxHops
    /\ Version[tip] <= Supported /\ Reads(Source(a)) /\ Declares(Source(a), tip)
    /\ \E spoke \in BOOLEAN :
         LET wf == Source(a)
             says == IF spoke /\ FiresUserMessage(Version[tip]) THEN <<UserMessage>> ELSE <<>>
             returns == {Returned(agents[c].role) : c \in Pending(a)}
         IN hops' = [hops EXCEPT ![a] =
              [at |-> "hop", wf |-> wf, version |-> Version[tip],
               events |-> SetToSeq(returns) \o says \o <<PreStep, PostStep>>,
               event |-> Asked, todo |-> <<>>, moved |-> FALSE]]
    /\ agents' = [c \in Dispatched |-> [agents[c] EXCEPT !.answered = @ \/ c \in Pending(a)]]
    /\ begun' = begun + 1
    /\ UNCHANGED <<marks, tip, notices, moves>>

CompactionInFlight(a) ==
    \E c \in Dispatched : agents[c].parent = a /\ agents[c].role = "compactor" /\ ~agents[c].returned

\* The clock is due, for a branch that is no machinery and has no compaction
\* in flight; whether its trigger is reached is left open.
MayBeDue(a) ==
    /\ hops[a].wf \in Clock
    /\ ~IsMachinery(hops[a].wf, hops[a].version, agents[a].role)
    /\ ~CompactionInFlight(a)

Bound(a, event) ==
    CASE event \notin Lifecycle -> ChildActions(hops[a].wf, event[1])
      [] event \in Lifecycle /\ IsMachinery(hops[a].wf, hops[a].version, agents[a].role) -> <<>>
      [] OTHER -> SelfFiringActions(hops[a].wf, event)

\* run_step_hook, run_flush and interpret_pending: the next circumstance.
Fire(a) ==
    /\ hops[a].at = "hop" /\ hops[a].todo = <<>> /\ hops[a].events # <<>>
    /\ LET event == Head(hops[a].events)
       IN hops' = [hops EXCEPT ![a].events = Tail(@), ![a].event = event,
                               ![a].todo = IF event = WorkerFlush /\ ~MayBeDue(a) THEN <<>>
                                           ELSE Bound(a, event)]
    /\ UNCHANGED <<agents, marks, tip, notices, moves, begun>>

\* The model asked for tools: they run, on_tool_return fires, and then the
\* flush if its trigger is reached.
RunTools(a) ==
    /\ hops[a].at = "hop" /\ hops[a].todo = <<>> /\ hops[a].events = <<>>
    /\ hops[a].event = PostStep
    /\ \E due \in BOOLEAN :
         hops' = [hops EXCEPT ![a].events = <<OnToolReturn>> \o IF due THEN <<WorkerFlush>> ELSE <<>>]
    /\ UNCHANGED <<agents, marks, tip, notices, moves, begun>>

\* It asked for none: the branch is at its terminal.
Finish(a) ==
    /\ hops[a].at = "hop" /\ hops[a].todo = <<>> /\ hops[a].events = <<>>
    /\ hops' = [hops EXCEPT ![a] = Idle]
    /\ agents' = [agents EXCEPT ![a].returned = hops[a].event = PostStep /\ a # 1]
    /\ UNCHANGED <<marks, tip, notices, moves, begun>>

Acting(a) == hops[a].at = "hop" /\ hops[a].todo # <<>>
Action(a) == Head(hops[a].todo)
Done(a) == hops' = [hops EXCEPT ![a].todo = Tail(@)]

\* procedure::dispatch, and verifier::dispatch at a child's return.
Dispatch(a) ==
    /\ Acting(a) /\ Action(a)[1] = "dispatch"
    /\ LET h == hops[a]
           child == NewChild(a, Action(a)[2], h.event, h.wf, h.version)
       IN CASE Refused(a) -> Done(a) /\ UNCHANGED <<agents, marks>>
            [] ~Refused(a) /\ ~Souls(Action(a)[2]) ->
                 hops' = [hops EXCEPT ![a].at = "failed"] /\ UNCHANGED <<agents, marks>>
            [] OTHER ->
                 Mint(child) /\ hops' = Append([hops EXCEPT ![a].todo = Tail(@)], Idle)
    /\ UNCHANGED <<tip, notices, moves, begun>>

\* execute: the two marks.
Mark(a) ==
    /\ Acting(a) /\ Action(a)[1] \in {"mark_abandoned", "notify_ui"} /\ hops[a].event # WorkerFlush
    /\ notices' = notices \cup {a} /\ Done(a)
    /\ UNCHANGED <<agents, marks, tip, moves, begun>>

\* The landings, the delivery and the hold have a meaning at a child's
\* return only; elsewhere they, and a mark under the flush, end the hop.
AtReturnOnly(a) ==
    /\ Acting(a) /\ Action(a)[1] # "dispatch"
    /\ Action(a)[1] \in {"mark_abandoned", "notify_ui"} => hops[a].event = WorkerFlush
    /\ IF hops[a].event \in Lifecycle THEN hops' = [hops EXCEPT ![a].at = "failed"] ELSE Done(a)
    /\ UNCHANGED <<agents, marks, tip, notices, moves, begun>>

\* The model dispatches a role itself, in its tool window.
Ask(a, role) ==
    /\ hops[a].at = "hop" /\ hops[a].todo = <<>> /\ hops[a].event = PostStep /\ hops[a].events = <<>>
    /\ ~Refused(a) /\ Souls(role)
    /\ Mint(NewChild(a, role, Asked, hops[a].wf, hops[a].version))
    /\ hops' = Append(hops, Idle)
    /\ UNCHANGED <<tip, notices, moves, begun>>

-----------------------------------------------------------------------------
(* The operator.                                                           *)

Moved == [b \in DOMAIN hops |-> [hops[b] EXCEPT !.moved = TRUE]]
Move == moves < MaxMoves /\ moves' = moves + 1

\* litany config commits: the lineage advances.
Advance(c) ==
    /\ c # tip /\ Move /\ tip' = c /\ hops' = Moved
    /\ UNCHANGED <<agents, marks, notices, begun>>
\* litany workflow <agent> <config>, after its preflight.
Switch(a, c) ==
    /\ Reads(c) /\ Move /\ marks' = [marks EXCEPT ![a] = c] /\ hops' = Moved
    /\ UNCHANGED <<agents, tip, notices, begun>>
\* litany workflow <agent> --clear
Clear(a) ==
    /\ marks[a] # None /\ Move /\ marks' = [marks EXCEPT ![a] = None] /\ hops' = Moved
    /\ UNCHANGED <<agents, tip, notices, begun>>

ProceduresNext ==
    \/ \E a \in Dispatched : \/ Begin(a) \/ Fire(a) \/ RunTools(a) \/ Finish(a)
                         \/ Dispatch(a) \/ Mark(a) \/ AtReturnOnly(a)
                         \/ \E role \in ByHand : Ask(a, role)
                         \/ \E c \in Configs : Switch(a, c)
                         \/ Clear(a)
    \/ \E c \in Configs : Advance(c)

ProceduresSpec == ProceduresInit /\ [][ProceduresNext]_procedureVars

-----------------------------------------------------------------------------
(* Properties.                                                             *)

Procedure(c) == agents[c].event \in Lifecycle

\* Machinery is never the subject of machinery: a child that a hook, the
\* flush or user_message forked forks none itself under the same reading of
\* the same workflow (procedure.rs), wherever marks and the tip have moved.
NeverItsOwnSubject ==
    \A c \in Dispatched : Procedure(c) =>
        LET p == agents[agents[c].parent]
        IN ~(p.event \in Lifecycle /\ p.wf = agents[c].wf /\ p.version = agents[c].version)

\* A procedure child keeps the dialog it is about, unless the operator
\* moved a mark or the lineage while the hop ran, or the workflow was marked
\* from a config of another version than the one the agent follows.
KeepsItsSubject ==
    \A c \in DOMAIN agents' \ Dispatched :
        LET child == agents'[c]
        IN child.event \in Lifecycle /\ ~hops[child.parent].moved
             /\ Version[child.wf] = child.version
             => child.keeps

\* A binding the workflow names never fails its hop for want of the role:
\* the load checked it in the config the role resolves from.
Dispatchable ==
    \A a \in Dispatched :
        hops[a].at = "hop" /\ hops'[a].at = "failed" /\ ~hops[a].moved
          /\ Action(a)[1] = "dispatch"
        => Action(a) \notin ToSet(ActionsFor(hops[a].wf, hops[a].event))

\* What a workflow that loaded binds can be done, and what it forks is about
\* the branch and never about itself.
ProceduresSound ==
    [][NeverItsOwnSubject' /\ KeepsItsSubject /\ Dispatchable]_procedureVars
=============================================================================
