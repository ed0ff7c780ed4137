------------------------------ MODULE ToolCall ------------------------------
(***************************************************************************)
(* One tool call, and the tree of processes below it: the executor in the  *)
(* driver, the process it spawns (first the tool control it consults, then *)
(* the tool), the child a built-in runs in a process group of its own, and *)
(* a descendant of that child.  Any of them may end, crash or hang, and a  *)
(* stop may arrive at any point.  Bytes are abstracted to who still holds  *)
(* the write end of a pipe, a verdict to how it reads.                     *)
(***************************************************************************)
EXTENDS Naturals

CONSTANTS
    Tools,   \* of "bash", "python", "external": what the call may resolve to
    Budget,  \* spawn attempts that ride out ETXTBSY
    NIL      \* no answer, no process, no outcome yet

ASSUME ToolsAssumption == Tools \subseteq {"bash", "python", "external"}
ASSUME BudgetAssumption == Budget \in Nat \ {0}
ASSUME NilAssumption == NIL \notin {"pass", "ok", "signal", "relayed", "bash", "python"}

VARIABLES
    phase,    \* "control" while the control is consulted, "tool" after it
    answer,   \* how the control's run ended
    epc,      \* the executor
    tries,    \* spawn attempts made
    flag,     \* the driver's stop flag
    kind,     \* what the spawned process is
    tool,     \* where the spawned process is
    status,   \* how it ended: "relayed", "failed" (its own error), "signal"
    termed,   \* its flag: a SIGTERM its handler turned into a store
    below,    \* below[p], p = "leader" (sh, python3) or "descendant"
    traits,   \* what sort of processes they are; see Traits
    signals,  \* what the tool has sent to the group of its child
    record,   \* the call's directory: {}, input.json, output.json
    outcome   \* what execute returned to the window

callVars == <<phase, answer, epc, tries, flag, kind, tool, status, termed,
          below, traits, signals, record, outcome>>
tree == <<kind, tool, status, termed, below, traits, signals>>
call == <<phase, answer, tries, record, outcome>>

\* obeys: who ends of a SIGTERM; holds: the descendant keeps the output it
\* inherited open; leaves: it takes a group of its own (setsid).
Traits == [obeys : SUBSET {"tool", "leader", "descendant"},
           holds : BOOLEAN, leaves : BOOLEAN]

BuiltIn == kind \in {"bash", "python"}
Up(p) == below[p] = "up"
ToolUp == tool \notin {"none", "zombie"}
InGroup == {"leader"} \cup (IF traits.leaves THEN {} ELSE {"descendant"})

\* Who may still write to the pipes the executor reads, and to the pipes a
\* built-in reads: its readers are joined when there is nobody left.
ExecutorPipe == {p \in {"tool"} : ToolUp}
                \cup {p \in {"descendant"} : ~BuiltIn /\ Up(p) /\ traits.holds}
ToolPipe == {p \in {"leader", "descendant"} :
                 BuiltIn /\ Up(p) /\ (p = "leader" \/ traits.holds)}

Fresh == /\ tool = "none" /\ status = NIL /\ termed = FALSE /\ signals = {}
         /\ below = [p \in {"leader", "descendant"} |-> "none"]
CallInit ==
    /\ phase \in {"control", "tool"} /\ answer = NIL
    /\ epc = IF phase = "control" THEN "spawn" ELSE "prepare"
    /\ tries = 1 /\ flag = FALSE
    /\ kind = NIL /\ traits \in Traits /\ Fresh
    /\ record = {} /\ outcome = NIL

-----------------------------------------------------------------------------
(* The executor.                                                           *)

Return(o) == outcome' = o /\ epc' = "done"

\* prepare: the caller's worktree is there, input.json lands, the name
\* resolves; nothing has been started yet.
Prepare ==
    /\ epc = "prepare"
    /\ record' = {"input"} /\ epc' = "spawn"
    /\ UNCHANGED <<phase, answer, tries, flag, outcome, tree>>
PrepareFails ==
    /\ epc = "prepare" /\ Return("fault")
    /\ UNCHANGED <<phase, answer, tries, flag, record, tree>>

\* spawn_with_etxtbsy_retry, and the three threads.  A control is a command
\* of the operator's, a tool whatever the three hops come to.
Spawn ==
    /\ epc = "spawn" /\ epc' = "wait"
    /\ kind' \in IF phase = "control" THEN {"external"} ELSE Tools
    /\ tool' = "boot"
    /\ UNCHANGED <<call, flag, status, termed, below, traits, signals>>
SpawnBusy ==
    /\ epc = "spawn" /\ tries < Budget
    /\ tries' = tries + 1
    /\ UNCHANGED <<phase, answer, record, outcome, epc, flag, tree>>
SpawnFails ==
    /\ epc = "spawn"
    /\ answer' = IF phase = "control" THEN "unspawned" ELSE answer
    /\ Return("fault")
    /\ UNCHANGED <<phase, tries, record, flag, tree>>

\* wait_with_stop and cascade_terminate: reap, look at the flag, SIGTERM the
\* process, and SIGKILL it when the grace is over.
Reap ==
    /\ epc \in {"wait", "term"} /\ tool = "zombie"
    /\ epc' = "join"
    /\ UNCHANGED <<call, flag, tree>>
\* What a SIGTERM does to the tool: a built-in that has installed its handler
\* sets a flag, whatever has not ends.
Sigtermed ==
    \/ /\ ToolUp /\ BuiltIn /\ tool # "boot"
       /\ termed' = TRUE /\ UNCHANGED <<tool, status>>
    \/ /\ ToolUp /\ (IF BuiltIn THEN tool = "boot" ELSE "tool" \in traits.obeys)
       /\ tool' = "zombie" /\ status' = "signal" /\ UNCHANGED termed
    \/ /\ ~ToolUp \/ (~BuiltIn /\ "tool" \notin traits.obeys)
       /\ UNCHANGED <<tool, status, termed>>
TermTool ==
    /\ epc = "wait" /\ flag
    /\ epc' = "term" /\ Sigtermed
    /\ UNCHANGED <<call, flag, kind, below, traits, signals>>

\* The inner grace is the shorter one: a tool that has seen its flag, or is
\* about to, is through with its cascade before an outer clock runs out.
InnerGrace == kind = "bash" /\ (tool = "term" \/ (tool = "run" /\ termed))
\* Mutant: no SIGKILL follows the SIGTERM.
KillTool_Never == FALSE /\ UNCHANGED callVars
KillTool ==
    /\ epc = "term" /\ ToolUp /\ ~InnerGrace
    /\ tool' = "zombie" /\ status' = "signal"
    /\ UNCHANGED <<call, epc, flag, kind, termed, below, traits, signals>>

Joined == epc = "join" /\ ExecutorPipe = {}

\* classify, land: an exit code is an outcome, with its record; a death by a
\* signal is the stop when the flag is set, and otherwise a fault.
Land ==
    /\ Joined /\ phase = "tool" /\ status # "signal"
    /\ record' = record \cup {"output"} /\ Return("ok")
    /\ UNCHANGED <<phase, answer, tries, flag, tree>>
Felled ==
    /\ Joined /\ status = "signal"
    /\ answer' = IF phase = "control" THEN "signal" ELSE answer
    /\ Return(IF flag THEN "stopped" ELSE "fault")
    /\ UNCHANGED <<phase, tries, record, flag, tree>>

\* consult, adjudicate: the verdict of a control that ended with code 0 and
\* printed one; whatever else it did closes the gate.
Adjudicate ==
    /\ Joined /\ phase = "control" /\ status # "signal"
    /\ answer' \in {"pass", "refuse", "hold", "garbled", "nonzero"}
    /\ IF answer' = "pass"
       THEN /\ phase' = "tool" /\ epc' = "prepare" /\ tries' = 1
            /\ tool' = "none" /\ status' = NIL
            /\ below' = [below EXCEPT !["descendant"] = "none"]
            /\ UNCHANGED outcome
       ELSE /\ Return(IF answer' \in {"refuse", "hold"} THEN answer' ELSE "fault")
            /\ UNCHANGED <<phase, tries, tool, status, below>>
    /\ UNCHANGED <<record, flag, kind, termed, traits, signals>>

Executor ==
    \/ Prepare \/ PrepareFails \/ Spawn \/ SpawnBusy \/ SpawnFails
    \/ Reap \/ TermTool \/ KillTool \/ Land \/ Felled \/ Adjudicate

-----------------------------------------------------------------------------
(* A built-in that runs a child: bash, python.                             *)

Exits(s) == tool' = "zombie" /\ status' = s

\* install_sigterm_handler.
Install ==
    /\ BuiltIn /\ tool = "boot" /\ tool' = "read"
    /\ UNCHANGED <<call, epc, flag, kind, status, termed, below, traits, signals>>
\* run_with: the input does not parse, the interpreter is not there.
Declines ==
    /\ BuiltIn /\ tool = "read" /\ Exits("failed")
    /\ UNCHANGED <<call, epc, flag, kind, termed, below, traits, signals>>
\* child::run: the child leads a group of its own; python's is fed its program
\* before the wait begins.
Start ==
    /\ BuiltIn /\ tool = "read"
    /\ below' = [below EXCEPT !["leader"] = "up"]
    /\ tool' = IF kind = "python" THEN "feed" ELSE "run"
    /\ UNCHANGED <<call, epc, flag, kind, status, termed, traits, signals>>
Fed ==
    /\ tool = "feed" /\ Up("leader") /\ tool' = "run"
    /\ UNCHANGED <<call, epc, flag, kind, status, termed, below, traits, signals>>
FeedBreaks ==
    /\ tool = "feed" /\ ~Up("leader") /\ Exits("failed")
    /\ UNCHANGED <<call, epc, flag, kind, termed, below, traits, signals>>

\* What the children of the tool lose to a signal.
Lose(S) == below' = [p \in DOMAIN below |-> IF p \in S /\ Up(p) THEN "gone" ELSE below[p]]

\* Mutant: the shell alone is signalled, not its group.
TermGroup_Leader ==
    /\ kind = "bash" /\ tool = "run" /\ termed
    /\ tool' = "term" /\ signals' = {"term"}
    /\ Lose({"leader"} \cap traits.obeys)
    /\ UNCHANGED <<call, epc, flag, kind, status, termed, traits>>
\* wait_with_cascade on the flag the handler sets.  `python` installs that
\* handler too, and waits on the flag of the driver verbs, which nothing sets
\* in a `litany tool` process.
TermGroup ==
    /\ kind = "bash" /\ tool = "run" /\ termed
    /\ tool' = "term" /\ signals' = {"term"}
    /\ Lose(InGroup \cap traits.obeys)
    /\ UNCHANGED <<call, epc, flag, kind, status, termed, traits>>
\* cascade_terminate: its grace is over and the leader still runs.
KillGroup ==
    /\ tool = "term" /\ Up("leader")
    /\ signals' = {"term", "kill"} /\ Lose(InGroup)
    /\ UNCHANGED <<call, epc, flag, kind, tool, status, termed, traits>>
ReapLeader ==
    /\ tool \in {"run", "term"} /\ ~Up("leader")
    /\ tool' = "join"
    /\ UNCHANGED <<call, epc, flag, kind, status, termed, below, traits, signals>>
\* Mutant: the output is written as soon as the child has ended.
Relay_Early ==
    /\ tool = "join" /\ Exits("relayed")
    /\ UNCHANGED <<call, epc, flag, kind, termed, below, traits, signals>>
\* The readers are joined, the streams and the code handed on.
Relay ==
    /\ tool = "join" /\ ToolPipe = {} /\ Exits("relayed")
    /\ UNCHANGED <<call, epc, flag, kind, termed, below, traits, signals>>

BuiltInTool ==
    Install \/ Declines \/ Start \/ Fed \/ FeedBreaks
    \/ TermGroup \/ KillGroup \/ ReapLeader \/ Relay

-----------------------------------------------------------------------------
(* Programs the harness did not write, and the stop.                       *)

\* A tool binary, or a control: it ends with a code or of a signal.
ExternalExits ==
    /\ ~BuiltIn /\ ToolUp /\ \E s \in {"relayed", "signal"} : Exits(s)
    /\ UNCHANGED <<call, epc, flag, kind, termed, below, traits, signals>>
Forks ==
    /\ below["descendant"] = "none" /\ (IF BuiltIn THEN Up("leader") ELSE ToolUp)
    /\ below' = [below EXCEPT !["descendant"] = "up"]
    /\ UNCHANGED <<call, epc, flag, kind, tool, status, termed, traits, signals>>
EndsBelow(p) ==
    /\ Up(p) /\ Lose({p})
    /\ UNCHANGED <<call, epc, flag, kind, tool, status, termed, traits, signals>>

\* `litany stop`: SIGTERM to the group of the driver, in which the spawned
\* process is, and what an external one forks; the child of a built-in is not.
DriverGroup == IF BuiltIn THEN {} ELSE InGroup
Sigterm ==
    /\ ~flag /\ epc # "done"
    /\ flag' = TRUE /\ Sigtermed /\ Lose(DriverGroup \cap traits.obeys)
    /\ UNCHANGED <<call, epc, kind, traits, signals>>
\* Its deadline, as long as the executor's, and then SIGKILL.
StopKills ==
    /\ flag /\ epc # "done" /\ ~InnerGrace
    /\ Return("dead") /\ Lose(DriverGroup)
    /\ IF ToolUp THEN Exits("signal") ELSE UNCHANGED <<tool, status>>
    /\ UNCHANGED <<phase, answer, tries, record, flag, kind, termed, traits, signals>>

World ==
    \/ ExternalExits \/ Forks \/ \E p \in {"leader", "descendant"} : EndsBelow(p)
    \/ Sigterm \/ StopKills

CallNext == Executor \/ BuiltInTool \/ World
CallSpec == CallInit /\ [][CallNext]_callVars

\* The harness's own processes are scheduled and its clocks run; what a tool
\* runs below them owes nobody an end.
CallFairSpec ==
    /\ CallSpec /\ WF_callVars(Executor) /\ WF_callVars(BuiltInTool)

-----------------------------------------------------------------------------
(* Properties.                                                             *)

\* Nothing is executed past a control that did not end with a well-formed
\* pass: not unspawned, crashed, stopped, garbled or refused (seam.rs: every
\* failure of a consult closes the gate), whatever the stop flag says.  And an
\* outcome that carries a tool's own exit code carries all it printed: no
\* process that could still write to either pair of pipes is left when the
\* outcome is returned and its record written (subprocess.rs, child.rs: the
\* readers are joined after the child has exited).
GatedAndWhole ==
    /\ answer \notin {NIL, "pass"} => phase = "control" /\ record = {} /\ outcome # "ok"
    /\ outcome = "ok" /\ status = "relayed" =>
           record = {"input", "output"} /\ ExecutorPipe = {} /\ ToolPipe = {}

\* When a built-in has cancelled its child, who outlives it left the group, or
\* somebody held out against the SIGTERM; and after the SIGKILL nobody of the
\* group does (child.rs: the group kill reaches every descendant).
FelledTree ==
    tool \in {"join", "zombie"} /\ "term" \in signals =>
        \A p \in InGroup : Up(p) =>
            "kill" \notin signals /\ ~({p, "leader"} \subseteq traits.obeys)

\* A stop ends the call whatever the processes below it do, unless a descendant
\* of a program the harness did not write keeps the executor's pipe open.
StoppedCallEnds ==
    flag ~> (outcome # NIL \/ "descendant" \in ExecutorPipe)

\* A stopped `python` call leaves no program running (python/mod.rs: the
\* interpreter falls to the one SIGTERM).
ProgramEnds == outcome = "stopped" => ~Up("leader")
=============================================================================
