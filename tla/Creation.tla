------------------------------ MODULE Creation ------------------------------
(***************************************************************************)
(* How agents come to be: a root by `litany prompt`, which then drives it, *)
(* a child by `litany dispatch` of the model, of a workflow or of the      *)
(* operator, which leaves it to a driver of its own.  A creation settles   *)
(* the agent's name, asks the budget of the whole tree, and then makes its *)
(* homes one by one: the marks, the ref and the worktree, the dispatch     *)
(* commit, the inbox.  It may be killed between any two, at the side of    *)
(* other creations and of drivers who spend the same budget.               *)
(*                                                                         *)
(* An id is made once: it is its parent's with a segment of a timestamp    *)
(* and random digits after it, here a sequence of segments.                *)
(***************************************************************************)
EXTENDS Integers, FiniteSets, SequencesExt

CONSTANTS
    Ids,          \* the ids that will be minted
    Names,        \* the names that can be supplied or minted
    Limit,        \* budgets.max_total_tokens, a step costing one
    MaxDepth,     \* budgets.max_depth
    MaxCrashes    \* bound: creations and drivers killed

ASSUME IdsAssumption ==
    /\ IsFiniteSet(Ids) /\ Ids \subseteq Seq(Nat) \ {<<>>}
    /\ \A i \in Ids : Len(i) > 1 => Front(i) \in Ids
ASSUME LimitAssumption == Limit \in Nat \ {0} /\ MaxDepth \in Nat
ASSUME BoundsAssumption == MaxCrashes \in Nat

VARIABLES
    phase,       \* the step each creation is about to take
    given,       \* the name each creation settled on
    home,        \* which of its homes each id has
    committed,   \* the ids whose dispatch commit is on their ref
    worn,        \* the name in the tree at each id's ref
    mail,        \* the ids with a message pending in the inbox
    drive,       \* what the executor who holds each id's lock is doing
    spent,       \* the steps recorded under steps/<id>
    overlapped,  \* history: the pairs of creations of which one settled its
                 \* name before the other's was committed
    crashes

creation == <<phase, given, home, committed, worn, mail, drive, spent, overlapped, crashes>>

Unnamed == "unnamed"

CreationInit ==
    /\ phase = [i \in Ids |-> "ask"] /\ given = [i \in Ids |-> Unnamed]
    /\ home = [i \in Ids |-> {}] /\ committed = {} /\ worn = [i \in Ids |-> Unnamed]
    /\ mail = {} /\ drive = [i \in Ids |-> "off"] /\ spent = [i \in Ids |-> 0]
    /\ overlapped = {} /\ crashes = 0

-----------------------------------------------------------------------------
(* The id space, and what is derived from it.                              *)

\* Those that begin a conversation, and the agent a child is dispatched by.
Roots == {i \in Ids : Len(i) = 1}
Parent(i) == Front(i)
DepthOf(i) == Len(i) - 1
RootOf(i) == SubSeq(i, 1, 1)
\* The id and its hyphen-descendants.
Subtree(r) == {i \in Ids : IsPrefix(r, i)}

Agents == {i \in Ids : "ref" \in home[i]}
\* resolve: an exact id aside, whom a name addresses: the one agent that
\* wears it; two are refused, and a name nobody wears is read as an id.
Hits(n) == {i \in Agents : worn[i] = n}
\* Mutant: of several agents that wear the name, one is taken.
Resolve_First(n) == IF Hits(n) = {} THEN {} ELSE {CHOOSE i \in Hits(n) : TRUE}
Resolve(n) == IF Cardinality(Hits(n)) = 1 THEN Hits(n) ELSE {}

\* The steps recorded under steps/ for an id and its descent, and the spend
\* of the conversation an id belongs to.
Recorded(r) == UNION {{j} \X (1..spent[j]) : j \in Subtree(r)}
Spend(i) == Cardinality(Recorded(RootOf(i)))
\* budget::check: tokens at the limit are exhausted, depth beyond it.
\* Mutant: the agent's own steps are counted, not its subtree's.
Exhausted_Own(i) == spent[i] >= Limit \/ DepthOf(i) > MaxDepth
Exhausted(i) == Spend(i) >= Limit \/ DepthOf(i) > MaxDepth

Gains(i, hs) == home' = [home EXCEPT ![i] = @ \cup hs]

-----------------------------------------------------------------------------
(* A creation, one step at a time.                                         *)

\* A root's executor holds its lock from before the ref exists, and says
\* the first message before the dispatch commit; a child's message follows
\* it, and whoever drives the child is launched.
After(i) ==
    IF i \in Roots
    THEN [ask |-> "name", name |-> "lock", lock |-> "mark", mark |-> "fork",
          fork |-> "post", post |-> "commit", commit |-> "made"][phase[i]]
    ELSE [ask |-> "name", name |-> "budget", budget |-> "mark", mark |-> "fork",
          fork |-> "commit", commit |-> "post", post |-> "made"][phase[i]]
Goes(i) == phase' = [phase EXCEPT ![i] = After(i)]
Ends(i, how) == phase' = [phase EXCEPT ![i] = how]

Making == {i \in Ids : phase[i] \in {"budget", "lock", "mark", "fork", "commit", "post"}}

\* The verbs decline what they can before they look at names: the ref to
\* fork off, the pins and the directory of a root; the parent, the ref and
\* the role of a child.
Validates(i) == i \notin Roots => Parent(i) \in Agents
Ask(i) ==
    /\ phase[i] = "ask" /\ Validates(i)
    /\ Goes(i) \/ Ends(i, "refused")
    /\ UNCHANGED <<given, home, committed, worn, mail, drive, spent, overlapped, crashes>>

\* preflight: a supplied name must be worn by nobody, a minted one is the
\* first the generator meets that is; the refs are read once.
Free(i) == Names \ {worn[j] : j \in Agents}
Name(i) ==
    /\ phase[i] = "name"
    /\ \/ \E n \in Free(i) : given' = [given EXCEPT ![i] = n] /\ Goes(i)
       \/ Free(i) # Names /\ Ends(i, "refused") /\ UNCHANGED given
    /\ overlapped' = overlapped \cup {{i, j} : j \in Making \ committed}
    /\ UNCHANGED <<home, committed, worn, mail, drive, spent, crashes>>

\* Everything that refuses a dispatch is asked before anything is written.
Budget(i) ==
    /\ phase[i] = "budget"
    /\ IF Exhausted(i) THEN Ends(i, "refused") ELSE Goes(i)
    /\ UNCHANGED <<given, home, committed, worn, mail, drive, spent, overlapped, crashes>>

Lock(i) ==
    /\ phase[i] = "lock" /\ drive[i] = "off"
    /\ drive' = [drive EXCEPT ![i] = "making"] /\ Gains(i, {"inbox"}) /\ Goes(i)
    /\ UNCHANGED <<given, committed, worn, mail, spent, overlapped, crashes>>

\* seed_cwd, when the request names a directory.
SeedCwd(i) ==
    /\ phase[i] = "mark" /\ Goes(i)
    /\ Gains(i, {"mark"}) \/ UNCHANGED home
    /\ UNCHANGED <<given, committed, worn, mail, drive, spent, overlapped, crashes>>

\* `git worktree add -b`: until the dispatch commit the new ref is its fork
\* point, and wears the name of the agent it was forked off.  A child forks
\* off its parent by default, a root off a config, either off any ref that
\* is named; an id stands for a config, which wears none, until it is made.
Points(i) == IF i \in Roots \/ "worktree" \in home[Parent(i)] THEN Agents \cup {i} ELSE {}
Fork(i) ==
    /\ phase[i] = "fork" /\ Goes(i)
    /\ \E from \in Points(i) : worn' = [worn EXCEPT ![i] = worn[from]]
    /\ Gains(i, {"ref", "worktree"})
    /\ UNCHANGED <<given, committed, mail, drive, spent, overlapped, crashes>>
\* The worktree of the agent that dispatches is gone: git runs in it.
CannotFork(i) ==
    /\ phase[i] = "fork" /\ Points(i) = {} /\ Ends(i, "failed")
    /\ UNCHANGED <<given, home, committed, worn, mail, drive, spent, overlapped, crashes>>

\* The trim to the agent's own context settles its name, in the same commit
\* as the goal and the soul.
Commit(i) ==
    /\ phase[i] = "commit" /\ {"ref", "worktree"} \subseteq home[i] /\ Goes(i)
    /\ worn' = [worn EXCEPT ![i] = given[i]] /\ committed' = committed \cup {i}
    /\ drive' = IF i \in Roots THEN [drive EXCEPT ![i] = "boundary"] ELSE drive
    /\ mail' = IF i \in Roots THEN mail \ {i} ELSE mail
    /\ UNCHANGED <<given, home, spent, overlapped, crashes>>
CannotCommit(i) ==
    /\ phase[i] = "commit" /\ ~({"ref", "worktree"} \subseteq home[i]) /\ Ends(i, "failed")
    /\ drive' = [drive EXCEPT ![i] = "off"]
    /\ UNCHANGED <<given, home, committed, worn, mail, spent, overlapped, crashes>>

\* The front door: a deposit asks no registry.
Post(i) ==
    /\ phase[i] = "post" /\ Goes(i)
    /\ Gains(i, {"inbox"}) /\ mail' = mail \cup {i}
    /\ UNCHANGED <<given, committed, worn, drive, spent, overlapped, crashes>>

\* A stop kills the dispatch tool's group; the operator kills the command.
Killed(i) ==
    /\ phase[i] \in {"budget", "lock", "mark", "fork", "commit", "post"} /\ crashes < MaxCrashes
    /\ crashes' = crashes + 1 /\ Ends(i, "failed")
    /\ drive' = [drive EXCEPT ![i] = "off"]
    /\ UNCHANGED <<given, home, committed, worn, mail, spent, overlapped>>

-----------------------------------------------------------------------------
(* What the agents then do, as far as their homes and the budget go.       *)

\* A driver acquires the lock and drains.
Wake(i) ==
    /\ drive[i] = "off" /\ i \in mail /\ i \in Agents
    /\ drive' = [drive EXCEPT ![i] = "boundary"] /\ mail' = mail \ {i}
    /\ UNCHANGED <<phase, given, home, committed, worn, spent, overlapped, crashes>>

\* Each model call is preceded by the check; its usage counts once its
\* record is in steps/.
Call(i) ==
    /\ drive[i] = "boundary" /\ {"ref", "worktree"} \subseteq home[i] /\ ~Exhausted(i)
    /\ drive' = [drive EXCEPT ![i] = "calling"]
    /\ UNCHANGED <<phase, given, home, committed, worn, mail, spent, overlapped, crashes>>
Record(i) ==
    /\ drive[i] = "calling"
    /\ \E next \in {"boundary", "final"} : drive' = [drive EXCEPT ![i] = next]
    /\ spent' = [spent EXCEPT ![i] = @ + 1] /\ Gains(i, {"steps"})
    /\ UNCHANGED <<phase, given, committed, worn, mail, overlapped, crashes>>

\* A terminal event: a child's result, or its obituary, goes to the inbox of
\* its parent, and a mark says that it returned, or that the budget ended it.
Concludes(i, noted) ==
    /\ drive' = [drive EXCEPT ![i] = "off"]
    /\ IF i \in Roots THEN UNCHANGED mail /\ Gains(i, noted)
       ELSE /\ mail' = mail \cup {Parent(i)}
            /\ home' = [home EXCEPT ![i] = @ \cup {"mark"}, ![Parent(i)] = @ \cup {"inbox"}]
Answer(i) ==
    /\ drive[i] = "final" /\ i \in Agents /\ Concludes(i, {})
    /\ UNCHANGED <<phase, given, committed, worn, spent, overlapped, crashes>>
OutOfBudget(i) ==
    /\ drive[i] = "boundary" /\ i \in Agents /\ Exhausted(i) /\ Concludes(i, {"mark"})
    /\ UNCHANGED <<phase, given, committed, worn, spent, overlapped, crashes>>
\* Its agent was deleted under it.
Bereft(i) ==
    /\ drive[i] \in {"boundary", "final"} /\ ~({"ref", "worktree"} \subseteq home[i])
    /\ drive' = [drive EXCEPT ![i] = "off"]
    /\ UNCHANGED <<phase, given, home, committed, worn, mail, spent, overlapped, crashes>>
DriverDies(i) ==
    /\ drive[i] \in {"boundary", "calling", "final"} /\ crashes < MaxCrashes
    /\ drive' = [drive EXCEPT ![i] = "off"] /\ crashes' = crashes + 1
    /\ UNCHANGED <<phase, given, home, committed, worn, mail, spent, overlapped>>

CreationNext ==
    \E i \in Ids :
      \/ Ask(i) \/ Name(i) \/ Budget(i) \/ Lock(i) \/ SeedCwd(i) \/ Fork(i) \/ CannotFork(i)
      \/ Commit(i) \/ CannotCommit(i) \/ Post(i) \/ Killed(i)
      \/ Wake(i) \/ Call(i) \/ Record(i) \/ Answer(i) \/ OutOfBudget(i)
      \/ Bereft(i) \/ DriverDies(i)

-----------------------------------------------------------------------------
(* Properties.                                                             *)

\* The budget is one for the whole conversation, and is asked before every
\* step: however many agents step at once, and whatever is deleted, a
\* conversation spends at most one step beyond the last one that fits for
\* each agent that was let in.
Admitted(r) == {i \in Subtree(r) : phase[i] \notin {"ask", "name", "refused"}}
Funded ==
    \A r \in Roots : Spend(r) <= Limit - 1 + Cardinality(Admitted(r))

\* Two agents that wear one name were being created at the same time, or one
\* of them is a creation that has not committed, or never will; and an agent
\* wears the name it was given, by which a message never reaches another,
\* whatever half-made forks wear it as well (mint.rs, subagent: no two live names).
NamesHold ==
    /\ \A i, j \in Agents \cap committed :
         i # j /\ worn[i] = worn[j] => {i, j} \in overlapped
    /\ \A i \in Agents \cap committed : i \in Hits(given[i]) /\ Resolve(given[i]) \subseteq {i}
=============================================================================
