---------------------------- MODULE StopCascade ----------------------------
(***************************************************************************)
(* One `litany stop` against a tree of agents whose drivers go on while it *)
(* looks for them.  The stop lists the inbox directories of the subtree,   *)
(* asks /proc who holds each one open, vets the groups it found, and sends *)
(* SIGTERM, then SIGKILL after a deadline.  Drivers meanwhile hand the     *)
(* baton on through exec, fork children, answer their dispatcher and exit, *)
(* and depositors and scans open an inbox for a moment.                    *)
(*                                                                         *)
(* An agent is the path of its descent, so that the string prefix          *)
(* "<branch>-" is a proper prefix of the path.  A process is its pid; pids *)
(* are not used again.                                                     *)
(***************************************************************************)
EXTENDS Integers, Sequences, FiniteSets, SequencesExt

CONSTANTS
    Agents,      \* the agents there may ever be: a set of paths
    Target,      \* the branch that `litany stop` names
    Pids,        \* driver processes
    Visitors,    \* depositors, scans, deletes: they open an inbox and go
    JobControl,  \* the visitors that a shell made leaders of their own group
    SELF,        \* the process group of `litany stop`
    NONE

ASSUME TreeAssumption ==
    /\ Target \in Agents
    /\ \A a \in Agents : a # <<>> /\ (Len(a) > 1 => Front(a) \in Agents)
ASSUME ProcessAssumption ==
    /\ Pids \cap Visitors = {} /\ JobControl \subseteq Visitors
    /\ SELF \notin Pids \cup Visitors /\ NONE \notin Pids \cup Visitors \cup {SELF}

VARIABLES
    forked,   \* the agents whose ref exists
    inboxes,  \* the agents whose inbox directory exists
    mail,     \* the agents with a message pending
    lock,     \* lock[a]: the process that holds the flock of a's inbox, or NONE
    at,       \* at[p]: where a process is
    for,      \* for[p]: the agent it drives or visits, or NONE
    flags,    \* the drivers whose SIGTERM flag is set
    stop,     \* where `litany stop` is
    todo,     \* the directories it has still to look up, or groups to signal
    holder,   \* the holder it has just found, before it reads its group
    targets,  \* the process groups it resolved
    standing, \* history: who has driven an agent of the subtree since the stop began
    felled    \* history: the processes a signal of this stop reached

cascadeVars == <<forked, inboxes, mail, lock, at, for, flags,
          stop, todo, holder, targets, standing, felled>>
stopping == <<stop, todo, holder, targets>>
places == <<forked, inboxes>>

Procs == Pids \cup Visitors
Alive(p) == at[p] \notin {"none", "gone"}

\* collect_inbox_dirs: the branch, and every id that begins with "<branch>-".
InSubtree(a) == a = Target \/ IsStrictPrefix(Target, a)

\* The executor lock fd and a visitor's fd: any fd on the directory counts.
Holds(p, a) ==
    for[p] = a /\ (at[p] = "visiting" \/ at[p] \in {"driving", "image"})

\* leader_pgid: a driver has made itself a leader before it opens its lock
\* (setsid between fork and exec, setpgid in the binding's prelude), and its
\* pid is its group for good; a visitor is one only under job control.
Leads(p) == p \in Pids \cup JobControl

CascadeInit ==
    /\ forked = {a \in Agents : Len(a) = 1} /\ inboxes = forked
    /\ mail \in SUBSET forked
    /\ lock = [a \in Agents |-> NONE]
    /\ at = [p \in Procs |-> "none"] /\ for = [p \in Procs |-> NONE]
    /\ flags = {}
    /\ stop = "idle" /\ todo = {} /\ holder = NONE /\ targets = {}
    /\ standing = {} /\ felled = {}

\* What the documents call the subtree: the branch and its descendants.
Descends(a) == a = Target \/ IsStrictPrefix(Target, a)

-----------------------------------------------------------------------------
(* Drivers.                                                                *)

\* AdvanceLauncher::launch: a detached driver, in a session of its own.
Started(p, a) == at' = [at EXCEPT ![p] = "boot"] /\ for' = [for EXCEPT ![p] = a]

\* Mail into a quiescent agent: the deposit probes the lock and launches.
Launch(p, a) ==
    /\ at[p] = "none" /\ a \in inboxes /\ a \in mail /\ lock[a] = NONE
    /\ Started(p, a)
    /\ UNCHANGED <<places, mail, lock, flags, stopping, standing, felled>>

\* take_lease, and the mail is delivered; another driver has the lock: the
\* launched process goes.
TakeLease(p) ==
    /\ at[p] = "boot"
    /\ IF lock[for[p]] = NONE
       THEN /\ lock' = [lock EXCEPT ![for[p]] = p]
            /\ at' = [at EXCEPT ![p] = "driving"]
            /\ mail' = mail \ {for[p]}
       ELSE /\ at' = [at EXCEPT ![p] = "gone"]
            /\ UNCHANGED <<lock, mail>>
    /\ UNCHANGED <<places, for, flags, stopping, standing, felled>>

\* What ends with a process: its lock, and its place among the standing.
Ends(p) ==
    /\ at' = [at EXCEPT ![p] = "gone"]
    /\ lock' = [a \in Agents |-> IF lock[a] = p THEN NONE ELSE lock[a]]
    /\ standing' = standing \ {p}

\* The exec baton: the same pid, group and lock in a fresh image, whose flag
\* is clear and whose handler is not yet installed.
Baton(p) ==
    /\ at[p] = "driving" /\ p \notin flags
    /\ at' = [at EXCEPT ![p] = "image"]
    /\ UNCHANGED <<places, mail, lock, for, flags, stopping, standing, felled>>
\* A SIGTERM between the last look at the flag and the exec is lost with it.
BatonDropsFlag(p) ==
    /\ at[p] = "driving" /\ p \in flags
    /\ at' = [at EXCEPT ![p] = "image"] /\ flags' = flags \ {p}
    /\ UNCHANGED <<places, mail, lock, for, stopping, standing, felled>>
\* The prelude of the new image, and adopt: the lease goes on.
Adopt(p) ==
    /\ at[p] = "image"
    /\ at' = [at EXCEPT ![p] = "driving"]
    /\ UNCHANGED <<places, mail, lock, for, flags, stopping, standing, felled>>

\* A dispatch in a step: the child's ref, its inbox with the dispatch
\* message, and the launch of its driver.
Dispatch(p, c, q) ==
    /\ at[p] = "driving" /\ p \notin flags
    /\ c \in Agents \ forked /\ Len(c) > 1 /\ Front(c) = for[p]
    /\ at[q] = "none" /\ q \in Pids
    /\ forked' = forked \cup {c} /\ inboxes' = inboxes \cup {c}
    /\ mail' = mail \cup {c}
    /\ Started(q, c)
    /\ UNCHANGED <<lock, flags, stopping, standing, felled>>

\* A final response: the result lands in the dispatcher's inbox, the lock is
\* released, and the dispatcher is launched if nobody drives it.
Reply(p, q) ==
    LET a == for[p] IN
    /\ at[p] = "driving" /\ p \notin flags
    /\ IF Len(a) > 1 /\ lock[Front(a)] = NONE
       THEN /\ q \in Pids /\ at[q] = "none"
            /\ at' = [at EXCEPT ![p] = "gone", ![q] = "boot"]
            /\ for' = [for EXCEPT ![q] = Front(a)]
       ELSE /\ q = p
            /\ at' = [at EXCEPT ![p] = "gone"] /\ UNCHANGED for
    /\ mail' = IF Len(a) > 1 THEN mail \cup {Front(a)} ELSE mail
    /\ lock' = [lock EXCEPT ![a] = NONE]
    /\ standing' = standing \ {p}
    /\ UNCHANGED <<places, flags, stopping, felled>>

\* deposit_terminal(Stopped): the obituary is left without a launch.
StoppedExit(p) ==
    LET a == for[p] IN
    /\ at[p] = "driving" /\ p \in flags
    /\ mail' = IF Len(a) > 1 THEN mail \cup {Front(a)} ELSE mail
    /\ Ends(p)
    /\ UNCHANGED <<places, for, flags, stopping, felled>>

Driver(p) ==
    \/ \E a \in Agents : Launch(p, a)
    \/ TakeLease(p) \/ Baton(p) \/ BatonDropsFlag(p) \/ Adopt(p) \/ StoppedExit(p)
    \/ \E q \in Pids : Reply(p, q)
    \/ \E c \in Agents, q \in Pids : Dispatch(p, c, q)

\* A visitor lists or probes an inbox, and goes.
Visit(v, a) ==
    /\ at[v] = "none" /\ a \in inboxes
    /\ at' = [at EXCEPT ![v] = "visiting"] /\ for' = [for EXCEPT ![v] = a]
    /\ UNCHANGED <<places, mail, lock, flags, stopping, standing, felled>>
Leave(v) ==
    /\ v \in Visitors /\ at[v] = "visiting"
    /\ at' = [at EXCEPT ![v] = "gone"]
    /\ UNCHANGED <<places, mail, lock, for, flags, stopping, standing, felled>>

-----------------------------------------------------------------------------
(* The stop.                                                               *)

\* run: the branch exists; the directories are listed once.
StopBegin ==
    /\ stop = "idle" /\ Target \in forked
    /\ stop' = "look" /\ todo' = {a \in inboxes : InSubtree(a)}
    /\ standing' = {p \in Pids : at[p] \in {"driving", "image"} /\ Descends(for[p])}
    /\ UNCHANGED <<places, mail, lock, at, for, flags, holder, targets, felled>>

\* find_holder_pgid: the first process with an fd on the directory.
Look(a) ==
    /\ stop = "look" /\ a \in todo
    /\ todo' = todo \ {a}
    /\ \/ /\ \E p \in Procs : Holds(p, a) /\ holder' = p
          /\ stop' = "read"
       \/ /\ \A p \in Procs : ~Holds(p, a)
          /\ UNCHANGED <<stop, holder>>
    /\ UNCHANGED <<places, mail, lock, at, for, flags, targets, standing, felled>>

\* leader_pgid: the group is trusted when it is the holder's own pid.
ReadGroup ==
    /\ stop = "read" /\ Alive(holder) /\ Leads(holder)
    /\ targets' = targets \cup {holder}
    /\ stop' = "look" /\ holder' = NONE
    /\ UNCHANGED <<places, mail, lock, at, for, flags, todo, standing, felled>>
\* The holder is gone, or is no leader after all the retries: the sweep ends
\* before anything is signalled.
Refuse ==
    /\ stop = "read" /\ (~Alive(holder) \/ ~Leads(holder))
    /\ stop' = "refused" /\ holder' = NONE
    /\ UNCHANGED <<places, mail, lock, at, for, flags, todo, targets, standing, felled>>

\* Nobody found: idempotently done.  vet_targets: its own group refuses the
\* whole sweep.
Vet ==
    /\ stop = "look" /\ todo = {}
    /\ stop' = CASE targets = {} -> "done" [] SELF \in targets -> "refused" [] OTHER -> "term"
    /\ todo' = targets
    /\ UNCHANGED <<places, mail, lock, at, for, flags, holder, targets, standing, felled>>

\* kill(-pgid, SIGTERM), which a driver's handler turns into its flag; an
\* image without a handler, and a visitor, die of it.
Term(g) ==
    /\ stop = "term" /\ g \in todo
    /\ todo' = todo \ {g}
    /\ felled' = IF Alive(g) THEN felled \cup {g} ELSE felled
    /\ IF at[g] = "driving"
       THEN flags' = flags \cup {g} /\ UNCHANGED <<at, lock, standing>>
       ELSE /\ IF Alive(g) THEN Ends(g) ELSE UNCHANGED <<at, lock, standing>>
            /\ UNCHANGED flags
    /\ UNCHANGED <<places, mail, for, stop, holder, targets>>

\* cascade: it returns as soon as every group is gone.
Drained ==
    /\ stop = "term" /\ todo = {} /\ \A g \in targets : ~Alive(g)
    /\ stop' = "done"
    /\ UNCHANGED <<places, mail, lock, at, for, flags, todo, holder, targets, standing, felled>>
\* Mutant: the sweep waits for its drivers without a clock.
Deadline_Never == FALSE /\ UNCHANGED cascadeVars
\* Mutant: after the deadline the sweep returns.
Deadline_Returns ==
    /\ stop = "term" /\ todo = {} /\ \E g \in targets : Alive(g)
    /\ stop' = "done"
    /\ UNCHANGED <<places, mail, lock, at, for, flags, todo, holder, targets, standing, felled>>
\* The deadline passes with some of them alive.
Deadline ==
    /\ stop = "term" /\ todo = {} /\ \E g \in targets : Alive(g)
    /\ stop' = "kill" /\ todo' = targets
    /\ UNCHANGED <<places, mail, lock, at, for, flags, holder, targets, standing, felled>>
Kill(g) ==
    /\ stop = "kill" /\ g \in todo
    /\ todo' = todo \ {g}
    /\ IF Alive(g) THEN Ends(g) ELSE UNCHANGED <<at, lock, standing>>
    /\ UNCHANGED <<places, mail, for, flags, stop, holder, targets, felled>>
Killed ==
    /\ stop = "kill" /\ todo = {}
    /\ stop' = "done"
    /\ UNCHANGED <<places, mail, lock, at, for, flags, todo, holder, targets, standing, felled>>

Stop ==
    \/ StopBegin \/ ReadGroup \/ Refuse \/ Vet \/ Drained \/ Deadline \/ Killed
    \/ \E a \in Agents : Look(a)
    \/ \E g \in Procs \cup {SELF} : Term(g) \/ Kill(g)

CascadeNext ==
    \/ Stop
    \/ \E p \in Pids : Driver(p)
    \/ \E v \in Visitors : Leave(v) \/ \E a \in Agents : Visit(v, a)

CascadeSpec == CascadeInit /\ [][CascadeNext]_cascadeVars
\* Once it has begun, `litany stop` is scheduled, and its clock runs.
CascadeFairSpec == CascadeSpec /\ WF_cascadeVars(Stop /\ stop # "idle")

-----------------------------------------------------------------------------
(* Properties.                                                             *)

\* What signals reached is the drivers of the subtree alone: no bystander, no
\* sibling, nobody's shell (mod.rs: the two vettings of a discovered group),
\* because a lock is held by a live driver of its agent, in whatever image.
\* And a stop that reports success has felled every driver that drove an agent
\* of the subtree from its beginning to its end, through any number of exec
\* hand-overs and although a hand-over may swallow the SIGTERM (a stop that
\* holds nothing it names is worse than a refusal).
FellsTheSubtree ==
    /\ \A a \in Agents : lock[a] # NONE => for[lock[a]] = a /\ at[lock[a]] \in {"driving", "image"}
    /\ \A p \in felled : p \in Pids /\ Descends(for[p])
    /\ stop = "done" => standing = {}

\* A stop comes to its end whatever the drivers do.
StopEnds == stop # "idle" ~> stop \in {"done", "refused"}
=============================================================================
