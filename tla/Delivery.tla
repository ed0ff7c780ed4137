------------------------------ MODULE Delivery ------------------------------
(***************************************************************************)
(* One agent's inbox and the processes that meet around it.  Writers       *)
(* (`litany message`, the `message` tool, a child's result deposit) put a  *)
(* file in the inbox and then probe the executor lock; detached drivers    *)
(* (`litany advance`) take the lock, drain the inbox into the transcript,  *)
(* step, release and re-read; `litany scan` probes the lock, then flushes; *)
(* a census (`litany delete`, which probes before it decides) only probes. *)
(* No process waits for another: the only coordination is the inbox        *)
(* listing, one non-blocking flock, and the launches.                      *)
(*                                                                         *)
(* A message is identified with the writer that carries it.  mtime is the  *)
(* tick of the write; two writes never share one (see the README).         *)
(***************************************************************************)
EXTENDS Integers, Sequences, FiniteSets, Functions

CONSTANTS
    Writers,     \* the deposits, one process each
    Drivers,     \* slots for the advance processes alive at the same time
    Scans,       \* runs of `litany scan`
    Censuses,    \* runs of `litany delete` that probe and delete nothing
    SenderOf,    \* SenderOf[w]: the `<sender>` of w's file name
    Serial,      \* the senders whose deposits never overlap
    Kind,        \* Kind[w]: what w deposits (see Kinds)
    Gated,       \* own child's results the workflow may hold for a verifier
    NONE,        \* no process holds the lock
    MaxSeq,      \* bound: sequence numbers of one sender
    MaxFaults,   \* bound: process deaths, errors, failed launches
    MaxTouches   \* bound: advances started by hand

\* plain: steering mail.  wake: an own child's result that revives the
\* recipient.  park: an own child's stopped / budget-exhausted result, which
\* is deposited and deliberately not probed for.
Kinds == {"plain", "wake", "park"}

Procs == Writers \cup Drivers \cup Scans \cup Censuses

ASSUME NoneAssumption == NONE \notin Procs
ASSUME RolesAssumption ==
    /\ Writers \cap (Drivers \cup Scans \cup Censuses) = {}
    /\ Drivers \cap (Scans \cup Censuses) = {}
    /\ Scans \cap Censuses = {}
ASSUME KindAssumption == Kind \in [Writers -> Kinds]
ASSUME BoundsAssumption ==
    MaxSeq \in Nat /\ MaxFaults \in Nat /\ MaxTouches \in Nat

VARIABLES
    pc,         \* pc[p]: where process p is
    wseq,       \* wseq[w]: the number w derived from its listing
    clock,      \* the last mtime handed out
    tmp,        \* the `.<name>.tmp` files
    inbox,      \* the `<sender>-<NNN>.md` files
    lock,       \* the flock on the inbox directory
    launches,   \* detached drivers spawned that have not tried the lock yet
    batch,      \* batch[d]: files d has listed and not yet dealt with
    seen,       \* seen[d]: files d listed and deliberately left
    epitaph,    \* epitaph[d]: TRUE iff d's hop ended in a final response
    stray,      \* delivered by rename, not committed yet
    log,        \* the deposits of the committed transcript, in order
    due,        \* the transcript tail warrants a model call
    mark,       \* the hold mark: the branch is parked in a tool window
    waived,     \* history: messages nobody owes a launch any more
    faults, touches

vars == <<pc, wseq, clock, tmp, inbox, lock, launches, batch, seen, epitaph,
          stray, log, due, mark, waived, faults, touches>>

-----------------------------------------------------------------------------
Files == [from : {SenderOf[w] : w \in Writers}, seq : Nat, mtime : Nat,
          msg : Writers]

SameName(f, g) == f.from = g.from /\ f.seq = g.seq

\* SeenDeposit::matches: the pair (name, mtime), never the name alone.
Matches(f, g) == SameName(f, g) /\ f.mtime = g.mtime

Msgs(files) == {f.msg : f \in files}

\* Mutant: the sort runs the other way.
Oldest_Newest(files, f) == \A g \in files : f.mtime >= g.mtime

\* pending() sorts by (mtime, name); mtimes are distinct.
Oldest(files, f) == \A g \in files : f.mtime <= g.mtime

\* A result from this agent's own child is left by the drain to the
\* child-result interpreter.
OwnResult(f) == Kind[f.msg] # "plain"

\* deposit_warrants_launch: a parked epitaph asks for no driver.
WarrantsLaunch(f) == Kind[f.msg] # "park"

\* Mutant: every deposit starts again at the first number.
IsNextSeq_First(s, n) == n = 1

\* next_sequence: one more than the sender's largest number in the listing.
IsNextSeq(s, n) ==
    LET used == {f.seq : f \in {g \in inbox : g.from = s}} IN
    /\ \A u \in used : u < n
    /\ n = 1 \/ n - 1 \in used

Init ==
    /\ pc = [p \in Procs |-> "idle"]
    /\ wseq = [w \in Writers |-> 0]
    /\ clock = 0
    /\ tmp = {} /\ inbox = {}
    /\ lock = NONE
    /\ launches = 0
    /\ batch = [d \in Drivers |-> {}]
    /\ seen = [d \in Drivers |-> {}]
    /\ epitaph = [d \in Drivers |-> FALSE]
    /\ stray = <<>> /\ log = <<>>
    /\ due = FALSE /\ mark = FALSE
    /\ waived = {}
    /\ faults = 0 /\ touches = 0

Goto(p, l) == pc' = [pc EXCEPT ![p] = l]
mailVars == <<wseq, clock, tmp, inbox>>
treeVars == <<stray, log, due, mark>>
hopVars == <<batch, seen, epitaph>>
bounds == <<faults, touches>>

-----------------------------------------------------------------------------
(* deposit: list, write the temporary file, rename it into place.          *)

Depositing == {"listed", "staged"}

\* A serial sender (an agent: its tool calls run one at a time) starts a
\* deposit only when it is not inside another one.
ListOwn(w) ==
    /\ pc[w] = "idle"
    /\ SenderOf[w] \in Serial =>
          \A v \in Writers : SenderOf[v] = SenderOf[w] => pc[v] \notin Depositing
    /\ \E n \in 1..MaxSeq :
          IsNextSeq(SenderOf[w], n) /\ wseq' = [wseq EXCEPT ![w] = n]
    /\ Goto(w, "listed")
    /\ UNCHANGED <<clock, tmp, inbox, lock, launches, hopVars, treeVars, waived, bounds>>

FileOf(w) == [from |-> SenderOf[w], seq |-> wseq[w], mtime |-> clock + 1, msg |-> w]

\* std::fs::write truncates whatever another deposit left under that name.
Stage(w) ==
    /\ pc[w] = "listed"
    /\ tmp' = {f \in tmp : ~SameName(f, FileOf(w))} \cup {FileOf(w)}
    /\ clock' = clock + 1
    /\ Goto(w, "staged")
    /\ UNCHANGED <<wseq, inbox, lock, launches, hopVars, treeVars, waived, bounds>>

\* rename(2) replaces the target and moves whatever the temporary name holds.
\* A parked result's depositor does not probe.
Rename(w) ==
    /\ pc[w] = "staged"
    /\ \E f \in tmp :
          /\ f.from = SenderOf[w] /\ f.seq = wseq[w]
          /\ tmp' = tmp \ {f}
          /\ inbox' = {g \in inbox : ~SameName(f, g)} \cup {f}
    /\ Goto(w, IF Kind[w] = "park" THEN "done" ELSE "probe")
    /\ wseq' = [wseq EXCEPT ![w] = 0]
    /\ UNCHANGED <<clock, lock, launches, hopVars, treeVars, waived, bounds>>

\* The temporary file is gone: another deposit renamed it. DepositError.
RenameFails(w) ==
    /\ pc[w] = "staged"
    /\ ~ \E f \in tmp : f.from = SenderOf[w] /\ f.seq = wseq[w]
    /\ Goto(w, "failed")
    /\ UNCHANGED <<mailVars, lock, launches, hopVars, treeVars, waived, bounds>>

-----------------------------------------------------------------------------
(* probe_and_launch, shared by the writers, the post-release re-read and   *)
(* the scan's flush.  A successful probe promises a launch, so everything  *)
(* in the inbox is owed again.                                             *)

AfterProbe(p) == IF p \in Drivers THEN "exit" ELSE "done"

ProbeFree(p) ==
    /\ pc[p] = "probe" /\ lock = NONE
    /\ lock' = p
    /\ waived' = {}
    /\ Goto(p, "probing")
    /\ UNCHANGED <<mailVars, launches, hopVars, treeVars, bounds>>

ProbeBusy(p) ==
    /\ pc[p] = "probe" /\ lock # NONE
    /\ Goto(p, AfterProbe(p))
    /\ UNCHANGED <<mailVars, lock, launches, hopVars, treeVars, waived, bounds>>

\* Mutant: launch while the probe still holds the lock.
ProbeDrop_KeepsLock(p) ==
    /\ pc[p] = "probing"
    /\ Goto(p, "launch")
    /\ UNCHANGED <<mailVars, lock, launches, hopVars, treeVars, waived, bounds>>

ProbeDrop(p) ==
    /\ pc[p] = "probing"
    /\ lock' = NONE
    /\ Goto(p, "launch")
    /\ UNCHANGED <<mailVars, launches, hopVars, treeVars, waived, bounds>>

\* Mutant: the free probe is not followed by a launch.
Launch_Skipped(p) ==
    /\ pc[p] = "launch"
    /\ Goto(p, AfterProbe(p))
    /\ UNCHANGED <<mailVars, lock, launches, hopVars, treeVars, waived, bounds>>

Launch(p) ==
    /\ pc[p] = "launch"
    /\ launches' = launches + 1
    /\ Goto(p, AfterProbe(p))
    /\ UNCHANGED <<mailVars, lock, hopVars, treeVars, waived, bounds>>

-----------------------------------------------------------------------------
(* The driver: advance::run under the lock.                                *)

\* A launched advance that finds the lock free drives; one that does not is
\* AlreadyDriven and exits.
StartWin(d) ==
    /\ launches > 0 /\ lock = NONE /\ pc[d] = "idle"
    /\ launches' = launches - 1
    /\ lock' = d
    /\ Goto(d, "hop")
    /\ UNCHANGED <<mailVars, hopVars, treeVars, waived, bounds>>

\* Mutant: one driver exits for two launches.
StartLose_Twice ==
    /\ launches > 0 /\ lock # NONE
    /\ launches' = launches - 2
    /\ UNCHANGED <<pc, mailVars, lock, hopVars, treeVars, waived, bounds>>

StartLose ==
    /\ launches > 0 /\ lock # NONE
    /\ launches' = launches - 1
    /\ UNCHANGED <<pc, mailVars, lock, hopVars, treeVars, waived, bounds>>

\* Mutant: a stray found in the worktree is cleaned away, not committed.
ListInbox_DropsStrays(d) ==
    /\ pc[d] = "hop" /\ ~mark
    /\ stray' = <<>>
    /\ batch' = [batch EXCEPT ![d] = {f \in inbox : ~OwnResult(f)}]
    /\ seen' = [seen EXCEPT ![d] = {f \in inbox : OwnResult(f)}]
    /\ waived' = Msgs({f \in inbox : OwnResult(f)})
    /\ Goto(d, "deliver")
    /\ UNCHANGED <<mailVars, lock, launches, epitaph, log, due, mark, bounds>>

\* No hold mark: deliver. recover_strays commits what a death left renamed,
\* then the inbox is listed once; own results are left and remembered.
ListInbox(d) ==
    /\ pc[d] = "hop" /\ ~mark
    /\ log' = log \o stray /\ stray' = <<>>
    /\ due' = (due \/ stray # <<>>)
    /\ batch' = [batch EXCEPT ![d] = {f \in inbox : ~OwnResult(f)}]
    /\ seen' = [seen EXCEPT ![d] = {f \in inbox : OwnResult(f)}]
    /\ waived' = Msgs({f \in inbox : OwnResult(f)})
    /\ Goto(d, "deliver")
    /\ UNCHANGED <<mailVars, lock, launches, epitaph, mark, bounds>>

\* deliver_message: the rename is one step, its commit another.
MoveNext(d, from, to) ==
    /\ pc[d] = from
    /\ \E f \in batch[d] :
          /\ Oldest(batch[d], f)
          /\ batch' = [batch EXCEPT ![d] = @ \ {f}]
          /\ \E g \in inbox :
                /\ SameName(f, g)
                /\ inbox' = inbox \ {g}
                /\ stray' = Append(stray, g)
    /\ Goto(d, to)
    /\ UNCHANGED <<wseq, clock, tmp, lock, launches, seen, epitaph, log, due, mark,
                   waived, bounds>>

CommitMoved(d, from, to) ==
    /\ pc[d] = from
    /\ log' = log \o stray /\ stray' = <<>>
    /\ due' = TRUE
    /\ Goto(d, to)
    /\ UNCHANGED <<mailVars, lock, launches, hopVars, mark, waived, bounds>>

\* has_pending_result / interpret_pending list the inbox again: a result that
\* came after the drain's listing is interpreted without ever being `seen`.
ListResults(d) ==
    /\ pc[d] = "deliver" /\ batch[d] = {}
    /\ batch' = [batch EXCEPT ![d] = {f \in inbox : OwnResult(f)}]
    /\ Goto(d, "interpret")
    /\ UNCHANGED <<mailVars, lock, launches, seen, epitaph, treeVars, waived, bounds>>

\* The workflow holds this result (a verifier is to judge it): the file stays.
HoldResult(d) ==
    /\ pc[d] = "interpret"
    /\ \E f \in batch[d] :
          /\ Oldest(batch[d], f) /\ f.msg \in Gated
          /\ batch' = [batch EXCEPT ![d] = @ \ {f}]
    /\ UNCHANGED <<pc, mailVars, lock, launches, seen, epitaph, treeVars, waived, bounds>>

\* warrant: nothing due releases in silence; otherwise step.
Warrant(d) ==
    /\ pc[d] = "interpret" /\ batch[d] = {}
    /\ Goto(d, IF due THEN "step" ELSE "release")
    /\ UNCHANGED <<mailVars, lock, launches, hopVars, treeVars, waived, bounds>>

\* One warranted step, by its outcome.  The model call and the tools touch
\* neither the inbox nor the lock (ToolWindow has them).  After tools the
\* lease rides the exec baton: the successor enters the next hop holding it.
StepTools(d) ==
    /\ pc[d] = "step"
    /\ due' = TRUE
    /\ Goto(d, "hop")
    /\ UNCHANGED <<mailVars, lock, launches, hopVars, stray, log, mark, waived, bounds>>

StepFinal(d) ==
    /\ pc[d] = "step"
    /\ due' = FALSE
    /\ epitaph' = [epitaph EXCEPT ![d] = TRUE]
    /\ Goto(d, "release")
    /\ UNCHANGED <<mailVars, lock, launches, batch, seen, stray, log, mark, waived, bounds>>

\* stopped, budget-exhausted: the tail keeps what was due.
StepCeases(d) ==
    /\ pc[d] = "step"
    /\ Goto(d, "release")
    /\ UNCHANGED <<mailVars, lock, launches, hopVars, treeVars, waived, bounds>>

\* The control held an invocation: park under the hold mark.
StepParks(d) ==
    /\ pc[d] = "step"
    /\ mark' = TRUE
    /\ Goto(d, "release")
    /\ UNCHANGED <<mailVars, lock, launches, hopVars, stray, log, due, waived, bounds>>

\* held::resume, entered before delivery: all pending mail is accounted as
\* seen and none of it is delivered.
EnterHeld(d) ==
    /\ pc[d] = "hop" /\ mark
    /\ seen' = [seen EXCEPT ![d] = inbox]
    /\ waived' = Msgs(inbox)
    /\ Goto(d, "held")
    /\ UNCHANGED <<mailVars, lock, launches, batch, epitaph, treeVars, bounds>>

\* Held again: the mark stays and the branch parks once more.
HeldParks(d) ==
    /\ pc[d] = "held"
    /\ Goto(d, "release")
    /\ UNCHANGED <<mailVars, lock, launches, hopVars, treeVars, waived, bounds>>

\* The window completed: the successor hop delivers the queued mail.
\* (A stale mark is cleared the same way and the hop goes on to deliver.)
HeldCompletes(d) ==
    /\ pc[d] = "held"
    /\ mark' = FALSE /\ due' = TRUE
    /\ Goto(d, "hop")
    /\ UNCHANGED <<mailVars, lock, launches, hopVars, stray, log, waived, bounds>>

\* The window was stopped: it is settled, so the tail is due, and the
\* terminal releases with everything seen.
HeldStops(d) ==
    /\ pc[d] = "held"
    /\ mark' = FALSE /\ due' = TRUE
    /\ Goto(d, "release")
    /\ UNCHANGED <<mailVars, lock, launches, hopVars, stray, log, waived, bounds>>

Release(d) ==
    /\ pc[d] = "release"
    /\ lock' = NONE
    /\ Goto(d, "reread")
    /\ UNCHANGED <<mailVars, launches, hopVars, treeVars, waived, bounds>>

\* Mutant: the re-read forgets what the driver deliberately left.
Owed_Unseen(d) == \E f \in inbox : WarrantsLaunch(f)

\* The re-read strictly after the release: is some pending file outside the
\* seen set owed a launch?
Owed(d) == \E f \in inbox : WarrantsLaunch(f) /\ \A g \in seen[d] : ~Matches(g, f)

\* Mutant: release without the re-read.
Reread_Skipped(d) ==
    /\ pc[d] = "reread"
    /\ Goto(d, "exit")
    /\ seen' = [seen EXCEPT ![d] = {}]
    /\ UNCHANGED <<mailVars, lock, launches, batch, epitaph, treeVars, waived, bounds>>

Reread(d) ==
    /\ pc[d] = "reread"
    /\ Goto(d, IF Owed(d) THEN "probe" ELSE "exit")
    /\ seen' = [seen EXCEPT ![d] = {}]
    /\ UNCHANGED <<mailVars, lock, launches, batch, epitaph, treeVars, waived, bounds>>

\* exit_launch: only a final response launches a driver at itself.
Exit(d) ==
    /\ pc[d] = "exit"
    /\ launches' = IF epitaph[d] THEN launches + 1 ELSE launches
    /\ epitaph' = [epitaph EXCEPT ![d] = FALSE]
    /\ Goto(d, "idle")
    /\ UNCHANGED <<mailVars, lock, batch, seen, treeVars, waived, bounds>>

-----------------------------------------------------------------------------
(* The scan: the sweep's is_driven probe, which launches nothing, and then *)
(* the flush.  The census: the same kind of probe, and nothing after it.   *)

LookFree(p) ==
    /\ p \in Scans \cup Censuses
    /\ pc[p] = "idle" /\ lock = NONE
    /\ lock' = p
    /\ Goto(p, "looking")
    /\ UNCHANGED <<mailVars, launches, hopVars, treeVars, waived, bounds>>

AfterLook(p) == IF p \in Scans THEN "flush" ELSE "done"

LookBusy(p) ==
    /\ p \in Scans \cup Censuses
    /\ pc[p] = "idle" /\ lock # NONE
    /\ Goto(p, AfterLook(p))
    /\ UNCHANGED <<mailVars, lock, launches, hopVars, treeVars, waived, bounds>>

LookDrop(p) ==
    /\ pc[p] = "looking"
    /\ lock' = NONE
    /\ Goto(p, AfterLook(p))
    /\ UNCHANGED <<mailVars, launches, hopVars, treeVars, waived, bounds>>

Flush(s) ==
    /\ pc[s] = "flush"
    /\ Goto(s, IF inbox = {} THEN "done" ELSE "probe")
    /\ UNCHANGED <<mailVars, lock, launches, hopVars, treeVars, waived, bounds>>

-----------------------------------------------------------------------------
(* Deaths, errors and the hand-run advance.                                *)

Undelivered == Msgs(inbox \cup Range(stray))

\* The program counters at which process p holds the lock.
Driving == {"hop", "deliver", "moved", "interpret", "imoved", "step", "held", "release"}
Holding == Driving \cup {"probing", "looking"}

\* A process dies or returns an error: the kernel frees its lock, and what
\* it owed is waived (the accepted crash class).  A writer that dies before
\* its rename owed nobody anything.
Die(p) ==
    /\ faults < MaxFaults
    /\ pc[p] \notin {"idle", "done", "failed"}
    /\ faults' = faults + 1
    /\ Goto(p, IF p \in Drivers THEN "idle" ELSE "failed")
    /\ lock' = IF lock = p THEN NONE ELSE lock
    /\ waived' = IF pc[p] \in Depositing THEN waived ELSE waived \cup Undelivered
    /\ batch' = [d \in Drivers |-> IF d = p THEN {} ELSE batch[d]]
    /\ seen' = [d \in Drivers |-> IF d = p THEN {} ELSE seen[d]]
    /\ epitaph' = [d \in Drivers |-> d # p /\ epitaph[d]]
    /\ UNCHANGED <<mailVars, launches, treeVars, touches>>

\* The spawned driver dies before it tries the lock.
LaunchedDies ==
    /\ faults < MaxFaults /\ launches > 0
    /\ faults' = faults + 1
    /\ launches' = launches - 1
    /\ waived' = waived \cup Undelivered
    /\ UNCHANGED <<pc, mailVars, lock, hopVars, treeVars, touches>>

\* `litany advance` by hand.
Touch ==
    /\ touches < MaxTouches
    /\ touches' = touches + 1
    /\ launches' = launches + 1
    /\ UNCHANGED <<pc, mailVars, lock, hopVars, treeVars, waived, faults>>

Deposit(w) == ListOwn(w) \/ Stage(w) \/ Rename(w) \/ RenameFails(w)

ProbeAndLaunch(p) == ProbeFree(p) \/ ProbeBusy(p) \/ ProbeDrop(p) \/ Launch(p)

Deliver(d) ==
    \/ ListInbox(d)
    \/ MoveNext(d, "deliver", "moved") \/ CommitMoved(d, "moved", "deliver")
    \/ ListResults(d)
    \/ MoveNext(d, "interpret", "imoved") \/ CommitMoved(d, "imoved", "interpret")
    \/ HoldResult(d)

Hop(d) ==
    \/ Warrant(d) \/ StepTools(d) \/ StepFinal(d) \/ StepCeases(d) \/ StepParks(d)
    \/ EnterHeld(d) \/ HeldParks(d) \/ HeldCompletes(d) \/ HeldStops(d)
    \/ Release(d) \/ Reread(d) \/ Exit(d)

Look(p) == LookFree(p) \/ LookBusy(p) \/ LookDrop(p) \/ Flush(p)

Next ==
    \/ \E w \in Writers : Deposit(w)
    \/ \E p \in Procs : ProbeAndLaunch(p)
    \/ \E d \in Drivers : StartWin(d) \/ Deliver(d) \/ Hop(d)
    \/ StartLose
    \/ \E p \in Scans \cup Censuses : Look(p)
    \/ \E p \in Procs : Die(p)
    \/ LaunchedDies
    \/ Touch

Spec == Init /\ [][Next]_vars

\* Every started process goes on: the operating system schedules it and its
\* model and tool calls return.  Nothing makes a writer, a scan, a census or
\* a hand-run advance start, and nothing makes a process die.
Fairness ==
    /\ \A w \in Writers : WF_vars(Stage(w) \/ Rename(w) \/ RenameFails(w))
    /\ \A p \in Procs : WF_vars(ProbeAndLaunch(p))
    /\ \A d \in Drivers : WF_vars(StartWin(d)) /\ WF_vars(Deliver(d) \/ Hop(d))
    /\ WF_vars(StartLose)
    /\ \A p \in Scans \cup Censuses : WF_vars(LookDrop(p) \/ Flush(p))

FairSpec == Spec /\ Fairness

-----------------------------------------------------------------------------
(* Properties.                                                             *)

WriterPCs == {"idle", "listed", "staged", "probe", "probing", "launch", "done", "failed"}
DriverPCs == Driving \cup {"idle", "reread", "probe", "probing", "launch", "exit"}
LookerPCs == {"idle", "looking", "flush", "probe", "probing", "launch", "done", "failed"}

\* The type invariant.
TypeOK ==
    /\ pc \in [Procs -> WriterPCs \cup DriverPCs \cup LookerPCs]
    /\ \A w \in Writers : pc[w] \in WriterPCs
    /\ \A d \in Drivers : pc[d] \in DriverPCs
    /\ \A p \in Scans \cup Censuses : pc[p] \in LookerPCs
    /\ wseq \in [Writers -> Nat] /\ clock \in Nat
    /\ tmp \subseteq Files /\ inbox \subseteq Files
    /\ lock \in Procs \cup {NONE}
    /\ launches \in Nat
    /\ batch \in [Drivers -> SUBSET Files] /\ seen \in [Drivers -> SUBSET Files]
    /\ epitaph \in [Drivers -> BOOLEAN]
    /\ stray \in Seq(Files) /\ log \in Seq(Files)
    /\ due \in BOOLEAN /\ mark \in BOOLEAN
    /\ waived \subseteq Writers
    /\ faults \in 0..MaxFaults /\ touches \in 0..MaxTouches

\* Only one process is ever between its acquire and its release: whoever
\* delivers, steps or probes holds the one flock (lock.rs).
LockInv == \A p \in Procs : pc[p] \in Holding <=> lock = p

\* No process is doing anything and no driver is on its way.
Quiet ==
    /\ launches = 0
    /\ \A p \in Procs : pc[p] \in {"idle", "done", "failed"}

\* "Mail pending and nobody driving => launch": when everything has come to
\* rest, each file in the inbox asked for no launch, was deliberately left by
\* the last driver that looked, or was waived by a death (probe_and_launch
\* and release_then_reprobe together leave no wake-up lost).
NoStranding ==
    Quiet => \A f \in inbox : WarrantsLaunch(f) => f.msg \in waived

\* A deposit that returned success is in the inbox or in the transcript: no
\* other deposit overwrote it (deposit, atomic_create).
NoDepositLost ==
    \A w \in Writers :
        pc[w] \in {"probe", "probing", "launch", "done"} =>
            w \in Msgs(inbox \cup Range(log \o stray))

\* Two steering messages of one serial sender reach the transcript in the
\* order they were written (next_sequence, pending's sort, next_seq), though
\* they race drains, deaths between rename and commit, and later hops.
SenderOrder ==
    LET entry == log \o stray IN
    \A i, j \in DOMAIN entry :
        (/\ i < j
         /\ entry[i].from = entry[j].from /\ entry[i].from \in Serial
         /\ ~OwnResult(entry[i]) /\ ~OwnResult(entry[j]))
            => entry[i].mtime < entry[j].mtime

\* The inbox and the transcript together are a mailbox that delivers each
\* message once, whatever the writers, drivers, scans and deaths do.
Box == INSTANCE Mailbox WITH
    Messages <- Writers,
    pending <- Msgs(inbox),
    delivered <- [i \in DOMAIN (log \o stray) |-> (log \o stray)[i].msg]
ExactlyOnce == Box!Spec

\* Steering mail is delivered in the end, unless a death waived it or the
\* branch is parked in a tool window (fire-and-forget launches suffice).
Deposited(w) == w \in Msgs(inbox) /\ Kind[w] = "plain"
Delivered ==
    \A w \in Writers :
        Deposited(w) ~> (w \in Msgs(Range(log)) \/ w \in waived)

\* The launches come to an end: a held result, a parked branch and the
\* unconditional launch of a final response never relaunch for ever.
LaunchesCease == <>[](launches = 0)
=============================================================================
