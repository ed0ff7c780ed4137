------------------------------ MODULE Returns ------------------------------
(***************************************************************************)
(* The return of one child to the agent that dispatched it, and the        *)
(* silent-death sweep of `litany scan` that reports a child which never    *)
(* returned.  The child's driver deposits a result file in the parent's    *)
(* inbox and then writes the returned mark, a ref; the sweep probes the    *)
(* child's lock, reads the mark, the parent's inbox and the parent's       *)
(* committed transcript, in that order and without any lock, and deposits  *)
(* a `died` result if it finds nothing; the parent's drives move the file  *)
(* from one place to the next all the while.                               *)
(***************************************************************************)
EXTENDS Integers, Sequences, FiniteSets

CONSTANTS
    Sweepers,      \* runs of `litany scan` that may overlap
    CrashSites,    \* where the child's driver and the sweeps may die
    MaxLetters,    \* bound: messages sent to the child, or by its tool to its parent
    MaxFailures,   \* bound: deaths and errors of the child's driver
    MaxSweeps      \* bound: sweeps

ChildPCs == {"off", "hop", "step", "file", "mark"}
ScanPCs == {"idle", "ref", "inbox", "tree", "report", "marking"}
ASSUME SitesAssumption ==
    CrashSites \subseteq (ChildPCs \ {"off"}) \cup (ScanPCs \ {"idle"})
ASSUME SweepersAssumption == IsFiniteSet(Sweepers)
ASSUME ReturnsBounds ==
    {MaxLetters, MaxFailures, MaxSweeps} \subseteq Nat

\* Who puts a message in the child's inbox; a grandchild's is its return.
Askers == {"parent", "user", "grandchild"}
Epitaphs == {"final-response", "ceased", "died"}
\* Where a file of the child's is at its parent; "final" is the inbox too, of
\* a final response, which a landing may consume there.
Places == {"final", "inbox", "worktree", "transcript"}

VARIABLES
    born,       \* the fork has made the child's ref
    stage,      \* the child's driver; "off": nobody holds the child's lock
    launched,   \* a driver for the child is on its way
    queue,      \* the child's inbox: who asked, in order
    warranted,  \* the child's transcript tail warrants a step
    prompter,   \* who prompted the child last
    owes,       \* something was asked since its previous terminal response
    ending,     \* the epitaph its driver is depositing, or none
    sent,       \* sent[p]: how many files under the child's name are in place p
    returned,   \* the ref refs/litany/returned/<child>
    scan,       \* scan[s]: where the sweep s is
    found,      \* history: found[s]: the child had returned when the sweep s probed
    deposited,  \* history: a result of the child has been deposited
    reports,    \* history: how often the child has been reported dead
    lost,       \* history: deaths between a result and its mark, by who died
    letters, failures, sweeps

returnVars == <<born, stage, launched, queue, warranted, prompter, owes, ending, sent,
          returned, scan, found, deposited, reports, lost, letters, failures, sweeps>>
drive == <<launched, queue, warranted, prompter, owes, ending>>
counters == <<letters, failures, sweeps>>
tally == <<deposited, reports, lost>>
sweeping == <<scan, found, tally>>

-----------------------------------------------------------------------------
\* A file under the child's name arrives in the parent's inbox; but for a
\* note, which is any other message, it is a result.
Arrives(kind) ==
    /\ sent' = [sent EXCEPT ![IF kind = "final-response" THEN "final" ELSE "inbox"] = @ + 1]
    /\ deposited' = (deposited \/ kind # "note")
    /\ reports' = IF kind = "died" THEN reports + 1 ELSE reports

ReturnsInit ==
    /\ born = FALSE /\ stage = "off" /\ launched = FALSE
    /\ queue = <<>>
    /\ warranted = FALSE /\ prompter = "parent" /\ owes = TRUE /\ ending = "none"
    /\ sent = [p \in Places |-> 0] /\ returned = FALSE
    /\ scan = [s \in Sweepers |-> "idle"] /\ found = [s \in Sweepers |-> FALSE]
    /\ deposited = FALSE /\ reports = 0 /\ lost = [child |-> 0, sweep |-> 0]
    /\ letters = 0 /\ failures = 0 /\ sweeps = 0

-----------------------------------------------------------------------------
(* The child and its driver.                                               *)

\* fork: the ref exists before the dispatch message does.
ForkChild ==
    /\ ~born
    /\ born' = TRUE
    /\ UNCHANGED <<stage, drive, sent, returned, sweeping, counters>>

\* A deposit in the child's inbox and its launch (Delivery has their steps).
\* fork deposits the dispatch message, but the operator may be quicker.
Prompt(asker) ==
    /\ born /\ letters < MaxLetters /\ letters' = letters + 1
    /\ queue' = Append(queue, asker)
    /\ launched' = TRUE
    /\ UNCHANGED <<born, stage, warranted, prompter, owes, ending, sent, returned,
                   sweeping, failures, sweeps>>

Begin ==
    /\ launched /\ stage = "off"
    /\ launched' = FALSE
    /\ stage' = "hop"
    /\ UNCHANGED <<born, queue, warranted, prompter, owes, ending, sent, returned,
                   sweeping, counters>>

Prompters == {i \in DOMAIN queue : queue[i] # "grandchild"}

\* Mutant: an own child's return counts as a prompt.
IsLastPrompter_AnySender(a) == a = IF queue = <<>> THEN prompter ELSE queue[Len(queue)]

\* last_prompter skips an own child's return, which is not a prompt.
IsLastPrompter(a) ==
    IF Prompters = {} THEN a = prompter
    ELSE \E i \in Prompters : (\A j \in Prompters : j <= i) /\ a = queue[i]

\* deliver, then warrant.
TakeMail ==
    /\ stage = "hop"
    /\ \E asker \in Askers : IsLastPrompter(asker) /\ prompter' = asker
    /\ owes' = (owes \/ queue # <<>>)
    /\ warranted' = (warranted \/ queue # <<>>)
    /\ queue' = <<>>
    /\ stage' = IF warranted' THEN "step" ELSE "off"
    /\ UNCHANGED <<born, launched, ending, sent, returned, sweeping, counters>>

\* A step that ran tools, on to the next hop.
ToolStep ==
    /\ stage = "step"
    /\ stage' = "hop"
    /\ UNCHANGED <<born, drive, sent, returned, sweeping, counters>>

\* The `message` tool, addressed to the parent: a file under the child's name.
Note ==
    /\ stage = "step" /\ letters < MaxLetters /\ letters' = letters + 1
    /\ Arrives("note")
    /\ UNCHANGED <<born, stage, drive, returned, scan, found, lost, failures, sweeps>>

\* recipient, of a reply: whoever prompted last, if a reply is owed at all.
AddressesParent == owes /\ prompter = "parent"

\* The final response. A reply to the operator deposits nothing.
Final ==
    /\ stage = "step"
    /\ ending' = IF AddressesParent THEN "final-response" ELSE "none"
    /\ stage' = IF AddressesParent THEN "file" ELSE "off"
    /\ owes' = FALSE /\ warranted' = FALSE
    /\ launched' = IF AddressesParent THEN launched ELSE TRUE
    /\ UNCHANGED <<born, queue, prompter, sent, returned, sweeping, counters>>

\* Stopped or out of budget: an obituary goes to the dispatcher always.
Cease ==
    /\ stage = "step"
    /\ ending' = "ceased"
    /\ stage' = "file"
    /\ UNCHANGED <<born, launched, queue, warranted, prompter, owes, sent, returned,
                   sweeping, counters>>

\* Parked in a tool window: the driver releases and nothing is deposited.
Park ==
    /\ stage = "step"
    /\ stage' = "off"
    /\ UNCHANGED <<born, drive, sent, returned, sweeping, counters>>

\* Mutant: the mark is written first.
File_MarkFirst ==
    /\ stage = "file"
    /\ returned' = TRUE
    /\ stage' = "mark"
    /\ UNCHANGED <<born, drive, sent, sweeping, counters>>

\* deposit_result: the file ...
File ==
    /\ stage = "file"
    /\ Arrives(ending)
    /\ stage' = "mark"
    /\ UNCHANGED <<born, drive, returned, scan, found, lost, counters>>

\* ... and the mark; then the driver releases.  A final response launches a
\* driver at itself (exit_launch).
Mark ==
    /\ stage = "mark"
    /\ returned' = TRUE
    /\ stage' = "off"
    /\ launched' = (launched \/ ending = "final-response")
    /\ ending' = "none"
    /\ UNCHANGED <<born, queue, warranted, prompter, owes, sent, sweeping, counters>>

\* The driver dies or returns an error; the kernel frees the lock.
Fail ==
    /\ stage \in CrashSites /\ failures < MaxFailures
    /\ failures' = failures + 1
    /\ lost' = IF stage = "mark" THEN [lost EXCEPT !.child = @ + 1] ELSE lost
    /\ stage' = "off" /\ ending' = "none"
    /\ UNCHANGED <<born, launched, queue, warranted, prompter, owes, sent, returned,
                   scan, found, deposited, reports, letters, sweeps>>

-----------------------------------------------------------------------------
(* The parent's drives (one at a time; any of them may die between steps). *)

Leaves(from) ==
    sent[from] > 0 /\ UNCHANGED <<born, stage, drive, returned, sweeping, counters>>
Carry(from, to) ==
    Leaves(from) /\ sent' = [sent EXCEPT ![from] = @ - 1, ![to] = @ + 1]
Withdraw(from) == Leaves(from) /\ sent' = [sent EXCEPT ![from] = @ - 1]

\* deliver_message renames into the worktree, and commits.
Moved == Carry("final", "worktree") \/ Carry("inbox", "worktree")
Committed == Carry("worktree", "transcript")
\* A landing consumes a final response and leaves no transcript entry.
Landed == Withdraw("final")
\* A later compaction squashes the entry away.
Squashed == Withdraw("transcript")

-----------------------------------------------------------------------------
(* The sweep.                                                              *)

To(s, l) ==
    /\ scan' = [scan EXCEPT ![s] = l]
    /\ found' = [found EXCEPT ![s] = @ /\ l # "idle"]
Read == UNCHANGED <<born, stage, drive, sent, returned, tally, counters>>

\* is_driven: a driven child is left alone.
ProbeChild(s) ==
    /\ scan[s] = "idle" /\ sweeps < MaxSweeps
    /\ born /\ stage = "off"
    /\ sweeps' = sweeps + 1
    /\ found' = [found EXCEPT ![s] = deposited]
    /\ scan' = [scan EXCEPT ![s] = "ref"]
    /\ UNCHANGED <<born, stage, drive, sent, returned, tally, letters, failures>>

\* Mutant: the mark is not consulted.
ReadMark_Ignored(s) ==
    /\ scan[s] = "ref"
    /\ To(s, "inbox")
    /\ Read

ReadMark(s) ==
    /\ scan[s] = "ref"
    /\ To(s, IF returned THEN "idle" ELSE "inbox")
    /\ Read

\* has_inbox_message: any file under the child's name.
ReadInbox(s) ==
    /\ scan[s] = "inbox"
    /\ To(s, IF sent["final"] + sent["inbox"] > 0 THEN "idle" ELSE "tree")
    /\ Read

\* transcript_has: any committed entry under the child's name.
ReadTranscript(s) ==
    /\ scan[s] = "tree"
    /\ To(s, IF sent["transcript"] > 0 THEN "idle" ELSE "report")
    /\ Read

\* deposit_result on the child's behalf.
DepositDied(s) ==
    /\ scan[s] = "report"
    /\ Arrives("died")
    /\ To(s, "marking")
    /\ UNCHANGED <<born, stage, drive, returned, lost, counters>>

\* Mutant: the sweep's own deposit leaves no mark.
MarkDied_Skipped(s) ==
    /\ scan[s] = "marking"
    /\ To(s, "idle")
    /\ Read

MarkDied(s) ==
    /\ scan[s] = "marking"
    /\ returned' = TRUE
    /\ To(s, "idle")
    /\ UNCHANGED <<born, stage, drive, sent, tally, counters>>

\* The scan dies, or one of its git reads fails and ends it.
Abort(s) ==
    /\ scan[s] \in CrashSites
    /\ lost' = IF scan[s] = "marking" THEN [lost EXCEPT !.sweep = @ + 1] ELSE lost
    /\ To(s, "idle")
    /\ UNCHANGED <<born, stage, drive, sent, returned, deposited, reports, counters>>

Sweep(s) ==
    \/ ProbeChild(s) \/ ReadMark(s) \/ ReadInbox(s) \/ ReadTranscript(s)
    \/ DepositDied(s) \/ MarkDied(s) \/ Abort(s)

ReturnsNext ==
    \/ ForkChild \/ (\E asker \in Askers : Prompt(asker)) \/ Begin
    \/ TakeMail \/ ToolStep \/ Note \/ Final \/ Cease \/ Park \/ File \/ Mark \/ Fail
    \/ Moved \/ Committed \/ Landed \/ Squashed
    \/ \E s \in Sweepers : Sweep(s)

ReturnsSpec == ReturnsInit /\ [][ReturnsNext]_returnVars

-----------------------------------------------------------------------------
(* Properties.                                                             *)

\* The type invariant.
ReturnsTypeOK ==
    /\ {born, launched, warranted, owes, returned} \subseteq BOOLEAN
    /\ stage \in ChildPCs
    /\ queue \in Seq(Askers) /\ prompter \in Askers \ {"grandchild"}
    /\ ending \in {"none", "final-response", "ceased"} /\ sent \in [Places -> Nat]
    /\ scan \in [Sweepers -> ScanPCs] /\ found \in [Sweepers -> BOOLEAN]
    /\ deposited \in BOOLEAN /\ reports \in Nat /\ lost \in [child : Nat, sweep : Nat]
    /\ letters \in 0..MaxLetters
    /\ failures \in 0..MaxFailures /\ sweeps \in 0..MaxSweeps

\* The returned mark never stands for a result that was not deposited: a
\* death between the two leaves the file and not the mark, for otherwise the
\* parent would never be told (deposit_result).
MarkSound == returned => deposited

\* A child that had returned when the sweep probed is never reported dead,
\* wherever the parent's drives have carried the result in the meantime:
\* renamed, committed, landed, squashed ("so neither ordering half can
\* strand or double-deposit", deposit_result).
NoFalseDeath == [][\A s \in Sweepers : DepositDied(s) => ~found[s]]_returnVars

\* What the code gives of it with every death and with sweeps that overlap: a
\* child that had returned when the sweep probed is reported dead only after a
\* driver of it has died between a result and its mark, or after another sweep
\* has reported it dead (returned, whose later reads find nothing of a file
\* that is between places).
FalseDeathsExplained ==
    [][\A s \in Sweepers : DepositDied(s) /\ found[s] =>
           lost.child > 0 \/ reports > 0]_returnVars

\* However often the child is swept, revived and dies again, and although its
\* parent consumes the reports, there are at most as many as sweeps overlap,
\* and one more for each sweep that died before its mark (sweep).
ReportsCounted == reports <= Cardinality(Sweepers) + lost.sweep
=============================================================================
