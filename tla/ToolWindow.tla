----------------------------- MODULE ToolWindow -----------------------------
(***************************************************************************)
(* The tool window of one agent's branch, across drives.  A step commits   *)
(* an assistant entry with tool_use blocks; the driver takes the blocks in *)
(* order through the grant, the tool control and the executor, and commits *)
(* one tool_result each.  The control may hold a block (the hold mark      *)
(* parks the branch), a stop may fell a tool or the control, the driver    *)
(* may die anywhere.  The next drive resumes a parked window or settles a  *)
(* crashed one before it delivers any mail.                                *)
(*                                                                         *)
(* Delivery shows that at most one driver runs at a time, so there is one  *)
(* driver here.  An entry is in the transcript once its file is in the     *)
(* worktree: every reader of this module lists the worktree, and the next  *)
(* commit picks the file up.                                               *)
(***************************************************************************)
EXTENDS Integers, Sequences, FiniteSets, SequencesExt

CONSTANTS
    MaxSteps,    \* bound: model calls
    MaxBlocks,   \* bound: tool_use blocks of one assistant entry
    MaxMail,     \* bound: deliveries of mail
    MaxDrives,   \* bound: drivers started
    MaxFaults,   \* bound: driver deaths and errors
    MaxStops,    \* bound: SIGTERMs
    NoMark       \* the branch is not parked

ASSUME BoundsAssumption ==
    {MaxSteps, MaxBlocks, MaxMail, MaxDrives, MaxFaults, MaxStops} \subseteq Nat

\* A tool_use id: the step that emitted it and its place.  Ids are fresh.
Ids == (1..MaxSteps) \X (1..MaxBlocks)

ASSUME MarkAssumption == NoMark \notin Ids

VARIABLES
    pc,          \* where the driver is; "off": nobody drives
    exchange,    \* the driver is `litany prompt`, which loops in one process
    transcript,  \* the entries, in order
    mail,        \* mail is pending in the inbox
    mark,        \* the hold mark: NoMark or the held id
    at,          \* the next block of the open window
    skip,        \* the ids run_tool_calls read as answered on a resume
    resumed,     \* the window was entered by held::resume
    outcome,     \* how the current block was resolved
    stop,        \* the driver's SIGTERM flag
    ran,         \* history: ran[id] counts the entries into the executor
    mails, drives, faults, stops

windowVars == <<pc, exchange, transcript, mail, mark, at, skip, resumed, outcome,
          stop, ran, mails, drives, faults, stops>>
counters == <<mails, drives, faults, stops>>
window == <<at, skip, resumed, outcome>>

-----------------------------------------------------------------------------
(* The transcript.                                                         *)

Hows == {"ran", "declined", "refused", "interrupted", "died"}
Assistant(n) == [kind |-> "assistant", blocks |-> n]
Result(id, how) == [kind |-> "result", id |-> id, how |-> how]
User == [kind |-> "user"]
Entries == {Assistant(n) : n \in 0..MaxBlocks} \cup {User}
           \cup {Result(id, how) : id \in Ids, how \in Hows}

At(kind) == {k \in DOMAIN transcript : transcript[k].kind = kind}

\* The step of the assistant entry at k: how many there are up to it.
StepAt(k) == Cardinality({j \in At("assistant") : j <= k})
Emitted(k) == {<<StepAt(k), i>> : i \in 1..transcript[k].blocks}
AnsweredIn(from, to) == {transcript[k].id : k \in {j \in At("result") : from <= j /\ j <= to}}
Answered == AnsweredIn(1, Len(transcript))

Steps == Cardinality(At("assistant"))
LastStep == CHOOSE k \in At("assistant") : \A j \in At("assistant") : j <= k

\* The blocks of the last assistant entry, and the ids warrant finds open.
Open == IF Steps = 0 THEN {} ELSE Emitted(LastStep)
Blocks == Cardinality(Open)
Unanswered == (UNION {Emitted(k) : k \in At("assistant")}) \ Answered

\* settle: the blocks of the window without a committed result.
Unsettled == Open \ Answered

First(ids) == CHOOSE id \in ids : \A other \in ids : id[2] <= other[2]

Here == <<Steps, at>>

WindowInit ==
    /\ pc = "off" /\ exchange = FALSE
    /\ transcript = <<>>
    /\ mail = TRUE
    /\ mark = NoMark
    /\ at = 1 /\ skip = {} /\ resumed = FALSE /\ outcome = "ran"
    /\ stop = FALSE
    /\ ran = [id \in Ids |-> 0]
    /\ mails = 0 /\ drives = 0 /\ faults = 0 /\ stops = 0

-----------------------------------------------------------------------------
(* The drive boundary.                                                     *)

\* `litany prompt`: a new root drives itself; its own message is its mail.
Prompt ==
    /\ pc = "off" /\ drives = 0 /\ drives < MaxDrives
    /\ pc' = "deliver" /\ exchange' = TRUE
    /\ drives' = drives + 1
    /\ UNCHANGED <<transcript, mail, mark, window, stop, ran, mails, faults, stops>>

\* `litany advance`, launched by a deposit, an exit or by hand.
Drive ==
    /\ pc = "off" /\ drives < MaxDrives
    /\ pc' = "boundary" /\ exchange' = FALSE /\ stop' = FALSE
    /\ drives' = drives + 1
    /\ UNCHANGED <<transcript, mail, mark, window, ran, mails, faults, stops>>

Mail ==
    /\ mails < MaxMail
    /\ mails' = mails + 1
    /\ mail' = TRUE
    /\ UNCHANGED <<pc, exchange, transcript, mark, window, stop, ran, drives, faults, stops>>

\* The mark's invocation is still open: open_window, OpenWindow::unpaired.
MarkLive == mark \in Open /\ mark \notin Answered

Unmarked ==
    /\ pc = "boundary" /\ mark = NoMark
    /\ pc' = "settle"
    /\ UNCHANGED <<exchange, transcript, mail, mark, window, stop, ran, counters>>

StaleMark ==
    /\ pc = "boundary" /\ mark # NoMark /\ ~MarkLive
    /\ mark' = NoMark
    /\ pc' = "settle"
    /\ UNCHANGED <<exchange, transcript, mail, window, stop, ran, counters>>

\* Mutant: a resumed window starts over.
Resume_FromStart ==
    /\ pc = "boundary" /\ MarkLive
    /\ pc' = "window"
    /\ at' = 1 /\ skip' = {} /\ resumed' = TRUE
    /\ UNCHANGED <<exchange, transcript, mail, mark, outcome, stop, ran, counters>>

\* held::resume: re-enter the window, skipping what is answered.
Resume ==
    /\ pc = "boundary" /\ MarkLive
    /\ pc' = "window"
    /\ at' = 1 /\ skip' = Answered /\ resumed' = TRUE
    /\ UNCHANGED <<exchange, transcript, mail, mark, outcome, stop, ran, counters>>

\* The trailing window has unanswered blocks and no mail behind it.
CrashOrphan ==
    /\ Unsettled # {}
    /\ ~ \E k \in At("user") : k > LastStep

\* settle_crashed_window commits one result at a time, before delivery.
SettleCrash ==
    /\ pc = "settle" /\ CrashOrphan
    /\ transcript' = Append(transcript, Result(First(Unsettled), "died"))
    /\ UNCHANGED <<pc, exchange, mail, mark, window, stop, ran, counters>>

\* Mutant: mail is delivered without looking for a crashed window.
Settled_Always ==
    /\ pc = "settle"
    /\ pc' = "deliver"
    /\ UNCHANGED <<exchange, transcript, mail, mark, window, stop, ran, counters>>

Settled ==
    /\ pc = "settle" /\ ~CrashOrphan
    /\ pc' = "deliver"
    /\ UNCHANGED <<exchange, transcript, mail, mark, window, stop, ran, counters>>

\* deliver: the pending mail becomes one user-side turn (Delivery has the
\* order of the messages and the deaths between them).
Deliver ==
    /\ pc = "deliver"
    /\ transcript' = IF mail THEN Append(transcript, User) ELSE transcript
    /\ mail' = FALSE
    /\ pc' = "warrant"
    /\ UNCHANGED <<exchange, mark, window, stop, ran, counters>>

\* warrant: an unpaired tool_use anywhere is declined, and the drive ends.
Due ==
    /\ Unanswered = {}
    /\ transcript # <<>> /\ Last(transcript).kind \in {"user", "result"}

NotDue ==
    /\ pc = "warrant" /\ ~Due
    /\ pc' = "off"
    /\ UNCHANGED <<exchange, transcript, mail, mark, window, stop, ran, counters>>

-----------------------------------------------------------------------------
(* The step: the model call and the tool window.                           *)

\* The model call returns and its entry is committed. No tool_use is the
\* final response: a terminal, and the driver exits.
ModelCall ==
    /\ pc = "warrant" /\ Due /\ ~stop /\ Steps < MaxSteps
    /\ \E n \in 0..MaxBlocks :
          /\ transcript' = Append(transcript, Assistant(n))
          /\ pc' = IF n = 0 THEN "off" ELSE "window"
    /\ at' = 1 /\ skip' = {} /\ resumed' = FALSE
    /\ UNCHANGED <<exchange, mail, mark, outcome, stop, ran, counters>>

\* A stop before or during the call, or an exhausted budget, ends the drive
\* at its terminal; nothing is committed.
CallCeases ==
    /\ pc = "warrant" /\ Due
    /\ pc' = "off"
    /\ UNCHANGED <<exchange, transcript, mail, mark, window, stop, ran, counters>>

\* Mutant: the loop runs one block past the last.
InWindow_PastEnd == pc = "window" /\ at <= Blocks + 1 /\ Here \notin skip

\* The driver is about to take block `at`.
InWindow == pc = "window" /\ at <= Blocks /\ Here \notin skip

SkipAnswered ==
    /\ pc = "window" /\ at <= Blocks /\ Here \in skip
    /\ at' = at + 1
    /\ UNCHANGED <<pc, exchange, transcript, mail, mark, skip, resumed, outcome, stop,
                   ran, counters>>

\* The grant declines the tool: the control is not asked and the mark stays.
Decline ==
    /\ InWindow
    /\ outcome' = "declined" /\ pc' = "record"
    /\ UNCHANGED <<exchange, transcript, mail, mark, at, skip, resumed, stop, ran, counters>>

\* The mark lifts before the once-held block is entered or refused.
Lifted == IF mark = Here THEN NoMark ELSE mark

Pass ==
    /\ InWindow
    /\ mark' = Lifted
    /\ pc' = "enter"
    /\ UNCHANGED <<exchange, transcript, mail, window, stop, ran, counters>>

Refuse ==
    /\ InWindow
    /\ mark' = Lifted
    /\ outcome' = "refused" /\ pc' = "record"
    /\ UNCHANGED <<exchange, transcript, mail, at, skip, resumed, stop, ran, counters>>

\* Held: the mark names this block, the driver releases and exits.
Hold ==
    /\ InWindow
    /\ mark' = Here
    /\ pc' = "off"
    /\ UNCHANGED <<exchange, transcript, mail, window, stop, ran, counters>>

\* The group SIGTERM felled the control.
ControlFelled ==
    /\ InWindow /\ stop
    /\ pc' = "interrupt"
    /\ UNCHANGED <<exchange, transcript, mail, mark, window, stop, ran, counters>>

Enter ==
    /\ pc = "enter"
    /\ ran' = [ran EXCEPT ![Here] = @ + 1]
    /\ pc' = "exec"
    /\ UNCHANGED <<exchange, transcript, mail, mark, window, stop, counters>>

\* A tool may finish in spite of a stop: it was quick, or it handled SIGTERM.
Returns ==
    /\ pc = "exec"
    /\ outcome' = "ran" /\ pc' = "record"
    /\ UNCHANGED <<exchange, transcript, mail, mark, at, skip, resumed, stop, ran, counters>>

ToolFelled ==
    /\ pc = "exec" /\ stop
    /\ pc' = "interrupt"
    /\ UNCHANGED <<exchange, transcript, mail, mark, window, stop, ran, counters>>

Record ==
    /\ pc = "record"
    /\ transcript' = Append(transcript, Result(Here, outcome))
    /\ at' = at + 1
    /\ pc' = "window"
    /\ UNCHANGED <<exchange, mail, mark, skip, resumed, outcome, stop, ran, counters>>

\* settle::interrupted, one result at a time, then the stopped terminal.
Interrupt ==
    /\ pc = "interrupt" /\ Unsettled # {}
    /\ transcript' = Append(transcript, Result(First(Unsettled), "interrupted"))
    /\ UNCHANGED <<pc, exchange, mail, mark, window, stop, ran, counters>>

Interrupted ==
    /\ pc = "interrupt" /\ Unsettled = {}
    /\ pc' = "off"
    /\ UNCHANGED <<exchange, transcript, mail, mark, window, stop, ran, counters>>

-----------------------------------------------------------------------------
(* After the window.                                                       *)

\* Completed. Only the ordinary hop of an advance looks at the flag here.
WindowStopped ==
    /\ pc = "window" /\ at > Blocks
    /\ ~resumed /\ ~exchange /\ stop
    /\ pc' = "off"
    /\ UNCHANGED <<exchange, transcript, mail, mark, window, stop, ran, counters>>

WindowDone ==
    /\ pc = "window" /\ at > Blocks
    /\ resumed \/ exchange \/ ~stop
    /\ pc' = "seams"
    /\ UNCHANGED <<exchange, transcript, mail, mark, window, stop, ran, counters>>

\* on_tool_return and run_flush, then the exec baton: the successor is a new
\* process image, whose flag starts clear.
Baton ==
    /\ pc = "seams" /\ ~exchange
    /\ pc' = "boundary"
    /\ stop' = FALSE
    /\ UNCHANGED <<exchange, transcript, mail, mark, window, ran, counters>>

\* run_exchange loops to its own drain and keeps its flag.
Loop ==
    /\ pc = "seams" /\ exchange
    /\ pc' = "deliver"
    /\ UNCHANGED <<exchange, transcript, mail, mark, window, stop, ran, counters>>

\* SIGTERM to the driver's process group.
Sigterm ==
    /\ stops < MaxStops /\ pc # "off"
    /\ stops' = stops + 1
    /\ stop' = TRUE
    /\ UNCHANGED <<pc, exchange, transcript, mail, mark, window, ran, mails, drives, faults>>

\* The driver dies, or returns an error (a control fault, a tool killed
\* without a stop, git).
Die ==
    /\ faults < MaxFaults /\ pc # "off"
    /\ faults' = faults + 1
    /\ pc' = "off"
    /\ UNCHANGED <<exchange, transcript, mail, mark, window, stop, ran, mails, drives, stops>>

Boundary ==
    Unmarked \/ StaleMark \/ Resume \/ SettleCrash \/ Settled \/ Deliver \/ NotDue

Window ==
    \/ SkipAnswered \/ Decline \/ Pass \/ Refuse \/ Hold \/ ControlFelled
    \/ Enter \/ Returns \/ ToolFelled \/ Record \/ Interrupt \/ Interrupted

WindowNext ==
    \/ Prompt \/ Drive \/ Mail \/ Sigterm \/ Die
    \/ Boundary
    \/ ModelCall \/ CallCeases
    \/ Window
    \/ WindowStopped \/ WindowDone \/ Baton \/ Loop

WindowSpec == WindowInit /\ [][WindowNext]_windowVars

-----------------------------------------------------------------------------
(* Properties.                                                             *)

\* The type invariant.
WindowTypeOK ==
    /\ pc \in {"off", "boundary", "settle", "deliver", "warrant", "window", "enter",
               "exec", "record", "interrupt", "seams"}
    /\ {exchange, mail, resumed, stop} \subseteq BOOLEAN
    /\ transcript \in Seq(Entries)
    /\ mark \in Ids \cup {NoMark}
    /\ at \in 1..(MaxBlocks + 1)
    /\ skip \subseteq Ids
    /\ outcome \in Hows
    /\ ran \in [Ids -> Nat]
    /\ mails \in 0..MaxMail /\ drives \in 0..MaxDrives
    /\ faults \in 0..MaxFaults /\ stops \in 0..MaxStops

AnsweredInPlace ==
    \A k \in At("assistant"), j \in At("assistant") \cup At("user") :
        k < j => Emitted(k) \subseteq AnsweredIn(k, j)

AnsweredOnce ==
    \A j, k \in At("result") : transcript[j].id = transcript[k].id => j = k

\* The pairing is positional: nothing but the answers of a window stands
\* between its assistant entry and the next user or assistant entry, they are
\* all there, and each is there once, whatever died, stopped or was held in
\* between, resumes and cut settlements included (the provider rejects such a
\* history for ever: settle and held run first).  So no drive ends in the
\* unpaired decline, and the next deposit revives the branch (crash.rs).
PositionalPairing ==
    /\ AnsweredInPlace /\ AnsweredOnce
    /\ pc = "warrant" => Unanswered = {}

\* No invocation enters the executor twice, and one whose result says it was
\* declined or refused never did.  A live hold mark means that nothing at or
\* after the held block has run or been answered: a resume may enter the
\* window at it (hold.rs).
AtOrAfter(id) == {other \in Ids : other[1] = id[1] /\ other[2] >= id[2]}
RanOnce ==
    /\ \A id \in Ids : ran[id] <= 1
    /\ \A k \in At("result") :
          transcript[k].how \in {"declined", "refused"} => ran[transcript[k].id] = 0
    /\ MarkLive => \A id \in AtOrAfter(mark) : ran[id] = 0 /\ id \notin Answered

\* A stop that landed in an advance's tool window, or is "caught by the flag
\* after the tools resolved", "terminates here, never riding the baton into a
\* successor" (hop.rs, of every window; held::resume does not look).
StopHonoured ==
    [][pc = "window" /\ pc' = "seams" /\ ~exchange => ~stop]_windowVars
=============================================================================
