----------------------------- MODULE ModelCall -----------------------------
(***************************************************************************)
(* One agent's model calls: the driver that issues a step's call, the      *)
(* provider adapter `bz` that streams an answer, one process per attempt,  *)
(* the three files a step writes as it runs (response.json, the staging    *)
(* file, meta.json), the entry a settled call becomes, and what a reader   *)
(* makes of the latest step's framing.  A stop, a dying adapter and a dying   *)
(* driver come at any point.  An event is the word that names it, a        *)
(* content block is the number of the attempt that streamed it.            *)
(***************************************************************************)
EXTENDS Integers, FiniteSets, Sequences, Functions

CONSTANTS
    MaxAttempts,  \* workflow.yaml retry.max_attempts
    MaxBlocks,    \* bound: content blocks of one attempt
    MaxSteps,     \* bound: step directories
    MaxCrashes,   \* bound: deaths of the driver
    MaxStops      \* bound: stops

ASSUME AttemptsAssumption == MaxAttempts \in Nat \ {0}
ASSUME BoundsAssumption ==
    MaxBlocks \in Nat /\ MaxSteps \in Nat /\ MaxCrashes \in Nat /\ MaxStops \in Nat

VARIABLES
    override,  \* models.yaml names an adapter: the handshake is checked
    flag,      \* the driver's stop flag
    pc,        \* the driver; "rest" when there is none
    attempt,   \* 1..MaxAttempts
    bz,        \* "none", "up", or "doomed": a SIGTERM is on its way
    seg,       \* what the driver has parsed of the attempt; see Segment
    result,    \* how the call settled
    step,      \* steps/<id>/<step> is the latest directory, 0 for none
    response,  \* its response.json, one sequence of lines per attempt
    staging,   \* its staging file, wherever that is: blocks, usage, checkpoint
    meta,      \* it has a meta.json
    messages,  \* the steps whose staging file has become an entry of messages/
    due,       \* the transcript's tail warrants a model call
    met,       \* history: the steps during whose call the stop flag was up
    crashes, stops

modelVars == <<override, flag, pc, attempt, bz, seg, result, step, response, staging,
               meta, messages, due, met, crashes, stops>>
record == <<step, response, staging, meta>>
branch == <<messages, due>>
world == <<override, crashes, stops>>
locals == <<attempt, seg, result>>

Segment == [open |-> FALSE, v |-> "none", error |-> "none",
            length |-> FALSE, ended |-> FALSE, bad |-> FALSE]
Staging == [blocks |-> <<>>, usage |-> 0, mark |-> 0, sealed |-> FALSE]

ModelInit ==
    /\ override \in BOOLEAN /\ flag = FALSE /\ pc = "rest" /\ attempt = 1
    /\ bz = "none" /\ seg = Segment /\ result = "none"
    /\ step = 0 /\ response = <<>> /\ staging = Staging /\ meta = FALSE
    /\ messages = <<>> /\ due = TRUE /\ met = {}
    /\ crashes = 0 /\ stops = 0

-----------------------------------------------------------------------------
(* What a reader makes of response.json.                                   *)

\* A line is at its segment and its place there; Follows is the order of a
\* file.
Places(segments) == UNION {{i} \X DOMAIN segments[i] : i \in DOMAIN segments}
Follows(p, q) == p[1] > q[1] \/ (p[1] = q[1] /\ p[2] > q[2])
Final(segments) ==
    {p \in Places(segments) : \A q \in Places(segments) : ~Follows(q, p)}

\* classify, classify_segment: the last line terminates, and the lines after
\* the terminator before it carry the error or do not.
Classify(segments) ==
    LET Says(p, words) == segments[p[1]][p[2]] \in words
        InLast(p) == \A q \in Places(segments) \ Final(segments) :
                         Says(q, {"end"}) => Follows(p, q)
    IN IF ~\E p \in Final(segments) : Says(p, {"end"}) THEN "no-terminal"
       ELSE IF \E p \in Places(segments) : InLast(p) /\ Says(p, {"retryable", "fatal"})
            THEN "failed" ELSE "complete"

-----------------------------------------------------------------------------
(* The step around the call.                                               *)

\* The driver is gone, and all it had in memory with it.
Rest ==
    /\ pc' = "rest" /\ flag' = FALSE
    /\ attempt' = 1 /\ seg' = Segment /\ result' = "none"

\* advance: a driver takes the lock and finds a call warranted.
StartDriver ==
    /\ pc = "rest" /\ due /\ pc' = "resolve" /\ flag' = FALSE
    /\ UNCHANGED <<attempt, bz, seg, result, record, branch, world>>
\* resolve: `bz --version` is the linked crate's, unless an adapter is named.
Resolved ==
    /\ pc = "resolve" /\ pc' = "hop"
    /\ UNCHANGED <<flag, attempt, bz, seg, result, record, branch, world>>
VersionSkew ==
    /\ pc = "resolve" /\ ~override /\ Rest
    /\ UNCHANGED <<bz, record, branch, world>>

\* step, issue: the stop flag, next_step_seq, request.json in a directory of
\* its own.
HopStops ==
    /\ pc = "hop" /\ flag /\ Rest
    /\ UNCHANGED <<bz, record, branch, world>>
WriteRequest ==
    /\ pc = "hop" /\ ~flag /\ step < MaxSteps
    /\ step' = step + 1 /\ response' = <<>> /\ staging' = Staging /\ meta' = FALSE
    /\ pc' = "create" /\ attempt' = 1 /\ seg' = Segment /\ result' = "none"
    /\ UNCHANGED <<flag, bz, branch, world>>
\* model_call::run: the three files of the call, created once.
CreateFiles ==
    /\ pc = "create" /\ attempt' = 1 /\ result' = "none" /\ pc' = "spawn"
    /\ UNCHANGED <<flag, bz, seg, record, branch, world>>

\* begin_segment, and one adapter process.
BeginSegment ==
    /\ pc = "spawn" /\ pc' = "stream" /\ bz' = "up" /\ seg' = Segment
    /\ response' = Append(response, <<>>)
    /\ staging' = [staging EXCEPT !.mark = Len(staging.blocks), !.usage = 0]
    /\ UNCHANGED <<flag, attempt, result, step, meta, branch, world>>
\* spawn_error: no adapter to run.
SpawnError ==
    /\ pc = "spawn" /\ pc' = "return" /\ result' = "error"
    /\ UNCHANGED <<flag, attempt, bz, seg, record, branch, world>>

-----------------------------------------------------------------------------
(* The stream.                                                             *)

Segm == response[Len(response)]
Saw(S) == \E i \in DOMAIN Segm : Segm[i] \in S
Opens(s) == Cardinality({i \in DOMAIN s : s[i] = "open"})

\* The lines brazen may write next; a block may be cut by a finish.
Grammar ==
    IF Saw({"end", "torn"}) THEN {}
    ELSE IF Saw({"finish", "length", "retryable", "fatal"}) THEN {"end"}
    ELSE IF ~Saw({"v", "other"})
         THEN {"retryable", "fatal", "v"} \cup (IF override THEN {"other"} ELSE {})
    ELSE IF seg.open THEN {"stop", "badstop", "retryable", "finish", "length"}
    ELSE {"retryable", "fatal", "finish", "length"}
         \cup (IF Opens(Segm) < MaxBlocks THEN {"open"} ELSE {})
         \cup (IF Saw({"usage"}) THEN {} ELSE {"usage"})

Flushed == [staging EXCEPT !.blocks = Append(@, attempt)]

\* run_attempt's reader: the line is kept as it came, and read as an event
\* until the first bad line and the end: feed, finalize.
Line(l) ==
    /\ response' = [response EXCEPT ![Len(response)] = Append(@, l)]
    /\ LET live == ~seg.bad /\ ~seg.ended IN
       /\ seg' = IF ~live THEN seg ELSE
            [seg EXCEPT !.v = IF l \in {"v", "other"} THEN l ELSE @,
                        !.error = IF l \in {"retryable", "fatal"} THEN l ELSE @,
                        !.length = IF l \in {"finish", "length"} THEN l = "length" ELSE @,
                        !.ended = @ \/ l = "end",
                        !.bad = l \in {"torn", "badstop"},
                        !.open = IF l \in {"stop", "badstop"} THEN FALSE ELSE @ \/ l = "open"]
       /\ staging' = CASE live /\ l = "stop" -> Flushed
                       [] live /\ l = "usage" -> [staging EXCEPT !.usage = attempt]
                       [] OTHER -> staging
BzWrites ==
    /\ pc = "stream" /\ bz # "none" /\ \E l \in Grammar : Line(l)
    /\ UNCHANGED <<flag, pc, attempt, bz, result, step, meta, branch, world>>
\* Killed in the middle of a line.
BzTears ==
    /\ pc = "stream" /\ bz # "none" /\ Grammar # {} /\ Line("torn") /\ bz' = "none"
    /\ UNCHANGED <<flag, pc, attempt, result, step, meta, branch, world>>
BzExits ==
    /\ pc = "stream" /\ bz # "none" /\ bz' = "none"
    /\ UNCHANGED <<flag, pc, attempt, seg, result, record, branch, world>>

-----------------------------------------------------------------------------
(* The attempt is over: run_attempt's verdicts, in its order.              *)

Over == pc = "stream" /\ bz = "none"
Retries == seg.error = "retryable" /\ attempt < MaxAttempts /\ ~flag

BadStream ==
    /\ Over /\ seg.bad /\ pc' = "return" /\ result' = "error"
    /\ UNCHANGED <<flag, attempt, bz, seg, record, branch, world>>
\* Mutant: the failed attempt's blocks stay in the staging file.
Failed_Kept ==
    /\ Over /\ ~seg.bad /\ seg.error # "none"
    /\ pc' = IF Retries THEN "sleep" ELSE "return"
    /\ result' = IF Retries THEN result ELSE "failed"
    /\ UNCHANGED <<flag, attempt, bz, seg, record, branch, world>>
\* truncate_segment, and the choice between another attempt and the error.
Failed ==
    /\ Over /\ ~seg.bad /\ seg.error # "none"
    /\ staging' = [staging EXCEPT !.blocks = SubSeq(@, 1, staging.mark), !.usage = 0]
    /\ pc' = IF Retries THEN "sleep" ELSE "return"
    /\ result' = IF Retries THEN result ELSE "failed"
    /\ UNCHANGED <<flag, attempt, bz, seg, step, response, meta, branch, world>>
HalfStream ==
    /\ Over /\ ~seg.bad /\ seg.error = "none" /\ ~seg.ended
    /\ pc' = "return" /\ result' = "half"
    /\ UNCHANGED <<flag, attempt, bz, seg, record, branch, world>>

Answered == Over /\ ~seg.bad /\ seg.error = "none" /\ seg.ended
Truncated ==
    /\ Answered /\ seg.length /\ pc' = "return" /\ result' = "truncated"
    /\ UNCHANGED <<flag, attempt, bz, seg, record, branch, world>>
\* check_handshake.
Mismatch ==
    /\ Answered /\ ~seg.length /\ override /\ seg.v # "v"
    /\ pc' = "return" /\ result' = "error"
    /\ UNCHANGED <<flag, attempt, bz, seg, record, branch, world>>
\* seal: a block still open is closed, the usage lands, the array ends.
Seal ==
    /\ Answered /\ ~seg.length /\ ~(override /\ seg.v # "v")
    /\ staging' = [IF seg.open THEN Flushed ELSE staging EXCEPT !.sealed = TRUE]
    /\ pc' = "return" /\ result' = "ok"
    /\ UNCHANGED <<flag, attempt, bz, seg, step, response, meta, branch, world>>

\* The backoff is over, and the flag is read again.
Wake ==
    /\ pc = "sleep"
    /\ IF flag THEN pc' = "return" /\ result' = "failed" /\ UNCHANGED attempt
       ELSE pc' = "spawn" /\ attempt' = attempt + 1 /\ UNCHANGED result
    /\ UNCHANGED <<flag, bz, seg, record, branch, world>>

-----------------------------------------------------------------------------
(* The settled call: issue, commit_assistant.                              *)

\* The flag first, whatever the call came to; then its error.
Settle ==
    /\ pc = "return"
    /\ IF ~flag /\ result = "ok" THEN pc' = "meta" /\ UNCHANGED <<flag, locals>> ELSE Rest
    /\ UNCHANGED <<bz, record, branch, world>>
WriteMeta ==
    /\ pc = "meta" /\ meta' = TRUE /\ pc' = "rename"
    /\ UNCHANGED <<flag, attempt, bz, seg, result, step, response, staging, branch, world>>

\* commit_assistant: the staging file leaves by rename, then is committed.
Rename ==
    /\ pc = "rename" /\ pc' = "commit"
    /\ \E calls \in (IF staging.blocks = <<>> THEN {FALSE} ELSE BOOLEAN) :
           due' = calls
    /\ messages' = Append(messages, step)
    /\ UNCHANGED <<flag, attempt, bz, seg, result, record, world>>
\* An answer without a tool_use is the exchange's last; with one, its tools
\* run and the next step is due.
Commit ==
    /\ pc = "commit"
    /\ IF due THEN pc' = "hop" /\ UNCHANGED <<flag, locals>> ELSE Rest
    /\ UNCHANGED <<bz, record, branch, world>>
\* git, or the disk, fails.
StepFails ==
    /\ pc \in {"hop", "create", "meta", "rename", "commit"} /\ Rest
    /\ UNCHANGED <<bz, record, branch, world>>

Driver ==
    \/ StartDriver \/ Resolved \/ VersionSkew \/ HopStops \/ WriteRequest
    \/ CreateFiles \/ BeginSegment \/ SpawnError
    \/ BadStream \/ Failed \/ HalfStream \/ Truncated \/ Mismatch \/ Seal
    \/ Wake \/ Settle \/ WriteMeta \/ Rename \/ Commit \/ StepFails
Bz == BzWrites \/ BzTears \/ BzExits

-----------------------------------------------------------------------------
(* The stop, the crash, the next prompt.                                   *)

Sigterm ==
    /\ pc # "rest" /\ ~flag /\ stops < MaxStops
    /\ stops' = stops + 1 /\ flag' = TRUE
    /\ bz' = IF bz = "up" THEN "doomed" ELSE bz
    /\ UNCHANGED <<override, pc, attempt, seg, result, record, branch, crashes>>
Crash ==
    /\ pc # "rest" /\ crashes < MaxCrashes
    /\ crashes' = crashes + 1 /\ Rest /\ bz' = "none"
    /\ UNCHANGED <<override, record, branch, stops>>
\* A message is delivered to a branch at rest.
Prompted ==
    /\ pc = "rest" /\ ~due /\ due' = TRUE
    /\ UNCHANGED <<flag, pc, attempt, bz, seg, result, record, messages, world>>

\* Between the step's directory and the settlement of its call.
Calling == {"create", "spawn", "stream", "sleep", "return"}

ModelNext ==
    /\ Driver \/ Bz \/ Sigterm \/ Crash \/ Prompted
    /\ met' = IF flag' /\ pc' \in Calling THEN met \cup {step'} ELSE met
ModelSpec == ModelInit /\ [][ModelNext]_modelVars

-----------------------------------------------------------------------------
(* Properties.                                                             *)

HasEntry(n) == n \in Range(messages)

\* latest_step_outcome, died_mid_work, branch_failed: the latest step's.
ReadsDead == step > 0 /\ Classify(response) # "complete"

\* A segment that ran into the next: the adapter died between its error and
\* its end.
Merged == \E i \in 1..(Len(response) - 1) : response[i][Len(response[i])] # "end"

\* An entry is one attempt's answer and the whole of it: as many blocks as
\* that attempt opened, all its own, its own usage, sealed, of the last
\* segment on record, which finished, and of no other schema than the
\* handshake allows (ARCH 2.3: a discarded segment contributes nothing).  So
\* a step that reads as dead, whoever reads it and whenever, has committed
\* nothing (latest_step_outcome, which the sweep and `litany message` ask).
\* And a call the stop met is discarded whatever it came to: no entry of that
\* step exists then or ever after, across crashes and later drivers.
EntryIsOneAnswer ==
    /\ \A n \in met : ~HasEntry(n)
    /\ HasEntry(step) =>
        LET a == Len(response) IN
        /\ a > 0 /\ staging.sealed
        /\ staging.blocks = [j \in 1..Opens(response[a]) |-> a]
        /\ staging.usage = (IF "usage" \in Range(response[a]) THEN a ELSE 0)
        /\ "finish" \in Range(response[a]) /\ response[a][Len(response[a])] = "end"
        /\ override => "v" \in Range(response[a])
        /\ ~ReadsDead \/ Merged
=============================================================================
