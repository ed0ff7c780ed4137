---------------------------- MODULE Compaction ----------------------------
(***************************************************************************)
(* One dispatching branch, the compactors its checkpoint clock forks off   *)
(* it, and the workers it forks itself.  A compactor reads the tree at the *)
(* compaction point while the branch keeps stepping; its return lands by   *)
(* rebase-forward: a base commit squashes the span up to the point, and    *)
(* the commits after the point are replayed on it.  Any other return is    *)
(* delivered: the work-product transfer, then the message.                 *)
(*                                                                         *)
(* A branch is the sequence of its commits from the founding one, and a    *)
(* commit is reachable from a branch exactly when the sequence that ends   *)
(* with it is a prefix of the branch.  Tool steps are atomic here (the     *)
(* window inside one is the module ToolWindow), and so is the replay.      *)
(***************************************************************************)
EXTENDS Integers, Sequences, FiniteSets, SequencesExt

CONSTANTS
    EveryN,       \* compaction.intermediate.n under every_n_commits
    Keeps,        \* compaction.intermediate.keep_recent: the values it may have
    Windows,      \* how many calls one model output may make
    Effects,      \* what a tool may do to the worktree besides answering
    Sheddable,    \* kinds of file a compactor may choose to nominate
    CrashSites,   \* where the branch's driver may die
    MaxArrivals,  \* bound: messages from outside
    MaxCalls,     \* bound: model calls of the branch
    MaxPasses,    \* bound: compactors
    MaxTools,     \* bound: tool calls of one compactor
    MaxWorkers,   \* bound: workers
    MaxCrashes    \* bound: deaths of the driver

EntryKinds == {"goal", "mail", "output", "result"}
Kinds == EntryKinds \cup {"summary", "note", "work"}

\* keep_recent >= n is refused when the config is loaded.
ASSUME ClockAssumption == EveryN \in Nat /\ Keeps \subseteq {k \in Nat : k < EveryN}
ASSUME ChoicesAssumption ==
    /\ Windows \subseteq Nat \ {0}
    /\ Effects \subseteq {"none", "write", "drop", "note", "fork"}
    /\ Sheddable \subseteq Kinds
    /\ CrashSites \subseteq {"replayed", "transferred"}
ASSUME LandingBounds ==
    {MaxArrivals, MaxCalls, MaxPasses, MaxTools, MaxWorkers, MaxCrashes} \subseteq Nat

VARIABLES
    keep,        \* keep_recent, in the config that governs the branch
    branch,      \* the branch: its commits, oldest first
    hop,         \* the driver: at the step boundary, interpreting, or at the flush
    listed,      \* the returned children this hop is interpreting, in order
    inbox,       \* the result messages pending in the branch's inbox, in order
    children,    \* the children forked, in order; a child is its index
    conflicted,  \* the children marked refs/litany/conflicted
    authored,    \* how many transcript entries were written: their tags are 1..authored
    shed,        \* history: the entries that landed passes without a summary nominated
    torn,        \* history: one of these nominated a part of a tool window
    arrivals, steps, crashes

landingVars == <<keep, branch, hop, listed, inbox, children, conflicted, authored, shed,
          torn, arrivals, steps, crashes>>
record == <<keep, conflicted, shed, torn>>
bounds == <<arrivals, steps, crashes>>

-----------------------------------------------------------------------------
(* Trees: functions from paths to contents.                                *)

Msg(n) == <<"msg", n>>      \* messages/NNN-<origin>
Sum(n) == <<"sum", n>>      \* summary/NNN.md
Work(c) == <<"work", c>>    \* the product of the child c, of the branch itself for c = 0

Content(kind, tag, about) == [kind |-> kind, tag |-> tag, about |-> about]
Absent == Content("absent", 0, {})
FileAt(tree, p) == IF p \in DOMAIN tree THEN tree[p] ELSE Absent

Keep(tree, paths) == [p \in DOMAIN tree \cap paths |-> tree[p]]
Without(tree, paths) == [p \in DOMAIN tree \ paths |-> tree[p]]
Put(tree, p, content) ==
    [q \in DOMAIN tree \cup {p} |-> IF q = p THEN content ELSE tree[q]]

InDir(tree, dir) == {p \in DOMAIN tree : p[1] = dir}
Numbers(tree, dir) == {p[2] : p \in InDir(tree, dir)}
Greatest(S) == CHOOSE n \in S : \A m \in S : m <= n

\* next_seq, of the transcript and of the summaries: one more than the
\* highest number present.
NextSeq(tree, dir) == Greatest(Numbers(tree, dir) \cup {0}) + 1

EntriesIn(tree) == Numbers(tree, "msg")
EntriesOf(tree, kind) == {n \in EntriesIn(tree) : tree[Msg(n)].kind = kind}

\* The calls an output makes are the tags its results will bear.
AnsweredBy(tree) == UNION {tree[Msg(n)].about : n \in EntriesOf(tree, "result")}
CalledBy(tree) == UNION {tree[Msg(n)].about : n \in EntriesOf(tree, "output")}

\* The trailing unsettled window: the last output and all that follows it,
\* when one of its calls has no result after it.
UnsettledWindow(tree) ==
    LET outputs == EntriesOf(tree, "output")
        last == Greatest(outputs)
        after == {n \in EntriesOf(tree, "result") : n > last}
    IN IF /\ outputs # {}
          /\ ~(tree[Msg(last)].about \subseteq UNION {tree[Msg(n)].about : n \in after})
       THEN {n \in EntriesIn(tree) : n >= last}
       ELSE {}

\* The transcript warrants a model call: no call waits for its result, and
\* the last entry is not the model's own.
StepDue(tree) ==
    /\ CalledBy(tree) \subseteq AnsweredBy(tree)
    /\ EntriesIn(tree) # {} /\ tree[Msg(Greatest(EntriesIn(tree)))].kind # "output"

Tags(tree) == {tree[Msg(n)].tag : n \in EntriesIn(tree)}
Covered(tree) == UNION {tree[p].about : p \in InDir(tree, "sum")}

-----------------------------------------------------------------------------
(* Commits and lines of them.                                              *)

Commit(subject, by, tree) == [subject |-> subject, by |-> by, tree |-> tree]
EntryCommit(tree, content) == Commit("entry", 0, Put(tree, Msg(NextSeq(tree, "msg")), content))

TreeOf(line) == Last(line).tree
HEAD == TreeOf(branch)

\* origin: the newest founding commit or compaction base of a line.
Origin(line) == Greatest({i \in DOMAIN line : line[i].subject \in {"founding", "base"}})
CommitsSince(line) == Len(line) - Origin(line)
Bases(line) == {line[i].by : i \in {j \in DOMAIN line : line[j].subject = "base"}}

\* How many commits two lines share from the founding one on: merge-base.
Shared(line, other) ==
    Greatest({k \in 0 .. Len(line) : IsPrefix(SubSeq(line, 1, k), other)})

-----------------------------------------------------------------------------
(* Children.                                                               *)

\* A child carries the line up to its fork point, the tree of its own
\* dispatch commit, and the tree at its tip.
Child(role, past, founded) ==
    [role |-> role, past |-> past, founded |-> founded, tip |-> founded,
     tools |-> 0, epitaph |-> "running"]

IsCompactor(c) == children[c].role = "compactor"
OfRole(role) == {c \in DOMAIN children : children[c].role = role}

\* A compactor keeps the dialog, less the trailing unsettled window; a
\* worker's dispatch commit prunes the dialog whole.
CompactorTree(tree) == Without(tree, {Msg(n) : n \in UnsettledWindow(tree)})
WorkerTree(tree) == Keep(tree, InDir(tree, "work"))

Running(c) == children[c].epitaph = "running"
Compacting == {c \in OfRole("compactor") : Running(c)}

-----------------------------------------------------------------------------
LandingInit ==
    /\ keep \in Keeps
    /\ branch = <<Commit("founding", 0, <<>>), EntryCommit(<<>>, Content("goal", 1, {}))>>
    /\ hop = "boundary" /\ listed = <<>> /\ inbox = <<>>
    /\ children = <<>> /\ conflicted = {}
    /\ authored = 1 /\ shed = {} /\ torn = FALSE
    /\ arrivals = 0 /\ steps = 0 /\ crashes = 0

-----------------------------------------------------------------------------
(* A hop of the driver: delivery, the returns, the step, the flush.        *)

\* deliver_message: mail becomes the next entry.
DeliverMail ==
    /\ hop = "boundary" /\ arrivals < MaxArrivals
    /\ branch' = Append(branch, EntryCommit(HEAD, Content("mail", authored + 1, {})))
    /\ authored' = authored + 1 /\ arrivals' = arrivals + 1
    /\ UNCHANGED <<hop, listed, inbox, children, record, steps, crashes>>

\* load_results: what is pending now is what this hop interprets.
List ==
    /\ hop = "boundary" /\ (inbox # <<>> \/ StepDue(HEAD))
    /\ hop' = "interpret" /\ listed' = inbox
    /\ UNCHANGED <<branch, inbox, children, record, authored, bounds>>

\* The result file is gone, and the next return is this hop's.
Consume ==
    /\ \E i \in DOMAIN inbox : inbox[i] = listed[1] /\ inbox' = RemoveAt(inbox, i)
    /\ listed' = Tail(listed)
    /\ UNCHANGED <<hop, crashes>>

\* The driver dies with the result file still pending; the next hop lists
\* it again.
DieAt(site) ==
    /\ site \in CrashSites /\ crashes < MaxCrashes
    /\ hop' = "boundary" /\ listed' = <<>> /\ crashes' = crashes + 1
    /\ UNCHANGED inbox

-----------------------------------------------------------------------------
(* Landing a compaction.                                                   *)

Point(c) == Len(children[c].past)

\* Mutant: a landing does not ask whether another overtook it.
NeverSuperseded(c) == FALSE
\* span::of: the point was rebased out of the branch, or a landing sits
\* after it.
Superseded(c) ==
    \/ ~IsPrefix(children[c].past, branch)
    \/ \E i \in Point(c) + 1 .. Len(branch) : branch[i].subject = "base"

\* product: the paths the compactor deleted after its dispatch commit, and
\* the summary paths it added after it.
Nominated(c) == DOMAIN children[c].founded \ DOMAIN children[c].tip
Summaries(c) == InDir(children[c].tip, "sum") \ DOMAIN children[c].founded

\* Mutant: the sweep takes the unsettled window too.
SpanToThePoint(c) ==
    {Msg(n) : n \in EntriesIn(TreeOf(children[c].past)) \ {1}}
\* span_transcript: the settled entries of the point's tree, less the
\* branch's opening prompt; a pass without a summary sweeps none.
Span(c) ==
    LET tree == TreeOf(children[c].past)
    IN {Msg(n) : n \in EntriesIn(tree) \ (UnsettledWindow(tree) \cup {1})}
\* Mutant: the sweep does not wait for a summary.
SweptAnyway(c) == Span(c)
Swept(c) == IF Summaries(c) = {} THEN {} ELSE Span(c)

Deletions(c) == Nominated(c) \cup Swept(c)

\* base::mint: the tree at the point with the product applied.
BaseTree(c) ==
    LET point == TreeOf(children[c].past)
        kept == DOMAIN point \ Deletions(c)
    IN [p \in kept \cup Summaries(c) |->
          IF p \in Summaries(c) THEN children[c].tip[p] ELSE point[p]]

\* The live branch changed the path after commit k, at commit j or before.
Touched(p, k, j) ==
    \E i \in k + 1 .. j : FileAt(branch[i].tree, p) # FileAt(branch[i - 1].tree, p)

\* rebase_forward::run on what the base changed: a path deleted there and
\* changed by the live branch stays as the live branch has it; a path added
\* there and changed by the live branch is a conflict.
ReplayedTree(base, k, j) ==
    LET tree == branch[j].tree
        paths == {p \in DOMAIN base \cup DOMAIN tree :
                     p \in IF Touched(p, k, j) THEN DOMAIN tree ELSE DOMAIN base}
    IN [p \in paths |-> IF Touched(p, k, j) THEN tree[p] ELSE base[p]]

Replay(base, k) ==
    [i \in 1 .. Len(branch) - k |->
        [branch[k + i] EXCEPT !.tree = ReplayedTree(base, k, k + i)]]

Conflicts(c) == {p \in Summaries(c) : Touched(p, Point(c), Len(branch))}

\* The span between the point's origin and the point is squashed into one
\* base commit, on the origin.
Landed(c) ==
    SubSeq(branch, 1, Origin(children[c].past))
        \o <<Commit("base", c, BaseTree(c))>>
        \o Replay(BaseTree(c), Point(c))

\* What a pass without a summary takes out of the context: nobody stands
\* in for it.
ShedBy(c) ==
    LET founded == children[c].founded
        gone == Keep(founded, Nominated(c))
    IN IF Summaries(c) = {} THEN Tags(gone) \cup Covered(gone) ELSE {}

\* It nominated an output without its results, or a result without its
\* output.
Tears(c) ==
    LET gone == Keep(children[c].founded, Nominated(c))
    IN Summaries(c) = {} /\ CalledBy(gone) # AnsweredBy(gone)

\* land: overtaken, without a product, in conflict, or landed.
Outcome(c) ==
    IF Superseded(c) THEN "superseded"
    ELSE IF Deletions(c) \cup Summaries(c) = {} THEN "no-op"
    ELSE IF Conflicts(c) # {} THEN "conflicted"
    ELSE "landed"

Qualifies(c) == IsCompactor(c) /\ children[c].epitaph = "final-response"

\* land_compaction: whatever the outcome, the result file goes.
Land(c) ==
    /\ Qualifies(c)
    /\ IF Outcome(c) = "landed"
       THEN branch' = Landed(c) /\ shed' = shed \cup ShedBy(c) /\ torn' = (torn \/ Tears(c))
       ELSE UNCHANGED <<branch, shed, torn>>
    /\ conflicted' = IF Outcome(c) = "conflicted" THEN conflicted \cup {c} ELSE conflicted
    /\ Consume \/ DieAt("replayed")
    /\ UNCHANGED <<keep, children, authored, arrivals, steps>>

-----------------------------------------------------------------------------
(* Delivering any other return.                                            *)

\* transfer::apply: the work products that differ between the merge base
\* and the child's tip, applied where the branch still has the merge base's.
MergeBaseTree(c) == branch[Shared(branch, children[c].past)].tree
Differing(c) ==
    LET from == MergeBaseTree(c)
        tip == children[c].tip
    IN {p \in InDir(from, "work") \cup InDir(tip, "work") : FileAt(from, p) # FileAt(tip, p)}
Applies(c) == \A p \in Differing(c) : FileAt(HEAD, p) = FileAt(MergeBaseTree(c), p)

TransferredTree(c) ==
    LET tip == children[c].tip
        kept == DOMAIN HEAD \ Differing(c)
        brought == Differing(c) \cap DOMAIN tip
    IN [p \in kept \cup brought |-> IF p \in brought THEN tip[p] ELSE HEAD[p]]

\* The branch after the transfer: one commit, or none for an empty diff and
\* for one that does not apply.
Transferred(c) ==
    IF Differing(c) # {} /\ Applies(c)
    THEN Append(branch, Commit("transfer", c, TransferredTree(c)))
    ELSE branch

\* deliver_result: the transfer, then the message; a child whose diff does
\* not apply is marked, and its message is delivered all the same.
DeliverResult(c) ==
    /\ ~Qualifies(c)
    /\ conflicted' = IF Applies(c) THEN conflicted ELSE conflicted \cup {c}
    /\ \/ /\ branch' = LET line == Transferred(c) IN
              Append(line, EntryCommit(TreeOf(line), Content("mail", authored + 1, {})))
          /\ authored' = authored + 1
          /\ Consume
       \/ /\ branch' = Transferred(c)
          /\ UNCHANGED authored
          /\ DieAt("transferred")
    /\ UNCHANGED <<keep, children, shed, torn, arrivals, steps>>

\* interpret_pending, one return.
Interpret ==
    /\ hop = "interpret" /\ listed # <<>>
    /\ Land(listed[1]) \/ DeliverResult(listed[1])

-----------------------------------------------------------------------------
(* The step and the flush.                                                 *)

Stepping == hop = "interpret" /\ listed = <<>>

\* No step is due: the hop ends.
Quiesce ==
    /\ Stepping /\ ~StepDue(HEAD)
    /\ hop' = "boundary"
    /\ UNCHANGED <<branch, listed, inbox, children, record, authored, bounds>>

\* An output without calls is terminal: no tools, and no flush.
Speak ==
    /\ Stepping /\ StepDue(HEAD) /\ steps < MaxCalls
    /\ branch' = Append(branch, EntryCommit(HEAD, Content("output", authored + 1, {})))
    /\ authored' = authored + 1 /\ steps' = steps + 1
    /\ hop' = "boundary"
    /\ UNCHANGED <<listed, inbox, children, record, arrivals, crashes>>

\* What the first of a window's tools does to the tree; the commit of its
\* result stages the whole worktree.
Affected(effect, tree, tag) ==
    CASE effect = "write" -> Put(tree, Work(0), Content("work", tag, {}))
      [] effect = "drop" -> Without(tree, {Work(0)})
      [] effect = "note" -> Put(tree, Sum(NextSeq(tree, "sum")), Content("note", tag, {}))
      [] OTHER -> tree

\* commit_assistant: an output with n calls, whose results will bear the
\* next n tags.
CallCommit(n) ==
    EntryCommit(HEAD, Content("output", authored + 1, authored + 2 .. authored + 1 + n))

\* commit_tool: one commit per result.
ResultCommits(n, effect) ==
    LET tree == Affected(effect, CallCommit(n).tree, authored + 2)
        seq == NextSeq(tree, "msg")
        results(i) == {Msg(seq + j - 1) : j \in 1 .. i}
        result(p) == LET tag == authored + 2 + p[2] - seq IN Content("result", tag, {tag})
    IN [i \in 1 .. n |->
          Commit("entry", 0, [p \in DOMAIN tree \cup results(i) |->
                                 IF p \in results(i) THEN result(p) ELSE tree[p]])]

\* hop::step with tools; one that forks a worker forks it off the tip, where
\* the call is committed and its result is not.
Tools(n, effect) ==
    /\ Stepping /\ StepDue(HEAD) /\ steps < MaxCalls
    /\ effect = "drop" => Work(0) \in DOMAIN HEAD
    /\ effect = "fork" => Cardinality(OfRole("worker")) < MaxWorkers
    /\ LET called == Append(branch, CallCommit(n))
       IN /\ branch' = called \o ResultCommits(n, effect)
          /\ children' = IF effect = "fork"
                         THEN Append(children, Child("worker", called, WorkerTree(HEAD)))
                         ELSE children
    /\ authored' = authored + 1 + n /\ steps' = steps + 1
    /\ hop' = "flush"
    /\ UNCHANGED <<listed, inbox, record, arrivals, crashes>>

Step == Speak \/ \E n \in Windows, effect \in Effects : Tools(n, effect)

\* compaction_in_flight: a compactor of this branch has no returned mark.
InFlight == Compacting # {}

\* checkpoint::due, under every_n_commits.
CheckpointDue == ~InFlight /\ EveryN > 0 /\ CommitsSince(branch) >= EveryN

\* compaction_point: the tip, or the commit keep_recent behind it, when
\* there is something beneath the retained tail.
HasPoint == keep = 0 \/ CommitsSince(branch) > keep
Past == SubSeq(branch, 1, Len(branch) - keep)

\* run_flush: fork a compactor when the checkpoint is due.
Flush ==
    /\ hop = "flush"
    /\ hop' = "boundary"
    /\ IF CheckpointDue /\ HasPoint
       THEN /\ Cardinality(OfRole("compactor")) < MaxPasses
            /\ children' = Append(children,
                              Child("compactor", Past, CompactorTree(TreeOf(Past))))
       ELSE UNCHANGED children
    /\ UNCHANGED <<branch, listed, inbox, record, authored, bounds>>

-----------------------------------------------------------------------------
(* The children's own work, while the branch steps.                        *)

\* written_by_this_pass: added or rewritten since its dispatch commit.
OwnProduct(c) ==
    {p \in DOMAIN children[c].tip : FileAt(children[c].founded, p) # children[c].tip[p]}

\* not_compaction_eligible: the opening prompt and the pass's own product.
Nominable(c) == DOMAIN children[c].tip \ (OwnProduct(c) \cup {Msg(1)})

\* mark_for_deletion of one file.
MarkForDeletion(c, p) ==
    /\ p \in Nominable(c) /\ children[c].tip[p].kind \in Sheddable
    /\ children' = [children EXCEPT ![c].tip = Without(@, {p}), ![c].tools = @ + 1]

\* write_summary: it stands for every entry the pass was shown, and for
\* what the earlier summaries it was shown stood for.
WriteSummary(c) ==
    LET founded == children[c].founded
        content == Content("summary", c, Tags(founded) \cup Covered(founded))
    IN children' = [children EXCEPT
          ![c].tip = Put(@, Sum(NextSeq(@, "sum")), content), ![c].tools = @ + 1]

CompactorTool(c) ==
    /\ c \in Compacting /\ children[c].tools < MaxTools
    /\ WriteSummary(c) \/ \E p \in DOMAIN children[c].tip : MarkForDeletion(c, p)
    /\ UNCHANGED <<branch, hop, listed, inbox, record, authored, bounds>>

\* The result file and the returned mark.
Return(c, epitaph, tip) ==
    /\ Running(c)
    /\ children' = [children EXCEPT ![c].epitaph = epitaph, ![c].tip = tip]
    /\ inbox' = Append(inbox, c)
    /\ UNCHANGED <<branch, hop, listed, record, authored, bounds>>

CompactorReturns(c) ==
    /\ IsCompactor(c)
    /\ \E epitaph \in {"final-response", "died"} : Return(c, epitaph, children[c].tip)

\* A worker writes within its own write path, and no other child's.
WorkerReturns(c) ==
    /\ ~IsCompactor(c)
    /\ Return(c, "final-response", Put(children[c].tip, Work(c), Content("work", 0, {})))

LandingNext ==
    \/ DeliverMail \/ List \/ Interpret \/ Quiesce \/ Step \/ Flush
    \/ \E c \in DOMAIN children :
          CompactorTool(c) \/ CompactorReturns(c) \/ WorkerReturns(c)

LandingSpec == LandingInit /\ [][LandingNext]_landingVars

-----------------------------------------------------------------------------
(* Properties.                                                             *)

Paths == ({"msg", "sum"} \X (Nat \ {0})) \cup ({"work"} \X Nat)
TreeOK(tree) ==
    \A p \in DOMAIN tree :
        /\ p \in Paths /\ tree[p].kind \in Kinds
        /\ tree[p].tag \in Nat /\ tree[p].about \subseteq 1 .. authored

\* The state has its types, every path of a tree is one the code makes, and
\* a pending result is a returned child's.
LandingTypeOK ==
    /\ hop \in {"boundary", "interpret", "flush"}
    /\ branch # <<>> /\ TreeOK(HEAD)
    /\ \A c \in DOMAIN children :
          /\ TreeOK(children[c].founded) /\ TreeOK(children[c].tip)
          /\ children[c].epitaph \in {"running", "final-response", "died"}
    /\ \A i \in DOMAIN inbox : ~Running(inbox[i])
    /\ \A i \in DOMAIN listed : \E j \in DOMAIN inbox : inbox[j] = listed[i]
    /\ conflicted \subseteq DOMAIN children /\ shed \subseteq 1 .. authored
    /\ {authored, arrivals, steps, crashes} \subseteq Nat

\* No entry leaves the context unaccounted for: each is still in the
\* transcript, or a summary in the tree was written by a pass that was shown
\* it, or a landed pass without a summary nominated it; the opening prompt
\* is never any but the first (land.rs, product.rs: what the sweep takes is
\* what the summary stands for).
Accounted ==
    /\ 1 .. authored \subseteq Tags(HEAD) \cup Covered(HEAD) \cup shed
    /\ FileAt(HEAD, Msg(1)).kind = "goal"

\* No cut of the program's own splits a tool window: in every tree a model
\* call is composed from, the branch's and each compactor's, the results are
\* those of the calls (pairing.rs: `a cut falls between windows, never inside
\* one'), until a pass that wrote no summary lands with a part of a window
\* among what it nominated, which not_compaction_eligible lets it.
Paired ==
    ~torn =>
    /\ AnsweredBy(HEAD) = CalledBy(HEAD)
    /\ \A c \in OfRole("compactor") :
          AnsweredBy(children[c].founded) = CalledBy(children[c].founded)

Landing == Bases(branch') # Bases(branch)

\* Every file after a landing is the file the branch had before it, except
\* the summary the pass added; and what is gone the pass was shown, in the
\* version the branch held when it was taken away.
OnlyRemoves(before, after) ==
    \A p \in DOMAIN after :
        \/ after[p] = FileAt(before, p)
        \/ p \notin DOMAIN before /\ after[p].kind = "summary"
Shown(before, after) ==
    \A p \in DOMAIN before \ DOMAIN after :
        \E c \in Bases(branch') \ Bases(branch) : FileAt(children[c].founded, p) = before[p]

\* The entry the branch ended with is still there, or in a summary.
Heard ==
    \/ Msg(Greatest(EntriesIn(HEAD))) \in DOMAIN HEAD'
    \/ \A c \in Bases(branch') \ Bases(branch) : Summaries(c) # {}

\* A landing only takes away, and only what its pass saw (land.rs: the live
\* branch wins, rebase_forward.rs: a path it rewrote meanwhile survives); it
\* squashes its own span and never an earlier landing (span.rs: a pass another
\* landing overtook does not land); and while windows are whole it neither
\* wakes a branch that was done nor silences one that owes a step (advance.rs
\* reads the warrant after the landing, in the same hop), unless its pass
\* nominated what the branch ended with and wrote no summary.
LandingOnlyRemoves ==
    [][Landing =>
         /\ OnlyRemoves(HEAD, HEAD') /\ Shown(HEAD, HEAD')
         /\ Bases(branch) \subseteq Bases(branch')
         /\ ~torn' /\ Heard => (StepDue(HEAD) <=> StepDue(HEAD)')]_landingVars

\* Work within a worker's own write path is never refused: ``conflict-free
\* is by construction'' (transfer.rs), wherever the branch was compacted
\* in the meantime.
WorkersLand == \A c \in conflicted : IsCompactor(c)

=============================================================================
