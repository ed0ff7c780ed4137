# A TLA+ model of litany

litany runs trees of LLM agents on top of a git repository. An agent is a
branch `agents/<id>`, a worktree, and an inbox directory; a *driver* is a
short-lived process that takes one step for one agent and hands over to the
next. There is no daemon and no database: processes of the same program meet on
a file listing, a rename, a `flock` and a ref. This directory models those
meetings and the algorithms that decide what an agent is sent, checks them with
TLC and proves the central ones with TLAPS.

Paths below are relative to the repository's crate root. `ARCH` is
`docs/ARCHITECTURE.md`.

## Inventory

The parts that keep state, what they do, what makes them hard and what makes
them correct, with the module that models each.

| part (sources) | state | operations | correct when | module |
|---|---|---|---|---|
| Executor lock and launch (`prompt/inbox/{lock,launch,baton}`) | one non-blocking `flock` per inbox directory | acquire; release by `Drop`, by the kernel, or kept across `exec`; probe and launch | one process writes a transcript; mail pending and nobody driving leads to a launch | `Delivery` |
| Inbox deposit (`prompt/inbox/{deposit,cli}`) | files `<sender>-<NNN>.md` | list, number, write under a temporary name, rename | no deposit replaces another | `Delivery` |
| Drain, driver, transcript (`dispatch/{drain,driver,transcript}`) | `messages/` in the worktree and in the branch | recover strays, list, move and commit, release, re-read | each message is delivered once and in its sender's order | `Delivery` |
| One hop (`dispatch/advance*`, `exchange`) | the steps above in one process | lock, hold, settlement, delivery, interpretation, warrant, step, release | - | several |
| Tool window (`dispatch/tool_step*`, `workspace/hold`) | the tail of the transcript, the hold mark, the stop flag | grant, control, execute, commit; settle; resume | every call is answered once, in place, and runs at most once | `ToolWindow` |
| Terminal, result deposit, debt (`dispatch/{terminal,result_deposit}*`) | a result file and the returned mark | address, deposit, mark, release | the mark never stands for a missing result | `Returns` |
| Scan (`prompt/inbox/scan`) | none | sweep, flush | a returned child is reported dead, and a death twice, only by ways that can be named | `Returns`, `Delivery` |
| Child results, gate (`dispatch/child_result*`) | results left in the inbox | deliver, hold, judge, land, dispatch again | nothing unapproved is delivered, nothing is lost | `Gate` |
| Child dispatch, names, budgets (`child_dispatch*`, `subagent`, `workspace/agent_name*`, `budget`) | refs, names in trees, recorded steps | ask, name, budget, lock, fork, commit, first message | only funded agents are made; names are not shared | `Creation` |
| Archive (`archive/`) | every home of a subtree | list marks and targets, probe, remove | after a delete that finished nothing of the subtree is left | `Removal` |
| Compaction (`prompt/compactor`, `rebase_forward`, `dispatch/transfer`) | commits of the branch, its compactors, conflicted marks | checkpoint, pass, landing, transfer | what leaves the context was shown to the pass and is accounted for | `Compaction`, `Extract` |
| Stop cascade (`prompt/stop`) | processes of a subtree | enumerate, look up in /proc, signal, wait, kill | who drove the subtree when it was enumerated is felled | `StopCascade` |
| Tool executor (`tool/{spawn,subprocess,control}`, `builtin/{child,bash,python}`) | a process tree and its pipes | control, spawn, write, wait, terminate, relay | a tool runs only behind its verdict; a stopped call ends and leaves nothing | `ToolCall` |
| Model call (`dispatch/{model_call,one_call,staging}*`, `adapter`, `provider/segment`) | response, staging and meta files | handshake, stream, retry, settle, commit | an entry is the whole answer of one attempt | `ModelCall` |
| Config lineages and proposals (`template/`, `workspace/{proposal,current_config}*`, `child_result/proposal*`) | `config/*` and `proposal/*` refs, one checkout | authoring pass, stage, accept, reject, follow | proposed facts stay; an agent's configuration moves forward | `Authoring` |
| Retarget (`prompt/retarget`, `workspace/{retarget,workflow_mark,model_mark}*`) | four marks per agent | mark, preflight, land | an agent is founded where the mark said | `Retarget` |
| Procedures (`procedure`, `workflow_actions`, `reviewer`, `config/{event,action,workflow}`) | bindings in two versions of a workflow | fire, dispatch, notify | a hook's child fires no hook | `Procedures` |
| Skills (`skill/`, `install`, `step_commit/{skill_bodies,reviewer_read}*`) | the pool, the lineage's bodies, copies in branches | prime, fork, load, curate, review, census | a review is proposed as made; an agent's skill is not called idle | `Skills` |
| Descriptors (`step_commit/descriptors*`) | `descriptions/` in a tree | cut at a dispatch, refresh at a boundary | a recorded step can be composed again | `Descriptors` |
| Request composition (`dispatch/{assembler,pairing,canonical,prefix,tools}*`) | the last request | head, body under a budget, tail, tools, hold | the provider accepts it; it repeats the earlier one as its prefix | `Request` |
| Patch tool (`builtin/apply_patch`) | a tree | parse, stage, write | an envelope has one meaning and the tree becomes it | `Patch` |
| Bounded output (`tool/{bound,record}`, `builtin/{read_file,read_tool_output}`) | captures, addresses | cut, page, range | all of a capture is reachable and reading ends | `Paging` |

They interact as follows. A depositor (operator, tool, child's terminal, scan)
writes a file and probes; a free probe launches a driver. The driver resolves
its configuration and lands a retarget, refreshes descriptors, delivers mail,
interprets children's results, composes a request, calls the model, runs the
window of tools the answer asks for, fires the hooks and asks the compaction
clock; its terminal deposits in another agent's inbox and probes there. A scan
repairs what deaths left, a stop fells a subtree, a delete removes one.

## Plan

Done, in this order: `Delivery` with the abstract `Mailbox` and its proofs;
`ToolWindow`; `Returns` and its proofs; `Compaction`; `StopCascade`; `ToolCall`;
`ModelCall`; `Gate`; `Authoring` and `Retarget`; `Creation` and `Removal`; the
algorithms `Patch`, `Request`, `Paging`, `Extract`; `Procedures`, `Skills` and
`Descriptors`; the modules that put them together for TLC.

Left:

1. Proofs of what the algorithms compute: `PrefixKept` of `Request`, `OneMeaning`
   of `Patch`, `SpentOnTheNewest` of `Extract`.
2. `ReplyDebt`: the walk over committed entries that derives whether a terminal
   response owes an answer; the order of names past the thousandth pending
   message.
3. A type invariant for `Patch` and `Extract`; every other component has one, in
   its module or in the module of its proofs.

## Modules

| module | models | extends or instantiates |
|---|---|---|
| `Delivery` | one inbox, its lock and every process around it | `Mailbox` |
| `Mailbox` | what an inbox promises; `Delivery` implements it | |
| `Returns` | a child's return and the sweep | |
| `ToolWindow` | the tool window across drives | |
| `Compaction` | one branch, its compactors and their landings | |
| `StopCascade` | one `litany stop` against drivers that go on | |
| `ToolCall` | the processes below one tool call | |
| `ModelCall` | the attempts and files of an agent's model calls | |
| `Gate` | a driver that interprets children's returns under a gate | |
| `Authoring` | config lineages, passes, proposals, verdicts | |
| `Retarget` | the marks that move an agent | `Authoring` |
| `Creation` | names, budgets and homes of new agents | |
| `Removal` | the delete of a subtree | `Creation` |
| `Procedures` | the children a workflow forks | |
| `Skills` | bodies in the pool, the lineage and branches | |
| `Descriptors` | what a tree describes and a call declares | |
| `Request` | the request of a step | |
| `Patch`, `Paging`, `Extract` | three algorithms and their protocol | |
| `MCDriver` | what one driver does to its branch | extends `ToolWindow`, `Compaction`, `Procedures` |
| `MCStops` | how agents end: the two sides of a stop, a death and its report | `StopCascade`, `ToolCall`, `Returns` |
| `MCTree` | the tree of agents | `Gate`, `Removal` |
| `MCContext` | what goes into a model call and comes out | extends `Descriptors`, `ModelCall`, `Skills`, `Paging`, `Request`, instantiates `Patch`, `Extract` |
| `MCDelivery`, `MCReturns`, `MCRetarget`, `MCToolWindow`, `MCCompaction`, `MCGate`, `MCToolCall` | instances of one module | the module |
| `Delivery_proofs`, `Compaction_proofs`, `Gate_proofs` | theorems | the module |
| `ToolWindow_proofs` | theorems about `ToolWindow` and about `Procedures` | both |
| `Endings_proofs` | theorems about `Returns`, about `StopCascade` and about `ToolCall` | the three |
| `Context_proofs` | theorems about `Descriptors`, `ModelCall`, `Skills`, `Paging` and `Request` | the five |
| `Retarget_proofs` | theorems about `Authoring` and `Retarget` | `Retarget` |
| `Removal_proofs` | theorems about `Creation` and `Removal` | `Removal` |

Each module is a cut of the same processes, and the cuts rest on each other.
`Delivery` has the lock and every step around it, and reduces a hop's step to its
outcome. `ToolWindow`, `Gate` and `Compaction` take one driver at a time from
`Delivery`'s `LockInv` (proved) and open the step, the interpretation and the
landing. `Returns` takes from `Delivery` that a deposit and its launch are
complete unless something dies. `Compaction` takes from `ToolWindow` that a step
leaves every call answered. `Skills` takes a pass as one step, which `Authoring`
opens. `StopCascade` ends with a signal, which `ToolCall`, `ToolWindow` and
`ModelCall` begin with.

**Summed instances.** `MCDriver`, `MCStops`, `MCTree` and `MCContext` put several
components side by side. The components of one instance share no variable of the
code (each module's header says which state it cuts out), so every interleaving of
two of them is two behaviours that do not touch. The variable `which` says whose
behaviour a behaviour is; the others stand still. TLC so explores the sum of the
state spaces and not their product. The components they extend rest in an initial
state, and the properties checked are the components' own, the ones that are proved.
`MCContext` also instantiates `Patch` and `Extract`, and `P == which = "c" => C!P`
asks an instantiated component's property where it runs. Where components do share
state (`Retarget` and `Authoring`, `Removal` and `Creation`) one module extends the
other and all interleavings are explored.

Definitions whose comment begins with *Mutant* (most are named after the
definition they alter, with an underscore) are deliberate mutations that some
property rejects; no specification uses them.

### Delivery

`pc[p]` is where a process is between two steps that others can observe.
A writer goes `listed` (after `next_sequence`), `staged` (after the write of the
temporary file), `probe` (after the rename), `probing` (holding the lock it
asked for), `launch`. A driver goes `hop`, `deliver`/`moved` (a renamed message
awaits its commit), `interpret`/`imoved` (children's results, listed a second
time), `step`, `release`, `reread`, and through the same probe to `exit`. `held`
is `held::resume`. A scan and a `litany delete` that only asks (a *census*)
probe, and the scan then flushes.

A message is identified with its writer. A file is `[from, seq, mtime, msg]`;
`SeenDeposit::matches` compares name and mtime. `Kind` says whether a deposit is
plain mail, a child's result that wakes the recipient, or a stopped or
exhausted child's result, which is left without a launch by design. `Gated`
results may be held by the workflow.

Abstractions. mtimes are distinct (two writes never share a clock tick; ties,
broken by name, are not modelled). A sibling's result is plain mail. A landing
that consumes a result without an entry is in `Returns`. Torn-down worktrees,
retargets and procedure hooks are left out: they do not touch the inbox or the
lock. `Die` covers deaths and error exits alike. `waived` is a history variable:
the messages whose launch a death has forfeited, or that a driver has left on
purpose; a free probe and a new listing take it back.

### ToolWindow

`transcript` is a sequence of user turns, assistant entries with a number of
calls, and results tagged with how the call ended. The drive is `boundary` (hold
mark), `settle`, `deliver`, `warrant`, then `window`, `enter`, `exec`, `record`
per call, `interrupt` for the settlement of a stop, `seams` after the window.
`exchange` tells `litany prompt`, which loops, from `litany advance`, which
re-executes itself and so clears `stop`. `ran` counts entries into the executor.

Abstractions. An entry counts as in the transcript once its file is in the
worktree. Ids are fresh in every step (`Request` has ids that come again). Mail of
one drain is one user turn. An unparsable hold mark is not modelled. A tool may
finish in spite of a stop.

### Returns

One child, its parent, any number of sweeps. `sent` counts what reached the
parent under the child's name, by the place the parent's drives have carried it
to: inbox (`"final"` for a final response there, which a landing may consume),
worktree, transcript; what was landed or squashed by a compaction is in none. The
child's drive is `hop`, `step`, `file` (about to deposit), `mark` (about to write the
mark). A sweep is `ref`, `inbox`, `tree`, `report`, `marking`, in the order of
`returned` and `deposit_result`. Both may die at any of these. The properties read
history variables: `deposited`, `reports` (of the child's death), `found[s]` (a
result had been deposited when the sweep probed) and `lost` (deaths between a
result and its mark, of the child's drivers and of sweeps).

That a child which returned is never reported dead (`NoFalseDeath`) is what the code
says of itself, and what it does not keep: the run `returns_mark` is the
counterexample. `FalseDeathsExplained` is what it does keep, with every death and
with sweeps that overlap, and `ReportsCounted` bounds the reports.

Abstractions. One driver at a time for the child (`LockInv`); `launched` is a
flag and the release rule is `Delivery`'s. The parent's drives are a choice of
moves, and files of one kind in one place are alike: the sweep asks only whether
there is one. A reply to a third agent is not modelled, nor is the squashing of
the child's own prompts.

### Compaction and Extract

A tree is a function from paths (`messages/NNN`, `summary/NNN`, work products) to
contents; a content has a kind, a tag and what it is about: the calls an output
makes, the call a result answers, the entries a summary stands for. `branch` is
the sequence of commits from the founding one, each with its whole tree, and a
commit is reachable exactly when the sequence that ends with it is a prefix, so
`merge-base --is-ancestor` is `IsPrefix` and `merge-base` is `Shared`. `hop` is the
driver: `boundary` (delivery), `interpret` (`listed` are the returns this hop
takes, then the step), `flush` (the checkpoint). A child carries `past` (the line
up to its fork point), `founded` (the tree of its dispatch commit), `tip` and its
epitaph, `running` until the result file and the returned mark are written.
`Land` and `DeliverResult` are the two arms of `interpret_pending`, with the death
between the commit and the removal of the result file. `ReplayedTree` is what
`git rebase --onto` with the resolutions of `rebase_forward` makes of one commit.
`shed` and `torn` are history variables: what landed passes without a summary took
away, and whether one of them nominated an output without its results or a result
without its output. The code lets a pass do that (`eligibility.rs` declines the
opening prompt and what lies behind the point, "every other entry stays nominable
one by one"), so `Paired` speaks of what the code itself cuts: it holds until such a
landing (`~torn`). Nor may a landing change whether the branch owes a step, unless
its pass wrote no summary and nominated the very entry the branch ends with
(`Heard`). Both conditions are needed, see *Disagreements*.

`Extract` is what a landing keeps of the entries it removes: pull requests,
hashes, paths, errors and the user's lines, newest first under a cap, rendered
by section. `SpentOnTheNewest` compares the file with a reference that ranks each
reference by the newest entry that has it.

Abstractions. A tool step and a replay are atomic (the window is
`ToolWindow`'s; a death inside git's own rebase is not modelled). The clock is
`every_n_commits`; the other triggers change when a pass starts, and the token
tail where its point lies. A nomination is one file. A dirty worktree, rename
detection and the driver's death between a window and its flush (the next step
asks the same question) are left out. In `Extract` a word is a byte and a record
of what the scan asks of it.

### StopCascade and ToolCall

`StopCascade`: a process `at[p]` is somewhere between `try_acquire` and its exit,
drives `for[p]`, and may fork a child, launch a driver, answer its dispatcher or
hand the baton on by `exec` (its pid stays, its flag is cleared). The stop
(`stop`) lists, does one `look` per directory, with `read` between a holder found
and its group, vets its own group, sends its `term`, waits out a deadline and
sends a `kill`; it ends `done` or `refused`. `standing` and
`felled` are history variables: who drove the subtree since the stop began, and
whom its signals reached.

`ToolCall`: the executor `epc` spawns the control, then the tool, with retries on
`ETXTBSY`; it writes the input, polls, kills after its grace and joins the pipes.
`tool` and `below` are the processes below it: a built-in (`bash`, `python`) puts
its child in a group of its own, signals that group and relays its output. A
process in `traits.obeys` ends on SIGTERM; a descendant may hold the pipe or
leave the group.

Abstractions. Pids are not used again and zombies are gone. The walk over /proc
and the `stat` of one holder are two steps. Bytes are who holds the write end of
a pipe. What a control leaves running is forgotten. The inner grace (2 s) ends
before the outer (5 s). Calls through a program's door are not modelled.

### ModelCall

The driver's `pc` goes from `rest` through the handshake (`resolve`), the request
(`hop`), `create` (three files), `spawn`, `stream`, and by the adapter's exit to a
retry (`sleep`), a settlement (`return`), `meta`, the `rename` of the staging file
and the `commit` of the entry. `seg` is what it has parsed of the
attempt, `response` one sequence of lines per attempt, `staging` the blocks, usage
and checkpoint. `bz` writes lines of the adapter's grammar, tears one when it is
killed, and exits. `met` is a history variable: the steps during whose call the
stop flag was up. `Classify` is what a reader of `response.json` sees.

Abstractions. A block is the number of the attempt that streamed it, usage is
reported once, the grammar of the adapter is external. There is no time limit on
the adapter, in the code or here.

### Gate

`inbox` holds results of children, `work` the circumstances of a drive in the
order the code derives them, `at` the step it is about to take for the first:
delivery, verdict, dispatch, landing, removal of the result. `Turn` is the
circumstance it interprets: verdicts first. A ref is a child and
the number of its return, a line the refs in a commit's history, so that
`is_ancestor` is set inclusion. A death is possible before any step; the next
drive derives `work` again. `approved`, `refused` and `discarded` are read by the
properties only.

Abstractions. Work products apply unless they were applied before (`Compaction`
has the conflicts). A title is one of a few. A verdict is the word it says.

### Authoring and Retarget

A commit is its index in `commits`, with its line and the facts its tree holds.
`refs` has every lineage and proposal. A pass is `Begin`, `Heal`, `Materialize` (on a
standing branch or one it cuts), `Edit`, `Commit` (a commit, or the proposal's
amended) and `Land`, or `Drop` at a refusal; a verdict is `Accept` (reads),
`Move` (the compare-and-swap of the lineage) and `Delete` (of the proposal). `Followed` is the resolution of the commit an agent reads its control
from. `Retarget` adds the four marks, the `litany retarget` process with its
preflight, and the landing at a boundary: `Consume` answers the marks (a no-op, a
refusal, a conflict, or the re-fork, in one step), `ClearCommit` and `ClearRole`
remove them, and the agent may die after each.

Nothing in the code keeps passes and verdicts out of each other's steps, and nothing
in the model does. Every interleaving of their steps is explored, with deaths, marks,
steps and landings between. The history variable `crossed` is raised by the acts
that take from another what that is at work on: a pass that heals away a checkout
another pass has made and not yet left (`Live`), a verdict that moves the lineage
an operator's pass is on, and a verdict that deletes a proposal a pass is amending
or has amended since the verdict read it. The properties speak of the time until
then; afterwards TLC finds each of the three false in some behaviour (*Disagreements*).
Passes that overlap without touching each other's work (one heals before the other
has made its checkout, and is refused; a verdict on another proposal, or on one that
a pass has only begun to amend) stay in. Since `crossed` is never lowered,
`MCSpec` does not go on from where it is raised. `Governed` is
`governing_config`'s refusal of a commit that no lineage has any of.

### Creation and Removal

An id is the sequence of its segments, a timestamp with random digits each: its
parent's is without the last one, its root's is the first, and its subtree has it
as a prefix. A creation takes the steps of its verb in order (`After`): a root asks,
takes a name, the lock, seeds its directory, forks and drives; a child asks, takes
a name, asks the budget, marks, forks, commits, and gets its first message. `home[i]`
is which of the five homes (ref, worktree, steps, inbox, mark) id `i` has; `worn[i]`
the name in its tree, which between the fork and the dispatch commit is its
parent's. `drive` is who holds the lock of an id. `Recorded` is the steps under
`steps/` of a subtree, which a conversation's spend counts. A delete lists
the marks, unites the homes (`Targets`), probes the locks and removes home by home,
in the order `Before` gives: directories id by id, root first, then refs, then
marks.

Abstractions. An id is made once. Ids of one depth are removed in any order. A
step costs one token. A delete's removal of
a lock directory under a driver that is just starting is not followed further.

### Procedures

A hop resolves its workflow once and runs what is bound to each event it meets,
in order: `hops` holds the resolution and what is still to run. A fork reads the
governing workflow again (`Source`, the nearest mark on the descent or the tip)
for its budget (`Refused`) and for whether the child keeps the dialog
(`KeepsDialog`). Marks and the tip move between any two steps. `Reads` is what
loading a config checks of its bindings, `Declares` what it checks of the roles
they name. The walks up the descent are recursive functions over the order of
forks.

### Skills and Descriptors

`Skills` has one lineage, a sequence of commits each with live and archived
bodies; a branch has the bodies its fork left it, those it loaded and those it
edited, and what its dispatch commit held. Passes are atomic. `Older` lets a root
start off an older commit (`--from`), whose bodies no branch ever added: the
census then calls idle what the root holds, and the run and the theorem have it
off. `Descriptors` has
the grants and descriptors of the commit everyone follows, each agent's tree with
the commits that moved it, and the step recorded last; between the resolution of
a boundary and its step the lineage moves on. A version is a number.

### Request, Patch and Paging

`Request` composes from the tree: the pinned head, the body under what budget is
left, by one of three policies, then the transcript grouped by side with orphan
results dropped, the tools by role, host and history, and finally `Hold`, which
sends the earlier request again while nothing ahead of the tail moved. Between
steps the config, the host, files and the transcript change.

`Patch` reads an envelope of lines, opens and closes sections, stages every
operation against the tree it meets and writes them one by one; a write fails or
a stop falls between two. `OneMeaning` compares staging with a reference that
enumerates every placement of the hunks, and the written tree with the staged
one.

`Paging` keeps of every byte which byte of the file it stands for and its place
in its character, so that a cut inside a character, the lossy record and the
addresses in raw bytes are told apart. The reader redeems addresses in any order.

Abstractions. In `Request` glob patterns are a category per file; the refusal of
conflict markers and the tools behind a program are left out; truncated content
is a size. In `Patch` a final newline is not modelled. In `Paging` one stream of one
agent.

## Runs

All runs use `CHECK_DEADLOCK FALSE`: every process here may come to its end, and
a workspace at rest is a normal state.

| run | shows |
|---|---|
| `delivery_faults` | two messages and a parked result of serial senders, two drivers, a scan, one death or error anywhere: `TypeOK`, `LockInv`, `NoStranding`, `NoDepositLost`, `SenderOrder`, and `ExactlyOnce` (the refinement of `Mailbox`). |
| `delivery_live` | one message, a child's held result and a second deposit that may overlap it, a hand-run advance, with fairness: `Delivered`, `LaunchesCease` |
| `driver` | a branch under its driver. Two steps of up to two calls, four drives, two deaths, one stop: `PositionalPairing`, `RanOnce`. Two steps, two passes with a retained tail that nominate any entries they may, a worker, a message, a death: `Accounted`, `Paired`, `LandingOnlyRemoves`. `TypeOK` of both. Three agents, two hops, four configs, a move of the operator: `ProceduresSound` |
| `stops` | a stop of a root with a child, three drivers, a visitor, with fairness: `FellsTheSubtree`, `StopEnds`. One call of each tool under a control, a stop at any point, descendants that hold the pipe or leave: `GatedAndWhole`, `FelledTree`, `StoppedCallEnds`. A child with two letters, two deaths or errors, three sweeps of which two may overlap, each of which may die anywhere: `ReturnsTypeOK`, `MarkSound`, `ReportsCounted`, `FalseDeathsExplained` |
| `tree` | three children through a gate, one revived, one death: `NothingUnapproved`, `NoResultLost`. A root and a child created and deleted under two names and a budget of two, with a death: `Funded`, `NamesHold`, `NothingLeft`. |
| `lineage_safety` | two lineages, a reviewer, a retargeted agent, an operator, two passes that may overlap each other and the verdicts, two marks, a death: until an act has crossed another, `FactsKept`, `OnlyForward`, `LandedWhere` |
| `context` | `SkillsKept`, `Replayable`, `Lawful`, `PrefixKept`, `EntryIsOneAnswer`, `OneMeaning`, `ReadsToTheEnd`, `SpentOnTheNewest`, each of its component |
| `returns_mark`, `window_stop`, `compaction_child`, `gate_landing`, `toolcall_python` | a statement of the documentation or a comment that the code does not keep; see *Disagreements* |

**Bounds.** Two driver slots are enough for a driver that hands over, dies or
releases against another that starts; a third would only lose the lock, which
`StartLose` has without a slot. The slots are alike and `delivery_faults` takes them
as a symmetry; the liveness run has one slot, into which launches queue, and no
symmetry. Two messages of one sender are the fewest that can collide, be reordered
or reuse a name. One death is enough for each single hazard; deaths during the
recovery from a death need two, and `driver`'s window and the child of `stops` have
two. Two sweeps at once are the fewest that report one death twice or each other's,
and a third can follow both; two letters prompt the child once more or let it write
a note, and the operator may be quicker than its dispatcher. Two calls per step make
a window with something answered and something open, and two steps put a settled
window behind an open one. Four drives let a window be parked, resumed, killed and
settled. The compaction clock fires every two commits and each window has two calls,
so that a point one behind the tip falls inside a window; two passes are enough for
one to overtake another. `Heard` makes no difference there: it needs a pass that
nominates a whole window and the mail before it, and was met in a larger instance
(`Windows` {1, 2}, `Keeps` {0}, three tools, no worker, effects `write` and `drop`),
in which TLC refutes `LandingOnlyRemoves` without it and finds no error with it. A
root, a child and a second root are the subtree, what is in it and what must be left
alone; three drivers let one exit while another is launched. Three children of a
gate are a worker, its verifier and a second of either. Two names and two agents
make one collision; `Limit` 2 is spent by one step each. Two lineages are the fewest
that diverge; two passes let one amend or overtake what the other made, or heal away
its checkout, three commits leave room for both and the founding one. Two attempts
are a retry, two steps an entry behind a call. The `Paging` policies allow less than
a page and more than one, with a tail and without, and lines have up to twelve units
of one, two and no valid bytes, so that every cut falls at every place of a
character. `Patch` envelopes of five lines hold two sections or a hunk with context,
removal and addition, over trees in which a context occurs twice, once with
different blanks.

**Fairness.** `Delivery`'s `FairSpec` asks that a process that has started goes
on: the operating system schedules it, and its model and tool calls return or end
with the driver. Nothing makes a writer, a scan or a hand-run advance start, and
nothing is assumed of deaths. Each process has its own condition, so one process
cannot stand for another. A driver may loop for ever through tool steps
(`StepTools`): `Delivered` holds there because every hop delivers first. In
`StopCascade` the stop that has begun goes on, and drivers owe nothing: a stop
ends whatever they do. In `ToolCall` the executor and the built-in tool go on (a
loop with a poll and a deadline); the shell, its descendants and the world owe
nothing, so a program that ignores SIGTERM and never ends is among the
behaviours. In `Gate` (`gate_landing`) the driver is launched again and goes on.

## Disagreements between the code and what is said of it

With a run:

- `returns_mark`: a driver of the child dies between the result file and the
  mark, and a drive of the parent has renamed the file but not committed it. The
  sweep reads the mark, the inbox and the committed transcript, finds nothing, and
  reports dead a child that returned (`derive.rs:74` against `result.rs:91-93`).
- `window_stop`: a stop that lands while the last tool of a *resumed* window
  finishes is dropped at the hand-over; the ordinary hop does look
  (`hop.rs:170-173`).
- `compaction_child`: a worker is forked inside a span, and the span is squashed
  before it returns. The transfer takes the merge base of the two branches for
  the fork point; it is now the bound of the span, so the diff holds what the
  parent itself committed since, does not apply, and the worker's own disjoint
  work is refused (`transfer.rs:98`, ARCH 418).
- `gate_landing`: a response that is landed on a file that holds it already makes
  `git commit` fail; the result stays and every later hop fails at it
  (`landing.rs:116` against 90-94).
- `toolcall_python`: a python call swallows the SIGTERM of a stop; after the
  executor's grace the tool is killed alone and the program, in its own group,
  runs on (`python/mod.rs:161` against 24-27).

The following have no run of their own. Those with an instance in brackets are
counterexamples of TLC under that change of constants.

Mail and returns.
- Two `litany message` processes of the operator are one sender, `user`. Both may
  derive one number, and the later rename replaces the earlier message
  (`deposit.rs:26`) [`delivery_faults`, `Serial = {child}`: `NoDepositLost`].
- A message renamed by a driver that died before its commit waits for the next
  mail: the scan's flush looks at inboxes only (`scan/mod.rs:264`, `driver.rs:137`).
- Two sweeps at once, each past its reads before the other deposits, report one
  death twice (`scan/mod.rs:222`); `ReportsCounted` allows as many reports as sweeps
  overlap, and no more but for sweeps that die before their mark.
- `litany delete` probes every lock of a subtree before it decides; a depositor
  that probes meanwhile launches nothing (ARCH 602) [`delivery_faults`, `Censuses =
  {c1}`: `NoStranding`].
- Any message under the child's name counts as its return: a child that sent a
  note and crashed is not reported (`USER_STORIES.md:288`). A sweep between a fork
  and its dispatch message, or over a child parked by a hold, reports it `died`.
- A compactor may nominate a single tool result; without a summary the landed
  transcript has a call without its result (`eligibility.rs:114`, `pairing.rs:1-2`)
  [`driver`, `Paired` without `~torn`]. One that nominates the last window and the
  mail before it, and writes no summary, silences a branch that owed a step
  [the larger instance of *Bounds*, `LandingOnlyRemoves` without `Heard`].

Stops and calls.
- Children launched or revived after the enumeration survive a stop of the
  "whole subtree" (`stop/mod.rs:3-12`); a visitor that a shell made leader of its
  group may be signalled (`discover/mod.rs:12-13`).
- An external tool's descendant that keeps the pipe blocks the executor's join
  for as long as it lives; a SIGKILL after the grace is not sent to a group whose
  leader has exited (`skills/bash/SKILL.md`).
- A truncated response reads as complete although `model_call.rs:49-50` and ARCH
  578-582 say the branch settles as failed. An adapter that dies between its
  error line and its end line lets the next attempt's segment merge with it, as
  does a tool input that is no JSON (`Merged` in `ModelCall`).

The gate.
- A worker that is prompted again while its first result is held: a verifier of
  the second return gates the first, and the second is held for ever
  (`verifier.rs:12-14`). A second return is diffed from the same merge base and
  declined (`transfer.rs:20-28`). A rejection that the budget refuses to dispatch
  again discards result and feedback. Two verdicts on one result in one drive
  make it fail.

Configuration.
- A retarget is said to settle a diverged lineage (`retarget/mod.rs:9-10`,
  `resolve/source.rs:62-64`); `current_config.rs:76-94` asks the lineages again and
  it stays ambiguous.
- `accept` deletes the proposal unconditionally: one amended between its read and
  the delete is lost, although the agent was told "proposed" (`ops.rs:157-161`)
  [`lineage_safety` with `Init /\ [][Next]_vars`, `FactsKept` without `~crossed`].
- A pass over another's live checkout heals it away, and an amend may rewrite the
  head of a lineage (`template/mod.rs:166-178`, `checkout.rs:20-23`) [likewise]. A death leaves `config/<name>` of a fork pass, or a stale proposal.
- Marks written between the landing's read and its clear are lost; a death
  between the two clears lands the role twice (`retarget/mod.rs:139-159`). A role
  the target does not declare passes the preflight and fails the landing. A
  retarget cannot be taken back by marking the present lineage.

Creation, removal, skills, procedures.
- Between `worktree add` and the dispatch commit a child wears its parent's name:
  a death there makes messages to it ambiguous for ever
  (`subagent/mod.rs:143-199`). A delete asks the locks and then removes
  (`delete/mod.rs:126`): a driver launched in between is reaped alive. Deleting a
  child refunds what it spent (`budget/derive.rs:57`).
- A hop runs the marked workflow under the version of the followed commit, and the
  fork reads both from the marked one (`governing.rs:7-9`, `procedure.rs:49-51`).
  The default `dispatch(compactor)` is not checked against the roles, so that a
  config with a clock and no compactor fails at every due flush. Some bindings
  that load are declined whenever they run (`workflow_actions.rs:144`).
- Archiving a skill leaves its description in every later snapshot
  (`template/descriptions.rs:138`, against `census.rs:65-66`). The census counts a
  reviewer's fresh read as a use. An upgrade's pool may take a name a workspace
  skill holds.
- A tool granted and no longer described keeps its old descriptor and its old
  schema on the wire (`refresh.rs:122-130` against 34-37).

Composition and tools.
- A refused call's entry in the tools carries the whole toolset in its
  description (`permit.rs:35-57`, `tools/history.rs:65-71`): retiring another tool
  rewrites it and the prefix is not held (`prefix.rs:15-23`, ARCH 1175-1179).
- An address counts raw bytes and is redeemed against the lossy record
  (`batch.rs:168-180`, `bound.rs:81-83`). A `head_bytes` too small for the banner pages
  for ever.
- Two aliases of a path pass the duplicate check (`parse.rs:213`). A failed write or
  a stop leaves a patch half applied, although `apply_patch/mod.rs` says it applies
  "not at all".
- A newest user message that alone exceeds the extract's cap leaves the extract
  empty, although older references fit (`extract.rs:33-34`).

## What is proved

Every theorem holds for all values of the constants that satisfy the named
assumptions of the modules. A hypothesis on a constant is stated in the theorem,
and is one that the run of the property has; where TLC refutes the statement
without it, this is said.

`Delivery_proofs`, for any finite or infinite sets of processes, any senders and
any bounds:

- `Typing`: `Spec => []TypeOK`.
- `MutualExclusion`: `Spec => []LockInv`. The invariant is inductive with `TypeOK`:
  every action that sets the lock finds it free or holds it, and a death frees it
  exactly when the dead process held it.
- `NoLostWakeup`: `Spec => []NoStranding`, assuming no census and serial senders.
  `NoStranding` speaks only of quiet states and is far from inductive. The
  strengthening (`Accounting`) says of *every* state that each file that warrants a
  launch and is not waived is covered: by a launch on its way, by a process that is
  about to probe, to launch or to flush, by a scan that holds the lock only to
  look, by a driver that holds it, or by a driver that is about to re-read and
  does not remember the file. It needs that mtimes in
  the inbox are distinct and below the clock (so that a remembered file cannot be
  mistaken for a new one), and that what a driver remembers as seen is waived.
  The assumption on censuses is necessary: with one in the instance TLC finds a
  counterexample.
- `DepositsKept`: `Spec => []NoDepositLost`, assuming serial senders. Its
  strengthening says that the number a serial sender derived stays above all its
  pending numbers until it renames. The assumption is necessary, see above.
- `MailboxRefined`: `Spec => ExactlyOnce`, the refinement of `Mailbox`, assuming
  serial senders. The mailbox's pending messages are those in the inbox, what it
  has delivered is the log and the strays. The strengthening `OnceInv` says that
  whoever has a file there has renamed it, and that a message has one file in the
  inbox. `BoxStep` maps each action: a rename is the abstract deposit, a move the
  delivery, and everything else, commits and deaths included, a stutter.
- `DeliveredInOrder`: `Spec => []SenderOrder`. It speaks of the serial senders and
  needs nothing of the others. `OrderInv` says that names in the inbox are distinct
  (`NamesInv`), that what a serial writer has staged is newer than everything of
  its sender (`NewestInv`), that what waits is newer than what was delivered
  (`AfterInv`), and that a driver's list misses nothing older than what it holds
  (`BatchInv`), although deposits go on while it moves.

`ToolWindow_proofs`, for any bounds, without a hypothesis:

- `WindowTyping`: `WindowSpec => []WindowTypeOK`.
- `EveryCallAnsweredInPlace`: `WindowSpec => []PositionalPairing`. That nothing is
  open where a request is composed says nothing of the states between, in which
  a window is half answered. `PairInv` does: the results follow the entry that
  asked for them (`EntryInv`), and the calls of the last entry are answered from
  the first on (`PrefixInv`). `SettledInv` and `WindowInv` say by the place of the
  drive what is settled, what lies behind it in the window answered, and what lies
  ahead of it neither answered nor run.
- `NoCallRunsTwice`: `WindowSpec => []RanOnce`. `MarkInv`: a live hold mark has all
  before it answered, and is gone before a call is entered or a crash is settled.
  `RanInv`: nothing has run that no entry of the transcript asked for.

and about `Procedures`, for any roles, agents, moves and bounds, and any configs
whose bindings are sequences of actions:

- `ProceduresAreSound`: `ProceduresSpec => ProceduresSound`. What a
  fork does depends on three readings at three times: the workflow the hop
  resolved, the one that governs the fork, and the one under which the child is
  later asked whether it is machinery. `ProceduresInv` ties them together. `AgentOk`:
  what a circumstance forked is machinery under the workflow and version recorded
  with it, and its parent is not of the same. `HopOk`: what a hop has still to run
  was bound where it resolved; at a circumstance of the branch itself, the
  branch is no machinery there; and while nothing has moved, what it resolved
  governs it still and declares its roles in the tip (`SourceKept`, by induction
  along the descent: a fork changes no nearest mark).

`Compaction_proofs`, for any clock, windows, effects, nominations, deaths and
bounds:

- `LandingTypes`: `LandingSpec => []LandingTypeOK`; `AccountedFor`: `LandingSpec =>
  []Accounted`; and `LandingsTake`, the part of `LandingOnlyRemoves` about what a
  landing takes; all without a hypothesis. `LineInv` is their strengthening.
  `BranchInv`: the trees of a line speak of entries that were written only and hold
  the opening prompt, and a landing on it is of a child there is. `ChildInv`: a
  pass holds a line whose landings are among the branch's, was founded on what its
  tree is cut to, and has since added summaries over what it was shown and removed
  what may be nominated (`PassInv`). `QueueInv`: a result in the inbox or on the
  hop's list is a returned child's, and the only one. `CountInv` types the rest.
  A landing then replays commits over a tree in which an entry is what it was
  when it was written (`Stays`), or gone and accounted for.
- `WindowsStayWhole`: `LandingSpec => []Paired`, and `LandingsKeepTheWarrant`:
  `LandingSpec => LandingOnlyRemoves`, whatever is nominated. `Paired` says of a tree that its
  results are those of its calls, and a landing composes three trees. `WindowInv`
  says which entries of each commit's tree belong together (`Windowed`); that a
  commit that is no landing continues the tree before it (`Follows`); that at the
  tip every window is settled; and that each pass was overtaken by a landing
  (`Overtaken`), and will be dropped, or the tip has a result behind its point
  (`ResultAfter`), so that what a summary stands for (`Swath`) takes a window whole or
  leaves it. Without a summary a pass takes what it nominated: calls with their
  results unless it tears (`Balanced`, `TornStays`), which keeps `WindowInv` while
  nothing is `torn`. Whether the branch owes a step is then decided by the entry
  it ended with (`SettledOutside`).

`Gate_proofs`, for any roles, answers, titles and bounds, without a hypothesis:

- `GateTyping`: `GateSpec => []GateTypeOK`.
- `DeliveredWasApproved`: `GateSpec => []NothingUnapproved`, and
  `HeldResultsAreJudged`: `GateSpec => []NoResultLost`. `GateInv` says what a result
  can tell the gate. `LineInv`: a ref in a child's history is its own return or, for
  a verifier, one of the child it was forked to judge. `ResultInv`: a pending
  result carries a history its child had, no two stand for one return, and an
  approving one approves of what its verifier was forked with. `WorkInv` and
  `PlaceInv`: what a drive derived is still so when it comes to it, although
  children return and are prompted meanwhile. `JudgeInv`: a verifier that has
  the only return of a worker in its history, while that is pending, still runs
  or has its verdict pending. `RedoneInv`: what was discarded has its successor or
  the refusal of one.

`Removal_proofs`, about `Creation` and `Removal` together, for any finite set of
ids closed under parents, any names, limits and bounds, without a hypothesis:

- `LifeTyping`: `LifeSpec => []LifeTypeOK`.
- `OverspendIsBounded`: `LifeSpec => []Funded`. The bound on what is recorded is not
  inductive: an agent that has passed the check still has its step to record.
  `FundInv` counts the agents that are at a call with the recorded steps, and
  allows one for each agent that was let in; a call that begins finds a step to
  spare, and who calls was let in (`EntryInv`).
- `NamesAreTold`: `LifeSpec => []NamesHold`. `NameInv` speaks of all creations that
  have settled a name and may still come to wear it, and not only of who wears
  one: two with one name overlapped.
- `DeletedIsGone`: `LifeSpec => []NothingLeft`. `DeleteInv` says, stage by stage, that
  what a home remembers of the subtree and was not made meanwhile is listed, is
  a target, or is still to be removed; `EntryInv` that a refused creation has no home.

`Endings_proofs`, about `Returns`, for any sweeps, crash sites and bounds:

- `ReturnsTyping`, and `MarkFollowsFile`: `ReturnsSpec => []MarkSound`, with the
  strengthening that a process about to write the mark has deposited a result.
- `FalseReportsExplained`: `ReturnsSpec => FalseDeathsExplained`, with no hypothesis on
  deaths or on how many sweeps run at once. `MarkInv`: as long as nothing explains a
  false report, a result was deposited only if the mark is there or the child's
  driver, holding the lock, is about to write it; and a sweep that probed after that
  is not past its reading of the mark.
- `ReportsAreCounted`: `ReturnsSpec => []ReportsCounted`. `CountInv`: while there
  is no mark, the sweep of each report is about to write it, or died before it did
  (`lost`); once there is one, only sweeps that read it before are left to report.

about `StopCascade`, for any tree of agents and any processes:

- `StopFellsTheSubtree`: `CascadeSpec => []FellsTheSubtree`, assuming
  `JobControl = {}`: no visitor (a depositor, a scan or a delete that only asks
  the lock) leads a process group. `HoldInv` ties the lock to the one driver in
  whatever image, and every live process to an agent with an inbox. `SweepInv`
  says, stage by stage of the stop, that who has driven since its beginning is
  still to be looked up, is the holder just found, or is a target; after the
  deadline that it is still to be killed; and that what the stop goes by are
  drivers of the subtree. With a visitor that leads a group TLC refutes the
  statement, see *Disagreements*.

and about `ToolCall`, for any tools, traits and budgets:

- `NothingPastTheGate`: `CallSpec => []GatedAndWhole`. `ShapeInv` says which processes
  there are at each place of the executor, `GateInv` that a control that has not
  passed leaves nothing recorded, `WholeInv` that a status is relayed only by a
  tool that has ended with nobody left to write, and that an outcome with an exit
  code follows the closing of the pipe.
- `CancelledGroupFalls`: `CallSpec => []FelledTree`. `GroupInv`: who of the group is
  up after the SIGTERM held out or descends from somebody who did, and after the
  SIGKILL nobody is.

`Retarget_proofs`, about `Authoring` and `Retarget` together, for any lineages,
agents, marks, overlaps, bounds and deaths, without a hypothesis; each property
speaks of the time until an act has crossed another (`crossed`):

- `ProposedFactsKept`: `Spec => []FactsKept`.
- `LineagesGoForward`: `Spec => OnlyForward`, an action property.
- `RetargetedReads`: `Spec => []LandedWhere`.

`LineageInv` is their strengthening, while nothing has crossed (`CrossedStays`: what
has crossed stays so). `LineInv`: a commit's line is closed under the
lines of its members, a tree holds the facts of the trees in its line, and two
lines that meet have a last meeting. `PassInv` and `Holds`: where a pass is tells
what the checkout has, what its target stands on and what it has written; one pass
at a time is `Live`, because the next has to heal first. `VerdictInv`: what a verdict
has read of a proposal and not yet written.
`FoundInv`: what agents were founded on, reviewers read and proposals start from is
in the line of some head. `FactInv`: a proposed fact is in its proposal or in a
head. `MarkInv` adds that a mark names a commit in a line and that a landed agent
was founded on its mark.

`Context_proofs`, about `Descriptors`, for any tools, agents and bounds, any roles
but the name that stands for none, and any grants of tools to them:

- `DescriptorsTyping`: `DescriptorsSpec => []DescriptorsTypeOK`.
- `StepsReplay`: `DescriptorsSpec => []Replayable`. What a recorded step declared was
  read from a worktree, and the commit it names is written later by another
  action. `Cuts` carries the cut across: from the resolution of a boundary to its
  step, the worktree describes nothing out of the grant and what the resolution
  describes as it does, for a fork (`DeriveFits`) and for a refresh (`RefreshFits`).
  `Names` is the property with the commit it reads: commits are appended only.

and about `ModelCall`, for any number of attempts and any bounds:

- `ModelTyping`: `ModelSpec => []ModelTypeOK`.
- `EntriesAreWhole`: `ModelSpec => []EntryIsOneAnswer`. The property looks at entries;
  its strengthening looks at the stream. `CallShape`: between two attempts the
  staging file is empty. `Streams`: while no line was bad, what was parsed is what
  was written (`Parsed`), and what was staged is the blocks that were closed and the
  usage that was told, all of this attempt (`Staged`). A sealed answer is then
  `Whole`, and stays so until the next directory. `Discarded`: a call in which the
  flag went up has it up until the driver lets go, so it is not settled. That a
  whole answer reads as complete (`WholeReads`) is a lemma about `Classify` alone.

about `Skills`, for any names, agents, claims and bounds, and any releases of those
names:

- `SkillsAreKept`: `SkillsSpec => SkillsKept`, assuming `~Older`. A
  review lands by a patch, read from what the reviewer was given and applied to
  what the lineage has. `ReadFresh` says that a reviewer's founding tree has every
  body of the commit it read, as that commit has it. `AddedOnce` says that a body
  in a standing branch was added in the history of that branch, where the census
  looks. The assumption is necessary: without it TLC finds a root forked off an
  older commit that holds a body since archived.

and about `Paging`, for any files, pages, limits and policies, with characters of up
to three or four bytes:

- `NothingOutOfReach`: `PagingSpec => []Recoverable`. An address counts the bytes of
  a capture and is redeemed against its record, in which each fragment of a
  character has become three bytes. `LossyIs` walks a record beside its capture: the
  record is whole characters, at least as long and at most three times as long, and the
  byte at an offset of the capture is at or behind that offset in the record; so an
  address never skips.
- `ReadingComesToAnEnd`: `PagingSpec => ReadsToTheEnd`, assuming that every
  policy's head is longer than two characters. A page may begin and end inside
  one, so that its record grows by at most that much (`PageGrows`), and what is
  cut of it again must be less than what was redeemed. The shipped head is 2048
  bytes; with a head of a few bytes a page may hand out as much as it took.

and about `Request`, for any files, manifests, budgets, overflow policies, tools,
hosts, starting transcripts and bounds:

- `RequestTyping`: `RequestSpec => []RequestTypeOK`.
- `RequestsAreLawful`: `RequestSpec => []Lawful`. The property looks at the request
  that was sent last; its strengthening `RequestInv` looks at the transcript, which
  every fork and landing cuts. `Windows`: a result answers the window it is in, or
  belongs to a call an old cut took, from before any other call; and where
  something else than a result comes, all that was asked before is answered. At a
  boundary and during a call nothing is open, and between a reply and its last
  result one window waits, the last. A landing leaves it (`WindowsFrom`,
  `WindowsAfter`) because it cuts where no result follows, a fork because it drops
  the window that is not settled (`WindowsBefore`, `UnsettledAt`). The way from a
  transcript to a request is four lemmas: grouping makes each window an entry
  and its answer (`GroupedIsNeat`), pruning empties exactly the entries of orphans
  (`PrunedIs`), what is left is windows again (`FilledPairs`,
  `PairsAreWindows`), so that grouping it again is accepted
  (`DropOrphansIsAccepted`). `ComposeCovers` and `HoldIs` do the same for the tools: the
  list sent before may stand in for the current one because it has all of its names.

The recursive functions of these modules (`Joined`, `Lossy`, `NearestMark`, `Depth`,
`Grouped`, `Only`) are reasoned about by induction over a *set* of numbers
(`SetInduction`, `CountingUp`, `CountingDown`), which is proved from the
well-foundedness of the finite subsets: the library's induction theorems range over
an operator, which no installed prover instantiates.

Only model-checked:

- The liveness properties `Delivered`, `LaunchesCease`, `StopEnds` and
  `StoppedCallEnds`: the prover has neither fairness nor ENABLED.
- What an algorithm computes over its data: `OneMeaning` and `SpentOnTheNewest`,
  each an equation with a reference definition, and that two requests agree
  (`PrefixKept`). Their inputs in the run are every value up to a bound.
- `TypeOK` of `MCDriver`, the conjunction of `WindowTypeOK` and `LandingTypeOK`, is
  no theorem of its own: `WindowTyping` and `LandingTypes` prove its halves of the two
  specifications it is a sum of.

## What is not modelled

For good: parsing and rendering (providers, templates, configuration schemas,
prompts), the content of messages, the effects of the other tools on files and the
network, git's own failures beyond "the process ends with an error", file systems
on which rename is not atomic, power loss between a write and its reaching the
disk, bundles and replays (they write a copy elsewhere and change no state of the
workspace), and the evaluation crates, a harness around the program.

Not yet: the walk that derives reply debt, ties of mtimes and names past the
thousandth, the other compaction triggers, calls through a program's door, a
second driver over an inbox that a delete has removed.

## Running

    tlc -workers 2 -config driver.cfg MCDriver
    tlapm Delivery_proofs.tla

The largest runs take two to three minutes on two workers. `PROJECT.json` lists
the runs, the line ranges every definition stands for, the hazards and the
properties that cover them, and for each checked property a mutation of the code
that it rejects.
