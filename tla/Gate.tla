------------------------------- MODULE Gate -------------------------------
(***************************************************************************)
(* How one agent's driver interprets its children's returns under a        *)
(* workflow that gates them: a worker's return is held in the inbox while  *)
(* a verifier forked off its terminal ref judges it, an approving verdict  *)
(* delivers the held result, any other discards it and dispatches the      *)
(* worker again; a titler's return lands as one committed file.  Nothing   *)
(* stores the hold: who gates what is read off the inbox and the ancestry  *)
(* of refs.  Children return, and are prompted again, at any time; the     *)
(* driver dies between any two of its effects.                             *)
(*                                                                         *)
(* A ref is the pair of a child and the number of its return; a line is    *)
(* the set of refs in the history of a commit.                             *)
(***************************************************************************)
EXTENDS Integers, FiniteSets, SequencesExt

CONSTANTS
    ByHand,       \* the roles the model may dispatch
    Titles,       \* what a titler may answer
    Budgeted,     \* the workflow declares budgets, so that a fork may be refused
    MaxChildren,  \* bound: children
    MaxTouches,   \* bound: prompts to a child that returned, and retargets of one
    MaxMessages,  \* bound: messages of the operator
    MaxDeaths    \* bound: deaths of the driver

ASSUME ByHandAssumption == ByHand \subseteq {"worker", "verifier"}
ASSUME BudgetedAssumption == Budgeted \in BOOLEAN
ASSUME GateBoundsAssumption == {MaxChildren, MaxTouches, MaxMessages, MaxDeaths} \subseteq Nat

VARIABLES
    children,    \* the agents forked off this one, in order; a child is its index
    inbox,       \* the result messages pending, in order
    spoke,       \* a message of the operator's is pending
    work,        \* what the drive is interpreting: its circumstances, in order
    at,          \* where it is with the first; "off" when nobody drives
    drained,     \* this drive delivered a message of the operator's
    messages,    \* the results that are in the transcript, in order
    discarded,   \* the refs of the results a verdict discarded
    approved,    \* history: the refs some approving verifier's return descends from
    refused,     \* the forks the budget refused: the role, and the result it was for
    transferred, \* the refs whose work products are in the tree
    conflicted,  \* the children marked refs/litany/conflicted
    title,       \* the file the titler's answer lands in
    failed,      \* the last drive ended in an error
    spoken, touches, deaths

gateVars == <<children, inbox, spoke, work, at, drained, messages, discarded, approved, refused,
              transferred, conflicted, title, failed, spoken, touches, deaths>>
driver == <<work, at, drained, failed>>
ends == <<messages, discarded, approved, refused>>
tree == <<transferred, conflicted, title>>
bounds == <<spoken, touches, deaths>>

NoRef == <<0, 0>>
NoResult == [from |-> 0, n |-> 0]
NoTitle == "none"

GateInit ==
    /\ children = <<>> /\ inbox = <<>> /\ spoke = FALSE
    /\ work = <<>> /\ at = "off" /\ drained = FALSE /\ failed = FALSE
    /\ messages = <<>> /\ discarded = {} /\ approved = {} /\ refused = {}
    /\ transferred = {} /\ conflicted = {} /\ title = NoTitle
    /\ spoken = 0 /\ touches = 0 /\ deaths = 0

-----------------------------------------------------------------------------
(* Children and their returns.                                             *)

Ref(r) == <<r.from, r.n>>
Role(r) == children[r.from].role
IsAncestor(ref, line) == ref \in line

\* A child of the role, on a commit with that history; about is the result
\* it was forked for.
Forked(role, line, about) ==
    Append(children, [role |-> role, line |-> line, about |-> about, live |-> TRUE, n |-> 0])

\* run_procedure: the child, or a budget's refusal, which is only reported.
RunProcedure(role, line, about) ==
    \/ /\ Len(children) < MaxChildren
       /\ children' = Forked(role, line, about)
       /\ UNCHANGED refused
    \/ /\ Budgeted /\ refused' = refused \cup {<<role, about>>}
       /\ UNCHANGED children

Endings(role) ==
    CASE role = "worker"   -> {<<"final-response", "approve">>}
      [] role = "verifier" -> {<<"final-response", "approve">>,
                               <<"final-response", "other">>, <<"died", "approve">>}
      [] role = "titler"   -> {<<"final-response", t>> : t \in Titles} \cup {<<"died", NoTitle>>}

\* The branch's own step: the model dispatches a child by hand.
Dispatch(role) ==
    /\ at = "off" /\ Len(children) < MaxChildren
    /\ children' = Forked(role, {}, NoRef)
    /\ UNCHANGED <<inbox, spoke, driver, ends, tree, bounds>>

\* A child's terminal: its tip is pinned and its result deposited.
Return(c) ==
    /\ children[c].live
    /\ \E e \in Endings(children[c].role) :
         LET n == children[c].n + 1
             line == children[c].line \cup {<<c, n>>}
         IN /\ inbox' = Append(inbox, [from |-> c, n |-> n, line |-> line,
                                       epitaph |-> e[1], says |-> e[2]])
            /\ children' = [children EXCEPT ![c].live = FALSE, ![c].n = n,
                                            ![c].line = line]
            /\ approved' = IF children[c].role = "verifier" /\ e = <<"final-response", "approve">>
                           THEN approved \cup children[c].line ELSE approved
    /\ UNCHANGED <<spoke, driver, messages, discarded, refused, tree, bounds>>

Touch == touches < MaxTouches /\ touches' = touches + 1
\* Its dispatcher prompts it again.
Revive(c) ==
    /\ ~children[c].live /\ Touch
    /\ children' = [children EXCEPT ![c].live = TRUE]
    /\ UNCHANGED <<inbox, spoke, driver, ends, tree, spoken, deaths>>

\* The operator moves a running child to another config: its history is
\* replayed on the target, and is no longer that of what it was forked off.
Retarget(c) ==
    /\ children[c].live /\ children[c].line # {} /\ Touch
    /\ children' = [children EXCEPT ![c].line = {}]
    /\ UNCHANGED <<inbox, spoke, driver, ends, tree, spoken, deaths>>

Speak ==
    /\ spoken < MaxMessages /\ spoken' = spoken + 1 /\ spoke' = TRUE
    /\ UNCHANGED <<children, inbox, driver, ends, tree, touches, deaths>>

-----------------------------------------------------------------------------
(* Which event a returning child names.                                    *)

\* gated_index: the first pending result of another child's that is in the
\* history of this one.
Gates(cr) ==
    LET k == SelectInSeq(inbox, LAMBDA r : r.from # cr.from /\ IsAncestor(Ref(r), cr.line))
    IN IF k = 0 THEN NoResult ELSE inbox[k]

\* Mutant: any verdict that says the word lifts the hold.
Met_Any(cr) == cr.says = "approve"
Met(cr) == cr.epitaph = "final-response" /\ cr.says = "approve"

\* gate_token: gate_return_on(verifier.approve) is bound on worker_return.
Token(held, cr) == held # NoResult /\ Role(held) = "worker" /\ Role(cr) = "verifier"

\* derive: a gating child's verdict, or a plain return; a word the workflow
\* binds ungated (verifier_approve) delivers as the plain return would.
Circumstance(cr) ==
    LET held == Gates(cr)
        is(event, gated) == [result |-> cr, event |-> event, gated |-> gated]
    IN IF Token(held, cr)
       THEN is(IF Met(cr) THEN "verifier_approve" ELSE "verifier_reject", held)
       ELSE is(Role(cr), NoResult)

\* child_actions under the gated workflow: worker_return: [dispatch(verifier),
\* gate_return_on(verifier.approve)], titler_return: [land_response(title)],
\* verifier_reject: [dispatch(worker)]; a landing of a child that did not
\* finish delivers (qualifies).
Action(c) ==
    CASE c.event = "verifier_reject" -> "redispatch"
      [] c.event = "worker" -> "gate"
      [] c.event = "titler" /\ c.result.epitaph = "final-response" -> "land"
      [] OTHER -> "deliver"

Verdict(c) == c.gated # NoResult

\* interpret_pending: the verdicts first, each pass in the order of arrival.
Turn == IF \E k \in DOMAIN work : Verdict(work[k]) THEN SelectInSeq(work, Verdict) ELSE 1

-----------------------------------------------------------------------------
(* The drive.                                                              *)

\* The lock, the drain of the operator's messages, and the circumstances of
\* all that is pending.
Hop ==
    /\ at = "off" /\ (inbox # <<>> \/ spoke)
    /\ drained' = spoke /\ spoke' = FALSE /\ failed' = FALSE
    /\ work' = [i \in DOMAIN inbox |-> Circumstance(inbox[i])]
    /\ at' = "start"
    /\ UNCHANGED <<children, inbox, ends, tree, bounds>>

Current == work[Turn]
Does(action) == at = "start" /\ work # <<>> /\ Action(Current) = action
\* The file an action delivers, and whether it is still there.
Target == IF Verdict(Current) THEN Current.gated ELSE Current.result
IsPending(r) == r \in ToSet(inbox)
Without(r) == RemoveFirst(inbox, r)

Done == at' = "start" /\ work' = RemoveAt(work, Turn) /\ UNCHANGED <<drained, failed>>
GoTo(label) == at' = label /\ UNCHANGED <<work, drained, failed>>
Fails == at' = "off" /\ work' = <<>> /\ drained' = FALSE /\ failed' = TRUE

\* The second pass leaves what a verdict consumed.
Skip ==
    /\ at = "start" /\ work # <<>> /\ ~Verdict(Current) /\ ~IsPending(Current.result)
    /\ Done
    /\ UNCHANGED <<children, inbox, spoke, ends, tree, bounds>>
Stands == Verdict(Current) \/ IsPending(Current.result)

\* Mutant: any verifier will do.
AlreadyGated_Any(r) == \E c \in DOMAIN children : children[c].role = "verifier"
\* already_gated: some branch of the role has the ref in its history.
AlreadyGated(r) ==
    \E c \in DOMAIN children : children[c].role = "verifier" /\ IsAncestor(Ref(r), children[c].line)
\* dispatch, then gate_return_on, which does nothing.
OpenGate ==
    /\ Does("gate") /\ Stands
    /\ IF AlreadyGated(Current.result)
       THEN UNCHANGED <<children, refused>>
       ELSE RunProcedure("verifier", Current.result.line, Ref(Current.result))
    /\ Done
    /\ UNCHANGED <<inbox, spoke, messages, discarded, approved, tree, bounds>>

\* The unmet verdict: the worker again, with the feedback.
Redispatch ==
    /\ Does("redispatch")
    /\ RunProcedure("worker", {}, Ref(Target))
    /\ GoTo("drop")
    /\ UNCHANGED <<inbox, spoke, messages, discarded, approved, tree, bounds>>
\* consume(gated): an error when the file is gone.
Discard ==
    /\ at = "drop"
    /\ IF IsPending(Target)
       THEN /\ inbox' = Without(Target) /\ discarded' = discarded \cup {Ref(Target)}
            /\ GoTo("consume")
       ELSE Fails /\ UNCHANGED <<inbox, discarded>>
    /\ UNCHANGED <<children, spoke, messages, approved, refused, tree, bounds>>

\* transfer::apply: the diff since the fork is the work of every return so
\* far, and applies only if none of it is in the tree.
Transfer ==
    /\ Does("deliver") /\ Stands
    /\ LET t == Target IN
       IF Role(t) # "worker" THEN UNCHANGED <<transferred, conflicted>>
       ELSE IF \E k \in 1..t.n : <<t.from, k>> \in transferred
       THEN conflicted' = conflicted \cup {t.from} /\ UNCHANGED transferred
       ELSE transferred' = transferred \cup {Ref(t)} /\ UNCHANGED conflicted
    /\ GoTo("rename")
    /\ UNCHANGED <<children, inbox, spoke, ends, title, bounds>>
\* deliver_message: the file moves into messages/; an error when it is gone.
Rename ==
    /\ at = "rename"
    /\ IF IsPending(Target)
       THEN /\ inbox' = Without(Target) /\ messages' = Append(messages, Target)
            /\ IF Verdict(Current) THEN GoTo("consume") ELSE Done
       ELSE Fails /\ UNCHANGED <<inbox, messages>>
    /\ UNCHANGED <<children, spoke, discarded, approved, refused, tree, bounds>>

\* land_response: the commit, an error when it would change nothing.
Land ==
    /\ Does("land") /\ Stands
    /\ IF Current.result.says # title
       THEN title' = Current.result.says /\ GoTo("consume")
       ELSE Fails /\ UNCHANGED title
    /\ UNCHANGED <<children, inbox, spoke, ends, transferred, conflicted, bounds>>

\* The message that was acted on goes.
Consume ==
    /\ at = "consume" /\ inbox' = Without(Current.result) /\ Done
    /\ UNCHANGED <<children, spoke, ends, tree, bounds>>

\* The end of circumstances: user_message dispatches a titler off the tip.
Boundary ==
    /\ at = "start" /\ work = <<>>
    /\ IF drained THEN RunProcedure("titler", {}, NoRef) ELSE UNCHANGED <<children, refused>>
    /\ at' = "off" /\ drained' = FALSE /\ UNCHANGED <<work, failed>>
    /\ UNCHANGED <<inbox, spoke, messages, discarded, approved, tree, bounds>>

Crash ==
    /\ at # "off" /\ deaths < MaxDeaths /\ deaths' = deaths + 1
    /\ at' = "off" /\ work' = <<>> /\ drained' = FALSE /\ failed' = FALSE
    /\ UNCHANGED <<children, inbox, spoke, ends, tree, spoken, touches>>

Drive ==
    \/ Hop \/ Skip \/ OpenGate \/ Redispatch \/ Discard \/ Transfer \/ Rename
    \/ Land \/ Consume \/ Boundary
GateNext ==
    \/ Drive \/ Crash \/ Speak
    \/ \E role \in ByHand : Dispatch(role)
    \/ \E c \in DOMAIN children : Return(c) \/ Revive(c) \/ Retarget(c)

GateSpec == GateInit /\ [][GateNext]_gateVars
\* A child's terminal is followed by a launch of this agent's driver, and a
\* drive that ends by another as long as something is deposited (Delivery).
FairGateSpec == GateSpec /\ WF_gateVars(Drive)

-----------------------------------------------------------------------------
(* Properties.                                                             *)

Delivered == {Ref(r) : r \in {m \in ToSet(messages) : Role(m) = "worker"}}

\* A worker's result reaches the transcript only after a verifier forked off
\* work that contains it has finished and said the word (ARCHITECTURE,
\* "gate_return_on": the hold has no flag, and must survive crashes, children
\* that return in any order, and verifiers the model dispatched by hand).
NothingUnapproved == Delivered \subseteq approved

\* No result of a worker is lost on its way through the gate.  A held one can
\* still be judged: a verifier of it runs, or its verdict is pending, or the
\* next hop forks one (a child that was prompted again and returned twice is
\* the exception: its first verifier's work does not contain the second
\* return).  A rejected one is discarded only when a worker has been
\* dispatched in its place, or the budget refused one, whatever dies between.
Judged(r) ==
    \/ ~AlreadyGated(r)
    \/ \E c \in DOMAIN children :
         /\ children[c].role = "verifier" /\ IsAncestor(Ref(r), children[c].line)
         /\ children[c].live \/ \E v \in ToSet(inbox) : v.from = c
Held == {r \in ToSet(inbox) : Role(r) = "worker"}
Redone(ref) ==
    \/ \E c \in DOMAIN children : children[c].role = "worker" /\ children[c].about = ref
    \/ <<"worker", ref>> \in refused
NoResultLost ==
    /\ \A r \in Held : Judged(r) \/ children[r.from].n > 1
    /\ \A ref \in discarded : Redone(ref)

\* land_response: a later landing overwrites; the return is consumed.
LandingEnds ==
    \A c \in 1..MaxChildren :
        (\E r \in ToSet(inbox) : r.from = c /\ Role(r) = "titler")
            ~> ~(\E r \in ToSet(inbox) : r.from = c /\ Role(r) = "titler")
=============================================================================
