----------------------------- MODULE Authoring -----------------------------
(***************************************************************************)
(* The config lineages of a workspace and whoever writes them: the         *)
(* operator's authoring pass (an editor over one transient checkout), the  *)
(* proposals that agents stage through the same pass, and the verdict that *)
(* fast-forwards a lineage onto a proposal.  Processes die between any two *)
(* of their git commands.  Which commit an agent reads its control from is *)
(* derived from the refs, and never stored.                                *)
(*                                                                         *)
(* A commit is its index; its line is the set of commits in its history,   *)
(* itself included; its tree is the set of facts authored into it.         *)
(***************************************************************************)
EXTENDS Integers, FiniteSets, SequencesExt

CONSTANTS
    Names,        \* config lineages
    Default,      \* the one a workspace is born with
    Agents,       \* agents that stage proposals
    Reviewers,    \* those that do it with their return, once per review
    Operator,
    Facts,        \* what an edit may add to a control tree
    MaxCommits, MaxPasses, MaxCrashes   \* bounds

ASSUME AgentsAssumption == Reviewers \subseteq Agents /\ Operator \notin Agents
ASSUME NamesAssumption ==
    Default \in Names /\ Names \cap Agents = {} /\ "none" \notin Names \cup Agents
ASSUME AuthoringBounds == {MaxCommits, MaxPasses, MaxCrashes} \subseteq Nat

VARIABLES
    commits,      \* the config commits made, in order
    refs,         \* where each config/<name> and proposal/<agent> stands
    checkout,     \* the authoring checkout: the branch it is on, its files
    pass,         \* of the operator and each agent: its authoring pass
    verdict,      \* of each proposal: a `litany proposal --accept` of it
    config,       \* the config commit each agent's branch was founded on
    readmark,     \* refs/litany/config-read: the commit a reviewer read
    proposed,     \* history: the facts an agent was told are proposed
    crossed,      \* history: an act took from another what that was at work on
    passes, crashes

authored == <<commits, refs, checkout, pass, verdict, proposed, crossed, passes, crashes>>

NoCommit == 0
NoCheckout == [ref |-> "none", base |-> NoCommit, files |-> {}]
NoPass == [at |-> "off", origin |-> "none", target |-> "none", source |-> NoCommit,
           fact |-> {}, amend |-> FALSE, created |-> FALSE]
NoVerdict == [at |-> "off", parent |-> NoCommit, commit |-> NoCommit, name |-> "none"]

\* `litany new`: one lineage with one commit, the template's.
AuthoringInit ==
    /\ commits = <<[parent |-> NoCommit, line |-> {1}, tree |-> {}]>>
    /\ refs = [n \in Names \cup Agents |-> IF n = Default THEN 1 ELSE NoCommit]
    /\ checkout = NoCheckout
    /\ pass = [p \in Agents \cup {Operator} |-> NoPass]
    /\ verdict = [a \in Agents |-> NoVerdict]
    /\ config = [a \in Agents |-> 1] /\ readmark = [a \in Reviewers |-> NoCommit]
    /\ proposed = {} /\ crossed = FALSE /\ passes = 0 /\ crashes = 0

-----------------------------------------------------------------------------
(* Which commit governs.                                                   *)

IsAncestor(c, d) == c \in commits[d].line
Heads == {refs[n] : n \in Names} \ {NoCommit}
HeadsAt(c) == {n \in Names : refs[n] = c}
\* require_lineage: a name no head answers to is refused.
Exists(n) == refs[n] # NoCommit

\* config_lineage: the merge-base with each head that has one; on one line
\* the younger commit is the nearer.
Bases(rev) ==
    {Max(commits[rev].line \cap commits[h].line) :
        h \in {g \in Heads : commits[rev].line \cap commits[g].line # {}}}
Governing(rev) ==
    LET bases == Bases(rev) IN IF bases = {} THEN NoCommit ELSE Max(bases)
\* governing_config declines a commit that no lineage holds any of.
Governed(rev) == Governing(rev) # NoCommit
Tips(rev) == LET g == Governing(rev) IN {h \in Heads : IsAncestor(g, h)}
\* Mutant: diverged lineages are guessed between.
Followed_Guess(rev) == IF Tips(rev) = {} THEN Governing(rev) ELSE Max(Tips(rev))
Followed(rev) ==
    LET tips == Tips(rev)
    IN IF Cardinality(tips) = 1 THEN CHOOSE h \in tips : TRUE ELSE Governing(rev)

-----------------------------------------------------------------------------
(* An authoring pass, one git command at a time.                           *)

Open(p) == pass[p].at # "off"
\* It is at work in a checkout it has made; nothing locks others out.
Live(p) == pass[p].at \in {"made", "edited", "committed"}
Crossing(x) == crossed' = (crossed \/ x)
At(p, at) == pass' = [pass EXCEPT ![p].at = at]
TreeOf(c) == IF c = NoCommit THEN {} ELSE commits[c].tree

\* A second act on a proposal that stands replaces its commit.
Amends(origin, target) == origin = "proposal" /\ refs[target] # NoCommit

Begin(p, origin, target, source, fact) ==
    /\ ~Open(p) /\ passes < MaxPasses /\ passes' = passes + 1
    /\ pass' = [pass EXCEPT ![p] =
                    [at |-> "begun", origin |-> origin, target |-> target, source |-> source,
                     fact |-> fact, amend |-> Amends(origin, target), created |-> FALSE]]
    /\ UNCHANGED <<commits, refs, checkout, verdict, config, proposed, crossed, crashes>>

\* `litany config [<name>] [--from <source> | --orphan]`, refused inside a
\* step.  A fork's source is looked at again when the branch is cut.
Author ==
    /\ UNCHANGED readmark
    /\ \E n \in Names :
         \/ Begin(Operator, "advance", n, NoCommit, {})
         \/ \E m \in Names : Exists(m) /\ Begin(Operator, "fork", n, m, {})
         \/ Begin(Operator, "orphan", n, NoCommit, {})

\* The `remember` tool: a fact on the commit the agent follows.
Remember(a) ==
    /\ a \notin Reviewers /\ Governed(config[a]) /\ UNCHANGED readmark
    /\ \E f \in Facts : Begin(a, "proposal", a, Followed(config[a]), {f})

\* A reviewer is forked off an agent's tip; its dispatch commit marks what
\* it read.
Review(r, a) ==
    /\ readmark[r] = NoCommit /\ ~Open(r) /\ refs[r] = NoCommit /\ Governed(config[a])
    /\ config' = [config EXCEPT ![r] = config[a]]
    /\ readmark' = [readmark EXCEPT ![r] = Followed(config[a])]
    /\ UNCHANGED authored

\* stage_proposal: refused unless the lineage stands where it was read, or
\* if a path is not the reviewer's to propose; the return is consumed.
Fresh(r) == Followed(config[r]) = readmark[r]
Stage(r) ==
    /\ readmark[r] # NoCommit /\ ~Open(r) /\ Governed(config[r])
    /\ readmark' = [readmark EXCEPT ![r] = NoCommit]
    /\ IF Fresh(r)
       THEN \E f \in Facts : Begin(r, "proposal", r, readmark[r], {f})
       ELSE UNCHANGED <<config, authored>>

\* checkout::heal: whatever is on the path goes, whoever's it is.
Heal(p) ==
    /\ pass[p].at = "begun" /\ At(p, "healed") /\ checkout' = NoCheckout
    /\ Crossing(\E q \in DOMAIN pass : Live(q))
    /\ UNCHANGED <<commits, refs, verdict, config, readmark, proposed, passes, crashes>>

\* Drop: the checkout is removed and the branch the pass cut is deleted.
Removed(p) == IF pass[p].created THEN [refs EXCEPT ![pass[p].target] = NoCommit] ELSE refs
Drop(p) ==
    /\ checkout' = NoCheckout /\ refs' = Removed(p)
    /\ pass' = [pass EXCEPT ![p] = NoPass]
    /\ UNCHANGED <<commits, verdict, config, readmark, proposed, crossed, passes, crashes>>

\* Mutant: an amendment is written over the commit the agent reads.
Start_Afresh(p) ==
    CASE pass[p].origin = "advance" -> refs[pass[p].target]
      [] pass[p].origin = "fork" -> refs[pass[p].source]
      [] pass[p].origin = "proposal" -> pass[p].source
      [] pass[p].origin = "orphan" -> NoCommit
\* The start of the branch: its own head, the source's, or the proposal's
\* parent; an orphan's is none.
Start(p) ==
    CASE pass[p].origin = "advance" \/ pass[p].amend -> refs[pass[p].target]
      [] pass[p].origin = "fork" -> refs[pass[p].source]
      [] pass[p].origin = "proposal" /\ ~pass[p].amend -> pass[p].source
      [] pass[p].origin = "orphan" -> NoCommit
Cuts(p) == pass[p].origin # "advance" /\ ~pass[p].amend
Refused(p) ==
    \/ checkout # NoCheckout
    \/ Cuts(p) /\ refs[pass[p].target] # NoCommit
    \/ pass[p].origin # "orphan" /\ Start(p) = NoCommit
\* `git worktree add`: a refusal makes no guard, so it tears nothing down.
Materialize(p) ==
    /\ pass[p].at = "healed"
    /\ IF Refused(p)
       THEN /\ pass' = [pass EXCEPT ![p] = NoPass]
            /\ UNCHANGED <<refs, checkout>>
       ELSE /\ checkout' = [ref |-> pass[p].target, base |-> Start(p),
                             files |-> TreeOf(Start(p))]
            /\ refs' = IF Cuts(p) THEN [refs EXCEPT ![pass[p].target] = Start(p)] ELSE refs
            /\ pass' = [pass EXCEPT ![p].at = "made", ![p].created = Cuts(p)]
    /\ UNCHANGED <<commits, verdict, config, readmark, proposed, crossed, passes, crashes>>

\* The editor, the reviewer's patch or the appended fact; it may change
\* nothing, or fail, or be refused by the cap, the pool or a SKILL.md.
Edit(p) ==
    /\ pass[p].at = "made"
    /\ \/ \E f \in IF p = Operator THEN {{x} : x \in Facts} ELSE {pass[p].fact} :
            /\ checkout' = IF checkout = NoCheckout THEN checkout
                           ELSE [checkout EXCEPT !.files = @ \cup f]
            /\ At(p, "edited")
            /\ UNCHANGED <<commits, refs, verdict, config, readmark, proposed, crossed,
                           passes, crashes>>
       \/ Drop(p)

\* commit_checkout: `git add`, then the index against the head of whatever
\* branch is checked out on the path; the tree is the checkout's.
Parent(p) ==
    LET head == refs[checkout.ref]
    IN IF pass[p].amend THEN commits[head].parent ELSE head
Made(p) ==
    [parent |-> Parent(p), tree |-> checkout.files,
     line |-> {Len(commits) + 1}
              \cup IF Parent(p) = NoCommit THEN {} ELSE commits[Parent(p)].line]
Nothing(p) ==
    IF checkout = NoCheckout THEN TRUE
    ELSE LET head == refs[checkout.ref]
         IN IF head = NoCommit THEN pass[p].amend ELSE checkout.files = TreeOf(head)
Commit(p) ==
    /\ pass[p].at = "edited"
    /\ \/ Nothing(p) /\ Drop(p)
       \/ /\ ~Nothing(p) /\ Len(commits) < MaxCommits
          /\ commits' = Append(commits, Made(p))
          /\ refs' = [refs EXCEPT ![checkout.ref] = Len(commits) + 1]
          /\ At(p, "committed")
          /\ proposed' = proposed \cup {<<p, f>> : f \in pass[p].fact}
          /\ UNCHANGED <<checkout, verdict, config, readmark, crossed, passes, crashes>>

\* Checkout::landed: the ref stays.
Land(p) ==
    /\ pass[p].at = "committed" /\ checkout' = NoCheckout
    /\ pass' = [pass EXCEPT ![p] = NoPass]
    /\ UNCHANGED <<commits, refs, verdict, config, readmark, proposed, crossed, passes, crashes>>

Die(p) ==
    /\ Open(p) /\ crashes < MaxCrashes /\ crashes' = crashes + 1
    /\ pass' = [pass EXCEPT ![p] = NoPass]
    /\ UNCHANGED <<commits, refs, checkout, verdict, config, readmark, proposed, crossed, passes>>

-----------------------------------------------------------------------------
(* The operator's verdict on a proposal.                                   *)

\* The proposal, its parent and the one lineage that stands on it are read.
Accept(a) ==
    LET commit == refs[a]
        parent == commits[commit].parent
    IN /\ verdict[a].at = "off" /\ commit # NoCommit
       /\ parent # NoCommit /\ Cardinality(HeadsAt(parent)) = 1
       /\ \E n \in HeadsAt(parent) :
            verdict' = [verdict EXCEPT ![a] = [at |-> "read", parent |-> parent,
                                               commit |-> commit, name |-> n]]
       /\ UNCHANGED <<commits, refs, checkout, pass, config, readmark, proposed, crossed, passes,
                      crashes>>

Moves(v) == refs[v.name] = v.parent
Move(a) ==
    LET v == verdict[a]
    IN /\ v.at = "read"
       /\ IF Moves(v)
          THEN /\ refs' = [refs EXCEPT ![v.name] = v.commit]
               /\ verdict' = [verdict EXCEPT ![a].at = "moved"]
          ELSE verdict' = [verdict EXCEPT ![a] = NoVerdict] /\ UNCHANGED refs
       /\ Crossing(Moves(v) /\ Live(Operator) /\ pass[Operator].target = v.name)
       /\ UNCHANGED <<commits, checkout, pass, config, readmark, proposed, passes,
                      crashes>>

Delete(a) ==
    /\ verdict[a].at = "moved" /\ verdict' = [verdict EXCEPT ![a] = NoVerdict]
    /\ refs' = [refs EXCEPT ![a] = NoCommit]
    /\ Crossing(Live(a) \/ refs[a] # verdict[a].commit)
    /\ UNCHANGED <<commits, checkout, pass, config, readmark, proposed, passes, crashes>>

Reject(a) ==
    /\ verdict[a].at = "off" /\ refs[a] # NoCommit
    /\ refs' = [refs EXCEPT ![a] = NoCommit]
    /\ proposed' = {x \in proposed : x[1] # a}
    /\ Crossing(Live(a))
    /\ UNCHANGED <<commits, checkout, pass, verdict, config, readmark, passes, crashes>>

VerdictDies(a) ==
    /\ verdict[a].at # "off" /\ crashes < MaxCrashes /\ crashes' = crashes + 1
    /\ verdict' = [verdict EXCEPT ![a] = NoVerdict]
    /\ UNCHANGED <<commits, refs, checkout, pass, config, readmark, proposed, crossed, passes>>

AuthoringNext ==
    \/ Author
    \/ \E a \in Agents :
         Remember(a) \/ Accept(a) \/ Move(a) \/ Delete(a) \/ Reject(a) \/ VerdictDies(a)
    \/ \E r \in Reviewers : Stage(r) \/ \E a \in Agents \ Reviewers : Review(r, a)
    \/ \E p \in DOMAIN pass :
         Heal(p) \/ Materialize(p) \/ Edit(p) \/ Commit(p) \/ Land(p) \/ Die(p)

-----------------------------------------------------------------------------
(* What the lineages promise.                                              *)

\* A lineage only ever goes forward: its head moves to a commit that has the
\* old one in its history, and no lineage is deleted with a commit of its
\* own on it (the compare-and-swap of accept, branch -D of a failed pass).
HeadsForward ==
    \A n \in Names : (refs[n] # NoCommit /\ refs'[n] # refs[n]) =>
        \E m \in Names : refs'[m] # NoCommit /\ refs[n] \in commits'[refs'[m]].line
                        /\ (refs'[n] # NoCommit => m = n)

\* Until an act has crossed another, however passes and verdicts overlap: a
\* fact an agent was told is proposed is in its proposal or in a lineage,
\* until the operator rejects it; and a proposal is one commit on a commit of
\* a lineage, however often its agent remembers, so that it stays fresh, and
\* can be accepted, as long as the lineage stands.
FactsKept ==
    ~crossed =>
    /\ \A x \in proposed : \/ x[2] \in TreeOf(refs[x[1]])
                           \/ \E h \in Heads : x[2] \in TreeOf(h)
    /\ \A a \in Agents : refs[a] # NoCommit /\ commits[refs[a]].parent # NoCommit =>
           \E h \in Heads : IsAncestor(commits[refs[a]].parent, h)
=============================================================================
