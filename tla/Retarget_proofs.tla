-------------------------- MODULE Retarget_proofs --------------------------
(***************************************************************************)
(* Proofs about Authoring and Retarget, for all lineages, agents and       *)
(* bounds, however passes, verdicts and retargets overlap: until one act   *)
(* has taken from another what it was at work on, lineages only go         *)
(* forward, a proposed fact is kept, and a retargeted agent reads the      *)
(* control it was moved to or newer.                                       *)
(***************************************************************************)
EXTENDS Retarget, FiniteSetTheorems, TLAPS

USE AgentsAssumption, NamesAssumption, AuthoringBounds, MovedAssumption, MaxMarksAssumption
USE DEF NoCommit

Writing == Agents \cup {Operator}
Commits == 1..Len(commits)

\* What the variables hold.
PassRecords ==
    [at : {"off", "begun", "healed", "made", "edited", "committed"},
     origin : {"none", "advance", "fork", "orphan", "proposal"},
     target : Names \cup Agents \cup {"none"}, source : Names \cup Nat,
     fact : SUBSET Facts, amend : BOOLEAN, created : BOOLEAN]
VerdictRecords ==
    [at : {"off", "read", "moved"}, parent : Nat, commit : Nat, name : Names \cup {"none"}]
KindInv ==
    /\ commits \in Seq([parent : Nat, line : SUBSET Nat, tree : SUBSET Facts])
    /\ refs \in [Names \cup Agents -> 0..Len(commits)]
    /\ checkout \in [ref : Names \cup Agents \cup {"none"}, base : Nat, files : SUBSET Facts]
    /\ pass \in [Writing -> PassRecords] /\ verdict \in [Agents -> VerdictRecords]
    /\ config \in [Agents -> Commits] /\ readmark \in [Reviewers -> 0..Len(commits)]

\* The line of a commit: itself, and the lines of all it holds; a tree keeps
\* what the trees of its line hold; two lines that meet have a last meeting.
LineInv ==
    /\ \A c \in Commits :
          /\ c \in commits[c].line /\ commits[c].line \subseteq 1..c
          /\ commits[c].parent # NoCommit => commits[c].parent \in commits[c].line
          /\ \A d \in commits[c].line :
                commits[d].line \subseteq commits[c].line /\ commits[d].tree \subseteq commits[c].tree
    /\ \A c, d \in Commits : commits[c].line \cap commits[d].line # {} =>
          \E m \in commits[c].line \cap commits[d].line :
              \A y \in commits[c].line \cap commits[d].line : y <= m

\* What a pass that is open holds: what a live one works on stands still, but
\* for the source of a fork, which may go forward.
Holds(p) ==
    LET s == pass[p] IN
    /\ s.origin # "none"
    /\ s.origin # "proposal" =>
          p = Operator /\ s.target \in Names /\ s.fact = {} /\ ~s.amend
    /\ s.origin = "fork" => s.source \in Names
    /\ s.origin = "proposal" =>
          /\ p \in Agents /\ s.target = p
          /\ ~s.amend => s.source \in Commits
    /\ s.at \in {"begun", "healed"} => ~s.created
    /\ Live(p) => checkout.ref = s.target
    /\ s.at \in {"made", "edited"} =>
          /\ checkout.base = refs[s.target]
          /\ TreeOf(checkout.base) \subseteq checkout.files
          /\ s.created <=> Cuts(p)
          /\ s.origin # "orphan" => refs[s.target] # NoCommit
          /\ s.origin = "fork" =>
                s.source # s.target /\ refs[s.target] \in commits[refs[s.source]].line
                /\ refs[s.source] # NoCommit
          /\ s.amend => refs[p] # NoCommit
          /\ s.origin = "orphan" => refs[s.target] = NoCommit
          /\ s.origin = "proposal" /\ ~s.amend => refs[p] = s.source
    /\ s.at = "edited" => s.fact \subseteq checkout.files

\* Of the passes that are open one is live, with the checkout to itself.
PassInv ==
    /\ \A p, q \in Writing : Live(p) /\ Live(q) => p = q
    /\ \A p \in Writing : Open(p) => Holds(p)

\* A commit in the line of a head is what governing is decided by.
InLine(c) == \E h \in Heads : c \in commits[h].line

\* What a verdict has read is a commit on its parent, and once the lineage
\* has been moved it holds that, wherever the proposal's ref stands by then.
VerdictInv ==
    \A a \in Agents : verdict[a].at # "off" =>
        /\ verdict[a].name \in Names /\ verdict[a].commit \in Commits
        /\ verdict[a].parent \in commits[verdict[a].commit].line
        /\ verdict[a].at = "moved" => InLine(verdict[a].commit)

\* What agents were founded on, reviewers read and proposals start from or
\* stand on is in the line of some head.
FoundInv ==
    /\ \A a \in Agents : InLine(config[a])
    /\ \A r \in Reviewers : readmark[r] # NoCommit => InLine(readmark[r])
    /\ \A a \in Agents : refs[a] # NoCommit /\ commits[refs[a]].parent # NoCommit =>
           InLine(commits[refs[a]].parent)
    /\ \A a \in Agents : Open(a) /\ ~pass[a].amend => InLine(pass[a].source)

\* Where a proposed fact is.
FactInv ==
    /\ proposed \subseteq Agents \X Facts
    /\ \A x \in proposed : x[2] \in TreeOf(refs[x[1]]) \/ \E h \in Heads : x[2] \in TreeOf(h)

LineageInv == KindInv /\ LineInv /\ PassInv /\ VerdictInv /\ FoundInv /\ FactInv

\* What an operator marks is in a line; an agent that has been landed has
\* been founded on what it was marked with; what it ran is of its line.
MarkInv ==
    /\ {mark, settled, ran} \subseteq [Moved -> 0..Len(commits)]
    /\ verb.commit \in 0..Len(commits)
    /\ verb.commit # NoCommit => InLine(verb.commit)
    /\ \A a \in Moved :
          /\ mark[a] # NoCommit => InLine(mark[a])
          /\ settled[a] # NoCommit => settled[a] = config[a]
          /\ ran[a] # NoCommit => InLine(ran[a]) /\ config[a] \in commits[ran[a]].line

-----------------------------------------------------------------------------
(* Lines and what governs.                                                 *)

\* The numbers in a line are of commits, and lines are transitive.
LEMMA LineFacts ==
  ASSUME KindInv, LineInv, NEW c \in Commits, NEW d \in commits[c].line
  PROVE  /\ d \in Commits /\ d <= c
         /\ commits[d].line \subseteq commits[c].line /\ commits[d].tree \subseteq commits[c].tree
<1>1. commits[c].line \subseteq 1..c
  BY DEF LineInv
<1>2. Len(commits) \in Nat /\ c \in 1..Len(commits)
  BY DEF KindInv, Commits
<1> QED
  BY <1>1, <1>2 DEF LineInv, Commits

\* What a commit is.
LEMMA CommitKind ==
  ASSUME KindInv, NEW c \in Commits
  PROVE  commits[c] \in [parent : Nat, line : SUBSET Nat, tree : SUBSET Facts]
<1> DEFINE Kind == [parent : Nat, line : SUBSET Nat, tree : SUBSET Facts]
<1>1. commits \in Seq(Kind) /\ c \in 1..Len(commits)
  BY DEF KindInv, Commits
<1> HIDE DEF Kind
<1>2. commits[c] \in Kind
  BY <1>1
<1> QED
  BY <1>2 DEF Kind

\* Heads are commits.
LEMMA HeadFacts ==
  ASSUME KindInv, NEW h \in Heads
  PROVE  h \in Commits /\ \E n \in Names : refs[n] = h
<1>1. Len(commits) \in Nat
  BY DEF KindInv
<1> QED
  BY <1>1 DEF KindInv, Commits, Heads

\* A commit in a head's line governs itself.
LEMMA GovernsItself ==
  ASSUME KindInv, LineInv, NEW c \in Commits, InLine(c)
  PROVE  Governing(c) = c
<1>1. PICK h \in Heads : c \in commits[h].line
  BY DEF InLine
<1> DEFINE Meet(g) == commits[c].line \cap commits[g].line
<1>2. c \in commits[c].line /\ commits[c].line \subseteq 1..c /\ c \in Nat
  BY DEF LineInv, Commits, KindInv
<1>3. ASSUME NEW g \in Heads, Meet(g) # {} PROVE Max(Meet(g)) \in 1..c
  <2>1. g \in Commits
    BY HeadFacts
  <2>2. PICK m \in Meet(g) : \A y \in Meet(g) : y <= m
    BY <1>3, <2>1 DEF LineInv
  <2>3. \A y \in Meet(g) : m >= y
    BY <1>2, <2>2
  <2>4. Max(Meet(g)) \in Meet(g)
    BY <2>3 DEF Max
  <2> QED
    BY <1>2, <2>4
<1>4. c \in Meet(h) /\ \A y \in Meet(h) : y \in 1..c
  BY <1>1, <1>2
<1>5. Max(Meet(h)) = c
  <2>1. \A y \in Meet(h) : c >= y
    BY <1>2, <1>4
  <2>2. \A x \in Meet(h) : (\A y \in Meet(h) : x >= y) => x = c
    BY <1>2, <1>4
  <2> QED
    BY <1>4, <2>1, <2>2 DEF Max
<1>6. c \in Bases(c)
  BY <1>4, <1>5 DEF Bases
<1>7. \A y \in Bases(c) : y \in 1..c
  BY <1>3 DEF Bases
<1>8. Max(Bases(c)) = c
  <2>1. \A y \in Bases(c) : c >= y
    BY <1>2, <1>7
  <2>2. \A x \in Bases(c) : (\A y \in Bases(c) : x >= y) => x = c
    BY <1>2, <1>6, <1>7
  <2> QED
    BY <1>6, <2>1, <2>2 DEF Max
<1> QED
  BY <1>6, <1>8 DEF Governing

\* What is followed from a commit in a head's line: the head, when there is
\* but one whose line holds the commit, and otherwise the commit itself.
LEMMA FollowedFacts ==
  ASSUME KindInv, LineInv, NEW c \in Commits, InLine(c)
  PROVE  /\ Followed(c) \in Commits /\ c \in commits[Followed(c)].line
         /\ InLine(Followed(c))
         /\ Followed(c) = c \/ \A h \in Heads : c \in commits[h].line => h = Followed(c)
<1>1. Tips(c) = {h \in Heads : c \in commits[h].line}
  BY GovernsItself DEF Tips, IsAncestor
<1>2. CASE Cardinality(Tips(c)) = 1
  <2>1. IsFiniteSet(Tips(c))
    <3>1. IsFiniteSet(1..Len(commits))
      BY FS_Interval DEF KindInv
    <3>2. Tips(c) \subseteq 1..Len(commits)
      BY <1>1, HeadFacts DEF Commits
    <3> QED
      BY <3>1, <3>2, FS_Subset
  <2>2. PICK h : Tips(c) = {h}
    BY <1>2, <2>1, FS_Singleton
  <2>3. Followed(c) = h
    BY <1>2, <2>2 DEF Followed
  <2>4. h \in Heads /\ c \in commits[h].line /\ \A g \in Heads : c \in commits[g].line => g = h
    BY <1>1, <2>2
  <2>5. h \in Commits /\ h \in commits[h].line
    BY <2>4, HeadFacts DEF LineInv
  <2> QED
    BY <2>3, <2>4, <2>5 DEF InLine
<1>3. CASE Cardinality(Tips(c)) # 1
  <2>1. Followed(c) = c
    BY <1>3, GovernsItself DEF Followed
  <2> QED
    BY <2>1 DEF LineInv
<1> QED
  BY <1>2, <1>3

-----------------------------------------------------------------------------
(* Steps that add to the commits, and heads that go forward.               *)

\* Commits are never written over.
Grows == Commits \subseteq Commits' /\ \A c \in Commits : commits'[c] = commits[c]

\* What is in a head's line stays in one while heads go forward.
LEMMA Onward ==
  ASSUME KindInv, LineInv, KindInv', LineInv', Grows, HeadsForward, NEW c, InLine(c)
  PROVE  InLine(c)'
<1>1. PICK h \in Heads : c \in commits[h].line
  BY DEF InLine
<1>2. h \in Commits /\ h \in Commits' /\ commits'[h] = commits[h]
  BY HeadFacts DEF Grows
<1>3. PICK n \in Names : refs[n] = h
  BY HeadFacts
<1>4. h # NoCommit
  BY DEF Heads
<1>5. CASE refs'[n] = h
  <2>1. h \in Heads'
    BY <1>4, <1>5 DEF Heads
  <2> QED
    BY <1>1, <1>2, <2>1 DEF InLine
<1>6. CASE refs'[n] # h
  <2>1. PICK m \in Names : refs'[m] # NoCommit /\ h \in commits'[refs'[m]].line
    BY <1>3, <1>4, <1>6 DEF HeadsForward
  <2>2. refs'[m] \in Heads' /\ refs'[m] \in Commits'
    <3>1. refs'[m] \in Heads'
      BY <2>1 DEF Heads
    <3>2. Len(commits') \in Nat /\ refs'[m] \in 0..Len(commits')
      BY DEF KindInv
    <3> QED
      BY <2>1, <3>1, <3>2 DEF Commits
  <2>3. commits'[h].line \subseteq commits'[refs'[m]].line
    BY <2>1, <2>2 DEF LineInv
  <2> QED
    BY <1>1, <1>2, <2>2, <2>3 DEF InLine
<1> QED
  BY <1>5, <1>6

\* A step that leaves commits and refs alone.
LEMMA Still ==
  ASSUME KindInv, LineInv, UNCHANGED <<commits, refs>>
  PROVE  LineInv' /\ Grows /\ HeadsForward /\ Heads' = Heads /\ Commits' = Commits
         /\ \A c : InLine(c) <=> InLine(c)'
BY DEF LineInv, Grows, HeadsForward, Heads, Commits, InLine

\* A step that adds no commit.
LEMMA LineStill ==
  ASSUME LineInv, UNCHANGED commits
  PROVE  LineInv' /\ Grows /\ Commits' = Commits
<1>1. Commits' = Commits
  BY DEF Commits
<1> QED
  BY <1>1 DEF LineInv, Grows

\* A pass that is not live stays as it is while others go on.
LEMMA Aside ==
  ASSUME PassInv, Commits \subseteq Commits', NEW q \in Writing, ~Live(q), pass'[q] = pass[q],
         Open(q)'
  PROVE  Holds(q)' /\ ~Live(q)'
<1>1. Open(q) /\ ~Live(q)' /\ pass'[q].at = pass[q].at
  BY DEF Open, Live
<1>2. Holds(q) /\ pass[q].at \notin {"made", "edited"}
  BY <1>1 DEF PassInv, Live
<1> QED
  BY <1>1, <1>2 DEF Holds

\* A pass that is live moves, or ends; or one becomes live when none is.
LEMMA Alone ==
  ASSUME PassInv, NEW p \in Writing, \A q \in Writing : q # p => ~Live(q),
         \A q \in Writing : q # p => pass'[q] = pass[q],
         Commits \subseteq Commits', Open(p)' => Holds(p)'
  PROVE  PassInv'
<1>1. \A q \in Writing : Open(q)' => Holds(q)'
  BY Aside
<1>2. \A q \in Writing : q # p => ~Live(q)'
  BY DEF Live
<1> QED
  BY <1>1, <1>2 DEF PassInv

\* A pass begins, heals, or ends while it is not live, beside one that is.
LEMMA Beside ==
  ASSUME PassInv, NEW p \in Writing, \A q \in Writing : q # p => pass'[q] = pass[q],
         UNCHANGED <<commits, refs, checkout>>, ~Live(p)', Open(p)' => Holds(p)'
  PROVE  PassInv'
<1>1. ASSUME NEW q \in Writing, q # p
      PROVE  (Live(q)' <=> Live(q)) /\ (Open(q)' <=> Open(q)) /\ (Holds(q)' <=> Holds(q))
  BY <1>1 DEF Live, Open, Holds, Cuts, TreeOf, Commits
<1> QED
  BY <1>1 DEF PassInv

\* The live pass is the only one, and its checkout stands.
LEMMA OneLive ==
  ASSUME KindInv, PassInv, NEW p \in Writing, Live(p)
  PROVE  /\ Open(p) /\ Holds(p) /\ checkout # NoCheckout
         /\ \A q \in Writing : q # p => ~Live(q)
<1>1. Open(p) /\ Holds(p) /\ \A q \in Writing : q # p => ~Live(q)
  BY DEF PassInv, Open, Live
<1>2. pass[p].target \in Names \cup Agents
  BY <1>1 DEF KindInv, Holds, PassRecords
<1>3. checkout.ref # "none"
  BY <1>1, <1>2, NamesAssumption DEF Holds
<1> QED
  BY <1>1, <1>3 DEF NoCheckout

\* What a pass begins with.
Begins(p, origin, target, source, fact) ==
    \/ /\ p = Operator /\ origin \in {"advance", "fork", "orphan"} /\ target \in Names
       /\ source \in Names \cup {NoCommit} /\ (origin = "fork" => source \in Names) /\ fact = {}
    \/ /\ p \in Agents /\ origin = "proposal" /\ target = p
       /\ source \in Commits /\ InLine(source) /\ fact \subseteq Facts

\* A pass begins: it takes what it works on as it stands.
LEMMA BeginStep ==
  ASSUME LineageInv, NEW p \in Writing, NEW origin, NEW target, NEW source, NEW fact,
         Begin(p, origin, target, source, fact), Begins(p, origin, target, source, fact),
         UNCHANGED readmark \/ \E r \in Reviewers : readmark' = [readmark EXCEPT ![r] = NoCommit]
  PROVE  LineageInv' /\ Grows /\ HeadsForward
<1>1. KindInv /\ LineInv /\ PassInv /\ VerdictInv /\ FoundInv /\ FactInv
  BY DEF LineageInv
<1>2. /\ UNCHANGED <<commits, refs, checkout, verdict, config, proposed>>
      /\ pass' = [pass EXCEPT ![p] =
                    [at |-> "begun", origin |-> origin, target |-> target, source |-> source,
                     fact |-> fact, amend |-> Amends(origin, target), created |-> FALSE]]
      /\ ~Open(p)
  BY <1>1 DEF Begin
<1>3. LineInv' /\ Grows /\ HeadsForward /\ Heads' = Heads /\ Commits' = Commits
      /\ \A c : InLine(c) <=> InLine(c)'
  BY <1>1, <1>2, Still
<1> DEFINE new == [at |-> "begun", origin |-> origin, target |-> target, source |-> source,
                   fact |-> fact, amend |-> Amends(origin, target), created |-> FALSE]
<1>4. pass' \in [Writing -> PassRecords] /\ pass'[p] = new
      /\ \A q \in Writing : q # p => pass'[q] = pass[q]
  <2>1. new \in PassRecords
    <3>1. source \in Names \cup Nat /\ fact \in SUBSET Facts /\ target \in Names \cup Agents
          /\ origin \in {"none", "advance", "fork", "orphan", "proposal"}
      BY DEF Begins, Commits
    <3>2. Amends(origin, target) \in BOOLEAN
      BY DEF Amends
    <3> QED
      BY <3>1, <3>2 DEF PassRecords
  <2>2. pass \in [Writing -> PassRecords] /\ pass' = [pass EXCEPT ![p] = new]
    BY <1>1, <1>2 DEF KindInv
  <2> HIDE DEF new
  <2> QED
    BY <2>1, <2>2
<1>5. KindInv'
  <2>1. readmark' \in [Reviewers -> 0..Len(commits)]
    <3>1. readmark \in [Reviewers -> 0..Len(commits)] /\ NoCommit \in 0..Len(commits)
      BY <1>1 DEF KindInv
    <3> QED
      BY <3>1
  <2> QED
    BY <1>1, <1>2, <1>3, <1>4, <2>1 DEF KindInv
<1>6. PassInv'
  <2>1. ~Live(p)'
    BY <1>4 DEF Live
  <2>5. /\ origin # "none"
        /\ origin # "proposal" => p = Operator /\ target \in Names /\ fact = {}
        /\ origin = "fork" => source \in Names
        /\ origin = "proposal" => p \in Agents /\ target = p /\ source \in Commits
    BY AgentsAssumption DEF Begins
  <2>6. Holds(p)'
    BY <1>2, <1>3, <1>4, <2>1, <2>5 DEF Holds, Amends
  <2> QED
    BY <1>1, <1>2, <1>4, <2>1, <2>6, Beside
<1>7. VerdictInv'
  BY <1>1, <1>2, <1>3 DEF VerdictInv
<1>8. FoundInv'
  <2>1. \A r \in Reviewers : readmark'[r] # NoCommit => readmark'[r] = readmark[r]
    BY <1>1 DEF KindInv
  <2>2. \A a \in Agents : Open(a)' /\ ~pass'[a].amend => InLine(pass'[a].source)
    <3> SUFFICES ASSUME NEW a \in Agents, Open(a)', ~pass'[a].amend PROVE InLine(pass'[a].source)
      OBVIOUS
    <3>1. CASE a = p
      BY <1>4, <3>1, AgentsAssumption DEF Begins
    <3>2. CASE a # p
      BY <1>1, <1>4, <3>2 DEF FoundInv, Open, Writing
    <3> QED
      BY <3>1, <3>2
  <2> QED
    BY <1>1, <1>2, <1>3, <2>1, <2>2 DEF FoundInv
<1>9. FactInv'
  BY <1>1, <1>2, <1>3 DEF FactInv, TreeOf
<1> QED
  BY <1>3, <1>5, <1>6, <1>7, <1>8, <1>9 DEF LineageInv

-----------------------------------------------------------------------------
(* Steps of the pass that is open.                                         *)

\* What is in the line of a commit in a head's line is in it too.
LEMMA LineOfLine ==
  ASSUME KindInv, LineInv, NEW c, InLine(c), NEW d \in commits[c].line
  PROVE  c \in Commits /\ d \in Commits /\ InLine(d)
<1>1. PICK h \in Heads : c \in commits[h].line
  BY DEF InLine
<1>2. h \in Commits
  BY HeadFacts
<1>3. c \in Commits /\ commits[c].line \subseteq commits[h].line
  BY <1>1, <1>2, LineFacts
<1>4. d \in Commits
  BY <1>3, LineFacts
<1> QED
  BY <1>1, <1>3, <1>4 DEF InLine

\* A fact in the tree of a commit in a head's line stays in a head's tree.
LEMMA TreeOnward ==
  ASSUME KindInv, LineInv, KindInv', LineInv', Grows, HeadsForward,
         NEW c, InLine(c), NEW f \in commits[c].tree
  PROVE  \E h \in Heads' : f \in TreeOf(h)'
<1>1. c \in Commits
  <2>1. PICK h \in Heads : c \in commits[h].line
    BY DEF InLine
  <2> QED
    BY <2>1, HeadFacts, LineFacts
<1>2. InLine(c)'
  BY Onward
<1>3. PICK h \in Heads' : c \in commits'[h].line
  BY <1>2 DEF InLine
<1>4. h \in Commits' /\ h # NoCommit
  <2>1. Len(commits') \in Nat /\ h \in 0..Len(commits') /\ h # NoCommit
    BY DEF KindInv, Heads
  <2> QED
    BY <2>1 DEF Commits
<1>5. commits'[c].tree \subseteq commits'[h].tree
  BY <1>3, <1>4 DEF LineInv
<1> QED
  BY <1>1, <1>3, <1>4, <1>5 DEF Grows, TreeOf

\* The facts that heads have stay in heads.
LEMMA HeadFactsOnward ==
  ASSUME KindInv, LineInv, KindInv', LineInv', Grows, HeadsForward,
         NEW f, \E h \in Heads : f \in TreeOf(h)
  PROVE  \E h \in Heads' : f \in TreeOf(h)'
<1>1. PICK h \in Heads : f \in TreeOf(h)
  OBVIOUS
<1>2. InLine(h) /\ f \in commits[h].tree
  BY <1>1, HeadFacts DEF InLine, LineInv, TreeOf, Heads
<1> QED
  BY <1>2, TreeOnward

\* A pass goes on to its next git command.
LEMMA AtStep ==
  ASSUME KindInv, NEW p \in Writing, NEW at \in {"healed", "edited", "committed"}, At(p, at)
  PROVE  /\ pass' \in [Writing -> PassRecords] /\ pass'[p] = [pass[p] EXCEPT !.at = at]
         /\ pass'[p].at = at /\ pass'[p].origin = pass[p].origin
         /\ pass'[p].target = pass[p].target /\ pass'[p].source = pass[p].source
         /\ pass'[p].fact = pass[p].fact /\ pass'[p].amend = pass[p].amend
         /\ pass'[p].created = pass[p].created
         /\ \A q \in Writing : q # p => pass'[q] = pass[q]
<1>1. pass \in [Writing -> PassRecords] /\ pass[p] \in PassRecords
  BY DEF KindInv
<1>2. pass' = [pass EXCEPT ![p] = [pass[p] EXCEPT !.at = at]]
  BY DEF At
<1>3. [pass[p] EXCEPT !.at = at] \in PassRecords
  BY <1>1 DEF PassRecords
<1> QED
  BY <1>1, <1>2, <1>3 DEF PassRecords

\* A pass ends.
LEMMA EndStep ==
  ASSUME KindInv, NEW p \in Writing, pass' = [pass EXCEPT ![p] = NoPass]
  PROVE  /\ pass' \in [Writing -> PassRecords] /\ ~Open(p)'
         /\ \A q \in Writing : q # p => pass'[q] = pass[q]
<1>1. NoPass \in PassRecords
  BY DEF NoPass, PassRecords
<1>2. pass \in [Writing -> PassRecords]
  BY DEF KindInv
<1>3. pass'[p] = NoPass /\ pass' \in [Writing -> PassRecords]
      /\ \A q \in Writing : q # p => pass'[q] = pass[q]
  BY <1>1, <1>2
<1> QED
  BY <1>3 DEF Open, NoPass

\* `litany config` heals the path of its checkout.
LEMMA HealStep ==
  ASSUME LineageInv, NEW p \in Writing, Heal(p), ~crossed'
  PROVE  LineageInv' /\ Grows /\ HeadsForward
<1>1. KindInv /\ LineInv /\ PassInv /\ VerdictInv /\ FoundInv /\ FactInv
  BY DEF LineageInv
<1>2. /\ UNCHANGED <<commits, refs, verdict, config, readmark, proposed>>
      /\ pass[p].at = "begun" /\ At(p, "healed") /\ checkout' = NoCheckout
      /\ \A q \in Writing : ~Live(q)
  BY <1>1 DEF Heal, Crossing, KindInv
<1>3. LineInv' /\ Grows /\ HeadsForward /\ Heads' = Heads /\ Commits' = Commits
      /\ \A c : InLine(c) <=> InLine(c)'
  BY <1>1, <1>2, Still
<1>4. KindInv'
  <2>1. NoCheckout \in [ref : Names \cup Agents \cup {"none"}, base : Nat, files : SUBSET Facts]
    BY DEF NoCheckout
  <2>2. pass' \in [Writing -> PassRecords]
    BY <1>1, <1>2, AtStep
  <2> QED
    BY <1>1, <1>2, <1>3, <2>1, <2>2 DEF KindInv
<1>5. Open(p) /\ Open(p)'
  BY <1>1, <1>2, AtStep DEF Open
<1>6. Holds(p)'
  <2>1. Holds(p)
    BY <1>1, <1>5 DEF PassInv
  <2>2. /\ pass'[p].at = "healed" /\ pass'[p].origin = pass[p].origin
        /\ pass'[p].target = pass[p].target /\ pass'[p].source = pass[p].source
        /\ pass'[p].fact = pass[p].fact /\ pass'[p].amend = pass[p].amend
        /\ pass'[p].created = pass[p].created
    BY <1>1, <1>2, AtStep
  <2> QED
    BY <1>2, <1>3, <2>1, <2>2 DEF Holds, Live
<1>7. PassInv'
  BY <1>1, <1>2, <1>3, <1>6, AtStep, Alone
<1>8. VerdictInv' /\ FactInv'
  BY <1>1, <1>2, <1>3 DEF VerdictInv, FactInv, TreeOf
<1>9. FoundInv'
  <2>1. \A a \in Agents : Open(a)' /\ ~pass'[a].amend => InLine(pass'[a].source)
    BY <1>1, <1>2, <1>5, AtStep DEF FoundInv, Open, Writing
  <2> QED
    BY <1>1, <1>2, <1>3, <2>1 DEF FoundInv
<1> QED
  BY <1>3, <1>4, <1>7, <1>8, <1>9 DEF LineageInv

\* A pass that has landed lets go of the checkout, and one that dies of
\* nothing.
LEMMA LandDieStep ==
  ASSUME LineageInv, NEW p \in Writing, Land(p) \/ Die(p)
  PROVE  LineageInv' /\ Grows /\ HeadsForward
<1>1. KindInv /\ LineInv /\ PassInv /\ VerdictInv /\ FoundInv /\ FactInv
  BY DEF LineageInv
<1>2. /\ UNCHANGED <<commits, refs, verdict, config, readmark, proposed>>
      /\ Open(p) /\ pass' = [pass EXCEPT ![p] = NoPass] /\ checkout' \in {checkout, NoCheckout}
      /\ checkout' = checkout \/ Live(p)
  BY DEF Land, Die, Open, Live
<1>3. LineInv' /\ Grows /\ HeadsForward /\ Heads' = Heads /\ Commits' = Commits
      /\ \A c : InLine(c) <=> InLine(c)'
  BY <1>1, <1>2, Still
<1>4. KindInv'
  <2>1. NoCheckout \in [ref : Names \cup Agents \cup {"none"}, base : Nat, files : SUBSET Facts]
    BY DEF NoCheckout
  <2>2. pass' \in [Writing -> PassRecords]
    BY <1>1, <1>2, EndStep
  <2> QED
    BY <1>1, <1>2, <1>3, <2>1, <2>2 DEF KindInv
<1>5. PassInv'
  <2>1. CASE checkout' = checkout
    BY <1>1, <1>2, <2>1, EndStep, Beside DEF Live, Open
  <2>2. CASE Live(p)
    BY <1>1, <1>2, <1>3, <2>2, EndStep, OneLive, Alone
  <2> QED
    BY <1>2, <2>1, <2>2
<1>6. VerdictInv' /\ FactInv'
  BY <1>1, <1>2, <1>3 DEF VerdictInv, FactInv, TreeOf
<1>7. FoundInv'
  <2>1. \A a \in Agents : Open(a)' => Open(a) /\ pass'[a] = pass[a]
    BY <1>1, <1>2, EndStep DEF Open, Writing
  <2> QED
    BY <1>1, <1>2, <1>3, <2>1 DEF FoundInv
<1> QED
  BY <1>3, <1>4, <1>5, <1>6, <1>7 DEF LineageInv

\* A pass that fails takes its checkout and the branch it cut: a commit that
\* was the branch's is in the line of another head, or has never been one.
LEMMA DropStep ==
  ASSUME LineageInv, NEW p \in Writing, pass[p].at \in {"made", "edited"}, Drop(p)
  PROVE  LineageInv' /\ Grows /\ HeadsForward
<1>1. KindInv /\ LineInv /\ PassInv /\ VerdictInv /\ FoundInv /\ FactInv
  BY DEF LineageInv
<1>2. /\ UNCHANGED <<commits, verdict, config, readmark, proposed>>
      /\ Open(p) /\ pass' = [pass EXCEPT ![p] = NoPass] /\ checkout' = NoCheckout
      /\ refs' = IF pass[p].created THEN [refs EXCEPT ![pass[p].target] = NoCommit] ELSE refs
  BY DEF Drop, Removed, Open
<1>3. Holds(p) /\ \A q \in Writing : q # p => ~Live(q)
  BY <1>1, OneLive DEF Live
<1>4. pass[p] \in PassRecords /\ Len(commits) \in Nat /\ NoCommit \in 0..Len(commits)
  BY <1>1 DEF KindInv
<1>5. /\ p = Operator /\ pass[p].created => pass[p].target \in Names
      /\ p # Operator => p \in Agents /\ pass[p].target = p
      /\ pass[p].origin # "none"
  BY <1>3, <1>4 DEF Holds, Writing, PassRecords
<1>6. KindInv'
  <2>1. NoCheckout \in [ref : Names \cup Agents \cup {"none"}, base : Nat, files : SUBSET Facts]
    BY DEF NoCheckout
  <2>2. pass' \in [Writing -> PassRecords]
    BY <1>1, <1>2, EndStep
  <2>3. refs' \in [Names \cup Agents -> 0..Len(commits)]
    BY <1>1, <1>2, <1>4 DEF KindInv
  <2> QED
    BY <1>1, <1>2, <2>1, <2>2, <2>3 DEF KindInv, Commits
<1>7. LineInv' /\ Grows
  BY <1>1, <1>2, LineStill
<1>8. HeadsForward
  <2> SUFFICES ASSUME NEW n \in Names, refs[n] # NoCommit, refs'[n] # refs[n]
               PROVE  \E m \in Names : refs'[m] # NoCommit /\ refs[n] \in commits'[refs'[m]].line
                                       /\ (refs'[n] # NoCommit => m = n)
    BY DEF HeadsForward
  <2>1. pass[p].created /\ n = pass[p].target /\ refs'[n] = NoCommit /\ p = Operator
    BY <1>1, <1>2, <1>5, NamesAssumption DEF KindInv, Writing
  <2>2. pass[p].origin = "fork" /\ pass[p].source \in Names /\ pass[p].source # n
        /\ refs[n] \in commits[refs[pass[p].source]].line /\ refs[pass[p].source] # NoCommit
    BY <1>3, <1>4, <2>1, AgentsAssumption DEF Holds, Cuts, PassRecords
  <2>3. refs'[pass[p].source] = refs[pass[p].source]
    BY <1>1, <1>2, <2>1, <2>2 DEF KindInv
  <2> QED
    BY <1>2, <2>1, <2>2, <2>3
<1>9. \A c : InLine(c) => InLine(c)'
  BY <1>1, <1>6, <1>7, <1>8, Onward
<1>10. \A q \in Writing : Open(q)' => q # p /\ Open(q) /\ pass'[q] = pass[q]
  BY <1>1, <1>2, EndStep DEF Open
<1>11. PassInv'
  <2>1. Commits' = Commits
    BY <1>2 DEF Commits
  <2> QED
    BY <1>1, <1>2, <1>3, <2>1, EndStep, Alone
<1>12. \A a \in Agents : a # p \/ p \notin Agents => refs'[a] = refs[a]
  BY <1>1, <1>2, <1>5, NamesAssumption DEF KindInv, Writing
<1>13. VerdictInv'
  BY <1>1, <1>2, <1>9 DEF VerdictInv, Commits
<1>14. FoundInv'
  <2>1. \A a \in Agents : refs'[a] # NoCommit => refs'[a] = refs[a]
    BY <1>1, <1>2, <1>12 DEF KindInv
  <2> QED
    BY <1>1, <1>2, <1>9, <1>10, <2>1 DEF FoundInv, Writing
<1>15. FactInv'
  <2> SUFFICES ASSUME NEW x \in proposed
               PROVE  x[2] \in TreeOf(refs[x[1]])' \/ \E h \in Heads' : x[2] \in TreeOf(h)'
    BY <1>1, <1>2 DEF FactInv
  <2>1. x[1] \in Agents
    BY <1>1 DEF FactInv
  <2>2. CASE refs'[x[1]] = refs[x[1]] \/ \E h \in Heads : x[2] \in TreeOf(h)
    <3>1. CASE \E h \in Heads : x[2] \in TreeOf(h)
      BY <1>1, <1>6, <1>7, <1>8, <3>1, HeadFactsOnward
    <3>2. CASE x[2] \in TreeOf(refs[x[1]]) /\ refs'[x[1]] = refs[x[1]]
      BY <1>2, <3>2 DEF TreeOf
    <3> QED
      BY <1>1, <2>2, <3>1, <3>2 DEF FactInv
  <2>3. CASE refs'[x[1]] # refs[x[1]] /\ x[2] \in TreeOf(refs[x[1]])
    <3>1. x[1] = p /\ pass[p].created /\ pass[p].origin = "proposal"
      BY <1>2, <1>3, <1>4, <1>12, <2>1, <2>3, AgentsAssumption DEF Holds
    <3>2. refs[p] = pass[p].source /\ ~pass[p].amend /\ refs[p] # NoCommit
      BY <1>3, <1>4, <3>1 DEF Holds, Cuts
    <3>3. InLine(refs[p]) /\ x[2] \in commits[refs[p]].tree
      BY <1>1, <1>2, <2>1, <2>3, <3>1, <3>2 DEF FoundInv, TreeOf
    <3> QED
      BY <1>1, <1>6, <1>7, <1>8, <3>3, TreeOnward
  <2> QED
    BY <1>1, <2>2, <2>3 DEF FactInv
<1> QED
  BY <1>6, <1>7, <1>8, <1>11, <1>13, <1>14, <1>15 DEF LineageInv

\* `git worktree add` of the branch, cut where the pass starts.
LEMMA MaterializeStep ==
  ASSUME LineageInv, NEW p \in Writing, Materialize(p)
  PROVE  LineageInv' /\ Grows /\ HeadsForward
<1>1. KindInv /\ LineInv /\ PassInv /\ VerdictInv /\ FoundInv /\ FactInv
  BY DEF LineageInv
<1>2. /\ UNCHANGED <<commits, verdict, config, readmark, proposed>>
      /\ Open(p) /\ pass[p].at = "healed"
  BY DEF Materialize, Open
<1>3. Holds(p) /\ ~Live(p)
  BY <1>1, <1>2 DEF PassInv, Live
<1>4. CASE Refused(p)
  <2>1. UNCHANGED <<refs, checkout>> /\ pass' = [pass EXCEPT ![p] = NoPass]
    BY <1>4 DEF Materialize
  <2>2. LineInv' /\ Grows /\ HeadsForward /\ Heads' = Heads /\ Commits' = Commits
        /\ \A c : InLine(c) <=> InLine(c)'
    BY <1>1, <1>2, <2>1, Still
  <2>3. KindInv'
    BY <1>1, <1>2, <2>1, <2>2, EndStep DEF KindInv
  <2>4. PassInv'
    BY <1>1, <1>2, <2>1, EndStep, Beside DEF Live, Open
  <2>5. VerdictInv' /\ FactInv'
    BY <1>1, <1>2, <2>1, <2>2 DEF VerdictInv, FactInv, TreeOf
  <2>6. FoundInv'
    <3>1. \A a \in Agents : Open(a)' => Open(a) /\ pass'[a] = pass[a]
      BY <1>1, <2>1, EndStep DEF Open, Writing
    <3> QED
      BY <1>1, <1>2, <2>1, <2>2, <3>1 DEF FoundInv
  <2> QED
    BY <2>2, <2>3, <2>4, <2>5, <2>6 DEF LineageInv
<1>5. CASE ~Refused(p)
  <2> DEFINE t == pass[p].target
             start == Start(p)
  <2>1. /\ checkout' = [ref |-> t, base |-> start, files |-> TreeOf(start)]
        /\ refs' = IF Cuts(p) THEN [refs EXCEPT ![t] = start] ELSE refs
        /\ pass' = [pass EXCEPT ![p].at = "made", ![p].created = Cuts(p)]
        /\ Cuts(p) => refs[t] = NoCommit
        /\ pass[p].origin # "orphan" => start # NoCommit
        /\ checkout = NoCheckout
    BY <1>5 DEF Materialize, Refused
  <2>2. pass[p] \in PassRecords /\ Len(commits) \in Nat /\ Cuts(p) \in BOOLEAN
    BY <1>1 DEF KindInv, Cuts
  <2>3. t \in Names \cup Agents /\ (p = Operator => t \in Names) /\ (p # Operator => t = p)
        /\ (p # Operator => p \in Agents)
    BY <1>3, <2>2, AgentsAssumption DEF Holds, Writing, PassRecords
  <2>4. /\ pass[p].origin = "advance" \/ pass[p].amend => start = refs[t]
        /\ pass[p].origin = "fork" => start = refs[pass[p].source]
        /\ pass[p].origin = "proposal" /\ ~pass[p].amend => start = pass[p].source
        /\ pass[p].origin = "orphan" => start = NoCommit
    <3>1. pass[p].amend => pass[p].origin = "proposal"
      BY <1>3, <2>2 DEF Holds, PassRecords
    <3>2. pass[p].amend \in BOOLEAN
      BY <2>2 DEF PassRecords
    <3>3. pass[p].origin = "advance" \/ pass[p].amend => start = refs[t]
      BY <3>1, <3>2 DEF Start
    <3>4. pass[p].origin = "fork" => start = refs[pass[p].source]
      BY <3>1, <3>2 DEF Start
    <3>5. pass[p].origin = "proposal" /\ ~pass[p].amend => start = pass[p].source
      BY <3>2 DEF Start
    <3>6. pass[p].origin = "orphan" => start = NoCommit
      BY <3>1, <3>2 DEF Start
    <3> QED
      BY <3>3, <3>4, <3>5, <3>6
  <2>5. start \in 0..Len(commits)
    <3>1. pass[p].origin \in {"advance", "fork", "orphan", "proposal"}
      BY <1>3, <2>2 DEF Holds, PassRecords
    <3>2. refs[t] \in 0..Len(commits) /\ \A n \in Names : refs[n] \in 0..Len(commits)
      BY <1>1, <2>3 DEF KindInv
    <3>3. pass[p].origin = "fork" => pass[p].source \in Names
      BY <1>3 DEF Holds
    <3>4. pass[p].origin = "proposal" /\ ~pass[p].amend => pass[p].source \in 0..Len(commits)
      BY <1>3, <2>2 DEF Holds, Commits
    <3> QED
      BY <2>2, <2>4, <3>1, <3>2, <3>3, <3>4 DEF PassRecords
  <2> HIDE DEF start
  <2>6. refs' \in [Names \cup Agents -> 0..Len(commits)]
        /\ refs'[t] = start /\ \A n \in Names \cup Agents : n # t => refs'[n] = refs[n]
    BY <1>1, <1>3, <2>1, <2>2, <2>3, <2>4, <2>5 DEF KindInv, Cuts, PassRecords
  <2>7. /\ pass' \in [Writing -> PassRecords] /\ pass'[p].at = "made"
        /\ pass'[p].created = Cuts(p) /\ pass'[p].origin = pass[p].origin
        /\ pass'[p].target = t /\ pass'[p].source = pass[p].source
        /\ pass'[p].fact = pass[p].fact /\ pass'[p].amend = pass[p].amend
        /\ \A q \in Writing : q # p => pass'[q] = pass[q]
    <3>1. pass \in [Writing -> PassRecords]
      BY <1>1 DEF KindInv
    <3>2. pass' = [pass EXCEPT ![p] = [pass[p] EXCEPT !.at = "made", !.created = Cuts(p)]]
      BY <2>1, <3>1
    <3>3. [pass[p] EXCEPT !.at = "made", !.created = Cuts(p)] \in PassRecords
      BY <2>2 DEF PassRecords
    <3> QED
      BY <2>2, <3>1, <3>2, <3>3 DEF PassRecords
  <2>8. TreeOf(start) \subseteq Facts
    <3>1. ASSUME start # NoCommit
          PROVE  commits[start] \in [parent : Nat, line : SUBSET Nat, tree : SUBSET Facts]
      <4>1. start \in 1..Len(commits)
        BY <2>2, <2>5, <3>1
      <4> QED
        BY <1>1, <4>1, CommitKind DEF Commits
    <3> QED
      BY <3>1 DEF TreeOf
  <2>9. KindInv'
    <3>1. checkout' \in [ref : Names \cup Agents \cup {"none"}, base : Nat, files : SUBSET Facts]
      BY <2>1, <2>2, <2>3, <2>5, <2>8
    <3> QED
      BY <1>1, <1>2, <2>6, <2>7, <3>1 DEF KindInv, Commits
  <2>10. LineInv' /\ Grows
    BY <1>1, <1>2, LineStill
  <2>11. \A n \in Names \cup Agents : refs[n] # NoCommit => refs'[n] = refs[n]
    BY <2>1, <2>2, <2>6
  <2>12. HeadsForward
    BY <2>11 DEF HeadsForward
  <2>13. \A c : InLine(c) => InLine(c)'
    BY <1>1, <2>9, <2>10, <2>12, Onward
  <2>14. Holds(p)'
    <3>1. Cuts(p)' = Cuts(p)
      BY <2>7 DEF Cuts
    <3>2. checkout'.ref = t /\ checkout'.base = refs'[t] /\ checkout'.files = TreeOf(start)
          /\ checkout'.base = start /\ TreeOf(checkout'.base) = TreeOf(checkout.base)'
      BY <1>2, <2>1, <2>6 DEF TreeOf
    <3>3. /\ pass[p].origin = "fork" => pass[p].source # t /\ refs'[pass[p].source] = start
          /\ pass[p].origin # "orphan" => start # NoCommit
          /\ pass[p].amend => refs'[p] # NoCommit
      BY <1>3, <2>1, <2>2, <2>3, <2>4, <2>6, <2>11 DEF Holds, Cuts
    <3>4. start # NoCommit => start \in commits'[start].line
      BY <1>1, <1>2, <2>2, <2>5 DEF LineInv, Commits
    <3> QED
      BY <1>2, <1>3, <2>4, <2>6, <2>7, <3>1, <3>2, <3>3, <3>4 DEF Holds, Commits
  <2>15. PassInv'
    <3>1. \A q \in Writing : ~Live(q)
      BY <1>1, <2>1, OneLive
    <3> QED
      BY <1>1, <2>7, <2>10, <2>14, <3>1, Alone DEF Grows
  <2>16. VerdictInv'
    BY <1>1, <1>2, <2>13 DEF VerdictInv, Commits
  <2>17. FoundInv'
    <3>1. \A a \in Agents : Open(a)' /\ ~pass'[a].amend => InLine(pass'[a].source)
      BY <1>1, <1>2, <2>7 DEF FoundInv, Open, Writing
    <3>2. \A a \in Agents : refs'[a] # NoCommit => refs'[a] = refs[a] \/ InLine(refs'[a])
      <4> SUFFICES ASSUME NEW a \in Agents, refs'[a] # refs[a] PROVE InLine(refs'[a])
        OBVIOUS
      <4>1. a = t /\ Cuts(p) /\ p \in Agents /\ p = a
        BY <1>1, <2>1, <2>3, <2>6, NamesAssumption
      <4>2. pass[p].origin = "proposal" /\ ~pass[p].amend
        BY <1>3, <4>1, AgentsAssumption DEF Holds, Cuts
      <4> QED
        BY <1>1, <1>2, <2>4, <2>6, <4>1, <4>2 DEF FoundInv
    <3>3. \A a \in Agents : refs'[a] # NoCommit /\ commits[refs'[a]].parent # NoCommit =>
              InLine(commits[refs'[a]].parent)
      <4> SUFFICES ASSUME NEW a \in Agents, refs'[a] # NoCommit,
                          commits[refs'[a]].parent # NoCommit, InLine(refs'[a])
                   PROVE  InLine(commits[refs'[a]].parent)
        BY <1>1, <3>2 DEF FoundInv
      <4>1. refs'[a] \in Commits
        BY <2>2, <2>6 DEF Commits
      <4>2. commits[refs'[a]].parent \in commits[refs'[a]].line
        BY <1>1, <4>1 DEF LineInv
      <4> QED
        BY <1>1, <4>2, LineOfLine
    <3> QED
      BY <1>1, <1>2, <2>13, <3>1, <3>3 DEF FoundInv
  <2>18. FactInv'
    <3> SUFFICES ASSUME NEW x \in proposed
                 PROVE  x[2] \in TreeOf(refs[x[1]])' \/ \E h \in Heads' : x[2] \in TreeOf(h)'
      BY <1>1, <1>2 DEF FactInv
    <3>1. x[1] \in Agents
      BY <1>1 DEF FactInv
    <3>2. x[2] \in TreeOf(refs[x[1]]) => x[2] \in TreeOf(refs[x[1]])'
      BY <1>2, <2>11, <3>1 DEF TreeOf
    <3> QED
      BY <1>1, <2>9, <2>10, <2>12, <3>2, HeadFactsOnward DEF FactInv
  <2> QED
    BY <2>9, <2>10, <2>12, <2>15, <2>16, <2>17, <2>18 DEF LineageInv
<1> QED
  BY <1>4, <1>5

\* The checkout is edited, or the pass fails.
LEMMA EditStep ==
  ASSUME LineageInv, NEW p \in Writing, Edit(p)
  PROVE  LineageInv' /\ Grows /\ HeadsForward
<1>1. KindInv /\ LineInv /\ PassInv /\ VerdictInv /\ FoundInv /\ FactInv
  BY DEF LineageInv
<1>2. Open(p) /\ pass[p].at = "made"
  BY DEF Edit, Open
<1>3. Holds(p) /\ pass[p] \in PassRecords /\ Live(p) /\ checkout # NoCheckout
      /\ \A q \in Writing : q # p => ~Live(q)
  BY <1>1, <1>2, OneLive DEF Live, KindInv
<1>4. CASE Drop(p)
  BY <1>2, <1>4, DropStep
<1>5. CASE ~Drop(p)
  <2>1. PICK f \in IF p = Operator THEN {{x} : x \in Facts} ELSE {pass[p].fact} :
            /\ checkout' = IF checkout = NoCheckout THEN checkout
                           ELSE [checkout EXCEPT !.files = @ \cup f]
            /\ At(p, "edited")
            /\ UNCHANGED <<commits, refs, verdict, config, readmark, proposed>>
    BY <1>5 DEF Edit
  <2>2. LineInv' /\ Grows /\ HeadsForward /\ Heads' = Heads /\ Commits' = Commits
        /\ \A c : InLine(c) <=> InLine(c)'
    BY <1>1, <2>1, Still
  <2>3. f \subseteq Facts /\ checkout \in [ref : Names \cup Agents \cup {"none"}, base : Nat, files : SUBSET Facts]
    BY <1>1, <1>3, <2>1 DEF PassRecords, KindInv
  <2>4. /\ checkout' \in [ref : Names \cup Agents \cup {"none"}, base : Nat, files : SUBSET Facts]
        /\ checkout'.ref = checkout.ref /\ checkout'.base = checkout.base
        /\ checkout.files \subseteq checkout'.files
        /\ f \subseteq checkout'.files
    BY <1>3, <2>1, <2>3
  <2>5. /\ pass' \in [Writing -> PassRecords]
        /\ pass'[p].at = "edited" /\ pass'[p].origin = pass[p].origin
        /\ pass'[p].target = pass[p].target /\ pass'[p].source = pass[p].source
        /\ pass'[p].fact = pass[p].fact /\ pass'[p].amend = pass[p].amend
        /\ pass'[p].created = pass[p].created
        /\ \A q \in Writing : q # p => pass'[q] = pass[q]
    BY <1>1, <2>1, AtStep
  <2>6. KindInv'
    BY <1>1, <2>1, <2>2, <2>4, <2>5 DEF KindInv
  <2>7. Holds(p)'
    <3>1. pass[p].fact \subseteq checkout'.files
      <4>1. CASE p = Operator
        BY <1>3, <4>1, AgentsAssumption DEF Holds
      <4>2. CASE p # Operator
        BY <2>1, <2>4, <4>2
      <4> QED
        BY <4>1, <4>2
    <3>2. Cuts(p)' = Cuts(p) /\ TreeOf(checkout.base)' = TreeOf(checkout.base)
      BY <2>1, <2>4, <2>5 DEF Cuts, TreeOf
    <3> QED
      BY <1>2, <1>3, <2>1, <2>2, <2>4, <2>5, <3>1, <3>2 DEF Holds, Live
  <2>8. PassInv'
    BY <1>1, <1>3, <2>2, <2>5, <2>7, Alone
  <2>9. VerdictInv' /\ FactInv'
    BY <1>1, <2>1, <2>2 DEF VerdictInv, FactInv, TreeOf
  <2>10. FoundInv'
    <3>1. \A a \in Agents : Open(a)' /\ ~pass'[a].amend => InLine(pass'[a].source)
      BY <1>1, <1>2, <2>5 DEF FoundInv, Open, Writing
    <3> QED
      BY <1>1, <2>1, <2>2, <3>1 DEF FoundInv
  <2> QED
    BY <2>2, <2>6, <2>8, <2>9, <2>10 DEF LineageInv
<1> QED
  BY <1>4, <1>5

\* The new commit: it has a line of its own, on top of its parent's, and a
\* tree that keeps its parent's.
LEMMA MadeFacts ==
  ASSUME LineageInv, NEW p \in Writing, pass[p].at = "edited", ~Nothing(p)
  PROVE  /\ Parent(p) \in 0..Len(commits)
         /\ ~pass[p].amend => Parent(p) = refs[pass[p].target]
         /\ pass[p].amend => refs[pass[p].target] # NoCommit
                             /\ Parent(p) = commits[refs[pass[p].target]].parent
         /\ Parent(p) # NoCommit => TreeOf(Parent(p)) \subseteq checkout.files
         /\ checkout.ref = pass[p].target /\ pass[p].target \in Names \cup Agents
         /\ Made(p) \in [parent : Nat, line : SUBSET Nat, tree : SUBSET Facts]
<1>1. KindInv /\ LineInv /\ PassInv
  BY DEF LineageInv
<1>2. Holds(p) /\ pass[p] \in PassRecords /\ Len(commits) \in Nat /\ checkout.ref = pass[p].target
  BY <1>1, OneLive DEF Live, KindInv, Holds
<1> DEFINE t == pass[p].target
<1>3. /\ checkout.ref = t /\ checkout.base = refs[t] /\ TreeOf(checkout.base) \subseteq checkout.files
      /\ t \in Names \cup Agents /\ pass[p].amend \in BOOLEAN
      /\ pass[p].amend => refs[t] # NoCommit
  BY <1>2 DEF Holds, PassRecords
<1>4. refs[t] \in 0..Len(commits)
  BY <1>1, <1>3 DEF KindInv
<1>5. /\ ~pass[p].amend => Parent(p) = refs[t]
      /\ pass[p].amend => Parent(p) = commits[refs[t]].parent
  BY <1>3 DEF Parent
<1>6. Parent(p) \in 0..Len(commits) /\ (Parent(p) # NoCommit => TreeOf(Parent(p)) \subseteq checkout.files)
  <2>1. CASE ~pass[p].amend
    BY <1>3, <1>4, <1>5, <2>1
  <2>2. CASE pass[p].amend /\ Parent(p) # NoCommit
    <3>1. refs[t] \in Commits
      BY <1>2, <1>3, <1>4, <2>2 DEF Commits
    <3>2. Parent(p) \in commits[refs[t]].line
      BY <1>1, <1>5, <2>2, <3>1 DEF LineInv
    <3>3. Parent(p) \in Commits /\ commits[Parent(p)].tree \subseteq commits[refs[t]].tree
      BY <1>1, <3>1, <3>2, LineFacts
    <3> QED
      BY <1>2, <1>3, <2>2, <3>3 DEF TreeOf, Commits
  <2>3. CASE Parent(p) = NoCommit
    BY <1>2, <2>3
  <2> QED
    BY <1>3, <2>1, <2>2, <2>3
<1>7. Made(p) \in [parent : Nat, line : SUBSET Nat, tree : SUBSET Facts]
  <2>1. Parent(p) # NoCommit => commits[Parent(p)].line \subseteq Nat
    BY <1>1, <1>2, <1>6, CommitKind DEF Commits
  <2>2. checkout.files \subseteq Facts
    BY <1>1 DEF KindInv
  <2> QED
    BY <1>2, <1>6, <2>1, <2>2 DEF Made
<1> QED
  BY <1>3, <1>5, <1>6, <1>7

\* A commit is made on the branch of the checkout, or the pass fails.
LEMMA CommitStep ==
  ASSUME LineageInv, NEW p \in Writing, Commit(p)
  PROVE  LineageInv' /\ Grows /\ HeadsForward
<1>1. KindInv /\ LineInv /\ PassInv /\ VerdictInv /\ FoundInv /\ FactInv
  BY DEF LineageInv
<1>2. Open(p) /\ pass[p].at = "edited"
  BY DEF Commit, Open
<1>3. Holds(p) /\ pass[p] \in PassRecords /\ Len(commits) \in Nat
      /\ Live(p) /\ \A q \in Writing : q # p => ~Live(q)
  BY <1>1, <1>2, OneLive DEF Live, KindInv
<1>4. CASE Drop(p)
  BY <1>2, <1>4, DropStep
<1>5. CASE ~Drop(p)
  <2> DEFINE t == pass[p].target
             new == Len(commits) + 1
             par == Parent(p)
             made == Made(p)
             Kind == [parent : Nat, line : SUBSET Nat, tree : SUBSET Facts]
  <2>1. /\ ~Nothing(p) /\ commits' = Append(commits, made)
        /\ refs' = [refs EXCEPT ![checkout.ref] = new] /\ At(p, "committed")
        /\ proposed' = proposed \cup {<<p, f>> : f \in pass[p].fact}
        /\ UNCHANGED <<checkout, verdict, config, readmark>>
    BY <1>5 DEF Commit
  <2>2. /\ par \in 0..Len(commits)
        /\ ~pass[p].amend => par = refs[t]
        /\ pass[p].amend => refs[t] # NoCommit /\ par = commits[refs[t]].parent
        /\ par # NoCommit => TreeOf(par) \subseteq checkout.files
        /\ checkout.ref = t /\ t \in Names \cup Agents
        /\ made \in Kind
    BY <1>2, <2>1, MadeFacts
  <2>3. /\ made.parent = par /\ made.tree = checkout.files
        /\ made.line = {new} \cup IF par = NoCommit THEN {} ELSE commits[par].line
    BY DEF Made
  <2> HIDE DEF made, par, Kind
  <2>4. /\ commits' \in Seq(Kind) /\ Len(commits') = new /\ commits'[new] = made
        /\ \A c \in Commits : commits'[c] = commits[c]
        /\ Commits' = Commits \cup {new} /\ new \notin Commits
    <3>1. commits \in Seq(Kind)
      BY <1>1 DEF KindInv, Kind
    <3>2. commits' \in Seq(Kind) /\ Len(commits') = new /\ commits'[new] = made
          /\ \A c \in 1..Len(commits) : commits'[c] = commits[c]
      BY <2>1, <2>2, <3>1
    <3>3. 1..Len(commits') = (1..Len(commits)) \cup {new} /\ new \notin 1..Len(commits)
      BY <1>3, <3>2
    <3> QED
      BY <3>2, <3>3 DEF Commits
  <2>5. Grows
    BY <2>4 DEF Grows
  <2>6. refs' \in [Names \cup Agents -> 0..Len(commits')] /\ refs'[t] = new
        /\ \A n \in Names \cup Agents : n # t => refs'[n] = refs[n]
    BY <1>1, <1>3, <2>1, <2>2, <2>4 DEF KindInv
  <2>7. /\ pass' \in [Writing -> PassRecords]
        /\ pass'[p].at = "committed" /\ pass'[p].origin = pass[p].origin
        /\ pass'[p].target = pass[p].target /\ pass'[p].source = pass[p].source
        /\ pass'[p].fact = pass[p].fact /\ pass'[p].amend = pass[p].amend
        /\ pass'[p].created = pass[p].created
        /\ \A q \in Writing : q # p => pass'[q] = pass[q]
    BY <1>1, <2>1, AtStep
  <2>8. KindInv'
    <3>1. config' \in [Agents -> Commits'] /\ readmark' \in [Reviewers -> 0..Len(commits')]
      BY <1>1, <1>3, <2>1, <2>4 DEF KindInv
    <3> QED
      BY <1>1, <2>1, <2>4, <2>6, <2>7, <3>1 DEF KindInv, Kind
  <2>9. par \in Commits => commits[par].line \subseteq Commits /\ par \in commits[par].line
    BY <1>1, LineFacts DEF LineInv
  <2>10. LineInv'
    <3>1. made.line \subseteq 1..new /\ new \in made.line
          /\ (par # NoCommit => par \in Commits /\ par \in made.line)
      BY <1>3, <2>2, <2>3, <2>9 DEF Commits
    <3>2. ASSUME NEW d \in made.line
          PROVE  commits'[d].line \subseteq made.line /\ commits'[d].tree \subseteq made.tree
      <4>1. CASE d = new
        BY <2>4, <4>1
      <4>2. CASE d # new
        <5>1. par # NoCommit /\ d \in commits[par].line /\ par \in Commits
          BY <2>2, <2>3, <3>1, <4>2
        <5>2. d \in Commits /\ commits[d].line \subseteq commits[par].line
              /\ commits[d].tree \subseteq commits[par].tree
          BY <1>1, <5>1, LineFacts
        <5> QED
          BY <2>2, <2>3, <2>4, <5>1, <5>2 DEF TreeOf
      <4> QED
        BY <4>1, <4>2
    <3>3. ASSUME NEW c \in Commits
          PROVE  /\ commits'[c] = commits[c] /\ commits[c].line \subseteq Commits
                 /\ \A d \in commits[c].line : commits'[d] = commits[d]
      BY <1>1, <2>4, LineFacts
    <3>4. ASSUME NEW c \in Commits'
          PROVE  /\ c \in commits'[c].line /\ commits'[c].line \subseteq 1..c
                 /\ commits'[c].parent # NoCommit => commits'[c].parent \in commits'[c].line
                 /\ \A d \in commits'[c].line :
                       /\ commits'[d].line \subseteq commits'[c].line
                       /\ commits'[d].tree \subseteq commits'[c].tree
      <4>1. CASE c = new
        BY <2>3, <2>4, <3>1, <3>2, <4>1
      <4>2. CASE c \in Commits
        BY <1>1, <3>3, <4>2 DEF LineInv
      <4> QED
        BY <2>4, <4>1, <4>2
    <3>5. ASSUME NEW c \in Commits', NEW d \in Commits', commits'[c].line \cap commits'[d].line # {}
          PROVE  \E m \in commits'[c].line \cap commits'[d].line :
                     \A y \in commits'[c].line \cap commits'[d].line : y <= m
      <4> DEFINE Meets(a, b) == \E m \in a \cap b : \A y \in a \cap b : y <= m
      <4>1. \A a, b \in Commits : commits[a].line \cap commits[b].line # {} =>
                Meets(commits[a].line, commits[b].line)
        BY <1>1 DEF LineInv
      <4>2. ASSUME NEW b \in Commits
            PROVE  commits[b].line \cap made.line =
                       IF par = NoCommit THEN {} ELSE commits[b].line \cap commits[par].line
        BY <2>3, <2>4, <3>3
      <4>3. ASSUME NEW b \in Commits, commits[b].line \cap made.line # {}
            PROVE  Meets(commits[b].line, made.line) /\ Meets(made.line, commits[b].line)
        <5>1. par # NoCommit /\ par \in Commits
              /\ commits[b].line \cap made.line = commits[b].line \cap commits[par].line
          BY <3>1, <4>2, <4>3
        <5>2. Meets(commits[b].line, commits[par].line)
          BY <4>1, <4>3, <5>1
        <5> QED
          BY <5>1, <5>2
      <4>4. Meets(made.line, made.line)
        <5>1. new \in made.line /\ \A y \in made.line : y <= new
          BY <1>3, <3>1
        <5> QED
          BY <5>1
      <4>5. CASE c \in Commits /\ d \in Commits
        BY <3>3, <3>5, <4>1, <4>5
      <4>6. CASE c = new /\ d \in Commits
        BY <2>4, <3>3, <3>5, <4>3, <4>6
      <4>7. CASE c \in Commits /\ d = new
        BY <2>4, <3>3, <3>5, <4>3, <4>7
      <4>8. CASE c = new /\ d = new
        BY <2>4, <4>4, <4>8
      <4> QED
        BY <2>4, <4>5, <4>6, <4>7, <4>8
    <3> QED
      BY <3>4, <3>5 DEF LineInv
  <2>11. HeadsForward
    <3> SUFFICES ASSUME NEW n \in Names, refs[n] # NoCommit, refs'[n] # refs[n]
                 PROVE  \E m \in Names : refs'[m] # NoCommit /\ refs[n] \in commits'[refs'[m]].line
                                         /\ (refs'[n] # NoCommit => m = n)
      BY DEF HeadsForward
    <3>1. n = t /\ refs'[n] = new /\ new # NoCommit
      BY <1>3, <2>6
    <3>2. ~pass[p].amend
      BY <1>3, <3>1, NamesAssumption DEF Holds
    <3>3. par = refs[n] /\ par \in Commits
      BY <1>3, <2>2, <3>1, <3>2 DEF Commits
    <3>4. refs[n] \in made.line
      BY <2>3, <2>9, <3>3
    <3> QED
      BY <2>4, <3>1, <3>4
  <2>12. \A c : InLine(c) => InLine(c)'
    BY <1>1, <2>5, <2>8, <2>10, <2>11, Onward
  <2>13. Holds(p)'
    <3>1. pass[p].origin = "proposal" => t = p
      BY <1>3 DEF Holds
    <3> QED
      BY <1>3, <2>1, <2>2, <2>4, <2>6, <2>7, <3>1 DEF Holds, Live
  <2>14. PassInv'
    BY <1>1, <1>3, <2>5, <2>7, <2>13, Alone DEF Grows
  <2>15. \A a \in Agents : a # t => refs'[a] = refs[a]
    BY <2>6
  <2>16. t \in Agents => p = t /\ pass[p].origin = "proposal"
    BY <1>3, <2>2, NamesAssumption DEF Holds
  <2>17. VerdictInv'
    BY <1>1, <2>1, <2>4, <2>12 DEF VerdictInv
  <2>18. FoundInv'
    <3>1. \A a \in Agents : Open(a)' /\ ~pass'[a].amend => InLine(pass'[a].source)
      BY <1>1, <1>2, <2>7 DEF FoundInv, Open, Writing
    <3>2. ASSUME NEW a \in Agents, refs'[a] # NoCommit, commits'[refs'[a]].parent # NoCommit
          PROVE  InLine(commits'[refs'[a]].parent)
      <4>1. CASE a # t
        <5>1. refs'[a] = refs[a] /\ refs[a] \in Commits
          BY <1>1, <1>3, <2>15, <3>2, <4>1 DEF KindInv, Commits
        <5> QED
          BY <1>1, <2>4, <3>2, <5>1 DEF FoundInv
      <4>2. CASE a = t
        <5>1. p = a /\ pass[p].origin = "proposal" /\ refs'[a] = new
              /\ commits'[refs'[a]].parent = par /\ par # NoCommit
          BY <2>3, <2>4, <2>6, <2>16, <3>2, <4>2
        <5>2. CASE pass[p].amend
          BY <1>1, <2>2, <4>2, <5>1, <5>2 DEF FoundInv
        <5>3. CASE ~pass[p].amend
          BY <1>1, <1>2, <1>3, <2>2, <4>2, <5>1, <5>3 DEF FoundInv, Holds
        <5> QED
          BY <5>2, <5>3
      <4> QED
        BY <4>1, <4>2
    <3> QED
      BY <1>1, <2>1, <2>12, <3>1, <3>2 DEF FoundInv
  <2>19. FactInv'
    <3>1. proposed' \subseteq Agents \X Facts
      <4>1. p \notin Agents => pass[p].fact = {}
        BY <1>3 DEF Holds, PassRecords
      <4> QED
        BY <1>1, <1>3, <2>1, <4>1 DEF FactInv, PassRecords
    <3>2. pass[p].fact \subseteq checkout.files
      BY <1>2, <1>3 DEF Holds
    <3>3. new # NoCommit /\ commits'[new].tree = checkout.files
      BY <1>3, <2>3, <2>4
    <3>4. ASSUME NEW x \in proposed'
          PROVE  x[2] \in TreeOf(refs[x[1]])' \/ \E h \in Heads' : x[2] \in TreeOf(h)'
      <4>1. CASE x[1] = p /\ x[2] \in pass[p].fact
        <5>1. p \in Agents /\ t = p
          BY <1>3, <4>1 DEF Holds, PassRecords
        <5> QED
          BY <2>3, <2>4, <2>6, <3>2, <3>3, <4>1, <5>1 DEF TreeOf
      <4>2. CASE x \in proposed
        <5>1. CASE \E h \in Heads : x[2] \in TreeOf(h)
          BY <1>1, <2>5, <2>8, <2>10, <2>11, <5>1, HeadFactsOnward
        <5>2. CASE x[2] \in TreeOf(refs[x[1]])
          <6>1. x[1] \in Agents /\ refs[x[1]] \in Commits
            <7>1. x[1] \in Agents
              BY <1>1, <4>2 DEF FactInv
            <7> QED
              BY <1>1, <1>3, <5>2, <7>1 DEF TreeOf, KindInv, Commits
          <6>2. CASE x[1] = t
            <7>1. checkout.base = refs[t] /\ TreeOf(checkout.base) \subseteq checkout.files
              BY <1>2, <1>3 DEF Holds
            <7> QED
              BY <2>3, <2>4, <2>6, <3>3, <5>2, <6>2, <7>1 DEF TreeOf
          <6>3. CASE x[1] # t
            BY <2>4, <2>15, <5>2, <6>1, <6>3 DEF TreeOf
          <6> QED
            BY <6>2, <6>3
        <5> QED
          BY <1>1, <4>2, <5>1, <5>2 DEF FactInv
      <4> QED
        BY <2>1, <4>1, <4>2
    <3> QED
      BY <3>1, <3>4 DEF FactInv
  <2> QED
    BY <2>5, <2>8, <2>10, <2>11, <2>14, <2>17, <2>18, <2>19 DEF LineageInv
<1> QED
  BY <1>4, <1>5

-----------------------------------------------------------------------------
(* Steps of reviews and verdicts.                                          *)

\* A verdict goes on while the live pass has what it works on.
LEMMA Elsewhere ==
  ASSUME PassInv, UNCHANGED <<commits, checkout, pass>>,
         \A q \in Writing : Live(q) =>
             /\ refs'[pass[q].target] = refs[pass[q].target]
             /\ q \in Agents => refs'[q] = refs[q]
             /\ pass[q].origin = "fork" =>
                    \/ refs'[pass[q].source] = refs[pass[q].source]
                    \/ /\ refs'[pass[q].source] # NoCommit
                       /\ commits[refs[pass[q].source]].line \subseteq commits[refs'[pass[q].source]].line
  PROVE  PassInv'
<1>1. \A q \in Writing : (Open(q)' <=> Open(q)) /\ (Live(q)' <=> Live(q))
  BY DEF Open, Live
<1>2. ASSUME NEW q \in Writing, Open(q)' PROVE Holds(q)'
  <2>1. Open(q) /\ Holds(q)
    BY <1>1, <1>2 DEF PassInv
  <2>2. Cuts(q)' = Cuts(q) /\ TreeOf(checkout.base)' = TreeOf(checkout.base) /\ Commits' = Commits
    BY DEF Cuts, TreeOf, Commits
  <2>3. CASE ~Live(q)
    BY <1>1, <1>2, <2>2, <2>3, Aside
  <2>4. CASE Live(q)
    <3>1. q \notin Agents => q = Operator /\ ~pass[q].amend
      BY <2>1 DEF Holds, Writing
    <3> QED
      BY <1>1, <2>1, <2>2, <2>4, <3>1, AgentsAssumption DEF Holds
  <2> QED
    BY <2>3, <2>4
<1> QED
  BY <1>1, <1>2 DEF PassInv

\* Who an agent is founded on and what a reviewer reads.
LEMMA ReadStep ==
  ASSUME LineageInv, UNCHANGED <<commits, refs, checkout, pass, verdict, proposed>>,
         config' \in [Agents -> Commits], \A a \in Agents : InLine(config'[a]),
         readmark' \in [Reviewers -> 0..Len(commits)],
         \A r \in Reviewers : readmark'[r] # NoCommit => InLine(readmark'[r])
  PROVE  LineageInv' /\ Grows /\ HeadsForward
<1>1. KindInv /\ LineInv /\ PassInv /\ VerdictInv /\ FoundInv /\ FactInv
  BY DEF LineageInv
<1>2. UNCHANGED <<commits, refs, checkout, pass, verdict, proposed>>
  OBVIOUS
<1>3. LineInv' /\ Grows /\ HeadsForward /\ Heads' = Heads /\ Commits' = Commits
      /\ \A c : InLine(c) <=> InLine(c)'
  BY <1>1, <1>2, Still
<1>4. KindInv'
  BY <1>1, <1>2, <1>3 DEF KindInv
<1>5. \A q \in Writing : Open(q)' <=> Open(q)
  BY <1>2 DEF Open
<1>6. PassInv'
  BY <1>1, <1>2, Elsewhere
<1>7. VerdictInv' /\ FactInv'
  BY <1>1, <1>2, <1>3 DEF VerdictInv, FactInv, TreeOf
<1>8. FoundInv'
  BY <1>1, <1>2, <1>3, <1>5 DEF FoundInv, Writing
<1> QED
  BY <1>3, <1>4, <1>6, <1>7, <1>8 DEF LineageInv

\* A reviewer is forked.
LEMMA ReviewStep ==
  ASSUME LineageInv, NEW r \in Reviewers, NEW a \in Agents, Review(r, a)
  PROVE  LineageInv' /\ Grows /\ HeadsForward
<1>1. KindInv /\ LineInv /\ FoundInv
  BY DEF LineageInv
<1>2. InLine(config[a]) /\ config[a] \in Commits
  BY <1>1 DEF FoundInv, KindInv
<1>3. Followed(config[a]) \in Commits /\ InLine(Followed(config[a]))
  BY <1>1, <1>2, FollowedFacts
<1>4. /\ UNCHANGED authored /\ config' = [config EXCEPT ![r] = config[a]]
      /\ readmark' = [readmark EXCEPT ![r] = Followed(config[a])]
  BY DEF Review
<1>5. config' \in [Agents -> Commits] /\ \A b \in Agents : InLine(config'[b])
  BY <1>1, <1>2, <1>4 DEF KindInv, FoundInv
<1>6. readmark' \in [Reviewers -> 0..Len(commits)]
      /\ \A q \in Reviewers : readmark'[q] # NoCommit => InLine(readmark'[q])
  <2>1. Followed(config[a]) \in 0..Len(commits)
    BY <1>3 DEF Commits
  <2> QED
    BY <1>1, <1>3, <1>4, <2>1 DEF KindInv, FoundInv
<1> QED
  BY <1>4, <1>5, <1>6, ReadStep DEF authored

\* A reviewer's return is staged, or is stale.
LEMMA StageStep ==
  ASSUME LineageInv, NEW r \in Reviewers, Stage(r)
  PROVE  LineageInv' /\ Grows /\ HeadsForward
<1>1. KindInv /\ LineInv /\ FoundInv
  BY DEF LineageInv
<1>2. readmark[r] # NoCommit /\ readmark' = [readmark EXCEPT ![r] = NoCommit]
      /\ readmark \in [Reviewers -> 0..Len(commits)] /\ NoCommit \in 0..Len(commits)
  BY <1>1 DEF Stage, KindInv
<1>3. CASE Fresh(r)
  <2>1. PICK f \in Facts : Begin(r, "proposal", r, readmark[r], {f})
    BY <1>3 DEF Stage
  <2>2. readmark[r] \in Commits /\ InLine(readmark[r])
    <3>1. readmark[r] \in 0..Len(commits) /\ Len(commits) \in Nat
      BY <1>1, <1>2 DEF KindInv
    <3> QED
      BY <1>1, <1>2, <3>1 DEF FoundInv, Commits
  <2>3. Begins(r, "proposal", r, readmark[r], {f}) /\ r \in Writing
    BY <2>1, <2>2, AgentsAssumption DEF Begins, Writing
  <2> QED
    BY <1>2, <2>1, <2>3, BeginStep
<1>4. CASE ~Fresh(r)
  <2>1. UNCHANGED <<config, authored>>
    BY <1>4 DEF Stage
  <2>2. config' \in [Agents -> Commits] /\ \A b \in Agents : InLine(config'[b])
    BY <1>1, <2>1 DEF KindInv, FoundInv
  <2>3. readmark' \in [Reviewers -> 0..Len(commits)]
        /\ \A q \in Reviewers : readmark'[q] # NoCommit => InLine(readmark'[q])
    BY <1>1, <1>2 DEF FoundInv
  <2> QED
    BY <2>1, <2>2, <2>3, ReadStep DEF authored
<1> QED
  BY <1>3, <1>4

\* The operator authors, an agent remembers.
LEMMA WriteStep ==
  ASSUME LineageInv, Author \/ \E a \in Agents : Remember(a)
  PROVE  LineageInv' /\ Grows /\ HeadsForward
<1>1. CASE Author
  <2>1. UNCHANGED readmark /\ Operator \in Writing
    BY <1>1 DEF Author, Writing
  <2>2. PICK n \in Names :
            \/ Begin(Operator, "advance", n, NoCommit, {})
            \/ \E m \in Names : Exists(m) /\ Begin(Operator, "fork", n, m, {})
            \/ Begin(Operator, "orphan", n, NoCommit, {})
    BY <1>1 DEF Author
  <2>3. CASE Begin(Operator, "advance", n, NoCommit, {})
    BY <2>1, <2>3, BeginStep DEF Begins
  <2>4. ASSUME NEW m \in Names, Begin(Operator, "fork", n, m, {})
        PROVE  LineageInv' /\ Grows /\ HeadsForward
    BY <2>1, <2>4, BeginStep DEF Begins
  <2>5. CASE Begin(Operator, "orphan", n, NoCommit, {})
    BY <2>1, <2>5, BeginStep DEF Begins
  <2> QED
    BY <2>2, <2>3, <2>4, <2>5
<1>2. ASSUME NEW a \in Agents, Remember(a)
      PROVE  LineageInv' /\ Grows /\ HeadsForward
  <2>1. UNCHANGED readmark /\ a \in Writing
    BY <1>2 DEF Remember, Writing
  <2>2. PICK f \in Facts : Begin(a, "proposal", a, Followed(config[a]), {f})
    BY <1>2 DEF Remember
  <2>3. Followed(config[a]) \in Commits /\ InLine(Followed(config[a]))
    BY FollowedFacts DEF LineageInv, FoundInv, KindInv
  <2>4. Begins(a, "proposal", a, Followed(config[a]), {f})
    BY <2>3 DEF Begins
  <2> QED
    BY <2>1, <2>2, <2>4, BeginStep
<1> QED
  BY <1>1, <1>2

\* A proposal and its lineage are read.
LEMMA AcceptStep ==
  ASSUME LineageInv, NEW a \in Agents, Accept(a)
  PROVE  LineageInv' /\ Grows /\ HeadsForward
<1>1. KindInv /\ LineInv /\ PassInv /\ VerdictInv /\ FoundInv /\ FactInv
  BY DEF LineageInv
<1> DEFINE c == refs[a]
           v(n) == [at |-> "read", parent |-> commits[c].parent, commit |-> c, name |-> n]
<1>2. /\ UNCHANGED <<commits, refs, checkout, pass, config, readmark, proposed>>
      /\ c # NoCommit /\ commits[c].parent # NoCommit
  BY DEF Accept
<1>3. PICK n \in Names : verdict' = [verdict EXCEPT ![a] = v(n)]
  BY DEF Accept, HeadsAt
<1>4. LineInv' /\ Grows /\ HeadsForward /\ Heads' = Heads /\ Commits' = Commits
      /\ \A d : InLine(d) <=> InLine(d)'
  BY <1>1, <1>2, Still
<1>5. c \in Commits /\ commits[c].parent \in commits[c].line /\ commits[c].parent \in Nat /\ c \in Nat
  <2>1. c \in 0..Len(commits) /\ Len(commits) \in Nat
    BY <1>1 DEF KindInv
  <2>2. c \in Commits
    BY <1>2, <2>1 DEF Commits
  <2> QED
    BY <1>1, <1>2, <2>1, <2>2, CommitKind DEF LineInv
<1>6. verdict' \in [Agents -> VerdictRecords] /\ verdict'[a] = v(n)
      /\ \A q \in Agents : q # a => verdict'[q] = verdict[q]
  <2>1. v(n) \in VerdictRecords
    BY <1>5 DEF VerdictRecords
  <2> QED
    BY <1>1, <1>3, <2>1 DEF KindInv
<1>7. KindInv'
  BY <1>1, <1>2, <1>4, <1>6 DEF KindInv
<1>8. PassInv'
  BY <1>1, <1>2, Elsewhere
<1>9. VerdictInv'
  BY <1>1, <1>2, <1>4, <1>5, <1>6 DEF VerdictInv
<1>10. FoundInv' /\ FactInv'
  BY <1>1, <1>2, <1>4 DEF FoundInv, FactInv, TreeOf, Open
<1> QED
  BY <1>4, <1>7, <1>8, <1>9, <1>10 DEF LineageInv

\* A verdict is over, or dies.
LEMMA VerdictEnds ==
  ASSUME KindInv, VerdictInv, NEW a \in Agents, verdict' = [verdict EXCEPT ![a] = NoVerdict]
  PROVE  /\ verdict' \in [Agents -> VerdictRecords] /\ verdict'[a].at = "off"
         /\ \A q \in Agents : q # a => verdict'[q] = verdict[q]
<1>1. NoVerdict \in VerdictRecords /\ NoVerdict.at = "off"
  BY DEF NoVerdict, VerdictRecords
<1> QED
  BY <1>1 DEF KindInv

\* The lineage is moved to the proposal when it stands where it was read.
LEMMA MoveStep ==
  ASSUME LineageInv, NEW a \in Agents, Move(a), ~crossed'
  PROVE  LineageInv' /\ Grows /\ HeadsForward
<1>1. KindInv /\ LineInv /\ PassInv /\ VerdictInv /\ FoundInv /\ FactInv
  BY DEF LineageInv
<1> DEFINE v == verdict[a]
<1>2. /\ UNCHANGED <<commits, checkout, pass, config, readmark, proposed>>
      /\ v.at = "read"
  BY DEF Move
<1>3. Moves(v) => ~(Live(Operator) /\ pass[Operator].target = v.name)
  BY DEF Move, Crossing
<1>4. /\ v.name \in Names /\ v.commit \in Commits /\ v.commit # NoCommit
      /\ v.parent \in commits[v.commit].line
  BY <1>1, <1>2 DEF VerdictInv, Commits
<1>5. /\ verdict' \in [Agents -> VerdictRecords] /\ v \in VerdictRecords
      /\ \A q \in Agents : q # a => verdict'[q] = verdict[q]
      /\ \/ verdict'[a].at = "off"
         \/ verdict'[a] = [v EXCEPT !.at = "moved"] /\ Moves(v)
      /\ IF Moves(v) THEN refs' = [refs EXCEPT ![v.name] = v.commit] ELSE refs' = refs
  <2>1. CASE Moves(v)
    <3>1. refs' = [refs EXCEPT ![v.name] = v.commit]
          /\ verdict' = [verdict EXCEPT ![a] = [v EXCEPT !.at = "moved"]]
      BY <2>1 DEF Move
    <3>2. verdict \in [Agents -> VerdictRecords] /\ v \in VerdictRecords
      BY <1>1 DEF KindInv
    <3>3. [v EXCEPT !.at = "moved"] \in VerdictRecords
      BY <3>2 DEF VerdictRecords
    <3> QED
      BY <2>1, <3>1, <3>2, <3>3
  <2>2. CASE ~Moves(v)
    <3>1. refs' = refs /\ verdict' = [verdict EXCEPT ![a] = NoVerdict]
      BY <2>2 DEF Move
    <3>2. v \in VerdictRecords
      BY <1>1 DEF KindInv
    <3>3. verdict' \in [Agents -> VerdictRecords] /\ verdict'[a].at = "off"
          /\ \A q \in Agents : q # a => verdict'[q] = verdict[q]
      BY <1>1, <3>1, VerdictEnds
    <3> QED
      BY <2>2, <3>1, <3>2, <3>3
  <2> QED
    BY <2>1, <2>2
<1>6. /\ refs' \in [Names \cup Agents -> 0..Len(commits)]
      /\ \A q \in Agents : refs'[q] = refs[q]
      /\ \A n \in Names : n # v.name => refs'[n] = refs[n]
      /\ Moves(v) => refs'[v.name] = v.commit
      /\ ~Moves(v) => refs' = refs
  <2>1. v.commit \in 0..Len(commits) /\ refs \in [Names \cup Agents -> 0..Len(commits)]
    BY <1>1, <1>4 DEF KindInv, Commits
  <2> QED
    BY <1>4, <1>5, <2>1, NamesAssumption
<1>7. LineInv' /\ Grows /\ Commits' = Commits
  BY <1>1, <1>2, LineStill
<1>8. KindInv'
  BY <1>1, <1>2, <1>5, <1>6, <1>7 DEF KindInv
<1>9. HeadsForward
  <2> SUFFICES ASSUME NEW n \in Names, refs[n] # NoCommit, refs'[n] # refs[n]
               PROVE  refs'[n] # NoCommit /\ refs[n] \in commits'[refs'[n]].line
    BY DEF HeadsForward
  <2>1. Moves(v) /\ n = v.name /\ refs'[n] = v.commit /\ refs[n] = v.parent
    BY <1>6 DEF Moves
  <2> QED
    BY <1>2, <1>4, <2>1
<1>10. \A c : InLine(c) => InLine(c)'
  BY <1>1, <1>7, <1>8, <1>9, Onward
<1>11. PassInv'
  <2>1. ASSUME NEW q \in Writing, Live(q)
        PROVE  /\ refs'[pass[q].target] = refs[pass[q].target]
               /\ q \in Agents => refs'[q] = refs[q]
               /\ pass[q].origin = "fork" =>
                      \/ refs'[pass[q].source] = refs[pass[q].source]
                      \/ /\ refs'[pass[q].source] # NoCommit
                         /\ commits[refs[pass[q].source]].line
                              \subseteq commits[refs'[pass[q].source]].line
    <3>1. Holds(q) /\ pass[q] \in PassRecords
      BY <1>1, <2>1, OneLive DEF KindInv
    <3>2. refs'[pass[q].target] = refs[pass[q].target]
      BY <1>3, <1>6, <2>1, <3>1, NamesAssumption DEF Holds, PassRecords
    <3>3. ASSUME pass[q].origin = "fork", refs'[pass[q].source] # refs[pass[q].source]
          PROVE  /\ refs'[pass[q].source] # NoCommit
                 /\ commits[refs[pass[q].source]].line \subseteq commits[refs'[pass[q].source]].line
      <4>1. pass[q].source = v.name /\ Moves(v)
        BY <1>6, <3>1, <3>3 DEF Holds
      <4>2. refs'[v.name] = v.commit /\ refs[v.name] = v.parent
        BY <1>6, <4>1 DEF Moves
      <4>3. commits[v.parent].line \subseteq commits[v.commit].line
        BY <1>1, <1>4 DEF LineInv
      <4> QED
        BY <1>4, <4>1, <4>2, <4>3
    <3> QED
      BY <1>6, <3>2, <3>3
  <2> QED
    BY <1>1, <1>2, <2>1, Elsewhere
<1>12. VerdictInv'
  <2> SUFFICES ASSUME NEW b \in Agents, verdict'[b].at # "off"
               PROVE  /\ verdict'[b].name \in Names /\ verdict'[b].commit \in Commits'
                      /\ verdict'[b].parent \in commits'[verdict'[b].commit].line
                      /\ verdict'[b].at = "moved" => InLine(verdict[b].commit)'
    BY DEF VerdictInv
  <2>1. CASE b # a
    <3>1. verdict'[b] = verdict[b]
      BY <1>5, <2>1
    <3>2. /\ verdict[b].name \in Names /\ verdict[b].commit \in Commits
          /\ verdict[b].parent \in commits[verdict[b].commit].line
          /\ verdict[b].at = "moved" => InLine(verdict[b].commit)
      BY <1>1, <3>1 DEF VerdictInv
    <3>3. ASSUME NEW c, c = verdict[b].commit, InLine(c)' PROVE InLine(verdict[b].commit)'
      BY <3>1, <3>3 DEF InLine
    <3> QED
      BY <1>2, <1>7, <1>10, <3>1, <3>2, <3>3
  <2>2. CASE b = a
    <3>1. verdict'[a] = [v EXCEPT !.at = "moved"] /\ Moves(v) /\ v \in VerdictRecords
      BY <1>5, <2>2
    <3>2. verdict'[a].name = v.name /\ verdict'[a].commit = v.commit /\ verdict'[a].parent = v.parent
      BY <3>1 DEF VerdictRecords
    <3>3. refs'[v.name] = v.commit /\ v.commit \in commits'[v.commit].line
      BY <1>1, <1>2, <1>4, <1>6, <3>1 DEF LineInv
    <3>4. refs'[v.name] \in Heads'
      BY <1>4, <3>3 DEF Heads
    <3>5. InLine(verdict[b].commit)'
      BY <2>2, <3>2, <3>3, <3>4 DEF InLine
    <3> QED
      BY <1>2, <1>4, <1>7, <2>2, <3>2, <3>5
  <2> QED
    BY <2>1, <2>2
<1>13. FoundInv'
  BY <1>1, <1>2, <1>6, <1>10 DEF FoundInv, Open
<1>14. FactInv'
  <2>1. ASSUME NEW x \in proposed
        PROVE  x[2] \in TreeOf(refs[x[1]])' \/ \E h \in Heads' : x[2] \in TreeOf(h)'
    <3>1. x[1] \in Agents
      BY <1>1 DEF FactInv
    <3>2. x[2] \in TreeOf(refs[x[1]]) => x[2] \in TreeOf(refs[x[1]])'
      BY <1>2, <1>6, <3>1 DEF TreeOf
    <3> QED
      BY <1>1, <1>7, <1>8, <1>9, <3>2, HeadFactsOnward DEF FactInv
  <2> QED
    BY <1>1, <1>2, <2>1 DEF FactInv
<1> QED
  BY <1>7, <1>8, <1>9, <1>11, <1>12, <1>13, <1>14 DEF LineageInv

\* The ref of a proposal goes: with its commit in a lineage, or rejected.
LEMMA GoneStep ==
  ASSUME LineageInv, NEW a \in Agents, Delete(a) \/ Reject(a), ~crossed'
  PROVE  LineageInv' /\ Grows /\ HeadsForward
<1>1. KindInv /\ LineInv /\ PassInv /\ VerdictInv /\ FoundInv /\ FactInv
  BY DEF LineageInv
<1>2. /\ UNCHANGED <<commits, checkout, pass, config, readmark>>
      /\ refs' = [refs EXCEPT ![a] = NoCommit]
      /\ ~Live(a) /\ (Delete(a) => refs[a] = verdict[a].commit)
  BY DEF Delete, Reject, Crossing
<1>3. /\ verdict' \in [Agents -> VerdictRecords] /\ verdict'[a].at = "off"
      /\ \A q \in Agents : q # a => verdict'[q] = verdict[q]
  BY <1>1, VerdictEnds DEF Delete, Reject, KindInv
<1>4. /\ refs' \in [Names \cup Agents -> 0..Len(commits)] /\ refs'[a] = NoCommit
      /\ \A q \in Agents : q # a => refs'[q] = refs[q]
      /\ \A n \in Names : refs'[n] = refs[n]
  <2>1. refs \in [Names \cup Agents -> 0..Len(commits)] /\ NoCommit \in 0..Len(commits)
    BY <1>1 DEF KindInv
  <2> QED
    BY <1>2, <2>1, NamesAssumption
<1>5. LineInv' /\ Grows /\ Commits' = Commits
  BY <1>1, <1>2, LineStill
<1>6. HeadsForward
  BY <1>4 DEF HeadsForward
<1>7. proposed' \subseteq proposed
  BY DEF Delete, Reject
<1>8. KindInv'
  BY <1>1, <1>2, <1>3, <1>4, <1>5 DEF KindInv
<1>9. \A c : InLine(c) => InLine(c)'
  BY <1>1, <1>5, <1>6, <1>8, Onward
<1>10. PassInv'
  <2>1. ASSUME NEW q \in Writing, Live(q)
        PROVE  /\ refs'[pass[q].target] = refs[pass[q].target]
               /\ q \in Agents => refs'[q] = refs[q]
               /\ pass[q].origin = "fork" => refs'[pass[q].source] = refs[pass[q].source]
    <3>1. Holds(q) /\ q # a /\ pass[q] \in PassRecords
      BY <1>1, <1>2, <2>1, OneLive DEF KindInv
    <3> QED
      BY <1>4, <3>1 DEF Holds, PassRecords
  <2> QED
    BY <1>1, <1>2, <2>1, Elsewhere
<1>11. VerdictInv'
  BY <1>1, <1>2, <1>3, <1>5, <1>9 DEF VerdictInv
<1>12. FoundInv'
  <2>1. \A b \in Agents : refs'[b] # NoCommit => refs'[b] = refs[b]
    BY <1>4
  <2> QED
    BY <1>1, <1>2, <1>9, <2>1 DEF FoundInv, Open
<1>13. FactInv'
  <2>1. ASSUME NEW x \in proposed'
        PROVE  x[2] \in TreeOf(refs[x[1]])' \/ \E h \in Heads' : x[2] \in TreeOf(h)'
    <3>1. x \in proposed /\ x[1] \in Agents
      BY <1>1, <1>7 DEF FactInv
    <3>2. CASE \E h \in Heads : x[2] \in TreeOf(h)
      BY <1>1, <1>5, <1>6, <1>8, <3>2, HeadFactsOnward
    <3>3. CASE x[2] \in TreeOf(refs[x[1]]) /\ x[1] # a
      BY <1>2, <1>4, <3>1, <3>3 DEF TreeOf
    <3>4. CASE x[2] \in TreeOf(refs[x[1]]) /\ x[1] = a
      <4>1. Delete(a)
        <5>1. ~Reject(a)
          BY <3>4 DEF Reject
        <5> QED
          BY <5>1
      <4>2. InLine(refs[a])
        BY <1>1, <1>2, <4>1 DEF Delete, VerdictInv
      <4>3. x[2] \in commits[refs[a]].tree
        BY <3>4 DEF TreeOf
      <4> QED
        BY <1>1, <1>5, <1>6, <1>8, <4>2, <4>3, TreeOnward
    <3> QED
      BY <1>1, <3>1, <3>2, <3>3, <3>4 DEF FactInv
  <2> QED
    BY <1>1, <1>7, <2>1 DEF FactInv
<1> QED
  BY <1>5, <1>6, <1>8, <1>10, <1>11, <1>12, <1>13 DEF LineageInv

\* A verdict dies.
LEMMA VerdictDiesStep ==
  ASSUME LineageInv, NEW a \in Agents, VerdictDies(a)
  PROVE  LineageInv' /\ Grows /\ HeadsForward
<1>1. KindInv /\ LineInv /\ PassInv /\ VerdictInv /\ FoundInv /\ FactInv
  BY DEF LineageInv
<1>2. /\ UNCHANGED <<commits, refs, checkout, pass, config, readmark, proposed>>
      /\ verdict' = [verdict EXCEPT ![a] = NoVerdict] /\ verdict[a].at # "off"
  BY DEF VerdictDies
<1>3. /\ verdict' \in [Agents -> VerdictRecords] /\ verdict'[a].at = "off"
      /\ \A q \in Agents : q # a => verdict'[q] = verdict[q]
  BY <1>1, <1>2, VerdictEnds
<1>4. LineInv' /\ Grows /\ HeadsForward /\ Heads' = Heads /\ Commits' = Commits
      /\ \A d : InLine(d) <=> InLine(d)'
  BY <1>1, <1>2, Still
<1>5. KindInv'
  BY <1>1, <1>2, <1>3, <1>4 DEF KindInv
<1>6. PassInv'
  BY <1>1, <1>2, Elsewhere
<1>7. VerdictInv'
  BY <1>1, <1>2, <1>3, <1>4 DEF VerdictInv
<1>8. FoundInv' /\ FactInv'
  BY <1>1, <1>2, <1>4 DEF FoundInv, FactInv, TreeOf, Open
<1> QED
  BY <1>4, <1>5, <1>6, <1>7, <1>8 DEF LineageInv

\* Every step of the lineages keeps the invariant, and heads go forward.
LEMMA AuthoringStep ==
  ASSUME LineageInv, AuthoringNext, ~crossed'
  PROVE  LineageInv' /\ Grows /\ HeadsForward
<1> DEFINE Goal == LineageInv' /\ Grows /\ HeadsForward
<1>1. DOMAIN pass = Writing
  BY DEF LineageInv, KindInv
<1>2. CASE Author
  BY <1>2, WriteStep
<1>3. ASSUME NEW a \in Agents, Remember(a) \/ Accept(a) \/ Move(a) \/ Delete(a) \/ Reject(a) \/ VerdictDies(a)
      PROVE  Goal
  BY <1>3, WriteStep, AcceptStep, MoveStep, GoneStep, VerdictDiesStep
<1>4. ASSUME NEW r \in Reviewers, Stage(r) \/ \E a \in Agents \ Reviewers : Review(r, a)
      PROVE  Goal
  BY <1>4, StageStep, ReviewStep
<1>5. ASSUME NEW p \in Writing,
             Heal(p) \/ Materialize(p) \/ Edit(p) \/ Commit(p) \/ Land(p) \/ Die(p)
      PROVE  Goal
  BY <1>5, HealStep, MaterializeStep, EditStep, CommitStep, LandDieStep
<1> QED
  BY <1>1, <1>2, <1>3, <1>4, <1>5 DEF AuthoringNext

\* A workspace is born with its invariant.
LEMMA AuthoringStarts ==
  AuthoringInit => LineageInv
<1> SUFFICES ASSUME AuthoringInit PROVE LineageInv
  OBVIOUS
<1> DEFINE Kind == [parent : Nat, line : SUBSET Nat, tree : SUBSET Facts]
           first == [parent |-> NoCommit, line |-> {1}, tree |-> {}]
<1>1. commits = <<first>> /\ first \in Kind
  BY DEF AuthoringInit
<1> HIDE DEF Kind
<1>2. commits \in Seq(Kind) /\ Len(commits) = 1 /\ commits[1] = first /\ Commits = {1}
  BY <1>1 DEF Commits
<1>3. refs \in [Names \cup Agents -> 0..1] /\ refs[Default] = 1 /\ \A a \in Agents : refs[a] = NoCommit
  BY NamesAssumption DEF AuthoringInit
<1>4. \A p \in Writing : ~Open(p)
  BY DEF AuthoringInit, Open, NoPass, Writing
<1>5. \A a \in Agents : verdict[a].at = "off"
  BY DEF AuthoringInit, NoVerdict
<1>6. InLine(1)
  <2>1. 1 \in Heads
    BY <1>3, NamesAssumption DEF Heads
  <2> QED
    BY <1>2, <2>1 DEF InLine
<1>7. KindInv
  <2>1. checkout \in [ref : Names \cup Agents \cup {"none"}, base : Nat, files : SUBSET Facts]
    BY DEF AuthoringInit, NoCheckout
  <2>2. pass \in [Writing -> PassRecords]
    BY DEF AuthoringInit, NoPass, PassRecords, Writing
  <2>3. verdict \in [Agents -> VerdictRecords]
    BY DEF AuthoringInit, NoVerdict, VerdictRecords
  <2>4. config \in [Agents -> Commits] /\ readmark \in [Reviewers -> 0..1]
    BY <1>2 DEF AuthoringInit
  <2> QED
    BY <1>2, <1>3, <2>1, <2>2, <2>3, <2>4 DEF KindInv, Kind
<1>8. LineInv
  BY <1>2 DEF LineInv
<1>9. PassInv /\ VerdictInv
  BY <1>4, <1>5 DEF PassInv, VerdictInv, Open, Live
<1>10. FoundInv /\ FactInv
  BY <1>3, <1>4, <1>6 DEF FoundInv, FactInv, AuthoringInit, Writing
<1> QED
  BY <1>7, <1>8, <1>9, <1>10 DEF LineageInv

-----------------------------------------------------------------------------
(* Retargets.                                                              *)

\* A step of the lineages leaves what retargets rest on.
LEMMA MarksStand ==
  ASSUME LineageInv, MarkInv, LineageInv', Grows, HeadsForward, UNCHANGED agentvars,
         \A a \in Moved : config'[a] = config[a]
  PROVE  MarkInv'
<1>1. KindInv /\ LineInv /\ KindInv' /\ LineInv'
  BY DEF LineageInv
<1>2. \A c : InLine(c) => InLine(c)'
  BY <1>1, Onward
<1>3. UNCHANGED <<mark, settled, ran, verb>>
  BY DEF agentvars
<1>4. Len(commits) \in Nat /\ Len(commits') \in Nat /\ Len(commits) <= Len(commits')
  <2>1. Len(commits) \in Nat /\ Len(commits') \in Nat
    BY <1>1 DEF KindInv
  <2>2. Len(commits) = 0 \/ Len(commits) \in 1..Len(commits')
    BY <2>1 DEF Grows, Commits
  <2> QED
    BY <2>1, <2>2
<1>5. 0..Len(commits) \subseteq 0..Len(commits')
  BY <1>4
<1>6. {mark, settled, ran} \subseteq [Moved -> 0..Len(commits)] /\ verb.commit \in 0..Len(commits)
  BY DEF MarkInv
<1>7. {mark', settled', ran'} \subseteq [Moved -> 0..Len(commits')] /\ verb'.commit \in 0..Len(commits')
  BY <1>3, <1>5, <1>6
<1>8. \A a \in Moved : ran[a] # NoCommit => commits'[ran[a]] = commits[ran[a]]
  BY <1>4, <1>6 DEF Grows, Commits
<1>9. ASSUME NEW a \in Moved
      PROVE  /\ mark'[a] # NoCommit => InLine(mark[a])'
             /\ settled'[a] # NoCommit => settled'[a] = config'[a]
             /\ ran'[a] # NoCommit => InLine(ran[a])' /\ config'[a] \in commits'[ran'[a]].line
  <2>1. /\ mark[a] # NoCommit => InLine(mark[a])
        /\ settled[a] # NoCommit => settled[a] = config[a]
        /\ ran[a] # NoCommit => InLine(ran[a]) /\ config[a] \in commits[ran[a]].line
    BY DEF MarkInv
  <2>2. mark[a] # NoCommit => InLine(mark[a])'
    <3>1. ASSUME NEW c, c = mark[a], InLine(c)' PROVE InLine(mark[a])'
      BY <1>3, <3>1 DEF InLine
    <3> QED
      BY <1>2, <2>1, <3>1
  <2>3. ran[a] # NoCommit => InLine(ran[a])'
    <3>1. ASSUME NEW c, c = ran[a], InLine(c)' PROVE InLine(ran[a])'
      BY <1>3, <3>1 DEF InLine
    <3> QED
      BY <1>2, <2>1, <3>1
  <2> QED
    BY <1>3, <1>8, <2>1, <2>2, <2>3
<1>10. verb'.commit # NoCommit => InLine(verb.commit)'
  <2>1. verb.commit # NoCommit => InLine(verb.commit)
    BY DEF MarkInv
  <2>2. ASSUME NEW c, c = verb.commit, InLine(c)' PROVE InLine(verb.commit)'
    BY <1>3, <2>2 DEF InLine
  <2> QED
    BY <1>2, <1>3, <2>1, <2>2
<1> QED
  BY <1>7, <1>9, <1>10 DEF MarkInv

\* A commit in a line, or none.
LEMMA InLineKind ==
  ASSUME KindInv, LineInv, NEW c, InLine(c)
  PROVE  c \in Commits /\ c \in 0..Len(commits) /\ c # NoCommit
<1>1. PICK h \in Heads : c \in commits[h].line
  BY DEF InLine
<1>2. c \in Commits /\ Len(commits) \in Nat
  BY <1>1, HeadFacts, LineFacts DEF KindInv
<1> QED
  BY <1>2 DEF Commits

\* What a landing founds an agent on.
LEMMA TargetFacts ==
  ASSUME LineageInv, MarkInv, NEW a \in Moved
  PROVE  /\ Target(a) \in Commits /\ InLine(Target(a)) /\ Target(a) \in 0..Len(commits)
         /\ Followed(config[a]) \in 0..Len(commits) /\ InLine(Followed(config[a]))
         /\ config[a] \in commits[Followed(config[a])].line
<1>1. KindInv /\ LineInv /\ a \in Agents
  BY MovedAssumption DEF LineageInv
<1>2. InLine(config[a]) /\ config[a] \in Commits
  BY <1>1 DEF LineageInv, FoundInv, KindInv
<1>3. InLine(Followed(config[a])) /\ config[a] \in commits[Followed(config[a])].line
  BY <1>1, <1>2, FollowedFacts
<1>4. InLine(Target(a))
  BY <1>3 DEF Target, MarkInv
<1> QED
  BY <1>1, <1>3, <1>4, InLineKind

\* The steps of retargets keep both invariants.
LEMMA RetargetStep ==
  ASSUME LineageInv, MarkInv, RetargetNext
  PROVE  LineageInv' /\ MarkInv' /\ HeadsForward
<1>1. KindInv /\ LineInv /\ FoundInv
  BY DEF LineageInv
<1>2. UNCHANGED <<commits, refs, checkout, pass, verdict, proposed, readmark>>
  BY DEF RetargetNext, MarkCommit, MarkRole, Retarget, SwitchWorkflow, PickModel, Consume,
         ClearCommit, ClearRole, LandingDies, Step, Asks, authored
<1>3. LineInv' /\ Grows /\ HeadsForward /\ Heads' = Heads /\ Commits' = Commits
      /\ \A c : InLine(c) <=> InLine(c)'
  BY <1>1, <1>2, Still
<1>4. /\ {mark, settled, ran} \subseteq [Moved -> 0..Len(commits)] /\ NoCommit \in 0..Len(commits)
      /\ verb.commit \in 0..Len(commits) /\ (verb.commit # NoCommit => InLine(verb.commit))
  BY <1>1 DEF MarkInv, KindInv
<1>5. CASE \E a \in Moved : Consume(a) /\ Reforks(a)
  <2>1. PICK a \in Moved : Consume(a) /\ Reforks(a)
    BY <1>5
  <2>2. /\ config' = [config EXCEPT ![a] = Target(a)] /\ settled' = [settled EXCEPT ![a] = Target(a)]
        /\ ran' = [ran EXCEPT ![a] = NoCommit] /\ UNCHANGED <<mark, verb>>
    BY <2>1 DEF Consume, Reforks, Founds
  <2>3. Target(a) \in Commits /\ InLine(Target(a)) /\ Target(a) \in 0..Len(commits) /\ a \in Agents
    BY <2>1, TargetFacts, MovedAssumption
  <2>4. config' \in [Agents -> Commits] /\ (\A b \in Agents : InLine(config'[b])) /\ config'[a] = Target(a)
        /\ \A b \in Agents : b # a => config'[b] = config[b]
    BY <1>1, <2>2, <2>3 DEF KindInv, FoundInv
  <2>5. LineageInv'
    BY <1>1, <1>2, <2>4, ReadStep DEF FoundInv, KindInv
  <2>6. {mark', settled', ran'} \subseteq [Moved -> 0..Len(commits)]
        /\ settled'[a] = Target(a) /\ ran'[a] = NoCommit
        /\ \A b \in Moved : b # a => settled'[b] = settled[b] /\ ran'[b] = ran[b]
    BY <1>4, <2>1, <2>2, <2>3
  <2>7. MarkInv'
    BY <1>2, <1>3, <2>2, <2>4, <2>6, MovedAssumption DEF MarkInv
  <2> QED
    BY <1>3, <2>5, <2>7
<1>6. CASE ~\E a \in Moved : Consume(a) /\ Reforks(a)
  <2>1. UNCHANGED <<config, settled>>
    BY <1>6 DEF RetargetNext, MarkCommit, MarkRole, Retarget, SwitchWorkflow, PickModel, Consume,
                ClearCommit, ClearRole, LandingDies, Step, Asks
  <2>2. LineageInv'
    BY <1>1, <1>2, <2>1, ReadStep DEF FoundInv, KindInv
  <2>3. /\ verb'.commit \in 0..Len(commits) /\ (verb'.commit # NoCommit => InLine(verb'.commit))
        /\ mark' \in [Moved -> 0..Len(commits)]
        /\ \A a \in Moved : mark'[a] # NoCommit => InLine(mark'[a])
    <3>1. CASE \E a \in Moved : Retarget(a)
      <4>1. PICK a \in Moved, n \in Names, r \in Roles : Exists(n) /\ verb' = Wanted(a, n, r)
        BY <3>1 DEF Retarget
      <4>2. refs[n] \in 0..Len(commits) /\ refs[n] # NoCommit
        BY <1>1, <4>1 DEF Exists, KindInv
      <4>3. InLine(refs[n])
        <5>1. refs[n] \in Heads
          BY <4>1, <4>2 DEF Heads
        <5>2. refs[n] \in Commits
          BY <1>1, <5>1, HeadFacts
        <5> QED
          BY <1>1, <5>1, <5>2 DEF InLine, LineInv
      <4>4. verb'.commit \in {NoCommit, refs[n]} /\ UNCHANGED mark
        BY <3>1, <4>1 DEF Wanted, Retarget
      <4> QED
        BY <1>4, <4>2, <4>3, <4>4 DEF MarkInv
    <3>2. CASE MarkCommit
      <4>1. verb'.commit = verb.commit \/ verb'.commit = NoCommit
        BY <3>2 DEF MarkCommit, MarkInv
      <4>2. \/ mark' = mark
            \/ mark' = [mark EXCEPT ![verb.agent] = verb.commit] /\ verb.commit # NoCommit
        BY <3>2 DEF MarkCommit
      <4> QED
        BY <1>4, <4>1, <4>2 DEF MarkInv
    <3>3. CASE MarkRole
      BY <1>4, <3>3 DEF MarkRole, MarkInv, NoVerb
    <3>4. CASE \E a \in Moved : ClearCommit(a)
      BY <1>4, <3>4 DEF ClearCommit, MarkInv
    <3>5. CASE UNCHANGED <<mark, verb>>
      BY <1>4, <3>5 DEF MarkInv
    <3> QED
      BY <3>1, <3>2, <3>3, <3>4, <3>5
      DEF RetargetNext, SwitchWorkflow, PickModel, Consume, ClearRole, LandingDies, Step
  <2>4. /\ ran' \in [Moved -> 0..Len(commits)]
        /\ \A a \in Moved : ran'[a] # NoCommit => InLine(ran'[a]) /\ config[a] \in commits[ran'[a]].line
    <3>1. CASE \E a \in Moved : Step(a)
      <4>1. PICK a \in Moved : Step(a)
        BY <3>1
      <4>2. ran' = [ran EXCEPT ![a] = Followed(config[a])]
        BY <4>1 DEF Step
      <4>3. /\ Followed(config[a]) \in 0..Len(commits) /\ InLine(Followed(config[a]))
            /\ config[a] \in commits[Followed(config[a])].line
        BY <4>1, TargetFacts
      <4> QED
        BY <1>4, <4>2, <4>3 DEF MarkInv
    <3>2. CASE UNCHANGED ran
      BY <1>4, <3>2 DEF MarkInv
    <3> QED
      BY <1>6, <3>1, <3>2
      DEF RetargetNext, MarkCommit, MarkRole, Retarget, SwitchWorkflow, PickModel, Consume,
          ClearCommit, ClearRole, LandingDies
  <2>5. MarkInv'
    BY <1>2, <1>3, <1>4, <2>1, <2>3, <2>4 DEF MarkInv
  <2> QED
    BY <1>3, <2>2, <2>5
<1> QED
  BY <1>5, <1>6

\* Retargets start with nothing marked.
LEMMA RetargetStarts ==
  Init => LineageInv /\ MarkInv
<1> SUFFICES ASSUME Init PROVE LineageInv /\ MarkInv
  OBVIOUS
<1>1. LineageInv
  BY AuthoringStarts DEF Init
<1>2. NoCommit \in 0..Len(commits)
  BY <1>1 DEF LineageInv, KindInv
<1>3. MarkInv
  BY <1>2 DEF Init, MarkInv, NoVerb
<1> QED
  BY <1>1, <1>3

\* Every step that does not cross another keeps both invariants, and
\* lineages go forward.
LEMMA LineageStep ==
  ASSUME LineageInv, MarkInv, [Next]_vars, ~crossed'
  PROVE  LineageInv' /\ MarkInv' /\ HeadsForward
<1>1. CASE AuthoringNext /\ UNCHANGED agentvars
  <2>1. LineageInv' /\ Grows /\ HeadsForward
    BY <1>1, AuthoringStep
  <2>2. \A a \in Moved : config'[a] = config[a]
    <3>1. CASE UNCHANGED config
      BY <3>1
    <3>2. CASE \E r \in Reviewers, a \in Agents : Review(r, a)
      <4>1. PICK r \in Reviewers, a \in Agents : config' = [config EXCEPT ![r] = config[a]]
        BY <3>2 DEF Review
      <4> QED
        BY <4>1, MovedAssumption, AgentsAssumption DEF LineageInv, KindInv
    <3> QED
      BY <1>1, <3>1, <3>2
      DEF AuthoringNext, Author, Remember, Stage, Accept, Move, Delete, Reject, VerdictDies, Begin,
          Heal, Materialize, Edit, Drop, Commit, Land, Die
  <2> QED
    BY <1>1, <2>1, <2>2, MarksStand
<1>2. CASE RetargetNext
  BY <1>2, RetargetStep
<1>3. CASE UNCHANGED vars
  <2>1. UNCHANGED <<commits, refs, checkout, pass, verdict, proposed, config, readmark, agentvars>>
    BY <1>3 DEF vars, authored
  <2>2. KindInv /\ FoundInv /\ LineInv
    BY DEF LineageInv
  <2>3. LineageInv' /\ Grows /\ HeadsForward
    BY <2>1, <2>2, ReadStep DEF KindInv, FoundInv
  <2> QED
    BY <2>1, <2>3, MarksStand
<1> QED
  BY <1>1, <1>2, <1>3 DEF Next

\* What has been crossed stays so.
LEMMA CrossedStays ==
  ASSUME [Next]_vars, crossed
  PROVE  crossed'
<1>1. crossed' = crossed \/ \E x \in BOOLEAN : crossed' = (crossed \/ x)
  <2>1. CASE AuthoringNext
    <3>1. CASE UNCHANGED crossed
      BY <3>1
    <3>2. CASE \E p \in DOMAIN pass : Heal(p)
      BY <3>2 DEF Heal, Crossing
    <3>3. CASE \E a \in Agents : Move(a) \/ Delete(a) \/ Reject(a)
      BY <3>3 DEF Move, Delete, Reject, Crossing
    <3> QED
      BY <2>1, <3>1, <3>2, <3>3
      DEF AuthoringNext, Author, Remember, Review, Stage, Accept, VerdictDies, Begin, Materialize,
          Edit, Drop, Commit, Land, Die, authored
  <2>2. CASE RetargetNext
    BY <2>2 DEF RetargetNext, MarkCommit, MarkRole, Retarget, SwitchWorkflow, PickModel, Consume,
                ClearCommit, ClearRole, LandingDies, Step, Asks, authored
  <2>3. CASE UNCHANGED vars
    BY <2>3 DEF vars, authored
  <2> QED
    BY <2>1, <2>2, <2>3 DEF Next
<1> QED
  BY <1>1

\* The inductive invariant, for the theorems below.
LEMMA LineageAlways ==
  Spec => [](~crossed => LineageInv /\ MarkInv)
<1> DEFINE Inv == ~crossed => LineageInv /\ MarkInv
<1>1. Init => Inv
  BY RetargetStarts
<1>2. Inv /\ [Next]_vars => Inv'
  BY LineageStep, CrossedStays
<1> QED
  BY <1>1, <1>2, PTL DEF Spec

\* FactsKept: until an act has crossed another, however passes and verdicts
\* overlap, a fact that an agent was told is proposed is in its proposal or
\* in a lineage until the operator rejects it, and every proposal stands on a
\* commit of a lineage (stage_proposal, remember, Drop of a failed pass,
\* accept).
THEOREM ProposedFactsKept ==
  Spec => []FactsKept
<1>1. (~crossed => LineageInv /\ MarkInv) => FactsKept
  BY DEF LineageInv, FactInv, FoundInv, FactsKept, InLine, IsAncestor
<1> QED
  BY <1>1, LineageAlways, PTL

\* LandedWhere: until an act has crossed another, an agent that was
\* retargeted reads the commit it was moved to, or one that has it in its
\* line (base::commit, config_lineage, current_config), whatever is written
\* afterwards.
THEOREM RetargetedReads ==
  Spec => []LandedWhere
<1>1. (~crossed => LineageInv /\ MarkInv) => LandedWhere
  <2> SUFFICES ASSUME LineageInv, MarkInv, NEW a \in Moved, settled[a] # NoCommit
               PROVE  IsAncestor(settled[a], Followed(config[a]))
    BY DEF LandedWhere
  <2>1. settled[a] = config[a]
    BY DEF MarkInv
  <2> QED
    BY <2>1, TargetFacts DEF IsAncestor
<1> QED
  BY <1>1, LineageAlways, PTL

\* OnlyForward: but for a step by which an act crosses another, and what
\* comes after it, a lineage's head moves only to a commit that has it in its
\* line, none is deleted with a commit of its own on it (accept's
\* compare-and-swap, the branch -D of a failed pass); and from one step to
\* the next an agent nobody retargets goes along one line (current_config).
THEOREM LineagesGoForward ==
  Spec => OnlyForward
<1> DEFINE Along == \A a \in Moved : (ran[a] # NoCommit /\ ran'[a] # NoCommit) =>
                        IsAncestor(ran[a], ran'[a]) \/ IsAncestor(ran'[a], ran[a])
<1>1. LineageInv /\ MarkInv /\ [Next]_vars => Along
  <2> SUFFICES ASSUME LineageInv, MarkInv, [Next]_vars, NEW a \in Moved,
                      ran[a] # NoCommit, ran'[a] # NoCommit
               PROVE  IsAncestor(ran[a], ran'[a]) \/ IsAncestor(ran'[a], ran[a])
    OBVIOUS
  <2>1. KindInv /\ LineInv /\ FoundInv /\ a \in Agents
    BY MovedAssumption DEF LineageInv
  <2>2. InLine(ran[a]) /\ ran[a] \in Commits /\ config[a] \in commits[ran[a]].line
    BY <2>1, InLineKind DEF MarkInv
  <2>3. CASE ran'[a] = ran[a]
    BY <2>1, <2>2, <2>3 DEF IsAncestor, LineInv
  <2>4. CASE ran'[a] = Followed(config[a])
    <3>1. InLine(config[a]) /\ config[a] \in Commits
      BY <2>1 DEF FoundInv, KindInv
    <3>2. \/ Followed(config[a]) = config[a]
          \/ \A h \in Heads : config[a] \in commits[h].line => h = Followed(config[a])
      BY <2>1, <3>1, FollowedFacts
    <3>3. PICK h \in Heads : ran[a] \in commits[h].line
      BY <2>2 DEF InLine
    <3>4. config[a] \in commits[h].line
      BY <2>1, <2>2, <3>3, HeadFacts, LineFacts
    <3> QED
      BY <2>2, <2>4, <3>2, <3>3, <3>4 DEF IsAncestor
  <2>5. ran' \in {ran} \/ \E b \in Moved : ran' = [ran EXCEPT ![b] = Followed(config[b])]
                      \/ ran' = [ran EXCEPT ![b] = NoCommit]
    BY DEF Next, RetargetNext, MarkCommit, MarkRole, Retarget, SwitchWorkflow, PickModel, Consume,
           Reforks, ClearCommit, ClearRole, LandingDies, Step, agentvars, vars
  <2>6. ran \in [Moved -> 0..Len(commits)]
    BY DEF MarkInv
  <2> QED
    BY <2>3, <2>4, <2>5, <2>6
<1> HIDE DEF Along
<1> DEFINE Inv == ~crossed => LineageInv /\ MarkInv
           Onwards == ~crossed' => HeadsForward /\ Along
<1>2. Inv /\ [Next]_vars => [Onwards]_vars
  BY <1>1, LineageStep, CrossedStays
<1>3. Onwards <=>
      (~crossed' =>
         /\ HeadsForward
         /\ \A a \in Moved :
              LET old == ran[a] new == ran'[a]
              IN (old # NoCommit /\ new # NoCommit) => IsAncestor(old, new) \/ IsAncestor(new, old))
  BY DEF Along
<1> HIDE DEF Onwards
<1>4. Spec => [][Onwards]_vars
  BY <1>2, LineageAlways, PTL DEF Spec
<1> QED
  BY <1>3, <1>4, PTL DEF OnlyForward
=============================================================================
