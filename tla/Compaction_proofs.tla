-------------------------- MODULE Compaction_proofs --------------------------
(***************************************************************************)
(* Theorems about Compaction.                                              *)
(***************************************************************************)
EXTENDS Compaction, FiniteSetTheorems, SequenceTheorems, TLAPS

-----------------------------------------------------------------------------
(* Finite sets of numbers.  The library's induction theorems range over an *)
(* operator; the order of finite sets by inclusion, which ranges over a    *)
(* set, gives the same.                                                    *)

LEMMA Minimal ==
  ASSUME NEW D, IsFiniteSet(D), NEW F, F \subseteq SUBSET D, F # {}
  PROVE  \E U \in F : \A V \in F : V \subseteq U => V = U
<1>1. IsWellFoundedOn(StrictSubsetOrdering(D), SUBSET D)
  BY FS_StrictSubsetOrderingWellFounded, FS_FiniteSubsetsOfFinite
<1>2. PICK U \in F : \A V \in F : <<V, U>> \notin StrictSubsetOrdering(D)
  BY <1>1, WFMin
<1>3. ASSUME NEW V \in F, V \subseteq U, V # U PROVE FALSE
  BY <1>2, <1>3 DEF StrictSubsetOrdering
<1> QED BY <1>3

\* A finite set of numbers that is not empty has a greatest element.
LEMMA GreatestIsOne ==
  ASSUME NEW S, S \subseteq Nat, IsFiniteSet(S), S # {}
  PROVE  /\ Greatest(S) \in S
         /\ \A m \in S : m <= Greatest(S)
<1>1. PICK F : F = {{y \in S : x <= y} : x \in S} OBVIOUS
<1>2. F \subseteq SUBSET S /\ F # {} BY <1>1
<1>3. PICK U \in F : \A V \in F : V \subseteq U => V = U
  <2>1. PICK N : N = S OBVIOUS
  <2>2. IsFiniteSet(N) /\ F \subseteq SUBSET N /\ F # {} BY <1>2, <2>1
  <2> QED BY <2>2, Minimal
<1>4. PICK x \in S : U = {y \in S : x <= y} BY <1>1, <1>3
<1>5. ASSUME NEW z \in S, x < z PROVE FALSE
  <2>1. x \in Nat /\ z \in Nat OBVIOUS
  <2>2. PICK V : V = {y \in S : z <= y} OBVIOUS
  <2>3. V \subseteq U
    <3>1. \A y \in S : z <= y => x <= y BY <2>1, <1>5
    <3> QED BY <3>1, <2>2, <1>4
  <2>4. V \in F BY <2>2, <1>1
  <2>5. V = U BY <2>3, <2>4, <1>3
  <2>6. x \in U BY <1>4, <2>1
  <2>7. x \notin V BY <2>1, <2>2, <1>5
  <2> QED BY <2>5, <2>6, <2>7
<1>6. \A m \in S : m <= x
  <2>1. \A m \in S : ~(x < m) BY <1>5
  <2>2. x \in Nat OBVIOUS
  <2> QED BY <2>1, <2>2
<1> QED BY <1>6 DEF Greatest

\* Induction over the numbers, for a set of them.
LEMMA SetInduction ==
  ASSUME NEW S, 0 \in S, \A n \in Nat : n \in S => n + 1 \in S
  PROVE  Nat \subseteq S
<1>1. SUFFICES ASSUME NEW n \in Nat, n \notin S PROVE FALSE OBVIOUS
<1>2. PICK N : N = (0 .. n) \ S OBVIOUS
<1>3. IsFiniteSet(N)
  <2>1. IsFiniteSet(0 .. n) BY FS_Interval
  <2> QED BY <2>1, <1>2, FS_Difference
<1>4. n \in N /\ N \subseteq Nat BY <1>1, <1>2
<1>5. PICK F : F = {{y \in N : y <= x} : x \in N} OBVIOUS
<1>6. F \subseteq SUBSET N /\ F # {} BY <1>4, <1>5
<1>7. PICK U \in F : \A V \in F : V \subseteq U => V = U
  BY <1>3, <1>6, Minimal
<1>8. PICK x \in N : U = {y \in N : y <= x} BY <1>5, <1>7
<1>9. x \in Nat /\ x # 0 /\ x <= n BY <1>2, <1>8
<1>10. x - 1 \in Nat /\ (x - 1) + 1 = x /\ x - 1 <= n BY <1>9
<1>11. x - 1 \notin S BY <1>2, <1>8, <1>10
<1>12. x - 1 \in N BY <1>2, <1>10, <1>11
<1>13. PICK V : V = {y \in N : y <= x - 1} OBVIOUS
<1>14. V \subseteq U
  <2>1. \A y \in N : y <= x - 1 => y <= x BY <1>4, <1>9
  <2> QED BY <2>1, <1>13, <1>8
<1>15. V \in F BY <1>5, <1>12, <1>13
<1>16. V = U BY <1>14, <1>15, <1>7
<1>17. x \in U BY <1>8, <1>9
<1>18. x \notin V BY <1>9, <1>13
<1> QED BY <1>16, <1>17, <1>18

-----------------------------------------------------------------------------
(* The types.                                                              *)

Contents == [kind : Kinds, tag : Nat, about : SUBSET Nat]
Trees == UNION {[D -> Contents] : D \in {E \in SUBSET Paths : IsFiniteSet(E)}}
Subjects == {"founding", "entry", "base", "transfer"}
Commits == [subject : Subjects, by : Nat, tree : Trees]
Epitaphs == {"running", "final-response", "died"}
ChildRecords == [role : {"compactor", "worker"}, past : Seq(Commits), founded : Trees,
                 tip : Trees, tools : Nat, epitaph : Epitaphs]

\* A tree speaks of the first n entries only.
Known(tree, n) ==
    \A p \in DOMAIN tree :
        /\ tree[p].about \subseteq 1 .. n
        /\ p[1] = "msg" => tree[p].tag \in 1 .. n

\* The entries, the summaries and the notes of a tree stay in a later one.
Stays(tree, later) ==
    \A p \in DOMAIN tree : p[1] # "work" => p \in DOMAIN later /\ later[p] = tree[p]

-----------------------------------------------------------------------------
(* The invariant behind the types and the account.                         *)

HasGoal(tree) == FileAt(tree, Msg(1)).kind = "goal"

LineOK(line, n) ==
    /\ line \in Seq(Commits) /\ Len(line) > 1
    /\ line[1].subject = "founding"
    /\ \A i \in 1 .. Len(line) : Known(line[i].tree, n)
    /\ \A i \in 2 .. Len(line) : HasGoal(line[i].tree)

BranchInv == LineOK(branch, authored) /\ Bases(branch) \subseteq DOMAIN children

\* What a compactor's tools leave of the tree it was founded on.
PassInv(child) ==
    /\ Len(child.past) > 1
    /\ child.founded = CompactorTree(TreeOf(child.past))
    /\ \A p \in DOMAIN child.tip \ DOMAIN child.founded :
          /\ p[1] = "sum" /\ child.tip[p].kind = "summary"
          /\ child.tip[p].about = Tags(child.founded) \cup Covered(child.founded)
    /\ \A p \in DOMAIN child.founded \ DOMAIN child.tip :
          p # Msg(1) /\ child.founded[p].kind \in Sheddable

ChildInv ==
    /\ children \in Seq(ChildRecords)
    /\ \A c \in DOMAIN children :
          /\ Known(children[c].founded, authored) /\ Known(children[c].tip, authored)
          /\ IsCompactor(c) => PassInv(children[c])
          /\ Bases(children[c].past) \subseteq (1 .. c - 1) \cap Bases(branch)

\* Each returned child has at most one result in the inbox, and the hop's
\* list is of these.
QueueInv ==
    /\ inbox \in Seq(Nat) /\ listed \in Seq(Nat)
    /\ \A i \in DOMAIN inbox : inbox[i] \in DOMAIN children /\ ~Running(inbox[i])
    /\ \A i, j \in DOMAIN inbox : inbox[i] = inbox[j] => i = j
    /\ \A i \in DOMAIN listed : \E j \in DOMAIN inbox : inbox[j] = listed[i]
    /\ \A i, j \in DOMAIN listed : listed[i] = listed[j] => i = j

CountInv ==
    /\ keep \in Nat /\ hop \in {"boundary", "interpret", "flush"}
    /\ authored \in Nat \ {0} /\ arrivals \in Nat /\ steps \in Nat /\ crashes \in Nat
    /\ conflicted \subseteq DOMAIN children /\ shed \subseteq 1 .. authored

LineInv == BranchInv /\ ChildInv /\ QueueInv /\ CountInv

-----------------------------------------------------------------------------
(* The invariant behind the windows.                                       *)

\* A later transcript: the entries of the tree as they were, and new ones
\* after them.
Follows(tree, later) ==
    /\ \A n \in EntriesIn(tree) : n \in EntriesIn(later) /\ later[Msg(n)] = tree[Msg(n)]
    /\ \A n \in EntriesIn(later) \ EntriesIn(tree) : \A m \in EntriesIn(tree) : m < n

\* Entry n is in the window of the output m.
InWindowOf(tree, m, n) ==
    m < n /\ \A o \in EntriesOf(tree, "output") : ~(m < o /\ o < n)

\* The output m has a result for each of its calls, in its window.
Settled(tree, m) ==
    \A t \in tree[Msg(m)].about :
        \E n \in EntriesOf(tree, "result") : t \in tree[Msg(n)].about /\ InWindowOf(tree, m, n)
AllSettled(tree) == \A m \in EntriesOf(tree, "output") : Settled(tree, m)

\* Each result is of a call of its window's output, no call has two, and
\* every window but the last has them all.
Windowed(tree) ==
    /\ \A n \in EntriesOf(tree, "result") : \A t \in tree[Msg(n)].about :
          \E m \in EntriesOf(tree, "output") :
              t \in tree[Msg(m)].about /\ InWindowOf(tree, m, n)
    /\ \A n, k \in EntriesOf(tree, "result") :
          tree[Msg(n)].about \cap tree[Msg(k)].about # {} => n = k
    /\ \A m \in EntriesOf(tree, "output") :
          Settled(tree, m) \/ \A o \in EntriesOf(tree, "output") : o <= m

\* Some result of the tree is at or after each entry of another tree.
ResultAfter(tree, point) ==
    \E n \in EntriesOf(tree, "result") : \A m \in EntriesIn(point) : m <= n

\* The branch parted from the child's past, or a landing sits after it:
\* superseded, in a form that no commit on the tip undoes.
Overtaken(c) ==
    \/ \E i \in 1 .. Point(c) : i <= Len(branch) /\ children[c].past[i] # branch[i]
    \/ \E i \in Point(c) + 1 .. Len(branch) : branch[i].subject = "base"

WindowInv ==
    /\ \A i \in 2 .. Len(branch) :
          branch[i].subject = "base" \/ Follows(branch[i - 1].tree, branch[i].tree)
    /\ \A i \in 1 .. Len(branch) : Windowed(branch[i].tree)
    /\ AllSettled(HEAD)
    /\ hop = "flush" => ResultAfter(HEAD, HEAD)
    /\ \A c \in OfRole("compactor") :
          /\ AnsweredBy(children[c].founded) = CalledBy(children[c].founded)
          /\ Overtaken(c) \/ ResultAfter(HEAD, TreeOf(children[c].past))

-----------------------------------------------------------------------------
(* Trees.                                                                  *)

LEMMA TreeDef ==
  ASSUME NEW t \in Trees
  PROVE  /\ DOMAIN t \subseteq Paths /\ IsFiniteSet(DOMAIN t)
         /\ \A p \in DOMAIN t : t[p] \in Contents
         /\ t = [p \in DOMAIN t |-> t[p]]
<1>1. PICK D \in SUBSET Paths : IsFiniteSet(D) /\ t \in [D -> Contents] BY DEF Trees
<1> QED BY <1>1

LEMMA TreeIntro ==
  ASSUME NEW D \in SUBSET Paths, IsFiniteSet(D), NEW t \in [D -> Contents]
  PROVE  t \in Trees
BY DEF Trees

LEMMA ContentType ==
  ASSUME NEW kind \in Kinds, NEW tag \in Nat, NEW about \in SUBSET Nat
  PROVE  Content(kind, tag, about) \in Contents
BY DEF Content, Contents

LEMMA CommitType ==
  ASSUME NEW subject \in Subjects, NEW by \in Nat, NEW t \in Trees
  PROVE  /\ Commit(subject, by, t) \in Commits
         /\ Commit(subject, by, t).tree = t
         /\ Commit(subject, by, t).subject = subject
         /\ Commit(subject, by, t).by = by
BY DEF Commit, Commits

LEMMA PathFacts ==
  /\ \A n : Msg(n)[1] = "msg" /\ Msg(n)[2] = n
  /\ \A n : Sum(n)[1] = "sum" /\ Sum(n)[2] = n
  /\ \A n : Work(n)[1] = "work" /\ Work(n)[2] = n
  /\ \A n \in Nat \ {0} : Msg(n) \in Paths /\ Sum(n) \in Paths
  /\ \A n \in Nat : Work(n) \in Paths
  /\ \A p \in Paths : p[2] \in Nat /\ p[1] \in {"msg", "sum", "work"}
  /\ \A p \in Paths : p[1] = "msg" => p = Msg(p[2]) /\ p[2] # 0
  /\ \A p \in Paths : p[1] = "sum" => p = Sum(p[2]) /\ p[2] # 0
  /\ \A p \in Paths : p[1] = "work" => p = Work(p[2])
BY DEF Msg, Sum, Work, Paths

\* The transcript of a tree.
LEMMA EntryFacts ==
  ASSUME NEW t \in Trees
  PROVE  /\ EntriesIn(t) \subseteq Nat \ {0}
         /\ \A n : n \in EntriesIn(t) <=> Msg(n) \in DOMAIN t
<1>1. DOMAIN t \subseteq Paths BY TreeDef
<1>2. \A n : Msg(n) \in DOMAIN t => n \in EntriesIn(t)
  BY PathFacts DEF EntriesIn, Numbers, InDir
<1>3. ASSUME NEW n \in EntriesIn(t) PROVE n \in Nat \ {0} /\ Msg(n) \in DOMAIN t
  <2>1. PICK p \in DOMAIN t : p[1] = "msg" /\ n = p[2]
    BY <1>3 DEF EntriesIn, Numbers, InDir
  <2>2. p \in Paths BY <1>1
  <2>3. p = Msg(p[2]) /\ p[2] # 0 /\ p[2] \in Nat BY <2>1, <2>2, PathFacts
  <2> QED BY <2>1, <2>3
<1> QED BY <1>2, <1>3

\* The paths of a directory are as many as the tree has, and no more.
LEMMA NumbersFinite ==
  ASSUME NEW t \in Trees, NEW dir
  PROVE  IsFiniteSet(Numbers(t, dir)) /\ Numbers(t, dir) \subseteq Nat
<1>1. DOMAIN t \subseteq Paths /\ IsFiniteSet(DOMAIN t) BY TreeDef
<1>2. PICK D : D = InDir(t, dir) OBVIOUS
<1>3. IsFiniteSet(D) /\ D \subseteq Paths
  <2>1. D \in SUBSET DOMAIN t BY <1>2 DEF InDir
  <2> QED BY <2>1, <1>1, FS_Subset
<1>4. PICK N : N = Numbers(t, dir) OBVIOUS
<1>5. N = {p[2] : p \in D} BY <1>2, <1>4 DEF Numbers
<1>6. PICK f : f = [p \in D |-> p[2]] OBVIOUS
<1>7. f \in Surjection(D, N)
  <2>1. f \in [D -> N] BY <1>5, <1>6
  <2>2. \A n \in N : \E p \in D : f[p] = n BY <1>5, <1>6
  <2> QED BY <2>1, <2>2 DEF Surjection
<1>8. IsFiniteSet(N) BY <1>3, <1>7, FS_Surjection
<1>9. N \subseteq Nat BY <1>3, <1>5, PathFacts
<1> QED BY <1>4, <1>8, <1>9

LEMMA NextSeqFacts ==
  ASSUME NEW t \in Trees, NEW dir
  PROVE  /\ NextSeq(t, dir) \in Nat \ {0}
         /\ \A n \in Numbers(t, dir) : n < NextSeq(t, dir)
<1>1. PICK N : N = Numbers(t, dir) OBVIOUS
<1>2. IsFiniteSet(N) /\ N \subseteq Nat BY <1>1, NumbersFinite
<1>3. PICK M : M = N \cup {0} OBVIOUS
<1>4. IsFiniteSet(M) /\ M \subseteq Nat /\ M # {} BY <1>2, <1>3, FS_AddElement
<1>5. Greatest(M) \in M /\ \A m \in M : m <= Greatest(M) BY <1>4, GreatestIsOne
<1>6. PICK g \in Nat : g = Greatest(M) BY <1>4, <1>5
<1>7. NextSeq(t, dir) = g + 1 BY <1>1, <1>3, <1>6 DEF NextSeq
<1>8. \A m \in N : m < g + 1 BY <1>2, <1>3, <1>5, <1>6
<1> QED BY <1>1, <1>7, <1>8

LEMMA NewEntry ==
  ASSUME NEW t \in Trees
  PROVE  /\ NextSeq(t, "msg") \in Nat \ {0}
         /\ Msg(NextSeq(t, "msg")) \in Paths \ DOMAIN t
         /\ \A n \in EntriesIn(t) : n < NextSeq(t, "msg")
<1>1. PICK n \in Nat \ {0} : n = NextSeq(t, "msg") BY NextSeqFacts
<1>2. \A m \in EntriesIn(t) : m < n BY <1>1, NextSeqFacts DEF EntriesIn
<1>3. n \notin EntriesIn(t) BY <1>2
<1>4. Msg(n) \in Paths \ DOMAIN t BY <1>3, PathFacts, EntryFacts
<1> QED BY <1>1, <1>2, <1>4

LEMMA NewSummary ==
  ASSUME NEW t \in Trees
  PROVE  Sum(NextSeq(t, "sum")) \in Paths \ DOMAIN t
<1>1. PICK n \in Nat \ {0} : n = NextSeq(t, "sum") BY NextSeqFacts
<1>2. \A m \in Numbers(t, "sum") : m < n BY <1>1, NextSeqFacts
<1>3. n \notin Numbers(t, "sum") BY <1>2
<1>4. Sum(n) \notin DOMAIN t BY <1>3, PathFacts DEF Numbers, InDir
<1> QED BY <1>1, <1>4, PathFacts

LEMMA PutFacts ==
  ASSUME NEW t \in Trees, NEW p \in Paths, NEW x \in Contents
  PROVE  /\ Put(t, p, x) \in Trees
         /\ DOMAIN Put(t, p, x) = DOMAIN t \cup {p}
         /\ Put(t, p, x)[p] = x
         /\ \A q \in DOMAIN t : q # p => Put(t, p, x)[q] = t[q]
<1>1. DOMAIN t \subseteq Paths /\ IsFiniteSet(DOMAIN t) /\ \A q \in DOMAIN t : t[q] \in Contents
  BY TreeDef
<1>2. PICK D : D = DOMAIN t \cup {p} OBVIOUS
<1>3. D \in SUBSET Paths /\ IsFiniteSet(D) BY <1>1, <1>2, FS_AddElement
<1>4. Put(t, p, x) = [q \in D |-> IF q = p THEN x ELSE t[q]] BY <1>2 DEF Put
<1>5. [q \in D |-> IF q = p THEN x ELSE t[q]] \in [D -> Contents] BY <1>1, <1>2
<1>6. Put(t, p, x) \in Trees BY <1>3, <1>4, <1>5, TreeIntro
<1> QED BY <1>2, <1>4, <1>6

LEMMA WithoutFacts ==
  ASSUME NEW t \in Trees, NEW gone
  PROVE  /\ Without(t, gone) \in Trees
         /\ DOMAIN Without(t, gone) = DOMAIN t \ gone
         /\ \A q \in DOMAIN t \ gone : Without(t, gone)[q] = t[q]
<1>1. DOMAIN t \subseteq Paths /\ IsFiniteSet(DOMAIN t) /\ \A q \in DOMAIN t : t[q] \in Contents
  BY TreeDef
<1>2. PICK D : D = DOMAIN t \ gone OBVIOUS
<1>3. D \in SUBSET Paths /\ IsFiniteSet(D) BY <1>1, <1>2, FS_Difference
<1>4. Without(t, gone) = [q \in D |-> t[q]] BY <1>2 DEF Without
<1>5. [q \in D |-> t[q]] \in [D -> Contents] BY <1>1, <1>2
<1>6. Without(t, gone) \in Trees BY <1>3, <1>4, <1>5, TreeIntro
<1> QED BY <1>2, <1>4, <1>6

LEMMA KeepFacts ==
  ASSUME NEW t \in Trees, NEW paths
  PROVE  /\ Keep(t, paths) \in Trees
         /\ DOMAIN Keep(t, paths) = DOMAIN t \cap paths
         /\ \A q \in DOMAIN t \cap paths : Keep(t, paths)[q] = t[q]
<1>1. DOMAIN t \subseteq Paths /\ IsFiniteSet(DOMAIN t) /\ \A q \in DOMAIN t : t[q] \in Contents
  BY TreeDef
<1>2. PICK D : D = DOMAIN t \cap paths OBVIOUS
<1>3. D \in SUBSET Paths /\ IsFiniteSet(D) BY <1>1, <1>2, FS_Intersection
<1>4. Keep(t, paths) = [q \in D |-> t[q]] BY <1>2 DEF Keep
<1>5. [q \in D |-> t[q]] \in [D -> Contents] BY <1>1, <1>2
<1>6. Keep(t, paths) \in Trees BY <1>3, <1>4, <1>5, TreeIntro
<1> QED BY <1>2, <1>4, <1>6

-----------------------------------------------------------------------------
(* What stays, what is known, what is seen.                                *)

LEMMA KnownGrows ==
  ASSUME NEW t, NEW n \in Nat, NEW m \in Nat, n <= m, Known(t, n)
  PROVE  Known(t, m)
<1>1. 1 .. n \subseteq 1 .. m OBVIOUS
<1> QED BY <1>1 DEF Known

LEMMA GoalPath ==
  ASSUME NEW t, HasGoal(t)
  PROVE  Msg(1) \in DOMAIN t /\ t[Msg(1)].kind = "goal"
BY DEF HasGoal, FileAt, Absent, Content

LEMMA GoalStays ==
  ASSUME NEW t, NEW u, Stays(t, u), HasGoal(t)
  PROVE  HasGoal(u)
<1>1. Msg(1) \in DOMAIN t /\ t[Msg(1)].kind = "goal" BY GoalPath
<1>2. Msg(1) \in DOMAIN u /\ u[Msg(1)] = t[Msg(1)] BY <1>1, PathFacts DEF Stays
<1> QED BY <1>1, <1>2 DEF HasGoal, FileAt

LEMMA StaysTrans ==
  ASSUME NEW t, NEW u, NEW v, Stays(t, u), Stays(u, v)
  PROVE  Stays(t, v)
BY DEF Stays

LEMMA TagsDef ==
  ASSUME NEW t \in Trees, NEW x
  PROVE  x \in Tags(t) <=> \E p \in DOMAIN t : p[1] = "msg" /\ t[p].tag = x
<1>1. ASSUME x \in Tags(t) PROVE \E p \in DOMAIN t : p[1] = "msg" /\ t[p].tag = x
  <2>1. PICK n \in EntriesIn(t) : x = t[Msg(n)].tag BY <1>1 DEF Tags
  <2>2. Msg(n) \in DOMAIN t /\ Msg(n)[1] = "msg" BY <2>1, EntryFacts, PathFacts
  <2> QED BY <2>1, <2>2
<1>2. ASSUME NEW p \in DOMAIN t, p[1] = "msg", t[p].tag = x PROVE x \in Tags(t)
  <2>1. p \in Paths BY TreeDef
  <2>2. PICK n : p = Msg(n) BY <2>1, <1>2, PathFacts
  <2>3. n \in EntriesIn(t) BY <2>2, EntryFacts
  <2> QED BY <2>2, <2>3, <1>2 DEF Tags
<1> QED BY <1>1, <1>2

LEMMA CoveredDef ==
  ASSUME NEW t, NEW x
  PROVE  x \in Covered(t) <=> \E p \in DOMAIN t : p[1] = "sum" /\ x \in t[p].about
BY DEF Covered, InDir

LEMMA SeenStays ==
  ASSUME NEW t \in Trees, NEW u \in Trees, Stays(t, u)
  PROVE  Tags(t) \subseteq Tags(u) /\ Covered(t) \subseteq Covered(u)
<1>1. ASSUME NEW x \in Tags(t) PROVE x \in Tags(u)
  <2>1. PICK p \in DOMAIN t : p[1] = "msg" /\ t[p].tag = x BY TagsDef
  <2>2. p \in DOMAIN u /\ u[p] = t[p] BY <2>1 DEF Stays
  <2> QED BY <2>1, <2>2, TagsDef
<1>2. ASSUME NEW x \in Covered(t) PROVE x \in Covered(u)
  <2>1. PICK p \in DOMAIN t : p[1] = "sum" /\ x \in t[p].about BY CoveredDef
  <2>2. p \in DOMAIN u /\ u[p] = t[p] BY <2>1 DEF Stays
  <2> QED BY <2>1, <2>2, CoveredDef
<1> QED BY <1>1, <1>2

\* What a known tree shows.
LEMMA SeenKnown ==
  ASSUME NEW t \in Trees, NEW n \in Nat, Known(t, n)
  PROVE  Tags(t) \cup Covered(t) \subseteq 1 .. n
<1>1. ASSUME NEW x \in Tags(t) PROVE x \in 1 .. n
  <2>1. PICK p \in DOMAIN t : p[1] = "msg" /\ t[p].tag = x BY TagsDef
  <2> QED BY <2>1 DEF Known
<1>2. ASSUME NEW x \in Covered(t) PROVE x \in 1 .. n
  <2>1. PICK p \in DOMAIN t : p[1] = "sum" /\ x \in t[p].about BY CoveredDef
  <2> QED BY <2>1 DEF Known
<1> QED BY <1>1, <1>2

\* One file more, at a path that was free.
LEMMA PutStays ==
  ASSUME NEW t \in Trees, NEW p \in Paths, NEW x \in Contents,
         p \notin DOMAIN t \/ p[1] = "work"
  PROVE  Stays(t, Put(t, p, x))
<1>1. PICK u : u = Put(t, p, x) OBVIOUS
<1>2. DOMAIN u = DOMAIN t \cup {p} /\ \A q \in DOMAIN t : q # p => u[q] = t[q]
  BY <1>1, PutFacts
<1>3. Stays(t, u) BY <1>2 DEF Stays
<1> QED BY <1>1, <1>3

LEMMA PutKnown ==
  ASSUME NEW t \in Trees, NEW p \in Paths, NEW x \in Contents, NEW n \in Nat,
         Known(t, n), x.about \subseteq 1 .. n, p[1] = "msg" => x.tag \in 1 .. n
  PROVE  Known(Put(t, p, x), n)
<1>1. PICK u : u = Put(t, p, x) OBVIOUS
<1>2. /\ DOMAIN u = DOMAIN t \cup {p} /\ u[p] = x
      /\ \A q \in DOMAIN t : q # p => u[q] = t[q]
  BY <1>1, PutFacts
<1>3. Known(u, n)
  <2>1. ASSUME NEW q \in DOMAIN u
        PROVE  u[q].about \subseteq 1 .. n /\ (q[1] = "msg" => u[q].tag \in 1 .. n)
    <3>1. CASE q = p BY <3>1, <1>2
    <3>2. CASE q # p BY <3>2, <1>2 DEF Known
    <3> QED BY <3>1, <3>2
  <2> QED BY <2>1 DEF Known
<1> QED BY <1>1, <1>3

LEMMA WithoutKnown ==
  ASSUME NEW t \in Trees, NEW gone, NEW n \in Nat, Known(t, n)
  PROVE  Known(Without(t, gone), n)
<1>1. PICK u : u = Without(t, gone) OBVIOUS
<1>2. DOMAIN u = DOMAIN t \ gone /\ \A q \in DOMAIN u : u[q] = t[q]
  BY <1>1, WithoutFacts
<1>3. Known(u, n) BY <1>2 DEF Known
<1> QED BY <1>1, <1>3

LEMMA KeepKnown ==
  ASSUME NEW t \in Trees, NEW paths, NEW n \in Nat, Known(t, n)
  PROVE  Known(Keep(t, paths), n)
<1>1. PICK u : u = Keep(t, paths) OBVIOUS
<1>2. DOMAIN u = DOMAIN t \cap paths /\ \A q \in DOMAIN u : u[q] = t[q]
  BY <1>1, KeepFacts
<1>3. Known(u, n) BY <1>2 DEF Known
<1> QED BY <1>1, <1>3

\* The commit of one entry more.
LEMMA EntryCommitFacts ==
  ASSUME NEW t \in Trees, NEW x \in Contents, NEW n \in Nat, NEW m \in Nat, n <= m,
         Known(t, n), x.tag \in 1 .. m, x.about \subseteq 1 .. m
  PROVE  LET e == EntryCommit(t, x)
         IN  /\ e \in Commits /\ e.subject = "entry" /\ e.by = 0
             /\ e.tree = Put(t, Msg(NextSeq(t, "msg")), x)
             /\ Known(e.tree, m) /\ Stays(t, e.tree)
             /\ x.tag \in Tags(e.tree)
<1>1. PICK p : p = Msg(NextSeq(t, "msg")) OBVIOUS
<1>2. p \in Paths \ DOMAIN t BY <1>1, NewEntry
<1>3. PICK u : u = Put(t, p, x) OBVIOUS
<1>4. u \in Trees /\ p \in DOMAIN u /\ u[p] = x
  <2>1. p \in Paths BY <1>2
  <2>2. u \in Trees BY <2>1, <1>3, PutFacts
  <2>3. DOMAIN u = DOMAIN t \cup {p} BY <2>1, <1>3, PutFacts
  <2>4. u[p] = x BY <2>1, <1>3, PutFacts
  <2> QED BY <2>2, <2>3, <2>4
<1>5. Stays(t, u) BY <1>2, <1>3, PutStays
<1>6. Known(t, m) BY KnownGrows
<1>7. Known(u, m) BY <1>2, <1>3, <1>6, PutKnown
<1>8. x.tag \in Tags(u)
  <2>1. p[1] = "msg" BY <1>1, PathFacts
  <2> QED BY <2>1, <1>4, TagsDef
<1>9. EntryCommit(t, x) = Commit("entry", 0, u) BY <1>1, <1>3 DEF EntryCommit
<1>10. "entry" \in Subjects /\ 0 \in Nat BY DEF Subjects
<1>11. PICK e : e = EntryCommit(t, x) OBVIOUS
<1>12. e \in Commits /\ e.tree = u /\ e.subject = "entry" /\ e.by = 0
  BY <1>4, <1>9, <1>10, <1>11 DEF Commit, Commits
<1> QED BY <1>1, <1>3, <1>5, <1>7, <1>8, <1>11, <1>12

-----------------------------------------------------------------------------
(* Lines of commits.                                                       *)

LEMMA CommitFields ==
  ASSUME NEW x \in Commits
  PROVE  x.subject \in Subjects /\ x.by \in Nat /\ x.tree \in Trees
BY DEF Commits

LEMMA TipOf ==
  ASSUME NEW line \in Seq(Commits), Len(line) > 0
  PROVE  /\ TreeOf(line) = line[Len(line)].tree /\ TreeOf(line) \in Trees
         /\ Len(line) \in 1 .. Len(line)
<1>1. Len(line) \in Nat BY LenProperties
<1>2. Len(line) \in 1 .. Len(line) BY <1>1
<1>3. line[Len(line)] \in Commits BY <1>2, ElementOfSeq
<1> QED BY <1>2, <1>3, CommitFields DEF TreeOf, Last

LEMMA LineTip ==
  ASSUME NEW line, NEW n, LineOK(line, n)
  PROVE  /\ Len(line) \in Nat /\ Len(line) > 1 /\ line \in Seq(Commits)
         /\ TreeOf(line) = line[Len(line)].tree /\ TreeOf(line) \in Trees
         /\ Known(TreeOf(line), n) /\ HasGoal(TreeOf(line))
<1>1. line \in Seq(Commits) /\ Len(line) > 1 BY DEF LineOK
<1>2. Len(line) \in Nat BY <1>1, LenProperties
<1>3. Len(line) \in 1 .. Len(line) /\ Len(line) \in 2 .. Len(line) BY <1>1, <1>2
<1>4. TreeOf(line) = line[Len(line)].tree /\ TreeOf(line) \in Trees BY <1>1, <1>2, TipOf
<1> QED BY <1>1, <1>2, <1>3, <1>4 DEF LineOK

LEMMA BasesDef ==
  ASSUME NEW line \in Seq(Commits), NEW c
  PROVE  c \in Bases(line) <=> \E i \in 1 .. Len(line) : line[i].subject = "base" /\ line[i].by = c
<1>1. DOMAIN line = 1 .. Len(line) BY LenProperties
<1> QED BY <1>1 DEF Bases

\* A line with commits put on its tip, none of them a base.
LEMMA LineGrows ==
  ASSUME NEW line, NEW n \in Nat, NEW m \in Nat, n <= m, LineOK(line, n),
         NEW more \in Seq(Commits), more # <<>>,
         \A i \in 1 .. Len(more) :
             /\ more[i].subject # "base" /\ Known(more[i].tree, m)
             /\ Stays(TreeOf(line), more[i].tree)
  PROVE  /\ LineOK(line \o more, m) /\ Bases(line \o more) = Bases(line)
         /\ Len(line \o more) = Len(line) + Len(more)
         /\ TreeOf(line \o more) = more[Len(more)].tree
         /\ Stays(TreeOf(line), TreeOf(line \o more))
         /\ \A i \in 1 .. Len(line) : (line \o more)[i] = line[i]
         /\ \A i \in 1 .. Len(more) : (line \o more)[Len(line) + i] = more[i]
<1>1. line \in Seq(Commits) /\ Len(line) \in Nat /\ Len(line) > 1 /\ HasGoal(TreeOf(line))
  BY LineTip
<1>2. Len(more) \in Nat /\ Len(more) > 0 BY EmptySeq, LenProperties
<1>3. PICK new : new = line \o more OBVIOUS
<1>4. /\ new \in Seq(Commits) /\ Len(new) = Len(line) + Len(more)
      /\ \A i \in 1 .. Len(line) + Len(more) :
            new[i] = IF i <= Len(line) THEN line[i] ELSE more[i - Len(line)]
  BY <1>1, <1>3, ConcatProperties
<1>5. \A i \in 1 .. Len(line) : new[i] = line[i] BY <1>1, <1>2, <1>4
<1>6. \A i \in 1 .. Len(more) : new[Len(line) + i] = more[i]
  <2>1. SUFFICES ASSUME NEW i \in 1 .. Len(more) PROVE new[Len(line) + i] = more[i] OBVIOUS
  <2>2. /\ Len(line) + i \in 1 .. Len(line) + Len(more) /\ ~(Len(line) + i <= Len(line))
        /\ (Len(line) + i) - Len(line) = i
    BY <1>1, <1>2
  <2> QED BY <2>2, <1>4
<1>7. ASSUME NEW i \in 1 .. Len(new)
      PROVE  i \in 1 .. Len(line) \/ \E j \in 1 .. Len(more) : i = Len(line) + j
  <2>1. CASE i <= Len(line) BY <2>1, <1>1
  <2>2. CASE ~(i <= Len(line))
    <3>1. i - Len(line) \in 1 .. Len(more) /\ i = Len(line) + (i - Len(line))
      BY <2>2, <1>1, <1>2, <1>4
    <3> QED BY <3>1
  <2> QED BY <2>1, <2>2
<1>8. \A i \in 1 .. Len(new) : Known(new[i].tree, m)
  <2>1. SUFFICES ASSUME NEW i \in 1 .. Len(new) PROVE Known(new[i].tree, m) OBVIOUS
  <2>2. CASE i \in 1 .. Len(line)
    <3>1. Known(line[i].tree, n) BY <2>2 DEF LineOK
    <3> QED BY <3>1, <2>2, <1>5, KnownGrows
  <2>3. CASE \E j \in 1 .. Len(more) : i = Len(line) + j BY <2>3, <1>6
  <2> QED BY <2>2, <2>3, <1>7
<1>9. \A i \in 2 .. Len(new) : HasGoal(new[i].tree)
  <2>1. SUFFICES ASSUME NEW i \in 2 .. Len(new) PROVE HasGoal(new[i].tree) OBVIOUS
  <2>2. i \in 1 .. Len(new) BY <1>1, <1>2, <1>4
  <2>3. CASE i \in 1 .. Len(line)
    <3>1. i \in 2 .. Len(line) BY <2>3, <1>1, <2>1
    <3> QED BY <3>1, <2>3, <1>5 DEF LineOK
  <2>4. CASE \E j \in 1 .. Len(more) : i = Len(line) + j
    <3>1. PICK j \in 1 .. Len(more) : i = Len(line) + j BY <2>4
    <3>2. Stays(TreeOf(line), more[j].tree) OBVIOUS
    <3> QED BY <3>1, <3>2, <1>1, <1>6, GoalStays
  <2> QED BY <2>2, <2>3, <2>4, <1>7
<1>10. LineOK(new, m)
  <2>1. new[1] = line[1] BY <1>1, <1>5
  <2>2. line[1].subject = "founding" BY DEF LineOK
  <2>3. Len(new) > 1 BY <1>1, <1>2, <1>4
  <2> QED BY <2>1, <2>2, <2>3, <1>4, <1>8, <1>9 DEF LineOK
<1>11. Bases(new) = Bases(line)
  <2>1. ASSUME NEW c \in Bases(new) PROVE c \in Bases(line)
    <3>1. PICK i \in 1 .. Len(new) : new[i].subject = "base" /\ new[i].by = c
      BY <1>4, BasesDef
    <3>2. i \in 1 .. Len(line) BY <3>1, <1>6, <1>7
    <3> QED BY <3>1, <3>2, <1>1, <1>5, BasesDef
  <2>2. ASSUME NEW c \in Bases(line) PROVE c \in Bases(new)
    <3>1. PICK i \in 1 .. Len(line) : line[i].subject = "base" /\ line[i].by = c
      BY <1>1, BasesDef
    <3>2. i \in 1 .. Len(new) BY <1>1, <1>2, <1>4
    <3>3. new[i] = line[i] BY <1>5
    <3> QED BY <3>1, <3>2, <3>3, <1>4, BasesDef
  <2> QED BY <2>1, <2>2
<1>12. TreeOf(new) = more[Len(more)].tree
  <2>1. Len(new) > 0 BY <1>1, <1>2, <1>4
  <2>2. TreeOf(new) = new[Len(new)].tree BY <2>1, <1>4, TipOf
  <2>3. Len(more) \in 1 .. Len(more) BY <1>2
  <2> QED BY <2>2, <2>3, <1>4, <1>6
<1>13. Stays(TreeOf(line), TreeOf(new))
  <2>1. Len(more) \in 1 .. Len(more) BY <1>2
  <2> QED BY <2>1, <1>12
<1> QED BY <1>3, <1>4, <1>5, <1>6, <1>10, <1>11, <1>12, <1>13

LEMMA LineAppends ==
  ASSUME NEW line, NEW n \in Nat, NEW m \in Nat, n <= m, LineOK(line, n),
         NEW x \in Commits, x.subject # "base", Known(x.tree, m), Stays(TreeOf(line), x.tree)
  PROVE  /\ LineOK(Append(line, x), m) /\ Bases(Append(line, x)) = Bases(line)
         /\ Len(Append(line, x)) = Len(line) + 1
         /\ TreeOf(Append(line, x)) = x.tree
         /\ Stays(TreeOf(line), TreeOf(Append(line, x)))
         /\ \A i \in 1 .. Len(line) : Append(line, x)[i] = line[i]
         /\ Append(line, x)[Len(line) + 1] = x
<1>1. line \in Seq(Commits) BY LineTip
<1>2. PICK more : more = <<x>> OBVIOUS
<1>3. more \in Seq(Commits) /\ Len(more) = 1 /\ more[1] = x /\ more # <<>> BY <1>2
<1>4. Append(line, x) = line \o more BY <1>1, <1>2, AppendIsConcat
<1>5. \A i \in 1 .. Len(more) :
          /\ more[i].subject # "base" /\ Known(more[i].tree, m)
          /\ Stays(TreeOf(line), more[i].tree)
  BY <1>3
<1>6. PICK new : new = line \o more OBVIOUS
<1>7. /\ LineOK(new, m) /\ Bases(new) = Bases(line)
      /\ Len(new) = Len(line) + Len(more)
      /\ TreeOf(new) = more[Len(more)].tree
      /\ Stays(TreeOf(line), TreeOf(new))
      /\ \A i \in 1 .. Len(line) : new[i] = line[i]
      /\ \A i \in 1 .. Len(more) : new[Len(line) + i] = more[i]
  BY <1>3, <1>5, <1>6, LineGrows
<1>8. 1 \in 1 .. Len(more) BY <1>3
<1> QED BY <1>3, <1>4, <1>6, <1>7, <1>8

LEMMA LineKnown ==
  ASSUME NEW line, NEW n \in Nat, NEW m \in Nat, n <= m, LineOK(line, n)
  PROVE  LineOK(line, m)
<1>1. \A i \in 1 .. Len(line) : Known(line[i].tree, m)
  <2>1. ASSUME NEW i \in 1 .. Len(line) PROVE Known(line[i].tree, m)
    <3>1. Known(line[i].tree, n) BY DEF LineOK
    <3> QED BY <3>1, KnownGrows
  <2> QED BY <2>1
<1> QED BY <1>1 DEF LineOK

-----------------------------------------------------------------------------
(* Steps that put entries on the tip.                                      *)

LEMMA InvHead ==
  ASSUME LineInv
  PROVE  /\ LineOK(branch, authored) /\ branch \in Seq(Commits) /\ Len(branch) \in Nat
         /\ Len(branch) > 1 /\ HEAD = TreeOf(branch) /\ HEAD = branch[Len(branch)].tree
         /\ HEAD \in Trees /\ Known(HEAD, authored) /\ HasGoal(HEAD)
         /\ authored \in Nat \ {0}
<1>1. LineOK(branch, authored) /\ authored \in Nat \ {0} BY DEF LineInv, BranchInv, CountInv
<1>2. HEAD = TreeOf(branch) BY DEF HEAD
<1> QED BY <1>1, <1>2, LineTip

LEMMA ChildrenKept ==
  ASSUME ChildInv, authored \in Nat, children' = children, authored' \in Nat,
         authored <= authored', Bases(branch) \subseteq Bases(branch')
  PROVE  ChildInv'
<1>1. ASSUME NEW c \in DOMAIN children
      PROVE  /\ Known(children[c].founded, authored') /\ Known(children[c].tip, authored')
             /\ IsCompactor(c) => PassInv(children[c])
             /\ Bases(children[c].past) \subseteq (1 .. c - 1) \cap Bases(branch')
  <2>1. /\ Known(children[c].founded, authored) /\ Known(children[c].tip, authored)
        /\ IsCompactor(c) => PassInv(children[c])
        /\ Bases(children[c].past) \subseteq (1 .. c - 1) \cap Bases(branch)
    BY DEF ChildInv
  <2> QED BY <2>1, KnownGrows
<1>2. children \in Seq(ChildRecords) BY DEF ChildInv
<1> QED BY <1>1, <1>2 DEF ChildInv, IsCompactor, PassInv

LEMMA GrownAccount ==
  ASSUME LineInv, Accounted, LineOK(branch', authored'), authored' \in Nat,
         Stays(HEAD, TreeOf(branch')), shed' = shed,
         (authored + 1) .. authored' \subseteq Tags(TreeOf(branch'))
  PROVE  Accounted'
<1>1. HEAD \in Trees /\ authored \in Nat BY InvHead
<1>2. TreeOf(branch') \in Trees /\ HasGoal(TreeOf(branch')) BY LineTip
<1>3. PICK t \in Trees : t = HEAD BY <1>1
<1>4. PICK u \in Trees : u = TreeOf(branch') BY <1>2
<1>5. Tags(t) \subseteq Tags(u) /\ Covered(t) \subseteq Covered(u) BY <1>3, <1>4, SeenStays
<1>6. ASSUME NEW x \in 1 .. authored' PROVE x \in Tags(u) \cup Covered(u) \cup shed
  <2>1. CASE x <= authored
    <3>1. x \in 1 .. authored BY <2>1, <1>1
    <3>2. x \in Tags(t) \cup Covered(t) \cup shed BY <3>1, <1>3 DEF Accounted
    <3> QED BY <3>2, <1>5
  <2>2. CASE ~(x <= authored)
    <3>1. x \in (authored + 1) .. authored' BY <2>2, <1>1
    <3> QED BY <3>1, <1>4
  <2> QED BY <2>1, <2>2
<1>7. HEAD' = u BY <1>4 DEF HEAD
<1>8. FileAt(u, Msg(1)).kind = "goal" BY <1>2, <1>4 DEF HasGoal
<1> QED BY <1>6, <1>7, <1>8 DEF Accounted

LEMMA QueueKept ==
  ASSUME QueueInv, UNCHANGED <<inbox, listed, children>>
  PROVE  QueueInv'
BY DEF QueueInv, Running

\* What a step that puts one entry on the tip has to show.
LEMMA OneEntry ==
  ASSUME LineInv, Accounted, NEW x \in Contents,
         x.tag = authored + 1, NEW m \in Nat, authored + 1 <= m, x.about \subseteq 1 .. m
  PROVE  LET e == EntryCommit(HEAD, x)
         IN  /\ e \in Commits /\ e.tree \in Trees /\ e.subject = "entry"
             /\ Known(e.tree, m) /\ Stays(HEAD, e.tree)
             /\ e.tree = Put(HEAD, Msg(NextSeq(HEAD, "msg")), x)
             /\ authored + 1 \in Tags(e.tree)
             /\ LineOK(Append(branch, e), m) /\ Bases(Append(branch, e)) = Bases(branch)
             /\ TreeOf(Append(branch, e)) = e.tree
<1>1. /\ HEAD \in Trees /\ Known(HEAD, authored) /\ LineOK(branch, authored)
      /\ HEAD = TreeOf(branch) /\ authored \in Nat
  BY InvHead
<1>2. PICK h \in Trees, a \in Nat : h = HEAD /\ a = authored BY <1>1
<1>3. x.tag \in 1 .. m /\ a <= m BY <1>2
<1>4. PICK e : e = EntryCommit(h, x) OBVIOUS
<1>5. /\ e \in Commits /\ e.subject = "entry"
      /\ e.tree = Put(h, Msg(NextSeq(h, "msg")), x)
      /\ Known(e.tree, m) /\ Stays(h, e.tree) /\ x.tag \in Tags(e.tree)
  BY <1>1, <1>2, <1>3, <1>4, EntryCommitFacts
<1>6. e.tree \in Trees /\ e.subject # "base" BY <1>5, CommitFields
<1>7. PICK b : b = branch OBVIOUS
<1>8. LineOK(b, a) /\ TreeOf(b) = h BY <1>1, <1>2, <1>7
<1>9. /\ LineOK(Append(b, e), m) /\ Bases(Append(b, e)) = Bases(b)
      /\ TreeOf(Append(b, e)) = e.tree
  BY <1>3, <1>5, <1>6, <1>8, LineAppends
<1> QED BY <1>2, <1>4, <1>5, <1>6, <1>7, <1>9

LEMMA MailContent ==
  ASSUME NEW n \in Nat
  PROVE  /\ Content("mail", n, {}) \in Contents /\ Content("mail", n, {}).tag = n
         /\ Content("mail", n, {}).about = {} /\ Content("mail", n, {}).kind = "mail"
BY DEF Content, Contents, Kinds, EntryKinds

LEMMA DeliverMailStep ==
  ASSUME LineInv, Accounted, DeliverMail
  PROVE  LineInv' /\ Accounted' /\ Bases(branch') = Bases(branch)
<1>1. authored \in Nat /\ authored + 1 \in Nat BY InvHead
<1>2. PICK x : x = Content("mail", authored + 1, {}) OBVIOUS
<1>3. x \in Contents /\ x.tag = authored + 1 /\ x.about = {} BY <1>1, <1>2, MailContent
<1>4. PICK e : e = EntryCommit(HEAD, x) OBVIOUS
<1>5. /\ branch' = Append(branch, e) /\ authored' = authored + 1
      /\ arrivals' = arrivals + 1
      /\ UNCHANGED <<hop, listed, inbox, children, keep, conflicted, shed, steps, crashes>>
  BY <1>2, <1>4 DEF DeliverMail, record
<1>6. /\ Stays(HEAD, e.tree) /\ authored + 1 \in Tags(e.tree)
      /\ LineOK(Append(branch, e), authored + 1) /\ Bases(Append(branch, e)) = Bases(branch)
      /\ TreeOf(Append(branch, e)) = e.tree
  BY <1>1, <1>3, <1>4, OneEntry
<1>7. /\ LineOK(branch', authored') /\ Bases(branch') = Bases(branch)
      /\ Stays(HEAD, TreeOf(branch')) /\ authored + 1 \in Tags(TreeOf(branch'))
  BY <1>5, <1>6
<1>8. Accounted'
  <2>1. (authored + 1) .. authored' \subseteq Tags(TreeOf(branch'))
    BY <1>1, <1>5, <1>7
  <2> QED BY <2>1, <1>1, <1>5, <1>7, GrownAccount
<1>9. ChildInv' BY <1>1, <1>5, <1>7, ChildrenKept DEF LineInv
<1>10. QueueInv' BY <1>5, QueueKept DEF LineInv
<1>11. BranchInv' BY <1>5, <1>7 DEF LineInv, BranchInv
<1>12. CountInv' 
  <2>1. CountInv BY DEF LineInv
  <2>2. 1 .. authored \subseteq 1 .. authored' BY <1>1, <1>5
  <2> QED BY <2>1, <2>2, <1>1, <1>5 DEF CountInv
<1> QED BY <1>7, <1>8, <1>9, <1>10, <1>11, <1>12 DEF LineInv

-----------------------------------------------------------------------------
(* The inbox.                                                              *)

LEMMA RemoveAtFacts ==
  ASSUME NEW s \in Seq(Nat), NEW i \in 1 .. Len(s)
  PROVE  /\ RemoveAt(s, i) \in Seq(Nat) /\ Len(RemoveAt(s, i)) = Len(s) - 1
         /\ \A j \in 1 .. Len(s) - 1 :
               RemoveAt(s, i)[j] = IF j < i THEN s[j] ELSE s[j + 1]
<1>1. Len(s) \in Nat /\ i \in Nat /\ i > 0 /\ i <= Len(s) BY LenProperties
<1>2. PICK n \in Nat : n = Len(s) BY <1>1
<1>3. \A j \in 1 .. n : s[j] \in Nat BY <1>2, ElementOfSeq
<1>4. PICK u : u = SubSeq(s, 1, i - 1) OBVIOUS
<1>5. PICK v : v = SubSeq(s, i + 1, n) OBVIOUS
<1>6. u \in Seq(Nat) /\ Len(u) = i - 1 /\ \A j \in 1 .. i - 1 : u[j] = s[j]
  <2>1. 1 \in Int /\ i - 1 \in Int /\ \A j \in 1 .. i - 1 : s[j] \in Nat BY <1>1, <1>2, <1>3
  <2>2. /\ u \in Seq(Nat) /\ Len(u) = IF 1 <= i - 1 THEN (i - 1) - 1 + 1 ELSE 0
        /\ \A j \in 1 .. (i - 1) - 1 + 1 : u[j] = s[1 + j - 1]
    BY <2>1, <1>4, SubSeqProperties
  <2>3. \A j \in 1 .. i - 1 : j \in 1 .. (i - 1) - 1 + 1 /\ 1 + j - 1 = j BY <1>1
  <2> QED BY <2>2, <2>3, <1>1
<1>7. v \in Seq(Nat) /\ Len(v) = n - i /\ \A j \in 1 .. n - i : v[j] = s[i + j]
  <2>1. i + 1 \in Int /\ n \in Int /\ \A j \in i + 1 .. n : s[j] \in Nat BY <1>1, <1>2, <1>3
  <2>2. /\ v \in Seq(Nat) /\ Len(v) = IF i + 1 <= n THEN n - (i + 1) + 1 ELSE 0
        /\ \A j \in 1 .. n - (i + 1) + 1 : v[j] = s[(i + 1) + j - 1]
    BY <2>1, <1>5, SubSeqProperties
  <2>3. \A j \in 1 .. n - i : j \in 1 .. n - (i + 1) + 1 /\ (i + 1) + j - 1 = i + j
    BY <1>1, <1>2
  <2>4. Len(v) = n - i
    <3>1. CASE i + 1 <= n BY <3>1, <2>2, <1>1, <1>2
    <3>2. CASE ~(i + 1 <= n) BY <3>2, <2>2, <1>1, <1>2
    <3> QED BY <3>1, <3>2
  <2>5. \A j \in 1 .. n - i : v[j] = s[(i + 1) + j - 1] BY <2>2, <2>3
  <2>6. \A j \in 1 .. n - i : v[j] = s[i + j] BY <2>3, <2>5
  <2> QED BY <2>2, <2>4, <2>6
<1>8. PICK w : w = u \o v OBVIOUS
<1>9. /\ w \in Seq(Nat) /\ Len(w) = (i - 1) + (n - i)
      /\ \A j \in 1 .. (i - 1) + (n - i) :
            w[j] = IF j <= i - 1 THEN u[j] ELSE v[j - (i - 1)]
  <2>1. /\ w \in Seq(Nat) /\ Len(w) = Len(u) + Len(v)
        /\ \A j \in 1 .. Len(u) + Len(v) :
              w[j] = IF j <= Len(u) THEN u[j] ELSE v[j - Len(u)]
    BY <1>6, <1>7, <1>8, ConcatProperties
  <2> QED BY <2>1, <1>6, <1>7
<1>10. ASSUME NEW j \in 1 .. n - 1 PROVE w[j] = IF j < i THEN s[j] ELSE s[j + 1]
  <2>1. j \in 1 .. (i - 1) + (n - i) BY <1>1, <1>2
  <2>2. CASE j < i
    <3>1. j <= i - 1 /\ j \in 1 .. i - 1 BY <2>2, <1>1
    <3> QED BY <3>1, <2>1, <2>2, <1>6, <1>9
  <2>3. CASE ~(j < i)
    <3>1. ~(j <= i - 1) /\ j - (i - 1) \in 1 .. n - i /\ i + (j - (i - 1)) = j + 1
      BY <2>3, <1>1, <1>2
    <3> QED BY <3>1, <2>1, <2>3, <1>7, <1>9
  <2> QED BY <2>2, <2>3
<1>11. RemoveAt(s, i) = w BY <1>2, <1>4, <1>5, <1>8 DEF RemoveAt
<1>12. (i - 1) + (n - i) = n - 1 BY <1>1, <1>2
<1> QED BY <1>2, <1>9, <1>10, <1>11, <1>12

\* Taking the first of the list, or dying before it, keeps the queue in order.
LEMMA QueueStep ==
  ASSUME QueueInv, listed # <<>>, children' = children,
         \/ Consume
         \/ DieAt("replayed")
         \/ DieAt("transferred")
  PROVE  QueueInv'
<1>1. /\ inbox \in Seq(Nat) /\ listed \in Seq(Nat)
      /\ \A i \in DOMAIN inbox : inbox[i] \in DOMAIN children /\ ~Running(inbox[i])
      /\ \A i, j \in DOMAIN inbox : inbox[i] = inbox[j] => i = j
      /\ \A i \in DOMAIN listed : \E j \in DOMAIN inbox : inbox[j] = listed[i]
      /\ \A i, j \in DOMAIN listed : listed[i] = listed[j] => i = j
  BY DEF QueueInv
<1>2. CASE DieAt("replayed") \/ DieAt("transferred")
  <2>1. listed' = <<>> /\ inbox' = inbox BY <1>2 DEF DieAt
  <2>2. listed' \in Seq(Nat) /\ DOMAIN (listed') = {} BY <2>1
  <2> QED BY <2>1, <2>2, <1>1 DEF QueueInv, Running
<1>3. CASE Consume
  <2>1. PICK i \in DOMAIN inbox : inbox[i] = listed[1] /\ inbox' = RemoveAt(inbox, i)
    BY <1>3 DEF Consume
  <2>2. listed' = Tail(listed) BY <1>3 DEF Consume
  <2>3. PICK s \in Seq(Nat), t \in Seq(Nat) : s = inbox /\ t = listed BY <1>1
  <2>4. /\ DOMAIN s = 1 .. Len(s) /\ DOMAIN t = 1 .. Len(t)
        /\ Len(s) \in Nat /\ Len(t) \in Nat /\ Len(t) > 0
    BY <2>3, LenProperties, EmptySeq
  <2>5. i \in 1 .. Len(s) BY <2>1, <2>3, <2>4
  <2>6. PICK r : r = RemoveAt(s, i) OBVIOUS
  <2>7. /\ r \in Seq(Nat) /\ Len(r) = Len(s) - 1
        /\ \A j \in 1 .. Len(s) - 1 : r[j] = IF j < i THEN s[j] ELSE s[j + 1]
    BY <2>5, <2>6, RemoveAtFacts
  <2>8. PICK q : q = Tail(t) OBVIOUS
  <2>9. q \in Seq(Nat) /\ Len(q) = Len(t) - 1 /\ \A j \in 1 .. Len(t) - 1 : q[j] = t[j + 1]
    <3>1. t # <<>> BY <2>3
    <3>2. q \in Seq(Nat) /\ Len(q) = Len(t) - 1 /\ \A j \in 1 .. Len(q) : q[j] = t[j + 1]
      BY <3>1, <2>8, HeadTailProperties
    <3> QED BY <3>2
  <2>10. inbox' = r /\ listed' = q BY <2>1, <2>2, <2>3, <2>6, <2>8
  <2>11. DOMAIN r = 1 .. Len(s) - 1 /\ DOMAIN q = 1 .. Len(t) - 1
    BY <2>7, <2>9, LenProperties
  <2>12. \A j \in 1 .. Len(s) - 1 :
            /\ j < i => j \in 1 .. Len(s) /\ r[j] = s[j]
            /\ ~(j < i) => j + 1 \in 1 .. Len(s) /\ r[j] = s[j + 1]
    BY <2>4, <2>7
  <2>13. \A j \in DOMAIN r : \E k \in DOMAIN s : r[j] = s[k]
    BY <2>4, <2>11, <2>12
  <2>14. \A j \in DOMAIN r : r[j] \in DOMAIN children /\ ~Running(r[j])
    BY <2>3, <2>13, <1>1
  <2>15. ASSUME NEW j \in DOMAIN r, NEW k \in DOMAIN r, r[j] = r[k] PROVE j = k
    <3>1. j \in 1 .. Len(s) - 1 /\ k \in 1 .. Len(s) - 1 BY <2>11
    <3>2. \A a, b \in 1 .. Len(s) : s[a] = s[b] => a = b BY <1>1, <2>3, <2>4
    <3>3. j \in Nat /\ k \in Nat /\ i \in Nat BY <3>1, <2>5
    <3>4. CASE j < i /\ k < i BY <3>1, <3>2, <3>4, <2>12, <2>15
    <3>5. CASE j < i /\ ~(k < i)
      <4>1. j = k + 1 BY <3>1, <3>2, <3>5, <2>12, <2>15
      <4> QED BY <4>1, <3>3, <3>5
    <3>6. CASE ~(j < i) /\ k < i
      <4>1. j + 1 = k BY <3>1, <3>2, <3>6, <2>12, <2>15
      <4> QED BY <4>1, <3>3, <3>6
    <3>7. CASE ~(j < i) /\ ~(k < i)
      <4>1. j + 1 = k + 1 BY <3>1, <3>2, <3>7, <2>12, <2>15
      <4> QED BY <4>1, <3>3
    <3> QED BY <3>4, <3>5, <3>6, <3>7
  <2>16. ASSUME NEW j \in DOMAIN q PROVE \E k \in DOMAIN r : r[k] = q[j]
    <3>1. j \in 1 .. Len(t) - 1 /\ j + 1 \in 1 .. Len(t) /\ q[j] = t[j + 1] /\ j + 1 # 1
      BY <2>4, <2>9, <2>11
    <3>2. 1 \in 1 .. Len(t) BY <2>4
    <3>3. PICK k \in 1 .. Len(s) : s[k] = t[j + 1] BY <3>1, <1>1, <2>3, <2>4
    <3>4. k # i
      <4>1. s[i] = t[1] BY <2>1, <2>3
      <4>2. t[1] # t[j + 1] BY <3>1, <3>2, <1>1, <2>3, <2>4
      <4> QED BY <4>1, <4>2, <3>3
    <3>5. CASE k < i
      <4>1. k \in 1 .. Len(s) - 1 BY <3>5, <2>4, <2>5
      <4> QED BY <4>1, <3>1, <3>3, <3>5, <2>11, <2>12
    <3>6. CASE ~(k < i)
      <4>1. k - 1 \in 1 .. Len(s) - 1 /\ ~(k - 1 < i) /\ (k - 1) + 1 = k
        BY <3>4, <3>6, <2>4, <2>5
      <4>2. r[k - 1] = s[k] BY <4>1, <2>12
      <4> QED BY <4>1, <4>2, <3>1, <3>3, <2>11
    <3> QED BY <3>5, <3>6
  <2>17. ASSUME NEW j \in DOMAIN q, NEW k \in DOMAIN q, q[j] = q[k] PROVE j = k
    <3>1. /\ j \in 1 .. Len(t) - 1 /\ j + 1 \in 1 .. Len(t) /\ q[j] = t[j + 1]
          /\ k \in 1 .. Len(t) - 1 /\ k + 1 \in 1 .. Len(t) /\ q[k] = t[k + 1]
      <4>1. j \in 1 .. Len(t) - 1 /\ k \in 1 .. Len(t) - 1 BY <2>11
      <4>2. j + 1 \in 1 .. Len(t) /\ k + 1 \in 1 .. Len(t) BY <4>1, <2>4
      <4> QED BY <4>1, <4>2, <2>9
    <3>2. j + 1 = k + 1 BY <3>1, <1>1, <2>3, <2>4, <2>17
    <3> QED BY <3>1, <3>2
  <2> QED BY <2>7, <2>9, <2>10, <2>14, <2>15, <2>16, <2>17 DEF QueueInv, Running
<1> QED BY <1>2, <1>3

-----------------------------------------------------------------------------
(* The other steps of a hop but the landing.                               *)

LEMMA ListedChild ==
  ASSUME LineInv, listed # <<>>
  PROVE  /\ listed[1] \in DOMAIN children /\ ~Running(listed[1])
         /\ listed[1] \in Nat
<1>1. /\ inbox \in Seq(Nat) /\ listed \in Seq(Nat)
      /\ \A i \in DOMAIN inbox : inbox[i] \in DOMAIN children /\ ~Running(inbox[i])
      /\ \A i \in DOMAIN listed : \E j \in DOMAIN inbox : inbox[j] = listed[i]
  BY DEF LineInv, QueueInv
<1>2. Len(listed) \in Nat \ {0} /\ DOMAIN listed = 1 .. Len(listed)
  BY <1>1, EmptySeq, LenProperties
<1>3. 1 \in DOMAIN listed BY <1>2
<1>4. PICK j \in DOMAIN inbox : inbox[j] = listed[1] BY <1>1, <1>3
<1>5. listed[1] \in Nat BY <1>1, <1>2, <1>3, ElementOfSeq
<1> QED BY <1>1, <1>4, <1>5

LEMMA ChildTypes ==
  ASSUME LineInv, NEW c \in DOMAIN children
  PROVE  /\ children \in Seq(ChildRecords) /\ children[c] \in ChildRecords
         /\ c \in Nat \ {0}
         /\ children[c].role \in {"compactor", "worker"} /\ children[c].past \in Seq(Commits)
         /\ children[c].founded \in Trees /\ children[c].tip \in Trees
         /\ children[c].tools \in Nat /\ children[c].epitaph \in Epitaphs
         /\ Known(children[c].founded, authored) /\ Known(children[c].tip, authored)
         /\ IsCompactor(c) => PassInv(children[c])
         /\ Bases(children[c].past) \subseteq (1 .. c - 1) \cap Bases(branch)
<1>1. children \in Seq(ChildRecords) BY DEF LineInv, ChildInv
<1>2. c \in 1 .. Len(children) /\ Len(children) \in Nat BY <1>1, LenProperties
<1>3. children[c] \in ChildRecords BY <1>1, <1>2, ElementOfSeq
<1>4. PICK r \in ChildRecords : r = children[c] BY <1>3
<1>5. /\ r.role \in {"compactor", "worker"} /\ r.past \in Seq(Commits)
      /\ r.founded \in Trees /\ r.tip \in Trees
      /\ r.tools \in Nat /\ r.epitaph \in Epitaphs
  BY DEF ChildRecords
<1> QED BY <1>1, <1>2, <1>3, <1>4, <1>5 DEF LineInv, ChildInv

LEMMA ListStep ==
  ASSUME LineInv, Accounted, List
  PROVE  LineInv' /\ Accounted' /\ Bases(branch') = Bases(branch)
<1>1. /\ hop' = "interpret" /\ listed' = inbox
      /\ UNCHANGED <<branch, inbox, children, keep, conflicted, shed, authored,
                     arrivals, steps, crashes>>
  BY DEF List, record, bounds
<1>2. BranchInv' BY <1>1 DEF LineInv, BranchInv
<1>3. ChildInv' BY <1>1 DEF LineInv, ChildInv, IsCompactor, PassInv
<1>4. QueueInv' BY <1>1 DEF LineInv, QueueInv, Running
<1>5. CountInv' BY <1>1 DEF LineInv, CountInv
<1>6. Accounted' BY <1>1 DEF Accounted, HEAD
<1> QED BY <1>1, <1>2, <1>3, <1>4, <1>5, <1>6 DEF LineInv

LEMMA QuiesceStep ==
  ASSUME LineInv, Accounted, Quiesce
  PROVE  LineInv' /\ Accounted' /\ Bases(branch') = Bases(branch)
<1>1. /\ hop' = "boundary"
      /\ UNCHANGED <<branch, listed, inbox, children, keep, conflicted, shed, authored,
                     arrivals, steps, crashes>>
  BY DEF Quiesce, record, bounds
<1>2. BranchInv' BY <1>1 DEF LineInv, BranchInv
<1>3. ChildInv' BY <1>1 DEF LineInv, ChildInv, IsCompactor, PassInv
<1>4. QueueInv' BY <1>1, QueueKept DEF LineInv
<1>5. CountInv' BY <1>1 DEF LineInv, CountInv
<1>6. Accounted' BY <1>1 DEF Accounted, HEAD
<1> QED BY <1>1, <1>2, <1>3, <1>4, <1>5, <1>6 DEF LineInv

\* An entry on the tip of a line.
LEMMA EntryOn ==
  ASSUME NEW line, NEW n \in Nat, LineOK(line, n), NEW x \in Contents,
         NEW m \in Nat, n <= m, x.tag \in 1 .. m, x.about \subseteq 1 .. m
  PROVE  LET e == EntryCommit(TreeOf(line), x)
         IN  /\ LineOK(Append(line, e), m) /\ Bases(Append(line, e)) = Bases(line)
             /\ TreeOf(Append(line, e)) = e.tree /\ Stays(TreeOf(line), e.tree)
             /\ x.tag \in Tags(e.tree)
<1>1. PICK h \in Trees : h = TreeOf(line) BY LineTip
<1>2. Known(h, n) BY <1>1, LineTip
<1>3. PICK e : e = EntryCommit(h, x) OBVIOUS
<1>4. /\ e \in Commits /\ e.subject = "entry"
      /\ Known(e.tree, m) /\ Stays(h, e.tree) /\ x.tag \in Tags(e.tree)
  BY <1>2, <1>3, EntryCommitFacts
<1>5. e.subject # "base" BY <1>4
<1>6. /\ LineOK(Append(line, e), m) /\ Bases(Append(line, e)) = Bases(line)
      /\ TreeOf(Append(line, e)) = e.tree
  BY <1>1, <1>4, <1>5, LineAppends
<1> QED BY <1>1, <1>3, <1>4, <1>6

LEMMA SpeakStep ==
  ASSUME LineInv, Accounted, Speak
  PROVE  LineInv' /\ Accounted' /\ Bases(branch') = Bases(branch)
<1>1. LineOK(branch, authored) /\ authored \in Nat /\ authored + 1 \in Nat /\ HEAD = TreeOf(branch)
  BY InvHead
<1>2. PICK x : x = Content("output", authored + 1, {}) OBVIOUS
<1>3. x \in Contents /\ x.tag = authored + 1 /\ x.about = {}
  BY <1>1, <1>2 DEF Content, Contents, Kinds, EntryKinds
<1>4. PICK e : e = EntryCommit(TreeOf(branch), x) OBVIOUS
<1>5. /\ branch' = Append(branch, e) /\ authored' = authored + 1
      /\ steps' = steps + 1 /\ hop' = "boundary"
      /\ UNCHANGED <<arrivals, listed, inbox, children, keep, conflicted, shed, crashes>>
  BY <1>1, <1>2, <1>4 DEF Speak, record
<1>6. PICK b : b = branch OBVIOUS
<1>7. /\ LineOK(Append(b, e), authored + 1) /\ Bases(Append(b, e)) = Bases(b)
      /\ TreeOf(Append(b, e)) = e.tree /\ Stays(TreeOf(b), e.tree)
      /\ authored + 1 \in Tags(e.tree)
  <2>1. PICK a \in Nat : a = authored BY <1>1
  <2>2. a <= a + 1 /\ x.tag \in 1 .. a + 1 /\ x.about \subseteq 1 .. a + 1 /\ a + 1 \in Nat
    BY <2>1, <1>3
  <2>3. LineOK(b, a) BY <1>1, <1>6, <2>1
  <2> QED BY <2>1, <2>2, <2>3, <1>3, <1>4, <1>6, EntryOn
<1>8. /\ LineOK(branch', authored') /\ Bases(branch') = Bases(branch)
      /\ Stays(HEAD, TreeOf(branch')) /\ authored + 1 \in Tags(TreeOf(branch'))
  BY <1>1, <1>5, <1>6, <1>7
<1>9. Accounted'
  <2>1. (authored + 1) .. authored' \subseteq Tags(TreeOf(branch'))
    BY <1>1, <1>5, <1>8
  <2> QED BY <2>1, <1>1, <1>5, <1>8, GrownAccount
<1>10. ChildInv' BY <1>1, <1>5, <1>8, ChildrenKept DEF LineInv
<1>11. QueueInv' BY <1>5, QueueKept DEF LineInv
<1>12. BranchInv' BY <1>5, <1>8 DEF LineInv, BranchInv
<1>13. CountInv'
  <2>1. CountInv BY DEF LineInv
  <2>2. 1 .. authored \subseteq 1 .. authored' BY <1>1, <1>5
  <2> QED BY <2>1, <2>2, <1>1, <1>5 DEF CountInv
<1> QED BY <1>8, <1>9, <1>10, <1>11, <1>12, <1>13 DEF LineInv

\* The transfer puts work products on the tip, and takes and changes nothing else.
LEMMA TransferFacts ==
  ASSUME LineInv, NEW c \in DOMAIN children
  PROVE  /\ TransferredTree(c) \in Trees /\ Known(TransferredTree(c), authored)
         /\ Stays(HEAD, TransferredTree(c))
         /\ \A p \in DOMAIN TransferredTree(c) \ DOMAIN HEAD : p[1] = "work"
<1>1. HEAD \in Trees /\ Known(HEAD, authored) /\ authored \in Nat BY InvHead
<1>2. PICK h \in Trees : h = HEAD BY <1>1
<1>3. PICK tip \in Trees : tip = children[c].tip BY ChildTypes
<1>4. Known(tip, authored) BY <1>3, ChildTypes
<1>5. PICK D : D = Differing(c) OBVIOUS
<1>6. \A p \in D : p[1] = "work" BY <1>5 DEF Differing, InDir
<1>7. PICK K : K = (DOMAIN h \ D) \cup (D \cap DOMAIN tip) OBVIOUS
<1>8. PICK u : u = TransferredTree(c) OBVIOUS
<1>9. u = [p \in K |-> IF p \in D \cap DOMAIN tip THEN tip[p] ELSE h[p]]
  BY <1>2, <1>3, <1>5, <1>7, <1>8 DEF TransferredTree
<1>10. u \in Trees
  <2>1. /\ DOMAIN h \subseteq Paths /\ IsFiniteSet(DOMAIN h) /\ \A p \in DOMAIN h : h[p] \in Contents
        /\ DOMAIN tip \subseteq Paths /\ IsFiniteSet(DOMAIN tip)
        /\ \A p \in DOMAIN tip : tip[p] \in Contents
    BY TreeDef
  <2>2. K \in SUBSET Paths BY <2>1, <1>7
  <2>3. IsFiniteSet(K)
    <3>1. IsFiniteSet(DOMAIN h \cup DOMAIN tip) BY <2>1, FS_Union
    <3>2. K \in SUBSET (DOMAIN h \cup DOMAIN tip) BY <1>7
    <3> QED BY <3>1, <3>2, FS_Subset
  <2>4. u \in [K -> Contents] BY <2>1, <1>7, <1>9
  <2> QED BY <2>2, <2>3, <2>4, TreeIntro
<1>11. Known(u, authored)
  <2>1. ASSUME NEW p \in DOMAIN u
        PROVE  u[p].about \subseteq 1 .. authored /\ (p[1] = "msg" => u[p].tag \in 1 .. authored)
    <3>1. CASE p \in D \cap DOMAIN tip
      <4>1. u[p] = tip[p] BY <3>1, <1>7, <1>9
      <4> QED BY <4>1, <3>1, <1>4 DEF Known
    <3>2. CASE p \notin D \cap DOMAIN tip
      <4>1. p \in DOMAIN h /\ u[p] = h[p] BY <3>2, <1>7, <1>9
      <4> QED BY <4>1, <1>1, <1>2 DEF Known
    <3> QED BY <3>1, <3>2
  <2> QED BY <2>1 DEF Known
<1>12. Stays(h, u) BY <1>6, <1>7, <1>9 DEF Stays
<1>13. \A p \in DOMAIN u \ DOMAIN h : p[1] = "work" BY <1>6, <1>7, <1>9
<1> QED BY <1>2, <1>8, <1>10, <1>11, <1>12, <1>13

LEMMA StaysSelf == \A t : Stays(t, t)
BY DEF Stays

LEMMA TransferLine ==
  ASSUME LineInv, NEW c \in DOMAIN children
  PROVE  /\ LineOK(Transferred(c), authored) /\ Bases(Transferred(c)) = Bases(branch)
         /\ Stays(HEAD, TreeOf(Transferred(c)))
<1>1. LineOK(branch, authored) /\ authored \in Nat /\ HEAD = TreeOf(branch) BY InvHead
<1>2. PICK line : line = Transferred(c) OBVIOUS
<1>3. CASE line = branch BY <1>1, <1>2, <1>3, StaysSelf
<1>4. CASE line = Append(branch, Commit("transfer", c, TransferredTree(c)))
  <2>1. PICK u : u = TransferredTree(c) OBVIOUS
  <2>2. u \in Trees /\ Known(u, authored) /\ Stays(HEAD, u) BY <2>1, TransferFacts
  <2>3. PICK x : x = Commit("transfer", c, u) OBVIOUS
  <2>4. c \in Nat /\ "transfer" \in Subjects BY ChildTypes DEF Subjects
  <2>5. x \in Commits /\ x.tree = u /\ x.subject = "transfer"
    BY <2>2, <2>3, <2>4 DEF Commit, Commits
  <2>6. PICK b : b = branch OBVIOUS
  <2>9. PICK a \in Nat : a = authored BY <1>1
  <2>7. LineOK(b, a) /\ a <= a /\ x.subject # "base" /\ Known(x.tree, a) /\ Stays(TreeOf(b), x.tree)
    BY <1>1, <2>2, <2>5, <2>6, <2>9
  <2>8. /\ LineOK(Append(b, x), a) /\ Bases(Append(b, x)) = Bases(b)
        /\ TreeOf(Append(b, x)) = x.tree
    BY <2>5, <2>7, LineAppends
  <2> QED BY <1>1, <1>2, <1>4, <2>1, <2>2, <2>3, <2>5, <2>6, <2>8, <2>9
<1> QED BY <1>2, <1>3, <1>4 DEF Transferred

LEMMA DeliverResultStep ==
  ASSUME LineInv, Accounted, listed # <<>>, DeliverResult(listed[1])
  PROVE  LineInv' /\ Accounted' /\ Bases(branch') = Bases(branch)
<1>1. PICK c \in DOMAIN children : c = listed[1] BY ListedChild
<1>2. authored \in Nat BY InvHead
<1>3. PICK line : line = Transferred(c) OBVIOUS
<1>4. /\ LineOK(line, authored) /\ Bases(line) = Bases(branch) /\ Stays(HEAD, TreeOf(line))
  BY <1>3, TransferLine
<1>5. PICK x : x = Content("mail", authored + 1, {}) OBVIOUS
<1>6. x \in Contents /\ x.tag = authored + 1 /\ x.about = {} BY <1>2, <1>5, MailContent
<1>7. PICK e : e = EntryCommit(TreeOf(line), x) OBVIOUS
<1>8. UNCHANGED <<keep, children, shed, arrivals, steps>> BY DEF DeliverResult
<1>9. /\ authored' \in Nat /\ authored <= authored' /\ LineOK(branch', authored')
      /\ Bases(branch') = Bases(branch) /\ Stays(HEAD, TreeOf(branch'))
      /\ (authored + 1) .. authored' \subseteq Tags(TreeOf(branch'))
      /\ \/ Consume
         \/ DieAt("transferred")
  <2>1. CASE branch' = Append(line, e) /\ authored' = authored + 1 /\ Consume
    <3>1. PICK a \in Nat : a = authored BY <1>2
    <3>2. a <= a + 1 /\ x.tag \in 1 .. a + 1 /\ x.about \subseteq 1 .. a + 1 /\ a + 1 \in Nat
      BY <3>1, <1>6
    <3>3. /\ LineOK(Append(line, e), a + 1) /\ Bases(Append(line, e)) = Bases(line)
          /\ TreeOf(Append(line, e)) = e.tree /\ Stays(TreeOf(line), e.tree)
          /\ x.tag \in Tags(e.tree)
      BY <3>1, <3>2, <1>4, <1>6, <1>7, EntryOn
    <3>4. Stays(HEAD, e.tree) BY <3>3, <1>4, StaysTrans
    <3>5. (authored + 1) .. authored' \subseteq {authored + 1} BY <2>1, <1>2
    <3> QED BY <2>1, <3>1, <3>2, <3>3, <3>4, <3>5, <1>4, <1>6
  <2>2. CASE branch' = line /\ authored' = authored /\ DieAt("transferred")
    <3>1. (authored + 1) .. authored' = {} /\ authored <= authored' BY <2>2, <1>2
    <3> QED BY <3>1, <2>2, <1>2, <1>4
  <2> QED BY <2>1, <2>2, <1>1, <1>3, <1>5, <1>7 DEF DeliverResult
<1>10. Accounted' BY <1>8, <1>9, GrownAccount
<1>11. ChildInv' BY <1>2, <1>8, <1>9, ChildrenKept DEF LineInv
<1>12. QueueInv' BY <1>8, <1>9, QueueStep DEF LineInv
<1>13. BranchInv' BY <1>8, <1>9 DEF LineInv, BranchInv
<1>14. CountInv'
  <2>1. CountInv BY DEF LineInv
  <2>2. 1 .. authored \subseteq 1 .. authored' BY <1>2, <1>9
  <2>3. conflicted' \subseteq DOMAIN children BY <2>1, <1>1 DEF DeliverResult, CountInv
  <2>4. hop' \in {"boundary", "interpret", "flush"} /\ crashes' \in Nat
    BY <2>1, <1>9 DEF Consume, DieAt, CountInv
  <2>5. authored' \in Nat \ {0} BY <2>1, <1>2, <1>9 DEF CountInv
  <2> QED BY <2>1, <2>2, <2>3, <2>4, <2>5, <1>8 DEF CountInv
<1> QED BY <1>9, <1>10, <1>11, <1>12, <1>13, <1>14 DEF LineInv

-----------------------------------------------------------------------------
(* A step with tools.                                                      *)

LEMMA AffectedFacts ==
  ASSUME NEW effect, NEW t \in Trees, NEW tag \in Nat, NEW n \in Nat, Known(t, n)
  PROVE  /\ Affected(effect, t, tag) \in Trees /\ Known(Affected(effect, t, tag), n)
         /\ Stays(t, Affected(effect, t, tag))
         /\ \A p \in DOMAIN Affected(effect, t, tag) \ DOMAIN t :
               p[1] # "msg" /\ (p[1] = "sum" => Affected(effect, t, tag)[p].kind = "note")
<1>1. CASE effect = "write"
  <2>1. PICK x : x = Content("work", tag, {}) OBVIOUS
  <2>2. x \in Contents /\ x.about = {} BY <2>1 DEF Content, Contents, Kinds
  <2>3. PICK p : p = Work(0) OBVIOUS
  <2>4. p \in Paths /\ p[1] = "work" BY <2>3, PathFacts
  <2>5. PICK u : u = Put(t, p, x) OBVIOUS
  <2>6. u \in Trees /\ DOMAIN u = DOMAIN t \cup {p} BY <2>2, <2>4, <2>5, PutFacts
  <2>7. Known(u, n) /\ Stays(t, u) BY <2>2, <2>4, <2>5, PutKnown, PutStays
  <2>8. Affected(effect, t, tag) = u BY <1>1, <2>1, <2>3, <2>5 DEF Affected
  <2> QED BY <2>4, <2>6, <2>7, <2>8
<1>2. CASE effect = "drop"
  <2>1. PICK u : u = Without(t, {Work(0)}) OBVIOUS
  <2>2. /\ u \in Trees /\ DOMAIN u = DOMAIN t \ {Work(0)}
        /\ \A q \in DOMAIN t \ {Work(0)} : u[q] = t[q]
    BY <2>1, WithoutFacts
  <2>3. Known(u, n) BY <2>1, WithoutKnown
  <2>4. Stays(t, u) BY <2>2, PathFacts DEF Stays
  <2>5. Affected(effect, t, tag) = u BY <1>2, <2>1 DEF Affected
  <2> QED BY <2>2, <2>3, <2>4, <2>5
<1>3. CASE effect = "note"
  <2>1. PICK x : x = Content("note", tag, {}) OBVIOUS
  <2>2. x \in Contents /\ x.about = {} /\ x.kind = "note" BY <2>1 DEF Content, Contents, Kinds
  <2>3. PICK p : p = Sum(NextSeq(t, "sum")) OBVIOUS
  <2>4. p \in Paths \ DOMAIN t /\ p[1] = "sum" BY <2>3, PathFacts, NewSummary
  <2>5. PICK u : u = Put(t, p, x) OBVIOUS
  <2>6. p \in Paths BY <2>4
  <2>7. u \in Trees /\ DOMAIN u = DOMAIN t \cup {p} /\ u[p] = x BY <2>2, <2>5, <2>6, PutFacts
  <2>8. Known(u, n) BY <2>2, <2>4, <2>5, <2>6, PutKnown
  <2>9. Stays(t, u) BY <2>2, <2>4, <2>5, <2>6, PutStays
  <2>10. Affected(effect, t, tag) = u BY <1>3, <2>1, <2>3, <2>5 DEF Affected
  <2> QED BY <2>2, <2>4, <2>7, <2>8, <2>9, <2>10
<1>4. CASE effect \notin {"write", "drop", "note"}
  <2>1. Affected(effect, t, tag) = t BY <1>4 DEF Affected
  <2> QED BY <2>1, StaysSelf
<1> QED BY <1>1, <1>2, <1>3, <1>4

\* The paths of the first i results after entry s, and the tree with them.
ResultPaths(s, i) == {Msg(s + j - 1) : j \in 1 .. i}
ResultContent(a, s, p) == LET tag == a + 2 + p[2] - s IN Content("result", tag, {tag})
ResultTree(t, s, a, i) ==
    [p \in DOMAIN t \cup ResultPaths(s, i) |->
        IF p \in ResultPaths(s, i) THEN ResultContent(a, s, p) ELSE t[p]]

LEMMA ResultTreeFacts ==
  ASSUME NEW t \in Trees, NEW s \in Nat \ {0}, NEW a \in Nat, NEW n \in Nat, NEW i \in 1 .. n,
         \A e \in EntriesIn(t) : e < s, Known(t, a + 1 + n)
  PROVE  LET u == ResultTree(t, s, a, i)
         IN  /\ u \in Trees /\ Known(u, a + 1 + n) /\ Stays(t, u)
             /\ DOMAIN u = DOMAIN t \cup ResultPaths(s, i)
             /\ DOMAIN t \cap ResultPaths(s, i) = {}
             /\ \A p \in DOMAIN t : u[p] = t[p]
             /\ \A j \in 1 .. i :
                   /\ Msg(s + j - 1) \in DOMAIN u
                   /\ u[Msg(s + j - 1)] = Content("result", a + 1 + j, {a + 1 + j})
                   /\ a + 1 + j \in Tags(u)
<1>1. PICK R : R = ResultPaths(s, i) OBVIOUS
<1>2. PICK u : u = ResultTree(t, s, a, i) OBVIOUS
<1>3. u = [p \in DOMAIN t \cup R |-> IF p \in R THEN ResultContent(a, s, p) ELSE t[p]]
  BY <1>1, <1>2 DEF ResultTree
<1>4. i \in Nat /\ i <= n OBVIOUS
<1>5. ASSUME NEW j \in 1 .. i
      PROVE  /\ s + j - 1 \in Nat \ {0} /\ s + j - 1 >= s
             /\ Msg(s + j - 1) \in R /\ Msg(s + j - 1) \in Paths \ DOMAIN t
             /\ ResultContent(a, s, Msg(s + j - 1)) = Content("result", a + 1 + j, {a + 1 + j})
  <2>1. s + j - 1 \in Nat \ {0} /\ s + j - 1 >= s /\ j \in Nat BY <1>4
  <2>2. Msg(s + j - 1) \in R BY <1>1 DEF ResultPaths
  <2>3. PICK k \in Nat \ {0} : k = s + j - 1 BY <2>1
  <2>4. k \notin EntriesIn(t) BY <2>1, <2>3
  <2>5. Msg(k) \in Paths \ DOMAIN t BY <2>4, PathFacts, EntryFacts
  <2>6. Msg(k)[2] = k BY PathFacts
  <2>7. a + 2 + k - s = a + 1 + j BY <2>1, <2>3
  <2> QED BY <2>1, <2>2, <2>3, <2>5, <2>6, <2>7 DEF ResultContent
<1>6. \A p \in R : \E j \in 1 .. i : p = Msg(s + j - 1) BY <1>1 DEF ResultPaths
<1>7. R \subseteq Paths /\ DOMAIN t \cap R = {} BY <1>5, <1>6
<1>8. \A j \in 1 .. i : Content("result", a + 1 + j, {a + 1 + j}) \in Contents
  BY <1>4 DEF Content, Contents, Kinds, EntryKinds
<1>9. \A p \in R : ResultContent(a, s, p) \in Contents BY <1>5, <1>6, <1>8
<1>10. IsFiniteSet(R)
  <2>1. PICK f : f = [j \in 1 .. i |-> Msg(s + j - 1)] OBVIOUS
  <2>2. f \in Surjection(1 .. i, R) BY <2>1, <1>5, <1>6 DEF Surjection
  <2>3. IsFiniteSet(1 .. i) BY <1>4, FS_Interval
  <2> QED BY <2>2, <2>3, FS_Surjection
<1>11. u \in Trees
  <2>1. DOMAIN t \subseteq Paths /\ IsFiniteSet(DOMAIN t) /\ \A p \in DOMAIN t : t[p] \in Contents
    BY TreeDef
  <2>2. PICK D : D = DOMAIN t \cup R OBVIOUS
  <2>3. D \in SUBSET Paths /\ IsFiniteSet(D) BY <2>1, <2>2, <1>7, <1>10, FS_Union
  <2>4. u \in [D -> Contents] BY <2>1, <2>2, <1>3, <1>9
  <2> QED BY <2>3, <2>4, TreeIntro
<1>12. DOMAIN u = DOMAIN t \cup R /\ \A p \in DOMAIN t : u[p] = t[p] BY <1>3, <1>7
<1>13. ASSUME NEW j \in 1 .. i
       PROVE  /\ Msg(s + j - 1) \in DOMAIN u
              /\ u[Msg(s + j - 1)] = Content("result", a + 1 + j, {a + 1 + j})
              /\ a + 1 + j \in Tags(u)
  <2>1. PICK p : p = Msg(s + j - 1) OBVIOUS
  <2>2. p \in R /\ ResultContent(a, s, p) = Content("result", a + 1 + j, {a + 1 + j})
    BY <2>1, <1>5
  <2>3. p \in DOMAIN u /\ u[p] = Content("result", a + 1 + j, {a + 1 + j})
    BY <2>2, <1>3
  <2>4. p[1] = "msg" /\ u[p].tag = a + 1 + j BY <2>1, <2>3, PathFacts DEF Content
  <2> QED BY <2>1, <2>3, <2>4, <1>11, TagsDef
<1>14. Known(u, a + 1 + n)
  <2>1. ASSUME NEW p \in DOMAIN u
        PROVE  /\ u[p].about \subseteq 1 .. a + 1 + n
               /\ p[1] = "msg" => u[p].tag \in 1 .. a + 1 + n
    <3>1. CASE p \in R
      <4>1. PICK j \in 1 .. i : p = Msg(s + j - 1) BY <3>1, <1>6
      <4>2. u[p] = Content("result", a + 1 + j, {a + 1 + j}) BY <4>1, <1>13
      <4>3. a + 1 + j \in 1 .. a + 1 + n BY <1>4
      <4> QED BY <4>2, <4>3 DEF Content
    <3>2. CASE p \notin R
      <4>1. p \in DOMAIN t /\ u[p] = t[p] BY <3>2, <1>12
      <4> QED BY <4>1 DEF Known
    <3> QED BY <3>1, <3>2
  <2> QED BY <2>1 DEF Known
<1>15. Stays(t, u) BY <1>12 DEF Stays
<1> QED BY <1>1, <1>2, <1>7, <1>11, <1>12, <1>13, <1>14, <1>15

-----------------------------------------------------------------------------
(* The children.                                                           *)

LEMMA AppendFacts ==
  ASSUME NEW T, NEW s \in Seq(T), NEW r \in T
  PROVE  /\ Append(s, r) \in Seq(T) /\ DOMAIN s \subseteq DOMAIN Append(s, r)
         /\ DOMAIN Append(s, r) = 1 .. Len(s) + 1 /\ DOMAIN s = 1 .. Len(s)
         /\ Len(s) \in Nat
         /\ \A i \in DOMAIN s : Append(s, r)[i] = s[i]
         /\ Append(s, r)[Len(s) + 1] = r
<1>1. /\ Append(s, r) \in Seq(T) /\ Len(Append(s, r)) = Len(s) + 1
      /\ \A i \in 1 .. Len(s) : Append(s, r)[i] = s[i]
      /\ Append(s, r)[Len(s) + 1] = r
  BY AppendProperties
<1>2. DOMAIN s = 1 .. Len(s) /\ Len(s) \in Nat BY LenProperties
<1>3. DOMAIN Append(s, r) = 1 .. Len(s) + 1 BY <1>1, LenProperties
<1> QED BY <1>1, <1>2, <1>3

LEMMA ChildAdded ==
  ASSUME LineInv, NEW r \in ChildRecords, children' = Append(children, r),
         authored' \in Nat, authored <= authored', Bases(branch) \subseteq Bases(branch'),
         Known(r.founded, authored'), Known(r.tip, authored'),
         r.role = "compactor" => PassInv(r),
         Bases(r.past) \subseteq DOMAIN children \cap Bases(branch'),
         UNCHANGED <<inbox, listed>>
  PROVE  ChildInv' /\ QueueInv' /\ DOMAIN children \subseteq DOMAIN (children')
<1>1. ChildInv /\ QueueInv /\ children \in Seq(ChildRecords) /\ authored \in Nat
  BY InvHead DEF LineInv, ChildInv
<1>2. PICK s \in Seq(ChildRecords) : s = children BY <1>1
<1>3. PICK u : u = Append(s, r) OBVIOUS
<1>4. /\ u \in Seq(ChildRecords) /\ DOMAIN s \subseteq DOMAIN u
      /\ DOMAIN u = 1 .. Len(s) + 1 /\ DOMAIN s = 1 .. Len(s) /\ Len(s) \in Nat
      /\ \A i \in DOMAIN s : u[i] = s[i]
      /\ u[Len(s) + 1] = r
  BY <1>3, AppendFacts
<1>5. children' = u BY <1>2, <1>3
<1>6. ASSUME NEW c \in DOMAIN u
      PROVE  /\ Known(u[c].founded, authored') /\ Known(u[c].tip, authored')
             /\ u[c].role = "compactor" => PassInv(u[c])
             /\ Bases(u[c].past) \subseteq (1 .. c - 1) \cap Bases(branch')
  <2>1. CASE c \in DOMAIN s
    <3>1. u[c] = s[c] BY <2>1, <1>4
    <3>2. /\ Known(s[c].founded, authored) /\ Known(s[c].tip, authored)
          /\ s[c].role = "compactor" => PassInv(s[c])
          /\ Bases(s[c].past) \subseteq (1 .. c - 1) \cap Bases(branch)
      BY <2>1, <1>1, <1>2 DEF ChildInv, IsCompactor
    <3> QED BY <3>1, <3>2, <1>1, KnownGrows
  <2>2. CASE c \notin DOMAIN s
    <3>1. c = Len(s) + 1 /\ c - 1 = Len(s) BY <2>2, <1>4
    <3>2. u[c] = r BY <3>1, <1>4
    <3> QED BY <3>1, <3>2, <1>2, <1>4
  <2> QED BY <2>1, <2>2
<1>7. ChildInv' BY <1>4, <1>5, <1>6 DEF ChildInv, IsCompactor, PassInv
<1>8. QueueInv'
  <2>1. /\ inbox \in Seq(Nat) /\ listed \in Seq(Nat)
        /\ \A i \in DOMAIN inbox : inbox[i] \in DOMAIN s /\ s[inbox[i]].epitaph # "running"
        /\ \A i, j \in DOMAIN inbox : inbox[i] = inbox[j] => i = j
        /\ \A i \in DOMAIN listed : \E j \in DOMAIN inbox : inbox[j] = listed[i]
        /\ \A i, j \in DOMAIN listed : listed[i] = listed[j] => i = j
    BY <1>1, <1>2 DEF QueueInv, Running
  <2>2. \A i \in DOMAIN inbox : inbox[i] \in DOMAIN u /\ u[inbox[i]].epitaph # "running"
    BY <2>1, <1>4
  <2> QED BY <2>1, <2>2, <1>5 DEF QueueInv, Running
<1> QED BY <1>2, <1>4, <1>5, <1>7, <1>8

LEMMA ChildMade ==
  ASSUME NEW role \in {"compactor", "worker"}, NEW past \in Seq(Commits), NEW founded \in Trees
  PROVE  LET r == Child(role, past, founded)
         IN  /\ r \in ChildRecords /\ r.role = role /\ r.past = past
             /\ r.founded = founded /\ r.tip = founded
BY DEF Child, ChildRecords, Epitaphs

\* The line up to a point of the branch.
LEMMA PrefixLine ==
  ASSUME NEW line, NEW n \in Nat, LineOK(line, n), NEW k \in 2 .. Len(line)
  PROVE  LET past == SubSeq(line, 1, k)
         IN  /\ LineOK(past, n) /\ Len(past) = k /\ Bases(past) \subseteq Bases(line)
             /\ TreeOf(past) = line[k].tree /\ \A i \in 1 .. k : past[i] = line[i]
<1>1. line \in Seq(Commits) /\ Len(line) \in Nat /\ k \in Nat /\ k > 1 /\ k <= Len(line)
  BY LineTip
<1>2. PICK past : past = SubSeq(line, 1, k) OBVIOUS
<1>3. past \in Seq(Commits) /\ Len(past) = k /\ \A i \in 1 .. k : past[i] = line[i]
  <2>1. 1 \in Int /\ k \in Int /\ \A j \in 1 .. k : line[j] \in Commits
    <3>1. \A j \in 1 .. k : j \in 1 .. Len(line) BY <1>1
    <3> QED BY <3>1, <1>1, ElementOfSeq
  <2>2. /\ past \in Seq(Commits) /\ Len(past) = IF 1 <= k THEN k - 1 + 1 ELSE 0
        /\ \A i \in 1 .. k - 1 + 1 : past[i] = line[1 + i - 1]
    BY <2>1, <1>2, SubSeqProperties
  <2>3. \A i \in 1 .. k : i \in 1 .. k - 1 + 1 /\ 1 + i - 1 = i BY <1>1
  <2> QED BY <2>2, <2>3, <1>1
<1>4. \A i \in 1 .. k : i \in 1 .. Len(line) BY <1>1
<1>5. LineOK(past, n)
  <2>1. Len(past) > 1 /\ past[1] = line[1] BY <1>1, <1>3
  <2>2. line[1].subject = "founding" BY DEF LineOK
  <2>3. \A i \in 1 .. Len(past) : Known(past[i].tree, n) BY <1>3, <1>4 DEF LineOK
  <2>4. \A i \in 2 .. Len(past) : HasGoal(past[i].tree)
    <3>1. \A i \in 2 .. k : i \in 1 .. k /\ i \in 2 .. Len(line) BY <1>1
    <3> QED BY <3>1, <1>3 DEF LineOK
  <2> QED BY <2>1, <2>2, <2>3, <2>4, <1>3 DEF LineOK
<1>6. Bases(past) \subseteq Bases(line)
  <2>1. ASSUME NEW c \in Bases(past) PROVE c \in Bases(line)
    <3>1. PICK i \in 1 .. Len(past) : past[i].subject = "base" /\ past[i].by = c
      BY <1>3, BasesDef
    <3> QED BY <3>1, <1>1, <1>3, <1>4, BasesDef
  <2> QED BY <2>1
<1>7. TreeOf(past) = line[k].tree
  <2>1. TreeOf(past) = past[Len(past)].tree BY <1>1, <1>3, TipOf
  <2> QED BY <2>1, <1>1, <1>3
<1> QED BY <1>2, <1>3, <1>5, <1>6, <1>7

\* The origin of a line is its newest founding commit or base.
LEMMA OriginFacts ==
  ASSUME NEW line, NEW n, LineOK(line, n)
  PROVE  /\ Origin(line) \in 1 .. Len(line)
         /\ line[Origin(line)].subject \in {"founding", "base"}
         /\ \A i \in Origin(line) + 1 .. Len(line) :
               line[i].subject \notin {"founding", "base"}
<1>1. line \in Seq(Commits) /\ Len(line) \in Nat /\ Len(line) > 1 BY LineTip
<1>2. DOMAIN line = 1 .. Len(line) BY <1>1, LenProperties
<1>3. PICK S : S = {i \in DOMAIN line : line[i].subject \in {"founding", "base"}} OBVIOUS
<1>4. S \subseteq 1 .. Len(line) /\ S \subseteq Nat BY <1>2, <1>3
<1>5. IsFiniteSet(S)
  <2>1. IsFiniteSet(1 .. Len(line)) BY <1>1, FS_Interval
  <2>2. S \in SUBSET (1 .. Len(line)) BY <1>4
  <2> QED BY <2>1, <2>2, FS_Subset
<1>6. 1 \in S
  <2>1. line[1].subject = "founding" BY DEF LineOK
  <2> QED BY <2>1, <1>1, <1>2, <1>3
<1>7. Greatest(S) \in S /\ \A m \in S : m <= Greatest(S) BY <1>4, <1>5, <1>6, GreatestIsOne
<1>8. PICK g \in S : g = Greatest(S) /\ \A m \in S : m <= g BY <1>7
<1>9. Origin(line) = g BY <1>3, <1>8 DEF Origin
<1>10. \A i \in g + 1 .. Len(line) : line[i].subject \notin {"founding", "base"}
  <2>1. SUFFICES ASSUME NEW i \in g + 1 .. Len(line), line[i].subject \in {"founding", "base"}
                 PROVE FALSE
    OBVIOUS
  <2>2. g \in Nat /\ i \in DOMAIN line /\ i > g BY <1>2, <1>4
  <2>3. i \in S BY <2>1, <2>2, <1>3
  <2>4. i <= g BY <2>3, <1>8
  <2> QED BY <2>2, <2>4
<1> QED BY <1>3, <1>4, <1>9, <1>10

LEMMA FlushStep ==
  ASSUME LineInv, Accounted, Flush
  PROVE  LineInv' /\ Accounted' /\ Bases(branch') = Bases(branch)
<1>1. /\ hop' = "boundary"
      /\ UNCHANGED <<branch, listed, inbox, keep, conflicted, shed, authored,
                     arrivals, steps, crashes>>
  BY DEF Flush, record, bounds
<1>2. /\ LineOK(branch, authored) /\ Len(branch) \in Nat /\ Len(branch) > 1
      /\ authored \in Nat /\ HEAD = TreeOf(branch) /\ branch \in Seq(Commits)
  BY InvHead
<1>3. /\ ChildInv' /\ QueueInv' /\ DOMAIN children \subseteq DOMAIN (children')
  <2>1. CASE UNCHANGED children
    <3>1. ChildInv' BY <2>1, <1>1, <1>2, ChildrenKept DEF LineInv
    <3>2. QueueInv' BY <2>1, <1>1, QueueKept DEF LineInv
    <3> QED BY <3>1, <3>2, <2>1
  <2>2. CASE CheckpointDue /\ HasPoint
    <3>1. children' = Append(children, Child("compactor", Past, CompactorTree(TreeOf(Past))))
      BY <2>2 DEF Flush
    <3>2. PICK o \in 1 .. Len(branch) : o = Origin(branch) BY <1>2, OriginFacts
    <3>3. keep \in Nat BY DEF LineInv, CountInv
    <3>4. Len(branch) - o > 0
      <4>1. EveryN \in Nat BY ClockAssumption
      <4> QED BY <4>1, <3>2, <1>2, <2>2 DEF CheckpointDue, CommitsSince
    <3>5. Len(branch) - keep \in 2 .. Len(branch)
      <4>1. keep = 0 \/ Len(branch) - o > keep BY <3>2, <2>2 DEF HasPoint, CommitsSince
      <4> QED BY <4>1, <3>2, <3>3, <3>4, <1>2
    <3>6. PICK k \in 2 .. Len(branch) : k = Len(branch) - keep BY <3>5
    <3>7. PICK past : past = Past OBVIOUS
    <3>8. past = SubSeq(branch, 1, k) BY <3>6, <3>7 DEF Past
    <3>9. /\ LineOK(past, authored) /\ Len(past) = k /\ Bases(past) \subseteq Bases(branch)
      <4>1. PICK b : b = branch OBVIOUS
      <4>2. PICK a \in Nat : a = authored BY <1>2
      <4>3. LineOK(b, a) /\ k \in 2 .. Len(b) BY <4>1, <4>2, <1>2
      <4>4. past = SubSeq(b, 1, k) BY <4>1, <3>8
      <4> QED BY <4>1, <4>2, <4>3, <4>4, PrefixLine
    <3>10. past \in Seq(Commits) /\ TreeOf(past) \in Trees /\ Known(TreeOf(past), authored)
      BY <3>9, LineTip
    <3>11. PICK founded : founded = CompactorTree(TreeOf(past)) OBVIOUS
    <3>12. founded \in Trees /\ Known(founded, authored)
      BY <3>10, <3>11, <1>2, WithoutFacts, WithoutKnown DEF CompactorTree
    <3>13. PICK r : r = Child("compactor", past, founded) OBVIOUS
    <3>14. /\ r \in ChildRecords /\ r.role = "compactor" /\ r.past = past
           /\ r.founded = founded /\ r.tip = founded
      BY <3>10, <3>12, <3>13, ChildMade
    <3>15. PassInv(r)
      <4>1. Len(r.past) > 1 BY <3>6, <3>9, <3>14
      <4> QED BY <4>1, <3>11, <3>14 DEF PassInv
    <3>16. Bases(branch) \subseteq DOMAIN children BY DEF LineInv, BranchInv
    <3>17. children' = Append(children, r) BY <3>1, <3>7, <3>11, <3>13
    <3>18. Bases(r.past) \subseteq DOMAIN children \cap Bases(branch') BY <3>9, <3>14, <3>16, <1>1
    <3>19. Known(r.founded, authored') /\ Known(r.tip, authored') BY <3>12, <3>14, <1>1
    <3>20. authored' \in Nat /\ authored <= authored' /\ Bases(branch) \subseteq Bases(branch')
      BY <1>1, <1>2
    <3> QED BY <3>14, <3>15, <3>17, <3>18, <3>19, <3>20, <1>1, ChildAdded
  <2> QED BY <2>1, <2>2 DEF Flush
<1>4. BranchInv' BY <1>1, <1>3 DEF LineInv, BranchInv
<1>5. CountInv' BY <1>1, <1>3 DEF LineInv, CountInv
<1>6. Accounted' BY <1>1 DEF Accounted, HEAD
<1> QED BY <1>1, <1>3, <1>4, <1>5, <1>6 DEF LineInv

\* One child changes, and nothing else.
LEMMA ChildChanged ==
  ASSUME LineInv, NEW c \in DOMAIN children, NEW r \in ChildRecords,
         children' = [children EXCEPT ![c] = r],
         r.role = children[c].role, r.past = children[c].past,
         r.founded = children[c].founded,
         Known(r.tip, authored), r.role = "compactor" => PassInv(r),
         UNCHANGED <<branch, authored>>
  PROVE  ChildInv' /\ DOMAIN (children') = DOMAIN children
<1>1. ChildInv /\ children \in Seq(ChildRecords) BY DEF LineInv, ChildInv
<1>2. PICK s \in Seq(ChildRecords) : s = children BY <1>1
<1>3. PICK u : u = [s EXCEPT ![c] = r] OBVIOUS
<1>4. u \in Seq(ChildRecords) /\ DOMAIN u = DOMAIN s
  <2>1. Len(s) \in Nat /\ DOMAIN s = 1 .. Len(s) /\ s \in [1 .. Len(s) -> ChildRecords]
    BY LenProperties
  <2>2. u \in [1 .. Len(s) -> ChildRecords] BY <2>1, <1>2, <1>3
  <2>3. u \in Seq(ChildRecords) BY <2>1, <2>2, IsASeq
  <2> QED BY <2>2, <2>3, <2>1
<1>5. u[c] = r /\ \A d \in DOMAIN s : d # c => u[d] = s[d] BY <1>2, <1>3
<1>6. children' = u BY <1>2, <1>3
<1>7. ASSUME NEW d \in DOMAIN u
      PROVE  /\ Known(u[d].founded, authored) /\ Known(u[d].tip, authored)
             /\ u[d].role = "compactor" => PassInv(u[d])
             /\ Bases(u[d].past) \subseteq (1 .. d - 1) \cap Bases(branch)
  <2>1. /\ Known(s[d].founded, authored) /\ Known(s[d].tip, authored)
        /\ s[d].role = "compactor" => PassInv(s[d])
        /\ Bases(s[d].past) \subseteq (1 .. d - 1) \cap Bases(branch)
    BY <1>1, <1>2, <1>4 DEF ChildInv, IsCompactor
  <2>2. CASE d = c BY <2>1, <2>2, <1>2, <1>5
  <2>3. CASE d # c BY <2>1, <2>3, <1>4, <1>5
  <2> QED BY <2>2, <2>3
<1> QED BY <1>2, <1>4, <1>6, <1>7 DEF ChildInv, IsCompactor, PassInv

\* One more file that covers what the pass was shown.
LEMMA WriteSummaryFacts ==
  ASSUME LineInv, NEW c \in DOMAIN children, IsCompactor(c), NEW t,
         t = Put(children[c].tip, Sum(NextSeq(children[c].tip, "sum")),
                 Content("summary", c, Tags(children[c].founded) \cup Covered(children[c].founded)))
  PROVE  /\ t \in Trees /\ Known(t, authored)
         /\ PassInv([children[c] EXCEPT !.tip = t, !.tools = @ + 1])
<1>1. /\ children[c] \in ChildRecords /\ c \in Nat /\ PassInv(children[c])
      /\ Known(children[c].founded, authored) /\ Known(children[c].tip, authored)
      /\ children[c].tip \in Trees /\ children[c].founded \in Trees
  BY ChildTypes
<1>2. authored \in Nat BY InvHead
<1>3. PICK r \in ChildRecords : r = children[c] BY <1>1
<1>4. PICK f \in Trees, tip \in Trees : f = r.founded /\ tip = r.tip BY <1>1, <1>3
<1>5. PICK A : A = Tags(f) \cup Covered(f) OBVIOUS
<1>6. A \subseteq 1 .. authored BY <1>1, <1>2, <1>3, <1>4, <1>5, SeenKnown
<1>7. PICK x : x = Content("summary", c, A) OBVIOUS
<1>8. x \in Contents /\ x.about = A /\ x.kind = "summary"
  BY <1>1, <1>6, <1>7 DEF Content, Contents, Kinds
<1>9. PICK p : p = Sum(NextSeq(tip, "sum")) OBVIOUS
<1>10. p \in Paths \ DOMAIN tip /\ p[1] = "sum" BY <1>9, NewSummary, PathFacts
<1>11. p \in Paths BY <1>10
<1>12. t = Put(tip, p, x) BY <1>3, <1>4, <1>5, <1>7, <1>9
<1>13. /\ t \in Trees /\ DOMAIN t = DOMAIN tip \cup {p} /\ t[p] = x
       /\ \A q \in DOMAIN tip : q # p => t[q] = tip[q]
  <2>1. x \in Contents BY <1>8
  <2>2. PICK u : u = Put(tip, p, x) OBVIOUS
  <2>3. u \in Trees BY <2>1, <2>2, <1>11, PutFacts
  <2>4. DOMAIN u = DOMAIN tip \cup {p} BY <2>1, <2>2, <1>11, PutFacts
  <2>5. u[p] = x BY <2>1, <2>2, <1>11, PutFacts
  <2>6. \A q \in DOMAIN tip : q # p => u[q] = tip[q] BY <2>1, <2>2, <1>11, PutFacts
  <2> QED BY <2>2, <2>3, <2>4, <2>5, <2>6, <1>12
<1>14. Known(t, authored)
  <2>1. PICK a \in Nat : a = authored BY <1>2
  <2>2. Known(tip, a) /\ x.about \subseteq 1 .. a /\ (p[1] = "msg" => x.tag \in 1 .. a)
    BY <2>1, <1>1, <1>3, <1>4, <1>6, <1>8, <1>10
  <2> QED BY <2>1, <2>2, <1>8, <1>11, <1>12, PutKnown
<1>15. PICK q : q = [r EXCEPT !.tip = t, !.tools = @ + 1] OBVIOUS
<1>16. q.past = r.past /\ q.founded = f /\ q.tip = t BY <1>4, <1>15 DEF ChildRecords
<1>17. PassInv(q)
  <2>1. PassInv(r) BY <1>1, <1>3
  <2>2. Len(q.past) > 1 /\ q.founded = CompactorTree(TreeOf(q.past))
    BY <2>1, <1>4, <1>16 DEF PassInv
  <2>3. ASSUME NEW y \in DOMAIN t \ DOMAIN f
        PROVE  y[1] = "sum" /\ t[y].kind = "summary" /\ t[y].about = Tags(f) \cup Covered(f)
    <3>1. CASE y = p BY <3>1, <1>5, <1>8, <1>10, <1>13
    <3>2. CASE y # p
      <4>1. y \in DOMAIN tip \ DOMAIN f /\ t[y] = tip[y] BY <3>2, <1>13
      <4> QED BY <4>1, <2>1, <1>4 DEF PassInv
    <3> QED BY <3>1, <3>2
  <2>4. ASSUME NEW y \in DOMAIN f \ DOMAIN t
        PROVE  y # Msg(1) /\ f[y].kind \in Sheddable
    <3>1. y \in DOMAIN f \ DOMAIN tip BY <1>13
    <3> QED BY <3>1, <2>1, <1>4 DEF PassInv
  <2> QED BY <2>2, <2>3, <2>4, <1>16 DEF PassInv
<1> QED BY <1>3, <1>13, <1>14, <1>15, <1>17

\* One file less, that was there when the pass was founded.
LEMMA NominateFacts ==
  ASSUME LineInv, NEW c \in DOMAIN children, IsCompactor(c), NEW p,
         p \in Nominable(c), children[c].tip[p].kind \in Sheddable,
         NEW t, t = Without(children[c].tip, {p})
  PROVE  /\ t \in Trees /\ Known(t, authored)
         /\ PassInv([children[c] EXCEPT !.tip = t, !.tools = @ + 1])
<1>1. /\ children[c] \in ChildRecords /\ PassInv(children[c])
      /\ Known(children[c].tip, authored)
      /\ children[c].tip \in Trees /\ children[c].founded \in Trees
  BY ChildTypes
<1>2. authored \in Nat BY InvHead
<1>3. PICK r \in ChildRecords : r = children[c] BY <1>1
<1>4. PICK f \in Trees, tip \in Trees : f = r.founded /\ tip = r.tip BY <1>1, <1>3
<1>5. t \in Trees /\ DOMAIN t = DOMAIN tip \ {p} /\ \A q \in DOMAIN t : t[q] = tip[q]
  <2>1. PICK gone : gone = {p} OBVIOUS
  <2>2. PICK u : u = Without(tip, gone) OBVIOUS
  <2>3. u \in Trees BY <2>2, WithoutFacts
  <2>4. DOMAIN u = DOMAIN tip \ gone BY <2>2, WithoutFacts
  <2>5. \A q \in DOMAIN tip \ gone : u[q] = tip[q] BY <2>2, WithoutFacts
  <2>6. t = u BY <2>1, <2>2, <1>3, <1>4
  <2> QED BY <2>1, <2>3, <2>4, <2>5, <2>6
<1>6. Known(t, authored) BY <1>1, <1>2, <1>3, <1>4, WithoutKnown
<1>7. p \in DOMAIN tip /\ p # Msg(1) /\ FileAt(f, p) = tip[p]
  BY <1>3, <1>4 DEF Nominable, OwnProduct
<1>8. p \in DOMAIN f /\ f[p] = tip[p]
  <2>1. PassInv(r) BY <1>1, <1>3
  <2>2. CASE p \in DOMAIN f BY <2>2, <1>7 DEF FileAt
  <2>3. CASE p \notin DOMAIN f
    <3>1. tip[p].kind = "summary" BY <2>1, <2>3, <1>4, <1>7 DEF PassInv
    <3>2. tip[p] = Absent BY <2>3, <1>7 DEF FileAt
    <3> QED BY <3>1, <3>2 DEF Absent, Content
  <2> QED BY <2>2, <2>3
<1>9. PICK q : q = [r EXCEPT !.tip = t, !.tools = @ + 1] OBVIOUS
<1>10. q.past = r.past /\ q.founded = f /\ q.tip = t BY <1>4, <1>9 DEF ChildRecords
<1>11. PassInv(q)
  <2>1. PassInv(r) BY <1>1, <1>3
  <2>2. Len(q.past) > 1 /\ q.founded = CompactorTree(TreeOf(q.past))
    BY <2>1, <1>4, <1>10 DEF PassInv
  <2>3. ASSUME NEW y \in DOMAIN t \ DOMAIN f
        PROVE  y[1] = "sum" /\ t[y].kind = "summary" /\ t[y].about = Tags(f) \cup Covered(f)
    BY <2>1, <1>4, <1>5 DEF PassInv
  <2>4. ASSUME NEW y \in DOMAIN f \ DOMAIN t
        PROVE  y # Msg(1) /\ f[y].kind \in Sheddable
    <3>1. CASE y = p BY <3>1, <1>3, <1>4, <1>7, <1>8
    <3>2. CASE y # p
      <4>1. y \in DOMAIN f \ DOMAIN tip BY <3>2, <1>5
      <4> QED BY <4>1, <2>1, <1>4 DEF PassInv
    <3> QED BY <3>1, <3>2
  <2> QED BY <2>2, <2>3, <2>4, <1>10 DEF PassInv
<1> QED BY <1>3, <1>5, <1>6, <1>9, <1>11

LEMMA ToolTaken ==
  ASSUME LineInv, NEW c \in DOMAIN children, NEW t \in Trees,
         children' = [children EXCEPT ![c].tip = t, ![c].tools = @ + 1]
  PROVE  LET r == [children[c] EXCEPT !.tip = t, !.tools = @ + 1]
         IN  /\ r \in ChildRecords /\ children' = [children EXCEPT ![c] = r]
             /\ r.role = children[c].role /\ r.past = children[c].past
             /\ r.founded = children[c].founded /\ r.tip = t
             /\ r.epitaph = children[c].epitaph
<1>1. children[c] \in ChildRecords BY ChildTypes
<1>2. PICK s : s = children OBVIOUS
<1>3. PICK o \in ChildRecords : o = s[c] BY <1>1, <1>2
<1>4. PICK r : r = [o EXCEPT !.tip = t, !.tools = @ + 1] OBVIOUS
<1>5. /\ r \in ChildRecords /\ r.role = o.role /\ r.past = o.past /\ r.founded = o.founded
      /\ r.tip = t /\ r.epitaph = o.epitaph
  <2>1. o.tools + 1 \in Nat BY DEF ChildRecords
  <2> QED BY <2>1, <1>4 DEF ChildRecords
<1>6. [s EXCEPT ![c].tip = t, ![c].tools = @ + 1] = [s EXCEPT ![c] = r]
  BY <1>2, <1>3, <1>4
<1> QED BY <1>2, <1>3, <1>4, <1>5, <1>6

LEMMA CompactorToolStep ==
  ASSUME LineInv, Accounted, NEW c \in DOMAIN children, CompactorTool(c)
  PROVE  LineInv' /\ Accounted' /\ Bases(branch') = Bases(branch)
<1>1. UNCHANGED <<branch, hop, listed, inbox, keep, conflicted, shed, authored,
                  arrivals, steps, crashes>>
  BY DEF CompactorTool, record, bounds
<1>2. IsCompactor(c) /\ Running(c) BY DEF CompactorTool, Compacting, OfRole, IsCompactor
<1>3. PICK t : /\ t \in Trees /\ Known(t, authored)
               /\ PassInv([children[c] EXCEPT !.tip = t, !.tools = @ + 1])
               /\ children' = [children EXCEPT ![c].tip = t, ![c].tools = @ + 1]
  <2>1. CASE WriteSummary(c)
    <3>1. PICK t : t = Put(children[c].tip, Sum(NextSeq(children[c].tip, "sum")),
             Content("summary", c, Tags(children[c].founded) \cup Covered(children[c].founded)))
      OBVIOUS
    <3>2. children' = [children EXCEPT ![c].tip = t, ![c].tools = @ + 1]
      BY <2>1, <3>1 DEF WriteSummary
    <3> QED BY <3>1, <3>2, <1>2, WriteSummaryFacts
  <2>2. CASE \E p \in DOMAIN children[c].tip : MarkForDeletion(c, p)
    <3>1. PICK p \in DOMAIN children[c].tip : MarkForDeletion(c, p) BY <2>2
    <3>2. PICK t : t = Without(children[c].tip, {p}) OBVIOUS
    <3>3. children' = [children EXCEPT ![c].tip = t, ![c].tools = @ + 1]
      BY <3>1, <3>2 DEF MarkForDeletion
    <3>4. p \in Nominable(c) /\ children[c].tip[p].kind \in Sheddable
      BY <3>1 DEF MarkForDeletion
    <3> QED BY <3>2, <3>3, <3>4, <1>2, NominateFacts
  <2> QED BY <2>1, <2>2 DEF CompactorTool
<1>4. PICK r : r = [children[c] EXCEPT !.tip = t, !.tools = @ + 1] OBVIOUS
<1>5. /\ r \in ChildRecords /\ children' = [children EXCEPT ![c] = r]
      /\ r.role = children[c].role /\ r.past = children[c].past
      /\ r.founded = children[c].founded /\ r.tip = t
      /\ r.epitaph = children[c].epitaph
  BY <1>3, <1>4, ToolTaken
<1>6. PassInv(r) BY <1>3, <1>4
<1>7. Known(r.tip, authored) BY <1>3, <1>5
<1>8. ChildInv' /\ DOMAIN (children') = DOMAIN children
  BY <1>1, <1>5, <1>6, <1>7, ChildChanged
<1>9. \A d \in DOMAIN children : children'[d].epitaph = children[d].epitaph BY <1>5
<1>10. QueueInv' BY <1>1, <1>8, <1>9 DEF LineInv, QueueInv, Running
<1>11. BranchInv' BY <1>1, <1>8 DEF LineInv, BranchInv
<1>12. CountInv' BY <1>1, <1>8 DEF LineInv, CountInv
<1>13. Accounted' BY <1>1 DEF Accounted, HEAD
<1> QED BY <1>1, <1>8, <1>10, <1>11, <1>12, <1>13 DEF LineInv

LEMMA ReturnStep ==
  ASSUME LineInv, Accounted, NEW c \in DOMAIN children, NEW epitaph \in Epitaphs, NEW t \in Trees,
         epitaph # "running", Known(t, authored), IsCompactor(c) => t = children[c].tip,
         Return(c, epitaph, t)
  PROVE  LineInv' /\ Accounted' /\ Bases(branch') = Bases(branch)
<1>1. /\ children' = [children EXCEPT ![c].epitaph = epitaph, ![c].tip = t]
      /\ inbox' = Append(inbox, c) /\ Running(c)
      /\ UNCHANGED <<branch, hop, listed, keep, conflicted, shed, authored,
                     arrivals, steps, crashes>>
  BY DEF Return, record, bounds
<1>2. children[c] \in ChildRecords /\ (IsCompactor(c) => PassInv(children[c])) BY ChildTypes
<1>3. PICK s : s = children OBVIOUS
<1>4. PICK o \in ChildRecords : o = s[c] BY <1>2, <1>3
<1>5. PICK r : r = [o EXCEPT !.epitaph = epitaph, !.tip = t] OBVIOUS
<1>6. /\ r \in ChildRecords /\ r.role = o.role /\ r.past = o.past /\ r.founded = o.founded
      /\ r.tip = t /\ r.epitaph = epitaph
  BY <1>5 DEF ChildRecords
<1>7. children' = [children EXCEPT ![c] = r]
  <2>1. [s EXCEPT ![c].epitaph = epitaph, ![c].tip = t] = [s EXCEPT ![c] = r]
    BY <1>3, <1>4, <1>5
  <2> QED BY <2>1, <1>1, <1>3
<1>8. r.role = "compactor" => PassInv(r)
  <2>1. SUFFICES ASSUME r.role = "compactor" PROVE PassInv(r) OBVIOUS
  <2>2. IsCompactor(c) BY <2>1, <1>3, <1>4, <1>6 DEF IsCompactor
  <2>3. PassInv(o) /\ t = o.tip BY <2>2, <1>2, <1>3, <1>4
  <2> QED BY <2>3, <1>6 DEF PassInv
<1>9. ChildInv' /\ DOMAIN (children') = DOMAIN children
  BY <1>1, <1>3, <1>4, <1>6, <1>7, <1>8, ChildChanged
<1>10. /\ children'[c].epitaph = epitaph
       /\ \A d \in DOMAIN children : d # c => children'[d] = children[d]
  BY <1>6, <1>7
<1>11. QueueInv'
  <2>1. /\ inbox \in Seq(Nat) /\ listed \in Seq(Nat)
        /\ \A i \in DOMAIN inbox : inbox[i] \in DOMAIN children /\ ~Running(inbox[i])
        /\ \A i, j \in DOMAIN inbox : inbox[i] = inbox[j] => i = j
        /\ \A i \in DOMAIN listed : \E j \in DOMAIN inbox : inbox[j] = listed[i]
        /\ \A i, j \in DOMAIN listed : listed[i] = listed[j] => i = j
    BY DEF LineInv, QueueInv
  <2>2. c \in Nat BY ChildTypes
  <2>3. PICK q \in Seq(Nat) : q = inbox BY <2>1
  <2>4. PICK u : u = Append(q, c) OBVIOUS
  <2>5. /\ u \in Seq(Nat) /\ DOMAIN q \subseteq DOMAIN u
        /\ DOMAIN u = 1 .. Len(q) + 1 /\ DOMAIN q = 1 .. Len(q) /\ Len(q) \in Nat
        /\ \A i \in DOMAIN q : u[i] = q[i]
        /\ u[Len(q) + 1] = c
    BY <2>2, <2>4, AppendFacts
  <2>6. inbox' = u BY <1>1, <2>3, <2>4
  <2>7. \A i \in DOMAIN q : q[i] # c BY <2>1, <2>3, <1>1
  <2>8. \A i \in DOMAIN u : i \in DOMAIN q \/ i = Len(q) + 1 BY <2>5
  <2>9. \A i \in DOMAIN u : u[i] \in DOMAIN (children') /\ children'[u[i]].epitaph # "running"
    <3>1. SUFFICES ASSUME NEW i \in DOMAIN u
                   PROVE  u[i] \in DOMAIN (children') /\ children'[u[i]].epitaph # "running"
      OBVIOUS
    <3>2. CASE i \in DOMAIN q
      <4>1. PICK d : d = q[i] OBVIOUS
      <4>2. d \in DOMAIN children /\ children[d].epitaph # "running" /\ d # c
        BY <3>2, <4>1, <2>1, <2>3, <2>7 DEF Running
      <4>3. children'[d] = children[d] BY <4>2, <1>10
      <4> QED BY <4>1, <4>2, <4>3, <3>2, <2>5, <1>9
    <3>3. CASE i = Len(q) + 1 BY <3>3, <2>5, <1>9, <1>10
    <3> QED BY <3>2, <3>3, <2>8
  <2>10. \A i, j \in DOMAIN u : u[i] = u[j] => i = j
    BY <2>1, <2>3, <2>5, <2>7, <2>8
  <2>11. \A i \in DOMAIN listed : \E j \in DOMAIN u : u[j] = listed[i]
    BY <2>1, <2>3, <2>5
  <2> QED BY <2>1, <2>5, <2>6, <2>9, <2>10, <2>11, <1>1 DEF QueueInv, Running
<1>12. BranchInv' BY <1>1, <1>9 DEF LineInv, BranchInv
<1>13. CountInv' BY <1>1, <1>9 DEF LineInv, CountInv
<1>14. Accounted' BY <1>1 DEF Accounted, HEAD
<1> QED BY <1>1, <1>9, <1>11, <1>12, <1>13, <1>14 DEF LineInv

LEMMA ReturnsStep ==
  ASSUME LineInv, Accounted, NEW c \in DOMAIN children, CompactorReturns(c) \/ WorkerReturns(c)
  PROVE  LineInv' /\ Accounted' /\ Bases(branch') = Bases(branch)
<1>1. children[c].tip \in Trees /\ Known(children[c].tip, authored) BY ChildTypes
<1>2. CASE CompactorReturns(c)
  <2>1. PICK epitaph \in {"final-response", "died"} : Return(c, epitaph, children[c].tip)
    BY <1>2 DEF CompactorReturns
  <2>2. epitaph \in Epitaphs /\ epitaph # "running" BY <2>1 DEF Epitaphs
  <2> QED BY <2>1, <2>2, <1>1, ReturnStep
<1>3. CASE WorkerReturns(c)
  <2>1. PICK t : t = Put(children[c].tip, Work(c), Content("work", 0, {})) OBVIOUS
  <2>2. ~IsCompactor(c) /\ Return(c, "final-response", t) BY <1>3, <2>1 DEF WorkerReturns
  <2>3. t \in Trees /\ Known(t, authored)
    <3>1. c \in Nat BY ChildTypes
    <3>2. PICK p : p = Work(c) OBVIOUS
    <3>3. p \in Paths /\ p[1] = "work" BY <3>1, <3>2, PathFacts
    <3>4. PICK x : x = Content("work", 0, {}) OBVIOUS
    <3>5. x \in Contents /\ x.about = {} BY <3>4 DEF Content, Contents, Kinds
    <3>6. PICK a \in Nat : a = authored BY InvHead
    <3>7. PICK tip \in Trees : tip = children[c].tip BY <1>1
    <3>8. Known(tip, a) /\ x.about \subseteq 1 .. a /\ (p[1] = "msg" => x.tag \in 1 .. a)
      BY <1>1, <3>3, <3>5, <3>6, <3>7
    <3>9. t = Put(tip, p, x) BY <2>1, <3>2, <3>4, <3>7
    <3> QED BY <3>3, <3>5, <3>6, <3>8, <3>9, PutFacts, PutKnown
  <2>4. "final-response" \in Epitaphs /\ "final-response" # "running" BY DEF Epitaphs
  <2> QED BY <2>2, <2>3, <2>4, ReturnStep
<1> QED BY <1>2, <1>3

-----------------------------------------------------------------------------
(* The step with tools, the first state, and what both leave to show.      *)

LEMMA ResultCommitsFacts ==
  ASSUME NEW n \in Nat, NEW effect, NEW t, t = Affected(effect, CallCommit(n).tree, authored + 2)
  PROVE  ResultCommits(n, effect) =
             [i \in 1 .. n |-> Commit("entry", 0, ResultTree(t, NextSeq(t, "msg"), authored, i))]
BY DEF ResultCommits, ResultTree, ResultPaths, ResultContent

LEMMA ToolsStep ==
  ASSUME LineInv, Accounted, NEW n \in Windows, NEW effect \in Effects, Tools(n, effect)
  PROVE  LineInv' /\ Accounted' /\ Bases(branch') = Bases(branch)
<1>1. n \in Nat /\ n > 0 BY ChoicesAssumption
<1>2. /\ LineOK(branch, authored) /\ authored \in Nat /\ HEAD \in Trees
      /\ Known(HEAD, authored)
  BY InvHead
<1>3. PICK a \in Nat : a = authored BY <1>2
<1>4. PICK m \in Nat : m = a + 1 + n BY <1>1
<1>5. PICK x : x = Content("output", a + 1, a + 2 .. a + 1 + n) OBVIOUS
<1>6. x \in Contents /\ x.tag = a + 1 /\ x.about \subseteq 1 .. m /\ a + 1 <= m
  <2>1. a + 2 .. a + 1 + n \subseteq 1 .. m /\ a + 2 .. a + 1 + n \in SUBSET Nat
    BY <1>1, <1>4
  <2> QED BY <2>1, <1>1, <1>4, <1>5 DEF Content, Contents, Kinds, EntryKinds
<1>7. PICK e : e = EntryCommit(HEAD, x) OBVIOUS
<1>8. e = CallCommit(n) BY <1>3, <1>5, <1>7 DEF CallCommit
<1>9. /\ e.tree \in Trees /\ Known(e.tree, m) /\ Stays(HEAD, e.tree)
      /\ a + 1 \in Tags(e.tree)
      /\ LineOK(Append(branch, e), m) /\ Bases(Append(branch, e)) = Bases(branch)
      /\ TreeOf(Append(branch, e)) = e.tree
  BY <1>3, <1>6, <1>7, OneEntry
<1>10. PICK called : called = Append(branch, e) OBVIOUS
<1>11. PICK t0 \in Trees : t0 = e.tree BY <1>9
<1>12. PICK t : t = Affected(effect, t0, a + 2) OBVIOUS
<1>13. t \in Trees /\ Known(t, m) /\ Stays(t0, t)
  <2>1. a + 2 \in Nat /\ Known(t0, m) BY <1>9, <1>11
  <2> QED BY <2>1, <1>12, AffectedFacts
<1>14. PICK s \in Nat \ {0} : s = NextSeq(t, "msg") /\ \A k \in EntriesIn(t) : k < s
  BY <1>13, NewEntry
<1>15. PICK more : more = ResultCommits(n, effect) OBVIOUS
<1>16. more = [i \in 1 .. n |-> Commit("entry", 0, ResultTree(t, s, a, i))]
  <2>1. t = Affected(effect, CallCommit(n).tree, authored + 2)
    BY <1>3, <1>8, <1>11, <1>12
  <2> QED BY <2>1, <1>1, <1>3, <1>14, <1>15, ResultCommitsFacts
<1>17. ASSUME NEW i \in 1 .. n
       PROVE  /\ more[i] \in Commits /\ more[i].subject = "entry"
              /\ more[i].tree = ResultTree(t, s, a, i)
              /\ Known(more[i].tree, m) /\ Stays(t, more[i].tree)
              /\ \A j \in 1 .. i : a + 1 + j \in Tags(more[i].tree)
  <2>1. PICK u : u = ResultTree(t, s, a, i) OBVIOUS
  <2>2. /\ u \in Trees /\ Known(u, m) /\ Stays(t, u)
        /\ \A j \in 1 .. i : a + 1 + j \in Tags(u)
    <3>1. Known(t, a + 1 + n) BY <1>13, <1>4
    <3>2. /\ u \in Trees /\ Known(u, a + 1 + n) /\ Stays(t, u)
          /\ \A j \in 1 .. i : a + 1 + j \in Tags(u)
      BY <3>1, <2>1, <1>1, <1>13, <1>14, ResultTreeFacts
    <3> QED BY <3>2, <1>4
  <2>3. more[i] = Commit("entry", 0, u) BY <2>1, <1>16
  <2>4. "entry" \in Subjects /\ 0 \in Nat BY DEF Subjects
  <2> QED BY <2>1, <2>2, <2>3, <2>4 DEF Commit, Commits
<1>18. more \in Seq(Commits) /\ Len(more) = n /\ more # <<>>
  <2>1. more \in [1 .. n -> Commits] BY <1>16, <1>17
  <2>2. more \in Seq(Commits) BY <2>1, <1>1, IsASeq
  <2>3. Len(more) = n
    <3>1. DOMAIN more = 1 .. n BY <1>16
    <3>2. DOMAIN more = 1 .. Len(more) /\ Len(more) \in Nat BY <2>2, LenProperties
    <3> QED BY <3>1, <3>2, <1>1
  <2> QED BY <2>2, <2>3, <1>1, EmptySeq
<1>19. TreeOf(called) = t0 /\ LineOK(called, m) /\ Bases(called) = Bases(branch)
  BY <1>9, <1>10, <1>11
<1>20. PICK new : new = called \o more OBVIOUS
<1>21. /\ LineOK(new, m) /\ Bases(new) = Bases(called)
       /\ TreeOf(new) = more[Len(more)].tree
  <2>1. m <= m OBVIOUS
  <2>2. \A i \in 1 .. Len(more) :
            /\ more[i].subject # "base" /\ Known(more[i].tree, m)
            /\ Stays(TreeOf(called), more[i].tree)
    BY <1>13, <1>17, <1>18, <1>19, StaysTrans
  <2> QED BY <2>1, <2>2, <1>18, <1>19, <1>20, LineGrows
<1>22. /\ TreeOf(new) = more[n].tree /\ n \in 1 .. n BY <1>1, <1>18, <1>21
<1>23. Stays(HEAD, TreeOf(new)) /\ Stays(t0, TreeOf(new))
  <2>1. Stays(t, TreeOf(new)) BY <1>17, <1>22
  <2>2. Stays(t0, TreeOf(new)) BY <2>1, <1>13, StaysTrans
  <2>3. Stays(HEAD, t0) BY <1>9, <1>11
  <2> QED BY <2>2, <2>3, StaysTrans
<1>24. (a + 1) .. m \subseteq Tags(TreeOf(new))
  <2>1. TreeOf(new) \in Trees BY <1>21, LineTip
  <2>2. a + 1 \in Tags(TreeOf(new)) BY <2>1, <1>9, <1>11, <1>23, SeenStays
  <2>3. \A j \in 1 .. n : a + 1 + j \in Tags(TreeOf(new)) BY <1>17, <1>22
  <2>4. ASSUME NEW y \in (a + 1) .. m PROVE y = a + 1 \/ \E j \in 1 .. n : y = a + 1 + j
    <3>1. CASE y = a + 1 BY <3>1
    <3>2. CASE y # a + 1
      <4>1. y - a - 1 \in 1 .. n /\ y = a + 1 + (y - a - 1) BY <3>2, <1>1, <1>4
      <4> QED BY <4>1
    <3> QED BY <3>1, <3>2
  <2> QED BY <2>2, <2>3, <2>4
<1>25. /\ branch' = new /\ authored' = m /\ steps' = steps + 1 /\ hop' = "flush"
       /\ children' = IF effect = "fork"
                      THEN Append(children, Child("worker", called, WorkerTree(HEAD)))
                      ELSE children
       /\ UNCHANGED <<listed, inbox, keep, conflicted, shed, arrivals, crashes>>
  <2>1. /\ branch' = Append(branch, CallCommit(n)) \o ResultCommits(n, effect)
        /\ children' = IF effect = "fork"
                       THEN Append(children,
                                Child("worker", Append(branch, CallCommit(n)), WorkerTree(HEAD)))
                       ELSE children
    BY DEF Tools
  <2>2. authored' = authored + 1 + n /\ steps' = steps + 1 /\ hop' = "flush"
        /\ UNCHANGED <<listed, inbox, keep, conflicted, shed, arrivals, crashes>>
    BY DEF Tools, record
  <2> QED BY <2>1, <2>2, <1>3, <1>4, <1>8, <1>10, <1>15, <1>20
<1>26. authored <= authored' /\ authored' \in Nat /\ Bases(branch') = Bases(branch)
  BY <1>1, <1>3, <1>4, <1>19, <1>21, <1>25
<1>27. Accounted'
  <2>1. (authored + 1) .. authored' \subseteq Tags(TreeOf(branch')) BY <1>3, <1>24, <1>25
  <2>2. LineOK(branch', authored') BY <1>21, <1>25
  <2> QED BY <2>1, <2>2, <1>23, <1>25, <1>26, GrownAccount
<1>28. ChildInv' /\ QueueInv' /\ DOMAIN children \subseteq DOMAIN (children')
  <2>1. CASE effect = "fork"
    <3>1. PICK f : f = WorkerTree(HEAD) OBVIOUS
    <3>2. f \in Trees /\ Known(f, authored)
      <4>1. PICK h \in Trees, b \in Nat : h = HEAD /\ b = authored BY <1>2
      <4>2. Known(h, b) BY <4>1, <1>2
      <4> QED BY <4>1, <4>2, <3>1, KeepFacts, KeepKnown DEF WorkerTree
    <3>3. called \in Seq(Commits) BY <1>19, LineTip
    <3>4. PICK r : r = Child("worker", called, f) OBVIOUS
    <3>5. /\ r \in ChildRecords /\ r.role = "worker" /\ r.past = called
          /\ r.founded = f /\ r.tip = f
      BY <3>2, <3>3, <3>4, ChildMade
    <3>6. children' = Append(children, r) BY <2>1, <3>1, <3>4, <1>25
    <3>7. Known(r.founded, authored') /\ Known(r.tip, authored')
      BY <3>2, <3>5, <1>2, <1>26, KnownGrows
    <3>8. Bases(branch) \subseteq DOMAIN children BY DEF LineInv, BranchInv
    <3>9. Bases(r.past) \subseteq DOMAIN children \cap Bases(branch')
      BY <3>5, <3>8, <1>19, <1>26
    <3>10. r.role = "compactor" => PassInv(r) BY <3>5
    <3> QED BY <3>5, <3>6, <3>7, <3>9, <3>10, <1>25, <1>26, ChildAdded
  <2>2. CASE effect # "fork"
    <3>1. children' = children BY <2>2, <1>25
    <3>2. ChildInv' BY <3>1, <1>2, <1>26, ChildrenKept DEF LineInv
    <3>3. QueueInv' BY <3>1, <1>25, QueueKept DEF LineInv
    <3> QED BY <3>1, <3>2, <3>3
  <2> QED BY <2>1, <2>2
<1>29. BranchInv' BY <1>21, <1>25, <1>26, <1>28 DEF LineInv, BranchInv
<1>30. CountInv'
  <2>1. CountInv BY DEF LineInv
  <2>2. 1 .. authored \subseteq 1 .. authored' /\ authored' # 0 BY <1>2, <1>1, <1>3, <1>4, <1>25
  <2> QED BY <2>1, <2>2, <1>25, <1>26, <1>28 DEF CountInv
<1> QED BY <1>26, <1>27, <1>28, <1>29, <1>30 DEF LineInv

LEMMA EmptyTree ==
  /\ <<>> \in Trees /\ DOMAIN <<>> = {}
  /\ NextSeq(<<>>, "msg") = 1
<1>1. DOMAIN <<>> = {} OBVIOUS
<1>2. PICK t : t = <<>> OBVIOUS
<1>3. t \in Trees
  <2>1. t \in [{} -> Contents] BY <1>2
  <2>2. {} \in SUBSET Paths /\ IsFiniteSet({}) BY FS_EmptySet
  <2> QED BY <2>1, <2>2, TreeIntro
<1>4. NextSeq(t, "msg") = 1
  <2>1. Numbers(t, "msg") = {} BY <1>2, <1>1 DEF Numbers, InDir
  <2>2. PICK S : S = {0} OBVIOUS
  <2>6. IsFiniteSet({0}) BY FS_Singleton
  <2>3. S \subseteq Nat /\ S # {} /\ IsFiniteSet(S) BY <2>2, <2>6
  <2>4. Greatest(S) \in S BY <2>3, GreatestIsOne
  <2>5. NextSeq(t, "msg") = Greatest(S) + 1 BY <2>1, <2>2 DEF NextSeq
  <2> QED BY <2>2, <2>4, <2>5
<1> QED BY <1>1, <1>2, <1>3, <1>4

LEMMA InitLine ==
  ASSUME LandingInit
  PROVE  LineInv /\ Accounted
<1>1. /\ branch = <<Commit("founding", 0, <<>>), EntryCommit(<<>>, Content("goal", 1, {}))>>
      /\ hop = "boundary" /\ listed = <<>> /\ inbox = <<>> /\ children = <<>>
      /\ conflicted = {} /\ authored = 1 /\ shed = {}
      /\ arrivals = 0 /\ steps = 0 /\ crashes = 0
  BY DEF LandingInit
<1>2. keep \in Nat BY ClockAssumption DEF LandingInit
<1>3. PICK t \in Trees : t = <<>> /\ DOMAIN t = {} BY EmptyTree
<1>4. PICK x : x = Content("goal", 1, {}) OBVIOUS
<1>5. x \in Contents /\ x.tag = 1 /\ x.about = {} /\ x.kind = "goal"
  BY <1>4 DEF Content, Contents, Kinds, EntryKinds
<1>6. PICK first : first = Commit("founding", 0, t) OBVIOUS
<1>7. first \in Commits /\ first.tree = t /\ first.subject = "founding"
  <2>1. "founding" \in Subjects /\ 0 \in Nat BY DEF Subjects
  <2> QED BY <2>1, <1>6 DEF Commit, Commits
<1>8. Known(t, 1) BY <1>3 DEF Known
<1>9. PICK e : e = EntryCommit(t, x) OBVIOUS
<1>10. /\ e \in Commits /\ e.subject = "entry"
       /\ e.tree = Put(t, Msg(NextSeq(t, "msg")), x)
       /\ Known(e.tree, 1) /\ 1 \in Tags(e.tree)
  <2>1. x.tag \in 1 .. 1 /\ x.about \subseteq 1 .. 1 /\ 1 \in Nat /\ 1 <= 1 BY <1>5
  <2>2. PICK n \in Nat : n = 1 OBVIOUS
  <2>3. x.tag \in 1 .. n /\ x.about \subseteq 1 .. n /\ n <= n /\ Known(t, n) BY <2>1, <2>2, <1>8
  <2>4. /\ e \in Commits /\ e.subject = "entry"
        /\ e.tree = Put(t, Msg(NextSeq(t, "msg")), x)
        /\ Known(e.tree, n) /\ x.tag \in Tags(e.tree)
    BY <2>3, <1>5, <1>9, EntryCommitFacts
  <2> QED BY <2>2, <2>4, <1>5
<1>11. HasGoal(e.tree)
  <2>1. NextSeq(t, "msg") = 1 BY <1>3, EmptyTree
  <2>2. PICK p : p = Msg(1) OBVIOUS
  <2>3. p \in Paths BY <2>2, PathFacts
  <2>4. e.tree = Put(t, p, x) BY <2>1, <2>2, <1>10
  <2>5. p \in DOMAIN e.tree /\ e.tree[p] = x
    <3>1. DOMAIN Put(t, p, x) = DOMAIN t \cup {p} BY <2>3, <1>5, PutFacts
    <3>2. Put(t, p, x)[p] = x BY <2>3, <1>5, PutFacts
    <3> QED BY <3>1, <3>2, <2>4
  <2> QED BY <2>2, <2>5, <1>5 DEF HasGoal, FileAt
<1>12. branch = <<first, e>> BY <1>1, <1>3, <1>4, <1>6, <1>9
<1>13. /\ branch \in Seq(Commits) /\ Len(branch) = 2 /\ branch[1] = first /\ branch[2] = e
  BY <1>7, <1>10, <1>12
<1>14. \A i \in 1 .. 2 : i = 1 \/ i = 2 OBVIOUS
<1>15. LineOK(branch, authored)
  <2>1. \A i \in 1 .. Len(branch) : Known(branch[i].tree, 1) BY <1>7, <1>8, <1>10, <1>13, <1>14
  <2>2. \A i \in 2 .. Len(branch) : HasGoal(branch[i].tree) BY <1>11, <1>13
  <2> QED BY <2>1, <2>2, <1>1, <1>7, <1>13 DEF LineOK
<1>16. Bases(branch) = {}
  <2>1. \A i \in 1 .. Len(branch) : branch[i].subject # "base" BY <1>7, <1>10, <1>13, <1>14
  <2> QED BY <2>1, <1>13, BasesDef
<1>17. BranchInv BY <1>15, <1>16 DEF BranchInv
<1>18. ChildInv BY <1>1 DEF ChildInv
<1>19. QueueInv BY <1>1 DEF QueueInv
<1>20. CountInv BY <1>1, <1>2 DEF CountInv
<1>21. Accounted
  <2>1. HEAD = e.tree
    <3>1. TreeOf(branch) = branch[Len(branch)].tree BY <1>15, LineTip
    <3> QED BY <3>1, <1>13 DEF HEAD
  <2>2. 1 .. authored \subseteq Tags(e.tree) BY <1>1, <1>10
  <2> QED BY <2>1, <2>2, <1>11 DEF Accounted, HasGoal
<1> QED BY <1>17, <1>18, <1>19, <1>20, <1>21 DEF LineInv

-----------------------------------------------------------------------------
(* The landing: the span and the replay.                                   *)

LEMMA NotSuperseded ==
  ASSUME LineInv, NEW c \in DOMAIN children, IsCompactor(c), ~Superseded(c),
         NEW past, past = children[c].past
  PROVE  /\ Point(c) = Len(past) /\ Point(c) \in 2 .. Len(branch)
         /\ LineOK(past, authored) /\ past = SubSeq(branch, 1, Point(c))
         /\ TreeOf(past) = branch[Point(c)].tree
         /\ \A i \in 1 .. Point(c) : past[i] = branch[i]
         /\ Origin(past) \in 1 .. Point(c)
         /\ \A i \in Origin(past) + 1 .. Len(branch) : branch[i].subject \notin {"founding", "base"}
                                                       \/ i > Point(c)
         /\ \A i \in Origin(past) + 1 .. Len(branch) : branch[i].subject # "base"
<1>1. /\ LineOK(branch, authored) /\ branch \in Seq(Commits) /\ Len(branch) \in Nat
      /\ authored \in Nat
  BY InvHead
<1>2. past \in Seq(Commits) /\ PassInv(children[c]) BY ChildTypes
<1>3. Len(past) > 1 /\ Len(past) \in Nat BY <1>2, LenProperties DEF PassInv
<1>4. PICK k \in Nat : k = Len(past) BY <1>3
<1>5. Point(c) = k BY <1>4 DEF Point
<1>6. PICK b \in Seq(Commits) : b = branch BY <1>1
<1>7. k <= Len(b) /\ SubSeq(past, 1, k) = SubSeq(b, 1, k)
  BY <1>4, <1>6 DEF Superseded, IsPrefix
<1>8. SubSeq(past, 1, k) = past BY <1>2, <1>4, SubSeqFull
<1>9. k \in 2 .. Len(b) BY <1>1, <1>3, <1>4, <1>6, <1>7
<1>10. PICK a \in Nat : a = authored BY <1>1
<1>11. LineOK(b, a) BY <1>1, <1>6, <1>10
<1>12. /\ LineOK(past, a) /\ TreeOf(past) = b[k].tree /\ \A i \in 1 .. k : past[i] = b[i]
  <2>1. PICK q : q = SubSeq(b, 1, k) OBVIOUS
  <2>2. q = past BY <2>1, <1>7, <1>8
  <2>3. LineOK(q, a) BY <2>1, <1>9, <1>11, PrefixLine
  <2>4. TreeOf(q) = b[k].tree BY <2>1, <1>9, <1>11, PrefixLine
  <2>5. \A i \in 1 .. k : q[i] = b[i] BY <2>1, <1>9, <1>11, PrefixLine
  <2> QED BY <2>2, <2>3, <2>4, <2>5
<1>13. PICK o \in 1 .. k : /\ o = Origin(past)
                           /\ \A i \in o + 1 .. k : past[i].subject \notin {"founding", "base"}
  BY <1>4, <1>12, OriginFacts
<1>14. \A i \in k + 1 .. Len(b) : b[i].subject # "base"
  BY <1>5, <1>6 DEF Superseded
<1>15. ASSUME NEW i \in o + 1 .. Len(b)
       PROVE  /\ b[i].subject \notin {"founding", "base"} \/ i > k
              /\ b[i].subject # "base"
  <2>1. i \in Nat /\ i >= 1 /\ Len(b) \in Nat BY <1>1, <1>6, <1>13
  <2>2. CASE i <= k
    <3>1. i \in o + 1 .. k /\ i \in 1 .. k BY <2>1, <2>2, <1>13
    <3> QED BY <3>1, <1>12, <1>13
  <2>3. CASE ~(i <= k)
    <3>1. i > k /\ i \in k + 1 .. Len(b) BY <2>1, <2>3, <1>13
    <3> QED BY <3>1, <1>14
  <2> QED BY <2>2, <2>3
<1> QED BY <1>4, <1>5, <1>6, <1>7, <1>8, <1>9, <1>10, <1>12, <1>13, <1>15

\* A path the live branch did not touch has the same file at both ends.
LEMMA Untouched ==
  ASSUME NEW p, NEW k \in Nat, NEW j \in Nat, k <= j, ~Touched(p, k, j)
  PROVE  FileAt(branch[j].tree, p) = FileAt(branch[k].tree, p)
<1>1. PICK S : S = {n \in Nat : k + n > j \/ FileAt(branch[k + n].tree, p) = FileAt(branch[k].tree, p)}
  OBVIOUS
<1>2. 0 \in S
  <2>1. k + 0 = k OBVIOUS
  <2> QED BY <2>1, <1>1
<1>3. ASSUME NEW n \in Nat, n \in S PROVE n + 1 \in S
  <2>1. PICK i \in Nat : i = k + (n + 1) OBVIOUS
  <2>2. i - 1 = k + n BY <2>1
  <2>3. CASE i > j BY <2>1, <2>3, <1>1
  <2>4. CASE ~(i > j)
    <3>1. i \in k + 1 .. j /\ ~(k + n > j) BY <2>1, <2>4
    <3>2. FileAt(branch[i].tree, p) = FileAt(branch[i - 1].tree, p) BY <3>1 DEF Touched
    <3>3. FileAt(branch[k + n].tree, p) = FileAt(branch[k].tree, p) BY <3>1, <1>1, <1>3
    <3>4. FileAt(branch[i].tree, p) = FileAt(branch[k].tree, p) BY <3>2, <3>3, <2>2
    <3> QED BY <3>4, <2>1, <1>1
  <2> QED BY <2>3, <2>4
<1>4. Nat \subseteq S BY <1>2, <1>3, SetInduction
<1>5. PICK n \in Nat : n = j - k OBVIOUS
<1>6. n \in S /\ k + n = j /\ ~(j > j) BY <1>4, <1>5
<1> QED BY <1>1, <1>6

LEMMA FileOf ==
  ASSUME NEW t \in Trees, NEW p
  PROVE  /\ p \in DOMAIN t => FileAt(t, p) = t[p] /\ FileAt(t, p).kind \in Kinds
         /\ p \notin DOMAIN t => FileAt(t, p).kind = "absent"
         /\ "absent" \notin Kinds
<1>1. \A q \in DOMAIN t : t[q] \in Contents BY TreeDef
<1>2. "absent" \notin Kinds BY DEF Kinds, EntryKinds
<1> QED BY <1>1, <1>2 DEF FileAt, Absent, Content, Contents

\* What a replayed commit has at a path: what the live branch has where it
\* touched it, what the base has anywhere else.
LEMMA ReplayedFacts ==
  ASSUME NEW base \in Trees, NEW k, NEW j, branch[j].tree \in Trees
  PROVE  LET u == ReplayedTree(base, k, j)
         IN  /\ u \in Trees
             /\ \A p : Touched(p, k, j) =>
                   /\ p \in DOMAIN u <=> p \in DOMAIN branch[j].tree
                   /\ p \in DOMAIN u => u[p] = branch[j].tree[p]
             /\ \A p : ~Touched(p, k, j) =>
                   /\ p \in DOMAIN u <=> p \in DOMAIN base
                   /\ p \in DOMAIN u => u[p] = base[p]
<1>1. PICK t \in Trees : t = branch[j].tree OBVIOUS
<1>2. PICK T : T = {p \in DOMAIN base \cup DOMAIN t : Touched(p, k, j)} OBVIOUS
<1>3. PICK D : D = {p \in DOMAIN base \cup DOMAIN t :
                       p \in IF Touched(p, k, j) THEN DOMAIN t ELSE DOMAIN base}
  OBVIOUS
<1>4. PICK u : u = ReplayedTree(base, k, j) OBVIOUS
<1>5. u = [p \in D |-> IF Touched(p, k, j) THEN t[p] ELSE base[p]]
  BY <1>1, <1>3, <1>4 DEF ReplayedTree
<1>6. \A p \in D : /\ Touched(p, k, j) => p \in DOMAIN t
                   /\ ~Touched(p, k, j) => p \in DOMAIN base
  BY <1>3
<1>7. /\ DOMAIN t \subseteq Paths /\ IsFiniteSet(DOMAIN t) /\ \A p \in DOMAIN t : t[p] \in Contents
      /\ DOMAIN base \subseteq Paths /\ IsFiniteSet(DOMAIN base)
      /\ \A p \in DOMAIN base : base[p] \in Contents
  BY TreeDef
<1>8. D \in SUBSET Paths /\ IsFiniteSet(D)
  <2>1. IsFiniteSet(DOMAIN base \cup DOMAIN t) BY <1>7, FS_Union
  <2>2. D \in SUBSET (DOMAIN base \cup DOMAIN t) BY <1>3
  <2>3. IsFiniteSet(D) BY <2>1, <2>2, FS_Subset
  <2> QED BY <2>2, <2>3, <1>7
<1>9. u \in [D -> Contents] BY <1>5, <1>6, <1>7
<1>10. u \in Trees BY <1>8, <1>9, TreeIntro
<1>11. DOMAIN u = D BY <1>5
<1>12. \A p : p \in DOMAIN t /\ Touched(p, k, j) => p \in D BY <1>3
<1>13. \A p : p \in DOMAIN base /\ ~Touched(p, k, j) => p \in D BY <1>3
<1> QED BY <1>1, <1>4, <1>5, <1>6, <1>10, <1>11, <1>12, <1>13

\* The base: the tree at the point, less the deletions, plus the summaries.
LEMMA BaseFacts ==
  ASSUME LineInv, NEW c \in DOMAIN children, IsCompactor(c), NEW point \in Trees,
         point = TreeOf(children[c].past), Known(point, authored)
  PROVE  LET u == BaseTree(c)
         IN  /\ u \in Trees /\ Known(u, authored)
             /\ DOMAIN u = (DOMAIN point \ Deletions(c)) \cup Summaries(c)
             /\ Summaries(c) \cap DOMAIN point = {}
             /\ \A p \in Summaries(c) :
                   p[1] = "sum" /\ u[p] = children[c].tip[p] /\ u[p].kind = "summary"
             /\ \A p \in DOMAIN point \ Deletions(c) : u[p] = point[p]
<1>1. /\ children[c].tip \in Trees /\ children[c].founded \in Trees
      /\ Known(children[c].tip, authored) /\ PassInv(children[c])
  BY ChildTypes
<1>2. PICK tip \in Trees, f \in Trees : tip = children[c].tip /\ f = children[c].founded BY <1>1
<1>3. PICK A : A = Summaries(c) OBVIOUS
<1>4. A \subseteq DOMAIN tip \ DOMAIN f /\ \A p \in A : p[1] = "sum"
  BY <1>2, <1>3 DEF Summaries, InDir
<1>5. \A p \in A : tip[p].kind = "summary" BY <1>1, <1>2, <1>4 DEF PassInv
<1>6. PICK D : D = Deletions(c) OBVIOUS
<1>7. f = CompactorTree(point) BY <1>1, <1>2 DEF PassInv
<1>8. A \cap DOMAIN point = {}
  <2>1. DOMAIN f = DOMAIN point \ {Msg(n) : n \in UnsettledWindow(point)}
    BY <1>7, WithoutFacts DEF CompactorTree
  <2>2. ASSUME NEW p \in A, p \in DOMAIN point PROVE FALSE
    <3>1. p[1] = "sum" /\ p \notin DOMAIN f BY <2>2, <1>4
    <3>2. p \in {Msg(n) : n \in UnsettledWindow(point)} BY <3>1, <2>1, <2>2
    <3>3. p[1] = "msg" BY <3>2, PathFacts
    <3> QED BY <3>1, <3>3
  <2> QED BY <2>2
<1>9. PICK K : K = (DOMAIN point \ D) \cup A OBVIOUS
<1>10. PICK u : u = BaseTree(c) OBVIOUS
<1>11. u = [p \in K |-> IF p \in A THEN tip[p] ELSE point[p]]
  BY <1>2, <1>3, <1>6, <1>9, <1>10 DEF BaseTree
<1>12. DOMAIN u = K /\ (\A p \in A : u[p] = tip[p]) BY <1>9, <1>11
<1>13. \A p \in DOMAIN point \ D : u[p] = point[p] BY <1>8, <1>9, <1>11
<1>14. u \in Trees
  <2>1. /\ DOMAIN point \subseteq Paths /\ IsFiniteSet(DOMAIN point)
        /\ \A p \in DOMAIN point : point[p] \in Contents
        /\ DOMAIN tip \subseteq Paths /\ IsFiniteSet(DOMAIN tip)
        /\ \A p \in DOMAIN tip : tip[p] \in Contents
    BY TreeDef
  <2>2. IsFiniteSet(DOMAIN point \cup DOMAIN tip) BY <2>1, FS_Union
  <2>3. K \in SUBSET (DOMAIN point \cup DOMAIN tip) BY <1>4, <1>9
  <2>4. K \in SUBSET Paths /\ IsFiniteSet(K) BY <2>1, <2>2, <2>3, FS_Subset
  <2>5. u \in [K -> Contents] BY <2>1, <1>4, <1>9, <1>11
  <2> QED BY <2>4, <2>5, TreeIntro
<1>15. Known(u, authored)
  <2>1. ASSUME NEW p \in DOMAIN u
        PROVE  u[p].about \subseteq 1 .. authored /\ (p[1] = "msg" => u[p].tag \in 1 .. authored)
    <3>1. CASE p \in A
      <4>1. u[p] = tip[p] /\ p \in DOMAIN tip BY <3>1, <1>4, <1>12
      <4> QED BY <4>1, <1>1, <1>2 DEF Known
    <3>2. CASE p \notin A
      <4>1. p \in DOMAIN point /\ u[p] = point[p] BY <3>2, <1>9, <1>11, <1>12
      <4> QED BY <4>1 DEF Known
    <3> QED BY <3>1, <3>2
  <2> QED BY <2>1 DEF Known
<1> QED BY <1>2, <1>3, <1>4, <1>5, <1>6, <1>8, <1>9, <1>10, <1>12, <1>13, <1>14, <1>15

-----------------------------------------------------------------------------
(* The landing: what it keeps and what it takes.                           *)

\* The commit j of the branch, replayed on the base of c.
ReplayedOn(c, j) == ReplayedTree(BaseTree(c), Point(c), j)

LEMMA PointFacts ==
  ASSUME LineInv, NEW c \in DOMAIN children, IsCompactor(c), ~Superseded(c),
         NEW point, point = TreeOf(children[c].past)
  PROVE  /\ point \in Trees /\ Known(point, authored) /\ HasGoal(point)
         /\ point = branch[Point(c)].tree
         /\ children[c].founded = CompactorTree(point)
         /\ DOMAIN children[c].founded = DOMAIN point \ {Msg(n) : n \in UnsettledWindow(point)}
         /\ \A p \in DOMAIN children[c].founded : children[c].founded[p] = point[p]
         /\ Msg(1) \notin Deletions(c)
         /\ \A p \in Deletions(c) \cap DOMAIN point : p \in DOMAIN children[c].founded
<1>1. PICK past : past = children[c].past OBVIOUS
<1>2. LineOK(past, authored) /\ point = branch[Point(c)].tree BY <1>1, NotSuperseded
<1>3. point \in Trees /\ Known(point, authored) /\ HasGoal(point) BY <1>1, <1>2, LineTip
<1>4. PassInv(children[c]) BY ChildTypes
<1>5. PICK W : W = {Msg(n) : n \in UnsettledWindow(point)} OBVIOUS
<1>6. PICK f : f = children[c].founded OBVIOUS
<1>7. f = CompactorTree(point) BY <1>1, <1>4, <1>6 DEF PassInv
<1>8. f = Without(point, W) BY <1>5, <1>7 DEF CompactorTree
<1>9. DOMAIN f = DOMAIN point \ W BY <1>3, <1>8, WithoutFacts
<1>10. \A p \in DOMAIN f : f[p] = point[p]
  <2>1. PICK t \in Trees : t = point BY <1>3
  <2>2. \A p \in DOMAIN t \ W : Without(t, W)[p] = t[p] BY WithoutFacts
  <2> QED BY <2>1, <2>2, <1>8, <1>9
<1>11. Msg(1) \notin Deletions(c)
  <2>1. Msg(1) \notin Nominated(c) BY <1>4 DEF Nominated, PassInv
  <2>2. Msg(1) \notin Span(c)
    <3>1. SUFFICES ASSUME Msg(1) \in Span(c) PROVE FALSE OBVIOUS
    <3>2. PICK n \in EntriesIn(point) \ (UnsettledWindow(point) \cup {1}) : Msg(1) = Msg(n)
      BY <3>1, <1>1 DEF Span
    <3>3. n = 1 BY <3>2, PathFacts
    <3> QED BY <3>2, <3>3
  <2> QED BY <2>1, <2>2 DEF Deletions, Swept
<1>12. ASSUME NEW p \in Deletions(c), p \in DOMAIN point PROVE p \in DOMAIN f
  <2>1. CASE p \in Nominated(c) BY <2>1, <1>6 DEF Nominated
  <2>2. CASE p \in Swept(c)
    <3>1. p \in Span(c) BY <2>2 DEF Swept
    <3>2. PICK n \in EntriesIn(point) \ (UnsettledWindow(point) \cup {1}) : p = Msg(n)
      BY <3>1, <1>1 DEF Span
    <3>3. \A m \in UnsettledWindow(point) : Msg(m) # p BY <3>2, PathFacts
    <3> QED BY <3>3, <1>5, <1>9, <1>12
  <2> QED BY <2>1, <2>2, <1>12 DEF Deletions
<1> QED BY <1>2, <1>3, <1>5, <1>6, <1>7, <1>9, <1>10, <1>11, <1>12

\* What the replay keeps of each commit after the point, and what it takes.
LEMMA ReplayKeeps ==
  ASSUME LineInv, NEW c \in DOMAIN children, IsCompactor(c), ~Superseded(c),
         NEW j \in Point(c) .. Len(branch), NEW t, t = branch[j].tree
  PROVE  LET u == ReplayedOn(c, j)
         IN  /\ u \in Trees /\ Known(u, authored) /\ HasGoal(u)
             /\ \A p \in DOMAIN u :
                   \/ p \in DOMAIN t /\ u[p] = t[p]
                   \/ p \notin DOMAIN t /\ p \in Summaries(c) /\ u[p].kind = "summary"
             /\ \A p \in DOMAIN t \ DOMAIN u :
                   /\ p \in Deletions(c) /\ p \in DOMAIN TreeOf(children[c].past)
                   /\ p \in DOMAIN children[c].founded
                   /\ t[p] = children[c].founded[p]
             /\ \A p \in Summaries(c) : ~Touched(p, Point(c), j) =>
                   p \in DOMAIN u /\ u[p] = children[c].tip[p]
<1>1. PICK point \in Trees : point = TreeOf(children[c].past) BY PointFacts
<1>2. /\ Known(point, authored) /\ HasGoal(point) /\ point = branch[Point(c)].tree
      /\ Msg(1) \notin Deletions(c)
      /\ \A p \in Deletions(c) \cap DOMAIN point :
            p \in DOMAIN children[c].founded /\ children[c].founded[p] = point[p]
  BY <1>1, PointFacts
<1>3. Point(c) \in 2 .. Len(branch) BY NotSuperseded
<1>4. LineOK(branch, authored) /\ branch \in Seq(Commits) /\ Len(branch) \in Nat BY InvHead
<1>5. PICK k \in Nat : k = Point(c) /\ k > 1 BY <1>3
<1>6. j \in Nat /\ k <= j /\ j \in 2 .. Len(branch) /\ j \in 1 .. Len(branch) BY <1>4, <1>5
<1>7. branch[j] \in Commits BY <1>4, <1>6, ElementOfSeq
<1>8. t \in Trees /\ branch[j].tree \in Trees /\ Known(t, authored) /\ HasGoal(t)
  <2>1. t \in Trees BY <1>7, CommitFields
  <2>2. Known(t, authored) /\ HasGoal(t) BY <1>4, <1>6 DEF LineOK
  <2> QED BY <2>1, <2>2
<1>9. PICK base : base = BaseTree(c) OBVIOUS
<1>10. /\ base \in Trees /\ Known(base, authored)
       /\ DOMAIN base = (DOMAIN point \ Deletions(c)) \cup Summaries(c)
       /\ Summaries(c) \cap DOMAIN point = {}
       /\ \A p \in Summaries(c) :
             p[1] = "sum" /\ base[p] = children[c].tip[p] /\ base[p].kind = "summary"
       /\ \A p \in DOMAIN point \ Deletions(c) : base[p] = point[p]
  <2>1. Known(point, authored) BY <1>2
  <2>2. base \in Trees BY <2>1, <1>1, <1>9, BaseFacts
  <2>3. Known(base, authored) BY <2>1, <1>1, <1>9, BaseFacts
  <2>4. DOMAIN base = (DOMAIN point \ Deletions(c)) \cup Summaries(c)
    BY <2>1, <1>1, <1>9, BaseFacts
  <2>5. Summaries(c) \cap DOMAIN point = {} BY <2>1, <1>1, BaseFacts
  <2>6. \A p \in Summaries(c) :
            p[1] = "sum" /\ base[p] = children[c].tip[p] /\ base[p].kind = "summary"
    BY <2>1, <1>1, <1>9, BaseFacts
  <2>7. \A p \in DOMAIN point \ Deletions(c) : base[p] = point[p]
    BY <2>1, <1>1, <1>9, BaseFacts
  <2> QED BY <2>2, <2>3, <2>4, <2>5, <2>6, <2>7
<1>11. PICK u : u = ReplayedTree(base, k, j) OBVIOUS
<1>12. u = ReplayedOn(c, j) BY <1>5, <1>9, <1>11 DEF ReplayedOn
<1>13. /\ u \in Trees
       /\ \A p : Touched(p, k, j) =>
             (p \in DOMAIN u <=> p \in DOMAIN t) /\ (p \in DOMAIN u => u[p] = t[p])
       /\ \A p : ~Touched(p, k, j) =>
             (p \in DOMAIN u <=> p \in DOMAIN base) /\ (p \in DOMAIN u => u[p] = base[p])
  BY <1>8, <1>10, <1>11, ReplayedFacts
<1>14. \A p : ~Touched(p, k, j) => FileAt(t, p) = FileAt(point, p)
  BY <1>2, <1>5, <1>6, Untouched
<1>15. ASSUME NEW p, ~Touched(p, k, j)
       PROVE  (p \in DOMAIN t <=> p \in DOMAIN point) /\ (p \in DOMAIN t => t[p] = point[p])
  <2>1. FileAt(t, p) = FileAt(point, p) BY <1>14, <1>15
  <2> QED BY <2>1, <1>8, FileOf
<1>16. ASSUME NEW p \in DOMAIN u
       PROVE  \/ p \in DOMAIN t /\ u[p] = t[p]
              \/ p \notin DOMAIN t /\ p \in Summaries(c) /\ u[p].kind = "summary"
  <2>1. CASE Touched(p, k, j) BY <2>1, <1>13
  <2>2. CASE ~Touched(p, k, j)
    <3>1. p \in DOMAIN base /\ u[p] = base[p] BY <2>2, <1>13
    <3>2. CASE p \in Summaries(c)
      <4>1. p \notin DOMAIN point /\ base[p].kind = "summary" BY <3>2, <1>10
      <4> QED BY <4>1, <3>1, <3>2, <2>2, <1>15
    <3>3. CASE p \in DOMAIN point \ Deletions(c)
      <4>1. base[p] = point[p] BY <3>3, <1>10
      <4> QED BY <4>1, <3>1, <3>3, <2>2, <1>15
    <3> QED BY <3>1, <3>2, <3>3, <1>10
  <2> QED BY <2>1, <2>2
<1>17. ASSUME NEW p \in DOMAIN t \ DOMAIN u
       PROVE  /\ p \in Deletions(c) /\ p \in DOMAIN point /\ p \in DOMAIN children[c].founded
              /\ t[p] = children[c].founded[p]
  <2>1. ~Touched(p, k, j) BY <1>13
  <2>2. p \in DOMAIN point /\ t[p] = point[p] BY <2>1, <1>15
  <2>3. p \notin DOMAIN base BY <2>1, <1>13
  <2>4. p \in Deletions(c) BY <2>2, <2>3, <1>10
  <2> QED BY <2>2, <2>4, <1>2
<1>18. Known(u, authored)
  <2>1. ASSUME NEW p \in DOMAIN u
        PROVE  u[p].about \subseteq 1 .. authored /\ (p[1] = "msg" => u[p].tag \in 1 .. authored)
    <3>1. CASE Touched(p, k, j)
      <4>1. p \in DOMAIN t /\ u[p] = t[p] BY <3>1, <1>13
      <4> QED BY <4>1, <1>8 DEF Known
    <3>2. CASE ~Touched(p, k, j)
      <4>1. p \in DOMAIN base /\ u[p] = base[p] BY <3>2, <1>13
      <4> QED BY <4>1, <1>10 DEF Known
    <3> QED BY <3>1, <3>2
  <2> QED BY <2>1 DEF Known
<1>19. HasGoal(u)
  <2>1. PICK p : p = Msg(1) OBVIOUS
  <2>2. p \in DOMAIN t /\ t[p].kind = "goal" BY <2>1, <1>8, GoalPath
  <2>3. p \in DOMAIN u BY <2>1, <2>2, <1>2, <1>17
  <2>4. u[p] = t[p] BY <2>2, <2>3, <1>16
  <2> QED BY <2>1, <2>2, <2>3, <2>4 DEF HasGoal, FileAt
<1>20. ASSUME NEW p \in Summaries(c), ~Touched(p, k, j)
       PROVE  p \in DOMAIN u /\ u[p] = children[c].tip[p]
  <2>1. p \in DOMAIN base /\ base[p] = children[c].tip[p] BY <1>10
  <2> QED BY <2>1, <1>13, <1>20
<1> QED BY <1>1, <1>5, <1>12, <1>13, <1>16, <1>17, <1>18, <1>19, <1>20

\* The commit at the point replays as the base.
LEMMA ReplayAtPoint ==
  ASSUME LineInv, NEW c \in DOMAIN children, IsCompactor(c), ~Superseded(c)
  PROVE  ReplayedOn(c, Point(c)) = BaseTree(c)
<1>1. PICK point \in Trees : point = TreeOf(children[c].past) BY PointFacts
<1>2. Known(point, authored) BY <1>1, PointFacts
<1>3. PICK base \in Trees : base = BaseTree(c) BY <1>1, <1>2, BaseFacts
<1>4. PICK k \in Nat : k = Point(c)
  <2>1. Point(c) \in 2 .. Len(branch) BY NotSuperseded
  <2>2. Len(branch) \in Nat BY InvHead
  <2> QED BY <2>1, <2>2
<1>5. k + 1 .. k = {} BY <1>4
<1>6. \A p : ~Touched(p, k, k) BY <1>5 DEF Touched
<1>7. PICK t : t = branch[k].tree OBVIOUS
<1>8. PICK D : D = {p \in DOMAIN base \cup DOMAIN t :
                       p \in IF Touched(p, k, k) THEN DOMAIN t ELSE DOMAIN base}
  OBVIOUS
<1>9. D = DOMAIN base BY <1>6, <1>8
<1>10. ReplayedTree(base, k, k) = [p \in D |-> IF Touched(p, k, k) THEN t[p] ELSE base[p]]
  BY <1>7, <1>8 DEF ReplayedTree
<1>11. ReplayedTree(base, k, k) = [p \in DOMAIN base |-> base[p]] BY <1>6, <1>9, <1>10
<1>12. base = [p \in DOMAIN base |-> base[p]] BY TreeDef
<1> QED BY <1>3, <1>4, <1>11, <1>12 DEF ReplayedOn

-----------------------------------------------------------------------------
(* The landing: the line it leaves.                                        *)

LEMMA MadeSeq ==
  ASSUME NEW T, NEW m \in Nat, NEW w \in [1 .. m -> T]
  PROVE  w \in Seq(T) /\ Len(w) = m
<1>1. w \in Seq(T) OBVIOUS
<1>2. DOMAIN w = 1 .. m OBVIOUS
<1>3. PICK l \in Nat : l = Len(w) /\ DOMAIN w = 1 .. l BY <1>1, LenProperties
<1>4. 1 .. m = 1 .. l BY <1>2, <1>3
<1>5. ~(m < l) /\ ~(l < m)
  <2>1. ASSUME m < l PROVE FALSE
    <3>1. l \in 1 .. l /\ l \notin 1 .. m BY <2>1
    <3> QED BY <3>1, <1>4
  <2>2. ASSUME l < m PROVE FALSE
    <3>1. m \in 1 .. m /\ m \notin 1 .. l BY <2>2
    <3> QED BY <3>1, <1>4
  <2> QED BY <2>1, <2>2
<1> QED BY <1>1, <1>3, <1>5

LEMMA LandedElements ==
  ASSUME LineInv, NEW c \in DOMAIN children, IsCompactor(c), ~Superseded(c),
         NEW o, o = Origin(children[c].past), NEW k, k = Point(c), NEW n, n = Len(branch)
  PROVE  /\ Landed(c) \in Seq(Commits) /\ Len(Landed(c)) = o + 1 + (n - k)
         /\ o \in 1 .. k /\ k \in 2 .. n /\ n \in Nat
         /\ \A i \in 1 .. o : Landed(c)[i] = branch[i]
         /\ Landed(c)[o + 1] = Commit("base", c, BaseTree(c))
         /\ \A i \in 1 .. n - k :
               /\ Landed(c)[o + 1 + i].subject = branch[k + i].subject
               /\ Landed(c)[o + 1 + i].by = branch[k + i].by
               /\ Landed(c)[o + 1 + i].tree = ReplayedOn(c, k + i)
<1>1. branch \in Seq(Commits) /\ n \in Nat BY InvHead
<1>2. k \in 2 .. n /\ o \in 1 .. k
  <2>1. PICK past : past = children[c].past OBVIOUS
  <2> QED BY <2>1, NotSuperseded
<1>3. k \in Nat /\ o \in Nat /\ o <= k /\ k <= n BY <1>1, <1>2
<1>4. PICK b \in Seq(Commits) : b = branch BY <1>1
<1>5. \A i \in 1 .. n : b[i] \in Commits BY <1>4, ElementOfSeq
<1>6. PICK u : u = SubSeq(b, 1, o) OBVIOUS
<1>7. u \in Seq(Commits) /\ Len(u) = o /\ \A i \in 1 .. o : u[i] = b[i]
  <2>1. 1 \in Int /\ o \in Int /\ \A i \in 1 .. o : b[i] \in Commits BY <1>1, <1>3, <1>5
  <2>2. /\ u \in Seq(Commits) /\ Len(u) = IF 1 <= o THEN o - 1 + 1 ELSE 0
        /\ \A i \in 1 .. o - 1 + 1 : u[i] = b[1 + i - 1]
    BY <2>1, <1>6, SubSeqProperties
  <2>3. \A i \in 1 .. o : i \in 1 .. o - 1 + 1 /\ 1 + i - 1 = i BY <1>3
  <2>4. o >= 1 BY <1>2
  <2> QED BY <2>2, <2>3, <2>4, <1>3
<1>8. PICK base : base = Commit("base", c, BaseTree(c)) OBVIOUS
<1>9. base \in Commits
  <2>1. PICK point \in Trees : point = TreeOf(children[c].past) /\ Known(point, authored)
    BY PointFacts
  <2>2. PICK t \in Trees : t = BaseTree(c) BY <2>1, BaseFacts
  <2>3. "base" \in Subjects /\ c \in Nat BY ChildTypes DEF Subjects
  <2> QED BY <2>2, <2>3, <1>8 DEF Commit, Commits
<1>10. PICK v : v = <<base>> OBVIOUS
<1>11. v \in Seq(Commits) /\ Len(v) = 1 /\ v[1] = base BY <1>9, <1>10
<1>12. PICK w : w = Replay(BaseTree(c), k) OBVIOUS
<1>13. w = [i \in 1 .. n - k |-> [b[k + i] EXCEPT !.tree = ReplayedOn(c, k + i)]]
  BY <1>4, <1>12 DEF Replay, ReplayedOn
<1>14. ASSUME NEW i \in 1 .. n - k
       PROVE  /\ w[i] \in Commits /\ w[i].subject = b[k + i].subject /\ w[i].by = b[k + i].by
              /\ w[i].tree = ReplayedOn(c, k + i)
  <2>1. k + i \in 1 .. n /\ k + i \in k .. n BY <1>1, <1>3
  <2>2. PICK x \in Commits : x = b[k + i] BY <2>1, <1>5
  <2>3. PICK j \in k .. n : j = k + i BY <2>1
  <2>4. j \in Point(c) .. Len(branch) BY <2>3
  <2>5. PICK t : t = ReplayedOn(c, j) OBVIOUS
  <2>6. t \in Trees BY <2>4, <2>5, ReplayKeeps
  <2>7. w[i] = [x EXCEPT !.tree = t] BY <1>13, <2>2, <2>3, <2>5
  <2>8. /\ w[i] \in Commits /\ w[i].subject = x.subject /\ w[i].by = x.by /\ w[i].tree = t
    BY <2>6, <2>7 DEF Commits
  <2> QED BY <2>2, <2>3, <2>5, <2>8
<1>15. n - k \in Nat BY <1>1, <1>3
<1>16. w \in Seq(Commits) /\ Len(w) = n - k
  <2>1. w \in [1 .. n - k -> Commits] BY <1>13, <1>14
  <2>2. PICK m \in Nat : m = n - k BY <1>15
  <2>3. w \in [1 .. m -> Commits] BY <2>1, <2>2
  <2> QED BY <2>2, <2>3, MadeSeq
<1>17. PICK uv : uv = u \o v OBVIOUS
<1>18. /\ uv \in Seq(Commits) /\ Len(uv) = o + 1
       /\ \A i \in 1 .. o : uv[i] = b[i]
       /\ uv[o + 1] = base
  <2>1. /\ uv \in Seq(Commits) /\ Len(uv) = Len(u) + Len(v)
        /\ \A i \in 1 .. Len(u) + Len(v) :
              uv[i] = IF i <= Len(u) THEN u[i] ELSE v[i - Len(u)]
    BY <1>7, <1>11, <1>17, ConcatProperties
  <2>2. \A i \in 1 .. o : i \in 1 .. o + 1 /\ i <= o BY <1>3
  <2>3. o + 1 \in 1 .. o + 1 /\ ~(o + 1 <= o) /\ (o + 1) - o = 1 BY <1>3
  <2> QED BY <2>1, <2>2, <2>3, <1>7, <1>11
<1>19. PICK new : new = uv \o w OBVIOUS
<1>20. /\ new \in Seq(Commits) /\ Len(new) = o + 1 + (n - k)
       /\ \A i \in 1 .. o + 1 : new[i] = uv[i]
       /\ \A i \in 1 .. n - k : new[o + 1 + i] = w[i]
  <2>1. /\ new \in Seq(Commits) /\ Len(new) = Len(uv) + Len(w)
        /\ \A i \in 1 .. Len(uv) + Len(w) :
              new[i] = IF i <= Len(uv) THEN uv[i] ELSE w[i - Len(uv)]
    <3>1. uv \in Seq(Commits) /\ w \in Seq(Commits) BY <1>16, <1>18
    <3> QED BY <3>1, <1>19, ConcatProperties
  <2>5. Len(uv) = o + 1 /\ Len(w) = n - k BY <1>16, <1>18
  <2>2. \A i \in 1 .. o + 1 : i \in 1 .. o + 1 + (n - k) /\ i <= o + 1 BY <1>3, <1>15
  <2>3. \A i \in 1 .. n - k : /\ o + 1 + i \in 1 .. o + 1 + (n - k) /\ ~(o + 1 + i <= o + 1)
                              /\ (o + 1 + i) - (o + 1) = i
    BY <1>3, <1>15
  <2>6. \A i \in 1 .. o + 1 + (n - k) :
            new[i] = IF i <= o + 1 THEN uv[i] ELSE w[i - (o + 1)]
    BY <2>1, <2>5
  <2>7. \A i \in 1 .. o + 1 : new[i] = uv[i] BY <2>2, <2>6
  <2>8. \A i \in 1 .. n - k : new[o + 1 + i] = w[i] BY <2>3, <2>6
  <2> QED BY <2>1, <2>5, <2>7, <2>8
<1>21. Landed(c) = new BY <1>4, <1>6, <1>8, <1>10, <1>12, <1>17, <1>19 DEF Landed
<1>22. \A i \in 1 .. o : i \in 1 .. o + 1 BY <1>3
<1>23. o + 1 \in 1 .. o + 1 BY <1>3
<1>24. Landed(c) \in Seq(Commits) /\ Len(Landed(c)) = o + 1 + (n - k) BY <1>20, <1>21
<1>25. \A i \in 1 .. o : Landed(c)[i] = branch[i] BY <1>4, <1>18, <1>20, <1>21, <1>22
<1>26. Landed(c)[o + 1] = Commit("base", c, BaseTree(c)) BY <1>8, <1>18, <1>20, <1>21, <1>23
<1>27. \A i \in 1 .. n - k :
          /\ Landed(c)[o + 1 + i].subject = branch[k + i].subject
          /\ Landed(c)[o + 1 + i].by = branch[k + i].by
          /\ Landed(c)[o + 1 + i].tree = ReplayedOn(c, k + i)
  BY <1>4, <1>14, <1>20, <1>21
<1> QED BY <1>1, <1>2, <1>24, <1>25, <1>26, <1>27

LEMMA LandedLine ==
  ASSUME LineInv, NEW c \in DOMAIN children, IsCompactor(c), ~Superseded(c)
  PROVE  /\ LineOK(Landed(c), authored) /\ TreeOf(Landed(c)) = ReplayedOn(c, Len(branch))
         /\ Bases(Landed(c)) = Bases(branch) \cup {c}
         /\ c \notin Bases(branch)
<1>1. PICK past : past = children[c].past OBVIOUS
<1>2. PICK o : o = Origin(past) OBVIOUS
<1>3. PICK k : k = Point(c) OBVIOUS
<1>4. PICK n : n = Len(branch) OBVIOUS
<1>5. PICK new : new = Landed(c) OBVIOUS
<1>6. /\ new \in Seq(Commits) /\ Len(new) = o + 1 + (n - k)
      /\ o \in 1 .. k /\ k \in 2 .. n /\ n \in Nat
      /\ \A i \in 1 .. o : new[i] = branch[i]
      /\ new[o + 1] = Commit("base", c, BaseTree(c))
      /\ \A i \in 1 .. n - k :
            /\ new[o + 1 + i].subject = branch[k + i].subject
            /\ new[o + 1 + i].by = branch[k + i].by
            /\ new[o + 1 + i].tree = ReplayedOn(c, k + i)
  <2>1. o = Origin(children[c].past) BY <1>1, <1>2
  <2>2. new \in Seq(Commits) BY <2>1, <1>3, <1>4, <1>5, LandedElements
  <2>3. Len(new) = o + 1 + (n - k) BY <2>1, <1>3, <1>4, <1>5, LandedElements
  <2>4. o \in 1 .. k /\ k \in 2 .. n /\ n \in Nat BY <2>1, <1>3, <1>4, LandedElements
  <2>5. \A i \in 1 .. o : new[i] = branch[i] BY <2>1, <1>3, <1>4, <1>5, LandedElements
  <2>6. new[o + 1] = Commit("base", c, BaseTree(c)) BY <2>1, <1>3, <1>4, <1>5, LandedElements
  <2>7. \A i \in 1 .. n - k :
            /\ new[o + 1 + i].subject = branch[k + i].subject
            /\ new[o + 1 + i].by = branch[k + i].by
            /\ new[o + 1 + i].tree = ReplayedOn(c, k + i)
    BY <2>1, <1>3, <1>4, <1>5, LandedElements
  <2> QED BY <2>2, <2>3, <2>4, <2>5, <2>6, <2>7
<1>7. LineOK(branch, authored) /\ branch \in Seq(Commits) /\ authored \in Nat BY InvHead
<1>8. /\ k \in Nat /\ o \in Nat /\ n \in Nat /\ 1 <= o /\ o <= k /\ k <= n
      /\ Len(new) = o + 1 + (n - k)
  BY <1>6
<1>9. /\ new[o + 1].subject = "base" /\ new[o + 1].by = c
      /\ new[o + 1].tree = ReplayedOn(c, k)
  BY <1>3, <1>6, ReplayAtPoint DEF Commit
<1>10. \A i \in o + 1 .. n : branch[i].subject # "base"
  BY <1>1, <1>2, <1>4, NotSuperseded
<1>11. ASSUME NEW i \in 1 .. Len(new)
       PROVE  i \in 1 .. o \/ i = o + 1 \/ \E j \in 1 .. n - k : i = o + 1 + j
  <2>1. CASE i <= o BY <2>1, <1>8
  <2>2. CASE i = o + 1 BY <2>2
  <2>3. CASE i > o + 1
    <3>1. i - o - 1 \in 1 .. n - k /\ i = o + 1 + (i - o - 1) BY <2>3, <1>8
    <3> QED BY <3>1
  <2> QED BY <2>1, <2>2, <2>3, <1>8
<1>12. ASSUME NEW j \in k .. n PROVE Known(ReplayedOn(c, j), authored) /\ HasGoal(ReplayedOn(c, j))
  <2>1. j \in Point(c) .. Len(branch) BY <1>3, <1>4
  <2> QED BY <2>1, ReplayKeeps
<1>13. k \in k .. n /\ \A j \in 1 .. n - k : k + j \in k .. n BY <1>6, <1>8
<1>14. \A i \in 1 .. o : i \in 1 .. n BY <1>6, <1>8
<1>15. ASSUME NEW i \in 1 .. Len(new)
       PROVE  Known(new[i].tree, authored) /\ (i >= 2 => HasGoal(new[i].tree))
  <2>1. CASE i \in 1 .. o
    <3>1. new[i] = branch[i] BY <2>1, <1>6
    <3>2. i \in 1 .. Len(branch) /\ (i >= 2 => i \in 2 .. Len(branch)) BY <2>1, <1>4, <1>8, <1>6
    <3> QED BY <3>1, <3>2, <1>7 DEF LineOK
  <2>2. CASE i = o + 1 BY <2>2, <1>9, <1>12, <1>13
  <2>3. CASE \E j \in 1 .. n - k : i = o + 1 + j BY <2>3, <1>6, <1>12, <1>13
  <2> QED BY <2>1, <2>2, <2>3, <1>11
<1>16. LineOK(new, authored)
  <2>1. Len(new) > 1 BY <1>6, <1>8
  <2>2. new[1] = branch[1]
    <3>1. 1 \in 1 .. o BY <1>8
    <3> QED BY <3>1, <1>6
  <2>3. new[1].subject = "founding" BY <2>2, <1>7 DEF LineOK
  <2>4. \A i \in 2 .. Len(new) : i \in 1 .. Len(new) /\ i >= 2
    <3>1. Len(new) \in Nat BY <1>6, LenProperties
    <3> QED BY <3>1
  <2>5. \A i \in 2 .. Len(new) : HasGoal(new[i].tree) BY <2>4, <1>15
  <2>6. \A i \in 1 .. Len(new) : Known(new[i].tree, authored) BY <1>15
  <2> QED BY <2>1, <2>3, <2>5, <2>6, <1>6 DEF LineOK
<1>17. TreeOf(new) = ReplayedOn(c, n)
  <2>1. TreeOf(new) = new[Len(new)].tree BY <1>16, LineTip
  <2>2. CASE k = n
    <3>1. Len(new) = o + 1 BY <2>2, <1>6, <1>8
    <3> QED BY <3>1, <2>1, <2>2, <1>9
  <2>3. CASE k # n
    <3>1. n - k \in 1 .. n - k /\ Len(new) = o + 1 + (n - k) /\ k + (n - k) = n
      BY <2>3, <1>6, <1>8
    <3> QED BY <3>1, <2>1, <1>6
  <2> QED BY <2>2, <2>3
<1>18. ASSUME NEW d \in Bases(branch) PROVE d \in Bases(past) /\ d \in Bases(new)
  <2>1. PICK i \in 1 .. n : branch[i].subject = "base" /\ branch[i].by = d
    BY <1>4, <1>7, BasesDef
  <2>2. i \in 1 .. o
    <3>1. ~(i \in o + 1 .. n) BY <2>1, <1>10
    <3> QED BY <3>1, <1>6, <1>8
  <2>3. i \in 1 .. Len(new) /\ new[i] = branch[i] BY <2>2, <1>6, <1>8
  <2>4. d \in Bases(new) BY <2>1, <2>3, <1>6, BasesDef
  <2>5. i \in 1 .. k BY <2>2, <1>8
  <2>6. past[i] = branch[i] /\ Len(past) = k /\ past \in Seq(Commits)
    <3>1. LineOK(past, authored) /\ Len(past) = k /\ past[i] = branch[i]
      BY <2>5, <1>1, <1>3, NotSuperseded
    <3> QED BY <3>1, LineTip
  <2>7. d \in Bases(past) BY <2>1, <2>5, <2>6, BasesDef
  <2> QED BY <2>4, <2>7
<1>19. c \notin Bases(branch)
  <2>1. Bases(past) \subseteq 1 .. c - 1 /\ c \in Nat BY <1>1, ChildTypes
  <2>2. c \notin 1 .. c - 1 BY <2>1
  <2> QED BY <2>1, <2>2, <1>18
<1>20. c \in Bases(new)
  <2>1. o + 1 \in 1 .. Len(new) BY <1>6, <1>8
  <2> QED BY <2>1, <1>6, <1>9, BasesDef
<1>21. ASSUME NEW d \in Bases(new) PROVE d \in Bases(branch) \cup {c}
  <2>1. PICK i \in 1 .. Len(new) : new[i].subject = "base" /\ new[i].by = d
    BY <1>6, BasesDef
  <2>2. CASE i \in 1 .. o
    <3>1. i \in 1 .. Len(branch) /\ new[i] = branch[i] BY <2>2, <1>4, <1>6, <1>14
    <3> QED BY <3>1, <2>1, <1>7, BasesDef
  <2>3. CASE i = o + 1 BY <2>1, <2>3, <1>9
  <2>4. CASE \E j \in 1 .. n - k : i = o + 1 + j
    <3>1. PICK j \in 1 .. n - k : i = o + 1 + j BY <2>4
    <3>2. branch[k + j].subject = "base" BY <2>1, <3>1, <1>6
    <3>3. k + j \in o + 1 .. n BY <1>6, <1>8
    <3> QED BY <3>2, <3>3, <1>10
  <2> QED BY <2>2, <2>3, <2>4, <1>11
<1> QED BY <1>4, <1>5, <1>16, <1>17, <1>18, <1>19, <1>20, <1>21

-----------------------------------------------------------------------------
(* The landing: the account of what it takes.                              *)

LEMMA LandedRemoves ==
  ASSUME LineInv, NEW c \in DOMAIN children, IsCompactor(c), ~Superseded(c),
         NEW after, after = TreeOf(Landed(c))
  PROVE  /\ after \in Trees /\ OnlyRemoves(HEAD, after)
         /\ \A p \in DOMAIN HEAD \ DOMAIN after :
               /\ p \in Deletions(c) /\ p \in DOMAIN children[c].founded
               /\ HEAD[p] = children[c].founded[p]
         /\ Conflicts(c) = {} => \A p \in Summaries(c) :
               p \in DOMAIN after /\ after[p] = children[c].tip[p]
<1>1. HEAD = branch[Len(branch)].tree /\ Len(branch) \in Nat /\ HEAD \in Trees BY InvHead
<1>2. PICK h \in Trees : h = HEAD BY <1>1
<1>3. PICK n \in Nat : n = Len(branch) BY <1>1
<1>4. n \in Point(c) .. Len(branch)
  <2>1. Point(c) \in 2 .. Len(branch)
    <3>1. PICK past : past = children[c].past OBVIOUS
    <3> QED BY <3>1, NotSuperseded
  <2> QED BY <2>1, <1>3
<1>5. PICK u : u = ReplayedOn(c, n) OBVIOUS
<1>6. u = after BY <1>3, <1>5, LandedLine
<1>7. h = branch[n].tree BY <1>1, <1>2, <1>3
<1>8. u \in Trees BY <1>4, <1>5, <1>7, ReplayKeeps
<1>9. \A p \in DOMAIN u :
         \/ p \in DOMAIN h /\ u[p] = h[p]
         \/ p \notin DOMAIN h /\ p \in Summaries(c) /\ u[p].kind = "summary"
  BY <1>4, <1>5, <1>7, ReplayKeeps
<1>10. \A p \in DOMAIN h \ DOMAIN u :
          /\ p \in Deletions(c) /\ p \in DOMAIN TreeOf(children[c].past)
          /\ p \in DOMAIN children[c].founded
          /\ h[p] = children[c].founded[p]
  BY <1>4, <1>5, <1>7, ReplayKeeps
<1>11. \A p \in Summaries(c) : ~Touched(p, Point(c), n) => p \in DOMAIN u /\ u[p] = children[c].tip[p]
  BY <1>4, <1>5, <1>7, ReplayKeeps
<1>12. OnlyRemoves(h, u) BY <1>9 DEF OnlyRemoves, FileAt
<1>13. Conflicts(c) = {} => \A p \in Summaries(c) : ~Touched(p, Point(c), n)
  BY <1>3 DEF Conflicts
<1> QED BY <1>2, <1>6, <1>8, <1>10, <1>11, <1>12, <1>13

LEMMA ShedKnown ==
  ASSUME LineInv, NEW c \in DOMAIN children
  PROVE  ShedBy(c) \subseteq 1 .. authored
<1>1. children[c].founded \in Trees /\ Known(children[c].founded, authored) BY ChildTypes
<1>2. authored \in Nat BY InvHead
<1>3. PICK f \in Trees, a \in Nat : f = children[c].founded /\ a = authored BY <1>1, <1>2
<1>4. Known(f, a) BY <1>1, <1>3
<1>5. PICK N : N = Nominated(c) OBVIOUS
<1>6. PICK gone : gone = Keep(f, N) OBVIOUS
<1>7. gone \in Trees BY <1>6, KeepFacts
<1>8. Known(gone, a) BY <1>4, <1>6, KeepKnown
<1>9. Tags(gone) \cup Covered(gone) \subseteq 1 .. a BY <1>7, <1>8, SeenKnown
<1> QED BY <1>3, <1>5, <1>6, <1>9 DEF ShedBy

\* What was seen is still seen, stood for, or shed.
LEMMA LandedSeen ==
  ASSUME LineInv, NEW c \in DOMAIN children, IsCompactor(c), Outcome(c) = "landed",
         NEW after, after = TreeOf(Landed(c))
  PROVE  Tags(HEAD) \cup Covered(HEAD) \subseteq Tags(after) \cup Covered(after) \cup ShedBy(c)
<1>1. ~Superseded(c) /\ Conflicts(c) = {} BY DEF Outcome
<1>2. PICK h \in Trees : h = HEAD BY InvHead
<1>3. after \in Trees BY <1>1, LandedRemoves
<1>4. PICK f \in Trees : f = children[c].founded BY ChildTypes
<1>5. \A p \in DOMAIN h \ DOMAIN after :
         p \in Deletions(c) /\ p \in DOMAIN f /\ h[p] = f[p]
  BY <1>1, <1>2, <1>4, LandedRemoves
<1>6. OnlyRemoves(h, after) BY <1>1, <1>2, LandedRemoves
<1>7. \A p \in DOMAIN h \cap DOMAIN after : after[p] = h[p]
  BY <1>6 DEF OnlyRemoves, FileAt
<1>8. \A p \in Summaries(c) : p \in DOMAIN after /\ after[p] = children[c].tip[p]
  BY <1>1, LandedRemoves
<1>9. PassInv(children[c]) BY ChildTypes
<1>10. ASSUME NEW p \in DOMAIN h \ DOMAIN after, NEW x,
              (p[1] = "msg" /\ h[p].tag = x) \/ (p[1] = "sum" /\ x \in h[p].about)
       PROVE  x \in Covered(after) \cup ShedBy(c)
  <2>1. p \in Deletions(c) /\ p \in DOMAIN f /\ h[p] = f[p] BY <1>5
  <2>2. CASE Summaries(c) = {}
    <3>1. p \in Nominated(c) BY <2>1, <2>2 DEF Deletions, Swept
    <3>2. PICK N : N = Nominated(c) OBVIOUS
    <3>3. PICK gone : gone = Keep(f, N) OBVIOUS
    <3>4. gone \in Trees /\ p \in DOMAIN gone /\ gone[p] = f[p]
      <4>1. p \in DOMAIN f \cap N BY <2>1, <3>1, <3>2
      <4>2. gone \in Trees BY <3>3, KeepFacts
      <4>3. DOMAIN gone = DOMAIN f \cap N BY <3>3, KeepFacts
      <4>4. gone = [q \in DOMAIN f \cap N |-> f[q]] BY <3>3 DEF Keep
      <4>5. gone[p] = f[p] BY <4>1, <4>4
      <4> QED BY <4>1, <4>2, <4>3, <4>5
    <3>5. x \in Tags(gone) \/ x \in Covered(gone)
      BY <2>1, <3>4, <1>10, TagsDef, CoveredDef
    <3> QED BY <2>2, <3>2, <3>3, <3>5, <1>4 DEF ShedBy
  <2>3. CASE Summaries(c) # {}
    <3>1. PICK s \in Summaries(c) : TRUE BY <2>3
    <3>2. s \in DOMAIN children[c].tip \ DOMAIN children[c].founded /\ s[1] = "sum"
      BY <3>1 DEF Summaries, InDir
    <3>3. children[c].tip[s].about = Tags(f) \cup Covered(f) BY <3>2, <1>4, <1>9 DEF PassInv
    <3>4. s \in DOMAIN after /\ after[s].about = Tags(f) \cup Covered(f) BY <3>1, <3>3, <1>8
    <3>5. x \in Tags(f) \/ x \in Covered(f) BY <2>1, <1>10, TagsDef, CoveredDef
    <3> QED BY <3>2, <3>4, <3>5, CoveredDef
  <2> QED BY <2>2, <2>3
<1>11. ASSUME NEW x \in Tags(h) PROVE x \in Tags(after) \cup Covered(after) \cup ShedBy(c)
  <2>1. PICK p \in DOMAIN h : p[1] = "msg" /\ h[p].tag = x BY TagsDef
  <2>2. CASE p \in DOMAIN after
    <3>1. after[p] = h[p] BY <2>2, <1>7
    <3> QED BY <2>1, <2>2, <3>1, <1>3, TagsDef
  <2>3. CASE p \notin DOMAIN after BY <2>1, <2>3, <1>10
  <2> QED BY <2>2, <2>3
<1>12. ASSUME NEW x \in Covered(h) PROVE x \in Tags(after) \cup Covered(after) \cup ShedBy(c)
  <2>1. PICK p \in DOMAIN h : p[1] = "sum" /\ x \in h[p].about BY CoveredDef
  <2>2. CASE p \in DOMAIN after
    <3>1. after[p] = h[p] BY <2>2, <1>7
    <3> QED BY <2>1, <2>2, <3>1, CoveredDef
  <2>3. CASE p \notin DOMAIN after BY <2>1, <2>3, <1>10
  <2> QED BY <2>2, <2>3
<1> QED BY <1>2, <1>11, <1>12

\* What a landing may change, the warrant of the next step aside.
RemovesOnly ==
    /\ OnlyRemoves(HEAD, HEAD') /\ Shown(HEAD, HEAD')
    /\ Bases(branch) \subseteq Bases(branch')

LEMMA LandStep ==
  ASSUME LineInv, Accounted, listed # <<>>, Land(listed[1])
  PROVE  LineInv' /\ Accounted' /\ (Landing => RemovesOnly)
<1>1. PICK c \in DOMAIN children : c = listed[1] BY ListedChild
<1>2. Land(c) BY <1>1
<1>3. IsCompactor(c) /\ UNCHANGED <<keep, children, authored, arrivals, steps>>
      /\ (Consume \/ DieAt("replayed"))
      /\ conflicted' = IF Outcome(c) = "conflicted" THEN conflicted \cup {c} ELSE conflicted
  BY <1>2 DEF Land, Qualifies
<1>4. LineOK(branch, authored) /\ authored \in Nat BY InvHead
<1>5. QueueInv' BY <1>3, QueueStep DEF LineInv
<1>6. hop' \in {"boundary", "interpret", "flush"} /\ crashes' \in Nat
  BY <1>3 DEF Consume, DieAt, LineInv, CountInv
<1>7. conflicted' \subseteq DOMAIN (children') BY <1>3 DEF LineInv, CountInv
<1>8. CASE Outcome(c) # "landed"
  <2>1. branch' = branch /\ shed' = shed BY <1>2, <1>8 DEF Land
  <2>2. ChildInv' BY <2>1, <1>3, <1>4, ChildrenKept DEF LineInv
  <2>3. BranchInv' BY <2>1, <1>3 DEF LineInv, BranchInv
  <2>4. CountInv' BY <2>1, <1>3, <1>6, <1>7 DEF LineInv, CountInv
  <2>5. Accounted' BY <2>1, <1>3 DEF Accounted, HEAD
  <2>6. ~Landing BY <2>1 DEF Landing
  <2> QED BY <2>2, <2>3, <2>4, <2>5, <2>6, <1>5 DEF LineInv
<1>9. CASE Outcome(c) = "landed"
  <2>1. branch' = Landed(c) /\ shed' = shed \cup ShedBy(c) BY <1>2, <1>9 DEF Land
  <2>2. ~Superseded(c) BY <1>9 DEF Outcome
  <2>3. PICK new : new = Landed(c) OBVIOUS
  <2>4. LineOK(new, authored) /\ Bases(new) = Bases(branch) \cup {c} /\ c \notin Bases(branch)
    BY <2>2, <2>3, <1>3, LandedLine
  <2>5. ChildInv'
    <3>1. authored' \in Nat /\ authored <= authored' /\ Bases(branch) \subseteq Bases(branch')
      BY <2>1, <2>3, <2>4, <1>3, <1>4
    <3> QED BY <3>1, <1>3, <1>4, ChildrenKept DEF LineInv
  <2>6. BranchInv' BY <2>1, <2>3, <2>4, <1>3 DEF LineInv, BranchInv
  <2>7. CountInv'
    <3>1. ShedBy(c) \subseteq 1 .. authored BY ShedKnown
    <3> QED BY <3>1, <2>1, <1>3, <1>6, <1>7 DEF LineInv, CountInv
  <2>8. PICK after : after = TreeOf(new) OBVIOUS
  <2>9. HEAD' = after BY <2>1, <2>3, <2>8 DEF HEAD
  <2>10. Accounted'
    <3>1. Tags(HEAD) \cup Covered(HEAD) \subseteq Tags(after) \cup Covered(after) \cup ShedBy(c)
      BY <2>3, <2>8, <1>3, <1>9, LandedSeen
    <3>2. HasGoal(after) BY <2>4, <2>8, LineTip
    <3>3. 1 .. authored' \subseteq Tags(after) \cup Covered(after) \cup shed'
      BY <3>1, <2>1, <1>3 DEF Accounted
    <3> QED BY <3>2, <3>3, <2>9 DEF Accounted, HasGoal
  <2>11. RemovesOnly
    <3>1. OnlyRemoves(HEAD, after) BY <2>2, <2>3, <2>8, <1>3, LandedRemoves
    <3>2. \A p \in DOMAIN HEAD \ DOMAIN after :
             p \in DOMAIN children[c].founded /\ HEAD[p] = children[c].founded[p]
      BY <2>2, <2>3, <2>8, <1>3, LandedRemoves
    <3>3. c \in Bases(branch') \ Bases(branch) BY <2>1, <2>3, <2>4
    <3>4. Shown(HEAD, after) BY <3>2, <3>3 DEF Shown, FileAt
    <3>5. OnlyRemoves(HEAD, HEAD') /\ Shown(HEAD, HEAD') BY <3>1, <3>4, <2>9
    <3>6. Bases(branch) \subseteq Bases(branch') BY <2>1, <2>3, <2>4
    <3> QED BY <3>5, <3>6 DEF RemovesOnly
  <2> QED BY <2>5, <2>6, <2>7, <2>10, <2>11, <1>5 DEF LineInv
<1> QED BY <1>8, <1>9

LEMMA LineStep ==
  ASSUME LineInv, Accounted, [LandingNext]_landingVars
  PROVE  LineInv' /\ Accounted' /\ (Landing => RemovesOnly)
<1>1. CASE DeliverMail BY <1>1, DeliverMailStep DEF Landing
<1>2. CASE List BY <1>2, ListStep DEF Landing
<1>3. CASE Interpret
  <2>1. listed # <<>> BY <1>3 DEF Interpret
  <2>2. CASE Land(listed[1]) BY <2>1, <2>2, LandStep
  <2>3. CASE DeliverResult(listed[1]) BY <2>1, <2>3, DeliverResultStep DEF Landing
  <2> QED BY <2>2, <2>3, <1>3 DEF Interpret
<1>4. CASE Quiesce BY <1>4, QuiesceStep DEF Landing
<1>5. CASE Step
  <2>1. CASE Speak BY <2>1, SpeakStep DEF Landing
  <2>2. CASE \E n \in Windows, effect \in Effects : Tools(n, effect)
    BY <2>2, ToolsStep DEF Landing
  <2> QED BY <2>1, <2>2, <1>5 DEF Step
<1>6. CASE Flush BY <1>6, FlushStep DEF Landing
<1>7. ASSUME NEW c \in DOMAIN children, CompactorTool(c) \/ CompactorReturns(c) \/ WorkerReturns(c)
      PROVE  LineInv' /\ Accounted' /\ (Landing => RemovesOnly)
  BY <1>7, CompactorToolStep, ReturnsStep DEF Landing
<1>8. CASE UNCHANGED landingVars
  <2>1. UNCHANGED <<keep, branch, hop, listed, inbox, children, conflicted, authored, shed,
                    arrivals, steps, crashes>>
    BY <1>8 DEF landingVars
  <2>2. BranchInv' BY <2>1 DEF LineInv, BranchInv
  <2>3. ChildInv' BY <2>1 DEF LineInv, ChildInv, IsCompactor, PassInv
  <2>4. QueueInv' BY <2>1, QueueKept DEF LineInv
  <2>5. CountInv' BY <2>1 DEF LineInv, CountInv
  <2>6. Accounted' /\ ~Landing BY <2>1 DEF Accounted, HEAD, Landing
  <2> QED BY <2>2, <2>3, <2>4, <2>5, <2>6 DEF LineInv
<1> QED BY <1>1, <1>2, <1>3, <1>4, <1>5, <1>6, <1>7, <1>8 DEF LandingNext

-----------------------------------------------------------------------------
(* The types and the account.                                              *)

LEMMA KnownTreeOK ==
  ASSUME NEW t \in Trees, Known(t, authored)
  PROVE  TreeOK(t)
<1>1. ASSUME NEW p \in DOMAIN t
      PROVE  /\ p \in Paths /\ t[p].kind \in Kinds /\ t[p].tag \in Nat
             /\ t[p].about \subseteq 1 .. authored
  <2>1. p \in Paths /\ t[p] \in Contents BY TreeDef
  <2>2. t[p].about \subseteq 1 .. authored BY DEF Known
  <2> QED BY <2>1, <2>2 DEF Contents
<1> QED BY <1>1 DEF TreeOK

LEMMA LineInvTypes ==
  ASSUME LineInv
  PROVE  LandingTypeOK
<1>1. hop \in {"boundary", "interpret", "flush"} BY DEF LineInv, CountInv
<1>2. branch # <<>> /\ TreeOK(HEAD)
  <2>1. HEAD \in Trees /\ Known(HEAD, authored) /\ Len(branch) > 1 BY InvHead
  <2>2. branch # <<>> BY <2>1, EmptySeq
  <2>3. PICK t \in Trees : t = HEAD BY <2>1
  <2> QED BY <2>1, <2>2, <2>3, KnownTreeOK
<1>3. \A c \in DOMAIN children :
          /\ TreeOK(children[c].founded) /\ TreeOK(children[c].tip)
          /\ children[c].epitaph \in {"running", "final-response", "died"}
  <2>1. SUFFICES ASSUME NEW c \in DOMAIN children
                 PROVE  /\ TreeOK(children[c].founded) /\ TreeOK(children[c].tip)
                        /\ children[c].epitaph \in {"running", "final-response", "died"}
    OBVIOUS
  <2>2. /\ children[c].epitaph \in Epitaphs
        /\ Known(children[c].founded, authored) /\ Known(children[c].tip, authored)
    BY ChildTypes
  <2>3. PICK f \in Trees, t \in Trees : f = children[c].founded /\ t = children[c].tip
    BY ChildTypes
  <2>4. TreeOK(f) /\ TreeOK(t) BY <2>2, <2>3, KnownTreeOK
  <2> QED BY <2>2, <2>3, <2>4 DEF Epitaphs
<1>4. /\ \A i \in DOMAIN inbox : ~Running(inbox[i])
      /\ \A i \in DOMAIN listed : \E j \in DOMAIN inbox : inbox[j] = listed[i]
  BY DEF LineInv, QueueInv
<1>5. /\ conflicted \subseteq DOMAIN children /\ shed \subseteq 1 .. authored
      /\ {authored, arrivals, steps, crashes} \subseteq Nat
  BY DEF LineInv, CountInv
<1> QED BY <1>1, <1>2, <1>3, <1>4, <1>5 DEF LandingTypeOK

LEMMA LineInvariant == LandingSpec => [](LineInv /\ Accounted)
<1>1. LandingInit => LineInv /\ Accounted BY InitLine
<1>2. LineInv /\ Accounted /\ [LandingNext]_landingVars => (LineInv /\ Accounted)'
  BY LineStep
<1> QED BY <1>1, <1>2, PTL DEF LandingSpec

\* The state of a dispatching branch has its types wherever returns, deaths
\* of the driver and landings fall: its commits, the trees of its children,
\* the returns the hop lists, each still in the inbox, and the entries shed.
THEOREM LandingTypes == LandingSpec => []LandingTypeOK
<1>1. LineInv => LandingTypeOK BY LineInvTypes
<1> QED BY <1>1, LineInvariant, PTL

\* No entry leaves the context unaccounted for, whatever a compactor may
\* nominate, however many passes are in flight together and whatever the
\* branch does while they read: each entry ever written is in the
\* transcript, stood for by a summary in the tree, or shed by a landed pass
\* that wrote none; and the opening prompt stays the first.
THEOREM AccountedFor == LandingSpec => []Accounted
<1> QED BY LineInvariant, PTL

\* A landing only takes away, takes only what its pass was shown, in the
\* version it was shown, and squashes no earlier landing.
THEOREM LandingsTake == LandingSpec => [][Landing => RemovesOnly]_landingVars
<1>1. LineInv /\ Accounted /\ [LandingNext]_landingVars => [Landing => RemovesOnly]_landingVars
  BY LineStep
<1> QED BY <1>1, LineInvariant, PTL DEF LandingSpec

-----------------------------------------------------------------------------
(* Windows.                                                                *)

LEMMA OfKind ==
  ASSUME NEW t \in Trees, NEW kind
  PROVE  /\ EntriesOf(t, kind) \subseteq Nat \ {0}
         /\ \A n : n \in EntriesOf(t, kind) <=> Msg(n) \in DOMAIN t /\ t[Msg(n)].kind = kind
<1>1. EntriesIn(t) \subseteq Nat \ {0} /\ \A n : n \in EntriesIn(t) <=> Msg(n) \in DOMAIN t
  BY EntryFacts
<1> QED BY <1>1 DEF EntriesOf

LEMMA AnsweredDef ==
  ASSUME NEW t, NEW x
  PROVE  /\ x \in AnsweredBy(t) <=> \E n \in EntriesOf(t, "result") : x \in t[Msg(n)].about
         /\ x \in CalledBy(t) <=> \E n \in EntriesOf(t, "output") : x \in t[Msg(n)].about
BY DEF AnsweredBy, CalledBy

\* The outputs and the results of u are those of t but for whole windows.
Thinned(t, u) ==
    /\ EntriesOf(u, "output") \subseteq EntriesOf(t, "output")
    /\ EntriesOf(u, "result") \subseteq EntriesOf(t, "result")
    /\ \A n \in EntriesOf(u, "output") \cup EntriesOf(u, "result") : u[Msg(n)] = t[Msg(n)]
    /\ \A n \in EntriesOf(u, "result"), m \in EntriesOf(t, "output") :
          t[Msg(m)].about \cap t[Msg(n)].about # {} /\ InWindowOf(t, m, n)
             => m \in EntriesOf(u, "output")
    /\ \A m \in EntriesOf(u, "output"), n \in EntriesOf(t, "result") :
          t[Msg(m)].about \cap t[Msg(n)].about # {} /\ InWindowOf(t, m, n)
             => n \in EntriesOf(u, "result")

LEMMA ThinnedWindow ==
  ASSUME NEW t, NEW u, Thinned(t, u), NEW m, NEW n, InWindowOf(t, m, n)
  PROVE  InWindowOf(u, m, n)
BY DEF Thinned, InWindowOf

LEMMA ThinnedSettled ==
  ASSUME NEW t, NEW u, Thinned(t, u), NEW m \in EntriesOf(u, "output"), Settled(t, m)
  PROVE  Settled(u, m)
<1>1. SUFFICES ASSUME NEW x \in u[Msg(m)].about
               PROVE  \E n \in EntriesOf(u, "result") :
                         x \in u[Msg(n)].about /\ InWindowOf(u, m, n)
  BY DEF Settled
<1>2. m \in EntriesOf(t, "output") /\ u[Msg(m)] = t[Msg(m)] BY DEF Thinned
<1>3. PICK n \in EntriesOf(t, "result") : x \in t[Msg(n)].about /\ InWindowOf(t, m, n)
  BY <1>1, <1>2 DEF Settled
<1>4. t[Msg(m)].about \cap t[Msg(n)].about # {} BY <1>1, <1>2, <1>3
<1>5. n \in EntriesOf(u, "result") BY <1>3, <1>4 DEF Thinned
<1>6. u[Msg(n)] = t[Msg(n)] BY <1>5 DEF Thinned
<1>7. InWindowOf(u, m, n) BY <1>3, ThinnedWindow
<1> QED BY <1>3, <1>5, <1>6, <1>7

LEMMA ThinnedWindowed ==
  ASSUME NEW t, NEW u, Thinned(t, u), Windowed(t)
  PROVE  Windowed(u)
<1>1. ASSUME NEW n \in EntriesOf(u, "result"), NEW x \in u[Msg(n)].about
      PROVE  \E m \in EntriesOf(u, "output") : x \in u[Msg(m)].about /\ InWindowOf(u, m, n)
  <2>1. n \in EntriesOf(t, "result") /\ u[Msg(n)] = t[Msg(n)] BY DEF Thinned
  <2>2. PICK m \in EntriesOf(t, "output") : x \in t[Msg(m)].about /\ InWindowOf(t, m, n)
    BY <2>1 DEF Windowed
  <2>3. t[Msg(m)].about \cap t[Msg(n)].about # {} BY <2>1, <2>2
  <2>4. m \in EntriesOf(u, "output") BY <2>2, <2>3 DEF Thinned
  <2>5. u[Msg(m)] = t[Msg(m)] BY <2>4 DEF Thinned
  <2>6. InWindowOf(u, m, n) BY <2>2, ThinnedWindow
  <2> QED BY <2>2, <2>4, <2>5, <2>6
<1>2. ASSUME NEW n \in EntriesOf(u, "result"), NEW k \in EntriesOf(u, "result"),
             u[Msg(n)].about \cap u[Msg(k)].about # {}
      PROVE  n = k
  <2>1. /\ n \in EntriesOf(t, "result") /\ u[Msg(n)] = t[Msg(n)]
        /\ k \in EntriesOf(t, "result") /\ u[Msg(k)] = t[Msg(k)]
    BY DEF Thinned
  <2> QED BY <2>1, <1>2 DEF Windowed
<1>3. ASSUME NEW m \in EntriesOf(u, "output")
      PROVE  Settled(u, m) \/ \A o \in EntriesOf(u, "output") : o <= m
  <2>1. m \in EntriesOf(t, "output") BY DEF Thinned
  <2>2. CASE Settled(t, m) BY <2>2, ThinnedSettled
  <2>3. CASE \A o \in EntriesOf(t, "output") : o <= m BY <2>3 DEF Thinned
  <2> QED BY <2>1, <2>2, <2>3 DEF Windowed
<1> QED BY <1>1, <1>2, <1>3 DEF Windowed

\* A tree all of whose windows are answered.
LEMMA SettledPairs ==
  ASSUME NEW t, Windowed(t), AllSettled(t)
  PROVE  AnsweredBy(t) = CalledBy(t)
<1>1. ASSUME NEW x \in AnsweredBy(t) PROVE x \in CalledBy(t)
  <2>1. PICK n \in EntriesOf(t, "result") : x \in t[Msg(n)].about BY AnsweredDef
  <2>2. PICK m \in EntriesOf(t, "output") : x \in t[Msg(m)].about BY <2>1 DEF Windowed
  <2> QED BY <2>2, AnsweredDef
<1>2. ASSUME NEW x \in CalledBy(t) PROVE x \in AnsweredBy(t)
  <2>1. PICK m \in EntriesOf(t, "output") : x \in t[Msg(m)].about BY AnsweredDef
  <2>2. PICK n \in EntriesOf(t, "result") : x \in t[Msg(n)].about BY <2>1 DEF AllSettled, Settled
  <2> QED BY <2>2, AnsweredDef
<1> QED BY <1>1, <1>2

LEMMA EntriesFinite ==
  ASSUME NEW t \in Trees, NEW S \in SUBSET EntriesIn(t), S # {}
  PROVE  /\ Greatest(S) \in S /\ \A m \in S : m <= Greatest(S)
<1>1. PICK E : E = EntriesIn(t) OBVIOUS
<1>2. IsFiniteSet(E) /\ E \subseteq Nat BY <1>1, NumbersFinite DEF EntriesIn
<1>3. S \subseteq Nat /\ IsFiniteSet(S) BY <1>1, <1>2, FS_Subset
<1> QED BY <1>3, GreatestIsOne

\* What the unsettled window is, by the last output.
LEMMA UnsettledFacts ==
  ASSUME NEW t \in Trees, Windowed(t)
  PROVE  \/ /\ UnsettledWindow(t) = {}
            /\ \A m \in EntriesOf(t, "output") : \A x \in t[Msg(m)].about :
                  \E n \in EntriesOf(t, "result") : x \in t[Msg(n)].about
         \/ \E last \in EntriesOf(t, "output") :
               /\ UnsettledWindow(t) = {n \in EntriesIn(t) : n >= last}
               /\ \A m \in EntriesOf(t, "output") : m <= last
<1>1. PICK O : O = EntriesOf(t, "output") OBVIOUS
<1>2. PICK R : R = EntriesOf(t, "result") OBVIOUS
<1>3. CASE O = {} BY <1>1, <1>3 DEF UnsettledWindow
<1>4. CASE O # {}
  <2>1. O \in SUBSET EntriesIn(t) BY <1>1 DEF EntriesOf
  <2>2. PICK last \in O : last = Greatest(O) /\ \A m \in O : m <= last
    BY <2>1, <1>4, EntriesFinite
  <2>3. PICK after : after = {n \in R : n > last} OBVIOUS
  <2>4. UnsettledWindow(t) =
           IF ~(t[Msg(last)].about \subseteq UNION {t[Msg(n)].about : n \in after})
           THEN {n \in EntriesIn(t) : n >= last} ELSE {}
    BY <1>1, <1>2, <1>4, <2>2, <2>3 DEF UnsettledWindow
  <2>5. CASE t[Msg(last)].about \subseteq UNION {t[Msg(n)].about : n \in after}
    <3>1. UnsettledWindow(t) = {} BY <2>4, <2>5
    <3>2. ASSUME NEW m \in O, NEW x \in t[Msg(m)].about
          PROVE  \E n \in R : x \in t[Msg(n)].about
      <4>1. CASE m = last
        <5>1. x \in UNION {t[Msg(n)].about : n \in after} BY <4>1, <3>2, <2>5
        <5>2. PICK n \in after : x \in t[Msg(n)].about BY <5>1
        <5> QED BY <5>2, <2>3
      <4>2. CASE m # last
        <5>1. m \in Nat /\ last \in Nat BY <1>1, OfKind
        <5>2. ~(last <= m) BY <5>1, <4>2, <2>2
        <5>3. Settled(t, m) BY <5>2, <2>2, <1>1 DEF Windowed
        <5> QED BY <5>3, <3>2, <1>2 DEF Settled
      <4> QED BY <4>1, <4>2
    <3> QED BY <3>1, <3>2, <1>1, <1>2
  <2>6. CASE ~(t[Msg(last)].about \subseteq UNION {t[Msg(n)].about : n \in after})
    <3>1. UnsettledWindow(t) = {n \in EntriesIn(t) : n >= last} BY <2>4, <2>6
    <3> QED BY <3>1, <2>2, <1>1
  <2> QED BY <2>5, <2>6
<1> QED BY <1>3, <1>4

\* A pass is founded on whole windows.
LEMMA CompactorPaired ==
  ASSUME NEW t \in Trees, Windowed(t), NEW u, u = CompactorTree(t)
  PROVE  AnsweredBy(u) = CalledBy(u)
<1>1. PICK W : W = UnsettledWindow(t) OBVIOUS
<1>2. PICK gone : gone = {Msg(n) : n \in W} OBVIOUS
<1>3. u = Without(t, gone) BY <1>1, <1>2 DEF CompactorTree
<1>4. u \in Trees BY <1>3, WithoutFacts
<1>5. DOMAIN u = DOMAIN t \ gone BY <1>3, WithoutFacts
<1>6. u = [q \in DOMAIN t \ gone |-> t[q]] BY <1>3 DEF Without
<1>7. \A n : Msg(n) \in gone <=> n \in W
  BY <1>2, PathFacts
<1>8. \A n : \A kind : n \in EntriesOf(u, kind) <=> n \in EntriesOf(t, kind) \ W
  <2>1. ASSUME NEW n, NEW kind
        PROVE  n \in EntriesOf(u, kind) <=> n \in EntriesOf(t, kind) \ W
    <3>1. n \in EntriesOf(u, kind) <=> Msg(n) \in DOMAIN u /\ u[Msg(n)].kind = kind
      BY <1>4, OfKind
    <3>2. n \in EntriesOf(t, kind) <=> Msg(n) \in DOMAIN t /\ t[Msg(n)].kind = kind
      BY OfKind
    <3>3. Msg(n) \in DOMAIN u <=> Msg(n) \in DOMAIN t /\ n \notin W BY <1>5, <1>7
    <3>4. Msg(n) \in DOMAIN u => u[Msg(n)] = t[Msg(n)] BY <1>5, <1>6
    <3> QED BY <3>1, <3>2, <3>3, <3>4
  <2> QED BY <2>1
<1>9. \A n : \A kind : n \in EntriesOf(u, kind) => u[Msg(n)] = t[Msg(n)]
  BY <1>4, <1>5, <1>6, OfKind
<1>10. CASE W = {} /\ \A m \in EntriesOf(t, "output") : \A x \in t[Msg(m)].about :
                         \E n \in EntriesOf(t, "result") : x \in t[Msg(n)].about
  <2>1. ASSUME NEW x \in AnsweredBy(u) PROVE x \in CalledBy(u)
    <3>1. PICK n \in EntriesOf(u, "result") : x \in u[Msg(n)].about BY AnsweredDef
    <3>2. n \in EntriesOf(t, "result") /\ x \in t[Msg(n)].about BY <3>1, <1>8, <1>9
    <3>3. PICK m \in EntriesOf(t, "output") : x \in t[Msg(m)].about BY <3>2 DEF Windowed
    <3>4. m \in EntriesOf(u, "output") BY <3>3, <1>8, <1>10
    <3> QED BY <3>3, <3>4, <1>9, AnsweredDef
  <2>2. ASSUME NEW x \in CalledBy(u) PROVE x \in AnsweredBy(u)
    <3>1. PICK m \in EntriesOf(u, "output") : x \in u[Msg(m)].about BY AnsweredDef
    <3>2. m \in EntriesOf(t, "output") /\ x \in t[Msg(m)].about BY <3>1, <1>8, <1>9
    <3>3. PICK n \in EntriesOf(t, "result") : x \in t[Msg(n)].about BY <3>2, <1>10
    <3>4. n \in EntriesOf(u, "result") BY <3>3, <1>8, <1>10
    <3> QED BY <3>3, <3>4, <1>9, AnsweredDef
  <2> QED BY <2>1, <2>2
<1>11. ASSUME NEW last \in EntriesOf(t, "output"), W = {n \in EntriesIn(t) : n >= last},
              \A m \in EntriesOf(t, "output") : m <= last
       PROVE  AnsweredBy(u) = CalledBy(u)
  <2>1. \A kind : EntriesOf(t, kind) \subseteq EntriesIn(t) /\ EntriesOf(t, kind) \subseteq Nat
    BY OfKind DEF EntriesOf
  <2>2. \A kind : \A n \in EntriesOf(t, kind) : n \in W <=> n >= last BY <1>11, <2>1
  <2>3. last \in Nat BY <2>1
  <2>4. ASSUME NEW x \in AnsweredBy(u) PROVE x \in CalledBy(u)
    <3>1. PICK n \in EntriesOf(u, "result") : x \in u[Msg(n)].about BY AnsweredDef
    <3>2. n \in EntriesOf(t, "result") /\ x \in t[Msg(n)].about /\ n \notin W
      BY <3>1, <1>8, <1>9
    <3>3. PICK m \in EntriesOf(t, "output") : x \in t[Msg(m)].about /\ InWindowOf(t, m, n)
      BY <3>2 DEF Windowed
    <3>4. m < n /\ ~(n >= last) BY <3>2, <3>3, <2>2 DEF InWindowOf
    <3>5. m \in Nat /\ n \in Nat BY <3>2, <3>3, <2>1
    <3>6. ~(m >= last) BY <3>4, <3>5, <2>3
    <3>7. m \in EntriesOf(u, "output") BY <3>3, <3>6, <2>2, <1>8
    <3> QED BY <3>3, <3>7, <1>9, AnsweredDef
  <2>5. ASSUME NEW x \in CalledBy(u) PROVE x \in AnsweredBy(u)
    <3>1. PICK m \in EntriesOf(u, "output") : x \in u[Msg(m)].about BY AnsweredDef
    <3>2. m \in EntriesOf(t, "output") /\ x \in t[Msg(m)].about /\ m \notin W
      BY <3>1, <1>8, <1>9
    <3>3. m \in Nat /\ ~(m >= last) BY <3>2, <2>1, <2>2
    <3>4. ~(last <= m) BY <3>3, <2>3
    <3>5. Settled(t, m) BY <3>2, <3>4 DEF Windowed
    <3>6. PICK n \in EntriesOf(t, "result") : x \in t[Msg(n)].about /\ InWindowOf(t, m, n)
      BY <3>2, <3>5 DEF Settled
    <3>7. n \in Nat BY <2>1
    <3>8. ~(m < last /\ last < n) BY <3>6 DEF InWindowOf
    <3>9. n # last
      <4>1. t[Msg(n)].kind = "result" BY OfKind
      <4>2. t[Msg(last)].kind = "output" BY OfKind
      <4> QED BY <4>1, <4>2
    <3>10. ~(n >= last) BY <3>3, <3>7, <3>8, <3>9, <2>3
    <3>11. n \in EntriesOf(u, "result") BY <3>10, <2>2, <1>8
    <3> QED BY <3>6, <3>11, <1>9, AnsweredDef
  <2> QED BY <2>4, <2>5
<1>12. \/ /\ W = {}
          /\ \A m \in EntriesOf(t, "output") : \A x \in t[Msg(m)].about :
                \E n \in EntriesOf(t, "result") : x \in t[Msg(n)].about
       \/ \E last \in EntriesOf(t, "output") :
             /\ W = {n \in EntriesIn(t) : n >= last}
             /\ \A m \in EntriesOf(t, "output") : m <= last
  BY <1>1, UnsettledFacts
<1> QED BY <1>10, <1>11, <1>12

-----------------------------------------------------------------------------
(* Later transcripts.                                                      *)

LEMMA FollowsSelf == \A t : Follows(t, t)
BY DEF Follows

LEMMA FollowsTrans ==
  ASSUME NEW t, NEW u, NEW v, Follows(t, u), Follows(u, v)
  PROVE  Follows(t, v)
<1>1. ASSUME NEW n \in EntriesIn(t)
      PROVE  n \in EntriesIn(v) /\ v[Msg(n)] = t[Msg(n)]
  BY DEF Follows
<1>2. ASSUME NEW n \in EntriesIn(v) \ EntriesIn(t), NEW m \in EntriesIn(t) PROVE m < n
  <2>1. m \in EntriesIn(u) BY DEF Follows
  <2> QED BY <2>1 DEF Follows
<1> QED BY <1>1, <1>2 DEF Follows

LEMMA ResultStays ==
  ASSUME NEW t \in Trees, NEW u \in Trees, NEW point, Follows(t, u), ResultAfter(t, point)
  PROVE  ResultAfter(u, point)
<1>1. PICK n \in EntriesOf(t, "result") : \A m \in EntriesIn(point) : m <= n BY DEF ResultAfter
<1>2. n \in EntriesOf(u, "result") BY DEF Follows, EntriesOf
<1> QED BY <1>1, <1>2 DEF ResultAfter

\* Two trees with the same transcript.
SameEntries(t, u) ==
    /\ EntriesIn(u) = EntriesIn(t)
    /\ \A n \in EntriesIn(t) : u[Msg(n)] = t[Msg(n)]

LEMMA SameWindows ==
  ASSUME NEW t \in Trees, NEW u \in Trees, SameEntries(t, u)
  PROVE  /\ \A kind : EntriesOf(u, kind) = EntriesOf(t, kind)
         /\ Follows(t, u)
         /\ Windowed(t) => Windowed(u)
         /\ AllSettled(t) => AllSettled(u)
<1>1. \A kind : EntriesOf(u, kind) = EntriesOf(t, kind) BY DEF SameEntries, EntriesOf
<1>2. Follows(t, u) BY DEF SameEntries, Follows
<1>3. Thinned(t, u)
  <2>1. \A n \in EntriesOf(u, "output") \cup EntriesOf(u, "result") : u[Msg(n)] = t[Msg(n)]
    BY DEF SameEntries, EntriesOf
  <2> QED BY <1>1, <2>1 DEF Thinned
<1>4. Windowed(t) => Windowed(u) BY <1>3, ThinnedWindowed
<1>5. ASSUME AllSettled(t) PROVE AllSettled(u)
  <2>1. ASSUME NEW m \in EntriesOf(u, "output") PROVE Settled(u, m)
    <3>1. Settled(t, m) BY <1>1, <1>5 DEF AllSettled
    <3> QED BY <3>1, <1>3, ThinnedSettled
  <2> QED BY <2>1 DEF AllSettled
<1> QED BY <1>1, <1>2, <1>4, <1>5

-----------------------------------------------------------------------------
(* Entries put after the others.                                           *)

LEMMA FollowsWindows ==
  ASSUME NEW t \in Trees, NEW u \in Trees, Follows(t, u)
  PROVE  /\ \A kind : EntriesOf(t, kind) = EntriesOf(u, kind) \cap EntriesIn(t)
         /\ \A n \in EntriesIn(t) : \A m : InWindowOf(u, m, n) <=> InWindowOf(t, m, n)
         /\ \A m \in EntriesOf(t, "output") : Settled(t, m) => Settled(u, m)
<1>1. \A kind : EntriesOf(t, kind) = EntriesOf(u, kind) \cap EntriesIn(t)
  <2>1. ASSUME NEW kind, NEW n
        PROVE  n \in EntriesOf(t, kind) <=> n \in EntriesOf(u, kind) /\ n \in EntriesIn(t)
    BY DEF Follows, EntriesOf
  <2> QED BY <2>1
<1>2. EntriesIn(t) \subseteq Nat /\ EntriesIn(u) \subseteq Nat BY EntryFacts
<1>3. ASSUME NEW n \in EntriesIn(t), NEW m PROVE InWindowOf(u, m, n) <=> InWindowOf(t, m, n)
  <2>1. ASSUME NEW o \in EntriesOf(u, "output"), o < n PROVE o \in EntriesOf(t, "output")
    <3>1. o \in EntriesIn(u) BY DEF EntriesOf
    <3>2. ~(n < o) BY <3>1, <1>2, <2>1
    <3>3. o \in EntriesIn(t) BY <3>1, <3>2 DEF Follows
    <3> QED BY <3>3, <1>1
  <2>2. EntriesOf(t, "output") \subseteq EntriesOf(u, "output") BY <1>1
  <2> QED BY <2>1, <2>2 DEF InWindowOf
<1>4. ASSUME NEW m \in EntriesOf(t, "output"), Settled(t, m) PROVE Settled(u, m)
  <2>1. u[Msg(m)] = t[Msg(m)] BY DEF Follows, EntriesOf
  <2>2. ASSUME NEW x \in u[Msg(m)].about
        PROVE  \E n \in EntriesOf(u, "result") : x \in u[Msg(n)].about /\ InWindowOf(u, m, n)
    <3>1. PICK n \in EntriesOf(t, "result") : x \in t[Msg(n)].about /\ InWindowOf(t, m, n)
      BY <2>1, <2>2, <1>4 DEF Settled
    <3>2. n \in EntriesIn(t) /\ n \in EntriesOf(u, "result") BY <1>1
    <3>3. u[Msg(n)] = t[Msg(n)] BY <3>2 DEF Follows
    <3> QED BY <3>1, <3>2, <3>3, <1>3
  <2> QED BY <2>2 DEF Settled
<1> QED BY <1>1, <1>3, <1>4

\* An output put after settled windows opens one.
Open(t, o) ==
    /\ o \in EntriesOf(t, "output") /\ \A n \in EntriesIn(t) : n <= o
    /\ \A m \in EntriesOf(t, "output") : m = o \/ Settled(t, m)

LEMMA OutputEntry ==
  ASSUME NEW t \in Trees, NEW u \in Trees, NEW s, Follows(t, u), EntriesIn(u) = EntriesIn(t) \cup {s},
         s \notin EntriesIn(t), u[Msg(s)].kind = "output", Windowed(t), AllSettled(t)
  PROVE  /\ Windowed(u) /\ Open(u, s)
         /\ u[Msg(s)].about = {} => AllSettled(u)
<1>1. \A kind : EntriesOf(t, kind) = EntriesOf(u, kind) \cap EntriesIn(t) BY FollowsWindows
<1>2. s \in EntriesOf(u, "output") /\ s \in Nat BY EntryFacts DEF EntriesOf
<1>3. EntriesOf(u, "output") = EntriesOf(t, "output") \cup {s} BY <1>1, <1>2 DEF EntriesOf
<1>4. EntriesOf(u, "result") = EntriesOf(t, "result") BY <1>1 DEF EntriesOf
<1>5. \A n \in EntriesIn(t) : n < s BY DEF Follows
<1>6. \A n \in EntriesIn(t) : u[Msg(n)] = t[Msg(n)] BY DEF Follows
<1>7. \A kind : EntriesOf(t, kind) \subseteq EntriesIn(t) BY DEF EntriesOf
<1>8. \A m \in EntriesOf(t, "output") : Settled(u, m) BY FollowsWindows DEF AllSettled
<1>9. Open(u, s)
  <2>1. EntriesIn(t) \subseteq Nat BY EntryFacts
  <2>2. \A n \in EntriesIn(u) : n <= s BY <2>1, <1>2, <1>5
  <2> QED BY <2>2, <1>2, <1>3, <1>8 DEF Open
<1>10. \A n \in EntriesOf(u, "result") : \A x \in u[Msg(n)].about :
          \E m \in EntriesOf(u, "output") : x \in u[Msg(m)].about /\ InWindowOf(u, m, n)
  <2>1. ASSUME NEW n \in EntriesOf(u, "result"), NEW x \in u[Msg(n)].about
        PROVE  \E m \in EntriesOf(u, "output") : x \in u[Msg(m)].about /\ InWindowOf(u, m, n)
    <3>1. n \in EntriesOf(t, "result") /\ n \in EntriesIn(t) BY <1>4, <1>7
    <3>2. x \in t[Msg(n)].about BY <3>1, <1>6
    <3>3. PICK m \in EntriesOf(t, "output") : x \in t[Msg(m)].about /\ InWindowOf(t, m, n)
      BY <3>1, <3>2 DEF Windowed
    <3>4. m \in EntriesIn(t) /\ m \in EntriesOf(u, "output") BY <1>3, <1>7
    <3>5. InWindowOf(u, m, n) BY <3>1, <3>3, FollowsWindows
    <3> QED BY <3>3, <3>4, <3>5, <1>6
  <2> QED BY <2>1
<1>11. \A n, k \in EntriesOf(u, "result") :
          u[Msg(n)].about \cap u[Msg(k)].about # {} => n = k
  <2>1. ASSUME NEW n \in EntriesOf(u, "result"), NEW k \in EntriesOf(u, "result"),
               u[Msg(n)].about \cap u[Msg(k)].about # {}
        PROVE  n = k
    <3>1. n \in EntriesOf(t, "result") /\ k \in EntriesOf(t, "result") BY <1>4
    <3>2. u[Msg(n)] = t[Msg(n)] /\ u[Msg(k)] = t[Msg(k)] BY <3>1, <1>6, <1>7
    <3> QED BY <3>1, <3>2, <2>1 DEF Windowed
  <2> QED BY <2>1
<1>12. Windowed(u)
  <2>1. \A m \in EntriesOf(u, "output") :
           Settled(u, m) \/ \A o \in EntriesOf(u, "output") : o <= m
    <3>1. \A o \in EntriesOf(u, "output") : o <= s BY <1>9 DEF Open, EntriesOf
    <3> QED BY <3>1, <1>3, <1>8
  <2> QED BY <2>1, <1>10, <1>11 DEF Windowed
<1>13. ASSUME u[Msg(s)].about = {} PROVE AllSettled(u)
  <2>1. Settled(u, s) BY <1>13 DEF Settled
  <2> QED BY <2>1, <1>3, <1>8 DEF AllSettled
<1> QED BY <1>9, <1>12, <1>13

\* Mail, or the opening prompt, put after settled windows leaves them as they are.
LEMMA MailEntry ==
  ASSUME NEW t \in Trees, NEW u \in Trees, NEW s, Follows(t, u), EntriesIn(u) = EntriesIn(t) \cup {s},
         s \notin EntriesIn(t), u[Msg(s)].kind \notin {"output", "result"},
         Windowed(t), AllSettled(t)
  PROVE  Windowed(u) /\ AllSettled(u)
<1>1. \A kind : EntriesOf(t, kind) = EntriesOf(u, kind) \cap EntriesIn(t) BY FollowsWindows
<1>2. s \notin EntriesOf(u, "output") /\ s \notin EntriesOf(u, "result") BY DEF EntriesOf
<1>3. /\ EntriesOf(u, "output") = EntriesOf(t, "output")
      /\ EntriesOf(u, "result") = EntriesOf(t, "result")
  BY <1>1, <1>2 DEF EntriesOf
<1>4. \A n \in EntriesIn(t) : u[Msg(n)] = t[Msg(n)] BY DEF Follows
<1>5. Thinned(t, u)
  <2>1. \A n \in EntriesOf(u, "output") \cup EntriesOf(u, "result") : u[Msg(n)] = t[Msg(n)]
    BY <1>3, <1>4 DEF EntriesOf
  <2> QED BY <1>3, <2>1 DEF Thinned
<1>6. Windowed(u) BY <1>5, ThinnedWindowed
<1>7. \A m \in EntriesOf(u, "output") : Settled(u, m)
  <2>1. ASSUME NEW m \in EntriesOf(u, "output") PROVE Settled(u, m)
    <3>1. Settled(t, m) BY <1>3 DEF AllSettled
    <3> QED BY <3>1, <1>5, ThinnedSettled
  <2> QED BY <2>1
<1> QED BY <1>6, <1>7 DEF AllSettled

\* The entry that comes next.
LEMMA NextEntry ==
  ASSUME NEW t \in Trees, NEW x \in Contents, NEW s, s = NextSeq(t, "msg"),
         NEW u, u = Put(t, Msg(s), x)
  PROVE  /\ u \in Trees /\ EntriesIn(u) = EntriesIn(t) \cup {s} /\ s \notin EntriesIn(t)
         /\ s \in Nat \ {0} /\ u[Msg(s)] = x /\ Follows(t, u)
<1>1. /\ s \in Nat \ {0} /\ Msg(s) \in Paths \ DOMAIN t
      /\ \A n \in EntriesIn(t) : n < s
  BY NewEntry
<1>2. /\ u \in Trees /\ DOMAIN u = DOMAIN t \cup {Msg(s)} /\ u[Msg(s)] = x
      /\ \A q \in DOMAIN t : q # Msg(s) => u[q] = t[q]
  <2>1. PICK p \in Paths : p = Msg(s) BY <1>1
  <2>2. u = Put(t, p, x) BY <2>1
  <2>3. Put(t, p, x) \in Trees
    <3>1. p \in Paths OBVIOUS
    <3> QED BY <3>1, PutFacts
  <2>4. u = [q \in DOMAIN t \cup {p} |-> IF q = p THEN x ELSE t[q]] BY <2>2 DEF Put
  <2> QED BY <2>1, <2>2, <2>3, <2>4
<1>3. \A n : Msg(n) = Msg(s) <=> n = s BY PathFacts
<1>4. \A n : n \in EntriesIn(u) <=> n \in EntriesIn(t) \cup {s}
  BY <1>2, <1>3, EntryFacts
<1>5. s \notin EntriesIn(t) BY <1>1, EntryFacts
<1>6. \A n \in EntriesIn(t) : u[Msg(n)] = t[Msg(n)] BY <1>2, <1>3, <1>5, EntryFacts
<1>7. Follows(t, u)
  <2>1. \A n \in EntriesIn(u) \ EntriesIn(t) : n = s BY <1>4
  <2> QED BY <2>1, <1>1, <1>4, <1>6 DEF Follows
<1> QED BY <1>1, <1>2, <1>4, <1>5, <1>7

-----------------------------------------------------------------------------
(* The results of a window.                                                *)

\* The first i results, from entry s on.
WithResults(t, u, s, a, i) ==
    /\ u \in Trees
    /\ \A e : e \in EntriesIn(u) <=> e \in EntriesIn(t) \/ e \in s .. s + i - 1
    /\ \A e \in EntriesIn(t) : u[Msg(e)] = t[Msg(e)]
    /\ \A e \in s .. s + i - 1 :
          /\ u[Msg(e)] = ResultContent(a, s, Msg(e))
          /\ u[Msg(e)].kind = "result" /\ u[Msg(e)].about = {a + 2 + e - s}

LEMMA ResultEntries ==
  ASSUME NEW t \in Trees, NEW s \in Nat \ {0}, NEW a \in Nat, NEW n \in Nat,
         \A e \in EntriesIn(t) : e < s, Known(t, a + 1 + n), NEW i \in 1 .. n,
         NEW u, u = ResultTree(t, s, a, i)
  PROVE  WithResults(t, u, s, a, i)
<1>1. PICK D : D = ResultPaths(s, i) OBVIOUS
<1>2. u \in Trees BY ResultTreeFacts
<1>3. u = [p \in DOMAIN t \cup D |-> IF p \in D THEN ResultContent(a, s, p) ELSE t[p]]
  BY <1>1 DEF ResultTree
<1>4. \A e : Msg(e) \in D <=> e \in s .. s + i - 1
  <2>1. ASSUME NEW e PROVE Msg(e) \in D <=> e \in s .. s + i - 1
    <3>1. ASSUME Msg(e) \in D PROVE e \in s .. s + i - 1
      <4>1. PICK j \in 1 .. i : Msg(e) = Msg(s + j - 1) BY <1>1, <3>1 DEF ResultPaths
      <4>2. e = s + j - 1 BY <4>1, PathFacts
      <4> QED BY <4>2
    <3>2. ASSUME e \in s .. s + i - 1 PROVE Msg(e) \in D
      <4>1. PICK j \in 1 .. i : e = s + j - 1
        <5>1. e - s + 1 \in 1 .. i /\ e = s + (e - s + 1) - 1 BY <3>2
        <5> QED BY <5>1
      <4> QED BY <4>1, <1>1 DEF ResultPaths
    <3> QED BY <3>1, <3>2
  <2> QED BY <2>1
<1>5. \A e \in EntriesIn(t) : Msg(e) \in DOMAIN t /\ Msg(e) \notin D
  <2>1. \A e \in EntriesIn(t) : e \in Nat /\ e < s BY EntryFacts
  <2> QED BY <2>1, <1>4, EntryFacts
<1>6. \A e : e \in EntriesIn(u) <=> e \in EntriesIn(t) \/ e \in s .. s + i - 1
  <2>1. DOMAIN u = DOMAIN t \cup D BY <1>3
  <2> QED BY <2>1, <1>2, <1>4, EntryFacts
<1>7. \A e \in EntriesIn(t) : u[Msg(e)] = t[Msg(e)] BY <1>3, <1>5
<1>8. ASSUME NEW e \in s .. s + i - 1
      PROVE  /\ u[Msg(e)] = ResultContent(a, s, Msg(e))
             /\ u[Msg(e)].kind = "result" /\ u[Msg(e)].about = {a + 2 + e - s}
  <2>1. Msg(e) \in D BY <1>4
  <2>2. u[Msg(e)] = ResultContent(a, s, Msg(e)) BY <2>1, <1>3
  <2>3. u[Msg(e)] = Content("result", a + 2 + e - s, {a + 2 + e - s})
    BY <2>2, PathFacts DEF ResultContent
  <2> QED BY <2>2, <2>3 DEF Content
<1> QED BY <1>2, <1>6, <1>7, <1>8 DEF WithResults

\* The tags of the calls of an output, and what the results before it are about.
LEMMA ResultWindows ==
  ASSUME NEW t \in Trees, NEW s \in Nat \ {0}, NEW a \in Nat, NEW n \in Nat,
         \A e \in EntriesIn(t) : e < s, Known(t, a + 1 + n), NEW i \in 1 .. n,
         NEW u, u = ResultTree(t, s, a, i),
         NEW o, Open(t, o), Windowed(t), t[Msg(o)].about = a + 2 .. a + 1 + n,
         \A e \in EntriesOf(t, "result") : t[Msg(e)].about \subseteq 1 .. a
  PROVE  /\ Follows(t, u) /\ Windowed(u) /\ ResultAfter(u, u)
         /\ i = n => AllSettled(u)
<1>0. WithResults(t, u, s, a, i) BY ResultEntries
<1>1. /\ u \in Trees
      /\ \A e : e \in EntriesIn(u) <=> e \in EntriesIn(t) \/ e \in s .. s + i - 1
      /\ \A e \in EntriesIn(t) : u[Msg(e)] = t[Msg(e)]
  BY <1>0 DEF WithResults
<1>2. \A e \in s .. s + i - 1 :
         u[Msg(e)].kind = "result" /\ u[Msg(e)].about = {a + 2 + e - s}
  BY <1>0 DEF WithResults
<1>3. EntriesIn(t) \subseteq Nat \ {0} BY EntryFacts
<1>4. Follows(t, u)
  <2>1. ASSUME NEW e \in EntriesIn(u) \ EntriesIn(t), NEW m \in EntriesIn(t) PROVE m < e
    <3>1. e \in s .. s + i - 1 /\ m < s /\ m \in Nat BY <1>1, <1>3
    <3> QED BY <3>1
  <2> QED BY <2>1, <1>1 DEF Follows
<1>5. EntriesOf(u, "output") = EntriesOf(t, "output")
  <2>1. \A e : e \in EntriesOf(u, "output") => e \in EntriesIn(t) BY <1>1, <1>2 DEF EntriesOf
  <2>2. EntriesOf(t, "output") = EntriesOf(u, "output") \cap EntriesIn(t)
    BY <1>1, <1>4, FollowsWindows
  <2> QED BY <2>1, <2>2
<1>6. \A e : e \in EntriesOf(u, "result") <=> e \in EntriesOf(t, "result") \/ e \in s .. s + i - 1
  <2>1. \A e \in s .. s + i - 1 : e \in EntriesOf(u, "result") BY <1>1, <1>2 DEF EntriesOf
  <2>2. EntriesOf(t, "result") = EntriesOf(u, "result") \cap EntriesIn(t)
    BY <1>1, <1>4, FollowsWindows
  <2>3. EntriesOf(u, "result") \subseteq EntriesIn(u) BY DEF EntriesOf
  <2> QED BY <2>1, <2>2, <2>3, <1>1
<1>7. \A kind : EntriesOf(t, kind) \subseteq EntriesIn(t) BY DEF EntriesOf
<1>8. /\ o \in EntriesOf(t, "output") /\ o \in Nat /\ o < s /\ \A e \in EntriesIn(t) : e <= o
  BY <1>3, <1>7 DEF Open
<1>9. ASSUME NEW e \in s .. s + i - 1 PROVE InWindowOf(u, o, e)
  <2>1. \A m \in EntriesOf(u, "output") : m <= o /\ m \in Nat BY <1>3, <1>5, <1>7, <1>8
  <2>2. o < e BY <1>8
  <2>3. \A m \in EntriesOf(u, "output") : ~(o < m /\ m < e) BY <2>1, <1>8
  <2> QED BY <2>2, <2>3 DEF InWindowOf
<1>10. \A m \in EntriesOf(u, "output") : m = o \/ Settled(u, m)
  <2>1. \A m \in EntriesOf(t, "output") : Settled(t, m) => Settled(u, m)
    BY <1>1, <1>4, FollowsWindows
  <2> QED BY <2>1, <1>5 DEF Open
<1>11. \A e \in EntriesOf(u, "result") : \A x \in u[Msg(e)].about :
          \E m \in EntriesOf(u, "output") : x \in u[Msg(m)].about /\ InWindowOf(u, m, e)
  <2>1. ASSUME NEW e \in EntriesOf(t, "result"), NEW x \in u[Msg(e)].about
        PROVE  \E m \in EntriesOf(u, "output") : x \in u[Msg(m)].about /\ InWindowOf(u, m, e)
    <3>1. e \in EntriesIn(t) /\ x \in t[Msg(e)].about BY <1>1, <1>7
    <3>2. PICK m \in EntriesOf(t, "output") : x \in t[Msg(m)].about /\ InWindowOf(t, m, e)
      BY <3>1 DEF Windowed
    <3>3. u[Msg(m)] = t[Msg(m)] /\ m \in EntriesOf(u, "output") BY <1>1, <1>5, <1>7
    <3>4. InWindowOf(u, m, e) BY <1>1, <1>4, <3>1, <3>2, FollowsWindows
    <3> QED BY <3>2, <3>3, <3>4
  <2>2. ASSUME NEW e \in s .. s + i - 1, NEW x \in u[Msg(e)].about
        PROVE  \E m \in EntriesOf(u, "output") : x \in u[Msg(m)].about /\ InWindowOf(u, m, e)
    <3>1. x = a + 2 + e - s BY <1>2
    <3>2. x \in a + 2 .. a + 1 + n BY <3>1
    <3>3. u[Msg(o)].about = a + 2 .. a + 1 + n BY <1>1, <1>7, <1>8
    <3> QED BY <3>2, <3>3, <1>5, <1>8, <1>9
  <2> QED BY <2>1, <2>2, <1>6
<1>12. \A e, k \in EntriesOf(u, "result") :
          u[Msg(e)].about \cap u[Msg(k)].about # {} => e = k
  <2>1. ASSUME NEW e \in EntriesOf(t, "result"), NEW k \in EntriesOf(t, "result"),
               u[Msg(e)].about \cap u[Msg(k)].about # {}
        PROVE  e = k
    <3>1. u[Msg(e)] = t[Msg(e)] /\ u[Msg(k)] = t[Msg(k)] BY <1>1, <1>7
    <3> QED BY <3>1, <2>1 DEF Windowed
  <2>2. ASSUME NEW e \in EntriesOf(t, "result"), NEW k \in s .. s + i - 1
        PROVE  u[Msg(e)].about \cap u[Msg(k)].about = {}
    <3>1. u[Msg(e)].about \subseteq 1 .. a BY <1>1, <1>7
    <3>2. u[Msg(k)].about = {a + 2 + k - s} BY <1>2
    <3>3. a + 2 + k - s \notin 1 .. a OBVIOUS
    <3> QED BY <3>1, <3>2, <3>3
  <2>3. ASSUME NEW e \in s .. s + i - 1, NEW k \in s .. s + i - 1,
               u[Msg(e)].about \cap u[Msg(k)].about # {}
        PROVE  e = k
    <3>1. u[Msg(e)].about = {a + 2 + e - s} /\ u[Msg(k)].about = {a + 2 + k - s} BY <1>2
    <3>2. a + 2 + e - s = a + 2 + k - s BY <3>1, <2>3
    <3> QED BY <3>2
  <2> QED BY <2>1, <2>2, <2>3, <1>6
<1>13. \A m \in EntriesOf(u, "output") :
          Settled(u, m) \/ \A p \in EntriesOf(u, "output") : p <= m
  <2>1. \A p \in EntriesOf(u, "output") : p <= o BY <1>5, <1>7, <1>8
  <2> QED BY <2>1, <1>10
<1>14. Windowed(u) BY <1>11, <1>12, <1>13 DEF Windowed
<1>15. ResultAfter(u, u)
  <2>1. s + i - 1 \in s .. s + i - 1 OBVIOUS
  <2>2. s + i - 1 \in EntriesOf(u, "result") BY <2>1, <1>6
  <2>3. ASSUME NEW e \in EntriesIn(u) PROVE e <= s + i - 1
    <3>1. CASE e \in EntriesIn(t)
      <4>1. e < s /\ e \in Nat BY <3>1, <1>3
      <4> QED BY <4>1
    <3>2. CASE e \in s .. s + i - 1 BY <3>2
    <3> QED BY <3>1, <3>2, <1>1
  <2> QED BY <2>2, <2>3 DEF ResultAfter
<1>16. ASSUME i = n PROVE AllSettled(u)
  <2>1. Settled(u, o)
    <3>1. ASSUME NEW x \in u[Msg(o)].about
          PROVE  \E e \in EntriesOf(u, "result") : x \in u[Msg(e)].about /\ InWindowOf(u, o, e)
      <4>1. x \in a + 2 .. a + 1 + n BY <3>1, <1>1, <1>7, <1>8
      <4>2. PICK e \in s .. s + i - 1 : x = a + 2 + e - s
        <5>1. s + x - a - 2 \in s .. s + i - 1 /\ x = a + 2 + (s + x - a - 2) - s BY <4>1, <1>16
        <5> QED BY <5>1
      <4>3. x \in u[Msg(e)].about BY <4>2, <1>2
      <4> QED BY <4>3, <1>6, <1>9
    <3> QED BY <3>1 DEF Settled
  <2> QED BY <2>1, <1>10 DEF AllSettled
<1> QED BY <1>4, <1>14, <1>15, <1>16

-----------------------------------------------------------------------------
(* Lines of windows.                                                       *)

Chained(line) ==
    \A i \in 2 .. Len(line) :
        line[i].subject = "base" \/ Follows(line[i - 1].tree, line[i].tree)

\* The line is the older one with commits on its tip.
Grown(old, new) ==
    /\ new \in Seq(Commits) /\ Len(old) <= Len(new)
    /\ \A i \in 1 .. Len(old) : new[i] = old[i]
    /\ \A i \in Len(old) + 1 .. Len(new) :
          /\ new[i].subject # "base" /\ Windowed(new[i].tree)
          /\ Follows(new[i - 1].tree, new[i].tree)
    /\ Follows(TreeOf(old), TreeOf(new))

LEMMA GrownSelf ==
  ASSUME NEW line \in Seq(Commits)
  PROVE  Grown(line, line)
<1>1. Len(line) \in Nat BY LenProperties
<1> QED BY <1>1, FollowsSelf DEF Grown

LEMMA GrownTrans ==
  ASSUME NEW a \in Seq(Commits), Len(a) > 0, NEW b, NEW c, Grown(a, b), Grown(b, c)
  PROVE  Grown(a, c)
<1>1. /\ b \in Seq(Commits) /\ c \in Seq(Commits) /\ Len(a) <= Len(b) /\ Len(b) <= Len(c)
      /\ \A i \in 1 .. Len(a) : b[i] = a[i]
      /\ \A i \in 1 .. Len(b) : c[i] = b[i]
  BY DEF Grown
<1>2. Len(a) \in Nat /\ Len(b) \in Nat /\ Len(c) \in Nat BY <1>1, LenProperties
<1>3. \A i \in 1 .. Len(a) : c[i] = a[i] BY <1>1, <1>2
<1>4. ASSUME NEW i \in Len(a) + 1 .. Len(c)
      PROVE  /\ c[i].subject # "base" /\ Windowed(c[i].tree)
             /\ Follows(c[i - 1].tree, c[i].tree)
  <2>1. CASE i > Len(b)
    <3>1. i \in Len(b) + 1 .. Len(c) BY <1>2, <2>1
    <3> QED BY <3>1 DEF Grown
  <2>2. CASE ~(i > Len(b))
    <3>1. i \in Len(a) + 1 .. Len(b) /\ i \in 1 .. Len(b) BY <1>2, <2>2
    <3>2. i - 1 \in 1 .. Len(b) BY <1>2, <3>1
    <3>3. c[i] = b[i] /\ c[i - 1] = b[i - 1] BY <1>1, <3>1, <3>2
    <3> QED BY <3>1, <3>3 DEF Grown
  <2> QED BY <2>1, <2>2
<1>5. Follows(TreeOf(a), TreeOf(c)) BY FollowsTrans DEF Grown
<1>6. Len(a) <= Len(c) BY <1>1, <1>2
<1> QED BY <1>1, <1>3, <1>4, <1>5, <1>6 DEF Grown

\* One commit on the tip.
LEMMA GrownAppends ==
  ASSUME NEW line \in Seq(Commits), Len(line) > 0, NEW x \in Commits, x.subject # "base",
         Windowed(x.tree), Follows(TreeOf(line), x.tree),
         NEW new, new = Append(line, x)
  PROVE  Grown(line, new) /\ TreeOf(new) = x.tree
<1>1. PICK n \in Nat : n = Len(line) BY LenProperties
<1>2. /\ new \in Seq(Commits) /\ Len(new) = n + 1
      /\ \A i \in 1 .. n : new[i] = line[i]
      /\ new[n + 1] = x
  BY <1>1, AppendProperties
<1>3. TreeOf(line) = line[n].tree /\ n \in 1 .. n BY <1>1, TipOf
<1>4. TreeOf(new) = x.tree
  <2>1. Len(new) > 0 BY <1>2
  <2>2. TreeOf(new) = new[Len(new)].tree BY <1>2, <2>1, TipOf
  <2> QED BY <2>2, <1>2
<1>5. ASSUME NEW i \in n + 1 .. n + 1
      PROVE  /\ new[i].subject # "base" /\ Windowed(new[i].tree)
             /\ Follows(new[i - 1].tree, new[i].tree)
  <2>1. i = n + 1 /\ i - 1 = n OBVIOUS
  <2>2. new[i] = x /\ new[i - 1] = line[n] BY <2>1, <1>2, <1>3
  <2> QED BY <2>2, <1>3
<1> QED BY <1>1, <1>2, <1>4, <1>5 DEF Grown

\* The rest of what the windows of a grown line need.
LEMMA WindowsKept ==
  ASSUME LineInv, WindowInv, Grown(branch, branch'), AllSettled(HEAD'),
         hop' = "flush" => ResultAfter(HEAD', HEAD'),
         \A c \in DOMAIN (children') : children'[c].role = "compactor" =>
            \/ /\ c \in DOMAIN children /\ children[c].role = "compactor"
               /\ children'[c].past = children[c].past
               /\ children'[c].founded = children[c].founded
            \/ /\ AnsweredBy(children'[c].founded) = CalledBy(children'[c].founded)
               /\ ResultAfter(HEAD', TreeOf(children'[c].past))
  PROVE  WindowInv'
<1>1. PICK old, new : old = branch /\ new = branch' OBVIOUS
<1>2. /\ old \in Seq(Commits) /\ Len(old) \in Nat /\ Len(old) > 1
      /\ HEAD = TreeOf(old) /\ HEAD' = TreeOf(new) /\ TreeOf(old) \in Trees
  BY <1>1, InvHead DEF HEAD
<1>3. /\ new \in Seq(Commits) /\ Len(old) <= Len(new)
      /\ \A i \in 1 .. Len(old) : new[i] = old[i]
      /\ \A i \in Len(old) + 1 .. Len(new) :
            /\ new[i].subject # "base" /\ Windowed(new[i].tree)
            /\ Follows(new[i - 1].tree, new[i].tree)
      /\ Follows(TreeOf(old), TreeOf(new))
  BY <1>1 DEF Grown
<1>4. Len(new) \in Nat /\ TreeOf(new) \in Trees
  <2>1. Len(new) \in Nat BY <1>3, LenProperties
  <2>2. Len(new) > 0 BY <1>2, <1>3, <2>1
  <2> QED BY <1>3, <2>1, <2>2, TipOf
<1>5. ASSUME NEW i \in 2 .. Len(new)
      PROVE  new[i].subject = "base" \/ Follows(new[i - 1].tree, new[i].tree)
  <2>1. CASE i > Len(old)
    <3>1. i \in Len(old) + 1 .. Len(new) BY <1>2, <1>4, <2>1
    <3> QED BY <3>1, <1>3
  <2>2. CASE ~(i > Len(old))
    <3>1. i \in 2 .. Len(old) /\ i \in 1 .. Len(old) /\ i - 1 \in 1 .. Len(old)
      BY <1>2, <1>4, <2>2
    <3>2. old[i].subject = "base" \/ Follows(old[i - 1].tree, old[i].tree)
      BY <3>1, <1>1 DEF WindowInv
    <3> QED BY <3>1, <3>2, <1>3
  <2> QED BY <2>1, <2>2
<1>6. ASSUME NEW i \in 1 .. Len(new) PROVE Windowed(new[i].tree)
  <2>1. CASE i > Len(old)
    <3>1. i \in Len(old) + 1 .. Len(new) BY <1>2, <1>4, <2>1
    <3> QED BY <3>1, <1>3
  <2>2. CASE ~(i > Len(old))
    <3>1. i \in 1 .. Len(old) BY <1>2, <1>4, <2>2
    <3> QED BY <3>1, <1>1, <1>3 DEF WindowInv
  <2> QED BY <2>1, <2>2
<1>7. ASSUME NEW c \in DOMAIN (children'), children'[c].role = "compactor",
             NEW past, past = children'[c].past
      PROVE  /\ AnsweredBy(children'[c].founded) = CalledBy(children'[c].founded)
             /\ \/ \E i \in 1 .. Len(past) : i <= Len(new) /\ past[i] # new[i]
                \/ \E i \in Len(past) + 1 .. Len(new) : new[i].subject = "base"
                \/ ResultAfter(TreeOf(new), TreeOf(past))
  <2>1. CASE /\ c \in DOMAIN children /\ children[c].role = "compactor"
             /\ children'[c].past = children[c].past
             /\ children'[c].founded = children[c].founded
    <3>1. c \in OfRole("compactor") /\ past = children[c].past BY <2>1, <1>7 DEF OfRole
    <3>2. /\ AnsweredBy(children[c].founded) = CalledBy(children[c].founded)
          /\ Overtaken(c) \/ ResultAfter(HEAD, TreeOf(past))
      BY <3>1 DEF WindowInv
    <3>3. past \in Seq(Commits) /\ Len(past) \in Nat BY <2>1, <3>1, ChildTypes, LenProperties
    <3>4. CASE ResultAfter(HEAD, TreeOf(past))
      <4>1. ResultAfter(TreeOf(new), TreeOf(past)) BY <3>4, <1>2, <1>3, <1>4, ResultStays
      <4> QED BY <4>1, <3>2, <2>1
    <3>5. CASE \E i \in 1 .. Len(past) : i <= Len(old) /\ past[i] # old[i]
      <4>1. PICK i \in 1 .. Len(past) : i <= Len(old) /\ past[i] # old[i] BY <3>5
      <4>2. i \in 1 .. Len(old) /\ i <= Len(new) BY <4>1, <3>3, <1>2, <1>3, <1>4
      <4>3. past[i] # new[i] BY <4>1, <4>2, <1>3
      <4> QED BY <4>2, <4>3, <3>2, <2>1
    <3>6. CASE \E i \in Len(past) + 1 .. Len(old) : old[i].subject = "base"
      <4>1. PICK i \in Len(past) + 1 .. Len(old) : old[i].subject = "base" BY <3>6
      <4>2. i \in 1 .. Len(old) /\ i \in Len(past) + 1 .. Len(new)
        BY <4>1, <3>3, <1>2, <1>3, <1>4
      <4>3. new[i].subject = "base" BY <4>1, <4>2, <1>3
      <4> QED BY <4>2, <4>3, <3>2, <2>1
    <3> QED BY <3>1, <3>2, <3>4, <3>5, <3>6, <1>1 DEF Overtaken, Point
  <2>2. CASE /\ AnsweredBy(children'[c].founded) = CalledBy(children'[c].founded)
             /\ ResultAfter(HEAD', TreeOf(children'[c].past))
    BY <2>2, <1>2, <1>7
  <2> QED BY <2>1, <2>2, <1>7
<1>8. \A i \in 2 .. Len(branch') :
         branch'[i].subject = "base" \/ Follows(branch'[i - 1].tree, branch'[i].tree)
  BY <1>1, <1>5
<1>9. \A i \in 1 .. Len(branch') : Windowed(branch'[i].tree) BY <1>1, <1>6
<1>10. \A c \in OfRole("compactor")' :
          /\ AnsweredBy(children'[c].founded) = CalledBy(children'[c].founded)
          /\ Overtaken(c)' \/ ResultAfter(HEAD', TreeOf(children'[c].past))
  <2>1. ASSUME NEW c \in OfRole("compactor")'
        PROVE  /\ AnsweredBy(children'[c].founded) = CalledBy(children'[c].founded)
               /\ Overtaken(c)' \/ ResultAfter(HEAD', TreeOf(children'[c].past))
    <3>1. c \in DOMAIN (children') /\ children'[c].role = "compactor" BY DEF OfRole
    <3>2. PICK past : past = children'[c].past OBVIOUS
    <3> QED BY <3>1, <3>2, <1>1, <1>2, <1>7 DEF Overtaken, Point
  <2> QED BY <2>1
<1>11. AllSettled(HEAD)' OBVIOUS
<1> QED BY <1>8, <1>9, <1>10, <1>11 DEF WindowInv

-----------------------------------------------------------------------------
(* The windows, step by step: deliveries and the children's own work.      *)

LEMMA HeadWindows ==
  ASSUME LineInv, WindowInv
  PROVE  Windowed(HEAD) /\ AllSettled(HEAD)
<1>1. HEAD = branch[Len(branch)].tree /\ Len(branch) \in 1 .. Len(branch) BY InvHead
<1> QED BY <1>1 DEF WindowInv

\* One entry without calls: mail, or the model's last word.
LEMMA EntryGrown ==
  ASSUME NEW line \in Seq(Commits), Len(line) > 0, NEW t \in Trees, t = TreeOf(line),
         Windowed(t), AllSettled(t), NEW x \in Contents, x.kind \in {"mail", "output"},
         x.about = {}, NEW new, new = Append(line, EntryCommit(t, x))
  PROVE  Grown(line, new) /\ AllSettled(TreeOf(new))
<1>1. PICK s : s = NextSeq(t, "msg") OBVIOUS
<1>2. PICK u : u = Put(t, Msg(s), x) OBVIOUS
<1>3. /\ u \in Trees /\ EntriesIn(u) = EntriesIn(t) \cup {s} /\ s \notin EntriesIn(t)
      /\ s \in Nat \ {0} /\ u[Msg(s)] = x /\ Follows(t, u)
  BY <1>1, <1>2, NextEntry
<1>4. Windowed(u) /\ AllSettled(u)
  <2>1. CASE x.kind = "mail" BY <2>1, <1>3, MailEntry
  <2>2. CASE x.kind = "output" BY <2>2, <1>3, OutputEntry
  <2> QED BY <2>1, <2>2
<1>5. PICK e : e = Commit("entry", 0, u) OBVIOUS
<1>6. e \in Commits /\ e.tree = u /\ e.subject # "base"
  <2>1. "entry" \in Subjects /\ 0 \in Nat BY DEF Subjects
  <2> QED BY <2>1, <1>3, <1>5 DEF Commit, Commits
<1>7. new = Append(line, e) BY <1>1, <1>2, <1>5 DEF EntryCommit
<1> QED BY <1>3, <1>4, <1>6, <1>7, GrownAppends

LEMMA PlainContent ==
  ASSUME NEW kind \in {"mail", "output"}, NEW n \in Nat
  PROVE  /\ Content(kind, n, {}) \in Contents /\ Content(kind, n, {}).kind = kind
         /\ Content(kind, n, {}).about = {}
BY DEF Content, Contents, Kinds, EntryKinds

LEMMA SameChildren ==
  ASSUME children' = children
  PROVE  \A c \in DOMAIN (children') : children'[c].role = "compactor" =>
            /\ c \in DOMAIN children /\ children[c].role = "compactor"
            /\ children'[c].past = children[c].past
            /\ children'[c].founded = children[c].founded
OBVIOUS

\* An entry on the tip of the branch, the children as they were.
LEMMA EntryWindows ==
  ASSUME LineInv, WindowInv, NEW kind \in {"mail", "output"},
         branch' = Append(branch, EntryCommit(HEAD, Content(kind, authored + 1, {}))),
         hop' # "flush", children' = children
  PROVE  WindowInv'
<1>1. /\ branch \in Seq(Commits) /\ Len(branch) > 0 /\ HEAD \in Trees /\ HEAD = TreeOf(branch)
      /\ authored + 1 \in Nat
  BY InvHead
<1>2. Windowed(HEAD) /\ AllSettled(HEAD) BY HeadWindows
<1>3. PICK x : x = Content(kind, authored + 1, {}) OBVIOUS
<1>4. x \in Contents /\ x.kind \in {"mail", "output"} /\ x.about = {}
  BY <1>1, <1>3, PlainContent
<1>5. PICK t \in Trees : t = HEAD BY <1>1
<1>6. PICK new : new = branch' OBVIOUS
<1>7. Grown(branch, new) /\ AllSettled(TreeOf(new))
  BY <1>1, <1>2, <1>3, <1>4, <1>5, <1>6, EntryGrown
<1>8. Grown(branch, branch') /\ AllSettled(HEAD') BY <1>6, <1>7 DEF HEAD
<1> QED BY <1>8, SameChildren, WindowsKept

LEMMA DeliverMailWindows ==
  ASSUME LineInv, WindowInv, DeliverMail
  PROVE  WindowInv'
<1>1. /\ branch' = Append(branch, EntryCommit(HEAD, Content("mail", authored + 1, {})))
      /\ children' = children /\ hop' = hop /\ hop = "boundary"
  BY DEF DeliverMail
<1> QED BY <1>1, EntryWindows

LEMMA SpeakWindows ==
  ASSUME LineInv, WindowInv, Speak
  PROVE  WindowInv'
<1>1. /\ branch' = Append(branch, EntryCommit(HEAD, Content("output", authored + 1, {})))
      /\ children' = children /\ hop' = "boundary"
  BY DEF Speak
<1> QED BY <1>1, EntryWindows

\* A step that leaves the branch where it is.
LEMMA StillWindows ==
  ASSUME LineInv, WindowInv, branch' = branch, hop' = "flush" => hop = "flush",
         \A c \in DOMAIN (children') : children'[c].role = "compactor" =>
            /\ c \in DOMAIN children /\ children[c].role = "compactor"
            /\ children'[c].past = children[c].past
            /\ children'[c].founded = children[c].founded
  PROVE  WindowInv'
<1>1. branch \in Seq(Commits) BY InvHead
<1>2. Grown(branch, branch') BY <1>1, GrownSelf
<1>3. HEAD' = HEAD BY DEF HEAD
<1>4. AllSettled(HEAD') BY <1>3, HeadWindows
<1>5. hop' = "flush" => ResultAfter(HEAD', HEAD') BY <1>3 DEF WindowInv
<1> QED BY <1>2, <1>4, <1>5, WindowsKept

LEMMA StutterWindows ==
  ASSUME LineInv, WindowInv, UNCHANGED landingVars
  PROVE  WindowInv'
<1>1. branch' = branch /\ hop' = hop /\ children' = children BY DEF landingVars
<1> QED BY <1>1, SameChildren, StillWindows

LEMMA ListWindows ==
  ASSUME LineInv, WindowInv, List
  PROVE  WindowInv'
<1>1. branch' = branch /\ hop' = "interpret" /\ children' = children BY DEF List
<1> QED BY <1>1, SameChildren, StillWindows

LEMMA QuiesceWindows ==
  ASSUME LineInv, WindowInv, Quiesce
  PROVE  WindowInv'
<1>1. branch' = branch /\ hop' = "boundary" /\ children' = children BY DEF Quiesce
<1> QED BY <1>1, SameChildren, StillWindows

LEMMA OneChild ==
  ASSUME LineInv, NEW c \in DOMAIN children,
         \/ \E t : children' = [children EXCEPT ![c].tip = t, ![c].tools = @ + 1]
         \/ \E epitaph, t : children' = [children EXCEPT ![c].epitaph = epitaph, ![c].tip = t]
  PROVE  \A d \in DOMAIN (children') : children'[d].role = "compactor" =>
            /\ d \in DOMAIN children /\ children[d].role = "compactor"
            /\ children'[d].past = children[d].past
            /\ children'[d].founded = children[d].founded
<1>1. children \in Seq(ChildRecords) /\ children[c] \in ChildRecords BY ChildTypes
<1>2. PICK r : /\ children' = [children EXCEPT ![c] = r]
               /\ r.role = children[c].role /\ r.past = children[c].past
               /\ r.founded = children[c].founded
  <2>1. CASE \E t : children' = [children EXCEPT ![c].tip = t, ![c].tools = @ + 1]
    <3>1. PICK t : children' = [children EXCEPT ![c].tip = t, ![c].tools = @ + 1] BY <2>1
    <3>2. PICK r : r = [children[c] EXCEPT !.tip = t, !.tools = @ + 1] OBVIOUS
    <3>3. children' = [children EXCEPT ![c] = r] BY <3>1, <3>2
    <3>4. /\ r.role = children[c].role /\ r.past = children[c].past
          /\ r.founded = children[c].founded
      BY <3>2, <1>1 DEF ChildRecords
    <3> QED BY <3>3, <3>4
  <2>2. CASE \E epitaph, t : children' = [children EXCEPT ![c].epitaph = epitaph, ![c].tip = t]
    <3>1. PICK epitaph, t : children' = [children EXCEPT ![c].epitaph = epitaph, ![c].tip = t]
      BY <2>2
    <3>2. PICK r : r = [children[c] EXCEPT !.epitaph = epitaph, !.tip = t] OBVIOUS
    <3>3. children' = [children EXCEPT ![c] = r] BY <3>1, <3>2
    <3>4. /\ r.role = children[c].role /\ r.past = children[c].past
          /\ r.founded = children[c].founded
      BY <3>2, <1>1 DEF ChildRecords
    <3> QED BY <3>3, <3>4
  <2> QED BY <2>1, <2>2
<1>3. /\ DOMAIN (children') = DOMAIN children /\ children'[c] = r
      /\ \A d \in DOMAIN children : d # c => children'[d] = children[d]
  BY <1>2
<1> QED BY <1>2, <1>3

LEMMA ToolOfPassWindows ==
  ASSUME LineInv, WindowInv, NEW c \in DOMAIN children, CompactorTool(c)
  PROVE  WindowInv'
<1>1. branch' = branch /\ hop' = hop BY DEF CompactorTool
<1>2. \E t : children' = [children EXCEPT ![c].tip = t, ![c].tools = @ + 1]
  <2>1. CASE WriteSummary(c) BY <2>1 DEF WriteSummary
  <2>2. CASE \E p \in DOMAIN children[c].tip : MarkForDeletion(c, p)
    BY <2>2 DEF MarkForDeletion
  <2> QED BY <2>1, <2>2 DEF CompactorTool
<1> QED BY <1>1, <1>2, OneChild, StillWindows

LEMMA ReturnWindows ==
  ASSUME LineInv, WindowInv, NEW c \in DOMAIN children, CompactorReturns(c) \/ WorkerReturns(c)
  PROVE  WindowInv'
<1>1. PICK epitaph, t : Return(c, epitaph, t) BY DEF CompactorReturns, WorkerReturns
<1>2. branch' = branch /\ hop' = hop BY <1>1 DEF Return
<1>3. \E e, u : children' = [children EXCEPT ![c].epitaph = e, ![c].tip = u]
  BY <1>1 DEF Return
<1> QED BY <1>2, <1>3, OneChild, StillWindows

-----------------------------------------------------------------------------
(* The windows: returns delivered, and the flush.                          *)

LEMMA TransferGrown ==
  ASSUME LineInv, WindowInv, NEW c \in DOMAIN children, NEW line, line = Transferred(c)
  PROVE  /\ Grown(branch, line) /\ Windowed(TreeOf(line)) /\ AllSettled(TreeOf(line))
         /\ line \in Seq(Commits) /\ Len(line) > 0
<1>1. /\ branch \in Seq(Commits) /\ Len(branch) > 0 /\ HEAD \in Trees /\ HEAD = TreeOf(branch)
  BY InvHead
<1>2. Windowed(HEAD) /\ AllSettled(HEAD) BY HeadWindows
<1>3. PICK u : u = TransferredTree(c) OBVIOUS
<1>4. PICK t \in Trees : t = HEAD BY <1>1
<1>5. /\ u \in Trees /\ Stays(t, u) /\ \A p \in DOMAIN u \ DOMAIN t : p[1] = "work"
  BY <1>3, <1>4, TransferFacts
<1>6. SameEntries(t, u)
  <2>1. ASSUME NEW n PROVE Msg(n) \in DOMAIN u <=> Msg(n) \in DOMAIN t
    <3>1. Msg(n)[1] = "msg" BY PathFacts
    <3> QED BY <3>1, <1>5 DEF Stays
  <2>2. ASSUME NEW n \in EntriesIn(t) PROVE u[Msg(n)] = t[Msg(n)]
    <3>1. Msg(n)[1] = "msg" /\ Msg(n) \in DOMAIN t BY PathFacts, EntryFacts
    <3> QED BY <3>1, <1>5 DEF Stays
  <2>3. \A n : n \in EntriesIn(u) <=> n \in EntriesIn(t) BY <2>1, <1>5, EntryFacts
  <2> QED BY <2>2, <2>3 DEF SameEntries
<1>7. Follows(t, u) /\ Windowed(u) /\ AllSettled(u)
  BY <1>2, <1>4, <1>5, <1>6, SameWindows
<1>8. CASE line = branch
  <2>1. Grown(branch, line) BY <1>1, <1>8, GrownSelf
  <2> QED BY <2>1, <1>1, <1>2, <1>8
<1>9. CASE line = Append(branch, Commit("transfer", c, u))
  <2>1. PICK e : e = Commit("transfer", c, u) OBVIOUS
  <2>2. e \in Commits /\ e.tree = u /\ e.subject # "base"
    <3>1. "transfer" \in Subjects /\ c \in Nat BY ChildTypes DEF Subjects
    <3> QED BY <3>1, <2>1, <1>5 DEF Commit, Commits
  <2>3. Grown(branch, line) /\ TreeOf(line) = u
    BY <2>1, <2>2, <1>1, <1>4, <1>7, <1>9, GrownAppends
  <2>4. line \in Seq(Commits) /\ Len(branch) <= Len(line) BY <2>3 DEF Grown
  <2>5. Len(line) > 0
    <3>1. Len(line) \in Nat /\ Len(branch) \in Nat BY <2>4, <1>1, LenProperties
    <3> QED BY <3>1, <2>4, <1>1
  <2> QED BY <2>3, <2>4, <2>5, <1>7
<1> QED BY <1>3, <1>8, <1>9 DEF Transferred

LEMMA DeliverResultWindows ==
  ASSUME LineInv, WindowInv, listed # <<>>, hop # "flush", DeliverResult(listed[1])
  PROVE  WindowInv'
<1>1. PICK c : c = listed[1] OBVIOUS
<1>2. c \in DOMAIN children BY <1>1, ListedChild
<1>3. PICK line : line = Transferred(c) OBVIOUS
<1>4. /\ Grown(branch, line) /\ Windowed(TreeOf(line)) /\ AllSettled(TreeOf(line))
      /\ line \in Seq(Commits) /\ Len(line) > 0
  BY <1>2, <1>3, TransferGrown
<1>5. children' = children /\ hop' # "flush"
  BY DEF DeliverResult, Consume, DieAt
<1>6. Grown(branch, branch') /\ AllSettled(HEAD')
  <2>1. CASE branch' = Append(line, EntryCommit(TreeOf(line), Content("mail", authored + 1, {})))
    <3>1. PICK x : x = Content("mail", authored + 1, {}) OBVIOUS
    <3>2. x \in Contents /\ x.kind = "mail" /\ x.about = {}
      <4>1. authored + 1 \in Nat BY InvHead
      <4> QED BY <4>1, <3>1, PlainContent
    <3>3. PICK t \in Trees : t = TreeOf(line) BY <1>4, LenProperties, TipOf
    <3>4. PICK new : new = branch' OBVIOUS
    <3>5. Grown(line, new) /\ AllSettled(TreeOf(new))
      BY <2>1, <3>1, <3>2, <3>3, <3>4, <1>4, EntryGrown
    <3>6. branch \in Seq(Commits) /\ Len(branch) > 0 BY InvHead
    <3>7. Grown(branch, new) BY <3>5, <3>6, <1>4, GrownTrans
    <3> QED BY <3>4, <3>5, <3>7 DEF HEAD
  <2>2. CASE branch' = line BY <2>2, <1>4 DEF HEAD
  <2> QED BY <2>1, <2>2, <1>1, <1>3 DEF DeliverResult
<1> QED BY <1>5, <1>6, SameChildren, WindowsKept

\* In a span without a base each transcript follows the ones before it.
LEMMA Segment ==
  ASSUME NEW line \in Seq(Commits), Chained(line), NEW k \in 1 .. Len(line),
         \A i \in k + 1 .. Len(line) : line[i].subject # "base"
  PROVE  \A j \in k .. Len(line) : Follows(line[k].tree, line[j].tree)
<1>1. PICK n \in Nat : n = Len(line) BY LenProperties
<1>2. PICK S : S = {d \in Nat : k + d <= n => Follows(line[k].tree, line[k + d].tree)} OBVIOUS
<1>3. k \in Nat /\ k > 0 /\ k <= n BY <1>1
<1>4. 0 \in S
  <2>1. k + 0 = k BY <1>3
  <2> QED BY <2>1, <1>2, FollowsSelf
<1>5. ASSUME NEW d \in Nat, d \in S PROVE d + 1 \in S
  <2>1. SUFFICES ASSUME k + (d + 1) <= n
                 PROVE  Follows(line[k].tree, line[k + (d + 1)].tree)
    BY <1>2
  <2>2. k + d <= n /\ k + d \in Nat BY <1>3, <2>1
  <2>3. Follows(line[k].tree, line[k + d].tree) BY <2>2, <1>2, <1>5
  <2>4. PICK j : j = k + (d + 1) OBVIOUS
  <2>5. j \in k + 1 .. n /\ j \in 2 .. n /\ j - 1 = k + d BY <2>1, <2>4, <1>3
  <2>6. Follows(line[j - 1].tree, line[j].tree) BY <2>5, <1>1 DEF Chained
  <2> QED BY <2>3, <2>4, <2>5, <2>6, FollowsTrans
<1>6. Nat \subseteq S BY <1>4, <1>5, SetInduction
<1>7. ASSUME NEW j \in k .. Len(line) PROVE Follows(line[k].tree, line[j].tree)
  <2>1. PICK d \in Nat : k + d = j /\ k + d <= n
    <3>1. j - k \in Nat /\ k + (j - k) = j /\ j <= n BY <1>1, <1>3
    <3> QED BY <3>1
  <2>2. d \in S BY <1>6
  <2> QED BY <2>1, <2>2, <1>2
<1> QED BY <1>7

LEMMA FlushWindows ==
  ASSUME LineInv, WindowInv, Flush
  PROVE  WindowInv'
<1>1. branch' = branch /\ hop = "flush" /\ hop' = "boundary" BY DEF Flush
<1>2. CASE children' = children BY <1>1, <1>2, SameChildren, StillWindows
<1>3. ASSUME CheckpointDue /\ HasPoint,
             children' = Append(children, Child("compactor", Past, CompactorTree(TreeOf(Past))))
      PROVE  WindowInv'
  <2>1. /\ LineOK(branch, authored) /\ branch \in Seq(Commits) /\ Len(branch) \in Nat
        /\ Len(branch) > 1 /\ HEAD \in Trees /\ HEAD = branch[Len(branch)].tree
        /\ keep \in Nat
    BY InvHead DEF LineInv, CountInv
  <2>2. PICK b \in Seq(Commits) : b = branch BY <2>1
  <2>3. PICK n \in Nat : n = Len(b) /\ n > 1 BY <2>1, <2>2
  <2>4. PICK kp \in Nat : kp = keep BY <2>1
  <2>5. PICK o : o = Origin(b) OBVIOUS
  <2>6. o \in 1 .. n /\ \A i \in o + 1 .. n : b[i].subject \notin {"founding", "base"}
    BY <2>1, <2>2, <2>3, <2>5, OriginFacts
  <2>7. PICK k \in Int : k = n - kp OBVIOUS
  <2>8. k \in 2 .. n /\ \A i \in k + 1 .. n : b[i].subject # "base"
    <3>1. CASE kp = 0
      <4>1. k = n BY <3>1, <2>7
      <4>2. \A i \in k + 1 .. n : FALSE BY <4>1
      <4> QED BY <4>1, <4>2, <2>3
    <3>2. CASE n - o > kp
      <4>1. k > o BY <3>2, <2>6, <2>7
      <4>2. k \in 2 .. n /\ \A i \in k + 1 .. n : i \in o + 1 .. n BY <4>1, <2>6, <2>7
      <4> QED BY <4>2, <2>6
    <3> QED BY <3>1, <3>2, <1>3, <2>2, <2>3, <2>4, <2>5 DEF HasPoint, CommitsSince
  <2>9. PICK past : past = Past OBVIOUS
  <2>10. past = SubSeq(b, 1, k) BY <2>9, <2>2, <2>3, <2>4, <2>7 DEF Past
  <2>11. TreeOf(past) = b[k].tree
    <3>1. PICK a \in Nat : a = authored BY InvHead
    <3>2. LineOK(b, a) /\ k \in 2 .. Len(b) BY <3>1, <2>1, <2>2, <2>3, <2>8
    <3>3. TreeOf(SubSeq(b, 1, k)) = b[k].tree BY <3>2, PrefixLine
    <3> QED BY <3>3, <2>10
  <2>12. Follows(b[k].tree, b[n].tree)
    <3>1. Chained(b) BY <2>2 DEF Chained, WindowInv
    <3>2. k \in 1 .. Len(b) /\ n \in k .. Len(b) BY <2>3, <2>8
    <3> QED BY <3>1, <3>2, <2>3, <2>8, Segment
  <2>13. PICK t : t = b[k].tree OBVIOUS
  <2>14. t \in Trees /\ Windowed(t)
    <3>1. k \in 1 .. Len(b) BY <2>3, <2>8
    <3>2. b[k] \in Commits BY <3>1, ElementOfSeq
    <3> QED BY <3>1, <3>2, <2>2, <2>13, CommitFields DEF WindowInv
  <2>15. PICK u : u = CompactorTree(t) OBVIOUS
  <2>16. AnsweredBy(u) = CalledBy(u) BY <2>14, <2>15, CompactorPaired
  <2>17. HEAD = b[n].tree /\ HEAD' = b[n].tree
    <3>1. HEAD' = HEAD BY <1>1 DEF HEAD
    <3> QED BY <3>1, <2>1, <2>2, <2>3
  <2>18. ResultAfter(HEAD, HEAD) BY <1>1 DEF WindowInv
  <2>19. ResultAfter(HEAD', t)
    <3>1. PICK e \in EntriesOf(HEAD, "result") : \A m \in EntriesIn(HEAD) : m <= e
      BY <2>18 DEF ResultAfter
    <3>2. EntriesIn(t) \subseteq EntriesIn(HEAD) BY <2>12, <2>13, <2>17 DEF Follows
    <3>3. \A m \in EntriesIn(t) : m <= e BY <3>1, <3>2
    <3> QED BY <3>1, <3>3, <2>17 DEF ResultAfter
  <2>20. PICK r : r = Child("compactor", past, u) OBVIOUS
  <2>21. r.past = past /\ r.founded = u BY <2>20 DEF Child
  <2>22. children' = Append(children, r) BY <1>3, <2>9, <2>11, <2>13, <2>15, <2>20
  <2>23. ASSUME NEW c \in DOMAIN (children'), children'[c].role = "compactor"
         PROVE  \/ /\ c \in DOMAIN children /\ children[c].role = "compactor"
                   /\ children'[c].past = children[c].past
                   /\ children'[c].founded = children[c].founded
                \/ /\ AnsweredBy(children'[c].founded) = CalledBy(children'[c].founded)
                   /\ ResultAfter(HEAD', TreeOf(children'[c].past))
    <3>1. children \in Seq(ChildRecords) BY DEF LineInv, ChildInv
    <3>2. PICK m \in Nat : m = Len(children) BY <3>1, LenProperties
    <3>3. /\ DOMAIN (children') = 1 .. m + 1 /\ DOMAIN children = 1 .. m
          /\ \A i \in 1 .. m : children'[i] = children[i]
          /\ children'[m + 1] = r
      BY <3>1, <3>2, <2>22, AppendProperties, LenProperties
    <3>4. CASE c \in 1 .. m BY <3>3, <3>4, <2>23
    <3>5. CASE c = m + 1 BY <3>3, <3>5, <2>11, <2>13, <2>16, <2>19, <2>21
    <3> QED BY <3>2, <3>3, <3>4, <3>5
  <2>24. Grown(branch, branch') BY <1>1, <2>1, GrownSelf
  <2>25. AllSettled(HEAD')
    <3>1. HEAD' = HEAD BY <2>17
    <3> QED BY <3>1, HeadWindows
  <2> QED BY <1>1, <2>23, <2>24, <2>25, WindowsKept
<1> QED BY <1>2, <1>3 DEF Flush

-----------------------------------------------------------------------------
(* The windows: a step with tools.                                         *)

\* A tool adds no entry of its own.
LEMMA AffectedEntries ==
  ASSUME NEW effect, NEW t \in Trees, NEW tag, NEW k, NEW v, v = Affected(effect, t, tag),
         Msg(k) \in DOMAIN v
  PROVE  Msg(k) \in DOMAIN t
<1>1. Msg(k) # Work(0) /\ \A n : Msg(k) # Sum(n)
  <2>1. /\ Msg(k)[1] = "msg" /\ Work(0)[1] = "work" /\ \A n : Sum(n)[1] = "sum"
    BY PathFacts
  <2> QED BY <2>1
<1>2. CASE effect = "write"
  <2>1. v = Put(t, Work(0), Content("work", tag, {})) BY <1>2 DEF Affected
  <2>2. DOMAIN v = DOMAIN t \cup {Work(0)} BY <2>1 DEF Put
  <2> QED BY <2>2, <1>1
<1>3. CASE effect = "drop"
  <2>1. v = Without(t, {Work(0)}) BY <1>3 DEF Affected
  <2>2. DOMAIN v = DOMAIN t \ {Work(0)} BY <2>1 DEF Without
  <2> QED BY <2>2
<1>4. CASE effect = "note"
  <2>1. PICK p : p = Sum(NextSeq(t, "sum")) OBVIOUS
  <2>2. v = Put(t, p, Content("note", tag, {})) BY <2>1, <1>4 DEF Affected
  <2>3. DOMAIN v = DOMAIN t \cup {p} BY <2>2 DEF Put
  <2> QED BY <2>1, <2>3, <1>1
<1>5. CASE effect \notin {"write", "drop", "note"}
  <2>1. v = t BY <1>5 DEF Affected
  <2> QED BY <2>1
<1> QED BY <1>2, <1>3, <1>4, <1>5

\* One result more follows the results before it.
LEMMA ResultsFollow ==
  ASSUME NEW t \in Trees, NEW s \in Nat, NEW a \in Nat, NEW i \in Nat, i > 1,
         \A e \in EntriesIn(t) : e < s,
         NEW u, WithResults(t, u, s, a, i - 1), NEW v, WithResults(t, v, s, a, i)
  PROVE  Follows(u, v)
<1>1. /\ \A e : e \in EntriesIn(u) <=> e \in EntriesIn(t) \/ e \in s .. s + (i - 1) - 1
      /\ \A e \in EntriesIn(t) : u[Msg(e)] = t[Msg(e)]
      /\ \A e \in s .. s + (i - 1) - 1 : u[Msg(e)] = ResultContent(a, s, Msg(e))
  BY DEF WithResults
<1>2. /\ \A e : e \in EntriesIn(v) <=> e \in EntriesIn(t) \/ e \in s .. s + i - 1
      /\ \A e \in EntriesIn(t) : v[Msg(e)] = t[Msg(e)]
      /\ \A e \in s .. s + i - 1 : v[Msg(e)] = ResultContent(a, s, Msg(e))
  BY DEF WithResults
<1>3. EntriesIn(t) \subseteq Nat BY EntryFacts
<1>4. ASSUME NEW e \in EntriesIn(u) PROVE e \in EntriesIn(v) /\ v[Msg(e)] = u[Msg(e)]
  <2>1. CASE e \in EntriesIn(t) BY <2>1, <1>1, <1>2
  <2>2. CASE e \in s .. s + (i - 1) - 1
    <3>1. e \in s .. s + i - 1 BY <2>2
    <3> QED BY <3>1, <2>2, <1>1, <1>2
  <2> QED BY <2>1, <2>2, <1>1
<1>5. ASSUME NEW e \in EntriesIn(v) \ EntriesIn(u), NEW m \in EntriesIn(u) PROVE m < e
  <2>1. e \in s .. s + i - 1 /\ e \notin s .. s + (i - 1) - 1 BY <1>1, <1>2
  <2>2. e = s + i - 1 BY <2>1
  <2>3. CASE m \in EntriesIn(t)
    <3>1. m < s /\ m \in Nat BY <2>3, <1>3
    <3> QED BY <3>1, <2>2
  <2>4. CASE m \in s .. s + (i - 1) - 1 BY <2>2, <2>4
  <2> QED BY <2>3, <2>4, <1>1
<1> QED BY <1>4, <1>5 DEF Follows

\* The tree with the output that makes the calls, and the one its first
\* tool leaves.
CallMade(h, t0, t, o, a, n) ==
    /\ t0 \in Trees /\ t \in Trees /\ Known(t, a + 1 + n)
    /\ Windowed(t0) /\ Follows(h, t0) /\ Follows(t0, t)
    /\ Windowed(t) /\ Open(t, o) /\ t[Msg(o)].about = a + 2 .. a + 1 + n
    /\ \A e \in EntriesOf(t, "result") : t[Msg(e)].about \subseteq 1 .. a

\* The output that calls, and what the first of its tools does besides.
LEMMA CalledWindows ==
  ASSUME NEW h \in Trees, Windowed(h), AllSettled(h), NEW a \in Nat, Known(h, a),
         NEW n \in Nat, NEW effect, NEW o, o = NextSeq(h, "msg"),
         NEW x, x = Content("output", a + 1, a + 2 .. a + 1 + n),
         NEW t0, t0 = Put(h, Msg(o), x), NEW t, t = Affected(effect, t0, a + 2)
  PROVE  CallMade(h, t0, t, o, a, n)
<1>1. /\ x \in Contents /\ x.kind = "output" /\ x.about = a + 2 .. a + 1 + n
      /\ x.tag = a + 1
  <2>1. a + 2 .. a + 1 + n \in SUBSET Nat OBVIOUS
  <2> QED BY <2>1 DEF Content, Contents, Kinds, EntryKinds
<1>2. /\ t0 \in Trees /\ EntriesIn(t0) = EntriesIn(h) \cup {o} /\ o \notin EntriesIn(h)
      /\ o \in Nat \ {0} /\ t0[Msg(o)] = x /\ Follows(h, t0)
  BY <1>1, NextEntry
<1>3. Windowed(t0) /\ Open(t0, o) BY <1>1, <1>2, OutputEntry
<1>4. PICK m \in Nat : m = a + 1 + n OBVIOUS
<1>5. Known(t0, m)
  <2>1. Known(h, m) BY <1>4, KnownGrows
  <2>2. PICK p \in Paths : p = Msg(o) BY <1>2, PathFacts
  <2>3. x.about \subseteq 1 .. m /\ x.tag \in 1 .. m BY <1>1, <1>4
  <2>4. p \in Paths /\ t0 = Put(h, p, x) BY <2>2
  <2> QED BY <2>1, <2>3, <2>4, <1>1, PutKnown
<1>6. t \in Trees /\ Known(t, m) /\ Stays(t0, t)
  <2>1. PICK tag \in Nat : tag = a + 2 OBVIOUS
  <2>2. t0 \in Trees /\ Known(t0, m) /\ m \in Nat BY <1>2, <1>4, <1>5
  <2>3. PICK v : v = Affected(effect, t0, tag) OBVIOUS
  <2>4. v \in Trees /\ Known(v, m) /\ Stays(t0, v) BY <2>1, <2>2, <2>3, AffectedFacts
  <2> QED BY <2>1, <2>3, <2>4
<1>7. SameEntries(t0, t)
  <2>1. ASSUME NEW k PROVE Msg(k) \in DOMAIN t <=> Msg(k) \in DOMAIN t0
    <3>1. Msg(k)[1] = "msg" BY PathFacts
    <3>2. Msg(k) \in DOMAIN t0 => Msg(k) \in DOMAIN t BY <3>1, <1>6 DEF Stays
    <3>3. Msg(k) \in DOMAIN t => Msg(k) \in DOMAIN t0 BY <1>2, AffectedEntries
    <3> QED BY <3>2, <3>3
  <2>2. ASSUME NEW k \in EntriesIn(t0) PROVE t[Msg(k)] = t0[Msg(k)]
    <3>1. Msg(k)[1] = "msg" /\ Msg(k) \in DOMAIN t0 BY <1>2, PathFacts, EntryFacts
    <3> QED BY <3>1, <1>6 DEF Stays
  <2>3. \A k : k \in EntriesIn(t) <=> k \in EntriesIn(t0) BY <2>1, <1>2, <1>6, EntryFacts
  <2> QED BY <2>2, <2>3 DEF SameEntries
<1>8. /\ \A kind : EntriesOf(t, kind) = EntriesOf(t0, kind)
      /\ Follows(t0, t) /\ Windowed(t)
  BY <1>2, <1>3, <1>6, <1>7, SameWindows
<1>9. Open(t, o)
  <2>1. \A e \in EntriesOf(t0, "output") : Settled(t0, e) => Settled(t, e)
    BY <1>2, <1>6, <1>8, FollowsWindows
  <2>2. EntriesIn(t) = EntriesIn(t0) BY <1>7 DEF SameEntries
  <2> QED BY <2>1, <2>2, <1>3, <1>8 DEF Open
<1>10. t[Msg(o)].about = a + 2 .. a + 1 + n BY <1>1, <1>2, <1>7 DEF SameEntries
<1>11. ASSUME NEW e \in EntriesOf(t, "result") PROVE t[Msg(e)].about \subseteq 1 .. a
  <2>1. e \in EntriesIn(t0) /\ t0[Msg(e)].kind = "result" BY <1>8 DEF EntriesOf
  <2>2. e \in EntriesIn(h)
    <3>1. e # o BY <2>1, <1>1, <1>2
    <3> QED BY <3>1, <2>1, <1>2
  <2>3. t[Msg(e)] = h[Msg(e)]
    <3>1. t[Msg(e)] = t0[Msg(e)] BY <2>1, <1>7 DEF SameEntries
    <3>2. t0[Msg(e)] = h[Msg(e)] BY <2>2, <1>2 DEF Follows
    <3> QED BY <3>1, <3>2
  <2>4. Msg(e) \in DOMAIN h BY <2>2, EntryFacts
  <2> QED BY <2>3, <2>4 DEF Known
<1> QED BY <1>2, <1>3, <1>4, <1>6, <1>8, <1>9, <1>10, <1>11 DEF CallMade

LEMMA ToolsWindows ==
  ASSUME LineInv, WindowInv, NEW n \in Windows, NEW effect \in Effects, Tools(n, effect)
  PROVE  WindowInv'
<1>1. n \in Nat /\ n > 0 BY ChoicesAssumption
<1>2. /\ LineOK(branch, authored) /\ authored \in Nat /\ HEAD \in Trees
      /\ Known(HEAD, authored) /\ branch \in Seq(Commits) /\ Len(branch) > 1
      /\ HEAD = TreeOf(branch)
  BY InvHead
<1>3. PICK a \in Nat : a = authored BY <1>2
<1>4. PICK h \in Trees : h = HEAD /\ h = TreeOf(branch) /\ Known(h, a) BY <1>2, <1>3
<1>5. Windowed(h) /\ AllSettled(h) BY <1>4, HeadWindows
<1>6. PICK o : o = NextSeq(h, "msg") OBVIOUS
<1>7. PICK x : x = Content("output", a + 1, a + 2 .. a + 1 + n) OBVIOUS
<1>8. PICK t0 : t0 = Put(h, Msg(o), x) OBVIOUS
<1>9. PICK t : t = Affected(effect, t0, a + 2) OBVIOUS
<1>10. /\ t0 \in Trees /\ t \in Trees /\ Known(t, a + 1 + n)
       /\ Windowed(t0) /\ Follows(h, t0) /\ Follows(t0, t)
       /\ Windowed(t) /\ Open(t, o) /\ t[Msg(o)].about = a + 2 .. a + 1 + n
       /\ \A e \in EntriesOf(t, "result") : t[Msg(e)].about \subseteq 1 .. a
  <2>1. CallMade(h, t0, t, o, a, n)
    BY <1>1, <1>4, <1>5, <1>6, <1>7, <1>8, <1>9, CalledWindows
  <2> QED BY <2>1 DEF CallMade
<1>11. PICK e : e = Commit("entry", 0, t0) OBVIOUS
<1>12. e = CallCommit(n)
  BY <1>3, <1>4, <1>6, <1>7, <1>8, <1>11 DEF CallCommit, EntryCommit
<1>13. e \in Commits /\ e.tree = t0 /\ e.subject # "base"
  <2>1. "entry" \in Subjects /\ 0 \in Nat BY DEF Subjects
  <2> QED BY <2>1, <1>10, <1>11 DEF Commit, Commits
<1>14. PICK called : called = Append(branch, e) OBVIOUS
<1>15. Grown(branch, called) /\ TreeOf(called) = t0
  <2>1. Windowed(e.tree) /\ Follows(TreeOf(branch), e.tree) BY <1>4, <1>10, <1>13
  <2>2. PICK b \in Seq(Commits) : b = branch /\ Len(b) > 0 BY <1>2, LenProperties
  <2>3. Grown(b, called) /\ TreeOf(called) = e.tree
    BY <2>1, <2>2, <1>13, <1>14, GrownAppends
  <2> QED BY <2>2, <2>3, <1>13
<1>16. PICK s \in Nat \ {0} : s = NextSeq(t, "msg") /\ \A k \in EntriesIn(t) : k < s
  BY <1>10, NewEntry
<1>17. PICK more : more = ResultCommits(n, effect) OBVIOUS
<1>18. more = [i \in 1 .. n |-> Commit("entry", 0, ResultTree(t, s, a, i))]
  <2>1. t = Affected(effect, CallCommit(n).tree, authored + 2)
    BY <1>3, <1>9, <1>12, <1>13
  <2> QED BY <2>1, <1>1, <1>3, <1>16, <1>17, ResultCommitsFacts
<1>19. ASSUME NEW i \in 1 .. n
       PROVE  /\ more[i] \in Commits /\ more[i].subject # "base"
              /\ WithResults(t, more[i].tree, s, a, i)
              /\ Follows(t, more[i].tree) /\ Windowed(more[i].tree)
              /\ ResultAfter(more[i].tree, more[i].tree)
              /\ i = n => AllSettled(more[i].tree)
  <2>1. PICK u : u = ResultTree(t, s, a, i) OBVIOUS
  <2>2. WithResults(t, u, s, a, i) BY <2>1, <1>1, <1>10, <1>16, ResultEntries
  <2>3. /\ Follows(t, u) /\ Windowed(u) /\ ResultAfter(u, u)
        /\ i = n => AllSettled(u)
    BY <2>1, <1>1, <1>10, <1>16, ResultWindows
  <2>4. more[i] = Commit("entry", 0, u) BY <2>1, <1>18
  <2>5. u \in Trees BY <2>2 DEF WithResults
  <2>6. more[i] \in Commits /\ more[i].tree = u /\ more[i].subject # "base"
    <3>1. "entry" \in Subjects /\ 0 \in Nat BY DEF Subjects
    <3> QED BY <3>1, <2>4, <2>5 DEF Commit, Commits
  <2> QED BY <2>2, <2>3, <2>6
<1>20. more \in Seq(Commits) /\ Len(more) = n
  <2>1. more \in [1 .. n -> Commits] BY <1>18, <1>19
  <2> QED BY <2>1, <1>1, MadeSeq
<1>21. PICK new : new = called \o more OBVIOUS
<1>22. called \in Seq(Commits) /\ Len(called) > 0 /\ Len(called) \in Nat
  <2>1. called \in Seq(Commits) BY <1>15 DEF Grown
  <2>2. Len(branch) <= Len(called) BY <1>15 DEF Grown
  <2>3. Len(called) \in Nat /\ Len(branch) \in Nat BY <2>1, <1>2, LenProperties
  <2> QED BY <2>1, <2>2, <2>3, <1>2
<1>23. PICK l \in Nat : l = Len(called) BY <1>22
<1>24. /\ new \in Seq(Commits) /\ Len(new) = l + n
       /\ \A i \in 1 .. l : new[i] = called[i]
       /\ \A i \in 1 .. n : new[l + i] = more[i]
  <2>1. new \in Seq(Commits) BY <1>20, <1>21, <1>22, ConcatProperties
  <2>2. Len(new) = l + n BY <1>20, <1>21, <1>22, <1>23, ConcatProperties
  <2>3. \A i \in 1 .. l + n : new[i] = IF i <= l THEN called[i] ELSE more[i - l]
    BY <1>20, <1>21, <1>22, <1>23, ConcatProperties
  <2>4. ASSUME NEW i \in 1 .. n PROVE new[l + i] = more[i]
    <3>1. l + i \in 1 .. l + n /\ ~(l + i <= l) /\ (l + i) - l = i BY <1>1
    <3> QED BY <3>1, <2>3
  <2>5. ASSUME NEW i \in 1 .. l PROVE new[i] = called[i]
    <3>1. i \in 1 .. l + n /\ i <= l BY <1>1
    <3> QED BY <3>1, <2>3
  <2> QED BY <2>1, <2>2, <2>4, <2>5
<1>25. ASSUME NEW i \in l + 1 .. l + n
       PROVE  /\ new[i].subject # "base" /\ Windowed(new[i].tree)
              /\ Follows(new[i - 1].tree, new[i].tree)
  <2>1. PICK j \in 1 .. n : i = l + j
    <3>1. i - l \in 1 .. n /\ i = l + (i - l) BY <1>1
    <3> QED BY <3>1
  <2>2. new[i] = more[j] BY <2>1, <1>24
  <2>3. more[j].subject # "base" /\ Windowed(more[j].tree) /\ Follows(t, more[j].tree)
    BY <1>19
  <2>4. CASE j = 1
    <3>1. i - 1 = l /\ l \in 1 .. l BY <2>1, <2>4, <1>22, <1>23
    <3>2. new[i - 1] = called[l] BY <3>1, <1>24
    <3>3. called[l].tree = t0 BY <1>15, <1>22, <1>23, TipOf
    <3>4. Follows(t0, more[j].tree) BY <2>3, <1>10, FollowsTrans
    <3> QED BY <2>2, <2>3, <3>2, <3>3, <3>4
  <2>5. CASE j # 1
    <3>1. j - 1 \in 1 .. n /\ i - 1 = l + (j - 1) /\ j \in Nat /\ j > 1
      BY <2>1, <2>5, <1>1, <1>23
    <3>2. new[i - 1] = more[j - 1] BY <3>1, <1>24
    <3>3. /\ WithResults(t, more[j - 1].tree, s, a, j - 1)
          /\ WithResults(t, more[j].tree, s, a, j)
      BY <3>1, <1>19
    <3>4. Follows(more[j - 1].tree, more[j].tree)
      BY <3>1, <3>3, <1>10, <1>16, ResultsFollow
    <3> QED BY <2>2, <2>3, <3>2, <3>4
  <2> QED BY <2>4, <2>5
<1>26. TreeOf(new) = more[n].tree /\ n \in 1 .. n
  <2>1. n \in 1 .. n /\ new[l + n] = more[n] BY <1>1, <1>24
  <2>2. Len(new) > 0 /\ Len(new) = l + n BY <1>1, <1>24
  <2>3. TreeOf(new) = new[Len(new)].tree BY <2>2, <1>24, TipOf
  <2> QED BY <2>1, <2>2, <2>3
<1>27. Grown(called, new)
  <2>1. Follows(t0, more[n].tree) BY <1>10, <1>19, <1>26, FollowsTrans
  <2>2. Len(called) <= Len(new) BY <1>1, <1>23, <1>24
  <2> QED BY <2>1, <2>2, <1>15, <1>23, <1>24, <1>25, <1>26 DEF Grown
<1>28. Grown(branch, new) BY <1>2, <1>15, <1>27, GrownTrans
<1>29. branch' = new BY <1>12, <1>14, <1>17, <1>21 DEF Tools
<1>30. /\ Grown(branch, branch') /\ AllSettled(HEAD') /\ ResultAfter(HEAD', HEAD')
  BY <1>19, <1>26, <1>28, <1>29 DEF HEAD
<1>31. ASSUME NEW c \in DOMAIN (children'), children'[c].role = "compactor"
       PROVE  /\ c \in DOMAIN children /\ children[c].role = "compactor"
              /\ children'[c].past = children[c].past
              /\ children'[c].founded = children[c].founded
  <2>1. CASE children' = children BY <2>1, <1>31
  <2>2. CASE children' = Append(children, Child("worker", called, WorkerTree(HEAD)))
    <3>1. PICK r : r = Child("worker", called, WorkerTree(HEAD)) OBVIOUS
    <3>2. r.role = "worker" BY <3>1 DEF Child
    <3>3. children \in Seq(ChildRecords) BY DEF LineInv, ChildInv
    <3>4. PICK m \in Nat : m = Len(children) BY <3>3, LenProperties
    <3>5. /\ DOMAIN (children') = 1 .. m + 1 /\ DOMAIN children = 1 .. m
          /\ \A i \in 1 .. m : children'[i] = children[i]
          /\ children'[m + 1] = r
      BY <3>1, <3>3, <3>4, <2>2, AppendProperties, LenProperties
    <3>6. c # m + 1 BY <3>2, <3>5, <1>31
    <3>7. c \in 1 .. m BY <3>4, <3>5, <3>6
    <3> QED BY <3>5, <3>7, <1>31
  <2> QED BY <2>1, <2>2, <1>12, <1>14 DEF Tools
<1> QED BY <1>30, <1>31, WindowsKept

-----------------------------------------------------------------------------
(* The windows: the replay.                                                *)

\* The entries of the point that the landing of c takes away.
Gone(c) == {n \in EntriesIn(TreeOf(children[c].past)) : Msg(n) \in Deletions(c)}

\* A transcript without some entries.
Lacks(t, u, gone) ==
    /\ EntriesIn(u) = EntriesIn(t) \ gone
    /\ \A n \in EntriesIn(u) : u[Msg(n)] = t[Msg(n)]

LEMMA PointFollowed ==
  ASSUME LineInv, WindowInv, NEW c \in DOMAIN children, IsCompactor(c), ~Superseded(c),
         NEW j \in Point(c) .. Len(branch)
  PROVE  Follows(TreeOf(children[c].past), branch[j].tree)
<1>1. PICK past : past = children[c].past OBVIOUS
<1>2. PICK b \in Seq(Commits) : b = branch BY InvHead
<1>3. PICK k : k = Point(c) OBVIOUS
<1>4. /\ k \in 2 .. Len(b) /\ TreeOf(past) = b[k].tree
      /\ Origin(past) \in 1 .. k
      /\ \A i \in Origin(past) + 1 .. Len(b) : b[i].subject # "base"
  <2>1. Point(c) \in 2 .. Len(branch) /\ TreeOf(past) = branch[Point(c)].tree
    BY <1>1, NotSuperseded
  <2>2. Origin(past) \in 1 .. Point(c) BY <1>1, NotSuperseded
  <2>3. \A i \in Origin(past) + 1 .. Len(branch) : branch[i].subject # "base"
    BY <1>1, NotSuperseded
  <2> QED BY <2>1, <2>2, <2>3, <1>2, <1>3
<1>5. Len(b) \in Nat BY LenProperties
<1>6. \A i \in k + 1 .. Len(b) : b[i].subject # "base"
  <2>1. PICK o \in Nat : o = Origin(past) /\ o <= k BY <1>4
  <2>2. \A i \in k + 1 .. Len(b) : i \in o + 1 .. Len(b) BY <2>1, <1>4, <1>5
  <2> QED BY <2>1, <2>2, <1>4
<1>7. Chained(b) BY <1>2 DEF Chained, WindowInv
<1>8. k \in 1 .. Len(b) BY <1>4, <1>5
<1>9. Follows(b[k].tree, b[j].tree)
  <2>1. j \in k .. Len(b) BY <1>2, <1>3
  <2> QED BY <2>1, <1>6, <1>7, <1>8, Segment
<1> QED BY <1>1, <1>2, <1>4, <1>9

\* The live branch rewrites no entry of the point.
LEMMA EntryUntouched ==
  ASSUME LineInv, WindowInv, NEW c \in DOMAIN children, IsCompactor(c), ~Superseded(c),
         NEW j \in Point(c) .. Len(branch),
         NEW n \in EntriesIn(TreeOf(children[c].past))
  PROVE  ~Touched(Msg(n), Point(c), j)
<1>1. PICK point : point = TreeOf(children[c].past) OBVIOUS
<1>2. PICK k : k = Point(c) OBVIOUS
<1>3. PICK p : p = Msg(n) OBVIOUS
<1>4. k \in Nat /\ k \in 2 .. Len(branch) /\ Len(branch) \in Nat BY <1>2, InvHead, NotSuperseded
<1>5. ASSUME NEW i \in k .. j PROVE FileAt(branch[i].tree, p) = point[p]
  <2>1. i \in k .. Len(branch) BY <1>2, <1>4
  <2>2. Follows(point, branch[i].tree) BY <2>1, <1>1, <1>2, PointFollowed
  <2>3. n \in EntriesIn(branch[i].tree) /\ branch[i].tree[p] = point[p]
    BY <2>2, <1>1, <1>3 DEF Follows
  <2>4. branch[i].tree \in Trees
    <3>1. branch \in Seq(Commits) /\ i \in 1 .. Len(branch) BY <2>1, <1>4, InvHead
    <3>2. branch[i] \in Commits BY <3>1, ElementOfSeq
    <3> QED BY <3>2, CommitFields
  <2>5. p \in DOMAIN branch[i].tree BY <2>3, <2>4, <1>3, EntryFacts
  <2> QED BY <2>3, <2>5 DEF FileAt
<1>6. ASSUME NEW i \in k + 1 .. j
      PROVE  FileAt(branch[i].tree, p) = FileAt(branch[i - 1].tree, p)
  <2>1. i \in k .. j /\ i - 1 \in k .. j BY <1>4
  <2> QED BY <2>1, <1>5
<1> QED BY <1>2, <1>3, <1>6 DEF Touched

LEMMA ReplayLacks ==
  ASSUME LineInv, WindowInv, NEW c \in DOMAIN children, IsCompactor(c), ~Superseded(c),
         NEW j \in Point(c) .. Len(branch), NEW t, t = branch[j].tree,
         NEW u, u = ReplayedOn(c, j)
  PROVE  t \in Trees /\ u \in Trees /\ Lacks(t, u, Gone(c))
<1>1. PICK point : point = TreeOf(children[c].past) OBVIOUS
<1>2. PICK G : G = Gone(c) OBVIOUS
<1>3. t \in Trees
  <2>1. branch \in Seq(Commits) /\ j \in 1 .. Len(branch)
    <3>1. Point(c) \in 2 .. Len(branch) /\ Len(branch) \in Nat BY InvHead, NotSuperseded
    <3>2. branch \in Seq(Commits) BY InvHead
    <3> QED BY <3>1, <3>2
  <2>2. branch[j] \in Commits BY <2>1, ElementOfSeq
  <2> QED BY <2>2, CommitFields
<1>4. u \in Trees BY ReplayKeeps
<1>5. \A p \in DOMAIN u :
         \/ p \in DOMAIN t /\ u[p] = t[p]
         \/ p \notin DOMAIN t /\ p \in Summaries(c)
  BY ReplayKeeps
<1>6. \A p \in DOMAIN t \ DOMAIN u : p \in Deletions(c) /\ p \in DOMAIN point
  BY <1>1, ReplayKeeps
<1>7. point \in Trees /\ Known(point, authored) BY <1>1, PointFacts
<1>8. ASSUME NEW n \in EntriesIn(u) PROVE n \in EntriesIn(t) /\ u[Msg(n)] = t[Msg(n)]
  <2>1. Msg(n) \in DOMAIN u BY <1>4, EntryFacts
  <2>2. Msg(n) \notin Summaries(c)
    <3>1. Msg(n)[1] = "msg" BY PathFacts
    <3> QED BY <3>1 DEF Summaries, InDir
  <2>3. Msg(n) \in DOMAIN t /\ u[Msg(n)] = t[Msg(n)] BY <2>1, <2>2, <1>5
  <2> QED BY <2>3, <1>3, EntryFacts
<1>9. ASSUME NEW n \in EntriesIn(t), n \notin EntriesIn(u) PROVE n \in G
  <2>1. Msg(n) \in DOMAIN t \ DOMAIN u BY <1>3, <1>4, <1>9, EntryFacts
  <2>2. Msg(n) \in Deletions(c) /\ Msg(n) \in DOMAIN point BY <2>1, <1>6
  <2> QED BY <2>2, <1>1, <1>2, <1>7, EntryFacts DEF Gone
<1>10. ASSUME NEW n \in G PROVE n \notin EntriesIn(u)
  <2>1. n \in EntriesIn(point) /\ Msg(n) \in Deletions(c) BY <1>1, <1>2 DEF Gone
  <2>2. ~Touched(Msg(n), Point(c), j) BY <2>1, <1>1, EntryUntouched
  <2>3. PICK base : base = BaseTree(c) OBVIOUS
  <2>4. base \in Trees BY <2>3, <1>1, <1>7, BaseFacts
  <2>5. DOMAIN base = (DOMAIN point \ Deletions(c)) \cup Summaries(c)
    BY <2>3, <1>1, <1>7, BaseFacts
  <2>6. Msg(n) \notin Summaries(c)
    <3>1. Msg(n)[1] = "msg" BY PathFacts
    <3> QED BY <3>1 DEF Summaries, InDir
  <2>7. Msg(n) \notin DOMAIN base BY <2>1, <2>5, <2>6
  <2>8. PICK v : v = ReplayedTree(base, Point(c), j) OBVIOUS
  <2>9. branch[j].tree \in Trees BY <1>3
  <2>10. Msg(n) \in DOMAIN v => Msg(n) \in DOMAIN base BY <2>2, <2>4, <2>8, <2>9, ReplayedFacts
  <2>11. u = v BY <2>3, <2>8 DEF ReplayedOn
  <2> QED BY <2>7, <2>10, <2>11, <1>4, EntryFacts
<1>11. EntriesIn(u) = EntriesIn(t) \ G BY <1>8, <1>9, <1>10
<1> QED BY <1>2, <1>3, <1>4, <1>8, <1>11 DEF Lacks

-----------------------------------------------------------------------------
(* The windows: what a landing takes is whole windows.                     *)

\* The calls of the outputs among some entries are those their results are of.
Balanced(tree, gone) ==
    \A x : (\E m \in gone \cap EntriesOf(tree, "output") : x \in tree[Msg(m)].about)
        <=> (\E n \in gone \cap EntriesOf(tree, "result") : x \in tree[Msg(n)].about)

\* What a pass that tears no window takes of a point: whole windows, none of
\* them unsettled, or every settled entry but the opening prompt.
Swath(point) == EntriesIn(point) \ (UnsettledWindow(point) \cup {1})
WholeWindows(point, gone) ==
    \/ gone \cap UnsettledWindow(point) = {} /\ Balanced(point, gone)
    \/ gone = Swath(point)

LEMMA GoneFacts ==
  ASSUME LineInv, NEW c \in DOMAIN children, IsCompactor(c), ~Superseded(c), ~Tears(c),
         NEW point, point = TreeOf(children[c].past)
  PROVE  /\ Gone(c) \subseteq EntriesIn(point) /\ WholeWindows(point, Gone(c))
         /\ Summaries(c) # {} => Gone(c) = Swath(point)
<1>1. /\ point \in Trees
      /\ DOMAIN children[c].founded = DOMAIN point \ {Msg(n) : n \in UnsettledWindow(point)}
      /\ \A p \in DOMAIN children[c].founded : children[c].founded[p] = point[p]
      /\ Msg(1) \notin Deletions(c)
  BY PointFacts
<1>2. PICK founded : founded = children[c].founded OBVIOUS
<1>3. PICK G : G = Gone(c) OBVIOUS
<1>4. \A n : n \in G <=> n \in EntriesIn(point) /\ Msg(n) \in Deletions(c)
  BY <1>3 DEF Gone
<1>5. CASE Summaries(c) = {}
  <2>1. PICK f \in Trees : f = founded BY <1>2, ChildTypes
  <2>2. PICK N : N = Nominated(c) /\ N \subseteq DOMAIN f BY <1>2, <2>1 DEF Nominated
  <2>3. PICK g : g = Keep(f, N) OBVIOUS
  <2>4. g \in Trees /\ DOMAIN g = N /\ \A q \in N : g[q] = f[q]
    <3>1. DOMAIN f \cap N = N BY <2>2
    <3>2. Keep(f, N) \in Trees /\ DOMAIN Keep(f, N) = DOMAIN f \cap N BY <2>1, KeepFacts
    <3>3. \A q \in DOMAIN f \cap N : Keep(f, N)[q] = f[q] BY <2>1, KeepFacts
    <3> QED BY <2>3, <3>1, <3>2, <3>3
  <2>5. CalledBy(g) = AnsweredBy(g) BY <1>2, <1>5, <2>1, <2>2, <2>3 DEF Tears
  <2>6. \A n : n \in G <=> Msg(n) \in N
    <3>1. Deletions(c) = N BY <1>5, <2>2 DEF Deletions, Swept
    <3>2. N \subseteq DOMAIN point BY <1>1, <1>2, <2>1, <2>2
    <3> QED BY <3>1, <3>2, <1>1, <1>4, EntryFacts
  <2>7. \A n \in G : g[Msg(n)] = point[Msg(n)]
    BY <2>4, <2>6, <2>1, <2>2, <1>1, <1>2
  <2>8. \A kind : EntriesOf(g, kind) = G \cap EntriesOf(point, kind)
    <3>1. ASSUME NEW kind, NEW n
          PROVE  n \in EntriesOf(g, kind) <=> n \in G /\ n \in EntriesOf(point, kind)
      <4>1. n \in EntriesOf(g, kind) <=> Msg(n) \in N /\ g[Msg(n)].kind = kind
        BY <2>4, OfKind
      <4>2. n \in EntriesOf(point, kind) <=> n \in EntriesIn(point) /\ point[Msg(n)].kind = kind
        BY DEF EntriesOf
      <4>3. n \in G => n \in EntriesIn(point) /\ g[Msg(n)] = point[Msg(n)] BY <1>4, <2>7
      <4> QED BY <4>1, <4>2, <4>3, <2>6
    <3> QED BY <3>1
  <2>9. Balanced(point, G)
    <3>1. ASSUME NEW x
          PROVE  (\E m \in G \cap EntriesOf(point, "output") : x \in point[Msg(m)].about)
                   <=> (\E n \in G \cap EntriesOf(point, "result") : x \in point[Msg(n)].about)
      <4>1. x \in CalledBy(g)
              <=> \E m \in G \cap EntriesOf(point, "output") : x \in g[Msg(m)].about
        BY <2>8, AnsweredDef
      <4>2. x \in AnsweredBy(g)
              <=> \E n \in G \cap EntriesOf(point, "result") : x \in g[Msg(n)].about
        BY <2>8, AnsweredDef
      <4> QED BY <4>1, <4>2, <2>5, <2>7
    <3> QED BY <3>1 DEF Balanced
  <2>10. G \cap UnsettledWindow(point) = {}
    <3>1. ASSUME NEW n \in G PROVE n \notin UnsettledWindow(point)
      <4>1. Msg(n) \in DOMAIN children[c].founded BY <2>1, <2>2, <2>6, <1>2
      <4> QED BY <4>1, <1>1
    <3> QED BY <3>1
  <2> QED BY <2>9, <2>10, <1>3, <1>4, <1>5 DEF WholeWindows
<1>6. CASE Summaries(c) # {}
  <2>1. PICK U : U = UnsettledWindow(point) OBVIOUS
  <2>2. Span(c) = {Msg(n) : n \in EntriesIn(point) \ (U \cup {1})} BY <2>1 DEF Span
  <2>3. \A n : Msg(n) \in Span(c) <=> n \in EntriesIn(point) \ (U \cup {1})
    <3>1. PICK N : N = EntriesIn(point) \ (U \cup {1}) OBVIOUS
    <3>2. Span(c) = {Msg(n) : n \in N} BY <2>2, <3>1
    <3>3. \A n, m : Msg(n) = Msg(m) => n = m BY PathFacts
    <3> QED BY <3>1, <3>2, <3>3
  <2>4. ASSUME NEW n \in G PROVE n \in EntriesIn(point) \ (U \cup {1})
    <3>1. n \in EntriesIn(point) /\ Msg(n) \in Deletions(c) /\ n # 1 BY <1>1, <1>4
    <3>2. CASE Msg(n) \in Nominated(c)
      <4>1. Msg(n) \in DOMAIN children[c].founded BY <3>2 DEF Nominated
      <4>2. n \notin U BY <4>1, <1>1, <2>1
      <4> QED BY <3>1, <4>2
    <3>3. CASE Msg(n) \in Span(c) BY <3>3, <2>3
    <3> QED BY <3>1, <3>2, <3>3, <1>6 DEF Deletions, Swept
  <2>5. ASSUME NEW n \in EntriesIn(point) \ (U \cup {1}) PROVE n \in G
    <3>1. Msg(n) \in Span(c) BY <2>3
    <3>2. Msg(n) \in Deletions(c) BY <3>1, <1>6 DEF Deletions, Swept
    <3> QED BY <3>2, <1>4
  <2>6. G = Swath(point) BY <2>1, <2>4, <2>5 DEF Swath
  <2> QED BY <2>6, <1>3, <1>4 DEF WholeWindows
<1> QED BY <1>5, <1>6

\* An output outside the unsettled window has its results in its own.
LEMMA SettledOutside ==
  ASSUME NEW t \in Trees, Windowed(t), NEW o \in EntriesOf(t, "output"),
         o \notin UnsettledWindow(t)
  PROVE  Settled(t, o)
<1>1. CASE Settled(t, o) BY <1>1
<1>2. CASE ~Settled(t, o)
  <2>1. PICK O : O = EntriesOf(t, "output") OBVIOUS
  <2>2. \A q \in O : q <= o BY <1>2, <2>1 DEF Windowed
  <2>3. O \in SUBSET EntriesIn(t) /\ O \subseteq Nat BY <2>1, OfKind DEF EntriesOf
  <2>4. o = Greatest(O)
    <3>1. PICK h \in O : h = Greatest(O) /\ \A q \in O : q <= h
      BY <2>1, <2>3, EntriesFinite
    <3>2. h <= o /\ o <= h BY <3>1, <2>1, <2>2
    <3>3. h \in Nat /\ o \in Nat BY <2>1, <2>3, <3>1
    <3> QED BY <3>1, <3>2, <3>3
  <2>5. PICK after : after = {n \in EntriesOf(t, "result") : n > o} OBVIOUS
  <2>6. t[Msg(o)].about \subseteq UNION {t[Msg(n)].about : n \in after}
    <3>1. SUFFICES ASSUME ~(t[Msg(o)].about \subseteq UNION {t[Msg(n)].about : n \in after})
                   PROVE  FALSE
      OBVIOUS
    <3>2. UnsettledWindow(t) = {n \in EntriesIn(t) : n >= o}
      BY <3>1, <2>1, <2>4, <2>5 DEF UnsettledWindow
    <3>3. o \in EntriesIn(t) /\ o >= o BY <2>1, <2>3
    <3> QED BY <3>2, <3>3
  <2>7. ASSUME NEW x \in t[Msg(o)].about
        PROVE  \E n \in EntriesOf(t, "result") : x \in t[Msg(n)].about /\ InWindowOf(t, o, n)
    <3>1. PICK n \in after : x \in t[Msg(n)].about BY <2>6, <2>7
    <3>2. n \in EntriesOf(t, "result") /\ n > o BY <2>5
    <3>3. n \in Nat /\ o \in Nat BY <2>1, <2>3, <3>2, OfKind
    <3>4. o < n BY <3>2, <3>3
    <3>5. \A q \in O : ~(o < q) BY <2>1, <2>2, <2>3
    <3>6. InWindowOf(t, o, n) BY <2>1, <3>4, <3>5 DEF InWindowOf
    <3> QED BY <3>1, <3>2, <3>6
  <2> QED BY <2>7 DEF Settled
<1> QED BY <1>1, <1>2

\* The unsettled window of a tree, by its last output.
LEMMA UnsettledShape ==
  ASSUME NEW t \in Trees, Windowed(t), NEW U, U = UnsettledWindow(t)
  PROVE  \/ /\ U = {}
            /\ \A m \in EntriesOf(t, "output") : \A x \in t[Msg(m)].about :
                  \E n \in EntriesOf(t, "result") : x \in t[Msg(n)].about
         \/ \E last \in EntriesOf(t, "output") :
               /\ U = {n \in EntriesIn(t) : n >= last}
               /\ \A m \in EntriesOf(t, "output") : m <= last
BY UnsettledFacts

LEMMA LandedThins ==
  ASSUME NEW point \in Trees, NEW t \in Trees, NEW u \in Trees, NEW gone,
         Follows(point, t), Lacks(t, u, gone), gone \subseteq EntriesIn(point),
         WholeWindows(point, gone), Windowed(point), Windowed(t), HasGoal(point)
  PROVE  Thinned(t, u)
<1>1. /\ EntriesIn(u) = EntriesIn(t) \ gone
      /\ \A n \in EntriesIn(u) : u[Msg(n)] = t[Msg(n)]
  BY DEF Lacks
<1>2. \A kind : EntriesOf(u, kind) = EntriesOf(t, kind) \ gone
  <2>1. ASSUME NEW kind, NEW n
        PROVE  n \in EntriesOf(u, kind) <=> n \in EntriesOf(t, kind) /\ n \notin gone
    BY <1>1 DEF EntriesOf
  <2> QED BY <2>1
<1>3. \A n \in EntriesOf(u, "output") \cup EntriesOf(u, "result") : u[Msg(n)] = t[Msg(n)]
  BY <1>1 DEF EntriesOf
<1>4. /\ EntriesIn(point) \subseteq EntriesIn(t)
      /\ \A n \in EntriesIn(point) : t[Msg(n)] = point[Msg(n)]
      /\ \A n \in EntriesIn(t) \ EntriesIn(point) : \A m \in EntriesIn(point) : m < n
  BY DEF Follows
<1>5. \A kind : EntriesOf(point, kind) = EntriesOf(t, kind) \cap EntriesIn(point)
  BY FollowsWindows
<1>6. CASE gone \cap UnsettledWindow(point) = {} /\ Balanced(point, gone)
  <2>1. EntriesOf(t, "output") \subseteq Nat /\ EntriesOf(t, "result") \subseteq Nat BY OfKind
  <2>2. ASSUME NEW n \in EntriesOf(u, "result"), NEW m \in EntriesOf(t, "output"),
               t[Msg(m)].about \cap t[Msg(n)].about # {}, InWindowOf(t, m, n)
        PROVE  m \in EntriesOf(u, "output")
    <3>1. SUFFICES ASSUME m \in gone PROVE FALSE BY <1>2
    <3>2. PICK x : x \in t[Msg(m)].about /\ x \in t[Msg(n)].about BY <2>2
    <3>3. m \in gone \cap EntriesOf(point, "output") /\ x \in point[Msg(m)].about
      BY <3>1, <3>2, <1>4, <1>5
    <3>4. PICK k \in gone \cap EntriesOf(point, "result") : x \in point[Msg(k)].about
      BY <3>3, <1>6 DEF Balanced
    <3>5. k \in EntriesOf(t, "result") /\ x \in t[Msg(k)].about BY <3>4, <1>4, <1>5
    <3>6. n \in EntriesOf(t, "result") /\ n \notin gone BY <1>2
    <3>7. k = n BY <3>2, <3>5, <3>6 DEF Windowed
    <3> QED BY <3>4, <3>6, <3>7
  <2>3. ASSUME NEW m \in EntriesOf(u, "output"), NEW n \in EntriesOf(t, "result"),
               t[Msg(m)].about \cap t[Msg(n)].about # {}, InWindowOf(t, m, n)
        PROVE  n \in EntriesOf(u, "result")
    <3>1. SUFFICES ASSUME n \in gone PROVE FALSE BY <1>2
    <3>2. PICK x : x \in t[Msg(m)].about /\ x \in t[Msg(n)].about BY <2>3
    <3>3. n \in gone \cap EntriesOf(point, "result") /\ x \in point[Msg(n)].about
      BY <3>1, <3>2, <1>4, <1>5
    <3>4. PICK o \in gone \cap EntriesOf(point, "output") : x \in point[Msg(o)].about
      BY <3>3, <1>6 DEF Balanced
    <3>5. Settled(point, o) BY <3>4, <1>6, SettledOutside
    <3>6. PICK k \in EntriesOf(point, "result") :
              x \in point[Msg(k)].about /\ InWindowOf(point, o, k)
      BY <3>4, <3>5 DEF Settled
    <3>7. k = n BY <3>3, <3>6 DEF Windowed
    <3>8. InWindowOf(t, o, n) BY <3>3, <3>6, <3>7, FollowsWindows DEF EntriesOf
    <3>9. m \in EntriesOf(t, "output") /\ m \notin gone /\ o \in EntriesOf(t, "output")
      BY <1>2, <1>5, <3>4
    <3>10. m = o
      <4>1. m \in Nat /\ o \in Nat /\ n \in Nat BY <2>1, <3>9
      <4>2. m < n /\ o < n BY <2>3, <3>8 DEF InWindowOf
      <4>3. ~(m < o) /\ ~(o < m) BY <2>3, <3>8, <3>9, <4>2 DEF InWindowOf
      <4> QED BY <4>1, <4>3
    <3> QED BY <3>4, <3>9, <3>10
  <2>4. /\ EntriesOf(u, "output") \subseteq EntriesOf(t, "output")
        /\ EntriesOf(u, "result") \subseteq EntriesOf(t, "result")
    BY <1>2
  <2> QED BY <2>2, <2>3, <2>4, <1>3 DEF Thinned
<1>7. CASE gone = Swath(point)
  <2>1. PICK U : U = UnsettledWindow(point) OBVIOUS
  <2>2. gone = EntriesIn(point) \ (U \cup {1}) BY <1>7, <2>1 DEF Swath
  <2>3. \A n \in EntriesIn(t) : n \in Nat
    <3>1. EntriesIn(t) \subseteq Nat \ {0} BY EntryFacts
    <3> QED BY <3>1
  <2>4. 1 \notin EntriesOf(t, "output") /\ 1 \notin EntriesOf(t, "result")
    <3>1. Msg(1) \in DOMAIN point /\ point[Msg(1)].kind = "goal" BY GoalPath
    <3>2. 1 \in EntriesIn(point) BY <3>1, EntryFacts
    <3>3. t[Msg(1)].kind = "goal" BY <3>1, <3>2, <1>4
    <3> QED BY <3>3 DEF EntriesOf
  <2>5. \A kind : EntriesOf(t, kind) \subseteq EntriesIn(t) BY DEF EntriesOf
  <2>6. \A n \in EntriesOf(t, "output") : n \notin EntriesOf(t, "result") BY DEF EntriesOf
  <2>7. \A n \in EntriesOf(t, "output") \cup EntriesOf(t, "result") :
           n \in gone <=> n \in EntriesIn(point) /\ n \notin U
    BY <2>2, <2>4
  <2>8. \/ /\ U = {}
           /\ \A m \in EntriesOf(point, "output") : \A x \in point[Msg(m)].about :
                 \E n \in EntriesOf(point, "result") : x \in point[Msg(n)].about
        \/ \E last \in EntriesOf(point, "output") :
              /\ U = {n \in EntriesIn(point) : n >= last}
              /\ \A m \in EntriesOf(point, "output") : m <= last
    BY <2>1, UnsettledShape
  <2>9. ASSUME NEW n \in EntriesOf(u, "result"), NEW m \in EntriesOf(t, "output"),
               t[Msg(m)].about \cap t[Msg(n)].about # {}, InWindowOf(t, m, n)
        PROVE  m \in EntriesOf(u, "output")
    <3>1. SUFFICES ASSUME m \in gone PROVE FALSE BY <1>2
    <3>2. m \in EntriesIn(point) /\ m \notin U BY <3>1, <2>7
    <3>3. n \in EntriesOf(t, "result") /\ n \notin gone BY <1>2
    <3>4. n \in Nat /\ m \in Nat BY <3>3, <2>3, <2>5
    <3>5. m \in EntriesOf(point, "output") BY <3>2, <1>5
    <3>6. CASE U = {} /\ \A o \in EntriesOf(point, "output") : \A x \in point[Msg(o)].about :
                            \E k \in EntriesOf(point, "result") : x \in point[Msg(k)].about
      <4>1. PICK x : x \in t[Msg(m)].about /\ x \in t[Msg(n)].about BY <2>9
      <4>2. x \in point[Msg(m)].about BY <4>1, <3>2, <1>4
      <4>3. PICK k \in EntriesOf(point, "result") : x \in point[Msg(k)].about
        BY <4>2, <3>5, <3>6
      <4>4. k \in EntriesOf(t, "result") /\ k \in EntriesIn(point) BY <1>5
      <4>5. x \in t[Msg(k)].about BY <4>3, <4>4, <1>4
      <4>6. k = n BY <4>1, <4>4, <4>5, <3>3 DEF Windowed
      <4> QED BY <4>4, <4>6, <3>3, <3>6, <2>7
    <3>7. ASSUME NEW last \in EntriesOf(point, "output"),
                 U = {e \in EntriesIn(point) : e >= last},
                 \A o \in EntriesOf(point, "output") : o <= last
          PROVE  FALSE
      <4>1. last \in EntriesIn(point) /\ last \in EntriesOf(t, "output") BY <1>5
      <4>2. last \in Nat BY <4>1, <2>3, <2>5
      <4>3. m < last BY <4>2, <3>2, <3>4, <3>7
      <4>4. ~(last < n) BY <4>1, <4>3, <2>9 DEF InWindowOf
      <4>5. n # last BY <4>1, <3>3, <2>6
      <4>6. n < last BY <4>2, <4>4, <4>5, <3>4
      <4>7. n \in EntriesIn(point)
        <5>1. n \in EntriesIn(t) BY <3>3, <2>5
        <5>2. CASE n \notin EntriesIn(point)
          <6>1. last < n BY <5>1, <5>2, <4>1, <1>4
          <6> QED BY <6>1, <4>4
        <5> QED BY <5>2
      <4>8. n \notin U BY <4>2, <4>6, <3>4, <3>7
      <4> QED BY <4>7, <4>8, <3>3, <2>7
    <3> QED BY <3>6, <3>7, <2>8
  <2>10. ASSUME NEW m \in EntriesOf(u, "output"), NEW n \in EntriesOf(t, "result"), m < n
         PROVE  n \in EntriesOf(u, "result")
    <3>1. SUFFICES ASSUME n \in gone PROVE FALSE BY <1>2
    <3>2. n \in EntriesIn(point) /\ n \notin U BY <3>1, <2>7
    <3>3. m \in EntriesOf(t, "output") /\ m \notin gone /\ m \in EntriesIn(t)
      BY <1>2, <2>5
    <3>4. n \in Nat /\ m \in Nat
      <4>1. n \in EntriesIn(t) BY <2>5
      <4> QED BY <4>1, <3>3, <2>3
    <3>5. m \in EntriesIn(point)
      <4>1. CASE m \notin EntriesIn(point)
        <5>1. n < m BY <4>1, <3>2, <3>3, <1>4
        <5> QED BY <5>1, <3>4, <2>10
      <4> QED BY <4>1
    <3>6. m \in U BY <3>3, <3>5, <2>7
    <3>7. PICK last \in EntriesOf(point, "output") : U = {e \in EntriesIn(point) : e >= last}
      BY <3>6, <2>8
    <3>8. last \in Nat BY <3>7, <1>5, <2>3, <2>5
    <3>9. n >= last BY <3>4, <3>6, <3>7, <3>8, <2>10
    <3> QED BY <3>2, <3>7, <3>9
  <2>11. \A m \in EntriesOf(u, "output"), n \in EntriesOf(t, "result") :
            InWindowOf(t, m, n) => n \in EntriesOf(u, "result")
    BY <2>10 DEF InWindowOf
  <2>12. /\ EntriesOf(u, "output") \subseteq EntriesOf(t, "output")
         /\ EntriesOf(u, "result") \subseteq EntriesOf(t, "result")
    BY <1>2
  <2> QED BY <2>9, <2>11, <2>12, <1>3 DEF Thinned
<1> QED BY <1>6, <1>7 DEF WholeWindows

\* A landing neither wakes a branch that was done nor silences one that owes
\* a step, if what the branch ended with is still there or in a summary.
LEMMA DueKept ==
  ASSUME NEW point \in Trees, NEW t \in Trees, NEW u \in Trees, NEW gone,
         Follows(point, t), Lacks(t, u, gone), gone \subseteq EntriesIn(point),
         WholeWindows(point, gone), Windowed(point), HasGoal(point), HasGoal(u),
         Windowed(t), AllSettled(t), Windowed(u), AllSettled(u), ResultAfter(t, point),
         Msg(Greatest(EntriesIn(t))) \in DOMAIN u \/ gone = Swath(point)
  PROVE  StepDue(t) <=> StepDue(u)
<1>1. CalledBy(t) \subseteq AnsweredBy(t) /\ CalledBy(u) \subseteq AnsweredBy(u)
  <2>1. AnsweredBy(t) = CalledBy(t) BY SettledPairs
  <2>2. AnsweredBy(u) = CalledBy(u) BY SettledPairs
  <2> QED BY <2>1, <2>2
<1>2. /\ EntriesIn(u) = EntriesIn(t) \ gone
      /\ \A n \in EntriesIn(u) : u[Msg(n)] = t[Msg(n)]
  BY DEF Lacks
<1>3. 1 \in EntriesIn(u) /\ u[Msg(1)].kind = "goal"
  <2>1. Msg(1) \in DOMAIN u /\ u[Msg(1)].kind = "goal" BY GoalPath
  <2> QED BY <2>1, EntryFacts
<1>4. EntriesIn(t) \subseteq Nat BY EntryFacts
<1>5. PICK g \in EntriesIn(t) : g = Greatest(EntriesIn(t)) /\ \A m \in EntriesIn(t) : m <= g
  <2>1. EntriesIn(t) # {} /\ EntriesIn(t) \in SUBSET EntriesIn(t) BY <1>2, <1>3
  <2> QED BY <2>1, EntriesFinite
<1>6. PICK h \in EntriesIn(u) : h = Greatest(EntriesIn(u)) /\ \A m \in EntriesIn(u) : m <= h
  <2>1. EntriesIn(u) # {} /\ EntriesIn(u) \in SUBSET EntriesIn(u) BY <1>3
  <2> QED BY <2>1, EntriesFinite
<1>7. g \in Nat /\ h \in Nat BY <1>2, <1>4
<1>8. StepDue(t) <=> t[Msg(g)].kind # "output" BY <1>1, <1>5 DEF StepDue
<1>9. StepDue(u) <=> u[Msg(h)].kind # "output" BY <1>1, <1>6 DEF StepDue
<1>10. CASE g \notin gone
  <2>1. g \in EntriesIn(u) BY <1>2, <1>10
  <2>2. g <= h /\ h <= g BY <2>1, <1>2, <1>5, <1>6
  <2>3. g = h BY <2>2, <1>7
  <2> QED BY <2>1, <2>3, <1>2, <1>8, <1>9
<1>11. CASE g \in gone
  <2>1. g \in EntriesIn(point) BY <1>11
  <2>2. t[Msg(g)].kind = "result"
    <3>1. PICK n \in EntriesOf(t, "result") : \A m \in EntriesIn(point) : m <= n
      BY DEF ResultAfter
    <3>2. n \in EntriesIn(t) /\ t[Msg(n)].kind = "result" BY DEF EntriesOf
    <3>3. g <= n /\ n <= g BY <3>1, <3>2, <2>1, <1>5
    <3>4. g = n BY <3>2, <3>3, <1>4, <1>7
    <3> QED BY <3>2, <3>4
  <2>3. PICK U : U = UnsettledWindow(point) OBVIOUS
  <2>4. gone = EntriesIn(point) \ (U \cup {1})
    <3>1. g \notin EntriesIn(u) BY <1>2, <1>11
    <3>2. Msg(g) \notin DOMAIN u BY <3>1, EntryFacts
    <3> QED BY <3>2, <2>3, <1>5 DEF Swath
  <2>5. U = {}
    <3>1. ASSUME NEW last \in EntriesOf(point, "output"),
                 U = {n \in EntriesIn(point) : n >= last}
          PROVE  FALSE
      <4>1. last \in EntriesIn(t) BY DEF EntriesOf, Follows
      <4>2. last <= g /\ last \in Nat BY <4>1, <1>4, <1>5
      <4>3. g >= last BY <4>2, <1>7
      <4>4. g \in U BY <4>3, <3>1, <2>1
      <4> QED BY <4>4, <2>4, <1>11
    <3> QED BY <3>1, <2>3, UnsettledShape
  <2>6. ASSUME NEW n \in EntriesIn(u) PROVE n = 1
    <3>1. n \in EntriesIn(t) /\ n \notin gone BY <1>2
    <3>2. n \in EntriesIn(point)
      <4>1. CASE n \notin EntriesIn(point)
        <5>1. g < n /\ n <= g BY <4>1, <3>1, <2>1, <1>5 DEF Follows
        <5>2. n \in Nat BY <3>1, <1>4
        <5> QED BY <5>1, <5>2, <1>7
      <4> QED BY <4>1
    <3> QED BY <3>1, <3>2, <2>4, <2>5
  <2>7. h = 1 BY <2>6
  <2> QED BY <2>2, <2>7, <1>3, <1>8, <1>9
<1> QED BY <1>10, <1>11

LEMMA LacksFollows ==
  ASSUME NEW t1, NEW t2, NEW u1, NEW u2, NEW gone, Follows(t1, t2),
         Lacks(t1, u1, gone), Lacks(t2, u2, gone)
  PROVE  Follows(u1, u2)
<1>1. ASSUME NEW n \in EntriesIn(u1) PROVE n \in EntriesIn(u2) /\ u2[Msg(n)] = u1[Msg(n)]
  <2>1. n \in EntriesIn(t1) /\ n \notin gone /\ u1[Msg(n)] = t1[Msg(n)] BY DEF Lacks
  <2>2. n \in EntriesIn(t2) /\ t2[Msg(n)] = t1[Msg(n)] BY <2>1 DEF Follows
  <2>3. n \in EntriesIn(u2) BY <2>1, <2>2 DEF Lacks
  <2>4. u2[Msg(n)] = t2[Msg(n)] BY <2>3 DEF Lacks
  <2> QED BY <2>1, <2>2, <2>3, <2>4
<1>2. ASSUME NEW n \in EntriesIn(u2) \ EntriesIn(u1), NEW m \in EntriesIn(u1) PROVE m < n
  <2>1. n \in EntriesIn(t2) \ EntriesIn(t1) /\ m \in EntriesIn(t1) BY DEF Lacks
  <2> QED BY <2>1 DEF Follows
<1> QED BY <1>1, <1>2 DEF Follows

-----------------------------------------------------------------------------
(* The windows: the landing.                                               *)

\* Each commit from the point on, replayed.
LEMMA ReplayedWindows ==
  ASSUME LineInv, WindowInv, NEW c \in DOMAIN children, IsCompactor(c), ~Superseded(c), ~Tears(c),
         NEW j \in Point(c) .. Len(branch), NEW t, t = branch[j].tree,
         NEW u, u = ReplayedOn(c, j)
  PROVE  Thinned(t, u) /\ Windowed(u)
<1>1. PICK point : point = TreeOf(children[c].past) OBVIOUS
<1>2. PICK gone : gone = Gone(c) OBVIOUS
<1>3. t \in Trees /\ u \in Trees /\ Lacks(t, u, gone) BY <1>2, ReplayLacks
<1>4. Point(c) \in 2 .. Len(branch) /\ point = branch[Point(c)].tree /\ Len(branch) \in Nat
  BY <1>1, InvHead, NotSuperseded
<1>5. Windowed(point) /\ Windowed(t)
  <2>1. Point(c) \in 1 .. Len(branch) /\ j \in 1 .. Len(branch) BY <1>4
  <2> QED BY <2>1, <1>4 DEF WindowInv
<1>6. point \in Trees /\ HasGoal(point) BY <1>1, PointFacts
<1>7. gone \subseteq EntriesIn(point) /\ WholeWindows(point, gone) BY <1>1, <1>2, GoneFacts
<1>8. Follows(point, t) BY <1>1, PointFollowed
<1>9. Thinned(t, u) BY <1>3, <1>5, <1>6, <1>7, <1>8, LandedThins
<1> QED BY <1>5, <1>9, ThinnedWindowed

LEMMA LandedTip ==
  ASSUME LineInv, WindowInv, NEW c \in DOMAIN children, IsCompactor(c), ~Superseded(c), ~Tears(c),
         NEW u, u = TreeOf(Landed(c))
  PROVE  /\ AllSettled(u)
         /\ Msg(Greatest(EntriesIn(HEAD))) \in DOMAIN u \/ Summaries(c) # {}
              => (StepDue(HEAD) <=> StepDue(u))
<1>1. PICK n \in Nat : n = Len(branch) BY InvHead
<1>2. Point(c) \in 2 .. n BY <1>1, NotSuperseded
<1>3. n \in Point(c) .. Len(branch) BY <1>1, <1>2
<1>4. PICK t : t = HEAD OBVIOUS
<1>5. t = branch[n].tree BY <1>1, <1>4, InvHead
<1>6. u = ReplayedOn(c, n) BY <1>1, LandedLine
<1>7. Thinned(t, u) /\ Windowed(u) BY <1>3, <1>5, <1>6, ReplayedWindows
<1>8. PICK gone : gone = Gone(c) OBVIOUS
<1>9. t \in Trees /\ u \in Trees /\ Lacks(t, u, gone) BY <1>3, <1>5, <1>6, <1>8, ReplayLacks
<1>10. Windowed(t) /\ AllSettled(t) BY <1>4, HeadWindows
<1>11. AllSettled(u)
  <2>1. ASSUME NEW m \in EntriesOf(u, "output") PROVE Settled(u, m)
    <3>1. m \in EntriesOf(t, "output") BY <1>7 DEF Thinned
    <3>2. Settled(t, m) BY <3>1, <1>10 DEF AllSettled
    <3> QED BY <3>2, <1>7, ThinnedSettled
  <2> QED BY <2>1 DEF AllSettled
<1>12. PICK point : point = TreeOf(children[c].past) OBVIOUS
<1>13. point \in Trees /\ HasGoal(point) BY <1>12, PointFacts
<1>14. Windowed(point)
  <2>1. point = branch[Point(c)].tree BY <1>12, NotSuperseded
  <2>2. Point(c) \in 1 .. Len(branch) BY <1>1, <1>2
  <2> QED BY <2>1, <2>2 DEF WindowInv
<1>15. /\ gone \subseteq EntriesIn(point) /\ WholeWindows(point, gone)
       /\ Summaries(c) # {} => gone = Swath(point)
  BY <1>8, <1>12, GoneFacts
<1>16. Follows(point, t) BY <1>3, <1>5, <1>12, PointFollowed
<1>17. HasGoal(u) BY <1>3, <1>6, ReplayKeeps
<1>18. ResultAfter(t, point)
  <2>1. c \in OfRole("compactor") BY DEF OfRole, IsCompactor
  <2>2. ~Overtaken(c)
    <3>1. \A i \in 1 .. Point(c) : children[c].past[i] = branch[i] BY NotSuperseded
    <3>2. \A i \in Point(c) + 1 .. Len(branch) : branch[i].subject # "base"
      BY DEF Superseded
    <3> QED BY <3>1, <3>2 DEF Overtaken
  <2> QED BY <2>1, <2>2, <1>4, <1>12 DEF WindowInv
<1>19. ASSUME Msg(Greatest(EntriesIn(t))) \in DOMAIN u \/ gone = Swath(point)
       PROVE  StepDue(t) <=> StepDue(u)
  BY <1>7, <1>9, <1>10, <1>11, <1>13, <1>14, <1>15, <1>16, <1>17, <1>18, <1>19, DueKept
<1> QED BY <1>4, <1>11, <1>15, <1>19

\* After a landing every pass in flight is overtaken.
LEMMA AllOvertaken ==
  ASSUME LineInv, NEW c \in DOMAIN children, IsCompactor(c), ~Superseded(c),
         NEW new, new = Landed(c), NEW d \in DOMAIN children,
         NEW past, past = children[d].past
  PROVE  \/ \E i \in 1 .. Len(past) : i <= Len(new) /\ past[i] # new[i]
         \/ \E i \in Len(past) + 1 .. Len(new) : new[i].subject = "base"
<1>1. PICK o \in Nat : o = Origin(children[c].past) /\ o \in 1 .. Point(c)
  BY InvHead, NotSuperseded
<1>2. PICK n \in Nat, k \in Nat : n = Len(branch) /\ k = Point(c) /\ k \in 2 .. n
  <2>1. Len(branch) \in Nat /\ Point(c) \in 2 .. Len(branch) BY InvHead, NotSuperseded
  <2> QED BY <2>1
<1>3. Len(new) = o + 1 + (n - k) BY <1>1, <1>2, LandedElements
<1>4. new[o + 1] = Commit("base", c, BaseTree(c)) BY <1>1, <1>2, LandedElements
<1>5. new[o + 1].subject = "base" /\ new[o + 1].by = c BY <1>4 DEF Commit
<1>6. o + 1 \in Nat /\ o + 1 <= Len(new) BY <1>2, <1>3
<1>7. past \in Seq(Commits) /\ Len(past) \in Nat BY ChildTypes, LenProperties
<1>8. CASE o + 1 <= Len(past)
  <2>1. o + 1 \in 1 .. Len(past) BY <1>6, <1>7, <1>8
  <2>2. c \notin Bases(past)
    <3>1. Bases(past) \subseteq Bases(branch) BY ChildTypes
    <3>2. c \notin Bases(branch) BY LandedLine
    <3> QED BY <3>1, <3>2
  <2>3. past[o + 1] # new[o + 1]
    <3>1. ~(past[o + 1].subject = "base" /\ past[o + 1].by = c) BY <2>1, <2>2, <1>7, BasesDef
    <3> QED BY <3>1, <1>5
  <2> QED BY <2>1, <2>3, <1>6
<1>9. CASE ~(o + 1 <= Len(past))
  <2>1. o + 1 \in Len(past) + 1 .. Len(new) BY <1>3, <1>6, <1>7, <1>9, <1>2
  <2> QED BY <2>1, <1>5
<1> QED BY <1>8, <1>9

\* The trees of the replayed commits.
ReplaysFrom(line, c, o, k, n) ==
    \A i \in 1 .. n - k : line[o + 1 + i].tree = ReplayedOn(c, k + i)

LEMMA LandedReplays ==
  ASSUME LineInv, NEW c \in DOMAIN children, IsCompactor(c), ~Superseded(c),
         NEW o, o = Origin(children[c].past), NEW k, k = Point(c), NEW n, n = Len(branch),
         NEW line, line = Landed(c)
  PROVE  ReplaysFrom(line, c, o, k, n)
<1>1. \A i \in 1 .. n - k :
          /\ Landed(c)[o + 1 + i].subject = branch[k + i].subject
          /\ Landed(c)[o + 1 + i].by = branch[k + i].by
          /\ Landed(c)[o + 1 + i].tree = ReplayedOn(c, k + i)
  BY LandedElements
<1> QED BY <1>1 DEF ReplaysFrom

\* The line a landing leaves.
LEMMA LandedWindows ==
  ASSUME LineInv, WindowInv, NEW c \in DOMAIN children, IsCompactor(c), ~Superseded(c), ~Tears(c),
         NEW new, new = Landed(c)
  PROVE  Chained(new) /\ \A i \in 1 .. Len(new) : Windowed(new[i].tree)
<1>1. PICK o \in Nat : o = Origin(children[c].past) /\ o \in 1 .. Point(c)
  BY InvHead, NotSuperseded
<1>2. PICK n \in Nat, k \in Nat : n = Len(branch) /\ k = Point(c) /\ k \in 2 .. n
  <2>1. Len(branch) \in Nat /\ Point(c) \in 2 .. Len(branch) BY InvHead, NotSuperseded
  <2> QED BY <2>1
<1>3. PICK b \in Seq(Commits) : b = branch BY InvHead
<1>4. Len(new) = o + 1 + (n - k) BY <1>1, <1>2, LandedElements
<1>5. \A i \in 1 .. o : new[i] = b[i] BY <1>1, <1>2, <1>3, LandedElements
<1>6. new[o + 1].subject = "base" /\ new[o + 1].tree = ReplayedOn(c, k)
  <2>1. new[o + 1] = Commit("base", c, BaseTree(c)) BY <1>1, <1>2, LandedElements
  <2>2. ReplayedOn(c, k) = BaseTree(c) BY <1>2, ReplayAtPoint
  <2> QED BY <2>1, <2>2 DEF Commit
<1>7. \A i \in 1 .. n - k : new[o + 1 + i].tree = ReplayedOn(c, k + i)
  <2>1. ReplaysFrom(new, c, o, k, n) BY <1>1, <1>2, LandedReplays
  <2> QED BY <2>1 DEF ReplaysFrom
<1>8. ASSUME NEW i \in 0 .. n - k PROVE new[o + 1 + i].tree = ReplayedOn(c, k + i)
  <2>1. CASE i = 0
    <3>1. o + 1 + i = o + 1 /\ k + i = k BY <2>1, <1>1, <1>2
    <3> QED BY <3>1, <1>6
  <2>2. CASE i # 0
    <3>1. i \in 1 .. n - k BY <2>2
    <3> QED BY <3>1, <1>7
  <2> QED BY <2>1, <2>2
<1>9. ASSUME NEW j \in k .. n PROVE Windowed(ReplayedOn(c, j))
  <2>1. j \in Point(c) .. Len(branch) BY <1>2
  <2>2. PICK u : u = ReplayedOn(c, j) OBVIOUS
  <2>3. Windowed(u) BY <2>1, <2>2, ReplayedWindows
  <2> QED BY <2>2, <2>3
<1>10. \A i \in 1 .. n : Windowed(b[i].tree) BY <1>2, <1>3 DEF WindowInv
<1>11. \A i \in 2 .. n : b[i].subject = "base" \/ Follows(b[i - 1].tree, b[i].tree)
  BY <1>2, <1>3 DEF WindowInv
<1>12. ASSUME NEW i \in 1 .. Len(new) PROVE Windowed(new[i].tree)
  <2>1. CASE i <= o
    <3>1. i \in 1 .. o /\ i \in 1 .. n BY <2>1, <1>1, <1>2, <1>4
    <3> QED BY <3>1, <1>5, <1>10
  <2>2. CASE ~(i <= o)
    <3>1. PICK m \in 0 .. n - k : i = o + 1 + m
      <4>1. i - o - 1 \in 0 .. n - k /\ i = o + 1 + (i - o - 1) BY <2>2, <1>1, <1>2, <1>4
      <4> QED BY <4>1
    <3>2. k + m \in k .. n BY <1>2
    <3> QED BY <3>1, <3>2, <1>8, <1>9
  <2> QED BY <2>1, <2>2
<1>13. ASSUME NEW i \in 2 .. Len(new)
       PROVE  new[i].subject = "base" \/ Follows(new[i - 1].tree, new[i].tree)
  <2>1. CASE i <= o
    <3>1. i \in 1 .. o /\ i - 1 \in 1 .. o /\ i \in 2 .. n BY <2>1, <1>1, <1>2, <1>4
    <3> QED BY <3>1, <1>5, <1>11
  <2>2. CASE i = o + 1 BY <2>2, <1>6
  <2>3. CASE i > o + 1
    <3>1. PICK m \in 1 .. n - k : i = o + 1 + m
      <4>1. i - o - 1 \in 1 .. n - k /\ i = o + 1 + (i - o - 1) BY <2>3, <1>1, <1>2, <1>4
      <4> QED BY <4>1
    <3>2. PICK j : j = k + m OBVIOUS
    <3>3. /\ j \in k + 1 .. n /\ j \in 2 .. n /\ j - 1 \in k .. n /\ j \in k .. n
          /\ m - 1 \in 0 .. n - k /\ m \in 0 .. n - k
          /\ k + (m - 1) = j - 1 /\ i - 1 = o + 1 + (m - 1)
      <4>1. n \in Nat /\ k \in Nat /\ o \in Nat /\ k >= 2 /\ m \in Int /\ 1 <= m /\ m <= n - k
        BY <1>1, <1>2, <3>1
      <4>2. j \in k + 1 .. n BY <4>1, <3>2
      <4>3. j \in 2 .. n /\ j \in k .. n BY <4>1, <3>2
      <4>4. j - 1 \in k .. n BY <4>1, <3>2
      <4>5. m - 1 \in 0 .. n - k /\ m \in 0 .. n - k BY <4>1
      <4>6. k + (m - 1) = j - 1 BY <4>1, <3>2
      <4>7. i - 1 = o + 1 + (m - 1) BY <4>1, <3>1
      <4> QED BY <4>2, <4>3, <4>4, <4>5, <4>6, <4>7
    <3>4. new[i].tree = ReplayedOn(c, j) BY <3>1, <3>2, <3>3, <1>8
    <3>5. new[i - 1].tree = ReplayedOn(c, j - 1) BY <3>3, <1>8
    <3>6. b[j].subject # "base"
      <4>1. \A q \in Point(c) + 1 .. Len(branch) : branch[q].subject # "base" BY DEF Superseded
      <4> QED BY <4>1, <3>3, <1>2, <1>3
    <3>7. Follows(b[j - 1].tree, b[j].tree) BY <3>3, <3>6, <1>11
    <3>8. PICK gone : gone = Gone(c) OBVIOUS
    <3>9. Lacks(b[j].tree, new[i].tree, gone)
      <4>1. j \in Point(c) .. Len(branch) BY <3>3, <1>2
      <4>2. PICK t, u : t = branch[j].tree /\ u = ReplayedOn(c, j) OBVIOUS
      <4>3. Lacks(t, u, gone) BY <4>1, <4>2, <3>8, ReplayLacks
      <4> QED BY <4>2, <4>3, <3>4, <1>3
    <3>10. Lacks(b[j - 1].tree, new[i - 1].tree, gone)
      <4>1. PICK l : l = j - 1 OBVIOUS
      <4>2. l \in Point(c) .. Len(branch) BY <4>1, <3>3, <1>2
      <4>3. PICK t, u : t = branch[l].tree /\ u = ReplayedOn(c, l) OBVIOUS
      <4>4. Lacks(t, u, gone) BY <4>2, <4>3, <3>8, ReplayLacks
      <4> QED BY <4>1, <4>3, <4>4, <3>5, <1>3
    <3> QED BY <3>7, <3>9, <3>10, LacksFollows
  <2>4. i \in Int BY <1>4
  <2> QED BY <2>1, <2>2, <2>3, <2>4
<1> QED BY <1>12, <1>13 DEF Chained

DueSame == Heard => (StepDue(HEAD) <=> StepDue(HEAD)')

LEMMA LandWindows ==
  ASSUME LineInv, WindowInv, ~torn', listed # <<>>, hop # "flush", Land(listed[1])
  PROVE  WindowInv' /\ (Landing => DueSame)
<1>1. PICK c \in DOMAIN children : c = listed[1] BY ListedChild
<1>2. Land(c) BY <1>1
<1>3. IsCompactor(c) /\ children' = children /\ hop' # "flush"
  BY <1>2 DEF Land, Qualifies, Consume, DieAt
<1>4. CASE Outcome(c) # "landed"
  <2>1. branch' = branch BY <1>2, <1>4 DEF Land
  <2>2. WindowInv' BY <2>1, <1>3, SameChildren, StillWindows
  <2> QED BY <2>1, <2>2 DEF Landing
<1>5. CASE Outcome(c) = "landed"
  <2>1. branch' = Landed(c) BY <1>2, <1>5 DEF Land
  <2>2. ~Superseded(c) /\ ~Tears(c)
    <3>1. torn' = (torn \/ Tears(c)) BY <1>2, <1>5 DEF Land
    <3> QED BY <3>1, <1>5 DEF Outcome
  <2>3. PICK new : new = Landed(c) OBVIOUS
  <2>4. Chained(new) /\ \A i \in 1 .. Len(new) : Windowed(new[i].tree)
    BY <2>2, <2>3, <1>3, LandedWindows
  <2>5. PICK u : u = TreeOf(new) OBVIOUS
  <2>6. /\ AllSettled(u)
        /\ Msg(Greatest(EntriesIn(HEAD))) \in DOMAIN u \/ Summaries(c) # {}
             => (StepDue(HEAD) <=> StepDue(u))
    BY <2>2, <2>3, <2>5, <1>3, LandedTip
  <2>7. HEAD' = u BY <2>1, <2>3, <2>5 DEF HEAD
  <2>8. \A c2 \in OfRole("compactor")' :
           /\ AnsweredBy(children'[c2].founded) = CalledBy(children'[c2].founded)
           /\ Overtaken(c2)'
    <3>1. ASSUME NEW d \in OfRole("compactor")'
          PROVE  /\ AnsweredBy(children'[d].founded) = CalledBy(children'[d].founded)
                 /\ Overtaken(d)'
      <4>1. d \in DOMAIN children /\ d \in OfRole("compactor") BY <1>3 DEF OfRole
      <4>2. PICK past : past = children[d].past OBVIOUS
      <4>3. \/ \E i \in 1 .. Len(past) : i <= Len(new) /\ past[i] # new[i]
            \/ \E i \in Len(past) + 1 .. Len(new) : new[i].subject = "base"
        BY <4>1, <4>2, <2>2, <2>3, <1>3, AllOvertaken
      <4>4. Overtaken(d)' BY <4>2, <4>3, <2>1, <2>3, <1>3 DEF Overtaken, Point
      <4>5. AnsweredBy(children[d].founded) = CalledBy(children[d].founded)
        BY <4>1 DEF WindowInv
      <4> QED BY <4>4, <4>5, <1>3
    <3> QED BY <3>1
  <2>9. branch' = new BY <2>1, <2>3
  <2>10. \A i \in 2 .. Len(branch') :
            branch'[i].subject = "base" \/ Follows(branch'[i - 1].tree, branch'[i].tree)
    BY <2>4, <2>9 DEF Chained
  <2>11. \A i \in 1 .. Len(branch') : Windowed(branch'[i].tree) BY <2>4, <2>9
  <2>12. AllSettled(HEAD)' BY <2>6, <2>7
  <2>13. WindowInv' BY <2>8, <2>10, <2>11, <2>12, <1>3 DEF WindowInv
  <2>14. DueSame
    <3>1. c \in Bases(branch') \ Bases(branch) BY <2>1, <2>2, <1>3, LandedLine
    <3>2. Heard => Msg(Greatest(EntriesIn(HEAD))) \in DOMAIN u \/ Summaries(c) # {}
      BY <3>1, <2>7 DEF Heard
    <3> QED BY <3>2, <2>6, <2>7 DEF DueSame
  <2> QED BY <2>13, <2>14
<1> QED BY <1>4, <1>5

-----------------------------------------------------------------------------
(* The windows: the theorems.                                              *)

LEMMA InitWindows ==
  ASSUME LandingInit
  PROVE  WindowInv
<1>1. /\ branch = <<Commit("founding", 0, <<>>), EntryCommit(<<>>, Content("goal", 1, {}))>>
      /\ hop = "boundary" /\ children = <<>>
  BY DEF LandingInit
<1>2. PICK t \in Trees : t = <<>> /\ DOMAIN t = {} BY EmptyTree
<1>3. PICK x : x = Content("goal", 1, {}) OBVIOUS
<1>4. x \in Contents /\ x.kind = "goal" BY <1>3 DEF Content, Contents, Kinds, EntryKinds
<1>5. PICK s : s = NextSeq(t, "msg") OBVIOUS
<1>6. PICK u : u = Put(t, Msg(s), x) OBVIOUS
<1>7. /\ u \in Trees /\ EntriesIn(u) = EntriesIn(t) \cup {s} /\ s \notin EntriesIn(t)
      /\ s \in Nat \ {0} /\ u[Msg(s)] = x /\ Follows(t, u)
  BY <1>4, <1>5, <1>6, NextEntry
<1>8. \A kind : EntriesOf(t, kind) = {} BY <1>2, OfKind
<1>9. Windowed(t) /\ AllSettled(t) BY <1>8 DEF Windowed, AllSettled
<1>10. Windowed(u) /\ AllSettled(u)
  <2>1. u[Msg(s)].kind \notin {"output", "result"} BY <1>4, <1>7
  <2> QED BY <2>1, <1>7, <1>9, MailEntry
<1>11. PICK first, e : first = Commit("founding", 0, t) /\ e = Commit("entry", 0, u) OBVIOUS
<1>12. first.tree = t /\ e.tree = u BY <1>11 DEF Commit
<1>13. branch = <<first, e>> BY <1>1, <1>2, <1>3, <1>5, <1>6, <1>11 DEF EntryCommit
<1>14. Len(branch) = 2 /\ branch[1] = first /\ branch[2] = e BY <1>13
<1>15. HEAD = u
  <2>1. LineInv BY InitLine
  <2>2. HEAD = branch[Len(branch)].tree BY <2>1, InvHead
  <2> QED BY <2>2, <1>12, <1>14
<1>16. \A i \in 2 .. Len(branch) :
          branch[i].subject = "base" \/ Follows(branch[i - 1].tree, branch[i].tree)
  <2>1. \A i \in 2 .. 2 : i = 2 /\ i - 1 = 1 OBVIOUS
  <2> QED BY <2>1, <1>7, <1>12, <1>14
<1>17. \A i \in 1 .. Len(branch) : Windowed(branch[i].tree)
  <2>1. \A i \in 1 .. 2 : i = 1 \/ i = 2 OBVIOUS
  <2> QED BY <2>1, <1>9, <1>10, <1>12, <1>14
<1>18. OfRole("compactor") = {}
  <2>1. DOMAIN children = {} BY <1>1
  <2> QED BY <2>1 DEF OfRole
<1> QED BY <1>1, <1>10, <1>15, <1>16, <1>17, <1>18 DEF WindowInv

LEMMA WindowStep ==
  ASSUME LineInv, Accounted, WindowInv, ~torn', [LandingNext]_landingVars
  PROVE  WindowInv' /\ (Landing => DueSame)
<1>1. CASE DeliverMail BY <1>1, DeliverMailStep, DeliverMailWindows DEF Landing
<1>2. CASE List BY <1>2, ListStep, ListWindows DEF Landing
<1>3. CASE Interpret
  <2>1. listed # <<>> /\ hop # "flush" BY <1>3 DEF Interpret
  <2>2. CASE Land(listed[1]) BY <2>1, <2>2, LandWindows
  <2>3. CASE DeliverResult(listed[1])
    BY <2>1, <2>3, DeliverResultStep, DeliverResultWindows DEF Landing
  <2> QED BY <2>2, <2>3, <1>3 DEF Interpret
<1>4. CASE Quiesce BY <1>4, QuiesceStep, QuiesceWindows DEF Landing
<1>5. CASE Step
  <2>1. CASE Speak BY <2>1, SpeakStep, SpeakWindows DEF Landing
  <2>2. CASE \E n \in Windows, effect \in Effects : Tools(n, effect)
    BY <2>2, ToolsStep, ToolsWindows DEF Landing
  <2> QED BY <2>1, <2>2, <1>5 DEF Step
<1>6. CASE Flush BY <1>6, FlushStep, FlushWindows DEF Landing
<1>7. ASSUME NEW c \in DOMAIN children, CompactorTool(c) \/ CompactorReturns(c) \/ WorkerReturns(c)
      PROVE  WindowInv' /\ (Landing => DueSame)
  BY <1>7, CompactorToolStep, ReturnsStep, ToolOfPassWindows, ReturnWindows DEF Landing
<1>8. CASE UNCHANGED landingVars
  <2>1. branch' = branch BY <1>8 DEF landingVars
  <2> QED BY <2>1, <1>8, StutterWindows DEF Landing
<1> QED BY <1>1, <1>2, <1>3, <1>4, <1>5, <1>6, <1>7, <1>8 DEF LandingNext

LEMMA WindowsPair ==
  ASSUME LineInv, WindowInv
  PROVE  Paired
<1>1. PICK t \in Trees : t = HEAD BY InvHead
<1>2. Windowed(t) /\ AllSettled(t) BY <1>1, HeadWindows
<1>3. AnsweredBy(t) = CalledBy(t) BY <1>2, SettledPairs
<1> QED BY <1>1, <1>3 DEF Paired, WindowInv

\* What has been torn stays so.
LEMMA TornStays ==
  ASSUME [LandingNext]_landingVars, torn
  PROVE  torn'
<1>1. torn' = torn \/ \E c \in DOMAIN children : torn' = (torn \/ Tears(c))
  BY DEF LandingNext, DeliverMail, List, Interpret, Land, DeliverResult, Quiesce, Step, Speak, Tools,
         Flush, CompactorTool, CompactorReturns, WorkerReturns, Return, record, landingVars
<1> QED BY <1>1

LEMMA WindowInvariant == LandingSpec => [](LineInv /\ Accounted /\ (~torn => WindowInv))
<1> DEFINE Inv == LineInv /\ Accounted /\ (~torn => WindowInv)
<1>1. LandingInit => Inv BY InitLine, InitWindows
<1>2. Inv /\ [LandingNext]_landingVars => Inv' BY LineStep, WindowStep, TornStays
<1> QED BY <1>1, <1>2, PTL DEF LandingSpec

\* Paired: no cut splits a tool window, whatever a compactor nominates,
\* wherever its point falls in the branch, and however the branch steps
\* while it reads: in the branch's tree and in each compactor's the results
\* are those of the calls, until a pass lands without a summary, a part of a
\* window among what it nominated (product.rs, span.rs, eligibility.rs).
THEOREM WindowsStayWhole == LandingSpec => []Paired
<1>1. LineInv /\ (~torn => WindowInv) => Paired BY WindowsPair DEF Paired
<1> QED BY <1>1, WindowInvariant, PTL

\* LandingOnlyRemoves: a landing only takes away what its pass was shown,
\* squashes no earlier landing, and while windows are whole leaves the warrant
\* of the next step as it was: it neither wakes a branch that was done nor
\* silences one that owes a step, unless its pass nominated the entry the
\* branch ended with and wrote no summary (land.rs, advance.rs).
THEOREM LandingsKeepTheWarrant == LandingSpec => LandingOnlyRemoves
<1>1. LineInv /\ Accounted /\ (~torn => WindowInv) /\ [LandingNext]_landingVars
         => [Landing => RemovesOnly /\ (~torn' => DueSame)]_landingVars
  BY LineStep, WindowStep, TornStays
<1>2. (Landing => RemovesOnly /\ (~torn' => DueSame)) <=>
      (Landing => /\ OnlyRemoves(HEAD, HEAD') /\ Shown(HEAD, HEAD')
                  /\ Bases(branch) \subseteq Bases(branch')
                  /\ ~torn' /\ Heard => (StepDue(HEAD) <=> StepDue(HEAD)'))
  BY DEF RemovesOnly, DueSame
<1>3. LandingSpec => [][Landing => RemovesOnly /\ (~torn' => DueSame)]_landingVars
  BY <1>1, WindowInvariant, PTL DEF LandingSpec
<1> QED BY <1>2, <1>3, PTL DEF LandingOnlyRemoves

=============================================================================
