---------------------------- MODULE Gate_proofs ----------------------------
(***************************************************************************)
(* Proofs about Gate, for any roles, answers and bounds: nothing of a      *)
(* worker's is delivered unapproved, and no result of a worker's is lost   *)
(* on its way, whatever returns, is prompted again, is moved or dies.      *)
(***************************************************************************)
EXTENDS Gate, SequenceTheorems, WellFoundedInduction, TLAPS

-----------------------------------------------------------------------------
(* The types of the state.                                                 *)

Refs == Nat \X Nat
Says == {"approve", "other", NoTitle} \cup Titles
Childs == [role : {"worker", "verifier", "titler"}, line : SUBSET Refs,
           about : Refs, live : BOOLEAN, n : Nat]
Results == [from : Nat \ {0}, n : Nat \ {0}, line : SUBSET Refs,
            epitaph : {"final-response", "died"}, says : Says]
Circumstances ==
    [result : Results, gated : Results \cup {NoResult},
     event : {"verifier_approve", "verifier_reject", "worker", "verifier", "titler"}]

GateTypeOK ==
    /\ children \in Seq(Childs) /\ inbox \in Seq(Results) /\ messages \in Seq(Results)
    /\ work \in Seq(Circumstances)
    /\ at \in {"off", "start", "drop", "consume", "rename"}
    /\ spoke \in BOOLEAN /\ drained \in BOOLEAN /\ failed \in BOOLEAN
    /\ discarded \subseteq Refs /\ approved \subseteq Refs /\ transferred \subseteq Refs
    /\ conflicted \subseteq Nat /\ refused \subseteq {"worker", "verifier", "titler"} \X Refs
    /\ title \in Says /\ spoken \in Nat /\ touches \in Nat /\ deaths \in Nat

-----------------------------------------------------------------------------
(* The inductive invariant.                                                *)

\* A ref in the history of a child: a return of its own, or, of a verifier,
\* of the child it was forked to judge.
InLineOf(c, ref) ==
    /\ ref[1] \in DOMAIN children /\ ref[2] \in 1..children[ref[1]].n
    /\ ref[1] = c \/ (children[c].role = "verifier" /\ ref[1] = children[c].about[1])
LineInv == \A c \in DOMAIN children : \A ref \in children[c].line : InLineOf(c, ref)

\* A result is of a child that returned, and has of the history of others all
\* that the child still has.
Sent(r) ==
    /\ r.from \in DOMAIN children /\ r.n \in 1..children[r.from].n
    /\ \A ref \in r.line : InLineOf(r.from, ref)
    /\ \A ref \in children[r.from].line : ref[1] # r.from => ref \in r.line
\* An approving verdict approves of the history its verifier began with.
Approves(r) ==
    Role(r) = "verifier" /\ Met(r) => \A ref \in r.line : ref[1] # r.from => ref \in approved
Sound(r) == Sent(r) /\ Approves(r)

ResultInv ==
    /\ \A i \in DOMAIN inbox : Sound(inbox[i])
    /\ \A i, j \in DOMAIN inbox : Ref(inbox[i]) = Ref(inbox[j]) => i = j
    /\ \A i \in DOMAIN messages : messages[i].from \in DOMAIN children

\* A circumstance: a verdict is a verifier's on a worker whose return is in
\* its history.
Judges(w) ==
    /\ w.gated.from \in DOMAIN children /\ Role(w.gated) = "worker"
    /\ Role(w.result) = "verifier" /\ Ref(w.gated) \in w.result.line
    /\ w.event = IF Met(w.result) THEN "verifier_approve" ELSE "verifier_reject"
\* The only return of a worker that is pending and in the history of a result
\* is the one that result is a verdict on.
Sees(w) ==
    \A i \in DOMAIN inbox :
        (/\ Role(inbox[i]) = "worker" /\ children[inbox[i].from].n = 1
         /\ Role(w.result) = "verifier" /\ Ref(inbox[i]) \in w.result.line)
            => w.gated = inbox[i]
WorkInv ==
    \A k \in DOMAIN work :
        /\ Sound(work[k].result)
        /\ IF Verdict(work[k]) THEN Judges(work[k]) ELSE work[k].event = Role(work[k].result)
        /\ Sees(work[k])

\* Where the driver is with a circumstance.
PlaceInv ==
    /\ at \in {"drop", "rename", "consume"} => work # <<>>
    /\ at = "drop" => Verdict(Current) /\ Redone(Ref(Current.gated))
    /\ at = "rename" => Action(Current) = "deliver"
    /\ at = "consume" =>
         IF Verdict(Current) THEN ~IsPending(Current.gated) ELSE Role(Current.result) = "titler"

\* A verifier that has the only return of a worker in its history, while that
\* is pending, is running or its verdict is pending.
JudgeInv ==
    \A i \in DOMAIN inbox, c \in DOMAIN children :
        (/\ Role(inbox[i]) = "worker" /\ children[inbox[i].from].n = 1
         /\ children[c].role = "verifier" /\ Ref(inbox[i]) \in children[c].line)
            => children[c].live \/ \E j \in DOMAIN inbox : inbox[j].from = c

RedoneInv == \A ref \in discarded : Redone(ref)

GateInv ==
    /\ LineInv /\ ResultInv /\ WorkInv /\ PlaceInv /\ JudgeInv /\ RedoneInv
    /\ NothingUnapproved

-----------------------------------------------------------------------------
(* The operators on sequences.                                             *)

LEMMA Least ==
  ASSUME NEW I, I \subseteq Nat, I # {}
  PROVE  Min(I) \in I /\ \A y \in I : Min(I) <= y
<1>1. PICK x \in I : \A y \in I : <<y, x>> \notin OpToRel(<, Nat)
  BY NatLessThanWellFounded, WFMin
<1>2. \A y \in I : ~(y < x)
  BY <1>1, Zenon DEF OpToRel
<1>3. \A y \in I : x <= y
  BY <1>2
<1> QED
  BY <1>3 DEF Min

\* Where what is left of a sequence was, when one place is taken from it.
LEMMA Shifted ==
  ASSUME NEW S, NEW s \in Seq(S), NEW i \in DOMAIN s
  PROVE  /\ RemoveAt(s, i) \in Seq(S) /\ Len(RemoveAt(s, i)) = Len(s) - 1
         /\ \A k \in DOMAIN RemoveAt(s, i) :
              RemoveAt(s, i)[k] = s[IF k < i THEN k ELSE k + 1]
<1> DEFINE a == SubSeq(s, 1, i - 1)
           b == SubSeq(s, i + 1, Len(s))
<1>1. Len(s) \in Nat /\ DOMAIN s = 1..Len(s) /\ i \in 1..Len(s)
  OBVIOUS
<1>2. /\ a \in Seq(S) /\ Len(a) = i - 1
      /\ \A k \in 1..(i - 1) : a[k] = s[k]
  BY <1>1
<1>3. /\ b \in Seq(S) /\ Len(b) = Len(s) - i
      /\ \A k \in 1..(Len(s) - i) : b[k] = s[i + k]
  BY <1>1
<1>4. RemoveAt(s, i) = a \o b
  BY DEF RemoveAt
<1> HIDE DEF a, b
<1>5. RemoveAt(s, i) \in Seq(S) /\ Len(RemoveAt(s, i)) = Len(s) - 1
  <2>1. a \o b \in Seq(S) /\ Len(a \o b) = Len(a) + Len(b)
    BY <1>2, <1>3, ConcatProperties
  <2> QED
    BY <1>1, <1>2, <1>3, <1>4, <2>1
<1>6. ASSUME NEW k \in DOMAIN RemoveAt(s, i)
      PROVE  RemoveAt(s, i)[k] = s[IF k < i THEN k ELSE k + 1]
  <2>1. k \in 1..(Len(s) - 1)
    BY <1>5
  <2>2. CASE k < i
    BY <1>1, <1>2, <1>3, <1>4, <2>1, <2>2
  <2>3. CASE ~(k < i)
    <3>1. RemoveAt(s, i)[k] = b[k - (i - 1)]
      BY <1>1, <1>2, <1>3, <1>4, <2>1, <2>3
    <3>2. k - (i - 1) \in 1..(Len(s) - i) /\ i + (k - (i - 1)) = k + 1
      BY <1>1, <2>1, <2>3
    <3> QED
      BY <1>3, <2>3, <3>1, <3>2
  <2> QED
    BY <2>2, <2>3
<1> QED
  BY <1>5, <1>6

\* What is left of a sequence from which one place is taken.
LEMMA TakenOut ==
  ASSUME NEW S, NEW s \in Seq(S), NEW i \in DOMAIN s
  PROVE  /\ RemoveAt(s, i) \in Seq(S)
         /\ \A k \in DOMAIN RemoveAt(s, i) :
              \E j \in DOMAIN s : j # i /\ RemoveAt(s, i)[k] = s[j]
         /\ \A j \in DOMAIN s : j # i =>
              \E k \in DOMAIN RemoveAt(s, i) : RemoveAt(s, i)[k] = s[j]
<1> DEFINE t == RemoveAt(s, i)
<1>1. /\ t \in Seq(S) /\ Len(t) = Len(s) - 1
      /\ \A k \in DOMAIN t : t[k] = s[IF k < i THEN k ELSE k + 1]
  BY Shifted
<1>2. /\ DOMAIN s = 1..Len(s) /\ Len(s) \in Nat /\ i \in 1..Len(s)
      /\ DOMAIN t = 1..(Len(s) - 1)
  BY <1>1
<1> HIDE DEF t
<1>3. ASSUME NEW k \in DOMAIN t
      PROVE  \E j \in DOMAIN s : j # i /\ t[k] = s[j]
  <2>1. CASE k < i
    BY <1>1, <1>2, <2>1
  <2>2. CASE ~(k < i)
    <3>1. k + 1 \in DOMAIN s /\ k + 1 # i /\ t[k] = s[k + 1]
      BY <1>1, <1>2, <2>2
    <3> QED
      BY <3>1
  <2> QED
    BY <2>1, <2>2
<1>4. ASSUME NEW j \in DOMAIN s, j # i
      PROVE  \E k \in DOMAIN t : t[k] = s[j]
  <2>1. CASE j < i
    BY <1>1, <1>2, <2>1
  <2>2. CASE i < j
    <3>1. j - 1 \in DOMAIN t /\ t[j - 1] = s[j]
      BY <1>1, <1>2, <2>2
    <3> QED
      BY <3>1
  <2> QED
    BY <1>2, <1>4, <2>1, <2>2
<1> QED
  BY <1>1, <1>3, <1>4 DEF t

\* Nothing is at two places of what is left that was not before.
LEMMA TakenApart ==
  ASSUME NEW S, NEW s \in Seq(S), NEW i \in DOMAIN s, NEW f,
         \A j, k \in DOMAIN s : f[s[j]] = f[s[k]] => j = k
  PROVE  \A j, k \in DOMAIN RemoveAt(s, i) :
           f[RemoveAt(s, i)[j]] = f[RemoveAt(s, i)[k]] => j = k
<1> DEFINE t == RemoveAt(s, i)
<1>1. /\ t \in Seq(S) /\ Len(t) = Len(s) - 1
      /\ \A k \in DOMAIN t : t[k] = s[IF k < i THEN k ELSE k + 1]
  BY Shifted
<1> HIDE DEF t
<1>2. ASSUME NEW j \in DOMAIN t, NEW k \in DOMAIN t, f[t[j]] = f[t[k]]
      PROVE  j = k
  <2> DEFINE up(m) == IF m < i THEN m ELSE m + 1
  <2>1. up(j) \in DOMAIN s /\ up(k) \in DOMAIN s /\ t[j] = s[up(j)] /\ t[k] = s[up(k)]
    BY <1>1
  <2>2. up(j) = up(k)
    BY <1>2, <2>1
  <2> QED
    BY <1>1, <2>2
<1> QED
  BY <1>2 DEF t

-----------------------------------------------------------------------------
(* The operators on the state.                                             *)

\* What the parts of the state are.
LEMMA Shapes ==
  ASSUME GateTypeOK
  PROVE  /\ Len(children) \in Nat /\ DOMAIN children = 1..Len(children)
         /\ Len(inbox) \in Nat /\ DOMAIN inbox = 1..Len(inbox)
         /\ Len(work) \in Nat /\ DOMAIN work = 1..Len(work)
         /\ \A c \in DOMAIN children : children[c] \in Childs
         /\ \A i \in DOMAIN inbox : inbox[i] \in Results
         /\ \A k \in DOMAIN work : work[k] \in Circumstances
  BY DEF GateTypeOK

LEMMA PendingIsSomewhere ==
  ASSUME GateTypeOK, NEW r
  PROVE  IsPending(r) <=> \E i \in DOMAIN inbox : inbox[i] = r
  BY Shapes DEF IsPending, ToSet

\* Where the driver is in its circumstances: at a verdict if there is one.
LEMMA TurnIsAPlace ==
  ASSUME GateTypeOK, work # <<>>
  PROVE  /\ Turn \in DOMAIN work
         /\ Current \in Circumstances
         /\ ~Verdict(Current) => \A k \in DOMAIN work : ~Verdict(work[k])
<1> DEFINE verdicts == {k \in 1..Len(work) : Verdict(work[k])}
<1>1. Len(work) \in Nat \ {0} /\ DOMAIN work = 1..Len(work)
  BY DEF GateTypeOK
<1>2. CASE \E k \in DOMAIN work : Verdict(work[k])
  <2>1. verdicts # {} /\ verdicts \subseteq Nat
    BY <1>1, <1>2
  <2>2. Turn = Min(verdicts)
    BY <1>2, <2>1 DEF Turn, SelectInSeq
  <2>3. Turn \in verdicts
    BY <2>1, <2>2, Least
  <2> QED
    BY <1>1, <2>3, Shapes DEF Current
<1>3. CASE ~\E k \in DOMAIN work : Verdict(work[k])
  <2>1. Turn = 1
    BY <1>3 DEF Turn
  <2> QED
    BY <1>1, <1>3, <2>1, Shapes DEF Current
<1> QED
  BY <1>2, <1>3

\* gated_index: a pending result of another child's in the history, if any.
LEMMA GatesOne ==
  ASSUME GateTypeOK, NEW cr
  PROVE  \/ /\ Gates(cr) = NoResult
            /\ \A i \in DOMAIN inbox : inbox[i].from # cr.from => Ref(inbox[i]) \notin cr.line
         \/ \E i \in DOMAIN inbox :
              Gates(cr) = inbox[i] /\ inbox[i].from # cr.from /\ Ref(inbox[i]) \in cr.line
<1> DEFINE held == {i \in 1..Len(inbox) : inbox[i].from # cr.from /\ IsAncestor(Ref(inbox[i]), cr.line)}
<1>1. Len(inbox) \in Nat /\ DOMAIN inbox = 1..Len(inbox)
  BY Shapes
<1>2. CASE held = {}
  <2>1. Gates(cr) = NoResult
    BY <1>2 DEF Gates, SelectInSeq
  <2> QED
    BY <1>1, <1>2, <2>1 DEF IsAncestor
<1>3. CASE held # {}
  <2>1. Min(held) \in held
    <3>1. held \subseteq Nat /\ held # {}
      BY <1>1, <1>3
    <3> QED
      BY <3>1, Least
  <2>2. Min(held) \in 1..Len(inbox) /\ Min(held) # 0
    BY <1>1, <2>1
  <2>3. Gates(cr) = inbox[Min(held)]
    BY <1>3, <2>2 DEF Gates, SelectInSeq
  <2> QED
    BY <1>1, <2>1, <2>3 DEF IsAncestor
<1> QED
  BY <1>2, <1>3

\* A result is no longer NoResult.
LEMMA ResultIsSome ==
  NoResult \notin Results
  BY DEF NoResult, Results

\* consume: the inbox without one of its files.
LEMMA InboxWithout ==
  ASSUME GateTypeOK, NEW r,
         \A i, j \in DOMAIN inbox : Ref(inbox[i]) = Ref(inbox[j]) => i = j
  PROVE  /\ Without(r) \in Seq(Results)
         /\ \A k \in DOMAIN Without(r) :
              \E j \in DOMAIN inbox : inbox[j] # r /\ Without(r)[k] = inbox[j]
         /\ \A j \in DOMAIN inbox : inbox[j] # r =>
              \E k \in DOMAIN Without(r) : Without(r)[k] = inbox[j]
         /\ \A i, j \in DOMAIN Without(r) :
              Ref(Without(r)[i]) = Ref(Without(r)[j]) => i = j
<1> DEFINE places == {k \in 1..Len(inbox) : inbox[k] = r}
<1>1. /\ inbox \in Seq(Results) /\ Len(inbox) \in Nat /\ DOMAIN inbox = 1..Len(inbox)
      /\ \A k \in DOMAIN inbox : inbox[k] \in Results
  BY Shapes DEF GateTypeOK
<1>2. CASE ~\E k \in 1..Len(inbox) : inbox[k] = r
  <2>1. Without(r) = inbox
    BY <1>2 DEF Without, RemoveFirst
  <2> QED
    BY <1>1, <1>2, <2>1
<1>3. CASE \E k \in 1..Len(inbox) : inbox[k] = r
  <2>1. Min(places) \in places
    <3>1. places \subseteq Nat /\ places # {}
      BY <1>1, <1>3
    <3> QED
      BY <3>1, Least
  <2> DEFINE p == Min(places)
             f == [s \in Results |-> Ref(s)]
  <2>2. p \in DOMAIN inbox /\ inbox[p] = r /\ Without(r) = RemoveAt(inbox, p)
    <3>1. SelectInSeq(inbox, LAMBDA v : v = r) = p
      BY <1>3 DEF SelectInSeq
    <3> QED
      BY <1>1, <1>3, <2>1, <3>1 DEF Without, RemoveFirst
  <2> HIDE DEF p
  <2>3. \A j \in DOMAIN inbox : j # p => inbox[j] # r
    BY <2>2
  <2>4. \A j, k \in DOMAIN inbox : f[inbox[j]] = f[inbox[k]] => j = k
    BY <1>1
  <2>5. \A s \in Results : f[s] = Ref(s)
    OBVIOUS
  <2> HIDE DEF f
  <2>6. /\ Without(r) \in Seq(Results)
        /\ \A k \in DOMAIN Without(r) :
              \E j \in DOMAIN inbox : j # p /\ Without(r)[k] = inbox[j]
        /\ \A j \in DOMAIN inbox : j # p =>
              \E k \in DOMAIN Without(r) : Without(r)[k] = inbox[j]
    <3>1. inbox \in Seq(Results) /\ p \in DOMAIN inbox
      BY <1>1, <2>2
    <3>2. /\ RemoveAt(inbox, p) \in Seq(Results)
          /\ \A k \in DOMAIN RemoveAt(inbox, p) :
               \E j \in DOMAIN inbox : j # p /\ RemoveAt(inbox, p)[k] = inbox[j]
          /\ \A j \in DOMAIN inbox : j # p =>
               \E k \in DOMAIN RemoveAt(inbox, p) : RemoveAt(inbox, p)[k] = inbox[j]
      BY <3>1, TakenOut, Zenon
    <3>3. Without(r) = RemoveAt(inbox, p)
      BY <2>2
    <3> QED
      BY <3>2, <3>3
  <2>7. \A i, j \in DOMAIN Without(r) : f[Without(r)[i]] = f[Without(r)[j]] => i = j
    BY <1>1, <2>2, <2>4, TakenApart
  <2>8. \A i \in DOMAIN Without(r) : Without(r)[i] \in Results
    BY <1>1, <2>6
  <2> QED
    BY <2>2, <2>3, <2>5, <2>6, <2>7, <2>8
<1> QED
  BY <1>2, <1>3

-----------------------------------------------------------------------------
(* What every step keeps, and what then stays true.                        *)

\* A child keeps its role and what it was forked for, its returns count up,
\* and of other children's returns nothing enters its history; a new child
\* runs; an approval stays, and so does a refusal.
Kept ==
    /\ \A c \in DOMAIN children :
         /\ c \in DOMAIN children'
         /\ children'[c].role = children[c].role /\ children'[c].about = children[c].about
         /\ children[c].n <= children'[c].n
         /\ \A ref \in children'[c].line : ref \in children[c].line \/ ref[1] = c
    /\ \A c \in DOMAIN children' \ DOMAIN children : children'[c].live
    /\ approved \subseteq approved' /\ refused \subseteq refused'

\* A result comes with the number after its child's last.
Arrives(r) == r.from \in DOMAIN children /\ r.n = children[r.from].n + 1
Comes ==
    \A i \in DOMAIN inbox' : (\E j \in DOMAIN inbox : inbox'[i] = inbox[j]) \/ Arrives(inbox'[i])
\* The driver takes up no circumstance it did not have.
GoesOn == \A k \in DOMAIN work' : \E j \in DOMAIN work : work'[k] = work[j]

LEMMA ShapesNext ==
  ASSUME GateTypeOK'
  PROVE  /\ Len(children') \in Nat /\ DOMAIN children' = 1..Len(children')
         /\ \A c \in DOMAIN children' : children'[c] \in Childs
         /\ \A i \in DOMAIN inbox' : inbox'[i] \in Results
         /\ \A k \in DOMAIN work' : work'[k] \in Circumstances
  BY DEF GateTypeOK

LEMMA LineKept ==
  ASSUME GateTypeOK, GateTypeOK', Kept, NEW c \in DOMAIN children, NEW ref, InLineOf(c, ref)
  PROVE  InLineOf(c, ref)'
<1>1. ref[1] \in DOMAIN children /\ ref[1] \in DOMAIN children'
  BY DEF InLineOf, Kept
<1>2. children[ref[1]].n \in Nat /\ children'[ref[1]].n \in Nat
  BY <1>1, Shapes, ShapesNext DEF Childs
<1>3. children[ref[1]].n <= children'[ref[1]].n
  BY <1>1 DEF Kept
<1>4. ref[2] \in 1..children'[ref[1]].n
  BY <1>2, <1>3 DEF InLineOf
<1> QED
  BY <1>1, <1>4 DEF InLineOf, Kept

LEMMA SoundKept ==
  ASSUME GateTypeOK, GateTypeOK', Kept, NEW r \in Results, Sound(r)
  PROVE  Sound(r)'
<1>1. r.from \in DOMAIN children /\ r.from \in DOMAIN children'
  BY DEF Sound, Sent, Kept
<1>2. r.n \in 1..children'[r.from].n
  <2>1. children[r.from].n \in Nat /\ children'[r.from].n \in Nat
    BY <1>1, Shapes, ShapesNext DEF Childs
  <2> QED
    BY <1>1, <2>1 DEF Sound, Sent, Kept
<1>3. \A ref \in r.line : InLineOf(r.from, ref)'
  BY <1>1, LineKept DEF Sound, Sent
<1>4. \A ref \in children'[r.from].line : ref[1] # r.from => ref \in r.line
  BY <1>1 DEF Sound, Sent, Kept
<1>5. Approves(r)'
  BY <1>1 DEF Sound, Approves, Role, Met, Kept
<1> QED
  BY <1>1, <1>2, <1>3, <1>4, <1>5 DEF Sound, Sent

LEMMA RedoneKept ==
  ASSUME Kept, NEW ref, Redone(ref)
  PROVE  Redone(ref)'
  BY DEF Redone, Kept

\* Whose return a pending one is of, and that it was its only one.
LEMMA WasThere ==
  ASSUME GateTypeOK, GateTypeOK', Kept, Comes, ResultInv,
         NEW i \in DOMAIN inbox',
         Role(inbox[i])' = "worker", (children[inbox[i].from].n)' = 1,
         ~Arrives(inbox'[i])
  PROVE  \E j \in DOMAIN inbox :
           /\ inbox'[i] = inbox[j] /\ Role(inbox[j]) = "worker"
           /\ children[inbox[j].from].n = 1
<1>1. PICK j \in DOMAIN inbox : inbox'[i] = inbox[j]
  BY DEF Comes
<1>2. inbox[j].from \in DOMAIN children /\ inbox[j].n \in 1..children[inbox[j].from].n
  BY DEF ResultInv, Sound, Sent
<1>3. children[inbox[j].from].n \in Nat /\ children[inbox[j].from].n <= 1
  BY <1>1, <1>2, Shapes DEF Kept, Childs
<1>4. children[inbox[j].from].n = 1
  BY <1>2, <1>3
<1> QED
  BY <1>1, <1>2, <1>4 DEF Role, Kept

\* A ref that has just come was in no history.
LEMMA NewToAll ==
  ASSUME GateTypeOK, NEW r, Arrives(r), NEW c \in DOMAIN children, NEW ref, InLineOf(c, ref)
  PROVE  Ref(r) # ref
<1>1. children[r.from].n \in Nat
  BY Shapes DEF Arrives, Childs
<1> QED
  BY <1>1 DEF Arrives, InLineOf, Ref

LEMMA SeesKept ==
  ASSUME GateTypeOK, GateTypeOK', Kept, Comes, ResultInv,
         NEW w \in Circumstances, Sound(w.result), Sees(w)
  PROVE  Sees(w)'
<1> SUFFICES ASSUME NEW i \in DOMAIN inbox',
                    Role(inbox[i])' = "worker", (children[inbox[i].from].n)' = 1,
                    Role(w.result)' = "verifier", Ref(inbox'[i]) \in w.result.line
             PROVE  w.gated = inbox'[i]
  BY DEF Sees, Ref
<1>1. w.result.from \in DOMAIN children /\ \A ref \in w.result.line : InLineOf(w.result.from, ref)
  BY DEF Sound, Sent
<1>2. ~Arrives(inbox'[i])
  BY <1>1, NewToAll
<1>3. PICK j \in DOMAIN inbox :
           /\ inbox'[i] = inbox[j] /\ Role(inbox[j]) = "worker"
           /\ children[inbox[j].from].n = 1
  BY <1>2, WasThere
<1>4. Role(w.result) = "verifier"
  BY <1>1 DEF Role, Kept
<1> QED
  BY <1>3, <1>4 DEF Sees

LEMMA JudgesKept ==
  ASSUME Kept, NEW w, w.result.from \in DOMAIN children, Judges(w)
  PROVE  Judges(w)'
  BY DEF Judges, Kept, Role, Ref, Met

LEMMA WorkKept ==
  ASSUME GateTypeOK, GateTypeOK', Kept, Comes, GoesOn, ResultInv, WorkInv
  PROVE  WorkInv'
<1> SUFFICES ASSUME NEW k \in DOMAIN work'
             PROVE  /\ Sound(work[k].result)'
                    /\ IF Verdict(work'[k]) THEN Judges(work[k])'
                       ELSE work'[k].event = Role(work[k].result)'
                    /\ Sees(work[k])'
  BY DEF WorkInv, Verdict
<1>1. PICK j \in DOMAIN work : work'[k] = work[j]
  BY DEF GoesOn
<1>2. PICK w : w = work[j]
  OBVIOUS
<1>3. /\ w \in Circumstances /\ w.result \in Results
      /\ Sound(w.result) /\ Sees(w)
      /\ IF Verdict(w) THEN Judges(w) ELSE w.event = Role(w.result)
  BY <1>2, Shapes DEF WorkInv, Circumstances
<1>4. w.result.from \in DOMAIN children
  BY <1>3 DEF Sound, Sent
<1>5. Sound(w.result)' /\ Sees(w)'
  BY <1>3, SoundKept, SeesKept
<1>6. IF Verdict(w) THEN Judges(w)' ELSE w.event = Role(w.result)'
  BY <1>3, <1>4, JudgesKept DEF Role, Kept
<1>7. work'[k] = w
  BY <1>1, <1>2
<1>8. Sound(work[k].result)' <=> Sound(w.result)'
  BY <1>7 DEF Sound, Sent, Approves, Role, InLineOf, Met
<1>9. (Sees(work[k])' <=> Sees(w)') /\ (Judges(work[k])' <=> Judges(w)')
  BY <1>7 DEF Sees, Judges, Role, Ref, Met
<1> QED
  BY <1>5, <1>6, <1>7, <1>8, <1>9 DEF Role

\* Of what is pending one result may go, of a verifier that nobody pending
\* waits for; and a child that stops running leaves a result.
LEMMA JudgeKept ==
  ASSUME GateTypeOK, GateTypeOK', Kept, Comes, LineInv, ResultInv, JudgeInv,
         \A c \in DOMAIN children : children[c].live =>
           children'[c].live \/ \E j \in DOMAIN inbox' : inbox'[j].from = c,
         NEW x,
         \A j \in DOMAIN inbox : inbox[j] # x => \E k \in DOMAIN inbox' : inbox'[k] = inbox[j],
         \A j \in DOMAIN inbox :
           (/\ inbox[j] # x /\ Role(inbox[j]) = "worker" /\ children[inbox[j].from].n = 1
            /\ \E i \in DOMAIN inbox : inbox[i] = x
            /\ children[x.from].role = "verifier")
              => Ref(inbox[j]) \notin children[x.from].line,
         \A i \in DOMAIN inbox' : inbox'[i] # x \/ inbox' = inbox
  PROVE  JudgeInv'
<1> SUFFICES ASSUME NEW i \in DOMAIN inbox', NEW c \in DOMAIN children',
                    Role(inbox[i])' = "worker", (children[inbox[i].from].n)' = 1,
                    children'[c].role = "verifier", Ref(inbox'[i]) \in children'[c].line,
                    ~children'[c].live
             PROVE  \E j \in DOMAIN inbox' : inbox'[j].from = c
  BY DEF JudgeInv, Ref
<1>1. c \in DOMAIN children
  BY DEF Kept
<1>2. children[c].role = "verifier"
  BY <1>1 DEF Kept
<1>3. inbox'[i].from # c /\ Ref(inbox'[i]) \in children[c].line
  <2>1. inbox'[i].from # c
    BY DEF Role
  <2>2. Ref(inbox'[i])[1] # c
    BY <2>1 DEF Ref
  <2> QED
    BY <1>1, <2>1, <2>2 DEF Kept
<1>4. ~Arrives(inbox'[i])
  BY <1>1, <1>3, NewToAll DEF LineInv
<1>5. PICK j \in DOMAIN inbox :
           /\ inbox'[i] = inbox[j] /\ Role(inbox[j]) = "worker"
           /\ children[inbox[j].from].n = 1
  BY <1>4, WasThere
<1>6. CASE children[c].live
  BY <1>1, <1>6
<1>7. CASE \E k \in DOMAIN inbox : inbox[k].from = c
  <2>1. PICK k \in DOMAIN inbox : inbox[k].from = c
    BY <1>7
  <2>2. CASE inbox' = inbox
    BY <2>1, <2>2
  <2>3. CASE inbox' # inbox
    <3>1. inbox[j] # x
      BY <1>5, <2>3
    <3>2. inbox[k] # x
      BY <1>2, <1>3, <1>5, <2>1, <3>1
    <3> QED
      BY <2>1, <3>2
  <2> QED
    BY <2>2, <2>3
<1>8. children[c].live \/ \E k \in DOMAIN inbox : inbox[k].from = c
  BY <1>1, <1>2, <1>3, <1>5 DEF JudgeInv
<1> QED
  BY <1>6, <1>7, <1>8

\* A worker's result is in the transcript only when it is approved, said of
\* each message.
LEMMA EachApproved ==
  ASSUME GateTypeOK
  PROVE  NothingUnapproved <=>
           \A i \in DOMAIN messages : Role(messages[i]) = "worker" => Ref(messages[i]) \in approved
<1>1. ToSet(messages) = {messages[i] : i \in DOMAIN messages}
  BY DEF ToSet
<1> QED
  BY <1>1 DEF NothingUnapproved, Delivered

-----------------------------------------------------------------------------
(* The parts of a step.                                                    *)

Roles == {"worker", "verifier", "titler"}

LEMMA OneMore ==
  ASSUME GateTypeOK, NEW role \in Roles, NEW line \in SUBSET Refs, NEW about \in Refs,
         children' = Forked(role, line, about)
  PROVE  /\ children' \in Seq(Childs)
         /\ DOMAIN children' = DOMAIN children \cup {Len(children) + 1}
         /\ \A c \in DOMAIN children : children'[c] = children[c]
         /\ children'[Len(children) + 1] =
              [role |-> role, line |-> line, about |-> about, live |-> TRUE, n |-> 0]
<1> DEFINE child == [role |-> role, line |-> line, about |-> about, live |-> TRUE, n |-> 0]
<1>1. child \in Childs
  BY DEF Childs, Roles
<1>2. children \in Seq(Childs) /\ children' = Append(children, child)
  BY DEF GateTypeOK, Forked
<1> HIDE DEF child
<1>3. /\ children' \in Seq(Childs)
      /\ Len(children') = Len(children) + 1
      /\ \A c \in 1..Len(children) : children'[c] = children[c]
      /\ children'[Len(children) + 1] = child
  BY <1>1, <1>2
<1> QED
  BY <1>2, <1>3, Shapes DEF child

\* A fork keeps everything, if the history it begins with is in order.
LEMMA ForkKept ==
  ASSUME GateTypeOK, LineInv, NEW role \in Roles, NEW line \in SUBSET Refs, NEW about \in Refs,
         children' = Forked(role, line, about) \/ children' = children,
         \A ref \in line :
           /\ ref[1] \in DOMAIN children /\ ref[2] \in 1..children[ref[1]].n
           /\ role = "verifier" /\ ref[1] = about[1],
         approved' = approved, refused \subseteq refused'
  PROVE  /\ children' \in Seq(Childs) /\ Kept /\ LineInv'
         /\ \A c \in DOMAIN children : children'[c] = children[c]
<1>1. CASE children' = children
  BY <1>1, Shapes DEF GateTypeOK, Kept, LineInv, InLineOf, Childs
<1>2. CASE children' = Forked(role, line, about)
  <2> DEFINE new == Len(children) + 1
  <2>1. /\ children' \in Seq(Childs)
        /\ DOMAIN children' = DOMAIN children \cup {new}
        /\ \A c \in DOMAIN children : children'[c] = children[c]
        /\ children'[new] = [role |-> role, line |-> line, about |-> about,
                             live |-> TRUE, n |-> 0]
    BY <1>2, OneMore
  <2>2. new \notin DOMAIN children
    BY Shapes
  <2> HIDE DEF new
  <2>3. Kept
    <3>1. \A c \in DOMAIN children : children[c].n <= children'[c].n
      BY <2>1, Shapes DEF Childs
    <3> QED
      BY <2>1, <3>1 DEF Kept
  <2>4. ASSUME NEW c \in DOMAIN children', NEW ref \in children'[c].line
        PROVE  InLineOf(c, ref)'
    <3>1. CASE c \in DOMAIN children
      <4>1. InLineOf(c, ref)
        BY <2>1, <2>4, <3>1 DEF LineInv
      <4> QED
        BY <2>1, <3>1, <4>1 DEF InLineOf
    <3>2. CASE c = new
      BY <2>1, <2>4, <3>2 DEF InLineOf
    <3> QED
      BY <2>1, <3>1, <3>2
  <2> QED
    BY <2>1, <2>3, <2>4 DEF LineInv
<1> QED
  BY <1>1, <1>2

\* Children who stand still.
LEMMA StillKept ==
  ASSUME GateTypeOK, children' = children, approved' = approved, refused' = refused
  PROVE  Kept
  BY Shapes DEF Kept, Childs

LEMMA DoneGoesOn ==
  ASSUME GateTypeOK, work # <<>>, Done
  PROVE  work' \in Seq(Circumstances) /\ at' = "start" /\ GoesOn
<1>1. PICK k : k = Turn
  OBVIOUS
<1>2. k \in DOMAIN work /\ work \in Seq(Circumstances)
  BY <1>1, TurnIsAPlace DEF GateTypeOK
<1>3. /\ RemoveAt(work, k) \in Seq(Circumstances)
      /\ \A i \in DOMAIN RemoveAt(work, k) :
           \E j \in DOMAIN work : j # k /\ RemoveAt(work, k)[i] = work[j]
  BY <1>2, TakenOut, Zenon
<1>4. work' = RemoveAt(work, k) /\ at' = "start"
  BY <1>1 DEF Done
<1> QED
  BY <1>3, <1>4 DEF GoesOn

\* What follows of the invariant when nothing but these has changed.
LEMMA Follows ==
  ASSUME GateTypeOK, GateInv, GateTypeOK', Kept, Comes, GoesOn
  PROVE  /\ WorkInv'
         /\ discarded' = discarded => RedoneInv'
         /\ messages' = messages =>
              /\ NothingUnapproved'
              /\ (\A i \in DOMAIN messages : messages[i].from \in DOMAIN children)'
         /\ inbox' = inbox =>
              /\ \A i \in DOMAIN inbox' : Sound(inbox[i])'
              /\ \A i, j \in DOMAIN inbox' : Ref(inbox'[i]) = Ref(inbox'[j]) => i = j
<1>1. WorkInv'
  BY WorkKept DEF GateInv
<1>2. ASSUME discarded' = discarded
      PROVE  RedoneInv'
  BY <1>2, RedoneKept DEF GateInv, RedoneInv
<1>3. ASSUME messages' = messages
      PROVE  /\ NothingUnapproved'
             /\ (\A i \in DOMAIN messages : messages[i].from \in DOMAIN children)'
  <2>1. \A i \in DOMAIN messages : messages[i].from \in DOMAIN children
    BY DEF GateInv, ResultInv
  <2>2. \A i \in DOMAIN messages : Role(messages[i]) = "worker" => Ref(messages[i]) \in approved
    BY EachApproved DEF GateInv
  <2>3. (\A i \in DOMAIN messages : Role(messages[i]) = "worker" => Ref(messages[i]) \in approved)'
    BY <1>3, <2>1, <2>2 DEF Role, Ref, Kept
  <2>4. ToSet(messages') = {messages'[i] : i \in DOMAIN messages'}
    BY DEF ToSet
  <2>5. NothingUnapproved'
    BY <2>3, <2>4 DEF NothingUnapproved, Delivered
  <2> QED
    BY <1>3, <2>1, <2>5 DEF Kept
<1>4. ASSUME inbox' = inbox
      PROVE  /\ \A i \in DOMAIN inbox' : Sound(inbox[i])'
             /\ \A i, j \in DOMAIN inbox' : Ref(inbox'[i]) = Ref(inbox'[j]) => i = j
  <2>1. ASSUME NEW i \in DOMAIN inbox
        PROVE  Sound(inbox[i])'
    <3>1. PICK r : r = inbox[i]
      OBVIOUS
    <3>2. Sound(r)'
      BY <3>1, SoundKept, Shapes DEF GateInv, ResultInv
    <3> QED
      BY <1>4, <3>1, <3>2 DEF Sound, Sent, Approves, Role, InLineOf, Met
  <2>2. \A i, j \in DOMAIN inbox : Ref(inbox[i]) = Ref(inbox[j]) => i = j
    BY DEF GateInv, ResultInv
  <2> QED
    BY <1>4, <2>1, <2>2 DEF Ref
<1> QED
  BY <1>1, <1>2, <1>3, <1>4

\* What follows when one file leaves the inbox.
LEMMA FollowsLess ==
  ASSUME GateTypeOK, GateInv, GateTypeOK', Kept, NEW x, inbox' = Without(x)
  PROVE  /\ Comes
         /\ \A i \in DOMAIN inbox' : Sound(inbox[i])'
         /\ \A i, j \in DOMAIN inbox' : Ref(inbox'[i]) = Ref(inbox'[j]) => i = j
         /\ \A j \in DOMAIN inbox : inbox[j] # x => \E k \in DOMAIN inbox' : inbox'[k] = inbox[j]
         /\ \A i \in DOMAIN inbox' : inbox'[i] # x
<1>1. \A i, j \in DOMAIN inbox : Ref(inbox[i]) = Ref(inbox[j]) => i = j
  BY DEF GateInv, ResultInv
<1>2. PICK t : t = Without(x)
  OBVIOUS
<1>3. /\ \A k \in DOMAIN t : \E j \in DOMAIN inbox : inbox[j] # x /\ t[k] = inbox[j]
      /\ \A j \in DOMAIN inbox : inbox[j] # x => \E k \in DOMAIN t : t[k] = inbox[j]
      /\ \A i, j \in DOMAIN t : Ref(t[i]) = Ref(t[j]) => i = j
  BY <1>1, <1>2, InboxWithout
<1>4. inbox' = t
  BY <1>2
<1>5. ASSUME NEW i \in DOMAIN inbox'
      PROVE  Sound(inbox[i])'
  <2>1. PICK j \in DOMAIN inbox : t[i] = inbox[j]
    BY <1>3, <1>4
  <2>2. PICK r : r = inbox[j]
    OBVIOUS
  <2>3. Sound(r)'
    BY <2>2, SoundKept, Shapes DEF GateInv, ResultInv
  <2> QED
    BY <1>4, <2>1, <2>2, <2>3 DEF Sound, Sent, Approves, Role, InLineOf, Met
<1> QED
  BY <1>3, <1>4, <1>5 DEF Comes

-----------------------------------------------------------------------------
(* The children, the operator and the death of the driver.                 *)

LEMMA PlaceKept ==
  ASSUME GateTypeOK, GateInv, GateTypeOK', Kept, Comes, work' = work, at' = at
  PROVE  PlaceInv'
<1>1. Turn' = Turn /\ Current' = Current
  BY DEF Turn, Current
<1>2. PICK w : w = Current
  OBVIOUS
<1>3. w = Current'
  BY <1>1, <1>2
<1>4. at = "drop" => Redone(Ref(w.gated))'
  BY <1>2, RedoneKept DEF GateInv, PlaceInv
<1>5. ASSUME at = "consume", Verdict(w)
      PROVE  ~IsPending(w.gated)'
  <2>1. w.gated.from \in DOMAIN children /\ w.gated.n <= children[w.gated.from].n
        /\ w.gated.n \in Nat /\ children[w.gated.from].n \in Nat
    <3>1. work # <<>>
      BY <1>5 DEF GateInv, PlaceInv
    <3>2. w \in Circumstances /\ Judges(w) /\ Sound(w.result)
      BY <1>2, <1>5, <3>1, TurnIsAPlace DEF GateInv, WorkInv, Current
    <3>3. w.gated \in Results
      BY <1>5, <3>2 DEF Circumstances, Verdict
    <3>4. InLineOf(w.result.from, Ref(w.gated))
      BY <3>2 DEF Judges, Sound, Sent
    <3>5. w.gated.from \in DOMAIN children /\ w.gated.n \in 1..children[w.gated.from].n
      BY <3>4 DEF InLineOf, Ref
    <3>6. children[w.gated.from].n \in Nat
      BY <3>5, Shapes DEF Childs
    <3> QED
      BY <3>3, <3>5, <3>6 DEF Results
  <2>2. ~Arrives(w.gated)
    BY <2>1 DEF Arrives
  <2>3. \A j \in DOMAIN inbox : inbox[j] # w.gated
    BY <1>2, <1>5, PendingIsSomewhere DEF GateInv, PlaceInv
  <2>4. \A i \in DOMAIN inbox' : inbox'[i] # w.gated
    BY <2>2, <2>3 DEF Comes
  <2>5. IsPending(w.gated)' <=> w.gated \in {inbox'[i] : i \in DOMAIN inbox'}
    BY DEF IsPending, ToSet
  <2> QED
    BY <2>4, <2>5
<1>6. ASSUME at = "consume", ~Verdict(w)
      PROVE  Role(w.result)' = "titler"
  <2>1. work # <<>>
    BY <1>6 DEF GateInv, PlaceInv
  <2>2. Sound(w.result)
    BY <1>2, <2>1, TurnIsAPlace DEF GateInv, WorkInv, Current
  <2>3. Role(w.result) = "titler"
    BY <1>2, <1>6 DEF GateInv, PlaceInv
  <2> QED
    BY <2>2, <2>3 DEF Role, Kept, Sound, Sent
<1>7. at = "rename" => Action(w) = "deliver"
  BY <1>2 DEF GateInv, PlaceInv
<1>8. at = "drop" => Verdict(w)
  BY <1>2 DEF GateInv, PlaceInv
<1>9. at \in {"drop", "rename", "consume"} => work # <<>>
  BY DEF GateInv, PlaceInv
<1>10. /\ at' = "drop" => Verdict(w) /\ Redone(Ref(w.gated))'
       /\ at' = "rename" => Action(w) = "deliver"
       /\ at' = "consume" => IF Verdict(w) THEN ~IsPending(w.gated)' ELSE Role(w.result)' = "titler"
  BY <1>4, <1>5, <1>6, <1>7, <1>8
<1>11. (Redone(Ref(Current.gated))' <=> Redone(Ref(w.gated))')
       /\ (IsPending(Current.gated)' <=> IsPending(w.gated)')
       /\ Role(Current.result)' = Role(w.result)'
  BY <1>3 DEF Redone, IsPending, Role, Ref
<1> QED
  BY <1>3, <1>9, <1>10, <1>11 DEF PlaceInv

\* A step outside the drive, or before it.
LEMMA WorldStep ==
  ASSUME GateTypeOK, GateInv, GateTypeOK', Kept, Comes,
         work' = work, at' = at, discarded' = discarded, messages' = messages,
         LineInv',
         \A i \in DOMAIN inbox' : Sound(inbox[i])',
         \A i, j \in DOMAIN inbox' : Ref(inbox'[i]) = Ref(inbox'[j]) => i = j,
         \A j \in DOMAIN inbox : \E k \in DOMAIN inbox' : inbox'[k] = inbox[j],
         \A c \in DOMAIN children : children[c].live =>
           children'[c].live \/ \E j \in DOMAIN inbox' : inbox'[j].from = c
  PROVE  GateInv'
<1>1. GoesOn
  BY DEF GoesOn
<1>2. WorkInv' /\ RedoneInv' /\ NothingUnapproved' /\ ResultInv'
  BY <1>1, Follows DEF ResultInv
<1>3. PlaceInv'
  BY PlaceKept
<1>4. JudgeInv'
  <2>1. /\ \A j \in DOMAIN inbox : inbox[j] # NoResult
        /\ \A i \in DOMAIN inbox' : inbox'[i] # NoResult
    BY Shapes, ShapesNext, ResultIsSome
  <2> QED
    BY <2>1, JudgeKept DEF GateInv
<1> QED
  BY <1>2, <1>3, <1>4 DEF GateInv

\* The same, when the inbox stands still and nobody stops.
LEMMA WorldStill ==
  ASSUME GateTypeOK, GateInv, GateTypeOK', Kept, inbox' = inbox,
         work' = work, at' = at, discarded' = discarded, messages' = messages,
         LineInv',
         \A c \in DOMAIN children : children[c].live => children'[c].live
  PROVE  GateInv'
<1>1. Comes /\ GoesOn
  BY DEF Comes, GoesOn
<1>2. /\ \A i \in DOMAIN inbox' : Sound(inbox[i])'
      /\ \A i, j \in DOMAIN inbox' : Ref(inbox'[i]) = Ref(inbox'[j]) => i = j
  BY <1>1, Follows
<1> QED
  BY <1>1, <1>2, WorldStep

LEMMA DispatchStep ==
  ASSUME GateTypeOK, GateInv, NEW role \in ByHand, Dispatch(role)
  PROVE  GateTypeOK' /\ GateInv'
<1>1. role \in Roles /\ NoRef \in Refs /\ {} \in SUBSET Refs
  BY ByHandAssumption DEF Roles, NoRef, Refs
<1>2. /\ children' = Forked(role, {}, NoRef)
      /\ UNCHANGED <<inbox, spoke, work, at, drained, failed, messages, discarded, approved,
                     refused, transferred, conflicted, title, spoken, touches, deaths>>
  BY DEF Dispatch, driver, ends, tree, bounds
<1>3. /\ children' \in Seq(Childs) /\ Kept /\ LineInv'
      /\ \A c \in DOMAIN children : children'[c] = children[c]
  BY <1>1, <1>2, ForkKept DEF GateInv
<1>4. GateTypeOK'
  BY <1>2, <1>3 DEF GateTypeOK
<1> QED
  BY <1>2, <1>3, <1>4, WorldStill

LEMMA SpeakStep ==
  ASSUME GateTypeOK, GateInv, Speak
  PROVE  GateTypeOK' /\ GateInv'
<1>1. /\ spoken' = spoken + 1 /\ spoke' = TRUE
      /\ UNCHANGED <<children, inbox, work, at, drained, failed, messages, discarded, approved,
                     refused, transferred, conflicted, title, touches, deaths>>
  BY DEF Speak, driver, ends, tree
<1>2. GateTypeOK'
  BY <1>1 DEF GateTypeOK
<1>3. Kept /\ LineInv'
  BY <1>1, StillKept DEF GateInv, LineInv, InLineOf
<1> QED
  BY <1>1, <1>2, <1>3, WorldStill

LEMMA ReviveStep ==
  ASSUME GateTypeOK, GateInv, NEW c \in DOMAIN children, Revive(c)
  PROVE  GateTypeOK' /\ GateInv'
<1>1. /\ touches' = touches + 1 /\ children' = [children EXCEPT ![c].live = TRUE]
      /\ UNCHANGED <<inbox, spoke, work, at, drained, failed, messages, discarded, approved,
                     refused, transferred, conflicted, title, spoken, deaths>>
  BY DEF Revive, Touch, driver, ends, tree
<1>2. /\ children' \in Seq(Childs) /\ DOMAIN children' = DOMAIN children
      /\ \A d \in DOMAIN children :
           children'[d] = IF d = c THEN [children[c] EXCEPT !.live = TRUE] ELSE children[d]
  <2>1. children \in Seq(Childs) /\ [children[c] EXCEPT !.live = TRUE] \in Childs
    BY Shapes DEF GateTypeOK, Childs
  <2>2. PICK new : new = [children[c] EXCEPT !.live = TRUE]
    OBVIOUS
  <2>3. children' = [children EXCEPT ![c] = new] /\ new \in Childs
    BY <1>1, <2>1, <2>2
  <2> QED
    BY <2>1, <2>2, <2>3, Shapes
<1>3. GateTypeOK'
  BY <1>1, <1>2 DEF GateTypeOK
<1>4. \A d \in DOMAIN children :
        /\ children'[d].role = children[d].role /\ children'[d].about = children[d].about
        /\ children'[d].n = children[d].n /\ children'[d].line = children[d].line
        /\ children[d].n \in Nat
        /\ children[d].live => children'[d].live
  BY <1>2, Shapes DEF Childs
<1>5. Kept /\ LineInv'
  BY <1>1, <1>2, <1>4 DEF Kept, GateInv, LineInv, InLineOf
<1> QED
  BY <1>1, <1>3, <1>4, <1>5, WorldStill

LEMMA RetargetStep ==
  ASSUME GateTypeOK, GateInv, NEW c \in DOMAIN children, Retarget(c)
  PROVE  GateTypeOK' /\ GateInv'
<1>1. /\ touches' = touches + 1 /\ children' = [children EXCEPT ![c].line = {}]
      /\ UNCHANGED <<inbox, spoke, work, at, drained, failed, messages, discarded, approved,
                     refused, transferred, conflicted, title, spoken, deaths>>
  BY DEF Retarget, Touch, driver, ends, tree
<1>2. /\ children' \in Seq(Childs) /\ DOMAIN children' = DOMAIN children
      /\ \A d \in DOMAIN children :
           children'[d] = IF d = c THEN [children[c] EXCEPT !.line = {}] ELSE children[d]
  <2>1. children \in Seq(Childs) /\ [children[c] EXCEPT !.line = {}] \in Childs
    BY Shapes DEF GateTypeOK, Childs
  <2>2. PICK new : new = [children[c] EXCEPT !.line = {}]
    OBVIOUS
  <2>3. children' = [children EXCEPT ![c] = new] /\ new \in Childs
    BY <1>1, <2>1, <2>2
  <2> QED
    BY <2>1, <2>2, <2>3, Shapes
<1>3. GateTypeOK'
  BY <1>1, <1>2 DEF GateTypeOK
<1>4. \A d \in DOMAIN children :
        /\ children'[d].role = children[d].role /\ children'[d].about = children[d].about
        /\ children'[d].n = children[d].n /\ children'[d].line \subseteq children[d].line
        /\ children[d].n \in Nat /\ children'[d].live = children[d].live
  BY <1>2, Shapes DEF Childs
<1>5. Kept /\ LineInv'
  BY <1>1, <1>2, <1>4 DEF Kept, GateInv, LineInv, InLineOf
<1> QED
  BY <1>1, <1>3, <1>4, <1>5, WorldStill

LEMMA ReturnStep ==
  ASSUME GateTypeOK, GateInv, NEW c \in DOMAIN children, Return(c)
  PROVE  GateTypeOK' /\ GateInv'
<1> DEFINE n == children[c].n + 1
           line == children[c].line \cup {<<c, n>>}
<1>1. PICK e \in Endings(children[c].role) :
        /\ inbox' = Append(inbox, [from |-> c, n |-> n, line |-> line,
                                   epitaph |-> e[1], says |-> e[2]])
        /\ children' = [children EXCEPT ![c].live = FALSE, ![c].n = n, ![c].line = line]
        /\ approved' = IF children[c].role = "verifier" /\ e = <<"final-response", "approve">>
                       THEN approved \cup children[c].line ELSE approved
        /\ UNCHANGED <<spoke, work, at, drained, failed, messages, discarded, refused,
                       transferred, conflicted, title, spoken, touches, deaths>>
  BY DEF Return, driver, tree, bounds
<1>2. /\ c \in Nat /\ c # 0 /\ children[c] \in Childs /\ children[c].n \in Nat
      /\ children[c].line \in SUBSET Refs
  BY Shapes DEF Childs
<1>3. line \in SUBSET Refs /\ n \in Nat \ {0}
  BY <1>2 DEF Refs
<1>4. /\ e[1] \in {"final-response", "died"} /\ e[2] \in Says
      /\ (children[c].role = "verifier" /\ e[1] = "final-response" /\ e[2] = "approve")
           => e = <<"final-response", "approve">>
  <2>1. children[c].role \in {"worker", "verifier", "titler"}
    BY <1>2 DEF Childs
  <2>2. CASE children[c].role = "worker"
    BY <2>2 DEF Endings, Says
  <2>3. CASE children[c].role = "verifier"
    BY <2>3 DEF Endings, Says
  <2>4. CASE children[c].role = "titler"
    BY <2>4 DEF Endings, Says
  <2> QED
    BY <2>1, <2>2, <2>3, <2>4
<1>5. PICK r : r = [from |-> c, n |-> n, line |-> line, epitaph |-> e[1], says |-> e[2]]
  OBVIOUS
<1>6. r \in Results /\ inbox' = Append(inbox, r)
  BY <1>1, <1>2, <1>3, <1>4, <1>5 DEF Results
<1>7. PICK m \in Nat, l \in SUBSET Refs : m = n /\ l = line
  BY <1>3
<1>8. PICK new : new = [children[c] EXCEPT !.live = FALSE, !.n = m, !.line = l]
  OBVIOUS
<1>9. /\ new \in Childs /\ new.role = children[c].role /\ new.about = children[c].about
      /\ new.n = m /\ new.line = l /\ new.live = FALSE
  BY <1>2, <1>7, <1>8 DEF Childs
<1>10. children' = [children EXCEPT ![c] = new]
  BY <1>1, <1>2, <1>7, <1>8 DEF Childs
<1>11. /\ children' \in Seq(Childs) /\ DOMAIN children' = DOMAIN children
       /\ \A d \in DOMAIN children : children'[d] = IF d = c THEN new ELSE children[d]
  <2>1. children \in Seq(Childs)
    BY DEF GateTypeOK
  <2> QED
    BY <1>9, <1>10, <2>1, Shapes
<1>12. /\ r.from = c /\ r.n = m /\ r.line = l /\ r.epitaph = e[1] /\ r.says = e[2]
       /\ m = children[c].n + 1 /\ l = children[c].line \cup {<<c, m>>}
  BY <1>5, <1>7
<1> HIDE DEF n, line
<1>13. /\ inbox' \in Seq(Results) /\ DOMAIN inbox' = DOMAIN inbox \cup {Len(inbox) + 1}
       /\ \A i \in DOMAIN inbox : inbox'[i] = inbox[i]
       /\ inbox'[Len(inbox) + 1] = r
  <2>1. inbox \in Seq(Results)
    BY DEF GateTypeOK
  <2>2. /\ inbox' \in Seq(Results) /\ Len(inbox') = Len(inbox) + 1
        /\ \A i \in 1..Len(inbox) : inbox'[i] = inbox[i]
        /\ inbox'[Len(inbox) + 1] = r
    BY <1>6, <2>1
  <2> QED
    BY <2>2, Shapes
<1>14. GateTypeOK'
  <2>1. approved' \subseteq Refs
    BY <1>1, <1>2 DEF GateTypeOK
  <2> QED
    BY <1>1, <1>11, <1>13, <2>1 DEF GateTypeOK
<1>15. Kept
  <2>1. \A d \in DOMAIN children :
          /\ children'[d].role = children[d].role /\ children'[d].about = children[d].about
          /\ children[d].n <= children'[d].n
    <3>1. m \in Nat /\ children[c].n <= m
      BY <1>2, <1>12
    <3>2. \A d \in DOMAIN children : children[d].n \in Nat
      BY Shapes DEF Childs
    <3>3. ASSUME NEW d \in DOMAIN children
          PROVE  /\ children'[d].role = children[d].role
                 /\ children'[d].about = children[d].about
                 /\ children[d].n <= children'[d].n
      <4>1. CASE d = c
        BY <1>9, <1>11, <3>1, <4>1
      <4>2. CASE d # c
        BY <1>11, <3>2, <4>2
      <4> QED
        BY <4>1, <4>2
    <3> QED
      BY <3>3
  <2>2. \A d \in DOMAIN children :
          \A ref \in children'[d].line : ref \in children[d].line \/ ref[1] = d
    BY <1>9, <1>11, <1>12
  <2> QED
    BY <1>1, <1>11, <2>1, <2>2 DEF Kept
<1>16. ASSUME NEW d \in DOMAIN children', NEW ref \in children'[d].line
       PROVE  InLineOf(d, ref)'
  <2>1. d \in DOMAIN children
    BY <1>11
  <2>2. CASE ref \in children[d].line
    <3>1. InLineOf(d, ref)
      BY <2>1, <2>2 DEF GateInv, LineInv
    <3> QED
      BY <1>14, <1>15, <2>1, <3>1, LineKept
  <2>3. CASE ref \notin children[d].line
    <3>1. d = c /\ ref = <<c, m>>
      BY <1>9, <1>11, <1>12, <1>16, <2>1, <2>3
    <3>2. ref[1] = c /\ ref[2] = m /\ c \in DOMAIN children' /\ children'[c].n = m
      BY <1>9, <1>11, <3>1
    <3>3. m \in 1..m
      BY <1>2, <1>12
    <3> QED
      BY <3>1, <3>2, <3>3 DEF InLineOf
  <2> QED
    BY <2>2, <2>3
<1>17. LineInv'
  BY <1>16 DEF LineInv
<1>18. Comes
  BY <1>12, <1>13 DEF Comes, Arrives
<1>19. Sound(r)'
  <2>1. children'[c].line = l /\ children'[c].n = m /\ c \in DOMAIN children'
    BY <1>9, <1>11
  <2>2. \A ref \in l : InLineOf(c, ref)'
    BY <1>16, <2>1
  <2>3. m \in 1..m
    BY <1>2, <1>12
  <2>4. Sent(r)'
    BY <1>12, <2>1, <2>2, <2>3 DEF Sent
  <2>5. ASSUME children'[c].role = "verifier", Met(r)
        PROVE  \A ref \in l : ref[1] # c => ref \in approved'
    <3>1. children[c].role = "verifier" /\ e = <<"final-response", "approve">>
      BY <1>4, <1>9, <1>11, <1>12, <2>5 DEF Met
    <3> QED
      BY <1>1, <1>12, <3>1
  <2>6. Approves(r)'
    BY <1>12, <2>5 DEF Approves, Role, Met
  <2> QED
    BY <2>4, <2>6 DEF Sound
<1>20. \A i \in DOMAIN inbox' : Sound(inbox[i])'
  <2>1. ASSUME NEW i \in DOMAIN inbox
        PROVE  Sound(inbox[i])'
    <3>1. PICK s : s = inbox[i]
      OBVIOUS
    <3>2. Sound(s)'
      BY <1>14, <1>15, <3>1, SoundKept, Shapes DEF GateInv, ResultInv
    <3> QED
      BY <1>13, <3>1, <3>2 DEF Sound, Sent, Approves, Role, InLineOf, Met
  <2>2. ASSUME NEW i \in DOMAIN inbox', i = Len(inbox) + 1
        PROVE  Sound(inbox[i])'
    BY <1>13, <1>19, <2>2 DEF Sound, Sent, Approves, Role, InLineOf, Met
  <2> QED
    BY <1>13, <2>1, <2>2
<1>21. \A i, j \in DOMAIN inbox' : Ref(inbox'[i]) = Ref(inbox'[j]) => i = j
  <2>1. \A i, j \in DOMAIN inbox : Ref(inbox[i]) = Ref(inbox[j]) => i = j
    BY DEF GateInv, ResultInv
  <2>2. \A i \in DOMAIN inbox : Ref(inbox[i]) # Ref(r)
    <3>1. \A i \in DOMAIN inbox :
            inbox[i].from \in DOMAIN children /\ inbox[i].n \in 1..children[inbox[i].from].n
      BY DEF GateInv, ResultInv, Sound, Sent
    <3> QED
      BY <1>2, <1>12, <3>1 DEF Ref
  <2> QED
    BY <1>13, <2>1, <2>2 DEF Ref
<1>22. \A d \in DOMAIN children : children[d].live =>
           children'[d].live \/ \E j \in DOMAIN inbox' : inbox'[j].from = d
  BY <1>11, <1>12, <1>13
<1>23. \A j \in DOMAIN inbox : \E k \in DOMAIN inbox' : inbox'[k] = inbox[j]
  BY <1>13
<1> QED
  BY <1>1, <1>14, <1>15, <1>17, <1>18, <1>20, <1>21, <1>22, <1>23, WorldStep

\* A step of the drive that leaves the inbox alone.
LEMMA DriveStep ==
  ASSUME GateTypeOK, GateInv, GateTypeOK', Kept, GoesOn, LineInv', inbox' = inbox,
         discarded' = discarded, messages' = messages, PlaceInv',
         \A c \in DOMAIN children : children[c].live => children'[c].live
  PROVE  GateInv'
<1>1. Comes
  BY DEF Comes
<1>2. WorkInv' /\ RedoneInv' /\ NothingUnapproved' /\ ResultInv'
  BY <1>1, Follows DEF ResultInv
<1>3. JudgeInv'
  <2>1. \A j \in DOMAIN inbox : inbox[j] # NoResult
    BY Shapes, ResultIsSome
  <2> QED
    BY <1>1, <2>1, JudgeKept DEF GateInv
<1> QED
  BY <1>2, <1>3 DEF GateInv

LEMMA CrashStep ==
  ASSUME GateTypeOK, GateInv, Crash
  PROVE  GateTypeOK' /\ GateInv'
<1>1. /\ deaths' = deaths + 1 /\ at' = "off" /\ work' = <<>>
      /\ drained' = FALSE /\ failed' = FALSE
      /\ UNCHANGED <<children, inbox, spoke, messages, discarded, approved, refused,
                     transferred, conflicted, title, spoken, touches>>
  BY DEF Crash, ends, tree
<1>2. GateTypeOK'
  <2>1. work' \in Seq(Circumstances)
    BY <1>1
  <2>2. deaths' \in Nat
    BY <1>1 DEF GateTypeOK
  <2> QED
    BY <1>1, <2>1, <2>2 DEF GateTypeOK
<1>3. Kept /\ LineInv' /\ GoesOn
  BY <1>1, StillKept DEF GateInv, LineInv, InLineOf, GoesOn
<1>4. PlaceInv'
  BY <1>1 DEF PlaceInv
<1> QED
  BY <1>1, <1>2, <1>3, <1>4, DriveStep

-----------------------------------------------------------------------------
(* The drive.                                                              *)

\* derive: a circumstance is a verdict on the one whose return it judges.
LEMMA CircumstanceIsSound ==
  ASSUME GateTypeOK, GateInv, NEW i \in DOMAIN inbox
  PROVE  LET w == Circumstance(inbox[i]) IN
           /\ w \in Circumstances /\ Sound(w.result) /\ Sees(w)
           /\ IF Verdict(w) THEN Judges(w) ELSE w.event = Role(w.result)
<1>1. PICK r : r = inbox[i]
  OBVIOUS
<1>2. PICK g : g = Gates(r)
  OBVIOUS
<1>3. PICK w : w = Circumstance(r)
  OBVIOUS
<1>4. r \in Results /\ Sound(r) /\ r.from \in DOMAIN children
  BY <1>1, Shapes DEF GateInv, ResultInv, Sound, Sent
<1>5. Role(r) \in {"worker", "verifier", "titler"}
  BY <1>4, Shapes DEF Role, Childs
<1>6. \/ /\ g = NoResult
         /\ \A j \in DOMAIN inbox : inbox[j].from # r.from => Ref(inbox[j]) \notin r.line
      \/ \E j \in DOMAIN inbox : g = inbox[j] /\ inbox[j].from # r.from /\ Ref(inbox[j]) \in r.line
  BY <1>2, GatesOne
<1>7. g = NoResult \/ g \in Results
  BY <1>6, Shapes
<1>8. w = IF Token(g, r)
          THEN [result |-> r, event |-> IF Met(r) THEN "verifier_approve" ELSE "verifier_reject",
                gated |-> g]
          ELSE [result |-> r, event |-> Role(r), gated |-> NoResult]
  BY <1>2, <1>3 DEF Circumstance
<1>9. w \in Circumstances /\ w.result = r
  BY <1>4, <1>5, <1>7, <1>8 DEF Circumstances
<1>10. IF Verdict(w) THEN Judges(w) ELSE w.event = Role(w.result)
  <2>1. CASE Token(g, r)
    <3>1. g # NoResult /\ Role(g) = "worker" /\ Role(r) = "verifier"
      BY <2>1 DEF Token
    <3>2. g.from \in DOMAIN children /\ Ref(g) \in r.line
      <4>1. PICK j \in DOMAIN inbox : g = inbox[j] /\ Ref(inbox[j]) \in r.line
        BY <1>6, <3>1
      <4> QED
        BY <4>1 DEF GateInv, ResultInv, Sound, Sent
    <3>3. /\ w.result = r /\ w.gated = g
          /\ w.event = IF Met(r) THEN "verifier_approve" ELSE "verifier_reject"
      BY <1>8, <2>1
    <3> QED
      BY <3>1, <3>2, <3>3 DEF Judges, Verdict
  <2>2. CASE ~Token(g, r)
    BY <1>8, <2>2 DEF Verdict
  <2> QED
    BY <2>1, <2>2
<1>11. Sees(w)
  <2> SUFFICES ASSUME NEW k \in DOMAIN inbox,
                      Role(inbox[k]) = "worker", children[inbox[k].from].n = 1,
                      Role(r) = "verifier", Ref(inbox[k]) \in r.line
               PROVE  w.gated = inbox[k]
    BY <1>9 DEF Sees
  <2>1. /\ inbox[k].from \in DOMAIN children /\ inbox[k].from # r.from
        /\ inbox[k].n \in 1..children[inbox[k].from].n
    BY DEF GateInv, ResultInv, Sound, Sent, Role
  <2>2. PICK j \in DOMAIN inbox : g = inbox[j] /\ inbox[j].from # r.from /\ Ref(inbox[j]) \in r.line
    BY <1>6, <2>1
  <2>3. InLineOf(r.from, Ref(inbox[k])) /\ InLineOf(r.from, Ref(inbox[j]))
    BY <1>4, <2>2 DEF Sound, Sent
  <2>4. inbox[j].from = inbox[k].from
    BY <2>1, <2>2, <2>3 DEF InLineOf, Ref
  <2>5. inbox[j].n = inbox[k].n
    <3>1. inbox[j].n \in 1..1 /\ inbox[k].n \in 1..1
      BY <2>1, <2>4 DEF GateInv, ResultInv, Sound, Sent
    <3> QED
      BY <3>1
  <2>6. j = k
    BY <2>4, <2>5 DEF GateInv, ResultInv, Ref
  <2>7. g # NoResult
    BY <2>2, Shapes, ResultIsSome
  <2>8. Token(g, r)
    BY <2>2, <2>6, <2>7 DEF Token
  <2> QED
    BY <1>8, <2>2, <2>6, <2>8
<1> QED
  BY <1>1, <1>3, <1>4, <1>9, <1>10, <1>11

\* What the driver has in hand.
LEMMA InHand ==
  ASSUME GateTypeOK, GateInv, work # <<>>, NEW w, w = Current
  PROVE  /\ w \in Circumstances /\ w.result \in Results /\ Sound(w.result) /\ Sees(w)
         /\ w.result.from \in DOMAIN children
         /\ IF Verdict(w) THEN Judges(w) /\ w.gated \in Results
            ELSE w.event = Role(w.result) /\ Role(w.result) \in Roles
<1>1. Turn \in DOMAIN work /\ w = work[Turn] /\ w \in Circumstances
  BY TurnIsAPlace DEF Current
<1>2. /\ Sound(w.result) /\ Sees(w)
      /\ IF Verdict(w) THEN Judges(w) ELSE w.event = Role(w.result)
  BY <1>1 DEF GateInv, WorkInv
<1>3. w.result \in Results /\ (Verdict(w) => w.gated \in Results)
  BY <1>1 DEF Circumstances, Verdict
<1>4. w.result.from \in DOMAIN children
  BY <1>2 DEF Sound, Sent
<1>5. Role(w.result) \in Roles
  BY <1>4, Shapes DEF Role, Roles, Childs
<1> QED
  BY <1>1, <1>2, <1>3, <1>4, <1>5

\* What a pending worker's return waits for in the hand of the driver is the
\* verdict on it.
LEMMA WaitsForThis ==
  ASSUME GateTypeOK, GateInv, work # <<>>, NEW w, w = Current, NEW j \in DOMAIN inbox,
         Role(inbox[j]) = "worker", children[inbox[j].from].n = 1,
         children[w.result.from].role = "verifier",
         Ref(inbox[j]) \in children[w.result.from].line
  PROVE  w.gated = inbox[j] /\ Verdict(w)
<1>1. Sound(w.result) /\ Sees(w)
  BY InHand
<1>2. Ref(inbox[j])[1] # w.result.from
  BY DEF Ref, Role
<1>3. Ref(inbox[j]) \in w.result.line
  BY <1>1, <1>2 DEF Sound, Sent
<1>4. w.gated = inbox[j]
  BY <1>1, <1>3 DEF Sees, Role
<1>5. inbox[j] # NoResult
  BY Shapes, ResultIsSome
<1> QED
  BY <1>4, <1>5 DEF Verdict

\* A step of the drive that takes a file out of the inbox.
LEMMA TakeStep ==
  ASSUME GateTypeOK, GateInv, GateTypeOK', children' = children, approved' = approved,
         refused' = refused, GoesOn, NEW x, inbox' = Without(x),
         \A j \in DOMAIN inbox :
           (/\ inbox[j] # x /\ Role(inbox[j]) = "worker" /\ children[inbox[j].from].n = 1
            /\ \E i \in DOMAIN inbox : inbox[i] = x
            /\ children[x.from].role = "verifier")
              => Ref(inbox[j]) \notin children[x.from].line,
         PlaceInv', RedoneInv', NothingUnapproved',
         (\A i \in DOMAIN messages : messages[i].from \in DOMAIN children)'
  PROVE  GateInv'
<1>1. Kept
  BY StillKept
<1>2. LineInv'
  BY DEF GateInv, LineInv, InLineOf
<1>3. /\ Comes
      /\ \A i \in DOMAIN inbox' : Sound(inbox[i])'
      /\ \A i, j \in DOMAIN inbox' : Ref(inbox'[i]) = Ref(inbox'[j]) => i = j
      /\ \A j \in DOMAIN inbox : inbox[j] # x => \E k \in DOMAIN inbox' : inbox'[k] = inbox[j]
      /\ \A i \in DOMAIN inbox' : inbox'[i] # x
  BY <1>1, FollowsLess
<1>4. WorkInv'
  BY <1>1, <1>3, Follows
<1>5. ResultInv'
  BY <1>3 DEF ResultInv
<1>6. JudgeInv'
  BY <1>1, <1>3, JudgeKept DEF GateInv
<1> QED
  BY <1>2, <1>4, <1>5, <1>6 DEF GateInv

LEMMA HopStep ==
  ASSUME GateTypeOK, GateInv, Hop
  PROVE  GateTypeOK' /\ GateInv'
<1>1. /\ drained' = spoke /\ spoke' = FALSE /\ failed' = FALSE /\ at' = "start"
      /\ work' = [i \in DOMAIN inbox |-> Circumstance(inbox[i])]
      /\ UNCHANGED <<children, inbox, messages, discarded, approved, refused, transferred,
                     conflicted, title, spoken, touches, deaths>>
  BY DEF Hop, ends, tree, bounds
<1>2. \A i \in DOMAIN inbox : Circumstance(inbox[i]) \in Circumstances
  BY CircumstanceIsSound
<1>3. work' \in Seq(Circumstances) /\ DOMAIN work' = DOMAIN inbox
  BY <1>1, <1>2, Shapes
<1>4. GateTypeOK'
  BY <1>1, <1>3 DEF GateTypeOK
<1>5. ASSUME NEW k \in DOMAIN work'
      PROVE  /\ Sound(work[k].result)'
             /\ IF Verdict(work'[k]) THEN Judges(work[k])'
                ELSE work'[k].event = Role(work[k].result)'
             /\ Sees(work[k])'
  <2>1. PICK w : w = Circumstance(inbox[k])
    OBVIOUS
  <2>2. work'[k] = w /\ k \in DOMAIN inbox
    BY <1>1, <1>3, <2>1
  <2>3. /\ Sound(w.result) /\ Sees(w)
        /\ IF Verdict(w) THEN Judges(w) ELSE w.event = Role(w.result)
    BY <2>1, <2>2, CircumstanceIsSound
  <2>4. Sound(w.result) => Sound(work[k].result)'
    BY <1>1, <2>2 DEF Sound, Sent, Approves, Role, InLineOf, Met
  <2>5. Sees(w) => Sees(work[k])'
    BY <1>1, <2>2 DEF Sees, Role, Ref
  <2>6. Judges(w) => Judges(work[k])'
    BY <1>1, <2>2 DEF Judges, Role, Ref, Met
  <2> QED
    BY <1>1, <2>2, <2>3, <2>4, <2>5, <2>6 DEF Role
<1>6. WorkInv'
  BY <1>5 DEF WorkInv, Verdict
<1>7. LineInv' /\ ResultInv'
  BY <1>1 DEF GateInv, LineInv, InLineOf, ResultInv, Sound, Sent, Approves, Role, Ref, Met
<1>8. JudgeInv' /\ RedoneInv'
  BY <1>1 DEF GateInv, JudgeInv, RedoneInv, Redone, Role, Ref
<1>9. NothingUnapproved'
  BY <1>1 DEF GateInv, NothingUnapproved, Delivered, Role, Ref, ToSet
<1>10. PlaceInv'
  BY <1>1 DEF PlaceInv
<1> QED
  BY <1>4, <1>6, <1>7, <1>8, <1>9, <1>10 DEF GateInv

LEMMA SkipStep ==
  ASSUME GateTypeOK, GateInv, Skip
  PROVE  GateTypeOK' /\ GateInv'
<1>1. /\ work # <<>> /\ Done
      /\ UNCHANGED <<children, inbox, spoke, drained, failed, messages, discarded, approved,
                     refused, transferred, conflicted, title, spoken, touches, deaths>>
  BY DEF Skip, Done, ends, tree, bounds
<1>2. work' \in Seq(Circumstances) /\ at' = "start" /\ GoesOn
  BY <1>1, DoneGoesOn
<1>3. GateTypeOK'
  BY <1>1, <1>2 DEF GateTypeOK
<1>4. Kept /\ LineInv' /\ PlaceInv'
  BY <1>1, <1>2, StillKept DEF GateInv, LineInv, InLineOf, PlaceInv
<1> QED
  BY <1>1, <1>2, <1>3, <1>4, DriveStep

LEMMA OpenGateStep ==
  ASSUME GateTypeOK, GateInv, OpenGate
  PROVE  GateTypeOK' /\ GateInv'
<1>1. PICK w : w = Current
  OBVIOUS
<1>2. /\ work # <<>> /\ Action(w) = "gate" /\ Done
      /\ \/ UNCHANGED <<children, refused>>
         \/ RunProcedure("verifier", w.result.line, Ref(w.result))
      /\ UNCHANGED <<inbox, spoke, drained, failed, messages, discarded, approved,
                     transferred, conflicted, title, spoken, touches, deaths>>
  BY <1>1 DEF OpenGate, Does, Done, tree, bounds
<1>3. /\ w.result \in Results /\ Sound(w.result) /\ w.result.from \in DOMAIN children
      /\ Role(w.result) = "worker"
  <2>1. w.event = "worker"
    BY <1>2 DEF Action
  <2> QED
    BY <1>1, <1>2, <2>1, InHand DEF Judges
<1>4. PICK l \in SUBSET Refs, about \in Refs :
        /\ l = w.result.line /\ about = Ref(w.result) /\ about[1] = w.result.from
  <2>1. w.result.line \in SUBSET Refs /\ w.result.from \in Nat /\ w.result.n \in Nat
    BY <1>3 DEF Results
  <2>2. Ref(w.result) \in Refs /\ Ref(w.result)[1] = w.result.from
    BY <2>1 DEF Ref, Refs
  <2> QED
    BY <2>1, <2>2
<1>5. children' = Forked("verifier", l, about) \/ children' = children
  BY <1>2, <1>4 DEF RunProcedure
<1>6. refused \subseteq refused' /\ refused' \subseteq refused \cup {<<"verifier", about>>}
  BY <1>2, <1>4 DEF RunProcedure
<1>7. \A ref \in l :
           /\ ref[1] \in DOMAIN children /\ ref[2] \in 1..children[ref[1]].n
           /\ "verifier" = "verifier" /\ ref[1] = about[1]
  <2>1. \A ref \in l : InLineOf(w.result.from, ref)
    BY <1>3, <1>4 DEF Sound, Sent
  <2> QED
    BY <1>3, <1>4, <2>1 DEF InLineOf, Role
<1>8. "verifier" \in Roles
  BY DEF Roles
<1>9. /\ children' \in Seq(Childs) /\ Kept /\ LineInv'
      /\ \A c \in DOMAIN children : children'[c] = children[c]
  BY <1>2, <1>5, <1>6, <1>7, <1>8, ForkKept DEF GateInv
<1>10. work' \in Seq(Circumstances) /\ at' = "start" /\ GoesOn
  BY <1>2, DoneGoesOn
<1>11. GateTypeOK'
  <2>1. refused' \subseteq {"worker", "verifier", "titler"} \X Refs
    BY <1>6 DEF GateTypeOK
  <2> QED
    BY <1>2, <1>9, <1>10, <2>1 DEF GateTypeOK
<1>12. PlaceInv'
  BY <1>10 DEF PlaceInv
<1> QED
  BY <1>2, <1>9, <1>10, <1>11, <1>12, DriveStep

LEMMA BoundaryStep ==
  ASSUME GateTypeOK, GateInv, Boundary
  PROVE  GateTypeOK' /\ GateInv'
<1>1. /\ at' = "off" /\ drained' = FALSE
      /\ RunProcedure("titler", {}, NoRef) \/ UNCHANGED <<children, refused>>
      /\ UNCHANGED <<work, inbox, spoke, failed, messages, discarded, approved,
                     transferred, conflicted, title, spoken, touches, deaths>>
  BY DEF Boundary, tree, bounds
<1>2. /\ children' = Forked("titler", {}, NoRef) \/ children' = children
      /\ refused \subseteq refused' /\ refused' \subseteq refused \cup {<<"titler", NoRef>>}
  BY <1>1 DEF RunProcedure
<1>3. "titler" \in Roles /\ {} \in SUBSET Refs /\ NoRef \in Refs
  BY DEF Roles, NoRef, Refs
<1>4. /\ children' \in Seq(Childs) /\ Kept /\ LineInv'
      /\ \A c \in DOMAIN children : children'[c] = children[c]
  BY <1>1, <1>2, <1>3, ForkKept DEF GateInv
<1>5. GateTypeOK'
  <2>1. refused' \subseteq {"worker", "verifier", "titler"} \X Refs
    BY <1>2, <1>3 DEF GateTypeOK
  <2> QED
    BY <1>1, <1>4, <2>1 DEF GateTypeOK
<1>6. GoesOn /\ PlaceInv'
  BY <1>1 DEF GoesOn, PlaceInv
<1> QED
  BY <1>1, <1>4, <1>5, <1>6, DriveStep

LEMMA RedispatchStep ==
  ASSUME GateTypeOK, GateInv, Redispatch
  PROVE  GateTypeOK' /\ GateInv'
<1>1. PICK w : w = Current
  OBVIOUS
<1>2. /\ work # <<>> /\ Action(w) = "redispatch" /\ at' = "drop"
      /\ RunProcedure("worker", {}, Ref(Target))
      /\ UNCHANGED <<work, inbox, spoke, drained, failed, messages, discarded, approved,
                     transferred, conflicted, title, spoken, touches, deaths>>
  BY <1>1 DEF Redispatch, Does, GoTo, tree, bounds
<1>3. Verdict(w) /\ w.gated \in Results
  <2>1. w.event = "verifier_reject"
    BY <1>2 DEF Action
  <2> QED
    BY <1>1, <1>2, <2>1, InHand DEF Roles
<1>4. PICK about \in Refs : about = Ref(w.gated)
  <2>1. w.gated.from \in Nat /\ w.gated.n \in Nat
    BY <1>3 DEF Results
  <2>2. Ref(w.gated) \in Refs
    BY <2>1 DEF Ref, Refs
  <2> QED
    BY <2>2
<1>5. RunProcedure("worker", {}, about)
  BY <1>1, <1>2, <1>3, <1>4 DEF Target
<1>6. /\ children' = Forked("worker", {}, about) \/ children' = children
      /\ refused \subseteq refused' /\ refused' \subseteq refused \cup {<<"worker", about>>}
  BY <1>5 DEF RunProcedure
<1>7. "worker" \in Roles /\ {} \in SUBSET Refs
  BY DEF Roles
<1>8. /\ children' \in Seq(Childs) /\ Kept /\ LineInv'
      /\ \A c \in DOMAIN children : children'[c] = children[c]
  BY <1>2, <1>6, <1>7, ForkKept DEF GateInv
<1>9. GateTypeOK'
  <2>1. refused' \subseteq {"worker", "verifier", "titler"} \X Refs
    BY <1>6 DEF GateTypeOK
  <2> QED
    BY <1>2, <1>8, <2>1 DEF GateTypeOK
<1>10. Redone(about)'
  <2>1. CASE children' = Forked("worker", {}, about)
    <3>1. /\ Len(children) + 1 \in DOMAIN children'
          /\ children'[Len(children) + 1].role = "worker"
          /\ children'[Len(children) + 1].about = about
      <4>1. /\ DOMAIN children' = DOMAIN children \cup {Len(children) + 1}
            /\ children'[Len(children) + 1] =
                 [role |-> "worker", line |-> {}, about |-> about, live |-> TRUE, n |-> 0]
        BY <1>7, <2>1, OneMore, Zenon
      <4> QED
        BY <4>1
    <3> QED
      BY <3>1 DEF Redone
  <2>2. CASE <<"worker", about>> \in refused'
    BY <2>2 DEF Redone
  <2> QED
    BY <1>5, <2>1, <2>2 DEF RunProcedure
<1>11. PlaceInv'
  <2>1. Current' = w
    BY <1>1, <1>2 DEF Current, Turn
  <2>2. Redone(Ref(Current.gated))' <=> Redone(about)'
    BY <1>4, <2>1 DEF Redone, Ref
  <2> QED
    BY <1>2, <1>3, <1>10, <2>1, <2>2 DEF PlaceInv
<1>12. GoesOn
  BY <1>2 DEF GoesOn
<1> QED
  BY <1>2, <1>8, <1>9, <1>11, <1>12, DriveStep

\* An error, and the end of the drive.
LEMMA FailsStep ==
  ASSUME GateTypeOK, GateInv, Fails,
         UNCHANGED <<children, inbox, spoke, messages, discarded, approved, refused,
                     transferred, conflicted, title, spoken, touches, deaths>>
  PROVE  GateTypeOK' /\ GateInv'
<1>1. at' = "off" /\ work' = <<>> /\ drained' = FALSE /\ failed' = TRUE
  BY DEF Fails
<1>2. work' \in Seq(Circumstances)
  BY <1>1
<1>3. GateTypeOK'
  BY <1>1, <1>2 DEF GateTypeOK
<1>4. Kept /\ LineInv' /\ GoesOn /\ PlaceInv'
  BY <1>1, StillKept DEF GateInv, LineInv, InLineOf, GoesOn, PlaceInv
<1> QED
  BY <1>3, <1>4, DriveStep

\* What becomes of the inbox when a file goes.
LEMMA TakesOne ==
  ASSUME GateTypeOK, GateInv, NEW x, inbox' = Without(x)
  PROVE  inbox' \in Seq(Results) /\ ~IsPending(x)'
<1>1. \A i, j \in DOMAIN inbox : Ref(inbox[i]) = Ref(inbox[j]) => i = j
  BY DEF GateInv, ResultInv
<1>2. PICK t : t = Without(x)
  OBVIOUS
<1>3. t \in Seq(Results) /\ \A k \in DOMAIN t : t[k] # x
  BY <1>1, <1>2, InboxWithout
<1> QED
  BY <1>2, <1>3 DEF IsPending, ToSet

LEMMA DiscardStep ==
  ASSUME GateTypeOK, GateInv, Discard
  PROVE  GateTypeOK' /\ GateInv'
<1>1. PICK w : w = Current
  OBVIOUS
<1>2. /\ at = "drop" /\ work # <<>> /\ Verdict(w) /\ Redone(Ref(w.gated))
      /\ UNCHANGED <<children, spoke, messages, approved, refused, transferred, conflicted,
                     title, spoken, touches, deaths>>
  BY <1>1 DEF Discard, GateInv, PlaceInv, tree, bounds
<1>3. PICK x : x = w.gated
  OBVIOUS
<1>4. x \in Results /\ Role(x) = "worker" /\ x.from \in DOMAIN children
  BY <1>1, <1>2, <1>3, InHand DEF Judges
<1>5. Target = x
  BY <1>1, <1>2, <1>3 DEF Target
<1>6. CASE IsPending(Target)
  <2>1. /\ inbox' = Without(x) /\ discarded' = discarded \cup {Ref(x)}
        /\ at' = "consume" /\ UNCHANGED <<work, drained, failed>>
    BY <1>5, <1>6 DEF Discard, GoTo
  <2>2. inbox' \in Seq(Results) /\ ~IsPending(x)'
    BY <2>1, TakesOne
  <2>3. GateTypeOK'
    <3>1. Ref(x) \in Refs
      <4>1. x.from \in Nat /\ x.n \in Nat
        BY <1>4 DEF Results
      <4> QED
        BY <4>1 DEF Ref, Refs
    <3>2. discarded' \subseteq Refs
      BY <2>1, <3>1 DEF GateTypeOK
    <3> QED
      BY <1>2, <2>1, <2>2, <3>2 DEF GateTypeOK
  <2>4. PlaceInv'
    <3>1. Current' = w
      BY <1>1, <2>1 DEF Current, Turn
    <3>2. IsPending(Current.gated)' <=> IsPending(x)'
      BY <1>3, <3>1 DEF IsPending
    <3> QED
      BY <1>2, <2>1, <2>2, <3>1, <3>2 DEF PlaceInv
  <2>5. RedoneInv'
    BY <1>2, <1>3, <2>1 DEF GateInv, RedoneInv, Redone
  <2>6. /\ NothingUnapproved'
        /\ (\A i \in DOMAIN messages : messages[i].from \in DOMAIN children)'
    BY <1>2 DEF GateInv, ResultInv, NothingUnapproved, Delivered, Role, Ref, ToSet
  <2>7. GoesOn
    BY <2>1 DEF GoesOn
  <2>8. children[x.from].role # "verifier"
    BY <1>4 DEF Role
  <2> QED
    BY <1>2, <2>1, <2>3, <2>4, <2>5, <2>6, <2>7, <2>8, TakeStep
<1>7. CASE ~IsPending(Target)
  BY <1>2, <1>7, FailsStep DEF Discard
<1> QED
  BY <1>6, <1>7

LEMMA TransferStep ==
  ASSUME GateTypeOK, GateInv, Transfer
  PROVE  GateTypeOK' /\ GateInv'
<1>1. PICK w : w = Current
  OBVIOUS
<1>2. /\ work # <<>> /\ Action(w) = "deliver" /\ at' = "rename"
      /\ UNCHANGED <<work, children, inbox, spoke, drained, failed, messages, discarded,
                     approved, refused, title, spoken, touches, deaths>>
  BY <1>1 DEF Transfer, Does, GoTo, ends, bounds
<1>3. PICK t : t = Target
  OBVIOUS
<1>4. t \in Results
  BY <1>1, <1>2, <1>3, InHand DEF Target
<1>5. t.from \in Nat /\ Ref(t) \in Refs
  <2>1. t.from \in Nat /\ t.n \in Nat
    BY <1>4 DEF Results
  <2> QED
    BY <2>1 DEF Ref, Refs
<1>6. /\ transferred' \in {transferred, transferred \cup {Ref(t)}}
      /\ conflicted' \in {conflicted, conflicted \cup {t.from}}
  BY <1>3 DEF Transfer
<1>7. transferred' \subseteq Refs /\ conflicted' \subseteq Nat
  BY <1>5, <1>6 DEF GateTypeOK
<1>8. GateTypeOK'
  BY <1>2, <1>7 DEF GateTypeOK
<1>9. PlaceInv'
  <2>1. Current' = w
    BY <1>1, <1>2 DEF Current, Turn
  <2> QED
    BY <1>2, <2>1 DEF PlaceInv
<1>10. Kept /\ LineInv' /\ GoesOn
  BY <1>2, StillKept DEF GateInv, LineInv, InLineOf, GoesOn
<1> QED
  BY <1>2, <1>8, <1>9, <1>10, DriveStep

LEMMA LandStep ==
  ASSUME GateTypeOK, GateInv, Land
  PROVE  GateTypeOK' /\ GateInv'
<1>1. PICK w : w = Current
  OBVIOUS
<1>2. /\ work # <<>> /\ Action(w) = "land"
      /\ UNCHANGED <<children, inbox, spoke, messages, discarded, approved, refused,
                     transferred, conflicted, spoken, touches, deaths>>
  BY <1>1 DEF Land, Does, ends, bounds
<1>3. ~Verdict(w) /\ Role(w.result) = "titler" /\ w.result \in Results
  <2>1. w.event = "titler"
    BY <1>2 DEF Action
  <2> QED
    BY <1>1, <1>2, <2>1, InHand DEF Judges
<1>4. CASE w.result.says # title
  <2>1. /\ title' = w.result.says /\ at' = "consume"
        /\ UNCHANGED <<work, drained, failed>>
    BY <1>1, <1>4 DEF Land, GoTo
  <2>2. title' \in Says
    BY <1>3, <2>1 DEF Results
  <2>3. GateTypeOK'
    BY <1>2, <2>1, <2>2 DEF GateTypeOK
  <2>4. PlaceInv'
    <3>1. Current' = w
      BY <1>1, <2>1 DEF Current, Turn
    <3>2. Role(Current.result)' = Role(w.result)
      BY <1>2, <3>1 DEF Role
    <3> QED
      BY <1>2, <1>3, <2>1, <3>1, <3>2 DEF PlaceInv
  <2>5. Kept /\ LineInv' /\ GoesOn
    BY <1>2, <2>1, StillKept DEF GateInv, LineInv, InLineOf, GoesOn
  <2> QED
    BY <1>2, <2>3, <2>4, <2>5, DriveStep
<1>5. CASE w.result.says = title
  <2>1. Fails /\ title' = title
    BY <1>1, <1>5 DEF Land
  <2> QED
    BY <1>2, <2>1, FailsStep
<1> QED
  BY <1>4, <1>5

LEMMA ConsumeStep ==
  ASSUME GateTypeOK, GateInv, Consume
  PROVE  GateTypeOK' /\ GateInv'
<1>1. PICK w : w = Current
  OBVIOUS
<1>2. PICK x : x = w.result
  OBVIOUS
<1>3. /\ at = "consume" /\ work # <<>> /\ inbox' = Without(x) /\ Done
      /\ UNCHANGED <<children, spoke, drained, failed, messages, discarded, approved, refused,
                     transferred, conflicted, title, spoken, touches, deaths>>
  BY <1>1, <1>2 DEF Consume, Done, GateInv, PlaceInv, ends, tree, bounds
<1>4. IF Verdict(w) THEN ~IsPending(w.gated) ELSE Role(x) = "titler"
  BY <1>1, <1>2, <1>3 DEF GateInv, PlaceInv
<1>5. work' \in Seq(Circumstances) /\ at' = "start" /\ GoesOn
  BY <1>3, DoneGoesOn
<1>6. inbox' \in Seq(Results)
  BY <1>3, TakesOne
<1>7. GateTypeOK'
  BY <1>3, <1>5, <1>6 DEF GateTypeOK
<1>8. PlaceInv' /\ RedoneInv'
  BY <1>3, <1>5 DEF PlaceInv, GateInv, RedoneInv, Redone
<1>9. /\ NothingUnapproved'
      /\ (\A i \in DOMAIN messages : messages[i].from \in DOMAIN children)'
  BY <1>3 DEF GateInv, ResultInv, NothingUnapproved, Delivered, Role, Ref, ToSet
<1>10. ASSUME NEW j \in DOMAIN inbox, Role(inbox[j]) = "worker", children[inbox[j].from].n = 1,
              children[x.from].role = "verifier", Ref(inbox[j]) \in children[x.from].line
       PROVE  FALSE
  <2>1. w.gated = inbox[j] /\ Verdict(w)
    BY <1>1, <1>2, <1>3, <1>10, WaitsForThis
  <2> QED
    BY <1>4, <2>1, PendingIsSomewhere
<1> QED
  BY <1>3, <1>5, <1>7, <1>8, <1>9, <1>10, TakeStep

\* deliver_message: what is delivered was approved, and nobody waits for it.
LEMMA RenameStep ==
  ASSUME GateTypeOK, GateInv, Rename
  PROVE  GateTypeOK' /\ GateInv'
<1>1. PICK w : w = Current
  OBVIOUS
<1>2. PICK x : x = Target
  OBVIOUS
<1>3. /\ at = "rename" /\ work # <<>> /\ Action(w) = "deliver"
      /\ UNCHANGED <<children, spoke, discarded, approved, refused, transferred, conflicted,
                     title, spoken, touches, deaths>>
  BY <1>1 DEF Rename, GateInv, PlaceInv, tree, bounds
<1>4. x = IF Verdict(w) THEN w.gated ELSE w.result
  BY <1>1, <1>2 DEF Target
<1>5. /\ w.result \in Results /\ Sound(w.result) /\ w.result.from \in DOMAIN children
      /\ IF Verdict(w) THEN Judges(w) /\ w.gated \in Results
         ELSE w.event = Role(w.result) /\ Role(w.result) \in Roles
  BY <1>1, <1>3, InHand
<1>6. x \in Results /\ x.from \in DOMAIN children
  BY <1>4, <1>5 DEF Judges
<1>7. Role(x) = "worker" => Ref(x) \in approved
  <2> HAVE Role(x) = "worker"
  <2>1. Verdict(w)
    BY <1>3, <1>4, <1>5 DEF Action
  <2>2. Met(w.result)
    BY <1>3, <1>5, <2>1 DEF Action, Judges
  <2>3. Ref(x) \in w.result.line /\ Role(w.result) = "verifier" /\ x.from # w.result.from
    BY <1>4, <1>5, <2>1 DEF Judges, Role
  <2>4. Ref(x)[1] # w.result.from
    BY <2>3 DEF Ref
  <2> QED
    BY <1>5, <2>2, <2>3, <2>4 DEF Sound, Approves
<1>8. CASE IsPending(Target)
  <2>1. inbox' = Without(x) /\ messages' = Append(messages, x)
    BY <1>2, <1>8 DEF Rename
  <2>2. inbox' \in Seq(Results) /\ ~IsPending(x)'
    BY <2>1, TakesOne
  <2>3. work' \in Seq(Circumstances) /\ GoesOn /\ UNCHANGED <<drained, failed>>
        /\ at' = (IF Verdict(w) THEN "consume" ELSE "start")
        /\ (Verdict(w) => work' = work)
    <3>1. CASE Verdict(w)
      <4>1. GoTo("consume")
        BY <1>1, <1>8, <3>1 DEF Rename
      <4> QED
        BY <3>1, <4>1 DEF GoTo, GateTypeOK, GoesOn
    <3>2. CASE ~Verdict(w)
      <4>1. Done
        BY <1>1, <1>8, <3>2 DEF Rename
      <4>2. UNCHANGED <<drained, failed>>
        BY <4>1 DEF Done
      <4> QED
        BY <1>3, <3>2, <4>1, <4>2, DoneGoesOn
    <3> QED
      BY <3>1, <3>2
  <2>4. /\ messages' \in Seq(Results)
        /\ \A i \in DOMAIN messages' :
             messages'[i] = x \/ \E j \in DOMAIN messages : messages'[i] = messages[j]
    <3>1. messages \in Seq(Results)
      BY DEF GateTypeOK
    <3> QED
      BY <1>6, <2>1, <3>1
  <2>5. GateTypeOK'
    BY <1>3, <2>2, <2>3, <2>4 DEF GateTypeOK
  <2>6. PlaceInv'
    <3>1. CASE Verdict(w)
      <4>1. Current' = w /\ work' # <<>> /\ at' = "consume" /\ x = w.gated
        BY <1>1, <1>3, <1>4, <2>3, <3>1 DEF Current, Turn
      <4>2. IsPending(Current.gated)' <=> IsPending(x)'
        BY <4>1 DEF IsPending
      <4> QED
        BY <2>2, <3>1, <4>1, <4>2 DEF PlaceInv
    <3>2. CASE ~Verdict(w)
      BY <2>3, <3>2 DEF PlaceInv
    <3> QED
      BY <3>1, <3>2
  <2>7. RedoneInv'
    BY <1>3 DEF GateInv, RedoneInv, Redone
  <2>8. (\A i \in DOMAIN messages : messages[i].from \in DOMAIN children)'
    BY <1>3, <1>6, <2>4 DEF GateInv, ResultInv
  <2>9. NothingUnapproved'
    <3>1. \A i \in DOMAIN messages : Role(messages[i]) = "worker" => Ref(messages[i]) \in approved
      BY EachApproved DEF GateInv
    <3>2. (\A i \in DOMAIN messages : Role(messages[i]) = "worker" => Ref(messages[i]) \in approved)'
      BY <1>3, <1>7, <2>4, <3>1 DEF Role, Ref
    <3>3. ToSet(messages') = {messages'[i] : i \in DOMAIN messages'}
      BY DEF ToSet
    <3> QED
      BY <3>2, <3>3 DEF NothingUnapproved, Delivered
  <2>10. ASSUME NEW j \in DOMAIN inbox, Role(inbox[j]) = "worker", inbox[j] # x,
                children[inbox[j].from].n = 1,
                children[x.from].role = "verifier", Ref(inbox[j]) \in children[x.from].line
         PROVE  FALSE
    <3>1. ~Verdict(w) /\ x = w.result
      BY <1>4, <1>5, <2>10 DEF Judges, Role
    <3> QED
      BY <1>1, <1>3, <2>10, <3>1, WaitsForThis
  <2> QED
    BY <1>3, <2>1, <2>3, <2>5, <2>6, <2>7, <2>8, <2>9, <2>10, TakeStep
<1>9. CASE ~IsPending(Target)
  BY <1>3, <1>9, FailsStep DEF Rename
<1> QED
  BY <1>8, <1>9

-----------------------------------------------------------------------------
(* The theorems.                                                           *)

LEMMA GateInitially == GateInit => GateTypeOK /\ GateInv
<1> SUFFICES ASSUME GateInit PROVE GateTypeOK /\ GateInv
  OBVIOUS
<1>1. /\ children = <<>> /\ inbox = <<>> /\ work = <<>> /\ messages = <<>>
      /\ at = "off" /\ discarded = {}
  BY DEF GateInit
<1>2. /\ children \in Seq(Childs) /\ inbox \in Seq(Results) /\ work \in Seq(Circumstances)
      /\ messages \in Seq(Results)
  BY <1>1
<1>3. GateTypeOK
  BY <1>2 DEF GateInit, GateTypeOK, Says
<1>4. LineInv /\ ResultInv /\ WorkInv /\ PlaceInv /\ JudgeInv /\ RedoneInv
  BY <1>1 DEF LineInv, ResultInv, WorkInv, PlaceInv, JudgeInv, RedoneInv
<1>5. NothingUnapproved
  BY <1>1, <1>3, EachApproved
<1> QED
  BY <1>3, <1>4, <1>5 DEF GateInv

LEMMA GateStep ==
  ASSUME GateTypeOK, GateInv, [GateNext]_gateVars
  PROVE  GateTypeOK' /\ GateInv'
<1>1. CASE \E role \in ByHand : Dispatch(role)
  BY <1>1, DispatchStep
<1>2. CASE \E c \in DOMAIN children : Return(c)
  BY <1>2, ReturnStep
<1>3. CASE \E c \in DOMAIN children : Revive(c)
  BY <1>3, ReviveStep
<1>4. CASE \E c \in DOMAIN children : Retarget(c)
  BY <1>4, RetargetStep
<1>5. CASE Speak
  BY <1>5, SpeakStep
<1>6. CASE Crash
  BY <1>6, CrashStep
<1>7. CASE Hop
  BY <1>7, HopStep
<1>8. CASE Skip
  BY <1>8, SkipStep
<1>9. CASE OpenGate
  BY <1>9, OpenGateStep
<1>10. CASE Redispatch
  BY <1>10, RedispatchStep
<1>11. CASE Discard
  BY <1>11, DiscardStep
<1>12. CASE Transfer
  BY <1>12, TransferStep
<1>13. CASE Rename
  BY <1>13, RenameStep
<1>14. CASE Land
  BY <1>14, LandStep
<1>15. CASE Consume
  BY <1>15, ConsumeStep
<1>16. CASE Boundary
  BY <1>16, BoundaryStep
<1>17. CASE UNCHANGED gateVars
  <2>1. GateTypeOK'
    BY <1>17 DEF GateTypeOK, gateVars
  <2>2. Kept /\ LineInv' /\ GoesOn
    BY <1>17, StillKept DEF GateInv, LineInv, InLineOf, GoesOn, gateVars
  <2>3. Comes
    BY <1>17 DEF Comes, gateVars
  <2>4. PlaceInv'
    BY <1>17, <2>1, <2>2, <2>3, PlaceKept DEF gateVars
  <2> QED
    BY <1>17, <2>1, <2>2, <2>4, DriveStep DEF gateVars
<1> QED
  BY <1>1, <1>2, <1>3, <1>4, <1>5, <1>6, <1>7, <1>8, <1>9, <1>10, <1>11, <1>12, <1>13,
     <1>14, <1>15, <1>16, <1>17 DEF GateNext, Drive

LEMMA GateInvariant == GateSpec => [](GateTypeOK /\ GateInv)
<1>1. GateInit => GateTypeOK /\ GateInv
  BY GateInitially
<1>2. (GateTypeOK /\ GateInv) /\ [GateNext]_gateVars => (GateTypeOK /\ GateInv)'
  BY GateStep
<1> QED
  BY <1>1, <1>2, PTL DEF GateSpec

\* The state of the gate is well typed: what is in hand, pending or said are
\* results of children, and of a verdict both sides are known.
THEOREM GateTyping == GateSpec => []GateTypeOK
<1> QED
  BY GateInvariant, PTL

\* A worker's result reaches the transcript only after a verifier forked off
\* work that contains it finished and approved, whoever returns or dies when.
THEOREM DeliveredWasApproved == GateSpec => []NothingUnapproved
<1>1. GateTypeOK /\ GateInv => NothingUnapproved
  BY DEF GateInv
<1> QED
  BY <1>1, GateInvariant, PTL

\* A held result can still be judged, and a discarded one has been done
\* again, or its dispatch refused by the budget.
THEOREM HeldResultsAreJudged == GateSpec => []NoResultLost
<1>1. ASSUME GateTypeOK, GateInv
      PROVE  NoResultLost
  <2>1. ToSet(inbox) = {inbox[i] : i \in DOMAIN inbox}
    BY DEF ToSet
  <2>2. ASSUME NEW i \in DOMAIN inbox, Role(inbox[i]) = "worker",
               ~(children[inbox[i].from].n > 1)
        PROVE  Judged(inbox[i])
    <3>1. /\ inbox[i].from \in DOMAIN children
          /\ inbox[i].n \in 1..children[inbox[i].from].n
      BY <1>1 DEF GateInv, ResultInv, Sound, Sent
    <3>2. children[inbox[i].from].n \in Nat
      BY <1>1, <3>1, Shapes DEF Childs
    <3>3. children[inbox[i].from].n = 1
      BY <2>2, <3>1, <3>2
    <3>4. CASE ~AlreadyGated(inbox[i])
      BY <3>4 DEF Judged
    <3>5. CASE AlreadyGated(inbox[i])
      <4>1. PICK c \in DOMAIN children :
              children[c].role = "verifier" /\ Ref(inbox[i]) \in children[c].line
        BY <3>5 DEF AlreadyGated, IsAncestor
      <4>2. children[c].live \/ \E j \in DOMAIN inbox : inbox[j].from = c
        BY <1>1, <2>2, <3>3, <4>1 DEF GateInv, JudgeInv
      <4> QED
        BY <2>1, <4>1, <4>2 DEF Judged, IsAncestor
    <3> QED
      BY <3>4, <3>5
  <2>3. \A r \in Held : Judged(r) \/ children[r.from].n > 1
    BY <2>1, <2>2 DEF Held
  <2> QED
    BY <1>1, <2>3 DEF NoResultLost, GateInv, RedoneInv
<1> QED
  BY <1>1, GateInvariant, PTL
=============================================================================
