--------------------------- MODULE Removal_proofs ---------------------------
(***************************************************************************)
(* Proofs about Creation and Removal together, for any ids, names, limits  *)
(* and bounds: a conversation overspends by a step for each agent that was *)
(* let in at most, no two agents wear one name unless they were created at *)
(* the same time, and a delete that reports leaves nothing.                *)
(***************************************************************************)
EXTENDS Removal, FiniteSetTheorems, SequenceTheorems, TLAPS

-----------------------------------------------------------------------------
(* The types of the state.                                                 *)

Homes == {"worktree", "steps", "inbox", "ref", "mark"}
Phases == {"ask", "name", "budget", "lock", "mark", "fork", "commit", "post", "made",
           "refused", "failed"}
Wearable == Names \cup {Unnamed}

CreationTypeOK ==
    /\ phase \in [Ids -> Phases]
    /\ \A i \in Ids : phase[i] # IF i \in Roots THEN "budget" ELSE "lock"
    /\ given \in [Ids -> Wearable]
    /\ home \in [Ids -> SUBSET Homes] /\ committed \subseteq Ids
    /\ worn \in [Ids -> Wearable] /\ mail \subseteq Ids
    /\ drive \in [Ids -> {"off", "making", "boundary", "calling", "final"}]
    /\ spent \in [Ids -> Nat] /\ overlapped \subseteq SUBSET Ids /\ crashes \in Nat
DeleteTypeOK ==
    /\ del \in [at : {"idle", "list", "probe", "remove", "done"}, root : Ids \cup {<<>>},
                children : BOOLEAN, marks : SUBSET Ids, ids : SUBSET Ids,
                work : SUBSET (Ids \X Homes)]
    /\ touched \subseteq Ids /\ deletes \in Nat
LifeTypeOK == CreationTypeOK /\ DeleteTypeOK

-----------------------------------------------------------------------------
(* The inductive invariant.                                                *)

\* The creations that the budget has let in.
LetIn(i) == phase[i] \notin {"ask", "name", "budget", "refused"}

\* Whoever drives or has a home was let in, and so was who dispatched it.
EntryInv ==
    /\ \A i \in Ids : home[i] # {} \/ drive[i] # "off" => LetIn(i)
    /\ \A i \in Ids \ Roots : phase[i] \notin {"ask", "refused"} => LetIn(Parent(i))

\* What is recorded and what is being called fits the limit, with a step to
\* spare for each that was let in.
Inside(r) == {i \in Subtree(r) : LetIn(i)}
Calling(r) == {i \in Subtree(r) : drive[i] = "calling"}
FundInv ==
    \A r \in Roots :
        Cardinality(Recorded(r)) + Cardinality(Calling(r)) <= Limit - 1 + Cardinality(Inside(r))

\* An agent wears its name or is on its way to its dispatch commit.
MayWear(i) ==
    \/ i \in committed \/ phase[i] \in {"budget", "lock", "mark", "fork", "commit"}
    \/ i \in Roots /\ phase[i] = "post"
NameInv ==
    /\ \A i \in committed :
         "ref" \in home[i] /\ worn[i] = given[i] /\ phase[i] \in {"post", "made", "failed"}
    /\ \A i \in Roots \cap committed : phase[i] # "post"
    /\ \A i, j \in Ids :
         i # j /\ MayWear(i) /\ MayWear(j) /\ given[i] = given[j] => {i, j} \in overlapped

\* Stage by stage, what the delete has still to remove.
DeleteInv ==
    /\ del.at \in {"list", "probe"} =>
         \A i \in Ids \ touched : "mark" \in home[i] => i \in del.marks
    /\ del.at = "probe" =>
         \A i \in Subtree(del.root) \ touched : home[i] # {} => i \in del.ids
    /\ del.at = "remove" =>
         \A i \in Subtree(del.root) \ touched : \A h \in home[i] : <<i, h>> \in del.work
    /\ del.at = "done" =>
         \A i \in Subtree(del.root) \ touched : home[i] = {}

LifeInv == EntryInv /\ FundInv /\ NameInv /\ DeleteInv

-----------------------------------------------------------------------------
(* The id space.                                                           *)

\* Whoever is not the root of a conversation was dispatched by an agent that
\* has an id itself.
LEMMA ParentFact ==
    ASSUME NEW i \in Ids \ Roots
    PROVE  Parent(i) \in Ids
<1>1. i \in Seq(Nat) /\ i # <<>> /\ Len(i) # 1  BY IdsAssumption DEF Roots
<1>2. Len(i) # 0  BY <1>1, EmptySeq
<1>3. Len(i) \in Nat  BY <1>1
<1>4. \A n \in Nat : n # 0 /\ n # 1 => n > 1  OBVIOUS
<1>5. Len(i) > 1  BY <1>1, <1>2, <1>3, <1>4
<1> QED  BY <1>5, IdsAssumption DEF Parent

\* An id of a conversation is derived to be of that conversation.
LEMMA RootFact ==
    ASSUME NEW r \in Roots, NEW i \in Subtree(r)
    PROVE  i \in Ids /\ r = RootOf(i)
<1>1. r \in Ids /\ i \in Ids /\ Len(r) = 1  BY DEF Roots, Subtree
<1>2. r \in Seq(Nat)  BY <1>1, IdsAssumption
<1>3. SubSeq(r, 1, 1) = SubSeq(i, 1, 1)  BY <1>1 DEF Subtree, IsPrefix
<1>4. SubSeq(r, 1, 1) = r  BY <1>1, <1>2
<1> QED  BY <1>1, <1>3, <1>4 DEF RootOf

\* A set of ids is finite.
LEMMA IdsFinite ==
    ASSUME NEW S, S \subseteq Ids
    PROVE  IsFiniteSet(S) /\ Cardinality(S) \in Nat
BY IdsAssumption, FS_Subset, FS_CardinalityType

-----------------------------------------------------------------------------
(* The types.                                                              *)

LEMMA TypedInitially == LifeInit => LifeTypeOK
<1> SUFFICES ASSUME LifeInit PROVE LifeTypeOK  OBVIOUS
<1>1. CreationTypeOK
  BY DEF LifeInit, CreationInit, CreationTypeOK, Phases, Wearable
<1>2. DeleteTypeOK
  BY DEF LifeInit, DeleteTypeOK, Idle
<1> QED  BY <1>1, <1>2 DEF LifeTypeOK

\* The step after another is a step, and each kind of creation keeps to its own.
PhaseOf(i) == Phases \ {IF i \in Roots THEN "budget" ELSE "lock"}
LEMMA AfterTyped ==
    ASSUME CreationTypeOK, NEW i \in Ids,
           phase[i] \in {"ask", "name", "budget", "lock", "mark", "fork", "commit", "post"}
    PROVE  After(i) \in PhaseOf(i)
<1>1. CASE i \in Roots  BY <1>1 DEF After, Phases, PhaseOf, CreationTypeOK
<1>2. CASE i \notin Roots  BY <1>2 DEF After, Phases, PhaseOf, CreationTypeOK
<1> QED  BY <1>1, <1>2

\* The types of the phases, whichever way one goes.
LEMMA PhaseTyped ==
    ASSUME CreationTypeOK, NEW i \in Ids, NEW p \in PhaseOf(i),
           phase' = [phase EXCEPT ![i] = p]
    PROVE  /\ phase' \in [Ids -> Phases]
           /\ \A j \in Ids : phase'[j] # IF j \in Roots THEN "budget" ELSE "lock"
BY DEF CreationTypeOK, PhaseOf

\* The types of the homes that are gained.
LEMMA HomeTyped ==
    ASSUME CreationTypeOK, NEW i \in Ids, NEW hs \in SUBSET Homes, Gains(i, hs)
    PROVE  home' \in [Ids -> SUBSET Homes]
<1>1. home[i] \cup hs \in SUBSET Homes  BY DEF CreationTypeOK
<1> QED  BY <1>1 DEF Gains, CreationTypeOK

LEMMA GoesTyped ==
    ASSUME CreationTypeOK, NEW i \in Ids, Goes(i),
           phase[i] \in {"ask", "name", "budget", "lock", "mark", "fork", "commit", "post"}
    PROVE  /\ phase' \in [Ids -> Phases]
           /\ \A j \in Ids : phase'[j] # IF j \in Roots THEN "budget" ELSE "lock"
BY AfterTyped, PhaseTyped DEF Goes

LEMMA EndsTyped ==
    ASSUME CreationTypeOK, NEW i \in Ids, NEW how \in {"refused", "failed"}, Ends(i, how)
    PROVE  /\ phase' \in [Ids -> Phases]
           /\ \A j \in Ids : phase'[j] # IF j \in Roots THEN "budget" ELSE "lock"
<1>1. how \in PhaseOf(i)  BY DEF PhaseOf, Phases
<1> QED  BY <1>1, PhaseTyped DEF Ends

\* What a terminal event does to the homes and the mail.
LEMMA ConcludesTyped ==
    ASSUME CreationTypeOK, NEW i \in Ids, NEW noted \in SUBSET {"mark"}, Concludes(i, noted)
    PROVE  /\ home' \in [Ids -> SUBSET Homes] /\ mail' \subseteq Ids
           /\ drive' = [drive EXCEPT ![i] = "off"]
<1>1. noted \in SUBSET Homes  BY DEF Homes
<1>2. CASE i \in Roots  BY <1>1, <1>2, HomeTyped DEF Concludes, CreationTypeOK
<1>3. CASE i \notin Roots
  <2>1. Parent(i) \in Ids  BY <1>3, ParentFact
  <2>2. PICK p \in Ids : p = Parent(i)  BY <2>1
  <2>3. home' = [home EXCEPT ![i] = @ \cup {"mark"}, ![p] = @ \cup {"inbox"}]
    BY <1>3, <2>2 DEF Concludes
  <2>4. home' \in [Ids -> SUBSET Homes]  BY <2>3 DEF CreationTypeOK, Homes
  <2> QED  BY <2>4, <1>3, <2>1 DEF Concludes, CreationTypeOK
<1> QED  BY <1>2, <1>3

LEMMA CreationTyped == CreationTypeOK /\ CreationNext => CreationTypeOK'
<1> SUFFICES ASSUME CreationTypeOK, NEW i \in Ids,
                    \/ Ask(i) \/ Name(i) \/ Budget(i) \/ Lock(i) \/ SeedCwd(i) \/ Fork(i)
                    \/ CannotFork(i) \/ Commit(i) \/ CannotCommit(i) \/ Post(i) \/ Killed(i)
                    \/ Wake(i) \/ Call(i) \/ Record(i) \/ Answer(i) \/ OutOfBudget(i)
                    \/ Bereft(i) \/ DriverDies(i)
             PROVE  CreationTypeOK'
  BY DEF CreationNext
<1>1. CASE Ask(i)  BY <1>1, GoesTyped, EndsTyped DEF Ask, CreationTypeOK
<1>2. CASE Name(i)
  <2>1. /\ phase' \in [Ids -> Phases]
        /\ \A j \in Ids : phase'[j] # IF j \in Roots THEN "budget" ELSE "lock"
    BY <1>2, GoesTyped, EndsTyped DEF Name
  <2>2. given' \in [Ids -> Wearable]
    BY <1>2 DEF Name, Free, CreationTypeOK, Wearable
  <2>3. overlapped' \subseteq SUBSET Ids
    BY <1>2 DEF Name, Making, CreationTypeOK
  <2> QED  BY <1>2, <2>1, <2>2, <2>3 DEF Name, CreationTypeOK
<1>3. CASE Budget(i)  BY <1>3, GoesTyped, EndsTyped DEF Budget, CreationTypeOK
<1>4. CASE Lock(i)
  <2>1. home' \in [Ids -> SUBSET Homes]  BY <1>4, HomeTyped DEF Lock, Homes
  <2>2. drive' \in [Ids -> {"off", "making", "boundary", "calling", "final"}]
    BY <1>4 DEF Lock, CreationTypeOK
  <2> QED  BY <1>4, <2>1, <2>2, GoesTyped DEF Lock, CreationTypeOK
<1>5. CASE SeedCwd(i)
  <2>1. home' \in [Ids -> SUBSET Homes]  BY <1>5, HomeTyped DEF SeedCwd, Homes, CreationTypeOK
  <2> QED  BY <1>5, <2>1, GoesTyped DEF SeedCwd, CreationTypeOK
<1>6. CASE Fork(i)
  <2>1. home' \in [Ids -> SUBSET Homes]  BY <1>6, HomeTyped DEF Fork, Homes
  <2>2. worn' \in [Ids -> Wearable]
    <3>1. PICK from \in Points(i) : worn' = [worn EXCEPT ![i] = worn[from]]  BY <1>6 DEF Fork
    <3>2. from \in Ids  BY <3>1 DEF Points, Agents
    <3> QED  BY <3>1, <3>2 DEF CreationTypeOK
  <2> QED  BY <1>6, <2>1, <2>2, GoesTyped DEF Fork, CreationTypeOK
<1>7. CASE CannotFork(i)  BY <1>7, EndsTyped DEF CannotFork, CreationTypeOK
<1>8. CASE Commit(i)
  <2>1. worn' \in [Ids -> Wearable]  BY <1>8 DEF Commit, CreationTypeOK
  <2>2. drive' \in [Ids -> {"off", "making", "boundary", "calling", "final"}]
    BY <1>8 DEF Commit, CreationTypeOK
  <2>3. committed' \subseteq Ids /\ mail' \subseteq Ids  BY <1>8 DEF Commit, CreationTypeOK
  <2> QED  BY <1>8, <2>1, <2>2, <2>3, GoesTyped DEF Commit, CreationTypeOK
<1>9. CASE CannotCommit(i)
  <2>1. drive' \in [Ids -> {"off", "making", "boundary", "calling", "final"}]
    BY <1>9 DEF CannotCommit, CreationTypeOK
  <2> QED  BY <1>9, <2>1, EndsTyped DEF CannotCommit, CreationTypeOK
<1>10. CASE Post(i)
  <2>1. home' \in [Ids -> SUBSET Homes]  BY <1>10, HomeTyped DEF Post, Homes
  <2> QED  BY <1>10, <2>1, GoesTyped DEF Post, CreationTypeOK
<1>11. CASE Killed(i)
  <2>1. drive' \in [Ids -> {"off", "making", "boundary", "calling", "final"}] /\ crashes' \in Nat
    BY <1>11 DEF Killed, CreationTypeOK
  <2> QED  BY <1>11, <2>1, EndsTyped DEF Killed, CreationTypeOK
<1>12. CASE Wake(i)  BY <1>12 DEF Wake, CreationTypeOK
<1>13. CASE Call(i)  BY <1>13 DEF Call, CreationTypeOK
<1>14. CASE Record(i)
  <2>1. home' \in [Ids -> SUBSET Homes]  BY <1>14, HomeTyped DEF Record, Homes
  <2>2. drive' \in [Ids -> {"off", "making", "boundary", "calling", "final"}]
    BY <1>14 DEF Record, CreationTypeOK
  <2>3. spent' \in [Ids -> Nat]  BY <1>14 DEF Record, CreationTypeOK
  <2> QED  BY <1>14, <2>1, <2>2, <2>3 DEF Record, CreationTypeOK
<1>15. CASE Answer(i)
  <2>1. drive' \in [Ids -> {"off", "making", "boundary", "calling", "final"}]
    BY <1>15, ConcludesTyped DEF Answer, CreationTypeOK
  <2> QED  BY <1>15, <2>1, ConcludesTyped DEF Answer, CreationTypeOK
<1>16. CASE OutOfBudget(i)
  <2>1. drive' \in [Ids -> {"off", "making", "boundary", "calling", "final"}]
    BY <1>16, ConcludesTyped DEF OutOfBudget, CreationTypeOK
  <2> QED  BY <1>16, <2>1, ConcludesTyped DEF OutOfBudget, CreationTypeOK
<1>17. CASE Bereft(i)  BY <1>17 DEF Bereft, CreationTypeOK
<1>18. CASE DriverDies(i)  BY <1>18 DEF DriverDies, CreationTypeOK
<1> QED  BY <1>1, <1>2, <1>3, <1>4, <1>5, <1>6, <1>7, <1>8, <1>9, <1>10, <1>11, <1>12,
            <1>13, <1>14, <1>15, <1>16, <1>17, <1>18

LEMMA DeleteTyped == LifeTypeOK /\ Delete => LifeTypeOK'
<1> SUFFICES ASSUME LifeTypeOK, Delete PROVE LifeTypeOK'  OBVIOUS
<1> USE DEF LifeTypeOK
<1>1. CASE \E r \in Ids, kids \in BOOLEAN : MarkRefs(r, kids)
  BY <1>1 DEF MarkRefs, creation, DeleteTypeOK, CreationTypeOK
<1>2. CASE List
  <2>1. Targets \subseteq Ids  BY DEF Targets, Subtree
  <2> QED  BY <1>2, <2>1 DEF List, creation, DeleteTypeOK, CreationTypeOK, Idle
<1>3. CASE Probe
  <2>1. Removals(del.ids, del.marks) \subseteq Ids \X Homes
    BY DEF Removals, Dirs, Homes, DeleteTypeOK
  <2> QED  BY <1>3, <2>1 DEF Probe, creation, DeleteTypeOK, CreationTypeOK, Idle
<1>4. CASE RemoveNext
  <2>1. PICK w \in del.work : Removes(w[1], w[2]) /\ del' = [del EXCEPT !.work = @ \ {w}]
    BY <1>4 DEF RemoveNext
  <2>2. w[1] \in Ids /\ w[2] \in Homes  BY <2>1 DEF DeleteTypeOK
  <2>3. PICK i \in Ids, h \in Homes : i = w[1] /\ h = w[2]  BY <2>2
  <2>4. Removes(i, h)  BY <2>1, <2>3
  <2>5. home' \in [Ids -> SUBSET Homes]  BY <2>4 DEF Removes, CreationTypeOK
  <2>6. worn' \in [Ids -> Wearable] /\ spent' \in [Ids -> Nat]
    BY <2>4 DEF Removes, CreationTypeOK, Wearable
  <2>7. committed' \subseteq Ids /\ mail' \subseteq Ids
    BY <2>4 DEF Removes, CreationTypeOK
  <2>8. DeleteTypeOK'  BY <1>4, <2>1 DEF RemoveNext, DeleteTypeOK
  <2> QED  BY <1>4, <2>5, <2>6, <2>7, <2>8 DEF RemoveNext, CreationTypeOK
<1>5. CASE Report  BY <1>5 DEF Report, creation, DeleteTypeOK, CreationTypeOK
<1>6. CASE DeleteKilled  BY <1>6 DEF DeleteKilled, DeleteTypeOK, CreationTypeOK, Idle
<1> QED  BY <1>1, <1>2, <1>3, <1>4, <1>5, <1>6 DEF Delete

LEMMA Typed == LifeTypeOK /\ [LifeNext]_lifeVars => LifeTypeOK'
<1> SUFFICES ASSUME LifeTypeOK, [LifeNext]_lifeVars PROVE LifeTypeOK'  OBVIOUS
<1>1. CASE /\ CreationNext
           /\ touched' = touched \cup {i \in Ids : ~(home'[i] \subseteq home[i])}
           /\ UNCHANGED <<del, deletes>>
  BY <1>1, CreationTyped DEF LifeTypeOK, DeleteTypeOK
<1>2. CASE Delete  BY <1>2, DeleteTyped
<1>3. CASE UNCHANGED lifeVars
  BY <1>3 DEF lifeVars, creation, LifeTypeOK, CreationTypeOK, DeleteTypeOK
<1> QED  BY <1>1, <1>2, <1>3 DEF LifeNext

\* What every step of a workspace keeps to: the types of its state.
THEOREM LifeTyping == LifeSpec => []LifeTypeOK
<1> QED  BY TypedInitially, Typed, PTL DEF LifeSpec

-----------------------------------------------------------------------------
(* Who is let in.                                                          *)

\* A creation that goes on is past its first step, and past the budget once
\* it was asked.
LEMMA GoesOn ==
    ASSUME CreationTypeOK, NEW i \in Ids, Goes(i),
           phase[i] \in {"ask", "name", "budget", "lock", "mark", "fork", "commit", "post"}
    PROVE  /\ \A j \in Ids \ {i} : phase'[j] = phase[j]
           /\ phase'[i] \notin {"ask", "refused"}
           /\ LetIn(i) => LetIn(i)'
           /\ phase[i] = "budget" => LetIn(i)'
<1>1. phase' = [phase EXCEPT ![i] = After(i)]  BY DEF Goes
<1>2. \A j \in Ids \ {i} : phase'[j] = phase[j]  BY <1>1 DEF CreationTypeOK
<1>3. phase'[i] = After(i)  BY <1>1 DEF CreationTypeOK
<1>4. CASE i \in Roots
  BY <1>2, <1>3, <1>4 DEF After, LetIn, CreationTypeOK
<1>5. CASE i \notin Roots
  BY <1>2, <1>3, <1>5 DEF After, LetIn, CreationTypeOK
<1> QED  BY <1>4, <1>5

\* Of those that make no step of their own, nothing changes.
LEMMA EntryFrame ==
    ASSUME EntryInv, NEW i \in Ids,
           \A j \in Ids \ {i} : phase'[j] = phase[j],
           LetIn(i) => LetIn(i)',
           \A j \in Ids : home'[j] # {} \/ drive'[j] # "off" => LetIn(j)',
           i \notin Roots /\ phase'[i] \notin {"ask", "refused"} => LetIn(Parent(i))
    PROVE  EntryInv' /\ \A j \in Ids : LetIn(j) => LetIn(j)'
<1>1. \A j \in Ids : LetIn(j) => LetIn(j)'  BY DEF LetIn
<1>2. ASSUME NEW j \in Ids \ Roots, phase'[j] \notin {"ask", "refused"}
      PROVE  LetIn(Parent(j))'
  <2>1. PICK p \in Ids : p = Parent(j)  BY ParentFact
  <2>2. LetIn(p)  BY <1>2, <2>1 DEF EntryInv
  <2>3. LetIn(p)'  BY <2>2, <1>1
  <2> QED  BY <2>1, <2>3 DEF Parent, LetIn
<1> QED  BY <1>1, <1>2 DEF EntryInv

\* Where no phase moves and nobody gains a home or a driver that was not let in.
LEMMA EntryStays ==
    ASSUME EntryInv, UNCHANGED phase,
           \A j \in Ids : home'[j] # {} \/ drive'[j] # "off" => LetIn(j)
    PROVE  EntryInv' /\ \A j \in Ids : LetIn(j) => LetIn(j)'
<1>1. \A j \in Ids : LetIn(j) => LetIn(j)'  BY DEF LetIn
<1>2. ASSUME NEW j \in Ids \ Roots, phase'[j] \notin {"ask", "refused"}
      PROVE  LetIn(Parent(j))'
  <2>1. PICK p \in Ids : p = Parent(j)  BY ParentFact
  <2>2. LetIn(p)  BY <1>2, <2>1 DEF EntryInv
  <2>3. LetIn(p)'  BY <2>2, <1>1
  <2> QED  BY <2>1, <2>3 DEF Parent, LetIn
<1> QED  BY <1>1, <1>2 DEF EntryInv

\* A terminal event gives homes to those who were let in.
LEMMA ConcludesEntered ==
    ASSUME CreationTypeOK, EntryInv, NEW i \in Ids, drive[i] # "off",
           NEW noted \in SUBSET {"mark"}, Concludes(i, noted), UNCHANGED phase
    PROVE  \A j \in Ids : home'[j] # {} \/ drive'[j] # "off" => LetIn(j)
<1>1. LetIn(i)  BY DEF EntryInv
<1>2. drive' = [drive EXCEPT ![i] = "off"]  BY DEF Concludes
<1>3. \A j \in Ids : drive'[j] # "off" => LetIn(j)  BY <1>2 DEF EntryInv, CreationTypeOK
<1>4. CASE i \in Roots
  <2>1. home' = [home EXCEPT ![i] = @ \cup noted]  BY <1>4 DEF Concludes, Gains
  <2> QED  BY <1>1, <1>3, <2>1 DEF EntryInv, CreationTypeOK
<1>5. CASE i \notin Roots
  <2>1. PICK p \in Ids : p = Parent(i)  BY <1>5, ParentFact
  <2>2. LetIn(p)  BY <1>1, <1>5, <2>1 DEF EntryInv, LetIn
  <2>3. home' = [home EXCEPT ![i] = @ \cup {"mark"}, ![p] = @ \cup {"inbox"}]
    BY <1>5, <2>1 DEF Concludes
  <2>4. \A j \in Ids \ {i, p} : home'[j] = home[j]  BY <2>3 DEF CreationTypeOK
  <2> QED  BY <1>1, <1>3, <2>2, <2>4 DEF EntryInv
<1> QED  BY <1>4, <1>5

LEMMA CreationEntered ==
    ASSUME CreationTypeOK, EntryInv, CreationNext
    PROVE  EntryInv' /\ \A j \in Ids : LetIn(j) => LetIn(j)'
<1> SUFFICES ASSUME NEW i \in Ids,
                    \/ Ask(i) \/ Name(i) \/ Budget(i) \/ Lock(i) \/ SeedCwd(i) \/ Fork(i)
                    \/ CannotFork(i) \/ Commit(i) \/ CannotCommit(i) \/ Post(i) \/ Killed(i)
                    \/ Wake(i) \/ Call(i) \/ Record(i) \/ Answer(i) \/ OutOfBudget(i)
                    \/ Bereft(i) \/ DriverDies(i)
             PROVE  EntryInv' /\ \A j \in Ids : LetIn(j) => LetIn(j)'
  BY DEF CreationNext
<1>0. \A j \in Ids : home[j] # {} \/ drive[j] # "off" => LetIn(j)  BY DEF EntryInv
<1>e. ASSUME NEW how, Ends(i, how) PROVE /\ \A j \in Ids \ {i} : phase'[j] = phase[j]
                                         /\ phase'[i] = how
  BY <1>e DEF Ends, CreationTypeOK
<1>1. CASE Ask(i)
  <2>1. ~LetIn(i) /\ UNCHANGED <<home, drive>>  BY <1>1 DEF Ask, LetIn
  <2>2. home[i] = {} /\ drive[i] = "off"  BY <2>1, <1>0
  <2>3. /\ \A j \in Ids \ {i} : phase'[j] = phase[j]
        /\ i \notin Roots /\ phase'[i] \notin {"ask", "refused"} => Parent(i) \in Agents
    BY <1>1, GoesOn, <1>e DEF Ask, Validates
  <2>4. i \notin Roots /\ phase'[i] \notin {"ask", "refused"} => LetIn(Parent(i))
    BY <2>3, <1>0 DEF Agents
  <2>5. \A j \in Ids : home'[j] # {} \/ drive'[j] # "off" => LetIn(j)'
    BY <2>1, <2>2, <2>3, <1>0 DEF LetIn
  <2> QED  BY <2>1, <2>3, <2>4, <2>5, EntryFrame
<1>2. CASE Name(i)
  <2>1. ~LetIn(i) /\ UNCHANGED <<home, drive>>  BY <1>2 DEF Name, LetIn
  <2>2. home[i] = {} /\ drive[i] = "off"  BY <2>1, <1>0
  <2>3. \A j \in Ids \ {i} : phase'[j] = phase[j]
    BY <1>2, GoesOn, <1>e DEF Name
  <2>4. i \notin Roots => LetIn(Parent(i))  BY <1>2 DEF EntryInv, Name
  <2>5. \A j \in Ids : home'[j] # {} \/ drive'[j] # "off" => LetIn(j)'
    BY <2>1, <2>2, <2>3, <1>0 DEF LetIn
  <2> QED  BY <2>1, <2>3, <2>4, <2>5, EntryFrame
<1>3. CASE Budget(i)
  <2>1. ~LetIn(i) /\ UNCHANGED <<home, drive>>  BY <1>3 DEF Budget, LetIn
  <2>2. home[i] = {} /\ drive[i] = "off"  BY <2>1, <1>0
  <2>3. \A j \in Ids \ {i} : phase'[j] = phase[j]
    BY <1>3, GoesOn, <1>e DEF Budget
  <2>4. i \notin Roots => LetIn(Parent(i))  BY <1>3 DEF EntryInv, Budget
  <2>5. \A j \in Ids : home'[j] # {} \/ drive'[j] # "off" => LetIn(j)'
    BY <2>1, <2>2, <2>3, <1>0 DEF LetIn
  <2> QED  BY <2>1, <2>3, <2>4, <2>5, EntryFrame
<1>4. CASE Lock(i) \/ SeedCwd(i) \/ Fork(i) \/ Commit(i) \/ Post(i)
  <2>1. Goes(i) /\ phase[i] \in {"lock", "mark", "fork", "commit", "post"}
    BY <1>4 DEF Lock, SeedCwd, Fork, Commit, Post
  <2>2. LetIn(i)  BY <2>1 DEF LetIn
  <2>3. LetIn(i)' /\ \A j \in Ids \ {i} : phase'[j] = phase[j]  BY <2>1, <2>2, GoesOn
  <2>4. i \notin Roots => LetIn(Parent(i))  BY <2>1 DEF EntryInv
  <2>5. \A j \in Ids \ {i} : home'[j] = home[j] /\ drive'[j] = drive[j]
    BY <1>4 DEF Lock, SeedCwd, Fork, Commit, Post, Gains, CreationTypeOK
  <2>6. \A j \in Ids : home'[j] # {} \/ drive'[j] # "off" => LetIn(j)'
    BY <2>3, <2>5, <1>0 DEF LetIn
  <2> QED  BY <2>3, <2>4, <2>6, EntryFrame
<1>5. CASE CannotFork(i) \/ CannotCommit(i) \/ Killed(i)
  <2>1. Ends(i, "failed") /\ UNCHANGED home
    BY <1>5 DEF CannotFork, CannotCommit, Killed
  <2>2. LetIn(i)' /\ \A j \in Ids \ {i} : phase'[j] = phase[j]  BY <2>1, <1>e DEF LetIn
  <2>3. i \notin Roots => LetIn(Parent(i))
    BY <1>5 DEF EntryInv, CannotFork, CannotCommit, Killed
  <2>4. \A j \in Ids \ {i} : drive'[j] = drive[j]
    BY <1>5 DEF CannotFork, CannotCommit, Killed, CreationTypeOK
  <2>5. \A j \in Ids : home'[j] # {} \/ drive'[j] # "off" => LetIn(j)'
    BY <2>1, <2>2, <2>4, <1>0 DEF LetIn
  <2> QED  BY <2>2, <2>3, <2>5, EntryFrame
<1>6. CASE Wake(i)
  <2>1. LetIn(i)  BY <1>6, <1>0 DEF Wake, Agents
  <2>2. \A j \in Ids \ {i} : drive'[j] = drive[j]  BY <1>6 DEF Wake, CreationTypeOK
  <2> QED  BY <1>6, <2>1, <2>2, <1>0, EntryStays DEF Wake
<1>7. CASE Call(i) \/ Record(i)
  <2>1. LetIn(i)  BY <1>7, <1>0 DEF Call, Record
  <2>2. \A j \in Ids \ {i} : drive'[j] = drive[j] /\ home'[j] = home[j]
    BY <1>7 DEF Call, Record, Gains, CreationTypeOK
  <2>3. UNCHANGED phase  BY <1>7 DEF Call, Record
  <2>4. \A j \in Ids : home'[j] # {} \/ drive'[j] # "off" => LetIn(j)  BY <2>1, <2>2, <1>0
  <2> QED  BY <2>3, <2>4, EntryStays
<1>8. CASE Answer(i) \/ OutOfBudget(i)
  <2>1. UNCHANGED phase /\ drive[i] # "off"  BY <1>8 DEF Answer, OutOfBudget
  <2>2. PICK noted \in SUBSET {"mark"} : Concludes(i, noted)  BY <1>8 DEF Answer, OutOfBudget
  <2> QED  BY <2>1, <2>2, ConcludesEntered, EntryStays
<1>9. CASE Bereft(i) \/ DriverDies(i)
  <2>1. \A j \in Ids : drive'[j] # "off" => drive[j] # "off"
    BY <1>9 DEF Bereft, DriverDies, CreationTypeOK
  <2>2. UNCHANGED <<phase, home>>  BY <1>9 DEF Bereft, DriverDies
  <2>3. \A j \in Ids : home'[j] # {} \/ drive'[j] # "off" => LetIn(j)  BY <2>1, <2>2, <1>0
  <2> QED  BY <2>2, <2>3, EntryStays
<1> QED  BY <1>1, <1>2, <1>3, <1>4, <1>5, <1>6, <1>7, <1>8, <1>9

\* A delete moves no creation and removes homes only.
LEMMA DeleteShrinks ==
    ASSUME LifeTypeOK, Delete
    PROVE  /\ UNCHANGED <<phase, given, drive, overlapped>>
           /\ \A j \in Ids : home'[j] \subseteq home[j] /\ spent'[j] <= spent[j]
<1>1. CASE RemoveNext
  <2>1. PICK w \in del.work : Removes(w[1], w[2])  BY <1>1 DEF RemoveNext
  <2>2. PICK i \in Ids, h \in Homes : i = w[1] /\ h = w[2]
    BY <2>1 DEF LifeTypeOK, DeleteTypeOK
  <2>3. Removes(i, h)  BY <2>1, <2>2
  <2>4. \A j \in Ids : home'[j] \subseteq home[j]
    BY <2>3 DEF Removes, LifeTypeOK, CreationTypeOK
  <2>5. \A j \in Ids : spent'[j] <= spent[j]
    BY <2>3 DEF Removes, LifeTypeOK, CreationTypeOK
  <2> QED  BY <1>1, <2>4, <2>5 DEF RemoveNext
<1>2. CASE ~RemoveNext
  <2>1. UNCHANGED <<phase, given, drive, overlapped, home, spent>>
    BY <1>2 DEF Delete, MarkRefs, List, Probe, Report, DeleteKilled, creation
  <2> QED  BY <2>1 DEF LifeTypeOK, CreationTypeOK
<1> QED  BY <1>1, <1>2

LEMMA Entered ==
    ASSUME LifeTypeOK, EntryInv, [LifeNext]_lifeVars
    PROVE  EntryInv' /\ \A j \in Ids : LetIn(j) => LetIn(j)'
<1>1. CASE CreationNext  BY <1>1, CreationEntered DEF LifeTypeOK
<1>2. CASE Delete
  <2>1. UNCHANGED <<phase, drive>> /\ \A j \in Ids : home'[j] \subseteq home[j]
    BY <1>2, DeleteShrinks
  <2>2. \A j \in Ids : home'[j] # {} \/ drive'[j] # "off" => LetIn(j)  BY <2>1 DEF EntryInv
  <2> QED  BY <2>1, <2>2, EntryStays
<1>3. CASE UNCHANGED lifeVars
  <2>1. UNCHANGED <<phase, home, drive>>  BY <1>3 DEF lifeVars, creation
  <2>2. \A j \in Ids : home'[j] # {} \/ drive'[j] # "off" => LetIn(j)  BY <2>1 DEF EntryInv
  <2> QED  BY <2>1, <2>2, EntryStays
<1> QED  BY <1>1, <1>2, <1>3 DEF LifeNext

-----------------------------------------------------------------------------
(* What a conversation spends.                                             *)

\* A record of so many steps each, of a set of agents, is finite.
LEMMA RecordFinite ==
    ASSUME NEW S, S \subseteq Ids, NEW f \in [Ids -> Nat]
    PROVE  IsFiniteSet(UNION {{j} \X (1..f[j]) : j \in S})
<1> DEFINE F == [j \in S |-> {j} \X (1..f[j])]
           T == {{j} \X (1..f[j]) : j \in S}
<1>1. IsFiniteSet(S)  BY IdsFinite
<1>2. F \in Surjection(S, T)  BY DEF Surjection
<1>3. IsFiniteSet(T)  BY <1>1, <1>2, FS_Surjection
<1>4. ASSUME NEW U \in T PROVE IsFiniteSet(U)
  <2>1. PICK j \in S : U = {j} \X (1..f[j])  BY <1>4
  <2>2. f[j] \in Nat  BY <2>1
  <2>3. IsFiniteSet(1..f[j])  BY <2>2, FS_Interval
  <2>4. IsFiniteSet({j})  BY FS_Singleton
  <2> QED  BY <2>1, <2>3, <2>4, FS_Product
<1>5. IsFiniteSet(UNION T)  BY <1>3, <1>4, FS_UNION
<1> QED  BY <1>5

LEMMA RecordedFinite ==
    ASSUME CreationTypeOK, NEW r
    PROVE  IsFiniteSet(Recorded(r)) /\ Cardinality(Recorded(r)) \in Nat
<1>1. Subtree(r) \subseteq Ids  BY DEF Subtree
<1>2. spent \in [Ids -> Nat]  BY DEF CreationTypeOK
<1>3. IsFiniteSet(UNION {{j} \X (1..spent[j]) : j \in Subtree(r)})
  BY <1>1, <1>2, RecordFinite
<1>4. Recorded(r) = UNION {{j} \X (1..spent[j]) : j \in Subtree(r)}  BY DEF Recorded
<1>5. IsFiniteSet(Recorded(r))  BY <1>3, <1>4
<1> QED  BY <1>5, FS_CardinalityType

LEMMA RecordedFiniteNext ==
    ASSUME CreationTypeOK', NEW r
    PROVE  IsFiniteSet(Recorded(r)') /\ Cardinality(Recorded(r)') \in Nat
<1>1. Subtree(r) \subseteq Ids  BY DEF Subtree
<1>2. spent' \in [Ids -> Nat]  BY DEF CreationTypeOK
<1>3. Recorded(r)' = UNION {{j} \X (1..spent'[j]) : j \in Subtree(r)}
  BY DEF Recorded, Subtree
<1>4. IsFiniteSet(Recorded(r)')  BY <1>1, <1>2, <1>3, RecordFinite
<1> QED  BY <1>4, FS_CardinalityType

\* Who is in, and who calls, are ids.
LEMMA CountsTyped ==
    ASSUME NEW r
    PROVE  /\ IsFiniteSet(Inside(r)) /\ Cardinality(Inside(r)) \in Nat
           /\ IsFiniteSet(Calling(r)) /\ Cardinality(Calling(r)) \in Nat
<1>1. Inside(r) \subseteq Ids /\ Calling(r) \subseteq Ids  BY DEF Inside, Calling, Subtree
<1> QED  BY <1>1, IdsFinite

LEMMA CountsTypedNext ==
    ASSUME NEW r
    PROVE  /\ IsFiniteSet(Inside(r)') /\ Cardinality(Inside(r)') \in Nat
           /\ IsFiniteSet(Calling(r)') /\ Cardinality(Calling(r)') \in Nat
<1>1. Inside(r)' \subseteq Ids /\ Calling(r)' \subseteq Ids  BY DEF Inside, Calling, Subtree
<1> QED  BY <1>1, IdsFinite

\* A conversation in which no step is recorded and no call is begun.
LEMMA FundFrame ==
    ASSUME CreationTypeOK, CreationTypeOK', NEW r,
           \A j \in Subtree(r) : /\ spent'[j] <= spent[j]
                                 /\ drive'[j] = "calling" => drive[j] = "calling"
                                 /\ LetIn(j) => LetIn(j)',
           Cardinality(Recorded(r)) + Cardinality(Calling(r))
               <= Limit - 1 + Cardinality(Inside(r))
    PROVE  (Cardinality(Recorded(r)) + Cardinality(Calling(r))
               <= Limit - 1 + Cardinality(Inside(r)))'
<1>1. Recorded(r)' \subseteq Recorded(r)
  <2>1. Subtree(r) \subseteq Ids /\ Subtree(r)' = Subtree(r)  BY DEF Subtree
  <2>2. \A j \in Subtree(r) : 1..spent'[j] \subseteq 1..spent[j]
    BY <2>1 DEF CreationTypeOK
  <2>3. Recorded(r) = UNION {{j} \X (1..spent[j]) : j \in Subtree(r)}  BY DEF Recorded
  <2>4. Recorded(r)' = UNION {{j} \X (1..spent'[j]) : j \in Subtree(r)}
    BY <2>1 DEF Recorded
  <2> QED  BY <2>2, <2>3, <2>4
<1>2. Calling(r)' \subseteq Calling(r)  BY DEF Calling, Subtree
<1>3. Inside(r) \subseteq Inside(r)'  BY DEF Inside, Subtree
<1>4. Cardinality(Recorded(r)') <= Cardinality(Recorded(r))
  BY <1>1, RecordedFinite, FS_Subset
<1>5. Cardinality(Calling(r)') <= Cardinality(Calling(r))
  BY <1>2, CountsTyped, FS_Subset
<1>6. Cardinality(Inside(r)) <= Cardinality(Inside(r)')
  BY <1>3, CountsTypedNext, FS_Subset
<1>7. /\ Cardinality(Recorded(r)) \in Nat /\ Cardinality(Recorded(r)') \in Nat
      /\ Cardinality(Calling(r)) \in Nat /\ Cardinality(Calling(r)') \in Nat
      /\ Cardinality(Inside(r)) \in Nat /\ Cardinality(Inside(r)') \in Nat
  BY RecordedFinite, RecordedFiniteNext, CountsTyped, CountsTypedNext
<1> QED  BY <1>4, <1>5, <1>6, <1>7, LimitAssumption

\* A call begins only while a step still fits: all who call, the new one
\* with them, are among those who were let in.
LEMMA CallFunded ==
    ASSUME CreationTypeOK, CreationTypeOK', EntryInv', FundInv, NEW i \in Ids, Call(i)
    PROVE  FundInv'
<1> SUFFICES ASSUME NEW r \in Roots
             PROVE  (Cardinality(Recorded(r)) + Cardinality(Calling(r))
                        <= Limit - 1 + Cardinality(Inside(r)))'
  BY DEF FundInv, Roots
<1>1. /\ drive' = [drive EXCEPT ![i] = "calling"] /\ UNCHANGED <<phase, spent>>
      /\ ~Exhausted(i)
  BY DEF Call
<1>2. CASE i \notin Subtree(r)
  <2>1. \A j \in Subtree(r) : /\ spent'[j] <= spent[j]
                              /\ drive'[j] = "calling" => drive[j] = "calling"
                              /\ LetIn(j) => LetIn(j)'
    BY <1>1, <1>2 DEF CreationTypeOK, LetIn, Subtree
  <2>2. Cardinality(Recorded(r)) + Cardinality(Calling(r))
            <= Limit - 1 + Cardinality(Inside(r))
    BY DEF FundInv
  <2> QED  BY <2>1, <2>2, FundFrame
<1>3. CASE i \in Subtree(r)
  <2>1. r = RootOf(i)  BY <1>3, RootFact
  <2>2. ~(Cardinality(Recorded(r)) >= Limit)  BY <1>1, <2>1 DEF Exhausted, Spend
  <2>3. Recorded(r)' = Recorded(r)  BY <1>1 DEF Recorded, Subtree
  <2>4. Calling(r)' \subseteq Inside(r)'  BY DEF Calling, Inside, Subtree, EntryInv
  <2>5. Cardinality(Calling(r)') <= Cardinality(Inside(r)')
    BY <2>4, CountsTypedNext, FS_Subset
  <2>6. /\ Cardinality(Recorded(r)) \in Nat
        /\ Cardinality(Calling(r)') \in Nat /\ Cardinality(Inside(r)') \in Nat
    BY RecordedFinite, CountsTypedNext
  <2> QED  BY <2>2, <2>3, <2>5, <2>6, LimitAssumption
<1> QED  BY <1>2, <1>3

\* A recorded step was being called.
LEMMA RecordFunded ==
    ASSUME CreationTypeOK, CreationTypeOK', FundInv, NEW i \in Ids, Record(i)
    PROVE  FundInv'
<1> SUFFICES ASSUME NEW r \in Roots
             PROVE  (Cardinality(Recorded(r)) + Cardinality(Calling(r))
                        <= Limit - 1 + Cardinality(Inside(r)))'
  BY DEF FundInv, Roots
<1>1. PICK next \in {"boundary", "final"} : drive' = [drive EXCEPT ![i] = next]
  BY DEF Record
<1>2. /\ drive[i] = "calling" /\ UNCHANGED phase
      /\ spent' = [spent EXCEPT ![i] = @ + 1]
  BY DEF Record
<1>3. Cardinality(Recorded(r)) + Cardinality(Calling(r))
          <= Limit - 1 + Cardinality(Inside(r))
  BY DEF FundInv
<1>4. CASE i \notin Subtree(r)
  <2>1. \A j \in Subtree(r) : /\ spent'[j] <= spent[j]
                              /\ drive'[j] = "calling" => drive[j] = "calling"
                              /\ LetIn(j) => LetIn(j)'
    BY <1>1, <1>2, <1>4 DEF CreationTypeOK, LetIn, Subtree
  <2> QED  BY <1>3, <2>1, FundFrame
<1>5. CASE i \in Subtree(r)
  <2>1. spent[i] \in Nat /\ spent'[i] = spent[i] + 1
    BY <1>2 DEF CreationTypeOK
  <2>2. Subtree(r)' = Subtree(r) /\ Subtree(r) \subseteq Ids  BY DEF Subtree
  <2>3. Recorded(r)' \subseteq Recorded(r) \cup {<<i, spent[i] + 1>>}
    <3>1. Recorded(r)' = UNION {{j} \X (1..spent'[j]) : j \in Subtree(r)}
      BY <2>2 DEF Recorded
    <3>2. \A j \in Subtree(r) \ {i} : spent'[j] = spent[j]  BY <1>2, <2>2 DEF CreationTypeOK
    <3>3. {i} \X (1..spent'[i]) \subseteq ({i} \X (1..spent[i])) \cup {<<i, spent[i] + 1>>}
      BY <2>1
    <3>4. \A j \in Subtree(r) :
              {j} \X (1..spent'[j]) \subseteq Recorded(r) \cup {<<i, spent[i] + 1>>}
      BY <3>2, <3>3 DEF Recorded
    <3> QED  BY <3>1, <3>4
  <2>4. Cardinality(Recorded(r)') <= Cardinality(Recorded(r)) + 1
    <3>1. /\ IsFiniteSet(Recorded(r) \cup {<<i, spent[i] + 1>>})
          /\ Cardinality(Recorded(r) \cup {<<i, spent[i] + 1>>}) <= Cardinality(Recorded(r)) + 1
      BY RecordedFinite, FS_AddElement
    <3>2. Cardinality(Recorded(r)') <= Cardinality(Recorded(r) \cup {<<i, spent[i] + 1>>})
      BY <2>3, <3>1, FS_Subset
    <3>3. Cardinality(Recorded(r) \cup {<<i, spent[i] + 1>>}) \in Nat
      BY <3>1, FS_CardinalityType
    <3> QED  BY <3>1, <3>2, <3>3, RecordedFinite, RecordedFiniteNext
  <2>5. Calling(r)' = Calling(r) \ {i} /\ i \in Calling(r)
    BY <1>1, <1>2, <1>5, <2>2 DEF Calling, CreationTypeOK
  <2>6. Cardinality(Calling(r)') = Cardinality(Calling(r)) - 1
    BY <2>5, CountsTyped, FS_RemoveElement
  <2>7. Inside(r)' = Inside(r)  BY <1>2, <2>2 DEF Inside, LetIn
  <2>8. /\ Cardinality(Recorded(r)) \in Nat /\ Cardinality(Recorded(r)') \in Nat
        /\ Cardinality(Calling(r)) \in Nat /\ Cardinality(Inside(r)) \in Nat
    BY RecordedFinite, RecordedFiniteNext, CountsTyped
  <2> QED  BY <1>3, <2>4, <2>6, <2>7, <2>8, LimitAssumption
<1> QED  BY <1>4, <1>5

\* Whatever is created, called, recorded or deleted, the conversations stay
\* within what they were let in for.
LEMMA FundStep ==
    ASSUME LifeTypeOK, LifeTypeOK', EntryInv, EntryInv', FundInv, [LifeNext]_lifeVars
    PROVE  FundInv'
<1> USE DEF LifeTypeOK
<1>1. \A j \in Ids : LetIn(j) => LetIn(j)'  BY Entered
<1>2. ASSUME \A j \in Ids : /\ spent'[j] <= spent[j]
                            /\ drive'[j] = "calling" => drive[j] = "calling"
      PROVE  FundInv'
  <2> SUFFICES ASSUME NEW r \in Roots
               PROVE  (Cardinality(Recorded(r)) + Cardinality(Calling(r))
                          <= Limit - 1 + Cardinality(Inside(r)))'
    BY DEF FundInv, Roots
  <2>1. Subtree(r) \subseteq Ids  BY DEF Subtree
  <2>2. Cardinality(Recorded(r)) + Cardinality(Calling(r))
            <= Limit - 1 + Cardinality(Inside(r))
    BY DEF FundInv
  <2> QED  BY <1>1, <1>2, <2>1, <2>2, FundFrame
<1>3. ASSUME UNCHANGED spent,
             \A j \in Ids : drive'[j] = "calling" => drive[j] = "calling"
      PROVE  FundInv'
  <2>1. \A j \in Ids : spent'[j] <= spent[j]  BY <1>3 DEF CreationTypeOK
  <2> QED  BY <1>2, <1>3, <2>1
<1>4. ASSUME NEW i \in Ids,
             \/ Ask(i) \/ Name(i) \/ Budget(i) \/ SeedCwd(i) \/ Fork(i)
             \/ CannotFork(i) \/ Post(i)
      PROVE  FundInv'
  BY <1>4, <1>3 DEF Ask, Name, Budget, SeedCwd, Fork, CannotFork, Post
<1>5. ASSUME NEW i \in Ids,
             \/ Lock(i) \/ Commit(i) \/ CannotCommit(i) \/ Killed(i) \/ Wake(i)
             \/ Bereft(i) \/ DriverDies(i)
      PROVE  FundInv'
  <2>1. UNCHANGED spent
    BY <1>5 DEF Lock, Commit, CannotCommit, Killed, Wake, Bereft, DriverDies
  <2>2. \A j \in Ids : drive'[j] = "calling" => drive[j] = "calling"
    BY <1>5 DEF Lock, Commit, CannotCommit, Killed, Wake, Bereft, DriverDies, CreationTypeOK
  <2> QED  BY <1>3, <2>1, <2>2
<1>6. ASSUME NEW i \in Ids, Answer(i) \/ OutOfBudget(i)
      PROVE  FundInv'
  <2>1. UNCHANGED spent /\ drive' = [drive EXCEPT ![i] = "off"]
    BY <1>6 DEF Answer, OutOfBudget, Concludes
  <2> QED  BY <1>3, <2>1 DEF CreationTypeOK
<1>7. ASSUME NEW i \in Ids, Call(i) PROVE FundInv'  BY <1>7, CallFunded
<1>8. ASSUME NEW i \in Ids, Record(i) PROVE FundInv'  BY <1>8, RecordFunded
<1>9. CASE Delete
  <2>1. UNCHANGED drive /\ \A j \in Ids : spent'[j] <= spent[j]  BY <1>9, DeleteShrinks
  <2> QED  BY <1>2, <2>1
<1>10. CASE UNCHANGED lifeVars  BY <1>10, <1>3 DEF lifeVars, creation
<1> QED  BY <1>4, <1>5, <1>6, <1>7, <1>8, <1>9, <1>10 DEF LifeNext, CreationNext

-----------------------------------------------------------------------------
(* Who wears which name.                                                   *)

\* The names stay told apart where nobody comes to wear one.
LEMMA NameFrame ==
    ASSUME NameInv, UNCHANGED given, overlapped \subseteq overlapped',
           \A j \in Ids : MayWear(j)' => MayWear(j),
           \A j \in committed' : "ref" \in home'[j] /\ worn'[j] = given[j]
                                 /\ phase'[j] \in {"post", "made", "failed"},
           \A j \in Roots \cap committed' : phase'[j] # "post"
    PROVE  NameInv'
BY DEF NameInv, Roots

\* Where no creation moves, and no committed agent loses its ref or its name.
LEMMA NameStays ==
    ASSUME CreationTypeOK, NameInv, UNCHANGED <<given, phase, overlapped>>,
           committed' \subseteq committed,
           \A j \in committed' : ("ref" \in home[j] => "ref" \in home'[j]) /\ worn'[j] = worn[j]
    PROVE  NameInv'
<1>1. \A j \in Ids : MayWear(j)' => MayWear(j)  BY DEF MayWear, Roots
<1>2. \A j \in committed' : "ref" \in home'[j] /\ worn'[j] = given[j]
                            /\ phase'[j] \in {"post", "made", "failed"}
  BY DEF NameInv
<1>3. \A j \in Roots \cap committed' : phase'[j] # "post"  BY DEF NameInv
<1> QED  BY <1>1, <1>2, <1>3, NameFrame

\* Where one creation moves that is not committed, or only ends.
LEMMA NameMoves ==
    ASSUME CreationTypeOK, NameInv, NEW i \in Ids,
           UNCHANGED <<given, committed, overlapped>>,
           \A j \in Ids \ {i} : phase'[j] = phase[j] /\ worn'[j] = worn[j],
           \A j \in Ids : home[j] \subseteq home'[j],
           MayWear(i)' => MayWear(i),
           i \in committed => worn'[i] = worn[i] /\ phase'[i] \in {"made", "failed"}
    PROVE  NameInv'
<1>1. \A j \in Ids : MayWear(j)' => MayWear(j)  BY DEF MayWear, Roots
<1>2. \A j \in committed' : "ref" \in home'[j] /\ worn'[j] = given[j]
                            /\ phase'[j] \in {"post", "made", "failed"}
  BY DEF NameInv, CreationTypeOK
<1>3. \A j \in Roots \cap committed' : phase'[j] # "post"
  BY DEF NameInv, CreationTypeOK
<1> QED  BY <1>1, <1>2, <1>3, NameFrame

LEMMA GainsGrows ==
    ASSUME CreationTypeOK, NEW i \in Ids, NEW hs, Gains(i, hs)
    PROVE  \A j \in Ids : home[j] \subseteq home'[j]
BY DEF Gains, CreationTypeOK

LEMMA ConcludesGrows ==
    ASSUME CreationTypeOK, NEW i \in Ids, NEW noted, Concludes(i, noted)
    PROVE  \A j \in Ids : home[j] \subseteq home'[j]
<1>1. CASE i \in Roots  BY <1>1, GainsGrows DEF Concludes
<1>2. CASE i \notin Roots
  <2>1. PICK p \in Ids : p = Parent(i)  BY <1>2, ParentFact
  <2>2. home' = [home EXCEPT ![i] = @ \cup {"mark"}, ![p] = @ \cup {"inbox"}]
    BY <1>2, <2>1 DEF Concludes
  <2> QED  BY <2>2 DEF CreationTypeOK
<1> QED  BY <1>1, <1>2

\* A name is settled on that no agent wears; who was on the way to wear it
\* was being created at the same time.
LEMMA NameSettled ==
    ASSUME CreationTypeOK, NameInv, NEW i \in Ids, Name(i)
    PROVE  NameInv'
<1>0. /\ phase[i] = "name" /\ UNCHANGED <<home, committed, worn>>
      /\ overlapped' = overlapped \cup {{i, j} : j \in Making \ committed}
  BY DEF Name
<1>1. i \notin committed  BY <1>0 DEF NameInv
<1>2. \A j \in Ids \ {i} : phase'[j] = phase[j]
  BY <1>0, GoesOn DEF Name, Ends, CreationTypeOK
<1>3. CASE Ends(i, "refused") /\ UNCHANGED given
  <2>1. phase'[i] = "refused"  BY <1>3 DEF Ends, CreationTypeOK
  <2>2. MayWear(i)' => MayWear(i)  BY <2>1, <1>0, <1>1 DEF MayWear
  <2>3. \A j \in Ids : MayWear(j)' => MayWear(j)  BY <2>2, <1>0, <1>2 DEF MayWear, Roots
  <2>4. \A j \in committed' : "ref" \in home'[j] /\ worn'[j] = given[j]
                              /\ phase'[j] \in {"post", "made", "failed"}
    BY <1>0, <1>1, <1>2 DEF NameInv, CreationTypeOK
  <2>5. \A j \in Roots \cap committed' : phase'[j] # "post"
    BY <1>0, <1>1, <1>2 DEF NameInv, CreationTypeOK
  <2> QED  BY <1>0, <1>3, <2>3, <2>4, <2>5, NameFrame
<1>4. ASSUME NEW n \in Free(i), given' = [given EXCEPT ![i] = n], Goes(i)
      PROVE  NameInv'
  <2>1. \A j \in Ids \ {i} : given'[j] = given[j] /\ (MayWear(j)' => MayWear(j))
    BY <1>4, <1>0, <1>2 DEF CreationTypeOK, MayWear, Roots
  <2>2. given'[i] = n  BY <1>4 DEF CreationTypeOK
  <2>3. ASSUME NEW j \in Ids \ {i}, MayWear(j), given[j] = n
        PROVE  {i, j} \in overlapped'
    <3>1. j \notin committed
      <4>1. j \in committed => j \in Agents /\ worn[j] = n  BY <2>3 DEF NameInv, Agents
      <4> QED  BY <4>1, <1>4 DEF Free
    <3>2. j \in Making  BY <2>3, <3>1 DEF MayWear, Making
    <3> QED  BY <3>1, <3>2, <1>0
  <2>4. ASSUME NEW j \in Ids, NEW k \in Ids, j # k, MayWear(j)', MayWear(k)', given'[j] = given'[k]
        PROVE  {j, k} \in overlapped'
    <3>1. CASE j = i
      <4>1. k \in Ids \ {i} /\ MayWear(k) /\ given[k] = n  BY <2>4, <2>1, <2>2, <3>1
      <4> QED  BY <4>1, <2>3, <3>1
    <3>2. CASE k = i
      <4>1. j \in Ids \ {i} /\ MayWear(j) /\ given[j] = n  BY <2>4, <2>1, <2>2, <3>2
      <4>2. {i, j} \in overlapped'  BY <4>1, <2>3
      <4>3. {i, j} = {j, k}  BY <3>2
      <4> QED  BY <4>2, <4>3
    <3>3. CASE j # i /\ k # i
      <4>1. MayWear(j) /\ MayWear(k) /\ given[j] = given[k]  BY <2>4, <2>1, <3>3
      <4>2. {j, k} \in overlapped  BY <4>1, <2>4 DEF NameInv
      <4> QED  BY <4>2, <1>0
    <3> QED  BY <3>1, <3>2, <3>3
  <2>5. \A j \in committed' : "ref" \in home'[j] /\ worn'[j] = given'[j]
                              /\ phase'[j] \in {"post", "made", "failed"}
    BY <1>0, <1>1, <1>2, <2>1 DEF NameInv, CreationTypeOK
  <2>6. \A j \in Roots \cap committed' : phase'[j] # "post"
    BY <1>0, <1>1, <1>2 DEF NameInv, CreationTypeOK
  <2> QED  BY <2>4, <2>5, <2>6 DEF NameInv, Roots
<1> QED  BY <1>3, <1>4 DEF Name

\* The dispatch commit makes the agent wear what it was given.
LEMMA NameCommitted ==
    ASSUME CreationTypeOK, NameInv, NEW i \in Ids, Commit(i)
    PROVE  NameInv'
<1>1. /\ phase[i] = "commit" /\ {"ref", "worktree"} \subseteq home[i] /\ Goes(i)
      /\ worn' = [worn EXCEPT ![i] = given[i]] /\ committed' = committed \cup {i}
      /\ UNCHANGED <<given, home, overlapped>>
  BY DEF Commit
<1>2. phase' = [phase EXCEPT ![i] = After(i)]  BY <1>1 DEF Goes
<1>3. \A j \in Ids \ {i} : phase'[j] = phase[j] /\ worn'[j] = worn[j]
  BY <1>1, <1>2 DEF CreationTypeOK
<1>4. worn'[i] = given[i]  BY <1>1 DEF CreationTypeOK
<1>5. phase'[i] = IF i \in Roots THEN "made" ELSE "post"
  <2>1. phase'[i] = After(i)  BY <1>2 DEF CreationTypeOK
  <2>2. CASE i \in Roots  BY <2>1, <2>2, <1>1 DEF After
  <2>3. CASE i \notin Roots  BY <2>1, <2>3, <1>1 DEF After
  <2> QED  BY <2>2, <2>3
<1>6. MayWear(i)  BY <1>1 DEF MayWear
<1>7. \A j \in Ids : MayWear(j)' => MayWear(j)  BY <1>1, <1>3, <1>6 DEF MayWear, Roots
<1>8. \A j \in committed' : "ref" \in home'[j] /\ worn'[j] = given[j]
                            /\ phase'[j] \in {"post", "made", "failed"}
  <2>1. \A j \in committed : j # i  BY <1>1 DEF NameInv
  <2>2. \A j \in committed : "ref" \in home'[j] /\ worn'[j] = given[j]
                             /\ phase'[j] \in {"post", "made", "failed"}
    BY <2>1, <1>1, <1>3 DEF NameInv, CreationTypeOK
  <2>3. "ref" \in home'[i] /\ worn'[i] = given[i] /\ phase'[i] \in {"post", "made", "failed"}
    BY <1>1, <1>4, <1>5
  <2> QED  BY <1>1, <2>2, <2>3
<1>9. \A j \in Roots \cap committed' : phase'[j] # "post"
  BY <1>1, <1>3, <1>5 DEF NameInv, Roots
<1> QED  BY <1>1, <1>7, <1>8, <1>9, NameFrame

LEMMA CreationNamed ==
    ASSUME CreationTypeOK, NameInv, CreationNext
    PROVE  NameInv'
<1> SUFFICES ASSUME NEW i \in Ids,
                    \/ Ask(i) \/ Name(i) \/ Budget(i) \/ Lock(i) \/ SeedCwd(i) \/ Fork(i)
                    \/ CannotFork(i) \/ Commit(i) \/ CannotCommit(i) \/ Post(i) \/ Killed(i)
                    \/ Wake(i) \/ Call(i) \/ Record(i) \/ Answer(i) \/ OutOfBudget(i)
                    \/ Bereft(i) \/ DriverDies(i)
             PROVE  NameInv'
  BY DEF CreationNext
<1>g. ASSUME Goes(i), phase[i] \in {"ask", "budget", "lock", "mark", "fork", "post"}
      PROVE  /\ \A j \in Ids \ {i} : phase'[j] = phase[j]
             /\ phase'[i] # "refused"
             /\ i \in Roots /\ phase[i] = "post" => phase'[i] = "commit"
             /\ i \notin Roots /\ phase[i] = "post" => phase'[i] = "made"
             /\ phase[i] = "ask" => phase'[i] = "name"
             /\ i \notin Roots => (phase'[i] = "post" => phase[i] = "commit")
  <2>1. phase' = [phase EXCEPT ![i] = After(i)]  BY <1>g DEF Goes
  <2>2. phase'[i] = After(i) /\ \A j \in Ids \ {i} : phase'[j] = phase[j]
    BY <2>1 DEF CreationTypeOK
  <2>3. CASE i \in Roots  BY <1>g, <2>2, <2>3 DEF After, CreationTypeOK
  <2>4. CASE i \notin Roots  BY <1>g, <2>2, <2>4 DEF After, CreationTypeOK
  <2> QED  BY <2>3, <2>4
<1>e. ASSUME NEW how, Ends(i, how) PROVE /\ \A j \in Ids \ {i} : phase'[j] = phase[j]
                                         /\ phase'[i] = how
  BY <1>e DEF Ends, CreationTypeOK
<1>1. CASE Ask(i)
  <2>1. i \notin committed /\ phase'[i] \in {"name", "refused"}
    BY <1>1, <1>g, <1>e DEF Ask, NameInv
  <2>2. MayWear(i)' => MayWear(i)  BY <1>1, <2>1 DEF Ask, MayWear
  <2>3. \A j \in Ids \ {i} : phase'[j] = phase[j]  BY <1>1, <1>g, <1>e DEF Ask
  <2>4. UNCHANGED <<given, committed, overlapped, worn, home>>  BY <1>1 DEF Ask
  <2> QED  BY <2>1, <2>2, <2>3, <2>4, NameMoves
<1>2. CASE Name(i)  BY <1>2, NameSettled
<1>3. CASE Budget(i)
  <2>1. phase[i] = "budget" /\ UNCHANGED <<given, committed, overlapped, worn, home>>
    BY <1>3 DEF Budget
  <2>2. i \notin committed /\ MayWear(i)  BY <2>1 DEF NameInv, MayWear
  <2>3. \A j \in Ids \ {i} : phase'[j] = phase[j]  BY <1>3, <1>g, <1>e DEF Budget
  <2> QED  BY <2>1, <2>2, <2>3, NameMoves
<1>4. CASE Lock(i) \/ SeedCwd(i) \/ Fork(i)
  <2>1. /\ phase[i] \in {"lock", "mark", "fork"} /\ Goes(i)
        /\ UNCHANGED <<given, committed, overlapped>>
    BY <1>4 DEF Lock, SeedCwd, Fork
  <2>2. i \notin committed /\ MayWear(i)  BY <2>1 DEF NameInv, MayWear
  <2>3. \A j \in Ids \ {i} : phase'[j] = phase[j] /\ worn'[j] = worn[j]
    BY <1>4, <2>1, <1>g DEF Lock, SeedCwd, Fork, CreationTypeOK
  <2>4. \A j \in Ids : home[j] \subseteq home'[j]
    BY <1>4, GainsGrows DEF Lock, SeedCwd, Fork
  <2> QED  BY <2>1, <2>2, <2>3, <2>4, NameMoves
<1>5. CASE CannotFork(i) \/ CannotCommit(i) \/ Killed(i)
  <2>1. Ends(i, "failed") /\ UNCHANGED <<given, committed, overlapped, worn, home>>
    BY <1>5 DEF CannotFork, CannotCommit, Killed
  <2>2. phase'[i] = "failed" /\ \A j \in Ids \ {i} : phase'[j] = phase[j]  BY <2>1, <1>e
  <2>3. MayWear(i)' => MayWear(i)  BY <2>1, <2>2 DEF MayWear
  <2> QED  BY <2>1, <2>2, <2>3, NameMoves
<1>6. CASE Commit(i)  BY <1>6, NameCommitted
<1>7. CASE Post(i)
  <2>1. /\ phase[i] = "post" /\ Goes(i) /\ UNCHANGED <<given, committed, overlapped, worn>>
    BY <1>7 DEF Post
  <2>2. \A j \in Ids : home[j] \subseteq home'[j]  BY <1>7, GainsGrows DEF Post
  <2>3. \A j \in Ids \ {i} : phase'[j] = phase[j]  BY <2>1, <1>g
  <2>4. i \in committed => i \notin Roots  BY <2>1 DEF NameInv
  <2>5. i \in committed => phase'[i] \in {"made", "failed"}  BY <2>1, <2>4, <1>g
  <2>6. MayWear(i)' => MayWear(i)
    <3>1. CASE i \in Roots  BY <3>1, <2>1 DEF MayWear
    <3>2. CASE i \notin Roots
      <4>1. phase'[i] = "made"  BY <3>2, <2>1, <1>g
      <4> QED  BY <4>1, <2>1 DEF MayWear
    <3> QED  BY <3>1, <3>2
  <2> QED  BY <2>1, <2>2, <2>3, <2>5, <2>6, NameMoves
<1>8. CASE Wake(i) \/ Call(i) \/ Bereft(i) \/ DriverDies(i)
  <2>1. UNCHANGED <<given, phase, overlapped, committed, home, worn>>
    BY <1>8 DEF Wake, Call, Bereft, DriverDies
  <2> QED  BY <2>1, NameStays
<1>9. CASE Record(i) \/ Answer(i) \/ OutOfBudget(i)
  <2>1. UNCHANGED <<given, phase, overlapped, committed, worn>>
    BY <1>9 DEF Record, Answer, OutOfBudget
  <2>2. \A j \in Ids : home[j] \subseteq home'[j]
    BY <1>9, GainsGrows, ConcludesGrows DEF Record, Answer, OutOfBudget
  <2>3. \A j \in committed' : ("ref" \in home[j] => "ref" \in home'[j]) /\ worn'[j] = worn[j]
    BY <2>1, <2>2 DEF CreationTypeOK
  <2> QED  BY <2>1, <2>3, NameStays
<1> QED  BY <1>1, <1>2, <1>3, <1>4, <1>5, <1>6, <1>7, <1>8, <1>9

\* A delete takes the name with the ref.
LEMMA NameStep ==
    ASSUME LifeTypeOK, NameInv, [LifeNext]_lifeVars
    PROVE  NameInv'
<1> USE DEF LifeTypeOK
<1>1. CASE CreationNext  BY <1>1, CreationNamed
<1>2. CASE RemoveNext
  <2>1. PICK w \in del.work : Removes(w[1], w[2])  BY <1>2 DEF RemoveNext
  <2>2. PICK i \in Ids, h \in Homes : i = w[1] /\ h = w[2]  BY <2>1 DEF DeleteTypeOK
  <2>3. Removes(i, h)  BY <2>1, <2>2
  <2>4. committed' \subseteq committed /\ (h = "ref" => i \notin committed')
    BY <2>3 DEF Removes
  <2>5. \A j \in committed' : ("ref" \in home[j] => "ref" \in home'[j]) /\ worn'[j] = worn[j]
    BY <2>3, <2>4 DEF Removes, CreationTypeOK
  <2>6. UNCHANGED <<given, phase, overlapped>>  BY <1>2 DEF RemoveNext
  <2> QED  BY <2>4, <2>5, <2>6, NameStays
<1>3. CASE UNCHANGED <<given, phase, overlapped, committed, home, worn>>
  BY <1>3, NameStays
<1>4. (Delete /\ ~RemoveNext) \/ UNCHANGED lifeVars
          => UNCHANGED <<given, phase, overlapped, committed, home, worn>>
  BY DEF Delete, MarkRefs, List, Probe, Report, DeleteKilled, lifeVars, creation
<1> QED  BY <1>1, <1>2, <1>3, <1>4 DEF LifeNext

-----------------------------------------------------------------------------
(* What a delete has still to remove.                                      *)

LEMMA DeleteStep ==
    ASSUME LifeTypeOK, DeleteInv, [LifeNext]_lifeVars
    PROVE  DeleteInv'
<1> USE DEF LifeTypeOK
<1>1. ASSUME UNCHANGED del, touched \subseteq touched',
             \A j \in Ids \ touched' : home'[j] \subseteq home[j]
      PROVE  DeleteInv'
  BY <1>1 DEF DeleteInv, Subtree
<1>2. CASE /\ CreationNext
           /\ touched' = touched \cup {i \in Ids : ~(home'[i] \subseteq home[i])}
           /\ UNCHANGED <<del, deletes>>
  BY <1>1, <1>2
<1>3. CASE \E r \in Ids, kids \in BOOLEAN : MarkRefs(r, kids)
  <2>1. del'.at = "list" /\ del'.marks = {i \in Ids : "mark" \in home[i]} /\ UNCHANGED home
    BY <1>3 DEF MarkRefs, creation
  <2> QED  BY <2>1 DEF DeleteInv
<1>4. CASE List
  <2>1. del.at = "list" /\ UNCHANGED <<home, touched>>  BY <1>4 DEF List, creation
  <2>2. CASE del' = Idle  BY <2>2 DEF DeleteInv, Idle
  <2>3. CASE del' = [del EXCEPT !.at = "probe", !.ids = Targets]
    <3>1. del'.at = "probe" /\ del'.ids = Targets /\ del'.root = del.root /\ del'.marks = del.marks
      BY <2>3 DEF DeleteTypeOK
    <3>2. \A i \in Ids \ touched : "mark" \in home[i] => i \in del.marks
      BY <2>1 DEF DeleteInv
    <3>3. \A i \in Subtree(del.root) \ touched : home[i] # {} => i \in Targets
      BY <3>2 DEF Targets, Subtree
    <3> QED  BY <2>1, <3>1, <3>2, <3>3 DEF DeleteInv, Subtree
  <2> QED  BY <1>4, <2>2, <2>3 DEF List
<1>5. CASE Probe
  <2>1. del.at = "probe" /\ UNCHANGED <<home, touched>>  BY <1>5 DEF Probe, creation
  <2>2. CASE del' = Idle  BY <2>2 DEF DeleteInv, Idle
  <2>3. CASE del' = [del EXCEPT !.at = "remove", !.ids = {},
                                !.work = Removals(del.ids, del.marks)]
    <3>1. del'.at = "remove" /\ del'.root = del.root /\ del'.work = Removals(del.ids, del.marks)
      BY <2>3 DEF DeleteTypeOK
    <3>2. ASSUME NEW i \in Subtree(del.root) \ touched, NEW h \in home[i]
          PROVE  <<i, h>> \in Removals(del.ids, del.marks)
      <4>1. i \in Ids /\ h \in Homes  BY DEF Subtree, CreationTypeOK
      <4>2. i \in del.ids  BY <2>1, <3>2 DEF DeleteInv
      <4>3. h = "mark" => i \in del.marks  BY <2>1, <3>2, <4>1 DEF DeleteInv
      <4> QED  BY <4>1, <4>2, <4>3 DEF Removals, Homes, Dirs
    <3> QED  BY <2>1, <3>1, <3>2 DEF DeleteInv, Subtree
  <2> QED  BY <1>5, <2>2, <2>3 DEF Probe
<1>6. CASE RemoveNext
  <2>1. PICK w \in del.work : Removes(w[1], w[2]) /\ del' = [del EXCEPT !.work = @ \ {w}]
    BY <1>6 DEF RemoveNext
  <2>2. PICK i \in Ids, h \in Homes : w = <<i, h>>  BY <2>1 DEF DeleteTypeOK
  <2>3. home' = [home EXCEPT ![i] = @ \ {h}]  BY <2>1, <2>2 DEF Removes
  <2>4. /\ del.at = "remove" /\ del'.at = "remove" /\ del'.root = del.root
        /\ del'.work = del.work \ {<<i, h>>} /\ UNCHANGED touched
    BY <1>6, <2>1, <2>2 DEF RemoveNext, DeleteTypeOK
  <2>5. ASSUME NEW j \in Subtree(del.root) \ touched, NEW g \in home'[j]
        PROVE  <<j, g>> \in del.work \ {<<i, h>>}
    <3>1. j \in Ids /\ g \in home[j] /\ <<j, g>> # <<i, h>>
      BY <2>3, <2>5 DEF Subtree, CreationTypeOK
    <3> QED  BY <2>4, <2>5, <3>1 DEF DeleteInv
  <2> QED  BY <2>4, <2>5 DEF DeleteInv, Subtree
<1>7. CASE Report
  <2>1. /\ del.at = "remove" /\ del.work = {} /\ del'.at = "done" /\ del'.root = del.root
        /\ UNCHANGED <<home, touched>>
    BY <1>7 DEF Report, creation, DeleteTypeOK
  <2>2. \A i \in Subtree(del.root) \ touched : home[i] = {}  BY <2>1 DEF DeleteInv
  <2> QED  BY <2>1, <2>2 DEF DeleteInv, Subtree
<1>8. CASE DeleteKilled
  <2>1. del'.at = "idle"  BY <1>8 DEF DeleteKilled, Idle
  <2> QED  BY <2>1 DEF DeleteInv
<1>9. CASE UNCHANGED lifeVars
  BY <1>9, <1>1 DEF lifeVars, creation
<1> QED  BY <1>2, <1>3, <1>4, <1>5, <1>6, <1>7, <1>8, <1>9 DEF LifeNext, Delete

-----------------------------------------------------------------------------
(* The theorems.                                                           *)

LEMMA InvInitially == LifeInit => LifeInv
<1> SUFFICES ASSUME LifeInit PROVE LifeInv  OBVIOUS
<1> USE DEF LifeInit, CreationInit
<1>1. EntryInv  BY DEF EntryInv, LetIn
<1>2. FundInv
  <2> SUFFICES ASSUME NEW r \in Roots
               PROVE  Cardinality(Recorded(r)) + Cardinality(Calling(r))
                          <= Limit - 1 + Cardinality(Inside(r))
    BY DEF FundInv
  <2>1. Recorded(r) = {}  BY DEF Recorded, Subtree
  <2>2. Calling(r) = {} /\ Inside(r) = {}  BY DEF Calling, Inside, LetIn, Subtree
  <2> QED  BY <2>1, <2>2, FS_EmptySet, LimitAssumption
<1>3. NameInv  BY DEF NameInv, MayWear
<1>4. DeleteInv  BY DEF DeleteInv, Idle
<1> QED  BY <1>1, <1>2, <1>3, <1>4 DEF LifeInv

LEMMA InvStep == LifeTypeOK /\ LifeInv /\ [LifeNext]_lifeVars => LifeInv'
BY Typed, Entered, FundStep, NameStep, DeleteStep DEF LifeInv

LEMMA LifeInductive == LifeSpec => [](LifeTypeOK /\ LifeInv)
<1> QED  BY TypedInitially, Typed, InvInitially, InvStep, PTL DEF LifeSpec

\* The budget is one for the whole conversation (budget::check asks it before
\* every model call): however many of its agents are at a call at once, and
\* whatever is deleted, it overspends by a step for each agent at most.
THEOREM OverspendIsBounded == LifeSpec => []Funded
<1>1. CreationTypeOK /\ FundInv => Funded
  <2> SUFFICES ASSUME CreationTypeOK, FundInv, NEW r \in Roots
               PROVE  Spend(r) <= Limit - 1 + Cardinality(Admitted(r))
    BY DEF Funded
  <2>1. r \in Subtree(r)
    <3>1. r \in Ids /\ r \in Seq(Nat)  BY IdsAssumption DEF Roots
    <3> QED  BY <3>1 DEF Subtree, IsPrefix
  <2>2. RootOf(r) = r  BY <2>1, RootFact
  <2>3. Cardinality(Recorded(r)) + Cardinality(Calling(r))
            <= Limit - 1 + Cardinality(Inside(r))
    BY DEF FundInv
  <2>4. Inside(r) \subseteq Admitted(r) /\ Admitted(r) \subseteq Ids
    BY DEF Inside, Admitted, LetIn, Subtree
  <2>5. IsFiniteSet(Admitted(r)) /\ Cardinality(Admitted(r)) \in Nat  BY <2>4, IdsFinite
  <2>6. Cardinality(Inside(r)) <= Cardinality(Admitted(r))  BY <2>4, <2>5, FS_Subset
  <2>7. /\ Cardinality(Recorded(r)) \in Nat /\ Cardinality(Calling(r)) \in Nat
        /\ Cardinality(Inside(r)) \in Nat
    BY RecordedFinite, CountsTyped
  <2> QED  BY <2>2, <2>3, <2>5, <2>6, <2>7, LimitAssumption DEF Spend
<1> QED  BY <1>1, LifeInductive, PTL DEF LifeTypeOK, LifeInv

\* No two live agents wear one name, unless their creations overlapped, and a
\* message addressed by a name reaches the agent it was given to or nobody
\* (mint::preflight, agent_name::resolve).
THEOREM NamesAreTold == LifeSpec => []NamesHold
<1>1. CreationTypeOK /\ NameInv => NamesHold
  <2> SUFFICES ASSUME CreationTypeOK, NameInv PROVE NamesHold  OBVIOUS
  <2>1. ASSUME NEW i \in Agents \cap committed, NEW j \in Agents \cap committed,
               i # j, worn[i] = worn[j]
        PROVE  {i, j} \in overlapped
    <3>1. i \in Ids /\ j \in Ids /\ MayWear(i) /\ MayWear(j)  BY DEF Agents, MayWear
    <3>2. given[i] = given[j]  BY <2>1 DEF NameInv
    <3> QED  BY <2>1, <3>1, <3>2 DEF NameInv
  <2>2. ASSUME NEW i \in Agents \cap committed
        PROVE  i \in Hits(given[i]) /\ Resolve(given[i]) \subseteq {i}
    <3>1. i \in Hits(given[i])  BY DEF Hits, NameInv
    <3>2. Hits(given[i]) \subseteq Ids  BY DEF Hits, Agents
    <3>3. CASE Cardinality(Hits(given[i])) = 1
      <4>1. IsFiniteSet(Hits(given[i]))  BY <3>2, IdsFinite
      <4>2. \E x : Hits(given[i]) = {x}  BY <4>1, <3>3, FS_Singleton
      <4> QED  BY <3>1, <3>3, <4>2 DEF Resolve
    <3>4. CASE Cardinality(Hits(given[i])) # 1  BY <3>1, <3>4 DEF Resolve
    <3> QED  BY <3>3, <3>4
  <2> QED  BY <2>1, <2>2 DEF NamesHold
<1> QED  BY <1>1, LifeInductive, PTL DEF LifeTypeOK, LifeInv

\* A delete that reports leaves no home of what it was asked to delete, except
\* what was made again while it ran; and a dispatch that was refused leaves
\* nothing to delete (archive::delete, child_dispatch::fork).
THEOREM DeletedIsGone == LifeSpec => []NothingLeft
<1>1. EntryInv /\ DeleteInv => NothingLeft
  BY DEF EntryInv, DeleteInv, NothingLeft, LetIn
<1> QED  BY <1>1, LifeInductive, PTL DEF LifeInv
=============================================================================
