--------------------------- MODULE Delivery_proofs ---------------------------
(***************************************************************************)
(* Proofs about Delivery, for every set of writers, drivers and scans and  *)
(* every bound: typing, mutual exclusion of the executor lock, that no     *)
(* mail is stranded and no deposit lost, that the inbox implements the     *)
(* abstract mailbox, and that each sender's mail is delivered in order.    *)
(* The third rests on the inductive invariant Accounting, which says who   *)
(* is going to launch for each pending file.                               *)
(***************************************************************************)
EXTENDS Delivery, SequenceTheorems, TLAPS

USE NoneAssumption, RolesAssumption, BoundsAssumption

\* The messages a death waives are messages.
LEMMA UndeliveredType == TypeOK => Undelivered \subseteq Writers
<1> SUFFICES ASSUME TypeOK, NEW m \in Undelivered PROVE m \in Writers
  OBVIOUS
<1>1. PICK f \in inbox \cup Range(stray) : m = f.msg
  BY DEF Undelivered, Msgs
<1>2. Range(stray) \subseteq Files
  BY DEF TypeOK, Range
<1>3. f \in Files
  BY <1>2 DEF TypeOK
<1> QED
  BY <1>1, <1>3 DEF Files

\* Every action preserves the typing.
LEMMA TypeStep == ASSUME TypeOK, Next PROVE TypeOK'
<1> USE DEF TypeOK, Goto, mailVars, treeVars, hopVars, bounds, Procs,
      WriterPCs, DriverPCs, LookerPCs, Driving
<1>1. ASSUME NEW w \in Writers, ListOwn(w) PROVE TypeOK'
  BY <1>1 DEF ListOwn
<1>2. ASSUME NEW w \in Writers, Stage(w) PROVE TypeOK'
  <2>1. FileOf(w) \in Files
    BY DEF FileOf, Files
  <2>2. tmp' \subseteq Files
    BY <1>2, <2>1 DEF Stage
  <2> QED
    BY <1>2, <2>2 DEF Stage
<1>3. ASSUME NEW w \in Writers, Rename(w) PROVE TypeOK'
  <2>1. tmp' \subseteq Files /\ inbox' \subseteq Files
    BY <1>3 DEF Rename
  <2>2. wseq' \in [Writers -> Nat] /\ pc' \in [Procs -> WriterPCs \cup DriverPCs \cup LookerPCs]
    BY <1>3 DEF Rename
  <2> QED
    BY <1>3, <2>1, <2>2 DEF Rename
<1>4. ASSUME NEW w \in Writers, RenameFails(w) PROVE TypeOK'
  BY <1>4 DEF RenameFails
<1>5. ASSUME NEW p \in Procs, ProbeFree(p) PROVE TypeOK'
  BY <1>5 DEF ProbeFree
<1>6. ASSUME NEW p \in Procs, ProbeBusy(p) PROVE TypeOK'
  BY <1>6 DEF ProbeBusy, AfterProbe
<1>7. ASSUME NEW p \in Procs, ProbeDrop(p) PROVE TypeOK'
  BY <1>7 DEF ProbeDrop
<1>8. ASSUME NEW p \in Procs, Launch(p) PROVE TypeOK'
  BY <1>8 DEF Launch, AfterProbe
<1>9. ASSUME NEW d \in Drivers, StartWin(d) PROVE TypeOK'
  BY <1>9 DEF StartWin
<1>10. ASSUME NEW d \in Drivers, ListInbox(d) PROVE TypeOK'
  BY <1>10 DEF ListInbox, Msgs, Files
<1>11. ASSUME NEW d \in Drivers, MoveNext(d, "deliver", "moved") PROVE TypeOK'
  BY <1>11 DEF MoveNext
<1>12. ASSUME NEW d \in Drivers, CommitMoved(d, "moved", "deliver") PROVE TypeOK'
  BY <1>12 DEF CommitMoved
<1>13. ASSUME NEW d \in Drivers, ListResults(d) PROVE TypeOK'
  BY <1>13 DEF ListResults
<1>14. ASSUME NEW d \in Drivers, MoveNext(d, "interpret", "imoved") PROVE TypeOK'
  BY <1>14 DEF MoveNext
<1>15. ASSUME NEW d \in Drivers, CommitMoved(d, "imoved", "interpret") PROVE TypeOK'
  BY <1>15 DEF CommitMoved
<1>16. ASSUME NEW d \in Drivers, HoldResult(d) PROVE TypeOK'
  BY <1>16 DEF HoldResult
<1>17. ASSUME NEW d \in Drivers, Warrant(d) PROVE TypeOK'
  BY <1>17 DEF Warrant
<1>18. ASSUME NEW d \in Drivers, StepTools(d) PROVE TypeOK'
  BY <1>18 DEF StepTools
<1>19. ASSUME NEW d \in Drivers, StepFinal(d) PROVE TypeOK'
  BY <1>19 DEF StepFinal
<1>20. ASSUME NEW d \in Drivers, StepCeases(d) PROVE TypeOK'
  BY <1>20 DEF StepCeases
<1>21. ASSUME NEW d \in Drivers, StepParks(d) PROVE TypeOK'
  BY <1>21 DEF StepParks
<1>22. ASSUME NEW d \in Drivers, EnterHeld(d) PROVE TypeOK'
  BY <1>22 DEF EnterHeld, Msgs, Files
<1>23. ASSUME NEW d \in Drivers, HeldParks(d) PROVE TypeOK'
  BY <1>23 DEF HeldParks
<1>24. ASSUME NEW d \in Drivers, HeldCompletes(d) PROVE TypeOK'
  BY <1>24 DEF HeldCompletes
<1>25. ASSUME NEW d \in Drivers, HeldStops(d) PROVE TypeOK'
  BY <1>25 DEF HeldStops
<1>26. ASSUME NEW d \in Drivers, Release(d) PROVE TypeOK'
  BY <1>26 DEF Release
<1>27. ASSUME NEW d \in Drivers, Reread(d) PROVE TypeOK'
  BY <1>27 DEF Reread
<1>28. ASSUME NEW d \in Drivers, Exit(d) PROVE TypeOK'
  BY <1>28 DEF Exit
<1>29. CASE StartLose
  BY <1>29 DEF StartLose
<1>30. ASSUME NEW p \in Scans \cup Censuses, LookFree(p) PROVE TypeOK'
  BY <1>30 DEF LookFree
<1>31. ASSUME NEW p \in Scans \cup Censuses, LookBusy(p) PROVE TypeOK'
  BY <1>31 DEF LookBusy, AfterLook
<1>32. ASSUME NEW p \in Scans \cup Censuses, LookDrop(p) PROVE TypeOK'
  BY <1>32 DEF LookDrop, AfterLook
<1>33. ASSUME NEW p \in Scans \cup Censuses, Flush(p) PROVE TypeOK'
  BY <1>33 DEF Flush
<1>34. ASSUME NEW p \in Procs, Die(p) PROVE TypeOK'
  <2>1. Undelivered \subseteq Writers
    BY UndeliveredType
  <2>2. waived' \subseteq Writers
    BY <1>34, <2>1 DEF Die
  <2>3. batch' \in [Drivers -> SUBSET Files] /\ seen' \in [Drivers -> SUBSET Files]
    BY <1>34 DEF Die
  <2>4. epitaph' \in [Drivers -> BOOLEAN] /\ faults' \in 0..MaxFaults
    BY <1>34 DEF Die
  <2>5. pc' = [pc EXCEPT ![p] = IF p \in Drivers THEN "idle" ELSE "failed"]
    BY <1>34 DEF Die
  <2>6. /\ pc' \in [Procs -> WriterPCs \cup DriverPCs \cup LookerPCs]
        /\ \A w \in Writers : pc'[w] \in WriterPCs
        /\ \A d \in Drivers : pc'[d] \in DriverPCs
        /\ \A q \in Scans \cup Censuses : pc'[q] \in LookerPCs
    BY <2>5
  <2>7. lock' \in Procs \cup {NONE}
    BY <1>34 DEF Die
  <2>8. UNCHANGED <<mailVars, launches, treeVars, touches>>
    BY <1>34 DEF Die
  <2> QED
    BY <2>2, <2>3, <2>4, <2>6, <2>7, <2>8
<1>35. CASE LaunchedDies
  <2>1. Undelivered \subseteq Writers
    BY UndeliveredType
  <2>2. waived' \subseteq Writers
    BY <1>35, <2>1 DEF LaunchedDies
  <2>3. launches' \in Nat /\ faults' \in 0..MaxFaults
    BY <1>35 DEF LaunchedDies
  <2> QED
    BY <1>35, <2>2, <2>3 DEF LaunchedDies
<1>36. CASE Touch
  BY <1>36 DEF Touch
<1> QED
  BY <1>1, <1>2, <1>3, <1>4, <1>5, <1>6, <1>7, <1>8, <1>9, <1>10, <1>11,
     <1>12, <1>13, <1>14, <1>15, <1>16, <1>17, <1>18, <1>19, <1>20, <1>21,
     <1>22, <1>23, <1>24, <1>25, <1>26, <1>27, <1>28, <1>29, <1>30, <1>31,
     <1>32, <1>33, <1>34, <1>35, <1>36 DEF Next, Deposit, ProbeAndLaunch,
     Deliver, Hop, Look

\* Every action preserves the mutual exclusion of the lock.
LEMMA LockStep == ASSUME TypeOK, LockInv, Next PROVE LockInv'
<1> USE DEF LockInv, Holding, TypeOK, Goto, mailVars, treeVars, hopVars,
      bounds, Procs, WriterPCs, DriverPCs, LookerPCs, Driving
<1>1. ASSUME NEW w \in Writers, ListOwn(w) PROVE LockInv'
  BY <1>1 DEF ListOwn
<1>2. ASSUME NEW w \in Writers, Stage(w) PROVE LockInv'
  BY <1>2 DEF Stage
<1>3. ASSUME NEW w \in Writers, Rename(w) PROVE LockInv'
  BY <1>3 DEF Rename
<1>4. ASSUME NEW w \in Writers, RenameFails(w) PROVE LockInv'
  BY <1>4 DEF RenameFails
<1>5. ASSUME NEW p \in Procs, ProbeFree(p) PROVE LockInv'
  BY <1>5 DEF ProbeFree
<1>6. ASSUME NEW p \in Procs, ProbeBusy(p) PROVE LockInv'
  BY <1>6 DEF ProbeBusy, AfterProbe
<1>7. ASSUME NEW p \in Procs, ProbeDrop(p) PROVE LockInv'
  BY <1>7 DEF ProbeDrop
<1>8. ASSUME NEW p \in Procs, Launch(p) PROVE LockInv'
  BY <1>8 DEF Launch, AfterProbe
<1>9. ASSUME NEW d \in Drivers, StartWin(d) PROVE LockInv'
  BY <1>9 DEF StartWin
<1>10. ASSUME NEW d \in Drivers, ListInbox(d) PROVE LockInv'
  BY <1>10 DEF ListInbox
<1>11. ASSUME NEW d \in Drivers, MoveNext(d, "deliver", "moved") PROVE LockInv'
  BY <1>11 DEF MoveNext
<1>12. ASSUME NEW d \in Drivers, CommitMoved(d, "moved", "deliver") PROVE LockInv'
  BY <1>12 DEF CommitMoved
<1>13. ASSUME NEW d \in Drivers, ListResults(d) PROVE LockInv'
  BY <1>13 DEF ListResults
<1>14. ASSUME NEW d \in Drivers, MoveNext(d, "interpret", "imoved") PROVE LockInv'
  BY <1>14 DEF MoveNext
<1>15. ASSUME NEW d \in Drivers, CommitMoved(d, "imoved", "interpret") PROVE LockInv'
  BY <1>15 DEF CommitMoved
<1>16. ASSUME NEW d \in Drivers, HoldResult(d) PROVE LockInv'
  BY <1>16 DEF HoldResult
<1>17. ASSUME NEW d \in Drivers, Warrant(d) PROVE LockInv'
  BY <1>17 DEF Warrant
<1>18. ASSUME NEW d \in Drivers, StepTools(d) PROVE LockInv'
  BY <1>18 DEF StepTools
<1>19. ASSUME NEW d \in Drivers, StepFinal(d) PROVE LockInv'
  BY <1>19 DEF StepFinal
<1>20. ASSUME NEW d \in Drivers, StepCeases(d) PROVE LockInv'
  BY <1>20 DEF StepCeases
<1>21. ASSUME NEW d \in Drivers, StepParks(d) PROVE LockInv'
  BY <1>21 DEF StepParks
<1>22. ASSUME NEW d \in Drivers, EnterHeld(d) PROVE LockInv'
  BY <1>22 DEF EnterHeld
<1>23. ASSUME NEW d \in Drivers, HeldParks(d) PROVE LockInv'
  BY <1>23 DEF HeldParks
<1>24. ASSUME NEW d \in Drivers, HeldCompletes(d) PROVE LockInv'
  BY <1>24 DEF HeldCompletes
<1>25. ASSUME NEW d \in Drivers, HeldStops(d) PROVE LockInv'
  BY <1>25 DEF HeldStops
<1>26. ASSUME NEW d \in Drivers, Release(d) PROVE LockInv'
  BY <1>26 DEF Release
<1>27. ASSUME NEW d \in Drivers, Reread(d) PROVE LockInv'
  BY <1>27 DEF Reread
<1>28. ASSUME NEW d \in Drivers, Exit(d) PROVE LockInv'
  BY <1>28 DEF Exit
<1>29. CASE StartLose
  BY <1>29 DEF StartLose
<1>30. ASSUME NEW p \in Scans \cup Censuses, LookFree(p) PROVE LockInv'
  BY <1>30 DEF LookFree
<1>31. ASSUME NEW p \in Scans \cup Censuses, LookBusy(p) PROVE LockInv'
  BY <1>31 DEF LookBusy, AfterLook
<1>32. ASSUME NEW p \in Scans \cup Censuses, LookDrop(p) PROVE LockInv'
  BY <1>32 DEF LookDrop, AfterLook
<1>33. ASSUME NEW p \in Scans \cup Censuses, Flush(p) PROVE LockInv'
  BY <1>33 DEF Flush
<1>34. ASSUME NEW p \in Procs, Die(p) PROVE LockInv'
  BY <1>34 DEF Die
<1>35. CASE LaunchedDies
  BY <1>35 DEF LaunchedDies
<1>36. CASE Touch
  BY <1>36 DEF Touch
<1> QED
  BY <1>1, <1>2, <1>3, <1>4, <1>5, <1>6, <1>7, <1>8, <1>9, <1>10, <1>11,
     <1>12, <1>13, <1>14, <1>15, <1>16, <1>17, <1>18, <1>19, <1>20, <1>21,
     <1>22, <1>23, <1>24, <1>25, <1>26, <1>27, <1>28, <1>29, <1>30, <1>31,
     <1>32, <1>33, <1>34, <1>35, <1>36 DEF Next, Deposit, ProbeAndLaunch,
     Deliver, Hop, Look

-----------------------------------------------------------------------------
(* The inductive invariant.                                                *)

\* f is in the inbox, staged for it, or remembered by a driver.
Known(f) == f \in inbox \/ f \in tmp \/ \E d \in Drivers : f \in seen[d]

\* An mtime identifies its file.
MtimeInv ==
    /\ \A f \in Files : Known(f) => f.mtime <= clock
    /\ \A f, g \in Files : Known(f) /\ Known(g) /\ f.mtime = g.mtime => f = g

\* One depositing process per serial sender; its number is free in the inbox,
\* and its temporary file is its own.
DepositInv ==
    \A w \in Writers : SenderOf[w] \in Serial /\ pc[w] \in Depositing =>
        /\ \A v \in Writers : pc[v] \in Depositing /\ SenderOf[v] = SenderOf[w] => v = w
        /\ \A f \in inbox : f.from = SenderOf[w] => f.seq < wseq[w]
        /\ pc[w] = "staged" =>
              \A f \in tmp : f.from = SenderOf[w] /\ f.seq = wseq[w] => f.msg = w

\* Once the lock holder has listed the inbox, what it remembers having left
\* is what its listing waived.
Listed == {"deliver", "moved", "interpret", "imoved", "step", "held", "release"}
SeenInv == \A d \in Drivers : pc[d] \in Listed => Msgs(seen[d]) \subseteq waived

\* Somebody is going to look at f, or at the whole inbox, and launch.
Covered(f) ==
    \/ launches > 0
    \/ \E p \in Procs : pc[p] \in {"probe", "probing", "launch", "flush"}
    \/ \E s \in Scans : pc[s] = "looking"
    \/ \E d \in Drivers : pc[d] \in Driving
    \/ \E d \in Drivers : pc[d] = "reread" /\ \A g \in seen[d] : ~Matches(g, f)

CoverInv ==
    \A f \in inbox : WarrantsLaunch(f) /\ f.msg \notin waived => Covered(f)

AllSerial == \A w \in Writers : SenderOf[w] \in Serial

Accounting ==
    TypeOK /\ LockInv /\ MtimeInv /\ DepositInv /\ SeenInv /\ CoverInv

\* Every action keeps mtimes unique among the files that are known.
LEMMA MtimeStep == ASSUME TypeOK, MtimeInv, Next PROVE MtimeInv'
<1> USE DEF MtimeInv, Known, TypeOK, Goto, mailVars, treeVars, hopVars,
      bounds, Procs, WriterPCs, DriverPCs, LookerPCs, Driving
<1>1. ASSUME NEW w \in Writers, ListOwn(w) PROVE MtimeInv'
  BY <1>1 DEF ListOwn
<1>2. ASSUME NEW w \in Writers, Stage(w) PROVE MtimeInv'
  <2>1. \A f \in Files : Known(f)' => f = FileOf(w) \/ Known(f)
    BY <1>2 DEF Stage
  <2>2. FileOf(w).mtime = clock + 1 /\ clock' = clock + 1
    BY <1>2 DEF FileOf, Stage
  <2> HIDE DEF Known
  <2>3. \A f \in Files : Known(f) => f.mtime <= clock /\ f.mtime \in Nat
    BY DEF Files
  <2>4. \A f \in Files : Known(f)' => f.mtime <= clock'
    BY <2>1, <2>2, <2>3
  <2>5. ASSUME NEW f \in Files, NEW g \in Files, Known(f)', Known(g)', f.mtime = g.mtime
        PROVE  f = g
    <3>1. CASE f = FileOf(w)
      BY <2>1, <2>2, <2>3, <2>5, <3>1
    <3>2. CASE f # FileOf(w)
      BY <2>1, <2>2, <2>3, <2>5, <3>2
    <3> QED
      BY <3>1, <3>2
  <2> QED
    BY <2>4, <2>5
<1>3. ASSUME NEW w \in Writers, Rename(w) PROVE MtimeInv'
  BY <1>3 DEF Rename, SameName
<1>4. ASSUME NEW w \in Writers, RenameFails(w) PROVE MtimeInv'
  BY <1>4 DEF RenameFails
<1>5. ASSUME NEW p \in Procs, ProbeFree(p) PROVE MtimeInv'
  BY <1>5 DEF ProbeFree
<1>6. ASSUME NEW p \in Procs, ProbeBusy(p) PROVE MtimeInv'
  BY <1>6 DEF ProbeBusy, AfterProbe
<1>7. ASSUME NEW p \in Procs, ProbeDrop(p) PROVE MtimeInv'
  BY <1>7 DEF ProbeDrop
<1>8. ASSUME NEW p \in Procs, Launch(p) PROVE MtimeInv'
  BY <1>8 DEF Launch, AfterProbe
<1>9. ASSUME NEW d \in Drivers, StartWin(d) PROVE MtimeInv'
  BY <1>9 DEF StartWin
<1>10. ASSUME NEW d \in Drivers, ListInbox(d) PROVE MtimeInv'
  BY <1>10 DEF ListInbox
<1>11. ASSUME NEW d \in Drivers, MoveNext(d, "deliver", "moved") PROVE MtimeInv'
  BY <1>11 DEF MoveNext
<1>12. ASSUME NEW d \in Drivers, CommitMoved(d, "moved", "deliver") PROVE MtimeInv'
  BY <1>12 DEF CommitMoved
<1>13. ASSUME NEW d \in Drivers, ListResults(d) PROVE MtimeInv'
  BY <1>13 DEF ListResults
<1>14. ASSUME NEW d \in Drivers, MoveNext(d, "interpret", "imoved") PROVE MtimeInv'
  BY <1>14 DEF MoveNext
<1>15. ASSUME NEW d \in Drivers, CommitMoved(d, "imoved", "interpret") PROVE MtimeInv'
  BY <1>15 DEF CommitMoved
<1>16. ASSUME NEW d \in Drivers, HoldResult(d) PROVE MtimeInv'
  BY <1>16 DEF HoldResult
<1>17. ASSUME NEW d \in Drivers, Warrant(d) PROVE MtimeInv'
  BY <1>17 DEF Warrant
<1>18. ASSUME NEW d \in Drivers, StepTools(d) PROVE MtimeInv'
  BY <1>18 DEF StepTools
<1>19. ASSUME NEW d \in Drivers, StepFinal(d) PROVE MtimeInv'
  BY <1>19 DEF StepFinal
<1>20. ASSUME NEW d \in Drivers, StepCeases(d) PROVE MtimeInv'
  BY <1>20 DEF StepCeases
<1>21. ASSUME NEW d \in Drivers, StepParks(d) PROVE MtimeInv'
  BY <1>21 DEF StepParks
<1>22. ASSUME NEW d \in Drivers, EnterHeld(d) PROVE MtimeInv'
  BY <1>22 DEF EnterHeld
<1>23. ASSUME NEW d \in Drivers, HeldParks(d) PROVE MtimeInv'
  BY <1>23 DEF HeldParks
<1>24. ASSUME NEW d \in Drivers, HeldCompletes(d) PROVE MtimeInv'
  BY <1>24 DEF HeldCompletes
<1>25. ASSUME NEW d \in Drivers, HeldStops(d) PROVE MtimeInv'
  BY <1>25 DEF HeldStops
<1>26. ASSUME NEW d \in Drivers, Release(d) PROVE MtimeInv'
  BY <1>26 DEF Release
<1>27. ASSUME NEW d \in Drivers, Reread(d) PROVE MtimeInv'
  BY <1>27 DEF Reread
<1>28. ASSUME NEW d \in Drivers, Exit(d) PROVE MtimeInv'
  BY <1>28 DEF Exit
<1>29. CASE StartLose
  BY <1>29 DEF StartLose
<1>30. ASSUME NEW p \in Scans \cup Censuses, LookFree(p) PROVE MtimeInv'
  BY <1>30 DEF LookFree
<1>31. ASSUME NEW p \in Scans \cup Censuses, LookBusy(p) PROVE MtimeInv'
  BY <1>31 DEF LookBusy, AfterLook
<1>32. ASSUME NEW p \in Scans \cup Censuses, LookDrop(p) PROVE MtimeInv'
  BY <1>32 DEF LookDrop, AfterLook
<1>33. ASSUME NEW p \in Scans \cup Censuses, Flush(p) PROVE MtimeInv'
  BY <1>33 DEF Flush
<1>34. ASSUME NEW p \in Procs, Die(p) PROVE MtimeInv'
  BY <1>34 DEF Die
<1>35. CASE LaunchedDies
  BY <1>35 DEF LaunchedDies
<1>36. CASE Touch
  BY <1>36 DEF Touch
<1> QED
  BY <1>1, <1>2, <1>3, <1>4, <1>5, <1>6, <1>7, <1>8, <1>9, <1>10, <1>11,
     <1>12, <1>13, <1>14, <1>15, <1>16, <1>17, <1>18, <1>19, <1>20, <1>21,
     <1>22, <1>23, <1>24, <1>25, <1>26, <1>27, <1>28, <1>29, <1>30, <1>31,
     <1>32, <1>33, <1>34, <1>35, <1>36 DEF Next, Deposit, ProbeAndLaunch,
     Deliver, Hop, Look

\* Every action keeps the deposits of a serial sender apart.
LEMMA DepositStep == ASSUME TypeOK, DepositInv, Next PROVE DepositInv'
<1> USE DEF DepositInv, Depositing, TypeOK, Goto, mailVars, treeVars, hopVars,
      bounds, Procs, WriterPCs, DriverPCs, LookerPCs, Driving
<1>1. ASSUME NEW w \in Writers, ListOwn(w) PROVE DepositInv'
  BY <1>1 DEF ListOwn, IsNextSeq
<1>2. ASSUME NEW w \in Writers, Stage(w) PROVE DepositInv'
  BY <1>2 DEF Stage, FileOf, SameName, Files
<1>3. ASSUME NEW w \in Writers, Rename(w) PROVE DepositInv'
  BY <1>3 DEF Rename, SameName
<1>4. ASSUME NEW w \in Writers, RenameFails(w) PROVE DepositInv'
  BY <1>4 DEF RenameFails
<1>5. ASSUME NEW p \in Procs, ProbeFree(p) PROVE DepositInv'
  BY <1>5 DEF ProbeFree
<1>6. ASSUME NEW p \in Procs, ProbeBusy(p) PROVE DepositInv'
  BY <1>6 DEF ProbeBusy, AfterProbe
<1>7. ASSUME NEW p \in Procs, ProbeDrop(p) PROVE DepositInv'
  BY <1>7 DEF ProbeDrop
<1>8. ASSUME NEW p \in Procs, Launch(p) PROVE DepositInv'
  BY <1>8 DEF Launch, AfterProbe
<1>9. ASSUME NEW d \in Drivers, StartWin(d) PROVE DepositInv'
  BY <1>9 DEF StartWin
<1>10. ASSUME NEW d \in Drivers, ListInbox(d) PROVE DepositInv'
  BY <1>10 DEF ListInbox
<1>11. ASSUME NEW d \in Drivers, MoveNext(d, "deliver", "moved") PROVE DepositInv'
  BY <1>11 DEF MoveNext
<1>12. ASSUME NEW d \in Drivers, CommitMoved(d, "moved", "deliver") PROVE DepositInv'
  BY <1>12 DEF CommitMoved
<1>13. ASSUME NEW d \in Drivers, ListResults(d) PROVE DepositInv'
  BY <1>13 DEF ListResults
<1>14. ASSUME NEW d \in Drivers, MoveNext(d, "interpret", "imoved") PROVE DepositInv'
  BY <1>14 DEF MoveNext
<1>15. ASSUME NEW d \in Drivers, CommitMoved(d, "imoved", "interpret") PROVE DepositInv'
  BY <1>15 DEF CommitMoved
<1>16. ASSUME NEW d \in Drivers, HoldResult(d) PROVE DepositInv'
  BY <1>16 DEF HoldResult
<1>17. ASSUME NEW d \in Drivers, Warrant(d) PROVE DepositInv'
  BY <1>17 DEF Warrant
<1>18. ASSUME NEW d \in Drivers, StepTools(d) PROVE DepositInv'
  BY <1>18 DEF StepTools
<1>19. ASSUME NEW d \in Drivers, StepFinal(d) PROVE DepositInv'
  BY <1>19 DEF StepFinal
<1>20. ASSUME NEW d \in Drivers, StepCeases(d) PROVE DepositInv'
  BY <1>20 DEF StepCeases
<1>21. ASSUME NEW d \in Drivers, StepParks(d) PROVE DepositInv'
  BY <1>21 DEF StepParks
<1>22. ASSUME NEW d \in Drivers, EnterHeld(d) PROVE DepositInv'
  BY <1>22 DEF EnterHeld
<1>23. ASSUME NEW d \in Drivers, HeldParks(d) PROVE DepositInv'
  BY <1>23 DEF HeldParks
<1>24. ASSUME NEW d \in Drivers, HeldCompletes(d) PROVE DepositInv'
  BY <1>24 DEF HeldCompletes
<1>25. ASSUME NEW d \in Drivers, HeldStops(d) PROVE DepositInv'
  BY <1>25 DEF HeldStops
<1>26. ASSUME NEW d \in Drivers, Release(d) PROVE DepositInv'
  BY <1>26 DEF Release
<1>27. ASSUME NEW d \in Drivers, Reread(d) PROVE DepositInv'
  BY <1>27 DEF Reread
<1>28. ASSUME NEW d \in Drivers, Exit(d) PROVE DepositInv'
  BY <1>28 DEF Exit
<1>29. CASE StartLose
  BY <1>29 DEF StartLose
<1>30. ASSUME NEW p \in Scans \cup Censuses, LookFree(p) PROVE DepositInv'
  BY <1>30 DEF LookFree
<1>31. ASSUME NEW p \in Scans \cup Censuses, LookBusy(p) PROVE DepositInv'
  BY <1>31 DEF LookBusy, AfterLook
<1>32. ASSUME NEW p \in Scans \cup Censuses, LookDrop(p) PROVE DepositInv'
  BY <1>32 DEF LookDrop, AfterLook
<1>33. ASSUME NEW p \in Scans \cup Censuses, Flush(p) PROVE DepositInv'
  BY <1>33 DEF Flush
<1>34. ASSUME NEW p \in Procs, Die(p) PROVE DepositInv'
  BY <1>34 DEF Die
<1>35. CASE LaunchedDies
  BY <1>35 DEF LaunchedDies
<1>36. CASE Touch
  BY <1>36 DEF Touch
<1> QED
  BY <1>1, <1>2, <1>3, <1>4, <1>5, <1>6, <1>7, <1>8, <1>9, <1>10, <1>11,
     <1>12, <1>13, <1>14, <1>15, <1>16, <1>17, <1>18, <1>19, <1>20, <1>21,
     <1>22, <1>23, <1>24, <1>25, <1>26, <1>27, <1>28, <1>29, <1>30, <1>31,
     <1>32, <1>33, <1>34, <1>35, <1>36 DEF Next, Deposit, ProbeAndLaunch,
     Deliver, Hop, Look

\* Every action keeps what the lock holder remembers within what is waived.
LEMMA SeenStep == ASSUME TypeOK, LockInv, SeenInv, Next PROVE SeenInv'
<1> USE DEF SeenInv, Listed, LockInv, Holding, Msgs, TypeOK, Goto, mailVars,
      treeVars, hopVars, bounds, Procs, WriterPCs, DriverPCs, LookerPCs,
      Driving
<1>1. ASSUME NEW w \in Writers, ListOwn(w) PROVE SeenInv'
  BY <1>1 DEF ListOwn
<1>2. ASSUME NEW w \in Writers, Stage(w) PROVE SeenInv'
  BY <1>2 DEF Stage
<1>3. ASSUME NEW w \in Writers, Rename(w) PROVE SeenInv'
  BY <1>3 DEF Rename
<1>4. ASSUME NEW w \in Writers, RenameFails(w) PROVE SeenInv'
  BY <1>4 DEF RenameFails
<1>5. ASSUME NEW p \in Procs, ProbeFree(p) PROVE SeenInv'
  BY <1>5 DEF ProbeFree
<1>6. ASSUME NEW p \in Procs, ProbeBusy(p) PROVE SeenInv'
  BY <1>6 DEF ProbeBusy, AfterProbe
<1>7. ASSUME NEW p \in Procs, ProbeDrop(p) PROVE SeenInv'
  BY <1>7 DEF ProbeDrop
<1>8. ASSUME NEW p \in Procs, Launch(p) PROVE SeenInv'
  BY <1>8 DEF Launch, AfterProbe
<1>9. ASSUME NEW d \in Drivers, StartWin(d) PROVE SeenInv'
  BY <1>9 DEF StartWin
<1>10. ASSUME NEW d \in Drivers, ListInbox(d) PROVE SeenInv'
  BY <1>10 DEF ListInbox
<1>11. ASSUME NEW d \in Drivers, MoveNext(d, "deliver", "moved") PROVE SeenInv'
  BY <1>11 DEF MoveNext
<1>12. ASSUME NEW d \in Drivers, CommitMoved(d, "moved", "deliver") PROVE SeenInv'
  BY <1>12 DEF CommitMoved
<1>13. ASSUME NEW d \in Drivers, ListResults(d) PROVE SeenInv'
  BY <1>13 DEF ListResults
<1>14. ASSUME NEW d \in Drivers, MoveNext(d, "interpret", "imoved") PROVE SeenInv'
  BY <1>14 DEF MoveNext
<1>15. ASSUME NEW d \in Drivers, CommitMoved(d, "imoved", "interpret") PROVE SeenInv'
  BY <1>15 DEF CommitMoved
<1>16. ASSUME NEW d \in Drivers, HoldResult(d) PROVE SeenInv'
  BY <1>16 DEF HoldResult
<1>17. ASSUME NEW d \in Drivers, Warrant(d) PROVE SeenInv'
  BY <1>17 DEF Warrant
<1>18. ASSUME NEW d \in Drivers, StepTools(d) PROVE SeenInv'
  BY <1>18 DEF StepTools
<1>19. ASSUME NEW d \in Drivers, StepFinal(d) PROVE SeenInv'
  BY <1>19 DEF StepFinal
<1>20. ASSUME NEW d \in Drivers, StepCeases(d) PROVE SeenInv'
  BY <1>20 DEF StepCeases
<1>21. ASSUME NEW d \in Drivers, StepParks(d) PROVE SeenInv'
  BY <1>21 DEF StepParks
<1>22. ASSUME NEW d \in Drivers, EnterHeld(d) PROVE SeenInv'
  BY <1>22 DEF EnterHeld
<1>23. ASSUME NEW d \in Drivers, HeldParks(d) PROVE SeenInv'
  BY <1>23 DEF HeldParks
<1>24. ASSUME NEW d \in Drivers, HeldCompletes(d) PROVE SeenInv'
  BY <1>24 DEF HeldCompletes
<1>25. ASSUME NEW d \in Drivers, HeldStops(d) PROVE SeenInv'
  BY <1>25 DEF HeldStops
<1>26. ASSUME NEW d \in Drivers, Release(d) PROVE SeenInv'
  BY <1>26 DEF Release
<1>27. ASSUME NEW d \in Drivers, Reread(d) PROVE SeenInv'
  BY <1>27 DEF Reread
<1>28. ASSUME NEW d \in Drivers, Exit(d) PROVE SeenInv'
  BY <1>28 DEF Exit
<1>29. CASE StartLose
  BY <1>29 DEF StartLose
<1>30. ASSUME NEW p \in Scans \cup Censuses, LookFree(p) PROVE SeenInv'
  BY <1>30 DEF LookFree
<1>31. ASSUME NEW p \in Scans \cup Censuses, LookBusy(p) PROVE SeenInv'
  BY <1>31 DEF LookBusy, AfterLook
<1>32. ASSUME NEW p \in Scans \cup Censuses, LookDrop(p) PROVE SeenInv'
  BY <1>32 DEF LookDrop, AfterLook
<1>33. ASSUME NEW p \in Scans \cup Censuses, Flush(p) PROVE SeenInv'
  BY <1>33 DEF Flush
<1>34. ASSUME NEW p \in Procs, Die(p) PROVE SeenInv'
  BY <1>34 DEF Die, Depositing, Undelivered
<1>35. CASE LaunchedDies
  BY <1>35 DEF LaunchedDies, Undelivered
<1>36. CASE Touch
  BY <1>36 DEF Touch
<1> QED
  BY <1>1, <1>2, <1>3, <1>4, <1>5, <1>6, <1>7, <1>8, <1>9, <1>10, <1>11,
     <1>12, <1>13, <1>14, <1>15, <1>16, <1>17, <1>18, <1>19, <1>20, <1>21,
     <1>22, <1>23, <1>24, <1>25, <1>26, <1>27, <1>28, <1>29, <1>30, <1>31,
     <1>32, <1>33, <1>34, <1>35, <1>36 DEF Next, Deposit, ProbeAndLaunch,
     Deliver, Hop, Look

\* Every action leaves someone in charge of each pending file, when no census
\* probes the lock.
LEMMA CoverStep == ASSUME Censuses = {}, AllSerial, Accounting, Next PROVE CoverInv'
<1> USE DEF Accounting, CoverInv, Covered, LockInv, Holding, TypeOK, Goto,
      mailVars, treeVars, hopVars, bounds, Procs, WriterPCs, DriverPCs,
      LookerPCs, Driving
<1>1. ASSUME NEW w \in Writers, ListOwn(w) PROVE CoverInv'
  BY <1>1 DEF ListOwn
<1>2. ASSUME NEW w \in Writers, Stage(w) PROVE CoverInv'
  BY <1>2 DEF Stage
<1>3. ASSUME NEW w \in Writers, Rename(w) PROVE CoverInv'
  <2> SUFFICES ASSUME NEW f \in inbox', WarrantsLaunch(f), f.msg \notin waived'
               PROVE  Covered(f)'
    BY DEF WarrantsLaunch
  <2>1. PICK g \in tmp : /\ g.from = SenderOf[w] /\ g.seq = wseq[w]
                         /\ inbox' = {h \in inbox : ~SameName(g, h)} \cup {g}
    BY <1>3 DEF Rename
  <2>2. CASE f = g
    <3>1. g.msg = w
      BY <1>3, <2>1 DEF Rename, DepositInv, AllSerial, Depositing
    <3>2. pc'[w] = "probe"
      BY <1>3, <2>2, <3>1 DEF Rename, WarrantsLaunch
    <3> QED
      BY <3>2
  <2>3. CASE f \in inbox
    BY <1>3, <2>3 DEF Rename
  <2> QED
    BY <2>1, <2>2, <2>3
<1>4. ASSUME NEW w \in Writers, RenameFails(w) PROVE CoverInv'
  BY <1>4 DEF RenameFails
<1>5. ASSUME NEW p \in Procs, ProbeFree(p) PROVE CoverInv'
  BY <1>5 DEF ProbeFree
<1>6. ASSUME NEW p \in Procs, ProbeBusy(p) PROVE CoverInv'
  <2> SUFFICES ASSUME NEW f \in inbox', WarrantsLaunch(f), f.msg \notin waived'
               PROVE  Covered(f)'
    BY DEF WarrantsLaunch
  <2>1. PICK q \in Procs : q # p /\ pc[q] \in Holding /\ pc'[q] = pc[q]
    BY <1>6 DEF ProbeBusy
  <2>2. CASE q \in Drivers
    BY <2>1, <2>2, SMTT(40)
  <2>3. CASE q \in Writers
    BY <2>1, <2>3
  <2>4. CASE q \in Scans
    <3>1. pc'[q] \in {"probing", "looking"}
      BY <2>1, <2>4
    <3> QED
      BY <2>4, <3>1
  <2> QED
    BY <2>2, <2>3, <2>4
<1>7. ASSUME NEW p \in Procs, ProbeDrop(p) PROVE CoverInv'
  BY <1>7 DEF ProbeDrop
<1>8. ASSUME NEW p \in Procs, Launch(p) PROVE CoverInv'
  BY <1>8 DEF Launch, AfterProbe
<1>9. ASSUME NEW d \in Drivers, StartWin(d) PROVE CoverInv'
  BY <1>9 DEF StartWin
<1>10. ASSUME NEW d \in Drivers, ListInbox(d) PROVE CoverInv'
  BY <1>10 DEF ListInbox
<1>11. ASSUME NEW d \in Drivers, MoveNext(d, "deliver", "moved") PROVE CoverInv'
  BY <1>11 DEF MoveNext
<1>12. ASSUME NEW d \in Drivers, CommitMoved(d, "moved", "deliver") PROVE CoverInv'
  BY <1>12 DEF CommitMoved
<1>13. ASSUME NEW d \in Drivers, ListResults(d) PROVE CoverInv'
  BY <1>13 DEF ListResults
<1>14. ASSUME NEW d \in Drivers, MoveNext(d, "interpret", "imoved") PROVE CoverInv'
  BY <1>14 DEF MoveNext
<1>15. ASSUME NEW d \in Drivers, CommitMoved(d, "imoved", "interpret") PROVE CoverInv'
  BY <1>15 DEF CommitMoved
<1>16. ASSUME NEW d \in Drivers, HoldResult(d) PROVE CoverInv'
  BY <1>16 DEF HoldResult
<1>17. ASSUME NEW d \in Drivers, Warrant(d) PROVE CoverInv'
  BY <1>17 DEF Warrant
<1>18. ASSUME NEW d \in Drivers, StepTools(d) PROVE CoverInv'
  BY <1>18 DEF StepTools
<1>19. ASSUME NEW d \in Drivers, StepFinal(d) PROVE CoverInv'
  BY <1>19 DEF StepFinal
<1>20. ASSUME NEW d \in Drivers, StepCeases(d) PROVE CoverInv'
  BY <1>20 DEF StepCeases
<1>21. ASSUME NEW d \in Drivers, StepParks(d) PROVE CoverInv'
  BY <1>21 DEF StepParks
<1>22. ASSUME NEW d \in Drivers, EnterHeld(d) PROVE CoverInv'
  BY <1>22 DEF EnterHeld
<1>23. ASSUME NEW d \in Drivers, HeldParks(d) PROVE CoverInv'
  BY <1>23 DEF HeldParks
<1>24. ASSUME NEW d \in Drivers, HeldCompletes(d) PROVE CoverInv'
  BY <1>24 DEF HeldCompletes
<1>25. ASSUME NEW d \in Drivers, HeldStops(d) PROVE CoverInv'
  BY <1>25 DEF HeldStops
<1>26. ASSUME NEW d \in Drivers, Release(d) PROVE CoverInv'
  <2> SUFFICES ASSUME NEW f \in inbox', WarrantsLaunch(f), f.msg \notin waived'
               PROVE  Covered(f)'
    BY DEF WarrantsLaunch
  <2>1. f \in inbox /\ f.msg \notin waived /\ pc'[d] = "reread" /\ seen' = seen
    BY <1>26 DEF Release
  <2>2. Msgs(seen[d]) \subseteq waived
    BY <1>26 DEF Release, SeenInv, Listed
  <2>3. ASSUME NEW g \in seen[d], Matches(g, f) PROVE FALSE
    <3>1. g \in Files /\ f \in Files
      BY <2>1
    <3>2. g = f
      BY <2>1, <2>3, <3>1 DEF MtimeInv, Known, Matches
    <3> QED
      BY <2>1, <2>2, <3>2 DEF Msgs
  <2> QED
    BY <2>1, <2>3
<1>27. ASSUME NEW d \in Drivers, Reread(d) PROVE CoverInv'
  <2> SUFFICES ASSUME NEW f \in inbox', WarrantsLaunch(f), f.msg \notin waived'
               PROVE  Covered(f)'
    BY DEF WarrantsLaunch
  <2>1. f \in inbox /\ Covered(f) /\ launches' = launches
    BY <1>27 DEF Reread
  <2>2. CASE \A g \in seen[d] : ~Matches(g, f)
    <3>1. pc'[d] = "probe"
      BY <1>27, <2>1, <2>2 DEF Reread, Owed
    <3> QED
      BY <3>1
  <2>3. CASE ~ \A g \in seen[d] : ~Matches(g, f)
    <3>1. \A q \in Procs : q # d => pc'[q] = pc[q]
      BY <1>27 DEF Reread
    <3>2. \A e \in Drivers : e # d => seen'[e] = seen[e]
      BY <1>27 DEF Reread
    <3> QED
      BY <1>27, <2>1, <2>3, <3>1, <3>2 DEF Reread
  <2> QED
    BY <2>2, <2>3
<1>28. ASSUME NEW d \in Drivers, Exit(d) PROVE CoverInv'
  <2> SUFFICES ASSUME NEW f \in inbox', WarrantsLaunch(f), f.msg \notin waived'
               PROVE  Covered(f)'
    BY DEF WarrantsLaunch
  <2>1. f \in inbox /\ Covered(f) /\ seen' = seen
    BY <1>28 DEF Exit
  <2>2. \A q \in Procs : q # d => pc'[q] = pc[q]
    BY <1>28 DEF Exit
  <2>3. launches > 0 => launches' > 0
    BY <1>28 DEF Exit
  <2> QED
    BY <1>28, <2>1, <2>2, <2>3 DEF Exit
<1>29. CASE StartLose
  <2> SUFFICES ASSUME NEW f \in inbox', WarrantsLaunch(f), f.msg \notin waived'
               PROVE  Covered(f)'
    BY DEF WarrantsLaunch
  <2>1. PICK q \in Procs : lock = q /\ pc[q] \in Holding
    BY <1>29 DEF StartLose
  <2> QED
    BY <1>29, <2>1 DEF StartLose
<1>30. ASSUME NEW p \in Scans \cup Censuses, LookFree(p) PROVE CoverInv'
  BY <1>30 DEF LookFree
<1>31. ASSUME NEW p \in Scans \cup Censuses, LookBusy(p) PROVE CoverInv'
  BY <1>31 DEF LookBusy, AfterLook
<1>32. ASSUME NEW p \in Scans \cup Censuses, LookDrop(p) PROVE CoverInv'
  BY <1>32 DEF LookDrop, AfterLook
<1>33. ASSUME NEW p \in Scans \cup Censuses, Flush(p) PROVE CoverInv'
  BY <1>33 DEF Flush
<1>34. ASSUME NEW p \in Procs, Die(p) PROVE CoverInv'
  <2> SUFFICES ASSUME NEW f \in inbox', WarrantsLaunch(f), f.msg \notin waived'
               PROVE  Covered(f)'
    BY DEF WarrantsLaunch
  <2>1. CASE pc[p] \in Depositing
    <3>1. f \in inbox /\ Covered(f) /\ launches' = launches
      BY <1>34, <2>1 DEF Die
    <3>2. p \notin Drivers /\ p \notin Scans
      BY <2>1 DEF Depositing
    <3>3. \A d \in Drivers : seen'[d] = seen[d]
      BY <1>34, <3>2 DEF Die
    <3>4. \A q \in Procs : q # p => pc'[q] = pc[q]
      BY <1>34 DEF Die
    <3> QED
      BY <2>1, <3>1, <3>2, <3>3, <3>4 DEF Depositing
  <2>2. CASE pc[p] \notin Depositing
    BY <1>34, <2>2 DEF Die, Undelivered, Msgs
  <2> QED
    BY <2>1, <2>2
<1>35. CASE LaunchedDies
  <2> SUFFICES ASSUME NEW f \in inbox', WarrantsLaunch(f), f.msg \notin waived'
               PROVE  Covered(f)'
    BY DEF WarrantsLaunch
  <2> QED
    BY <1>35 DEF LaunchedDies, Undelivered, Msgs
<1>36. CASE Touch
  BY <1>36 DEF Touch
<1> QED
  BY <1>1, <1>2, <1>3, <1>4, <1>5, <1>6, <1>7, <1>8, <1>9, <1>10, <1>11,
     <1>12, <1>13, <1>14, <1>15, <1>16, <1>17, <1>18, <1>19, <1>20, <1>21,
     <1>22, <1>23, <1>24, <1>25, <1>26, <1>27, <1>28, <1>29, <1>30, <1>31,
     <1>32, <1>33, <1>34, <1>35, <1>36 DEF Next, Deposit, ProbeAndLaunch,
     Deliver, Hop, Look

-----------------------------------------------------------------------------
(* The theorems.                                                           *)

LEMMA TypeInit == Init => TypeOK
<1> SUFFICES ASSUME Init PROVE TypeOK
  OBVIOUS
<1>1. /\ pc \in [Procs -> WriterPCs \cup DriverPCs \cup LookerPCs]
      /\ \A w \in Writers : pc[w] \in WriterPCs
      /\ \A d \in Drivers : pc[d] \in DriverPCs
      /\ \A p \in Scans \cup Censuses : pc[p] \in LookerPCs
  BY DEF Init, Procs, WriterPCs, DriverPCs, LookerPCs
<1>2. stray \in Seq(Files) /\ log \in Seq(Files)
  BY DEF Init
<1>3. /\ wseq \in [Writers -> Nat]
      /\ batch \in [Drivers -> SUBSET Files]
      /\ seen \in [Drivers -> SUBSET Files]
      /\ epitaph \in [Drivers -> BOOLEAN]
  BY DEF Init
<1>4. faults \in 0..MaxFaults /\ touches \in 0..MaxTouches
  BY DEF Init
<1> QED
  BY <1>1, <1>2, <1>3, <1>4 DEF Init, TypeOK

\* Every reachable state is well typed.
THEOREM Typing == Spec => []TypeOK
<1>1. TypeOK /\ [Next]_vars => TypeOK'
  <2>1. CASE Next
    BY <2>1, TypeStep
  <2>2. CASE UNCHANGED vars
    BY <2>2 DEF TypeOK, vars
  <2> QED
    BY <2>1, <2>2
<1> QED
  BY TypeInit, <1>1, PTL DEF Spec

\* Whatever dies and whoever probes, the process that delivers, steps or
\* probes is the one holder of the executor lock.
THEOREM MutualExclusion == Spec => []LockInv
<1>1. Init => LockInv
  BY DEF Init, LockInv, Holding, Driving, Procs
<1>2. TypeOK /\ LockInv /\ [Next]_vars => LockInv'
  <2>1. CASE Next
    BY <2>1, LockStep
  <2>2. CASE UNCHANGED vars
    BY <2>2 DEF LockInv, vars
  <2> QED
    BY <2>1, <2>2
<1> QED
  BY <1>1, <1>2, Typing, PTL DEF Spec

\* The initial state accounts for everything: the inbox is empty.
LEMMA AccountingInit == Init => Accounting
<1> SUFFICES ASSUME Init PROVE Accounting
  OBVIOUS
<1>1. TypeOK
  BY TypeInit
<1>2. LockInv
  BY DEF Init, LockInv, Holding, Driving, Procs
<1>3. MtimeInv
  BY DEF Init, MtimeInv, Known
<1>4. DepositInv
  BY DEF Init, DepositInv, Depositing, Procs
<1>5. SeenInv
  BY DEF Init, SeenInv, Listed, Procs
<1>6. CoverInv
  BY DEF Init, CoverInv
<1> QED
  BY <1>1, <1>2, <1>3, <1>4, <1>5, <1>6 DEF Accounting

\* Every step keeps everything accounted for.
LEMMA AccountingStep ==
  ASSUME Censuses = {}, AllSerial, Accounting, [Next]_vars PROVE Accounting'
<1>1. CASE Next
  BY <1>1, TypeStep, LockStep, MtimeStep, DepositStep, SeenStep, CoverStep
     DEF Accounting
<1>2. CASE UNCHANGED vars
  <2> USE <1>2 DEF Accounting, vars
  <2>1. TypeOK' /\ LockInv' /\ DepositInv'
    BY DEF TypeOK, LockInv, DepositInv
  <2>2. MtimeInv' /\ SeenInv'
    BY DEF MtimeInv, Known, SeenInv
  <2>3. CoverInv'
    BY DEF CoverInv, Covered
  <2> QED
    BY <2>1, <2>2, <2>3
<1> QED
  BY <1>1, <1>2

\* When everything is at rest, nobody is left to launch for a file that is
\* still owed a launch, so there is none.
LEMMA RestAccounted == Accounting => NoStranding
<1> SUFFICES ASSUME Accounting, Quiet, NEW f \in inbox, WarrantsLaunch(f),
                    f.msg \notin waived
             PROVE  FALSE
  BY DEF NoStranding
<1>1. Covered(f)
  BY DEF Accounting, CoverInv
<1>2. launches = 0 /\ \A p \in Procs : pc[p] \in {"idle", "done", "failed"}
  BY DEF Quiet
<1> QED
  BY <1>1, <1>2 DEF Covered, Procs, Driving

\* Mail pending and nobody driving means a launch: no wake-up is lost, for
\* serial senders and when only writers, drivers and scans touch the lock.
\* (TLC refutes the statement with one census; seriality is what the proof of
\* the covering uses.)
THEOREM NoLostWakeup ==
  ASSUME Censuses = {}, AllSerial PROVE Spec => []NoStranding
<1>1. Accounting /\ [Next]_vars => Accounting'
  BY AccountingStep
<1> QED
  BY AccountingInit, <1>1, RestAccounted, PTL DEF Spec

-----------------------------------------------------------------------------
(* A deposit that returned success is kept.                                *)

\* The commit moves the tail of the entry into the log and keeps the entry.
LEMMA CommitKeeps ==
  ASSUME log \in Seq(Files), stray \in Seq(Files)
  PROVE  (log \o stray) \o <<>> = log \o stray
  OBVIOUS

\* The rename into the worktree adds one file to what the entry holds.
LEMMA RangeGrows ==
  ASSUME log \in Seq(Files), stray \in Seq(Files), NEW g \in Files
  PROVE  Range(log \o Append(stray, g)) = Range(log \o stray) \cup {g}
<1> DEFINE s == log \o stray
<1>1. log \o Append(stray, g) = Append(s, g) /\ s \in Seq(Files)
  OBVIOUS
<1>2. /\ DOMAIN s = 1..Len(s) /\ Len(s) \in Nat
      /\ DOMAIN Append(s, g) = 1..(Len(s) + 1)
      /\ Append(s, g)[Len(s) + 1] = g
      /\ \A i \in 1..Len(s) : Append(s, g)[i] = s[i]
  BY <1>1
<1> HIDE DEF s
<1>3. 1..(Len(s) + 1) = 1..Len(s) \cup {Len(s) + 1}
  BY <1>2
<1>4. Range(Append(s, g)) = Range(s) \cup {g}
  BY <1>2, <1>3 DEF Range
<1> QED
  BY <1>1, <1>4 DEF s

\* Where a writer that has renamed its file stands.
Landing == {"probe", "probing", "launch", "done"}
Landed(w) == w \in Msgs(inbox \cup Range(log \o stray))
LandedInv == \A w \in Writers : pc[w] \in Landing => Landed(w)

\* Every action keeps each landed message in the inbox or in the transcript.
LEMMA LandedStep == ASSUME TypeOK, DepositInv, LandedInv, AllSerial, Next PROVE LandedInv'
<1> USE DEF LandedInv, TypeOK, Goto, mailVars, treeVars, hopVars, bounds,
      Procs, WriterPCs, DriverPCs, LookerPCs, Driving
<1>1. ASSUME NEW w \in Writers, ListOwn(w) PROVE LandedInv'
  BY <1>1 DEF ListOwn, Landing, Landed
<1>2. ASSUME NEW w \in Writers, Stage(w) PROVE LandedInv'
  BY <1>2 DEF Stage, Landing, Landed
<1>3. ASSUME NEW w \in Writers, Rename(w) PROVE LandedInv'
  <2> SUFFICES ASSUME NEW v \in Writers, pc'[v] \in Landing PROVE Landed(v)'
    BY DEF Landing
  <2>1. PICK g \in tmp : /\ g.from = SenderOf[w] /\ g.seq = wseq[w]
                         /\ inbox' = {h \in inbox : ~SameName(g, h)} \cup {g}
    BY <1>3 DEF Rename
  <2>2. log' = log /\ stray' = stray
    BY <1>3 DEF Rename
  <2>3. CASE v = w
    <3>1. g.msg = w
      BY <1>3, <2>1 DEF Rename, DepositInv, AllSerial, Depositing
    <3> QED
      BY <2>1, <2>3, <3>1 DEF Landed, Msgs
  <2>4. CASE v # w
    <3>1. Landed(v)
      BY <1>3, <2>4 DEF Rename
    <3>2. \A h \in inbox : ~SameName(g, h)
      BY <1>3, <2>1 DEF Rename, DepositInv, AllSerial, Depositing, SameName, Files
    <3>3. inbox \subseteq inbox'
      BY <2>1, <3>2
    <3> QED
      BY <2>2, <3>1, <3>3 DEF Landed, Msgs
  <2> QED
    BY <2>3, <2>4
<1>4. ASSUME NEW w \in Writers, RenameFails(w) PROVE LandedInv'
  BY <1>4 DEF RenameFails, Landing, Landed
<1>5. ASSUME NEW p \in Procs, ProbeFree(p) PROVE LandedInv'
  BY <1>5 DEF ProbeFree, Landing, Landed
<1>6. ASSUME NEW p \in Procs, ProbeBusy(p) PROVE LandedInv'
  BY <1>6 DEF ProbeBusy, AfterProbe, Landing, Landed
<1>7. ASSUME NEW p \in Procs, ProbeDrop(p) PROVE LandedInv'
  BY <1>7 DEF ProbeDrop, Landing, Landed
<1>8. ASSUME NEW p \in Procs, Launch(p) PROVE LandedInv'
  BY <1>8 DEF Launch, AfterProbe, Landing, Landed
<1>9. ASSUME NEW d \in Drivers, StartWin(d) PROVE LandedInv'
  BY <1>9 DEF StartWin, Landing, Landed
<1>10. ASSUME NEW d \in Drivers, ListInbox(d) PROVE LandedInv'
  <2>1. inbox' = inbox /\ log' = log \o stray /\ stray' = <<>>
    BY <1>10 DEF ListInbox
  <2>2. pc' = [pc EXCEPT ![d] = pc'[d]] /\ pc'[d] \notin Landing
    BY <1>10 DEF ListInbox, Landing
  <2>3. log' \o stray' = log \o stray
    BY <2>1, CommitKeeps DEF TypeOK
  <2> QED
    BY <2>1, <2>2, <2>3 DEF Landed, Landing
<1>11. ASSUME NEW d \in Drivers, MoveNext(d, "deliver", "moved") PROVE LandedInv'
  <2>1. PICK g \in inbox : inbox' = inbox \ {g} /\ stray' = Append(stray, g)
    BY <1>11 DEF MoveNext
  <2>2. g \in Files /\ log' = log /\ pc' = [pc EXCEPT ![d] = pc'[d]] /\ pc'[d] \notin Landing
    BY <1>11, <2>1 DEF MoveNext, Landing
  <2>3. Range(log' \o stray') = Range(log \o stray) \cup {g}
    BY <2>1, <2>2, RangeGrows DEF TypeOK
  <2> QED
    BY <2>1, <2>2, <2>3 DEF Landed, Msgs, Landing
<1>12. ASSUME NEW d \in Drivers, CommitMoved(d, "moved", "deliver") PROVE LandedInv'
  <2>1. inbox' = inbox /\ log' = log \o stray /\ stray' = <<>>
    BY <1>12 DEF CommitMoved
  <2>2. pc' = [pc EXCEPT ![d] = pc'[d]] /\ pc'[d] \notin Landing
    BY <1>12 DEF CommitMoved, Landing
  <2>3. log' \o stray' = log \o stray
    BY <2>1, CommitKeeps DEF TypeOK
  <2> QED
    BY <2>1, <2>2, <2>3 DEF Landed, Landing
<1>13. ASSUME NEW d \in Drivers, ListResults(d) PROVE LandedInv'
  BY <1>13 DEF ListResults, Landing, Landed
<1>14. ASSUME NEW d \in Drivers, MoveNext(d, "interpret", "imoved") PROVE LandedInv'
  <2>1. PICK g \in inbox : inbox' = inbox \ {g} /\ stray' = Append(stray, g)
    BY <1>14 DEF MoveNext
  <2>2. g \in Files /\ log' = log /\ pc' = [pc EXCEPT ![d] = pc'[d]] /\ pc'[d] \notin Landing
    BY <1>14, <2>1 DEF MoveNext, Landing
  <2>3. Range(log' \o stray') = Range(log \o stray) \cup {g}
    BY <2>1, <2>2, RangeGrows DEF TypeOK
  <2> QED
    BY <2>1, <2>2, <2>3 DEF Landed, Msgs, Landing
<1>15. ASSUME NEW d \in Drivers, CommitMoved(d, "imoved", "interpret") PROVE LandedInv'
  <2>1. inbox' = inbox /\ log' = log \o stray /\ stray' = <<>>
    BY <1>15 DEF CommitMoved
  <2>2. pc' = [pc EXCEPT ![d] = pc'[d]] /\ pc'[d] \notin Landing
    BY <1>15 DEF CommitMoved, Landing
  <2>3. log' \o stray' = log \o stray
    BY <2>1, CommitKeeps DEF TypeOK
  <2> QED
    BY <2>1, <2>2, <2>3 DEF Landed, Landing
<1>16. ASSUME NEW d \in Drivers, HoldResult(d) PROVE LandedInv'
  BY <1>16 DEF HoldResult, Landing, Landed
<1>17. ASSUME NEW d \in Drivers, Warrant(d) PROVE LandedInv'
  BY <1>17 DEF Warrant, Landing, Landed
<1>18. ASSUME NEW d \in Drivers, StepTools(d) PROVE LandedInv'
  BY <1>18 DEF StepTools, Landing, Landed
<1>19. ASSUME NEW d \in Drivers, StepFinal(d) PROVE LandedInv'
  BY <1>19 DEF StepFinal, Landing, Landed
<1>20. ASSUME NEW d \in Drivers, StepCeases(d) PROVE LandedInv'
  BY <1>20 DEF StepCeases, Landing, Landed
<1>21. ASSUME NEW d \in Drivers, StepParks(d) PROVE LandedInv'
  BY <1>21 DEF StepParks, Landing, Landed
<1>22. ASSUME NEW d \in Drivers, EnterHeld(d) PROVE LandedInv'
  BY <1>22 DEF EnterHeld, Landing, Landed
<1>23. ASSUME NEW d \in Drivers, HeldParks(d) PROVE LandedInv'
  BY <1>23 DEF HeldParks, Landing, Landed
<1>24. ASSUME NEW d \in Drivers, HeldCompletes(d) PROVE LandedInv'
  BY <1>24 DEF HeldCompletes, Landing, Landed
<1>25. ASSUME NEW d \in Drivers, HeldStops(d) PROVE LandedInv'
  BY <1>25 DEF HeldStops, Landing, Landed
<1>26. ASSUME NEW d \in Drivers, Release(d) PROVE LandedInv'
  BY <1>26 DEF Release, Landing, Landed
<1>27. ASSUME NEW d \in Drivers, Reread(d) PROVE LandedInv'
  BY <1>27 DEF Reread, Landing, Landed
<1>28. ASSUME NEW d \in Drivers, Exit(d) PROVE LandedInv'
  BY <1>28 DEF Exit, Landing, Landed
<1>29. CASE StartLose
  BY <1>29 DEF StartLose, Landing, Landed
<1>30. ASSUME NEW p \in Scans \cup Censuses, LookFree(p) PROVE LandedInv'
  BY <1>30 DEF LookFree, Landing, Landed
<1>31. ASSUME NEW p \in Scans \cup Censuses, LookBusy(p) PROVE LandedInv'
  <2>1. p \notin Writers
    OBVIOUS
  <2>2. \A w \in Writers : pc'[w] = pc[w]
    BY <1>31, <2>1 DEF LookBusy
  <2>3. inbox' = inbox /\ log' = log /\ stray' = stray
    BY <1>31 DEF LookBusy
  <2> QED
    BY <2>2, <2>3 DEF Landed
<1>32. ASSUME NEW p \in Scans \cup Censuses, LookDrop(p) PROVE LandedInv'
  BY <1>32 DEF LookDrop, AfterLook, Landing, Landed
<1>33. ASSUME NEW p \in Scans \cup Censuses, Flush(p) PROVE LandedInv'
  BY <1>33 DEF Flush, Landing, Landed
<1>34. ASSUME NEW p \in Procs, Die(p) PROVE LandedInv'
  BY <1>34 DEF Die, Depositing, Landing, Landed
<1>35. CASE LaunchedDies
  BY <1>35 DEF LaunchedDies, Landing, Landed
<1>36. CASE Touch
  BY <1>36 DEF Touch, Landing, Landed
<1> QED
  BY <1>1, <1>2, <1>3, <1>4, <1>5, <1>6, <1>7, <1>8, <1>9, <1>10, <1>11,
     <1>12, <1>13, <1>14, <1>15, <1>16, <1>17, <1>18, <1>19, <1>20, <1>21,
     <1>22, <1>23, <1>24, <1>25, <1>26, <1>27, <1>28, <1>29, <1>30, <1>31,
     <1>32, <1>33, <1>34, <1>35, <1>36 DEF Next, Deposit, ProbeAndLaunch,
     Deliver, Hop, Look

\* For serial senders no deposit overwrites another, whatever races it: a
\* deposit that returned success is in the inbox or in the transcript.
THEOREM DepositsKept == ASSUME AllSerial PROVE Spec => []NoDepositLost
<1>1. Init => TypeOK /\ DepositInv /\ LandedInv
  BY TypeInit DEF Init, DepositInv, Depositing, LandedInv, Landing, Procs
<1>2. TypeOK /\ DepositInv /\ LandedInv /\ [Next]_vars => (TypeOK /\ DepositInv /\ LandedInv)'
  <2>1. CASE Next
    BY <2>1, TypeStep, DepositStep, LandedStep
  <2>2. CASE UNCHANGED vars
    BY <2>2 DEF TypeOK, DepositInv, LandedInv, Landed, vars
  <2> QED
    BY <2>1, <2>2
<1>3. LandedInv => NoDepositLost
  BY DEF LandedInv, Landing, Landed, NoDepositLost
<1> QED
  BY <1>1, <1>2, <1>3, PTL DEF Spec

-----------------------------------------------------------------------------
(* What was delivered: the entry, and the steps that move a message.       *)

Entry == log \o stray
Same == UNCHANGED <<clock, tmp, inbox>> /\ Entry' = Entry
Unsent == {"idle", "listed", "staged"}

\* The steps that write, rename or move a file; all others leave the files and
\* the entry alone, and no writer comes back to before its rename.
Moving(d) == MoveNext(d, "deliver", "moved") \/ MoveNext(d, "interpret", "imoved")

LEMMA CommitSame ==
  ASSUME TypeOK, log' = log \o stray, stray' = <<>> PROVE Entry' = Entry
BY CommitKeeps DEF Entry, TypeOK

LEMMA OtherSteps ==
  ASSUME TypeOK, Next,
         \A w \in Writers : ~ListOwn(w) /\ ~Stage(w) /\ ~Rename(w),
         \A d \in Drivers : ~Moving(d)
  PROVE  /\ Same /\ wseq' = wseq
         /\ \A w \in Writers : pc'[w] = pc[w] \/ (pc[w] # "idle" /\ pc'[w] \notin Unsent)
<1> DEFINE Writing == \A w \in Writers : pc'[w] = pc[w] \/ (pc[w] # "idle" /\ pc'[w] \notin Unsent)
<1> USE DEF TypeOK, Goto, mailVars, treeVars, hopVars, bounds, Procs, Same, Entry,
      WriterPCs, DriverPCs, LookerPCs, Driving, Unsent
<1> SUFFICES Same /\ wseq' = wseq /\ Writing
  OBVIOUS
<1>1. ASSUME NEW w \in Writers, RenameFails(w) PROVE Same /\ wseq' = wseq /\ Writing
  BY <1>1 DEF RenameFails
<1>2. ASSUME NEW p \in Procs, ProbeAndLaunch(p) PROVE Same /\ wseq' = wseq /\ Writing
  BY <1>2 DEF ProbeAndLaunch, ProbeFree, ProbeBusy, ProbeDrop, Launch, AfterProbe
<1>3. ASSUME NEW d \in Drivers, StartWin(d) \/ HoldResult(d) \/ ListResults(d) \/ Hop(d)
      PROVE  Same /\ wseq' = wseq /\ Writing
  BY <1>3 DEF StartWin, HoldResult, ListResults, Hop, Warrant, StepTools, StepFinal, StepCeases,
              StepParks, EnterHeld, HeldParks, HeldCompletes, HeldStops, Release, Reread, Exit
<1>4. ASSUME NEW d \in Drivers, ListInbox(d) PROVE Same /\ wseq' = wseq /\ Writing
  BY <1>4, CommitSame DEF ListInbox
<1>5. ASSUME NEW d \in Drivers,
             CommitMoved(d, "moved", "deliver") \/ CommitMoved(d, "imoved", "interpret")
      PROVE  Same /\ wseq' = wseq /\ Writing
  BY <1>5, CommitSame DEF CommitMoved
<1>6. ASSUME NEW p \in Scans \cup Censuses, Look(p) PROVE Same /\ wseq' = wseq /\ Writing
  BY <1>6 DEF Look, LookFree, LookBusy, LookDrop, Flush, AfterLook
<1>7. ASSUME NEW p \in Procs, Die(p) PROVE Same /\ wseq' = wseq /\ Writing
  BY <1>7 DEF Die
<1>8. CASE StartLose \/ LaunchedDies \/ Touch
  BY <1>8 DEF StartLose, LaunchedDies, Touch
<1> QED
  BY <1>1, <1>2, <1>3, <1>4, <1>5, <1>6, <1>7, <1>8 DEF Next, Deposit, Deliver, Moving

\* A move takes one listed file out of the inbox and appends it to the entry.
LEMMA MoveSplit ==
  ASSUME TypeOK, NEW d \in Drivers, Moving(d)
  PROVE  \E f \in batch[d], g \in inbox :
            /\ f \in Files /\ g \in Files /\ SameName(f, g) /\ Oldest(batch[d], f)
            /\ inbox' = inbox \ {g}
            /\ Entry' = Append(Entry, g) /\ Entry \in Seq(Files)
            /\ batch' = [batch EXCEPT ![d] = @ \ {f}]
            /\ pc' = [pc EXCEPT ![d] = IF pc[d] = "deliver" THEN "moved" ELSE "imoved"]
            /\ pc[d] \in {"deliver", "interpret"}
            /\ UNCHANGED <<wseq, clock, tmp, lock>>
<1>1. PICK f \in batch[d], g \in inbox :
         /\ SameName(f, g) /\ Oldest(batch[d], f)
         /\ inbox' = inbox \ {g} /\ stray' = Append(stray, g) /\ log' = log
         /\ batch' = [batch EXCEPT ![d] = @ \ {f}]
         /\ pc' = [pc EXCEPT ![d] = IF pc[d] = "deliver" THEN "moved" ELSE "imoved"]
         /\ pc[d] \in {"deliver", "interpret"}
         /\ UNCHANGED <<wseq, clock, tmp, lock>>
  BY DEF Moving, MoveNext, Goto
<1>2. f \in Files /\ g \in Files
  BY <1>1 DEF TypeOK
<1>3. /\ log \in Seq(Files) /\ stray \in Seq(Files)
  BY DEF TypeOK
<1>4. Entry' = Append(Entry, g) /\ Entry \in Seq(Files)
  BY <1>1, <1>2, <1>3 DEF Entry
<1> QED
  BY <1>1, <1>2, <1>4

\* What an appended sequence holds, and where.
LEMMA Appended ==
  ASSUME NEW S, NEW s \in Seq(S), NEW x \in S
  PROVE  /\ Len(s) \in Nat /\ DOMAIN s = 1..Len(s)
         /\ DOMAIN Append(s, x) = 1..(Len(s) + 1)
         /\ Append(s, x)[Len(s) + 1] = x
         /\ \A i \in 1..Len(s) : Append(s, x)[i] = s[i]
         /\ Range(Append(s, x)) = Range(s) \cup {x}
<1>1. /\ Len(s) \in Nat /\ DOMAIN s = 1..Len(s)
      /\ DOMAIN Append(s, x) = 1..(Len(s) + 1)
      /\ Append(s, x)[Len(s) + 1] = x
      /\ \A i \in 1..Len(s) : Append(s, x)[i] = s[i]
  OBVIOUS
<1>2. 1..(Len(s) + 1) = 1..Len(s) \cup {Len(s) + 1}
  BY <1>1
<1>3. Range(Append(s, x)) = Range(s) \cup {x}
  BY <1>1, <1>2 DEF Range
<1> QED
  BY <1>1, <1>3

-----------------------------------------------------------------------------
(* The inbox and the transcript implement a mailbox.                       *)

\* A message that is in the inbox or in the entry has left its writer, and it
\* is in the inbox once.
OnceInv ==
    /\ \A f \in inbox \cup Range(Entry) : pc[f.msg] \notin Unsent
    /\ \A f, g \in inbox : f.msg = g.msg => f = g

Order(s) == [i \in DOMAIN s |-> s[i].msg]

\* Reading the messages of an entry commutes with appending to it.
LEMMA OrderAppend ==
  ASSUME NEW s \in Seq(Files), NEW g \in Files
  PROVE  Order(Append(s, g)) = Append(Order(s), g.msg)
<1>1. /\ Len(s) \in Nat /\ DOMAIN s = 1..Len(s)
      /\ DOMAIN Append(s, g) = 1..(Len(s) + 1)
      /\ Append(s, g)[Len(s) + 1] = g
      /\ \A i \in 1..Len(s) : Append(s, g)[i] = s[i]
  BY Appended
<1>2. \A i \in 1..Len(s) : s[i] \in Files
  OBVIOUS
<1>3. Order(s) \in Seq(Writers) /\ Len(Order(s)) = Len(s)
  BY <1>1, <1>2 DEF Order, Files
<1>4. g.msg \in Writers
  BY DEF Files
<1>5. /\ DOMAIN Append(Order(s), g.msg) = 1..(Len(s) + 1)
      /\ Append(Order(s), g.msg)[Len(s) + 1] = g.msg
      /\ \A i \in 1..Len(s) : Append(Order(s), g.msg)[i] = Order(s)[i]
      /\ Append(Order(s), g.msg) = [i \in 1..(Len(s) + 1) |-> Append(Order(s), g.msg)[i]]
  BY <1>3, <1>4
<1>6. ASSUME NEW i \in 1..(Len(s) + 1)
      PROVE  Append(s, g)[i].msg = Append(Order(s), g.msg)[i]
  <2>1. CASE i = Len(s) + 1
    BY <1>1, <1>5, <2>1
  <2>2. CASE i \in 1..Len(s)
    BY <1>1, <1>5, <2>2 DEF Order
  <2>3. Len(s) \in Nat
    BY <1>1
  <2>4. i = Len(s) + 1 \/ i \in 1..Len(s)
    BY <2>3
  <2> QED
    BY <2>1, <2>2, <2>4
<1> QED
  BY <1>1, <1>5, <1>6 DEF Order

\* What Rename does for a serial sender: it moves the writer's own file, and
\* replaces none.
LEMMA RenameOwn ==
  ASSUME TypeOK, DepositInv, NEW w \in Writers, SenderOf[w] \in Serial, Rename(w)
  PROVE  \E g \in tmp :
            /\ g \in Files /\ g.from = SenderOf[w] /\ g.seq = wseq[w] /\ g.msg = w
            /\ inbox' = inbox \cup {g} /\ tmp' = tmp \ {g}
            /\ \A h \in inbox : ~SameName(g, h)
            /\ pc[w] = "staged" /\ pc' = [pc EXCEPT ![w] = pc'[w]]
            /\ pc'[w] \in {"probe", "done"}
            /\ clock' = clock /\ Entry' = Entry
            /\ wseq' = [wseq EXCEPT ![w] = 0] /\ lock' = lock /\ batch' = batch
<1>1. PICK g \in tmp :
         /\ g.from = SenderOf[w] /\ g.seq = wseq[w]
         /\ inbox' = {h \in inbox : ~SameName(g, h)} \cup {g} /\ tmp' = tmp \ {g}
  BY DEF Rename
<1>2. pc[w] = "staged" /\ pc' = [pc EXCEPT ![w] = pc'[w]] /\ pc'[w] \in {"probe", "done"}
  BY DEF Rename, Goto, TypeOK, Procs
<1>3. g \in Files /\ g.msg = w /\ \A h \in inbox : h.from = SenderOf[w] => h.seq < wseq[w]
  BY <1>1, <1>2 DEF DepositInv, Depositing, TypeOK
<1>4. \A h \in inbox : ~SameName(g, h)
  BY <1>1, <1>3 DEF SameName, TypeOK, Files
<1>5. /\ clock' = clock /\ Entry' = Entry /\ lock' = lock /\ batch' = batch
      /\ wseq' = [wseq EXCEPT ![w] = 0]
  BY DEF Rename, Entry, treeVars, hopVars
<1> QED
  BY <1>1, <1>2, <1>3, <1>4, <1>5

\* Every step keeps OnceInv.
LEMMA OnceStep == ASSUME TypeOK, DepositInv, OnceInv, AllSerial, Next PROVE OnceInv'
<1> USE DEF OnceInv, Unsent
<1>0. inbox \subseteq Files /\ Range(Entry) \subseteq Files /\ pc \in [Procs -> WriterPCs \cup DriverPCs \cup LookerPCs]
  <2>1. Entry \in Seq(Files)
    BY DEF TypeOK, Entry
  <2> QED
    BY <2>1 DEF TypeOK, Range
<1>01. \A f \in inbox \cup Range(Entry) : f.msg \in Writers
  BY <1>0 DEF Files
<1>1. ASSUME NEW w \in Writers, ListOwn(w) \/ Stage(w) PROVE OnceInv'
  <2>1. /\ inbox' = inbox /\ Entry' = Entry
        /\ pc[w] \in Unsent /\ pc' = [pc EXCEPT ![w] = pc'[w]]
    BY <1>1, <1>0 DEF ListOwn, Stage, Goto, Entry, treeVars, Procs
  <2>2. \A v \in Writers : v # w => pc'[v] = pc[v]
    BY <1>0, <2>1 DEF Procs
  <2> QED
    BY <1>01, <2>1, <2>2
<1>2. ASSUME NEW w \in Writers, Rename(w) PROVE OnceInv'
  <2>1. PICK g \in tmp :
           /\ g.msg = w /\ inbox' = inbox \cup {g} /\ pc[w] = "staged" /\ Entry' = Entry
           /\ pc' = [pc EXCEPT ![w] = pc'[w]] /\ pc'[w] \in {"probe", "done"}
    BY <1>2, RenameOwn DEF AllSerial
  <2>2. \A v \in Writers : v # w => pc'[v] = pc[v]
    BY <1>0, <2>1 DEF Procs
  <2> QED
    BY <1>01, <2>1, <2>2
<1>3. ASSUME NEW d \in Drivers, Moving(d) PROVE OnceInv'
  <2>1. PICK f \in batch[d], g \in inbox :
           /\ g \in Files /\ inbox' = inbox \ {g}
           /\ Entry' = Append(Entry, g) /\ Entry \in Seq(Files)
           /\ pc' = [pc EXCEPT ![d] = IF pc[d] = "deliver" THEN "moved" ELSE "imoved"]
    BY <1>3, MoveSplit
  <2>2. Range(Entry') = Range(Entry) \cup {g}
    BY <2>1, Appended
  <2>3. \A w \in Writers : pc'[w] = pc[w]
    BY <1>0, <2>1
  <2> QED
    BY <1>0, <2>1, <2>2, <2>3 DEF Files
<1>4. CASE /\ \A w \in Writers : ~ListOwn(w) /\ ~Stage(w) /\ ~Rename(w)
           /\ \A d \in Drivers : ~Moving(d)
  <2>1. /\ inbox' = inbox /\ Entry' = Entry
        /\ \A w \in Writers : pc'[w] = pc[w] \/ pc'[w] \notin Unsent
    BY <1>4, OtherSteps DEF Same
  <2> QED
    BY <1>0, <2>1 DEF Files
<1> QED
  BY <1>1, <1>2, <1>3, <1>4

\* Each step of the system is a step of the mailbox, or none.
LEMMA BoxStep ==
  ASSUME TypeOK, DepositInv, OnceInv, AllSerial, Next
  PROVE  Box!Next \/ UNCHANGED <<Msgs(inbox), Order(Entry)>>
<1>0. inbox \subseteq Files /\ Entry \in Seq(Files)
  BY DEF TypeOK, Entry
<1>1. ASSUME NEW w \in Writers, ListOwn(w) \/ Stage(w)
      PROVE  UNCHANGED <<Msgs(inbox), Order(Entry)>>
  BY <1>1 DEF ListOwn, Stage, Entry, treeVars
<1>2. ASSUME NEW w \in Writers, Rename(w) PROVE Box!Send(w)
  <2>1. PICK g \in tmp :
           /\ g.msg = w /\ inbox' = inbox \cup {g} /\ pc[w] = "staged" /\ Entry' = Entry
    BY <1>2, RenameOwn DEF AllSerial
  <2>2. w \notin Msgs(inbox) /\ \A f \in Range(Entry) : f.msg # w
    BY <2>1 DEF OnceInv, Unsent, Msgs
  <2>3. \A i \in DOMAIN Order(Entry) : Order(Entry)[i] # w
    BY <2>2 DEF Order, Range
  <2>4. Msgs(inbox)' = Msgs(inbox) \cup {w}
    BY <2>1 DEF Msgs
  <2>5. Order(Entry)' = Order(Entry)
    BY <2>1 DEF Order
  <2> QED
    BY <2>2, <2>3, <2>4, <2>5 DEF Box!Send, Order, Entry
<1>3. ASSUME NEW d \in Drivers, Moving(d) PROVE \E w \in Writers : Box!Deliver(w)
  <2>1. PICK f \in batch[d], g \in inbox :
           g \in Files /\ inbox' = inbox \ {g} /\ Entry' = Append(Entry, g)
    BY <1>3, MoveSplit
  <2>2. g.msg \in Writers /\ g.msg \in Msgs(inbox)
    BY <2>1 DEF Files, Msgs
  <2>3. Msgs(inbox)' = Msgs(inbox) \ {g.msg}
    BY <2>1 DEF OnceInv, Msgs
  <2>4. Order(Entry)' = Append(Order(Entry), g.msg)
    BY <1>0, <2>1, OrderAppend DEF Order
  <2>5. Box!Deliver(g.msg)
    BY <2>2, <2>3, <2>4 DEF Box!Deliver, Order, Entry
  <2> QED
    BY <2>2, <2>5
<1>4. CASE /\ \A w \in Writers : ~ListOwn(w) /\ ~Stage(w) /\ ~Rename(w)
           /\ \A d \in Drivers : ~Moving(d)
  <2>1. inbox' = inbox /\ Entry' = Entry
    BY <1>4, OtherSteps DEF Same
  <2> QED
    BY <2>1 DEF Order, Msgs
<1> QED
  BY <1>1, <1>2, <1>3, <1>4 DEF Box!Next

\* For serial senders the inbox and the transcript are a mailbox: every
\* message is sent at most once, delivered at most once, and never lost.
THEOREM MailboxRefined == ASSUME AllSerial PROVE Spec => ExactlyOnce
<1>1. Init => Box!Init
  BY DEF Init, Box!Init, Msgs
<1>2. Init => TypeOK /\ DepositInv /\ OnceInv
  <2>1. Init => TypeOK /\ DepositInv
    BY TypeInit DEF Init, DepositInv, Depositing, Procs
  <2>2. Init => OnceInv
    BY DEF Init, OnceInv, Entry, Range
  <2> QED
    BY <2>1, <2>2
<1>3. TypeOK /\ DepositInv /\ OnceInv /\ [Next]_vars => (TypeOK /\ DepositInv /\ OnceInv)'
  <2>1. CASE Next
    BY <2>1, TypeStep, DepositStep, OnceStep
  <2>2. CASE UNCHANGED vars
    BY <2>2 DEF TypeOK, DepositInv, OnceInv, Entry, vars
  <2> QED
    BY <2>1, <2>2
<1>4. TypeOK /\ DepositInv /\ OnceInv /\ [Next]_vars
      => [Box!Next]_<<Msgs(inbox), [i \in DOMAIN (log \o stray) |-> (log \o stray)[i].msg]>>
  <2>1. CASE Next
    BY <2>1, BoxStep DEF Order, Entry
  <2>2. CASE UNCHANGED vars
    BY <2>2 DEF Msgs, vars
  <2> QED
    BY <2>1, <2>2
<1> QED
  BY <1>1, <1>2, <1>3, <1>4, PTL DEF Spec, ExactlyOnce, Box!Spec

-----------------------------------------------------------------------------
(* The steering mail of one serial sender is delivered in order.           *)

\* The names in the inbox are distinct, and an entry was written in the past.
NamesInv ==
    /\ \A f, g \in inbox : SameName(f, g) => f = g
    /\ \A e \in Range(Entry) : e.mtime <= clock

\* What a serial writer has staged is newer than everything of its sender.
NewestInv ==
    \A w \in Writers : SenderOf[w] \in Serial /\ pc[w] = "staged" =>
        \A t \in tmp : t.from = SenderOf[w] /\ t.seq = wseq[w] =>
            \A f \in inbox \cup Range(Entry) : f.from = t.from => f.mtime < t.mtime

\* Steering mail of a serial sender that waits is newer than what it has in
\* the entry.
AfterInv ==
    \A f \in inbox, e \in Range(Entry) :
        f.from = e.from /\ f.from \in Serial /\ ~OwnResult(f) /\ ~OwnResult(e) => e.mtime < f.mtime

Draining(d) == pc[d] \in {"deliver", "moved"}
Interpreting(d) == pc[d] \in {"interpret", "imoved"}

\* A draining driver's list holds, of a serial sender, waiting steering mail
\* only, and no older one is missing from it; an interpreting one's list holds
\* no steering mail.
BatchInv ==
    \A d \in Drivers : \A f \in batch[d] : f.from \in Serial =>
        /\ Draining(d) \/ Interpreting(d) => f \in inbox
        /\ Interpreting(d) => OwnResult(f)
        /\ Draining(d) =>
              /\ ~OwnResult(f)
              /\ \A g \in inbox : ~OwnResult(g) /\ g.from = f.from /\ g.mtime <= f.mtime => g \in batch[d]

OrderInv == NamesInv /\ NewestInv /\ AfterInv /\ BatchInv

\* What a step other than its own move does to a driver's list: the list is
\* read again, an interpreter's shrinks, or it stays while the driver does.
LEMMA ListSteps ==
  ASSUME TypeOK, Next, NEW d \in Drivers, ~Moving(d)
  PROVE  \/ ~Draining(d)' /\ ~Interpreting(d)'
         \/ Draining(d) /\ Draining(d)' /\ batch'[d] = batch[d]
         \/ Interpreting(d) /\ Interpreting(d)' /\ batch'[d] \subseteq batch[d]
         \/ /\ Draining(d)' /\ inbox' = inbox
            /\ batch'[d] = {f \in inbox : ~OwnResult(f)}
         \/ /\ Interpreting(d)' /\ inbox' = inbox
            /\ batch'[d] = {f \in inbox : OwnResult(f)}
<1> DEFINE G == \/ ~Draining(d)' /\ ~Interpreting(d)'
                \/ Draining(d) /\ Draining(d)' /\ batch'[d] = batch[d]
                \/ Interpreting(d) /\ Interpreting(d)' /\ batch'[d] \subseteq batch[d]
                \/ /\ Draining(d)' /\ inbox' = inbox
                   /\ batch'[d] = {f \in inbox : ~OwnResult(f)}
                \/ /\ Interpreting(d)' /\ inbox' = inbox
                   /\ batch'[d] = {f \in inbox : OwnResult(f)}
<1> SUFFICES G
  OBVIOUS
<1> USE DEF TypeOK, Goto, mailVars, treeVars, hopVars, bounds, Procs, Draining, Interpreting,
      WriterPCs, DriverPCs, LookerPCs, Driving
<1>1. ASSUME pc'[d] = pc[d], batch'[d] = batch[d] PROVE G
  BY <1>1
<1>2. ASSUME NEW w \in Writers, Deposit(w) PROVE pc'[d] = pc[d] /\ batch'[d] = batch[d]
  BY <1>2 DEF Deposit, ListOwn, Stage, Rename, RenameFails
<1>3. ASSUME NEW p \in Procs, ProbeAndLaunch(p) PROVE G
  BY <1>3 DEF ProbeAndLaunch, ProbeFree, ProbeBusy, ProbeDrop, Launch, AfterProbe
<1>4. ASSUME NEW e \in Drivers, e # d, StartWin(e) \/ Deliver(e) \/ Hop(e)
      PROVE  pc'[d] = pc[d] /\ batch'[d] = batch[d]
  <2>1. pc' = [pc EXCEPT ![e] = pc'[e]]
    BY <1>4 DEF StartWin, Deliver, ListInbox, MoveNext, CommitMoved, ListResults, HoldResult,
       Hop, Warrant, StepTools, StepFinal, StepCeases, StepParks, EnterHeld, HeldParks,
       HeldCompletes, HeldStops, Release, Reread, Exit
  <2>2. batch' = [batch EXCEPT ![e] = batch'[e]]
    BY <1>4 DEF StartWin, Deliver, ListInbox, MoveNext, CommitMoved, ListResults, HoldResult,
       Hop, Warrant, StepTools, StepFinal, StepCeases, StepParks, EnterHeld, HeldParks,
       HeldCompletes, HeldStops, Release, Reread, Exit
  <2> QED
    BY <1>4, <2>1, <2>2
<1>5. CASE StartWin(d) \/ Hop(d)
  BY <1>5 DEF StartWin, Hop, Warrant, StepTools, StepFinal, StepCeases, StepParks, EnterHeld,
     HeldParks, HeldCompletes, HeldStops, Release, Reread, Exit
<1>6. CASE ListInbox(d)
  BY <1>6 DEF ListInbox
<1>7. CASE ListResults(d)
  BY <1>7 DEF ListResults
<1>8. CASE HoldResult(d)
  BY <1>8 DEF HoldResult
<1>9. CASE CommitMoved(d, "moved", "deliver") \/ CommitMoved(d, "imoved", "interpret")
  BY <1>9 DEF CommitMoved
<1>10. ASSUME NEW p \in Scans \cup Censuses, Look(p) PROVE pc'[d] = pc[d] /\ batch'[d] = batch[d]
  BY <1>10 DEF Look, LookFree, LookBusy, LookDrop, Flush
<1>11. ASSUME NEW p \in Procs, Die(p) PROVE G
  BY <1>11 DEF Die
<1>12. CASE StartLose \/ LaunchedDies \/ Touch
  BY <1>12 DEF StartLose, LaunchedDies, Touch
<1> QED
  BY <1>1, <1>2, <1>3, <1>4, <1>5, <1>6, <1>7, <1>8, <1>9, <1>10, <1>11, <1>12
     DEF Next, Deliver, Moving

\* A deposit of a serial sender lands in an inbox that held no file of its
\* name; the inbox loses no file of a serial sender to a deposit.
LEMMA RenameAny ==
  ASSUME TypeOK, DepositInv, NEW w \in Writers, Rename(w)
  PROVE  \E t \in tmp :
            /\ t \in Files /\ t.from = SenderOf[w] /\ t.seq = wseq[w] /\ pc[w] = "staged"
            /\ inbox' = {g \in inbox : ~SameName(t, g)} \cup {t} /\ tmp' = tmp \ {t}
            /\ \A g \in inbox : g.from \in Serial => ~SameName(t, g)
            /\ pc' = [pc EXCEPT ![w] = pc'[w]] /\ pc'[w] \in {"probe", "done"}
            /\ UNCHANGED <<clock, batch, lock>> /\ Entry' = Entry
            /\ wseq' = [wseq EXCEPT ![w] = 0]
<1>1. PICK t \in tmp :
         /\ t.from = SenderOf[w] /\ t.seq = wseq[w]
         /\ inbox' = {g \in inbox : ~SameName(t, g)} \cup {t} /\ tmp' = tmp \ {t}
  BY DEF Rename
<1>2. /\ pc[w] = "staged" /\ pc' = [pc EXCEPT ![w] = pc'[w]] /\ pc'[w] \in {"probe", "done"}
      /\ UNCHANGED <<clock, batch, lock>> /\ Entry' = Entry /\ t \in Files
      /\ wseq' = [wseq EXCEPT ![w] = 0]
  BY <1>1 DEF Rename, Goto, TypeOK, Procs, Entry, treeVars, hopVars
<1>3. ASSUME NEW g \in inbox, g.from \in Serial, SameName(t, g) PROVE FALSE
  <2>1. g.seq < wseq[w] /\ g.seq = wseq[w]
    BY <1>1, <1>2, <1>3 DEF DepositInv, Depositing, SameName
  <2>2. g.seq \in Nat
    BY DEF TypeOK, Files
  <2> QED
    BY <2>1, <2>2
<1> QED
  BY <1>1, <1>2, <1>3

\* What a move takes from a serial sender is the very file it listed: its own
\* child's result when it interprets, and otherwise the oldest steering mail
\* of that sender that waits.
LEMMA MoveTakes ==
  ASSUME TypeOK, MtimeInv, NamesInv, BatchInv, NEW d \in Drivers,
         NEW f \in batch[d], NEW g \in inbox, SameName(f, g), Oldest(batch[d], f),
         pc[d] \in {"deliver", "interpret"}, g.from \in Serial
  PROVE  /\ g = f
         /\ pc[d] = "interpret" => OwnResult(g)
         /\ pc[d] = "deliver" =>
               \A h \in inbox : ~OwnResult(h) /\ h.from = g.from /\ h # g => g.mtime < h.mtime
<1>1. f.from \in Serial /\ f \in inbox
  BY DEF SameName, BatchInv, Draining, Interpreting
<1>2. g = f
  BY <1>1 DEF NamesInv
<1>3. pc[d] = "interpret" => OwnResult(g)
  BY <1>1, <1>2 DEF BatchInv, Interpreting
<1>4. ASSUME pc[d] = "deliver", NEW h \in inbox, ~OwnResult(h), h.from = g.from, h # g
      PROVE  g.mtime < h.mtime
  <2>1. g.mtime \in Int /\ h.mtime \in Int /\ g \in Files /\ h \in Files
    BY DEF TypeOK, Files
  <2>2. ASSUME h.mtime <= g.mtime PROVE FALSE
    <3>1. h \in batch[d]
      BY <1>1, <1>2, <1>4, <2>2 DEF BatchInv, Draining
    <3>2. g.mtime <= h.mtime
      BY <1>2, <3>1 DEF Oldest
    <3>3. g.mtime = h.mtime
      BY <2>1, <2>2, <3>2
    <3> QED
      BY <1>4, <2>1, <3>3 DEF MtimeInv, Known
  <2> QED
    BY <2>1, <2>2
<1> QED
  BY <1>2, <1>3, <1>4

\* Starting a deposit disturbs none of it: no file is written yet.
LEMMA OrderListOwn ==
  ASSUME TypeOK, OrderInv, NEW w \in Writers, ListOwn(w) PROVE OrderInv'
<1>1. /\ UNCHANGED <<inbox, tmp, clock, batch>> /\ Entry' = Entry
      /\ wseq' = [wseq EXCEPT ![w] = wseq'[w]]
      /\ pc' = [pc EXCEPT ![w] = "listed"]
  BY DEF ListOwn, Goto, Entry, treeVars, hopVars, TypeOK
<1>2. \A d \in Drivers : pc'[d] = pc[d]
  BY <1>1 DEF TypeOK, Procs
<1>3. \A v \in Writers : pc'[v] = "staged" => pc[v] = "staged" /\ wseq'[v] = wseq[v]
  BY <1>1 DEF TypeOK, Procs
<1>4. NamesInv' /\ AfterInv'
  BY <1>1 DEF OrderInv, NamesInv, AfterInv, SameName, OwnResult
<1>5. NewestInv'
  BY <1>1, <1>3 DEF OrderInv, NewestInv
<1>6. BatchInv'
  BY <1>1, <1>2 DEF OrderInv, BatchInv, Draining, Interpreting, OwnResult
<1> QED
  BY <1>4, <1>5, <1>6 DEF OrderInv

\* A staged file is the newest there is.
LEMMA OrderStage ==
  ASSUME TypeOK, MtimeInv, DepositInv, OrderInv, NEW w \in Writers, Stage(w) PROVE OrderInv'
<1>1. /\ UNCHANGED <<inbox, batch, wseq>> /\ Entry' = Entry /\ clock' = clock + 1
      /\ pc[w] = "listed" /\ pc' = [pc EXCEPT ![w] = "staged"]
      /\ tmp' = {f \in tmp : ~SameName(f, FileOf(w))} \cup {FileOf(w)}
  BY DEF Stage, Goto, Entry, treeVars, hopVars
<1>2. \A d \in Drivers : pc'[d] = pc[d]
  BY <1>1 DEF TypeOK, Procs
<1>3. \A v \in Writers : v # w /\ pc'[v] = "staged" => pc[v] = "staged"
  BY <1>1 DEF TypeOK, Procs
<1>4. \A f \in inbox \cup Range(Entry) : f.mtime <= clock /\ f.mtime \in Nat
  <2>1. Entry \in Seq(Files)
    BY DEF TypeOK, Entry
  <2>2. inbox \cup Range(Entry) \subseteq Files
    BY <2>1 DEF TypeOK, Range
  <2> QED
    BY <2>2 DEF OrderInv, NamesInv, MtimeInv, Known, Files
<1>5. NamesInv'
  BY <1>1, <1>4 DEF OrderInv, NamesInv, SameName, TypeOK
<1>6. AfterInv'
  BY <1>1 DEF OrderInv, AfterInv, OwnResult
<1>7. NewestInv'
  <2> SUFFICES ASSUME NEW v \in Writers, SenderOf[v] \in Serial, pc'[v] = "staged",
                      NEW t \in tmp', t.from = SenderOf[v], t.seq = wseq[v],
                      NEW f \in inbox \cup Range(Entry), f.from = t.from
               PROVE  f.mtime < t.mtime
    BY <1>1 DEF NewestInv
  <2>1. CASE t = FileOf(w)
    BY <1>4, <2>1 DEF FileOf, TypeOK
  <2>2. CASE t # FileOf(w)
    <3>1. t \in tmp /\ ~SameName(t, FileOf(w))
      BY <1>1, <2>2
    <3>2. v # w
      BY <3>1 DEF SameName, FileOf
    <3> QED
      BY <1>3, <3>1, <3>2 DEF OrderInv, NewestInv
  <2> QED
    BY <2>1, <2>2
<1>8. BatchInv'
  BY <1>1, <1>2 DEF OrderInv, BatchInv, Draining, Interpreting, OwnResult
<1> QED
  BY <1>5, <1>6, <1>7, <1>8 DEF OrderInv

\* What a deposit renames into the inbox is newer than its sender's mail.
LEMMA OrderRename ==
  ASSUME TypeOK, MtimeInv, DepositInv, OrderInv, NEW w \in Writers, Rename(w) PROVE OrderInv'
<1>1. PICK t \in tmp :
         /\ t \in Files /\ t.from = SenderOf[w] /\ t.seq = wseq[w] /\ pc[w] = "staged"
         /\ inbox' = {g \in inbox : ~SameName(t, g)} \cup {t} /\ tmp' = tmp \ {t}
         /\ \A g \in inbox : g.from \in Serial => ~SameName(t, g)
         /\ pc' = [pc EXCEPT ![w] = pc'[w]] /\ pc'[w] \in {"probe", "done"}
         /\ UNCHANGED <<clock, batch, lock>> /\ Entry' = Entry
         /\ wseq' = [wseq EXCEPT ![w] = 0]
  BY RenameAny
<1>2. /\ \A d \in Drivers : pc'[d] = pc[d]
      /\ \A v \in Writers : pc'[v] = "staged" => v # w /\ pc[v] = "staged" /\ wseq'[v] = wseq[v]
  BY <1>1 DEF TypeOK, Procs
<1>3. t.from \in Serial => \A f \in inbox \cup Range(Entry) : f.from = t.from => f.mtime < t.mtime
  BY <1>1 DEF OrderInv, NewestInv
<1>4. NamesInv'
  BY <1>1 DEF OrderInv, NamesInv, SameName
<1>5. AfterInv'
  BY <1>1, <1>3 DEF OrderInv, AfterInv, OwnResult
<1>6. NewestInv'
  <2> SUFFICES ASSUME NEW v \in Writers, SenderOf[v] \in Serial, pc'[v] = "staged",
                      NEW u \in tmp', u.from = SenderOf[v], u.seq = wseq'[v],
                      NEW f \in inbox' \cup Range(Entry), f.from = u.from
               PROVE  f.mtime < u.mtime
    BY <1>1 DEF NewestInv
  <2>1. v # w /\ pc[v] = "staged" /\ u \in tmp /\ u.seq = wseq[v]
    BY <1>1, <1>2
  <2>2. SenderOf[w] # SenderOf[v]
    BY <1>1, <2>1 DEF DepositInv, Depositing
  <2>3. f # t
    BY <1>1, <2>2
  <2> QED
    BY <1>1, <2>1, <2>3 DEF OrderInv, NewestInv
<1>7. BatchInv'
  <2> SUFFICES ASSUME NEW d \in Drivers, NEW f \in batch[d], f.from \in Serial
               PROVE  /\ Draining(d)' \/ Interpreting(d)' => f \in inbox'
                      /\ Interpreting(d)' => OwnResult(f)
                      /\ Draining(d)' =>
                            /\ ~OwnResult(f)
                            /\ \A g \in inbox' :
                                  ~OwnResult(g) /\ g.from = f.from /\ g.mtime <= f.mtime => g \in batch[d]
    BY <1>1 DEF BatchInv, OwnResult
  <2>1. Draining(d)' = Draining(d) /\ Interpreting(d)' = Interpreting(d)
    BY <1>2 DEF Draining, Interpreting
  <2>2. Draining(d) \/ Interpreting(d) => f \in inbox /\ f \in inbox'
    BY <1>1 DEF OrderInv, BatchInv
  <2>3. Draining(d) /\ t.from = f.from => f.mtime < t.mtime
    BY <1>3, <2>2
  <2>4. f \in inbox => f.mtime \in Int /\ t.mtime \in Int
    BY <1>1 DEF TypeOK, Files
  <2>5. ASSUME Draining(d), NEW g \in inbox', ~OwnResult(g), g.from = f.from, g.mtime <= f.mtime
        PROVE  g \in batch[d]
    <3>1. g # t
      BY <2>2, <2>3, <2>4, <2>5
    <3> QED
      BY <1>1, <2>5, <3>1 DEF OrderInv, BatchInv
  <2> QED
    BY <2>1, <2>2, <2>5 DEF OrderInv, BatchInv
<1> QED
  BY <1>4, <1>5, <1>6, <1>7 DEF OrderInv

\* A move delivers the oldest steering mail of a serial sender.
LEMMA OrderMove ==
  ASSUME TypeOK, LockInv, MtimeInv, OrderInv, NEW d \in Drivers, Moving(d) PROVE OrderInv'
<1>1. PICK f \in batch[d], g \in inbox :
         /\ f \in Files /\ g \in Files /\ SameName(f, g) /\ Oldest(batch[d], f)
         /\ inbox' = inbox \ {g}
         /\ Entry' = Append(Entry, g) /\ Entry \in Seq(Files)
         /\ batch' = [batch EXCEPT ![d] = @ \ {f}]
         /\ pc' = [pc EXCEPT ![d] = IF pc[d] = "deliver" THEN "moved" ELSE "imoved"]
         /\ pc[d] \in {"deliver", "interpret"}
         /\ UNCHANGED <<wseq, clock, tmp, lock>>
  BY MoveSplit
<1>2. Range(Entry') = Range(Entry) \cup {g}
  BY <1>1, Appended
<1>3. g.from \in Serial =>
         /\ g = f
         /\ pc[d] = "interpret" => OwnResult(g)
         /\ pc[d] = "deliver" =>
               \A h \in inbox : ~OwnResult(h) /\ h.from = g.from /\ h # g => g.mtime < h.mtime
  BY <1>1, MoveTakes DEF OrderInv
<1>4. \A v \in Writers : pc'[v] = pc[v]
  BY <1>1 DEF TypeOK, Procs
<1>5. NamesInv'
  <2>1. g.mtime <= clock
    BY <1>1 DEF MtimeInv, Known
  <2> QED
    BY <1>1, <1>2, <2>1 DEF OrderInv, NamesInv, SameName
<1>6. NewestInv'
  BY <1>1, <1>2, <1>4 DEF OrderInv, NewestInv
<1>7. AfterInv'
  <2> SUFFICES ASSUME NEW h \in inbox, h # g, NEW e \in Range(Entry) \cup {g},
                      h.from = e.from, h.from \in Serial, ~OwnResult(h), ~OwnResult(e)
               PROVE  e.mtime < h.mtime
    BY <1>1, <1>2 DEF AfterInv, OwnResult
  <2>1. CASE e = g
    BY <1>1, <1>3, <2>1
  <2>2. CASE e # g
    BY <2>2 DEF OrderInv, AfterInv
  <2> QED
    BY <2>1, <2>2
<1>8. BatchInv'
  <2> SUFFICES ASSUME NEW c \in Drivers, NEW k \in batch'[c], k.from \in Serial
               PROVE  /\ Draining(c)' \/ Interpreting(c)' => k \in inbox'
                      /\ Interpreting(c)' => OwnResult(k)
                      /\ Draining(c)' =>
                            /\ ~OwnResult(k)
                            /\ \A h \in inbox' :
                                  ~OwnResult(h) /\ h.from = k.from /\ h.mtime <= k.mtime => h \in batch'[c]
    BY DEF BatchInv, OwnResult
  <2>1. CASE c # d
    <3>1. pc[c] \notin Holding /\ pc'[c] = pc[c]
      BY <1>1, <2>1 DEF LockInv, TypeOK, Procs, Holding, Driving
    <3> QED
      BY <3>1 DEF Draining, Interpreting, Holding, Driving
  <2>2. CASE c = d
    <3>1. batch'[c] = batch[c] \ {f} /\ pc'[c] = (IF pc[c] = "deliver" THEN "moved" ELSE "imoved")
      BY <1>1, <2>2 DEF TypeOK, Procs
    <3>2. /\ Draining(c)' <=> Draining(c)
          /\ Interpreting(c)' <=> Interpreting(c)
      BY <1>1, <2>2, <3>1 DEF Draining, Interpreting
    <3>3. k # g
      BY <1>3, <3>1, <2>2
    <3>4. \A h \in inbox' : h \in inbox /\ (h.from = k.from => h # f \/ g.from \notin Serial)
      BY <1>1, <1>3
    <3>5. \A h \in inbox' : h.from = k.from => h # f
      BY <1>1, <1>3, <3>4 DEF SameName
    <3> QED
      BY <1>1, <3>1, <3>2, <3>3, <3>5 DEF OrderInv, BatchInv
  <2> QED
    BY <2>1, <2>2
<1> QED
  BY <1>5, <1>6, <1>7, <1>8 DEF OrderInv

\* Every other step leaves the files alone and may read the lists again.
LEMMA OrderOther ==
  ASSUME TypeOK, MtimeInv, OrderInv, Next,
         \A w \in Writers : ~ListOwn(w) /\ ~Stage(w) /\ ~Rename(w),
         \A d \in Drivers : ~Moving(d)
  PROVE  OrderInv'
<1>1. /\ Same /\ wseq' = wseq
      /\ \A w \in Writers : pc'[w] = pc[w] \/ (pc[w] # "idle" /\ pc'[w] \notin Unsent)
  BY OtherSteps
<1>2. NamesInv' /\ AfterInv'
  BY <1>1 DEF OrderInv, NamesInv, AfterInv, SameName, OwnResult, Same
<1>3. NewestInv'
  BY <1>1 DEF OrderInv, NewestInv, Same, Unsent
<1>4. BatchInv'
  <2> SUFFICES ASSUME NEW d \in Drivers, NEW f \in batch'[d], f.from \in Serial
               PROVE  /\ Draining(d)' \/ Interpreting(d)' => f \in inbox
                      /\ Interpreting(d)' => OwnResult(f)
                      /\ Draining(d)' =>
                            /\ ~OwnResult(f)
                            /\ \A g \in inbox :
                                  ~OwnResult(g) /\ g.from = f.from /\ g.mtime <= f.mtime => g \in batch'[d]
    BY <1>1 DEF BatchInv, OwnResult, Same
  <2>1. ~(Draining(d)' /\ Interpreting(d)')
    BY DEF Draining, Interpreting
  <2>2. CASE Draining(d) /\ Draining(d)' /\ batch'[d] = batch[d]
    BY <2>1, <2>2 DEF OrderInv, BatchInv
  <2>3. CASE Interpreting(d) /\ Interpreting(d)' /\ batch'[d] \subseteq batch[d]
    BY <2>1, <2>3 DEF OrderInv, BatchInv
  <2>4. CASE Draining(d)' /\ inbox' = inbox /\ batch'[d] = {h \in inbox : ~OwnResult(h)}
    BY <2>1, <2>4
  <2>5. CASE Interpreting(d)' /\ inbox' = inbox /\ batch'[d] = {h \in inbox : OwnResult(h)}
    BY <2>1, <2>5
  <2> QED
    BY <2>2, <2>3, <2>4, <2>5, ListSteps
<1> QED
  BY <1>2, <1>3, <1>4 DEF OrderInv

\* The transcript grows at its end, and only with newer mail of each serial
\* sender.
LEMMA SenderOrderStep ==
  ASSUME TypeOK, LockInv, MtimeInv, OrderInv, SenderOrder, Next PROVE SenderOrder'
<1>1. ASSUME NEW d \in Drivers, Moving(d) PROVE SenderOrder'
  <2>1. PICK f \in batch[d], g \in inbox :
           g \in Files /\ Entry' = Append(Entry, g) /\ Entry \in Seq(Files)
    BY <1>1, MoveSplit
  <2>2. /\ Len(Entry) \in Nat /\ DOMAIN Entry = 1..Len(Entry)
        /\ DOMAIN Entry' = 1..(Len(Entry) + 1)
        /\ Entry'[Len(Entry) + 1] = g
        /\ \A i \in 1..Len(Entry) : Entry'[i] = Entry[i] /\ Entry[i] \in Range(Entry)
    BY <2>1, Appended DEF Range
  <2> SUFFICES ASSUME NEW i \in 1..(Len(Entry) + 1), NEW j \in 1..(Len(Entry) + 1), i < j,
                      Entry'[i].from = Entry'[j].from, Entry'[i].from \in Serial,
                      ~OwnResult(Entry'[i]), ~OwnResult(Entry'[j])
               PROVE  Entry'[i].mtime < Entry'[j].mtime
    BY <2>2 DEF SenderOrder, Entry, OwnResult
  <2>3. i \in 1..Len(Entry)
    BY <2>2
  <2>4. CASE j = Len(Entry) + 1
    BY <2>2, <2>3, <2>4 DEF OrderInv, AfterInv
  <2>5. CASE j # Len(Entry) + 1
    <3>1. j \in 1..Len(Entry)
      BY <2>2, <2>5
    <3> QED
      BY <2>2, <2>3, <3>1 DEF SenderOrder, Entry
  <2> QED
    BY <2>4, <2>5
<1>2. CASE \A d \in Drivers : ~Moving(d)
  <2>1. Entry' = Entry
    <3>1. ASSUME NEW w \in Writers, ListOwn(w) \/ Stage(w) \/ Rename(w) PROVE Entry' = Entry
      BY <3>1 DEF ListOwn, Stage, Rename, Entry, treeVars
    <3> QED
      BY <1>2, <3>1, OtherSteps DEF Same
  <2> QED
    BY <2>1 DEF SenderOrder, Entry, OwnResult
<1> QED
  BY <1>1, <1>2

\* The steering mail of a serial sender is read in the order it was written:
\* no race of deposits, drains, hops and deaths turns two messages round.
THEOREM DeliveredInOrder == Spec => []SenderOrder
<1> DEFINE Inv == /\ TypeOK /\ LockInv /\ MtimeInv /\ DepositInv
                  /\ OrderInv /\ SenderOrder
<1>1. Init => Inv
  <2> SUFFICES ASSUME Init PROVE Inv
    OBVIOUS
  <2>1. TypeOK
    BY TypeInit
  <2>2. LockInv /\ MtimeInv /\ DepositInv
    BY DEF Init, LockInv, Holding, Driving, Procs, MtimeInv, Known, DepositInv, Depositing
  <2>3. Entry = <<>> /\ Range(Entry) = {}
    BY DEF Init, Entry, Range
  <2>4. OrderInv
    BY <2>3 DEF Init, OrderInv, NamesInv, NewestInv, AfterInv, BatchInv
  <2>5. SenderOrder
    BY <2>3 DEF SenderOrder, Entry
  <2> QED
    BY <2>1, <2>2, <2>4, <2>5
<1>2. Inv /\ [Next]_vars => Inv'
  <2> SUFFICES ASSUME Inv, [Next]_vars PROVE Inv'
    OBVIOUS
  <2>1. CASE Next
    <3>1. TypeOK' /\ LockInv' /\ MtimeInv' /\ DepositInv'
      BY <2>1, TypeStep, LockStep, MtimeStep, DepositStep
    <3>2. OrderInv'
      BY <2>1, OrderListOwn, OrderStage, OrderRename, OrderMove, OrderOther
    <3>3. SenderOrder'
      BY <2>1, SenderOrderStep
    <3> QED
      BY <3>1, <3>2, <3>3
  <2>2. CASE UNCHANGED vars
    <3> USE <2>2 DEF vars
    <3>1. TypeOK' /\ LockInv' /\ MtimeInv' /\ DepositInv'
      BY DEF TypeOK, LockInv, MtimeInv, Known, DepositInv
    <3>2. OrderInv'
      BY DEF OrderInv, NamesInv, NewestInv, AfterInv, BatchInv, Entry, Draining, Interpreting
    <3>3. SenderOrder'
      BY DEF SenderOrder
    <3> QED
      BY <3>1, <3>2, <3>3
  <2> QED
    BY <2>1, <2>2
<1>3. Inv => SenderOrder
  OBVIOUS
<1> QED
  BY <1>1, <1>2, <1>3, PTL DEF Spec
=============================================================================
