--------------------------- MODULE Endings_proofs ---------------------------
(***************************************************************************)
(* Proofs about how agents end.  Returns, for every set of scans, every    *)
(* bound and every site where somebody dies: typing, that the mark never   *)
(* precedes the result, what has gone wrong before a child that returned   *)
(* is reported dead, and how often a child is reported dead at most.       *)
(* StopCascade, for every tree of agents and every set of processes: whom  *)
(* a stop fells.  Its hypothesis JobControl = {} says that no depositor,   *)
(* scan or delete leads a process group of its own; with one that does,    *)
(* TLC refutes the statement.  ToolCall, for any tools and traits: no call *)
(* gets past its gate, an output that is recorded is whole, and a          *)
(* cancelled child leaves nobody behind who would have ended.              *)
(***************************************************************************)
EXTENDS Returns, StopCascade, ToolCall, SequenceTheorems, FiniteSetTheorems, TLAPS

-----------------------------------------------------------------------------
(* Returns: the result, the mark and the report.                           *)

USE SitesAssumption, SweepersAssumption, ReturnsBounds

\* What a deposit does to the files and to the history.
LEMMA Deposits ==
  ASSUME ReturnsTypeOK, NEW k \in Epitaphs \cup {"note"}, Arrives(k)
  PROVE  /\ sent' \in [Places -> Nat] /\ deposited' \in BOOLEAN /\ reports' \in Nat
         /\ deposited => deposited'
         /\ k # "note" => deposited'
         /\ k = "note" => deposited' = deposited
         /\ reports' = IF k = "died" THEN reports + 1 ELSE reports
<1>1. sent' \in [Places -> Nat]
  <2>1. CASE k = "final-response"
    BY <2>1 DEF ReturnsTypeOK, Arrives, Places
  <2>2. CASE k # "final-response"
    BY <2>2 DEF ReturnsTypeOK, Arrives, Places
  <2> QED
    BY <2>1, <2>2
<1>2. deposited' = (deposited \/ k # "note") /\ deposited \in BOOLEAN
  BY DEF ReturnsTypeOK, Arrives
<1>3. reports' = (IF k = "died" THEN reports + 1 ELSE reports) /\ reports' \in Nat
  BY DEF ReturnsTypeOK, Arrives
<1>4. CASE k = "note"
  BY <1>1, <1>2, <1>3, <1>4
<1>5. CASE k # "note"
  BY <1>1, <1>2, <1>3, <1>5
<1> QED
  BY <1>4, <1>5

\* What a drive of the parent does, whichever it is.
LEMMA DriveMoves ==
  ASSUME ReturnsTypeOK, Moved \/ Committed \/ Landed \/ Squashed
  PROVE  /\ sent' \in [Places -> Nat]
         /\ UNCHANGED <<born, stage, drive, returned, sweeping, counters>>
<1>1. ASSUME NEW from \in Places, NEW to \in Places, Carry(from, to)
      PROVE  sent' \in [Places -> Nat]
  <2>1. sent[from] \in Nat /\ sent[to] \in Nat /\ sent[from] - 1 \in Nat
    BY <1>1 DEF ReturnsTypeOK, Carry, Leaves
  <2> QED
    BY <1>1, <2>1 DEF ReturnsTypeOK, Carry
<1>2. ASSUME NEW from \in Places, Withdraw(from) PROVE sent' \in [Places -> Nat]
  <2>1. sent[from] \in Nat /\ sent[from] - 1 \in Nat
    BY <1>2 DEF ReturnsTypeOK, Withdraw, Leaves
  <2> QED
    BY <1>2, <2>1 DEF ReturnsTypeOK, Withdraw
<1>3. sent' \in [Places -> Nat]
  BY <1>1, <1>2 DEF Moved, Committed, Landed, Squashed, Places
<1>4. UNCHANGED <<born, stage, drive, returned, sweeping, counters>>
  BY DEF Moved, Committed, Landed, Squashed, Carry, Withdraw, Leaves
<1> QED
  BY <1>3, <1>4

\* Every action preserves the typing.
LEMMA TypeStep == ASSUME ReturnsTypeOK, ReturnsNext PROVE ReturnsTypeOK'
<1> USE DEF ReturnsTypeOK, drive, counters, tally, sweeping, To, Read, ChildPCs, ScanPCs
<1>1. ASSUME ForkChild PROVE ReturnsTypeOK'
  BY <1>1 DEF ForkChild
<1>2. ASSUME NEW a \in Askers, Prompt(a) PROVE ReturnsTypeOK'
  BY <1>2 DEF Prompt
<1>3. ASSUME Begin PROVE ReturnsTypeOK'
  BY <1>3 DEF Begin
<1>4. ASSUME TakeMail PROVE ReturnsTypeOK'
  BY <1>4 DEF TakeMail, IsLastPrompter, Prompters, Askers
<1>5. ASSUME ToolStep PROVE ReturnsTypeOK'
  BY <1>5 DEF ToolStep
<1>6. ASSUME Note PROVE ReturnsTypeOK'
  BY <1>6, Deposits DEF Note, Epitaphs
<1>7. ASSUME Final PROVE ReturnsTypeOK'
  BY <1>7 DEF Final, AddressesParent
<1>8. ASSUME Cease PROVE ReturnsTypeOK'
  BY <1>8 DEF Cease
<1>9. ASSUME Park PROVE ReturnsTypeOK'
  BY <1>9 DEF Park
<1>10. ASSUME File PROVE ReturnsTypeOK'
  <2>1. CASE ending = "none"
    BY <1>10, <2>1 DEF File, Arrives, Places
  <2>2. CASE ending # "none"
    BY <1>10, <2>2, Deposits DEF File, Epitaphs
  <2> QED
    BY <2>1, <2>2
<1>11. ASSUME Mark PROVE ReturnsTypeOK'
  BY <1>11 DEF Mark
<1>12. ASSUME Fail PROVE ReturnsTypeOK'
  BY <1>12 DEF Fail
<1>13. ASSUME Moved \/ Committed \/ Landed \/ Squashed PROVE ReturnsTypeOK'
  BY <1>13, DriveMoves
<1>14. ASSUME NEW s \in Sweepers, ProbeChild(s) PROVE ReturnsTypeOK'
  BY <1>14 DEF ProbeChild
<1>15. ASSUME NEW s \in Sweepers, ReadMark(s) PROVE ReturnsTypeOK'
  BY <1>15 DEF ReadMark
<1>16. ASSUME NEW s \in Sweepers, ReadInbox(s) PROVE ReturnsTypeOK'
  BY <1>16 DEF ReadInbox
<1>17. ASSUME NEW s \in Sweepers, ReadTranscript(s) PROVE ReturnsTypeOK'
  BY <1>17 DEF ReadTranscript
<1>18. ASSUME NEW s \in Sweepers, DepositDied(s) PROVE ReturnsTypeOK'
  BY <1>18, Deposits DEF DepositDied, Epitaphs
<1>19. ASSUME NEW s \in Sweepers, MarkDied(s) PROVE ReturnsTypeOK'
  BY <1>19 DEF MarkDied
<1>20. ASSUME NEW s \in Sweepers, Abort(s) PROVE ReturnsTypeOK'
  BY <1>20 DEF Abort
<1> QED
  BY <1>1, <1>2, <1>3, <1>4, <1>5, <1>6, <1>7, <1>8, <1>9, <1>10, <1>11, <1>12, <1>13, <1>14, <1>15, <1>16, <1>17, <1>18, <1>19, <1>20, Zenon DEF ReturnsNext, Sweep

\* The initial state is typed.
LEMMA TypeInit == ReturnsInit => ReturnsTypeOK
<1> SUFFICES ASSUME ReturnsInit PROVE ReturnsTypeOK
  OBVIOUS
<1>1. {born, launched, warranted, owes, returned} \subseteq BOOLEAN /\ stage \in ChildPCs
  BY DEF ReturnsInit, ChildPCs
<1>2. queue \in Seq(Askers) /\ sent \in [Places -> Nat]
  BY DEF ReturnsInit
<1>3. prompter \in Askers \ {"grandchild"} /\ ending \in {"none", "final-response", "ceased"}
  BY DEF ReturnsInit, Askers
<1>4. scan \in [Sweepers -> ScanPCs] /\ found \in [Sweepers -> BOOLEAN]
  BY DEF ReturnsInit, ScanPCs
<1>5. deposited \in BOOLEAN /\ reports \in Nat /\ lost \in [child : Nat, sweep : Nat]
  BY DEF ReturnsInit
<1>6. \A n \in {MaxLetters, MaxFailures, MaxSweeps} : 0 \in 0..n
  BY ReturnsBounds
<1> QED
  BY <1>1, <1>2, <1>3, <1>4, <1>5, <1>6 DEF ReturnsInit, ReturnsTypeOK

\* The type invariant of Returns (the states of the child's driver, of the
\* sweeps and of the files they leave).
THEOREM ReturnsTyping == ReturnsSpec => []ReturnsTypeOK
<1>1. ReturnsInit => ReturnsTypeOK
  BY TypeInit
<1>2. ReturnsTypeOK /\ [ReturnsNext]_returnVars => ReturnsTypeOK'
  <2>1. CASE ReturnsNext
    BY <2>1, TypeStep
  <2>2. CASE UNCHANGED returnVars
    BY <2>2 DEF ReturnsTypeOK, returnVars
  <2> QED
    BY <2>1, <2>2
<1> QED
  BY <1>1, <1>2, PTL DEF ReturnsSpec

-----------------------------------------------------------------------------
Reading == {"inbox", "tree", "report"}

\* Who is excused for a report of a child that had returned.
Explained == lost.child > 0 \/ reports > 0

\* MarkSound, strengthened to the two processes that are about to mark; and
\* what covers a result: the mark, the driver that is about to write it, or an
\* excuse.  A sweep that had something to find and went past the mark has one.
MarkInv ==
    /\ MarkSound
    /\ stage = "mark" => deposited
    /\ \A s \in Sweepers : scan[s] = "marking" => deposited
    /\ deposited => returned \/ stage = "mark" \/ Explained
    /\ \A s \in Sweepers : found[s] => returned \/ Explained
    /\ \A s \in Sweepers : found[s] /\ scan[s] \in Reading => Explained

\* Every action preserves it.
LEMMA MarkStep ==
  ASSUME ReturnsTypeOK, MarkInv, ReturnsNext PROVE MarkInv'
<1> USE DEF ReturnsTypeOK, MarkInv, MarkSound, Explained, Reading, drive, counters, tally, sweeping, To, Read, ChildPCs, ScanPCs
<1>1. ASSUME ForkChild PROVE MarkInv'
  BY <1>1 DEF ForkChild
<1>2. ASSUME NEW a \in Askers, Prompt(a) PROVE MarkInv'
  BY <1>2 DEF Prompt
<1>3. ASSUME Begin PROVE MarkInv'
  BY <1>3 DEF Begin
<1>4. ASSUME TakeMail PROVE MarkInv'
  BY <1>4 DEF TakeMail, IsLastPrompter
<1>5. ASSUME ToolStep PROVE MarkInv'
  BY <1>5 DEF ToolStep
<1>6. ASSUME Note PROVE MarkInv'
  BY <1>6, Deposits DEF Note, Epitaphs
<1>7. ASSUME Final PROVE MarkInv'
  BY <1>7 DEF Final, AddressesParent
<1>8. ASSUME Cease PROVE MarkInv'
  BY <1>8 DEF Cease
<1>9. ASSUME Park PROVE MarkInv'
  BY <1>9 DEF Park
<1>10. ASSUME File PROVE MarkInv'
  <2>1. deposited' /\ reports' = reports
    BY <1>10 DEF File, Arrives
  <2> QED
    BY <1>10, <2>1 DEF File
<1>11. ASSUME Mark PROVE MarkInv'
  BY <1>11 DEF Mark
<1>12. ASSUME Fail PROVE MarkInv'
  BY <1>12 DEF Fail
<1>13. ASSUME Moved \/ Committed \/ Landed \/ Squashed PROVE MarkInv'
  BY <1>13, DriveMoves
<1>14. ASSUME NEW s \in Sweepers, ProbeChild(s) PROVE MarkInv'
  BY <1>14 DEF ProbeChild
<1>15. ASSUME NEW s \in Sweepers, ReadMark(s) PROVE MarkInv'
  BY <1>15 DEF ReadMark
<1>16. ASSUME NEW s \in Sweepers, ReadInbox(s) PROVE MarkInv'
  BY <1>16 DEF ReadInbox
<1>17. ASSUME NEW s \in Sweepers, ReadTranscript(s) PROVE MarkInv'
  BY <1>17 DEF ReadTranscript
<1>18. ASSUME NEW s \in Sweepers, DepositDied(s) PROVE MarkInv'
  <2>1. deposited' /\ reports' = reports + 1
    BY <1>18, Deposits DEF DepositDied, Epitaphs
  <2> QED
    BY <1>18, <2>1 DEF DepositDied
<1>19. ASSUME NEW s \in Sweepers, MarkDied(s) PROVE MarkInv'
  BY <1>19 DEF MarkDied
<1>20. ASSUME NEW s \in Sweepers, Abort(s) PROVE MarkInv'
  BY <1>20 DEF Abort
<1> QED
  BY <1>1, <1>2, <1>3, <1>4, <1>5, <1>6, <1>7, <1>8, <1>9, <1>10, <1>11, <1>12, <1>13, <1>14, <1>15, <1>16, <1>17, <1>18, <1>19, <1>20, Zenon DEF ReturnsNext, Sweep

\* The invariant of the argument: it holds initially and of every step.
LEMMA Marks == ReturnsSpec => [](ReturnsTypeOK /\ MarkInv)
<1>1. ReturnsInit => ReturnsTypeOK /\ MarkInv
  BY TypeInit DEF ReturnsInit, MarkInv, MarkSound, Explained
<1>2. ReturnsTypeOK /\ MarkInv /\ [ReturnsNext]_returnVars => (ReturnsTypeOK /\ MarkInv)'
  <2>1. CASE ReturnsNext
    BY <2>1, TypeStep, MarkStep
  <2>2. CASE UNCHANGED returnVars
    BY <2>2 DEF ReturnsTypeOK, MarkInv, MarkSound, Explained, returnVars
  <2> QED
    BY <2>1, <2>2
<1> QED
  BY <1>1, <1>2, PTL DEF ReturnsSpec

\* The mark follows the file: a death between the two never leaves a child
\* marked as returned that returned nothing (deposit_result).
THEOREM MarkFollowsFile == ReturnsSpec => []MarkSound
<1>1. MarkInv => MarkSound
  BY DEF MarkInv
<1> QED
  BY <1>1, Marks, PTL

\* Whoever dies and however sweeps overlap, a child that had returned when a
\* sweep probed it is reported dead only after a driver of it died between its
\* result and the mark, or after another report (deposit_result, returned).
THEOREM FalseReportsExplained == ReturnsSpec => FalseDeathsExplained
<1>1. MarkInv => \A s \in Sweepers : DepositDied(s) /\ found[s] => lost.child > 0 \/ reports > 0
  BY DEF MarkInv, DepositDied, Explained, Reading
<1>2. MarkInv /\ [ReturnsNext]_returnVars
        => [\A s \in Sweepers : DepositDied(s) /\ found[s] => lost.child > 0 \/ reports > 0]_returnVars
  BY <1>1
<1> QED
  BY <1>2, Marks, PTL DEF ReturnsSpec, FalseDeathsExplained

-----------------------------------------------------------------------------
(* How many reports.                                                       *)

Readers == {s \in Sweepers : scan[s] \in Reading}
Markers == {s \in Sweepers : scan[s] = "marking"}

\* Until there is a mark, a report's sweep is about to write it or has died; a
\* sweep that reports after that had read it before, and is one of the Readers.
CountInv ==
    /\ ~returned => reports <= Cardinality(Markers) + lost.sweep
    /\ returned => reports + Cardinality(Readers) <= Cardinality(Sweepers) + lost.sweep

\* Both are sets of sweeps, and no sweep is in both.
LEMMA Counts ==
    /\ IsFiniteSet(Readers) /\ IsFiniteSet(Markers)
    /\ Cardinality(Readers) \in Nat /\ Cardinality(Markers) \in Nat
    /\ Cardinality(Sweepers) \in Nat
    /\ Cardinality(Readers) + Cardinality(Markers) <= Cardinality(Sweepers)
<1>1. Readers \subseteq Sweepers /\ Markers \subseteq Sweepers
  BY DEF Readers, Markers
<1>2. IsFiniteSet(Readers) /\ IsFiniteSet(Markers)
  BY <1>1, SweepersAssumption, FS_Subset
<1>3. Cardinality(Readers) \in Nat /\ Cardinality(Markers) \in Nat /\ Cardinality(Sweepers) \in Nat
  BY <1>2, SweepersAssumption, FS_CardinalityType
<1>4. Readers \cap Markers = {}
  BY DEF Readers, Markers, Reading
<1>5. Cardinality(Readers \cup Markers) = Cardinality(Readers) + Cardinality(Markers)
  <2>1. Cardinality(Readers \cup Markers)
          = Cardinality(Readers) + Cardinality(Markers) - Cardinality(Readers \cap Markers)
    BY <1>2, FS_Union
  <2>2. Cardinality(Readers \cap Markers) = 0
    BY <1>4, FS_EmptySet
  <2> QED
    BY <1>3, <2>1, <2>2
<1>6. Cardinality(Readers \cup Markers) <= Cardinality(Sweepers)
  <2>1. Readers \cup Markers \subseteq Sweepers
    BY <1>1
  <2> QED
    BY <2>1, SweepersAssumption, FS_Subset
<1> QED
  BY <1>2, <1>3, <1>5, <1>6

\* A sweep that stops reading is one fewer.
LEMMA Stops ==
  ASSUME ReturnsTypeOK, NEW s \in Sweepers, NEW l \in ScanPCs \ Reading, l # "marking",
         scan' = [scan EXCEPT ![s] = l]
  PROVE  /\ Readers' = Readers \ {s} /\ Markers' = Markers \ {s}
         /\ Cardinality(Readers') <= Cardinality(Readers)
<1>1. Readers' = Readers \ {s} /\ Markers' = Markers \ {s}
  BY DEF ReturnsTypeOK, Readers, Markers
<1>2. Cardinality(Readers \ {s}) <= Cardinality(Readers)
  BY Counts, FS_Subset
<1> QED
  BY <1>1, <1>2

\* Every action preserves the count.
LEMMA CountStep ==
  ASSUME ReturnsTypeOK, MarkInv, CountInv, ReturnsNext PROVE CountInv'
<1> USE DEF drive, counters, tally, sweeping, Read
<1> DEFINE Same == UNCHANGED <<scan, reports, returned>> /\ lost'.sweep = lost.sweep
<1>a. reports \in Nat /\ lost.sweep \in Nat /\ scan \in [Sweepers -> ScanPCs] /\ returned \in BOOLEAN
  BY DEF ReturnsTypeOK
<1>b. ASSUME Same PROVE CountInv'
  BY <1>b DEF CountInv, Readers, Markers
<1>1. ASSUME ForkChild PROVE Same
  BY <1>1 DEF ForkChild
<1>2. ASSUME NEW a \in Askers, Prompt(a) PROVE Same
  BY <1>2 DEF Prompt
<1>3. ASSUME Begin PROVE Same
  BY <1>3 DEF Begin
<1>4. ASSUME TakeMail PROVE Same
  BY <1>4 DEF TakeMail
<1>5. ASSUME ToolStep PROVE Same
  BY <1>5 DEF ToolStep
<1>6. ASSUME Note PROVE Same
  BY <1>6 DEF Note, Arrives
<1>7. ASSUME Final PROVE Same
  BY <1>7 DEF Final
<1>8. ASSUME Cease PROVE Same
  BY <1>8 DEF Cease
<1>9. ASSUME Park PROVE Same
  BY <1>9 DEF Park
<1>10. ASSUME File PROVE Same
  BY <1>10 DEF File, Arrives, ReturnsTypeOK
<1>11. ASSUME Mark PROVE CountInv'
  <2>1. UNCHANGED <<scan, reports, lost>> /\ returned'
    BY <1>11 DEF Mark
  <2>2. reports + Cardinality(Readers) <= Cardinality(Sweepers) + lost.sweep
    BY <1>a, Counts DEF CountInv
  <2>3. Readers' = Readers
    BY <2>1 DEF Readers
  <2> QED
    BY <2>1, <2>2, <2>3 DEF CountInv
<1>12. ASSUME Fail PROVE Same
  BY <1>12 DEF Fail, ReturnsTypeOK
<1>13. ASSUME Moved \/ Committed \/ Landed \/ Squashed PROVE Same
  BY <1>13, DriveMoves
<1>14. ASSUME NEW s \in Sweepers, ProbeChild(s) PROVE CountInv'
  <2>1. UNCHANGED <<reports, lost, returned>> /\ scan[s] = "idle" /\ scan' = [scan EXCEPT ![s] = "ref"]
    BY <1>14 DEF ProbeChild
  <2>2. Markers' = Markers /\ Readers' = Readers
    BY <2>1, <1>a DEF Markers, Readers, Reading
  <2> QED
    BY <2>1, <2>2 DEF CountInv
<1>15. ASSUME NEW s \in Sweepers, ReadMark(s) PROVE CountInv'
  <2>1. /\ UNCHANGED <<reports, lost, returned>> /\ scan[s] = "ref"
        /\ scan' = [scan EXCEPT ![s] = IF returned THEN "idle" ELSE "inbox"]
    BY <1>15 DEF ReadMark, To
  <2>2. Markers' = Markers
    BY <2>1, <1>a DEF Markers
  <2>3. returned => Readers' = Readers
    BY <2>1, <1>a DEF Readers, Reading
  <2> QED
    BY <2>1, <2>2, <2>3 DEF CountInv
<1>16. ASSUME NEW s \in Sweepers, ReadInbox(s) \/ ReadTranscript(s) PROVE CountInv'
  <2>1. UNCHANGED <<reports, lost, returned>> /\ scan[s] \in Reading
    BY <1>16 DEF ReadInbox, ReadTranscript, Reading
  <2>2. \E l \in {"idle", "tree", "report"} : scan' = [scan EXCEPT ![s] = l]
    BY <1>16 DEF ReadInbox, ReadTranscript, To
  <2>3. Markers' = Markers /\ Readers' \subseteq Readers
    BY <2>1, <2>2, <1>a DEF Markers, Readers, Reading
  <2>4. Cardinality(Readers') <= Cardinality(Readers) /\ Cardinality(Readers') \in Nat
    BY <2>3, Counts, FS_Subset, FS_CardinalityType
  <2> QED
    BY <1>a, <2>1, <2>3, <2>4, Counts DEF CountInv
<1>17. ASSUME NEW s \in Sweepers, DepositDied(s) PROVE CountInv'
  <2>1. /\ UNCHANGED <<lost, returned>> /\ reports' = reports + 1 /\ scan[s] = "report"
        /\ scan' = [scan EXCEPT ![s] = "marking"]
    BY <1>17 DEF DepositDied, Arrives, To
  <2>2. Markers' = Markers \cup {s} /\ s \notin Markers /\ Readers' = Readers \ {s} /\ s \in Readers
    BY <2>1, <1>a DEF Markers, Readers, Reading
  <2>3. Cardinality(Markers') = Cardinality(Markers) + 1
    BY <2>2, Counts, FS_AddElement
  <2>4. Cardinality(Readers') = Cardinality(Readers) - 1
    BY <2>2, Counts, FS_RemoveElement
  <2> QED
    BY <1>a, <2>1, <2>3, <2>4, Counts DEF CountInv
<1>18. ASSUME NEW s \in Sweepers, MarkDied(s) PROVE CountInv'
  <2>1. /\ UNCHANGED <<reports, lost>> /\ returned' /\ scan[s] = "marking"
        /\ scan' = [scan EXCEPT ![s] = "idle"]
    BY <1>18 DEF MarkDied, To
  <2>2. reports + Cardinality(Readers) <= Cardinality(Sweepers) + lost.sweep
    BY <1>a, Counts DEF CountInv
  <2>3. Readers' = Readers
    BY <2>1, <1>a DEF Readers, Reading
  <2> QED
    BY <2>1, <2>2, <2>3 DEF CountInv
<1>19. ASSUME NEW s \in Sweepers, Abort(s) PROVE CountInv'
  <2>1. /\ UNCHANGED <<reports, returned>> /\ scan' = [scan EXCEPT ![s] = "idle"]
        /\ lost'.sweep = IF scan[s] = "marking" THEN lost.sweep + 1 ELSE lost.sweep
    BY <1>19 DEF Abort, To, ReturnsTypeOK
  <2>2. /\ Readers' = Readers \ {s} /\ Markers' = Markers \ {s}
        /\ Cardinality(Readers') <= Cardinality(Readers)
    BY <2>1, Stops DEF ScanPCs, Reading
  <2>3. Cardinality(Markers') = IF scan[s] = "marking" THEN Cardinality(Markers) - 1
                                                       ELSE Cardinality(Markers)
    <3>1. CASE scan[s] = "marking"
      <4>1. s \in Markers
        BY <3>1 DEF Markers
      <4> QED
        BY <3>1, <4>1, <2>2, Counts, FS_RemoveElement
    <3>2. CASE scan[s] # "marking"
      BY <3>2, <2>2 DEF Markers
    <3> QED
      BY <3>1, <3>2
  <2>4. Cardinality(Readers') \in Nat
    BY <2>2, Counts, FS_Subset, FS_CardinalityType
  <2> QED
    BY <1>a, <2>1, <2>2, <2>3, <2>4, Counts DEF CountInv
<1> QED
  BY <1>b, <1>1, <1>2, <1>3, <1>4, <1>5, <1>6, <1>7, <1>8, <1>9, <1>10, <1>11, <1>12, <1>13, <1>14, <1>15, <1>16, <1>17, <1>18, <1>19, Zenon DEF ReturnsNext, Sweep

\* Whatever dies, a child is reported dead at most as often as there are sweeps
\* at a time, and once more for each that died before its mark (sweep).
THEOREM ReportsAreCounted == ReturnsSpec => []ReportsCounted
<1>1. ReturnsInit => CountInv
  <2> SUFFICES ASSUME ReturnsInit PROVE reports <= Cardinality(Markers) + lost.sweep /\ ~returned
    BY DEF CountInv
  <2> QED
    BY Counts DEF ReturnsInit
<1>2. ReturnsTypeOK /\ MarkInv /\ CountInv /\ [ReturnsNext]_returnVars => CountInv'
  <2>1. CASE ReturnsNext
    BY <2>1, CountStep
  <2>2. CASE UNCHANGED returnVars
    BY <2>2 DEF CountInv, Readers, Markers, returnVars
  <2> QED
    BY <2>1, <2>2
<1>3. ReturnsTypeOK /\ CountInv => ReportsCounted
  <2> SUFFICES ASSUME ReturnsTypeOK, CountInv PROVE ReportsCounted
    OBVIOUS
  <2>1. reports \in Nat /\ lost.sweep \in Nat
    BY DEF ReturnsTypeOK
  <2> QED
    BY <2>1, Counts DEF CountInv, ReportsCounted
<1> QED
  BY <1>1, <1>2, <1>3, Marks, PTL DEF ReturnsSpec

USE TreeAssumption, ProcessAssumption

-----------------------------------------------------------------------------
(* StopCascade: the lock, and the sweep of a stop.                         *)

Spots == {"none", "boot", "driving", "image", "visiting", "gone"}
Driven == {"driving", "image"}

\* A lock is held by the driver that drives, in whatever image, and an agent
\* has at most one; every live process is about an agent with an inbox; the
\* dispatcher of an agent with an inbox has one.
HoldInv ==
    /\ at \in [Procs -> Spots] /\ for \in [Procs -> Agents \cup {NONE}]
    /\ lock \in [Agents -> Procs \cup {NONE}]
    /\ inboxes \subseteq Agents
    /\ \A a \in inboxes : Len(a) > 1 => Front(a) \in inboxes
    /\ \A p \in Procs : Alive(p) => for[p] \in inboxes
    /\ \A v \in Visitors : at[v] \notin Driven \cup {"boot"}
    /\ \A p \in Pids : at[p] # "visiting"
    /\ \A p \in Pids : at[p] \in Driven => lock[for[p]] = p
    /\ \A a \in Agents : lock[a] # NONE => for[lock[a]] = a /\ at[lock[a]] \in Driven

\* What the stop goes by are drivers of the subtree that have been started;
\* who has stood from its beginning is still to be looked up, has been found,
\* or is a target, and after a deadline it is still to be killed.
Met(p) == at[p] # "none" /\ Descends(for[p])
SweepInv ==
    /\ stop \in {"idle", "look", "read", "refused", "term", "kill", "done"}
    /\ stop = "look" => todo \subseteq {a \in Agents : Descends(a)}
    /\ stop = "read" => /\ holder \in Procs /\ Met(holder)
                        /\ todo \subseteq {a \in Agents : Descends(a)}
    /\ stop \in {"term", "kill"} => todo \subseteq targets
    /\ targets \subseteq {p \in Pids : Met(p)}
    /\ felled \subseteq {p \in Pids : Met(p)}
    /\ standing \subseteq {p \in Pids : at[p] \in Driven /\ Descends(for[p])}
    /\ stop = "idle" => standing = {}
    /\ stop = "look" => \A p \in standing : for[p] \in todo \/ p \in targets
    /\ stop = "read" /\ holder \in Pids =>
          \A p \in standing : for[p] \in todo \/ p \in targets \/ p = holder
    /\ stop = "term" => standing \subseteq targets
    /\ stop = "kill" => standing \subseteq todo
    /\ stop = "done" => standing = {}

StopInv == HoldInv /\ SweepInv

\* Every action keeps the locks with the drivers.
LEMMA HoldStep == ASSUME HoldInv, CascadeNext PROVE HoldInv'
<1> USE DEF HoldInv, Spots, Driven, Procs, Alive, places, stopping
<1>1. ASSUME NEW p \in Pids, NEW a \in Agents, Launch(p, a) PROVE HoldInv'
  BY <1>1 DEF Launch, Started
<1>2. ASSUME NEW p \in Pids, TakeLease(p) PROVE HoldInv'
  BY <1>2 DEF TakeLease
<1>3. ASSUME NEW p \in Pids, Baton(p) \/ BatonDropsFlag(p) \/ Adopt(p) PROVE HoldInv'
  BY <1>3 DEF Baton, BatonDropsFlag, Adopt
<1>4. ASSUME NEW p \in Pids, StoppedExit(p) PROVE HoldInv'
  BY <1>4 DEF StoppedExit, Ends
<1>5. ASSUME NEW p \in Pids, NEW q \in Pids, Reply(p, q) PROVE HoldInv'
  BY <1>5 DEF Reply
<1>6. ASSUME NEW p \in Pids, NEW c \in Agents, NEW q \in Pids, Dispatch(p, c, q)
      PROVE  HoldInv'
  BY <1>6 DEF Dispatch, Started
<1>7. ASSUME NEW v \in Visitors, NEW a \in Agents, Visit(v, a) PROVE HoldInv'
  BY <1>7 DEF Visit
<1>8. ASSUME NEW v \in Visitors, Leave(v) PROVE HoldInv'
  BY <1>8 DEF Leave
<1>9. CASE StopBegin \/ ReadGroup \/ Refuse \/ Vet \/ Drained \/ Deadline \/ Killed
  BY <1>9 DEF StopBegin, ReadGroup, Refuse, Vet, Drained, Deadline, Killed
<1>10. ASSUME NEW a \in Agents, Look(a) PROVE HoldInv'
  BY <1>10 DEF Look
<1>11. ASSUME NEW g \in Procs \cup {SELF}, Term(g) \/ Kill(g) PROVE HoldInv'
  BY <1>11 DEF Term, Kill, Ends
<1> QED
  BY <1>1, <1>2, <1>3, <1>4, <1>5, <1>6, <1>7, <1>8, <1>9, <1>10, <1>11
     DEF CascadeNext, Stop, Driver

\* What drivers and visitors do to what a stop goes by: a process that has
\* been started keeps its agent, and one that ends stands no more.
WorldStep ==
    /\ UNCHANGED <<stop, todo, holder, targets, felled>>
    /\ \A p \in Procs : at[p] # "none" => at'[p] # "none" /\ for'[p] = for[p]
    /\ standing' \subseteq standing
    /\ \A p \in standing' : at'[p] \in Driven

LEMMA WorldSteps ==
  ASSUME HoldInv, SweepInv,
         \/ \E p \in Pids : Driver(p)
         \/ \E v \in Visitors : Leave(v) \/ \E a \in Agents : Visit(v, a)
  PROVE  WorldStep
<1> USE DEF HoldInv, Spots, Driven, Procs, places, stopping, WorldStep
<1>0. standing \subseteq {p \in Pids : at[p] \in Driven}
  BY DEF SweepInv
<1>1. ASSUME NEW p \in Pids, NEW a \in Agents, Launch(p, a) PROVE WorldStep
  BY <1>0, <1>1 DEF Launch, Started
<1>2. ASSUME NEW p \in Pids, TakeLease(p) PROVE WorldStep
  BY <1>0, <1>2 DEF TakeLease
<1>3. ASSUME NEW p \in Pids, Baton(p) \/ BatonDropsFlag(p) \/ Adopt(p) PROVE WorldStep
  BY <1>0, <1>3 DEF Baton, BatonDropsFlag, Adopt
<1>4. ASSUME NEW p \in Pids, StoppedExit(p) PROVE WorldStep
  BY <1>0, <1>4 DEF StoppedExit, Ends
<1>5. ASSUME NEW p \in Pids, NEW q \in Pids, Reply(p, q) PROVE WorldStep
  BY <1>0, <1>5 DEF Reply
<1>6. ASSUME NEW p \in Pids, NEW c \in Agents, NEW q \in Pids, Dispatch(p, c, q)
      PROVE  WorldStep
  BY <1>0, <1>6 DEF Dispatch, Started
<1>7. ASSUME NEW v \in Visitors, NEW a \in Agents, Visit(v, a) PROVE WorldStep
  BY <1>0, <1>7 DEF Visit
<1>8. ASSUME NEW v \in Visitors, Leave(v) PROVE WorldStep
  BY <1>0, <1>8 DEF Leave
<1> QED
  BY <1>1, <1>2, <1>3, <1>4, <1>5, <1>6, <1>7, <1>8 DEF Driver

\* Two processes that stand for one agent are one.
LEMMA OneDriver ==
  ASSUME HoldInv, NEW p \in Pids, NEW q \in Pids, at[p] \in Driven, at[q] \in Driven,
         for[p] = for[q]
  PROVE  p = q
BY DEF HoldInv

\* Every action keeps what the stop goes by.
LEMMA SweepStep ==
  ASSUME JobControl = {}, HoldInv, SweepInv, CascadeNext PROVE SweepInv'
<1> USE DEF SweepInv, Procs
<1>0. \A p \in Procs : at[p] \in Spots /\ for[p] \in Agents \cup {NONE}
  BY DEF HoldInv
<1>1. CASE \/ \E p \in Pids : Driver(p)
           \/ \E v \in Visitors : Leave(v) \/ \E a \in Agents : Visit(v, a)
  <2>1. WorldStep
    BY <1>1, WorldSteps
  <2>2. \A p \in Procs : Met(p) => Met(p)'
    BY <2>1 DEF WorldStep, Met
  <2>3. \A p \in standing' : p \in standing /\ p \in Pids /\ at'[p] \in Driven /\ for'[p] = for[p]
    BY <2>1 DEF WorldStep, Driven
  <2>4. /\ UNCHANGED <<stop, todo, holder, targets, felled>>
        /\ standing' \subseteq standing
    BY <2>1 DEF WorldStep
  <2> QED
    BY <2>2, <2>3, <2>4
<1>2. CASE StopBegin
  <2>1. /\ stop' = "look" /\ todo' = {a \in inboxes : Descends(a)}
        /\ standing' = {p \in Pids : at[p] \in Driven /\ Descends(for[p])}
        /\ UNCHANGED <<at, for, targets, felled>>
    BY <1>2 DEF StopBegin, InSubtree, Descends, Driven
  <2>2. \A p \in standing' : for[p] \in todo'
    BY <2>1 DEF HoldInv, Alive, Driven
  <2>3. todo' \subseteq {a \in Agents : Descends(a)}
    BY <2>1 DEF HoldInv
  <2> QED
    BY <2>1, <2>2, <2>3 DEF Met
<1>3. ASSUME NEW a \in Agents, Look(a) PROVE SweepInv'
  <2>1. /\ stop = "look" /\ a \in todo /\ todo' = todo \ {a} /\ Descends(a)
        /\ UNCHANGED <<at, for, targets, standing, felled>>
    BY <1>3 DEF Look
  <2>2. CASE stop' = "look" /\ \A p \in Procs : ~Holds(p, a)
    <3>1. \A p \in standing : for[p] # a
      BY <2>2 DEF Holds, Driven
    <3> QED
      BY <2>1, <2>2, <3>1 DEF Met
  <2>3. ASSUME NEW p \in Procs, Holds(p, a), stop' = "read", holder' = p PROVE SweepInv'
    <3>1. Met(p)
      BY <2>1, <2>3 DEF Met, Holds
    <3>2. ASSUME p \in Pids, NEW q \in standing, for[q] = a PROVE q = p
      <4>1. at[p] \in Driven
        BY <2>3, <3>2 DEF Holds, Driven, HoldInv
      <4> QED
        BY <2>3, <3>2, <4>1, OneDriver DEF Holds
    <3> QED
      BY <2>1, <2>3, <3>1, <3>2 DEF Met
  <2> QED
    BY <1>3, <2>2, <2>3 DEF Look
<1>4. CASE ReadGroup
  <2>1. /\ stop = "read" /\ holder \in Pids /\ targets' = targets \cup {holder} /\ stop' = "look"
        /\ UNCHANGED <<todo, at, for, standing, felled>>
    BY <1>4 DEF ReadGroup, Leads
  <2> QED
    BY <2>1 DEF Met
<1>5. CASE Refuse
  BY <1>5 DEF Refuse, Met
<1>6. CASE Vet
  <2>1. /\ stop = "look" /\ todo = {} /\ todo' = targets
        /\ stop' \in {"done", "refused", "term"} /\ (stop' = "done" => targets = {})
        /\ UNCHANGED <<at, for, targets, standing, felled>>
    BY <1>6 DEF Vet
  <2> QED
    BY <2>1 DEF Met
<1>7. ASSUME NEW g \in Procs \cup {SELF}, Term(g) PROVE SweepInv'
  <2>1. /\ stop = "term" /\ stop' = "term" /\ g \in targets /\ g \in Pids /\ Met(g)
        /\ UNCHANGED <<for, targets>> /\ todo' = todo \ {g}
        /\ felled' \subseteq felled \cup {g}
        /\ \/ standing' = standing /\ at' = at
           \/ standing' = standing \ {g} /\ at' = [at EXCEPT ![g] = "gone"]
    <3>1. stop = "term" /\ stop' = "term" /\ g \in targets /\ g \in Pids /\ Met(g)
      BY <1>7 DEF Term
    <3> QED
      BY <1>7, <3>1 DEF Term, Ends
  <2>2. \A p \in Procs : Met(p) => Met(p)'
    BY <1>0, <2>1 DEF Met, HoldInv
  <2>3. \A p \in standing' : p \in standing /\ at'[p] = at[p]
    BY <2>1 DEF HoldInv
  <2> QED
    BY <2>1, <2>2, <2>3
<1>8. CASE Drained
  <2>1. /\ stop = "term" /\ stop' = "done" /\ \A g \in targets : ~Alive(g)
        /\ UNCHANGED <<at, for, targets, standing, felled>>
    BY <1>8 DEF Drained
  <2>2. standing = {}
    BY <2>1 DEF Alive, Driven
  <2> QED
    BY <2>1, <2>2 DEF Met
<1>9. CASE Deadline
  BY <1>9 DEF Deadline, Met
<1>10. ASSUME NEW g \in Procs \cup {SELF}, Kill(g) PROVE SweepInv'
  <2>1. /\ stop = "kill" /\ stop' = "kill" /\ g \in targets /\ g \in Pids
        /\ UNCHANGED <<for, targets, felled>> /\ todo' = todo \ {g}
        /\ \/ standing' = standing /\ at' = at /\ ~Alive(g)
           \/ standing' = standing \ {g} /\ at' = [at EXCEPT ![g] = "gone"]
    <3>1. stop = "kill" /\ stop' = "kill" /\ g \in targets /\ g \in Pids
      BY <1>10 DEF Kill
    <3> QED
      BY <1>10, <3>1 DEF Kill, Ends
  <2>2. \A p \in Procs : Met(p) => Met(p)'
    BY <1>0, <2>1 DEF Met, HoldInv
  <2>3. \A p \in standing' : p \in standing /\ at'[p] = at[p] /\ p # g
    BY <2>1 DEF HoldInv, Alive, Driven
  <2> QED
    BY <2>1, <2>2, <2>3
<1>11. CASE Killed
  BY <1>11 DEF Killed, Met
<1> QED
  BY <1>1, <1>2, <1>3, <1>4, <1>5, <1>6, <1>7, <1>8, <1>9, <1>10, <1>11
     DEF CascadeNext, Stop

\* Before anything has run there are roots, and no process.
LEMMA StopInit == CascadeInit => StopInv
<1> SUFFICES ASSUME CascadeInit PROVE StopInv
  OBVIOUS
<1>1. HoldInv
  <2>1. ASSUME NEW a \in inboxes PROVE ~(Len(a) > 1)
    <3>1. a \in forked /\ Len(a) = 1
      BY DEF CascadeInit
    <3> QED
      BY <3>1
  <2>2. inboxes \subseteq Agents
    BY DEF CascadeInit
  <2>3. \A p \in Procs : at[p] = "none" /\ for[p] = NONE
    BY DEF CascadeInit
  <2>4. \A a \in Agents : lock[a] = NONE
    BY DEF CascadeInit
  <2>5. /\ at \in [Procs -> Spots] /\ for \in [Procs -> Agents \cup {NONE}]
        /\ lock \in [Agents -> Procs \cup {NONE}]
    BY DEF CascadeInit, Spots
  <2> QED
    BY <2>1, <2>2, <2>3, <2>4, <2>5 DEF HoldInv, Driven, Alive, Procs
<1>2. SweepInv
  BY DEF CascadeInit, SweepInv
<1> QED
  BY <1>1, <1>2 DEF StopInv

\* Signals reach drivers of the subtree alone, and a stop that reports
\* success has felled all that drove one from its beginning to its end,
\* whatever is launched, dispatched, handed on or answered meanwhile.
THEOREM StopFellsTheSubtree ==
  ASSUME JobControl = {} PROVE CascadeSpec => []FellsTheSubtree
<1>1. StopInv /\ [CascadeNext]_cascadeVars => StopInv'
  <2>1. ASSUME StopInv, CascadeNext PROVE StopInv'
    BY <2>1, HoldStep, SweepStep DEF StopInv
  <2>2. ASSUME StopInv, UNCHANGED cascadeVars PROVE StopInv'
    <3>1. HoldInv'
      BY <2>2 DEF StopInv, HoldInv, Alive, cascadeVars
    <3>2. SweepInv'
      BY <2>2 DEF StopInv, SweepInv, Met, cascadeVars
    <3> QED
      BY <3>1, <3>2 DEF StopInv
  <2> QED
    BY <2>1, <2>2
<1>2. StopInv => FellsTheSubtree
  BY DEF StopInv, HoldInv, SweepInv, FellsTheSubtree, Driven, Met
<1> QED
  BY StopInit, <1>1, <1>2, PTL DEF CascadeSpec

-----------------------------------------------------------------------------
(* ToolCall: the processes below a call.                                   *)

USE ToolsAssumption, BudgetAssumption, NilAssumption

Family == {"leader", "descendant"}

\* Where the executor is tells whether its process has been spawned and
\* reaped.  Only a built-in has children and only a bash signals its own.
ShapeInv ==
    /\ phase \in {"control", "tool"}
    /\ epc \in {"prepare", "spawn", "wait", "term", "join", "done"}
    /\ kind \in Tools \cup {NIL, "external"}
    /\ tool \in {"none", "boot", "read", "feed", "run", "term", "join", "zombie"}
    /\ status \in {NIL, "relayed", "failed", "signal"}
    /\ below \in [Family -> {"none", "up", "gone"}]
    /\ phase = "control" => kind \in {NIL, "external"}
    /\ epc = "prepare" => phase = "tool"
    /\ epc \in {"prepare", "spawn"} => tool = "none"
    /\ tool = "none" => status = NIL /\ ~Up("leader") /\ ~Up("descendant")
    /\ epc = "join" => tool = "zombie"
    /\ tool \in {"read", "feed", "run", "term", "join"} => BuiltIn
    /\ tool = "term" => kind = "bash"
    /\ Up("leader") => BuiltIn

\* A control that has not passed has ended the call before anything of it was
\* recorded; a tool is prepared for after a pass alone.
GateInv ==
    /\ answer \notin {NIL, "pass"} => phase = "control" /\ epc = "done"
    /\ phase = "control" => record = {} /\ outcome # "ok"
    /\ outcome = "ok" => epc = "done"
    /\ phase = "tool" /\ epc \in {"spawn", "wait", "term", "join"} => record = {"input"}

\* A status that is relayed is that of a process that has ended and whose
\* children write no more; an outcome is that of one that nobody can add to.
WholeInv ==
    /\ status = "relayed" => tool = "zombie" /\ ToolPipe = {}
    /\ outcome = "ok" => tool = "zombie" /\ ExecutorPipe = {} /\ record = {"input", "output"}

\* Who of the group is up after the SIGTERM held out, or was forked by one
\* that did; after the SIGKILL nobody is.
GroupInv ==
    /\ signals # {} => kind = "bash" /\ tool \in {"term", "join", "zombie"}
    /\ signals # {} => \A p \in InGroup : Up(p) =>
                           "kill" \notin signals /\ ~({p, "leader"} \subseteq traits.obeys)

CallInv == ShapeInv /\ GateInv /\ WholeInv /\ GroupInv

\* Every action keeps the shape of the tree.
LEMMA ShapeStep == ASSUME ShapeInv, CallNext PROVE ShapeInv'
<1> USE DEF ShapeInv, Family, Up, ToolUp, BuiltIn, call, tree
<1>1. CASE Prepare
  BY <1>1 DEF Prepare
<1>2. CASE PrepareFails
  BY <1>2 DEF PrepareFails, Return
<1>3. CASE Spawn
  BY <1>3 DEF Spawn
<1>4. CASE SpawnBusy
  BY <1>4 DEF SpawnBusy
<1>5. CASE SpawnFails
  BY <1>5 DEF SpawnFails, Return
<1>6. CASE Reap
  BY <1>6 DEF Reap
<1>7. CASE TermTool
  BY <1>7 DEF TermTool, Sigtermed
<1>8. CASE KillTool
  BY <1>8 DEF KillTool, InnerGrace
<1>9. CASE Land
  BY <1>9 DEF Land, Return, Joined
<1>10. CASE Felled
  BY <1>10 DEF Felled, Return, Joined
<1>11. CASE Adjudicate
  BY <1>11 DEF Adjudicate, Return, Joined
<1>12. CASE Install
  BY <1>12 DEF Install
<1>13. CASE Declines
  BY <1>13 DEF Declines, Exits
<1>14. CASE Start
  BY <1>14 DEF Start
<1>15. CASE Fed
  BY <1>15 DEF Fed
<1>16. CASE FeedBreaks
  BY <1>16 DEF FeedBreaks, Exits
<1>17. CASE TermGroup
  BY <1>17 DEF TermGroup, Lose
<1>18. CASE KillGroup
  BY <1>18 DEF KillGroup, Lose
<1>19. CASE ReapLeader
  BY <1>19 DEF ReapLeader
<1>20. CASE Relay
  BY <1>20 DEF Relay, Exits
<1>21. CASE ExternalExits
  BY <1>21 DEF ExternalExits, Exits
<1>22. CASE Forks
  BY <1>22 DEF Forks
<1>23. CASE Sigterm
  BY <1>23 DEF Sigterm, Sigtermed, Lose, DriverGroup
<1>24. CASE StopKills
  BY <1>24 DEF StopKills, Return, Lose, DriverGroup, Exits, InnerGrace
<1>25. ASSUME NEW p \in Family, EndsBelow(p) PROVE ShapeInv'
  BY <1>25 DEF EndsBelow, Lose
<1> QED
  BY <1>1, <1>2, <1>3, <1>4, <1>5, <1>6, <1>7, <1>8, <1>9, <1>10, <1>11, <1>12, <1>13,
     <1>14, <1>15, <1>16, <1>17, <1>18, <1>19, <1>20, <1>21, <1>22, <1>23, <1>24,
     <1>25
     DEF CallNext, Executor, BuiltInTool, World, Family

\* Every action keeps the gate.
LEMMA GateStep == ASSUME ShapeInv, GateInv, CallNext PROVE GateInv'
<1> USE DEF ShapeInv, GateInv, Up, ToolUp, BuiltIn, call, tree
<1>1. CASE Prepare
  BY <1>1 DEF Prepare
<1>2. CASE PrepareFails
  BY <1>2 DEF PrepareFails, Return
<1>3. CASE Spawn
  BY <1>3 DEF Spawn
<1>4. CASE SpawnBusy
  BY <1>4 DEF SpawnBusy
<1>5. CASE SpawnFails
  BY <1>5 DEF SpawnFails, Return
<1>6. CASE Reap
  BY <1>6 DEF Reap
<1>7. CASE TermTool
  BY <1>7 DEF TermTool, Sigtermed
<1>8. CASE KillTool
  BY <1>8 DEF KillTool, InnerGrace
<1>9. CASE Land
  BY <1>9 DEF Land, Return, Joined
<1>10. CASE Felled
  BY <1>10 DEF Felled, Return, Joined
<1>11. CASE Adjudicate
  BY <1>11 DEF Adjudicate, Return, Joined
<1>12. CASE Install
  BY <1>12 DEF Install
<1>13. CASE Declines
  BY <1>13 DEF Declines, Exits
<1>14. CASE Start
  BY <1>14 DEF Start
<1>15. CASE Fed
  BY <1>15 DEF Fed
<1>16. CASE FeedBreaks
  BY <1>16 DEF FeedBreaks, Exits
<1>17. CASE TermGroup
  BY <1>17 DEF TermGroup, Lose
<1>18. CASE KillGroup
  BY <1>18 DEF KillGroup, Lose
<1>19. CASE ReapLeader
  BY <1>19 DEF ReapLeader
<1>20. CASE Relay
  BY <1>20 DEF Relay, Exits
<1>21. CASE ExternalExits
  BY <1>21 DEF ExternalExits, Exits
<1>22. CASE Forks
  BY <1>22 DEF Forks
<1>23. CASE Sigterm
  BY <1>23 DEF Sigterm, Sigtermed, Lose, DriverGroup
<1>24. CASE StopKills
  BY <1>24 DEF StopKills, Return, Lose, DriverGroup, Exits, InnerGrace
<1>25. ASSUME NEW p \in Family, EndsBelow(p) PROVE GateInv'
  BY <1>25 DEF EndsBelow, Lose
<1> QED
  BY <1>1, <1>2, <1>3, <1>4, <1>5, <1>6, <1>7, <1>8, <1>9, <1>10, <1>11, <1>12, <1>13,
     <1>14, <1>15, <1>16, <1>17, <1>18, <1>19, <1>20, <1>21, <1>22, <1>23, <1>24,
     <1>25
     DEF CallNext, Executor, BuiltInTool, World, Family

\* Every action keeps what is relayed and recorded whole.
LEMMA WholeStep == ASSUME ShapeInv, GateInv, WholeInv, CallNext PROVE WholeInv'
<1> USE DEF ShapeInv, GateInv, WholeInv, Family, Up, ToolUp, BuiltIn, ExecutorPipe,
     ToolPipe, call, tree
<1>1. CASE Prepare
  BY <1>1 DEF Prepare
<1>2. CASE PrepareFails
  BY <1>2 DEF PrepareFails, Return
<1>3. CASE Spawn
  BY <1>3 DEF Spawn
<1>4. CASE SpawnBusy
  BY <1>4 DEF SpawnBusy
<1>5. CASE SpawnFails
  BY <1>5 DEF SpawnFails, Return
<1>6. CASE Reap
  BY <1>6 DEF Reap
<1>7. CASE TermTool
  BY <1>7 DEF TermTool, Sigtermed
<1>8. CASE KillTool
  BY <1>8 DEF KillTool, InnerGrace
<1>9. CASE Land
  BY <1>9 DEF Land, Return, Joined
<1>10. CASE Felled
  BY <1>10 DEF Felled, Return, Joined
<1>11. CASE Adjudicate
  BY <1>11 DEF Adjudicate, Return, Joined
<1>12. CASE Install
  BY <1>12 DEF Install
<1>13. CASE Declines
  BY <1>13 DEF Declines, Exits
<1>14. CASE Start
  BY <1>14 DEF Start
<1>15. CASE Fed
  BY <1>15 DEF Fed
<1>16. CASE FeedBreaks
  BY <1>16 DEF FeedBreaks, Exits
<1>17. CASE TermGroup
  BY <1>17 DEF TermGroup, Lose
<1>18. CASE KillGroup
  BY <1>18 DEF KillGroup, Lose
<1>19. CASE ReapLeader
  BY <1>19 DEF ReapLeader
<1>20. CASE Relay
  BY <1>20 DEF Relay, Exits
<1>21. CASE ExternalExits
  BY <1>21 DEF ExternalExits, Exits
<1>22. CASE Forks
  BY <1>22 DEF Forks
<1>23. CASE Sigterm
  BY <1>23 DEF Sigterm, Sigtermed, Lose, DriverGroup
<1>24. CASE StopKills
  BY <1>24 DEF StopKills, Return, Lose, DriverGroup, Exits, InnerGrace
<1>25. ASSUME NEW p \in Family, EndsBelow(p) PROVE WholeInv'
  BY <1>25 DEF EndsBelow, Lose
<1> QED
  BY <1>1, <1>2, <1>3, <1>4, <1>5, <1>6, <1>7, <1>8, <1>9, <1>10, <1>11, <1>12, <1>13,
     <1>14, <1>15, <1>16, <1>17, <1>18, <1>19, <1>20, <1>21, <1>22, <1>23, <1>24,
     <1>25
     DEF CallNext, Executor, BuiltInTool, World, Family

\* Every action keeps the group of a cancelled child down.
LEMMA GroupStep == ASSUME ShapeInv, GroupInv, CallNext PROVE GroupInv'
<1> USE DEF ShapeInv, GroupInv, Family, Up, ToolUp, BuiltIn, InGroup, call, tree
<1>1. CASE Prepare
  BY <1>1 DEF Prepare
<1>2. CASE PrepareFails
  BY <1>2 DEF PrepareFails, Return
<1>3. CASE Spawn
  BY <1>3 DEF Spawn
<1>4. CASE SpawnBusy
  BY <1>4 DEF SpawnBusy
<1>5. CASE SpawnFails
  BY <1>5 DEF SpawnFails, Return
<1>6. CASE Reap
  BY <1>6 DEF Reap
<1>7. CASE TermTool
  BY <1>7 DEF TermTool, Sigtermed
<1>8. CASE KillTool
  BY <1>8 DEF KillTool, InnerGrace
<1>9. CASE Land
  BY <1>9 DEF Land, Return, Joined
<1>10. CASE Felled
  BY <1>10 DEF Felled, Return, Joined
<1>11. CASE Adjudicate
  BY <1>11 DEF Adjudicate, Return, Joined
<1>12. CASE Install
  BY <1>12 DEF Install
<1>13. CASE Declines
  BY <1>13 DEF Declines, Exits
<1>14. CASE Start
  BY <1>14 DEF Start
<1>15. CASE Fed
  BY <1>15 DEF Fed
<1>16. CASE FeedBreaks
  BY <1>16 DEF FeedBreaks, Exits
<1>17. CASE TermGroup
  BY <1>17 DEF TermGroup, Lose
<1>18. CASE KillGroup
  BY <1>18 DEF KillGroup, Lose
<1>19. CASE ReapLeader
  BY <1>19 DEF ReapLeader
<1>20. CASE Relay
  BY <1>20 DEF Relay, Exits
<1>21. CASE ExternalExits
  BY <1>21 DEF ExternalExits, Exits
<1>22. CASE Forks
  BY <1>22 DEF Forks
<1>23. CASE Sigterm
  BY <1>23 DEF Sigterm, Sigtermed, Lose, DriverGroup
<1>24. CASE StopKills
  BY <1>24 DEF StopKills, Return, Lose, DriverGroup, Exits, InnerGrace
<1>25. ASSUME NEW p \in Family, EndsBelow(p) PROVE GroupInv'
  BY <1>25 DEF EndsBelow, Lose
<1> QED
  BY <1>1, <1>2, <1>3, <1>4, <1>5, <1>6, <1>7, <1>8, <1>9, <1>10, <1>11, <1>12, <1>13,
     <1>14, <1>15, <1>16, <1>17, <1>18, <1>19, <1>20, <1>21, <1>22, <1>23, <1>24,
     <1>25
     DEF CallNext, Executor, BuiltInTool, World, Family

\* Before the call nothing has been spawned and nothing recorded.
LEMMA CallStart == CallInit => CallInv
<1> SUFFICES ASSUME CallInit PROVE CallInv
  OBVIOUS
<1>1. ShapeInv
  BY DEF CallInit, Fresh, ShapeInv, Family, Up
<1>2. GateInv
  BY DEF CallInit, GateInv
<1>3. WholeInv
  BY DEF CallInit, Fresh, WholeInv
<1>4. GroupInv
  BY DEF CallInit, Fresh, GroupInv
<1> QED
  BY <1>1, <1>2, <1>3, <1>4 DEF CallInv

\* Every step keeps the four of them.
LEMMA CallStep == ASSUME CallInv, [CallNext]_callVars PROVE CallInv'
<1>1. CASE CallNext
  BY <1>1, ShapeStep, GateStep, WholeStep, GroupStep DEF CallInv
<1>2. CASE UNCHANGED callVars
  <2> USE <1>2 DEF CallInv, callVars
  <2>1. ShapeInv' /\ GateInv'
    BY DEF ShapeInv, GateInv, Up, BuiltIn
  <2>2. WholeInv' /\ GroupInv'
    BY DEF WholeInv, GroupInv, ExecutorPipe, ToolPipe, Up, ToolUp, BuiltIn, InGroup
  <2> QED
    BY <2>1, <2>2
<1> QED
  BY <1>1, <1>2

\* Nothing is executed past a control that did not pass, and an outcome that
\* carries a tool's own code carries all that it and its children printed.
THEOREM NothingPastTheGate == CallSpec => []GatedAndWhole
<1>1. CallInv => GatedAndWhole
  BY DEF CallInv, ShapeInv, GateInv, WholeInv, GatedAndWhole
<1> QED
  BY CallStart, CallStep, <1>1, PTL DEF CallSpec

\* Who outlives the cancellation of a built-in's child left its group, or
\* somebody held out against the SIGTERM; nobody outlives the SIGKILL.
THEOREM CancelledGroupFalls == CallSpec => []FelledTree
<1>1. CallInv => FelledTree
  BY DEF CallInv, GroupInv, FelledTree
<1> QED
  BY CallStart, CallStep, <1>1, PTL DEF CallSpec
=============================================================================
