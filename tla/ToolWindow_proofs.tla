------------------------- MODULE ToolWindow_proofs -------------------------
(***************************************************************************)
(* Proofs about ToolWindow, for any bounds: the transcript is paired by    *)
(* position and no invocation runs twice, whatever is held, resumed,       *)
(* stopped or killed.  After them, about Procedures, for any configs,      *)
(* bindings and bounds: what the circumstances of a hop fork is never      *)
(* about itself, keeps its subject and can be dispatched.                  *)
(***************************************************************************)
EXTENDS ToolWindow, Procedures, FiniteSetTheorems, SequenceTheorems, TLAPS

USE BoundsAssumption, MarkAssumption

-----------------------------------------------------------------------------
(* The inductive invariant.                                                *)

\* There is a last assistant entry when there is one; a result follows the
\* entry that asked for it.
EntryInv ==
    /\ At("assistant") # {} => \E k \in At("assistant") : \A j \in At("assistant") : j <= k
    /\ \A j \in At("result") : \E k \in At("assistant") : k < j /\ transcript[j].id \in Emitted(k)
    /\ Steps <= MaxSteps

\* The blocks of the last entry are answered from the first on.
AnsweredBelow(m) == \A i \in 1..Blocks : <<Steps, i>> \in Answered <=> i < m
PrefixInv == Steps > 0 => \E m \in 1..(Blocks + 1) : AnsweredBelow(m)

PairInv == EntryInv /\ PrefixInv /\ AnsweredInPlace /\ AnsweredOnce

\* Where the driver composes a request nothing is open.
SettledInv ==
    /\ pc \in {"deliver", "warrant", "seams"} => Unanswered = {}
    /\ drives = 0 => pc = "off" /\ transcript = <<>>
    /\ pc \in {"window", "enter", "exec", "record", "interrupt"} => Steps > 0

\* Where the window is: what is behind is answered, what is ahead and not to
\* be skipped is neither answered nor has it run.
WindowInv ==
    /\ pc \in {"window", "enter", "exec", "record"} =>
          /\ skip \subseteq Answered
          /\ \A i \in 1..Blocks : i < at => <<Steps, i>> \in Answered
          /\ \A i \in 1..Blocks : at <= i /\ <<Steps, i>> \notin skip =>
                /\ <<Steps, i>> \notin Answered
                /\ at < i => ran[<<Steps, i>>] = 0
    /\ pc = "window" => at <= Blocks + 1
    /\ pc = "window" /\ at <= Blocks /\ Here \notin skip => ran[Here] = 0
    /\ pc \in {"enter", "exec", "record"} => at <= Blocks /\ Here \notin skip
    /\ pc = "enter" => ran[Here] = 0
    /\ pc = "record" /\ outcome \in {"declined", "refused"} => ran[Here] = 0

\* A mark is of a step that was taken; a live one has everything before it
\* answered, and is not there where a crash is settled or a call is entered.
MarkInv ==
    /\ mark # NoMark => mark[1] \in 1..Steps
    /\ MarkLive => \A i \in 1..Blocks : i < mark[2] => <<Steps, i>> \in Answered
    /\ pc \in {"settle", "enter", "exec"} => ~MarkLive

\* Only what was asked for has run.
RanInv ==
    \A id \in Ids : ran[id] > 0 => id[1] \in 1..Steps /\ (id[1] = Steps => id \in Open)

CallsInv == PairInv /\ SettledInv /\ WindowInv /\ MarkInv /\ RanInv /\ RanOnce

-----------------------------------------------------------------------------
(* The operators on the transcript.                                        *)

LEMMA EntryKinds ==
  ASSUME NEW e \in Entries
  PROVE  /\ e.kind \in {"assistant", "result", "user"}
         /\ e.kind = "assistant" => e.blocks \in 0..MaxBlocks
         /\ e.kind = "result" => e.id \in Ids /\ e.how \in Hows
  BY DEF Entries, Assistant, Result, User

\* The entries of a kind are finitely many places of the transcript.
LEMMA Places ==
  ASSUME WindowTypeOK
  PROVE  /\ Len(transcript) \in Nat /\ DOMAIN transcript = 1..Len(transcript)
         /\ \A k \in DOMAIN transcript : transcript[k] \in Entries
         /\ \A kind : At(kind) \subseteq 1..Len(transcript) /\ IsFiniteSet(At(kind))
<1>1. transcript \in Seq(Entries)
  BY DEF WindowTypeOK
<1>2. Len(transcript) \in Nat /\ DOMAIN transcript = 1..Len(transcript)
  BY <1>1, LenProperties
<1>3. IsFiniteSet(1..Len(transcript))
  <2>1. 1 \in Int /\ Len(transcript) \in Int
    BY <1>2
  <2> QED
    BY <2>1, FS_Interval
<1>4. \A kind : At(kind) \subseteq 1..Len(transcript)
  BY <1>2 DEF At
<1>5. \A kind : IsFiniteSet(At(kind))
  BY <1>3, <1>4, FS_Subset
<1> QED
  BY <1>1, <1>2, <1>4, <1>5

\* Steps are numbered in the order of their entries.
LEMMA Numbered ==
  ASSUME WindowTypeOK
  PROVE  /\ Steps \in Nat /\ (Steps = 0 <=> At("assistant") = {})
         /\ \A k \in At("assistant") : StepAt(k) \in 1..Steps
         /\ \A j, k \in At("assistant") : j < k => StepAt(j) < StepAt(k)
<1> DEFINE upTo(k) == {j \in At("assistant") : j <= k}
<1>1. IsFiniteSet(At("assistant")) /\ At("assistant") \subseteq Nat
  BY Places
<1>2. Steps \in Nat /\ (Steps = 0 <=> At("assistant") = {})
  BY <1>1, FS_CardinalityType, FS_EmptySet DEF Steps
<1>3. ASSUME NEW k \in At("assistant")
      PROVE  /\ IsFiniteSet(upTo(k)) /\ Cardinality(upTo(k)) \in Nat
             /\ StepAt(k) = Cardinality(upTo(k)) /\ StepAt(k) \in 1..Steps
  <2>1. IsFiniteSet(upTo(k)) /\ Cardinality(upTo(k)) <= Steps
    BY <1>1, FS_Subset DEF Steps
  <2>2. k \in upTo(k)
    BY <1>1
  <2>3. Cardinality(upTo(k)) \in Nat /\ Cardinality(upTo(k)) # 0
    BY <2>1, <2>2, FS_CardinalityType, FS_EmptySet
  <2> QED
    BY <1>2, <2>1, <2>3 DEF StepAt
<1>4. ASSUME NEW j \in At("assistant"), NEW k \in At("assistant"), j < k
      PROVE  StepAt(j) < StepAt(k)
  <2>1. upTo(j) \subseteq upTo(k) /\ k \in upTo(k) /\ k \notin upTo(j)
    BY <1>1, <1>4
  <2>2. Cardinality(upTo(j)) <= Cardinality(upTo(k)) /\ Cardinality(upTo(j)) # Cardinality(upTo(k))
    BY <1>3, <2>1, FS_Subset
  <2> QED
    BY <1>3, <2>2
<1> QED
  BY <1>2, <1>3, <1>4

\* How many pairs of one step and a place there are.
LEMMA RowSize ==
  ASSUME NEW s, NEW n \in Nat
  PROVE  Cardinality({<<s, i>> : i \in 1..n}) = n
<1> DEFINE row == {<<s, i>> : i \in 1..n}
           f == [i \in 1..n |-> <<s, i>>]
<1>1. f \in [1..n -> row] /\ \A i, j \in 1..n : f[i] = f[j] => i = j
  OBVIOUS
<1>2. \A x \in row : \E i \in 1..n : f[i] = x
  OBVIOUS
<1>3. ExistsBijection(1..n, row)
  BY <1>1, <1>2 DEF ExistsBijection, Bijection, Injection, Surjection, IsInjective
<1> QED
  BY <1>3, FS_CountingElements

\* What an entry asks for bears the entry's step; two entries share nothing.
LEMMA EmittedFacts ==
  ASSUME WindowTypeOK
  PROVE  /\ \A k \in At("assistant") : \A id \in Emitted(k) :
                id[1] = StepAt(k) /\ id = <<id[1], id[2]>> /\ id[2] \in 1..MaxBlocks
         /\ \A j, k \in At("assistant") : Emitted(j) \cap Emitted(k) # {} => j = k
<1>1. ASSUME NEW k \in At("assistant"), NEW id \in Emitted(k)
      PROVE  id[1] = StepAt(k) /\ id = <<id[1], id[2]>> /\ id[2] \in 1..MaxBlocks
  <2>1. transcript[k].blocks \in 0..MaxBlocks
    BY Places, EntryKinds DEF At
  <2>2. PICK i \in 1..transcript[k].blocks : id = <<StepAt(k), i>>
    BY DEF Emitted
  <2> QED
    BY <2>1, <2>2
<1>2. ASSUME NEW j \in At("assistant"), NEW k \in At("assistant"), NEW id \in Emitted(j), id \in Emitted(k)
      PROVE  j = k
  <2>1. StepAt(j) = StepAt(k)
    BY <1>1, <1>2
  <2>2. j \in Nat /\ k \in Nat /\ StepAt(j) \in Nat
    BY Places, Numbered
  <2> QED
    BY <2>1, <2>2, Numbered
<1> QED
  BY <1>1, <1>2

\* The last assistant entry is the last step, and its blocks are a row.
LEMMA LastFacts ==
  ASSUME WindowTypeOK, EntryInv, Steps > 0
  PROVE  /\ LastStep \in At("assistant") /\ \A j \in At("assistant") : j <= LastStep
         /\ StepAt(LastStep) = Steps /\ Open = Emitted(LastStep)
         /\ Blocks \in 0..MaxBlocks /\ Blocks = transcript[LastStep].blocks
         /\ Open = {<<Steps, i>> : i \in 1..Blocks}
<1>1. At("assistant") # {}
  BY Numbered
<1>2. LastStep \in At("assistant") /\ \A j \in At("assistant") : j <= LastStep
  BY <1>1 DEF LastStep, EntryInv
<1>3. {j \in At("assistant") : j <= LastStep} = At("assistant")
  BY <1>2
<1>4. StepAt(LastStep) = Steps
  BY <1>3 DEF StepAt, Steps
<1>5. Open = Emitted(LastStep)
  BY DEF Open
<1>6. transcript[LastStep].blocks \in 0..MaxBlocks
  BY <1>2, Places, EntryKinds DEF At
<1>7. Open = {<<Steps, i>> : i \in 1..transcript[LastStep].blocks}
  BY <1>4, <1>5 DEF Emitted
<1>8. Blocks = transcript[LastStep].blocks
  <2> DEFINE b == transcript[LastStep].blocks
             row == {<<Steps, i>> : i \in 1..b}
  <2>1. b \in Nat
    BY <1>6
  <2>2. Cardinality(row) = b
    BY <2>1, RowSize
  <2>3. Open = row
    BY <1>7
  <2> HIDE DEF row
  <2> QED
    BY <2>2, <2>3 DEF Blocks
<1> QED
  BY <1>2, <1>4, <1>5, <1>6, <1>7, <1>8

-----------------------------------------------------------------------------
(* What an entry more changes.                                             *)

LEMMA Wrote ==
  ASSUME WindowTypeOK, NEW e \in Entries, transcript' = Append(transcript, e)
  PROVE  /\ transcript' \in Seq(Entries) /\ Len(transcript') = Len(transcript) + 1
         /\ \A k \in 1..Len(transcript) : transcript'[k] = transcript[k]
         /\ transcript'[Len(transcript) + 1] = e
         /\ \A kind : e.kind = kind => At(kind)' = At(kind) \cup {Len(transcript) + 1}
         /\ \A kind : e.kind # kind => At(kind)' = At(kind)
         /\ \A k \in At("assistant") : StepAt(k)' = StepAt(k) /\ Emitted(k)' = Emitted(k)
         /\ \A a, b \in 1..Len(transcript) : AnsweredIn(a, b)' = AnsweredIn(a, b)
         /\ Answered' = Answered \cup (IF e.kind = "result" THEN {e.id} ELSE {})
<1> DEFINE n == Len(transcript)
<1>1. /\ transcript' \in Seq(Entries) /\ Len(transcript') = n + 1
      /\ \A k \in 1..n : transcript'[k] = transcript[k]
      /\ transcript'[n + 1] = e
      /\ n \in Nat /\ DOMAIN transcript = 1..n /\ DOMAIN transcript' = 1..(n + 1)
  BY Places DEF WindowTypeOK
<1>2. ASSUME NEW kind PROVE At(kind)' = At(kind) \cup (IF e.kind = kind THEN {n + 1} ELSE {})
  BY <1>1 DEF At
<1>3. ASSUME NEW k \in At("assistant") PROVE StepAt(k)' = StepAt(k) /\ Emitted(k)' = Emitted(k)
  <2>1. k \in 1..n
    BY Places
  <2>2. {j \in At("assistant")' : j <= k} = {j \in At("assistant") : j <= k}
    BY <1>1, <1>2, <2>1, Places
  <2>3. StepAt(k)' = StepAt(k)
    BY <2>2 DEF StepAt
  <2>4. transcript'[k] = transcript[k]
    BY <1>1, <2>1
  <2> QED
    BY <2>3, <2>4 DEF Emitted
<1>4. ASSUME NEW a \in 1..n, NEW b \in 1..n PROVE AnsweredIn(a, b)' = AnsweredIn(a, b)
  <2>1. {j \in At("result")' : a <= j /\ j <= b} = {j \in At("result") : a <= j /\ j <= b}
    BY <1>1, <1>2, Places
  <2>2. \A k \in {j \in At("result") : a <= j /\ j <= b} : transcript'[k].id = transcript[k].id
    BY <1>1, Places
  <2> QED
    BY <2>1, <2>2 DEF AnsweredIn
<1>5. Answered' = Answered \cup (IF e.kind = "result" THEN {e.id} ELSE {})
  <2>1. {j \in At("result")' : 1 <= j /\ j <= Len(transcript')} = At("result")'
    BY <1>1, <1>2, Places
  <2>2. {j \in At("result") : 1 <= j /\ j <= n} = At("result")
    BY <1>1, Places
  <2>3. Answered' = {transcript'[k].id : k \in At("result")'}
    BY <2>1 DEF Answered, AnsweredIn
  <2>4. Answered = {transcript[k].id : k \in At("result")}
    BY <2>2 DEF Answered, AnsweredIn
  <2>5. \A k \in At("result") : transcript'[k].id = transcript[k].id
    BY <1>1, Places
  <2>6. CASE e.kind = "result"
    <3>1. At("result")' = At("result") \cup {n + 1}
      BY <1>2, <2>6
    <3>2. {transcript'[k].id : k \in At("result")'}
          = {transcript'[k].id : k \in At("result")} \cup {transcript'[n + 1].id}
      BY <3>1
    <3>3. {transcript'[k].id : k \in At("result")} = {transcript[k].id : k \in At("result")}
      BY <2>5
    <3> QED
      BY <1>1, <2>3, <2>4, <2>6, <3>2, <3>3
  <2>7. CASE e.kind # "result"
    <3>1. At("result")' = At("result")
      BY <1>2, <2>7
    <3> QED
      BY <2>3, <2>4, <2>5, <2>7, <3>1
  <2> QED
    BY <2>6, <2>7
<1>6. ASSUME NEW kind
      PROVE  /\ e.kind = kind => At(kind)' = At(kind) \cup {n + 1}
             /\ e.kind # kind => At(kind)' = At(kind)
  BY <1>2
<1> QED
  BY <1>1, <1>3, <1>4, <1>5, <1>6

\* Nothing but the transcript tells these.
Read == <<Steps, Blocks, Open, Answered, Unanswered, At("assistant"), At("user"), At("result")>>
LEMMA ReadSame ==
  ASSUME UNCHANGED transcript
  PROVE  UNCHANGED <<Read, LastStep>>
  BY DEF Read, Steps, Blocks, Open, Answered, Unanswered, At, AnsweredIn, Emitted, StepAt, LastStep

\* What is unanswered was emitted by some entry.
LEMMA OpenCalls ==
  /\ \A id : id \in Unanswered <=>
        (\E k \in At("assistant") : id \in Emitted(k)) /\ id \notin Answered
  /\ \A id : id \in Unanswered' <=>
        (\E k \in At("assistant")' : id \in Emitted(k)') /\ id \notin Answered'
<1>1. \A id : id \in Unanswered <=>
        (\E k \in At("assistant") : id \in Emitted(k)) /\ id \notin Answered
  BY DEF Unanswered
<1>2. \A id : id \in Unanswered' <=>
        (\E k \in At("assistant")' : id \in Emitted(k)') /\ id \notin Answered'
  BY DEF Unanswered
<1> QED
  BY <1>1, <1>2

\* A result or mail leaves the steps as they are.
LEMMA WroteBelow ==
  ASSUME WindowTypeOK, EntryInv, NEW e \in Entries, e.kind # "assistant",
         transcript' = Append(transcript, e)
  PROVE  /\ UNCHANGED <<At("assistant"), Steps, LastStep, Open, Blocks>>
         /\ \A id : id \in Unanswered' <=> id \in Unanswered /\ ~(e.kind = "result" /\ id = e.id)
<1>1. At("assistant")' = At("assistant")
  BY Wrote
<1>2. Steps' = Steps /\ LastStep' = LastStep
  BY <1>1 DEF Steps, LastStep
<1>3. \A k \in At("assistant") : Emitted(k)' = Emitted(k)
  BY Wrote
<1>4. Open' = Open
  <2>1. CASE Steps = 0
    BY <1>2, <2>1 DEF Open
  <2>2. CASE Steps # 0
    <3>1. LastStep \in At("assistant")
      BY <2>2, Numbered, LastFacts
    <3>2. PICK k \in At("assistant") : k = LastStep
      BY <3>1
    <3>3. Emitted(k)' = Emitted(LastStep)
      BY <1>3, <3>2
    <3>4. Emitted(LastStep)' = Emitted(k)'
      BY <1>2, <3>2 DEF Emitted, StepAt
    <3> QED
      BY <1>2, <2>2, <3>3, <3>4 DEF Open
  <2> QED
    BY <2>1, <2>2
<1>5. Blocks' = Blocks
  BY <1>4 DEF Blocks
<1>7. Answered' = Answered \cup (IF e.kind = "result" THEN {e.id} ELSE {})
  BY Wrote
<1>8. \A id : id \in Unanswered' <=> id \in Unanswered /\ ~(e.kind = "result" /\ id = e.id)
  BY <1>1, <1>3, <1>7, OpenCalls
<1> QED
  BY <1>1, <1>2, <1>4, <1>5, <1>8

\* A new assistant entry is the next step, with nothing answered.
LEMMA WroteAssistant ==
  ASSUME WindowTypeOK, NEW n \in 0..MaxBlocks, transcript' = Append(transcript, Assistant(n)),
         NEW new, new = Len(transcript) + 1
  PROVE  /\ Assistant(n) \in Entries
         /\ At("assistant")' = At("assistant") \cup {new}
         /\ Steps' = Steps + 1 /\ Answered' = Answered /\ LastStep' = new
         /\ Emitted(new)' = {<<Steps + 1, i>> : i \in 1..n}
         /\ Open' = {<<Steps + 1, i>> : i \in 1..n} /\ Blocks' = n
<1>1. Assistant(n) \in Entries /\ Assistant(n).kind = "assistant" /\ Assistant(n).blocks = n
  BY DEF Entries, Assistant
<1>2. At("assistant")' = At("assistant") \cup {new} /\ Answered' = Answered
  BY <1>1, Wrote
<1>3. \A k \in At("assistant") : k < new
  BY Places
<1>4. Steps' = Steps + 1
  <2>1. new \notin At("assistant") /\ IsFiniteSet(At("assistant"))
    BY <1>3, Places
  <2>2. Cardinality(At("assistant") \cup {new}) = Cardinality(At("assistant")) + 1
    BY <2>1, FS_AddElement
  <2> QED
    BY <1>2, <2>2 DEF Steps
<1>5. LastStep' = new
  <2>1. \A k \in At("assistant")' : (\A j \in At("assistant")' : j <= k) <=> k = new
    BY <1>2, <1>3, Places
  <2> QED
    BY <1>2, <2>1 DEF LastStep
<1>6. Emitted(new)' = {<<Steps + 1, i>> : i \in 1..n}
  <2>1. new \in Nat /\ transcript'[new].blocks = n
    BY <1>1, Wrote, Places
  <2>2. {j \in At("assistant")' : j <= new} = At("assistant")'
    BY <1>2, <1>3, Places
  <2>3. Cardinality({j \in At("assistant")' : j <= new}) = Steps + 1
    BY <1>4, <2>2 DEF Steps
  <2>4. StepAt(new)' = Steps + 1
    BY <2>3 DEF StepAt
  <2>5. Emitted(new)' = {<<StepAt(new)', i>> : i \in 1..transcript'[new].blocks}
    BY DEF Emitted
  <2> QED
    BY <2>1, <2>4, <2>5
<1>7. Open' = {<<Steps + 1, i>> : i \in 1..n}
  <2>1. Steps \in Nat
    BY Numbered
  <2>2. Open' = Emitted(LastStep)'
    BY <1>4, <2>1 DEF Open
  <2>3. Emitted(LastStep)' = {<<StepAt(LastStep)', i>> : i \in 1..transcript'[LastStep'].blocks}
    BY DEF Emitted
  <2>4. StepAt(LastStep)' = StepAt(new)'
    BY <1>5 DEF StepAt
  <2>5. Emitted(new)' = {<<StepAt(new)', i>> : i \in 1..transcript'[new].blocks}
    BY DEF Emitted
  <2> QED
    BY <1>5, <1>6, <2>2, <2>3, <2>4, <2>5
<1>8. Blocks' = n
  <2> DEFINE row == {<<Steps + 1, i>> : i \in 1..n}
  <2>0. n \in Nat
    OBVIOUS
  <2>1. Cardinality(row) = n
    BY <2>0, RowSize
  <2>2. Open' = row
    BY <1>7
  <2> HIDE DEF row
  <2> QED
    BY <2>1, <2>2 DEF Blocks
<1> QED
  BY <1>1, <1>2, <1>4, <1>5, <1>6, <1>7, <1>8

-----------------------------------------------------------------------------
(* The pairing.                                                            *)

\* What is answered was asked for, and every answer follows its question.
LEMMA AnsweredFacts ==
  ASSUME WindowTypeOK, EntryInv
  PROVE  /\ \A id \in Answered : id[1] \in 1..Steps /\ id \in Ids
         /\ \A k \in At("assistant") : Emitted(k) \cap Answered \subseteq AnsweredIn(k, Len(transcript))
<1>1. \A id : id \in Answered <=> \E j \in At("result") : id = transcript[j].id
  BY Places DEF Answered, AnsweredIn
<1>2. ASSUME NEW j \in At("result")
      PROVE  transcript[j].id[1] \in 1..Steps /\ transcript[j].id \in Ids
  <2>1. PICK k \in At("assistant") : k < j /\ transcript[j].id \in Emitted(k)
    BY DEF EntryInv
  <2>2. transcript[j].id \in Ids
    BY Places, EntryKinds DEF At
  <2> QED
    BY <2>1, <2>2, EmittedFacts, Numbered
<1>3. ASSUME NEW k \in At("assistant"), NEW id \in Emitted(k), id \in Answered
      PROVE  id \in AnsweredIn(k, Len(transcript))
  <2>1. PICK j \in At("result") : id = transcript[j].id
    BY <1>1, <1>3
  <2>2. PICK a \in At("assistant") : a < j /\ id \in Emitted(a)
    BY <2>1 DEF EntryInv
  <2>3. a = k
    BY <1>3, <2>2, EmittedFacts
  <2>4. j \in 1..Len(transcript) /\ k \in 1..Len(transcript)
    BY Places
  <2> QED
    BY <2>1, <2>2, <2>3, <2>4 DEF AnsweredIn
<1> QED
  BY <1>1, <1>2, <1>3

\* What is answered of the last step are its own blocks.
LEMMA AnsweredOpen ==
  ASSUME WindowTypeOK, EntryInv, NEW id \in Answered, id[1] = Steps
  PROVE  id \in Open
<1>1. PICK j \in At("result") : id = transcript[j].id
  BY Places DEF Answered, AnsweredIn
<1>2. PICK k \in At("assistant") : id \in Emitted(k)
  BY <1>1 DEF EntryInv
<1>3. StepAt(k) = Steps
  BY <1>2, EmittedFacts
<1>4. Steps > 0
  BY <1>2, Numbered
<1>5. LastStep \in At("assistant") /\ StepAt(LastStep) = Steps /\ Open = Emitted(LastStep) /\ k <= LastStep
  BY <1>4, LastFacts
<1>6. k = LastStep
  BY <1>3, <1>5, Numbered, Places
<1> QED
  BY <1>2, <1>5, <1>6

LEMMA PairSame ==
  ASSUME PairInv, UNCHANGED transcript
  PROVE  PairInv'
<1>1. \A kind : At(kind)' = At(kind)
  BY DEF At
<1>2. \A k : Emitted(k)' = Emitted(k)
  BY <1>1 DEF Emitted, StepAt
<1>3. \A a, b : AnsweredIn(a, b)' = AnsweredIn(a, b)
  BY <1>1 DEF AnsweredIn
<1>4. Steps' = Steps /\ Blocks' = Blocks /\ Answered' = Answered
  BY ReadSame DEF Read
<1>5. EntryInv'
  BY <1>1, <1>2, <1>4 DEF PairInv, EntryInv
<1>6. PrefixInv'
  BY <1>4 DEF PairInv, PrefixInv, AnsweredBelow
<1>7. AnsweredInPlace'
  BY <1>1, <1>2, <1>3 DEF PairInv, AnsweredInPlace
<1>8. AnsweredOnce'
  BY <1>1 DEF PairInv, AnsweredOnce
<1> QED
  BY <1>5, <1>6, <1>7, <1>8 DEF PairInv

\* The place of the first block that is open.
LEMMA FirstOpen ==
  ASSUME WindowTypeOK, EntryInv, NEW id \in Unsettled,
         \A other \in Unsettled : id[2] <= other[2],
         NEW m \in 1..(Blocks + 1), AnsweredBelow(m)
  PROVE  /\ Steps \in 1..MaxSteps /\ m \in 1..Blocks /\ id = <<Steps, m>>
         /\ id \in Ids /\ id \in Emitted(LastStep) /\ id \notin Answered
<1>1. Steps > 0
  BY Numbered DEF Unsettled, Open
<1>2. Blocks \in 0..MaxBlocks /\ Open = {<<Steps, i>> : i \in 1..Blocks} /\ Open = Emitted(LastStep)
  BY <1>1, LastFacts
<1>3. PICK i \in 1..Blocks : id = <<Steps, i>>
  BY <1>2 DEF Unsettled
<1>4. m <= i
  BY <1>2, <1>3 DEF Unsettled, AnsweredBelow
<1>5. m \in 1..Blocks /\ <<Steps, m>> \in Unsettled
  <2>1. m \in 1..Blocks
    BY <1>2, <1>4
  <2>2. <<Steps, m>> \notin Answered
    BY <2>1 DEF AnsweredBelow
  <2> QED
    BY <1>2, <2>1, <2>2 DEF Unsettled
<1>6. i = m
  BY <1>2, <1>3, <1>4, <1>5
<1>7. Steps \in 1..MaxSteps
  BY <1>1, Numbered DEF EntryInv
<1> QED
  BY <1>2, <1>3, <1>5, <1>6, <1>7 DEF Unsettled, Ids

\* A result for the first block that is open keeps the pairing.
LEMMA PairResult ==
  ASSUME WindowTypeOK, PairInv, NEW id \in Unsettled,
         \A other \in Unsettled : id[2] <= other[2],
         NEW how \in Hows, transcript' = Append(transcript, Result(id, how))
  PROVE  PairInv' /\ Answered' = Answered \cup {id}
<1> DEFINE e == Result(id, how)
           n == Len(transcript)
<1>1. Steps > 0
  BY Numbered DEF Unsettled, Open
<1>2. PICK m \in 1..(Blocks + 1) : AnsweredBelow(m)
  BY <1>1 DEF PairInv, PrefixInv
<1>3. /\ Steps \in 1..MaxSteps /\ m \in 1..Blocks /\ id = <<Steps, m>>
      /\ id \in Ids /\ id \in Emitted(LastStep) /\ id \notin Answered
  BY <1>2, FirstOpen DEF PairInv
<1>4. e \in Entries /\ e.kind = "result" /\ e.id = id
  BY <1>3 DEF Entries, Result
<1> HIDE DEF e
<1>5. /\ At("assistant")' = At("assistant") /\ Steps' = Steps /\ LastStep' = LastStep
      /\ Open' = Open /\ Blocks' = Blocks /\ Answered' = Answered \cup {id}
  BY <1>4, Wrote, WroteBelow DEF PairInv, e
<1>6. At("result")' = At("result") \cup {n + 1} /\ At("user")' = At("user")
  BY <1>4, Wrote DEF e
<1>7. /\ \A k \in 1..n : transcript'[k] = transcript[k]
      /\ transcript'[n + 1] = e
      /\ \A k \in At("assistant") : Emitted(k)' = Emitted(k)
      /\ \A a, b \in 1..n : AnsweredIn(a, b)' = AnsweredIn(a, b)
  BY <1>4, Wrote DEF e
<1>8. n \in Nat /\ \A kind : At(kind) \subseteq 1..n
  BY Places
<1>9. EntryInv'
  <2>1. LastStep \in At("assistant")
    BY <1>1, LastFacts DEF PairInv
  <2>2. ASSUME NEW j \in At("result")'
        PROVE  \E k \in At("assistant") : k < j /\ transcript'[j].id \in Emitted(k)
    <3>1. CASE j \in At("result")
      BY <1>7, <1>8, <3>1 DEF PairInv, EntryInv
    <3>2. CASE j = n + 1
      BY <1>3, <1>4, <1>7, <1>8, <2>1, <3>2
    <3> QED
      BY <1>6, <3>1, <3>2
  <2>3. \A j \in At("result")' : \E k \in At("assistant")' : k < j /\ transcript'[j].id \in Emitted(k)'
    BY <1>5, <1>7, <2>2
  <2> QED
    BY <1>5, <2>3 DEF PairInv, EntryInv
<1>10. PrefixInv'
  <2>1. Blocks \in 0..MaxBlocks
    BY <1>1, LastFacts DEF PairInv
  <2>2. \A i \in 1..Blocks : <<Steps, i>> \in Answered' <=> i < m + 1
    BY <1>2, <1>3, <1>5, <2>1 DEF AnsweredBelow
  <2>3. m + 1 \in 1..(Blocks + 1)
    BY <1>3, <2>1
  <2> QED
    BY <1>5, <2>2, <2>3 DEF PrefixInv, AnsweredBelow
<1>11. AnsweredInPlace'
  <2>1. ASSUME NEW k \in At("assistant"), NEW j \in At("assistant") \cup At("user"), k < j
        PROVE  Emitted(k)' \subseteq AnsweredIn(k, j)'
    <3>1. Emitted(k) \subseteq AnsweredIn(k, j)
      BY <2>1 DEF PairInv, AnsweredInPlace
    <3>2. k \in 1..n /\ j \in 1..n
      BY <1>8
    <3> QED
      BY <1>7, <3>1, <3>2
  <2> QED
    BY <1>5, <1>6, <2>1 DEF AnsweredInPlace
<1>12. AnsweredOnce'
  <2>1. \A j \in At("result") : transcript[j].id # id
    BY <1>3, <1>8 DEF Answered, AnsweredIn
  <2>2. \A j, k \in At("result") : transcript[j].id = transcript[k].id => j = k
    BY DEF PairInv, AnsweredOnce
  <2>3. \A j, k \in At("result") \cup {n + 1} : transcript'[j].id = transcript'[k].id => j = k
    BY <1>4, <1>7, <1>8, <2>1, <2>2
  <2> QED
    BY <1>6, <2>3 DEF AnsweredOnce
<1> QED
  BY <1>5, <1>9, <1>10, <1>11, <1>12 DEF PairInv

\* Where nothing is open, everything that was asked is answered after its
\* entry, so another turn may begin.
LEMMA AllAnswered ==
  ASSUME WindowTypeOK, EntryInv, Unanswered = {}, NEW k \in At("assistant")
  PROVE  Emitted(k) \subseteq AnsweredIn(k, Len(transcript))
<1>1. Emitted(k) \subseteq Answered
  BY OpenCalls
<1> QED
  BY <1>1, AnsweredFacts

LEMMA PlacedOnward ==
  ASSUME WindowTypeOK, PairInv, Unanswered = {}, NEW e \in Entries, e.kind # "result",
         transcript' = Append(transcript, e)
  PROVE  /\ \A k \in At("assistant") : \A j \in At("assistant")' \cup At("user")' :
                k < j => Emitted(k)' \subseteq AnsweredIn(k, j)'
         /\ AnsweredOnce' /\ At("result")' = At("result")
<1>0. PICK n : n = Len(transcript)
  OBVIOUS
<1>1. n \in Nat /\ (\A kind : At(kind) \subseteq 1..n) /\ At("result")' = At("result")
  BY <1>0, Places, Wrote
<1>2. /\ \A k \in 1..n : transcript'[k] = transcript[k]
      /\ \A k \in At("assistant") : Emitted(k)' = Emitted(k)
      /\ \A a, b \in 1..n : AnsweredIn(a, b)' = AnsweredIn(a, b)
  BY <1>0, Wrote
<1>3. \A kind : At(kind)' \subseteq At(kind) \cup {n + 1}
  BY <1>0, Wrote
<1>4. ASSUME NEW k \in At("assistant"), NEW j \in At("assistant")' \cup At("user")', k < j
      PROVE  Emitted(k)' \subseteq AnsweredIn(k, j)'
  <2>1. CASE j \in At("assistant") \cup At("user")
    <3>1. Emitted(k) \subseteq AnsweredIn(k, j)
      BY <1>4, <2>1 DEF PairInv, AnsweredInPlace
    <3> QED
      BY <1>1, <1>2, <2>1, <3>1
  <2>2. CASE j = n + 1
    <3>1. Emitted(k) \subseteq AnsweredIn(k, n)
      BY <1>0, AllAnswered DEF PairInv
    <3>2. k \in 1..n /\ n \in 1..n
      BY <1>1
    <3>3. AnsweredIn(k, n)' \subseteq AnsweredIn(k, j)'
      <4>1. {i \in At("result")' : k <= i /\ i <= n} \subseteq {i \in At("result")' : k <= i /\ i <= j}
        BY <1>1, <2>2
      <4>2. \A m : AnsweredIn(k, m)' = {transcript'[i].id : i \in {i \in At("result")' : k <= i /\ i <= m}}
        BY DEF AnsweredIn
      <4> QED
        BY <4>1, <4>2
    <3> QED
      BY <1>2, <3>1, <3>2, <3>3
  <2> QED
    BY <1>3, <2>1, <2>2
<1>5. AnsweredOnce'
  <2>1. \A j \in At("result") : transcript'[j] = transcript[j]
    BY <1>1, <1>2
  <2>2. \A j, k \in At("result") : transcript'[j].id = transcript'[k].id => j = k
    BY <2>1 DEF PairInv, AnsweredOnce
  <2> QED
    BY <1>1, <2>2 DEF AnsweredOnce
<1> QED
  BY <1>1, <1>4, <1>5

\* Mail, where nothing is open.
LEMMA PairMail ==
  ASSUME WindowTypeOK, PairInv, Unanswered = {}, transcript' = Append(transcript, User)
  PROVE  PairInv'
<1>1. User \in Entries /\ User.kind = "user"
  BY DEF Entries, User
<1>2. /\ At("assistant")' = At("assistant") /\ At("result")' = At("result")
      /\ Steps' = Steps /\ Blocks' = Blocks /\ Answered' = Answered
  BY <1>1, Wrote, WroteBelow DEF PairInv
<1>3. /\ \A j \in At("result") : transcript'[j] = transcript[j]
      /\ \A k \in At("assistant") : Emitted(k)' = Emitted(k)
  <2>1. At("result") \subseteq 1..Len(transcript)
    BY Places
  <2> QED
    BY <1>1, <2>1, Wrote
<1>4. EntryInv'
  BY <1>2, <1>3 DEF PairInv, EntryInv
<1>5. PrefixInv'
  BY <1>2 DEF PairInv, PrefixInv, AnsweredBelow
<1>6. AnsweredInPlace' /\ AnsweredOnce'
  BY <1>1, <1>2, PlacedOnward DEF AnsweredInPlace
<1> QED
  BY <1>4, <1>5, <1>6 DEF PairInv

\* The answer of a model, where nothing is open.
LEMMA PairStep ==
  ASSUME WindowTypeOK, PairInv, Unanswered = {}, Steps < MaxSteps,
         NEW n \in 0..MaxBlocks, transcript' = Append(transcript, Assistant(n))
  PROVE  PairInv'
<1>0. PICK new : new = Len(transcript) + 1
  OBVIOUS
<1>1. /\ Assistant(n) \in Entries /\ Assistant(n).kind = "assistant"
      /\ At("assistant")' = At("assistant") \cup {new}
      /\ Steps' = Steps + 1 /\ Answered' = Answered /\ LastStep' = new /\ Blocks' = n
  BY <1>0, WroteAssistant DEF Assistant
<1>2. /\ \A j \in At("result") : transcript'[j] = transcript[j]
      /\ \A k \in At("assistant") : Emitted(k)' = Emitted(k)
      /\ At("result")' = At("result") /\ At("user")' = At("user")
  <2>1. At("result") \subseteq 1..Len(transcript)
    BY Places
  <2> QED
    BY <1>1, <2>1, Wrote
<1>3. /\ new \in Nat /\ Steps \in Nat
      /\ \A j \in At("assistant") \cup At("result") \cup At("user") : j \in Nat /\ j < new
  BY <1>0, Places, Numbered
<1>4. EntryInv'
  <2>1. \A j \in At("assistant")' : j <= new
    BY <1>1, <1>3
  <2>2. ASSUME NEW j \in At("result")'
        PROVE  \E k \in At("assistant")' : k < j /\ transcript'[j].id \in Emitted(k)'
    <3>1. PICK k \in At("assistant") : k < j /\ transcript[j].id \in Emitted(k)
      BY <1>2 DEF PairInv, EntryInv
    <3>2. transcript'[j].id \in Emitted(k)' /\ k \in At("assistant")'
      BY <1>1, <1>2, <3>1
    <3> QED
      BY <3>1, <3>2
  <2>3. Steps' <= MaxSteps
    BY <1>1, <1>3
  <2>4. \E k \in At("assistant")' : \A j \in At("assistant")' : j <= k
    BY <1>1, <2>1
  <2>5. EntryInv' <=>
          /\ At("assistant")' # {} => \E k \in At("assistant")' : \A j \in At("assistant")' : j <= k
          /\ \A j \in At("result")' : \E k \in At("assistant")' : k < j /\ transcript'[j].id \in Emitted(k)'
          /\ Steps' <= MaxSteps
    BY DEF EntryInv
  <2> QED
    BY <2>2, <2>3, <2>4, <2>5
<1>5. PrefixInv'
  <2>1. \A i \in 1..n : <<Steps + 1, i>> \notin Answered
    BY <1>3, AnsweredFacts DEF PairInv
  <2> QED
    BY <1>1, <2>1 DEF PrefixInv, AnsweredBelow
<1>6. AnsweredInPlace' /\ AnsweredOnce'
  <2>1. /\ \A k \in At("assistant") : \A j \in At("assistant")' \cup At("user")' :
              k < j => Emitted(k)' \subseteq AnsweredIn(k, j)'
        /\ AnsweredOnce'
    BY <1>1, PlacedOnward
  <2>2. \A j \in At("assistant")' \cup At("user")' : ~(new < j)
    BY <1>1, <1>2, <1>3
  <2> QED
    BY <1>1, <2>1, <2>2 DEF AnsweredInPlace
<1> QED
  BY <1>4, <1>5, <1>6 DEF PairInv

-----------------------------------------------------------------------------
(* The window and its mark.                                                *)

\* The block the driver is about to take, when it is not skipped: all before
\* it is answered, nothing from it on.
LEMMA HereFacts ==
  ASSUME WindowTypeOK, CallsInv, pc \in {"window", "enter", "exec", "record"},
         at <= Blocks, Here \notin skip
  PROVE  /\ Steps \in 1..MaxSteps /\ at \in 1..Blocks /\ Blocks \in 0..MaxBlocks
         /\ Here \in Ids /\ Here \in Unsettled
         /\ \A other \in Unsettled : Here[2] <= other[2]
         /\ \A i \in 1..Blocks : <<Steps, i>> \in Answered <=> i < at
<1>1. Steps \in 1..MaxSteps
  BY Numbered DEF CallsInv, SettledInv, PairInv, EntryInv
<1>2. Blocks \in 0..MaxBlocks /\ Open = {<<Steps, i>> : i \in 1..Blocks}
  BY <1>1, LastFacts DEF CallsInv, PairInv
<1>3. at \in 1..Blocks
  BY <1>2 DEF WindowTypeOK
<1>4. PICK m \in 1..(Blocks + 1) : AnsweredBelow(m)
  BY <1>1 DEF CallsInv, PairInv, PrefixInv
<1>5. Here \notin Answered
  BY <1>3 DEF CallsInv, WindowInv, Here
<1>6. m <= at
  BY <1>2, <1>3, <1>4, <1>5 DEF AnsweredBelow, Here
<1>7. ~(m < at)
  <2>1. SUFFICES ASSUME m < at PROVE FALSE
    OBVIOUS
  <2>2. m \in 1..Blocks
    BY <1>2, <1>3, <2>1
  <2>3. <<Steps, m>> \in Answered
    BY <2>1, <2>2 DEF CallsInv, WindowInv
  <2> QED
    BY <1>4, <2>2, <2>3 DEF AnsweredBelow
<1>8. m = at
  BY <1>2, <1>3, <1>6, <1>7
<1>9. Here \in Unsettled
  BY <1>2, <1>3, <1>5 DEF Unsettled, Here
<1>10. \A other \in Unsettled : Here[2] <= other[2]
  BY <1>2, <1>3, <1>4, <1>8 DEF Unsettled, AnsweredBelow, Here
<1>11. Here \in Ids
  BY <1>1, <1>2, <1>3 DEF Here, Ids
<1> QED
  BY <1>1, <1>2, <1>3, <1>4, <1>8, <1>9, <1>10, <1>11 DEF AnsweredBelow

\* A live mark is on the first open block.
LEMMA LiveFacts ==
  ASSUME WindowTypeOK, CallsInv, MarkLive
  PROVE  /\ Steps \in 1..MaxSteps /\ mark \in Ids /\ mark \in Unsettled
         /\ \A id \in Unsettled : (\A other \in Unsettled : id[2] <= other[2]) => id = mark
<1>1. Steps > 0
  BY Numbered DEF MarkLive, Open
<1>2. Blocks \in 0..MaxBlocks /\ Open = {<<Steps, i>> : i \in 1..Blocks}
  BY <1>1, LastFacts DEF CallsInv, PairInv
<1>3. PICK j \in 1..Blocks : mark = <<Steps, j>>
  BY <1>2 DEF MarkLive
<1>4. \A i \in 1..Blocks : i < j => <<Steps, i>> \in Answered
  BY <1>3 DEF CallsInv, MarkInv
<1>5. mark \in Unsettled
  BY DEF MarkLive, Unsettled
<1>6. ASSUME NEW id \in Unsettled, \A other \in Unsettled : id[2] <= other[2]
      PROVE  id = mark
  <2>1. PICK i \in 1..Blocks : id = <<Steps, i>>
    BY <1>2 DEF Unsettled
  <2>2. ~(i < j)
    BY <1>4, <2>1 DEF Unsettled
  <2>3. i <= j
    BY <1>3, <1>5, <1>6, <2>1
  <2> QED
    BY <1>2, <1>3, <2>1, <2>2, <2>3
<1>7. Steps \in 1..MaxSteps
  BY <1>1, Numbered DEF CallsInv, PairInv, EntryInv
<1>8. mark \in Ids
  BY <1>2, <1>3, <1>7 DEF Ids
<1> QED
  BY <1>5, <1>6, <1>7, <1>8

\* The results a driver writes: each is for the first open block, and no mark
\* is live when it is there.
LEMMA ResultStep ==
  ASSUME WindowTypeOK, CallsInv, NEW id \in Unsettled,
         \A other \in Unsettled : id[2] <= other[2],
         NEW how \in Hows, how \in {"declined", "refused"} => ran[id] = 0,
         transcript' = Append(transcript, Result(id, how)), UNCHANGED <<mark, ran>>
  PROVE  /\ PairInv' /\ RanInv' /\ RanOnce' /\ ~MarkLive'
         /\ transcript' \in Seq(Entries)
         /\ Answered' = Answered \cup {id} /\ Steps' = Steps /\ Blocks' = Blocks
<1>1. PairInv' /\ Answered' = Answered \cup {id}
  BY PairResult DEF CallsInv
<1>2. Steps > 0
  BY Numbered DEF Unsettled, Open
<1>3. PICK m \in 1..(Blocks + 1) : AnsweredBelow(m)
  BY <1>2 DEF CallsInv, PairInv, PrefixInv
<1>4. id \in Ids
  BY <1>3, FirstOpen DEF CallsInv, PairInv
<1>5. Result(id, how) \in Entries /\ Result(id, how).kind = "result"
      /\ Result(id, how).id = id /\ Result(id, how).how = how
  BY <1>4 DEF Entries, Result
<1>6. Steps' = Steps /\ Blocks' = Blocks /\ Open' = Open
  BY <1>5, WroteBelow DEF CallsInv, PairInv
<1>7. /\ transcript' \in Seq(Entries)
      /\ At("result")' = At("result") \cup {Len(transcript) + 1}
      /\ \A k \in 1..Len(transcript) : transcript'[k] = transcript[k]
      /\ transcript'[Len(transcript) + 1] = Result(id, how)
  BY <1>5, Wrote
<1>8. ~MarkLive'
  <2>1. CASE MarkLive
    <3>1. mark = id
      BY <2>1, LiveFacts
    <3> QED
      BY <1>1, <3>1 DEF MarkLive
  <2>2. CASE ~MarkLive
    BY <1>1, <1>6, <2>2 DEF MarkLive
  <2> QED
    BY <2>1, <2>2
<1>9. RanInv'
  BY <1>6 DEF CallsInv, RanInv
<1>10. RanOnce'
  <2>1. ASSUME NEW k \in At("result")', transcript'[k].how \in {"declined", "refused"}
        PROVE  ran[transcript'[k].id] = 0
    <3>1. CASE k \in At("result")
      <4>1. transcript'[k] = transcript[k]
        BY <1>7, <3>1, Places
      <4> QED
        BY <2>1, <3>1, <4>1 DEF CallsInv, RanOnce
    <3>2. CASE k = Len(transcript) + 1
      BY <1>5, <1>7, <2>1, <3>2
    <3> QED
      BY <1>7, <3>1, <3>2
  <2> QED
    BY <1>8, <2>1 DEF CallsInv, RanOnce
<1> QED
  BY <1>1, <1>6, <1>7, <1>8, <1>9, <1>10

-----------------------------------------------------------------------------
(* Every step keeps the invariant.                                         *)

\* Steps that write no entry and let nothing run: what holds of the
\* transcript goes on to hold.
LEMMA QuietStep ==
  ASSUME WindowTypeOK, CallsInv, UNCHANGED <<transcript, ran>>, mark' \in {mark, NoMark}
  PROVE  /\ PairInv' /\ RanInv' /\ RanOnce'
         /\ Steps' = Steps /\ Blocks' = Blocks /\ Answered' = Answered /\ Unanswered' = Unanswered
         /\ MarkLive' => MarkLive /\ mark' = mark
         /\ mark' # NoMark => mark'[1] \in 1..Steps
         /\ MarkLive' => \A i \in 1..Blocks : i < mark'[2] => <<Steps, i>> \in Answered
<1>1. PairInv'
  BY PairSame DEF CallsInv
<1>2. /\ Steps' = Steps /\ Blocks' = Blocks /\ Answered' = Answered /\ Unanswered' = Unanswered
      /\ Open' = Open /\ At("result")' = At("result")
  BY ReadSame DEF Read
<1>3. MarkLive' => MarkLive /\ mark' = mark
  <2>1. SUFFICES ASSUME MarkLive' PROVE MarkLive /\ mark' = mark
    OBVIOUS
  <2>2. mark' \in Open /\ mark' \notin Answered
    BY <1>2, <2>1 DEF MarkLive
  <2>3. mark' # NoMark
    <3>1. Steps > 0
      BY <2>2, Numbered DEF Open
    <3>2. Open = {<<Steps, i>> : i \in 1..Blocks} /\ Blocks \in 0..MaxBlocks
      BY <3>1, LastFacts DEF CallsInv, PairInv
    <3>3. Steps \in 1..MaxSteps
      BY <3>1, Numbered DEF CallsInv, PairInv, EntryInv
    <3>4. Open \subseteq Ids
      BY <3>2, <3>3 DEF Ids
    <3> QED
      BY <2>2, <3>4
  <2> QED
    BY <2>2, <2>3 DEF MarkLive
<1>4. RanInv'
  BY <1>2 DEF CallsInv, RanInv
<1>5. RanOnce'
  BY <1>2, <1>3 DEF CallsInv, RanOnce, AtOrAfter
<1>6. mark' # NoMark => mark'[1] \in 1..Steps
  BY DEF CallsInv, MarkInv
<1>7. MarkLive' => \A i \in 1..Blocks : i < mark'[2] => <<Steps, i>> \in Answered
  BY <1>3 DEF CallsInv, MarkInv
<1> QED
  BY <1>1, <1>2, <1>3, <1>4, <1>5, <1>6, <1>7

\* Without open blocks no mark is live.
LEMMA NothingLive == ASSUME WindowTypeOK, CallsInv, Unanswered = {} PROVE ~MarkLive
<1>1. SUFFICES ASSUME MarkLive PROVE FALSE
  OBVIOUS
<1>2. LastStep \in At("assistant") /\ Open = Emitted(LastStep)
  BY <1>1, Numbered, LastFacts DEF MarkLive, Open, CallsInv, PairInv
<1> QED
  BY <1>1, <1>2, OpenCalls DEF MarkLive

\* What settling leaves: either nothing was open, or mail has closed it.
LEMMA NoOrphan == ASSUME WindowTypeOK, CallsInv, ~CrashOrphan PROVE Unanswered = {}
<1>1. SUFFICES ASSUME NEW id \in Unanswered PROVE FALSE
  OBVIOUS
<1>2. PICK k \in At("assistant") : id \in Emitted(k) /\ id \notin Answered
  BY OpenCalls
<1>3. \A j \in At("assistant") \cup At("user") : ~(k < j)
  <2>1. SUFFICES ASSUME NEW j \in At("assistant") \cup At("user"), k < j PROVE FALSE
    OBVIOUS
  <2>2. id \in AnsweredIn(k, j)
    BY <1>2, <2>1 DEF CallsInv, PairInv, AnsweredInPlace
  <2>3. k \in 1..Len(transcript) /\ j \in 1..Len(transcript) /\ Len(transcript) \in Nat
    BY Places
  <2>4. id \in Answered
    BY <2>2, <2>3 DEF AnsweredIn, Answered
  <2> QED
    BY <1>2, <2>4
<1>4. Steps > 0
  BY <1>2, Numbered
<1>5. /\ LastStep \in At("assistant") /\ Open = Emitted(LastStep)
      /\ \A j \in At("assistant") : j <= LastStep
  BY <1>4, LastFacts DEF CallsInv, PairInv
<1>6. k = LastStep
  BY <1>3, <1>5, Places
<1>7. Unsettled # {}
  BY <1>2, <1>5, <1>6 DEF Unsettled
<1> QED
  BY <1>3, <1>6, <1>7 DEF CrashOrphan

\* A settlement ends when nothing is open.
LEMMA NoneUnsettled == ASSUME WindowTypeOK, CallsInv, Unsettled = {} PROVE Unanswered = {}
  BY NoOrphan DEF CrashOrphan

\* What is left to show of a quiet step.
LEMMA QuietRest ==
  ASSUME WindowTypeOK, CallsInv, UNCHANGED <<transcript, ran>>, mark' \in {mark, NoMark},
         SettledInv', WindowInv', pc' \in {"settle", "enter", "exec"} => ~MarkLive'
  PROVE  CallsInv'
<1>1. /\ PairInv' /\ RanInv' /\ RanOnce'
      /\ Steps' = Steps /\ Blocks' = Blocks /\ Answered' = Answered
      /\ mark' # NoMark => mark'[1] \in 1..Steps
      /\ MarkLive' => \A i \in 1..Blocks : i < mark'[2] => <<Steps, i>> \in Answered
  BY QuietStep
<1>2. MarkInv'
  BY <1>1 DEF MarkInv
<1> QED
  BY <1>1, <1>2 DEF CallsInv

LEMMA QuietSteps ==
  ASSUME WindowTypeOK, CallsInv,
         \/ Prompt \/ Drive \/ Mail \/ Sigterm \/ Die \/ Unmarked \/ StaleMark \/ Resume
         \/ Settled \/ NotDue \/ CallCeases \/ SkipAnswered \/ Decline \/ Pass \/ Refuse \/ ControlFelled
         \/ Returns \/ ToolFelled \/ Interrupted \/ WindowStopped \/ WindowDone \/ Baton \/ Loop
  PROVE  CallsInv'
<1> USE DEF window, counters
<1>0. SettledInv /\ WindowInv /\ MarkInv
  BY DEF CallsInv
<1>1. CASE Prompt
  <2>1. UNCHANGED <<transcript, ran>> /\ mark' \in {mark, NoMark}
    BY <1>1 DEF Prompt
  <2>2. /\ Steps' = Steps /\ Blocks' = Blocks /\ Answered' = Answered /\ Unanswered' = Unanswered
        /\ MarkLive' => MarkLive /\ mark' = mark
    BY <2>1, QuietStep
  <2>3. SettledInv'
    <3>1. At("assistant") = {}
      BY <1>0, <1>1 DEF Prompt, SettledInv, At
    <3>2. Unanswered = {}
      BY <3>1, OpenCalls
    <3>3. drives' # 0
      BY <1>1 DEF Prompt, WindowTypeOK
    <3> QED
      BY <1>1, <2>2, <3>2, <3>3 DEF Prompt, SettledInv
  <2>4. WindowInv'
    BY <1>0, <1>1, <2>2 DEF Prompt, WindowInv, Here
  <2>5. pc' \in {"settle", "enter", "exec"} => ~MarkLive'
    BY <1>0, <1>1, <2>2 DEF Prompt, MarkInv
  <2> QED
    BY <2>1, <2>3, <2>4, <2>5, QuietRest
<1>2. CASE Drive
  <2>1. UNCHANGED <<transcript, ran>> /\ mark' \in {mark, NoMark}
    BY <1>2 DEF Drive
  <2>2. /\ Steps' = Steps /\ Blocks' = Blocks /\ Answered' = Answered /\ Unanswered' = Unanswered
        /\ MarkLive' => MarkLive /\ mark' = mark
    BY <2>1, QuietStep
  <2>3. SettledInv'
    <3>1. drives' # 0
      BY <1>2 DEF Drive, WindowTypeOK
    <3> QED
      BY <1>2, <2>2, <3>1 DEF Drive, SettledInv
  <2>4. WindowInv'
    BY <1>0, <1>2, <2>2 DEF Drive, WindowInv, Here
  <2>5. pc' \in {"settle", "enter", "exec"} => ~MarkLive'
    BY <1>0, <1>2, <2>2 DEF Drive, MarkInv
  <2> QED
    BY <2>1, <2>3, <2>4, <2>5, QuietRest
<1>3. CASE Mail
  <2>1. UNCHANGED <<transcript, ran>> /\ mark' \in {mark, NoMark}
    BY <1>3 DEF Mail
  <2>2. /\ Steps' = Steps /\ Blocks' = Blocks /\ Answered' = Answered /\ Unanswered' = Unanswered
        /\ MarkLive' => MarkLive /\ mark' = mark
    BY <2>1, QuietStep
  <2>3. SettledInv'
    BY <1>0, <1>3, <2>2 DEF Mail, SettledInv
  <2>4. WindowInv'
    BY <1>0, <1>3, <2>2 DEF Mail, WindowInv, Here
  <2>5. pc' \in {"settle", "enter", "exec"} => ~MarkLive'
    BY <1>0, <1>3, <2>2 DEF Mail, MarkInv
  <2> QED
    BY <2>1, <2>3, <2>4, <2>5, QuietRest
<1>4. CASE Sigterm
  <2>1. UNCHANGED <<transcript, ran>> /\ mark' \in {mark, NoMark}
    BY <1>4 DEF Sigterm
  <2>2. /\ Steps' = Steps /\ Blocks' = Blocks /\ Answered' = Answered /\ Unanswered' = Unanswered
        /\ MarkLive' => MarkLive /\ mark' = mark
    BY <2>1, QuietStep
  <2>3. SettledInv'
    BY <1>0, <1>4, <2>2 DEF Sigterm, SettledInv
  <2>4. WindowInv'
    BY <1>0, <1>4, <2>2 DEF Sigterm, WindowInv, Here
  <2>5. pc' \in {"settle", "enter", "exec"} => ~MarkLive'
    BY <1>0, <1>4, <2>2 DEF Sigterm, MarkInv
  <2> QED
    BY <2>1, <2>3, <2>4, <2>5, QuietRest
<1>5. CASE Die
  <2>1. UNCHANGED <<transcript, ran>> /\ mark' \in {mark, NoMark}
    BY <1>5 DEF Die
  <2>2. /\ Steps' = Steps /\ Blocks' = Blocks /\ Answered' = Answered /\ Unanswered' = Unanswered
        /\ MarkLive' => MarkLive /\ mark' = mark
    BY <2>1, QuietStep
  <2>3. SettledInv'
    BY <1>0, <1>5, <2>2 DEF Die, SettledInv
  <2>4. WindowInv'
    BY <1>0, <1>5, <2>2 DEF Die, WindowInv, Here
  <2>5. pc' \in {"settle", "enter", "exec"} => ~MarkLive'
    BY <1>0, <1>5, <2>2 DEF Die, MarkInv
  <2> QED
    BY <2>1, <2>3, <2>4, <2>5, QuietRest
<1>6. CASE Unmarked
  <2>1. UNCHANGED <<transcript, ran>> /\ mark' \in {mark, NoMark}
    BY <1>6 DEF Unmarked
  <2>2. /\ Steps' = Steps /\ Blocks' = Blocks /\ Answered' = Answered /\ Unanswered' = Unanswered
        /\ MarkLive' => MarkLive /\ mark' = mark
    BY <2>1, QuietStep
  <2>3. SettledInv'
    BY <1>0, <1>6, <2>2 DEF Unmarked, SettledInv
  <2>4. WindowInv'
    BY <1>0, <1>6, <2>2 DEF Unmarked, WindowInv, Here
  <2>5. pc' \in {"settle", "enter", "exec"} => ~MarkLive'
    <3>1. mark \notin Ids
      BY <1>6 DEF Unmarked
    <3> QED
      BY <2>2, <3>1, LiveFacts
  <2> QED
    BY <2>1, <2>3, <2>4, <2>5, QuietRest
<1>7. CASE StaleMark
  <2>1. UNCHANGED <<transcript, ran>> /\ mark' \in {mark, NoMark}
    BY <1>7 DEF StaleMark
  <2>2. /\ Steps' = Steps /\ Blocks' = Blocks /\ Answered' = Answered /\ Unanswered' = Unanswered
        /\ MarkLive' => MarkLive /\ mark' = mark
    BY <2>1, QuietStep
  <2>3. SettledInv'
    BY <1>0, <1>7, <2>2 DEF StaleMark, SettledInv
  <2>4. WindowInv'
    BY <1>0, <1>7, <2>2 DEF StaleMark, WindowInv, Here
  <2>5. pc' \in {"settle", "enter", "exec"} => ~MarkLive'
    BY <1>0, <1>7, <2>2 DEF StaleMark, MarkInv
  <2> QED
    BY <2>1, <2>3, <2>4, <2>5, QuietRest
<1>8. CASE Resume
  <2>1. UNCHANGED <<transcript, ran>> /\ mark' \in {mark, NoMark}
    BY <1>8 DEF Resume
  <2>2. /\ Steps' = Steps /\ Blocks' = Blocks /\ Answered' = Answered /\ Unanswered' = Unanswered
        /\ MarkLive' => MarkLive /\ mark' = mark
    BY <2>1, QuietStep
  <2>3. SettledInv'
    <3>1. Steps > 0
      BY <1>8, LiveFacts DEF Resume
    <3> QED
      BY <1>0, <1>8, <2>2, <3>1 DEF Resume, SettledInv
  <2>4. WindowInv'
    <3>1. MarkLive /\ mark \in Ids /\ Steps \in 1..MaxSteps
      BY <1>8, LiveFacts DEF Resume
    <3>2. /\ Open = {<<Steps, i>> : i \in 1..Blocks} /\ Blocks \in 0..MaxBlocks
      BY <3>1, LastFacts DEF CallsInv, PairInv
    <3>3. PICK j \in 1..Blocks : mark = <<Steps, j>>
      BY <3>1, <3>2 DEF MarkLive
    <3>4. ASSUME NEW i \in 1..Blocks, <<Steps, i>> \notin Answered
          PROVE  ran[<<Steps, i>>] = 0
      <4>1. ~(i < j)
        BY <1>0, <3>1, <3>3, <3>4 DEF MarkInv
      <4>2. <<Steps, i>> \in AtOrAfter(mark)
        BY <3>1, <3>2, <3>3, <4>1 DEF AtOrAfter, Ids
      <4> QED
        BY <3>1, <4>2 DEF CallsInv, RanOnce
    <3> QED
      BY <1>8, <2>2, <3>2, <3>4 DEF Resume, WindowInv, Here
  <2>5. pc' \in {"settle", "enter", "exec"} => ~MarkLive'
    BY <1>0, <1>8, <2>2 DEF Resume, MarkInv
  <2> QED
    BY <2>1, <2>3, <2>4, <2>5, QuietRest
<1>9. CASE Settled
  <2>1. UNCHANGED <<transcript, ran>> /\ mark' \in {mark, NoMark}
    BY <1>9 DEF Settled
  <2>2. /\ Steps' = Steps /\ Blocks' = Blocks /\ Answered' = Answered /\ Unanswered' = Unanswered
        /\ MarkLive' => MarkLive /\ mark' = mark
    BY <2>1, QuietStep
  <2>3. SettledInv'
    <3>1. Unanswered = {}
      BY <1>9, NoOrphan DEF Settled
    <3> QED
      BY <1>0, <1>9, <2>2, <3>1 DEF Settled, SettledInv
  <2>4. WindowInv'
    BY <1>0, <1>9, <2>2 DEF Settled, WindowInv, Here
  <2>5. pc' \in {"settle", "enter", "exec"} => ~MarkLive'
    BY <1>0, <1>9, <2>2 DEF Settled, MarkInv
  <2> QED
    BY <2>1, <2>3, <2>4, <2>5, QuietRest
<1>10. CASE NotDue
  <2>1. UNCHANGED <<transcript, ran>> /\ mark' \in {mark, NoMark}
    BY <1>10 DEF NotDue
  <2>2. /\ Steps' = Steps /\ Blocks' = Blocks /\ Answered' = Answered /\ Unanswered' = Unanswered
        /\ MarkLive' => MarkLive /\ mark' = mark
    BY <2>1, QuietStep
  <2>3. SettledInv'
    BY <1>0, <1>10, <2>2 DEF NotDue, SettledInv
  <2>4. WindowInv'
    BY <1>0, <1>10, <2>2 DEF NotDue, WindowInv, Here
  <2>5. pc' \in {"settle", "enter", "exec"} => ~MarkLive'
    BY <1>0, <1>10, <2>2 DEF NotDue, MarkInv
  <2> QED
    BY <2>1, <2>3, <2>4, <2>5, QuietRest
<1>11. CASE CallCeases
  <2>1. UNCHANGED <<transcript, ran>> /\ mark' \in {mark, NoMark}
    BY <1>11 DEF CallCeases
  <2>2. /\ Steps' = Steps /\ Blocks' = Blocks /\ Answered' = Answered /\ Unanswered' = Unanswered
        /\ MarkLive' => MarkLive /\ mark' = mark
    BY <2>1, QuietStep
  <2>3. SettledInv'
    BY <1>0, <1>11, <2>2 DEF CallCeases, SettledInv
  <2>4. WindowInv'
    BY <1>0, <1>11, <2>2 DEF CallCeases, WindowInv, Here
  <2>5. pc' \in {"settle", "enter", "exec"} => ~MarkLive'
    BY <1>0, <1>11, <2>2 DEF CallCeases, MarkInv
  <2> QED
    BY <2>1, <2>3, <2>4, <2>5, QuietRest
<1>12. CASE SkipAnswered
  <2>1. UNCHANGED <<transcript, ran>> /\ mark' \in {mark, NoMark}
    BY <1>12 DEF SkipAnswered
  <2>2. /\ Steps' = Steps /\ Blocks' = Blocks /\ Answered' = Answered /\ Unanswered' = Unanswered
        /\ MarkLive' => MarkLive /\ mark' = mark
    BY <2>1, QuietStep
  <2>3. SettledInv'
    BY <1>0, <1>12, <2>2 DEF SkipAnswered, SettledInv
  <2>4. WindowInv'
    <3>1. at \in Nat /\ Blocks \in Nat
      BY <1>12, LastFacts DEF WindowTypeOK, CallsInv, PairInv, SettledInv, SkipAnswered
    <3> QED
      BY <1>0, <1>12, <2>2, <3>1 DEF SkipAnswered, WindowInv, Here
  <2>5. pc' \in {"settle", "enter", "exec"} => ~MarkLive'
    BY <1>0, <1>12, <2>2 DEF SkipAnswered, MarkInv
  <2> QED
    BY <2>1, <2>3, <2>4, <2>5, QuietRest
<1>13. CASE Decline
  <2>1. UNCHANGED <<transcript, ran>> /\ mark' \in {mark, NoMark}
    BY <1>13 DEF Decline
  <2>2. /\ Steps' = Steps /\ Blocks' = Blocks /\ Answered' = Answered /\ Unanswered' = Unanswered
        /\ MarkLive' => MarkLive /\ mark' = mark
    BY <2>1, QuietStep
  <2>3. SettledInv'
    BY <1>0, <1>13, <2>2 DEF Decline, InWindow, SettledInv
  <2>4. WindowInv'
    BY <1>0, <1>13, <2>2 DEF Decline, WindowInv, Here, InWindow
  <2>5. pc' \in {"settle", "enter", "exec"} => ~MarkLive'
    BY <1>0, <1>13, <2>2 DEF Decline, MarkInv
  <2> QED
    BY <2>1, <2>3, <2>4, <2>5, QuietRest
<1>14. CASE Pass
  <2>1. UNCHANGED <<transcript, ran>> /\ mark' \in {mark, NoMark}
    BY <1>14 DEF Pass, Lifted
  <2>2. /\ Steps' = Steps /\ Blocks' = Blocks /\ Answered' = Answered /\ Unanswered' = Unanswered
        /\ MarkLive' => MarkLive /\ mark' = mark
    BY <2>1, QuietStep
  <2>3. SettledInv'
    BY <1>0, <1>14, <2>2 DEF Pass, InWindow, SettledInv
  <2>4. WindowInv'
    BY <1>0, <1>14, <2>2 DEF Pass, WindowInv, Here, InWindow
  <2>5. pc' \in {"settle", "enter", "exec"} => ~MarkLive'
    <3>1. MarkLive => mark = Here
      BY <1>14, HereFacts, LiveFacts DEF Pass, InWindow
    <3>2. Here # NoMark
      BY <1>14, HereFacts DEF Pass, InWindow
    <3> QED
      BY <1>14, <2>2, <3>1, <3>2 DEF Pass, Lifted
  <2> QED
    BY <2>1, <2>3, <2>4, <2>5, QuietRest
<1>15. CASE Refuse
  <2>1. UNCHANGED <<transcript, ran>> /\ mark' \in {mark, NoMark}
    BY <1>15 DEF Refuse, Lifted
  <2>2. /\ Steps' = Steps /\ Blocks' = Blocks /\ Answered' = Answered /\ Unanswered' = Unanswered
        /\ MarkLive' => MarkLive /\ mark' = mark
    BY <2>1, QuietStep
  <2>3. SettledInv'
    BY <1>0, <1>15, <2>2 DEF Refuse, InWindow, SettledInv
  <2>4. WindowInv'
    BY <1>0, <1>15, <2>2 DEF Refuse, WindowInv, Here, InWindow
  <2>5. pc' \in {"settle", "enter", "exec"} => ~MarkLive'
    BY <1>0, <1>15, <2>2 DEF Refuse, MarkInv
  <2> QED
    BY <2>1, <2>3, <2>4, <2>5, QuietRest
<1>16. CASE ControlFelled
  <2>1. UNCHANGED <<transcript, ran>> /\ mark' \in {mark, NoMark}
    BY <1>16 DEF ControlFelled
  <2>2. /\ Steps' = Steps /\ Blocks' = Blocks /\ Answered' = Answered /\ Unanswered' = Unanswered
        /\ MarkLive' => MarkLive /\ mark' = mark
    BY <2>1, QuietStep
  <2>3. SettledInv'
    BY <1>0, <1>16, <2>2 DEF ControlFelled, InWindow, SettledInv
  <2>4. WindowInv'
    BY <1>0, <1>16, <2>2 DEF ControlFelled, WindowInv, Here, InWindow
  <2>5. pc' \in {"settle", "enter", "exec"} => ~MarkLive'
    BY <1>0, <1>16, <2>2 DEF ControlFelled, MarkInv
  <2> QED
    BY <2>1, <2>3, <2>4, <2>5, QuietRest
<1>17. CASE Returns
  <2>1. UNCHANGED <<transcript, ran>> /\ mark' \in {mark, NoMark}
    BY <1>17 DEF Returns
  <2>2. /\ Steps' = Steps /\ Blocks' = Blocks /\ Answered' = Answered /\ Unanswered' = Unanswered
        /\ MarkLive' => MarkLive /\ mark' = mark
    BY <2>1, QuietStep
  <2>3. SettledInv'
    BY <1>0, <1>17, <2>2 DEF Returns, SettledInv
  <2>4. WindowInv'
    BY <1>0, <1>17, <2>2 DEF Returns, WindowInv, Here
  <2>5. pc' \in {"settle", "enter", "exec"} => ~MarkLive'
    BY <1>0, <1>17, <2>2 DEF Returns, MarkInv
  <2> QED
    BY <2>1, <2>3, <2>4, <2>5, QuietRest
<1>18. CASE ToolFelled
  <2>1. UNCHANGED <<transcript, ran>> /\ mark' \in {mark, NoMark}
    BY <1>18 DEF ToolFelled
  <2>2. /\ Steps' = Steps /\ Blocks' = Blocks /\ Answered' = Answered /\ Unanswered' = Unanswered
        /\ MarkLive' => MarkLive /\ mark' = mark
    BY <2>1, QuietStep
  <2>3. SettledInv'
    BY <1>0, <1>18, <2>2 DEF ToolFelled, SettledInv
  <2>4. WindowInv'
    BY <1>0, <1>18, <2>2 DEF ToolFelled, WindowInv, Here
  <2>5. pc' \in {"settle", "enter", "exec"} => ~MarkLive'
    BY <1>0, <1>18, <2>2 DEF ToolFelled, MarkInv
  <2> QED
    BY <2>1, <2>3, <2>4, <2>5, QuietRest
<1>19. CASE Interrupted
  <2>1. UNCHANGED <<transcript, ran>> /\ mark' \in {mark, NoMark}
    BY <1>19 DEF Interrupted
  <2>2. /\ Steps' = Steps /\ Blocks' = Blocks /\ Answered' = Answered /\ Unanswered' = Unanswered
        /\ MarkLive' => MarkLive /\ mark' = mark
    BY <2>1, QuietStep
  <2>3. SettledInv'
    BY <1>0, <1>19, <2>2 DEF Interrupted, SettledInv
  <2>4. WindowInv'
    BY <1>0, <1>19, <2>2 DEF Interrupted, WindowInv, Here
  <2>5. pc' \in {"settle", "enter", "exec"} => ~MarkLive'
    BY <1>0, <1>19, <2>2 DEF Interrupted, MarkInv
  <2> QED
    BY <2>1, <2>3, <2>4, <2>5, QuietRest
<1>20. CASE WindowStopped
  <2>1. UNCHANGED <<transcript, ran>> /\ mark' \in {mark, NoMark}
    BY <1>20 DEF WindowStopped
  <2>2. /\ Steps' = Steps /\ Blocks' = Blocks /\ Answered' = Answered /\ Unanswered' = Unanswered
        /\ MarkLive' => MarkLive /\ mark' = mark
    BY <2>1, QuietStep
  <2>3. SettledInv'
    BY <1>0, <1>20, <2>2 DEF WindowStopped, SettledInv
  <2>4. WindowInv'
    BY <1>0, <1>20, <2>2 DEF WindowStopped, WindowInv, Here
  <2>5. pc' \in {"settle", "enter", "exec"} => ~MarkLive'
    BY <1>0, <1>20, <2>2 DEF WindowStopped, MarkInv
  <2> QED
    BY <2>1, <2>3, <2>4, <2>5, QuietRest
<1>21. CASE WindowDone
  <2>1. UNCHANGED <<transcript, ran>> /\ mark' \in {mark, NoMark}
    BY <1>21 DEF WindowDone
  <2>2. /\ Steps' = Steps /\ Blocks' = Blocks /\ Answered' = Answered /\ Unanswered' = Unanswered
        /\ MarkLive' => MarkLive /\ mark' = mark
    BY <2>1, QuietStep
  <2>3. SettledInv'
    <3>1. Steps > 0
      BY <1>0, <1>21 DEF SettledInv, WindowDone
    <3>2. Open = {<<Steps, i>> : i \in 1..Blocks} /\ Blocks \in 0..MaxBlocks
      BY <3>1, LastFacts DEF CallsInv, PairInv
    <3>3. at \in Nat
      BY DEF WindowTypeOK
    <3>4. Unsettled = {}
      BY <1>0, <1>21, <3>2, <3>3 DEF WindowDone, WindowInv, Unsettled
    <3>5. Unanswered = {}
      BY <3>4, NoneUnsettled
    <3> QED
      BY <1>0, <1>21, <2>2, <3>5 DEF WindowDone, SettledInv
  <2>4. WindowInv'
    BY <1>0, <1>21, <2>2 DEF WindowDone, WindowInv, Here
  <2>5. pc' \in {"settle", "enter", "exec"} => ~MarkLive'
    BY <1>0, <1>21, <2>2 DEF WindowDone, MarkInv
  <2> QED
    BY <2>1, <2>3, <2>4, <2>5, QuietRest
<1>22. CASE Baton
  <2>1. UNCHANGED <<transcript, ran>> /\ mark' \in {mark, NoMark}
    BY <1>22 DEF Baton
  <2>2. /\ Steps' = Steps /\ Blocks' = Blocks /\ Answered' = Answered /\ Unanswered' = Unanswered
        /\ MarkLive' => MarkLive /\ mark' = mark
    BY <2>1, QuietStep
  <2>3. SettledInv'
    BY <1>0, <1>22, <2>2 DEF Baton, SettledInv
  <2>4. WindowInv'
    BY <1>0, <1>22, <2>2 DEF Baton, WindowInv, Here
  <2>5. pc' \in {"settle", "enter", "exec"} => ~MarkLive'
    BY <1>0, <1>22, <2>2 DEF Baton, MarkInv
  <2> QED
    BY <2>1, <2>3, <2>4, <2>5, QuietRest
<1>23. CASE Loop
  <2>1. UNCHANGED <<transcript, ran>> /\ mark' \in {mark, NoMark}
    BY <1>23 DEF Loop
  <2>2. /\ Steps' = Steps /\ Blocks' = Blocks /\ Answered' = Answered /\ Unanswered' = Unanswered
        /\ MarkLive' => MarkLive /\ mark' = mark
    BY <2>1, QuietStep
  <2>3. SettledInv'
    BY <1>0, <1>23, <2>2 DEF Loop, SettledInv
  <2>4. WindowInv'
    BY <1>0, <1>23, <2>2 DEF Loop, WindowInv, Here
  <2>5. pc' \in {"settle", "enter", "exec"} => ~MarkLive'
    BY <1>0, <1>23, <2>2 DEF Loop, MarkInv
  <2> QED
    BY <2>1, <2>3, <2>4, <2>5, QuietRest
<1> QED
  BY <1>1, <1>2, <1>3, <1>4, <1>5, <1>6, <1>7, <1>8, <1>9, <1>10, <1>11, <1>12, <1>13, <1>14, <1>15, <1>16, <1>17, <1>18, <1>19, <1>20, <1>21, <1>22, <1>23

\* The results of a settlement are for the first open block.
LEMMA SettledFirst ==
  ASSUME WindowTypeOK, CallsInv, Unsettled # {}
  PROVE  /\ First(Unsettled) \in Unsettled
         /\ \A other \in Unsettled : First(Unsettled)[2] <= other[2]
<1>1. Steps > 0
  BY Numbered DEF Unsettled, Open
<1>2. Blocks \in 0..MaxBlocks /\ Open = {<<Steps, i>> : i \in 1..Blocks}
  BY <1>1, LastFacts DEF CallsInv, PairInv
<1>3. PICK m \in 1..(Blocks + 1) : AnsweredBelow(m)
  BY <1>1 DEF CallsInv, PairInv, PrefixInv
<1>4. \A id \in Unsettled : m <= id[2]
  BY <1>2, <1>3 DEF Unsettled, AnsweredBelow
<1>5. <<Steps, m>> \in Unsettled
  <2>1. m # Blocks + 1
    BY <1>2, <1>3 DEF Unsettled, AnsweredBelow
  <2> QED
    BY <1>2, <1>3, <2>1 DEF Unsettled, AnsweredBelow
<1>6. \E id \in Unsettled : \A other \in Unsettled : id[2] <= other[2]
  BY <1>4, <1>5
<1> QED
  BY <1>6 DEF First

LEMMA ResultSteps ==
  ASSUME WindowTypeOK, CallsInv, SettleCrash \/ Record \/ Interrupt
  PROVE  CallsInv'
<1> USE DEF window, counters
<1>0. SettledInv /\ WindowInv /\ MarkInv
  BY DEF CallsInv
<1>1. CASE SettleCrash
  <2>1. Unsettled # {}
    BY <1>1 DEF SettleCrash, CrashOrphan
  <2>2. /\ PairInv' /\ RanInv' /\ RanOnce' /\ ~MarkLive'
        /\ Answered' = Answered \cup {First(Unsettled)} /\ Steps' = Steps /\ Blocks' = Blocks
    BY <1>1, <2>1, SettledFirst, ResultStep DEF SettleCrash, Hows
  <2>3. SettledInv' /\ WindowInv' /\ MarkInv'
    BY <1>0, <1>1, <2>2 DEF SettleCrash, SettledInv, WindowInv, MarkInv
  <2> QED
    BY <2>2, <2>3 DEF CallsInv
<1>2. CASE Record
  <2>1. Here \notin skip /\ at <= Blocks
    BY <1>0, <1>2 DEF Record, WindowInv
  <2>2. /\ Here \in Unsettled /\ \A other \in Unsettled : Here[2] <= other[2]
        /\ at \in 1..Blocks /\ Blocks \in 0..MaxBlocks
    BY <1>2, <2>1, HereFacts DEF Record
  <2>3. outcome \in Hows /\ (outcome \in {"declined", "refused"} => ran[Here] = 0)
    BY <1>0, <1>2 DEF Record, WindowInv, WindowTypeOK
  <2>4. /\ PairInv' /\ RanInv' /\ RanOnce' /\ ~MarkLive'
        /\ Answered' = Answered \cup {Here} /\ Steps' = Steps /\ Blocks' = Blocks
    <3>1. transcript' = Append(transcript, Result(Here, outcome)) /\ UNCHANGED <<mark, ran>>
      BY <1>2 DEF Record
    <3>2. PICK id \in Unsettled, how \in Hows : id = Here /\ how = outcome
      BY <2>2, <2>3
    <3>3. /\ \A other \in Unsettled : id[2] <= other[2]
          /\ how \in {"declined", "refused"} => ran[id] = 0
          /\ transcript' = Append(transcript, Result(id, how))
      BY <2>2, <2>3, <3>1, <3>2
    <3>4. /\ PairInv' /\ RanInv' /\ RanOnce' /\ ~MarkLive'
          /\ Answered' = Answered \cup {id} /\ Steps' = Steps /\ Blocks' = Blocks
      BY <3>1, <3>3, ResultStep
    <3> QED
      BY <3>2, <3>4
  <2>5. SettledInv' /\ MarkInv'
    BY <1>0, <1>2, <2>4 DEF Record, SettledInv, MarkInv
  <2>6. WindowInv'
    BY <1>0, <1>2, <2>2, <2>4 DEF Record, WindowInv, Here
  <2> QED
    BY <2>4, <2>5, <2>6 DEF CallsInv
<1>3. CASE Interrupt
  <2>1. Unsettled # {}
    BY <1>3 DEF Interrupt
  <2>2. /\ PairInv' /\ RanInv' /\ RanOnce' /\ ~MarkLive'
        /\ Answered' = Answered \cup {First(Unsettled)} /\ Steps' = Steps /\ Blocks' = Blocks
    BY <1>3, <2>1, SettledFirst, ResultStep DEF Interrupt, Hows
  <2>3. SettledInv' /\ WindowInv' /\ MarkInv'
    BY <1>0, <1>3, <2>2 DEF Interrupt, SettledInv, WindowInv, MarkInv
  <2> QED
    BY <2>2, <2>3 DEF CallsInv
<1> QED
  BY <1>1, <1>2, <1>3

LEMMA HoldStep == ASSUME WindowTypeOK, CallsInv, Hold PROVE CallsInv'
<1> USE DEF window, counters
<1>0. SettledInv /\ WindowInv /\ MarkInv /\ RanOnce /\ RanInv
  BY DEF CallsInv
<1>1. /\ pc = "window" /\ at <= Blocks /\ Here \notin skip
      /\ pc' = "off" /\ mark' = Here
      /\ UNCHANGED <<transcript, at, skip, ran, drives>>
  BY DEF Hold, InWindow
<1>2. /\ Steps \in 1..MaxSteps /\ at \in 1..Blocks /\ Blocks \in 0..MaxBlocks
      /\ \A i \in 1..Blocks : <<Steps, i>> \in Answered <=> i < at
  BY <1>1, HereFacts
<1>3. /\ Steps' = Steps /\ Blocks' = Blocks /\ Answered' = Answered /\ Unanswered' = Unanswered
      /\ Open' = Open /\ At("result")' = At("result")
  BY <1>1, ReadSame DEF Read
<1>4. PairInv' /\ RanInv'
  BY <1>0, <1>1, <1>3, PairSame DEF CallsInv, RanInv
<1>5. SettledInv' /\ WindowInv'
  <2>1. drives # 0
    BY <1>0, <1>1 DEF SettledInv
  <2> QED
    BY <1>1, <2>1 DEF SettledInv, WindowInv
<1>6. MarkInv'
  BY <1>1, <1>2, <1>3 DEF MarkInv, Here
<1>7. RanOnce'
  <2>1. ASSUME NEW id \in AtOrAfter(Here) PROVE ran[id] = 0 /\ id \notin Answered
    <3>1. PICK i \in 1..MaxBlocks : id = <<Steps, i>> /\ at <= i
      BY <2>1 DEF AtOrAfter, Ids, Here
    <3>2. CASE i <= Blocks
      <4>1. i \in 1..Blocks
        BY <1>2, <3>1, <3>2
      <4>2. id \notin Answered
        BY <1>2, <3>1, <4>1
      <4>3. id \notin skip
        BY <1>0, <1>1, <4>2 DEF WindowInv
      <4>4. ran[id] = 0
        BY <1>0, <1>1, <1>2, <3>1, <4>1, <4>3 DEF WindowInv, Here
      <4> QED
        BY <4>2, <4>4
    <3>3. CASE i > Blocks
      <4>1. /\ LastStep \in At("assistant") /\ StepAt(LastStep) = Steps /\ Open = Emitted(LastStep)
            /\ Open = {<<Steps, j>> : j \in 1..Blocks}
        BY <1>2, LastFacts DEF CallsInv, PairInv
      <4>2. id \notin Open /\ id[1] = Steps /\ id \in Ids
        BY <1>2, <2>1, <3>1, <3>3, <4>1 DEF AtOrAfter
      <4>3. id \notin Answered
        BY <4>1, <4>2, AnsweredOpen DEF CallsInv, PairInv
      <4>4. ran[id] = 0
        BY <1>0, <4>2 DEF RanInv, WindowTypeOK
      <4> QED
        BY <4>3, <4>4
    <3> QED
      BY <1>2, <3>1, <3>2, <3>3
  <2>2. \A k \in At("result")' :
           transcript'[k].how \in {"declined", "refused"} => ran'[transcript'[k].id] = 0
    BY <1>0, <1>1, <1>3 DEF RanOnce
  <2>3. \A id \in AtOrAfter(mark)' : ran'[id] = 0 /\ id \notin Answered'
    BY <1>1, <1>3, <2>1 DEF AtOrAfter
  <2> QED
    BY <1>0, <1>1, <2>2, <2>3 DEF RanOnce
<1> QED
  BY <1>4, <1>5, <1>6, <1>7 DEF CallsInv

LEMMA EnterStep == ASSUME WindowTypeOK, CallsInv, Enter PROVE CallsInv'
<1> USE DEF window, counters
<1>0. SettledInv /\ WindowInv /\ MarkInv /\ RanOnce /\ RanInv
  BY DEF CallsInv
<1>1. /\ pc = "enter" /\ at <= Blocks /\ Here \notin skip /\ ran[Here] = 0 /\ ~MarkLive
      /\ pc' = "exec" /\ ran' = [ran EXCEPT ![Here] = @ + 1]
      /\ UNCHANGED <<transcript, mark, at, skip, drives>>
  BY <1>0 DEF Enter, WindowInv, MarkInv
<1>2. /\ Steps \in 1..MaxSteps /\ at \in 1..Blocks /\ Blocks \in 0..MaxBlocks
      /\ Here \in Ids /\ Here \in Unsettled
  BY <1>1, HereFacts
<1>3. /\ Steps' = Steps /\ Blocks' = Blocks /\ Answered' = Answered /\ Unanswered' = Unanswered
      /\ Open' = Open /\ At("result")' = At("result")
  BY <1>1, ReadSame DEF Read
<1>4. \A id \in Ids : ran'[id] = IF id = Here THEN 1 ELSE ran[id]
  BY <1>1, <1>2 DEF WindowTypeOK
<1>5. ~MarkLive'
  BY <1>1, <1>3 DEF MarkLive
<1>6. PairInv'
  BY <1>1, PairSame DEF CallsInv
<1>7. SettledInv' /\ MarkInv'
  BY <1>0, <1>1, <1>3, <1>5 DEF SettledInv, MarkInv
<1>8. WindowInv'
  <2>1. \A i \in 1..Blocks : at < i => ran'[<<Steps, i>>] = ran[<<Steps, i>>]
    BY <1>2, <1>4 DEF Here, Ids
  <2> QED
    BY <1>0, <1>1, <1>3, <2>1 DEF WindowInv, Here
<1>9. RanInv'
  <2>1. Here[1] = Steps /\ Here \in Open
    BY <1>2 DEF Here, Unsettled
  <2> QED
    BY <1>0, <1>2, <1>3, <1>4, <2>1 DEF RanInv
<1>10. RanOnce'
  <2>1. \A id \in Ids : ran'[id] <= 1
    BY <1>0, <1>4 DEF RanOnce
  <2>2. ASSUME NEW k \in At("result"), transcript[k].how \in {"declined", "refused"}
        PROVE  ran'[transcript[k].id] = 0
    <3>1. transcript[k].id \in Answered /\ transcript[k].id \in Ids
      BY Places, EntryKinds DEF Answered, AnsweredIn, At
    <3>2. transcript[k].id # Here
      BY <1>2, <3>1 DEF Unsettled
    <3> QED
      BY <1>0, <1>4, <2>2, <3>1, <3>2 DEF RanOnce
  <2> QED
    BY <1>1, <1>3, <1>5, <2>1, <2>2 DEF RanOnce
<1> QED
  BY <1>6, <1>7, <1>8, <1>9, <1>10 DEF CallsInv

LEMMA DeliverStep == ASSUME WindowTypeOK, CallsInv, Deliver PROVE CallsInv'
<1> USE DEF window, counters
<1>0. SettledInv /\ WindowInv /\ MarkInv /\ RanOnce /\ RanInv
  BY DEF CallsInv
<1>1. Unanswered = {} /\ pc' = "warrant" /\ UNCHANGED <<mark, ran, at, skip, drives>> /\ drives # 0
  BY <1>0 DEF Deliver, SettledInv
<1>2. CASE mail
  <2>1. User \in Entries /\ User.kind = "user" /\ transcript' = Append(transcript, User)
    BY <1>2 DEF Deliver, Entries, User
  <2>2. PairInv'
    BY <1>1, <2>1, PairMail DEF CallsInv
  <2>3. /\ Steps' = Steps /\ Blocks' = Blocks /\ Open' = Open /\ Answered' = Answered
        /\ At("result")' = At("result")
        /\ \A id : id \in Unanswered' <=> id \in Unanswered
    BY <2>1, Wrote, WroteBelow DEF CallsInv, PairInv
  <2>4. Unanswered' = {}
    BY <1>1, <2>3
  <2>5. ~MarkLive'
    BY <1>1, <2>3, NothingLive DEF MarkLive
  <2>6. SettledInv' /\ WindowInv' /\ MarkInv' /\ RanInv'
    BY <1>0, <1>1, <2>3, <2>4, <2>5 DEF SettledInv, WindowInv, MarkInv, RanInv
  <2>7. \A k \in At("result") : transcript'[k] = transcript[k]
    BY <2>1, Wrote, Places
  <2>8. RanOnce'
    BY <1>0, <1>1, <2>3, <2>5, <2>7 DEF RanOnce
  <2> QED
    BY <2>2, <2>6, <2>8 DEF CallsInv
<1>3. CASE ~mail
  <2>1. UNCHANGED <<transcript, ran>> /\ mark' \in {mark, NoMark}
    BY <1>1, <1>3 DEF Deliver
  <2>2. Unanswered' = Unanswered
    BY <2>1, QuietStep
  <2>3. SettledInv' /\ WindowInv' /\ pc' \notin {"settle", "enter", "exec"}
    BY <1>1, <2>2 DEF SettledInv, WindowInv
  <2> QED
    BY <2>1, <2>3, QuietRest
<1> QED
  BY <1>2, <1>3

LEMMA ModelStep == ASSUME WindowTypeOK, CallsInv, ModelCall PROVE CallsInv'
<1> USE DEF window, counters
<1>0. SettledInv /\ WindowInv /\ MarkInv /\ RanOnce /\ RanInv
  BY DEF CallsInv
<1>1. PICK n \in 0..MaxBlocks :
        transcript' = Append(transcript, Assistant(n)) /\ pc' = IF n = 0 THEN "off" ELSE "window"
  BY DEF ModelCall
<1>2. /\ Unanswered = {} /\ Steps < MaxSteps /\ drives # 0
      /\ at' = 1 /\ skip' = {} /\ UNCHANGED <<mark, ran, drives>>
  BY <1>0 DEF ModelCall, Due, SettledInv
<1>3. PICK new : new = Len(transcript) + 1
  OBVIOUS
<1>4. /\ Assistant(n) \in Entries /\ Assistant(n).kind = "assistant"
      /\ Steps' = Steps + 1 /\ Answered' = Answered /\ Blocks' = n
      /\ Open' = {<<Steps + 1, i>> : i \in 1..n}
  BY <1>1, <1>3, WroteAssistant DEF Assistant
<1>5. PairInv'
  BY <1>1, <1>2, PairStep DEF CallsInv
<1>6. Steps \in Nat
  BY Numbered
<1>7. ~MarkLive'
  <2>1. \A i \in 1..n : <<Steps + 1, i>> \in Ids
    BY <1>2, <1>6 DEF Ids
  <2>2. mark # NoMark => mark[1] # Steps + 1
    BY <1>0, <1>6 DEF MarkInv
  <2>3. mark \notin Open'
    BY <1>4, <2>1, <2>2
  <2> QED
    BY <1>2, <2>3 DEF MarkLive
<1>8. SettledInv'
  BY <1>1, <1>2, <1>4, <1>6 DEF SettledInv
<1>9. WindowInv'
  <2>1. \A i \in 1..n : <<Steps + 1, i>> \notin Answered
    BY <1>6, AnsweredFacts DEF CallsInv, PairInv
  <2>2. \A i \in 1..n : <<Steps + 1, i>> \in Ids /\ ran[<<Steps + 1, i>>] = 0
    <3>1. ASSUME NEW i \in 1..n PROVE <<Steps + 1, i>> \in Ids
      BY <1>2, <1>6 DEF Ids
    <3>2. ASSUME NEW id \in Ids, id[1] = Steps + 1 PROVE ran[id] = 0
      <4>1. ran[id] \in Nat
        BY DEF WindowTypeOK
      <4> QED
        BY <1>0, <1>6, <3>2, <4>1 DEF RanInv
    <3> QED
      BY <3>1, <3>2
  <2> QED
    BY <1>1, <1>2, <1>4, <2>1, <2>2 DEF WindowInv, Here
<1>10. MarkInv' /\ RanInv'
  BY <1>0, <1>1, <1>2, <1>4, <1>6, <1>7 DEF MarkInv, RanInv
<1>11. RanOnce'
  <2>1. At("result")' = At("result") /\ \A k \in At("result") : transcript'[k] = transcript[k]
    BY <1>1, <1>4, Wrote, Places
  <2> QED
    BY <1>0, <1>2, <1>7, <2>1 DEF RanOnce
<1> QED
  BY <1>5, <1>8, <1>9, <1>10, <1>11 DEF CallsInv

\* Every action keeps the types.
LEMMA TypeStep == ASSUME WindowTypeOK, CallsInv, WindowNext PROVE WindowTypeOK'
<1> USE DEF window, counters
<1>0. /\ exchange \in BOOLEAN /\ mail \in BOOLEAN /\ resumed \in BOOLEAN /\ stop \in BOOLEAN
      /\ mails \in 0..MaxMail /\ drives \in 0..MaxDrives /\ faults \in 0..MaxFaults /\ stops \in 0..MaxStops
  BY DEF WindowTypeOK
<1>1. CASE Prompt \/ Drive \/ Mail \/ Sigterm \/ Die \/ Unmarked \/ StaleMark \/ Settled \/ NotDue
  <2>1. CASE Prompt \/ Drive
    <3>1. /\ mails' \in 0..MaxMail /\ drives' \in 0..MaxDrives /\ faults' \in 0..MaxFaults /\ stops' \in 0..MaxStops
      BY <1>0, <2>1 DEF Prompt, Drive
    <3>2. exchange' \in BOOLEAN /\ mail' \in BOOLEAN /\ resumed' \in BOOLEAN /\ stop' \in BOOLEAN
      BY <1>0, <2>1 DEF Prompt, Drive
    <3>3. /\ UNCHANGED <<transcript, mark, at, skip, outcome, ran>>
          /\ pc' \in {pc, "off", "deliver", "boundary"}
      BY <2>1 DEF Prompt, Drive
    <3> QED
      BY <3>1, <3>2, <3>3 DEF WindowTypeOK
  <2>2. CASE Mail \/ Sigterm \/ Die
    <3>1. /\ mails' \in 0..MaxMail /\ drives' \in 0..MaxDrives /\ faults' \in 0..MaxFaults /\ stops' \in 0..MaxStops
      BY <1>0, <2>2 DEF Mail, Sigterm, Die
    <3>2. exchange' \in BOOLEAN /\ mail' \in BOOLEAN /\ resumed' \in BOOLEAN /\ stop' \in BOOLEAN
      BY <1>0, <2>2 DEF Mail, Sigterm, Die
    <3>3. /\ UNCHANGED <<transcript, mark, at, skip, outcome, ran>>
          /\ pc' \in {pc, "off", "deliver", "boundary"}
      BY <2>2 DEF Mail, Sigterm, Die
    <3> QED
      BY <3>1, <3>2, <3>3 DEF WindowTypeOK
  <2>3. CASE Unmarked \/ StaleMark \/ Settled \/ NotDue
    BY <2>3 DEF Unmarked, StaleMark, Settled, NotDue, WindowTypeOK
  <2> QED
    BY <1>1, <2>1, <2>2, <2>3
<1>2. CASE CallCeases \/ ControlFelled \/ Returns \/ ToolFelled \/ Interrupted \/ WindowStopped
           \/ WindowDone \/ Baton \/ Loop \/ Decline
  BY <1>2 DEF CallCeases, ControlFelled, InWindow, Returns, ToolFelled, Interrupted, WindowStopped,
        WindowDone, Baton, Loop, Decline, WindowTypeOK, Hows
<1>3. CASE Resume
  <2>1. Answered \subseteq Ids
    BY AnsweredFacts DEF CallsInv, PairInv
  <2> QED
    BY <1>3, <2>1 DEF Resume, WindowTypeOK
<1>4. CASE Deliver
  <2>1. User \in Entries
    BY DEF Entries, User
  <2>2. transcript' \in Seq(Entries)
    BY <1>4, <2>1 DEF Deliver, WindowTypeOK
  <2> QED
    BY <1>4, <2>2 DEF Deliver, WindowTypeOK
<1>5. CASE ModelCall
  <2>1. PICK n \in 0..MaxBlocks :
          transcript' = Append(transcript, Assistant(n)) /\ pc' = IF n = 0 THEN "off" ELSE "window"
    BY <1>5 DEF ModelCall
  <2>2. Assistant(n) \in Entries
    BY DEF Entries
  <2>3. transcript' \in Seq(Entries)
    BY <2>1, <2>2 DEF WindowTypeOK
  <2>4. pc' \in {"off", "window"} /\ at' = 1 /\ skip' = {} /\ resumed' = FALSE
    BY <1>5, <2>1 DEF ModelCall
  <2>5. UNCHANGED <<exchange, mail, mark, outcome, stop, ran, mails, drives, faults, stops>>
    BY <1>5 DEF ModelCall
  <2>6. at' \in 1..(MaxBlocks + 1) /\ skip' \subseteq Ids /\ resumed' \in BOOLEAN
    <3>1. MaxBlocks \in Nat
      OBVIOUS
    <3>2. at' \in 1..(MaxBlocks + 1)
      BY <2>4, <3>1
    <3> QED
      BY <2>4, <3>2
  <2> QED
    BY <1>0, <2>3, <2>4, <2>5, <2>6 DEF WindowTypeOK
<1>6. CASE SkipAnswered \/ Pass \/ Refuse \/ Hold
  <2>1. Blocks \in 0..MaxBlocks
    BY <1>6, LastFacts DEF SkipAnswered, Pass, Refuse, Hold, InWindow, CallsInv, PairInv, SettledInv
  <2>2. CASE SkipAnswered
    BY <2>1, <2>2 DEF SkipAnswered, WindowTypeOK
  <2>3. CASE Pass \/ Refuse
    BY <2>3 DEF Pass, Refuse, Lifted, InWindow, WindowTypeOK, Hows
  <2>4. CASE Hold
    <3>1. Here \in Ids
      BY <2>4, HereFacts DEF Hold, InWindow
    <3> QED
      BY <2>4, <3>1 DEF Hold, WindowTypeOK
  <2> QED
    BY <1>6, <2>2, <2>3, <2>4
<1>7. CASE Enter
  <2>1. Here \in Ids
    BY <1>7, HereFacts DEF Enter, CallsInv, WindowInv
  <2>2. ran' \in [Ids -> Nat]
    BY <1>7, <2>1 DEF Enter, WindowTypeOK
  <2> QED
    BY <1>7, <2>2 DEF Enter, WindowTypeOK
<1>8. CASE SettleCrash \/ Record \/ Interrupt
  <2>1. ASSUME NEW id \in Ids, NEW how \in Hows, transcript' = Append(transcript, Result(id, how))
        PROVE  transcript' \in Seq(Entries)
    <3>1. Result(id, how) \in Entries
      BY DEF Entries
    <3> QED
      BY <2>1, <3>1 DEF WindowTypeOK
  <2>2. Unsettled \subseteq Ids
    <3>1. SUFFICES ASSUME Steps > 0 PROVE Unsettled \subseteq Ids
      BY Numbered DEF Unsettled, Open
    <3>2. Steps \in 1..MaxSteps /\ Blocks \in 0..MaxBlocks /\ Open = {<<Steps, i>> : i \in 1..Blocks}
      BY <3>1, Numbered, LastFacts DEF CallsInv, PairInv, EntryInv
    <3> QED
      BY <3>2 DEF Unsettled, Ids
  <2>3. CASE SettleCrash
    <3>1. First(Unsettled) \in Ids
      BY <2>2, <2>3, SettledFirst DEF SettleCrash, CrashOrphan
    <3>2. transcript' \in Seq(Entries)
      BY <2>1, <2>3, <3>1 DEF SettleCrash, Hows
    <3> QED
      BY <2>3, <3>2 DEF SettleCrash, WindowTypeOK
  <2>4. CASE Interrupt
    <3>1. First(Unsettled) \in Ids
      BY <2>2, <2>4, SettledFirst DEF Interrupt
    <3>2. transcript' \in Seq(Entries)
      BY <2>1, <2>4, <3>1 DEF Interrupt, Hows
    <3> QED
      BY <2>4, <3>2 DEF Interrupt, WindowTypeOK
  <2>5. CASE Record
    <3>1. Here \in Ids /\ at \in 1..Blocks /\ Blocks \in 0..MaxBlocks
      BY <2>5, HereFacts DEF Record, CallsInv, WindowInv
    <3>2. outcome \in Hows
      BY DEF WindowTypeOK
    <3>3. transcript' \in Seq(Entries)
      BY <2>1, <2>5, <3>1, <3>2 DEF Record
    <3> QED
      BY <2>5, <3>1, <3>3 DEF Record, WindowTypeOK
  <2> QED
    BY <1>8, <2>3, <2>4, <2>5
<1> QED
  BY <1>1, <1>2, <1>3, <1>4, <1>5, <1>6, <1>7, <1>8 DEF WindowNext, Boundary, Window

LEMMA CallsStep ==
  ASSUME WindowTypeOK, CallsInv, [WindowNext]_windowVars
  PROVE  WindowTypeOK' /\ CallsInv'
<1>1. CASE WindowNext
  <2>1. WindowTypeOK'
    BY <1>1, TypeStep
  <2>2. CallsInv'
    BY <1>1, QuietSteps, ResultSteps, HoldStep, EnterStep, DeliverStep, ModelStep
       DEF WindowNext, Boundary, Window
  <2> QED
    BY <2>1, <2>2
<1>2. CASE UNCHANGED windowVars
  <2>1. /\ UNCHANGED <<transcript, ran, mark, pc, drives, at, skip, outcome>>
        /\ mark' \in {mark, NoMark}
    BY <1>2 DEF windowVars
  <2>2. /\ Steps' = Steps /\ Blocks' = Blocks /\ Answered' = Answered /\ Unanswered' = Unanswered
        /\ MarkLive' => MarkLive /\ mark' = mark
    BY <2>1, QuietStep
  <2>3. SettledInv' /\ WindowInv'
    BY <2>1, <2>2 DEF CallsInv, SettledInv, WindowInv, Here
  <2>4. pc' \in {"settle", "enter", "exec"} => ~MarkLive'
    BY <2>1, <2>2 DEF CallsInv, MarkInv
  <2>5. CallsInv'
    BY <2>1, <2>3, <2>4, QuietRest
  <2>6. WindowTypeOK'
    BY <1>2 DEF windowVars, WindowTypeOK
  <2> QED
    BY <2>5, <2>6
<1> QED
  BY <1>1, <1>2

LEMMA CallsStart == WindowInit => WindowTypeOK /\ CallsInv
<1> SUFFICES ASSUME WindowInit PROVE WindowTypeOK /\ CallsInv
  OBVIOUS
<1>1. /\ pc = "off" /\ transcript = <<>> /\ mark = NoMark /\ \A id \in Ids : ran[id] = 0
  BY DEF WindowInit
<1>2. \A kind : At(kind) = {}
  BY <1>1 DEF At
<1>3. WindowTypeOK
  <2>1. transcript \in Seq(Entries)
    BY <1>1
  <2>2. ran \in [Ids -> Nat]
    BY DEF WindowInit
  <2>3. at \in 1..(MaxBlocks + 1)
    BY DEF WindowInit
  <2>4. mails \in 0..MaxMail /\ drives \in 0..MaxDrives /\ faults \in 0..MaxFaults /\ stops \in 0..MaxStops
    BY DEF WindowInit
  <2>5. pc = "off" /\ mark = NoMark /\ skip = {} /\ outcome = "ran"
        /\ exchange = FALSE /\ mail = TRUE /\ resumed = FALSE /\ stop = FALSE
    BY DEF WindowInit
  <2> QED
    BY <2>1, <2>2, <2>3, <2>4, <2>5 DEF WindowTypeOK, Hows
<1>4. Steps = 0 /\ Open = {} /\ Answered = {}
  <2>1. Steps = 0
    BY <1>2, FS_EmptySet DEF Steps
  <2> QED
    BY <1>2, <2>1 DEF Open, Answered, AnsweredIn
<1>5. PairInv
  BY <1>2, <1>4 DEF PairInv, EntryInv, PrefixInv, AnsweredInPlace, AnsweredOnce
<1>6. SettledInv /\ WindowInv
  BY <1>1 DEF SettledInv, WindowInv
<1>7. MarkInv /\ RanInv /\ RanOnce
  BY <1>1, <1>2, <1>4 DEF MarkInv, MarkLive, RanInv, RanOnce
<1> QED
  BY <1>3, <1>5, <1>6, <1>7 DEF CallsInv

-----------------------------------------------------------------------------

\* The types and the invariant hold for ever.
LEMMA CallsAlways == WindowSpec => [](WindowTypeOK /\ CallsInv)
  BY CallsStart, CallsStep, PTL DEF WindowSpec

\* The type invariant, for any bounds: at and skip stay within the window,
\* and the mark and the results name calls that a step may have made.
THEOREM WindowTyping == WindowSpec => []WindowTypeOK
  BY CallsAlways, PTL

\* Every call is answered once, in its window and before the next turn, and
\* no drive composes a request with one open: settle, held::resume and the
\* window's own order (the run `driver` checks it on two steps of two calls).
THEOREM EveryCallAnsweredInPlace == WindowSpec => []PositionalPairing
<1>1. WindowTypeOK /\ CallsInv => PositionalPairing
  BY DEF CallsInv, PairInv, SettledInv, PositionalPairing
<1> QED
  BY <1>1, CallsAlways, PTL

\* No invocation enters the executor twice, none that was declined or refused
\* ever did, and nothing at or after a live hold mark has run, whatever is
\* held, resumed, stopped or killed in between.
THEOREM NoCallRunsTwice == WindowSpec => []RanOnce
<1>1. WindowTypeOK /\ CallsInv => RanOnce
  BY DEF CallsInv
<1> QED
  BY <1>1, CallsAlways, PTL

-----------------------------------------------------------------------------
(* Induction, for a set of numbers: by the well-foundedness of the subsets  *)
(* of a finite set, as in Context_proofs.                                   *)

HIDE BoundsAssumption

LEMMA CountingUp ==
    ASSUME NEW S, 0 \in S, \A n \in Nat : n \in S => n + 1 \in S
    PROVE  Nat \subseteq S
<1>1. SUFFICES ASSUME NEW n \in Nat, n \notin S PROVE FALSE OBVIOUS
<1>2. PICK N : N = (0 .. n) \ S OBVIOUS
<1>3. IsFiniteSet(N)
  <2>1. IsFiniteSet(0 .. n) BY FS_Interval
  <2> QED BY <2>1, <1>2, FS_Difference
<1>4. n \in N /\ N \subseteq Nat BY <1>1, <1>2
<1>5. PICK F : F = {{y \in N : y <= x} : x \in N} OBVIOUS
<1>6. F \subseteq SUBSET N /\ F # {} BY <1>4, <1>5
<1>7. PICK U \in F : \A V \in F : <<V, U>> \notin StrictSubsetOrdering(N)
  <2>1. IsWellFoundedOn(StrictSubsetOrdering(N), SUBSET N)
    BY <1>3, FS_StrictSubsetOrderingWellFounded, FS_FiniteSubsetsOfFinite
  <2> QED BY <1>6, <2>1, WFMin
<1>8. PICK x \in N : U = {y \in N : y <= x} BY <1>5, <1>7
<1>9. x \in Nat /\ x # 0 /\ x <= n BY <1>2, <1>8
<1>10. x - 1 \in Nat /\ (x - 1) + 1 = x /\ x - 1 <= n BY <1>9
<1>11. x - 1 \in N BY <1>2, <1>8, <1>10
<1>12. PICK V : V = {y \in N : y <= x - 1} OBVIOUS
<1>13. V \in F BY <1>5, <1>11, <1>12
<1>14. V \subseteq U
  <2>1. \A y \in N : y <= x - 1 => y <= x BY <1>4, <1>9
  <2> QED BY <2>1, <1>12, <1>8
<1>15. x \in U /\ x \notin V BY <1>8, <1>9, <1>12
<1>16. <<V, U>> \in StrictSubsetOrdering(N)
  <2>1. U \in SUBSET N /\ V \in SUBSET N BY <1>6, <1>7, <1>13
  <2> QED BY <1>14, <1>15, <2>1 DEF StrictSubsetOrdering
<1> QED BY <1>7, <1>13, <1>16

-----------------------------------------------------------------------------
(* Procedures.  What may be bound, and the roles that may be forked.        *)

BoundIn(c) == UNION {ToSet(Bindings[c][e]) : e \in DOMAIN Bindings[c]}
Defaults == {<<"dispatch", "compactor">>, <<"land_compaction">>, <<"stage_proposal">>,
             <<"deliver_result">>}
Bindable == Defaults \cup UNION {BoundIn(c) : c \in Configs}
Forked == {"worker"} \cup ByHand \cup {x[2] : x \in Bindable}
Circumstances == Lifecycle \cup {Asked} \cup {Returned(r) : r \in Forked}
Marked == Configs \cup {None}

AgentRecords ==
    [parent : Nat, role : Forked, event : Circumstances, wf : Marked, version : Nat,
     keeps : BOOLEAN, returned : BOOLEAN, answered : BOOLEAN]
HopRecords ==
    [at : {"off", "hop", "failed"}, wf : Marked, version : Nat, events : Seq(Circumstances),
     event : Circumstances, todo : Seq(Bindable), moved : BOOLEAN]

ProceduresTypeOK ==
    /\ tip \in Configs
    /\ agents \in Seq(AgentRecords) /\ hops \in Seq(HopRecords) /\ marks \in Seq(Marked)
    /\ Len(hops) = Len(agents) /\ Len(marks) = Len(agents)

\* An agent was forked by one before it; machinery only by what is none.
AgentOk(c) ==
    /\ agents[c].parent < c
    /\ agents[c].event \in Lifecycle =>
         LET p == agents[agents[c].parent]
         IN /\ agents[c].parent # 0
            /\ IsMachinery(agents[c].wf, agents[c].version, agents[c].role)
            /\ ~(p.event \in Lifecycle /\ p.wf = agents[c].wf /\ p.version = agents[c].version)

\* What a hop has resolved and what it has yet to run.
HopOk(a) ==
    LET h == hops[a]
    IN h.at = "hop" =>
         /\ h.wf \in Configs
         /\ \A i \in 1 .. Len(h.events) :
              h.events[i] \in Lifecycle => h.events[i] \in SelfFiring(h.version)
         /\ \A i \in 1 .. Len(h.todo) : h.event \in Lifecycle =>
              /\ h.event \in SelfFiring(h.version)
              /\ h.todo[i] \in ToSet(SelfFiringActions(h.wf, h.event))
              /\ ~IsMachinery(h.wf, h.version, agents[a].role)
         /\ ~h.moved => h.wf = Source(a) /\ Declares(h.wf, tip)

ProceduresInv ==
    /\ ProceduresTypeOK
    /\ \A c \in 1 .. Len(agents) : AgentOk(c)
    /\ \A a \in 1 .. Len(agents) : HopOk(a)

-----------------------------------------------------------------------------
(* The nearest mark on the descent.                                         *)

\* The recursive function of NearestMark, up to agent N.
IsNear(near, N, all, ms) ==
    near = [n \in 0 .. N |-> IF n = 0 THEN None
                             ELSE IF ms[n] # None THEN ms[n] ELSE near[all[n].parent]]

LEMMA NearSteps ==
    ASSUME NEW N \in Nat, NEW all, NEW ms, NEW near, IsNear(near, N, all, ms)
    PROVE  /\ near[0] = None
           /\ \A n \in 1 .. N : near[n] = IF ms[n] # None THEN ms[n] ELSE near[all[n].parent]
<1> DEFINE one == [n \in 0 .. N |-> IF n = 0 THEN None
                                    ELSE IF ms[n] # None THEN ms[n] ELSE near[all[n].parent]]
<1>1. near = one BY DEF IsNear
<1>2. one[0] = None OBVIOUS
<1>3. \A n \in 1 .. N : one[n] = IF ms[n] # None THEN ms[n] ELSE near[all[n].parent] OBVIOUS
<1> HIDE DEF one
<1> QED BY <1>1, <1>2, <1>3

LEMMA NearExists ==
    ASSUME NEW N \in Nat, NEW all, NEW ms,
           \A n \in 1 .. N : all[n].parent \in Nat /\ all[n].parent < n
    PROVE  \E near : IsNear(near, N, all, ms)
<1>1. PICK T : T = {n \in Nat : n <= N => \E near : IsNear(near, n, all, ms)} OBVIOUS
<1>2. 0 \in T
  <2>1. PICK f : f = [n \in 0 .. 0 |-> None] OBVIOUS
  <2>2. f = [n \in 0 .. 0 |-> IF n = 0 THEN None
                              ELSE IF ms[n] # None THEN ms[n] ELSE f[all[n].parent]]
    BY <2>1
  <2>3. IsNear(f, 0, all, ms) BY <2>2 DEF IsNear
  <2> QED BY <1>1, <2>3
<1>3. ASSUME NEW m \in Nat, m \in T PROVE m + 1 \in T
  <2>1. SUFFICES ASSUME m + 1 <= N PROVE \E near : IsNear(near, m + 1, all, ms)
    BY <1>1
  <2>2. PICK f : IsNear(f, m, all, ms)
    <3>1. m <= N BY <2>1
    <3> QED BY <1>1, <1>3, <3>1
  <2>3. PICK g : g = [n \in 0 .. m + 1 |-> IF n = 0 THEN None
                        ELSE IF ms[n] # None THEN ms[n] ELSE f[all[n].parent]]
    OBVIOUS
  <2>4. f[0] = None /\ \A n \in 1 .. m : f[n] = IF ms[n] # None THEN ms[n] ELSE f[all[n].parent]
    BY <2>2, NearSteps
  <2>5. \A n \in 0 .. m : g[n] = f[n]
    <3>1. TAKE n \in 0 .. m
    <3>2. n \in 0 .. m + 1 /\ (n # 0 => n \in 1 .. m) OBVIOUS
    <3>3. g[n] = IF n = 0 THEN None ELSE IF ms[n] # None THEN ms[n] ELSE f[all[n].parent]
      BY <2>3, <3>2
    <3> QED BY <2>4, <3>2, <3>3
  <2>6. \A n \in 0 .. m + 1 : n # 0 => all[n].parent \in 0 .. m
    <3>1. TAKE n \in 0 .. m + 1
    <3>2. SUFFICES ASSUME n # 0 PROVE all[n].parent \in 0 .. m OBVIOUS
    <3>3. n \in 1 .. N BY <2>1, <3>2
    <3>4. all[n].parent \in Nat /\ all[n].parent < n BY <3>3
    <3> QED BY <3>4
  <2>7. \A n \in 0 .. m + 1 :
          (IF n = 0 THEN None ELSE IF ms[n] # None THEN ms[n] ELSE f[all[n].parent])
            = (IF n = 0 THEN None ELSE IF ms[n] # None THEN ms[n] ELSE g[all[n].parent])
    BY <2>5, <2>6
  <2>8. [n \in 0 .. m + 1 |-> IF n = 0 THEN None
                              ELSE IF ms[n] # None THEN ms[n] ELSE f[all[n].parent]]
          = [n \in 0 .. m + 1 |-> IF n = 0 THEN None
                                  ELSE IF ms[n] # None THEN ms[n] ELSE g[all[n].parent]]
    BY <2>7
  <2>9. g = [n \in 0 .. m + 1 |-> IF n = 0 THEN None
                                  ELSE IF ms[n] # None THEN ms[n] ELSE g[all[n].parent]]
    BY ONLY <2>3, <2>8
  <2> QED BY <2>9 DEF IsNear
<1>4. Nat \subseteq T BY <1>2, <1>3, CountingUp
<1> QED BY <1>1, <1>4

LEMMA NearestMarkIs ==
    ASSUME ProceduresTypeOK, \A c \in 1 .. Len(agents) : AgentOk(c)
    PROVE  \E near : /\ IsNear(near, Len(agents), agents, marks)
                     /\ \A a : NearestMark(a) = near[a]
<1>1. Len(agents) \in Nat /\ \A n \in 1 .. Len(agents) : agents[n] \in AgentRecords
  BY DEF ProceduresTypeOK
<1>2. \A n \in 1 .. Len(agents) : agents[n].parent \in Nat /\ agents[n].parent < n
  BY <1>1 DEF AgentOk, AgentRecords
<1>3. \E near : IsNear(near, Len(agents), agents, marks) BY <1>1, <1>2, NearExists
<1>4. PICK near : near = CHOOSE f : IsNear(f, Len(agents), agents, marks) OBVIOUS
<1>5. \A a : NearestMark(a) = near[a] BY <1>4 DEF NearestMark, IsNear
<1>6. IsNear(near, Len(agents), agents, marks) BY <1>3, <1>4
<1> QED BY <1>5, <1>6

\* The nearest mark is one of the marks, or none.
LEMMA SourceIsAConfig ==
    ASSUME ProceduresTypeOK, \A c \in 1 .. Len(agents) : AgentOk(c), NEW a \in 1 .. Len(agents)
    PROVE  Source(a) \in Configs
<1>1. PICK near : /\ IsNear(near, Len(agents), agents, marks)
                  /\ \A b : NearestMark(b) = near[b]
  BY NearestMarkIs
<1>2. Len(agents) \in Nat /\ (\A n \in 1 .. Len(agents) : agents[n] \in AgentRecords)
      /\ (\A n \in 1 .. Len(agents) : marks[n] \in Marked) /\ tip \in Configs
  BY DEF ProceduresTypeOK
<1>3. near[0] = None /\ \A n \in 1 .. Len(agents) :
        near[n] = IF marks[n] # None THEN marks[n] ELSE near[agents[n].parent]
  BY <1>1, <1>2, NearSteps
<1>4. PICK T : T = {n \in Nat : \A m \in 0 .. Len(agents) : m <= n => near[m] \in Marked}
  OBVIOUS
<1>5. 0 \in T BY <1>3, <1>4 DEF Marked
<1>6. ASSUME NEW n \in Nat, n \in T PROVE n + 1 \in T
  <2>1. ASSUME NEW m \in 0 .. Len(agents), m <= n + 1 PROVE near[m] \in Marked
    <3>1. CASE m <= n BY <1>4, <1>6, <3>1
    <3>2. CASE ~(m <= n)
      <4>1. m = n + 1 /\ m \in 1 .. Len(agents) BY <1>2, <2>1, <3>2
      <4>2. agents[m].parent \in Nat /\ agents[m].parent < m
        BY <1>2, <4>1 DEF AgentRecords, AgentOk
      <4>3. agents[m].parent \in 0 .. Len(agents) /\ agents[m].parent <= n
        BY <1>2, <4>1, <4>2
      <4>4. near[agents[m].parent] \in Marked BY <1>4, <1>6, <4>3
      <4> QED BY <1>2, <1>3, <4>1, <4>4
    <3> QED BY <3>1, <3>2
  <2>2. n + 1 \in Nat OBVIOUS
  <2> QED BY ONLY <1>4, <2>1, <2>2
<1>7. Nat \subseteq T BY <1>5, <1>6, CountingUp
<1>8. a \in T /\ a \in 0 .. Len(agents) /\ a <= a BY <1>2, <1>7
<1>9. near[a] \in Marked BY <1>4, <1>8
<1> QED BY <1>1, <1>2, <1>9 DEF Source, Marked

\* Agents keep what they were forked as.
Kept ==
    /\ Len(agents') >= Len(agents)
    /\ \A c \in 1 .. Len(agents) :
         /\ agents'[c].parent = agents[c].parent /\ agents'[c].role = agents[c].role
         /\ agents'[c].event = agents[c].event /\ agents'[c].wf = agents[c].wf
         /\ agents'[c].version = agents[c].version

LEMMA SourceKept ==
    ASSUME ProceduresTypeOK, \A c \in 1 .. Len(agents) : AgentOk(c),
           ProceduresTypeOK', (\A c \in 1 .. Len(agents) : AgentOk(c))',
           Kept, tip' = tip, \A c \in 1 .. Len(agents) : marks'[c] = marks[c],
           NEW a \in 1 .. Len(agents)
    PROVE  Source(a)' = Source(a)
<1>1. PICK near : /\ IsNear(near, Len(agents), agents, marks)
                  /\ \A b : NearestMark(b) = near[b]
  BY NearestMarkIs
<1>2. PICK after : after = CHOOSE f : IsNear(f, Len(agents'), agents', marks') OBVIOUS
<1>3. /\ IsNear(after, Len(agents'), agents', marks')
      /\ \A b : NearestMark(b)' = after[b]
  <2>1. Len(agents') \in Nat /\ \A n \in 1 .. Len(agents') : agents'[n] \in AgentRecords
    BY DEF ProceduresTypeOK
  <2>2. \A n \in 1 .. Len(agents') : agents'[n].parent \in Nat /\ agents'[n].parent < n
    BY <2>1 DEF AgentOk, AgentRecords
  <2>3. \E f : IsNear(f, Len(agents'), agents', marks') BY <2>1, <2>2, NearExists
  <2>4. IsNear(after, Len(agents'), agents', marks') BY <1>2, <2>3
  <2>5. \A b : NearestMark(b)' = after[b] BY <1>2 DEF NearestMark, IsNear
  <2> QED BY <2>4, <2>5
<1>4. Len(agents) \in Nat /\ Len(agents') \in Nat /\ Len(agents') >= Len(agents)
      /\ (\A n \in 1 .. Len(agents) : agents[n] \in AgentRecords)
  BY DEF ProceduresTypeOK, Kept
<1>5. near[0] = None /\ \A n \in 1 .. Len(agents) :
        near[n] = IF marks[n] # None THEN marks[n] ELSE near[agents[n].parent]
  BY <1>1, <1>4, NearSteps
<1>6. after[0] = None /\ \A n \in 1 .. Len(agents') :
        after[n] = IF marks'[n] # None THEN marks'[n] ELSE after[agents'[n].parent]
  BY <1>3, <1>4, NearSteps
<1>7. PICK T : T = {n \in Nat : \A m \in 0 .. Len(agents) : m <= n => near[m] = after[m]}
  OBVIOUS
<1>8. 0 \in T BY <1>5, <1>6, <1>7
<1>9. ASSUME NEW n \in Nat, n \in T PROVE n + 1 \in T
  <2>1. ASSUME NEW m \in 0 .. Len(agents), m <= n + 1 PROVE near[m] = after[m]
    <3>1. CASE m <= n BY <1>7, <1>9, <3>1
    <3>2. CASE ~(m <= n)
      <4>1. m = n + 1 /\ m \in 1 .. Len(agents) /\ m \in 1 .. Len(agents')
        BY <1>4, <2>1, <3>2
      <4>2. agents[m].parent \in Nat /\ agents[m].parent < m
        BY <1>4, <4>1 DEF AgentRecords, AgentOk
      <4>3. agents[m].parent \in 0 .. Len(agents) /\ agents[m].parent <= n
        BY <1>4, <4>1, <4>2
      <4>4. near[agents[m].parent] = after[agents[m].parent] BY <1>7, <1>9, <4>3
      <4>5. marks'[m] = marks[m] /\ agents'[m].parent = agents[m].parent BY <4>1 DEF Kept
      <4>6. near[m] = IF marks[m] # None THEN marks[m] ELSE near[agents[m].parent]
        BY <1>5, <4>1
      <4>7. after[m] = IF marks'[m] # None THEN marks'[m] ELSE after[agents'[m].parent]
        BY <1>6, <4>1
      <4> QED BY <4>4, <4>5, <4>6, <4>7
    <3> QED BY <3>1, <3>2
  <2>2. n + 1 \in Nat OBVIOUS
  <2> QED BY ONLY <1>7, <2>1, <2>2
<1>10. Nat \subseteq T BY <1>8, <1>9, CountingUp
<1>11. a \in T /\ a \in 0 .. Len(agents) /\ a <= a BY <1>4, <1>10
<1>12. near[a] = after[a] BY <1>7, <1>11
<1>13. NearestMark(a)' = NearestMark(a) BY <1>1, <1>3, <1>12
<1> QED BY <1>13 DEF Source

-----------------------------------------------------------------------------
(* What may be bound, as sequences.                                         *)

LEMMA NamesAreForked ==
    ASSUME NEW s \in Seq(Bindable), NEW i \in 1 .. Len(s)
    PROVE  s[i][2] \in Forked
<1>1. s[i] \in Bindable OBVIOUS
<1> QED BY <1>1 DEF Forked

LEMMA ActionsAreBindable ==
    ASSUME BindingsAssumption, NEW wf \in Configs, NEW event
    PROVE  ActionsFor(wf, event) \in Seq(Bindable)
<1>1. CASE event \in DOMAIN Bindings[wf]
  <2>1. Bindings[wf][event] \in Seq(ToSet(Bindings[wf][event])) BY <1>1 DEF BindingsAssumption
  <2>2. ToSet(Bindings[wf][event]) \subseteq BoundIn(wf) BY <1>1 DEF BoundIn
  <2>4. BoundIn(wf) \subseteq Bindable BY DEF Bindable
  <2>3. Bindings[wf][event] \in Seq(Bindable) BY <2>1, <2>2, <2>4
  <2> QED BY <1>1, <2>3 DEF ActionsFor
<1>2. CASE event \notin DOMAIN Bindings[wf] BY <1>2 DEF ActionsFor
<1> QED BY <1>1, <1>2

LEMMA OneIsBindable ==
    ASSUME NEW x \in Bindable
    PROVE  <<x>> \in Seq(Bindable)
OBVIOUS

LEMMA DefaultsAreBindable ==
    /\ <<<<"dispatch", "compactor">>>> \in Seq(Bindable)
    /\ <<<<"land_compaction">>>> \in Seq(Bindable)
    /\ <<<<"stage_proposal">>>> \in Seq(Bindable)
    /\ <<<<"deliver_result">>>> \in Seq(Bindable)
<1>1. <<"dispatch", "compactor">> \in Defaults BY Zenon DEF Defaults
<1>2. <<"land_compaction">> \in Defaults BY Zenon DEF Defaults
<1>3. <<"stage_proposal">> \in Defaults BY Zenon DEF Defaults
<1>4. <<"deliver_result">> \in Defaults BY Zenon DEF Defaults
<1>5. \A x \in Defaults : x \in Bindable BY DEF Bindable
<1>6. \A x \in Defaults : <<x>> \in Seq(Bindable) BY <1>5, OneIsBindable
<1> QED BY <1>1, <1>2, <1>3, <1>4, <1>6

LEMMA FlushIsBindable ==
    ASSUME BindingsAssumption, NEW wf \in Configs, NEW event
    PROVE  SelfFiringActions(wf, event) \in Seq(Bindable)
<1>1. ActionsFor(wf, event) \in Seq(Bindable) BY ActionsAreBindable
<1>2. <<<<"dispatch", "compactor">>>> \in Seq(Bindable) BY DefaultsAreBindable
<1> QED BY <1>1, <1>2 DEF SelfFiringActions

LEMMA ReturnIsBindable ==
    ASSUME BindingsAssumption, NEW wf \in Configs, NEW role
    PROVE  ChildActions(wf, role) \in Seq(Bindable)
<1>1. ActionsFor(wf, Returned(role)) \in Seq(Bindable) BY ActionsAreBindable
<1> QED BY <1>1, DefaultsAreBindable DEF ChildActions

LEMMA ElementsAre ==
    ASSUME NEW S, NEW s \in Seq(S), NEW i \in 1 .. Len(s)
    PROVE  s[i] \in ToSet(s)
BY DEF ToSet

\* What is bound to a circumstance of the branch itself makes machinery.
LEMMA ForksMachinery ==
    ASSUME NEW wf, NEW version, NEW event \in SelfFiring(version),
           NEW x \in ToSet(SelfFiringActions(wf, event)), x[1] = "dispatch"
    PROVE  IsMachinery(wf, version, x[2])
<1>1. x[2] \in Named(SelfFiringActions(wf, event)) BY DEF Named
<1> QED BY <1>1 DEF IsMachinery, Machinery

\* The children that return at once, one event for each role.
LEMMA SetToSeqIs ==
    ASSUME NEW S, IsFiniteSet(S)
    PROVE  SetToSeq(S) \in Seq(S)
<1>1. Cardinality(S) \in Nat /\ ExistsBijection(1 .. Cardinality(S), S) BY FS_CardinalityType
<1>2. PICK f : f \in Bijection(1 .. Cardinality(S), S) BY <1>1 DEF ExistsBijection
<1>3. f \in [1 .. Cardinality(S) -> S] /\ IsInjective(f)
  BY <1>2 DEF Bijection, Injection, IsInjective
<1>4. SetToSeq(S) \in [1 .. Cardinality(S) -> S] BY <1>3 DEF SetToSeq
<1> QED BY <1>1, <1>4

LEMMA ReturnsAreFinite ==
    ASSUME NEW n \in Nat, NEW P \in SUBSET (1 .. n), NEW role
    PROVE  IsFiniteSet({Returned(role[c]) : c \in P})
<1>1. IsFiniteSet(P)
  <2>1. IsFiniteSet(1 .. n) BY FS_Interval
  <2> QED BY <2>1, FS_Subset
<1>2. PICK R : R = {Returned(role[c]) : c \in P} OBVIOUS
<1>3. [c \in P |-> Returned(role[c])] \in Surjection(P, R)
  BY <1>2 DEF Surjection
<1>4. IsFiniteSet(R) BY <1>1, <1>3, FS_Surjection
<1> QED BY <1>2, <1>4

-----------------------------------------------------------------------------
(* What a step leaves alone.                                                *)

LEMMA AgentKept ==
    ASSUME ProceduresTypeOK, Kept, NEW c \in 1 .. Len(agents), AgentOk(c)
    PROVE  AgentOk(c)'
<1>1. agents[c] \in AgentRecords /\ Len(agents) \in Nat BY DEF ProceduresTypeOK
<1>2. agents[c].parent \in Nat BY <1>1 DEF AgentRecords
<1>3. /\ agents'[c].parent = agents[c].parent /\ agents'[c].role = agents[c].role
      /\ agents'[c].event = agents[c].event /\ agents'[c].wf = agents[c].wf
      /\ agents'[c].version = agents[c].version
  BY DEF Kept
<1>4. ASSUME agents[c].event \in Lifecycle
      PROVE  /\ agents[c].parent \in 1 .. Len(agents)
             /\ agents'[agents[c].parent].event = agents[agents[c].parent].event
             /\ agents'[agents[c].parent].wf = agents[agents[c].parent].wf
             /\ agents'[agents[c].parent].version = agents[agents[c].parent].version
  <2>1. agents[c].parent \in 1 .. Len(agents) BY <1>1, <1>2, <1>4 DEF AgentOk
  <2> QED BY <2>1 DEF Kept
<1> QED BY <1>3, <1>4 DEF AgentOk

LEMMA HopKept ==
    ASSUME ProceduresTypeOK, \A c \in 1 .. Len(agents) : AgentOk(c),
           ProceduresTypeOK', (\A c \in 1 .. Len(agents) : AgentOk(c))',
           Kept, tip' = tip, \A c \in 1 .. Len(agents) : marks'[c] = marks[c],
           NEW b \in 1 .. Len(agents), hops'[b] = hops[b], HopOk(b)
    PROVE  HopOk(b)'
<1>1. Source(b)' = Source(b) BY SourceKept
<1>2. agents'[b].role = agents[b].role BY DEF Kept
<1> QED BY <1>1, <1>2 DEF HopOk

LEMMA HopMoved ==
    ASSUME ProceduresTypeOK, Kept, NEW b \in 1 .. Len(agents),
           hops'[b] = [hops[b] EXCEPT !.moved = TRUE], HopOk(b)
    PROVE  HopOk(b)'
<1>1. hops[b] \in HopRecords BY DEF ProceduresTypeOK
<1>2. /\ hops'[b].at = hops[b].at /\ hops'[b].wf = hops[b].wf
      /\ hops'[b].version = hops[b].version /\ hops'[b].events = hops[b].events
      /\ hops'[b].event = hops[b].event /\ hops'[b].todo = hops[b].todo
      /\ hops'[b].moved = TRUE
  BY <1>1 DEF HopRecords
<1>3. agents'[b].role = agents[b].role BY DEF Kept
<1> QED BY <1>2, <1>3 DEF HopOk

LEMMA HopIdle ==
    ASSUME NEW b, hops'[b] = Idle \/ hops'[b].at = "failed"
    PROVE  HopOk(b)'
BY DEF HopOk, Idle

-----------------------------------------------------------------------------
(* Every step keeps the invariant.                                          *)

LEMMA HopSet ==
    ASSUME NEW s \in Seq(HopRecords), NEW a \in 1 .. Len(s), NEW new \in HopRecords,
           NEW t, t = [s EXCEPT ![a] = new]
    PROVE  /\ t \in Seq(HopRecords) /\ Len(t) = Len(s) /\ t[a] = new
           /\ \A b \in 1 .. Len(s) : b # a => t[b] = s[b]
OBVIOUS

LEMMA HopAdd ==
    ASSUME NEW s \in Seq(HopRecords), NEW t, t = Append(s, Idle)
    PROVE  /\ t \in Seq(HopRecords) /\ Len(t) = Len(s) + 1 /\ t[Len(t)] = Idle
           /\ \A b \in 1 .. Len(s) : t[b] = s[b]
<1>1. Idle \in HopRecords
  BY DEF Idle, HopRecords, Marked, Circumstances
<1> QED BY <1>1

\* A step of one agent's drive, and of at most one child it forks.
LEMMA StepKeeps ==
    ASSUME ProceduresInv, ProceduresTypeOK', Kept, tip' = tip,
           \A c \in 1 .. Len(agents) : marks'[c] = marks[c],
           NEW a \in 1 .. Len(agents),
           \A b \in 1 .. Len(agents) : b # a => hops'[b] = hops[b],
           \A c \in 1 .. Len(agents') : c > Len(agents) => AgentOk(c)' /\ hops'[c] = Idle,
           Source(a)' = Source(a) => HopOk(a)'
    PROVE  ProceduresInv' /\ Source(a)' = Source(a)
<1>1. Len(agents) \in Nat /\ Len(agents') \in Nat /\ Len(agents') >= Len(agents)
  BY DEF ProceduresTypeOK, ProceduresInv, Kept
<1>2. ProceduresTypeOK /\ (\A c \in 1 .. Len(agents) : AgentOk(c))
      /\ (\A c \in 1 .. Len(agents) : HopOk(c))
  BY DEF ProceduresInv
<1>3. \A c \in 1 .. Len(agents') : AgentOk(c)'
  <2>1. TAKE c \in 1 .. Len(agents')
  <2>2. CASE c \in 1 .. Len(agents) BY <1>2, <2>2, AgentKept
  <2>3. CASE c \notin 1 .. Len(agents)
    <3>1. c > Len(agents) BY <1>1, <2>3
    <3> QED BY <3>1
  <2> QED BY <2>2, <2>3
<1>4. (\A c \in 1 .. Len(agents) : AgentOk(c))' BY <1>3
<1>5. Source(a)' = Source(a) BY <1>2, <1>4, SourceKept
<1>6. \A b \in 1 .. Len(agents') : HopOk(b)'
  <2>1. TAKE b \in 1 .. Len(agents')
  <2>2. CASE b = a BY <1>5, <2>2
  <2>3. CASE b # a /\ b \in 1 .. Len(agents)
    <3>1. hops'[b] = hops[b] /\ HopOk(b) BY <1>2, <2>3
    <3> QED BY <1>2, <1>4, <2>3, <3>1, HopKept
  <2>4. CASE b \notin 1 .. Len(agents)
    <3>1. b > Len(agents) BY <1>1, <2>4
    <3>2. hops'[b] = Idle BY <3>1
    <3> QED BY <3>2, HopIdle
  <2> QED BY <2>2, <2>3, <2>4
<1>7. (\A b \in 1 .. Len(agents) : HopOk(b))' BY <1>6
<1> QED BY <1>4, <1>5, <1>7 DEF ProceduresInv

\* The drives of the others, and the agents, as they were.
LEMMA DriveKeeps ==
    ASSUME ProceduresInv, NEW a \in 1 .. Len(agents), NEW new \in HopRecords,
           hops' = [hops EXCEPT ![a] = new], UNCHANGED <<agents, marks, tip>>,
           Source(a)' = Source(a) => HopOk(a)'
    PROVE  ProceduresInv'
<1>1. hops \in Seq(HopRecords) /\ Len(hops) = Len(agents) BY DEF ProceduresInv, ProceduresTypeOK
<1>2. /\ hops' \in Seq(HopRecords) /\ Len(hops') = Len(hops)
      /\ \A b \in 1 .. Len(hops) : b # a => hops'[b] = hops[b]
  BY <1>1, HopSet
<1>3. ProceduresTypeOK' BY <1>1, <1>2 DEF ProceduresInv, ProceduresTypeOK
<1>4. Kept /\ Len(agents) \in Nat BY DEF Kept, ProceduresInv, ProceduresTypeOK
<1>5. \A c \in 1 .. Len(agents') : ~(c > Len(agents)) BY <1>4
<1> QED BY <1>1, <1>2, <1>3, <1>4, <1>5, StepKeeps

\* A hop whose event has more to run has it within what is bound.
LEMMA HopTail ==
    ASSUME NEW s, NEW S, s \in Seq(S), s # <<>>
    PROVE  /\ Tail(s) \in Seq(S) /\ Head(s) \in S /\ Head(s) = s[1] /\ 1 \in 1 .. Len(s)
           /\ Len(Tail(s)) = Len(s) - 1
           /\ \A i \in 1 .. Len(Tail(s)) : Tail(s)[i] = s[i + 1] /\ i + 1 \in 1 .. Len(s)
OBVIOUS

LEMMA FireKeeps ==
    ASSUME ConfigsAssumption, BindingsAssumption, ProceduresInv, NEW a \in Dispatched, Fire(a)
    PROVE  ProceduresInv'
<1>1. /\ a \in 1 .. Len(agents) /\ hops \in Seq(HopRecords) /\ Len(hops) = Len(agents)
      /\ hops[a] \in HopRecords /\ HopOk(a) /\ hops[a].at = "hop"
  BY DEF Dispatched, Fire, ProceduresInv, ProceduresTypeOK
<1>2. PICK h : h = hops[a] OBVIOUS
<1>3. PICK event : event = Head(h.events) OBVIOUS
<1>4. PICK todo : todo = IF event = WorkerFlush /\ ~MayBeDue(a) THEN <<>> ELSE Bound(a, event)
  OBVIOUS
<1>5. hops' = [hops EXCEPT ![a] = [h EXCEPT !.events = Tail(h.events), !.event = event,
                                            !.todo = todo]]
  BY <1>1, <1>2, <1>3, <1>4 DEF Fire, HopRecords
<1>6. h \in HopRecords /\ h.wf \in Configs /\ h.events \in Seq(Circumstances) /\ h.events # <<>>
  BY <1>1, <1>2 DEF HopOk, HopRecords, Fire
<1>7. /\ Tail(h.events) \in Seq(Circumstances) /\ event \in Circumstances /\ event = h.events[1]
      /\ 1 \in 1 .. Len(h.events)
      /\ \A i \in 1 .. Len(Tail(h.events)) :
           Tail(h.events)[i] = h.events[i + 1] /\ i + 1 \in 1 .. Len(h.events)
  BY <1>3, <1>6, HopTail
<1>8. ChildActions(h.wf, event[1]) \in Seq(Bindable) BY <1>6, ReturnIsBindable
<1>9. SelfFiringActions(h.wf, event) \in Seq(Bindable) BY <1>6, FlushIsBindable
<1>10. todo \in Seq(Bindable) /\ (event \in Lifecycle =>
         \/ todo = <<>>
         \/ /\ todo = SelfFiringActions(h.wf, event)
            /\ ~IsMachinery(h.wf, h.version, agents[a].role))
  BY <1>2, <1>4, <1>8, <1>9 DEF Bound
<1>11. PICK new : new = [h EXCEPT !.events = Tail(h.events), !.event = event, !.todo = todo]
  OBVIOUS
<1>12. /\ new \in HopRecords /\ new.at = h.at /\ new.wf = h.wf /\ new.version = h.version
       /\ new.moved = h.moved /\ new.events = Tail(h.events) /\ new.event = event
       /\ new.todo = todo
  BY <1>6, <1>7, <1>10, <1>11 DEF HopRecords
<1>13. hops' = [hops EXCEPT ![a] = new] BY <1>5, <1>11
<1>14. hops'[a] = new BY <1>1, <1>12, <1>13, HopSet
<1>15. agents'[a].role = agents[a].role /\ tip' = tip BY DEF Fire
<1>16. \A i \in 1 .. Len(new.events) :
         new.events[i] \in Lifecycle => new.events[i] \in SelfFiring(new.version)
  BY <1>1, <1>2, <1>7, <1>12 DEF HopOk
<1>17. \A i \in 1 .. Len(new.todo) : new.event \in Lifecycle =>
         /\ new.event \in SelfFiring(new.version)
         /\ new.todo[i] \in ToSet(SelfFiringActions(new.wf, new.event))
         /\ ~IsMachinery(new.wf, new.version, agents[a].role)
  <2>1. SUFFICES ASSUME NEW i \in 1 .. Len(todo), event \in Lifecycle
        PROVE  /\ event \in SelfFiring(h.version)
               /\ todo[i] \in ToSet(SelfFiringActions(h.wf, event))
               /\ ~IsMachinery(h.wf, h.version, agents[a].role)
    BY <1>12
  <2>2. todo # <<>> OBVIOUS
  <2>3. event \in SelfFiring(h.version) BY <1>1, <1>2, <1>7, <2>1 DEF HopOk
  <2>4. todo[i] \in ToSet(todo) BY <1>10, ElementsAre
  <2> QED BY <1>10, <2>1, <2>2, <2>3, <2>4
<1>18. ~new.moved => new.wf = Source(a) /\ Declares(new.wf, tip)
  BY <1>1, <1>2, <1>12 DEF HopOk
<1>19. Source(a)' = Source(a) => HopOk(a)'
  BY <1>6, <1>12, <1>14, <1>15, <1>16, <1>17, <1>18 DEF HopOk
<1>20. UNCHANGED <<agents, marks, tip>> BY DEF Fire
<1> QED BY <1>1, <1>12, <1>13, <1>19, <1>20, DriveKeeps

LEMMA RunToolsKeeps ==
    ASSUME ProceduresInv, NEW a \in Dispatched, RunTools(a)
    PROVE  ProceduresInv'
<1>1. /\ a \in 1 .. Len(agents) /\ hops \in Seq(HopRecords) /\ Len(hops) = Len(agents)
      /\ hops[a] \in HopRecords /\ HopOk(a) /\ hops[a].at = "hop" /\ hops[a].todo = <<>>
  BY DEF Dispatched, RunTools, ProceduresInv, ProceduresTypeOK
<1>2. PICK due \in BOOLEAN :
        hops' = [hops EXCEPT ![a].events = <<OnToolReturn>> \o IF due THEN <<WorkerFlush>> ELSE <<>>]
  BY DEF RunTools
<1>3. PICK s : s = <<OnToolReturn>> \o IF due THEN <<WorkerFlush>> ELSE <<>> OBVIOUS
<1>4. s \in Seq({OnToolReturn, WorkerFlush})
  <2>1. PICK T : T = {OnToolReturn, WorkerFlush} OBVIOUS
  <2>2. PICK x, y : x = OnToolReturn /\ y = WorkerFlush OBVIOUS
  <2>3. x \in T /\ y \in T /\ s = <<x>> \o (IF due THEN <<y>> ELSE <<>>) BY <1>3, <2>1, <2>2
  <2>4. <<x>> \in Seq(T) /\ <<y>> \in Seq(T) /\ <<>> \in Seq(T) BY <2>3
  <2>5. s \in Seq(T) BY <2>3, <2>4
  <2> QED BY <2>1, <2>5
<1>5. OnToolReturn \in Circumstances /\ WorkerFlush \in Circumstances
  BY DEF Circumstances, Lifecycle
<1>6. s \in Seq(Circumstances)
  <2>1. {OnToolReturn, WorkerFlush} \subseteq Circumstances BY <1>5
  <2> QED BY <1>4, <2>1
<1>7. \A v : OnToolReturn \in SelfFiring(v) /\ WorkerFlush \in SelfFiring(v) BY DEF SelfFiring
<1>8. \A i \in 1 .. Len(s) : \A v : s[i] \in SelfFiring(v)
  <2>1. \A i \in 1 .. Len(s) : s[i] \in {OnToolReturn, WorkerFlush} BY <1>4
  <2> QED BY <1>7, <2>1
<1>9. PICK new : new = [hops[a] EXCEPT !.events = s] OBVIOUS
<1>10. hops' = [hops EXCEPT ![a] = new] BY <1>1, <1>2, <1>3, <1>9 DEF HopRecords
<1>11. /\ new \in HopRecords /\ new.at = hops[a].at /\ new.wf = hops[a].wf
       /\ new.version = hops[a].version /\ new.moved = hops[a].moved /\ new.events = s
       /\ new.todo = <<>>
  BY <1>1, <1>6, <1>9 DEF HopRecords
<1>12. hops'[a] = new BY <1>1, <1>10, <1>11, HopSet
<1>13. UNCHANGED <<agents, marks, tip>> BY DEF RunTools
<1>14. Source(a)' = Source(a) => HopOk(a)'
  BY <1>1, <1>8, <1>11, <1>12, <1>13 DEF HopOk
<1> QED BY <1>1, <1>10, <1>11, <1>13, <1>14, DriveKeeps

LEMMA FinishKeeps ==
    ASSUME ProceduresInv, NEW a \in Dispatched, Finish(a)
    PROVE  ProceduresInv'
<1>1. /\ a \in 1 .. Len(agents) /\ hops \in Seq(HopRecords) /\ Len(hops) = Len(agents)
      /\ agents \in Seq(AgentRecords)
  BY DEF Dispatched, ProceduresInv, ProceduresTypeOK
<1>2. Idle \in HopRecords BY DEF Idle, HopRecords, Marked, Circumstances
<1>3. hops' = [hops EXCEPT ![a] = Idle] BY DEF Finish
<1>4. /\ hops' \in Seq(HopRecords) /\ Len(hops') = Len(hops) /\ hops'[a] = Idle
      /\ \A b \in 1 .. Len(hops) : b # a => hops'[b] = hops[b]
  BY <1>1, <1>2, <1>3, HopSet
<1>5. PICK r \in BOOLEAN : agents' = [agents EXCEPT ![a].returned = r] BY DEF Finish
<1>6. agents' \in Seq(AgentRecords) /\ Len(agents') = Len(agents) /\ Kept
  <2>0. agents[a] \in AgentRecords BY <1>1
  <2>1. [agents[a] EXCEPT !.returned = r] \in AgentRecords BY <2>0 DEF AgentRecords
  <2>2. agents' = [agents EXCEPT ![a] = [agents[a] EXCEPT !.returned = r]] BY <1>5
  <2>3. agents' \in Seq(AgentRecords) /\ Len(agents') = Len(agents) BY <1>1, <2>1, <2>2
  <2>4. \A c \in 1 .. Len(agents) :
          agents'[c] = agents[c] \/ agents'[c] = [agents[c] EXCEPT !.returned = r]
    BY <1>1, <2>2
  <2>5. \A c \in 1 .. Len(agents) : agents[c] \in AgentRecords BY <1>1
  <2>6. ASSUME NEW c \in 1 .. Len(agents)
        PROVE  /\ agents'[c].parent = agents[c].parent /\ agents'[c].role = agents[c].role
               /\ agents'[c].event = agents[c].event /\ agents'[c].wf = agents[c].wf
               /\ agents'[c].version = agents[c].version
    <3>1. agents[c] \in AgentRecords BY <2>5
    <3>2. CASE agents'[c] = agents[c] BY <3>2
    <3>3. CASE agents'[c] = [agents[c] EXCEPT !.returned = r] BY <3>1, <3>3 DEF AgentRecords
    <3> QED BY <2>4, <3>2, <3>3
  <2> QED BY <1>1, <2>3, <2>6 DEF Kept
<1>7. UNCHANGED <<marks, tip>> BY DEF Finish
<1>8. ProceduresTypeOK' BY <1>1, <1>4, <1>6, <1>7 DEF ProceduresInv, ProceduresTypeOK
<1>9. HopOk(a)' BY <1>4, HopIdle
<1>10. Len(agents) \in Nat /\ \A c \in 1 .. Len(agents') : ~(c > Len(agents)) BY <1>1, <1>6
<1> QED BY <1>1, <1>4, <1>6, <1>7, <1>8, <1>9, <1>10, StepKeeps

\* One action of the circumstance is done.
LEMMA DoneIs ==
    ASSUME NEW a \in 1 .. Len(agents), ProceduresInv, hops[a].at = "hop", hops[a].todo # <<>>,
           NEW new, new = [hops[a] EXCEPT !.todo = Tail(hops[a].todo)]
    PROVE  /\ new \in HopRecords /\ new.at = "hop" /\ new.wf = hops[a].wf
           /\ new.version = hops[a].version /\ new.moved = hops[a].moved
           /\ hops'[a] = new /\ Kept /\ tip' = tip /\ Source(a)' = Source(a) => HopOk(a)'
<1>1. hops[a] \in HopRecords /\ HopOk(a) BY DEF ProceduresInv, ProceduresTypeOK
<1>2. hops[a].todo \in Seq(Bindable) BY <1>1 DEF HopRecords
<1>3. /\ Tail(hops[a].todo) \in Seq(Bindable)
      /\ \A i \in 1 .. Len(Tail(hops[a].todo)) :
           Tail(hops[a].todo)[i] = hops[a].todo[i + 1] /\ i + 1 \in 1 .. Len(hops[a].todo)
  BY <1>2, HopTail
<1>4. /\ new \in HopRecords /\ new.at = "hop" /\ new.wf = hops[a].wf
      /\ new.version = hops[a].version /\ new.moved = hops[a].moved
      /\ new.events = hops[a].events /\ new.event = hops[a].event
      /\ new.todo = Tail(hops[a].todo)
  BY <1>1, <1>3 DEF HopRecords
<1>5. ASSUME hops'[a] = new, Kept, tip' = tip, Source(a)' = Source(a) PROVE HopOk(a)'
  <2>1. agents'[a].role = agents[a].role BY <1>5 DEF Kept
  <2>2. /\ new.wf \in Configs
        /\ \A i \in 1 .. Len(new.events) :
             new.events[i] \in Lifecycle => new.events[i] \in SelfFiring(new.version)
        /\ ~new.moved => new.wf = Source(a) /\ Declares(new.wf, tip)
    BY <1>1, <1>4 DEF HopOk
  <2>3. \A i \in 1 .. Len(new.todo) : new.event \in Lifecycle =>
          /\ new.event \in SelfFiring(new.version)
          /\ new.todo[i] \in ToSet(SelfFiringActions(new.wf, new.event))
          /\ ~IsMachinery(new.wf, new.version, agents[a].role)
    BY <1>1, <1>3, <1>4 DEF HopOk
  <2> QED BY <1>5, <2>1, <2>2, <2>3 DEF HopOk
<1> QED BY <1>4, <1>5

LEMMA DoneKeeps ==
    ASSUME ProceduresInv, NEW a \in 1 .. Len(agents), hops[a].at = "hop", hops[a].todo # <<>>,
           Done(a), UNCHANGED <<agents, marks, tip>>
    PROVE  ProceduresInv'
<1>1. hops \in Seq(HopRecords) /\ Len(hops) = Len(agents) /\ hops[a] \in HopRecords
  BY DEF ProceduresInv, ProceduresTypeOK
<1>2. PICK new : new = [hops[a] EXCEPT !.todo = Tail(hops[a].todo)] OBVIOUS
<1>3. hops' = [hops EXCEPT ![a] = new] BY <1>1, <1>2 DEF Done, HopRecords
<1>4. new \in HopRecords BY <1>2, DoneIs
<1>5. hops'[a] = new BY <1>1, <1>3, <1>4, HopSet
<1>6. Kept BY DEF Kept, ProceduresInv, ProceduresTypeOK
<1>7. Source(a)' = Source(a) => HopOk(a)' BY <1>2, <1>5, <1>6, DoneIs
<1> QED BY <1>3, <1>4, <1>7, DriveKeeps

\* A hop that ends where it cannot go on.
LEMMA FailedKeeps ==
    ASSUME ProceduresInv, NEW a \in 1 .. Len(agents),
           hops' = [hops EXCEPT ![a].at = "failed"], UNCHANGED <<agents, marks, tip>>
    PROVE  ProceduresInv'
<1>1. hops \in Seq(HopRecords) /\ Len(hops) = Len(agents) /\ hops[a] \in HopRecords
  BY DEF ProceduresInv, ProceduresTypeOK
<1>2. PICK new : new = [hops[a] EXCEPT !.at = "failed"] OBVIOUS
<1>3. hops' = [hops EXCEPT ![a] = new] BY <1>1, <1>2
<1>4. new \in HopRecords /\ new.at = "failed" BY <1>1, <1>2 DEF HopRecords
<1>5. hops'[a] = new BY <1>1, <1>3, <1>4, HopSet
<1>6. HopOk(a)' BY <1>4, <1>5, HopIdle
<1> QED BY <1>3, <1>4, <1>6, DriveKeeps

LEMMA MarkKeeps ==
    ASSUME ProceduresInv, NEW a \in Dispatched, Mark(a)
    PROVE  ProceduresInv'
<1>1. a \in 1 .. Len(agents) BY DEF Dispatched, ProceduresInv, ProceduresTypeOK
<1>2. hops[a].at = "hop" /\ hops[a].todo # <<>> /\ Done(a) /\ UNCHANGED <<agents, marks, tip>>
  BY DEF Mark, Acting
<1> QED BY <1>1, <1>2, DoneKeeps

LEMMA LandingKeeps ==
    ASSUME ProceduresInv, NEW a \in Dispatched, AtReturnOnly(a)
    PROVE  ProceduresInv'
<1>1. a \in 1 .. Len(agents) BY DEF Dispatched, ProceduresInv, ProceduresTypeOK
<1>2. hops[a].at = "hop" /\ hops[a].todo # <<>> /\ UNCHANGED <<agents, marks, tip>>
      /\ (Done(a) \/ hops' = [hops EXCEPT ![a].at = "failed"])
  BY DEF AtReturnOnly, Acting
<1> QED BY <1>1, <1>2, DoneKeeps, FailedKeeps

\* The fork of one child, by a binding or by the model.
LEMMA ForkKeeps ==
    ASSUME ProceduresInv, NEW a \in 1 .. Len(agents), NEW role \in Forked,
           NEW event \in Circumstances, NEW wf \in Marked, NEW version \in Nat,
           Mint(NewChild(a, role, event, wf, version)), tip' = tip,
           event \in Lifecycle => /\ IsMachinery(wf, version, role)
                                  /\ ~IsMachinery(wf, version, agents[a].role),
           NEW g \in Seq(HopRecords), Len(g) = Len(hops), hops' = Append(g, Idle),
           \A b \in 1 .. Len(agents) : b # a => g[b] = hops[b],
           hops'[a] = g[a] /\ Kept /\ Source(a)' = Source(a) => HopOk(a)'
    PROVE  ProceduresInv'
<1>1. /\ agents \in Seq(AgentRecords) /\ marks \in Seq(Marked) /\ Len(hops) = Len(agents)
      /\ Len(marks) = Len(agents) /\ Len(agents) \in Nat /\ tip \in Configs
  BY DEF ProceduresInv, ProceduresTypeOK
<1>2. PICK child : child = NewChild(a, role, event, wf, version) OBVIOUS
<1>3. /\ child \in AgentRecords /\ child.parent = a /\ child.role = role /\ child.event = event
      /\ child.wf = wf /\ child.version = version
  <2>1. PICK keeps : keeps = KeepsDialog(a, role) OBVIOUS
  <2>2. keeps \in BOOLEAN BY <2>1 DEF KeepsDialog, IsMachinery
  <2>3. child = [parent |-> a, role |-> role, event |-> event, wf |-> wf, version |-> version,
                 keeps |-> keeps, returned |-> FALSE, answered |-> FALSE]
    BY <1>2, <2>1 DEF NewChild
  <2>4. a \in Nat OBVIOUS
  <2> QED BY <2>2, <2>3, <2>4 DEF AgentRecords
<1>4. agents' = Append(agents, child) /\ marks' = Append(marks, None) BY <1>2 DEF Mint
<1>5. /\ agents' \in Seq(AgentRecords) /\ Len(agents') = Len(agents) + 1
      /\ agents'[Len(agents) + 1] = child
      /\ \A c \in 1 .. Len(agents) : agents'[c] = agents[c]
  BY <1>1, <1>3, <1>4
<1>6. /\ marks' \in Seq(Marked) /\ Len(marks') = Len(marks) + 1
      /\ \A c \in 1 .. Len(agents) : marks'[c] = marks[c]
  <2>1. None \in Marked BY DEF Marked
  <2>2. PICK none : none = None OBVIOUS
  <2>3. none \in Marked /\ marks' = Append(marks, none) BY <1>4, <2>1, <2>2
  <2>4. marks \in Seq(Marked) BY <1>1
  <2>5. /\ marks' \in Seq(Marked) /\ Len(marks') = Len(marks) + 1
        /\ \A c \in 1 .. Len(marks) : marks'[c] = marks[c]
    BY ONLY <2>3, <2>4
  <2> QED BY <1>1, <2>5
<1>7. /\ hops' \in Seq(HopRecords) /\ Len(hops') = Len(agents) + 1
      /\ hops'[Len(agents) + 1] = Idle /\ \A b \in 1 .. Len(agents) : hops'[b] = g[b]
  <2>1. PICK t : t = hops' OBVIOUS
  <2>2. /\ t \in Seq(HopRecords) /\ Len(t) = Len(g) + 1 /\ t[Len(t)] = Idle
        /\ \A b \in 1 .. Len(g) : t[b] = g[b]
    BY <2>1, HopAdd
  <2> QED BY <1>1, <2>1, <2>2
<1>8. ProceduresTypeOK' BY <1>1, <1>5, <1>6, <1>7 DEF ProceduresTypeOK
<1>9. Kept BY <1>1, <1>5 DEF Kept
<1>10. ASSUME NEW c \in 1 .. Len(agents'), c > Len(agents) PROVE AgentOk(c)' /\ hops'[c] = Idle
  <2>1. c = Len(agents) + 1
    <3>1. c \in 1 .. Len(agents) + 1 BY <1>5, <1>10
    <3> QED BY <1>1, <1>10, <3>1
  <2>2. agents'[c] = child /\ agents'[a] = agents[a] /\ a < c /\ a # 0 BY <1>1, <1>5, <2>1
  <2>3. AgentOk(a) BY DEF ProceduresInv
  <2>4. AgentOk(c)' BY <1>3, <2>2, <2>3 DEF AgentOk
  <2> QED BY <1>7, <2>1, <2>4
<1>11. \A b \in 1 .. Len(agents) : b # a => hops'[b] = hops[b] BY <1>7
<1>12. Source(a)' = Source(a) => HopOk(a)' BY <1>7, <1>9
<1> QED BY <1>6, <1>8, <1>9, <1>10, <1>11, <1>12, StepKeeps

LEMMA AskKeeps ==
    ASSUME ProceduresInv, NEW a \in Dispatched, NEW role \in ByHand, Ask(a, role)
    PROVE  ProceduresInv'
<1>1. /\ a \in 1 .. Len(agents) /\ hops \in Seq(HopRecords) /\ Len(hops) = Len(agents)
      /\ hops[a] \in HopRecords /\ HopOk(a)
  BY DEF Dispatched, ProceduresInv, ProceduresTypeOK
<1>2. role \in Forked /\ Asked \in Circumstances /\ Asked \notin Lifecycle
  BY DEF Forked, Circumstances, Asked, Lifecycle, UserMessage, WorkerFlush, BranchStopped,
         PreStep, PostStep, OnToolReturn
<1>3. hops[a].wf \in Marked /\ hops[a].version \in Nat BY <1>1 DEF HopRecords
<1>4. Mint(NewChild(a, role, Asked, hops[a].wf, hops[a].version)) /\ hops' = Append(hops, Idle)
      /\ tip' = tip
  BY DEF Ask
<1>5. ASSUME hops'[a] = hops[a], Kept, Source(a)' = Source(a) PROVE HopOk(a)'
  <2>1. agents'[a].role = agents[a].role BY <1>1, <1>5 DEF Kept
  <2> QED BY <1>1, <1>4, <1>5, <2>1 DEF HopOk
<1> QED BY <1>1, <1>2, <1>3, <1>4, <1>5, ForkKeeps

\* What a binding of a circumstance of the branch itself forks.
LEMMA BoundRole ==
    ASSUME ProceduresInv, NEW a \in 1 .. Len(agents), Acting(a)
    PROVE  /\ Action(a) = hops[a].todo[1] /\ Action(a)[2] \in Forked
           /\ hops[a].event \in Circumstances /\ hops[a].wf \in Marked /\ hops[a].version \in Nat
           /\ hops[a].event \in Lifecycle =>
                /\ hops[a].event \in SelfFiring(hops[a].version)
                /\ Action(a) \in ToSet(SelfFiringActions(hops[a].wf, hops[a].event))
                /\ ~IsMachinery(hops[a].wf, hops[a].version, agents[a].role)
<1>1. hops[a] \in HopRecords /\ HopOk(a) BY DEF ProceduresInv, ProceduresTypeOK
<1>2. hops[a].at = "hop" /\ hops[a].todo # <<>> /\ hops[a].todo \in Seq(Bindable)
  BY <1>1 DEF Acting, HopRecords
<1>3. Action(a) = hops[a].todo[1] /\ 1 \in 1 .. Len(hops[a].todo) BY <1>2, HopTail DEF Action
<1>4. Action(a)[2] \in Forked BY <1>2, <1>3, NamesAreForked
<1>5. hops[a].event \in Circumstances /\ hops[a].wf \in Marked /\ hops[a].version \in Nat
  BY <1>1 DEF HopRecords
<1> QED BY <1>1, <1>2, <1>3, <1>4, <1>5 DEF HopOk

LEMMA DispatchKeeps ==
    ASSUME ProceduresInv, NEW a \in Dispatched, Dispatch(a)
    PROVE  ProceduresInv'
<1>1. /\ a \in 1 .. Len(agents) /\ hops \in Seq(HopRecords) /\ Len(hops) = Len(agents)
      /\ hops[a] \in HopRecords
  BY DEF Dispatched, ProceduresInv, ProceduresTypeOK
<1>2. Acting(a) /\ Action(a)[1] = "dispatch" /\ tip' = tip /\ hops[a].at = "hop"
      /\ hops[a].todo # <<>>
  BY DEF Dispatch, Acting
<1>3. PICK role, event, wf, version : /\ role = Action(a)[2] /\ event = hops[a].event
                                      /\ wf = hops[a].wf /\ version = hops[a].version
  OBVIOUS
<1>4. \/ Done(a) /\ UNCHANGED <<agents, marks>>
      \/ hops' = [hops EXCEPT ![a].at = "failed"] /\ UNCHANGED <<agents, marks>>
      \/ /\ Mint(NewChild(a, role, event, wf, version))
         /\ hops' = Append([hops EXCEPT ![a].todo = Tail(@)], Idle)
  BY <1>3 DEF Dispatch
<1>5. CASE Done(a) /\ UNCHANGED <<agents, marks>> BY <1>1, <1>2, <1>5, DoneKeeps
<1>6. CASE hops' = [hops EXCEPT ![a].at = "failed"] /\ UNCHANGED <<agents, marks>>
  BY <1>1, <1>2, <1>6, FailedKeeps
<1>7. CASE /\ Mint(NewChild(a, role, event, wf, version))
           /\ hops' = Append([hops EXCEPT ![a].todo = Tail(@)], Idle)
  <2>1. PICK new : new = [hops[a] EXCEPT !.todo = Tail(hops[a].todo)] OBVIOUS
  <2>2. PICK g : g = [hops EXCEPT ![a] = new] OBVIOUS
  <2>3. hops' = Append(g, Idle) BY <1>1, <1>7, <2>1, <2>2 DEF HopRecords
  <2>4. /\ new \in HopRecords
        /\ hops'[a] = new /\ Kept /\ tip' = tip /\ Source(a)' = Source(a) => HopOk(a)'
    BY <1>1, <1>2, <2>1, DoneIs
  <2>5. /\ g \in Seq(HopRecords) /\ Len(g) = Len(hops) /\ g[a] = new
        /\ \A b \in 1 .. Len(hops) : b # a => g[b] = hops[b]
    BY <1>1, <2>2, <2>4, HopSet
  <2>6. /\ role \in Forked /\ event \in Circumstances /\ wf \in Marked /\ version \in Nat
        /\ event \in Lifecycle => /\ event \in SelfFiring(version)
                                  /\ Action(a) \in ToSet(SelfFiringActions(wf, event))
                                  /\ ~IsMachinery(wf, version, agents[a].role)
    BY <1>1, <1>2, <1>3, BoundRole
  <2>7. event \in Lifecycle => IsMachinery(wf, version, role)
    <3>1. SUFFICES ASSUME event \in Lifecycle PROVE IsMachinery(wf, version, role) OBVIOUS
    <3>2. event \in SelfFiring(version) /\ Action(a) \in ToSet(SelfFiringActions(wf, event))
      BY <2>6, <3>1
    <3>3. IsMachinery(wf, version, Action(a)[2]) BY <1>2, <3>2, ForksMachinery
    <3> QED BY <1>3, <3>3
  <2>8. hops'[a] = g[a] /\ Kept /\ Source(a)' = Source(a) => HopOk(a)' BY <1>2, <2>4, <2>5
  <2>9. \A b \in 1 .. Len(agents) : b # a => g[b] = hops[b] BY <1>1, <2>5
  <2> QED BY <1>1, <1>2, <1>7, <2>3, <2>5, <2>6, <2>7, <2>8, <2>9, ForkKeeps
<1> QED BY <1>4, <1>5, <1>6, <1>7

\* What a hop that begins will meet: only what its version fires.
Meets(version) == {e \in Circumstances : e \in Lifecycle => e \in SelfFiring(version)}

LEMMA ReturnsAreMet ==
    ASSUME NEW role \in Forked, NEW version
    PROVE  Returned(role) \in Meets(version)
<1>1. Returned(role) \in Circumstances BY DEF Circumstances
<1>2. Returned(role) \in Lifecycle => Returned(role) = OnToolReturn
  BY DEF Lifecycle, Returned, UserMessage, WorkerFlush, BranchStopped, PreStep, PostStep,
         OnToolReturn
<1>3. OnToolReturn \in SelfFiring(version) BY DEF SelfFiring
<1> QED BY <1>1, <1>2, <1>3 DEF Meets

LEMMA ConcatThree ==
    ASSUME NEW S, NEW r \in Seq(S), NEW u \in Seq(S), NEW w \in Seq(S)
    PROVE  r \o u \o w \in Seq(S)
OBVIOUS

LEMMA BeginKeeps ==
    ASSUME ConfigsAssumption, ProceduresInv, NEW a \in Dispatched, Begin(a)
    PROVE  ProceduresInv'
<1>1. /\ a \in 1 .. Len(agents) /\ hops \in Seq(HopRecords) /\ Len(hops) = Len(agents)
      /\ Dispatched = 1 .. Len(agents) /\ Len(agents) \in Nat /\ agents \in Seq(AgentRecords)
      /\ tip \in Configs /\ \A c \in 1 .. Len(agents) : agents[c] \in AgentRecords
  BY DEF Dispatched, ProceduresInv, ProceduresTypeOK
<1>2. PICK spoke \in BOOLEAN :
        hops' = [hops EXCEPT ![a] =
          [at |-> "hop", wf |-> Source(a), version |-> Version[tip],
           events |-> SetToSeq({Returned(agents[c].role) : c \in Pending(a)})
                        \o (IF spoke /\ FiresUserMessage(Version[tip]) THEN <<UserMessage>> ELSE <<>>)
                        \o <<PreStep, PostStep>>,
           event |-> Asked, todo |-> <<>>, moved |-> FALSE]]
  BY DEF Begin
<1>3. PICK version : version = Version[tip] OBVIOUS
<1>4. PICK returns : returns = {Returned(agents[c].role) : c \in Pending(a)} OBVIOUS
<1>5. PICK says : says = IF spoke /\ FiresUserMessage(version) THEN <<UserMessage>> ELSE <<>>
  OBVIOUS
<1>6. PICK events : events = SetToSeq(returns) \o says \o <<PreStep, PostStep>> OBVIOUS
<1>7. SetToSeq(returns) \in Seq(Meets(version))
  <2>1. Pending(a) \in SUBSET (1 .. Len(agents)) BY <1>1 DEF Pending
  <2>2. PICK role : role = [c \in 1 .. Len(agents) |-> agents[c].role] OBVIOUS
  <2>3. \A c \in Pending(a) : role[c] = agents[c].role BY <2>1, <2>2
  <2>4. returns = {Returned(role[c]) : c \in Pending(a)} BY <1>4, <2>3
  <2>5. IsFiniteSet({Returned(role[c]) : c \in Pending(a)}) BY <1>1, <2>1, ReturnsAreFinite
  <2>6. SetToSeq(returns) \in Seq(returns) BY <2>4, <2>5, SetToSeqIs
  <2>7. \A c \in Pending(a) : agents[c].role \in Forked BY <1>1, <2>1 DEF AgentRecords
  <2>8. returns \subseteq Meets(version) BY <1>4, <2>7, ReturnsAreMet
  <2> QED BY <2>6, <2>8
<1>8. says \in Seq(Meets(version))
  <2>1. UserMessage \in Circumstances BY DEF Circumstances, Lifecycle
  <2>2. FiresUserMessage(version) => UserMessage \in SelfFiring(version) BY DEF SelfFiring
  <2>3. FiresUserMessage(version) => UserMessage \in Meets(version) BY <2>1, <2>2 DEF Meets
  <2>4. \A x \in Meets(version) : <<x>> \in Seq(Meets(version)) OBVIOUS
  <2>5. <<>> \in Seq(Meets(version)) OBVIOUS
  <2> QED BY <1>5, <2>3, <2>4, <2>5
<1>9. <<PreStep, PostStep>> \in Seq(Meets(version))
  <2>1. PreStep \in Circumstances /\ PostStep \in Circumstances BY DEF Circumstances, Lifecycle
  <2>2. PreStep \in SelfFiring(version) /\ PostStep \in SelfFiring(version) BY DEF SelfFiring
  <2>3. PreStep \in Meets(version) /\ PostStep \in Meets(version) BY <2>1, <2>2 DEF Meets
  <2>4. \A x, y \in Meets(version) : <<x, y>> \in Seq(Meets(version)) OBVIOUS
  <2> QED BY <2>3, <2>4
<1>10. events \in Seq(Meets(version)) BY <1>6, <1>7, <1>8, <1>9, ConcatThree
<1>11. /\ events \in Seq(Circumstances)
       /\ \A i \in 1 .. Len(events) : events[i] \in Lifecycle => events[i] \in SelfFiring(version)
  <2>1. Meets(version) \subseteq Circumstances BY DEF Meets
  <2>2. \A i \in 1 .. Len(events) : events[i] \in Meets(version) BY <1>10
  <2>3. events \in Seq(Circumstances) BY <1>10, <2>1
  <2> QED BY <2>2, <2>3 DEF Meets
<1>12. PICK new : new = [at |-> "hop", wf |-> Source(a), version |-> version, events |-> events,
                         event |-> Asked, todo |-> <<>>, moved |-> FALSE]
  OBVIOUS
<1>13. hops' = [hops EXCEPT ![a] = new] BY <1>2, <1>3, <1>4, <1>5, <1>6, <1>12
<1>14. Source(a) \in Configs /\ version \in Nat
  BY <1>1, <1>3, SourceIsAConfig DEF ProceduresInv, ConfigsAssumption
<1>15. new \in HopRecords
  <2>1. Source(a) \in Marked /\ Asked \in Circumstances /\ <<>> \in Seq(Bindable)
    BY <1>14 DEF Marked, Circumstances
  <2> QED BY <1>11, <1>12, <1>14, <2>1 DEF HopRecords
<1>16. /\ hops' \in Seq(HopRecords) /\ Len(hops') = Len(hops) /\ hops'[a] = new
       /\ \A b \in 1 .. Len(hops) : b # a => hops'[b] = hops[b]
  BY <1>1, <1>13, <1>15, HopSet
<1>17. agents' = [c \in 1 .. Len(agents) |->
                    [agents[c] EXCEPT !.answered = @ \/ c \in Pending(a)]]
  BY <1>1 DEF Begin
<1>18. \A c \in 1 .. Len(agents) : /\ agents'[c] \in AgentRecords
         /\ agents'[c].parent = agents[c].parent /\ agents'[c].role = agents[c].role
         /\ agents'[c].event = agents[c].event /\ agents'[c].wf = agents[c].wf
         /\ agents'[c].version = agents[c].version
  <2>1. TAKE c \in 1 .. Len(agents)
  <2>2. PICK b : b = (agents[c].answered \/ c \in Pending(a)) OBVIOUS
  <2>3. agents[c] \in AgentRecords BY <1>1
  <2>4. b \in BOOLEAN BY <2>2
  <2>5. agents'[c] = [agents[c] EXCEPT !.answered = b] BY <1>17, <2>2, <2>3 DEF AgentRecords
  <2> QED BY <2>3, <2>4, <2>5 DEF AgentRecords
<1>19. agents' \in Seq(AgentRecords) /\ Len(agents') = Len(agents)
  <2>1. agents' = [c \in 1 .. Len(agents) |-> agents'[c]] BY <1>17
  <2>2. [c \in 1 .. Len(agents) |-> agents'[c]] \in Seq(AgentRecords) BY <1>1, <1>18
  <2>3. Len([c \in 1 .. Len(agents) |-> agents'[c]]) = Len(agents) BY <1>1, <2>2
  <2> QED BY ONLY <2>1, <2>2, <2>3
<1>20. Kept BY <1>1, <1>18, <1>19 DEF Kept
<1>21. UNCHANGED <<marks, tip>> BY DEF Begin
<1>22. ProceduresTypeOK' BY <1>1, <1>16, <1>19, <1>21 DEF ProceduresInv, ProceduresTypeOK
<1>23. Source(a)' = Source(a) => HopOk(a)'
  <2>1. SUFFICES ASSUME Source(a)' = Source(a) PROVE HopOk(a)' OBVIOUS
  <2>2. Declares(Source(a), tip) BY DEF Begin
  <2>3. /\ new.wf = Source(a) /\ new.version = version /\ new.events = events
        /\ new.todo = <<>> /\ new.moved = FALSE
    BY <1>12
  <2> QED BY <1>11, <1>14, <1>16, <1>21, <2>1, <2>2, <2>3 DEF HopOk
<1>24. \A c \in 1 .. Len(agents') : ~(c > Len(agents)) BY <1>1, <1>19
<1> QED BY <1>1, <1>16, <1>20, <1>21, <1>22, <1>23, <1>24, StepKeeps

-----------------------------------------------------------------------------
(* The operator's moves, and the first state.                               *)

LEMMA MoveKeeps ==
    ASSUME ProceduresInv, hops' = Moved, agents' = agents, tip' \in Configs,
           marks' \in Seq(Marked), Len(marks') = Len(marks)
    PROVE  ProceduresInv'
<1>1. hops \in Seq(HopRecords) /\ Len(hops) = Len(agents) /\ Len(agents) \in Nat
      /\ \A b \in 1 .. Len(agents) : hops[b] \in HopRecords
  BY DEF ProceduresInv, ProceduresTypeOK
<1>2. hops' = [b \in 1 .. Len(agents) |-> [hops[b] EXCEPT !.moved = TRUE]]
  BY <1>1 DEF Moved
<1>3. \A b \in 1 .. Len(agents) : [hops[b] EXCEPT !.moved = TRUE] \in HopRecords
  BY <1>1 DEF HopRecords
<1>4. hops' \in Seq(HopRecords) /\ Len(hops') = Len(agents)
      /\ \A b \in 1 .. Len(agents) : hops'[b] = [hops[b] EXCEPT !.moved = TRUE]
  BY <1>1, <1>2, <1>3
<1>5. ProceduresTypeOK' BY <1>4 DEF ProceduresInv, ProceduresTypeOK
<1>6. Kept BY <1>1 DEF Kept
<1>7. \A c \in 1 .. Len(agents) : AgentOk(c)' BY <1>6, AgentKept DEF ProceduresInv
<1>8. \A b \in 1 .. Len(agents) : HopOk(b)' BY <1>4, <1>6, HopMoved DEF ProceduresInv
<1>9. (\A c \in 1 .. Len(agents) : AgentOk(c))' /\ (\A b \in 1 .. Len(agents) : HopOk(b))'
  BY <1>7, <1>8
<1> QED BY <1>5, <1>9 DEF ProceduresInv

LEMMA ProceduresStart ==
    ASSUME ConfigsAssumption, ProceduresInit
    PROVE  ProceduresInv
<1>1. PICK root : root = [parent |-> 0, role |-> "worker", event |-> Asked, wf |-> None,
                          version |-> 0, keeps |-> FALSE, returned |-> FALSE, answered |-> FALSE]
  OBVIOUS
<1>2. agents = <<root>> /\ hops = <<Idle>> /\ tip \in Configs BY <1>1 DEF ProceduresInit
<1>3. PICK m \in Marked : marks = <<m>> BY DEF ProceduresInit, ConfigsAssumption, Marked
<1>4. root \in AgentRecords
  <2>1. "worker" \in Forked /\ Asked \in Circumstances /\ None \in Marked
    BY DEF Forked, Circumstances, Marked
  <2> QED BY <1>1, <2>1 DEF AgentRecords
<1>5. Idle \in HopRecords BY DEF Idle, HopRecords, Marked, Circumstances
<1>6. ProceduresTypeOK BY <1>2, <1>3, <1>4, <1>5 DEF ProceduresTypeOK
<1>7. Asked \notin Lifecycle
  BY DEF Asked, Lifecycle, UserMessage, WorkerFlush, BranchStopped, PreStep, PostStep,
         OnToolReturn
<1>8. AgentOk(1)
  <2>1. agents[1].parent = 0 /\ agents[1].event = Asked BY <1>1, <1>2
  <2> QED BY <1>7, <2>1 DEF AgentOk
<1>9. HopOk(1) BY <1>2 DEF HopOk, Idle
<1>10. Len(agents) = 1 BY <1>2
<1> QED BY <1>6, <1>8, <1>9, <1>10 DEF ProceduresInv

LEMMA ProceduresKeep ==
    ASSUME ConfigsAssumption, BindingsAssumption, ProceduresInv, [ProceduresNext]_procedureVars
    PROVE  ProceduresInv'
<1>1. /\ marks \in Seq(Marked) /\ Len(marks) = Len(agents) /\ Dispatched = 1 .. Len(agents)
      /\ tip \in Configs
  BY DEF ProceduresInv, ProceduresTypeOK, Dispatched
<1>2. ASSUME NEW a \in Dispatched, NEW c \in Configs, Switch(a, c) PROVE ProceduresInv'
  <2>1. c \in Marked /\ hops' = Moved /\ agents' = agents /\ tip' = tip
        /\ marks' = [marks EXCEPT ![a] = c]
    BY <1>2 DEF Switch, Marked
  <2>2. marks' \in Seq(Marked) /\ Len(marks') = Len(marks) BY <1>1, <2>1
  <2> QED BY <1>1, <2>1, <2>2, MoveKeeps
<1>3. ASSUME NEW a \in Dispatched, Clear(a) PROVE ProceduresInv'
  <2>1. None \in Marked /\ hops' = Moved /\ agents' = agents /\ tip' = tip
        /\ marks' = [marks EXCEPT ![a] = None]
    BY <1>3 DEF Clear, Marked
  <2>2. marks' \in Seq(Marked) /\ Len(marks') = Len(marks) BY <1>1, <2>1
  <2> QED BY <1>1, <2>1, <2>2, MoveKeeps
<1>4. ASSUME NEW c \in Configs, Advance(c) PROVE ProceduresInv'
  BY <1>1, <1>4, MoveKeeps DEF Advance
<1>5. CASE UNCHANGED procedureVars
  <2>1. UNCHANGED <<agents, hops, marks, tip>> BY <1>5 DEF procedureVars
  <2>2. Kept BY <1>1, <2>1 DEF Kept, ProceduresInv, ProceduresTypeOK
  <2>3. ProceduresTypeOK' BY <2>1 DEF ProceduresInv, ProceduresTypeOK
  <2>4. \A c \in 1 .. Len(agents) : AgentOk(c)' BY <2>1 DEF ProceduresInv, AgentOk
  <2>5. (\A c \in 1 .. Len(agents) : AgentOk(c))' BY <2>1, <2>4
  <2>6. \A b \in 1 .. Len(agents) : HopOk(b)'
    BY <2>1, <2>2, <2>3, <2>5, HopKept DEF ProceduresInv
  <2>7. (\A b \in 1 .. Len(agents) : HopOk(b))' BY <2>1, <2>6
  <2> QED BY <2>3, <2>5, <2>7 DEF ProceduresInv
<1> QED
  BY <1>2, <1>3, <1>4, <1>5, BeginKeeps, FireKeeps, RunToolsKeeps, FinishKeeps, DispatchKeeps,
     MarkKeeps, LandingKeeps, AskKeeps DEF ProceduresNext

-----------------------------------------------------------------------------
(* What the bindings of a workflow do.                                      *)

LEMMA NoneItsOwnSubject ==
    ASSUME ProceduresInv
    PROVE  NeverItsOwnSubject
<1>1. Dispatched = 1 .. Len(agents) BY DEF Dispatched, ProceduresInv, ProceduresTypeOK
<1> QED BY <1>1 DEF NeverItsOwnSubject, Procedure, AgentOk, ProceduresInv

\* One fork's child, and whether it keeps the dialog.
LEMMA MintSubject ==
    ASSUME ProceduresInv, NEW a \in 1 .. Len(agents), NEW role, NEW event,
           Mint(NewChild(a, role, event, hops[a].wf, hops[a].version)),
           \/ event = Asked
           \/ /\ Acting(a) /\ event = hops[a].event /\ role = Action(a)[2]
              /\ Action(a)[1] = "dispatch"
    PROVE  KeepsItsSubject
<1>1. agents \in Seq(AgentRecords) /\ Len(agents) \in Nat /\ Dispatched = 1 .. Len(agents)
  BY DEF ProceduresInv, ProceduresTypeOK, Dispatched
<1>2. PICK child : child = NewChild(a, role, event, hops[a].wf, hops[a].version) OBVIOUS
<1>3. agents' = Append(agents, child) BY <1>2 DEF Mint
<1>4. DOMAIN agents' = 1 .. Len(agents) + 1 /\ agents'[Len(agents) + 1] = child BY <1>1, <1>3
<1>5. \A c \in DOMAIN agents' \ Dispatched : agents'[c] = child
  <2>1. TAKE c \in DOMAIN agents' \ Dispatched
  <2>2. c = Len(agents) + 1 BY <1>1, <1>4
  <2> QED BY <1>4, <2>2
<1>6. /\ child.parent = a /\ child.event = event /\ child.wf = hops[a].wf
      /\ child.version = hops[a].version /\ child.keeps = KeepsDialog(a, role)
  BY <1>2 DEF NewChild
<1>7. ASSUME event \in Lifecycle, ~hops[a].moved, Version[hops[a].wf] = hops[a].version
      PROVE  KeepsDialog(a, role)
  <2>1. Asked \notin Lifecycle
    BY DEF Asked, Lifecycle, UserMessage, WorkerFlush, BranchStopped, PreStep, PostStep,
           OnToolReturn
  <2>2. /\ Acting(a) /\ event = hops[a].event /\ role = Action(a)[2]
        /\ Action(a)[1] = "dispatch"
    BY <1>7, <2>1
  <2>3. /\ event \in SelfFiring(hops[a].version)
        /\ Action(a) \in ToSet(SelfFiringActions(hops[a].wf, event))
    BY <1>7, <2>2, BoundRole
  <2>4. IsMachinery(hops[a].wf, hops[a].version, role) BY <2>2, <2>3, ForksMachinery
  <2>5. hops[a].wf = Source(a) BY <1>7, <2>2 DEF Acting, HopOk, ProceduresInv
  <2> QED BY <1>7, <2>4, <2>5 DEF KeepsDialog
<1> QED BY <1>5, <1>6, <1>7 DEF KeepsItsSubject

LEMMA NoneMinted ==
    ASSUME DOMAIN agents' = Dispatched
    PROVE  KeepsItsSubject
BY DEF KeepsItsSubject

LEMMA SubjectKept ==
    ASSUME ProceduresInv, [ProceduresNext]_procedureVars
    PROVE  KeepsItsSubject
<1>1. Dispatched = 1 .. Len(agents) /\ DOMAIN agents = Dispatched
  BY DEF ProceduresInv, ProceduresTypeOK, Dispatched
<1>2. ASSUME NEW a \in Dispatched, Begin(a) PROVE KeepsItsSubject
  <2>1. DOMAIN agents' = Dispatched BY <1>2 DEF Begin
  <2> QED BY <2>1, NoneMinted
<1>3. ASSUME NEW a \in Dispatched, Finish(a) PROVE KeepsItsSubject
  <2>1. DOMAIN agents' = Dispatched BY <1>1, <1>3 DEF Finish
  <2> QED BY <2>1, NoneMinted
<1>4. ASSUME NEW a \in Dispatched, Dispatch(a) PROVE KeepsItsSubject
  <2>1. Acting(a) /\ Action(a)[1] = "dispatch" BY <1>4 DEF Dispatch
  <2>2. \/ UNCHANGED agents
        \/ Mint(NewChild(a, Action(a)[2], hops[a].event, hops[a].wf, hops[a].version))
    BY <1>4 DEF Dispatch
  <2>3. CASE UNCHANGED agents BY <1>1, <2>3, NoneMinted
  <2>4. CASE Mint(NewChild(a, Action(a)[2], hops[a].event, hops[a].wf, hops[a].version))
    BY <1>1, <2>1, <2>4, MintSubject
  <2> QED BY <2>2, <2>3, <2>4
<1>5. ASSUME NEW a \in Dispatched, NEW role \in ByHand, Ask(a, role) PROVE KeepsItsSubject
  <2>1. Mint(NewChild(a, role, Asked, hops[a].wf, hops[a].version)) BY <1>5 DEF Ask
  <2> QED BY <1>1, <2>1, MintSubject
<1>6. CASE UNCHANGED agents BY <1>1, <1>6, NoneMinted
<1>7. \/ \E a \in Dispatched : \/ Begin(a) \/ Finish(a) \/ Dispatch(a)
                               \/ \E role \in ByHand : Ask(a, role)
      \/ UNCHANGED agents
  BY DEF ProceduresNext, procedureVars, Fire, RunTools, Mark, AtReturnOnly, Switch, Clear, Advance
<1> QED BY <1>2, <1>3, <1>4, <1>5, <1>6, <1>7

\* What a hop runs when it fails, and only then.
LEMMA FailsAt ==
    ASSUME ProceduresInv, [ProceduresNext]_procedureVars, NEW a \in 1 .. Len(agents),
           hops[a].at = "hop", hops'[a].at = "failed"
    PROVE  AtReturnOnly(a) \/ (Dispatch(a) /\ Acting(a) /\ ~Souls(Action(a)[2]))
<1>1. /\ hops \in Seq(HopRecords) /\ Len(hops) = Len(agents) /\ Dispatched = 1 .. Len(agents)
      /\ Len(agents) \in Nat
      /\ hops[a] \in HopRecords /\ DOMAIN hops = 1 .. Len(agents)
  BY DEF ProceduresInv, ProceduresTypeOK, Dispatched
<1>2. \A b \in Dispatched : Begin(b) => hops'[a] = hops[a] \/ hops'[a].at = "hop"
  BY <1>1 DEF Begin
<1>3. \A b \in Dispatched : Fire(b) => hops'[a].at = hops[a].at
  BY <1>1 DEF Fire, HopRecords
<1>4. \A b \in Dispatched : RunTools(b) => hops'[a].at = hops[a].at
  BY <1>1 DEF RunTools, HopRecords
<1>5. \A b \in Dispatched : Finish(b) => hops'[a] = hops[a] \/ hops'[a].at = "off"
  <2>1. \A b \in Dispatched : Finish(b) => hops' = [hops EXCEPT ![b] = Idle] BY DEF Finish
  <2>2. \A b \in Dispatched : Finish(b) => hops'[a] = hops[a] \/ hops'[a] = Idle
    BY <1>1, <2>1
  <2>3. Idle.at = "off" BY DEF Idle
  <2> QED BY <2>2, <2>3
<1>6. \A b \in Dispatched : Done(b) => hops'[a].at = hops[a].at
  BY <1>1 DEF Done, HopRecords
<1>7. \A b \in Dispatched : Mark(b) => Done(b) BY DEF Mark
<1>8. \A b \in Dispatched : b # a /\ hops' = [hops EXCEPT ![b].at = "failed"] => hops'[a] = hops[a]
  BY <1>1
<1>9. \A b \in Dispatched : AtReturnOnly(b) => b = a
  <2>1. TAKE b \in Dispatched
  <2>2. AtReturnOnly(b) => Done(b) \/ hops' = [hops EXCEPT ![b].at = "failed"] BY DEF AtReturnOnly
  <2> QED BY <1>6, <1>8, <2>2
<1>10. \A b \in Dispatched : \A g : g \in Seq(HopRecords) /\ Len(g) = Len(agents) =>
         Append(g, Idle)[a] = g[a]
  BY <1>1
<1>11. \A b \in Dispatched : Dispatch(b) => b = a /\ Acting(a) /\ ~Souls(Action(a)[2])
  <2>1. SUFFICES ASSUME NEW b \in Dispatched, Dispatch(b)
                 PROVE  b = a /\ Acting(a) /\ ~Souls(Action(a)[2])
    OBVIOUS
  <2>2. Acting(b) BY <2>1 DEF Dispatch
  <2>3. \/ Done(b)
        \/ ~Souls(Action(b)[2]) /\ hops' = [hops EXCEPT ![b].at = "failed"]
        \/ hops' = Append([hops EXCEPT ![b].todo = Tail(@)], Idle)
    BY <2>1 DEF Dispatch
  <2>4. hops' # Append([hops EXCEPT ![b].todo = Tail(@)], Idle)
    <3>1. PICK new : new = [hops[b] EXCEPT !.todo = Tail(hops[b].todo)] OBVIOUS
    <3>2. PICK g : g = [hops EXCEPT ![b] = new] OBVIOUS
    <3>0. hops[b] \in HopRecords BY <1>1
    <3>3. [hops EXCEPT ![b].todo = Tail(@)] = g
      BY <1>1, <3>0, <3>1, <3>2 DEF HopRecords
    <3>4. hops[b].todo # <<>> /\ hops[b].at = "hop" BY <2>2 DEF Acting
    <3>5. new \in HopRecords /\ new.at = "hop" BY <1>1, <3>1, <3>4, DoneIs
    <3>6. g \in Seq(HopRecords) /\ Len(g) = Len(agents) /\ (g[a] = hops[a] \/ g[a] = new)
      BY <1>1, <3>2, <3>5, HopSet
    <3>7. Append(g, Idle)[a].at = "hop" BY <1>10, <3>5, <3>6
    <3> QED BY <3>3, <3>7
  <2> QED BY <1>6, <1>8, <2>2, <2>3, <2>4
<1>12. \A b \in Dispatched : \A role \in ByHand : Ask(b, role) => hops'[a] = hops[a]
  BY <1>1, <1>10 DEF Ask
<1>13. hops' = Moved => hops'[a].at = hops[a].at
  <2>1. Moved[a] = [hops[a] EXCEPT !.moved = TRUE] BY <1>1 DEF Moved
  <2> QED BY <1>1, <2>1 DEF HopRecords
<1>14. /\ \A b \in Dispatched : \A c \in Configs : Switch(b, c) => hops' = Moved
       /\ \A b \in Dispatched : Clear(b) => hops' = Moved
       /\ \A c \in Configs : Advance(c) => hops' = Moved
  BY DEF Switch, Clear, Advance
<1>15. hops'[a].at # hops[a].at /\ hops'[a] # hops[a] /\ hops'[a].at \notin {"off", "hop"} OBVIOUS
<1>16. ~ UNCHANGED procedureVars BY <1>15 DEF procedureVars
<1>17. \E b \in Dispatched : AtReturnOnly(b) \/ Dispatch(b)
  <2>1. \A b \in Dispatched : ~Begin(b) /\ ~Finish(b)
    <3>1. "hop" \in {"off", "hop"} /\ "off" \in {"off", "hop"} OBVIOUS
    <3> QED BY <1>2, <1>5, <1>15, <3>1
  <2>2. \A b \in Dispatched : ~Fire(b) /\ ~RunTools(b) /\ ~Mark(b)
    BY <1>3, <1>4, <1>6, <1>7, <1>15
  <2>3. \A b \in Dispatched : \A role \in ByHand : ~Ask(b, role) BY <1>12, <1>15
  <2>4. /\ \A b \in Dispatched : \A c \in Configs : ~Switch(b, c)
        /\ \A b \in Dispatched : ~Clear(b)
        /\ \A c \in Configs : ~Advance(c)
    BY <1>13, <1>14, <1>15
  <2>5. ProceduresNext BY <1>16
  <2>6. \E b \in Dispatched : \/ Begin(b) \/ Fire(b) \/ RunTools(b) \/ Finish(b)
                               \/ Dispatch(b) \/ Mark(b) \/ AtReturnOnly(b)
                               \/ \E role \in ByHand : Ask(b, role)
                               \/ \E c \in Configs : Switch(b, c)
                               \/ Clear(b)
    BY <2>4, <2>5 DEF ProceduresNext
  <2>7. PICK b \in Dispatched : \/ Begin(b) \/ Fire(b) \/ RunTools(b) \/ Finish(b)
                                \/ Dispatch(b) \/ Mark(b) \/ AtReturnOnly(b)
                                \/ \E role \in ByHand : Ask(b, role)
                                \/ \E c \in Configs : Switch(b, c)
                                \/ Clear(b)
    BY <2>6
  <2> QED BY <2>1, <2>2, <2>3, <2>4, <2>7
<1> QED BY <1>9, <1>11, <1>17

LEMMA EachIsDispatchable ==
    ASSUME ProceduresInv, [ProceduresNext]_procedureVars
    PROVE  Dispatchable
<1>1. Dispatched = 1 .. Len(agents) BY DEF ProceduresInv, ProceduresTypeOK, Dispatched
<1>2. SUFFICES ASSUME NEW a \in Dispatched, hops[a].at = "hop", hops'[a].at = "failed",
                      ~hops[a].moved, Action(a)[1] = "dispatch",
                      Action(a) \in ToSet(ActionsFor(hops[a].wf, hops[a].event))
               PROVE  FALSE
  BY DEF Dispatchable
<1>3. ~Souls(Action(a)[2])
  <2>1. ~AtReturnOnly(a) BY <1>2 DEF AtReturnOnly
  <2> QED BY <1>1, <1>2, <2>1, FailsAt
<1>4. Declares(hops[a].wf, tip) BY <1>1, <1>2 DEF HopOk, ProceduresInv
<1>5. Action(a)[2] \in Named(ActionsFor(hops[a].wf, hops[a].event)) BY <1>2 DEF Named
<1>6. hops[a].event \in DOMAIN Bindings[hops[a].wf]
  BY <1>2 DEF ActionsFor, ToSet
<1>7. Action(a)[2] \in Roles[tip] BY <1>4, <1>5, <1>6 DEF Declares, ActionsFor
<1> QED BY <1>3, <1>7 DEF Souls

\* ProceduresSound, for any configs, roles, bindings and bounds: a procedure
\* never forks its own kind about itself, its child keeps the dialog it is
\* about, and what a loaded workflow binds has a role to run as.
THEOREM ProceduresAreSound ==
    ASSUME ConfigsAssumption, BindingsAssumption
    PROVE  ProceduresSpec => ProceduresSound
<1>1. ProceduresInit => ProceduresInv BY ProceduresStart
<1>2. ProceduresInv /\ [ProceduresNext]_procedureVars => ProceduresInv' BY ProceduresKeep
<1>3. ProceduresInv' => NeverItsOwnSubject' BY NoneItsOwnSubject, PTL
<1>4. ProceduresInv /\ ProceduresInv' /\ [ProceduresNext]_procedureVars
        => [NeverItsOwnSubject' /\ KeepsItsSubject /\ Dispatchable]_procedureVars
  BY <1>3, SubjectKept, EachIsDispatchable
<1> QED BY <1>1, <1>2, <1>4, PTL DEF ProceduresSpec, ProceduresSound
=============================================================================
