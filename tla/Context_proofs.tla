---------------------------- MODULE Context_proofs ----------------------------
(* What a model call is made of and what it leaves: a step's declared tools *)
(* can be composed again from the commit it names (Descriptors), and an     *)
(* entry is one answer, the whole of it and never a stopped call's          *)
(* (ModelCall), and a reviewer's edits of skills are proposed as written    *)
(* (Skills), and what a cut keeps from a transcript can be read, to the end *)
(* (Paging), and the history a call is sent is one a provider accepts       *)
(* (Request).  For any tools, roles, agents, grants, attempts, files, pages,*)
(* transcripts and bounds.                                                  *)
EXTENDS Descriptors, ModelCall, Skills, Paging, Request, FiniteSetTheorems,
        SequenceTheorems, TLAPS
-----------------------------------------------------------------------------
(* Descriptors.  What an agent's tree may be, and what a lineage.           *)

Trees == [Tools -> [schema : Int, prose : Int]]
Resolutions == [grants : [Roles -> SUBSET Tools], tree : Trees]
Steps ==
    [agent : Agents, at : Nat, config : Resolutions,
     wire : SUBSET [tool : Tools, schema : Int, prose : Int]]

\* The type invariant.
DescriptorsTypeOK ==
    /\ config \in Resolutions /\ edits \in Nat
    /\ role \in [Agents -> Roles \cup {"none"}]
    /\ trees \in [Agents -> Trees]
    /\ commits \in [Agents -> Seq(Trees)]
    /\ boundary \in [Agents -> Resolutions]
    /\ recorded \in Steps \cup {Nothing}

\* The tree describes nothing out of the grant, and what the resolution
\* describes of the grant it describes as the resolution does.
Fits(tree, resolved, allowed) ==
    /\ Ungranted(tree, allowed) = {}
    /\ \A t \in DescribedOf(resolved, allowed) :
         /\ tree[t].schema = resolved.tree[t].schema
         /\ resolved.tree[t].prose \in {0, tree[t].prose}

\* An agent has a commit from its dispatch on; at its boundary its worktree
\* is the cut of the resolution it holds.
Cuts ==
    \A a \in Agents :
        /\ role[a] # "none" => commits[a] # <<>>
        /\ boundary[a] # Between =>
             role[a] # "none" /\ Fits(trees[a], boundary[a], boundary[a].grants[role[a]])

\* The commit the step's meta.json names is one of its agent's, and holds
\* what was cut and sent.
NamesCommit ==
    recorded # Nothing =>
        /\ role[recorded.agent] # "none"
        /\ recorded.at \in DOMAIN commits[recorded.agent]
        /\ LET tree == commits[recorded.agent][recorded.at]
               allowed == recorded.config.grants[role[recorded.agent]]
           IN recorded.wire = Wire(tree, allowed) /\ Fits(tree, recorded.config, allowed)

DescriptorsInv == DescriptorsTypeOK /\ Cuts /\ NamesCommit

LEMMA RangeOfTrees ==
    ASSUME NEW tree \in Trees, NEW t \in Tools
    PROVE  tree[t] \in [schema : Int, prose : Int] /\ Unwritten[t] \in [schema : Int, prose : Int]
           /\ Unwritten[t].schema = 0
BY DEF Trees, Unwritten

\* The cut of a boundary, and that of a fork, fit what they were made of.
LEMMA DropFits ==
    ASSUME NEW tree \in Trees, NEW allowed \in SUBSET Tools
    PROVE  /\ DropUngranted(tree, allowed) \in Trees
           /\ \A t \in Tools \ allowed : DropUngranted(tree, allowed)[t].schema = 0
<1>1. DropUngranted(tree, allowed) \in Trees
  BY RangeOfTrees DEF DropUngranted, Trees
<1>2. ASSUME NEW t \in Tools \ allowed  PROVE DropUngranted(tree, allowed)[t].schema = 0
  BY RangeOfTrees DEF DropUngranted, Ungranted
<1> QED  BY <1>1, <1>2

LEMMA CheckoutFits ==
    ASSUME NEW own \in Trees, NEW resolved \in Resolutions, NEW allowed \in SUBSET Tools,
           NEW some \in SUBSET allowed, some = DescribedOf(resolved, allowed),
           \A t \in Tools \ allowed : own[t].schema = 0
    PROVE  /\ CheckoutGranted(own, resolved, some) \in Trees
           /\ Fits(CheckoutGranted(own, resolved, some), resolved, allowed)
<1> DEFINE cut == CheckoutGranted(own, resolved, some)
<1>1. resolved.tree \in Trees
  BY DEF Resolutions
<1>2. ASSUME NEW t \in Tools
      PROVE  CheckedOut(own[t], resolved.tree[t]) \in [schema : Int, prose : Int]
  BY <1>1, RangeOfTrees DEF CheckedOut
<1>3. cut \in Trees
  BY <1>2, RangeOfTrees DEF CheckoutGranted, Trees
<1>4. \A t \in Tools \ allowed : cut[t].schema = 0
  BY DEF CheckoutGranted
<1>5. Ungranted(cut, allowed) = {}
  BY <1>4 DEF Ungranted
<1>6. ASSUME NEW t \in some
      PROVE  cut[t].schema = resolved.tree[t].schema
             /\ resolved.tree[t].prose \in {0, cut[t].prose}
  BY DEF CheckoutGranted, CheckedOut
<1> QED  BY <1>3, <1>5, <1>6 DEF Fits

LEMMA RefreshFits ==
    ASSUME NEW tree \in Trees, NEW resolved \in Resolutions, NEW allowed \in SUBSET Tools
    PROVE  /\ Refresh(tree, resolved, allowed) \in Trees
           /\ Fits(Refresh(tree, resolved, allowed), resolved, allowed)
<1>1. DescribedOf(resolved, allowed) \in SUBSET allowed
  BY DEF DescribedOf
<1> QED  BY <1>1, DropFits, CheckoutFits DEF Refresh

LEMMA DeriveFits ==
    ASSUME NEW tree \in Trees, NEW resolved \in Resolutions, NEW allowed \in SUBSET Tools,
           allowed = DescribedOf(resolved, allowed)
    PROVE  /\ Derive(tree, resolved, allowed) \in Trees
           /\ Fits(Derive(tree, resolved, allowed), resolved, allowed)
BY DropFits, CheckoutFits DEF Derive

LEMMA WireTyped ==
    ASSUME NEW tree \in Trees, NEW allowed \in SUBSET Tools
    PROVE  Wire(tree, allowed) \in SUBSET [tool : Tools, schema : Int, prose : Int]
BY DEF Wire, Trees

LEMMA BetweenTyped == Between \in Resolutions /\ Unwritten \in Trees
BY DEF Between, Resolutions, Unwritten, Trees

LEMMA GrantTyped ==
    ASSUME NEW resolved \in Resolutions, NEW r \in Roles
    PROVE  resolved.grants[r] \in SUBSET Tools
BY DEF Resolutions

-----------------------------------------------------------------------------

LEMMA DescriptorsStart == DescriptorsInit => DescriptorsInv
<1> SUFFICES ASSUME DescriptorsInit  PROVE DescriptorsInv
  OBVIOUS
<1> USE DEF DescriptorsInit
<1>1. config \in Resolutions
  <2>1. [t \in Tools |-> [schema |-> 1, prose |-> 1]] \in Trees
    <3>1. [schema |-> 1, prose |-> 1] \in [schema : Int, prose : Int]
      OBVIOUS
    <3> QED  BY <3>1 DEF Trees
  <2> QED  BY <2>1, GrantsAssumption DEF Resolutions
<1>2. commits \in [Agents -> Seq(Trees)]
  BY EmptySeq
<1>3. DescriptorsTypeOK
  BY <1>1, <1>2, BetweenTyped DEF DescriptorsTypeOK
<1> QED  BY <1>3 DEF DescriptorsInv, Cuts, NamesCommit

\* An agent's dispatch, whatever the tree it is forked off.
LEMMA DispatchHolds ==
    ASSUME DescriptorsInv, NEW a \in Agents, NEW r \in Roles, NEW fork \in Trees,
           Dispatch(a, r, fork)
    PROVE  /\ trees' \in [Agents -> Trees] /\ commits' \in [Agents -> Seq(Trees)]
           /\ role' \in [Agents -> Roles \cup {"none"}]
           /\ role[a] = "none" /\ role'[a] = r /\ role'[a] # "none" /\ commits'[a] # <<>>
           /\ Fits(trees'[a], config, config.grants[r])
           /\ \A b \in Agents \ {a} :
                /\ role'[b] = role[b] /\ trees'[b] = trees[b] /\ commits'[b] = commits[b]
<1> USE DEF DescriptorsInv, DescriptorsTypeOK
<1> DEFINE tree == Derive(fork, config, config.grants[r])
<1>1. tree \in Trees /\ Fits(tree, config, config.grants[r])
  BY DeriveFits, GrantTyped DEF Dispatch
<1>2. trees' = [trees EXCEPT ![a] = tree] /\ commits' = [commits EXCEPT ![a] = <<tree>>]
      /\ role' = [role EXCEPT ![a] = r] /\ role[a] = "none"
  BY DEF Dispatch
<1> HIDE DEF tree
<1>3. <<tree>> \in Seq(Trees) /\ <<tree>> # <<>>
  <2>1. <<tree>> \in [1..1 -> Trees] /\ DOMAIN <<tree>> = 1..1 /\ DOMAIN << >> = 1..0
    BY <1>1
  <2> QED  BY <2>1, SeqDef
<1> QED  BY <1>1, <1>2, <1>3, RolesAssumption

\* A step that leaves the steps on record alone, and the commits there are.
LEMMA NamesKept ==
    ASSUME DescriptorsInv, recorded' = recorded,
           \A a \in Agents : role[a] # "none" =>
               /\ role'[a] = role[a]
               /\ \A i \in DOMAIN commits[a] :
                    i \in DOMAIN commits'[a] /\ commits'[a][i] = commits[a][i]
    PROVE  NamesCommit'
<1> SUFFICES ASSUME recorded # Nothing  PROVE NamesCommit'
  BY DEF NamesCommit
<1> USE DEF DescriptorsInv
<1>1. recorded \in Steps /\ recorded.agent \in Agents
  BY DEF DescriptorsTypeOK, Steps
<1>2. PICK note \in Steps : note = recorded
  BY <1>1
<1>3. role[note.agent] # "none" /\ note.at \in DOMAIN commits[note.agent]
  BY <1>2 DEF NamesCommit
<1>4. role'[note.agent] = role[note.agent] /\ note.at \in DOMAIN commits'[note.agent]
      /\ commits'[note.agent][note.at] = commits[note.agent][note.at]
  BY <1>1, <1>2, <1>3
<1> QED  BY <1>2, <1>3, <1>4 DEF NamesCommit

\* A step that disturbs neither the worktrees nor who is at a boundary.
LEMMA CutsKept ==
    ASSUME DescriptorsInv, role' = role, trees' = trees,
           \A a \in Agents : \/ boundary'[a] = boundary[a]
                             \/ boundary'[a] = Between,
           \A a \in Agents : commits[a] # <<>> => commits'[a] # <<>>
    PROVE  Cuts'
<1> SUFFICES ASSUME NEW a \in Agents
             PROVE  /\ role[a] # "none" => commits'[a] # <<>>
                    /\ boundary'[a] # Between =>
                         role[a] # "none" /\ Fits(trees[a], boundary'[a], boundary'[a].grants[role'[a]])
  BY DEF Cuts
<1>1. boundary'[a] # Between => boundary'[a] = boundary[a]
  OBVIOUS
<1> QED  BY <1>1 DEF DescriptorsInv, Cuts

\* A commit is appended.
LEMMA Appended ==
    ASSUME NEW C, NEW s \in Seq(C), NEW c \in C
    PROVE  /\ Append(s, c) \in Seq(C) /\ Append(s, c) # <<>>
           /\ Len(Append(s, c)) \in DOMAIN Append(s, c)
           /\ Append(s, c)[Len(Append(s, c))] = c
           /\ \A i \in DOMAIN s : i \in DOMAIN Append(s, c) /\ Append(s, c)[i] = s[i]
BY AppendProperties

LEMMA EditConfigHolds == DescriptorsInv /\ EditConfig => DescriptorsInv'
<1> SUFFICES ASSUME DescriptorsInv, EditConfig  PROVE DescriptorsInv'
  OBVIOUS
<1> USE DEF DescriptorsInv
<1>1. UNCHANGED <<role, trees, commits, boundary, recorded, cuts>> /\ edits' = edits + 1
  BY DEF EditConfig
<1>2. config' \in Resolutions
  <2>1. CASE \E grants \in Regranted(config.grants) :
                 config' = [config EXCEPT !.grants = grants]
    <3>1. PICK grants \in Regranted(config.grants) : config' = [config EXCEPT !.grants = grants]
      BY <2>1
    <3>2. PICK r \in Roles, t \in Tools :
              grants = [config.grants EXCEPT ![r] = SymDiff(config.grants[r], {t})]
      BY <3>1 DEF Regranted, SymDiff
    <3>3. config.grants \in [Roles -> SUBSET Tools]
      BY DEF DescriptorsTypeOK, Resolutions
    <3>4. grants \in [Roles -> SUBSET Tools]
      BY <3>2, <3>3 DEF SymDiff
    <3> QED  BY <3>1, <3>4 DEF DescriptorsTypeOK, Resolutions
  <2>2. CASE \E tree \in Redescribed(config.tree) :
                 config' = [config EXCEPT !.tree = tree]
    <3>1. PICK tree \in Redescribed(config.tree) : config' = [config EXCEPT !.tree = tree]
      BY <2>2
    <3>2. config.tree \in Trees /\ edits \in Nat
      BY DEF DescriptorsTypeOK, Resolutions
    <3>3. PICK t \in Tools, v \in {0, edits + 2} :
              \/ tree = [config.tree EXCEPT ![t].schema = v]
              \/ tree = [config.tree EXCEPT ![t].prose = v]
      BY <3>1 DEF Redescribed
    <3>4. v \in Int
      BY <3>2
    <3>5. tree \in Trees
      BY <3>2, <3>3, <3>4 DEF Trees
    <3> QED  BY <3>1, <3>5 DEF DescriptorsTypeOK, Resolutions
  <2> QED  BY <2>1, <2>2 DEF EditConfig
<1>3. DescriptorsTypeOK'
  <2>1. edits' \in Nat
    BY <1>1 DEF DescriptorsTypeOK
  <2> QED  BY <1>1, <1>2, <2>1 DEF DescriptorsTypeOK
<1>4. Cuts'
  BY <1>1, CutsKept
<1>5. NamesCommit'
  BY <1>1, NamesKept
<1> QED  BY <1>3, <1>4, <1>5

\* What a dispatch leaves, and the boundary it starts, or none.
LEMMA DispatchedHolds ==
    ASSUME DescriptorsInv, NEW a \in Agents, NEW r \in Roles, NEW fork \in Trees,
           Dispatch(a, r, fork),
           boundary' \in {boundary, [boundary EXCEPT ![a] = config]}
    PROVE  DescriptorsInv'
<1> USE DEF DescriptorsInv
<1>1. UNCHANGED <<config, edits, recorded, cuts>>
  BY DEF Dispatch
<1>2. DescriptorsTypeOK'
  BY <1>1, DispatchHolds DEF DescriptorsTypeOK
<1>3. Cuts'
  <2> SUFFICES ASSUME NEW b \in Agents
               PROVE  /\ role'[b] # "none" => commits'[b] # <<>>
                      /\ boundary'[b] # Between =>
                           role'[b] # "none" /\ Fits(trees'[b], boundary'[b], boundary'[b].grants[role'[b]])
    BY DEF Cuts
  <2>1. CASE b = a
    <3>1. boundary[a] = Between
      BY DispatchHolds DEF Cuts
    <3>2. boundary'[a] # Between => boundary'[a] = config
      BY <3>1 DEF DescriptorsTypeOK
    <3> QED  BY <2>1, <3>2, DispatchHolds
  <2>2. CASE b # a
    <3>1. role'[b] = role[b] /\ trees'[b] = trees[b] /\ commits'[b] = commits[b]
      BY <2>2, DispatchHolds
    <3>2. boundary'[b] = boundary[b]
      BY <2>2 DEF DescriptorsTypeOK
    <3> QED  BY <3>1, <3>2 DEF Cuts
  <2> QED  BY <2>1, <2>2
<1>4. NamesCommit'
  <2>1. \A b \in Agents : role[b] # "none" => role'[b] = role[b] /\ commits'[b] = commits[b]
    BY DispatchHolds
  <2> QED  BY <1>1, <2>1, NamesKept
<1> QED  BY <1>2, <1>3, <1>4

LEMMA StartRootHolds ==
    ASSUME DescriptorsInv, NEW a \in Agents, StartRoot(a)  PROVE DescriptorsInv'
<1>1. PICK r \in Roles : Dispatch(a, r, config.tree) /\ boundary' = [boundary EXCEPT ![a] = config]
  BY DEF StartRoot
<1>2. config.tree \in Trees
  BY DEF DescriptorsInv, DescriptorsTypeOK, Resolutions
<1> QED  BY <1>1, <1>2, DispatchedHolds

\* The tip of an agent that has a commit.
LEMMA TipTyped ==
    ASSUME DescriptorsInv, NEW a \in Agents, role[a] # "none"
    PROVE  /\ Committed(a) \in Trees /\ Len(commits[a]) \in DOMAIN commits[a]
           /\ Committed(a) = commits[a][Len(commits[a])]
<1>1. commits[a] \in Seq(Trees) /\ commits[a] # <<>>
  BY DEF DescriptorsInv, DescriptorsTypeOK, Cuts
<1>2. \A s \in Seq(Trees) : s # <<>> => Len(s) \in DOMAIN s /\ s[Len(s)] \in Trees
  BY EmptySeq, LenProperties
<1> QED  BY <1>1, <1>2 DEF Committed, Last

LEMMA ForkChildHolds ==
    ASSUME DescriptorsInv, NEW parent \in Agents, NEW a \in Agents, ForkChild(parent, a)
    PROVE  DescriptorsInv'
<1>1. PICK r \in Roles : Dispatch(a, r, Committed(parent))
  BY DEF ForkChild
<1>2. Committed(parent) \in Trees /\ boundary' = boundary
  BY TipTyped DEF ForkChild
<1> QED  BY <1>1, <1>2, DispatchedHolds

LEMMA CutHolds ==
    ASSUME DescriptorsInv, NEW a \in Agents, Cut(a)  PROVE DescriptorsInv'
<1> USE DEF DescriptorsInv
<1>1. /\ role[a] # "none" /\ boundary' = [boundary EXCEPT ![a] = config]
      /\ trees' = [trees EXCEPT ![a] = Refresh(trees[a], config, Grant(config, a))]
      /\ UNCHANGED <<config, edits, role, commits, recorded>>
  BY DEF Cut
<1>2. config \in Resolutions /\ trees[a] \in Trees /\ Grant(config, a) \in SUBSET Tools
  BY <1>1, GrantTyped DEF DescriptorsTypeOK, Grant
<1>3. PICK tree \in Trees : /\ tree = Refresh(trees[a], config, Grant(config, a))
                            /\ Fits(tree, config, Grant(config, a))
  BY <1>2, RefreshFits
<1>4. trees' = [trees EXCEPT ![a] = tree]
  BY <1>1, <1>3
<1>5. DescriptorsTypeOK'
  BY <1>1, <1>4 DEF DescriptorsTypeOK
<1>6. Cuts'
  <2> SUFFICES ASSUME NEW b \in Agents
               PROVE  /\ role[b] # "none" => commits[b] # <<>>
                      /\ boundary'[b] # Between =>
                           role[b] # "none" /\ Fits(trees'[b], boundary'[b], boundary'[b].grants[role'[b]])
    BY <1>1 DEF Cuts
  <2>1. CASE b = a
    <3>1. boundary'[a] = config /\ trees'[a] = tree
      BY <1>1, <1>4 DEF DescriptorsTypeOK
    <3> QED  BY <1>1, <1>3, <2>1, <3>1 DEF Cuts, Grant
  <2>2. CASE b # a
    <3>1. boundary'[b] = boundary[b] /\ trees'[b] = trees[b]
      BY <1>1, <1>4, <2>2 DEF DescriptorsTypeOK
    <3> QED  BY <1>1, <3>1 DEF Cuts
  <2> QED  BY <2>1, <2>2
<1>7. NamesCommit'
  BY <1>1, NamesKept
<1> QED  BY <1>5, <1>6, <1>7

LEMMA RecordHolds ==
    ASSUME DescriptorsInv, NEW a \in Agents, Record(a)  PROVE DescriptorsInv'
<1> USE DEF DescriptorsInv
<1> DEFINE allowed == boundary[a].grants[role[a]]
           log == Refreshed(a)
           note == [agent |-> a, at |-> Len(log), config |-> boundary[a],
                    wire |-> Wire(trees[a], allowed)]
<1>1. /\ boundary[a] # Between /\ commits' = [commits EXCEPT ![a] = log]
      /\ recorded' = note /\ boundary' = [boundary EXCEPT ![a] = Between]
      /\ UNCHANGED <<config, edits, role, trees, cuts>>
  BY DEF Record, Grant
<1>2. role[a] # "none" /\ Fits(trees[a], boundary[a], allowed)
  BY <1>1 DEF Cuts
<1>3. commits[a] \in Seq(Trees) /\ trees[a] \in Trees /\ boundary[a] \in Resolutions
  BY DEF DescriptorsTypeOK
<1>4. allowed \in SUBSET Tools
  BY <1>2, <1>3, GrantTyped DEF DescriptorsTypeOK
<1>5. /\ log \in Seq(Trees) /\ log # <<>> /\ Len(log) \in DOMAIN log
      /\ log[Len(log)] = trees[a]
      /\ \A i \in DOMAIN commits[a] : i \in DOMAIN log /\ log[i] = commits[a][i]
  <2>1. CASE trees[a] = Committed(a)
    <3>1. log = commits[a]
      BY <2>1 DEF Refreshed
    <3>2. log # <<>>
      BY <1>2, <3>1 DEF Cuts
    <3> QED  BY <1>2, <1>3, <2>1, <3>1, <3>2, TipTyped
  <2>2. CASE trees[a] # Committed(a)
    <3>1. log = Append(commits[a], trees[a])
      BY <2>2 DEF Refreshed
    <3>2. PICK s \in Seq(Trees), tree \in Trees : s = commits[a] /\ tree = trees[a]
      BY <1>3
    <3> QED  BY <3>1, <3>2, Appended
  <2> QED  BY <2>1, <2>2
<1>6. Len(log) \in Nat
  BY <1>5, LenProperties
<1>7. note \in Steps
  BY <1>3, <1>4, <1>6, WireTyped DEF Steps
<1> HIDE DEF log
<1>8. DescriptorsTypeOK'
  <2>1. commits' \in [Agents -> Seq(Trees)]
    BY <1>1, <1>5 DEF DescriptorsTypeOK
  <2>2. boundary' \in [Agents -> Resolutions]
    BY <1>1, BetweenTyped DEF DescriptorsTypeOK
  <2>3. recorded' \in Steps \cup {Nothing}
    BY <1>1, <1>7
  <2> QED  BY <1>1, <2>1, <2>2, <2>3 DEF DescriptorsTypeOK
<1>9. Cuts'
  <2>1. \A b \in Agents : boundary'[b] = boundary[b] \/ boundary'[b] = Between
    BY <1>1 DEF DescriptorsTypeOK
  <2>2. \A b \in Agents : commits[b] # <<>> => commits'[b] # <<>>
    BY <1>1, <1>5 DEF DescriptorsTypeOK
  <2> QED  BY <1>1, <2>1, <2>2, CutsKept
<1>10. NamesCommit'
  <2>1. PICK s \in Steps : s = note
    BY <1>7
  <2>2. s.agent = a /\ s.at = Len(log) /\ s.config = boundary[a] /\ s.wire = Wire(trees[a], allowed)
    BY <2>1
  <2>3. recorded' = s
    BY <1>1, <2>1
  <2>4. commits'[a] = log
    BY <1>1 DEF DescriptorsTypeOK
  <2> QED  BY <1>1, <1>2, <1>5, <2>2, <2>3, <2>4 DEF NamesCommit
<1> QED  BY <1>8, <1>9, <1>10

\* A death, and a delivery that takes what a dead driver staged.
LEMMA DieHolds ==
    ASSUME DescriptorsInv, NEW a \in Agents, Die(a)  PROVE DescriptorsInv'
<1> USE DEF DescriptorsInv
<1>1. /\ boundary' = [boundary EXCEPT ![a] = Between]
      /\ UNCHANGED <<config, edits, role, trees, commits, recorded, cuts>>
  BY DEF Die
<1>2. DescriptorsTypeOK'
  BY <1>1, BetweenTyped DEF DescriptorsTypeOK
<1>3. Cuts'
  <2>1. \A b \in Agents : boundary'[b] = boundary[b] \/ boundary'[b] = Between
    BY <1>1 DEF DescriptorsTypeOK
  <2> QED  BY <1>1, <2>1, CutsKept
<1>4. NamesCommit'
  BY <1>1, NamesKept
<1> QED  BY <1>2, <1>3, <1>4

LEMMA DeliverHolds ==
    ASSUME DescriptorsInv, NEW a \in Agents, Deliver(a)  PROVE DescriptorsInv'
<1> USE DEF DescriptorsInv
<1>1. /\ commits' = [commits EXCEPT ![a] = Append(commits[a], trees[a])]
      /\ UNCHANGED <<config, edits, role, trees, boundary, recorded, cuts>>
  BY DEF Deliver
<1>2. PICK s \in Seq(Trees), tree \in Trees : s = commits[a] /\ tree = trees[a]
  BY DEF DescriptorsTypeOK
<1>3. PICK log \in Seq(Trees) :
          /\ log = Append(s, tree) /\ log # <<>>
          /\ \A i \in DOMAIN s : i \in DOMAIN log /\ log[i] = s[i]
  <2>1. PICK log : log = Append(s, tree)
    OBVIOUS
  <2>2. log \in Seq(Trees) /\ log # <<>>
        /\ \A i \in DOMAIN s : i \in DOMAIN log /\ log[i] = s[i]
    BY <2>1, Appended
  <2> QED  BY <2>1, <2>2
<1>4. commits' = [commits EXCEPT ![a] = log]
  BY <1>1, <1>2, <1>3
<1>5. DescriptorsTypeOK'
  BY <1>1, <1>4 DEF DescriptorsTypeOK
<1>6. Cuts'
  <2>1. \A b \in Agents : commits[b] # <<>> => commits'[b] # <<>>
    BY <1>3, <1>4 DEF DescriptorsTypeOK
  <2> QED  BY <1>1, <2>1, CutsKept
<1>7. NamesCommit'
  <2>1. \A b \in Agents : \A i \in DOMAIN commits[b] :
            i \in DOMAIN commits'[b] /\ commits'[b][i] = commits[b][i]
    BY <1>2, <1>3, <1>4 DEF DescriptorsTypeOK
  <2> QED  BY <1>1, <2>1, NamesKept
<1> QED  BY <1>5, <1>6, <1>7

LEMMA ToolEditsHolds ==
    ASSUME DescriptorsInv, NEW a \in Agents, ToolEdits(a)  PROVE DescriptorsInv'
<1> USE DEF DescriptorsInv
<1>1. /\ boundary[a] = Between /\ commits' = [commits EXCEPT ![a] = Append(commits[a], trees'[a])]
      /\ UNCHANGED <<config, edits, role, boundary, recorded, cuts>>
  BY DEF ToolEdits
<1>2. PICK t \in Tools, v \in {0, OWN} : trees' = [trees EXCEPT ![a][t].schema = v]
  BY DEF ToolEdits
<1>3. PICK s \in Seq(Trees), before \in Trees : s = commits[a] /\ before = trees[a]
  BY DEF DescriptorsTypeOK
<1>4. PICK tree : tree = [before EXCEPT ![t].schema = v]
  OBVIOUS
<1>5. tree \in Trees
  <2>1. v \in Int
    BY DEF OWN
  <2> QED  BY <1>4, <2>1 DEF Trees
<1>6. trees' = [trees EXCEPT ![a] = tree]
  BY <1>2, <1>3, <1>4
<1>7. PICK log \in Seq(Trees) :
          /\ log = Append(s, tree) /\ log # <<>>
          /\ \A i \in DOMAIN s : i \in DOMAIN log /\ log[i] = s[i]
  <2>1. PICK log : log = Append(s, tree)
    OBVIOUS
  <2>2. log \in Seq(Trees) /\ log # <<>>
        /\ \A i \in DOMAIN s : i \in DOMAIN log /\ log[i] = s[i]
    BY <1>5, <2>1, Appended
  <2> QED  BY <2>1, <2>2
<1>8. commits' = [commits EXCEPT ![a] = log]
  BY <1>1, <1>3, <1>6, <1>7 DEF DescriptorsTypeOK
<1>9. DescriptorsTypeOK'
  BY <1>1, <1>5, <1>6, <1>8 DEF DescriptorsTypeOK
<1>10. Cuts'
  <2> SUFFICES ASSUME NEW b \in Agents
               PROVE  /\ role[b] # "none" => commits'[b] # <<>>
                      /\ boundary[b] # Between =>
                           role[b] # "none" /\ Fits(trees'[b], boundary[b], boundary[b].grants[role'[b]])
    BY <1>1 DEF Cuts
  <2>1. commits[b] # <<>> => commits'[b] # <<>>
    BY <1>7, <1>8 DEF DescriptorsTypeOK
  <2>2. boundary[b] # Between => trees'[b] = trees[b]
    BY <1>1, <1>6 DEF DescriptorsTypeOK
  <2> QED  BY <1>1, <2>1, <2>2 DEF Cuts
<1>11. NamesCommit'
  <2>1. \A b \in Agents : \A i \in DOMAIN commits[b] :
            i \in DOMAIN commits'[b] /\ commits'[b][i] = commits[b][i]
    BY <1>3, <1>7, <1>8 DEF DescriptorsTypeOK
  <2> QED  BY <1>1, <2>1, NamesKept
<1> QED  BY <1>9, <1>10, <1>11

LEMMA DescriptorsStill == DescriptorsInv /\ UNCHANGED descriptorVars => DescriptorsInv'
<1> SUFFICES ASSUME DescriptorsInv, UNCHANGED descriptorVars  PROVE DescriptorsInv'
  OBVIOUS
<1> USE DEF DescriptorsInv, descriptorVars
<1>1. DescriptorsTypeOK'
  BY DEF DescriptorsTypeOK
<1>2. Cuts'
  BY CutsKept
<1>3. NamesCommit'
  BY NamesKept
<1> QED  BY <1>1, <1>2, <1>3

LEMMA DescriptorsInvariant == DescriptorsSpec => []DescriptorsInv
<1>1. DescriptorsInv /\ [DescriptorsNext]_descriptorVars => DescriptorsInv'
  <2> SUFFICES ASSUME DescriptorsInv, [DescriptorsNext]_descriptorVars  PROVE DescriptorsInv'
    OBVIOUS
  <2>1. CASE EditConfig
    BY <2>1, EditConfigHolds
  <2>2. ASSUME NEW a \in Agents, StartRoot(a)  PROVE DescriptorsInv'
    BY <2>2, StartRootHolds
  <2>3. ASSUME NEW a \in Agents, Cut(a)  PROVE DescriptorsInv'
    BY <2>3, CutHolds
  <2>4. ASSUME NEW a \in Agents, Record(a)  PROVE DescriptorsInv'
    BY <2>4, RecordHolds
  <2>5. ASSUME NEW a \in Agents, Die(a)  PROVE DescriptorsInv'
    BY <2>5, DieHolds
  <2>6. ASSUME NEW a \in Agents, Deliver(a)  PROVE DescriptorsInv'
    BY <2>6, DeliverHolds
  <2>7. ASSUME NEW a \in Agents, ToolEdits(a)  PROVE DescriptorsInv'
    BY <2>7, ToolEditsHolds
  <2>8. ASSUME NEW a \in Agents, NEW parent \in Agents, ForkChild(parent, a)
        PROVE  DescriptorsInv'
    BY <2>8, ForkChildHolds
  <2>9. CASE UNCHANGED descriptorVars
    BY <2>9, DescriptorsStill
  <2> QED  BY <2>1, <2>2, <2>3, <2>4, <2>5, <2>6, <2>7, <2>8, <2>9 DEF DescriptorsNext
<1> QED  BY <1>1, DescriptorsStart, PTL DEF DescriptorsSpec

(* The type invariant of the lineage, the trees and their commits           *)
(* (descriptors.rs), for any tools, roles, agents, grants and bounds.       *)
THEOREM DescriptorsTyping == DescriptorsSpec => []DescriptorsTypeOK
BY DescriptorsInvariant, PTL DEF DescriptorsInv

(* Replayable (meta.json's commit, tools.rs): what a step declared is what  *)
(* the commit it names composes, and that commit's tree is the callable set *)
(* of the step's role under the config the boundary resolved.               *)
THEOREM StepsReplay == DescriptorsSpec => []Replayable
<1>1. DescriptorsInv => Replayable
  BY DEF DescriptorsInv, NamesCommit, Replayable, Fits, Grant
<1> QED  BY <1>1, DescriptorsInvariant, PTL
-----------------------------------------------------------------------------
(* ModelCall.  The states of a call.                                        *)

Words == {"v", "other", "usage", "open", "stop", "badstop", "retryable", "fatal",
          "finish", "length", "end", "torn"}
Segments == [open : BOOLEAN, v : {"none", "v", "other"},
             error : {"none", "retryable", "fatal"},
             length : BOOLEAN, ended : BOOLEAN, bad : BOOLEAN]
Stagings == [blocks : Seq(Nat), usage : Nat, mark : Nat, sealed : BOOLEAN]

\* The type invariant.
ModelTypeOK ==
    /\ override \in BOOLEAN /\ flag \in BOOLEAN /\ attempt \in 1..MaxAttempts
    /\ pc \in Calling \cup {"rest", "resolve", "hop", "meta", "rename", "commit"}
    /\ bz \in {"none", "up", "doomed"} /\ seg \in Segments
    /\ result \in {"none", "ok", "error", "failed", "half", "truncated"}
    /\ step \in Nat /\ response \in Seq(Seq(Words)) /\ staging \in Stagings
    /\ meta \in BOOLEAN /\ messages \in Seq(Nat) /\ due \in BOOLEAN
    /\ met \in SUBSET Nat /\ crashes \in Nat /\ stops \in Nat

\* The staging file holds nothing of an attempt that failed, and the record
\* one segment of each.
CallShape ==
    /\ pc = "create" => response = <<>> /\ staging = Staging
    /\ pc = "spawn" => Len(response) = attempt - 1 /\ staging.blocks = <<>>
    /\ pc = "sleep" => /\ Len(response) = attempt /\ staging.blocks = <<>>
                       /\ attempt < MaxAttempts
    /\ pc = "stream" => Len(response) = attempt /\ staging.mark = 0

\* What the driver has parsed of a stream is what the adapter wrote.
Parsed(s) ==
    /\ seg.error = "none" => \A i \in DOMAIN s : s[i] \notin {"retryable", "fatal"}
    /\ \A i \in DOMAIN s : s[i] = "end" => i = Len(s)
    /\ seg.ended => /\ s # <<>> /\ s[Len(s)] = "end"
                    /\ \E i \in DOMAIN s : s[i] \in {"finish", "length", "retryable", "fatal"}
    /\ \A i \in DOMAIN s : s[i] = "length" => seg.length
    /\ seg.v = "v" => \E i \in DOMAIN s : s[i] = "v"

\* And what it staged is that: a block that was closed, the usage it was told.
Staged(s) ==
    /\ \A j \in DOMAIN staging.blocks : staging.blocks[j] = attempt
    /\ Opens(s) = Len(staging.blocks) + (IF seg.open THEN 1 ELSE 0)
    /\ staging.usage = (IF \E i \in DOMAIN s : s[i] = "usage" THEN attempt ELSE 0)

Streams == pc = "stream" /\ ~seg.bad => Parsed(Segm) /\ Staged(Segm)

\* A call a stop met is not settled, and an entry is of a step that was.
Discarded ==
    /\ \A i \in DOMAIN messages : messages[i] \in 1..step
    /\ \A n \in met : n \in 1..step /\ ~HasEntry(n)
    /\ pc \in Calling => (step \in met => flag)
    /\ pc \in {"meta", "rename"} => step \notin met
    /\ pc \in Calling \cup {"meta", "rename"} => step > 0 /\ ~HasEntry(step)

\* The answer is the last segment's, and all of it.
Whole ==
    LET a == Len(response) IN
    /\ a > 0 /\ staging.sealed
    /\ staging.blocks = [j \in 1..Opens(response[a]) |-> a]
    /\ staging.usage = (IF \E i \in DOMAIN response[a] : response[a][i] = "usage"
                        THEN a ELSE 0)
    /\ response[a] # <<>> /\ response[a][Len(response[a])] = "end"
    /\ \E i \in DOMAIN response[a] : response[a][i] = "finish"
    /\ override => \E i \in DOMAIN response[a] : response[a][i] = "v"
    /\ \A i \in DOMAIN response[a] : response[a][i] \notin {"retryable", "fatal"}

Settled ==
    \/ HasEntry(step) \/ pc \in {"meta", "rename", "commit"}
    \/ pc = "return" /\ result = "ok"

ModelInv == ModelTypeOK /\ CallShape /\ Streams /\ Discarded /\ (Settled => Whole)

LEMMA OpensTyped ==
    ASSUME NEW s \in Seq(Words)
    PROVE  Opens(s) \in Nat /\ IsFiniteSet({i \in DOMAIN s : s[i] = "open"})
<1>1. DOMAIN s = 1..Len(s) /\ Len(s) \in Nat
  BY LenProperties
<1>2. IsFiniteSet(1..Len(s))
  BY <1>1, FS_Interval
<1>3. {i \in DOMAIN s : s[i] = "open"} \in SUBSET (1..Len(s))
  BY <1>1
<1>4. IsFiniteSet({i \in DOMAIN s : s[i] = "open"})
  BY <1>2, <1>3, FS_Subset
<1> QED  BY <1>4, FS_CardinalityType DEF Opens

LEMMA OpensNone == Opens(<<>>) = 0
<1>1. {i \in DOMAIN <<>> : <<>>[i] = "open"} = {}
  OBVIOUS
<1> QED  BY <1>1, FS_EmptySet DEF Opens

LEMMA OpensAppend ==
    ASSUME NEW s \in Seq(Words), NEW l \in Words
    PROVE  Opens(Append(s, l)) = Opens(s) + (IF l = "open" THEN 1 ELSE 0)
<1> DEFINE before == {i \in DOMAIN s : s[i] = "open"}
           after == {i \in DOMAIN Append(s, l) : Append(s, l)[i] = "open"}
<1>1. DOMAIN s = 1..Len(s) /\ Len(s) \in Nat
      /\ DOMAIN Append(s, l) = 1..(Len(s) + 1) /\ Append(s, l)[Len(s) + 1] = l
      /\ \A i \in 1..Len(s) : Append(s, l)[i] = s[i]
  BY AppendProperties, LenProperties
<1>2. before \cup {Len(s) + 1} \in SUBSET (1..(Len(s) + 1)) /\ Len(s) + 1 \notin before
  BY <1>1
<1>3. CASE l = "open"
  <2>1. after = before \cup {Len(s) + 1}
    BY <1>1, <1>3
  <2> QED  BY <1>2, <1>3, <2>1, OpensTyped, FS_AddElement DEF Opens
<1>4. CASE l # "open"
  <2>1. after = before
    BY <1>1, <1>4
  <2>2. Opens(Append(s, l)) = Opens(s)
    BY <2>1 DEF Opens
  <2>3. PICK n \in Nat : n = Opens(s)
    BY OpensTyped
  <2>4. n = n + (IF l = "open" THEN 1 ELSE 0)
    BY <1>4
  <2> QED  BY <2>2, <2>3, <2>4
<1> QED  BY <1>3, <1>4

\* A whole answer reads as a whole one, unless an earlier segment ran into
\* the next.
LEMMA WholeReads ==
    ASSUME response \in Seq(Seq(Words)), Whole, ~Merged
    PROVE  Classify(response) = "complete"
<1> DEFINE a == Len(response)
           final == <<a, Len(response[a])>>
<1>1. a \in Nat \ {0} /\ DOMAIN response = 1..a
  BY LenProperties DEF Whole
<1>2. ASSUME NEW i \in 1..a
      PROVE  /\ response[i] \in Seq(Words) /\ Len(response[i]) \in Nat
             /\ DOMAIN response[i] = 1..Len(response[i])
  BY <1>1, LenProperties
<1>3. Len(response[a]) \in Nat \ {0}
  BY <1>1, <1>2, EmptySeq DEF Whole
<1>4. \A p : p \in Places(response) <=>
          \E i \in 1..a : \E k \in 1..Len(response[i]) : p = <<i, k>>
  BY <1>1, <1>2 DEF Places
<1>5. final \in Places(response)
  <2>1. \A n \in Nat \ {0} : n \in 1..n
    OBVIOUS
  <2>2. a \in 1..a /\ Len(response[a]) \in 1..Len(response[a])
    BY <1>1, <1>3, <2>1
  <2> QED  BY <1>4, <2>2
<1>6. Final(response) = {final}
  <2>1. final \in Final(response)
    BY <1>1, <1>2, <1>3, <1>4, <1>5 DEF Final, Follows
  <2>2. ASSUME NEW p \in Final(response)  PROVE p = final
    <3>0. PICK i \in 1..a : \E k \in 1..Len(response[i]) : p = <<i, k>>
      BY <1>4 DEF Final
    <3>1. PICK k \in 1..Len(response[i]) : p = <<i, k>>
      BY <3>0
    <3>2. ~Follows(final, p)
      BY <1>5 DEF Final
    <3>3. ~(a > i) /\ ~(a = i /\ Len(response[a]) > k)
      BY <3>1, <3>2 DEF Follows
    <3>4. i = a
      <4>1. \A m \in Nat : \A j \in 1..m : ~(m > j) => j = m
        OBVIOUS
      <4> QED  BY <1>1, <3>3, <4>1
    <3>5. k \in 1..Len(response[a])
      BY <3>4
    <3>6. k = Len(response[a])
      BY <1>3, <3>3, <3>4, <3>5
    <3> QED  BY <3>1, <3>4, <3>6
  <2> QED  BY <2>1, <2>2
<1>7. response[final[1]][final[2]] = "end"
  BY DEF Whole
<1>8. ASSUME NEW p \in Places(response), response[p[1]][p[2]] \in {"retryable", "fatal"}
      PROVE  \E q \in Places(response) \ Final(response) :
                 response[q[1]][q[2]] = "end" /\ ~Follows(p, q)
  <2>0. PICK i \in 1..a : \E k \in 1..Len(response[i]) : p = <<i, k>>
    BY <1>4
  <2>1. PICK k \in 1..Len(response[i]) : p = <<i, k>>
    BY <2>0
  <2>2. response[i][k] \in {"retryable", "fatal"}
    BY <1>8, <2>1
  <2>3. i # a
    BY <1>2, <2>2 DEF Whole
  <2> DEFINE q == <<i, Len(response[i])>>
  <2>4. i \in 1..(a - 1) /\ Len(response[i]) \in 1..Len(response[i])
    <3>1. i \in 1..(a - 1)
      <4>1. \A m \in Nat : \A j \in 1..m : j # m => j \in 1..(m - 1)
        OBVIOUS
      <4> QED  BY <1>1, <2>3, <4>1
    <3>2. PICK n \in Nat : n = Len(response[i])
      BY <1>2
    <3>3. k \in 1..n
      BY <3>2
    <3>4. n \in 1..n
      BY <3>3
    <3> QED  BY <3>1, <3>2, <3>4
  <2>5. response[i][Len(response[i])] = "end"
    BY <2>4 DEF Merged
  <2>6. q \in Places(response) /\ q # final
    BY <1>4, <2>3, <2>4
  <2>7. ~Follows(p, q)
    BY <1>1, <1>2, <2>1 DEF Follows
  <2> QED  BY <1>6, <2>5, <2>6, <2>7
<1> HIDE DEF a, final
<1> QED  BY <1>5, <1>6, <1>7, <1>8 DEF Classify

LEMMA ModelStart == ModelInit => ModelInv
<1> SUFFICES ASSUME ModelInit  PROVE ModelInv
  OBVIOUS
<1> USE DEF ModelInit
<1>1. Segment \in Segments /\ Staging \in Stagings
  BY EmptySeq DEF Segment, Segments, Staging, Stagings
<1>2. ModelTypeOK
  <2>1. attempt \in 1..MaxAttempts /\ met \in SUBSET Nat
    BY AttemptsAssumption
  <2>2. response \in Seq(Seq(Words)) /\ messages \in Seq(Nat)
    BY EmptySeq
  <2> QED  BY <1>1, <2>1, <2>2 DEF ModelTypeOK
<1>3. ~Settled
  BY DEF Settled, HasEntry, Range
<1> QED  BY <1>2, <1>3 DEF ModelInv, CallShape, Streams, Discarded, Calling

LEMMA FreshTyped == Segment \in Segments /\ Staging \in Stagings
BY EmptySeq DEF Segment, Segments, Staging, Stagings

LEMMA SegmTyped ==
    ASSUME ModelTypeOK, CallShape, pc = "stream"
    PROVE  Segm \in Seq(Words) /\ Len(response) = attempt /\ attempt \in DOMAIN response
           /\ Segm = response[attempt]
<1>1. attempt \in 1..Len(response) /\ Len(response) = attempt
  BY AttemptsAssumption DEF ModelTypeOK, CallShape
<1> QED  BY <1>1, ElementOfSeq, LenProperties DEF ModelTypeOK, Segm

\* A line is added to the last segment.
LEMMA Extended ==
    ASSUME ModelTypeOK, CallShape, pc = "stream", NEW l \in Words,
           response' = [response EXCEPT ![Len(response)] = Append(response[Len(response)], l)]
    PROVE  /\ response' \in Seq(Seq(Words)) /\ Len(response') = attempt
           /\ response'[attempt] = Append(Segm, l)
<1>1. PICK s \in Seq(Words) : s = Append(Segm, l)
  BY SegmTyped, AppendProperties
<1>2. response' = [response EXCEPT ![attempt] = s]
  BY <1>1, SegmTyped
<1> QED  BY <1>1, <1>2, SegmTyped, ExceptSeq DEF ModelTypeOK

\* What a line that is read is read as.
LEMMA LineRead ==
    ASSUME seg \in Segments, NEW l \in Words, Line(l), ~seg.bad, ~seg.ended
    PROVE  /\ seg' \in Segments
           /\ seg'.v = (IF l \in {"v", "other"} THEN l ELSE seg.v)
           /\ seg'.error = (IF l \in {"retryable", "fatal"} THEN l ELSE seg.error)
           /\ seg'.length <=> (l = "length" \/ (seg.length /\ l # "finish"))
           /\ seg'.ended <=> l = "end"
           /\ seg'.bad <=> l \in {"torn", "badstop"}
           /\ seg'.open <=> (l = "open" \/ (seg.open /\ l \notin {"stop", "badstop"}))
<1> DEFINE lengthNext == IF l \in {"finish", "length"} THEN l = "length" ELSE seg.length
           endedNext == seg.ended \/ l = "end"
           badNext == l \in {"torn", "badstop"}
           openNext == IF l \in {"stop", "badstop"} THEN FALSE ELSE seg.open \/ l = "open"
<1>1. PICK v \in {"none", "v", "other"} : v = (IF l \in {"v", "other"} THEN l ELSE seg.v)
  BY DEF Segments
<1>2. PICK error \in {"none", "retryable", "fatal"} :
          error = (IF l \in {"retryable", "fatal"} THEN l ELSE seg.error)
  BY DEF Segments
<1>3. seg.length \in BOOLEAN /\ seg.ended \in BOOLEAN /\ seg.open \in BOOLEAN
  BY DEF Segments
<1>4. PICK length \in BOOLEAN : length = lengthNext
  BY <1>3
<1>5. PICK ended \in BOOLEAN : ended = endedNext
  BY <1>3
<1>6. PICK bad \in BOOLEAN : bad = badNext
  <2>1. badNext \in BOOLEAN
    OBVIOUS
  <2> QED  BY <2>1
<1>7. PICK pending \in BOOLEAN : pending = openNext
  BY <1>3
<1>8. seg' = [seg EXCEPT !.v = v, !.error = error, !.length = lengthNext,
                         !.ended = endedNext, !.bad = badNext, !.open = openNext]
  BY <1>1, <1>2 DEF Line
<1> HIDE DEF lengthNext, endedNext, badNext, openNext
<1>9. seg' = [seg EXCEPT !.v = v, !.error = error, !.length = length,
                         !.ended = ended, !.bad = bad, !.open = pending]
  BY <1>4, <1>5, <1>6, <1>7, <1>8
<1>10. /\ seg' \in Segments /\ seg'.v = v /\ seg'.error = error
       /\ seg'.length = length /\ seg'.ended = ended /\ seg'.bad = bad /\ seg'.open = pending
  <2>1. PICK s \in Segments : s = seg
    OBVIOUS
  <2>2. PICK read : read = [s EXCEPT !.v = v, !.error = error, !.length = length,
                                     !.ended = ended, !.bad = bad, !.open = pending]
    OBVIOUS
  <2>3. /\ read \in Segments /\ read.v = v /\ read.error = error
        /\ read.length = length /\ read.ended = ended /\ read.bad = bad /\ read.open = pending
    BY ONLY <2>2 DEF Segments
  <2>4. seg' = read
    BY <1>9, <2>1, <2>2
  <2> QED  BY <2>3, <2>4
<1> USE DEF lengthNext, endedNext, badNext, openNext
<1> QED  BY <1>1, <1>2, <1>3, <1>4, <1>5, <1>6, <1>7, <1>10

\* What a line does to the segment read and to the staging file.
LEMMA LineTyped ==
    ASSUME ModelTypeOK, CallShape, pc = "stream", NEW l \in Words, Line(l)
    PROVE  /\ response' \in Seq(Seq(Words)) /\ seg' \in Segments /\ staging' \in Stagings
           /\ Len(response') = attempt /\ response'[attempt] = Append(Segm, l)
           /\ staging'.mark = staging.mark
<1>1. response' \in Seq(Seq(Words)) /\ Len(response') = attempt
      /\ response'[attempt] = Append(Segm, l)
  BY Extended DEF Line
<1>2. seg' \in Segments
  <2>1. CASE ~seg.bad /\ ~seg.ended
    BY <2>1, LineRead DEF ModelTypeOK
  <2>2. CASE seg.bad \/ seg.ended
    BY <2>2 DEF Line, ModelTypeOK
  <2> QED  BY <2>1, <2>2
<1>3. Flushed \in Stagings /\ Flushed.mark = staging.mark
  <2>1. Append(staging.blocks, attempt) \in Seq(Nat)
    BY AppendProperties, AttemptsAssumption DEF ModelTypeOK, Stagings
  <2> QED  BY <2>1 DEF Flushed, ModelTypeOK, Stagings
<1>4. staging' \in {staging, Flushed, [staging EXCEPT !.usage = attempt]}
  BY DEF Line
<1>5. staging \in Stagings /\ attempt \in Nat
  BY AttemptsAssumption DEF ModelTypeOK
<1>6. [staging EXCEPT !.usage = attempt] \in Stagings
      /\ [staging EXCEPT !.usage = attempt].mark = staging.mark
  BY <1>5 DEF Stagings
<1> QED  BY <1>1, <1>2, <1>3, <1>4, <1>5, <1>6

\* Typing: the steps that leave the files alone, the stream's, and the others.
LEMMA ModelTypeHolds ==
    ASSUME ModelTypeOK, CallShape, [ModelNext]_modelVars
    PROVE  ModelTypeOK'
<1> USE DEF world, branch, record, locals
<1>1. CASE UNCHANGED modelVars
  BY <1>1 DEF modelVars, ModelTypeOK
<1>2. CASE ModelNext
  <2>1. ASSUME step' \in Nat  PROVE met' \in SUBSET Nat
    BY <1>2, <2>1 DEF ModelNext, ModelTypeOK
  <2>2. CASE UNCHANGED <<override, record, messages, crashes, stops>>
             /\ (StartDriver \/ Resolved \/ CreateFiles \/ SpawnError \/ BadStream \/ HalfStream
                 \/ Truncated \/ Mismatch \/ Prompted \/ BzExits)
    <3>1. met' \in SUBSET Nat
      BY <2>1, <2>2 DEF ModelTypeOK
    <3>2. CASE StartDriver \/ Resolved \/ Prompted \/ BzExits
      BY <2>2, <3>1, <3>2 DEF StartDriver, Resolved, Prompted, BzExits, ModelTypeOK, Calling
    <3>3. CASE CreateFiles
      <4>1. attempt' \in 1..MaxAttempts
        BY <3>3, AttemptsAssumption DEF CreateFiles
      <4> QED  BY <2>2, <3>1, <3>3, <4>1 DEF CreateFiles, ModelTypeOK, Calling
    <3>4. CASE SpawnError \/ BadStream \/ HalfStream \/ Truncated \/ Mismatch
      BY <2>2, <3>1, <3>4
         DEF SpawnError, BadStream, HalfStream, Truncated, Mismatch, ModelTypeOK, Calling
    <3> QED  BY <2>2, <3>2, <3>3, <3>4
  <2>3. CASE VersionSkew \/ HopStops \/ StepFails \/ Settle \/ Commit \/ Crash
    <3>1. UNCHANGED <<override, record, branch, stops>> /\ crashes' \in Nat
      BY <2>3 DEF VersionSkew, HopStops, StepFails, Settle, Commit, Crash, ModelTypeOK
    <3>2. met' \in SUBSET Nat
      BY <2>1, <3>1 DEF ModelTypeOK
    <3>3. CASE Rest /\ bz' \in {bz, "none"}
      <4>1. pc' = "rest" /\ flag' = FALSE /\ attempt' = 1 /\ seg' = Segment /\ result' = "none"
        BY <3>3 DEF Rest
      <4>2. attempt' \in 1..MaxAttempts /\ seg' \in Segments
        BY <4>1, AttemptsAssumption, FreshTyped
      <4> QED  BY <3>1, <3>2, <3>3, <4>1, <4>2 DEF ModelTypeOK
    <3>4. CASE ~Rest
      BY <2>3, <3>1, <3>2, <3>4
         DEF VersionSkew, HopStops, StepFails, Settle, Commit, Crash, ModelTypeOK
    <3> QED  BY <2>3, <3>3, <3>4 DEF VersionSkew, HopStops, StepFails, Settle, Commit, Crash
  <2>4. CASE WriteRequest
    <3>1. step' = step + 1 /\ response' = <<>> /\ staging' = Staging /\ attempt' = 1
          /\ seg' = Segment
      BY <2>4 DEF WriteRequest
    <3>2. step' \in Nat /\ response' \in Seq(Seq(Words)) /\ attempt' \in 1..MaxAttempts
      BY <3>1, EmptySeq, AttemptsAssumption DEF ModelTypeOK
    <3> QED  BY <2>1, <2>4, <3>1, <3>2, FreshTyped DEF WriteRequest, ModelTypeOK, Calling
  <2>5. CASE BeginSegment
    <3>1. response' = Append(response, <<>>) /\ seg' = Segment
          /\ staging' = [staging EXCEPT !.mark = Len(staging.blocks), !.usage = 0]
      BY <2>5 DEF BeginSegment
    <3>2. response' \in Seq(Seq(Words))
      BY <3>1, EmptySeq, AppendProperties DEF ModelTypeOK
    <3>3. staging' \in Stagings
      <4>1. Len(staging.blocks) \in Nat
        BY LenProperties DEF ModelTypeOK, Stagings
      <4> QED  BY <3>1, <4>1 DEF ModelTypeOK, Stagings
    <3>4. met' \in SUBSET Nat
      BY <2>1, <2>5 DEF BeginSegment, ModelTypeOK
    <3> QED  BY <2>5, <3>1, <3>2, <3>3, <3>4, FreshTyped DEF BeginSegment, ModelTypeOK, Calling
  <2>6. CASE BzWrites \/ BzTears
    <3>1. PICK l \in Words : Line(l)
      BY <2>6 DEF BzWrites, BzTears, Grammar, Words
    <3>2. pc = "stream"
      BY <2>6 DEF BzWrites, BzTears
    <3>3. response' \in Seq(Seq(Words)) /\ seg' \in Segments /\ staging' \in Stagings
      BY <3>1, <3>2, LineTyped
    <3>4. met' \in SUBSET Nat
      BY <2>1, <2>6 DEF BzWrites, BzTears, ModelTypeOK
    <3> QED  BY <2>6, <3>3, <3>4 DEF BzWrites, BzTears, ModelTypeOK
  <2>7. CASE Failed \/ Seal
    <3>1. staging' \in Stagings
      <4>1. CASE Failed
        <5>1. staging.mark = 0
          BY <4>1 DEF Failed, Over, CallShape
        <5>2. \A s : SubSeq(s, 1, 0) = <<>>
          OBVIOUS
        <5>3. staging' = [staging EXCEPT !.blocks = <<>>, !.usage = 0]
          BY <4>1, <5>1, <5>2 DEF Failed
        <5>4. <<>> \in Seq(Nat)
          BY EmptySeq
        <5> QED  BY <5>3, <5>4 DEF ModelTypeOK, Stagings
      <4>2. CASE Seal
        <5>1. Append(staging.blocks, attempt) \in Seq(Nat)
          BY AppendProperties, AttemptsAssumption DEF ModelTypeOK, Stagings
        <5>2. Flushed \in Stagings
          BY <5>1 DEF Flushed, ModelTypeOK, Stagings
        <5>3. PICK staged \in Stagings : staging' = [staged EXCEPT !.sealed = TRUE]
          BY <4>2, <5>2 DEF Seal, ModelTypeOK
        <5> QED  BY <5>3 DEF Stagings
      <4> QED  BY <2>7, <4>1, <4>2
    <3>2. met' \in SUBSET Nat
      BY <2>1, <2>7 DEF Failed, Seal, ModelTypeOK
    <3> QED  BY <2>7, <3>1, <3>2 DEF Failed, Seal, ModelTypeOK, Calling
  <2>8. CASE Wake
    <3>1. attempt' \in 1..MaxAttempts
      BY <2>8, AttemptsAssumption DEF Wake, ModelTypeOK, CallShape
    <3>2. met' \in SUBSET Nat
      BY <2>1, <2>8 DEF Wake, ModelTypeOK
    <3> QED  BY <2>8, <3>1, <3>2 DEF Wake, ModelTypeOK, Calling
  <2>9. CASE WriteMeta
    <3>1. met' \in SUBSET Nat
      BY <2>1, <2>9 DEF WriteMeta, ModelTypeOK
    <3> QED  BY <2>9, <3>1 DEF WriteMeta, ModelTypeOK
  <2>10. CASE Rename
    <3>1. messages' \in Seq(Nat)
      BY <2>10, AppendProperties DEF Rename, ModelTypeOK
    <3>2. due' \in BOOLEAN
      BY <2>10 DEF Rename
    <3>3. met' \in SUBSET Nat
      BY <2>1, <2>10 DEF Rename, ModelTypeOK
    <3> QED  BY <2>10, <3>1, <3>2, <3>3 DEF Rename, ModelTypeOK
  <2>11. CASE Sigterm
    <3>1. met' \in SUBSET Nat /\ stops' \in Nat
      BY <2>1, <2>11 DEF Sigterm, ModelTypeOK
    <3> QED  BY <2>11, <3>1 DEF Sigterm, ModelTypeOK
  <2>12. ASSUME StartDriver \/ Resolved \/ CreateFiles \/ SpawnError \/ BadStream \/ HalfStream
                \/ Truncated \/ Mismatch \/ Prompted \/ BzExits
         PROVE  UNCHANGED <<override, record, messages, crashes, stops>>
    BY <2>12 DEF StartDriver, Resolved, CreateFiles, SpawnError, BadStream, HalfStream,
                 Truncated, Mismatch, Prompted, BzExits
  <2> QED  BY <1>2, <2>2, <2>3, <2>4, <2>5, <2>6, <2>7, <2>8, <2>9, <2>10, <2>11, <2>12
              DEF ModelNext, Driver, Bz
<1> QED  BY <1>1, <1>2

\* The steps that cannot enter an attempt leave the files to no reader.
LEMMA CallShapeHolds ==
    ASSUME ModelTypeOK, CallShape, [ModelNext]_modelVars
    PROVE  CallShape'
<1> USE DEF world, branch, record, locals
<1>1. CASE UNCHANGED modelVars
  BY <1>1 DEF modelVars, CallShape
<1>2. CASE WriteRequest
  BY <1>2 DEF WriteRequest, CallShape
<1>3. CASE CreateFiles
  <2>1. response = <<>> /\ staging = Staging
    BY <1>3 DEF CreateFiles, CallShape
  <2>2. Len(<<>>) = 1 - 1 /\ Staging.blocks = <<>>
    BY DEF Staging
  <2> QED  BY <1>3, <2>1, <2>2 DEF CreateFiles, CallShape
<1>4. CASE BeginSegment
  <2>1. /\ pc' = "stream" /\ response' = Append(response, <<>>) /\ attempt' = attempt
        /\ staging' = [staging EXCEPT !.mark = Len(staging.blocks), !.usage = 0]
        /\ Len(response) = attempt - 1 /\ staging.blocks = <<>>
    BY <1>4 DEF BeginSegment, CallShape
  <2>2. staging'.mark = 0
    BY <2>1 DEF ModelTypeOK, Stagings
  <2>3. Len(response') = Len(response) + 1
    BY <2>1, EmptySeq, AppendProperties DEF ModelTypeOK
  <2>4. attempt \in Nat
    BY AttemptsAssumption DEF ModelTypeOK
  <2>5. Len(response') = attempt'
    BY <2>1, <2>3, <2>4
  <2> QED  BY <2>1, <2>2, <2>5 DEF CallShape
<1>5. CASE BzWrites \/ BzTears
  <2>1. PICK l \in Words : Line(l)
    BY <1>5 DEF BzWrites, BzTears, Grammar, Words
  <2>2. pc = "stream" /\ pc' = "stream" /\ attempt' = attempt
    BY <1>5 DEF BzWrites, BzTears
  <2>3. Len(response') = attempt /\ staging'.mark = staging.mark
    BY <2>1, <2>2, LineTyped
  <2> QED  BY <2>2, <2>3 DEF CallShape
<1>6. CASE Failed
  <2>1. pc = "stream" /\ Len(response) = attempt /\ staging.mark = 0
    BY <1>6 DEF Failed, Over, CallShape
  <2>2. \A s : SubSeq(s, 1, 0) = <<>>
    OBVIOUS
  <2>3. staging' = [staging EXCEPT !.blocks = <<>>, !.usage = 0]
    BY <1>6, <2>1, <2>2 DEF Failed
  <2>4. staging'.blocks = <<>>
    BY <2>3 DEF ModelTypeOK, Stagings
  <2>5. pc' = "sleep" => attempt < MaxAttempts
    BY <1>6 DEF Failed, Retries
  <2> QED  BY <1>6, <2>1, <2>4, <2>5 DEF Failed, CallShape
<1>7. CASE Wake
  <2>1. attempt \in Nat
    BY AttemptsAssumption DEF ModelTypeOK
  <2> QED  BY <1>7, <2>1 DEF Wake, CallShape
<1>8. CASE BzExits \/ Sigterm
  BY <1>8 DEF BzExits, Sigterm, CallShape
<1>9. CASE pc' \notin {"create", "spawn", "sleep", "stream"}
  BY <1>9 DEF CallShape
<1>10. CASE /\ Driver \/ Crash \/ Prompted
            /\ ~(WriteRequest \/ CreateFiles \/ BeginSegment \/ Failed \/ Wake)
  <2>1. pc' \notin {"create", "spawn", "sleep", "stream"}
    BY <1>10 DEF Driver, StartDriver, Resolved, VersionSkew, HopStops, SpawnError, BadStream,
                 HalfStream, Truncated, Mismatch, Seal, Settle, WriteMeta, Rename, Commit,
                 StepFails, Crash, Prompted, Rest
  <2> QED  BY <2>1, <1>9
<1> QED  BY <1>1, <1>2, <1>3, <1>4, <1>5, <1>6, <1>7, <1>8, <1>10 DEF ModelNext, Driver, Bz

-----------------------------------------------------------------------------

\* A line that is read keeps what was parsed and staged the stream's.
LEMMA LineParsed ==
    ASSUME ModelTypeOK, CallShape, pc = "stream", ~seg.bad, Parsed(Segm), Staged(Segm),
           NEW l \in Words, Line(l), l \in Grammar \cup {"torn"}, Grammar # {},
           attempt' = attempt, ~seg'.bad
    PROVE  Parsed(Segm)' /\ Staged(Segm)'
<1>0. PICK before, after : before = Segm /\ after = Append(before, l)
  OBVIOUS
<1>1. before \in Seq(Words) /\ attempt \in Nat /\ seg \in Segments /\ staging \in Stagings
  BY <1>0, SegmTyped, AttemptsAssumption DEF ModelTypeOK
<1>2. PICK n \in Nat : /\ n = Len(before) /\ DOMAIN before = 1..n
                       /\ Len(after) = n + 1 /\ DOMAIN after = 1..(n + 1)
                       /\ after[n + 1] = l /\ \A i \in 1..n : after[i] = before[i]
                       /\ after # <<>>
  BY <1>0, <1>1, LenProperties, AppendProperties
<1>3. Segm' = after
  BY <1>0, LineTyped DEF Segm
<1>4. \A i \in 1..n : before[i] \notin {"end", "torn"}
  BY <1>0, <1>2 DEF Grammar, Saw
<1>5. ~seg.ended
  BY <1>0, <1>1, <1>2, <1>4, EmptySeq DEF Parsed
<1>6. /\ seg'.v = (IF l \in {"v", "other"} THEN l ELSE seg.v)
      /\ seg'.error = (IF l \in {"retryable", "fatal"} THEN l ELSE seg.error)
      /\ seg'.length <=> (l = "length" \/ (seg.length /\ l # "finish"))
      /\ seg'.ended <=> l = "end"
      /\ seg'.bad <=> l \in {"torn", "badstop"}
      /\ seg'.open <=> (l = "open" \/ (seg.open /\ l \notin {"stop", "badstop"}))
  BY <1>1, <1>5, LineRead
<1>7. l \in Grammar /\ l \notin {"torn", "badstop"}
  BY <1>6
<1>8. l = "end" => \E i \in 1..n : before[i] \in {"finish", "length", "retryable", "fatal"}
  BY <1>0, <1>2, <1>7 DEF Grammar, Saw
<1>9. l = "finish" => \A i \in 1..n : before[i] # "length"
  BY <1>0, <1>2, <1>7 DEF Grammar, Saw
<1>10. /\ l = "stop" => seg.open
       /\ l = "open" => ~seg.open
  BY <1>7 DEF Grammar
<1>11. Parsed(after)'
  <2>1. seg'.error = "none" => \A i \in 1..(n + 1) : after[i] \notin {"retryable", "fatal"}
    BY <1>0, <1>2, <1>6 DEF Parsed
  <2>2. \A i \in 1..(n + 1) : after[i] = "end" => i = n + 1
    BY <1>2, <1>4
  <2>3. seg'.ended => \E i \in 1..(n + 1) : after[i] \in {"finish", "length", "retryable", "fatal"}
    BY <1>2, <1>6, <1>8
  <2>4. \A i \in 1..(n + 1) : after[i] = "length" => seg'.length
    BY <1>0, <1>2, <1>6, <1>9 DEF Parsed
  <2>5. seg'.v = "v" => \E i \in 1..(n + 1) : after[i] = "v"
    BY <1>0, <1>2, <1>6 DEF Parsed
  <2> QED  BY <1>2, <1>6, <2>1, <2>2, <2>3, <2>4, <2>5 DEF Parsed
<1>12. Staged(after)'
  <2>1. staging' = CASE l = "stop" -> Flushed
                     [] l = "usage" -> [staging EXCEPT !.usage = attempt]
                     [] OTHER -> staging
    BY <1>5 DEF Line
  <2>2. Opens(after) = Opens(before) + (IF l = "open" THEN 1 ELSE 0)
    BY <1>0, <1>1, OpensAppend
  <2>3. PICK k \in Nat : k = Len(staging.blocks) /\ DOMAIN staging.blocks = 1..k
    BY <1>1, LenProperties DEF Stagings
  <2>4. Opens(before) = k + (IF seg.open THEN 1 ELSE 0)
    BY <1>0, <2>3 DEF Staged
  <2>5. \A j \in DOMAIN staging.blocks : staging.blocks[j] = attempt
    BY DEF Staged
  <2>6. staging.usage = (IF \E i \in 1..n : before[i] = "usage" THEN attempt ELSE 0)
    BY <1>0, <1>2 DEF Staged
  <2>7. CASE l = "stop"
    <3>1. staging' = [staging EXCEPT !.blocks = Append(staging.blocks, attempt)]
      BY <2>1, <2>7 DEF Flushed
    <3>2. staging'.blocks = Append(staging.blocks, attempt) /\ staging'.usage = staging.usage
      BY <1>1, <3>1 DEF Stagings
    <3>3. /\ Len(staging'.blocks) = k + 1
          /\ \A j \in DOMAIN staging'.blocks : staging'.blocks[j] = attempt
      BY <1>1, <2>3, <2>5, <3>2, AppendProperties, LenProperties DEF Stagings
    <3>4. Opens(after) = k + 1 /\ ~seg'.open
      BY <1>6, <1>10, <2>2, <2>4, <2>7
    <3>5. (\E i \in 1..(n + 1) : after[i] = "usage") <=> (\E i \in 1..n : before[i] = "usage")
      BY <1>2, <2>7
    <3> QED  BY <1>2, <2>6, <3>2, <3>3, <3>4, <3>5 DEF Staged
  <2>8. CASE l = "usage"
    <3>1. staging' = [staging EXCEPT !.usage = attempt]
      BY <2>1, <2>8
    <3>2. staging'.blocks = staging.blocks /\ staging'.usage = attempt
      BY <1>1, <3>1 DEF Stagings
    <3>3. Opens(after) = k + (IF seg'.open THEN 1 ELSE 0)
      BY <1>6, <2>2, <2>4, <2>8
    <3>4. \E i \in 1..(n + 1) : after[i] = "usage"
      BY <1>2, <2>8
    <3> QED  BY <1>2, <2>3, <2>5, <3>2, <3>3, <3>4 DEF Staged
  <2>9. CASE l \notin {"stop", "usage"}
    <3>1. staging' = staging
      BY <2>1, <2>9
    <3>2. Opens(after) = k + (IF seg'.open THEN 1 ELSE 0)
      BY <1>6, <1>7, <1>10, <2>2, <2>4, <2>9
    <3>3. (\E i \in 1..(n + 1) : after[i] = "usage") <=> (\E i \in 1..n : before[i] = "usage")
      BY <1>2, <2>9
    <3> QED  BY <1>2, <2>3, <2>5, <2>6, <3>1, <3>2, <3>3 DEF Staged
  <2> QED  BY <2>7, <2>8, <2>9
<1> QED  BY <1>3, <1>11, <1>12 DEF Parsed, Staged

LEMMA StreamsHold ==
    ASSUME ModelTypeOK, CallShape, Streams, [ModelNext]_modelVars
    PROVE  Streams'
<1> USE DEF world, branch, record, locals
<1> SUFFICES ASSUME pc' = "stream", ~seg'.bad  PROVE Parsed(Segm)' /\ Staged(Segm)'
  BY DEF Streams
<1>1. CASE BeginSegment
  <2>1. /\ response' = Append(response, <<>>) /\ seg' = Segment /\ staging.blocks = <<>>
        /\ staging' = [staging EXCEPT !.mark = Len(staging.blocks), !.usage = 0]
    BY <1>1 DEF BeginSegment, CallShape
  <2>2. <<>> \in Seq(Words)
    BY EmptySeq
  <2>3. Segm' = <<>>
    BY <2>1, <2>2, AppendProperties DEF Segm, ModelTypeOK
  <2>4. staging'.blocks = <<>> /\ staging'.usage = 0
    BY <2>1 DEF ModelTypeOK, Stagings
  <2>5. PICK s : s = <<>> /\ Opens(s) = 0 /\ DOMAIN s = {} /\ Len(s) = 0
    BY OpensNone
  <2>6. Parsed(s)' /\ Staged(s)'
    BY <2>1, <2>4, <2>5 DEF Parsed, Staged, Segment
  <2> QED  BY <2>3, <2>5, <2>6 DEF Parsed, Staged
<1>2. CASE BzWrites \/ BzTears
  <2>1. PICK l \in Grammar \cup {"torn"} : Line(l)
    BY <1>2 DEF BzWrites, BzTears
  <2>2. pc = "stream" /\ attempt' = attempt /\ Grammar # {} /\ l \in Words
    BY <1>2, <2>1 DEF BzWrites, BzTears, Grammar, Words
  <2>3. CASE ~seg.bad
    BY <2>1, <2>2, <2>3, LineParsed DEF Streams
  <2>4. CASE seg.bad
    BY <2>1, <2>4 DEF Line
  <2> QED  BY <2>3, <2>4
<1>3. CASE BzExits \/ Sigterm \/ UNCHANGED modelVars
  <2>1. pc' = pc /\ UNCHANGED <<seg, response, staging, attempt>>
    BY <1>3 DEF BzExits, Sigterm, modelVars
  <2>2. Parsed(Segm) /\ Staged(Segm) /\ Segm' = Segm
    BY <2>1 DEF Streams, Segm
  <2>3. PICK s : s = Segm
    OBVIOUS
  <2>4. Parsed(s)' /\ Staged(s)'
    BY <2>1, <2>2, <2>3 DEF Parsed, Staged
  <2> QED  BY <2>2, <2>3, <2>4 DEF Parsed, Staged
<1>4. CASE (Driver /\ ~BeginSegment) \/ Crash \/ Prompted
  BY <1>4 DEF Driver, StartDriver, Resolved, VersionSkew, HopStops, WriteRequest, CreateFiles,
              SpawnError, BadStream, Failed, HalfStream, Truncated, Mismatch, Seal, Wake, Settle,
              WriteMeta, Rename, Commit, StepFails, Crash, Prompted, Rest
<1> QED  BY <1>1, <1>2, <1>3, <1>4 DEF ModelNext, Driver, Bz

\* A step that makes no directory and no entry, and lets no stopped call pass.
LEMMA DiscardedKept ==
    ASSUME ModelTypeOK, Discarded, step' = step, messages' = messages,
           met' = IF flag' /\ pc' \in Calling THEN met \cup {step'} ELSE met,
           pc' \in Calling => pc \in Calling /\ (flag => flag'),
           pc' \in {"meta", "rename"} =>
               pc \in {"meta", "rename"} \/ (pc \in Calling /\ ~flag)
    PROVE  Discarded'
<1>1. \A n : HasEntry(n)' <=> HasEntry(n)
  BY DEF HasEntry, Range
<1>2. pc' \in Calling \cup {"meta", "rename"} => step > 0 /\ ~HasEntry(step)
  BY DEF Discarded
<1>3. HasEntry(step)' <=> HasEntry(step)
  BY DEF HasEntry, Range
<1>4. step \in 1..step \/ ~(step > 0)
  BY DEF ModelTypeOK
<1>5. \A n \in met' : n \in 1..step /\ ~HasEntry(n)
  BY <1>2, <1>4 DEF Discarded
<1>6. pc' \in Calling => (step \in met' => flag')
  BY DEF Discarded
<1>7. pc' \in {"meta", "rename"} => step \notin met'
  BY DEF Discarded, Calling
<1> QED  BY <1>1, <1>2, <1>3, <1>5, <1>6, <1>7 DEF Discarded

LEMMA DiscardedHolds ==
    ASSUME ModelTypeOK, Discarded, [ModelNext]_modelVars
    PROVE  Discarded'
<1> USE DEF world, branch, record, locals
<1>1. CASE UNCHANGED modelVars
  BY <1>1 DEF modelVars, Discarded, HasEntry, Range
<1>2. CASE ModelNext
  <2>1. met' = IF flag' /\ pc' \in Calling THEN met \cup {step'} ELSE met
    BY <1>2 DEF ModelNext
  <2>2. CASE WriteRequest
    <3>1. /\ step' = step + 1 /\ messages' = messages /\ pc' = "create" /\ ~flag' /\ met' = met
      BY <2>1, <2>2 DEF WriteRequest, ModelTypeOK
    <3>2. \A n \in 1..step : n \in 1..(step + 1) /\ n # step + 1
      BY DEF ModelTypeOK
    <3>3. step + 1 \notin met /\ step + 1 > 0
      BY <3>2 DEF Discarded, ModelTypeOK
    <3>4. PICK s : s = step + 1
      OBVIOUS
    <3>5. ~HasEntry(s)
      BY <3>2, <3>4 DEF Discarded, HasEntry, Range
    <3>6. \A n : HasEntry(n)' <=> HasEntry(n)
      BY <3>1 DEF HasEntry, Range
    <3>7. ~HasEntry(step)'
      BY <3>1, <3>4, <3>5 DEF HasEntry, Range
    <3> QED  BY <3>1, <3>2, <3>3, <3>6, <3>7 DEF Discarded
  <2>3. CASE Rename
    <3>1. /\ step' = step /\ messages' = Append(messages, step) /\ met' = met
          /\ pc = "rename" /\ pc' = "commit"
      BY <2>1, <2>3 DEF Rename, Calling
    <3>2. /\ DOMAIN messages' = 1..(Len(messages) + 1) /\ DOMAIN messages = 1..Len(messages)
          /\ messages'[Len(messages) + 1] = step /\ Len(messages) \in Nat
          /\ \A i \in 1..Len(messages) : messages'[i] = messages[i]
      BY <3>1, AppendProperties, LenProperties DEF ModelTypeOK
    <3>3. step \notin met /\ step \in 1..step
      BY <3>1 DEF Discarded, ModelTypeOK
    <3>4. \A i \in DOMAIN messages' : messages'[i] = step \/ \E k \in DOMAIN messages :
              messages'[i] = messages[k]
      BY <3>2
    <3>5. \A i \in DOMAIN messages' : messages'[i] \in 1..step
      BY <3>3, <3>4 DEF Discarded
    <3>6. \A n \in met : \A i \in DOMAIN messages' : messages'[i] # n
      BY <3>3, <3>4 DEF Discarded, HasEntry, Range
    <3>7. \A n \in met' : n \in 1..step' /\ ~HasEntry(n)'
      BY <3>1, <3>6 DEF Discarded, HasEntry, Range
    <3> QED  BY <3>1, <3>5, <3>7 DEF Discarded, Calling
  <2>4. CASE Driver /\ ~WriteRequest /\ ~Rename
    <3>1. step' = step /\ messages' = messages
      BY <2>4 DEF Driver, StartDriver, Resolved, VersionSkew, HopStops, CreateFiles,
                  BeginSegment, SpawnError, BadStream, Failed, HalfStream, Truncated, Mismatch,
                  Seal, Wake, Settle, WriteMeta, Commit, StepFails
    <3>2. pc' \in Calling => pc \in Calling /\ flag' = flag
      BY <2>4 DEF Driver, StartDriver, Resolved, VersionSkew, HopStops, CreateFiles,
                  BeginSegment, SpawnError, BadStream, Failed, HalfStream, Truncated, Mismatch,
                  Seal, Wake, Settle, WriteMeta, Commit, StepFails, Rest, Over, Answered, Calling
    <3>3. pc' \in {"meta", "rename"} => pc = "meta" \/ (pc = "return" /\ ~flag)
      BY <2>4 DEF Driver, StartDriver, Resolved, VersionSkew, HopStops, CreateFiles,
                  BeginSegment, SpawnError, BadStream, Failed, HalfStream, Truncated, Mismatch,
                  Seal, Wake, Settle, WriteMeta, Commit, StepFails, Rest
    <3> QED  BY <2>1, <3>1, <3>2, <3>3, DiscardedKept DEF Calling
  <2>5. CASE Bz \/ Sigterm \/ Crash \/ Prompted
    <3>1. step' = step /\ messages' = messages
      BY <2>5 DEF Bz, BzWrites, BzTears, BzExits, Sigterm, Crash, Prompted
    <3>2. pc' = pc \/ pc' = "rest"
      BY <2>5 DEF Bz, BzWrites, BzTears, BzExits, Sigterm, Crash, Prompted, Rest
    <3>3. pc' # "rest" => (flag => flag')
      BY <2>5 DEF Bz, BzWrites, BzTears, BzExits, Sigterm, Crash, Prompted, Rest
    <3> QED  BY <2>1, <3>1, <3>2, <3>3, DiscardedKept DEF Calling
  <2> QED  BY <1>2, <2>2, <2>3, <2>4, <2>5 DEF ModelNext
<1> QED  BY <1>1, <1>2

\* A sealed answer is whole.
LEMMA SealedWhole ==
    ASSUME ModelTypeOK, CallShape, Streams, Seal
    PROVE  Whole'
<1> DEFINE blocks == IF seg.open THEN Append(staging.blocks, attempt) ELSE staging.blocks
<1>1. /\ pc = "stream" /\ ~seg.bad /\ seg.error = "none" /\ seg.ended /\ ~seg.length
      /\ ~(override /\ seg.v # "v") /\ response' = response /\ override' = override
      /\ staging' = [IF seg.open THEN Flushed ELSE staging EXCEPT !.sealed = TRUE]
  BY DEF Seal, Answered, Over, world
<1>2. PICK s \in Seq(Words) : /\ s = Segm /\ s = response[attempt] /\ Len(response) = attempt
  BY <1>1, SegmTyped
<1>3. Parsed(s) /\ Staged(s)
  BY <1>1, <1>2 DEF Streams
<1>4. staging \in Stagings /\ attempt \in Nat \ {0} /\ seg.open \in BOOLEAN
  BY AttemptsAssumption DEF ModelTypeOK, Segments
<1>5. staging'.blocks = blocks /\ staging'.usage = staging.usage /\ staging'.sealed
  BY <1>1, <1>4 DEF Flushed, Stagings
<1>6. PICK k \in Nat : k = Len(staging.blocks) /\ DOMAIN staging.blocks = 1..k
  BY <1>4, LenProperties DEF Stagings
<1>7. blocks \in Seq(Nat) /\ Len(blocks) = Opens(s)
      /\ \A j \in 1..Len(blocks) : blocks[j] = attempt
  <2>1. CASE seg.open
    <3>1. /\ blocks \in Seq(Nat) /\ Len(blocks) = k + 1 /\ blocks[k + 1] = attempt
          /\ \A j \in 1..k : blocks[j] = staging.blocks[j]
      BY <1>4, <1>6, <2>1, AppendProperties DEF Stagings
    <3> QED  BY <1>3, <1>6, <2>1, <3>1 DEF Staged
  <2>2. CASE ~seg.open
    <3>1. blocks = staging.blocks /\ blocks \in Seq(Nat)
      BY <1>4, <2>2 DEF Stagings
    <3>2. Opens(s) = k
      <4>1. Opens(s) = k + (IF seg.open THEN 1 ELSE 0)
        BY <1>3, <1>6 DEF Staged
      <4>2. k + (IF seg.open THEN 1 ELSE 0) = k
        BY <2>2
      <4> QED  BY <4>1, <4>2
    <3>3. \A j \in 1..k : staging.blocks[j] = attempt
      BY <1>3, <1>6 DEF Staged
    <3>4. Len(blocks) = k /\ \A j \in 1..k : blocks[j] = attempt
      BY <1>6, <3>1, <3>3
    <3> QED  BY <3>1, <3>2, <3>4
  <2> QED  BY <2>1, <2>2
<1> HIDE DEF blocks
<1>8. blocks = [j \in 1..Opens(s) |-> attempt]
  <2>1. blocks \in [1..Len(blocks) -> Nat]
    BY <1>7, LenProperties
  <2> QED  BY <1>7, <2>1
<1>9. \E i \in DOMAIN s : s[i] = "finish"
  BY <1>1, <1>3 DEF Parsed
<1>10. PICK a : a = attempt
  OBVIOUS
<1>11. a = Len(response') /\ a > 0 /\ response'[a] = s
  BY <1>1, <1>2, <1>4, <1>10
<1>12. staging'.blocks = [j \in 1..Opens(s) |-> a]
       /\ staging'.usage = (IF \E i \in DOMAIN s : s[i] = "usage" THEN a ELSE 0)
  BY <1>3, <1>5, <1>8, <1>10 DEF Staged
<1>13. s # <<>> /\ s[Len(s)] = "end" /\ (override => \E i \in DOMAIN s : s[i] = "v")
       /\ \A i \in DOMAIN s : s[i] \notin {"retryable", "fatal"}
  BY <1>1, <1>3 DEF Parsed
<1> QED  BY <1>1, <1>5, <1>9, <1>11, <1>12, <1>13 DEF Whole

LEMMA WholeHolds ==
    ASSUME ModelInv, [ModelNext]_modelVars, Settled'
    PROVE  Whole'
<1> USE DEF world, branch, record, locals, ModelInv
<1>1. Discarded'
  BY DiscardedHolds
<1>2. pc' \in Calling => pc' = "return" /\ result' = "ok"
  BY <1>1 DEF Settled, Discarded, Calling
<1>3. ASSUME UNCHANGED <<override, response, staging>>, Settled  PROVE Whole'
  BY <1>3 DEF Whole
<1>4. CASE UNCHANGED modelVars
  <2>1. Settled
    BY <1>4 DEF modelVars, Settled, HasEntry, Range
  <2> QED  BY <1>3, <1>4, <2>1 DEF modelVars
<1>5. CASE WriteRequest \/ BeginSegment \/ BzWrites \/ BzTears \/ Failed
  BY <1>2, <1>5 DEF WriteRequest, BeginSegment, BzWrites, BzTears, Failed, Over, Calling
<1>6. CASE Seal
  BY <1>6, SealedWhole
<1>7. CASE Rename
  <2>1. Settled
    BY <1>7 DEF Rename, Settled
  <2> QED  BY <1>3, <1>7, <2>1 DEF Rename
<1>8. CASE StartDriver \/ Resolved \/ VersionSkew \/ HopStops \/ CreateFiles \/ SpawnError
           \/ BadStream \/ HalfStream \/ Truncated \/ Mismatch \/ Wake \/ Settle
           \/ WriteMeta \/ Commit \/ StepFails \/ BzExits \/ Sigterm \/ Crash \/ Prompted
  <2>1. UNCHANGED <<override, step, response, staging, messages>>
    BY <1>8 DEF StartDriver, Resolved, VersionSkew, HopStops, CreateFiles, SpawnError,
                BadStream, HalfStream, Truncated, Mismatch, Wake, Settle, WriteMeta, Commit,
                StepFails, BzExits, Sigterm, Crash, Prompted
  <2>2. HasEntry(step)' <=> HasEntry(step)
    BY <2>1 DEF HasEntry, Range
  <2>3. pc' \in {"meta", "rename", "commit"} \/ (pc' = "return" /\ result' = "ok") => Settled
    BY <1>8 DEF StartDriver, Resolved, VersionSkew, HopStops, CreateFiles, SpawnError,
                BadStream, HalfStream, Truncated, Mismatch, Wake, Settle, WriteMeta, Commit,
                StepFails, BzExits, Sigterm, Crash, Prompted, Rest, Settled
  <2>4. Settled
    BY <2>2, <2>3 DEF Settled
  <2> QED  BY <1>3, <2>1, <2>4
<1> QED  BY <1>4, <1>5, <1>6, <1>7, <1>8 DEF ModelNext, Driver, Bz

LEMMA ModelInvariant == ModelSpec => []ModelInv
<1>1. ModelInv /\ [ModelNext]_modelVars => ModelInv'
  <2> SUFFICES ASSUME ModelInv, [ModelNext]_modelVars  PROVE ModelInv'
    OBVIOUS
  <2>1. ModelTypeOK' /\ CallShape'
    BY ModelTypeHolds, CallShapeHolds DEF ModelInv
  <2>2. Streams' /\ Discarded'
    BY StreamsHold, DiscardedHolds DEF ModelInv
  <2>3. Settled' => Whole'
    BY WholeHolds
  <2> QED  BY <2>1, <2>2, <2>3 DEF ModelInv
<1> QED  BY <1>1, ModelStart, PTL DEF ModelSpec

(* The type invariant of the driver, its adapter and a step's files         *)
(* (model_call.rs, one_call.rs), for any number of attempts and bounds.     *)
THEOREM ModelTyping == ModelSpec => []ModelTypeOK
BY ModelInvariant, PTL DEF ModelInv

(* EntryIsOneAnswer (staging.rs, one_call.rs): an entry is one attempt's    *)
(* answer and the whole of it, a step that reads as dead has committed      *)
(* nothing unless its segments ran into each other, and a call the stop met *)
(* is discarded for good, whatever dies and however often it is retried.    *)
THEOREM EntriesAreWhole == ModelSpec => []EntryIsOneAnswer
<1>1. ModelInv => EntryIsOneAnswer
  <2> SUFFICES ASSUME ModelInv  PROVE EntryIsOneAnswer
    OBVIOUS
  <2>1. \A n \in met : ~HasEntry(n)
    BY DEF ModelInv, Discarded
  <2>2. HasEntry(step) => Whole
    BY DEF ModelInv, Settled
  <2>3. Whole /\ ~Merged => ~ReadsDead
    BY WholeReads DEF ModelInv, ModelTypeOK, ReadsDead
  <2>4. \A f, w : w \in Range(f) <=> \E i \in DOMAIN f : f[i] = w
    BY DEF Range
  <2> QED  BY <2>1, <2>2, <2>3, <2>4 DEF EntryIsOneAnswer, Whole
<1> QED  BY <1>1, ModelInvariant, PTL

-----------------------------------------------------------------------------
(* Skills.  What a commit of the lineage, a branch and a proposal are.      *)

Commits == [live : [Names -> Bodies], archived : [Names -> Bodies], described : SUBSET Names]
Branches ==
    [role : {"none", "worker", "reviewer", "returned", "gone"},
     tree : Tree, founding : Tree, read : Nat, added : SUBSET Names]
Proposals == {None} \cup [parent : Nat, commit : Commits]

\* The type invariant.
SkillsTypeOK ==
    /\ pool \subseteq Names
    /\ lineage \in Seq(Commits) /\ lineage # <<>>
    /\ agents \in [Ids -> Branches]
    /\ proposals \in [Ids -> Proposals]
    /\ written \in 0 .. MaxBodies

\* What was founded on a commit with its bodies read in fresh.
FoundedOn(tree, commit) ==
    \A n \in Names :
        /\ commit.live[n] # Absent => tree.live[n] = commit.live[n]
        /\ commit.archived[n] # Absent => tree.archived[n] = commit.archived[n]

\* A reviewer's edits are counted from the bodies of the commit it read.
ReadFresh ==
    \A r \in Ids : agents[r].role = "reviewer" =>
        /\ agents[r].read \in DOMAIN lineage
        /\ FoundedOn(agents[r].founding, lineage[agents[r].read])

\* A body in a standing branch was added in the history of that branch.
AddedOnce == \A a \in Standing, n \in Names :
    agents[a].tree.live[n] # Absent => n \in agents[a].added

SkillsInv == SkillsTypeOK /\ ReadFresh /\ AddedOnce

LEMMA TheTip ==
    ASSUME SkillsTypeOK
    PROVE  Tip \in Commits /\ Tip = lineage[Len(lineage)] /\ Len(lineage) \in DOMAIN lineage
<1>1. Len(lineage) \in Nat /\ Len(lineage) # 0 /\ DOMAIN lineage = 1 .. Len(lineage)
  BY EmptySeq DEF SkillsTypeOK
<1>2. Len(lineage) \in 1 .. Len(lineage) BY <1>1
<1>3. lineage[Len(lineage)] \in Commits BY <1>1, <1>2 DEF SkillsTypeOK
<1> QED BY <1>1, <1>2, <1>3 DEF Tip, Last

\* A body an author writes is one of the bodies the bound allows for.
LEMMA EditsAreTrees ==
    ASSUME BodiesAssumption, written \in 0 .. MaxBodies, written < MaxBodies,
           NEW tree \in Tree, NEW edited \in Edits(tree, written + 2)
    PROVE  edited \in Tree
<1>1. written + 2 \in Bodies /\ Absent \in Bodies BY DEF BodiesAssumption, Bodies, Absent
<1>2. tree.live \in [Names -> Bodies] /\ tree.archived \in [Names -> Bodies] BY DEF Tree
<1>3. CASE \E n \in Names : edited = [tree EXCEPT !.live[n] = written + 2]
  BY <1>1, <1>2, <1>3 DEF Tree
<1>4. ASSUME NEW n \in Names,
             edited = [tree EXCEPT !.live[n] = Absent, !.archived[n] = tree.live[n]]
      PROVE  edited \in Tree
  <2>1. edited = [live |-> [tree.live EXCEPT ![n] = Absent],
                  archived |-> [tree.archived EXCEPT ![n] = tree.live[n]]]
    BY <1>2, <1>4 DEF Tree
  <2>2. tree.live[n] \in Bodies BY <1>2
  <2> QED BY <1>1, <1>2, <2>1, <2>2 DEF Tree
<1>5. ASSUME NEW n \in Names,
             edited = [tree EXCEPT !.live[n] = tree.archived[n], !.archived[n] = Absent]
      PROVE  edited \in Tree
  <2>1. edited = [live |-> [tree.live EXCEPT ![n] = tree.archived[n]],
                  archived |-> [tree.archived EXCEPT ![n] = Absent]]
    BY <1>2, <1>5 DEF Tree
  <2>2. tree.archived[n] \in Bodies BY <1>2
  <2> QED BY <1>1, <1>2, <2>1, <2>2 DEF Tree
<1> QED BY <1>3, <1>4, <1>5 DEF Edits

LEMMA SnapshotsAreCommits ==
    ASSUME SkillsTypeOK, NEW parent \in Commits, NEW tree \in Tree
    PROVE  Snapshot(parent, tree) \in Commits
BY DEF Snapshot, Commits, Tree, SkillsTypeOK

LEMMA TrimsAreTrees ==
    ASSUME BodiesAssumption, NEW tree \in Tree, NEW duty, NEW commit \in Commits
    PROVE  Trim(tree, duty, commit) \in Tree
<1> DEFINE dropped == DropConfigBodies(tree, commit)
<1>1. Absent \in Bodies BY DEF BodiesAssumption, Bodies, Absent
<1>2. dropped \in Tree BY <1>1 DEF DropConfigBodies, Tree, Commits, Nowhere
<1>3. FreshRead(dropped, commit) \in Tree
  <2> HIDE DEF dropped
  <2> QED BY <1>2 DEF FreshRead, Tree, Commits
<1> QED BY <1>2, <1>3 DEF Trim

\* What keeps the agents as they are, and the lineage or extends it.
LEMMA LineageGrows ==
    ASSUME SkillsInv, NEW commit \in Commits, lineage' = Append(lineage, commit), UNCHANGED agents
    PROVE  lineage' \in Seq(Commits) /\ lineage' # <<>> /\ ReadFresh' /\ AddedOnce'
<1>1. lineage' \in Seq(Commits) /\ lineage' # <<>>
      /\ \A i \in DOMAIN lineage : i \in DOMAIN lineage' /\ lineage'[i] = lineage[i]
  BY DEF SkillsInv, SkillsTypeOK
<1>2. ReadFresh' BY <1>1 DEF SkillsInv, ReadFresh
<1>3. AddedOnce' BY DEF SkillsInv, AddedOnce, Standing
<1> QED BY <1>1, <1>2, <1>3

LEMMA PrimeStep ==
    ASSUME ReleasesAssumption, SkillsInv, Prime
    PROVE  SkillsInv'
<1>1. SkillsTypeOK' BY DEF SkillsInv, SkillsTypeOK, Prime, ReleasesAssumption
<1>2. ReadFresh' /\ AddedOnce' BY DEF SkillsInv, Prime, ReadFresh, AddedOnce, Standing
<1> QED BY <1>1, <1>2 DEF SkillsInv

LEMMA ConfigStep ==
    ASSUME BodiesAssumption, SkillsInv, Config
    PROVE  SkillsInv'
<1>1. Tip \in Commits BY TheTip DEF SkillsInv
<1>2. Skills(Tip) \in Tree BY <1>1 DEF Skills, Tree, Commits
<1>3. PICK tree \in Edits(Skills(Tip), written + 2) :
         /\ lineage' = Append(lineage, Snapshot(Tip, tree))
         /\ written' \in {written, written + 1}
  BY DEF Config
<1>4. written \in 0 .. MaxBodies /\ written < MaxBodies
  BY DEF SkillsInv, SkillsTypeOK, Config
<1>5. tree \in Tree BY <1>2, <1>3, <1>4, EditsAreTrees
<1>6. Snapshot(Tip, tree) \in Commits BY <1>1, <1>5, SnapshotsAreCommits DEF SkillsInv
<1>7. UNCHANGED <<pool, agents, proposals>> BY DEF Config
<1>8. lineage' \in Seq(Commits) /\ lineage' # <<>> /\ ReadFresh' /\ AddedOnce'
  BY <1>3, <1>6, <1>7, LineageGrows
<1>9. written' \in 0 .. MaxBodies BY <1>3, <1>4 DEF BodiesAssumption
<1>10. SkillsTypeOK' BY <1>7, <1>8, <1>9 DEF SkillsInv, SkillsTypeOK
<1> QED BY <1>8, <1>10 DEF SkillsInv

LEMMA AcceptStep ==
    ASSUME SkillsInv, Accept
    PROVE  SkillsInv'
<1>1. PICK r \in Ids :
         /\ proposals[r].parent = Len(lineage)
         /\ lineage' = Append(lineage, proposals[r].commit)
         /\ proposals' = [proposals EXCEPT ![r] = None]
         /\ UNCHANGED <<pool, agents, written>>
  BY DEF Accept
<1>2. Len(lineage) \in Nat \ {0} BY EmptySeq DEF SkillsInv, SkillsTypeOK
<1>3. proposals[r] # None BY <1>1, <1>2 DEF None
<1>4. proposals[r] \in Proposals BY <1>1 DEF SkillsInv, SkillsTypeOK
<1>5. proposals[r].commit \in Commits BY <1>3, <1>4 DEF Proposals
<1>6. lineage' \in Seq(Commits) /\ lineage' # <<>> /\ ReadFresh' /\ AddedOnce'
  BY <1>1, <1>5, LineageGrows
<1>7. None \in Proposals BY DEF Proposals
<1>8. SkillsTypeOK' BY <1>1, <1>6, <1>7 DEF SkillsInv, SkillsTypeOK
<1> QED BY <1>6, <1>8 DEF SkillsInv

LEMMA RejectStep ==
    ASSUME SkillsInv, Reject
    PROVE  SkillsInv'
<1>1. None \in Proposals BY DEF Proposals
<1>2. SkillsTypeOK' BY <1>1 DEF SkillsInv, SkillsTypeOK, Reject
<1>3. ReadFresh' /\ AddedOnce' BY DEF SkillsInv, Reject, ReadFresh, AddedOnce, Standing
<1> QED BY <1>2, <1>3 DEF SkillsInv

\* What one branch has to be for a step of its agent to keep the invariant.
Sound(b) ==
    /\ b \in Branches
    /\ b.role = "reviewer" => b.read \in DOMAIN lineage /\ FoundedOn(b.founding, lineage[b.read])
    /\ b.role \notin {"none", "gone"} => \A n \in Names : b.tree.live[n] # Absent => n \in b.added

LEMMA BranchesAreSound ==
    ASSUME SkillsInv, NEW a \in Ids
    PROVE  Sound(agents[a])
BY DEF SkillsInv, SkillsTypeOK, ReadFresh, AddedOnce, Standing, Sound

LEMMA BranchStep ==
    ASSUME SkillsInv, NEW a \in Ids, NEW b, Sound(b), agents' = [agents EXCEPT ![a] = b],
           UNCHANGED <<pool, lineage>>, proposals' \in [Ids -> Proposals],
           written' \in 0 .. MaxBodies
    PROVE  SkillsInv'
<1>1. SkillsTypeOK' BY DEF SkillsInv, SkillsTypeOK, Sound
<1>2. \A c \in Ids : Sound(agents'[c]) BY BranchesAreSound DEF SkillsInv, SkillsTypeOK
<1>3. ReadFresh' BY <1>2 DEF Sound, ReadFresh
<1>4. AddedOnce' BY <1>2 DEF Sound, AddedOnce, Standing
<1> QED BY <1>1, <1>3, <1>4 DEF SkillsInv

\* The fresh read leaves the commit's own bodies.
LEMMA ReadIsFresh ==
    ASSUME NEW tree, NEW commit \in Commits
    PROVE  FoundedOn(Trim(tree, "reviewer", commit), commit)
BY DEF FoundedOn, Trim, FreshRead

\* A dispatched branch is sound when what it carries over of its fork point
\* was in the history it shares.
LEMMA DispatchStep ==
    ASSUME BodiesAssumption, SkillsInv, NEW a \in Ids, NEW duty \in {"worker", "reviewer"},
           NEW from \in Tree, NEW carried \in Tree, NEW history \in SUBSET Names,
           Dispatched(a, duty, from, Trim(carried, duty, Tip), history),
           UNCHANGED <<pool, lineage, proposals, written>>,
           \A n \in Names : from.live[n] # Absent /\ Trim(carried, duty, Tip).live[n] # Absent
                              => n \in history
    PROVE  SkillsInv'
<1> DEFINE tree == Trim(carried, duty, Tip)
           b == [role |-> duty, tree |-> tree, founding |-> tree, read |-> Len(lineage),
                 added |-> history \cup Added(from, tree)]
<1>1. Tip \in Commits /\ Tip = lineage[Len(lineage)] /\ Len(lineage) \in DOMAIN lineage
  BY TheTip DEF SkillsInv
<1>2. tree \in Tree BY <1>1, TrimsAreTrees
<1>3. agents' = [agents EXCEPT ![a] = b] BY DEF Dispatched
<1>4. Len(lineage) \in Nat BY DEF SkillsInv, SkillsTypeOK
<1>5. duty = "reviewer" => FoundedOn(tree, lineage[Len(lineage)])
  BY <1>1, ReadIsFresh
<1>6. Sound(b)
  <2> HIDE DEF tree
  <2>1. b \in Branches BY <1>2, <1>4 DEF Branches, Added
  <2>2. \A n \in Names : tree.live[n] # Absent => n \in b.added
    <3> TAKE n \in Names
    <3> QED BY DEF Added, tree
  <2> QED BY <1>1, <1>5, <2>1, <2>2 DEF Sound
<1>7. proposals' \in [Ids -> Proposals] /\ written' \in 0 .. MaxBodies
  BY DEF SkillsInv, SkillsTypeOK
<1> HIDE DEF b
<1> QED BY <1>3, <1>6, <1>7, BranchStep

\* A root off the head of the lineage carries over nothing that the drop
\* does not take.
LEMMA RootStep ==
    ASSUME BodiesAssumption, ~Older, SkillsInv, Root
    PROVE  SkillsInv'
<1>1. PICK a \in Ids : Dispatched(a, "worker", Skills(Tip), Trim(Skills(Tip), "worker", Tip), {})
  <2>1. PICK a \in Ids, i \in 1 .. Len(lineage) :
           /\ i = Len(lineage)
           /\ Dispatched(a, "worker", Skills(lineage[i]), Trim(Skills(lineage[i]), "worker", Tip), {})
    BY DEF Root
  <2>2. lineage[i] = Tip BY <2>1, TheTip DEF SkillsInv
  <2> QED BY <2>1, <2>2
<1>2. UNCHANGED <<pool, lineage, proposals, written>> BY DEF Root
<1>3. Tip \in Commits BY TheTip DEF SkillsInv
<1>4. Skills(Tip) \in Tree BY <1>3 DEF Skills, Tree, Commits
<1>5. \A n \in Names : Skills(Tip).live[n] # Absent
                         => Trim(Skills(Tip), "worker", Tip).live[n] = Absent
  BY <1>3 DEF Trim, DropConfigBodies, Skills, Commits
<1> QED BY <1>1, <1>2, <1>4, <1>5, DispatchStep

LEMMA ForkStep ==
    ASSUME BodiesAssumption, SkillsInv, Fork
    PROVE  SkillsInv'
<1>1. PICK a \in Ids, p \in Standing, duty \in {"worker", "reviewer"}, keeps \in BOOLEAN :
         Dispatched(a, duty, agents[p].tree, Trim(Inherited(agents[p].tree, keeps), duty, Tip),
                    agents[p].added)
  BY DEF Fork
<1>2. UNCHANGED <<pool, lineage, proposals, written>> BY DEF Fork
<1>3. p \in Ids /\ agents[p] \in Branches BY DEF SkillsInv, SkillsTypeOK, Standing
<1>4. agents[p].tree \in Tree /\ agents[p].added \in SUBSET Names BY <1>3 DEF Branches
<1>5. Inherited(agents[p].tree, keeps) \in Tree
  <2>1. Empty \in Tree
    BY DEF Empty, Tree, Nowhere, Bodies, Absent, BodiesAssumption
  <2> QED BY <1>4, <2>1 DEF Inherited
<1>6. \A n \in Names : agents[p].tree.live[n] # Absent => n \in agents[p].added
  BY DEF SkillsInv, AddedOnce
<1> QED BY <1>1, <1>2, <1>4, <1>5, <1>6, DispatchStep

LEMMA LoadSkillStep ==
    ASSUME BodiesAssumption, SkillsInv, LoadSkill
    PROVE  SkillsInv'
<1>1. PICK a \in Standing, n \in Names :
         LET loaded == [agents[a].tree EXCEPT !.live[n] = Body(agents[a].tree, n)]
         IN  /\ agents[a].role = "worker"
             /\ agents' = [agents EXCEPT ![a].tree = loaded,
                                         ![a].added = @ \cup Added(agents[a].tree, loaded)]
  BY DEF LoadSkill
<1> DEFINE tree == agents[a].tree
           loaded == [tree EXCEPT !.live[n] = Body(tree, n)]
           b == [agents[a] EXCEPT !.tree = loaded, !.added = @ \cup Added(tree, loaded)]
<1>2. a \in Ids /\ agents[a] \in Branches /\ Sound(agents[a])
  BY BranchesAreSound DEF SkillsInv, SkillsTypeOK, Standing
<1>3. tree \in Tree BY <1>2 DEF Branches
<1>4. Tip \in Commits BY TheTip DEF SkillsInv
<1>5. Body(tree, n) \in Bodies
  BY <1>3, <1>4 DEF Body, Tree, Commits, Bodies, Absent, Pool, BodiesAssumption
<1>6. loaded = [live |-> [tree.live EXCEPT ![n] = Body(tree, n)], archived |-> tree.archived]
  BY <1>3 DEF Tree
<1>7. loaded \in Tree
  <2> HIDE DEF loaded
  <2> QED BY <1>3, <1>5, <1>6 DEF Tree
<1>8. agents' = [agents EXCEPT ![a] = b] BY <1>1, <1>2 DEF Branches, SkillsInv, SkillsTypeOK
<1>9. Sound(b)
  <2> HIDE DEF loaded
  <2>1. b \in Branches BY <1>2, <1>7 DEF Branches, Added
  <2>2. /\ b.role = agents[a].role /\ b.read = agents[a].read /\ b.tree = loaded
        /\ b.founding = agents[a].founding
        /\ b.added = agents[a].added \cup Added(tree, loaded)
    BY <1>2 DEF Branches
  <2>3. \A m \in Names : loaded.live[m] # Absent => m \in b.added
    BY <1>1, <1>2, <2>2 DEF Added, Sound
  <2> HIDE DEF b
  <2> QED BY <1>1, <1>2, <2>1, <2>2, <2>3 DEF Sound
<1>10. UNCHANGED <<pool, lineage>> /\ proposals' \in [Ids -> Proposals] /\ written' \in 0 .. MaxBodies
  BY DEF LoadSkill, SkillsInv, SkillsTypeOK
<1> HIDE DEF b
<1> QED BY <1>2, <1>8, <1>9, <1>10, BranchStep

LEMMA CurateStep ==
    ASSUME BodiesAssumption, SkillsInv, Curate
    PROVE  SkillsInv'
<1>1. PICK a \in Standing, n \in Names :
         /\ agents[a].role = "worker"
         /\ agents' = [agents EXCEPT ![a].tree.live[n] = Absent]
  BY DEF Curate
<1> DEFINE tree == agents[a].tree
           curated == [live |-> [tree.live EXCEPT ![n] = Absent], archived |-> tree.archived]
           b == [agents[a] EXCEPT !.tree = curated]
<1>2. a \in Ids /\ agents[a] \in Branches /\ Sound(agents[a])
  BY BranchesAreSound DEF SkillsInv, SkillsTypeOK, Standing
<1>3. tree \in Tree BY <1>2 DEF Branches
<1>4. curated \in Tree
  <2>1. Absent \in Bodies BY DEF BodiesAssumption, Bodies, Absent
  <2> QED BY <1>3, <2>1 DEF Tree
<1>5. agents' = [agents EXCEPT ![a] = b]
  <2>1. [tree EXCEPT !.live[n] = Absent] = curated BY <1>3 DEF Tree
  <2>2. agents' = [agents EXCEPT ![a] = [agents[a] EXCEPT !.tree = [tree EXCEPT !.live[n] = Absent]]]
    BY <1>1, <1>2 DEF Branches, SkillsInv, SkillsTypeOK
  <2> QED BY <2>1, <2>2
<1>6. Sound(b)
  <2>1. b \in Branches /\ b.role = "worker" /\ b.tree = curated /\ b.added = agents[a].added
    <3> HIDE DEF curated
    <3> QED BY <1>1, <1>2, <1>4 DEF Branches
  <2>2. \A m \in Names : curated.live[m] # Absent => m \in agents[a].added
    BY <1>1, <1>2, <1>3 DEF Sound, Tree
  <2> HIDE DEF curated, b
  <2> QED BY <2>1, <2>2 DEF Sound
<1>7. UNCHANGED <<pool, lineage>> /\ proposals' \in [Ids -> Proposals] /\ written' \in 0 .. MaxBodies
  BY DEF Curate, SkillsInv, SkillsTypeOK
<1> HIDE DEF b
<1> QED BY <1>2, <1>5, <1>6, <1>7, BranchStep

\* The reviewer's founding tree stays as its dispatch left it.
LEMMA PatchStep ==
    ASSUME BodiesAssumption, SkillsInv, Patch
    PROVE  SkillsInv'
<1>1. PICK r \in Standing : \E tree \in Edits(agents[r].tree, written + 2) :
         /\ written < MaxBodies
         /\ agents[r].role = "reviewer"
         /\ agents' = [agents EXCEPT ![r].tree = tree,
                                     ![r].added = @ \cup Added(agents[r].tree, tree)]
         /\ written' \in {written, written + 1}
  BY DEF Patch
<1>2. PICK tree \in Edits(agents[r].tree, written + 2) :
         agents' = [agents EXCEPT ![r].tree = tree,
                                  ![r].added = @ \cup Added(agents[r].tree, tree)]
  BY <1>1
<1> DEFINE b == [agents[r] EXCEPT !.tree = tree, !.added = @ \cup Added(agents[r].tree, tree)]
<1>3. r \in Ids /\ agents[r] \in Branches /\ Sound(agents[r])
  BY BranchesAreSound DEF SkillsInv, SkillsTypeOK, Standing
<1>4. written \in 0 .. MaxBodies /\ written < MaxBodies /\ written' \in 0 .. MaxBodies
  BY <1>1 DEF SkillsInv, SkillsTypeOK, BodiesAssumption
<1>5. agents[r].tree \in Tree BY <1>3 DEF Branches
<1>6. tree \in Tree BY <1>4, <1>5, EditsAreTrees
<1>7. agents' = [agents EXCEPT ![r] = b] BY <1>2, <1>3 DEF Branches, SkillsInv, SkillsTypeOK
<1>8. Sound(b)
  <2>1. b \in Branches BY <1>3, <1>6 DEF Branches, Added
  <2>2. /\ b.role = "reviewer" /\ b.read = agents[r].read /\ b.tree = tree
        /\ b.founding = agents[r].founding
        /\ b.added = agents[r].added \cup Added(agents[r].tree, tree)
    BY <1>1, <1>3 DEF Branches
  <2>3. \A m \in Names : tree.live[m] # Absent => m \in b.added
    BY <1>1, <1>3, <2>2 DEF Added, Sound
  <2> HIDE DEF b
  <2> QED BY <1>1, <1>3, <2>1, <2>2, <2>3 DEF Sound
<1>9. UNCHANGED <<pool, lineage>> /\ proposals' \in [Ids -> Proposals]
  BY DEF Patch, SkillsInv, SkillsTypeOK
<1> HIDE DEF b
<1> QED BY <1>3, <1>4, <1>7, <1>8, <1>9, BranchStep

LEMMA UnbornIsSound ==
    ASSUME BodiesAssumption
    PROVE  Unborn \in Branches /\ Empty \in Tree
<1>1. Empty \in Tree BY DEF Empty, Tree, Nowhere, Bodies, Absent, BodiesAssumption
<1> QED BY <1>1 DEF Unborn, Branches

LEMMA DeleteStep ==
    ASSUME BodiesAssumption, SkillsInv, Delete
    PROVE  SkillsInv'
<1> DEFINE b == [Unborn EXCEPT !.role = "gone"]
<1>1. PICK a \in Ids : agents' = [agents EXCEPT ![a] = b] BY DEF Delete, Standing
<1>2. b \in Branches /\ b.role = "gone" BY UnbornIsSound DEF Branches
<1>3. Sound(b) BY <1>2 DEF Sound
<1>4. UNCHANGED <<pool, lineage>> /\ proposals' \in [Ids -> Proposals] /\ written' \in 0 .. MaxBodies
  BY DEF Delete, SkillsInv, SkillsTypeOK
<1> HIDE DEF b
<1> QED BY <1>1, <1>3, <1>4, BranchStep

LEMMA MintsProposals ==
    ASSUME SkillsInv, NEW a \in Branches, a.read \in DOMAIN lineage
    PROVE  Mint(a) \in Proposals
<1>1. lineage[a.read] \in Commits BY DEF SkillsInv, SkillsTypeOK
<1>2. Patched(a, lineage[a.read]) \in Tree BY <1>1 DEF Patched, Tree, Commits, Branches
<1>3. Snapshot(lineage[a.read], Patched(a, lineage[a.read])) \in Commits
  BY <1>1, <1>2, SnapshotsAreCommits DEF SkillsInv
<1>4. a.read \in Nat BY DEF Branches
<1> QED BY <1>3, <1>4 DEF Mint, Proposals

LEMMA StageProposalStep ==
    ASSUME SkillsInv, StageProposal
    PROVE  SkillsInv'
<1>1. PICK r \in Standing :
         /\ agents[r].role = "reviewer"
         /\ agents' = [agents EXCEPT ![r].role = "returned"]
         /\ \/ proposals' = [proposals EXCEPT ![r] = Mint(agents[r])]
            \/ proposals' = [proposals EXCEPT ![r] = None]
  BY DEF StageProposal
<1> DEFINE b == [agents[r] EXCEPT !.role = "returned"]
<1>2. r \in Ids /\ agents[r] \in Branches /\ Sound(agents[r])
  BY BranchesAreSound DEF SkillsInv, SkillsTypeOK, Standing
<1>3. agents' = [agents EXCEPT ![r] = b] BY <1>1, <1>2 DEF Branches, SkillsInv, SkillsTypeOK
<1>4. b \in Branches /\ b.role = "returned" /\ b.tree = agents[r].tree /\ b.added = agents[r].added
  BY <1>2 DEF Branches
<1>5. Sound(b) BY <1>1, <1>2, <1>4 DEF Sound
<1>6. Mint(agents[r]) \in Proposals BY <1>1, <1>2, MintsProposals DEF Sound
<1>7. None \in Proposals BY DEF Proposals
<1>8. proposals' \in [Ids -> Proposals] BY <1>1, <1>6, <1>7 DEF SkillsInv, SkillsTypeOK
<1>9. UNCHANGED <<pool, lineage>> /\ written' \in 0 .. MaxBodies
  BY DEF StageProposal, SkillsInv, SkillsTypeOK
<1> HIDE DEF b
<1> QED BY <1>2, <1>3, <1>5, <1>8, <1>9, BranchStep

LEMMA SkillsStart ==
    ASSUME ReleasesAssumption, BodiesAssumption, SkillsInit
    PROVE  SkillsInv
<1>1. pool \subseteq Names BY DEF SkillsInit, ReleasesAssumption
<1>2. [live |-> Nowhere, archived |-> Nowhere, described |-> pool] \in Commits
  BY <1>1 DEF Commits, Nowhere, Bodies, Absent, BodiesAssumption
<1>3. lineage \in Seq(Commits) /\ lineage # <<>> BY <1>2 DEF SkillsInit
<1>4. agents \in [Ids -> Branches] BY UnbornIsSound DEF SkillsInit
<1>5. proposals \in [Ids -> Proposals] BY DEF SkillsInit, Proposals
<1>6. SkillsTypeOK BY <1>1, <1>3, <1>4, <1>5 DEF SkillsTypeOK, SkillsInit, BodiesAssumption
<1>7. \A a \in Ids : agents[a].role = "none" BY DEF SkillsInit, Unborn
<1> QED BY <1>6, <1>7 DEF SkillsInv, ReadFresh, AddedOnce, Standing

LEMMA SkillsStep ==
    ASSUME ReleasesAssumption, BodiesAssumption, ~Older, SkillsInv, [SkillsNext]_skillsVars
    PROVE  SkillsInv'
<1>1. CASE UNCHANGED skillsVars
  BY <1>1 DEF skillsVars, SkillsInv, SkillsTypeOK, ReadFresh, AddedOnce, Standing
<1> QED
  BY <1>1, PrimeStep, ConfigStep, AcceptStep, RejectStep, RootStep, ForkStep, LoadSkillStep,
     CurateStep, PatchStep, DeleteStep, StageProposalStep DEF SkillsNext

LEMMA SkillsInvariant ==
    ASSUME ReleasesAssumption, BodiesAssumption, ~Older
    PROVE  SkillsSpec => []SkillsInv
<1>1. SkillsInit => SkillsInv BY SkillsStart
<1>2. SkillsInv /\ [SkillsNext]_skillsVars => SkillsInv' BY SkillsStep
<1> QED BY <1>1, <1>2, PTL DEF SkillsSpec

\* A skill some standing branch holds was used by that branch.
LEMMA UsedIsNotIdle ==
    ASSUME SkillsInv
    PROVE  IdleIsIdle
<1>1. \A row \in Rows : row.name \in Names BY DEF Rows, SkillsInv, SkillsTypeOK
<1>2. ASSUME NEW row \in Rows, NEW a \in Standing, agents[a].tree.live[row.name] # Absent
      PROVE  State(row.name) \in {"active", "archived"}
  <2>1. row.name \in agents[a].added BY <1>1, <1>2 DEF SkillsInv, AddedOnce
  <2> QED BY <2>1 DEF State, LastUse
<1> QED BY <1>2 DEF IdleIsIdle

\* A reviewer's edits that are the lineage's to make apply to what it read.
LEMMA JudgeableMints ==
    ASSUME SkillsInv, NEW a \in Branches, a.read \in DOMAIN lineage,
           FoundedOn(a.founding, lineage[a.read]), Judgeable(a)
    PROVE  /\ Admitted(a) /\ Changed(a) \cup Moved(a) # {}
           /\ Mint(a) = [parent |-> Len(lineage), commit |-> Snapshot(Tip, Patched(a, Tip))]
<1>1. Tip \in Commits /\ lineage[a.read] = Tip /\ a.read = Len(lineage)
  BY TheTip DEF SkillsInv, Judgeable
<1>2. a.tree \in Tree /\ a.founding \in Tree BY DEF Branches
<1>3. pool \subseteq Names /\ \A n \in pool : a.tree.live[n] = a.founding.live[n]
  BY DEF Judgeable, SkillsInv, SkillsTypeOK
<1>4. Admitted(a) BY <1>3 DEF Admitted, Changed
<1>5. Changed(a) \cup Moved(a) # {}
  <2>1. SUFFICES ASSUME Changed(a) = {}, Moved(a) = {} PROVE FALSE OBVIOUS
  <2>2. a.tree.live = a.founding.live BY <1>2, <2>1 DEF Changed, Tree
  <2>3. a.tree.archived = a.founding.archived BY <1>2, <2>1 DEF Moved, Tree
  <2>4. a.tree = a.founding BY <1>2, <2>2, <2>3 DEF Tree
  <2> QED BY <2>4 DEF Judgeable
<1>6. \A n \in Changed(a) : Tip.live[n] = a.founding.live[n]
  <2>1. TAKE n \in Changed(a)
  <2>2. n \in Names /\ a.tree.live[n] # a.founding.live[n] BY <2>1 DEF Changed
  <2>3. Tip.live[n] # Absent \/ a.founding.live[n] = Absent
    <3>1. \A part \in {"live", "archived"}, m \in Names : a.tree[part][m] # a.founding[part][m] =>
             Tip[part][m] # Absent \/ a.founding[part][m] = Absent
      BY DEF Judgeable
    <3>2. a.tree["live"] = a.tree.live /\ a.founding["live"] = a.founding.live
          /\ Tip["live"] = Tip.live
      OBVIOUS
    <3> QED BY <2>2, <3>1, <3>2
  <2> QED BY <1>1, <2>2, <2>3 DEF FoundedOn
<1>7. \A n \in Moved(a) : Tip.archived[n] = a.founding.archived[n]
  <2>1. TAKE n \in Moved(a)
  <2>2. n \in Names /\ a.tree.archived[n] # a.founding.archived[n] BY <2>1 DEF Moved
  <2>3. Tip.archived[n] # Absent \/ a.founding.archived[n] = Absent
    <3>1. \A part \in {"live", "archived"}, m \in Names : a.tree[part][m] # a.founding[part][m] =>
             Tip[part][m] # Absent \/ a.founding[part][m] = Absent
      BY DEF Judgeable
    <3> QED BY <2>2, <3>1
  <2> QED BY <1>1, <2>2, <2>3 DEF FoundedOn
<1>8. Applies(a, Tip) BY <1>6, <1>7 DEF Applies
<1>9. ~Collides(Patched(a, Tip))
  <2>1. \A n \in pool : Patched(a, Tip).live[n] = Tip.live[n] BY <1>3 DEF Patched, Changed
  <2>2. \A n \in pool : Tip.live[n] = Absent BY DEF Judgeable, Collides, Skills
  <2> QED BY <2>1, <2>2 DEF Collides
<1> QED BY <1>1, <1>4, <1>5, <1>8, <1>9 DEF Mint

\* Only a landing ends a reviewer's run with a return.
LEMMA OnlyReviewsReturn ==
    ASSUME SkillsInv, [SkillsNext]_skillsVars, NEW r \in Ids, Returns(r)
    PROVE  /\ r \in Standing
           /\ LET a == agents[r]
              IN  proposals' = [proposals EXCEPT ![r] =
                     IF /\ a.read = Len(lineage)
                        /\ Admitted(a)
                        /\ Changed(a) \cup Moved(a) # {}
                     THEN Mint(a) ELSE None]
<1>1. agents[r].role = "reviewer" /\ agents'[r].role = "returned" BY DEF Returns
<1>2. agents \in [Ids -> Branches] BY DEF SkillsInv, SkillsTypeOK
<1>3. CASE StageProposal
  <2>1. PICK q \in Standing :
          LET a == agents[q]
          IN  /\ a.role = "reviewer"
              /\ agents' = [agents EXCEPT ![q].role = "returned"]
              /\ proposals' = [proposals EXCEPT ![q] =
                     IF /\ a.read = Len(lineage)
                        /\ Admitted(a)
                        /\ Changed(a) \cup Moved(a) # {}
                     THEN Mint(a) ELSE None]
    BY <1>3 DEF StageProposal
  <2>2. q = r BY <1>1, <1>2, <2>1
  <2> QED BY <2>1, <2>2
<1>4. CASE UNCHANGED agents BY <1>1, <1>4
<1>5. CASE Root \/ Fork
  <2>1. PICK a \in Ids : \E start \in {"worker", "reviewer"} :
           \E from, tree, history : Dispatched(a, start, from, tree, history)
    BY <1>5 DEF Root, Fork
  <2> QED BY <1>1, <1>2, <2>1 DEF Dispatched
<1>6. CASE LoadSkill
  <2>1. PICK a \in Standing : \E b, c :
           agents' = [agents EXCEPT ![a].tree = b, ![a].added = c]
    BY <1>6 DEF LoadSkill
  <2> QED BY <1>1, <1>2, <2>1 DEF Branches
<1>7. CASE Curate
  <2>1. PICK a \in Standing, n \in Names : agents[a].role = "worker"
           /\ agents' = [agents EXCEPT ![a].tree.live[n] = Absent]
    BY <1>7 DEF Curate
  <2> QED BY <1>1, <1>2, <2>1 DEF Branches
<1>8. CASE Patch
  <2>1. PICK a \in Standing : \E b, c :
           agents' = [agents EXCEPT ![a].tree = b, ![a].added = c]
    BY <1>8 DEF Patch
  <2> QED BY <1>1, <1>2, <2>1 DEF Branches
<1>9. CASE Delete
  <2>1. PICK a \in Standing : agents' = [agents EXCEPT ![a] = [Unborn EXCEPT !.role = "gone"]]
    BY <1>9 DEF Delete
  <2> QED BY <1>1, <1>2, <2>1 DEF Unborn
<1> QED
  BY <1>3, <1>4, <1>5, <1>6, <1>7, <1>8, <1>9
  DEF SkillsNext, Prime, Config, Accept, Reject, skillsVars

LEMMA ReviewsLand ==
    ASSUME SkillsInv, [SkillsNext]_skillsVars
    PROVE  ReviewLands
<1> SUFFICES ASSUME NEW r \in Ids, Returns(r), Judgeable(agents[r])
             PROVE  /\ proposals'[r].parent = Len(lineage)
                    /\ \A part \in {"live", "archived"}, n \in Names :
                          proposals'[r].commit[part][n] =
                              IF agents[r].tree[part][n] = agents[r].founding[part][n]
                              THEN Tip[part][n] ELSE agents[r].tree[part][n]
  BY DEF ReviewLands
<1> DEFINE a == agents[r]
<1>1. a \in Branches /\ Sound(a) /\ a.role = "reviewer"
  BY BranchesAreSound DEF Returns, SkillsInv, SkillsTypeOK
<1>2. a.read \in DOMAIN lineage /\ FoundedOn(a.founding, lineage[a.read]) BY <1>1 DEF Sound
<1>3. /\ Admitted(a) /\ Changed(a) \cup Moved(a) # {}
      /\ Mint(a) = [parent |-> Len(lineage), commit |-> Snapshot(Tip, Patched(a, Tip))]
  <2> HIDE DEF a
  <2> QED BY <1>1, <1>2, JudgeableMints DEF a
<1>4. a.read = Len(lineage) BY DEF Judgeable
<1>5. proposals'[r] = [parent |-> Len(lineage), commit |-> Snapshot(Tip, Patched(a, Tip))]
  <2>1. proposals' = [proposals EXCEPT ![r] = Mint(a)] BY <1>3, <1>4, OnlyReviewsReturn
  <2>2. proposals \in [Ids -> Proposals] BY DEF SkillsInv, SkillsTypeOK
  <2> QED BY <1>3, <2>1, <2>2
<1>6. \A n \in Names :
        /\ Patched(a, Tip).live[n] =
             IF a.tree.live[n] = a.founding.live[n] THEN Tip.live[n] ELSE a.tree.live[n]
        /\ Patched(a, Tip).archived[n] =
             IF a.tree.archived[n] = a.founding.archived[n]
             THEN Tip.archived[n] ELSE a.tree.archived[n]
  BY DEF Patched, Changed, Moved
<1>7. proposals'[r].commit.live = Patched(a, Tip).live
      /\ proposals'[r].commit.archived = Patched(a, Tip).archived
  BY <1>5 DEF Snapshot
<1> QED BY <1>5, <1>6, <1>7

\* What a reviewer wrote of the lineage's bodies, or of new names, is proposed
\* as it was written and nothing else is, whatever its dispatcher's tree held;
\* and a skill an agent's branch holds is never offered to the operator as
\* idle.  For any names, releases, agents and bounds, where roots start off
\* the lineage's head: a root off an older commit carries bodies over that no
\* branch ever added.
THEOREM SkillsAreKept ==
    ASSUME ReleasesAssumption, BodiesAssumption, ~Older
    PROVE  SkillsSpec => SkillsKept
<1>1. SkillsInv => IdleIsIdle BY UsedIsNotIdle
<1>2. SkillsInv /\ [SkillsNext]_skillsVars => ReviewLands BY ReviewsLand
<1> QED BY <1>1, <1>2, SkillsInvariant, PTL DEF SkillsSpec, SkillsKept

-----------------------------------------------------------------------------
(* Paging.  The library's induction theorems range over an operator; the    *)
(* order of finite sets by inclusion, which ranges over a set, gives the    *)
(* same for a set of numbers.                                               *)

LEMMA CountingUp ==
    ASSUME NEW S, 0 \in S, \A n \in Nat : n \in S => n + 1 \in S
    PROVE  Nat \subseteq S
<1>1. SUFFICES ASSUME NEW n \in Nat, n \notin S PROVE FALSE OBVIOUS
<1>2. PICK N : N = (0 .. n) \ S OBVIOUS
<1>3. IsFiniteSet(N)
  <2>1. IsFiniteSet(0 .. n) BY FS_Interval
  <2> QED BY <2>1, <1>2, FS_Difference
<1>4. n \in N /\ N \subseteq Nat BY <1>1, <1>2
<1>5. PICK F : F = {{y \in N : y <= x} : x \in N} OBVIOUS
<1>6. F \subseteq SUBSET N /\ F # {} BY <1>4, <1>5
<1>7. PICK U \in F : \A V \in F : <<V, U>> \notin StrictSubsetOrdering(N)
  <2>1. IsWellFoundedOn(StrictSubsetOrdering(N), SUBSET N)
    BY <1>3, FS_StrictSubsetOrderingWellFounded, FS_FiniteSubsetsOfFinite
  <2> QED BY <1>6, <2>1, WFMin
<1>8. PICK x \in N : U = {y \in N : y <= x} BY <1>5, <1>7
<1>9. x \in Nat /\ x # 0 /\ x <= n BY <1>2, <1>8
<1>10. x - 1 \in Nat /\ (x - 1) + 1 = x /\ x - 1 <= n BY <1>9
<1>11. x - 1 \in N BY <1>2, <1>8, <1>10
<1>12. PICK V : V = {y \in N : y <= x - 1} OBVIOUS
<1>13. V \in F BY <1>5, <1>11, <1>12
<1>14. V \subseteq U
  <2>1. \A y \in N : y <= x - 1 => y <= x BY <1>4, <1>9
  <2> QED BY <2>1, <1>12, <1>8
<1>15. x \in U /\ x \notin V BY <1>8, <1>9, <1>12
<1>16. <<V, U>> \in StrictSubsetOrdering(N)
  <2>1. U \in SUBSET N /\ V \in SUBSET N BY <1>6, <1>7, <1>13
  <2> QED BY <1>14, <1>15, <2>1 DEF StrictSubsetOrdering
<1> QED BY <1>7, <1>13, <1>16

\* The same from N downwards, with all that lies above.
LEMMA CountingDown ==
    ASSUME NEW N \in Nat, NEW S,
           \A i \in 1 .. N : (\A j \in i + 1 .. N : j \in S) => i \in S
    PROVE  1 .. N \subseteq S
<1>1. PICK T : T = {n \in Nat : \A i \in 1 .. N : N - i < n => i \in S} OBVIOUS
<1>2. 0 \in T BY <1>1
<1>3. ASSUME NEW n \in Nat, n \in T PROVE n + 1 \in T
  <2>1. ASSUME NEW i \in 1 .. N, N - i < n + 1 PROVE i \in S
    <3>1. \A j \in i + 1 .. N : N - j < n /\ j \in 1 .. N BY <2>1, <1>3
    <3>2. \A j \in i + 1 .. N : j \in S BY <3>1, <1>3, <1>1
    <3> QED BY <3>2
  <2> QED BY <2>1, <1>1, <1>3
<1>4. Nat \subseteq T BY <1>2, <1>3, CountingUp
<1>5. N + 1 \in T BY <1>4
<1>6. \A i \in 1 .. N : N - i < N + 1 OBVIOUS
<1> QED BY <1>1, <1>5, <1>6

-----------------------------------------------------------------------------
(* Joining lines.                                                           *)

\* The recursive function of Joined, and that there is one.
IsJoin(join, parts) ==
    join = [i \in 0 .. Len(parts) |-> IF i = 0 THEN <<>> ELSE join[i - 1] \o parts[i]]

LEMMA JoinExists ==
    ASSUME NEW S, NEW parts \in Seq(S)
    PROVE  \E join : IsJoin(join, parts) /\ Joined(parts) = join[Len(parts)]
<1> DEFINE Upto(n, g) == g = [i \in 0 .. n |-> IF i = 0 THEN <<>> ELSE g[i - 1] \o parts[i]]
<1>1. PICK T : T = {n \in Nat : \E g : Upto(n, g)} OBVIOUS
<1>2. 0 \in T
  <2>1. Upto(0, [i \in 0 .. 0 |-> <<>>]) OBVIOUS
  <2> QED BY <1>1, <2>1
<1>3. ASSUME NEW n \in Nat, n \in T PROVE n + 1 \in T
  <2>1. PICK g : Upto(n, g) BY <1>1, <1>3
  <2>2. PICK h : h = [i \in 0 .. n + 1 |-> IF i = 0 THEN <<>> ELSE g[i - 1] \o parts[i]]
    OBVIOUS
  <2>3. \A i \in 0 .. n : h[i] = g[i]
    <3>1. TAKE i \in 0 .. n
    <3>2. h[i] = IF i = 0 THEN <<>> ELSE g[i - 1] \o parts[i] BY <2>2
    <3>3. [j \in 0 .. n |-> IF j = 0 THEN <<>> ELSE g[j - 1] \o parts[j]][i]
            = IF i = 0 THEN <<>> ELSE g[i - 1] \o parts[i]
      OBVIOUS
    <3> QED BY <2>1, <3>2, <3>3
  <2>4. \A i \in 0 .. n + 1 : i # 0 => i - 1 \in 0 .. n OBVIOUS
  <2>5. \A i \in 0 .. n + 1 : (IF i = 0 THEN <<>> ELSE g[i - 1] \o parts[i])
                                = (IF i = 0 THEN <<>> ELSE h[i - 1] \o parts[i])
    BY <2>3, <2>4
  <2>6. [i \in 0 .. n + 1 |-> IF i = 0 THEN <<>> ELSE g[i - 1] \o parts[i]]
          = [i \in 0 .. n + 1 |-> IF i = 0 THEN <<>> ELSE h[i - 1] \o parts[i]]
    BY <2>5
  <2>7. h = [i \in 0 .. n + 1 |-> IF i = 0 THEN <<>> ELSE h[i - 1] \o parts[i]]
    BY ONLY <2>2, <2>6
  <2>8. Upto(n + 1, h) BY <2>7
  <2>9. \E f : Upto(n + 1, f) BY <2>8
  <2> HIDE DEF Upto
  <2> QED BY <1>1, <2>9
<1>4. Nat \subseteq T BY <1>2, <1>3, CountingUp
<1>5. Len(parts) \in T BY <1>4
<1>6. \E g : IsJoin(g, parts) BY <1>1, <1>5 DEF IsJoin
<1>7. Joined(parts) = (CHOOSE g : IsJoin(g, parts))[Len(parts)] BY DEF Joined, IsJoin
<1> QED BY <1>6, <1>7

LEMMA JoinSteps ==
    ASSUME NEW parts, Len(parts) \in Nat, NEW join, IsJoin(join, parts)
    PROVE  /\ join[0] = <<>>
           /\ \A n \in Nat : n + 1 <= Len(parts) => join[n + 1] = join[n] \o parts[n + 1]
<1> DEFINE one == [i \in 0 .. Len(parts) |-> IF i = 0 THEN <<>> ELSE join[i - 1] \o parts[i]]
<1>1. join = one BY DEF IsJoin
<1>2. one[0] = <<>> OBVIOUS
<1>3. ASSUME NEW n \in Nat, n + 1 <= Len(parts)
      PROVE  one[n + 1] = join[n] \o parts[n + 1]
  <2>1. n + 1 \in 0 .. Len(parts) /\ n + 1 # 0 /\ (n + 1) - 1 = n BY <1>3
  <2>2. one[n + 1] = join[(n + 1) - 1] \o parts[n + 1] BY <2>1
  <2> QED BY <2>1, <2>2
<1> HIDE DEF one
<1> QED BY <1>1, <1>2, <1>3

LEMMA JoinedIsASeq ==
    ASSUME NEW S, NEW parts \in Seq(Seq(S))
    PROVE  Joined(parts) \in Seq(S)
<1>0. Len(parts) \in Nat OBVIOUS
<1>1. PICK join : IsJoin(join, parts) /\ Joined(parts) = join[Len(parts)] BY JoinExists
<1>2. PICK T : T = {n \in Nat : n <= Len(parts) => join[n] \in Seq(S)} OBVIOUS
<1>3. 0 \in T
  <2>1. join[0] = <<>> BY <1>0, <1>1, JoinSteps
  <2>2. join[0] \in Seq(S) BY <2>1
  <2> QED BY <1>2, <2>2
<1>4. ASSUME NEW n \in Nat, n \in T PROVE n + 1 \in T
  <2>1. SUFFICES ASSUME n + 1 <= Len(parts) PROVE join[n + 1] \in Seq(S) BY <1>2
  <2>2. join[n] \in Seq(S) /\ parts[n + 1] \in Seq(S)
    <3>1. Len(parts) \in Nat /\ n <= Len(parts) BY <2>1
    <3> QED BY <1>2, <1>4, <2>1, <3>1
  <2>3. join[n + 1] = join[n] \o parts[n + 1] BY <1>0, <1>1, <2>1, JoinSteps
  <2> QED BY <2>2, <2>3
<1>5. Nat \subseteq T BY <1>3, <1>4, CountingUp
<1> QED BY <1>1, <1>2, <1>5

LEMMA JoinedNothing == Joined(<<>>) = <<>>
<1>1. <<>> \in Seq({}) OBVIOUS
<1>2. PICK join : IsJoin(join, <<>>) /\ Joined(<<>>) = join[Len(<<>>)] BY <1>1, JoinExists
<1>3. join[0] = <<>>
  <2>1. Len(<<>>) = 0 OBVIOUS
  <2> QED BY <1>2, <2>1, JoinSteps
<1> QED BY <1>2, <1>3

LEMMA JoinedAppend ==
    ASSUME NEW S, NEW parts \in Seq(Seq(S)), NEW part \in Seq(S)
    PROVE  Joined(Append(parts, part)) = Joined(parts) \o part
<1> DEFINE more == Append(parts, part)
<1>1. more \in Seq(Seq(S)) /\ Len(more) = Len(parts) + 1 /\ more[Len(parts) + 1] = part
      /\ \A i \in 1 .. Len(parts) : more[i] = parts[i]
  OBVIOUS
<1>0. Len(parts) \in Nat /\ Len(more) \in Nat BY <1>1
<1> HIDE DEF more
<1>2. PICK join : IsJoin(join, parts) /\ Joined(parts) = join[Len(parts)] BY JoinExists
<1>3. PICK longer : IsJoin(longer, more) /\ Joined(more) = longer[Len(more)] BY <1>1, JoinExists
<1>4. PICK T : T = {n \in Nat : n <= Len(parts) => join[n] = longer[n]} OBVIOUS
<1>5. 0 \in T
  <2>1. join[0] = <<>> BY <1>0, <1>2, JoinSteps
  <2>2. longer[0] = <<>> BY <1>0, <1>3, JoinSteps
  <2> QED BY <1>4, <2>1, <2>2
<1>6. ASSUME NEW n \in Nat, n \in T PROVE n + 1 \in T
  <2>1. SUFFICES ASSUME n + 1 <= Len(parts) PROVE join[n + 1] = longer[n + 1] BY <1>4
  <2>2. join[n] = longer[n]
    <3>1. Len(parts) \in Nat /\ n <= Len(parts) BY <2>1
    <3> QED BY <1>4, <1>6, <3>1
  <2>3. join[n + 1] = join[n] \o parts[n + 1] BY <1>0, <1>2, <2>1, JoinSteps
  <2>4. longer[n + 1] = longer[n] \o more[n + 1]
    <3>1. n + 1 <= Len(more) BY <1>1, <2>1
    <3> QED BY <1>0, <1>3, <3>1, JoinSteps
  <2>5. more[n + 1] = parts[n + 1] BY <1>1, <2>1
  <2> QED BY <2>2, <2>3, <2>4, <2>5
<1>7. Nat \subseteq T BY <1>5, <1>6, CountingUp
<1>8. Len(parts) \in Nat OBVIOUS
<1>9. join[Len(parts)] = longer[Len(parts)] BY <1>4, <1>7, <1>8
<1>10. longer[Len(parts) + 1] = longer[Len(parts)] \o more[Len(parts) + 1]
  <2>1. \A n \in Nat : n + 1 <= Len(more) => longer[n + 1] = longer[n] \o more[n + 1]
    BY <1>0, <1>3, JoinSteps
  <2>2. Len(parts) \in Nat /\ Len(parts) + 1 <= Len(more) BY <1>1, <1>8
  <2> QED BY <2>1, <2>2
<1> QED BY <1>1, <1>2, <1>3, <1>9, <1>10 DEF more

LEMMA JoinedConcat ==
    ASSUME NEW S, NEW a \in Seq(Seq(S)), NEW b \in Seq(Seq(S))
    PROVE  Joined(a \o b) = Joined(a) \o Joined(b)
<1>1. PICK T : T = {n \in Nat : \A c \in Seq(Seq(S)) :
                       Len(c) = n => Joined(a \o c) = Joined(a) \o Joined(c)}
  OBVIOUS
<1>2. Joined(a) \in Seq(S) BY JoinedIsASeq
<1>3. 0 \in T
  <2>1. ASSUME NEW c \in Seq(Seq(S)), Len(c) = 0
        PROVE  Joined(a \o c) = Joined(a) \o Joined(c)
    <3>1. c = <<>> BY <2>1
    <3>2. a \o <<>> = a OBVIOUS
    <3>3. Joined(a) \o <<>> = Joined(a) BY <1>2
    <3> QED BY <3>1, <3>2, <3>3, JoinedNothing
  <2> QED BY <1>1, <2>1
<1>4. ASSUME NEW n \in Nat, n \in T PROVE n + 1 \in T
  <2>1. ASSUME NEW c \in Seq(Seq(S)), Len(c) = n + 1
        PROVE  Joined(a \o c) = Joined(a) \o Joined(c)
    <3>1. PICK d \in Seq(Seq(S)), e \in Seq(S) : c = Append(d, e)
      <4>1. c # <<>> BY <2>1
      <4> QED BY <4>1, SequenceEmptyOrAppend
    <3>2. Len(d) = n BY <2>1, <3>1
    <3>3. Joined(a \o d) = Joined(a) \o Joined(d) BY <1>1, <1>4, <3>2
    <3>4. a \o c = Append(a \o d, e) BY <3>1
    <3>5. Joined(d) \in Seq(S) /\ a \o d \in Seq(Seq(S)) BY JoinedIsASeq
    <3>6. Joined(a \o c) = Joined(a \o d) \o e BY <3>4, <3>5, JoinedAppend
    <3>7. Joined(c) = Joined(d) \o e BY <3>1, JoinedAppend
    <3>8. (Joined(a) \o Joined(d)) \o e = Joined(a) \o (Joined(d) \o e)
      <4>1. PICK x \in Seq(S), y \in Seq(S) : x = Joined(a) /\ y = Joined(d)
        BY <1>2, <3>5
      <4>2. (x \o y) \o e = x \o (y \o e)
        <5>1. x \in Seq(S) /\ y \in Seq(S) /\ e \in Seq(S) OBVIOUS
        <5> QED BY ONLY <5>1, ConcatAssociative
      <4> QED BY <4>1, <4>2
    <3> QED BY <3>3, <3>6, <3>7, <3>8
  <2>2. \A c \in Seq(Seq(S)) : Len(c) = n + 1 => Joined(a \o c) = Joined(a) \o Joined(c)
    BY <2>1
  <2>3. n + 1 \in Nat OBVIOUS
  <2> QED BY ONLY <1>1, <2>2, <2>3
<1>5. Nat \subseteq T BY <1>3, <1>4, CountingUp
<1>6. Len(b) \in Nat OBVIOUS
<1> QED BY <1>1, <1>5, <1>6

-----------------------------------------------------------------------------
(* The types.                                                               *)

\* Bytes of characters up to W bytes long.
ByteOf(W) == [from : SUBSET Nat, k : 1 .. 4, w : 0 .. W]
LineOf(W) == Seq(ByteOf(W)) \ {<<>>}

\* What is read is UTF-8 and bytes that are none; a line has its newline.
UnitsUpTo(W) == Files \subseteq Seq(Seq(0 .. W) \ {<<>>}) /\ Limits \subseteq Nat

LEMMA OriginsOfConcat ==
    ASSUME NEW W \in 3 .. 4, NEW a \in Seq(ByteOf(W)), NEW b \in Seq(ByteOf(W))
    PROVE  /\ a \o b \in Seq(ByteOf(W)) /\ Len(a \o b) = Len(a) + Len(b)
           /\ Origins(a \o b) = Origins(a) \cup Origins(b)
<1>1. /\ a \o b \in Seq(ByteOf(W)) /\ Len(a \o b) = Len(a) + Len(b)
      /\ \A i \in 1 .. Len(a) + Len(b) :
           (a \o b)[i] = IF i <= Len(a) THEN a[i] ELSE b[i - Len(a)]
  BY ConcatProperties
<1>2. Len(a) \in Nat /\ Len(b) \in Nat OBVIOUS
<1>3. \A i \in 1 .. Len(a) : (a \o b)[i] = a[i] /\ i \in 1 .. Len(a \o b) BY <1>1, <1>2
<1>4. \A i \in 1 .. Len(b) : (a \o b)[i + Len(a)] = b[i] /\ i + Len(a) \in 1 .. Len(a \o b)
  BY <1>1, <1>2
<1>5. Origins(a) \cup Origins(b) \subseteq Origins(a \o b) BY <1>3, <1>4 DEF Origins
<1>6. ASSUME NEW x \in Origins(a \o b) PROVE x \in Origins(a) \cup Origins(b)
  <2>1. PICK i \in 1 .. Len(a) + Len(b) : x \in (a \o b)[i].from BY <1>1 DEF Origins
  <2>2. CASE i <= Len(a)
    <3>1. i \in 1 .. Len(a) /\ (a \o b)[i] = a[i] BY <1>1, <1>2, <2>2
    <3> QED BY <2>1, <3>1 DEF Origins
  <2>3. CASE i > Len(a)
    <3>1. i - Len(a) \in 1 .. Len(b) /\ (a \o b)[i] = b[i - Len(a)] BY <1>1, <1>2, <2>3
    <3> QED BY <2>1, <3>1 DEF Origins
  <2> QED BY <1>2, <2>2, <2>3
<1> QED BY <1>1, <1>5, <1>6

LEMMA OriginsOfNothing == Origins(<<>>) = {}
BY DEF Origins

LEMMA OriginsAreNumbers ==
    ASSUME NEW W \in 3 .. 4, NEW a \in Seq(ByteOf(W))
    PROVE  Origins(a) \in SUBSET Nat
<1>1. \A i \in 1 .. Len(a) : a[i] \in ByteOf(W) OBVIOUS
<1>2. \A i \in 1 .. Len(a) : a[i].from \in SUBSET Nat BY <1>1 DEF ByteOf
<1> QED BY <1>2 DEF Origins

\* A slice and what it leaves on either side.
LEMMA Slice ==
    ASSUME NEW W \in 3 .. 4, NEW a \in Seq(ByteOf(W)), NEW m \in 1 .. Len(a) + 1, NEW n \in m - 1 .. Len(a)
    PROVE  /\ SubSeq(a, m, n) \in Seq(ByteOf(W)) /\ Len(SubSeq(a, m, n)) = n - m + 1
           /\ \A i \in 1 .. n - m + 1 : SubSeq(a, m, n)[i] = a[m + i - 1]
           /\ Origins(SubSeq(a, m, n)) = UNION {a[i].from : i \in m .. n}
<1>1. Len(a) \in Nat /\ m \in Int /\ n \in Int OBVIOUS
<1>2. \A i \in m .. n : a[i] \in ByteOf(W) BY <1>1
<1>3. /\ SubSeq(a, m, n) \in Seq(ByteOf(W))
      /\ Len(SubSeq(a, m, n)) = IF m <= n THEN n - m + 1 ELSE 0
      /\ \A i \in 1 .. n - m + 1 : SubSeq(a, m, n)[i] = a[m + i - 1]
  BY <1>1, <1>2, SubSeqProperties
<1>4. Len(SubSeq(a, m, n)) = n - m + 1 BY <1>1, <1>3
<1>5. PICK s : s = SubSeq(a, m, n) OBVIOUS
<1>6. Origins(s) = UNION {a[i].from : i \in m .. n}
  <2>1. \A i \in 1 .. Len(s) : s[i] = a[m + i - 1] /\ m + i - 1 \in m .. n
    BY <1>1, <1>3, <1>4, <1>5
  <2>2. \A i \in m .. n : i - m + 1 \in 1 .. Len(s) /\ s[i - m + 1] = a[i]
    <3>1. TAKE i \in m .. n
    <3>2. i - m + 1 \in 1 .. n - m + 1 /\ m + (i - m + 1) - 1 = i BY <1>1
    <3> QED BY <1>3, <1>4, <1>5, <3>2
  <2>3. Origins(s) \subseteq UNION {a[i].from : i \in m .. n} BY <2>1 DEF Origins
  <2>4. UNION {a[i].from : i \in m .. n} \subseteq Origins(s) BY <2>2 DEF Origins
  <2> QED BY <2>3, <2>4
<1> QED BY <1>3, <1>4, <1>5, <1>6

LEMMA JoinedNotEmpty ==
    ASSUME NEW S, NEW parts \in Seq(Seq(S) \ {<<>>}), parts # <<>>
    PROVE  Joined(parts) \in Seq(S) \ {<<>>}
<1>1. PICK front \in Seq(Seq(S) \ {<<>>}), part \in Seq(S) \ {<<>>} : parts = Append(front, part)
  BY SequenceEmptyOrAppend
<1>2. front \in Seq(Seq(S)) /\ part \in Seq(S) BY <1>1
<1>3. Joined(parts) = Joined(front) \o part BY <1>1, <1>2, JoinedAppend
<1>4. Joined(front) \in Seq(S) BY <1>2, JoinedIsASeq
<1>5. Len(part) \in Nat /\ Len(part) # 0 BY <1>1, <1>2
<1>6. Joined(parts) \in Seq(S) /\ Len(Joined(parts)) = Len(Joined(front)) + Len(part)
  BY <1>2, <1>3, <1>4
<1>7. Len(Joined(parts)) # 0 BY <1>4, <1>5, <1>6
<1> QED BY <1>6, <1>7

LEMMA EncodedIsALine ==
    ASSUME NEW W \in 3 .. 4, NEW units \in Seq(0 .. W) \ {<<>>}, NEW at \in Nat
    PROVE  Encoded(units, at) \in LineOf(W)
<1> DEFINE P == [k : 1 .. 4, w : 0 .. W]
           parts == [i \in 1 .. Len(units) |->
                       [k \in 1 .. Size(units[i]) |-> [k |-> k, w |-> units[i]]]]
           places == Joined(parts)
<1>1. Len(units) \in Nat \ {0} /\ \A i \in 1 .. Len(units) : units[i] \in 0 .. W
  BY EmptySeq
<1>2. \A i \in 1 .. Len(units) : parts[i] \in Seq(P) \ {<<>>}
  <2>1. TAKE i \in 1 .. Len(units)
  <2>2. units[i] \in 0 .. W /\ Size(units[i]) \in 1 .. 4 BY <1>1 DEF Size
  <2>3. PICK n \in 1 .. 4 : n = Size(units[i]) BY <2>2
  <2>4. parts[i] = [k \in 1 .. n |-> [k |-> k, w |-> units[i]]] BY <2>3
  <2>5. \A k \in 1 .. n : [k |-> k, w |-> units[i]] \in P BY <2>2, <2>3
  <2>6. [k \in 1 .. n |-> [k |-> k, w |-> units[i]]] \in Seq(P)
        /\ Len([k \in 1 .. n |-> [k |-> k, w |-> units[i]]]) = n
    <3> HIDE DEF P
    <3>1. n \in Nat BY <2>3
    <3> QED BY <2>5, <3>1
  <2> QED BY <2>3, <2>4, <2>6
<1>3. parts \in Seq(Seq(P) \ {<<>>}) /\ Len(parts) = Len(units)
  <2> HIDE DEF P
  <2> QED BY <1>1, <1>2
<1>4. parts # <<>> BY <1>1, <1>3
<1>5. places \in Seq(P) \ {<<>>}
  <2> HIDE DEF P, parts
  <2> QED BY <1>3, <1>4, JoinedNotEmpty
<1>6. Len(places) \in Nat \ {0} /\ \A n \in 1 .. Len(places) : places[n] \in P
  <2> HIDE DEF P, places
  <2> QED BY <1>5, EmptySeq
<1> HIDE DEF places
<1>7. \A n \in 1 .. Len(places) :
         [from |-> {at + n}, k |-> places[n].k, w |-> places[n].w] \in ByteOf(W)
  BY <1>6 DEF ByteOf
<1>8. Encoded(units, at) =
        [n \in 1 .. Len(places) |-> [from |-> {at + n}, k |-> places[n].k, w |-> places[n].w]]
  BY DEF Encoded, places
<1>9. PICK n \in Nat \ {0} : n = Len(places) BY <1>6
<1> HIDE DEF P
<1>10. Encoded(units, at) \in Seq(ByteOf(W)) /\ Len(Encoded(units, at)) = n
  BY <1>7, <1>8, <1>9
<1> QED BY <1>10 DEF LineOf

LEMMA LinesAreLines ==
    ASSUME NEW W \in 3 .. 4, NEW file \in Seq(Seq(0 .. W) \ {<<>>})
    PROVE  Lines(file) \in Seq(LineOf(W))
<1> DEFINE before(i) == [j \in 1 .. i - 1 |-> Encoded(file[j], 0)]
<1>1. Len(file) \in Nat /\ \A i \in 1 .. Len(file) : file[i] \in Seq(0 .. W) \ {<<>>} OBVIOUS
<1>2. \A i \in 1 .. Len(file) : Len(Joined(before(i))) \in Nat
  <2>1. TAKE i \in 1 .. Len(file)
  <2>2. ASSUME NEW j \in 1 .. i - 1 PROVE Encoded(file[j], 0) \in LineOf(W)
    <3>1. file[j] \in Seq(0 .. W) \ {<<>>} BY <1>1
    <3> QED BY <3>1, EncodedIsALine
  <2>3. \A j \in 1 .. i - 1 : Encoded(file[j], 0) \in Seq(ByteOf(W)) BY <2>2 DEF LineOf
  <2>4. i - 1 \in Nat BY <1>1
  <2>5. PICK n \in Nat : n = i - 1 BY <2>4
  <2>6. [j \in 1 .. n |-> Encoded(file[j], 0)] \in Seq(Seq(ByteOf(W))) BY <2>3, <2>5
  <2>7. before(i) \in Seq(Seq(ByteOf(W))) BY <2>5, <2>6
  <2> HIDE DEF before
  <2>8. Joined(before(i)) \in Seq(ByteOf(W)) BY <2>7, JoinedIsASeq
  <2> QED BY <2>8
<1>3. \A i \in 1 .. Len(file) : Encoded(file[i], Len(Joined(before(i)))) \in LineOf(W)
  <2> HIDE DEF before
  <2> QED BY <1>1, <1>2, EncodedIsALine
<1>4. Lines(file) = [i \in 1 .. Len(file) |-> Encoded(file[i], Len(Joined(before(i))))]
  BY DEF Lines
<1>5. PICK n \in Nat : n = Len(file) BY <1>1
<1> HIDE DEF before
<1> QED BY <1>3, <1>4, <1>5

-----------------------------------------------------------------------------
(* Lossy decoding.                                                          *)

\* What Lossy takes at a place: a whole character, or what stands for a fragment.
Fragment(bytes, i) == SubSeq(bytes, i, i + Run(bytes, i) - 1)
IsWhole(bytes, i) == bytes[i].w > 0 /\ bytes[i].k = 1 /\ Run(bytes, i) = bytes[i].w
Decoded(bytes, i) ==
    IF IsWhole(bytes, i) THEN Fragment(bytes, i) ELSE Replacement(Origins(Fragment(bytes, i)))

\* The recursive function of Lossy.
IsWalk(walk, bytes) ==
    walk = [i \in 1 .. Len(bytes) + 1 |->
              IF i > Len(bytes) THEN <<>>
              ELSE Decoded(bytes, i) \o walk[i + Run(bytes, i)]]

\* The bytes from i on that are one character's, up to n of them.
Held(bytes, i, n) ==
    /\ bytes[i].k = 1 /\ i + n - 1 <= Len(bytes)
    /\ \A j \in 1 .. n : bytes[i + j - 1].w = bytes[i].w /\ bytes[i + j - 1].k = j

\* A run is one byte that begins no character, or as much as there is of the
\* character that begins here.
LEMMA RunIs ==
    ASSUME NEW W \in 3 .. 4, NEW bytes \in Seq(ByteOf(W)), NEW i \in 1 .. Len(bytes)
    PROVE  /\ Run(bytes, i) \in 1 .. 4 /\ i + Run(bytes, i) - 1 <= Len(bytes)
           /\ \/ /\ Run(bytes, i) = 1
                 /\ bytes[i].k # 1 \/ bytes[i].w = 0
              \/ /\ bytes[i].w # 0 /\ Run(bytes, i) <= bytes[i].w
                 /\ Held(bytes, i, Run(bytes, i))
                 /\ \A n \in 1 .. bytes[i].w : Held(bytes, i, n) => n <= Run(bytes, i)
<1>1. bytes[i] \in ByteOf(W) /\ Len(bytes) \in Nat OBVIOUS
<1>2. PICK w \in 0 .. W : w = bytes[i].w BY <1>1 DEF ByteOf
<1>3. PICK held : held = {n \in 1 .. w : Held(bytes, i, n)} OBVIOUS
<1>4. Run(bytes, i) = IF held = {} THEN 1 ELSE CHOOSE n \in held : \A m \in held : m <= n
  <2>1. held = {n \in 1 .. bytes[i].w :
                   /\ bytes[i].k = 1
                   /\ i + n - 1 <= Len(bytes)
                   /\ \A j \in 1 .. n :
                        /\ bytes[i + j - 1].w = bytes[i].w
                        /\ bytes[i + j - 1].k = j}
    BY <1>2, <1>3 DEF Held
  <2> QED BY <2>1 DEF Run
<1>5. CASE held = {}
  <2>1. Run(bytes, i) = 1 BY <1>4, <1>5
  <2>2. bytes[i].k # 1 \/ w = 0
    <3>1. SUFFICES ASSUME bytes[i].k = 1, w # 0 PROVE FALSE OBVIOUS
    <3>2. 1 \in 1 .. w BY <1>2, <3>1
    <3>3. i + 1 - 1 = i BY <1>1
    <3>4. Held(bytes, i, 1) BY <1>1, <3>1, <3>3 DEF Held
    <3> QED BY <1>3, <1>5, <3>2, <3>4
  <2> QED BY <1>1, <1>2, <2>1, <2>2
<1>6. CASE held # {}
  <2>1. \E n \in held : \A m \in held : m <= n
    <3>1. \A m \in held : m \in {1, 2, 3, 4} BY <1>2, <1>3
    <3>2. CASE 4 \in held BY <3>1, <3>2
    <3>3. CASE 4 \notin held /\ 3 \in held BY <3>1, <3>3
    <3>4. CASE 4 \notin held /\ 3 \notin held /\ 2 \in held BY <3>1, <3>4
    <3>5. CASE 4 \notin held /\ 3 \notin held /\ 2 \notin held BY <1>6, <3>1, <3>5
    <3> QED BY <3>2, <3>3, <3>4, <3>5
  <2>2. Run(bytes, i) \in held /\ \A m \in held : m <= Run(bytes, i) BY <1>4, <1>6, <2>1
  <2>3. Run(bytes, i) \in 1 .. w /\ Held(bytes, i, Run(bytes, i)) BY <1>3, <2>2
  <2>4. w # 0 BY <1>2, <2>3
  <2>5. \A n \in 1 .. w : Held(bytes, i, n) => n <= Run(bytes, i) BY <1>3, <2>2
  <2>6. i + Run(bytes, i) - 1 <= Len(bytes) BY <2>3 DEF Held
  <2>7. Run(bytes, i) \in 1 .. 4 /\ Run(bytes, i) <= w BY <1>2, <2>3
  <2> QED BY <1>2, <2>3, <2>4, <2>5, <2>6, <2>7
<1> QED BY <1>5, <1>6

LEMMA LossyWalks ==
    ASSUME NEW W \in 3 .. 4, NEW bytes \in Seq(ByteOf(W))
    PROVE  \E walk : IsWalk(walk, bytes) /\ Lossy(bytes) = walk[1]
<1> DEFINE L == Len(bytes)
           From(n, g) == g = [i \in L + 1 - n .. L + 1 |->
                                IF i > L THEN <<>>
                                ELSE Decoded(bytes, i) \o g[i + Run(bytes, i)]]
<1>1. L \in Nat OBVIOUS
<1> HIDE DEF L
<1>2. PICK T : T = {n \in Nat : n <= L => \E g : From(n, g)} OBVIOUS
<1>3. 0 \in T
  <2>1. \A i \in L + 1 - 0 .. L + 1 : i > L BY <1>1
  <2>2. PICK g : g = [i \in L + 1 - 0 .. L + 1 |-> <<>>] OBVIOUS
  <2>3. g = [i \in L + 1 - 0 .. L + 1 |->
                IF i > L THEN <<>> ELSE Decoded(bytes, i) \o g[i + Run(bytes, i)]]
    BY <2>1, <2>2
  <2>4. From(0, g) BY <2>3
  <2>5. \E f : From(0, f) BY <2>4
  <2> HIDE DEF From
  <2> QED BY <1>2, <2>5
<1>4. ASSUME NEW n \in Nat, n \in T PROVE n + 1 \in T
  <2>1. SUFFICES ASSUME n + 1 <= L PROVE \E g : From(n + 1, g)
    <3> HIDE DEF From
    <3> QED BY <1>2
  <2>2. n <= L BY <1>1, <2>1
  <2>3. PICK g : From(n, g)
    <3> HIDE DEF From
    <3> QED BY <1>2, <1>4, <2>2
  <2>4. PICK h : h = [i \in L + 1 - (n + 1) .. L + 1 |->
                        IF i > L THEN <<>>
                        ELSE Decoded(bytes, i) \o g[i + Run(bytes, i)]]
    OBVIOUS
  <2>5. \A i \in L + 1 - n .. L + 1 : h[i] = g[i]
    <3>1. TAKE i \in L + 1 - n .. L + 1
    <3>2. i \in L + 1 - (n + 1) .. L + 1 BY <1>1
    <3>3. h[i] = IF i > L THEN <<>> ELSE Decoded(bytes, i) \o g[i + Run(bytes, i)]
      BY <2>4, <3>2
    <3>4. [j \in L + 1 - n .. L + 1 |->
             IF j > L THEN <<>> ELSE Decoded(bytes, j) \o g[j + Run(bytes, j)]][i]
            = IF i > L THEN <<>> ELSE Decoded(bytes, i) \o g[i + Run(bytes, i)]
      OBVIOUS
    <3> QED BY <2>3, <3>3, <3>4
  <2>6. \A i \in L + 1 - (n + 1) .. L + 1 : i <= L =>
          i + Run(bytes, i) \in L + 1 - n .. L + 1
    <3>1. TAKE i \in L + 1 - (n + 1) .. L + 1
    <3>2. SUFFICES ASSUME i <= L PROVE i + Run(bytes, i) \in L + 1 - n .. L + 1 OBVIOUS
    <3>3. i \in 1 .. L BY <1>1, <2>1, <3>2
    <3>4. Run(bytes, i) \in 1 .. 4 /\ i + Run(bytes, i) - 1 <= L BY <3>3, RunIs DEF L
    <3> QED BY <1>1, <3>3, <3>4
  <2>7. \A i \in L + 1 - (n + 1) .. L + 1 :
          (IF i > L THEN <<>> ELSE Decoded(bytes, i) \o g[i + Run(bytes, i)])
             = (IF i > L THEN <<>> ELSE Decoded(bytes, i) \o h[i + Run(bytes, i)])
    <3>1. TAKE i \in L + 1 - (n + 1) .. L + 1
    <3>2. i > L \/ i <= L BY <1>1
    <3> QED BY <2>5, <2>6, <3>2
  <2>8. [i \in L + 1 - (n + 1) .. L + 1 |->
           IF i > L THEN <<>> ELSE Decoded(bytes, i) \o g[i + Run(bytes, i)]]
          = [i \in L + 1 - (n + 1) .. L + 1 |->
               IF i > L THEN <<>> ELSE Decoded(bytes, i) \o h[i + Run(bytes, i)]]
    BY <2>7
  <2>9. h = [i \in L + 1 - (n + 1) .. L + 1 |->
               IF i > L THEN <<>> ELSE Decoded(bytes, i) \o h[i + Run(bytes, i)]]
    BY ONLY <2>4, <2>8
  <2> QED BY <2>9
<1>5. Nat \subseteq T BY <1>3, <1>4, CountingUp
<1>6. \E g : From(L, g)
  <2> HIDE DEF From
  <2> QED BY <1>1, <1>2, <1>5
<1>7. \E g : IsWalk(g, bytes)
  <2>1. PICK g : From(L, g) BY <1>6
  <2>2. L + 1 - L = 1 BY <1>1
  <2>3. g = [i \in 1 .. L + 1 |->
               IF i > L THEN <<>> ELSE Decoded(bytes, i) \o g[i + Run(bytes, i)]]
    BY <2>1, <2>2
  <2> QED BY <2>3 DEF IsWalk, L
<1>8. Lossy(bytes) = (CHOOSE g : IsWalk(g, bytes))[1]
  BY DEF Lossy, IsWalk, Decoded, IsWhole, Fragment
<1> QED BY <1>7, <1>8

LEMMA WalkSteps ==
    ASSUME NEW bytes, Len(bytes) \in Nat, NEW walk, IsWalk(walk, bytes)
    PROVE  /\ walk[Len(bytes) + 1] = <<>>
           /\ \A i \in 1 .. Len(bytes) : walk[i] = Decoded(bytes, i) \o walk[i + Run(bytes, i)]
<1> DEFINE one == [i \in 1 .. Len(bytes) + 1 |->
                     IF i > Len(bytes) THEN <<>>
                     ELSE Decoded(bytes, i) \o walk[i + Run(bytes, i)]]
<1>1. walk = one BY DEF IsWalk
<1>2. one[Len(bytes) + 1] = <<>> OBVIOUS
<1>3. ASSUME NEW i \in 1 .. Len(bytes)
      PROVE  one[i] = Decoded(bytes, i) \o walk[i + Run(bytes, i)]
  <2>1. i \in 1 .. Len(bytes) + 1 /\ ~(i > Len(bytes)) OBVIOUS
  <2> QED BY <2>1
<1> HIDE DEF one
<1> QED BY <1>1, <1>2, <1>3

\* One character of a record; bytes that follow each other as those of whole
\* characters do, and the same from the first byte of a character on.
IsCharacter(s) == Len(s) # 0 /\ \A p \in 1 .. Len(s) : s[p].k = p /\ s[p].w = Len(s)
InOrder(s) ==
    \A p \in 1 .. Len(s) :
        /\ s[p].k <= s[p].w
        /\ p + 1 <= Len(s) => \/ s[p].k = s[p].w /\ s[p + 1].k = 1
                              \/ s[p + 1].k = s[p].k + 1 /\ s[p + 1].w = s[p].w
Intact(s) == InOrder(s) /\ (Len(s) # 0 => s[1].k = 1)

LEMMA BytesAre ==
    ASSUME NEW W \in 3 .. 4, NEW s \in Seq(ByteOf(W)), NEW p \in 1 .. Len(s)
    PROVE  s[p].k \in 1 .. 4 /\ s[p].w \in 0 .. W /\ s[p].from \in SUBSET Nat
<1>1. s[p] \in ByteOf(W) OBVIOUS
<1> QED BY <1>1 DEF ByteOf

LEMMA IntactGrows ==
    ASSUME NEW W \in 3 .. 4, NEW c \in Seq(ByteOf(W)), NEW s \in Seq(ByteOf(W)),
           IsCharacter(c), Intact(s)
    PROVE  Intact(c \o s)
<1>1. Len(c) \in Nat /\ Len(s) \in Nat OBVIOUS
<1>a. PICK t : t = c \o s OBVIOUS
<1>2. /\ t = c \o s /\ Len(t) = Len(c) + Len(s)
      /\ \A i \in 1 .. Len(c) + Len(s) : t[i] = IF i <= Len(c) THEN c[i] ELSE s[i - Len(c)]
  <2>1. c \in Seq(ByteOf(W)) /\ s \in Seq(ByteOf(W)) OBVIOUS
  <2> QED BY <1>a, <2>1, ConcatProperties
<1>3. ASSUME NEW p \in 1 .. Len(t)
      PROVE  /\ t[p].k <= t[p].w
             /\ p + 1 <= Len(t) => \/ t[p].k = t[p].w /\ t[p + 1].k = 1
                                   \/ t[p + 1].k = t[p].k + 1 /\ t[p + 1].w = t[p].w
  <2>1. CASE p < Len(c)
    <3>1. p \in 1 .. Len(c) /\ t[p] = c[p] BY <1>1, <1>2, <2>1
    <3>2. p + 1 \in 1 .. Len(c) /\ t[p + 1] = c[p + 1] BY <1>1, <1>2, <2>1
    <3>3. t[p].k = p /\ t[p].w = Len(c) BY <3>1 DEF IsCharacter
    <3>4. t[p + 1].k = p + 1 /\ t[p + 1].w = Len(c) BY <3>2 DEF IsCharacter
    <3> QED BY <2>1, <3>3, <3>4
  <2>2. CASE p = Len(c)
    <3>1. p \in 1 .. Len(c) /\ t[p] = c[p] BY <1>1, <1>2, <2>2
    <3>2. t[p].k = p /\ t[p].w = Len(c) BY <3>1 DEF IsCharacter
    <3>3. ASSUME p + 1 <= Len(t) PROVE t[p + 1].k = 1
      <4>1. p + 1 \in 1 .. Len(c) + Len(s) /\ ~(p + 1 <= Len(c)) /\ (p + 1) - Len(c) = 1
            /\ Len(s) # 0
        BY <1>1, <1>2, <2>2, <3>3
      <4>2. t[p + 1] = s[1] BY <1>2, <4>1
      <4> QED BY <4>1, <4>2 DEF Intact
    <3>4. p <= p BY <1>1, <3>1
    <3> QED BY <2>2, <3>2, <3>3, <3>4
  <2>3. CASE p > Len(c)
    <3>1. PICK q \in 1 .. Len(s) : q = p - Len(c) /\ t[p] = s[q] BY <1>1, <1>2, <2>3
    <3>2. /\ s[q].k <= s[q].w
          /\ q + 1 <= Len(s) => \/ s[q].k = s[q].w /\ s[q + 1].k = 1
                                \/ s[q + 1].k = s[q].k + 1 /\ s[q + 1].w = s[q].w
      BY DEF Intact, InOrder
    <3>3. ASSUME p + 1 <= Len(t) PROVE q + 1 <= Len(s) /\ t[p + 1] = s[q + 1]
      <4>1. p + 1 \in 1 .. Len(c) + Len(s) /\ ~(p + 1 <= Len(c)) /\ (p + 1) - Len(c) = q + 1
            /\ q + 1 <= Len(s)
        BY <1>1, <1>2, <2>3, <3>1, <3>3
      <4> QED BY <1>2, <4>1
    <3> QED BY <3>1, <3>2, <3>3
  <2>4. p < Len(c) \/ p = Len(c) \/ p > Len(c) BY <1>1, <1>2
  <2> QED BY <2>1, <2>2, <2>3, <2>4
<1>4. InOrder(t) BY <1>3 DEF InOrder
<1>5. t[1].k = 1
  <2>1. 1 \in 1 .. Len(c) /\ 1 \in 1 .. Len(c) + Len(s) BY <1>1 DEF IsCharacter
  <2>2. t[1] = c[1] BY <1>2, <2>1
  <2> QED BY <2>1, <2>2 DEF IsCharacter
<1> QED BY <1>2, <1>4, <1>5 DEF Intact

\* What stands for a run is a character that is no shorter, and holds of each
\* byte what it stands for at that byte's place or behind it.
LEMMA DecodedIs ==
    ASSUME NEW W \in 3 .. 4, NEW bytes \in Seq(ByteOf(W)), NEW i \in 1 .. Len(bytes)
    PROVE  /\ Decoded(bytes, i) \in Seq(ByteOf(W)) /\ IsCharacter(Decoded(bytes, i))
           /\ Len(Decoded(bytes, i)) = IF IsWhole(bytes, i) THEN Run(bytes, i) ELSE 3
           /\ Run(bytes, i) <= Len(Decoded(bytes, i))
           /\ Origins(Decoded(bytes, i)) \subseteq Origins(bytes)
           /\ \A n \in 1 .. Run(bytes, i) :
                bytes[i + n - 1].from \subseteq Decoded(bytes, i)[n].from
<1>1. PICK n \in 1 .. 4 : n = Run(bytes, i) /\ i + n - 1 <= Len(bytes) BY RunIs
<1>2. Len(bytes) \in Nat /\ i \in 1 .. Len(bytes) + 1 /\ i + n - 1 \in i - 1 .. Len(bytes)
  BY <1>1
<1>3. PICK part : part = SubSeq(bytes, i, i + n - 1) OBVIOUS
<1>4. /\ part \in Seq(ByteOf(W)) /\ Len(part) = (i + n - 1) - i + 1
      /\ \A m \in 1 .. (i + n - 1) - i + 1 : part[m] = bytes[i + m - 1]
      /\ Origins(part) = UNION {bytes[j].from : j \in i .. i + n - 1}
  <2>1. PICK e : e = i + n - 1 OBVIOUS
  <2>2. e \in i - 1 .. Len(bytes) /\ part = SubSeq(bytes, i, e) BY <1>2, <1>3, <2>1
  <2>3. /\ SubSeq(bytes, i, e) \in Seq(ByteOf(W)) /\ Len(SubSeq(bytes, i, e)) = e - i + 1
        /\ \A m \in 1 .. e - i + 1 : SubSeq(bytes, i, e)[m] = bytes[i + m - 1]
        /\ Origins(SubSeq(bytes, i, e)) = UNION {bytes[j].from : j \in i .. e}
    <3>1. i \in 1 .. Len(bytes) + 1 BY <1>2
    <3> QED BY <2>2, <3>1, Slice
  <2> QED BY <2>1, <2>2, <2>3
<1>5. Len(part) = n /\ \A m \in 1 .. n : part[m] = bytes[i + m - 1]
  <2>1. n \in Int /\ i \in Int /\ (i + n - 1) - i + 1 = n BY <1>1, <1>2
  <2>2. PICK e : e = (i + n - 1) - i + 1 OBVIOUS
  <2>3. Len(part) = e /\ \A m \in 1 .. e : part[m] = bytes[i + m - 1] BY <1>4, <2>2
  <2> QED BY <2>1, <2>2, <2>3
<1>6. Origins(part) \subseteq Origins(bytes)
  <2>1. \A j \in i .. i + n - 1 : j \in 1 .. Len(bytes) BY <1>1, <1>2
  <2> QED BY <1>4, <2>1 DEF Origins
<1>7. Fragment(bytes, i) = part BY <1>1, <1>3 DEF Fragment
<1>8. CASE IsWhole(bytes, i)
  <2>1. Decoded(bytes, i) = part BY <1>7, <1>8 DEF Decoded
  <2>2. bytes[i].w = n /\ bytes[i].k = 1 BY <1>1, <1>8 DEF IsWhole
  <2>3. Held(bytes, i, n) BY <1>1, <2>2, RunIs
  <2>4. IsCharacter(part)
    <3>1. \A m \in 1 .. n : bytes[i + m - 1].w = n /\ bytes[i + m - 1].k = m
      BY <2>2, <2>3 DEF Held
    <3> QED BY <1>1, <1>5, <3>1 DEF IsCharacter
  <2>5. \A m \in 1 .. n : bytes[i + m - 1].from \subseteq part[m].from BY <1>5
  <2>6. /\ Decoded(bytes, i) \in Seq(ByteOf(W)) /\ IsCharacter(Decoded(bytes, i))
        /\ Len(Decoded(bytes, i)) = n /\ Origins(Decoded(bytes, i)) \subseteq Origins(bytes)
    BY <1>4, <1>5, <1>6, <2>1, <2>4
  <2>7. \A m \in 1 .. n : bytes[i + m - 1].from \subseteq Decoded(bytes, i)[m].from
    BY <2>1, <2>5
  <2>8. n <= n BY <1>1
  <2> QED BY <1>1, <1>8, <2>6, <2>7, <2>8
<1>9. CASE ~IsWhole(bytes, i)
  <2>1. PICK all : all = Origins(part) OBVIOUS
  <2>2. all \in SUBSET Nat BY <1>4, <2>1, OriginsAreNumbers
  <2>3. PICK sign : sign = [k \in 1 .. 3 |-> [from |-> all, k |-> k, w |-> 3]] OBVIOUS
  <2>4. Decoded(bytes, i) = sign BY <1>7, <1>9, <2>1, <2>3 DEF Decoded, Replacement
  <2>5. \A k \in 1 .. 3 : [from |-> all, k |-> k, w |-> 3] \in ByteOf(W) BY <2>2 DEF ByteOf
  <2>6. sign \in Seq(ByteOf(W)) /\ Len(sign) = 3 BY <2>3, <2>5
  <2>7. \A k \in 1 .. 3 : sign[k].k = k /\ sign[k].w = 3 /\ sign[k].from = all BY <2>3
  <2>8. IsCharacter(sign) BY <2>6, <2>7 DEF IsCharacter
  <2>9. Origins(sign) \subseteq all BY <2>6, <2>7 DEF Origins
  <2>10. n <= 3
    <3>1. SUFFICES ASSUME n = 4 PROVE FALSE BY <1>1
    <3>2. bytes[i].w \in 0 .. W BY BytesAre
    <3>a. W \in 3 .. 4 OBVIOUS
    <3>b. /\ bytes[i].w # 0 /\ n <= bytes[i].w /\ Held(bytes, i, n)
      <4>1. \/ Run(bytes, i) = 1
            \/ /\ bytes[i].w # 0 /\ Run(bytes, i) <= bytes[i].w
               /\ Held(bytes, i, Run(bytes, i))
        BY RunIs
      <4>2. Run(bytes, i) = 4 BY <1>1, <3>1
      <4> QED BY <1>1, <4>1, <4>2
    <3>3. bytes[i].w = 4 /\ Held(bytes, i, n) BY <3>a, <3>b, <3>1, <3>2
    <3>4. bytes[i].k = 1 BY <3>3 DEF Held
    <3> QED BY <1>1, <1>9, <3>1, <3>3, <3>4 DEF IsWhole
  <2>11. \A m \in 1 .. n : bytes[i + m - 1].from \subseteq sign[m].from
    <3>1. TAKE m \in 1 .. n
    <3>2. i + m - 1 \in i .. i + n - 1 BY <1>1
    <3>3. bytes[i + m - 1].from \subseteq all BY <1>4, <2>1, <3>2
    <3> QED BY <1>1, <2>7, <2>10, <3>3
  <2> QED BY <1>1, <1>6, <1>9, <2>1, <2>4, <2>6, <2>8, <2>9, <2>10, <2>11
<1> QED BY <1>8, <1>9

\* What the bytes from i on have become.
Becomes(W, bytes, walk, i) ==
    /\ walk[i] \in Seq(ByteOf(W)) /\ Intact(walk[i])
    /\ Len(bytes) + 1 - i <= Len(walk[i]) /\ Len(walk[i]) <= 3 * (Len(bytes) + 1 - i)
    /\ Origins(walk[i]) \subseteq Origins(bytes)
    /\ \A j \in i .. Len(bytes) :
         \E p \in 1 .. Len(walk[i]) :
            j - i + 1 <= p /\ bytes[j].from \subseteq walk[i][p].from

LEMMA WalkIs ==
    ASSUME NEW W \in 3 .. 4, NEW bytes \in Seq(ByteOf(W)), NEW walk, IsWalk(walk, bytes)
    PROVE  \A i \in 1 .. Len(bytes) + 1 : Becomes(W, bytes, walk, i)
<1>1. PICK L \in Nat : L = Len(bytes) OBVIOUS
<1>2. walk[L + 1] = <<>> /\ \A i \in 1 .. L : walk[i] = Decoded(bytes, i) \o walk[i + Run(bytes, i)]
  BY <1>1, WalkSteps
<1>3. Becomes(W, bytes, walk, L + 1)
  <2>1. <<>> \in Seq(ByteOf(W)) /\ Len(<<>>) = 0 OBVIOUS
  <2>2. Intact(<<>>) BY <2>1 DEF Intact, InOrder
  <2>3. (L + 1) .. L = {} /\ L + 1 - (L + 1) = 0 /\ 3 * 0 = 0 BY <1>1
  <2> QED BY <1>1, <1>2, <2>1, <2>2, <2>3, OriginsOfNothing DEF Becomes
<1>4. PICK S : S = {i \in 1 .. L + 1 : Becomes(W, bytes, walk, i)} OBVIOUS
<1>5. ASSUME NEW i \in 1 .. L, \A j \in i + 1 .. L + 1 : Becomes(W, bytes, walk, j)
      PROVE  Becomes(W, bytes, walk, i)
  <2>1. PICK n \in 1 .. 4 : n = Run(bytes, i) /\ i + n - 1 <= L BY <1>1, RunIs
  <2>2. PICK c : c = Decoded(bytes, i) OBVIOUS
  <2>3. PICK s : s = walk[i + n] OBVIOUS
  <2>4. i + n \in i + 1 .. L + 1 /\ i \in 1 .. Len(bytes) BY <1>1, <2>1
  <2>5. /\ s \in Seq(ByteOf(W)) /\ Intact(s)
        /\ L + 1 - (i + n) <= Len(s) /\ Len(s) <= 3 * (L + 1 - (i + n))
        /\ Origins(s) \subseteq Origins(bytes)
        /\ \A j \in i + n .. L :
             \E p \in 1 .. Len(s) :
                j - (i + n) + 1 <= p /\ bytes[j].from \subseteq s[p].from
    BY <1>1, <1>5, <2>3, <2>4 DEF Becomes
  <2>6. /\ c \in Seq(ByteOf(W)) /\ IsCharacter(c) /\ n <= Len(c)
        /\ Origins(c) \subseteq Origins(bytes)
        /\ \A m \in 1 .. n : bytes[i + m - 1].from \subseteq c[m].from
    BY <2>1, <2>2, <2>4, DecodedIs
  <2>7. Len(c) <= 3 * n
    <3>1. Len(c) = IF IsWhole(bytes, i) THEN n ELSE 3 BY <2>1, <2>2, <2>4, DecodedIs
    <3> QED BY <2>1, <3>1
  <2>8. walk[i] = c \o s BY <1>2, <2>1, <2>2, <2>3
  <2>9. PICK t : t = c \o s OBVIOUS
  <2>10. /\ t \in Seq(ByteOf(W)) /\ Len(t) = Len(c) + Len(s)
         /\ Origins(t) = Origins(c) \cup Origins(s)
    BY <2>5, <2>6, <2>9, OriginsOfConcat
  <2>11. Intact(t) BY <2>5, <2>6, <2>9, IntactGrows
  <2>12. \A q \in 1 .. Len(c) + Len(s) : t[q] = IF q <= Len(c) THEN c[q] ELSE s[q - Len(c)]
    BY <2>5, <2>6, <2>9, ConcatProperties
  <2>13. Len(c) \in Nat /\ Len(s) \in Nat BY <2>5, <2>6
  <2>14. L + 1 - i <= Len(t) /\ Len(t) <= 3 * (L + 1 - i)
    <3>a. PICK d \in Int : d = 3 * (L + 1 - (i + n)) BY <2>1
    <3>b. Len(s) <= d /\ Len(c) <= 3 * n BY <2>5, <2>7, <3>a
    <3>c. Len(c) + Len(s) <= 3 * n + d BY <2>13, <3>b
    <3>1. Len(c) + Len(s) <= 3 * n + 3 * (L + 1 - (i + n)) BY <3>a, <3>c
    <3>2. 3 * n + 3 * (L + 1 - (i + n)) = 3 * (L + 1 - i) BY <2>1
    <3>3. L + 1 - i <= Len(c) + Len(s) BY <2>1, <2>4, <2>5, <2>6, <2>13
    <3> QED BY <2>10, <3>1, <3>2, <3>3
  <2>15. ASSUME NEW j \in i .. L
         PROVE  \E p \in 1 .. Len(t) : j - i + 1 <= p /\ bytes[j].from \subseteq t[p].from
    <3>1. CASE j < i + n
      <4>1. PICK m \in 1 .. n : m = j - i + 1 BY <2>1, <3>1
      <4>2. i + m - 1 = j /\ m \in 1 .. Len(c) BY <2>1, <2>6, <2>13, <4>1
      <4>3. t[m] = c[m] /\ m \in 1 .. Len(t) BY <2>10, <2>12, <2>13, <4>2
      <4>4. bytes[j].from \subseteq t[m].from BY <2>6, <4>2, <4>3
      <4>5. j - i + 1 <= m BY <4>1
      <4> QED BY <4>3, <4>4, <4>5
    <3>2. CASE j >= i + n
      <4>1. j \in i + n .. L BY <2>1, <3>2
      <4>2. PICK p \in 1 .. Len(s) :
               j - (i + n) + 1 <= p /\ bytes[j].from \subseteq s[p].from
        BY <2>5, <4>1
      <4>3. p + Len(c) \in 1 .. Len(c) + Len(s) /\ ~(p + Len(c) <= Len(c))
            /\ (p + Len(c)) - Len(c) = p /\ j - i + 1 <= p + Len(c)
        BY <2>1, <2>6, <2>13, <4>1, <4>2
      <4>4. t[p + Len(c)] = s[p] BY <2>12, <4>3
      <4> QED BY <2>10, <4>2, <4>3, <4>4
    <3>3. j < i + n \/ j >= i + n BY <2>1
    <3> QED BY <3>1, <3>2, <3>3
  <2>16. Origins(t) \subseteq Origins(bytes) BY <2>5, <2>6, <2>10
  <2>17. walk[i] = t BY <2>8, <2>9
  <2> QED BY <1>1, <2>10, <2>11, <2>14, <2>15, <2>16, <2>17 DEF Becomes
<1>6. \A i \in 1 .. L + 1 : (\A j \in i + 1 .. L + 1 : j \in S) => i \in S
  <2>1. TAKE i \in 1 .. L + 1
  <2>2. SUFFICES ASSUME \A j \in i + 1 .. L + 1 : j \in S PROVE Becomes(W, bytes, walk, i)
    BY <1>4
  <2>3. \A j \in i + 1 .. L + 1 : Becomes(W, bytes, walk, j) BY <1>4, <2>2
  <2>4. i \in 1 .. L \/ i = L + 1 BY <1>1
  <2> QED BY <1>3, <1>5, <2>3, <2>4
<1>7. 1 .. L + 1 \subseteq S
  <2>1. L + 1 \in Nat BY <1>1
  <2> QED BY <1>6, <2>1, CountingDown
<1> QED BY <1>1, <1>4, <1>7

\* A record holds whole characters, at least as many bytes as were captured
\* and at most three times as many, and stands for the same bytes of the file:
\* each at its own offset or behind it.
LEMMA LossyIs ==
    ASSUME NEW W \in 3 .. 4, NEW bytes \in Seq(ByteOf(W))
    PROVE  /\ Lossy(bytes) \in Seq(ByteOf(W)) /\ Intact(Lossy(bytes))
           /\ Len(bytes) <= Len(Lossy(bytes)) /\ Len(Lossy(bytes)) <= 3 * Len(bytes)
           /\ Origins(Lossy(bytes)) \subseteq Origins(bytes)
           /\ \A j \in 1 .. Len(bytes) :
                \E p \in 1 .. Len(Lossy(bytes)) :
                   j <= p /\ bytes[j].from \subseteq Lossy(bytes)[p].from
<1>1. PICK walk : IsWalk(walk, bytes) /\ Lossy(bytes) = walk[1] BY LossyWalks
<1>2. PICK L \in Nat : L = Len(bytes) OBVIOUS
<1>3. 1 \in 1 .. L + 1 BY <1>2
<1>4. Becomes(W, bytes, walk, 1) BY <1>1, <1>2, <1>3, WalkIs
<1>5. PICK s : s = Lossy(bytes) OBVIOUS
<1>6. /\ s \in Seq(ByteOf(W)) /\ Intact(s)
      /\ L + 1 - 1 <= Len(s) /\ Len(s) <= 3 * (L + 1 - 1)
      /\ Origins(s) \subseteq Origins(bytes)
      /\ \A j \in 1 .. L : \E p \in 1 .. Len(s) :
            j - 1 + 1 <= p /\ bytes[j].from \subseteq s[p].from
  BY <1>1, <1>2, <1>4, <1>5 DEF Becomes
<1>7. L + 1 - 1 = L /\ \A j \in 1 .. L : j - 1 + 1 = j BY <1>2
<1>8. L <= Len(s) /\ Len(s) <= 3 * L BY <1>6, <1>7
<1>9. \A j \in 1 .. L : \E p \in 1 .. Len(s) : j <= p /\ bytes[j].from \subseteq s[p].from
  BY <1>6, <1>7
<1> QED BY <1>2, <1>5, <1>6, <1>8, <1>9

-----------------------------------------------------------------------------
(* What a page of a record becomes in turn: the page may begin and end in   *)
(* the middle of a character, and only there does decoding lengthen it.     *)

LEMMA SliceIsInOrder ==
    ASSUME NEW W \in 3 .. 4, NEW s \in Seq(ByteOf(W)), InOrder(s),
           NEW m \in 1 .. Len(s) + 1, NEW n \in m - 1 .. Len(s)
    PROVE  InOrder(SubSeq(s, m, n))
<1>1. PICK t : t = SubSeq(s, m, n) OBVIOUS
<1>2. t \in Seq(ByteOf(W)) /\ Len(t) = n - m + 1 /\ \A i \in 1 .. n - m + 1 : t[i] = s[m + i - 1]
  BY <1>1, Slice
<1>3. Len(s) \in Nat /\ m \in Int /\ n \in Int OBVIOUS
<1>4. ASSUME NEW p \in 1 .. Len(t)
      PROVE  /\ t[p].k <= t[p].w
             /\ p + 1 <= Len(t) => \/ t[p].k = t[p].w /\ t[p + 1].k = 1
                                   \/ t[p + 1].k = t[p].k + 1 /\ t[p + 1].w = t[p].w
  <2>1. PICK q : q = m + p - 1 OBVIOUS
  <2>a. Len(t) = n - m + 1 /\ p \in Int /\ 1 <= p /\ p <= n - m + 1 BY <1>2, <1>3
  <2>b. 1 <= m /\ n <= Len(s) BY <1>3
  <2>c. p \in 1 .. n - m + 1 BY <1>3, <2>a
  <2>d. t[p] = s[q] BY <1>2, <2>c, <2>1
  <2>2. q \in 1 .. Len(s) /\ t[p] = s[q] BY <1>3, <2>1, <2>a, <2>b, <2>d
  <2>3. /\ s[q].k <= s[q].w
        /\ q + 1 <= Len(s) => \/ s[q].k = s[q].w /\ s[q + 1].k = 1
                              \/ s[q + 1].k = s[q].k + 1 /\ s[q + 1].w = s[q].w
    BY <2>2 DEF InOrder
  <2>4. ASSUME p + 1 <= Len(t) PROVE q + 1 <= Len(s) /\ t[p + 1] = s[q + 1]
    <3>1. p + 1 \in 1 .. n - m + 1 /\ m + (p + 1) - 1 = q + 1 BY <1>2, <1>3, <2>1, <2>4
    <3>2. q + 1 <= Len(s) BY <1>3, <3>1
    <3>3. t[p + 1] = s[m + (p + 1) - 1] BY <1>2, <3>1
    <3> QED BY <3>1, <3>2, <3>3
  <2> QED BY <2>2, <2>3, <2>4
<1> QED BY <1>1, <1>4 DEF InOrder

\* Of a character that begins here, all is taken, or all up to the end.
LEMMA CharacterIsTaken ==
    ASSUME NEW W \in 3 .. 4, NEW bytes \in Seq(ByteOf(W)), InOrder(bytes),
           NEW i \in 1 .. Len(bytes), bytes[i].k = 1
    PROVE  \/ /\ IsWhole(bytes, i)
              /\ i + Run(bytes, i) <= Len(bytes) => bytes[i + Run(bytes, i)].k = 1
           \/ i + Run(bytes, i) = Len(bytes) + 1
<1>1. PICK n \in 1 .. 4 : n = Run(bytes, i) /\ i + n - 1 <= Len(bytes) BY RunIs
<1>2. PICK w \in 0 .. W : w = bytes[i].w BY BytesAre
<1>3. w # 0 BY <1>2 DEF InOrder
<1>4. n <= w /\ Held(bytes, i, n) /\ \A m \in 1 .. w : Held(bytes, i, m) => m <= n
  <2>1. \/ /\ Run(bytes, i) = 1
           /\ bytes[i].k # 1 \/ bytes[i].w = 0
        \/ /\ bytes[i].w # 0 /\ Run(bytes, i) <= bytes[i].w
           /\ Held(bytes, i, Run(bytes, i))
           /\ \A m \in 1 .. bytes[i].w : Held(bytes, i, m) => m <= Run(bytes, i)
    BY RunIs
  <2> QED BY <1>1, <1>2, <1>3, <2>1
<1>5. Len(bytes) \in Nat OBVIOUS
<1>6. PICK p \in 1 .. Len(bytes) : p = i + n - 1 /\ p + 1 = i + n BY <1>1, <1>5
<1>7. bytes[p].w = w /\ bytes[p].k = n
  <2>1. \A j \in 1 .. n : bytes[i + j - 1].w = bytes[i].w /\ bytes[i + j - 1].k = j
    BY <1>4 DEF Held
  <2>2. n \in 1 .. n BY <1>1
  <2> QED BY <1>2, <1>6, <2>1, <2>2
<1>8. /\ bytes[p].k <= bytes[p].w
      /\ p + 1 <= Len(bytes) => \/ bytes[p].k = bytes[p].w /\ bytes[p + 1].k = 1
                                \/ bytes[p + 1].k = bytes[p].k + 1 /\ bytes[p + 1].w = bytes[p].w
  BY DEF InOrder
<1>9. CASE n = w
  <2>1. IsWhole(bytes, i) BY <1>1, <1>2, <1>3, <1>9 DEF IsWhole
  <2>2. ASSUME i + n <= Len(bytes) PROVE bytes[i + n].k = 1
    <3>1. SUFFICES ASSUME bytes[i + n].k = n + 1, bytes[i + n].w = w PROVE FALSE
      BY <1>6, <1>7, <1>8, <2>2
    <3>2. i + n \in 1 .. Len(bytes) BY <1>1, <1>5, <2>2
    <3>3. bytes[i + n].k <= bytes[i + n].w BY <3>2 DEF InOrder
    <3> QED BY <1>1, <1>9, <3>1, <3>3
  <2> QED BY <1>1, <2>1, <2>2
<1>10. CASE n < w
  <2>1. i + n = Len(bytes) + 1
    <3>a. i + n <= Len(bytes) + 1 /\ i + n \in Int BY <1>1, <1>2, <1>5
    <3>1. SUFFICES ASSUME i + n <= Len(bytes) PROVE FALSE BY <1>5, <3>a
    <3>2. bytes[i + n].k = n + 1 /\ bytes[i + n].w = w
      BY <1>1, <1>6, <1>7, <1>8, <1>10, <3>1
    <3>3. n + 1 \in 1 .. w /\ i + (n + 1) - 1 = i + n BY <1>1, <1>2, <1>10
    <3>4. \A j \in 1 .. n + 1 : bytes[i + j - 1].w = w /\ bytes[i + j - 1].k = j
      <4>1. TAKE j \in 1 .. n + 1
      <4>2. CASE j = n + 1 BY <3>2, <3>3, <4>2
      <4>3. CASE j # n + 1
        <5>1. j \in 1 .. n BY <1>1, <4>3
        <5> QED BY <1>2, <1>4, <5>1 DEF Held
      <4> QED BY <4>2, <4>3
    <3>5. Held(bytes, i, n + 1) BY <1>2, <3>1, <3>3, <3>4 DEF Held
    <3>6. n + 1 <= n BY <1>4, <3>3, <3>5
    <3> QED BY <1>1, <3>6
  <2> QED BY <1>1, <2>1
<1>11. n = w \/ n < w BY <1>1, <1>2, <1>4
<1> QED BY <1>9, <1>10, <1>11

\* What bytes that belong to a character begun before i add.
Slack(bytes, i) ==
    IF i > Len(bytes) \/ bytes[i].k = 1 THEN 0 ELSE 2 * (bytes[i].w - bytes[i].k + 1)

LEMMA PageGrows ==
    ASSUME NEW W \in 3 .. 4, NEW bytes \in Seq(ByteOf(W)), InOrder(bytes)
    PROVE  Len(Lossy(bytes)) <= Len(bytes) + 2 * W
<1>1. PICK walk : IsWalk(walk, bytes) /\ Lossy(bytes) = walk[1] BY LossyWalks
<1>2. PICK L \in Nat : L = Len(bytes) OBVIOUS
<1>3. walk[L + 1] = <<>> /\ \A i \in 1 .. L : walk[i] = Decoded(bytes, i) \o walk[i + Run(bytes, i)]
  BY <1>1, <1>2, WalkSteps
<1>4. \A i \in 1 .. L + 1 : walk[i] \in Seq(ByteOf(W))
  <2>1. \A i \in 1 .. L + 1 : Becomes(W, bytes, walk, i) BY <1>1, <1>2, WalkIs
  <2> QED BY <2>1 DEF Becomes
<1>5. PICK S : S = {i \in 1 .. L + 1 : Len(walk[i]) <= (L + 1 - i) + 2 + Slack(bytes, i)} OBVIOUS
<1>6. L + 1 \in S
  <2>1. L + 1 > Len(bytes) /\ L + 1 \in 1 .. L + 1 BY <1>2
  <2>2. Slack(bytes, L + 1) = 0 BY <2>1 DEF Slack
  <2>3. Len(walk[L + 1]) = 0 BY <1>3
  <2>4. 0 <= (L + 1 - (L + 1)) + 2 + 0 BY <1>2
  <2> QED BY <1>5, <2>1, <2>2, <2>3, <2>4
<1>7. ASSUME NEW i \in 1 .. L, \A j \in i + 1 .. L + 1 : j \in S PROVE i \in S
  <2>1. PICK n \in 1 .. 4 : n = Run(bytes, i) /\ i + n - 1 <= L BY <1>2, RunIs
  <2>2. i \in 1 .. Len(bytes) /\ i \in 1 .. L + 1 /\ i + n \in i + 1 .. L + 1
    BY <1>2, <2>1
  <2>3. PICK rest : rest = walk[i + n] OBVIOUS
  <2>4. rest \in Seq(ByteOf(W)) /\ Len(rest) \in Nat
        /\ Len(rest) <= (L + 1 - (i + n)) + 2 + Slack(bytes, i + n)
    <3>1. i + n \in S BY <1>7, <2>2
    <3>2. rest \in Seq(ByteOf(W)) BY <1>4, <2>2, <2>3
    <3>3. Len(rest) \in Nat BY <3>2
    <3> QED BY <1>5, <2>3, <3>1, <3>2, <3>3
  <2>5. PICK c \in Seq(ByteOf(W)) :
           c = Decoded(bytes, i) /\ Len(c) = IF IsWhole(bytes, i) THEN n ELSE 3
    BY <2>1, <2>2, DecodedIs
  <2>6. Len(walk[i]) = Len(c) + Len(rest)
    <3>1. walk[i] = c \o rest BY <1>3, <2>1, <2>3, <2>5
    <3>2. rest \in Seq(ByteOf(W)) /\ c \in Seq(ByteOf(W)) BY <2>4, <2>5
    <3>3. Len(c \o rest) = Len(c) + Len(rest) BY <3>2
    <3> QED BY <3>1, <3>3
  <2>7. PICK k \in 1 .. 4, w \in 0 .. W : k = bytes[i].k /\ w = bytes[i].w
    BY <2>2, BytesAre
  <2>8. k <= w BY <2>2, <2>7 DEF InOrder
  <2>9. Len(c) \in Nat BY <2>5
  <2>10. SUFFICES Len(walk[i]) <= (L + 1 - i) + 2 + Slack(bytes, i) BY <1>5, <2>2
  <2>11. CASE k = 1
    <3>1. Slack(bytes, i) = 0 BY <2>7, <2>11 DEF Slack
    <3>2. CASE /\ IsWhole(bytes, i)
               /\ i + n <= Len(bytes) => bytes[i + n].k = 1
      <4>1. Slack(bytes, i + n) = 0
        <5>1. i + n > Len(bytes) \/ i + n <= Len(bytes) BY <1>2, <2>1
        <5> QED BY <3>2, <5>1 DEF Slack
      <4>2. Len(c) = n BY <2>5, <3>2
      <4> QED BY <1>2, <2>1, <2>4, <2>6, <3>1, <4>1, <4>2
    <3>3. CASE i + n = Len(bytes) + 1
      <4>1. i + n = L + 1 /\ rest = <<>> BY <1>2, <1>3, <2>3, <3>3
      <4>2. Len(rest) = 0 BY <4>1
      <4>3. Len(c) <= n + 2 BY <2>1, <2>5, <2>9
      <4>4. L + 1 - i = n BY <1>2, <2>1, <4>1
      <4> QED BY <2>1, <2>6, <2>9, <3>1, <4>2, <4>3, <4>4
    <3> QED BY <2>1, <2>2, <2>7, <2>11, <3>2, <3>3, CharacterIsTaken
  <2>12. CASE k # 1
    <3>1. n = 1
      <4>1. Run(bytes, i) = 1 \/ Held(bytes, i, Run(bytes, i)) BY <2>2, RunIs
      <4> QED BY <2>1, <2>7, <2>12, <4>1 DEF Held
    <3>2. Len(c) = 3 BY <2>5, <2>7, <2>12 DEF IsWhole
    <3>3. PICK B : B = 2 * (w - k + 1) OBVIOUS
    <3>4. Slack(bytes, i) = B
      <4>1. ~(i > Len(bytes)) BY <2>2
      <4>2. ~(i > Len(bytes) \/ bytes[i].k = 1) BY <2>7, <2>12, <4>1
      <4>3. Slack(bytes, i) = 2 * (bytes[i].w - bytes[i].k + 1) BY <4>2 DEF Slack
      <4> QED BY <2>7, <3>3, <4>3
    <3>5. B \in Int /\ B >= 2
      <4>1. w \in Int /\ k \in Int BY <2>7
      <4> QED BY <4>1, <2>8, <3>3
    <3>6. Slack(bytes, i + 1) \in Int /\ Slack(bytes, i + 1) <= B - 2
      <4>1. CASE i + 1 > Len(bytes)
        <5>1. Slack(bytes, i + 1) = 0 BY <4>1 DEF Slack
        <5> QED BY <3>5, <5>1
      <4>2. CASE i + 1 <= Len(bytes)
        <5>1. \/ k = w /\ bytes[i + 1].k = 1
              \/ bytes[i + 1].k = k + 1 /\ bytes[i + 1].w = w
          BY <2>2, <2>7, <4>2 DEF InOrder
        <5>2. CASE bytes[i + 1].k = 1
          <6>1. Slack(bytes, i + 1) = 0 BY <5>2 DEF Slack
          <6> QED BY <3>5, <6>1
        <5>3. CASE bytes[i + 1].k = k + 1 /\ bytes[i + 1].w = w
          <6>1. k + 1 # 1 /\ ~(i + 1 > Len(bytes)) BY <1>2, <2>7, <4>2
          <6>a. ~(i + 1 > Len(bytes) \/ bytes[i + 1].k = 1) BY <5>3, <6>1
          <6>b. Slack(bytes, i + 1) = 2 * (bytes[i + 1].w - bytes[i + 1].k + 1)
            BY <6>a DEF Slack
          <6>2. Slack(bytes, i + 1) = 2 * (w - (k + 1) + 1) BY <5>3, <6>b
          <6>c. w \in Int /\ k \in Int BY <2>7
          <6>3. 2 * (w - (k + 1) + 1) = B - 2 BY <3>3, <6>c
          <6> QED BY <3>5, <6>2, <6>3
        <5> QED BY <5>1, <5>2, <5>3
      <4>3. i + 1 > Len(bytes) \/ i + 1 <= Len(bytes) BY <1>2
      <4> QED BY <4>1, <4>2, <4>3
    <3>7. Len(rest) <= (L + 1 - (i + 1)) + 2 + Slack(bytes, i + 1) BY <2>4, <3>1
    <3> QED BY <1>2, <2>4, <2>6, <3>2, <3>4, <3>5, <3>6, <3>7
  <2> QED BY <2>11, <2>12
<1>8. 1 .. L + 1 \subseteq S
  <2>1. L + 1 \in Nat BY <1>2
  <2>2. \A i \in 1 .. L + 1 : (\A j \in i + 1 .. L + 1 : j \in S) => i \in S
    <3>1. TAKE i \in 1 .. L + 1
    <3>2. i \in 1 .. L \/ i = L + 1 BY <1>2
    <3> QED BY <1>6, <1>7, <3>2
  <2> QED BY <2>1, <2>2, CountingDown
<1>9. 1 \in 1 .. L + 1 /\ L + 1 - 1 = L BY <1>2
<1>10. Len(walk[1]) <= L + 2 + Slack(bytes, 1) BY <1>5, <1>8, <1>9
<1>11. Slack(bytes, 1) \in Int /\ Slack(bytes, 1) <= 2 * W - 2
  <2>1. CASE 1 > Len(bytes) \/ bytes[1].k = 1
    <3>1. Slack(bytes, 1) = 0 BY <2>1 DEF Slack
    <3> QED BY <3>1
  <2>2. CASE ~(1 > Len(bytes) \/ bytes[1].k = 1)
    <3>1. 1 \in 1 .. Len(bytes) BY <1>2, <2>2
    <3>2. PICK k \in 1 .. 4, w \in 0 .. W : k = bytes[1].k /\ w = bytes[1].w BY <3>1, BytesAre
    <3>3. Slack(bytes, 1) = 2 * (w - k + 1) BY <2>2, <3>2 DEF Slack
    <3>4. k >= 2 BY <2>2, <3>2
    <3>5. w \in Int /\ k \in Int /\ W \in Int /\ w <= W BY <3>2
    <3>6. PICK d \in Int : d = w - k + 1 BY <3>5
    <3>7. d <= W - 1 BY <3>4, <3>5, <3>6
    <3>8. Slack(bytes, 1) = 2 * d BY <3>3, <3>6
    <3> QED BY <3>5, <3>7, <3>8
  <2> QED BY <2>1, <2>2
<1>12. walk[1] \in Seq(ByteOf(W)) BY <1>4, <1>9
<1> QED BY <1>1, <1>2, <1>10, <1>11, <1>12

-----------------------------------------------------------------------------
(* What the reader can still reach.                                         *)

IsAddress(a) ==
    \/ a.c = 0 /\ a.offset \in 1 .. Len(content) + 1
    \/ a.c \in 1 .. Len(captures) /\ a.offset \in 0 .. Len(Lossy(captures[a.c]))

PagingInv(W) ==
    /\ policy \in Policies
    /\ content \in Seq(LineOf(W))
    /\ captures \in Seq(Seq(ByteOf(W)))
    /\ \A a \in open : IsAddress(a)
    /\ Recoverable

\* One read of address a: the bytes it lands and the address it continues at.
Reads(W, a, bytes, next) ==
    /\ bytes \in Seq(ByteOf(W)) /\ Land(bytes)
    /\ open' = (open \ {a}) \cup next \cup Minted(bytes, Len(captures) + 1)
    /\ \A b \in next : IsAddress(b) /\ b # a /\ Reach(b, captures) < Reach(a, captures)
    /\ Covers(a, captures) = Origins(bytes) \cup UNION {Covers(b, captures) : b \in next}
    /\ Reach(a, captures) \in Nat /\ Len(Lossy(bytes)) <= Reach(a, captures) + 2 * W

LEMMA CoversRecord ==
    ASSUME NEW W \in 3 .. 4, NEW bytes \in Seq(ByteOf(W)), NEW caps, NEW c, c # 0,
           caps[c] = bytes, NEW offset \in 0 .. Len(Lossy(bytes))
    PROVE  /\ Covers(At(c, offset), caps)
                = UNION {Lossy(bytes)[i].from : i \in offset + 1 .. Len(Lossy(bytes))}
           /\ Covers(At(c, offset), caps) \subseteq Origins(bytes)
<1>1. PICK s : s = Lossy(bytes) OBVIOUS
<1>2. s \in Seq(ByteOf(W)) /\ Origins(s) \subseteq Origins(bytes) BY <1>1, LossyIs
<1>3. Len(s) \in Nat /\ offset \in 0 .. Len(s) BY <1>1, <1>2
<1>4. PICK m \in 1 .. Len(s) + 1 : m = offset + 1 /\ Len(s) \in m - 1 .. Len(s) BY <1>3
<1>5. Origins(SubSeq(s, m, Len(s))) = UNION {s[i].from : i \in m .. Len(s)}
  <2>1. PICK e : e = Len(s) OBVIOUS
  <2>2. e \in m - 1 .. Len(s) BY <1>4, <2>1
  <2>3. s \in Seq(ByteOf(W)) /\ m \in 1 .. Len(s) + 1 BY <1>2
  <2>4. Origins(SubSeq(s, m, e)) = UNION {s[i].from : i \in m .. e} BY <2>2, <2>3, Slice
  <2> QED BY <2>1, <2>4
<1>6. Covers(At(c, offset), caps) = Origins(SubSeq(s, m, Len(s)))
  BY <1>1, <1>4 DEF Covers, At
<1>7. UNION {s[i].from : i \in m .. Len(s)} \subseteq Origins(s)
  <2>1. \A i \in m .. Len(s) : i \in 1 .. Len(s) BY <1>3
  <2> QED BY <2>1 DEF Origins
<1>8. Covers(At(c, offset), caps) = UNION {s[i].from : i \in offset + 1 .. Len(s)}
  BY <1>4, <1>5, <1>6
<1>9. Covers(At(c, offset), caps) \subseteq Origins(bytes) BY <1>2, <1>5, <1>6, <1>7
<1> QED BY <1>1, <1>8, <1>9

\* What a cut leaves out is behind the address it mints.
LEMMA CutKeeps ==
    ASSUME PagingAssumption, policy \in Policies,
           NEW W \in 3 .. 4, NEW bytes \in Seq(ByteOf(W)), NEW caps, NEW c, c # 0, caps[c] = bytes
    PROVE  /\ \A b \in Minted(bytes, c) : b = At(c, policy.head)
           /\ \A b \in Minted(bytes, c) : policy.head \in 0 .. Len(Lossy(bytes))
           /\ Origins(bytes) =
                Projected(bytes) \cup UNION {Covers(b, caps) : b \in Minted(bytes, c)}
<1>1. PICK h \in Nat, t \in Nat : h = policy.head /\ t = policy.tail BY DEF PagingAssumption
<1>2. PICK L \in Nat : L = Len(bytes) OBVIOUS
<1>3. CASE Within(bytes)
  <2>1. Minted(bytes, c) = {} /\ Projected(bytes) = Origins(bytes)
    BY <1>3 DEF Minted, Projected
  <2> QED BY <2>1
<1>4. CASE ~Within(bytes)
  <2>1. h + t < L BY <1>1, <1>2, <1>4 DEF Within
  <2>2. Minted(bytes, c) = {At(c, h)} BY <1>1, <1>4 DEF Minted
  <2>3. PICK s : s = Lossy(bytes) OBVIOUS
  <2>4. /\ s \in Seq(ByteOf(W)) /\ L <= Len(s)
        /\ \A j \in 1 .. L : \E p \in 1 .. Len(s) : j <= p /\ bytes[j].from \subseteq s[p].from
    BY <1>2, <2>3, LossyIs
  <2>5. Len(s) \in Nat BY <2>4
  <2>6. h \in 0 .. Len(s) BY <2>1, <2>4, <2>5
  <2>7. /\ Covers(At(c, h), caps) = UNION {s[i].from : i \in h + 1 .. Len(s)}
        /\ Covers(At(c, h), caps) \subseteq Origins(bytes)
    <3>1. h \in 0 .. Len(Lossy(bytes)) BY <2>3, <2>6
    <3> QED BY <2>3, <3>1, CoversRecord
  <2>8. Origins(SubSeq(bytes, 1, h)) = UNION {bytes[i].from : i \in 1 .. h}
    <3>1. 1 \in 1 .. Len(bytes) + 1 /\ h \in 1 - 1 .. Len(bytes) BY <1>2, <2>1
    <3> QED BY <3>1, Slice
  <2>9. Origins(SubSeq(bytes, L - t + 1, L)) \subseteq Origins(bytes)
    <3>1. PICK m : m = L - t + 1 OBVIOUS
    <3>2. m \in 1 .. Len(bytes) + 1 /\ L \in m - 1 .. Len(bytes) BY <1>2, <2>1, <3>1
    <3>3. Origins(SubSeq(bytes, m, L)) = UNION {bytes[i].from : i \in m .. L}
      BY <3>2, Slice
    <3>4. \A i \in m .. L : i \in 1 .. Len(bytes) BY <1>2, <3>2
    <3>5. UNION {bytes[i].from : i \in m .. L} \subseteq Origins(bytes)
      BY <3>4 DEF Origins
    <3> QED BY <3>1, <3>3, <3>5
  <2>10. Projected(bytes) =
           Origins(SubSeq(bytes, 1, h)) \cup Origins(SubSeq(bytes, L - t + 1, L))
    BY <1>1, <1>2, <1>4 DEF Projected
  <2>11. Origins(SubSeq(bytes, 1, h)) \subseteq Origins(bytes)
    <3>1. \A i \in 1 .. h : i \in 1 .. Len(bytes) BY <1>2, <2>1
    <3> QED BY <2>8, <3>1 DEF Origins
  <2>12. ASSUME NEW x \in Origins(bytes)
         PROVE  x \in Projected(bytes) \/ x \in Covers(At(c, h), caps)
    <3>1. PICK j \in 1 .. L : x \in bytes[j].from BY <1>2 DEF Origins
    <3>2. CASE j <= h
      <4>1. j \in 1 .. h BY <3>2
      <4> QED BY <2>8, <2>10, <3>1, <4>1
    <3>3. CASE j > h
      <4>1. PICK p \in 1 .. Len(s) : j <= p /\ bytes[j].from \subseteq s[p].from
        BY <2>4
      <4>2. p \in h + 1 .. Len(s) BY <3>3, <4>1
      <4> QED BY <2>7, <3>1, <4>1, <4>2
    <3>4. j <= h \/ j > h OBVIOUS
    <3> QED BY <3>2, <3>3, <3>4
  <2>13. UNION {Covers(b, caps) : b \in Minted(bytes, c)} = Covers(At(c, h), caps)
    BY <2>2
  <2>14. Origins(bytes) =
           Projected(bytes) \cup UNION {Covers(b, caps) : b \in Minted(bytes, c)}
    BY <2>7, <2>9, <2>10, <2>11, <2>12, <2>13
  <2> QED BY <1>1, <2>2, <2>3, <2>6, <2>14
<1> QED BY <1>3, <1>4

\* A capture is added behind the others, and no address loses its meaning.
LEMMA Kept ==
    ASSUME NEW W \in 3 .. 4, PagingInv(W), NEW bytes \in Seq(ByteOf(W)), Land(bytes)
    PROVE  /\ captures' \in Seq(Seq(ByteOf(W))) /\ Len(captures') = Len(captures) + 1
           /\ captures'[Len(captures) + 1] = bytes
           /\ \A b : IsAddress(b) =>
                /\ Covers(b, captures') = Covers(b, captures)
                /\ Reach(b, captures') = Reach(b, captures)
                /\ b.c \in 0 .. Len(captures)
                /\ b.c # 0 => captures'[b.c] = captures[b.c]
<1>1. captures \in Seq(Seq(ByteOf(W))) /\ captures' = Append(captures, bytes)
  BY DEF PagingInv, Land
<1>2. /\ captures' \in Seq(Seq(ByteOf(W))) /\ Len(captures') = Len(captures) + 1
      /\ captures'[Len(captures) + 1] = bytes
      /\ \A i \in 1 .. Len(captures) : captures'[i] = captures[i]
  BY <1>1
<1>3. Len(captures) \in Nat BY <1>1
<1>4. ASSUME NEW b, IsAddress(b)
      PROVE  b.c \in 0 .. Len(captures) /\ (b.c # 0 => captures'[b.c] = captures[b.c])
  BY <1>2, <1>3, <1>4 DEF IsAddress
<1>5. ASSUME NEW b, IsAddress(b)
      PROVE  /\ Covers(b, captures') = Covers(b, captures)
             /\ Reach(b, captures') = Reach(b, captures)
  BY <1>4, <1>5 DEF Covers, Reach
<1> QED BY <1>2, <1>4, <1>5

LEMMA ReadKeeps ==
    ASSUME PagingAssumption, NEW W \in 3 .. 4, PagingInv(W), NEW a \in open,
           UNCHANGED <<policy, content>>, NEW bytes, NEW next, Reads(W, a, bytes, next)
    PROVE  PagingInv(W)'
<1>1. PICK c : c = Len(captures) + 1 OBVIOUS
<1>2. /\ bytes \in Seq(ByteOf(W)) /\ Land(bytes)
      /\ open' = (open \ {a}) \cup next \cup Minted(bytes, c)
      /\ \A b \in next : IsAddress(b)
      /\ Covers(a, captures) = Origins(bytes) \cup UNION {Covers(b, captures) : b \in next}
  BY <1>1 DEF Reads
<1>3. policy \in Policies /\ content \in Seq(LineOf(W)) /\ captures \in Seq(Seq(ByteOf(W)))
      /\ (\A b \in open : IsAddress(b))
  BY DEF PagingInv
<1>4. c \in Nat \ {0} BY <1>1, <1>3
<1>5. /\ captures' \in Seq(Seq(ByteOf(W))) /\ Len(captures') = c /\ captures'[c] = bytes
      /\ \A b : IsAddress(b) =>
           /\ Covers(b, captures') = Covers(b, captures)
           /\ b.c \in 0 .. Len(captures) /\ (b.c # 0 => captures'[b.c] = captures[b.c])
  BY <1>1, <1>2, Kept
<1>6. /\ \A b \in Minted(bytes, c) : b = At(c, policy.head)
      /\ \A b \in Minted(bytes, c) : policy.head \in 0 .. Len(Lossy(bytes))
      /\ Origins(bytes) =
           Projected(bytes) \cup UNION {Covers(b, captures') : b \in Minted(bytes, c)}
  <2>1. PICK caps : caps = captures' OBVIOUS
  <2>2. caps[c] = bytes /\ c # 0 /\ policy \in Policies BY <1>3, <1>4, <1>5, <2>1
  <2>3. \A b \in Minted(bytes, c) : b = At(c, policy.head) BY <1>2, <2>2, CutKeeps
  <2>4. \A b \in Minted(bytes, c) : policy.head \in 0 .. Len(Lossy(bytes)) BY <1>2, <2>2, CutKeeps
  <2>5. Origins(bytes) =
          Projected(bytes) \cup UNION {Covers(b, caps) : b \in Minted(bytes, c)}
    BY <1>2, <2>2, CutKeeps
  <2> QED BY <2>1, <2>3, <2>4, <2>5
<1>7. \A b \in open' : IsAddress(b)'
  <2>1. ASSUME NEW b, IsAddress(b) PROVE IsAddress(b)'
    <3>1. CASE b.c = 0 BY <2>1, <3>1, <1>3 DEF IsAddress
    <3>2. CASE b.c # 0
      <4>1. b.c \in 1 .. Len(captures) /\ b.offset \in 0 .. Len(Lossy(captures[b.c]))
        BY <2>1, <3>2 DEF IsAddress
      <4>2. captures'[b.c] = captures[b.c] BY <1>5, <2>1, <3>2
      <4>3. b.c \in 1 .. Len(captures') BY <1>1, <1>3, <1>5, <4>1
      <4> QED BY <4>1, <4>2, <4>3 DEF IsAddress
    <3> QED BY <3>1, <3>2
  <2>2. ASSUME NEW b \in Minted(bytes, c) PROVE IsAddress(b)'
    <3>1. b.c = c /\ b.offset = policy.head BY <1>6 DEF At
    <3>2. b.c \in 1 .. Len(captures') BY <1>4, <1>5, <3>1
    <3>3. captures'[b.c] = bytes BY <1>5, <3>1
    <3>4. b.offset \in 0 .. Len(Lossy(captures'[b.c])) BY <1>6, <3>1, <3>3
    <3> QED BY <3>2, <3>4 DEF IsAddress
  <2> QED BY <1>2, <1>3, <2>1, <2>2
<1>8. Recoverable'
  <2>1. shown' = shown \cup Projected(bytes) BY <1>2 DEF Land
  <2>2. Origins(Joined(content)) = shown \cup UNION {Covers(b, captures) : b \in open}
    BY DEF PagingInv, Recoverable
  <2>3. \A b : Covers(b, captures)' = Covers(b, captures') BY DEF Covers
  <2>4. \A b \in open \cup next : Covers(b, captures') = Covers(b, captures)
    BY <1>2, <1>3, <1>5
  <2>5. PICK all : all = Origins(Joined(content)) OBVIOUS
  <2>6. PICK reach : reach = UNION {Covers(b, captures') : b \in open'} OBVIOUS
  <2>7. all \subseteq shown' \cup reach
    <3>1. SUFFICES ASSUME NEW x \in all, x \notin shown'
                   PROVE  \E b \in open' : x \in Covers(b, captures')
      BY <2>6
    <3>2. x \notin shown BY <2>1, <3>1
    <3>3. PICK b \in open : x \in Covers(b, captures) BY <2>2, <2>5, <3>1, <3>2
    <3>4. CASE b # a
      <4>1. b \in open' BY <1>2, <3>4
      <4> QED BY <2>4, <3>3, <4>1
    <3>5. CASE b = a
      <4>1. x \in Origins(bytes) \/ \E d \in next : x \in Covers(d, captures)
        BY <1>2, <3>3, <3>5
      <4>2. CASE \E d \in next : x \in Covers(d, captures)
        <5>1. PICK d \in next : x \in Covers(d, captures) BY <4>2
        <5>2. d \in open' BY <1>2
        <5> QED BY <2>4, <5>1, <5>2
      <4>3. CASE x \in Origins(bytes)
        <5>1. PICK d \in Minted(bytes, c) : x \in Covers(d, captures')
          BY <1>6, <2>1, <3>1, <4>3
        <5>2. d \in open' BY <1>2
        <5> QED BY <5>1, <5>2
      <4> QED BY <4>1, <4>2, <4>3
    <3> QED BY <3>4, <3>5
  <2>8. \A b \in open \cup next : Covers(b, captures) \subseteq all
    <3>1. \A b \in open : Covers(b, captures) \subseteq all BY <2>2, <2>5
    <3>2. \A b \in next : Covers(b, captures) \subseteq Covers(a, captures) BY <1>2
    <3> QED BY <3>1, <3>2
  <2>9. Origins(bytes) \subseteq all
    <3>1. Origins(bytes) \subseteq Covers(a, captures) BY <1>2
    <3>2. Covers(a, captures) \subseteq all BY <2>8
    <3> QED BY <3>1, <3>2
  <2>10. \A b \in Minted(bytes, c) : Covers(b, captures') \subseteq all BY <1>6, <2>9
  <2>a. Projected(bytes) \subseteq all BY <1>6, <2>9
  <2>b. \A b \in open' : Covers(b, captures') \subseteq all
    <3>1. TAKE b \in open'
    <3>2. CASE b \in Minted(bytes, c) BY <2>10, <3>2
    <3>3. CASE b \in open \cup next BY <2>4, <2>8, <3>3
    <3> QED BY <1>2, <3>2, <3>3
  <2>c. shown \subseteq all BY <2>2, <2>5
  <2>d. reach \subseteq all BY <2>6, <2>b
  <2>11. all = shown' \cup reach BY <2>1, <2>7, <2>a, <2>c, <2>d
  <2>12. reach = UNION {Covers(b, captures)' : b \in open'} BY <2>3, <2>6
  <2>13. Origins(Joined(content))' = all BY <2>5
  <2> QED BY <2>11, <2>12, <2>13 DEF Recoverable
<1> QED BY <1>3, <1>5, <1>7, <1>8 DEF PagingInv

LEMMA SplitAfter ==
    ASSUME NEW S, NEW parts \in Seq(S), NEW m \in 1 .. Len(parts) + 1,
           NEW n \in m - 1 .. Len(parts)
    PROVE  /\ SubSeq(parts, m, Len(parts))
                = SubSeq(parts, m, n) \o SubSeq(parts, n + 1, Len(parts))
           /\ SubSeq(parts, m, n) \in Seq(S) /\ SubSeq(parts, n + 1, Len(parts)) \in Seq(S)
           /\ Len(SubSeq(parts, m, n)) = n - m + 1
<1>1. PICK L \in Nat : L = Len(parts) OBVIOUS
<1>2. m \in Int /\ n \in Int /\ 1 <= m /\ m <= L + 1 /\ m - 1 <= n /\ n <= L
  BY <1>1
<1>3. PICK whole : whole = SubSeq(parts, m, L) OBVIOUS
<1>4. PICK left : left = SubSeq(parts, m, n) OBVIOUS
<1>5. PICK right : right = SubSeq(parts, n + 1, L) OBVIOUS
<1>6. \A i \in 1 .. L : parts[i] \in S BY <1>1
<1>7. /\ whole \in Seq(S) /\ Len(whole) = L - m + 1
      /\ \A i \in 1 .. L - m + 1 : whole[i] = parts[m + i - 1]
  <2>1. m \in Int /\ L \in Int /\ \A i \in m .. L : parts[i] \in S BY <1>2, <1>6
  <2>2. /\ whole \in Seq(S) /\ Len(whole) = IF m <= L THEN L - m + 1 ELSE 0
        /\ \A i \in 1 .. L - m + 1 : whole[i] = parts[m + i - 1]
    BY <1>1, <1>3, <2>1, SubSeqProperties
  <2>3. Len(whole) = L - m + 1 BY <1>1, <1>2, <2>2
  <2> QED BY <2>2, <2>3
<1>8. /\ left \in Seq(S) /\ Len(left) = n - m + 1
      /\ \A i \in 1 .. n - m + 1 : left[i] = parts[m + i - 1]
  <2>1. m \in Int /\ n \in Int /\ \A i \in m .. n : parts[i] \in S BY <1>1, <1>2, <1>6
  <2>2. /\ left \in Seq(S) /\ Len(left) = IF m <= n THEN n - m + 1 ELSE 0
        /\ \A i \in 1 .. n - m + 1 : left[i] = parts[m + i - 1]
    BY <1>4, <2>1, SubSeqProperties
  <2>3. Len(left) = n - m + 1 BY <1>2, <2>2
  <2> QED BY <2>2, <2>3
<1>9. /\ right \in Seq(S) /\ Len(right) = L - n
      /\ \A i \in 1 .. L - n : right[i] = parts[n + i]
  <2>0. PICK k \in Int : k = n + 1 BY <1>2
  <2>1. L \in Int /\ \A i \in k .. L : parts[i] \in S BY <1>1, <1>2, <1>6, <2>0
  <2>2. /\ right \in Seq(S) /\ Len(right) = IF k <= L THEN L - k + 1 ELSE 0
        /\ \A i \in 1 .. L - k + 1 : right[i] = parts[k + i - 1]
    BY <1>5, <2>0, <2>1, SubSeqProperties
  <2>3. Len(right) = L - n BY <1>1, <1>2, <2>0, <2>2
  <2>4. L - k + 1 = L - n /\ \A i \in 1 .. L - n : k + i - 1 = n + i BY <1>1, <1>2, <2>0
  <2> QED BY <2>2, <2>3, <2>4
<1>10. PICK both : both = left \o right OBVIOUS
<1>11. /\ both \in Seq(S) /\ Len(both) = Len(left) + Len(right)
       /\ \A i \in 1 .. Len(left) + Len(right) :
            both[i] = IF i <= Len(left) THEN left[i] ELSE right[i - Len(left)]
  BY <1>8, <1>9, <1>10, ConcatProperties
<1>12. Len(both) = Len(whole) BY <1>1, <1>2, <1>7, <1>8, <1>9, <1>11
<1>13. ASSUME NEW i \in 1 .. Len(whole) PROVE whole[i] = both[i]
  <2>1. whole[i] = parts[m + i - 1] BY <1>7
  <2>2. i \in 1 .. Len(left) + Len(right) BY <1>11, <1>12
  <2>3. CASE i <= Len(left)
    <3>1. i \in 1 .. n - m + 1 BY <1>8, <2>3
    <3>2. both[i] = left[i] BY <1>11, <2>2, <2>3
    <3>3. left[i] = parts[m + i - 1] BY <1>8, <3>1
    <3> QED BY <2>1, <3>2, <3>3
  <2>4. CASE ~(i <= Len(left))
    <3>1. PICK j : j = i - Len(left) OBVIOUS
    <3>2. j \in 1 .. L - n /\ n + j = m + i - 1
      BY <1>1, <1>2, <1>7, <1>8, <2>4, <3>1
    <3>3. both[i] = right[j] BY <1>11, <2>2, <2>4, <3>1
    <3> QED BY <1>9, <2>1, <3>2, <3>3
  <2> QED BY <2>3, <2>4
<1>14. whole = both BY <1>7, <1>11, <1>12, <1>13, SeqEqual
<1> QED BY <1>1, <1>3, <1>4, <1>5, <1>8, <1>9, <1>10, <1>14

\* Reading the file: the lines up to the last one selected, and those after it.
LEMMA FileReads ==
    ASSUME PagingAssumption, NEW W \in 3 .. 4, UnitsUpTo(W), PagingInv(W),
           NEW a \in open, ReadFile(a)
    PROVE  \E bytes, next : Reads(W, a, bytes, next)
<1>1. /\ content \in Seq(LineOf(W)) /\ IsAddress(a) /\ a.c = 0
  BY DEF PagingInv, ReadFile
<1>2. PICK L \in Nat : L = Len(content) BY <1>1
<1>3. PICK o \in 1 .. L + 1 : o = a.offset BY <1>1, <1>2 DEF IsAddress
<1>4. PICK limit \in Limits :
        /\ Land(Selected(a.offset, limit))
        /\ open' = (open \ {a}) \cup Continues(a.offset, limit)
                     \cup Minted(Selected(a.offset, limit), Len(captures) + 1)
  BY DEF ReadFile
<1>5. limit \in Nat BY DEF UnitsUpTo
<1>6. PICK end \in o - 1 .. L : end = LastLine(o, limit) /\ (o <= L => o <= end)
  <2>1. LastLine(o, limit) \in o - 1 .. L /\ (o <= L => o <= LastLine(o, limit))
    <3>1. CASE limit = 0 BY <1>2, <3>1 DEF LastLine
    <3>2. CASE limit # 0 BY <1>2, <1>5, <3>2 DEF LastLine, Lesser
    <3> QED BY <3>1, <3>2
  <2> QED BY <2>1
<1>7. content \in Seq(Seq(ByteOf(W)) \ {<<>>}) BY <1>1 DEF LineOf
<1>8. content \in Seq(Seq(ByteOf(W))) BY <1>7
<1>9. PICK left \in Seq(Seq(ByteOf(W)) \ {<<>>}), right \in Seq(Seq(ByteOf(W)) \ {<<>>}) :
        /\ left = SubSeq(content, o, end) /\ right = SubSeq(content, end + 1, L)
        /\ SubSeq(content, o, L) = left \o right /\ Len(left) = end - o + 1
  <2>1. o \in 1 .. Len(content) + 1 /\ end \in o - 1 .. Len(content) BY <1>2
  <2>2. PICK S : S = Seq(ByteOf(W)) \ {<<>>} OBVIOUS
  <2>3. content \in Seq(S) BY <1>7, <2>2
  <2>4. /\ SubSeq(content, o, Len(content))
             = SubSeq(content, o, end) \o SubSeq(content, end + 1, Len(content))
        /\ SubSeq(content, o, end) \in Seq(S)
        /\ SubSeq(content, end + 1, Len(content)) \in Seq(S)
        /\ Len(SubSeq(content, o, end)) = end - o + 1
    BY <2>1, <2>3, SplitAfter
  <2> QED BY <1>2, <2>2, <2>4
<1>10. left \in Seq(Seq(ByteOf(W))) /\ right \in Seq(Seq(ByteOf(W))) OBVIOUS
<1>11. PICK bytes \in Seq(ByteOf(W)) : bytes = Joined(left) BY <1>10, JoinedIsASeq
<1>12. PICK rest \in Seq(ByteOf(W)) : rest = Joined(right) BY <1>10, JoinedIsASeq
<1>13. Joined(SubSeq(content, o, L)) = bytes \o rest
  BY <1>9, <1>10, <1>11, <1>12, JoinedConcat
<1>14. /\ Len(bytes \o rest) = Len(bytes) + Len(rest)
       /\ Origins(bytes \o rest) = Origins(bytes) \cup Origins(rest)
  BY OriginsOfConcat
<1>15. Len(bytes) \in Nat /\ Len(rest) \in Nat OBVIOUS
<1>16. Covers(a, captures) = Origins(bytes) \cup Origins(rest)
  BY <1>1, <1>2, <1>3, <1>13, <1>14 DEF Covers
<1>17. Reach(a, captures) = (Len(bytes) + Len(rest)) * 3 + 1
  BY <1>1, <1>2, <1>3, <1>13, <1>14 DEF Reach
<1>18. Selected(a.offset, limit) = bytes BY <1>3, <1>6, <1>9, <1>11 DEF Selected
<1>19. PICK next : next = Continues(a.offset, limit) OBVIOUS
<1>20. next = IF end + 1 <= L THEN {At(0, end + 1)} ELSE {}
  <2>1. o + (end - o + 1) = end + 1 BY <1>2
  <2> QED BY <1>2, <1>3, <1>6, <1>19, <2>1 DEF Continues
<1>21. Land(bytes) /\ open' = (open \ {a}) \cup next \cup Minted(bytes, Len(captures) + 1)
  BY <1>4, <1>18, <1>19
<1>22. Covers(At(0, end + 1), captures) = Origins(rest)
  BY <1>2, <1>9, <1>12 DEF Covers, At
<1>23. Covers(a, captures) = Origins(bytes) \cup UNION {Covers(b, captures) : b \in next}
  <2>1. CASE end + 1 <= L
    <3>1. UNION {Covers(b, captures) : b \in next} = Origins(rest) BY <1>20, <1>22, <2>1
    <3> QED BY <1>16, <3>1
  <2>2. CASE ~(end + 1 <= L)
    <3>1. Len(SubSeq(content, end + 1, L)) = 0 BY <1>2, <2>2
    <3>2. right = <<>> BY <1>9, <3>1, EmptySeq
    <3>3. Origins(rest) = {} BY <1>12, <3>2, JoinedNothing, OriginsOfNothing
    <3> QED BY <1>16, <1>20, <2>2, <3>3
  <2> QED BY <2>1, <2>2
<1>24. ASSUME NEW b \in next
       PROVE  IsAddress(b) /\ b # a /\ Reach(b, captures) < Reach(a, captures)
  <2>1. end + 1 <= L /\ b = At(0, end + 1) BY <1>20, <1>24
  <2>2. o <= end BY <1>2, <1>6, <2>1
  <2>3. IsAddress(b) BY <1>2, <2>1, <2>2 DEF IsAddress, At
  <2>4. b # a
    <3>1. b.offset = end + 1 BY <2>1 DEF At
    <3> QED BY <1>3, <2>2, <3>1
  <2>5. left # <<>>
    <3>1. Len(left) # 0 BY <1>9, <2>2
    <3> QED BY <3>1
  <2>6. bytes # <<>> BY <1>11, <2>5, JoinedNotEmpty
  <2>7. Len(bytes) # 0 BY <2>6, EmptySeq
  <2>8. Reach(b, captures) = Len(rest) * 3 + 1
    BY <1>2, <1>9, <1>12, <2>1 DEF Reach, At
  <2>9. Reach(b, captures) < Reach(a, captures) BY <1>15, <1>17, <2>7, <2>8
  <2> QED BY <2>3, <2>4, <2>9
<1>25. Len(Lossy(bytes)) <= Reach(a, captures) + 2 * W
  <2>1. Len(Lossy(bytes)) <= 3 * Len(bytes) /\ Lossy(bytes) \in Seq(ByteOf(W)) BY LossyIs
  <2>2. Len(Lossy(bytes)) \in Nat BY <2>1
  <2> QED BY <1>15, <1>17, <2>1, <2>2
<1>26. Reach(a, captures) \in Nat BY <1>15, <1>17
<1>27. Reads(W, a, bytes, next) BY <1>21, <1>23, <1>24, <1>25, <1>26 DEF Reads
<1> QED BY <1>27

\* Reading a capture: one page, and the record behind it.
LEMMA OutputReads ==
    ASSUME PagingAssumption, NEW W \in 3 .. 4, PagingInv(W),
           NEW a \in open, ReadToolOutput(a)
    PROVE  \E bytes, next : Reads(W, a, bytes, next)
<1>1. captures \in Seq(Seq(ByteOf(W))) /\ IsAddress(a) /\ a.c # 0
  BY DEF PagingInv, ReadToolOutput
<1>2. PICK c \in 1 .. Len(captures) : c = a.c /\ a.offset \in 0 .. Len(Lossy(captures[c]))
  BY <1>1 DEF IsAddress
<1>3. captures[c] \in Seq(ByteOf(W)) BY <1>1
<1>4. PICK s : s = Lossy(captures[c]) OBVIOUS
<1>5. s \in Seq(ByteOf(W)) /\ Intact(s) BY <1>3, <1>4, LossyIs
<1>6. PICK L \in Nat : L = Len(s) BY <1>5
<1>7. PICK o \in 0 .. L : o = a.offset BY <1>2, <1>4, <1>6
<1>8. Recorded(a.c) = s BY <1>2, <1>4 DEF Recorded
<1>9. PICK e \in o .. L : e = PageEnd(a) /\ (e < L => o < e)
  <2>1. PAGE_BYTES \in Nat \ {0} BY DEF PagingAssumption
  <2>2. PageEnd(a) = IF o + PAGE_BYTES < L THEN o + PAGE_BYTES ELSE L
    BY <1>6, <1>7, <1>8 DEF PageEnd, Lesser
  <2> QED BY <1>6, <2>1, <2>2
<1>10. PICK m : m = o + 1 OBVIOUS
<1>11. m \in 1 .. Len(s) + 1 /\ e \in m - 1 .. Len(s) /\ L \in m - 1 .. Len(s)
  BY <1>6, <1>10
<1>12. PICK page : page = SubSeq(s, m, e) OBVIOUS
<1>13. /\ page \in Seq(ByteOf(W)) /\ Len(page) = e - m + 1
       /\ Origins(page) = UNION {s[i].from : i \in m .. e}
  BY <1>5, <1>11, <1>12, Slice
<1>14. InOrder(page)
  <2>1. InOrder(s) BY <1>5 DEF Intact
  <2> QED BY <1>5, <1>11, <1>12, <2>1, SliceIsInOrder
<1>15. Page(a) = page BY <1>7, <1>8, <1>9, <1>10, <1>12 DEF Page
<1>16. PICK next : next = Banner(a) OBVIOUS
<1>17. next = IF e < L THEN {At(c, e)} ELSE {} BY <1>2, <1>6, <1>8, <1>9, <1>16 DEF Banner
<1>18. Land(page) /\ open' = (open \ {a}) \cup next \cup Minted(page, Len(captures) + 1)
  BY <1>15, <1>16 DEF ReadToolOutput
<1>19. Covers(a, captures) = UNION {s[i].from : i \in m .. L}
  <2>1. Covers(a, captures) = Origins(SubSeq(s, m, L))
    BY <1>1, <1>2, <1>4, <1>6, <1>7, <1>10 DEF Covers
  <2> QED BY <1>5, <1>11, <2>1, Slice
<1>20. Reach(a, captures) = L - o BY <1>1, <1>2, <1>4, <1>6, <1>7 DEF Reach
<1>21. c # 0 BY <1>1, <1>2
<1>22. e < L => Covers(At(c, e), captures) = UNION {s[i].from : i \in e + 1 .. L}
  <2>1. e \in 0 .. Len(Lossy(captures[c])) BY <1>4, <1>6
  <2>2. Covers(At(c, e), captures)
          = UNION {Lossy(captures[c])[i].from : i \in e + 1 .. Len(Lossy(captures[c]))}
    BY <1>3, <1>21, <2>1, CoversRecord
  <2> QED BY <1>4, <1>6, <2>2
<1>23. Covers(a, captures) = Origins(page) \cup UNION {Covers(b, captures) : b \in next}
  <2>1. CASE e < L
    <3>1. UNION {Covers(b, captures) : b \in next} = UNION {s[i].from : i \in e + 1 .. L}
      BY <1>17, <1>22, <2>1
    <3>2. m .. L = (m .. e) \cup (e + 1 .. L) BY <1>6, <1>10
    <3> QED BY <1>13, <1>19, <3>1, <3>2
  <2>2. CASE ~(e < L)
    <3>1. e = L /\ next = {} BY <1>6, <1>17, <2>2
    <3> QED BY <1>13, <1>19, <3>1
  <2> QED BY <2>1, <2>2
<1>24. ASSUME NEW b \in next
       PROVE  IsAddress(b) /\ b # a /\ Reach(b, captures) < Reach(a, captures)
  <2>1. e < L /\ b = At(c, e) /\ o < e BY <1>9, <1>17, <1>24
  <2>2. b.c = c /\ b.offset = e BY <2>1 DEF At
  <2>3. IsAddress(b) BY <1>4, <1>6, <2>2 DEF IsAddress
  <2>4. b # a BY <1>7, <2>1, <2>2
  <2>5. Reach(b, captures) = L - e BY <1>4, <1>6, <1>21, <2>2 DEF Reach
  <2>6. Reach(b, captures) < Reach(a, captures) BY <1>6, <1>20, <2>1, <2>5
  <2> QED BY <2>3, <2>4, <2>6
<1>25. Len(Lossy(page)) <= Reach(a, captures) + 2 * W
  <2>1. Len(Lossy(page)) <= Len(page) + 2 * W BY <1>13, <1>14, PageGrows
  <2>2. Lossy(page) \in Seq(ByteOf(W)) BY <1>13, LossyIs
  <2>3. Len(Lossy(page)) \in Nat BY <2>2
  <2>4. Len(page) <= L - o BY <1>6, <1>10, <1>13
  <2> QED BY <1>6, <1>13, <1>20, <2>1, <2>3, <2>4
<1>26. Reach(a, captures) \in Nat BY <1>6, <1>20
<1>27. Reads(W, a, page, next) BY <1>13, <1>18, <1>23, <1>24, <1>25, <1>26 DEF Reads
<1> QED BY <1>27

LEMMA PagingInitInv ==
    ASSUME NEW W \in 3 .. 4, UnitsUpTo(W), PagingInit
    PROVE  PagingInv(W)
<1>1. PICK f \in Files : content = Lines(f) BY DEF PagingInit
<1>2. f \in Seq(Seq(0 .. W) \ {<<>>}) BY DEF UnitsUpTo
<1>3. content \in Seq(LineOf(W)) BY <1>1, <1>2, LinesAreLines
<1>4. policy \in Policies /\ captures = <<>> /\ shown = {} /\ open = {At(0, 1)}
  BY DEF PagingInit
<1>5. captures \in Seq(Seq(ByteOf(W))) BY <1>4
<1>6. Len(content) \in Nat BY <1>3
<1>7. \A a \in open : IsAddress(a) BY <1>4, <1>6 DEF IsAddress, At
<1>8. SubSeq(content, 1, Len(content)) = content BY <1>3, SubSeqFull
<1>9. Covers(At(0, 1), captures) = Origins(Joined(content)) BY <1>8 DEF Covers, At
<1>10. Recoverable BY <1>4, <1>9 DEF Recoverable
<1> QED BY <1>3, <1>4, <1>5, <1>7, <1>10 DEF PagingInv

LEMMA EveryRead ==
    ASSUME PagingAssumption, NEW W \in 3 .. 4, UnitsUpTo(W), PagingInv(W), PagingNext
    PROVE  /\ \E a \in open : \E bytes, next : Reads(W, a, bytes, next)
           /\ UNCHANGED <<policy, content>>
<1>1. PICK a \in open : ReadFile(a) \/ ReadToolOutput(a) BY DEF PagingNext
<1>2. \E bytes, next : Reads(W, a, bytes, next) BY <1>1, FileReads, OutputReads
<1> QED BY <1>2 DEF PagingNext

LEMMA PagingNextInv ==
    ASSUME PagingAssumption, NEW W \in 3 .. 4, UnitsUpTo(W), PagingInv(W),
           [PagingNext]_pagingVars
    PROVE  PagingInv(W)'
<1>1. CASE PagingNext
  <2>1. PICK a \in open : \E bytes, next : Reads(W, a, bytes, next) BY <1>1, EveryRead
  <2>2. UNCHANGED <<policy, content>> BY <1>1, EveryRead
  <2>3. PICK bytes, next : Reads(W, a, bytes, next) BY <2>1
  <2> QED BY <2>2, <2>3, ReadKeeps
<1>2. CASE UNCHANGED pagingVars
  BY <1>2 DEF pagingVars, PagingInv, IsAddress, Recoverable, Covers
<1> QED BY <1>1, <1>2

\* What a read hands out covers less than what it takes, once the head that is
\* shown is longer than what two broken characters can become.
LEMMA ReadsShrink ==
    ASSUME PagingAssumption, NEW W \in 3 .. 4, \A p \in Policies : p.head > 2 * W,
           PagingInv(W), NEW a \in open, NEW bytes, NEW next, Reads(W, a, bytes, next)
    PROVE  /\ a \notin open'
           /\ \A b \in open' \ open : Reach(b, captures') < Reach(a, captures)
<1>1. PICK c : c = Len(captures) + 1 OBVIOUS
<1>2. /\ bytes \in Seq(ByteOf(W)) /\ Land(bytes)
      /\ open' = (open \ {a}) \cup next \cup Minted(bytes, c)
      /\ \A b \in next : IsAddress(b) /\ b # a /\ Reach(b, captures) < Reach(a, captures)
      /\ Reach(a, captures) \in Nat /\ Len(Lossy(bytes)) <= Reach(a, captures) + 2 * W
  BY <1>1 DEF Reads
<1>3. policy \in Policies /\ IsAddress(a) /\ captures \in Seq(Seq(ByteOf(W)))
  BY DEF PagingInv
<1>4. c \in Nat \ {0} /\ c = Len(captures) + 1 /\ Len(captures) \in Nat BY <1>1, <1>3
<1>5. PICK h \in Nat : h = policy.head /\ h > 2 * W
  <2>1. policy.head \in Nat BY <1>3 DEF PagingAssumption
  <2> QED BY <1>3, <2>1
<1>6. /\ captures'[c] = bytes
      /\ \A b : IsAddress(b) => /\ Reach(b, captures') = Reach(b, captures)
                                /\ b.c \in 0 .. Len(captures)
  BY <1>1, <1>2, Kept
<1>7. \A b \in Minted(bytes, c) : b = At(c, h)
  <2>1. Minted(bytes, c) = {} \/ Minted(bytes, c) = {At(c, h)} BY <1>5 DEF Minted
  <2> QED BY <2>1
<1>8. At(c, h).c = c /\ At(c, h).offset = h BY DEF At
<1>9. a \notin Minted(bytes, c)
  <2>1. a.c \in 0 .. Len(captures) BY <1>3, <1>6
  <2>2. a.c # c BY <1>4, <2>1
  <2> QED BY <1>7, <1>8, <2>2
<1>10. a \notin open' BY <1>2, <1>9
<1>11. Reach(At(c, h), captures') < Reach(a, captures)
  <2>1. Reach(At(c, h), captures') = Len(Lossy(bytes)) - h BY <1>4, <1>6, <1>8 DEF Reach
  <2>2. Lossy(bytes) \in Seq(ByteOf(W)) BY <1>2, LossyIs
  <2>3. Len(Lossy(bytes)) \in Nat BY <2>2
  <2> QED BY <1>2, <1>5, <2>1, <2>3
<1>12. ASSUME NEW b \in open' \ open PROVE Reach(b, captures') < Reach(a, captures)
  <2>1. CASE b \in next BY <1>2, <1>6, <2>1
  <2>2. CASE b \in Minted(bytes, c) BY <1>7, <1>11, <2>2
  <2> QED BY <1>2, <1>12, <2>1, <2>2
<1> QED BY <1>10, <1>12

(* Nothing a cut removed is out of reach, whatever the files, the pages and *)
(* the policies: every byte is in the transcript or behind an address the   *)
(* model holds (bound.rs, read_tool_output.rs, read_file.rs).               *)
THEOREM NothingOutOfReach ==
    ASSUME PagingAssumption, NEW W \in 3 .. 4, UnitsUpTo(W)
    PROVE  PagingSpec => []Recoverable
<1>1. PagingInit => PagingInv(W) BY PagingInitInv
<1>2. PagingInv(W) /\ [PagingNext]_pagingVars => PagingInv(W)' BY PagingNextInv
<1>3. PagingInv(W) => Recoverable BY DEF PagingInv
<1> QED BY <1>1, <1>2, <1>3, PTL DEF PagingSpec

(* A read uses up its address, and those it hands out cover less, when the  *)
(* head a policy shows is longer than two characters: a page may begin and  *)
(* end in the middle of one, and its record is longer than it by that much  *)
(* (bound.rs, read_tool_output.rs; the shipped head is 2048 bytes).        *)
THEOREM ReadingComesToAnEnd ==
    ASSUME PagingAssumption, NEW W \in 3 .. 4, UnitsUpTo(W),
           \A p \in Policies : p.head > 2 * W
    PROVE  PagingSpec => ReadsToTheEnd
<1>1. PagingInit => PagingInv(W) BY PagingInitInv
<1>2. PagingInv(W) /\ [PagingNext]_pagingVars => PagingInv(W)' BY PagingNextInv
<1>3. PagingInv(W) /\ PagingInv(W)' /\ [PagingNext]_pagingVars
        => [Recoverable' /\ ReadCoversLess]_pagingVars
  <2>1. SUFFICES ASSUME PagingInv(W), PagingInv(W)', PagingNext
                 PROVE  Recoverable' /\ ReadCoversLess
    OBVIOUS
  <2>2. Recoverable' BY <2>1 DEF PagingInv
  <2>3. PICK a \in open : \E bytes, next : Reads(W, a, bytes, next) BY <2>1, EveryRead
  <2>4. PICK bytes, next : Reads(W, a, bytes, next) BY <2>3
  <2>5. /\ a \notin open'
        /\ \A b \in open' \ open : Reach(b, captures') < Reach(a, captures)
    BY <2>1, <2>4, ReadsShrink
  <2> QED BY <2>2, <2>5 DEF ReadCoversLess
<1> QED BY <1>1, <1>2, <1>3, PTL DEF PagingSpec, ReadsToTheEnd

-----------------------------------------------------------------------------
(* Request.  What a block, an entry, a declared tool and a request are.     *)

Blocks ==
    [is : {"file", "text", "use", "result"}, id : Nat, tool : Range(ToolNames) \cup {""}]
Messages == [role : {"user", "assistant", "tool"}, content : Seq(Blocks)]
Declared ==
    [name : Range(ToolNames) \cup {""}, as : {"schema", "bare", "refused"},
     set : SUBSET (Range(ToolNames) \cup Host)]
Requests == [soul : Int, messages : Seq(Messages), tools : Seq(Declared)]

RequestTypeOK ==
    /\ phase \in {"boundary", "calling", "running"}
    /\ entries \in Seq(Messages)
    /\ files \subseteq Selectable
    /\ granted \subseteq Range(ToolNames) /\ injected \subseteq Host
    /\ overflow \in Overflows
    /\ last \in Requests
    /\ soul \in Int /\ acts \in Nat

\* Each side's blocks are its own, and an entry says something.
Sided(m) ==
    /\ m.content # <<>>
    /\ m.role # "assistant" => Uses(m) = {}
    /\ m.role # "tool" => Results(m) = {}
    /\ m.role = "tool" => \A b \in Range(m.content) : b.is = "result"

\* Entry p asked for tools and nothing but results came from there to j.
Open(list, p, j) ==
    /\ Uses(list[p]) # {}
    /\ \A k \in p + 1 .. j : list[k].role = "tool"
Answers(list, p, q) == UNION {Results(list[k]) : k \in p + 1 .. q}

\* A result answers the window it is in, or its call is one an old cut took,
\* from before any other.
Placed(list, j) ==
    \/ \E p \in 1 .. j - 1 : Open(list, p, j) /\ Results(list[j]) \subseteq Uses(list[p])
    \/ \A p \in 1 .. j - 1 : Uses(list[p]) = {}

\* What was asked before q and nothing but results came since is answered.
AnsweredBy(list, q) ==
    \A p \in 1 .. q : Open(list, p, q) => Uses(list[p]) \subseteq Answers(list, p, q)

Windows(list) ==
    \A j \in DOMAIN list :
        /\ Sided(list[j])
        /\ list[j].role = "tool" => Placed(list, j)
        /\ list[j].role # "tool" => AnsweredBy(list, j - 1)

\* A window that still waits for a result.
Waits(list, p) == Open(list, p, Len(list)) /\ ~ (Uses(list[p]) \subseteq Answers(list, p, Len(list)))

RequestInv ==
    /\ RequestTypeOK
    /\ Lawful
    /\ entries # <<>> /\ entries[1].role = "user"
    /\ Windows(entries)
    /\ IF phase = "running" THEN \E p \in DOMAIN entries : Waits(entries, p)
       ELSE AnsweredBy(entries, Len(entries))

-----------------------------------------------------------------------------
(* A function defined along a sequence is there, and has its steps.         *)

Computes(g, N, zero, apply) ==
    g[0] = zero /\ \A i \in 1 .. N : g[i] = apply[<<g[i - 1], i>>]

LEMMA Recursion ==
    ASSUME NEW N \in Nat, NEW T, NEW zero \in T, NEW apply \in [T \X (1 .. N) -> T]
    PROVE  \E g \in [0 .. N -> T] : Computes(g, N, zero, apply)
<1> DEFINE Upto(n, g) ==
        /\ g \in [0 .. n -> T]
        /\ g[0] = zero
        /\ \A i \in 1 .. n : g[i] = apply[<<g[i - 1], i>>]
<1>1. PICK S : S = {n \in Nat : n <= N => \E g : Upto(n, g)} OBVIOUS
<1>2. 0 \in S
  <2>1. PICK g : g = [i \in 0 .. 0 |-> zero] OBVIOUS
  <2>2. g \in [0 .. 0 -> T] BY <2>1
  <2>5. \E f : Upto(0, f) BY <2>1, <2>2
  <2> HIDE DEF Upto
  <2> QED BY <1>1, <2>5
<1>3. ASSUME NEW n \in Nat, n \in S PROVE n + 1 \in S
  <2>1. SUFFICES ASSUME n + 1 <= N PROVE \E f : Upto(n + 1, f)
    <3> HIDE DEF Upto
    <3> QED BY <1>1, <1>3
  <2>2. PICK g : Upto(n, g)
    <3> HIDE DEF Upto
    <3>1. n <= N BY <2>1
    <3> QED BY <1>1, <1>3, <3>1
  <2>3. PICK h : h = [i \in 0 .. n + 1 |-> IF i = 0 THEN zero ELSE apply[<<g[i - 1], i>>]]
    OBVIOUS
  <2>4. \A i \in 0 .. n + 1 : i # 0 => i - 1 \in 0 .. n /\ i \in 1 .. N BY <2>1
  <2>5. h[0] = zero /\ \A i \in 1 .. n + 1 : h[i] = apply[<<g[i - 1], i>>] BY <2>3
  <2>6. \A i \in 0 .. n : h[i] = g[i]
    <3>1. TAKE i \in 0 .. n
    <3>2. i # 0 => i \in 1 .. n /\ i \in 1 .. n + 1 OBVIOUS
    <3> QED BY <2>2, <2>5, <3>2
  <2>7. \A i \in 1 .. n + 1 : h[i] = apply[<<h[i - 1], i>>] BY <2>4, <2>5, <2>6
  <2>9. h \in [0 .. n + 1 -> T]
    <3>1. \A i \in 0 .. n + 1 : (IF i = 0 THEN zero ELSE apply[<<g[i - 1], i>>]) \in T
      <4>1. TAKE i \in 0 .. n + 1
      <4>2. CASE i = 0 BY <4>2
      <4>3. CASE i # 0
        <5>1. g[i - 1] \in T /\ i \in 1 .. N BY <2>2, <2>4, <4>3
        <5>2. apply[<<g[i - 1], i>>] \in T BY <5>1
        <5> QED BY <4>3, <5>2
      <4> QED BY <4>2, <4>3
    <3> QED BY <2>3, <3>1
  <2>10. Upto(n + 1, h) BY <2>5, <2>7, <2>9
  <2> HIDE DEF Upto
  <2> QED BY <2>10
<1>4. Nat \subseteq S BY <1>2, <1>3, CountingUp
<1>5. \E g : Upto(N, g)
  <2> HIDE DEF Upto
  <2>1. N \in S /\ N <= N BY <1>4
  <2> QED BY <1>1, <2>1
<1> QED BY <1>5 DEF Computes

\* Only.
IsOnly(upto, seq, S) ==
    upto = [n \in 0 .. Len(seq) |->
              IF n = 0 THEN <<>>
              ELSE IF seq[n] \in S THEN Append(upto[n - 1], seq[n]) ELSE upto[n - 1]]

LEMMA OnlyExists ==
    ASSUME NEW T, NEW seq \in Seq(T), NEW S
    PROVE  \E upto : /\ IsOnly(upto, seq, S)
                     /\ Only(seq, S) = upto[Len(seq)]
<1> DEFINE apply == [a \in Seq(T) \X (1 .. Len(seq)) |->
                      IF seq[a[2]] \in S THEN Append(a[1], seq[a[2]]) ELSE a[1]]
<1>1. \A u \in Seq(T), n \in 1 .. Len(seq) :
        apply[<<u, n>>] = IF seq[n] \in S THEN Append(u, seq[n]) ELSE u
  OBVIOUS
<1>2. apply \in [Seq(T) \X (1 .. Len(seq)) -> Seq(T)]
  <2>1. \A a \in Seq(T) \X (1 .. Len(seq)) :
          (IF seq[a[2]] \in S THEN Append(a[1], seq[a[2]]) ELSE a[1]) \in Seq(T)
    <3>1. TAKE a \in Seq(T) \X (1 .. Len(seq))
    <3>2. a[1] \in Seq(T) /\ seq[a[2]] \in T OBVIOUS
    <3>3. Append(a[1], seq[a[2]]) \in Seq(T) BY <3>2, AppendProperties
    <3> QED BY <3>2, <3>3
  <2> QED BY <2>1
<1> HIDE DEF apply
<1>3. Len(seq) \in Nat /\ <<>> \in Seq(T) OBVIOUS
<1>4. PICK g \in [0 .. Len(seq) -> Seq(T)] : Computes(g, Len(seq), <<>>, apply)
  BY <1>2, <1>3, Recursion
<1>5. \A n \in 0 .. Len(seq) :
        g[n] = IF n = 0 THEN <<>>
               ELSE IF seq[n] \in S THEN Append(g[n - 1], seq[n]) ELSE g[n - 1]
  <2>1. TAKE n \in 0 .. Len(seq)
  <2>2. n # 0 => n - 1 \in 0 .. Len(seq) /\ n \in 1 .. Len(seq) BY <1>3
  <2>3. n # 0 => g[n - 1] \in Seq(T) BY <2>2
  <2> QED BY <1>1, <1>4, <2>2, <2>3 DEF Computes
<1>6. g = [n \in 0 .. Len(seq) |-> g[n]] OBVIOUS
<1>7. IsOnly(g, seq, S) BY <1>5, <1>6 DEF IsOnly
<1>8. Only(seq, S) = (CHOOSE u : IsOnly(u, seq, S))[Len(seq)] BY DEF Only, IsOnly
<1> QED BY <1>7, <1>8

\* What Only picks, at which places.
Picks(out, pos, seq, S, n) ==
    /\ pos \in [1 .. Len(out) -> 1 .. n]
    /\ \A i \in 1 .. Len(out) : out[i] = seq[pos[i]] /\ seq[pos[i]] \in S
    /\ \A i, j \in 1 .. Len(out) : i < j => pos[i] < pos[j]
    /\ \A k \in 1 .. n : seq[k] \in S => \E i \in 1 .. Len(out) : pos[i] = k

LEMMA PicksGrow ==
    ASSUME NEW T, NEW seq \in Seq(T), NEW S, NEW n \in Nat, n + 1 <= Len(seq),
           NEW out \in Seq(T), NEW pos, Picks(out, pos, seq, S, n)
    PROVE  IF seq[n + 1] \in S
           THEN /\ Append(out, seq[n + 1]) \in Seq(T)
                /\ \E to : Picks(Append(out, seq[n + 1]), to, seq, S, n + 1)
           ELSE Picks(out, pos, seq, S, n + 1)
<1>0. Len(out) \in Nat /\ n \in 0 .. Len(seq) /\ n + 1 \in 1 .. Len(seq) OBVIOUS
<1>1. CASE seq[n + 1] \in S
  <2>1. PICK e : e = seq[n + 1] OBVIOUS
  <2>2. e \in T BY <1>0, <2>1
  <2>3. PICK more : more = Append(out, e) OBVIOUS
  <2>4. /\ more \in Seq(T) /\ Len(more) = Len(out) + 1
        /\ more[Len(out) + 1] = e
        /\ \A i \in 1 .. Len(out) : more[i] = out[i]
    BY <2>2, <2>3, AppendProperties
  <2>5. PICK to : to = [i \in 1 .. Len(out) + 1 |-> IF i <= Len(out) THEN pos[i] ELSE n + 1]
    OBVIOUS
  <2>6. \A i \in 1 .. Len(out) : to[i] = pos[i] /\ pos[i] \in 1 .. n /\ i \in 1 .. Len(more)
    BY <1>0, <2>4, <2>5 DEF Picks
  <2>7. to[Len(out) + 1] = n + 1 BY <1>0, <2>5
  <2>8. \A i \in 1 .. Len(more) : i \in 1 .. Len(out) \/ i = Len(out) + 1 BY <1>0, <2>4
  <2>9. to \in [1 .. Len(more) -> 1 .. n + 1]
    <3>1. \A i \in 1 .. Len(out) + 1 :
            (IF i <= Len(out) THEN pos[i] ELSE n + 1) \in 1 .. n + 1
      <4>1. TAKE i \in 1 .. Len(out) + 1
      <4>2. CASE i <= Len(out)
        <5>1. i \in 1 .. Len(out) BY <4>2
        <5> QED BY <5>1, <2>6, <4>2
      <4> QED BY <4>2
    <3> QED BY <2>4, <2>5, <3>1
  <2>10. \A i \in 1 .. Len(more) : more[i] = seq[to[i]] /\ seq[to[i]] \in S
    BY <1>1, <2>1, <2>4, <2>6, <2>7, <2>8 DEF Picks
  <2>11. ASSUME NEW i \in 1 .. Len(more), NEW j \in 1 .. Len(more), i < j
         PROVE  to[i] < to[j]
    <3>1. i \in 1 .. Len(out) BY <1>0, <2>4, <2>11
    <3>2. CASE j \in 1 .. Len(out) BY <2>6, <2>11, <3>1, <3>2 DEF Picks
    <3>3. CASE j = Len(out) + 1 BY <2>6, <2>7, <3>1, <3>3
    <3> QED BY <2>8, <3>2, <3>3
  <2>12. ASSUME NEW k \in 1 .. n + 1, seq[k] \in S
         PROVE  \E i \in 1 .. Len(more) : to[i] = k
    <3>1. CASE k = n + 1
      <4>1. Len(out) + 1 \in 1 .. Len(more) BY <1>0, <2>4
      <4> QED BY <2>7, <3>1, <4>1
    <3>2. CASE k # n + 1
      <4>1. k \in 1 .. n BY <3>2
      <4>2. PICK i \in 1 .. Len(out) : pos[i] = k BY <2>12, <4>1 DEF Picks
      <4> QED BY <2>6, <4>2
    <3> QED BY <3>1, <3>2
  <2>13. Picks(more, to, seq, S, n + 1) BY <2>9, <2>10, <2>11, <2>12 DEF Picks
  <2> QED BY <1>1, <2>1, <2>3, <2>4, <2>13
<1>2. CASE seq[n + 1] \notin S
  <2>1. \A k \in 1 .. n + 1 : seq[k] \in S => k \in 1 .. n BY <1>2
  <2>2. \A k \in 1 .. n : k \in 1 .. n + 1 OBVIOUS
  <2>3. pos \in [1 .. Len(out) -> 1 .. n + 1] BY <2>2 DEF Picks
  <2>4. Picks(out, pos, seq, S, n + 1) BY <2>1, <2>3 DEF Picks
  <2> QED BY <1>2, <2>4
<1> QED BY <1>1, <1>2

LEMMA OnlyPicks ==
    ASSUME NEW T, NEW seq \in Seq(T), NEW S
    PROVE  /\ Only(seq, S) \in Seq(T)
           /\ \E pos : Picks(Only(seq, S), pos, seq, S, Len(seq))
<1>0. Len(seq) \in Nat OBVIOUS
<1>1. PICK upto : IsOnly(upto, seq, S) /\ Only(seq, S) = upto[Len(seq)] BY OnlyExists
<1>2. PICK P : P = {n \in Nat : n <= Len(seq) =>
                       /\ upto[n] \in Seq(T)
                       /\ \E pos : Picks(upto[n], pos, seq, S, n)}
  OBVIOUS
<1>3. upto[0] = <<>>
    /\ \A n \in Nat : n + 1 <= Len(seq) =>
         upto[n + 1] = IF seq[n + 1] \in S THEN Append(upto[n], seq[n + 1]) ELSE upto[n]
  <2> DEFINE one == [n \in 0 .. Len(seq) |->
              IF n = 0 THEN <<>>
              ELSE IF seq[n] \in S THEN Append(upto[n - 1], seq[n]) ELSE upto[n - 1]]
  <2>1. upto = one BY <1>1 DEF IsOnly
  <2>2. one[0] = <<>> BY <1>0
  <2>3. ASSUME NEW n \in Nat, n + 1 <= Len(seq)
        PROVE  one[n + 1] = IF seq[n + 1] \in S THEN Append(upto[n], seq[n + 1]) ELSE upto[n]
    <3>1. n + 1 \in 0 .. Len(seq) /\ n + 1 # 0 /\ (n + 1) - 1 = n BY <1>0, <2>3
    <3>2. one[n + 1] = IF seq[n + 1] \in S THEN Append(upto[(n + 1) - 1], seq[n + 1])
                       ELSE upto[(n + 1) - 1]
      BY <3>1
    <3> QED BY <3>1, <3>2
  <2> HIDE DEF one
  <2> QED BY <2>1, <2>2, <2>3
<1>4. 0 \in P
  <2>1. PICK pos : pos = [i \in 1 .. 0 |-> 1] OBVIOUS
  <2>2. PICK nil : nil = <<>> /\ nil \in Seq(T) /\ Len(nil) = 0 BY EmptySeq
  <2>3. pos \in [1 .. Len(nil) -> 1 .. 0] BY <2>1, <2>2
  <2>4. \A i \in 1 .. Len(nil) : FALSE BY <2>2
  <2>5. \A k \in 1 .. 0 : FALSE OBVIOUS
  <2>6. Picks(nil, pos, seq, S, 0) BY ONLY <2>3, <2>4, <2>5 DEF Picks
  <2>7. upto[0] = nil BY <1>3, <2>2
  <2>8. upto[0] \in Seq(T) /\ \E to : Picks(upto[0], to, seq, S, 0) BY <2>2, <2>6, <2>7
  <2> QED BY <1>2, <2>8
<1>5. ASSUME NEW n \in Nat, n \in P PROVE n + 1 \in P
  <2>1. SUFFICES ASSUME n + 1 <= Len(seq)
                 PROVE  upto[n + 1] \in Seq(T) /\ \E pos : Picks(upto[n + 1], pos, seq, S, n + 1)
    BY <1>2
  <2>2. PICK out, pos : out \in Seq(T) /\ out = upto[n] /\ Picks(out, pos, seq, S, n)
    <3>1. n <= Len(seq) BY <1>0, <2>1
    <3> QED BY <1>2, <1>5, <3>1
  <2>3. upto[n + 1] = IF seq[n + 1] \in S THEN Append(out, seq[n + 1]) ELSE out
    BY <1>3, <2>1, <2>2
  <2>4. IF seq[n + 1] \in S
           THEN /\ Append(out, seq[n + 1]) \in Seq(T)
                /\ \E to : Picks(Append(out, seq[n + 1]), to, seq, S, n + 1)
           ELSE Picks(out, pos, seq, S, n + 1)
    BY <2>1, <2>2, PicksGrow
  <2> QED BY <2>2, <2>3, <2>4
<1>6. Len(seq) \in P BY <1>4, <1>5, CountingUp
<1> QED BY <1>0, <1>1, <1>2, <1>6

LEMMA OnlyKeeps ==
    ASSUME NEW T, NEW seq \in Seq(T), NEW S
    PROVE  /\ Only(seq, S) \in Seq(T)
           /\ Range(Only(seq, S)) = Range(seq) \cap S
           /\ IsInjective(seq) => IsInjective(Only(seq, S))
<1>1. PICK out, pos : out \in Seq(T) /\ out = Only(seq, S) /\ Picks(out, pos, seq, S, Len(seq))
  BY OnlyPicks
<1>2. DOMAIN out = 1 .. Len(out) /\ DOMAIN seq = 1 .. Len(seq) /\ Len(out) \in Nat
  OBVIOUS
<1>3. \A i \in 1 .. Len(out) : pos[i] \in 1 .. Len(seq) BY <1>1 DEF Picks
<1>4. Range(out) \subseteq Range(seq) \cap S BY <1>1, <1>2, <1>3 DEF Picks, Range
<1>5. ASSUME NEW x \in Range(seq) \cap S PROVE x \in Range(out)
  <2>1. PICK k \in 1 .. Len(seq) : x = seq[k] BY <1>2 DEF Range
  <2>2. PICK i \in 1 .. Len(out) : pos[i] = k BY <1>1, <2>1 DEF Picks
  <2> QED BY <1>1, <1>2, <2>1, <2>2 DEF Picks, Range
<1>6. ASSUME IsInjective(seq), NEW i \in 1 .. Len(out), NEW j \in 1 .. Len(out), out[i] = out[j]
      PROVE  i = j
  <2>1. seq[pos[i]] = seq[pos[j]] BY <1>1, <1>6 DEF Picks
  <2>2. pos[i] = pos[j] BY <1>2, <1>3, <1>6, <2>1 DEF IsInjective
  <2>3. ~ (pos[i] < pos[j]) /\ ~ (pos[j] < pos[i]) BY <1>3, <2>2
  <2>4. ~ (i < j) /\ ~ (j < i) BY <1>1, <2>3 DEF Picks
  <2> QED BY <2>4
<1>7. IsInjective(seq) => IsInjective(out) BY <1>2, <1>6 DEF IsInjective
<1> QED BY <1>1, <1>4, <1>5, <1>7

\* Grouped.
IsGrouped(upto, list) ==
    upto = [n \in 0 .. Len(list) |->
              IF n = 0 THEN <<>> ELSE PushGrouped(upto[n - 1], list[n])]

\* e is of the group the messages end with.
Joins(out, e) == out # <<>> /\ out[Len(out)].role = e.role

LEMMA RangeOfBoth ==
    ASSUME NEW T, NEW s \in Seq(T), NEW t \in Seq(T)
    PROVE  Range(s \o t) = Range(s) \cup Range(t)
<1>1. PICK a \in Nat, b \in Nat : a = Len(s) /\ b = Len(t) OBVIOUS
<1>2. PICK st : st = s \o t OBVIOUS
<1>3. /\ st \in Seq(T) /\ Len(st) = a + b
      /\ \A i \in 1 .. a + b : st[i] = IF i <= a THEN s[i] ELSE t[i - a]
  BY <1>1, <1>2, ConcatProperties
<1>4. DOMAIN s = 1 .. a /\ DOMAIN t = 1 .. b /\ DOMAIN st = 1 .. a + b BY <1>1, <1>3
<1>5. ASSUME NEW x \in Range(st) PROVE x \in Range(s) \cup Range(t)
  <2>1. PICK i \in 1 .. a + b : x = st[i] BY <1>4 DEF Range
  <2>2. CASE i <= a
    <3>1. i \in 1 .. a /\ x = s[i] BY <1>3, <2>1, <2>2
    <3> QED BY <1>4, <3>1 DEF Range
  <2>3. CASE ~ (i <= a)
    <3>1. i - a \in 1 .. b BY <2>3
    <3>2. x = t[i - a] BY <1>3, <2>1, <2>3
    <3> QED BY <1>4, <3>1, <3>2 DEF Range
  <2> QED BY <2>2, <2>3
<1>6. ASSUME NEW x \in Range(s) PROVE x \in Range(st)
  <2>1. PICK i \in 1 .. a : x = s[i] BY <1>4 DEF Range
  <2>2. i \in 1 .. a + b /\ i <= a OBVIOUS
  <2>3. st[i] = x BY <1>3, <2>1, <2>2
  <2> QED BY <1>4, <2>2, <2>3 DEF Range
<1>7. ASSUME NEW x \in Range(t) PROVE x \in Range(st)
  <2>1. PICK i \in 1 .. b : x = t[i] BY <1>4 DEF Range
  <2>2. i + a \in 1 .. a + b /\ ~ (i + a <= a) /\ (i + a) - a = i OBVIOUS
  <2>3. st[i + a] = x BY <1>3, <2>1, <2>2
  <2> QED BY <1>4, <2>2, <2>3 DEF Range
<1> QED BY <1>2, <1>5, <1>6, <1>7

LEMMA PushIs ==
    ASSUME NEW out \in Seq(Messages), NEW e \in Messages
    PROVE  /\ PushGrouped(out, e) \in Seq(Messages)
           /\ Joins(out, e) =>
                /\ Len(PushGrouped(out, e)) = Len(out)
                /\ \A i \in 1 .. Len(out) - 1 : PushGrouped(out, e)[i] = out[i]
                /\ PushGrouped(out, e)[Len(out)].role = e.role
                /\ Range(PushGrouped(out, e)[Len(out)].content)
                     = Range(out[Len(out)].content) \cup Range(e.content)
           /\ ~ Joins(out, e) =>
                /\ Len(PushGrouped(out, e)) = Len(out) + 1
                /\ \A i \in 1 .. Len(out) : PushGrouped(out, e)[i] = out[i]
                /\ PushGrouped(out, e)[Len(out) + 1] = e
<1>1. CASE Joins(out, e)
  <2>1. Len(out) \in 1 .. Len(out)
    <3>1. out # <<>> BY <1>1 DEF Joins
    <3> QED BY <3>1, EmptySeq
  <2>2. PICK m \in Messages : m = out[Len(out)] BY <2>1
  <2>3. m.content \in Seq(Blocks) /\ e.content \in Seq(Blocks) BY DEF Messages
  <2>4. PICK more : more = m.content \o e.content OBVIOUS
  <2>5. more \in Seq(Blocks) /\ Range(more) = Range(m.content) \cup Range(e.content)
    BY <2>3, <2>4, ConcatProperties, RangeOfBoth
  <2>6. PICK big : big = [m EXCEPT !.content = more] OBVIOUS
  <2>7. big \in Messages /\ big.role = m.role /\ big.content = more
    BY <2>5, <2>6 DEF Messages
  <2>8. PushGrouped(out, e) = [out EXCEPT ![Len(out)] = big]
    <3>1. PushGrouped(out, e) = [out EXCEPT ![Len(out)].content = @ \o e.content]
      BY <1>1 DEF PushGrouped, Joins, Last
    <3> QED BY <2>2, <2>4, <2>6, <3>1
  <2>9. /\ PushGrouped(out, e) \in Seq(Messages)
        /\ Len(PushGrouped(out, e)) = Len(out)
        /\ \A j \in 1 .. Len(out) :
             PushGrouped(out, e)[j] = IF j = Len(out) THEN big ELSE out[j]
    <3>1. /\ [out EXCEPT ![Len(out)] = big] \in Seq(Messages)
          /\ Len([out EXCEPT ![Len(out)] = big]) = Len(out)
          /\ \A j \in 1 .. Len(out) :
               [out EXCEPT ![Len(out)] = big][j] = IF j = Len(out) THEN big ELSE out[j]
      BY <2>1, <2>7, ExceptSeq
    <3> QED BY <2>8, <3>1
  <2>10. PushGrouped(out, e)[Len(out)] = big BY <2>1, <2>9
  <2>11. \A i \in 1 .. Len(out) - 1 : i \in 1 .. Len(out) /\ i # Len(out)
    <3>1. Len(out) \in Nat OBVIOUS
    <3> QED BY ONLY <3>1
  <2>12. \A i \in 1 .. Len(out) - 1 : PushGrouped(out, e)[i] = out[i] BY <2>9, <2>11
  <2>13. m.role = e.role BY <1>1, <2>2 DEF Joins
  <2> QED BY <1>1, <2>2, <2>5, <2>7, <2>9, <2>10, <2>12, <2>13
<1>2. CASE ~ Joins(out, e)
  <2>1. PushGrouped(out, e) = Append(out, e) BY <1>2 DEF PushGrouped, Joins, Last
  <2> QED BY <1>2, <2>1, AppendProperties
<1> QED BY <1>1, <1>2

\* The first n entries of a list grouped: entry k is of the message at[k].
Groups(out, at, list, n) ==
    /\ at \in [1 .. n -> 1 .. Len(out)]
    /\ (n = 0) = (Len(out) = 0)
    /\ n > 0 => at[n] = Len(out)
    /\ \A k \in 1 .. n : out[at[k]].role = list[k].role
    /\ \A m \in 1 .. Len(out) :
         Range(out[m].content) = UNION {Range(list[k].content) : k \in {i \in 1 .. n : at[i] = m}}
    \* In order, a run of one side in one message, two sides in two.
    /\ \A i, j \in 1 .. n : i <= j => at[i] <= at[j]
    /\ \A i, j \in 1 .. n :
         i <= j /\ (\A k \in i .. j : list[k].role = list[i].role) => at[i] = at[j]
    /\ \A m \in 2 .. Len(out) : \E k \in 2 .. n : at[k - 1] = m - 1 /\ at[k] = m
    /\ \A k \in 2 .. n : list[k].role # list[k - 1].role => at[k] = at[k - 1] + 1
    /\ \A k \in 2 .. n : list[k].role = list[k - 1].role => at[k] = at[k - 1]

LEMMA GroupsGrow ==
    ASSUME NEW list \in Seq(Messages), NEW n \in Nat, n + 1 <= Len(list),
           NEW out \in Seq(Messages), NEW at, Groups(out, at, list, n)
    PROVE  \E to : Groups(PushGrouped(out, list[n + 1]), to, list, n + 1)
<1>1. PICK L \in Nat, e \in Messages : L = Len(out) /\ e = list[n + 1]
  <2>1. n + 1 \in 1 .. Len(list) OBVIOUS
  <2> QED BY <2>1
<1>2. PICK new : new = PushGrouped(out, e) OBVIOUS
<1>3. new \in Seq(Messages) BY <1>2, PushIs
<1>4. PICK M \in Nat : M = Len(new) BY <1>3
<1>5. IF Joins(out, e)
      THEN M = L /\ L > 0 /\ (\A i \in 1 .. L - 1 : new[i] = out[i]) /\ new[M].role = e.role
           /\ Range(new[M].content) = Range(out[L].content) \cup Range(e.content)
      ELSE M = L + 1 /\ (\A i \in 1 .. L : new[i] = out[i]) /\ new[M] = e
  <2>1. Joins(out, e) => L > 0
    <3>1. out # <<>> => L > 0 BY <1>1, EmptySeq
    <3> QED BY <3>1 DEF Joins
  <2>2. CASE Joins(out, e)
    <3>1. /\ Len(new) = L /\ (\A i \in 1 .. L - 1 : new[i] = out[i]) /\ new[L].role = e.role
          /\ Range(new[L].content) = Range(out[L].content) \cup Range(e.content)
      BY <1>1, <1>2, <2>2, PushIs
    <3> QED BY <1>4, <2>1, <2>2, <3>1
  <2>3. CASE ~ Joins(out, e)
    <3>1. Len(new) = L + 1 /\ (\A i \in 1 .. L : new[i] = out[i]) /\ new[L + 1] = e
      BY <1>1, <1>2, <2>3, PushIs
    <3> QED BY <1>4, <2>3, <3>1
  <2> QED BY <2>2, <2>3
<1>6. M >= L /\ M > 0 BY <1>5
<1>7. PICK to : to = [k \in 1 .. n + 1 |-> IF k <= n THEN at[k] ELSE M] OBVIOUS
<1>8. \A k \in 1 .. n : to[k] = at[k] /\ at[k] \in 1 .. L /\ at[k] \in 1 .. M /\ k \in 1 .. n + 1
  <2>1. at \in [1 .. n -> 1 .. L] BY <1>1 DEF Groups
  <2> QED BY <1>6, <1>7, <2>1
<1>9. to[n + 1] = M /\ n + 1 \in 1 .. n + 1 BY <1>7
<1>10. \A k \in 1 .. n + 1 : k \in 1 .. n \/ k = n + 1 OBVIOUS
<1>11. to \in [1 .. n + 1 -> 1 .. M]
  <2>1. \A k \in 1 .. n + 1 : to[k] \in 1 .. M BY <1>6, <1>8, <1>9, <1>10
  <2> QED BY <1>7, <2>1
<1>12. L > 0 <=> n > 0 BY <1>1 DEF Groups
<1>13. n > 0 => n \in 1 .. n /\ at[n] = L /\ out[L].role = list[n].role BY <1>1 DEF Groups
<1>14. Joins(out, e) <=> n > 0 /\ list[n].role = e.role
  <2>1. out = <<>> <=> L = 0 BY <1>1, EmptySeq
  <2> QED BY <1>1, <1>12, <1>13, <2>1 DEF Joins
<1>15. \A k \in 1 .. n + 1 : new[to[k]].role = list[k].role
  <2>1. new[to[n + 1]].role = list[n + 1].role BY <1>1, <1>5, <1>9
  <2>2. ASSUME NEW k \in 1 .. n PROVE new[to[k]].role = list[k].role
    <3>1. out[at[k]].role = list[k].role BY DEF Groups
    <3>2. CASE at[k] = M
      <4>1. Joins(out, e) /\ M = L BY <1>5, <1>8, <3>2
      <4>2. new[M].role = e.role /\ out[L].role = e.role BY <1>1, <1>5, <4>1 DEF Joins
      <4> QED BY <1>8, <3>1, <3>2, <4>1, <4>2
    <3>3. CASE at[k] # M
      <4>1. new[at[k]] = out[at[k]]
        <5>1. Joins(out, e) => at[k] \in 1 .. L - 1 BY <1>5, <1>8, <3>3
        <5> QED BY <1>5, <1>8, <5>1
      <4> QED BY <1>8, <3>1, <4>1
    <3> QED BY <3>2, <3>3
  <2> QED BY <1>10, <2>1, <2>2
<1>16. \A m \in 1 .. M :
         Range(new[m].content)
           = UNION {Range(list[k].content) : k \in {i \in 1 .. n + 1 : to[i] = m}}
  <2>1. TAKE m \in 1 .. M
  <2>2. m \in 1 .. L =>
          Range(out[m].content)
            = UNION {Range(list[k].content) : k \in {i \in 1 .. n : at[i] = m}}
    BY <1>1 DEF Groups
  <2>3. CASE m # M
    <3>1. m \in 1 .. L /\ new[m] = out[m]
      <4>1. CASE Joins(out, e)
        <5>1. m \in 1 .. L - 1 BY <1>5, <2>3, <4>1
        <5> QED BY <1>5, <4>1, <5>1
      <4>2. CASE ~ Joins(out, e)
        <5>1. m \in 1 .. L BY <1>5, <2>3, <4>2
        <5> QED BY <1>5, <4>2, <5>1
      <4> QED BY <4>1, <4>2
    <3>2. {i \in 1 .. n + 1 : to[i] = m} = {i \in 1 .. n : at[i] = m}
      BY <1>8, <1>9, <1>10, <2>3
    <3> QED BY <2>2, <3>1, <3>2
  <2>4. CASE m = M
    <3>1. CASE Joins(out, e)
      <4>1. {i \in 1 .. n + 1 : to[i] = m} = {i \in 1 .. n : at[i] = m} \cup {n + 1}
        BY <1>8, <1>9, <1>10, <2>4
      <4>2. m \in 1 .. L /\ m = L BY <1>5, <2>4, <3>1
      <4>3. UNION {Range(list[k].content) : k \in {i \in 1 .. n : at[i] = m} \cup {n + 1}}
              = Range(list[n + 1].content)
                  \cup UNION {Range(list[k].content) : k \in {i \in 1 .. n : at[i] = m}}
        OBVIOUS
      <4>4. Range(new[m].content) = Range(out[m].content) \cup Range(list[n + 1].content)
        BY <1>1, <1>5, <2>4, <3>1, <4>2
      <4> QED BY <2>2, <4>1, <4>2, <4>3, <4>4
    <3>2. CASE ~ Joins(out, e)
      <4>1. {i \in 1 .. n + 1 : to[i] = m} = {n + 1}
        <5>1. \A k \in 1 .. n : to[k] # m BY <1>5, <1>8, <2>4, <3>2
        <5> QED BY <1>9, <1>10, <2>4, <5>1
      <4>2. UNION {Range(list[k].content) : k \in {n + 1}} = Range(list[n + 1].content)
        OBVIOUS
      <4>3. new[m] = list[n + 1] BY <1>1, <1>5, <2>4, <3>2
      <4> QED BY <4>1, <4>2, <4>3
    <3> QED BY <3>1, <3>2
  <2> QED BY <2>3, <2>4
<1>17. ASSUME NEW i \in 1 .. n + 1, NEW j \in 1 .. n + 1, i <= j PROVE to[i] <= to[j]
  <2>1. CASE j = n + 1
    <3>1. to[i] \in 1 .. M BY <1>11
    <3> QED BY <1>9, <2>1, <3>1
  <2>2. CASE j \in 1 .. n
    <3>1. i \in 1 .. n BY <1>17, <2>2
    <3>2. at[i] <= at[j] BY <1>17, <2>2, <3>1 DEF Groups
    <3> QED BY <1>8, <2>2, <3>1, <3>2
  <2> QED BY <1>10, <2>1, <2>2
<1>18. \A k \in 2 .. n + 1 :
         /\ list[k].role # list[k - 1].role => to[k] = to[k - 1] + 1
         /\ list[k].role = list[k - 1].role => to[k] = to[k - 1]
  <2>1. TAKE k \in 2 .. n + 1
  <2>2. CASE k = n + 1
    <3>1. n > 0 /\ k - 1 = n /\ n \in 1 .. n BY <2>2
    <3>2. to[k - 1] = L /\ to[k] = M BY <1>8, <1>9, <1>13, <2>2, <3>1
    <3>3. Joins(out, e) <=> list[k].role = list[k - 1].role BY <1>1, <1>14, <2>2, <3>1
    <3> QED BY <1>5, <3>2, <3>3
  <2>3. CASE k # n + 1
    <3>1. k \in 2 .. n /\ k \in 1 .. n /\ k - 1 \in 1 .. n BY <2>3
    <3>2. /\ list[k].role # list[k - 1].role => at[k] = at[k - 1] + 1
          /\ list[k].role = list[k - 1].role => at[k] = at[k - 1]
      BY <3>1 DEF Groups
    <3> QED BY <1>8, <3>1, <3>2
  <2> QED BY <2>2, <2>3
<1>19. ASSUME NEW i \in 1 .. n + 1, NEW j \in 1 .. n + 1, i <= j,
              \A k \in i .. j : list[k].role = list[i].role
       PROVE  to[i] = to[j]
  <2>1. CASE j \in 1 .. n
    <3>1. i \in 1 .. n BY <1>19, <2>1
    <3>2. at[i] = at[j] BY <1>19, <2>1, <3>1 DEF Groups
    <3> QED BY <1>8, <2>1, <3>1, <3>2
  <2>2. CASE j = n + 1 /\ i # j
    <3>1. i \in 1 .. n /\ n \in 1 .. n /\ i <= n /\ n > 0 BY <1>19, <2>2
    <3>2. \A k \in i .. n : k \in i .. j BY <2>2
    <3>3. at[i] = at[n] BY <1>19, <3>1, <3>2 DEF Groups
    <3>4. list[n].role = list[i].role /\ list[j].role = list[i].role BY <1>19, <2>2, <3>1
    <3>5. j \in 2 .. n + 1 /\ j - 1 = n BY <2>2, <3>1
    <3>6. to[j] = to[n] BY <1>18, <3>4, <3>5
    <3> QED BY <1>8, <3>1, <3>3, <3>6
  <2> QED BY <1>10, <2>1, <2>2
<1>20. ASSUME NEW m \in 2 .. M PROVE \E k \in 2 .. n + 1 : to[k - 1] = m - 1 /\ to[k] = m
  <2>1. CASE m \in 2 .. L
    <3>1. PICK k \in 2 .. n : at[k - 1] = m - 1 /\ at[k] = m BY <1>1, <2>1 DEF Groups
    <3>2. k \in 2 .. n + 1 /\ k \in 1 .. n /\ k - 1 \in 1 .. n OBVIOUS
    <3> QED BY <1>8, <3>1, <3>2
  <2>2. CASE m \notin 2 .. L
    <3>1. ~ Joins(out, e) /\ m = M /\ M = L + 1 /\ L > 0 BY <1>5, <2>2
    <3>2. n > 0 /\ at[n] = L /\ n \in 1 .. n BY <1>12, <1>13, <3>1
    <3>3. n + 1 \in 2 .. n + 1 /\ (n + 1) - 1 = n /\ m - 1 = L BY <3>1, <3>2
    <3> QED BY <1>8, <1>9, <3>1, <3>2, <3>3
  <2> QED BY <2>1, <2>2
<1>21. Groups(new, to, list, n + 1)
  <2>1. (n + 1 = 0) = (M = 0) /\ n + 1 > 0 BY <1>6
  <2> QED BY <1>4, <1>9, <1>11, <1>15, <1>16, <1>17, <1>18, <1>19, <1>20, <2>1 DEF Groups
<1> QED BY <1>1, <1>2, <1>21

LEMMA GroupedExists ==
    ASSUME NEW list \in Seq(Messages)
    PROVE  \E upto : /\ IsGrouped(upto, list)
                     /\ Grouped(list) = upto[Len(list)]
<1> DEFINE apply == [a \in Seq(Messages) \X (1 .. Len(list)) |-> PushGrouped(a[1], list[a[2]])]
<1>1. \A u \in Seq(Messages), n \in 1 .. Len(list) :
        apply[<<u, n>>] = PushGrouped(u, list[n])
  OBVIOUS
<1>2. apply \in [Seq(Messages) \X (1 .. Len(list)) -> Seq(Messages)]
  <2>1. \A a \in Seq(Messages) \X (1 .. Len(list)) :
          PushGrouped(a[1], list[a[2]]) \in Seq(Messages)
    <3>1. TAKE a \in Seq(Messages) \X (1 .. Len(list))
    <3>2. a[1] \in Seq(Messages) /\ list[a[2]] \in Messages OBVIOUS
    <3> QED BY <3>2, PushIs
  <2> QED BY <2>1
<1> HIDE DEF apply
<1>3. Len(list) \in Nat /\ <<>> \in Seq(Messages) OBVIOUS
<1>4. PICK g \in [0 .. Len(list) -> Seq(Messages)] : Computes(g, Len(list), <<>>, apply)
  BY <1>2, <1>3, Recursion
<1>5. \A n \in 0 .. Len(list) :
        g[n] = IF n = 0 THEN <<>> ELSE PushGrouped(g[n - 1], list[n])
  <2>1. TAKE n \in 0 .. Len(list)
  <2>2. n # 0 => n - 1 \in 0 .. Len(list) /\ n \in 1 .. Len(list) BY <1>3
  <2>3. n # 0 => g[n - 1] \in Seq(Messages) BY <2>2
  <2> QED BY <1>1, <1>4, <2>2, <2>3 DEF Computes
<1>6. g = [n \in 0 .. Len(list) |-> g[n]] OBVIOUS
<1>7. IsGrouped(g, list) BY <1>5, <1>6 DEF IsGrouped
<1>8. Grouped(list) = (CHOOSE u : IsGrouped(u, list))[Len(list)] BY DEF Grouped, IsGrouped
<1> QED BY <1>7, <1>8

LEMMA GroupedIs ==
    ASSUME NEW list \in Seq(Messages)
    PROVE  /\ Grouped(list) \in Seq(Messages)
           /\ \E at : Groups(Grouped(list), at, list, Len(list))
<1>0. Len(list) \in Nat OBVIOUS
<1>1. PICK upto : IsGrouped(upto, list) /\ Grouped(list) = upto[Len(list)] BY GroupedExists
<1>2. PICK P : P = {n \in Nat : n <= Len(list) =>
                       /\ upto[n] \in Seq(Messages)
                       /\ \E at : Groups(upto[n], at, list, n)}
  OBVIOUS
<1>3. upto[0] = <<>>
    /\ \A n \in Nat : n + 1 <= Len(list) => upto[n + 1] = PushGrouped(upto[n], list[n + 1])
  <2> DEFINE one == [n \in 0 .. Len(list) |->
              IF n = 0 THEN <<>> ELSE PushGrouped(upto[n - 1], list[n])]
  <2>1. upto = one BY <1>1 DEF IsGrouped
  <2>2. one[0] = <<>> BY <1>0
  <2>3. ASSUME NEW n \in Nat, n + 1 <= Len(list)
        PROVE  one[n + 1] = PushGrouped(upto[n], list[n + 1])
    <3>1. n + 1 \in 0 .. Len(list) /\ n + 1 # 0 /\ (n + 1) - 1 = n BY <1>0, <2>3
    <3>2. one[n + 1] = PushGrouped(upto[(n + 1) - 1], list[n + 1]) BY <3>1
    <3> QED BY <3>1, <3>2
  <2> HIDE DEF one
  <2> QED BY <2>1, <2>2, <2>3
<1>4. 0 \in P
  <2>1. PICK at : at = [i \in 1 .. 0 |-> 1] OBVIOUS
  <2>2. PICK nil : nil = <<>> /\ nil \in Seq(Messages) /\ Len(nil) = 0 BY EmptySeq
  <2>3. at \in [1 .. 0 -> 1 .. Len(nil)] BY <2>1, <2>2
  <2>4. (\A i \in 1 .. Len(nil) : FALSE) /\ (\A m \in 2 .. Len(nil) : FALSE) BY <2>2
  <2>5. (\A k \in 1 .. 0 : FALSE) /\ (\A k \in 2 .. 0 : FALSE) OBVIOUS
  <2>6. ~ (0 > 0) /\ ((0 = 0) = (Len(nil) = 0)) BY <2>2
  <2>7. Groups(nil, at, list, 0) BY ONLY <2>3, <2>4, <2>5, <2>6 DEF Groups
  <2>8. upto[0] = nil BY <1>3, <2>2
  <2>9. upto[0] \in Seq(Messages) /\ \E to : Groups(upto[0], to, list, 0) BY <2>2, <2>7, <2>8
  <2> QED BY <1>2, <2>9
<1>5. ASSUME NEW n \in Nat, n \in P PROVE n + 1 \in P
  <2>1. SUFFICES ASSUME n + 1 <= Len(list)
                 PROVE  /\ upto[n + 1] \in Seq(Messages)
                        /\ \E to : Groups(upto[n + 1], to, list, n + 1)
    BY <1>2
  <2>2. PICK out, at : out \in Seq(Messages) /\ out = upto[n] /\ Groups(out, at, list, n)
    <3>1. n <= Len(list) BY <1>0, <2>1
    <3> QED BY <1>2, <1>5, <3>1
  <2>3. upto[n + 1] = PushGrouped(out, list[n + 1]) BY <1>3, <2>1, <2>2
  <2>4. \E to : Groups(PushGrouped(out, list[n + 1]), to, list, n + 1)
    BY <2>1, <2>2, GroupsGrow
  <2>5. PushGrouped(out, list[n + 1]) \in Seq(Messages)
    <3>1. n + 1 \in 1 .. Len(list) BY <1>0, <2>1
    <3>2. list[n + 1] \in Messages BY <2>2, <3>1
    <3> QED BY <2>2, <3>2, PushIs
  <2> QED BY <2>3, <2>4, <2>5
<1>6. Len(list) \in P BY <1>4, <1>5, CountingUp
<1> QED BY <1>0, <1>1, <1>2, <1>6

LEMMA LeastNumber ==
    ASSUME NEW S \in SUBSET Nat, S # {}
    PROVE  \E n \in S : \A m \in S : n <= m
<1>1. SUFFICES ASSUME \A n \in S : \E m \in S : m < n PROVE FALSE OBVIOUS
<1>2. PICK P : P = {n \in Nat : \A m \in 0 .. n : m \notin S} OBVIOUS
<1>3. 0 \in P
  <2>1. 0 \notin S BY <1>1
  <2> QED BY <1>2, <2>1
<1>4. ASSUME NEW n \in Nat, n \in P PROVE n + 1 \in P
  <2>1. \A m \in 0 .. n : m \notin S BY <1>2, <1>4
  <2>2. n + 1 \notin S
    <3>1. \A m \in S : m < n + 1 => m \in 0 .. n OBVIOUS
    <3> QED BY <1>1, <2>1, <3>1
  <2>3. \A m \in 0 .. n + 1 : m \in 0 .. n \/ m = n + 1 OBVIOUS
  <2> QED BY <1>2, <2>1, <2>2, <2>3
<1>5. Nat \subseteq P BY <1>3, <1>4, CountingUp
<1>6. PICK n \in S : n \in P BY <1>5
<1>7. n \in 0 .. n BY <1>6
<1> QED BY <1>2, <1>6, <1>7

\* Grouped messages: sides alternate, what is asked is answered next, and
\* results answer the message before them or are those an old cut left.
Paired(list, m) ==
    m > 1 /\ Uses(list[m - 1]) # {} /\ Results(list[m]) = Uses(list[m - 1])
Neat(list) ==
    \A m \in DOMAIN list :
        /\ Sided(list[m])
        /\ m > 1 => list[m].role # list[m - 1].role
        /\ list[m].role = "tool" => Paired(list, m) \/ \A p \in 1 .. m - 1 : Uses(list[p]) = {}
        /\ Uses(list[m]) # {} => m < Len(list) /\ list[m + 1].role = "tool"
Asked(list) ==
    \A j \in DOMAIN list : list[j].role = "tool" => \E p \in 1 .. j - 1 : Uses(list[p]) # {}

\* What a message says is what its entries say.
BlocksOf(m, G, at, X) ==
    \A b : b \in Range(G[m].content) <=>
             \E k \in 1 .. Len(X) : at[k] = m /\ b \in Range(X[k].content)
UsesOf(m, G, at, X) ==
    \A u : u \in Uses(G[m]) <=> \E k \in 1 .. Len(X) : at[k] = m /\ u \in Uses(X[k])
ResultsOf(m, G, at, X) ==
    \A u : u \in Results(G[m]) <=> \E k \in 1 .. Len(X) : at[k] = m /\ u \in Results(X[k])

LEMMA GroupBlocks ==
    ASSUME NEW X, NEW G, NEW at, Groups(G, at, X, Len(X)), NEW m \in 1 .. Len(G)
    PROVE  BlocksOf(m, G, at, X) /\ UsesOf(m, G, at, X) /\ ResultsOf(m, G, at, X)
<1>1. Range(G[m].content)
        = UNION {Range(X[k].content) : k \in {i \in 1 .. Len(X) : at[i] = m}}
  BY DEF Groups
<1>2. BlocksOf(m, G, at, X) BY <1>1 DEF BlocksOf
<1>3. UsesOf(m, G, at, X) BY <1>2 DEF Uses, BlocksOf, UsesOf
<1>4. ResultsOf(m, G, at, X) BY <1>2 DEF Results, BlocksOf, ResultsOf
<1> QED BY <1>2, <1>3, <1>4

LEMMA GroupsCover ==
    ASSUME NEW X \in Seq(Messages), NEW G \in Seq(Messages), NEW at, Groups(G, at, X, Len(X)),
           NEW m \in 1 .. Len(G)
    PROVE  \E k \in 1 .. Len(X) : at[k] = m
<1>1. PICK N \in Nat, L \in Nat : N = Len(X) /\ L = Len(G) OBVIOUS
<1>2. CASE m \in 2 .. L
  <2>1. PICK k \in 2 .. N : at[k] = m BY <1>1, <1>2 DEF Groups
  <2> QED BY <1>1, <2>1
<1>3. CASE m = 1 /\ L > 1
  <2>1. PICK k \in 2 .. N : at[k - 1] = 2 - 1
    <3>1. 2 \in 2 .. L BY <1>3
    <3> QED BY <1>1, <3>1 DEF Groups
  <2>2. k - 1 \in 1 .. N /\ 2 - 1 = 1 OBVIOUS
  <2> QED BY <1>1, <1>3, <2>1, <2>2
<1>4. CASE m = 1 /\ L = 1
  <2>1. N > 0 /\ at[N] = L
    <3>1. L # 0 BY <1>4
    <3> QED BY <1>1, <3>1 DEF Groups
  <2> QED BY <1>1, <1>4, <2>1
<1> QED BY <1>1, <1>2, <1>3, <1>4

LEMMA SidesAre ==
    ASSUME NEW list \in Seq(Messages), Windows(list), NEW p \in 1 .. Len(list)
    PROVE  /\ Sided(list[p])
           /\ Uses(list[p]) # {} => list[p].role = "assistant"
           /\ list[p].role = "tool" => Uses(list[p]) = {}
<1>1. p \in DOMAIN list OBVIOUS
<1>2. Sided(list[p]) BY <1>1 DEF Windows
<1> QED BY <1>2 DEF Sided

\* Every window ends, and there it is answered.
LEMMA WindowEnds ==
    ASSUME NEW X \in Seq(Messages), Windows(X), AnsweredBy(X, Len(X)),
           NEW p \in 1 .. Len(X), Uses(X[p]) # {}
    PROVE  \E q \in p + 1 .. Len(X) : Open(X, p, q) /\ Uses(X[p]) \subseteq Answers(X, p, q)
<1>1. PICK N \in Nat : N = Len(X) OBVIOUS
<1>2. PICK E : E = {q \in p .. N : q = N \/ X[q + 1].role # "tool"} OBVIOUS
<1>3. PICK q \in E : \A r \in E : q <= r
  <2>1. N \in E BY <1>1, <1>2
  <2>2. E \in SUBSET Nat BY <1>2
  <2> QED BY <2>1, <2>2, LeastNumber
<1>4. q \in p .. N /\ (q = N \/ X[q + 1].role # "tool") BY <1>2
<1>5. ASSUME NEW k \in p + 1 .. q PROVE X[k].role = "tool"
  <2>1. k - 1 \in p .. N /\ k - 1 < q /\ k - 1 # N /\ (k - 1) + 1 = k BY <1>4
  <2>2. k - 1 \notin E BY <1>3, <1>4, <2>1
  <2> QED BY <1>2, <2>1, <2>2
<1>6. Open(X, p, q) BY <1>5 DEF Open
<1>7. AnsweredBy(X, q)
  <2>1. CASE q = N BY <1>1, <2>1
  <2>2. CASE q # N
    <3>1. q + 1 \in 1 .. N /\ X[q + 1].role # "tool" /\ (q + 1) - 1 = q BY <1>4, <2>2
    <3>2. q + 1 \in DOMAIN X BY <1>1, <3>1
    <3>3. AnsweredBy(X, (q + 1) - 1) BY <3>1, <3>2 DEF Windows
    <3> QED BY <3>1, <3>3
  <2> QED BY <2>1, <2>2
<1>8. Uses(X[p]) \subseteq Answers(X, p, q)
  <2>1. p \in 1 .. q BY <1>4
  <2> QED BY <1>6, <1>7, <2>1 DEF AnsweredBy
<1>9. q # p
  <2>1. SUFFICES ASSUME q = p PROVE FALSE OBVIOUS
  <2>2. Answers(X, p, p) = {}
    <3>1. \A k \in p + 1 .. p : FALSE OBVIOUS
    <3> QED BY <3>1 DEF Answers
  <2> QED BY <1>8, <2>1, <2>2
<1>10. q \in p + 1 .. Len(X) BY <1>1, <1>4, <1>9
<1> QED BY <1>6, <1>8, <1>10

\* A window is a message and the next.
Window(p, G, at, X) ==
    /\ p + 1 \in 1 .. Len(X) /\ X[p + 1].role = "tool" /\ at[p + 1] = at[p] + 1
    /\ Uses(G[at[p]]) = Uses(X[p])
    /\ Results(G[at[p] + 1]) = Uses(X[p])

LEMMA WindowGroup ==
    ASSUME NEW X \in Seq(Messages), Windows(X), AnsweredBy(X, Len(X)),
           NEW G \in Seq(Messages), NEW at, Groups(G, at, X, Len(X)),
           NEW p \in 1 .. Len(X), Uses(X[p]) # {}
    PROVE  Window(p, G, at, X)
<1>1. PICK N \in Nat : N = Len(X) OBVIOUS
<1>2. \A k \in 1 .. N : at[k] \in 1 .. Len(G) /\ at[k] \in Nat BY <1>1 DEF Groups
<1>3. \A i, j \in 1 .. N : i <= j => at[i] <= at[j] BY <1>1 DEF Groups
<1>4. \A k \in 1 .. N :
        /\ Sided(X[k])
        /\ Uses(X[k]) # {} => X[k].role = "assistant"
        /\ X[k].role = "tool" => Uses(X[k]) = {}
  BY <1>1, SidesAre
<1>5. ASSUME NEW k \in 1 .. N, Uses(X[k]) # {}
      PROVE  /\ k + 1 \in 1 .. N /\ X[k + 1].role = "tool" /\ at[k + 1] = at[k] + 1
  <2>1. PICK q \in k + 1 .. N : Open(X, k, q) BY <1>1, <1>5, WindowEnds
  <2>2. k + 1 \in 1 .. N /\ k + 1 \in k + 1 .. q /\ k + 1 \in 2 .. N /\ (k + 1) - 1 = k
    OBVIOUS
  <2>3. X[k + 1].role = "tool" BY <2>1, <2>2 DEF Open
  <2>4. X[k + 1].role # X[k].role BY <1>4, <1>5, <2>3
  <2>5. at[k + 1] = at[(k + 1) - 1] + 1 BY <1>1, <2>2, <2>4 DEF Groups
  <2> QED BY <2>2, <2>3, <2>5
<1>6. p \in 1 .. N /\ p + 1 \in 1 .. N /\ X[p + 1].role = "tool" /\ at[p + 1] = at[p] + 1
  BY <1>1, <1>5
<1>6a. \A j \in 1 .. Len(G) : UsesOf(j, G, at, X) /\ ResultsOf(j, G, at, X) BY GroupBlocks
<1>7. PICK m \in 1 .. Len(G) : m = at[p] BY <1>2, <1>6
<1>8. m + 1 \in 1 .. Len(G) /\ at[p + 1] = m + 1 BY <1>2, <1>6, <1>7
<1>9. Uses(G[m]) = Uses(X[p])
  <2>1. \A u : u \in Uses(G[m]) <=> \E k \in 1 .. N : at[k] = m /\ u \in Uses(X[k])
    BY <1>1, <1>7, <1>6a DEF UsesOf
  <2>2. ASSUME NEW k \in 1 .. N, at[k] = m, Uses(X[k]) # {} PROVE k = p
    <3>1. k + 1 \in 1 .. N /\ at[k + 1] = m + 1 BY <1>5, <2>2
    <3>2. ~ (k < p)
      <4>1. k < p => k + 1 <= p BY <1>6
      <4>2. k + 1 <= p => at[k + 1] <= at[p] BY <1>3, <1>6, <3>1
      <4> QED BY <1>7, <3>1, <4>1, <4>2
    <3>3. ~ (p < k)
      <4>1. p < k => p + 1 <= k BY <1>6
      <4>2. p + 1 <= k => at[p + 1] <= at[k] BY <1>3, <1>6
      <4> QED BY <1>8, <2>2, <4>1, <4>2
    <3> QED BY <1>6, <3>2, <3>3
  <2> QED BY <1>6, <1>7, <2>1, <2>2
<1>10. \A u : u \in Results(G[m + 1]) <=> \E k \in 1 .. N : at[k] = m + 1 /\ u \in Results(X[k])
  BY <1>1, <1>8, <1>6a DEF ResultsOf
<1>11. ASSUME NEW k \in 1 .. N, at[k] = m + 1 PROVE Results(X[k]) \subseteq Uses(X[p])
  <2>1. p + 1 <= k
    <3>1. k <= p => at[k] <= at[p] BY <1>3, <1>6
    <3> QED BY <1>6, <1>7, <1>11, <3>1
  <2>2. ASSUME NEW c \in p + 1 .. k PROVE X[c].role = "tool"
    <3>1. c \in 1 .. N /\ p + 1 <= c /\ c <= k BY <1>6
    <3>2. at[p + 1] <= at[c] /\ at[c] <= at[k] BY <1>3, <1>6, <3>1
    <3>3. at[c] = m + 1 BY <1>2, <1>8, <1>11, <3>1, <3>2
    <3>4. X[c].role = G[m + 1].role /\ X[p + 1].role = G[m + 1].role
      BY <1>1, <1>6, <1>8, <3>1, <3>3 DEF Groups
    <3> QED BY <1>6, <3>4
  <2>3. Placed(X, k)
    <3>1. k \in DOMAIN X /\ k \in p + 1 .. k BY <1>1, <2>1
    <3>2. X[k].role = "tool" BY <2>2, <3>1
    <3> QED BY <3>1, <3>2 DEF Windows
  <2>4. p \in 1 .. k - 1 BY <1>6, <2>1
  <2>5. PICK r \in 1 .. k - 1 : Open(X, r, k) /\ Results(X[k]) \subseteq Uses(X[r])
    BY <2>3, <2>4 DEF Placed
  <2>6. r \in 1 .. N OBVIOUS
  <2>7. ~ (r < p)
    <3>1. r < p => p \in r + 1 .. k BY <2>4
    <3>2. p \in r + 1 .. k => X[p].role = "tool" BY <2>5 DEF Open
    <3> QED BY <1>4, <1>6, <3>1, <3>2
  <2>8. ~ (p < r)
    <3>1. p < r => r \in p + 1 .. k BY <2>4
    <3>2. r \in p + 1 .. k => Uses(X[r]) = {} BY <1>4, <2>2, <2>6
    <3> QED BY <2>5, <3>1, <3>2 DEF Open
  <2>9. r = p BY <2>4, <2>7, <2>8
  <2> QED BY <2>5, <2>9
<1>12. ASSUME NEW u \in Uses(X[p]) PROVE u \in Results(G[m + 1])
  <2>1. PICK q \in p + 1 .. N : Open(X, p, q) /\ Uses(X[p]) \subseteq Answers(X, p, q)
    BY <1>1, WindowEnds
  <2>2. PICK k \in p + 1 .. q : u \in Results(X[k]) BY <2>1 DEF Answers
  <2>3. \A c \in p + 1 .. k : X[c].role = "tool" BY <2>1 DEF Open
  <2>4. k \in 1 .. N /\ p + 1 <= k BY <1>6
  <2>5. at[p + 1] = at[k]
    <3>1. \A c \in p + 1 .. k : X[c].role = X[p + 1].role BY <1>6, <2>3
    <3> QED BY <1>1, <1>6, <2>4, <3>1 DEF Groups
  <2> QED BY <1>8, <1>10, <2>2, <2>4, <2>5
<1>13. Results(G[m + 1]) = Uses(X[p]) BY <1>10, <1>11, <1>12
<1> QED BY <1>1, <1>6, <1>7, <1>9, <1>13 DEF Window

LEMMA GroupedIsNeat ==
    ASSUME NEW X \in Seq(Messages), Windows(X), AnsweredBy(X, Len(X))
    PROVE  /\ Grouped(X) \in Seq(Messages)
           /\ Neat(Grouped(X))
           /\ Asked(X) => \A m \in DOMAIN Grouped(X) :
                            Grouped(X)[m].role = "tool" => Paired(Grouped(X), m)
<1>1. PICK G, at : G \in Seq(Messages) /\ G = Grouped(X) /\ Groups(G, at, X, Len(X)) BY GroupedIs
<1>2. PICK N \in Nat, L \in Nat : N = Len(X) /\ L = Len(G) OBVIOUS
<1>3. \A k \in 1 .. N : at[k] \in 1 .. L /\ G[at[k]].role = X[k].role BY <1>1, <1>2 DEF Groups
<1>4. \A k \in 1 .. N : Sided(X[k]) BY <1>2, SidesAre
<1>5. ASSUME NEW k \in 1 .. N, Uses(X[k]) # {}
      PROVE  /\ k + 1 \in 1 .. N /\ X[k + 1].role = "tool" /\ at[k + 1] = at[k] + 1
             /\ Uses(G[at[k]]) = Uses(X[k]) /\ Results(G[at[k] + 1]) = Uses(X[k])
  <2>1. k \in 1 .. Len(X) BY <1>2
  <2>2. Window(k, G, at, X) BY <1>1, <1>5, <2>1, WindowGroup
  <2> QED BY <1>2, <2>2 DEF Window
<1>5a. \A j \in 1 .. L : BlocksOf(j, G, at, X) /\ UsesOf(j, G, at, X) /\ ResultsOf(j, G, at, X)
  BY <1>1, <1>2, GroupBlocks
<1>6. ASSUME NEW m \in 1 .. L PROVE Sided(G[m])
  <2>1. PICK k \in 1 .. N : at[k] = m BY <1>1, <1>2, GroupsCover
  <2>2. \A b : b \in Range(G[m].content) <=>
                 \E i \in 1 .. N : at[i] = m /\ b \in Range(X[i].content)
    BY <1>1, <1>2, <1>5a DEF BlocksOf
  <2>3. \A u : u \in Uses(G[m]) <=> \E i \in 1 .. N : at[i] = m /\ u \in Uses(X[i])
    BY <1>1, <1>2, <1>5a DEF UsesOf
  <2>4. \A u : u \in Results(G[m]) <=> \E i \in 1 .. N : at[i] = m /\ u \in Results(X[i])
    BY <1>1, <1>2, <1>5a DEF ResultsOf
  <2>5. \A i \in 1 .. N : at[i] = m => X[i].role = G[m].role BY <1>3
  <2>6. G[m].content # <<>>
    <3>1. X[k].content \in Seq(Blocks) /\ X[k].content # <<>>
      <4>1. X[k] \in Messages BY <1>2
      <4> QED BY <1>4, <4>1 DEF Messages, Sided
    <3>2. 1 \in DOMAIN X[k].content BY <3>1, EmptySeq
    <3>3. X[k].content[1] \in Range(X[k].content) BY <3>2 DEF Range
    <3>4. X[k].content[1] \in Range(G[m].content) BY <2>1, <2>2, <3>3
    <3>5. Range(<<>>) = {} BY DEF Range
    <3> QED BY <3>4, <3>5
  <2>7. G[m].role # "assistant" => Uses(G[m]) = {} BY <1>4, <2>3, <2>5 DEF Sided
  <2>8. G[m].role # "tool" => Results(G[m]) = {} BY <1>4, <2>4, <2>5 DEF Sided
  <2>9. G[m].role = "tool" => \A b \in Range(G[m].content) : b.is = "result"
    BY <1>4, <2>2, <2>5 DEF Sided
  <2> QED BY <2>6, <2>7, <2>8, <2>9 DEF Sided
<1>7. ASSUME NEW m \in 1 .. L, m > 1 PROVE G[m].role # G[m - 1].role
  <2>1. m \in 2 .. L BY <1>7
  <2>2. PICK k \in 2 .. N : at[k - 1] = m - 1 /\ at[k] = m BY <1>1, <1>2, <2>1 DEF Groups
  <2>3. X[k].role # X[k - 1].role
    <3>1. X[k].role = X[k - 1].role => at[k] = at[k - 1] BY <1>1, <1>2 DEF Groups
    <3> QED BY <2>1, <2>2, <3>1
  <2>4. k \in 1 .. N /\ k - 1 \in 1 .. N OBVIOUS
  <2> QED BY <1>3, <2>2, <2>3, <2>4
<1>8. ASSUME NEW m \in 1 .. L, NEW k \in 1 .. N, at[k] = m, NEW p \in 1 .. k - 1,
             Open(X, p, k)
      PROVE  Paired(G, m)
  <2>1. p \in 1 .. N /\ Uses(X[p]) # {} /\ p + 1 <= k BY <1>8 DEF Open
  <2>2. /\ p + 1 \in 1 .. N /\ at[p + 1] = at[p] + 1
        /\ Uses(G[at[p]]) = Uses(X[p]) /\ Results(G[at[p] + 1]) = Uses(X[p])
    BY <1>5, <2>1
  <2>3. at[k] = at[p + 1]
    <3>1. X[p + 1].role = "tool" /\ \A c \in p + 1 .. k : X[c].role = "tool"
      BY <1>8, <2>1 DEF Open
    <3> QED BY <1>1, <1>2, <2>1, <2>2, <3>1 DEF Groups
  <2>4. at[p] \in 1 .. L /\ m = at[p] + 1 /\ m - 1 = at[p] BY <1>3, <1>8, <2>1, <2>2, <2>3
  <2>5. Uses(G[m - 1]) = Uses(X[p]) /\ Results(G[m]) = Uses(X[p]) /\ m > 1 BY <2>2, <2>4
  <2> QED BY <2>1, <2>5 DEF Paired
<1>9. ASSUME NEW m \in 1 .. L, G[m].role = "tool", ~ Paired(G, m)
      PROVE  /\ \A p \in 1 .. m - 1 : Uses(G[p]) = {}
             /\ \E k \in DOMAIN X : X[k].role = "tool" /\ \A p \in 1 .. k - 1 : Uses(X[p]) = {}
  <2>1. PICK k \in 1 .. N : at[k] = m BY <1>1, <1>2, GroupsCover
  <2>2. k \in DOMAIN X /\ X[k].role = "tool" BY <1>2, <1>3, <1>9, <2>1
  <2>3. Placed(X, k) BY <2>2 DEF Windows
  <2>4. \A p \in 1 .. k - 1 : Uses(X[p]) = {} BY <1>8, <1>9, <2>1, <2>3 DEF Placed
  <2>5. ASSUME NEW p \in 1 .. m - 1, NEW u \in Uses(G[p]) PROVE FALSE
    <3>1. p \in 1 .. L /\ p < m OBVIOUS
    <3>2. \A v : v \in Uses(G[p]) <=> \E i \in 1 .. N : at[i] = p /\ v \in Uses(X[i])
      BY <1>1, <1>2, <3>1, <1>5a DEF UsesOf
    <3>3. PICK i \in 1 .. N : at[i] = p /\ u \in Uses(X[i]) BY <2>5, <3>2
    <3>4. i < k
      <4>1. k <= i => at[k] <= at[i] BY <1>1, <1>2 DEF Groups
      <4> QED BY <2>1, <3>1, <3>3, <4>1
    <3>5. i \in 1 .. k - 1 BY <3>4
    <3> QED BY <2>4, <3>3, <3>5
  <2> QED BY <2>2, <2>4, <2>5
<1>10. ASSUME NEW m \in 1 .. L, Uses(G[m]) # {} PROVE m < L /\ G[m + 1].role = "tool"
  <2>1. \A u : u \in Uses(G[m]) <=> \E k \in 1 .. N : at[k] = m /\ u \in Uses(X[k])
    BY <1>1, <1>2, <1>5a DEF UsesOf
  <2>2. PICK k \in 1 .. N : at[k] = m /\ Uses(X[k]) # {} BY <1>10, <2>1
  <2>3. k + 1 \in 1 .. N /\ X[k + 1].role = "tool" /\ at[k + 1] = m + 1 BY <1>5, <2>2
  <2>4. m + 1 \in 1 .. L /\ G[m + 1].role = "tool" BY <1>3, <2>3
  <2> QED BY <2>4
<1>11. DOMAIN G = 1 .. L BY <1>2
<1>12. Neat(G) BY <1>2, <1>6, <1>7, <1>9, <1>10, <1>11 DEF Neat
<1>13. Asked(X) => \A m \in DOMAIN G : G[m].role = "tool" => Paired(G, m)
  BY <1>9, <1>11 DEF Asked
<1> QED BY <1>1, <1>12, <1>13

\* Pruned and Filled.
Orphan(list, n) == list[n].role = "tool" /\ ~ Paired(list, n)

LEMMA SaysNothing ==
    ASSUME NEW T, NEW s \in Seq(T)
    PROVE  s = <<>> <=> Range(s) = {}
<1>1. s # <<>> => Range(s) # {}
  <2>1. s # <<>> => 1 \in DOMAIN s BY EmptySeq
  <2> QED BY <2>1 DEF Range
<1>2. Range(<<>>) = {} BY DEF Range
<1> QED BY <1>1, <1>2

LEMMA PrunedIs ==
    ASSUME NEW G \in Seq(Messages), Neat(G)
    PROVE  /\ Pruned(G) \in Seq(Messages) /\ Len(Pruned(G)) = Len(G)
           /\ \A n \in 1 .. Len(G) :
                /\ Pruned(G)[n].role = G[n].role
                /\ IF Orphan(G, n) THEN Pruned(G)[n].content = <<>>
                   ELSE Range(Pruned(G)[n].content) = Range(G[n].content)
<1>1. PICK L \in Nat : L = Len(G) /\ DOMAIN G = 1 .. L OBVIOUS
<1>2. PICK P : P = Pruned(G) OBVIOUS
<1> DEFINE Stays(n) == {b \in Range(G[n].content) : b.is = "result" => b.id \in CalledBy(G, n)}
           Left(n) == Only(G[n].content, Stays(n))
           Lean(n) == [G[n] EXCEPT !.content = Left(n)]
<1>3. P = [n \in 1 .. L |-> Lean(n)] BY <1>1, <1>2 DEF Pruned
<1>4. ASSUME NEW n \in 1 .. L
      PROVE  /\ Lean(n) \in Messages /\ Lean(n).role = G[n].role
             /\ IF Orphan(G, n) THEN Lean(n).content = <<>>
                ELSE Range(Lean(n).content) = Range(G[n].content)
  <2>1. G[n] \in Messages /\ n \in DOMAIN G BY <1>1
  <2>2. G[n].content \in Seq(Blocks) BY <2>1 DEF Messages
  <2>3. Left(n) \in Seq(Blocks) /\ Range(Left(n)) = Stays(n)
    <3>1. PICK S : S = Stays(n) OBVIOUS
    <3>2. Only(G[n].content, S) \in Seq(Blocks)
          /\ Range(Only(G[n].content, S)) = Range(G[n].content) \cap S
      BY <2>2, OnlyKeeps
    <3>3. S \subseteq Range(G[n].content) BY <3>1
    <3> QED BY <3>1, <3>2, <3>3
  <2>4. Lean(n) \in Messages /\ Lean(n).role = G[n].role /\ Lean(n).content = Left(n)
    <3>1. PICK rest \in Seq(Blocks) : rest = Left(n) BY <2>3
    <3>2. [G[n] EXCEPT !.content = rest] \in Messages
          /\ [G[n] EXCEPT !.content = rest].role = G[n].role
          /\ [G[n] EXCEPT !.content = rest].content = rest
      BY <2>1, <3>1 DEF Messages
    <3> QED BY <3>1, <3>2
  <2>5. Sided(G[n])
        /\ (G[n].role = "tool" => Paired(G, n) \/ \A p \in 1 .. n - 1 : Uses(G[p]) = {})
    BY <2>1 DEF Neat
  <2>6. CASE Orphan(G, n)
    <3>1. G[n].role = "tool" /\ \A p \in 1 .. n - 1 : Uses(G[p]) = {}
      BY <2>5, <2>6 DEF Orphan
    <3>2. Uses(G[n]) = {} BY <2>5, <3>1 DEF Sided
    <3>3. \A p \in 1 .. n : Calls(G[p]) = {}
      <4>1. \A p \in 1 .. n : p \in 1 .. n - 1 \/ p = n OBVIOUS
      <4> QED BY <3>1, <3>2, <4>1 DEF Calls, Uses
    <3>4. CalledBy(G, n) = {} BY <3>3 DEF CalledBy
    <3>5. \A b \in Range(G[n].content) : b.is = "result" BY <2>5, <3>1 DEF Sided
    <3>6. Stays(n) = {} BY <3>4, <3>5
    <3>7. Left(n) = <<>>
      <4>1. PICK rest : rest = Left(n) OBVIOUS
      <4>2. rest \in Seq(Blocks) /\ Range(rest) = {} BY <2>3, <3>6, <4>1
      <4>3. rest = <<>> BY <4>2, SaysNothing
      <4> QED BY <4>1, <4>3
    <3> HIDE DEF Cut, Rest
    <3> QED BY <2>4, <2>6, <3>7
  <2>7. CASE ~ Orphan(G, n)
    <3>1. \A b \in Range(G[n].content) : b.is = "result" => b.id \in Results(G[n])
      BY DEF Results
    <3>2. Results(G[n]) \subseteq CalledBy(G, n)
      <4>1. CASE G[n].role # "tool" BY <2>5, <4>1 DEF Sided
      <4>2. CASE Paired(G, n)
        <5>1. n - 1 \in 1 .. n /\ Results(G[n]) = Calls(G[n - 1])
          BY <4>2 DEF Paired, Calls, Uses
        <5> QED BY <5>1 DEF CalledBy
      <4> QED BY <2>7, <4>1, <4>2 DEF Orphan
    <3>3. Stays(n) = Range(G[n].content) BY <3>1, <3>2
    <3> HIDE DEF Cut, Rest, Stays
    <3> QED BY <2>3, <2>4, <2>7, <3>3
  <2> HIDE DEF Cut
  <2> QED BY <2>4, <2>6, <2>7
<1> HIDE DEF Cut
<1>5. \A n \in 1 .. L : P[n] = Lean(n) BY <1>3
<1>6. P \in Seq(Messages) /\ Len(P) = L
  <2>1. P \in [1 .. L -> Messages] BY <1>3, <1>4
  <2> QED BY <2>1
<1> QED BY <1>1, <1>2, <1>4, <1>5, <1>6

\* What is said by both messages is the same.
Same(m, n) == m.role = n.role /\ Range(m.content) = Range(n.content)

LEMMA SameSides ==
    ASSUME NEW m, NEW n, Same(m, n)
    PROVE  /\ Uses(m) = Uses(n) /\ Results(m) = Results(n)
           /\ Sided(n) /\ m.content # <<>> => Sided(m)
<1>1. Uses(m) = Uses(n) /\ Results(m) = Results(n) BY DEF Same, Uses, Results
<1> QED BY <1>1 DEF Same, Sided

LEMMA FilledIs ==
    ASSUME NEW G \in Seq(Messages), Neat(G)
    PROVE  LET F == Filled(Pruned(G)) IN
           /\ F \in Seq(Messages)
           /\ \E pos \in [1 .. Len(F) -> 1 .. Len(G)] :
                /\ \A i \in 1 .. Len(F) :
                     ~ Orphan(G, pos[i]) /\ Same(F[i], G[pos[i]]) /\ F[i].content # <<>>
                /\ \A i, j \in 1 .. Len(F) : i < j => pos[i] < pos[j]
                /\ \A n \in 1 .. Len(G) : ~ Orphan(G, n) => \E i \in 1 .. Len(F) : pos[i] = n
<1>1. PICK P \in Seq(Messages) : P = Pruned(G) /\ Len(P) = Len(G) BY PrunedIs
<1>2. \A n \in 1 .. Len(G) :
        /\ P[n].role = G[n].role
        /\ IF Orphan(G, n) THEN P[n].content = <<>>
           ELSE Range(P[n].content) = Range(G[n].content)
  BY <1>1, PrunedIs
<1>3. PICK S : S = {m \in Range(P) : m.content # <<>>} OBVIOUS
<1>4. PICK F, pos : F \in Seq(Messages) /\ F = Only(P, S) /\ Picks(F, pos, P, S, Len(P))
  BY <1>1, OnlyPicks
<1>5. F = Filled(Pruned(G)) BY <1>1, <1>3, <1>4 DEF Filled
<1>6. \A n \in 1 .. Len(G) : P[n] \in S <=> ~ Orphan(G, n)
  <2>1. TAKE n \in 1 .. Len(G)
  <2>2. n \in DOMAIN P /\ P[n] \in Range(P) /\ P[n] \in Messages BY <1>1 DEF Range
  <2>3. P[n].content \in Seq(Blocks) BY <2>2 DEF Messages
  <2>4. CASE Orphan(G, n) BY <1>2, <1>3, <2>4
  <2>5. CASE ~ Orphan(G, n)
    <3>1. G[n] \in Messages /\ Sided(G[n]) BY DEF Neat
    <3>2. G[n].content \in Seq(Blocks) /\ G[n].content # <<>> BY <3>1 DEF Messages, Sided
    <3>3. Range(G[n].content) # {} BY <3>2, SaysNothing
    <3>4. Range(P[n].content) # {} BY <1>2, <2>5, <3>3
    <3>5. P[n].content # <<>> BY <2>3, <3>4, SaysNothing
    <3> QED BY <1>3, <2>2, <2>5, <3>5
  <2> QED BY <2>4, <2>5
<1>7. pos \in [1 .. Len(F) -> 1 .. Len(G)] BY <1>1, <1>4 DEF Picks
<1>8. ASSUME NEW i \in 1 .. Len(F)
      PROVE  ~ Orphan(G, pos[i]) /\ Same(F[i], G[pos[i]]) /\ F[i].content # <<>>
  <2>1. pos[i] \in 1 .. Len(G) BY <1>7
  <2>2. F[i] = P[pos[i]] /\ P[pos[i]] \in S BY <1>4 DEF Picks
  <2>3. ~ Orphan(G, pos[i]) BY <1>6, <2>1, <2>2
  <2>4. Same(F[i], G[pos[i]]) BY <1>2, <2>1, <2>2, <2>3 DEF Same
  <2> QED BY <1>3, <2>2, <2>3, <2>4
<1>9. \A n \in 1 .. Len(G) : ~ Orphan(G, n) => \E i \in 1 .. Len(F) : pos[i] = n
  BY <1>1, <1>4, <1>6 DEF Picks
<1>10. \A i, j \in 1 .. Len(F) : i < j => pos[i] < pos[j] BY <1>4 DEF Picks
<1> QED BY <1>4, <1>5, <1>7, <1>8, <1>9, <1>10

\* Without what was orphaned every result answers the message before it.
LEMMA FilledPairs ==
    ASSUME NEW G \in Seq(Messages), Neat(G), NEW F, F = Filled(Pruned(G))
    PROVE  /\ F \in Seq(Messages)
           /\ \A i \in 1 .. Len(F) :
                /\ Sided(F[i])
                /\ F[i].role = "tool" => Paired(F, i)
                /\ Uses(F[i]) # {} =>
                     i < Len(F) /\ F[i + 1].role = "tool" /\ Results(F[i + 1]) = Uses(F[i])
<1>1. PICK L \in Nat : L = Len(G) /\ DOMAIN G = 1 .. L OBVIOUS
<1>2. F \in Seq(Messages) BY FilledIs
<1>3. PICK M \in Nat : M = Len(F) BY <1>2
<1>4. PICK pos \in [1 .. M -> 1 .. L] :
        /\ \A i \in 1 .. M : ~ Orphan(G, pos[i]) /\ Same(F[i], G[pos[i]]) /\ F[i].content # <<>>
        /\ \A i, j \in 1 .. M : i < j => pos[i] < pos[j]
        /\ \A n \in 1 .. L : ~ Orphan(G, n) => \E i \in 1 .. M : pos[i] = n
  BY <1>1, <1>3, FilledIs
<1>5. ASSUME NEW i \in 1 .. M
      PROVE  /\ pos[i] \in 1 .. L
             /\ Sided(F[i]) /\ F[i].role = G[pos[i]].role
             /\ Uses(F[i]) = Uses(G[pos[i]]) /\ Results(F[i]) = Results(G[pos[i]])
  <2>1. pos[i] \in 1 .. L BY <1>4
  <2>2. Sided(G[pos[i]]) BY <1>1, <2>1 DEF Neat
  <2>3. Same(F[i], G[pos[i]]) /\ F[i].content # <<>> BY <1>4
  <2> QED BY <2>1, <2>2, <2>3, SameSides DEF Same
<1>6. ASSUME NEW i \in 1 .. M, NEW j \in 1 .. M, pos[j] = pos[i] + 1
      PROVE  j = i + 1
  <2>1. pos[i] \in Nat /\ pos[j] \in Nat BY <1>5
  <2>2. i < j
    <3>1. i # j BY <1>6, <2>1
    <3>2. j < i => pos[j] < pos[i] BY <1>4
    <3> QED BY <1>6, <2>1, <3>1, <3>2
  <2>3. ~ (i + 1 < j)
    <3>1. SUFFICES ASSUME i + 1 < j PROVE FALSE OBVIOUS
    <3>2. i + 1 \in 1 .. M /\ i < i + 1 BY <3>1
    <3>3. pos[i] < pos[i + 1] /\ pos[i + 1] < pos[j] BY <1>4, <3>1, <3>2
    <3>4. pos[i + 1] \in Nat BY <1>5, <3>2
    <3> QED BY <1>6, <2>1, <3>3, <3>4
  <2> QED BY <2>2, <2>3
<1>7. ASSUME NEW n \in 1 .. L
      PROVE  /\ G[n].role = "tool" => Paired(G, n) \/ \A p \in 1 .. n - 1 : Uses(G[p]) = {}
             /\ Uses(G[n]) # {} => n < L /\ G[n + 1].role = "tool" /\ G[n].role # "tool"
  <2>1. n \in DOMAIN G /\ Sided(G[n]) BY <1>1 DEF Neat
  <2>2. Uses(G[n]) # {} => G[n].role # "tool" BY <2>1 DEF Sided
  <2> QED BY <1>1, <2>1, <2>2 DEF Neat
<1>8. ASSUME NEW i \in 1 .. M, F[i].role = "tool" PROVE Paired(F, i)
  <2>1. PICK n \in 1 .. L : n = pos[i] BY <1>5
  <2>2. Paired(G, n) BY <1>4, <1>5, <1>8, <2>1 DEF Orphan
  <2>3. n - 1 \in 1 .. L /\ Uses(G[n - 1]) # {} /\ Results(G[n]) = Uses(G[n - 1])
    BY <2>2 DEF Paired
  <2>4. ~ Orphan(G, n - 1) BY <1>7, <2>3 DEF Orphan
  <2>5. PICK j \in 1 .. M : pos[j] = n - 1 BY <1>4, <2>3, <2>4
  <2>6. i = j + 1
    <3>1. pos[i] = pos[j] + 1 BY <2>1, <2>5
    <3> QED BY <1>6, <3>1
  <2>7. i > 1 /\ i - 1 = j BY <2>6
  <2>8. Uses(F[i - 1]) = Uses(G[n - 1]) BY <1>5, <2>5, <2>7
  <2>9. Results(F[i]) = Results(G[n]) BY <1>5, <2>1
  <2> QED BY <2>3, <2>7, <2>8, <2>9 DEF Paired
<1>9. ASSUME NEW i \in 1 .. M, Uses(F[i]) # {}
      PROVE  i < M /\ F[i + 1].role = "tool" /\ Results(F[i + 1]) = Uses(F[i])
  <2>1. PICK n \in 1 .. L : n = pos[i] BY <1>5
  <2>2. Uses(G[n]) # {} BY <1>5, <1>9, <2>1
  <2>3. n + 1 \in 1 .. L /\ G[n + 1].role = "tool" /\ n \in 1 .. (n + 1) - 1
    <3>1. n < L /\ G[n + 1].role = "tool" BY <1>7, <2>2
    <3> QED BY <3>1
  <2>4. Paired(G, n + 1) BY <1>7, <2>2, <2>3
  <2>5. PICK j \in 1 .. M : pos[j] = n + 1 BY <1>4, <2>3, <2>4 DEF Orphan
  <2>6. j = i + 1 BY <1>6, <2>1, <2>5
  <2>7. F[i + 1].role = "tool" BY <1>5, <2>3, <2>5, <2>6
  <2>8. Paired(F, i + 1) BY <1>8, <2>6, <2>7
  <2>9. (i + 1) - 1 = i OBVIOUS
  <2> QED BY <2>6, <2>7, <2>8, <2>9 DEF Paired
<1> QED BY <1>2, <1>3, <1>5, <1>8, <1>9

LEMMA PairsAreWindows ==
    ASSUME NEW F \in Seq(Messages),
           \A i \in 1 .. Len(F) :
             /\ Sided(F[i])
             /\ F[i].role = "tool" => Paired(F, i)
             /\ Uses(F[i]) # {} =>
                  i < Len(F) /\ F[i + 1].role = "tool" /\ Results(F[i + 1]) = Uses(F[i])
    PROVE  Windows(F) /\ AnsweredBy(F, Len(F)) /\ Asked(F)
<1>1. PICK M \in Nat : M = Len(F) /\ DOMAIN F = 1 .. M OBVIOUS
<1>2. ASSUME NEW j \in 1 .. M, F[j].role = "tool"
      PROVE  Placed(F, j) /\ \E p \in 1 .. j - 1 : Uses(F[p]) # {}
  <2>1. j > 1 /\ Uses(F[j - 1]) # {} /\ Results(F[j]) = Uses(F[j - 1])
    BY <1>1, <1>2 DEF Paired
  <2>2. j - 1 \in 1 .. j - 1 /\ \A k \in (j - 1) + 1 .. j : k = j BY <2>1
  <2>3. Open(F, j - 1, j) BY <1>2, <2>1, <2>2 DEF Open
  <2> QED BY <2>1, <2>2, <2>3 DEF Placed
<1>3. ASSUME NEW q \in 0 .. M, q = M \/ F[q + 1].role # "tool" PROVE AnsweredBy(F, q)
  <2>1. SUFFICES ASSUME NEW p \in 1 .. q, Open(F, p, q)
                 PROVE  Uses(F[p]) \subseteq Answers(F, p, q)
    BY DEF AnsweredBy
  <2>2. p \in 1 .. M /\ Uses(F[p]) # {} BY <2>1 DEF Open
  <2>3. p < M /\ F[p + 1].role = "tool" /\ Results(F[p + 1]) = Uses(F[p]) BY <1>1, <2>2
  <2>4. p # q BY <1>3, <2>3
  <2>5. p + 1 \in p + 1 .. q BY <2>4
  <2> QED BY <2>3, <2>5 DEF Answers
<1>4. AnsweredBy(F, Len(F))
  <2>1. M \in 0 .. M OBVIOUS
  <2> QED BY <1>1, <1>3, <2>1
<1>5. \A j \in 1 .. M : F[j].role # "tool" => AnsweredBy(F, j - 1)
  <2>1. TAKE j \in 1 .. M
  <2>2. j - 1 \in 0 .. M /\ (j - 1) + 1 = j OBVIOUS
  <2> QED BY <1>3, <2>2
<1>6. Windows(F) BY <1>1, <1>2, <1>5 DEF Windows
<1>7. Asked(F) BY <1>1, <1>2 DEF Asked
<1> QED BY <1>4, <1>6, <1>7

\* The messages a provider is sent.
Accepted(m) ==
    \A i \in DOMAIN m :
       /\ m[i].content # <<>>
       /\ i > 1 => m[i].role # m[i - 1].role
       /\ i < Len(m) => Uses(m[i]) = Results(m[i + 1])
       /\ i = 1 => Results(m[i]) = {}

LEMMA DropOrphansIsAccepted ==
    ASSUME NEW G \in Seq(Messages), Neat(G)
    PROVE  DropOrphans(G) \in Seq(Messages) /\ Accepted(DropOrphans(G))
<1>1. PICK F : F = Filled(Pruned(G)) OBVIOUS
<1>2. /\ F \in Seq(Messages)
      /\ \A i \in 1 .. Len(F) :
           /\ Sided(F[i])
           /\ F[i].role = "tool" => Paired(F, i)
           /\ Uses(F[i]) # {} =>
                i < Len(F) /\ F[i + 1].role = "tool" /\ Results(F[i + 1]) = Uses(F[i])
  BY <1>1, FilledPairs
<1>3. Windows(F) /\ AnsweredBy(F, Len(F)) /\ Asked(F) BY <1>2, PairsAreWindows
<1>4. PICK M : M = Grouped(F) OBVIOUS
<1>5. /\ M \in Seq(Messages) /\ Neat(M)
      /\ \A m \in DOMAIN M : M[m].role = "tool" => Paired(M, m)
  BY <1>2, <1>3, <1>4, GroupedIsNeat
<1>6. M = DropOrphans(G) BY <1>1, <1>4 DEF DropOrphans
<1>7. DOMAIN M = 1 .. Len(M) /\ Len(M) \in Nat BY <1>5
<1>8. ASSUME NEW i \in DOMAIN M
      PROVE  /\ M[i].content # <<>>
             /\ i > 1 => M[i].role # M[i - 1].role
             /\ i < Len(M) => Uses(M[i]) = Results(M[i + 1])
             /\ i = 1 => Results(M[i]) = {}
  <2>1. Sided(M[i]) /\ (i > 1 => M[i].role # M[i - 1].role) BY <1>5 DEF Neat
  <2>2. i = 1 => Results(M[i]) = {}
    <3>1. i = 1 => M[i].role # "tool" BY <1>5 DEF Paired
    <3> QED BY <2>1, <3>1 DEF Sided
  <2>3. ASSUME i < Len(M) PROVE Uses(M[i]) = Results(M[i + 1])
    <3>1. i + 1 \in DOMAIN M /\ (i + 1) - 1 = i BY <1>7, <2>3
    <3>2. CASE M[i + 1].role = "tool"
      <4>1. Paired(M, i + 1) BY <1>5, <3>1, <3>2
      <4> QED BY <3>1, <4>1 DEF Paired
    <3>3. CASE M[i + 1].role # "tool"
      <4>1. Sided(M[i + 1]) BY <1>5, <3>1 DEF Neat
      <4>2. Results(M[i + 1]) = {} BY <3>3, <4>1 DEF Sided
      <4>3. Uses(M[i]) = {} BY <1>5, <3>3 DEF Neat
      <4> QED BY <4>2, <4>3
    <3> QED BY <3>2, <3>3
  <2> QED BY <2>1, <2>2, <2>3 DEF Sided
<1>9. Accepted(M) BY <1>8 DEF Accepted
<1> QED BY <1>5, <1>6, <1>9

-----------------------------------------------------------------------------
(* What the steps do to a transcript keeps its windows.                     *)

Shifted(X, Y, c, p, q) == \A k \in p + 1 .. q : Y[c + k] = X[k]

LEMMA AnswersShift ==
    ASSUME NEW X, NEW Y, NEW c \in Nat, NEW p \in Nat, NEW q \in Nat, Shifted(X, Y, c, p, q)
    PROVE  Answers(Y, c + p, c + q) = Answers(X, p, q)
<1>1. \A k \in p + 1 .. q : c + k \in (c + p) + 1 .. c + q OBVIOUS
<1>2. \A k \in (c + p) + 1 .. c + q : k - c \in p + 1 .. q /\ c + (k - c) = k OBVIOUS
<1> QED BY <1>1, <1>2 DEF Answers, Shifted

LEMMA OpenShift ==
    ASSUME NEW X, NEW Y, NEW c \in Nat, NEW p \in Nat, NEW q \in Nat, Shifted(X, Y, c, p, q),
           Y[c + p] = X[p]
    PROVE  Open(Y, c + p, c + q) <=> Open(X, p, q)
<1>1. \A k \in p + 1 .. q : c + k \in (c + p) + 1 .. c + q OBVIOUS
<1>2. \A k \in (c + p) + 1 .. c + q : k - c \in p + 1 .. q /\ c + (k - c) = k OBVIOUS
<1> QED BY <1>1, <1>2 DEF Open, Shifted

\* Entries of the user ahead of it.
LEMMA WindowsAfter ==
    ASSUME NEW A \in Seq(Messages), NEW B \in Seq(Messages),
           \A i \in 1 .. Len(A) : Sided(A[i]) /\ A[i].role = "user",
           Windows(B), AnsweredBy(B, Len(B))
    PROVE  Windows(A \o B) /\ AnsweredBy(A \o B, Len(A \o B))
<1>0. PICK X : X = A \o B OBVIOUS
<1>1. PICK c \in Nat, N \in Nat : c = Len(A) /\ N = Len(B) OBVIOUS
<1>2. /\ X \in Seq(Messages) /\ Len(X) = c + N
      /\ \A i \in 1 .. c + N : X[i] = IF i <= c THEN A[i] ELSE B[i - c]
  BY <1>0, <1>1, ConcatProperties
<1>3. \A i \in 1 .. c :
        X[i] = A[i] /\ Sided(X[i]) /\ X[i].role # "tool" /\ Uses(X[i]) = {}
  <2>1. TAKE i \in 1 .. c
  <2>2. X[i] = A[i] BY <1>2
  <2>3. Sided(X[i]) /\ X[i].role = "user" BY <1>1, <2>2
  <2> QED BY <2>2, <2>3 DEF Sided
<1>4. \A k \in 1 .. N : X[c + k] = B[k]
  <2>1. TAKE k \in 1 .. N
  <2>2. c + k \in 1 .. c + N /\ ~ (c + k <= c) /\ (c + k) - c = k OBVIOUS
  <2> QED BY <1>2, <2>2
<1>5. ASSUME NEW q \in 0 .. N, AnsweredBy(B, q) PROVE AnsweredBy(X, c + q)
  <2>1. SUFFICES ASSUME NEW p \in 1 .. c + q, Open(X, p, c + q)
                 PROVE  Uses(X[p]) \subseteq Answers(X, p, c + q)
    BY DEF AnsweredBy
  <2>2. ~ (p <= c)
    <3>1. p <= c => p \in 1 .. c OBVIOUS
    <3> QED BY <1>3, <2>1, <3>1 DEF Open
  <2>3. PICK r \in 1 .. q : p = c + r
    <3>1. p - c \in 1 .. q /\ p = c + (p - c) BY <2>2
    <3> QED BY <3>1
  <2>4. Shifted(B, X, c, r, q) /\ r \in Nat /\ q \in Nat /\ c \in Nat
    BY <1>1, <1>4 DEF Shifted
  <2>5. Answers(X, c + r, c + q) = Answers(B, r, q) BY <2>4, AnswersShift
  <2>6. X[c + r] = B[r] BY <1>4
  <2>7. Open(X, c + r, c + q) <=> Open(B, r, q) BY <1>1, <2>4, <2>6, OpenShift
  <2> QED BY <1>5, <2>1, <2>3, <2>5, <2>6, <2>7 DEF AnsweredBy
<1>6. ASSUME NEW j \in 1 .. c + N
      PROVE  /\ Sided(X[j])
             /\ X[j].role = "tool" => Placed(X, j)
             /\ X[j].role # "tool" => AnsweredBy(X, j - 1)
  <2>1. CASE j <= c
    <3>1. j \in 1 .. c BY <2>1
    <3>2. ASSUME NEW p \in 1 .. j - 1 PROVE ~ Open(X, p, j - 1)
      <4>1. p \in 1 .. c BY <1>1, <3>1
      <4>2. Uses(X[p]) = {} BY <1>3, <4>1
      <4> QED BY <4>2 DEF Open
    <3>3. AnsweredBy(X, j - 1) BY <3>2 DEF AnsweredBy
    <3> QED BY <1>3, <3>1, <3>3
  <2>2. CASE ~ (j <= c)
    <3>1. PICK k \in 1 .. N : j = c + k
      <4>1. j - c \in 1 .. N /\ j = c + (j - c) BY <2>2
      <4> QED BY <4>1
    <3>2. X[j] = B[k] /\ k \in DOMAIN B BY <1>1, <1>4, <3>1
    <3>3. Sided(X[j]) BY <3>2 DEF Windows
    <3>4. ASSUME X[j].role = "tool" PROVE Placed(X, j)
      <4>1. Placed(B, k) BY <3>2, <3>4 DEF Windows
      <4>2. ASSUME NEW p \in 1 .. k - 1, Open(B, p, k), Results(B[k]) \subseteq Uses(B[p])
            PROVE  Placed(X, j)
        <5>1. c + p \in 1 .. j - 1 /\ p \in 1 .. N BY <3>1
        <5>2. X[c + p] = B[p] /\ Shifted(B, X, c, p, k) BY <1>4, <5>1 DEF Shifted
        <5>4. p \in Nat /\ k \in Nat OBVIOUS
        <5>3. Open(X, c + p, c + k) BY <1>1, <4>2, <5>2, <5>4, OpenShift
        <5> QED BY <3>1, <3>2, <4>2, <5>1, <5>2, <5>3 DEF Placed
      <4>3. ASSUME \A p \in 1 .. k - 1 : Uses(B[p]) = {} PROVE Placed(X, j)
        <5>1. ASSUME NEW p \in 1 .. j - 1 PROVE Uses(X[p]) = {}
          <6>1. CASE p <= c
            <7>1. p \in 1 .. c BY <6>1
            <7> QED BY <1>3, <7>1
          <6>2. CASE ~ (p <= c)
            <7>1. p - c \in 1 .. k - 1 /\ p - c \in 1 .. N /\ c + (p - c) = p BY <3>1, <6>2
            <7> QED BY <1>4, <4>3, <7>1
          <6> QED BY <6>1, <6>2
        <5> QED BY <5>1 DEF Placed
      <4> QED BY <4>1, <4>2, <4>3 DEF Placed
    <3>5. ASSUME X[j].role # "tool" PROVE AnsweredBy(X, j - 1)
      <4>1. AnsweredBy(B, k - 1) BY <3>2, <3>5 DEF Windows
      <4>2. k - 1 \in 0 .. N /\ c + (k - 1) = j - 1 BY <3>1
      <4>3. AnsweredBy(X, c + (k - 1)) BY <1>5, <4>1, <4>2
      <4> QED BY <4>2, <4>3
    <3> QED BY <3>3, <3>4, <3>5
  <2> QED BY <2>1, <2>2
<1>7. Windows(X)
  <2>1. DOMAIN X = 1 .. c + N BY <1>2
  <2> QED BY <1>6, <2>1 DEF Windows
<1>8. AnsweredBy(X, Len(X))
  <2>1. N \in 0 .. N OBVIOUS
  <2> QED BY <1>1, <1>2, <1>5, <2>1
<1> QED BY <1>0, <1>7, <1>8

\* What comes after a place no result is at.
LEMMA WindowsFrom ==
    ASSUME NEW X \in Seq(Messages), Windows(X), AnsweredBy(X, Len(X)),
           NEW n \in 0 .. Len(X), n = Len(X) \/ X[n + 1].role # "tool"
    PROVE  LET S == SubSeq(X, n + 1, Len(X)) IN
           S \in Seq(Messages) /\ Windows(S) /\ AnsweredBy(S, Len(S))
<1>1. PICK N \in Nat : N = Len(X) OBVIOUS
<1>0. PICK S : S = SubSeq(X, n + 1, N) OBVIOUS
<1>2. /\ S \in Seq(Messages) /\ Len(S) = N - n
      /\ \A k \in 1 .. N - n : S[k] = X[n + k]
  <2>1. \A i \in n + 1 .. N : X[i] \in Messages BY <1>1
  <2>2. /\ SubSeq(X, n + 1, N) \in Seq(Messages)
        /\ Len(SubSeq(X, n + 1, N)) = IF n + 1 <= N THEN N - (n + 1) + 1 ELSE 0
        /\ \A i \in 1 .. N - (n + 1) + 1 : SubSeq(X, n + 1, N)[i] = X[(n + 1) + i - 1]
    <3>1. n + 1 \in Int /\ N \in Int OBVIOUS
    <3> QED BY <2>1, <3>1, SubSeqProperties
  <2>3. n <= N BY <1>1
  <2>4. \A k \in 1 .. N - n : (n + 1) + k - 1 = n + k /\ k \in 1 .. N - (n + 1) + 1 OBVIOUS
  <2> QED BY <1>0, <1>1, <2>2, <2>3, <2>4
<1>3. ASSUME NEW q \in 0 .. N - n, AnsweredBy(X, n + q) PROVE AnsweredBy(S, q)
  <2>1. SUFFICES ASSUME NEW p \in 1 .. q, Open(S, p, q)
                 PROVE  Uses(S[p]) \subseteq Answers(S, p, q)
    BY DEF AnsweredBy
  <2>2. S[p] = X[n + p] /\ Shifted(S, X, n, p, q) BY <1>2 DEF Shifted
  <2>6. n \in Nat /\ p \in Nat /\ q \in Nat OBVIOUS
  <2>3. Answers(X, n + p, n + q) = Answers(S, p, q) BY <2>2, <2>6, AnswersShift
  <2>4. Open(X, n + p, n + q) <=> Open(S, p, q) BY <2>2, <2>6, OpenShift
  <2>5. n + p \in 1 .. n + q OBVIOUS
  <2> QED BY <1>3, <2>1, <2>2, <2>3, <2>4, <2>5 DEF AnsweredBy
<1>4. ASSUME NEW j \in 1 .. N - n
      PROVE  /\ Sided(S[j])
             /\ S[j].role = "tool" => Placed(S, j)
             /\ S[j].role # "tool" => AnsweredBy(S, j - 1)
  <2>1. S[j] = X[n + j] /\ n + j \in DOMAIN X BY <1>1, <1>2
  <2>2. Sided(S[j]) BY <2>1 DEF Windows
  <2>3. ASSUME S[j].role = "tool" PROVE Placed(S, j)
    <3>1. Placed(X, n + j) BY <2>1, <2>3 DEF Windows
    <3>2. PICK m \in Nat : m = n + j OBVIOUS
    <3>3. ASSUME NEW p \in 1 .. m - 1, Open(X, p, m), Results(X[m]) \subseteq Uses(X[p])
          PROVE  Placed(S, j)
      <4>1. ~ (p <= n)
        <5>1. p <= n => n + 1 \in p + 1 .. m BY <3>2
        <5>2. n + 1 \in p + 1 .. m => X[n + 1].role = "tool" BY <3>3 DEF Open
        <5>3. n # N BY <1>1
        <5> QED BY <1>1, <5>1, <5>2, <5>3
      <4>2. PICK r \in 1 .. j - 1 : p = n + r
        <5>1. p - n \in 1 .. j - 1 /\ p = n + (p - n) BY <3>2, <4>1
        <5> QED BY <5>1
      <4>3. S[r] = X[n + r] /\ Shifted(S, X, n, r, j) BY <1>2 DEF Shifted
      <4>4. n \in Nat /\ r \in Nat /\ j \in Nat OBVIOUS
      <4>5. Open(X, n + r, n + j) BY <3>2, <3>3, <4>2
      <4>6. Open(S, r, j) BY <4>3, <4>4, <4>5, OpenShift
      <4> QED BY <2>1, <3>2, <3>3, <4>2, <4>3, <4>6 DEF Placed
    <3>4. ASSUME \A p \in 1 .. m - 1 : Uses(X[p]) = {} PROVE Placed(S, j)
      <4>1. \A p \in 1 .. j - 1 : n + p \in 1 .. m - 1 /\ S[p] = X[n + p] BY <1>2, <3>2
      <4> QED BY <3>4, <4>1 DEF Placed
    <3>5. Placed(X, m) BY <3>1, <3>2
    <3> QED BY <3>3, <3>4, <3>5 DEF Placed
  <2>4. ASSUME S[j].role # "tool" PROVE AnsweredBy(S, j - 1)
    <3>1. AnsweredBy(X, (n + j) - 1) BY <2>1, <2>4 DEF Windows
    <3>2. j - 1 \in 0 .. N - n /\ (n + j) - 1 = n + (j - 1) BY <1>1
    <3> QED BY <1>3, <3>1, <3>2
  <2> QED BY <2>2, <2>3, <2>4
<1>5. Windows(S)
  <2>1. DOMAIN S = 1 .. N - n BY <1>2
  <2> QED BY <1>4, <2>1 DEF Windows
<1>6. AnsweredBy(S, Len(S))
  <2>1. N - n \in 0 .. N - n /\ n + (N - n) = N BY <1>1
  <2> QED BY <1>1, <1>2, <1>3, <2>1
<1> QED BY <1>0, <1>1, <1>2, <1>5, <1>6

Agree(X, Y, q) == \A k \in 1 .. q : Y[k] = X[k]

LEMMA LikeBefore ==
    ASSUME NEW X, NEW Y, NEW q \in Nat, Agree(X, Y, q)
    PROVE  /\ AnsweredBy(X, q) => AnsweredBy(Y, q)
           /\ q > 0 /\ Placed(X, q) => Placed(Y, q)
<1>1. ASSUME NEW p \in 1 .. q
      PROVE  (Open(Y, p, q) <=> Open(X, p, q)) /\ Answers(Y, p, q) = Answers(X, p, q)
             /\ Uses(Y[p]) = Uses(X[p])
  <2>1. Y[p] = X[p] /\ \A k \in p + 1 .. q : Y[k] = X[k]
    <3>1. \A k \in p + 1 .. q : k \in 1 .. q OBVIOUS
    <3> QED BY <3>1 DEF Agree
  <2> QED BY <2>1 DEF Open, Answers
<1>2. AnsweredBy(X, q) => AnsweredBy(Y, q) BY <1>1 DEF AnsweredBy
<1>3. ASSUME q > 0, Placed(X, q) PROVE Placed(Y, q)
  <2>1. Y[q] = X[q] BY <1>3 DEF Agree
  <2>2. \A p \in 1 .. q - 1 : p \in 1 .. q OBVIOUS
  <2> QED BY <1>1, <1>3, <2>1, <2>2 DEF Placed
<1> QED BY <1>2, <1>3

\* The beginning of it, and one entry more.
LEMMA WindowsBefore ==
    ASSUME NEW X \in Seq(Messages), Windows(X), NEW n \in 0 .. Len(X)
    PROVE  LET S == SubSeq(X, 1, n) IN
           /\ S \in Seq(Messages) /\ Len(S) = n /\ Windows(S)
           /\ \A k \in 1 .. n : S[k] = X[k]
           /\ \A q \in 0 .. n : AnsweredBy(X, q) => AnsweredBy(S, q)
<1>1. PICK S : S = SubSeq(X, 1, n) OBVIOUS
<1>2. S \in Seq(Messages) /\ Len(S) = n /\ \A k \in 1 .. n : S[k] = X[k]
  <2>1. \A i \in 1 .. n : X[i] \in Messages OBVIOUS
  <2>2. /\ SubSeq(X, 1, n) \in Seq(Messages)
        /\ Len(SubSeq(X, 1, n)) = IF 1 <= n THEN n - 1 + 1 ELSE 0
        /\ \A i \in 1 .. n - 1 + 1 : SubSeq(X, 1, n)[i] = X[1 + i - 1]
    <3>1. 1 \in Int /\ n \in Int OBVIOUS
    <3> QED BY <2>1, <3>1, SubSeqProperties
  <2>3. \A k \in 1 .. n : 1 + k - 1 = k /\ k \in 1 .. n - 1 + 1 OBVIOUS
  <2> QED BY <1>1, <2>2, <2>3
<1>3. ASSUME NEW q \in 0 .. n, AnsweredBy(X, q) PROVE AnsweredBy(S, q)
  <2>1. Agree(X, S, q) BY <1>2 DEF Agree
  <2> QED BY <1>3, <2>1, LikeBefore
<1>4. ASSUME NEW j \in 1 .. n
      PROVE  /\ Sided(S[j])
             /\ S[j].role = "tool" => Placed(S, j)
             /\ S[j].role # "tool" => AnsweredBy(S, j - 1)
  <2>1. S[j] = X[j] /\ j \in DOMAIN X BY <1>2
  <2>2. Agree(X, S, j) /\ j \in Nat /\ j > 0 BY <1>2 DEF Agree
  <2>3. Placed(X, j) => Placed(S, j) BY <2>2, LikeBefore
  <2>4. AnsweredBy(X, j - 1) => AnsweredBy(S, j - 1)
    <3>1. j - 1 \in 0 .. n OBVIOUS
    <3> QED BY <1>3, <3>1
  <2> QED BY <2>1, <2>3, <2>4 DEF Windows
<1>5. Windows(S)
  <2>1. DOMAIN S = 1 .. n BY <1>2
  <2> QED BY <1>4, <2>1 DEF Windows
<1> QED BY <1>1, <1>2, <1>3, <1>5

LEMMA WindowsGrow ==
    ASSUME NEW X \in Seq(Messages), Windows(X), NEW e \in Messages, Sided(e),
           e.role # "tool" => AnsweredBy(X, Len(X)),
           e.role = "tool" =>
             \E p \in 1 .. Len(X) : Open(X, p, Len(X)) /\ Results(e) \subseteq Uses(X[p])
    PROVE  LET Y == Append(X, e) IN
           /\ Y \in Seq(Messages) /\ Len(Y) = Len(X) + 1 /\ Y[Len(X) + 1] = e
           /\ \A k \in 1 .. Len(X) : Y[k] = X[k]
           /\ Windows(Y)
           /\ Uses(e) = {} /\ e.role # "tool" => AnsweredBy(Y, Len(Y))
<1>1. PICK N \in Nat : N = Len(X) OBVIOUS
<1>2. PICK Y : Y = Append(X, e) OBVIOUS
<1>3. /\ Y \in Seq(Messages) /\ Len(Y) = N + 1 /\ Y[N + 1] = e
      /\ \A k \in 1 .. N : Y[k] = X[k]
  BY <1>1, <1>2, AppendProperties
<1>4. ASSUME NEW j \in 1 .. N
      PROVE  /\ Sided(Y[j])
             /\ Y[j].role = "tool" => Placed(Y, j)
             /\ Y[j].role # "tool" => AnsweredBy(Y, j - 1)
  <2>1. Y[j] = X[j] /\ j \in DOMAIN X BY <1>1, <1>3
  <2>2. Agree(X, Y, j) /\ j \in Nat /\ j > 0 BY <1>3 DEF Agree
  <2>3. Placed(X, j) => Placed(Y, j) BY <2>2, LikeBefore
  <2>4. AnsweredBy(X, j - 1) => AnsweredBy(Y, j - 1)
    <3>1. Agree(X, Y, j - 1) /\ j - 1 \in Nat BY <1>3 DEF Agree
    <3> QED BY <3>1, LikeBefore
  <2> QED BY <2>1, <2>3, <2>4 DEF Windows
<1>5. e.role # "tool" => AnsweredBy(Y, N)
  <2>0. Agree(X, Y, N) BY <1>3 DEF Agree
  <2>1. AnsweredBy(X, N) => AnsweredBy(Y, N) BY <1>1, <2>0, LikeBefore
  <2> QED BY <1>1, <2>1
<1>6. ASSUME e.role = "tool" PROVE Placed(Y, N + 1)
  <2>1. PICK p \in 1 .. N : Open(X, p, N) /\ Results(e) \subseteq Uses(X[p]) BY <1>1, <1>6
  <2>2. Y[p] = X[p] /\ p \in 1 .. (N + 1) - 1 BY <1>3
  <2>3. \A k \in p + 1 .. N + 1 : k \in p + 1 .. N \/ k = N + 1 OBVIOUS
  <2>4. \A k \in p + 1 .. N : Y[k] = X[k] BY <1>3
  <2>5. Open(Y, p, N + 1) BY <1>3, <1>6, <2>1, <2>2, <2>3, <2>4 DEF Open
  <2> QED BY <1>3, <2>1, <2>2, <2>5 DEF Placed
<1>7. Windows(Y)
  <2>1. DOMAIN Y = 1 .. N + 1 BY <1>3
  <2>2. \A j \in 1 .. N + 1 : j \in 1 .. N \/ j = N + 1 OBVIOUS
  <2>3. (N + 1) - 1 = N OBVIOUS
  <2> QED BY <1>3, <1>4, <1>5, <1>6, <2>1, <2>2, <2>3 DEF Windows
<1>8. ASSUME Uses(e) = {}, e.role # "tool" PROVE AnsweredBy(Y, N + 1)
  <2>1. SUFFICES ASSUME NEW p \in 1 .. N + 1, Open(Y, p, N + 1) PROVE FALSE
    BY DEF AnsweredBy
  <2>2. p # N + 1 BY <1>3, <1>8, <2>1 DEF Open
  <2>3. N + 1 \in p + 1 .. N + 1 BY <2>2
  <2> QED BY <1>3, <1>8, <2>1, <2>3 DEF Open
<1> QED BY <1>1, <1>2, <1>3, <1>7, <1>8

-----------------------------------------------------------------------------
(* The request composed.                                                    *)

Loads == [file : Selectable, tokens : Int]

LEMMA SelectableAre ==
    ASSUME FilesAssumption
    PROVE  \E N \in Nat : Selectable = 1 .. N
BY FS_CardinalityType DEF FilesAssumption

LEMMA SortedTyped ==
    ASSUME FilesAssumption, NEW S
    PROVE  Sorted(S) \in Seq(Selectable)
<1>1. PICK N \in Nat : Selectable = 1 .. N BY SelectableAre
<1>2. PICK all : all = [f \in Selectable |-> f] OBVIOUS
<1>3. all \in Seq(Selectable)
  <2>1. all \in [1 .. N -> Selectable] BY <1>1, <1>2
  <2> QED BY <2>1
<1> QED BY <1>2, <1>3, OnlyKeeps DEF Sorted

LEMMA LoadedTyped ==
    ASSUME FilesAssumption, NEW fs \in Seq(Selectable)
    PROVE  LoadedAll(fs) \in Seq(Loads)
<1>1. \A i \in DOMAIN fs : Loaded(fs[i]) \in Loads
  <2>1. TAKE i \in DOMAIN fs
  <2>2. fs[i] \in Selectable OBVIOUS
  <2>3. Tokens[fs[i]] \in Nat BY <2>2 DEF FilesAssumption
  <2> QED BY <2>2, <2>3 DEF Loaded, Loads
<1>2. DOMAIN fs = 1 .. Len(fs) /\ Len(fs) \in Nat OBVIOUS
<1>3. LoadedAll(fs) \in [1 .. Len(fs) -> Loads] BY <1>1, <1>2 DEF LoadedAll
<1> QED BY <1>2, <1>3

\* Of the category: the files of it that are not pinned.
InCategory(c) == Sorted({f \in files \ Pinned : Category[f] = c})
IsBody(upto) ==
    upto = [c \in 0 .. Categories |-> IF c = 0 THEN <<>> ELSE upto[c - 1] \o InCategory(c)]

LEMMA BodyTyped ==
    ASSUME FilesAssumption
    PROVE  BodyFiles \in Seq(Loads)
<1>0. Categories \in Nat BY DEF FilesAssumption
<1> DEFINE apply == [a \in Seq(Selectable) \X (1 .. Categories) |-> a[1] \o InCategory(a[2])]
<1>1. \A u \in Seq(Selectable), c \in 1 .. Categories :
        apply[<<u, c>>] = u \o InCategory(c)
  OBVIOUS
<1>2. apply \in [Seq(Selectable) \X (1 .. Categories) -> Seq(Selectable)]
  <2>1. \A a \in Seq(Selectable) \X (1 .. Categories) :
          a[1] \o InCategory(a[2]) \in Seq(Selectable)
    <3>1. TAKE a \in Seq(Selectable) \X (1 .. Categories)
    <3>2. a[1] \in Seq(Selectable) OBVIOUS
    <3>3. InCategory(a[2]) \in Seq(Selectable) BY SortedTyped DEF InCategory
    <3> QED BY <3>2, <3>3, ConcatProperties
  <2> QED BY <2>1
<1> HIDE DEF apply
<1>3. <<>> \in Seq(Selectable) OBVIOUS
<1>4. PICK g \in [0 .. Categories -> Seq(Selectable)] : Computes(g, Categories, <<>>, apply)
  BY <1>0, <1>2, <1>3, Recursion
<1>5. \A c \in 0 .. Categories :
        g[c] = IF c = 0 THEN <<>> ELSE g[c - 1] \o InCategory(c)
  <2>1. TAKE c \in 0 .. Categories
  <2>2. c # 0 => c - 1 \in 0 .. Categories /\ c \in 1 .. Categories BY <1>0
  <2>3. c # 0 => g[c - 1] \in Seq(Selectable) BY <2>2
  <2> QED BY <1>1, <1>4, <2>2, <2>3 DEF Computes
<1>6. g = [c \in 0 .. Categories |-> g[c]] OBVIOUS
<1>7. IsBody(g) BY <1>5, <1>6 DEF IsBody
<1>8. PICK u : IsBody(u) /\ u = (CHOOSE v : IsBody(v)) BY <1>7
<1>9. BodyFiles = LoadedAll(u[Categories])
  <2>1. BodyFiles = LoadedAll((CHOOSE v : IsBody(v))[Categories])
    BY DEF BodyFiles, IsBody, InCategory
  <2> QED BY <1>8, <2>1
<1>10. PICK P : P = {n \in Nat : n <= Categories => u[n] \in Seq(Selectable)} OBVIOUS
<1>11. u[0] = <<>>
    /\ \A n \in Nat : n + 1 <= Categories => u[n + 1] = u[n] \o InCategory(n + 1)
  <2> DEFINE one == [c \in 0 .. Categories |->
                       IF c = 0 THEN <<>> ELSE u[c - 1] \o InCategory(c)]
  <2>1. u = one BY <1>8 DEF IsBody
  <2>2. one[0] = <<>> BY <1>0
  <2>3. ASSUME NEW n \in Nat, n + 1 <= Categories
        PROVE  one[n + 1] = u[n] \o InCategory(n + 1)
    <3>1. n + 1 \in 0 .. Categories /\ n + 1 # 0 /\ (n + 1) - 1 = n BY <1>0, <2>3
    <3>2. one[n + 1] = u[(n + 1) - 1] \o InCategory(n + 1) BY <3>1
    <3> QED BY <3>1, <3>2
  <2> HIDE DEF one
  <2> QED BY <2>1, <2>2, <2>3
<1>12. 0 \in P BY <1>3, <1>10, <1>11
<1>13. ASSUME NEW n \in Nat, n \in P PROVE n + 1 \in P
  <2>1. SUFFICES ASSUME n + 1 <= Categories PROVE u[n + 1] \in Seq(Selectable) BY <1>10
  <2>2. n <= Categories BY <1>0, <2>1
  <2>3. u[n] \in Seq(Selectable) BY <1>10, <1>13, <2>2
  <2>4. InCategory(n + 1) \in Seq(Selectable) BY SortedTyped DEF InCategory
  <2> QED BY <1>11, <2>1, <2>3, <2>4, ConcatProperties
<1>14. Categories \in P BY <1>0, <1>12, <1>13, CountingUp
<1>15. u[Categories] \in Seq(Selectable) BY <1>0, <1>10, <1>14
<1> QED BY <1>9, <1>15, LoadedTyped

IsTotal(upto, seq) ==
    upto = [n \in 0 .. Len(seq) |-> IF n = 0 THEN 0 ELSE upto[n - 1] + seq[n].tokens]

LEMMA TokensTyped ==
    ASSUME NEW seq \in Seq(Loads)
    PROVE  TokensIn(seq) \in Int /\ (Len(seq) = 0 => TokensIn(seq) = 0)
<1>0. Len(seq) \in Nat /\ \A n \in 1 .. Len(seq) : seq[n].tokens \in Int
  <2>1. \A n \in 1 .. Len(seq) : seq[n] \in Loads OBVIOUS
  <2> QED BY <2>1 DEF Loads
<1> DEFINE apply == [a \in Int \X (1 .. Len(seq)) |-> a[1] + seq[a[2]].tokens]
<1>1. \A u \in Int, n \in 1 .. Len(seq) : apply[<<u, n>>] = u + seq[n].tokens OBVIOUS
<1>2. apply \in [Int \X (1 .. Len(seq)) -> Int]
  <2>1. \A a \in Int \X (1 .. Len(seq)) : a[1] + seq[a[2]].tokens \in Int BY <1>0
  <2> QED BY <2>1
<1> HIDE DEF apply
<1>3. 0 \in Int OBVIOUS
<1>4. PICK g \in [0 .. Len(seq) -> Int] : Computes(g, Len(seq), 0, apply)
  BY <1>0, <1>2, <1>3, Recursion
<1>5. \A n \in 0 .. Len(seq) : g[n] = IF n = 0 THEN 0 ELSE g[n - 1] + seq[n].tokens
  <2>1. TAKE n \in 0 .. Len(seq)
  <2>2. n # 0 => n - 1 \in 0 .. Len(seq) /\ n \in 1 .. Len(seq) BY <1>0
  <2>3. n # 0 => g[n - 1] \in Int BY <2>2
  <2> QED BY <1>1, <1>4, <2>2, <2>3 DEF Computes
<1>6. g = [n \in 0 .. Len(seq) |-> g[n]] OBVIOUS
<1>7. IsTotal(g, seq) BY <1>5, <1>6 DEF IsTotal
<1>8. PICK u : IsTotal(u, seq) /\ TokensIn(seq) = u[Len(seq)]
  <2>1. TokensIn(seq) = (CHOOSE v : IsTotal(v, seq))[Len(seq)] BY DEF TokensIn, IsTotal
  <2> QED BY <1>7, <2>1
<1>9. PICK P : P = {n \in Nat : n <= Len(seq) => u[n] \in Int} OBVIOUS
<1>10. u[0] = 0 /\ \A n \in Nat : n + 1 <= Len(seq) => u[n + 1] = u[n] + seq[n + 1].tokens
  <2> DEFINE one == [n \in 0 .. Len(seq) |-> IF n = 0 THEN 0 ELSE u[n - 1] + seq[n].tokens]
  <2>1. u = one BY <1>8 DEF IsTotal
  <2>2. one[0] = 0 BY <1>0
  <2>3. ASSUME NEW n \in Nat, n + 1 <= Len(seq)
        PROVE  one[n + 1] = u[n] + seq[n + 1].tokens
    <3>1. n + 1 \in 0 .. Len(seq) /\ n + 1 # 0 /\ (n + 1) - 1 = n BY <1>0, <2>3
    <3>2. one[n + 1] = u[(n + 1) - 1] + seq[n + 1].tokens BY <3>1
    <3> QED BY <3>1, <3>2
  <2> HIDE DEF one
  <2> QED BY <2>1, <2>2, <2>3
<1>11. 0 \in P BY <1>9, <1>10
<1>12. ASSUME NEW n \in Nat, n \in P PROVE n + 1 \in P
  <2>1. SUFFICES ASSUME n + 1 <= Len(seq) PROVE u[n + 1] \in Int BY <1>9
  <2>2. n <= Len(seq) /\ n + 1 \in 1 .. Len(seq) BY <1>0, <2>1
  <2>3. u[n] \in Int BY <1>9, <1>12, <2>2
  <2> QED BY <1>0, <1>10, <2>1, <2>2, <2>3
<1>13. Len(seq) \in P BY <1>0, <1>11, <1>12, CountingUp
<1> QED BY <1>0, <1>8, <1>9, <1>10, <1>13

LEMMA CutShortTyped ==
    ASSUME NEW body \in Seq(Loads), NEW allowance \in Nat, NEW truncate
    PROVE  CutShort(body, allowance, truncate) \in Seq(Loads)
<1>1. PICK N \in Nat : N = Len(body) OBVIOUS
<1>2. PICK fits : fits = {n \in 0 .. N : TokensIn(SubSeq(body, 1, n)) <= allowance} OBVIOUS
<1>3. \A n \in 0 .. N : SubSeq(body, 1, n) \in Seq(Loads)
  <2>1. TAKE n \in 0 .. N
  <2>2. \A i \in 1 .. n : body[i] \in Loads BY <1>1
  <2>3. 1 \in Int /\ n \in Int OBVIOUS
  <2> QED BY <2>2, <2>3, SubSeqProperties
<1>4. 0 \in fits
  <2>1. 0 \in 0 .. N OBVIOUS
  <2>2. SubSeq(body, 1, 0) = <<>> BY SubSeqEmpty
  <2>3. PICK nil : nil = SubSeq(body, 1, 0) /\ nil \in Seq(Loads) /\ Len(nil) = 0
    BY <2>2, EmptySeq
  <2>4. TokensIn(nil) = 0 BY <2>3, TokensTyped
  <2> QED BY <1>2, <2>1, <2>3, <2>4
<1>5. \E n \in fits : \A m \in fits : m <= n
  <2>1. PICK gaps : gaps = {N - n : n \in fits} OBVIOUS
  <2>2. gaps \in SUBSET Nat /\ gaps # {} BY <1>2, <1>4, <2>1
  <2>3. PICK g \in gaps : \A h \in gaps : g <= h BY <2>2, LeastNumber
  <2>4. PICK n \in fits : g = N - n BY <2>1
  <2>5. \A m \in fits : N - n <= N - m BY <2>1, <2>3, <2>4
  <2>6. \A m \in fits : m \in Nat BY <1>2
  <2>7. \A m \in fits : m <= n BY <2>5, <2>6
  <2> QED BY <2>7
<1>6. PICK n : n = (CHOOSE x \in fits : \A m \in fits : m <= x) OBVIOUS
<1>7. n \in fits BY <1>5, <1>6
<1>8. n \in 0 .. N BY <1>2, <1>7
<1>9. PICK room : room = allowance - TokensIn(SubSeq(body, 1, n)) OBVIOUS
<1>10. room \in Int
  <2>1. TokensIn(SubSeq(body, 1, n)) \in Int BY <1>3, <1>8, TokensTyped
  <2> QED BY <1>9, <2>1
<1>11. PICK rest : rest = IF truncate /\ n < N /\ room > 0
                          THEN <<[body[n + 1] EXCEPT !.tokens = room]>> ELSE <<>>
  OBVIOUS
<1>12. rest \in Seq(Loads)
  <2>1. n < N => [body[n + 1] EXCEPT !.tokens = room] \in Loads
    <3>1. n < N => n + 1 \in 1 .. N BY <1>8
    <3>2. n < N => body[n + 1] \in Loads BY <1>1, <3>1
    <3> QED BY <1>10, <3>2 DEF Loads
  <2> QED BY <1>11, <2>1
<1>13. CutShort(body, allowance, truncate) = SubSeq(body, 1, n) \o rest
  BY <1>1, <1>2, <1>6, <1>9, <1>11 DEF CutShort
<1> QED BY <1>3, <1>8, <1>12, <1>13, ConcatProperties

LEMMA ContextTyped ==
    ASSUME FilesAssumption, overflow \in Overflows
    PROVE  Context \in Seq(Loads)
<1>1. HeadFiles \in Seq(Loads) BY SortedTyped, LoadedTyped DEF HeadFiles
<1>2. PICK body \in Seq(Loads) : body = BodyFiles BY BodyTyped
<1>3. PICK allowance \in Nat : allowance = Allowance
  <2>1. TokensIn(HeadFiles) \in Int BY <1>1, TokensTyped
  <2>2. Budget \in Nat BY DEF FilesAssumption
  <2>3. Allowance \in Nat BY <2>1, <2>2 DEF Allowance
  <2> QED BY <2>3
<1>4. Fit(body, allowance) \in Seq(Loads)
  <2>1. overflow \in {"drop_oldest_summaries", "truncate", "drop"} BY DEF FilesAssumption
  <2>2. CASE TokensIn(body) <= allowance BY <2>2 DEF Fit
  <2>3. CASE ~ (TokensIn(body) <= allowance)
    <3>1. CASE overflow = "drop_oldest_summaries"
      <4>1. \A S : Only(body, S) \in Seq(Loads) BY OnlyKeeps
      <4>2. DropOldest(body, allowance) \in Seq(Loads) BY <4>1 DEF DropOldest
      <4> QED BY <2>3, <3>1, <4>2 DEF Fit
    <3>2. CASE overflow = "truncate" BY <2>3, <3>2, CutShortTyped DEF Fit
    <3>3. CASE overflow = "drop" BY <2>3, <3>3, CutShortTyped DEF Fit
    <3> QED BY <2>1, <3>1, <3>2, <3>3
  <2> QED BY <2>2, <2>3
<1> QED BY <1>1, <1>2, <1>3, <1>4, ConcatProperties DEF Context

\* An entry of one block.
LEMMA OneBlock ==
    ASSUME NEW b \in Blocks, NEW r \in {"user", "assistant", "tool"}
    PROVE  LET e == Entry(r, <<b>>) IN
           /\ e \in Messages /\ e.role = r /\ e.content # <<>> /\ Range(e.content) = {b}
           /\ Uses(e) = (IF b.is = "use" THEN {b.id} ELSE {})
           /\ Results(e) = (IF b.is = "result" THEN {b.id} ELSE {})
<1>1. PICK e : e = Entry(r, <<b>>) OBVIOUS
<1>2. e.role = r /\ e.content = <<b>> BY <1>1 DEF Entry
<1>3. e \in Messages BY <1>1 DEF Entry, Messages
<1>4. Range(e.content) = {b}
  <2>1. DOMAIN <<b>> = {1} /\ <<b>>[1] = b OBVIOUS
  <2> QED BY <1>2, <2>1 DEF Range
<1>5. Uses(e) = IF b.is = "use" THEN {b.id} ELSE {} BY <1>4 DEF Uses
<1>6. Results(e) = IF b.is = "result" THEN {b.id} ELSE {} BY <1>4 DEF Results
<1>7. e.content # <<>> BY <1>2
<1> QED BY <1>1, <1>2, <1>3, <1>4, <1>5, <1>6, <1>7

LEMMA BlocksAre ==
    /\ Said \in Blocks /\ Said.is = "text"
    /\ \A id \in Nat : Block("result", id, "") \in Blocks /\ Block("result", id, "").id = id
                       /\ Block("result", id, "").is = "result"
    /\ \A id \in Nat : [is |-> "file", id |-> id, tool |-> ""] \in Blocks
BY DEF Said, Block, Blocks

LEMMA SaidIs ==
    ASSUME NEW r \in {"user", "assistant"}
    PROVE  /\ Entry(r, <<Said>>) \in Messages /\ Sided(Entry(r, <<Said>>))
           /\ Entry(r, <<Said>>).role = r /\ Uses(Entry(r, <<Said>>)) = {}
<1>1. Said \in Blocks /\ Said.is = "text" BY BlocksAre
<1>2. PICK e : e = Entry(r, <<Said>>) OBVIOUS
<1>3. e \in Messages /\ e.role = r /\ e.content # <<>> BY <1>1, <1>2, OneBlock
<1>4. Uses(e) = {} /\ Results(e) = {} BY <1>1, <1>2, OneBlock
<1>5. Sided(e) BY <1>3, <1>4 DEF Sided
<1> QED BY <1>2, <1>3, <1>4, <1>5

LEMMA FramedIs ==
    ASSUME FilesAssumption, NEW e \in Loads
    PROVE  Framed(e) \in Messages /\ Sided(Framed(e)) /\ Framed(e).role = "user"
<1>1. PICK b : b = [is |-> "file", id |-> e.file, tool |-> ""] OBVIOUS
<1>2. b \in Blocks /\ b.is = "file"
  <2>1. e.file \in Nat BY SelectableAre DEF Loads
  <2> QED BY <1>1, <2>1, BlocksAre
<1>3. PICK m : m = Framed(e) OBVIOUS
<1>4. m = Entry("user", <<b>>) BY <1>1, <1>3 DEF Framed
<1>5. m \in Messages /\ m.role = "user" /\ m.content # <<>> BY <1>2, <1>4, OneBlock
<1>6. Uses(m) = {} /\ Results(m) = {} BY <1>2, <1>4, OneBlock
<1>7. Sided(m) BY <1>5, <1>6 DEF Sided
<1> QED BY <1>3, <1>5, <1>7

LEMMA AssembleIsAccepted ==
    ASSUME FilesAssumption, overflow \in Overflows,
           entries \in Seq(Messages), Windows(entries), AnsweredBy(entries, Len(entries))
    PROVE  Assemble \in Seq(Messages) /\ Accepted(Assemble)
<1>1. PICK context \in Seq(Loads) : context = Context BY ContextTyped
<1>2. PICK frames : frames = [i \in DOMAIN context |-> Framed(context[i])] OBVIOUS
<1>3. DOMAIN context = 1 .. Len(context) /\ Len(context) \in Nat BY <1>1
<1>4. \A i \in 1 .. Len(context) : frames[i] = Framed(context[i]) /\ context[i] \in Loads
  BY <1>1, <1>2, <1>3
<1>5. frames \in Seq(Messages) /\ Len(frames) = Len(context)
  <2>1. frames \in [1 .. Len(context) -> Messages] BY <1>2, <1>3, <1>4, FramedIs
  <2> QED BY <1>3, <2>1
<1>6. \A i \in 1 .. Len(frames) : Sided(frames[i]) /\ frames[i].role = "user"
  BY <1>4, <1>5, FramedIs
<1>7. PICK X : X = frames \o entries OBVIOUS
<1>8. X \in Seq(Messages) /\ Windows(X) /\ AnsweredBy(X, Len(X))
  BY <1>5, <1>6, <1>7, WindowsAfter, ConcatProperties
<1>9. Grouped(X) \in Seq(Messages) /\ Neat(Grouped(X)) BY <1>8, GroupedIsNeat
<1>10. DropOrphans(Grouped(X)) \in Seq(Messages) /\ Accepted(DropOrphans(Grouped(X)))
  BY <1>9, DropOrphansIsAccepted
<1>11. Assemble = DropOrphans(Grouped(X)) BY <1>1, <1>2, <1>7 DEF Assemble
<1> QED BY <1>10, <1>11

-----------------------------------------------------------------------------
(* The tools declared.                                                      *)

NamesUsed == Range(ToolNames) \cup {""}

IsContents(upto, list) ==
    upto = [n \in 0 .. Len(list) |->
              IF n = 0 THEN <<>> ELSE upto[n - 1] \o list[n].content]

LEMMA ContentsAre ==
    ASSUME NEW list \in Seq(Messages)
    PROVE  /\ Contents(list) \in Seq(Blocks)
           /\ \A i \in 1 .. Len(list) :
                Range(list[i].content) \subseteq Range(Contents(list))
<1>0. Len(list) \in Nat /\ \A n \in 1 .. Len(list) : list[n].content \in Seq(Blocks)
  <2>1. \A n \in 1 .. Len(list) : list[n] \in Messages OBVIOUS
  <2> QED BY <2>1 DEF Messages
<1> DEFINE apply == [a \in Seq(Blocks) \X (1 .. Len(list)) |-> a[1] \o list[a[2]].content]
<1>1. \A u \in Seq(Blocks), n \in 1 .. Len(list) :
        apply[<<u, n>>] = u \o list[n].content
  OBVIOUS
<1>2. apply \in [Seq(Blocks) \X (1 .. Len(list)) -> Seq(Blocks)]
  <2>1. \A a \in Seq(Blocks) \X (1 .. Len(list)) :
          a[1] \o list[a[2]].content \in Seq(Blocks)
    <3>1. TAKE a \in Seq(Blocks) \X (1 .. Len(list))
    <3>2. a[1] \in Seq(Blocks) /\ list[a[2]].content \in Seq(Blocks) BY <1>0
    <3> QED BY <3>2, ConcatProperties
  <2> QED BY <2>1
<1> HIDE DEF apply
<1>3. <<>> \in Seq(Blocks) OBVIOUS
<1>4. PICK g \in [0 .. Len(list) -> Seq(Blocks)] : Computes(g, Len(list), <<>>, apply)
  BY <1>0, <1>2, <1>3, Recursion
<1>5. \A n \in 0 .. Len(list) :
        g[n] = IF n = 0 THEN <<>> ELSE g[n - 1] \o list[n].content
  <2>1. TAKE n \in 0 .. Len(list)
  <2>2. n # 0 => n - 1 \in 0 .. Len(list) /\ n \in 1 .. Len(list) BY <1>0
  <2>3. n # 0 => g[n - 1] \in Seq(Blocks) BY <2>2
  <2> QED BY <1>1, <1>4, <2>2, <2>3 DEF Computes
<1>6. g = [n \in 0 .. Len(list) |-> g[n]] OBVIOUS
<1>7. IsContents(g, list) BY <1>5, <1>6 DEF IsContents
<1>8. PICK u : IsContents(u, list) /\ Contents(list) = u[Len(list)]
  <2>1. Contents(list) = (CHOOSE v : IsContents(v, list))[Len(list)]
    BY DEF Contents, IsContents
  <2> QED BY <1>7, <2>1
<1>9. u[0] = <<>>
    /\ \A n \in Nat : n + 1 <= Len(list) => u[n + 1] = u[n] \o list[n + 1].content
  <2> DEFINE one == [n \in 0 .. Len(list) |->
                       IF n = 0 THEN <<>> ELSE u[n - 1] \o list[n].content]
  <2>1. u = one BY <1>8 DEF IsContents
  <2>2. one[0] = <<>> BY <1>0
  <2>3. ASSUME NEW n \in Nat, n + 1 <= Len(list)
        PROVE  one[n + 1] = u[n] \o list[n + 1].content
    <3>1. n + 1 \in 0 .. Len(list) /\ n + 1 # 0 /\ (n + 1) - 1 = n BY <1>0, <2>3
    <3>2. one[n + 1] = u[(n + 1) - 1] \o list[n + 1].content BY <3>1
    <3> QED BY <3>1, <3>2
  <2> HIDE DEF one
  <2> QED BY <2>1, <2>2, <2>3
<1>10. PICK P : P = {n \in Nat : n <= Len(list) =>
                        /\ u[n] \in Seq(Blocks)
                        /\ \A i \in 1 .. n : Range(list[i].content) \subseteq Range(u[n])}
  OBVIOUS
<1>11. 0 \in P
  <2>1. \A i \in 1 .. 0 : FALSE OBVIOUS
  <2> QED BY <1>3, <1>9, <1>10, <2>1
<1>12. ASSUME NEW n \in Nat, n \in P PROVE n + 1 \in P
  <2>1. SUFFICES ASSUME n + 1 <= Len(list)
                 PROVE  /\ u[n + 1] \in Seq(Blocks)
                        /\ \A i \in 1 .. n + 1 :
                             Range(list[i].content) \subseteq Range(u[n + 1])
    BY <1>10
  <2>2. n <= Len(list) /\ n + 1 \in 1 .. Len(list) BY <1>0, <2>1
  <2>3. u[n] \in Seq(Blocks) /\ \A i \in 1 .. n : Range(list[i].content) \subseteq Range(u[n])
    BY <1>10, <1>12, <2>2
  <2>4. list[n + 1].content \in Seq(Blocks) BY <1>0, <2>2
  <2>5. u[n + 1] = u[n] \o list[n + 1].content BY <1>9, <2>1
  <2>6. u[n + 1] \in Seq(Blocks) BY <2>3, <2>4, <2>5, ConcatProperties
  <2>7. Range(u[n + 1]) = Range(u[n]) \cup Range(list[n + 1].content)
    BY <2>3, <2>4, <2>5, RangeOfBoth
  <2>8. \A i \in 1 .. n + 1 : i \in 1 .. n \/ i = n + 1 OBVIOUS
  <2> QED BY <2>3, <2>6, <2>7, <2>8
<1>13. Len(list) \in P BY <1>0, <1>11, <1>12, CountingUp
<1> QED BY <1>0, <1>8, <1>10, <1>13

IsFirst(upto, all) ==
    upto = [n \in 0 .. Len(all) |->
              IF n = 0 THEN <<>>
              ELSE IF all[n].is = "use" /\ all[n].tool \notin Range(upto[n - 1])
                     THEN Append(upto[n - 1], all[n].tool) ELSE upto[n - 1]]

LEMMA AppendNew ==
    ASSUME NEW T, NEW s \in Seq(T), NEW t \in T
    PROVE  /\ Append(s, t) \in Seq(T) /\ Range(Append(s, t)) = Range(s) \cup {t}
           /\ IsInjective(s) /\ t \notin Range(s) => IsInjective(Append(s, t))
<1>1. PICK N \in Nat : N = Len(s) /\ DOMAIN s = 1 .. N OBVIOUS
<1>2. PICK a : a = Append(s, t) OBVIOUS
<1>3. a \in Seq(T) /\ Len(a) = N + 1 /\ a[N + 1] = t /\ \A i \in 1 .. N : a[i] = s[i]
  BY <1>1, <1>2, AppendProperties
<1>4. DOMAIN a = 1 .. N + 1 /\ \A i \in 1 .. N + 1 : i \in 1 .. N \/ i = N + 1 BY <1>3
<1>5. Range(a) = Range(s) \cup {t}
  <2>1. \A i \in 1 .. N : i \in 1 .. N + 1 OBVIOUS
  <2>2. N + 1 \in 1 .. N + 1 OBVIOUS
  <2> QED BY <1>1, <1>3, <1>4, <2>1, <2>2 DEF Range
<1>6. IsInjective(s) /\ t \notin Range(s) => IsInjective(a)
  BY <1>1, <1>3, <1>4 DEF IsInjective, Range
<1> QED BY <1>2, <1>3, <1>5, <1>6

LEMMA FirstUsesAre ==
    ASSUME NEW list \in Seq(Messages)
    PROVE  /\ FirstUses(list) \in Seq(NamesUsed) /\ IsInjective(FirstUses(list))
           /\ \A b \in Range(Contents(list)) :
                b.is = "use" => b.tool \in Range(FirstUses(list))
<1>1. PICK all \in Seq(Blocks) : all = Contents(list) BY ContentsAre
<1>0. Len(all) \in Nat /\ \A n \in 1 .. Len(all) : all[n].tool \in NamesUsed
  <2>1. \A n \in 1 .. Len(all) : all[n] \in Blocks BY <1>1
  <2>2. \A b \in Blocks : b.tool \in NamesUsed BY DEF Blocks, NamesUsed
  <2>3. Len(all) \in Nat BY <1>1
  <2> QED BY <2>1, <2>2, <2>3
<1> DEFINE Next1(v, n) == IF all[n].is = "use" /\ all[n].tool \notin Range(v)
                            THEN Append(v, all[n].tool) ELSE v
           apply == [a \in Seq(NamesUsed) \X (1 .. Len(all)) |-> Next1(a[1], a[2])]
<1>2. \A v \in Seq(NamesUsed), n \in 1 .. Len(all) : apply[<<v, n>>] = Next1(v, n) OBVIOUS
<1>3. \A v \in Seq(NamesUsed), n \in 1 .. Len(all) : Next1(v, n) \in Seq(NamesUsed)
  BY <1>0, AppendProperties
<1>4. apply \in [Seq(NamesUsed) \X (1 .. Len(all)) -> Seq(NamesUsed)]
  <2> HIDE DEF Next1
  <2> QED BY <1>3
<1> HIDE DEF apply
<1>5. <<>> \in Seq(NamesUsed) OBVIOUS
<1>6. PICK g \in [0 .. Len(all) -> Seq(NamesUsed)] : Computes(g, Len(all), <<>>, apply)
  BY <1>0, <1>4, <1>5, Recursion
<1>7. \A n \in 0 .. Len(all) : g[n] = IF n = 0 THEN <<>> ELSE Next1(g[n - 1], n)
  <2>1. TAKE n \in 0 .. Len(all)
  <2>2. n # 0 => n - 1 \in 0 .. Len(all) /\ n \in 1 .. Len(all) BY <1>0
  <2>3. n # 0 => g[n - 1] \in Seq(NamesUsed) BY <2>2
  <2> HIDE DEF Next1
  <2> QED BY <1>2, <1>6, <2>2, <2>3 DEF Computes
<1>8. g = [n \in 0 .. Len(all) |-> g[n]] OBVIOUS
<1>9. IsFirst(g, all) BY <1>7, <1>8 DEF IsFirst
<1>10. PICK u : IsFirst(u, all) /\ FirstUses(list) = u[Len(all)]
  <2>1. FirstUses(list) = (CHOOSE v : IsFirst(v, all))[Len(all)]
    BY <1>1 DEF FirstUses, IsFirst
  <2> QED BY <1>9, <2>1
<1>11. u[0] = <<>> /\ \A n \in Nat : n + 1 <= Len(all) => u[n + 1] = Next1(u[n], n + 1)
  <2> DEFINE one == [n \in 0 .. Len(all) |-> IF n = 0 THEN <<>> ELSE Next1(u[n - 1], n)]
  <2>1. u = one BY <1>10 DEF IsFirst
  <2>2. one[0] = <<>> BY <1>0
  <2>3. ASSUME NEW n \in Nat, n + 1 <= Len(all) PROVE one[n + 1] = Next1(u[n], n + 1)
    <3> HIDE DEF Next1
    <3>1. n + 1 \in 0 .. Len(all) /\ n + 1 # 0 /\ (n + 1) - 1 = n BY <1>0, <2>3
    <3>2. one[n + 1] = Next1(u[(n + 1) - 1], n + 1) BY <3>1
    <3> QED BY <3>1, <3>2
  <2> HIDE DEF one, Next1
  <2> QED BY <2>1, <2>2, <2>3
<1>12. PICK P : P = {n \in Nat : n <= Len(all) =>
                        /\ u[n] \in Seq(NamesUsed) /\ IsInjective(u[n])
                        /\ \A i \in 1 .. n : all[i].is = "use" => all[i].tool \in Range(u[n])}
  OBVIOUS
<1>13. 0 \in P
  <2>1. \A i \in 1 .. 0 : FALSE OBVIOUS
  <2>2. IsInjective(<<>>) BY DEF IsInjective
  <2> QED BY <1>5, <1>11, <1>12, <2>1, <2>2
<1>14. ASSUME NEW n \in Nat, n \in P PROVE n + 1 \in P
  <2>1. SUFFICES ASSUME n + 1 <= Len(all)
                 PROVE  /\ u[n + 1] \in Seq(NamesUsed) /\ IsInjective(u[n + 1])
                        /\ \A i \in 1 .. n + 1 :
                             all[i].is = "use" => all[i].tool \in Range(u[n + 1])
    BY <1>12
  <2>2. n <= Len(all) /\ n + 1 \in 1 .. Len(all) BY <1>0, <2>1
  <2>3. /\ u[n] \in Seq(NamesUsed) /\ IsInjective(u[n])
        /\ \A i \in 1 .. n : all[i].is = "use" => all[i].tool \in Range(u[n])
    BY <1>12, <1>14, <2>2
  <2>4. u[n + 1] = Next1(u[n], n + 1) BY <1>11, <2>1
  <2>5. all[n + 1].tool \in NamesUsed BY <1>0, <2>2
  <2>6. \A i \in 1 .. n + 1 : i \in 1 .. n \/ i = n + 1 OBVIOUS
  <2>7. CASE all[n + 1].is = "use" /\ all[n + 1].tool \notin Range(u[n])
    <3>1. u[n + 1] = Append(u[n], all[n + 1].tool) BY <2>4, <2>7
    <3>2. u[n + 1] \in Seq(NamesUsed) /\ IsInjective(u[n + 1])
          /\ Range(u[n + 1]) = Range(u[n]) \cup {all[n + 1].tool}
      BY <2>3, <2>5, <2>7, <3>1, AppendNew
    <3> QED BY <2>3, <2>6, <3>2
  <2>8. CASE ~ (all[n + 1].is = "use" /\ all[n + 1].tool \notin Range(u[n]))
    <3>1. u[n + 1] = u[n] BY <2>4, <2>8
    <3> QED BY <2>3, <2>6, <2>8, <3>1
  <2> QED BY <2>7, <2>8
<1>15. Len(all) \in P BY <1>0, <1>13, <1>14, CountingUp
<1>16. /\ FirstUses(list) \in Seq(NamesUsed) /\ IsInjective(FirstUses(list))
       /\ \A i \in 1 .. Len(all) : all[i].is = "use" => all[i].tool \in Range(FirstUses(list))
  BY <1>0, <1>10, <1>12, <1>15
<1>17. DOMAIN all = 1 .. Len(all) BY <1>1
<1>18. \A b \in Range(all) : b.is = "use" => b.tool \in Range(FirstUses(list))
  BY <1>16, <1>17 DEF Range
<1> QED BY <1>1, <1>16, <1>18

LEMMA BothInjective ==
    ASSUME NEW T, NEW s \in Seq(T), NEW t \in Seq(T), IsInjective(s), IsInjective(t),
           Range(s) \cap Range(t) = {}
    PROVE  IsInjective(s \o t)
<1>1. PICK a \in Nat, b \in Nat : a = Len(s) /\ b = Len(t) OBVIOUS
<1>2. PICK st : st = s \o t OBVIOUS
<1>3. /\ st \in Seq(T) /\ Len(st) = a + b
      /\ \A i \in 1 .. a + b : st[i] = IF i <= a THEN s[i] ELSE t[i - a]
  BY <1>1, <1>2, ConcatProperties
<1>4. DOMAIN s = 1 .. a /\ DOMAIN t = 1 .. b /\ DOMAIN st = 1 .. a + b BY <1>1, <1>3
<1>5. ASSUME NEW i \in 1 .. a + b, NEW j \in 1 .. a + b, st[i] = st[j], i < j PROVE FALSE
  <2>1. CASE j <= a
    <3>1. i \in 1 .. a /\ j \in 1 .. a /\ i # j BY <1>5, <2>1
    <3>2. s[i] = s[j] BY <1>3, <1>5, <3>1
    <3> QED BY <1>4, <3>1, <3>2 DEF IsInjective
  <2>2. CASE i <= a /\ ~ (j <= a)
    <3>1. i \in 1 .. a /\ j - a \in 1 .. b BY <2>2
    <3>2. st[i] = s[i] /\ st[j] = t[j - a] BY <1>3, <2>2
    <3>3. st[i] \in Range(s) /\ st[j] \in Range(t) BY <1>4, <3>1, <3>2 DEF Range
    <3> QED BY <1>5, <3>3
  <2>3. CASE ~ (i <= a)
    <3>1. i - a \in 1 .. b /\ j - a \in 1 .. b /\ i - a # j - a /\ ~ (j <= a) BY <1>5, <2>3
    <3>2. t[i - a] = t[j - a] BY <1>3, <1>5, <2>3, <3>1
    <3> QED BY <1>4, <3>1, <3>2 DEF IsInjective
  <2> QED BY <1>5, <2>1, <2>2, <2>3
<1>6. \A i, j \in 1 .. a + b : st[i] = st[j] => i = j
  <2>1. \A i, j \in 1 .. a + b : i < j \/ j < i \/ i = j OBVIOUS
  <2> QED BY <1>5, <2>1
<1> QED BY <1>2, <1>4, <1>6 DEF IsInjective

\* The tools cover what the messages call, each once.
Covered(list, tools) ==
    /\ IsInjective([i \in DOMAIN tools |-> tools[i].name])
    /\ \A i \in DOMAIN list : \A b \in Range(list[i].content) :
         b.is = "use" => \E t \in Range(tools) : t.name = b.tool

LEMMA ComposeCovers ==
    ASSUME NamesAssumption, NEW list \in Seq(Messages),
           granted \subseteq Range(ToolNames), injected \subseteq Host
    PROVE  Compose(list) \in Seq(Declared) /\ Covered(list, Compose(list))
<1>1. \A S : /\ Listed(S) \in Seq(Range(ToolNames)) /\ IsInjective(Listed(S))
             /\ Range(Listed(S)) = Range(ToolNames) \cap S
  <2>1. ToolNames \in Seq(Range(ToolNames)) /\ IsInjective(ToolNames) BY DEF NamesAssumption
  <2> QED BY <2>1, OnlyKeeps DEF Listed
<1>2. PICK own : own = Listed(injected) \o Elected OBVIOUS
<1>3. own \in Seq(NamesUsed) /\ IsInjective(own)
  <2>1. PICK a \in Seq(NamesUsed), b \in Seq(NamesUsed) :
          /\ a = Listed(injected) /\ IsInjective(a) /\ Range(a) \subseteq injected
          /\ b = Elected /\ IsInjective(b) /\ Range(b) \cap injected = {}
    <3>1. Range(ToolNames) \subseteq NamesUsed BY DEF NamesUsed
    <3>2. Listed(injected) \in Seq(NamesUsed) BY <1>1, <3>1, SeqMonotonic
    <3>3. Elected \in Seq(NamesUsed) BY <1>1, <3>1, SeqMonotonic DEF Elected
    <3>4. Range(Elected) \cap injected = {} /\ IsInjective(Elected) BY <1>1 DEF Elected
    <3>5. Range(Listed(injected)) \subseteq injected /\ IsInjective(Listed(injected)) BY <1>1
    <3> QED BY <3>2, <3>3, <3>4, <3>5
  <2>2. Range(a) \cap Range(b) = {} BY <2>1
  <2>3. a \o b \in Seq(NamesUsed) BY <2>1, ConcatProperties
  <2>4. IsInjective(a \o b) BY <2>1, <2>2, BothInjective
  <2> QED BY <1>2, <2>1, <2>3, <2>4
<1>4. PICK used \in Seq(NamesUsed) : used = FirstUses(list) /\ IsInjective(used)
  BY FirstUsesAre
<1>5. PICK rest \in Seq(NamesUsed) :
        /\ rest = Only(used, Range(used) \ Range(own))
        /\ IsInjective(rest) /\ Range(rest) = Range(used) \ Range(own)
  <2>1. PICK S : S = Range(used) \ Range(own) OBVIOUS
  <2>2. /\ Only(used, S) \in Seq(NamesUsed)
        /\ Range(Only(used, S)) = Range(used) \cap S
    BY <1>4, OnlyKeeps
  <2>3. IsInjective(Only(used, S)) BY <1>4, OnlyKeeps
  <2> QED BY <2>1, <2>2, <2>3
<1>6. PICK names : names = own \o rest OBVIOUS
<1>7. names \in Seq(NamesUsed) /\ IsInjective(names) /\ Range(names) = Range(own) \cup Range(rest)
  <2>1. Range(own) \cap Range(rest) = {} BY <1>5
  <2>2. IsInjective(own \o rest) BY <1>3, <1>5, <2>1, BothInjective
  <2>3. own \o rest \in Seq(NamesUsed) BY <1>3, <1>5, ConcatProperties
  <2>4. Range(own \o rest) = Range(own) \cup Range(rest) BY <1>3, <1>5, RangeOfBoth
  <2> QED BY <1>6, <2>2, <2>3, <2>4
<1>8. PICK a \in Nat, b \in Nat :
        a = Len(own) /\ b = Len(rest) /\ DOMAIN own = 1 .. a /\ DOMAIN rest = 1 .. b
  BY <1>3, <1>5
<1>9. \A n \in NamesUsed : /\ Offered(n) \in Declared /\ Offered(n).name = n
                           /\ Closing(n) \in Declared /\ Closing(n).name = n
  BY DEF Offered, Closing, Tool, Declared, NamesUsed
<1>10. PICK offers \in Seq(Declared) :
         /\ offers = [i \in DOMAIN own |-> Offered(own[i])] /\ Len(offers) = a
         /\ \A i \in 1 .. a : offers[i].name = own[i]
  <2>1. PICK offers : offers = [i \in 1 .. a |-> Offered(own[i])] OBVIOUS
  <2>2. \A i \in 1 .. a : own[i] \in NamesUsed BY <1>3, <1>8
  <2>3. offers \in [1 .. a -> Declared] BY <1>9, <2>1, <2>2
  <2>4. offers \in Seq(Declared) /\ Len(offers) = a BY <2>1, <2>3
  <2>5. \A i \in 1 .. a : offers[i].name = own[i] BY <1>9, <2>1, <2>2
  <2> QED BY <1>8, <2>1, <2>4, <2>5
<1>11. PICK closes \in Seq(Declared) :
         /\ closes = [i \in DOMAIN rest |-> Closing(rest[i])] /\ Len(closes) = b
         /\ \A i \in 1 .. b : closes[i].name = rest[i]
  <2>1. PICK closes : closes = [i \in 1 .. b |-> Closing(rest[i])] OBVIOUS
  <2>2. \A i \in 1 .. b : rest[i] \in NamesUsed BY <1>5, <1>8
  <2>3. closes \in [1 .. b -> Declared] BY <1>9, <2>1, <2>2
  <2>4. closes \in Seq(Declared) /\ Len(closes) = b BY <2>1, <2>3
  <2>5. \A i \in 1 .. b : closes[i].name = rest[i] BY <1>9, <2>1, <2>2
  <2> QED BY <1>8, <2>1, <2>4, <2>5
<1>12. PICK tools : tools = offers \o closes OBVIOUS
<1>13. tools = Compose(list)
  BY <1>2, <1>4, <1>5, <1>10, <1>11, <1>12 DEF Compose
<1>14. /\ tools \in Seq(Declared) /\ Len(tools) = a + b
       /\ \A i \in 1 .. a + b : tools[i] = IF i <= a THEN offers[i] ELSE closes[i - a]
  BY <1>10, <1>11, <1>12, ConcatProperties
<1>15. /\ Len(names) = a + b
       /\ \A i \in 1 .. a + b : names[i] = IF i <= a THEN own[i] ELSE rest[i - a]
  BY <1>3, <1>5, <1>6, <1>8, ConcatProperties
<1>16. DOMAIN tools = 1 .. a + b /\ DOMAIN names = 1 .. a + b BY <1>7, <1>14, <1>15
<1>17. \A i \in 1 .. a + b : tools[i].name = names[i]
  <2>1. TAKE i \in 1 .. a + b
  <2>2. CASE i <= a
    <3>1. i \in 1 .. a BY <2>2
    <3> QED BY <1>10, <1>14, <1>15, <2>2, <3>1
  <2>3. CASE ~ (i <= a)
    <3>1. i - a \in 1 .. b BY <2>3
    <3> QED BY <1>11, <1>14, <1>15, <2>3, <3>1
  <2> QED BY <2>2, <2>3
<1>18. IsInjective([i \in DOMAIN tools |-> tools[i].name])
  BY <1>7, <1>16, <1>17 DEF IsInjective
<1>19. ASSUME NEW i \in DOMAIN list, NEW c \in Range(list[i].content), c.is = "use"
       PROVE  \E t \in Range(tools) : t.name = c.tool
  <2>1. i \in 1 .. Len(list) OBVIOUS
  <2>2. c \in Range(Contents(list)) BY <2>1, ContentsAre
  <2>3. c.tool \in Range(used) BY <1>4, <1>19, <2>2, FirstUsesAre
  <2>4. c.tool \in Range(names) BY <1>5, <1>7, <2>3
  <2>5. PICK k \in 1 .. a + b : names[k] = c.tool BY <1>16, <2>4 DEF Range
  <2>6. tools[k] \in Range(tools) /\ tools[k].name = c.tool BY <1>16, <1>17, <2>5 DEF Range
  <2> QED BY <2>6
<1>20. Covered(list, tools) BY <1>18, <1>19 DEF Covered
<1> QED BY <1>13, <1>14, <1>20

-----------------------------------------------------------------------------
(* The hold, and what a transcript starts as.                               *)

LEMMA LawfulIs ==
    Lawful <=> Accepted(last.messages) /\ Covered(last.messages, last.tools)
BY DEF Lawful, Accepted, Covered

LEMMA HoldIs ==
    ASSUME NEW prev \in Requests, IsInjective([i \in DOMAIN prev.tools |-> prev.tools[i].name]),
           NEW now \in Requests, Covered(now.messages, now.tools)
    PROVE  /\ Hold(prev, now) \in Requests /\ Hold(prev, now).messages = now.messages
           /\ Covered(Hold(prev, now).messages, Hold(prev, now).tools)
<1>1. prev.tools \in Seq(Declared) /\ now.tools \in Seq(Declared) BY DEF Requests
<1>2. PICK held : held = [now EXCEPT !.tools = prev.tools] OBVIOUS
<1>3. held \in Requests /\ held.messages = now.messages /\ held.tools = prev.tools
  BY <1>1, <1>2 DEF Requests
<1>4. ASSUME IsSubsequence(now.tools, prev.tools) PROVE Covered(held.messages, held.tools)
  <2>1. now.tools = Only(prev.tools, Range(now.tools)) BY <1>4 DEF IsSubsequence
  <2>2. Range(Only(prev.tools, Range(now.tools))) = Range(prev.tools) \cap Range(now.tools)
    BY <1>1, OnlyKeeps
  <2>3. Range(now.tools) \subseteq Range(prev.tools) BY <2>1, <2>2
  <2> QED BY <1>3, <2>3 DEF Covered
<1>5. Hold(prev, now) = now \/ (Hold(prev, now) = held /\ IsSubsequence(now.tools, prev.tools))
  BY <1>2 DEF Hold
<1> QED BY <1>3, <1>4, <1>5

LEMMA InitIsLawful ==
    ASSUME StartsAssumption, RequestInit
    PROVE  RequestInv
<1>1. /\ entries # <<>> /\ entries \in Seq(Range(entries)) /\ entries[1].role = "user"
      /\ \A i \in DOMAIN entries : entries[i] = Entry("user", <<Said>>) \/ Orphaned(entries[i])
  BY DEF StartsAssumption, RequestInit
<1>2. PICK N \in Nat : N = Len(entries) /\ DOMAIN entries = 1 .. N BY <1>1
<1>3. ASSUME NEW i \in 1 .. N
      PROVE  entries[i] \in Messages /\ Sided(entries[i]) /\ Uses(entries[i]) = {}
  <2>1. CASE entries[i] = Entry("user", <<Said>>) BY <2>1, SaidIs
  <2>2. CASE Orphaned(entries[i])
    <3>1. PICK b : b.id \in Nat /\ entries[i] = Entry("tool", <<Block("result", b.id, "")>>)
      BY <2>2 DEF Orphaned
    <3>2. PICK c : c = Block("result", b.id, "") OBVIOUS
    <3>3. c \in Blocks /\ c.is = "result" BY <3>1, <3>2, BlocksAre
    <3>4. PICK e : e = entries[i] OBVIOUS
    <3>5. e = Entry("tool", <<c>>) BY <3>1, <3>2, <3>4
    <3>6. e \in Messages /\ e.role = "tool" /\ e.content # <<>> /\ Range(e.content) = {c}
      BY <3>3, <3>5, OneBlock
    <3>7. Uses(e) = {} BY <3>3, <3>5, OneBlock
    <3>8. Sided(e) BY <3>3, <3>6, <3>7 DEF Sided
    <3> QED BY <3>4, <3>6, <3>7, <3>8
  <2> QED BY <1>1, <1>2, <2>1, <2>2
<1>4. entries \in Seq(Messages)
  <2>1. entries \in [1 .. N -> Messages]
    <3>1. entries = [i \in 1 .. N |-> entries[i]] BY <1>1, <1>2
    <3> QED BY <1>3, <3>1
  <2> QED BY <2>1
<1>5. ASSUME NEW q \in 0 .. N PROVE AnsweredBy(entries, q)
  <2>1. \A p \in 1 .. q : p \in 1 .. N OBVIOUS
  <2> QED BY <1>3, <2>1 DEF AnsweredBy, Open
<1>6. Windows(entries)
  <2>1. ASSUME NEW j \in DOMAIN entries
        PROVE  Placed(entries, j) /\ AnsweredBy(entries, j - 1)
    <3>1. j \in 1 .. N /\ j - 1 \in 0 .. N BY <1>2
    <3>2. \A p \in 1 .. j - 1 : p \in 1 .. N BY <3>1
    <3>3. Placed(entries, j) BY <1>3, <3>2 DEF Placed
    <3> QED BY <1>5, <3>1, <3>3
  <2> QED BY <1>2, <1>3, <2>1 DEF Windows
<1>7. last = NoRequest BY DEF RequestInit
<1>8. NoRequest \in Requests
  <2>1. <<>> \in Seq(Messages) /\ <<>> \in Seq(Declared) OBVIOUS
  <2> QED BY <2>1 DEF NoRequest, Requests
<1>9. Lawful
  <2>1. last.messages = <<>> /\ last.tools = <<>> BY <1>7 DEF NoRequest
  <2>2. DOMAIN <<>> = {} OBVIOUS
  <2>3. Covered(<<>>, <<>>) BY <2>2 DEF Covered, IsInjective
  <2>4. Accepted(<<>>) BY <2>2 DEF Accepted
  <2> QED BY <2>1, <2>3, <2>4, LawfulIs
<1>10. RequestTypeOK
  <2>1. files \subseteq Selectable /\ granted \subseteq Range(ToolNames) /\ injected \subseteq Host
        /\ phase = "boundary" /\ overflow \in Overflows /\ soul \in Int /\ acts \in Nat
    BY DEF RequestInit
  <2> QED BY <1>4, <1>7, <1>8, <2>1 DEF RequestTypeOK
<1>11. phase = "boundary" BY DEF RequestInit
<1>12. AnsweredBy(entries, Len(entries)) BY <1>2, <1>5
<1> QED BY <1>1, <1>6, <1>9, <1>10, <1>11, <1>12 DEF RequestInv

-----------------------------------------------------------------------------
(* What is unsettled.                                                       *)

\* A window that waits is the last one, and what it waits for is unsettled.
LEMMA WaitingIs ==
    ASSUME NEW X \in Seq(Messages), Windows(X), NEW p \in 1 .. Len(X), Waits(X, p)
    PROVE  /\ Unsettled(X).at = p
           /\ Unsettled(X).calls = Uses(X[p]) \ Answers(X, p, Len(X))
           /\ \A k \in p + 1 .. Len(X) : X[k].role = "tool"
           /\ X[p].role = "assistant"
<1>1. PICK N \in Nat : N = Len(X) /\ DOMAIN X = 1 .. N OBVIOUS
<1>2. Uses(X[p]) # {} /\ \A k \in p + 1 .. N : X[k].role = "tool"
  BY <1>1 DEF Waits, Open
<1>3. X[p].role = "assistant" BY <1>2, SidesAre
<1>4. PICK models : models = {i \in DOMAIN X : X[i].role = "assistant"} OBVIOUS
<1>5. p \in models /\ \A i \in models : i <= p
  <2>1. ASSUME NEW i \in models, ~ (i <= p) PROVE FALSE
    <3>1. i \in p + 1 .. N /\ X[i].role = "assistant" BY <1>1, <1>4, <2>1
    <3> QED BY <1>2, <3>1
  <2> QED BY <1>1, <1>3, <1>4, <2>1
<1>6. PICK cut : cut = (CHOOSE i \in models : \A j \in models : j <= i) OBVIOUS
<1>7. cut = p
  <2>1. cut \in models /\ \A j \in models : j <= cut BY <1>5, <1>6
  <2>2. \A j \in models : j \in Nat BY <1>1, <1>4
  <2> QED BY <1>5, <2>1, <2>2
<1>8. PICK after : after = {b.id : b \in UNION {Range(X[i].content) : i \in p + 1 .. N}}
  OBVIOUS
<1>9. after = Answers(X, p, N)
  <2>1. \A k \in p + 1 .. N : k \in 1 .. N OBVIOUS
  <2>2. \A k \in p + 1 .. N : \A b \in Range(X[k].content) : b.is = "result"
    BY <1>1, <1>2, <2>1, SidesAre DEF Sided
  <2>3. \A k \in p + 1 .. N : Results(X[k]) = {b.id : b \in Range(X[k].content)}
    BY <2>2 DEF Results
  <2>4. PICK answers : answers = Answers(X, p, N) OBVIOUS
  <2>5. \A x : x \in answers <=> \E k \in p + 1 .. N : x \in Results(X[k])
    BY <2>4 DEF Answers
  <2>6. \A x : x \in after <=> \E k \in p + 1 .. N : \E b \in Range(X[k].content) : x = b.id
    BY <1>8
  <2>7. ASSUME NEW k \in p + 1 .. N, NEW x
        PROVE  x \in Results(X[k]) <=> \E b \in Range(X[k].content) : x = b.id
    <3>1. x \in {b.id : b \in Range(X[k].content)} <=> \E b \in Range(X[k].content) : x = b.id
      OBVIOUS
    <3> QED BY <2>3, <3>1
  <2>8. ASSUME NEW x \in after PROVE x \in answers
    <3>1. PICK k \in p + 1 .. N : \E b \in Range(X[k].content) : x = b.id BY <2>6
    <3>2. x \in Results(X[k]) BY <2>7, <3>1
    <3> QED BY <2>5, <3>2
  <2>9. ASSUME NEW x \in answers PROVE x \in after
    <3>1. PICK k \in p + 1 .. N : x \in Results(X[k]) BY <2>5
    <3>2. \E b \in Range(X[k].content) : x = b.id BY <2>7, <3>1
    <3> QED BY <2>6, <3>2
  <2> QED BY <2>4, <2>8, <2>9
<1>10. Unsettled(X) = [at |-> p, calls |-> Calls(X[p]) \ after]
  BY <1>1, <1>4, <1>5, <1>6, <1>7, <1>8 DEF Unsettled
<1>11. Calls(X[p]) = Uses(X[p]) BY DEF Calls, Uses
<1> QED BY <1>1, <1>2, <1>3, <1>9, <1>10, <1>11

\* What is unsettled is of an entry of the model's.
LEMMA UnsettledAt ==
    ASSUME NEW X \in Seq(Messages), Unsettled(X).calls # {}
    PROVE  Unsettled(X).at \in 1 .. Len(X) /\ X[Unsettled(X).at].role = "assistant"
<1>1. PICK models : models = {i \in DOMAIN X : X[i].role = "assistant"} OBVIOUS
<1>2. PICK cut : cut = (CHOOSE i \in models : \A j \in models : j <= i) OBVIOUS
<1>3. models # {} BY <1>1 DEF Unsettled
<1>4. Unsettled(X).at = cut BY <1>1, <1>2, <1>3 DEF Unsettled
<1>5. PICK N \in Nat : N = Len(X) /\ DOMAIN X = 1 .. N OBVIOUS
<1>6. \E i \in models : \A j \in models : j <= i
  <2>1. PICK gaps : gaps = {N - i : i \in models} OBVIOUS
  <2>2. gaps \in SUBSET Nat /\ gaps # {} BY <1>1, <1>3, <1>5, <2>1
  <2>3. PICK g \in gaps : \A h \in gaps : g <= h BY <2>2, LeastNumber
  <2>4. PICK i \in models : g = N - i BY <2>1
  <2>5. \A j \in models : N - i <= N - j BY <2>1, <2>3, <2>4
  <2>6. \A j \in models : j \in Nat BY <1>1, <1>5
  <2>7. \A j \in models : j <= i BY <2>5, <2>6
  <2> QED BY <2>7
<1>7. cut \in models BY <1>2, <1>6
<1> QED BY <1>1, <1>4, <1>5, <1>7

-----------------------------------------------------------------------------
(* The steps.                                                               *)

\* Said at a boundary, there is a user entry more.
LEMMA SaidAfter ==
    ASSUME NEW X \in Seq(Messages), Windows(X), AnsweredBy(X, Len(X)),
           X # <<>> => X[1].role = "user"
    PROVE  LET Y == Append(X, Entry("user", <<Said>>)) IN
           /\ Y \in Seq(Messages) /\ Windows(Y) /\ AnsweredBy(Y, Len(Y))
           /\ Y # <<>> /\ Y[1].role = "user"
<1>1. PICK e : e = Entry("user", <<Said>>) OBVIOUS
<1>2. e \in Messages /\ Sided(e) /\ e.role = "user" /\ Uses(e) = {} BY <1>1, SaidIs
<1>3. PICK Y : Y = Append(X, e) OBVIOUS
<1>4. /\ Y \in Seq(Messages) /\ Len(Y) = Len(X) + 1 /\ Y[Len(X) + 1] = e
      /\ \A k \in 1 .. Len(X) : Y[k] = X[k]
      /\ Windows(Y) /\ AnsweredBy(Y, Len(Y))
  BY <1>2, <1>3, WindowsGrow
<1>5. Y # <<>> /\ Y[1].role = "user"
  <2>1. CASE X = <<>>
    <3>1. Len(X) = 0 /\ Len(X) + 1 = 1 BY <2>1
    <3>2. Len(Y) = 1 /\ Y[1] = e BY <1>4, <3>1
    <3>3. Y # <<>> BY <1>4, <3>2
    <3> QED BY <1>2, <3>2, <3>3
  <2>2. CASE X # <<>>
    <3>1. 1 \in 1 .. Len(X) BY <2>2
    <3> QED BY <1>4, <2>2, <3>1
  <2> QED BY <2>1, <2>2
<1> QED BY <1>1, <1>3, <1>4, <1>5

LEMMA HearKeeps ==
    ASSUME RequestInv, Hear
    PROVE  RequestInv'
<1>1. RequestTypeOK /\ Lawful /\ entries # <<>> /\ entries[1].role = "user" /\ Windows(entries)
      /\ AnsweredBy(entries, Len(entries))
  BY DEF RequestInv, Hear
<1>2. entries \in Seq(Messages) BY <1>1 DEF RequestTypeOK
<1>3. /\ entries' \in Seq(Messages) /\ Windows(entries') /\ AnsweredBy(entries', Len(entries'))
      /\ entries' # <<>> /\ entries'[1].role = "user"
  <2>1. entries' = Append(entries, Entry("user", <<Said>>)) BY DEF Hear
  <2> QED BY <1>1, <1>2, <2>1, SaidAfter
<1>4. phase' = "boundary" /\ last' = last BY DEF Hear
<1>5. RequestTypeOK' BY <1>1, <1>3 DEF RequestTypeOK, Hear
<1>6. Lawful' BY <1>1, <1>4 DEF Lawful
<1> QED BY <1>3, <1>4, <1>5, <1>6 DEF RequestInv

LEMMA SendKeeps ==
    ASSUME FilesAssumption, NamesAssumption, RequestInv, Send
    PROVE  RequestInv'
<1>1. RequestTypeOK /\ Lawful /\ entries # <<>> /\ entries[1].role = "user" /\ Windows(entries)
      /\ AnsweredBy(entries, Len(entries))
  BY DEF RequestInv, Send
<1>2. entries \in Seq(Messages) /\ overflow \in Overflows /\ soul \in Int
      /\ granted \subseteq Range(ToolNames) /\ injected \subseteq Host /\ last \in Requests
  BY <1>1 DEF RequestTypeOK
<1>3. PICK m : m = Assemble OBVIOUS
<1>4. m \in Seq(Messages) /\ Accepted(m) BY <1>1, <1>2, <1>3, AssembleIsAccepted
<1>5. Compose(m) \in Seq(Declared) /\ Covered(m, Compose(m)) BY <1>2, <1>4, ComposeCovers
<1>6. PICK now : now = [soul |-> soul, messages |-> m, tools |-> Compose(m)] OBVIOUS
<1>7. now \in Requests /\ now.messages = m /\ now.tools = Compose(m)
  BY <1>2, <1>4, <1>5, <1>6 DEF Requests
<1>8. IsInjective([i \in DOMAIN last.tools |-> last.tools[i].name]) BY <1>1 DEF Lawful
<1>9. last' = Hold(last, now) BY <1>3, <1>6 DEF Send, Current
<1>10. /\ last' \in Requests /\ last'.messages = m /\ Covered(last'.messages, last'.tools)
  BY <1>2, <1>5, <1>7, <1>8, <1>9, HoldIs
<1>11. Lawful' BY <1>4, <1>10 DEF Lawful, Accepted, Covered
<1>12. phase' = "calling" /\ entries' = entries BY DEF Send
<1>13. RequestTypeOK' BY <1>1, <1>10 DEF RequestTypeOK, Send
<1> QED BY <1>1, <1>11, <1>12, <1>13 DEF RequestInv

LEMMA ReplyIs ==
    ASSUME NEW tools \in Seq(Range(ToolNames))
    PROVE  LET uses == [i \in DOMAIN tools |-> Block("use", i, tools[i])]
               e == Entry("assistant", IF uses = <<>> THEN <<Said>> ELSE uses) IN
           /\ e \in Messages /\ e.role = "assistant" /\ Sided(e)
           /\ Uses(e) = {} <=> tools = <<>>
<1>1. PICK N \in Nat : N = Len(tools) /\ DOMAIN tools = 1 .. N OBVIOUS
<1>2. PICK uses : uses = [i \in 1 .. N |-> Block("use", i, tools[i])] OBVIOUS
<1>3. \A i \in 1 .. N : uses[i] \in Blocks /\ uses[i].is = "use"
  <2>1. TAKE i \in 1 .. N
  <2>2. tools[i] \in Range(ToolNames) BY <1>1
  <2>3. PICK b : b = uses[i] OBVIOUS
  <2>4. b = [is |-> "use", id |-> i, tool |-> tools[i]] BY <1>2, <2>3 DEF Block
  <2>5. i \in Nat /\ tools[i] \in NamesUsed
    <3>1. i \in Nat OBVIOUS
    <3>2. Range(ToolNames) \subseteq NamesUsed BY DEF NamesUsed
    <3> QED BY <2>2, <3>1, <3>2
  <2>6. b \in Blocks BY <2>4, <2>5 DEF Blocks, NamesUsed
  <2> QED BY <2>3, <2>4, <2>6
<1>4. uses \in Seq(Blocks) /\ Len(uses) = N /\ DOMAIN uses = 1 .. N
  <2>1. uses \in [1 .. N -> Blocks] BY <1>2, <1>3
  <2> QED BY <1>2, <2>1
<1>5. PICK e : e = Entry("assistant", IF uses = <<>> THEN <<Said>> ELSE uses) OBVIOUS
<1>6. CASE N = 0
  <2>1. uses = <<>> /\ tools = <<>> BY <1>1, <1>4, <1>6, EmptySeq
  <2>2. e = Entry("assistant", <<Said>>) BY <1>5, <2>1
  <2>3. e \in Messages /\ e.role = "assistant" /\ Sided(e) /\ Uses(e) = {} BY <2>2, SaidIs
  <2> QED BY <1>1, <1>2, <1>5, <2>1, <2>3
<1>7. CASE N # 0
  <2>1. uses # <<>> /\ tools # <<>> BY <1>1, <1>4, <1>7
  <2>2. e = [role |-> "assistant", content |-> uses] BY <1>5, <2>1 DEF Entry
  <2>3. e \in Messages /\ e.role = "assistant" /\ e.content = uses BY <1>4, <2>2 DEF Messages
  <2>4. \A b \in Range(uses) : b.is = "use" BY <1>3, <1>4 DEF Range
  <2>5. Results(e) = {} BY <2>3, <2>4 DEF Results
  <2>6. Sided(e) BY <2>1, <2>3, <2>5 DEF Sided
  <2>7. Uses(e) # {}
    <3>1. uses[1] \in Range(uses) BY <1>4, <1>7 DEF Range
    <3> QED BY <2>3, <2>4, <3>1 DEF Uses
  <2> QED BY <1>1, <1>2, <1>5, <2>1, <2>3, <2>6, <2>7
<1> QED BY <1>6, <1>7

LEMMA ReplyKeeps ==
    ASSUME RequestInv, NEW tools \in Seq(Range(ToolNames)), Reply(tools)
    PROVE  RequestInv'
<1>1. RequestTypeOK /\ Lawful /\ entries # <<>> /\ entries[1].role = "user" /\ Windows(entries)
      /\ AnsweredBy(entries, Len(entries))
  BY DEF RequestInv, Reply
<1>2. PICK X \in Seq(Messages) : X = entries BY <1>1 DEF RequestTypeOK
<1>3. PICK e : e \in Messages /\ e.role = "assistant" /\ Sided(e)
               /\ (Uses(e) = {} <=> tools = <<>>) /\ entries' = Append(X, e)
  BY <1>2, ReplyIs DEF Reply
<1>4. PICK Y : Y = Append(X, e) OBVIOUS
<1>5. /\ Y \in Seq(Messages) /\ Len(Y) = Len(X) + 1 /\ Y[Len(X) + 1] = e
      /\ \A k \in 1 .. Len(X) : Y[k] = X[k]
      /\ Windows(Y)
      /\ Uses(e) = {} => AnsweredBy(Y, Len(Y))
  BY <1>1, <1>2, <1>3, <1>4, WindowsGrow
<1>6. Y # <<>> /\ Y[1].role = "user"
  <2>1. 1 \in 1 .. Len(X) BY <1>1, <1>2
  <2> QED BY <1>1, <1>2, <1>5, <2>1
<1>7. Uses(e) # {} => \E p \in DOMAIN Y : Waits(Y, p)
  <2>1. PICK p \in Nat : p = Len(X) + 1 /\ p = Len(Y) BY <1>5
  <2>2. \A k \in p + 1 .. p : FALSE BY <2>1
  <2>3. Answers(Y, p, p) = {} BY <2>2 DEF Answers
  <2>4. Uses(e) # {} => Open(Y, p, p) BY <1>5, <2>1, <2>2 DEF Open
  <2>5. Uses(e) # {} => Waits(Y, p) BY <1>5, <2>1, <2>3, <2>4 DEF Waits
  <2>6. p \in DOMAIN Y BY <1>5, <2>1
  <2> QED BY <2>5, <2>6
<1>8. phase' = IF tools = <<>> THEN "boundary" ELSE "running" BY DEF Reply
<1>9. last' = last /\ entries' = Y BY <1>3, <1>4 DEF Reply
<1>10. Lawful' BY <1>1, <1>9 DEF Lawful
<1>11. RequestTypeOK' BY <1>1, <1>5, <1>8, <1>9 DEF RequestTypeOK, Reply
<1> QED BY <1>3, <1>5, <1>6, <1>7, <1>8, <1>9, <1>10, <1>11 DEF RequestInv

LEMMA ResultIs ==
    ASSUME NEW id \in Nat
    PROVE  LET e == Entry("tool", <<Block("result", id, "")>>) IN
           e \in Messages /\ e.role = "tool" /\ Sided(e) /\ Uses(e) = {} /\ Results(e) = {id}
<1>1. PICK b : b = Block("result", id, "") OBVIOUS
<1>2. b \in Blocks /\ b.is = "result" /\ b.id = id BY <1>1, BlocksAre
<1>3. PICK e : e = Entry("tool", <<b>>) OBVIOUS
<1>4. e \in Messages /\ e.role = "tool" /\ e.content # <<>> /\ Range(e.content) = {b}
  BY <1>2, <1>3, OneBlock
<1>5. Uses(e) = {} BY <1>2, <1>3, OneBlock
<1>6. Results(e) = {id} BY <1>2, <1>3, OneBlock
<1>7. Sided(e) BY <1>2, <1>4, <1>5 DEF Sided
<1> QED BY <1>1, <1>3, <1>4, <1>5, <1>6, <1>7

\* A result of the window that waits leaves it waiting, or everything
\* answered.
LEMMA ResultAfter ==
    ASSUME NEW X \in Seq(Messages), Windows(X), NEW p \in 1 .. Len(X), Waits(X, p),
           NEW e \in Messages, e.role = "tool", Sided(e), Uses(e) = {},
           NEW id \in Unsettled(X).calls, Results(e) = {id}
    PROVE  LET Y == Append(X, e) IN
           /\ Y \in Seq(Messages) /\ Windows(Y) /\ Len(Y) = Len(X) + 1
           /\ \A k \in 1 .. Len(X) : Y[k] = X[k]
           /\ IF Unsettled(X).calls = {id} THEN AnsweredBy(Y, Len(Y)) ELSE Waits(Y, p)
<1>1. PICK N \in Nat : N = Len(X) OBVIOUS
<1>2. PICK wants : wants = Unsettled(X).calls OBVIOUS
<1>3. /\ wants = Uses(X[p]) \ Answers(X, p, N)
      /\ \A k \in p + 1 .. N : X[k].role = "tool"
      /\ X[p].role = "assistant"
  BY <1>1, <1>2, WaitingIs
<1>4. Open(X, p, N) BY <1>1 DEF Waits
<1>5. id \in Uses(X[p]) BY <1>2, <1>3
<1>6. PICK Y : Y = Append(X, e) OBVIOUS
<1>7. /\ Y \in Seq(Messages) /\ Len(Y) = N + 1 /\ Y[N + 1] = e
      /\ \A k \in 1 .. N : Y[k] = X[k]
      /\ Windows(Y)
  <2>1. \E q \in 1 .. Len(X) : Open(X, q, Len(X)) /\ Results(e) \subseteq Uses(X[q])
    BY <1>1, <1>4, <1>5
  <2> QED BY <1>1, <1>6, <2>1, WindowsGrow
<1>8. p \in 1 .. N /\ Y[p] = X[p] BY <1>1, <1>7
<1>9. Open(Y, p, N + 1)
  <2>1. \A k \in p + 1 .. N + 1 : k \in p + 1 .. N \/ k = N + 1 BY <1>8
  <2>2. \A k \in p + 1 .. N : Y[k] = X[k] BY <1>7, <1>8
  <2>3. \A k \in p + 1 .. N + 1 : Y[k].role = "tool" BY <1>3, <1>7, <2>1, <2>2
  <2> QED BY <1>5, <1>8, <2>3 DEF Open
<1>10. Answers(Y, p, N + 1) = Answers(X, p, N) \cup {id}
  <2>1. \A k \in p + 1 .. N : Y[k] = X[k] BY <1>7, <1>8
  <2>2. PICK a : a = Answers(X, p, N) OBVIOUS
  <2>3. PICK b : b = Answers(Y, p, N + 1) OBVIOUS
  <2>4. \A x : x \in a <=> \E k \in p + 1 .. N : x \in Results(X[k]) BY <2>2 DEF Answers
  <2>5. \A x : x \in b <=> \E k \in p + 1 .. N + 1 : x \in Results(Y[k]) BY <2>3 DEF Answers
  <2>6. ASSUME NEW x \in b PROVE x \in a \cup {id}
    <3>1. PICK k \in p + 1 .. N + 1 : x \in Results(Y[k]) BY <2>5
    <3>2. CASE k = N + 1 BY <1>7, <3>1, <3>2
    <3>3. CASE k # N + 1
      <4>1. k \in p + 1 .. N BY <1>8, <3>3
      <4> QED BY <2>1, <2>4, <3>1, <4>1
    <3> QED BY <3>2, <3>3
  <2>7. ASSUME NEW x \in a PROVE x \in b
    <3>1. PICK k \in p + 1 .. N : x \in Results(X[k]) BY <2>4
    <3>2. k \in p + 1 .. N + 1 BY <1>8
    <3> QED BY <2>1, <2>5, <3>1, <3>2
  <2>8. id \in b
    <3>1. N + 1 \in p + 1 .. N + 1 BY <1>8
    <3>2. id \in Results(Y[N + 1]) BY <1>7
    <3> QED BY <2>5, <3>1, <3>2
  <2> QED BY <2>2, <2>3, <2>6, <2>7, <2>8
<1>11. wants = {id} => AnsweredBy(Y, N + 1)
  <2>1. SUFFICES ASSUME wants = {id}, NEW r \in 1 .. N + 1, Open(Y, r, N + 1)
                 PROVE  Uses(Y[r]) \subseteq Answers(Y, r, N + 1)
    BY DEF AnsweredBy
  <2>2. Uses(Y[r]) # {} /\ \A k \in r + 1 .. N + 1 : Y[k].role = "tool" BY <2>1 DEF Open
  <2>3. r # N + 1 BY <1>7, <2>2
  <2>4. r \in 1 .. N /\ Y[r] = X[r] BY <1>7, <2>3
  <2>5. X[r].role # "tool" BY <1>1, <2>2, <2>4, SidesAre
  <2>6. ~ (r > p)
    <3>1. r > p => r \in p + 1 .. N BY <1>8, <2>4
    <3> QED BY <1>3, <2>5, <3>1
  <2>7. ~ (r < p)
    <3>1. r < p => p \in r + 1 .. N + 1 BY <1>8, <2>4
    <3> QED BY <1>3, <1>8, <2>2, <3>1
  <2>8. r = p BY <1>8, <2>4, <2>6, <2>7
  <2>9. Uses(X[p]) \subseteq Answers(X, p, N) \cup {id} BY <1>3, <2>1
  <2> QED BY <1>8, <1>10, <2>8, <2>9
<1>12. wants # {id} => Waits(Y, p)
  <2>1. SUFFICES ASSUME wants # {id} PROVE ~ (Uses(Y[p]) \subseteq Answers(Y, p, N + 1))
    BY <1>7, <1>9 DEF Waits
  <2>2. PICK x \in wants : x # id BY <1>2, <2>1
  <2> QED BY <1>3, <1>8, <1>10, <2>2
<1> QED BY <1>1, <1>2, <1>6, <1>7, <1>11, <1>12

LEMMA ResultKeeps ==
    ASSUME RequestInv, Result
    PROVE  RequestInv'
<1>1. RequestTypeOK /\ Lawful /\ entries # <<>> /\ entries[1].role = "user" /\ Windows(entries)
      /\ \E p \in DOMAIN entries : Waits(entries, p)
  BY DEF RequestInv, Result
<1>2. PICK X \in Seq(Messages) : X = entries BY <1>1 DEF RequestTypeOK
<1>3. PICK p \in 1 .. Len(X) : Waits(X, p) BY <1>1, <1>2
<1>4. PICK wants : wants = Unsettled(X).calls OBVIOUS
<1>5. wants \in SUBSET Nat /\ wants # {}
  <2>1. wants = Uses(X[p]) \ Answers(X, p, Len(X)) BY <1>1, <1>2, <1>3, <1>4, WaitingIs
  <2>2. X[p] \in Messages BY <1>2, <1>3
  <2>3. PICK c \in Seq(Blocks) : c = X[p].content BY <2>2 DEF Messages
  <2>4. \A b \in Range(c) : b \in Blocks BY <2>3 DEF Range
  <2>5. \A b \in Blocks : b.id \in Nat BY DEF Blocks
  <2>6. Uses(X[p]) \subseteq Nat BY <2>3, <2>4, <2>5 DEF Uses
  <2> QED BY <1>3, <2>1, <2>6 DEF Waits
<1>6. PICK id : id = (CHOOSE i \in wants : \A j \in wants : i <= j) OBVIOUS
<1>7. id \in wants /\ id \in Nat
  <2>1. \E i \in wants : \A j \in wants : i <= j BY <1>5, LeastNumber
  <2> QED BY <1>5, <1>6, <2>1
<1>8. PICK e : e = Entry("tool", <<Block("result", id, "")>>) OBVIOUS
<1>9. e \in Messages /\ e.role = "tool" /\ Sided(e) /\ Uses(e) = {} /\ Results(e) = {id}
  BY <1>7, <1>8, ResultIs
<1>10. PICK Y : Y = Append(X, e) OBVIOUS
<1>11. /\ Y \in Seq(Messages) /\ Windows(Y) /\ Len(Y) = Len(X) + 1
       /\ \A k \in 1 .. Len(X) : Y[k] = X[k]
       /\ IF wants = {id} THEN AnsweredBy(Y, Len(Y)) ELSE Waits(Y, p)
  BY <1>1, <1>2, <1>3, <1>4, <1>7, <1>9, <1>10, ResultAfter
<1>12. Y # <<>> /\ Y[1].role = "user"
  <2>1. 1 \in 1 .. Len(X) BY <1>1, <1>2
  <2> QED BY <1>1, <1>2, <1>11, <2>1
<1>13. p \in DOMAIN Y BY <1>11
<1>14. entries' = Y BY <1>2, <1>4, <1>6, <1>8, <1>10 DEF Result
<1>15. phase' = (IF wants = {id} THEN "boundary" ELSE "running")
  BY <1>2, <1>4, <1>6 DEF Result
<1>16. last' = last BY DEF Result
<1>17. Lawful' BY <1>1, <1>16 DEF Lawful
<1>18. RequestTypeOK'
  <2>1. files \subseteq Selectable /\ acts \in Nat BY <1>1 DEF RequestTypeOK
  <2>2. \/ files' = files /\ acts' = acts
        \/ /\ acts' = acts + 1
           /\ \E f \in Selectable : files' = (files \ {f}) \cup ({f} \ files)
    BY DEF Result
  <2>3. files' \subseteq Selectable /\ acts' \in Nat BY <2>1, <2>2
  <2> QED BY <1>1, <1>11, <1>14, <1>15, <2>3 DEF RequestTypeOK, Result
<1> QED BY <1>11, <1>12, <1>13, <1>14, <1>15, <1>17, <1>18 DEF RequestInv

LEMMA ForkedKeeps ==
    ASSUME RequestInv, Forked
    PROVE  RequestInv'
<1>1. RequestTypeOK /\ Lawful /\ entries # <<>> /\ entries[1].role = "user" /\ Windows(entries)
      /\ IF phase = "running" THEN \E p \in DOMAIN entries : Waits(entries, p)
         ELSE AnsweredBy(entries, Len(entries))
  BY DEF RequestInv
<1>2. PICK X \in Seq(Messages) : X = entries BY <1>1 DEF RequestTypeOK
<1>3. PICK S : S = SettledPart(X) OBVIOUS
<1>4. S \in Seq(Messages) /\ Windows(S) /\ AnsweredBy(S, Len(S)) /\ (S # <<>> => S[1].role = "user")
  <2>1. CASE Unsettled(X).calls = {}
    <3>1. S = X BY <1>3, <2>1 DEF SettledPart
    <3>2. ASSUME phase = "running" PROVE FALSE
      <4>1. PICK p \in 1 .. Len(X) : Waits(X, p) BY <1>1, <1>2, <3>2
      <4>2. Unsettled(X).calls = Uses(X[p]) \ Answers(X, p, Len(X))
        BY <1>1, <1>2, <4>1, WaitingIs
      <4> QED BY <2>1, <4>1, <4>2 DEF Waits
    <3> QED BY <1>1, <1>2, <3>1, <3>2
  <2>2. CASE Unsettled(X).calls # {}
    <3>1. PICK at \in 1 .. Len(X) : at = Unsettled(X).at /\ X[at].role = "assistant"
      BY <1>2, <2>2, UnsettledAt
    <3>2. AnsweredBy(X, at - 1) BY <1>1, <1>2, <3>1 DEF Windows
    <3>3. PICK n \in 0 .. Len(X) : n = at - 1 BY <1>2, <3>1
    <3>4. S = SubSeq(X, 1, n) BY <1>3, <2>2, <3>1, <3>3 DEF SettledPart
    <3>5. S \in Seq(Messages) /\ Len(S) = n /\ Windows(S) /\ \A k \in 1 .. n : S[k] = X[k]
      BY <1>1, <1>2, <3>3, <3>4, WindowsBefore
    <3>6. n \in 0 .. n BY <3>3
    <3>7. AnsweredBy(S, n) BY <1>1, <1>2, <3>2, <3>3, <3>4, <3>6, WindowsBefore
    <3>8. S # <<>> => 1 \in 1 .. n BY <3>3, <3>5
    <3> QED BY <1>1, <1>2, <3>5, <3>7, <3>8
  <2> QED BY <2>1, <2>2
<1>5. entries' = Append(S, Entry("user", <<Said>>)) BY <1>2, <1>3 DEF Forked
<1>6. /\ entries' \in Seq(Messages) /\ Windows(entries') /\ AnsweredBy(entries', Len(entries'))
      /\ entries' # <<>> /\ entries'[1].role = "user"
  BY <1>4, <1>5, SaidAfter
<1>7. phase' = "boundary" /\ last' = NoRequest BY DEF Forked
<1>8. last' \in Requests /\ Lawful'
  <2>1. <<>> \in Seq(Messages) /\ <<>> \in Seq(Declared) /\ DOMAIN <<>> = {} OBVIOUS
  <2>2. last' \in Requests BY <1>7, <2>1 DEF NoRequest, Requests
  <2>3. last'.messages = <<>> /\ last'.tools = <<>> BY <1>7 DEF NoRequest
  <2> QED BY <2>1, <2>2, <2>3 DEF Lawful, IsInjective
<1>9. RequestTypeOK'
  <2>1. granted' \subseteq Range(ToolNames) /\ acts' \in Nat BY <1>1 DEF Forked, RequestTypeOK
  <2> QED BY <1>1, <1>6, <1>7, <1>8, <2>1 DEF RequestTypeOK, Forked
<1> QED BY <1>6, <1>7, <1>8, <1>9 DEF RequestInv

\* A change of the config, of the tools, and of nothing.
LEMMA SameTranscript ==
    ASSUME RequestInv, UNCHANGED <<phase, entries, overflow, last>>,
           files' \subseteq Selectable, granted' \subseteq Range(ToolNames),
           injected' \subseteq Host, soul' \in Int, acts' \in Nat
    PROVE  RequestInv'
<1>1. RequestTypeOK' BY DEF RequestInv, RequestTypeOK
<1>2. Lawful' BY DEF RequestInv, Lawful
<1> QED BY <1>1, <1>2 DEF RequestInv

LEMMA ChangesKeep ==
    ASSUME RequestInv, EditSoul \/ EditGrant \/ HostChanges \/ UNCHANGED requestVars
    PROVE  RequestInv'
<1>1. RequestTypeOK BY DEF RequestInv
<1>2. UNCHANGED <<phase, entries, files, overflow, last>>
  BY DEF EditSoul, EditGrant, HostChanges, Change, requestVars
<1>3. soul' \in Int /\ acts' \in Nat
  BY <1>1 DEF RequestTypeOK, EditSoul, EditGrant, HostChanges, Change, requestVars
<1>4. granted' \subseteq Range(ToolNames)
  BY <1>1 DEF RequestTypeOK, EditSoul, EditGrant, HostChanges, Change, requestVars
<1>5. injected' \subseteq Host
  BY <1>1 DEF RequestTypeOK, EditSoul, EditGrant, HostChanges, Change, requestVars
<1>6. files' \subseteq Selectable BY <1>1, <1>2 DEF RequestTypeOK
<1> QED BY <1>2, <1>3, <1>4, <1>5, <1>6, SameTranscript

LEMMA LandingKeeps ==
    ASSUME FilesAssumption, RequestInv, Landing
    PROVE  RequestInv'
<1>1. RequestTypeOK /\ Lawful /\ entries # <<>> /\ entries[1].role = "user" /\ Windows(entries)
      /\ AnsweredBy(entries, Len(entries))
  BY DEF RequestInv, Landing, Change
<1>2. PICK X \in Seq(Messages) : X = entries BY <1>1 DEF RequestTypeOK
<1>3. PICK n \in 2 .. Len(X) :
        /\ n < Len(X) => X[n + 1].role # "tool"
        /\ entries' = <<X[1]>> \o SubSeq(X, n + 1, Len(X))
  BY <1>2 DEF Landing
<1>4. 1 \in 1 .. Len(X) BY <1>3
<1>5. PICK A \in Seq(Messages) : A = <<X[1]>>
  <2>1. X[1] \in Messages BY <1>2, <1>4
  <2>2. PICK m \in Messages : m = X[1] BY <2>1
  <2>3. <<m>> \in Seq(Messages) OBVIOUS
  <2> QED BY <2>2, <2>3
<1>6. Len(A) = 1 /\ A[1] = X[1] BY <1>5
<1>7. X[1] = entries[1] /\ Sided(X[1]) /\ X[1].role = "user" BY <1>1, <1>2, <1>4, SidesAre
<1>8. \A i \in 1 .. Len(A) : Sided(A[i]) /\ A[i].role = "user"
  <2>1. \A i \in 1 .. Len(A) : i = 1 BY <1>6
  <2> QED BY <1>6, <1>7, <2>1
<1>9. n \in 0 .. Len(X) /\ (n = Len(X) \/ X[n + 1].role # "tool") BY <1>2, <1>3
<1>10. PICK B : B = SubSeq(X, n + 1, Len(X)) OBVIOUS
<1>11. B \in Seq(Messages) /\ Windows(B) /\ AnsweredBy(B, Len(B))
  BY <1>1, <1>2, <1>9, <1>10, WindowsFrom
<1>12. PICK Y : Y = A \o B OBVIOUS
<1>13. Windows(Y) /\ AnsweredBy(Y, Len(Y)) BY <1>8, <1>11, <1>12, WindowsAfter
<1>14. Y \in Seq(Messages) /\ Len(Y) = 1 + Len(B) /\ Y[1] = A[1]
  <2>1. 1 \in 1 .. Len(A) + Len(B) /\ 1 <= Len(A) BY <1>6, <1>11
  <2> QED BY <1>6, <1>11, <1>12, <2>1, ConcatProperties
<1>15. Y # <<>> /\ Y[1].role = "user" BY <1>6, <1>7, <1>11, <1>14
<1>16. entries' = Y BY <1>3, <1>5, <1>10, <1>12
<1>17. phase' = "boundary" /\ last' = last BY DEF Landing, Change
<1>18. Lawful' BY <1>1, <1>17 DEF Lawful
<1>19. RequestTypeOK'
  <2>1. acts' \in Nat BY <1>1 DEF RequestTypeOK, Landing, Change
  <2>2. \E s \in Summaries : files' = files \cup {s} BY DEF Landing
  <2>3. files' \subseteq Selectable BY <1>1, <2>2 DEF RequestTypeOK, FilesAssumption
  <2> QED BY <1>1, <1>14, <1>16, <1>17, <2>1, <2>3 DEF RequestTypeOK, Landing, Change
<1> QED BY <1>13, <1>15, <1>16, <1>17, <1>18, <1>19 DEF RequestInv

LEMMA RequestNextInv ==
    ASSUME FilesAssumption, NamesAssumption, RequestInv, [RequestNext]_requestVars
    PROVE  RequestInv'
<1>1. CASE Hear BY <1>1, HearKeeps
<1>2. CASE Send BY <1>2, SendKeeps
<1>3. ASSUME NEW n \in 0 .. 2, NEW tools \in [1 .. n -> Range(ToolNames)], Reply(tools)
      PROVE  RequestInv'
  <2>1. tools \in Seq(Range(ToolNames)) OBVIOUS
  <2> QED BY <1>3, <2>1, ReplyKeeps
<1>4. CASE Result BY <1>4, ResultKeeps
<1>5. CASE Forked BY <1>5, ForkedKeeps
<1>6. CASE EditSoul \/ EditGrant \/ HostChanges \/ UNCHANGED requestVars
  BY <1>6, ChangesKeep
<1>7. CASE Landing BY <1>7, LandingKeeps
<1> QED BY <1>1, <1>2, <1>3, <1>4, <1>5, <1>6, <1>7 DEF RequestNext

\* The type invariant.
THEOREM RequestTyping ==
    ASSUME FilesAssumption, NamesAssumption, StartsAssumption
    PROVE  RequestSpec => []RequestTypeOK
<1>1. RequestInit => RequestInv BY InitIsLawful
<1>2. RequestInv /\ [RequestNext]_requestVars => RequestInv' BY RequestNextInv
<1>3. RequestInv => RequestTypeOK BY DEF RequestInv
<1> QED BY <1>1, <1>2, <1>3, PTL DEF RequestSpec

\* Every request a branch sends is one a provider accepts (assembler.rs,
\* pairing.rs, tools/history.rs), whatever steps, changes, forks and landings
\* came before it: sides alternate, none is empty, each call has its result in
\* the next entry, each result its call, and each tool called is declared once.
THEOREM RequestsAreLawful ==
    ASSUME FilesAssumption, NamesAssumption, StartsAssumption
    PROVE  RequestSpec => []Lawful
<1>1. RequestInit => RequestInv BY InitIsLawful
<1>2. RequestInv /\ [RequestNext]_requestVars => RequestInv' BY RequestNextInv
<1>3. RequestInv => Lawful BY DEF RequestInv
<1> QED BY <1>1, <1>2, <1>3, PTL DEF RequestSpec
=============================================================================
