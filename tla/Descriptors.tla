---------------------------- MODULE Descriptors ----------------------------
(* What an agent's tree describes and what its model call declares:         *)
(* step_commit/descriptors.rs, descriptors/refresh.rs, the step boundary of *)
(* advance/hop.rs and exchange.rs, and tools.rs.                            *)
(*                                                                         *)
(* A descriptor is the pair of a schema and of the frontmatter beside it,   *)
(* each a version or 0 for a path a tree does not carry; OWN is the version *)
(* an agent wrote itself.                                                   *)
EXTENDS Integers, Sequences, SequencesExt, FiniteSetsExt

CONSTANTS
    Tools,     \* tool names
    Granted,   \* the grants of the lineage's first commit: role -> tools
    Roles,     \* the roles of providers.yaml
    Agents,    \* ids
    MaxEdits,  \* bound: commits of the lineage, the first not counted
    MaxTree,   \* bound: commits of an agent that move its descriptors
    MaxCuts    \* bound: boundaries

ASSUME GrantsAssumption == Granted \in [Roles -> SUBSET Tools]
ASSUME RolesAssumption == "none" \notin Roles  \* no agent's role

OWN == -1
Unwritten == [t \in Tools |-> [schema |-> 0, prose |-> 0]]
Between == [grants |-> [r \in Roles |-> {}], tree |-> Unwritten]
Nothing == [agent |-> 0, at |-> 0, wire |-> {}, config |-> Between]

VARIABLES
    config,   \* the commit every agent follows: grants, and its descriptions/
    edits,    \* commits of the lineage
    role,     \* each agent's role, or "none" for an id no agent has
    trees,    \* its worktree and index, as far as descriptions/ goes
    commits,  \* the trees its ref's commits hold, oldest first
    boundary, \* the config its running boundary resolved, or Between
    recorded, \* the step recorded last: meta.json's commit and the tools sent
    cuts
descriptorVars == <<config, edits, role, trees, commits, boundary, recorded, cuts>>

Grant(resolved, a) == resolved.grants[role[a]]

-----------------------------------------------------------------------------
(* The lineage.  An edit grants or revokes a tool, or rewrites, adds or     *)
(* removes one file of descriptions/.                                       *)

Regranted(grants) == {[grants EXCEPT ![r] = SymDiff(@, {t})] : r \in Roles, t \in Tools}

Redescribed(tree) ==
    {[tree EXCEPT ![t].schema = v] : t \in Tools, v \in {0, edits + 2}}
      \cup {[tree EXCEPT ![t].prose = v] : t \in Tools, v \in {0, edits + 2}}

EditConfig ==
    /\ edits < MaxEdits
    /\ \/ \E grants \in Regranted(config.grants) : config' = [config EXCEPT !.grants = grants]
       \/ \E tree \in Redescribed(config.tree) : config' = [config EXCEPT !.tree = tree]
    /\ edits' = edits + 1
    /\ UNCHANGED <<role, trees, commits, boundary, recorded, cuts>>

-----------------------------------------------------------------------------
(* The cut.                                                                 *)

DescribedOf(resolved, granted) == {t \in granted : resolved.tree[t].schema # 0}

Ungranted(tree, granted) == {t \in Tools : tree[t].schema # 0} \ granted

DropUngranted(tree, granted) ==
    [t \in Tools |-> IF t \in Ungranted(tree, granted) THEN Unwritten[t] ELSE tree[t]]

(* A schema is checked out, and the frontmatter when the commit has one.    *)
CheckedOut(own, from) ==
    [schema |-> from.schema, prose |-> IF from.prose # 0 THEN from.prose ELSE own.prose]

\* Mutant: what the tree has already is not checked out again.
CheckoutGranted_Lacking(tree, resolved, granted) ==
    [t \in Tools |-> IF t \in granted /\ tree[t].schema = 0
                     THEN CheckedOut(tree[t], resolved.tree[t]) ELSE tree[t]]

CheckoutGranted(tree, resolved, granted) ==
    [t \in Tools |-> IF t \in granted THEN CheckedOut(tree[t], resolved.tree[t]) ELSE tree[t]]

(* derive, of a fork: the grant is described, or the dispatch declined.     *)
Derive(tree, resolved, granted) ==
    CheckoutGranted(DropUngranted(tree, granted), resolved, granted)

(* refresh, of a boundary: the drop reads the grant, the checkout only what *)
(* the commit describes of it.                                              *)
Refresh(tree, resolved, granted) ==
    CheckoutGranted(DropUngranted(tree, granted), resolved, DescribedOf(resolved, granted))

(* What tools.rs composes: the granted tools the worktree has a schema of.  *)
Wire(tree, granted) ==
    {[tool |-> t, schema |-> tree[t].schema, prose |-> tree[t].prose] :
        t \in {u \in granted : tree[u].schema # 0}}

-----------------------------------------------------------------------------
(* An agent.                                                                *)

Room(a) == Len(commits[a]) < MaxTree

Committed(a) == Last(commits[a])

(* A dispatch: of a root off the config commit, or of a child off the tip   *)
(* of the agent that dispatches it.                                         *)
Dispatch(a, r, fork) ==
    /\ role[a] = "none"
    /\ config.grants[r] = DescribedOf(config, config.grants[r])
    /\ LET tree == Derive(fork, config, config.grants[r])
       IN  /\ trees' = [trees EXCEPT ![a] = tree]
           /\ commits' = [commits EXCEPT ![a] = <<tree>>]
    /\ role' = [role EXCEPT ![a] = r]
    /\ UNCHANGED <<config, edits, recorded, cuts>>

(* `litany prompt`: the first step's boundary is the fork's resolution, and *)
(* is not cut again.  One conversation is followed.                         *)
StartRoot(a) ==
    /\ \A b \in Agents : role[b] = "none"
    /\ \E r \in Roles : /\ Dispatch(a, r, config.tree)
                        /\ boundary' = [boundary EXCEPT ![a] = config]

ForkChild(parent, a) ==
    /\ role[parent] # "none"
    /\ \E r \in Roles : Dispatch(a, r, Committed(parent))
    /\ UNCHANGED boundary

(* The boundary of a later step: resolve, and make the cut in the worktree. *)
Cut(a) ==
    /\ role[a] # "none" /\ boundary[a] = Between /\ cuts < MaxCuts /\ Room(a)
    /\ boundary' = [boundary EXCEPT ![a] = config]
    /\ trees' = [trees EXCEPT ![a] = Refresh(@, config, Grant(config, a))]
    /\ cuts' = cuts + 1
    /\ UNCHANGED <<config, edits, role, commits, recorded>>

(* git, asked whether anything moved, says so, and the cut is committed.    *)
Refreshed(a) ==
    IF trees[a] = Committed(a) THEN commits[a] ELSE Append(commits[a], trees[a])

(* The refresh is committed, the tip is captured, and the request composed. *)
Record(a) ==
    /\ boundary[a] # Between
    /\ commits' = [commits EXCEPT ![a] = Refreshed(a)]
    /\ recorded' = [agent |-> a, at |-> Len(Refreshed(a)), config |-> boundary[a],
                    wire |-> Wire(trees[a], Grant(boundary[a], a))]
    /\ boundary' = [boundary EXCEPT ![a] = Between]
    /\ UNCHANGED <<config, edits, role, trees, cuts>>

(* The driver dies between the cut and its commit. *)
Die(a) ==
    /\ boundary[a] # Between
    /\ boundary' = [boundary EXCEPT ![a] = Between]
    /\ UNCHANGED <<config, edits, role, trees, commits, recorded, cuts>>

(* A message is delivered; its commit takes what a dead driver staged. *)
Deliver(a) ==
    /\ role[a] # "none" /\ boundary[a] = Between /\ Room(a) /\ trees[a] # Committed(a)
    /\ commits' = [commits EXCEPT ![a] = Append(@, trees[a])]
    /\ UNCHANGED <<config, edits, role, trees, boundary, recorded, cuts>>

(* A tool the agent ran leaves a descriptor removed or rewritten, and its   *)
(* result's commit stages the whole worktree.                               *)
ToolEdits(a) ==
    /\ role[a] # "none" /\ boundary[a] = Between /\ Room(a)
    /\ \E t \in Tools, v \in {0, OWN} :
         /\ trees[a][t].schema # v
         /\ trees' = [trees EXCEPT ![a][t].schema = v]
    /\ commits' = [commits EXCEPT ![a] = Append(@, trees'[a])]
    /\ UNCHANGED <<config, edits, role, boundary, recorded, cuts>>

DescriptorsInit ==
    /\ config = [grants |-> Granted, tree |-> [t \in Tools |-> [schema |-> 1, prose |-> 1]]]
    /\ edits = 0 /\ cuts = 0
    /\ role = [a \in Agents |-> "none"]
    /\ trees = [a \in Agents |-> Unwritten]
    /\ commits = [a \in Agents |-> <<>>]
    /\ boundary = [a \in Agents |-> Between]
    /\ recorded = Nothing

DescriptorsNext ==
    \/ EditConfig
    \/ \E a \in Agents : \/ StartRoot(a) \/ Cut(a) \/ Record(a) \/ Die(a)
                         \/ Deliver(a) \/ ToolEdits(a)
                         \/ \E parent \in Agents : ForkChild(parent, a)

DescriptorsSpec == DescriptorsInit /\ [][DescriptorsNext]_descriptorVars

-----------------------------------------------------------------------------
(* A step can be assembled again from the commit its meta.json names: what  *)
(* was sent is what that commit's tree composes, whatever moved since, who  *)
(* died with the cut staged, and whose descriptors a tool had touched.  And *)
(* that tree is the callable set: it describes nothing the role is not      *)
(* granted, and what the config describes of the grant it describes as the  *)
(* config does, with no tool's or parent's version of it left over.         *)
Replayable ==
    recorded # Nothing =>
        LET tree == commits[recorded.agent][recorded.at]
            granted == Grant(recorded.config, recorded.agent)
        IN  /\ recorded.wire = Wire(tree, granted)
            /\ Ungranted(tree, granted) = {}
            /\ \A t \in DescribedOf(recorded.config, granted) :
                 /\ tree[t].schema = recorded.config.tree[t].schema
                 /\ recorded.config.tree[t].prose \in {0, tree[t].prose}
=============================================================================
