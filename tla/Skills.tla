------------------------------- MODULE Skills -------------------------------
(***************************************************************************)
(* Where a skill's body lives and who may change it.  A body is the        *)
(* install's, in the pool `litany prime` seeds, or the workspace's,        *)
(* committed in the config lineage at skills/<name>/; a fork inherits      *)
(* descriptions only, and load_skill copies a body into the branch.  A     *)
(* reviewer is forked with the lineage's bodies read in fresh, edits them, *)
(* and returns: its edits are staged as a proposal the operator accepts or *)
(* rejects.  The operator also authors the lineage himself, moves bodies   *)
(* to and from the archive, and upgrades the install.                      *)
(*                                                                         *)
(* There is one lineage, a sequence of commits the last of which every     *)
(* agent follows.  A body is a number: Absent, the Pool's, or one written  *)
(* since.  Passes are atomic here (Authoring interleaves their steps);     *)
(* the facts document, the other thing a proposal carries, is Authoring's. *)
(***************************************************************************)
EXTENDS Integers, SequencesExt, FiniteSetsExt

CONSTANTS
    Names,     \* skill names
    Releases,  \* the pool each release of the binary ships
    Claimed,   \* the names a tool's schema is committed beside
    Ids,       \* the agents' ids
    Older,     \* whether a root may be started off an older config commit
    MaxBodies, \* bound: bodies written
    MaxCommits \* bound: commits of the lineage

ReleasesAssumption == Releases \subseteq SUBSET Names
BodiesAssumption == MaxBodies \in Nat

VARIABLES
    pool,      \* the names under <data-root>/skills
    lineage,   \* the config commits, oldest first
    agents,    \* each agent: its branch, as far as skills go
    proposals, \* the commit on proposal/<id>, or None
    written    \* bodies written so far

skillsVars == <<pool, lineage, agents, proposals, written>>

None == [parent |-> 0]
Absent == 0
Pool == 1
Nowhere == [n \in Names |-> Absent]

Tip == Last(lineage)
Bodies == 0..MaxBodies + 1

-----------------------------------------------------------------------------
(* A tree of skills: the live bodies, and the archived ones.               *)

Tree == [live : [Names -> Bodies], archived : [Names -> Bodies]]
Empty == [live |-> Nowhere, archived |-> Nowhere]

Skills(commit) == [live |-> commit.live, archived |-> commit.archived]

\* What an author does to a tree: write a body, move one to the archive or
\* back, or remove one.
Edits(tree, body) ==
    {[tree EXCEPT !.live[n] = body] : n \in Names}
    \cup {[tree EXCEPT !.live[n] = Absent, !.archived[n] = tree.live[n]] :
             n \in {m \in Names : tree.live[m] # Absent}}
    \cup {[tree EXCEPT !.live[n] = tree.archived[n], !.archived[n] = Absent] :
             n \in {m \in Names : tree.archived[m] # Absent /\ tree.live[m] = Absent}}

Writes(tree, edited) == \E n \in Names : edited.live[n] \notin {Absent, tree.live[n], tree.archived[n]}

Collides(tree) == \E n \in pool : tree.live[n] # Absent

\* What the authoring pass commits: the edited tree, with every name of both
\* homes described afresh over what the parent's checkout described.
Snapshot(parent, tree) ==
    [live |-> tree.live, archived |-> tree.archived,
     described |-> parent.described \cup pool \cup {n \in Names : tree.live[n] # Absent}]

-----------------------------------------------------------------------------
(* The install and the operator.                                           *)

\* Seeds what is absent and clobbers nothing.
Prime ==
    \E release \in Releases :
        /\ pool' = pool \cup release
        /\ UNCHANGED <<lineage, agents, proposals, written>>

\* `litany config` declines a pass that changes nothing, and a name both
\* homes hold.
Config ==
    /\ Len(lineage) < MaxCommits
    /\ written < MaxBodies
    /\ \E tree \in Edits(Skills(Tip), written + 2) :
          /\ ~ Collides(tree)
          /\ Snapshot(Tip, tree) # Tip
          /\ lineage' = Append(lineage, Snapshot(Tip, tree))
          /\ written' = IF Writes(Skills(Tip), tree) THEN written + 1 ELSE written
    /\ UNCHANGED <<pool, agents, proposals>>

Accept ==
    \E r \in Ids :
        /\ Len(lineage) < MaxCommits
        /\ proposals[r].parent = Len(lineage)
        /\ lineage' = Append(lineage, proposals[r].commit)
        /\ proposals' = [proposals EXCEPT ![r] = None]
        /\ UNCHANGED <<pool, agents, written>>

Reject ==
    \E r \in Ids :
        /\ proposals[r] # None
        /\ proposals' = [proposals EXCEPT ![r] = None]
        /\ UNCHANGED <<pool, lineage, agents, written>>

-----------------------------------------------------------------------------
(* Forks.                                                                  *)

Unborn == [role |-> "none", tree |-> Empty, founding |-> Empty, read |-> 0,
           added |-> {}]

Standing == {a \in Ids : agents[a].role \notin {"none", "gone"}}

\* The lineage's bodies leave: exactly the names the commit shares with the
\* tree, the archive's container among them.
DropConfigBodies(tree, commit) ==
    [live |-> [n \in Names |-> IF commit.live[n] # Absent THEN Absent ELSE tree.live[n]],
     archived |-> IF commit.archived # Nowhere THEN Nowhere ELSE tree.archived]

\* What the forked tree carries over: all of it for a procedure child, whose
\* subject it is, and for a root forked back in; nothing for another child.
Inherited(tree, keeps) == IF keeps THEN tree ELSE Empty

\* Mutant: the drop stands, but the reviewer is left what its fork point had.
FreshRead_Inherited(tree, commit) ==
    [live |-> tree.live, archived |-> commit.archived]

\* The reviewer's fresh read writes the commit's own bodies over what is left.
FreshRead(tree, commit) ==
    [live |-> [n \in Names |-> IF commit.live[n] # Absent THEN commit.live[n] ELSE tree.live[n]],
     archived |-> [n \in Names |->
                      IF commit.archived[n] # Absent THEN commit.archived[n]
                                                     ELSE tree.archived[n]]]

Trim(tree, role, commit) ==
    LET dropped == DropConfigBodies(tree, commit)
    IN  IF role = "reviewer" THEN FreshRead(dropped, commit) ELSE dropped

\* The names whose body a commit adds, as git sees it.
Added(before, after) ==
    {n \in Names : before.live[n] = Absent /\ after.live[n] # Absent}

Dispatched(a, role, from, tree, history) ==
    agents' = [agents EXCEPT ![a] =
        [role |-> role, tree |-> tree, founding |-> tree, read |-> Len(lineage),
         added |-> history \cup Added(from, tree)]]

\* `litany prompt`: a root forks off the lineage's head, or with --from off
\* any ref at all, and follows the head in either case.
Root ==
    \E a \in Ids, i \in 1..Len(lineage) :
        /\ agents[a].role = "none"
        /\ i = Len(lineage) \/ Older
        /\ LET from == Skills(lineage[i])
           IN  Dispatched(a, "worker", from, Trim(from, "worker", Tip), {})
        /\ UNCHANGED <<pool, lineage, proposals, written>>

\* A fork off an agent's branch shares its history.  Another child's tree
\* keeps none of the dispatcher's bodies; a reviewer's branch forks none.
Fork ==
    \E a \in Ids, p \in Standing, role \in {"worker", "reviewer"}, keeps \in BOOLEAN :
        /\ agents[a].role = "none"
        /\ role = "reviewer" => keeps /\ agents[p].role = "worker"
        /\ LET from == agents[p].tree
           IN  Dispatched(a, role, from, Trim(Inherited(from, keeps), role, Tip), agents[p].added)
        /\ UNCHANGED <<pool, lineage, proposals, written>>

-----------------------------------------------------------------------------
(* What an agent does to its tree.                                         *)

\* load_skill: a copy already there wins, then the followed commit, then the
\* pool; an unknown name is declined.
Body(tree, n) ==
    IF tree.live[n] # Absent THEN tree.live[n]
    ELSE IF Tip.live[n] # Absent THEN Tip.live[n]
    ELSE IF n \in pool THEN Pool
    ELSE Absent

LoadSkill ==
    \E a \in Standing, n \in Names :
        LET tree == agents[a].tree
            loaded == [tree EXCEPT !.live[n] = Body(tree, n)]
        IN  /\ agents[a].role = "worker"
            /\ loaded # tree
            /\ agents' = [agents EXCEPT ![a].tree = loaded,
                                        ![a].added = @ \cup Added(tree, loaded)]
            /\ UNCHANGED <<pool, lineage, proposals, written>>

\* Curation: an agent removes a body it is done with.
Curate ==
    \E a \in Standing, n \in Names :
        /\ agents[a].role = "worker"
        /\ agents[a].tree.live[n] # Absent
        /\ agents' = [agents EXCEPT ![a].tree.live[n] = Absent]
        /\ UNCHANGED <<pool, lineage, proposals, written>>

\* A reviewer's grant is read_file and apply_patch.
Patch ==
    \E r \in Standing : \E tree \in Edits(agents[r].tree, written + 2) :
        /\ written < MaxBodies
        /\ agents[r].role = "reviewer"
        /\ agents' = [agents EXCEPT ![r].tree = tree,
                                    ![r].added = @ \cup Added(agents[r].tree, tree)]
        /\ written' = IF Writes(agents[r].tree, tree) THEN written + 1 ELSE written
        /\ UNCHANGED <<pool, lineage, proposals>>

Delete ==
    \E a \in Standing :
        /\ agents' = [agents EXCEPT ![a] = [Unborn EXCEPT !.role = "gone"]]
        /\ UNCHANGED <<pool, lineage, proposals, written>>

-----------------------------------------------------------------------------
(* The reviewer's landing.                                                 *)

\* The reviewer's own edits: its founding commit's tree against its last.
Changed(a) == {n \in Names : a.founding.live[n] # a.tree.live[n]}
Moved(a) == {n \in Names : a.founding.archived[n] # a.tree.archived[n]}

\* A live name the pool does not hold; the archive's is always a workspace's.
Admitted(a) == Changed(a) \cap pool = {}

\* The patch applies where the parent's bodies are those it was read from.
Applies(a, commit) ==
    /\ \A n \in Changed(a) : commit.live[n] = a.founding.live[n]
    /\ \A n \in Moved(a) : commit.archived[n] = a.founding.archived[n]

Patched(a, commit) ==
    [live |-> [n \in Names |-> IF n \in Changed(a) THEN a.tree.live[n] ELSE commit.live[n]],
     archived |-> [n \in Names |-> IF n \in Moved(a) THEN a.tree.archived[n]
                                                     ELSE commit.archived[n]]]

\* The authoring pass: the proposal, or None when it declines.
Mint(a) ==
    LET parent == lineage[a.read]
        tree == Patched(a, parent)
    IN  IF Applies(a, parent) /\ ~ Collides(tree)
        THEN [parent |-> a.read, commit |-> Snapshot(parent, tree)]
        ELSE None

\* stage_proposal, refusal first; the return is consumed in every case.
StageProposal ==
    \E r \in Standing :
        LET a == agents[r]
        IN  /\ a.role = "reviewer"
            /\ agents' = [agents EXCEPT ![r].role = "returned"]
            /\ proposals' = [proposals EXCEPT ![r] =
                   IF /\ a.read = Len(lineage)
                      /\ Admitted(a)
                      /\ Changed(a) \cup Moved(a) # {}
                   THEN Mint(a) ELSE None]
            /\ UNCHANGED <<pool, lineage, written>>

-----------------------------------------------------------------------------
(* The census: `litany skills`.                                            *)

\* git log --diff-filter=A over agents/*, config/* excluded.
LastUse(n) == \E a \in Standing : n \in agents[a].added

Rows == {[name |-> n, owner |-> "workspace"] :
            n \in {m \in Names : Tip.archived[m] # Absent \/ Tip.live[m] # Absent}}
        \cup {[name |-> n, owner |-> "pool"] : n \in pool}

State(n) ==
    IF Tip.archived[n] # Absent THEN "archived"
    ELSE IF LastUse(n) THEN "active"
    ELSE IF n \in Claimed /\ n \in Tip.described THEN "claimed"
    ELSE "unused"

-----------------------------------------------------------------------------
\* `litany new` seeds from the template, which ships no skill, and describes
\* the pool.
SkillsInit ==
    /\ pool \in Releases
    /\ lineage = <<[live |-> Nowhere, archived |-> Nowhere, described |-> pool]>>
    /\ agents = [a \in Ids |-> Unborn]
    /\ proposals = [a \in Ids |-> None]
    /\ written = 0

SkillsNext ==
    \/ Prime \/ Config \/ Accept \/ Reject
    \/ Root \/ Fork \/ LoadSkill \/ Curate \/ Patch \/ Delete
    \/ StageProposal

SkillsSpec == SkillsInit /\ [][SkillsNext]_skillsVars

-----------------------------------------------------------------------------
(* A reviewer that edits the lineage's own bodies, or new names neither    *)
(* home holds, and returns while the lineage stands where it read it, gets *)
(* a proposal: exactly the lineage's tree with its edits in it.  The fresh *)
(* read at its dispatch commit is what the patch applies by; its           *)
(* dispatcher's copies, of the pool's or of older bodies, change nothing.  *)

Returns(r) == agents[r].role = "reviewer" /\ agents'[r].role = "returned"

Judgeable(a) ==
    /\ a.read = Len(lineage)
    /\ a.tree # a.founding
    /\ \A part \in {"live", "archived"}, n \in Names : a.tree[part][n] # a.founding[part][n] =>
          Tip[part][n] # Absent \/ a.founding[part][n] = Absent
    /\ \A n \in pool : a.tree.live[n] = a.founding.live[n]
    /\ ~ Collides(Skills(Tip))

ReviewLands == \A r \in Ids : Returns(r) /\ Judgeable(agents[r]) =>
    LET a == agents[r]
        Kept(part) == {n \in Names : a.tree[part][n] = a.founding[part][n]}
    IN  /\ proposals'[r].parent = Len(lineage)
        /\ \A part \in {"live", "archived"}, n \in Names :
              proposals'[r].commit[part][n] =
                  IF n \in Kept(part) THEN Tip[part][n] ELSE a.tree[part][n]

\* A skill the census shows as idle - unused, or only claimed by a tool - is
\* in no standing branch's tree: archiving it takes nothing from an agent.
IdleIsIdle == \A row \in Rows, a \in Standing :
    agents[a].tree.live[row.name] # Absent => State(row.name) \in {"active", "archived"}

\* What a reviewer wrote is proposed as it was written, and what an agent uses
\* is never offered to the operator as idle.
SkillsKept == [][ReviewLands /\ IdleIsIdle']_skillsVars
=============================================================================
