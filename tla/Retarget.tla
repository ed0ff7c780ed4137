------------------------------ MODULE Retarget ------------------------------
(***************************************************************************)
(* How an operator moves a running agent to another config lineage or      *)
(* another role, while lineages are being written: `litany retarget` marks *)
(* a commit and a role on two refs, and the agent's own executor consumes  *)
(* them at its next step boundary by founding the branch anew on the       *)
(* target.  Standing marks override the workflow and the model alone, and  *)
(* every step resolves afresh what it reads.                               *)
(***************************************************************************)
EXTENDS Authoring

CONSTANTS
    Moved,        \* the agents that are retargeted; one is the other's child
    Root,         \* the one among them that has no parent
    MaxMarks      \* bound: invocations of the marking verbs

ASSUME MovedAssumption == Moved \subseteq Agents \ Reviewers /\ Root \in Moved
ASSUME MaxMarksAssumption == MaxMarks \in Nat

VARIABLES
    role,         \* the role in the subject of each agent's founding commit
    mark,         \* refs/litany/retarget/<agent>
    rolemark,     \* refs/litany/role/<agent>
    flowmark,     \* refs/litany/workflow/<agent>, standing
    modelmark,    \* refs/litany/model/<agent> stands
    verb,         \* the `litany retarget` process
    landing,      \* where each agent's executor is with its marks
    ran,          \* the config commit the last step of each agent resolved
    settled,      \* history: the commit the last landing was to found it on
    marks

agentvars == <<role, mark, rolemark, flowmark, modelmark, verb, landing, ran, settled, marks>>
vars == <<authored, config, readmark, agentvars>>

NoRole == "unmarked"
NoVerb == [at |-> "off", agent |-> "none", commit |-> NoCommit, role |-> NoRole,
           name |-> "none"]

Init ==
    /\ AuthoringInit
    /\ role = [a \in Moved |-> "worker"]
    /\ mark = [a \in Moved |-> NoCommit] /\ rolemark = [a \in Moved |-> NoRole]
    /\ flowmark = [a \in Moved |-> NoCommit] /\ modelmark = [a \in Moved |-> FALSE]
    /\ verb = NoVerb /\ landing = [a \in Moved |-> "off"]
    /\ ran = [a \in Moved |-> NoCommit] /\ settled = [a \in Moved |-> NoCommit]
    /\ marks = 0

\* A config declares and souls the worker, and the planner once that has
\* been authored.
Roles == {"worker", "planner"}
Declares(c, r) == r = "worker" \/ r \in commits[c].tree

-----------------------------------------------------------------------------
(* The marking verbs.                                                      *)

Asks == marks < MaxMarks /\ marks' = marks + 1 /\ UNCHANGED <<config, readmark, authored>>

\* preflight: what is left to change, and every refusal before a mark.  The
\* role is asked of the target only when it changes.
Wanted(a, n, r) ==
    [at |-> "marks", agent |-> a, name |-> n,
     commit |-> IF Followed(config[a]) = refs[n] THEN NoCommit ELSE refs[n],
     role |-> IF r = role[a] THEN NoRole ELSE r]
IsNoop(v) == v.commit = NoCommit /\ v.role = NoRole
Retarget(a) ==
    /\ verb = NoVerb /\ Governed(config[a]) /\ Asks
    /\ \E n \in Names, r \in Roles :
         LET v == Wanted(a, n, r)
         IN /\ Exists(n) /\ ~IsNoop(v)
            /\ v.role # NoRole => Declares(refs[n], r)
            /\ verb' = v
    /\ UNCHANGED <<role, mark, rolemark, flowmark, modelmark, landing, ran, settled>>

\* The commit's mark is written first, then the role's.
MarkCommit ==
    /\ verb.at = "marks" /\ verb' = [verb EXCEPT !.at = "role"]
    /\ mark' = IF verb.commit = NoCommit THEN mark ELSE [mark EXCEPT ![verb.agent] = verb.commit]
    /\ UNCHANGED <<config, readmark, authored, role, rolemark, flowmark, modelmark, landing, ran,
                   settled, marks>>
MarkRole ==
    /\ verb.at = "role" /\ verb' = NoVerb
    /\ rolemark' = IF verb.role = NoRole THEN rolemark
                   ELSE [rolemark EXCEPT ![verb.agent] = verb.role]
    /\ UNCHANGED <<config, readmark, authored, role, mark, flowmark, modelmark, landing, ran,
                   settled, marks>>

\* `litany workflow --config <name>` and --clear.
SwitchWorkflow(a) ==
    /\ Asks
    /\ \E c \in {refs[n] : n \in Names} :
         c # flowmark[a] /\ flowmark' = [flowmark EXCEPT ![a] = c]
    /\ UNCHANGED <<role, mark, rolemark, modelmark, verb, landing, ran, settled>>

\* `litany model`: a pick overlays a role the followed config declares.
PickModel(a) ==
    /\ Asks
    /\ modelmark[a] \/ (Governed(config[a]) /\ Declares(Followed(config[a]), role[a]))
    /\ modelmark' = [modelmark EXCEPT ![a] = ~@]
    /\ UNCHANGED <<role, mark, rolemark, flowmark, verb, landing, ran, settled>>

-----------------------------------------------------------------------------
(* The landing, at the agent's step boundary.                              *)

Marked(a) == mark[a] # NoCommit \/ rolemark[a] # NoRole

\* An absent mark is the state the branch is in.
Target(a) == IF mark[a] = NoCommit THEN Followed(config[a]) ELSE mark[a]
Becomes(a) == IF rolemark[a] = NoRole THEN role[a] ELSE rolemark[a]
NoOp(a) == Target(a) = Followed(config[a]) /\ rolemark[a] = NoRole
Lands(a) == Governed(config[a]) /\ ~NoOp(a) /\ Declares(Target(a), Becomes(a))
\* Mutant: the new founding commit keeps the parent of the old.
Founds_Rebased(a) == config[a]
\* base::commit: the founding commit anew, on the target, with the role's
\* soul; then the replay.
Founds(a) == Target(a)
Reforks(a) ==
    /\ config' = [config EXCEPT ![a] = Founds(a)]
    /\ role' = [role EXCEPT ![a] = Becomes(a)]
    /\ settled' = [settled EXCEPT ![a] = Target(a)]
    /\ ran' = [ran EXCEPT ![a] = NoCommit]
Consume(a) ==
    /\ landing[a] = "off" /\ Marked(a)
    /\ landing' = [landing EXCEPT ![a] = "answered"]
    /\ \/ Lands(a) /\ Reforks(a)
       \/ UNCHANGED <<config, role, settled, ran>>   \* a no-op, a refusal, a conflict
    /\ UNCHANGED <<readmark, authored, mark, rolemark, flowmark, modelmark, verb, marks>>

\* Both marks go, one after the other, whatever the outcome and whatever has
\* been written to them since.
ClearCommit(a) ==
    /\ landing[a] = "answered" /\ landing' = [landing EXCEPT ![a] = "cleared"]
    /\ mark' = [mark EXCEPT ![a] = NoCommit]
    /\ UNCHANGED <<config, readmark, authored, role, rolemark, flowmark, modelmark, verb, ran,
                   settled, marks>>
ClearRole(a) ==
    /\ landing[a] = "cleared" /\ landing' = [landing EXCEPT ![a] = "off"]
    /\ rolemark' = [rolemark EXCEPT ![a] = NoRole]
    /\ UNCHANGED <<config, readmark, authored, role, mark, flowmark, modelmark, verb, ran,
                   settled, marks>>

LandingDies(a) ==
    /\ landing[a] # "off" /\ crashes < MaxCrashes /\ crashes' = crashes + 1
    /\ landing' = [landing EXCEPT ![a] = "off"]
    /\ UNCHANGED <<config, readmark, commits, refs, checkout, pass, verdict, proposed,
                   crossed, passes, role, mark, rolemark, flowmark, modelmark, verb, ran, settled,
                   marks>>

-----------------------------------------------------------------------------
(* resolve_worker, at every step.                                          *)

\* nearest_mark: the agent's own, else its ancestor's.
Flow(a) ==
    CASE flowmark[a] # NoCommit -> flowmark[a]
      [] flowmark[a] = NoCommit /\ flowmark[Root] # NoCommit -> flowmark[Root]
      [] OTHER -> Followed(config[a])
\* check_workflow_against_roles: a workflow that dispatches the planner is
\* that of a config that declares it.
Dispatches(c) == "planner" \in commits[c].tree
Resolves(a) ==
    /\ Governed(config[a]) /\ Declares(Followed(config[a]), role[a])
    /\ Dispatches(Flow(a)) => Declares(Followed(config[a]), "planner")
Step(a) ==
    /\ landing[a] = "off" /\ ~Marked(a) /\ Resolves(a)
    /\ ran' = [ran EXCEPT ![a] = Followed(config[a])]
    /\ UNCHANGED <<config, readmark, authored, role, mark, rolemark, flowmark, modelmark, verb,
                   landing, settled, marks>>

RetargetNext ==
    \/ MarkCommit \/ MarkRole
    \/ \E a \in Moved :
         \/ Retarget(a) \/ SwitchWorkflow(a) \/ PickModel(a)
         \/ Consume(a) \/ ClearCommit(a) \/ ClearRole(a) \/ LandingDies(a) \/ Step(a)
Next == (AuthoringNext /\ UNCHANGED agentvars) \/ RetargetNext
Spec == Init /\ [][Next]_vars

-----------------------------------------------------------------------------
(* What a careful operator relies on.                                      *)

\* Nothing goes back or sideways until an act has crossed another.  Lineages
\* go forward, and an agent nobody retargets is never handed the control of a
\* lineage beside its own: it goes on along its line, or back to its fork
\* commit while lineages diverge (current_config).
OnlyForward ==
    [][~crossed' =>
       /\ HeadsForward
       /\ \A a \in Moved :
            LET old == ran[a] new == ran'[a]
            IN (old # NoCommit /\ new # NoCommit) => IsAncestor(old, new) \/ IsAncestor(new, old)]_vars

\* From a landing on, and until an act has crossed another, the agent never
\* reads control older than the commit it was retargeted to, whatever is
\* authored, accepted or forked afterwards (base::commit and the governing
\* query).
LandedWhere ==
    ~crossed =>
    \A a \in Moved : settled[a] # NoCommit => IsAncestor(settled[a], Followed(config[a]))
=============================================================================
