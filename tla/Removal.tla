------------------------------- MODULE Removal -------------------------------
(***************************************************************************)
(* `litany delete` beside the creations and the drivers of a workspace: it *)
(* lists the marks, then every home that remembers an id of the subtree,   *)
(* declines when an executor holds the lock of one, and removes the homes  *)
(* one after the other; it may be killed between any two and run again.    *)
(***************************************************************************)
EXTENDS Creation

CONSTANTS MaxDeletes     \* bound: runs of `litany delete`
ASSUME DeletesAssumption == MaxDeletes \in Nat

VARIABLES
    del,       \* the running delete
    touched,   \* history: the ids that gained a home since it began
    deletes

lifeVars == <<creation, del, touched, deletes>>

Idle == [at |-> "idle", root |-> <<>>, children |-> FALSE, marks |-> {}, ids |-> {}, work |-> {}]

LifeInit == CreationInit /\ del = Idle /\ touched = {} /\ deletes = 0

-----------------------------------------------------------------------------
MarkRefs(r, kids) ==
    /\ del.at \in {"idle", "done"} /\ deletes < MaxDeletes
    /\ deletes' = deletes + 1 /\ touched' = {}
    /\ del' = [at |-> "list", root |-> r, children |-> kids,
               marks |-> {i \in Ids : "mark" \in home[i]}, ids |-> {}, work |-> {}]
    /\ UNCHANGED creation

\* The union of the homes that remember an id of the subtree; the marks as
\* they were listed before.
\* Mutant: only what still has a ref is deleted.
Targets_Refs == {i \in Subtree(del.root) : "ref" \in home[i]}
Targets == {i \in Subtree(del.root) : home[i] \ {"mark"} # {} \/ i \in del.marks}
List ==
    /\ del.at = "list"
    /\ del' = IF del.children \/ Targets \subseteq {del.root}
              THEN [del EXCEPT !.at = "probe", !.ids = Targets] ELSE Idle
    /\ UNCHANGED <<creation, touched, deletes>>

\* What is removed: the directories of each id, root first (ids are sorted,
\* and a descendant's begins with its ancestor's), then the refs, and then
\* the marks that were listed.
Rank(h) == CASE h = "worktree" -> 1 [] h = "steps" -> 2 [] h = "inbox" -> 3
             [] h = "ref" -> 4 [] h = "mark" -> 5
Dirs == {"worktree", "steps", "inbox"}
Removals(ids, marks) == (ids \X (Dirs \cup {"ref"})) \cup ((ids \cap marks) \X {"mark"})
Before(v, w) ==
    IF {v[2], w[2]} \subseteq Dirs /\ v[1] # w[1] THEN DepthOf(v[1]) < DepthOf(w[1])
    ELSE Rank(v[2]) < Rank(w[2]) \/ (v[2] = w[2] /\ DepthOf(v[1]) < DepthOf(w[1]))

\* Every lock is probed, let go of, and only then is anything removed.
Quiescent(i) == "inbox" \in home[i] => drive[i] = "off"
Probe ==
    /\ del.at = "probe"
    /\ del' = IF \A i \in del.ids : Quiescent(i)
              THEN [del EXCEPT !.at = "remove", !.ids = {}, !.work = Removals(del.ids, del.marks)]
              ELSE Idle
    /\ UNCHANGED <<creation, touched, deletes>>

Removes(i, h) ==
    /\ home' = [home EXCEPT ![i] = @ \ {h}]
    /\ worn' = IF h = "ref" THEN [worn EXCEPT ![i] = Unnamed] ELSE worn
    /\ committed' = IF h = "ref" THEN committed \ {i} ELSE committed
    /\ spent' = IF h = "steps" THEN [spent EXCEPT ![i] = 0] ELSE spent
    /\ mail' = IF h = "inbox" THEN mail \ {i} ELSE mail
RemoveNext ==
    /\ del.at = "remove"
    /\ \E w \in del.work :
         /\ \A v \in del.work : ~Before(v, w)
         /\ Removes(w[1], w[2])
         /\ del' = [del EXCEPT !.work = @ \ {w}]
    /\ UNCHANGED <<phase, given, drive, overlapped, crashes, touched, deletes>>
Report ==
    /\ del.at = "remove" /\ del.work = {} /\ del' = [del EXCEPT !.at = "done", !.marks = {}]
    /\ UNCHANGED <<creation, touched, deletes>>
DeleteKilled ==
    /\ del.at = "remove" /\ del.work # {} /\ crashes < MaxCrashes
    /\ crashes' = crashes + 1 /\ del' = Idle
    /\ UNCHANGED <<phase, given, home, committed, worn, mail, drive, spent, overlapped,
                   touched, deletes>>

Delete == (\E r \in Ids, kids \in BOOLEAN : MarkRefs(r, kids))
          \/ List \/ Probe \/ RemoveNext \/ Report \/ DeleteKilled

LifeNext ==
    \/ /\ CreationNext
       /\ touched' = touched \cup {i \in Ids : ~(home'[i] \subseteq home[i])}
       /\ UNCHANGED <<del, deletes>>
    \/ Delete

LifeSpec == LifeInit /\ [][LifeNext]_lifeVars

-----------------------------------------------------------------------------
(* Properties.                                                             *)

\* A delete that reports has removed every home of the id it was asked to
\* remove, whatever a creation or a delete killed before it had left of it; of
\* a subtree, all that nobody has made again meanwhile.  And a dispatch that
\* was refused has left nothing to remove.
NothingLeft ==
    /\ del.at = "done" => \A i \in Subtree(del.root) \ touched : home[i] = {}
    /\ \A i \in Ids : phase[i] = "refused" => home[i] = {}
=============================================================================
