------------------------------ MODULE MCContext ------------------------------
(***************************************************************************)
(* TLC's instance of what goes into a model call and what comes out of it: *)
(* the skills and the descriptors a branch carries (Skills, Descriptors),  *)
(* the request composed of it (Request), the call (ModelCall), two of the  *)
(* tools it asks for (Patch, Paging) and the extract that survives a       *)
(* compaction (Extract).                                                   *)
(*                                                                         *)
(* They share no variable, each has the part of the branch it is about.  A *)
(* behaviour is a behaviour of one of them, chosen by `which`, while the   *)
(* others stand still.  Five are extended, and rest in an initial state,   *)
(* where their properties hold; Patch and Extract are instantiated, and a  *)
(* property of theirs is asked where it is chosen.                         *)
(***************************************************************************)
EXTENDS Descriptors, ModelCall, Skills, Paging, Request, TLC

CONSTANT NONE  \* no cap, no extract

VARIABLES
    which,
    \* Patch
    place, length, ops, sections, tree, matched, staged, next,
    \* Extract
    point, removed, cap, landed, extract

patchVars == <<place, length, ops, sections, tree, matched, staged, next>>
extractVars == <<point, removed, cap, landed, extract>>
vars == <<which, patchVars, extractVars, requestVars, pagingVars, skillsVars,
          descriptorVars, modelVars>>

-----------------------------------------------------------------------------
(* Patch: four paths, four trees, envelopes of up to five lines over two   *)
(* lines of text and a line that differs from one in blanks only.          *)

Text(lines) == [what |-> "text", lines |-> lines]
Node(what) == [what |-> what, lines |-> <<>>]
x == <<"x", 0>>
y == <<"y", 0>>
x1 == <<"x", 1>>
none == <<"", 0>>
Paths == {"a", "b", "d", "d/f"}
Dirs(a, b, d, f) ==
    [p \in Paths |-> CASE p = "a" -> a [] p = "b" -> b [] p = "d" -> d [] p = "d/f" -> f]
PatchTrees == {Dirs(Text(<<x, y, x>>), Node("absent"), Node("absent"), Node("absent")),
          Dirs(Text(<<y, x1, y, x>>), Text(<<y>>), Node("dir"), Text(<<x>>)),
          Dirs(Text(<<x, x1>>), Node("link"), Text(<<x>>), Node("absent")),
          Dirs(Text(<<y, x, y, x1>>), Node("dangling"), Node("absent"), Node("absent"))}
Marks == [kind : {"-", "+", "@@ "}, text : {x, y}]
           \cup [kind : {" "}, text : {x}]
           \cup [kind : {"@@", "eof", "blank"}, text : {none}]
Heads == [kind : {"update"}, path : {"a", "d"}]
           \cup [kind : {"add"}, path : {"b", "d", "d/f"}]
           \cup [kind : {"delete"}, path : {"a", "b", "d"}]
           \cup [kind : {"move"}, path : {"b", "d/f"}]
Inside == [p \in Paths |-> IF p = "d/f" THEN "d" ELSE p]

Patches == INSTANCE Patch WITH
    MaxLines <- 5, met <- matched, Trees <- PatchTrees, phase <- place, open <- sections

-----------------------------------------------------------------------------
(* Request: a pinned file, one of each other category and two summaries,   *)
(* a budget that holds three, two tools of the role and one of the host.   *)

MCCategory == <<1, 1, 2, 2>>
MCTokens == <<2, 3, 3, 3>>
MCToolNames == <<"a", "b", "h">>
MCStarts ==
    LET User == Entry("user", <<Said>>)
        Orphan == Entry("tool", <<Block("result", 9, "")>>)
    IN {<<User>>, <<User, Orphan, User>>}

-----------------------------------------------------------------------------
(* Paging: lines of up to twelve units that repeat a pattern of text,      *)
(* two-byte characters and bytes that are no text.                         *)

Patterns == [0 .. 2 -> {0, 1, 2}]
Row(p, n) == [i \in 1 .. n |-> p[i % 3]]

MCFiles ==
    {<<Row(p, n)>> : p \in Patterns, n \in {1, 9, 12}}
      \cup {<<Row(p, 9), Row(p, 4), Row(p, 1)>> : p \in Patterns}
MCPolicies ==
    {[head |-> 7, tail |-> 0], [head |-> 7, tail |-> 2], [head |-> 8, tail |-> 4]}

-----------------------------------------------------------------------------
(* Skills: a release that ships one skill, and its upgrade that ships      *)
(* another, which a workspace may have written already.                    *)

MCReleases == {{"bash"}, {"bash", "notes"}}

-----------------------------------------------------------------------------
(* Extract: a pull request written two ways, a word that is both a path    *)
(* and a URL, errors with and without a last word.                         *)

Word(id, number, hex, slash, scheme) ==
    [id |-> id, number |-> number, hex |-> hex, slash |-> slash, scheme |-> scheme,
     extension |-> slash]
Pull == Word("#12", "12", FALSE, FALSE, FALSE)
Url == Word("https://forge/pull/12", "12", FALSE, TRUE, TRUE)
WebPage == Word("https://page.html", "", FALSE, TRUE, TRUE)
Sha == Word("ab12cde", "", TRUE, FALSE, FALSE)
File == Word("src/land.rs", "", FALSE, TRUE, FALSE)
Other == Word("src/main.rs", "", FALSE, TRUE, FALSE)
Prose == Word("ship", "", FALSE, FALSE, FALSE)

TextBlock(sort, lines) == [sort |-> sort, text |-> lines]
Plain(file, lines) == [file |-> file, blocks |-> <<TextBlock("plain", lines)>>]
Json(blocks) == [file |-> "json", blocks |-> blocks]

Extracts == INSTANCE Extract WITH
    Entries <- {
        Plain("user", << <<>>, <<Prose, Pull>> >>),
        Plain("user", << <<Prose>> >>),
        Plain("message", << <<Prose, File, Url>> >>),
        Json(<<TextBlock("text", << <<Sha>> >>), TextBlock("use", << <<File>> >>)>>),
        Json(<<TextBlock("error", << <<Prose>>, <<Other>>, <<>> >>),
               TextBlock("result", << <<WebPage>> >>)>>),
        Json(<<TextBlock("error", << <<>> >>), TextBlock("opaque", << <<Sha>> >>),
               TextBlock("use", << <<Other>> >>)>>)},
    Caps <- {3, 5, 7, 20, NONE}, HEAD <- 1, MaxEntries <- 3

-----------------------------------------------------------------------------
(* Descriptors: two agents, two roles, a tool; ModelCall: two attempts to a *)
(* call, a stop and a death (context.cfg).                                 *)

MCGranted == [worker |-> {"bash"}, titler |-> {}]

ASSUME Bounds ==
    /\ PagingAssumption
    /\ ReleasesAssumption /\ BodiesAssumption
    /\ FilesAssumption /\ NamesAssumption /\ StartsAssumption
    /\ Extracts!CapsAssumption

-----------------------------------------------------------------------------
(* The others' state while one runs: none of it, or an initial state.      *)

NoPatch == place = "" /\ length = 0 /\ ops = <<>> /\ sections = <<>> /\ tree = <<>>
           /\ matched = <<>> /\ staged = <<>> /\ next = 0
NoExtract == point = <<>> /\ removed = {} /\ cap = NONE /\ landed = FALSE
             /\ extract = NONE
OneRequest == entries = <<Entry("user", <<Said>>)>> /\ overflow = "drop"
OnePaging == policy = [head |-> 7, tail |-> 0] /\ content = Lines(<<<<1>>>>)
OneSkills == pool = {"bash"}
OneCall == ~override

Init ==
    /\ which \in {"patch", "request", "paging", "skills", "extract", "descriptors", "call"}
    /\ IF which = "patch" THEN Patches!PatchInit ELSE NoPatch
    /\ IF which = "extract" THEN Extracts!ExtractInit ELSE NoExtract
    /\ RequestInit /\ (which # "request" => OneRequest)
    /\ PagingInit /\ (which # "paging" => OnePaging)
    /\ SkillsInit /\ (which # "skills" => OneSkills)
    /\ DescriptorsInit
    /\ ModelInit /\ (which # "call" => OneCall)

Step(component, A) ==
    /\ which = component /\ A /\ UNCHANGED which
    /\ IF component = "patch" THEN TRUE ELSE UNCHANGED patchVars
    /\ IF component = "extract" THEN TRUE ELSE UNCHANGED extractVars
    /\ IF component = "request" THEN TRUE ELSE UNCHANGED requestVars
    /\ IF component = "paging" THEN TRUE ELSE UNCHANGED pagingVars
    /\ IF component = "skills" THEN TRUE ELSE UNCHANGED skillsVars
    /\ IF component = "descriptors" THEN TRUE ELSE UNCHANGED descriptorVars
    /\ IF component = "call" THEN TRUE ELSE UNCHANGED modelVars

Next ==
    \/ Step("patch", Patches!PatchNext)
    \/ Step("extract", Extracts!ExtractNext)
    \/ Step("request", RequestNext)
    \/ Step("paging", PagingNext)
    \/ Step("skills", SkillsNext)
    \/ Step("descriptors", DescriptorsNext)
    \/ Step("call", ModelNext)

Spec == Init /\ [][Next]_vars

-----------------------------------------------------------------------------

\* Patch: an envelope has one meaning, and the tree is what it means.
OneMeaning == which = "patch" => Patches!OneMeaning
\* Extract: the cap is spent on the newest references.
SpentOnTheNewest == which = "extract" => Extracts!SpentOnTheNewest
=============================================================================
