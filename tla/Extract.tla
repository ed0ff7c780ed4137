------------------------------ MODULE Extract ------------------------------
(* The extract a landing derives from the entries a compaction takes out   *)
(* of context: compactor/land/extract.rs, extract/scan.rs.                 *)
(*                                                                         *)
(* Text is a sequence of lines and a line a sequence of words, a word being *)
(* what lies between two delimiters: a record of what the scan asks of it.  *)
(* A word is a byte, and a heading costs HEAD of them.                      *)
EXTENDS Integers, Sequences, SequencesExt, FiniteSets, FiniteSetsExt

CONSTANTS
    Entries,     \* the entries a transcript may have
    Caps,        \* extract_bytes: the values it may have, NONE for an omitted key
    HEAD,        \* the cost of a section's heading
    MaxEntries,  \* bound: entries of a transcript
    NONE

CapsAssumption == HEAD \in Nat /\ MaxEntries \in Nat

VARIABLES
    point,     \* the transcript at the compaction point
    removed,   \* the entries the landing deletes, by their number
    cap,       \* extract_bytes under the config that governs the landing
    landed,    \* the base has been derived
    extract    \* the file it stages, or NONE
vars == <<point, removed, cap, landed, extract>>

-----------------------------------------------------------------------------
(* A word is [id, number, hex, slash, scheme, extension]: the digits after  *)
(* its `#` or `pull/`, or "", and whether it is seven to forty characters   *)
(* of which one is a digit and the rest digits or letters up to f, not all  *)
(* digits; has a slash; has a scheme; has an extension on its last segment. *)

(* What a reference is listed as: words, of which it costs as many bytes. *)
Item(sort, words) == [sort |-> sort, words |-> words]
Width(item) == Len(item.words)

PullRequest(word) == word.number # ""
IsSha(word) == ~PullRequest(word) /\ word.hex
IsPath(word) == ~PullRequest(word) /\ ~word.hex /\ word.slash /\ ~word.scheme /\ word.extension

Blank(line) == line = <<>>

Words(lines) == FlattenSeq(lines)
WordIds(words) == [i \in DOMAIN words |-> words[i].id]

(* body.trim(): without the blank lines at either end *)
Trimmed(lines) ==
    LET said == {i \in DOMAIN lines : ~Blank(lines[i])}
    IN  IF said = {} THEN <<>> ELSE SubSeq(lines, Min(said), Max(said))

(* An entry is [file, blocks]: a `.md` is one block of sort "plain".  A     *)
(* tool_use's text is its input, and a result's what it holds; thinking is  *)
(* text; an opaque block has none.                                          *)
BlockText(block) == IF block.sort = "opaque" THEN <<>> ELSE block.text

Text(entry) == FlattenSeq([b \in DOMAIN entry.blocks |-> BlockText(entry.blocks[b])])

IsUserMessage(entry) == entry.file = "user"

UserMessages(entry) ==
    LET body == Trimmed(Text(entry))
    IN  IF IsUserMessage(entry) /\ body # <<>>
        THEN <<Item("user", WordIds(Words(body)))>>
        ELSE <<>>

(* The last line that says anything, of every result that is an error. *)
ErrorLines(entry) ==
    LET Told(block) == LET body == Trimmed(BlockText(block))
                       IN  IF block.sort = "error" /\ body # <<>>
                           THEN <<Item("error", WordIds(Last(body)))>> ELSE <<>>
    IN  FlattenSeq([b \in DOMAIN entry.blocks |-> Told(entry.blocks[b])])

TokenItems(entry, Is(_), Rendered(_)) ==
    LET words == SelectSeq(Words(Text(entry)), Is)
    IN  [i \in DOMAIN words |-> Rendered(words[i])]

PullRequests(entry) == TokenItems(entry, PullRequest, LAMBDA w : Item("pr", <<w.number>>))
Shas(entry) == TokenItems(entry, IsSha, LAMBDA w : Item("sha", <<w.id>>))
PathsOf(entry) == TokenItems(entry, IsPath, LAMBDA w : Item("path", <<w.id>>))

Refs(entry) == <<UserMessages(entry), ErrorLines(entry), PullRequests(entry),
                 Shas(entry), PathsOf(entry)>>

-----------------------------------------------------------------------------
(* What the landing writes of them. *)

Numbered(set) == SetToSortSeq(set, LAMBDA i, j : i < j)

\* Mutant: the entries are read oldest first.
Newest_Oldest(set) == Numbered(set)

Newest(set) == Reverse(Numbered(set))

Push(items, item) == IF Contains(items, item) THEN items ELSE Append(items, item)

Section(gone, k) ==
    LET read == [i \in DOMAIN Newest(gone) |-> Refs(point[Newest(gone)[i]])[k]]
    IN  FoldLeft(Push, <<>>, FlattenSeq(read))

Sections(gone) == [k \in 1 .. 5 |-> Section(gone, k)]

(* A section's references, each with what it costs: the first brings the   *)
(* heading.                                                                *)
Units(items) ==
    [i \in DOMAIN items |->
        [item |-> items[i], cost |-> Width(items[i]) + (IF i = 1 THEN HEAD ELSE 0)]]

Render(sections) ==
    LET units == FlattenSeq([k \in DOMAIN sections |-> Units(sections[k])])
        Fill(out, unit) ==
            IF out.full \/ out.spent + unit.cost > cap
            THEN [out EXCEPT !.full = TRUE]
            ELSE [out EXCEPT !.items = Append(@, unit.item), !.spent = @ + unit.cost]
        out == FoldLeft(Fill, [items |-> <<>>, spent |-> 0, full |-> FALSE], units)
    IN  [items |-> out.items, omitted |-> Len(units) - Len(out.items)]

-----------------------------------------------------------------------------
ExtractInit ==
    /\ point = <<>> /\ removed = {} /\ landed = FALSE /\ extract = NONE
    /\ cap \in Caps

(* An entry joins the transcript. *)
Speak ==
    /\ ~landed /\ Len(point) < MaxEntries
    /\ \E entry \in Entries : point' = Append(point, entry)
    /\ UNCHANGED <<removed, cap, landed, extract>>

(* of: no key, no summary to sit beside, or no reference that fits: no     *)
(* file.                                                                   *)
Land ==
    /\ ~landed /\ landed' = TRUE
    /\ removed' \in SUBSET DOMAIN point
    /\ \E summarised \in BOOLEAN :
         LET text == Render(Sections(removed'))
         IN  extract' = IF summarised /\ cap # NONE /\ text.items # <<>> THEN text ELSE NONE
    /\ UNCHANGED <<point, cap>>

ExtractNext == Speak \/ Land

-----------------------------------------------------------------------------
(* The extract spends its cap on the references a reader is told of first:  *)
(* none is of an entry that stays, none is listed twice, none stands before *)
(* one that is left out of an earlier section or, in its section, was seen  *)
(* later; they fit with the headings they need, and what the marker says is *)
(* missing is.                                                             *)
References == UNION {ToSet(FlattenSeq(Refs(point[i]))) : i \in removed}
Seen(ref) == Max({i \in removed : Contains(FlattenSeq(Refs(point[i])), ref)})
Rank(ref) == CHOOSE k \in 1 .. 5 :
                <<"user", "error", "pr", "sha", "path">>[k] = ref.sort
Before(a, b) == \/ Rank(a) < Rank(b)
                \/ Rank(a) = Rank(b) /\ Seen(a) > Seen(b)

SpentOnTheNewest ==
    extract # NONE =>
        LET listed == ToSet(extract.items)
        IN  /\ listed \subseteq References
            /\ Cardinality(listed) = Len(extract.items)
            /\ \A ref \in References \ listed : \A kept \in listed : ~Before(ref, kept)
            /\ MapThenSumSet(Width, listed)
                 + HEAD * Cardinality({ref.sort : ref \in listed}) <= cap
            /\ extract.omitted = Cardinality(References \ listed)
=============================================================================
