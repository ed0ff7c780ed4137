------------------------------- MODULE Paging -------------------------------
(***************************************************************************)
(* What a model can recover of a tool's output.  The executor keeps the    *)
(* whole capture in output.json and commits a projection of it: the first  *)
(* `head` and last `tail` bytes, and a marker that mints an address for    *)
(* the rest (prompt/tool/bound.rs, spawn/batch.rs land).  read_tool_output *)
(* redeems an address for one page and a banner with the next address; the *)
(* page is itself a tool's output, captured and cut like any other.        *)
(* read_file selects lines of a file and says which line to continue at.   *)
(*                                                                         *)
(* A byte is a record: `from`, the bytes of the file it stands for, and    *)
(* its place k among the w bytes of its character (w = 0: not UTF-8).  The *)
(* record stores a capture as lossy UTF-8 while the cut and the address    *)
(* count the raw bytes, so both encodings are kept apart here.             *)
(*                                                                         *)
(* One stream of one agent: the two streams of a result are bounded        *)
(* independently, and an address that names another agent is refused.      *)
(***************************************************************************)
EXTENDS Naturals, Sequences, FiniteSets

CONSTANTS
    Files,       \* the files read: sequences of lines, a line a sequence of units
    Policies,    \* tool_output: blocks, records [head, tail]
    PAGE_BYTES,  \* bytes one page returns
    Limits,      \* `limit` inputs of read_file, 0 for an omitted one
    MaxReads     \* bound on the reader's calls

PagingAssumption ==
    /\ PAGE_BYTES \in Nat \ {0}
    /\ \A p \in Policies : p.head \in Nat /\ p.tail \in Nat

VARIABLES
    policy,    \* the governing workflow's tool_output: block
    content,   \* the file's lines, as bytes
    captures,  \* the raw bytes of each call of the reader
    shown,     \* the bytes of the file the transcript holds
    open       \* addresses the model was given and has not redeemed

pagingVars == <<policy, content, captures, shown, open>>

Lesser(a, b) == IF a < b THEN a ELSE b

(***************************************************************************)
(* Bytes.  A unit of a file is its width: 1 and 2 are characters of that   *)
(* many bytes, 0 a byte that is no character.                              *)
(***************************************************************************)
Joined(parts) ==
    LET join[i \in 0 .. Len(parts)] ==
          IF i = 0 THEN <<>> ELSE join[i - 1] \o parts[i]
    IN  join[Len(parts)]

Size(unit) == IF unit = 0 THEN 1 ELSE unit

\* The bytes of a line that begins behind the file's first `at` bytes.
Encoded(units, at) ==
    LET places == Joined([i \in 1 .. Len(units) |->
                            [k \in 1 .. Size(units[i]) |-> [k |-> k, w |-> units[i]]]])
    IN  [n \in 1 .. Len(places) |->
           [from |-> {at + n}, k |-> places[n].k, w |-> places[n].w]]

Lines(file) ==
    LET Before(i) == Len(Joined([j \in 1 .. i - 1 |-> Encoded(file[j], 0)]))
    IN  [i \in 1 .. Len(file) |-> Encoded(file[i], Before(i))]

Origins(bytes) == UNION {bytes[i].from : i \in 1 .. Len(bytes)}

\* The bytes of one character present at i: whole when they are its w bytes.
Run(bytes, i) ==
    LET here == bytes[i]
        held == {n \in 1 .. here.w :
                   /\ here.k = 1
                   /\ i + n - 1 <= Len(bytes)
                   /\ \A j \in 1 .. n :
                        /\ bytes[i + j - 1].w = here.w
                        /\ bytes[i + j - 1].k = j}
    IN  IF held = {} THEN 1 ELSE CHOOSE n \in held : \A m \in held : m <= n

Replacement(from) == [k \in 1 .. 3 |-> [from |-> from, k |-> k, w |-> 3]]

\* String::from_utf8_lossy: each maximal fragment of a character becomes
\* one replacement character, three bytes long.
Lossy(bytes) ==
    LET walk[i \in 1 .. Len(bytes) + 1] ==
          IF i > Len(bytes) THEN <<>>
          ELSE LET n == Run(bytes, i)
                   part == SubSeq(bytes, i, i + n - 1)
               IN  (IF bytes[i].w > 0 /\ bytes[i].k = 1 /\ n = bytes[i].w
                    THEN part
                    ELSE Replacement(Origins(part)))
                   \o walk[i + n]
    IN  walk[1]

\* output.json of the c-th call, as read_tool_output reads it back.
Recorded(c) == Lossy(captures[c])

(***************************************************************************)
(* Addresses: the c-th capture's record from a byte offset on, or (c = 0)  *)
(* the file from a line on.                                                *)
(***************************************************************************)
At(c, offset) == [c |-> c, offset |-> offset]

Covers(a, caps) ==
    IF a.c = 0
    THEN Origins(Joined(SubSeq(content, a.offset, Len(content))))
    ELSE LET record == Lossy(caps[a.c])
         IN  Origins(SubSeq(record, a.offset + 1, Len(record)))

(***************************************************************************)
(* bound::apply: a stream within the allowance passes whole; a longer one  *)
(* shows its head and its tail and mints the address of the first byte not *)
(* shown, counted in the raw bytes.                                        *)
(***************************************************************************)
Within(bytes) == Len(bytes) <= policy.head + policy.tail

Projected(bytes) ==
    IF Within(bytes) THEN Origins(bytes)
    ELSE Origins(SubSeq(bytes, 1, policy.head))
           \cup Origins(SubSeq(bytes, Len(bytes) - policy.tail + 1, Len(bytes)))

\* Mutant: the address starts one unit too far.
Minted_Skips(bytes, c) ==
    IF Within(bytes) THEN {} ELSE {At(c, policy.head + 1)}

Minted(bytes, c) ==
    IF Within(bytes) THEN {} ELSE {At(c, policy.head)}

\* SpawnTool::land: project the streams and store the whole capture.
Land(bytes) ==
    /\ captures' = Append(captures, bytes)
    /\ shown' = shown \cup Projected(bytes)

(***************************************************************************)
(* read_tool_output: PAGE_BYTES of the record from the offset, and the     *)
(* next address when bytes remain.                                         *)
(***************************************************************************)
PageEnd(a) == Lesser(a.offset + PAGE_BYTES, Len(Recorded(a.c)))

Page(a) == SubSeq(Recorded(a.c), a.offset + 1, PageEnd(a))

Banner(a) ==
    IF PageEnd(a) < Len(Recorded(a.c)) THEN {At(a.c, PageEnd(a))} ELSE {}

ReadToolOutput(a) ==
    /\ a.c # 0
    /\ a.offset <= Len(Recorded(a.c))     \* PastEnd otherwise
    /\ Land(Page(a))
    /\ open' = (open \ {a}) \cup Banner(a)
                 \cup Minted(Page(a), Len(captures) + 1)

(***************************************************************************)
(* read_file: `limit` lines from the offset, and where to continue when    *)
(* lines remain.                                                           *)
(***************************************************************************)
LastLine(offset, limit) ==
    IF limit = 0 THEN Len(content) ELSE Lesser(offset + limit - 1, Len(content))

Selected(offset, limit) ==
    Joined(SubSeq(content, offset, LastLine(offset, limit)))

Continues(offset, limit) ==
    LET returned == LastLine(offset, limit) - offset + 1
        next == offset + returned
    IN  IF next <= Len(content) THEN {At(0, next)} ELSE {}

ReadFile(a) ==
    /\ a.c = 0
    /\ \E limit \in Limits :
         LET bytes == Selected(a.offset, limit)
         IN  /\ Land(bytes)
             /\ open' = (open \ {a}) \cup Continues(a.offset, limit)
                          \cup Minted(bytes, Len(captures) + 1)

(***************************************************************************)
(* The model reads: any address it was given, in any order.                *)
(***************************************************************************)
PagingInit ==
    /\ policy \in Policies
    /\ \E f \in Files : content = Lines(f)
    /\ captures = <<>>
    /\ shown = {}
    /\ open = {At(0, 1)}

PagingNext ==
    /\ Len(captures) < MaxReads
    /\ \E a \in open : ReadFile(a) \/ ReadToolOutput(a)
    /\ UNCHANGED <<policy, content>>

PagingSpec == PagingInit /\ [][PagingNext]_pagingVars

(***************************************************************************)
(* Nothing a cut removed is out of reach: whatever the lengths, the places *)
(* where characters are split and the bytes that are no text, every byte   *)
(* of the file is in the transcript or lies behind an address the model    *)
(* holds, although the address counts the capture's bytes and is redeemed  *)
(* against the record's.                                                   *)
(***************************************************************************)
Recoverable ==
    Origins(Joined(content)) =
        shown \cup UNION {Covers(a, captures) : a \in open}

(***************************************************************************)
(* And reading comes to an end: every read uses up the address it redeems, *)
(* and what it hands out in its place covers less, so that a model which   *)
(* follows its addresses has the whole stream in the end.                  *)
(***************************************************************************)
Reach(a, caps) ==
    IF a.c = 0 THEN Len(Joined(SubSeq(content, a.offset, Len(content)))) * 3 + 1
    ELSE Len(Lossy(caps[a.c])) - a.offset

ReadCoversLess ==
    \E a \in open \ open' :
        \A b \in open' \ open : Reach(b, captures') < Reach(a, captures)

ReadsToTheEnd == [][Recoverable' /\ ReadCoversLess]_pagingVars
=============================================================================
