------------------------------- MODULE Patch -------------------------------
(***************************************************************************)
(* The patch tool (prompt/tool/builtin/apply_patch): one envelope is read  *)
(* line by line, every operation is staged against the tree it meets, and  *)
(* only then are the staged operations written, one after another.  A      *)
(* write may fail, and a stop may kill the tool between two writes.        *)
(*                                                                         *)
(* A line of text is <<word, looks>>: two lines with one word differ in    *)
(* trailing whitespace (looks 1), edge whitespace (2) or look-alike        *)
(* punctuation (3) from the plain line (0).                                *)
(***************************************************************************)
EXTENDS Integers, Sequences, FiniteSets, SequencesExt

CONSTANTS
  Paths,        \* the paths an envelope may name
  Inside,       \* path -> the directory it lies in, itself when that is the root
  Marks,        \* the lines of a section's body an envelope may carry
  Heads,        \* the lines that open a section, or move its file
  Trees,        \* the trees a patch may meet
  MaxLines      \* bound: the lines of an envelope

\* What lies at a path; a dangling link is there and does not exist.
Node(what, lines) == [what |-> what, lines |-> lines]
Text(lines) == Node("text", lines)
Absent == Node("absent", <<>>)
Dir == Node("dir", <<>>)
Link == Node("link", <<>>)
Dangling == Node("dangling", <<>>)
IsText(x) == x.what = "text"

VARIABLES
  phase,     \* "read" | "write" | "applied" | "declined" | "cut"
  length,    \* lines read
  ops,       \* the operations of the sections read
  open,      \* the section being read
  tree,      \* path -> what lies there
  met,       \* the tree as the patch met it
  staged,    \* the operations that passed staging, with what they will write
  next       \* the first operation not yet written

vars == <<phase, length, ops, open, tree, met, staged, next>>

Nowhere == "nowhere"   \* the target of an update that moves nothing
Between == [op |-> "none"]
NoHunk == [anchors |-> <<>>, old |-> <<>>, new |-> <<>>, eof |-> FALSE]

PatchInit ==
  /\ phase = "read" /\ length = 0
  /\ ops = <<>> /\ open = Between
  /\ met = [p \in Paths |-> Absent] /\ tree = met
  /\ staged = <<>> /\ next = 1

-----------------------------------------------------------------------------
(* Reading the envelope.                                                   *)

\* A hunk that removes what it adds changes nothing, and is an error.
Barren(h) == h # NoHunk /\ h.old = h.new

Flushed(sec) ==
  [sec EXCEPT !.hunks = IF sec.hunk = NoHunk THEN @ ELSE Append(@, sec.hunk),
              !.hunk = NoHunk]

\* A section with nothing in it does not close.
Closes(sec) ==
  CASE sec = Between -> TRUE
    [] sec # Between /\ sec.op = "add" -> sec.lines # <<>>
    [] sec # Between /\ sec.op = "update" ->
         ~ Barren(sec.hunk) /\ Flushed(sec).hunks # <<>>

Closed == IF open = Between THEN ops
          ELSE Append(ops, IF open.op = "add" THEN open ELSE Flushed(open))

\* The second header of one file is declined before any section is read.
Reopens(l) == /\ l.kind = "update"
              /\ \E o \in Range(Closed) : o.op = "update" /\ o.path = l.path

Opened(l) ==
  CASE l.kind = "add" -> [op |-> "add", path |-> l.path, lines |-> <<>>]
    [] l.kind = "update" -> [op |-> "update", path |-> l.path, to |-> Nowhere,
                             hunks |-> <<>>, hunk |-> NoHunk,
                             fresh |-> TRUE, ended |-> FALSE]

\* The section one body line makes of sec; after an end-of-file mark a bare
\* blank line is layout, and a new anchor closes the hunk that has content.
InUpdate(sec, l) ==
  LET s == [sec EXCEPT !.fresh = FALSE, !.ended = @ /\ l.kind = "blank"]
      h == s.hunk IN
  CASE l.kind = "+" -> [s EXCEPT !.hunk.new = Append(@, l.text)]
    [] l.kind = "-" -> [s EXCEPT !.hunk.old = Append(@, l.text)]
    [] l.kind = " " -> [s EXCEPT !.hunk.old = Append(@, l.text),
                                 !.hunk.new = Append(@, l.text)]
    [] l.kind = "@@" -> Flushed(s)
    [] l.kind = "@@ " -> LET t == IF h.old = <<>> /\ h.new = <<>> THEN s
                                  ELSE Flushed(s)
                         IN [t EXCEPT !.hunk.anchors = Append(@, l.text)]
    [] l.kind = "eof" -> [Flushed([s EXCEPT !.hunk.eof = TRUE])
                            EXCEPT !.ended = TRUE]
    [] l.kind = "blank" -> IF sec.ended THEN s
                           ELSE [s EXCEPT !.hunk.old = Append(@, l.text),
                                          !.hunk.new = Append(@, l.text)]

\* The body lines that close the hunk before them.
Flushes(sec, l) ==
  \/ l.kind = "@@"
  \/ l.kind = "@@ " /\ (sec.hunk.old # <<>> \/ sec.hunk.new # <<>>)
BadFlush(sec, l) ==
  \/ Flushes(sec, l) /\ Barren(sec.hunk)
  \/ l.kind = "eof" /\ Barren([sec.hunk EXCEPT !.eof = TRUE])

Decline ==
  /\ phase' = "declined"
  /\ UNCHANGED <<length, ops, open, tree, met, staged, next>>

\* Whether the section being read takes a line.
Takes(l) ==
  CASE l \in Marks /\ open.op = "add" -> l.kind = "+"
    [] l \in Marks /\ open.op = "update" -> ~ BadFlush(open, l)
    [] l.kind = "move" /\ open.op = "update" -> open.fresh
    [] l.kind \in {"add", "delete", "update"} -> Closes(open) /\ ~ Reopens(l)
    [] OTHER -> FALSE

Reads(l) ==
  /\ phase = "read" /\ length < MaxLines
  /\ Takes(l)
  /\ length' = length + 1
  /\ UNCHANGED <<phase, tree, met, staged, next>>

ReadBody(l) ==
  /\ Reads(l)
  /\ open' = IF open.op = "add" THEN [open EXCEPT !.lines = Append(@, l.text)]
             ELSE InUpdate(open, l)
  /\ UNCHANGED ops

ReadHead(l) ==
  /\ Reads(l)
  /\ CASE l.kind = "move" ->
            open' = [open EXCEPT !.to = l.path, !.fresh = FALSE] /\ ops' = ops
       [] l.kind = "delete" ->
            /\ ops' = Append(Closed, [op |-> "delete", path |-> l.path])
            /\ open' = Between
       [] OTHER -> ops' = Closed /\ open' = Opened(l)

\* A line that no section takes ends the reading.
ReadStray(l) ==
  /\ phase = "read" /\ length < MaxLines
  /\ ~ Takes(l)
  /\ Decline

-----------------------------------------------------------------------------
(* Finding a block of lines.                                               *)

Rungs == 0 .. 3
Canon(rung, line) == IF line[2] <= rung THEN <<line[1], 0>> ELSE line

MatchesAt(hay, needle, pos, rung) ==
  \A k \in 1 .. Len(needle) :
    Canon(rung, needle[k]) = Canon(rung, hay[pos + k])

Lowest(S) == CHOOSE x \in S : \A y \in S : x <= y

NotFound == -1
\* The lines before the block, when there is one place for it at the first
\* rung that has any; at the end of the file the flush place is tried first.
Seek(hay, needle, start, eof) ==
  LET last == Len(hay) - Len(needle)
      Flush == {r \in Rungs : MatchesAt(hay, needle, last, r)}
      Hits(r) == {p \in start .. last : MatchesAt(hay, needle, p, r)}
      Hit == {r \in Rungs : Hits(r) # {}}
      Best == Hits(Lowest(Hit)) IN
  IF needle = <<>> THEN IF eof THEN Len(hay) ELSE start
  ELSE IF start > last THEN NotFound
  ELSE IF eof /\ Flush # {} THEN last
  ELSE IF Hit # {} /\ Cardinality(Best) = 1 THEN CHOOSE p \in Best : TRUE
  ELSE NotFound

\* The cursor after the anchors of a hunk, each past the one before.
AfterAnchors(hay, anchors, start) ==
  FoldLeft(LAMBDA c, a :
             IF c = NotFound THEN c
             ELSE LET p == Seek(hay, <<a>>, c, FALSE) IN
                  IF p = NotFound THEN p ELSE p + 1,
           start, anchors)

Failed == [lines |-> <<>>, cursor |-> NotFound]
\* Mutant: the next hunk is sought from the last one's start.
Resume_Behind(p, h) == p
\* The search goes on past what was inserted.
Resume(p, h) == p + Len(h.new)

Splice(s, h) ==
  LET c == AfterAnchors(s.lines, h.anchors, s.cursor)
      p == Seek(s.lines, h.old, c, h.eof) IN
  IF s = Failed \/ c = NotFound THEN Failed
  ELSE IF h.old = <<>> /\ ~ h.eof /\ h.anchors = <<>> THEN Failed
  ELSE IF p = NotFound THEN Failed
  ELSE [lines |-> SubSeq(s.lines, 1, p) \o h.new
                    \o SubSeq(s.lines, p + Len(h.old) + 1, Len(s.lines)),
        cursor |-> Resume(p, h)]

RunHunks(text, hunks) == FoldLeft(Splice, [lines |-> text, cursor |-> 0], hunks)

-----------------------------------------------------------------------------
(* Staging and writing.                                                    *)

Exists(t, p) == t[p] \notin {Absent, Dangling}

\* What one operation will write, against the tree as it is.
Stages(t, o) ==
  CASE o.op = "add" -> t[o.path] = Absent
    [] o.op = "delete" -> IsText(t[o.path]) \/ t[o.path] = Link
    [] o.op = "update" ->
         /\ IsText(t[o.path])
         /\ o.to = Nowhere \/ (t[o.to] = Absent)
         /\ RunHunks(t[o.path].lines, o.hunks) # Failed

Staged(t, o) ==
  CASE o.op = "add" -> [op |-> "add", path |-> o.path, lines |-> o.lines]
    [] o.op = "delete" -> [op |-> "delete", path |-> o.path]
    [] o.op = "update" ->
         [op |-> "update", path |-> o.path, to |-> o.to,
          lines |-> RunHunks(t[o.path].lines, o.hunks).lines]

NamesOf(o) == <<o.path>> \o (IF o.op = "update" /\ o.to # Nowhere
                               THEN <<o.to>> ELSE <<>>)
\* A path may be named once in an envelope, as a source or as a target.
Duplicates(all) == ~ IsInjective(FlattenSeq([i \in DOMAIN all |-> NamesOf(all[i])]))

\* The tree is the one the patch meets when its envelope has been read.
Stage ==
  /\ phase = "read"
  /\ \E t \in Trees :
       /\ tree' = t /\ met' = t
       /\ IF /\ Closes(open) /\ Closed # <<>> /\ ~ Duplicates(Closed)
             /\ \A o \in Range(Closed) : Stages(t, o)
            THEN /\ ops' = Closed /\ open' = Between /\ phase' = "write"
                 /\ staged' = [i \in DOMAIN Closed |-> Staged(t, Closed[i])]
            ELSE phase' = "declined" /\ UNCHANGED <<ops, open, staged>>
  /\ UNCHANGED <<length, next>>

\* What a write leaves: the directories of a new file are made with it.
Placed(t, p, x) == [t EXCEPT ![Inside[p]] = Dir, ![p] = x]
Put(t, p, x) == IF Inside[p] = p THEN [t EXCEPT ![p] = x] ELSE Placed(t, p, x)

\* A text is no directory, and a directory no text.
Blocked(t, o, p) == \/ Inside[p] # p /\ t[Inside[p]] \notin {Absent, Dir}
                    \/ t[p] = Dir
Written(t, o) ==
  CASE o.op = "add" -> Put(t, o.path, Text(o.lines))
    [] o.op = "delete" -> [t EXCEPT ![o.path] = Absent]
    [] o.op = "update" ->
         IF o.to = Nowhere THEN Put(t, o.path, Text(o.lines))
         ELSE Put([t EXCEPT ![o.path] = Absent], o.to, Text(o.lines))

Faults(t, o) ==
  CASE o.op = "add" -> Blocked(t, o, o.path)
    [] o.op = "delete" -> ~ (IsText(t[o.path]) \/ t[o.path] = Link)
    [] o.op = "update" -> o.to # Nowhere /\ Blocked(t, o, o.to)

Write ==
  /\ phase = "write" /\ next <= Len(staged)
  /\ ~ Faults(tree, staged[next])
  /\ tree' = Written(tree, staged[next])
  /\ next' = next + 1
  /\ phase' = IF next = Len(staged) THEN "applied" ELSE phase
  /\ UNCHANGED <<length, ops, open, met, staged>>

\* The write phase ends early on a fault of its own; what was written stays,
\* and an update whose rename fails has been written where it was.
Fault ==
  /\ phase = "write" /\ next <= Len(staged)
  /\ LET o == staged[next] IN
     /\ Faults(tree, o)
     /\ tree' = IF o.op = "update" THEN [tree EXCEPT ![o.path] = Text(o.lines)] ELSE tree
  /\ phase' = "cut"
  /\ UNCHANGED <<length, ops, open, met, staged, next>>

\* A stop's kill falls between two writes or inside one, which leaves the
\* file cut short.
Killed ==
  /\ phase = "write"
  /\ \/ UNCHANGED tree
     \/ /\ staged[next].op # "delete" /\ ~ Faults(tree, staged[next])
        /\ tree' = Put(tree, staged[next].path, Text(<<>>))
  /\ phase' = "cut"
  /\ UNCHANGED <<length, ops, open, met, staged, next>>

PatchNext ==
  \/ \E l \in Marks : ReadBody(l)
  \/ \E l \in Heads : ReadHead(l)
  \/ \E l \in Marks \cup Heads : ReadStray(l)
  \/ Stage
  \/ Write
  \/ Fault
  \/ Killed

-----------------------------------------------------------------------------
(* A reading of an update: for every hunk a place in the file as it was,   *)
(* hunks and anchors one after another, each line alike at the rung.       *)

Room(h) == Len(h.old)
Readings(text, hunks, rung) ==
  {at \in [DOMAIN hunks -> 0 .. Len(text)] :
     \A i \in DOMAIN hunks :
       LET h == hunks[i]
           from == IF i = 1 THEN 0 ELSE at[i - 1] + Room(hunks[i - 1]) IN
       /\ at[i] >= from /\ at[i] + Room(h) <= Len(text)
       /\ MatchesAt(text, h.old, at[i], rung)
       /\ h.old = <<>> /\ h.eof => at[i] = Len(text)
       /\ \E ways \in [DOMAIN h.anchors -> from .. at[i] - 1] :
            /\ \A j \in DOMAIN h.anchors :
                 /\ Canon(rung, h.anchors[j]) = Canon(rung, text[ways[j] + 1])
                 /\ j > 1 => ways[j - 1] < ways[j]
            /\ h.old = <<>> /\ ~ h.eof =>
                 h.anchors # <<>> /\ at[i] = ways[Len(ways)] + 1}

Rebuilt(text, hunks, at) ==
  FlattenSeq([i \in DOMAIN hunks |->
      SubSeq(text, (IF i = 1 THEN 0 ELSE at[i - 1] + Room(hunks[i - 1])) + 1, at[i])
        \o hunks[i].new])
    \o SubSeq(text, at[Len(at)] + Room(hunks[Len(hunks)]) + 1, Len(text))

\* Staging.  Hunks are located one after another in the lines as they are edited, and
\* the reply says "applied" (seek.rs, splice.rs).  Whatever the hunks, the
\* result is the file as it was with every block replaced where it stood, no
\* hunk having edited what an earlier one inserted; and when the context fits
\* two places exactly the patch is declined, never guessed.
Staging ==
  phase = "write" =>
    \A i \in DOMAIN ops :
      LET o == ops[i]
          Exact == Readings(met[o.path].lines, o.hunks, 0)
          Loose == Readings(met[o.path].lines, o.hunks, 3)
          Guess == \E h \in Range(o.hunks) : h.eof IN
      o.op = "update" =>
        /\ \E at \in Loose : staged[i].lines = Rebuilt(met[o.path].lines, o.hunks, at)
        /\ Guess \/ Cardinality(Exact) <= 1

\* What an operation, alone, makes of a path it names.
Alone(o, p) ==
  IF o.op = "delete" \/ (o.op = "update" /\ o.to # Nowhere /\ p = o.path)
    THEN Absent ELSE Text(o.lines)

\* Writing.  Every operation is staged against the tree as the patch met it, and the
\* writes follow one another (apply.rs): in a patch that was applied every
\* path holds what its own operation makes of it, whatever the order, and a
\* patch that was declined has touched nothing.
Writing ==
  /\ phase = "declined" => tree = met
  /\ phase = "applied" =>
       \A p \in Paths :
         LET Mine == {o \in Range(staged) : p \in Range(NamesOf(o))} IN
         \/ tree[p] = Dir
         \/ Mine = {} /\ tree[p] = met[p]
         \/ \E o \in Mine : Mine = {o} /\ tree[p] = Alone(o, p)

\* An envelope has one meaning, and the tree is what it means: each hunk is
\* read where it alone can be, and each path is what its one operation makes
\* of it.
OneMeaning == Staging /\ Writing
=============================================================================
