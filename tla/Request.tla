------------------------------ MODULE Request ------------------------------
(***************************************************************************)
(* The request of a step, composed from the tree of one branch             *)
(* (prompt/dispatch: assembler, body, pairing, tools, canonical, prefix),  *)
(* while the branch's transcript, its files, its config and the host's     *)
(* tools change between two steps.                                         *)
(*                                                                         *)
(* A block is a file of the head or the body, a text, a tool call or a     *)
(* tool result; an entry of the transcript is one side's blocks.  A file   *)
(* is a number, so that lexical order is the numbers' order.               *)
(***************************************************************************)
EXTENDS Integers, Sequences, FiniteSets, SequencesExt

CONSTANTS
  Selectable,    \* the files the role's manifest selects
  Pinned,        \* those of its pinned list
  Categories,    \* the length of the order list of categories
  Category,      \* file -> the place of its category in that list
  Summaries,     \* the files of summary/
  Tokens,        \* file -> its size
  Budget,        \* the role's budget_tokens
  Overflows,     \* the overflow policies a role may have
  ToolNames,     \* the tools, in the order lists name them
  Described,     \* those the tree holds a schema of
  Host,          \* those the host may inject
  Starts,        \* the transcripts a branch may start from
  MaxEntries,    \* bound: entries of the transcript
  MaxActs        \* bound: changes of config, host, files

FilesAssumption ==
  /\ IsFiniteSet(Selectable) /\ Selectable = 1 .. Cardinality(Selectable)
  /\ Summaries \subseteq Selectable /\ Tokens \in [Selectable -> Nat] /\ Budget \in Nat
  /\ Categories \in Nat /\ Category \in [Selectable -> 1 .. Categories]
  /\ Overflows \subseteq {"drop_oldest_summaries", "truncate", "drop"}
NamesAssumption == IsInjective(ToolNames) /\ ToolNames \in Seq(Range(ToolNames))

VARIABLES
  phase,      \* "boundary" | "calling" | "running"
  entries,    \* the transcript
  files,      \* the selected files in the tree
  soul,       \* the system slot: which config's soul
  granted,    \* the tools of the role
  injected,   \* the tools the host injects
  overflow,   \* the role's overflow policy
  last,       \* the request recorded last, as it was sent
  moved,      \* what was changed since that cannot but move the prefix
  acts        \* changes made

requestVars == <<phase, entries, files, soul, granted, injected, overflow, last, moved, acts>>

NoRequest == [soul |-> 0, messages |-> <<>>, tools |-> <<>>]
Block(is, id, tool) == [is |-> is, id |-> id, tool |-> tool]
Said == Block("text", 0, "")
Entry(role, content) == [role |-> role, content |-> content]

\* A branch starts from what the user said, and from results whose call an
\* old cut took.
Orphaned(e) ==
  \E b \in Range(e.content) : b.id \in Nat /\ e = Entry("tool", <<Block("result", b.id, "")>>)
StartsAssumption ==
  \A s \in Starts :
    /\ s # <<>> /\ s \in Seq(Range(s)) /\ s[1].role = "user"
    /\ \A i \in DOMAIN s : s[i] = Entry("user", <<Said>>) \/ Orphaned(s[i])

RequestInit ==
  /\ phase = "boundary"
  /\ entries \in Starts
  /\ files = Selectable \ Summaries
  /\ soul = 1 /\ granted = Range(ToolNames) \ Host /\ injected = Host
  /\ overflow \in Overflows /\ last = NoRequest
  /\ moved = {} /\ acts = 0

\* What of a sequence is in a set, in its order.
Only(seq, S) ==
  LET upto[n \in 0 .. Len(seq)] ==
        IF n = 0 THEN <<>>
        ELSE IF seq[n] \in S THEN Append(upto[n - 1], seq[n]) ELSE upto[n - 1]
  IN upto[Len(seq)]
Listed(S) == Only(ToolNames, S)
Sorted(S) == Only([f \in Selectable |-> f], S)
TokensIn(seq) ==
  LET upto[n \in 0 .. Len(seq)] == IF n = 0 THEN 0 ELSE upto[n - 1] + seq[n].tokens
  IN upto[Len(seq)]

-----------------------------------------------------------------------------
(* The head and the body.                                                  *)

Loaded(f) == [file |-> f, tokens |-> Tokens[f]]
LoadedAll(fs) == [i \in DOMAIN fs |-> Loaded(fs[i])]
HeadFiles == LoadedAll(Sorted(files \cap Pinned))

\* Categories in the order declared, files lexically within each.
BodyFiles ==
  LET upto[c \in 0 .. Categories] ==
        IF c = 0 THEN <<>>
        ELSE upto[c - 1] \o Sorted({f \in files \ Pinned : Category[f] = c})
  IN LoadedAll(upto[Categories])

\* The oldest summaries go until the rest fits, or none is left.
DropOldest(body, allowance) ==
  LET old == Sorted({body[i].file : i \in DOMAIN body} \cap Summaries)
      Without(n) == Only(body, {e \in Range(body) : \A k \in 1 .. n : e.file # old[k]})
      Enough == {n \in 0 .. Len(old) : TokensIn(Without(n)) <= allowance} IN
  IF Enough = {} THEN Without(Len(old))
  ELSE Without(CHOOSE n \in Enough : \A m \in Enough : n <= m)

\* The body up to the first entry that does not fit, cut short or left out.
CutShort(body, allowance, truncate) ==
  LET fits == {n \in 0 .. Len(body) : TokensIn(SubSeq(body, 1, n)) <= allowance}
      n == CHOOSE n \in fits : \A m \in fits : m <= n
      room == allowance - TokensIn(SubSeq(body, 1, n)) IN
  SubSeq(body, 1, n) \o
    (IF truncate /\ n < Len(body) /\ room > 0
       THEN <<[body[n + 1] EXCEPT !.tokens = room]>> ELSE <<>>)

Fit(body, allowance) ==
  IF TokensIn(body) <= allowance THEN body
  ELSE CASE overflow = "drop_oldest_summaries" -> DropOldest(body, allowance)
         [] overflow = "truncate" -> CutShort(body, allowance, TRUE)
         [] overflow = "drop" -> CutShort(body, allowance, FALSE)

\* What the pinned files take counts, and they are never shed.
Allowance == IF TokensIn(HeadFiles) > Budget THEN 0 ELSE Budget - TokensIn(HeadFiles)

Context == HeadFiles \o Fit(BodyFiles, Allowance)
Framed(e) == Entry("user", <<[is |-> "file", id |-> e.file, tool |-> ""]>>)

-----------------------------------------------------------------------------
(* The transcript, grouped by side, without the results nobody called for. *)

PushGrouped(messages, e) ==
  IF messages # <<>> /\ Last(messages).role = e.role
    THEN [messages EXCEPT ![Len(messages)].content = @ \o e.content]
    ELSE Append(messages, e)
Grouped(list) ==
  LET upto[n \in 0 .. Len(list)] ==
        IF n = 0 THEN <<>> ELSE PushGrouped(upto[n - 1], list[n])
  IN upto[Len(list)]

Calls(e) == {b.id : b \in {x \in Range(e.content) : x.is = "use"}}
CalledBy(messages, n) == UNION {Calls(messages[i]) : i \in 1 .. n}

Pruned(messages) ==
  [n \in DOMAIN messages |->
     [messages[n] EXCEPT !.content = Only(@, {b \in Range(@) :
        b.is = "result" => b.id \in CalledBy(messages, n)})]]
Filled(messages) == Only(messages, {m \in Range(messages) : m.content # <<>>})
\* Mutant: what is left is not grouped again.
DropOrphans_Ungrouped(messages) == Filled(Pruned(messages))
\* A message left empty goes, and its neighbours group again.
DropOrphans(messages) == Grouped(Filled(Pruned(messages)))

Assemble ==
  DropOrphans(Grouped([i \in DOMAIN Context |-> Framed(Context[i])] \o entries))

-----------------------------------------------------------------------------
(* The tools a request declares.                                           *)

Tool(name, as, set) == [name |-> name, as |-> as, set |-> set]
Offered(name) == Tool(name, "schema", {})
Elected == Listed((granted \cap Described) \ injected)

Contents(messages) ==
  LET upto[n \in 0 .. Len(messages)] ==
        IF n = 0 THEN <<>> ELSE upto[n - 1] \o messages[n].content
  IN upto[Len(messages)]
FirstUses(messages) ==
  LET all == Contents(messages)
      upto[n \in 0 .. Len(all)] ==
        IF n = 0 THEN <<>>
        ELSE IF all[n].is = "use" /\ all[n].tool \notin Range(upto[n - 1])
               THEN Append(upto[n - 1], all[n].tool) ELSE upto[n - 1]
  IN upto[Len(all)]

\* A name the role may not call is declared with the sentence that refuses
\* it, and the sentence lists the role's toolset.
Closing(name) ==
  IF name \in granted \cup injected THEN Tool(name, "bare", {})
  ELSE Tool(name, "refused", granted \cup injected)

Compose(messages) ==
  LET own == Listed(injected) \o Elected
      offers == [i \in DOMAIN own |-> Offered(own[i])]
      used == FirstUses(messages)
      rest == Only(used, Range(used) \ Range(own)) IN
  offers \o [i \in DOMAIN rest |-> Closing(rest[i])]

-----------------------------------------------------------------------------
(* The hold.                                                               *)

FirstOf(messages) == IF messages = <<>> THEN <<>> ELSE messages[1].content
HeadIntact(prev, now) ==
  IF now.messages = <<>> THEN prev.messages = <<>>
  ELSE IsPrefix(FirstOf(prev.messages), FirstOf(now.messages))
IsSubsequence(sub, of) == sub = Only(of, Range(sub))

\* Mutant: the earlier request is not looked at.
Hold_None(prev, now) == now
\* The array sent before is sent again while nothing ahead of the tail moved
\* and the current one only leaves something out.
Hold(prev, now) ==
  IF /\ prev # NoRequest
     /\ prev.soul = now.soul /\ HeadIntact(prev, now)
     /\ Len(now.tools) < Len(prev.tools) /\ IsSubsequence(now.tools, prev.tools)
    THEN [now EXCEPT !.tools = prev.tools] ELSE now

Current == [soul |-> soul, messages |-> Assemble, tools |-> Compose(Assemble)]

-----------------------------------------------------------------------------
(* The branch's steps.                                                     *)

\* The calls of the last model entry no later result answers, where it is.
Unsettled(list) ==
  LET models == {i \in DOMAIN list : list[i].role = "assistant"}
      cut == CHOOSE i \in models : \A j \in models : j <= i
      open == Calls(list[cut]) \
                {b.id : b \in UNION {Range(list[i].content) : i \in cut + 1 .. Len(list)}} IN
  IF models = {} THEN [at |-> 0, calls |-> {}] ELSE [at |-> cut, calls |-> open]
HasRoom == Len(entries) < MaxEntries

Hear ==
  /\ phase = "boundary" /\ HasRoom
  /\ entries' = Append(entries, Entry("user", <<Said>>))
  /\ UNCHANGED <<phase, files, soul, granted, injected, overflow, last, moved, acts>>

\* A model is called when the tail is the user's or a tool's.
Send ==
  /\ phase = "boundary" /\ Last(entries).role # "assistant"
  /\ last' = Hold(last, Current)
  /\ moved' = {} /\ phase' = "calling"
  /\ UNCHANGED <<entries, files, soul, granted, injected, overflow, acts>>

\* The model may call what it sees declared, or a name it invents; a provider
\* numbers the calls of every step anew.
Reply(tools) ==
  /\ phase = "calling" /\ HasRoom
  /\ LET uses == [i \in DOMAIN tools |-> Block("use", i, tools[i])] IN
     entries' = Append(entries, Entry("assistant", IF uses = <<>> THEN <<Said>> ELSE uses))
  /\ phase' = IF tools = <<>> THEN "boundary" ELSE "running"
  /\ UNCHANGED <<files, soul, granted, injected, overflow, last, moved, acts>>

\* A call's result lands, with what the tool did to the files.
Result ==
  /\ phase = "running"
  /\ LET open == Unsettled(entries).calls
         id == CHOOSE i \in open : \A j \in open : i <= j IN
     /\ entries' = Append(entries, Entry("tool", <<Block("result", id, "")>>))
     /\ phase' = IF open = {id} THEN "boundary" ELSE phase
  /\ UNCHANGED <<soul, granted, injected, overflow, last>>
  /\ \/ UNCHANGED <<files, moved, acts>>
     \/ /\ acts < MaxActs /\ acts' = acts + 1
        /\ \E f \in Selectable \ Summaries : files' = (files \ {f}) \cup ({f} \ files)
        /\ moved' = moved \cup {"files"}

\* A child starts from its parent's transcript without the window that is
\* not settled, and from its own role's tools.
SettledPart(list) ==
  IF Unsettled(list).calls = {} THEN list ELSE SubSeq(list, 1, Unsettled(list).at - 1)

Forked ==
  /\ phase \in {"boundary", "running"} /\ acts < MaxActs
  /\ entries' = Append(SettledPart(entries), Entry("user", <<Said>>))
  /\ Len(entries') <= MaxEntries
  /\ granted' \in SUBSET (Range(ToolNames) \ Host)
  /\ last' = NoRequest /\ moved' = {}
  /\ phase' = "boundary" /\ acts' = acts + 1
  /\ UNCHANGED <<files, soul, injected, overflow>>

Change(what) ==
  /\ phase = "boundary" /\ acts < MaxActs
  /\ acts' = acts + 1 /\ moved' = moved \cup what
  /\ UNCHANGED <<phase, overflow, last>>

\* An edit of the config the branch follows: its soul, or its grant.
EditSoul == Change({"soul"}) /\ soul' = 3 - soul
            /\ UNCHANGED <<entries, files, granted, injected>>
EditGrant ==
  /\ \E t \in Range(ToolNames) \ Host :
       /\ granted' = (granted \ {t}) \cup ({t} \ granted)
       /\ Change(IF t \in granted THEN {} ELSE {"added"})
  /\ UNCHANGED <<entries, files, soul, injected>>

\* The host injects a tool, or retires one.
HostChanges ==
  /\ \E t \in Host :
       /\ injected' = (injected \ {t}) \cup ({t} \ injected)
       /\ Change(IF t \in injected THEN {} ELSE {"added"})
  /\ UNCHANGED <<entries, files, soul, granted>>

\* A compaction landing: whole windows go, and the next summary comes.
Landing ==
  /\ Change({"landing"})
  /\ \E n \in 2 .. Len(entries) :
       /\ n < Len(entries) => entries[n + 1].role # "tool"
       /\ entries' = <<entries[1]>> \o SubSeq(entries, n + 1, Len(entries))
  /\ \E s \in Summaries \ files :
       /\ \A r \in Summaries \ files : s <= r
       /\ files' = files \cup {s}
  /\ UNCHANGED <<soul, granted, injected>>

RequestNext ==
  \/ Hear \/ Send
  \/ \E n \in 0 .. 2 : \E tools \in [1 .. n -> Range(ToolNames)] : Reply(tools)
  \/ Result \/ Forked \/ EditSoul \/ EditGrant \/ HostChanges \/ Landing

RequestSpec == RequestInit /\ [][RequestNext]_requestVars

-----------------------------------------------------------------------------
Flat(messages) ==
  FlattenSeq([i \in DOMAIN messages |->
    [j \in DOMAIN messages[i].content |-> <<messages[i].role, messages[i].content[j]>>]])

Uses(m) == {b.id : b \in {x \in Range(m.content) : x.is = "use"}}
Results(m) == {b.id : b \in {x \in Range(m.content) : x.is = "result"}}

\* The history a provider is sent is one it accepts (assembler.rs, pairing.rs,
\* tools/history.rs), after any steps, forks and landings, and on a branch an
\* old cut left an orphan result on: sides alternate, no message is empty, a
\* result's call is in the message before it and every call is answered in
\* the next, and each tool the history names is declared exactly once.
Lawful ==
  LET m == last.messages IN
  /\ \A i \in DOMAIN m :
       /\ m[i].content # <<>>
       /\ i > 1 => m[i].role # m[i - 1].role
       /\ i < Len(m) => Uses(m[i]) = Results(m[i + 1])
       /\ i = 1 => Results(m[i]) = {}
  /\ IsInjective([i \in DOMAIN last.tools |-> last.tools[i].name])
  /\ \A i \in DOMAIN m : \A b \in Range(m[i].content) :
       b.is = "use" => \E t \in Range(last.tools) : t.name = b.tool

Sends == phase = "boundary" /\ phase' = "calling" /\ last # NoRequest
Refusals(tools) == {t \in Range(tools) : t.as # "schema"}

\* Two consecutive requests of a branch (assembler/body.rs, prefix.rs): when
\* no soul, file or landing moved in between the messages of the earlier are
\* a prefix of the later's; and when nothing was added to the surface either,
\* its tools are sent again as they were, whatever was retired or narrowed.
\* Here for a history that names no tool the role may not call.
KeepsPrefix ==
  Sends /\ moved \subseteq {"added"} =>
    /\ IsPrefix(Flat(last.messages), Flat(last'.messages))
    /\ moved = {} /\ Refusals(last.tools) \cup Refusals(Current.tools) = {}
         => last'.tools = last.tools
PrefixKept == [][KeepsPrefix]_requestVars
=============================================================================
