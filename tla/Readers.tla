------------------------------- MODULE Readers -------------------------------
(***************************************************************************)
(* What the several readers of config.yaml, workflow.md and task.json, and *)
(* the comparison of versions, owe each other.  A behaviour is one input,  *)
(* of any length, of ConfigFile, WorkflowText, WorkflowStates or Versions. *)
(***************************************************************************)
EXTENDS ConfigFile, WorkflowStates, Versions, SequencesExt

CONSTANTS
  Word,          \* words that a setting may have as its value
  SettingKey,    \* keys of settings
  Platform,      \* platforms that blocks of workflow.md name
  Status,        \* states that blocks of workflow.md are for
  StepId         \* numbers of steps

VARIABLES
  topic,         \* what the behaviour is about
  config,        \* lines of config.yaml
  input          \* the input of any other topic

rvars == <<topic, config, input>>

-----------------------------------------------------------------------------
(* config.yaml, also as it is written from settings: a sequence of keys     *)
(* with values, of which a mapping is again such a sequence.               *)

ConfigLine ==
  [kind : {"pair", "open", "item", "none", "text"}, indent : Nat,
   key : SettingKey \cup {"-"}, value : Word \cup {"-"}]
Line(kind, indent, key, value) == [kind |-> kind, indent |-> indent, key |-> key, value |-> value]
Pair(indent, key, value) == Line("pair", indent, key, value)
Open(indent, key)        == Line("open", indent, key, "-")
Item(indent, value)      == Line("item", indent, "-", value)

Leaves   == [str : Word] \cup [list : Seq(Word) \ {<<>>}] \cup [map : {<<>>}]
Keyed(V) == {t \in Seq([key : SettingKey, value : V]) :
               \A i, j \in DOMAIN t : t[i].key = t[j].key => i = j}
Settings == Keyed(Leaves \cup [map : Keyed(Leaves)])

\* A key with a string, a list or an empty mapping; the items of a list at the
\* indent of their key or deeper, the keys of a mapping deeper by inner.
LeafLines(e, indent, deeper) ==
  IF IsText(e.value) THEN <<Pair(indent, e.key, e.value.str)>>
  ELSE IF IsMap(e.value) THEN <<Open(indent, e.key)>>
  ELSE <<Open(indent, e.key)>> \o
       [j \in DOMAIN e.value.list |-> Item(indent + deeper, e.value.list[j])]
SectionLines(e, inner, deeper) ==
  IF ~IsMap(e.value) THEN LeafLines(e, 0, deeper)
  ELSE <<Open(0, e.key)>> \o
       FlattenSeq([i \in DOMAIN e.value.map |-> LeafLines(e.value.map[i], inner, deeper)])
Render(t, inner, deeper) == FlattenSeq([i \in DOMAIN t |-> SectionLines(t[i], inner, deeper)])

\* The mapping that settings stand for.
Keys(t)      == {t[i].key : i \in DOMAIN t}
ValueAt(t, k) == t[CHOOSE i \in DOMAIN t : t[i].key = k].value
InnerOf(t)   == [k \in Keys(t) |-> IF IsMap(ValueAt(t, k)) THEN Map(Empty) ELSE ValueAt(t, k)]
MapOf(t)     ==
  [k \in Keys(t) |-> IF IsMap(ValueAt(t, k)) THEN Map(InnerOf(ValueAt(t, k).map)) ELSE ValueAt(t, k)]

\* The lines that are neither blank nor a comment.
Content(ls) == Picked(ls, {i \in DOMAIN ls : ls[i].kind # "none"})

-----------------------------------------------------------------------------
(* Lines of workflow.md by what a reader of them looks at, and the task.    *)

TextLine ==
  [kind : {"open"}, names : SUBSET Platform] \cup [kind : {"close", "text", "blank"}, names : {{}}]

Tags      == {<<s>> : s \in Status} \cup {<<s, "inline">> : s \in Status}
PlainLine == [kind : {"text", "blank"}, tag : Nat]
StateLine == [kind : {"open", "close"}, tag : Tags] \cup PlainLine
IndexLine ==
  [kind : {"open", "close"}, tag : Tags] \cup [kind : {"index", "phase", "marker", "text"}, tag : {0}]
StepLine  == [kind : {"step"}, tag : StepId] \cup [kind : {"heading", "rule"}, tag : {0}] \cup PlainLine

Tasks ==
  [json : {"missing", "torn", "read"}, status : {"planning", "in_progress", "completed", "", "custom"},
   prd : BOOLEAN]

RInit ==
  /\ config \in Seq(ConfigLine)
  /\ \/ topic = "settings" /\ input \in [settings : Settings, inner : Nat \ {0}, deeper : Nat]
        /\ Content(config) = Render(input.settings, input.inner, input.deeper)
     \/ topic = "text" /\ input \in Seq(TextLine)
     \/ topic = "states" /\ input \in Seq(StateLine)
     \/ topic = "index" /\ input \in Seq(IndexLine)
     \/ topic = "steps" /\ input \in Seq(StepLine)
     \/ topic = "status" /\ input \in [pointer : {"none", "stale", "set"}, task : Tasks]
     \/ topic = "versions" /\ input \in [left : Version, right : Version]
     \/ topic \in {"config", "inject", "linear"} /\ input = <<>>

RNext == UNCHANGED rvars
RSpec == RInit /\ [][RNext]_rvars

-----------------------------------------------------------------------------
\* The scripts, the steps of workflow.md and the hook of every prompt take the
\* same side on whether Codex dispatches sub-agents, for every config.yaml in
\* which codex is a section or missing (inject-workflow-state.py:279-280 "so
\* the two stay in lockstep").
DispatchAgrees ==
  LET c == Parse(config)
      inline == DispatchMode(c) = "inline"
  IN  ("codex" \in DOMAIN c => IsMap(c.codex)) =>
        /\ (EffectivePlatform("codex", c) = "codex-inline") = inline
        /\ (BreadcrumbKey("planning", "codex", c) = <<"planning", "inline">>) = inline

\* A session starts with the same state of the task that its prompts then show,
\* unless task.json cannot be read, or prd.md is missing before the task is
\* completed (session-start.py:229-297, inject-workflow-state.py:157-182).
SessionAgreesWithPrompt ==
  (/\ topic = "status"
   /\ \/ input.pointer # "set"
      \/ /\ input.task.json = "read" /\ input.task.status # ""
         /\ input.task.prd \/ input.task.status = "completed")
    => SessionStatus(input.pointer, input.task) = PromptStatus(input.pointer, input.task)

\* Hooks and scripts take the same side: on who is dispatched, and on the state
\* of the task.
ReadersAgree == DispatchAgrees /\ SessionAgreesWithPrompt

\* Settings written as YAML are read back as they are, with list items at the
\* indent of their key or deeper, sections that are empty, and comments and
\* blank lines of any indent between any lines (config.py:62-86).
SettingsReadBack == topic = "settings" => Parse(config) = MapOf(input.settings)

\* Versions are ordered by precedence: numbers first, a prerelease below its
\* release, its parts in turn with numbers below words, and "same" only for
\* versions that differ in nothing (session_context.py:379-418).
VersionPrecedence ==
  topic = "versions" =>
    LET k == Key(input.left)  l == Key(input.right) IN
    VersionOrder(input.left, input.right) =
      IF Precedes(k, l) THEN "below" ELSE IF Precedes(l, k) THEN "above" ELSE "same"

-----------------------------------------------------------------------------
(* workflow.md.                                                             *)

\* Codex is shown the text outside of blocks and in the blocks of its mode,
\* and nothing else, however the markers are nested or left open, and never
\* three blank lines in a row (workflow_phase.py:175-219).
TextOfOneMode ==
  topic = "text" => \A platform \in Platform :
    LET shown == FilterPlatform(input, platform) IN
    /\ Picked(shown, {i \in DOMAIN shown : shown[i].kind = "text"}) = TextFor(input, platform)
    /\ \A i \in 1 .. Len(shown) - 2 : \E j \in i .. i + 2 : ~Blank(shown[j])

\* The block of a tag is closed and named once, and has text and no markers in
\* it; or there is none.
Marker(kind, tag) == {i \in DOMAIN input : input[i].kind = kind /\ input[i].tag = tag}
Between(i, j, tag) ==
  /\ i < j /\ Marker("open", tag) = {i} /\ Marker("close", tag) = {j}
  /\ \A k \in i + 1 .. j - 1 : input[k].kind \in {"text", "blank"}
  /\ \E k \in i + 1 .. j - 1 : input[k].kind = "text"
Proper(tag) ==
  \/ Marker("open", tag) = {} /\ Marker("close", tag) = {}
  \/ \E i, j \in DOMAIN input : Between(i, j, tag)
ContentOf(tag) ==
  LET i == CHOOSE i \in Marker("open", tag) : TRUE
      j == CHOOSE j \in Marker("close", tag) : TRUE
  IN  Strip(SubSeq(input, i + 1, j - 1))

\* A state whose block has content is shown with just that content, the block
\* of the status stands in for a missing one of its mode, and no other text is
\* shown, for every workflow.md whose blocks are closed and named once
\* (inject-workflow-state.py:196-219, 346-367).
StatesReadBack ==
  (topic = "states" /\ \A tag \in Tags : Proper(tag)) =>
    \A status \in Status : \A key \in {<<status>>, <<status, "inline">>} :
      Breadcrumb(Breadcrumbs(input), status, key) =
        IF Marker("open", key) # {} THEN ContentOf(key)
        ELSE IF Marker("open", <<status>>) # {} THEN ContentOf(<<status>>)
        ELSE Generic

\* The two indexes show no line of a block that the hook of a prompt shows as a
\* state, and every other line of their section, whatever markers are missing
\* or nested, as long as no block crosses the ends of the section
\* (workflow_phase.py:65-68, session-start.py:459-463).
IndexHidesStates ==
  topic = "index" =>
    LET s == Section(input)
        hidden == UNION {b[1] .. b[2] : b \in Blocks(input)}
        Crossed(at) == \E b \in Blocks(input) : b[1] < at /\ at <= b[2]
        own == Picked(input, {i \in s.start .. s.end - 1 :
                                i \notin hidden /\ input[i].kind # "marker"})
    IN  (s.start # 0 /\ ~Crossed(s.start) /\ ~Crossed(s.end)) =>
          Without(PhaseIndex(input), {"marker"}) = own /\ SessionIndex(input) = own

\* A step shows its heading and the lines down to the next heading or rule, so
\* that no line belongs to two steps and none of a step is lost
\* (workflow_phase.py:100-131).
StepsApart ==
  topic = "steps" => \A id \in StepId :
    LET Over(k) == {i \in 1 .. k : input[i].kind \in {"step", "heading", "rule"}}
        IsHead(i) == input[i].kind = "step" /\ input[i].tag = id
        Owned(k) ==
          \E i \in Over(k) :
            /\ IsHead(i)
            /\ \A j \in Over(k) : j <= i
            /\ \A j \in 1 .. i - 1 : ~IsHead(j)
    IN  Step(input, id) = Strip(Picked(input, {k \in DOMAIN input : Owned(k)}))

\* Every reader of workflow.md takes exactly its part of it: the prompts the
\* states, the indexes all but the states, a step its section, Codex its mode.
WorkflowPartitioned == TextOfOneMode /\ StatesReadBack /\ IndexHidesStates /\ StepsApart
=============================================================================
