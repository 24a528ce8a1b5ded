----------------------------- MODULE ConfigFile -----------------------------
(***************************************************************************)
(* .trellis/config.yaml as the scripts and the hooks read it               *)
(* (common/config.py, common/trellis_config.py, common/workflow_phase.py,  *)
(* inject-workflow-state.py): a parser for a part of YAML, and the readers *)
(* of single settings.  Three of them decide, each for itself, whether     *)
(* Codex dispatches sub-agents.                                            *)
(*                                                                         *)
(* A line is what the parser sees of it: blank or comment ("none"), a list *)
(* item, "key: value" (pair), "key:" (open), or text without a colon.      *)
(***************************************************************************)
EXTENDS Naturals, Sequences

Empty == [k \in {} |-> 0]

\* A value: a string, a list of strings, or a mapping.
Str(s)  == [str |-> s]
List(l) == [list |-> l]
Map(m)  == [map |-> m]

\* _next_content_line: where the next line with content is.
NextContent(ls, i) ==
  LET later == {j \in i .. Len(ls) : ls[j].kind # "none"} IN
  IF later = {} THEN Len(ls) + 1 ELSE CHOOSE j \in later : \A k \in later : j <= k

\* What a block adds to a mapping: of a key that is there twice, the later value.
Join(map, later) ==
  [k \in DOMAIN map \cup DOMAIN later |-> IF k \in DOMAIN later THEN later[k] ELSE map[k]]
Entry(k, v) == [x \in {k} |-> v]

\* What is read from a line on: where the block ends, its mapping, and the list
\* items that come first, which belong to the key above them, if it is a list.
Nothing(i)         == [next |-> i, map |-> Empty, items |-> <<>>]
Under(k, v, after) == [next |-> after.next, map |-> Join(Entry(k, v), after.map), items |-> <<>>]

Within(k, sub, min, block) == Under(k, Map(sub.map), block[<<sub.next, min>>])
Listed(v, after)   == [next |-> after.next, map |-> after.map, items |-> <<v>> \o after.items]

\* Mutant: a key without a value takes the lines after it, however indented.
BlockSwallows(ls, i, min, block) ==
  LET l == ls[i]
      j == NextContent(ls, i + 1)
  IN  IF i > Len(ls) \/ (l.kind # "none" /\ l.indent < min) THEN Nothing(i)
      ELSE CASE l.kind \in {"none", "text"} -> block[<<i + 1, min>>]
             [] l.kind = "item" -> Listed(l.value, block[<<i + 1, min>>])
             [] l.kind = "pair" -> Under(l.key, Str(l.value), block[<<i + 1, min>>])
             [] l.kind = "open" /\ j > Len(ls) -> Under(l.key, Map(Empty), Nothing(j))
             [] l.kind = "open" /\ j <= Len(ls) /\ ls[j].kind = "item" ->
                  Under(l.key, List(block[<<i + 1, min>>].items), block[<<i + 1, min>>])
             [] OTHER -> Within(l.key, block[<<i + 1, ls[j].indent>>], min, block)

\* _parse_yaml_block from line i on, until a line is indented less than the
\* block; block gives what is read from the later lines on.
Block(ls, i, min, block) ==
  LET l == ls[i]
      j == NextContent(ls, i + 1)
  IN  IF i > Len(ls) \/ (l.kind # "none" /\ l.indent < min) THEN Nothing(i)
      ELSE CASE l.kind \in {"none", "text"} -> block[<<i + 1, min>>]
             [] l.kind = "item" -> Listed(l.value, block[<<i + 1, min>>])
             [] l.kind = "pair" -> Under(l.key, Str(l.value), block[<<i + 1, min>>])
             [] l.kind = "open" /\ j > Len(ls) -> Under(l.key, Map(Empty), Nothing(j))
             [] l.kind = "open" /\ j <= Len(ls) /\ ls[j].kind = "item" ->
                  Under(l.key, List(block[<<i + 1, min>>].items), block[<<i + 1, min>>])
             [] l.kind = "open" /\ j <= Len(ls) /\ ls[j].kind # "item" /\ ls[j].indent > l.indent ->
                  Within(l.key, block[<<i + 1, ls[j].indent>>], min, block)
             [] OTHER -> Under(l.key, Map(Empty), block[<<i + 1, min>>])

Indents(ls) == {0} \cup {ls[j].indent : j \in DOMAIN ls}
Parse(ls) ==
  LET block[p \in (1 .. Len(ls) + 1) \X Indents(ls)] == Block(ls, p[1], p[2], block)
  IN  block[<<1, 0>>].map

-----------------------------------------------------------------------------
(* Readers.                                                                *)

IsMap(v)  == DOMAIN v = {"map"}
IsText(v) == DOMAIN v = {"str"}

\* A string setting of a section, or the default: dict.get and str.
Setting(section, key, default) ==
  IF key \notin DOMAIN section THEN default
  ELSE IF IsText(section[key]) THEN section[key].str ELSE "not a string"

ModeOf(word) ==
  IF word \in {"auto", "sub-agent"} THEN "auto" ELSE "inline"

\* config.get_codex_dispatch_mode, for the scripts.
DispatchMode(config) ==
  IF "codex" \notin DOMAIN config THEN "auto"
  ELSE IF ~IsMap(config.codex) THEN "inline"
  ELSE ModeOf(Setting(config.codex.map, "dispatch_mode", "auto"))

\* resolve_effective_platform, for the steps of workflow.md.
EffectivePlatform(platform, config) ==
  LET inline == "codex" \in DOMAIN config /\
                  \/ ~IsMap(config.codex)
                  \/ ModeOf(Setting(config.codex.map, "dispatch_mode", "auto")) = "inline"
  IN  IF platform # "codex" THEN platform
      ELSE IF inline THEN "codex-inline" ELSE "codex-sub-agent"

\* Mutant: the old name of the mode is forgotten in one of the readers.
HookModeNoAlias(config) ==
  IF "codex" \in DOMAIN config /\ IsMap(config.codex)
     /\ Setting(config.codex.map, "dispatch_mode", "auto") # "auto"
  THEN "inline" ELSE "auto"

\* _resolve_codex_dispatch_mode, for the hook of every prompt: a codex setting
\* that is no mapping counts as none.
HookMode(config) ==
  IF "codex" \in DOMAIN config /\ IsMap(config.codex)
  THEN ModeOf(Setting(config.codex.map, "dispatch_mode", "auto")) ELSE "auto"

\* resolve_breadcrumb_key.
BreadcrumbKey(status, platform, config) ==
  IF platform = "codex" /\ HookMode(config) = "inline" THEN <<status, "inline">> ELSE <<status>>

\* get_context_injection_limits: a number that is missing, malformed or
\* negative is replaced by its default; 0 stands for no limit.  numbers gives
\* the words that int() takes for a natural number.
Limits(config, defaults, numbers) ==
  [k \in DOMAIN defaults |->
     IF "context_injection" \notin DOMAIN config \/ ~IsMap(config.context_injection)
     THEN defaults[k]
     ELSE LET word == Setting(config.context_injection.map, k, "missing")
          IN  IF word \in DOMAIN numbers THEN numbers[word] ELSE defaults[k]]
=============================================================================
