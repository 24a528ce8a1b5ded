------------------------------- MODULE MCHooks -------------------------------
(***************************************************************************)
(* The pure parts of the scripts and the hooks for TLC.  A behaviour        *)
(* either is a small input of Readers (a config.yaml written freely, or    *)
(* rendered from settings with a comment put anywhere; a workflow.md; a    *)
(* task; two versions); or it runs a manifest through add-context,         *)
(* validate and the hook of ContextInjection, with the limits that its     *)
(* config.yaml sets; or it runs commands with the hook of LinearSync.      *)
(***************************************************************************)
EXTENDS ContextInjection, Readers, LinearSync, TLC

CONSTANTS
  MaxLines,      \* bound: lines of a free config.yaml
  MaxText,       \* bound: lines of a workflow text
  MaxRows,       \* bound: rows of a manifest
  MaxCommands    \* bound: commands with the hook of LinearSync

VARIABLE
  left           \* commands that may still begin

mcvars == <<vars, lvars, rvars, left>>

-----------------------------------------------------------------------------
(* Inputs.                                                                 *)

None(indent) == Line("none", indent, "-", "-")

ConfigLines ==
  {Open(0, "codex"), Pair(0, "codex", "inline"), Open(2, "dispatch_mode"),
   Item(2, "inline"), Pair(0, "dispatch_mode", "inline"), None(0), Line("text", 0, "-", "-")}
  \cup {Pair(2, "dispatch_mode", m) : m \in {"auto", "inline", "sub-agent", "junk"}}

\* Settings, rendered with list items at the indent of their key or deeper.
Lists    == {List(<<"x">>), List(<<"x", "y">>)}
Inner    == {Str("x")} \cup Lists \cup {Map(<<>>)}
Sections == {Map(<<>>)} \cup {Map(<<[key |-> "k", value |-> v]>>) : v \in Inner}
            \cup {Map(<<[key |-> "k", value |-> v], [key |-> "l", value |-> w]>>) :
                    v \in Inner, w \in Inner}
MCSettings == {<<[key |-> "a", value |-> v], [key |-> "b", value |-> w]>> :
                 v \in Inner \cup Sections, w \in Inner \cup Sections}

WithComment(ls, i, indent) == SubSeq(ls, 1, i) \o <<None(indent)>> \o SubSeq(ls, i + 1, Len(ls))

TextLines ==
  {[kind |-> "open", names |-> {"codex-inline"}],
   [kind |-> "open", names |-> {"codex-sub-agent", "kilo"}],
   [kind |-> "close", names |-> {}],
   [kind |-> "text", names |-> {}], [kind |-> "blank", names |-> {}]}

\* Limits as config.yaml sets them; max_total_bytes may be malformed.
InjectionConfigs ==
  {<<Open(0, "context_injection"), Pair(2, "max_file_bytes", f), Pair(2, "max_total_bytes", t)>> :
     f \in {"0", "1", "3", "4"}, t \in {"0", "7", "junk"}}
IntOf == "0" :> 0 @@ "1" :> 1 @@ "3" :> 3 @@ "4" :> 4 @@ "7" :> 7
Defaults == "max_file_bytes" :> 4 @@ "max_artifact_bytes" :> 3 @@ "max_total_bytes" :> 9

TextOf(c)  == [kind |-> "text", chars |-> c]
MCName     == {"small", "wide", "long", "image", "dir", "gone"}
MCArtifact == <<"prd.md", "design.md", "implement.md">>
MCFile ==
  "small" :> TextOf(<<1, 1>>) @@ "wide" :> TextOf(<<1, 3, 2>>) @@ "long" :> TextOf(<<1, 1, 2, 1>>)
  @@ "image" :> [kind |-> "binary"] @@ "gone" :> [kind |-> "missing"]
  @@ "dir" :> [kind |-> "dir", md |-> <<"long", "small", "wide">>]
  @@ "prd.md" :> TextOf(<<1, 2, 2>>) @@ "design.md" :> [kind |-> "missing"]
  @@ "implement.md" :> TextOf(<<1>>)

\* Rows an agent may have written by hand.
HandRows ==
  {Row(k, n, "file") : k \in {"file", "path"}, n \in {"wide", "gone", "dir"}}
  \cup {Row("bad", "", "file"), Row("other", "", "file"), Row("file", "dir", "directory")}

\* Lines of workflow.md by what a reader of them looks at.
Tagged(kind, tag) == [kind |-> kind, tag |-> tag]
Plain == {Tagged("text", 1), Tagged("text", 2), Tagged("blank", 0)}
StateLines ==
  Plain \cup {Tagged(k, t) : k \in {"open", "close"}, t \in {<<"x">>, <<"x", "inline">>}}
IndexLines ==
  {Tagged(k, 0) : k \in {"index", "phase", "marker", "text"}}
  \cup {Tagged(k, <<"x">>) : k \in {"open", "close"}}
StepLines == Plain \cup {Tagged("step", 1), Tagged("step", 2), Tagged("heading", 0), Tagged("rule", 0)}

Parts    == [kind : {"number", "word"}, value : {1, 2}]
Releases == {<<1>>, <<1, 0>>, <<1, 1>>, <<2>>, <<1, 0, 1>>}
VersionSet ==
  [numbers : Releases, prerelease : UNION {[1 .. n -> Parts] : n \in 0 .. 2}]

Up(n, set) == UNION {[1 .. k -> set] : k \in 0 .. n}

MCParent == "parent" :> "none" @@ "child" :> "parent"

MCInit ==
  /\ LInit
  /\ \/ topic = "config" /\ input = <<>> /\ config \in Up(MaxLines, ConfigLines)
     \/ /\ topic = "settings" /\ input \in [settings : MCSettings, inner : {2}, deeper : {0, 2}]
        /\ LET ls == Render(input.settings, input.inner, input.deeper)
           IN  \E i \in 0 .. Len(ls), indent \in {0, 4} : config = WithComment(ls, i, indent)
     \/ topic = "inject" /\ input = <<>> /\ config \in InjectionConfigs
     \/ /\ config = <<>>
        /\ \/ topic = "text" /\ input \in Up(MaxText - 1, TextLines)
           \/ topic = "states" /\ input \in Up(MaxText, StateLines)
           \/ topic = "index" /\ input \in Up(MaxText, IndexLines)
           \/ topic = "steps" /\ input \in Up(MaxText - 1, StepLines)
           \/ topic = "status" /\ input \in [pointer : {"none", "stale", "set"}, task : Tasks]
           \/ topic = "linear" /\ input = <<>>
           \/ topic = "versions" /\ input \in [left : VersionSet, right : VersionSet]
  /\ RInit
  /\ limits = Limits(Parse(config), Defaults, IntOf)
  /\ Init
  /\ left = IF topic = "linear" THEN MaxCommands ELSE 0

MCNext ==
  /\ RNext
  /\ \/ /\ topic = "inject"
        /\ \/ Len(rows) < MaxRows /\ ((\E r \in HandRows : HandEdit(r)) \/ \E n \in Name : AddContext(n))
           \/ Validate \/ Begins \/ ReadDirectory \/ ReadFile
        /\ UNCHANGED <<lvars, left>>
     \/ /\ topic = "linear"
        /\ \E p \in Process :
             \/ /\ left > 0 /\ left' = left - 1
                /\ Commands(p)
             \/ left' = left /\ Steps(p)
        /\ UNCHANGED vars

MCSpec == MCInit /\ [][MCNext]_mcvars
=============================================================================
