---------------------------- MODULE MCActiveTask ----------------------------
(***************************************************************************)
(* ActiveTask for TLC.  A behaviour runs its commands one after the other  *)
(* (serial: they may be issued, and announced by tickets, in any order) or *)
(* lets them overlap.  The number of commands is bounded.  Or it is one    *)
(* reference of TaskRefs, given to task.py start and task.py archive.      *)
(***************************************************************************)
EXTENDS ActiveTask, Naturals, SequencesExt, TLC

CONSTANTS
  MaxSerial,     \* bound: commands of a serial behaviour
  MaxOverlap,    \* bound: commands of an overlapping behaviour
  MaxSegments,   \* bound: segments of a task reference
  Segment, Root, Dirs, Link, Ending,
  NoRef          \* the behaviour is about sessions

R == INSTANCE TaskRefs

ASSUME FileSystemAssumption == R!FileSystem

VARIABLES serial, left, ref

mcvars == <<vars, serial, left, ref>>

Symmetry == Permutations(Window) \cup Permutations(Task)

\* A repository at /r with the tasks a and 01-x, a task that is a link out of
\* it and one that is a link to another, links beside .trellis and at /o, and
\* directories beside .trellis that are named like tasks; another directory at /o.
MCRoot   == <<"r">>
InTasks(n) == <<"r", ".trellis", "tasks", n>>
MCDirs   ==
  {<<"r">>, <<"r", "src">>, <<"r", "a">>, <<"r", "tasks">>, <<"r", "tasks", "a">>, <<"r", ".trellis">>,
   <<"r", ".trellis", "tasks">>, <<"o">>, <<"o", "a">>} \cup
  {InTasks(n) : n \in {"a", "01-x", "archive"}} \cup {Append(InTasks("archive"), "a")}
MCLink   == InTasks("out") :> <<"o">> @@ InTasks("alias") :> InTasks("a")
            @@ <<"r", "o">> :> <<"r", "src">> @@ <<"o", "x">> :> InTasks("a")
MCSegment ==
  {".", "..", ".trellis", "tasks", "archive", "a", "x", "01-x", "src", "out", "alias", "r", "o"}
MCEnding == [n \in Segment |-> IF n = "x" THEN {"01-x"} ELSE {}]
Refs     == [abs : BOOLEAN, segs : UNION {[1 .. n -> Segment] : n \in 1 .. MaxSegments}]

Running == {w \in Window : call[w].at \notin {"end", "issued"}}

MCInit ==
  /\ Init
  /\ serial \in BOOLEAN
  /\ left = IF serial THEN MaxSerial ELSE MaxOverlap
  /\ \/ ref = NoRef
     \/ serial /\ ref \in Refs /\ kind = [w \in Window |-> "env"]

MCNext ==
  /\ ref = NoRef /\ UNCHANGED <<serial, ref>>
  /\ \/ /\ left > 0
        /\ left' = left - 1
        /\ \E w \in Window : Issues(w)
     \/ /\ UNCHANGED left
        /\ \/ \E w \in Window :
                \/ Begins(w) /\ (serial => Running = {})
                \/ Goes(w)
                \/ Killed(w)
           \/ \E k \in tickets : Expire(k)

MCSpec == MCInit /\ [][MCNext]_mcvars

-----------------------------------------------------------------------------
\* When commands run one at a time, a window whose shells know its key loses a
\* pointer to somebody else only when its task is being archived, or when it
\* is the only window with a session file: two windows never end up with one
\* finishing the task of the other (active_task.py:637-639 "refuses to pick
\* across windows").
LosesOnlyAlone ==
  [][serial => \A w \in Window :
       (/\ kind[w] = "env" /\ call[w].op # "start" /\ call[w].op # "finish"
        /\ session[w] \in Task /\ session'[w] # session[w])
       => \/ \E v \in Window : At(v, "archive", "unlink") /\ call[v].task = session[w]
          \/ Files = {w}]_mcvars

\* After an archive that ran to its end, with no command beside it, no window
\* points at the directory that is gone, also when a session file was torn by
\* an earlier kill (active_task.py:733-755).
NoDanglingSession ==
  serial => \A w \in Window : session[w] \in Task => session[w] \in dirs

\* However a directory is named, task.py start takes none outside of the
\* repository; when it takes one within .trellis it stores a pointer to it that
\* leads all four readers back to it, and what it stores of any other leads
\* them all to one directory in the repository (paths.py:236-256).
PointerLeadsBack ==
  ref # NoRef => \A d \in R!ResolveDir(ref) \cap Dirs :
    LET p == R!Stored(d) IN
    /\ IsPrefix(Root, d)
    /\ IsStrictPrefix(R!TrellisDir, d) => (p.segs # <<>> /\ R!ResolveRef(p) = d)
    /\ p.segs # <<>> =>
         /\ IsPrefix(Root, R!ResolveRef(p))
         /\ {R!CurrentTaskAbs(p), R!SessionStartDir(p), R!PromptDir(p)} = {R!ResolveRef(p)}

\* When a task is archived, exactly the pointers that lead to it are removed,
\* however the task was named when it was started and when it is archived, and
\* what is archived is never an archived task, or the directory of them
\* (task_utils.py:72-93, active_task.py:733-755).
ArchiveClearsPointers ==
  ref # NoRef => \A d \in R!ResolveDir(ref) \cap Dirs :
    R!IsTask(d) =>
      /\ ~IsPrefix(Append(R!TasksDir, "archive"), d)
      /\ \A other \in {e \in Dirs : R!Within(e)} :
           LET p == R!Stored(other) IN
           p.segs # <<>> => (R!Cleared(p, d) <=> R!ResolveRef(p) = d)

\* A pointer leads to its task for as long as there is one: back from every
\* spelling of it, and nowhere once it is archived.
PointersSound == PointerLeadsBack /\ ArchiveClearsPointers /\ NoDanglingSession
=============================================================================
