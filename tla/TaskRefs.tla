------------------------------ MODULE TaskRefs ------------------------------
(***************************************************************************)
(* Task references: what a command takes for the directory of its          *)
(* argument (common/task_utils.py), what it stores of it in the session    *)
(* pointer (common/active_task.py), and where the readers of the pointer   *)
(* go from there (common/paths.py, session-start.py).                      *)
(*                                                                         *)
(* A path is a sequence of segments, from "/" when it is one of Dirs or    *)
(* the result of an operator here.  A reference is such a sequence with a  *)
(* flag, abs, for a leading "/".                                           *)
(***************************************************************************)
EXTENDS Integers, SequencesExt

CONSTANTS
  Segment,       \* names that a path is made of, "." and ".." included
  Root,          \* the repository
  Dirs,          \* directories there are
  Link,          \* Link[p]: where the symbolic link p leads
  Ending         \* Ending[n]: names that end with "-" and the name n

NoDir == <<>>                           \* None; "/" itself is never asked for

TrellisDir == Append(Root, ".trellis")
TasksDir   == Append(TrellisDir, "tasks")

\* Not read through a link.
Physical(p) ==
  p \in Seq(Segment) /\ \A i \in DOMAIN p : p[i] \notin {".", ".."} /\ SubSeq(p, 1, i) \notin DOMAIN Link

\* .trellis and the directory of tasks are no links, and a directory is known by
\* its real path.  A link within .trellis, or outside of the repository, leads
\* to something within .trellis or away from the repository, and not to the
\* rest of the repository, where tasks are not kept.
FileSystem ==
  /\ {".", ".trellis", "tasks", "archive"} \subseteq Segment
  /\ Root \in Seq(Segment) /\ Physical(TasksDir)
  /\ NoDir \notin Dirs /\ \A d \in Dirs : Physical(d)
  /\ \A p \in DOMAIN Link :
       /\ Link[p] \in Seq(Segment)
       /\ IsPrefix(TrellisDir, p) \/ ~IsPrefix(Root, p) =>
            \/ IsStrictPrefix(TrellisDir, Link[p])
            \/ ~IsPrefix(Root, Link[p]) /\ ~IsPrefix(Link[p], Root)

-----------------------------------------------------------------------------
(* Paths.                                                                  *)

\* The directory above; "/" is above itself.
Parent(p) == SubSeq(p, 1, IF p = <<>> THEN 0 ELSE Len(p) - 1)

\* The path that the operating system, and Path.resolve, reach by walking
\* along the segments from p: ".." goes up from where a link has led.
Walk(p, segs) ==
  LET at[n \in 0 .. Len(segs)] ==
        LET next == Append(at[n - 1], segs[n]) IN
        IF n = 0 THEN p
        ELSE IF segs[n] = "." THEN at[n - 1]
        ELSE IF segs[n] = ".." THEN Parent(at[n - 1])
        ELSE IF next \in DOMAIN Link THEN Link[next] ELSE next
  IN  at[Len(segs)]

Within(p) == IsPrefix(Root, p)

\* Mutant: the path is compared as it is written, before ".." and links are
\* followed.
ContainedLexically(p, segs) == IF IsPrefix(Root, p \o segs) THEN Walk(p, segs) ELSE NoDir

\* candidate.resolve(), refused when it is not inside the repository.
Contained(p, segs) == LET d == Walk(p, segs) IN IF Within(d) THEN d ELSE NoDir

\* "./" in front of a relative path is taken off, as often as it is there.
Stripped(segs) ==
  LET dots == {n \in 1 .. Len(segs) - 1 : \A i \in 1 .. n : segs[i] = "."}
  IN  SubSeq(segs, Cardinality(dots) + 1, Len(segs))

-----------------------------------------------------------------------------
(* Readers of a stored reference.                                          *)

\* normalize_task_ref, of all three files.
Normalized(ref) ==
  LET segs == Stripped(ref.segs) IN
  IF ref.abs THEN ref
  ELSE [ref EXCEPT !.segs = IF Len(segs) > 1 /\ Head(segs) = "tasks"
                            THEN <<".trellis">> \o segs ELSE segs]

\* Where a normalized reference starts: "/", the repository or the tasks.
Start(ref) ==
  IF ref.abs THEN <<>>
  ELSE IF Len(ref.segs) > 1 /\ Head(ref.segs) = ".trellis" THEN Root ELSE TasksDir

\* resolve_task_ref of active_task.py.
ResolveRef(ref) == LET n == Normalized(ref) IN Contained(Start(n), n.segs)

\* get_current_task_abs of paths.py, which keeps a copy of both functions.
CurrentTaskAbs(ref) == ResolveRef(ref)

\* _resolve_task_dir of session-start.py: joined, not resolved; the operating
\* system follows it when task.json is opened.
SessionStartDir(ref) == LET n == Normalized(ref) IN Walk(Start(n), n.segs)

\* get_active_task of inject-workflow-state.py, and the sub-agent hook: below
\* the repository.
PromptDir(ref) == Walk(IF ref.abs THEN <<>> ELSE Root, ref.segs)

-----------------------------------------------------------------------------
(* Commands.                                                               *)

\* find_task_by_name: a directory of that name, or one that ends with it.
Find(segs) ==
  LET exact  == Walk(TasksDir, segs)
      others == {n \in Ending[segs[1]] : Walk(TasksDir, <<n>>) \in Dirs} IN
  IF exact \in Dirs THEN {exact}
  ELSE IF Len(segs) = 1 /\ others # {} THEN {Walk(TasksDir, <<n>>) : n \in others}
  ELSE {NoDir}

\* resolve_task_dir: the directories it may return, more than one when several
\* names end with the argument.  The name is looked up as it was typed.
ResolveDir(ref) ==
  LET segs == Stripped(ref.segs) IN
  IF ref.abs THEN {Contained(<<>>, ref.segs)}
  ELSE IF Len(segs) > 1 \/ Head(segs) = ".trellis" THEN {Contained(Root, segs)}
  ELSE {IF d = NoDir THEN Contained(Root, segs) ELSE IF Within(d) THEN d ELSE NoDir :
          d \in Find(ref.segs)}

\* relative_to(repo_root), "." for the repository.
Relative(d) ==
  [abs |-> FALSE, segs |-> IF d = Root THEN <<".">> ELSE SubSeq(d, Len(Root) + 1, Len(d))]

\* _canonical_task_ref of a directory; no segments for None.
Canonical(ref) ==
  LET d == ResolveRef(ref) IN
  IF d \in Dirs THEN Relative(d) ELSE [abs |-> FALSE, segs |-> <<>>]

\* What cmd_start stores once it has found d, by set_active_task.
Stored(d) == Canonical(Relative(d))

\* is_within_tasks_dir, for archive.
IsTask(d) == Parent(d) = TasksDir /\ Last(d) # "archive"

\* Mutant: a pointer is compared with the directory as it was given.
ClearedAsGiven(stored, d) == stored = [abs |-> TRUE, segs |-> d]

\* Whether clear_task_from_sessions removes a pointer when d is archived, which
\* comes in as an absolute path; nothing equals a pointer that leads nowhere.
Cleared(stored, d) ==
  LET target == Canonical([abs |-> TRUE, segs |-> d])
      own    == Canonical(stored)
  IN  target.segs # <<>> /\ target = own
=============================================================================
