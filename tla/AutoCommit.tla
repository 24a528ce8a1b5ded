----------------------------- MODULE AutoCommit -----------------------------
(***************************************************************************)
(* The commits that end add_session.py (_auto_commit_workspace) and        *)
(* task.py archive (_auto_commit_archive), over the journal of module      *)
(* Journal and the task directories (common/safe_commit.py).               *)
(*                                                                         *)
(* Both stage chosen paths and then commit whatever is staged.  The git    *)
(* index is shared by all windows and survives a command that is killed, a *)
(* commit that a hook rejects and a git add that .gitignore refuses, so    *)
(* what one command stages another may commit.                             *)
(***************************************************************************)
EXTENDS Journal

CONSTANTS
  Task,
  NoTask,
  MaxVersion     \* bound: versions of a task directory

ASSUME AutoCommitAssumption == NoTask \notin Task /\ MaxVersion \in Nat \ {0}

VARIABLES
  dir,           \* dir[p]: version of directory p in the working tree
  staged, head,  \* contents of every path in the git index and in HEAD
  git,           \* git[w]: the part of the command of w that concerns git
  archived,      \* tasks whose archive command reported success
  branch         \* journal of a parallel branch, NoFile if there is none

gvars == <<dir, staged, head, git, archived, branch>>
vars  == <<jvars, gvars>>

\* The journal is one path: .gitignore refuses index.md and its pages together.
Absent == 0
Live(t) == <<"task", t>>
Past(t) == <<"archive", t>>
Pages   == <<"journal", NoTask>>
Dirs    == {"task", "archive"} \X Task
Path    == Dirs \cup {Pages}

NoJournal == [page |-> [n \in {} |-> {}], index |-> NoFile]
Work(p)   == IF p = Pages THEN [page |-> page, index |-> index] ELSE dir[p]
Missing(p) == IF p = Pages THEN NoJournal ELSE Absent

Ready == [at |-> "end", task |-> NoTask, paths |-> {}, tracked |-> FALSE]
Free(w) == rec[w] = Idle /\ git[w] = Ready

\* A task directory exists; it has been committed, or never added.
GitInit ==
  \E tracked \in SUBSET Task :
    /\ dir = [p \in Dirs |-> IF p[1] = "task" THEN 1 ELSE Absent]
    /\ staged = [p \in Path |-> IF p[1] = "task" /\ p[2] \in tracked THEN 1 ELSE Missing(p)]
    /\ head = staged
    /\ git = [w \in Window |-> Ready]
    /\ archived = {}
    /\ branch = NoFile

-----------------------------------------------------------------------------
(* git.                                                                    *)

Step(w, at) == git[w].at = at
Then(w, at) == git' = [git EXCEPT ![w].at = at]
Stop(w)     == git' = [git EXCEPT ![w] = Ready]

\* git add -- paths: takes the working tree, deletions included; a path that
\* is neither there nor tracked fails it with nothing staged.
Add(paths) == [p \in Path |-> IF p \in paths THEN Work(p) ELSE staged[p]]
Addable(paths) == \A p \in paths : Work(p) # Missing(p) \/ staged[p] # Missing(p)

\* git add that fails: .gitignore refuses some paths, and stages the others.
AddFails(paths) ==
  \/ UNCHANGED staged
  \/ /\ Addable(paths)
     /\ \E some \in SUBSET paths : some # paths /\ staged' = Add(some)

-----------------------------------------------------------------------------
(* _auto_commit_workspace: the journal and the current task, if one is     *)
(* known; get_current_task asks the sessions of all windows.  An archived  *)
(* task lies a month directory deeper than the path that is tried.         *)

\* Mutant: every task directory is staged, as before #303.
SessionPathsWide(w) ==
  /\ rec[w].at = "commit" /\ git[w] = Ready
  /\ git' = [git EXCEPT ![w] = [Ready EXCEPT !.at = "add", !.paths =
               {Pages} \cup {Live(t) : t \in {x \in Task : dir[Live(x)] # Absent}}]]
  /\ UNCHANGED <<jvars, dir, staged, head, archived, branch>>

SessionPaths(w) ==
  /\ rec[w].at = "commit" /\ git[w] = Ready
  /\ \E current \in Task \cup {NoTask} :
       git' = [git EXCEPT ![w] = [Ready EXCEPT !.at = "add", !.paths =
                 {Pages} \cup {Live(t) : t \in {x \in {current} \ {NoTask} : dir[Live(x)] # Absent}}]]
  /\ UNCHANGED <<jvars, dir, staged, head, archived, branch>>

SessionAdd(w) ==
  LET paths == git[w].paths IN
  /\ Step(w, "add") /\ git[w].task = NoTask
  /\ \/ Addable(paths) /\ staged' = Add(paths) /\ Then(w, "commit") /\ UNCHANGED rec
     \/ AddFails(paths) /\ Stop(w) /\ Done(w)
  /\ UNCHANGED <<developer, page, index, dir, head, archived, branch>>

\* diff --cached over the paths, then commit -m of the whole index; a hook or
\* another process may make the commit fail.
SessionCommit(w) ==
  /\ Step(w, "commit") /\ git[w].task = NoTask
  /\ \/ (\E p \in git[w].paths : staged[p] # head[p]) /\ head' = staged
     \/ UNCHANGED head
  /\ Stop(w) /\ Done(w)
  /\ UNCHANGED <<developer, page, index, dir, staged, archived, branch>>

-----------------------------------------------------------------------------
(* archive: task.json and those of its children are rewritten, the         *)
(* directory moves, the archive and the children are staged, the source is *)
(* removed from the index, and all that is staged is committed.            *)

Bumped(ps) == [p \in Dirs |-> IF p \in ps THEN dir[p] + 1 ELSE dir[p]]

ArchiveEdit(w, t) ==
  /\ Free(w)
  /\ dir[Live(t)] \in 1 .. MaxVersion - 1
  /\ dir' = Bumped({Live(t)})
  /\ git' = [git EXCEPT ![w] = [at |-> "move", task |-> t, tracked |-> FALSE, paths |-> {}]]
  /\ UNCHANGED <<jvars, staged, head, archived, branch>>

\* One child after the other loses its parent, until the directory moves.  A
\* task that is its own child is left out (README, section 7).
ArchiveChild(w) ==
  /\ Step(w, "move")
  /\ \E k \in Task \ {git[w].task} :
       /\ dir[Live(k)] \in 1 .. MaxVersion - 1 /\ Live(k) \notin git[w].paths
       /\ dir' = Bumped({Live(k)})
       /\ git' = [git EXCEPT ![w].paths = @ \cup {Live(k)}]
  /\ UNCHANGED <<jvars, staged, head, archived, branch>>

\* Mutant: the directory is copied and its source left behind.
ArchiveCopy(w) ==
  LET t == git[w].task IN
  /\ Step(w, "move")
  /\ dir' = [dir EXCEPT ![Past(t)] = dir[Live(t)]]
  /\ Then(w, "tracked") \/ Stop(w)
  /\ UNCHANGED <<jvars, staged, head, archived, branch>>

\* With --no-commit or session_auto_commit off, the move is the last step.
ArchiveMove(w) ==
  LET t == git[w].task IN
  /\ Step(w, "move")
  /\ IF dir[Live(t)] = Absent
     THEN UNCHANGED dir /\ Stop(w)
     ELSE /\ dir' = [dir EXCEPT ![Live(t)] = Absent, ![Past(t)] = dir[Live(t)]]
          /\ Then(w, "tracked") \/ Stop(w)
  /\ UNCHANGED <<jvars, staged, head, archived, branch>>

ArchiveTracked(w) ==
  LET t == git[w].task IN
  /\ Step(w, "tracked")
  /\ git' = [git EXCEPT ![w].at = "add", ![w].tracked = staged[Live(t)] # Absent,
                        ![w].paths = @ \cup {Past(x) : x \in {y \in Task : dir[Past(y)] # Absent}}]
  /\ UNCHANGED <<jvars, dir, staged, head, archived, branch>>

\* The command's exit status; a failure is reported only for a tracked task.
Reports(w, success) ==
  archived' = IF success THEN archived \cup {git[w].task} ELSE archived

\* Mutant: the source is removed although the add failed.
ArchiveAddUnchecked(w) ==
  LET paths == git[w].paths IN
  /\ Step(w, "add") /\ git[w].task # NoTask
  /\ (Addable(paths) /\ staged' = Add(paths)) \/ AddFails(paths)
  /\ Then(w, "rm")
  /\ UNCHANGED <<jvars, dir, head, archived, branch>>

ArchiveAdd(w) ==
  LET paths == git[w].paths IN
  /\ Step(w, "add") /\ git[w].task # NoTask
  /\ \/ Addable(paths) /\ staged' = Add(paths) /\ Then(w, "rm") /\ UNCHANGED archived
     \/ AddFails(paths) /\ Reports(w, ~git[w].tracked) /\ Stop(w)
  /\ UNCHANGED <<jvars, dir, head, branch>>

\* Mutant: the source is left in the index, as git add leaves it.
ArchiveRemoveNothing(w) ==
  /\ Step(w, "rm")
  /\ Then(w, "commit")
  /\ UNCHANGED <<jvars, dir, staged, head, archived, branch>>

\* rm --cached of the source; its result is not looked at, and it fails when
\* another process holds the lock of the index.
ArchiveRemove(w) ==
  /\ Step(w, "rm")
  /\ \/ staged' = [staged EXCEPT ![Live(git[w].task)] = Absent]
     \/ (\E v \in Window \ {w} : ~Free(v)) /\ UNCHANGED staged
  /\ Then(w, "commit")
  /\ UNCHANGED <<jvars, dir, head, archived, branch>>

ArchiveCommit(w) ==
  LET changed == \E p \in git[w].paths \cup {Live(git[w].task)} : staged[p] # head[p] IN
  /\ Step(w, "commit") /\ git[w].task # NoTask
  /\ \/ ~changed /\ UNCHANGED head /\ Reports(w, TRUE)
     \/ changed /\ head' = staged /\ Reports(w, TRUE)
     \/ changed /\ UNCHANGED head /\ Reports(w, ~git[w].tracked)
  /\ Stop(w)
  /\ UNCHANGED <<jvars, dir, staged, branch>>

-----------------------------------------------------------------------------
(* Work outside the two commands.                                          *)

EditTask(t) ==
  /\ dir[Live(t)] \in 1 .. MaxVersion - 1
  /\ dir' = Bumped({Live(t)})
  /\ UNCHANGED <<jvars, staged, head, git, archived, branch>>

\* A parallel worktree starts from HEAD and records session s there.
Recorded(j, s) ==
  LET old == Latest(j.page)
      new == IF Full(j.page, s) THEN old + 1 ELSE old
      e   == [id |-> s, num |-> Total(j.index) + 1]
      ps  == WithEntry(IF new = old THEN j.page ELSE NewPage(j.page, new), new, e)
  IN  [page |-> ps, index |-> Updated(j.index, ps, new, e)]

Fork(s) ==
  /\ branch = NoFile
  /\ IsIndex(head[Pages].index)
  /\ branch' = Recorded(head[Pages], s)
  /\ UNCHANGED <<jvars, dir, staged, head, git, archived>>

\* git merge: pages by merge=union (.gitattributes), index.md by picking
\* either side; git refuses it over changes that are not committed.
Merge ==
  /\ branch # NoFile
  /\ staged = head /\ Work(Pages) = head[Pages]
  /\ page' = [n \in DOMAIN page \cup DOMAIN branch.page |->
                (IF n \in DOMAIN page THEN page[n] ELSE {})
                \cup (IF n \in DOMAIN branch.page THEN branch.page[n] ELSE {})]
  /\ index' \in {index, branch.index}
  /\ head' = [head EXCEPT ![Pages] = [page |-> page', index |-> index']]
  /\ staged' = head'
  /\ branch' = NoFile
  /\ UNCHANGED <<developer, rec, dir, git, archived>>

GitKilled(w) ==
  /\ git[w] # Ready
  /\ Stop(w) /\ Done(w)
  /\ UNCHANGED <<developer, page, index, dir, staged, head, archived, branch>>

-----------------------------------------------------------------------------
Begins(w) ==
  \/ InitDeveloper(w) /\ git[w] = Ready /\ UNCHANGED gvars
  \/ \E s \in Session : AddRead(w, s) /\ git[w] = Ready /\ UNCHANGED gvars
  \/ \E t \in Task : ArchiveEdit(w, t)

Goes(w) ==
  \/ RecordSteps(w) /\ git[w] = Ready /\ UNCHANGED gvars
  \/ SessionPaths(w) \/ SessionAdd(w) \/ SessionCommit(w)
  \/ ArchiveChild(w) \/ ArchiveMove(w) \/ ArchiveTracked(w) \/ ArchiveAdd(w)
  \/ ArchiveRemove(w) \/ ArchiveCommit(w)

Dies(w) == (Killed(w) /\ git[w] = Ready /\ UNCHANGED gvars) \/ GitKilled(w)

Outside == Merge \/ (\E t \in Task : EditTask(t)) \/ (\E s \in Session : Fork(s))

Next == Outside \/ \E w \in Window : Begins(w) \/ Goes(w) \/ Dies(w)

Spec == Init /\ GitInit /\ [][Next]_vars
=============================================================================
