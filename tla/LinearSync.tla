----------------------------- MODULE LinearSync -----------------------------
(***************************************************************************)
(* The lifecycle hook that keeps a Linear issue for every task             *)
(* (hooks/linear_sync.py, run by run_task_hooks of common/task_utils.py    *)
(* after create, start and archive, or by hand).                           *)
(*                                                                         *)
(* A command changes task.json and then runs the hook, which reads         *)
(* task.json again and calls the service.  Reading and writing are steps   *)
(* of their own: commands of several shells overlap, a process can be      *)
(* killed between them, and a call can fail.                               *)
(***************************************************************************)
EXTENDS Naturals, Sequences

CONSTANTS
  Task,
  Process,
  Parent,        \* Parent[t]: the parent of t in its task.json, or NoTask
  NoTask,
  MaxIssues      \* bound: issues ever created

ASSUME LinearSyncAssumption ==
  NoTask \notin Task /\ Parent \in [Task -> Task \cup {NoTask}] /\ MaxIssues \in Nat

VARIABLES
  task,          \* task[t]: where its directory is, and in its task.json status
                 \* and linear_issue, which are lost while it is not whole
  issue,         \* the issues of the service
  proc,          \* the command that a process runs
  oddity         \* history: what happened to a task besides its three commands

lvars == <<task, issue, proc, oddity>>

NoIssue == 0
Idle == [cmd |-> "none", task |-> NoTask, at |-> "idle", place |-> "none",
         held |-> NoTask, ticket |-> NoIssue]
Unborn == [place |-> "none", status |-> "planning", issue |-> NoIssue, whole |-> TRUE]

\* TASK_JSON_PATH leads to the file as long as the directory is in its place.
InPlace(p) == task[proc[p].task].place = proc[p].place
Readable(p) == InPlace(p) /\ task[proc[p].task].whole

Busy(t) == {p \in Process : proc[p].task = t}
Oddly(t, what) == oddity' = [oddity EXCEPT ![t] = @ \cup what]

\* A command on t begins with the step at.
Begin(p, cmd, t, at, place, held, also) ==
  /\ proc[p] = Idle
  /\ proc' = [proc EXCEPT ![p] = [Idle EXCEPT !.cmd = cmd, !.task = t, !.at = at,
                                              !.place = place, !.held = held]]
  /\ Oddly(t, also \cup IF Busy(t) # {} THEN {"overlap"} ELSE {})

Goes(p, at) == proc' = [proc EXCEPT ![p].at = at]
Ends(p)     == proc' = [proc EXCEPT ![p] = Idle]

-----------------------------------------------------------------------------
(* The commands of task.py.                                                *)

\* task.py create, up to its hook.
Create(p, t) ==
  /\ task[t].place = "none"
  /\ task' = [task EXCEPT ![t] = [Unborn EXCEPT !.place = "tasks"]]
  /\ Begin(p, "create", t, "read", "tasks", NoTask, {})
  /\ UNCHANGED issue

\* task.py start, also of an archived task that is named by its path.
Start(p, t) ==
  /\ task[t].place # "none"
  /\ Begin(p, "start", t, "flip", task[t].place, task[t],
           IF task[t].place = "archive" THEN {"restart"} ELSE {})
  /\ UNCHANGED <<task, issue>>

\* The status is flipped in what was read; nothing is written for another one.
StartFlip(p) ==
  LET t == proc[p].task IN
  /\ proc[p].cmd = "start" /\ proc[p].at = "flip"
  /\ task' = IF InPlace(p) /\ proc[p].held.whole /\ proc[p].held.status = "planning"
             THEN [task EXCEPT ![t] = [proc[p].held EXCEPT !.status = "in_progress"]] ELSE task
  /\ Goes(p, "read")
  /\ UNCHANGED <<issue, oddity>>

Archive(p, t) ==
  /\ task[t].place = "tasks"
  /\ Begin(p, "archive", t, "complete", "tasks", task[t], {})
  /\ UNCHANGED <<task, issue>>

ArchiveComplete(p) ==
  LET t == proc[p].task IN
  /\ proc[p].at = "complete"
  /\ task' = IF InPlace(p) /\ proc[p].held.whole
             THEN [task EXCEPT ![t] = [proc[p].held EXCEPT !.status = "completed"]] ELSE task
  /\ Goes(p, "move")
  /\ UNCHANGED <<issue, oddity>>

\* Mutant: the hook is told of the file where it was.
ArchiveMoveOldPath(p) ==
  LET t == proc[p].task IN
  /\ proc[p].at = "move"
  /\ task' = IF InPlace(p) THEN [task EXCEPT ![t].place = "archive"] ELSE task
  /\ IF InPlace(p) THEN Goes(p, "read") ELSE Ends(p)
  /\ UNCHANGED <<issue, oddity>>

\* The hook is told of the file in its new place; without a move there is none.
ArchiveMove(p) ==
  LET t == proc[p].task IN
  /\ proc[p].at = "move"
  /\ IF InPlace(p)
     THEN /\ task' = [task EXCEPT ![t].place = "archive"]
          /\ proc' = [proc EXCEPT ![p].at = "read", ![p].place = "archive"]
     ELSE task' = task /\ Ends(p)
  /\ UNCHANGED <<issue, oddity>>

-----------------------------------------------------------------------------
(* The hook.                                                               *)

\* linear_sync.py create by hand, on a task whose own create has been.  From the
\* path of an archived task the hook does not find the configuration with the
\* team, and gives up (linear_sync.py:49-60, 117-120).
RunCreate(p, t) ==
  /\ task[t].place = "tasks"
  /\ Begin(p, "create", t, "read", "tasks", NoTask, {"by hand"})
  /\ UNCHANGED <<task, issue>>

\* _resolve_parent_linear_issue: the parent is looked for beside the task.
ParentIssue(p) ==
  LET parent == Parent[proc[p].task]
  IN  IF parent # NoTask /\ task[parent].place = proc[p].place /\ task[parent].whole
          THEN task[parent].issue ELSE NoIssue

\* Mutant: a task that has an issue is not skipped.
CreateReadAgain(p) ==
  /\ proc[p].cmd = "create" /\ proc[p].at = "read"
  /\ IF Readable(p)
     THEN proc' = [proc EXCEPT ![p].at = "call", ![p].held = task[proc[p].task],
                               ![p].ticket = ParentIssue(p)]
     ELSE Ends(p)
  /\ UNCHANGED <<task, issue, oddity>>

\* cmd_create, up to the call: skips a task that is linked.
CreateRead(p) ==
  /\ proc[p].cmd = "create" /\ proc[p].at = "read"
  /\ IF Readable(p) /\ task[proc[p].task].issue = NoIssue
     THEN proc' = [proc EXCEPT ![p].at = "call", ![p].held = task[proc[p].task],
                               ![p].ticket = ParentIssue(p)]
     ELSE Ends(p)
  /\ UNCHANGED <<task, issue, oddity>>

\* _linearis issues create.
CreateCall(p) ==
  /\ proc[p].cmd = "create" /\ proc[p].at = "call" /\ Len(issue) < MaxIssues
  /\ issue' = Append(issue, [of |-> proc[p].task, parent |-> proc[p].ticket, state |-> "new"])
  /\ proc' = [proc EXCEPT ![p].at = "write", ![p].ticket = Len(issue) + 1]
  /\ UNCHANGED <<task, oddity>>

\* _write_task opens task.json, which empties it, unless the directory has moved.
CreateOpen(p) ==
  LET t == proc[p].task IN
  /\ proc[p].at = "write"
  /\ IF InPlace(p)
     THEN task' = [task EXCEPT ![t].whole = FALSE] /\ Goes(p, "fill")
     ELSE task' = task /\ Ends(p)
  /\ UNCHANGED <<issue, oddity>>

\* The whole of what was read goes into it, with the issue, wherever the file is
\* by now; it goes nowhere when another command has put a file in its place.
CreateFill(p) ==
  LET t == proc[p].task IN
  /\ proc[p].at = "fill"
  /\ task' = IF ~task[t].whole
             THEN [task EXCEPT ![t] = [proc[p].held EXCEPT !.issue = proc[p].ticket,
                                                           !.place = task[t].place]] ELSE task
  /\ Ends(p)
  /\ UNCHANGED <<issue, oddity>>

\* cmd_start and cmd_archive: the issue is read, and updated in the next step.
UpdateRead(p) ==
  /\ proc[p].cmd \in {"start", "archive"} /\ proc[p].at = "read"
  /\ IF Readable(p) /\ task[proc[p].task].issue # NoIssue
     THEN proc' = [proc EXCEPT ![p].at = "call", ![p].ticket = task[proc[p].task].issue]
     ELSE Ends(p)
  /\ UNCHANGED <<task, issue, oddity>>

UpdateCall(p) ==
  /\ proc[p].cmd \in {"start", "archive"} /\ proc[p].at = "call"
  /\ issue' = [issue EXCEPT ![proc[p].ticket].state =
                 IF proc[p].cmd = "start" THEN "In Progress" ELSE "Done"]
  /\ Ends(p)
  /\ UNCHANGED <<task, oddity>>

\* The call fails, or the process is killed before its next step.
Fail(p) ==
  /\ proc[p] # Idle
  /\ Ends(p)
  /\ Oddly(proc[p].task, {"failed"})
  /\ UNCHANGED <<task, issue>>

-----------------------------------------------------------------------------
LInit ==
  /\ task = [t \in Task |-> Unborn]
  /\ issue = <<>>
  /\ proc = [p \in Process |-> Idle]
  /\ oddity = [t \in Task |-> {}]

Commands(p) ==
  \E t \in Task : Create(p, t) \/ Start(p, t) \/ Archive(p, t) \/ RunCreate(p, t)
Steps(p) ==
  \/ StartFlip(p) \/ ArchiveComplete(p) \/ ArchiveMove(p)
  \/ CreateRead(p) \/ CreateCall(p) \/ CreateOpen(p) \/ CreateFill(p)
  \/ UpdateRead(p) \/ UpdateCall(p)
  \/ Fail(p)

LNext == \E p \in Process : Commands(p) \/ Steps(p)
LSpec == LInit /\ [][LNext]_lvars

-----------------------------------------------------------------------------
\* A task gets a second issue only when a command on it failed, was killed or
\* overlapped with another, also when the hook is run by hand; and a parent
\* ticket is an issue of the parent (linear_sync.py:117-160).
OneIssue ==
  /\ \A i, j \in DOMAIN issue : (i # j /\ issue[i].of = issue[j].of) =>
       oddity[issue[i].of] \cap {"failed", "overlap"} # {}
  /\ \A i \in DOMAIN issue : issue[i].parent # NoIssue =>
       issue[issue[i].parent].of = Parent[issue[i].of]

\* Between the commands on a task, its issue is where the task is: linked from
\* its creation on, in progress once it is started and done once it is archived,
\* and its task.json is whole, as long as every command ran alone to its end,
\* and the task is not started again from the archive.
IssueFollowsTask ==
  \A t \in Task :
    (oddity[t] \subseteq {"by hand"} /\ Busy(t) = {} /\ task[t].place # "none") =>
      /\ task[t].whole
      /\ task[t].issue # NoIssue
      /\ issue[task[t].issue].of = t
      /\ issue[task[t].issue].state =
           CASE task[t].status = "planning" -> "new"
             [] task[t].status = "in_progress" -> "In Progress"
             [] task[t].status = "completed" -> "Done"
=============================================================================
