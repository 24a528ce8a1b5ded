------------------------------ MODULE TaskTree ------------------------------
(***************************************************************************)
(* The task directories of .trellis/tasks and the commands of task.py that *)
(* write them: create, start, finish, archive, add-subtask,                *)
(* remove-subtask and the set-* commands (common/task_store.py, task.py,   *)
(* common/task_utils.py, common/tasks.py, common/io.py).                   *)
(*                                                                         *)
(* A task is a directory with a task.json.  Every command is a process of  *)
(* its own; a step reads or writes one file, and a command can be killed   *)
(* between any two of them.  write_json is atomic, and it fails without a  *)
(* word when the directory has been moved away.  Each window of an AI tool *)
(* has its own pointer to its current task; how the window is recognised   *)
(* is the subject of module ActiveTask.  The git commit at the end of an   *)
(* archive is the subject of module AutoCommit.  Commands are given names  *)
(* of tasks in tasks/, not paths into the archive.                         *)
(***************************************************************************)
EXTENDS FiniteSets, Naturals

CONSTANTS
  Task,          \* names of task directories, MM-DD-slug
  Window,        \* windows of an AI tool, each with a context key
  NoTask,        \* no task: an empty parent field, a window without pointer
  NoJson,        \* a directory without a readable task.json
  EndsWith,      \* <<n, d>>: directory name d ends with "-" followed by n
  MaxRunning     \* bound: commands running at the same time

ASSUME TaskTreeAssumption ==
  /\ NoTask \notin Task
  /\ EndsWith \subseteq Task \X Task
  /\ MaxRunning \in Nat \ {0}
  /\ IsFiniteSet(Task)

VARIABLES
  where,    \* where[t]: "absent", "active" (in tasks/) or "archived"
  json,     \* json[t]: contents of the task.json of t, NoJson if there is none
  pointer,  \* pointer[w]: current_task in the session file of window w
  run       \* run[w]: the command window w is executing

vars == <<where, json, pointer, run>>

Status   == {"planning", "in_progress", "completed"}
TaskData == [status: Status, parent: Task \cup {NoTask}, children: SUBSET Task]
Fresh    == [status |-> "planning", parent |-> NoTask, children |-> {}]

ASSUME NoJsonAssumption == NoJson \notin TaskData

\* A command: what it does, how far it is, whom it names, whether its window
\* has an identity, and the copies of task.json files it holds in memory.
Idle == [op |-> "idle", at |-> "end", task |-> NoTask, parent |-> NoTask,
         key |-> FALSE, data |-> NoJson, pdata |-> NoJson, todo |-> {}]

Active  == {t \in Task : where[t] = "active"}
HasJson == {t \in Active : json[t] # NoJson}

\* find_task_by_name: the exact directory, else any one whose name ends so.
Find(n) == IF n \in Active THEN {n} ELSE {d \in Active : <<n, d>> \in EndsWith}

\* Mutant: the directory is made again when it is gone.
WriteJsonAnywhere(t, data) == json' = [json EXCEPT ![t] = data]

\* write_json: replaces the file, or fails silently when its directory is gone.
WriteJson(t, data) ==
  json' = IF t \in Active THEN [json EXCEPT ![t] = data] ELSE json

Init ==
  /\ where = [t \in Task |-> "absent"]
  /\ json = [t \in Task |-> NoJson]
  /\ pointer = [w \in Window |-> NoTask]
  /\ run = [w \in Window |-> Idle]

-----------------------------------------------------------------------------
(* Control of a command.                                                   *)

Begin(w, c) ==
  /\ run[w] = Idle
  /\ Cardinality({v \in Window : run[v] # Idle}) < MaxRunning
  /\ run' = [run EXCEPT ![w] = c]

At(w, op, step) == run[w].op = op /\ run[w].at = step
Goto(w, step)   == run' = [run EXCEPT ![w].at = step]
Done(w)         == run' = [run EXCEPT ![w] = Idle]

\* Ctrl-C, a crash or an exception between two steps.
Killed(w) ==
  /\ run[w] # Idle
  /\ Done(w)
  /\ UNCHANGED <<where, json, pointer>>

-----------------------------------------------------------------------------
(* create: refuses the name of an archived task, only warns about an       *)
(* existing directory, writes a fresh task.json, links it to its parent    *)
(* (parent's file first), and points the window at it.                     *)

CreateMkdir(w, t, p, key) ==
  /\ where[t] # "archived"
  /\ Begin(w, [Idle EXCEPT !.op = "create", !.at = "write", !.task = t,
                           !.parent = p, !.key = key])
  /\ where' = [where EXCEPT ![t] = "active"]
  /\ UNCHANGED <<json, pointer>>

CreateWrite(w) ==
  LET t == run[w].task IN
  /\ At(w, "create", "write")
  /\ WriteJson(t, Fresh)
  /\ IF t \in Active THEN Goto(w, "link") ELSE Done(w)   \* prd.md: no such directory
  /\ UNCHANGED <<where, pointer>>

\* Mutant: the child is linked as soon as the parent is found.
CreateLinkChildFirst(w) ==
  /\ At(w, "create", "link")
  /\ LET found == Find(run[w].parent) \cap HasJson
     IN  IF run[w].parent = NoTask \/ found = {}
         THEN Goto(w, "point") /\ UNCHANGED json
         ELSE \E p \in found :
                /\ run' = [run EXCEPT ![w].at = "parent", ![w].parent = p,
                                      ![w].pdata = json[p]]
                /\ WriteJson(run[w].task, [Fresh EXCEPT !.parent = p])
  /\ UNCHANGED <<where, pointer>>

CreateReadParent(w) ==
  /\ At(w, "create", "link")
  /\ LET found == Find(run[w].parent) \cap HasJson
     IN  IF run[w].parent = NoTask \/ found = {}
         THEN Goto(w, "point")
         ELSE \E p \in found :
                run' = [run EXCEPT ![w].at = "parent", ![w].parent = p,
                                   ![w].pdata = json[p]]
  /\ UNCHANGED <<where, json, pointer>>

CreateLinkParent(w) ==
  LET c == run[w] IN
  /\ At(w, "create", "parent")
  /\ IF c.task \in c.pdata.children
     THEN UNCHANGED json
     ELSE WriteJson(c.parent, [c.pdata EXCEPT !.children = @ \cup {c.task}])
  /\ Goto(w, "child")
  /\ UNCHANGED <<where, pointer>>

CreateLinkChild(w) ==
  /\ At(w, "create", "child")
  /\ WriteJson(run[w].task, [Fresh EXCEPT !.parent = run[w].parent])
  /\ Goto(w, "point")
  /\ UNCHANGED <<where, pointer>>

\* set_active_task: needs a context key and an existing directory.
SetActive(w) ==
  pointer' = IF run[w].key /\ run[w].task \in Active
             THEN [pointer EXCEPT ![w] = run[w].task] ELSE pointer

CreatePoint(w) ==
  /\ At(w, "create", "point")
  /\ SetActive(w)
  /\ Done(w)
  /\ UNCHANGED <<where, json>>

-----------------------------------------------------------------------------
(* start: the pointer first, then planning -> in_progress.  Without a      *)
(* context key only the status changes (degraded mode).                    *)

StartPoint(w, t, key) ==
  /\ t \in Active
  /\ Begin(w, [Idle EXCEPT !.op = "start", !.at = "read", !.task = t, !.key = key])
  /\ pointer' = IF key THEN [pointer EXCEPT ![w] = t] ELSE pointer
  /\ UNCHANGED <<where, json>>

StartRead(w) ==
  LET t == run[w].task IN
  /\ At(w, "start", "read")
  /\ IF t \in HasJson /\ json[t].status = "planning"
     THEN run' = [run EXCEPT ![w].at = "flip", ![w].data = json[t]]
     ELSE Done(w)
  /\ UNCHANGED <<where, json, pointer>>

StartFlip(w) ==
  /\ At(w, "start", "flip")
  /\ WriteJson(run[w].task, [run[w].data EXCEPT !.status = "in_progress"])
  /\ Done(w)
  /\ UNCHANGED <<where, pointer>>

\* finish: deletes the pointer of the window, or, when the window has none,
\* the only pointer there is (_resolve_single_session_fallback).
Pointing == {w \in Window : pointer[w] # NoTask}
Finish(w) ==
  /\ run[w] = Idle
  /\ \E v \in Pointing :
       /\ v = w \/ (w \notin Pointing /\ Pointing = {v})
       /\ pointer' = [pointer EXCEPT ![v] = NoTask]
  /\ UNCHANGED <<where, json, run>>

-----------------------------------------------------------------------------
(* archive: status, the parent field of every child, the pointers of every *)
(* window, and only then the directory.                                    *)

ArchiveRead(w, t) ==
  /\ t \in Active
  /\ Begin(w, [Idle EXCEPT !.op = "archive", !.task = t, !.data = json[t],
                           !.at = IF json[t] = NoJson THEN "unpoint" ELSE "status"])
  /\ UNCHANGED <<where, json, pointer>>

\* Mutant: a status that no reader knows.
ArchiveStatusArchived(w) ==
  LET c == run[w] IN
  /\ At(w, "archive", "status")
  /\ WriteJson(c.task, [c.data EXCEPT !.status = "archived"])
  /\ run' = [run EXCEPT ![w].at = "children", ![w].todo = c.data.children]
  /\ UNCHANGED <<where, pointer>>

ArchiveStatus(w) ==
  LET c == run[w] IN
  /\ At(w, "archive", "status")
  /\ WriteJson(c.task, [c.data EXCEPT !.status = "completed"])
  /\ run' = [run EXCEPT ![w].at = "children", ![w].todo = c.data.children]
  /\ UNCHANGED <<where, pointer>>

ArchiveReadChild(w) ==
  /\ At(w, "archive", "children")
  /\ IF run[w].todo = {}
     THEN Goto(w, "unpoint")
     ELSE \E n \in run[w].todo :
            LET found == Find(n) \cap HasJson
                rest  == run[w].todo \ {n}
            IN  IF found = {}
                THEN run' = [run EXCEPT ![w].todo = rest]
                ELSE \E d \in found :
                       run' = [run EXCEPT ![w].at = "child", ![w].todo = rest,
                                          ![w].parent = d, ![w].pdata = json[d]]
  /\ UNCHANGED <<where, json, pointer>>

ArchiveFreeChild(w) ==
  /\ At(w, "archive", "child")
  /\ WriteJson(run[w].parent, [run[w].pdata EXCEPT !.parent = NoTask])
  /\ Goto(w, "children")
  /\ UNCHANGED <<where, pointer>>

\* Mutant: only the window that archives forgets the task.
ArchiveUnpointOwn(w) ==
  /\ At(w, "archive", "unpoint")
  /\ pointer' = [pointer EXCEPT ![w] = IF @ = run[w].task THEN NoTask ELSE @]
  /\ Goto(w, "move")
  /\ UNCHANGED <<where, json>>

ArchiveUnpoint(w) ==
  /\ At(w, "archive", "unpoint")
  /\ pointer' = [v \in Window |-> IF pointer[v] = run[w].task THEN NoTask ELSE pointer[v]]
  /\ Goto(w, "move")
  /\ UNCHANGED <<where, json>>

ArchiveMove(w) ==
  LET t == run[w].task IN
  /\ At(w, "archive", "move")
  /\ where' = IF t \in Active THEN [where EXCEPT ![t] = "archived"] ELSE where
  /\ Done(w)
  /\ UNCHANGED <<json, pointer>>

-----------------------------------------------------------------------------
(* add-subtask and remove-subtask read both files, then write both, the    *)
(* parent's first; add-subtask refuses a child that has a parent.          *)

LinkRead(w, op, p, c) ==
  /\ {p, c} \subseteq HasJson
  /\ op = "add" => json[c].parent = NoTask
  /\ Begin(w, [Idle EXCEPT !.op = op, !.at = "parent", !.task = c, !.parent = p,
                           !.data = json[c], !.pdata = json[p]])
  /\ UNCHANGED <<where, json, pointer>>

LinkWriteParent(w) ==
  LET c == run[w] IN
  /\ At(w, "add", "parent") \/ At(w, "remove", "parent")
  /\ WriteJson(c.parent, [c.pdata EXCEPT !.children =
                            IF c.op = "add" THEN @ \cup {c.task} ELSE @ \ {c.task}])
  /\ Goto(w, "child")
  /\ UNCHANGED <<where, pointer>>

LinkWriteChild(w) ==
  LET c == run[w] IN
  /\ At(w, "add", "child") \/ At(w, "remove", "child")
  /\ WriteJson(c.task, [c.data EXCEPT !.parent = IF c.op = "add" THEN c.parent ELSE NoTask])
  /\ Done(w)
  /\ UNCHANGED <<where, pointer>>

\* set-branch, set-base-branch, set-scope, set-meta: the whole file is read,
\* one field outside this model changes, the whole file is written back.
SetRead(w, t) ==
  /\ t \in HasJson
  /\ Begin(w, [Idle EXCEPT !.op = "set", !.at = "write", !.task = t, !.data = json[t]])
  /\ UNCHANGED <<where, json, pointer>>

SetWrite(w) ==
  /\ At(w, "set", "write")
  /\ WriteJson(run[w].task, run[w].data)
  /\ Done(w)
  /\ UNCHANGED <<where, pointer>>

-----------------------------------------------------------------------------
Commands(w) ==
  \/ \E t \in Task, p \in Task \cup {NoTask}, key \in BOOLEAN : CreateMkdir(w, t, p, key)
  \/ \E t \in Task, key \in BOOLEAN : StartPoint(w, t, key)
  \/ Finish(w)
  \/ \E t \in Task : ArchiveRead(w, t)
  \/ \E p, c \in Task, op \in {"add", "remove"} : LinkRead(w, op, p, c)
  \/ \E t \in Task : SetRead(w, t)

Steps(w) ==
  \/ CreateWrite(w) \/ CreateReadParent(w) \/ CreateLinkParent(w)
  \/ CreateLinkChild(w) \/ CreatePoint(w)
  \/ StartRead(w) \/ StartFlip(w)
  \/ ArchiveStatus(w) \/ ArchiveReadChild(w) \/ ArchiveFreeChild(w)
  \/ ArchiveUnpoint(w) \/ ArchiveMove(w)
  \/ LinkWriteParent(w) \/ LinkWriteChild(w)
  \/ SetWrite(w)

Next == \E w \in Window : Commands(w) \/ Steps(w) \/ Killed(w)

Spec == Init /\ [][Next]_vars

-----------------------------------------------------------------------------
(* What the readers of the task files show.                                *)

\* Mutant: a child that is gone is not done.
ChildDoneHere(c) == c \in HasJson /\ json[c].status = "completed"

\* children_progress: a listed child counts as done when it is completed or
\* no longer among the active tasks.
ChildDone(c) == c \notin HasJson \/ json[c].status = "completed"

\* Mutant: a task whose parent is gone is no root.
RootsOrphaned == {t \in HasJson : json[t].parent = NoTask}

\* cmd_list: tasks without a parent among the active tasks, then, below each
\* printed task, the children it lists.
Roots == {t \in HasJson : json[t].parent \notin HasJson}
Below(T) == HasJson \cap UNION {json[t].children : t \in T}
Printed ==
  LET level[n \in 0 .. Cardinality(Task)] ==
        IF n = 0 THEN Roots ELSE LET above == level[n - 1] IN above \cup Below(above)
  IN  level[Cardinality(Task)]

-----------------------------------------------------------------------------
(* Properties.                                                             *)

\* Every variable has its type.
TypeOK ==
  /\ where \in [Task -> {"absent", "active", "archived"}]
  /\ json \in [Task -> TaskData \cup {NoJson}]
  /\ pointer \in [Window -> Task \cup {NoTask}]
  /\ \A w \in Window :
       /\ run[w].task \in Task \cup {NoTask}
       /\ run[w].parent \in Task \cup {NoTask}
       /\ run[w].data \in TaskData \cup {NoJson}
       /\ run[w].pdata \in TaskData \cup {NoJson}
       /\ run[w].todo \subseteq Task

\* Whatever overlaps, a command that read a task before it was archived fails to
\* write it, instead of bringing the directory back or changing the archive.
ArchiveFrozen ==
  [][\A t \in Task : where[t] = "archived" =>
        where'[t] = "archived" /\ json'[t] = json[t]]_vars

=============================================================================
