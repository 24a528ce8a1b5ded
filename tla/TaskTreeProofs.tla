--------------------------- MODULE TaskTreeProofs ---------------------------
(***************************************************************************)
(* Proofs about TaskTree, for any tasks, names that end alike, windows and *)
(* numbers of commands.                                                    *)
(*                                                                         *)
(* Whatever overlaps: a command writes back the copy of a task.json that   *)
(* it has read, steps later and whatever has become of the task.  So the   *)
(* invariant IInv says that it holds a copy, not the lack of one, whenever *)
(* it is about to write.                                                   *)
(*                                                                         *)
(* When commands take turns: the invariant TurnInv says, step by step,     *)
(* that the copy is still what is on disk and how far the files have been  *)
(* brought, so that a kill at any point leaves links, pointers and done    *)
(* children as the properties of MCTaskTree want them.                     *)
(***************************************************************************)
EXTENDS MCTaskTree, FiniteSetTheorems, TLAPS

Ops   == {"idle", "create", "start", "archive", "add", "remove", "set"}
Ats   == {"end", "write", "link", "parent", "child", "point", "read", "flip", "status",
          "children", "unpoint", "move"}
Calls == [op : Ops, at : Ats, task : Task \cup {NoTask}, parent : Task \cup {NoTask}, key : BOOLEAN,
          data : TaskData \cup {NoJson}, pdata : TaskData \cup {NoJson}, todo : SUBSET Task]

\* A command is about a task, and the copies it is about to write are copies.
HoldsCopies(c) ==
  /\ c.op # "idle" => c.task \in Task
  /\ c.op \in {"create", "add", "remove"} /\ c.at \in {"parent", "child"} => c.pdata \in TaskData
  /\ c.op = "archive" /\ c.at = "child" => c.pdata \in TaskData
  /\ c.op \in {"add", "remove"} => c.data \in TaskData
  /\ c.op = "set" => c.data \in TaskData
  /\ c.at \in {"flip", "status"} => c.data \in TaskData

RunOK == run \in [Window -> Calls] /\ \A w \in Window : HoldsCopies(run[w])
FilesOK ==
  /\ where \in [Task -> {"absent", "active", "archived"}]
  /\ json \in [Task -> TaskData \cup {NoJson}]
  /\ pointer \in [Window -> Task \cup {NoTask}]

IInv == FilesOK /\ RunOK

-----------------------------------------------------------------------------
(* How a command and the files may change.                                 *)

LEMMA IdleIsCall == Idle \in Calls /\ HoldsCopies(Idle) /\ Fresh \in TaskData
BY DEF Idle, Calls, Ops, Ats, HoldsCopies, Fresh, TaskData, Status

LEMMA InitIInv == Init => IInv
BY IdleIsCall DEF Init, IInv, FilesOK, RunOK

\* The command of one window is replaced by one that is well-formed.
LEMMA RunStays ==
  ASSUME RunOK, NEW w \in Window, NEW c \in Calls, HoldsCopies(c), run' = [run EXCEPT ![w] = c]
  PROVE  RunOK'
BY DEF RunOK

LEMMA DoneStays == ASSUME RunOK, NEW w \in Window, Done(w) PROVE RunOK'
BY IdleIsCall, RunStays DEF Done

\* A command goes on with another step, with what it needs for it.
LEMMA GotoStays ==
  ASSUME RunOK, NEW w \in Window, NEW step \in Ats, Goto(w, step),
         HoldsCopies([run[w] EXCEPT !.at = step])
  PROVE  RunOK'
<1> DEFINE c == [run[w] EXCEPT !.at = step]
<1>1. run[w] \in Calls
  BY DEF RunOK
<1>2. c \in Calls
  BY <1>1 DEF Calls
<1>3. run' = [run EXCEPT ![w] = c]
  BY DEF Goto
<1> QED
  BY <1>2, <1>3, RunStays

\* write_json of a whole task.json keeps the files whole.
LEMMA WriteStays ==
  ASSUME FilesOK, NEW t, NEW data \in TaskData, WriteJson(t, data),
         UNCHANGED <<where, pointer>>
  PROVE  FilesOK'
BY DEF FilesOK, WriteJson

-----------------------------------------------------------------------------
LEMMA BeginStays ==
  ASSUME IInv, NEW w \in Window, Commands(w)
  PROVE  IInv'
<1> USE IdleIsCall DEF IInv, FilesOK
<1>1. ASSUME NEW t \in Task, NEW p \in Task \cup {NoTask}, NEW key \in BOOLEAN,
             CreateMkdir(w, t, p, key)
      PROVE  IInv'
  <2> DEFINE c == [Idle EXCEPT !.op = "create", !.at = "write", !.task = t, !.parent = p, !.key = key]
  <2>1. c \in Calls /\ HoldsCopies(c)
    BY DEF Idle, Calls, Ops, Ats, HoldsCopies
  <2>2. run' = [run EXCEPT ![w] = c]
    BY <1>1 DEF CreateMkdir, Begin
  <2> QED
    BY <1>1, <2>1, <2>2, RunStays DEF CreateMkdir
<1>2. ASSUME NEW t \in Task, NEW key \in BOOLEAN, StartPoint(w, t, key) PROVE IInv'
  <2> DEFINE c == [Idle EXCEPT !.op = "start", !.at = "read", !.task = t, !.key = key]
  <2>1. c \in Calls /\ HoldsCopies(c)
    BY DEF Idle, Calls, Ops, Ats, HoldsCopies
  <2>2. run' = [run EXCEPT ![w] = c]
    BY <1>2 DEF StartPoint, Begin
  <2> QED
    BY <1>2, <2>1, <2>2, RunStays DEF StartPoint
<1>3. CASE Finish(w)
  BY <1>3 DEF Finish, RunOK, Pointing
<1>4. ASSUME NEW t \in Task, ArchiveRead(w, t) PROVE IInv'
  <2> DEFINE c == [Idle EXCEPT !.op = "archive", !.task = t, !.data = json[t],
                               !.at = IF json[t] = NoJson THEN "unpoint" ELSE "status"]
  <2>1. c \in Calls /\ HoldsCopies(c)
    BY DEF Idle, Calls, Ops, Ats, HoldsCopies
  <2>2. run' = [run EXCEPT ![w] = c]
    BY <1>4 DEF ArchiveRead, Begin
  <2> QED
    BY <1>4, <2>1, <2>2, RunStays DEF ArchiveRead
<1>5. ASSUME NEW p \in Task, NEW t \in Task, NEW op \in {"add", "remove"}, LinkRead(w, op, p, t)
      PROVE  IInv'
  <2> DEFINE c == [Idle EXCEPT !.op = op, !.at = "parent", !.task = t, !.parent = p,
                               !.data = json[t], !.pdata = json[p]]
  <2>1. json[t] \in TaskData /\ json[p] \in TaskData
    BY <1>5 DEF LinkRead, HasJson, Active
  <2>2. c \in Calls /\ HoldsCopies(c)
    BY <2>1 DEF Idle, Calls, Ops, Ats, HoldsCopies
  <2>3. run' = [run EXCEPT ![w] = c]
    BY <1>5 DEF LinkRead, Begin
  <2> QED
    BY <1>5, <2>2, <2>3, RunStays DEF LinkRead
<1>6. ASSUME NEW t \in Task, SetRead(w, t) PROVE IInv'
  <2> DEFINE c == [Idle EXCEPT !.op = "set", !.at = "write", !.task = t, !.data = json[t]]
  <2>1. json[t] \in TaskData
    BY <1>6 DEF SetRead, HasJson, Active
  <2>2. c \in Calls /\ HoldsCopies(c)
    BY <2>1 DEF Idle, Calls, Ops, Ats, HoldsCopies
  <2>3. run' = [run EXCEPT ![w] = c]
    BY <1>6 DEF SetRead, Begin
  <2> QED
    BY <1>6, <2>2, <2>3, RunStays DEF SetRead
<1> QED
  BY <1>1, <1>2, <1>3, <1>4, <1>5, <1>6 DEF Commands

LEMMA CreateStays ==
  ASSUME IInv, NEW w \in Window,
         CreateWrite(w) \/ CreateReadParent(w) \/ CreateLinkParent(w) \/ CreateLinkChild(w)
         \/ CreatePoint(w)
  PROVE  IInv'
<1>1. FilesOK /\ RunOK /\ run[w] \in Calls /\ HoldsCopies(run[w])
  BY DEF IInv, RunOK
<1>2. CASE CreateWrite(w)
  <2>1. FilesOK'
    BY <1>1, <1>2, WriteStays, IdleIsCall DEF CreateWrite
  <2>2. RunOK'
    <3>1. HoldsCopies([run[w] EXCEPT !.at = "link"]) /\ "link" \in Ats
      BY <1>1, <1>2 DEF CreateWrite, At, HoldsCopies, Calls, Ats
    <3> QED
      BY <1>1, <1>2, <3>1, GotoStays, DoneStays DEF CreateWrite
  <2> QED
    BY <2>1, <2>2 DEF IInv
<1>3. CASE CreateReadParent(w)
  <2>1. FilesOK'
    BY <1>1, <1>3 DEF CreateReadParent, FilesOK
  <2>2. CASE Goto(w, "point")
    <3>1. HoldsCopies([run[w] EXCEPT !.at = "point"]) /\ "point" \in Ats
      BY <1>1, <1>3 DEF CreateReadParent, At, HoldsCopies, Calls, Ats
    <3> QED
      BY <1>1, <2>1, <2>2, <3>1, GotoStays DEF IInv
  <2>3. ASSUME NEW p \in HasJson,
               run' = [run EXCEPT ![w].at = "parent", ![w].parent = p, ![w].pdata = json[p]]
        PROVE  IInv'
    <3> DEFINE c == [run[w] EXCEPT !.at = "parent", !.parent = p, !.pdata = json[p]]
    <3>1. p \in Task /\ json[p] \in TaskData
      BY <1>1 DEF HasJson, Active, FilesOK
    <3>2. c \in Calls /\ HoldsCopies(c)
      BY <1>1, <1>3, <3>1 DEF CreateReadParent, At, Calls, Ats, HoldsCopies
    <3>3. run' = [run EXCEPT ![w] = c]
      BY <1>1, <2>3 DEF RunOK
    <3> QED
      BY <1>1, <2>1, <3>2, <3>3, RunStays DEF IInv
  <2> QED
    BY <1>3, <2>2, <2>3 DEF CreateReadParent
<1>4. CASE CreateLinkParent(w)
  <2>1. FilesOK'
    <3> DEFINE data == [run[w].pdata EXCEPT !.children = @ \cup {run[w].task}]
    <3>1. data \in TaskData
      BY <1>1, <1>4 DEF CreateLinkParent, At, HoldsCopies, Calls, TaskData
    <3>2. CASE UNCHANGED json
      BY <1>1, <1>4, <3>2 DEF CreateLinkParent, FilesOK
    <3>3. CASE WriteJson(run[w].parent, data)
      BY <1>1, <1>4, <3>1, <3>3, WriteStays DEF CreateLinkParent
    <3> QED
      BY <1>4, <3>2, <3>3 DEF CreateLinkParent
  <2>2. HoldsCopies([run[w] EXCEPT !.at = "child"]) /\ "child" \in Ats
    BY <1>1, <1>4 DEF CreateLinkParent, At, HoldsCopies, Calls, Ats
  <2> QED
    BY <1>1, <1>4, <2>1, <2>2, GotoStays DEF CreateLinkParent, IInv
<1>5. CASE CreateLinkChild(w)
  <2>1. [Fresh EXCEPT !.parent = run[w].parent] \in TaskData
    BY <1>1 DEF Calls, Fresh, TaskData, Status
  <2>2. FilesOK'
    BY <1>1, <1>5, <2>1, WriteStays DEF CreateLinkChild
  <2>3. HoldsCopies([run[w] EXCEPT !.at = "point"]) /\ "point" \in Ats
    BY <1>1, <1>5 DEF CreateLinkChild, At, HoldsCopies, Calls, Ats
  <2> QED
    BY <1>1, <1>5, <2>2, <2>3, GotoStays DEF CreateLinkChild, IInv
<1>6. CASE CreatePoint(w)
  BY <1>1, <1>6, DoneStays DEF CreatePoint, SetActive, Active, FilesOK, IInv
<1> QED
  BY <1>2, <1>3, <1>4, <1>5, <1>6

LEMMA StartStays ==
  ASSUME IInv, NEW w \in Window, StartRead(w) \/ StartFlip(w)
  PROVE  IInv'
<1>1. FilesOK /\ RunOK /\ run[w] \in Calls /\ HoldsCopies(run[w])
  BY DEF IInv, RunOK
<1>2. CASE StartRead(w)
  <2> DEFINE t == run[w].task
             c == [run[w] EXCEPT !.at = "flip", !.data = json[t]]
  <2>1. FilesOK'
    BY <1>1, <1>2 DEF StartRead, FilesOK
  <2>2. CASE t \in HasJson /\ run' = [run EXCEPT ![w].at = "flip", ![w].data = json[t]]
    <3>1. json[t] \in TaskData
      BY <1>1, <2>2 DEF HasJson, Active, FilesOK
    <3>2. c \in Calls /\ HoldsCopies(c)
      BY <1>1, <1>2, <3>1 DEF StartRead, At, Calls, Ats, HoldsCopies
    <3>3. run' = [run EXCEPT ![w] = c]
      BY <1>1, <2>2 DEF RunOK
    <3> QED
      BY <1>1, <2>1, <3>2, <3>3, RunStays DEF IInv
  <2>3. CASE Done(w)
    BY <1>1, <2>1, <2>3, DoneStays DEF IInv
  <2> QED
    BY <1>2, <2>2, <2>3 DEF StartRead
<1>3. CASE StartFlip(w)
  <2>1. [run[w].data EXCEPT !.status = "in_progress"] \in TaskData
    BY <1>1, <1>3 DEF StartFlip, At, HoldsCopies, TaskData, Status
  <2> QED
    BY <1>1, <1>3, <2>1, WriteStays, DoneStays DEF StartFlip, IInv
<1> QED
  BY <1>2, <1>3

LEMMA ArchiveStays ==
  ASSUME IInv, NEW w \in Window,
         ArchiveStatus(w) \/ ArchiveReadChild(w) \/ ArchiveFreeChild(w) \/ ArchiveUnpoint(w)
         \/ ArchiveMove(w)
  PROVE  IInv'
<1>1. FilesOK /\ RunOK /\ run[w] \in Calls /\ HoldsCopies(run[w])
  BY DEF IInv, RunOK
<1>2. CASE ArchiveStatus(w)
  <2> DEFINE c == [run[w] EXCEPT !.at = "children", !.todo = run[w].data.children]
  <2>1. run[w].data \in TaskData
    BY <1>1, <1>2 DEF ArchiveStatus, At, HoldsCopies
  <2>2. [run[w].data EXCEPT !.status = "completed"] \in TaskData
    BY <2>1 DEF TaskData, Status
  <2>3. FilesOK'
    BY <1>1, <1>2, <2>2, WriteStays DEF ArchiveStatus
  <2>4. c \in Calls /\ HoldsCopies(c)
    BY <1>1, <1>2, <2>1 DEF ArchiveStatus, At, Calls, Ats, HoldsCopies, TaskData
  <2>5. run' = [run EXCEPT ![w] = c]
    BY <1>1, <1>2 DEF ArchiveStatus, RunOK
  <2> QED
    BY <1>1, <2>3, <2>4, <2>5, RunStays DEF IInv
<1>3. CASE ArchiveReadChild(w)
  <2>1. FilesOK'
    BY <1>1, <1>3 DEF ArchiveReadChild, FilesOK
  <2>2. run[w].op = "archive"
    BY <1>3 DEF ArchiveReadChild, At
  <2>3. CASE Goto(w, "unpoint")
    <3>1. HoldsCopies([run[w] EXCEPT !.at = "unpoint"]) /\ "unpoint" \in Ats
      BY <1>1, <2>2 DEF HoldsCopies, Calls, Ats
    <3> QED
      BY <1>1, <2>1, <2>3, <3>1, GotoStays DEF IInv
  <2>4. ASSUME NEW n \in run[w].todo, run' = [run EXCEPT ![w].todo = run[w].todo \ {n}]
        PROVE  IInv'
    <3> DEFINE c == [run[w] EXCEPT !.todo = run[w].todo \ {n}]
    <3>1. c \in Calls /\ HoldsCopies(c)
      BY <1>1 DEF Calls, HoldsCopies
    <3>2. run' = [run EXCEPT ![w] = c]
      BY <1>1, <2>4 DEF RunOK
    <3> QED
      BY <1>1, <2>1, <3>1, <3>2, RunStays DEF IInv
  <2>5. ASSUME NEW n \in run[w].todo, NEW d \in HasJson,
               run' = [run EXCEPT ![w].at = "child", ![w].todo = run[w].todo \ {n},
                                  ![w].parent = d, ![w].pdata = json[d]]
        PROVE  IInv'
    <3> DEFINE c == [run[w] EXCEPT !.at = "child", !.todo = run[w].todo \ {n},
                                   !.parent = d, !.pdata = json[d]]
    <3>1. d \in Task /\ json[d] \in TaskData
      BY <1>1 DEF HasJson, Active, FilesOK
    <3>2. c \in Calls /\ HoldsCopies(c)
      BY <1>1, <2>2, <3>1 DEF Calls, Ats, HoldsCopies
    <3>3. run' = [run EXCEPT ![w] = c]
      BY <1>1, <2>5 DEF RunOK
    <3> QED
      BY <1>1, <2>1, <3>2, <3>3, RunStays DEF IInv
  <2> QED
    BY <1>3, <2>3, <2>4, <2>5 DEF ArchiveReadChild
<1>4. CASE ArchiveFreeChild(w)
  <2>1. [run[w].pdata EXCEPT !.parent = NoTask] \in TaskData
    BY <1>1, <1>4 DEF ArchiveFreeChild, At, HoldsCopies, TaskData
  <2>2. FilesOK'
    BY <1>1, <1>4, <2>1, WriteStays DEF ArchiveFreeChild
  <2>3. HoldsCopies([run[w] EXCEPT !.at = "children"]) /\ "children" \in Ats
    BY <1>1, <1>4 DEF ArchiveFreeChild, At, HoldsCopies, Calls, Ats
  <2> QED
    BY <1>1, <1>4, <2>2, <2>3, GotoStays DEF ArchiveFreeChild, IInv
<1>5. CASE ArchiveUnpoint(w)
  <2>1. HoldsCopies([run[w] EXCEPT !.at = "move"]) /\ "move" \in Ats
    BY <1>1, <1>5 DEF ArchiveUnpoint, At, HoldsCopies, Calls, Ats
  <2>2. FilesOK'
    BY <1>1, <1>5 DEF ArchiveUnpoint, FilesOK
  <2> QED
    BY <1>1, <1>5, <2>1, <2>2, GotoStays DEF ArchiveUnpoint, IInv
<1>6. CASE ArchiveMove(w)
  BY <1>1, <1>6, DoneStays DEF ArchiveMove, FilesOK, IInv
<1> QED
  BY <1>2, <1>3, <1>4, <1>5, <1>6

LEMMA LinkStays ==
  ASSUME IInv, NEW w \in Window, LinkWriteParent(w) \/ LinkWriteChild(w) \/ SetWrite(w)
  PROVE  IInv'
<1>1. FilesOK /\ RunOK /\ run[w] \in Calls /\ HoldsCopies(run[w])
  BY DEF IInv, RunOK
<1>2. CASE LinkWriteParent(w)
  <2> DEFINE data == [run[w].pdata EXCEPT !.children =
                        IF run[w].op = "add" THEN @ \cup {run[w].task} ELSE @ \ {run[w].task}]
  <2>1. data \in TaskData
    BY <1>1, <1>2 DEF LinkWriteParent, At, HoldsCopies, TaskData
  <2>2. FilesOK'
    BY <1>1, <1>2, <2>1, WriteStays DEF LinkWriteParent
  <2>3. HoldsCopies([run[w] EXCEPT !.at = "child"]) /\ "child" \in Ats
    BY <1>1, <1>2 DEF LinkWriteParent, At, HoldsCopies, Calls, Ats
  <2> QED
    BY <1>1, <1>2, <2>2, <2>3, GotoStays DEF LinkWriteParent, IInv
<1>3. CASE LinkWriteChild(w)
  <2> DEFINE data == [run[w].data EXCEPT !.parent = IF run[w].op = "add" THEN run[w].parent ELSE NoTask]
  <2>1. data \in TaskData
    BY <1>1, <1>3 DEF LinkWriteChild, At, HoldsCopies, Calls, TaskData
  <2> QED
    BY <1>1, <1>3, <2>1, WriteStays, DoneStays DEF LinkWriteChild, IInv
<1>4. CASE SetWrite(w)
  <2>1. run[w].data \in TaskData
    BY <1>1, <1>4 DEF SetWrite, At, HoldsCopies
  <2> QED
    BY <1>1, <1>4, <2>1, WriteStays, DoneStays DEF SetWrite, IInv
<1> QED
  BY <1>2, <1>3, <1>4

LEMMA IInvStep == IInv /\ [Next]_vars => IInv'
<1> SUFFICES ASSUME IInv, [Next]_vars PROVE IInv'
  OBVIOUS
<1>1. ASSUME NEW w \in Window, Killed(w) PROVE IInv'
  BY <1>1, DoneStays DEF Killed, IInv, FilesOK
<1>2. CASE UNCHANGED vars
  BY <1>2 DEF vars, IInv, FilesOK, RunOK
<1> QED
  BY <1>1, <1>2, BeginStays, CreateStays, StartStays, ArchiveStays, LinkStays DEF Next, Steps

LEMMA IInvAlways == Spec => []IInv
BY InitIInv, IInvStep, PTL DEF Spec

-----------------------------------------------------------------------------
\* Every variable has its type, and what a command writes back is a task.json,
\* whatever overlaps and wherever commands are killed (write_json, io.py).
THEOREM TypeCorrect == Spec => []TypeOK
<1>1. IInv => TypeOK
  BY SMTT(40) DEF IInv, FilesOK, RunOK, Calls, TypeOK
<1> QED
  BY <1>1, IInvAlways, PTL

\* However many commands have read a task before it was archived, none of them
\* writes it after that or brings its directory back to tasks/ (write_json).
THEOREM ArchiveStaysFrozen == Spec => ArchiveFrozen
<1> DEFINE Kept == \A t \in Task : where[t] = "archived" =>
                     where'[t] = "archived" /\ json'[t] = json[t]
<1>1. IInv /\ [Next]_vars => [Kept]_vars
  <2> SUFFICES ASSUME IInv, Next, NEW t \in Task, where[t] = "archived"
               PROVE  where'[t] = "archived" /\ json'[t] = json[t]
    BY DEF Kept
  <2>1. where \in [Task -> {"absent", "active", "archived"}] /\ json \in [Task -> TaskData \cup {NoJson}]
    BY DEF IInv, FilesOK
  <2>2. t \notin Active
    BY DEF Active
  <2>3. ASSUME NEW u, NEW data, WriteJson(u, data) PROVE json'[t] = json[t]
    BY <2>1, <2>2, <2>3 DEF WriteJson
  <2> QED
    BY <2>1, <2>2, <2>3
       DEF Next, Commands, Steps, Killed, CreateMkdir, StartPoint, Finish, ArchiveRead, LinkRead, SetRead,
           CreateWrite, CreateReadParent, CreateLinkParent, CreateLinkChild, CreatePoint,
           StartRead, StartFlip, ArchiveStatus, ArchiveReadChild, ArchiveFreeChild, ArchiveUnpoint,
           ArchiveMove, LinkWriteParent, LinkWriteChild, SetWrite
<1> QED
  BY <1>1, IInvAlways, PTL DEF Spec, ArchiveFrozen

-----------------------------------------------------------------------------
(***************************************************************************)
(* Commands in turn.  What a command has read is still what is on disk     *)
(* when it writes, and its steps leave the files as the next one needs     *)
(* them, wherever it is killed.                                            *)
(***************************************************************************)

\* One command at a time.
InTurn == \A v, w \in Window : run[v] # Idle /\ run[w] # Idle => v = w

\* A task.json is never taken away, and a parent was there when it was named.
Rooted ==
  \A t \in Task :
    /\ where[t] = "absent" => json[t] = NoJson
    /\ json[t] # NoJson /\ json[t].parent # NoTask => json[json[t].parent] # NoJson

\* A pointer leads to a task; the archive has seen to it for its own.
NoDangling ==
  /\ \A w \in Window : pointer[w] # NoTask => where[pointer[w]] = "active"
  /\ \A v, w \in Window : At(w, "archive", "move") => pointer[v] # run[w].task

\* A copy is what is on disk, but for what the command itself has written.
Creating(c) ==
  c.op = "create" /\ c.at \in {"link", "parent", "child"} =>
    /\ c.task \in HasJson
    /\ json[c.task].status = "planning"
    /\ c.at = "link" \/ c.task # c.parent => json[c.task] = Fresh
    /\ c.at # "link" => c.parent \in HasJson
    /\ c.at = "parent" => c.pdata = json[c.parent]
    /\ c.at = "child" => c.task \in json[c.parent].children

Archiving(c) ==
  c.op = "archive" =>
    /\ c.at = "status" => c.task \in HasJson /\ c.data = json[c.task]
    /\ c.at = "child" => c.parent \in HasJson /\ c.pdata = json[c.parent]

Linking(c) ==
  c.op \in {"add", "remove"} =>
    /\ {c.task, c.parent} \subseteq HasJson
    /\ c.data.status = json[c.task].status
    /\ c.at = "parent" \/ c.task # c.parent => c.data = json[c.task]
    /\ c.at = "parent" => c.pdata = json[c.parent]
    /\ c.op = "add" /\ c.at = "child" => c.task \in json[c.parent].children

Changing(c) ==
  /\ c.op = "set" => c.task \in HasJson /\ c.data = json[c.task]
  /\ c.op = "start" /\ c.at = "flip" =>
       c.task \in HasJson /\ c.data = json[c.task] /\ c.data.status = "planning"

InStep(c) == Creating(c) /\ Archiving(c) /\ Linking(c) /\ Changing(c)

TurnInv ==
  /\ InTurn /\ Rooted /\ NoDangling
  /\ \A w \in Window : InStep(run[w])

\* In turn, nobody else is running while a command makes a step.
LEMMA Others ==
  ASSUME InTurn, NEW w \in Window, run[w].op # "idle"
  PROVE  \A v \in Window \ {w} : run[v] = Idle
<1>1. run[w] # Idle
  BY DEF Idle
<1> QED
  BY <1>1 DEF InTurn

LEMMA IdleInStep == ASSUME NEW w, run'[w] = Idle PROVE InStep(run[w])'
BY DEF Idle, InStep, Creating, Archiving, Linking, Changing

\* What is to be shown of a step of the only command there is.
LEMMA AloneStep ==
  ASSUME NEW w \in Window, \A v \in Window \ {w} : run[v] = Idle,
         IInv, IInv', \A v \in Window \ {w} : run'[v] = run[v],
         Rooted', NoDangling', InStep(run[w])'
  PROVE  TurnInv'
<1>1. \A v \in Window \ {w} : run'[v] = Idle
  OBVIOUS
<1>2. \A v \in Window : InStep(run[v])'
  BY <1>1, IdleInStep
<1>3. InTurn'
  BY <1>1 DEF InTurn
<1> QED
  BY <1>2, <1>3 DEF TurnInv

\* write_json of a task whose parent is there.
LEMMA WriteRooted ==
  ASSUME FilesOK, Rooted, NEW t \in Task, NEW data \in TaskData, WriteJson(t, data),
         UNCHANGED where, data.parent = NoTask \/ json[data.parent] # NoJson
  PROVE  Rooted'
<1>1. \A u \in Task : json[u] # NoJson => json'[u] # NoJson
  BY NoJsonAssumption DEF FilesOK, WriteJson
<1>2. ASSUME NEW u \in Task, where'[u] = "absent" PROVE json'[u] = NoJson
  BY <1>2 DEF FilesOK, Rooted, WriteJson, Active
<1>3. ASSUME NEW u \in Task, json'[u] # NoJson, json'[u].parent # NoTask
      PROVE  json'[json'[u].parent] # NoJson
  <2>1. CASE json'[u] = json[u]
    <3>1. json[u].parent \in Task
      BY <1>3, <2>1 DEF FilesOK, TaskData
    <3> QED
      BY <1>1, <1>3, <2>1, <3>1 DEF Rooted
  <2>2. CASE u = t /\ json'[u] = data
    <3>1. data.parent \in Task
      BY <1>3, <2>2 DEF TaskData
    <3> QED
      BY <1>1, <1>3, <2>2, <3>1
  <2> QED
    BY <1>3, <2>1, <2>2 DEF WriteJson, FilesOK
<1> QED
  BY <1>2, <1>3 DEF Rooted

\* A task that can be written is there afterwards, as it was written.
LEMMA Written ==
  ASSUME FilesOK, NEW t \in Active, NEW data \in TaskData, WriteJson(t, data), UNCHANGED where
  PROVE  /\ HasJson' = HasJson \cup {t}
         /\ json'[t] = data
         /\ \A u \in Task \ {t} : json'[u] = json[u]
BY NoJsonAssumption DEF FilesOK, WriteJson, HasJson, Active

\* Steps that leave pointers and directories alone.
LEMMA PointersKept ==
  ASSUME IInv, IInv', NoDangling, NEW w \in Window, UNCHANGED <<where, pointer>>,
         \A v \in Window \ {w} : run'[v] = run[v], ~At(w, "archive", "move")'
  PROVE  NoDangling'
BY DEF NoDangling, At

-----------------------------------------------------------------------------
(* The first step of a command, when there is none.                        *)

LEMMA FilesRest ==
  ASSUME IInv, Rooted, UNCHANGED <<where, json>> PROVE Rooted' /\ HasJson' = HasJson
BY DEF Rooted, HasJson, Active

\* A command that begins does so in a window that runs none.
LEMMA Begins ==
  ASSUME RunOK, NEW w \in Window, Commands(w), ~Finish(w)
  PROVE  run[w] = Idle /\ run' = [run EXCEPT ![w] = run'[w]] /\ run'[w] # Idle
<1>1. ASSUME NEW c, Begin(w, c), c.op # "idle"
      PROVE  run[w] = Idle /\ run' = [run EXCEPT ![w] = run'[w]] /\ run'[w] # Idle
  <2>1. c # Idle
    BY <1>1 DEF Idle
  <2> QED
    BY <1>1, <2>1 DEF Begin, RunOK
<1>2. ASSUME NEW t, NEW p, NEW key, CreateMkdir(w, t, p, key)
      PROVE  run[w] = Idle /\ run' = [run EXCEPT ![w] = run'[w]] /\ run'[w] # Idle
  <2> DEFINE c == [Idle EXCEPT !.op = "create", !.at = "write", !.task = t,
                               !.parent = p, !.key = key]
  <2>1. Begin(w, c) /\ c.op # "idle"
    BY <1>2 DEF CreateMkdir, Idle
  <2> HIDE DEF c
  <2> QED
    BY <1>1, <2>1
<1>3. ASSUME NEW t, NEW key, StartPoint(w, t, key)
      PROVE  run[w] = Idle /\ run' = [run EXCEPT ![w] = run'[w]] /\ run'[w] # Idle
  <2> DEFINE c == [Idle EXCEPT !.op = "start", !.at = "read", !.task = t, !.key = key]
  <2>1. Begin(w, c) /\ c.op # "idle"
    BY <1>3 DEF StartPoint, Idle
  <2> HIDE DEF c
  <2> QED
    BY <1>1, <2>1
<1>4. ASSUME NEW t, ArchiveRead(w, t)
      PROVE  run[w] = Idle /\ run' = [run EXCEPT ![w] = run'[w]] /\ run'[w] # Idle
  <2> DEFINE c == [Idle EXCEPT !.op = "archive", !.task = t, !.data = json[t],
                               !.at = IF json[t] = NoJson THEN "unpoint" ELSE "status"]
  <2>1. Begin(w, c) /\ c.op # "idle"
    BY <1>4 DEF ArchiveRead, Idle
  <2> HIDE DEF c
  <2> QED
    BY <1>1, <2>1
<1>5. ASSUME NEW p, NEW t, NEW op \in {"add", "remove"}, LinkRead(w, op, p, t)
      PROVE  run[w] = Idle /\ run' = [run EXCEPT ![w] = run'[w]] /\ run'[w] # Idle
  <2> DEFINE c == [Idle EXCEPT !.op = op, !.at = "parent", !.task = t, !.parent = p,
                               !.data = json[t], !.pdata = json[p]]
  <2>1. Begin(w, c) /\ c.op # "idle"
    BY <1>5 DEF LinkRead, Idle
  <2> HIDE DEF c
  <2> QED
    BY <1>1, <2>1
<1>6. ASSUME NEW t, SetRead(w, t)
      PROVE  run[w] = Idle /\ run' = [run EXCEPT ![w] = run'[w]] /\ run'[w] # Idle
  <2> DEFINE c == [Idle EXCEPT !.op = "set", !.at = "write", !.task = t, !.data = json[t]]
  <2>1. Begin(w, c) /\ c.op # "idle"
    BY <1>6 DEF SetRead, Idle
  <2> HIDE DEF c
  <2> QED
    BY <1>1, <2>1
<1> QED
  BY <1>2, <1>3, <1>4, <1>5, <1>6 DEF Commands

LEMMA BeginTurn ==
  ASSUME IInv, IInv', TurnInv, NEW w \in Window, Commands(w),
         run' # run => \A v \in Window : run[v] = Idle
  PROVE  TurnInv'
<1>1. IInv /\ FilesOK /\ RunOK /\ Rooted /\ NoDangling /\ InTurn
  BY DEF IInv, TurnInv
<1>2. CASE Finish(w)
  <2>1. UNCHANGED <<where, json, run>> /\ \A v \in Window : pointer'[v] \in {pointer[v], NoTask}
    BY <1>1, <1>2 DEF Finish, FilesOK, Pointing
  <2>2. \A v \in Window : InStep(run[v])'
    BY <2>1 DEF TurnInv, InStep, Creating, Archiving, Linking, Changing, HasJson, Active
  <2>3. InTurn' /\ Rooted'
    BY <1>1, <2>1, FilesRest DEF InTurn
  <2>4. NoDangling'
    <3>1. \A v \in Window : pointer'[v] # NoTask => pointer'[v] = pointer[v]
      BY <2>1
    <3>2. \A v \in Window : At(v, "archive", "move") => run[v].task # NoTask
      BY <1>1, TaskTreeAssumption DEF At, RunOK, HoldsCopies
    <3> QED
      BY <1>1, <2>1, <3>1, <3>2 DEF NoDangling, At
  <2> QED
    BY <2>2, <2>3, <2>4 DEF TurnInv
<1> SUFFICES ASSUME ~Finish(w) PROVE TurnInv'
  BY <1>2
<1>3. run[w] = Idle /\ run' = [run EXCEPT ![w] = run'[w]] /\ run'[w] # Idle
  BY <1>1, Begins
<1>4. \A v \in Window : run[v] = Idle
  BY <1>3
<1>5. \A v \in Window \ {w} : run'[v] = run[v]
  BY <1>1, <1>3 DEF RunOK
<1>6. ASSUME NEW c, Begin(w, c) PROVE run'[w] = c
  BY <1>1, <1>6 DEF Begin, RunOK
<1>7. ASSUME NEW t \in Task, NEW p \in Task \cup {NoTask}, NEW key \in BOOLEAN,
             CreateMkdir(w, t, p, key)
      PROVE  TurnInv'
  <2>1. run'[w] = [Idle EXCEPT !.op = "create", !.at = "write", !.task = t, !.parent = p, !.key = key]
    BY <1>6, <1>7 DEF CreateMkdir
  <2>2. InStep(run[w])' /\ ~At(w, "archive", "move")'
    BY <2>1 DEF Idle, InStep, Creating, Archiving, Linking, Changing, At
  <2>3. where' = [where EXCEPT ![t] = "active"] /\ UNCHANGED <<json, pointer>>
    BY <1>7 DEF CreateMkdir
  <2>4. Rooted'
    BY <1>1, <2>3 DEF Rooted, FilesOK
  <2>5. NoDangling'
    <3>1. \A v \in Window : pointer[v] # NoTask => where'[pointer[v]] = "active"
      BY <1>1, <2>3 DEF NoDangling, FilesOK
    <3> QED
      BY <1>1, <1>5, <2>2, <2>3, <3>1 DEF NoDangling, At
  <2> QED
    BY <1>4, <1>5, <2>2, <2>4, <2>5, AloneStep
<1>8. ASSUME NEW t \in Task, NEW key \in BOOLEAN, StartPoint(w, t, key) PROVE TurnInv'
  <2>1. run'[w] = [Idle EXCEPT !.op = "start", !.at = "read", !.task = t, !.key = key]
    BY <1>6, <1>8 DEF StartPoint
  <2>0. run'[w].op = "start" /\ run'[w].at = "read"
    BY <2>1 DEF Idle
  <2>2. InStep(run[w])' /\ \A v \in Window : ~At(v, "archive", "move")'
    <3>1. InStep(run[w])'
      BY <2>0 DEF InStep, Creating, Archiving, Linking, Changing
    <3>2. \A v \in Window \ {w} : run'[v].op = "idle"
      BY <1>4, <1>5 DEF Idle
    <3> QED
      BY <2>0, <3>1, <3>2 DEF At
  <2>3. UNCHANGED <<where, json>> /\ where[t] = "active" /\ \A v \in Window : pointer'[v] \in {pointer[v], t}
    BY <1>1, <1>8 DEF StartPoint, Active, FilesOK
  <2>4. NoDangling'
    BY <1>1, <2>2, <2>3 DEF NoDangling
  <2> QED
    BY <1>1, <1>4, <1>5, <2>2, <2>3, <2>4, FilesRest, AloneStep
<1>9. ASSUME UNCHANGED <<where, json, pointer>>, InStep(run[w])', ~At(w, "archive", "move")'
      PROVE  TurnInv'
  BY <1>1, <1>4, <1>5, <1>9, FilesRest, PointersKept, AloneStep
<1>10. ASSUME NEW t \in Task, ArchiveRead(w, t) PROVE TurnInv'
  <2>1. run'[w] = [Idle EXCEPT !.op = "archive", !.task = t, !.data = json[t],
                               !.at = IF json[t] = NoJson THEN "unpoint" ELSE "status"]
    BY <1>6, <1>10 DEF ArchiveRead
  <2>2. UNCHANGED <<where, json, pointer>> /\ t \in Active
    BY <1>10 DEF ArchiveRead
  <2>3. InStep(run[w])' /\ ~At(w, "archive", "move")'
    BY <2>1, <2>2 DEF Idle, InStep, Creating, Archiving, Linking, Changing, At, HasJson, Active
  <2> QED
    BY <1>9, <2>2, <2>3
<1>11. ASSUME NEW p \in Task, NEW t \in Task, NEW op \in {"add", "remove"}, LinkRead(w, op, p, t)
       PROVE  TurnInv'
  <2>1. run'[w] = [Idle EXCEPT !.op = op, !.at = "parent", !.task = t, !.parent = p,
                               !.data = json[t], !.pdata = json[p]]
    BY <1>6, <1>11 DEF LinkRead
  <2>2. UNCHANGED <<where, json, pointer>> /\ {p, t} \subseteq HasJson
    BY <1>11 DEF LinkRead
  <2>3. InStep(run[w])' /\ ~At(w, "archive", "move")'
    BY <2>1, <2>2 DEF Idle, InStep, Creating, Archiving, Linking, Changing, At, HasJson, Active
  <2> QED
    BY <1>9, <2>2, <2>3
<1>12. ASSUME NEW t \in Task, SetRead(w, t) PROVE TurnInv'
  <2>1. run'[w] = [Idle EXCEPT !.op = "set", !.at = "write", !.task = t, !.data = json[t]]
    BY <1>6, <1>12 DEF SetRead
  <2>2. UNCHANGED <<where, json, pointer>> /\ t \in HasJson
    BY <1>12 DEF SetRead
  <2>3. InStep(run[w])' /\ ~At(w, "archive", "move")'
    BY <2>1, <2>2 DEF Idle, InStep, Creating, Archiving, Linking, Changing, At, HasJson, Active
  <2> QED
    BY <1>9, <2>2, <2>3
<1> QED
  BY <1>7, <1>8, <1>10, <1>11, <1>12 DEF Commands

-----------------------------------------------------------------------------
(* The steps of the only command there is: the invariant, and what they do *)
(* to links and to done children.                                          *)

Upright == OneSided' \subseteq OneSided

\* Who may leave a one-sided link behind.
Excused(w) ==
  \/ At(w, "remove", "parent")
  \/ At(w, "create", "write") /\ json[run[w].task] # NoJson
  \/ run[w].task = run[w].parent /\ run[w].task # NoTask

Steady(w) ==
  \A c \in Task : ChildDone(c) =>
    \/ ChildDone(c)'
    \/ At(w, "create", "write") /\ run[w].task = c /\ where[c] = "active"

Faithful(w) == TurnInv' /\ (Upright \/ Excused(w)) /\ Steady(w)

\* A write keeps links two-sided that takes no child away and names a parent
\* only when that lists the task; it keeps done what it does not reopen.
LEMMA SafeWrite ==
  ASSUME FilesOK, NEW t \in HasJson, NEW data \in TaskData, WriteJson(t, data), UNCHANGED where
  PROVE  /\ (/\ json[t].children \subseteq data.children
             /\ \/ data.parent \in {json[t].parent, NoTask}
                \/ data.parent # t /\ t \in json[data.parent].children) => Upright
         /\ (data.status = "completed" \/ json[t].status # "completed") =>
               \A c \in Task : ChildDone(c) => ChildDone(c)'
<1>1. t \in Active /\ t \in Task
  BY DEF HasJson, Active
<1>2. /\ HasJson' = HasJson /\ json'[t] = data
      /\ \A u \in Task \ {t} : json'[u] = json[u]
  BY <1>1, Written
<1>3. HasJson \subseteq Task /\ NoTask \notin Task
  BY TaskTreeAssumption DEF HasJson, Active
<1>4. ASSUME json[t].children \subseteq data.children,
             \/ data.parent \in {json[t].parent, NoTask}
             \/ data.parent # t /\ t \in json[data.parent].children,
             NEW u \in OneSided'
      PROVE  u \in OneSided
  <2>1. /\ u \in HasJson /\ json'[u].parent \in HasJson
        /\ u \notin json'[json'[u].parent].children
    BY <1>2 DEF OneSided
  <2>2. \A p \in HasJson : u \notin json'[p].children => u \notin json[p].children
    BY <1>2, <1>3, <1>4
  <2>3. CASE json'[u].parent = json[u].parent
    BY <2>1, <2>2, <2>3 DEF OneSided
  <2>4. CASE u = t /\ data.parent # t /\ t \in json[data.parent].children
    BY <1>2, <1>3, <2>1, <2>2, <2>4
  <2>5. CASE u = t /\ data.parent = NoTask
    BY <1>2, <1>3, <2>1, <2>5
  <2> QED
    BY <1>2, <1>3, <1>4, <2>1, <2>3, <2>4, <2>5
<1>5. ASSUME data.status = "completed" \/ json[t].status # "completed",
             NEW c \in Task, ChildDone(c)
      PROVE  ChildDone(c)'
  BY <1>2, <1>5 DEF ChildDone
<1> QED
  BY <1>4, <1>5 DEF Upright

LEMMA QuietLinks ==
  ASSUME NEW w, UNCHANGED <<where, json>>
  PROVE  Upright /\ Steady(w) /\ HasJson' = HasJson
BY DEF Upright, OneSided, Steady, ChildDone, HasJson, Active

\* A step that leaves the files alone.
LEMMA QuietStep ==
  ASSUME IInv, IInv', TurnInv, NEW w \in Window, run[w].op # "idle",
         \A v \in Window \ {w} : run'[v] = run[v],
         UNCHANGED <<where, json, pointer>>, InStep(run[w])', ~At(w, "archive", "move")'
  PROVE  Faithful(w)
<1>1. Rooted' /\ NoDangling'
  BY FilesRest, PointersKept DEF TurnInv
<1>2. TurnInv'
  BY <1>1, Others, AloneStep DEF TurnInv
<1> QED
  BY <1>2, QuietLinks DEF Faithful

\* A step that writes the task.json of a task that is there.
LEMMA WriteStep ==
  ASSUME IInv, IInv', TurnInv, NEW w \in Window, run[w].op # "idle",
         \A v \in Window \ {w} : run'[v] = run[v],
         NEW t \in HasJson, NEW data \in TaskData, WriteJson(t, data), UNCHANGED <<where, pointer>>,
         data.parent \in {json[t].parent, NoTask} \cup HasJson,
         data.status = "completed" \/ json[t].status # "completed",
         \/ Excused(w)
         \/ /\ json[t].children \subseteq data.children
            /\ \/ data.parent \in {json[t].parent, NoTask}
               \/ data.parent # t /\ t \in json[data.parent].children,
         InStep(run[w])', ~At(w, "archive", "move")'
  PROVE  Faithful(w)
<1>1. t \in Task /\ FilesOK /\ Rooted /\ NoDangling
  BY DEF HasJson, Active, IInv, TurnInv
<1>2. data.parent = NoTask \/ json[data.parent] # NoJson
  BY <1>1 DEF Rooted, HasJson
<1>3. Rooted' /\ NoDangling'
  BY <1>1, <1>2, WriteRooted, PointersKept
<1>4. TurnInv'
  BY <1>3, Others, AloneStep DEF TurnInv
<1>5. (Upright \/ Excused(w)) /\ Steady(w)
  BY <1>1, SafeWrite DEF Steady
<1> QED
  BY <1>4, <1>5 DEF Faithful

LEMMA GotoIs ==
  ASSUME RunOK, NEW w \in Window, NEW step, Goto(w, step)
  PROVE  /\ run'[w] = [run[w] EXCEPT !.at = step]
         /\ run'[w].op = run[w].op /\ run'[w].at = step
         /\ run'[w].task = run[w].task /\ run'[w].parent = run[w].parent
         /\ run'[w].data = run[w].data /\ run'[w].pdata = run[w].pdata
         /\ \A v \in Window \ {w} : run'[v] = run[v]
<1>1. run[w] \in Calls /\ run'[w] = [run[w] EXCEPT !.at = step]
      /\ \A v \in Window \ {w} : run'[v] = run[v]
  BY DEF RunOK, Goto
<1> QED
  BY <1>1 DEF Calls

LEMMA DoneIs ==
  ASSUME RunOK, NEW w \in Window, Done(w)
  PROVE  /\ run'[w] = Idle /\ InStep(run[w])' /\ ~At(w, "archive", "move")'
         /\ \A v \in Window \ {w} : run'[v] = run[v]
BY IdleInStep DEF RunOK, Done, At, Idle

LEMMA TypesOf ==
  ASSUME IInv, NEW w \in Window
  PROVE  /\ FilesOK /\ RunOK /\ run[w] \in Calls /\ HoldsCopies(run[w])
         /\ HasJson \subseteq Task /\ Active \subseteq Task
         /\ \A t \in HasJson : json[t] \in TaskData /\ t \in Active
BY DEF IInv, RunOK, FilesOK, HasJson, Active

LEMMA CreateWriteTurn ==
  ASSUME IInv, IInv', TurnInv, NEW w \in Window, CreateWrite(w)
  PROVE  Faithful(w)
<1> DEFINE t == run[w].task
<1>1. At(w, "create", "write") /\ WriteJson(t, Fresh) /\ UNCHANGED <<where, pointer>>
      /\ run[w].op = "create"
  BY DEF CreateWrite, At
<1>2. t \in Task
  BY <1>1, TypesOf DEF HoldsCopies
<1>3. Fresh \in TaskData /\ Fresh.status = "planning" /\ Fresh.parent = NoTask
  BY IdleIsCall DEF Fresh
<1>4. CASE t \notin Active
  <2>1. json' = json /\ Done(w)
    BY <1>1, <1>4 DEF CreateWrite, WriteJson
  <2> QED
    BY <1>1, <2>1, TypesOf, DoneIs, QuietStep
<1>5. CASE t \in Active
  <2>1. Goto(w, "link")
    BY <1>5 DEF CreateWrite
  <2>2. /\ run'[w].op = "create" /\ run'[w].at = "link" /\ run'[w].task = t
        /\ \A v \in Window \ {w} : run'[v] = run[v]
    BY <1>1, <2>1, TypesOf, GotoIs
  <2>3. /\ HasJson' = HasJson \cup {t} /\ json'[t] = Fresh
        /\ \A u \in Task \ {t} : json'[u] = json[u]
    BY <1>1, <1>3, <1>5, TypesOf, Written
  <2>4. InStep(run[w])' /\ ~At(w, "archive", "move")'
    BY <1>3, <2>2, <2>3 DEF InStep, Creating, Archiving, Linking, Changing, At
  <2>5. Rooted' /\ NoDangling'
    BY <1>1, <1>2, <1>3, <2>2, <2>4, TypesOf, WriteRooted, PointersKept DEF TurnInv
  <2>6. TurnInv'
    BY <1>1, <2>2, <2>4, <2>5, Others, AloneStep DEF TurnInv
  <2>7. Steady(w)
    <3>1. ASSUME NEW c \in Task \ {t}, ChildDone(c) PROVE ChildDone(c)'
      BY <2>3, <3>1 DEF ChildDone
    <3> QED
      BY <1>1, <1>5, <3>1 DEF Steady, Active
  <2>8. CASE json[t] # NoJson
    BY <1>1, <2>6, <2>7, <2>8 DEF Faithful, Excused
  <2>9. CASE json[t] = NoJson
    <3>1. ASSUME NEW u \in OneSided' PROVE u \in OneSided
      <4>1. /\ u \in HasJson \cup {t} /\ json'[u].parent \in HasJson \cup {t}
            /\ u \notin json'[json'[u].parent].children
        BY <2>3, <3>1 DEF OneSided
      <4>2. u # t
        BY <1>2, <1>3, <2>3, <4>1, TypesOf, TaskTreeAssumption
      <4>3. u \in HasJson /\ json'[u] = json[u] /\ u \in Task
        BY <2>3, <4>1, <4>2, TypesOf
      <4>4. json[u].parent # t
        BY <2>9, <4>3, <1>2, TaskTreeAssumption DEF TurnInv, Rooted, HasJson
      <4>5. json[u].parent \in HasJson /\ json'[json[u].parent] = json[json[u].parent]
        BY <2>3, <4>1, <4>3, <4>4, TypesOf
      <4> QED
        BY <4>1, <4>3, <4>5 DEF OneSided
    <3> QED
      BY <2>6, <2>7, <3>1 DEF Faithful, Upright
  <2> QED
    BY <2>8, <2>9
<1> QED
  BY <1>4, <1>5

LEMMA CreateLinkTurn ==
  ASSUME IInv, IInv', TurnInv, NEW w \in Window,
         CreateReadParent(w) \/ CreateLinkParent(w) \/ CreateLinkChild(w)
  PROVE  Faithful(w)
<1> DEFINE t == run[w].task
           p == run[w].parent
<1>1. FilesOK /\ RunOK /\ run[w] \in Calls /\ HoldsCopies(run[w]) /\ HasJson \subseteq Task
      /\ \A u \in HasJson : json[u] \in TaskData /\ u \in Active
  BY TypesOf
<1>2. run[w].op = "create" /\ run[w].at \in {"link", "parent", "child"}
  BY DEF CreateReadParent, CreateLinkParent, CreateLinkChild, At
<1>3. /\ t \in HasJson /\ json[t].status = "planning"
      /\ run[w].at = "link" \/ t # p => json[t] = Fresh
      /\ run[w].at # "link" => p \in HasJson
      /\ run[w].at = "parent" => run[w].pdata = json[p]
      /\ run[w].at = "child" => t \in json[p].children
  BY <1>2 DEF TurnInv, InStep, Creating
<1>4. t = p => Excused(w)
  BY <1>1, <1>3, TaskTreeAssumption DEF Excused
<1>5. CASE CreateReadParent(w)
  <2>1. UNCHANGED <<where, json, pointer>> /\ run[w].at = "link" /\ HasJson' = HasJson
    BY <1>5 DEF CreateReadParent, At, HasJson, Active
  <2>2. CASE Goto(w, "point")
    <3>1. /\ run'[w].op = "create" /\ run'[w].at = "point" /\ \A v \in Window \ {w} : run'[v] = run[v]
      BY <1>1, <1>2, <2>2, GotoIs
    <3>2. InStep(run[w])' /\ ~At(w, "archive", "move")'
      BY <3>1 DEF InStep, Creating, Archiving, Linking, Changing, At
    <3> QED
      BY <1>2, <2>1, <3>1, <3>2, QuietStep
  <2>3. ASSUME NEW q \in HasJson,
               run' = [run EXCEPT ![w].at = "parent", ![w].parent = q, ![w].pdata = json[q]]
        PROVE  Faithful(w)
    <3>1. run'[w] = [run[w] EXCEPT !.at = "parent", !.parent = q, !.pdata = json[q]]
          /\ \A v \in Window \ {w} : run'[v] = run[v]
      BY <1>1, <2>3 DEF RunOK
    <3>2. /\ run'[w].op = "create" /\ run'[w].at = "parent" /\ run'[w].parent = q
          /\ run'[w].pdata = json[q] /\ run'[w].task = t
      BY <1>1, <1>2, <3>1 DEF Calls
    <3>3. InStep(run[w])' /\ ~At(w, "archive", "move")'
      BY <1>3, <2>1, <3>2 DEF InStep, Creating, Archiving, Linking, Changing, At
    <3> QED
      BY <1>2, <2>1, <3>1, <3>3, QuietStep
  <2> QED
    BY <1>5, <2>2, <2>3 DEF CreateReadParent
<1>6. CASE CreateLinkParent(w)
  <2> DEFINE data == [run[w].pdata EXCEPT !.children = @ \cup {t}]
  <2>1. run[w].at = "parent" /\ UNCHANGED <<where, pointer>> /\ Goto(w, "child")
    BY <1>6 DEF CreateLinkParent, At
  <2>2. /\ run'[w].op = "create" /\ run'[w].at = "child" /\ run'[w].task = t /\ run'[w].parent = p
        /\ \A v \in Window \ {w} : run'[v] = run[v]
    BY <1>1, <1>2, <2>1, GotoIs
  <2>3. p \in HasJson /\ run[w].pdata = json[p] /\ json[p] \in TaskData /\ t \in Task
    BY <1>1, <1>3, <2>1
  <2>4. CASE t \in json[p].children /\ UNCHANGED json
    <3>1. HasJson' = HasJson
      BY <2>1, <2>4 DEF HasJson, Active
    <3>2. InStep(run[w])' /\ ~At(w, "archive", "move")'
      BY <1>3, <2>1, <2>2, <2>3, <2>4, <3>1 DEF InStep, Creating, Archiving, Linking, Changing, At
    <3> QED
      BY <1>2, <2>1, <2>2, <2>4, <3>2, QuietStep
  <2>5. CASE WriteJson(p, data)
    <3>1. /\ data \in TaskData /\ data.status = json[p].status /\ data.parent = json[p].parent
          /\ data.children = json[p].children \cup {t}
      BY <2>3 DEF TaskData
    <3> HIDE DEF data
    <3>2. HasJson' = HasJson /\ json'[p] = data /\ \A u \in Task \ {p} : json'[u] = json[u]
      <4>1. p \in Active
        BY <1>1, <2>3
      <4>2. HasJson' = HasJson \cup {p} /\ json'[p] = data /\ \A u \in Task \ {p} : json'[u] = json[u]
        BY <1>1, <2>1, <2>5, <3>1, <4>1, Written
      <4> QED
        BY <2>3, <4>2
    <3>3. InStep(run[w])' /\ ~At(w, "archive", "move")'
      BY <1>1, <1>3, <2>1, <2>2, <2>3, <3>1, <3>2
         DEF InStep, Creating, Archiving, Linking, Changing, At
    <3> QED
      BY <1>2, <2>1, <2>2, <2>3, <2>5, <3>1, <3>3, WriteStep
  <2> QED
    BY <1>6, <2>3, <2>4, <2>5 DEF CreateLinkParent
<1>7. CASE CreateLinkChild(w)
  <2> DEFINE data == [Fresh EXCEPT !.parent = p]
  <2>1. /\ run[w].at = "child" /\ UNCHANGED <<where, pointer>> /\ Goto(w, "point")
        /\ WriteJson(t, data)
    BY <1>7 DEF CreateLinkChild, At
  <2>2. /\ run'[w].op = "create" /\ run'[w].at = "point" /\ \A v \in Window \ {w} : run'[v] = run[v]
    BY <1>1, <1>2, <2>1, GotoIs
  <2>3. InStep(run[w])' /\ ~At(w, "archive", "move")'
    BY <2>2 DEF InStep, Creating, Archiving, Linking, Changing, At
  <2>4. p \in HasJson /\ t \in json[p].children /\ p \in Task
    BY <1>1, <1>3, <2>1
  <2>5. data \in TaskData /\ data.parent = p /\ data.children = {}
    BY <2>4 DEF Fresh, TaskData, Status
  <2> HIDE DEF data
  <2>6. t # p => json[t].children = {}
    BY <1>3 DEF Fresh
  <2>7. \/ Excused(w)
        \/ json[t].children \subseteq data.children /\ data.parent # t /\ t \in json[data.parent].children
    BY <1>4, <2>4, <2>5, <2>6
  <2> QED
    BY <1>2, <1>3, <2>1, <2>2, <2>3, <2>4, <2>5, <2>7, WriteStep
<1> QED
  BY <1>5, <1>6, <1>7

LEMMA CreatePointTurn ==
  ASSUME IInv, IInv', TurnInv, NEW w \in Window, CreatePoint(w)
  PROVE  Faithful(w)
<1>1. /\ run[w].op = "create" /\ UNCHANGED <<where, json>> /\ Done(w)
      /\ \A v \in Window : pointer'[v] = pointer[v] \/ where[pointer'[v]] = "active"
  BY TypesOf DEF CreatePoint, At, SetActive, Active, FilesOK
<1>2. InStep(run[w])' /\ \A v \in Window : ~At(v, "archive", "move")'
  <2>1. \A v \in Window : run'[v] = Idle
    BY <1>1, TypesOf, DoneIs, Others DEF TurnInv
  <2> QED
    BY <1>1, <2>1, TypesOf, DoneIs DEF At, Idle
<1>3. NoDangling' /\ Rooted'
  BY <1>1, <1>2, FilesRest DEF TurnInv, NoDangling
<1>4. TurnInv'
  BY <1>1, <1>2, <1>3, TypesOf, DoneIs, Others, AloneStep DEF TurnInv
<1> QED
  BY <1>1, <1>4, QuietLinks DEF Faithful

LEMMA StartTurn ==
  ASSUME IInv, IInv', TurnInv, NEW w \in Window, StartRead(w) \/ StartFlip(w)
  PROVE  Faithful(w)
<1> DEFINE t == run[w].task
<1>1. FilesOK /\ RunOK /\ run[w] \in Calls /\ HoldsCopies(run[w])
      /\ \A u \in HasJson : json[u] \in TaskData /\ u \in Active
  BY TypesOf
<1>2. run[w].op = "start" /\ UNCHANGED <<where, pointer>>
  BY DEF StartRead, StartFlip, At
<1>3. CASE StartRead(w)
  <2>1. UNCHANGED <<where, json, pointer>> /\ HasJson' = HasJson
    BY <1>3 DEF StartRead, HasJson, Active
  <2>2. CASE Done(w)
    BY <1>1, <1>2, <2>1, <2>2, DoneIs, QuietStep
  <2>3. CASE /\ t \in HasJson /\ json[t].status = "planning"
             /\ run' = [run EXCEPT ![w].at = "flip", ![w].data = json[t]]
    <3>1. run'[w] = [run[w] EXCEPT !.at = "flip", !.data = json[t]]
          /\ \A v \in Window \ {w} : run'[v] = run[v]
      BY <1>1, <2>3 DEF RunOK
    <3>2. /\ run'[w].op = "start" /\ run'[w].at = "flip" /\ run'[w].data = json[t] /\ run'[w].task = t
      BY <1>1, <1>2, <3>1 DEF Calls
    <3>3. InStep(run[w])' /\ ~At(w, "archive", "move")'
      BY <2>1, <2>3, <3>2 DEF InStep, Creating, Archiving, Linking, Changing, At
    <3> QED
      BY <1>2, <2>1, <3>1, <3>3, QuietStep
  <2> QED
    BY <1>3, <2>2, <2>3 DEF StartRead
<1>4. CASE StartFlip(w)
  <2> DEFINE data == [run[w].data EXCEPT !.status = "in_progress"]
  <2>1. run[w].at = "flip" /\ WriteJson(t, data) /\ Done(w)
    BY <1>4 DEF StartFlip, At
  <2>2. t \in HasJson /\ run[w].data = json[t] /\ json[t].status = "planning"
    BY <1>2, <2>1 DEF TurnInv, InStep, Changing
  <2>3. data \in TaskData /\ data.parent = json[t].parent /\ data.children = json[t].children
    BY <1>1, <2>2 DEF TaskData, Status
  <2> HIDE DEF data
  <2> QED
    BY <1>1, <1>2, <2>1, <2>2, <2>3, DoneIs, WriteStep
<1> QED
  BY <1>3, <1>4

LEMMA ArchiveReadChildTurn ==
  ASSUME IInv, IInv', TurnInv, NEW w \in Window, ArchiveReadChild(w)
  PROVE  Faithful(w)
<1>1. FilesOK /\ RunOK /\ run[w] \in Calls
  BY TypesOf
<1>2. run[w].op = "archive" /\ run[w].at = "children" /\ UNCHANGED <<where, json, pointer>>
      /\ HasJson' = HasJson
  BY DEF ArchiveReadChild, At, HasJson, Active
<1>3. CASE Goto(w, "unpoint")
  <2>1. /\ run'[w].op = "archive" /\ run'[w].at = "unpoint" /\ \A v \in Window \ {w} : run'[v] = run[v]
    BY <1>1, <1>2, <1>3, GotoIs
  <2>2. InStep(run[w])' /\ ~At(w, "archive", "move")'
    BY <2>1 DEF InStep, Creating, Archiving, Linking, Changing, At
  <2> QED
    BY <1>2, <2>1, <2>2, QuietStep
<1>4. ASSUME NEW n, run' = [run EXCEPT ![w].todo = run[w].todo \ {n}] PROVE Faithful(w)
  <2>1. run'[w] = [run[w] EXCEPT !.todo = run[w].todo \ {n}]
        /\ \A v \in Window \ {w} : run'[v] = run[v]
    BY <1>1, <1>4 DEF RunOK
  <2>2. run'[w].op = "archive" /\ run'[w].at = "children"
    BY <1>1, <1>2, <2>1 DEF Calls
  <2>3. InStep(run[w])' /\ ~At(w, "archive", "move")'
    BY <2>2 DEF InStep, Creating, Archiving, Linking, Changing, At
  <2> QED
    BY <1>2, <2>1, <2>3, QuietStep
<1>5. ASSUME NEW n, NEW d \in HasJson,
             run' = [run EXCEPT ![w].at = "child", ![w].todo = run[w].todo \ {n},
                                ![w].parent = d, ![w].pdata = json[d]]
      PROVE  Faithful(w)
  <2>1. run'[w] = [run[w] EXCEPT !.at = "child", !.todo = run[w].todo \ {n},
                                 !.parent = d, !.pdata = json[d]]
        /\ \A v \in Window \ {w} : run'[v] = run[v]
    BY <1>1, <1>5 DEF RunOK
  <2>2. run'[w].op = "archive" /\ run'[w].at = "child" /\ run'[w].parent = d /\ run'[w].pdata = json[d]
    BY <1>1, <1>2, <2>1 DEF Calls
  <2>3. InStep(run[w])' /\ ~At(w, "archive", "move")'
    BY <1>2, <2>2 DEF InStep, Creating, Archiving, Linking, Changing, At
  <2> QED
    BY <1>2, <2>1, <2>3, QuietStep
<1> QED
  BY <1>3, <1>4, <1>5 DEF ArchiveReadChild

LEMMA ArchiveWriteTurn ==
  ASSUME IInv, IInv', TurnInv, NEW w \in Window, ArchiveStatus(w) \/ ArchiveFreeChild(w)
  PROVE  Faithful(w)
<1>1. FilesOK /\ RunOK /\ run[w] \in Calls
      /\ \A u \in HasJson : json[u] \in TaskData /\ u \in Active
  BY TypesOf
<1>2. run[w].op = "archive" /\ UNCHANGED <<where, pointer>>
  BY DEF ArchiveStatus, ArchiveFreeChild, At
<1>3. CASE ArchiveStatus(w)
  <2> DEFINE t == run[w].task
             data == [run[w].data EXCEPT !.status = "completed"]
  <2>1. run[w].at = "status" /\ WriteJson(t, data)
        /\ run' = [run EXCEPT ![w].at = "children", ![w].todo = run[w].data.children]
    BY <1>3 DEF ArchiveStatus, At
  <2>2. t \in HasJson /\ run[w].data = json[t]
    BY <1>2, <2>1 DEF TurnInv, InStep, Archiving
  <2>3. /\ data \in TaskData /\ data.parent = json[t].parent /\ data.children = json[t].children
        /\ data.status = "completed"
    BY <1>1, <2>2 DEF TaskData, Status
  <2> HIDE DEF data
  <2>4. run'[w] = [run[w] EXCEPT !.at = "children", !.todo = run[w].data.children]
        /\ \A v \in Window \ {w} : run'[v] = run[v]
    BY <1>1, <2>1 DEF RunOK
  <2>5. run'[w].op = "archive" /\ run'[w].at = "children"
    BY <1>1, <1>2, <2>4 DEF Calls
  <2>6. InStep(run[w])' /\ ~At(w, "archive", "move")'
    BY <2>5 DEF InStep, Creating, Archiving, Linking, Changing, At
  <2> QED
    BY <1>2, <2>1, <2>2, <2>3, <2>4, <2>6, WriteStep
<1>4. CASE ArchiveFreeChild(w)
  <2> DEFINE d == run[w].parent
             data == [run[w].pdata EXCEPT !.parent = NoTask]
  <2>1. run[w].at = "child" /\ WriteJson(d, data) /\ Goto(w, "children")
    BY <1>4 DEF ArchiveFreeChild, At
  <2>2. d \in HasJson /\ run[w].pdata = json[d]
    BY <1>2, <2>1 DEF TurnInv, InStep, Archiving
  <2>3. /\ data \in TaskData /\ data.parent = NoTask /\ data.children = json[d].children
        /\ data.status = json[d].status
    BY <1>1, <2>2 DEF TaskData
  <2> HIDE DEF data
  <2>4. /\ run'[w].op = "archive" /\ run'[w].at = "children" /\ \A v \in Window \ {w} : run'[v] = run[v]
    BY <1>1, <1>2, <2>1, GotoIs
  <2>5. InStep(run[w])' /\ ~At(w, "archive", "move")'
    BY <2>4 DEF InStep, Creating, Archiving, Linking, Changing, At
  <2> QED
    BY <1>2, <2>1, <2>2, <2>3, <2>4, <2>5, WriteStep
<1> QED
  BY <1>3, <1>4

\* The pointers go before the directory.
LEMMA ArchiveMoveTurn ==
  ASSUME IInv, IInv', TurnInv, NEW w \in Window, ArchiveUnpoint(w) \/ ArchiveMove(w)
  PROVE  Faithful(w)
<1> DEFINE t == run[w].task
<1>1. FilesOK /\ RunOK /\ Rooted /\ NoDangling /\ t \in Task /\ run[w].op = "archive"
      /\ \A v \in Window \ {w} : run[v] = Idle
  <2>1. run[w].op = "archive"
    BY DEF ArchiveUnpoint, ArchiveMove, At
  <2> QED
    BY <2>1, TypesOf, Others DEF TurnInv, HoldsCopies
<1>2. CASE ArchiveUnpoint(w)
  <2>1. /\ UNCHANGED <<where, json>> /\ Goto(w, "move")
        /\ \A v \in Window : pointer'[v] = IF pointer[v] = t THEN NoTask ELSE pointer[v]
    BY <1>2 DEF ArchiveUnpoint
  <2>2. /\ run'[w].op = "archive" /\ run'[w].at = "move" /\ run'[w].task = t
        /\ \A v \in Window \ {w} : run'[v] = run[v]
    BY <1>1, <2>1, GotoIs
  <2>3. InStep(run[w])'
    BY <2>2 DEF InStep, Creating, Archiving, Linking, Changing
  <2>4. NoDangling'
    <3>1. \A v \in Window : pointer'[v] # t
      BY <1>1, <2>1, TaskTreeAssumption
    <3>2. \A v \in Window \ {w} : ~At(v, "archive", "move")'
      BY <1>1, <2>2 DEF At, Idle
    <3> QED
      BY <1>1, <2>1, <2>2, <3>1, <3>2 DEF NoDangling
  <2>5. TurnInv'
    BY <1>1, <2>1, <2>2, <2>3, <2>4, FilesRest, AloneStep
  <2> QED
    BY <2>1, <2>5, QuietLinks DEF Faithful
<1>3. CASE ArchiveMove(w)
  <2>1. /\ UNCHANGED <<json, pointer>> /\ Done(w) /\ At(w, "archive", "move")
        /\ where' = IF t \in Active THEN [where EXCEPT ![t] = "archived"] ELSE where
    BY <1>3 DEF ArchiveMove
  <2>2. InStep(run[w])' /\ \A v \in Window : run'[v] = Idle
    BY <1>1, <2>1, DoneIs
  <2>3. \A v \in Window : pointer[v] # t
    BY <1>1, <2>1 DEF NoDangling
  <2>4. NoDangling'
    <3>1. \A v \in Window : pointer[v] # NoTask => where'[pointer[v]] = "active"
      BY <1>1, <2>1, <2>3 DEF NoDangling, FilesOK
    <3> QED
      BY <2>1, <2>2, <3>1 DEF NoDangling, At, Idle
  <2>5. Rooted'
    BY <1>1, <2>1 DEF Rooted, FilesOK
  <2>6. TurnInv'
    BY <1>1, <2>2, <2>4, <2>5, AloneStep
  <2>7. HasJson' \subseteq HasJson
    BY <1>1, <2>1 DEF HasJson, Active, FilesOK
  <2>8. Upright /\ Steady(w)
    BY <2>1, <2>7 DEF Upright, OneSided, Steady, ChildDone
  <2> QED
    BY <2>6, <2>8 DEF Faithful
<1> QED
  BY <1>2, <1>3

LEMMA LinkTurn ==
  ASSUME IInv, IInv', TurnInv, NEW w \in Window, LinkWriteParent(w) \/ LinkWriteChild(w)
  PROVE  Faithful(w)
<1> DEFINE t == run[w].task
           p == run[w].parent
<1>1. FilesOK /\ RunOK /\ run[w] \in Calls /\ HasJson \subseteq Task
      /\ \A u \in HasJson : json[u] \in TaskData /\ u \in Active
  BY TypesOf
<1>2. run[w].op \in {"add", "remove"} /\ run[w].at \in {"parent", "child"}
      /\ UNCHANGED <<where, pointer>>
  BY DEF LinkWriteParent, LinkWriteChild, At
<1>3. /\ t \in HasJson /\ p \in HasJson /\ run[w].data.status = json[t].status
      /\ run[w].at = "parent" \/ t # p => run[w].data = json[t]
      /\ run[w].at = "parent" => run[w].pdata = json[p]
      /\ run[w].op = "add" /\ run[w].at = "child" => t \in json[p].children
  BY <1>2 DEF TurnInv, InStep, Linking
<1>4. t = p => Excused(w)
  BY <1>1, <1>3, TaskTreeAssumption DEF Excused
<1>5. CASE LinkWriteParent(w)
  <2> DEFINE data == [run[w].pdata EXCEPT !.children =
                        IF run[w].op = "add" THEN @ \cup {t} ELSE @ \ {t}]
  <2>1. run[w].at = "parent" /\ WriteJson(p, data) /\ Goto(w, "child")
    BY <1>5 DEF LinkWriteParent, At
  <2>2. /\ data \in TaskData /\ data.parent = json[p].parent /\ data.status = json[p].status
        /\ run[w].op = "add" => data.children = json[p].children \cup {t}
    BY <1>1, <1>2, <1>3, <2>1 DEF TaskData
  <2> HIDE DEF data
  <2>3. HasJson' = HasJson /\ json'[p] = data /\ \A u \in Task \ {p} : json'[u] = json[u]
    <3>1. p \in Active
      BY <1>1, <1>3
    <3>2. HasJson' = HasJson \cup {p} /\ json'[p] = data /\ \A u \in Task \ {p} : json'[u] = json[u]
      BY <1>1, <1>2, <2>1, <2>2, <3>1, Written
    <3> QED
      BY <1>3, <3>2
  <2>4. /\ run'[w].op = run[w].op /\ run'[w].at = "child" /\ run'[w].task = t /\ run'[w].parent = p
        /\ run'[w].data = run[w].data /\ \A v \in Window \ {w} : run'[v] = run[v]
    BY <1>1, <2>1, GotoIs
  <2>5. InStep(run[w])' /\ ~At(w, "archive", "move")'
    <3>1. run[w].data.status = json'[t].status
      BY <1>1, <1>3, <2>1, <2>2, <2>3
    <3>2. t # p => run[w].data = json'[t]
      BY <1>1, <1>3, <2>3
    <3>3. run[w].op = "add" => t \in json'[p].children
      BY <2>2, <2>3
    <3> QED
      BY <1>2, <1>3, <2>3, <2>4, <3>1, <3>2, <3>3
         DEF InStep, Creating, Archiving, Linking, Changing, At
  <2>6. Excused(w) \/ json[p].children \subseteq data.children
    BY <1>2, <2>1, <2>2 DEF Excused, At
  <2> QED
    BY <1>2, <1>3, <2>1, <2>2, <2>4, <2>5, <2>6, WriteStep
<1>6. CASE LinkWriteChild(w)
  <2> DEFINE data == [run[w].data EXCEPT !.parent = IF run[w].op = "add" THEN p ELSE NoTask]
  <2>1. run[w].at = "child" /\ WriteJson(t, data) /\ Done(w)
    BY <1>6 DEF LinkWriteChild, At
  <2>2. /\ data \in TaskData /\ data.status = json[t].status
        /\ data.parent = IF run[w].op = "add" THEN p ELSE NoTask
        /\ data.children = run[w].data.children
    <3>1. run[w].data \in TaskData /\ p \in Task
      BY <1>1, <1>2, <1>3, TypesOf DEF HoldsCopies
    <3> QED
      BY <1>3, <3>1 DEF TaskData
  <2> HIDE DEF data
  <2>3. \/ Excused(w)
        \/ /\ json[t].children \subseteq data.children
           /\ data.parent = NoTask \/ (data.parent # t /\ t \in json[data.parent].children)
    BY <1>2, <1>3, <1>4, <2>1, <2>2
  <2>4. data.parent \in {NoTask} \cup HasJson
    BY <1>3, <2>2
  <2> QED
    BY <1>1, <1>2, <1>3, <2>1, <2>2, <2>3, <2>4, DoneIs, WriteStep
<1> QED
  BY <1>5, <1>6

LEMMA SetTurn ==
  ASSUME IInv, IInv', TurnInv, NEW w \in Window, SetWrite(w)
  PROVE  Faithful(w)
<1> DEFINE t == run[w].task
<1>1. /\ run[w].op = "set" /\ WriteJson(t, run[w].data) /\ Done(w) /\ UNCHANGED <<where, pointer>>
  BY DEF SetWrite, At
<1>2. t \in HasJson /\ run[w].data = json[t] /\ json[t] \in TaskData
  BY <1>1, TypesOf DEF TurnInv, InStep, Changing
<1> QED
  BY <1>1, <1>2, TypesOf, DoneIs, WriteStep

\* A kill leaves what has been written so far.
LEMMA KilledTurn ==
  ASSUME IInv, IInv', TurnInv, NEW w \in Window, Killed(w)
  PROVE  Faithful(w)
<1>1. Done(w) /\ UNCHANGED <<where, json, pointer>> /\ run[w] # Idle
  BY DEF Killed
<1>2. \A v \in Window \ {w} : run[v] = Idle
  BY <1>1 DEF TurnInv, InTurn
<1>3. Rooted' /\ NoDangling'
  BY <1>1, TypesOf, DoneIs, FilesRest, PointersKept DEF TurnInv
<1>4. TurnInv'
  BY <1>1, <1>2, <1>3, TypesOf, DoneIs, AloneStep
<1> QED
  BY <1>1, <1>4, QuietLinks DEF Faithful

LEMMA StepTurn ==
  ASSUME IInv, IInv', TurnInv, NEW w \in Window, Steps(w) \/ Killed(w)
  PROVE  Faithful(w)
BY KilledTurn, CreateWriteTurn, CreateLinkTurn, CreatePointTurn, StartTurn, ArchiveReadChildTurn,
   ArchiveWriteTurn, ArchiveMoveTurn, LinkTurn, SetTurn DEF Steps

-----------------------------------------------------------------------------
(* The behaviours in which commands take turns.                            *)

\* The first step of a command writes no task.json, and a directory it makes
\* was not there, so that it has none.
LEMMA BeginQuiet ==
  ASSUME IInv, TurnInv, NEW w \in Window, Commands(w)
  PROVE  Upright /\ Steady(w)
<1>1. json' = json
  BY ZenonT(60) DEF Commands, CreateMkdir, StartPoint, Finish, ArchiveRead, LinkRead, SetRead
<1>2. \/ UNCHANGED where
      \/ \E t \in Task : where[t] # "archived" /\ where' = [where EXCEPT ![t] = "active"]
  BY DEF Commands, CreateMkdir, StartPoint, Finish, ArchiveRead, LinkRead, SetRead
<1>3. HasJson' = HasJson
  BY <1>1, <1>2 DEF HasJson, Active, IInv, FilesOK, TurnInv, Rooted
<1> QED
  BY <1>1, <1>3, SMTT(40) DEF Upright, OneSided, Steady, ChildDone

\* A command that is the only one after it has begun was the only one before.
LEMMA BeginAlone ==
  ASSUME IInv, TurnInv, NEW w \in Window, Commands(w), Cardinality(Running(run')) <= 1,
         run' # run
  PROVE  \A v \in Window : run[v] = Idle
<1>1. run[w] = Idle /\ run' = [run EXCEPT ![w] = run'[w]] /\ run'[w] # Idle
  <2>1. ~Finish(w)
    BY DEF Finish
  <2> QED
    BY <2>1, Begins DEF IInv
<1> SUFFICES ASSUME NEW v \in Window, run[v] # Idle PROVE FALSE
  OBVIOUS
<1>2. v # w
  BY <1>1
<1>3. \A u \in Window : run[u] # Idle => u = v
  BY DEF TurnInv, InTurn
<1>4. \A u \in Window \ {w} : run'[u] = run[u]
  BY <1>1 DEF IInv, RunOK
<1>5. Running(run') = {v} \cup {w}
  BY <1>1, <1>2, <1>3, <1>4 DEF Running
<1>6. IsFiniteSet({v}) /\ Cardinality({v}) = 1
  BY FS_Singleton
<1>7. Cardinality({v} \cup {w}) = 2
  BY <1>2, <1>6, FS_AddElement
<1> QED
  BY <1>5, <1>7

MCInv == IInv /\ (serial => TurnInv)

\* What a step does when commands take turns.
SerialStep ==
  serial => \/ UNCHANGED vars
            \/ \E w \in Window : (Upright \/ Excused(w)) /\ Steady(w)

LEMMA MCInit_MCInv == MCInit => MCInv
<1> SUFFICES ASSUME MCInit PROVE MCInv
  OBVIOUS
<1>1. IInv
  BY IdleIsCall DEF MCInit, IInv, FilesOK, RunOK
<1>2. \A w \in Window : InStep(run[w])
  BY DEF MCInit, Idle, InStep, Creating, Archiving, Linking, Changing
<1>3. InTurn /\ Rooted /\ NoDangling
  BY DEF MCInit, InTurn, Rooted, NoDangling, At, Idle, Fresh
<1> QED
  BY <1>1, <1>2, <1>3 DEF MCInv, TurnInv

LEMMA MCNextStep == MCInv /\ MCNext => MCInv' /\ SerialStep
<1> SUFFICES ASSUME MCInv, MCNext PROVE MCInv' /\ SerialStep
  OBVIOUS
<1>1. IInv /\ IInv'
  BY IInvStep DEF MCInv, MCNext, Next
<1> SUFFICES ASSUME serial, serial' PROVE TurnInv' /\ SerialStep
  BY <1>1 DEF MCInv, MCNext, SerialStep
<1>2. TurnInv
  BY DEF MCInv
<1>3. ASSUME NEW w \in Window, Commands(w), Cardinality(Running(run')) <= 1
      PROVE  TurnInv' /\ SerialStep
  <2>1. TurnInv'
    BY <1>1, <1>2, <1>3, BeginAlone, BeginTurn
  <2>2. Upright /\ Steady(w)
    BY <1>1, <1>2, <1>3, BeginQuiet
  <2> QED
    BY <2>1, <2>2 DEF SerialStep
<1>4. ASSUME NEW w \in Window, Steps(w) \/ Killed(w) PROVE TurnInv' /\ SerialStep
  BY <1>1, <1>2, <1>4, StepTurn DEF Faithful, SerialStep
<1> QED
  BY <1>3, <1>4 DEF MCNext

LEMMA MCStep == MCInv /\ [MCNext]_mcvars => MCInv' /\ SerialStep
<1>1. ASSUME MCInv, UNCHANGED mcvars PROVE MCInv' /\ SerialStep
  <2>1. UNCHANGED <<where, json, pointer, run, serial>>
    BY <1>1 DEF mcvars, vars
  <2>2. IInv'
    BY <1>1, <2>1 DEF MCInv, IInv, FilesOK, RunOK
  <2>3. TurnInv => TurnInv'
    BY <2>1 DEF TurnInv, InTurn, Rooted, NoDangling, InStep, Creating, Archiving, Linking, Changing,
                At, HasJson, Active
  <2> QED
    BY <1>1, <2>1, <2>2, <2>3 DEF MCInv, SerialStep, vars
<1> QED
  BY <1>1, MCNextStep

LEMMA MCInvAlways == MCSpec => []MCInv
BY MCInit_MCInv, MCStep, PTL DEF MCSpec

\* When commands do not overlap, no window points at a directory that is gone or
\* in the archive, wherever an archive is killed: it clears the pointers of
\* every window before it moves (task_store.py:590-595).
THEOREM PointersLeadToTasks == MCSpec => []PointersOK
<1>1. MCInv => PointersOK
  BY DEF MCInv, IInv, FilesOK, RunOK, Calls, TypeOK, TurnInv, NoDangling, NoDanglingPointer, PointersOK
<1> QED
  BY <1>1, MCInvAlways, PTL

\* A child that names a parent is listed by it, but for the three ways of
\* breaking a link that Excused names: create --parent, add-subtask and archive
\* write their files in an order that leaves no such link behind, wherever they
\* are killed (task_store.py:418-425, 572-588, 751-761).
THEOREM LinksKeptTwoSided == MCSpec => LinksStayTwoSided
<1> DEFINE Kept ==
      serial => \/ OneSided' \subseteq OneSided
                \/ \E w \in Window :
                     \/ At(w, "remove", "parent")
                     \/ At(w, "create", "write") /\ json[run[w].task] # NoJson
                     \/ run[w].task = run[w].parent /\ run[w].task # NoTask
<1>1. MCInv /\ [MCNext]_mcvars => [Kept]_mcvars
  <2> SUFFICES ASSUME MCInv, [MCNext]_mcvars, serial, ~Upright
               PROVE  \E w \in Window : Excused(w)
    BY DEF Excused, Upright
  <2>1. ~UNCHANGED vars
    BY DEF vars, Upright, OneSided, HasJson, Active
  <2> QED
    BY <2>1, MCStep DEF SerialStep
<1> QED
  BY <1>1, MCInvAlways, PTL DEF MCSpec, LinksStayTwoSided

\* A child that counts as done in its parent's progress goes on counting, while
\* it is archived and after, and wherever an archive is killed; only a create
\* of its name over it makes it a new task (tasks.py:105-107).
THEOREM DoneStaysDone == MCSpec => DoneNeverRegresses
<1> DEFINE Kept ==
      serial =>
        \A p, c \in Task :
          (/\ p \in HasJson /\ c \in json[p].children /\ ChildDone(c)
           /\ p \in HasJson' /\ c \in json'[p].children)
          => \/ ChildDone(c)'
             \/ \E w \in Window : At(w, "create", "write") /\ run[w].task = c
                                  /\ where[c] = "active"
<1>1. MCInv /\ [MCNext]_mcvars => [Kept]_mcvars
  <2> SUFFICES ASSUME MCInv, [MCNext]_mcvars, serial, NEW c \in Task, ChildDone(c)
               PROVE  \/ ChildDone(c)'
                      \/ \E w \in Window : At(w, "create", "write") /\ run[w].task = c
                                           /\ where[c] = "active"
    OBVIOUS
  <2>1. CASE UNCHANGED vars
    BY <2>1 DEF vars, ChildDone, HasJson, Active
  <2> QED
    BY <2>1, MCStep DEF SerialStep, Steady
<1> QED
  BY <1>1, MCInvAlways, PTL DEF MCSpec, DoneNeverRegresses

-----------------------------------------------------------------------------
(***************************************************************************)
(* Closures: what can be reached in a finite set of tasks.  The induction  *)
(* theorems of the library take a predicate, which no prover here can give *)
(* them, so induction is done with sets: a set of naturals with 0 and all  *)
(* successors up to N, or a minimal counterexample.                        *)
(***************************************************************************)
\* Of finitely many subsets of a finite set one is minimal.
LEMMA Minimal ==
  ASSUME NEW S, IsFiniteSet(S), NEW F \in SUBSET SUBSET S, F # {}
  PROVE  \E x \in F : \A y \in F : y \subseteq x => y = x
<1>1. F \subseteq FiniteSubsetsOf(S)
  BY FS_FiniteSubsetsOfFinite
<1>2. \E x \in F : \A y \in F : ~(<<y, x>> \in StrictSubsetOrdering(S))
  BY <1>1, FS_StrictSubsetOrderingWellFounded, WFMin
<1> QED
  BY <1>2 DEF StrictSubsetOrdering

\* Induction up to N.
LEMMA UpTo ==
  ASSUME NEW N \in Nat, NEW S, 0 \in S, \A n \in 0 .. N : n \in S /\ n < N => n + 1 \in S
  PROVE  0 .. N \subseteq S
<1> DEFINE F == {T \in SUBSET (0 .. N) : \E n \in (0 .. N) \ S : T = 0 .. n}
<1> SUFFICES ASSUME NEW b \in (0 .. N) \ S PROVE FALSE
  OBVIOUS
<1>1. 0 .. b \in F
  OBVIOUS
<1>2. IsFiniteSet(0 .. N)
  BY FS_Interval
<1>3. PICK T \in F : \A y \in F : y \subseteq T => y = T
  <2> DEFINE A == 0 .. N
  <2>1. IsFiniteSet(A) /\ F \in SUBSET SUBSET A /\ F # {}
    BY <1>1, <1>2
  <2> HIDE DEF F, A
  <2> QED
    BY <2>1, Minimal
<1>4. PICK n \in (0 .. N) \ S : T = 0 .. n
  BY <1>3
<1>5. n - 1 \in (0 .. N) \ S
  <2>1. n # 0 /\ n - 1 \in 0 .. N /\ n - 1 < N /\ (n - 1) + 1 = n
    BY <1>4
  <2> QED
    BY <1>4, <2>1
<1>6. 0 .. n - 1 \in F /\ 0 .. n - 1 \subseteq T /\ n \in T /\ n \notin 0 .. n - 1
  BY <1>4, <1>5
<1> QED
  BY <1>3, <1>6

\* What the closures of Printed and Upwards compute, round by round: grow[s] is
\* s and what one round adds to it.
Rounds(g, N, grow, base) == g[0] = base /\ \A n \in 0 .. N : n < N => g[n + 1] = grow[g[n]]

LEMMA RoundsExist ==
  ASSUME NEW D, NEW grow \in [SUBSET D -> SUBSET D], NEW base \in SUBSET D, NEW N \in Nat
  PROVE  \E g \in [0 .. N -> SUBSET D] : Rounds(g, N, grow, base)
<1> DEFINE S == {k \in 0 .. N : \E g \in [0 .. k -> SUBSET D] : Rounds(g, k, grow, base)}
<1>1. 0 \in S
  <2> DEFINE g == [n \in 0 .. 0 |-> base]
  <2>1. g \in [0 .. 0 -> SUBSET D] /\ Rounds(g, 0, grow, base)
    BY DEF Rounds
  <2> HIDE DEF g
  <2> QED
    BY <2>1
<1>2. ASSUME NEW k \in 0 .. N, k \in S, k < N PROVE k + 1 \in S
  <2>1. PICK g \in [0 .. k -> SUBSET D] : Rounds(g, k, grow, base)
    BY <1>2
  <2> DEFINE h == [n \in 0 .. k + 1 |-> IF n <= k THEN g[n] ELSE grow[g[k]]]
  <2>2. h \in [0 .. k + 1 -> SUBSET D]
    BY <2>1
  <2>3. Rounds(h, k + 1, grow, base)
    BY <2>1 DEF Rounds
  <2> HIDE DEF h
  <2> QED
    BY <1>2, <2>2, <2>3
<1>3. N \in S
  <2> HIDE DEF S
  <2> QED
    BY <1>1, <1>2, UpTo
<1> QED
  BY <1>3

\* r is the least set with the elements of base that grow adds nothing to.
LeastFixed(r, D, grow, base) ==
  /\ r \in SUBSET D /\ base \subseteq r /\ grow[r] = r
  /\ \A C \in SUBSET D : base \subseteq C /\ (\A s \in SUBSET C : grow[s] \subseteq C) => r \subseteq C

\* After as many rounds as there are elements nothing is added any more, and
\* what there is, is in every closed set that the first was in.
LEMMA RoundsClose ==
  ASSUME NEW D, IsFiniteSet(D), NEW grow \in [SUBSET D -> SUBSET D], NEW base \in SUBSET D,
         \A s \in SUBSET D : s \subseteq grow[s],
         NEW g \in [0 .. Cardinality(D) -> SUBSET D], Rounds(g, Cardinality(D), grow, base)
  PROVE  LeastFixed(g[Cardinality(D)], D, grow, base)
<1> DEFINE N == Cardinality(D)
<1>1. N \in Nat
  BY FS_CardinalityType
<1>2. \A n \in 0 .. N : g[n] \in SUBSET D /\ IsFiniteSet(g[n]) /\ Cardinality(g[n]) \in Nat
  BY FS_Subset, FS_CardinalityType
<1>3. g[0] = base /\ \A n \in 0 .. N : n < N => g[n + 1] = grow[g[n]]
  BY DEF Rounds
<1> DEFINE Grown == {n \in 0 .. N : grow[g[n]] = g[n] \/ Cardinality(g[n]) >= n}
           From  == {n \in 0 .. N : base \subseteq g[n]}
<1> HIDE DEF N
<1>4. 0 .. N \subseteq Grown
  <2>1. 0 \in Grown
    BY <1>1, <1>2
  <2>2. ASSUME NEW n \in 0 .. N, n \in Grown, n < N PROVE n + 1 \in Grown
    <3>1. g[n + 1] = grow[g[n]] /\ n + 1 \in 0 .. N
      BY <1>1, <1>3, <2>2
    <3>2. CASE grow[g[n]] = g[n]
      BY <3>1, <3>2
    <3>3. CASE grow[g[n]] # g[n] /\ Cardinality(g[n]) >= n
      <4>1. g[n] \in SUBSET g[n + 1] /\ g[n] # g[n + 1]
        BY <1>2, <3>1, <3>3
      <4>2. Cardinality(g[n]) <= Cardinality(g[n + 1]) /\ Cardinality(g[n]) # Cardinality(g[n + 1])
        BY <1>2, <3>1, <4>1, FS_Subset
      <4>3. Cardinality(g[n + 1]) >= n + 1
        BY <1>1, <1>2, <3>1, <3>3, <4>2
      <4> QED
        BY <3>1, <4>3
    <3> QED
      BY <2>2, <3>2, <3>3
  <2> HIDE DEF Grown
  <2> QED
    BY <1>1, <2>1, <2>2, UpTo
<1>5. grow[g[N]] = g[N]
  <2>1. grow[g[N]] = g[N] \/ Cardinality(g[N]) >= N
    BY <1>1, <1>4
  <2>2. CASE Cardinality(g[N]) >= N
    <3>1. Cardinality(g[N]) = N
      BY <1>1, <1>2, <2>2, FS_Subset DEF N
    <3>2. g[N] = D
      BY <1>1, <1>2, <3>1, FS_Subset DEF N
    <3>3. D \in SUBSET D /\ grow[D] \in SUBSET D /\ D \subseteq grow[D]
      OBVIOUS
    <3> QED
      BY <3>2, <3>3
  <2> QED
    BY <2>1, <2>2
<1>6. 0 .. N \subseteq From
  <2>1. 0 \in From
    BY <1>1, <1>3
  <2>2. ASSUME NEW n \in 0 .. N, n \in From, n < N PROVE n + 1 \in From
    <3>1. g[n + 1] = grow[g[n]] /\ g[n] \in SUBSET D /\ n + 1 \in 0 .. N
      BY <1>1, <1>2, <1>3, <2>2
    <3>2. g[n] \subseteq g[n + 1]
      BY <3>1
    <3> QED
      BY <2>2, <3>1, <3>2
  <2> HIDE DEF From
  <2> QED
    BY <1>1, <2>1, <2>2, UpTo
<1>7. ASSUME NEW C \in SUBSET D, base \subseteq C, \A s \in SUBSET C : grow[s] \subseteq C
      PROVE  g[N] \subseteq C
  <2> DEFINE In == {n \in 0 .. N : g[n] \subseteq C}
  <2>1. 0 \in In
    BY <1>1, <1>3, <1>7
  <2>2. ASSUME NEW n \in 0 .. N, n \in In, n < N PROVE n + 1 \in In
    BY <1>1, <1>3, <1>7, <2>2
  <2>3. 0 .. N \subseteq In
    <3> HIDE DEF In
    <3> QED
      BY <1>1, <2>1, <2>2, UpTo
  <2> QED
    BY <1>1, <2>3
<1> QED
  BY <1>1, <1>2, <1>5, <1>6, <1>7 DEF N, LeastFixed

-----------------------------------------------------------------------------
(* What task.py list prints.                                               *)

GoDown == [s \in SUBSET Task |-> s \cup Below(s)]
GoUp   == [s \in SUBSET Task |-> s \cup (HasJson \cap {json[x].parent : x \in s})]

LEMMA PrintedIs ==
  /\ Printed \in SUBSET Task /\ Roots \subseteq Printed /\ Below(Printed) \subseteq Printed
<1> DEFINE N == Cardinality(Task)
           Is(level) == level = [n \in 0 .. N |-> IF n = 0 THEN Roots ELSE level[n - 1] \cup Below(level[n - 1])]
<1>1. N \in Nat
  BY TaskTreeAssumption, FS_CardinalityType
<1>2. Roots \in SUBSET Task /\ GoDown \in [SUBSET Task -> SUBSET Task]
  BY DEF Roots, GoDown, Below, HasJson, Active
<1>3. PICK g \in [0 .. N -> SUBSET Task] : Rounds(g, N, GoDown, Roots)
  BY <1>1, <1>2, RoundsExist
<1>4. Is(g)
  <2>1. ASSUME NEW n \in 0 .. N PROVE g[n] = IF n = 0 THEN Roots ELSE g[n - 1] \cup Below(g[n - 1])
    <3>1. CASE n = 0
      BY <1>3, <3>1 DEF Rounds
    <3>2. CASE n # 0
      <4>1. n - 1 \in 0 .. N /\ n - 1 < N /\ (n - 1) + 1 = n
        BY <1>1, <3>2
      <4>2. g[n] = GoDown[g[n - 1]] /\ g[n - 1] \in SUBSET Task
        BY <1>3, <4>1 DEF Rounds
      <4> QED
        BY <3>2, <4>2 DEF GoDown
    <3> QED
      BY <3>1, <3>2
  <2> QED
    BY <2>1
<1> DEFINE h == CHOOSE level : Is(level)
<1>5. Is(h)
  <2> HIDE DEF Is
  <2> QED
    BY <1>4
<1>6. Printed = h[N]
  BY DEF Printed
<1> HIDE DEF h
<1> DEFINE Fine == {n \in 0 .. N : h[n] \in SUBSET Task}
<1>7. 0 .. N \subseteq Fine
  <2>1. 0 \in Fine
    BY <1>1, <1>2, <1>5
  <2>2. ASSUME NEW n \in 0 .. N, n \in Fine, n < N PROVE n + 1 \in Fine
    <3>1. h[n + 1] = h[n] \cup Below(h[n])
      <4>1. n + 1 \in 0 .. N /\ n + 1 # 0 /\ (n + 1) - 1 = n
        BY <1>1, <2>2
      <4> QED
        BY <1>5, <4>1
    <3>2. Below(h[n]) \in SUBSET Task
      BY DEF Below, HasJson, Active
    <3> QED
      BY <1>1, <2>2, <3>1, <3>2
  <2> HIDE DEF Fine, Is
  <2> QED
    BY <1>1, <2>1, <2>2, UpTo
<1>8. h \in [0 .. N -> SUBSET Task]
  BY <1>5, <1>7
<1>9. Rounds(h, N, GoDown, Roots)
  <2>1. h[0] = Roots
    BY <1>1, <1>5
  <2>2. ASSUME NEW n \in 0 .. N, n < N PROVE h[n + 1] = GoDown[h[n]]
    <3>1. n + 1 \in 0 .. N /\ n + 1 # 0 /\ (n + 1) - 1 = n
      BY <1>1, <2>2
    <3>2. h[n + 1] = h[n] \cup Below(h[n]) /\ h[n] \in SUBSET Task
      BY <1>5, <1>8, <3>1
    <3> QED
      BY <3>2 DEF GoDown
  <2> QED
    BY <2>1, <2>2 DEF Rounds
<1>10. \A s \in SUBSET Task : s \subseteq GoDown[s]
  BY DEF GoDown
<1> HIDE DEF Is
<1>11. h[N] \in SUBSET Task /\ Roots \subseteq h[N] /\ GoDown[h[N]] = h[N]
  BY <1>2, <1>8, <1>9, <1>10, TaskTreeAssumption, RoundsClose DEF LeastFixed
<1> QED
  BY <1>6, <1>11 DEF GoDown

\* A task with its ancestors.
LEMMA UpwardsIs ==
  ASSUME NEW t \in Task
  PROVE  /\ Upwards(t) \in SUBSET Task /\ t \in Upwards(t)
         /\ \A x \in Upwards(t) : json[x].parent \in HasJson => json[x].parent \in Upwards(t)
         /\ \A C \in SUBSET Task :
              t \in C /\ (\A x \in C : json[x].parent \in HasJson => json[x].parent \in C)
              => Upwards(t) \subseteq C
<1> DEFINE N == Cardinality(Task)
           Above(s) == HasJson \cap {json[x].parent : x \in s}
           Is(up) == up = [n \in 0 .. N |-> IF n = 0 THEN {t} ELSE up[n - 1] \cup Above(up[n - 1])]
<1>0. HasJson \in SUBSET Task
  BY DEF HasJson, Active
<1>1. N \in Nat
  BY TaskTreeAssumption, FS_CardinalityType
<1>2. GoUp \in [SUBSET Task -> SUBSET Task] /\ {t} \in SUBSET Task
  BY <1>0 DEF GoUp
<1>3. PICK g \in [0 .. N -> SUBSET Task] : Rounds(g, N, GoUp, {t})
  BY <1>1, <1>2, RoundsExist
<1>4. Is(g)
  <2>1. ASSUME NEW n \in 0 .. N PROVE g[n] = IF n = 0 THEN {t} ELSE g[n - 1] \cup Above(g[n - 1])
    <3>1. CASE n = 0
      BY <1>3, <3>1 DEF Rounds
    <3>2. CASE n # 0
      <4>1. n - 1 \in 0 .. N /\ n - 1 < N /\ (n - 1) + 1 = n
        BY <1>1, <3>2
      <4>2. g[n] = GoUp[g[n - 1]] /\ g[n - 1] \in SUBSET Task
        BY <1>3, <4>1 DEF Rounds
      <4> QED
        BY <3>2, <4>2 DEF GoUp
    <3> QED
      BY <3>1, <3>2
  <2> QED
    BY <2>1
<1> DEFINE h == CHOOSE up : Is(up)
<1>5. Is(h)
  <2> HIDE DEF Is
  <2> QED
    BY <1>4
<1>6. Upwards(t) = h[N]
  BY DEF Upwards
<1> HIDE DEF h
<1> DEFINE Fine == {n \in 0 .. N : h[n] \in SUBSET Task}
<1>7. ASSUME NEW n \in 0 .. N, n < N PROVE h[n + 1] = h[n] \cup Above(h[n]) /\ n + 1 \in 0 .. N
  <2>1. n + 1 \in 0 .. N /\ n + 1 # 0 /\ (n + 1) - 1 = n
    BY <1>1, <1>7
  <2> QED
    BY <1>5, <2>1
<1>8. 0 .. N \subseteq Fine
  <2>1. 0 \in Fine
    BY <1>1, <1>2, <1>5
  <2>2. ASSUME NEW n \in 0 .. N, n \in Fine, n < N PROVE n + 1 \in Fine
    BY <1>0, <1>7, <2>2
  <2> HIDE DEF Fine, Is
  <2> QED
    BY <1>1, <2>1, <2>2, UpTo
<1>9. h \in [0 .. N -> SUBSET Task]
  BY <1>5, <1>8
<1>10. Rounds(h, N, GoUp, {t})
  <2>1. h[0] = {t}
    BY <1>1, <1>5
  <2>2. ASSUME NEW n \in 0 .. N, n < N PROVE h[n + 1] = GoUp[h[n]]
    BY <1>7, <1>9, <2>2 DEF GoUp
  <2> QED
    BY <2>1, <2>2 DEF Rounds
<1>11. \A s \in SUBSET Task : s \subseteq GoUp[s]
  BY DEF GoUp
<1> HIDE DEF Is
<1>12. LeastFixed(h[N], Task, GoUp, {t})
  BY <1>2, <1>9, <1>10, <1>11, TaskTreeAssumption, RoundsClose
<1>13. \A x \in h[N] : json[x].parent \in HasJson => json[x].parent \in h[N]
  BY <1>12 DEF GoUp, LeastFixed
<1>14. ASSUME NEW C \in SUBSET Task, t \in C, \A x \in C : json[x].parent \in HasJson => json[x].parent \in C
       PROVE  h[N] \subseteq C
  <2>1. ASSUME NEW s \in SUBSET C PROVE GoUp[s] \subseteq C
    BY <1>14, <2>1 DEF GoUp
  <2> QED
    BY <1>12, <1>14, <2>1 DEF LeastFixed
<1> QED
  BY <1>6, <1>12, <1>13, <1>14 DEF LeastFixed

\* task.py list leaves out a task only above a loop or a link that its parent does
\* not know of, whatever the links are: going up from a task that is not printed one
\* never comes to a root, so one comes to such a link or back to where one was
\* (cmd_list, task.py:329-331).
THEOREM ListShowsTheRest == MCSpec => []ListHidesOnlyLoops
<1>1. ListHidesOnlyLoops
  <2> SUFFICES ASSUME NEW t \in HasJson \ Printed, Upwards(t) \cap (Looping \cup OneSided) = {} PROVE FALSE
    BY DEF ListHidesOnlyLoops
  <2> DEFINE Lost == {x \in HasJson \ Printed : Upwards(x) \subseteq Upwards(t)}
             F    == {Upwards(x) : x \in Lost}
  <2>0. HasJson \subseteq Task
    BY DEF HasJson, Active
  <2>1. t \in Lost /\ IsFiniteSet(Task) /\ F \in SUBSET SUBSET Task /\ F # {}
    BY <2>0, TaskTreeAssumption, UpwardsIs
  <2>2. PICK u \in F : \A y \in F : y \subseteq u => y = u
    <3> HIDE DEF F
    <3> QED
      BY <2>1, Minimal
  <2>3. PICK x \in Lost : u = Upwards(x)
    BY <2>2
  <2> DEFINE p == json[x].parent
  <2>4. x \in Upwards(x) /\ x \notin Looping /\ x \notin OneSided
    BY <2>0, <2>3, UpwardsIs
  <2>5. p \in HasJson
    BY <2>3, PrintedIs DEF Roots
  <2>6. x \in json[p].children
    BY <2>3, <2>4, <2>5 DEF OneSided
  <2>7. p \notin Printed
    BY <2>0, <2>3, <2>5, <2>6, PrintedIs DEF Below
  <2>8. Upwards(p) \subseteq Upwards(x)
    <3>1. p \in Upwards(x)
      BY <2>0, <2>4, <2>5, UpwardsIs
    <3> QED
      BY <2>0, <2>3, <2>5, <3>1, UpwardsIs
  <2>9. x \notin Upwards(p)
    BY <2>3, <2>4, <2>5 DEF Looping
  <2>10. p \in Lost
    BY <2>3, <2>5, <2>7, <2>8
  <2> QED
    BY <2>2, <2>3, <2>4, <2>8, <2>9, <2>10
<1> QED
  BY <1>1, PTL
=============================================================================
