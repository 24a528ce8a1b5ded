----------------------------- MODULE ActiveTask -----------------------------
(***************************************************************************)
(* Which task a window of an AI tool works on (common/active_task.py, the  *)
(* start and finish commands of task.py, and the hooks that read it).      *)
(*                                                                         *)
(* A window is known by a context key, and its task is stored in the       *)
(* session file of that key.  A hook gets the key in its payload.  A shell *)
(* command gets it from the environment, or from a ticket that a hook of   *)
(* the window wrote just before it, or not at all.  Commands of several    *)
(* windows overlap, a ticket outlives the command it was written for, and  *)
(* a command can be killed between any two of its steps; a session file    *)
(* that is being rewritten is unreadable for a moment, or for good.        *)
(***************************************************************************)
CONSTANTS
  Window,        \* windows, each standing for its context key as well
  Task,
  NoTask,        \* no task: no session file, or no answer
  Torn,          \* a session file that was truncated and not yet written
  NoKey          \* no identity could be resolved

ASSUME ActiveTaskAssumption ==
  /\ NoTask \notin Task /\ Torn \notin Task /\ Torn # NoTask
  /\ NoKey \notin Window

VARIABLES
  kind,          \* kind[w]: how a shell of w learns its key
  session,       \* session[w]: current_task in the session file of w
  tickets,       \* shell tickets on disk that have not expired
  dirs,          \* tasks whose directory is in place
  asked,         \* asked[w]: tasks w has asked to start so far (history)
  call           \* call[w]: the task.py command of w

vars == <<kind, session, tickets, dirs, asked, call>>

Kinds == {"env", "ticket", "none"}
Idle  == [op |-> "idle", at |-> "end", task |-> NoTask, key |-> NoKey, todo |-> {}]

Init ==
  /\ kind \in [Window -> Kinds]
  /\ session = [w \in Window |-> NoTask]
  /\ tickets = {}
  /\ dirs = Task
  /\ asked = [w \in Window |-> {}]
  /\ call = [w \in Window |-> Idle]

-----------------------------------------------------------------------------
(* Identity and lookup.                                                    *)

\* Mutant: the task of the command is not compared with that of the ticket.
TicketKeysAny(op, t) == {k.key : k \in {x \in tickets : x.op = op}}

\* _lookup_shell_ticket_context_key: the keys of the tickets that match the
\* running command, for start also its task; it must be a single one.
TicketKeys(op, t) ==
  {k.key : k \in {x \in tickets : x.op = op /\ (op = "start" => x.task = t)}}
TicketKey(op, t) ==
  IF \E k \in Window : TicketKeys(op, t) = {k}
  THEN CHOOSE k \in Window : TicketKeys(op, t) = {k} ELSE NoKey

\* resolve_context_key without a payload, as a shell command of w calls it.
ShellKey(w, op, t) == IF kind[w] = "env" THEN w ELSE TicketKey(op, t)

\* resolve_context_key with the payload a hook of w gets.
HookKey(w) == IF kind[w] = "none" THEN NoKey ELSE w

\* Mutant: a file that cannot be read is skipped.
FilesReadable == {w \in Window : session[w] \in Task}

Files == {w \in Window : session[w] # NoTask}

\* resolve_active_task, for a hook, which only looks and in one look: the file
\* of the key, else the only file there is.  finish looks step by step, below.
Nothing == [task |-> NoTask, key |-> NoKey, stale |-> FALSE]
Found(k) == [task |-> session[k], key |-> k, stale |-> session[k] \notin dirs]
Sole == IF \E k \in Files : Files = {k} /\ session[k] \in Task
        THEN Found(CHOOSE k \in Files : Files = {k}) ELSE Nothing
Resolve(k, fallback) ==
  IF k # NoKey /\ session[k] \in Task THEN Found(k)
  ELSE IF fallback THEN Sole ELSE Nothing

-----------------------------------------------------------------------------
(* A window issues a command; the hook of a ticket window announces it.    *)
(* The command runs later: the tool may ask for approval first.            *)

At(w, op, step) == call[w].op = op /\ call[w].at = step
Goto(w, step)   == call' = [call EXCEPT ![w].at = step]
Done(w)         == call' = [call EXCEPT ![w] = Idle]

Issue(w, op, t) ==
  /\ call[w] = Idle
  /\ call' = [call EXCEPT ![w] = [Idle EXCEPT !.op = op, !.at = "issued", !.task = t]]
  /\ tickets' = IF kind[w] = "ticket" /\ op \in {"start", "finish"}
                THEN tickets \cup {[key |-> w, op |-> op, task |-> t]} ELSE tickets
  /\ asked' = IF op = "start" THEN [asked EXCEPT ![w] = @ \cup {t}] ELSE asked
  /\ UNCHANGED <<kind, session, dirs>>

\* A ticket is good for 30 seconds, whether or not a command has used it.
Expire(k) ==
  /\ k \in tickets
  /\ tickets' = tickets \ {k}
  /\ UNCHANGED <<kind, session, dirs, asked, call>>

Killed(w) ==
  /\ call[w] # Idle
  /\ Done(w)
  /\ UNCHANGED <<kind, session, tickets, dirs, asked>>

-----------------------------------------------------------------------------
(* start: resolves the identity twice, first to choose degraded mode, then *)
(* in set_active_task, and rewrites the session file in place.             *)

StartCheck(w) ==
  LET c == call[w] IN
  /\ At(w, "start", "issued")
  /\ IF c.task \in dirs /\ ShellKey(w, "start", c.task) # NoKey
     THEN Goto(w, "key") ELSE Done(w)
  /\ UNCHANGED <<kind, session, tickets, dirs, asked>>

StartKey(w) ==
  LET c == call[w]
      k == ShellKey(w, "start", c.task)
  IN
  /\ At(w, "start", "key")
  /\ IF c.task \in dirs /\ k # NoKey
     THEN call' = [call EXCEPT ![w].at = "truncate", ![w].key = k] ELSE Done(w)
  /\ UNCHANGED <<kind, session, tickets, dirs, asked>>

StartTruncate(w) ==
  /\ At(w, "start", "truncate")
  /\ session' = [session EXCEPT ![call[w].key] = Torn]
  /\ Goto(w, "write")
  /\ UNCHANGED <<kind, tickets, dirs, asked>>

\* What becomes of a file that was truncated when the text is written: nothing
\* when it was deleted meanwhile; and when another command of the key wrote it
\* meanwhile, the rest of a longer text may stay behind the new one.
Overwritten(file, t) ==
  CASE file = NoTask -> {NoTask}
    [] file = Torn   -> {t}
    [] OTHER         -> {t, Torn}

StartWrite(w) ==
  LET k == call[w].key IN
  /\ At(w, "start", "write")
  /\ \E file \in Overwritten(session[k], call[w].task) : session' = [session EXCEPT ![k] = file]
  /\ Done(w)
  /\ UNCHANGED <<kind, tickets, dirs, asked>>

-----------------------------------------------------------------------------
(* finish: needs an identity, resolves it again with the lookup, and       *)
(* deletes the file the lookup found, which may be that of another window  *)
(* and may have been written again since.                                  *)

FinishKey(w) ==
  /\ At(w, "finish", "issued")
  /\ IF ShellKey(w, "finish", NoTask) # NoKey THEN Goto(w, "read") ELSE Done(w)
  /\ UNCHANGED <<kind, session, tickets, dirs, asked>>

\* resolve_active_task, read by read: the file of the key,
FinishRead(w) ==
  LET k   == ShellKey(w, "finish", NoTask)
      own == k # NoKey /\ session[k] \in Task
  IN
  /\ At(w, "finish", "read")
  /\ call' = [call EXCEPT ![w].at  = IF own THEN "unlink" ELSE "glob",
                          ![w].key = IF own THEN k ELSE NoKey]
  /\ UNCHANGED <<kind, session, tickets, dirs, asked>>

\* Mutant: any of several files is taken.
FinishGlobAny(w) ==
  /\ At(w, "finish", "glob")
  /\ IF Files # {}
     THEN call' = [call EXCEPT ![w].at = "sole", ![w].key = CHOOSE k \in Files : TRUE] ELSE Done(w)
  /\ UNCHANGED <<kind, session, tickets, dirs, asked>>

\* then the list of the files, which must be a single one,
FinishGlob(w) ==
  /\ At(w, "finish", "glob")
  /\ \/ \E k \in Files : Files = {k} /\ call' = [call EXCEPT ![w].at = "sole", ![w].key = k]
     \/ (\A k \in Files : Files # {k}) /\ Done(w)
  /\ UNCHANGED <<kind, session, tickets, dirs, asked>>

\* then that file.
FinishSole(w) ==
  /\ At(w, "finish", "sole")
  /\ IF session[call[w].key] \in Task THEN Goto(w, "unlink") ELSE Done(w)
  /\ UNCHANGED <<kind, session, tickets, dirs, asked>>

FinishUnlink(w) ==
  /\ At(w, "finish", "unlink")
  /\ session' = [session EXCEPT ![call[w].key] = NoTask]
  /\ Done(w)
  /\ UNCHANGED <<kind, tickets, dirs, asked>>

-----------------------------------------------------------------------------
(* archive: clear_task_from_sessions lists the files, then reads and, when *)
(* it names the task, deletes each of them; then the directory goes.       *)

\* Mutant: only the file of the window itself is looked at.
ArchiveListOwn(w) ==
  LET c == call[w] IN
  /\ At(w, "archive", "issued")
  /\ IF c.task \in dirs
     THEN call' = [call EXCEPT ![w].at = "scan", ![w].todo = Files \cap {w}] ELSE Done(w)
  /\ UNCHANGED <<kind, session, tickets, dirs, asked>>

ArchiveList(w) ==
  LET c == call[w] IN
  /\ At(w, "archive", "issued")
  /\ IF c.task \in dirs
     THEN call' = [call EXCEPT ![w].at = "scan", ![w].todo = Files] ELSE Done(w)
  /\ UNCHANGED <<kind, session, tickets, dirs, asked>>

ArchiveScan(w) ==
  /\ At(w, "archive", "scan")
  /\ \E k \in call[w].todo :
       call' = [call EXCEPT ![w].todo = @ \ {k}, ![w].key = k,
                            ![w].at = IF session[k] = call[w].task THEN "unlink" ELSE "scan"]
  /\ UNCHANGED <<kind, session, tickets, dirs, asked>>

ArchiveUnlink(w) ==
  /\ At(w, "archive", "unlink")
  /\ session' = [session EXCEPT ![call[w].key] = NoTask]
  /\ Goto(w, "scan")
  /\ UNCHANGED <<kind, tickets, dirs, asked>>

ArchiveMove(w) ==
  /\ At(w, "archive", "scan")
  /\ call[w].todo = {}
  /\ dirs' = dirs \ {call[w].task}
  /\ Done(w)
  /\ UNCHANGED <<kind, session, tickets, asked>>

-----------------------------------------------------------------------------
Issues(w) ==
  \/ \E t \in Task, op \in {"start", "archive"} : Issue(w, op, t)
  \/ Issue(w, "finish", NoTask)

\* The first step of a command, and the steps that follow it.
Begins(w) == StartCheck(w) \/ FinishKey(w) \/ ArchiveList(w)
Goes(w) ==
  \/ StartKey(w) \/ StartTruncate(w) \/ StartWrite(w)
  \/ FinishRead(w) \/ FinishGlob(w) \/ FinishSole(w) \/ FinishUnlink(w)
  \/ ArchiveScan(w) \/ ArchiveUnlink(w) \/ ArchiveMove(w)

Next ==
  \/ \E w \in Window : Issues(w) \/ Begins(w) \/ Goes(w) \/ Killed(w)
  \/ \E k \in tickets : Expire(k)

Spec == Init /\ [][Next]_vars

-----------------------------------------------------------------------------
(* What the hooks make of it.                                              *)

\* inject-workflow-state.py, on every prompt.
PromptTask(w) == Resolve(HookKey(w), TRUE)

\* Mutant: a sub-agent may fall back to the only file there is.
SubagentTaskBorrowed(w) ==
  LET found == Resolve(HookKey(w), TRUE) IN
  IF found.stale THEN NoTask ELSE found.task

\* inject-subagent-context.py on SubagentStart: the parent's session id only,
\* no fallback, and a stale pointer counts as none.
SubagentTask(w) ==
  LET found == Resolve(HookKey(w), FALSE) IN
  IF found.stale THEN NoTask ELSE found.task

-----------------------------------------------------------------------------
(* Properties.                                                             *)

\* The session files as per-window pointers; a torn file is no pointer.
Pointers == INSTANCE SessionPointers
  WITH pointer <- [w \in Window |-> IF session[w] \in Task THEN session[w] ELSE NoTask]

\* The commands a window can have, and the tickets on disk.
Calls ==
  [op: {"idle", "start", "finish", "archive"},
   at: {"end", "issued", "key", "truncate", "write", "read", "glob", "sole", "unlink",
       "scan"},
   task: Task \cup {NoTask}, key: Window \cup {NoKey}, todo: SUBSET Window]
Tickets == [key: Window, op: {"start", "finish"}, task: Task \cup {NoTask}]

\* Every variable has its type.
TypeOK ==
  /\ kind \in [Window -> Kinds]
  /\ session \in [Window -> Task \cup {NoTask, Torn}]
  /\ tickets \subseteq Tickets
  /\ dirs \subseteq Task
  /\ asked \in [Window -> SUBSET Task]
  /\ call \in [Window -> Calls]

\* Whatever overlaps, is killed or expires, the pointer of a window only ever
\* names a task this window asked to start, and a step changes one pointer:
\* a ticket of another window never turns into a task nobody asked for there
\* (active_task.py:412-417, 468-495).
ImplementsPointers == Pointers!Spec

\* A sub-agent is never started on the task of another window: it gets a task
\* its own window asked for and whose directory is in place, or none
\* (inject-subagent-context.py:875-880 "must never borrow").
NativeNeverBorrows ==
  \A w \in Window : SubagentTask(w) # NoTask =>
    SubagentTask(w) \in asked[w] \cap dirs

\* A prompt shows the task of another window only to a window that has no
\* session file at all: while a window rewrites its file, or after a kill has
\* torn it, the unreadable file still keeps the prompt from borrowing
\* (active_task.py:619-655).
NoBorrowWhileWriting ==
  \A w \in Window : kind[w] # "none" /\ PromptTask(w).key \notin {w, NoKey} =>
    session[w] = NoTask
=============================================================================
