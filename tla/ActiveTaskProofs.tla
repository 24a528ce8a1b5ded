-------------------------- MODULE ActiveTaskProofs --------------------------
(***************************************************************************)
(* Proofs about ActiveTask, for any windows and tasks.                     *)
(*                                                                         *)
(* The pointer of a window is written by a command that may belong to      *)
(* another window, under a key that it took from a ticket.  So the         *)
(* invariant follows the task: from the request into the ticket and the    *)
(* command, from there to the key the command resolved, and into the file. *)
(* When commands run one at a time, the invariant also says whose file the *)
(* running command has chosen, and what an archive has still to delete.    *)
(* The last part follows task references through the file system: a        *)
(* reference without ".." that starts in .trellis stays there or leaves    *)
(* the repository, so that what a command stores of it leads back.         *)
(***************************************************************************)
EXTENDS MCActiveTask, FiniteSetTheorems, SequenceTheorems, TLAPS

\* The file of a window names a task this window asked for.
SessionAsked == \A w \in Window : session[w] \in Task => session[w] \in asked[w]

\* A ticket for start names a task the window of the ticket asked for.
TicketAsked == \A x \in tickets : x.op = "start" => x.task \in asked[x.key]

\* A start command carries a task its own window asked for, and once it has
\* chosen a key, a task the window of that key asked for.
CommandAsked ==
  \A w \in Window :
    /\ call[w].op = "start" /\ call[w].at \in {"issued", "key"} => call[w].task \in asked[w]
    /\ call[w].op = "start" /\ call[w].at \in {"truncate", "write"} =>
         call[w].key \in Window /\ call[w].task \in asked[call[w].key]

\* A command about to delete a file has chosen which.
UnlinkHasKey == \A w \in Window : call[w].at \in {"sole", "unlink"} => call[w].key \in Window

IInv == TypeOK /\ SessionAsked /\ TicketAsked /\ CommandAsked /\ UnlinkHasKey

-----------------------------------------------------------------------------
\* What a shell command resolves is its own window, or the window of a ticket
\* for the same task.
LEMMA ShellKeySound ==
  ASSUME TypeOK, NEW w \in Window, NEW t \in Task, ShellKey(w, "start", t) # NoKey
  PROVE  /\ ShellKey(w, "start", t) \in Window
         /\ \/ ShellKey(w, "start", t) = w
            \/ [key |-> ShellKey(w, "start", t), op |-> "start", task |-> t] \in tickets
<1>1. CASE kind[w] = "env"
  BY <1>1 DEF ShellKey
<1>2. CASE kind[w] # "env"
  <2> DEFINE k == TicketKey("start", t)
  <2>1. ShellKey(w, "start", t) = k
    BY <1>2 DEF ShellKey
  <2>2. k \in Window /\ TicketKeys("start", t) = {k}
    BY <2>1 DEF TicketKey
  <2>3. PICK x \in tickets : x.op = "start" /\ x.task = t /\ x.key = k
    BY <2>2 DEF TicketKeys
  <2>4. x = [key |-> k, op |-> "start", task |-> t]
    BY <2>3 DEF TypeOK, Tickets
  <2> QED
    BY <2>1, <2>2, <2>3, <2>4
<1> QED
  BY <1>1, <1>2

\* A lookup that finds a task finds it in the file of a window.
LEMMA ResolveSound ==
  ASSUME NEW k \in Window \cup {NoKey}, NEW fallback \in BOOLEAN,
         Resolve(k, fallback).task # NoTask
  PROVE  /\ Resolve(k, fallback).key \in Window
         /\ Resolve(k, fallback).task = session[Resolve(k, fallback).key]
         /\ Resolve(k, fallback).task \in Task
         /\ Resolve(k, fallback).stale = (Resolve(k, fallback).task \notin dirs)
         /\ ~fallback => Resolve(k, fallback).key = k
<1>1. CASE k # NoKey /\ session[k] \in Task
  BY <1>1 DEF Resolve, Found
<1>2. CASE ~(k # NoKey /\ session[k] \in Task)
  <2>1. fallback /\ Resolve(k, fallback) = Sole
    BY <1>2 DEF Resolve, Nothing
  <2> DEFINE alone == \E j \in Files : Files = {j} /\ session[j] \in Task
  <2>a. ~alone => Sole.task = NoTask
    BY DEF Sole, Nothing
  <2>2. PICK j \in Files : Files = {j} /\ session[j] \in Task
    BY <2>1, <2>a
  <2>3. (CHOOSE i \in Files : Files = {i}) = j
    BY <2>2
  <2>4. Sole = Found(j)
    BY <2>2, <2>3 DEF Sole
  <2>5. j \in Window
    BY <2>2 DEF Files
  <2>6. Resolve(k, fallback) = [task |-> session[j], key |-> j, stale |-> session[j] \notin dirs]
    BY <2>1, <2>4 DEF Found
  <2>7. /\ Resolve(k, fallback).task = session[j]
        /\ Resolve(k, fallback).key = j
        /\ Resolve(k, fallback).stale = (session[j] \notin dirs)
    BY <2>6
  <2> QED
    BY <2>1, <2>2, <2>5, <2>7
<1> QED
  BY <1>1, <1>2

-----------------------------------------------------------------------------
LEMMA IInvInit == Init => IInv
  BY ActiveTaskAssumption
     DEF Init, IInv, TypeOK, Idle, Calls, Tickets, SessionAsked, TicketAsked, CommandAsked,
         UnlinkHasKey

\* A command that chooses a file, and goes on from there, is still a command.
LEMMA ChosenFile ==
  ASSUME NEW c \in Calls, NEW k \in Window, NEW rest \in SUBSET Window,
         NEW step \in {"unlink", "scan"}
  PROVE  /\ [c EXCEPT !.at = "unlink", !.key = k] \in Calls
         /\ [c EXCEPT !.at = "sole", !.key = k] \in Calls
         /\ [c EXCEPT !.at = "glob", !.key = NoKey] \in Calls
         /\ [c EXCEPT !.todo = rest, !.key = k, !.at = step] \in Calls
  BY DEF Calls

\* A text that is written leaves the task, or a file that is none.
LEMMA OverwrittenIs ==
  ASSUME NEW file, NEW t, NEW x \in Overwritten(file, t)
  PROVE  x \in {t, NoTask, Torn} /\ (x = NoTask => file = NoTask \/ t = NoTask)
<1>1. CASE file = NoTask
  BY <1>1 DEF Overwritten
<1>2. CASE file # NoTask
  BY <1>2, ActiveTaskAssumption DEF Overwritten
<1> QED
  BY <1>1, <1>2

\* Every step of a command leaves each variable in its type.
LEMMA TypeStep == IInv /\ [Next]_vars => TypeOK'
<1> SUFFICES ASSUME IInv, [Next]_vars PROVE TypeOK'
  OBVIOUS
<1> USE DEF TypeOK
<1>0. TypeOK
  BY DEF IInv
<1>1. ASSUME NEW w \in Window, Issues(w) PROVE TypeOK'
  <2>1. PICK op \in {"start", "archive", "finish"}, t \in Task \cup {NoTask} :
          Issue(w, op, t) /\ (op = "start" => t \in Task)
    BY <1>1 DEF Issues
  <2> DEFINE c == [Idle EXCEPT !.op = op, !.at = "issued", !.task = t]
  <2>2. c \in Calls
    BY DEF Calls, Idle
  <2>3. call' \in [Window -> Calls]
    BY <1>0, <2>1, <2>2 DEF Issue
  <2>4. [key |-> w, op |-> op, task |-> t] \in Tickets \/ op \notin {"start", "finish"}
    BY <2>1 DEF Tickets
  <2>5. tickets' \subseteq Tickets
    BY <1>0, <2>1, <2>4 DEF Issue
  <2>6. asked' \in [Window -> SUBSET Task]
    BY <1>0, <2>1 DEF Issue
  <2> QED
    BY <1>0, <2>1, <2>3, <2>5, <2>6 DEF Issue
<1>2. ASSUME NEW w \in Window, Begins(w) PROVE TypeOK'
  BY <1>0, <1>2 DEF Calls, Idle, Begins, StartCheck, FinishKey, ArchiveList, Goto, Done, Files
<1>3. ASSUME NEW w \in Window, StartKey(w) PROVE TypeOK'
  <2>1. call[w].task \in asked[w]
    BY <1>3 DEF StartKey, At, IInv, CommandAsked
  <2>2. call[w].task \in Task
    BY <1>0, <2>1
  <2>3. ShellKey(w, "start", call[w].task) # NoKey =>
          ShellKey(w, "start", call[w].task) \in Window
    BY <1>0, <2>2, ShellKeySound
  <2> QED
    BY <1>0, <1>3, <2>3 DEF Calls, Idle, StartKey, Done
<1>4. ASSUME NEW w \in Window, StartTruncate(w) PROVE TypeOK'
  BY <1>0, <1>4, ZenonT(60) DEF Calls, Idle, StartTruncate, Goto
<1>5. ASSUME NEW w \in Window, StartWrite(w) PROVE TypeOK'
  <2>1. PICK x \in Overwritten(session[call[w].key], call[w].task) :
          session' = [session EXCEPT ![call[w].key] = x]
    BY <1>5 DEF StartWrite
  <2>2. call[w].task \in Task
    BY <1>0, <1>5 DEF StartWrite, At, IInv, CommandAsked
  <2>3. x \in Task \cup {NoTask, Torn}
    BY <2>1, <2>2, OverwrittenIs
  <2> QED
    BY <1>0, <1>5, <2>1, <2>3 DEF Calls, Idle, StartWrite, Done
<1>6. ASSUME NEW w \in Window, FinishRead(w) PROVE TypeOK'
  <2> DEFINE k == ShellKey(w, "finish", NoTask)
             own == k # NoKey /\ session[k] \in Task
             c == [call[w] EXCEPT !.at = IF own THEN "unlink" ELSE "glob",
                                  !.key = IF own THEN k ELSE NoKey]
  <2>1. k \in Window \cup {NoKey} /\ call[w] \in Calls
    BY <1>0 DEF ShellKey, TicketKey
  <2>2. call' = [call EXCEPT ![w] = c] /\ UNCHANGED <<kind, session, tickets, dirs, asked>>
    BY <1>0, <1>6 DEF FinishRead
  <2> HIDE DEF k
  <2>3. c \in Calls
    <3>1. CASE own
      BY <2>1, <3>1, ChosenFile
    <3>2. CASE ~own
      BY <2>1, <3>2, ChosenFile
    <3> QED
      BY <3>1, <3>2
  <2> QED
    BY <1>0, <2>2, <2>3
<1>13. ASSUME NEW w \in Window, FinishGlob(w) PROVE TypeOK'
  <2>1. UNCHANGED <<kind, session, tickets, dirs, asked>> /\ call[w] \in Calls
    BY <1>0, <1>13 DEF FinishGlob
  <2>2. CASE Done(w)
    BY <1>0, <2>1, <2>2 DEF Calls, Idle, Done
  <2>3. ASSUME NEW k \in Files, call' = [call EXCEPT ![w].at = "sole", ![w].key = k] PROVE TypeOK'
    <3> DEFINE c == [call[w] EXCEPT !.at = "sole", !.key = k]
    <3>1. c \in Calls
      BY <2>1, ChosenFile DEF Files
    <3>2. call' = [call EXCEPT ![w] = c]
      BY <1>0, <2>3
    <3> QED
      BY <1>0, <2>1, <3>1, <3>2
  <2> QED
    BY <1>13, <2>2, <2>3 DEF FinishGlob
<1>14. ASSUME NEW w \in Window, FinishSole(w) PROVE TypeOK'
  BY <1>0, <1>14 DEF Calls, Idle, FinishSole, Goto, Done
<1>7. ASSUME NEW w \in Window, FinishUnlink(w) PROVE TypeOK'
  BY <1>0, <1>7 DEF Calls, Idle, FinishUnlink, Done
<1>8. ASSUME NEW w \in Window, ArchiveScan(w) PROVE TypeOK'
  <2>1. PICK k \in call[w].todo :
          call' = [call EXCEPT ![w].todo = @ \ {k}, ![w].key = k,
                     ![w].at = IF session[k] = call[w].task THEN "unlink" ELSE "scan"]
    BY <1>8 DEF ArchiveScan
  <2> DEFINE step == IF session[k] = call[w].task THEN "unlink" ELSE "scan"
             rest == call[w].todo \ {k}
             c == [call[w] EXCEPT !.todo = rest, !.key = k, !.at = step]
  <2>2. k \in Window /\ step \in {"unlink", "scan"} /\ rest \in SUBSET Window
    BY <1>0 DEF Calls
  <2>4. call' = [call EXCEPT ![w] = c]
    BY <1>0, <2>1
  <2> HIDE DEF step, rest
  <2>5. call[w] \in Calls
    BY <1>0
  <2>3. c \in Calls
    BY <2>2, <2>5, ChosenFile
  <2> QED
    BY <1>0, <1>8, <2>3, <2>4 DEF ArchiveScan
<1>9. ASSUME NEW w \in Window, ArchiveUnlink(w) PROVE TypeOK'
  BY <1>0, <1>9, ZenonT(60) DEF Calls, Idle, ArchiveUnlink, Goto
<1>10. ASSUME NEW w \in Window, ArchiveMove(w) \/ Killed(w) PROVE TypeOK'
  BY <1>0, <1>10 DEF Calls, Idle, ArchiveMove, Killed, Done
<1>11. ASSUME NEW x \in tickets, Expire(x) PROVE TypeOK'
  BY <1>0, <1>11 DEF Expire
<1>12. CASE UNCHANGED vars
  BY <1>0, <1>12 DEF vars
<1> QED
  BY <1>1, <1>2, <1>3, <1>4, <1>5, <1>6, <1>7, <1>8, <1>9, <1>10, <1>11, <1>12,
     <1>13, <1>14
     DEF Next, Goes

\* What a window has asked for is never forgotten.
LEMMA AskedGrows ==
  ASSUME TypeOK, [Next]_vars, NEW w \in Window
  PROVE  asked[w] \subseteq asked'[w]
<1>1. ASSUME NEW v \in Window, Issues(v) PROVE asked[w] \subseteq asked'[w]
  <2>1. PICK t : asked' = asked \/ asked' = [asked EXCEPT ![v] = @ \cup {t}]
    BY <1>1 DEF Issues, Issue
  <2> QED
    BY <2>1 DEF TypeOK
<1>2. CASE UNCHANGED asked
  BY <1>2
<1> QED
  BY <1>1, <1>2
     DEF Next, Begins, Goes, StartCheck, StartKey, StartTruncate, StartWrite, FinishKey,
         FinishRead, FinishGlob, FinishSole, FinishUnlink, ArchiveList, ArchiveScan, ArchiveUnlink, ArchiveMove,
         Killed, Expire, vars

\* Only the last step of start puts a task into a file.
LEMMA SessionAskedStep == IInv /\ [Next]_vars => SessionAsked'
<1> SUFFICES ASSUME IInv, [Next]_vars PROVE SessionAsked'
  OBVIOUS
<1>0. /\ TypeOK /\ SessionAsked /\ CommandAsked /\ UnlinkHasKey
      /\ \A w \in Window : asked[w] \subseteq asked'[w]
  BY AskedGrows DEF IInv
<1>1. ASSUME NEW w \in Window, StartTruncate(w) PROVE SessionAsked'
  BY <1>0, <1>1, ActiveTaskAssumption
     DEF StartTruncate, At, CommandAsked, SessionAsked, TypeOK
<1>2. ASSUME NEW w \in Window, StartWrite(w) PROVE SessionAsked'
  <2>1. call[w].key \in Window /\ call[w].task \in asked[call[w].key]
    BY <1>0, <1>2 DEF StartWrite, At, CommandAsked
  <2>2. PICK x \in Overwritten(session[call[w].key], call[w].task) :
          session' = [session EXCEPT ![call[w].key] = x]
    BY <1>2 DEF StartWrite
  <2>3. x \in {call[w].task, NoTask, Torn} /\ UNCHANGED asked
    BY <1>2, <2>2, OverwrittenIs DEF StartWrite
  <2> QED
    BY <1>0, <2>1, <2>2, <2>3, ActiveTaskAssumption DEF SessionAsked, TypeOK
<1>3. ASSUME NEW w \in Window, FinishUnlink(w) \/ ArchiveUnlink(w) PROVE SessionAsked'
  BY <1>0, <1>3, ActiveTaskAssumption
     DEF FinishUnlink, ArchiveUnlink, At, UnlinkHasKey, SessionAsked, TypeOK
<1>4. CASE UNCHANGED session
  BY <1>0, <1>4 DEF SessionAsked
<1> QED
  BY <1>1, <1>2, <1>3, <1>4, ZenonT(60)
     DEF Next, Issues, Issue, Begins, Goes, StartCheck, StartKey, FinishKey, FinishRead,
         FinishGlob, FinishSole, ArchiveList, ArchiveScan, ArchiveMove, Killed, Expire, vars

\* A ticket is written by a hook of its window, with the task of the command.
LEMMA TicketAskedStep == IInv /\ [Next]_vars => TicketAsked'
<1> SUFFICES ASSUME IInv, [Next]_vars PROVE TicketAsked'
  OBVIOUS
<1>0. /\ TypeOK /\ TicketAsked
      /\ \A w \in Window : asked[w] \subseteq asked'[w]
  BY AskedGrows DEF IInv
<1>1. \A x \in tickets : x.key \in Window
  BY <1>0 DEF TypeOK, Tickets
<1>2. ASSUME NEW w \in Window, Issues(w) PROVE TicketAsked'
  <2>1. PICK op \in {"start", "archive", "finish"}, t \in Task \cup {NoTask} : Issue(w, op, t)
    BY <1>2 DEF Issues
  <2> DEFINE new == [key |-> w, op |-> op, task |-> t]
  <2>2. tickets' \subseteq tickets \cup {new}
    BY <2>1 DEF Issue
  <2>3. op = "start" => t \in asked'[w]
    BY <1>0, <2>1 DEF Issue, TypeOK
  <2>4. new.op = "start" => new.task \in asked'[new.key]
    BY <2>3
  <2> QED
    BY <1>0, <1>1, <2>2, <2>4 DEF TicketAsked
<1>3. CASE tickets' \subseteq tickets
  BY <1>0, <1>1, <1>3 DEF TicketAsked
<1> QED
  BY <1>2, <1>3
     DEF Next, Begins, Goes, StartCheck, StartKey, StartTruncate, StartWrite, FinishKey,
         FinishRead, FinishGlob, FinishSole, FinishUnlink, ArchiveList, ArchiveScan, ArchiveUnlink, ArchiveMove,
         Killed, Expire, vars

\* What CommandAsked and UnlinkHasKey say of one command.
CommandOK(c, w) ==
  /\ c.op = "start" /\ c.at \in {"issued", "key"} => c.task \in asked[w]
  /\ c.op = "start" /\ c.at \in {"truncate", "write"} => c.key \in Window /\ c.task \in asked[c.key]
  /\ c.at \in {"sole", "unlink"} => c.key \in Window

\* A step changes the command of one window, and a key that a start command
\* takes from a ticket is the key of a window that asked for the same task.
LEMMA CommandStep == IInv /\ [Next]_vars => CommandAsked' /\ UnlinkHasKey'
<1> SUFFICES ASSUME IInv, [Next]_vars PROVE CommandAsked' /\ UnlinkHasKey'
  OBVIOUS
<1>0. /\ TypeOK /\ TicketAsked /\ TypeOK'
      /\ \A w \in Window : asked[w] \subseteq asked'[w]
      /\ \A w \in Window : CommandOK(call[w], w)
  BY AskedGrows, TypeStep DEF IInv, CommandAsked, UnlinkHasKey, CommandOK
<1>a. SUFFICES \A v \in Window : CommandOK(call[v], v)'
  BY DEF CommandAsked, UnlinkHasKey, CommandOK
<1>b. ASSUME NEW w \in Window, CommandOK(call[w], w)',
             \A v \in Window \ {w} : call'[v] = call[v]
      PROVE  \A v \in Window : CommandOK(call[v], v)'
  BY <1>0, <1>b DEF CommandOK
<1>c. ASSUME NEW w \in Window, call' = [call EXCEPT ![w] = Idle]
      PROVE  CommandOK(call[w], w)' /\ \A v \in Window \ {w} : call'[v] = call[v]
  BY <1>0, <1>c DEF TypeOK, Idle, CommandOK
<1>d. ASSUME NEW w \in Window, NEW step \in {"key", "truncate", "write", "read", "scan", "unlink"},
             call' = [call EXCEPT ![w].at = step]
      PROVE  /\ call'[w].at = step /\ call'[w].op = call[w].op
             /\ call'[w].task = call[w].task /\ call'[w].key = call[w].key
             /\ \A v \in Window \ {w} : call'[v] = call[v]
  BY <1>0, <1>d DEF TypeOK, Calls
<1>1. ASSUME NEW w \in Window, Issues(w) PROVE \A v \in Window : CommandOK(call[v], v)'
  <2>1. PICK op \in {"start", "archive", "finish"}, t \in Task \cup {NoTask} : Issue(w, op, t)
    BY <1>1 DEF Issues
  <2>2. call'[w] = [Idle EXCEPT !.op = op, !.at = "issued", !.task = t]
        /\ \A v \in Window \ {w} : call'[v] = call[v]
    BY <1>0, <2>1 DEF Issue, TypeOK
  <2>3. call'[w].op = op /\ call'[w].at = "issued" /\ call'[w].task = t
    BY <2>2 DEF Idle
  <2>4. op = "start" => t \in asked'[w]
    BY <1>0, <2>1 DEF Issue, TypeOK
  <2> QED
    BY <1>b, <2>2, <2>3, <2>4 DEF CommandOK
<1>2. ASSUME NEW w \in Window, StartCheck(w) PROVE \A v \in Window : CommandOK(call[v], v)'
  <2>1. CASE Goto(w, "key")
    BY <1>0, <1>2, <1>b, <1>d, <2>1 DEF Goto, StartCheck, At, CommandOK
  <2>2. CASE Done(w)
    BY <1>b, <1>c, <2>2 DEF Done
  <2> QED
    BY <1>2, <2>1, <2>2 DEF StartCheck
<1>3. ASSUME NEW w \in Window, StartKey(w) PROVE \A v \in Window : CommandOK(call[v], v)'
  <2> DEFINE t == call[w].task
             k == ShellKey(w, "start", t)
  <2>1. t \in asked[w] /\ UNCHANGED asked
    BY <1>0, <1>3 DEF StartKey, At, CommandOK
  <2>2. t \in Task
    BY <1>0, <2>1 DEF TypeOK
  <2>3. k # NoKey => k \in Window /\ t \in asked[k]
    BY <1>0, <2>1, <2>2, ShellKeySound DEF TicketAsked
  <2>4. \/ k # NoKey /\ call' = [call EXCEPT ![w].at = "truncate", ![w].key = k]
        \/ Done(w)
    BY <1>3 DEF StartKey
  <2> HIDE DEF k
  <2>5. CASE k # NoKey /\ call' = [call EXCEPT ![w].at = "truncate", ![w].key = k]
    <3>1. /\ call'[w].at = "truncate" /\ call'[w].key = k /\ call'[w].task = t
          /\ \A v \in Window \ {w} : call'[v] = call[v]
      BY <1>0, <2>5 DEF TypeOK, Calls
    <3> QED
      BY <1>b, <2>1, <2>3, <2>5, <3>1 DEF CommandOK
  <2>6. CASE Done(w)
    BY <1>b, <1>c, <2>6 DEF Done
  <2> QED
    BY <2>4, <2>5, <2>6
<1>4. ASSUME NEW w \in Window, StartTruncate(w) PROVE \A v \in Window : CommandOK(call[v], v)'
  BY <1>0, <1>4, <1>b, <1>d DEF StartTruncate, Goto, At, CommandOK
<1>5. ASSUME NEW w \in Window, StartWrite(w) \/ FinishUnlink(w) \/ ArchiveMove(w) \/ Killed(w)
      PROVE  \A v \in Window : CommandOK(call[v], v)'
  BY <1>5, <1>b, <1>c DEF StartWrite, FinishUnlink, ArchiveMove, Killed, Done
<1>6. ASSUME NEW w \in Window, FinishKey(w) PROVE \A v \in Window : CommandOK(call[v], v)'
  <2>1. CASE Goto(w, "read")
    BY <1>0, <1>6, <1>b, <1>d, <2>1 DEF Goto, FinishKey, At, CommandOK
  <2>2. CASE Done(w)
    BY <1>b, <1>c, <2>2 DEF Done
  <2> QED
    BY <1>6, <2>1, <2>2 DEF FinishKey
<1>7. ASSUME NEW w \in Window, FinishRead(w) PROVE \A v \in Window : CommandOK(call[v], v)'
  <2> DEFINE k == ShellKey(w, "finish", NoTask)
             own == k # NoKey /\ session[k] \in Task
  <2>1. k \in Window \cup {NoKey}
    BY DEF ShellKey, TicketKey
  <2>2. /\ call[w].op = "finish"
        /\ call' = [call EXCEPT ![w].at = IF own THEN "unlink" ELSE "glob",
                                ![w].key = IF own THEN k ELSE NoKey]
    BY <1>7 DEF FinishRead, At
  <2> HIDE DEF k
  <2>3. /\ call'[w].op = "finish" /\ call'[w].at \in {"unlink", "glob"}
        /\ call'[w].at = "unlink" => call'[w].key \in Window
        /\ \A v \in Window \ {w} : call'[v] = call[v]
    BY <1>0, <2>1, <2>2 DEF TypeOK, Calls
  <2> QED
    BY <1>b, <2>3 DEF CommandOK
<1>12. ASSUME NEW w \in Window, FinishGlob(w) PROVE \A v \in Window : CommandOK(call[v], v)'
  <2>1. ASSUME NEW k \in Files, call' = [call EXCEPT ![w].at = "sole", ![w].key = k]
        PROVE  \A v \in Window : CommandOK(call[v], v)'
    <3>1. /\ call'[w].at = "sole" /\ call'[w].key \in Window
          /\ \A v \in Window \ {w} : call'[v] = call[v]
      BY <1>0, <2>1 DEF TypeOK, Calls, Files
    <3> QED
      BY <1>b, <3>1 DEF CommandOK
  <2>2. CASE Done(w)
    BY <1>b, <1>c, <2>2 DEF Done
  <2> QED
    BY <1>12, <2>1, <2>2 DEF FinishGlob
<1>13. ASSUME NEW w \in Window, FinishSole(w) PROVE \A v \in Window : CommandOK(call[v], v)'
  <2>1. CASE Goto(w, "unlink")
    BY <1>0, <1>13, <1>b, <1>d, <2>1 DEF Goto, FinishSole, At, CommandOK
  <2>2. CASE Done(w)
    BY <1>b, <1>c, <2>2 DEF Done
  <2> QED
    BY <1>13, <2>1, <2>2 DEF FinishSole
<1>8. ASSUME NEW w \in Window, ArchiveList(w) PROVE \A v \in Window : CommandOK(call[v], v)'
  <2>1. CASE call' = [call EXCEPT ![w].at = "scan", ![w].todo = Files]
    <3>1. /\ call'[w].at = "scan" /\ \A v \in Window \ {w} : call'[v] = call[v]
      BY <1>0, <2>1 DEF TypeOK, Calls
    <3> QED
      BY <1>b, <3>1 DEF CommandOK
  <2>2. CASE Done(w)
    BY <1>b, <1>c, <2>2 DEF Done
  <2> QED
    BY <1>8, <2>1, <2>2 DEF ArchiveList
<1>9. ASSUME NEW w \in Window, ArchiveScan(w) PROVE \A v \in Window : CommandOK(call[v], v)'
  <2>1. PICK k \in call[w].todo :
          call' = [call EXCEPT ![w].todo = @ \ {k}, ![w].key = k,
                     ![w].at = IF session[k] = call[w].task THEN "unlink" ELSE "scan"]
    BY <1>9 DEF ArchiveScan
  <2>2. k \in Window
    BY <1>0 DEF TypeOK, Calls
  <2>3. /\ call'[w].at \in {"unlink", "scan"} /\ call'[w].key = k
        /\ \A v \in Window \ {w} : call'[v] = call[v]
    BY <1>0, <2>1 DEF TypeOK, Calls
  <2> QED
    BY <1>b, <2>2, <2>3 DEF CommandOK
<1>10. ASSUME NEW w \in Window, ArchiveUnlink(w) PROVE \A v \in Window : CommandOK(call[v], v)'
  BY <1>0, <1>10, <1>b, <1>d DEF ArchiveUnlink, Goto, At, CommandOK
<1>11. CASE UNCHANGED call
  BY <1>0, <1>11 DEF CommandOK
<1> QED
  BY <1>1, <1>2, <1>3, <1>4, <1>5, <1>6, <1>7, <1>8, <1>9, <1>10, <1>11, <1>12,
     <1>13
     DEF Next, Begins, Goes, Expire, vars

LEMMA IInvStep == IInv /\ [Next]_vars => IInv'
  BY TypeStep, SessionAskedStep, TicketAskedStep, CommandStep DEF IInv

\* In every behaviour the task is followed from the request to the file.
LEMMA IInvAlways == Spec => []IInv
  BY IInvInit, IInvStep, PTL DEF Spec

-----------------------------------------------------------------------------
\* A sub-agent gets a task that its own window asked for and whose directory
\* is in place, or none, whatever tickets, kills and other windows do
\* (inject-subagent-context.py _handle_codex_subagent_start).
THEOREM SubagentsNeverBorrow == Spec => []NativeNeverBorrows
<1>1. IInv => NativeNeverBorrows
  <2> SUFFICES ASSUME IInv, NEW w \in Window, SubagentTask(w) # NoTask
               PROVE  SubagentTask(w) \in asked[w] \cap dirs
    BY DEF NativeNeverBorrows
  <2> DEFINE found == Resolve(HookKey(w), FALSE)
  <2>1. SubagentTask(w) = found.task /\ ~found.stale /\ found.task # NoTask
    BY DEF SubagentTask
  <2>2. HookKey(w) \in {w, NoKey}
    BY DEF HookKey
  <2>3. /\ found.key \in Window /\ found.task = session[found.key] /\ found.task \in Task
        /\ found.stale = (found.task \notin dirs) /\ found.key = HookKey(w)
    BY <2>1, <2>2, ResolveSound
  <2>4. found.key = w
    BY <2>2, <2>3, ActiveTaskAssumption
  <2> QED
    BY <2>1, <2>3, <2>4 DEF IInv, SessionAsked
<1> QED
  BY <1>1, IInvAlways, PTL

\* A window that is shown the task of another one has no session file of its
\* own, not even a torn one (active_task.py resolve_active_task).
THEOREM TornFilesKeepTheirWindow == Spec => []NoBorrowWhileWriting
<1>1. IInv => NoBorrowWhileWriting
  <2> SUFFICES ASSUME NEW w \in Window, kind[w] # "none", PromptTask(w).key \notin {w, NoKey}
               PROVE  session[w] = NoTask
    BY DEF NoBorrowWhileWriting
  <2>1. HookKey(w) = w
    BY DEF HookKey
  <2>2. CASE session[w] \in Task
    BY <2>1, <2>2, ActiveTaskAssumption DEF PromptTask, Resolve, Found
  <2>3. CASE session[w] \notin Task
    <3>1. PromptTask(w) = Sole
      BY <2>1, <2>3 DEF PromptTask, Resolve
    <3> DEFINE alone == \E j \in Files : Files = {j} /\ session[j] \in Task
    <3>2. ~alone => Sole.key = NoKey
      BY DEF Sole, Nothing
    <3>3. PICK j \in Files : Files = {j} /\ session[j] \in Task
      BY <3>1, <3>2
    <3> QED
      BY <2>3, <3>3 DEF Files
  <2> QED
    BY <2>2, <2>3
<1> QED
  BY <1>1, IInvAlways, PTL

\* The pointers that the session files stand for.
LEMMA PointerInit == Init => Pointers!Init
  BY ActiveTaskAssumption DEF Init, Pointers!Init

\* The pointers after a step that puts a value into the file of one window.
LEMMA PointerChange ==
  ASSUME TypeOK, NEW k \in Window, NEW x, session' = [session EXCEPT ![k] = x]
  PROVE  [w \in Window |-> IF session'[w] \in Task THEN session'[w] ELSE NoTask]
       = [[w \in Window |-> IF session[w] \in Task THEN session[w] ELSE NoTask]
            EXCEPT ![k] = IF x \in Task THEN x ELSE NoTask]
  BY DEF TypeOK

\* A request is asked for, the last step of start sets the pointer of the key
\* it chose, a torn or deleted file clears one, and nothing else shows.
LEMMA PointerStep == IInv /\ [Next]_vars => [Pointers!Next]_(Pointers!vars)
<1> SUFFICES ASSUME IInv, [Next]_vars PROVE [Pointers!Next]_(Pointers!vars)
  OBVIOUS
<1>0. TypeOK /\ CommandAsked /\ UnlinkHasKey
  BY DEF IInv
<1>1. ASSUME NEW w \in Window, Issues(w) PROVE [Pointers!Next]_(Pointers!vars)
  <2>1. PICK op \in {"start", "archive", "finish"}, t \in Task \cup {NoTask} :
          Issue(w, op, t) /\ (op = "start" => t \in Task)
    BY <1>1 DEF Issues
  <2>2. CASE op = "start"
    <3>1. t \in Task /\ asked' = [asked EXCEPT ![w] = @ \cup {t}] /\ UNCHANGED session
      BY <2>1, <2>2 DEF Issue
    <3>2. Pointers!Ask(w, t)
      BY <3>1 DEF Pointers!Ask
    <3> QED
      BY <3>1, <3>2 DEF Pointers!Next
  <2>3. CASE op # "start"
    BY <2>1, <2>3 DEF Issue, Pointers!vars
  <2> QED
    BY <2>2, <2>3
<1>2. ASSUME NEW k \in Window, NEW x \in {NoTask, Torn}, UNCHANGED asked,
             session' = [session EXCEPT ![k] = x]
      PROVE  [Pointers!Next]_(Pointers!vars)
  <2>1. Pointers!Clear(k)
    BY <1>0, <1>2, PointerChange, ActiveTaskAssumption DEF Pointers!Clear
  <2> QED
    BY <2>1 DEF Pointers!Next
<1>3. ASSUME NEW w \in Window, StartTruncate(w) PROVE [Pointers!Next]_(Pointers!vars)
  BY <1>0, <1>2, <1>3 DEF StartTruncate, At, CommandAsked
<1>a. ASSUME NEW k \in Window, NEW t \in asked[k], UNCHANGED asked,
             session' = [session EXCEPT ![k] = t]
      PROVE  [Pointers!Next]_(Pointers!vars)
  <2>1. t \in Task
    BY <1>0 DEF TypeOK
  <2>2. Pointers!Set(k)
    BY <1>0, <1>a, <2>1, PointerChange DEF Pointers!Set
  <2> QED
    BY <2>2 DEF Pointers!Next
<1>4. ASSUME NEW w \in Window, StartWrite(w) PROVE [Pointers!Next]_(Pointers!vars)
  <2>1. call[w].key \in Window /\ call[w].task \in asked[call[w].key] /\ UNCHANGED asked
    BY <1>0, <1>4 DEF StartWrite, At, CommandAsked
  <2>2. PICK x \in Overwritten(session[call[w].key], call[w].task) :
          session' = [session EXCEPT ![call[w].key] = x]
    BY <1>4 DEF StartWrite
  <2>3. x = call[w].task \/ x \in {NoTask, Torn}
    BY <2>2, OverwrittenIs
  <2> QED
    BY <1>2, <1>a, <2>1, <2>2, <2>3
<1>5. ASSUME NEW w \in Window, FinishUnlink(w) \/ ArchiveUnlink(w)
      PROVE  [Pointers!Next]_(Pointers!vars)
  BY <1>0, <1>2, <1>5 DEF FinishUnlink, ArchiveUnlink, At, UnlinkHasKey
<1>6. CASE UNCHANGED <<session, asked>>
  BY <1>6 DEF Pointers!vars
<1> QED
  BY <1>1, <1>3, <1>4, <1>5, <1>6
     DEF Next, Begins, Goes, StartCheck, StartKey, FinishKey, FinishRead,
         FinishGlob, FinishSole, ArchiveList, ArchiveScan, ArchiveMove, Killed, Expire, vars

\* Tickets, kills, torn files and overlapping commands of other windows add up
\* to pointers that each belong to a window and follow its own requests: the
\* session files implement SessionPointers.
THEOREM PointersImplemented == Spec => ImplementsPointers
<1>1. Init => Pointers!Init
  BY PointerInit
<1>2. IInv /\ [Next]_vars => [Pointers!Next]_(Pointers!vars)
  BY PointerStep
<1> QED
  BY <1>1, <1>2, IInvAlways, PTL DEF Spec, ImplementsPointers, Pointers!Spec

-----------------------------------------------------------------------------
(***************************************************************************)
(* The behaviours in which commands run one at a time.  The invariant says *)
(* how far the running command has come with the file that it will write   *)
(* or delete.                                                              *)
(***************************************************************************)

Waits(c) == c.at \in {"end", "issued"}

\* One command runs at most.
InTurn == \A v, w \in Window : ~Waits(call[v]) /\ ~Waits(call[w]) => v = w

\* The key that a command of v has found is its own, or comes from a ticket.
OwnKey(v, k) == k = v \/ kind[k] = "ticket"

\* A start has found a task that is there, a finish a file of its window or the
\* only one there is, an archive all files that point to its task.
Chosen(c, v) ==
  /\ c.op = "archive" /\ c.at # "end" => c.task \in Task
  /\ c.op = "start" /\ c.at \in {"truncate", "write"} => c.task \in dirs /\ OwnKey(v, c.key)
  /\ c.op = "finish" /\ c.at = "sole" => Files = {c.key}
  /\ c.op = "finish" /\ c.at = "unlink" => OwnKey(v, c.key) \/ Files = {c.key}
  /\ c.op = "archive" /\ c.at \in {"scan", "unlink"} =>
       \A k \in Window : session[k] = c.task => k \in c.todo \/ (c.at = "unlink" /\ k = c.key)
  /\ c.op = "archive" /\ c.at = "unlink" => session[c.key] = c.task

\* Only a window that is announced by tickets has tickets.
TicketKinds == \A x \in tickets : kind[x.key] = "ticket"

NoDangling == \A w \in Window : session[w] \in Task => session[w] \in dirs

TurnInv == InTurn /\ NoDangling /\ TicketKinds /\ \A v \in Window : Chosen(call[v], v)

SerialInv == IInv /\ (serial => TurnInv)

LEMMA KeyOwn ==
  ASSUME TypeOK, TicketKinds, NEW w \in Window, NEW op, NEW t, ShellKey(w, op, t) # NoKey
  PROVE  ShellKey(w, op, t) \in Window /\ OwnKey(w, ShellKey(w, op, t))
<1>1. CASE kind[w] = "env"
  BY <1>1 DEF ShellKey, OwnKey
<1>2. CASE kind[w] # "env"
  <2> DEFINE k == TicketKey(op, t)
  <2>1. ShellKey(w, op, t) = k
    BY <1>2 DEF ShellKey
  <2>2. k \in Window /\ TicketKeys(op, t) = {k}
    BY <2>1 DEF TicketKey
  <2>3. PICK x \in tickets : x.key = k
    BY <2>2 DEF TicketKeys
  <2> QED
    BY <2>1, <2>2, <2>3 DEF TicketKinds, OwnKey
<1> QED
  BY <1>1, <1>2

\* A step of the only command that runs, or that begins.
LEMMA TurnStep ==
  ASSUME TurnInv, NEW w \in Window, \A v \in Window \ {w} : Waits(call[v]) /\ call'[v] = call[v],
         NoDangling', TicketKinds', Chosen(call[w], w)'
  PROVE  TurnInv'
<1>1. InTurn'
  BY DEF InTurn
<1>2. \A v \in Window \ {w} : Chosen(call[v], v)'
  BY DEF TurnInv, Chosen, Waits
<1> QED
  BY <1>1, <1>2 DEF TurnInv

\* A command that is issued, or killed, beside the one that runs.
LEMMA TurnBeside ==
  ASSUME TurnInv, NEW w \in Window, UNCHANGED <<kind, session, dirs>>,
         \A v \in Window \ {w} : call'[v] = call[v], Waits(call'[w]),
         TicketKinds', call'[w].op = "archive" /\ call'[w].at # "end" => call'[w].task \in Task
  PROVE  TurnInv'
<1>1. InTurn'
  BY DEF TurnInv, InTurn
<1>2. NoDangling'
  BY DEF TurnInv, NoDangling
<1>3. \A v \in Window : Chosen(call[v], v)'
  BY DEF TurnInv, Chosen, Waits, OwnKey, Files
<1> QED
  BY <1>1, <1>2, <1>3 DEF TurnInv

LEMMA Alone ==
  ASSUME TurnInv, NEW w \in Window, ~Waits(call[w]) PROVE \A v \in Window \ {w} : Waits(call[v])
BY DEF TurnInv, InTurn

\* The command of w after a step.
LEMMA GotoIs ==
  ASSUME TypeOK, NEW w \in Window, NEW at, Goto(w, at)
  PROVE  /\ call'[w].at = at /\ call'[w].op = call[w].op /\ call'[w].task = call[w].task
         /\ call'[w].key = call[w].key /\ call'[w].todo = call[w].todo
         /\ \A v \in Window \ {w} : call'[v] = call[v]
<1>1. call \in [Window -> Calls] /\ call[w] \in Calls
  BY DEF TypeOK
<1> QED
  BY <1>1 DEF Goto, Calls

LEMMA DoneIs ==
  ASSUME TypeOK, NEW w \in Window, Done(w)
  PROVE  call'[w] = Idle /\ \A v \in Window \ {w} : call'[v] = call[v]
BY DEF Done, TypeOK

LEMMA IdleWaits == Waits(Idle) /\ Idle.at = "end" /\ Idle.op = "idle" /\ Idle.task = NoTask
BY DEF Idle, Waits

\* A command that ends, with what it leaves.
LEMMA TurnDone ==
  ASSUME TypeOK, TurnInv, NEW w \in Window, \A v \in Window \ {w} : Waits(call[v]), Done(w),
         NoDangling', UNCHANGED <<kind, tickets>>
  PROVE  TurnInv'
<1>1. call'[w] = Idle /\ \A v \in Window \ {w} : call'[v] = call[v]
  BY DoneIs
<1>2. Chosen(call[w], w)'
  BY <1>1, IdleWaits DEF Chosen
<1>3. TicketKinds'
  BY DEF TurnInv, TicketKinds
<1> QED
  BY <1>1, <1>2, <1>3, TurnStep

-----------------------------------------------------------------------------
LEMMA IssueTurns ==
  ASSUME TypeOK, TurnInv, NEW w \in Window, Issues(w) PROVE TurnInv'
<1>1. PICK op \in {"start", "archive", "finish"}, t \in Task \cup {NoTask} :
        Issue(w, op, t) /\ (op # "finish" => t \in Task)
  BY DEF Issues
<1>2. /\ call'[w] = [Idle EXCEPT !.op = op, !.at = "issued", !.task = t]
      /\ \A v \in Window \ {w} : call'[v] = call[v]
      /\ UNCHANGED <<kind, session, dirs>>
  BY <1>1 DEF Issue, TypeOK
<1>3. call'[w].at = "issued" /\ call'[w].op = op /\ call'[w].task = t
  BY <1>2 DEF Idle
<1>4. TicketKinds'
  BY <1>1 DEF Issue, TurnInv, TicketKinds
<1> QED
  BY <1>1, <1>2, <1>3, <1>4, TurnBeside DEF Waits

LEMMA KilledTurns ==
  ASSUME TypeOK, TurnInv, NEW w \in Window, Killed(w) PROVE TurnInv'
<1>1. Done(w) /\ UNCHANGED <<kind, session, tickets, dirs>>
  BY DEF Killed
<1>2. call'[w] = Idle /\ \A v \in Window \ {w} : call'[v] = call[v]
  BY <1>1, DoneIs
<1>3. TicketKinds'
  BY <1>1 DEF TurnInv, TicketKinds
<1> QED
  BY <1>1, <1>2, <1>3, IdleWaits, TurnBeside

LEMMA ExpireTurns ==
  ASSUME TurnInv, NEW x \in tickets, Expire(x) PROVE TurnInv'
BY DEF Expire, TurnInv, InTurn, NoDangling, TicketKinds, Chosen, OwnKey, Files

LEMMA BeginsTurns ==
  ASSUME TypeOK, TurnInv, NEW w \in Window, \A v \in Window : Waits(call[v]), Begins(w)
  PROVE  TurnInv'
<1>1. UNCHANGED <<kind, session, tickets, dirs>>
  BY DEF Begins, StartCheck, FinishKey, ArchiveList
<1>2. NoDangling' /\ TicketKinds'
  BY <1>1 DEF TurnInv, NoDangling, TicketKinds
<1>3. CASE Done(w)
  BY <1>1, <1>2, <1>3, TurnDone
<1>4. CASE (call[w].op = "start" /\ Goto(w, "key")) \/ (call[w].op = "finish" /\ Goto(w, "read"))
  <2>1. /\ \A v \in Window \ {w} : call'[v] = call[v]
        /\ call'[w].op \in {"start", "finish"} /\ call'[w].at \in {"key", "read"}
    BY <1>4, GotoIs
  <2> QED
    BY <1>2, <2>1, TurnStep DEF Chosen
<1>5. CASE /\ At(w, "archive", "issued")
           /\ call' = [call EXCEPT ![w].at = "scan", ![w].todo = Files]
  <2>1. /\ call'[w].op = "archive" /\ call'[w].at = "scan" /\ call'[w].todo = Files
        /\ call'[w].task = call[w].task /\ call[w].task \in Task
        /\ \A v \in Window \ {w} : call'[v] = call[v]
    BY <1>5 DEF TypeOK, Calls, At, TurnInv, Chosen
  <2>2. \A k \in Window : session[k] \in Task => k \in Files
    BY ActiveTaskAssumption DEF Files
  <2>3. Chosen(call[w], w)'
    BY <1>1, <2>1, <2>2 DEF Chosen
  <2> QED
    BY <1>2, <2>1, <2>3, TurnStep
<1> QED
  BY <1>3, <1>4, <1>5 DEF Begins, StartCheck, FinishKey, ArchiveList, At

LEMMA StartTurns ==
  ASSUME IInv, TurnInv, NEW w \in Window, StartKey(w) \/ StartTruncate(w) \/ StartWrite(w)
  PROVE  TurnInv'
<1> DEFINE c == call[w]
<1>0. TypeOK /\ c.op = "start" /\ ~Waits(c) /\ \A v \in Window \ {w} : Waits(call[v])
  <2>1. TypeOK /\ c.op = "start" /\ ~Waits(c)
    BY DEF IInv, StartKey, StartTruncate, StartWrite, At, Waits
  <2> QED
    BY <2>1, Alone
<1>1. UNCHANGED <<kind, tickets, dirs>> /\ TicketKinds'
  BY DEF StartKey, StartTruncate, StartWrite, TurnInv, TicketKinds
<1>2. CASE StartKey(w)
  <2> DEFINE k == ShellKey(w, "start", c.task)
  <2>1. NoDangling'
    BY <1>2 DEF StartKey, TurnInv, NoDangling
  <2>2. CASE Done(w)
    BY <1>0, <1>1, <2>1, <2>2, TurnDone
  <2>3. CASE c.task \in dirs /\ k # NoKey /\ call' = [call EXCEPT ![w].at = "truncate", ![w].key = k]
    <3>1. OwnKey(w, k)
      BY <1>0, <2>3, KeyOwn DEF TurnInv
    <3> HIDE DEF k
    <3>2. /\ call'[w].op = "start" /\ call'[w].at = "truncate" /\ call'[w].key = k
          /\ call'[w].task = c.task /\ \A v \in Window \ {w} : call'[v] = call[v]
      BY <1>0, <2>3 DEF TypeOK, Calls
    <3>3. Chosen(call[w], w)'
      BY <1>1, <2>3, <3>1, <3>2 DEF Chosen, OwnKey
    <3> QED
      BY <1>0, <1>1, <2>1, <3>2, <3>3, TurnStep
  <2> QED
    BY <1>2, <2>2, <2>3 DEF StartKey
<1>3. CASE StartTruncate(w)
  <2>1. c.at = "truncate" /\ session' = [session EXCEPT ![c.key] = Torn] /\ Goto(w, "write")
    BY <1>3 DEF StartTruncate, At
  <2>2. c.task \in dirs /\ OwnKey(w, c.key)
    BY <1>0, <2>1 DEF TurnInv, Chosen
  <2>3. NoDangling'
    BY <1>0, <1>1, <2>1, ActiveTaskAssumption DEF TurnInv, NoDangling, TypeOK
  <2>4. /\ call'[w].op = "start" /\ call'[w].at = "write" /\ call'[w].key = c.key
        /\ call'[w].task = c.task /\ \A v \in Window \ {w} : call'[v] = call[v]
    BY <1>0, <2>1, GotoIs
  <2>5. Chosen(call[w], w)'
    BY <1>1, <2>2, <2>4 DEF Chosen, OwnKey
  <2> QED
    BY <1>0, <1>1, <2>3, <2>4, <2>5, TurnStep
<1>4. CASE StartWrite(w)
  <2>0. PICK x \in Overwritten(session[c.key], c.task) : session' = [session EXCEPT ![c.key] = x]
    BY <1>4 DEF StartWrite
  <2>1. c.at = "write" /\ x \in {c.task, NoTask, Torn} /\ Done(w)
    BY <1>4, <2>0, OverwrittenIs DEF StartWrite, At
  <2>2. c.task \in dirs
    BY <1>0, <2>1 DEF TurnInv, Chosen
  <2>3. NoDangling'
    BY <1>0, <1>1, <2>0, <2>1, <2>2, ActiveTaskAssumption DEF TurnInv, NoDangling, TypeOK
  <2> QED
    BY <1>0, <1>1, <2>1, <2>3, TurnDone
<1> QED
  BY <1>2, <1>3, <1>4

LEMMA FinishTurns ==
  ASSUME IInv, TurnInv, NEW w \in Window,
         FinishRead(w) \/ FinishGlob(w) \/ FinishSole(w) \/ FinishUnlink(w)
  PROVE  TurnInv'
<1> DEFINE c == call[w]
<1>0. TypeOK /\ c.op = "finish" /\ ~Waits(c) /\ \A v \in Window \ {w} : Waits(call[v])
  <2>1. TypeOK /\ c.op = "finish" /\ ~Waits(c)
    BY DEF IInv, FinishRead, FinishGlob, FinishSole, FinishUnlink, At, Waits
  <2> QED
    BY <2>1, Alone
<1>1. UNCHANGED <<kind, tickets, dirs>> /\ TicketKinds'
  BY DEF FinishRead, FinishGlob, FinishSole, FinishUnlink, TurnInv, TicketKinds
<1>2. CASE FinishRead(w)
  <2> DEFINE k == ShellKey(w, "finish", NoTask)
             own == k # NoKey /\ session[k] \in Task
  <2>1. NoDangling' /\ UNCHANGED session
    BY <1>2 DEF FinishRead, TurnInv, NoDangling
  <2>2. call' = [call EXCEPT ![w].at = IF own THEN "unlink" ELSE "glob",
                             ![w].key = IF own THEN k ELSE NoKey]
    BY <1>2 DEF FinishRead
  <2>3. k # NoKey => OwnKey(w, k)
    BY <1>0, KeyOwn DEF TurnInv
  <2> HIDE DEF k
  <2>4. /\ call'[w].op = "finish" /\ call'[w].at \in {"unlink", "glob"}
        /\ call'[w].at = "unlink" => k # NoKey /\ call'[w].key = k
        /\ \A v \in Window \ {w} : call'[v] = call[v]
    BY <1>0, <2>2 DEF TypeOK, Calls
  <2>5. Chosen(call[w], w)'
    BY <1>1, <2>3, <2>4 DEF Chosen, OwnKey
  <2> QED
    BY <1>0, <1>1, <2>1, <2>4, <2>5, TurnStep
<1>4. CASE FinishGlob(w)
  <2>1. NoDangling' /\ UNCHANGED session
    BY <1>4 DEF FinishGlob, TurnInv, NoDangling
  <2>2. CASE Done(w)
    BY <1>0, <1>1, <2>1, <2>2, TurnDone
  <2>3. ASSUME NEW k \in Files, Files = {k}, call' = [call EXCEPT ![w].at = "sole", ![w].key = k]
        PROVE  TurnInv'
    <3>1. /\ call'[w].op = "finish" /\ call'[w].at = "sole" /\ call'[w].key = k
          /\ \A v \in Window \ {w} : call'[v] = call[v]
      BY <1>0, <2>3 DEF TypeOK, Calls
    <3>2. Chosen(call[w], w)'
      BY <2>1, <2>3, <3>1 DEF Chosen, Files
    <3> QED
      BY <1>0, <1>1, <2>1, <3>1, <3>2, TurnStep
  <2> QED
    BY <1>4, <2>2, <2>3 DEF FinishGlob
<1>5. CASE FinishSole(w)
  <2>1. NoDangling' /\ UNCHANGED session /\ c.at = "sole"
    BY <1>5 DEF FinishSole, At, TurnInv, NoDangling
  <2>2. CASE Done(w)
    BY <1>0, <1>1, <2>1, <2>2, TurnDone
  <2>3. CASE Goto(w, "unlink")
    <3>1. /\ call'[w].op = "finish" /\ call'[w].at = "unlink" /\ call'[w].key = c.key
          /\ \A v \in Window \ {w} : call'[v] = call[v]
      BY <1>0, <2>3, GotoIs
    <3>2. Files = {c.key}
      BY <1>0, <2>1 DEF TurnInv, Chosen
    <3>3. Chosen(call[w], w)'
      BY <2>1, <3>1, <3>2 DEF Chosen, Files
    <3> QED
      BY <1>0, <1>1, <2>1, <3>1, <3>3, TurnStep
  <2> QED
    BY <1>5, <2>2, <2>3 DEF FinishSole
<1>3. CASE FinishUnlink(w)
  <2>1. session' = [session EXCEPT ![c.key] = NoTask] /\ Done(w)
    BY <1>3 DEF FinishUnlink
  <2>2. NoDangling'
    BY <1>0, <1>1, <2>1, ActiveTaskAssumption DEF TurnInv, NoDangling, TypeOK
  <2> QED
    BY <1>0, <1>1, <2>1, <2>2, TurnDone
<1> QED
  BY <1>2, <1>3, <1>4, <1>5

LEMMA ArchiveTurns ==
  ASSUME IInv, TurnInv, NEW w \in Window, ArchiveScan(w) \/ ArchiveUnlink(w) \/ ArchiveMove(w)
  PROVE  TurnInv'
<1> DEFINE c == call[w]
<1>0. /\ TypeOK /\ c.op = "archive" /\ c.at \in {"scan", "unlink"} /\ c.task \in Task
      /\ \A v \in Window \ {w} : Waits(call[v])
      /\ \A k \in Window : session[k] = c.task => k \in c.todo \/ (c.at = "unlink" /\ k = c.key)
  <2>1. TypeOK /\ c.op = "archive" /\ c.at \in {"scan", "unlink"} /\ ~Waits(c)
    BY DEF IInv, ArchiveScan, ArchiveUnlink, ArchiveMove, At, Waits
  <2> QED
    BY <2>1, Alone DEF TurnInv, Chosen
<1>1. UNCHANGED <<kind, tickets>> /\ TicketKinds'
  BY DEF ArchiveScan, ArchiveUnlink, ArchiveMove, TurnInv, TicketKinds
<1>2. CASE ArchiveScan(w)
  <2>1. PICK k \in c.todo :
          call' = [call EXCEPT ![w].todo = @ \ {k}, ![w].key = k,
                               ![w].at = IF session[k] = call[w].task THEN "unlink" ELSE "scan"]
    BY <1>2 DEF ArchiveScan
  <2>2. UNCHANGED <<session, dirs>> /\ NoDangling' /\ c.at = "scan"
    BY <1>2 DEF ArchiveScan, At, TurnInv, NoDangling
  <2>3. /\ call'[w].op = "archive" /\ call'[w].todo = c.todo \ {k} /\ call'[w].key = k
        /\ call'[w].at = (IF session[k] = c.task THEN "unlink" ELSE "scan") /\ call'[w].task = c.task
        /\ \A v \in Window \ {w} : call'[v] = call[v]
    BY <1>0, <2>1 DEF TypeOK, Calls
  <2>4. Chosen(call[w], w)'
    BY <1>0, <2>2, <2>3 DEF Chosen
  <2> QED
    BY <1>0, <1>1, <2>2, <2>3, <2>4, TurnStep
<1>3. CASE ArchiveUnlink(w)
  <2>1. /\ c.at = "unlink" /\ session' = [session EXCEPT ![c.key] = NoTask] /\ Goto(w, "scan")
        /\ UNCHANGED dirs /\ c.key \in Window
    BY <1>3 DEF ArchiveUnlink, At, IInv, UnlinkHasKey
  <2>2. NoDangling'
    BY <1>0, <2>1, ActiveTaskAssumption DEF TurnInv, NoDangling, TypeOK
  <2>3. /\ call'[w].op = "archive" /\ call'[w].at = "scan" /\ call'[w].todo = c.todo
        /\ call'[w].task = c.task /\ \A v \in Window \ {w} : call'[v] = call[v]
    BY <1>0, <2>1, GotoIs
  <2>4. \A k \in Window : session'[k] = c.task => k \in c.todo
    BY <1>0, <2>1, ActiveTaskAssumption DEF TypeOK
  <2>5. Chosen(call[w], w)'
    BY <1>0, <2>3, <2>4 DEF Chosen
  <2> QED
    BY <1>0, <1>1, <2>2, <2>3, <2>5, TurnStep
<1>4. CASE ArchiveMove(w)
  <2>1. c.at = "scan" /\ c.todo = {} /\ dirs' = dirs \ {c.task} /\ Done(w) /\ UNCHANGED session
    BY <1>4 DEF ArchiveMove, At
  <2>2. NoDangling'
    BY <1>0, <2>1 DEF TurnInv, NoDangling
  <2> QED
    BY <1>0, <1>1, <2>1, <2>2, TurnDone
<1> QED
  BY <1>2, <1>3, <1>4

LEMMA SerialStep == SerialInv /\ [MCNext]_mcvars => SerialInv'
<1> SUFFICES ASSUME SerialInv, [MCNext]_mcvars PROVE SerialInv'
  OBVIOUS
<1>1. [Next]_vars
  BY DEF MCNext, Next, mcvars
<1>2. IInv /\ IInv' /\ TypeOK
  BY <1>1, IInvStep DEF SerialInv, IInv
<1>3. ASSUME serial' PROVE TurnInv'
  <2>1. serial /\ TurnInv
    BY <1>3 DEF MCNext, mcvars, SerialInv
  <2>2. Running = {} => \A v \in Window : Waits(call[v])
    BY DEF Running, Waits
  <2>3. CASE UNCHANGED mcvars
    BY <2>1, <2>3 DEF mcvars, vars, TurnInv, InTurn, NoDangling, TicketKinds, Chosen, OwnKey, Files
  <2> QED
    BY <1>2, <2>1, <2>2, <2>3, IssueTurns, BeginsTurns, StartTurns, FinishTurns, ArchiveTurns,
       KilledTurns, ExpireTurns DEF MCNext, Goes
<1> QED
  BY <1>2, <1>3 DEF SerialInv

LEMMA SerialAlways == MCSpec => []SerialInv
<1>1. MCInit => SerialInv
  <2> SUFFICES ASSUME MCInit PROVE SerialInv
    OBVIOUS
  <2>1. Init /\ IInv
    BY IInvInit DEF MCInit
  <2>2. TurnInv
    BY <2>1, IdleWaits, ActiveTaskAssumption DEF Init, TurnInv, InTurn, NoDangling, TicketKinds, Chosen
  <2> QED
    BY <2>1, <2>2 DEF SerialInv
<1> QED
  BY <1>1, SerialStep, PTL DEF MCSpec

\* When commands run one at a time, no window points at the directory of an
\* archived task, also when a session file was torn by an earlier kill: the part
\* NoDanglingSession of PointersSound (active_task.py:733-755).
THEOREM NothingDangles == MCSpec => []NoDanglingSession
<1>1. SerialInv => NoDanglingSession
  BY DEF SerialInv, TurnInv, NoDangling, NoDanglingSession
<1> QED
  BY <1>1, SerialAlways, PTL

\* When commands run one at a time, a window whose shells know its key loses its
\* pointer to somebody else only to the archive of its task, or when it is the
\* only window with a session file (active_task.py:637-639).
THEOREM LostOnlyAlone == MCSpec => LosesOnlyAlone
<1> DEFINE Loses == serial => \A w \in Window :
      (/\ kind[w] = "env" /\ call[w].op # "start" /\ call[w].op # "finish"
       /\ session[w] \in Task /\ session'[w] # session[w])
      => \/ \E v \in Window : At(v, "archive", "unlink") /\ call[v].task = session[w]
         \/ Files = {w}
<1>1. SerialInv /\ [MCNext]_mcvars => [Loses]_mcvars
  <2> SUFFICES ASSUME SerialInv, [MCNext]_mcvars, serial, NEW w \in Window,
                      kind[w] = "env", call[w].op # "start", call[w].op # "finish",
                      session[w] \in Task, session'[w] # session[w]
               PROVE  \/ \E v \in Window : At(v, "archive", "unlink") /\ call[v].task = session[w]
                      \/ Files = {w}
    OBVIOUS
  <2>1. TypeOK /\ TurnInv
    BY DEF SerialInv, IInv
  <2>2. ASSUME NEW v \in Window, NEW x, session' = [session EXCEPT ![call[v].key] = x]
        PROVE  call[v].key = w
    BY <2>1, <2>2 DEF TypeOK
  <2>3. ASSUME NEW v \in Window, StartTruncate(v) \/ StartWrite(v) PROVE FALSE
    <3>0. \E x : session' = [session EXCEPT ![call[v].key] = x]
      BY <2>3 DEF StartTruncate, StartWrite
    <3>1. call[v].op = "start" /\ call[v].at \in {"truncate", "write"} /\ call[v].key = w
      BY <2>2, <2>3, <3>0 DEF StartTruncate, StartWrite, At
    <3>2. OwnKey(v, w)
      BY <2>1, <3>1 DEF TurnInv, Chosen
    <3> QED
      BY <3>1, <3>2 DEF OwnKey
  <2>4. ASSUME NEW v \in Window, FinishUnlink(v) PROVE Files = {w}
    <3>1. call[v].op = "finish" /\ call[v].at = "unlink" /\ call[v].key = w
      BY <2>2, <2>4 DEF FinishUnlink, At
    <3>2. OwnKey(v, w) \/ Files = {w}
      BY <2>1, <3>1 DEF TurnInv, Chosen
    <3> QED
      BY <3>1, <3>2 DEF OwnKey
  <2>5. ASSUME NEW v \in Window, ArchiveUnlink(v)
        PROVE  At(v, "archive", "unlink") /\ call[v].task = session[w]
    <3>1. At(v, "archive", "unlink") /\ call[v].key = w
      BY <2>2, <2>5 DEF ArchiveUnlink
    <3> QED
      BY <2>1, <3>1 DEF TurnInv, Chosen, At
  <2>6. \E v \in Window : StartTruncate(v) \/ StartWrite(v) \/ FinishUnlink(v) \/ ArchiveUnlink(v)
    BY DEF MCNext, mcvars, vars, Issues, Issue, Begins, Goes, StartCheck, StartKey, FinishKey,
           FinishRead, FinishGlob, FinishSole, ArchiveList, ArchiveScan, ArchiveMove, Killed, Expire
  <2> QED
    BY <2>3, <2>4, <2>5, <2>6
<1> QED
  BY <1>1, SerialAlways, PTL DEF MCSpec, LosesOnlyAlone

-----------------------------------------------------------------------------
(* Induction up to n, and functions that are defined by recursion on it.   *)

\* Of finitely many subsets of a finite set one is minimal.
LEMMA Minimal ==
  ASSUME NEW S, IsFiniteSet(S), NEW F \in SUBSET SUBSET S, F # {}
  PROVE  \E x \in F : \A y \in F : y \subseteq x => y = x
<1>1. F \subseteq FiniteSubsetsOf(S)
  BY FS_FiniteSubsetsOfFinite
<1>2. \E x \in F : \A y \in F : ~(<<y, x>> \in StrictSubsetOrdering(S))
  BY <1>1, FS_StrictSubsetOrderingWellFounded, WFMin
<1> QED
  BY <1>2 DEF StrictSubsetOrdering

\* By a minimal counterexample, as the theorems of the library take predicates.
LEMMA UpTo ==
  ASSUME NEW N \in Nat, NEW S, 0 \in S, \A n \in 0 .. N : n \in S /\ n < N => n + 1 \in S
  PROVE  0 .. N \subseteq S
<1> DEFINE F == {T \in SUBSET (0 .. N) : \E n \in (0 .. N) \ S : T = 0 .. n}
<1> SUFFICES ASSUME NEW b \in (0 .. N) \ S PROVE FALSE
  OBVIOUS
<1>1. 0 .. b \in F
  OBVIOUS
<1>2. IsFiniteSet(0 .. N)
  BY FS_Interval
<1>3. PICK T \in F : \A y \in F : y \subseteq T => y = T
  <2> DEFINE A == 0 .. N
  <2>1. IsFiniteSet(A) /\ F \in SUBSET SUBSET A /\ F # {}
    BY <1>1, <1>2
  <2> HIDE DEF F, A
  <2> QED
    BY <2>1, Minimal
<1>5. PICK n \in (0 .. N) \ S : T = 0 .. n
  BY <1>3
<1>6. n - 1 \in (0 .. N) \ S
  <2>1. n # 0 /\ n - 1 \in 0 .. N /\ n - 1 < N /\ (n - 1) + 1 = n
    BY <1>5
  <2> QED
    BY <1>5, <2>1
<1>7. 0 .. n - 1 \in F /\ 0 .. n - 1 \subseteq T /\ n \in T /\ n \notin 0 .. n - 1
  BY <1>5, <1>6
<1> QED
  BY <1>3, <1>7

\* f starts with base and goes from f[i - 1] to f[i] by a step.
Recursion(f, n, base, step) == f = [i \in 0 .. n |-> IF i = 0 THEN base ELSE step[<<i, f[i - 1]>>]]

LEMMA RecursionExists ==
  ASSUME NEW n \in Nat, NEW V, NEW base \in V, NEW step \in [(1 .. n) \X V -> V]
  PROVE  \E f \in [0 .. n -> V] : Recursion(f, n, base, step)
<1> DEFINE S == {k \in 0 .. n : \E f \in [0 .. k -> V] : Recursion(f, k, base, step)}
<1>1. 0 \in S
  <2> DEFINE f == [i \in 0 .. 0 |-> base]
  <2>1. f \in [0 .. 0 -> V] /\ Recursion(f, 0, base, step)
    BY DEF Recursion
  <2> HIDE DEF f
  <2> QED
    BY <2>1
<1>2. ASSUME NEW k \in 0 .. n, k \in S, k < n PROVE k + 1 \in S
  <2>1. PICK f \in [0 .. k -> V] : Recursion(f, k, base, step)
    BY <1>2
  <2> DEFINE g == [i \in 0 .. k + 1 |-> IF i <= k THEN f[i] ELSE step[<<i, f[k]>>]]
  <2>2. k + 1 \in 1 .. n /\ f[k] \in V /\ step[<<k + 1, f[k]>>] \in V
    BY <1>2
  <2>3. \A i \in 0 .. k + 1 : (i <= k => i \in 0 .. k) /\ (~(i <= k) => i = k + 1)
    BY <1>2
  <2>4. g \in [0 .. k + 1 -> V]
    BY <2>2, <2>3
  <2>5. \A i \in 0 .. k + 1 : g[i] = IF i = 0 THEN base ELSE step[<<i, g[i - 1]>>]
    <3> SUFFICES ASSUME NEW i \in 0 .. k + 1 PROVE g[i] = IF i = 0 THEN base ELSE step[<<i, g[i - 1]>>]
      OBVIOUS
    <3>1. CASE i = 0
      BY <2>1, <3>1 DEF Recursion
    <3>2. CASE i # 0
      <4>1. i - 1 \in 0 .. k /\ g[i - 1] = f[i - 1]
        BY <3>2
      <4>2. CASE i <= k
        <5>1. i \in 0 .. k /\ g[i] = f[i]
          BY <4>2
        <5>2. f[i] = step[<<i, f[i - 1]>>]
          BY <2>1, <3>2, <5>1 DEF Recursion
        <5> QED
          BY <3>2, <4>1, <5>1, <5>2
      <4>3. CASE ~(i <= k)
        <5>1. i = k + 1 /\ i - 1 = k
          BY <4>3
        <5>2. g[i] = step[<<i, f[k]>>]
          BY <4>3
        <5>3. g[i - 1] = f[k]
          BY <4>1, <5>1
        <5> QED
          BY <3>2, <5>2, <5>3
      <4> QED
        BY <4>2, <4>3
    <3> QED
      BY <3>1, <3>2
  <2>6. Recursion(g, k + 1, base, step)
    BY <2>5 DEF Recursion
  <2>7. k + 1 \in 0 .. n
    BY <1>2
  <2> HIDE DEF g
  <2> QED
    BY <2>4, <2>6, <2>7
<1>3. n \in S
  <2> HIDE DEF S
  <2> QED
    BY <1>1, <1>2, UpTo
<1> QED
  BY <1>3

-----------------------------------------------------------------------------
(* Where a path leads.                                                     *)

\* A step of a walk.
Leads(q, s) ==
  LET next == Append(q, s) IN
  IF s = "." THEN q
  ELSE IF s = ".." THEN R!Parent(q)
  ELSE IF next \in DOMAIN Link THEN Link[next] ELSE next

Paths == Seq(Segment)

\* at[n] is where the first n segments lead.
Walks(at, p, segs) == at = [n \in 0 .. Len(segs) |-> IF n = 0 THEN p ELSE Leads(at[n - 1], segs[n])]

LEMMA LeadsTyped == ASSUME NEW q \in Paths, NEW s \in Segment PROVE Leads(q, s) \in Paths
<1>1. Append(q, s) \in Paths
  BY AppendProperties DEF Paths
<1>2. \A x \in DOMAIN Link : Link[x] \in Paths
  BY FileSystemAssumption DEF R!FileSystem, Paths
<1>3. R!Parent(q) \in Paths
  <2>1. CASE q = <<>>
    BY <2>1 DEF R!Parent, Paths
  <2>2. CASE q # <<>>
    <3>1. Len(q) \in Nat /\ Len(q) # 0
      BY <2>2 DEF Paths
    <3>2. 1 \in 1 .. Len(q) + 1 /\ Len(q) - 1 \in 0 .. Len(q)
      BY <3>1
    <3>3. SubSeq(q, 1, Len(q) - 1) \in Seq(Segment)
      BY <3>1, SubSeqProperties DEF Paths
    <3> QED
      BY <2>2, <3>3 DEF R!Parent, Paths
  <2> QED
    BY <2>1, <2>2
<1> QED
  BY <1>1, <1>2, <1>3 DEF Leads

LEMMA WalkIs ==
  ASSUME NEW p \in Paths, NEW segs \in Paths
  PROVE  \E at \in [0 .. Len(segs) -> Paths] :
           /\ at[0] = p /\ \A n \in 1 .. Len(segs) : at[n] = Leads(at[n - 1], segs[n])
           /\ R!Walk(p, segs) = at[Len(segs)]
<1> DEFINE n == Len(segs)
           step == [x \in (1 .. n) \X Paths |-> Leads(x[2], segs[x[1]])]
<1>1. n \in Nat /\ \A i \in 1 .. n : segs[i] \in Segment
  BY DEF Paths
<1>2. step \in [(1 .. n) \X Paths -> Paths]
  BY <1>1, LeadsTyped
<1>3. PICK f \in [0 .. n -> Paths] : Recursion(f, n, p, step)
  <2> HIDE DEF step, n
  <2> QED
    BY <1>1, <1>2, RecursionExists
<1>4. \A i \in 1 .. n : step[<<i, f[i - 1]>>] = Leads(f[i - 1], segs[i])
  <2> SUFFICES ASSUME NEW i \in 1 .. n PROVE step[<<i, f[i - 1]>>] = Leads(f[i - 1], segs[i])
    OBVIOUS
  <2>1. f[i - 1] \in Paths
    BY <1>1, <1>3
  <2> QED
    BY <2>1
<1>5. f = [i \in 0 .. n |-> IF i = 0 THEN p ELSE step[<<i, f[i - 1]>>]]
  BY <1>3 DEF Recursion
<1> HIDE DEF step
<1>6. Walks(f, p, segs)
  <2>1. \A i \in 0 .. n : (IF i = 0 THEN p ELSE step[<<i, f[i - 1]>>]) = IF i = 0 THEN p ELSE Leads(f[i - 1], segs[i])
    BY <1>1, <1>4
  <2> QED
    BY <1>5, <2>1 DEF Walks
<1> DEFINE at == CHOOSE g : Walks(g, p, segs)
<1>7. Walks(at, p, segs)
  BY <1>6
<1>8. R!Walk(p, segs) = at[n]
  BY DEF R!Walk, Walks, Leads
<1> HIDE DEF at
<1>9. at = f
  <2> DEFINE S == {i \in 0 .. n : at[i] = f[i]}
  <2>1. \A i \in 0 .. n : at[i] = IF i = 0 THEN p ELSE Leads(at[i - 1], segs[i])
    BY <1>7 DEF Walks
  <2>2. \A i \in 0 .. n : f[i] = IF i = 0 THEN p ELSE Leads(f[i - 1], segs[i])
    BY <1>6 DEF Walks
  <2>3. 0 \in S
    BY <1>1, <2>1, <2>2
  <2>4. ASSUME NEW i \in 0 .. n, i \in S, i < n PROVE i + 1 \in S
    <3>1. i + 1 \in 0 .. n /\ i + 1 # 0 /\ (i + 1) - 1 = i /\ at[i] = f[i]
      BY <1>1, <2>4
    <3> QED
      BY <2>1, <2>2, <3>1
  <2>5. 0 .. n \subseteq S
    <3> HIDE DEF S
    <3> QED
      BY <1>1, <2>3, <2>4, UpTo
  <2>6. at = [i \in 0 .. n |-> at[i]] /\ f = [i \in 0 .. n |-> f[i]]
    BY <1>6, <1>7 DEF Walks
  <2> QED
    BY <2>5, <2>6
<1>10. \A i \in 0 .. n : f[i] = IF i = 0 THEN p ELSE Leads(f[i - 1], segs[i])
  BY <1>6 DEF Walks
<1> QED
  BY <1>1, <1>3, <1>8, <1>9, <1>10

LEMMA PrefixIs ==
  ASSUME NEW p \in Paths, NEW q \in Paths
  PROVE  IsPrefix(p, q) <=> Len(p) <= Len(q) /\ \A i \in 1 .. Len(p) : p[i] = q[i]
<1>0. Len(p) \in Nat /\ Len(q) \in Nat
  BY LenProperties DEF Paths
<1>1. CASE Len(p) <= Len(q)
  <2> DEFINE r == SubSeq(q, 1, Len(p))
  <2>1. \A i \in 1 .. Len(p) : q[i] \in Segment
    BY <1>0, <1>1, ElementOfSeq DEF Paths
  <2>2. r \in Paths /\ Len(r) = Len(p) /\ \A i \in 1 .. Len(p) : r[i] = q[i]
    <3>1. /\ r \in Seq(Segment) /\ Len(r) = IF 1 <= Len(p) THEN Len(p) - 1 + 1 ELSE 0
          /\ \A i \in 1 .. Len(p) - 1 + 1 : r[i] = q[1 + i - 1]
      <4> HIDE DEF r
      <4> QED
        BY <1>0, <2>1, SubSeqProperties DEF r
    <3> HIDE DEF r
    <3> QED
      BY <1>0, <3>1 DEF Paths
  <2>3. SubSeq(p, 1, Len(p)) = p
    BY SubSeqFull DEF Paths
  <2> HIDE DEF r
  <2>4. p = r <=> \A i \in 1 .. Len(p) : p[i] = q[i]
    <3>1. ASSUME \A i \in 1 .. Len(p) : p[i] = q[i] PROVE p = r
      <4>1. \A i \in 1 .. Len(p) : p[i] = r[i]
        BY <2>2, <3>1
      <4> QED
        BY <2>2, <4>1, SeqEqual DEF Paths
    <3> QED
      BY <2>2, <3>1
  <2> QED
    BY <1>1, <2>3, <2>4 DEF IsPrefix, r
<1>2. CASE ~(Len(p) <= Len(q))
  BY <1>2 DEF IsPrefix
<1> QED
  BY <1>1, <1>2

\* A directory is reached from each directory above it by its own segments.
LEMMA WalkBack ==
  ASSUME NEW d \in Dirs, NEW m \in 0 .. Len(d)
  PROVE  R!Walk(SubSeq(d, 1, m), SubSeq(d, m + 1, Len(d))) = d
<1> DEFINE p == SubSeq(d, 1, m)
           segs == SubSeq(d, m + 1, Len(d))
<1>1. d \in Paths /\ \A i \in 1 .. Len(d) : d[i] \in Segment /\ d[i] \notin {".", ".."} /\ SubSeq(d, 1, i) \notin DOMAIN Link
  <2>1. d \in Paths /\ \A i \in DOMAIN d : d[i] \notin {".", ".."} /\ SubSeq(d, 1, i) \notin DOMAIN Link
    BY FileSystemAssumption DEF R!FileSystem, R!Physical, Paths
  <2> QED
    BY <2>1, LenProperties, ElementOfSeq DEF Paths
<1>2. Len(d) \in Nat /\ m \in Nat /\ m <= Len(d)
  BY <1>1, LenProperties DEF Paths
<1>3. p \in Paths
  <2>1. \A i \in 1 .. m : d[i] \in Segment
    BY <1>1, <1>2
  <2> QED
    BY <1>2, <2>1, SubSeqProperties DEF Paths
<1>4. segs \in Paths /\ Len(segs) = Len(d) - m /\ \A i \in 1 .. Len(d) - m : segs[i] = d[m + i]
  <2>1. \A i \in m + 1 .. Len(d) : d[i] \in Segment
    BY <1>1, <1>2
  <2>2. m + 1 \in Int /\ Len(d) \in Int
    BY <1>2
  <2>3. /\ segs \in Seq(Segment) /\ Len(segs) = IF m + 1 <= Len(d) THEN Len(d) - (m + 1) + 1 ELSE 0
        /\ \A i \in 1 .. Len(d) - (m + 1) + 1 : segs[i] = d[m + 1 + i - 1]
    <3> HIDE DEF segs
    <3> QED
      BY <2>1, <2>2, SubSeqProperties DEF segs
  <2> HIDE DEF segs
  <2> QED
    BY <1>2, <2>3 DEF Paths
<1> HIDE DEF segs
<1>5. PICK at \in [0 .. Len(segs) -> Paths] :
         /\ at[0] = p /\ \A n \in 1 .. Len(segs) : at[n] = Leads(at[n - 1], segs[n])
         /\ R!Walk(p, segs) = at[Len(segs)]
  BY <1>3, <1>4, WalkIs
<1> DEFINE n == Len(d) - m
           S == {i \in 0 .. n : at[i] = SubSeq(d, 1, m + i)}
<1>6. 0 \in S
  <2>1. m + 0 = m /\ 0 \in 0 .. n
    BY <1>2
  <2> QED
    BY <1>5, <2>1
<1>7. ASSUME NEW i \in 0 .. n, i \in S, i < n PROVE i + 1 \in S
  <2>1. i + 1 \in 1 .. Len(segs) /\ (i + 1) - 1 = i /\ i + 1 \in 0 .. n /\ m + i + 1 \in 1 .. Len(d)
    BY <1>2, <1>4, <1>7
  <2>2. at[i + 1] = Leads(SubSeq(d, 1, m + i), d[m + (i + 1)])
    BY <1>4, <1>5, <1>7, <2>1
  <2>3. Append(SubSeq(d, 1, m + i), d[m + i + 1]) = SubSeq(d, 1, m + i + 1)
    <3> DEFINE a == SubSeq(d, 1, m + i)
               b == SubSeq(d, 1, m + i + 1)
    <3>0. m + i \in Nat /\ m + i + 1 <= Len(d) /\ m + i + 1 \in Nat
      BY <1>2, <1>7
    <3>1. a \in Paths /\ Len(a) = m + i /\ \A j \in 1 .. m + i : a[j] = d[j]
      <4>1. \A j \in 1 .. m + i : d[j] \in Segment
        BY <1>1, <1>2, <3>0
      <4>2. /\ a \in Seq(Segment) /\ Len(a) = IF 1 <= m + i THEN m + i - 1 + 1 ELSE 0
            /\ \A j \in 1 .. m + i - 1 + 1 : a[j] = d[1 + j - 1]
        <5> HIDE DEF a
        <5> QED
          BY <3>0, <4>1, SubSeqProperties DEF a
      <4> HIDE DEF a
      <4> QED
        BY <3>0, <4>2 DEF Paths
    <3>2. b \in Paths /\ Len(b) = m + i + 1 /\ \A j \in 1 .. m + i + 1 : b[j] = d[j]
      <4>1. \A j \in 1 .. m + i + 1 : d[j] \in Segment
        BY <1>1, <1>2, <3>0
      <4>2. /\ b \in Seq(Segment) /\ Len(b) = IF 1 <= m + i + 1 THEN m + i + 1 - 1 + 1 ELSE 0
            /\ \A j \in 1 .. m + i + 1 - 1 + 1 : b[j] = d[1 + j - 1]
        <5> HIDE DEF b
        <5> QED
          BY <3>0, <4>1, SubSeqProperties DEF b
      <4> HIDE DEF b
      <4> QED
        BY <3>0, <4>2 DEF Paths
    <3> HIDE DEF a, b
    <3>3. d[m + i + 1] \in Segment
      BY <1>1, <2>1
    <3>4. /\ Append(a, d[m + i + 1]) \in Seq(Segment) /\ Len(Append(a, d[m + i + 1])) = Len(a) + 1
          /\ \A j \in 1 .. Len(a) : Append(a, d[m + i + 1])[j] = a[j]
          /\ Append(a, d[m + i + 1])[Len(a) + 1] = d[m + i + 1]
      BY <3>1, <3>3, AppendProperties DEF Paths
    <3> DEFINE c == Append(a, d[m + i + 1])
    <3> HIDE DEF c
    <3>5. c \in Seq(Segment) /\ Len(c) = Len(b) /\ \A j \in 1 .. Len(c) : c[j] = b[j]
      BY <3>0, <3>1, <3>2, <3>4 DEF c
    <3>6. c = b
      BY <3>2, <3>5, SeqEqual DEF Paths
    <3> QED
      BY <3>6 DEF c, a, b
  <2>4. m + (i + 1) = m + i + 1
    BY <1>2, <1>7
  <2>5. at[i + 1] = SubSeq(d, 1, m + i + 1)
    BY <1>1, <2>1, <2>2, <2>3, <2>4 DEF Leads
  <2> QED
    BY <2>1, <2>4, <2>5
<1>8. n \in S
  <2>1. n \in Nat /\ n \in 0 .. n
    BY <1>2
  <2>2. 0 .. n \subseteq S
    <3> HIDE DEF S, n
    <3> QED
      BY <1>6, <1>7, <2>1, UpTo
  <2> HIDE DEF S
  <2> QED
    BY <2>1, <2>2
<1>9. m + n = Len(d) /\ SubSeq(d, 1, Len(d)) = d
  BY <1>1, <1>2, SubSeqFull DEF Paths
<1> QED
  BY <1>4, <1>5, <1>8, <1>9 DEF segs

LEMMA SubIs ==
  ASSUME NEW d \in Paths, NEW m \in 0 .. Len(d), NEW n \in m .. Len(d)
  PROVE  /\ SubSeq(d, m + 1, n) \in Paths /\ Len(SubSeq(d, m + 1, n)) = n - m
         /\ \A i \in 1 .. n - m : SubSeq(d, m + 1, n)[i] = d[m + i]
<1> DEFINE r == SubSeq(d, m + 1, n)
<1>1. Len(d) \in Nat /\ m \in Nat /\ n \in Nat /\ m <= n /\ n <= Len(d)
  BY LenProperties DEF Paths
<1>2. \A i \in m + 1 .. n : d[i] \in Segment
  BY <1>1, ElementOfSeq DEF Paths
<1>3. /\ r \in Seq(Segment) /\ Len(r) = IF m + 1 <= n THEN n - (m + 1) + 1 ELSE 0
      /\ \A i \in 1 .. n - (m + 1) + 1 : r[i] = d[m + 1 + i - 1]
  <2> HIDE DEF r
  <2> QED
    BY <1>1, <1>2, SubSeqProperties DEF r
<1> HIDE DEF r
<1>4. Len(r) = n - m /\ \A i \in 1 .. n - m : r[i] = d[m + i]
  BY <1>1, <1>3
<1> QED
  BY <1>3, <1>4 DEF r, Paths

LEMMA Appended ==
  ASSUME NEW q \in Paths, NEW s \in Segment
  PROVE  /\ Append(q, s) \in Paths /\ Len(Append(q, s)) = Len(q) + 1
         /\ \A i \in 1 .. Len(q) : Append(q, s)[i] = q[i]
         /\ Append(q, s)[Len(q) + 1] = s
BY AppendProperties DEF Paths

LEMMA Single ==
  ASSUME NEW s \in Segment PROVE <<s>> \in Paths /\ Len(<<s>>) = 1 /\ <<s>>[1] = s
BY DEF Paths

\* Where the repository keeps its tasks.
LEMMA Places ==
  /\ Root \in Paths /\ Len(Root) \in Nat
  /\ R!TrellisDir \in Paths /\ Len(R!TrellisDir) = Len(Root) + 1
  /\ \A i \in 1 .. Len(Root) : R!TrellisDir[i] = Root[i]
  /\ R!TrellisDir[Len(Root) + 1] = ".trellis"
  /\ R!TasksDir \in Paths /\ Len(R!TasksDir) = Len(Root) + 2
  /\ \A i \in 1 .. Len(Root) : R!TasksDir[i] = Root[i]
  /\ R!TasksDir[Len(Root) + 1] = ".trellis" /\ R!TasksDir[Len(Root) + 2] = "tasks"
<1>1. Root \in Seq(Segment) /\ Len(Root) \in Nat
  BY FileSystemAssumption, LenProperties DEF R!FileSystem
<1> DEFINE a == R!TrellisDir
           b == R!TasksDir
<1>2. /\ a \in Seq(Segment) /\ Len(a) = Len(Root) + 1
      /\ \A i \in 1 .. Len(Root) : a[i] = Root[i]
      /\ a[Len(Root) + 1] = ".trellis"
  <2>1. ".trellis" \in Segment
    BY FileSystemAssumption, Zenon DEF R!FileSystem
  <2> QED
    BY <1>1, <2>1, Appended, Zenon DEF R!TrellisDir, Paths
<1> HIDE DEF a
<1>3. /\ b \in Seq(Segment) /\ Len(b) = Len(a) + 1
      /\ \A i \in 1 .. Len(a) : b[i] = a[i]
      /\ b[Len(a) + 1] = "tasks"
  <2>1. "tasks" \in Segment
    BY FileSystemAssumption, Zenon DEF R!FileSystem
  <2> QED
    BY <1>2, <2>1, Appended, Zenon DEF R!TasksDir, a, Paths
<1> HIDE DEF b
<1>4. Len(b) = Len(Root) + 2 /\ \A i \in 1 .. Len(Root) : b[i] = Root[i]
  BY <1>1, <1>2, <1>3
<1>5. b[Len(Root) + 1] = ".trellis" /\ b[Len(Root) + 2] = "tasks"
  BY <1>1, <1>2, <1>3
<1> QED
  BY <1>1, <1>2, <1>3, <1>4, <1>5 DEF Paths, a, b

LEMMA DirIs ==
  ASSUME NEW d \in Dirs
  PROVE  /\ d \in Paths /\ d # <<>> /\ Len(d) \in Nat
         /\ \A i \in 1 .. Len(d) : d[i] \in Segment /\ d[i] # "." /\ d[i] # ".."
         /\ R!Within(d) => Len(Root) <= Len(d) /\ Root = SubSeq(d, 1, Len(Root))
<1>1. d \in Paths /\ d # <<>> /\ \A i \in DOMAIN d : d[i] \notin {".", ".."}
  BY FileSystemAssumption DEF R!FileSystem, R!Physical, Paths, R!NoDir
<1>2. \A i \in 1 .. Len(d) : i \in DOMAIN d /\ d[i] \in Segment
  BY <1>1, LenProperties, ElementOfSeq DEF Paths
<1>3. R!Within(d) => Len(Root) <= Len(d) /\ Root = SubSeq(d, 1, Len(Root))
  <2>1. SubSeq(Root, 1, Len(Root)) = Root
    BY Places, SubSeqFull DEF Paths
  <2> QED
    BY <2>1 DEF R!Within, R!IsPrefix
<1> QED
  BY <1>1, <1>2, <1>3, LenProperties DEF Paths

LEMMA RelativeIs ==
  ASSUME NEW d \in Dirs, R!Within(d)
  PROVE  /\ R!Relative(d).abs = FALSE /\ R!Relative(d) = [abs |-> FALSE, segs |-> R!Relative(d).segs]
         /\ R!Relative(d).segs \in Paths /\ Len(R!Relative(d).segs) # 0
         /\ d = Root => R!Relative(d).segs = <<".">>
         /\ d # Root =>
              /\ R!Relative(d).segs = SubSeq(d, Len(Root) + 1, Len(d))
              /\ Len(R!Relative(d).segs) = Len(d) - Len(Root)
              /\ \A i \in 1 .. Len(d) - Len(Root) :
                   R!Relative(d).segs[i] = d[Len(Root) + i] /\ d[Len(Root) + i] \notin {".", ".."}
<1> DEFINE r == R!Relative(d)
<1>1. r.abs = FALSE /\ r.segs = (IF d = Root THEN <<".">> ELSE SubSeq(d, Len(Root) + 1, Len(d)))
      /\ r = [abs |-> FALSE, segs |-> r.segs]
  BY DEF R!Relative
<1> HIDE DEF r
<1>2. /\ d \in Paths /\ Len(d) \in Nat /\ Len(Root) \in Nat /\ Len(Root) <= Len(d)
      /\ Root = SubSeq(d, 1, Len(Root))
  BY DirIs, Places
<1>3. CASE d = Root
  <2>1. r.segs = <<".">>
    BY <1>1, <1>3
  <2>2. <<".">> \in Paths /\ Len(<<".">>) = 1
    <3>1. "." \in Segment
      BY FileSystemAssumption, Zenon DEF R!FileSystem
    <3> QED
      BY <3>1, Single, Zenon
  <2>3. r.segs \in Paths /\ Len(r.segs) # 0
    BY <2>1, <2>2
  <2> QED
    BY <1>1, <1>3, <2>1, <2>3, Zenon DEF r
<1>4. CASE d # Root
  <2>1. r.segs = SubSeq(d, Len(Root) + 1, Len(d))
    BY <1>1, <1>4
  <2>2. Len(Root) # Len(d)
    BY <1>2, <1>4, SubSeqFull DEF Paths
  <2>3. Len(Root) \in 0 .. Len(d) /\ Len(d) \in Len(Root) .. Len(d)
    BY <1>2
  <2>4. /\ r.segs \in Paths /\ Len(r.segs) = Len(d) - Len(Root)
        /\ \A i \in 1 .. Len(d) - Len(Root) : r.segs[i] = d[Len(Root) + i]
    BY <1>2, <2>1, <2>3, SubIs
  <2>5. \A i \in 1 .. Len(d) - Len(Root) : Len(Root) + i \in 1 .. Len(d)
    BY <1>2
  <2>6. \A i \in 1 .. Len(d) - Len(Root) : d[Len(Root) + i] \notin {".", ".."}
    BY <2>5, DirIs
  <2>7. Len(r.segs) # 0
    BY <1>2, <2>2, <2>4
  <2> QED
    BY <1>1, <1>4, <2>1, <2>4, <2>6, <2>7 DEF r
<1> QED
  BY <1>3, <1>4

\* A reference that names no directory by "." stays as it is.
LEMMA StrippedSame ==
  ASSUME NEW segs \in Paths, Len(segs) = 1 \/ segs[1] # "."
  PROVE  R!Stripped(segs) = segs
<1> DEFINE dots == {n \in 1 .. Len(segs) - 1 : \A i \in 1 .. n : segs[i] = "."}
<1>1. Len(segs) \in Nat
  BY LenProperties DEF Paths
<1>0. \A k \in Nat : \A n \in 1 .. k - 1 : 1 \in 1 .. n /\ k # 1
  OBVIOUS
<1>2. \A n \in 1 .. Len(segs) - 1 : 1 \in 1 .. n /\ Len(segs) # 1
  BY <1>1, <1>0
<1>3. dots = {}
  BY <1>2, Zenon
<1>4. Cardinality(dots) = 0
  BY <1>3, FS_EmptySet
<1>5. R!Stripped(segs) = SubSeq(segs, Cardinality(dots) + 1, Len(segs))
  BY Zenon DEF R!Stripped, R!Cardinality, Cardinality
<1> HIDE DEF dots
<1>6. Cardinality(dots) + 1 = 1
  BY <1>4
<1> QED
  BY <1>5, <1>6, SubSeqFull DEF Paths

LEMMA BelowIs ==
  ASSUME NEW q \in Paths
  PROVE  IsStrictPrefix(R!TrellisDir, q) <=>
           /\ Len(Root) + 2 <= Len(q)
           /\ \A i \in 1 .. Len(Root) : q[i] = Root[i]
           /\ q[Len(Root) + 1] = ".trellis"
<1> DEFINE t == R!TrellisDir
           k == Len(Root)
<1>1. t \in Paths /\ k \in Nat /\ Len(t) = k + 1 /\ (\A i \in 1 .. k : t[i] = Root[i]) /\ t[k + 1] = ".trellis"
  BY Places
<1>2. Len(q) \in Nat
  BY LenProperties DEF Paths
<1> HIDE DEF t, k
<1>3. IsPrefix(t, q) <=> k + 1 <= Len(q) /\ (\A i \in 1 .. k : q[i] = Root[i]) /\ q[k + 1] = ".trellis"
  <2>1. IsPrefix(t, q) <=> k + 1 <= Len(q) /\ \A i \in 1 .. k + 1 : t[i] = q[i]
    BY <1>1, PrefixIs
  <2>2. \A i : i \in 1 .. k + 1 <=> i \in 1 .. k \/ i = k + 1
    BY <1>1
  <2> QED
    BY <1>1, <2>1, <2>2
<1>4. IsPrefix(t, q) => (t # q <=> Len(q) # k + 1)
  <2>1. ASSUME IsPrefix(t, q), Len(q) = k + 1 PROVE t = q
    <3>1. \A i \in 1 .. Len(t) : t[i] = q[i]
      BY <1>1, <2>1, PrefixIs
    <3> QED
      BY <1>1, <2>1, <3>1, SeqEqual DEF Paths
  <2> QED
    BY <1>1, <2>1
<1>5. IsStrictPrefix(t, q) <=> IsPrefix(t, q) /\ t # q
  BY DEF IsStrictPrefix
<1> QED
  BY <1>1, <1>2, <1>3, <1>4, <1>5 DEF t, k

LEMMA Canonicals == ASSUME NEW r, R!ResolveRef(r) \in Dirs PROVE R!Canonical(r) = R!Relative(R!ResolveRef(r))
BY DEF R!Canonical

LEMMA WithinIs ==
  ASSUME NEW d \in Paths
  PROVE  R!Within(d) <=> Len(Root) <= Len(d) /\ \A i \in 1 .. Len(Root) : d[i] = Root[i]
<1>1. R!Within(d) <=> IsPrefix(Root, d)
  BY DEF R!Within, R!IsPrefix, IsPrefix
<1> QED
  BY <1>1, PrefixIs, Places

\* A pointer to a directory within .trellis leads every reader back to it.
LEMMA Back ==
  ASSUME NEW e \in Dirs, IsStrictPrefix(R!TrellisDir, e)
  PROVE  /\ R!Within(e) /\ e # Root
         /\ R!ResolveRef(R!Relative(e)) = e
         /\ R!CurrentTaskAbs(R!Relative(e)) = e
         /\ R!SessionStartDir(R!Relative(e)) = e
         /\ R!PromptDir(R!Relative(e)) = e
         /\ R!Canonical(R!Relative(e)) = R!Relative(e)
<1> DEFINE k == Len(Root)
           r == R!Relative(e)
<1>1. e \in Paths /\ Len(e) \in Nat /\ k \in Nat /\ k + 2 <= Len(e)
      /\ (\A i \in 1 .. k : e[i] = Root[i]) /\ e[k + 1] = ".trellis"
  BY DirIs, BelowIs, Places
<1>2. R!Within(e)
  BY <1>1, WithinIs
<1>3. e # Root
  BY <1>1
<1>4. /\ r.abs = FALSE /\ r = [abs |-> FALSE, segs |-> r.segs] /\ r.segs \in Paths
      /\ r.segs = SubSeq(e, k + 1, Len(e)) /\ Len(r.segs) = Len(e) - k
      /\ \A i \in 1 .. Len(e) - k : r.segs[i] = e[k + i]
  <2> HIDE DEF r
  <2> QED
    BY <1>2, <1>3, RelativeIs DEF r
<1> HIDE DEF r, k
<1>5. r.segs[1] = ".trellis" /\ Len(r.segs) > 1 /\ Head(r.segs) = ".trellis"
  <2>1. 1 \in 1 .. Len(e) - k /\ Len(e) - k > 1
    BY <1>1
  <2>2. r.segs[1] = e[k + 1]
    BY <1>4, <2>1
  <2> QED
    BY <1>1, <1>4, <2>1, <2>2
<1>6. R!Stripped(r.segs) = r.segs
  BY <1>4, <1>5, StrippedSame
<1>7. R!Normalized(r) = r
  <2>1. Head(r.segs) # "tasks"
    BY <1>5
  <2>2. R!Normalized(r) = [r EXCEPT !.segs = r.segs]
    BY <1>4, <1>6, <2>1 DEF R!Normalized
  <2>3. [r EXCEPT !.segs = r.segs] = [abs |-> FALSE, segs |-> r.segs]
    BY <1>4, Zenon
  <2> QED
    BY <1>4, <2>2, <2>3
<1>8. R!Start(r) = Root
  BY <1>4, <1>5 DEF R!Start
<1>9. R!Walk(Root, r.segs) = e
  <2>1. k \in 0 .. Len(e)
    BY <1>1
  <2>2. Root = SubSeq(e, 1, k)
    BY <1>2, DirIs DEF k
  <2> QED
    BY <1>4, <2>1, <2>2, WalkBack
<1>10. R!ResolveRef(r) = e
  BY <1>2, <1>7, <1>8, <1>9 DEF R!ResolveRef, R!Contained
<1>11. R!SessionStartDir(r) = e
  BY <1>7, <1>8, <1>9 DEF R!SessionStartDir
<1>12. R!PromptDir(r) = e
  BY <1>4, <1>9 DEF R!PromptDir
<1>13. R!CurrentTaskAbs(r) = e
  BY <1>10 DEF R!CurrentTaskAbs
<1>14. R!Canonical(r) = r
  BY <1>10, Canonicals DEF r
<1> QED
  BY <1>2, <1>3, <1>10, <1>11, <1>12, <1>13, <1>14 DEF r

\* The absolute path of a directory leads to it.
LEMMA AbsoluteBack ==
  ASSUME NEW d \in Dirs, R!Within(d)
  PROVE  R!ResolveRef([abs |-> TRUE, segs |-> d]) = d
<1> DEFINE r == [abs |-> TRUE, segs |-> d]
<1>1. R!Normalized(r) = r /\ R!Start(r) = <<>> /\ r.segs = d
  BY DEF R!Normalized, R!Start
<1>2. d \in Paths /\ Len(d) \in Nat
  BY DirIs
<1>3. SubSeq(d, 1, 0) = <<>> /\ SubSeq(d, 0 + 1, Len(d)) = d
  BY <1>2, SubSeqFull, SubSeqEmpty DEF Paths
<1>4. R!Walk(<<>>, d) = d
  <2>1. 0 \in 0 .. Len(d)
    BY <1>2
  <2> QED
    BY <1>3, <2>1, WalkBack
<1> QED
  BY <1>1, <1>4 DEF R!ResolveRef, R!Contained

\* Within .trellis, or where neither the repository nor a directory above it is.
Safe(q) ==
  \/ IsStrictPrefix(R!TrellisDir, q)
  \/ ~IsPrefix(Root, q) /\ ~IsPrefix(q, Root)

LEMMA LinkSafe ==
  ASSUME NEW p \in Paths, p \in DOMAIN Link, IsPrefix(R!TrellisDir, p) \/ ~IsPrefix(Root, p)
  PROVE  Safe(Link[p])
<1>1. R!IsPrefix(R!TrellisDir, p) \/ ~R!IsPrefix(Root, p)
  BY DEF R!IsPrefix, IsPrefix
<1>2. \/ R!IsStrictPrefix(R!TrellisDir, Link[p])
      \/ ~R!IsPrefix(Root, Link[p]) /\ ~R!IsPrefix(Link[p], Root)
  BY <1>1, FileSystemAssumption, Zenon DEF R!FileSystem
<1> QED
  BY <1>2 DEF Safe, R!IsPrefix, IsPrefix, R!IsStrictPrefix, IsStrictPrefix

LEMMA SafeStep ==
  ASSUME NEW q \in Paths, Safe(q), NEW s \in Segment, s # ".."
  PROVE  Safe(Leads(q, s))
<1> DEFINE next == Append(q, s)
           k == Len(Root)
<1>1. /\ next \in Paths /\ Len(next) = Len(q) + 1 /\ (\A i \in 1 .. Len(q) : next[i] = q[i])
      /\ Len(q) \in Nat /\ k \in Nat /\ Root \in Paths
  BY Appended, Places, LenProperties DEF Paths
<1> HIDE DEF next, k
<1>2. CASE IsStrictPrefix(R!TrellisDir, q)
  <2>1. k + 2 <= Len(q) /\ (\A i \in 1 .. k : q[i] = Root[i]) /\ q[k + 1] = ".trellis"
    BY <1>2, BelowIs DEF k
  <2>2. IsStrictPrefix(R!TrellisDir, next)
    <3>1. k + 2 <= Len(next) /\ (\A i \in 1 .. k : next[i] = Root[i]) /\ next[k + 1] = ".trellis"
      BY <1>1, <2>1
    <3> QED
      BY <1>1, <3>1, BelowIs DEF k
  <2>3. next \in DOMAIN Link => Safe(Link[next])
    BY <1>1, <2>2, LinkSafe DEF IsStrictPrefix
  <2>4. Safe(next)
    BY <2>2 DEF Safe
  <2> QED
    BY <2>3, <2>4 DEF Leads, next
<1>3. CASE ~IsPrefix(Root, q) /\ ~IsPrefix(q, Root)
  <2>1. ~IsPrefix(next, Root)
    <3> SUFFICES ASSUME IsPrefix(next, Root) PROVE FALSE
      OBVIOUS
    <3>1. Len(next) <= k /\ \A i \in 1 .. Len(next) : next[i] = Root[i]
      BY <1>1, PrefixIs DEF k
    <3>2. Len(q) <= k /\ \A i \in 1 .. Len(q) : q[i] = Root[i]
      BY <1>1, <3>1
    <3> QED
      BY <1>1, <1>3, <3>2, PrefixIs DEF k
  <2>2. ~IsPrefix(Root, next)
    <3> SUFFICES ASSUME IsPrefix(Root, next) PROVE FALSE
      OBVIOUS
    <3>1. k <= Len(next) /\ \A i \in 1 .. k : next[i] = Root[i]
      BY <1>1, PrefixIs DEF k
    <3>2. CASE k <= Len(q)
      <4>1. \A i \in 1 .. k : q[i] = Root[i]
        BY <1>1, <3>1, <3>2
      <4> QED
        BY <1>1, <1>3, <3>2, <4>1, PrefixIs DEF k
    <3>3. CASE ~(k <= Len(q))
      <4>1. Len(q) <= k /\ \A i \in 1 .. Len(q) : q[i] = Root[i]
        BY <1>1, <3>1, <3>3
      <4> QED
        BY <1>1, <1>3, <4>1, PrefixIs DEF k
    <3> QED
      BY <3>2, <3>3
  <2>3. next \in DOMAIN Link => Safe(Link[next])
    BY <1>1, <2>2, LinkSafe
  <2>4. Safe(next)
    BY <2>1, <2>2 DEF Safe
  <2> QED
    BY <1>3, <2>3, <2>4 DEF Leads, next, Safe
<1> QED
  BY <1>2, <1>3 DEF Safe

\* A walk that is safe after k segments stays so without "..".
LEMMA SafeWalk ==
  ASSUME NEW n \in Nat, NEW k \in 0 .. n, NEW at \in [0 .. n -> Paths], NEW segs,
         \A i \in 1 .. n : at[i] = Leads(at[i - 1], segs[i]) /\ segs[i] \in Segment /\ segs[i] # "..",
         Safe(at[k])
  PROVE  Safe(at[n])
<1> DEFINE S == {i \in 0 .. n : i >= k => Safe(at[i])}
<1>1. 0 \in S
  OBVIOUS
<1>2. ASSUME NEW i \in 0 .. n, i \in S, i < n PROVE i + 1 \in S
  <2>1. i + 1 \in 0 .. n /\ i + 1 \in 1 .. n /\ (i + 1) - 1 = i /\ at[i] \in Paths
    BY <1>2
  <2>2. CASE i >= k
    <3>1. Safe(at[i])
      BY <1>2, <2>2
    <3>2. at[i + 1] = Leads(at[i], segs[i + 1]) /\ segs[i + 1] \in Segment /\ segs[i + 1] # ".."
      BY <2>1
    <3>3. Safe(at[i + 1])
      BY <2>1, <3>1, <3>2, SafeStep
    <3> QED
      BY <2>1, <3>3
  <2>3. CASE ~(i >= k)
    <3>1. i + 1 >= k => i + 1 = k
      BY <2>3
    <3> QED
      BY <2>1, <3>1
  <2> QED
    BY <2>2, <2>3
<1>3. 0 .. n \subseteq S
  <2> HIDE DEF S
  <2> QED
    BY <1>1, <1>2, UpTo
<1>4. n \in S /\ n >= k
  <2> HIDE DEF S
  <2> QED
    BY <1>3
<1> QED
  BY <1>4

\* A reference to no directory by "." or ".." leads within .trellis, or away from the repository.
LEMMA StartsSafe ==
  ASSUME NEW segs \in Paths, Len(segs) # 0, Len(segs) > 1 => segs[2] # ".",
         \A i \in 1 .. Len(segs) : segs[i] # "..",
         NEW r, r.abs = FALSE, r.segs = segs
  PROVE  Safe(R!Walk(R!Start(r), segs))
<1> DEFINE n == Len(segs)
           k == Len(Root)
<1>1. n \in Nat /\ k \in Nat /\ \A i \in 1 .. n : segs[i] \in Segment
  BY LenProperties, ElementOfSeq, Places DEF Paths
<1>2. CASE R!Start(r) = R!TasksDir
  <2>1. R!TasksDir \in Paths
    BY Places
  <2>2. Safe(R!TasksDir)
    <3>1. k + 2 <= Len(R!TasksDir) /\ (\A i \in 1 .. k : R!TasksDir[i] = Root[i]) /\ R!TasksDir[k + 1] = ".trellis"
      BY Places
    <3> QED
      BY <2>1, <3>1, BelowIs DEF Safe
  <2>3. PICK at \in [0 .. Len(segs) -> Paths] :
           /\ at[0] = R!TasksDir /\ \A i \in 1 .. Len(segs) : at[i] = Leads(at[i - 1], segs[i])
           /\ R!Walk(R!TasksDir, segs) = at[Len(segs)]
    BY <2>1, WalkIs
  <2>4. 0 \in 0 .. n /\ Safe(at[0])
    BY <1>1, <2>2, <2>3
  <2>5. Safe(at[n])
    <3>1. \A i \in 1 .. n : at[i] = Leads(at[i - 1], segs[i]) /\ segs[i] \in Segment /\ segs[i] # ".."
      BY <1>1, <2>3
    <3>2. at \in [0 .. n -> Paths]
      BY <2>3
    <3> HIDE DEF n
    <3> QED
      BY <1>1, <2>4, <3>1, <3>2, SafeWalk
  <2> QED
    BY <1>2, <2>3, <2>5
<1>3. CASE R!Start(r) = Root /\ R!Start(r) # R!TasksDir
  <2>1. n > 1 /\ Head(segs) = ".trellis"
    BY <1>3 DEF R!Start
  <2>2. segs[1] = ".trellis" /\ 1 \in 1 .. n /\ 2 \in 1 .. n /\ 2 \in 0 .. n /\ segs[2] \in Segment /\ segs[2] # ".."
    <3>1. 1 \in 1 .. n /\ 2 \in 1 .. n /\ 2 \in 0 .. n
      BY <1>1, <2>1
    <3>2. Head(segs) = segs[1]
      BY <1>1, <2>1
    <3> QED
      BY <1>1, <2>1, <3>1, <3>2
  <2>3. PICK at \in [0 .. Len(segs) -> Paths] :
           /\ at[0] = Root /\ \A i \in 1 .. Len(segs) : at[i] = Leads(at[i - 1], segs[i])
           /\ R!Walk(Root, segs) = at[Len(segs)]
    BY Places, WalkIs
  <2>4. at[1] = R!TrellisDir
    <3>1. R!TrellisDir \notin DOMAIN Link
      <4>1. k + 1 \in DOMAIN R!TasksDir
        <5>1. DOMAIN R!TasksDir = 1 .. k + 2
          BY Places, LenProperties DEF Paths
        <5> QED
          BY <1>1, <5>1
      <4>2. SubSeq(R!TasksDir, 1, k + 1) \notin DOMAIN Link
        BY <4>1, FileSystemAssumption DEF R!FileSystem, R!Physical
      <4>3. IsPrefix(R!TrellisDir, R!TasksDir)
        <5>1. R!TasksDir \in Paths /\ Len(R!TasksDir) = k + 2 /\ (\A i \in 1 .. k : R!TasksDir[i] = Root[i])
              /\ R!TasksDir[k + 1] = ".trellis"
          BY Places
        <5>2. k + 2 <= Len(R!TasksDir)
          BY <1>1, <5>1
        <5> QED
          BY <5>1, <5>2, BelowIs DEF IsStrictPrefix
      <4>4. SubSeq(R!TrellisDir, 1, k + 1) = R!TrellisDir /\ Len(R!TrellisDir) = k + 1
        BY Places, SubSeqFull DEF Paths
      <4> QED
        BY <4>2, <4>3, <4>4 DEF IsPrefix
    <3>2. at[1] = Leads(Root, ".trellis")
      BY <2>2, <2>3
    <3>3. Append(Root, ".trellis") = R!TrellisDir
      BY DEF R!TrellisDir
    <3> QED
      BY <3>1, <3>2, <3>3 DEF Leads
  <2>5. Safe(at[2])
    <3> DEFINE next == Append(R!TrellisDir, segs[2])
    <3>1. next \in Paths /\ IsStrictPrefix(R!TrellisDir, next)
      <4>1. /\ R!TrellisDir \in Paths /\ Len(R!TrellisDir) = k + 1
            /\ (\A i \in 1 .. k : R!TrellisDir[i] = Root[i]) /\ R!TrellisDir[k + 1] = ".trellis"
        BY Places
      <4>2. next \in Paths /\ Len(next) = Len(R!TrellisDir) + 1 /\ \A i \in 1 .. Len(R!TrellisDir) : next[i] = R!TrellisDir[i]
        BY <2>2, <4>1, Appended
      <4> HIDE DEF next
      <4>3. k + 2 <= Len(next) /\ (\A i \in 1 .. k : next[i] = Root[i]) /\ next[k + 1] = ".trellis"
        BY <1>1, <4>1, <4>2
      <4> QED
        BY <4>2, <4>3, BelowIs
    <3>2. at[2] = Leads(R!TrellisDir, segs[2])
      <4>1. 2 - 1 = 1
        OBVIOUS
      <4> QED
        BY <2>2, <2>3, <2>4, <4>1
    <3>3. next \in DOMAIN Link => Safe(Link[next])
      BY <3>1, LinkSafe DEF IsStrictPrefix
    <3>4. Safe(next)
      BY <3>1 DEF Safe
    <3> QED
      BY <2>2, <3>2, <3>3, <3>4 DEF Leads
  <2>6. Safe(at[n])
    <3>1. \A i \in 1 .. n : at[i] = Leads(at[i - 1], segs[i]) /\ segs[i] \in Segment /\ segs[i] # ".."
      BY <1>1, <2>3
    <3>2. at \in [0 .. n -> Paths]
      BY <2>3
    <3> DEFINE j == 2
    <3>3. j \in 0 .. n /\ Safe(at[j])
      BY <2>2, <2>5
    <3> HIDE DEF n, j
    <3> QED
      BY <1>1, <3>1, <3>2, <3>3, SafeWalk
  <2> QED
    BY <1>3, <2>3, <2>6
<1> QED
  BY <1>2, <1>3 DEF R!Start

LEMMA Refers ==
  ASSUME NEW r, r.abs = FALSE, r = [abs |-> FALSE, segs |-> r.segs], r.segs \in Paths, Len(r.segs) # 0,
         Len(r.segs) = 1 \/ r.segs[1] # ".", Len(r.segs) > 1 => r.segs[2] # ".",
         \A i \in 1 .. Len(r.segs) : r.segs[i] # ".."
  PROVE  Safe(R!Walk(R!Start(R!Normalized(r)), R!Normalized(r).segs))
<1>1. R!Stripped(r.segs) = r.segs
  BY StrippedSame
<1> DEFINE segs == IF Len(r.segs) > 1 /\ Head(r.segs) = "tasks" THEN <<".trellis">> \o r.segs ELSE r.segs
           n == R!Normalized(r)
<1>2. n.abs = FALSE /\ n.segs = segs
  <2>1. n = [r EXCEPT !.segs = segs]
    BY <1>1 DEF R!Normalized
  <2>2. [r EXCEPT !.segs = segs] = [abs |-> FALSE, segs |-> segs]
    <3>1. \A a, b, s : [[abs |-> a, segs |-> b] EXCEPT !.segs = s] = [abs |-> a, segs |-> s]
      OBVIOUS
    <3> DEFINE b == r.segs
    <3>2. r = [abs |-> FALSE, segs |-> b]
      OBVIOUS
    <3> HIDE DEF segs, b
    <3>3. [[abs |-> FALSE, segs |-> b] EXCEPT !.segs = segs] = [abs |-> FALSE, segs |-> segs]
      BY <3>1, Zenon
    <3> QED
      BY <3>2, <3>3, Zenon
  <2> HIDE DEF n, segs
  <2> QED
    BY <2>1, <2>2
<1>3. /\ segs \in Paths /\ Len(segs) # 0 /\ (Len(segs) > 1 => segs[2] # ".")
      /\ \A i \in 1 .. Len(segs) : segs[i] # ".."
  <2>1. CASE Len(r.segs) > 1 /\ Head(r.segs) = "tasks"
    <3> DEFINE a == <<".trellis">>
    <3>1. a \in Paths /\ Len(a) = 1 /\ a[1] = ".trellis"
      <4>1. ".trellis" \in Segment
        BY FileSystemAssumption, Zenon DEF R!FileSystem
      <4> QED
        BY <4>1, Single, Zenon
    <3>2. segs = a \o r.segs
      BY <2>1
    <3> HIDE DEF a, segs
    <3>3. /\ segs \in Paths /\ Len(segs) = 1 + Len(r.segs)
          /\ \A i \in 1 .. 1 + Len(r.segs) : segs[i] = IF i <= 1 THEN a[i] ELSE r.segs[i - 1]
      <4> DEFINE b == r.segs
      <4>1. b \in Paths
        OBVIOUS
      <4> HIDE DEF b
      <4>2. /\ a \o b \in Seq(Segment) /\ Len(a \o b) = Len(a) + Len(b)
            /\ \A i \in 1 .. Len(a) + Len(b) : (a \o b)[i] = IF i <= Len(a) THEN a[i] ELSE b[i - Len(a)]
        BY <3>1, <4>1, ConcatProperties DEF Paths
      <4> QED
        BY <3>1, <3>2, <4>2, Zenon DEF Paths, b
    <3>4. Len(r.segs) \in Nat /\ Head(r.segs) = r.segs[1]
      BY LenProperties DEF Paths
    <3>5. segs[2] = r.segs[1]
      <4>1. 2 \in 1 .. 1 + Len(r.segs) /\ ~(2 <= 1) /\ 2 - 1 = 1
        BY <2>1, <3>4
      <4> QED
        BY <3>3, <4>1
    <3>6. ASSUME NEW i \in 1 .. Len(segs) PROVE segs[i] # ".."
      <4>1. CASE i = 1
        BY <3>1, <3>3, <3>4, <4>1
      <4>2. CASE i # 1
        <5>1. i \in 1 .. 1 + Len(r.segs) /\ ~(i <= 1) /\ i - 1 \in 1 .. Len(r.segs)
          BY <3>3, <3>4, <4>2
        <5> QED
          BY <3>3, <5>1
      <4> QED
        BY <4>1, <4>2
    <3>7. Len(segs) # 0
      BY <3>3, <3>4
    <3> QED
      BY <2>1, <3>3, <3>4, <3>5, <3>6, <3>7
  <2>2. CASE ~(Len(r.segs) > 1 /\ Head(r.segs) = "tasks")
    BY <2>2
  <2> QED
    BY <2>1, <2>2
<1> HIDE DEF segs, n
<1> QED
  BY <1>2, <1>3, StartsSafe DEF n

\* What is stored of a directory of the repository leads to one within .trellis.
LEMMA StoredIs ==
  ASSUME NEW d \in Dirs, R!Within(d), R!Stored(d).segs # <<>>
  PROVE  \E e \in Dirs : IsStrictPrefix(R!TrellisDir, e) /\ R!Stored(d) = R!Relative(e)
<1> DEFINE r == R!Relative(d)
           e == R!ResolveRef(r)
           n == R!Normalized(r)
<1>1. e \in Dirs /\ R!Stored(d) = R!Relative(e)
  BY DEF R!Stored, R!Canonical
<1>2. /\ r.abs = FALSE /\ r = [abs |-> FALSE, segs |-> r.segs] /\ r.segs \in Paths /\ Len(r.segs) # 0
      /\ (Len(r.segs) = 1 \/ r.segs[1] # ".") /\ (Len(r.segs) > 1 => r.segs[2] # ".")
      /\ \A i \in 1 .. Len(r.segs) : r.segs[i] # ".."
  <2>1. /\ r.abs = FALSE /\ r = [abs |-> FALSE, segs |-> r.segs] /\ r.segs \in Paths /\ Len(r.segs) # 0
    BY RelativeIs
  <2>2. CASE d = Root
    <3>1. r.segs = <<".">>
      BY <2>2, RelativeIs
    <3>2. \A s : Len(<<s>>) = 1 /\ <<s>>[1] = s
      OBVIOUS
    <3>3. Len(r.segs) = 1 /\ r.segs[1] = "."
      BY <3>1, <3>2, Zenon
    <3>4. \A i \in 1 .. Len(r.segs) : i = 1
      BY <3>3
    <3> HIDE DEF r
    <3> QED
      BY <2>1, <3>3, <3>4
  <2>3. CASE d # Root
    <3>1. /\ Len(r.segs) = Len(d) - Len(Root)
          /\ \A i \in 1 .. Len(d) - Len(Root) : r.segs[i] = d[Len(Root) + i] /\ d[Len(Root) + i] \notin {".", ".."}
      BY <2>3, RelativeIs
    <3>2. Len(r.segs) \in Nat
      BY <2>1, LenProperties DEF Paths
    <3> HIDE DEF r
    <3>3. \A i \in 1 .. Len(r.segs) : r.segs[i] # "." /\ r.segs[i] # ".."
      BY <3>1
    <3>4. 1 \in 1 .. Len(r.segs) /\ (Len(r.segs) > 1 => 2 \in 1 .. Len(r.segs))
      BY <2>1, <3>2
    <3> QED
      BY <2>1, <3>3, <3>4
  <2> QED
    BY <2>2, <2>3
<1> DEFINE x == R!Walk(R!Start(n), n.segs)
<1>3. Safe(x)
  <2> HIDE DEF r
  <2> QED
    BY <1>2, Refers
<1>4. e = IF R!Within(x) THEN x ELSE <<>>
  BY DEF R!ResolveRef, R!Contained, R!NoDir
<1> HIDE DEF x, r, n
<1>5. e = x /\ R!Within(x)
  BY <1>1, <1>4, DirIs
<1>6. IsPrefix(Root, x)
  BY <1>5 DEF R!Within, R!IsPrefix, IsPrefix
<1>7. IsStrictPrefix(R!TrellisDir, e)
  BY <1>3, <1>5, <1>6 DEF Safe
<1> QED
  BY <1>1, <1>7

\* A directory is what its reference says of it.
LEMMA RelativeOne ==
  ASSUME NEW d \in Dirs, NEW e \in Dirs, R!Within(d), R!Within(e), d # Root, e # Root,
         R!Relative(d) = R!Relative(e)
  PROVE  d = e
<1> DEFINE k == Len(Root)
<1>1. /\ d \in Paths /\ e \in Paths /\ Len(d) \in Nat /\ Len(e) \in Nat /\ k \in Nat
      /\ k <= Len(d) /\ k <= Len(e) /\ \A i \in 1 .. k : d[i] = Root[i] /\ e[i] = Root[i]
  BY DirIs, Places, WithinIs
<1>2. /\ Len(R!Relative(d).segs) = Len(d) - k
      /\ \A i \in 1 .. Len(d) - k : R!Relative(d).segs[i] = d[k + i]
  BY RelativeIs
<1>3. /\ Len(R!Relative(e).segs) = Len(e) - k
      /\ \A i \in 1 .. Len(e) - k : R!Relative(e).segs[i] = e[k + i]
  BY RelativeIs
<1> HIDE DEF k
<1>4. Len(d) = Len(e)
  BY <1>1, <1>2, <1>3
<1>5. ASSUME NEW i \in 1 .. Len(d) PROVE d[i] = e[i]
  <2>1. CASE i <= k
    BY <1>1, <2>1
  <2>2. CASE ~(i <= k)
    <3>1. i - k \in 1 .. Len(d) - k /\ i - k \in 1 .. Len(e) - k /\ k + (i - k) = i
      BY <1>1, <1>4, <2>2
    <3>2. d[i] = R!Relative(d).segs[i - k] /\ e[i] = R!Relative(e).segs[i - k]
      BY <1>2, <1>3, <3>1
    <3> QED
      BY <3>2
  <2> QED
    BY <2>1, <2>2
<1> QED
  BY <1>1, <1>4, <1>5, SeqEqual DEF Paths

\* What a command takes for a directory is in the repository.
LEMMA TakenWithin == ASSUME NEW r, NEW d \in R!ResolveDir(r) \cap Dirs PROVE R!Within(d)
<1>1. d # R!NoDir
  BY DirIs DEF R!NoDir
<1>2. \A p, s : d = R!Contained(p, s) => R!Within(d)
  BY <1>1 DEF R!Contained
<1>3. ASSUME NEW x, d = IF x = R!NoDir THEN R!Contained(Root, R!Stripped(r.segs)) ELSE IF R!Within(x) THEN x ELSE R!NoDir
      PROVE  R!Within(d)
  BY <1>1, <1>2, <1>3
<1> QED
  BY <1>2, <1>3 DEF R!ResolveDir

\* However a directory is named, start takes none outside of the repository, and
\* the pointer that it stores leads all four readers to one directory in it, for a
\* directory within .trellis back to that one: the part PointerLeadsBack of
\* PointersSound, for any file system that keeps FileSystem (paths.py:236-256).
THEOREM PointersLeadBack == PointerLeadsBack
<1> SUFFICES ASSUME NEW d \in R!ResolveDir(ref) \cap Dirs
             PROVE  /\ IsPrefix(Root, d)
                    /\ IsStrictPrefix(R!TrellisDir, d) =>
                         R!Stored(d).segs # <<>> /\ R!ResolveRef(R!Stored(d)) = d
                    /\ R!Stored(d).segs # <<>> =>
                         /\ IsPrefix(Root, R!ResolveRef(R!Stored(d)))
                         /\ {R!CurrentTaskAbs(R!Stored(d)), R!SessionStartDir(R!Stored(d)),
                             R!PromptDir(R!Stored(d))} = {R!ResolveRef(R!Stored(d))}
  BY DEF PointerLeadsBack
<1>1. R!Within(d) /\ d \in Dirs
  BY TakenWithin
<1>2. IsPrefix(Root, d)
  BY <1>1 DEF R!Within, R!IsPrefix, IsPrefix
<1>3. ASSUME IsStrictPrefix(R!TrellisDir, d)
      PROVE  R!Stored(d).segs # <<>> /\ R!ResolveRef(R!Stored(d)) = d
  <2>1. R!Stored(d) = R!Relative(d) /\ R!ResolveRef(R!Relative(d)) = d
    BY <1>1, <1>3, Back DEF R!Stored
  <2>2. R!Relative(d).segs # <<>>
    BY <1>1, RelativeIs
  <2> QED
    BY <2>1, <2>2
<1>4. ASSUME R!Stored(d).segs # <<>>
      PROVE  /\ IsPrefix(Root, R!ResolveRef(R!Stored(d)))
             /\ {R!CurrentTaskAbs(R!Stored(d)), R!SessionStartDir(R!Stored(d)),
                 R!PromptDir(R!Stored(d))} = {R!ResolveRef(R!Stored(d))}
  <2>1. PICK e \in Dirs : IsStrictPrefix(R!TrellisDir, e) /\ R!Stored(d) = R!Relative(e)
    BY <1>1, <1>4, StoredIs
  <2>2. /\ R!Within(e) /\ R!ResolveRef(R!Relative(e)) = e /\ R!CurrentTaskAbs(R!Relative(e)) = e
        /\ R!SessionStartDir(R!Relative(e)) = e /\ R!PromptDir(R!Relative(e)) = e
    BY <2>1, Back
  <2>3. IsPrefix(Root, e)
    BY <2>2 DEF R!Within, R!IsPrefix, IsPrefix
  <2> QED
    BY <2>1, <2>2, <2>3
<1> QED
  BY <1>2, <1>3, <1>4

\* Exactly the pointers that lead to an archived task are removed, and nothing in
\* the archive is archived again: the part ArchiveClearsPointers of PointersSound
\* (task_utils.py:72-93, active_task.py:733-755).
THEOREM PointersCleared == ArchiveClearsPointers
<1> SUFFICES ASSUME NEW d \in R!ResolveDir(ref) \cap Dirs, R!IsTask(d)
             PROVE  /\ ~IsPrefix(Append(R!TasksDir, "archive"), d)
                    /\ \A other \in {e \in Dirs : R!Within(e)} :
                         R!Stored(other).segs # <<>> =>
                           (R!Cleared(R!Stored(other), d) <=> R!ResolveRef(R!Stored(other)) = d)
  BY DEF ArchiveClearsPointers
<1>1. R!Within(d) /\ d \in Dirs
  BY TakenWithin
<1> DEFINE k == Len(Root)
<1>2. /\ d \in Paths /\ d # <<>> /\ Len(d) \in Nat /\ k \in Nat
      /\ R!TasksDir \in Paths /\ Len(R!TasksDir) = k + 2 /\ (\A i \in 1 .. k : R!TasksDir[i] = Root[i])
      /\ R!TasksDir[k + 1] = ".trellis"
  BY <1>1, DirIs, Places
<1>3. /\ Len(d) = k + 3 /\ (\A i \in 1 .. k + 2 : d[i] = R!TasksDir[i]) /\ d[Len(d)] # "archive"
  <2>1. SubSeq(d, 1, Len(d) - 1) = R!TasksDir /\ d[Len(d)] # "archive"
    BY <1>2 DEF R!IsTask, R!Parent, R!Last
  <2>2. Len(d) # 0
    BY <1>2
  <2>3. Len(d) - 1 \in 0 .. Len(d)
    BY <1>2, <2>2
  <2>4. 0 \in 0 .. Len(d) /\ Len(d) - 1 \in 0 .. Len(d) /\ 0 + 1 = 1
    BY <1>2, <2>3
  <2>5. Len(R!TasksDir) = (Len(d) - 1) - 0 /\ \A i \in 1 .. (Len(d) - 1) - 0 : R!TasksDir[i] = d[0 + i]
    BY <1>2, <2>1, <2>4, SubIs
  <2> HIDE DEF k
  <2>6. Len(d) = k + 3
    BY <1>2, <2>5
  <2> QED
    BY <1>2, <2>1, <2>5, <2>6
<1> HIDE DEF k
<1>4. ~IsPrefix(Append(R!TasksDir, "archive"), d)
  <2> DEFINE a == Append(R!TasksDir, "archive")
  <2>1. "archive" \in Segment
    BY FileSystemAssumption, Zenon DEF R!FileSystem
  <2>2. a \in Paths /\ Len(a) = Len(R!TasksDir) + 1 /\ a[Len(R!TasksDir) + 1] = "archive"
    BY <1>2, <2>1, Appended, Zenon
  <2> HIDE DEF a
  <2>3. Len(a) = Len(d) /\ a[Len(d)] = "archive" /\ Len(d) \in 1 .. Len(a)
    BY <1>2, <1>3, <2>2
  <2> SUFFICES ASSUME IsPrefix(a, d) PROVE FALSE
    BY DEF a
  <2>4. \A i \in 1 .. Len(a) : a[i] = d[i]
    BY <1>2, <2>2, PrefixIs
  <2> QED
    BY <1>3, <2>3, <2>4
<1>5. IsStrictPrefix(R!TrellisDir, d)
  <2>1. k + 2 <= Len(d) /\ (\A i \in 1 .. k : d[i] = Root[i]) /\ d[k + 1] = ".trellis"
    BY <1>2, <1>3
  <2> QED
    BY <1>2, <2>1, BelowIs DEF k
<1>6. ASSUME NEW other \in Dirs, R!Within(other), R!Stored(other).segs # <<>>
      PROVE  R!Cleared(R!Stored(other), d) <=> R!ResolveRef(R!Stored(other)) = d
  <2>1. PICK e \in Dirs : IsStrictPrefix(R!TrellisDir, e) /\ R!Stored(other) = R!Relative(e)
    BY <1>6, StoredIs
  <2>2. R!Within(e) /\ e # Root /\ R!ResolveRef(R!Relative(e)) = e /\ R!Canonical(R!Relative(e)) = R!Relative(e)
    BY <2>1, Back
  <2>3. d # Root
    BY <1>1, <1>5, Back
  <2>4. R!Canonical([abs |-> TRUE, segs |-> d]) = R!Relative(d)
    BY <1>1, AbsoluteBack, Canonicals
  <2>5. R!Relative(d).segs # <<>>
    BY <1>1, RelativeIs
  <2>6. R!Cleared(R!Stored(other), d) <=> R!Relative(d) = R!Relative(e)
    BY <2>1, <2>2, <2>4, <2>5 DEF R!Cleared
  <2>7. R!Relative(d) = R!Relative(e) <=> d = e
    BY <1>1, <2>2, <2>3, RelativeOne
  <2> QED
    BY <2>1, <2>2, <2>6, <2>7
<1> QED
  BY <1>4, <1>6

\* A pointer leads to its task for as long as there is one, back from every
\* spelling of it, and nowhere once it is archived, for any windows, tasks and
\* commands in turn (paths.py:236-256, task_utils.py:72-93).
THEOREM PointersAreSound == MCSpec => []PointersSound
<1>1. NoDanglingSession => PointersSound
  BY PointersLeadBack, PointersCleared DEF PointersSound
<1> QED
  BY <1>1, NothingDangles, PTL
=============================================================================
