-------------------------- MODULE SessionPointers ---------------------------
(***************************************************************************)
(* What the session files of .trellis/.runtime/sessions promise: each      *)
(* window of an AI tool has a pointer of its own, which only ever names a  *)
(* task that window asked to start, and a step changes the pointer of one  *)
(* window at most.  Module ActiveTask implements it.                       *)
(***************************************************************************)
CONSTANTS Window, Task, NoTask

VARIABLES
  asked,    \* asked[w]: tasks window w has asked to start so far
  pointer   \* pointer[w]: the task window w works on, or NoTask

vars == <<asked, pointer>>

Init ==
  /\ asked = [w \in Window |-> {}]
  /\ pointer = [w \in Window |-> NoTask]

Ask(w, t) ==
  /\ asked' = [asked EXCEPT ![w] = @ \cup {t}]
  /\ UNCHANGED pointer

Set(w) ==
  /\ \E t \in asked[w] : pointer' = [pointer EXCEPT ![w] = t]
  /\ UNCHANGED asked

Clear(w) ==
  /\ pointer' = [pointer EXCEPT ![w] = NoTask]
  /\ UNCHANGED asked

Next == \E w \in Window : (\E t \in Task : Ask(w, t)) \/ Set(w) \/ Clear(w)

Spec == Init /\ [][Next]_vars
=============================================================================
