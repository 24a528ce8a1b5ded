----------------------------- MODULE MCTaskTree -----------------------------
(***************************************************************************)
(* TaskTree for TLC.  A behaviour either runs its commands one after the   *)
(* other (serial) or lets those of two windows overlap; both with kills at *)
(* every point.  The number of commands is bounded.                        *)
(***************************************************************************)
EXTENDS TaskTree, TLC

CONSTANTS
  ta, tc,        \* tasks: the name of tc ends with "-" and the name of ta
  Existing,      \* tasks that exist, freshly created, when a behaviour starts
  MaxSerial,     \* bound: commands of a serial behaviour
  MaxOverlap     \* bound: commands of an overlapping behaviour

VARIABLES
  serial,        \* whether commands run one at a time
  left           \* commands that may still begin

mcvars == <<vars, serial, left>>

MCEndsWith == {<<ta, tc>>}
Symmetry   == Permutations(Window)

Running(r) == {w \in Window : r[w] # Idle}

MCInit ==
  /\ where = [t \in Task |-> IF t \in Existing THEN "active" ELSE "absent"]
  /\ json = [t \in Task |-> IF t \in Existing THEN Fresh ELSE NoJson]
  /\ pointer = [w \in Window |-> NoTask]
  /\ run = [w \in Window |-> Idle]
  /\ serial \in BOOLEAN
  /\ left = IF serial THEN MaxSerial ELSE MaxOverlap

MCNext ==
  /\ UNCHANGED serial
  /\ \/ /\ left > 0
        /\ left' = left - 1
        /\ \E w \in Window : Commands(w)
        /\ serial => Cardinality(Running(run')) <= 1
     \/ /\ UNCHANGED left
        /\ \E w \in Window : Steps(w) \/ Killed(w)

MCSpec == MCInit /\ [][MCNext]_mcvars

-----------------------------------------------------------------------------
\* Links of a child to an active parent that does not list it: unless another
\* task lists it, such a child is printed neither as a root nor below one.
OneSided == {t \in HasJson : /\ json[t].parent \in HasJson
                              /\ t \notin json[json[t].parent].children}

\* A task with its ancestors, and the tasks that are their own ancestors.
Upwards(t) ==
  LET up[n \in 0 .. Cardinality(Task)] ==
        IF n = 0 THEN {t}
        ELSE LET found == up[n - 1] IN found \cup (HasJson \cap {json[x].parent : x \in found})
  IN  up[Cardinality(Task)]
Looping == {t \in HasJson : json[t].parent \in HasJson /\ t \in Upwards(json[t].parent)}

\* A new one-sided link (the child names a parent that does not list it, so
\* task.py list prints it nowhere) comes only from a remove-subtask that has
\* written the parent's file and not yet the child's, from a create over an
\* existing task, or from linking a task to itself: add-subtask, create
\* --parent and archive write in an order that leaves none behind, wherever
\* they are killed (task_store.py:418-425, 572-588, 751-761).
LinksStayTwoSided ==
  [][serial =>
       \/ OneSided' \subseteq OneSided
       \/ \E w \in Window :
            \/ At(w, "remove", "parent")
            \/ At(w, "create", "write") /\ json[run[w].task] # NoJson
            \/ run[w].task = run[w].parent /\ run[w].task # NoTask]_mcvars

\* A child its parent counts as done stays done, through archiving and through
\* kills in the middle of it, unless its name is created anew over the task
\* (tasks.py:105-107: "so parent progress doesn't regress when children are
\* archived").
DoneNeverRegresses ==
  [][serial =>
       \A p, c \in Task :
         (/\ p \in HasJson /\ c \in json[p].children /\ ChildDone(c)
          /\ p \in HasJson' /\ c \in json'[p].children)
         => \/ ChildDone(c)'
            \/ \E w \in Window : At(w, "create", "write") /\ run[w].task = c
                                 /\ where[c] = "active"]_mcvars

\* When commands do not overlap, no window points at a directory that has been
\* moved away, also when the archive was killed: pointers are cleared before
\* the move (task_store.py:590-595).
NoDanglingPointer ==
  serial => \A w \in Window : pointer[w] # NoTask => where[pointer[w]] = "active"

\* task.py list leaves out a task only when, going up from it, one meets a task
\* its parent does not list or goes round in a loop; archiving a parent, also
\* half way, never hides its children (task.py:329-331: a task whose parent is
\* dangling "must still render flat instead of disappearing").
ListHidesOnlyLoops ==
  serial => \A t \in HasJson \ Printed :
    Upwards(t) \cap (Looping \cup OneSided) # {}

\* Every variable has its type, task directories and task.json files belong
\* together, and no window points at a directory that has been moved away.
PointersOK == TypeOK /\ NoDanglingPointer
=============================================================================
