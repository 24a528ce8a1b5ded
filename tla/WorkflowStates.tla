--------------------------- MODULE WorkflowStates ---------------------------
(***************************************************************************)
(* The states and steps of workflow.md: the block that the hook of every   *)
(* prompt shows for the state of the task (inject-workflow-state.py), the  *)
(* index and the steps that the scripts show (common/workflow_phase.py),   *)
(* and the state of the task as a session starts with it                   *)
(* (session-start.py).                                                     *)
(*                                                                         *)
(* A line is a marker that opens or closes the block of a state ("open",   *)
(* "close" with its tag), the heading of the index or of the first phase,  *)
(* another heading of their level, the heading of a step ("step" with its  *)
(* number), a rule, a platform marker, text, or blank.  The tag of a state *)
(* is <<status>> or <<status, "inline">>.                                  *)
(***************************************************************************)
EXTENDS WorkflowText

\* "Refer to workflow.md for current step."
Generic == <<[kind |-> "generic"]>>

\* The first of some places, or else another.
First(set, else) == IF set = {} THEN else ELSE CHOOSE i \in set : \A j \in set : i <= j

\* strip: blank lines at the ends are dropped.
Strip(ls) ==
  LET full == {i \in DOMAIN ls : ~Blank(ls[i])}
  IN  IF full = {} THEN <<>>
      ELSE SubSeq(ls, First(full, 0), CHOOSE i \in full : \A j \in full : j <= i)

-----------------------------------------------------------------------------
(* Blocks.                                                                 *)

\* Where _TAG_RE ends a block that opens in line i, 0 when it does not match:
\* at the first marker of the same tag, but the line after the opening one, and
\* the first line that is not blank, count as content if there is another.
End(ls, i) ==
  LET closes == {j \in i + 2 .. Len(ls) : ls[j].kind = "close" /\ ls[j].tag = ls[i].tag}
      body   == First({j \in i + 1 .. Len(ls) : ls[j].kind # "blank"}, Len(ls) + 1)
  IN  First({j \in closes : j > body}, First(closes, 0))

\* The matches <<first line, last line>>, which do not overlap: a marker within
\* a block is content.  After line i a match may begin at next[i].
Blocks(ls) ==
  LET Opens(i) == ls[i].kind = "open" /\ End(ls, i) # 0
      next[i \in 0 .. Len(ls)] ==
        IF i = 0 THEN 1
        ELSE IF i >= next[i - 1] /\ Opens(i) THEN End(ls, i) + 1 ELSE next[i - 1]
  IN  {<<i, End(ls, i)>> : i \in {j \in DOMAIN ls : j >= next[j - 1] /\ Opens(j)}}

\* load_breadcrumbs: the bodies by tag; of several, the last that is not empty.
Body(ls, b) == Strip(SubSeq(ls, b[1] + 1, b[2] - 1))
Breadcrumbs(ls) ==
  LET full      == {b \in Blocks(ls) : Body(ls, b) # <<>>}
      Under(tag) == {b \in full : ls[b[1]].tag = tag}
  IN  [tag \in {ls[b[1]].tag : b \in full} |->
         Body(ls, CHOOSE b \in Under(tag) : \A c \in Under(tag) : c[1] <= b[1])]

\* Mutant: no other block stands in for a missing one.
BreadcrumbStrict(templates, status, key) ==
  IF key \in DOMAIN templates THEN templates[key] ELSE Generic

\* build_breadcrumb: the block of the key, or else of the status, or else a line
\* that names neither.
Breadcrumb(templates, status, key) ==
  IF key \in DOMAIN templates THEN templates[key]
  ELSE IF <<status>> \in DOMAIN templates THEN templates[<<status>>]
  ELSE Generic

-----------------------------------------------------------------------------
(* The index and the steps.                                                *)

\* The section of the index: from its heading to that of the first phase.
Section(ls) ==
  LET start == First({i \in DOMAIN ls : ls[i].kind = "index"}, 0)
      end   == First({i \in start + 1 .. Len(ls) : ls[i].kind = "phase"}, Len(ls) + 1)
  IN  [start |-> start, end |-> end]

\* The lines of a section that belong to no block.
Outside(section) ==
  Picked(section, DOMAIN section \ UNION {b[1] .. b[2] : b \in Blocks(section)})

\* The lines that are of none of some kinds.
Without(ls, kinds) == Picked(ls, {i \in DOMAIN ls : ls[i].kind \notin kinds})

\* get_phase_index.
PhaseIndex(ls) ==
  LET s == Section(ls)
  IN  IF s.start = 0 THEN <<>> ELSE Strip(Outside(Strip(SubSeq(ls, s.start, s.end - 1))))

\* Mutant: the blocks of states go the way of the platform markers: their
\* markers are dropped, and their text stays.
SessionIndexMarkersOnly(ls) ==
  LET s == Section(ls)
  IN  IF s.start = 0 THEN <<>>
      ELSE Without(SubSeq(ls, s.start, s.end - 1), {"marker", "open", "close"})

\* _build_workflow_toc: the same section as the session starts, also without
\* platform markers, but with the text of every platform.
SessionIndex(ls) ==
  LET s == Section(ls)
  IN  IF s.start = 0 THEN <<>>
      ELSE Without(Outside(SubSeq(ls, s.start, s.end - 1)), {"marker"})

Heads == {"step", "index", "phase", "heading", "rule"}

\* Mutant: a rule does not end a step.
StepPastRules(ls, id) ==
  LET start == First({i \in DOMAIN ls : ls[i].kind = "step" /\ ls[i].tag = id}, 0)
      end   == First({i \in start + 1 .. Len(ls) : ls[i].kind \in Heads \ {"rule"}}, Len(ls) + 1)
  IN  IF start = 0 THEN <<>> ELSE Strip(SubSeq(ls, start, end - 1))

\* get_step.
Step(ls, id) ==
  LET start == First({i \in DOMAIN ls : ls[i].kind = "step" /\ ls[i].tag = id}, 0)
      end   == First({i \in start + 1 .. Len(ls) : ls[i].kind \in Heads}, Len(ls) + 1)
  IN  IF start = 0 THEN <<>> ELSE Strip(SubSeq(ls, start, end - 1))

-----------------------------------------------------------------------------
(* The state of the task.  A pointer is "none", "stale" or "set"; of the    *)
(* task it leads to, json is "missing", "torn" or "read", status is "" when *)
(* task.json has none, and prd says whether prd.md is there.               *)

\* get_active_task of inject-workflow-state.py, as main shows it.
PromptStatus(pointer, task) ==
  IF pointer = "none" THEN "no_task"
  ELSE IF pointer = "stale" THEN "stale"
  ELSE IF task.json # "read" \/ task.status = "" THEN "no_task"
  ELSE task.status

\* Mutant: the missing prd.md is noticed before the end of the task.
SessionStatusPrdFirst(pointer, task) ==
  LET status == IF task.json = "read" /\ task.status # "" THEN task.status ELSE "unknown" IN
  IF pointer = "none" THEN "no_task"
  ELSE IF pointer = "stale" THEN "stale"
  ELSE IF ~task.prd THEN "planning"
  ELSE status

\* _get_task_status of session-start.py.  A status that is there but empty
\* is shown as it is.
SessionStatus(pointer, task) ==
  LET status == IF task.json = "read" THEN task.status ELSE "unknown" IN
  IF pointer = "none" THEN "no_task"
  ELSE IF pointer = "stale" THEN "stale"
  ELSE IF status = "completed" THEN "completed"
  ELSE IF ~task.prd THEN "planning"
  ELSE status
=============================================================================
