---------------------------- MODULE MCAutoCommit ----------------------------
(***************************************************************************)
(* AutoCommit for TLC.  Commands run one at a time (alone), one at a time  *)
(* beside a parallel branch that is forked and merged (branches), or at    *)
(* once in two windows (overlap); all of them with kills at every step,    *)
(* rejected commits and refused adds.  The commands are bounded.           *)
(***************************************************************************)
EXTENDS AutoCommit, TLC

CONSTANTS
  MaxCommands,   \* MaxCommands[m]: bound, commands and edits of mode m
  MaxKills       \* bound: commands killed

VARIABLES
  mode,          \* "alone", "branches" or "overlap"
  left, kills,   \* commands and kills still allowed
  loose          \* paths left staged when the running command began

mcvars == <<vars, mode, left, kills, loose>>

MCSize        == "short" :> 1 @@ "long" :> 2 @@ "huge" :> 4
MCMaxCommands == "alone" :> 5 @@ "branches" :> 4 @@ "overlap" :> 3
Symmetry      == Permutations(Window) \cup Permutations(Task)

Serial == mode # "overlap"
Busy   == {w \in Window : ~Free(w)}
Loose  == {p \in Path : staged[p] # head[p]}

MCInit ==
  /\ mode \in {"alone", "branches", "overlap"}
  /\ left = MaxCommands[mode]
  /\ kills = MaxKills
  /\ loose = {}
  /\ Init /\ GitInit

MCNext ==
  /\ UNCHANGED mode
  /\ \/ /\ left > 0 /\ left' = left - 1
        /\ UNCHANGED kills
        /\ loose' = Loose
        /\ Serial => Busy = {}
        /\ \/ \E w \in Window : Begins(w)
           \/ \E t \in Task : EditTask(t)
           \/ mode = "branches" /\ \E s \in Session : Fork(s)
     \/ /\ UNCHANGED left
        /\ UNCHANGED loose
        /\ \/ Serial /\ Busy = {} /\ UNCHANGED kills /\ Merge
           \/ UNCHANGED kills /\ \E w \in Window : Goes(w)
           \/ kills > 0 /\ kills' = kills - 1 /\ \E w \in Window : Dies(w)

MCSpec == MCInit /\ [][MCNext]_mcvars

-----------------------------------------------------------------------------
\* Every variable has its type.
TypeOK ==
  /\ developer \in BOOLEAN
  /\ \A n \in DOMAIN page : n \in Nat \ {0} /\ page[n] \subseteq [id : Session, num : Nat]
  /\ IsIndex(index) => index.rows \subseteq [id : Session, num : Nat] /\ index.active \in Nat
  /\ dir \in [Dirs -> 0 .. MaxVersion]
  /\ \A t \in Task : dir[Live(t)] = Absent \/ dir[Past(t)] = Absent
  /\ \A p \in Dirs : {staged[p], head[p]} \subseteq 0 .. MaxVersion
  /\ \A w \in Window : git[w].paths \subseteq Path /\ git[w].task \in Task \cup {NoTask}
  /\ archived \subseteq Task

\* When commands do not overlap, each session that index.md lists is written
\* on a page, on disk and in HEAD: wherever commands are killed, commits are
\* rejected, and whichever index a merge with a parallel branch picks
\* (add_session.py:204-224 "safe to resolve by picking either side").
ListedSessionsWritten ==
  Serial => Backed(page, index) /\ Backed(head[Pages].page, head[Pages].index)

\* When commands do not overlap, the history is numbered 1, 2, 3 and so on
\* without gaps or doubles, although a killed command leaves a session of the
\* next number on a page, and a merge may bring such sessions from a branch.
HistoryNumbered == Serial => Numbered(index) /\ Numbered(head[Pages].index)

\* When commands do not overlap and no branch is merged, a page exceeds the
\* line limit only with a single session on it (workflow.md:82).
PagesBounded == mode = "alone" => Bounded(page)

\* When commands do not overlap, no session once on a page ever disappears:
\* a new page never empties one that is there.
SessionsKept == [][Serial => Entries(page) \subseteq Entries(page')]_mcvars

\* When commands do not overlap, a session commits the journal and at most one
\* task, an archive the archive, its source and the children it rewrote, and
\* each beside that only what an earlier command had left staged: never the
\* uncommitted changes of another task (add_session.py:443-446,
\* task_store.py:620-624).
CommitScope ==
  [][Serial => \A w \in Window :
       (Step(w, "commit") /\ head' # head) =>
         LET taken == {p \in Path : head'[p] # head[p]} \ loose IN
         IF git[w].task = NoTask
         THEN Cardinality(taken \ {Pages}) <= 1
         ELSE taken \subseteq git[w].paths \cup {Live(git[w].task)}]_mcvars

\* When commands do not overlap, an archive that reported success leaves no
\* trace of its source in the git index or in HEAD: no phantom delete
\* (task_store.py:663-675).
NoPhantomDelete ==
  Serial => \A t \in archived : staged[Live(t)] = Absent /\ head[Live(t)] = Absent

\* A commit takes a task out of tasks/ only together with its archived copy,
\* also when an earlier archive was killed or refused half way.
CommitKeepsTask ==
  [][Serial => \A t \in Task : head[Live(t)] # Absent /\ head'[Live(t)] = Absent
       => head'[Past(t)] # Absent]_mcvars

\* Every variable has its type, sessions are numbered without gaps, and pages
\* keep to the line limit.
HistoryOK == TypeOK /\ HistoryNumbered /\ PagesBounded
=============================================================================
