-------------------------- MODULE AutoCommitProofs --------------------------
(***************************************************************************)
(* Proofs about the journal and the automatic commits, for any sessions,   *)
(* tasks, windows and numbers of commands and kills, and with any branches *)
(* forked and merged in between.                                           *)
(*                                                                         *)
(* The invariant SerialInv says of every copy of the journal, on disk, in  *)
(* the git index, in HEAD and on the branch, that it is Sound; of every    *)
(* task where the working tree, the git index and HEAD have it; and of the *)
(* running command how far it has come with both.  It holds as long as     *)
(* commands do not overlap; while there is no branch either, AloneInv says *)
(* how long pages get.  The types, Kinds, hold in any case.                *)
(***************************************************************************)
EXTENDS MCAutoCommit, FiniteSetTheorems, TLAPS

Entry == [id : Session, num : Nat]
Index == [total : Nat, active : Nat, docs : SUBSET Nat, rows : SUBSET Entry]

\* A journal: pages without gaps, and an index of what is on them, numbered
\* from 1.
Paged(pages, n) == pages \in [1 .. n -> SUBSET Entry]
Sound(pages, i) ==
  /\ \E n \in Nat : Paged(pages, n)
  /\ i \in Index \cup {NoFile, Torn}
  /\ IsIndex(i) => /\ i \in Index
                   /\ 1 \in DOMAIN pages
                   /\ IsFiniteSet(i.rows)
                   /\ Backed(pages, i)
                   /\ Numbered(i)

-----------------------------------------------------------------------------
(* What the operators on journals do.                                      *)

\* Pages are numbered from 1, so the newest is the last.
LEMMA LatestIs == ASSUME NEW pages, NEW n \in Nat, Paged(pages, n) PROVE Latest(pages) = n
<1>1. DOMAIN pages = 1 .. n
  BY DEF Paged
<1>2. CASE n = 0
  BY <1>1, <1>2 DEF Latest
<1>3. CASE n # 0
  <2>1. n \in 1 .. n /\ \A y \in 1 .. n : n >= y
    BY <1>3
  <2>2. \A x \in 1 .. n : (\A y \in 1 .. n : x >= y) => x = n
    BY <2>1
  <2>3. Max(1 .. n) = n
    BY <2>1, <2>2 DEF Max
  <2> QED
    BY <1>1, <2>1, <2>3 DEF Latest
<1> QED
  BY <1>2, <1>3

\* A new page empties none that is there.
LEMMA NewPageAdds ==
  ASSUME NEW pages, NEW n \in Nat, Paged(pages, n)
  PROVE  /\ Paged(NewPage(pages, n + 1), n + 1)
         /\ Entries(NewPage(pages, n + 1)) = Entries(pages)
<1> DEFINE new == NewPage(pages, n + 1)
<1>1. DOMAIN pages = 1 .. n /\ n + 1 \notin 1 .. n /\ 1 .. n + 1 = 1 .. n \cup {n + 1}
  BY DEF Paged
<1>2. /\ DOMAIN new = 1 .. n + 1
      /\ new[n + 1] = {}
      /\ \A k \in 1 .. n : new[k] = pages[k]
      /\ new = [k \in 1 .. n + 1 |-> new[k]]
  BY <1>1 DEF NewPage
<1>3. \A k \in 1 .. n : pages[k] \in SUBSET Entry
  BY DEF Paged
<1> HIDE DEF new
<1>4. Paged(new, n + 1)
  BY <1>1, <1>2, <1>3 DEF Paged
<1>5. Entries(new) = Entries(pages)
  <2>1. \A x : x \in Entries(new) <=> \E k \in 1 .. n + 1 : x \in new[k]
    BY <1>2 DEF Entries
  <2>2. \A x : x \in Entries(pages) <=> \E k \in 1 .. n : x \in pages[k]
    BY <1>1 DEF Entries
  <2>3. \A x : x \in Entries(new) <=> x \in Entries(pages)
    BY <1>1, <1>2, <2>1, <2>2
  <2> QED
    BY <2>3
<1> QED
  BY <1>4, <1>5 DEF new

LEMMA WithEntryAdds ==
  ASSUME NEW pages, NEW n \in Nat, Paged(pages, n), NEW k \in 1 .. n, NEW e \in Entry
  PROVE  /\ Paged(WithEntry(pages, k, e), n)
         /\ Entries(WithEntry(pages, k, e)) = Entries(pages) \cup {e}
<1> DEFINE new == WithEntry(pages, k, e)
<1>1. DOMAIN pages = 1 .. n /\ \A m \in 1 .. n : pages[m] \in SUBSET Entry
  BY DEF Paged
<1>2. /\ DOMAIN new = 1 .. n
      /\ new[k] = pages[k] \cup {e}
      /\ \A m \in (1 .. n) \ {k} : new[m] = pages[m]
      /\ new = [m \in 1 .. n |-> new[m]]
  BY <1>1 DEF WithEntry
<1> HIDE DEF new
<1>3. Paged(new, n)
  BY <1>1, <1>2 DEF Paged
<1>4. Entries(new) = Entries(pages) \cup {e}
  BY <1>1, <1>2 DEF Entries
<1> QED
  BY <1>3, <1>4 DEF new

\* The index of a sound journal with the next session on one of its pages.
LEMMA UpdatedSound ==
  ASSUME NEW pages, NEW i, Sound(pages, i), IsIndex(i),
         NEW new, NEW m \in Nat, Paged(new, m), 1 \in DOMAIN new,
         NEW n \in Nat, NEW e \in Entry, e.num = i.total + 1,
         Entries(pages) \cup {e} \subseteq Entries(new)
  PROVE  Sound(new, Updated(i, new, n, e))
<1> DEFINE up == Updated(i, new, n, e)
<1>1. i \in Index /\ IsFiniteSet(i.rows) /\ i.rows \subseteq Entries(pages)
      /\ {x.num : x \in i.rows} = 1 .. i.total /\ Cardinality(i.rows) = i.total
  BY DEF Sound, Backed, Numbered
<1>2. i.total \in Nat /\ i.rows \subseteq Entry
  BY <1>1 DEF Index
<1>3. up.total = i.total + 1 /\ up.rows = i.rows \cup {e} /\ up \in Index
  BY <1>2 DEF Updated, Index, Paged, Entry
<1> HIDE DEF up
<1>4. IsFiniteSet(up.rows) /\ Cardinality(up.rows) = up.total
  <2>1. e \notin i.rows
    <3>1. \A x \in i.rows : x.num \in 1 .. i.total
      BY <1>1
    <3> QED
      BY <1>2, <3>1
  <2>2. IsFiniteSet(i.rows \cup {e}) /\ Cardinality(i.rows \cup {e}) = Cardinality(i.rows) + 1
    BY <1>1, <2>1, FS_AddElement
  <2> QED
    BY <1>1, <1>3, <2>2
<1>5. {x.num : x \in up.rows} = 1 .. up.total
  BY <1>1, <1>2, <1>3
<1>6. up.rows \subseteq Entries(new)
  BY <1>1, <1>3
<1>7. Sound(new, up)
  BY <1>3, <1>4, <1>5, <1>6 DEF Sound, Backed, Numbered
<1> QED
  BY <1>7 DEF up

\* A journal with more pages and entries than the index knows of.
LEMMA SoundMore ==
  ASSUME NEW pages, NEW i, Sound(pages, i), NEW new, NEW m \in Nat, Paged(new, m),
         Entries(pages) \subseteq Entries(new), DOMAIN pages \subseteq DOMAIN new
  PROVE  Sound(new, i)
BY DEF Sound, Backed

\* A session recorded on a branch.
LEMMA RecordedSound ==
  ASSUME NEW j, Sound(j.page, j.index), IsIndex(j.index), NEW s \in Session
  PROVE  Sound(Recorded(j, s).page, Recorded(j, s).index)
<1> DEFINE e  == [id |-> s, num |-> Total(j.index) + 1]
           k  == IF Full(j.page, s) THEN Latest(j.page) + 1 ELSE Latest(j.page)
           ps == WithEntry(IF k = Latest(j.page) THEN j.page ELSE NewPage(j.page, k), k, e)
<1>1. PICK n \in Nat : Paged(j.page, n)
  BY DEF Sound
<1>2. Latest(j.page) = n /\ n >= 1 /\ k \in {n, n + 1}
  BY <1>1, LatestIs DEF Sound, Paged
<1>3. Total(j.index) = j.index.total /\ j.index.total \in Nat
  BY DEF Total, Sound, Index
<1>4. e \in Entry /\ e.num = j.index.total + 1
  BY <1>3 DEF Entry
<1>5. Recorded(j, s) = [page |-> ps, index |-> Updated(j.index, ps, k, e)]
  BY DEF Recorded
<1> HIDE DEF e, k
<1>6. CASE k = n
  <2>1. ps = WithEntry(j.page, k, e)
    BY <1>2, <1>6
  <2>2. Paged(ps, n) /\ Entries(ps) = Entries(j.page) \cup {e}
    BY <1>1, <1>2, <1>4, <1>6, <2>1, WithEntryAdds
  <2> HIDE DEF ps
  <2>3. 1 \in DOMAIN ps
    BY <1>2, <2>2 DEF Paged
  <2>4. Sound(ps, Updated(j.index, ps, k, e))
    BY <1>2, <1>4, <1>6, <2>2, <2>3, UpdatedSound
  <2> QED
    BY <1>5, <2>4
<1>7. CASE k = n + 1
  <2> DEFINE more == NewPage(j.page, n + 1)
  <2>1. ps = WithEntry(more, k, e)
    BY <1>2, <1>7
  <2>2. Paged(more, n + 1) /\ Entries(more) = Entries(j.page)
    BY <1>1, NewPageAdds
  <2> HIDE DEF more
  <2>3. Paged(ps, n + 1) /\ Entries(ps) = Entries(j.page) \cup {e}
    BY <1>2, <1>4, <1>7, <2>1, <2>2, WithEntryAdds
  <2> HIDE DEF ps
  <2>4. 1 \in DOMAIN ps
    BY <1>2, <2>3 DEF Paged
  <2>5. Sound(ps, Updated(j.index, ps, k, e))
    BY <1>2, <1>4, <1>7, <2>3, <2>4, UpdatedSound
  <2> QED
    BY <1>5, <2>5
<1> QED
  BY <1>2, <1>6, <1>7

\* git merge by union of the pages, with either index.
LEMMA MergedSound ==
  ASSUME NEW pages, NEW i, Sound(pages, i), NEW more, NEW j, Sound(more, j),
         NEW new, new = [n \in DOMAIN pages \cup DOMAIN more |->
                           (IF n \in DOMAIN pages THEN pages[n] ELSE {})
                           \cup (IF n \in DOMAIN more THEN more[n] ELSE {})]
  PROVE  Sound(new, i) /\ Sound(new, j) /\ Entries(pages) \subseteq Entries(new)
<1>1. PICK n \in Nat : Paged(pages, n)
  BY DEF Sound
<1>2. PICK m \in Nat : Paged(more, m)
  BY DEF Sound
<1>3. DOMAIN pages = 1 .. n /\ DOMAIN more = 1 .. m
      /\ (\A k \in 1 .. n : pages[k] \subseteq Entry) /\ (\A k \in 1 .. m : more[k] \subseteq Entry)
  BY <1>1, <1>2 DEF Paged
<1>4. PICK l \in Nat : 1 .. n \cup 1 .. m = 1 .. l
  <2>1. CASE n <= m
    BY <2>1
  <2>2. CASE m < n
    BY <2>2
  <2> QED
    BY <2>1, <2>2
<1>5. DOMAIN new = 1 .. l /\ \A k \in 1 .. l : new[k] \subseteq Entry
  BY <1>3, <1>4
<1>6. Paged(new, l)
  BY <1>3, <1>4, <1>5 DEF Paged
<1>7. (\A k \in 1 .. n : pages[k] \subseteq new[k]) /\ (\A k \in 1 .. m : more[k] \subseteq new[k])
  BY <1>3
<1>8. Entries(pages) \subseteq Entries(new) /\ Entries(more) \subseteq Entries(new)
      /\ DOMAIN pages \subseteq DOMAIN new /\ DOMAIN more \subseteq DOMAIN new
  BY <1>3, <1>4, <1>5, <1>7 DEF Entries
<1> QED
  BY <1>6, <1>8, SoundMore

-----------------------------------------------------------------------------
(***************************************************************************)
(* The invariant.                                                          *)
(***************************************************************************)

RecAts == {"end", "first page", "first index", "first index write", "number", "rotate", "append", "table",
           "truncate", "index", "commit"}
Recs   == [at : RecAts, id : Session \cup {NoSession}, num : Nat, target : Nat,
           full : BOOLEAN, text : Index \cup {NoFile, Torn}]
GitAts == {"end", "add", "commit", "move", "tracked", "rm"}
Gits   == [at : GitAts, task : Task \cup {NoTask}, paths : SUBSET Path, tracked : BOOLEAN]

Typed ==
  /\ rec \in [Window -> Recs]
  /\ git \in [Window -> Gits]
  /\ DOMAIN dir = Dirs /\ DOMAIN staged = Path /\ DOMAIN head = Path
  /\ archived \subseteq Task

\* One command at a time.
Alone == \A v, w \in Window : ~Free(v) /\ ~Free(w) => v = w

\* Every copy of the journal is sound.
Journals ==
  /\ Sound(page, index)
  /\ Sound(staged[Pages].page, staged[Pages].index)
  /\ Sound(head[Pages].page, head[Pages].index)
  /\ branch # NoFile => Sound(branch.page, branch.index)

\* What git knows of the directories of a task: an archived copy in the index is
\* there; a task that is there and not in the index is not in HEAD either; one
\* that HEAD has and the index has no more is archived in the index.
Tree(t) ==
  /\ staged[Past(t)] # Absent => dir[Past(t)] # Absent
  /\ dir[Live(t)] # Absent /\ staged[Live(t)] = Absent => head[Live(t)] = Absent
  /\ staged[Live(t)] = Absent /\ head[Live(t)] # Absent => staged[Past(t)] # Absent
Trees == \A t \in Task : Tree(t)

\* No trace of the source of an archived task.
Away(t) == dir[Live(t)] = Absent /\ staged[Live(t)] = Absent /\ head[Live(t)] = Absent
Gone    == \A t \in archived : Away(t)

\* How far add_session or init_developer has come.
Recording(c) ==
  /\ c.at \in {"number", "rotate", "append", "table"} => c.id \in Session
  /\ c.at \in {"number", "rotate"} => DOMAIN page = 1 .. c.target
  /\ c.at \in {"rotate", "append", "table"} => c.num = Total(index) + 1
  /\ c.at \in {"append", "table"} => IF c.target = 0 THEN DOMAIN page = {}
                                                     ELSE c.target \in DOMAIN page
  /\ c.at = "table" /\ c.target # 0 => [id |-> c.id, num |-> c.num] \in Entries(page)
  /\ c.at \in {"truncate", "index"} => Sound(page, c.text)
  /\ c.at \in {"first index", "first index write"} => 1 \in DOMAIN page

\* How far a commit has come: what it adds is there, and of the task it
\* archives the source is gone and the copy is there, staged, and committed.
Committing(g) ==
  /\ g.at \in {"move", "tracked", "rm"} => g.task # NoTask
  /\ g.at # "end" => \A p \in g.paths \ {Pages} : dir[p] # Absent
  /\ g.at # "end" /\ g.task = NoTask => \E q \in Path : g.paths \subseteq {Pages, q}
  /\ g.task # NoTask =>
       /\ g.at # "end"
       /\ Live(g.task) \notin g.paths
       /\ g.at = "move" => dir[Live(g.task)] # Absent
       /\ g.at # "move" => dir[Live(g.task)] = Absent /\ dir[Past(g.task)] # Absent
       /\ g.at = "tracked" /\ staged[Live(g.task)] = Absent => head[Live(g.task)] = Absent
       /\ g.at \in {"add", "rm", "commit"} => Past(g.task) \in g.paths
       /\ g.at \in {"add", "rm", "commit"} /\ ~g.tracked => Away(g.task)
       /\ g.at \in {"rm", "commit"} => staged[Past(g.task)] # Absent
       /\ g.at = "commit" => staged[Live(g.task)] = Absent

\* What is staged is what was left staged and what the command stages.
Scoped(w) == Loose \subseteq loose \cup git[w].paths \cup {Live(git[w].task)}

InHand(w) ==
  /\ Recording(rec[w]) /\ Committing(git[w])
  /\ git[w].task # NoTask => rec[w] = Idle
  /\ ~Free(w) => Scoped(w)

SerialInv == Typed /\ Alone /\ Journals /\ Trees /\ Gone /\ \A w \in Window : InHand(w)

-----------------------------------------------------------------------------
(* What a step of the only command is to keep.                             *)

LEMMA Paths ==
  /\ Pages \in Path /\ Pages \notin Dirs /\ Path = Dirs \cup {Pages}
  /\ \A t \in Task : /\ Live(t) \in Dirs /\ Past(t) \in Dirs
                     /\ Live(t) # Pages /\ Past(t) # Pages
                     /\ Live(t) \in Path /\ Past(t) \in Path
  /\ \A t, u : Live(t) # Past(u) /\ (Live(t) = Live(u) => t = u) /\ (Past(t) = Past(u) => t = u)
  /\ Live(NoTask) \notin Path
BY AutoCommitAssumption DEF Pages, Dirs, Path, Live, Past

LEMMA Empty == Absent = 0
BY DEF Absent

LEMMA OthersFree ==
  ASSUME Alone, NEW w \in Window, ~Free(w) PROVE \A v \in Window \ {w} : Free(v)
BY DEF Alone

LEMMA Types ==
  ASSUME SerialInv, NEW w \in Window
  PROVE  /\ rec[w] \in Recs /\ git[w] \in Gits /\ InHand(w)
         /\ rec \in [Window -> Recs] /\ git \in [Window -> Gits]
         /\ DOMAIN dir = Dirs /\ DOMAIN staged = Path /\ DOMAIN head = Path
BY DEF SerialInv, Typed

\* The records of a window that runs nothing.
LEMMA IdleTypes ==
  /\ Idle \in Recs /\ Idle.at = "end"
  /\ Ready \in Gits /\ Ready.at = "end" /\ Ready.task = NoTask
BY DEF Idle, Recs, RecAts, Ready, Gits, GitAts

LEMMA FreeInHand == ASSUME NEW v, rec'[v] = Idle, git'[v] = Ready PROVE InHand(v)'
BY IdleTypes DEF InHand, Recording, Committing, Free

LEMMA OnlyOne ==
  ASSUME NEW w \in Window, \A v \in Window \ {w} : rec'[v] = Idle /\ git'[v] = Ready,
         Typed', Journals', Trees', Gone', InHand(w)'
  PROVE  SerialInv'
<1>1. \A v \in Window : InHand(v)'
  BY FreeInHand
<1>2. Alone'
  BY DEF Alone, Free
<1> QED
  BY <1>1, <1>2 DEF SerialInv

\* A step of add_session or init_developer before it commits.
LEMMA RecStep ==
  ASSUME SerialInv, NEW w \in Window, \A v \in Window \ {w} : Free(v), git[w] = Ready,
         UNCHANGED gvars, NEW c \in Recs, rec' = [rec EXCEPT ![w] = c],
         Sound(page, index)', Recording(rec[w])', Free(w)' \/ Scoped(w)'
  PROVE  SerialInv'
<1>1. /\ git' = git /\ dir' = dir /\ staged' = staged /\ head' = head /\ archived' = archived
      /\ branch' = branch
  BY DEF gvars
<1>2. Typed'
  BY <1>1 DEF SerialInv, Typed
<1>3. Journals' /\ Trees' /\ Gone'
  BY <1>1 DEF SerialInv, Journals, Trees, Tree, Gone, Away
<1>4. \A v \in Window \ {w} : rec'[v] = Idle /\ git'[v] = Ready
  BY <1>1, Types DEF Free
<1>5. InHand(w)'
  BY <1>1, IdleTypes DEF InHand, Committing
<1> QED
  BY <1>2, <1>3, <1>4, <1>5, OnlyOne

\* A step of a commit, which leaves the journal as it is.
LEMMA GitStep ==
  ASSUME SerialInv, NEW w \in Window, \A v \in Window \ {w} : Free(v),
         UNCHANGED <<page, index, branch>>, UNCHANGED rec \/ Done(w),
         NEW g \in Gits, git' = [git EXCEPT ![w] = g], g.task # NoTask => rec'[w] = Idle,
         DOMAIN dir' = Dirs, DOMAIN staged' = Path, DOMAIN head' = Path, archived' \subseteq Task,
         Sound(staged[Pages].page, staged[Pages].index)',
         Sound(head[Pages].page, head[Pages].index)',
         Trees', Gone', Committing(git[w])', Free(w)' \/ Scoped(w)'
  PROVE  SerialInv'
<1>1. rec \in [Window -> Recs] /\ rec[w] \in Recs /\ Recording(rec[w])
  BY Types DEF InHand
<1>2. rec' \in [Window -> Recs] /\ rec'[w] \in {rec[w], Idle}
      /\ \A v \in Window \ {w} : rec'[v] = rec[v]
  BY <1>1, IdleTypes DEF Done
<1>3. git' \in [Window -> Gits] /\ git'[w] = g /\ \A v \in Window \ {w} : git'[v] = git[v]
  BY Types
<1>4. Typed'
  BY <1>2, <1>3 DEF Typed
<1>5. Journals'
  BY DEF SerialInv, Journals
<1>6. Recording(rec[w])'
  BY <1>1, <1>2, IdleTypes DEF Recording
<1>7. InHand(w)'
  BY <1>3, <1>6 DEF InHand
<1> QED
  BY <1>2, <1>3, <1>4, <1>5, <1>7, OnlyOne DEF Free

-----------------------------------------------------------------------------
(* git add.                                                                *)

LEMMA AddKeeps ==
  ASSUME SerialInv, NEW paths \in SUBSET Path, \A p \in paths \ {Pages} : dir[p] # Absent,
         staged' = Add(paths), UNCHANGED <<page, index, dir, head>>
  PROVE  /\ DOMAIN staged' = Path /\ Trees'
         /\ Sound(staged[Pages].page, staged[Pages].index)'
         /\ \A p \in Path \ paths : staged'[p] = staged[p]
         /\ \A p \in paths \ {Pages} : staged'[p] # Absent
         /\ Loose' \subseteq Loose \cup paths
         /\ \A t \in Task : Away(t) => Away(t)'
<1>1. \A p \in Path : staged'[p] = IF p \in paths THEN Work(p) ELSE staged[p]
  BY DEF Add
<1>2. /\ \A p \in Path \ paths : staged'[p] = staged[p]
      /\ \A p \in paths \ {Pages} : staged'[p] = dir[p]
  BY <1>1 DEF Work
<1>3. \A t \in Task : Tree(t)'
  BY <1>2, Paths DEF SerialInv, Trees, Tree
<1>4. Sound(staged[Pages].page, staged[Pages].index)'
  BY <1>1, Paths DEF SerialInv, Journals, Work
<1>5. \A t \in Task : Away(t) => Away(t)'
  BY <1>2, Paths DEF Away
<1>6. DOMAIN staged' = Path
  BY DEF Add
<1> QED
  BY <1>2, <1>3, <1>4, <1>5, <1>6 DEF Trees, Loose

LEMMA AddFailsKeeps ==
  ASSUME SerialInv, NEW paths \in SUBSET Path, \A p \in paths \ {Pages} : dir[p] # Absent,
         AddFails(paths), UNCHANGED <<page, index, dir, head>>
  PROVE  /\ DOMAIN staged' = Path /\ Trees'
         /\ Sound(staged[Pages].page, staged[Pages].index)'
         /\ \A t \in Task : Away(t) => Away(t)'
<1>1. CASE UNCHANGED staged
  BY <1>1 DEF SerialInv, Typed, Trees, Tree, Journals, Away
<1>2. CASE \E some \in SUBSET paths : some # paths /\ staged' = Add(some)
  BY <1>2, AddKeeps
<1> QED
  BY <1>1, <1>2 DEF AddFails

-----------------------------------------------------------------------------
(* The commit of a session.                                                *)

LEMMA SessionPathsKeeps ==
  ASSUME SerialInv, UNCHANGED loose, NEW w \in Window, SessionPaths(w)
  PROVE  SerialInv'
<1>1. rec[w].at = "commit" /\ git[w] = Ready /\ UNCHANGED <<jvars, dir, staged, head, archived, branch>>
  BY DEF SessionPaths
<1>2. ~Free(w) /\ Alone
  BY <1>1, IdleTypes DEF Free, SerialInv
<1>3. PICK current \in Task \cup {NoTask} :
        git' = [git EXCEPT ![w] = [Ready EXCEPT !.at = "add", !.paths =
                 {Pages} \cup {Live(t) : t \in {x \in {current} \ {NoTask} : dir[Live(x)] # Absent}}]]
  BY DEF SessionPaths
<1> DEFINE ps == {Pages} \cup {Live(t) : t \in {x \in {current} \ {NoTask} : dir[Live(x)] # Absent}}
           g  == [Ready EXCEPT !.at = "add", !.paths = ps]
<1>4. /\ ps \subseteq Path /\ \A p \in ps \ {Pages} : dir[p] # Absent
      /\ \E q \in Path : ps \subseteq {Pages, q}
  <2>1. CASE current = NoTask
    BY <2>1, Paths
  <2>2. CASE current \in Task
    <3>1. ps \subseteq {Pages, Live(current)} /\ \A p \in ps \ {Pages} : dir[p] # Absent
      BY Paths
    <3> QED
      BY <2>2, <3>1, Paths
  <2> QED
    BY <2>1, <2>2
<1> HIDE DEF ps
<1>5. g \in Gits /\ g.at = "add" /\ g.task = NoTask /\ g.paths = ps
  BY <1>4 DEF Ready, Gits, GitAts
<1>6. git' = [git EXCEPT ![w] = g]
  BY <1>3 DEF ps
<1> HIDE DEF g
<1>7. git'[w] = g /\ Committing(git[w])'
  <2>1. git'[w] = g
    BY <1>6, Types
  <2> QED
    BY <1>1, <1>4, <1>5, <2>1 DEF Committing
<1>8. Scoped(w)'
  BY <1>1, <1>2, <1>5, <1>7, Types, IdleTypes DEF InHand, Scoped, Loose, Ready
<1>9. UNCHANGED <<page, index, branch, rec, dir, staged, head, archived>>
  BY <1>1 DEF jvars
<1>10. /\ Sound(staged[Pages].page, staged[Pages].index)' /\ Sound(head[Pages].page, head[Pages].index)'
       /\ Trees' /\ Gone'
       /\ DOMAIN dir' = Dirs /\ DOMAIN staged' = Path /\ DOMAIN head' = Path /\ archived' \subseteq Task
  BY <1>9 DEF SerialInv, Journals, Trees, Tree, Gone, Away, Typed
<1> QED
  BY <1>2, <1>5, <1>6, <1>7, <1>8, <1>9, <1>10, OthersFree, GitStep

\* What a window is doing that commits.
LEMMA GitHand ==
  ASSUME SerialInv, NEW w \in Window, git[w].at # "end"
  PROVE  /\ git[w] # Ready /\ ~Free(w) /\ \A v \in Window \ {w} : Free(v)
         /\ git[w].paths \in SUBSET Path /\ git[w].task \in Task \cup {NoTask}
         /\ \A p \in git[w].paths \ {Pages} : dir[p] # Absent
         /\ Committing(git[w]) /\ Scoped(w)
         /\ git[w].task # NoTask => rec[w] = Idle
<1>1. git[w] # Ready /\ ~Free(w)
  BY IdleTypes DEF Free
<1> QED
  BY <1>1, Types, OthersFree DEF SerialInv, InHand, Committing, Gits

LEMMA StopIs ==
  ASSUME SerialInv, NEW w \in Window, Stop(w), Done(w) \/ (UNCHANGED rec /\ rec[w] = Idle)
  PROVE  /\ Ready \in Gits /\ git' = [git EXCEPT ![w] = Ready] /\ git'[w] = Ready /\ rec'[w] = Idle
         /\ Free(w)' /\ Committing(git[w])' /\ Ready.task = NoTask
<1>1. git'[w] = Ready /\ rec'[w] = Idle
  BY Types DEF Stop, Done
<1> QED
  BY <1>1, IdleTypes DEF Stop, Free, Committing

LEMMA ThenIs ==
  ASSUME SerialInv, NEW w \in Window, NEW at \in GitAts, Then(w, at)
  PROVE  /\ [git[w] EXCEPT !.at = at] \in Gits /\ git' = [git EXCEPT ![w] = [git[w] EXCEPT !.at = at]]
         /\ git'[w] = [git[w] EXCEPT !.at = at]
         /\ git'[w].at = at /\ git'[w].task = git[w].task /\ git'[w].paths = git[w].paths
         /\ git'[w].tracked = git[w].tracked
<1>1. git[w] \in Gits /\ git' = [git EXCEPT ![w] = [git[w] EXCEPT !.at = at]]
  BY Types DEF Then
<1>2. git'[w] = [git[w] EXCEPT !.at = at]
  BY <1>1, Types
<1> QED
  BY <1>1, <1>2 DEF Gits

LEMMA SessionAddKeeps ==
  ASSUME SerialInv, UNCHANGED loose, NEW w \in Window, SessionAdd(w)
  PROVE  SerialInv'
<1> DEFINE paths == git[w].paths
<1>1. git[w].at = "add" /\ git[w].task = NoTask
      /\ UNCHANGED <<developer, page, index, dir, head, archived, branch>>
  BY DEF SessionAdd, Step
<1>2. /\ \A v \in Window \ {w} : Free(v)
      /\ paths \in SUBSET Path
      /\ \A p \in paths \ {Pages} : dir[p] # Absent
      /\ Committing(git[w]) /\ Scoped(w)
  BY <1>1, GitHand
<1>3. /\ Sound(head[Pages].page, head[Pages].index)'
      /\ DOMAIN dir' = Dirs /\ DOMAIN head' = Path /\ archived' \subseteq Task
      /\ (\A t \in Task : Away(t) => Away(t)') => Gone'
  BY <1>1 DEF SerialInv, Journals, Gone, Typed
<1>4. CASE staged' = Add(paths) /\ Then(w, "commit") /\ UNCHANGED rec
  <2>1. /\ DOMAIN staged' = Path /\ Trees' /\ Gone'
        /\ Sound(staged[Pages].page, staged[Pages].index)'
        /\ Loose' \subseteq Loose \cup paths
    BY <1>1, <1>2, <1>3, <1>4, AddKeeps
  <2> DEFINE g == [git[w] EXCEPT !.at = "commit"]
  <2>2. /\ g \in Gits /\ git' = [git EXCEPT ![w] = g] /\ git'[w] = g
        /\ g.at = "commit" /\ g.task = NoTask /\ g.paths = paths
    BY <1>1, <1>4, ThenIs DEF GitAts
  <2> HIDE DEF g
  <2>3. Committing(git[w])'
    BY <1>1, <1>2, <2>2 DEF Committing
  <2>4. Scoped(w)'
    BY <1>1, <1>2, <2>1, <2>2 DEF Scoped
  <2> QED
    BY <1>1, <1>2, <1>3, <1>4, <2>1, <2>2, <2>3, <2>4, GitStep
<1>5. CASE AddFails(paths) /\ Stop(w) /\ Done(w)
  <2>1. /\ DOMAIN staged' = Path /\ Trees' /\ Gone'
        /\ Sound(staged[Pages].page, staged[Pages].index)'
    BY <1>1, <1>2, <1>3, <1>5, AddFailsKeeps
  <2> QED
    BY <1>1, <1>2, <1>3, <1>5, <2>1, StopIs, GitStep
<1> QED
  BY <1>4, <1>5 DEF SessionAdd

LEMMA CommitKeeps ==
  ASSUME SerialInv, head' \in {head, staged}, UNCHANGED <<page, index, dir, staged>>
  PROVE  /\ DOMAIN head' = Path /\ DOMAIN staged' = Path /\ DOMAIN dir' = Dirs /\ Trees'
         /\ Sound(head[Pages].page, head[Pages].index)'
         /\ Sound(staged[Pages].page, staged[Pages].index)'
         /\ \A t \in Task : Away(t) => Away(t)'
         /\ \A t \in Task : dir[Live(t)] = Absent /\ staged[Live(t)] = Absent /\ head' = staged => Away(t)'
BY DEF SerialInv, Typed, Trees, Tree, Journals, Away

LEMMA SessionCommitKeeps ==
  ASSUME SerialInv, UNCHANGED loose, NEW w \in Window, SessionCommit(w)
  PROVE  SerialInv'
<1>1. /\ git[w].at = "commit" /\ git[w].task = NoTask /\ head' \in {head, staged}
      /\ Stop(w) /\ Done(w)
      /\ UNCHANGED <<developer, page, index, dir, staged, archived, branch>>
  BY DEF SessionCommit, Step
<1>2. archived' \subseteq Task /\ Gone'
  BY <1>1, CommitKeeps DEF SerialInv, Typed, Gone
<1> QED
  BY <1>1, <1>2, CommitKeeps, GitHand, StopIs, GitStep

-----------------------------------------------------------------------------
(* Archiving.                                                              *)

LEMMA BumpKeeps ==
  ASSUME SerialInv, NEW ps \in SUBSET Dirs, \A p \in ps : dir[p] \in 1 .. MaxVersion - 1,
         dir' = Bumped(ps), UNCHANGED <<staged, head>>
  PROVE  /\ DOMAIN dir' = Dirs /\ Trees'
         /\ \A p \in Dirs : dir'[p] # Absent <=> dir[p] # Absent
         /\ \A t \in Task : Away(t) => Away(t)'
         /\ \A p \in ps : dir[p] # Absent
<1>1. \A p \in Dirs : dir'[p] = IF p \in ps THEN dir[p] + 1 ELSE dir[p]
  BY DEF Bumped
<1>2. \A p \in ps : dir[p] # Absent /\ dir[p] + 1 # Absent
  BY AutoCommitAssumption, Empty
<1>3. \A p \in Dirs : dir'[p] # Absent <=> dir[p] # Absent
  BY <1>1, <1>2
<1>4. DOMAIN dir' = Dirs
  BY DEF Bumped
<1>5. \A t \in Task : Tree(t)'
  BY <1>3, Paths DEF SerialInv, Trees, Tree
<1>6. \A t \in Task : Away(t) => Away(t)'
  BY <1>3, Paths DEF Away
<1> QED
  BY <1>2, <1>3, <1>4, <1>5, <1>6 DEF Trees

\* A step that changes neither index, HEAD nor archived.
LEMMA CopiesKept ==
  ASSUME SerialInv, UNCHANGED <<staged, head, archived>>
  PROVE  /\ Sound(staged[Pages].page, staged[Pages].index)'
         /\ Sound(head[Pages].page, head[Pages].index)'
         /\ DOMAIN staged' = Path /\ DOMAIN head' = Path /\ archived' \subseteq Task
         /\ (\A t \in Task : Away(t) => Away(t)') => Gone'
BY DEF SerialInv, Journals, Typed, Gone

LEMMA ArchiveEditKeeps ==
  ASSUME SerialInv, \A v \in Window : Free(v), loose' = Loose,
         NEW w \in Window, NEW t \in Task, ArchiveEdit(w, t)
  PROVE  SerialInv'
<1> DEFINE ps == {Live(t)}
           g  == [at |-> "move", task |-> t, tracked |-> FALSE, paths |-> {}]
<1>1. /\ dir[Live(t)] \in 1 .. MaxVersion - 1
      /\ dir' = Bumped(ps) /\ git' = [git EXCEPT ![w] = g]
      /\ UNCHANGED <<page, index, rec, staged, head, archived, branch>>
  BY DEF ArchiveEdit, jvars
<1>2. ps \in SUBSET Dirs /\ \A p \in ps : dir[p] \in 1 .. MaxVersion - 1
  BY <1>1, Paths
<1>3. g \in Gits
  BY Paths DEF Gits, GitAts
<1>4. g.paths = {} /\ Live(t) \in ps /\ g.at = "move" /\ g.task = t
  OBVIOUS
<1> HIDE DEF ps, g
<1>5. /\ DOMAIN dir' = Dirs /\ Trees'
      /\ \A p \in Dirs : dir'[p] # Absent <=> dir[p] # Absent
      /\ \A u \in Task : Away(u) => Away(u)'
      /\ \A p \in ps : dir[p] # Absent
  BY <1>1, <1>2, BumpKeeps
<1>6. git'[w] = g /\ rec'[w] = Idle
  BY <1>1, Types DEF Free
<1>7. Committing(git[w])'
  <2>1. \A p \in ps : dir'[p] # Absent
    BY <1>2, <1>5
  <2>2. t # NoTask
    BY AutoCommitAssumption
  <2> QED
    BY <1>4, <1>6, <2>1, <2>2 DEF Committing
<1>8. Scoped(w)'
  BY <1>1 DEF Scoped, Loose
<1> QED
  BY <1>1, <1>3, <1>5, <1>6, <1>7, <1>8, CopiesKept, GitStep

LEMMA ArchiveChildKeeps ==
  ASSUME SerialInv, UNCHANGED loose, NEW w \in Window, ArchiveChild(w)
  PROVE  SerialInv'
<1>1. PICK k \in Task \ {git[w].task} :
        /\ dir[Live(k)] \in 1 .. MaxVersion - 1
        /\ dir' = Bumped({Live(k)})
        /\ git' = [git EXCEPT ![w].paths = @ \cup {Live(k)}]
  BY DEF ArchiveChild
<1> DEFINE ps == {Live(k)}
           g  == [git[w] EXCEPT !.paths = @ \cup {Live(k)}]
<1>2. git[w].at = "move" /\ UNCHANGED <<page, index, rec, staged, head, archived, branch>>
  BY DEF ArchiveChild, Step, jvars
<1>3. /\ \A v \in Window \ {w} : Free(v)
      /\ git[w].paths \in SUBSET Path /\ git[w].task \in Task /\ rec[w] = Idle
      /\ \A p \in git[w].paths \ {Pages} : dir[p] # Absent
      /\ Committing(git[w]) /\ Scoped(w) /\ Live(git[w].task) \notin git[w].paths
      /\ dir[Live(git[w].task)] # Absent /\ git[w] \in Gits
  BY <1>2, GitHand, Types DEF Committing
<1>4. git' = [git EXCEPT ![w] = g] /\ dir' = Bumped(ps)
  BY <1>1, <1>3, Types DEF Gits
<1>5. /\ g \in Gits /\ g.at = "move" /\ g.task = git[w].task
      /\ g.paths = git[w].paths \cup {Live(k)}
  BY <1>2, <1>3, Paths DEF Gits
<1>6. ps \in SUBSET Dirs /\ \A p \in ps : dir[p] \in 1 .. MaxVersion - 1
  BY <1>1, Paths
<1>7. Live(git[w].task) \notin g.paths
  BY <1>1, <1>3, <1>5, Paths
<1>8. Live(k) \in Dirs /\ Live(git[w].task) \in Dirs /\ Live(k) \in ps
  BY <1>3, Paths
<1> HIDE DEF ps, g
<1>9. /\ DOMAIN dir' = Dirs /\ Trees'
      /\ \A p \in Dirs : dir'[p] # Absent <=> dir[p] # Absent
      /\ \A u \in Task : Away(u) => Away(u)'
      /\ \A p \in ps : dir[p] # Absent
  BY <1>2, <1>4, <1>6, BumpKeeps
<1>10. git'[w] = g /\ rec'[w] = Idle
  BY <1>2, <1>3, <1>4, Types
<1>11. Committing(git[w])'
  <2>1. \A p \in g.paths \ {Pages} : dir'[p] # Absent
    <3>1. g.paths \ {Pages} \subseteq Dirs
      BY <1>3, <1>5, <1>8, Paths
    <3> QED
      BY <1>3, <1>5, <1>8, <1>9, <3>1
  <2>2. git[w].task # NoTask
    BY <1>3, AutoCommitAssumption
  <2> QED
    BY <1>3, <1>5, <1>7, <1>8, <1>9, <1>10, <2>1, <2>2 DEF Committing
<1>12. Scoped(w)'
  BY <1>2, <1>3, <1>5, <1>10 DEF Scoped, Loose
<1> QED
  BY <1>2, <1>3, <1>4, <1>5, <1>9, <1>10, <1>11, <1>12, CopiesKept, GitStep

LEMMA ArchiveMoveKeeps ==
  ASSUME SerialInv, UNCHANGED loose, NEW w \in Window, ArchiveMove(w)
  PROVE  SerialInv'
<1> DEFINE t == git[w].task
<1>1. git[w].at = "move" /\ UNCHANGED <<page, index, rec, staged, head, archived, branch>>
  BY DEF ArchiveMove, Step, jvars
<1>2. /\ \A v \in Window \ {w} : Free(v)
      /\ git[w].paths \in SUBSET Path /\ t \in Task /\ rec[w] = Idle
      /\ \A p \in git[w].paths \ {Pages} : dir[p] # Absent
      /\ Committing(git[w]) /\ Scoped(w) /\ Live(t) \notin git[w].paths
      /\ dir[Live(t)] # Absent
  BY <1>1, GitHand DEF Committing
<1>3. /\ dir' = [dir EXCEPT ![Live(t)] = Absent, ![Past(t)] = dir[Live(t)]]
      /\ Then(w, "tracked") \/ Stop(w)
  BY <1>2 DEF ArchiveMove
<1>4. /\ DOMAIN dir' = Dirs /\ dir'[Live(t)] = Absent /\ dir'[Past(t)] # Absent
      /\ \A p \in Dirs \ {Live(t), Past(t)} : dir'[p] = dir[p]
  BY <1>2, <1>3, Paths, Types
<1>5. \A u \in Task : Tree(u)'
  BY <1>1, <1>4, Paths DEF SerialInv, Trees, Tree
<1>6. \A u \in Task : Away(u) => Away(u)'
  BY <1>1, <1>4, Paths DEF Away
<1>7. CASE Then(w, "tracked")
  <2> DEFINE g == [git[w] EXCEPT !.at = "tracked"]
  <2>1. /\ g \in Gits /\ git' = [git EXCEPT ![w] = g] /\ git'[w] = g
        /\ git'[w].at = "tracked" /\ git'[w].task = t /\ git'[w].paths = git[w].paths
    BY <1>7, ThenIs DEF GitAts
  <2> HIDE DEF g
  <2>2. \A p \in git[w].paths \ {Pages} : dir'[p] # Absent
    BY <1>2, <1>4, Paths
  <2>3. staged'[Live(t)] = Absent => head'[Live(t)] = Absent
    BY <1>1, <1>2 DEF SerialInv, Trees, Tree
  <2>4. Committing(git[w])'
    BY <1>2, <1>4, <2>1, <2>2, <2>3, AutoCommitAssumption DEF Committing
  <2>5. Scoped(w)'
    BY <1>1, <1>2, <2>1 DEF Scoped, Loose
  <2> QED
    BY <1>1, <1>2, <1>4, <1>5, <1>6, <2>1, <2>4, <2>5, CopiesKept, GitStep DEF Trees
<1>8. CASE Stop(w)
  BY <1>1, <1>2, <1>4, <1>5, <1>6, <1>8, StopIs, CopiesKept, GitStep DEF Trees
<1> QED
  BY <1>3, <1>7, <1>8

LEMMA ArchiveTrackedKeeps ==
  ASSUME SerialInv, UNCHANGED loose, NEW w \in Window, ArchiveTracked(w)
  PROVE  SerialInv'
<1> DEFINE t  == git[w].task
           ps == git[w].paths \cup {Past(x) : x \in {y \in Task : dir[Past(y)] # Absent}}
           g  == [git[w] EXCEPT !.at = "add", !.tracked = staged[Live(t)] # Absent, !.paths = ps]
<1>1. git[w].at = "tracked" /\ git' = [git EXCEPT ![w] = g]
      /\ UNCHANGED <<page, index, rec, dir, staged, head, archived, branch>>
  BY Types DEF ArchiveTracked, Step, jvars
<1>2. /\ \A v \in Window \ {w} : Free(v)
      /\ git[w].paths \in SUBSET Path /\ t \in Task /\ rec[w] = Idle
      /\ \A p \in git[w].paths \ {Pages} : dir[p] # Absent
      /\ Committing(git[w]) /\ Scoped(w) /\ Live(t) \notin git[w].paths
      /\ dir[Live(t)] = Absent /\ dir[Past(t)] # Absent
      /\ staged[Live(t)] = Absent => head[Live(t)] = Absent
  BY <1>1, GitHand DEF Committing
<1>3. /\ ps \subseteq Path /\ Past(t) \in ps /\ Live(t) \notin ps
      /\ \A p \in ps \ {Pages} : dir[p] # Absent
      /\ git[w].paths \subseteq ps
  BY <1>2, Paths
<1> HIDE DEF ps
<1>4. /\ g \in Gits /\ g.at = "add" /\ g.task = t /\ g.paths = ps
      /\ g.tracked = (staged[Live(t)] # Absent)
  BY <1>3, Types DEF Gits, GitAts
<1> HIDE DEF g
<1>5. git'[w] = g
  BY <1>1, Types
<1>6. Committing(git[w])'
  BY <1>1, <1>2, <1>3, <1>4, <1>5, AutoCommitAssumption DEF Committing, Away
<1>7. Scoped(w)'
  BY <1>1, <1>2, <1>3, <1>4, <1>5 DEF Scoped, Loose
<1>8. DOMAIN dir' = Dirs /\ Trees' /\ \A u \in Task : Away(u) => Away(u)'
  BY <1>1 DEF SerialInv, Typed, Trees, Tree, Away
<1> QED
  BY <1>1, <1>2, <1>4, <1>6, <1>7, <1>8, CopiesKept, GitStep

LEMMA ArchiveAddKeeps ==
  ASSUME SerialInv, UNCHANGED loose, NEW w \in Window, ArchiveAdd(w)
  PROVE  SerialInv'
<1> DEFINE t     == git[w].task
           paths == git[w].paths
<1>1. git[w].at = "add" /\ t # NoTask /\ UNCHANGED <<page, index, rec, dir, head, branch>>
  BY DEF ArchiveAdd, Step, jvars
<1>2. /\ \A v \in Window \ {w} : Free(v)
      /\ paths \in SUBSET Path /\ t \in Task /\ rec[w] = Idle
      /\ \A p \in paths \ {Pages} : dir[p] # Absent
      /\ Committing(git[w]) /\ Scoped(w) /\ Live(t) \notin paths /\ Past(t) \in paths
      /\ dir[Live(t)] = Absent /\ dir[Past(t)] # Absent
      /\ ~git[w].tracked => Away(t)
  BY <1>1, GitHand DEF Committing
<1>3. /\ Sound(head[Pages].page, head[Pages].index)'
      /\ DOMAIN dir' = Dirs /\ DOMAIN head' = Path /\ archived \subseteq Task
      /\ \A u \in archived : Away(u)
  BY <1>1 DEF SerialInv, Journals, Gone, Typed
<1>4. CASE staged' = Add(paths) /\ Then(w, "rm") /\ UNCHANGED archived
  <2>1. /\ DOMAIN staged' = Path /\ Trees'
        /\ Sound(staged[Pages].page, staged[Pages].index)'
        /\ Loose' \subseteq Loose \cup paths
        /\ \A p \in paths \ {Pages} : staged'[p] # Absent
        /\ \A u \in Task : Away(u) => Away(u)'
    BY <1>1, <1>2, <1>4, AddKeeps
  <2>2. Gone' /\ archived' \subseteq Task
    BY <1>3, <1>4, <2>1 DEF Gone
  <2> DEFINE g == [git[w] EXCEPT !.at = "rm"]
  <2>3. /\ g \in Gits /\ git' = [git EXCEPT ![w] = g] /\ git'[w] = g
        /\ git'[w].at = "rm" /\ git'[w].task = t /\ git'[w].paths = paths
        /\ git'[w].tracked = git[w].tracked
    BY <1>4, ThenIs DEF GitAts
  <2> HIDE DEF g
  <2>4. staged'[Past(t)] # Absent
    BY <1>2, <2>1, Paths
  <2>5. Committing(git[w])'
    BY <1>1, <1>2, <2>1, <2>3, <2>4 DEF Committing
  <2>6. Scoped(w)'
    BY <1>1, <1>2, <2>1, <2>3 DEF Scoped
  <2> QED
    BY <1>1, <1>2, <1>3, <2>1, <2>2, <2>3, <2>5, <2>6, GitStep
<1>5. CASE AddFails(paths) /\ Reports(w, ~git[w].tracked) /\ Stop(w)
  <2>1. /\ DOMAIN staged' = Path /\ Trees'
        /\ Sound(staged[Pages].page, staged[Pages].index)'
        /\ \A u \in Task : Away(u) => Away(u)'
    BY <1>1, <1>2, <1>5, AddFailsKeeps
  <2>2. Gone' /\ archived' \subseteq Task
    BY <1>2, <1>3, <1>5, <2>1 DEF Gone, Reports
  <2> QED
    BY <1>1, <1>2, <1>3, <1>5, <2>1, <2>2, StopIs, GitStep
<1> QED
  BY <1>4, <1>5 DEF ArchiveAdd

LEMMA ArchiveRemoveKeeps ==
  ASSUME SerialInv, UNCHANGED loose, NEW w \in Window, ArchiveRemove(w)
  PROVE  SerialInv'
<1> DEFINE t == git[w].task
           g == [git[w] EXCEPT !.at = "commit"]
<1>1. git[w].at = "rm" /\ UNCHANGED <<page, index, rec, dir, head, archived, branch>> /\ Then(w, "commit")
  BY DEF ArchiveRemove, Step, jvars
<1>2. /\ \A v \in Window \ {w} : Free(v)
      /\ git[w].paths \in SUBSET Path /\ t \in Task /\ rec[w] = Idle
      /\ \A p \in git[w].paths \ {Pages} : dir[p] # Absent
      /\ Committing(git[w]) /\ Scoped(w) /\ Live(t) \notin git[w].paths /\ Past(t) \in git[w].paths
      /\ dir[Live(t)] = Absent /\ dir[Past(t)] # Absent /\ staged[Past(t)] # Absent
      /\ ~git[w].tracked => Away(t)
  BY <1>1, GitHand DEF Committing
<1>3. staged' = [staged EXCEPT ![Live(t)] = Absent]
  BY <1>2 DEF ArchiveRemove
<1>4. /\ DOMAIN staged' = Path /\ staged'[Live(t)] = Absent
      /\ \A p \in Path \ {Live(t)} : staged'[p] = staged[p]
  BY <1>2, <1>3, Paths, Types
<1>5. \A u \in Task : Tree(u)'
  BY <1>1, <1>2, <1>4, Paths DEF SerialInv, Trees, Tree
<1>6. \A u \in Task : Away(u) => Away(u)'
  BY <1>1, <1>4, Paths DEF Away
<1>7. Gone' /\ archived' \subseteq Task /\ DOMAIN head' = Path /\ DOMAIN dir' = Dirs
  BY <1>1, <1>6 DEF SerialInv, Gone, Typed
<1>8. /\ g \in Gits /\ git' = [git EXCEPT ![w] = g] /\ git'[w] = g
      /\ git'[w].at = "commit" /\ git'[w].task = t /\ git'[w].paths = git[w].paths
      /\ git'[w].tracked = git[w].tracked
  BY <1>1, ThenIs DEF GitAts
<1> HIDE DEF g
<1>9. Committing(git[w])'
  <2>1. staged'[Past(t)] # Absent
    BY <1>2, <1>4, Paths
  <2> QED
    BY <1>1, <1>2, <1>4, <1>6, <1>8, <2>1, AutoCommitAssumption DEF Committing
<1>10. Scoped(w)'
  BY <1>1, <1>2, <1>4, <1>8 DEF Scoped, Loose
<1>11. /\ Sound(staged[Pages].page, staged[Pages].index)'
       /\ Sound(head[Pages].page, head[Pages].index)'
  BY <1>1, <1>2, <1>4, Paths DEF SerialInv, Journals
<1> QED
  BY <1>1, <1>2, <1>4, <1>5, <1>7, <1>8, <1>9, <1>10, <1>11, GitStep DEF Trees

LEMMA ArchiveCommitKeeps ==
  ASSUME SerialInv, UNCHANGED loose, NEW w \in Window, ArchiveCommit(w)
  PROVE  SerialInv'
<1>1. /\ git[w].at = "commit" /\ git[w].task # NoTask /\ head' \in {head, staged} /\ Stop(w)
      /\ UNCHANGED <<page, index, rec, dir, staged, branch>>
  BY DEF ArchiveCommit, Step, jvars
<1>2. \A v \in Window \ {w} : Free(v)
  BY <1>1, GitHand
<1>3. PICK t \in Task :
        /\ t = git[w].task /\ rec[w] = Idle
        /\ dir[Live(t)] = Absent /\ staged[Live(t)] = Absent
        /\ ~git[w].tracked => Away(t)
  BY <1>1, GitHand DEF Committing
<1> DEFINE changed == \E p \in git[w].paths \cup {Live(t)} : staged[p] # head[p]
<1>4. archived' = archived \/ (archived' = archived \cup {t} /\ Away(t)')
  <2>1. CASE ~changed /\ UNCHANGED head /\ Reports(w, TRUE)
    <3>1. head[Live(t)] = Absent
      BY <1>3, <2>1
    <3> QED
      BY <1>1, <1>3, <2>1, <3>1 DEF Reports, Away
  <2>2. CASE head' = staged /\ Reports(w, TRUE)
    BY <1>1, <1>3, <2>2, CommitKeeps DEF Reports
  <2>3. CASE UNCHANGED head /\ Reports(w, ~git[w].tracked)
    BY <1>1, <1>3, <2>3, CommitKeeps DEF Reports
  <2> QED
    BY <1>3, <2>1, <2>2, <2>3 DEF ArchiveCommit
<1>5. archived' \subseteq Task /\ Gone'
  BY <1>1, <1>4, CommitKeeps DEF SerialInv, Typed, Gone
<1> QED
  BY <1>1, <1>2, <1>3, <1>5, CommitKeeps, StopIs, GitStep

LEMMA GitKilledKeeps ==
  ASSUME SerialInv, NEW w \in Window, GitKilled(w)
  PROVE  SerialInv'
<1>1. git[w] # Ready /\ Stop(w) /\ Done(w)
      /\ UNCHANGED <<page, index, dir, staged, head, archived, branch>>
  BY DEF GitKilled
<1>2. \A v \in Window \ {w} : Free(v)
  BY <1>1, OthersFree DEF Free, SerialInv
<1>3. DOMAIN dir' = Dirs /\ Trees' /\ \A u \in Task : Away(u) => Away(u)'
  BY <1>1 DEF SerialInv, Typed, Trees, Tree, Away
<1> QED
  BY <1>1, <1>2, <1>3, CopiesKept, StopIs, GitStep

-----------------------------------------------------------------------------
(* Recording a session.                                                    *)

LEMMA RecEnds ==
  ASSUME SerialInv, UNCHANGED gvars, NEW w \in Window, git[w] = Ready, rec[w] # Idle, Done(w),
         Sound(page, index)'
  PROVE  SerialInv'
<1>1. \A v \in Window \ {w} : Free(v)
  BY OthersFree DEF Free, SerialInv
<1>2. rec'[w] = Idle /\ git'[w] = Ready
  BY Types DEF Done, gvars
<1>3. Free(w)' /\ Recording(rec[w])'
  BY <1>2, IdleTypes DEF Free, Recording
<1> QED
  BY <1>1, <1>3, IdleTypes, RecStep DEF Done

LEMMA RecGoes ==
  ASSUME SerialInv, UNCHANGED gvars, UNCHANGED loose, NEW w \in Window, git[w] = Ready, rec[w] # Idle,
         NEW c \in Recs, rec' = [rec EXCEPT ![w] = c], Sound(page, index)', Recording(rec[w])'
  PROVE  SerialInv'
<1>1. ~Free(w) /\ \A v \in Window \ {w} : Free(v)
  BY OthersFree DEF Free, SerialInv
<1>2. Scoped(w)'
  BY <1>1, Types DEF InHand, Scoped, Loose, gvars
<1> QED
  BY <1>1, <1>2, RecStep

\* What a window is doing that records.
LEMMA RecHand ==
  ASSUME SerialInv, NEW w \in Window, rec[w].at # "end"
  PROVE  rec[w] # Idle /\ rec[w] \in Recs /\ Recording(rec[w]) /\ Sound(page, index)
BY Types, IdleTypes DEF InHand, SerialInv, Journals

LEMMA SetRec ==
  ASSUME SerialInv, NEW w \in Window, NEW c, rec' = [rec EXCEPT ![w] = c] PROVE rec'[w] = c
BY Types

LEMMA InitDeveloperKeeps ==
  ASSUME SerialInv, \A v \in Window : Free(v), loose' = Loose, UNCHANGED gvars,
         NEW w \in Window, InitDeveloper(w)
  PROVE  SerialInv'
<1> DEFINE c == [rec[w] EXCEPT !.at = "first page"]
<1>1. c \in Recs /\ c.at = "first page"
  BY Types DEF Recs, RecAts
<1>2. rec' = [rec EXCEPT ![w] = c] /\ UNCHANGED <<page, index>>
  BY DEF InitDeveloper, Goto
<1> HIDE DEF c
<1>3. Recording(rec[w])'
  BY <1>1, <1>2, SetRec DEF Recording
<1>4. Sound(page, index)' /\ Scoped(w)'
  BY <1>2 DEF SerialInv, Journals, Scoped, Loose, gvars
<1> QED
  BY <1>1, <1>2, <1>3, <1>4, RecStep DEF Free

LEMMA AddReadKeeps ==
  ASSUME SerialInv, \A v \in Window : Free(v), loose' = Loose, UNCHANGED gvars,
         NEW w \in Window, NEW s \in Session, AddRead(w, s)
  PROVE  SerialInv'
<1> DEFINE c == [Idle EXCEPT !.at = "number", !.id = s, !.target = Latest(page), !.full = Full(page, s)]
<1>1. PICK n \in Nat : Paged(page, n)
  BY DEF SerialInv, Journals, Sound
<1>2. Latest(page) = n /\ DOMAIN page = 1 .. n
  BY <1>1, LatestIs DEF Paged
<1>3. Full(page, s) \in BOOLEAN
  BY DEF Full
<1>4. c \in Recs /\ c.at = "number" /\ c.id = s /\ c.target = n
  BY <1>2, <1>3 DEF Idle, Recs, RecAts
<1>5. rec' = [rec EXCEPT ![w] = c] /\ UNCHANGED <<page, index>>
  BY DEF AddRead
<1> HIDE DEF c
<1>6. Recording(rec[w])'
  BY <1>2, <1>4, <1>5, SetRec DEF Recording
<1>7. Sound(page, index)' /\ Scoped(w)'
  BY <1>5 DEF SerialInv, Journals, Scoped, Loose, gvars
<1> QED
  BY <1>4, <1>5, <1>6, <1>7, RecStep DEF Free

LEMMA InitPageKeeps ==
  ASSUME SerialInv, UNCHANGED gvars, UNCHANGED loose, NEW w \in Window, git[w] = Ready, InitPage(w)
  PROVE  SerialInv' /\ Entries(page) \subseteq Entries(page')
<1> DEFINE c == [rec[w] EXCEPT !.at = "first index"]
<1>1. rec[w].at = "first page" /\ rec' = [rec EXCEPT ![w] = c] /\ UNCHANGED index
  BY DEF InitPage, At, Goto
<1>2. c \in Recs /\ c.at = "first index"
  BY Types DEF Recs, RecAts
<1> HIDE DEF c
<1>3. PICK n \in Nat : Paged(page, n)
  BY DEF SerialInv, Journals, Sound
<1>4. Sound(page, index)' /\ 1 \in DOMAIN page' /\ Entries(page) \subseteq Entries(page')
  <2>1. CASE 1 \in DOMAIN page
    BY <1>1, <2>1 DEF InitPage, SerialInv, Journals
  <2>2. CASE 1 \notin DOMAIN page
    <3>1. n = 0 /\ n + 1 = 1 /\ DOMAIN page = {}
      <4>1. DOMAIN page = 1 .. n
        BY <1>3 DEF Paged
      <4>2. n = 0
        BY <2>2, <4>1
      <4> QED
        BY <4>1, <4>2
    <3>2. page' = NewPage(page, n + 1)
      BY <2>2, <3>1 DEF InitPage
    <3>3. Paged(page', n + 1) /\ Entries(page') = Entries(page)
      BY <1>3, <3>2, NewPageAdds
    <3>4. Paged(page', 1) /\ Entries(page') = Entries(page)
      BY <3>1, <3>3
    <3>5. 1 \in DOMAIN page'
      BY <3>4 DEF Paged
    <3>6. Sound(page', index)
      BY <3>1, <3>4, SoundMore DEF SerialInv, Journals
    <3> QED
      BY <1>1, <3>4, <3>5, <3>6
  <2> QED
    BY <2>1, <2>2
<1>5. Recording(rec[w])'
  BY <1>1, <1>2, <1>4, SetRec DEF Recording
<1> QED
  BY <1>1, <1>2, <1>4, <1>5, RecHand, RecGoes

LEMMA InitIndexKeeps ==
  ASSUME SerialInv, UNCHANGED gvars, UNCHANGED loose, NEW w \in Window, git[w] = Ready, InitIndex(w)
  PROVE  SerialInv'
<1> DEFINE c == [rec[w] EXCEPT !.at = "first index write"]
<1>1. rec[w].at = "first index" /\ UNCHANGED page
  BY DEF InitIndex, At
<1>2. rec[w] \in Recs /\ 1 \in DOMAIN page /\ Sound(page, index) /\ rec[w] # Idle
  BY <1>1, RecHand DEF Recording
<1>3. CASE index = NoFile
  <2>1. rec' = [rec EXCEPT ![w] = c] /\ index' = Torn
    BY <1>3 DEF InitIndex, Goto
  <2>2. c \in Recs /\ c.at = "first index write"
    BY <1>2 DEF Recs, RecAts
  <2> HIDE DEF c
  <2>3. Sound(page, Torn)
    BY <1>2 DEF Sound, IsIndex
  <2>4. Recording(rec[w])'
    BY <1>1, <1>2, <2>1, <2>2, SetRec DEF Recording
  <2> QED
    BY <1>1, <1>2, <2>1, <2>2, <2>3, <2>4, RecGoes
<1>4. CASE index # NoFile
  BY <1>1, <1>2, <1>4, RecEnds DEF InitIndex
<1> QED
  BY <1>3, <1>4

LEMMA InitWriteIndexKeeps ==
  ASSUME SerialInv, UNCHANGED gvars, NEW w \in Window, git[w] = Ready, InitWriteIndex(w)
  PROVE  SerialInv'
<1>1. rec[w].at = "first index write" /\ UNCHANGED page /\ Done(w) /\ index' = FreshIndex
  BY DEF InitWriteIndex, At
<1>2. 1 \in DOMAIN page /\ Sound(page, index) /\ rec[w] # Idle
  BY <1>1, RecHand DEF Recording
<1>3. Sound(page, FreshIndex)
  <2>1. FreshIndex \in Index /\ FreshIndex.rows = {} /\ FreshIndex.total = 0
    BY DEF FreshIndex, Index
  <2>2. IsFiniteSet(FreshIndex.rows) /\ Backed(page, FreshIndex) /\ Numbered(FreshIndex)
    BY <2>1, FS_EmptySet DEF Backed, Numbered
  <2> QED
    BY <1>2, <2>1, <2>2 DEF Sound
<1> QED
  BY <1>1, <1>2, <1>3, RecEnds

LEMMA AddNumberKeeps ==
  ASSUME SerialInv, UNCHANGED gvars, UNCHANGED loose, NEW w \in Window, git[w] = Ready, AddNumber(w)
  PROVE  SerialInv'
<1> DEFINE at  == IF rec[w].full THEN "rotate" ELSE "append"
           num == Total(index) + 1
           c   == [rec[w] EXCEPT !.num = num, !.at = at]
<1>1. rec[w].at = "number" /\ UNCHANGED <<page, index>>
  BY DEF AddNumber, At
<1>2. rec[w] \in Recs /\ Recording(rec[w]) /\ Sound(page, index) /\ rec[w] # Idle
  BY <1>1, RecHand
<1>3. num \in Nat /\ at \in {"rotate", "append"}
  BY <1>2 DEF Sound, Total, Index
<1>4. rec' = [rec EXCEPT ![w] = c]
  BY Types DEF AddNumber
<1> HIDE DEF num, at
<1>5. /\ c \in Recs /\ c.at = at /\ c.num = num
      /\ c.id = rec[w].id /\ c.target = rec[w].target
  BY <1>2, <1>3 DEF Recs, RecAts
<1> HIDE DEF c
<1>6. rec'[w] = c
  BY <1>4, SetRec
<1>7. c.target \in Nat /\ DOMAIN page = 1 .. c.target /\ c.id \in Session
  BY <1>1, <1>2, <1>5 DEF Recs, Recording
<1>8. IF c.target = 0 THEN DOMAIN page = {} ELSE c.target \in DOMAIN page
  BY <1>7
<1>9. num = Total(index) + 1 /\ Total(index)' = Total(index)
  BY <1>1 DEF num, Total
<1>10. Recording(rec[w])'
  BY <1>1, <1>3, <1>5, <1>6, <1>7, <1>8, <1>9 DEF Recording
<1> QED
  BY <1>1, <1>2, <1>4, <1>5, <1>10, RecGoes

LEMMA AddRotateKeeps ==
  ASSUME SerialInv, UNCHANGED gvars, UNCHANGED loose, NEW w \in Window, git[w] = Ready, AddRotate(w)
  PROVE  SerialInv' /\ Entries(page) \subseteq Entries(page')
<1> DEFINE n == rec[w].target
           c == [rec[w] EXCEPT !.target = n + 1, !.at = "append"]
<1>1. rec[w].at = "rotate" /\ UNCHANGED index /\ page' = NewPage(page, n + 1)
      /\ rec' = [rec EXCEPT ![w] = c]
  BY Types DEF AddRotate, At
<1>2. rec[w] \in Recs /\ Recording(rec[w]) /\ Sound(page, index) /\ rec[w] # Idle
  BY <1>1, RecHand
<1>3. n \in Nat /\ DOMAIN page = 1 .. n /\ rec[w].id \in Session /\ rec[w].num = Total(index) + 1
  BY <1>1, <1>2 DEF Recs, Recording
<1>4. Paged(page, n)
  BY <1>2, <1>3 DEF Sound, Paged
<1>5. Paged(page', n + 1) /\ Entries(page') = Entries(page)
  BY <1>1, <1>3, <1>4, NewPageAdds
<1>6. Sound(page', index) /\ n + 1 \in DOMAIN page'
  BY <1>2, <1>3, <1>5, SoundMore DEF Paged
<1>7. /\ c \in Recs /\ c.at = "append" /\ c.target = n + 1 /\ c.target # 0
      /\ c.id = rec[w].id /\ c.num = rec[w].num
  <2>1. n + 1 \in Nat /\ n + 1 # 0
    BY <1>3
  <2> QED
    BY <1>2, <2>1 DEF Recs, RecAts
<1> HIDE DEF c
<1>8. rec'[w] = c
  BY <1>1, SetRec
<1>9. Recording(rec[w])'
  BY <1>1, <1>3, <1>6, <1>7, <1>8 DEF Recording, Total
<1> QED
  BY <1>1, <1>2, <1>5, <1>6, <1>7, <1>9, RecGoes

LEMMA AddAppendKeeps ==
  ASSUME SerialInv, UNCHANGED gvars, UNCHANGED loose, NEW w \in Window, git[w] = Ready, AddAppend(w)
  PROVE  SerialInv' /\ Entries(page) \subseteq Entries(page')
<1> DEFINE c == [rec[w] EXCEPT !.at = "table"]
           e == [id |-> rec[w].id, num |-> rec[w].num]
<1>1. rec[w].at = "append" /\ UNCHANGED index /\ rec' = [rec EXCEPT ![w] = c]
      /\ page' = IF rec[w].target = 0 THEN page ELSE WithEntry(page, rec[w].target, e)
  BY DEF AddAppend, At, Goto
<1>2. rec[w] \in Recs /\ Recording(rec[w]) /\ Sound(page, index) /\ rec[w] # Idle
  BY <1>1, RecHand
<1>3. /\ c \in Recs /\ c.at = "table" /\ c.target = rec[w].target
      /\ c.id = rec[w].id /\ c.num = rec[w].num
  BY <1>2 DEF Recs, RecAts
<1>4. e \in Entry /\ rec[w].id \in Session /\ rec[w].num = Total(index) + 1
  BY <1>1, <1>2 DEF Recs, Recording, Entry
<1>5. e = [id |-> c.id, num |-> c.num]
  BY <1>3
<1> HIDE DEF c, e
<1>6. rec'[w] = c
  BY <1>1, SetRec
<1>7. PICK n \in Nat : Paged(page, n)
  BY <1>2 DEF Sound
<1>8. /\ Sound(page', index) /\ Entries(page) \subseteq Entries(page') /\ DOMAIN page' = DOMAIN page
      /\ c.target # 0 => e \in Entries(page')
  <2>1. CASE c.target = 0
    BY <1>1, <1>2, <1>3, <2>1
  <2>2. CASE c.target # 0
    <3>1. c.target \in 1 .. n
      BY <1>1, <1>2, <1>3, <1>7, <2>2 DEF Recording, Paged
    <3>2. Paged(page', n) /\ Entries(page') = Entries(page) \cup {e}
      BY <1>1, <1>3, <1>4, <1>7, <2>2, <3>1, WithEntryAdds
    <3>3. DOMAIN page' = DOMAIN page
      BY <1>7, <3>2 DEF Paged
    <3> QED
      BY <1>2, <3>2, <3>3, SoundMore
  <2> QED
    BY <2>1, <2>2
<1>9. Recording(rec[w])'
  BY <1>1, <1>2, <1>3, <1>4, <1>5, <1>6, <1>8 DEF Recording, Total
<1> QED
  BY <1>1, <1>2, <1>3, <1>8, <1>9, RecGoes

LEMMA AddReadIndexKeeps ==
  ASSUME SerialInv, UNCHANGED gvars, UNCHANGED loose, NEW w \in Window, git[w] = Ready, AddReadIndex(w)
  PROVE  SerialInv'
<1> DEFINE e == [id |-> rec[w].id, num |-> rec[w].num]
           i == Updated(index, page, rec[w].target, e)
           c == [rec[w] EXCEPT !.at = "truncate", !.text = i]
<1>1. rec[w].at = "table" /\ UNCHANGED <<page, index>>
  BY DEF AddReadIndex, At
<1>2. rec[w] \in Recs /\ Recording(rec[w]) /\ Sound(page, index) /\ rec[w] # Idle
  BY <1>1, RecHand
<1>3. CASE ~IsIndex(index)
  BY <1>1, <1>2, <1>3, RecEnds DEF AddReadIndex
<1>4. CASE IsIndex(index)
  <2>1. rec' = [rec EXCEPT ![w] = c]
    BY <1>4, Types DEF AddReadIndex
  <2>2. 1 \in DOMAIN page /\ rec[w].target \in Nat /\ rec[w].target # 0
    BY <1>1, <1>2, <1>4 DEF Recording, Recs, Sound
  <2>3. e \in Entries(page) /\ e \in Entry /\ e.num = index.total + 1
    BY <1>1, <1>2, <1>4, <2>2 DEF Recording, Recs, Entry, Total
  <2>4. PICK m \in Nat : Paged(page, m)
    BY <1>2 DEF Sound
  <2> HIDE DEF e
  <2>5. Sound(page, i)
    BY <1>2, <1>4, <2>2, <2>3, <2>4, UpdatedSound
  <2> HIDE DEF i
  <2>6. c \in Recs /\ c.at = "truncate" /\ c.text = i
    BY <1>2, <2>5 DEF Recs, RecAts, Sound
  <2> HIDE DEF c
  <2>7. Recording(rec[w])'
    BY <1>1, <2>1, <2>5, <2>6, SetRec DEF Recording
  <2> QED
    BY <1>1, <1>2, <2>1, <2>6, <2>7, RecGoes
<1> QED
  BY <1>3, <1>4

LEMMA AddWriteKeeps ==
  ASSUME SerialInv, UNCHANGED gvars, UNCHANGED loose, NEW w \in Window, git[w] = Ready,
         AddTruncate(w) \/ AddWriteIndex(w)
  PROVE  SerialInv'
<1> DEFINE c == [rec[w] EXCEPT !.at = IF rec[w].at = "truncate" THEN "index" ELSE "commit"]
<1>1. /\ rec[w].at \in {"truncate", "index"} /\ UNCHANGED page /\ rec' = [rec EXCEPT ![w] = c]
      /\ index' = IF rec[w].at = "truncate" THEN Torn ELSE rec[w].text
  BY DEF AddTruncate, AddWriteIndex, At, Goto
<1>2. rec[w] \in Recs /\ Recording(rec[w]) /\ Sound(page, index) /\ rec[w] # Idle
  BY <1>1, RecHand
<1>3. /\ c \in Recs /\ c.at \in {"index", "commit"} /\ c.text = rec[w].text
      /\ Sound(page, c.text)
  BY <1>1, <1>2 DEF Recs, RecAts, Recording
<1> HIDE DEF c
<1>4. Sound(page, index)'
  BY <1>1, <1>2, <1>3 DEF Sound, IsIndex
<1>5. Recording(rec[w])'
  BY <1>1, <1>3, SetRec DEF Recording
<1> QED
  BY <1>1, <1>2, <1>3, <1>4, <1>5, RecGoes

LEMMA AddEndKeeps ==
  ASSUME SerialInv, UNCHANGED gvars, NEW w \in Window, git[w] = Ready, AddEnd(w) \/ Killed(w)
  PROVE  SerialInv'
<1>1. rec[w] # Idle /\ Done(w) /\ UNCHANGED <<page, index>>
  BY IdleTypes DEF AddEnd, Killed, At
<1> QED
  BY <1>1, RecEnds DEF SerialInv, Journals

-----------------------------------------------------------------------------
(* What happens between commands: edits, forks and merges.                 *)

LEMMA BetweenCommands ==
  ASSUME \A v \in Window : Free(v), UNCHANGED <<rec, git>>, Typed', Journals', Trees', Gone'
  PROVE  SerialInv'
<1>1. \A v \in Window : Free(v)' /\ InHand(v)'
  BY FreeInHand DEF Free
<1> QED
  BY <1>1 DEF SerialInv, Alone

LEMMA EditTaskKeeps ==
  ASSUME SerialInv, \A v \in Window : Free(v), NEW t \in Task, EditTask(t)
  PROVE  SerialInv'
<1>1. /\ dir[Live(t)] \in 1 .. MaxVersion - 1 /\ dir' = Bumped({Live(t)})
      /\ UNCHANGED <<page, index, rec, staged, head, git, archived, branch>>
  BY DEF EditTask, jvars
<1>2. DOMAIN dir' = Dirs /\ Trees' /\ \A u \in Task : Away(u) => Away(u)'
  <2>1. {Live(t)} \in SUBSET Dirs /\ \A p \in {Live(t)} : dir[p] \in 1 .. MaxVersion - 1
    BY <1>1, Paths
  <2> QED
    BY <1>1, <2>1, BumpKeeps
<1>3. Typed' /\ Journals' /\ Gone'
  BY <1>1, <1>2 DEF SerialInv, Typed, Journals, Gone
<1> QED
  BY <1>1, <1>2, <1>3, BetweenCommands

LEMMA ForkKeeps ==
  ASSUME SerialInv, \A v \in Window : Free(v), NEW s \in Session, Fork(s)
  PROVE  SerialInv'
<1>1. /\ IsIndex(head[Pages].index) /\ branch' = Recorded(head[Pages], s)
      /\ UNCHANGED <<page, index, rec, dir, staged, head, git, archived>>
  BY DEF Fork, jvars
<1>2. Sound(branch'.page, branch'.index)
  BY <1>1, RecordedSound DEF SerialInv, Journals
<1>3. Typed' /\ Journals' /\ Trees' /\ Gone'
  BY <1>1, <1>2 DEF SerialInv, Typed, Journals, Trees, Tree, Gone, Away
<1> QED
  BY <1>1, <1>3, BetweenCommands

LEMMA MergeKeeps ==
  ASSUME SerialInv, \A v \in Window : Free(v), Merge
  PROVE  SerialInv' /\ Entries(page) \subseteq Entries(page')
<1>1. /\ branch # NoFile /\ staged = head
      /\ page' = [n \in DOMAIN page \cup DOMAIN branch.page |->
                    (IF n \in DOMAIN page THEN page[n] ELSE {})
                    \cup (IF n \in DOMAIN branch.page THEN branch.page[n] ELSE {})]
      /\ index' \in {index, branch.index}
      /\ head' = [head EXCEPT ![Pages] = [page |-> page', index |-> index']]
      /\ staged' = head' /\ branch' = NoFile
      /\ UNCHANGED <<rec, dir, git, archived>>
  BY DEF Merge
<1>2. Sound(page, index) /\ Sound(branch.page, branch.index)
  BY <1>1 DEF SerialInv, Journals
<1>3. Sound(page', index') /\ Entries(page) \subseteq Entries(page')
  <2>1. /\ Sound(page', index) /\ Sound(page', branch.index)
        /\ Entries(page) \subseteq Entries(page')
    BY <1>1, <1>2, MergedSound
  <2> QED
    BY <1>1, <2>1
<1>4. /\ DOMAIN head = Path /\ DOMAIN head' = Path
      /\ head'[Pages].page = page' /\ head'[Pages].index = index'
      /\ \A p \in Dirs : head'[p] = head[p]
  BY <1>1, Paths DEF SerialInv, Typed
<1>5. Typed' /\ Journals'
  BY <1>1, <1>3, <1>4 DEF SerialInv, Typed, Journals
<1>6. Trees' /\ Gone'
  BY <1>1, <1>4, Paths DEF SerialInv, Typed, Trees, Tree, Gone, Away
<1> QED
  BY <1>1, <1>3, <1>5, <1>6, BetweenCommands

-----------------------------------------------------------------------------
(* The steps of the behaviours in which commands do not overlap.           *)

\* What a step does not take away.
Kept == Entries(page) \subseteq Entries(page')

LEMMA BeginsKeeps ==
  ASSUME SerialInv, \A v \in Window : Free(v), loose' = Loose, NEW w \in Window, Begins(w)
  PROVE  SerialInv' /\ Kept /\ UNCHANGED head
<1>1. UNCHANGED <<page, head>>
  BY DEF Begins, InitDeveloper, AddRead, ArchiveEdit, jvars, gvars
<1> QED
  BY <1>1, InitDeveloperKeeps, AddReadKeeps, ArchiveEditKeeps DEF Begins, Kept

LEMMA RecordKeeps ==
  ASSUME SerialInv, UNCHANGED loose, NEW w \in Window, RecordSteps(w), git[w] = Ready, UNCHANGED gvars
  PROVE  SerialInv' /\ Kept
<1>1. CASE InitPage(w) \/ AddRotate(w) \/ AddAppend(w)
  BY <1>1, InitPageKeeps, AddRotateKeeps, AddAppendKeeps DEF Kept
<1>2. CASE ~(InitPage(w) \/ AddRotate(w) \/ AddAppend(w))
  <2>1. UNCHANGED page
    BY <1>2 DEF RecordSteps, InitIndex, InitWriteIndex, AddNumber, AddReadIndex, AddTruncate, AddWriteIndex, AddEnd
  <2> QED
    BY <1>2, <2>1, InitIndexKeeps, InitWriteIndexKeeps, AddNumberKeeps, AddReadIndexKeeps,
       AddWriteKeeps, AddEndKeeps
       DEF RecordSteps, Kept
<1> QED
  BY <1>1, <1>2

LEMMA GoesKeeps ==
  ASSUME SerialInv, UNCHANGED loose, NEW w \in Window, Goes(w)
  PROVE  SerialInv' /\ Kept
<1>1. CASE RecordSteps(w) /\ git[w] = Ready /\ UNCHANGED gvars
  BY <1>1, RecordKeeps
<1>2. CASE ~(RecordSteps(w) /\ git[w] = Ready /\ UNCHANGED gvars)
  <2>1. UNCHANGED page
    BY <1>2 DEF Goes, SessionPaths, SessionAdd, SessionCommit, ArchiveMove, ArchiveTracked, ArchiveAdd,
                ArchiveChild, ArchiveRemove, ArchiveCommit, jvars
  <2> QED
    BY <1>2, <2>1, SessionPathsKeeps, SessionAddKeeps, SessionCommitKeeps, ArchiveChildKeeps, ArchiveMoveKeeps,
       ArchiveTrackedKeeps, ArchiveAddKeeps, ArchiveRemoveKeeps, ArchiveCommitKeeps DEF Goes, Kept
<1> QED
  BY <1>1, <1>2

LEMMA DiesKeeps ==
  ASSUME SerialInv, NEW w \in Window, Dies(w)
  PROVE  SerialInv' /\ Kept /\ UNCHANGED head
<1>1. UNCHANGED <<page, head>>
  BY DEF Dies, Killed, GitKilled, gvars
<1> QED
  BY <1>1, AddEndKeeps, GitKilledKeeps DEF Dies, Kept

MCInv == Serial => SerialInv

LEMMA MCInit_MCInv == MCInit => MCInv
<1> SUFFICES ASSUME MCInit PROVE SerialInv
  BY DEF MCInv
<1>1. rec = [w \in Window |-> Idle] /\ git = [w \in Window |-> Ready]
      /\ page = [n \in {} |-> {}] /\ index = NoFile /\ branch = NoFile /\ archived = {}
      /\ head = staged
  BY DEF MCInit, Init, GitInit
<1>2. PICK tracked \in SUBSET Task :
        /\ dir = [p \in Dirs |-> IF p[1] = "task" THEN 1 ELSE Absent]
        /\ staged = [p \in Path |-> IF p[1] = "task" /\ p[2] \in tracked THEN 1 ELSE Missing(p)]
  BY DEF MCInit, GitInit
<1>3. Typed
  BY <1>1, <1>2, IdleTypes DEF Typed
<1>4. Sound(page, index)
  <2>1. Paged(page, 0)
    BY <1>1 DEF Paged
  <2> QED
    BY <1>1, <2>1 DEF Sound, IsIndex
<1>5. staged[Pages] = [page |-> page, index |-> index]
  BY <1>1, <1>2, Paths DEF Missing, NoJournal, Pages
<1>6. Journals
  BY <1>1, <1>4, <1>5 DEF Journals
<1>7. \A t \in Task : Tree(t)
  <2>1. \A t \in Task : staged[Past(t)] = Absent
    BY <1>2, Paths DEF Past, Missing
  <2>2. ASSUME NEW t \in Task PROVE dir[Live(t)] # Absent
    <3>1. Live(t) \in Dirs /\ Live(t)[1] = "task"
      BY Paths DEF Live
    <3> QED
      BY <1>2, <3>1, Empty
  <2> QED
    BY <1>1, <2>1, <2>2 DEF Tree
<1>8. \A w \in Window : Free(w)
  BY <1>1 DEF Free
<1>9. \A w \in Window : InHand(w)
  BY <1>1, <1>8, IdleTypes DEF InHand, Recording, Committing
<1> QED
  BY <1>1, <1>3, <1>6, <1>7, <1>8, <1>9 DEF SerialInv, Alone, Trees, Gone

LEMMA MCNextKeeps == MCInv /\ MCNext => MCInv' /\ (Serial => Kept)
<1> SUFFICES ASSUME MCInv, MCNext, Serial, Serial' PROVE SerialInv' /\ Kept
  BY DEF MCInv, MCNext, Serial
<1>1. SerialInv
  BY DEF MCInv
<1>2. Busy = {} => \A v \in Window : Free(v)
  BY DEF Busy
<1>3. ASSUME loose' = Loose, Busy = {}, NEW w \in Window, Begins(w) PROVE SerialInv' /\ Kept
  BY <1>1, <1>2, <1>3, BeginsKeeps
<1>4. ASSUME Busy = {}, NEW t \in Task, EditTask(t) PROVE SerialInv' /\ Kept
  <2>1. UNCHANGED page
    BY <1>4 DEF EditTask, jvars
  <2> QED
    BY <1>1, <1>2, <1>4, <2>1, EditTaskKeeps DEF Kept
<1>5. ASSUME Busy = {}, NEW s \in Session, Fork(s) PROVE SerialInv' /\ Kept
  <2>1. UNCHANGED page
    BY <1>5 DEF Fork, jvars
  <2> QED
    BY <1>1, <1>2, <1>5, <2>1, ForkKeeps DEF Kept
<1>6. ASSUME Busy = {}, Merge PROVE SerialInv' /\ Kept
  BY <1>1, <1>2, <1>6, MergeKeeps DEF Kept
<1>7. ASSUME UNCHANGED loose, NEW w \in Window, Goes(w) PROVE SerialInv' /\ Kept
  BY <1>1, <1>7, GoesKeeps
<1>8. ASSUME NEW w \in Window, Dies(w) PROVE SerialInv' /\ Kept
  BY <1>1, <1>8, DiesKeeps
<1> QED
  BY <1>3, <1>4, <1>5, <1>6, <1>7, <1>8 DEF MCNext

LEMMA MCStep == MCInv /\ [MCNext]_mcvars => MCInv' /\ (Serial => Kept)
<1>1. ASSUME MCInv, UNCHANGED mcvars PROVE MCInv' /\ Kept
  <2>1. UNCHANGED <<developer, page, index, rec, dir, staged, head, git, archived, branch, mode, loose>>
    BY <1>1 DEF mcvars, vars, jvars, gvars
  <2>2. SerialInv => SerialInv'
    <3>1. Typed => Typed'
      BY <2>1 DEF Typed
    <3>2. Alone => Alone'
      BY <2>1 DEF Alone, Free
    <3>3. Journals => Journals'
      BY <2>1 DEF Journals
    <3>4. (Trees => Trees') /\ (Gone => Gone')
      BY <2>1 DEF Trees, Tree, Gone, Away
    <3>5. ASSUME NEW w \in Window, InHand(w) PROVE InHand(w)'
      <4>1. Recording(rec[w])'
        BY <2>1, <3>5 DEF InHand, Recording, Total
      <4>2. Committing(git[w])'
        BY <2>1, <3>5 DEF InHand, Committing, Away
      <4> QED
        BY <2>1, <3>5, <4>1, <4>2 DEF InHand, Free, Scoped, Loose
    <3> QED
      BY <3>1, <3>2, <3>3, <3>4, <3>5 DEF SerialInv
  <2> QED
    BY <1>1, <2>1, <2>2 DEF MCInv, Serial, Kept
<1> QED
  BY <1>1, MCNextKeeps

LEMMA MCInvAlways == MCSpec => []MCInv
BY MCInit_MCInv, MCStep, PTL DEF MCSpec

-----------------------------------------------------------------------------
\* Wherever commands are killed, commits are rejected and branches are merged:
\* each session that index.md lists is on a page, on disk and in HEAD
\* (add_session.py appends before it updates the index, and git merges pages by
\* union).
THEOREM ListedSessionsBacked == MCSpec => []ListedSessionsWritten
<1>1. MCInv => ListedSessionsWritten
  BY DEF MCInv, SerialInv, Journals, Sound, Backed, ListedSessionsWritten
<1> QED
  BY <1>1, MCInvAlways, PTL

\* The history in index.md numbers the sessions 1, 2, 3 and so on, on disk and in
\* HEAD, although a killed command leaves a session of the next number on a page
\* (get_current_session, update_index).
THEOREM HistoryGapless == MCSpec => []HistoryNumbered
<1>1. MCInv => HistoryNumbered
  BY DEF MCInv, SerialInv, Journals, Sound, Numbered, HistoryNumbered
<1> QED
  BY <1>1, MCInvAlways, PTL

\* An archive that reported success has left no trace of its source in the git
\* index or in HEAD, wherever earlier archives were killed, refused or rejected
\* (task_store.py:663-675).
THEOREM NoPhantomDeletes == MCSpec => []NoPhantomDelete
<1>1. MCInv => NoPhantomDelete
  BY DEF MCInv, SerialInv, Gone, Away, NoPhantomDelete
<1> QED
  BY <1>1, MCInvAlways, PTL

\* A session that is on a page stays on one: a command adds pages and entries and
\* empties no page, and so does a merge (create_new_journal_file).
THEOREM SessionsNeverLost == MCSpec => SessionsKept
<1>1. MCInv /\ [MCNext]_mcvars => [Serial => Kept]_mcvars
  BY MCStep
<1> QED
  BY <1>1, MCInvAlways, PTL DEF MCSpec, SessionsKept, Kept

\* HEAD changes by the commit of a command that has staged what it commits, or by
\* a merge between commands.
LEMMA HeadChanges ==
  ASSUME MCInv, [MCNext]_mcvars, Serial, head' # head
  PROVE  \/ /\ head' = staged
            /\ \E w \in Window : git[w].at = "commit"
         \/ Busy = {} /\ Merge
<1>1. ASSUME NEW w \in Window, Begins(w) PROVE FALSE
  BY <1>1 DEF Begins, ArchiveEdit, gvars
<1>2. ASSUME NEW w \in Window, Dies(w) PROVE FALSE
  BY <1>2 DEF Dies, GitKilled, gvars
<1>3. ASSUME NEW w \in Window, Goes(w) PROVE head' = staged /\ git[w].at = "commit"
  BY <1>3 DEF Goes, gvars, SessionPaths, SessionAdd, SessionCommit, ArchiveChild, ArchiveMove,
              ArchiveTracked, ArchiveAdd, ArchiveRemove, ArchiveCommit, Step
<1>4. ~UNCHANGED mcvars /\ \A t : ~EditTask(t) /\ ~Fork(t)
  BY DEF mcvars, vars, gvars, EditTask, Fork
<1> QED
  BY <1>1, <1>2, <1>3, <1>4 DEF MCNext

\* A session commits the journal and at most one task, an archive what it has
\* archived and the children it rewrote, and each beside that only what an earlier
\* command had left staged (add_session.py:443-446, task_store.py:620-624).
THEOREM CommitsInScope == MCSpec => CommitScope
<1> DEFINE Taken == {p \in Path : head'[p] # head[p]} \ loose
           Scope == Serial => \A w \in Window :
             (Step(w, "commit") /\ head' # head) =>
               LET taken == {p \in Path : head'[p] # head[p]} \ loose IN
               IF git[w].task = NoTask
               THEN Cardinality(taken \ {Pages}) <= 1
               ELSE taken \subseteq git[w].paths \cup {Live(git[w].task)}
<1>1. MCInv /\ [MCNext]_mcvars => [Scope]_mcvars
  <2> SUFFICES ASSUME MCInv, [MCNext]_mcvars, Serial, NEW w \in Window, git[w].at = "commit", head' # head
               PROVE  IF git[w].task = NoTask
                      THEN Cardinality(Taken \ {Pages}) <= 1
                      ELSE Taken \subseteq git[w].paths \cup {Live(git[w].task)}
    BY DEF Step
  <2>1. ~Free(w) /\ Committing(git[w]) /\ Scoped(w)
    BY GitHand DEF MCInv
  <2>2. head' = staged
    BY <2>1, HeadChanges DEF Busy
  <2>3. Taken \subseteq Path \cap (git[w].paths \cup {Live(git[w].task)})
    BY <2>1, <2>2 DEF Scoped, Loose
  <2>4. CASE git[w].task = NoTask
    <3>1. PICK q \in Path : git[w].paths \subseteq {Pages, q}
      BY <2>1, <2>4 DEF Committing
    <3>2. Taken \ {Pages} \in SUBSET {q}
      BY <2>3, <2>4, <3>1, Paths
    <3> HIDE DEF Taken
    <3>3. IsFiniteSet({q}) /\ Cardinality({q}) = 1
      BY FS_Singleton
    <3> QED
      BY <2>4, <3>2, <3>3, FS_Subset
  <2>5. CASE git[w].task # NoTask
    BY <2>3, <2>5
  <2> QED
    BY <2>4, <2>5
<1> QED
  BY <1>1, MCInvAlways, PTL DEF MCSpec, CommitScope

\* A commit takes a task out of tasks/ only together with its archived copy,
\* whatever an earlier archive, killed or refused half way, has left staged
\* (task_store.py:636-675).
THEOREM TasksNeverDropped == MCSpec => CommitKeepsTask
<1> DEFINE Keeps == Serial => \A t \in Task :
             head[Live(t)] # Absent /\ head'[Live(t)] = Absent => head'[Past(t)] # Absent
<1>1. MCInv /\ [MCNext]_mcvars => [Keeps]_mcvars
  <2> SUFFICES ASSUME MCInv, [MCNext]_mcvars, Serial, NEW t \in Task,
                      head[Live(t)] # Absent, head'[Live(t)] = Absent
               PROVE  head'[Past(t)] # Absent
    OBVIOUS
  <2>1. CASE head' = staged
    BY <2>1 DEF MCInv, SerialInv, Trees, Tree
  <2>2. CASE Merge
    <3>1. head'[Live(t)] = head[Live(t)]
      BY <2>2, Paths DEF Merge, MCInv, SerialInv, Typed
    <3> QED
      BY <3>1
  <2> QED
    BY <2>1, <2>2, HeadChanges
<1> QED
  BY <1>1, MCInvAlways, PTL DEF MCSpec, CommitKeepsTask

-----------------------------------------------------------------------------
(***************************************************************************)
(* The lines on a page.  MapThenSumSet adds up a finite set one element    *)
(* after the other, in an order it chooses; what it computes is shown by   *)
(* induction over the subsets of the set, which comes from the least ones  *)
(* that refute it.                                                         *)
(***************************************************************************)

\* Among sets of elements of a finite set there is a least one.
LEMMA Minimal ==
  ASSUME NEW S, IsFiniteSet(S), NEW F \in SUBSET SUBSET S, F # {}
  PROVE  \E x \in F : \A y \in F : y \subseteq x => y = x
<1>1. F \subseteq FiniteSubsetsOf(S)
  BY FS_FiniteSubsetsOfFinite
<1>2. \E x \in F : \A y \in F : ~(<<y, x>> \in StrictSubsetOrdering(S))
  BY <1>1, FS_StrictSubsetOrderingWellFounded, WFMin
<1> QED
  BY <1>2 DEF StrictSubsetOrdering

\* Induction over the subsets of a finite set: the sets G are all of them when a
\* set is in G as soon as all smaller ones are.
LEMMA Smaller ==
  ASSUME NEW S, IsFiniteSet(S), NEW G,
         \A T \in SUBSET S : (\A U \in SUBSET T : U # T => U \in G) => T \in G
  PROVE  SUBSET S \subseteq G
<1> DEFINE F == {T \in SUBSET S : T \notin G}
<1>1. ASSUME F # {} PROVE FALSE
  <2>1. F \in SUBSET SUBSET S
    OBVIOUS
  <2>2. PICK T \in F : \A U \in F : U \subseteq T => U = T
    <3> HIDE DEF F
    <3> QED
      BY <1>1, <2>1, Minimal
  <2>3. \A U \in SUBSET T : U # T => U \in G
    BY <2>2
  <2> QED
    BY <2>2, <2>3
<1> QED
  BY <1>1

\* The lines of a set of entries, as MapThenSumSet adds them up, one after the other.
Sum(S)   == MapThenSumSet(LAMBDA e : Size[e.id], S)
Some(s)  == CHOOSE x \in s : TRUE
Added(g, s) == IF s = {} THEN 0 ELSE Size[Some(s).id] + g[s \ {Some(s)}]
Adds(g, S)  == g = [s \in SUBSET S |-> Added(g, s)]

LEMMA SumUnfolds == ASSUME NEW S PROVE Sum(S) = (CHOOSE g : Adds(g, S))[S]
BY DEF Sum, MapThenSumSet, MapThenFoldSet, Adds, Added, Some

LEMMA SomeIn == ASSUME NEW s, s # {} PROVE Some(s) \in s
BY DEF Some

LEMMA AddsExist == ASSUME NEW S, IsFiniteSet(S) PROVE \E g : Adds(g, S)
<1> DEFINE Upto(n) == {s \in SUBSET S : Cardinality(s) <= n}
           Fit(g, n) == g = [s \in Upto(n) |-> Added(g, s)]
           Good == {n \in Nat : \E g : Fit(g, n)}
<1>0. \A s \in SUBSET S : IsFiniteSet(s) /\ Cardinality(s) \in Nat /\ Cardinality(s) <= Cardinality(S)
  BY FS_Subset, FS_CardinalityType
<1>1. 0 \in Good
  <2> DEFINE g == [s \in Upto(0) |-> 0]
  <2>1. \A s \in Upto(0) : Added(g, s) = 0
    BY <1>0, FS_EmptySet DEF Added
  <2>2. Fit(g, 0)
    BY <2>1
  <2> HIDE DEF g, Fit
  <2> QED
    BY <2>2
<1>2. ASSUME NEW n \in Nat, n \in Good PROVE n + 1 \in Good
  <2>1. PICK g : Fit(g, n)
    BY <1>2
  <2> DEFINE h == [s \in Upto(n + 1) |-> Added(g, s)]
  <2>2. ASSUME NEW s \in Upto(n + 1) PROVE Added(g, s) = Added(h, s)
    <3>1. CASE s = {}
      BY <3>1 DEF Added
    <3>2. CASE s # {}
      <4> DEFINE r == s \ {Some(s)}
      <4>1. r \in SUBSET S /\ IsFiniteSet(s) /\ Some(s) \in s
        BY <1>0, <3>2, SomeIn
      <4>2. Cardinality(r) = Cardinality(s) - 1 /\ Cardinality(s) \in Nat
        BY <1>0, <4>1, FS_RemoveElement
      <4>3. r \in Upto(n) /\ r \in Upto(n + 1)
        BY <1>0, <4>1, <4>2
      <4>4. g[r] = Added(g, r) /\ h[r] = Added(g, r)
        BY <2>1, <4>3
      <4> QED
        BY <3>2, <4>4 DEF Added
    <3> QED
      BY <3>1, <3>2
  <2>3. Fit(h, n + 1)
    BY <2>2
  <2> HIDE DEF h, Fit
  <2> QED
    BY <2>3
<1>3. Cardinality(S) \in Nat
  BY FS_CardinalityType
<1>4. \A n \in Nat : n \in Good
  <2> SUFFICES ASSUME NEW N \in Nat PROVE N \in Good
    OBVIOUS
  <2> DEFINE A == 1 .. N
             G == {T \in SUBSET A : Cardinality(T) \in Good}
  <2>1. IsFiniteSet(A) /\ Cardinality(A) = N
    <3>1. 1 \in Int /\ N \in Int
      OBVIOUS
    <3> QED
      BY <3>1, FS_Interval
  <2> HIDE DEF A, Good
  <2>2. ASSUME NEW T \in SUBSET A, \A U \in SUBSET T : U # T => U \in G PROVE T \in G
    <3>1. IsFiniteSet(T)
      BY <2>1, FS_Subset
    <3>2. CASE T = {}
      BY <1>1, <3>2, FS_EmptySet
    <3>3. CASE T # {}
      <4>1. PICK x \in T : TRUE
        BY <3>3
      <4>2. T \ {x} \in G
        BY <2>2, <4>1
      <4>3. Cardinality(T \ {x}) = Cardinality(T) - 1
        BY <3>1, <4>1, FS_RemoveElement
      <4>4. Cardinality(T) \in Nat /\ Cardinality(T \ {x}) \in Nat /\ Cardinality(T \ {x}) \in Good
        BY <3>1, <4>2, FS_CardinalityType, FS_Subset
      <4>5. Cardinality(T \ {x}) + 1 \in Good
        BY <1>2, <4>4
      <4>6. Cardinality(T) = Cardinality(T \ {x}) + 1
        BY <4>3, <4>4
      <4> QED
        BY <4>5, <4>6
    <3> QED
      BY <3>2, <3>3
  <2>3. SUBSET A \subseteq G
    <3> HIDE DEF G
    <3> QED
      BY <2>1, <2>2, Smaller
  <2> QED
    BY <2>1, <2>3
<1>5. PICK g : Fit(g, Cardinality(S))
  BY <1>3, <1>4
<1>6. Upto(Cardinality(S)) = SUBSET S
  BY <1>0
<1>7. Adds(g, S)
  BY <1>5, <1>6 DEF Adds
<1> QED
  BY <1>7

LEMMA AddsIs ==
  ASSUME NEW S, NEW g, Adds(g, S), NEW T \in SUBSET S, T # {}
  PROVE  Some(T) \in T /\ g[T] = Size[Some(T).id] + g[T \ {Some(T)}]
BY SomeIn DEF Adds, Added

\* What the order of adding has no influence on.
LEMMA AddsNat ==
  ASSUME NEW S \in SUBSET Entry, IsFiniteSet(S), NEW g, Adds(g, S)
  PROVE  \A T \in SUBSET S : g[T] \in Nat
<1> DEFINE G == {T \in SUBSET S : g[T] \in Nat}
<1>1. ASSUME NEW T \in SUBSET S, \A U \in SUBSET T : U # T => U \in G PROVE T \in G
  <2>1. CASE T = {}
    BY <2>1 DEF Adds, Added
  <2>2. CASE T # {}
    <3>1. Some(T) \in T /\ g[T] = Size[Some(T).id] + g[T \ {Some(T)}]
      BY <2>2, AddsIs
    <3>2. Size[Some(T).id] \in Nat
      BY <3>1, JournalAssumption DEF Entry
    <3>3. g[T \ {Some(T)}] \in Nat
      BY <1>1, <3>1
    <3> QED
      BY <3>1, <3>2, <3>3
  <2> QED
    BY <2>1, <2>2
<1> HIDE DEF G
<1>2. SUBSET S \subseteq G
  BY <1>1, Smaller
<1> QED
  BY <1>2 DEF G

LEMMA AddsAny ==
  ASSUME NEW S \in SUBSET Entry, IsFiniteSet(S), NEW g, Adds(g, S)
  PROVE  \A T \in SUBSET S : \A e \in T : g[T] = g[T \ {e}] + Size[e.id]
<1> DEFINE G == {T \in SUBSET S : \A e \in T : g[T] = g[T \ {e}] + Size[e.id]}
<1>0. (\A T \in SUBSET S : g[T] \in Nat) /\ \A e \in S : Size[e.id] \in Nat
  BY AddsNat, JournalAssumption DEF Entry
<1>1. ASSUME NEW T \in SUBSET S, \A U \in SUBSET T : U # T => U \in G PROVE T \in G
  <2> SUFFICES ASSUME NEW e \in T PROVE g[T] = g[T \ {e}] + Size[e.id]
    OBVIOUS
  <2> DEFINE x == Some(T)
  <2>1. x \in T /\ g[T] = Size[x.id] + g[T \ {x}]
    BY AddsIs
  <2> HIDE DEF x
  <2>2. CASE e = x
    BY <1>0, <2>1, <2>2
  <2>3. CASE e # x
    <3>1. g[T \ {x}] = g[(T \ {x}) \ {e}] + Size[e.id]
      BY <1>1, <2>1, <2>3
    <3>2. g[T \ {e}] = g[(T \ {e}) \ {x}] + Size[x.id]
      BY <1>1, <2>1, <2>3
    <3>3. (T \ {e}) \ {x} = (T \ {x}) \ {e} /\ (T \ {x}) \ {e} \in SUBSET S
      OBVIOUS
    <3>4. g[(T \ {x}) \ {e}] \in Nat /\ Size[e.id] \in Nat /\ Size[x.id] \in Nat
      BY <1>0, <2>1, <3>3
    <3> QED
      BY <2>1, <3>1, <3>2, <3>3, <3>4
  <2> QED
    BY <2>2, <2>3
<1> HIDE DEF G
<1>2. SUBSET S \subseteq G
  BY <1>1, Smaller
<1> QED
  BY <1>2 DEF G

LEMMA AddsSame ==
  ASSUME NEW S, IsFiniteSet(S), NEW g, Adds(g, S), NEW R, NEW h, Adds(h, R), S \subseteq R
  PROVE  \A T \in SUBSET S : g[T] = h[T]
<1> DEFINE G == {T \in SUBSET S : g[T] = h[T]}
<1>1. ASSUME NEW T \in SUBSET S, \A U \in SUBSET T : U # T => U \in G PROVE T \in G
  <2>1. CASE T = {}
    BY <2>1 DEF Adds, Added
  <2>2. CASE T # {}
    <3>1. Some(T) \in T /\ g[T] = Size[Some(T).id] + g[T \ {Some(T)}]
      BY <2>2, AddsIs
    <3>2. h[T] = Size[Some(T).id] + h[T \ {Some(T)}]
      <4>1. T \in SUBSET R
        OBVIOUS
      <4>2. h[T] = Added(h, T)
        BY <4>1 DEF Adds
      <4> QED
        BY <2>2, <4>2 DEF Added
    <3>3. g[T \ {Some(T)}] = h[T \ {Some(T)}]
      BY <1>1, <3>1
    <3> QED
      BY <3>1, <3>2, <3>3
  <2> QED
    BY <2>1, <2>2
<1> HIDE DEF G
<1>2. SUBSET S \subseteq G
  BY <1>1, Smaller
<1> QED
  BY <1>2 DEF G

LEMMA SumNat == ASSUME NEW S \in SUBSET Entry, IsFiniteSet(S) PROVE Sum(S) \in Nat
<1>1. PICK g : g = CHOOSE f : Adds(f, S)
  OBVIOUS
<1>2. Adds(g, S)
  BY <1>1, AddsExist
<1> QED
  BY <1>1, <1>2, AddsNat, SumUnfolds

\* An entry more on a page.
LEMMA SumMore ==
  ASSUME NEW S \in SUBSET Entry, IsFiniteSet(S), NEW e \in Entry, e \notin S
  PROVE  Sum(S) \in Nat /\ Sum(S \cup {e}) = Sum(S) + Size[e.id]
<1> DEFINE R == S \cup {e}
           g == CHOOSE f : Adds(f, S)
           h == CHOOSE f : Adds(f, R)
<1>1. IsFiniteSet(R) /\ R \in SUBSET Entry
  BY FS_AddElement
<1> HIDE DEF R
<1>2. Adds(g, S) /\ Adds(h, R)
  BY <1>1, AddsExist
<1>3. Sum(S) = g[S] /\ Sum(R) = h[R]
  BY SumUnfolds
<1> HIDE DEF g, h
<1>4. S \subseteq R /\ e \in R /\ R \ {e} = S
  BY DEF R
<1>5. h[R] = h[S] + Size[e.id]
  BY <1>1, <1>2, <1>4, AddsAny
<1>6. g[S] = h[S] /\ g[S] \in Nat
  BY <1>2, <1>4, AddsSame, AddsNat
<1> QED
  BY <1>3, <1>5, <1>6 DEF R

-----------------------------------------------------------------------------
(* Pages within the limit, while commands run one at a time and no branch  *)
(* is forked.                                                              *)

LEMMA LinesIs == ASSUME NEW pages, NEW n PROVE Lines(pages, n) = Header + Sum(pages[n])
BY DEF Lines, Sum, MapThenSumSet, MapThenFoldSet

LEMMA LinesNat ==
  ASSUME NEW pages, NEW n, pages[n] \in SUBSET Entry, IsFiniteSet(pages[n])
  PROVE  Lines(pages, n) \in Nat
<1>1. Sum(pages[n]) \in Nat
  BY SumNat
<1> QED
  BY <1>1, LinesIs, JournalAssumption

LEMMA LinesSame ==
  ASSUME NEW old, NEW new, NEW n, old[n] = new[n] PROVE Lines(old, n) = Lines(new, n)
BY LinesIs

\* Every page is within the limit, up to a single session that is longer.
Short(pages) == (\A n \in DOMAIN pages : IsFiniteSet(pages[n])) /\ Bounded(pages)

\* The session that a command is about to append fits on its page, or is the first there.
Fits(c) ==
  /\ c.at = "number" => c.full = Full(page, c.id)
  /\ c.at = "append" /\ c.target # 0 =>
       page[c.target] = {} \/ Lines(page, c.target) + Size[c.id] <= MaxLines

AloneInv ==
  mode = "alone" => branch = NoFile /\ Short(page) /\ \A w \in Window : Fits(rec[w])

LEMMA NewPageShort ==
  ASSUME NEW pages, NEW n, Short(pages) PROVE Short(NewPage(pages, n))
<1> DEFINE new == NewPage(pages, n)
<1>1. /\ DOMAIN new = DOMAIN pages \cup {n} /\ new[n] = {}
      /\ \A k \in DOMAIN pages \ {n} : new[k] = pages[k]
  BY DEF NewPage
<1> HIDE DEF new
<1>2. IsFiniteSet(new[n]) /\ ~(Cardinality(new[n]) > 1)
  BY <1>1, FS_EmptySet
<1>3. ASSUME NEW k \in DOMAIN pages \ {n}
      PROVE  IsFiniteSet(new[k]) /\ (Cardinality(new[k]) > 1 => Lines(new, k) <= MaxLines)
  <2>1. new[k] = pages[k] /\ Lines(new, k) = Lines(pages, k)
    BY <1>1, LinesSame
  <2> QED
    BY <2>1 DEF Short, Bounded
<1>4. Short(new)
  BY <1>1, <1>2, <1>3 DEF Short, Bounded
<1> QED
  BY <1>4 DEF new

LEMMA WithEntryShort ==
  ASSUME NEW pages, Short(pages), NEW n \in DOMAIN pages, pages[n] \in SUBSET Entry, NEW e \in Entry,
         pages[n] = {} \/ Lines(pages, n) + Size[e.id] <= MaxLines
  PROVE  Short(WithEntry(pages, n, e))
<1> DEFINE new == WithEntry(pages, n, e)
<1>1. /\ DOMAIN new = DOMAIN pages /\ new[n] = pages[n] \cup {e}
      /\ \A k \in DOMAIN pages \ {n} : new[k] = pages[k]
  BY DEF WithEntry
<1> HIDE DEF new
<1>2. IsFiniteSet(pages[n]) /\ IsFiniteSet(new[n])
  BY <1>1, FS_AddElement DEF Short
<1>3. Cardinality(new[n]) > 1 => Lines(new, n) <= MaxLines
  <2>1. CASE e \in pages[n]
    <3>1. new[n] = pages[n] /\ Lines(new, n) = Lines(pages, n)
      BY <1>1, <2>1, LinesSame
    <3> QED
      BY <3>1 DEF Short, Bounded
  <2>2. CASE pages[n] = {}
    <3>1. new[n] = {e} /\ Cardinality({e}) = 1
      BY <1>1, <2>2, FS_Singleton
    <3> QED
      BY <3>1
  <2>3. CASE e \notin pages[n] /\ pages[n] # {}
    <3>1. Sum(pages[n]) \in Nat /\ Sum(new[n]) = Sum(pages[n]) + Size[e.id]
      BY <1>1, <1>2, <2>3, SumMore
    <3>2. Header \in Nat /\ Size[e.id] \in Nat /\ MaxLines \in Nat
      BY JournalAssumption DEF Entry
    <3>3. Header + Sum(pages[n]) + Size[e.id] <= MaxLines
      BY <2>3, LinesIs
    <3> QED
      BY <3>1, <3>2, <3>3, LinesIs
  <2> QED
    BY <2>1, <2>2, <2>3
<1>4. ASSUME NEW k \in DOMAIN pages \ {n}
      PROVE  IsFiniteSet(new[k]) /\ (Cardinality(new[k]) > 1 => Lines(new, k) <= MaxLines)
  <2>1. new[k] = pages[k] /\ Lines(new, k) = Lines(pages, k)
    BY <1>1, LinesSame
  <2> QED
    BY <2>1 DEF Short, Bounded
<1>5. Short(new)
  BY <1>1, <1>2, <1>3, <1>4 DEF Short, Bounded
<1> QED
  BY <1>5 DEF new

LEMMA OthersIdle ==
  ASSUME SerialInv, NEW w \in Window, rec[w] # Idle
  PROVE  \A v \in Window \ {w} : rec[v] = Idle
BY DEF SerialInv, Alone, Free

LEMMA FitsSame ==
  ASSUME UNCHANGED page, NEW v, Fits(rec[v]), rec'[v] = rec[v] \/ rec'[v].at \notin {"number", "append"}
  PROVE  Fits(rec[v])'
<1>1. CASE rec'[v] = rec[v]
  <2>1. page' = page
    OBVIOUS
  <2>2. Full(page', rec[v].id) = Full(page, rec[v].id)
    BY <2>1
  <2>3. Lines(page', rec[v].target) = Lines(page, rec[v].target)
    BY <2>1
  <2> QED
    BY <1>1, <2>1, <2>2, <2>3 DEF Fits
<1>2. CASE rec'[v].at \notin {"number", "append"}
  BY <1>2 DEF Fits
<1> QED
  BY <1>1, <1>2

\* The steps that leave the pages alone and append nothing.
LEMMA RestFits ==
  ASSUME \A w \in Window : Fits(rec[w]), UNCHANGED page,
         \A w \in Window : rec'[w] = rec[w] \/ rec'[w].at \notin {"number", "append"}
  PROVE  \A w \in Window : Fits(rec[w])'
BY FitsSame

LEMMA AddReadFits ==
  ASSUME SerialInv, \A v \in Window : Free(v), NEW w \in Window, NEW s \in Session, AddRead(w, s)
  PROVE  \A v \in Window : Fits(rec[v])'
<1>1. UNCHANGED page /\ rec'[w].at = "number" /\ rec'[w].id = s /\ rec'[w].full = Full(page, s)
      /\ \A v \in Window \ {w} : rec'[v] = Idle
  BY Types DEF AddRead, Idle, Free
<1>2. Fits(rec[w])'
  <2>1. page' = page /\ Full(page', s) = Full(page, s)
    BY <1>1
  <2> QED
    BY <1>1, <2>1 DEF Fits
<1>3. \A v \in Window \ {w} : Fits(rec[v])'
  BY <1>1, IdleTypes DEF Fits
<1> QED
  BY <1>2, <1>3

LEMMA AddNumberFits ==
  ASSUME SerialInv, Short(page), \A v \in Window : Fits(rec[v]), NEW w \in Window, AddNumber(w)
  PROVE  \A v \in Window : Fits(rec[v])'
<1> DEFINE s == rec[w].id
           n == rec[w].target
<1>1. /\ rec[w].at = "number" /\ UNCHANGED page
      /\ rec'[w].at = (IF rec[w].full THEN "rotate" ELSE "append")
      /\ rec'[w].id = s /\ rec'[w].target = n
      /\ \A v \in Window \ {w} : rec'[v] = rec[v]
  BY Types DEF AddNumber, At, Recs
<1>2. /\ s \in Session /\ n \in Nat /\ DOMAIN page = 1 .. n /\ rec[w].full = Full(page, s)
      /\ \E m \in Nat : Paged(page, m)
  BY <1>1, RecHand DEF Recording, Fits, Recs, Sound
<1>3. Paged(page, n) /\ Latest(page) = n
  <2>1. Paged(page, n)
    BY <1>2 DEF Paged
  <2> QED
    BY <1>2, <2>1, LatestIs
<1>4. ASSUME ~Full(page, s), n # 0 PROVE Lines(page, n) + Size[s] <= MaxLines
  <2>1. n \in DOMAIN page
    BY <1>2, <1>4
  <2>2. IsFiniteSet(page[n]) /\ page[n] \in SUBSET Entry
    BY <1>2, <1>3, <2>1 DEF Short, Paged
  <2>3. Lines(page, n) \in Nat /\ Size[s] \in Nat /\ MaxLines \in Nat
    BY <1>2, <2>2, LinesNat, JournalAssumption
  <2>4. ~(Lines(page, n) + Size[s] > MaxLines)
    BY <1>3, <1>4 DEF Full
  <2> QED
    BY <2>3, <2>4
<1>5. Fits(rec[w])'
  <2>1. page' = page /\ Lines(page', n) = Lines(page, n)
    BY <1>1
  <2> QED
    BY <1>1, <1>2, <1>4, <2>1 DEF Fits
<1> QED
  BY <1>1, <1>5, FitsSame

LEMMA AddRotateFits ==
  ASSUME SerialInv, Short(page), NEW w \in Window, AddRotate(w)
  PROVE  Short(page') /\ \A v \in Window : Fits(rec[v])'
<1> DEFINE n == rec[w].target + 1
<1>1. /\ rec[w].at = "rotate" /\ page' = NewPage(page, n)
      /\ rec'[w].at = "append" /\ rec'[w].target = n
      /\ \A v \in Window \ {w} : rec'[v] = rec[v]
  BY Types DEF AddRotate, At, Recs
<1>2. page'[n] = {}
  BY <1>1 DEF NewPage
<1>3. Fits(rec[w])'
  BY <1>1, <1>2 DEF Fits
<1>4. \A v \in Window \ {w} : Fits(rec[v])'
  BY <1>1, RecHand, OthersIdle, IdleTypes DEF Fits
<1> QED
  BY <1>1, <1>3, <1>4, NewPageShort

LEMMA AddAppendFits ==
  ASSUME SerialInv, Short(page), \A v \in Window : Fits(rec[v]), NEW w \in Window, AddAppend(w)
  PROVE  Short(page') /\ \A v \in Window : Fits(rec[v])'
<1> DEFINE n == rec[w].target
           e == [id |-> rec[w].id, num |-> rec[w].num]
<1>1. /\ rec[w].at = "append" /\ page' = (IF n = 0 THEN page ELSE WithEntry(page, n, e))
      /\ rec'[w].at = "table"
      /\ \A v \in Window \ {w} : rec'[v] = rec[v]
  BY Types DEF AddAppend, At, Goto, Recs
<1>2. \A v \in Window : Fits(rec[v])'
  BY <1>1, RecHand, OthersIdle, IdleTypes DEF Fits
<1>3. ASSUME n # 0 PROVE Short(page')
  <2>1. /\ n \in DOMAIN page /\ e \in Entry /\ e.id = rec[w].id
        /\ page[n] = {} \/ Lines(page, n) + Size[e.id] <= MaxLines
        /\ \E m \in Nat : Paged(page, m)
    BY <1>1, <1>3, RecHand DEF Recording, Fits, Recs, Entry, Sound
  <2>2. page[n] \in SUBSET Entry
    BY <2>1 DEF Paged
  <2> HIDE DEF e
  <2>3. Short(WithEntry(page, n, e))
    BY <2>1, <2>2, WithEntryShort
  <2> QED
    BY <1>1, <1>3, <2>3
<1> QED
  BY <1>1, <1>2, <1>3

LEMMA InitPageFits ==
  ASSUME SerialInv, Short(page), NEW w \in Window, InitPage(w)
  PROVE  Short(page') /\ \A v \in Window : Fits(rec[v])'
<1>1. /\ rec[w].at = "first page" /\ page' = (IF 1 \in DOMAIN page THEN page ELSE NewPage(page, 1))
      /\ rec'[w].at = "first index"
      /\ \A v \in Window \ {w} : rec'[v] = rec[v]
  BY Types DEF InitPage, At, Goto, Recs
<1>2. \A v \in Window : Fits(rec[v])'
  BY <1>1, RecHand, OthersIdle, IdleTypes DEF Fits
<1> QED
  BY <1>1, <1>2, NewPageShort

LEMMA RecordFits ==
  ASSUME SerialInv, Short(page), \A v \in Window : Fits(rec[v]), NEW w \in Window, RecordSteps(w)
  PROVE  Short(page') /\ \A v \in Window : Fits(rec[v])'
<1>1. CASE InitPage(w) \/ AddRotate(w) \/ AddAppend(w)
  BY <1>1, InitPageFits, AddRotateFits, AddAppendFits
<1>2. CASE AddNumber(w)
  <2>1. page' = page
    BY <1>2 DEF AddNumber
  <2> QED
    BY <1>2, <2>1, AddNumberFits
<1>3. CASE \/ InitIndex(w) \/ InitWriteIndex(w)
           \/ AddReadIndex(w) \/ AddTruncate(w) \/ AddWriteIndex(w) \/ AddEnd(w)
  <2>1. page' = page
    BY <1>3 DEF InitIndex, InitWriteIndex, AddReadIndex, AddTruncate, AddWriteIndex, AddEnd
  <2>2. \A v \in Window : rec'[v] = rec[v] \/ rec'[v].at \notin {"number", "append"}
    <3>1. CASE Done(w)
      BY <3>1, Types, IdleTypes DEF Done
    <3>2. CASE Goto(w, "first index write")
      BY <3>2, Types DEF Goto, Recs
    <3>3. CASE Goto(w, "index") \/ Goto(w, "commit")
      BY <3>3, Types DEF Goto, Recs
    <3>4. CASE AddReadIndex(w) /\ ~Done(w)
      BY <3>4, Types DEF AddReadIndex, Recs
    <3> QED
      BY <1>3, <3>1, <3>2, <3>3, <3>4 DEF InitIndex, InitWriteIndex, AddReadIndex, AddTruncate, AddWriteIndex, AddEnd
  <2> QED
    BY <2>1, <2>2, RestFits
<1> QED
  BY <1>1, <1>2, <1>3 DEF RecordSteps

LEMMA AloneStep == MCInv /\ AloneInv /\ [MCNext]_mcvars => AloneInv'
<1> SUFFICES ASSUME MCInv, AloneInv, [MCNext]_mcvars, mode' = "alone"
             PROVE  branch' = NoFile /\ Short(page') /\ \A v \in Window : Fits(rec[v])'
  BY DEF AloneInv
<1>1. mode = "alone" /\ SerialInv /\ branch = NoFile /\ Short(page) /\ \A v \in Window : Fits(rec[v])
  BY DEF MCNext, mcvars, MCInv, AloneInv, Serial
<1> DEFINE Rest == /\ UNCHANGED <<page, branch>>
                   /\ \A v \in Window : rec'[v] = rec[v] \/ rec'[v] = Idle \/ rec'[v].at = "first page"
<1>2. ASSUME Rest PROVE branch' = NoFile /\ Short(page') /\ \A v \in Window : Fits(rec[v])'
  <2>1. UNCHANGED page /\ \A v \in Window : rec'[v] = rec[v] \/ rec'[v].at \notin {"number", "append"}
    BY <1>2, IdleTypes
  <2>2. page' = page
    BY <2>1
  <2> QED
    BY <1>1, <1>2, <2>1, <2>2, RestFits
<1>3. ASSUME NEW w \in Window, RecordSteps(w), UNCHANGED gvars
      PROVE  branch' = NoFile /\ Short(page') /\ \A v \in Window : Fits(rec[v])'
  BY <1>1, <1>3, RecordFits, SMTT(40) DEF gvars
<1>4. ASSUME NEW w \in Window, Goes(w), ~(RecordSteps(w) /\ UNCHANGED gvars) PROVE Rest
  BY <1>1, <1>4, Types DEF Goes, SessionPaths, SessionAdd, SessionCommit, ArchiveChild, ArchiveMove,
                ArchiveTracked, ArchiveAdd, ArchiveRemove, ArchiveCommit, jvars, Done
<1>5. ASSUME NEW w \in Window, Dies(w) PROVE Rest
  BY <1>1, <1>5, Types DEF Dies, Killed, GitKilled, gvars, Done
<1>6. ASSUME NEW w \in Window, Busy = {}, Begins(w)
      PROVE  branch' = NoFile /\ Short(page') /\ \A v \in Window : Fits(rec[v])'
  <2>0. \A v \in Window : Free(v)
    BY <1>6 DEF Busy
  <2>1. CASE InitDeveloper(w) /\ UNCHANGED gvars
    <3>1. Rest
      BY <1>1, <2>1, Types DEF InitDeveloper, Goto, gvars, Recs
    <3> QED
      BY <1>2, <3>1
  <2>2. ASSUME NEW s \in Session, AddRead(w, s), UNCHANGED gvars
        PROVE  branch' = NoFile /\ Short(page') /\ \A v \in Window : Fits(rec[v])'
    <3>1. page' = page /\ branch' = branch
      BY <2>2 DEF AddRead, gvars
    <3> QED
      BY <1>1, <2>0, <2>2, <3>1, AddReadFits
  <2>3. ASSUME NEW t \in Task, ArchiveEdit(w, t) PROVE Rest
    BY <2>3 DEF ArchiveEdit, jvars
  <2> QED
    BY <1>2, <1>6, <2>1, <2>2, <2>3 DEF Begins
<1>7. ASSUME NEW t \in Task, EditTask(t) PROVE Rest
  BY <1>7 DEF EditTask, jvars
<1>8. ASSUME UNCHANGED mcvars PROVE Rest
  BY <1>8 DEF mcvars, vars, jvars, gvars
<1>9. ~Merge /\ mode # "branches"
  BY <1>1 DEF Merge
<1> HIDE DEF Rest
<1> QED
  BY <1>1, <1>2, <1>3, <1>4, <1>5, <1>6, <1>7, <1>8, <1>9 DEF MCNext, Serial

\* When commands do not overlap and no branch is merged, a page exceeds the limit
\* only with a single session on it, wherever commands are killed (workflow.md:82,
\* add_session.py: the new session is counted in before it is appended).
THEOREM PagesWithinLimit == MCSpec => []PagesBounded
<1>1. MCInit => AloneInv
  <2> SUFFICES ASSUME MCInit PROVE branch = NoFile /\ Short(page) /\ \A w \in Window : Fits(rec[w])
    BY DEF AloneInv
  <2>1. branch = NoFile /\ DOMAIN page = {} /\ \A w \in Window : rec[w] = Idle
    BY DEF MCInit, Init, GitInit
  <2> QED
    BY <2>1, IdleTypes DEF Short, Bounded, Fits
<1>2. AloneInv => PagesBounded
  BY DEF AloneInv, Short, PagesBounded
<1> QED
  BY <1>1, <1>2, AloneStep, MCInvAlways, PTL DEF MCSpec

-----------------------------------------------------------------------------
(***************************************************************************)
(* Types, also when commands overlap.                                      *)
(***************************************************************************)

\* A journal, sound or not.
Copy(j) ==
  /\ \E n \in Nat : Paged(j.page, n)
  /\ j.index \in Index \cup {NoFile, Torn}

\* The contents of all paths, as the git index or HEAD has them.
Tracked(c) == DOMAIN c = Path /\ Copy(c[Pages]) /\ \A p \in Dirs : c[p] \in 0 .. MaxVersion

\* A command that records appends to a page that is there, if there is one.
Records(c, pages) == c.at \in {"number", "rotate", "append", "table"} =>
                       c.id \in Session /\ c.target \in DOMAIN pages \cup {0}

JournalKinds == developer \in BOOLEAN /\ Copy(Work(Pages)) /\ (branch # NoFile => Copy(branch))
TreeKinds ==
  /\ dir \in [Dirs -> 0 .. MaxVersion]
  /\ \A t \in Task : dir[Live(t)] = Absent \/ dir[Past(t)] = Absent
RecKinds == rec \in [Window -> Recs] /\ \A w \in Window : Records(rec[w], page)
GitKinds ==
  /\ git \in [Window -> Gits] /\ archived \subseteq Task
  /\ \A w \in Window : git[w].at \in {"move", "tracked", "rm"} => git[w].task # NoTask

Kinds == JournalKinds /\ TreeKinds /\ Tracked(staged) /\ Tracked(head) /\ RecKinds /\ GitKinds

LEMMA WorkPages == Work(Pages) = [page |-> page, index |-> index]
BY DEF Work

LEMMA NewPagePaged ==
  ASSUME NEW pages, NEW n \in Nat, Paged(pages, n), NEW k \in 1 .. n + 1
  PROVE  /\ \E m \in Nat : Paged(NewPage(pages, k), m)
         /\ DOMAIN pages \subseteq DOMAIN NewPage(pages, k) /\ k \in DOMAIN NewPage(pages, k)
<1>1. DOMAIN pages = 1 .. n /\ \A m \in 1 .. n : pages[m] \in SUBSET Entry
  BY DEF Paged
<1>2. PICK m \in Nat : 1 .. n \cup {k} = 1 .. m
  <2>1. CASE k = n + 1
    <3>1. 1 .. n \cup {k} = 1 .. n + 1
      BY <2>1
    <3> QED
      BY <3>1
  <2>2. CASE k \in 1 .. n
    <3>1. 1 .. n \cup {k} = 1 .. n
      BY <2>2
    <3> QED
      BY <3>1
  <2> QED
    BY <2>1, <2>2
<1>3. NewPage(pages, k) \in [1 .. m -> SUBSET Entry]
  BY <1>1, <1>2 DEF NewPage
<1> QED
  BY <1>1, <1>2, <1>3 DEF Paged

LEMMA WithEntryPaged ==
  ASSUME NEW pages, NEW n \in Nat, Paged(pages, n), NEW k, NEW e \in Entry
  PROVE  Paged(WithEntry(pages, k, e), n) /\ DOMAIN WithEntry(pages, k, e) = DOMAIN pages
BY DEF Paged, WithEntry

LEMMA UpdatedIs ==
  ASSUME NEW i \in Index, NEW pages, NEW m \in Nat, Paged(pages, m), NEW n \in Nat, NEW e \in Entry
  PROVE  Updated(i, pages, n, e) \in Index
BY DEF Updated, Index, Paged, Entry

LEMMA RecordedCopy ==
  ASSUME NEW j, Copy(j), IsIndex(j.index), NEW s \in Session PROVE Copy(Recorded(j, s))
<1> DEFINE k  == IF Full(j.page, s) THEN Latest(j.page) + 1 ELSE Latest(j.page)
           e  == [id |-> s, num |-> Total(j.index) + 1]
           qs == IF k = Latest(j.page) THEN j.page ELSE NewPage(j.page, k)
           ps == WithEntry(qs, k, e)
<1>1. PICK n \in Nat : Paged(j.page, n)
  BY DEF Copy
<1>2. Latest(j.page) = n /\ k \in {n, n + 1} /\ k \in Nat
  BY <1>1, LatestIs
<1>3. e \in Entry /\ j.index \in Index
  BY DEF Copy, IsIndex, Total, Index, Entry
<1>4. Recorded(j, s) = [page |-> ps, index |-> Updated(j.index, ps, k, e)]
  BY DEF Recorded
<1> HIDE DEF k, e
<1>5. PICK m \in Nat : Paged(qs, m)
  <2>1. CASE k = n
    BY <1>1, <1>2, <2>1
  <2>2. CASE k = n + 1
    <3>1. k \in 1 .. n + 1 /\ qs = NewPage(j.page, k)
      BY <1>2, <2>2
    <3> QED
      BY <1>1, <3>1, NewPagePaged
  <2> QED
    BY <1>2, <2>1, <2>2
<1> HIDE DEF qs
<1>6. Paged(ps, m)
  BY <1>3, <1>5, WithEntryPaged
<1> HIDE DEF ps
<1>7. Updated(j.index, ps, k, e) \in Index
  BY <1>2, <1>3, <1>6, UpdatedIs
<1> QED
  BY <1>4, <1>6, <1>7 DEF Copy

\* The pages of a merge.
Joined(pages, more) ==
  [n \in DOMAIN pages \cup DOMAIN more |->
     (IF n \in DOMAIN pages THEN pages[n] ELSE {}) \cup (IF n \in DOMAIN more THEN more[n] ELSE {})]

LEMMA JoinedPaged ==
  ASSUME NEW pages, NEW n \in Nat, Paged(pages, n), NEW more, NEW m \in Nat, Paged(more, m)
  PROVE  /\ \E l \in Nat : Paged(Joined(pages, more), l)
         /\ DOMAIN pages \subseteq DOMAIN Joined(pages, more)
<1>1. DOMAIN pages = 1 .. n /\ DOMAIN more = 1 .. m
      /\ (\A k \in 1 .. n : pages[k] \subseteq Entry) /\ (\A k \in 1 .. m : more[k] \subseteq Entry)
  BY DEF Paged
<1>2. PICK l \in Nat : 1 .. n \cup 1 .. m = 1 .. l
  <2>1. CASE n <= m
    BY <2>1
  <2>2. CASE m < n
    BY <2>2
  <2> QED
    BY <2>1, <2>2
<1>3. Joined(pages, more) \in [1 .. l -> SUBSET Entry]
  BY <1>1, <1>2 DEF Joined
<1> QED
  BY <1>1, <1>2, <1>3 DEF Paged

-----------------------------------------------------------------------------
(* What the steps of add_session and init_developer leave.                 *)

\* A step of the record of w.
LEMMA RecSet ==
  ASSUME RecKinds, NEW w \in Window, NEW c \in Recs, rec' = [rec EXCEPT ![w] = c],
         DOMAIN page \subseteq DOMAIN page', Records(c, page')
  PROVE  RecKinds'
<1>1. rec' \in [Window -> Recs] /\ rec'[w] = c /\ \A v \in Window \ {w} : rec'[v] = rec[v]
  BY DEF RecKinds
<1>2. \A v \in Window \ {w} : Records(rec[v], page)'
  BY <1>1 DEF RecKinds, Records
<1> QED
  BY <1>1, <1>2 DEF RecKinds

LEMMA RecDone ==
  ASSUME RecKinds, NEW w \in Window, Done(w), UNCHANGED page PROVE RecKinds'
<1>1. Records(Idle, page')
  BY IdleTypes DEF Records
<1> QED
  BY <1>1, IdleTypes, RecSet DEF Done

LEMMA GitSet ==
  ASSUME GitKinds, NEW w \in Window, NEW g \in Gits, git' = [git EXCEPT ![w] = g],
         archived' \subseteq Task, g.at \in {"move", "tracked", "rm"} => g.task # NoTask
  PROVE  GitKinds'
<1>1. git' \in [Window -> Gits] /\ git'[w] = g /\ \A v \in Window \ {w} : git'[v] = git[v]
  BY DEF GitKinds
<1> QED
  BY <1>1 DEF GitKinds

LEMMA GitStops ==
  ASSUME GitKinds, NEW w \in Window, Stop(w), archived' \subseteq Task PROVE GitKinds'
BY IdleTypes, GitSet DEF Stop

LEMMA GitThen ==
  ASSUME GitKinds, NEW w \in Window, NEW at \in GitAts, Then(w, at), archived' \subseteq Task,
         at \in {"move", "tracked", "rm"} => git[w].task # NoTask
  PROVE  GitKinds'
<1> DEFINE g == [git[w] EXCEPT !.at = at]
<1>1. g \in Gits /\ g.at = at /\ g.task = git[w].task
  BY DEF GitKinds, Gits
<1>2. git' = [git EXCEPT ![w] = g]
  BY DEF Then
<1> QED
  BY <1>1, <1>2, GitSet

\* What the parts depend on.
LEMMA Same ==
  ASSUME Kinds
  PROVE  /\ UNCHANGED <<developer, page, index, branch>> => JournalKinds'
         /\ UNCHANGED dir => TreeKinds'
         /\ UNCHANGED staged => Tracked(staged)'
         /\ UNCHANGED head => Tracked(head)'
         /\ UNCHANGED <<rec, page>> => RecKinds'
         /\ UNCHANGED <<git, archived>> => GitKinds'
BY DEF Kinds, JournalKinds, Work, TreeKinds, Tracked, RecKinds, Records, GitKinds

\* A step that records leaves git alone.
LEMMA RecordsOnly ==
  ASSUME Kinds, UNCHANGED gvars, developer' \in BOOLEAN, (\E n \in Nat : Paged(page, n))',
         index' \in Index \cup {NoFile, Torn}, RecKinds'
  PROVE  Kinds'
<1>1. UNCHANGED <<dir, staged, head, git, archived, branch>>
  BY DEF gvars
<1>2. JournalKinds'
  BY <1>1, WorkPages DEF Kinds, JournalKinds, Copy, Work
<1> QED
  BY <1>1, <1>2, Same DEF Kinds

\* The record that w has, and the journal.
LEMMA RecIs ==
  ASSUME Kinds, NEW w \in Window
  PROVE  /\ rec[w] \in Recs /\ Records(rec[w], page) /\ RecKinds /\ developer \in BOOLEAN
         /\ \E n \in Nat : Paged(page, n)
         /\ index \in Index \cup {NoFile, Torn}
BY WorkPages DEF Kinds, RecKinds, JournalKinds, Copy

LEMMA InitDeveloperTyped ==
  ASSUME Kinds, UNCHANGED gvars, NEW w \in Window, InitDeveloper(w) PROVE Kinds'
<1> DEFINE c == [rec[w] EXCEPT !.at = "first page"]
<1>1. c \in Recs /\ c.at = "first page"
  BY RecIs DEF Recs, RecAts
<1>2. rec' = [rec EXCEPT ![w] = c] /\ UNCHANGED <<page, index>> /\ developer' = TRUE
  BY DEF InitDeveloper, Goto
<1> HIDE DEF c
<1>3. RecKinds'
  BY <1>1, <1>2, RecIs, RecSet DEF Records
<1> QED
  BY <1>2, <1>3, RecIs, RecordsOnly

LEMMA InitPageTyped ==
  ASSUME Kinds, UNCHANGED gvars, NEW w \in Window, InitPage(w) PROVE Kinds'
<1> DEFINE c == [rec[w] EXCEPT !.at = "first index"]
<1>1. c \in Recs /\ c.at = "first index"
  BY RecIs DEF Recs, RecAts
<1>2. /\ rec' = [rec EXCEPT ![w] = c] /\ UNCHANGED <<developer, index>>
      /\ page' = IF 1 \in DOMAIN page THEN page ELSE NewPage(page, 1)
  BY DEF InitPage, Goto
<1> HIDE DEF c
<1>3. PICK n \in Nat : Paged(page, n)
  BY RecIs
<1>4. (\E m \in Nat : Paged(page', m)) /\ DOMAIN page \subseteq DOMAIN page'
  <2>1. 1 \in 1 .. n + 1
    BY <1>3
  <2> QED
    BY <1>2, <1>3, <2>1, NewPagePaged
<1>5. RecKinds'
  BY <1>1, <1>2, <1>4, RecIs, RecSet DEF Records
<1> QED
  BY <1>2, <1>4, <1>5, RecIs, RecordsOnly

LEMMA InitIndexTyped ==
  ASSUME Kinds, UNCHANGED gvars, NEW w \in Window, InitIndex(w) PROVE Kinds'
<1> DEFINE c == [rec[w] EXCEPT !.at = "first index write"]
<1>1. c \in Recs /\ c.at = "first index write"
  BY RecIs DEF Recs, RecAts
<1>2. /\ index' \in {index, Torn} /\ UNCHANGED <<developer, page>>
      /\ Done(w) \/ rec' = [rec EXCEPT ![w] = c]
  BY DEF InitIndex, Goto
<1> HIDE DEF c
<1>3. CASE Done(w)
  <2>1. RecKinds'
    BY <1>2, <1>3, RecIs, RecDone
  <2> QED
    BY <1>2, <2>1, RecIs, RecordsOnly
<1>4. CASE rec' = [rec EXCEPT ![w] = c]
  <2>1. RecKinds'
    BY <1>1, <1>2, <1>4, RecIs, RecSet DEF Records
  <2> QED
    BY <1>2, <2>1, RecIs, RecordsOnly
<1> QED
  BY <1>2, <1>3, <1>4

LEMMA InitWriteIndexTyped ==
  ASSUME Kinds, UNCHANGED gvars, NEW w \in Window, InitWriteIndex(w) PROVE Kinds'
<1>1. index' = FreshIndex /\ Done(w) /\ UNCHANGED <<developer, page>>
  BY DEF InitWriteIndex
<1>2. FreshIndex \in Index
  BY DEF FreshIndex, Index
<1>3. RecKinds'
  BY <1>1, RecIs, RecDone
<1> QED
  BY <1>1, <1>2, <1>3, RecIs, RecordsOnly

LEMMA AddReadTyped ==
  ASSUME Kinds, UNCHANGED gvars, NEW w \in Window, NEW s \in Session, AddRead(w, s) PROVE Kinds'
<1> DEFINE c == [Idle EXCEPT !.at = "number", !.id = s, !.target = Latest(page), !.full = Full(page, s)]
<1>1. PICK n \in Nat : Paged(page, n)
  BY RecIs
<1>2. Latest(page) = n /\ DOMAIN page = 1 .. n
  BY <1>1, LatestIs DEF Paged
<1>3. n \in DOMAIN page \cup {0}
  BY <1>2
<1>4. Full(page, s) \in BOOLEAN
  BY DEF Full
<1>5. c \in Recs /\ c.id = s /\ c.target = n
  BY <1>2, <1>4 DEF Idle, Recs, RecAts
<1>6. rec' = [rec EXCEPT ![w] = c] /\ UNCHANGED <<developer, page, index>>
  BY DEF AddRead
<1> HIDE DEF c
<1>7. RecKinds'
  BY <1>3, <1>5, <1>6, RecIs, RecSet DEF Records
<1> QED
  BY <1>6, <1>7, RecIs, RecordsOnly

LEMMA AddNumberTyped ==
  ASSUME Kinds, UNCHANGED gvars, NEW w \in Window, AddNumber(w) PROVE Kinds'
<1> DEFINE at  == IF rec[w].full THEN "rotate" ELSE "append"
           num == Total(index) + 1
           c   == [rec[w] EXCEPT !.num = num, !.at = at]
<1>1. rec[w].at = "number" /\ UNCHANGED <<developer, page, index>>
  BY DEF AddNumber, At
<1>2. rec' = [rec EXCEPT ![w] = c]
  BY RecIs DEF AddNumber, RecKinds
<1>3. num \in Nat /\ at \in {"rotate", "append"}
  BY RecIs DEF Total, IsIndex, Index
<1> HIDE DEF num, at
<1>4. c \in Recs /\ c.id = rec[w].id /\ c.target = rec[w].target
  BY <1>3, RecIs DEF Recs, RecAts
<1> HIDE DEF c
<1>5. Records(c, page')
  BY <1>1, <1>4, RecIs DEF Records
<1>6. RecKinds'
  BY <1>1, <1>2, <1>4, <1>5, RecIs, RecSet
<1> QED
  BY <1>1, <1>6, RecIs, RecordsOnly

LEMMA AddRotateTyped ==
  ASSUME Kinds, UNCHANGED gvars, NEW w \in Window, AddRotate(w) PROVE Kinds'
<1> DEFINE k == rec[w].target + 1
           c == [rec[w] EXCEPT !.target = k, !.at = "append"]
<1>1. rec[w].at = "rotate" /\ UNCHANGED <<developer, index>> /\ page' = NewPage(page, k)
  BY DEF AddRotate, At
<1>2. rec' = [rec EXCEPT ![w] = c]
  BY RecIs DEF AddRotate, RecKinds
<1>3. PICK n \in Nat : Paged(page, n)
  BY RecIs
<1>4. k \in 1 .. n + 1 /\ k \in Nat
  <2>1. rec[w].target \in 1 .. n \cup {0}
    BY <1>1, <1>3, RecIs DEF Records, Paged
  <2> QED
    BY <2>1
<1>5. (\E m \in Nat : Paged(page', m)) /\ DOMAIN page \subseteq DOMAIN page' /\ k \in DOMAIN page'
  BY <1>1, <1>3, <1>4, NewPagePaged
<1> HIDE DEF k
<1>6. c \in Recs /\ c.id = rec[w].id /\ c.target = k
  BY <1>4, RecIs DEF Recs, RecAts
<1> HIDE DEF c
<1>7. Records(c, page')
  BY <1>1, <1>5, <1>6, RecIs DEF Records
<1>8. RecKinds'
  BY <1>2, <1>5, <1>6, <1>7, RecIs, RecSet
<1> QED
  BY <1>1, <1>5, <1>8, RecIs, RecordsOnly

LEMMA AddAppendTyped ==
  ASSUME Kinds, UNCHANGED gvars, NEW w \in Window, AddAppend(w) PROVE Kinds'
<1> DEFINE c == [rec[w] EXCEPT !.at = "table"]
           e == [id |-> rec[w].id, num |-> rec[w].num]
<1>1. /\ rec[w].at = "append" /\ UNCHANGED <<developer, index>> /\ rec' = [rec EXCEPT ![w] = c]
      /\ page' = IF rec[w].target = 0 THEN page ELSE WithEntry(page, rec[w].target, e)
  BY DEF AddAppend, At, Goto
<1>2. e \in Entry
  BY <1>1, RecIs DEF Records, Recs, Entry
<1>3. c \in Recs /\ c.id = rec[w].id /\ c.target = rec[w].target
  BY RecIs DEF Recs, RecAts
<1> HIDE DEF c, e
<1>4. (\E n \in Nat : Paged(page', n)) /\ DOMAIN page' = DOMAIN page
  BY <1>1, <1>2, RecIs, WithEntryPaged
<1>5. Records(c, page')
  BY <1>1, <1>3, <1>4, RecIs DEF Records
<1>6. RecKinds'
  BY <1>1, <1>3, <1>4, <1>5, RecIs, RecSet
<1> QED
  BY <1>1, <1>4, <1>6, RecIs, RecordsOnly

LEMMA AddReadIndexTyped ==
  ASSUME Kinds, UNCHANGED gvars, NEW w \in Window, AddReadIndex(w) PROVE Kinds'
<1> DEFINE e == [id |-> rec[w].id, num |-> rec[w].num]
           i == Updated(index, page, rec[w].target, e)
           c == [rec[w] EXCEPT !.at = "truncate", !.text = i]
<1>1. rec[w].at = "table" /\ UNCHANGED <<developer, page, index>>
  BY DEF AddReadIndex, At
<1>2. CASE ~IsIndex(index)
  <2>1. RecKinds'
    BY <1>1, <1>2, RecIs, RecDone DEF AddReadIndex
  <2> QED
    BY <1>1, <2>1, RecIs, RecordsOnly
<1>3. CASE IsIndex(index)
  <2>1. rec' = [rec EXCEPT ![w] = c]
    BY <1>3, RecIs DEF AddReadIndex, RecKinds
  <2>2. index \in Index /\ e \in Entry /\ rec[w].target \in Nat
    BY <1>1, <1>3, RecIs DEF IsIndex, Records, Recs, Entry
  <2> HIDE DEF e
  <2>3. i \in Index
    BY <2>2, RecIs, UpdatedIs
  <2> HIDE DEF i
  <2>4. c \in Recs /\ c.at = "truncate"
    BY <2>3, RecIs DEF Recs, RecAts
  <2> HIDE DEF c
  <2>5. RecKinds'
    BY <1>1, <2>1, <2>4, RecIs, RecSet DEF Records
  <2> QED
    BY <1>1, <2>5, RecIs, RecordsOnly
<1> QED
  BY <1>2, <1>3

LEMMA AddWriteTyped ==
  ASSUME Kinds, UNCHANGED gvars, NEW w \in Window, AddTruncate(w) \/ AddWriteIndex(w) PROVE Kinds'
<1> DEFINE c == [rec[w] EXCEPT !.at = IF rec[w].at = "truncate" THEN "index" ELSE "commit"]
<1>1. /\ UNCHANGED <<developer, page>> /\ rec' = [rec EXCEPT ![w] = c]
      /\ index' \in {Torn, rec[w].text}
  BY DEF AddTruncate, AddWriteIndex, At, Goto
<1>2. c \in Recs /\ c.at \in {"index", "commit"} /\ rec[w].text \in Index \cup {NoFile, Torn}
  BY RecIs DEF Recs, RecAts
<1> HIDE DEF c
<1>3. RecKinds'
  BY <1>1, <1>2, RecIs, RecSet DEF Records
<1> QED
  BY <1>1, <1>2, <1>3, RecIs, RecordsOnly

LEMMA DoneTyped ==
  ASSUME Kinds, UNCHANGED gvars, NEW w \in Window, AddEnd(w) \/ Killed(w) PROVE Kinds'
<1>1. Done(w) /\ UNCHANGED <<developer, page, index>>
  BY DEF AddEnd, Killed
<1>2. RecKinds'
  BY <1>1, RecIs, RecDone
<1> QED
  BY <1>1, <1>2, RecIs, RecordsOnly

-----------------------------------------------------------------------------
(* What the steps of git, of the archive and of the work outside leave.    *)

LEMMA AddTyped ==
  ASSUME Kinds, NEW paths, staged' = Add(paths) PROVE Tracked(staged)'
<1>1. DOMAIN staged' = Path /\ \A p \in Path : staged'[p] \in {Work(p), staged[p]}
  BY DEF Add
<1>2. Copy(staged'[Pages])
  BY <1>1, Paths DEF Kinds, JournalKinds, Tracked
<1>3. \A p \in Dirs : staged'[p] \in 0 .. MaxVersion
  BY <1>1, Paths DEF Kinds, TreeKinds, Tracked, Work
<1> QED
  BY <1>1, <1>2, <1>3 DEF Tracked

LEMMA AddFailsTyped ==
  ASSUME Kinds, NEW paths, AddFails(paths) PROVE Tracked(staged)'
<1>1. CASE UNCHANGED staged
  BY <1>1, Same
<1>2. CASE \E some \in SUBSET paths : some # paths /\ staged' = Add(some)
  BY <1>2, AddTyped
<1> QED
  BY <1>1, <1>2 DEF AddFails

LEMMA BumpTyped ==
  ASSUME Kinds, NEW ps, \A p \in ps : dir[p] \in 1 .. MaxVersion - 1, dir' = Bumped(ps)
  PROVE  TreeKinds'
<1>1. /\ \A p \in Dirs : dir'[p] = IF p \in ps THEN dir[p] + 1 ELSE dir[p]
      /\ DOMAIN dir' = Dirs /\ dir' = [p \in Dirs |-> dir'[p]]
      /\ \A p \in Dirs : dir[p] \in 0 .. MaxVersion
  BY DEF Bumped, Kinds, TreeKinds
<1>2. \A p \in Dirs : dir'[p] \in 0 .. MaxVersion /\ (dir[p] = Absent => dir'[p] = Absent)
  BY <1>1, AutoCommitAssumption, Empty
<1> QED
  BY <1>1, <1>2, Paths DEF Kinds, TreeKinds

LEMMA MoveTyped ==
  ASSUME Kinds, NEW t \in Task, dir' = [dir EXCEPT ![Live(t)] = Absent, ![Past(t)] = dir[Live(t)]]
  PROVE  TreeKinds'
<1>1. /\ dir \in [Dirs -> 0 .. MaxVersion] /\ Absent \in 0 .. MaxVersion
  BY AutoCommitAssumption, Empty DEF Kinds, TreeKinds
<1>2. /\ dir' \in [Dirs -> 0 .. MaxVersion] /\ dir'[Live(t)] = Absent
      /\ \A p \in Dirs \ {Live(t), Past(t)} : dir'[p] = dir[p]
  BY <1>1, Paths
<1>3. \A u \in Task : dir'[Live(u)] = Absent \/ dir'[Past(u)] = Absent
  BY <1>2, Paths DEF Kinds, TreeKinds
<1> QED
  BY <1>2, <1>3 DEF TreeKinds

LEMMA RemovedTyped ==
  ASSUME Kinds, NEW t \in Task, staged' = [staged EXCEPT ![Live(t)] = Absent] PROVE Tracked(staged)'
<1>1. Absent \in 0 .. MaxVersion
  BY AutoCommitAssumption, Empty
<1> QED
  BY <1>1, Paths DEF Kinds, Tracked

\* A step that leaves the journal alone.
LEMMA GitOnly ==
  ASSUME Kinds, UNCHANGED <<developer, page, index, branch>>,
         TreeKinds', Tracked(staged)', head' \in {head, staged}, GitKinds',
         UNCHANGED rec \/ \E w \in Window : Done(w)
  PROVE  Kinds'
<1>1. JournalKinds'
  BY Same
<1>2. RecKinds'
  BY Same, RecDone DEF Kinds
<1>3. Tracked(head')
  BY DEF Kinds
<1> QED
  BY <1>1, <1>2, <1>3 DEF Kinds

\* The part of the command of w that concerns git.
LEMMA GitIs ==
  ASSUME Kinds, NEW w \in Window
  PROVE  /\ git[w] \in Gits /\ GitKinds /\ archived \subseteq Task
         /\ git[w].task \in Task \cup {NoTask} /\ git[w].paths \subseteq Path
         /\ git[w].at \in {"move", "tracked", "rm"} => git[w].task \in Task
BY DEF Kinds, GitKinds, Gits

LEMMA SessionPathsTyped ==
  ASSUME Kinds, NEW w \in Window, SessionPaths(w) PROVE Kinds'
<1>1. git[w] = Ready /\ UNCHANGED <<developer, page, index, rec, dir, staged, head, archived, branch>>
  BY SMTT(40) DEF SessionPaths, jvars
<1>2. PICK current \in Task \cup {NoTask} :
        git' = [git EXCEPT ![w] = [Ready EXCEPT !.at = "add", !.paths =
                 {Pages} \cup {Live(t) : t \in {x \in {current} \ {NoTask} : dir[Live(x)] # Absent}}]]
  BY DEF SessionPaths
<1> DEFINE ps == {Pages} \cup {Live(t) : t \in {x \in {current} \ {NoTask} : dir[Live(x)] # Absent}}
           g  == [Ready EXCEPT !.at = "add", !.paths = ps]
<1>3. ps \subseteq Path
  BY Paths
<1> HIDE DEF ps
<1>4. g \in Gits /\ g.at = "add"
  BY <1>3 DEF Ready, Gits, GitAts
<1>5. git' = [git EXCEPT ![w] = g]
  BY <1>2 DEF ps
<1> HIDE DEF g
<1>6. GitKinds'
  BY <1>1, <1>4, <1>5, GitIs, GitSet
<1> QED
  BY <1>1, <1>6, Same, GitOnly

LEMMA SessionAddTyped ==
  ASSUME Kinds, NEW w \in Window, SessionAdd(w) PROVE Kinds'
<1>1. UNCHANGED <<developer, page, index, dir, head, archived, branch>>
  BY DEF SessionAdd
<1>2. Tracked(staged)'
  BY AddTyped, AddFailsTyped DEF SessionAdd
<1>3. GitKinds'
  BY <1>1, GitIs, GitThen, GitStops DEF SessionAdd, GitAts
<1> QED
  BY <1>1, <1>2, <1>3, Same, GitOnly DEF SessionAdd

LEMMA SessionCommitTyped ==
  ASSUME Kinds, NEW w \in Window, SessionCommit(w) PROVE Kinds'
<1>1. /\ UNCHANGED <<developer, page, index, dir, staged, archived, branch>>
      /\ head' \in {head, staged} /\ Stop(w) /\ Done(w)
  BY DEF SessionCommit
<1>2. GitKinds'
  BY <1>1, GitIs, GitStops
<1> QED
  BY <1>1, <1>2, Same, GitOnly

LEMMA ArchiveEditTyped ==
  ASSUME Kinds, NEW w \in Window, NEW t \in Task, ArchiveEdit(w, t)
  PROVE  Kinds'
<1> DEFINE ps == {Live(t)}
           g  == [at |-> "move", task |-> t, tracked |-> FALSE, paths |-> {}]
<1>1. /\ dir[Live(t)] \in 1 .. MaxVersion - 1
      /\ dir' = Bumped(ps) /\ git' = [git EXCEPT ![w] = g]
      /\ UNCHANGED <<developer, page, index, rec, staged, head, archived, branch>>
  BY DEF ArchiveEdit, jvars
<1>2. TreeKinds'
  <2>1. \A p \in ps : dir[p] \in 1 .. MaxVersion - 1
    BY <1>1
  <2> QED
    BY <1>1, <2>1, BumpTyped
<1>3. g \in Gits /\ g.task # NoTask
  BY Paths, AutoCommitAssumption DEF Gits, GitAts
<1> HIDE DEF g
<1>4. GitKinds'
  BY <1>1, <1>3, GitIs, GitSet
<1> QED
  BY <1>1, <1>2, <1>4, Same, GitOnly

LEMMA ArchiveChildTyped ==
  ASSUME Kinds, NEW w \in Window, ArchiveChild(w)
  PROVE  Kinds'
<1>1. PICK k \in Task :
        /\ dir[Live(k)] \in 1 .. MaxVersion - 1
        /\ dir' = Bumped({Live(k)})
        /\ git' = [git EXCEPT ![w].paths = @ \cup {Live(k)}]
  BY DEF ArchiveChild
<1> DEFINE ps == {Live(k)}
           g  == [git[w] EXCEPT !.paths = @ \cup {Live(k)}]
<1>2. /\ git[w].at = "move" /\ dir' = Bumped(ps) /\ git' = [git EXCEPT ![w] = g]
      /\ UNCHANGED <<developer, page, index, rec, staged, head, archived, branch>>
  BY <1>1, GitIs DEF ArchiveChild, Step, GitKinds, jvars
<1>3. TreeKinds'
  <2>1. \A p \in ps : dir[p] \in 1 .. MaxVersion - 1
    BY <1>1
  <2> QED
    BY <1>2, <2>1, BumpTyped
<1>4. git[w].task \in Task /\ git[w].task # NoTask
  BY <1>2, GitIs, AutoCommitAssumption
<1>5. g \in Gits /\ g.at = "move" /\ g.task = git[w].task
  BY <1>2, GitIs, Paths DEF Gits, GitAts
<1> HIDE DEF g
<1>6. GitKinds'
  BY <1>2, <1>4, <1>5, GitIs, GitSet
<1> QED
  BY <1>2, <1>3, <1>6, Same, GitOnly

LEMMA ArchiveMoveTyped ==
  ASSUME Kinds, NEW w \in Window, ArchiveMove(w) PROVE Kinds'
<1>1. /\ git[w].task \in Task /\ git[w].task # NoTask
      /\ UNCHANGED <<developer, page, index, rec, staged, head, archived, branch>>
  BY GitIs, AutoCommitAssumption DEF ArchiveMove, Step, jvars
<1>2. TreeKinds'
  BY <1>1, MoveTyped, Same DEF ArchiveMove
<1>3. GitKinds'
  BY <1>1, GitIs, GitThen, GitStops DEF ArchiveMove, GitAts
<1> QED
  BY <1>1, <1>2, <1>3, Same, GitOnly

LEMMA ArchiveTrackedTyped ==
  ASSUME Kinds, NEW w \in Window, ArchiveTracked(w) PROVE Kinds'
<1> DEFINE t  == git[w].task
           ps == git[w].paths \cup {Past(x) : x \in {y \in Task : dir[Past(y)] # Absent}}
           g  == [git[w] EXCEPT !.at = "add", !.tracked = staged[Live(t)] # Absent, !.paths = ps]
<1>1. /\ git' = [git EXCEPT ![w] = g]
      /\ UNCHANGED <<developer, page, index, rec, dir, staged, head, archived, branch>>
  BY GitIs DEF ArchiveTracked, GitKinds, jvars
<1>2. ps \subseteq Path
  BY GitIs, Paths
<1> HIDE DEF ps
<1>3. g \in Gits /\ g.at = "add"
  BY <1>2, GitIs DEF Gits, GitAts
<1> HIDE DEF g
<1>4. GitKinds'
  BY <1>1, <1>3, GitIs, GitSet
<1> QED
  BY <1>1, <1>4, Same, GitOnly

LEMMA ReportsTyped ==
  ASSUME Kinds, NEW w \in Window, git[w].task # NoTask, NEW b, Reports(w, b) PROVE archived' \subseteq Task
BY GitIs DEF Reports

LEMMA ArchiveAddTyped ==
  ASSUME Kinds, NEW w \in Window, ArchiveAdd(w) PROVE Kinds'
<1>1. git[w].task # NoTask /\ UNCHANGED <<developer, page, index, rec, dir, head, branch>>
  BY DEF ArchiveAdd, jvars
<1>2. Tracked(staged)'
  BY AddTyped, AddFailsTyped DEF ArchiveAdd
<1>3. GitKinds'
  <2>1. CASE Then(w, "rm") /\ UNCHANGED archived
    BY <1>1, <2>1, GitIs, GitThen DEF GitAts
  <2>2. CASE Reports(w, ~git[w].tracked) /\ Stop(w)
    BY <1>1, <2>2, GitIs, ReportsTyped, GitStops
  <2> QED
    BY <2>1, <2>2 DEF ArchiveAdd
<1> QED
  BY <1>1, <1>2, <1>3, Same, GitOnly

LEMMA ArchiveRemoveTyped ==
  ASSUME Kinds, NEW w \in Window, ArchiveRemove(w) PROVE Kinds'
<1>1. /\ git[w].task \in Task /\ Then(w, "commit")
      /\ UNCHANGED <<developer, page, index, rec, dir, head, archived, branch>>
  BY GitIs DEF ArchiveRemove, Step, jvars
<1>2. Tracked(staged)'
  BY <1>1, RemovedTyped, Same DEF ArchiveRemove
<1>3. GitKinds'
  BY <1>1, GitIs, GitThen DEF GitAts
<1> QED
  BY <1>1, <1>2, <1>3, Same, GitOnly

LEMMA ArchiveCommitTyped ==
  ASSUME Kinds, NEW w \in Window, ArchiveCommit(w) PROVE Kinds'
<1>1. /\ git[w].task # NoTask /\ Stop(w) /\ head' \in {head, staged}
      /\ UNCHANGED <<developer, page, index, rec, dir, staged, branch>>
  BY DEF ArchiveCommit, jvars
<1>2. archived' \subseteq Task
  <2>1. Reports(w, TRUE) \/ Reports(w, ~git[w].tracked)
    BY DEF ArchiveCommit
  <2> QED
    BY <1>1, <2>1, ReportsTyped
<1>3. GitKinds'
  BY <1>1, <1>2, GitIs, GitStops
<1> QED
  BY <1>1, <1>3, Same, GitOnly

LEMMA GitKilledTyped ==
  ASSUME Kinds, NEW w \in Window, GitKilled(w) PROVE Kinds'
<1>1. Stop(w) /\ Done(w) /\ UNCHANGED <<developer, page, index, dir, staged, head, archived, branch>>
  BY DEF GitKilled
<1>2. GitKinds'
  BY <1>1, GitIs, GitStops
<1> QED
  BY <1>1, <1>2, Same, GitOnly

LEMMA EditTaskTyped ==
  ASSUME Kinds, NEW t \in Task, EditTask(t) PROVE Kinds'
<1>1. /\ dir[Live(t)] \in 1 .. MaxVersion - 1 /\ dir' = Bumped({Live(t)})
      /\ UNCHANGED <<developer, page, index, rec, staged, head, git, archived, branch>>
  BY DEF EditTask, jvars
<1>2. TreeKinds'
  BY <1>1, BumpTyped
<1> QED
  BY <1>1, <1>2, Same, GitOnly

LEMMA ForkTyped ==
  ASSUME Kinds, NEW s \in Session, Fork(s) PROVE Kinds'
<1>1. /\ IsIndex(head[Pages].index) /\ branch' = Recorded(head[Pages], s)
      /\ UNCHANGED <<developer, page, index, rec, dir, staged, head, git, archived>>
  BY DEF Fork, jvars
<1>2. Copy(branch')
  BY <1>1, RecordedCopy DEF Kinds, Tracked
<1>3. JournalKinds'
  BY <1>1, <1>2 DEF Kinds, JournalKinds, Work
<1> QED
  BY <1>1, <1>3, Same DEF Kinds

LEMMA MergeTyped ==
  ASSUME Kinds, Merge PROVE Kinds'
<1>1. /\ branch # NoFile
      /\ page' = Joined(page, branch.page)
      /\ index' \in {index, branch.index}
      /\ head' = [head EXCEPT ![Pages] = [page |-> page', index |-> index']]
      /\ staged' = head' /\ branch' = NoFile
      /\ UNCHANGED <<developer, rec, dir, git, archived>>
  BY DEF Merge, Joined
<1>2. /\ \E n \in Nat : Paged(page, n)
      /\ \E n \in Nat : Paged(branch.page, n)
      /\ {index, branch.index} \subseteq Index \cup {NoFile, Torn}
  BY <1>1, WorkPages DEF Kinds, JournalKinds, Copy
<1>3. (\E n \in Nat : Paged(page', n)) /\ DOMAIN page \subseteq DOMAIN page'
  <2>1. PICK n \in Nat : Paged(page, n)
    BY <1>2
  <2>2. PICK m \in Nat : Paged(branch.page, m)
    BY <1>2
  <2> QED
    BY <1>1, <2>1, <2>2, JoinedPaged
<1>4. Copy([page |-> page', index |-> index'])
  BY <1>1, <1>2, <1>3 DEF Copy
<1>5. JournalKinds'
  BY <1>1, <1>4 DEF Kinds, JournalKinds, Work
<1>6. Tracked(head') /\ Tracked(staged')
  <2>1. DOMAIN head = Path /\ \A p \in Dirs : head[p] \in 0 .. MaxVersion
    BY DEF Kinds, Tracked
  <2>2. DOMAIN head' = Path /\ head'[Pages] = [page |-> page', index |-> index']
        /\ \A p \in Dirs : head'[p] = head[p]
    BY <1>1, <2>1, Paths
  <2> QED
    BY <1>1, <1>4, <2>1, <2>2 DEF Tracked
<1>7. RecKinds'
  BY <1>1, <1>3 DEF Kinds, RecKinds, Records
<1> QED
  BY <1>1, <1>5, <1>6, <1>7, Same DEF Kinds

-----------------------------------------------------------------------------
(* Every step.                                                             *)

LEMMA NextTyped == Kinds /\ [Next]_vars => Kinds'
<1> SUFFICES ASSUME Kinds, [Next]_vars PROVE Kinds'
  OBVIOUS
<1>1. ASSUME NEW w \in Window, Begins(w) PROVE Kinds'
  BY <1>1, InitDeveloperTyped, AddReadTyped, ArchiveEditTyped DEF Begins
<1>2. ASSUME NEW w \in Window, RecordSteps(w), UNCHANGED gvars PROVE Kinds'
  BY <1>2, InitPageTyped, InitIndexTyped, InitWriteIndexTyped, AddNumberTyped, AddRotateTyped, AddAppendTyped,
     AddReadIndexTyped, AddWriteTyped, DoneTyped DEF RecordSteps
<1>3. ASSUME NEW w \in Window, Goes(w) PROVE Kinds'
  BY <1>2, <1>3, SessionPathsTyped, SessionAddTyped, SessionCommitTyped, ArchiveChildTyped,
     ArchiveMoveTyped, ArchiveTrackedTyped, ArchiveAddTyped, ArchiveRemoveTyped, ArchiveCommitTyped DEF Goes
<1>4. ASSUME NEW w \in Window, Dies(w) PROVE Kinds'
  BY <1>4, DoneTyped, GitKilledTyped DEF Dies
<1>5. ASSUME Outside PROVE Kinds'
  BY <1>5, MergeTyped, EditTaskTyped, ForkTyped DEF Outside
<1>6. CASE UNCHANGED vars
  <2>1. UNCHANGED <<developer, page, index, rec, dir, staged, head, git, archived, branch>>
    BY <1>6 DEF vars, jvars, gvars
  <2> QED
    BY <2>1, Same DEF Kinds
<1> QED
  BY <1>1, <1>3, <1>4, <1>5, <1>6 DEF Next

LEMMA InitTyped == Init /\ GitInit => Kinds
<1> SUFFICES ASSUME Init, GitInit PROVE Kinds
  OBVIOUS
<1>1. /\ developer = FALSE /\ page = [n \in {} |-> {}] /\ index = NoFile /\ branch = NoFile
      /\ rec = [w \in Window |-> Idle] /\ git = [w \in Window |-> Ready]
      /\ archived = {} /\ head = staged
  BY DEF Init, GitInit
<1>2. PICK tracked \in SUBSET Task :
        /\ dir = [p \in Dirs |-> IF p[1] = "task" THEN 1 ELSE Absent]
        /\ staged = [p \in Path |-> IF p[1] = "task" /\ p[2] \in tracked THEN 1 ELSE Missing(p)]
  BY DEF GitInit
<1>3. Copy(NoJournal)
  <2>1. Paged([n \in {} |-> {}], 0)
    BY DEF Paged
  <2> QED
    BY <2>1 DEF Copy, NoJournal
<1>4. JournalKinds
  BY <1>1, <1>3 DEF JournalKinds, Work, NoJournal
<1>5. Absent \in 0 .. MaxVersion /\ 1 \in 0 .. MaxVersion
  BY AutoCommitAssumption, Empty
<1>6. TreeKinds
  <2>1. dir \in [Dirs -> 0 .. MaxVersion]
    BY <1>2, <1>5
  <2>2. \A t \in Task : dir[Past(t)] = Absent
    BY <1>2, Paths DEF Past
  <2> QED
    BY <2>1, <2>2 DEF TreeKinds
<1>7. Tracked(staged)
  <2>1. DOMAIN staged = Path /\ staged[Pages] = NoJournal
    BY <1>2, Paths DEF Missing, Pages
  <2>2. \A p \in Dirs : staged[p] \in 0 .. MaxVersion
    BY <1>2, <1>5, Paths DEF Missing
  <2> QED
    BY <1>3, <2>1, <2>2 DEF Tracked
<1>8. RecKinds /\ GitKinds
  BY <1>1, IdleTypes DEF RecKinds, Records, GitKinds
<1> QED
  BY <1>1, <1>4, <1>6, <1>7, <1>8 DEF Kinds

LEMMA KindsTypes == Kinds => TypeOK
<1> SUFFICES ASSUME Kinds PROVE TypeOK
  OBVIOUS
<1>1. PICK n \in Nat : Paged(page, n)
  BY WorkPages DEF Kinds, JournalKinds, Copy
<1>2. \A k \in DOMAIN page : k \in Nat \ {0} /\ page[k] \subseteq [id : Session, num : Nat]
  BY <1>1 DEF Paged, Entry
<1>3. index \in Index \cup {NoFile, Torn}
  BY WorkPages DEF Kinds, JournalKinds, Copy
<1>4. IsIndex(index) => index.rows \subseteq [id : Session, num : Nat] /\ index.active \in Nat
  BY <1>3 DEF IsIndex, Index, Entry
<1>5. \A w \in Window : git[w].paths \subseteq Path /\ git[w].task \in Task \cup {NoTask}
  BY GitIs
<1> QED
  BY <1>2, <1>4, <1>5 DEF Kinds, JournalKinds, TreeKinds, Tracked, GitKinds, TypeOK

\* Types of all variables, a history without gaps and pages within the limit, for
\* any number of commands, kills and windows.
THEOREM HistorySound == MCSpec => []HistoryOK
<1>1. MCInit => Kinds
  BY InitTyped DEF MCInit
<1>2. Kinds /\ [MCNext]_mcvars => Kinds'
  <2>1. MCNext => Next
    BY DEF MCNext, Next, Outside
  <2>2. UNCHANGED mcvars => UNCHANGED vars
    BY DEF mcvars
  <2> QED
    BY <2>1, <2>2, NextTyped
<1>3. MCSpec => []Kinds
  BY <1>1, <1>2, PTL DEF MCSpec
<1>4. Kinds /\ HistoryNumbered /\ PagesBounded => HistoryOK
  BY KindsTypes DEF HistoryOK
<1> QED
  BY <1>3, <1>4, HistoryGapless, PagesWithinLimit, PTL
=============================================================================
