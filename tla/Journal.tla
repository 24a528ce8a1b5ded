------------------------------ MODULE Journal ------------------------------
(***************************************************************************)
(* The developer's journal (add_session.py, common/developer.py): numbered *)
(* pages journal-N.md to which sessions are appended, and index.md, which  *)
(* is rewritten in place after every session.                              *)
(*                                                                         *)
(* A command reads the newest page, then the index, starts a new page when *)
(* the session does not fit, appends, and rewrites the index.  Nothing is  *)
(* locked, and a command may be killed between any two steps: index.md is  *)
(* then empty for good, or a page holds a session the index does not list. *)
(* The commit that follows is the subject of module AutoCommit.            *)
(***************************************************************************)
EXTENDS FiniteSetsExt, Integers

CONSTANTS
  Window,        \* processes that run the commands
  Session,       \* sessions to record, each by one command
  Size,          \* Size[s]: lines of the entry of s
  Header,        \* lines at the top of a page
  MaxLines,      \* max_journal_lines
  NoSession,
  NoFile,        \* no index.md
  Torn           \* index.md truncated and not yet, or never, written

ASSUME JournalAssumption ==
  /\ Size \in [Session -> Nat \ {0}]
  /\ Header \in Nat /\ MaxLines \in Nat
  /\ NoSession \notin Session

VARIABLES
  developer,     \* whether .trellis/.developer exists
  page,          \* page[n]: entries of journal-n.md, for the pages there are
  index,         \* index.md: NoFile, Torn or an Index
  rec            \* rec[w]: the command of w

jvars == <<developer, page, index, rec>>

\* An entry is [id: Session, num: Nat].  The three generated parts of index.md:
\* status, page table and history.
FreshIndex == [total |-> 0, active |-> 1, docs |-> {1}, rows |-> {}]
IsIndex(i) == i \notin {NoFile, Torn}

Idle == [at |-> "end", id |-> NoSession, num |-> 0, target |-> 0,
         full |-> FALSE, text |-> Torn]

Init ==
  /\ developer = FALSE
  /\ page = [n \in {} |-> {}]
  /\ index = NoFile
  /\ rec = [w \in Window |-> Idle]

-----------------------------------------------------------------------------
(* What a command computes from the files it reads.                        *)

Lines(pages, n) == Header + MapThenSumSet(LAMBDA e : Size[e.id], pages[n])

\* Mutant: the lowest page number.
FirstPage(pages) == IF DOMAIN pages = {} THEN 0 ELSE Min(DOMAIN pages)

\* get_latest_journal_info: the highest page number, 0 when there is no page.
Latest(pages) == IF DOMAIN pages = {} THEN 0 ELSE Max(DOMAIN pages)

\* Mutant: the new session is not counted in.
FullBefore(pages, s) == Latest(pages) # 0 /\ Lines(pages, Latest(pages)) > MaxLines

Full(pages, s) ==
  (IF Latest(pages) = 0 THEN 0 ELSE Lines(pages, Latest(pages))) + Size[s] > MaxLines

\* get_current_session: an index without the line counts as no session.
Total(i) == IF IsIndex(i) THEN i.total ELSE 0

\* write_text of a new page, which empties one that is there, and append.  A
\* page truncated and not yet written differs in its header lines only, and a
\* session recorded twice under one number is one entry.
NewPage(pages, n) == [k \in DOMAIN pages \cup {n} |-> IF k = n THEN {} ELSE pages[k]]
WithEntry(pages, n, e) == [pages EXCEPT ![n] = @ \cup {e}]

\* update_index: new status and page table, one row more.
Updated(i, pages, n, e) ==
  [total |-> e.num, active |-> n, docs |-> DOMAIN pages, rows |-> i.rows \cup {e}]

-----------------------------------------------------------------------------
(* init_developer: the .developer file first, so that a second try after a *)
(* kill refuses to run; then the first page and the index, when missing.   *)

At(w, step)   == rec[w].at = step
Goto(w, step) == rec' = [rec EXCEPT ![w].at = step]
Done(w)       == rec' = [rec EXCEPT ![w] = Idle]

InitDeveloper(w) ==
  /\ rec[w] = Idle /\ ~developer
  /\ developer' = TRUE
  /\ Goto(w, "first page")
  /\ UNCHANGED <<page, index>>

InitPage(w) ==
  /\ At(w, "first page")
  /\ page' = IF 1 \in DOMAIN page THEN page ELSE NewPage(page, 1)
  /\ Goto(w, "first index")
  /\ UNCHANGED <<developer, index>>

InitIndex(w) ==
  /\ At(w, "first index")
  /\ IF index = NoFile THEN index' = Torn /\ Goto(w, "first index write")
                       ELSE UNCHANGED index /\ Done(w)
  /\ UNCHANGED <<developer, page>>

InitWriteIndex(w) ==
  /\ At(w, "first index write")
  /\ index' = FreshIndex
  /\ Done(w)
  /\ UNCHANGED <<developer, page>>

-----------------------------------------------------------------------------
(* add_session.                                                            *)

AddRead(w, s) ==
  /\ rec[w] = Idle /\ developer
  /\ rec' = [rec EXCEPT ![w] = [Idle EXCEPT !.at = "number", !.id = s,
                                  !.target = Latest(page), !.full = Full(page, s)]]
  /\ UNCHANGED <<developer, page, index>>

\* Mutant: the number follows the sessions on the pages, not the index.
AddNumberByPages(w) ==
  /\ At(w, "number")
  /\ rec' = [rec EXCEPT ![w].num = Cardinality(UNION {page[n] : n \in DOMAIN page}) + 1,
                        ![w].at = IF rec[w].full THEN "rotate" ELSE "append"]
  /\ UNCHANGED <<developer, page, index>>

AddNumber(w) ==
  /\ At(w, "number")
  /\ rec' = [rec EXCEPT ![w].num = Total(index) + 1,
                        ![w].at = IF rec[w].full THEN "rotate" ELSE "append"]
  /\ UNCHANGED <<developer, page, index>>

\* Mutant: the new page takes the number of the full one.
AddRotateInPlace(w) ==
  /\ At(w, "rotate")
  /\ page' = NewPage(page, Max({rec[w].target, 1}))
  /\ rec' = [rec EXCEPT ![w].target = Max({@, 1}), ![w].at = "append"]
  /\ UNCHANGED <<developer, index>>

AddRotate(w) ==
  LET n == rec[w].target + 1 IN
  /\ At(w, "rotate")
  /\ page' = NewPage(page, n)
  /\ rec' = [rec EXCEPT ![w].target = n, ![w].at = "append"]
  /\ UNCHANGED <<developer, index>>

\* Without a page, and with a session that fits, nothing is appended.
AddAppend(w) ==
  LET c == rec[w] IN
  /\ At(w, "append")
  /\ page' = IF c.target = 0 THEN page
             ELSE WithEntry(page, c.target, [id |-> c.id, num |-> c.num])
  /\ Goto(w, "table")
  /\ UNCHANGED <<developer, index>>

\* update_index gives up without markers, and fails without the file.
AddReadIndex(w) ==
  LET c == rec[w] IN
  /\ At(w, "table")
  /\ IF IsIndex(index)
     THEN rec' = [rec EXCEPT ![w].at = "truncate",
                    ![w].text = Updated(index, page, c.target, [id |-> c.id, num |-> c.num])]
     ELSE Done(w)
  /\ UNCHANGED <<developer, page, index>>

AddTruncate(w) ==
  /\ At(w, "truncate")
  /\ index' = Torn
  /\ Goto(w, "index")
  /\ UNCHANGED <<developer, page>>

AddWriteIndex(w) ==
  /\ At(w, "index")
  /\ index' = rec[w].text
  /\ Goto(w, "commit")
  /\ UNCHANGED <<developer, page>>

\* With --no-commit the command ends here.
AddEnd(w) ==
  /\ At(w, "commit")
  /\ Done(w)
  /\ UNCHANGED <<developer, page, index>>

Killed(w) ==
  /\ rec[w] # Idle
  /\ Done(w)
  /\ UNCHANGED <<developer, page, index>>

-----------------------------------------------------------------------------
RecordSteps(w) ==
  \/ InitPage(w) \/ InitIndex(w) \/ InitWriteIndex(w)
  \/ AddNumber(w) \/ AddRotate(w) \/ AddAppend(w)
  \/ AddReadIndex(w) \/ AddTruncate(w) \/ AddWriteIndex(w) \/ AddEnd(w)

-----------------------------------------------------------------------------
(* Properties of a journal, whatever copy of it they are asked of.         *)

Entries(pages) == UNION {pages[n] : n \in DOMAIN pages}

\* Every session the index lists is written on some page.
Backed(pages, i) == IsIndex(i) => i.rows \subseteq Entries(pages)

\* The history numbers the sessions from 1 without gaps or doubles.
Numbered(i) ==
  IsIndex(i) => /\ {e.num : e \in i.rows} = 1 .. i.total
                /\ Cardinality(i.rows) = i.total

\* A page outgrows the limit only with a single entry on it.
Bounded(pages) ==
  \A n \in DOMAIN pages : Cardinality(pages[n]) > 1 => Lines(pages, n) <= MaxLines
=============================================================================
