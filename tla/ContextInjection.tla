-------------------------- MODULE ContextInjection --------------------------
(***************************************************************************)
(* What a sub-agent is given to read (inject-subagent-context.py), from    *)
(* the manifest that task.py add-context extends and task.py validate      *)
(* checks (common/task_context.py).                                        *)
(*                                                                         *)
(* The hook reads the manifest once, then every file it names, and then    *)
(* the artifacts of the task.  A file is cut at a limit of its own, at the *)
(* edge of a character; a block that no longer fits into the total becomes *)
(* a one-line notice, and so does a binary file of the manifest.           *)
(***************************************************************************)
EXTENDS Naturals, SequencesExt

CONSTANTS
  Name,          \* paths a manifest may name
  Artifact,      \* prd.md, design.md, implement.md, in this order
  File,          \* File[n]: what is at path n or artifact n
  MaxFiles,      \* files taken of a directory
  HeadSize,      \* bytes of the line above an inlined file
  CutSize,       \* bytes of the notice that ends a truncated file
  NoteSize       \* bytes of a notice that stands for a file

Artifacts  == {Artifact[i] : i \in DOMAIN Artifact}
LimitNames == {"max_file_bytes", "max_artifact_bytes", "max_total_bytes"}

(***************************************************************************)
(* At a path there is nothing, a directory with the names of its .md files *)
(* in order, or a file: binary, or text, given by the byte lengths of its  *)
(* characters.                                                             *)
(***************************************************************************)
IsDir(n)  == File[n].kind = "dir"
IsFile(n) == File[n].kind \in {"text", "binary"}
Texts     == [kind : {"text"}, chars : Seq(1 .. 4)]
Folders   == [kind : {"dir"}, md : Seq(Name)]

ASSUME ContextInjectionAssumption ==
  /\ Artifact \in Seq(Artifacts) /\ Artifacts \cap Name = {}
  /\ \A n \in Name : File[n] \in [kind : {"missing", "binary"}] \cup Texts \cup Folders
  /\ \A n \in Name : IsDir(n) => \A i \in DOMAIN File[n].md : IsFile(File[n].md[i])
  /\ \A n \in Artifacts : File[n] \in [kind : {"missing"}] \cup Texts
  /\ MaxFiles \in Nat /\ {HeadSize, CutSize, NoteSize} \subseteq Nat

VARIABLES
  rows,          \* the manifest, implement.jsonl or check.jsonl
  limits,        \* max_file_bytes, max_artifact_bytes, max_total_bytes
  verdict,       \* what task.py validate said of the manifest
  warned,        \* files of which it said that injection will truncate them
  queue,         \* what the hook has still to read
  used,          \* the running total of its budget
  blocks         \* the context so far

vars == <<rows, limits, verdict, warned, queue, used, blocks>>

\* The bytes of a text: the lead byte of a character is its length, 0 is a
\* continuation byte.
Bytes(chars) ==
  FlattenSeq([i \in DOMAIN chars |-> [b \in 1 .. chars[i] |-> IF b = 1 THEN chars[i] ELSE 0]])
Size(n) == Len(Bytes(File[n].chars))

-----------------------------------------------------------------------------
(* The manifest: rows of JSON.  A row that is an object names a path by    *)
(* "file" or by "path", or is a comment (key "none"); a row may be invalid *)
(* JSON ("bad"), or JSON that is no object ("other").                      *)

Row(key, name, type) == [key |-> key, name |-> name, type |-> type]
Rows ==
  [key : {"file", "path"}, name : Name, type : {"file", "directory"}]
  \cup [key : {"none", "bad", "other"}, name : {""}, type : {"file"}]

\* An agent, or a person, adds a row with an editor.
HandEdit(r) ==
  /\ queue = <<>> /\ blocks = <<>> /\ verdict = "none"
  /\ rows' = Append(rows, r)
  /\ UNCHANGED <<limits, verdict, warned, queue, used, blocks>>

\* task.py add-context: refuses a path that is not there, and one whose text it
\* finds in the manifest, under whatever key.  It writes and looks for the path
\* of a directory with a slash at its end, so that of the rows about a directory
\* it finds only those that are written as its own.
AddContext(n) ==
  /\ queue = <<>> /\ blocks = <<>> /\ verdict = "none"
  /\ IsDir(n) \/ IsFile(n)
  /\ \A i \in DOMAIN rows : rows[i].name = n => IsDir(n) /\ rows[i] # Row("file", n, "directory")
  /\ rows' = Append(rows, Row("file", n, IF IsDir(n) THEN "directory" ELSE "file"))
  /\ UNCHANGED <<limits, verdict, warned, queue, used, blocks>>

\* _validate_jsonl: only "file" counts; a row that is no object is an
\* exception.  Files beyond their limit are pointed out.  The manifest is that
\* of a task that is not archived: of an archived one, rows about the task's own
\* files are looked for in the archive, by this command only.
RowAccepted(r) ==
  /\ r.key \notin {"bad", "other"}
  /\ r.key = "file" => IF r.type = "directory" THEN IsDir(r.name) ELSE IsFile(r.name)

Bulk(n) == IF File[n].kind = "text" THEN Size(n) ELSE 1

\* Mutant: the limit of artifacts is taken for the one of files.
TooLargeForArtifact(n) == limits.max_artifact_bytes # 0 /\ Bulk(n) > limits.max_artifact_bytes

TooLarge(n) == limits.max_file_bytes # 0 /\ Bulk(n) > limits.max_file_bytes

Validate ==
  /\ verdict = "none"
  /\ verdict' = IF \A i \in DOMAIN rows : RowAccepted(rows[i]) THEN "passed" ELSE "failed"
  /\ warned' = {n \in Name : /\ \E i \in DOMAIN rows : /\ rows[i].key = "file"
                                                       /\ rows[i].type = "file"
                                                       /\ rows[i].name = n
                             /\ IsFile(n) /\ TooLarge(n)}
  /\ UNCHANGED <<rows, limits, queue, used, blocks>>

\* Mutant: rows that name nothing are not left out.
EntriesAll(rs) ==
  LET wrong == {i \in DOMAIN rs : rs[i].key = "other"}
  IN  SubSeq(rs, 1, IF wrong = {} THEN Len(rs) ELSE (CHOOSE i \in wrong : \A j \in wrong : i <= j) - 1)

\* read_jsonl_entries: invalid and comment rows are skipped, but a row that is
\* no object ends the reading.
Entries(rs) ==
  LET wrong == {i \in DOMAIN rs : rs[i].key = "other"}
      upto  == IF wrong = {} THEN Len(rs) ELSE (CHOOSE i \in wrong : \A j \in wrong : i <= j) - 1
      named[i \in 0 .. upto] ==
        IF i = 0 THEN <<>>
        ELSE IF rs[i].key \in {"file", "path"} THEN Append(named[i - 1], rs[i]) ELSE named[i - 1]
  IN  named[upto]

-----------------------------------------------------------------------------
(* One block.                                                              *)

\* Mutant: the bytes are cut where the limit falls.
TruncateHard(data, cap) ==
  IF cap = 0 \/ Len(data) <= cap THEN data ELSE SubSeq(data, 1, cap)

\* truncate_utf8: goes back over continuation bytes to a lead byte, drops it
\* when its character does not fit, and ends with it when it does.
Truncate(data, cap) ==
  LET leads == {i \in 1 .. cap : data[i] # 0}
      last  == CHOOSE i \in leads : \A j \in leads : j <= i
  IN  IF cap = 0 \/ Len(data) <= cap THEN data
      ELSE IF leads = {} THEN <<>>
      ELSE SubSeq(data, 1, IF last - 1 + data[last] > cap THEN last - 1 ELSE last)

\* Mutant: only bytes already used count.
HasRoomYet(size) == limits.max_total_bytes = 0 \/ used < limits.max_total_bytes

\* _Budget.has_room; 0 is no limit.
HasRoom(size) == limits.max_total_bytes = 0 \/ used + size <= limits.max_total_bytes

\* The bytes of what data is decoded to: a lead byte left alone at the end is
\* replaced by U+FFFD, which has three.
Decoded(data) == Len(data) + IF data # <<>> /\ data[Len(data)] > 1 THEN 2 ELSE 0

\* _budgeted_block: inlined, or a notice, which is added without asking.
Inlined(n, data) ==
  LET cut  == Len(data) < Size(n)
      size == HeadSize + Decoded(data) + IF cut THEN CutSize ELSE 0
  IN  IF HasRoom(size)
      THEN [name |-> n, form |-> IF cut THEN "cut" ELSE "whole", size |-> size]
      ELSE [name |-> n, form |-> "notice", size |-> NoteSize]

\* _materialize_file and _materialize_artifact; the latter has a limit of its
\* own and takes every artifact for text.
BlockOf(n) ==
  IF File[n].kind = "binary" THEN [name |-> n, form |-> "binary", size |-> NoteSize]
  ELSE Inlined(n, Truncate(Bytes(File[n].chars),
                           IF n \in Name THEN limits.max_file_bytes ELSE limits.max_artifact_bytes))

-----------------------------------------------------------------------------
(* The hook.                                                               *)

\* get_implement_context and get_check_context: the manifest, then the
\* artifacts.
Begins ==
  /\ queue = <<>> /\ blocks = <<>>
  /\ queue' = Entries(rows)
              \o [i \in DOMAIN Artifact |-> Row("file", Artifact[i], "file")]
  /\ UNCHANGED <<rows, limits, verdict, warned, used, blocks>>

\* Mutant: a directory is taken whole.
ReadDirectoryWhole ==
  LET r == Head(queue) IN
  /\ queue # <<>> /\ r.type = "directory"
  /\ queue' = (IF IsDir(r.name)
               THEN [i \in DOMAIN File[r.name].md |-> Row("file", File[r.name].md[i], "file")]
               ELSE <<>>) \o Tail(queue)
  /\ UNCHANGED <<rows, limits, verdict, warned, used, blocks>>

\* _materialize_directory: the first .md files of it, in order.
ReadDirectory ==
  LET r == Head(queue) IN
  /\ queue # <<>> /\ r.type = "directory"
  /\ LET md == IF IsDir(r.name) THEN File[r.name].md ELSE <<>>
     IN  queue' = [i \in 1 .. IF Len(md) < MaxFiles THEN Len(md) ELSE MaxFiles |->
                     Row("file", md[i], "file")] \o Tail(queue)
  /\ UNCHANGED <<rows, limits, verdict, warned, used, blocks>>

ReadFile ==
  LET r == Head(queue) IN
  /\ queue # <<>> /\ r.type # "directory"
  /\ queue' = Tail(queue)
  /\ IF IsFile(r.name)
     THEN LET b == BlockOf(r.name) IN used' = used + b.size /\ blocks' = Append(blocks, b)
     ELSE UNCHANGED <<used, blocks>>
  /\ UNCHANGED <<rows, limits, verdict, warned>>

Next ==
  \/ \E n \in Name : AddContext(n)
  \/ \E r \in Rows : HandEdit(r)
  \/ Validate
  \/ Begins \/ ReadDirectory \/ ReadFile

\* The manifest as task.py create seeds it, and as an agent curates it.
Init ==
  /\ rows = <<Row("none", "", "file")>>
  /\ limits \in [LimitNames -> Nat]
  /\ verdict = "none" /\ warned = {}
  /\ queue = <<>> /\ used = 0 /\ blocks = <<>>

Spec == Init /\ [][Next]_vars

-----------------------------------------------------------------------------
\* Every variable has its type.
TypeOK ==
  /\ rows \in Seq(Rows)
  /\ limits \in [LimitNames -> Nat]
  /\ verdict \in {"none", "passed", "failed"} /\ warned \subseteq Name
  /\ used \in Nat
  /\ queue \in Seq([key : {"file", "path"}, name : Name \cup Artifacts, type : {"file", "directory"}])
  /\ blocks \in Seq([name : Name \cup Artifacts, form : {"whole", "cut", "notice", "binary"}, size : Nat])

\* A file is cut at its limit to the longest whole characters that fit; only
\* when a character of several bytes ends right at the limit, its lead byte
\* alone is left of it (inject-subagent-context.py:201-232).
CutAtCharacter ==
  \A n \in Name : File[n].kind = "text" =>
    LET chars == File[n].chars
        cap   == limits.max_file_bytes
        whole == CHOOSE k \in 0 .. Len(chars) :
                   /\ Len(Bytes(SubSeq(chars, 1, k))) <= cap
                   /\ k < Len(chars) => Len(Bytes(SubSeq(chars, 1, k + 1))) > cap
        fits  == Bytes(SubSeq(chars, 1, whole))
        lone  == whole > 0 /\ Len(fits) = cap /\ whole < Len(chars) /\ chars[whole] > 1
    IN  Truncate(Bytes(chars), cap) =
          IF cap = 0 THEN Bytes(chars)
          ELSE SubSeq(fits, 1, Len(fits) - IF lone THEN chars[whole] - 1 ELSE 0)

\* The bytes of the first blocks.
Total[i \in 0 .. Len(blocks)] == IF i = 0 THEN 0 ELSE Total[i - 1] + blocks[i].size

\* With a total limit, the context never exceeds it by what is inlined: every
\* inlined block ends within the limit, notices before it counted
\* (inject-subagent-context.py:235-248, 292-309).
InlinedWithinTotal ==
  limits.max_total_bytes # 0 =>
    \A i \in DOMAIN blocks : blocks[i].form \in {"whole", "cut"} => Total[i] <= limits.max_total_bytes

\* The files that a row of the manifest stands for: the file it names, or the
\* first ones of the directory it names.
There(n) == IF IsFile(n) THEN <<n>> ELSE <<>>
FilesOf(r) ==
  IF r.key \notin {"file", "path"} THEN <<>>
  ELSE IF r.type # "directory" THEN There(r.name)
  ELSE IF ~IsDir(r.name) THEN <<>>
  ELSE [i \in {j \in DOMAIN File[r.name].md : j <= MaxFiles} |-> File[r.name].md[i]]

\* A manifest that task.py validate passed reaches the sub-agent completely:
\* all files it names, the first ones of its directories, and the artifacts
\* there are, each inlined or named in a notice, in the order of the manifest.
ValidMeansComplete ==
  (verdict = "passed" /\ blocks # <<>> /\ queue = <<>>) =>
    [i \in DOMAIN blocks |-> blocks[i].name] =
      FlattenSeq([i \in DOMAIN rows |-> FilesOf(rows[i])])
      \o FlattenSeq([i \in DOMAIN Artifact |-> There(Artifact[i])])

\* A file that the manifest names itself is cut only after task.py validate
\* has said so (task_context.py:306-314 "injection will truncate it").
CutIsAnnounced ==
  verdict = "passed" => \A i \in DOMAIN blocks :
    (/\ blocks[i].form = "cut" /\ blocks[i].name \in Name
     /\ \E j \in DOMAIN rows : rows[j].key = "file" /\ rows[j].name = blocks[i].name)
    => blocks[i].name \in warned

\* A manifest that task.py validate passed reaches the sub-agent as a whole, cut
\* only where that was announced and between characters.
InjectionComplete == TypeOK /\ ValidMeansComplete /\ CutIsAnnounced /\ CutAtCharacter
=============================================================================
