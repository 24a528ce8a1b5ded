------------------------------ MODULE HookProofs ------------------------------
(***************************************************************************)
(* Proofs about the hooks: about ContextInjection, for any manifest, files,*)
(* limits and number of rows, and about LinearSync, for any tasks,         *)
(* processes and parents, and any number of issues.                        *)
(***************************************************************************)
EXTENDS ContextInjection, LinearSync, ReaderProofs

-----------------------------------------------------------------------------
(* The bytes of the first blocks.                                          *)

BlockType  == [name : Name \cup Artifacts, form : {"whole", "cut", "notice", "binary"}, size : Nat]

Queued == [key : {"file", "path"}, name : Name \cup Artifacts, type : {"file", "directory"}]

Totals(f, bs) == f = [i \in 0 .. Len(bs) |-> IF i = 0 THEN 0 ELSE f[i - 1] + bs[i].size]

TotalOf(bs)   == CHOOSE f : Totals(f, bs)

LEMMA TotalIs == Total = TotalOf(blocks) /\ Total' = TotalOf(blocks')
BY DEF Total, TotalOf, Totals

LEMMA TotalsIs ==
  ASSUME NEW bs \in Seq(BlockType)
  PROVE  /\ Totals(TotalOf(bs), bs)
         /\ \A i \in 0 .. Len(bs) : TotalOf(bs)[i] \in Nat
<1> DEFINE n == Len(bs)
           step == [p \in (1 .. n) \X Nat |-> p[2] + bs[p[1]].size]
<1>1. n \in Nat /\ \A i \in 1 .. n : bs[i].size \in Nat
  <2>1. \A i \in 1 .. n : bs[i] \in BlockType
    OBVIOUS
  <2> QED
    BY <2>1 DEF BlockType
<1>2. step \in [(1 .. n) \X Nat -> Nat]
  BY <1>1
<1>3. PICK f \in [0 .. n -> Nat] : Recursion(f, n, 0, step)
  <2> HIDE DEF step, n
  <2> QED
    BY <1>1, <1>2, RecursionExists
<1>4. \A i \in 0 .. n : i # 0 => step[<<i, f[i - 1]>>] = f[i - 1] + bs[i].size
  BY <1>1, SMTT(40)
<1>5. Totals(f, bs)
  BY <1>3, <1>4 DEF Recursion, Totals
<1>6. Totals(TotalOf(bs), bs)
  BY <1>5 DEF TotalOf
<1> DEFINE g == TotalOf(bs)
           S == {i \in 0 .. n : g[i] \in Nat}
<1>7. 0 \in S
  BY <1>1, <1>6 DEF Totals
<1>8. ASSUME NEW i \in 0 .. n, i \in S, i < n PROVE i + 1 \in S
  <2>1. i + 1 \in 0 .. n /\ i + 1 \in 1 .. n /\ i + 1 # 0 /\ (i + 1) - 1 = i
    BY <1>1, <1>8
  <2>2. g[i + 1] = g[i] + bs[i + 1].size
    BY <1>6, <2>1 DEF Totals
  <2> QED
    BY <1>1, <1>8, <2>1, <2>2
<1>9. 0 .. n \subseteq S
  <2> HIDE DEF S, n
  <2> QED
    BY <1>1, <1>7, <1>8, UpTo
<1> QED
  BY <1>6, <1>9

\* One block more.
LEMMA TotalAppend ==
  ASSUME NEW bs \in Seq(BlockType), NEW b \in BlockType
  PROVE  /\ \A i \in 0 .. Len(bs) : TotalOf(Append(bs, b))[i] = TotalOf(bs)[i]
         /\ TotalOf(Append(bs, b))[Len(bs) + 1] = TotalOf(bs)[Len(bs)] + b.size
<1> DEFINE n  == Len(bs)
           cs == Append(bs, b)
           f  == TotalOf(bs)
           g  == TotalOf(cs)
           S  == {i \in 0 .. n : g[i] = f[i]}
<1>1. n \in Nat /\ cs \in Seq(BlockType) /\ Len(cs) = n + 1 /\ cs[n + 1] = b /\ \A i \in 1 .. n : cs[i] = bs[i]
  OBVIOUS
<1>2. Totals(f, bs) /\ Totals(g, cs)
  BY <1>1, TotalsIs
<1>3. \A i \in 0 .. n : f[i] = IF i = 0 THEN 0 ELSE f[i - 1] + bs[i].size
  BY <1>2 DEF Totals
<1>4. \A i \in 0 .. n + 1 : g[i] = IF i = 0 THEN 0 ELSE g[i - 1] + cs[i].size
  BY <1>1, <1>2 DEF Totals
<1> HIDE DEF n, cs, f, g
<1>5. 0 \in S
  BY <1>1, <1>3, <1>4
<1>6. ASSUME NEW i \in 0 .. n, i \in S, i < n PROVE i + 1 \in S
  <2>1. i + 1 \in 0 .. n /\ i + 1 \in 1 .. n /\ i + 1 \in 0 .. n + 1 /\ (i + 1) - 1 = i /\ i + 1 # 0
    BY <1>1, <1>6
  <2>2. g[i + 1] = g[i] + cs[i + 1].size /\ f[i + 1] = f[i] + bs[i + 1].size
    BY <1>3, <1>4, <2>1
  <2> QED
    BY <1>1, <1>6, <2>1, <2>2
<1>7. 0 .. n \subseteq S
  <2> HIDE DEF S
  <2> QED
    BY <1>1, <1>5, <1>6, UpTo
<1>8. g[n + 1] = g[n] + b.size /\ g[n] = f[n]
  <2>1. n + 1 \in 0 .. n + 1 /\ n \in 0 .. n /\ n + 1 # 0 /\ (n + 1) - 1 = n
    BY <1>1
  <2> QED
    BY <1>1, <1>4, <1>7, <2>1
<1> QED
  BY <1>7, <1>8 DEF n, cs, f, g

LEMMA BytesTyped == ASSUME NEW chars \in Seq(1 .. 4) PROVE Bytes(chars) \in Seq(0 .. 4)
<1> DEFINE Char(c) == [b \in 1 .. c |-> IF b = 1 THEN c ELSE 0]
<1>1. ASSUME NEW c \in 1 .. 4 PROVE Char(c) \in Seq(0 .. 4)
  BY SeqDef
<1>2. [i \in DOMAIN chars |-> Char(chars[i])] \in Seq(Seq(0 .. 4))
  <2>1. DOMAIN chars = 1 .. Len(chars) /\ Len(chars) \in Nat /\ \A i \in 1 .. Len(chars) : chars[i] \in 1 .. 4
    OBVIOUS
  <2> HIDE DEF Char
  <2>2. [i \in 1 .. Len(chars) |-> Char(chars[i])] \in [1 .. Len(chars) -> Seq(0 .. 4)]
    BY <1>1, <2>1
  <2> QED
    BY <2>1, <2>2, SeqDef
<1>3. Bytes(chars) = FlattenSeq([i \in DOMAIN chars |-> Char(chars[i])])
  BY DEF Bytes
<1> HIDE DEF Char
<1> QED
  BY <1>2, <1>3, FlattenIs

\* What truncate_utf8 keeps is a part of the data, of as many bytes as allowed.
LEMMA TruncateTyped ==
  ASSUME NEW data \in Seq(0 .. 4), NEW cap \in Nat
  PROVE  /\ Truncate(data, cap) \in Seq(0 .. 4)
         /\ Len(Truncate(data, cap)) < Len(data) => cap # 0 /\ Len(data) > cap
<1> DEFINE leads == {i \in 1 .. cap : data[i] # 0}
           last  == CHOOSE i \in leads : \A j \in leads : j <= i
           to    == IF last - 1 + data[last] > cap THEN last - 1 ELSE last
<1>0. Len(data) \in Nat
  OBVIOUS
<1>1. CASE cap = 0 \/ Len(data) <= cap
  BY <1>0, <1>1 DEF Truncate
<1>2. CASE ~(cap = 0 \/ Len(data) <= cap) /\ leads = {}
  BY <1>0, <1>2 DEF Truncate
<1>3. CASE ~(cap = 0 \/ Len(data) <= cap) /\ leads # {}
  <2>1. \E i \in leads : \A j \in leads : j <= i
    <3>1. leads \in SUBSET (1 .. cap)
      OBVIOUS
    <3> HIDE DEF leads
    <3> QED
      BY <1>3, <3>1, LastOf
  <2>2. last \in leads
    <3> HIDE DEF leads
    <3> QED
      BY <2>1
  <2>3. to \in 0 .. Len(data)
    <3>1. last \in 1 .. cap /\ cap < Len(data)
      BY <1>0, <1>3, <2>2
    <3> HIDE DEF last
    <3> QED
      BY <1>0, <3>1
  <2>4. Truncate(data, cap) = SubSeq(data, 1, to)
    BY <1>3 DEF Truncate
  <2> HIDE DEF to, last, leads
  <2>5. SubSeq(data, 1, to) \in Seq(0 .. 4)
    <3>1. \A i \in 1 .. to : data[i] \in 0 .. 4
      BY <1>0, <2>3
    <3> QED
      BY <2>3, <3>1, SubSeqProperties
  <2> QED
    BY <1>0, <1>3, <2>4, <2>5
<1> QED
  BY <1>1, <1>2, <1>3

-----------------------------------------------------------------------------
(* One block.                                                              *)

LEMMA Contents ==
  ASSUME NEW n \in Name \cup Artifacts
  PROVE  /\ File[n] \in [kind : {"missing", "binary"}] \cup Texts \cup Folders
         /\ File[n].kind = "text" => File[n].chars \in Seq(1 .. 4)
         /\ File[n].kind = "dir" => n \in Name /\ File[n].md \in Seq(Name)
         /\ File[n].kind = "binary" => n \in Name
BY ContextInjectionAssumption DEF Texts, Folders

LEMMA BlockTyped ==
  ASSUME limits \in [LimitNames -> Nat], used \in Nat, NEW n \in Name \cup Artifacts, IsFile(n)
  PROVE  /\ BlockOf(n) \in BlockType /\ BlockOf(n).name = n
         /\ BlockOf(n).form \in {"whole", "cut"} => HasRoom(BlockOf(n).size)
         /\ BlockOf(n).form = "cut" /\ n \in Name => TooLarge(n)
<1>0. HeadSize \in Nat /\ CutSize \in Nat /\ NoteSize \in Nat
  BY ContextInjectionAssumption
<1>1. CASE File[n].kind = "binary"
  BY <1>0, <1>1 DEF BlockOf, BlockType
<1>2. CASE File[n].kind # "binary"
  <2>1. File[n].kind = "text" /\ File[n].chars \in Seq(1 .. 4)
    BY <1>2, Contents DEF IsFile
  <2> DEFINE data == Bytes(File[n].chars)
             cap  == IF n \in Name THEN limits.max_file_bytes ELSE limits.max_artifact_bytes
             kept == Truncate(data, cap)
             cut  == Len(kept) < Size(n)
             size == HeadSize + Decoded(kept) + IF cut THEN CutSize ELSE 0
  <2>2. data \in Seq(0 .. 4) /\ Size(n) = Len(data) /\ Len(data) \in Nat
    BY <2>1, BytesTyped DEF Size
  <2>3. cap \in Nat
    BY DEF LimitNames
  <2>4. kept \in Seq(0 .. 4) /\ (cut => cap # 0 /\ Len(data) > cap)
    <3> HIDE DEF data, cap
    <3> QED
      BY <2>2, <2>3, TruncateTyped
  <2>5. BlockOf(n) = Inlined(n, kept)
    BY <1>2 DEF BlockOf
  <2> HIDE DEF kept
  <2>6. Len(kept) \in Nat
    BY <2>4
  <2>7. size \in Nat
    <3>1. Decoded(kept) \in Nat
      BY <2>6 DEF Decoded
    <3> HIDE DEF cut
    <3> QED
      BY <1>0, <3>1
  <2>8. Inlined(n, kept) = IF HasRoom(size)
                           THEN [name |-> n, form |-> IF cut THEN "cut" ELSE "whole", size |-> size]
                           ELSE [name |-> n, form |-> "notice", size |-> NoteSize]
    BY DEF Inlined
  <2>9. cut /\ n \in Name => TooLarge(n)
    BY <2>1, <2>2, <2>4 DEF TooLarge, Bulk
  <2> HIDE DEF size, cut
  <2> QED
    BY <1>0, <2>5, <2>7, <2>8, <2>9 DEF BlockType
<1> QED
  BY <1>1, <1>2

-----------------------------------------------------------------------------
(* The manifest.                                                           *)

Upto(rs) ==
  LET wrong == {i \in DOMAIN rs : rs[i].key = "other"}
  IN  IF wrong = {} THEN Len(rs) ELSE (CHOOSE i \in wrong : \A j \in wrong : i <= j) - 1

\* f[i] is what the first i rows name.
Names(f, rs) ==
  f = [i \in 0 .. Upto(rs) |->
         IF i = 0 THEN <<>>
         ELSE IF rs[i].key \in {"file", "path"} THEN Append(f[i - 1], rs[i]) ELSE f[i - 1]]

NamesOf(rs) == CHOOSE f : Names(f, rs)

LEMMA EntriesNamed ==
  ASSUME NEW rs \in Seq(Rows), Upto(rs) \in 0 .. Len(rs)
  PROVE  /\ NamesOf(rs) \in [0 .. Upto(rs) -> Seq(Queued)] /\ Names(NamesOf(rs), rs)
         /\ Entries(rs) = NamesOf(rs)[Upto(rs)]
<1> DEFINE n == Upto(rs)
           step == [p \in (1 .. n) \X Seq(Queued) |->
                      IF rs[p[1]].key \in {"file", "path"} THEN Append(p[2], rs[p[1]]) ELSE p[2]]
<1>0. n \in Nat /\ Len(rs) \in Nat /\ \A i \in 1 .. n : i \in 1 .. Len(rs)
  OBVIOUS
<1>1. \A i \in 1 .. n : rs[i].key \in {"file", "path"} => rs[i] \in Queued
  <2>1. \A i \in 1 .. n : rs[i] \in Rows
    BY <1>0
  <2> QED
    BY <2>1 DEF Rows, Queued
<1> HIDE DEF n
<1>2. step \in [(1 .. n) \X Seq(Queued) -> Seq(Queued)]
  BY <1>1
<1>3. <<>> \in Seq(Queued)
  OBVIOUS
<1>4. PICK f \in [0 .. n -> Seq(Queued)] : Recursion(f, n, <<>>, step)
  <2> HIDE DEF step
  <2> QED
    BY <1>0, <1>2, <1>3, RecursionExists
<1>5. ASSUME NEW i \in 0 .. n, i # 0
      PROVE  step[<<i, f[i - 1]>>] = IF rs[i].key \in {"file", "path"} THEN Append(f[i - 1], rs[i]) ELSE f[i - 1]
  <2>1. i \in 1 .. n /\ i - 1 \in 0 .. n
    BY <1>0, <1>5
  <2>2. <<i, f[i - 1]>> \in (1 .. n) \X Seq(Queued)
    BY <1>4, <2>1
  <2> QED
    BY <2>2
<1>6. Names(f, rs)
  BY <1>4, <1>5 DEF Recursion, Names, n
<1>7. Names(NamesOf(rs), rs)
  BY <1>6 DEF NamesOf
<1> DEFINE g == NamesOf(rs)
           S == {i \in 0 .. n : g[i] \in Seq(Queued)}
<1>8. \A i \in 0 .. n : g[i] = IF i = 0 THEN <<>>
                             ELSE IF rs[i].key \in {"file", "path"} THEN Append(g[i - 1], rs[i]) ELSE g[i - 1]
  BY <1>7 DEF Names, n
<1>9. g = [i \in 0 .. n |-> g[i]]
  BY <1>7 DEF Names, n
<1>10. Entries(rs) = g[n]
  BY DEF Entries, NamesOf, Names, Upto, n
<1> HIDE DEF g
<1>11. 0 \in S
  <2>1. 0 \in 0 .. n /\ g[0] = <<>>
    BY <1>0, <1>8
  <2> QED
    BY <1>3, <2>1
<1>12. ASSUME NEW i \in 0 .. n, i \in S, i < n PROVE i + 1 \in S
  <2>1. i + 1 \in 0 .. n /\ i + 1 \in 1 .. n /\ i + 1 # 0 /\ (i + 1) - 1 = i
    BY <1>0, <1>12
  <2>2. g[i + 1] = IF rs[i + 1].key \in {"file", "path"} THEN Append(g[i], rs[i + 1]) ELSE g[i]
    BY <1>8, <2>1
  <2>3. g[i] \in Seq(Queued)
    BY <1>12
  <2>4. g[i + 1] \in Seq(Queued)
    BY <1>1, <2>1, <2>2, <2>3
  <2> QED
    BY <2>1, <2>4
<1>13. 0 .. n \subseteq S
  <2> HIDE DEF S
  <2> QED
    BY <1>0, <1>11, <1>12, UpTo
<1> QED
  BY <1>7, <1>9, <1>10, <1>13 DEF g, n

LEMMA EntriesIs ==
  ASSUME NEW rs \in Seq(Rows)
  PROVE  /\ Upto(rs) \in 0 .. Len(rs)
         /\ \A i \in 1 .. Upto(rs) : rs[i].key # "other"
         /\ (\A i \in DOMAIN rs : rs[i].key # "other") => Upto(rs) = Len(rs)
         /\ NamesOf(rs) \in [0 .. Upto(rs) -> Seq(Queued)] /\ Names(NamesOf(rs), rs)
         /\ Entries(rs) = NamesOf(rs)[Upto(rs)]
<1> DEFINE wrong == {i \in DOMAIN rs : rs[i].key = "other"}
           first == CHOOSE i \in wrong : \A j \in wrong : i <= j
           n     == Upto(rs)
<1>0. Len(rs) \in Nat /\ DOMAIN rs = 1 .. Len(rs)
  OBVIOUS
<1>1. CASE wrong # {}
  <2>1. \E i \in wrong : \A j \in wrong : i <= j
    <3>1. wrong \in SUBSET (1 .. Len(rs))
      BY <1>0
    <3> HIDE DEF wrong
    <3> QED
      BY <1>0, <1>1, <3>1, FirstOf
  <2>2. first \in wrong /\ \A j \in wrong : first <= j
    <3> HIDE DEF wrong
    <3> QED
      BY <2>1
  <2> HIDE DEF first
  <2>3. n = first - 1
    BY <1>1 DEF Upto, first
  <2>4. first \in 1 .. Len(rs)
    BY <1>0, <2>2
  <2> HIDE DEF n
  <2>5. n \in 0 .. Len(rs)
    BY <1>0, <2>3, <2>4
  <2>6. ASSUME NEW i \in 1 .. n PROVE rs[i].key # "other"
    <3>1. i < first /\ i \in 1 .. Len(rs)
      BY <1>0, <2>3, <2>4
    <3> QED
      BY <1>0, <2>2, <2>4, <3>1
  <2> QED
    BY <1>1, <2>5, <2>6, EntriesNamed DEF n
<1>2. CASE wrong = {}
  <2>1. n = Len(rs)
    BY <1>2 DEF Upto
  <2>2. \A i \in DOMAIN rs : rs[i].key # "other"
    BY <1>2
  <2> HIDE DEF wrong, first
  <2>3. n \in 0 .. Len(rs) /\ \A i \in 1 .. n : rs[i].key # "other"
    BY <1>0, <2>1, <2>2
  <2> QED
    BY <2>1, <2>3, EntriesNamed
<1> QED
  BY <1>1, <1>2

-----------------------------------------------------------------------------
(* The inductive invariant: the running total is that of the blocks, what  *)
(* was cut is too large, and the verdict is about the manifest as it is.   *)

Budgeted == used = Total[Len(blocks)] /\ InlinedWithinTotal

CutLarge == \A i \in DOMAIN blocks :
  blocks[i].form = "cut" /\ blocks[i].name \in Name => IsFile(blocks[i].name) /\ TooLarge(blocks[i].name)

Judged ==
  verdict = "passed" =>
    /\ \A i \in DOMAIN rows : RowAccepted(rows[i])
    /\ \A n \in Name : (\E i \in DOMAIN rows : rows[i].key = "file" /\ rows[i].type = "file" /\ rows[i].name = n)
                       /\ IsFile(n) /\ TooLarge(n) => n \in warned

IInv == TypeOK /\ Budgeted /\ CutLarge /\ Judged

\* The first files of a directory, as rows.
FirstRows(n) ==
  LET md == IF IsDir(n) THEN File[n].md ELSE <<>>
  IN  [i \in 1 .. IF Len(md) < MaxFiles THEN Len(md) ELSE MaxFiles |-> Row("file", md[i], "file")]

LEMMA FirstRowsTyped ==
  ASSUME NEW n \in Name \cup Artifacts PROVE FirstRows(n) \in Seq(Queued)
<1> DEFINE md == IF IsDir(n) THEN File[n].md ELSE <<>>
           k  == IF Len(md) < MaxFiles THEN Len(md) ELSE MaxFiles
<1>1. md \in Seq(Name)
  BY Contents DEF IsDir
<1>2. FirstRows(n) = [i \in 1 .. k |-> Row("file", md[i], "file")]
  BY DEF FirstRows
<1> HIDE DEF md
<1>3. k \in Nat /\ \A i \in 1 .. k : i \in 1 .. Len(md)
  BY <1>1, ContextInjectionAssumption
<1>4. \A i \in 1 .. k : Row("file", md[i], "file") \in Queued
  BY <1>1, <1>3 DEF Row, Queued
<1> HIDE DEF k
<1> QED
  BY <1>2, <1>3, <1>4, SeqDef

LEMMA ArtifactRows == [i \in DOMAIN Artifact |-> Row("file", Artifact[i], "file")] \in Seq(Queued)
<1>1. DOMAIN Artifact = 1 .. Len(Artifact) /\ Len(Artifact) \in Nat
  BY ContextInjectionAssumption
<1>2. \A i \in DOMAIN Artifact : Row("file", Artifact[i], "file") \in Queued
  BY DEF Row, Queued, Artifacts
<1> QED
  BY <1>1, <1>2, SeqDef

LEMMA ReadDirectoryIs ==
  ASSUME TypeOK, ReadDirectory
  PROVE  /\ queue # <<>> /\ Head(queue) \in Queued /\ Tail(queue) \in Seq(Queued)
         /\ queue' = FirstRows(Head(queue).name) \o Tail(queue)
<1>1. queue \in Seq(Queued) /\ queue # <<>>
  BY DEF TypeOK, Queued, ReadDirectory
<1>2. Head(queue) \in Queued /\ Tail(queue) \in Seq(Queued)
  BY <1>1, HeadTailProperties
<1>3. queue' = FirstRows(Head(queue).name) \o Tail(queue)
  BY DEF ReadDirectory, FirstRows
<1> QED
  BY <1>1, <1>2, <1>3, SMTT(40)

LEMMA ReadFileIs ==
  ASSUME TypeOK, ReadFile
  PROVE  /\ queue # <<>> /\ Head(queue) \in Queued /\ Tail(queue) \in Seq(Queued) /\ queue' = Tail(queue)
         /\ IF IsFile(Head(queue).name)
            THEN LET b == BlockOf(Head(queue).name) IN
                 used' = used + b.size /\ blocks' = Append(blocks, b) /\ b \in BlockType
            ELSE UNCHANGED <<used, blocks>>
         /\ UNCHANGED <<rows, limits, verdict, warned>>
<1>1. queue \in Seq(Queued) /\ queue # <<>>
  BY DEF TypeOK, Queued, ReadFile
<1>2. Head(queue) \in Queued /\ Tail(queue) \in Seq(Queued)
  BY <1>1, HeadTailProperties
<1>3. /\ limits \in [LimitNames -> Nat]
      /\ used \in Nat
  BY DEF TypeOK
<1>4. Head(queue).name \in Name \cup Artifacts
  BY <1>2 DEF Queued
<1>5. IsFile(Head(queue).name) => BlockOf(Head(queue).name) \in BlockType
  BY <1>3, <1>4, BlockTyped
<1> QED
  BY <1>1, <1>2, <1>5 DEF ReadFile

LEMMA TypeInit == Init => TypeOK
<1> SUFFICES ASSUME Init PROVE TypeOK
  OBVIOUS
<1>1. Row("none", "", "file") \in Rows
  BY DEF Row, Rows
<1>2. rows \in Seq(Rows)
  <2> DEFINE r == Row("none", "", "file")
  <2>1. rows = <<r>> /\ r \in Rows
    BY <1>1 DEF Init
  <2> HIDE DEF r
  <2> QED
    BY <2>1
<1>3. <<>> \in Seq(Queued) /\ <<>> \in Seq(BlockType)
  OBVIOUS
<1> QED
  BY <1>2, <1>3 DEF Init, TypeOK, Queued, BlockType

LEMMA TypeStep == TypeOK /\ [Next]_vars => TypeOK'
<1> SUFFICES ASSUME TypeOK, [Next]_vars PROVE TypeOK'
  OBVIOUS
<1>0. queue \in Seq(Queued) /\ blocks \in Seq(BlockType)
  BY DEF TypeOK, Queued, BlockType
<1>1. ASSUME NEW n \in Name, AddContext(n) PROVE TypeOK'
  <2>1. Row("file", n, IF IsDir(n) THEN "directory" ELSE "file") \in Rows
    BY DEF Row, Rows
  <2> QED
    BY <1>1, <2>1 DEF AddContext, TypeOK
<1>2. ASSUME NEW r \in Rows, HandEdit(r) PROVE TypeOK'
  BY <1>2 DEF HandEdit, TypeOK
<1>3. CASE Validate
  BY <1>3 DEF Validate, TypeOK
<1>4. CASE Begins
  <2>1. rows \in Seq(Rows)
    BY DEF TypeOK
  <2>2. Entries(rows) \in Seq(Queued)
    <3>1. Upto(rows) \in 0 .. Upto(rows)
      BY <2>1, EntriesIs
    <3> QED
      BY <2>1, <3>1, EntriesIs
  <2>3. queue' \in Seq(Queued)
    BY <1>4, <2>2, ArtifactRows, SMTT(40) DEF Begins
  <2> QED
    BY <1>4, <2>3 DEF Begins, TypeOK, Queued
<1>5. CASE ReadDirectory
  <2>1. FirstRows(Head(queue).name) \in Seq(Queued)
    BY <1>5, ReadDirectoryIs, FirstRowsTyped DEF Queued
  <2>2. queue' \in Seq(Queued)
    <3>1. queue' = FirstRows(Head(queue).name) \o Tail(queue) /\ Tail(queue) \in Seq(Queued)
      BY <1>5, ReadDirectoryIs
    <3> QED
      BY <2>1, <3>1
  <2> QED
    BY <1>5, <2>2 DEF ReadDirectory, TypeOK, Queued
<1>6. CASE ReadFile
  <2>1. queue' \in Seq(Queued) /\ UNCHANGED <<rows, limits, verdict, warned>>
    BY <1>6, ReadFileIs
  <2>2. used' \in Nat /\ blocks' \in Seq(BlockType)
    <3>1. CASE IsFile(Head(queue).name)
      <4> DEFINE b == BlockOf(Head(queue).name)
      <4>1. used' = used + b.size /\ blocks' = Append(blocks, b) /\ b \in BlockType
        BY <1>6, <3>1, ReadFileIs
      <4> HIDE DEF b
      <4>2. b.size \in Nat /\ used \in Nat
        BY <4>1 DEF BlockType, TypeOK
      <4> QED
        BY <1>0, <4>1, <4>2
    <3>2. CASE ~IsFile(Head(queue).name)
      <4>1. UNCHANGED <<used, blocks>>
        BY <1>6, <3>2, ReadFileIs
      <4> QED
        BY <1>0, <4>1 DEF TypeOK
    <3> QED
      BY <3>1, <3>2
  <2> QED
    BY <2>1, <2>2 DEF TypeOK, Queued, BlockType
<1>7. CASE UNCHANGED vars
  BY <1>7 DEF vars, TypeOK
<1> QED
  BY <1>1, <1>2, <1>3, <1>4, <1>5, <1>6, <1>7 DEF Next

\* Only reading a file adds to the context.
LEMMA BlocksStay ==
  ASSUME UNCHANGED <<blocks, used, limits>>
  PROVE  (Budgeted => Budgeted') /\ (CutLarge => CutLarge')
<1>1. Total' = Total
  BY TotalIs
<1>2. Budgeted => Budgeted'
  BY <1>1 DEF Budgeted, InlinedWithinTotal
<1>3. CutLarge => CutLarge'
  BY DEF CutLarge, TooLarge
<1> QED
  BY <1>2, <1>3

LEMMA ReadFileBudgeted ==
  ASSUME TypeOK, Budgeted, CutLarge, ReadFile PROVE Budgeted' /\ CutLarge'
<1> DEFINE n == Head(queue).name
           b == BlockOf(n)
           k == Len(blocks)
<1>1. CASE ~IsFile(n)
  <2>1. UNCHANGED <<blocks, used, limits>>
    BY <1>1, ReadFileIs
  <2> QED
    BY <2>1, BlocksStay
<1>2. CASE IsFile(n)
  <2>1. used' = used + b.size /\ blocks' = Append(blocks, b) /\ b \in BlockType /\ UNCHANGED limits
    BY <1>2, ReadFileIs
  <2>2. n \in Name \cup Artifacts
    BY ReadFileIs DEF Queued
  <2>3. /\ b.name = n /\ (b.form \in {"whole", "cut"} => HasRoom(b.size))
        /\ (b.form = "cut" /\ n \in Name => TooLarge(n))
    BY <1>2, <2>2, BlockTyped DEF TypeOK
  <2>4. blocks \in Seq(BlockType) /\ used \in Nat
    BY DEF TypeOK, BlockType
  <2> HIDE DEF b, n
  <2>5. k \in Nat /\ blocks' \in Seq(BlockType) /\ Len(blocks') = k + 1 /\ DOMAIN blocks' = 1 .. k + 1
    BY <2>1, <2>4
  <2>6. blocks'[k + 1] = b /\ \A i \in 1 .. k : blocks'[i] = blocks[i] /\ i \in DOMAIN blocks
    BY <2>1, <2>4
  <2>7. (\A i \in 0 .. k : Total'[i] = Total[i]) /\ Total'[k + 1] = Total[k] + b.size
    BY <2>1, <2>4, TotalIs, TotalAppend
  <2>8. Total[k] = used /\ Total'[k + 1] = used'
    BY <2>1, <2>7 DEF Budgeted
  <2>9. Budgeted'
    <3> SUFFICES ASSUME limits.max_total_bytes # 0, NEW i \in 1 .. k + 1, blocks'[i].form \in {"whole", "cut"}
                 PROVE  Total'[i] <= limits.max_total_bytes
      BY <2>1, <2>5, <2>8 DEF Budgeted, InlinedWithinTotal
    <3>1. CASE i = k + 1
      BY <2>1, <2>3, <2>6, <2>8, <3>1 DEF HasRoom
    <3>2. CASE i # k + 1
      <4>1. i \in 1 .. k /\ i \in 0 .. k
        BY <2>5, <3>2
      <4> QED
        BY <2>6, <2>7, <4>1 DEF Budgeted, InlinedWithinTotal
    <3> QED
      BY <3>1, <3>2
  <2>10. CutLarge'
    <3> SUFFICES ASSUME NEW i \in 1 .. k + 1, blocks'[i].form = "cut", blocks'[i].name \in Name
                 PROVE  IsFile(blocks'[i].name) /\ TooLarge(blocks'[i].name)
      BY <2>1, <2>5 DEF CutLarge, TooLarge
    <3>1. CASE i = k + 1
      BY <1>2, <2>3, <2>6, <3>1
    <3>2. CASE i # k + 1
      <4>1. i \in 1 .. k
        BY <2>5, <3>2, SMTT(40)
      <4> QED
        BY <2>6, <4>1 DEF CutLarge
    <3> QED
      BY <3>1, <3>2
  <2> QED
    BY <2>9, <2>10
<1> QED
  BY <1>1, <1>2

LEMMA JudgedStep == TypeOK /\ Judged /\ [Next]_vars => Judged'
<1> SUFFICES ASSUME TypeOK, Judged, [Next]_vars PROVE Judged'
  OBVIOUS
<1>1. CASE verdict' # "passed"
  BY <1>1 DEF Judged
<1>2. CASE UNCHANGED <<rows, verdict, warned, limits>>
  BY <1>2 DEF Judged, TooLarge, RowAccepted
<1>3. CASE Validate
  BY <1>3 DEF Validate, Judged, TooLarge, RowAccepted
<1>4. ASSUME NEW n \in Name, AddContext(n) PROVE verdict' # "passed"
  BY <1>4 DEF AddContext
<1>5. ASSUME NEW r \in Rows, HandEdit(r) PROVE verdict' # "passed"
  BY <1>5 DEF HandEdit
<1> QED
  BY <1>1, <1>2, <1>3, <1>4, <1>5 DEF Next, vars, Begins, ReadDirectory, ReadFile

LEMMA IInvAlways == Spec => []IInv
<1>1. Init => IInv
  <2> SUFFICES ASSUME Init PROVE IInv
    OBVIOUS
  <2>1. TypeOK
    BY TypeInit
  <2>2. blocks = <<>> /\ used = 0 /\ verdict = "none"
    BY DEF Init
  <2>3. Total[0] = 0
    <3>1. Totals(Total, blocks)
      BY <2>1, TotalIs, TotalsIs DEF TypeOK, BlockType
    <3> QED
      BY <2>2, <3>1 DEF Totals
  <2>4. Budgeted /\ CutLarge /\ Judged
    BY <2>2, <2>3 DEF Budgeted, InlinedWithinTotal, CutLarge, Judged
  <2> QED
    BY <2>1, <2>4 DEF IInv
<1>2. IInv /\ [Next]_vars => IInv'
  <2> SUFFICES ASSUME IInv, [Next]_vars PROVE IInv'
    OBVIOUS
  <2>1. TypeOK' /\ Judged'
    BY TypeStep, JudgedStep DEF IInv
  <2>2. Budgeted' /\ CutLarge'
    <3>1. CASE ReadFile
      BY <3>1, ReadFileBudgeted DEF IInv
    <3>2. CASE ~ReadFile
      <4>1. UNCHANGED <<blocks, used, limits>>
        BY <3>2 DEF Next, vars, AddContext, HandEdit, Validate, Begins, ReadDirectory
      <4> QED
        BY <4>1, BlocksStay, SMTT(40) DEF IInv
    <3> QED
      BY <3>1, <3>2
  <2> QED
    BY <2>1, <2>2 DEF IInv
<1> QED
  BY <1>1, <1>2, PTL DEF Spec

\* With a total limit, the context never exceeds it by what is inlined, for any
\* manifest, files and limits (inject-subagent-context.py:235-248, 292-309).
THEOREM InlinedFits == Spec => []InlinedWithinTotal
<1>1. IInv => InlinedWithinTotal
  BY DEF IInv, Budgeted
<1> QED
  BY <1>1, IInvAlways, PTL

\* A file that the manifest names itself is cut only after task.py validate has
\* said so (task_context.py:306-314): the hook and the command measure alike.
THEOREM CutsAreAnnounced == Spec => []CutIsAnnounced
<1>1. IInv => CutIsAnnounced
  <2> SUFFICES ASSUME IInv, verdict = "passed", NEW i \in DOMAIN blocks,
                      blocks[i].form = "cut", blocks[i].name \in Name,
                      NEW j \in DOMAIN rows, rows[j].key = "file", rows[j].name = blocks[i].name
               PROVE  blocks[i].name \in warned
    BY DEF CutIsAnnounced
  <2>1. IsFile(rows[j].name) /\ TooLarge(rows[j].name)
    BY DEF IInv, CutLarge
  <2>2. rows[j] \in Rows
    BY DEF IInv, TypeOK
  <2>3. RowAccepted(rows[j])
    BY DEF IInv, Judged
  <2>4. rows[j].type = "file"
    BY <2>1, <2>2, <2>3 DEF RowAccepted, IsDir, IsFile, Rows
  <2> QED
    BY <2>1, <2>4 DEF IInv, Judged
<1> QED
  BY <1>1, IInvAlways, PTL

LEMMA FlattenCat ==
  ASSUME NEW V, NEW s \in Seq(Seq(V)), NEW t \in Seq(Seq(V))
  PROVE  FlattenSeq(s \o t) = FlattenSeq(s) \o FlattenSeq(t)
<1> DEFINE st == s \o t
           m  == Len(s)
           n  == Len(t)
           f  == Joined(s)
           g  == Joined(t)
           h  == Joined(st)
<1>1. m \in Nat /\ n \in Nat /\ st \in Seq(Seq(V)) /\ Len(st) = m + n
  OBVIOUS
<1>2. (\A i \in 1 .. m : st[i] = s[i]) /\ (\A i \in 1 .. n : st[m + i] = t[i])
  OBVIOUS
<1>3. f[0] = <<>> /\ (\A i \in 0 .. m : f[i] \in Seq(V)) /\ \A i \in 1 .. m : f[i] = f[i - 1] \o s[i]
  BY JoinedStep
<1>4. g[0] = <<>> /\ (\A i \in 0 .. n : g[i] \in Seq(V)) /\ \A i \in 1 .. n : g[i] = g[i - 1] \o t[i]
  BY JoinedStep
<1>5. h[0] = <<>> /\ \A i \in 1 .. m + n : h[i] = h[i - 1] \o st[i]
  <2> HIDE DEF st
  <2> QED
    BY <1>1, JoinedStep
<1>6. FlattenSeq(s) = f[m] /\ FlattenSeq(t) = g[n] /\ FlattenSeq(st) = h[m + n]
  <2> HIDE DEF st
  <2>1. FlattenSeq(st) = h[m + n]
    BY <1>1, FlattenIs
  <2> QED
    BY <2>1, FlattenIs
<1>7. \A i \in 1 .. n : t[i] \in Seq(V)
  OBVIOUS
<1> HIDE DEF st, m, n, f, g, h
<1> DEFINE S == {i \in 0 .. m : h[i] = f[i]}
           T == {i \in 0 .. n : h[m + i] = f[m] \o g[i]}
<1>8. m \in S
  <2>1. 0 \in S
    BY <1>1, <1>3, <1>5
  <2>2. ASSUME NEW i \in 0 .. m, i \in S, i < m PROVE i + 1 \in S
    <3>1. i + 1 \in 0 .. m /\ i + 1 \in 1 .. m /\ i + 1 \in 1 .. m + n /\ (i + 1) - 1 = i
      BY <1>1, <2>2
    <3>2. h[i + 1] = h[i] \o st[i + 1] /\ f[i + 1] = f[i] \o s[i + 1] /\ st[i + 1] = s[i + 1] /\ h[i] = f[i]
      BY <1>2, <1>3, <1>5, <2>2, <3>1
    <3> QED
      BY <3>1, <3>2
  <2>3. m \in 0 .. m
    BY <1>1
  <2> HIDE DEF S
  <2> QED
    BY <1>1, <2>1, <2>2, <2>3, UpTo
<1>9. n \in T
  <2>1. 0 \in T
    <3>1. f[m] \in Seq(V) /\ h[m] = f[m] /\ m + 0 = m
      BY <1>1, <1>3, <1>8
    <3>2. f[m] \o <<>> = f[m]
      BY <3>1, NoneAdded
    <3>3. 0 \in 0 .. n /\ h[m + 0] = f[m] \o g[0]
      BY <1>1, <1>4, <3>1, <3>2
    <3> QED
      BY <3>3
  <2>2. ASSUME NEW i \in 0 .. n, i \in T, i < n PROVE i + 1 \in T
    <3>1. /\ i + 1 \in 0 .. n /\ i + 1 \in 1 .. n /\ (m + i) + 1 \in 1 .. m + n
          /\ (i + 1) - 1 = i /\ ((m + i) + 1) - 1 = m + i /\ m + (i + 1) = (m + i) + 1
      BY <1>1, <2>2
    <3>2. h[(m + i) + 1] = h[m + i] \o st[(m + i) + 1]
      BY <1>5, <3>1
    <3>3. g[i + 1] = g[i] \o t[i + 1] /\ st[(m + i) + 1] = t[i + 1] /\ h[m + i] = f[m] \o g[i]
      <4>1. (m + i) + 1 = m + (i + 1) /\ st[m + (i + 1)] = t[i + 1]
        BY <1>2, <3>1
      <4>2. h[m + i] = f[m] \o g[i]
        BY <2>2
      <4>3. g[i + 1] = g[i] \o t[i + 1]
        BY <1>4, <3>1
      <4> HIDE DEF T
      <4> QED
        BY <4>1, <4>2, <4>3
    <3>4. f[m] \in Seq(V) /\ g[i] \in Seq(V) /\ t[i + 1] \in Seq(V)
      BY <1>1, <1>3, <1>4, <1>7, <3>1
    <3>5. h[m + i] \o t[i + 1] = f[m] \o g[i + 1]
      <4> DEFINE a == f[m]
                 b == g[i]
                 c == t[i + 1]
                 x == h[m + i]
                 y == g[i + 1]
      <4>1. a \in Seq(V) /\ b \in Seq(V) /\ c \in Seq(V) /\ x = a \o b /\ y = b \o c
        BY <3>3, <3>4
      <4>2. x \o c = a \o y
        <5> HIDE DEF a, b, c, x, y
        <5> QED
          BY <4>1, Associate
      <4> QED
        BY <4>2
    <3> QED
      BY <3>1, <3>2, <3>3, <3>5
  <2>3. n \in 0 .. n
    BY <1>1
  <2> HIDE DEF T
  <2> QED
    BY <1>1, <2>1, <2>2, <2>3, UpTo
<1> QED
  BY <1>6, <1>9 DEF st

LEMMA FlattenOne == ASSUME NEW V, NEW x \in Seq(V) PROVE FlattenSeq(<<x>>) = x
<1>1. <<x>> \in Seq(Seq(V)) /\ Len(<<x>>) = 1 /\ <<x>>[1] = x
  OBVIOUS
<1> DEFINE s == <<x>>
<1> HIDE DEF s
<1>2. Joined(s)[0] = <<>> /\ Joined(s)[1] = Joined(s)[0] \o x
  <2>1. 1 \in 1 .. 1 /\ 1 - 1 = 0
    OBVIOUS
  <2> QED
    BY <1>1, <2>1, JoinedStep DEF s
<1>3. <<>> \o x = x
  OBVIOUS
<1> QED
  BY <1>1, <1>2, <1>3, FlattenIs DEF s

LEMMA FlattenNone == FlattenSeq(<<>>) = <<>>
BY DEF FlattenSeq

Path == Name \cup Artifacts

Stands(q)   == [i \in DOMAIN q |-> FilesOf(q[i])]

Pend(q)     == FlattenSeq(Stands(q))

NamesIn(bs) == [i \in DOMAIN bs |-> bs[i].name]

ArtifactQueue == [i \in DOMAIN Artifact |-> Row("file", Artifact[i], "file")]

LEMMA FilesOfTyped ==
  ASSUME NEW r \in Queued \cup Rows PROVE FilesOf(r) \in Seq(Path)
<1>1. CASE r.key \notin {"file", "path"}
  BY <1>1 DEF FilesOf
<1>2. CASE r.key \in {"file", "path"}
  <2>1. r.name \in Path
    BY <1>2 DEF Queued, Rows, Path
  <2>2. There(r.name) \in Seq(Path)
    BY <2>1 DEF There
  <2>3. ASSUME IsDir(r.name)
        PROVE  [i \in {j \in DOMAIN File[r.name].md : j <= MaxFiles} |-> File[r.name].md[i]] \in Seq(Path)
    <3> DEFINE md == File[r.name].md
               k  == IF Len(md) < MaxFiles THEN Len(md) ELSE MaxFiles
    <3>1. md \in Seq(Name)
      BY <2>1, <2>3, Contents DEF IsDir, Path
    <3> HIDE DEF md
    <3>2. k \in Nat /\ {j \in DOMAIN md : j <= MaxFiles} = 1 .. k
      BY <3>1, ContextInjectionAssumption
    <3>3. \A i \in 1 .. k : md[i] \in Path
      <4>1. \A i \in 1 .. k : i \in 1 .. Len(md)
        BY <3>1, ContextInjectionAssumption
      <4> QED
        BY <3>1, <4>1 DEF Path
    <3>4. [i \in 1 .. k |-> md[i]] \in Seq(Path)
      <4> HIDE DEF k
      <4> QED
        BY <3>2, <3>3, SeqDef
    <3> QED
      BY <3>2, <3>4 DEF md
  <2> QED
    BY <1>2, <2>2, <2>3 DEF FilesOf
<1> QED
  BY <1>1, <1>2

LEMMA PendTyped ==
  ASSUME NEW q \in Seq(Queued \cup Rows)
  PROVE  Stands(q) \in Seq(Seq(Path)) /\ Pend(q) \in Seq(Path)
<1>1. DOMAIN q = 1 .. Len(q) /\ Len(q) \in Nat /\ \A i \in DOMAIN q : q[i] \in Queued \cup Rows
  OBVIOUS
<1>2. \A i \in DOMAIN q : FilesOf(q[i]) \in Seq(Path)
  BY <1>1, FilesOfTyped
<1>3. Stands(q) \in Seq(Seq(Path))
  BY <1>1, <1>2, SeqDef DEF Stands
<1> QED
  BY <1>3, FlattenIs DEF Pend

\* What a sequence is mapped to and put together is put together from its parts.
Mapped(F, q)  == [i \in DOMAIN q |-> F[q[i]]]

Maps(F, U, V) == F \in [U -> Seq(V)]

LEMMA MappedCat ==
  ASSUME NEW U, NEW V, NEW F, Maps(F, U, V), NEW q \in Seq(U), NEW r \in Seq(U)
  PROVE  FlattenSeq(Mapped(F, q \o r)) = FlattenSeq(Mapped(F, q)) \o FlattenSeq(Mapped(F, r))
<1> DEFINE m  == Len(q)
           n  == Len(r)
           qr == q \o r
           a  == Mapped(F, q)
           b  == Mapped(F, r)
           c  == Mapped(F, qr)
           W  == Seq(V)
<1>1. /\ m \in Nat /\ n \in Nat /\ DOMAIN q = 1 .. m /\ DOMAIN r = 1 .. n
      /\ qr \in Seq(U) /\ DOMAIN qr = 1 .. m + n
  OBVIOUS
<1>2. (\A i \in 1 .. m : qr[i] = q[i]) /\ \A i \in 1 .. n : qr[m + i] = r[i]
  OBVIOUS
<1>3. F \in [U -> W]
  BY DEF Maps
<1> HIDE DEF m, n, qr, W
<1>4. ASSUME NEW s \in Seq(U), NEW l \in Nat, DOMAIN s = 1 .. l
      PROVE  Mapped(F, s) \in Seq(W) /\ Len(Mapped(F, s)) = l
  <2>1. \A i \in 1 .. l : F[s[i]] \in W
    BY <1>3, <1>4
  <2> DEFINE e == Mapped(F, s)
  <2>2. e \in Seq(W) /\ DOMAIN e = 1 .. l
    BY <1>4, <2>1, SeqDef DEF Mapped
  <2> HIDE DEF e
  <2>3. Len(e) = l
    BY <2>2
  <2> QED
    BY <2>2, <2>3 DEF e
<1>5. /\ a \in Seq(W) /\ b \in Seq(W) /\ c \in Seq(W) /\ m + n \in Nat
      /\ Len(a) = m /\ Len(b) = n /\ Len(c) = m + n
  BY <1>1, <1>4
<1>6. /\ \A i \in 1 .. m : a[i] = F[q[i]]
      /\ \A i \in 1 .. n : b[i] = F[r[i]]
      /\ \A i \in 1 .. m + n : c[i] = F[qr[i]]
  BY <1>1 DEF Mapped
<1> HIDE DEF a, b, c
<1>7. (\A i \in 1 .. m : i \in 1 .. m + n) /\ \A i \in 1 .. n : m + i \in 1 .. m + n
  BY <1>1
<1>8. ASSUME NEW i \in 1 .. m PROVE c[i] = a[i]
  <2>1. i \in 1 .. m + n
    BY <1>7
  <2>2. c[i] = F[qr[i]] /\ a[i] = F[q[i]] /\ qr[i] = q[i]
    BY <1>2, <1>6, <2>1
  <2> QED
    BY <2>2
<1>9. ASSUME NEW i \in 1 .. n PROVE c[m + i] = b[i]
  <2>1. m + i \in 1 .. m + n
    BY <1>7
  <2>2. c[m + i] = F[qr[m + i]] /\ b[i] = F[r[i]] /\ qr[m + i] = r[i]
    BY <1>2, <1>6, <2>1
  <2> QED
    BY <2>2
<1>10. c = a \o b
  <2>1. IsCat(a, b, c)
    BY <1>5, <1>8, <1>9 DEF IsCat
  <2> QED
    BY <1>5, <2>1, CatIs, Zenon
<1> QED
  BY <1>5, <1>10, FlattenCat DEF a, b, c, qr, W

LEMMA PendCat ==
  ASSUME NEW q \in Seq(Queued \cup Rows), NEW r \in Seq(Queued \cup Rows)
  PROVE  Pend(q \o r) = Pend(q) \o Pend(r)
<1> DEFINE U == Queued \cup Rows
           F == [x \in U |-> FilesOf(x)]
<1>1. Maps(F, U, Path)
  BY FilesOfTyped DEF Maps
<1>2. ASSUME NEW s \in Seq(U) PROVE Stands(s) = Mapped(F, s)
  <2>1. \A i \in DOMAIN s : s[i] \in U
    OBVIOUS
  <2> HIDE DEF U
  <2>2. \A i \in DOMAIN s : F[s[i]] = FilesOf(s[i])
    BY <2>1
  <2> QED
    BY <2>2 DEF Stands, Mapped
<1>3. q \o r \in Seq(U)
  OBVIOUS
<1>4. Stands(q \o r) = Mapped(F, q \o r) /\ Stands(q) = Mapped(F, q) /\ Stands(r) = Mapped(F, r)
  BY <1>2, <1>3
<1> HIDE DEF F, U
<1> QED
  BY <1>1, <1>4, MappedCat DEF Pend, U

LEMMA PendOne ==
  ASSUME NEW r \in Queued \cup Rows PROVE Pend(<<r>>) = FilesOf(r)
<1>1. Stands(<<r>>) = <<FilesOf(r)>>
  BY DEF Stands
<1> QED
  BY <1>1, FilesOfTyped, FlattenOne DEF Pend

LEMMA PendNone == Pend(<<>>) = <<>>
<1>1. Stands(<<>>) = <<>>
  BY DEF Stands
<1> QED
  BY <1>1, FlattenNone DEF Pend

LEMMA FlattenSingles ==
  ASSUME NEW V, NEW s \in Seq(V) PROVE FlattenSeq([i \in DOMAIN s |-> <<s[i]>>]) = s
<1> DEFINE ss == [i \in DOMAIN s |-> <<s[i]>>]
           n  == Len(s)
           p  == [i \in 0 .. n |-> SubSeq(s, 1, i)]
           g  == Joined(ss)
           S  == {i \in 0 .. n : g[i] = p[i]}
<1>1. n \in Nat /\ DOMAIN s = 1 .. n /\ \A i \in 1 .. n : s[i] \in V
  OBVIOUS
<1>2. ss \in Seq(Seq(V)) /\ Len(ss) = n
  <2>1. \A i \in 1 .. n : <<s[i]>> \in Seq(V)
    BY <1>1
  <2>2. ss \in Seq(Seq(V)) /\ DOMAIN ss = 1 .. n
    BY <1>1, <2>1, SeqDef
  <2> HIDE DEF ss, n
  <2> QED
    BY <1>1, <2>2
<1>3. \A i \in 1 .. n : ss[i] = <<s[i]>>
  BY <1>1
<1>4. p[0] = <<>> /\ p[n] = s /\ \A i \in 1 .. n : p[i] = p[i - 1] \o <<s[i]>>
  <2>1. \A i \in 1 .. n : i \in 0 .. n /\ i - 1 \in 0 .. n
    BY <1>1
  <2>2. \A i \in 1 .. n : SubSeq(s, 1, i) = SubSeq(s, 1, i - 1) \o <<s[i]>>
    BY Prefix
  <2>3. SubSeq(s, 1, 0) = <<>> /\ SubSeq(s, 1, n) = s
    BY Prefix
  <2>4. 0 \in 0 .. n /\ n \in 0 .. n
    BY <1>1
  <2> QED
    BY <2>1, <2>2, <2>3, <2>4
<1>5. g[0] = <<>> /\ \A i \in 1 .. n : g[i] = g[i - 1] \o ss[i]
  <2> HIDE DEF ss, n
  <2> QED
    BY <1>2, JoinedStep
<1>6. FlattenSeq(ss) = g[n]
  <2> HIDE DEF ss, n
  <2> QED
    BY <1>2, FlattenIs
<1> HIDE DEF ss, n, p, g
<1>7. 0 \in S
  BY <1>1, <1>4, <1>5
<1>8. ASSUME NEW i \in 0 .. n, i \in S, i < n PROVE i + 1 \in S
  <2>1. i + 1 \in 0 .. n /\ i + 1 \in 1 .. n /\ (i + 1) - 1 = i
    BY <1>1, <1>8
  <2>2. g[i + 1] = g[i] \o ss[i + 1] /\ p[i + 1] = p[i] \o <<s[i + 1]>> /\ ss[i + 1] = <<s[i + 1]>> /\ g[i] = p[i]
    BY <1>3, <1>4, <1>5, <1>8, <2>1
  <2> QED
    BY <2>1, <2>2
<1>9. n \in S
  <2>1. n \in 0 .. n
    BY <1>1
  <2> HIDE DEF S
  <2> QED
    BY <1>1, <1>7, <1>8, <2>1, UpTo
<1> QED
  BY <1>4, <1>6, <1>9 DEF ss

\* What a directory is replaced by in the queue stands for the same files.
LEMMA FirstRowsStand ==
  ASSUME NEW r \in Queued, r.type = "directory" PROVE Pend(FirstRows(r.name)) = FilesOf(r)
<1> DEFINE md == File[r.name].md
           k  == IF Len(md) < MaxFiles THEN Len(md) ELSE MaxFiles
<1>1. r.key \in {"file", "path"} /\ r.name \in Name \cup Artifacts
  BY DEF Queued
<1>2. CASE ~IsDir(r.name)
  <2>1. FirstRows(r.name) = <<>>
    BY <1>2, ContextInjectionAssumption DEF FirstRows
  <2>2. FilesOf(r) = <<>>
    BY <1>1, <1>2 DEF FilesOf
  <2> QED
    BY <2>1, <2>2, PendNone
<1>3. CASE IsDir(r.name)
  <2>1. md \in Seq(Name) /\ r.name \in Name
    BY <1>1, <1>3, Contents DEF IsDir
  <2>2. \A i \in DOMAIN md : IsFile(md[i])
    BY <1>3, <2>1, ContextInjectionAssumption
  <2>3. FirstRows(r.name) = [i \in 1 .. k |-> Row("file", md[i], "file")]
    BY <1>3 DEF FirstRows
  <2>4. FilesOf(r) = [i \in {j \in DOMAIN md : j <= MaxFiles} |-> md[i]]
    BY <1>1, <1>3 DEF FilesOf
  <2> HIDE DEF md
  <2>5. k \in Nat /\ {j \in DOMAIN md : j <= MaxFiles} = 1 .. k /\ \A i \in 1 .. k : i \in DOMAIN md
    BY <2>1, ContextInjectionAssumption
  <2> HIDE DEF k
  <2> DEFINE s == [i \in 1 .. k |-> md[i]]
             q == [i \in 1 .. k |-> Row("file", md[i], "file")]
  <2>6. s \in Seq(Name) /\ DOMAIN s = 1 .. k
    BY <2>1, <2>5, SeqDef
  <2>7. \A i \in 1 .. k : FilesOf(q[i]) = <<s[i]>>
    BY <2>2, <2>5 DEF FilesOf, There, Row
  <2>8. Stands(q) = [i \in DOMAIN s |-> <<s[i]>>]
    BY <2>7 DEF Stands
  <2> HIDE DEF s, q
  <2>9. Pend(q) = s
    BY <2>6, <2>8, FlattenSingles DEF Pend
  <2> QED
    BY <2>3, <2>4, <2>5, <2>9 DEF s, q
<1> QED
  BY <1>2, <1>3

LEMMA ArtifactsStand ==
  Pend(ArtifactQueue) = FlattenSeq([i \in DOMAIN Artifact |-> There(Artifact[i])])
<1>1. DOMAIN ArtifactQueue = DOMAIN Artifact
  BY DEF ArtifactQueue
<1>2. \A i \in DOMAIN Artifact : FilesOf(ArtifactQueue[i]) = There(Artifact[i])
  BY DEF ArtifactQueue, FilesOf, Row
<1>3. Stands(ArtifactQueue) = [i \in DOMAIN Artifact |-> There(Artifact[i])]
  BY <1>1, <1>2 DEF Stands
<1> QED
  BY <1>3 DEF Pend

\* A manifest and the entries read of it stand for the same files.
LEMMA EntriesStand ==
  ASSUME NEW rs \in Seq(Rows), \A i \in DOMAIN rs : rs[i].key # "other"
  PROVE  Pend(Entries(rs)) = Pend(rs)
<1> DEFINE n == Len(rs)
           g == NamesOf(rs)
           p == [i \in 0 .. n |-> SubSeq(rs, 1, i)]
           S == {i \in 0 .. n : Pend(g[i]) = Pend(p[i])}
           R == Queued \cup Rows
<1>1. n \in Nat /\ \A i \in 1 .. n : rs[i] \in Rows
  OBVIOUS
<1>2. Upto(rs) = n /\ g \in [0 .. n -> Seq(Queued)] /\ Names(g, rs) /\ Entries(rs) = g[n]
  BY EntriesIs
<1>3. \A i \in 0 .. n : g[i] = IF i = 0 THEN <<>>
                             ELSE IF rs[i].key \in {"file", "path"} THEN Append(g[i - 1], rs[i]) ELSE g[i - 1]
  BY <1>2 DEF Names
<1>4. /\ p[0] = <<>> /\ p[n] = rs
      /\ \A i \in 0 .. n : p[i] \in Seq(Rows)
      /\ \A i \in 1 .. n : p[i] = p[i - 1] \o <<rs[i]>>
  <2>1. \A i \in 1 .. n : i \in 0 .. n /\ i - 1 \in 0 .. n
    BY <1>1
  <2>2. \A i \in 1 .. n : SubSeq(rs, 1, i) = SubSeq(rs, 1, i - 1) \o <<rs[i]>>
    BY Prefix
  <2>3. SubSeq(rs, 1, 0) = <<>> /\ SubSeq(rs, 1, n) = rs /\ \A i \in 0 .. n : SubSeq(rs, 1, i) \in Seq(Rows)
    BY Prefix
  <2>4. 0 \in 0 .. n /\ n \in 0 .. n
    BY <1>1
  <2> QED
    BY <2>1, <2>2, <2>3, <2>4
<1> HIDE DEF n, g, p
<1>5. 0 \in S
  BY <1>1, <1>3, <1>4
<1>6. ASSUME NEW i \in 0 .. n, i \in S, i < n PROVE i + 1 \in S
  <2> DEFINE r == rs[i + 1]
             a == g[i]
             b == p[i]
  <2>1. i + 1 \in 0 .. n /\ i + 1 \in 1 .. n /\ i + 1 # 0 /\ (i + 1) - 1 = i
    BY <1>1, <1>6
  <2>2. g[i + 1] = IF r.key \in {"file", "path"} THEN Append(a, r) ELSE a
    BY <1>3, <2>1
  <2>3. p[i + 1] = b \o <<r>> /\ Pend(a) = Pend(b) /\ a \in Seq(Queued) /\ b \in Seq(Rows) /\ r \in Rows
    BY <1>1, <1>2, <1>4, <1>6, <2>1
  <2>4. r.key \in {"file", "path"} => r \in Queued
    BY <2>3 DEF Rows, Queued
  <2> DEFINE x == g[i + 1]
             y == p[i + 1]
  <2> HIDE DEF a, b, r, x, y
  <2>5. a \in Seq(R) /\ b \in Seq(R) /\ <<r>> \in Seq(R) /\ r \in R
    BY <2>3
  <2>6. Pend(<<r>>) = FilesOf(r)
    BY <2>5, PendOne
  <2>7. Pend(b \o <<r>>) = Pend(b) \o Pend(<<r>>) /\ Pend(a \o <<r>>) = Pend(a) \o Pend(<<r>>)
    BY <2>5, PendCat
  <2>8. Pend(x) = Pend(y)
    <3>1. CASE r.key \in {"file", "path"}
      <4>1. Append(a, r) = a \o <<r>>
        BY <2>5
      <4>2. x = a \o <<r>> /\ y = b \o <<r>>
        BY <2>2, <2>3, <3>1, <4>1 DEF x, y
      <4> QED
        BY <2>3, <2>7, <4>2
    <3>2. CASE r.key \notin {"file", "path"}
      <4>1. Pend(<<r>>) = <<>>
        BY <2>6, <3>2 DEF FilesOf
      <4>2. Pend(b) \in Seq(Path)
        BY <2>5, PendTyped
      <4>3. Pend(b) \o <<>> = Pend(b)
        BY <4>2, NoneAdded
      <4>4. x = a /\ y = b \o <<r>>
        BY <2>2, <2>3, <3>2 DEF x, y
      <4> QED
        BY <2>3, <2>7, <4>1, <4>3, <4>4
    <3> QED
      BY <3>1, <3>2
  <2> QED
    BY <2>1, <2>8 DEF x, y
<1>7. n \in S
  <2>1. n \in 0 .. n
    BY <1>1
  <2> HIDE DEF S
  <2> QED
    BY <1>1, <1>5, <1>6, <2>1, UpTo
<1> QED
  BY <1>2, <1>4, <1>7 DEF n, g, p

-----------------------------------------------------------------------------
(* While the hook runs, the blocks and what is still queued stand for what *)
(* was queued at its start.                                                *)

Ordered ==
  queue # <<>> \/ blocks # <<>> =>
    NamesIn(blocks) \o Pend(queue) = Pend(Entries(rows) \o ArtifactQueue)

LEMMA QueueTyped ==
  ASSUME TypeOK
  PROVE  /\ queue \in Seq(Queued) /\ blocks \in Seq(BlockType) /\ rows \in Seq(Rows)
         /\ Entries(rows) \in Seq(Queued) /\ ArtifactQueue \in Seq(Queued)
         /\ NamesIn(blocks) \in Seq(Path)
<1>1. queue \in Seq(Queued) /\ blocks \in Seq(BlockType) /\ rows \in Seq(Rows)
  BY DEF TypeOK, Queued, BlockType
<1>2. Entries(rows) \in Seq(Queued)
  <2>1. Upto(rows) \in 0 .. Upto(rows)
    BY <1>1, EntriesIs
  <2> QED
    BY <1>1, <2>1, EntriesIs
<1>3. ArtifactQueue \in Seq(Queued)
  BY ArtifactRows DEF ArtifactQueue
<1>4. NamesIn(blocks) \in Seq(Path)
  <2>1. DOMAIN blocks = 1 .. Len(blocks) /\ Len(blocks) \in Nat /\ \A i \in DOMAIN blocks : blocks[i] \in BlockType
    BY <1>1
  <2>2. \A i \in DOMAIN blocks : blocks[i].name \in Path
    BY <2>1 DEF BlockType, Path
  <2> QED
    BY <2>1, <2>2, SeqDef DEF NamesIn
<1> QED
  BY <1>1, <1>2, <1>3, <1>4

LEMMA HeadStands ==
  ASSUME NEW q \in Seq(Queued), q # <<>>
  PROVE  /\ Head(q) \in Queued /\ Tail(q) \in Seq(Queued)
         /\ FilesOf(Head(q)) \in Seq(Path) /\ Pend(Tail(q)) \in Seq(Path)
         /\ Pend(q) = FilesOf(Head(q)) \o Pend(Tail(q))
<1> DEFINE h == <<Head(q)>>
           t == Tail(q)
<1>1. Head(q) \in Queued /\ t \in Seq(Queued) /\ q = h \o t /\ h \in Seq(Queued)
  OBVIOUS
<1>2. Pend(h) = FilesOf(Head(q)) /\ FilesOf(Head(q)) \in Seq(Path)
  BY <1>1, PendOne, FilesOfTyped
<1> HIDE DEF h, t
<1>3. h \in Seq(Queued \cup Rows) /\ t \in Seq(Queued \cup Rows)
  BY <1>1
<1>4. Pend(h \o t) = Pend(h) \o Pend(t) /\ Pend(t) \in Seq(Path)
  BY <1>3, PendCat, PendTyped
<1> QED
  BY <1>1, <1>2, <1>4 DEF t

\* One step of the hook leaves what blocks and queue stand for.
LEMMA ReadStands ==
  ASSUME TypeOK, ReadDirectory \/ ReadFile
  PROVE  queue # <<>> /\ rows' = rows /\ NamesIn(blocks') \o Pend(queue') = NamesIn(blocks) \o Pend(queue)
<1> DEFINE q == queue
           r == Head(q)
           t == Tail(q)
           a == NamesIn(blocks)
           f == FilesOf(r)
           p == Pend(t)
<1>1. queue # <<>> /\ rows' = rows
  BY DEF ReadDirectory, ReadFile
<1>2. r \in Queued /\ t \in Seq(Queued) /\ f \in Seq(Path) /\ p \in Seq(Path) /\ Pend(q) = f \o p
  BY <1>1, QueueTyped, HeadStands, SMTT(40)
<1>3. a \in Seq(Path) /\ blocks \in Seq(BlockType)
  BY QueueTyped
<1>4. CASE ReadDirectory
  <2>1. r.type = "directory" /\ blocks' = blocks
    BY <1>4 DEF ReadDirectory
  <2>2. queue' = FirstRows(r.name) \o t
    BY <1>4, ReadDirectoryIs
  <2>3. Pend(FirstRows(r.name)) = f
    BY <1>2, <2>1, FirstRowsStand
  <2>4. FirstRows(r.name) \in Seq(Queued)
    BY <1>2, FirstRowsTyped DEF Queued
  <2> DEFINE d == FirstRows(r.name)
  <2> HIDE DEF d, r, t, f
  <2>5. d \in Seq(Queued \cup Rows) /\ t \in Seq(Queued \cup Rows)
    BY <1>2, <2>4 DEF d
  <2>6. Pend(d \o t) = Pend(d) \o Pend(t)
    BY <2>5, PendCat
  <2> QED
    BY <1>1, <1>2, <2>1, <2>2, <2>3, <2>6 DEF d
<1>5. CASE ReadFile
  <2>1. r.type # "directory" /\ queue' = t
    BY <1>5 DEF ReadFile
  <2>2. f = There(r.name)
    BY <1>2, <2>1 DEF FilesOf, Queued
  <2>3. CASE ~IsFile(r.name)
    <3>1. blocks' = blocks
      BY <1>5, <2>3, ReadFileIs
    <3>2. f = <<>>
      BY <2>2, <2>3 DEF There
    <3> HIDE DEF f, p
    <3>3. f \o p = p
      BY <1>2, <3>2, NoneAdded
    <3> QED
      BY <1>1, <1>2, <2>1, <3>1, <3>3 DEF p
  <2>4. CASE IsFile(r.name)
    <3> DEFINE b == BlockOf(r.name)
               c == NamesIn(blocks')
    <3>1. blocks' = Append(blocks, b) /\ b \in BlockType
      BY <1>5, <2>4, ReadFileIs
    <3>2. r.name \in Name \cup Artifacts /\ limits \in [LimitNames -> Nat] /\ used \in Nat
      BY <1>2 DEF Queued, TypeOK
    <3>3. b.name = r.name
      BY <2>4, <3>2, BlockTyped
    <3>4. f = <<b.name>>
      BY <2>2, <2>4, <3>3 DEF There
    <3> HIDE DEF b
    <3>5. c = a \o <<b.name>>
      <4>1. b.name \in Path
        BY <3>1 DEF BlockType, Path
      <4>2. Len(blocks) \in Nat /\ DOMAIN blocks = 1 .. Len(blocks)
        BY <1>3
      <4>3. DOMAIN blocks' = 1 .. Len(blocks) + 1 /\ blocks'[Len(blocks) + 1] = b
            /\ \A i \in 1 .. Len(blocks) : blocks'[i] = blocks[i]
        BY <1>3, <3>1
      <4>4. DOMAIN a = 1 .. Len(blocks) /\ \A i \in 1 .. Len(blocks) : a[i] = blocks[i].name
        BY <4>2 DEF NamesIn
      <4>5. DOMAIN c = 1 .. Len(blocks) + 1 /\ c[Len(blocks) + 1] = b.name
            /\ \A i \in 1 .. Len(blocks) : c[i] = blocks[i].name
        BY <4>2, <4>3 DEF NamesIn
      <4> DEFINE n == Len(blocks)
                 s == <<b.name>>
      <4>6. s \in Seq(Path) /\ Len(s) = 1 /\ s[1] = b.name
        BY <4>1
      <4> HIDE DEF a, c, s, n
      <4>7. Len(a) = n /\ n \in Nat
        BY <1>3, <4>2, <4>4 DEF n
      <4>8. \A i \in 1 .. n + 1 : c[i] \in Path
        <5>1. \A i \in 1 .. n : a[i] \in Path
          BY <1>3, <4>7
        <5>2. \A i \in 1 .. n + 1 : i \in 1 .. n \/ i = n + 1
          BY <4>7
        <5> QED
          BY <4>1, <4>4, <4>5, <5>1, <5>2 DEF n
      <4>9. c \in Seq(Path) /\ Len(c) = n + 1
        <5>1. c = [i \in 1 .. n + 1 |-> c[i]]
          BY <4>5 DEF n, c, NamesIn
        <5>2. c \in [1 .. n + 1 -> Path]
          BY <4>8, <5>1
        <5>3. n + 1 \in Nat
          BY <4>7
        <5>4. c \in Seq(Path)
          BY <5>2, <5>3, SeqDef
        <5> QED
          BY <4>5, <5>3, <5>4 DEF n
      <4>10. IsCat(a, s, c)
        <5>1. Len(c) = Len(a) + Len(s) /\ \A i \in 1 .. Len(a) : c[i] = a[i]
          BY <4>4, <4>5, <4>6, <4>7, <4>9 DEF n
        <5>2. \A i \in 1 .. Len(s) : c[Len(a) + i] = s[i]
          BY <4>5, <4>6, <4>7 DEF n
        <5> QED
          BY <5>1, <5>2 DEF IsCat
      <4>11. c = a \o s
        BY <1>3, <4>6, <4>9, <4>10, CatIs, Zenon
      <4> QED
        BY <4>11 DEF s
    <3> HIDE DEF a, c, f, p
    <3>6. c \o p = a \o (f \o p)
      BY <1>2, <1>3, <3>4, <3>5, Associate
    <3> QED
      BY <1>1, <1>2, <2>1, <3>6 DEF c, a, p
  <2> QED
    BY <2>3, <2>4
<1> QED
  BY <1>4, <1>5, SMTT(40)

LEMMA OrderedStep == TypeOK /\ Ordered /\ [Next]_vars => Ordered'
<1> SUFFICES ASSUME TypeOK, Ordered, [Next]_vars PROVE Ordered'
  OBVIOUS
<1>1. CASE UNCHANGED <<rows, queue, blocks>>
  BY <1>1 DEF Ordered
<1>2. ASSUME queue = <<>>, blocks = <<>>, queue' = queue, blocks' = blocks PROVE Ordered'
  BY <1>2 DEF Ordered
<1>3. CASE Begins
  <2>1. blocks' = <<>> /\ rows' = rows /\ queue' = Entries(rows) \o ArtifactQueue
    BY <1>3 DEF Begins, ArtifactQueue
  <2>2. NamesIn(<<>>) = <<>>
    BY DEF NamesIn
  <2> DEFINE q == Entries(rows) \o ArtifactQueue
  <2>3. q \in Seq(Queued \cup Rows)
    <3>1. Entries(rows) \in Seq(Queued) /\ ArtifactQueue \in Seq(Queued)
      BY QueueTyped
    <3>2. q \in Seq(Queued)
      BY <3>1
    <3> HIDE DEF q
    <3> QED
      BY <3>2
  <2> HIDE DEF q
  <2>4. Pend(q) \in Seq(Path)
    BY <2>3, PendTyped
  <2>5. <<>> \o Pend(q) = Pend(q)
    BY <2>4, NoneAdded
  <2> QED
    BY <2>1, <2>2, <2>5 DEF Ordered, q
<1>4. CASE ReadDirectory \/ ReadFile
  BY <1>4, ReadStands DEF Ordered
<1> QED
  BY <1>1, <1>2, <1>3, <1>4 DEF Next, vars, AddContext, HandEdit, Validate

\* A manifest that task.py validate passed reaches the sub-agent completely and
\* in its order, for any rows, files and limits: whatever the budget refuses is
\* at least named (inject-subagent-context.py:292-309, 462-527).
THEOREM ValidManifestReaches == Spec => []ValidMeansComplete
<1>1. Init => TypeOK /\ Ordered
  BY TypeInit DEF Init, Ordered
<1>2. TypeOK /\ Ordered /\ [Next]_vars => (TypeOK /\ Ordered)'
  BY TypeStep, OrderedStep
<1>3. IInv /\ Ordered => ValidMeansComplete
  <2> SUFFICES ASSUME IInv, Ordered, verdict = "passed", blocks # <<>>, queue = <<>>
               PROVE  NamesIn(blocks) = Pend(rows) \o Pend(ArtifactQueue)
    BY ArtifactsStand DEF ValidMeansComplete, NamesIn, Pend, Stands
  <2>1. TypeOK /\ \A i \in DOMAIN rows : RowAccepted(rows[i])
    BY DEF IInv, Judged
  <2>2. \A i \in DOMAIN rows : rows[i].key # "other"
    BY <2>1 DEF RowAccepted
  <2>3. Pend(Entries(rows)) = Pend(rows)
    BY <2>1, <2>2, QueueTyped, EntriesStand
  <2>4. Entries(rows) \in Seq(Queued \cup Rows) /\ ArtifactQueue \in Seq(Queued \cup Rows)
    <3>1. Entries(rows) \in Seq(Queued) /\ ArtifactQueue \in Seq(Queued)
      BY <2>1, QueueTyped
    <3> DEFINE e == Entries(rows)
    <3> HIDE DEF e
    <3>2. e \in Seq(Queued \cup Rows) /\ ArtifactQueue \in Seq(Queued \cup Rows)
      BY <3>1 DEF e
    <3> QED
      BY <3>2 DEF e
  <2>5. Pend(Entries(rows) \o ArtifactQueue) = Pend(Entries(rows)) \o Pend(ArtifactQueue)
    BY <2>4, PendCat
  <2>6. NamesIn(blocks) \o <<>> = NamesIn(blocks)
    BY <2>1, QueueTyped, NoneAdded
  <2> QED
    BY <2>3, <2>5, <2>6, PendNone DEF Ordered
<1> QED
  BY <1>1, <1>2, <1>3, IInvAlways, PTL DEF Spec

-----------------------------------------------------------------------------
(* Where a text is cut.                                                    *)

\* The bytes of one character.
Char(c) == [b \in 1 .. c |-> IF b = 1 THEN c ELSE 0]

CharMap == [c \in 1 .. 4 |-> Char(c)]

LEMMA CharIs ==
  ASSUME NEW c \in 1 .. 4
  PROVE  /\ Char(c) \in Seq(0 .. 4) /\ Len(Char(c)) = c /\ Char(c)[1] = c
         /\ \A j \in 2 .. c : Char(c)[j] = 0
<1>1. Char(c) \in Seq(0 .. 4)
  BY SeqDef DEF Char
<1>2. DOMAIN Char(c) = 1 .. c /\ Char(c)[1] = c /\ \A j \in 2 .. c : Char(c)[j] = 0
  BY DEF Char
<1>3. Len(Char(c)) = c
  <2> DEFINE s == Char(c)
  <2> HIDE DEF s
  <2>1. s \in Seq(0 .. 4) /\ DOMAIN s = 1 .. c
    BY <1>1, <1>2 DEF s
  <2>2. Len(s) = c
    BY <2>1
  <2> QED
    BY <2>2 DEF s
<1> QED
  BY <1>1, <1>2, <1>3

LEMMA BytesMapped ==
  ASSUME NEW chars \in Seq(1 .. 4)
  PROVE  Bytes(chars) = FlattenSeq(Mapped(CharMap, chars))
<1>1. \A i \in DOMAIN chars : chars[i] \in 1 .. 4
  OBVIOUS
<1>2. \A i \in DOMAIN chars : CharMap[chars[i]] = Char(chars[i])
  BY <1>1 DEF CharMap
<1>3. Mapped(CharMap, chars) = [i \in DOMAIN chars |-> Char(chars[i])]
  BY <1>2 DEF Mapped
<1>4. Bytes(chars) = FlattenSeq([i \in DOMAIN chars |-> Char(chars[i])])
  BY DEF Bytes, Char
<1> QED
  BY <1>3, <1>4

LEMMA BytesCat ==
  ASSUME NEW a \in Seq(1 .. 4), NEW b \in Seq(1 .. 4)
  PROVE  Bytes(a \o b) = Bytes(a) \o Bytes(b)
<1> DEFINE U == 1 .. 4
           V == 0 .. 4
<1>1. Maps(CharMap, U, V)
  BY CharIs DEF CharMap, Maps
<1>2. a \o b \in Seq(U) /\ a \in Seq(U) /\ b \in Seq(U)
  OBVIOUS
<1>3. /\ Bytes(a \o b) = FlattenSeq(Mapped(CharMap, a \o b))
      /\ Bytes(a) = FlattenSeq(Mapped(CharMap, a)) /\ Bytes(b) = FlattenSeq(Mapped(CharMap, b))
  BY <1>2, BytesMapped
<1> HIDE DEF U, V
<1>4. FlattenSeq(Mapped(CharMap, a \o b)) = FlattenSeq(Mapped(CharMap, a)) \o FlattenSeq(Mapped(CharMap, b))
  BY <1>1, <1>2, MappedCat
<1> QED
  BY <1>2, <1>3, <1>4

LEMMA BytesOne ==
  ASSUME NEW c \in 1 .. 4 PROVE Bytes(<<c>>) = Char(c) /\ Bytes(<<>>) = <<>>
<1>1. Mapped(CharMap, <<c>>) = <<CharMap[c]>> /\ Mapped(CharMap, <<>>) = <<>>
  BY DEF Mapped
<1>2. CharMap[c] = Char(c) /\ Char(c) \in Seq(0 .. 4)
  BY CharIs DEF CharMap
<1>3. <<c>> \in Seq(1 .. 4) /\ <<>> \in Seq(1 .. 4)
  OBVIOUS
<1> QED
  BY <1>1, <1>2, <1>3, BytesMapped, FlattenOne, FlattenNone

\* The bytes of the first k characters are the first bytes of the text.
LEMMA FirstBytes ==
  ASSUME NEW chars \in Seq(1 .. 4), NEW k \in 0 .. Len(chars)
  PROVE  LET p == Bytes(SubSeq(chars, 1, k))
         IN  p \in Seq(0 .. 4) /\ Len(p) <= Len(Bytes(chars)) /\ p = SubSeq(Bytes(chars), 1, Len(p))
<1> DEFINE n == Len(chars)
           a == SubSeq(chars, 1, k)
           b == SubSeq(chars, k + 1, n)
           p == Bytes(a)
           r == Bytes(b)
           d == Bytes(chars)
<1>1. n \in Nat /\ k \in Nat /\ k <= n
  OBVIOUS
<1>2. a \in Seq(1 .. 4) /\ Len(a) = k
  BY Prefix
<1>3. b \in Seq(1 .. 4) /\ Len(b) = n - k
  <2>1. \A i \in k + 1 .. n : chars[i] \in 1 .. 4
    BY <1>1
  <2> QED
    BY <1>1, <2>1, SubSeqProperties
<1>4. (\A i \in 1 .. k : a[i] = chars[i]) /\ \A i \in 1 .. n - k : b[i] = chars[k + i]
  <2>1. \A i \in 1 .. k : a[i] = chars[i]
    BY <1>1, SubSeqProperties
  <2>2. ASSUME NEW i \in 1 .. n - k PROVE b[i] = chars[k + i]
    BY <1>1, SubSeqProperties
  <2> QED
    BY <2>1, <2>2
<1>5. chars = a \o b
  <2> HIDE DEF a, b
  <2>1. IsCat(a, b, chars)
    BY <1>1, <1>2, <1>3, <1>4 DEF IsCat
  <2> QED
    BY <1>2, <1>3, <2>1, CatIs, Zenon
<1> HIDE DEF a, b, n
<1>6. p \in Seq(0 .. 4) /\ r \in Seq(0 .. 4) /\ d = p \o r
  BY <1>2, <1>3, <1>5, BytesTyped, BytesCat
<1> HIDE DEF p, r, d
<1>7. Len(p) \in Nat /\ Len(r) \in Nat /\ Len(d) = Len(p) + Len(r) /\ d \in Seq(0 .. 4)
  BY <1>6
<1>8. \A i \in 1 .. Len(p) : d[i] = p[i] /\ p[i] \in 0 .. 4
  BY <1>6
<1>9. Len(p) <= Len(d)
  BY <1>7
<1> DEFINE q == SubSeq(d, 1, Len(p))
<1>10. q \in Seq(0 .. 4) /\ Len(q) = Len(p) /\ \A i \in 1 .. Len(p) : q[i] = d[i]
  BY <1>7, <1>8, <1>9, SubSeqProperties
<1> HIDE DEF q
<1>11. q = p
  BY <1>6, <1>8, <1>10, SeqEqual
<1> QED
  BY <1>6, <1>9, <1>11 DEF p, d, q, a

\* The k-th character: where its bytes are, and which they are.
LEMMA NextBytes ==
  ASSUME NEW chars \in Seq(1 .. 4), NEW k \in 1 .. Len(chars)
  PROVE  LET o == Len(Bytes(SubSeq(chars, 1, k - 1)))
             d == Bytes(chars)
         IN  /\ Len(Bytes(SubSeq(chars, 1, k))) = o + chars[k]
             /\ d[o + 1] = chars[k] /\ \A j \in 2 .. chars[k] : d[o + j] = 0
<1> DEFINE n == Len(chars)
           c == chars[k]
           a == SubSeq(chars, 1, k - 1)
           b == SubSeq(chars, 1, k)
           x == Char(c)
           p == Bytes(a)
           q == Bytes(b)
           d == Bytes(chars)
           o == Len(p)
<1>1. n \in Nat /\ k - 1 \in 0 .. n /\ k \in 0 .. n /\ c \in 1 .. 4
  OBVIOUS
<1>2. a \in Seq(1 .. 4) /\ b = a \o <<c>>
  BY <1>1, Prefix
<1>3. p \in Seq(0 .. 4) /\ q \in Seq(0 .. 4) /\ Len(q) <= Len(d) /\ q = SubSeq(d, 1, Len(q)) /\ d \in Seq(0 .. 4)
  BY <1>1, FirstBytes, BytesTyped
<1>4. x \in Seq(0 .. 4) /\ Len(x) = c /\ x[1] = c /\ \A j \in 2 .. c : x[j] = 0
  BY <1>1, CharIs
<1> HIDE DEF c, a, b, n
<1>5. q = p \o x
  <2>1. <<c>> \in Seq(1 .. 4)
    BY <1>1
  <2> QED
    BY <1>1, <1>2, <2>1, BytesCat, BytesOne
<1> HIDE DEF p, q, d, x
<1>6. o \in Nat /\ Len(q) = o + c /\ \A j \in 1 .. c : q[o + j] = x[j]
  BY <1>1, <1>3, <1>4, <1>5
<1>7. \A j \in 1 .. c : o + j \in 1 .. Len(q)
  BY <1>1, <1>6
<1>8. \A i \in 1 .. Len(q) : q[i] = d[i]
  <2>1. Len(q) \in Nat /\ Len(d) \in Nat
    BY <1>3
  <2> DEFINE m == Len(q)
  <2> HIDE DEF m
  <2>2. \A i \in 1 .. m : SubSeq(d, 1, m)[i] = d[i]
    BY <1>3, <2>1, SubSeqProperties DEF m
  <2> QED
    BY <1>3, <2>2 DEF m
<1>9. \A j \in 1 .. c : d[o + j] = x[j]
  BY <1>6, <1>7, <1>8
<1>10. 1 \in 1 .. c /\ \A j \in 2 .. c : j \in 1 .. c
  BY <1>1
<1>11. d[o + 1] = c /\ \A j \in 2 .. c : d[o + j] = 0
  BY <1>4, <1>9, <1>10
<1> QED
  BY <1>6, <1>11 DEF p, q, d, a, b, c

\* Where truncate_utf8 ends, when m is the last lead byte within the limit.
LEMMA TruncateAt ==
  ASSUME NEW data, NEW cap \in Nat, cap # 0, Len(data) > cap,
         NEW m \in 1 .. cap, data[m] # 0, \A i \in m + 1 .. cap : data[i] = 0
  PROVE  Truncate(data, cap) = SubSeq(data, 1, IF m - 1 + data[m] > cap THEN m - 1 ELSE m)
<1> DEFINE leads == {i \in 1 .. cap : data[i] # 0}
           last  == CHOOSE i \in leads : \A j \in leads : j <= i
<1>1. m \in leads
  OBVIOUS
<1>2. \A j \in leads : j <= m
  <2> SUFFICES ASSUME NEW j \in leads, ~(j <= m) PROVE FALSE
    OBVIOUS
  <2>1. j \in m + 1 .. cap
    OBVIOUS
  <2> QED
    BY <2>1
<1>3. \A i \in leads : i \in Int
  OBVIOUS
<1>4. last = m
  <2> HIDE DEF leads
  <2>1. last \in leads /\ \A j \in leads : j <= last
    BY <1>1, <1>2
  <2> HIDE DEF last
  <2>2. last <= m /\ m <= last
    BY <1>1, <1>2, <2>1
  <2> QED
    BY <1>3, <2>1, <2>2
<1>5. ~(cap = 0 \/ Len(data) <= cap)
  <2>1. Len(data) <= cap => FALSE
    <3> SUFFICES ASSUME Len(data) <= cap PROVE FALSE
      OBVIOUS
    <3> QED
      OBVIOUS
  <2> QED
    BY <2>1
<1>6. leads # {}
  BY <1>1
<1>7. Truncate(data, cap) = SubSeq(data, 1, IF last - 1 + data[last] > cap THEN last - 1 ELSE last)
  <2> HIDE DEF leads, last
  <2> QED
    BY <1>5, <1>6 DEF Truncate, last, leads
<1> HIDE DEF last
<1> QED
  BY <1>4, <1>7

Whole(chars, cap) ==
  CHOOSE k \in 0 .. Len(chars) :
    /\ Len(Bytes(SubSeq(chars, 1, k))) <= cap
    /\ k < Len(chars) => Len(Bytes(SubSeq(chars, 1, k + 1))) > cap

\* There is a last character that fits.
LEMMA WholeIs ==
  ASSUME NEW chars \in Seq(1 .. 4), NEW cap \in Nat
  PROVE  LET k == Whole(chars, cap)
         IN  /\ k \in 0 .. Len(chars)
             /\ Len(Bytes(SubSeq(chars, 1, k))) <= cap
             /\ k < Len(chars) => Len(Bytes(SubSeq(chars, 1, k + 1))) > cap
<1> DEFINE n == Len(chars)
           o == [k \in 0 .. n |-> Len(Bytes(SubSeq(chars, 1, k)))]
           T == {k \in 1 .. n : o[k] > cap}
<1>1. n \in Nat
  OBVIOUS
<1>2. o[0] = 0 /\ \A k \in 0 .. n : o[k] = Len(Bytes(SubSeq(chars, 1, k))) /\ o[k] \in Nat
  <2>1. ASSUME NEW k \in 0 .. n PROVE Len(Bytes(SubSeq(chars, 1, k))) \in Nat
    <3>1. Bytes(SubSeq(chars, 1, k)) \in Seq(0 .. 4)
      BY FirstBytes
    <3> QED
      BY <3>1
  <2>2. SubSeq(chars, 1, 0) = <<>> /\ 0 \in 0 .. n
    BY <1>1, Prefix
  <2>3. Bytes(<<>>) = <<>>
    <3>1. 1 \in 1 .. 4
      OBVIOUS
    <3> QED
      BY <3>1, BytesOne
  <2>4. Len(<<>>) = 0
    OBVIOUS
  <2> QED
    BY <2>1, <2>2, <2>3, <2>4
<1> HIDE DEF n, o
<1>3. \E k \in 0 .. n : o[k] <= cap /\ (k < n => o[k + 1] > cap)
  <2>1. CASE T = {}
    <3>1. n = 0 \/ n \in 1 .. n
      BY <1>1
    <3>2. o[n] <= cap /\ n \in 0 .. n /\ ~(n < n)
      BY <1>1, <1>2, <2>1, <3>1
    <3> QED
      BY <3>2
  <2>2. CASE T # {}
    <3>1. PICK m \in T : \A j \in T : m <= j
      <4>1. T \in SUBSET (1 .. n)
        OBVIOUS
      <4> HIDE DEF T
      <4> QED
        BY <1>1, <2>2, <4>1, FirstOf
    <3>2. m \in 1 .. n /\ o[m] > cap /\ m - 1 \in 0 .. n /\ (m - 1) + 1 = m
      BY <1>1, <3>1
    <3>3. o[m - 1] <= cap
      <4>1. CASE m - 1 = 0
        BY <1>2, <4>1
      <4>2. CASE m - 1 # 0
        <5>1. m - 1 \in 1 .. n /\ ~(m <= m - 1)
          BY <3>2, <4>2
        <5>2. m - 1 \notin T
          BY <3>1, <5>1
        <5> QED
          BY <1>2, <3>2, <5>1, <5>2
      <4> QED
        BY <4>1, <4>2
    <3> QED
      BY <3>2, <3>3
  <2> QED
    BY <2>1, <2>2
<1>4. PICK k \in 0 .. n : o[k] <= cap /\ (k < n => o[k + 1] > cap)
  BY <1>3
<1>5. k < n => k + 1 \in 0 .. n
  BY <1>1
<1>6. \E w \in 0 .. Len(chars) : /\ Len(Bytes(SubSeq(chars, 1, w))) <= cap
                                 /\ w < Len(chars) => Len(Bytes(SubSeq(chars, 1, w + 1))) > cap
  BY <1>2, <1>4, <1>5 DEF n
<1> QED
  BY <1>6 DEF Whole

LEMMA FirstOfFirst ==
  ASSUME NEW W, NEW s \in Seq(W), NEW n \in 0 .. Len(s), NEW m \in 0 .. n
  PROVE  SubSeq(SubSeq(s, 1, n), 1, m) = SubSeq(s, 1, m)
<1> DEFINE a == SubSeq(s, 1, n)
           b == SubSeq(a, 1, m)
           c == SubSeq(s, 1, m)
<1>1. Len(s) \in Nat /\ m \in 0 .. Len(s)
  OBVIOUS
<1>2. a \in Seq(W) /\ Len(a) = n /\ c \in Seq(W) /\ Len(c) = m
  BY <1>1, Prefix
<1>3. (\A i \in 1 .. n : a[i] = s[i]) /\ \A i \in 1 .. m : c[i] = s[i]
  BY <1>1, SubSeqProperties
<1> HIDE DEF a, c
<1>4. b \in Seq(W) /\ Len(b) = m
  BY <1>2, Prefix
<1>5. \A i \in 1 .. m : b[i] = a[i]
  BY <1>1, <1>2, SubSeqProperties
<1> HIDE DEF b
<1>6. ASSUME NEW i \in 1 .. m PROVE b[i] = c[i]
  <2>1. i \in 1 .. n
    BY <1>1
  <2> QED
    BY <1>3, <1>5, <2>1
<1>7. b = c
  <2>1. Len(b) = Len(c) /\ \A i \in 1 .. Len(b) : b[i] = c[i]
    BY <1>2, <1>4, <1>6
  <2> QED
    BY <1>2, <1>4, <2>1, SeqEqual
<1> QED
  BY <1>7 DEF a, b, c

\* truncate_utf8 keeps the characters that fit, but of one that ends right at
\* the limit only the first byte.
LEMMA CutIs ==
  ASSUME NEW chars \in Seq(1 .. 4), NEW cap \in Nat
  PROVE  LET whole == Whole(chars, cap)
             fits  == Bytes(SubSeq(chars, 1, whole))
             lone  == whole > 0 /\ Len(fits) = cap /\ whole < Len(chars) /\ chars[whole] > 1
         IN  Truncate(Bytes(chars), cap) =
               IF cap = 0 THEN Bytes(chars)
               ELSE SubSeq(fits, 1, Len(fits) - IF lone THEN chars[whole] - 1 ELSE 0)
<1> DEFINE n    == Len(chars)
           d    == Bytes(chars)
           w    == Whole(chars, cap)
           f    == Bytes(SubSeq(chars, 1, w))
           o    == Len(f)
           lone == w > 0 /\ o = cap /\ w < n /\ chars[w] > 1
           goal == Truncate(d, cap) =
                     IF cap = 0 THEN d ELSE SubSeq(f, 1, o - IF lone THEN chars[w] - 1 ELSE 0)
<1>1. /\ n \in Nat /\ w \in 0 .. n /\ o <= cap
      /\ w < n => Len(Bytes(SubSeq(chars, 1, w + 1))) > cap
  BY WholeIs
<1>2. d \in Seq(0 .. 4) /\ f \in Seq(0 .. 4) /\ o <= Len(d) /\ f = SubSeq(d, 1, o)
  BY <1>1, FirstBytes, BytesTyped
<1>3. w = n => f = d
  BY Prefix
<1>4. ASSUME w < n
      PROVE  /\ chars[w + 1] \in 1 .. 4 /\ o + chars[w + 1] > cap /\ o + chars[w + 1] <= Len(d)
             /\ d[o + 1] = chars[w + 1] /\ \A j \in 2 .. chars[w + 1] : d[o + j] = 0
  <2>1. w + 1 \in 1 .. n /\ w + 1 \in 0 .. n /\ (w + 1) - 1 = w
    BY <1>1, <1>4
  <2> DEFINE v == w + 1
             u == v - 1
             b == Bytes(SubSeq(chars, 1, v))
  <2>2. v \in 1 .. n /\ v \in 0 .. n /\ u = w
    BY <2>1
  <2>3. Len(b) > cap
    BY <1>1, <1>4
  <2> HIDE DEF w, v
  <2>4. /\ Len(b) = Len(Bytes(SubSeq(chars, 1, u))) + chars[v]
        /\ d[Len(Bytes(SubSeq(chars, 1, u))) + 1] = chars[v]
        /\ \A j \in 2 .. chars[v] : d[Len(Bytes(SubSeq(chars, 1, u))) + j] = 0
    BY <2>2, NextBytes
  <2>5. Len(b) <= Len(d)
    BY <2>2, FirstBytes
  <2>6. chars[v] \in 1 .. 4
    BY <2>2
  <2>7. Len(b) = o + chars[v] /\ d[o + 1] = chars[v] /\ \A j \in 2 .. chars[v] : d[o + j] = 0
    <3> HIDE DEF u
    <3> QED
      BY <2>2, <2>4
  <2> HIDE DEF b, o, d
  <2> QED
    BY <2>3, <2>5, <2>6, <2>7 DEF v
<1>5. ASSUME w # 0
      PROVE  \E p \in Nat : /\ chars[w] \in 1 .. 4 /\ o = p + chars[w]
                            /\ d[p + 1] = chars[w] /\ \A j \in 2 .. chars[w] : d[p + j] = 0
  <2>1. w \in 1 .. n /\ w - 1 \in 0 .. n
    BY <1>1, <1>5
  <2> DEFINE p == Len(Bytes(SubSeq(chars, 1, w - 1)))
  <2>2. p \in Nat
    <3>1. Bytes(SubSeq(chars, 1, w - 1)) \in Seq(0 .. 4)
      BY <2>1, FirstBytes
    <3> QED
      BY <3>1
  <2> HIDE DEF w
  <2>3. o = p + chars[w] /\ d[p + 1] = chars[w] /\ \A j \in 2 .. chars[w] : d[p + j] = 0
    BY <2>1, NextBytes
  <2>4. chars[w] \in 1 .. 4
    BY <2>1
  <2> HIDE DEF p, o, d
  <2> QED
    BY <2>2, <2>3, <2>4
<1>6. w = 0 => o = 0
  <2>1. 1 \in 1 .. 4 /\ Len(<<>>) = 0
    OBVIOUS
  <2> QED
    BY <2>1, Prefix, BytesOne
<1>7. Len(d) \in Nat /\ o \in Nat
  BY <1>2
<1> SUFFICES goal
  OBVIOUS
<1> HIDE DEF n, d, w, f, o
<1>8. CASE cap = 0
  BY <1>8 DEF Truncate
<1>9. CASE cap # 0 /\ Len(d) <= cap
  <2>1. w = n
    BY <1>1, <1>4, <1>7, <1>9
  <2>2. ~lone /\ f = d /\ o = Len(d)
    BY <1>1, <1>3, <2>1 DEF o
  <2>3. Truncate(d, cap) = d
    BY <1>9 DEF Truncate
  <2>4. SubSeq(d, 1, Len(d)) = d
    BY <1>2, Prefix
  <2>5. o - 0 = Len(d)
    BY <1>7, <2>2
  <2> QED
    BY <1>9, <2>2, <2>3, <2>4, <2>5
<1>10. CASE cap # 0 /\ ~(Len(d) <= cap)
  <2>1. w < n /\ Len(d) > cap
    <3>1. w # n
      BY <1>1, <1>3, <1>7, <1>10 DEF o
    <3> QED
      BY <1>1, <1>7, <1>10, <3>1
  <2>2. CASE o < cap
    <3> DEFINE m == o + 1
    <3>1. m \in 1 .. cap /\ m - 1 = o /\ ~lone /\ o - 0 = o /\ o \in 0 .. Len(d)
      BY <1>2, <1>7, <2>2
    <3>2. d[m] # 0 /\ m - 1 + d[m] > cap
      BY <1>4, <1>7, <2>1
    <3>3. ASSUME NEW i \in m + 1 .. cap PROVE d[i] = 0
      <4>1. i - o \in 2 .. chars[w + 1] /\ o + (i - o) = i
        BY <1>4, <1>7, <2>1
      <4> QED
        BY <1>4, <2>1, <4>1
    <3> HIDE DEF m, lone
    <3>4. Truncate(d, cap) = SubSeq(d, 1, m - 1)
      BY <1>10, <2>1, <3>1, <3>2, <3>3, TruncateAt
    <3>5. SubSeq(f, 1, o) = f
      BY <1>2, Prefix DEF o
    <3> QED
      BY <1>2, <1>10, <3>1, <3>4, <3>5
  <2>3. CASE ~(o < cap)
    <3>1. o = cap /\ w # 0
      BY <1>1, <1>6, <1>7, <1>10, <2>3
    <3>2. PICK p \in Nat : /\ chars[w] \in 1 .. 4 /\ o = p + chars[w]
                           /\ d[p + 1] = chars[w] /\ \A j \in 2 .. chars[w] : d[p + j] = 0
      BY <1>5, <3>1
    <3> DEFINE m == p + 1
    <3>3. m \in 1 .. cap /\ m \in 0 .. o /\ o \in 0 .. Len(d)
      BY <1>2, <1>7, <3>1, <3>2
    <3>4. d[m] # 0 /\ ~(m - 1 + d[m] > cap)
      BY <3>1, <3>2
    <3>5. ASSUME NEW i \in m + 1 .. cap PROVE d[i] = 0
      <4>1. i - p \in 2 .. chars[w] /\ p + (i - p) = i
        BY <3>1, <3>2
      <4> QED
        BY <3>2, <4>1
    <3>6. o - (IF lone THEN chars[w] - 1 ELSE 0) = m
      <4>1. lone <=> chars[w] > 1
        BY <1>1, <2>1, <3>1
      <4> HIDE DEF lone
      <4> QED
        BY <3>2, <4>1
    <3> HIDE DEF m, lone
    <3>7. Truncate(d, cap) = SubSeq(d, 1, m)
      BY <1>10, <2>1, <3>3, <3>4, <3>5, TruncateAt
    <3>8. SubSeq(f, 1, m) = SubSeq(d, 1, m)
      BY <1>2, <3>3, FirstOfFirst
    <3> QED
      BY <1>10, <3>6, <3>7, <3>8
  <2> QED
    BY <2>2, <2>3
<1> QED
  BY <1>8, <1>9, <1>10

\* A manifest that task.py validate passed reaches the sub-agent as a whole, and
\* what is cut of it is cut between characters, but for the lone lead byte of a
\* character that ends right at the limit, for any files, rows and limits.
THEOREM ContextComplete == Spec => []InjectionComplete
<1>1. IInv => CutAtCharacter
  <2> SUFFICES ASSUME IInv PROVE CutAtCharacter
    OBVIOUS
  <2>1. limits.max_file_bytes \in Nat
    BY DEF IInv, TypeOK, LimitNames
  <2>2. \A n \in Name : File[n].kind = "text" => File[n].chars \in Seq(1 .. 4)
    BY Contents
  <2> QED
    BY <2>1, <2>2, CutIs DEF CutAtCharacter, Whole
<1>2. IInv => TypeOK
  BY DEF IInv
<1> QED
  BY <1>1, <1>2, IInvAlways, ValidManifestReaches, CutsAreAnnounced, PTL DEF InjectionComplete

-----------------------------------------------------------------------------
(* LinearSync. A task could get a second issue only when a command read    *)
(* task.json without the first one in it. So the invariant follows an      *)
(* issue from the call that creates it to the file, and says that nobody   *)
(* else writes the file meanwhile, unless a command failed or overlapped   *)
(* another.                                                                *)

Statuses == {"planning", "in_progress", "completed"}
Places   == {"none", "tasks", "archive"}
Json     == [place : Places, status : Statuses, issue : Nat, whole : BOOLEAN]
Calls    == [cmd : {"none", "create", "start", "archive"}, task : Task \cup {NoTask},
             at : {"idle", "flip", "complete", "move", "read", "call", "write", "fill"},
             place : Places, held : Json \cup {NoTask}, ticket : Nat]
Issues   == [of : Task, parent : Nat, state : {"new", "In Progress", "Done"}]

\* Every variable has its type.
LinearType ==
  /\ task \in [Task -> Json]
  /\ issue \in Seq(Issues)
  /\ proc \in [Process -> Calls]
  /\ oddity \in [Task -> SUBSET {"failed", "overlap", "by hand", "restart"}]

\* A process without a task is idle; the task of a command exists, and the
\* command holds a task.json whenever it is about to write one.
Shaped(p) ==
  /\ proc[p].task = NoTask => proc[p] = Idle
  /\ proc[p].task \in Task => task[proc[p].task].place # "none"
  /\ proc[p].at \in {"flip", "complete", "write", "fill"} =>
       proc[p].held \in Json /\ proc[p].held.place # "none"
  /\ proc[p].cmd = "create" /\ proc[p].at = "call" =>
       proc[p].held \in Json /\ proc[p].held.place # "none"
  /\ proc[p].cmd = "create" /\ proc[p].at \in {"call", "write", "fill"} => proc[p].held.whole
  /\ proc[p].at \in {"write", "fill"} => proc[p].cmd = "create"
CommandShape == \A p \in Process : Shaped(p)

\* i is an issue of t.
IssueOf(i, t)  == i \in 1 .. Len(issue) /\ issue[i].of = t
IssueOfNext(i, t) == i \in 1 .. Len(issue') /\ issue'[i].of = t

\* An issue number, on disk, in a command or as a parent, is one of the task
\* it is kept for.
NumbersOnDisk == \A t \in Task : task[t].issue # NoIssue => IssueOf(task[t].issue, t)
NumbersHeld(p) ==
  /\ proc[p].at \in {"flip", "complete"} /\ proc[p].held.issue # NoIssue =>
       IssueOf(proc[p].held.issue, proc[p].task)
  /\ proc[p].at \in {"write", "fill"} => IssueOf(proc[p].ticket, proc[p].task)
  /\ proc[p].cmd \in {"start", "archive"} /\ proc[p].at = "call" => IssueOf(proc[p].ticket, proc[p].task)
  /\ proc[p].cmd = "create" /\ proc[p].at = "call" /\ proc[p].ticket # NoIssue =>
       IssueOf(proc[p].ticket, Parent[proc[p].task])
IssuesSound ==
  \A i \in 1 .. Len(issue) :
    /\ task[issue[i].of].place # "none"
    /\ issue[i].parent # NoIssue => IssueOf(issue[i].parent, Parent[issue[i].of])

\* A task on which no command failed or overlapped another.
Quiet(t) == oddity[t] \cap {"failed", "overlap"} = {}

\* At most one command is on t, what it holds is what is on disk, and it is not
\* about to create a second issue; the issue of t is on disk or about to be.
Alone(t) == \A p, q \in Process : proc[p].task = t /\ proc[q].task = t => p = q
InStep(p, t) ==
  /\ proc[p].place = task[t].place
  /\ proc[p].at \in {"flip", "complete"} => proc[p].held = task[t]
  /\ proc[p].at = "fill" => ~task[t].whole
  /\ proc[p].cmd = "create" /\ proc[p].at = "call" => \A i \in 1 .. Len(issue) : ~IssueOf(i, t)
Single(t) == \A i, j \in 1 .. Len(issue) : IssueOf(i, t) /\ IssueOf(j, t) => i = j
OnDisk(i, t) ==
  \/ task[t].issue = i
  \/ \E p \in Process : /\ proc[p].task = t /\ proc[p].at \in {"write", "fill"}
                        /\ proc[p].ticket = i
Tidy(t) ==
  /\ Alone(t)
  /\ \A p \in Process : proc[p].task = t => InStep(p, t)
  /\ Single(t)
  /\ \A i \in 1 .. Len(issue) : IssueOf(i, t) => OnDisk(i, t)
QuietIsTidy == \A t \in Task : Quiet(t) => Tidy(t)

LinearInv ==
  /\ LinearType
  /\ CommandShape
  /\ NumbersOnDisk /\ (\A p \in Process : NumbersHeld(p)) /\ IssuesSound
  /\ QuietIsTidy

-----------------------------------------------------------------------------
USE DEF NoIssue

LEMMA InitIInv == LInit => LinearInv
<1> SUFFICES ASSUME LInit PROVE LinearInv
  OBVIOUS
<1> USE LinearSyncAssumption DEF LInit, Unborn, Idle
<1>1. LinearType
  BY DEF LinearType, Json, Calls, Statuses, Places
<1>2. CommandShape
  BY DEF CommandShape, Shaped
<1>3. NumbersOnDisk /\ (\A p \in Process : NumbersHeld(p)) /\ IssuesSound
  BY DEF NumbersOnDisk, NumbersHeld, IssuesSound, IssueOf
<1>4. QuietIsTidy
  BY DEF QuietIsTidy, Tidy, Alone, InStep, Single, IssueOf
<1> QED
  BY <1>1, <1>2, <1>3, <1>4 DEF LinearInv

\* A step is of a process with a task.
LEMMA StepOfTask ==
  ASSUME LinearType, CommandShape, NEW p \in Process, Steps(p)
  PROVE  proc[p].task \in Task /\ proc[p] \in Calls
<1>1. proc[p] \in Calls
  BY DEF LinearType
<1>2. ASSUME proc[p].task = NoTask PROVE FALSE
  <2>1. proc[p] = Idle
    BY <1>2 DEF CommandShape, Shaped
  <2> QED
    BY <1>2, <2>1 DEF Idle, Steps, StartFlip, ArchiveComplete, ArchiveMove, CreateRead,
         CreateCall, CreateOpen, CreateFill, UpdateRead, UpdateCall, Fail
<1> QED
  BY <1>1, <1>2 DEF Calls

\* How a command begins.
Begun(cmd, t, at, place, held) ==
  [Idle EXCEPT !.cmd = cmd, !.task = t, !.at = at, !.place = place, !.held = held]

LEMMA BegunFields ==
  ASSUME NEW cmd, NEW t, NEW at, NEW place, NEW held
  PROVE  LET c == Begun(cmd, t, at, place, held)
         IN  c.cmd = cmd /\ c.task = t /\ c.at = at /\ c.place = place /\ c.held = held /\ c.ticket = 0
BY DEF Begun, Idle

LEMMA BegunType ==
  ASSUME NEW cmd \in {"create", "start", "archive"}, NEW t \in Task, NEW at \in {"read", "flip", "complete"},
         NEW place \in Places, NEW held \in Json \cup {NoTask}
  PROVE  Begun(cmd, t, at, place, held) \in Calls
BY DEF Begun, Idle, Calls, Places

LEMMA BeginIs ==
  ASSUME NEW p, NEW cmd, NEW t, NEW at, NEW place, NEW held, NEW also, Begin(p, cmd, t, at, place, held, also)
  PROVE  proc' = [proc EXCEPT ![p] = Begun(cmd, t, at, place, held)]
BY DEF Begin, Begun

LEMMA FunctionIsSeq ==
  ASSUME NEW S, NEW n \in Nat, NEW f \in [1 .. n -> S]
  PROVE  f \in Seq(S) /\ Len(f) = n
<1>1. \A i \in 1 .. n : f[i] \in S
  OBVIOUS
<1>2. f = [i \in 1 .. n |-> f[i]]
  OBVIOUS
<1>3. [i \in 1 .. n |-> f[i]] \in Seq(S) /\ Len([i \in 1 .. n |-> f[i]]) = n
  BY <1>1
<1> QED
  BY <1>2, <1>3

\* An update changes the state of the issue of the task.
LEMMA UpdateOfIssue ==
  ASSUME LinearType, NEW p \in Process, NumbersHeld(p), UpdateCall(p)
  PROVE  /\ IssueOf(proc[p].ticket, proc[p].task)
         /\ issue' \in Seq(Issues) /\ Len(issue') = Len(issue)
         /\ \A i \in 1 .. Len(issue) : issue'[i].of = issue[i].of /\ issue'[i].parent = issue[i].parent
<1> DEFINE k == proc[p].ticket
<1>1. PICK s \in {"In Progress", "Done"} : issue' = [issue EXCEPT ![k].state = s]
  BY DEF UpdateCall
<1> DEFINE e == [issue[k] EXCEPT !.state = s]
<1>2. IssueOf(k, proc[p].task)
  BY DEF UpdateCall, NumbersHeld
<1>3. issue \in Seq(Issues) /\ k \in 1 .. Len(issue)
  BY <1>2 DEF IssueOf, LinearType
<1>4. issue[k] \in Issues
  BY <1>3, ElementOfSeq
<1>5. e \in Issues /\ e.of = issue[k].of /\ e.parent = issue[k].parent
  BY <1>4 DEF Issues
<1>6. issue' = [issue EXCEPT ![k] = e]
  BY <1>1
<1> HIDE DEF e, k
<1>7. issue \in [1 .. Len(issue) -> Issues] /\ Len(issue) \in Nat
  BY <1>3, LenProperties
<1>8. issue' \in [1 .. Len(issue) -> Issues]
  BY <1>5, <1>6, <1>7
<1>9. issue' \in Seq(Issues) /\ Len(issue') = Len(issue)
  BY <1>7, <1>8, FunctionIsSeq
<1> QED
  BY <1>2, <1>3, <1>5, <1>6, <1>7, <1>9 DEF k

LEMMA LinearTypeStep == LinearInv /\ [LNext]_lvars => LinearType'
<1> SUFFICES ASSUME LinearInv, [LNext]_lvars PROVE LinearType'
  OBVIOUS
<1> USE LinearSyncAssumption
<1>0. LinearType /\ CommandShape /\ \A p \in Process : NumbersHeld(p)
  BY DEF LinearInv
<1>1. ASSUME NEW p \in Process, NEW t \in Task, Create(p, t) PROVE LinearType'
  <2>1. task' \in [Task -> Json] /\ issue' = issue
    BY <1>0, <1>1 DEF Create, LinearType, Unborn, Json, Statuses, Places
  <2> DEFINE new == Begun("create", t, "read", "tasks", NoTask)
  <2>2. new \in Calls
    BY <2>1, BegunType DEF Json, Places
  <2>3. proc' = [proc EXCEPT ![p] = new]
    BY <1>1, BeginIs DEF Create
  <2>4. PICK what \in SUBSET {"overlap", "by hand", "restart"} :
          oddity' = [oddity EXCEPT ![t] = @ \cup what]
    BY <1>1 DEF Create, Begin, Oddly
  <2> HIDE DEF new
  <2> QED
    BY <1>0, <1>1, <2>1, <2>2, <2>3, <2>4 DEF Create, LinearType
<1>2. ASSUME NEW p \in Process, NEW t \in Task, Start(p, t) PROVE LinearType'
  <2>1. task[t] \in Json
    BY <1>0 DEF LinearType
  <2> DEFINE new == Begun("start", t, "flip", task[t].place, task[t])
  <2>2. new \in Calls
    BY <2>1, BegunType DEF Json, Places
  <2>3. proc' = [proc EXCEPT ![p] = new]
    BY <1>2, BeginIs DEF Start
  <2>4. PICK what \in SUBSET {"overlap", "by hand", "restart"} :
          oddity' = [oddity EXCEPT ![t] = @ \cup what]
    BY <1>2 DEF Start, Begin, Oddly
  <2> HIDE DEF new
  <2> QED
    BY <1>0, <1>2, <2>1, <2>2, <2>3, <2>4 DEF Start, LinearType
<1>3. ASSUME NEW p \in Process, NEW t \in Task, Archive(p, t) PROVE LinearType'
  <2>1. task[t] \in Json
    BY <1>0 DEF LinearType
  <2> DEFINE new == Begun("archive", t, "complete", "tasks", task[t])
  <2>2. new \in Calls
    BY <2>1, BegunType DEF Json, Places
  <2>3. proc' = [proc EXCEPT ![p] = new]
    BY <1>3, BeginIs DEF Archive
  <2>4. PICK what \in SUBSET {"overlap", "by hand", "restart"} :
          oddity' = [oddity EXCEPT ![t] = @ \cup what]
    BY <1>3 DEF Archive, Begin, Oddly
  <2> HIDE DEF new
  <2> QED
    BY <1>0, <1>3, <2>1, <2>2, <2>3, <2>4 DEF Archive, LinearType
<1>4. ASSUME NEW p \in Process, NEW t \in Task, RunCreate(p, t) PROVE LinearType'
  <2>1. task[t] \in Json
    BY <1>0 DEF LinearType
  <2> DEFINE new == Begun("create", t, "read", "tasks", NoTask)
  <2>2. new \in Calls
    BY <2>1, BegunType DEF Json, Places
  <2>3. proc' = [proc EXCEPT ![p] = new]
    BY <1>4 DEF RunCreate, Begin, Begun
  <2>4. PICK what \in SUBSET {"overlap", "by hand", "restart"} :
          oddity' = [oddity EXCEPT ![t] = @ \cup what]
    <3> DEFINE it == {"by hand"} \cup IF Busy(t) # {} THEN {"overlap"} ELSE {}
    <3>1. it \in SUBSET {"overlap", "by hand", "restart"}
      OBVIOUS
    <3>2. oddity' = [oddity EXCEPT ![t] = @ \cup it]
      BY <1>4 DEF RunCreate, Begin, Oddly
    <3> QED
      BY <3>1, <3>2
  <2> HIDE DEF new
  <2> QED
    BY <1>0, <1>4, <2>1, <2>2, <2>3, <2>4 DEF RunCreate, LinearType
<1>6. ASSUME NEW p \in Process, Steps(p) PROVE proc[p].task \in Task /\ proc[p] \in Calls
  BY <1>0, <1>6, StepOfTask
<1>7. ASSUME NEW p \in Process, StartFlip(p) PROVE LinearType'
  <2>1. proc[p].task \in Task /\ proc[p] \in Calls /\ proc[p].held \in Json
    BY <1>0, <1>6, <1>7 DEF Steps, StartFlip, CommandShape, Shaped
  <2> QED
    BY <1>0, <1>7, <2>1 DEF StartFlip, Goes, LinearType, Calls, Json, Statuses
<1>8. ASSUME NEW p \in Process, ArchiveComplete(p) PROVE LinearType'
  <2>1. proc[p].task \in Task /\ proc[p] \in Calls /\ proc[p].held \in Json
    BY <1>0, <1>6, <1>8 DEF Steps, ArchiveComplete, CommandShape, Shaped
  <2> QED
    BY <1>0, <1>8, <2>1 DEF ArchiveComplete, Goes, LinearType, Calls, Json, Statuses
<1>9. ASSUME NEW p \in Process, ArchiveMove(p) PROVE LinearType'
  <2>1. proc[p].task \in Task /\ proc[p] \in Calls /\ task[proc[p].task] \in Json
    BY <1>0, <1>6, <1>9 DEF Steps, LinearType
  <2>2. Idle \in Calls
    BY DEF Idle, Calls, Places
  <2>3. proc' \in [Process -> Calls]
    <3>1. CASE proc' = [proc EXCEPT ![p].at = "read", ![p].place = "archive"]
      BY <1>0, <2>1, <3>1 DEF LinearType, Calls, Places
    <3>2. CASE Ends(p)
      BY <1>0, <2>2, <3>2 DEF Ends, LinearType
    <3> QED
      BY <1>9, <3>1, <3>2 DEF ArchiveMove
  <2>4. task' \in [Task -> Json]
    <3>1. CASE task' = [task EXCEPT ![proc[p].task].place = "archive"]
      BY <1>0, <2>1, <3>1 DEF LinearType, Json, Places
    <3> QED
      BY <1>0, <1>9, <3>1 DEF ArchiveMove, LinearType
  <2> QED
    BY <1>0, <1>9, <2>3, <2>4 DEF ArchiveMove, LinearType
<1>10. ASSUME NEW p \in Process, CreateRead(p) PROVE LinearType'
  <2>1. proc[p].task \in Task /\ proc[p] \in Calls
    BY <1>6, <1>10 DEF Steps
  <2>2. ParentIssue(p) \in Nat /\ task[proc[p].task] \in Json
    BY <1>0, <2>1 DEF ParentIssue, LinearType, Json
  <2>3. Idle \in Calls
    BY DEF Idle, Calls, Places
  <2>4. proc' \in [Process -> Calls]
    <3>1. CASE proc' = [proc EXCEPT ![p].at = "call", ![p].held = task[proc[p].task],
                               ![p].ticket = ParentIssue(p)]
      BY <1>0, <2>1, <2>2, <3>1 DEF LinearType, Calls
    <3>2. CASE Ends(p)
      BY <1>0, <2>3, <3>2 DEF Ends, LinearType
    <3> QED
      BY <1>10, <3>1, <3>2 DEF CreateRead
  <2> QED
    BY <1>0, <1>10, <2>4 DEF CreateRead, LinearType
<1>11. ASSUME NEW p \in Process, CreateCall(p) PROVE LinearType'
  <2>1. proc[p].task \in Task /\ proc[p] \in Calls
    BY <1>6, <1>11 DEF Steps
  <2>2. [of |-> proc[p].task, parent |-> proc[p].ticket, state |-> "new"] \in Issues
    BY <2>1 DEF Issues, Calls
  <2>3. issue \in Seq(Issues)
    BY <1>0 DEF LinearType
  <2>4. issue' \in Seq(Issues) /\ Len(issue) + 1 \in Nat
    BY <1>11, <2>2, <2>3 DEF CreateCall
  <2> QED
    BY <1>0, <1>11, <2>1, <2>3, <2>4 DEF CreateCall, LinearType, Calls
<1>12. ASSUME NEW p \in Process, CreateOpen(p) PROVE LinearType'
  <2>1. proc[p].task \in Task /\ proc[p] \in Calls /\ task[proc[p].task] \in Json
    BY <1>0, <1>6, <1>12 DEF Steps, LinearType
  <2>2. Idle \in Calls
    BY DEF Idle, Calls, Places
  <2>3. proc' \in [Process -> Calls]
    <3>1. CASE proc' = [proc EXCEPT ![p].at = "fill"]
      BY <1>0, <2>1, <3>1 DEF LinearType, Calls, Places
    <3>2. CASE Ends(p)
      BY <1>0, <2>2, <3>2 DEF Ends, LinearType
    <3> QED
      BY <1>12, <3>1, <3>2 DEF CreateOpen, Goes
  <2>4. task' \in [Task -> Json]
    <3>1. CASE task' = [task EXCEPT ![proc[p].task].whole = FALSE]
      BY <1>0, <2>1, <3>1 DEF LinearType, Json, Places
    <3> QED
      BY <1>0, <1>12, <3>1 DEF CreateOpen, LinearType
  <2> QED
    BY <1>0, <1>12, <2>3, <2>4 DEF CreateOpen, LinearType
<1>13. ASSUME NEW p \in Process, CreateFill(p) PROVE LinearType'
  <2>1. proc[p].task \in Task /\ proc[p] \in Calls /\ proc[p].held \in Json
    BY <1>0, <1>6, <1>13 DEF Steps, CreateFill, CommandShape, Shaped
  <2> QED
    BY <1>0, <1>13, <2>1 DEF CreateFill, Ends, Idle, LinearType, Calls, Places, Json
<1>14. ASSUME NEW p \in Process, UpdateRead(p) PROVE LinearType'
  <2>1. proc[p].task \in Task /\ proc[p] \in Calls /\ task[proc[p].task].issue \in Nat
    BY <1>0, <1>6, <1>14 DEF Steps, LinearType, Json
  <2>2. Idle \in Calls
    BY DEF Idle, Calls, Places
  <2>3. proc' \in [Process -> Calls]
    <3>1. CASE proc' = [proc EXCEPT ![p].at = "call", ![p].ticket = task[proc[p].task].issue]
      BY <1>0, <2>1, <3>1 DEF LinearType, Calls
    <3>2. CASE Ends(p)
      BY <1>0, <2>2, <3>2 DEF Ends, LinearType
    <3> QED
      BY <1>14, <3>1, <3>2 DEF UpdateRead
  <2> QED
    BY <1>0, <1>14, <2>3 DEF UpdateRead, LinearType
<1>15. ASSUME NEW p \in Process, UpdateCall(p) PROVE LinearType'
  <2>1. proc[p].task \in Task /\ proc[p] \in Calls
    BY <1>6, <1>15 DEF Steps
  <2>2. issue' \in Seq(Issues)
    BY <1>0, <1>15, UpdateOfIssue
  <2> QED
    BY <1>0, <1>15, <2>1, <2>2 DEF UpdateCall, Ends, Idle, LinearType, Calls, Places
<1>16. ASSUME NEW p \in Process, Fail(p) PROVE LinearType'
  <2>1. proc[p].task \in Task
    BY <1>6, <1>16 DEF Steps
  <2> QED
    BY <1>0, <1>16, <2>1 DEF Fail, Ends, Oddly, Idle, LinearType, Calls, Places
<1>17. CASE UNCHANGED lvars
  BY <1>0, <1>17 DEF lvars, LinearType
<1> QED
  BY <1>1, <1>2, <1>3, <1>4, <1>7, <1>8, <1>9, <1>10, <1>11, <1>12, <1>13, <1>14, <1>15, <1>16, <1>17
     DEF LNext, Commands, Steps

-----------------------------------------------------------------------------
(* What any step leaves alone.                                             *)

Acts(p) == Commands(p) \/ Steps(p)

\* A step changes the command of one process only.
LEMMA OthersStay ==
  ASSUME LinearType, NEW p \in Process, Acts(p), NEW q \in Process, q # p
  PROVE  proc'[q] = proc[q]
BY DEF LinearType, Acts, Commands, Steps, Create, Start, Archive, RunCreate, Begin, Goes, Ends,
   StartFlip, ArchiveComplete, ArchiveMove, CreateRead, CreateCall, CreateOpen, CreateFill,
   UpdateRead, UpdateCall, Fail

\* Issues are appended, and keep their task and parent.
LEMMA IssuesStay ==
  ASSUME LinearType, LinearType', NEW p \in Process, NumbersHeld(p), Acts(p)
  PROVE  /\ Len(issue) \in Nat /\ Len(issue') \in Nat
         /\ \/ Len(issue') = Len(issue)
            \/ /\ CreateCall(p) /\ Len(issue') = Len(issue) + 1
               /\ issue'[Len(issue) + 1].of = proc[p].task
               /\ issue'[Len(issue) + 1].parent = proc[p].ticket
         /\ \A i \in 1 .. Len(issue) : /\ issue'[i].of = issue[i].of
                                       /\ issue'[i].parent = issue[i].parent
<1>0. /\ issue \in Seq(Issues) /\ Len(issue) \in Nat
      /\ issue' \in Seq(Issues) /\ Len(issue') \in Nat
  <2>1. issue \in Seq(Issues) /\ issue' \in Seq(Issues)
    BY DEF LinearType
  <2> QED
    BY <2>1
<1>1. CASE issue' = issue
  BY <1>0, <1>1
<1>2. CASE CreateCall(p)
  BY <1>0, <1>2 DEF CreateCall
<1>3. CASE UpdateCall(p)
  BY <1>0, <1>3, UpdateOfIssue
<1> QED
  BY <1>1, <1>2, <1>3
     DEF Acts, Commands, Steps, Create, Start, Archive, RunCreate, Begin,
         StartFlip, ArchiveComplete, ArchiveMove, CreateRead, CreateOpen, CreateFill,
         UpdateRead, Fail

LEMMA OfStays ==
  ASSUME LinearType, LinearType', NEW p \in Process, NumbersHeld(p), Acts(p), NEW i \in Nat, NEW t, IssueOf(i, t)
  PROVE  IssueOfNext(i, t)
BY IssuesStay DEF IssueOf, IssueOfNext

\* A task that has a directory keeps one.
LEMMA PlacesStay ==
  ASSUME LinearType, CommandShape, NEW p \in Process, Acts(p), NEW t \in Task,
         task[t].place # "none"
  PROVE  task'[t].place # "none"
<1>1. CASE task' = task
  BY <1>1
<1>2. ASSUME NEW u \in Task, Create(p, u) PROVE task'[t].place # "none"
  BY <1>2 DEF Create, LinearType
<1>3. CASE StartFlip(p) \/ ArchiveComplete(p)
  <2>1. proc[p].held \in Json /\ proc[p].held.place # "none"
    BY <1>3 DEF CommandShape, Shaped, StartFlip, ArchiveComplete
  <2>2. CASE \E s \in Statuses :
               task' = [task EXCEPT ![proc[p].task] = [proc[p].held EXCEPT !.status = s]]
    <3>1. PICK s \in Statuses :
               task' = [task EXCEPT ![proc[p].task] = [proc[p].held EXCEPT !.status = s]]
      BY <2>2
    <3>2. [proc[p].held EXCEPT !.status = s].place = proc[p].held.place
      BY <2>1 DEF Json
    <3> QED
      BY <2>1, <3>1, <3>2 DEF LinearType
  <2> QED
    BY <1>1, <1>3, <2>2 DEF StartFlip, ArchiveComplete, Statuses
<1>4. CASE task' = [task EXCEPT ![proc[p].task].place = "archive"]
  BY <1>4 DEF LinearType, Json
<1>5. CASE task' = [task EXCEPT ![proc[p].task].whole = FALSE]
  BY <1>5 DEF LinearType, Json
<1>6. CASE CreateFill(p)
  <2>1. proc[p].held \in Json
    BY <1>6 DEF CommandShape, Shaped, CreateFill
  <2> QED
    BY <1>6, <2>1 DEF CreateFill, LinearType, Json
<1> QED
  BY <1>1, <1>2, <1>3, <1>4, <1>5, <1>6
     DEF Acts, Commands, Steps, Start, Archive, RunCreate, ArchiveMove, CreateOpen,
         CreateRead, CreateCall, UpdateRead, UpdateCall, Fail
\* What a step of a command makes of the command.
Continues(p, at, place, held, ticket) ==
  /\ proc'[p].cmd = proc[p].cmd /\ proc'[p].task = proc[p].task /\ proc'[p].at = at
  /\ proc'[p].place = place /\ proc'[p].held = held /\ proc'[p].ticket = ticket
GoesOn(p, at) == Continues(p, at, proc[p].place, proc[p].held, proc[p].ticket)
Over(p) == proc'[p] = Idle

LEMMA GoesIs ==
  ASSUME LinearType, NEW p \in Process, NEW at, Goes(p, at) PROVE GoesOn(p, at)
BY DEF LinearType, Calls, Goes, GoesOn, Continues

LEMMA EndsIs ==
  ASSUME LinearType, NEW p \in Process, Ends(p) PROVE Over(p)
BY DEF LinearType, Ends, Over

LEMMA StartsIs ==
  ASSUME LinearType, NEW p \in Process, NEW t \in Task
  PROVE  /\ Create(p, t) => proc'[p] = Begun("create", t, "read", "tasks", NoTask)
         /\ Start(p, t) => proc'[p] = Begun("start", t, "flip", task[t].place, task[t])
         /\ Archive(p, t) => proc'[p] = Begun("archive", t, "complete", "tasks", task[t])
         /\ RunCreate(p, t) => proc'[p] = Begun("create", t, "read", "tasks", NoTask)
<1>1. Create(p, t) => proc' = [proc EXCEPT ![p] = Begun("create", t, "read", "tasks", NoTask)]
  BY DEF Create, Begin, Begun
<1>2. Start(p, t) => proc' = [proc EXCEPT ![p] = Begun("start", t, "flip", task[t].place, task[t])]
  BY DEF Start, Begin, Begun
<1>3. Archive(p, t) => proc' = [proc EXCEPT ![p] = Begun("archive", t, "complete", "tasks", task[t])]
  BY DEF Archive, Begin, Begun
<1>4. RunCreate(p, t) => proc' = [proc EXCEPT ![p] = Begun("create", t, "read", "tasks", NoTask)]
  BY DEF RunCreate, Begin, Begun
<1> QED
  BY <1>1, <1>2, <1>3, <1>4 DEF LinearType

\* In short: it begins with a step of its own, in the place of its task.
LEMMA StartsHow ==
  ASSUME LinearType, NEW p \in Process, NEW t \in Task,
         Create(p, t) \/ Start(p, t) \/ Archive(p, t) \/ RunCreate(p, t)
  PROVE  \E cmd \in {"create", "start", "archive"}, at \in {"read", "flip", "complete"},
            place \in Places, held \in Json \cup {NoTask} :
           /\ proc'[p] = Begun(cmd, t, at, place, held)
           /\ place = task'[t].place
           /\ at \in {"flip", "complete"} => held = task[t] /\ task' = task /\ task[t].place # "none"
<1>0. task[t] \in Json /\ task[t].place \in Places /\ "tasks" \in Places
  BY DEF LinearType, Json, Places
<1>1. CASE Create(p, t)
  <2>1. task'[t].place = "tasks"
    BY <1>1 DEF Create, Unborn, LinearType
  <2> QED
    BY <1>0, <1>1, <2>1, StartsIs
<1>2. CASE Start(p, t)
  <2>1. task' = task /\ task[t].place # "none"
    BY <1>2 DEF Start
  <2> QED
    BY <1>0, <1>2, <2>1, StartsIs
<1>3. CASE Archive(p, t)
  <2>1. task' = task /\ task[t].place = "tasks"
    BY <1>3 DEF Archive
  <2> QED
    BY <1>0, <1>3, <2>1, StartsIs
<1>4. CASE RunCreate(p, t)
  <2>1. task' = task /\ task[t].place = "tasks"
    BY <1>4 DEF RunCreate
  <2> QED
    BY <1>0, <1>4, <2>1, StartsIs
<1> QED
  BY <1>1, <1>2, <1>3, <1>4

LEMMA StepIs ==
  ASSUME LinearType, NEW p \in Process
  PROVE  /\ StartFlip(p) => GoesOn(p, "read")
         /\ ArchiveComplete(p) => GoesOn(p, "move")
         /\ ArchiveMove(p) => \/ InPlace(p) /\ Continues(p, "read", "archive", proc[p].held, proc[p].ticket)
                              \/ ~InPlace(p) /\ Over(p)
         /\ CreateRead(p) => \/ /\ Readable(p) /\ task[proc[p].task].issue = NoIssue
                                /\ Continues(p, "call", proc[p].place, task[proc[p].task], ParentIssue(p))
                             \/ Over(p)
         /\ CreateCall(p) => Continues(p, "write", proc[p].place, proc[p].held, Len(issue) + 1)
         /\ CreateOpen(p) => (InPlace(p) /\ GoesOn(p, "fill")) \/ (~InPlace(p) /\ Over(p))
         /\ CreateFill(p) => Over(p)
         /\ UpdateRead(p) => \/ /\ Readable(p) /\ task[proc[p].task].issue # NoIssue
                                /\ Continues(p, "call", proc[p].place, proc[p].held,
                                             task[proc[p].task].issue)
                             \/ Over(p)
         /\ UpdateCall(p) => Over(p)
         /\ Fail(p) => Over(p)
<1>0. proc \in [Process -> Calls] /\ proc[p] \in Calls
  BY DEF LinearType
<1>1. StartFlip(p) => GoesOn(p, "read")
  BY GoesIs DEF StartFlip
<1>2. ArchiveComplete(p) => GoesOn(p, "move")
  BY GoesIs DEF ArchiveComplete
<1>3. ArchiveMove(p) => \/ InPlace(p) /\ Continues(p, "read", "archive", proc[p].held, proc[p].ticket)
                        \/ ~InPlace(p) /\ Over(p)
  BY <1>0, EndsIs DEF ArchiveMove, Continues, Calls
<1>4. CreateRead(p) => \/ /\ Readable(p) /\ task[proc[p].task].issue = NoIssue
                          /\ Continues(p, "call", proc[p].place, task[proc[p].task], ParentIssue(p))
                       \/ Over(p)
  BY <1>0, EndsIs DEF CreateRead, Continues, Calls
<1>5. CreateCall(p) => Continues(p, "write", proc[p].place, proc[p].held, Len(issue) + 1)
  BY <1>0 DEF CreateCall, Continues, Calls
<1>6. CreateOpen(p) => (InPlace(p) /\ GoesOn(p, "fill")) \/ (~InPlace(p) /\ Over(p))
  BY EndsIs, GoesIs DEF CreateOpen
<1>7. CreateFill(p) => Over(p)
  BY EndsIs DEF CreateFill
<1>8. UpdateRead(p) => \/ /\ Readable(p) /\ task[proc[p].task].issue # NoIssue
                          /\ Continues(p, "call", proc[p].place, proc[p].held, task[proc[p].task].issue)
                       \/ Over(p)
  BY <1>0, EndsIs DEF UpdateRead, Continues, Calls
<1>9. (UpdateCall(p) => Over(p)) /\ (Fail(p) => Over(p))
  BY EndsIs DEF UpdateCall, Fail
<1> QED
  BY <1>1, <1>2, <1>3, <1>4, <1>5, <1>6, <1>7, <1>8, <1>9

LEMMA ShapeStep ==
  ASSUME LinearType, CommandShape, NEW p \in Process, Acts(p)
  PROVE  CommandShape'
<1>1. ASSUME NEW q \in Process, q # p PROVE Shaped(q)'
  <2>1. proc'[q] = proc[q] /\ Shaped(q)
    BY <1>1, OthersStay DEF CommandShape
  <2> QED
    BY <2>1, PlacesStay DEF Shaped
<1>2. Shaped(p) /\ proc[p] \in Calls
  BY DEF CommandShape, LinearType
<1>3. ASSUME NEW t \in Task, Create(p, t) \/ Start(p, t) \/ Archive(p, t) \/ RunCreate(p, t)
      PROVE  Shaped(p)'
  <2>1. task[t] \in Json
    BY DEF LinearType
  <2>2. task'[t].place # "none"
    <3>1. CASE Create(p, t)
      BY <3>1 DEF Create, Unborn, LinearType
    <3>2. CASE ~Create(p, t)
      BY <1>3, <3>2, PlacesStay DEF Start, Archive, RunCreate, Acts, Commands
    <3> QED
      BY <3>1, <3>2
  <2>3. PICK cmd \in {"create", "start", "archive"}, at \in {"read", "flip", "complete"},
             place \in Places, held \in Json \cup {NoTask} :
          /\ proc'[p] = Begun(cmd, t, at, place, held)
          /\ at \in {"flip", "complete"} => held = task[t] /\ task[t].place # "none"
    BY <1>3, StartsHow
  <2>4. /\ proc'[p].cmd = cmd /\ proc'[p].task = t /\ proc'[p].at = at /\ proc'[p].held = held
    BY <2>3, BegunFields
  <2> QED
    BY <2>1, <2>2, <2>3, <2>4, LinearSyncAssumption DEF Shaped
<1>4. ASSUME Steps(p) PROVE Shaped(p)'
  <2>1. proc[p].task \in Task /\ task[proc[p].task] \in Json
    BY <1>4, StepOfTask DEF LinearType
  <2>2. task'[proc[p].task].place # "none" /\ task[proc[p].task].place # "none"
    BY <1>2, <2>1, PlacesStay DEF Shaped
  <2>3. CASE Over(p)
    BY <2>3, LinearSyncAssumption, SMTT(40) DEF Over, Shaped, Idle
  <2>4. CASE ~Over(p)
    BY <1>2, <1>4, <2>1, <2>2, <2>4, StepIs, LinearSyncAssumption, ZenonT(60)
       DEF Steps, Shaped, GoesOn, Continues, Readable, StartFlip, ArchiveComplete, ArchiveMove,
           CreateRead, CreateCall, CreateOpen, CreateFill, UpdateRead, UpdateCall, Fail
  <2> QED
    BY <2>3, <2>4
<1> QED
  BY <1>1, <1>3, <1>4 DEF Acts, Commands, CommandShape

-----------------------------------------------------------------------------
(* What a step makes of the files.                                         *)

\* A command begins without touching a task but the one it creates.
LEMMA StartsTask ==
  ASSUME LinearType, NEW p \in Process, NEW t \in Task,
         Create(p, t) \/ Start(p, t) \/ Archive(p, t) \/ RunCreate(p, t), NEW u \in Task
  PROVE  /\ issue' = issue
         /\ \/ task'[u] = task[u]
            \/ Create(p, t) /\ u = t /\ task[u].place = "none" /\ task'[u].issue = NoIssue
         /\ u # t => oddity'[u] = oddity[u]
         /\ Busy(t) # {} => "overlap" \in oddity'[t]
         /\ oddity[u] \subseteq oddity'[u]
<1>1. /\ issue' = issue
      /\ \/ task'[u] = task[u]
         \/ Create(p, t) /\ u = t /\ task[u].place = "none" /\ task'[u].issue = NoIssue
  BY DEF LinearType, Create, Start, Archive, RunCreate, Unborn
<1>2. PICK also : oddity' = [oddity EXCEPT ![t] = @ \cup (also \cup IF Busy(t) # {} THEN {"overlap"} ELSE {})]
  BY DEF Create, Start, Archive, RunCreate, Begin, Oddly
<1> QED
  BY <1>1, <1>2 DEF LinearType

\* A step of a command touches no task but its own.
LEMMA OtherTasks ==
  ASSUME LinearType, NEW p \in Process, Steps(p), NEW u \in Task, u # proc[p].task
  PROVE  task'[u] = task[u] /\ oddity'[u] = oddity[u]
BY DEF LinearType, Steps, StartFlip, ArchiveComplete, ArchiveMove, CreateRead, CreateCall, CreateOpen,
   CreateFill, UpdateRead, UpdateCall, Fail, Oddly

\* What it makes of its own.
LEMMA OwnTask ==
  ASSUME LinearType, CommandShape, NEW p \in Process, Steps(p)
  PROVE  LET t == proc[p].task  old == task[t]  new == task'[t]  c == proc[p] IN
         \/ new = old
         \/ /\ StartFlip(p) \/ ArchiveComplete(p)
            /\ InPlace(p) /\ new.place = c.held.place /\ new.issue = c.held.issue
            /\ new.whole = c.held.whole /\ c.held.whole
         \/ /\ ArchiveMove(p) /\ InPlace(p)
            /\ new.place = "archive" /\ new.issue = old.issue /\ new.whole = old.whole
         \/ /\ CreateOpen(p) /\ InPlace(p)
            /\ new.place = old.place /\ new.issue = old.issue /\ ~new.whole
         \/ /\ CreateFill(p) /\ ~old.whole
            /\ new.place = old.place /\ new.issue = c.ticket /\ new.whole
<1>1. /\ task \in [Task -> Json] /\ proc[p].task \in Task /\ proc[p] \in Calls
      /\ task[proc[p].task] \in Json /\ Shaped(p)
  BY StepOfTask DEF LinearType, CommandShape
<1>2. CASE StartFlip(p)
  <2>1. proc[p].held \in Json
    BY <1>1, <1>2 DEF Shaped, StartFlip
  <2> QED
    BY <1>1, <1>2, <2>1 DEF StartFlip, Json
<1>3. CASE ArchiveComplete(p)
  <2>1. proc[p].held \in Json
    BY <1>1, <1>3 DEF Shaped, ArchiveComplete
  <2> QED
    BY <1>1, <1>3, <2>1 DEF ArchiveComplete, Json
<1>4. CASE ArchiveMove(p)
  BY <1>1, <1>4 DEF ArchiveMove, Json
<1>5. CASE CreateOpen(p)
  BY <1>1, <1>5 DEF CreateOpen, Json
<1>6. CASE CreateFill(p)
  <2>1. proc[p].held \in Json /\ proc[p].held.whole
    BY <1>1, <1>6 DEF Shaped, CreateFill
  <2> QED
    BY <1>1, <1>6, <2>1 DEF CreateFill, Json
<1> QED
  BY <1>2, <1>3, <1>4, <1>5, <1>6 DEF Steps, CreateRead, CreateCall, UpdateRead, UpdateCall, Fail

-----------------------------------------------------------------------------
IssueNumbers == NumbersOnDisk /\ (\A p \in Process : NumbersHeld(p)) /\ IssuesSound

LEMMA NumbersStep ==
  ASSUME LinearType, LinearType', CommandShape, IssueNumbers, NEW p \in Process, Acts(p)
  PROVE  IssueNumbers'
<1>0. NumbersOnDisk /\ (\A q \in Process : NumbersHeld(q)) /\ IssuesSound
  BY DEF IssueNumbers
<1>a. \A i \in Nat : \A t : IssueOf(i, t) => IssueOfNext(i, t)
  BY <1>0, OfStays
<1>b. \A t \in Task : task[t] \in Json /\ task'[t] \in Json
  BY DEF LinearType
<1>c. \A q \in Process : proc[q] \in Calls /\ proc'[q] \in Calls
  BY DEF LinearType
<1>1. ASSUME NEW t \in Task, task'[t].issue # NoIssue PROVE IssueOfNext(task'[t].issue, t)
  <2>1. CASE task'[t].issue = task[t].issue
    BY <1>0, <1>1, <1>a, <1>b, <2>1 DEF NumbersOnDisk, Json
  <2>2. CASE task'[t].issue # task[t].issue /\ Commands(p)
    BY <1>1, <2>2, StartsTask DEF Commands
  <2>3. CASE task'[t].issue # task[t].issue /\ Steps(p)
    <3>1. t = proc[p].task
      BY <2>3, OtherTasks
    <3>2. CASE (StartFlip(p) \/ ArchiveComplete(p)) /\ task'[t].issue = proc[p].held.issue
      <4>1. IssueOf(proc[p].held.issue, t)
        BY <1>0, <1>1, <3>1, <3>2 DEF NumbersHeld, IssueOf, IssueOfNext, StartFlip, ArchiveComplete
      <4> QED
        BY <1>a, <1>b, <3>2, <4>1 DEF Json
    <3>3. CASE CreateFill(p) /\ task'[t].issue = proc[p].ticket
      <4>1. IssueOf(proc[p].ticket, t)
        BY <1>0, <3>1, <3>3 DEF NumbersHeld, IssueOf, IssueOfNext, CreateFill
      <4> QED
        BY <1>a, <1>b, <3>3, <4>1 DEF Json
    <3> QED
      BY <2>3, <3>1, <3>2, <3>3, OwnTask
  <2> QED
    BY <2>1, <2>2, <2>3 DEF Acts
<1>2. ASSUME NEW q \in Process, q # p PROVE NumbersHeld(q)'
  <2>1. proc'[q] = proc[q] /\ NumbersHeld(q) /\ Shaped(q)
    BY <1>0, <1>2, OthersStay DEF CommandShape
  <2>2. proc[q].ticket \in Nat /\ (proc[q].held \in Json => proc[q].held.issue \in Nat)
    BY <1>c DEF Calls, Json
  <2> QED
    BY <1>a, <2>1, <2>2 DEF NumbersHeld, IssueOf, IssueOfNext, Shaped
<1>3. ASSUME NEW t \in Task, Create(p, t) \/ Start(p, t) \/ Archive(p, t) \/ RunCreate(p, t)
      PROVE  NumbersHeld(p)'
  <2>1. PICK cmd \in {"create", "start", "archive"}, at \in {"read", "flip", "complete"},
             place \in Places, held \in Json \cup {NoTask} :
          /\ proc'[p] = Begun(cmd, t, at, place, held)
          /\ at \in {"flip", "complete"} => held = task[t]
    BY <1>3, StartsHow
  <2>2. /\ proc'[p].task = t /\ proc'[p].at = at /\ proc'[p].held = held
    BY <2>1, BegunFields
  <2>3. task[t].issue # NoIssue => IssueOfNext(task[t].issue, t)
    BY <1>0, <1>a, <1>b DEF NumbersOnDisk, Json
  <2> QED
    BY <2>1, <2>2, <2>3 DEF NumbersHeld, IssueOf, IssueOfNext
<1>4. ASSUME Steps(p) PROVE NumbersHeld(p)'
  <2>1. proc[p].task \in Task /\ NumbersHeld(p) /\ Shaped(p) /\ proc[p].ticket \in Nat
    BY <1>0, <1>4, <1>c, StepOfTask DEF CommandShape, Calls
  <2>2. CASE Over(p)
    BY <2>2 DEF Over, Idle, NumbersHeld, IssueOf, IssueOfNext
  <2>3. CASE GoesOn(p, "read") \/ GoesOn(p, "move")
    BY <2>3 DEF GoesOn, Continues, NumbersHeld, IssueOf, IssueOfNext
  <2>4. CASE ArchiveMove(p) /\ Continues(p, "read", "archive", proc[p].held, proc[p].ticket)
    BY <2>4 DEF Continues, NumbersHeld, IssueOf, IssueOfNext
  <2>5. CASE CreateRead(p) /\ Continues(p, "call", proc[p].place, task[proc[p].task], ParentIssue(p))
    <3>1. ParentIssue(p) # NoIssue => IssueOfNext(ParentIssue(p), Parent[proc[p].task])
      <4>1. ParentIssue(p) # NoIssue =>
              /\ Parent[proc[p].task] \in Task
              /\ ParentIssue(p) = task[Parent[proc[p].task]].issue
        BY <2>1, LinearSyncAssumption DEF ParentIssue
      <4> QED
        BY <1>0, <1>a, <1>b, <4>1 DEF NumbersOnDisk, Json
    <3>2. proc'[p].cmd = "create" /\ proc'[p].at = "call" /\ proc'[p].ticket = ParentIssue(p)
          /\ proc'[p].task = proc[p].task
      BY <2>5 DEF CreateRead, Continues
    <3> QED
      BY <3>1, <3>2 DEF NumbersHeld, IssueOf, IssueOfNext
  <2>6. CASE CreateCall(p)
    <3>1. Len(issue) \in Nat /\ IssueOfNext(Len(issue) + 1, proc[p].task)
      <4>1. /\ issue \in Seq(Issues) /\ Len(issue) \in Nat
            /\ issue' = Append(issue, [of |-> proc[p].task, parent |-> proc[p].ticket, state |-> "new"])
        BY <2>6, LenProperties DEF CreateCall, LinearType
      <4>2. Len(issue') = Len(issue) + 1 /\ issue'[Len(issue) + 1].of = proc[p].task
        BY <4>1
      <4>3. proc'[p].task = proc[p].task
        BY <2>6, StepIs DEF Continues
      <4> QED
        BY <4>1, <4>2, <4>3 DEF IssueOfNext
    <3>2. proc'[p].cmd = "create" /\ proc'[p].at = "write" /\ proc'[p].ticket = Len(issue) + 1
          /\ proc'[p].task = proc[p].task
      BY <2>6, StepIs DEF CreateCall, Continues
    <3> QED
      BY <3>1, <3>2 DEF NumbersHeld, IssueOf, IssueOfNext
  <2>7. CASE CreateOpen(p) /\ GoesOn(p, "fill")
    <3>1. proc[p].at = "write" /\ proc[p].cmd = "create"
      BY <2>1, <2>7 DEF CreateOpen, Shaped
    <3> QED
      BY <1>a, <2>1, <2>7, <3>1 DEF GoesOn, Continues, NumbersHeld, IssueOf, IssueOfNext
  <2>8. CASE UpdateRead(p) /\ Continues(p, "call", proc[p].place, proc[p].held, task[proc[p].task].issue)
             /\ task[proc[p].task].issue # NoIssue
    <3>1. IssueOfNext(task[proc[p].task].issue, proc[p].task)
      BY <1>0, <1>a, <1>b, <2>1, <2>8 DEF NumbersOnDisk, Json
    <3> QED
      BY <2>8, <3>1 DEF UpdateRead, Continues, NumbersHeld, IssueOf, IssueOfNext
  <2> QED
    BY <1>4, <2>2, <2>3, <2>4, <2>5, <2>6, <2>7, <2>8, StepIs DEF Steps
<1>5. IssuesSound'
  <2> SUFFICES ASSUME NEW i \in 1 .. Len(issue')
               PROVE  /\ task'[issue'[i].of].place # "none"
                      /\ issue'[i].parent # NoIssue => IssueOfNext(issue'[i].parent, Parent[issue'[i].of])
    BY DEF IssuesSound, IssueOf, IssueOfNext
  <2>0. issue \in Seq(Issues) /\ Len(issue) \in Nat
    BY LenProperties DEF LinearType
  <2>1. CASE i \in 1 .. Len(issue)
    <3>1. issue[i] \in Issues
      BY <2>0, <2>1, ElementOfSeq
    <3>2. issue'[i].of = issue[i].of /\ issue'[i].parent = issue[i].parent
      BY <1>0, <2>1, IssuesStay
    <3>3. task[issue[i].of].place # "none"
          /\ (issue[i].parent # NoIssue => IssueOf(issue[i].parent, Parent[issue[i].of]))
      BY <1>0, <2>1 DEF IssuesSound
    <3> QED
      BY <1>a, <3>1, <3>2, <3>3, PlacesStay DEF Issues
  <2>2. CASE i \notin 1 .. Len(issue)
    <3>1. /\ CreateCall(p) /\ i = Len(issue) + 1
          /\ issue'[i].of = proc[p].task /\ issue'[i].parent = proc[p].ticket
      BY <1>0, <2>0, <2>2, IssuesStay
    <3>2. proc[p].task \in Task /\ proc[p].ticket \in Nat
      BY <1>c, <3>1, StepOfTask DEF Steps, Calls
    <3>3. task[proc[p].task].place # "none"
      BY <3>2 DEF CommandShape, Shaped
    <3>4. proc[p].ticket # NoIssue => IssueOf(proc[p].ticket, Parent[proc[p].task])
      BY <1>0, <3>1 DEF NumbersHeld, IssueOf, IssueOfNext, CreateCall
    <3> QED
      BY <1>a, <3>1, <3>2, <3>3, <3>4, PlacesStay
  <2> QED
    BY <2>1, <2>2
<1> QED
  BY <1>1, <1>2, <1>3, <1>4, <1>5 DEF IssueNumbers, NumbersOnDisk, IssueOf, IssueOfNext, Acts, Commands

-----------------------------------------------------------------------------
(* A task without failed or overlapping commands stays tidy.               *)

\* What is not touched stays as it is.
LEMMA Untouched ==
  ASSUME NEW t \in Task, Tidy(t), task'[t] = task[t],
         \A q \in Process : (proc[q].task = t \/ proc'[q].task = t) => proc'[q] = proc[q],
         \A i : IssueOfNext(i, t) <=> IssueOf(i, t)
  PROVE  Tidy(t)'
<1>1. Alone(t)'
  BY DEF Tidy, Alone
<1>2. ASSUME NEW q \in Process, proc'[q].task = t PROVE InStep(q, t)'
  <2>1. proc'[q] = proc[q] /\ InStep(q, t)
    BY <1>2 DEF Tidy
  <2> QED
    BY <2>1 DEF InStep, IssueOf, IssueOfNext
<1>3. Single(t)'
  BY DEF Tidy, Single, IssueOf, IssueOfNext
<1>4. ASSUME NEW i \in 1 .. Len(issue'), IssueOfNext(i, t) PROVE OnDisk(i, t)'
  <2>1. OnDisk(i, t)
    BY <1>4 DEF Tidy, IssueOf
  <2> QED
    BY <2>1 DEF OnDisk
<1> QED
  BY <1>1, <1>2, <1>3, <1>4 DEF Tidy, IssueOf, IssueOfNext

\* With one command on it, in step with the files, a task is tidy.
LEMMA OneCommand ==
  ASSUME NEW p \in Process, NEW t \in Task,
         \A q \in Process : q # p => proc'[q].task # t,
         proc'[p].task = t => InStep(p, t)',
         \A i, j : IssueOfNext(i, t) /\ IssueOfNext(j, t) => i = j,
         \A i : IssueOfNext(i, t) =>
           \/ task'[t].issue = i
           \/ proc'[p].task = t /\ proc'[p].at \in {"write", "fill"} /\ proc'[p].ticket = i
  PROVE  Tidy(t)'
<1>1. Alone(t)' /\ Single(t)'
  BY DEF Alone, Single, IssueOf, IssueOfNext
<1>2. \A i \in 1 .. Len(issue') : IssueOfNext(i, t) => OnDisk(i, t)'
  BY DEF OnDisk
<1>3. \A q \in Process : proc'[q].task = t => InStep(q, t)'
  OBVIOUS
<1> QED
  BY <1>1, <1>2, <1>3 DEF Tidy, IssueOf, IssueOfNext
\* A task gets an issue by the call for it only.
LEMMA SameIssues ==
  ASSUME LinearType, LinearType', NEW p \in Process, NumbersHeld(p), Acts(p), NEW t \in Task,
         ~(CreateCall(p) /\ proc[p].task = t)
  PROVE  \A i : IssueOfNext(i, t) <=> IssueOf(i, t)
<1>1. /\ Len(issue) \in Nat /\ Len(issue') \in Nat
      /\ \/ Len(issue') = Len(issue)
         \/ Len(issue') = Len(issue) + 1 /\ issue'[Len(issue) + 1].of # t
      /\ \A i \in 1 .. Len(issue) : issue'[i].of = issue[i].of
  BY IssuesStay
<1> QED
  BY <1>1 DEF IssueOf, IssueOfNext

LEMMA BeginTidy ==
  ASSUME LinearType, LinearType', CommandShape, IssueNumbers, QuietIsTidy,
         NEW p \in Process, NEW u \in Task,
         Create(p, u) \/ Start(p, u) \/ Archive(p, u) \/ RunCreate(p, u),
         NEW t \in Task, Quiet(t)'
  PROVE  Tidy(t)'
<1>0. /\ Acts(p) /\ proc[p] = Idle /\ proc[p].task = NoTask /\ NumbersHeld(p) /\ ~CreateCall(p)
      /\ proc'[p] \in Calls
  <2>1. Acts(p)
    BY DEF Acts, Commands
  <2>2. proc[p] = Idle
    BY DEF Create, Start, Archive, RunCreate, Begin
  <2>3. NumbersHeld(p) /\ proc'[p] \in Calls
    BY DEF IssueNumbers, LinearType
  <2> QED
    BY <2>1, <2>2, <2>3 DEF Idle, CreateCall
<1>1. Tidy(t)
  BY StartsTask DEF QuietIsTidy, Quiet
<1>2. \A i : IssueOfNext(i, t) <=> IssueOf(i, t)
  BY <1>0, SameIssues
<1>3. \A q \in Process : q # p => proc'[q] = proc[q]
  BY <1>0, OthersStay
<1>4. PICK cmd \in {"create", "start", "archive"}, at \in {"read", "flip", "complete"},
             place \in Places, held \in Json \cup {NoTask} :
        /\ proc'[p] = Begun(cmd, u, at, place, held)
        /\ place = task'[u].place
        /\ at \in {"flip", "complete"} => held = task[u] /\ task' = task
  BY StartsHow
<1>5. proc'[p].task = u /\ proc'[p].at = at /\ proc'[p].place = place /\ proc'[p].held = held
  BY <1>4, BegunFields
<1>6. CASE t # u
  <2>1. task'[t] = task[t]
    BY <1>6, StartsTask
  <2>2. \A q \in Process : (proc[q].task = t \/ proc'[q].task = t) => proc'[q] = proc[q]
    BY <1>0, <1>3, <1>5, <1>6, LinearSyncAssumption
  <2> QED
    BY <1>1, <1>2, <2>1, <2>2, Untouched
<1>7. CASE t = u
  <2>1. Busy(t) = {}
    BY <1>7, StartsTask DEF Quiet
  <2>2. \A q \in Process : q # p => proc'[q].task # t
    BY <1>3, <2>1 DEF Busy
  <2>3. InStep(p, t)'
    BY <1>4, <1>5, <1>7 DEF InStep
  <2>4. \A i, j : IssueOfNext(i, t) /\ IssueOfNext(j, t) => i = j
    BY <1>1, <1>2 DEF Tidy, Single, IssueOf
  <2>5. ASSUME NEW i, IssueOfNext(i, t) PROVE task'[t].issue = i
    <3>1. IssueOf(i, t) /\ i \in 1 .. Len(issue) /\ issue[i].of = t
      BY <1>2, <2>5 DEF IssueOf
    <3>2. task[t].issue = i
      BY <1>1, <2>1, <3>1 DEF Tidy, OnDisk, Busy
    <3>3. task[t].place # "none"
      BY <3>1 DEF IssueNumbers, IssuesSound
    <3> QED
      BY <3>2, <3>3, StartsTask
  <2> QED
    BY <2>2, <2>3, <2>4, <2>5, OneCommand
<1> QED
  BY <1>6, <1>7

LEMMA StepTidy ==
  ASSUME LinearType, LinearType', CommandShape, IssueNumbers, QuietIsTidy,
         NEW p \in Process, Steps(p), NEW t \in Task, Quiet(t)'
  PROVE  Tidy(t)'
<1> DEFINE c == proc[p]
<1> DEFINE d == proc'[p]
<1>0. /\ Acts(p) /\ NumbersHeld(p) /\ c.task \in Task /\ c \in Calls /\ d \in Calls
      /\ task[t] \in Json /\ task'[t] \in Json
  BY StepOfTask DEF Acts, IssueNumbers, LinearType
<1>1. \A q \in Process : q # p => proc'[q] = proc[q]
  BY <1>0, OthersStay
<1>2. d.task = c.task \/ d = Idle
  BY StepIs DEF Steps, GoesOn, Continues, Over
<1>3. CASE t # c.task
  <2>1. task'[t] = task[t] /\ oddity'[t] = oddity[t]
    BY <1>3, OtherTasks
  <2>2. Tidy(t)
    BY <2>1 DEF QuietIsTidy, Quiet
  <2>3. \A i : IssueOfNext(i, t) <=> IssueOf(i, t)
    BY <1>0, <1>3, SameIssues
  <2>4. \A q \in Process : (proc[q].task = t \/ proc'[q].task = t) => proc'[q] = proc[q]
    BY <1>1, <1>2, <1>3, LinearSyncAssumption DEF Idle
  <2> QED
    BY <2>1, <2>2, <2>3, <2>4, Untouched
<1>4. CASE t = c.task
  <2>1. ~Fail(p)
    BY <1>4, ZenonT(60) DEF Fail, Oddly, Quiet, LinearType
  <2>2. Tidy(t) /\ InStep(p, t)
    <3>1. oddity' = oddity
      BY <2>1 DEF Steps, StartFlip, ArchiveComplete, ArchiveMove, CreateRead, CreateCall,
         CreateOpen, CreateFill, UpdateRead, UpdateCall
    <3> QED
      BY <1>4, <3>1 DEF QuietIsTidy, Quiet, Tidy
  <2>3. \A q \in Process : q # p => proc'[q].task # t
    BY <1>1, <1>4, <2>2 DEF Tidy, Alone
  <2>4. ~CreateCall(p) => /\ \A i : IssueOfNext(i, t) <=> IssueOf(i, t)
                          /\ \A i, j : IssueOfNext(i, t) /\ IssueOfNext(j, t) => i = j
    <3>1. \A i, j : IssueOf(i, t) /\ IssueOf(j, t) => i = j
      BY <2>2 DEF Tidy, Single, IssueOf
    <3> QED
      BY <1>0, <3>1, SameIssues
  <2>5. ASSUME NEW i, IssueOf(i, t)
        PROVE  task[t].issue = i \/ (c.at \in {"write", "fill"} /\ c.ticket = i)
    <3>1. OnDisk(i, t)
      BY <2>2, <2>5 DEF Tidy, IssueOf
    <3> QED
      BY <1>4, <2>2, <3>1 DEF OnDisk, Tidy, Alone
  <2>6. CASE StartFlip(p) \/ ArchiveComplete(p)
    <3>1. /\ c.at \in {"flip", "complete"} /\ c.held = task[t] /\ c.place = task[t].place
          /\ d.task = t /\ d.at \in {"read", "move"} /\ d.place = c.place
      BY <1>4, <2>2, <2>6, StepIs DEF InStep, StartFlip, ArchiveComplete, GoesOn, Continues
    <3>2. task'[t].issue = task[t].issue /\ task'[t].place = task[t].place
      BY <1>0, <1>4, <2>6, <3>1, OwnTask DEF StartFlip, ArchiveComplete, ArchiveMove, CreateOpen, CreateFill
    <3>3. InStep(p, t)'
      BY <3>1, <3>2 DEF InStep
    <3>4. ~CreateCall(p)
      BY <3>1 DEF CreateCall
    <3> QED
      BY <2>3, <2>4, <2>5, <3>1, <3>2, <3>3, <3>4, OneCommand
  <2>7. CASE ArchiveMove(p)
    <3>1. InPlace(p) /\ c.at = "move"
      BY <1>4, <2>2, <2>7 DEF InStep, InPlace, ArchiveMove
    <3>2. d.task = t /\ d.at = "read" /\ d.place = "archive"
      BY <1>4, <2>7, <3>1, StepIs DEF Continues
    <3>3. task'[t].issue = task[t].issue /\ task'[t].place = "archive"
      <4>1. task' = [task EXCEPT ![t].place = "archive"]
        BY <1>4, <2>7, <3>1 DEF ArchiveMove
      <4> QED
        BY <1>0, <1>4, <4>1 DEF LinearType, Json
    <3>4. InStep(p, t)'
      BY <3>2, <3>3 DEF InStep
    <3>5. ~CreateCall(p)
      BY <3>1 DEF CreateCall
    <3> QED
      BY <2>3, <2>4, <2>5, <3>1, <3>2, <3>3, <3>4, <3>5, OneCommand
  <2>8. CASE CreateRead(p)
    <3>1. task' = task /\ issue' = issue /\ c.at = "read" /\ ~CreateCall(p)
      BY <2>8 DEF CreateRead, CreateCall
    <3>2. \A i : IssueOfNext(i, t) => task'[t].issue = i
      BY <2>4, <2>5, <3>1
    <3>3. ASSUME d.task = t PROVE InStep(p, t)'
      <4>1. /\ task[t].issue = 0 /\ d.at = "call" /\ d.place = c.place
        BY <1>4, <2>8, <3>3, StepIs, LinearSyncAssumption DEF Continues, Over, Idle
      <4>2. \A i \in 1 .. Len(issue) : ~IssueOf(i, t)
        BY <2>5, <3>1, <4>1
      <4>3. \A i \in 1 .. Len(issue') : ~IssueOfNext(i, t)
        BY <2>4, <3>1, <4>2
      <4> QED
        BY <2>2, <3>1, <4>1, <4>3 DEF InStep, IssueOfNext, IssueOf
    <3> QED
      BY <2>3, <2>4, <3>1, <3>2, <3>3, OneCommand
  <2>9. CASE CreateCall(p)
    <3>1. task' = task /\ c.cmd = "create" /\ c.at = "call"
      BY <2>9 DEF CreateCall
    <3>2. d.task = t /\ d.at = "write" /\ d.place = c.place /\ d.ticket = Len(issue) + 1
      BY <1>4, <2>9, StepIs DEF Continues
    <3>3. \A i : ~IssueOf(i, t)
      BY <2>2, <3>1 DEF InStep, IssueOf
    <3>4. \A i : IssueOfNext(i, t) => i = Len(issue) + 1
      <4>1. /\ Len(issue) \in Nat /\ Len(issue') \in Nat
            /\ Len(issue') = Len(issue) \/ Len(issue') = Len(issue) + 1
            /\ \A i \in 1 .. Len(issue) : issue'[i].of = issue[i].of
        BY <1>0, IssuesStay
      <4> QED
        BY <3>3, <4>1 DEF IssueOf, IssueOfNext
    <3>5. InStep(p, t)'
      BY <2>2, <3>1, <3>2 DEF InStep
    <3> QED
      BY <2>3, <3>2, <3>4, <3>5, OneCommand
  <2>10. CASE CreateOpen(p)
    <3>1. InPlace(p) /\ c.at = "write" /\ ~CreateCall(p)
      BY <1>4, <2>2, <2>10 DEF InStep, InPlace, CreateOpen, CreateCall
    <3>2. d.task = t /\ d.at = "fill" /\ d.place = c.place /\ d.ticket = c.ticket
      BY <1>4, <2>10, <3>1, StepIs DEF GoesOn, Continues
    <3>3. task'[t].issue = task[t].issue /\ task'[t].place = task[t].place /\ ~task'[t].whole
      <4>1. task' = [task EXCEPT ![t].whole = FALSE]
        BY <1>4, <2>10, <3>1 DEF CreateOpen
      <4>2. task'[t] = [task[t] EXCEPT !.whole = FALSE]
        BY <1>4, <1>0, <4>1 DEF LinearType
      <4> QED
        BY <1>0, <4>2 DEF Json
    <3>4. InStep(p, t)'
      BY <2>2, <3>2, <3>3 DEF InStep
    <3> QED
      BY <2>3, <2>4, <2>5, <3>1, <3>2, <3>3, <3>4, OneCommand
  <2>11. CASE CreateFill(p)
    <3>1. c.at = "fill" /\ ~task[t].whole /\ ~CreateCall(p) /\ d.task # t
      <4>1. c.at = "fill" /\ ~CreateCall(p)
        BY <2>11 DEF CreateFill, CreateCall
      <4>2. ~task[t].whole
        BY <2>2, <4>1 DEF InStep
      <4>3. d = Idle
        BY <2>11, StepIs DEF Over
      <4> QED
        BY <4>1, <4>2, <4>3, LinearSyncAssumption DEF Idle
    <3>2. c.held \in Json
      BY <3>1 DEF CommandShape, Shaped
    <3>3. task'[t].issue = c.ticket
      BY <1>0, <1>4, <2>11, <3>1, <3>2 DEF CreateFill, LinearType, Json
    <3>4. IssueOf(c.ticket, t)
      BY <1>0, <1>4, <3>1 DEF NumbersHeld
    <3>5. \A i : IssueOfNext(i, t) => i = c.ticket
      BY <2>4, <3>1, <3>4
    <3> QED
      BY <2>3, <3>1, <3>3, <3>5, OneCommand
  <2>12. CASE UpdateRead(p) \/ UpdateCall(p)
    <3>1. task' = task /\ c.at \in {"read", "call"} /\ c.cmd \in {"start", "archive"} /\ ~CreateCall(p)
      BY <2>12 DEF UpdateRead, UpdateCall, CreateCall
    <3>2. \A i : IssueOfNext(i, t) => task'[t].issue = i
      BY <2>4, <2>5, <3>1
    <3>3. ASSUME d.task = t PROVE InStep(p, t)'
      <4>1. d.at = "call" /\ d.place = c.place /\ d.cmd = c.cmd
        BY <1>4, <2>12, <3>3, StepIs, LinearSyncAssumption DEF Continues, Over, Idle
      <4> QED
        BY <2>2, <3>1, <4>1 DEF InStep
    <3> QED
      BY <2>3, <2>4, <3>1, <3>2, <3>3, OneCommand
  <2> QED
    BY <2>1, <2>6, <2>7, <2>8, <2>9, <2>10, <2>11, <2>12 DEF Steps
<1> QED
  BY <1>3, <1>4

-----------------------------------------------------------------------------
\* Issues, files and what the commands hold agree, on every task.
LEMMA LinearInvAlways == LSpec => []LinearInv
<1>1. ASSUME LinearInv, [LNext]_lvars PROVE LinearInv'
  <2>1. LinearType'
    BY <1>1, LinearTypeStep
  <2>2. CASE UNCHANGED lvars
    <3>0. CommandShape'
      BY <1>1, <2>2 DEF LinearInv, lvars, CommandShape, Shaped
    <3>1. NumbersOnDisk' /\ (\A p \in Process : NumbersHeld(p)') /\ IssuesSound'
      BY <1>1, <2>2 DEF LinearInv, lvars, NumbersOnDisk, NumbersHeld, IssuesSound, IssueOf
    <3>2. QuietIsTidy'
      BY <1>1, <2>2 DEF LinearInv, lvars, QuietIsTidy, Quiet, Tidy, Alone, InStep, Single, OnDisk, IssueOf
    <3> QED
      BY <2>1, <3>0, <3>1, <3>2 DEF LinearInv
  <2>3. ASSUME NEW p \in Process, Acts(p) PROVE LinearInv'
    <3>1. LinearType /\ CommandShape /\ IssueNumbers /\ QuietIsTidy
      BY <1>1 DEF LinearInv, IssueNumbers
    <3>2. IssueNumbers' /\ CommandShape'
      BY <2>1, <2>3, <3>1, NumbersStep, ShapeStep
    <3>3. ASSUME NEW t \in Task, Quiet(t)' PROVE Tidy(t)'
      BY <2>1, <2>3, <3>1, <3>3, BeginTidy, StepTidy DEF Acts, Commands
    <3> QED
      BY <2>1, <3>2, <3>3 DEF LinearInv, IssueNumbers, QuietIsTidy
  <2> QED
    BY <1>1, <2>2, <2>3 DEF LNext, Acts
<1> QED
  BY <1>1, InitIInv, PTL DEF LSpec

\* A task gets a second issue only when a command on it failed, was killed or
\* overlapped with another, for any tasks, parents and number of commands at
\* once; and a parent ticket is an issue of the parent (linear_sync.py:117-160).
THEOREM OneIssuePerTask == LSpec => []OneIssue
<1>1. ASSUME LinearInv PROVE OneIssue
  <2>1. issue \in Seq(Issues) /\ DOMAIN issue = 1 .. Len(issue)
    BY <1>1, LenProperties DEF LinearInv, LinearType
  <2>2. ASSUME NEW i \in DOMAIN issue, NEW j \in DOMAIN issue, i # j, issue[i].of = issue[j].of
        PROVE  oddity[issue[i].of] \cap {"failed", "overlap"} # {}
    <3>1. issue[i].of \in Task
      <4>1. issue[i] \in Issues
        BY <2>1, <2>2, ElementOfSeq
      <4> QED
        BY <4>1 DEF Issues
    <3>2. ~Single(issue[i].of)
      BY <2>1, <2>2 DEF Single, IssueOf
    <3> QED
      BY <1>1, <3>1, <3>2 DEF LinearInv, QuietIsTidy, Quiet, Tidy
  <2>3. ASSUME NEW i \in DOMAIN issue, issue[i].parent # NoIssue
        PROVE  issue[issue[i].parent].of = Parent[issue[i].of]
    BY <1>1, <2>1, <2>3 DEF LinearInv, IssuesSound, IssueOf
  <2> QED
    BY <2>2, <2>3 DEF OneIssue
<1> QED
  BY <1>1, LinearInvAlways, PTL

-----------------------------------------------------------------------------
(* The issue follows the task.                                             *)

\* Every command on t ran alone to its end, and none started it again from the
\* archive; then its file and its issue agree, but for the command under way.
Undisturbed(t) == oddity[t] \subseteq {"by hand"} /\ task[t].place # "none"

StateFor(status) ==
  CASE status = "planning" -> "new"
    [] status = "in_progress" -> "In Progress"
    [] status = "completed" -> "Done"

Linked(t)  == task[t].whole /\ task[t].issue # NoIssue
Fresh(t)   == /\ task[t].whole /\ task[t].issue = NoIssue
              /\ task[t].status = "planning" /\ task[t].place = "tasks"
Settled(t) == /\ Linked(t)
              /\ task[t].place = "archive" <=> task[t].status = "completed"
              /\ issue[task[t].issue].state = StateFor(task[t].status)
Unfinished(t)    == Settled(t) /\ task[t].place = "tasks"

\* What holds of t before each step of the command of p on it.
Creating(p, t) ==
  \/ proc[p].at = "read" /\ (Settled(t) \/ Fresh(t))
  \/ proc[p].at = "call" /\ Fresh(t) /\ proc[p].held = task[t]
  \/ /\ proc[p].at = "write" /\ Fresh(t) /\ proc[p].held = task[t]
     /\ issue[proc[p].ticket].state = "new"
  \/ /\ proc[p].at = "fill" /\ task[t].place = "tasks" /\ proc[p].held.status = "planning"
     /\ issue[proc[p].ticket].state = "new"
Starting(p, t) ==
  \/ proc[p].at = "flip" /\ Unfinished(t)
  \/ /\ proc[p].at \in {"read", "call"} /\ Linked(t)
     /\ task[t].status = "in_progress" /\ task[t].place = "tasks"
     /\ proc[p].at = "call" => proc[p].ticket = task[t].issue
Archiving(p, t) ==
  \/ proc[p].at = "complete" /\ Unfinished(t)
  \/ /\ proc[p].at = "move" /\ Linked(t)
     /\ task[t].status = "completed" /\ task[t].place = "tasks"
  \/ /\ proc[p].at \in {"read", "call"} /\ Linked(t)
     /\ task[t].status = "completed" /\ task[t].place = "archive"
     /\ proc[p].at = "call" => proc[p].ticket = task[t].issue
Underway(p, t) ==
  \/ proc[p].cmd = "create" /\ Creating(p, t)
  \/ proc[p].cmd = "start" /\ Starting(p, t)
  \/ proc[p].cmd = "archive" /\ Archiving(p, t)

Follows(t) ==
  Undisturbed(t) =>
    /\ Busy(t) = {} => Settled(t)
    /\ \A p \in Process : proc[p].task = t => Underway(p, t)
AllFollow == \A t \in Task : Follows(t)

LEMMA InitFollows == LInit => AllFollow
BY DEF LInit, AllFollow, Follows, Undisturbed, Unborn

\* An issue changes only when a command updates it.
LEMMA StatesStay ==
  ASSUME LinearType, LinearType', NEW p \in Process, NumbersHeld(p), Acts(p),
         NEW i \in 1 .. Len(issue), ~(UpdateCall(p) /\ i = proc[p].ticket)
  PROVE  issue'[i] = issue[i]
<1>0. issue \in Seq(Issues) /\ Len(issue) \in Nat
  BY LenProperties DEF LinearType
<1>1. CASE issue' = issue
  BY <1>1
<1>2. CASE CreateCall(p)
  BY <1>0, <1>2 DEF CreateCall
<1>3. CASE UpdateCall(p)
  BY <1>0, <1>3, LenProperties DEF UpdateCall
<1> QED
  BY <1>1, <1>2, <1>3
     DEF Acts, Commands, Steps, Create, Start, Archive, RunCreate, Begin,
         StartFlip, ArchiveComplete, ArchiveMove, CreateRead, CreateOpen, CreateFill,
         UpdateRead, Fail

\* The state that a call gives an issue.
LEMMA CallStates ==
  ASSUME LinearType, NEW p \in Process, NumbersHeld(p)
  PROVE  /\ CreateCall(p) => issue'[Len(issue) + 1].state = "new"
         /\ UpdateCall(p) => issue'[proc[p].ticket].state =
                               IF proc[p].cmd = "start" THEN "In Progress" ELSE "Done"
<1>0. issue \in Seq(Issues) /\ Len(issue) \in Nat
  BY LenProperties DEF LinearType
<1>1. CreateCall(p) => issue'[Len(issue) + 1].state = "new"
  BY <1>0 DEF CreateCall
<1>2. ASSUME UpdateCall(p)
      PROVE  issue'[proc[p].ticket].state = IF proc[p].cmd = "start" THEN "In Progress" ELSE "Done"
  <2>1. proc[p].ticket \in 1 .. Len(issue)
    BY <1>2 DEF NumbersHeld, IssueOf, UpdateCall
  <2>2. issue[proc[p].ticket] \in Issues /\ DOMAIN issue = 1 .. Len(issue)
    BY <1>0, <2>1, ElementOfSeq, LenProperties
  <2> QED
    BY <1>2, <2>1, <2>2 DEF UpdateCall, Issues
<1> QED
  BY <1>1, <1>2

\* What a command's own steps make of it and of its task.
LEMMA OwnFollows ==
  ASSUME LinearType, LinearType', CommandShape, IssueNumbers, NEW p \in Process, Steps(p), ~Fail(p),
         NEW t \in Task, proc[p].task = t, InStep(p, t), Underway(p, t)
  PROVE  (Over(p) => Settled(t)') /\ (~Over(p) => Underway(p, t)')
<1> DEFINE c == proc[p]
<1> DEFINE d == proc'[p]
<1>0. /\ Acts(p) /\ NumbersHeld(p) /\ Shaped(p) /\ c \in Calls /\ d \in Calls
      /\ task \in [Task -> Json] /\ task[t] \in Json /\ task'[t] \in Json
      /\ c.place = task[t].place /\ Len(issue) \in Nat
      /\ (task[t].issue # NoIssue => IssueOf(task[t].issue, t))
  BY LenProperties DEF Acts, IssueNumbers, NumbersOnDisk, CommandShape, LinearType, InStep
<1>1. CASE StartFlip(p)
  <2>1. c.cmd = "start" /\ c.at = "flip" /\ Unfinished(t) /\ c.held = task[t] /\ InPlace(p)
    BY <1>0, <1>1 DEF StartFlip, Underway, Starting, InStep, InPlace
  <2>2. d.cmd = "start" /\ d.at = "read"
    BY <1>1, <2>1, StepIs DEF GoesOn, Continues
  <2>3. /\ task'[t].whole /\ task'[t].issue = task[t].issue
        /\ task'[t].status = "in_progress" /\ task'[t].place = "tasks"
    <3>1. CASE task[t].status = "planning"
      <4>1. task'[t] = [task[t] EXCEPT !.status = "in_progress"]
        BY <1>0, <1>1, <2>1, <3>1 DEF StartFlip, Unfinished, Settled, Linked
      <4> QED
        BY <1>0, <2>1, <4>1 DEF Json, Unfinished, Settled, Linked
    <3>2. CASE task[t].status # "planning"
      BY <1>0, <1>1, <2>1, <3>2 DEF StartFlip, Json, Statuses, Unfinished, Settled, Linked
    <3> QED
      BY <3>1, <3>2
  <2> QED
    BY <2>1, <2>2, <2>3 DEF Underway, Starting, Linked, Unfinished, Settled, Over, Idle
<1>2. CASE ArchiveComplete(p)
  <2>1. c.cmd = "archive" /\ c.at = "complete" /\ Unfinished(t) /\ c.held = task[t] /\ InPlace(p)
    BY <1>0, <1>2 DEF ArchiveComplete, Underway, Starting, Creating, Archiving, InStep, InPlace
  <2>2. d.cmd = "archive" /\ d.at = "move"
    BY <1>2, <2>1, StepIs DEF GoesOn, Continues
  <2>3. task'[t] = [task[t] EXCEPT !.status = "completed"]
    BY <1>0, <1>2, <2>1 DEF ArchiveComplete, Unfinished, Settled, Linked
  <2>4. /\ task'[t].whole /\ task'[t].issue = task[t].issue
        /\ task'[t].status = "completed" /\ task'[t].place = "tasks"
    BY <1>0, <2>1, <2>3 DEF Json, Unfinished, Settled, Linked
  <2> QED
    BY <2>1, <2>2, <2>4 DEF Underway, Archiving, Linked, Unfinished, Settled, Over, Idle
<1>3. CASE ArchiveMove(p)
  <2>1. c.cmd = "archive" /\ c.at = "move" /\ Linked(t) /\ task[t].status = "completed" /\ InPlace(p)
    BY <1>0, <1>3 DEF ArchiveMove, Underway, Starting, Creating, Archiving, InPlace
  <2>2. d.cmd = "archive" /\ d.at = "read"
    BY <1>3, <2>1, StepIs DEF Continues
  <2>3. task'[t] = [task[t] EXCEPT !.place = "archive"]
    BY <1>0, <1>3, <2>1 DEF ArchiveMove
  <2>4. /\ task'[t].whole /\ task'[t].issue = task[t].issue
        /\ task'[t].status = "completed" /\ task'[t].place = "archive"
    BY <1>0, <2>1, <2>3 DEF Json, Linked
  <2> QED
    BY <2>1, <2>2, <2>4 DEF Underway, Archiving, Linked, Over, Idle
<1>4. CASE CreateRead(p)
  <2>1. /\ c.cmd = "create" /\ c.at = "read" /\ (Settled(t) \/ Fresh(t)) /\ task[t].whole
        /\ task' = task /\ issue' = issue
    BY <1>4 DEF CreateRead, Underway, Creating, Settled, Linked, Fresh
  <2>2. Readable(p)
    BY <1>0, <2>1 DEF Readable, InPlace
  <2>3. CASE Fresh(t)
    <3>0. proc' = [proc EXCEPT ![p].at = "call", ![p].held = task[t], ![p].ticket = ParentIssue(p)]
      BY <1>4, <2>2, <2>3 DEF CreateRead, Fresh
    <3>1. d.cmd = "create" /\ d.at = "call" /\ d.held = task[t]
      BY <1>0, <2>1, <3>0, ZenonT(60) DEF LinearType, Calls
    <3> QED
      BY <2>1, <2>3, <3>1 DEF Underway, Creating, Fresh, Over, Idle
  <2>4. CASE Settled(t)
    <3>1. Over(p)
      BY <1>4, <2>4, StepIs DEF Settled, Linked
    <3> QED
      BY <2>1, <2>4, <3>1 DEF Settled, Linked
  <2> QED
    BY <2>1, <2>3, <2>4
<1>5. CASE CreateCall(p)
  <2>1. c.cmd = "create" /\ c.at = "call" /\ Fresh(t) /\ c.held = task[t] /\ task' = task
    BY <1>5 DEF CreateCall, Underway, Creating
  <2>2. /\ d.cmd = "create" /\ d.at = "write" /\ d.held = c.held /\ d.ticket = Len(issue) + 1
    BY <1>5, <2>1, StepIs DEF Continues
  <2>3. issue'[d.ticket].state = "new"
    BY <1>0, <1>5, <2>2, CallStates
  <2> QED
    BY <2>1, <2>2, <2>3 DEF Underway, Creating, Fresh, Over, Idle
<1>6. CASE CreateOpen(p)
  <2>1. /\ c.cmd = "create" /\ c.at = "write" /\ Fresh(t) /\ c.held = task[t]
        /\ issue[c.ticket].state = "new" /\ issue' = issue /\ InPlace(p)
    BY <1>0, <1>6 DEF CreateOpen, Underway, Creating, Starting, Archiving, InPlace
  <2>2. d.cmd = "create" /\ d.at = "fill" /\ d.held = c.held /\ d.ticket = c.ticket
    BY <1>6, <2>1, StepIs DEF GoesOn, Continues
  <2>3. task'[t] = [task[t] EXCEPT !.whole = FALSE]
    BY <1>0, <1>6, <2>1 DEF CreateOpen
  <2>4. task'[t].place = "tasks" /\ d.held.status = "planning"
    BY <1>0, <2>1, <2>2, <2>3 DEF Json, Fresh
  <2> QED
    BY <2>1, <2>2, <2>4 DEF Underway, Creating, Over, Idle
<1>7. CASE CreateFill(p)
  <2>1. /\ c.at = "fill" /\ task[t].place = "tasks" /\ c.held.status = "planning"
        /\ issue[c.ticket].state = "new" /\ issue' = issue /\ ~task[t].whole
    BY <1>7 DEF CreateFill, Underway, Creating, Starting, Archiving, InStep
  <2>2. c.held \in Json /\ c.held.whole /\ c.ticket \in 1 .. Len(issue) /\ Over(p)
    BY <1>0, <1>7, <2>1, StepIs DEF Shaped, NumbersHeld, IssueOf
  <2>3. task'[t] = [c.held EXCEPT !.issue = c.ticket, !.place = task[t].place]
    BY <1>0, <1>7, <2>1 DEF CreateFill
  <2>4. /\ task'[t].whole /\ task'[t].issue = c.ticket /\ task'[t].status = "planning"
        /\ task'[t].place = "tasks"
    BY <2>1, <2>2, <2>3 DEF Json
  <2> QED
    BY <1>0, <2>1, <2>2, <2>4 DEF Settled, Linked, StateFor
<1>8. CASE UpdateRead(p)
  <2>1. /\ c.cmd \in {"start", "archive"} /\ c.at = "read" /\ Linked(t)
        /\ task' = task /\ issue' = issue
    BY <1>8 DEF UpdateRead, Underway, Starting, Archiving
  <2>2. Readable(p)
    BY <1>0, <2>1 DEF Readable, InPlace, Linked
  <2>3. proc' = [proc EXCEPT ![p].at = "call", ![p].ticket = task[t].issue]
    BY <1>8, <2>1, <2>2 DEF UpdateRead, Linked
  <2>4. d.cmd = c.cmd /\ d.at = "call" /\ d.ticket = task[t].issue
    BY <1>0, <2>3 DEF LinearType, Calls
  <2> QED
    BY <2>1, <2>4 DEF Underway, Starting, Archiving, Linked, Over, Idle
<1>9. CASE UpdateCall(p)
  <2>1. /\ c.at = "call" /\ Linked(t) /\ c.ticket = task[t].issue /\ task' = task
        /\ \/ c.cmd = "start" /\ task[t].status = "in_progress" /\ task[t].place = "tasks"
           \/ c.cmd = "archive" /\ task[t].status = "completed" /\ task[t].place = "archive"
    BY <1>9 DEF UpdateCall, Underway, Starting, Archiving
  <2>2. issue'[task[t].issue].state = IF c.cmd = "start" THEN "In Progress" ELSE "Done"
    BY <1>0, <1>9, <2>1, CallStates
  <2>3. Over(p)
    BY <1>9, StepIs
  <2> QED
    BY <2>1, <2>2, <2>3 DEF Settled, Linked, StateFor
<1> QED
  BY <1>1, <1>2, <1>3, <1>4, <1>5, <1>6, <1>7, <1>8, <1>9 DEF Steps

\* What happens to other tasks does not disturb t.
LEMMA OthersFollow ==
  ASSUME IssueNumbers, NEW t \in Task, Follows(t), task'[t] = task[t], oddity[t] \subseteq oddity'[t],
         \A q \in Process : (proc[q].task = t \/ proc'[q].task = t) => proc'[q] = proc[q],
         \A i : IssueOf(i, t) => issue'[i] = issue[i]
  PROVE  Follows(t)'
<1> SUFFICES ASSUME Undisturbed(t)' PROVE /\ Busy(t)' = {} => Settled(t)'
                                          /\ \A q \in Process : proc'[q].task = t => Underway(q, t)'
  BY DEF Follows
<1>1. Undisturbed(t)
  BY DEF Undisturbed
<1>2. Settled(t) => Settled(t)'
  <2>1. Settled(t) => IssueOf(task[t].issue, t)
    BY DEF IssueNumbers, NumbersOnDisk, Settled, Linked
  <2> QED
    BY <2>1 DEF Settled, Linked
<1>3. Busy(t)' = Busy(t)
  BY DEF Busy
<1>4. ASSUME NEW q \in Process, proc'[q].task = t PROVE Underway(q, t)'
  <2>1. proc'[q] = proc[q] /\ Underway(q, t) /\ NumbersHeld(q)
    BY <1>1, <1>4 DEF Follows, IssueNumbers
  <2>2. proc[q].at \in {"write", "fill"} => issue'[proc[q].ticket] = issue[proc[q].ticket]
    BY <1>4, <2>1 DEF NumbersHeld
  <2> QED
    BY <1>2, <2>1, <2>2 DEF Underway, Creating, Starting, Archiving, Fresh, Unfinished, Linked
<1> QED
  BY <1>1, <1>2, <1>3, <1>4 DEF Follows

\* The issues of t stay, unless a command on t updates one.
LEMMA IssuesOfOthers ==
  ASSUME LinearType, LinearType', NEW p \in Process, NumbersHeld(p), Acts(p), NEW t \in Task,
         ~(UpdateCall(p) /\ proc[p].task = t)
  PROVE  \A i : IssueOf(i, t) => issue'[i] = issue[i]
BY StatesStay, UpdateOfIssue DEF IssueOf

LEMMA BeginFollows ==
  ASSUME LinearType, LinearType', IssueNumbers, AllFollow, NEW p \in Process, NEW u \in Task,
         Create(p, u) \/ Start(p, u) \/ Archive(p, u) \/ RunCreate(p, u), NEW t \in Task
  PROVE  Follows(t)'
<1>0. /\ Acts(p) /\ Follows(t) /\ NumbersHeld(p) /\ proc[p] = Idle /\ proc[p].task = NoTask
      /\ ~UpdateCall(p) /\ issue' = issue
  <2>1. Acts(p) /\ Follows(t) /\ NumbersHeld(p)
    BY DEF Acts, Commands, AllFollow, IssueNumbers
  <2>2. proc[p] = Idle /\ issue' = issue
    BY DEF Create, Start, Archive, RunCreate, Begin
  <2> QED
    BY <2>1, <2>2 DEF Idle, UpdateCall
<1>1. \A q \in Process : q # p => proc'[q] = proc[q]
  BY <1>0, OthersStay
<1>2. PICK cmd \in {"create", "start", "archive"}, at \in {"read", "flip", "complete"},
             place \in Places, held \in Json \cup {NoTask} :
        proc'[p] = Begun(cmd, u, at, place, held)
  BY StartsHow
<1>3. proc'[p].task = u
  BY <1>2, BegunFields
<1>4. CASE t # u
  <2>1. task'[t] = task[t] /\ oddity[t] \subseteq oddity'[t]
    BY <1>4, StartsTask
  <2>2. \A q \in Process : (proc[q].task = t \/ proc'[q].task = t) => proc'[q] = proc[q]
    BY <1>0, <1>1, <1>3, <1>4, LinearSyncAssumption
  <2> QED
    BY <1>0, <2>1, <2>2, IssuesOfOthers, OthersFollow
<1>5. CASE t = u /\ Undisturbed(t)'
  <2>1. Busy(t) = {} /\ oddity[t] \subseteq {"by hand"}
    <3>1. "overlap" \notin oddity'[t] /\ oddity'[t] \subseteq {"by hand"}
      BY <1>5 DEF Undisturbed
    <3>2. (Busy(t) # {} => "overlap" \in oddity'[t]) /\ oddity[t] \subseteq oddity'[t]
      BY <1>5, StartsTask
    <3> QED
      BY <3>1, <3>2
  <2>2. \A q \in Process : q # p => proc'[q].task # t
    BY <1>1, <2>1 DEF Busy
  <2>3. task[t].place # "none" => Settled(t)
    BY <1>0, <2>1 DEF Follows, Undisturbed
  <2>4. Underway(p, t)'
    <3>1. CASE Create(p, t)
      <4>1. task'[t] = [Unborn EXCEPT !.place = "tasks"]
        BY <3>1 DEF Create, LinearType
      <4>2. proc'[p].cmd = "create" /\ proc'[p].at = "read"
        BY <3>1, StartsIs, BegunFields
      <4> QED
        BY <4>1, <4>2 DEF Underway, Creating, Fresh, Unborn
    <3>2. CASE Start(p, t)
      <4>1. task' = task /\ task[t].place # "none"
        BY <3>2 DEF Start
      <4>2. task[t].place = "tasks"
        <5>1. task[t].place = "archive" => "restart" \in oddity'[t]
          BY <3>2 DEF Start, Begin, Oddly, LinearType
        <5> QED
          BY <1>5, <4>1, <5>1 DEF Undisturbed, LinearType, Json, Places
      <4>3. proc'[p].cmd = "start" /\ proc'[p].at = "flip"
        BY <3>2, StartsIs, BegunFields
      <4> QED
        BY <1>0, <2>3, <4>1, <4>2, <4>3 DEF Underway, Starting, Unfinished, Settled, Linked
    <3>3. CASE Archive(p, t)
      <4>1. task' = task /\ task[t].place = "tasks"
        BY <3>3 DEF Archive
      <4>2. proc'[p].cmd = "archive" /\ proc'[p].at = "complete"
        BY <3>3, StartsIs, BegunFields
      <4> QED
        BY <1>0, <2>3, <4>1, <4>2 DEF Underway, Archiving, Unfinished, Settled, Linked
    <3>4. CASE RunCreate(p, t)
      <4>1. task' = task /\ task[t].place = "tasks"
        BY <3>4 DEF RunCreate
      <4>2. proc'[p].cmd = "create" /\ proc'[p].at = "read"
        BY <3>4, StartsIs, BegunFields
      <4> QED
        BY <1>0, <2>3, <4>1, <4>2 DEF Underway, Creating, Settled, Linked
    <3> QED
      BY <1>5, <3>1, <3>2, <3>3, <3>4
  <2> QED
    BY <1>3, <1>5, <2>2, <2>4 DEF Follows, Busy
<1> QED
  BY <1>4, <1>5 DEF Follows

LEMMA StepFollows ==
  ASSUME LinearType, LinearType', CommandShape, IssueNumbers, QuietIsTidy, AllFollow,
         NEW p \in Process, Steps(p), NEW t \in Task
  PROVE  Follows(t)'
<1>0. Acts(p) /\ Follows(t) /\ NumbersHeld(p) /\ proc[p].task \in Task
  BY StepOfTask DEF Acts, AllFollow, IssueNumbers
<1>1. \A q \in Process : q # p => proc'[q] = proc[q]
  BY <1>0, OthersStay
<1>2. (proc'[p].task = proc[p].task /\ ~Over(p)) \/ Over(p)
  BY StepIs DEF Steps, GoesOn, Continues, Over
<1>3. CASE t # proc[p].task
  <2>1. task'[t] = task[t] /\ oddity'[t] = oddity[t]
    BY <1>3, OtherTasks
  <2>2. \A q \in Process : (proc[q].task = t \/ proc'[q].task = t) => proc'[q] = proc[q]
    BY <1>1, <1>2, <1>3, LinearSyncAssumption DEF Over, Idle
  <2> QED
    BY <1>0, <1>3, <2>1, <2>2, IssuesOfOthers, OthersFollow
<1>4. CASE t = proc[p].task /\ Undisturbed(t)'
  <2>1. ~Fail(p)
    <3>1. "failed" \notin oddity'[t]
      BY <1>4 DEF Undisturbed
    <3>2. Fail(p) => oddity' = [oddity EXCEPT ![t] = @ \cup {"failed"}]
      BY <1>4 DEF Fail, Oddly
    <3> QED
      BY <3>1, <3>2 DEF LinearType
  <2>2. oddity' = oddity
    BY <2>1 DEF Steps, StartFlip, ArchiveComplete, ArchiveMove, CreateRead, CreateCall,
       CreateOpen, CreateFill, UpdateRead, UpdateCall
  <2>3. Undisturbed(t) /\ Quiet(t)
    BY <1>4, <2>2 DEF Undisturbed, Quiet, CommandShape, Shaped
  <2>4. Tidy(t) /\ InStep(p, t) /\ Underway(p, t)
    BY <1>0, <1>4, <2>3 DEF QuietIsTidy, Tidy, Follows
  <2>5. \A q \in Process : q # p => proc'[q].task # t
    BY <1>1, <1>4, <2>4 DEF Tidy, Alone
  <2>6. (Over(p) => Settled(t)') /\ (~Over(p) => Underway(p, t)')
    BY <1>4, <2>1, <2>4, OwnFollows
  <2>7. CASE Over(p)
    BY <2>5, <2>6, <2>7, LinearSyncAssumption DEF Over, Idle, Follows
  <2>8. CASE ~Over(p)
    BY <1>2, <1>4, <2>5, <2>6, <2>8 DEF Follows, Busy
  <2> QED
    BY <2>7, <2>8
<1> QED
  BY <1>3, <1>4 DEF Follows

\* Between the commands on a task, its issue is linked, is the task's, and has
\* the state that the status of the task calls for, and task.json is whole, as
\* long as every command ran alone to its end and none started the task again
\* from the archive; whatever happens to other tasks (linear_sync.py:117-214).
THEOREM IssueOfTask == LSpec => []IssueFollowsTask
<1>1. LInit => AllFollow
  BY InitFollows
<1>2. LinearInv /\ LinearInv' /\ AllFollow /\ [LNext]_lvars => AllFollow'
  <2> SUFFICES ASSUME LinearInv, LinearInv', AllFollow, [LNext]_lvars, NEW t \in Task PROVE Follows(t)'
    BY DEF AllFollow
  <2>1. LinearType /\ LinearType' /\ CommandShape /\ IssueNumbers /\ QuietIsTidy
    BY DEF LinearInv, IssueNumbers
  <2>2. CASE UNCHANGED lvars
    <3>1. Follows(t)
      BY DEF AllFollow
    <3> QED
      BY <2>1, <2>2, <3>1, OthersFollow DEF lvars
  <2>3. ASSUME NEW p \in Process, Commands(p) PROVE Follows(t)'
    BY <2>1, <2>3, BeginFollows DEF Commands
  <2>4. ASSUME NEW p \in Process, Steps(p) PROVE Follows(t)'
    BY <2>1, <2>4, StepFollows
  <2> QED
    BY <2>2, <2>3, <2>4 DEF LNext
<1>3. LinearInv /\ AllFollow => IssueFollowsTask
  <2> SUFFICES ASSUME LinearInv, AllFollow, NEW t \in Task, oddity[t] \subseteq {"by hand"}, Busy(t) = {},
                      task[t].place # "none"
               PROVE  /\ task[t].whole /\ task[t].issue # NoIssue /\ issue[task[t].issue].of = t
                      /\ issue[task[t].issue].state = StateFor(task[t].status)
    BY DEF IssueFollowsTask, StateFor
  <2>1. Settled(t)
    BY DEF AllFollow, Follows, Undisturbed
  <2> QED
    BY <2>1 DEF LinearInv, NumbersOnDisk, IssueOf, Settled, Linked
<1> QED
  BY <1>1, <1>2, <1>3, LinearInvAlways, PTL DEF LSpec
=============================================================================
