------------------------------ MODULE Versions ------------------------------
(***************************************************************************)
(* The order of versions that decides whether a session is told of an      *)
(* update (_parse_version, _compare_prerelease and _compare_versions of    *)
(* common/session_context.py).                                             *)
(*                                                                         *)
(* A version is one to three numbers and the parts of its prerelease, if   *)
(* it has one.  A part is a number, without leading zeros, or a word; a    *)
(* word stands for its rank among words.                                   *)
(***************************************************************************)
EXTENDS Naturals, Sequences

Part    == [kind : {"number", "word"}, value : Nat]
Version == [numbers : {n \in Seq(Nat) : Len(n) \in 1 .. 3}, prerelease : Seq(Part)]

\* Missing numbers are zero.
Numbers(v) == [i \in 1 .. 3 |-> IF i \in DOMAIN v.numbers THEN v.numbers[i] ELSE 0]

Order(a, b) == IF a < b THEN "below" ELSE IF a > b THEN "above" ELSE "same"

\* Mutant: words come before numbers.
PartOrderWordsFirst(p, q) ==
  IF p.kind = q.kind THEN Order(p.value, q.value)
  ELSE IF p.kind = "word" THEN "below" ELSE "above"

PartOrder(p, q) ==
  IF p.kind = q.kind THEN Order(p.value, q.value)
  ELSE IF p.kind = "number" THEN "below" ELSE "above"

\* The first place in which two sequences differ within their common length.
FirstDifference(s, t) ==
  LET differ == {i \in DOMAIN s \cap DOMAIN t : s[i] # t[i]}
  IN  IF differ = {} THEN 0 ELSE CHOOSE i \in differ : \A j \in differ : i <= j

\* _compare_prerelease; no parts stand for a release.
PrereleaseOrder(s, t) ==
  LET i == FirstDifference(s, t) IN
  IF s = t THEN "same"
  ELSE IF s = <<>> THEN "above"
  ELSE IF t = <<>> THEN "below"
  ELSE IF i # 0 THEN PartOrder(s[i], t[i])
  ELSE Order(Len(s), Len(t))

\* _compare_versions.
VersionOrder(v, w) ==
  LET i == FirstDifference(Numbers(v), Numbers(w))
  IN  IF i # 0 THEN Order(Numbers(v)[i], Numbers(w)[i])
      ELSE PrereleaseOrder(v.prerelease, w.prerelease)

-----------------------------------------------------------------------------
\* What the order stands for: a version as a sequence of pairs of numbers whose
\* lexicographic order is precedence.  Numbers come before words, the end of
\* a prerelease before any part, and a prerelease before the release.
Rank(p) == IF p.kind = "number" THEN 1 ELSE 2
Key(v) ==
  [i \in 1 .. 3 |-> <<0, Numbers(v)[i]>>] \o
  IF v.prerelease = <<>> THEN << <<3, 0>> >>
  ELSE Append([i \in DOMAIN v.prerelease |-> <<Rank(v.prerelease[i]), v.prerelease[i].value>>],
              <<0, 0>>)
Before(a, b) == a[1] < b[1] \/ (a[1] = b[1] /\ a[2] < b[2])
Precedes(k, l) ==
  \E i \in DOMAIN k \cap DOMAIN l : Before(k[i], l[i]) /\ \A j \in 1 .. i - 1 : k[j] = l[j]
=============================================================================
