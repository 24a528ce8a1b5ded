---------------------------- MODULE WorkflowText ----------------------------
(***************************************************************************)
(* The platform blocks of workflow.md (filter_platform of                  *)
(* common/workflow_phase.py).  A line opens a block for some platforms,    *)
(* closes a block, or is text; the closing marker does not have to name    *)
(* the platforms of the opening one.                                       *)
(***************************************************************************)
EXTENDS Naturals, Sequences

\* The lines of ls at the given places, in their order.
Picked(ls, places) ==
  LET picked[i \in 0 .. Len(ls)] ==
        IF i = 0 THEN <<>>
        ELSE IF i \in places THEN Append(picked[i - 1], ls[i]) ELSE picked[i - 1]
  IN  picked[Len(ls)]

\* Mutant: a closing marker leaves the decision of its block in force.
ScanStaysOpen(s, l, platform) ==
  IF l.kind = "open" THEN [s EXCEPT !.inBlock = TRUE, !.keep = platform \in l.names]
  ELSE IF l.kind = "close" THEN s
  ELSE IF s.inBlock /\ ~s.keep THEN s
  ELSE [s EXCEPT !.out = Append(@, l)]

\* One line of filter_platform: markers are dropped, text is kept outside of
\* blocks and in those that name the platform (_platform_matches).
Scan(s, l, platform) ==
  IF l.kind = "open" THEN [s EXCEPT !.inBlock = TRUE, !.keep = platform \in l.names]
  ELSE IF l.kind = "close" THEN [s EXCEPT !.inBlock = FALSE, !.keep = FALSE]
  ELSE IF s.inBlock /\ ~s.keep THEN s
  ELSE [s EXCEPT !.out = Append(@, l)]

Kept(ls, platform) ==
  LET scan[i \in 0 .. Len(ls)] ==
        IF i = 0 THEN [out |-> <<>>, inBlock |-> FALSE, keep |-> FALSE]
        ELSE Scan(scan[i - 1], ls[i], platform)
  IN  scan[Len(ls)].out

\* Runs of blank lines are cut to two, and those at the end are dropped.
Blank(l) == l.kind = "blank"
Collapsed(ls) ==
  LET out[i \in 0 .. Len(ls)] ==
        IF i = 0 THEN <<>>
        ELSE LET s == out[i - 1] IN
             IF Blank(ls[i]) /\ Len(s) > 1 /\ Blank(s[Len(s)]) /\ Blank(s[Len(s) - 1])
             THEN s ELSE Append(s, ls[i])
  IN  out[Len(ls)]
Trimmed(ls) ==
  LET full == {i \in DOMAIN ls : ~Blank(ls[i])} IN
  SubSeq(ls, 1, IF full = {} THEN 0 ELSE CHOOSE i \in full : \A j \in full : j <= i)

FilterPlatform(ls, platform) == Trimmed(Collapsed(Kept(ls, platform)))

-----------------------------------------------------------------------------
\* What the filter stands for: a line belongs to the last marker above it.
Governed(ls, i, platform) ==
  LET above == {j \in 1 .. i - 1 : ls[j].kind \in {"open", "close"}} IN
  \/ above = {}
  \/ LET last == CHOOSE j \in above : \A k \in above : k <= j
     IN  ls[last].kind = "close" \/ platform \in ls[last].names
TextFor(ls, platform) ==
  Picked(ls, {i \in DOMAIN ls : ls[i].kind = "text" /\ Governed(ls, i, platform)})
=============================================================================
