---------------------------- MODULE MCConfigSync ----------------------------
(***************************************************************************)
(* Two servers with a node each, for TLC.                                  *)
(***************************************************************************)
EXTENDS ConfigSync, TLC

CONSTANTS s1, s2, n1, n2, u1

HomeOf == n1 :> s1 @@ n2 :> s2
=============================================================================
