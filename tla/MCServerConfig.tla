--------------------------- MODULE MCServerConfig ---------------------------
(***************************************************************************)
(* Two nodes on one server and one on another, for TLC.                    *)
(***************************************************************************)
EXTENDS ServerConfig, TLC

CONSTANTS s1, s2, n1, n2, n3, u1

HomeOf == n1 :> s1 @@ n2 :> s1 @@ n3 :> s2
=============================================================================
