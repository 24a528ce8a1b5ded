--------------------------- MODULE MCDeviceReports ---------------------------
(***************************************************************************)
(* Which server each node is on, for TLC: node 1 on Self, 2 elsewhere.     *)
(***************************************************************************)
EXTENDS DeviceReports, TLC

CONSTANTS s1, s2, a, b

HomeOf == [n \in Nodes |-> IF n = 1 THEN s1 ELSE s2]
=============================================================================
