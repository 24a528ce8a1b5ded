---------------------------- MODULE TrafficLedger ----------------------------
(***************************************************************************)
(* What the traffic pipeline promises, whatever batches, replies and       *)
(* restarts it takes: a byte is metered once, and from then on it is       *)
(* either charged to its user or written off, once and for all.            *)
(* (The contract of POST /api/agent/traffic: duplicates are not counted    *)
(* twice; the counters of the panel only grow.)                            *)
(***************************************************************************)
EXTENDS Integers

CONSTANT Pairs

VARIABLES
    metered,  \* bytes relayed, per pair
    counted,  \* bytes charged, per pair
    lost      \* bytes written off, per pair

ledger == <<metered, counted, lost>>

LedgerInit ==
    /\ metered = [p \in Pairs |-> 0]
    /\ counted = [p \in Pairs |-> 0]
    /\ lost    = [p \in Pairs |-> 0]

Meter(p) ==
    /\ metered' = [metered EXCEPT ![p] = @ + 1]
    /\ UNCHANGED <<counted, lost>>

\* Some bytes that are neither charged nor written off are charged.
Charge ==
    /\ \A p \in Pairs : counted[p] <= counted'[p]
    /\ \A p \in Pairs : counted'[p] + lost[p] <= metered[p]
    /\ UNCHANGED <<metered, lost>>

\* Some of them are written off.
WriteOff ==
    /\ \A p \in Pairs : lost[p] <= lost'[p]
    /\ \A p \in Pairs : counted[p] + lost'[p] <= metered[p]
    /\ UNCHANGED <<metered, counted>>

LedgerNext == (\E p \in Pairs : Meter(p)) \/ Charge \/ WriteOff

LedgerSpec == LedgerInit /\ [][LedgerNext]_ledger
=============================================================================
