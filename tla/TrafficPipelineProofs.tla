------------------------ MODULE TrafficPipelineProofs ------------------------
(***************************************************************************)
(* Proofs about TrafficPipeline, for every set of pairs, batch size and    *)
(* bound.                                                                  *)
(***************************************************************************)
EXTENDS TrafficPipeline, FiniteSetTheorems, WellFoundedInduction, TLAPS

(***************************************************************************)
(* A non-empty set of naturals has a least element.                        *)
(***************************************************************************)
LEMMA Least ==
    ASSUME NEW S, S \subseteq Nat, S # {}
    PROVE  \E s \in S : \A t \in S : s <= t
<1>1. PICK s \in S : \A t \in S : <<t, s>> \notin OpToRel(<, Nat)
  BY NatLessThanWellFounded, WFMin, Zenon
<1>2. \A t \in S : ~(t < s)
  BY <1>1 DEF OpToRel
<1> QED
  BY <1>2

(***************************************************************************)
(* The batch sent next is the frozen one with the least number.            *)
(***************************************************************************)
LEMMA NextSeqLeast ==
    ASSUME slot \in [Pairs -> Nat], Outbox # {}
    PROVE  /\ NextSeq \in Nat \ {0}
           /\ \E p \in Outbox : slot[p] = NextSeq
           /\ \A p \in Outbox : NextSeq <= slot[p]
<1> DEFINE S == {slot[p] : p \in Outbox}
<1>1. S \subseteq Nat /\ S # {}
  BY DEF Outbox
<1>2. \E s \in S : \A t \in S : s <= t
  BY <1>1, Least
<1>3. \E s \in S : \A p \in Outbox : s <= slot[p]
  BY <1>2
<1>4. NextSeq \in S /\ \A p \in Outbox : NextSeq <= slot[p]
  BY <1>3 DEF NextSeq
<1> QED
  BY <1>4 DEF Outbox

(***************************************************************************)
(* Freezing numbers the batches above TrafficBatchSeq.                     *)
(***************************************************************************)
LEMMA SlotAbove ==
    ASSUME batchSeq \in Nat, NEW load, NEW p \in Pairs
    PROVE  SlotOf(p, load) \in Nat /\ SlotOf(p, load) > batchSeq
<1> DEFINE before == {q \in Pairs : q < p /\ load[q] > 0}
<1>1. Cardinality(before) \in Nat
  BY PairsAssumption, FS_Subset, FS_CardinalityType
<1> HIDE DEF before
<1>2. Cardinality(before) \div MaxBatchRecords \in Nat
  BY <1>1, BatchAssumption
<1>3. SlotOf(p, load) = batchSeq + 1 + (Cardinality(before) \div MaxBatchRecords)
  BY DEF SlotOf, before
<1> QED
  BY <1>2, <1>3

\* Cutting well-typed deltas into batches gives well-typed frozen batches.
LEMMA FreezeType ==
    ASSUME TypeOK, NEW load, load \in [Pairs -> Nat], Freeze(load)
    PROVE  /\ slot' \in [Pairs -> Nat]
           /\ frozen' = load /\ pending' = Zero
           /\ stale' \subseteq stale
           /\ \A p \in Pairs : slot'[p] # 0 <=> load[p] > 0
           /\ \A p \in Pairs : slot'[p] # 0 => slot'[p] > batchSeq
<1>1. \A p \in Pairs : SlotOf(p, load) \in Nat /\ SlotOf(p, load) > batchSeq
  BY SlotAbove DEF TypeOK
<1>2. slot' = [p \in Pairs |-> IF load[p] > 0 THEN SlotOf(p, load) ELSE 0]
  BY DEF Freeze
<1>3. batchSeq \in Nat
  BY DEF TypeOK
<1> QED
  BY <1>1, <1>2, <1>3 DEF Freeze

(***************************************************************************)
(* Type correctness, together with two facts of the agent alone: it only   *)
(* sends when it has a frozen batch, and what it has seen of a counter is  *)
(* never ahead of the counter.                                             *)
(***************************************************************************)
Busy == pc \in {"send", "wait"} => Outbox # {}

Behind == \A p \in Pairs : lastSeen[p] <= total[p]

TypeInv == TypeOK /\ Busy /\ Behind

\* The empty map of counters is a map of counters.
LEMMA ZeroType == Zero \in [Pairs -> Nat]
  BY DEF Zero

\* A fresh agent and an empty panel are well typed.
LEMMA TypeInit == Init => TypeInv
<1> SUFFICES ASSUME Init PROVE TypeInv
  OBVIOUS
<1>1. TypeOK
  BY ZeroType DEF Init, TypeOK
<1>2. Busy /\ Behind
  BY DEF Init, Busy, Behind, Zero
<1> QED
  BY <1>1, <1>2 DEF TypeInv

\* telemetryPass keeps the types, whether or not it freezes.
LEMMA TypeTelemetry == TypeInv /\ TelemetryPass => TypeInv'
<1> SUFFICES ASSUME TypeInv, TelemetryPass
             PROVE  TypeInv'
  OBVIOUS
<1> DEFINE load == [p \in Pairs |-> pending[p] + Delta(p)]
<1>1. load \in [Pairs -> Nat]
  BY DEF Delta, TypeInv, TypeOK
<1>2. TypeOK
  BY DEF TypeInv
<1> HIDE DEF load
<1>3. UNCHANGED <<total, kernel, batchSeq, wire, admitted, reply, auth,
                  recorded, counted, faults, metered, lost>> /\ lastSeen' = total
  BY DEF TelemetryPass, kernelVars, netVars, panelVars, history
<1>31. Behind'
  BY <1>2, <1>3 DEF Behind, TypeOK
<1>4. CASE Outbox = {} /\ (\E p \in Pairs : load[p] > 0) /\ Freeze(load) /\ pc' = "send"
  <2>1. /\ slot' \in [Pairs -> Nat]
        /\ frozen' = load /\ pending' = Zero
        /\ stale' \subseteq stale
        /\ \A p \in Pairs : slot'[p] # 0 <=> load[p] > 0
    BY <1>1, <1>2, <1>4, FreezeType
  <2>2. Zero \in [Pairs -> Nat]
    BY DEF Zero
  <2>3. TypeOK'
    BY <1>1, <1>2, <1>3, <1>4, <2>1, <2>2 DEF TypeOK
  <2>4. Outbox' # {}
    BY <1>4, <2>1 DEF Outbox
  <2> QED
    BY <1>31, <2>3, <2>4 DEF TypeInv, Busy
<1>5. CASE Outbox # {} /\ pending' = load /\ pc' = "send" /\ UNCHANGED <<slot, frozen, stale>>
  BY <1>1, <1>2, <1>3, <1>31, <1>5 DEF TypeOK, TypeInv, Busy, Outbox
<1>6. CASE UNCHANGED <<pending, slot, frozen, stale, pc>>
  BY <1>2, <1>3, <1>31, <1>6 DEF TypeOK, TypeInv, Busy, Outbox
<1> QED
  BY <1>4, <1>5, <1>6 DEF TelemetryPass, load

\* Every step of the pipeline keeps the types.
LEMMA TypeStep == TypeInv /\ [Next]_vars => TypeInv'
<1> SUFFICES ASSUME TypeInv, [Next]_vars
             PROVE  TypeInv'
  OBVIOUS
<1> USE DEF TypeInv, TypeOK, Busy, Behind, Outbox, kernelVars, agentVars,
            netVars, panelVars, history
<1>1. CASE Heartbeat
  BY <1>1 DEF Heartbeat
<1>2. CASE HeartbeatFails
  BY <1>2 DEF HeartbeatFails
<1>3. CASE SyncCollect
  BY <1>3 DEF SyncCollect, Delta
<1>4. CASE KernelStarted
  BY <1>4, ZeroType DEF KernelStarted, Delta
<1>5. CASE KernelFailed
  BY <1>5 DEF KernelFailed
<1>6. CASE TelemetryPass
  BY <1>6, TypeTelemetry
<1>7. CASE Send
  <2>1. Batch(NextSeq) \in Messages
    BY <1>7, NextSeqLeast DEF Send, Batch, Messages
  <2> QED
    BY <1>7, <2>1 DEF Send
<1>8. CASE Timeout
  BY <1>8 DEF Timeout, Abandon
<1>9. CASE Acked
  <2>1. NextSeq \in Nat \ {0}
    BY <1>9, NextSeqLeast DEF Acked
  <2> QED
    BY <1>9, <2>1 DEF Acked, Retire
<1>10. CASE Rejected
  <2>1. NextSeq \in Nat \ {0}
    BY <1>10, NextSeqLeast DEF Rejected
  <2> QED
    BY <1>10, <2>1 DEF Rejected, Retire
<1>11. ASSUME NEW m \in wire, Validate(m)
       PROVE  TypeInv'
  BY <1>11 DEF Validate, Take, Answer
<1>12. ASSUME NEW m \in admitted, Ingest(m)
       PROVE  TypeInv'
  <2>1. m.seq \in Nat \ {0} /\ m.load \in [Pairs -> Nat]
    BY <1>12 DEF Messages
  <2>2. [p \in Pairs |-> counted[p] + m.load[p]] \in [Pairs -> Nat]
    BY <2>1
  <2>3. recorded' \in SUBSET (Nat \ {0}) /\ counted' \in [Pairs -> Nat]
    BY <1>12, <2>1, <2>2 DEF Ingest
  <2>4. reply' \in {"none", "accepted", "rejected"}
    BY <1>12 DEF Ingest, Answer
  <2>5. /\ admitted' \in SUBSET Messages
        /\ UNCHANGED <<kernelVars, agentVars, wire, auth, stale, faults, history>>
    BY <1>12 DEF Ingest
  <2> QED
    BY <2>3, <2>4, <2>5
<1>13. ASSUME NEW p \in Pairs, Relay(p)
       PROVE  TypeInv'
  BY <1>13 DEF Relay
<1>14. ASSUME NEW p \in Pairs, Revoke(p)
       PROVE  TypeInv'
  BY <1>14 DEF Revoke, Fault
<1>15. ASSUME NEW p \in Pairs, Grant(p)
       PROVE  TypeInv'
  BY <1>15 DEF Grant
<1>16. CASE Age
  <2> DEFINE old == {slot[p] : p \in Outbox}
  <2>1. old \in SUBSET Nat
    OBVIOUS
  <2> HIDE DEF old
  <2>2. stale' = stale \cup old /\ faults' = faults + 1
    BY <1>16 DEF Age, Fault, old
  <2>3. UNCHANGED <<kernelVars, agentVars, netVars, panelVars, history>>
    BY <1>16 DEF Age
  <2>4. stale' \in SUBSET Nat /\ faults' \in Nat
    BY <2>1, <2>2
  <2>5. TypeOK'
    BY <2>3, <2>4
  <2> QED
    BY <2>3, <2>5
<1>17. CASE Crash
  <2>1. lost' \in [Pairs -> Nat]
    BY <1>17 DEF Crash, Delta, Unsettled
  <2>2. faults' \in Nat
    BY <1>17 DEF Crash, Fault
  <2>3. wire' \in SUBSET Messages /\ admitted' \in SUBSET Messages
    BY <1>17 DEF Crash, Abandon
  <2>4. /\ total' = Zero /\ lastSeen' = Zero /\ pending' = Zero
        /\ frozen' = Zero /\ slot' = Zero
        /\ kernel' = "new" /\ batchSeq' = 0 /\ pc' = "start" /\ reply' = "none"
        /\ UNCHANGED <<auth, recorded, counted, stale, metered>>
    BY <1>17 DEF Crash
  <2>5. TypeOK'
    BY <2>1, <2>2, <2>3, <2>4, ZeroType
  <2> QED
    BY <2>4, <2>5
<1>18. CASE UNCHANGED vars
  BY <1>18 DEF vars
<1> QED
  BY <1>1, <1>2, <1>3, <1>4, <1>5, <1>6, <1>7, <1>8, <1>9, <1>10, <1>11,
     <1>12, <1>13, <1>14, <1>15, <1>16, <1>17, <1>18
     DEF Next, Loop, Handler, Environment

\* The fields of the loop and the columns of the tables keep their types.
THEOREM TypeCorrect == Spec => []TypeOK
<1>1. Init /\ [][Next]_vars => []TypeInv
  BY TypeInit, TypeStep, PTL
<1> QED
  BY <1>1, PTL DEF Spec, TypeInv

-----------------------------------------------------------------------------
(***************************************************************************)
(* NoDoubleCounting, when no request is ever rejected and none outlives    *)
(* the process that sent it.  Crashes, failed startup heartbeats, lost     *)
(* answers and delayed duplicates are all allowed.                         *)
(***************************************************************************)
NoRejection == Faults \cap {"revoke", "age", "orphan"} = {}

\* The bytes of p the agent still holds.
LEMMA BalanceTypes ==
    ASSUME TypeOK, NEW p \in Pairs
    PROVE  /\ total[p] \in Nat /\ lastSeen[p] \in Nat /\ pending[p] \in Nat
           /\ frozen[p] \in Nat /\ slot[p] \in Nat /\ counted[p] \in Nat
           /\ metered[p] \in Nat /\ lost[p] \in Nat
           /\ Delta(p) \in Nat /\ Unsettled(p) \in Nat
  BY DEF TypeOK, Delta, Unsettled

\* Moving bytes inside the agent keeps the balance.
LEMMA OnceTelemetry ==
    ASSUME TypeInv, OnceInv, TelemetryPass
    PROVE  OnceInv'
<1> DEFINE load == [p \in Pairs |-> pending[p] + Delta(p)]
<1>0. TypeOK
  BY DEF TypeInv
<1>1. load \in [Pairs -> Nat]
  BY <1>0, BalanceTypes
<1>2. UNCHANGED <<total, kernel, batchSeq, wire, admitted, reply, auth,
                  recorded, counted, faults, metered, lost>> /\ lastSeen' = total
  BY DEF TelemetryPass, kernelVars, netVars, panelVars, history
<1>3. pc = "idle" /\ reply = "none"
  BY <1>0 DEF TelemetryPass, OnceInv, AckSound, TypeOK
<1>4. AckSound'
  BY <1>2, <1>3 DEF AckSound
<1>5. \A p \in Pairs : Delta(p)' = 0
  BY <1>0, <1>2 DEF Delta, TypeOK
<1>6. load = [p \in Pairs |-> pending[p] + Delta(p)]
  OBVIOUS
<1> HIDE DEF load
<1>7. CASE Outbox = {} /\ (\E p \in Pairs : load[p] > 0) /\ Freeze(load) /\ pc' = "send"
  <2>1. /\ slot' \in [Pairs -> Nat]
        /\ frozen' = load /\ pending' = Zero /\ stale' \subseteq stale
        /\ \A p \in Pairs : slot'[p] # 0 <=> load[p] > 0
    BY <1>0, <1>1, <1>7, FreezeType
  <2>2. \A m \in Copies : m.seq \in recorded
    <3>1. \A m \in Copies : m.seq # 0
      BY <1>0 DEF TypeOK, Copies, Messages
    <3> QED
      BY <1>7, <3>1 DEF OnceInv, CopyFrozen, Outbox
  <2>3. ASSUME NEW p \in Pairs
        PROVE  Balance(p)' <= metered'[p]
    <3>1. Unsettled(p) = 0
      BY <1>7 DEF Unsettled, Outbox
    <3>2. Unsettled(p)' <= pending[p] + Delta(p) /\ Unsettled(p)' \in Nat
      BY <1>0, <1>1, <1>6, <2>1, BalanceTypes DEF Unsettled
    <3>3. pending'[p] = 0 /\ Delta(p)' = 0
      BY <1>5, <2>1 DEF Zero
    <3>4. Balance(p) <= metered[p]
      BY DEF OnceInv, NoDoubleCounting
    <3> QED
      BY <1>0, <1>2, <3>1, <3>2, <3>3, <3>4, BalanceTypes DEF Balance
  <2> QED
    BY <1>2, <1>4, <2>1, <2>2, <2>3 DEF OnceInv, NeverRejected, Copies, NoDoubleCounting
<1>8. CASE /\ \/ pending' = load
              \/ (\A p \in Pairs : load[p] = 0) /\ pending' = pending
           /\ UNCHANGED <<slot, frozen, stale>>
  <2>1. ASSUME NEW p \in Pairs
        PROVE  Balance(p)' <= metered'[p]
    <3>1. pending'[p] = pending[p] + Delta(p)
      BY <1>0, <1>6, <1>8, BalanceTypes
    <3>2. Unsettled(p)' = Unsettled(p)
      BY <1>2, <1>8 DEF Unsettled
    <3>3. Balance(p) <= metered[p]
      BY DEF OnceInv, NoDoubleCounting
    <3> QED
      BY <1>0, <1>2, <1>5, <3>1, <3>2, <3>3, BalanceTypes DEF Balance
  <2>2. \A m \in Copies' : m.seq \in recorded' \/ CopyFrozen(m)'
    BY <1>2, <1>8 DEF OnceInv, Copies, CopyFrozen
  <2>3. NeverRejected'
    BY <1>2, <1>8 DEF OnceInv, NeverRejected
  <2> QED
    BY <1>4, <2>1, <2>2, <2>3 DEF OnceInv, NoDoubleCounting
<1> QED
  BY <1>7, <1>8 DEF TelemetryPass, load

\* A step that leaves the frozen batches, the network and the panel alone
\* only has to keep the balance.
LEMMA OnceQuiet ==
    ASSUME OnceInv, UNCHANGED <<slot, frozen, wire, admitted, reply, auth, recorded, stale>>,
           reply # "none" => pc' = "wait",
           \A p \in Pairs : Balance(p)' <= metered'[p]
    PROVE  OnceInv'
<1>1. NextSeq' = NextSeq
  BY DEF NextSeq, Outbox
<1>2. AckSound'
  BY <1>1 DEF OnceInv, AckSound
<1>3. \A m \in Copies' : m.seq \in recorded' \/ CopyFrozen(m)'
  BY DEF OnceInv, Copies, CopyFrozen
<1> QED
  BY <1>2, <1>3 DEF OnceInv, NeverRejected, NoDoubleCounting

\* The agent has its answer: the batch is recorded, forgetting it is safe.
LEMMA OnceAcked ==
    ASSUME TypeInv, OnceInv, Acked
    PROVE  OnceInv'
<1> DEFINE s == NextSeq
<1>1. s \in recorded /\ s # 0
  BY DEF Acked, OnceInv, AckSound, TypeInv, TypeOK
<1>2. /\ slot' = [p \in Pairs |-> IF slot[p] = s THEN 0 ELSE slot[p]]
      /\ frozen' = [p \in Pairs |-> IF slot[p] = s THEN 0 ELSE frozen[p]]
      /\ reply' = "none"
      /\ UNCHANGED <<total, lastSeen, pending, wire, admitted, auth, recorded,
                     counted, stale, metered, lost>>
  BY DEF Acked, Retire, kernelVars, panelVars, history
<1> HIDE DEF s
<1>3. \A m \in Copies' : m.seq \in recorded' \/ CopyFrozen(m)'
  <2> SUFFICES ASSUME NEW m \in Copies, m.seq \notin recorded
               PROVE  CopyFrozen(m)'
    BY <1>2 DEF Copies
  <2>1. CopyFrozen(m) /\ m.seq # s
    BY <1>1 DEF OnceInv
  <2>2. m.seq # 0
    BY DEF TypeInv, TypeOK, Copies, Messages
  <2> QED
    BY <1>2, <2>1, <2>2 DEF CopyFrozen
<1>4. ASSUME NEW p \in Pairs
      PROVE  Balance(p)' <= metered'[p]
  <2>1. Unsettled(p)' = Unsettled(p) /\ Delta(p)' = Delta(p)
    BY <1>1, <1>2 DEF Unsettled, Delta
  <2> QED
    BY <1>2, <2>1 DEF Balance, OnceInv, NoDoubleCounting
<1> QED
  BY <1>2, <1>3, <1>4 DEF OnceInv, AckSound, NeverRejected, NoDoubleCounting

\* The panel's transaction: an unrecorded batch is one that is still frozen,
\* so charging its bytes takes them out of the agent's share.
LEMMA OnceIngest ==
    ASSUME TypeInv, OnceInv, NEW m \in admitted, Ingest(m)
    PROVE  OnceInv'
<1>1. /\ UNCHANGED <<total, lastSeen, pending, frozen, slot, pc, wire, auth,
                      stale, metered, lost>>
      /\ admitted' \subseteq admitted
      /\ recorded' = recorded \cup {m.seq}
  BY DEF Ingest, kernelVars, agentVars, history
<1>2. TypeOK /\ m \in Copies /\ m.seq # 0 /\ m.load \in [Pairs -> Nat]
  BY DEF TypeInv, TypeOK, Copies, Messages
<1>3. NextSeq' = NextSeq
  BY <1>1 DEF NextSeq, Outbox
<1>4. reply' = reply \/ (reply' = "accepted" /\ pc = "wait" /\ m = Batch(NextSeq))
  BY DEF Ingest, Answer
<1>5. AckSound' /\ NeverRejected'
  BY <1>1, <1>3, <1>4 DEF OnceInv, AckSound, NeverRejected, Batch
<1>6. \A n \in Copies' : n.seq \in recorded' \/ CopyFrozen(n)'
  BY <1>1 DEF OnceInv, Copies, CopyFrozen
<1>7. ASSUME NEW p \in Pairs
      PROVE  Balance(p)' <= metered'[p]
  <2>1. Delta(p)' = Delta(p)
    BY <1>1 DEF Delta
  <2>2. CASE m.seq \in recorded
    <3>1. counted' = counted /\ recorded' = recorded
      BY <2>2 DEF Ingest
    <3> QED
      BY <1>1, <2>1, <3>1 DEF Balance, Unsettled, OnceInv, NoDoubleCounting
  <2>3. CASE m.seq \notin recorded
    <3>1. counted'[p] = counted[p] + m.load[p]
      BY <2>3 DEF Ingest
    <3>2. CopyFrozen(m)
      BY <1>2, <2>3 DEF OnceInv
    <3>3. m.load[p] + Unsettled(p)' = Unsettled(p)
      BY <1>1, <1>2, <2>3, <3>2, BalanceTypes DEF Unsettled, CopyFrozen
    <3>4. Balance(p) <= metered[p]
      BY DEF OnceInv, NoDoubleCounting
    <3>5. Unsettled(p)' \in Nat /\ m.load[p] \in Nat
      BY <1>1, <1>2, BalanceTypes DEF Unsettled
    <3> QED
      BY <1>1, <1>2, <2>1, <3>1, <3>3, <3>4, <3>5, BalanceTypes DEF Balance
  <2> QED
    BY <2>2, <2>3
<1> QED
  BY <1>5, <1>6, <1>7 DEF OnceInv, NoDoubleCounting

\* OnceInv is inductive as long as the panel has no reason to reject.
LEMMA OnceStep ==
    ASSUME NoRejection, TypeInv, OnceInv, [Next]_vars
    PROVE  OnceInv'
<1>0. TypeOK
  BY DEF TypeInv
<1>1. \A p \in Pairs : Balance(p) <= metered[p]
  BY DEF OnceInv, NoDoubleCounting
<1> USE DEF kernelVars, agentVars, netVars, panelVars, history
<1>2. CASE Heartbeat \/ HeartbeatFails \/ KernelFailed
  <2>1. \A p \in Pairs : Balance(p)' = Balance(p)
    BY <1>2 DEF Heartbeat, HeartbeatFails, KernelFailed, Balance, Unsettled, Delta
  <2>2. UNCHANGED <<slot, frozen, wire, admitted, reply, auth, recorded, stale, metered>>
    BY <1>2 DEF Heartbeat, HeartbeatFails, KernelFailed
  <2>3. reply = "none"
    BY <1>2 DEF Heartbeat, HeartbeatFails, KernelFailed, OnceInv, AckSound
  <2> QED
    BY <1>1, <2>1, <2>2, <2>3, OnceQuiet
<1>3. CASE SyncCollect \/ KernelStarted
  <2>1. UNCHANGED <<slot, frozen, wire, admitted, reply, auth, recorded, stale,
                    counted, metered>>
    BY <1>3 DEF SyncCollect, KernelStarted
  <2>2. reply = "none"
    BY <1>3 DEF SyncCollect, KernelStarted, OnceInv, AckSound
  <2>3. ASSUME NEW p \in Pairs
        PROVE  Balance(p)' = Balance(p)
    <3>1. Unsettled(p)' = Unsettled(p)
      BY <2>1 DEF Unsettled
    <3>2. Delta(p)' = 0
      BY <1>0, <1>3, BalanceTypes DEF SyncCollect, KernelStarted, Delta, Zero
    <3>3. pending'[p] + lost'[p] = pending[p] + lost[p] + Delta(p)
      BY <1>0, <1>3, BalanceTypes DEF SyncCollect, KernelStarted
    <3>4. /\ pending'[p] \in Nat /\ lost'[p] \in Nat
      BY <1>0, <1>3, BalanceTypes DEF SyncCollect, KernelStarted
    <3> QED
      BY <1>0, <2>1, <3>1, <3>2, <3>3, <3>4, BalanceTypes DEF Balance
  <2> QED
    BY <1>1, <2>1, <2>2, <2>3, OnceQuiet
<1>4. CASE TelemetryPass
  BY <1>4, OnceTelemetry
<1>5. CASE Acked
  BY <1>5, OnceAcked
<1>6. CASE Rejected
  BY <1>6 DEF Rejected, OnceInv, NeverRejected
<1>7. ASSUME NEW m \in admitted, Ingest(m)
      PROVE  OnceInv'
  BY <1>7, OnceIngest
<1>8. CASE Send
  <2>1. UNCHANGED <<slot, frozen, admitted, auth, recorded, stale, metered>>
        /\ wire' = wire \cup {Batch(NextSeq)} /\ reply' = "none"
    BY <1>8 DEF Send
  <2>2. CopyFrozen(Batch(NextSeq))
    BY <1>8, NextSeqLeast DEF Send, TypeInv, TypeOK, Busy, CopyFrozen, Batch, Outbox
  <2>3. \A m \in Copies' : m.seq \in recorded' \/ CopyFrozen(m)'
    BY <2>1, <2>2 DEF OnceInv, Copies, CopyFrozen
  <2>4. \A p \in Pairs : Balance(p)' = Balance(p)
    BY <1>8 DEF Send, Balance, Unsettled, Delta
  <2> QED
    BY <1>1, <2>1, <2>3, <2>4 DEF OnceInv, AckSound, NeverRejected, NoDoubleCounting
<1>9. CASE Timeout
  <2>1. /\ UNCHANGED <<slot, frozen, reply, auth, recorded, stale, metered>>
        /\ reply = "none" /\ Copies' \subseteq Copies
    BY <1>9 DEF Timeout, Abandon, Copies
  <2>2. \A m \in Copies' : m.seq \in recorded' \/ CopyFrozen(m)'
    BY <2>1 DEF OnceInv, CopyFrozen
  <2>3. \A p \in Pairs : Balance(p)' = Balance(p)
    BY <1>9 DEF Timeout, Balance, Unsettled, Delta
  <2> QED
    BY <1>1, <2>1, <2>2, <2>3 DEF OnceInv, AckSound, NeverRejected, NoDoubleCounting
<1>10. ASSUME NEW m \in wire, Validate(m)
       PROVE  OnceInv'
  <2>1. Valid(m)
    BY DEF Valid, OnceInv, NeverRejected
  <2>2. /\ UNCHANGED <<slot, frozen, pc, reply, auth, recorded, stale, metered>>
        /\ Copies' \subseteq Copies
    BY <1>10, <2>1 DEF Validate, Take, Copies
  <2>3. \A n \in Copies' : n.seq \in recorded' \/ CopyFrozen(n)'
    BY <2>2 DEF OnceInv, CopyFrozen
  <2>4. \A p \in Pairs : Balance(p)' = Balance(p)
    BY <1>10 DEF Validate, Balance, Unsettled, Delta
  <2>5. NextSeq' = NextSeq
    BY <2>2 DEF NextSeq, Outbox
  <2> QED
    BY <1>1, <2>2, <2>3, <2>4, <2>5 DEF OnceInv, AckSound, NeverRejected, NoDoubleCounting
<1>11. ASSUME NEW q \in Pairs, Relay(q)
       PROVE  OnceInv'
  <2>1. UNCHANGED <<slot, frozen, wire, admitted, reply, auth, recorded, stale,
                    pc, lastSeen, pending, counted, lost>>
    BY <1>11 DEF Relay
  <2>2. ASSUME NEW p \in Pairs
        PROVE  Balance(p)' <= metered'[p]
    <3>1. Unsettled(p)' = Unsettled(p)
      BY <2>1 DEF Unsettled
    <3>2. CASE p # q
      <4>1. total'[p] = total[p] /\ metered'[p] = metered[p]
        BY <1>0, <1>11, <3>2 DEF Relay, TypeOK
      <4> QED
        BY <1>1, <2>1, <3>1, <4>1 DEF Balance, Delta
    <3>3. CASE p = q
      <4>1. total'[p] = total[p] + 1 /\ metered'[p] = metered[p] + 1
        BY <1>0, <1>11, <3>3 DEF Relay, TypeOK
      <4>2. Delta(p)' <= Delta(p) + 1 /\ Delta(p)' \in Nat
        BY <1>0, <2>1, <4>1, BalanceTypes DEF Delta
      <4> QED
        BY <1>0, <1>1, <2>1, <3>1, <4>1, <4>2, BalanceTypes DEF Balance
    <3> QED
      BY <3>2, <3>3
  <2> QED
    BY <2>1, <2>2, OnceQuiet DEF OnceInv, AckSound
<1>12. ASSUME NEW p \in Pairs, Revoke(p)
       PROVE  OnceInv'
  BY <1>12 DEF Revoke, Fault, NoRejection
<1>13. ASSUME NEW p \in Pairs, Grant(p)
       PROVE  OnceInv'
  BY <1>13 DEF Grant, OnceInv, NeverRejected
<1>14. CASE Age
  BY <1>14 DEF Age, Fault, NoRejection
<1>15. CASE Crash
  <2>1. /\ total' = Zero /\ lastSeen' = Zero /\ pending' = Zero /\ slot' = Zero
        /\ reply' = "none" /\ UNCHANGED <<auth, recorded, counted, stale, metered>>
        /\ Copies' = {}
    BY <1>15 DEF Crash, Abandon, NoRejection, Copies
  <2>2. ASSUME NEW p \in Pairs
        PROVE  Balance(p)' = Balance(p)
    <3>1. lost'[p] = lost[p] + Delta(p) + pending[p] + Unsettled(p)
      BY <1>15 DEF Crash
    <3>2. Unsettled(p)' = 0 /\ pending'[p] = 0 /\ Delta(p)' = 0
      BY <2>1 DEF Unsettled, Delta, Zero
    <3> QED
      BY <1>0, <2>1, <3>1, <3>2, BalanceTypes DEF Balance
  <2> QED
    BY <1>1, <2>1, <2>2 DEF OnceInv, AckSound, NeverRejected, NoDoubleCounting
<1>16. CASE UNCHANGED vars
  <2>1. \A p \in Pairs : Balance(p)' = Balance(p)
    BY <1>16 DEF vars, Balance, Unsettled, Delta
  <2> QED
    BY <1>1, <1>16, <2>1, OnceQuiet DEF vars, OnceInv, AckSound
<1> QED
  BY <1>2, <1>3, <1>4, <1>5, <1>6, <1>7, <1>8, <1>9, <1>10, <1>11, <1>12,
     <1>13, <1>14, <1>15, <1>16 DEF Next, Loop, Handler, Environment

\* Nothing is metered, frozen or under way at the start.
LEMMA OnceInit == Init => OnceInv
<1> SUFFICES ASSUME Init PROVE OnceInv
  OBVIOUS
<1>1. \A p \in Pairs : Balance(p) = 0
  BY DEF Init, Balance, Unsettled, Delta, Zero
<1> QED
  BY <1>1 DEF Init, OnceInv, AckSound, NeverRejected, NoDoubleCounting, Copies, Zero

\* Without rejections and orphans the panel never charges a byte twice.
THEOREM ChargedOnce == NoRejection => (Spec => []NoDoubleCounting)
<1> SUFFICES ASSUME NoRejection PROVE Spec => []NoDoubleCounting
  OBVIOUS
<1>1. Init => TypeInv /\ OnceInv
  BY TypeInit, OnceInit
<1>2. TypeInv /\ OnceInv /\ [Next]_vars => (TypeInv /\ OnceInv)'
  BY TypeStep, OnceStep
<1>3. OnceInv => NoDoubleCounting
  BY DEF OnceInv
<1> QED
  BY <1>1, <1>2, <1>3, PTL DEF Spec

\* The pipeline implements the ledger: metering meters, the transaction
\* charges, a crash or a kernel swap writes off, nothing else shows.
LEMMA LedgerStep ==
    ASSUME TypeInv, OnceInv, TypeInv', OnceInv', [Next]_vars
    PROVE  [Ledger!LedgerNext]_(Ledger!ledger)
<1> USE DEF Ledger!LedgerNext, Ledger!ledger
<1>0. TypeOK /\ TypeOK'
  BY DEF TypeInv
<1>1. \A p \in Pairs : counted'[p] + lost'[p] <= metered'[p]
  <2> SUFFICES ASSUME NEW p \in Pairs
               PROVE  counted'[p] + lost'[p] <= metered'[p]
    OBVIOUS
  <2>1. Balance(p)' <= metered'[p]
    BY DEF OnceInv, NoDoubleCounting
  <2>2. /\ counted'[p] \in Nat /\ lost'[p] \in Nat /\ metered'[p] \in Nat
        /\ pending'[p] \in Nat /\ Delta(p)' \in Nat /\ Unsettled(p)' \in Nat
    BY <1>0 DEF TypeOK, Delta, Unsettled
  <2> QED
    BY <2>1, <2>2 DEF Balance
<1>2. ASSUME NEW p \in Pairs, Relay(p)
      PROVE  Ledger!LedgerNext
  BY <1>2 DEF Relay, Ledger!Meter, panelVars
<1>3. ASSUME NEW m \in admitted, Ingest(m)
      PROVE  Ledger!LedgerNext \/ UNCHANGED Ledger!ledger
  <2>1. UNCHANGED <<metered, lost>>
    BY <1>3 DEF Ingest, history
  <2>2. CASE m.seq \in recorded
    BY <1>3, <2>1, <2>2 DEF Ingest
  <2>3. CASE m.seq \notin recorded
    <3>1. m.load \in [Pairs -> Nat]
      BY <1>0 DEF TypeOK, Messages
    <3>2. \A p \in Pairs : counted[p] <= counted'[p]
      BY <1>0, <1>3, <2>3, <3>1, BalanceTypes DEF Ingest
    <3> QED
      BY <1>1, <2>1, <3>2 DEF Ledger!Charge
  <2> QED
    BY <2>2, <2>3
<1>4. CASE KernelStarted \/ Crash
  <2>1. UNCHANGED <<metered, counted>>
    BY <1>4 DEF KernelStarted, Crash, panelVars
  <2>2. \A p \in Pairs : lost[p] <= lost'[p]
    BY <1>0, <1>4, BalanceTypes DEF KernelStarted, Crash
  <2> QED
    BY <1>1, <2>1, <2>2 DEF Ledger!WriteOff
<1>5. CASE UNCHANGED <<metered, counted, lost>>
  BY <1>5
<1>6. CASE UNCHANGED vars
  BY <1>6 DEF vars, panelVars, history
<1> QED
  BY <1>2, <1>3, <1>4, <1>5, <1>6
     DEF Next, Loop, Handler, Environment, Heartbeat, HeartbeatFails, SyncCollect,
         KernelFailed, TelemetryPass, Send, Timeout, Acked, Rejected, Validate,
         Revoke, Grant, Age, panelVars, history

\* What a user is charged and what is written off are disjoint parts of what
\* was metered, and both only grow: the pipeline is the ledger, refined.
THEOREM LedgerImplemented == NoRejection => (Spec => ImplementsLedger)
<1> SUFFICES ASSUME NoRejection PROVE Spec => ImplementsLedger
  OBVIOUS
<1>1. Init => TypeInv /\ OnceInv
  BY TypeInit, OnceInit
<1>2. TypeInv /\ OnceInv /\ [Next]_vars => (TypeInv /\ OnceInv)'
  BY TypeStep, OnceStep
<1>3. Init => Ledger!LedgerInit
  BY DEF Init, Zero, Ledger!LedgerInit
<1>4. TypeInv /\ OnceInv /\ TypeInv' /\ OnceInv' /\ [Next]_vars
        => [Ledger!LedgerNext]_(Ledger!ledger)
  BY LedgerStep
<1> QED
  BY <1>1, <1>2, <1>3, <1>4, PTL DEF Spec, ImplementsLedger, Ledger!LedgerSpec

-----------------------------------------------------------------------------
(***************************************************************************)
(* KeyIdentifiesPayload, when no request outlives the process that sent    *)
(* it.  Revocations, 24 h old batches, crashes, failed startup heartbeats  *)
(* and delayed duplicates are all allowed: a process that restarts from    *)
(* numbers already recorded has no copy under way of any of them.          *)
(***************************************************************************)
NoOrphans == "orphan" \notin Faults

\* A process sends its batches in the order of their numbers, so the copies
\* under way are of the batch it sends, with the bytes that are frozen, or of
\* earlier ones, below every number it will still freeze.
KeyInv ==
    /\ Outbox # {} => \A m \in Copies : m.seq <= NextSeq
    /\ Outbox = {} => \A m \in Copies : m.seq <= batchSeq
    /\ \A m \in Copies, p \in Outbox : slot[p] = m.seq => m = Batch(m.seq)
    /\ \A m, n \in Copies : m.seq = n.seq => m.load = n.load

LEMMA CopyTypes ==
    ASSUME TypeInv
    PROVE  /\ \A m \in Copies : m \in Messages /\ m.seq \in Nat /\ m.seq # 0
           /\ batchSeq \in Nat /\ slot \in [Pairs -> Nat]
  BY DEF TypeInv, TypeOK, Copies, Messages

\* A step that freezes and retires nothing, and sends nothing new.
LEMMA KeyQuiet ==
    ASSUME TypeInv, TypeInv', KeyInv, UNCHANGED <<slot, frozen>>, Copies' \subseteq Copies,
           batchSeq' >= batchSeq
    PROVE  KeyInv'
<1>1. /\ NextSeq' = NextSeq /\ Outbox' = Outbox
      /\ \A s : [seq |-> s, load |-> [p \in Pairs |-> IF slot'[p] = s THEN frozen'[p] ELSE 0]]
                = Batch(s)
  BY DEF NextSeq, Outbox, Batch
<1>2. batchSeq \in Nat /\ batchSeq' \in Nat
  BY DEF TypeInv, TypeOK
<1>3. Outbox' = {} => \A m \in Copies' : m.seq <= batchSeq'
  BY <1>1, <1>2, CopyTypes DEF KeyInv
<1>4. \A m \in Copies', p \in Outbox' : slot'[p] = m.seq => m = Batch(m.seq)'
  BY <1>1 DEF KeyInv, Batch
<1> QED
  BY <1>1, <1>3, <1>4 DEF KeyInv

\* The new numbers are above those of every copy.
LEMMA KeyFreeze ==
    ASSUME TypeInv, TypeInv', KeyInv, NEW load \in [Pairs -> Nat], Freeze(load), Outbox = {},
           UNCHANGED <<wire, admitted, batchSeq>>
    PROVE  KeyInv'
<1>1. Copies' = Copies /\ batchSeq \in Nat
  BY CopyTypes DEF Copies
<1>2. /\ slot' \in [Pairs -> Nat]
      /\ \A p \in Pairs : slot'[p] # 0 => slot'[p] > batchSeq
  BY FreezeType DEF TypeInv
<1>3. \A m \in Copies, p \in Outbox' : m.seq < slot'[p]
  BY <1>1, <1>2, CopyTypes DEF KeyInv, Outbox
<1>4. Outbox' # {} => \E p \in Outbox' : NextSeq' = slot'[p]
  <2> DEFINE S == {slot'[p] : p \in Outbox'}
  <2>1. Outbox' # {} => S \subseteq Nat /\ S # {}
    BY <1>2 DEF Outbox
  <2>2. Outbox' # {} => \E s \in S : \A t \in S : s <= t
    BY <2>1, Least
  <2>3. Outbox' # {} => \E s \in S : \A p \in Outbox' : s <= slot'[p]
    BY <2>2
  <2> QED
    BY <2>3 DEF NextSeq
<1>5. \A m \in Copies, p \in Outbox' : m.seq <= slot'[p] /\ m.seq # slot'[p]
  BY <1>2, <1>3, CopyTypes DEF Outbox
<1> QED
  BY <1>1, <1>4, <1>5 DEF KeyInv

\* The batch that is done with is the least frozen one, and its number stays.
LEMMA KeyRetire ==
    ASSUME TypeInv, TypeInv', KeyInv, Outbox # {}, Retire(NextSeq), batchSeq' >= NextSeq,
           UNCHANGED <<wire, admitted>>
    PROVE  KeyInv'
<1> DEFINE s == NextSeq
<1>0. /\ s \in Nat /\ Copies' = Copies /\ slot \in [Pairs -> Nat] /\ slot' \in [Pairs -> Nat]
      /\ batchSeq' \in Nat /\ \A p \in Outbox : s <= slot[p]
  BY NextSeqLeast, CopyTypes DEF Copies, TypeInv, TypeOK
<1>1. /\ slot' = [p \in Pairs |-> IF slot[p] = s THEN 0 ELSE slot[p]]
      /\ frozen' = [p \in Pairs |-> IF slot[p] = s THEN 0 ELSE frozen[p]]
      /\ \A m \in Copies : m.seq <= s
  BY DEF Retire, KeyInv
<1> HIDE DEF s
<1>2. \A p \in Outbox' : p \in Outbox /\ slot'[p] = slot[p] /\ slot[p] > s
  BY <1>0, <1>1 DEF Outbox
<1>3. Outbox' # {} => \E p \in Outbox' : NextSeq' = slot'[p]
  <2> DEFINE S == {slot'[p] : p \in Outbox'}
  <2>1. Outbox' # {} => S \subseteq Nat /\ S # {}
    BY <1>0 DEF Outbox
  <2>2. Outbox' # {} => \E t \in S : \A u \in S : t <= u
    BY <2>1, Least
  <2>3. Outbox' # {} => \E t \in S : \A p \in Outbox' : t <= slot'[p]
    BY <2>2
  <2> QED
    BY <2>3 DEF NextSeq
<1>4. \A m \in Copies, p \in Outbox' : m.seq <= slot'[p] /\ m.seq # slot'[p]
  BY <1>0, <1>1, <1>2, CopyTypes DEF Outbox
<1>5. \A m \in Copies : m.seq <= batchSeq'
  BY <1>0, <1>1, CopyTypes DEF s
<1> QED
  BY <1>0, <1>3, <1>4, <1>5 DEF KeyInv

LEMMA KeySend ==
    ASSUME TypeInv, KeyInv, Send
    PROVE  KeyInv'
<1>1. /\ UNCHANGED <<slot, frozen>> /\ Outbox # {}
      /\ Copies' = Copies \cup {Batch(NextSeq)}
  BY DEF Send, TypeInv, Busy, Copies
<1>2. /\ NextSeq \in Nat /\ Batch(NextSeq).seq = NextSeq
      /\ \E p \in Outbox : slot[p] = NextSeq
  BY <1>1, NextSeqLeast, CopyTypes DEF Batch
<1>3. /\ NextSeq' = NextSeq /\ Outbox' = Outbox
  BY <1>1 DEF NextSeq, Outbox
<1>4. \A m \in Copies : m.seq = NextSeq => m = Batch(NextSeq)
  BY <1>2 DEF KeyInv
<1>5. \A m \in Copies' : m.seq <= NextSeq
  BY <1>1, <1>2 DEF KeyInv
<1>6. \A m \in Copies', p \in Outbox : slot[p] = m.seq => m = Batch(m.seq)
  BY <1>1, <1>2 DEF KeyInv
<1>7. \A m, n \in Copies' : m.seq = n.seq => m.load = n.load
  BY <1>1, <1>2, <1>4 DEF KeyInv
<1>8. \A m \in Copies' : Batch(m.seq)' = Batch(m.seq)
  BY <1>1 DEF Batch
<1> QED
  BY <1>1, <1>3, <1>5, <1>6, <1>7, <1>8 DEF KeyInv

\* KeyInv is inductive as long as every copy is of the living process.
LEMMA KeyStep ==
    ASSUME NoOrphans, TypeInv, TypeInv', KeyInv, [Next]_vars
    PROVE  KeyInv'
<1>0. batchSeq \in Nat /\ batchSeq >= batchSeq
  BY CopyTypes
<1> USE DEF kernelVars, agentVars, netVars, panelVars, history
<1>1. CASE Heartbeat
  <2>1. batchSeq' >= batchSeq /\ UNCHANGED <<slot, frozen, wire, admitted>>
    BY <1>0, <1>1 DEF Heartbeat, TypeInv, TypeOK
  <2> QED
    BY <2>1, KeyQuiet DEF Copies
<1>2. CASE HeartbeatFails \/ SyncCollect \/ KernelStarted \/ KernelFailed \/ Timeout
  <2>1. UNCHANGED <<slot, frozen, batchSeq>> /\ Copies' \subseteq Copies
    BY <1>2 DEF HeartbeatFails, SyncCollect, KernelStarted, KernelFailed, Timeout, Abandon, Copies
  <2> QED
    BY <1>0, <2>1, KeyQuiet
<1>3. CASE TelemetryPass
  <2> DEFINE load == [p \in Pairs |-> pending[p] + Delta(p)]
  <2>1. load \in [Pairs -> Nat] /\ UNCHANGED <<wire, admitted, batchSeq>>
    BY <1>3, BalanceTypes DEF TelemetryPass, TypeInv
  <2>2. CASE Freeze(load) /\ Outbox = {}
    BY <2>1, <2>2, KeyFreeze
  <2>3. CASE UNCHANGED <<slot, frozen>>
    BY <1>0, <2>1, <2>3, KeyQuiet DEF Copies
  <2> QED
    BY <1>3, <2>2, <2>3 DEF TelemetryPass
<1>4. CASE Acked \/ Rejected
  <2>1. Outbox # {} /\ NextSeq \in Nat
    BY <1>4, NextSeqLeast DEF Acked, Rejected, TypeInv, TypeOK, Busy
  <2>2. batchSeq' >= NextSeq /\ Retire(NextSeq) /\ UNCHANGED <<wire, admitted>>
    BY <1>0, <1>4, <2>1 DEF Acked, Rejected
  <2> QED
    BY <2>1, <2>2, KeyRetire
<1>5. CASE Send
  BY <1>5, KeySend
<1>6. CASE Handler
  <2>1. UNCHANGED <<slot, frozen, batchSeq>> /\ Copies' \subseteq Copies
    BY <1>6 DEF Handler, Validate, Take, Ingest, Copies
  <2> QED
    BY <1>0, <2>1, KeyQuiet
<1>7. CASE Crash
  <2>1. Copies' = {}
    BY <1>7 DEF Crash, Abandon, NoOrphans, Copies
  <2> QED
    BY <2>1 DEF KeyInv
<1>8. CASE Age \/ UNCHANGED vars \/ \E p \in Pairs : Relay(p) \/ Revoke(p) \/ Grant(p)
  <2>1. UNCHANGED <<slot, frozen, wire, admitted, batchSeq>>
    BY <1>8 DEF Age, vars, Relay, Revoke, Grant
  <2> QED
    BY <1>0, <2>1, KeyQuiet DEF Copies
<1> QED
  BY <1>1, <1>2, <1>3, <1>4, <1>5, <1>6, <1>7, <1>8 DEF Next, Loop, Environment

\* The batches under way under one number, and the one the agent would send
\* next, have one payload: what the panel acknowledges as a duplicate is one.
THEOREM KeyOfOnePayload == NoOrphans => (Spec => []KeyIdentifiesPayload)
<1> SUFFICES ASSUME NoOrphans PROVE Spec => []KeyIdentifiesPayload
  OBVIOUS
<1>1. Init => TypeInv /\ KeyInv
  BY TypeInit DEF Init, KeyInv, Copies
<1>2. TypeInv /\ KeyInv /\ [Next]_vars => (TypeInv /\ KeyInv)'
  BY TypeStep, KeyStep
<1>3. TypeInv /\ KeyInv => KeyIdentifiesPayload
  <2> SUFFICES ASSUME TypeInv, KeyInv PROVE KeyIdentifiesPayload
    OBVIOUS
  <2>1. ASSUME Outbox # {} PROVE \A m \in Copies : m.seq = Batch(NextSeq).seq => m = Batch(NextSeq)
    BY <2>1, NextSeqLeast, CopyTypes DEF KeyInv, Batch
  <2> QED
    BY <2>1 DEF KeyIdentifiesPayload, KeyInv, Copies
<1> QED
  BY <1>1, <1>2, <1>3, PTL DEF Spec

-----------------------------------------------------------------------------
(***************************************************************************)
(* NoSilentLoss and ResumesAboveRecorded, when every agent process learns  *)
(* the panel's sequence numbers before it freezes and no request outlives  *)
(* its process.  Revocations, 24 h old batches and delayed duplicates are  *)
(* all allowed: what they cost is double counting, never a loss.           *)
(***************************************************************************)

InformedRestart == Faults \cap {"blind", "orphan"} = {}

\* A fresh agent has nothing to lose.
LEMMA LossInit == Init => NoLossInv
<1> SUFFICES ASSUME Init PROVE NoLossInv
  OBVIOUS
<1>1. \A p \in Pairs : Balance(p) = 0 /\ metered[p] = 0
  BY DEF Init, Balance, Unsettled, Delta, Zero
<1>2. Outbox = {} /\ Copies = {}
  BY DEF Init, Outbox, Copies, Zero
<1> QED
  BY <1>1, <1>2 DEF Init, NoLossInv, AckSound, SeqsBelow, NoSilentLoss

\* A step that leaves the frozen batches, the numbers and the network alone.
LEMMA LossQuiet ==
    ASSUME NoLossInv, UNCHANGED <<slot, frozen, wire, admitted, reply, recorded, batchSeq>>,
           reply # "none" => pc' = "wait", pc' = "start" <=> pc = "start",
           \A p \in Pairs : Balance(p)' >= metered'[p]
    PROVE  NoLossInv'
<1>1. NextSeq' = NextSeq /\ Outbox' = Outbox /\ Copies' = Copies
  BY DEF NextSeq, Outbox, Copies
<1>2. AckSound' /\ SeqsBelow'
  BY <1>1 DEF NoLossInv, AckSound, SeqsBelow
<1> QED
  BY <1>1, <1>2 DEF NoLossInv, NoSilentLoss

\* Freezing: the new numbers are above everything the panel can know.
LEMMA FreezeAbove ==
    ASSUME TypeInv, NoLossInv, NEW load \in [Pairs -> Nat], Freeze(load),
           pc = "idle", Outbox = {}
    PROVE  \A p \in Pairs : slot'[p] # 0 =>
             \A s \in recorded \cup {m.seq : m \in Copies} : s < slot'[p]
<1>1. \A p \in Pairs : slot'[p] # 0 => slot'[p] > batchSeq
  BY FreezeType DEF TypeInv
<1>2. \A s \in recorded \cup {m.seq : m \in Copies} : s <= batchSeq
  BY DEF NoLossInv, SeqsBelow
<1>3. recorded \cup {m.seq : m \in Copies} \subseteq Nat
  BY DEF TypeInv, TypeOK, Copies, Messages
<1>4. batchSeq \in Nat /\ slot' \in [Pairs -> Nat]
  BY FreezeType DEF TypeInv, TypeOK
<1> QED
  BY <1>1, <1>2, <1>3, <1>4

\* telemetryPass moves bytes from the kernel to pending to frozen, and
\* freezes under numbers nobody has used.
LEMMA LossTelemetry ==
    ASSUME TypeInv, NoLossInv, TelemetryPass
    PROVE  NoLossInv'
<1> DEFINE load == [p \in Pairs |-> pending[p] + Delta(p)]
<1>0. TypeOK
  BY DEF TypeInv
<1>1. load \in [Pairs -> Nat]
  BY <1>0, BalanceTypes
<1>2. UNCHANGED <<total, kernel, batchSeq, wire, admitted, reply, auth,
                  recorded, counted, faults, metered, lost>> /\ lastSeen' = total
  BY DEF TelemetryPass, kernelVars, netVars, panelVars, history
<1>3. pc = "idle" /\ reply = "none"
  BY <1>0 DEF TelemetryPass, NoLossInv, AckSound, TypeOK
<1>4. AckSound'
  BY <1>2, <1>3 DEF AckSound
<1>5. \A p \in Pairs : Delta(p)' = 0
  BY <1>0, <1>2 DEF Delta, TypeOK
<1>6. load = [p \in Pairs |-> pending[p] + Delta(p)]
  OBVIOUS
<1> HIDE DEF load
<1>7. CASE Outbox = {} /\ (\E p \in Pairs : load[p] > 0) /\ Freeze(load) /\ pc' = "send"
  <2>1. /\ slot' \in [Pairs -> Nat]
        /\ frozen' = load /\ pending' = Zero
        /\ \A p \in Pairs : slot'[p] # 0 <=> load[p] > 0
        /\ \A p \in Pairs : slot'[p] # 0 => slot'[p] > batchSeq
    BY <1>0, <1>1, <1>7, FreezeType
  <2>2. \A p \in Pairs : slot'[p] # 0 =>
             \A s \in recorded \cup {m.seq : m \in Copies} : s < slot'[p]
    BY <1>1, <1>3, <1>7, FreezeAbove
  <2>3. \A p \in Outbox' : slot'[p] # 0 /\ slot'[p] \notin recorded
                           /\ \A m \in Copies : m.seq # slot'[p]
    <3>1. \A p \in Outbox' : p \in Pairs /\ slot'[p] # 0 /\ slot'[p] \in Nat
      BY <2>1 DEF Outbox
    <3> QED
      BY <2>2, <3>1
  <2>4. SeqsBelow'
    <3>1. \A s \in recorded \cup {m.seq : m \in Copies} : s <= batchSeq
      BY <1>3, <1>7 DEF NoLossInv, SeqsBelow
    <3>2. \A p \in Outbox' : batchSeq <= slot'[p]
      BY <1>0, <2>1 DEF Outbox, TypeOK
    <3>3. Copies' = Copies
      BY <1>2 DEF Copies
    <3> QED
      BY <1>2, <1>7, <3>1, <3>2, <3>3 DEF SeqsBelow
  <2>5. ASSUME NEW p \in Pairs
        PROVE  Balance(p)' >= metered'[p]
    <3>1. Unsettled(p) = 0
      BY <1>7 DEF Unsettled, Outbox
    <3>2. Unsettled(p)' = pending[p] + Delta(p)
      <4>1. load[p] = pending[p] + Delta(p) /\ load[p] \in Nat
        BY <1>1, <1>6
      <4>2. CASE slot'[p] = 0
        BY <2>1, <4>1, <4>2 DEF Unsettled
      <4>3. CASE slot'[p] # 0
        <5>1. slot'[p] \notin recorded'
          BY <1>2, <2>3, <4>3 DEF Outbox
        <5> QED
          BY <2>1, <4>1, <4>3, <5>1 DEF Unsettled
      <4> QED
        BY <4>2, <4>3
    <3>3. pending'[p] = 0 /\ Delta(p)' = 0
      BY <1>5, <2>1 DEF Zero
    <3>4. Balance(p) >= metered[p]
      BY DEF NoLossInv, NoSilentLoss
    <3> QED
      BY <1>0, <1>2, <3>1, <3>2, <3>3, <3>4, BalanceTypes DEF Balance
  <2>6. \A m \in Copies', p \in Outbox' : slot'[p] = m.seq => m.load[p] = frozen'[p]
    BY <1>2, <2>3 DEF Copies
  <2> QED
    BY <1>4, <2>4, <2>5, <2>6 DEF NoLossInv, NoSilentLoss
<1>8. CASE /\ \/ pending' = load
              \/ (\A p \in Pairs : load[p] = 0) /\ pending' = pending
           /\ UNCHANGED <<slot, frozen, stale>>
           /\ pc' # "start"
  <2>1. ASSUME NEW p \in Pairs
        PROVE  Balance(p)' >= metered'[p]
    <3>1. pending'[p] = pending[p] + Delta(p)
      BY <1>0, <1>6, <1>8, BalanceTypes
    <3>2. Unsettled(p)' = Unsettled(p)
      BY <1>2, <1>8 DEF Unsettled
    <3>3. Balance(p) >= metered[p]
      BY DEF NoLossInv, NoSilentLoss
    <3> QED
      BY <1>0, <1>2, <1>5, <3>1, <3>2, <3>3, BalanceTypes DEF Balance
  <2> QED
    BY <1>2, <1>3, <1>8, <2>1, LossQuiet
<1> QED
  BY <1>3, <1>7, <1>8 DEF TelemetryPass, load

\* Whether acknowledged or requeued, the batch that is done with leaves its
\* number behind as the agent's own, and everything known is at most that.
LEMMA RetireBelow ==
    ASSUME TypeInv, NoLossInv, pc = "wait", Retire(NextSeq),
           UNCHANGED <<wire, admitted, recorded>>,
           batchSeq' = NextSeq
    PROVE  /\ SeqsBelow'
           /\ \A m \in Copies', p \in Outbox' : slot'[p] = m.seq => m.load[p] = frozen'[p]
<1> DEFINE s == NextSeq
<1>1. /\ s \in Nat \ {0} /\ \E p \in Outbox : slot[p] = s
      /\ \A p \in Outbox : s <= slot[p]
  BY NextSeqLeast DEF TypeInv, TypeOK, Busy
<1>2. /\ slot' = [p \in Pairs |-> IF slot[p] = s THEN 0 ELSE slot[p]]
      /\ frozen' = [p \in Pairs |-> IF slot[p] = s THEN 0 ELSE frozen[p]]
      /\ pc' # "start" /\ batchSeq' = s
  BY DEF Retire
<1>3. batchSeq <= s
  BY <1>1 DEF NoLossInv, SeqsBelow
<1>4. \A t \in recorded \cup {m.seq : m \in Copies} : t <= batchSeq \/ t = s
  BY DEF NoLossInv, SeqsBelow
<1>5. recorded \cup {m.seq : m \in Copies} \subseteq Nat /\ batchSeq \in Nat
  BY DEF TypeInv, TypeOK, Copies, Messages
<1>6. Copies' = Copies
  BY DEF Copies
<1> HIDE DEF s
<1>7. \A t \in recorded \cup {m.seq : m \in Copies} : t <= s
  BY <1>1, <1>3, <1>4, <1>5
<1>8. \A p \in Outbox' : p \in Outbox /\ slot'[p] = slot[p] /\ frozen'[p] = frozen[p]
                         /\ s <= slot[p]
  BY <1>1, <1>2 DEF Outbox
<1>9. SeqsBelow'
  BY <1>2, <1>6, <1>7, <1>8 DEF SeqsBelow
<1> QED
  BY <1>6, <1>8, <1>9 DEF NoLossInv

\* An acknowledgement is of a recorded batch: what the agent forgets counts.
LEMMA LossAcked ==
    ASSUME TypeInv, NoLossInv, Acked
    PROVE  NoLossInv'
<1>1. UNCHANGED <<total, lastSeen, pending, wire, admitted, recorded, counted,
                  metered, lost>> /\ reply' = "none" /\ Retire(NextSeq)
      /\ pc = "wait" /\ batchSeq' = NextSeq
  BY DEF Acked, Retire, kernelVars, panelVars, history
<1>2. ASSUME NEW p \in Pairs
      PROVE  Balance(p)' = Balance(p)
  <2>1. NextSeq \in recorded /\ NextSeq # 0
    BY DEF Acked, NoLossInv, AckSound, TypeInv, TypeOK
  <2>2. Unsettled(p)' = Unsettled(p) /\ Delta(p)' = Delta(p)
    BY <1>1, <2>1 DEF Retire, Unsettled, Delta
  <2> QED
    BY <1>1, <2>2 DEF Balance
<1>3. /\ SeqsBelow'
      /\ \A m \in Copies', p \in Outbox' : slot'[p] = m.seq => m.load[p] = frozen'[p]
  BY <1>1, RetireBelow
<1> QED
  BY <1>1, <1>2, <1>3 DEF NoLossInv, AckSound, NoSilentLoss

\* A rejected batch goes back to pending, byte for byte.
LEMMA LossRejected ==
    ASSUME TypeInv, NoLossInv, Rejected
    PROVE  NoLossInv'
<1>0. TypeOK
  BY DEF TypeInv
<1>1. UNCHANGED <<total, lastSeen, wire, admitted, recorded, counted,
                  metered, lost>> /\ reply' = "none" /\ Retire(NextSeq)
      /\ pc = "wait"
  BY DEF Rejected, Retire, kernelVars, panelVars, history
<1>2. NextSeq \in Nat /\ batchSeq \in Nat /\ batchSeq <= NextSeq
  BY <1>1, NextSeqLeast DEF TypeInv, TypeOK, Busy, NoLossInv, SeqsBelow
<1>3. batchSeq' = NextSeq
  BY <1>2 DEF Rejected
<1>4. ASSUME NEW p \in Pairs
      PROVE  Balance(p)' >= Balance(p)
  <2>1. Delta(p)' = Delta(p)
    BY <1>1 DEF Delta
  <2>2. CASE slot[p] = NextSeq
    <3>1. pending'[p] = pending[p] + frozen[p]
      BY <2>2 DEF Rejected
    <3>2. Unsettled(p)' = 0 /\ Unsettled(p) <= frozen[p]
      BY <1>0, <1>1, <2>2, BalanceTypes DEF Retire, Unsettled
    <3> QED
      BY <1>0, <1>1, <2>1, <3>1, <3>2, BalanceTypes DEF Balance
  <2>3. CASE slot[p] # NextSeq
    <3>1. pending'[p] = pending[p]
      BY <1>0, <2>3, BalanceTypes DEF Rejected
    <3>2. Unsettled(p)' = Unsettled(p)
      BY <1>1, <2>3 DEF Retire, Unsettled
    <3> QED
      BY <1>0, <1>1, <2>1, <3>1, <3>2, BalanceTypes DEF Balance
  <2> QED
    BY <2>2, <2>3
<1>5. /\ SeqsBelow'
      /\ \A m \in Copies', p \in Outbox' : slot'[p] = m.seq => m.load[p] = frozen'[p]
  BY <1>1, <1>3, RetireBelow
<1>6. ASSUME NEW p \in Pairs
      PROVE  Balance(p)' >= metered'[p]
  <2>1. Balance(p) >= metered[p]
    BY DEF NoLossInv, NoSilentLoss
  <2>2. Balance(p)' \in Nat /\ Balance(p) \in Nat /\ metered[p] \in Nat
    <3>1. TypeOK'
      BY TypeStep DEF TypeInv, Next, Loop
    <3>2. \A q \in Pairs : Balance(q) \in Nat
      BY <1>0, BalanceTypes DEF Balance
    <3>3. pending'[p] \in Nat /\ Unsettled(p)' \in Nat /\ Delta(p)' \in Nat
          /\ counted'[p] \in Nat /\ lost'[p] \in Nat
      BY <3>1 DEF TypeOK, Unsettled, Delta
    <3> QED
      BY <1>0, <3>2, <3>3, BalanceTypes DEF Balance
  <2> QED
    BY <1>1, <1>4, <2>1, <2>2
<1> QED
  BY <1>1, <1>5, <1>6 DEF NoLossInv, AckSound, NoSilentLoss

\* The panel's transaction: an unrecorded batch that is still frozen has the
\* frozen bytes, so what stops being unsettled is charged.
LEMMA LossIngest ==
    ASSUME TypeInv, NoLossInv, NEW m \in admitted, Ingest(m)
    PROVE  NoLossInv'
<1>0. TypeOK /\ m \in Copies /\ m.seq \in Nat \ {0} /\ m.load \in [Pairs -> Nat]
  BY DEF TypeInv, TypeOK, Copies, Messages
<1>1. /\ UNCHANGED <<total, lastSeen, pending, frozen, slot, batchSeq, pc, wire,
                      metered, lost>>
      /\ admitted' \subseteq admitted
      /\ recorded' = recorded \cup {m.seq}
  BY DEF Ingest, kernelVars, agentVars, history
<1>2. NextSeq' = NextSeq /\ Outbox' = Outbox /\ Copies' \subseteq Copies
  BY <1>1 DEF NextSeq, Outbox, Copies
<1>3. reply' = reply \/ (reply' = "accepted" /\ pc = "wait" /\ m = Batch(NextSeq))
  BY DEF Ingest, Answer
<1>4. AckSound'
  BY <1>1, <1>2, <1>3 DEF NoLossInv, AckSound, Batch
<1>5. SeqsBelow'
  BY <1>0, <1>1, <1>2 DEF NoLossInv, SeqsBelow
<1>6. \A n \in Copies', p \in Outbox' : slot'[p] = n.seq => n.load[p] = frozen'[p]
  BY <1>1, <1>2 DEF NoLossInv
<1>7. ASSUME NEW p \in Pairs
      PROVE  Balance(p)' >= metered'[p]
  <2>1. Delta(p)' = Delta(p) /\ Balance(p) >= metered[p]
    BY <1>1 DEF Delta, NoLossInv, NoSilentLoss
  <2>2. CASE m.seq \in recorded
    <3>1. counted' = counted /\ recorded' = recorded
      BY <2>2 DEF Ingest
    <3> QED
      BY <1>1, <2>1, <3>1 DEF Balance, Unsettled
  <2>3. CASE m.seq \notin recorded
    <3>1. counted'[p] = counted[p] + m.load[p]
      BY <2>3 DEF Ingest
    <3>2. m.load[p] + Unsettled(p)' >= Unsettled(p)
      <4>1. CASE slot[p] = m.seq
        <5>1. m.load[p] = frozen[p]
          BY <1>0, <4>1 DEF NoLossInv, Outbox
        <5> QED
          BY <1>0, <1>1, <4>1, <5>1, BalanceTypes DEF Unsettled
      <4>2. CASE slot[p] # m.seq
        BY <1>0, <1>1, <4>2, BalanceTypes DEF Unsettled
      <4> QED
        BY <4>1, <4>2
    <3>3. Unsettled(p)' \in Nat /\ m.load[p] \in Nat
      BY <1>0, <1>1, BalanceTypes DEF Unsettled
    <3> QED
      BY <1>0, <1>1, <2>1, <3>1, <3>2, <3>3, BalanceTypes DEF Balance
  <2> QED
    BY <2>2, <2>3
<1> QED
  BY <1>4, <1>5, <1>6, <1>7 DEF NoLossInv, NoSilentLoss

\* The heartbeat raises the agent's number to the panel's, never past the
\* batch it still has to send.
LEMMA LossHeartbeat ==
    ASSUME TypeInv, NoLossInv, Heartbeat
    PROVE  NoLossInv'
<1>0. TypeOK
  BY DEF TypeInv
<1>1. UNCHANGED <<total, lastSeen, pending, frozen, slot, wire, admitted, reply,
                  recorded, counted, metered, lost>>
      /\ pc \in {"start", "idle"} /\ pc' = "idle"
  BY DEF Heartbeat, kernelVars, netVars, panelVars, history
<1>2. PICK top \in recorded \cup {0} :
        /\ \A s \in recorded : s <= top
        /\ batchSeq' = IF top > batchSeq THEN top ELSE batchSeq
  BY DEF Heartbeat
<1>3. NextSeq' = NextSeq /\ Outbox' = Outbox /\ Copies' = Copies
  BY <1>1 DEF NextSeq, Outbox, Copies
<1>4. \A s \in recorded : s <= batchSeq' /\ s \in Nat
  BY <1>0, <1>2 DEF TypeOK
<1>5. batchSeq \in Nat /\ batchSeq' \in Nat /\ batchSeq <= batchSeq'
  BY <1>0, <1>2 DEF TypeOK
<1>6. \A s \in recorded \cup {m.seq : m \in Copies} :
         s <= batchSeq' \/ (Outbox # {} /\ s = NextSeq)
  <2>1. CASE pc = "start"
    BY <1>4, <2>1 DEF NoLossInv, SeqsBelow
  <2>2. CASE pc = "idle"
    <3>1. \A m \in Copies : m.seq \in Nat
      BY <1>0 DEF TypeOK, Copies, Messages
    <3> QED
      BY <1>4, <1>5, <2>2, <3>1 DEF NoLossInv, SeqsBelow
  <2> QED
    BY <1>1, <2>1, <2>2
<1>7. \A p \in Outbox : batchSeq' <= slot[p]
  <2>1. CASE Outbox = {}
    BY <2>1
  <2>2. CASE Outbox # {}
    <3>1. pc # "start" /\ NextSeq \in Nat /\ \A p \in Outbox : NextSeq <= slot[p]
      BY <1>0, <2>2, NextSeqLeast DEF NoLossInv, SeqsBelow, TypeOK
    <3>2. batchSeq <= NextSeq
      BY <1>0, <2>2, <3>1, NextSeqLeast DEF NoLossInv, SeqsBelow, TypeOK
    <3>3. batchSeq' <= NextSeq
      BY <1>0, <1>2, <3>1, <3>2 DEF NoLossInv, SeqsBelow, TypeOK
    <3>4. \A p \in Outbox : slot[p] \in Nat
      BY <1>0 DEF TypeOK, Outbox
    <3> QED
      BY <1>5, <3>1, <3>3, <3>4
  <2> QED
    BY <2>1, <2>2
<1>8. SeqsBelow'
  BY <1>1, <1>3, <1>6, <1>7 DEF SeqsBelow
<1>9. AckSound'
  BY <1>1, <1>3 DEF NoLossInv, AckSound
<1>10. \A p \in Pairs : Balance(p)' = Balance(p)
  BY <1>1 DEF Balance, Unsettled, Delta
<1> QED
  BY <1>1, <1>3, <1>8, <1>9, <1>10 DEF NoLossInv, NoSilentLoss

\* NoLossInv is inductive when every process starts with an answered
\* heartbeat and no request survives its process.
LEMMA LossStep ==
    ASSUME InformedRestart, TypeInv, NoLossInv, [Next]_vars
    PROVE  NoLossInv'
<1>0. TypeOK
  BY DEF TypeInv
<1>1. \A p \in Pairs : Balance(p) >= metered[p]
  BY DEF NoLossInv, NoSilentLoss
<1> USE DEF kernelVars, agentVars, netVars, panelVars, history
<1>2. CASE HeartbeatFails
  BY <1>2 DEF HeartbeatFails, InformedRestart
<1>3. CASE Heartbeat
  BY <1>3, LossHeartbeat
<1>4. CASE SyncCollect \/ KernelStarted
  <2>1. UNCHANGED <<slot, frozen, batchSeq, wire, admitted, reply, recorded,
                    counted, metered>> /\ pc # "start" /\ pc' # "start"
    BY <1>4 DEF SyncCollect, KernelStarted
  <2>2. reply = "none"
    BY <1>4 DEF SyncCollect, KernelStarted, NoLossInv, AckSound
  <2>3. ASSUME NEW p \in Pairs
        PROVE  Balance(p)' = Balance(p)
    <3>1. Unsettled(p)' = Unsettled(p)
      BY <2>1 DEF Unsettled
    <3>2. Delta(p)' = 0
      BY <1>0, <1>4, BalanceTypes DEF SyncCollect, KernelStarted, Delta, Zero
    <3>3. pending'[p] + lost'[p] = pending[p] + lost[p] + Delta(p)
      BY <1>0, <1>4, BalanceTypes DEF SyncCollect, KernelStarted
    <3>4. /\ pending'[p] \in Nat /\ lost'[p] \in Nat
      BY <1>0, <1>4, BalanceTypes DEF SyncCollect, KernelStarted
    <3> QED
      BY <1>0, <2>1, <3>1, <3>2, <3>3, <3>4, BalanceTypes DEF Balance
  <2> QED
    BY <1>1, <2>1, <2>2, <2>3, LossQuiet
<1>5. CASE KernelFailed
  <2>1. \A p \in Pairs : Balance(p)' = Balance(p)
    BY <1>5 DEF KernelFailed, Balance, Unsettled, Delta
  <2>2. UNCHANGED <<slot, frozen, batchSeq, wire, admitted, reply, recorded, metered>>
        /\ pc # "start" /\ pc' # "start" /\ reply = "none"
    BY <1>5 DEF KernelFailed, NoLossInv, AckSound
  <2> QED
    BY <1>1, <2>1, <2>2, LossQuiet
<1>6. CASE TelemetryPass
  BY <1>6, LossTelemetry
<1>7. CASE Acked
  BY <1>7, LossAcked
<1>8. CASE Rejected
  BY <1>8, LossRejected
<1>9. ASSUME NEW m \in admitted, Ingest(m)
      PROVE  NoLossInv'
  BY <1>9, LossIngest
<1>10. CASE Send
  <2>1. UNCHANGED <<slot, frozen, batchSeq, admitted, recorded, metered>>
        /\ wire' = wire \cup {Batch(NextSeq)} /\ reply' = "none"
        /\ pc # "start" /\ pc' # "start"
    BY <1>10 DEF Send
  <2>2. NextSeq' = NextSeq /\ Outbox' = Outbox /\ Outbox # {}
    BY <1>10, <2>1 DEF Send, NextSeq, Outbox, TypeInv, Busy
  <2>3. Copies' = Copies \cup {Batch(NextSeq)} /\ Batch(NextSeq).seq = NextSeq
    BY <2>1 DEF Copies, Batch
  <2>4. SeqsBelow'
    BY <2>1, <2>2, <2>3 DEF NoLossInv, SeqsBelow
  <2>5. \A m \in Copies', p \in Outbox' : slot'[p] = m.seq => m.load[p] = frozen'[p]
    BY <2>1, <2>2, <2>3 DEF NoLossInv, Batch, Outbox
  <2>6. \A p \in Pairs : Balance(p)' = Balance(p)
    BY <1>10 DEF Send, Balance, Unsettled, Delta
  <2> QED
    BY <1>1, <2>1, <2>4, <2>5, <2>6 DEF NoLossInv, AckSound, NoSilentLoss
<1>11. CASE Timeout
  <2>1. /\ UNCHANGED <<slot, frozen, batchSeq, reply, recorded, metered>>
        /\ reply = "none" /\ Copies' \subseteq Copies
        /\ pc # "start" /\ pc' # "start"
    BY <1>11 DEF Timeout, Abandon, Copies
  <2>2. NextSeq' = NextSeq /\ Outbox' = Outbox
    BY <2>1 DEF NextSeq, Outbox
  <2>3. SeqsBelow'
    BY <2>1, <2>2 DEF NoLossInv, SeqsBelow
  <2>4. \A p \in Pairs : Balance(p)' = Balance(p)
    BY <1>11 DEF Timeout, Balance, Unsettled, Delta
  <2> QED
    BY <1>1, <2>1, <2>2, <2>3, <2>4 DEF NoLossInv, AckSound, NoSilentLoss
<1>12. ASSUME NEW m \in wire, Validate(m)
       PROVE  NoLossInv'
  <2>1. /\ UNCHANGED <<slot, frozen, batchSeq, pc, recorded, metered>>
        /\ Copies' \subseteq Copies
    BY <1>12 DEF Validate, Take, Copies
  <2>2. NextSeq' = NextSeq /\ Outbox' = Outbox
    BY <2>1 DEF NextSeq, Outbox
  <2>3. SeqsBelow'
    BY <2>1, <2>2 DEF NoLossInv, SeqsBelow
  <2>4. reply' = reply \/ (reply' = "rejected" /\ pc = "wait")
    BY <1>12 DEF Validate, Answer
  <2>5. AckSound'
    BY <2>1, <2>2, <2>4 DEF NoLossInv, AckSound
  <2>6. \A p \in Pairs : Balance(p)' = Balance(p)
    BY <1>12 DEF Validate, Balance, Unsettled, Delta
  <2> QED
    BY <1>1, <2>1, <2>2, <2>3, <2>5, <2>6 DEF NoLossInv, NoSilentLoss
<1>13. ASSUME NEW q \in Pairs, Relay(q)
       PROVE  NoLossInv'
  <2>1. UNCHANGED <<slot, frozen, batchSeq, wire, admitted, reply, recorded,
                    pc, lastSeen, pending, counted, lost>>
    BY <1>13 DEF Relay
  <2>2. ASSUME NEW p \in Pairs
        PROVE  Balance(p)' >= metered'[p]
    <3>1. Unsettled(p)' = Unsettled(p)
      BY <2>1 DEF Unsettled
    <3>2. CASE p # q
      <4>1. total'[p] = total[p] /\ metered'[p] = metered[p]
        BY <1>0, <1>13, <3>2 DEF Relay, TypeOK
      <4> QED
        BY <1>1, <2>1, <3>1, <4>1 DEF Balance, Delta
    <3>3. CASE p = q
      <4>1. total'[p] = total[p] + 1 /\ metered'[p] = metered[p] + 1
        BY <1>0, <1>13, <3>3 DEF Relay, TypeOK
      <4>2. lastSeen[p] <= total[p]
        BY DEF TypeInv, Behind
      <4>3. Delta(p)' = Delta(p) + 1
        BY <1>0, <2>1, <4>1, <4>2, BalanceTypes DEF Delta
      <4> QED
        BY <1>0, <1>1, <2>1, <3>1, <4>1, <4>3, BalanceTypes DEF Balance
    <3> QED
      BY <3>2, <3>3
  <2> QED
    BY <2>1, <2>2, LossQuiet DEF NoLossInv, AckSound
<1>14. ASSUME NEW p \in Pairs, Revoke(p) \/ Grant(p)
       PROVE  NoLossInv'
  <2>1. \A q \in Pairs : Balance(q)' = Balance(q)
    BY <1>14 DEF Revoke, Grant, Balance, Unsettled, Delta
  <2>2. UNCHANGED <<slot, frozen, batchSeq, wire, admitted, reply, recorded, metered, pc>>
    BY <1>14 DEF Revoke, Grant
  <2> QED
    BY <1>1, <2>1, <2>2, LossQuiet DEF NoLossInv, AckSound
<1>15. CASE Age \/ UNCHANGED vars
  <2>1. \A q \in Pairs : Balance(q)' = Balance(q)
    BY <1>15 DEF Age, vars, Balance, Unsettled, Delta
  <2>2. UNCHANGED <<slot, frozen, batchSeq, wire, admitted, reply, recorded, metered, pc>>
    BY <1>15 DEF Age, vars
  <2> QED
    BY <1>1, <2>1, <2>2, LossQuiet DEF NoLossInv, AckSound
<1>16. CASE Crash
  <2>1. /\ total' = Zero /\ lastSeen' = Zero /\ pending' = Zero /\ slot' = Zero
        /\ reply' = "none" /\ pc' = "start"
        /\ UNCHANGED <<recorded, counted, metered>>
        /\ Copies' = {}
    BY <1>16 DEF Crash, Abandon, InformedRestart, Copies
  <2>2. Outbox' = {}
    BY <2>1 DEF Outbox, Zero
  <2>3. ASSUME NEW p \in Pairs
        PROVE  Balance(p)' = Balance(p)
    <3>1. lost'[p] = lost[p] + Delta(p) + pending[p] + Unsettled(p)
      BY <1>16 DEF Crash
    <3>2. Unsettled(p)' = 0 /\ pending'[p] = 0 /\ Delta(p)' = 0
      BY <2>1 DEF Unsettled, Delta, Zero
    <3> QED
      BY <1>0, <2>1, <3>1, <3>2, BalanceTypes DEF Balance
  <2> QED
    BY <1>1, <2>1, <2>2, <2>3 DEF NoLossInv, AckSound, SeqsBelow, NoSilentLoss
<1> QED
  BY <1>2, <1>3, <1>4, <1>5, <1>6, <1>7, <1>8, <1>9, <1>10, <1>11, <1>12,
     <1>13, <1>14, <1>15, <1>16 DEF Next, Loop, Handler, Environment

\* A metered byte is never forgotten before the panel recorded it.
THEOREM NothingLostSilently == InformedRestart => (Spec => []NoSilentLoss)
<1> SUFFICES ASSUME InformedRestart PROVE Spec => []NoSilentLoss
  OBVIOUS
<1>1. Init => TypeInv /\ NoLossInv
  BY TypeInit, LossInit
<1>2. TypeInv /\ NoLossInv /\ [Next]_vars => (TypeInv /\ NoLossInv)'
  BY TypeStep, LossStep
<1>3. NoLossInv => NoSilentLoss
  BY DEF NoLossInv
<1> QED
  BY <1>1, <1>2, <1>3, PTL DEF Spec

\* A batch is never frozen under a number the panel already has.
THEOREM FreshNumbers == InformedRestart => (Spec => ResumesAboveRecorded)
<1> SUFFICES ASSUME InformedRestart PROVE Spec => ResumesAboveRecorded
  OBVIOUS
<1> DEFINE Fresh == \A p \in Pairs : slot[p] = 0 /\ slot'[p] # 0
                       => \A s \in recorded : s < slot'[p]
<1>1. Init => TypeInv /\ NoLossInv
  BY TypeInit, LossInit
<1>2. TypeInv /\ NoLossInv /\ [Next]_vars => (TypeInv /\ NoLossInv)'
  BY TypeStep, LossStep
<1>3. TypeInv /\ NoLossInv /\ [Next]_vars => [Fresh]_vars
  <2> SUFFICES ASSUME TypeInv, NoLossInv, [Next]_vars
               PROVE  [Fresh]_vars
    OBVIOUS
  <2>1. CASE TelemetryPass
    <3> DEFINE load == [p \in Pairs |-> pending[p] + Delta(p)]
    <3>1. load \in [Pairs -> Nat]
      BY BalanceTypes DEF TypeInv
    <3>2. CASE Freeze(load) /\ Outbox = {}
      <4>1. pc = "idle"
        BY <2>1 DEF TelemetryPass
      <4>2. \A p \in Pairs : slot'[p] # 0 =>
              \A s \in recorded \cup {m.seq : m \in Copies} : s < slot'[p]
        BY <3>1, <3>2, <4>1, FreezeAbove
      <4> QED
        BY <4>2
    <3>3. CASE UNCHANGED slot
      BY <3>3
    <3> QED
      BY <2>1, <3>2, <3>3 DEF TelemetryPass
  <2>2. CASE Acked \/ Rejected
    BY <2>2 DEF Acked, Rejected, Retire
  <2>3. CASE Crash
    BY <2>3 DEF Crash, Zero
  <2>4. CASE UNCHANGED slot
    BY <2>4
  <2>5. CASE UNCHANGED vars
    BY <2>5
  <2> QED
    BY <2>1, <2>2, <2>3, <2>4, <2>5
       DEF Next, Loop, Handler, Environment, Heartbeat, HeartbeatFails, SyncCollect,
           KernelStarted, KernelFailed, Send, Timeout, Validate, Ingest, Relay,
           Revoke, Grant, Age, agentVars
<1> QED
  BY <1>1, <1>2, <1>3, PTL DEF Spec, ResumesAboveRecorded
=============================================================================
