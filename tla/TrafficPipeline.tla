--------------------------- MODULE TrafficPipeline ---------------------------
(***************************************************************************)
(* How the bytes a server meters reach the panel's accounting.             *)
(*                                                                         *)
(* Agent (one goroutine, internal/agentruntime/loop.go): collects deltas   *)
(* of the kernel's counters into `pending`, freezes them into numbered     *)
(* batches, sends the batches one at a time over HTTP, replays a batch     *)
(* whose outcome it does not know, requeues one the panel rejects.         *)
(*                                                                         *)
(* Panel (internal/web/agent_telemetry.go, internal/repo/telemetry.go):    *)
(* validates a batch against the current authorizations and the clock,     *)
(* then records it once per (agent, seq) in one transaction.               *)
(*                                                                         *)
(* Between them: a network that loses and delays requests and replies, and *)
(* an administrator who revokes and grants (user, node) pairs.  The agent  *)
(* keeps everything in memory, so a crash forgets it.                      *)
(*                                                                         *)
(* Abstractions.  A (user, node) pair is a number, its position in the     *)
(* sort order of the records; upload and download are one byte count; the  *)
(* frozen batches (Loop.inflight from inflightIdx on) are kept per pair:   *)
(* slot[p] is the sequence number of the batch p's record is in, 0 for     *)
(* none, frozen[p] the bytes of that record.                               *)
(***************************************************************************)
EXTENDS Integers, FiniteSets

CONSTANTS
    Pairs,           \* (user, node) pairs of the server, in record order
    MaxBatchRecords, \* records per batch
    Faults,          \* what the environment may do, see FaultKinds
    MaxBytes,        \* bound: bytes metered per pair
    MaxSeq,          \* bound: highest sequence number frozen
    MaxFaults        \* bound: crashes, revocations and ageings together

(***************************************************************************)
(* crash   the agent process dies and starts again                         *)
(* blind   the startup heartbeat may fail (metrics or HTTP)                *)
(* delay   a request the agent gave up on may still be handled             *)
(* orphan  a request may outlive the agent process that sent it            *)
(* revoke  the administrator withdraws the authorization of a pair         *)
(* age     a frozen batch may leave the panel's 24 h acceptance window     *)
(***************************************************************************)
FaultKinds == {"crash", "blind", "delay", "orphan", "revoke", "age"}

ASSUME PairsAssumption == Pairs \subseteq Nat /\ IsFiniteSet(Pairs)
ASSUME BatchAssumption == MaxBatchRecords \in Nat \ {0}
ASSUME FaultAssumption == Faults \subseteq FaultKinds
ASSUME BoundAssumption == MaxBytes \in Nat /\ MaxSeq \in Nat /\ MaxFaults \in Nat

VARIABLES
    total,      \* kernel: ConnTracker's byte counters
    kernel,     \* kernel: "new" until an instance was started, "up" or "down"
    lastSeen,   \* agent: Loop.lastSeen
    pending,    \* agent: Loop.pending
    frozen,     \* agent: bytes of the record frozen for a pair
    slot,       \* agent: batch_seq of the frozen batch a pair is in, or 0
    batchSeq,   \* agent: State.TrafficBatchSeq
    pc,         \* agent: where the loop's goroutine is
    wire,       \* network: requests that may still reach the handler
    admitted,   \* panel: requests validated, their transaction still to come
    reply,      \* network: the answer the waiting agent will read
    auth,       \* panel: pairs authorized by user_nodes
    recorded,   \* panel: sequence numbers in traffic_batches
    counted,    \* panel: bytes added to users.u + users.d, per pair
    stale,      \* sequence numbers frozen more than 24 h ago
    faults,     \* faults spent so far
    metered,    \* history: bytes that ever went through the kernel
    lost        \* history: bytes dropped by a crash or a kernel swap

kernelVars == <<total, kernel>>
agentVars  == <<lastSeen, pending, frozen, slot, batchSeq, pc>>
netVars    == <<wire, admitted, reply>>
panelVars  == <<auth, recorded, counted>>
history    == <<metered, lost>>
vars == <<kernelVars, agentVars, netVars, panelVars, stale, faults, history>>

Zero == [p \in Pairs |-> 0]

Messages == [seq : Nat \ {0}, load : [Pairs -> Nat]]

(***************************************************************************)
(* The agent's frozen batches.                                             *)
(***************************************************************************)
Outbox == {p \in Pairs : slot[p] # 0}

\* The batch at inflightIdx: batches are sent in sequence order.
NextSeq == CHOOSE s \in {slot[p] : p \in Outbox} :
               \A p \in Outbox : s <= slot[p]

\* Mutant: the payload is rebuilt at every attempt, new bytes included.
BatchRebuilt(s) ==
    [seq  |-> s,
     load |-> [p \in Pairs |-> IF slot[p] = s THEN frozen[p] + pending[p] ELSE 0]]

Batch(s) == [seq  |-> s,
             load |-> [p \in Pairs |-> IF slot[p] = s THEN frozen[p] ELSE 0]]

\* Mutant: the operands of the subtraction are swapped.
DeltaSwapped(p) == IF total[p] > lastSeen[p] THEN lastSeen[p] - total[p] ELSE 0

\* What Loop.collectDeltas adds for p: a counter that went back adds nothing.
Delta(p) == IF total[p] > lastSeen[p] THEN total[p] - lastSeen[p] ELSE 0

\* The bytes of p the panel will still hear of: frozen ones whose batch is
\* already recorded are not pending any more, whatever the agent believes.
Unsettled(p) == IF slot[p] # 0 /\ slot[p] \notin recorded THEN frozen[p] ELSE 0

Init ==
    /\ total = Zero /\ kernel = "new"
    /\ lastSeen = Zero /\ pending = Zero
    /\ frozen = Zero /\ slot = Zero
    /\ batchSeq = 0 /\ pc = "start"
    /\ wire = {} /\ admitted = {} /\ reply = "none"
    /\ auth = Pairs /\ recorded = {} /\ counted = Zero
    /\ stale = {} /\ faults = 0
    /\ metered = Zero /\ lost = Zero

-----------------------------------------------------------------------------
(***************************************************************************)
(* The kernel.                                                             *)
(***************************************************************************)

\* A byte of pair p crosses the tracker.
Relay(p) ==
    /\ kernel = "up"
    /\ metered[p] < MaxBytes
    /\ total' = [total EXCEPT ![p] = @ + 1]
    /\ metered' = [metered EXCEPT ![p] = @ + 1]
    /\ UNCHANGED <<kernel, agentVars, netVars, panelVars, stale, faults, lost>>

(***************************************************************************)
(* The agent's loop.  pc: "start" before the startup heartbeat, "idle" in  *)
(* the select, "sync" between Snapshot and kernel.Start of a sync pass,    *)
(* "send" with a batch to send, "wait" inside client.Traffic.              *)
(***************************************************************************)

\* Mutant: the panel's MAX(seq) is ignored.
HeartbeatIgnoresSeq ==
    /\ pc \in {"start", "idle"}
    /\ pc' = "idle"
    /\ UNCHANGED <<kernelVars, lastSeen, pending, frozen, slot, batchSeq,
                   netVars, panelVars, stale, faults, history>>

\* heartbeatPass, answered: reconcileSeq adopts the panel's MAX(seq).
Heartbeat ==
    /\ pc \in {"start", "idle"}
    /\ \E top \in recorded \cup {0} :
          /\ \A s \in recorded : s <= top
          /\ batchSeq' = IF top > batchSeq THEN top ELSE batchSeq
    /\ pc' = "idle"
    /\ UNCHANGED <<kernelVars, lastSeen, pending, frozen, slot, netVars,
                   panelVars, stale, faults, history>>

\* The startup heartbeatPass fails; Run goes on without it.
HeartbeatFails ==
    /\ pc = "start"
    /\ "blind" \in Faults
    /\ pc' = "idle"
    /\ UNCHANGED <<kernelVars, lastSeen, pending, frozen, slot, batchSeq,
                   netVars, panelVars, stale, faults, history>>

\* syncPass with a config to apply: the counters are collected first.
SyncCollect ==
    /\ pc = "idle"
    /\ pending' = [p \in Pairs |-> pending[p] + Delta(p)]
    /\ lastSeen' = total
    /\ pc' = "sync"
    /\ UNCHANGED <<kernelVars, frozen, slot, batchSeq, netVars, panelVars,
                   stale, faults, history>>

\* kernel.Start succeeds: a new tracker counts from zero; what went through
\* the old one since the snapshot is never collected.
KernelStarted ==
    /\ pc = "sync"
    /\ lost' = [p \in Pairs |-> lost[p] + Delta(p)]
    /\ total' = Zero
    /\ lastSeen' = Zero
    /\ kernel' = "up"
    /\ pc' = "idle"
    /\ UNCHANGED <<pending, frozen, slot, batchSeq, netVars, panelVars, stale,
                   faults, metered>>

\* kernel.Start fails: the previous tracker stays.  The instance of the last
\* configuration that did start is started again, also when it is not up any
\* more because that failed before, and this may fail too.
KernelFailed ==
    /\ pc = "sync"
    /\ kernel' \in IF kernel = "new" THEN {"new"} ELSE {"up", "down"}
    /\ pc' = "idle"
    /\ UNCHANGED <<total, lastSeen, pending, frozen, slot, batchSeq, netVars,
                   panelVars, stale, faults, history>>

\* The batch buildTrafficBatches puts pair p in, when the pairs with pending
\* bytes are cut, in order, into batches of MaxBatchRecords.
SlotOf(p, load) ==
    LET before == {q \in Pairs : q < p /\ load[q] > 0}
    IN  batchSeq + 1 + (Cardinality(before) \div MaxBatchRecords)

Freeze(load) ==
    /\ slot'   = [p \in Pairs |-> IF load[p] > 0 THEN SlotOf(p, load) ELSE 0]
    /\ frozen' = load
    /\ pending' = Zero
    /\ stale' = stale \ {slot'[p] : p \in Pairs}
    /\ \A p \in Pairs : slot'[p] <= MaxSeq

\* telemetryPass: collect, then freeze unless frozen batches are left over.
TelemetryPass ==
    /\ pc = "idle"
    /\ lastSeen' = total
    /\ LET load == [p \in Pairs |-> pending[p] + Delta(p)] IN
          \/ /\ Outbox # {}
             /\ pending' = load
             /\ pc' = "send"
             /\ UNCHANGED <<slot, frozen, stale>>
          \/ /\ Outbox = {}
             /\ \E p \in Pairs : load[p] > 0
             /\ Freeze(load)
             /\ pc' = "send"
          \/ /\ Outbox = {}
             /\ \A p \in Pairs : load[p] = 0
             /\ UNCHANGED <<pending, slot, frozen, stale, pc>>
    /\ UNCHANGED <<kernelVars, batchSeq, netVars, panelVars, faults, history>>

\* One attempt of client.Traffic leaves the agent.
Send ==
    /\ pc = "send"
    /\ wire' = wire \cup {Batch(NextSeq)}
    /\ reply' = "none"
    /\ pc' = "wait"
    /\ UNCHANGED <<kernelVars, lastSeen, pending, frozen, slot, batchSeq,
                   admitted, panelVars, stale, faults, history>>

\* What is left of the requests in flight when the agent stops listening.
Abandon(kind) ==
    IF kind \in Faults THEN UNCHANGED <<wire, admitted>>
                       ELSE wire' = {} /\ admitted' = {}

\* The batch is done with; flushTraffic goes on to the next one, if any.
Retire(s) ==
    /\ slot'   = [p \in Pairs |-> IF slot[p] = s THEN 0 ELSE slot[p]]
    /\ frozen' = [p \in Pairs |-> IF slot[p] = s THEN 0 ELSE frozen[p]]
    /\ pc' = IF \A p \in Outbox : slot[p] = s THEN "idle" ELSE "send"
    /\ reply' = "none"

\* Mutant: a batch whose outcome is unknown is requeued, not replayed.
TimeoutRequeues ==
    /\ pc = "wait"
    /\ reply = "none"
    /\ Retire(NextSeq)
    /\ pending' = [p \in Pairs |->
                     pending[p] + IF slot[p] = NextSeq THEN frozen[p] ELSE 0]
    /\ batchSeq' = IF NextSeq > batchSeq THEN NextSeq ELSE batchSeq
    /\ Abandon("delay")
    /\ UNCHANGED <<kernelVars, lastSeen, panelVars, stale, faults, history>>

\* An attempt ends with a network error or a retryable status: either the
\* client tries again, or flushTraffic returns with the batch still frozen.
Timeout ==
    /\ pc = "wait"
    /\ reply = "none"
    /\ pc' \in {"send", "idle"}
    /\ Abandon("delay")
    /\ UNCHANGED <<kernelVars, lastSeen, pending, frozen, slot, batchSeq,
                   reply, panelVars, stale, faults, history>>

\* Mutant: TrafficBatchSeq is not moved to the acknowledged batch.
AckedForgetsSeq ==
    /\ pc = "wait"
    /\ reply = "accepted"
    /\ Retire(NextSeq)
    /\ UNCHANGED <<kernelVars, lastSeen, pending, batchSeq, wire, admitted,
                   panelVars, stale, faults, history>>

\* 200: the batch's own number becomes TrafficBatchSeq, even a lower one.
Acked ==
    /\ pc = "wait"
    /\ reply = "accepted"
    /\ Retire(NextSeq)
    /\ batchSeq' = NextSeq
    /\ UNCHANGED <<kernelVars, lastSeen, pending, wire, admitted, panelVars,
                   stale, faults, history>>

\* Mutant: a rejected batch stays frozen, like one that timed out.
RejectedStaysFrozen ==
    /\ pc = "wait"
    /\ reply = "rejected"
    /\ reply' = "none"
    /\ pc' = "idle"
    /\ UNCHANGED <<kernelVars, lastSeen, pending, frozen, slot, batchSeq, wire,
                   admitted, panelVars, stale, faults, history>>

\* A 4xx other than 408/429: requeueTrafficBatch.
Rejected ==
    /\ pc = "wait"
    /\ reply = "rejected"
    /\ Retire(NextSeq)
    /\ pending' = [p \in Pairs |->
                     pending[p] + IF slot[p] = NextSeq THEN frozen[p] ELSE 0]
    /\ batchSeq' = IF NextSeq > batchSeq THEN NextSeq ELSE batchSeq
    /\ UNCHANGED <<kernelVars, lastSeen, wire, admitted, panelVars, stale,
                   faults, history>>

-----------------------------------------------------------------------------
(***************************************************************************)
(* The panel's handler: handleAgentTraffic reads the scopes and validates  *)
(* outside the transaction of IngestTrafficBatch.                          *)
(***************************************************************************)

\* Every record is of an authorized pair and inside the acceptance window.
Valid(m) ==
    /\ \A p \in Pairs : m.load[p] > 0 => p \in auth
    /\ m.seq \notin stale

\* The handler's answer reaches the agent, if it is still the one waiting.
Answer(m, status) ==
    reply' \in (IF pc = "wait" /\ reply = "none" /\ m = Batch(NextSeq)
                THEN {reply, status} ELSE {reply})

\* The request is removed, or a copy of it stays under way.
Take(m) == IF "delay" \in Faults THEN wire' \in {wire, wire \ {m}}
                                 ELSE wire' = wire \ {m}

Validate(m) ==
    /\ m \in wire
    /\ Take(m)
    /\ \/ Valid(m) /\ admitted' = admitted \cup {m} /\ reply' = reply
       \/ ~Valid(m) /\ admitted' = admitted /\ Answer(m, "rejected")
    /\ UNCHANGED <<kernelVars, agentVars, panelVars, stale, faults, history>>

\* Mutant: a known sequence number is counted again.
IngestAgain(m) ==
    /\ m \in admitted
    /\ admitted' = admitted \ {m}
    /\ recorded' = recorded \cup {m.seq}
    /\ counted' = [p \in Pairs |-> counted[p] + m.load[p]]
    /\ Answer(m, "accepted")
    /\ UNCHANGED <<kernelVars, agentVars, wire, auth, stale, faults, history>>

\* One transaction: a known sequence number is acknowledged and nothing else.
Ingest(m) ==
    /\ m \in admitted
    /\ admitted' = admitted \ {m}
    /\ \/ /\ m.seq \in recorded
          /\ UNCHANGED <<recorded, counted>>
       \/ /\ m.seq \notin recorded
          /\ recorded' = recorded \cup {m.seq}
          /\ counted' = [p \in Pairs |-> counted[p] + m.load[p]]
    /\ Answer(m, "accepted")
    /\ UNCHANGED <<kernelVars, agentVars, wire, auth, stale, faults, history>>

-----------------------------------------------------------------------------
(***************************************************************************)
(* The environment.                                                        *)
(***************************************************************************)
Fault(kind) ==
    /\ kind \in Faults
    /\ faults < MaxFaults
    /\ faults' = faults + 1

\* SetUserNodes or SetNodeUsers takes a pair away (the deletion of its user or
\* node, after which there is nobody to charge, is not modelled).
Revoke(p) ==
    /\ Fault("revoke")
    /\ p \in auth
    /\ auth' = auth \ {p}
    /\ UNCHANGED <<kernelVars, agentVars, netVars, recorded, counted, stale,
                   history>>

Grant(p) ==
    /\ p \notin auth
    /\ auth' = auth \cup {p}
    /\ UNCHANGED <<kernelVars, agentVars, netVars, recorded, counted, stale,
                   faults, history>>

\* A day goes by with the same batches still frozen.
Age ==
    /\ Fault("age")
    /\ Outbox # {}
    /\ stale' = stale \cup {slot[p] : p \in Outbox}
    /\ UNCHANGED <<kernelVars, agentVars, netVars, panelVars, history>>

\* The process dies: agentstate, the loop and the kernel live in memory.
Crash ==
    /\ Fault("crash")
    /\ lost' = [p \in Pairs |-> lost[p] + Delta(p) + pending[p] + Unsettled(p)]
    /\ total' = Zero /\ kernel' = "new"
    /\ lastSeen' = Zero /\ pending' = Zero
    /\ frozen' = Zero /\ slot' = Zero
    /\ batchSeq' = 0 /\ pc' = "start" /\ reply' = "none"
    /\ Abandon("orphan")
    /\ UNCHANGED <<panelVars, stale, metered>>

Loop ==
    \/ Heartbeat \/ HeartbeatFails
    \/ SyncCollect \/ KernelStarted \/ KernelFailed
    \/ TelemetryPass \/ Send \/ Timeout \/ Acked \/ Rejected

Handler == \/ \E m \in wire : Validate(m)
           \/ \E m \in admitted : Ingest(m)

Environment ==
    \/ \E p \in Pairs : Relay(p) \/ Revoke(p) \/ Grant(p)
    \/ Age \/ Crash

Next == Loop \/ Handler \/ Environment

Spec == Init /\ [][Next]_vars

-----------------------------------------------------------------------------
(***************************************************************************)
(* Properties.                                                             *)
(***************************************************************************)

\* Every variable keeps its type (the fields of Loop, State and the tables).
TypeOK ==
    /\ total \in [Pairs -> Nat] /\ kernel \in {"new", "up", "down"}
    /\ lastSeen \in [Pairs -> Nat] /\ pending \in [Pairs -> Nat]
    /\ frozen \in [Pairs -> Nat] /\ slot \in [Pairs -> Nat]
    /\ batchSeq \in Nat /\ pc \in {"start", "idle", "sync", "send", "wait"}
    /\ wire \in SUBSET Messages /\ admitted \in SUBSET Messages
    /\ reply \in {"none", "accepted", "rejected"}
    /\ auth \in SUBSET Pairs /\ recorded \in SUBSET (Nat \ {0})
    /\ counted \in [Pairs -> Nat]
    /\ stale \in SUBSET Nat /\ faults \in Nat
    /\ metered \in [Pairs -> Nat] /\ lost \in [Pairs -> Nat]

\* The account of pair p: bytes counted, written off, and still to be settled.
Balance(p) == counted[p] + lost[p] + Unsettled(p) + pending[p] + Delta(p)

\* The panel never charges a user more than the kernel relayed, and no byte
\* is counted while another copy of it can still be.  It is what (agent, seq)
\* deduplication, the frozen payload and the requeue of a rejected batch are
\* for; it needs an environment without "revoke" and "age", see the README.
NoDoubleCounting == \A p \in Pairs : Balance(p) <= metered[p]

\* A byte that was metered is counted, or still on its way, or was in the
\* memory of an agent that crashed or in a tracker that was replaced: an
\* acknowledgement never makes the agent forget bytes nobody recorded.
NoSilentLoss == \A p \in Pairs : Balance(p) >= metered[p]

\* What the user is charged stays below what was relayed, whatever straggling
\* requests of an earlier agent process the panel still handles.
NeverOvercharged == \A p \in Pairs : counted[p] <= metered[p]

\* (agent, batch_seq) identifies one payload: all the copies of a batch that
\* are under way, and the one the agent would send next, agree.
KeyIdentifiesPayload ==
    LET live == wire \cup admitted
                \cup (IF Outbox = {} THEN {} ELSE {Batch(NextSeq)})
    IN  \A m, n \in live : m.seq = n.seq => m.load = n.load

\* Freezing uses numbers above every recorded one, so that the panel cannot
\* take a new batch for a duplicate (reconcileSeq after a restart).
ResumesAboveRecorded ==
    [][\A p \in Pairs : slot[p] = 0 /\ slot'[p] # 0
           => \A s \in recorded : s < slot'[p]]_vars

(***************************************************************************)
(* Inductive strengthenings.                                               *)
(***************************************************************************)
Copies == wire \cup admitted

\* The answer read by the agent is about the batch it waits for.
AckSound ==
    /\ reply # "none" => pc = "wait"
    /\ reply = "accepted" => NextSeq \in recorded

\* Without rejections, a copy under way is of a recorded batch, or of one
\* that is still frozen, with the very bytes that are frozen.
CopyFrozen(m) ==
    /\ \E p \in Pairs : slot[p] = m.seq
    /\ \A p \in Pairs : m.load[p] = IF slot[p] = m.seq THEN frozen[p] ELSE 0

NeverRejected == auth = Pairs /\ stale = {} /\ reply # "rejected"

\* No byte has two ways to be counted: NoDoubleCounting with what makes it
\* inductive when no request is ever rejected.
OnceInv ==
    /\ NeverRejected
    /\ AckSound
    /\ \A m \in Copies : m.seq \in recorded \/ CopyFrozen(m)
    /\ NoDoubleCounting

\* Everything the panel knows, or may still hear of, is at most the sequence
\* number the agent would start the next freeze from, or is the batch the
\* agent is sending.
SeqsBelow ==
    /\ pc = "start" => Copies = {} /\ Outbox = {}
    /\ pc # "start" =>
         /\ \A s \in recorded \cup {m.seq : m \in Copies} :
               s <= batchSeq \/ (Outbox # {} /\ s = NextSeq)
         /\ \A p \in Outbox : batchSeq <= slot[p]

\* No byte is forgotten before it is recorded: NoSilentLoss with what makes
\* it inductive when every process learns the panel's numbers first.
NoLossInv ==
    /\ AckSound
    /\ SeqsBelow
    /\ \A m \in Copies, p \in Outbox : slot[p] = m.seq => m.load[p] = frozen[p]
    /\ NoSilentLoss

\* Every step of the pipeline is a step of the ledger, or none: bytes that
\* were charged or written off stay so, and are never both.
Ledger == INSTANCE TrafficLedger
    WITH Pairs <- Pairs, metered <- metered, counted <- counted, lost <- lost

ImplementsLedger == Ledger!LedgerSpec

(***************************************************************************)
(* Fairness.  The goroutine runs, and Go's select picks each ready ticker  *)
(* again and again (strong fairness on what competes in the select); the   *)
(* network, retried for ever, lets requests and answers through again and  *)
(* again; kernel.Start succeeds again and again.                           *)
(***************************************************************************)
Answered(m) == Ingest(m) /\ reply' # reply

Fairness ==
    /\ WF_vars(pc = "start" /\ Heartbeat)
    /\ SF_vars(TelemetryPass)
    /\ WF_vars(Send)
    /\ WF_vars(Timeout)
    /\ WF_vars(Acked)
    /\ WF_vars(Rejected)
    /\ WF_vars(pc = "sync" /\ (KernelStarted \/ KernelFailed))
    /\ SF_vars(\E m \in wire : Validate(m) /\ (Valid(m) \/ reply' # reply))
    /\ SF_vars(\E m \in admitted : Answered(m))

FairSpec == Spec /\ Fairness

\* Every metered byte ends up counted or written off: a replay, a restart, a
\* batch that aged out and was requeued, or a string of lost answers cannot
\* keep bytes in the agent for ever.
EventuallySettled ==
    \A p \in Pairs : \A n \in 1 .. MaxBytes :
        metered[p] >= n ~> counted[p] + lost[p] >= n
=============================================================================
