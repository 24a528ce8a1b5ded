---------------------------- MODULE DeviceReports ----------------------------
(***************************************************************************)
(* Which devices the panel believes to be online, and how many per user.   *)
(*                                                                         *)
(* With every telemetry pass the agent of server Self takes a snapshot of  *)
(* the connected devices, cuts it into numbered batches that share one     *)
(* timestamp, and sends them one at a time (internal/agentruntime/loop.go, *)
(* flushDevices).  The panel validates a batch against authorizations and  *)
(* clock (internal/web/agent_telemetry.go) and then, once per number and   *)
(* in one transaction, drops the server's rows that are older than the     *)
(* snapshot, upserts the reported ones and refreshes the number of         *)
(* distinct addresses of each user concerned (internal/repo/telemetry.go). *)
(* Deletions and the retention sweep remove rows as well.                  *)
(*                                                                         *)
(* Abstractions.  A device is a (user, node, address); the number of its   *)
(* connections, the device limits (they only keep devices out) and         *)
(* users.last_online_at are left out.  The other servers report in one     *)
(* step.  A new kernel starts without connections.                         *)
(***************************************************************************)
EXTENDS Integers, FiniteSets, Sequences

CONSTANTS
    Users, Nodes,    \* ids, in the order the reports are sorted by
    Ips,
    Servers,
    Home,            \* Home[n] is the server of node n
    Self,            \* the server whose agent is modelled
    MaxBatchRecords, \* (user, node) reports per batch
    Faults,          \* what else happens, see FaultKinds
    Day,             \* the 24 h of agentTimestampWindow and staleDeviceHorizon
    MaxTime,         \* bound: time counted
    MaxSeq,          \* bound: highest sequence number frozen
    MaxFaults        \* bound: crashes, revocations and deletions together

(***************************************************************************)
(* crash   the agent process dies and starts again                         *)
(* blind   the startup heartbeat may fail                                  *)
(* delay   a request the agent gave up on may still be handled             *)
(* orphan  so may one whose process died                                   *)
(* revoke, user, server, node: the administrator withdraws an              *)
(*         authorization, deletes a user, a server, a node                 *)
(***************************************************************************)
FaultKinds == {"crash", "blind", "delay", "orphan", "revoke", "user", "server", "node"}

ASSUME IdAssumption == Users \subseteq Nat /\ Nodes \subseteq Nat
                       /\ IsFiniteSet(Users) /\ IsFiniteSet(Nodes) /\ IsFiniteSet(Ips)
ASSUME HomeAssumption == Home \in [Nodes -> Servers] /\ Self \in Servers
ASSUME BatchAssumption == MaxBatchRecords \in Nat \ {0}
ASSUME FaultAssumption == Faults \subseteq FaultKinds
ASSUME BoundAssumption == Day \in Nat /\ MaxTime \in Nat /\ MaxSeq \in Nat /\ MaxFaults \in Nat

VARIABLES
    live,      \* kernel: devices with a connection through Self
    served,    \* kernel: pairs the running configuration lets in
    frozen,    \* agent: Loop.deviceInflight from deviceInflightIdx on
    deviceSeq, \* agent: State.DeviceBatchSeq
    pc,        \* agent: where the loop's goroutine is
    wire,      \* network: requests that may still reach the handler
    admitted,  \* panel: requests validated, their transaction still to come
    reply,     \* network: the answer the waiting agent will read
    rows,      \* panel: the servers, nodes and users there are
    auth,      \* panel: user_nodes
    seenAt,    \* panel: online_devices.last_seen_at, Absent for no row
    count,     \* panel: users.online_count
    recorded,  \* panel: sequence numbers in device_batches
    time,      \* clock of agent and panel
    faults,    \* faults spent so far
    snapshot   \* history: what was frozen last, and when

agentVars == <<served, frozen, deviceSeq, pc, snapshot>>
netVars   == <<wire, admitted, reply>>
panelVars == <<rows, auth, seenAt, count, recorded>>
vars == <<live, agentVars, netVars, panelVars, time, faults>>

Pairs   == Users \X Nodes
Devices == Users \X Nodes \X Ips
Absent  == -1
Times   == 0 .. MaxTime

Batches == [seq : Nat, at : Times, devices : SUBSET Devices]

PairOf(d) == <<d[1], d[2]>>

-----------------------------------------------------------------------------
(***************************************************************************)
(* buildDeviceBatches: the reports, one per pair, sorted by user and node, *)
(* are cut into batches; no report at all makes one empty batch.           *)
(***************************************************************************)
Before(p, q) == p[1] < q[1] \/ (p[1] = q[1] /\ p[2] < q[2])

BatchIndex(d, devices) ==
    LET before == {p \in {PairOf(e) : e \in devices} : Before(p, PairOf(d))}
    IN  Cardinality(before) \div MaxBatchRecords

NumBatches(devices) ==
    IF devices = {} THEN 1
    ELSE (Cardinality({PairOf(d) : d \in devices}) + MaxBatchRecords - 1)
            \div MaxBatchRecords

\* Mutant: the second batch starts over with the number of the first.
CutSameNumber(devices, base, at) ==
    [k \in 1 .. NumBatches(devices) |->
        [seq |-> base + 1, at |-> at,
         devices |-> {d \in devices : BatchIndex(d, devices) = k - 1}]]

Cut(devices, base, at) ==
    [k \in 1 .. NumBatches(devices) |->
        [seq |-> base + k, at |-> at,
         devices |-> {d \in devices : BatchIndex(d, devices) = k - 1}]]

-----------------------------------------------------------------------------
(***************************************************************************)
(* The rows.                                                               *)
(***************************************************************************)
Exists(s, n, u) == s \in rows.servers /\ n \in rows.nodes /\ u \in rows.users

RowsOf(s) == {d \in Devices : seenAt[d] # Absent /\ Home[d[2]] = s}

\* What refreshOnlineCountExec counts for u.
Addresses(u) == {ip \in Ips : \E n \in Nodes : seenAt[<<u, n, ip>>] # Absent}

Refresh(us) ==
    count' = [u \in Users |-> IF u \in us THEN Cardinality(Addresses(u)') ELSE count[u]]

Drop(devices) == seenAt' = [d \in Devices |-> IF d \in devices THEN Absent ELSE seenAt[d]]

\* Mutant: only the users in the report are refreshed, not those who left.
StoreRefreshReported(s, at, devices) ==
    /\ seenAt' = [d \in Devices |->
                    IF d \in devices THEN at
                    ELSE IF d \in RowsOf(s) /\ seenAt[d] < at THEN Absent
                    ELSE seenAt[d]]
    /\ Refresh({d[1] : d \in devices})

\* Mutant: rows of the same second are dropped too.
StoreDropsSiblings(s, at, devices) ==
    /\ seenAt' = [d \in Devices |->
                    IF d \in devices THEN at
                    ELSE IF d \in RowsOf(s) /\ seenAt[d] <= at THEN Absent
                    ELSE seenAt[d]]
    /\ Refresh({d[1] : d \in RowsOf(s) \cup devices})

\* The rows of server s after a batch of a snapshot taken at `at`.
Store(s, at, devices) ==
    /\ seenAt' = [d \in Devices |->
                    IF d \in devices THEN at
                    ELSE IF d \in RowsOf(s) /\ seenAt[d] < at THEN Absent
                    ELSE seenAt[d]]
    /\ Refresh({d[1] : d \in RowsOf(s) \cup devices})

-----------------------------------------------------------------------------
Init ==
    /\ live = {} /\ served = {}
    /\ frozen = <<>> /\ deviceSeq = 0 /\ pc = "start"
    /\ wire = {} /\ admitted = {} /\ reply = "none"
    /\ rows = [servers |-> Servers, nodes |-> Nodes, users |-> Users]
    /\ auth = Pairs
    /\ seenAt = [d \in Devices |-> Absent]
    /\ count = [u \in Users |-> 0]
    /\ recorded = {}
    /\ time = 0 /\ faults = 0
    /\ snapshot = [at |-> 0, devices |-> {}]

(***************************************************************************)
(* The kernel.                                                             *)
(***************************************************************************)
Connect(d) ==
    /\ PairOf(d) \in served
    /\ live' = live \cup {d}
    /\ UNCHANGED <<agentVars, netVars, panelVars, time, faults>>

Disconnect(d) ==
    /\ d \in live
    /\ live' = live \ {d}
    /\ UNCHANGED <<agentVars, netVars, panelVars, time, faults>>

-----------------------------------------------------------------------------
(***************************************************************************)
(* The agent's loop.                                                       *)
(***************************************************************************)

\* Mutant: the answer's MAX(seq) is not adopted.
HeartbeatKeepsSeq ==
    /\ pc \in {"start", "idle"}
    /\ Self \in rows.servers
    /\ pc' = "idle"
    /\ UNCHANGED <<live, served, frozen, deviceSeq, snapshot, netVars, panelVars,
                   time, faults>>

\* heartbeatPass, answered: reconcileSeq adopts the panel's MAX(seq).
Heartbeat ==
    /\ pc \in {"start", "idle"}
    /\ Self \in rows.servers
    /\ \E top \in recorded \cup {0} :
          /\ \A s \in recorded : s <= top
          /\ deviceSeq' = IF top > deviceSeq THEN top ELSE deviceSeq
    /\ pc' = "idle"
    /\ UNCHANGED <<live, served, frozen, snapshot, netVars, panelVars, time, faults>>

HeartbeatFails ==
    /\ pc = "start"
    /\ "blind" \in Faults \/ Self \notin rows.servers
    /\ pc' = "idle"
    /\ UNCHANGED <<live, served, frozen, snapshot, deviceSeq, netVars, panelVars,
                   time, faults>>

\* syncPass: a new kernel lets in the pairs authorized by now.
Sync ==
    /\ pc = "idle"
    /\ Self \in rows.servers
    /\ served' = {p \in auth : Home[p[2]] = Self}
    /\ served' # served
    /\ live' = {}
    /\ UNCHANGED <<frozen, deviceSeq, pc, snapshot, netVars, panelVars, time, faults>>

\* telemetryPass: the snapshot is frozen unless frozen batches are left over.
TelemetryPass ==
    /\ pc = "idle"
    /\ IF frozen # <<>> THEN UNCHANGED <<frozen, snapshot>>
       ELSE /\ frozen' = Cut(live, deviceSeq, time)
            /\ frozen'[Len(frozen')].seq <= MaxSeq
            /\ snapshot' = [at |-> time, devices |-> live]
    /\ pc' = "send"
    /\ UNCHANGED <<live, served, deviceSeq, netVars, panelVars, time, faults>>

Send ==
    /\ pc = "send"
    /\ wire' = wire \cup {Head(frozen)}
    /\ reply' = "none"
    /\ pc' = "wait"
    /\ UNCHANGED <<live, served, frozen, deviceSeq, snapshot, admitted, panelVars,
                   time, faults>>

\* What is left of the requests in flight when the agent stops listening.
Abandon == IF "delay" \in Faults THEN UNCHANGED <<wire, admitted>>
                                 ELSE wire' = {} /\ admitted' = {}

\* A network error or a retryable status: try again, now or in the next pass.
Timeout ==
    /\ pc = "wait"
    /\ reply = "none"
    /\ pc' \in {"send", "idle"}
    /\ Abandon
    /\ UNCHANGED <<live, served, frozen, deviceSeq, snapshot, reply, panelVars,
                   time, faults>>

Acked ==
    /\ pc = "wait"
    /\ reply = "accepted"
    /\ deviceSeq' = Head(frozen).seq
    /\ frozen' = Tail(frozen)
    /\ pc' = IF frozen' = <<>> THEN "idle" ELSE "send"
    /\ reply' = "none"
    /\ UNCHANGED <<live, served, snapshot, wire, admitted, panelVars, time, faults>>

\* Mutant: a rejected batch stays frozen, like one that timed out.
RejectedStaysFrozen ==
    /\ pc = "wait"
    /\ reply = "rejected"
    /\ pc' = "idle"
    /\ reply' = "none"
    /\ UNCHANGED <<live, served, frozen, deviceSeq, snapshot, wire, admitted,
                   panelVars, time, faults>>

\* Any other status: the whole snapshot is dropped, its number is not reused.
Rejected ==
    /\ pc = "wait"
    /\ reply = "rejected"
    /\ deviceSeq' = IF Head(frozen).seq > deviceSeq THEN Head(frozen).seq
                                                    ELSE deviceSeq
    /\ frozen' = <<>>
    /\ pc' = "idle"
    /\ reply' = "none"
    /\ UNCHANGED <<live, served, snapshot, wire, admitted, panelVars, time, faults>>

-----------------------------------------------------------------------------
(***************************************************************************)
(* The panel's handler.                                                    *)
(***************************************************************************)
Valid(m) ==
    /\ Self \in rows.servers
    /\ time - m.at <= Day
    /\ \A d \in m.devices : PairOf(d) \in auth

Answer(m, status) ==
    reply' \in (IF pc = "wait" /\ reply = "none" /\ m = Head(frozen)
                THEN {reply, status} ELSE {reply})

Take(m) == IF "delay" \in Faults THEN wire' \in {wire, wire \ {m}}
                                 ELSE wire' = wire \ {m}

Validate(m) ==
    /\ m \in wire
    /\ Take(m)
    /\ \/ Valid(m) /\ admitted' = admitted \cup {m} /\ reply' = reply
       \/ ~Valid(m) /\ admitted' = admitted /\ Answer(m, "rejected")
    /\ UNCHANGED <<live, agentVars, panelVars, time, faults>>

\* IngestDeviceBatch: a known number changes nothing; a reference to a row
\* that was deleted since the validation fails the transaction, which the
\* agent takes for a failure to retry.
Ingest(m) ==
    /\ m \in admitted
    /\ admitted' = admitted \ {m}
    /\ \/ /\ m.seq \in recorded /\ Self \in rows.servers
          /\ Answer(m, "accepted")
          /\ UNCHANGED panelVars
       \/ /\ m.seq \notin recorded
          /\ Self \in rows.servers
          /\ \A d \in m.devices : Exists(Self, d[2], d[1])
          /\ Store(Self, m.at, m.devices)
          /\ recorded' = recorded \cup {m.seq}
          /\ Answer(m, "accepted")
          /\ UNCHANGED <<rows, auth>>
       \/ /\ \/ Self \notin rows.servers
             \/ m.seq \notin recorded /\ \E d \in m.devices : ~Exists(Self, d[2], d[1])
          /\ UNCHANGED <<reply, panelVars>>
    /\ UNCHANGED <<live, agentVars, wire, time, faults>>

\* The agent of another server reports everything it sees.
OtherReports(s, devices) ==
    /\ s # Self
    /\ s \in rows.servers
    /\ \A d \in devices : Home[d[2]] = s /\ PairOf(d) \in auth
    /\ Store(s, time, devices)
    /\ UNCHANGED <<live, agentVars, netVars, rows, auth, recorded, time, faults>>

-----------------------------------------------------------------------------
(***************************************************************************)
(* The administrator, the janitor, the clock.                              *)
(***************************************************************************)
Fault(kind) ==
    /\ kind \in Faults
    /\ faults < MaxFaults
    /\ faults' = faults + 1

Revoke(p) ==
    /\ Fault("revoke")
    /\ p \in auth
    /\ auth' = auth \ {p}
    /\ UNCHANGED <<live, agentVars, netVars, rows, seenAt, count, recorded, time>>

Grant(p) ==
    /\ p \notin auth
    /\ p[1] \in rows.users /\ p[2] \in rows.nodes
    /\ auth' = auth \cup {p}
    /\ UNCHANGED <<live, agentVars, netVars, rows, seenAt, count, recorded, time,
                   faults>>

\* Mutant: the schema without ON DELETE CASCADE on online_devices.user_id.
DeleteUserKeepsRows(u) ==
    /\ Fault("user")
    /\ u \in rows.users
    /\ rows' = [rows EXCEPT !.users = @ \ {u}]
    /\ auth' = {p \in auth : p[1] # u}
    /\ UNCHANGED <<live, agentVars, netVars, seenAt, count, recorded, time>>

\* The foreign keys take the user's devices and authorizations along.
DeleteUser(u) ==
    /\ Fault("user")
    /\ u \in rows.users
    /\ rows' = [rows EXCEPT !.users = @ \ {u}]
    /\ auth' = {p \in auth : p[1] # u}
    /\ Drop({d \in Devices : d[1] = u})
    /\ UNCHANGED <<live, agentVars, netVars, count, recorded, time>>

\* DeleteNodeAndBump: the devices go with the node, the counts stay.
DeleteNode(n) ==
    /\ Fault("node")
    /\ n \in rows.nodes
    /\ rows' = [rows EXCEPT !.nodes = @ \ {n}]
    /\ auth' = {p \in auth : p[2] # n}
    /\ Drop({d \in Devices : d[2] = n})
    /\ UNCHANGED <<live, agentVars, netVars, count, recorded, time>>

\* DeleteServerCascade refreshes the users who had devices on the server.
DeleteServer(s) ==
    /\ Fault("server")
    /\ s \in rows.servers
    /\ rows' = [rows EXCEPT !.servers = @ \ {s},
                            !.nodes = {n \in @ : Home[n] # s}]
    /\ auth' = {p \in auth : Home[p[2]] # s}
    /\ Drop(RowsOf(s))
    /\ Refresh({d[1] : d \in RowsOf(s)})
    /\ UNCHANGED <<live, agentVars, netVars, recorded, time>>

Stale == {d \in Devices : seenAt[d] # Absent /\ seenAt[d] < time - Day}

\* One DeleteStaleDevicesBatch: up to a limit of stale rows, in no order.
Sweep ==
    /\ \E batch \in (SUBSET Stale) \ {{}} :
          /\ Drop(batch)
          /\ Refresh({d[1] : d \in batch})
    /\ UNCHANGED <<live, agentVars, netVars, rows, auth, recorded, time, faults>>

Tick ==
    /\ time < MaxTime
    /\ time' = time + 1
    /\ UNCHANGED <<live, agentVars, netVars, panelVars, faults>>

Crash ==
    /\ Fault("crash")
    /\ live' = {} /\ served' = {}
    /\ frozen' = <<>> /\ deviceSeq' = 0 /\ pc' = "start" /\ reply' = "none"
    /\ IF "orphan" \in Faults THEN UNCHANGED <<wire, admitted>>
                              ELSE wire' = {} /\ admitted' = {}
    /\ UNCHANGED <<snapshot, panelVars, time>>

Loop == \/ Heartbeat \/ HeartbeatFails \/ Sync
        \/ TelemetryPass \/ Send \/ Timeout \/ Acked \/ Rejected

Handler == \/ \E m \in wire : Validate(m)
           \/ \E m \in admitted : Ingest(m)
           \/ \E s \in Servers, devices \in SUBSET Devices : OtherReports(s, devices)

Environment ==
    \/ \E d \in Devices : Connect(d) \/ Disconnect(d)
    \/ \E p \in Pairs : Revoke(p) \/ Grant(p)
    \/ \E u \in Users : DeleteUser(u)
    \/ \E n \in Nodes : DeleteNode(n)
    \/ \E s \in Servers : DeleteServer(s)
    \/ Sweep \/ Tick \/ Crash

Next == Loop \/ Handler \/ Environment

Spec == Init /\ [][Next]_vars

-----------------------------------------------------------------------------
\* Types; a device row refers to a user and a node that exist.
TypeOK ==
    /\ live \subseteq Devices /\ served \subseteq Pairs
    /\ frozen \in Seq(Batches) /\ deviceSeq \in Nat
    /\ pc \in {"start", "idle", "send", "wait"}
    /\ wire \subseteq Batches /\ admitted \subseteq Batches
    /\ reply \in {"none", "accepted", "rejected"}
    /\ rows \in [servers : SUBSET Servers, nodes : SUBSET Nodes, users : SUBSET Users]
    /\ auth \subseteq Pairs
    /\ seenAt \in [Devices -> Times \cup {Absent}]
    /\ count \in [Users -> Nat] /\ recorded \subseteq Nat
    /\ time \in Times /\ faults \in Nat
    /\ snapshot \in [at : Times, devices : SUBSET Devices]
    /\ \A d \in Devices :
          seenAt[d] # Absent => d[1] \in rows.users /\ d[2] \in rows.nodes

\* online_count is the number of distinct addresses in the user's rows, one
\* client connected through several nodes or servers counting once, whichever
\* reports, deletions and sweeps interleave (docs/api-contract.md:200).
CountMatchesRows ==
    \A u \in rows.users : count[u] = Cardinality(Addresses(u))

\* When flushDevices has the last batch of a snapshot acknowledged, the
\* server's rows are the snapshot: each device of every one of its batches,
\* unless it was deleted or has become too old, and none that only an older
\* snapshot saw, however the batches were cut, retried and interleaved: none of
\* them was frozen under a number the panel had recorded, which would have it
\* acknowledged and not stored.
SnapshotReplaces ==
    [][Acked /\ frozen' = <<>> /\ Self \in rows.servers =>
          /\ \A d \in snapshot.devices :
                \/ seenAt[d] = snapshot.at
                \/ ~Exists(Self, d[2], d[1])
                \/ snapshot.at < time - Day
          /\ \A d \in RowsOf(Self) \ snapshot.devices : seenAt[d] = snapshot.at]_vars

Fairness ==
    /\ WF_vars(pc = "start" /\ (Heartbeat \/ HeartbeatFails))
    /\ SF_vars(TelemetryPass)
    /\ WF_vars(Send)
    /\ WF_vars(Timeout)
    /\ WF_vars(Acked)
    /\ WF_vars(Rejected)
    /\ SF_vars(\E m \in wire : Validate(m) /\ (Valid(m) \/ reply' # reply))
    /\ SF_vars(\E m \in admitted : Ingest(m) /\ reply' # reply)

FairSpec == Spec /\ Fairness

\* No batch wedges the reports: whatever was revoked or deleted since it was
\* frozen, it is acknowledged or dropped in the end.
NeverWedged == frozen # <<>> ~> frozen = <<>>
=============================================================================
