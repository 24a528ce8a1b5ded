------------------------- MODULE DeviceReportsProofs -------------------------
(***************************************************************************)
(* Proofs about DeviceReports, for every set of users, nodes, addresses    *)
(* and servers, every batch size and every bound.                          *)
(*                                                                         *)
(* First, online_count equals the number of distinct addresses in the      *)
(* rows, as long as nodes are not deleted on their own: every action that  *)
(* touches rows refreshes at least the users whose set of addresses it     *)
(* changes, or removes the user.  Then the types, with the references of   *)
(* the rows.  Last, a snapshot takes the place of the one before.          *)
(***************************************************************************)
EXTENDS DeviceReports, FiniteSetTheorems, TLAPS

NodesStay == "node" \notin Faults

RowsTyped ==
    rows \in [servers : SUBSET Servers, nodes : SUBSET Nodes, users : SUBSET Users]

CountInv == RowsTyped /\ CountMatchesRows

\* A device that is neither gained nor lost is a row before and after.
SameRows(u) == \A n \in Nodes, ip \in Ips :
                  (seenAt'[<<u, n, ip>>] # Absent) = (seenAt[<<u, n, ip>>] # Absent)

-----------------------------------------------------------------------------
\* A step that refreshes the users us and leaves the rows of the others alone
\* keeps the counts right: the contract of refreshOnlineCountExec's callers.
LEMMA RefreshKeepsCounts ==
    ASSUME CountInv, RowsTyped', rows'.users \subseteq rows.users,
           NEW us, Refresh(us),
           \A u \in Users \ us : SameRows(u)
    PROVE  CountInv'
<1> SUFFICES ASSUME NEW u \in rows'.users PROVE count'[u] = Cardinality(Addresses(u)')
    BY DEF CountInv, CountMatchesRows
<1>1. u \in rows.users /\ u \in Users
    BY DEF RowsTyped
<1>2. CASE u \in us
    BY <1>1, <1>2 DEF Refresh
<1>3. CASE u \notin us
  <2>1. Addresses(u)' = Addresses(u)
      BY <1>1, <1>3 DEF SameRows, Addresses
  <2>2. count'[u] = count[u]
      BY <1>1, <1>3 DEF Refresh
  <2>3. count[u] = Cardinality(Addresses(u))
      BY <1>1 DEF CountInv, CountMatchesRows
  <2> QED BY <2>1, <2>2, <2>3
<1> QED BY <1>2, <1>3

\* Dropping rows changes the addresses of their users only.
LEMMA DropKeepsOthers ==
    ASSUME NEW devices, Drop(devices),
           NEW u \in Users, u \notin {d[1] : d \in devices}
    PROVE  SameRows(u)
<1> SUFFICES ASSUME NEW n \in Nodes, NEW ip \in Ips
             PROVE  seenAt'[<<u, n, ip>>] = seenAt[<<u, n, ip>>]
    BY DEF SameRows
<1>1. <<u, n, ip>> \in Devices /\ <<u, n, ip>>[1] = u
    BY DEF Devices
<1>2. <<u, n, ip>> \notin devices
    BY <1>1
<1> QED BY <1>1, <1>2 DEF Drop

\* IngestDeviceBatch refreshes whoever had a row on the server or is reported.
LEMMA StoreKeepsCounts ==
    ASSUME CountInv, NEW s, NEW at, NEW devices,
           Store(s, at, devices), UNCHANGED rows
    PROVE  CountInv'
<1> DEFINE us == {d[1] : d \in RowsOf(s) \cup devices}
<1>1. ASSUME NEW u \in Users \ us PROVE SameRows(u)
  <2> SUFFICES ASSUME NEW n \in Nodes, NEW ip \in Ips
               PROVE  seenAt'[<<u, n, ip>>] = seenAt[<<u, n, ip>>]
      BY DEF SameRows
  <2>1. <<u, n, ip>> \in Devices /\ <<u, n, ip>>[1] = u
      BY DEF Devices
  <2>2. <<u, n, ip>> \notin RowsOf(s) \cup devices
      BY <1>1, <2>1
  <2> QED BY <2>1, <2>2 DEF Store
<1>2. Refresh(us)
    BY DEF Store
<1>3. RowsTyped' /\ rows'.users \subseteq rows.users
    BY DEF CountInv, RowsTyped
<1> HIDE DEF us
<1> QED BY <1>1, <1>2, <1>3, RefreshKeepsCounts

\* A step that leaves rows and counts alone.
LEMMA QuietStep ==
    ASSUME CountInv, UNCHANGED <<rows, seenAt, count>>
    PROVE  CountInv'
BY DEF CountInv, RowsTyped, CountMatchesRows, Addresses

-----------------------------------------------------------------------------
LEMMA CountInit == Init => CountInv
<1> SUFFICES ASSUME Init PROVE CountInv
    OBVIOUS
<1>1. RowsTyped
    BY DEF Init, RowsTyped
<1>2. ASSUME NEW u \in rows.users PROVE count[u] = Cardinality(Addresses(u))
  <2>1. u \in Users
      BY <1>1 DEF RowsTyped
  <2>2. \A n \in Nodes, ip \in Ips : <<u, n, ip>> \in Devices
      BY <2>1 DEF Devices
  <2>3. Addresses(u) = {}
      BY <2>2 DEF Init, Addresses
  <2> QED BY <2>1, <2>3, FS_EmptySet DEF Init
<1> QED BY <1>1, <1>2 DEF CountInv, CountMatchesRows

LEMMA LoopKeepsCounts == CountInv /\ Loop => CountInv'
BY QuietStep DEF Loop, Heartbeat, HeartbeatFails, Sync, TelemetryPass, Send,
                 Timeout, Acked, Rejected, panelVars

LEMMA HandlerKeepsCounts == CountInv /\ Handler => CountInv'
<1> SUFFICES ASSUME CountInv, Handler PROVE CountInv'
    OBVIOUS
<1>1. CASE \E m \in wire : Validate(m)
    BY <1>1, QuietStep DEF Validate, panelVars
<1>2. CASE \E m \in admitted : Ingest(m)
  <2> PICK m \in admitted : Ingest(m)
      BY <1>2
  <2>1. CASE UNCHANGED panelVars
      BY <2>1, QuietStep DEF panelVars
  <2>2. CASE Store(Self, m.at, m.devices) /\ UNCHANGED <<rows, auth>>
      BY <2>2, StoreKeepsCounts
  <2> QED BY <2>1, <2>2 DEF Ingest, panelVars
<1>3. CASE \E s \in Servers, devices \in SUBSET Devices : OtherReports(s, devices)
    BY <1>3, StoreKeepsCounts DEF OtherReports
<1> QED BY <1>1, <1>2, <1>3 DEF Handler

-----------------------------------------------------------------------------
\* The foreign keys remove the rows of a user who is gone as well: nobody
\* else's addresses change, and the user's own count is nobody's.
LEMMA DeleteUserKeepsCounts ==
    ASSUME CountInv, NEW v \in Users, DeleteUser(v) PROVE CountInv'
<1> DEFINE gone == {d \in Devices : d[1] = v}
<1>1. RowsTyped' /\ rows'.users = rows.users \ {v}
    BY DEF CountInv, RowsTyped, DeleteUser
<1>2. ASSUME NEW u \in rows'.users PROVE count'[u] = Cardinality(Addresses(u)')
  <2>1. u \in Users /\ u # v /\ u \in rows.users
      BY <1>1, <1>2 DEF CountInv, RowsTyped
  <2>2. SameRows(u)
    <3>1. u \notin {d[1] : d \in gone}
        BY <2>1
    <3>2. Drop(gone)
        BY DEF DeleteUser
    <3> HIDE DEF gone
    <3> QED BY <2>1, <3>1, <3>2, DropKeepsOthers
  <2>3. Addresses(u)' = Addresses(u)
      BY <2>2 DEF SameRows, Addresses
  <2>4. count' = count
      BY DEF DeleteUser
  <2>5. count[u] = Cardinality(Addresses(u))
      BY <2>1 DEF CountInv, CountMatchesRows
  <2> QED BY <2>3, <2>4, <2>5
<1> QED BY <1>1, <1>2 DEF CountInv, CountMatchesRows

\* DeleteServerCascade collects the users to refresh before it deletes.
LEMMA DeleteServerKeepsCounts ==
    ASSUME CountInv, NEW s \in Servers, DeleteServer(s) PROVE CountInv'
<1> DEFINE us == {d[1] : d \in RowsOf(s)}
<1>1. RowsTyped' /\ rows'.users \subseteq rows.users
    BY DEF CountInv, RowsTyped, DeleteServer
<1>2. Drop(RowsOf(s)) /\ Refresh(us)
    BY DEF DeleteServer
<1>3. \A u \in Users \ us : SameRows(u)
    BY <1>2, DropKeepsOthers
<1> HIDE DEF us
<1> QED BY <1>1, <1>2, <1>3, RefreshKeepsCounts

\* So does the sweep, for the rows of its batch.
LEMMA SweepKeepsCounts == CountInv /\ Sweep => CountInv'
<1> SUFFICES ASSUME CountInv, Sweep PROVE CountInv'
    OBVIOUS
<1> PICK batch \in (SUBSET Stale) \ {{}} :
          Drop(batch) /\ Refresh({d[1] : d \in batch})
    BY DEF Sweep
<1> DEFINE us == {d[1] : d \in batch}
<1>1. RowsTyped' /\ rows'.users \subseteq rows.users
    BY DEF CountInv, RowsTyped, Sweep
<1>2. Refresh(us)
    OBVIOUS
<1>3. \A u \in Users \ us : SameRows(u)
    BY DropKeepsOthers
<1> HIDE DEF us
<1> QED BY <1>1, <1>2, <1>3, RefreshKeepsCounts

LEMMA EnvironmentKeepsCounts == NodesStay /\ CountInv /\ Environment => CountInv'
<1> SUFFICES ASSUME NodesStay, CountInv, Environment PROVE CountInv'
    OBVIOUS
<1>1. CASE \E d \in Devices : Connect(d) \/ Disconnect(d)
    BY <1>1, QuietStep DEF Connect, Disconnect, panelVars
<1>2. CASE \E p \in Pairs : Revoke(p) \/ Grant(p)
    BY <1>2, QuietStep DEF Revoke, Grant
<1>3. CASE \E u \in Users : DeleteUser(u)
    BY <1>3, DeleteUserKeepsCounts
<1>4. ASSUME NEW n \in Nodes, DeleteNode(n) PROVE FALSE
    BY <1>4 DEF DeleteNode, Fault, NodesStay
<1>5. CASE \E s \in Servers : DeleteServer(s)
    BY <1>5, DeleteServerKeepsCounts
<1>6. CASE Sweep
    BY <1>6, SweepKeepsCounts
<1>7. CASE Tick \/ Crash
    BY <1>7, QuietStep DEF Tick, Crash, panelVars
<1> QED BY <1>1, <1>2, <1>3, <1>4, <1>5, <1>6, <1>7 DEF Environment

-----------------------------------------------------------------------------
\* users.online_count equals the number of distinct addresses in the user's
\* online_devices rows, through reports, replays, late copies, crashes,
\* revocations, sweeps and the deletion of users and servers; the deletion of
\* a node (DeleteNodeAndBump) is the one mutation that would break it.
THEOREM OnlineCountCorrect == NodesStay => (Spec => []CountMatchesRows)
<1> SUFFICES ASSUME NodesStay PROVE Spec => []CountMatchesRows
    OBVIOUS
<1>1. Init => CountInv
    BY CountInit
<1>2. CountInv /\ [Next]_vars => CountInv'
  <2> SUFFICES ASSUME CountInv, [Next]_vars PROVE CountInv'
      OBVIOUS
  <2>1. CASE Loop
      BY <2>1, LoopKeepsCounts
  <2>2. CASE Handler
      BY <2>2, HandlerKeepsCounts
  <2>3. CASE Environment
      BY <2>3, EnvironmentKeepsCounts
  <2>4. CASE UNCHANGED vars
      BY <2>4, QuietStep DEF vars, panelVars
  <2> QED BY <2>1, <2>2, <2>3, <2>4 DEF Next
<1>3. CountInv => CountMatchesRows
    BY DEF CountInv
<1> QED BY <1>1, <1>2, <1>3, PTL DEF Spec

-----------------------------------------------------------------------------
(***************************************************************************)
(* Types.  A row of online_devices refers to a user and a node that exist: *)
(* what is reported is checked against them, and they take their rows with *)
(* them.                                                                   *)
(***************************************************************************)
\* The loop is about a batch only while there is one.
AgentTyped ==
    /\ live \subseteq Devices /\ served \subseteq Pairs
    /\ frozen \in Seq(Batches) /\ deviceSeq \in Nat
    /\ pc \in {"start", "idle", "send", "wait"}
    /\ snapshot \in [at : Times, devices : SUBSET Devices]
    /\ pc \in {"send", "wait"} => frozen # <<>>

NetTyped ==
    /\ wire \subseteq Batches /\ admitted \subseteq Batches
    /\ reply \in {"none", "accepted", "rejected"}

\* Rows and authorizations refer to rows that are there.
PanelTyped ==
    /\ RowsTyped
    /\ auth \subseteq Pairs
    /\ seenAt \in [Devices -> Times \cup {Absent}]
    /\ count \in [Users -> Nat] /\ recorded \subseteq Nat
    /\ \A d \in Devices :
          seenAt[d] # Absent => d[1] \in rows.users /\ d[2] \in rows.nodes
    /\ \A p \in auth : p[1] \in rows.users /\ p[2] \in rows.nodes

ClockTyped == time \in Times /\ faults \in Nat

Linked == AgentTyped /\ NetTyped /\ PanelTyped /\ ClockTyped

-----------------------------------------------------------------------------
(* What cutting a snapshot yields.                                         *)

LEMMA Division ==
    ASSUME NEW n \in Nat, NEW m \in Nat \ {0}
    PROVE  n \div m \in Nat /\ m * (n \div m) <= n /\ n < m * (n \div m) + m
BY SMT

\* Whoever comes after fewer pairs than there are has a batch.
LEMMA Batching ==
    ASSUME NEW before \in Nat, NEW all \in Nat, before < all
    PROVE  before \div MaxBatchRecords + 1
              \in 1 .. ((all + MaxBatchRecords - 1) \div MaxBatchRecords)
<1> DEFINE m == MaxBatchRecords
           q == before \div m
           r == (all + m - 1) \div m
<1>1. m \in Nat \ {0}
    BY BatchAssumption
<1>2. q \in Nat /\ m * q <= before
    BY <1>1, Division
<1>3. r \in Nat /\ all + m - 1 < m * r + m
    BY <1>1, Division
<1> HIDE DEF m, q, r
<1>4. m * q < m * r
    BY <1>1, <1>2, <1>3
<1>5. q < r
    BY <1>1, <1>2, <1>3, <1>4
<1> QED BY <1>2, <1>3, <1>5 DEF m, q, r

LEMMA PairsFinite ==
    ASSUME NEW devices \in SUBSET Devices
    PROVE  LET pairs == {PairOf(d) : d \in devices}
           IN  IsFiniteSet(pairs) /\ Cardinality(pairs) \in Nat
<1> DEFINE pairs == {PairOf(d) : d \in devices}
<1>1. pairs \in SUBSET (Users \X Nodes)
    BY DEF Devices, PairOf
<1>2. IsFiniteSet(Users \X Nodes)
    BY IdAssumption, FS_Product
<1> HIDE DEF pairs
<1>3. IsFiniteSet(pairs)
    BY <1>1, <1>2, FS_Subset
<1>4. Cardinality(pairs) \in Nat
    BY <1>3, FS_CardinalityType
<1> QED BY <1>3, <1>4 DEF pairs

\* A device comes after fewer pairs than there are.
LEMMA IndexInRange ==
    ASSUME NEW devices \in SUBSET Devices, NEW d \in devices
    PROVE  BatchIndex(d, devices) + 1 \in 1 .. NumBatches(devices)
<1> DEFINE pairs  == {PairOf(e) : e \in devices}
           before == {p \in pairs : Before(p, PairOf(d))}
<1>1. IsFiniteSet(pairs) /\ Cardinality(pairs) \in Nat
    BY PairsFinite
<1>2. PairOf(d) \in pairs /\ PairOf(d) \notin before
  <2>1. d[1] \in Nat /\ d[2] \in Nat
      BY IdAssumption DEF Devices
  <2> QED BY <2>1 DEF Before, PairOf
<1>3. before \in SUBSET pairs
    OBVIOUS
<1>4. BatchIndex(d, devices) = Cardinality(before) \div MaxBatchRecords
    BY DEF BatchIndex
<1>5. devices # {}
    OBVIOUS
<1>6. NumBatches(devices) = (Cardinality(pairs) + MaxBatchRecords - 1) \div MaxBatchRecords
    BY <1>5 DEF NumBatches
<1> HIDE DEF pairs, before
<1>7. IsFiniteSet(before) /\ Cardinality(before) <= Cardinality(pairs)
      /\ (Cardinality(pairs) = Cardinality(before) => pairs = before)
    BY <1>1, <1>3, FS_Subset
<1>8. Cardinality(before) \in Nat
    BY <1>7, FS_CardinalityType
<1>9. Cardinality(before) < Cardinality(pairs)
    BY <1>1, <1>2, <1>7, <1>8
<1> QED BY <1>1, <1>4, <1>6, <1>8, <1>9, Batching

\* buildDeviceBatches: numbered one after the other, all of the same time, and
\* together all of the snapshot.
LEMMA CutSound ==
    ASSUME NEW devices \in SUBSET Devices, NEW base \in Nat, NEW at \in Times
    PROVE  LET cut == Cut(devices, base, at)
           IN  /\ cut \in Seq(Batches) /\ cut # <<>>
               /\ \A k \in 1 .. Len(cut) : cut[k].seq = base + k /\ cut[k].at = at
               /\ \A d \in devices : \E k \in 1 .. Len(cut) : d \in cut[k].devices
<1> DEFINE cut == Cut(devices, base, at)
           num == NumBatches(devices)
<1>1. num \in Nat \ {0}
  <2>1. CASE devices = {}
      BY <2>1 DEF NumBatches
  <2>2. CASE devices # {}
    <3>1. PICK d \in devices : TRUE
        BY <2>2
    <3>2. BatchIndex(d, devices) + 1 \in 1 .. num
        BY <3>1, IndexInRange
    <3>3. num \in Nat
      <4>1. Cardinality({PairOf(e) : e \in devices}) \in Nat
          BY PairsFinite
      <4> DEFINE n == Cardinality({PairOf(e) : e \in devices}) + MaxBatchRecords - 1
      <4>2. n \in Nat
          BY <4>1, BatchAssumption
      <4>3. num = n \div MaxBatchRecords
          BY <2>2 DEF NumBatches
      <4> HIDE DEF n
      <4> QED BY <4>2, <4>3, BatchAssumption, Division
    <3> HIDE DEF num
    <3> QED BY <3>2, <3>3
  <2> QED BY <2>1, <2>2
<1>2. \A k \in 1 .. num :
         /\ cut[k].seq = base + k /\ cut[k].at = at
         /\ cut[k].devices = {d \in devices : BatchIndex(d, devices) = k - 1}
         /\ cut[k] \in Batches
    BY <1>1 DEF Cut, Batches
<1>3. cut = [k \in 1 .. num |-> cut[k]]
    BY DEF Cut
<1>4. \A d \in devices : \E k \in 1 .. num : d \in cut[k].devices
  <2> TAKE d \in devices
  <2>1. BatchIndex(d, devices) + 1 \in 1 .. num
      BY IndexInRange
  <2> DEFINE k == BatchIndex(d, devices) + 1
  <2>2. BatchIndex(d, devices) = k - 1
    <3>1. BatchIndex(d, devices) \in Int
      <4>1. {p \in {PairOf(e) : e \in devices} : Before(p, PairOf(d))}
              \in SUBSET {PairOf(e) : e \in devices}
          OBVIOUS
      <4>2. Cardinality({p \in {PairOf(e) : e \in devices} : Before(p, PairOf(d))}) \in Nat
          BY <4>1, PairsFinite, FS_Subset, FS_CardinalityType
      <4> QED BY <4>2, BatchAssumption, Division DEF BatchIndex
    <3> QED BY <3>1
  <2>3. cut[k].devices = {e \in devices : BatchIndex(e, devices) = k - 1}
      BY <1>2, <2>1
  <2>4. d \in cut[k].devices
      BY <2>2, <2>3
  <2> HIDE DEF k
  <2> QED BY <2>1, <2>4 DEF k
<1> HIDE DEF cut, num
<1>5. cut \in [1 .. num -> Batches]
    BY <1>2, <1>3
<1>6. cut \in Seq(Batches) /\ Len(cut) = num
    BY <1>1, <1>5
<1>7. cut # <<>>
    BY <1>1, <1>6
<1> QED BY <1>2, <1>4, <1>6, <1>7 DEF cut

-----------------------------------------------------------------------------
(* What a step does to the rows keeps their types.                         *)

LEMMA RefreshTyped ==
    ASSUME count \in [Users -> Nat], NEW us, Refresh(us)
    PROVE  count' \in [Users -> Nat]
<1>1. ASSUME NEW u \in Users PROVE Cardinality(Addresses(u)') \in Nat
  <2>1. Addresses(u)' \in SUBSET Ips
      BY DEF Addresses
  <2> QED BY <2>1, IdAssumption, FS_Subset, FS_CardinalityType
<1> QED BY <1>1 DEF Refresh

LEMMA DropTyped ==
    ASSUME PanelTyped, NEW devices, Drop(devices)
    PROVE  /\ seenAt' \in [Devices -> Times \cup {Absent}]
           /\ \A d \in Devices : seenAt'[d] # Absent => seenAt[d] # Absent /\ d \notin devices
BY DEF PanelTyped, Drop

LEMMA StoreTyped ==
    ASSUME PanelTyped, NEW s, NEW at \in Times, NEW devices \in SUBSET Devices,
           Store(s, at, devices), UNCHANGED <<rows, auth>>, recorded' \in SUBSET Nat,
           \A d \in devices : d[1] \in rows.users /\ d[2] \in rows.nodes
    PROVE  PanelTyped'
<1>1. seenAt' \in [Devices -> Times \cup {Absent}]
    BY DEF PanelTyped, Store
<1>2. count' \in [Users -> Nat]
    BY RefreshTyped DEF PanelTyped, Store
<1>3. ASSUME NEW d \in Devices, seenAt'[d] # Absent
      PROVE  d[1] \in rows'.users /\ d[2] \in rows'.nodes
    BY <1>3 DEF PanelTyped, Store
<1> QED BY <1>1, <1>2, <1>3 DEF PanelTyped, RowsTyped

\* A step that leaves the tables alone.
LEMMA TablesRest == ASSUME PanelTyped, UNCHANGED panelVars PROVE PanelTyped'
BY DEF PanelTyped, RowsTyped, panelVars

LEMMA AgentRests ==
    ASSUME AgentTyped, UNCHANGED agentVars, live' \in SUBSET live
    PROVE  AgentTyped'
BY DEF AgentTyped, agentVars

-----------------------------------------------------------------------------
LEMMA LinkedInit == Init => Linked
<1> SUFFICES ASSUME Init PROVE Linked
    OBVIOUS
<1>1. AgentTyped
    BY BoundAssumption DEF Init, AgentTyped, Times
<1>2. NetTyped
    BY DEF Init, NetTyped
<1>3. PanelTyped
    BY DEF Init, PanelTyped, RowsTyped, Pairs, Devices
<1>4. ClockTyped
    BY BoundAssumption DEF Init, ClockTyped, Times
<1> QED BY <1>1, <1>2, <1>3, <1>4 DEF Linked

LEMMA HeadTyped ==
    ASSUME AgentTyped, frozen # <<>>
    PROVE  /\ Head(frozen) \in Batches /\ Head(frozen) = frozen[1] /\ 1 \in 1 .. Len(frozen)
           /\ Tail(frozen) \in Seq(Batches) /\ Len(Tail(frozen)) = Len(frozen) - 1
           /\ \A i \in 1 .. Len(frozen) - 1 : Tail(frozen)[i] = frozen[i + 1]
BY DEF AgentTyped

LEMMA LoopLinked == Linked /\ Loop => Linked'
<1> SUFFICES ASSUME Linked, Loop PROVE Linked'
    OBVIOUS
<1>1. AgentTyped /\ NetTyped /\ PanelTyped /\ ClockTyped
    BY DEF Linked
<1>2. PanelTyped' /\ ClockTyped'
  <2>1. UNCHANGED panelVars /\ UNCHANGED <<time, faults>>
      BY DEF Loop, Heartbeat, HeartbeatFails, Sync, TelemetryPass, Send, Timeout, Acked, Rejected
  <2> QED BY <1>1, <2>1, TablesRest DEF ClockTyped
<1>3. CASE Heartbeat
  <2>1. deviceSeq' \in Nat
      BY <1>1, <1>3 DEF Heartbeat, AgentTyped, PanelTyped
  <2> QED BY <1>1, <1>2, <1>3, <2>1 DEF Heartbeat, Linked, AgentTyped, NetTyped, netVars
<1>4. CASE HeartbeatFails
    BY <1>1, <1>2, <1>4 DEF HeartbeatFails, Linked, AgentTyped, NetTyped, netVars
<1>5. CASE Sync
    BY <1>1, <1>2, <1>5 DEF Sync, Linked, AgentTyped, NetTyped, netVars, PanelTyped
<1>6. CASE TelemetryPass
  <2>1. NetTyped'
      BY <1>1, <1>6 DEF TelemetryPass, NetTyped, netVars
  <2>2. CASE frozen # <<>>
      BY <1>1, <1>2, <1>6, <2>1, <2>2 DEF TelemetryPass, Linked, AgentTyped
  <2>3. CASE frozen = <<>>
    <3>1. frozen' = Cut(live, deviceSeq, time)
        BY <1>6, <2>3 DEF TelemetryPass
    <3>2. live \in SUBSET Devices /\ deviceSeq \in Nat /\ time \in Times
        BY <1>1 DEF AgentTyped, ClockTyped
    <3>3. frozen' \in Seq(Batches) /\ frozen' # <<>>
        BY <3>1, <3>2, CutSound
    <3> QED BY <1>1, <1>2, <1>6, <2>1, <2>3, <3>2, <3>3 DEF TelemetryPass, Linked, AgentTyped
  <2> QED BY <2>2, <2>3
<1>7. CASE Send
  <2>1. Head(frozen) \in Batches
      BY <1>1, <1>7, HeadTyped DEF Send, AgentTyped
  <2> QED BY <1>1, <1>2, <1>7, <2>1 DEF Send, Linked, AgentTyped, NetTyped
<1>8. CASE Timeout
    BY <1>1, <1>2, <1>8 DEF Timeout, Abandon, Linked, AgentTyped, NetTyped
<1>9. CASE Acked
  <2>1. Head(frozen) \in Batches /\ Tail(frozen) \in Seq(Batches)
      BY <1>1, <1>9, HeadTyped DEF Acked, AgentTyped
  <2>2. Head(frozen).seq \in Nat
      BY <2>1 DEF Batches
  <2> QED BY <1>1, <1>2, <1>9, <2>1, <2>2 DEF Acked, Linked, AgentTyped, NetTyped
<1>10. CASE Rejected
  <2>1. Head(frozen) \in Batches
      BY <1>1, <1>10, HeadTyped DEF Rejected, AgentTyped
  <2>2. Head(frozen).seq \in Nat
      BY <2>1 DEF Batches
  <2> QED BY <1>1, <1>2, <1>10, <2>2 DEF Rejected, Linked, AgentTyped, NetTyped
<1> QED BY <1>3, <1>4, <1>5, <1>6, <1>7, <1>8, <1>9, <1>10 DEF Loop

LEMMA HandlerLinked == Linked /\ Handler => Linked'
<1> SUFFICES ASSUME Linked, Handler PROVE Linked'
    OBVIOUS
<1>1. AgentTyped /\ NetTyped /\ PanelTyped /\ ClockTyped
    BY DEF Linked
<1>2. AgentTyped' /\ ClockTyped'
  <2>1. UNCHANGED agentVars /\ UNCHANGED <<live, time, faults>>
      BY DEF Handler, Validate, Ingest, OtherReports
  <2> QED BY <1>1, <2>1, AgentRests DEF ClockTyped
<1>3. ASSUME NEW m \in wire, Validate(m) PROVE Linked'
  <2>1. NetTyped'
      BY <1>1, <1>3 DEF Validate, Take, Answer, NetTyped
  <2> QED BY <1>1, <1>2, <1>3, <2>1, TablesRest DEF Validate, Linked
<1>4. ASSUME NEW m \in admitted, Ingest(m) PROVE Linked'
  <2>1. m \in Batches
      BY <1>1 DEF NetTyped
  <2>2. m.at \in Times /\ m.devices \in SUBSET Devices /\ m.seq \in Nat
      BY <2>1 DEF Batches
  <2>3. NetTyped'
      BY <1>1, <1>4 DEF Ingest, Answer, NetTyped
  <2>4. CASE UNCHANGED panelVars
      BY <1>1, <1>2, <2>3, <2>4, TablesRest DEF Linked
  <2>5. CASE /\ Store(Self, m.at, m.devices) /\ UNCHANGED <<rows, auth>>
             /\ \A d \in m.devices : Exists(Self, d[2], d[1])
             /\ recorded' = recorded \cup {m.seq}
    <3>1. recorded' \in SUBSET Nat
        BY <1>1, <2>2, <2>5 DEF PanelTyped
    <3>2. \A d \in m.devices : d[1] \in rows.users /\ d[2] \in rows.nodes
        BY <2>5 DEF Exists
    <3>3. PanelTyped'
        BY <1>1, <2>2, <2>5, <3>1, <3>2, StoreTyped
    <3> QED BY <1>2, <2>3, <3>3 DEF Linked
  <2> QED BY <1>4, <2>4, <2>5 DEF Ingest
<1>5. ASSUME NEW s \in Servers, NEW devices \in SUBSET Devices, OtherReports(s, devices)
      PROVE  Linked'
  <2>1. \A d \in devices : d[1] \in rows.users /\ d[2] \in rows.nodes
      BY <1>1, <1>5 DEF OtherReports, PanelTyped, PairOf
  <2>2. PanelTyped'
      BY <1>1, <1>5, <2>1, StoreTyped DEF OtherReports, PanelTyped, ClockTyped
  <2>3. NetTyped'
      BY <1>1, <1>5 DEF OtherReports, NetTyped, netVars
  <2> QED BY <1>2, <2>2, <2>3 DEF Linked
<1> QED BY <1>3, <1>4, <1>5 DEF Handler

LEMMA EnvironmentLinked == Linked /\ Environment => Linked'
<1> SUFFICES ASSUME Linked, Environment PROVE Linked'
    OBVIOUS
<1>1. AgentTyped /\ NetTyped /\ PanelTyped /\ ClockTyped
    BY DEF Linked
<1>2. ASSUME NEW d \in Devices, Connect(d) \/ Disconnect(d) PROVE Linked'
  <2>1. PanelTyped' /\ NetTyped' /\ ClockTyped'
      BY <1>1, <1>2, TablesRest DEF Connect, Disconnect, NetTyped, netVars, ClockTyped
  <2> QED BY <1>1, <1>2, <2>1 DEF Connect, Disconnect, Linked, AgentTyped, agentVars
<1>3. ASSUME faults' = faults + 1, time' = time PROVE ClockTyped'
    BY <1>1, <1>3 DEF ClockTyped
<1>4. ASSUME UNCHANGED <<live, agentVars, netVars>> PROVE AgentTyped' /\ NetTyped'
    BY <1>1, <1>4, AgentRests DEF NetTyped, netVars
<1>5. ASSUME NEW p \in Pairs, Revoke(p) \/ Grant(p) PROVE Linked'
  <2>1. PanelTyped'
      BY <1>1, <1>5 DEF Revoke, Grant, PanelTyped, RowsTyped
  <2>2. ClockTyped' /\ UNCHANGED <<live, agentVars, netVars>>
      BY <1>1, <1>3, <1>5 DEF Revoke, Grant, Fault, ClockTyped
  <2> QED BY <1>4, <2>1, <2>2 DEF Linked
<1>6. ASSUME NEW u \in Users, DeleteUser(u) PROVE Linked'
  <2> DEFINE gone == {d \in Devices : d[1] = u}
  <2>1. Drop(gone)
      BY <1>6 DEF DeleteUser
  <2>2. \A d \in Devices : d \in gone <=> d[1] = u
      OBVIOUS
  <2> HIDE DEF gone
  <2>3. PanelTyped'
      BY <1>1, <1>6, <2>1, <2>2, DropTyped DEF DeleteUser, PanelTyped, RowsTyped
  <2>4. ClockTyped' /\ UNCHANGED <<live, agentVars, netVars>>
      BY <1>3, <1>6 DEF DeleteUser, Fault
  <2> QED BY <1>4, <2>3, <2>4 DEF Linked
<1>7. ASSUME NEW n \in Nodes, DeleteNode(n) PROVE Linked'
  <2> DEFINE gone == {d \in Devices : d[2] = n}
  <2>1. Drop(gone)
      BY <1>7 DEF DeleteNode
  <2>2. \A d \in Devices : d \in gone <=> d[2] = n
      OBVIOUS
  <2> HIDE DEF gone
  <2>3. PanelTyped'
      BY <1>1, <1>7, <2>1, <2>2, DropTyped DEF DeleteNode, PanelTyped, RowsTyped
  <2>4. ClockTyped' /\ UNCHANGED <<live, agentVars, netVars>>
      BY <1>3, <1>7 DEF DeleteNode, Fault
  <2> QED BY <1>4, <2>3, <2>4 DEF Linked
<1>8. ASSUME NEW s \in Servers, DeleteServer(s) PROVE Linked'
  <2>1. Drop(RowsOf(s)) /\ count' \in [Users -> Nat]
      BY <1>1, <1>8, RefreshTyped DEF DeleteServer, PanelTyped
  <2>2. \A d \in Devices : seenAt[d] # Absent /\ d \notin RowsOf(s) => Home[d[2]] # s
      BY DEF RowsOf
  <2>3. PanelTyped'
      BY <1>1, <1>8, <2>1, <2>2, DropTyped DEF DeleteServer, PanelTyped, RowsTyped
  <2>4. ClockTyped' /\ UNCHANGED <<live, agentVars, netVars>>
      BY <1>3, <1>8 DEF DeleteServer, Fault
  <2> QED BY <1>4, <2>3, <2>4 DEF Linked
<1>9. CASE Sweep
  <2> PICK batch \in (SUBSET Stale) \ {{}} : Drop(batch) /\ Refresh({d[1] : d \in batch})
      BY <1>9 DEF Sweep
  <2>1. count' \in [Users -> Nat]
      BY <1>1, RefreshTyped DEF PanelTyped
  <2>2. PanelTyped'
      BY <1>1, <1>9, <2>1, DropTyped DEF Sweep, PanelTyped, RowsTyped
  <2> QED BY <1>1, <1>4, <1>9, <2>2 DEF Sweep, Linked, ClockTyped
<1>10. CASE Tick
  <2>1. ClockTyped'
      BY <1>1, <1>10, BoundAssumption DEF Tick, ClockTyped, Times
  <2> QED BY <1>1, <1>4, <1>10, <2>1, TablesRest DEF Tick, Linked
<1>11. CASE Crash
    BY <1>1, <1>3, <1>11, TablesRest DEF Crash, Fault, Linked, AgentTyped, NetTyped
<1> QED BY <1>2, <1>5, <1>6, <1>7, <1>8, <1>9, <1>10, <1>11 DEF Environment

LEMMA LinkedAlways == Spec => []Linked
<1>1. Linked /\ UNCHANGED vars => Linked'
    BY TablesRest, AgentRests DEF vars, Linked, NetTyped, netVars, ClockTyped
<1>2. Linked /\ [Next]_vars => Linked'
    BY <1>1, LoopLinked, HandlerLinked, EnvironmentLinked DEF Next
<1> QED BY <1>2, LinkedInit, PTL DEF Spec

\* Every variable has its type, and a device row refers to a user and a node
\* that exist, whatever is validated, deleted and ingested in between (the
\* checks of IngestDeviceBatch, the foreign keys of online_devices).
THEOREM TypeCorrect == Spec => []TypeOK
<1>1. Linked => TypeOK
    BY DEF Linked, AgentTyped, NetTyped, PanelTyped, RowsTyped, ClockTyped, TypeOK
<1> QED BY <1>1, LinkedAlways, PTL

-----------------------------------------------------------------------------
(***************************************************************************)
(* A snapshot replaces the rows of the server.  The last acknowledgement   *)
(* says so only if each of its batches was stored when it was recorded,    *)
(* and if nothing older was stored in between: a request that is still     *)
(* under way is the batch that the loop waits for, or can never be stored. *)
(***************************************************************************)
\* The agent asks the panel for its last number before it freezes anything, and
\* no request outlives its process; if one outlives the agent's patience, what
\* was refused is not allowed again.
Informed == {"blind", "orphan"} \cap Faults = {}
Lasting  == "delay" \in Faults => "revoke" \notin Faults

\* A transaction begins within a day of the snapshot that it is about.
Prompt == \A m \in admitted : time - m.at <= Day

\* Never to be stored: refers to what is gone, or is too old.
Dead(m) == \/ \E d \in m.devices : ~Exists(Self, d[2], d[1])
           \/ time - m.at > Day

Known(m) == m.seq \in recorded \/ Dead(m)

\* The agent and the panel know of nothing but what Self relays.
OwnDevices ==
  /\ \A p \in served : Home[p[2]] = Self
  /\ \A d \in live \cup snapshot.devices : Home[d[2]] = Self

\* The numbers of frozen batches follow each other and are new, but for the
\* first's, whose acknowledgement may have been lost.
Numbered ==
  /\ \A i \in 1 .. Len(frozen) :
        /\ frozen[i].at = snapshot.at
        /\ frozen[i].seq = frozen[1].seq + i - 1
        /\ deviceSeq <= frozen[1].seq
  /\ pc # "start" => \A s \in recorded :
        s <= deviceSeq \/ (frozen # <<>> /\ s = frozen[1].seq)

\* What is under way is the batch that the loop waits for, or cannot be stored.
InFlight ==
  /\ pc = "start" => frozen = <<>> /\ wire = {} /\ admitted = {}
  /\ \A m \in wire \cup admitted : Known(m) \/ (frozen # <<>> /\ m = frozen[1])
  /\ "delay" \notin Faults =>
        /\ pc # "wait" \/ reply # "none" => wire \cup admitted = {}
        /\ \A m \in wire \cup admitted : frozen # <<>> /\ m = frozen[1]
        /\ wire = {} \/ admitted = {}

\* An answer is about the batch waited for.
AnswerSound ==
  /\ reply # "none" => pc = "wait"
  /\ reply = "accepted" => frozen[1].seq \in recorded
  /\ reply = "rejected" => \A m \in wire \cup admitted : Known(m)

\* Without revocations the user and the node of a device that is not
\* authorized are gone.
GoneOnly ==
  "revoke" \notin Faults => \A u \in rows.users, n \in rows.nodes : <<u, n>> \in auth

Settled(d) == \/ seenAt[d] = snapshot.at
              \/ ~Exists(Self, d[2], d[1])
              \/ snapshot.at < time - Day

\* What the snapshot saw is stored, or is in a batch that is still to be; once
\* its first batch is stored, nothing older is left.
Stored ==
  /\ snapshot.at <= time
  /\ \A d \in RowsOf(Self) : seenAt[d] <= snapshot.at
  /\ frozen # <<>> =>
        /\ \A d \in snapshot.devices :
              Settled(d) \/ \E i \in 1 .. Len(frozen) :
                    d \in frozen[i].devices /\ (i = 1 => frozen[1].seq \notin recorded)
        /\ frozen[1].seq \in recorded =>
              \A d \in RowsOf(Self) : seenAt[d] = snapshot.at

SnapInv ==
  /\ Linked /\ OwnDevices
  /\ Self \in rows.servers => Numbered /\ InFlight /\ AnswerSound /\ GoneOnly /\ Stored

-----------------------------------------------------------------------------
(* What can never be stored stays so.                                      *)

\* Rows of the administrator go and do not come back; numbers stay recorded.
LEMMA Forward ==
    ASSUME Linked, [Next]_vars
    PROVE  /\ rows'.servers \subseteq rows.servers
           /\ rows'.users \subseteq rows.users
           /\ rows'.nodes \subseteq rows.nodes
           /\ recorded \subseteq recorded'
           /\ time <= time'
<1>1. RowsTyped /\ time \in Int
    BY DEF Linked, PanelTyped, ClockTyped, Times
<1>2. CASE Loop
    BY <1>1, <1>2 DEF Loop, Heartbeat, HeartbeatFails, Sync, TelemetryPass, Send, Timeout,
                      Acked, Rejected, panelVars
<1>3. CASE Handler
    BY <1>1, <1>3 DEF Handler, Validate, Ingest, OtherReports, panelVars
<1>4. CASE Environment
  <2>1. CASE \E d \in Devices : Connect(d) \/ Disconnect(d)
      BY <1>1, <2>1 DEF Connect, Disconnect, panelVars
  <2>2. CASE \E p \in Pairs : Revoke(p) \/ Grant(p)
      BY <1>1, <2>2 DEF Revoke, Grant
  <2>3. CASE \E u \in Users : DeleteUser(u)
      BY <1>1, <2>3 DEF DeleteUser, RowsTyped
  <2>4. CASE \E n \in Nodes : DeleteNode(n)
      BY <1>1, <2>4 DEF DeleteNode, RowsTyped
  <2>5. CASE \E s \in Servers : DeleteServer(s)
      BY <1>1, <2>5 DEF DeleteServer, RowsTyped
  <2>6. CASE Sweep \/ Tick \/ Crash
      BY <1>1, <2>6 DEF Sweep, Tick, Crash, panelVars
  <2> QED BY <1>4, <2>1, <2>2, <2>3, <2>4, <2>5, <2>6 DEF Environment
<1>5. CASE UNCHANGED vars
    BY <1>1, <1>5 DEF vars, panelVars
<1> QED BY <1>2, <1>3, <1>4, <1>5 DEF Next

LEMMA KnownStays ==
    ASSUME Linked, Linked', [Next]_vars, NEW m \in Batches, Known(m)
    PROVE  Known(m)'
<1>1. time \in Int /\ time' \in Int /\ m.at \in Int /\ Day \in Int
    BY BoundAssumption DEF Linked, ClockTyped, Times, Batches
<1> QED BY <1>1, Forward DEF Known, Dead, Exists

\* A step that adds nothing to what is under way, and leaves the batch alone
\* that the loop waits for.
LEMMA StillKnown ==
    ASSUME Linked, Linked', [Next]_vars, UNCHANGED frozen,
           wire' \cup admitted' \subseteq wire \cup admitted,
           \A m \in wire \cup admitted : Known(m) \/ (frozen # <<>> /\ m = frozen[1])
    PROVE  /\ \A m \in wire' \cup admitted' : Known(m)' \/ (frozen' # <<>> /\ m = frozen'[1])
           /\ (\A m \in wire \cup admitted : Known(m))
                 => \A m \in wire' \cup admitted' : Known(m)'
BY KnownStays DEF Linked, NetTyped

\* A step of panel or clock that stores nothing of Self's agent.
LEMMA StoredKeeps ==
    ASSUME Linked, Linked', OwnDevices, Stored, [Next]_vars,
           UNCHANGED <<frozen, snapshot, recorded>>,
           \A d \in Devices : Home[d[2]] = Self =>
              \/ seenAt'[d] = seenAt[d]
              \/ seenAt'[d] = Absent /\ (~Exists(Self, d[2], d[1])' \/ seenAt[d] < time - Day)
    PROVE  Stored'
<1>1. /\ time \in Int /\ time' \in Int /\ time <= time' /\ Day \in Int /\ snapshot.at \in Int
      /\ snapshot.devices \in SUBSET Devices
    BY Forward, BoundAssumption DEF Linked, AgentTyped, ClockTyped, Times
<1>2. snapshot'.at <= time'
    BY <1>1 DEF Stored
<1>3. \A d \in RowsOf(Self)' : d \in RowsOf(Self) /\ seenAt'[d] = seenAt[d]
    BY DEF RowsOf
<1>4. ASSUME NEW d \in snapshot.devices, Settled(d) PROVE Settled(d)'
  <2>1. d \in Devices /\ Home[d[2]] = Self
      BY <1>1 DEF OwnDevices
  <2>2. ~Exists(Self, d[2], d[1]) => ~Exists(Self, d[2], d[1])'
      BY Forward DEF Exists
  <2> QED BY <1>1, <1>4, <2>1, <2>2 DEF Settled
<1> QED BY <1>2, <1>3, <1>4 DEF Stored

-----------------------------------------------------------------------------
(* The steps of the loop.                                                  *)

SnapParts == Numbered /\ InFlight /\ AnswerSound /\ GoneOnly /\ Stored

\* Whoever sends, waits or gives up leaves the batch and its number alone.
LEMMA ExchangeSnap ==
    ASSUME Linked, Linked', OwnDevices, SnapParts, Send \/ Timeout
    PROVE  SnapParts'
<1>1. UNCHANGED <<live, served, frozen, deviceSeq, snapshot, panelVars, time>>
    BY DEF Send, Timeout
<1>2. Numbered' /\ GoneOnly' /\ Stored'
    BY <1>1 DEF SnapParts, Numbered, GoneOnly, Stored, Settled, RowsOf, Exists,
                    Send, Timeout, panelVars
<1>3. \A m : Known(m)' <=> Known(m)
    BY <1>1 DEF Known, Dead, Exists, panelVars
<1>4. CASE Send
  <2>1. frozen # <<>> /\ Head(frozen) = frozen[1]
      BY <1>4, HeadTyped DEF Send, Linked, AgentTyped
  <2> QED BY <1>1, <1>2, <1>3, <1>4, <2>1 DEF Send, SnapParts, InFlight, AnswerSound
<1>5. CASE Timeout
    BY <1>1, <1>2, <1>3, <1>5 DEF Timeout, Abandon, SnapParts, InFlight, AnswerSound
<1> QED BY <1>4, <1>5

\* reconcileSeq: the panel's last number is at most that of the first batch.
LEMMA HeartbeatSnap ==
    ASSUME Linked, Linked', OwnDevices, SnapParts, Heartbeat
    PROVE  SnapParts'
<1>1. UNCHANGED <<live, served, frozen, snapshot, netVars, panelVars, time>> /\ pc' = "idle"
    BY DEF Heartbeat
<1>2. GoneOnly' /\ Stored'
    BY <1>1 DEF SnapParts, GoneOnly, Stored, Settled, RowsOf, Exists, panelVars
<1>3. InFlight' /\ AnswerSound'
  <2>1. \A m : Known(m)' <=> Known(m)
      BY <1>1 DEF Known, Dead, Exists, panelVars
  <2> QED BY <1>1, <2>1 DEF Heartbeat, SnapParts, InFlight, AnswerSound, netVars
<1>4. Numbered'
  <2>1. deviceSeq \in Nat /\ recorded \subseteq Nat /\ frozen \in Seq(Batches)
      BY DEF Linked, AgentTyped, PanelTyped
  <2>2. \A i \in 1 .. Len(frozen) : frozen[i] \in Batches
      BY <2>1
  <2> PICK top \in recorded \cup {0} :
            /\ \A s \in recorded : s <= top
            /\ deviceSeq' = IF top > deviceSeq THEN top ELSE deviceSeq
      BY DEF Heartbeat
  <2>3. \A s \in recorded' : s <= deviceSeq'
      BY <1>1, <2>1 DEF panelVars
  <2>4. ASSUME NEW i \in 1 .. Len(frozen') PROVE deviceSeq' <= frozen'[1].seq
    <3>1. frozen # <<>> /\ 1 \in 1 .. Len(frozen) /\ frozen' = frozen
        BY <1>1, <2>1, <2>4
    <3>2. pc # "start" /\ deviceSeq <= frozen[1].seq
        BY <3>1 DEF SnapParts, InFlight, Numbered
    <3>3. frozen[1].seq \in Nat
        BY <2>2, <3>1 DEF Batches
    <3>4. top <= frozen[1].seq
        BY <2>1, <3>1, <3>2, <3>3 DEF SnapParts, Numbered
    <3> QED BY <3>1, <3>2, <3>4
  <2> QED BY <1>1, <2>3, <2>4 DEF SnapParts, Numbered
<1> QED BY <1>2, <1>3, <1>4 DEF SnapParts

\* flushDevices freezes with new numbers what is connected.
LEMMA FreezeSnap ==
    ASSUME Linked, Linked', OwnDevices, SnapParts, TelemetryPass
    PROVE  SnapParts'
<1>1. UNCHANGED <<live, served, deviceSeq, netVars, panelVars, time>> /\ pc = "idle" /\ pc' = "send"
    BY DEF TelemetryPass
<1>2. GoneOnly'
    BY <1>1 DEF SnapParts, GoneOnly, panelVars
<1>3. \A m : Known(m)' <=> Known(m)
    BY <1>1 DEF Known, Dead, Exists, panelVars
<1>4. CASE frozen # <<>>
  <2>1. UNCHANGED <<frozen, snapshot>>
      BY <1>4 DEF TelemetryPass
  <2>2. Numbered' /\ Stored'
      BY <1>1, <2>1 DEF SnapParts, Numbered, Stored, Settled, RowsOf, Exists, panelVars
  <2> QED BY <1>1, <1>2, <1>3, <2>1, <2>2 DEF SnapParts, InFlight, AnswerSound, netVars
<1>5. CASE frozen = <<>>
  <2>1. frozen' = Cut(live, deviceSeq, time) /\ snapshot' = [at |-> time, devices |-> live]
      BY <1>5 DEF TelemetryPass
  <2>2. live \in SUBSET Devices /\ deviceSeq \in Nat /\ time \in Times /\ recorded \subseteq Nat
      BY DEF Linked, AgentTyped, PanelTyped, ClockTyped
  <2>3. /\ frozen' \in Seq(Batches) /\ frozen' # <<>>
        /\ \A k \in 1 .. Len(frozen') : frozen'[k].seq = deviceSeq + k /\ frozen'[k].at = time
        /\ \A d \in live : \E k \in 1 .. Len(frozen') : d \in frozen'[k].devices
      BY <2>1, <2>2, CutSound
  <2>4. 1 \in 1 .. Len(frozen') /\ Len(frozen') \in Nat
      BY <2>3
  <2>5. \A s \in recorded : s <= deviceSeq
      BY <1>1, <1>5 DEF SnapParts, Numbered
  <2>6. Numbered'
      BY <1>1, <2>1, <2>2, <2>3, <2>4, <2>5 DEF Numbered, panelVars
  <2>7. frozen'[1].seq \notin recorded'
      BY <1>1, <2>2, <2>3, <2>4, <2>5 DEF panelVars
  <2>8. Stored'
    <3>1. snapshot'.at <= time' /\ snapshot'.at = time
        BY <1>1, <2>1, <2>2 DEF Times
    <3>2. ASSUME NEW d \in RowsOf(Self)' PROVE seenAt'[d] <= snapshot'.at
      <4>1. d \in RowsOf(Self) /\ seenAt'[d] = seenAt[d] /\ d \in Devices
          BY <1>1 DEF RowsOf, panelVars
      <4>2. seenAt[d] \in Int /\ snapshot.at \in Int
          BY <4>1 DEF Linked, PanelTyped, AgentTyped, Times, Absent
      <4>3. seenAt[d] <= snapshot.at /\ snapshot.at <= time
          BY <4>1 DEF SnapParts, Stored
      <4> QED BY <2>2, <3>1, <4>1, <4>2, <4>3 DEF Times
    <3> QED BY <2>1, <2>3, <2>7, <3>1, <3>2 DEF Stored
  <2>9. InFlight' /\ AnswerSound'
      BY <1>1, <1>3, <1>5 DEF SnapParts, InFlight, AnswerSound, netVars
  <2> QED BY <1>2, <2>6, <2>8, <2>9 DEF SnapParts
<1> QED BY <1>4, <1>5

\* What is acknowledged is stored, and the next batch is new.
LEMMA AckedSnap ==
    ASSUME Linked, Linked', OwnDevices, SnapParts, Acked
    PROVE  SnapParts'
<1>1. UNCHANGED <<live, served, snapshot, wire, admitted, panelVars, time>>
    BY DEF Acked
<1>2. GoneOnly'
    BY <1>1 DEF SnapParts, GoneOnly, panelVars
<1>3. \A m : Known(m)' <=> Known(m)
    BY <1>1 DEF Known, Dead, Exists, panelVars
<1>4. /\ frozen \in Seq(Batches) /\ frozen # <<>> /\ frozen[1] \in Batches
      /\ Head(frozen) = frozen[1] /\ 1 \in 1 .. Len(frozen)
      /\ frozen' = Tail(frozen) /\ Len(frozen') = Len(frozen) - 1
      /\ \A i \in 1 .. Len(frozen) - 1 : frozen'[i] = frozen[i + 1]
    BY HeadTyped DEF Acked, Linked, AgentTyped
<1>5. frozen[1].seq \in recorded /\ frozen[1].seq \in Nat /\ deviceSeq' = frozen[1].seq
    BY <1>4 DEF Acked, SnapParts, AnswerSound, Batches
<1>6. pc # "start" /\ pc' # "start" /\ pc' # "wait" /\ reply' = "none" /\ reply = "accepted"
    BY DEF Acked
<1>7. \A s \in recorded : s <= frozen[1].seq
    BY <1>4, <1>5, <1>6 DEF SnapParts, Numbered, Linked, AgentTyped, PanelTyped
<1>8. \A i \in 1 .. Len(frozen') :
         /\ i + 1 \in 1 .. Len(frozen) /\ frozen'[i] = frozen[i + 1]
         /\ frozen'[i].at = snapshot.at /\ frozen'[i].seq = frozen[1].seq + i
    BY <1>4, <1>5 DEF SnapParts, Numbered
<1>9. frozen' # <<>> => 1 \in 1 .. Len(frozen') /\ frozen'[1].seq = frozen[1].seq + 1
    BY <1>4, <1>8
<1>10. Numbered'
  <2>1. \A s \in recorded' : s <= deviceSeq'
      BY <1>1, <1>5, <1>7 DEF panelVars
  <2>2. ASSUME NEW i \in 1 .. Len(frozen')
        PROVE  /\ frozen'[i].at = snapshot'.at
               /\ frozen'[i].seq = frozen'[1].seq + i - 1
               /\ deviceSeq' <= frozen'[1].seq
    <3>1. 1 \in 1 .. Len(frozen')
        BY <1>4, <2>2
    <3>2. frozen'[1].seq = frozen[1].seq + 1
        BY <1>8, <3>1
    <3>3. frozen'[i].at = snapshot.at /\ frozen'[i].seq = frozen[1].seq + i /\ i \in Int
        BY <1>8, <2>2
    <3>4. frozen'[i].seq = frozen'[1].seq + i - 1
        BY <1>5, <3>2, <3>3
    <3>5. deviceSeq' <= frozen'[1].seq
        BY <1>5, <3>2
    <3> QED BY <1>1, <3>3, <3>4, <3>5
  <2> QED BY <2>1, <2>2 DEF Numbered
<1>11. InFlight' /\ AnswerSound'
  <2>1. \A m \in wire \cup admitted : Known(m)
      BY <1>5 DEF SnapParts, InFlight, Known
  <2> QED BY <1>1, <1>3, <1>6, <2>1 DEF SnapParts, InFlight, AnswerSound
<1>12. Stored'
  <2>1. frozen' # <<>> => frozen'[1].seq \notin recorded'
      BY <1>1, <1>5, <1>7, <1>9 DEF panelVars
  <2>2. ASSUME frozen' # <<>>, NEW d \in snapshot'.devices
        PROVE  Settled(d)' \/ \E i \in 1 .. Len(frozen') :
                  d \in frozen'[i].devices /\ (i = 1 => frozen'[1].seq \notin recorded')
    <3>1. CASE Settled(d)
        BY <1>1, <3>1 DEF Settled, Exists, panelVars
    <3>2. ASSUME NEW i \in 1 .. Len(frozen), d \in frozen[i].devices, i # 1
          PROVE  \E k \in 1 .. Len(frozen') : d \in frozen'[k].devices
      <4>1. i - 1 \in 1 .. Len(frozen') /\ frozen'[i - 1] = frozen[i]
          BY <1>4, <3>2
      <4> QED BY <3>2, <4>1
    <3> QED BY <1>1, <1>4, <1>5, <2>1, <2>2, <3>1, <3>2 DEF SnapParts, Stored
  <2> QED BY <1>1, <2>1, <2>2 DEF SnapParts, Stored, RowsOf, panelVars
<1> QED BY <1>2, <1>10, <1>11, <1>12 DEF SnapParts

\* What is rejected is dropped; its copies can never be stored.
LEMMA RejectedSnap ==
    ASSUME Linked, Linked', OwnDevices, SnapParts, Rejected
    PROVE  SnapParts'
<1>1. UNCHANGED <<live, served, snapshot, wire, admitted, panelVars, time>> /\ frozen' = <<>>
    BY DEF Rejected
<1>2. GoneOnly' /\ Stored'
    BY <1>1 DEF SnapParts, GoneOnly, Stored, RowsOf, panelVars
<1>3. \A m : Known(m)' <=> Known(m)
    BY <1>1 DEF Known, Dead, Exists, panelVars
<1>4. InFlight' /\ AnswerSound'
    BY <1>1, <1>3 DEF Rejected, SnapParts, InFlight, AnswerSound
<1>5. Numbered'
  <2>1. /\ frozen \in Seq(Batches) /\ frozen # <<>> /\ frozen[1] \in Batches
        /\ Head(frozen) = frozen[1]
      BY HeadTyped DEF Rejected, Linked, AgentTyped
  <2>2. frozen[1].seq \in Nat /\ deviceSeq \in Nat /\ recorded \subseteq Nat
      BY <2>1 DEF Batches, Linked, AgentTyped, PanelTyped
  <2>3. \A s \in recorded : s <= deviceSeq'
      BY <2>1, <2>2 DEF Rejected, SnapParts, Numbered
  <2>4. Len(frozen') = 0
      BY <1>1
  <2> QED BY <1>1, <2>3, <2>4 DEF Numbered, panelVars
<1> QED BY <1>2, <1>4, <1>5 DEF SnapParts

LEMMA LoopSnap ==
    ASSUME Informed, SnapInv, Linked', Loop
    PROVE  SnapInv'
<1>1. Linked /\ OwnDevices /\ (Self \in rows.servers => SnapParts)
    BY DEF SnapInv, SnapParts
<1>2. OwnDevices'
    BY <1>1 DEF OwnDevices, Loop, Heartbeat, HeartbeatFails, Sync, TelemetryPass, Send, Timeout,
                Acked, Rejected
<1>3. rows' = rows
    BY DEF Loop, Heartbeat, HeartbeatFails, Sync, TelemetryPass, Send, Timeout,
           Acked, Rejected, panelVars
<1>4. ASSUME Self \in rows.servers PROVE SnapParts'
  <2>1. SnapParts
      BY <1>1, <1>4
  <2>2. CASE HeartbeatFails
      BY <1>4, <2>2 DEF HeartbeatFails, Informed
  <2>3. CASE Sync
    <3>1. UNCHANGED <<frozen, deviceSeq, pc, snapshot, netVars, panelVars, time>>
        BY <2>3 DEF Sync
    <3>2. \A m : Known(m)' <=> Known(m)
        BY <3>1 DEF Known, Dead, Exists, panelVars
    <3> QED BY <2>1, <3>1, <3>2
            DEF SnapParts, Numbered, InFlight, AnswerSound, GoneOnly, Stored, Settled, RowsOf,
                Exists, netVars, panelVars
  <2> QED BY <1>1, <2>1, <2>2, <2>3, HeartbeatSnap, FreezeSnap, ExchangeSnap, AckedSnap,
             RejectedSnap DEF Loop
<1> QED BY <1>2, <1>3, <1>4 DEF SnapInv, SnapParts

-----------------------------------------------------------------------------
(* The steps of the handler.                                               *)

\* A batch is refused for good, unless nothing else of it is under way.
LEMMA ValidateSnap ==
    ASSUME Lasting, Linked, Linked', OwnDevices, SnapParts, Self \in rows.servers,
           NEW m \in wire, Validate(m)
    PROVE  SnapParts'
<1>1. UNCHANGED <<live, agentVars, panelVars, time, faults>>
    BY DEF Validate
<1>2. Numbered' /\ GoneOnly' /\ Stored'
    BY <1>1 DEF SnapParts, Numbered, GoneOnly, Stored, Settled, RowsOf, Exists, agentVars, panelVars
<1>3. \A x : Known(x)' <=> Known(x)
    BY <1>1 DEF Known, Dead, Exists, panelVars
<1>4. UNCHANGED <<frozen, pc, recorded>>
    BY <1>1 DEF agentVars, panelVars
<1>5. wire' \cup admitted' \subseteq wire \cup admitted
    BY DEF Validate, Take
<1>6. ASSUME "delay" \notin Faults
      PROVE  /\ pc = "wait" /\ reply = "none" /\ m = frozen[1] /\ frozen # <<>>
             /\ wire' = {} /\ admitted = {}
  <2>1. pc = "wait" /\ reply = "none" /\ frozen # <<>>
      BY <1>6 DEF SnapParts, InFlight
  <2>2. \A x \in wire : x = frozen[1]
      BY <1>6 DEF SnapParts, InFlight
  <2>3. admitted = {}
      BY <1>6 DEF SnapParts, InFlight
  <2>4. wire' = wire \ {m}
      BY <1>6 DEF Validate, Take
  <2> QED BY <2>1, <2>2, <2>3, <2>4
<1>7. CASE Valid(m) /\ admitted' = admitted \cup {m} /\ reply' = reply
    BY <1>3, <1>4, <1>5, <1>6, <1>2, <1>7 DEF SnapParts, InFlight, AnswerSound
<1>8. CASE ~Valid(m) /\ admitted' = admitted /\ Answer(m, "rejected")
  <2>1. reply' = reply
        \/ (reply' = "rejected" /\ pc = "wait" /\ reply = "none" /\ m = Head(frozen))
    <3>1. CASE pc = "wait" /\ reply = "none" /\ m = Head(frozen)
        BY <1>8, <3>1 DEF Answer
    <3>2. CASE ~(pc = "wait" /\ reply = "none" /\ m = Head(frozen))
      <4>1. reply' \in {reply}
          BY <1>8, <3>2 DEF Answer
      <4> QED BY <4>1
    <3> QED BY <3>1, <3>2
  <2>2. InFlight'
      BY <1>3, <1>4, <1>5, <1>6, <1>8 DEF SnapParts, InFlight
  <2>3. CASE reply' = reply
      BY <1>2, <1>3, <1>4, <1>5, <2>2, <2>3 DEF SnapParts, AnswerSound
  <2>4. CASE reply' = "rejected" /\ pc = "wait" /\ m = Head(frozen)
    <3>1. CASE "delay" \notin Faults
        BY <1>2, <1>4, <1>6, <1>8, <2>2, <2>4, <3>1 DEF SnapParts, AnswerSound
    <3>2. CASE "delay" \in Faults
      <4>1. m = frozen[1]
          BY <2>4, HeadTyped DEF Linked, AgentTyped
      <4>2. Dead(m)
        <5>1. m \in Batches /\ time \in Int /\ Day \in Int /\ rows.servers \subseteq Servers
            BY BoundAssumption DEF Linked, NetTyped, ClockTyped, Times, PanelTyped, RowsTyped
        <5>2. CASE ~(time - m.at <= Day)
          <6>1. m.at \in Int
              BY <5>1 DEF Batches, Times
          <6> QED BY <5>1, <5>2, <6>1 DEF Dead
        <5>3. ASSUME NEW d \in m.devices, PairOf(d) \notin auth PROVE Dead(m)
          <6>1. "revoke" \notin Faults
              BY <3>2 DEF Lasting
          <6>2. PairOf(d) = <<d[1], d[2]>>
              BY DEF PairOf
          <6>3. ~Exists(Self, d[2], d[1])
              BY <5>3, <6>1, <6>2 DEF SnapParts, GoneOnly, Exists
          <6> QED BY <6>3 DEF Dead
        <5> QED BY <1>8, <5>2, <5>3 DEF Valid
      <4>3. \A x \in wire \cup admitted : Known(x)
          BY <4>1, <4>2 DEF SnapParts, InFlight, Known
      <4> QED BY <1>2, <1>3, <1>4, <1>5, <2>2, <2>4, <4>3 DEF SnapParts, AnswerSound
    <3> QED BY <3>1, <3>2
  <2> QED BY <2>1, <2>3, <2>4
<1> QED BY <1>7, <1>8 DEF Validate

\* IngestDeviceBatch stores the batch that the loop waits for, or nothing.
LEMMA IngestSnap ==
    ASSUME Prompt, Linked, Linked', OwnDevices, SnapParts, Self \in rows.servers,
           NEW m \in admitted, Ingest(m)
    PROVE  SnapParts'
<1>1. UNCHANGED <<live, agentVars, wire, rows, auth, time>> /\ admitted' = admitted \ {m}
    BY DEF Ingest, panelVars
<1>2. UNCHANGED <<frozen, pc, deviceSeq, snapshot>> /\ GoneOnly'
    BY <1>1 DEF SnapParts, GoneOnly, agentVars
<1>3. m \in Batches /\ m.at \in Int /\ m.seq \in Nat
    BY DEF Linked, NetTyped, Batches, Times
<1>4. [Next]_vars
    BY DEF Next, Handler
<1>5. \A x \in wire' \cup admitted' : Known(x)' \/ (frozen' # <<>> /\ x = frozen'[1])
    BY <1>1, <1>2, <1>4, StillKnown DEF SnapParts, InFlight
<1>6. (\A x \in wire \cup admitted : Known(x)) => \A x \in wire' \cup admitted' : Known(x)'
    BY <1>1, <1>2, <1>4, StillKnown DEF SnapParts, InFlight
<1>7. InFlight'
    BY <1>1, <1>2, <1>5 DEF SnapParts, InFlight
<1>8. AnswerSound'
  <2>1. recorded \subseteq recorded'
      BY <1>4, Forward
  <2>2. reply' = reply
        \/ (reply' = "accepted" /\ pc = "wait" /\ m = Head(frozen) /\ m.seq \in recorded')
      BY DEF Ingest, Answer, panelVars
  <2>3. pc = "wait" => Head(frozen) = frozen[1]
      BY HeadTyped DEF Linked, AgentTyped
  <2> QED BY <1>2, <1>6, <2>1, <2>2, <2>3 DEF SnapParts, AnswerSound
<1>9. CASE UNCHANGED panelVars
  <2>1. Numbered' /\ Stored'
      BY <1>1, <1>2, <1>9 DEF SnapParts, Numbered, Stored, Settled, RowsOf, Exists, panelVars
  <2> QED BY <1>2, <1>7, <1>8, <2>1 DEF SnapParts
<1>10. CASE /\ m.seq \notin recorded
            /\ \A d \in m.devices : Exists(Self, d[2], d[1])
            /\ Store(Self, m.at, m.devices)
            /\ recorded' = recorded \cup {m.seq}
  <2>1. ~Dead(m)
    <3>1. time - m.at <= Day /\ time \in Int /\ Day \in Int
        BY BoundAssumption DEF Prompt, Linked, ClockTyped, Times
    <3> QED BY <1>3, <1>10, <3>1 DEF Dead
  <2>2. frozen # <<>> /\ m = frozen[1]
      BY <1>10, <2>1 DEF SnapParts, InFlight, Known
  <2>3. /\ frozen \in Seq(Batches) /\ 1 \in 1 .. Len(frozen) /\ m.at = snapshot.at
        /\ m.devices \in SUBSET Devices
      BY <1>3, <2>2 DEF SnapParts, Numbered, Linked, AgentTyped, Batches
  <2>4. Numbered'
      BY <1>2, <1>10, <2>2 DEF SnapParts, Numbered
  <2>5. seenAt' = [d \in Devices |->
                     IF d \in m.devices THEN snapshot.at
                     ELSE IF d \in RowsOf(Self) /\ seenAt[d] < snapshot.at THEN Absent
                     ELSE seenAt[d]]
      BY <1>10, <2>3 DEF Store
  <2>6. \A d \in Devices : seenAt[d] \in Int
      BY DEF Linked, PanelTyped, Times, Absent
  <2>7. snapshot.at \in Int
      BY DEF Linked, AgentTyped, Times
  <2>8. ASSUME NEW d \in RowsOf(Self)' PROVE seenAt'[d] = snapshot.at
    <3>1. d \in Devices /\ seenAt'[d] # Absent /\ Home[d[2]] = Self
        BY DEF RowsOf
    <3>2. CASE d \in m.devices
        BY <2>5, <3>1, <3>2
    <3>3. CASE d \notin m.devices
      <4>1. seenAt'[d] = seenAt[d] /\ ~(d \in RowsOf(Self) /\ seenAt[d] < snapshot.at)
          BY <2>5, <3>1, <3>3
      <4>2. d \in RowsOf(Self)
          BY <3>1, <4>1 DEF RowsOf
      <4>3. seenAt[d] <= snapshot.at
          BY <4>2 DEF SnapParts, Stored
      <4> QED BY <2>6, <2>7, <3>1, <4>1, <4>2, <4>3
    <3> QED BY <3>2, <3>3
  <2>9. ASSUME NEW d \in snapshot.devices
        PROVE  Settled(d)' \/ \E i \in 1 .. Len(frozen) : d \in frozen[i].devices /\ i # 1
    <3>1. d \in Devices
        BY DEF Linked, AgentTyped
    <3>2. CASE d \in m.devices
        BY <1>2, <2>5, <3>1, <3>2 DEF Settled
    <3>3. CASE d \notin m.devices /\ Settled(d)
      <4>1. seenAt[d] = snapshot.at => seenAt'[d] = snapshot.at
          BY <2>5, <2>7, <3>1, <3>3
      <4> QED BY <1>1, <1>2, <3>3, <4>1 DEF Settled, Exists
    <3>4. CASE d \notin m.devices /\ \E i \in 1 .. Len(frozen) : d \in frozen[i].devices
        BY <2>2, <3>4
    <3> QED BY <2>2, <3>2, <3>3, <3>4 DEF SnapParts, Stored
  <2>10. Stored'
    <3>1. snapshot'.at <= time'
        BY <1>1, <1>2 DEF SnapParts, Stored
    <3>2. \A d \in RowsOf(Self)' : seenAt'[d] <= snapshot'.at
        BY <1>2, <2>7, <2>8
    <3> QED BY <1>2, <2>8, <2>9, <3>1, <3>2 DEF Stored
  <2> QED BY <1>2, <1>7, <1>8, <2>4, <2>10 DEF SnapParts
<1> QED BY <1>9, <1>10 DEF Ingest, panelVars

\* Steps that leave the agent, the network and the numbers alone.
LEMMA OutsideSnap ==
    ASSUME Linked, Linked', OwnDevices, SnapParts, [Next]_vars,
           UNCHANGED <<frozen, deviceSeq, pc, snapshot, netVars, recorded>>,
           GoneOnly',
           \A d \in Devices : Home[d[2]] = Self =>
              \/ seenAt'[d] = seenAt[d]
              \/ seenAt'[d] = Absent /\ (~Exists(Self, d[2], d[1])' \/ seenAt[d] < time - Day)
    PROVE  SnapParts'
<1>1. Stored'
    BY StoredKeeps DEF SnapParts
<1>2. UNCHANGED <<wire, admitted, reply>>
    BY DEF netVars
<1>3. /\ \A m \in wire' \cup admitted' : Known(m)' \/ (frozen' # <<>> /\ m = frozen'[1])
      /\ (\A m \in wire \cup admitted : Known(m)) => \A m \in wire' \cup admitted' : Known(m)'
    BY <1>2, StillKnown DEF SnapParts, InFlight
<1>4. Numbered' /\ InFlight' /\ AnswerSound'
    BY <1>2, <1>3 DEF SnapParts, Numbered, InFlight, AnswerSound
<1> QED BY <1>1, <1>4 DEF SnapParts

LEMMA HandlerSnap ==
    ASSUME Informed, Lasting, Prompt, SnapInv, Linked', Handler
    PROVE  SnapInv'
<1>1. Linked /\ OwnDevices /\ (Self \in rows.servers => SnapParts)
    BY DEF SnapInv, SnapParts
<1>2. UNCHANGED <<live, agentVars, rows>>
    BY DEF Handler, Validate, Ingest, OtherReports, panelVars
<1>3. OwnDevices'
    BY <1>1, <1>2 DEF OwnDevices, agentVars
<1>4. ASSUME Self \in rows.servers PROVE SnapParts'
  <2>1. SnapParts
      BY <1>1, <1>4
  <2>2. CASE \E m \in wire : Validate(m)
      BY <1>1, <1>4, <2>1, <2>2, ValidateSnap
  <2>3. CASE \E m \in admitted : Ingest(m)
      BY <1>1, <1>4, <2>1, <2>3, IngestSnap
  <2>4. ASSUME NEW s \in Servers, NEW devices \in SUBSET Devices, OtherReports(s, devices)
        PROVE  SnapParts'
    <3>1. [Next]_vars
        BY DEF Next
    <3>2. UNCHANGED <<frozen, deviceSeq, pc, snapshot, netVars, recorded, rows, auth>>
        BY <2>4 DEF OtherReports, agentVars
    <3>3. GoneOnly'
        BY <2>1, <3>2 DEF SnapParts, GoneOnly
    <3>4. \A d \in Devices : Home[d[2]] = Self => seenAt'[d] = seenAt[d]
        BY <2>4 DEF OtherReports, Store, RowsOf
    <3> QED BY <1>1, <2>1, <3>1, <3>2, <3>3, <3>4, OutsideSnap
  <2> QED BY <2>2, <2>3, <2>4 DEF Handler
<1> QED BY <1>2, <1>3, <1>4 DEF SnapInv, SnapParts

-----------------------------------------------------------------------------
(* The other steps.                                                        *)

LEMMA CrashSnap ==
    ASSUME Informed, Linked, Linked', SnapParts, Crash PROVE SnapParts'
<1>1. /\ wire' = {} /\ admitted' = {} /\ frozen' = <<>> /\ pc' = "start" /\ reply' = "none"
      /\ UNCHANGED <<snapshot, panelVars, time>>
    BY DEF Crash, Informed
<1>2. Numbered' /\ InFlight' /\ AnswerSound'
    BY <1>1 DEF Numbered, InFlight, AnswerSound
<1>3. GoneOnly' /\ Stored'
    BY <1>1 DEF SnapParts, GoneOnly, Stored, RowsOf, panelVars
<1> QED BY <1>2, <1>3 DEF SnapParts

LEMMA EnvironmentSnap ==
    ASSUME Informed, SnapInv, Linked', Environment
    PROVE  SnapInv'
<1>1. Linked /\ OwnDevices /\ (Self \in rows.servers => SnapParts)
    BY DEF SnapInv, SnapParts
<1>2. OwnDevices'
  <2>1. CASE \E d \in Devices : Connect(d) \/ Disconnect(d)
      BY <1>1, <2>1 DEF Connect, Disconnect, OwnDevices, PairOf, agentVars
  <2>2. CASE Crash
      BY <1>1, <2>2 DEF Crash, OwnDevices
  <2>3. CASE UNCHANGED <<live, agentVars>>
      BY <1>1, <2>3 DEF OwnDevices, agentVars
  <2> QED BY <2>1, <2>2, <2>3 DEF Environment, Revoke, Grant, DeleteUser, DeleteNode,
                                  DeleteServer, Sweep, Tick
<1>3. [Next]_vars
    BY DEF Next
<1>4. ASSUME Self \in rows'.servers PROVE SnapParts'
  <2>1. Self \in rows.servers /\ SnapParts
      BY <1>1, <1>3, <1>4, Forward
  <2>2. CASE Crash
      BY <1>1, <2>1, <2>2, CrashSnap
  <2>3. CASE \/ \E d \in Devices : Connect(d) \/ Disconnect(d)
             \/ \E p \in Pairs : Revoke(p) \/ Grant(p)
             \/ Tick
    <3>1. UNCHANGED <<frozen, deviceSeq, pc, snapshot, netVars, rows, seenAt, recorded>>
        BY <2>3 DEF Connect, Disconnect, Revoke, Grant, Tick, agentVars, panelVars
    <3>2. GoneOnly'
        BY <2>1, <2>3 DEF SnapParts, GoneOnly, Connect, Disconnect, Revoke, Grant, Tick,
                              Fault, panelVars
    <3> QED BY <1>1, <1>3, <2>1, <3>1, <3>2, OutsideSnap
  <2>4. ASSUME NEW u \in Users, DeleteUser(u) PROVE SnapParts'
    <3>1. UNCHANGED <<frozen, deviceSeq, pc, snapshot, netVars, recorded>>
        BY <2>4 DEF DeleteUser, agentVars
    <3>2. rows'.users = rows.users \ {u} /\ rows'.nodes = rows.nodes
        BY <1>1, <2>4 DEF DeleteUser, Linked, PanelTyped, RowsTyped
    <3>3. GoneOnly'
        BY <2>1, <2>4, <3>2 DEF SnapParts, GoneOnly, DeleteUser
    <3>4. ASSUME NEW d \in Devices
          PROVE  \/ seenAt'[d] = seenAt[d]
                 \/ seenAt'[d] = Absent /\ ~Exists(Self, d[2], d[1])'
      <4> DEFINE gone == {e \in Devices : e[1] = u}
      <4>1. Drop(gone)
          BY <2>4 DEF DeleteUser
      <4>2. d \in gone => ~Exists(Self, d[2], d[1])'
          BY <3>2 DEF Exists
      <4> HIDE DEF gone
      <4> QED BY <4>1, <4>2 DEF Drop
    <3> QED BY <1>1, <1>3, <2>1, <3>1, <3>3, <3>4, OutsideSnap
  <2>5. ASSUME NEW n \in Nodes, DeleteNode(n) PROVE SnapParts'
    <3>1. UNCHANGED <<frozen, deviceSeq, pc, snapshot, netVars, recorded>>
        BY <2>5 DEF DeleteNode, agentVars
    <3>2. rows'.nodes = rows.nodes \ {n} /\ rows'.users = rows.users
        BY <1>1, <2>5 DEF DeleteNode, Linked, PanelTyped, RowsTyped
    <3>3. GoneOnly'
        BY <2>1, <2>5, <3>2 DEF SnapParts, GoneOnly, DeleteNode
    <3>4. ASSUME NEW d \in Devices
          PROVE  \/ seenAt'[d] = seenAt[d]
                 \/ seenAt'[d] = Absent /\ ~Exists(Self, d[2], d[1])'
      <4> DEFINE gone == {e \in Devices : e[2] = n}
      <4>1. Drop(gone)
          BY <2>5 DEF DeleteNode
      <4>2. d \in gone => ~Exists(Self, d[2], d[1])'
          BY <3>2 DEF Exists
      <4> HIDE DEF gone
      <4> QED BY <4>1, <4>2 DEF Drop
    <3> QED BY <1>1, <1>3, <2>1, <3>1, <3>3, <3>4, OutsideSnap
  <2>6. ASSUME NEW s \in Servers, DeleteServer(s) PROVE SnapParts'
    <3>1. UNCHANGED <<frozen, deviceSeq, pc, snapshot, netVars, recorded>>
        BY <2>6 DEF DeleteServer, agentVars
    <3>2. /\ rows'.nodes = {n \in rows.nodes : Home[n] # s} /\ rows'.users = rows.users
          /\ rows'.servers = rows.servers \ {s}
        BY <1>1, <2>6 DEF DeleteServer, Linked, PanelTyped, RowsTyped
    <3>3. GoneOnly'
        BY <2>1, <2>6, <3>2 DEF SnapParts, GoneOnly, DeleteServer
    <3>4. s # Self
        BY <1>4, <3>2
    <3>5. \A d \in Devices : Home[d[2]] = Self => seenAt'[d] = seenAt[d]
        BY <2>6, <3>4 DEF DeleteServer, Drop, RowsOf
    <3> QED BY <1>1, <1>3, <2>1, <3>1, <3>3, <3>5, OutsideSnap
  <2>7. CASE Sweep
    <3>1. UNCHANGED <<frozen, deviceSeq, pc, snapshot, netVars, rows, auth, recorded>>
        BY <2>7 DEF Sweep, agentVars
    <3>2. GoneOnly'
        BY <2>1, <3>1 DEF SnapParts, GoneOnly
    <3>3. ASSUME NEW d \in Devices
          PROVE  seenAt'[d] = seenAt[d] \/ (seenAt'[d] = Absent /\ seenAt[d] < time - Day)
      <4> PICK batch \in (SUBSET Stale) \ {{}} : Drop(batch)
          BY <2>7 DEF Sweep
      <4>1. d \in batch => seenAt[d] < time - Day
          BY DEF Stale
      <4> QED BY <4>1 DEF Drop
    <3> QED BY <1>1, <1>3, <2>1, <3>1, <3>2, <3>3, OutsideSnap
  <2> QED BY <2>2, <2>3, <2>4, <2>5, <2>6, <2>7 DEF Environment
<1> QED BY <1>2, <1>4 DEF SnapInv, SnapParts

LEMMA SnapInit == Init => SnapInv
<1> SUFFICES ASSUME Init PROVE SnapInv
    OBVIOUS
<1>1. Linked
    BY LinkedInit
<1>2. OwnDevices
    BY DEF Init, OwnDevices
<1>3. Numbered /\ InFlight /\ AnswerSound
    BY DEF Init, Numbered, InFlight, AnswerSound
<1>4. GoneOnly
    BY DEF Init, GoneOnly, Pairs
<1>5. Stored
    BY BoundAssumption DEF Init, Stored, RowsOf
<1> QED BY <1>1, <1>2, <1>3, <1>4, <1>5 DEF SnapInv

\* When the last batch of a snapshot is acknowledged, the rows of the server
\* are the snapshot (flushDevices, IngestDeviceBatch): if no request outlives
\* the process that sent it, and either none is handled after its timeout, or
\* nothing that was refused is granted again and a transaction begins within a
\* day of its snapshot.
THEOREM SnapshotTakesOver ==
    Informed /\ Lasting => (Spec /\ []Prompt => SnapshotReplaces)
<1> SUFFICES ASSUME Informed, Lasting PROVE Spec /\ []Prompt => SnapshotReplaces
    OBVIOUS
<1> DEFINE Taken == Acked /\ frozen' = <<>> /\ Self \in rows.servers =>
          /\ \A d \in snapshot.devices :
                \/ seenAt[d] = snapshot.at
                \/ ~Exists(Self, d[2], d[1])
                \/ snapshot.at < time - Day
          /\ \A d \in RowsOf(Self) \ snapshot.devices : seenAt[d] = snapshot.at
<1>1. SnapInv /\ Prompt /\ Linked' /\ [Next]_vars => SnapInv'
  <2> SUFFICES ASSUME SnapInv, Prompt, Linked', [Next]_vars PROVE SnapInv'
      OBVIOUS
  <2>1. CASE UNCHANGED vars
      BY <2>1 DEF vars, agentVars, netVars, panelVars, SnapInv, OwnDevices, Numbered, InFlight,
                  AnswerSound, GoneOnly, Stored, Settled, Known, Dead, RowsOf, Exists
  <2> QED BY <2>1, LoopSnap, HandlerSnap, EnvironmentSnap DEF Next
<1>2. SnapInv => [Taken]_vars
  <2> SUFFICES ASSUME SnapInv, Acked, frozen' = <<>>, Self \in rows.servers PROVE Taken
      OBVIOUS
  <2>1. frozen # <<>> /\ Len(frozen) \in Nat /\ Len(frozen') = Len(frozen) - 1
      BY HeadTyped DEF SnapInv, Linked, AgentTyped, Acked
  <2>2. Len(frozen) = 1
      BY <2>1
  <2>3. frozen[1].seq \in recorded
      BY DEF SnapInv, AnswerSound, Acked
  <2>4. \A d \in snapshot.devices : Settled(d)
      BY <2>1, <2>2, <2>3 DEF SnapInv, Stored
  <2>5. \A d \in RowsOf(Self) : seenAt[d] = snapshot.at
      BY <2>1, <2>3 DEF SnapInv, Stored
  <2> QED BY <2>4, <2>5 DEF Settled
<1> QED BY <1>1, <1>2, SnapInit, LinkedAlways, PTL DEF Spec, SnapshotReplaces
=============================================================================
