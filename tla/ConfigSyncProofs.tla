-------------------------- MODULE ConfigSyncProofs --------------------------
(***************************************************************************)
(* Proofs about ServerConfig and ConfigSync, for any servers, nodes, users,*)
(* settings, length of time, number of mutations and of crashes.           *)
(*                                                                         *)
(* The tables come first.  What a server should run depends on other       *)
(* servers as well: on the exits of its nodes and on the entries that use  *)
(* them as an exit.  The proofs go mutation by mutation: what it leaves    *)
(* alone on a server whose revision it does not bump.                      *)
(*                                                                         *)
(* Then the polls.  A poll reads the tables one by one, after the          *)
(* revision.  So what it has read so far fits the tables for as long as    *)
(* nobody bumps that revision, and a torn answer carries a revision that   *)
(* is out of date already.                                                 *)
(***************************************************************************)
EXTENDS ConfigSync, TLAPS

-----------------------------------------------------------------------------
(* The tables.                                                             *)

Rows ==
  /\ server \in [Servers -> {"active", "disabled", "gone"}]
  /\ node \in [Nodes -> {"unborn", "active", "disabled", "gone"}]
  /\ content \in [Nodes -> Contents] /\ chain \in [Nodes -> Exit]
  /\ status \in [Users -> {"unborn", "active", "blocked", "gone"}]
  /\ expires \in [Users -> Expiries] /\ depleted \in [Users -> BOOLEAN]
  /\ assigned \subseteq Nodes \X Users
Counters ==
  /\ rev \in [Servers -> Nat] /\ checkedAt \in [Servers -> 0 .. MaxTime]
  /\ time \in 0 .. MaxTime /\ ops \in Nat /\ refused \subseteq Servers

\* The foreign keys.
AssignedRefer == \A a \in assigned : NodeRow(a[1]) /\ UserRow(a[2])
NodesRefer    == \A n \in Nodes : NodeRow(n) => server[Home[n]] # "gone"
ChainsRefer   == \A n \in Nodes : chain[n] # NoNode => NodeRow(n) /\ NodeRow(chain[n])

LEMMA TablesParts ==
  /\ TablesOK <=> Rows /\ Counters /\ AssignedRefer /\ NodesRefer /\ ChainsRefer
  /\ TablesOK' <=> Rows' /\ Counters' /\ AssignedRefer' /\ NodesRefer' /\ ChainsRefer'
BY DEF TablesOK, Rows, Counters, AssignedRefer, NodesRefer, ChainsRefer

LEMMA InitTables == Init => TablesOK
<1> SUFFICES ASSUME Init PROVE TablesOK
  OBVIOUS
<1>1. (CHOOSE c \in Contents : TRUE) \in Contents
  BY ContentsAssumption
<1>2. Rows
  BY <1>1, BoundsAssumption DEF Init, Rows, Exit, Expiries
<1>3. Counters
  BY BoundsAssumption DEF Init, Counters
<1>4. AssignedRefer /\ NodesRefer /\ ChainsRefer
  BY DEF Init, AssignedRefer, NodesRefer, ChainsRefer, NodeRow
<1> QED
  BY <1>2, <1>3, <1>4, TablesParts

\* A bump is of the revisions of some servers, by one.
LEMMA BumpIs ==
  ASSUME rev \in [Servers -> Nat], NEW S, Bump(S)
  PROVE  /\ rev' \in [Servers -> Nat]
         /\ \A s \in Servers : rev'[s] >= rev[s] /\ (rev'[s] = rev[s] <=> s \notin S)
BY DEF Bump

LEMMA MutationCounters ==
  ASSUME Counters, Mutation, rev' \in [Servers -> Nat], UNCHANGED <<checkedAt, refused>>
  PROVE  Counters'
BY BoundsAssumption DEF Counters, Mutation

-----------------------------------------------------------------------------
(* Mutations of users leave servers and nodes alone.                       *)
LEMMA UserMutationTables == ASSUME TablesOK, UserMutation PROVE TablesOK'
<1>0. /\ Rows /\ Counters /\ AssignedRefer /\ NodesRefer /\ ChainsRefer
      /\ rev \in [Servers -> Nat]
  BY TablesParts DEF Counters
<1>1. ASSUME NEW u \in Users, NEW ns \in SUBSET Nodes, NEW e \in Expiries, CreateUser(u, ns, e)
      PROVE  TablesOK'
  <2>1. Rows'
    BY <1>0, <1>1 DEF CreateUser, Rows, nodeVars, userVars
  <2>2. Counters'
    BY <1>0, <1>1, BumpIs, MutationCounters DEF CreateUser
  <2>3. AssignedRefer'
    BY <1>0, <1>1 DEF CreateUser, Rows, AssignedRefer, NodeRow, UserRow, nodeVars, userVars
  <2>4. NodesRefer' /\ ChainsRefer'
    BY <1>0, <1>1 DEF CreateUser, Rows, NodesRefer, ChainsRefer, NodeRow, nodeVars, userVars
  <2> QED
    BY <2>1, <2>2, <2>3, <2>4, TablesParts
<1>2. ASSUME NEW u \in Users, NEW ns \in SUBSET Nodes, SetUserNodes(u, ns) PROVE TablesOK'
  <2>1. Rows'
    BY <1>0, <1>2 DEF SetUserNodes, Rows, nodeVars, userVars
  <2>2. Counters'
    BY <1>0, <1>2, BumpIs, MutationCounters DEF SetUserNodes
  <2>3. AssignedRefer'
    BY <1>0, <1>2 DEF SetUserNodes, Rows, AssignedRefer, NodeRow, UserRow, nodeVars, userVars
  <2>4. NodesRefer' /\ ChainsRefer'
    BY <1>0, <1>2 DEF SetUserNodes, Rows, NodesRefer, ChainsRefer, NodeRow, nodeVars, userVars
  <2> QED
    BY <2>1, <2>2, <2>3, <2>4, TablesParts
<1>3. ASSUME NEW u \in Users, NEW st \in {"active", "blocked"},
             NEW e \in Expiries, NEW d \in BOOLEAN, UpdateUser(u, st, e, d) PROVE TablesOK'
  <2>1. Rows'
    BY <1>0, <1>3 DEF UpdateUser, Rows, nodeVars, userVars
  <2>2. Counters'
    BY <1>0, <1>3, BumpIs, MutationCounters DEF UpdateUser
  <2>3. AssignedRefer'
    BY <1>0, <1>3 DEF UpdateUser, Rows, AssignedRefer, NodeRow, UserRow, nodeVars, userVars
  <2>4. NodesRefer' /\ ChainsRefer'
    BY <1>0, <1>3 DEF UpdateUser, Rows, NodesRefer, ChainsRefer, NodeRow, nodeVars, userVars
  <2> QED
    BY <2>1, <2>2, <2>3, <2>4, TablesParts
<1>4. ASSUME NEW u \in Users, DeleteUser(u) PROVE TablesOK'
  <2>1. Rows'
    BY <1>0, <1>4 DEF DeleteUser, Rows, nodeVars, userVars
  <2>2. Counters'
    BY <1>0, <1>4, BumpIs, MutationCounters DEF DeleteUser
  <2>3. AssignedRefer'
    BY <1>0, <1>4 DEF DeleteUser, Rows, AssignedRefer, NodeRow, UserRow, nodeVars, userVars
  <2>4. NodesRefer' /\ ChainsRefer'
    BY <1>0, <1>4 DEF DeleteUser, Rows, NodesRefer, ChainsRefer, NodeRow, nodeVars, userVars
  <2> QED
    BY <2>1, <2>2, <2>3, <2>4, TablesParts
<1>5. ASSUME NEW u \in Users, ResetUserTraffic(u) PROVE TablesOK'
  <2>1. Rows'
    BY <1>0, <1>5 DEF ResetUserTraffic, Rows, nodeVars, userVars
  <2>2. Counters'
    BY <1>0, <1>5, BumpIs, MutationCounters DEF ResetUserTraffic
  <2>3. AssignedRefer'
    BY <1>0, <1>5 DEF ResetUserTraffic, Rows, AssignedRefer, NodeRow, UserRow, nodeVars, userVars
  <2>4. NodesRefer' /\ ChainsRefer'
    BY <1>0, <1>5 DEF ResetUserTraffic, Rows, NodesRefer, ChainsRefer, NodeRow, nodeVars, userVars
  <2> QED
    BY <2>1, <2>2, <2>3, <2>4, TablesParts
<1>6. ASSUME NEW u \in Users, QuotaReached(u) PROVE TablesOK'
  <2>1. Rows'
    BY <1>0, <1>6 DEF QuotaReached, Rows, nodeVars, userVars
  <2>2. Counters'
    BY <1>0, <1>6, BumpIs DEF QuotaReached, Counters
  <2>3. AssignedRefer'
    BY <1>0, <1>6 DEF QuotaReached, Rows, AssignedRefer, NodeRow, UserRow, nodeVars, userVars
  <2>4. NodesRefer' /\ ChainsRefer'
    BY <1>0, <1>6 DEF QuotaReached, Rows, NodesRefer, ChainsRefer, NodeRow, nodeVars, userVars
  <2> QED
    BY <2>1, <2>2, <2>3, <2>4, TablesParts
<1> QED
  BY <1>1, <1>2, <1>3, <1>4, <1>5, <1>6 DEF UserMutation

(* Mutations of nodes leave servers and users alone.                       *)
LEMMA NodeMutationTables == ASSUME TablesOK, NodeMutation PROVE TablesOK'
<1>0. /\ Rows /\ Counters /\ AssignedRefer /\ NodesRefer /\ ChainsRefer
      /\ rev \in [Servers -> Nat]
  BY TablesParts DEF Counters
<1>1. ASSUME NEW n \in Nodes, NEW st \in {"active", "disabled"},
             NEW c \in Contents, NEW x \in Exit, CreateNode(n, st, c, x) PROVE TablesOK'
  <2>1. Rows'
    BY <1>0, <1>1 DEF CreateNode, Rows, nodeVars, userVars
  <2>2. Counters'
    BY <1>0, <1>1, BumpIs, MutationCounters DEF CreateNode
  <2>3. AssignedRefer'
    BY <1>0, <1>1 DEF CreateNode, Rows, AssignedRefer, NodeRow, UserRow, nodeVars, userVars
  <2>4. NodesRefer' /\ ChainsRefer'
    BY <1>0, <1>1 DEF CreateNode, Rows, NodesRefer, ChainsRefer, NodeRow, nodeVars, userVars
  <2> QED
    BY <2>1, <2>2, <2>3, <2>4, TablesParts
<1>2. ASSUME NEW n \in Nodes, NEW st \in {"active", "disabled"},
             NEW c \in Contents, NEW x \in Exit, UpdateNode(n, st, c, x) PROVE TablesOK'
  <2>1. Rows'
    BY <1>0, <1>2 DEF UpdateNode, Rows, nodeVars, userVars
  <2>2. Counters'
    BY <1>0, <1>2, BumpIs, MutationCounters DEF UpdateNode
  <2>3. AssignedRefer'
    BY <1>0, <1>2 DEF UpdateNode, Rows, AssignedRefer, NodeRow, UserRow, nodeVars, userVars
  <2>4. NodesRefer' /\ ChainsRefer'
    BY <1>0, <1>2 DEF UpdateNode, Rows, NodesRefer, ChainsRefer, NodeRow, nodeVars, userVars
  <2> QED
    BY <2>1, <2>2, <2>3, <2>4, TablesParts
<1>3. ASSUME NEW n \in Nodes, DeleteNode(n) PROVE TablesOK'
  <2>1. Rows'
    BY <1>0, <1>3 DEF DeleteNode, Rows, Exit, nodeVars, userVars
  <2>2. Counters'
    BY <1>0, <1>3, BumpIs, MutationCounters DEF DeleteNode
  <2>3. AssignedRefer'
    BY <1>0, <1>3 DEF DeleteNode, Rows, AssignedRefer, NodeRow, UserRow, nodeVars, userVars
  <2>4. NodesRefer' /\ ChainsRefer'
    <3>1. \A m \in Nodes : chain[m] # n
      BY <1>3 DEF DeleteNode, Referencing
    <3> QED
      BY <1>0, <1>3, <3>1 DEF DeleteNode, Rows, NodesRefer, ChainsRefer, NodeRow, Exit,
                              nodeVars, userVars
  <2> QED
    BY <2>1, <2>2, <2>3, <2>4, TablesParts
<1>4. ASSUME NEW n \in Nodes, NEW us \in SUBSET Users, SetNodeUsers(n, us) PROVE TablesOK'
  <2>1. Rows'
    BY <1>0, <1>4 DEF SetNodeUsers, Rows, nodeVars, userVars
  <2>2. Counters'
    BY <1>0, <1>4, BumpIs, MutationCounters DEF SetNodeUsers
  <2>3. AssignedRefer'
    BY <1>0, <1>4 DEF SetNodeUsers, Rows, AssignedRefer, NodeRow, UserRow, nodeVars, userVars
  <2>4. NodesRefer' /\ ChainsRefer'
    BY <1>0, <1>4 DEF SetNodeUsers, Rows, NodesRefer, ChainsRefer, NodeRow, nodeVars, userVars
  <2> QED
    BY <2>1, <2>2, <2>3, <2>4, TablesParts
<1> QED
  BY <1>1, <1>2, <1>3, <1>4 DEF NodeMutation

(* Mutations of servers.                                                   *)
LEMMA ServerMutationTables == ASSUME TablesOK, ServerMutation PROVE TablesOK'
<1>0. /\ Rows /\ Counters /\ AssignedRefer /\ NodesRefer /\ ChainsRefer
      /\ rev \in [Servers -> Nat]
  BY TablesParts DEF Counters
<1>1. ASSUME NEW s \in Servers, NEW st \in {"active", "disabled"}, UpdateServer(s, st)
      PROVE  TablesOK'
  <2>1. Rows'
    BY <1>0, <1>1 DEF UpdateServer, Rows, nodeVars, userVars
  <2>2. Counters'
    BY <1>0, <1>1, BumpIs, MutationCounters DEF UpdateServer
  <2>3. AssignedRefer'
    BY <1>0, <1>1 DEF UpdateServer, Rows, AssignedRefer, NodeRow, UserRow, nodeVars, userVars
  <2>4. NodesRefer' /\ ChainsRefer'
    BY <1>0, <1>1 DEF UpdateServer, Rows, NodesRefer, ChainsRefer, NodeRow, nodeVars, userVars
  <2> QED
    BY <2>1, <2>2, <2>3, <2>4, TablesParts
<1>2. ASSUME NEW s \in Servers, DeleteServer(s) PROVE TablesOK'
  <2> DEFINE own == {n \in Nodes : NodeRow(n) /\ Home[n] = s}
  <2> DEFINE cut == {m \in Nodes : chain[m] \in own}
  <2> DEFINE bumped == {Home[m] : m \in cut}
  <2>1. CASE UNCHANGED <<tables, rev, checkedAt>> /\ refused' = refused \cup {s} /\ Mutation
    <3>1. Counters'
      BY <1>0, <2>1 DEF Counters, Mutation
    <3> QED
      BY <1>0, <2>1, <3>1, TablesParts
         DEF tables, nodeVars, userVars, Rows, AssignedRefer, NodesRefer, ChainsRefer,
             NodeRow, UserRow
  <2>2. CASE /\ Mutation
             /\ server' = [server EXCEPT ![s] = "gone"]
             /\ node' = [n \in Nodes |-> IF n \in own THEN "gone" ELSE node[n]]
             /\ chain' = [m \in Nodes |-> IF m \in own \cup cut THEN NoNode ELSE chain[m]]
             /\ assigned' = {a \in assigned : a[1] \notin own}
             /\ rev' = [t \in Servers |->
                           IF t = s THEN 0
                           ELSE IF t \in bumped THEN rev[t] + 1 ELSE rev[t]]
             /\ checkedAt' = [checkedAt EXCEPT ![s] = 0]
             /\ UNCHANGED <<content, userVars, refused>>
    <3> HIDE DEF own, cut, bumped
    <3>1. Rows'
      BY <1>0, <2>2 DEF Rows, Exit, userVars
    <3>2. Counters'
      BY <1>0, <2>2, BoundsAssumption DEF Counters, Mutation
    <3>3. AssignedRefer'
      BY <1>0, <2>2 DEF Rows, AssignedRefer, NodeRow, UserRow, userVars
    <3>4. NodesRefer'
      BY <1>0, <2>2, HomeAssumption DEF Rows, NodesRefer, NodeRow, own
    <3>5. ChainsRefer'
      BY <1>0, <2>2, HomeAssumption DEF Rows, Exit, ChainsRefer, NodeRow, own, cut
    <3> QED
      BY <3>1, <3>2, <3>3, <3>4, <3>5, TablesParts
  <2> QED
    BY <1>2, <2>1, <2>2 DEF DeleteServer
<1> QED
  BY <1>1, <1>2 DEF ServerMutation

LEMMA ReconcileTables ==
  ASSUME TablesOK, NEW s \in Servers, NEW now \in 0 .. time, ReconcileServerExpiry(s, now)
  PROVE  TablesOK'
<1>0. Rows /\ Counters /\ AssignedRefer /\ NodesRefer /\ ChainsRefer
  BY TablesParts
<1>1. UNCHANGED <<tables, time, ops, refused>>
  BY DEF ReconcileServerExpiry
<1>2. Counters'
  <2>1. rev \in [Servers -> Nat] /\ now \in 0 .. MaxTime
    BY <1>0, BoundsAssumption DEF Counters
  <2>2. rev' \in [Servers -> Nat]
    BY <2>1, BumpIs DEF ReconcileServerExpiry
  <2> QED
    BY <1>0, <1>1, <2>1, <2>2 DEF ReconcileServerExpiry, Counters
<1> QED
  BY <1>0, <1>1, <1>2, TablesParts
     DEF tables, nodeVars, userVars, Rows, AssignedRefer, NodesRefer, ChainsRefer, NodeRow, UserRow

LEMMA NextTables == TablesOK /\ [Next]_panel => TablesOK'
<1> SUFFICES ASSUME TablesOK, [Next]_panel PROVE TablesOK'
  OBVIOUS
<1>0. Rows /\ Counters /\ AssignedRefer /\ NodesRefer /\ ChainsRefer
  BY TablesParts
<1>1. CASE Mutate
  BY <1>1, UserMutationTables, NodeMutationTables, ServerMutationTables DEF Mutate
<1>2. CASE \E s \in Servers, now \in 0 .. time : ReconcileServerExpiry(s, now)
  BY <1>2, ReconcileTables
<1>3. CASE Tick \/ UNCHANGED panel
  <2>1. Counters'
    BY <1>0, <1>3, BoundsAssumption DEF Counters, Tick, panel
  <2> QED
    BY <1>0, <1>3, <2>1, TablesParts
       DEF Tick, panel, tables, nodeVars, userVars, Rows, AssignedRefer, NodesRefer, ChainsRefer,
           NodeRow, UserRow
<1> QED
  BY <1>1, <1>2, <1>3 DEF Next

\* Every column keeps its type and every row refers to rows that exist: the
\* mutations do by their order and guards what the foreign keys demand
\* (internal/repo/mutations.go).
THEOREM TablesSound == Spec => []TablesOK
BY InitTables, NextTables, PTL DEF Spec
-----------------------------------------------------------------------------
(* What a mutation leaves alone on a server that it does not bump.         *)

Entries(s) == {e \in Nodes : node[e] = "active" /\ chain[e] \in ActiveOn(s)}

KeepsNodes(s) ==
  /\ ActiveOn(s)' = ActiveOn(s)
  /\ \A n \in ActiveOn(s) : content'[n] = content[n] /\ chain'[n] = chain[n]
KeepsExits(s) ==
  \A n \in ActiveOn(s) : chain[n] # NoNode =>
    /\ node'[chain[n]] = "active" <=> node[chain[n]] = "active"
    /\ node[chain[n]] = "active" => content'[chain[n]] = content[chain[n]]
KeepsRelays(s) ==
  /\ Entries(s)' = Entries(s)
  /\ \A e \in Entries(s) : chain'[e] = chain[e]
KeepsGrants(s) ==
  \A a \in Nodes \X Users : Home[a[1]] = s => (a \in assigned' <=> a \in assigned)

\* The traffic of a user who is not eligible any more reaches the quota unseen.
KeepsUsers(s) ==
  \A a \in assigned : Home[a[1]] = s =>
    /\ status'[a[2]] = status[a[2]] /\ expires'[a[2]] = expires[a[2]]
    /\ \/ depleted'[a[2]] = depleted[a[2]]
       \/ depleted'[a[2]] /\ ~Eligible(a[2], time)

Keeps(s) == KeepsNodes(s) /\ KeepsExits(s) /\ KeepsRelays(s) /\ KeepsGrants(s) /\ KeepsUsers(s)

LEMMA NodesUnchanged == ASSUME NEW s \in Servers, UNCHANGED nodeVars
  PROVE  KeepsNodes(s) /\ KeepsExits(s) /\ KeepsRelays(s)
BY DEF nodeVars, KeepsNodes, KeepsExits, KeepsRelays, Entries, ActiveOn

LEMMA UsersUnchanged == ASSUME NEW s \in Servers, UNCHANGED userVars PROVE KeepsUsers(s)
BY DEF userVars, KeepsUsers

\* A user who is assigned to a node of s makes s one of the user's servers.
LEMMA AssignedServer ==
  ASSUME NEW a \in assigned, NEW s, Home[a[1]] = s PROVE s \in ServersOf(a[2])
BY DEF ServersOf

LEMMA UserMutationKeeps ==
  ASSUME TablesOK, UserMutation, NEW s \in Servers, rev'[s] = rev[s]
  PROVE  Keeps(s)
<1>0. Rows /\ rev \in [Servers -> Nat]
  BY TablesParts DEF Counters
<1>1. ASSUME NEW u \in Users, NEW ns \in SUBSET Nodes, NEW e \in Expiries, CreateUser(u, ns, e)
      PROVE  Keeps(s)
  <2>1. s \notin {Home[n] : n \in ns}
    BY <1>0, <1>1, BumpIs DEF CreateUser
  <2>2. KeepsGrants(s)
    BY <1>1, <2>1 DEF CreateUser, KeepsGrants
  <2>3. KeepsUsers(s)
    <3>1. \A a \in assigned : a[2] # u
      BY <1>1, TablesParts DEF AssignedRefer, UserRow, CreateUser
    <3> QED
      BY <1>0, <1>1, <3>1 DEF CreateUser, KeepsUsers, Rows
  <2> QED
    BY <1>1, <2>2, <2>3, NodesUnchanged DEF CreateUser, Keeps
<1>2. ASSUME NEW u \in Users, NEW ns \in SUBSET Nodes, SetUserNodes(u, ns) PROVE Keeps(s)
  <2>1. s \notin ServersOf(u) /\ s \notin {Home[n] : n \in ns}
    BY <1>0, <1>2, BumpIs DEF SetUserNodes
  <2>2. KeepsGrants(s)
    BY <1>2, <2>1, AssignedServer DEF SetUserNodes, KeepsGrants
  <2> QED
    BY <1>2, <2>2, NodesUnchanged, UsersUnchanged DEF SetUserNodes, Keeps
<1>3. ASSUME NEW u \in Users, NEW st, NEW e, NEW d, UpdateUser(u, st, e, d) PROVE Keeps(s)
  <2>1. s \notin ServersOf(u)
    BY <1>0, <1>3, BumpIs DEF UpdateUser
  <2>2. KeepsUsers(s)
    BY <1>0, <1>3, <2>1, AssignedServer DEF UpdateUser, KeepsUsers, Rows
  <2>3. KeepsGrants(s)
    BY <1>3 DEF UpdateUser, KeepsGrants
  <2> QED
    BY <1>3, <2>2, <2>3, NodesUnchanged DEF UpdateUser, Keeps
<1>4. ASSUME NEW u \in Users, DeleteUser(u) PROVE Keeps(s)
  <2>1. s \notin ServersOf(u)
    BY <1>0, <1>4, BumpIs DEF DeleteUser
  <2>2. KeepsUsers(s)
    BY <1>0, <1>4, <2>1, AssignedServer DEF DeleteUser, KeepsUsers, Rows
  <2>3. KeepsGrants(s)
    BY <1>4, <2>1, AssignedServer DEF DeleteUser, KeepsGrants
  <2> QED
    BY <1>4, <2>2, <2>3, NodesUnchanged DEF DeleteUser, Keeps
<1>5. ASSUME NEW u \in Users, ResetUserTraffic(u) PROVE Keeps(s)
  <2>1. s \notin ServersOf(u)
    BY <1>0, <1>5, BumpIs DEF ResetUserTraffic
  <2>2. KeepsUsers(s)
    BY <1>0, <1>5, <2>1, AssignedServer DEF ResetUserTraffic, KeepsUsers, Rows
  <2>3. KeepsGrants(s)
    BY <1>5 DEF ResetUserTraffic, KeepsGrants
  <2> QED
    BY <1>5, <2>2, <2>3, NodesUnchanged DEF ResetUserTraffic, Keeps
<1>6. ASSUME NEW u \in Users, QuotaReached(u) PROVE Keeps(s)
  <2>1. s \notin ServersOf(u) \/ ~Eligible(u, time)
    BY <1>0, <1>6, BumpIs DEF QuotaReached
  <2>2. KeepsUsers(s)
    BY <1>0, <1>6, <2>1, AssignedServer DEF QuotaReached, KeepsUsers, Rows
  <2>3. KeepsGrants(s)
    BY <1>6 DEF QuotaReached, KeepsGrants
  <2> QED
    BY <1>6, <2>2, <2>3, NodesUnchanged DEF QuotaReached, Keeps
<1> QED
  BY <1>1, <1>2, <1>3, <1>4, <1>5, <1>6 DEF UserMutation

\* The row of one node n is written, in a transaction that bumps n's server,
\* those of its exits before and after, and those that have it as an exit.
WritesNode(n, B) ==
  /\ \A m \in Nodes : m # n =>
       node'[m] = node[m] /\ content'[m] = content[m] /\ chain'[m] = chain[m]
  /\ chain'[n] \in Exit
  /\ {Home[n]} \cup ExitServer(n) \cup ExitServer(n)' \cup Referencing(n) \subseteq B

LEMMA WriteKeeps ==
  ASSUME Rows, NEW n \in Nodes, NEW B, WritesNode(n, B), NEW s \in Servers, s \notin B
  PROVE  KeepsNodes(s) /\ KeepsExits(s) /\ KeepsRelays(s)
<1>1. Home[n] # s
  BY DEF WritesNode
<1>2. KeepsNodes(s)
  BY <1>1 DEF WritesNode, KeepsNodes, ActiveOn
<1>3. \A m \in Nodes : Home[m] = s => chain[m] # n
  BY DEF WritesNode, Referencing
<1>4. KeepsExits(s)
  BY <1>3 DEF WritesNode, KeepsExits, ActiveOn, Rows, Exit
<1>5. chain[n] \notin ActiveOn(s) /\ chain'[n] \notin ActiveOn(s)
  BY HomeAssumption DEF WritesNode, ExitServer, ActiveOn, Rows, Exit
<1>6. ActiveOn(s)' = ActiveOn(s)
  BY <1>2 DEF KeepsNodes
<1>7. KeepsRelays(s)
  <2>1. \A e \in Nodes : e \in Entries(s) => e # n
    BY <1>5 DEF Entries
  <2>2. \A e \in Nodes : node'[e] = "active" /\ chain'[e] \in ActiveOn(s) <=> e \in Entries(s)
    BY <1>5, <2>1 DEF WritesNode, Entries
  <2>3. Entries(s)' = {e \in Nodes : node'[e] = "active" /\ chain'[e] \in ActiveOn(s)}
    BY <1>6 DEF Entries
  <2>4. Entries(s) \subseteq Nodes
    BY DEF Entries
  <2> QED
    BY <2>1, <2>2, <2>3, <2>4 DEF KeepsRelays, WritesNode
<1> QED
  BY <1>2, <1>4, <1>7

LEMMA NodeMutationKeeps ==
  ASSUME TablesOK, NodeMutation, NEW s \in Servers, rev'[s] = rev[s]
  PROVE  Keeps(s)
<1>0. Rows /\ ChainsRefer /\ rev \in [Servers -> Nat]
  BY TablesParts DEF Counters
<1>1. ASSUME NEW n \in Nodes, NEW st, NEW c, NEW x \in Exit, CreateNode(n, st, c, x) PROVE Keeps(s)
  <2> DEFINE B == {Home[n]} \cup (IF x = NoNode THEN {} ELSE {Home[x]})
  <2>1. s \notin B
    BY <1>0, <1>1, BumpIs DEF CreateNode
  <2>2. WritesNode(n, B)
    <3>1. chain[n] = NoNode /\ \A m \in Nodes : chain[m] # n
      BY <1>0, <1>1, HomeAssumption DEF CreateNode, ChainsRefer, NodeRow
    <3> QED
      BY <1>0, <1>1, <3>1 DEF CreateNode, WritesNode, ExitServer, Referencing, Rows
  <2> HIDE DEF B
  <2>3. KeepsNodes(s) /\ KeepsExits(s) /\ KeepsRelays(s)
    BY <1>0, <2>1, <2>2, WriteKeeps
  <2> QED
    BY <1>1, <2>3, UsersUnchanged DEF CreateNode, Keeps, KeepsGrants
<1>2. ASSUME NEW n \in Nodes, NEW st, NEW c, NEW x \in Exit, UpdateNode(n, st, c, x) PROVE Keeps(s)
  <2> DEFINE B == {Home[n]} \cup ExitServer(n) \cup Referencing(n)
                    \cup (IF x = NoNode THEN {} ELSE {Home[x]})
  <2>1. s \notin B
    BY <1>0, <1>2, BumpIs DEF UpdateNode
  <2>2. WritesNode(n, B)
    BY <1>0, <1>2 DEF UpdateNode, WritesNode, ExitServer, Rows
  <2> HIDE DEF B
  <2>3. KeepsNodes(s) /\ KeepsExits(s) /\ KeepsRelays(s)
    BY <1>0, <2>1, <2>2, WriteKeeps
  <2> QED
    BY <1>2, <2>3, UsersUnchanged DEF UpdateNode, Keeps, KeepsGrants
<1>3. ASSUME NEW n \in Nodes, DeleteNode(n) PROVE Keeps(s)
  <2> DEFINE B == {Home[n]} \cup ExitServer(n)
  <2>1. s \notin B
    BY <1>0, <1>3, BumpIs DEF DeleteNode
  <2>2. WritesNode(n, B)
    BY <1>0, <1>3 DEF DeleteNode, WritesNode, ExitServer, Rows, Exit
  <2>3. Home[n] # s
    BY <2>1
  <2> HIDE DEF B
  <2>4. KeepsNodes(s) /\ KeepsExits(s) /\ KeepsRelays(s)
    BY <1>0, <2>1, <2>2, WriteKeeps
  <2> QED
    BY <1>3, <2>3, <2>4, UsersUnchanged DEF DeleteNode, Keeps, KeepsGrants
<1>4. ASSUME NEW n \in Nodes, NEW us \in SUBSET Users, SetNodeUsers(n, us) PROVE Keeps(s)
  <2>1. s # Home[n] \/ assigned' = assigned
    BY <1>0, <1>4, BumpIs DEF SetNodeUsers
  <2>2. KeepsGrants(s)
    BY <1>4, <2>1 DEF SetNodeUsers, KeepsGrants
  <2> QED
    BY <1>4, <2>2, NodesUnchanged, UsersUnchanged DEF SetNodeUsers, Keeps
<1> QED
  BY <1>1, <1>2, <1>3, <1>4 DEF NodeMutation

\* The relay users of a deleted server are taken off the exit servers only if
\* its entry nodes were unlinked before.
LEMMA ServerMutationKeeps ==
  ASSUME TablesOK, ServerMutation, UnlinksFirst,
         NEW s \in Servers, server'[s] # "gone", rev'[s] = rev[s]
  PROVE  Keeps(s)
<1>0. Rows /\ ChainsRefer /\ rev \in [Servers -> Nat]
  BY TablesParts DEF Counters
<1>1. CASE UNCHANGED <<nodeVars, userVars, assigned>>
  BY <1>1, NodesUnchanged, UsersUnchanged DEF Keeps, KeepsGrants
<1>2. ASSUME NEW d \in Servers, DeleteServer(d), ~UNCHANGED <<nodeVars, userVars, assigned>>
      PROVE  Keeps(s)
  <2> DEFINE own == {n \in Nodes : NodeRow(n) /\ Home[n] = d}
  <2> DEFINE cut == {m \in Nodes : chain[m] \in own}
  <2> DEFINE bumped == {Home[m] : m \in cut}
  <2>1. /\ server' = [server EXCEPT ![d] = "gone"]
        /\ node' = [n \in Nodes |-> IF n \in own THEN "gone" ELSE node[n]]
        /\ chain' = [m \in Nodes |-> IF m \in own \cup cut THEN NoNode ELSE chain[m]]
        /\ assigned' = {a \in assigned : a[1] \notin own}
        /\ rev' = [t \in Servers |->
                      IF t = d THEN 0 ELSE IF t \in bumped THEN rev[t] + 1 ELSE rev[t]]
        /\ UNCHANGED <<content, userVars>>
        /\ \A n \in own : ExitServer(n) \subseteq {d}
    BY <1>2 DEF DeleteServer, tables
  <2>2. s # d /\ s \notin bumped
    BY <1>0, <2>1 DEF Rows
  <2>3. \A n \in own : Home[n] # s /\ (chain[n] # NoNode => Home[chain[n]] # s)
    BY <2>1, <2>2 DEF ExitServer
  <2>4. \A m \in cut : Home[m] # s
    BY <2>2
  <2>5. \A m \in cut : Home[chain[m]] # s
    BY <2>2
  <2>6. own \subseteq Nodes /\ cut \subseteq Nodes
    OBVIOUS
  <2>7. \A m \in Nodes : chain[m] \in own <=> m \in cut
    OBVIOUS
  <2> HIDE DEF own, cut, bumped
  <2>8. KeepsNodes(s)
    BY <2>1, <2>3, <2>4 DEF KeepsNodes, ActiveOn
  <2>9. KeepsExits(s)
    <3>1. ASSUME NEW n \in ActiveOn(s), chain[n] # NoNode
          PROVE  node'[chain[n]] = node[chain[n]] /\ content' = content
      <4>1. n \in Nodes /\ chain[n] \in Nodes /\ chain[n] \notin own
        BY <1>0, <2>4, <2>7, <3>1 DEF ActiveOn, Rows, Exit
      <4> QED
        BY <2>1, <4>1
    <3> QED
      BY <3>1 DEF KeepsExits
  <2>10. KeepsRelays(s)
    <3>1. ActiveOn(s)' = ActiveOn(s)
      BY <2>8 DEF KeepsNodes
    <3>2. \A e \in Entries(s) : e \in Nodes /\ e \notin own /\ e \notin cut
      BY <2>3, <2>5, HomeAssumption DEF Entries, ActiveOn
    <3>3. NoNode \notin ActiveOn(s)
      BY HomeAssumption DEF ActiveOn
    <3>4. \A e \in Nodes : e \in Entries(s)' <=> e \in Entries(s)
      BY <2>1, <3>1, <3>2, <3>3 DEF Entries
    <3> QED
      BY <2>1, <3>2, <3>4 DEF KeepsRelays, Entries
  <2>11. KeepsGrants(s)
    BY <2>1, <2>3 DEF KeepsGrants
  <2> QED
    BY <2>1, <2>8, <2>9, <2>10, <2>11, UsersUnchanged DEF Keeps
<1> QED
  BY <1>1, <1>2 DEF ServerMutation, UpdateServer

LEMMA MutateKeeps ==
  ASSUME TablesOK, Mutate, UnlinksFirst, NEW s \in Servers, server'[s] # "gone", rev'[s] = rev[s]
  PROVE  Keeps(s)
BY UserMutationKeeps, NodeMutationKeeps, ServerMutationKeeps DEF Mutate

\* A revision never goes back as long as the server is there.
LEMMA RevisionsGrow ==
  ASSUME TablesOK, Mutate, NEW s \in Servers, server'[s] # "gone"
  PROVE  rev'[s] >= rev[s] /\ rev'[s] \in Nat
<1>0. rev \in [Servers -> Nat] /\ server \in [Servers -> {"active", "disabled", "gone"}]
  BY TablesParts DEF Rows, Counters
<1>1. CASE \E S : Bump(S)
  BY <1>0, <1>1, BumpIs
<1>2. CASE rev' = rev
  BY <1>0, <1>2
<1>3. ASSUME NEW d \in Servers, DeleteServer(d), rev' # rev
      PROVE  rev'[s] >= rev[s] /\ rev'[s] \in Nat
  <2>1. s # d
    BY <1>0, <1>3 DEF DeleteServer
  <2> QED
    BY <1>0, <1>3, <2>1 DEF DeleteServer
<1>4. CASE UserMutation
  <2>1. ASSUME NEW u, NEW ns, NEW e, CreateUser(u, ns, e) PROVE \E S : Bump(S)
    BY <2>1, Zenon DEF CreateUser
  <2>2. ASSUME NEW u, NEW ns, SetUserNodes(u, ns) PROVE \E S : Bump(S)
    BY <2>2, Zenon DEF SetUserNodes
  <2>3. ASSUME NEW u, NEW st, NEW e, NEW d, UpdateUser(u, st, e, d) PROVE \E S : Bump(S)
    BY <2>3, Zenon DEF UpdateUser
  <2>4. ASSUME NEW u, DeleteUser(u) PROVE \E S : Bump(S)
    BY <2>4, Zenon DEF DeleteUser
  <2>5. ASSUME NEW u, ResetUserTraffic(u) PROVE \E S : Bump(S)
    BY <2>5, Zenon DEF ResetUserTraffic
  <2>6. ASSUME NEW u, QuotaReached(u) PROVE \E S : Bump(S)
    BY <2>6, Zenon DEF QuotaReached
  <2> QED
    BY <1>1, <1>4, <2>1, <2>2, <2>3, <2>4, <2>5, <2>6, Zenon DEF UserMutation
<1>5. CASE NodeMutation
  <2>1. ASSUME NEW n, NEW st, NEW c, NEW x, CreateNode(n, st, c, x) PROVE \E S : Bump(S)
    BY <2>1, Zenon DEF CreateNode
  <2>2. ASSUME NEW n, NEW st, NEW c, NEW x, UpdateNode(n, st, c, x) PROVE \E S : Bump(S)
    BY <2>2, Zenon DEF UpdateNode
  <2>3. ASSUME NEW n, DeleteNode(n) PROVE \E S : Bump(S)
    BY <2>3, Zenon DEF DeleteNode
  <2>4. ASSUME NEW n, NEW us, SetNodeUsers(n, us) PROVE \E S : Bump(S)
    BY <2>4, Zenon DEF SetNodeUsers
  <2> QED
    BY <1>1, <1>5, <2>1, <2>2, <2>3, <2>4, Zenon DEF NodeMutation
<1>6. CASE ServerMutation
  BY <1>1, <1>2, <1>3, <1>6 DEF ServerMutation, UpdateServer
<1> QED
  BY <1>4, <1>5, <1>6 DEF Mutate

-----------------------------------------------------------------------------
(* What a server should run, from now on.                                  *)
LEMMA KeptRender ==
  ASSUME TablesOK, NEW s \in Servers, Keeps(s), NEW t \in time .. MaxTime,
         assigned' \subseteq Nodes \X Users
  PROVE  Render(s, t)' = Render(s, t)
<1>0. Rows /\ time \in 0 .. MaxTime
  BY TablesParts DEF Counters
<1>1. /\ ActiveOn(s)' = ActiveOn(s) /\ ActiveOn(s) \subseteq Nodes
      /\ \A n \in ActiveOn(s) : Home[n] = s /\ content'[n] = content[n] /\ chain'[n] = chain[n]
  BY DEF Keeps, KeepsNodes, ActiveOn
<1>2. Inbounds(s)' = Inbounds(s)
  BY <1>1 DEF Inbounds
<1>3. Exits(s)' = Exits(s)
  <2> DEFINE E  == {m \in ActiveOn(s) : chain[m] # NoNode /\ node[chain[m]] = "active"}
  <2> DEFINE EN == {m \in ActiveOn(s) : chain'[m] # NoNode /\ node'[chain'[m]] = "active"}
  <2>1. E = EN
    BY <1>1 DEF Keeps, KeepsExits
  <2>2. \A n \in E : chain'[n] = chain[n] /\ content'[chain[n]] = content[chain[n]]
    BY <1>1 DEF Keeps, KeepsExits
  <2>3. Exits(s)  = {<<n, chain[n], content[chain[n]]>> : n \in E}
    BY DEF Exits
  <2>4. Exits(s)' = {<<n, chain'[n], content'[chain'[n]]>> : n \in EN}
    BY <1>1 DEF Exits
  <2> HIDE DEF E, EN
  <2> QED
    BY <2>1, <2>2, <2>3, <2>4
<1>4. Relays(s)' = Relays(s)
  <2>1. Relays(s) = {<<chain[e], Home[e]>> : e \in Entries(s)}
    BY DEF Relays, Entries
  <2>2. Relays(s)' = {<<chain'[e], Home[e]>> : e \in Entries(s)'}
    BY DEF Relays, Entries
  <2> QED
    BY <2>1, <2>2 DEF Keeps, KeepsRelays
<1>5. Accounts(s, t)' = Accounts(s, t)
  <2>1. ASSUME NEW a \in assigned, Home[a[1]] = s PROVE Eligible(a[2], t)' <=> Eligible(a[2], t)
    <3>1. a[2] \in Users /\ expires[a[2]] \in 0 .. MaxTime + 1
      BY <1>0, <2>1 DEF Rows, Expiries
    <3> QED
      BY <1>0, <2>1, <3>1 DEF Keeps, KeepsUsers, Eligible
  <2>2. \A a \in Nodes \X Users : a[1] \in ActiveOn(s) => (a \in assigned' <=> a \in assigned)
    BY <1>1 DEF Keeps, KeepsGrants
  <2>3. Accounts(s, t)' = {a \in assigned' : a[1] \in ActiveOn(s) /\ Eligible(a[2], t)'}
    BY <1>1 DEF Accounts
  <2> QED
    BY <1>0, <1>1, <2>1, <2>2, <2>3 DEF Accounts, Rows
<1> QED
  BY <1>2, <1>3, <1>4, <1>5 DEF Render

LEMMA TablesUnchanged ==
  ASSUME UNCHANGED tables, NEW s, NEW t PROVE Render(s, t)' = Render(s, t)
BY DEF tables, nodeVars, userVars, Render, Inbounds, Accounts, Exits, Relays, ActiveOn, Eligible

\* A mutation that changes what a server should run, now or later, bumps the
\* server's revision in the same transaction, if a server's entry nodes are
\* unlinked before it is deleted (internal/repo/mutations.go).
THEOREM ChangesBump == UnlinksFirst => (Spec => RenderChangeBumps)
<1> SUFFICES ASSUME UnlinksFirst PROVE Spec => RenderChangeBumps
  OBVIOUS
<1> DEFINE Step == \A s \in Servers : server'[s] # "gone" =>
                     \A t \in time .. MaxTime : Render(s, t)' # Render(s, t) => rev'[s] > rev[s]
<1>1. TablesOK /\ [Next]_panel => Step
  <2> SUFFICES ASSUME TablesOK, [Next]_panel, NEW s \in Servers, server'[s] # "gone",
                      NEW t \in time .. MaxTime, Render(s, t)' # Render(s, t)
               PROVE  rev'[s] > rev[s]
    OBVIOUS
  <2>1. Mutate
    BY TablesUnchanged DEF Next, ReconcileServerExpiry, Tick, panel
  <2>2. rev[s] \in Nat /\ rev'[s] \in Nat /\ rev'[s] >= rev[s]
    BY <2>1, RevisionsGrow, TablesParts DEF Counters
  <2>3. assigned' \subseteq Nodes \X Users
    BY NextTables, TablesParts DEF Rows
  <2>4. rev'[s] # rev[s]
    BY <2>1, <2>3, MutateKeeps, KeptRender
  <2> QED
    BY <2>2, <2>4
<1>2. Spec => [][Step]_panel
  BY <1>1, TablesSound, PTL DEF Spec
<1> QED
  BY <1>2 DEF RenderChangeBumps

\* A reconciliation looks at everybody who expired since the last one.
LEMMA NotDueRender ==
  ASSUME TablesOK, NEW s \in Servers, NEW now \in Int, checkedAt[s] <= now, ~Due(s, now)
  PROVE  Render(s, now) = Render(s, checkedAt[s])
<1>1. ASSUME NEW a \in assigned, Home[a[1]] = s
      PROVE  Eligible(a[2], now) <=> Eligible(a[2], checkedAt[s])
  <2>1. expires[a[2]] \in Int /\ checkedAt[s] \in Int
    BY TablesParts, BoundsAssumption DEF Rows, Counters, Expiries
  <2> QED
    BY <1>1, <2>1 DEF Due, Eligible
<1>2. Accounts(s, now) = Accounts(s, checkedAt[s])
  BY <1>1 DEF Accounts, ActiveOn
<1> QED
  BY <1>2 DEF Render

\* A poll that moves the watermark over an expiry bumps the revision, whatever
\* else happened to the user (internal/repo/revisions.go).
THEOREM ExpiriesBump == Spec => ExpiryBumps
<1> DEFINE Step == \A s \in Servers, now \in 0 .. MaxTime :
                     server'[s] # "gone" /\ checkedAt[s] < now /\ checkedAt'[s] = now =>
                       \/ Render(s, now) = Render(s, checkedAt[s])
                       \/ rev'[s] > rev[s]
<1>1. TablesOK /\ [Next]_panel => Step
  <2> SUFFICES ASSUME TablesOK, [Next]_panel, NEW s \in Servers, NEW now \in 0 .. MaxTime,
                      server'[s] # "gone", checkedAt[s] < now, checkedAt'[s] = now
               PROVE  Render(s, now) = Render(s, checkedAt[s]) \/ rev'[s] > rev[s]
    OBVIOUS
  <2>0. /\ rev \in [Servers -> Nat] /\ checkedAt \in [Servers -> 0 .. MaxTime]
        /\ server \in [Servers -> {"active", "disabled", "gone"}]
    BY TablesParts DEF Rows, Counters
  <2>1. PICK d \in Servers, at \in 0 .. time :
          ReconcileServerExpiry(d, at) /\ checkedAt' # checkedAt
    <3>1. checkedAt' # checkedAt
      BY <2>0, BoundsAssumption
    <3>2. ~(\E d \in Servers : DeleteServer(d))
      <4>1. ASSUME NEW d \in Servers, DeleteServer(d)
            PROVE  /\ checkedAt' = [checkedAt EXCEPT ![d] = 0]
                   /\ server' = [server EXCEPT ![d] = "gone"]
        BY <3>1, <4>1 DEF DeleteServer
      <4> QED
        BY <2>0, <4>1, BoundsAssumption
    <3> QED
      BY <3>1, <3>2, ZenonT(60)
         DEF Next, panel, Tick, Mutate, UserMutation, NodeMutation, ServerMutation, CreateUser,
             SetUserNodes, UpdateUser, DeleteUser, ResetUserTraffic, QuotaReached, CreateNode,
             UpdateNode, DeleteNode, SetNodeUsers, UpdateServer
  <2>2. d = s /\ at = now /\ Bump(IF Due(s, now) THEN {s} ELSE {})
    BY <2>0, <2>1, BoundsAssumption DEF ReconcileServerExpiry
  <2>3. CASE Due(s, now)
    BY <2>0, <2>2, <2>3 DEF Bump
  <2>4. CASE ~Due(s, now)
    BY <2>0, <2>4, NotDueRender, BoundsAssumption
  <2> QED
    BY <2>3, <2>4
<1>2. Spec => [][Step]_panel
  BY <1>1, TablesSound, PTL DEF Spec
<1> QED
  BY <1>2 DEF ExpiryBumps

-----------------------------------------------------------------------------
(* The inductive invariant.                                                *)

\* From the watermark on, time and traffic take users away without a bump:
\* who expired until now may be out of quota as well, unnoticed.
Watermark == checkedAt[Self]
MayBeServed(u) ==
  status[u] = "active" /\ expires[u] > Watermark /\ (depleted[u] => expires[u] <= time)

\* The accounts A of the users read so far, while those of U are still to come.
AccountsFit(A, U) ==
  /\ \A a \in Accounts(Self, Watermark) : a \in A \/ a[2] \in U
  /\ \A a \in A : a \in assigned /\ a[1] \in ActiveOn(Self) /\ MayBeServed(a[2])
UsersFit(U) == \A u \in U : Self \in ServersOf(u) /\ MayBeServed(u)

\* The configuration of an agent that the panel calls "current".
Current(revision) == server[Self] # "gone" /\ revision = rev[Self]
ConfigFits(c) ==
  /\ c.inbounds = Inbounds(Self) /\ c.exits = Exits(Self) /\ c.relays = Relays(Self)
  /\ AccountsFit(c.accounts, {})
ConfigCurrent == ~forceApply /\ Current(applied) => ConfigFits(config)

\* What a poll has read, stage by stage.
FromNodes     == {"nodes", "users", "user_nodes", "exits", "relays", "answered"}
FromUsers     == FromNodes \ {"nodes"}
FromUserNodes == FromUsers \ {"users"}
FromExits     == FromUserNodes \ {"user_nodes"}
FromRelays    == FromExits \ {"exits"}

NodeExits == {<<n, chain[n]>> : n \in ActiveOn(Self)}
NodesRead ==
  /\ poll.active = NodeExits
  /\ poll.payload.inbounds = Inbounds(Self)
PollFits ==
  poll.stage \in FromNodes /\ Current(poll.revision) =>
    /\ poll.stage \in FromUsers => NodesRead
    /\ poll.stage \in FromUserNodes =>
         UsersFit(poll.eligible) /\ AccountsFit(poll.payload.accounts, poll.eligible)
    /\ poll.stage \in FromExits => poll.eligible = {}
    /\ poll.stage \in FromRelays => poll.payload.exits = Exits(Self)
    /\ poll.stage = "answered" => poll.payload.relays = Relays(Self)

\* Revisions and instants only grow; a poll is about a newer revision than the
\* agent's, and nobody moves the watermark past the instant it is about.
Ordered ==
  /\ Watermark <= time
  /\ server[Self] # "gone" => applied <= rev[Self]
  /\ poll.stage \in {"asked", "checked"} /\ ~forceApply => poll.version = applied
  /\ poll.stage = "checked" => Watermark <= poll.now
  /\ poll.stage \in FromNodes /\ server[Self] # "gone" =>
       /\ Watermark = poll.now
       /\ poll.revision <= rev[Self]
       /\ ~forceApply => applied < poll.revision

\* Types, with every field of a poll.
Polls == [stage : Stages, version : Nat, now : 0 .. MaxTime, revision : Nat,
          active : SUBSET (Nodes \X Exit), eligible : SUBSET Users, payload : Configs]
Typed ==
  /\ applied \in Nat /\ forceApply \in BOOLEAN /\ crashes \in Nat
  /\ config \in Configs /\ last \in Configs /\ poll \in Polls /\ poll.now <= time

Fits == TablesOK /\ Typed /\ Ordered /\ ConfigCurrent /\ PollFits

LEMMA NothingTyped ==
  Nothing \in Configs /\ NoPoll \in Polls /\ NoPoll.stage = "none" /\ NoPoll.now = 0
BY BoundsAssumption DEF Nothing, Configs, NoPoll, Polls, Stages

LEMMA InitFits == ConfigInit => Fits
<1> SUFFICES ASSUME ConfigInit PROVE Fits
  OBVIOUS
<1>1. TablesOK /\ Watermark = 0 /\ time = 0 /\ rev[Self] = 0
  BY InitTables, SelfAssumption DEF ConfigInit, Init, Watermark
<1>2. Typed
  BY <1>1, NothingTyped DEF ConfigInit, Typed
<1>3. Ordered /\ ConfigCurrent /\ PollFits
  BY <1>1, NothingTyped DEF ConfigInit, Ordered, ConfigCurrent, PollFits, FromNodes
<1> QED
  BY <1>1, <1>2, <1>3 DEF Fits

LEMMA PanelTypes ==
  ASSUME TablesOK
  PROVE  /\ rev[Self] \in Nat /\ Watermark \in 0 .. MaxTime /\ time \in 0 .. MaxTime
         /\ MaxTime \in Nat /\ assigned \subseteq Nodes \X Users
         /\ \A u \in Users : expires[u] \in 0 .. MaxTime + 1 /\ depleted[u] \in BOOLEAN
BY TablesParts, SelfAssumption, BoundsAssumption DEF Rows, Counters, Expiries, Watermark

-----------------------------------------------------------------------------
(* What fits goes on to fit as long as the revision of Self stays.         *)
KeepsFit ==
  /\ Inbounds(Self)' = Inbounds(Self) /\ Exits(Self)' = Exits(Self)
  /\ Relays(Self)' = Relays(Self) /\ NodeExits' = NodeExits
  /\ \A A \in SUBSET (Nodes \X Users), U \in SUBSET Users : AccountsFit(A, U) => AccountsFit(A, U)'
  /\ \A U \in SUBSET Users : UsersFit(U) => UsersFit(U)'

\* A step of the panel bumps the revision of Self, or keeps what fits.
BumpsOrKeeps ==
  server'[Self] # "gone" =>
    /\ server[Self] # "gone" /\ rev'[Self] \in Nat /\ rev'[Self] >= rev[Self]
    /\ rev'[Self] = rev[Self] => KeepsFit

LEMMA ConfigStays ==
  ASSUME TablesOK, Typed, Ordered, ConfigCurrent, BumpsOrKeeps,
         UNCHANGED <<applied, forceApply, config>>
  PROVE  ConfigCurrent' /\ (server'[Self] # "gone" => applied' <= rev'[Self])
<1>0. rev[Self] \in Nat /\ applied \in Nat /\ config.accounts \in SUBSET (Nodes \X Users)
  BY PanelTypes DEF Typed, Configs
<1>1. server'[Self] # "gone" => applied' <= rev'[Self]
  BY <1>0 DEF BumpsOrKeeps, Ordered
<1>2. ASSUME ~forceApply', Current(applied)' PROVE ConfigFits(config)'
  <2>1. ~forceApply /\ Current(applied) /\ KeepsFit
    BY <1>0, <1>2 DEF Current, BumpsOrKeeps, Ordered
  <2>2. ConfigFits(config)
    BY <2>1 DEF ConfigCurrent
  <2> QED
    BY <1>0, <2>1, <2>2 DEF ConfigFits, KeepsFit
<1> QED
  BY <1>1, <1>2 DEF ConfigCurrent

LEMMA PollStays ==
  ASSUME TablesOK, Typed, Ordered, PollFits, BumpsOrKeeps, UNCHANGED poll
  PROVE  /\ PollFits'
         /\ poll.stage \in FromNodes /\ server'[Self] # "gone" => poll.revision <= rev'[Self]
<1>0. /\ rev[Self] \in Nat /\ poll.revision \in Nat /\ poll.eligible \in SUBSET Users
      /\ poll.payload.accounts \in SUBSET (Nodes \X Users)
  BY PanelTypes DEF Typed, Polls, Configs
<1>1. poll.stage \in FromNodes /\ server'[Self] # "gone" => poll.revision <= rev'[Self]
  BY <1>0 DEF BumpsOrKeeps, Ordered
<1>2. CASE poll.stage \in FromNodes /\ Current(poll.revision)'
  <2>1. Current(poll.revision) /\ KeepsFit
    BY <1>0, <1>2 DEF Current, BumpsOrKeeps, Ordered
  <2> QED
    BY <1>0, <1>1, <1>2, <2>1 DEF PollFits, KeepsFit, NodesRead
<1> QED
  BY <1>1, <1>2 DEF PollFits

-----------------------------------------------------------------------------
(* Steps of the panel.                                                     *)

LEMMA MutateKeepsFit ==
  ASSUME TablesOK, TablesOK', Mutate, UnlinksFirst, server'[Self] # "gone", rev'[Self] = rev[Self],
         checkedAt'[Self] = checkedAt[Self], time' = time
  PROVE  KeepsFit
<1>0. Keeps(Self)
  BY MutateKeeps, SelfAssumption
<1>1. /\ assigned \subseteq Nodes \X Users /\ assigned' \subseteq Nodes \X Users
      /\ time \in time .. MaxTime /\ Watermark' = Watermark /\ Watermark \in Int /\ time \in Int
      /\ \A u \in Users : expires[u] \in Int
  BY PanelTypes, TablesParts DEF Watermark, Rows
<1>2. Render(Self, time)' = Render(Self, time)
  BY <1>0, <1>1, KeptRender, SelfAssumption
<1>3. Inbounds(Self)' = Inbounds(Self) /\ Exits(Self)' = Exits(Self) /\ Relays(Self)' = Relays(Self)
  BY <1>2 DEF Render
<1>4. /\ ActiveOn(Self)' = ActiveOn(Self) /\ ActiveOn(Self) \subseteq {n \in Nodes : Home[n] = Self}
      /\ \A n \in ActiveOn(Self) : chain'[n] = chain[n]
  BY <1>0 DEF Keeps, KeepsNodes, ActiveOn
<1>5. NodeExits' = NodeExits
  BY <1>4 DEF NodeExits
<1>6. \A a \in Nodes \X Users : Home[a[1]] = Self => (a \in assigned' <=> a \in assigned)
  BY <1>0 DEF Keeps, KeepsGrants
<1>7. ASSUME NEW a \in assigned, Home[a[1]] = Self
      PROVE  /\ Eligible(a[2], Watermark)' => Eligible(a[2], Watermark)
             /\ MayBeServed(a[2]) => MayBeServed(a[2])'
  BY <1>0, <1>1, <1>7 DEF Keeps, KeepsUsers, Eligible, MayBeServed
<1>8. ASSUME NEW A \in SUBSET (Nodes \X Users), NEW U \in SUBSET Users, AccountsFit(A, U)
      PROVE  AccountsFit(A, U)'
  <2>1. ASSUME NEW a \in Accounts(Self, Watermark)' PROVE a \in Accounts(Self, Watermark)
    <3>1. a \in assigned' /\ a[1] \in ActiveOn(Self) /\ Eligible(a[2], Watermark)'
      BY <1>4, <2>1 DEF Accounts
    <3>2. a \in assigned /\ Home[a[1]] = Self
      BY <1>1, <1>4, <1>6, <3>1
    <3> QED
      BY <1>7, <3>1, <3>2 DEF Accounts
  <2>2. ASSUME NEW a \in A PROVE a \in assigned' /\ a[1] \in ActiveOn(Self)' /\ MayBeServed(a[2])'
    <3>1. a \in assigned /\ a[1] \in ActiveOn(Self) /\ MayBeServed(a[2])
      BY <1>8 DEF AccountsFit
    <3> QED
      BY <1>4, <1>6, <1>7, <3>1
  <2> QED
    BY <1>8, <2>1, <2>2 DEF AccountsFit
<1>9. ASSUME NEW U \in SUBSET Users, UsersFit(U) PROVE UsersFit(U)'
  <2>1. \A u \in Users :
          Self \in ServersOf(u)' <=> \E a \in assigned : Home[a[1]] = Self /\ a[2] = u
    BY <1>1, <1>6 DEF ServersOf
  <2>2. \A u \in Users : Self \in ServersOf(u) <=> \E a \in assigned : Home[a[1]] = Self /\ a[2] = u
    BY DEF ServersOf
  <2>3. ASSUME NEW u \in U PROVE Self \in ServersOf(u)' /\ MayBeServed(u)'
    BY <1>7, <1>9, <2>1, <2>2, <2>3 DEF UsersFit
  <2> QED
    BY <2>3 DEF UsersFit
<1> QED
  BY <1>3, <1>5, <1>8, <1>9 DEF KeepsFit

\* The tables, the watermark and the clock of Self stay.
LEMMA SamePanel ==
  ASSUME UNCHANGED <<tables, time>>, checkedAt'[Self] = checkedAt[Self] PROVE KeepsFit
BY DEF KeepsFit, tables, nodeVars, userVars, Inbounds, Exits, Relays, NodeExits,
       AccountsFit, UsersFit, Accounts, ActiveOn, Eligible, MayBeServed, ServersOf, Watermark

\* Time takes users away that the watermark does not know of yet.
LEMMA TickKeepsFit ==
  ASSUME TablesOK, Tick PROVE KeepsFit
<1>0. time \in Int /\ time' = time + 1 /\ assigned \subseteq Nodes \X Users
      /\ \A u \in Users : expires[u] \in Int
  BY PanelTypes DEF Tick
<1>1. \A u \in Users : MayBeServed(u) => MayBeServed(u)'
  BY <1>0 DEF Tick, tables, userVars, MayBeServed, Watermark
<1>2. /\ Accounts(Self, Watermark)' = Accounts(Self, Watermark) /\ ActiveOn(Self)' = ActiveOn(Self)
      /\ assigned' = assigned
      /\ \A u : ServersOf(u)' = ServersOf(u) /\ Eligible(u, Watermark)' = Eligible(u, Watermark)
  BY DEF Tick, tables, nodeVars, userVars, Accounts, ActiveOn, Eligible, ServersOf, Watermark
<1>3. \A A \in SUBSET (Nodes \X Users), U \in SUBSET Users : AccountsFit(A, U) => AccountsFit(A, U)'
  BY <1>0, <1>1, <1>2 DEF AccountsFit
<1>4. \A U \in SUBSET Users : UsersFit(U) => UsersFit(U)'
  BY <1>1, <1>2 DEF UsersFit
<1>5. /\ Inbounds(Self)' = Inbounds(Self) /\ Exits(Self)' = Exits(Self)
      /\ Relays(Self)' = Relays(Self) /\ NodeExits' = NodeExits
  BY DEF Tick, tables, nodeVars, userVars, Inbounds, Exits, Relays, NodeExits, ActiveOn
<1> QED
  BY <1>3, <1>4, <1>5 DEF KeepsFit

\* The watermark moves, with a bump when it moves over an expiry.
LEMMA ReconcileKeepsFit ==
  ASSUME TablesOK, NEW s \in Servers, NEW now \in 0 .. time, ReconcileServerExpiry(s, now),
         rev'[Self] = rev[Self]
  PROVE  KeepsFit
<1>0. UNCHANGED <<tables, time>>
  BY DEF ReconcileServerExpiry
<1>1. CASE checkedAt'[Self] = checkedAt[Self]
  BY <1>0, <1>1, SamePanel
<1>2. CASE checkedAt'[Self] # checkedAt[Self]
  <2>0. /\ rev[Self] \in Nat /\ Watermark \in Int /\ now \in Int
        /\ checkedAt \in [Servers -> 0 .. MaxTime] /\ rev \in [Servers -> Nat]
        /\ assigned \subseteq Nodes \X Users
        /\ \A u \in Users : expires[u] \in Int
    BY PanelTypes, TablesParts DEF Counters
  <2>1. /\ s = Self /\ Watermark < now /\ Watermark' = now
        /\ Bump(IF Due(Self, now) THEN {Self} ELSE {})
    <3>1. ~(now <= checkedAt[s])
      BY <1>2 DEF ReconcileServerExpiry
    <3>2. checkedAt' = [checkedAt EXCEPT ![s] = now] /\ Bump(IF Due(s, now) THEN {s} ELSE {})
      BY <3>1 DEF ReconcileServerExpiry
    <3>3. s = Self /\ checkedAt'[s] = now
      BY <1>2, <2>0, <3>2, SelfAssumption
    <3> QED
      BY <2>0, <3>1, <3>2, <3>3 DEF Watermark
  <2>2. ~Due(Self, now)
    BY <2>0, <2>1, SelfAssumption DEF Bump
  <2>3. ASSUME NEW a \in assigned, Home[a[1]] = Self
        PROVE  /\ Eligible(a[2], now) => Eligible(a[2], Watermark)
               /\ MayBeServed(a[2]) => MayBeServed(a[2])'
    <3>1. status[a[2]] = "active" /\ expires[a[2]] > Watermark => expires[a[2]] > now
      BY <2>0, <2>2, <2>3 DEF Due, Watermark
    <3> QED
      BY <1>0, <2>0, <2>1, <3>1 DEF Eligible, MayBeServed, tables, userVars
  <2>4. \A u : Eligible(u, Watermark)' = Eligible(u, now) /\ ServersOf(u)' = ServersOf(u)
    BY <1>0, <2>1 DEF Eligible, tables, userVars, ServersOf
  <2>5. /\ Accounts(Self, Watermark)' = Accounts(Self, now) /\ ActiveOn(Self)' = ActiveOn(Self)
        /\ assigned' = assigned
    BY <1>0, <2>1 DEF Eligible, Accounts, ActiveOn, tables, userVars, nodeVars
  <2>6. \A A \in SUBSET (Nodes \X Users), U \in SUBSET Users : AccountsFit(A, U) => AccountsFit(A, U)'
    BY <2>3, <2>5 DEF AccountsFit, Accounts, ActiveOn
  <2>7. ASSUME NEW U \in SUBSET Users, UsersFit(U) PROVE UsersFit(U)'
    <3>1. \A u : Self \in ServersOf(u) => \E a \in assigned : Home[a[1]] = Self /\ a[2] = u
      BY DEF ServersOf
    <3>2. ASSUME NEW u \in U PROVE MayBeServed(u)'
      BY <2>3, <2>7, <3>1, <3>2 DEF UsersFit
    <3> QED
      BY <2>4, <2>7, <3>2 DEF UsersFit
  <2>8. /\ Inbounds(Self)' = Inbounds(Self) /\ Exits(Self)' = Exits(Self)
        /\ Relays(Self)' = Relays(Self) /\ NodeExits' = NodeExits
    BY <1>0 DEF tables, nodeVars, userVars, Inbounds, Exits, Relays, NodeExits, ActiveOn
  <2> QED
    BY <2>6, <2>7, <2>8 DEF KeepsFit
<1> QED
  BY <1>1, <1>2

LEMMA ReconcileBumps ==
  ASSUME TablesOK, NEW s \in Servers, NEW now \in 0 .. time, ReconcileServerExpiry(s, now)
  PROVE  BumpsOrKeeps /\ UNCHANGED <<tables, time>> /\ rev'[Self] \in Nat /\ rev'[Self] >= rev[Self]
<1>1. rev \in [Servers -> Nat]
  BY TablesParts DEF Counters
<1>2. rev'[Self] \in Nat /\ rev'[Self] >= rev[Self]
  BY <1>1, BumpIs, SelfAssumption DEF ReconcileServerExpiry
<1> QED
  BY <1>2, ReconcileKeepsFit DEF BumpsOrKeeps, ReconcileServerExpiry, tables

LEMMA MutateServers ==
  ASSUME TablesOK, Mutate
  PROVE  /\ time' = time
         /\ checkedAt'[Self] = checkedAt[Self] \/ checkedAt'[Self] = 0
         /\ server'[Self] # "gone" => server[Self] # "gone" /\ checkedAt'[Self] = checkedAt[Self]
<1>0. /\ server \in [Servers -> {"active", "disabled", "gone"}]
      /\ checkedAt \in [Servers -> 0 .. MaxTime]
  BY TablesParts DEF Rows, Counters
<1>1. time' = time
  <2>1. CASE UserMutation
    BY <2>1 DEF UserMutation, Mutation, CreateUser, SetUserNodes, UpdateUser, DeleteUser, ResetUserTraffic,
                QuotaReached
  <2>2. CASE NodeMutation
    BY <2>2, ZenonT(60) DEF NodeMutation, Mutation, CreateNode, UpdateNode, DeleteNode, SetNodeUsers
  <2>3. CASE ServerMutation
    BY <2>3 DEF ServerMutation, Mutation, UpdateServer, DeleteServer
  <2> QED
    BY <2>1, <2>2, <2>3 DEF Mutate
<1>2. CASE ServerMutation
  <2>1. ASSUME NEW s \in Servers, NEW st, UpdateServer(s, st)
        PROVE  checkedAt' = checkedAt /\ (server'[Self] # "gone" => server[Self] # "gone")
    BY <1>0, <2>1 DEF UpdateServer
  <2>2. ASSUME NEW s \in Servers, DeleteServer(s)
        PROVE  /\ checkedAt'[Self] = checkedAt[Self] \/ checkedAt'[Self] = 0
               /\ server'[Self] # "gone" =>
                    server[Self] # "gone" /\ checkedAt'[Self] = checkedAt[Self]
    BY <1>0, <2>2, SelfAssumption DEF DeleteServer, tables
  <2> QED
    BY <1>1, <1>2, <2>1, <2>2 DEF ServerMutation
<1>3. CASE UserMutation \/ NodeMutation
  <2>1. checkedAt' = checkedAt /\ server' = server
    BY <1>3, ZenonT(60) DEF UserMutation, NodeMutation, CreateUser, SetUserNodes, UpdateUser, DeleteUser,
       ResetUserTraffic, QuotaReached, CreateNode, UpdateNode, DeleteNode, SetNodeUsers
  <2> QED
    BY <1>1, <2>1
<1> QED
  BY <1>2, <1>3 DEF Mutate

LEMMA AdministerFits == ASSUME Fits, Administer, UnlinksFirst PROVE Fits'
<1>0. /\ TablesOK /\ Typed /\ Ordered /\ ConfigCurrent /\ PollFits /\ UNCHANGED agent
      /\ applied' = applied /\ forceApply' = forceApply /\ config' = config /\ last' = last
      /\ poll' = poll /\ crashes' = crashes
  BY DEF Fits, Administer, agent
<1>1. TablesOK' /\ time' >= time /\ time \in Int /\ Watermark \in Nat /\ time' \in Int
  BY <1>0, NextTables, PanelTypes, MutateServers DEF Administer, Next, Tick
<1>2. BumpsOrKeeps /\ (Watermark' = Watermark \/ Watermark' = 0)
      /\ (server'[Self] # "gone" => server[Self] # "gone" /\ Watermark' = Watermark)
  <2>1. CASE Mutate
    <3>1. (rev'[Self] >= rev[Self] /\ rev'[Self] \in Nat) \/ server'[Self] = "gone"
      BY <1>0, <2>1, RevisionsGrow, SelfAssumption
    <3> QED
      BY <1>0, <1>1, <2>1, <3>1, MutateServers, MutateKeepsFit DEF BumpsOrKeeps, Watermark
  <2>2. CASE Tick
    <3>1. rev' = rev /\ checkedAt' = checkedAt /\ server' = server
      BY <2>2 DEF Tick, tables
    <3> QED
      BY <1>0, <2>2, <3>1, TickKeepsFit, PanelTypes DEF BumpsOrKeeps, Watermark
  <2> QED
    BY <2>1, <2>2 DEF Administer
<1>3. ConfigCurrent' /\ PollFits'
  BY <1>0, <1>2, ConfigStays, PollStays
<1>4. Typed'
  BY <1>0, <1>1, BoundsAssumption DEF Typed, Polls
<1>5. Ordered'
  <2>1. poll.now \in Nat
    BY <1>0 DEF Typed, Polls
  <2>2. server'[Self] # "gone" => applied' <= rev'[Self]
    BY <1>0, <1>2, ConfigStays
  <2>3. poll.stage \in FromNodes /\ server'[Self] # "gone" => poll.revision <= rev'[Self]
    BY <1>0, <1>2, PollStays
  <2> QED
    BY <1>0, <1>1, <1>2, <2>1, <2>2, <2>3 DEF Ordered
<1> QED
  BY <1>1, <1>3, <1>4, <1>5 DEF Fits

\* A poll that Self gave up read the clock before the one under way did.
LEMMA StrayFits ==
  ASSUME Fits, ~Overlap, NEW s \in Servers, NEW now \in 0 .. time, StrayPoll(s, now)
  PROVE  Fits'
<1>0. /\ TablesOK /\ Typed /\ Ordered /\ ConfigCurrent /\ PollFits
      /\ ReconcileServerExpiry(s, now) /\ UNCHANGED <<tables, time, agent>>
      /\ applied' = applied /\ forceApply' = forceApply /\ config' = config /\ last' = last
      /\ poll' = poll /\ crashes' = crashes
  BY DEF Fits, StrayPoll, agent, ReconcileServerExpiry
<1>1. TablesOK'
  BY <1>0, ReconcileTables
<1>2. BumpsOrKeeps /\ server' = server /\ time' = time
  BY <1>0, ReconcileBumps DEF tables
<1>3. ConfigCurrent' /\ PollFits'
  BY <1>0, <1>2, ConfigStays, PollStays
<1>4. Typed'
  BY <1>0, <1>2 DEF Typed
<1>5. /\ Watermark' <= time
      /\ poll.stage = "checked" => Watermark' <= poll.now
      /\ poll.stage \in FromNodes /\ server[Self] # "gone" => Watermark' = Watermark
  <2>1. Watermark' = Watermark \/ (s = Self /\ Watermark' = now /\ Watermark < now)
    <3>1. checkedAt \in [Servers -> 0 .. MaxTime] /\ now \in Int /\ checkedAt[s] \in Int
      BY <1>0, TablesParts, PanelTypes DEF Counters
    <3> QED
      BY <1>0, <3>1, SelfAssumption DEF ReconcileServerExpiry, Watermark
  <2>2. Watermark \in Int /\ time \in Int /\ now \in Int /\ poll.now \in Int
    BY <1>0, PanelTypes DEF Typed, Polls
  <2>3. s # Self \/ poll.stage \in {"none", "asked"} \/ now <= poll.now
    BY DEF StrayPoll
  <2> QED
    BY <1>0, <2>1, <2>2, <2>3 DEF Ordered, FromNodes
<1>6. Ordered'
  <2>1. server'[Self] # "gone" => applied' <= rev'[Self]
    BY <1>0, <1>2, ConfigStays
  <2>2. poll.stage \in FromNodes /\ server'[Self] # "gone" => poll.revision <= rev'[Self]
    BY <1>0, <1>2, PollStays
  <2> QED
    BY <1>0, <1>2, <1>5, <2>1, <2>2 DEF Ordered
<1> QED
  BY <1>1, <1>3, <1>4, <1>6 DEF Fits

-----------------------------------------------------------------------------
(* Steps of the agent and of its poll.                                     *)

\* The panel does not move.
LEMMA PanelRests ==
  ASSUME UNCHANGED panel, TablesOK
  PROVE  TablesOK' /\ BumpsOrKeeps /\ KeepsFit /\ server' = server /\ rev' = rev /\ time' = time
         /\ Watermark' = Watermark
<1>1. TablesOK'
  BY NextTables
<1>2. KeepsFit
  BY SamePanel DEF panel
<1> QED
  BY <1>1, <1>2, PanelTypes DEF BumpsOrKeeps, panel, tables, Watermark

\* A poll ends, or one begins, and what the agent runs stays.
LEMMA PollEnds ==
  ASSUME Fits, UNCHANGED <<panel, applied, forceApply, config, last, crashes>>,
         \/ poll' = NoPoll
         \/ /\ poll' = [poll EXCEPT !.stage = "asked",
                                    !.version = IF forceApply THEN 0 ELSE applied]
  PROVE  Fits'
<1>0. TablesOK /\ Typed /\ Ordered /\ ConfigCurrent /\ PollFits
  BY DEF Fits
<1>1. /\ TablesOK' /\ BumpsOrKeeps /\ server' = server /\ rev' = rev /\ time' = time
      /\ Watermark' = Watermark /\ time \in Nat
  BY <1>0, PanelRests, PanelTypes
<1>2. ConfigCurrent'
  BY <1>0, <1>1, ConfigStays
<1>3. /\ poll' \in Polls /\ poll'.now <= time /\ poll'.stage \in {"none", "asked"}
      /\ poll'.stage = "asked" /\ ~forceApply => poll'.version = applied
  <2>1. CASE poll' = NoPoll
    BY <1>1, <2>1, NothingTyped
  <2>2. CASE poll' = [poll EXCEPT !.stage = "asked", !.version = IF forceApply THEN 0 ELSE applied]
    <3>1. (IF forceApply THEN 0 ELSE applied) \in Nat /\ poll \in Polls /\ poll.now <= time
      BY <1>0 DEF Typed
    <3>2. poll' \in Polls /\ poll'.now = poll.now /\ poll'.stage = "asked"
      BY <2>2, <3>1 DEF Polls, Stages
    <3>3. ~forceApply => poll'.version = applied
      BY <2>2, <3>1 DEF Polls
    <3> QED
      BY <3>1, <3>2, <3>3
  <2> QED
    BY <2>1, <2>2
<1>4. Typed'
  BY <1>0, <1>1, <1>3 DEF Typed
<1>5. Ordered' /\ PollFits'
  BY <1>0, <1>1, <1>3 DEF Ordered, PollFits, FromNodes
<1> QED
  BY <1>1, <1>2, <1>4, <1>5 DEF Fits

LEMMA CheckServerFits == ASSUME Fits, CheckServer PROVE Fits'
<1>0. TablesOK /\ Typed /\ Ordered /\ ConfigCurrent /\ PollFits /\ poll \in Polls
  BY DEF Fits, Typed
<1>1. CASE poll' = NoPoll
  BY <1>1, PollEnds DEF CheckServer
<1>2. CASE poll' = [poll EXCEPT !.stage = "checked", !.now = time]
  <2>1. /\ TablesOK' /\ BumpsOrKeeps /\ server' = server /\ rev' = rev /\ time' = time
        /\ Watermark' = Watermark /\ time \in 0 .. MaxTime /\ MaxTime \in Nat
    BY <1>0, PanelRests, PanelTypes DEF CheckServer
  <2>2. ConfigCurrent'
    BY <1>0, <2>1, ConfigStays DEF CheckServer
  <2>3. /\ poll' \in Polls /\ poll'.now = time /\ poll'.stage = "checked"
        /\ poll'.version = poll.version /\ poll.stage = "asked"
    BY <1>0, <1>2, <2>1 DEF Polls, Stages, CheckServer, At
  <2>4. Typed'
    BY <1>0, <2>1, <2>3 DEF Typed, CheckServer
  <2>5. Ordered' /\ PollFits'
    BY <1>0, <2>1, <2>3 DEF Ordered, PollFits, FromNodes, CheckServer
  <2> QED
    BY <2>1, <2>2, <2>4, <2>5 DEF Fits
<1> QED
  BY <1>1, <1>2 DEF CheckServer

LEMMA ReadRevisionFits == ASSUME Fits, ReadRevision PROVE Fits'
<1>0. TablesOK /\ Typed /\ Ordered /\ ConfigCurrent /\ PollFits
      /\ poll \in Polls /\ poll.stage = "checked"
      /\ UNCHANGED <<applied, forceApply, config, last, crashes>>
  BY DEF Fits, Typed, ReadRevision, At
<1>1. CASE UNCHANGED panel /\ poll' = NoPoll
  BY <1>0, <1>1, PollEnds
<1>2. CASE ReconcileServerExpiry(Self, poll.now)
  <2>1. poll.now \in 0 .. time /\ poll.now \in 0 .. MaxTime /\ time \in Nat
    BY <1>0, PanelTypes DEF Typed, Polls
  <2>2. /\ TablesOK' /\ BumpsOrKeeps /\ server' = server /\ time' = time
        /\ rev'[Self] \in Nat /\ rev'[Self] >= rev[Self]
    BY <1>0, <1>2, <2>1, ReconcileTables, ReconcileBumps, SelfAssumption DEF tables
  <2>3. Watermark' = poll.now
    <3>1. checkedAt \in [Servers -> 0 .. MaxTime] /\ Watermark \in Nat /\ Watermark <= poll.now
      BY <1>0, TablesParts, PanelTypes DEF Counters, Ordered
    <3> QED
      BY <1>2, <2>1, <3>1, SelfAssumption DEF ReconcileServerExpiry, Watermark
  <2>4. ConfigCurrent' /\ (server'[Self] # "gone" => applied' <= rev'[Self])
    BY <1>0, <2>2, ConfigStays
  <2>5. CASE poll' = NoPoll
    <3>1. Typed' /\ Ordered' /\ PollFits'
      BY <1>0, <2>1, <2>2, <2>3, <2>4, <2>5, NothingTyped DEF Typed, Ordered, PollFits, FromNodes
    <3> QED
      BY <2>2, <2>4, <3>1 DEF Fits
  <2>6. CASE /\ poll.version # rev'[Self]
             /\ poll' = [poll EXCEPT !.stage = "nodes", !.revision = rev'[Self]]
    <3>1. /\ poll' \in Polls /\ poll'.stage = "nodes" /\ poll'.revision = rev'[Self]
          /\ poll'.now = poll.now
      BY <1>0, <2>2, <2>6 DEF Polls, Stages
    <3>2. server'[Self] # "gone" /\ ~forceApply => applied < poll'.revision
      BY <1>0, <2>2, <2>4, <2>6, <3>1 DEF Ordered, Typed
    <3>3. Typed'
      BY <1>0, <2>2, <3>1 DEF Typed
    <3>4. Ordered' /\ PollFits'
      BY <1>0, <2>1, <2>2, <2>3, <2>4, <3>1, <3>2 DEF Ordered, PollFits, FromNodes, FromUsers,
         FromUserNodes, FromExits, FromRelays
    <3> QED
      BY <2>2, <2>4, <3>3, <3>4 DEF Fits
  <2> QED
    BY <1>0, <1>2, <2>5, <2>6 DEF ReadRevision
<1> QED
  BY <1>1, <1>2 DEF ReadRevision

\* A query of the handler: what it adds to the poll fits the tables.
LEMMA QueryFits ==
  ASSUME Fits, UNCHANGED <<panel, applied, forceApply, config, last, crashes>>,
         poll.stage \in FromNodes, poll' \in Polls, poll'.stage \in FromNodes,
         poll'.now = poll.now, poll'.revision = poll.revision, PollFits'
  PROVE  Fits'
<1>0. TablesOK /\ Typed /\ Ordered /\ ConfigCurrent
  BY DEF Fits
<1>1. /\ TablesOK' /\ BumpsOrKeeps /\ server' = server /\ rev' = rev /\ time' = time
      /\ Watermark' = Watermark
  BY <1>0, PanelRests
<1>2. ConfigCurrent'
  BY <1>0, <1>1, ConfigStays
<1>3. Typed'
  BY <1>0, <1>1 DEF Typed
<1>4. Ordered'
  BY <1>0, <1>1 DEF Ordered, FromNodes
<1> QED
  BY <1>1, <1>2, <1>3, <1>4 DEF Fits

\* The poll is still current, and what it is about has not moved.
LEMMA QueryRests ==
  ASSUME Fits, UNCHANGED panel, poll.stage \in FromNodes, poll'.revision = poll.revision
  PROVE  /\ KeepsFit
         /\ Current(poll.revision)' <=> Current(poll.revision)
         /\ Current(poll.revision) => Watermark = poll.now
BY PanelRests DEF Fits, Current, Ordered

LEMMA ReadNodesFits == ASSUME Fits, ReadNodes PROVE Fits'
<1>0. TablesOK /\ poll \in Polls /\ poll.stage = "nodes" /\ poll.stage \in FromNodes
      /\ UNCHANGED <<panel, applied, forceApply, config, last, crashes>>
  BY DEF Fits, Typed, ReadNodes, At, FromNodes
<1>1. NodeExits \in SUBSET (Nodes \X Exit) /\ Inbounds(Self) \in SUBSET (Nodes \X Contents)
  BY <1>0, TablesParts DEF NodeExits, Inbounds, ActiveOn, Rows
<1>2. poll' = [poll EXCEPT !.stage = "users", !.active = NodeExits,
                           !.payload = [poll.payload EXCEPT !.inbounds = Inbounds(Self)]]
  BY <1>0 DEF ReadNodes, NodeExits, Polls
<1>3. [poll.payload EXCEPT !.inbounds = Inbounds(Self)] \in Configs
  BY <1>0, <1>1 DEF Polls, Configs
<1>4. /\ poll' \in Polls /\ poll'.stage = "users" /\ poll'.now = poll.now
      /\ poll'.revision = poll.revision /\ poll'.active = NodeExits
      /\ poll'.payload.inbounds = Inbounds(Self)
  BY <1>0, <1>1, <1>2, <1>3 DEF Polls, Configs, Stages
<1>5. PollFits'
  BY <1>0, <1>4, QueryRests DEF PollFits, KeepsFit, NodesRead, FromNodes, FromUsers, FromUserNodes,
     FromExits, FromRelays
<1> QED
  BY <1>0, <1>4, <1>5, QueryFits DEF FromNodes

LEMMA ReadUsersFits == ASSUME Fits, ReadUsers PROVE Fits'
<1> DEFINE U == {u \in Users : Eligible(u, poll.now) /\ Self \in ServersOf(u)}
<1>0. TablesOK /\ poll \in Polls /\ poll.stage = "users" /\ poll.stage \in FromNodes /\ PollFits
      /\ UNCHANGED <<panel, applied, forceApply, config, last, crashes>>
  BY DEF Fits, Typed, ReadUsers, At, FromNodes
<1>1. Watermark = poll.now => UsersFit(U)
  BY DEF UsersFit, MayBeServed, Eligible
<1>2. Watermark = poll.now => AccountsFit({}, U)
  BY <1>0, PanelTypes DEF AccountsFit, Accounts, ActiveOn, ServersOf
<1>3. U \in SUBSET Users
  OBVIOUS
<1>4. poll' = [poll EXCEPT !.stage = IF U = {} THEN "exits" ELSE "user_nodes", !.eligible = U,
                           !.payload = [poll.payload EXCEPT !.accounts = {}]]
  BY <1>0 DEF ReadUsers, Polls
<1> HIDE DEF U
<1>5. [poll.payload EXCEPT !.accounts = {}] \in Configs
  BY <1>0 DEF Polls, Configs
<1>6. /\ poll' \in Polls /\ poll'.stage \in {"exits", "user_nodes"} /\ poll'.now = poll.now
      /\ poll'.stage = "exits" => U = {}
      /\ poll'.revision = poll.revision /\ poll'.active = poll.active
      /\ poll'.payload.inbounds = poll.payload.inbounds
      /\ poll'.payload.accounts = {} /\ poll'.eligible = U
  BY <1>0, <1>3, <1>4, <1>5 DEF Polls, Configs, Stages
<1>7. PollFits'
  BY <1>0, <1>1, <1>2, <1>3, <1>6, QueryRests DEF PollFits, KeepsFit, NodesRead, FromNodes,
     FromUsers, FromUserNodes, FromExits, FromRelays
<1> QED
  BY <1>0, <1>6, <1>7, QueryFits DEF FromNodes

LEMMA NodesOfExits == \A n : (\E r \in NodeExits : r[1] = n) <=> n \in ActiveOn(Self)
<1>1. ASSUME NEW r \in NodeExits PROVE r[1] \in ActiveOn(Self)
  BY DEF NodeExits
<1>2. ASSUME NEW n \in ActiveOn(Self) PROVE \E r \in NodeExits : r[1] = n
  <2>1. <<n, chain[n]>> \in NodeExits
    BY DEF NodeExits
  <2> QED
    BY <2>1
<1> QED
  BY <1>1, <1>2

\* One more user's nodes, of the nodes read before.
LEMMA ReadUserNodesFits == ASSUME Fits, ReadUserNodes PROVE Fits'
<1>0. TablesOK /\ poll \in Polls /\ poll.stage = "user_nodes" /\ poll.stage \in FromNodes
      /\ PollFits /\ UNCHANGED <<panel, applied, forceApply, config, last, crashes>>
  BY DEF Fits, Typed, ReadUserNodes, At, FromNodes
<1>u. PICK u \in poll.eligible :
        poll' = [poll EXCEPT
                   !.stage = IF poll.eligible \ {u} = {} THEN "exits" ELSE @,
                   !.eligible = poll.eligible \ {u},
                   !.payload.accounts =
                     @ \cup {a \in assigned : a[2] = u /\ \E r \in poll.active : r[1] = a[1]}]
  BY DEF ReadUserNodes
<1> DEFINE rest == poll.eligible \ {u}
<1> DEFINE A == poll.payload.accounts
                  \cup {a \in assigned : a[2] = u /\ \E r \in poll.active : r[1] = a[1]}
<1>1. A \in SUBSET (Nodes \X Users) /\ rest \in SUBSET Users
  BY <1>0, PanelTypes DEF Polls, Configs
<1>2. poll' = [poll EXCEPT !.stage = IF rest = {} THEN "exits" ELSE "user_nodes",
                           !.eligible = rest,
                           !.payload = [poll.payload EXCEPT !.accounts = A]]
  BY <1>0, <1>u DEF Polls
<1>3. ASSUME poll.active = NodeExits, UsersFit(poll.eligible),
             AccountsFit(poll.payload.accounts, poll.eligible)
      PROVE  UsersFit(rest) /\ AccountsFit(A, rest)
  <2>1. \A n : (\E r \in poll.active : r[1] = n) <=> n \in ActiveOn(Self)
    BY <1>3, NodesOfExits
  <2>2. UsersFit(rest)
    BY <1>3 DEF UsersFit
  <2>3. \A a \in A : a \in assigned /\ a[1] \in ActiveOn(Self) /\ MayBeServed(a[2])
    BY <1>3, <2>1 DEF UsersFit, AccountsFit
  <2>4. \A a \in Accounts(Self, Watermark) : a \in A \/ a[2] \in rest
    BY <1>3, <2>1 DEF AccountsFit, Accounts
  <2> QED
    BY <2>2, <2>3, <2>4 DEF AccountsFit
<1> HIDE DEF A, rest
<1>4. [poll.payload EXCEPT !.accounts = A] \in Configs
  BY <1>0, <1>1 DEF Polls, Configs
<1>5. /\ poll' \in Polls /\ poll'.stage \in {"exits", "user_nodes"} /\ poll'.now = poll.now
      /\ poll'.stage = "exits" => rest = {}
      /\ poll'.revision = poll.revision /\ poll'.active = poll.active
      /\ poll'.eligible = rest /\ poll'.payload.accounts = A
      /\ poll'.payload.inbounds = poll.payload.inbounds
  BY <1>0, <1>1, <1>2, <1>4 DEF Polls, Configs, Stages
<1>6. PollFits'
  BY <1>0, <1>1, <1>3, <1>5, QueryRests DEF PollFits, KeepsFit, NodesRead, FromNodes,
     FromUsers, FromUserNodes, FromExits, FromRelays
<1> QED
  BY <1>0, <1>5, <1>6, QueryFits DEF FromNodes

LEMMA ReadExitsFits == ASSUME Fits, ReadExits PROVE Fits'
<1> DEFINE X == {<<r[1], r[2], content[r[2]]>> :
                    r \in {q \in poll.active : q[2] # NoNode /\ node[q[2]] = "active"}}
<1>0. TablesOK /\ poll \in Polls /\ poll.stage = "exits" /\ poll.stage \in FromNodes
      /\ PollFits /\ UNCHANGED <<panel, applied, forceApply, config, last, crashes>>
  BY DEF Fits, Typed, ReadExits, At, FromNodes
<1>1. X \in SUBSET (Nodes \X Nodes \X Contents)
  <2>1. poll.active \subseteq Nodes \X Exit /\ content \in [Nodes -> Contents]
    BY <1>0, TablesParts DEF Polls, Rows
  <2> QED
    BY <2>1 DEF Exit
<1>2. poll' = [poll EXCEPT !.stage = "relays", !.payload = [poll.payload EXCEPT !.exits = X]]
  BY <1>0 DEF ReadExits, Polls
<1>3. ASSUME poll.active = NodeExits PROVE X = Exits(Self)
  <2>1. ASSUME NEW x \in X PROVE x \in Exits(Self)
    BY <1>3, <2>1 DEF NodeExits, Exits
  <2>2. ASSUME NEW x \in Exits(Self) PROVE x \in X
    <3>1. PICK n \in ActiveOn(Self) : chain[n] # NoNode /\ node[chain[n]] = "active"
                                     /\ x = <<n, chain[n], content[chain[n]]>>
      BY <2>2 DEF Exits
    <3>2. <<n, chain[n]>> \in poll.active
      BY <1>3 DEF NodeExits
    <3> QED
      BY <3>1, <3>2
  <2> QED
    BY <2>1, <2>2
<1> HIDE DEF X
<1>4. [poll.payload EXCEPT !.exits = X] \in Configs
  BY <1>0, <1>1 DEF Polls, Configs
<1>5. /\ poll' \in Polls /\ poll'.stage = "relays" /\ poll'.now = poll.now
      /\ poll'.revision = poll.revision /\ poll'.active = poll.active
      /\ poll'.eligible = poll.eligible /\ poll'.payload.exits = X
      /\ poll'.payload.inbounds = poll.payload.inbounds
      /\ poll'.payload.accounts = poll.payload.accounts
  BY <1>0, <1>2, <1>4 DEF Polls, Configs, Stages
<1>6. poll.eligible \in SUBSET Users /\ poll.payload.accounts \in SUBSET (Nodes \X Users)
  BY <1>0 DEF Polls, Configs
<1>7. PollFits'
  BY <1>0, <1>3, <1>5, <1>6, QueryRests DEF PollFits, KeepsFit, NodesRead, FromNodes,
     FromUsers, FromUserNodes, FromExits, FromRelays
<1> QED
  BY <1>0, <1>5, <1>7, QueryFits DEF FromNodes

LEMMA ReadRelaysFits == ASSUME Fits, ReadRelays PROVE Fits'
<1>0. TablesOK /\ poll \in Polls /\ poll.stage = "relays" /\ poll.stage \in FromNodes
      /\ PollFits /\ UNCHANGED <<panel, applied, forceApply, config, last, crashes>>
  BY DEF Fits, Typed, ReadRelays, At, FromNodes
<1>1. RelaysRead \in SUBSET (Nodes \X Servers)
  <2>1. \A n \in Nodes : Home[n] \in Servers
    BY HomeAssumption
  <2>2. poll.active \subseteq Nodes \X Exit
    BY <1>0 DEF Polls
  <2> QED
    BY <2>1, <2>2 DEF RelaysRead
<1>2. poll' = [poll EXCEPT !.stage = "answered",
                           !.payload = [poll.payload EXCEPT !.relays = RelaysRead]]
  BY <1>0 DEF ReadRelays, Polls
<1>3. ASSUME poll.active = NodeExits PROVE RelaysRead = Relays(Self)
  <2>1. \A n : (\E r \in poll.active : r[1] = n) <=> n \in ActiveOn(Self)
    BY <1>3, NodesOfExits
  <2> QED
    BY <2>1 DEF RelaysRead, Relays
<1>4. [poll.payload EXCEPT !.relays = RelaysRead] \in Configs
  BY <1>0, <1>1 DEF Polls, Configs
<1>5. /\ poll' \in Polls /\ poll'.stage = "answered" /\ poll'.now = poll.now
      /\ poll'.revision = poll.revision /\ poll'.active = poll.active
      /\ poll'.eligible = poll.eligible /\ poll'.payload.exits = poll.payload.exits
      /\ poll'.payload.inbounds = poll.payload.inbounds
      /\ poll'.payload.accounts = poll.payload.accounts
      /\ poll'.payload.relays = RelaysRead
  BY <1>0, <1>2, <1>4 DEF Polls, Configs, Stages
<1>6. poll.eligible \in SUBSET Users /\ poll.payload.accounts \in SUBSET (Nodes \X Users)
  BY <1>0 DEF Polls, Configs
<1>7. PollFits'
  BY <1>0, <1>3, <1>5, <1>6, QueryRests DEF PollFits, KeepsFit, NodesRead, FromNodes,
     FromUsers, FromUserNodes, FromExits, FromRelays
<1> QED
  BY <1>0, <1>5, <1>7, QueryFits DEF FromNodes

\* The kernel starts with what fits, or the revision stays behind.
LEMMA ApplyFits == ASSUME Fits, ApplyConfig \/ ApplyFails \/ Crash PROVE Fits'
<1>0. TablesOK /\ Typed /\ Ordered /\ ConfigCurrent /\ PollFits /\ poll' = NoPoll /\ UNCHANGED panel
  BY DEF Fits, ApplyConfig, ApplyFails, Crash
<1>1. /\ TablesOK' /\ BumpsOrKeeps /\ KeepsFit /\ server' = server /\ rev' = rev /\ time' = time
      /\ Watermark' = Watermark /\ time \in Nat /\ rev[Self] \in Nat
  BY <1>0, PanelRests, PanelTypes
<1>2. /\ applied' \in Nat /\ forceApply' \in BOOLEAN /\ config' \in Configs /\ last' \in Configs
      /\ crashes' \in Nat
      /\ server[Self] # "gone" => applied' <= rev[Self]
  <2>0. poll \in Polls /\ last \in Configs /\ crashes \in Nat /\ applied \in Nat
    BY <1>0 DEF Typed
  <2>1. CASE ApplyConfig
    BY <1>0, <1>1, <2>0, <2>1 DEF Typed, Polls, Ordered, ApplyConfig, At, FromNodes
  <2>2. CASE ApplyFails
    BY <1>0, <1>1, <2>0, <2>2, NothingTyped DEF Typed, Ordered, ApplyFails
  <2>3. CASE Crash
    BY <1>0, <1>1, <2>0, <2>3, NothingTyped DEF Crash
  <2> QED
    BY <2>1, <2>2, <2>3
<1>3. Typed' /\ Ordered' /\ PollFits'
  BY <1>0, <1>1, <1>2, NothingTyped DEF Typed, Ordered, PollFits, FromNodes
<1>4. ASSUME ~forceApply', Current(applied)' PROVE ConfigFits(config)'
  <2>1. ~Crash /\ At("answered") /\ server[Self] # "gone" /\ applied' = rev[Self]
    BY <1>1, <1>4 DEF Current, ApplyConfig, ApplyFails, Crash
  <2>2. ~ApplyFails
    BY <1>0, <1>1, <1>4, <2>1 DEF ApplyFails, Ordered, Typed, Polls, At, FromNodes
  <2>3. config' = poll.payload /\ Current(poll.revision)
    BY <2>1, <2>2 DEF ApplyConfig, Current
  <2>4. ConfigFits(poll.payload) /\ poll.payload.accounts \in SUBSET (Nodes \X Users)
    BY <1>0, <2>1, <2>3 DEF PollFits, NodesRead, ConfigFits, At, FromNodes, FromUsers,
       FromUserNodes, FromExits, FromRelays, Typed, Polls, Configs
  <2> QED
    BY <1>1, <2>3, <2>4 DEF ConfigFits, KeepsFit
<1>5. ConfigCurrent'
  BY <1>4 DEF ConfigCurrent
<1> QED
  BY <1>1, <1>3, <1>5 DEF Fits

LEMMA NextFits == UnlinksFirst /\ ~Overlap /\ Fits /\ [ConfigNext]_vars => Fits'
<1> SUFFICES ASSUME UnlinksFirst, ~Overlap, Fits, [ConfigNext]_vars PROVE Fits'
  OBVIOUS
<1>1. CASE Ask \/ PollFails
  BY <1>1, PollEnds DEF Ask, PollFails
<1>2. CASE Serve
  BY <1>2, CheckServerFits, ReadRevisionFits, ReadNodesFits, ReadUsersFits, ReadUserNodesFits,
     ReadExitsFits, ReadRelaysFits DEF Serve
<1>3. CASE ApplyConfig \/ ApplyFails \/ Crash
  BY <1>3, ApplyFits
<1>4. CASE Administer
  BY <1>4, AdministerFits
<1>5. ASSUME NEW s \in Servers, NEW now \in 0 .. time, StrayPoll(s, now) PROVE Fits'
  BY <1>5, StrayFits
<1>6. CASE UNCHANGED vars
  <2>1. /\ TablesOK /\ Typed /\ Ordered /\ ConfigCurrent /\ PollFits /\ UNCHANGED panel
        /\ UNCHANGED <<applied, forceApply, config, last, poll, crashes>>
    BY <1>6 DEF Fits, vars, agent
  <2>2. /\ TablesOK' /\ BumpsOrKeeps /\ server' = server /\ rev' = rev /\ time' = time
        /\ Watermark' = Watermark
    BY <2>1, PanelRests
  <2>3. ConfigCurrent' /\ PollFits'
    BY <2>1, <2>2, ConfigStays, PollStays
  <2>4. Typed' /\ Ordered'
    BY <2>1, <2>2 DEF Typed, Ordered
  <2> QED
    BY <2>2, <2>3, <2>4 DEF Fits
<1> QED
  BY <1>1, <1>2, <1>3, <1>4, <1>5, <1>6 DEF ConfigNext, Sync

-----------------------------------------------------------------------------
(* What follows.                                                           *)

\* The two circumstances under which the agent cannot be left behind for good:
\* administrators unlink a server's entry nodes before they delete it, and no
\* poll that was given up overtakes a later one.
Orderly == UnlinksFirst /\ ~Overlap

\* What a poll has read fits its revision, and an agent runs what fits its own.
LEMMA AlwaysFits == Orderly => (ConfigSpec => []Fits)
<1> SUFFICES ASSUME Orderly PROVE ConfigSpec => []Fits
  OBVIOUS
<1>1. ConfigInit => Fits
  BY InitFits
<1>2. Fits /\ [ConfigNext]_vars => Fits'
  BY NextFits DEF Orderly
<1> QED
  BY <1>1, <1>2, PTL DEF ConfigSpec

LEMMA FitsNotStale == Fits => NoStaleConfig
<1> SUFFICES ASSUME Fits, server[Self] # "gone", ~forceApply, applied = rev[Self], ~Due(Self, time)
             PROVE  config = Render(Self, time)
  BY DEF NoStaleConfig
<1>0. TablesOK /\ config \in Configs /\ Watermark <= time
  BY DEF Fits, Typed, Ordered
<1>1. ConfigFits(config)
  BY DEF Fits, ConfigCurrent, Current
<1>2. /\ Watermark \in Int /\ time \in Int /\ assigned \subseteq Nodes \X Users
      /\ \A u \in Users : expires[u] \in Int
  BY <1>0, PanelTypes
<1>3. \A a \in assigned : a[1] \in ActiveOn(Self) /\ MayBeServed(a[2]) => Eligible(a[2], time)
  BY <1>0, <1>2 DEF Due, MayBeServed, Eligible, Watermark, ActiveOn
<1>4. \A a \in assigned : Eligible(a[2], time) => Eligible(a[2], Watermark)
  BY <1>0, <1>2 DEF Eligible
<1>5. config.accounts = Accounts(Self, time)
  <2>1. config.accounts \subseteq Accounts(Self, time)
    BY <1>1, <1>3 DEF ConfigFits, AccountsFit, Accounts
  <2>2. Accounts(Self, time) \subseteq config.accounts
    BY <1>1, <1>4 DEF ConfigFits, AccountsFit, Accounts
  <2> QED
    BY <2>1, <2>2
<1> QED
  BY <1>0, <1>1, <1>5 DEF ConfigFits, Render, Configs

LEMMA FitsSyncInv == Fits => SyncInv
<1> SUFFICES ASSUME Fits PROVE SyncOK /\ ServesOnlyEligible
  BY DEF SyncInv
<1>1. SyncOK
  <2>1. time \in Nat /\ MaxTime \in Nat
    BY PanelTypes DEF Fits
  <2> QED
    BY <2>1 DEF Fits, Typed, Polls, SyncOK
<1>2. ServesOnlyEligible
  BY DEF Fits, ConfigCurrent, Current, ConfigFits, AccountsFit, MayBeServed, Watermark,
     ServesOnlyEligible
<1> QED
  BY <1>1, <1>2

\* However torn the panel's answers are, and whatever fails, crashes or is
\* replayed: an agent that the panel calls "current" runs what the panel would
\* render now, unless an expiry is due that the next poll will notice.
THEOREM NeverStale == Orderly => (ConfigSpec => []NoStaleConfig)
BY AlwaysFits, FitsNotStale, PTL DEF Orderly

\* An agent that is current serves nobody who was blocked, unassigned, out of
\* quota or, for the panel, expired; and agent and poll have their types.
THEOREM ServesEligible == Orderly => (ConfigSpec => []SyncInv)
BY AlwaysFits, FitsSyncInv, PTL DEF Orderly
=============================================================================
