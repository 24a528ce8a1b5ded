---------------------------- MODULE ServerConfig ----------------------------
(***************************************************************************)
(* What a server's agent should run, and the revision number that says     *)
(* when it changed.                                                        *)
(*                                                                         *)
(* The panel renders a server's configuration from its tables (servers,    *)
(* nodes with their chain exits, users, user_nodes); every mutation of the *)
(* tables is one SQLite transaction that also bumps the revision of the    *)
(* servers it thinks are affected (internal/repo/mutations.go).  Time      *)
(* changes the configuration too: an expired user drops out of it without  *)
(* any mutation, and each poll of an agent reconciles that with a          *)
(* watermark per server (internal/repo/revisions.go).                      *)
(*                                                                         *)
(* Abstractions.  Ids are never reused (AUTOINCREMENT), so the server of a *)
(* node id is a constant.  The settings of a node that end up in a         *)
(* configuration are one value; a user's used bytes and quota are the      *)
(* single bit "depleted".  Chain exits on custom nodes are left out.       *)
(***************************************************************************)
EXTENDS Integers, FiniteSets

CONSTANTS
    Servers,
    Nodes,
    Users,
    Home,         \* Home[n] is the server node n belongs to
    NoNode,       \* chain_node_id IS NULL
    Contents,     \* what an administrator can set a node's settings to
    UnlinksFirst, \* the administrator unlinks a server's entry nodes from the
                  \* exits they have elsewhere before deleting the server
    MaxTime,      \* bound: seconds the clock counts
    MaxOps        \* bound: mutations by the administrator

ASSUME HomeAssumption == Home \in [Nodes -> Servers] /\ NoNode \notin Nodes
ASSUME ContentsAssumption == Contents # {}
ASSUME UnlinksAssumption == UnlinksFirst \in BOOLEAN
ASSUME BoundsAssumption == MaxTime \in Nat /\ MaxOps \in Nat

VARIABLES
    server,    \* servers.status, "gone" after the deletion
    node,      \* nodes.status, "unborn" before and "gone" after the row
    content,   \* nodes.protocol_settings, port, ...
    chain,     \* nodes.chain_node_id
    status,    \* users.status, likewise; "blocked" is any status but active
    expires,   \* users.expires_at; MaxTime + 1 for NULL
    depleted,  \* users.u + users.d >= users.transfer_enable > 0
    assigned,  \* user_nodes
    rev,       \* server_revisions.revision
    checkedAt, \* server_revisions.expiry_checked_at
    time,      \* the panel's clock
    ops,       \* mutations spent so far
    refused    \* history: servers whose deletion the database refused

nodeVars == <<node, content, chain>>
userVars == <<status, expires, depleted>>
tables   == <<server, nodeVars, userVars, assigned>>
panel    == <<tables, rev, checkedAt, time, ops, refused>>

Exit == Nodes \cup {NoNode}
Expiries == 0 .. MaxTime + 1

-----------------------------------------------------------------------------
(***************************************************************************)
(* The configuration of a server.                                          *)
(***************************************************************************)
NodeRow(n) == node[n] \in {"active", "disabled"}
UserRow(u) == status[u] \in {"active", "blocked"}

ActiveOn(s) == {n \in Nodes : Home[n] = s /\ node[n] = "active"}

\* The predicate of ListEligibleUsersByServer.
Eligible(u, now) == status[u] = "active" /\ expires[u] > now /\ ~depleted[u]

Inbounds(s) == {<<n, content[n]>> : n \in ActiveOn(s)}

Accounts(s, now) ==
    {a \in assigned : a[1] \in ActiveOn(s) /\ Eligible(a[2], now)}

\* The outbounds of the entry nodes of s, with the exit's settings in them.
Exits(s) ==
    {<<n, chain[n], content[chain[n]]>> :
        n \in {m \in ActiveOn(s) : chain[m] # NoNode /\ node[chain[m]] = "active"}}

\* The relay users on the exit nodes of s, one per server that enters there.
Relays(s) ==
    {<<chain[e], Home[e]>> :
        e \in {m \in Nodes : node[m] = "active" /\ chain[m] \in ActiveOn(s)}}

Render(s, now) ==
    [inbounds |-> Inbounds(s), accounts |-> Accounts(s, now),
     exits |-> Exits(s), relays |-> Relays(s)]

\* An assigned user whose expiry the panel has not reconciled yet.
Due(s, now) ==
    \E a \in assigned :
        /\ Home[a[1]] = s
        /\ status[a[2]] = "active"
        /\ expires[a[2]] > checkedAt[s] /\ expires[a[2]] <= now

-----------------------------------------------------------------------------
Init ==
    /\ server = [s \in Servers |-> "active"]
    /\ node = [n \in Nodes |-> "unborn"]
    /\ content = [n \in Nodes |-> CHOOSE c \in Contents : TRUE]
    /\ chain = [n \in Nodes |-> NoNode]
    /\ status = [u \in Users |-> "unborn"]
    /\ expires = [u \in Users |-> MaxTime + 1]
    /\ depleted = [u \in Users |-> FALSE]
    /\ assigned = {}
    /\ rev = [s \in Servers |-> 0]
    /\ checkedAt = [s \in Servers |-> 0]
    /\ time = 0 /\ ops = 0 /\ refused = {}

Bump(S) == rev' = [s \in Servers |-> IF s \in S THEN rev[s] + 1 ELSE rev[s]]

\* What every mutation by the administrator has in common.
Mutation ==
    /\ ops < MaxOps
    /\ ops' = ops + 1
    /\ UNCHANGED time

ServersOf(u) == {Home[a[1]] : a \in {b \in assigned : b[2] = u}}
ExitServer(n) == IF chain[n] = NoNode THEN {} ELSE {Home[chain[n]]}
Referencing(n) == {Home[m] : m \in {e \in Nodes : chain[e] = n}}

-----------------------------------------------------------------------------
(***************************************************************************)
(* Users.                                                                  *)
(***************************************************************************)
CreateUser(u, ns, e) ==
    /\ Mutation
    /\ status[u] = "unborn"
    /\ \A n \in ns : NodeRow(n)
    /\ status' = [status EXCEPT ![u] = "active"]
    /\ expires' = [expires EXCEPT ![u] = e]
    /\ assigned' = assigned \cup (ns \X {u})
    /\ Bump({Home[n] : n \in ns})
    /\ UNCHANGED <<server, nodeVars, depleted, checkedAt, refused>>

\* A new expiry in the past makes the user expired; d is what a change of
\* transfer_enable makes of the quota.  Renaming a user bumps nothing and
\* changes nothing here.
UpdateUser(u, st, e, d) ==
    /\ Mutation
    /\ UserRow(u)
    /\ status' = [status EXCEPT ![u] =
                    IF e # expires[u] /\ e < time THEN "blocked" ELSE st]
    /\ expires' = [expires EXCEPT ![u] = e]
    /\ depleted' = [depleted EXCEPT ![u] = d]
    /\ Bump(ServersOf(u))
    /\ UNCHANGED <<server, nodeVars, assigned, checkedAt, refused>>

DeleteUser(u) ==
    /\ Mutation
    /\ UserRow(u)
    /\ status' = [status EXCEPT ![u] = "gone"]
    /\ assigned' = {a \in assigned : a[2] # u}
    /\ Bump(ServersOf(u))
    /\ UNCHANGED <<server, nodeVars, expires, depleted, checkedAt, refused>>

ResetUserTraffic(u) ==
    /\ Mutation
    /\ UserRow(u)
    /\ depleted' = [depleted EXCEPT ![u] = FALSE]
    /\ Bump(ServersOf(u))
    /\ UNCHANGED <<server, nodeVars, status, expires, assigned, checkedAt, refused>>

SetUserNodes(u, ns) ==
    /\ Mutation
    /\ UserRow(u)
    /\ \A n \in ns : NodeRow(n)
    /\ assigned' = {a \in assigned : a[2] # u} \cup (ns \X {u})
    /\ Bump(ServersOf(u) \cup {Home[n] : n \in ns})
    /\ UNCHANGED <<server, nodeVars, userVars, checkedAt, refused>>

SetNodeUsers(n, us) ==
    /\ Mutation
    /\ NodeRow(n)
    /\ \A u \in us : UserRow(u)
    /\ assigned' = {a \in assigned : a[1] # n} \cup ({n} \X us)
    /\ Bump(IF assigned' = assigned THEN {} ELSE {Home[n]})
    /\ UNCHANGED <<server, nodeVars, userVars, checkedAt, refused>>

\* A traffic batch takes the user over the quota (IngestTrafficBatch).
QuotaReached(u) ==
    /\ UserRow(u)
    /\ ~depleted[u]
    /\ depleted' = [depleted EXCEPT ![u] = TRUE]
    /\ Bump(IF Eligible(u, time) THEN ServersOf(u) ELSE {})
    /\ UNCHANGED <<server, nodeVars, status, expires, assigned, checkedAt, time,
                   ops, refused>>

-----------------------------------------------------------------------------
(***************************************************************************)
(* Nodes.  The web handlers check that a chain exit is active and closes   *)
(* no loop before the transaction that writes it: by then the exit may be  *)
(* disabled, or chained itself, but it is still there.                     *)
(***************************************************************************)
CreateNode(n, st, c, x) ==
    /\ Mutation
    /\ node[n] = "unborn" /\ server[Home[n]] # "gone"
    /\ x # NoNode => NodeRow(x)
    /\ node' = [node EXCEPT ![n] = st]
    /\ content' = [content EXCEPT ![n] = c]
    /\ chain' = [chain EXCEPT ![n] = x]
    /\ Bump({Home[n]} \cup (IF x = NoNode THEN {} ELSE {Home[x]}))
    /\ UNCHANGED <<server, userVars, assigned, checkedAt, refused>>

\* Mutant: the servers that chain through the node are forgotten.
UpdateNodeOwnEnds(n, st, c, x) ==
    /\ Mutation
    /\ NodeRow(n)
    /\ x # n /\ (x # NoNode => NodeRow(x))
    /\ node' = [node EXCEPT ![n] = st]
    /\ content' = [content EXCEPT ![n] = c]
    /\ chain' = [chain EXCEPT ![n] = x]
    /\ Bump({Home[n]} \cup ExitServer(n) \cup (IF x = NoNode THEN {} ELSE {Home[x]}))
    /\ UNCHANGED <<server, userVars, assigned, checkedAt, refused>>

UpdateNode(n, st, c, x) ==
    /\ Mutation
    /\ NodeRow(n)
    /\ x # n /\ (x # NoNode => NodeRow(x))
    /\ node' = [node EXCEPT ![n] = st]
    /\ content' = [content EXCEPT ![n] = c]
    /\ chain' = [chain EXCEPT ![n] = x]
    /\ Bump({Home[n]} \cup ExitServer(n) \cup Referencing(n)
              \cup (IF x = NoNode THEN {} ELSE {Home[x]}))
    /\ UNCHANGED <<server, userVars, assigned, checkedAt, refused>>

\* Mutant: nothing looks for the entry nodes of a node before it goes.
DeleteNodeUnguarded(n) ==
    /\ Mutation
    /\ NodeRow(n)
    /\ node' = [node EXCEPT ![n] = "gone"]
    /\ chain' = [chain EXCEPT ![n] = NoNode]
    /\ assigned' = {a \in assigned : a[1] # n}
    /\ Bump({Home[n]} \cup ExitServer(n))
    /\ UNCHANGED <<server, content, userVars, checkedAt, refused>>

\* A node that is the exit of another one cannot be deleted: 409, and the
\* foreign key stands behind it.
DeleteNode(n) ==
    /\ Mutation
    /\ NodeRow(n)
    /\ Referencing(n) = {}
    /\ node' = [node EXCEPT ![n] = "gone"]
    /\ chain' = [chain EXCEPT ![n] = NoNode]
    /\ assigned' = {a \in assigned : a[1] # n}
    /\ Bump({Home[n]} \cup ExitServer(n))
    /\ UNCHANGED <<server, content, userVars, checkedAt, refused>>

-----------------------------------------------------------------------------
(***************************************************************************)
(* Servers.                                                                *)
(***************************************************************************)
UpdateServer(s, st) ==
    /\ Mutation
    /\ server[s] # "gone"
    /\ server' = [server EXCEPT ![s] = st]
    /\ Bump({s})
    /\ UNCHANGED <<nodeVars, userVars, assigned, checkedAt, refused>>

\* DeleteServerCascade: chains into the server are cut, the rows cascade, and
\* the servers whose chains were cut are bumped.  When one of them is the
\* deleted server itself, the bump inserts a revision of a server that is not
\* there any more: the foreign key fails and the transaction is rolled back.
DeleteServer(s) ==
    LET own    == {n \in Nodes : NodeRow(n) /\ Home[n] = s}
        cut    == {m \in Nodes : chain[m] \in own}
        bumped == {Home[m] : m \in cut}
    IN  /\ Mutation
        /\ server[s] # "gone"
        /\ UnlinksFirst => \A n \in own : ExitServer(n) \subseteq {s}
        /\ \/ /\ s \in bumped
              /\ refused' = refused \cup {s}
              /\ UNCHANGED <<tables, rev, checkedAt>>
           \/ /\ s \notin bumped
              /\ server' = [server EXCEPT ![s] = "gone"]
              /\ node' = [n \in Nodes |-> IF n \in own THEN "gone" ELSE node[n]]
              /\ chain' = [m \in Nodes |->
                             IF m \in own \cup cut THEN NoNode ELSE chain[m]]
              /\ assigned' = {a \in assigned : a[1] \notin own}
              /\ rev' = [t \in Servers |->
                           IF t = s THEN 0
                           ELSE IF t \in bumped THEN rev[t] + 1 ELSE rev[t]]
              /\ checkedAt' = [checkedAt EXCEPT ![s] = 0]
              /\ UNCHANGED <<content, userVars, refused>>

-----------------------------------------------------------------------------
(***************************************************************************)
(* Time.                                                                   *)
(***************************************************************************)

\* Mutant: a user who expires in the very second of the poll is not noticed.
ReconcileServerExpiryStrict(s, now) ==
    /\ server[s] # "gone"
    /\ IF now <= checkedAt[s]
       THEN UNCHANGED <<rev, checkedAt>>
       ELSE /\ Bump(IF Due(s, now - 1) THEN {s} ELSE {})
            /\ checkedAt' = [checkedAt EXCEPT ![s] = now]
    /\ UNCHANGED <<tables, time, ops, refused>>

\* One transaction of a poll that read the clock at `now`.
ReconcileServerExpiry(s, now) ==
    /\ server[s] # "gone"
    /\ IF now <= checkedAt[s]
       THEN UNCHANGED <<rev, checkedAt>>
       ELSE /\ Bump(IF Due(s, now) THEN {s} ELSE {})
            /\ checkedAt' = [checkedAt EXCEPT ![s] = now]
    /\ UNCHANGED <<tables, time, ops, refused>>

Tick ==
    /\ time < MaxTime
    /\ time' = time + 1
    /\ UNCHANGED <<tables, rev, checkedAt, ops, refused>>

UserMutation ==
    \E u \in Users :
        \/ \E ns \in SUBSET Nodes : \/ \E e \in Expiries : CreateUser(u, ns, e)
                                    \/ SetUserNodes(u, ns)
        \/ \E st \in {"active", "blocked"}, e \in Expiries, d \in BOOLEAN :
              UpdateUser(u, st, e, d)
        \/ DeleteUser(u) \/ ResetUserTraffic(u) \/ QuotaReached(u)

NodeMutation ==
    \E n \in Nodes :
        \/ \E st \in {"active", "disabled"}, c \in Contents, x \in Exit :
              CreateNode(n, st, c, x) \/ UpdateNode(n, st, c, x)
        \/ DeleteNode(n)
        \/ \E us \in SUBSET Users : SetNodeUsers(n, us)

ServerMutation ==
    \E s \in Servers :
        \/ \E st \in {"active", "disabled"} : UpdateServer(s, st)
        \/ DeleteServer(s)

Mutate == UserMutation \/ NodeMutation \/ ServerMutation

Next ==
    \/ Mutate
    \/ \E s \in Servers, now \in 0 .. time : ReconcileServerExpiry(s, now)
    \/ Tick

Spec == Init /\ [][Next]_panel

-----------------------------------------------------------------------------
\* Every column keeps its type, and a row refers to rows that exist.
TablesOK ==
    /\ server \in [Servers -> {"active", "disabled", "gone"}]
    /\ node \in [Nodes -> {"unborn", "active", "disabled", "gone"}]
    /\ content \in [Nodes -> Contents] /\ chain \in [Nodes -> Exit]
    /\ status \in [Users -> {"unborn", "active", "blocked", "gone"}]
    /\ expires \in [Users -> Expiries] /\ depleted \in [Users -> BOOLEAN]
    /\ rev \in [Servers -> Nat] /\ checkedAt \in [Servers -> 0 .. MaxTime]
    /\ time \in 0 .. MaxTime /\ ops \in Nat /\ refused \subseteq Servers
    /\ assigned \subseteq Nodes \X Users
    /\ \A a \in assigned : NodeRow(a[1]) /\ UserRow(a[2])
    /\ \A n \in Nodes : NodeRow(n) => server[Home[n]] # "gone"
    /\ \A n \in Nodes : chain[n] # NoNode => NodeRow(n) /\ NodeRow(chain[n])

\* A mutation that changes what a server should run, now or at any later
\* time, bumps the server's revision in the same transaction; so does the
\* traffic that takes a user over the quota.  Otherwise the agent is told
\* "current" and keeps serving what it should not.
RenderChangeBumps ==
    [][\A s \in Servers : server'[s] # "gone" =>
         \A t \in time .. MaxTime :
             Render(s, t)' # Render(s, t) => rev'[s] > rev[s]]_panel

\* A poll that moves the watermark over the expiry of a user bumps the
\* revision, whatever else happened to the user: no expiry slips through
\* between two polls.
ExpiryBumps ==
    [][\A s \in Servers, now \in 0 .. MaxTime :
         server'[s] # "gone" /\ checkedAt[s] < now /\ checkedAt'[s] = now =>
             \/ Render(s, now) = Render(s, checkedAt[s])
             \/ rev'[s] > rev[s]]_panel

\* Deleting a server succeeds, whatever chains there are.
DeletionNotBlocked == refused = {}
=============================================================================
