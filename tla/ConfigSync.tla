----------------------------- MODULE ConfigSync -----------------------------
(***************************************************************************)
(* How the agent of one server, Self, comes to run what the panel would    *)
(* render for it (module ServerConfig).                                    *)
(*                                                                         *)
(* The agent polls with the revision it applied (internal/agentruntime/    *)
(* loop.go, syncPass).  The handler (internal/web/agent_config.go) is not  *)
(* a transaction: it reads the server's status, the clock, the revision    *)
(* (reconciling expiry on the way) and only then, query by query, the      *)
(* tables the configuration is rendered from, with mutations in between.   *)
(* The answer may be torn; the revision it carries was read first, so a    *)
(* torn answer carries a revision that is already out of date.             *)
(*                                                                         *)
(* Polls end in timeouts, kernels fail to start, the agent crashes and     *)
(* forgets; the polls of the other servers, and those that Self gave up,   *)
(* still reconcile expiry (StrayPoll).                                     *)
(***************************************************************************)
EXTENDS ServerConfig

CONSTANTS
    Self,      \* the server whose agent is modelled
    Overlap,   \* a poll Self gave up may still read the clock after a later
               \* poll did, and reconcile before it
    MaxCrashes \* bound: crashes of the agent

ASSUME SelfAssumption == Self \in Servers
ASSUME OverlapAssumption == Overlap \in BOOLEAN
ASSUME CrashesAssumption == MaxCrashes \in Nat

VARIABLES
    applied,    \* agent: State.AppliedRevision
    forceApply, \* agent: Loop.forceApply
    config,     \* agent: what the kernel runs
    last,       \* agent: Runtime.lastConfig, what it started last
    poll,       \* the poll under way: the handler's local variables
    crashes     \* crashes so far

agent == <<applied, forceApply, config, last, poll, crashes>>
vars  == <<panel, agent>>

\* What a kernel that is down serves.
Nothing == [inbounds |-> {}, accounts |-> {}, exits |-> {}, relays |-> {}]

Stages == {"none", "asked", "checked", "nodes", "users", "user_nodes", "exits",
           "relays", "answered"}

NoPoll == [stage |-> "none", version |-> 0, now |-> 0, revision |-> 0,
           active |-> {}, eligible |-> {}, payload |-> Nothing]

At(stage) == poll.stage = stage

-----------------------------------------------------------------------------
ConfigInit ==
    /\ Init
    /\ applied = 0 /\ forceApply = TRUE
    /\ config = Nothing /\ last = Nothing
    /\ poll = NoPoll
    /\ crashes = 0

\* syncPass: until a configuration was applied the agent asks with 0.
Ask ==
    /\ At("none")
    /\ poll' = [poll EXCEPT !.stage = "asked",
                            !.version = IF forceApply THEN 0 ELSE applied]
    /\ UNCHANGED <<panel, applied, forceApply, config, last, crashes>>

\* 401 for a deleted server, 403 for a disabled one, else read the clock.
CheckServer ==
    /\ At("asked")
    /\ poll' = IF server[Self] = "active"
               THEN [poll EXCEPT !.stage = "checked", !.now = time]
               ELSE NoPoll
    /\ UNCHANGED <<panel, applied, forceApply, config, last, crashes>>

\* ReconcileServerExpiry returns the revision; "current" ends the poll.
ReadRevision ==
    /\ At("checked")
    /\ \/ /\ ReconcileServerExpiry(Self, poll.now)
          /\ poll' = IF poll.version = rev'[Self] THEN NoPoll
                     ELSE [poll EXCEPT !.stage = "nodes", !.revision = rev'[Self]]
       \/ server[Self] = "gone" /\ poll' = NoPoll /\ UNCHANGED panel
    /\ UNCHANGED <<applied, forceApply, config, last, crashes>>

\* ListNodesByServer.  `active` keeps the exit of each node for chainExits.
ReadNodes ==
    /\ At("nodes")
    /\ poll' = [poll EXCEPT
                  !.stage = "users",
                  !.active = {<<n, chain[n]>> : n \in ActiveOn(Self)},
                  !.payload.inbounds = Inbounds(Self)]
    /\ UNCHANGED <<panel, applied, forceApply, config, last, crashes>>

\* ListEligibleUsersByServer.
ReadUsers ==
    /\ At("users")
    /\ LET found == {u \in Users : Eligible(u, poll.now) /\ Self \in ServersOf(u)} IN
       poll' = [poll EXCEPT !.stage = IF found = {} THEN "exits" ELSE "user_nodes",
                            !.eligible = found,
                            !.payload.accounts = {}]
    /\ UNCHANGED <<panel, applied, forceApply, config, last, crashes>>

\* ListNodeIDsByUser, one query for each user read before; of the user's nodes
\* those count that were read before, too.
ReadUserNodes ==
    /\ At("user_nodes")
    /\ \E u \in poll.eligible :
          LET rest == poll.eligible \ {u} IN
          poll' = [poll EXCEPT
                     !.stage = IF rest = {} THEN "exits" ELSE @,
                     !.eligible = rest,
                     !.payload.accounts =
                         @ \cup {a \in assigned : a[2] = u
                                                  /\ \E r \in poll.active : r[1] = a[1]}]
    /\ UNCHANGED <<panel, applied, forceApply, config, last, crashes>>

\* chainExits: ListNodesByIDs for the exits of the nodes read before.
ReadExits ==
    /\ At("exits")
    /\ poll' = [poll EXCEPT
                  !.stage = "relays",
                  !.payload.exits =
                      {<<r[1], r[2], content[r[2]]>> :
                          r \in {q \in poll.active : q[2] # NoNode
                                                     /\ node[q[2]] = "active"}}]
    /\ UNCHANGED <<panel, applied, forceApply, config, last, crashes>>

RelaysRead ==
    {<<chain[e], Home[e]>> :
        e \in {m \in Nodes : node[m] = "active"
                             /\ \E r \in poll.active : r[1] = chain[m]}}

\* Mutant: the revision is read after the tables it is about.
ReadRelaysThenRevision ==
    /\ At("relays")
    /\ poll' = [poll EXCEPT !.stage = "answered", !.payload.relays = RelaysRead,
                            !.revision = rev[Self]]
    /\ UNCHANGED <<panel, applied, forceApply, config, last, crashes>>

\* injectRelayUsers: ListChainEntriesTargetingServer.
ReadRelays ==
    /\ At("relays")
    /\ poll' = [poll EXCEPT !.stage = "answered", !.payload.relays = RelaysRead]
    /\ UNCHANGED <<panel, applied, forceApply, config, last, crashes>>

\* kernel.Start succeeds.
ApplyConfig ==
    /\ At("answered")
    /\ config' = poll.payload /\ last' = poll.payload
    /\ applied' = poll.revision
    /\ forceApply' = FALSE
    /\ poll' = NoPoll
    /\ UNCHANGED <<panel, crashes>>

\* Mutant: the revision counts as applied although the kernel did not start.
ApplyFailsForGood ==
    /\ At("answered")
    /\ config' \in {last, Nothing}
    /\ applied' = poll.revision
    /\ forceApply' = FALSE
    /\ poll' = NoPoll
    /\ UNCHANGED <<panel, last, crashes>>

\* Mutant: a failed start takes the applied revision back.
ApplyFailsBackwards ==
    /\ At("answered")
    /\ config' \in {last, Nothing}
    /\ applied' = applied - 1
    /\ poll' = NoPoll
    /\ UNCHANGED <<panel, forceApply, last, crashes>>

\* kernel.Start fails: the configuration it started last is restored, also when
\* the kernel is down since an earlier failure, or that fails too.
ApplyFails ==
    /\ At("answered")
    /\ config' \in {last, Nothing}
    /\ poll' = NoPoll
    /\ UNCHANGED <<panel, applied, forceApply, last, crashes>>

\* The request or its answer is lost, or the panel restarts.
PollFails ==
    /\ ~At("none")
    /\ poll' = NoPoll
    /\ UNCHANGED <<panel, applied, forceApply, config, last, crashes>>

\* Run starts over with an empty State and no kernel.
Crash ==
    /\ crashes < MaxCrashes
    /\ crashes' = crashes + 1
    /\ applied' = 0 /\ forceApply' = TRUE
    /\ config' = Nothing /\ last' = Nothing
    /\ poll' = NoPoll
    /\ UNCHANGED panel

\* The reconciliation of a poll that is not the one under way.  One that Self
\* gave up read the clock before the later poll did, unless they overlap.
StrayPoll(s, now) ==
    /\ \/ s # Self
       \/ poll.stage \in {"none", "asked"}
       \/ now <= poll.now
       \/ Overlap
    /\ ReconcileServerExpiry(s, now)
    /\ UNCHANGED agent

Serve ==
    \/ CheckServer \/ ReadRevision \/ ReadNodes \/ ReadUsers \/ ReadUserNodes
    \/ ReadExits \/ ReadRelays

Sync == Ask \/ Serve \/ ApplyConfig \/ ApplyFails \/ PollFails \/ Crash

Administer == (Mutate \/ Tick) /\ UNCHANGED agent

ConfigNext ==
    \/ Sync
    \/ Administer
    \/ \E s \in Servers, now \in 0 .. time : StrayPoll(s, now)

ConfigSpec == ConfigInit /\ [][ConfigNext]_vars

-----------------------------------------------------------------------------
Configs ==
    [inbounds : SUBSET (Nodes \X Contents), accounts : SUBSET (Nodes \X Users),
     exits : SUBSET (Nodes \X Nodes \X Contents),
     relays : SUBSET (Nodes \X Servers)]

\* Types of the agent's state and of a poll; the payload is a configuration.
SyncOK ==
    /\ applied \in Nat /\ forceApply \in BOOLEAN /\ crashes \in Nat
    /\ config \in Configs /\ last \in Configs
    /\ poll.stage \in Stages /\ poll.version \in Nat /\ poll.revision \in Nat
    /\ poll.now \in 0 .. time
    /\ poll.active \in SUBSET (Nodes \X Exit) /\ poll.eligible \in SUBSET Users
    /\ poll.payload \in Configs

\* An agent the panel would call "current" runs exactly what the panel would
\* render now, in spite of torn reads, failed starts, crashes and replays,
\* unless an expiry is due that its next poll will notice.
NoStaleConfig ==
    server[Self] # "gone" /\ ~forceApply /\ applied = rev[Self] /\ ~Due(Self, time)
        => config = Render(Self, time)

\* An agent that is current serves nobody who was blocked, unassigned or out
\* of quota, nor anybody whose expiry the watermark has passed: what an
\* administrator who revokes relies on, even while an expiry is due.
ServesOnlyEligible ==
    server[Self] # "gone" /\ ~forceApply /\ applied = rev[Self]
        => \A a \in config.accounts :
              /\ a \in assigned
              /\ status[a[2]] = "active"
              /\ expires[a[2]] > checkedAt[Self]
              /\ depleted[a[2]] => expires[a[2]] <= time

(***************************************************************************)
(* Fairness.  The sync ticker fires again and again, and so often enough   *)
(* each query of the handler and each kernel start succeeds (SF: a failure *)
(* in between starts the poll over).                                       *)
(***************************************************************************)
Fairness ==
    /\ WF_vars(Ask)
    /\ SF_vars(CheckServer)
    /\ SF_vars(ReadRevision)
    /\ SF_vars(ReadNodes) /\ SF_vars(ReadUsers) /\ SF_vars(ReadUserNodes)
    /\ SF_vars(ReadExits) /\ SF_vars(ReadRelays)
    /\ SF_vars(ApplyConfig)

FairSpec == ConfigSpec /\ Fairness

\* Once the administrator and the clock rest, the agent of an active server
\* ends up running what the panel renders, and keeps running it.
Converges ==
    <>[](server[Self] = "active" => config = Render(Self, time))

\* The state of agent and poll has its type, and a current agent serves only
\* who may be served.
SyncInv == SyncOK /\ ServesOnlyEligible
=============================================================================
