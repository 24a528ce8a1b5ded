# Formal models of vps-node

The repository holds two programs. **vps-node** manages proxy servers from one
**panel** (Go, over SQLite); on each server runs an **agent** with an embedded
sing-box **kernel**, which polls the panel for its configuration and reports
traffic, devices and visits. **Trellis** (`.trellis/scripts`, `.codex/hooks`,
Python) keeps the tasks, journals and contexts of the people and AI tools that
work on it, in files that several windows read and write at the same time.
This directory holds TLA+ specifications of the parts of both whose correctness
depends on ordering, failure and time, or on several readers of one text; the TLC
configurations that check them, and TLAPS proofs about them.

    tlc -workers 2 -config TrafficNoLoss.cfg TrafficPipeline.tla
    tlc -workers 2 -config TaskTree.cfg MCTaskTree.tla
    tlapm DeviceReportsProofs.tla

`PROJECT.json` lists the runs, what each definition models (`map`), the mutants
that show each property can fail, and the hazards.

## 1. Inventory

### 1.1 Panel and agent

| part | state | operations | hard behaviour | what makes it correct |
|---|---|---|---|---|
| Agent loop `agentruntime/loop.go` | `lastSeen`, `pending`, frozen batches (traffic, devices, visits) and their index, sequence numbers, applied revision, `forceApply`; all in memory | heartbeat, sync pass, telemetry pass | one goroutine, but every HTTP call can fail after the panel did its part; crash forgets everything | no byte lost or counted twice; converges to the panel's configuration |
| Agent client `agentclient/client.go` | none | attempts with backoff; which statuses are retryable | an attempt given up may still be handled | a retry is the same request |
| Kernel `kernel/singbox` | sing-box instance, tracker: counters per (user, node), live connections, visit buffer | start (swap, restore on failure), snapshot, admission by device limit | connection goroutines against snapshots; the swap starts counters anew | counters never go back within a tracker; device limit |
| Panel: agent API `web/agent*.go` | none of its own | heartbeat, config, traffic, devices, visits | several statements outside one transaction, between them the administrator | a stale or torn answer is never taken for current |
| Telemetry store `repo/telemetry.go`, `repo/visits.go` | `traffic_records`, `users.u/d`, `online_devices`, `users.online_count`, batch markers | ingest traffic, devices, visits | duplicates, late copies, split snapshots, rate scaling | recorded once; counts equal the rows |
| Mutations and revisions `repo/mutations.go`, `repo/revisions.go` | `servers`, `nodes` (chains), `users`, `user_nodes`, `server_revisions` | every admin mutation and its bump; expiry reconciliation; quota crossing | which servers a change concerns; time as a silent mutation | whatever changes a server's configuration bumps it |
| Node chains `repo/nodes.go`, `web/nodes.go` | `nodes.chain_node_id` | loop check before the write | check and write are not one transaction | no loops; exits exist |
| Custom nodes `web/custom_nodes.go` | sources, fetch cache | update, refresh, bump | update and bump are separate | agents learn of new exits |
| Retention `janitor` | old rows | bounded delete loops | deletes the markers deduplication relies on | recorded numbers are not forgotten too early |
| Admin auth `adminauth`, `web/admin_auth.go` | sessions, limiter entries | login, resolve, revoke, sweep | check-then-act between requests | lockout holds; a revoked session stays revoked |
| Subscriptions, sing-box rendering | none | import, entry keys, render | formats | pure functions |
| Statistics, settings, DTOs, HTTP shell, migrations, web UI | | | reads and plumbing | |

How they interact: the agent calls the panel over HTTP (`POST heartbeat`,
`GET config?version=`, `POST traffic|devices|visits`) and its kernel by method
calls from one goroutine. The panel never calls the agent. The handlers share
the database only; a transaction is atomic because SQLite serialises writers, and
one that cannot take the lock fails with a 5xx, which the agent retries. That is
why one transaction is one action in the models, and why statements outside a
transaction are separate actions.

### 1.2 Trellis

| part | state | operations | hard behaviour | what makes it correct |
|---|---|---|---|---|
| Task store `common/task_store.py`, `task.py`, `common/tasks.py` | directories of `.trellis/tasks`, a `task.json` in each, with links to parent and children | create, start, finish, archive, add-subtask, remove-subtask, set-*; list | read, then write, of up to three files; kills; a directory moves away under a command | links two-sided; archive frozen; nothing hidden from the list; progress of a parent never falls |
| Session pointers `common/active_task.py` | a file per window in `.runtime/sessions`, shell tickets | start, finish, archive; lookup by hook, shell command, sub-agent | a shell does not know its window; files are rewritten in place | nobody works on another window's task without being alone |
| Task references `common/task_utils.py`, `common/paths.py` | none | resolve what was typed; store; four readers of what is stored | "..", links, names that end alike | all readers reach one directory, in the repository |
| Journal `add_session.py`, `common/developer.py` | pages `journal-N.md`, `index.md`, `.developer` | init, add session with rotation | no lock; the index is rewritten in place | every listed session is written; numbers 1, 2, 3, ... |
| Automatic commits `add_session.py`, `common/task_store.py`, `common/safe_commit.py` | the git index and HEAD, shared | stage chosen paths and commit | what one command leaves staged, another commits; refused adds | own paths only; an archive never loses the task |
| Context injection `inject-subagent-context.py`, `common/task_context.py` | manifests `*.jsonl`, artifacts | add-context, validate; the hook's reading | limits per file, artifact and total | what was validated arrives; cuts are announced |
| Configuration `common/config.py`, `common/trellis_config.py` | `config.yaml` | parse; settings, in three readers | a part of YAML by hand; readers disagree | settings read back; one side in all readers |
| Workflow text `common/workflow_phase.py`, `inject-workflow-state.py`, `session-start.py` | `workflow.md` | filter by platform; blocks of states; index; steps; state of a task | five readers of one text, by expressions or line by line | they partition it |
| Versions `common/session_context.py` | none | compare | pre-releases | precedence |
| Linear hook `hooks/linear_sync.py` | issues of the service; `linear_issue` in `task.json` | after create, start, archive, or by hand | the call is between read and write; kills; failures | one issue per task, in the task's state |
| Platform tables, display, task queries, git context | none | constant tables, text for display | | |

How they interact: every command is a process of its own, started by a person, an
AI tool's shell or a hook of the tool. They share files only, without locks;
`write_json` replaces a file, everything else is truncated and written. So a step
of the models is one read or one write of one file, and a command may be killed
between any two. The task commands run the Linear hook, the archive clears the
session pointers, and `add_session.py` and the archive end in git.

### 1.3 Hazards

`PROJECT.json` lists 40, each at its line, with the properties that would catch it.
Known, and covered by no property: the loop keeps bytes of a revoked pair in a
batch with others (loop.go:333), freezes visits oldest first (loop.go:502); the
device limit counts the addresses of one tracker (tracker.go:142); the loop check
of a chain is outside the transaction (nodes.go:234), as is the bump after a custom
node changes (custom_nodes.go:540); the sweep deletes markers of an idle agent's
batches (janitor.go:85); a failure after the limiter's window forgets a longer
lockout (limiter.go:42); a session is read and extended in two statements
(adminauth.go:113); scaled bytes saturate, their sum may overflow
(telemetry.go:127); a copy of an older snapshot stored late (telemetry.go:190);
`task.py list` on a cycle (section 5.11).

## 2. Modules

| module | models | lines of code |
|---|---|---|
| `TrafficPipeline` | agent loop, client, kernel counters, network, `handleAgentTraffic`, `IngestTrafficBatch`, revocations, ageing, crashes | loop.go, client.go, agent_telemetry.go, telemetry.go |
| `TrafficLedger` | abstract: bytes are metered once, then charged or written off, for good | docs/api-contract.md, traffic |
| `TrafficPipelineProofs` | the proofs | |
| `ServerConfig` | the tables a configuration is rendered from, every mutation with its bump, expiry reconciliation, quota crossing | mutations.go, revisions.go, telemetry.go |
| `ConfigSync` | extends `ServerConfig` with one agent and its poll, read by read | agent_config.go, loop.go |
| `ConfigSyncProofs` | the proofs about both | |
| `DeviceReports` | device snapshots, their batches, `IngestDeviceBatch`, the other servers' reports, deletions, the sweep of stale rows | loop.go, agent_telemetry.go, telemetry.go, online_devices.go, mutations.go |
| `DeviceReportsProofs` | the proofs | |
| `MCServerConfig`, `MCConfigSync`, `MCDeviceReports` | give nodes their servers for TLC | |
| `TaskTree` | task directories, links, pointers and every command that writes them; list, progress | task_store.py, task.py, tasks.py, io.py |
| `TaskTreeProofs` | the proofs | |
| `SessionPointers` | abstract: a window has a pointer of its own, to a task it asked for | active_task.py |
| `ActiveTask` | context keys, session files, tickets, fallback; start, finish, archive; what prompts and sub-agents get | active_task.py, task.py, both inject hooks |
| `ActiveTaskProofs` | the proofs | |
| `TaskRefs` | references: what is typed, stored, read, compared | paths.py, task_utils.py, active_task.py, session-start.py |
| `Journal` | pages, index, rotation, developer | add_session.py, developer.py |
| `AutoCommit` | extends `Journal` with git and the archive's files | add_session.py, task_store.py, safe_commit.py |
| `AutoCommitProofs` | the proofs | |
| `ContextInjection` | manifest, validation, the hook's reading and budget | inject-subagent-context.py, task_context.py |
| `ConfigFile` | the parser, dispatch mode, limits | config.py, trellis_config.py, inject-workflow-state.py |
| `WorkflowText`, `WorkflowStates` | platform blocks; states, indexes, steps, status | workflow_phase.py, inject-workflow-state.py, session-start.py |
| `Versions` | order of versions | session_context.py |
| `LinearSync` | the hook and the commands it runs after | linear_sync.py, task_utils.py |
| `HookProofs` | the proofs about `ContextInjection` and `LinearSync` | |
| `Readers` | one input of the four modules of pure functions, and what their readers owe each other | those of the four |
| `ReaderProofs` | the proofs about `Readers` | |
| `MCTaskTree`, `MCActiveTask`, `MCAutoCommit`, `MCHooks` | bound the commands, choose serial or overlapping ones, enumerate inputs | |

### TrafficPipeline

A (user, node) pair is a number, its position in the order of the records
(`sort.Slice` by user and node); upload and download are one count. `total` is
the tracker, `lastSeen` and `pending` the maps of the same name, `slot`/`frozen`
the batches of `Loop.inflight` from `inflightIdx` on, kept per pair: a pair is in
at most one frozen batch. `pc` is the position of the loop's only goroutine; an
action of the loop is what it does between two points where something else can
happen (an HTTP call, a kernel swap). `wire` holds requests that may still reach
the handler, `admitted` those whose validation (`agentScopes`, timestamps) is
done and whose transaction is to come, `reply` the answer the agent is about to
read. A handler's answer reaches the agent or is lost (`Answer`); what remains of
a request when the agent stops listening depends on the fault `delay` (the same
process) or `orphan` (after a crash). `kernel` tells a kernel that never started, whose
failed start leaves none, from one that a failed start may restore or leave down.

Faults are switched on per run by the constant `Faults`:

| fault | meaning | in the code |
|---|---|---|
| `crash` | the process dies, all of `Loop` and `State` is gone | agentstate is memory only |
| `blind` | the startup heartbeat fails and the loop goes on | loop.go:176-205 only logs |
| `delay` | a request given up, or a copy of it, is still handled | HTTP timeouts, proxies |
| `orphan` | so is one sent by a process that died | the same |
| `revoke` | the administrator revokes and grants pairs | mutations.go |
| `age` | batches stay frozen for more than 24 h | agent_telemetry.go:47-59 |

Kept as one action or left out: the rate a node's bytes are scaled with, and the
deletion of users and nodes with pending bytes (there is nobody to charge);
`Collection.Traffic` switched off; devices and visits, which have their own
batches and sequence numbers.

### ServerConfig and ConfigSync

Ids are never reused, so the server of a node is the constant `Home`. A node's
settings are one value, `content`; what a user has used against the quota is one
bit. `Render(s, now)` is what `buildAgentConfigPayload` would answer if it ran at
once: inbounds, accounts, exits of the chained entry nodes, relay users on the
exit nodes. Fields that are not rendered (names, rates, tags, inventory) are left
out; so are device and speed limits, custom-node exits and the creation of a
server (it has no nodes and no revision yet, like in `Init`).

Every mutation is one action with exactly the servers the code bumps. Chain
targets are validated before the transaction, so the action allows any exit that
still exists; the foreign key is a guard. `QuotaReached` is the part of
`IngestTrafficBatch` that matters here.

`ConfigSync` follows one poll through the handler's statements: status, clock,
`ReconcileServerExpiry`, nodes, users, the nodes of one user after the other, exits,
relays. Between any two of them the administrator, the clock and other polls may act.
The agent applies the answer, fails to (leaving no kernel, or the last one that started,
`last`, restored), loses it, or crashes.
`StrayPoll` is the reconciliation of any other poll; with `Overlap = FALSE` an
older poll of the same server does not read the clock later than the current one
did, which is the case as long as one agent process runs and its abandoned
requests do not linger.

### DeviceReports

A device is a (user, node, address) the kernel of server `Self` holds a
connection of. `frozen` is `Loop.deviceInflight` from `deviceInflightIdx` on, `pc`,
`wire`, `admitted` and `reply` are as in `TrafficPipeline`. `seenAt` is
`online_devices.last_seen_at` (`Absent` for no row), `count` is
`users.online_count`, `recorded` the numbers in `device_batches`, `auth` is
`user_nodes` and `rows` what servers, nodes and users there are, for the foreign
keys. `Store` is the body of `IngestDeviceBatch`: prune, upsert, refresh. `time`
is the clock in seconds, and `Day` the 24 h of both the acceptance window and the
janitor. The other servers' agents report all they see in one action: what could
go wrong on the way is covered by `Self`. Their reports matter because a user has
one count for all servers.

Left out: the number of connections of a device, `last_online_at`, and the device
limit, which only keeps devices out.

`SnapshotReplaces` says, too, that a batch is never frozen under a number that is
recorded. It needs the requests of a process to die with it (no `orphan`), and
nothing to be rejected while copies are delayed: a copy of an older snapshot that
was validated, outlived a rejection or its sender and is then stored sets
`last_seen_at` back or takes a number, until the next snapshot. `CountMatchesRows`
needs that no node is deleted on its own (finding 5.5). `NeverWedged` is the property that batches
fail and are dropped: the foreign keys turn a deletion between validation and transaction into a retry,
and the retry's validation into a rejection.

### TaskTree

A task is a name; `where` says whether its directory is in `tasks/`, in the
archive or not there, `json` is its `task.json` (status, parent, children; the
other fields are left out), `pointer` the current task of each window. `run` is
the command a window executes, with the copies it has read: each read and each
`write_json` is an action, in the order of the code. `write_json` is atomic and
fails without a word when its directory is gone (`WriteJson`), and a command goes
on all the same. `Find` is the lookup of a name, exact or by ending. `Printed` is
what `task.py list` shows, `ChildDone` how `children_progress` counts.

Left out: dates, months of the archive, commands that are given an archived task by
its path (they do write there; see 5.13 for `start`), and which identity a window
has (`key`: it has one or not), which is the subject of `ActiveTask`.

### SessionPointers, ActiveTask, TaskRefs

A window stands for its context key. `kind` is how its shells learn it: from the
environment, from a ticket, or not at all. `session` is the pointer in its file,
`Torn` while it is being rewritten, or for good. A window issues a command; its
hook may write a ticket; the command runs later, looks its key up once or twice,
and acts on whatever file it finds. `Resolve` is `resolve_active_task` as the hooks
call it, in one look; `finish`, which deletes what it found, reads step by step: the
file of its key, the list of files, the only file (`FinishRead`, `FinishGlob`,
`FinishSole`). A file that is deleted between the truncation and the write of another
command stays deleted, and two writers of one file may leave it torn (`Overwritten`).
`SessionPointers` is what all this promises: a pointer names a task that the window
itself asked for, and a step changes one pointer; `ImplementsPointers` is the
refinement.

`TaskRefs` has paths as sequences of segments, with links and "..": `ResolveDir`
for what is typed, `Stored` for what `set_active_task` keeps of it, `ResolveRef`,
`CurrentTaskAbs`, `SessionStartDir` and `PromptDir` for the four readers, and
`Cleared` for the comparison that an archive makes.

### Journal, AutoCommit

A page is a set of entries (session and number), the index its three generated
parts. `rec` is the command with what it has read; the index is truncated in one
step and written in the next, also the first one. `AutoCommit` adds the working tree (`dir`: a version
per task directory), the git index and HEAD over the paths that the commands name,
and the part of each command that concerns git. An archive rewrites its own file, then
child after child, and then moves. A `git add` may be refused whole,
or stage the part that `.gitignore` allows; a commit may be rejected; `git rm` may
find the index locked. A parallel branch records a session of its own and is
merged with `merge=union` for pages and either side for the index.

### ContextInjection, ConfigFile, WorkflowText, WorkflowStates, Versions

Texts are sequences of lines, each reduced to what a reader looks at (the kind of a
marker, its tag, a key, an indent), a file is the byte lengths of its characters.
`task.py add-context` looks for the path in the text of the manifest, with a slash when it
is a directory; here paths are names of which none is a part of another.
The hook's reading is a state machine, since its budget carries over from one file
to the next; the rest are functions. Each is checked against a definition of what it
stands for that is not written like the code: `TextFor` (a line belongs to the
last marker above it), `ContentOf`, `hidden`, `own` and `Owned` of `workflow.md`, `MapOf`
of the settings that `Render` writes down, and `Key` (precedence of versions as the order
of sequences). `Readers` holds these and the properties, of inputs of any length: a behaviour
is one input and stays at it. `MCHooks` enumerates small ones. The functions that the code
computes in a loop are recursive functions on line numbers, and the parser of `config.yaml` is a
table with an entry for each line and indent, which refers to later lines only: so they can be
proved about.

### LinearSync

`task[t]` is place, status, linear issue and whether the file is whole, `issue`
what the service has. A command changes `task.json` and runs the hook, which reads
it again, calls, and, after a create, writes back what it had read. `oddity` is a
history: that a command on the task failed, overlapped with another, was run by
hand, or restarted an archived task. By hand the hook is run on tasks in `tasks/`
only. The properties say what holds without which.
The push of `prd.md` as a description is left out.

## 3. Runs

| run | what is on | properties | states |
|---|---|---|---|
| `TrafficNoLoss` | crash, revoke, delay | `NoSilentLoss`, `ResumesAboveRecorded` | 1.65 M |
| `TrafficChargedOnce` | crash, blind, delay | `NoDoubleCounting`, `KeyIdentifiesPayload`, `ImplementsLedger` | 1.07 M |
| `TrafficSettled` | crash, age, fairness | `EventuallySettled` | 8 k |
| `ServerConfig` | all mutations, servers unlinked first | `TablesOK`, `RenderChangeBumps`, `ExpiryBumps` | 153 k |
| `ConfigSync` | torn reads, failures, crash | `NoStaleConfig`, `SyncInv` | 1.46 M |
| `ConfigConverges` | fairness | `Converges` | 10 k |
| `DeviceCounts` | blind, revoke, delete users and servers, two servers, sweep, fairness | `TypeOK`, `CountMatchesRows`, `NeverWedged` | 179 k |
| `DeviceSnapshots` | crash, delay, delete nodes | `SnapshotReplaces` | 1.6 M |
| `TaskTree` | 4 commands in turn, or 2 at once; kills | `PointersOK`, `ListHidesOnlyLoops`, `LinksStayTwoSided`, `DoneNeverRegresses`, `ArchiveFrozen` | 1.56 M |
| `Sessions` | 4 commands in turn, or 3 at once; kills, tickets; references of up to 4 segments | `NativeNeverBorrows`, `NoBorrowWhileWriting`, `PointersSound`, `ImplementsPointers`, `LosesOnlyAlone` | 0.90 M |
| `Records` | 5 commands alone, 4 beside a branch, or 3 at once; a kill, refused adds, rejected commits | `HistoryOK`, `ListedSessionsWritten`, `NoPhantomDelete`, `SessionsKept`, `CommitScope`, `CommitKeepsTask` | 2.39 M |
| `Hooks` | inputs of the pure parts; manifests; 4 commands with the Linear hook | `ReadersAgree`, `SettingsReadBack`, `InjectionComplete`, `InlinedWithinTotal`, `WorkflowPartitioned`, `VersionPrecedence`, `OneIssue`, `IssueFollowsTask` | 0.88 M |

All properties hold. `PROJECT.json` says what each run shows; the comment above a
property says what it means and which line of the code promises it. Where a
property is a conjunction, its parts are named: `SyncInv` is `SyncOK` and
`ServesOnlyEligible`, `PointersOK` the types and `NoDanglingPointer`,
`PointersSound` is `PointerLeadsBack`, `ArchiveClearsPointers` and
`NoDanglingSession`, `HistoryOK` the types, `HistoryNumbered` and `PagesBounded`;
those of `ReadersAgree` and `WorkflowPartitioned` are above them in `Readers`.

`NoDoubleCounting` and `NoSilentLoss` bound the same balance (counted + written
off + frozen and not recorded + pending + uncollected) from above and from below.
Each direction needs its own restriction on the environment: rejections can
double (5.1), blind restarts can lose (5.2). An `orphan` also breaks
`NoDoubleCounting`, which takes the bytes of a crashed agent for written off: they
may still be counted, once. Only the weaker `NeverOvercharged` is meant to hold
then.

Many properties of the Trellis modules hold when commands run one at a time, with
kills anywhere (`serial`, `alone`), and not when two overlap, because nothing is
locked. The models say which: a property without `serial` holds for overlapping
commands as well (`ArchiveFrozen`, `NativeNeverBorrows`, `NoBorrowWhileWriting`,
`ImplementsPointers`). Of the journal and its commits that is only the types, `TypeOK`
in `HistoryOK`. What two commands at once do to the others is in section 5.

**Bounds of panel and agent.** Two pairs with `MaxBatchRecords = 1` give two frozen
batches with consecutive numbers; with 2 they share one. `MaxBytes` is what one
pair meters: 1 lets bytes be pending, frozen, under way and recorded; 2, where the
number of faults is smaller, lets bytes be metered while others of the same pair
are frozen. `MaxSeq = 3` suffices for a batch, its successor and a requeue; a
freeze that would exceed it is disabled. `MaxFaults` counts crashes, revocations
and ageings. For the configuration, three nodes on two servers give chains within a
server and between servers in both directions, and an exit with entries on two
servers; `ConfigSync` needs one node on each side. It has one user: what falls between the
queries for two users is covered by the theorems `NeverStale` and `ServesEligible`, of any
number of users. `MaxOps` mutations (four build a
node, a chain, a user and change one of them), `MaxTime` seconds, `MaxCrashes`
crashes. For devices, two users on one node with `MaxBatchRecords = 1` make a
snapshot of two batches (the only size at which a sibling can be lost), and one
user on two nodes of two servers with two addresses tells distinct addresses from
rows. Two instants are a snapshot and a newer one; `DeviceCounts` sets `Day` to 0,
so that at the second the first is stale and its batches are refused.

**Bounds of Trellis.** Three tasks make a parent, a child and a third that either
could be moved to, or whose name ends with that of another; two of them exist at
the start, so that four commands can link, start, archive and create again.
Three windows are two that interact and one that would make a fallback ambiguous.
The sessions of the journal are short, long and longer than a page. A repository
with links in and out, tasks that end alike and directories beside `.trellis` named
like tasks gives `TaskRefs` its cases; all spellings of up to four segments are
tried. Texts have up to six lines, of each kind that a reader tells apart; manifests
up to four rows; limits below, at and above the sizes of the files. A parent and a
child with three issues suffice for a second issue of one and the parent ticket.

All models stop at their bounds, so deadlock is not checked. Symmetry is used where
windows (and tasks without names of their own) are interchangeable, in runs
without liveness.

**Fairness.** `TrafficPipeline`: the goroutine runs (weak fairness on what it
does alone), `select` takes the telemetry ticker again and again (strong, it
competes with the other cases), a request that is retried for ever is handled and
its answer read again and again (strong), and a kernel start ends one way or the
other. `DeviceReports` assumes the same of loop and handler. Nothing is assumed of
the administrator, of faults or of metering. `ConfigSync`: the sync ticker fires,
each step of the handler and the kernel start succeed again and again (strong: a
failure starts the poll over); none for the administrator and the clock. The bounds
make them rest in the end, which is the premise of `Converges`. The Trellis
commands end or are killed, and promise nothing in the long run; their runs check
safety only.

## 4. Proofs

`TrafficPipelineProofs`, for every set of pairs, batch size, bounds:

* `TypeCorrect`: `Spec => []TypeOK`, for all faults.
* `ChargedOnce`: `NoRejection => (Spec => []NoDoubleCounting)`, where
  `NoRejection` says that `revoke`, `age` and `orphan` are off; crashes, blind
  restarts and delayed requests are on or off.
* `LedgerImplemented`: under `NoRejection`, `Spec => ImplementsLedger`.

The invariant is `OnceInv`. `NoDoubleCounting` alone does not survive `Ingest`:
one must know that a copy under way is either of a recorded number, whose
ingestion changes nothing, or of a batch that is still frozen with the very same
bytes (`CopyFrozen`), so that counting it moves bytes from "unsettled" to
"counted". `AckSound` says that an acknowledgement is about the batch waited for.

For agents that are killed and start again:

* `NothingLostSilently`: `InformedRestart => (Spec => []NoSilentLoss)`
* `FreshNumbers`: `InformedRestart => (Spec => ResumesAboveRecorded)`

`InformedRestart` says that `blind` and `orphan` are off; revocations, ageing,
crashes and delays are allowed. The invariant is `NoLossInv`: `SeqsBelow` says
that every number the panel has recorded or may still receive is at most
`batchSeq`, or is the batch being sent, and that frozen batches are not below it.
Then a freeze picks fresh numbers, and an acknowledgement is of the bytes that are
frozen. It fails without the assumption: see 5.2.

* `KeyOfOnePayload`: `NoOrphans => (Spec => []KeyIdentifiesPayload)`, with all other
  faults. `KeyInv` says that all copies under way, and the batch sent next, agree
  where their numbers do; a crash, which starts numbering again, leaves no copies
  when there are no orphans.

`ConfigSyncProofs`, for any servers, nodes, users, settings and length of time, first
about `ServerConfig`:

* `TablesSound`: `Spec => []TablesOK`, inductive as it stands.
* `ChangesBump`: `UnlinksFirst => (Spec => RenderChangeBumps)`
* `ExpiriesBump`: `Spec => ExpiryBumps`

What a server runs depends on the nodes of other servers, as exits and as entries. For
each mutation, lemmas say which of `Inbounds`, `Accounts`, `Exits` and `Relays` it
leaves alone on a server that it does not bump. `DeleteServer` drops the relay users
of its entry nodes from other servers without a bump: finding 5.3, which
`UnlinksFirst` excludes.

then about `ConfigSync`, with any interleaving of poll, mutations, crashes:

* `NeverStale`: `Orderly => (ConfigSpec => []NoStaleConfig)`
* `ServesEligible`: `Orderly => (ConfigSpec => []SyncInv)`

`Orderly` is `UnlinksFirst /\ ~Overlap`; without either there are counterexamples
(5.3, 5.6). The invariant `Fits` follows a poll from read to read: what it
has read fits the tables, unless the revision it read first is no longer the server's.
So a torn answer carries an old revision, and the next poll replaces it. Rows that
only time makes ineligible need no bump until a poll notices, so "fits" leaves the users
between the watermark `checkedAt` and the clock open (`MayBeServed`), and `Ordered`
says how these two and the poll's clock lie.

`DeviceReportsProofs`:

* `TypeCorrect`: `Spec => []TypeOK`, the foreign keys of device rows included
* `OnlineCountCorrect`: `NodesStay => (Spec => []CountMatchesRows)`, where
  `NodesStay` says that no node is deleted on its own.
* `SnapshotTakesOver`: `Informed /\ Lasting => (Spec /\ []Prompt => SnapshotReplaces)`

For the count, the invariant adds only that the users there are have ids in `Users`. The work is
in `RefreshKeepsCounts`: a step may touch the rows of any user it refreshes, and
must leave the addresses of the others as they are. `StoreKeepsCounts`,
`DeleteServerKeepsCounts` and `SweepKeepsCounts` show that the users each
transaction collects before it deletes are enough; `DeleteUserKeepsCounts` that
the user who is gone is the only one concerned. `DeleteNode` refreshes nobody,
which is finding 5.5.

For the snapshot, `SnapInv` says, while the server exists: the frozen batches are
numbered in a row, above all that is recorded but for the first, whose
acknowledgement may be lost (`Numbered`); a request under way is that first batch, or
is recorded, or can never be stored (`InFlight`); what the snapshot saw is stored or is
in a batch to come, and nothing older is left once the first is (`Stored`).
`Informed` (no `blind`, no `orphan`) and `Lasting` (delayed copies, or revocations, not
both) are the limits that section 2 names. `Prompt` says that a transaction begins
within a day of its snapshot. Validation looks at the age and the transaction does
not: a copy validated in time and stored after the agent's retry was rejected as too old
would overwrite a newer snapshot. In the run no more than a day passes.

`ActiveTaskProofs`, for any windows and tasks, any overlap, kills and expiries:

* `SubagentsNeverBorrow`: `Spec => []NativeNeverBorrows`
* `TornFilesKeepTheirWindow`: `Spec => []NoBorrowWhileWriting`
* `PointersImplemented`: `Spec => ImplementsPointers`

A pointer may be written by a command of another window, under a key taken from
a ticket. So the invariant `IInv` follows a task from the request into the ticket
(`TicketAsked`) and the command, to the key that the command has resolved
(`CommandAsked`) and into the file (`SessionAsked`): at each place, the window it
is kept for has asked for it. `ShellKeySound` says that a key that is found is the
window's own or comes with a ticket for the same task; `ResolveSound` what a lookup
finds. `PointerStep` maps each step to a `Set`, `Clear` or `Ask` of one window, or to a
stutter.

Of `MCSpec`, about the behaviours whose commands run one at a time:

* `LostOnlyAlone`: `MCSpec => LosesOnlyAlone`
* `NothingDangles`: `MCSpec => []NoDanglingSession`
* `PointersAreSound`: `MCSpec => []PointersSound`, with the parts `PointersLeadBack` and
  `PointersCleared`, which are about references alone

`TurnInv` adds to `IInv` that one command runs at most (`InTurn`) and what it has chosen
(`Chosen`): a start has found its task in place; a start or finish has the file of its
own window, of one with tickets, or the only one; the files that an archive has still
to look at are all that point to its task. A kill in the middle leaves a torn file or
fewer pointers, and each is still good.

The parts about references hold for any names and any links that keep `FileSystem`
(in `TaskRefs`): directories are known by their real paths, `.trellis` and
`.trellis/tasks` are no links, and a link within `.trellis`, or outside of the
repository, leads strictly below `.trellis` or to a place apart from the repository.
TLC showed that something of the kind is needed: with a link
`.trellis/tasks/src -> <root>/a` and a link `<root>/o -> <root>/src`, the reference `o`
is stored as `a`, which two of the readers take for `.trellis/tasks/a` and the prompt
for `<root>/a`. A
directory known by its real path is reached from each one above it by its own segments
(`WalkBack`), hence a pointer to a directory within `.trellis` leads every reader back
to it (`Back`). Any other reference without ".." stays below `.trellis` or away from the
repository once it is there, whatever links it passes (`SafeWalk`), so that what is stored of
a directory elsewhere in the repository leads to one within `.trellis` (`StoredIs`).

`TaskTreeProofs`, for any tasks and windows, names that end alike, overlap and kills:

* `TypeCorrect`: `Spec => []TypeOK`
* `ArchiveStaysFrozen`: `Spec => ArchiveFrozen`

A command writes back a copy that it has read steps before. The invariant adds
`HoldsCopies` to the types: a command that is about to write holds a `task.json`,
not the lack of one. `WriteStays` and `RunStays` carry it through every step;
`ArchiveFrozen` then follows from what `write_json` does without its directory, and
from the move's own guard.

Of `MCSpec`, whose behaviours are serial or overlap, the properties about serial ones:

* `PointersLeadToTasks`: `MCSpec => []PointersOK`
* `LinksKeptTwoSided`: `MCSpec => LinksStayTwoSided`
* `DoneStaysDone`: `MCSpec => DoneNeverRegresses`

`TurnInv` says that one command runs at most (`InTurn`) and how far it has come
(`InStep`): the copies it holds are what is on disk, but for the link it is about to
write. `Rooted` adds that a task's parent has a `task.json`, so that the write of the
other side is not lost. `AloneStep` gathers what remains to be shown of a step. It
rests on `NoJsonAssumption`, that the lack of a file is not a file.

* `ListShowsTheRest`: `MCSpec => []ListHidesOnlyLoops`, whatever the links are

`Printed` and `Upwards` are closures in as many rounds as there are tasks, and their rounds
are defined by recursion over the numbers. `RoundsExist` and `RoundsClose` show for any
such recursion that it is defined and that it has closed by then: both look at a
smallest set without the property (`Minimal`), and so need finitely many tasks. A
task outside of `Printed` is then either followed upwards to one without a parent, or its
ancestors return to it.

`AutoCommitProofs`, for any sessions, tasks, windows, kills, rejections and merges, when
commands do not overlap:

* `ListedSessionsBacked`: `MCSpec => []ListedSessionsWritten`
* `HistorySound`: `MCSpec => []HistoryOK`; its parts `HistoryGapless`
  (`MCSpec => []HistoryNumbered`) and `PagesWithinLimit` (`MCSpec => []PagesBounded`)
* `NoPhantomDeletes`: `MCSpec => []NoPhantomDelete`
* `SessionsNeverLost`: `MCSpec => SessionsKept`
* `CommitsInScope`: `MCSpec => CommitScope`
* `TasksNeverDropped`: `MCSpec => CommitKeepsTask`

A journal reaches HEAD through the git index, and comes back through a merge, so
`SerialInv` says the same of all its copies (`Journals`): each is `Sound`, its pages
numbered without a gap, its index of what is on them. `Trees` relates, per task, the
working tree, the git index and HEAD: which of `tasks/` and the archive may be where.
`InHand` says what the running command has read, written and staged (`Recording`,
`Committing`, `Scoped`). Without the gapless pages the newest page is not the last,
and a session could be appended to a page that the index does not count.

`AloneInv` bounds the pages as long as there is no branch: a page is `Short`, and a command
that is about to append has found room for its session (`Fits`). `SumMore` says that an
entry more on a page makes it longer by the size of that entry, whatever the order in
which they are added up; again by smallest sets. `HistoryOK` holds the types too, and
these also when commands overlap: `Kinds` is inductive for `Next` alone.

`HookProofs`, about `LinearSync`, for any tasks, parents, processes, failures and issues:

* `OneIssuePerTask`: `LSpec => []OneIssue`

`OneIssue` is about the service alone, so its invariant `LinearInv` follows an issue on
its way to the file. `NumbersOnDisk`, `NumbersHeld` and `IssuesSound` say that a
number, wherever it is kept, is that of an issue of the task it is kept for. `Tidy`
says of a task on which no command failed or overlapped that at most one command is
on it, that what this one holds agrees with the disk (`InStep`), and that an issue is
linked in the file or about to be written by it (`OnDisk`); hence a hook that reads
a file without a number may create one. Other tasks are `Untouched` by a step, and
`OneCommand` gathers what remains to be shown for the one that it is about.

`IssueOfTask`, `LSpec => []IssueFollowsTask`, adds `AllFollow` to `LinearInv`: between
commands an undisturbed task is `Settled`, its issue linked and in the state that its
status calls for; while one runs, file and issue are where that command has brought
them (`Underway`).

and about `ContextInjection`, for any manifest, files, directories and limits:

* `InlinedFits`: `Spec => []InlinedWithinTotal`
* `ContextComplete`: `Spec => []InjectionComplete`; its parts `CutsAreAnnounced`
  (`Spec => []CutIsAnnounced`) and `ValidManifestReaches`
  (`Spec => []ValidMeansComplete`)

`IInv` says that the running total is that of the blocks (`Budgeted`), that what was cut
is too large (`CutLarge`), and that a verdict is about the manifest as it is (`Judged`).
For completeness, `Ordered` says that while the hook runs, the names of the blocks,
followed by the files that the queue stands for (`Pend`), are the files that it stood
for at the start: a directory in the queue stands for its first files, and a file that
is missing for nothing. `CutIs` compares `Truncate`, which goes back over bytes, with the
number of characters that fit; it needs where the bytes of a character lie
(`FirstBytes`, `NextBytes`). Totals, the entries of a manifest and `FlattenSeq` are
defined by recursion over numbers: `RecursionExists` and `UpTo` stand in for the
induction theorems.

`ReaderProofs`, for any words, keys, platforms, states and inputs of any length:

* `HooksAndScriptsAgree`: `RSpec => []ReadersAgree`
* `SettingsComeBack`: `RSpec => []SettingsReadBack`
* `WorkflowIsPartitioned`: `RSpec => []WorkflowPartitioned`
* `VersionsByPrecedence`: `RSpec => []VersionPrecedence`, from `Precedence`

`Readers` takes no steps, so what is to be shown is what the functions return for
every input; each property is then an invariant at once. `RSpec` asks of an input that it is
well typed and, of the topic "settings", that the lines with content are a rendering of the
settings, by any indents. `MCSpec` of `MCHooks` conjoins `RInit` and `RNext`, so that the run
checks instances of these theorems.

The parser: `BlockSame` says that what is read from a line on depends on what is read from
later lines only. Hence the table exists (`TableExists`, made from the last line up), and `Parse`
reads it. Comments and blank lines change nothing (`ContentDecides`): `Placed` says where the
lines with content are among all lines, and `Alike` goes through them from the end. Of
lines with content, `ChainRead` puts the mapping together entry by entry, `LeafRead` and
`SectionRead` say that an entry is read back and where its lines end, and `Layout` where
the lines of each entry are. The attempt at this proof showed that two cases of `Block` in
the model overlapped, where the code tests them in order; the guards now exclude each other.

The text of a mode: `GovernedIs` says that after each line the scan's two flags are those
of the last marker above; `CollapsedIs` and `TrimmedIs` that only blank lines are dropped. The
states: `NextIs` says where the search goes on behind a block, so that blocks do not
overlap; a tag that is closed and named once then has one block (`ProperBlock`). The
indexes: a section that no block crosses has just the blocks that begin in it
(`BeginsWithin`), so that it can be searched alone or as part of the text, and `SectionLeft`
says what is left. The steps and the versions go by the first place where something is found
(`FirstOf`).

Only model-checked:

* liveness: `EventuallySettled`, `Converges`, `NeverWedged`, which rest on fairness.

Every other property of a run is stated by a theorem, with the restrictions that the
property itself names: what says `serial` or `alone` says nothing of overlapping commands
(section 5). The library's induction theorems take an operator as a parameter and cannot
be used here; where an induction is needed it is over finite sets, by a smallest
counterexample, or up to a number (`UpTo`, `RecursionExists`).

## 5. Findings

Where the code does something a reader might not expect. No listed run shows
these; how to see one is said with it where a change of a constant suffices.

1. **Lost acknowledgement, then revocation.** The handler validates before it
   deduplicates: a replay of a recorded batch gets 422, its bytes are requeued and,
   after a new grant, counted again. The contract says that a duplicate returns the
   accepted result. Add `"revoke"` to `Faults` in `TrafficChargedOnce.cfg` and check
   `NeverOvercharged`.
2. **Blind restart.** If the startup heartbeat fails the agent starts from sequence
   1; the panel takes the batches for duplicates and their bytes are gone. Set
   `Faults` to `{"crash", "blind"}` in `TrafficNoLoss.cfg`.
3. **Deleting a server with outgoing chains** leaves its relay users on the exit
   servers until something else bumps them. Set `UnlinksFirst` to `FALSE` in
   `ServerConfig.cfg`.
4. **Deleting a server with an inner chain** fails for ever: the server is bumped
   after its row is gone. Check `DeletionNotBlocked` in `ServerConfig.cfg`.
5. **Deleting a node** removes its `online_devices` rows through the foreign key
   and does not refresh `online_count` (mutations.go:509; the deletion of a server
   does), although docs/api-contract.md:200 says that the count equals the rows'
   distinct addresses. It stays too high until a report concerns the user again.
   Add `"node"` to `Faults` in `DeviceCounts.cfg`.
6. **Overlapping polls** of one server can leave an expired user in a
   configuration that carries the current revision, until the next bump: the clock
   is read before the reconciliation's transaction. It takes two polls at once,
   such as two agent processes. Set `Overlap = TRUE` in `ConfigSync.cfg`.
7. **A character at the limit.** `truncate_utf8` cuts before a character that does
   not fit; when one of several bytes ends exactly at the limit, its lead byte alone
   is kept (inject-subagent-context.py:201-232). `CutAtCharacter` describes it.
8. **`codex: inline`** as a plain value: the hook of every prompt takes it for auto,
   the scripts for inline (inject-workflow-state.py:279-280 "so the two stay in
   lockstep"). `DispatchAgrees` excludes it.
9. **Manifests.** A row that is JSON but no object ends the hook's reading silently,
   and validate with an exception. A smaller file after one that did not fit is still
   inlined, and notices are not bounded. `add-context` refuses a path that is part of
   a longer one in the manifest.
10. **Tickets** are not consumed by use and live for 30 seconds
   (active_task.py:475): a window whose own ticket has expired finds the fresh one
   of another, and finishes or starts there. `LosesOnlyAlone` and
   `ImplementsPointers` bound the damage: only a task the other window asked for.
11. **The list of tasks** shows no task that is linked to itself, on a cycle, or whose
   parent does not list it, and may recurse until Python stops it (task.py:324).
   `create` over an existing directory overwrites its `task.json`
   (task_store.py:318).
12. **Journal and commits.** `init_developer` killed after `.developer` is written
   cannot be run again. A torn `index.md` makes every later session number 1 and the
   command fail. A single large session exceeds "Max 2000 lines" (workflow.md:82).
   Two rotations at once truncate each other's page. A commit takes along what an
   earlier command has left staged (add_session.py:491). The session's commit looks
   for an archived task without its month directory. The result of `git rm` is
   ignored: a phantom delete, when the index is locked.
13. **Linear.** `_write_task` is not atomic, unlike `write_json` (io.py:27-33), and
   writes what was read before the call, wherever the file is by then. A kill between
   call and write makes the next run create a second issue. `task.py start` of an
   archived task, by its path, sets its issue from Done to In Progress.
14. **References.** `task.py start tasks/x` looks at `<root>/tasks/x`, while a
   stored `tasks/x` means `.trellis/tasks/x`; starting a directory outside of
   `.trellis` whose name is that of a task stores a pointer to the task.
15. **State of a task.** A session starts with PLANNING when `prd.md` is missing,
   whatever the status that its prompts show; with a torn `task.json` it shows
   unknown or planning, and the prompts no task. `SessionAgreesWithPrompt` excludes
   both. A state block whose closing marker follows its opening one directly is no
   block for the hook, and its markers stay in the index.

## 6. Plan

1. Proofs: `Journal` and `AutoCommit` when commands overlap, once the properties for that
   case are stated.
2. `Visits`: the two bounded buffers, frozen batches, rejection.
3. `KernelRuntime`: admission by device limit against swaps and restores.
4. `NodeChain`: the loop check outside the transaction; the walk as an operator
   against a reference definition.
5. `CustomNodes`: update, cache and bump as separate statements.
6. `Retention`: markers against `MAX(seq)` and the 24 h window.
7. `AdminAuth`: limiter and sessions.
8. Pure operators: byte scaling, batch cutting, entry keys.

## 7. Not modelled

Of panel and agent: rendering to sing-box JSON, subscription formats, statistics,
settings, DTOs, the HTTP shell, migrations, secrets, metrics collection, the web
UI, and the process shell: plumbing, reads, or text. Of Trellis: the tables that map
platforms to paths and command lines (`cli_adapter.py`), text that is assembled for
display from what the modelled parts store, task queries, and wrappers around git:
constants and reads. The components and the reasons are in `PROJECT.json`.

Of the parts that are modelled these details are left out:

- A session file that is read by a hook is one look, not three reads: a hook only reads.
- A new journal page is written in one step: torn, it would lack its heading and hold the
  same entries, none. A session recorded twice under one number is one entry.
- The pages and `index.md` are one path of git: `.gitignore` refuses both or neither.
- A task that is its own child does not archive. It takes an `add-subtask` of a task to
  itself that is killed between its two writes; then the archived task's source is among
  the paths to add, so that an add that `.gitignore` refuses for the archive alone may
  stage the deletion of the source without its copy (task_store.py:576-593, 663-670).
- `validate` runs on tasks in `tasks/`: it maps entries that an archive has moved
  (task_context.py:173-223) to where they are now, which matters to archived tasks only.
