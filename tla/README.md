# TLA+ verification of the Defing configuration center

Defing is a configuration center: projects declare a *structure* (groups of typed
items), every *branch* of a project (dev, test, prod, ...) edits a draft of values and
publishes it as numbered, immutable versions, and clients read and watch those
versions. A *gray release* shows a draft to some clients before all of them, a *shared
library* holds items that many branches refer to. Commands go through a Raft log
(openraft) and are applied by a deterministic state machine on every node.

This directory holds the TLA+ modules that model the code, the TLC configurations that
check them on small instances, and proofs checked by TLAPS.

## 1. Inventory

Paths are relative to `src/server/crates/` unless they say otherwise.

| Component | State | Operations | Interacts with | What is hard | Modules |
|---|---|---|---|---|---|
| State machine, configuration (`dsh-core/src/state.rs`, `diff.rs`, `keys.rs`, `validator.rs`) | structure and its draft, branch states, value drafts, version records, snapshots and diffs, gray snapshots, shared items and drafts | structure, branch, draft, publish, rollback, gray and shared commands, retention | applied by dsh-raft, read by dsh-api, pruned by dsh-jobs | long command sequences; diff chains and checkpoints; version numbers shared with gray numbers; several versions in one command | `VersionChain`, `ConfigState`, `ConfigHistory` |
| State machine, accounts (`state.rs` 1400-1470, 2556-3240) | root password, administrators of projects (PA) and of all projects (GA), sessions, tokens | create, delete, set password, log in, heartbeat, log out, revoke | dsh-api | accounts made again under an old name, sessions of older servers, deletion by prefix | `Accounts` |
| Raft storage (`dsh-raft/src/store.rs`) | log, last purged, last applied, membership, snapshot registry and files, restore marker, poison flag | append, purge, apply, build, install, recover at start | openraft, the state machine | crashes between transactions, builder beside installation, sweep of files at start | `NodeStore` |
| Raft write path (`dsh-raft/src/raft.rs`) | leader, membership | write a command, name the leader | dsh-api, openraft | retries and redirections after a lost answer | `Requests`, `Membership` |
| Raft transport (`http_network.rs`, `raft_http_server.rs`, `snapshot_stream.rs`) | frames in flight, part files | stream a snapshot, receive, verify, install | openraft, Raft storage | lost, damaged, cut, cancelled and overlapping transfers | `SnapshotTransfer` |
| API (`dsh-api`) | requests in progress, login throttle | HTTP and gRPC handlers, forwarding to the leader | all of the above | a read, some time, a write; flows of several commands | `AuthApi`, `Requests`, `Watch`, `Keys`, `Membership` |
| Publishing service (`dsh-publish`) | - | prepares publications, encrypts secrets | dsh-api, dsh-crypto | the state read may be stale when the command is applied | `Requests` |
| Watch (`dsh-watch`, SDKs in `src/sdk`) | broadcast channels, cursor of a client | broadcast, forward, replay, subscribe, reconnect | dsh-raft, dsh-api | the gap between replay and subscription, lagging receivers | `Watch`, `Feed` |
| Jobs (`dsh-jobs`) | schedule | retention, rewrapping, end of gray releases | the leader's store, the log | scans that are stale when used, writes outside the log | `ConfigState` (`Prune`), `Keys` (`RewrapDeks`), `Requests` (`Job`) |
| Encryption (`dsh-crypto`) | key ring and its file | encrypt, decrypt, rewrap, rotate, load, save | dsh-api, dsh-cli, dsh-jobs | generations that differ between nodes, torn files | `Keys` |
| Command line (`dsh-cli`) | - | start, recover, load keys, join | all of the above | the order of recovery, repeated joins | `NodeStore`, `Keys`, `Membership` |
| Key-value storage, rendering, observability, admin UI, test kit | tables; - ; metrics; - ; - | | | | not modelled |

What goes wrong where, line by line, is the list `hazards` of `PROJECT.json`.

## 2. How the modules fit together

```
VersionChain <- ConfigState <- Requests <------ RequestsProofs     (EXTENDS)
                     ^---- MCGray <- ConfigHistory   |
                     '---- ConfigStateProofs <-------'
Accounts <- AuthApi <- AuthApiProofs               (EXTENDS)
Feed <- Watch <- WatchProofs                       (INSTANCE, refinement; EXTENDS)
NodeStore <- NodeStoreProofs                       (EXTENDS)
SnapshotTransfer <- TransferProofs
Keys <- KeysProofs
Membership <- MembershipProofs
```

`Requests` composes the API, the write path and the job with the state machine of
`ConfigState`, and a theorem says that what they write are its commands; `AuthApi` composes handlers with `Accounts`, and a theorem says that it
implements it; `Watch` implements the abstract `Feed`, which TLC checks and a theorem says.
`MCStable`, `MCGray`, `MCShared`, `MCAuth`, `MCTransfer` and `MCRequests` give constants their values. An operator under a comment `Mutant` is a
plausible slip of the definition after it; `PROJECT.json` says which property it breaks.

## 3. The modules and the code

### VersionChain (`state.rs` 500-640 and 750-830, `diff.rs`)

Pure operators, no variables. A content (`SnapshotMap`) is a function from items to
values. A version store is a record of three maps from version numbers: `recs` (the
`VersionRecord`, of which the field `rollback_of` is kept), `snaps` (full snapshots)
and `diffs`. `write_versions` is `write_version_snapshot`, for one or, in a cascade,
several consecutive versions; `snapshot_of` is the rebuild, with its early return when
a diff is missing, as a recursive function; `prune_versions` with its lower end
`KeepFrom` is the retention rule.

### ConfigState (`state.rs` 1030-2530)

| Variable | Code |
|---|---|
| `structure`, `structDraft` | `Structure` and its draft, keys `.../structure`, `.../structure-draft` |
| `branches` | `BranchState` without the value draft; `None` when the branch does not exist |
| `drafts` | `BranchState::value_draft`; a draft is a map of groups to maps, so a group may be left without items: `groups` keeps them |
| `store`, `graySnaps` | keys `.../v/{n}`, `.../v/{n}/snap`, `.../v/{n}/diff`, `.../gray-snap/{n}` |
| `shared`, `sharedDraft` | keys `sh/{key}` and the shared drafts |
| `published` | history variable: the content each kept version was given |

Every action is one command of `apply_inner`, whole: guards are the early returns,
everything a command saves is in its primed variables. A command that returns an error
drops its batch and is no step; the exception is `SharedPublishAborted`, because
`apply_shared_publish` deletes drafts past the batch. A request that repeats the last
request id is a successful no-op and no step either. `Prune` is the retention job,
branch by branch (the job holds the write lock over all of them).

`SharedPublish` writes one version per bound item: the command walks drafts in key
order, for each of them the branches and their bound items, and each step
(`cascade_to_branch`) reads what the step before buffered. `CascadeRank` is the
position of an item in that walk, `CascadeContent` the content after a prefix of it.

Left out: descriptions, operators, comments, time stamps and audit fields, events,
the version counter of shared items, size limits other than the number of branches,
empty groups inside stored snapshots, other projects. `NamePrefix` says which branch
names are prefixes of which: keys are deleted by prefix, so it is part of the
behaviour.

`ConfigHistory` adds to the instance of `MCGray` two history variables, the request ids
that took effect and the gray numbers that were given, to state what is promised over time.

### Accounts (`state.rs` 1400-1470 and 2556-3240)

The credentials of the state machine, one action per command: projects, the root
password, PA and GA accounts, sessions of the three kinds (with a session id, or under
the key of the first format, `NoSid`), tokens. Passwords are numbered as they are set.
A session carries two history fields, the password that the login had verified
(`proved`) and the one in force when the session was written (`since`). `Fold` is the
folding of names to one case, `Under` the projects whose keys start with the key of
another: `apply_project_delete` deletes by prefix. What is left of a deleted project is
stated for the names that continue no other (`OwnName`), whatever the other names are
(`NoOrphans`); the form for every name is `NothingInherited`, which the code does not have
(`AuthNested.cfg`).

### AuthApi (`dsh-api/src/lib.rs`: login, me/password, admin and session handlers)

A handler reads the state under a lock it gives up, verifies a password (argon2), then
writes one or more commands. `req` is what each handler has established and has still
to do, `fails` the `LoginThrottle`. Login, change of one's own password, setting and
resetting the root password with the log-outs that follow as commands of their own,
administration of accounts, projects and tokens, forced log-outs, heartbeats.
`BreakOff` drops a handler between two of its commands (node death, lost leadership,
deadline), `OldServer` writes the sessions of servers from before session ids,
`TimePasses` expires sessions and `WindowEnds` empties the throttle.

### Requests (`dsh-api/src/lib.rs`, `dsh-publish/src/lib.rs`, `dsh-raft/src/raft.rs`, `dsh-jobs/src/lib.rs`)

Publication, rollback, gray publication, promotion and abort, saving a draft, and
`promote` (values of one branch into the draft of another), each as the request it is:
a handler on some node reads, draws a request id when the client gave none (process id
and counter), prepares the command, writes it at the leader, reads the version to
answer. A node that does not lead forwards the whole request, and the handler there
starts from the beginning. A write may be carried out and not answered, leadership
moves, nodes restart with new process ids and counters at 0. `Job` is the automatic end
of gray releases: it scans, then aborts branch by branch. A handler's read is of the
state the leader has applied.

### NodeStore (`dsh-raft/src/store.rs`)

| Variable | Code |
|---|---|
| `lastLog`, `lastPurged` | the log table and `META_LAST_PURGED`, as `get_log_state` reports them |
| `applied`, `membership` | `META_LAST_APPLIED`, `META_MEMBERSHIP` |
| `body` | the state machine's tables |
| `registry`, `files` | the snapshots table and the payload files in `snapshots/` |
| `marker`, `poisonKey` | `META_RESTORE_BEGIN`, `META_POISON` |
| `phase` | whether the process is down, starting, serving, stopped by openraft after a fatal error, or refused to start |
| `markerOn`, `poisoned`, `current` | the fields of `StateMachineStore` |
| `known` | openraft's own idea of its newest snapshot, up to which it purges |
| `work`, `build` | where the state machine worker (or recovery at start) and the snapshot builder are |

A step is one redb transaction, one file operation or one change of memory; a crash may
fall between any two, and `Faults` says which writes may fail. The log is the committed
one, so entry `i` is the same on every node, and the tables are abstracted to how often
each entry was applied to each part of the key space: a restore writes part after part
(`RestoreBatch`), and a state is right for `last_applied = n` when all parts agree, every
entry up to `n` is in and none after it but possibly the next (`Holds`). Entries of
`MembershipEntry` change the membership and not the tables.

Two tasks run in the process. The worker applies entries and installs snapshots, one at
a time; with `SpawnedBuild` the builder runs beside it, which the code's comments say
openraft may do, and without it they take turns. `Locked` is the write lock that
applying and restoring hold. `MarkerSettings` and `ForceSettings` are the values that
`DSH_RAFT_RESTORE_MARKER` and `DSH_RAFT_RESTORE_FORCE` may have at a start.

What openraft does is external: it applies entries in order, installs only snapshots
ahead of `last_applied`, purges what a snapshot it knows of covers, asks for the current
snapshot at start, and stops at the first error of the state machine. A stopped node
keeps its process: it is an operator who restarts it.

### SnapshotTransfer (`http_network.rs`, `snapshot_stream.rs`, `raft_http_server.rs`, `store.rs`)

One follower, several calls of `full_snapshot` at a time. The emitter reads its file in
pieces, cuts them into chunks and frames them (`Header`, `Chunk`, `End` with length and
checksum); the handler checks order, size, length and checksum, writes a `.part` file,
renames it, hands it to the state machine and waits, and removes what it received. The
state machine copies the payload, registers the copy and removes the one before. Names
are minted from the snapshot and a counter (`snap_file_name`). Calls are cancelled or
cut off, frames lost or damaged, writes fail, handlers are dropped in the middle, the
follower crashes and its start sweeps the directory. Bytes are marked with the snapshot
and the position they come from; a checksum stands for the bytes it was computed of.

### Watch and Feed (`dsh-raft` events, `dsh-watch`, `dsh-api` SSE and gRPC, `src/sdk/go`)

One branch, one node. `Apply` collects events under the lock, `Broadcast` sends them
after it is released, `Forward` moves them to the hub, and ends for good when it lags
(`ForwarderLags`). A stream reads the history (`ReadHistory`), then subscribes, sends the
replay, then the live part, ends when it lags. The client fetches a snapshot,
connects from its cursor, filters as the SDK does, and reconnects. Snapshots replace
entries without events (`InstallSnapshot`), retention removes history (`Prune`), gray
events carry the active version. A stream whose start was pruned (`force`) ends with an event
that asks the listener to fetch; over SSE the client drops it, since its version is the last
one replayed (`client.go:230`). `seen` and `from` of a stream are history: what the node
had applied when the history was read, and where the subscription began. `Feed` is the promise: what a listener hears was
published, and the versions that are not gray come in strictly increasing order.

### Keys (`dsh-crypto`, `dsh-cli/src/main.rs`, `state.rs` 340-420, `dsh-api` rotation)

Per node, the ring in memory, the ring file and the applied prefix of a log of secrets
and rotations. Secrets are encrypted where the request arrives; a rotation carries the
new key wrapped by the current key of the submitting node, and every node that applies
it saves its file (truncate, write), then pushes the key (`LearnKey`), then records
`last_applied` in a transaction of its own (`RecordApplied`): three steps, and a crash after
each. `RewrapDeks` is the job on the leader's store. `InstallSnapshot` takes over another node's store and no keys.
`golden` is the ring after each prefix of the log for a node that missed nothing.

### Membership (`dsh-api` cluster handlers, `membership_retry.rs`, `dsh-cli` join, `raft.rs`)

The membership entries of the log with openraft's joint configurations, as the handlers
see them: join, promote and remove read the membership, then propose a change, again
and again while an earlier one is uncommitted (`RETRY_LIMIT`), and answer after the last
entry is committed. A joining process asks until it is answered and takes 409 for
success. `ChangeLeader` loses uncommitted entries and the calls in progress. Nothing orders
administrators: `Overtaken` names the states in which a promotion waits for its commit while
another promotion or removal of a voter is open, and `PromotionsLast` is about the behaviours
without such a state.

## 4. Runs

| Run | Instance | Shows |
|---|---|---|
| `stable` | one branch, a required text item and a secret, 2 request ids, 6 versions, checkpoint every 3, keep 2 | every kept version rebuilds to what was published (`HistoryRebuilds`), and goes on doing so across retention (`VersionImmutable`) |
| `gray` | one branch, a secret with two ciphertexts whose item leaves the structure and comes back, one referenced item, a gray rule, 5 versions, 4 structure versions | a running gray release is served from exactly the snapshot that clients resolve to (`GrayServable`); a new number is above the active version, and the gray number of a running release never goes back (`VersionNumbersGrow`); no version is read with another's content even where numbers have gaps (`HistoryFaithful`); a publication or gray publication gives a secret the drafted ciphertext or the very one that is published, and nothing else changes it (`SecretsSurvivePublish`) |
| `shared` | two branches, `dev` and `dev2`, one name a prefix of the other; two shared keys, items changing between local and referenced, copies and deletions | a cascade delivers every new value to every bound item (`CascadeDelivers`); a branch made again under a deleted name finds nothing of it (`DeletedLeavesNothing`); `BindingsResolve`, `RefItemsReadOnly` |
| `node_crashes` | 4 entries, 2 batches, 3 payload files, 2 crashes or faults, default settings, builds and installs in turn | what is served is the state of `last_applied` (`StateIsPrefix`); the node never refuses to start (`NeverRefused`); a durable fail-stop can be ended (`PoisonHasWayOut`); a snapshot covers what was purged (`SnapshotCoversPurged`); a node that goes down serves again (`RestartServes`) |
| `node_switches` | 3 entries; marker and force switches chosen at each start; commits of commands may fail too | `last_applied` never goes back nor behind the purged log (`AppliedNeverRegresses`); the fail-stop ends only with a whole state (`PoisonEndsWhole`) |
| `node_builder` | 3 entries; the builder beside the worker; crashes, failing metadata and payload writes | no snapshot is registered that is not whole (`BuiltWhole`) |
| `auth` | two handlers; two names that differ in case and the reserved one; one project; 2 passwords, 2 sessions, one failure allowed | however handlers interleave and break off: no name of two accounts (`NamesExclusive`), no session without its account (`SessionsOwned`) or older than its password (`SessionsUnderPassword`, `RootSessionsUnderPassword`), nothing left of a deleted project whose name continues no other (`NoOrphans`), guesses exceed the limit by less than the number of handlers (`FailuresBounded`) |
| `watch` | one client, both protocols, 2 versions, 2 gray events, channels of one event | every applied version is known to the client of an open stream or still carried by it, a fetch that the client is not told of not counted (`StreamComplete`); the client's view implements `Feed` (`FeedImplemented`); a version that the stream's node applies becomes known to the client or its stream ends (`EventuallyKnown`) |
| `keys` | two nodes, three keys, 4 commands, one crash or failing write | the ring of a node that missed nothing is the one its log gives, or that of the next command where a crash came before `last_applied` was recorded (`RingFollowsLog`); while no node missed a key, all secrets are readable everywhere, at the latest with the rotation a node applies next (`SecretsReadable`); rewrapping never costs a secret (`RewrapKeepsReadable`) |
| `transfer` | two calls, three snapshots (too large, one chunk, a last chunk that is not full), one fault | what is installed is whole (`InstalledWhole`); an acknowledgement means that it is installed (`AckMeansInstalled`); no file is left but those of dropped handlers (`NothingPilesUp`); the newest snapshot arrives (`EventuallyInstalled`) |
| `membership` | three nodes, two voters at first, two calls at a time, 5 entries, 2 tries, one change of leader or crash | a promoted node votes until its removal is asked for, unless its promotion was overtaken (`PromotionsLast`); a node that takes its join for done was made a member by a committed entry (`JoinedWasMember`) |
| `requests` | two nodes, two administrators, one branch with a secret, two saves (a value, a deletion of it), one id chosen by a client, 3 versions, one mishap | a request answered as a repetition was carried out (`AckedTookEffect`); a save overwrites nothing its editor had not seen (`SavesOnSeen`); while the error rate is high every gray release ends (`AutoRollbackEnds`) |

`TypeOK` of `ConfigState`, `NodeStore`, `Watch`, `Keys`, `SnapshotTransfer` and
`Membership`, `RequestsTypeOK`, and `RollbackRestores`, `StructureLockstep`,
`RevokedOpensNothing`, `NoKekTwice` and `AnswerNotOlder` hold on the same instances; they
are stated in the modules, and the configurations leave them out to keep the runs short.
All of them but `AnswerNotOlder` are proved.

### Bounds

Checkpoint interval 3 instead of 100: with 6 versions the runs pass two checkpoints,
with diffs before, between and after. Four structure versions let the item of a secret
leave and come back with a publication on either side. `Keep = 2` makes retention cut inside and at the
border of a chain; `Keep = 9` switches it off where it is not the subject.
`MaxVersion`, `MaxStructure` and `MaxDraftRev` are guards of the actions. `Requests` does
not draft a structure that `MaxStructure` keeps from being published (`StructureStep`). Request ids
are symmetric in `stable` and `gray`.

`NodeStore`: two batches are what it takes for a restore to be half done, three files
for a registered snapshot, an installed one and a built one, and two mishaps for a crash
in the middle of the recovery from the first. `AuthApi`: two handlers are what it takes
for one to change what the other has read; two passwords for an old and a new one; the
reserved name and two names that fold to one are all the cases of a comparison. `Watch`:
channels of one event lag at the second. `Keys`: three keys give two rotations, so that
generations can be out of step by one and by two. `SnapshotTransfer`: two calls overlap,
a chunk of two bytes and reads of one or two make carries happen, `InFlight = 1` lets the
receiver run at every point of the sender. `Membership`: the third node joins, is
promoted and removed while another call works on a voter. `Requests`: every caller has a
request at every stage, and `MaxSeq = 2` lets one process draw two ids, or two of them
one each; a restarted process draws anew. One value that a save may write and its deletion
are what it takes for two editors to differ; two values pass five minutes, and
`SavesAreSeen` covers all of them.

`CHECK_DEADLOCK FALSE` is set where the bounds stop a system that has used them up: the
runs of `NodeStore`, `watch`, `keys`, `transfer`, `membership`, `requests`.

### Fairness

- `NodeStore`: a process that is down is started again (the deployment's supervisor) and
  the recovery at start, straight-line code, goes on to its end. Nothing is assumed of
  clients, peers or the worker, and a node that openraft stopped is not restarted.
- `Watch`: apply, broadcast and forwarder, tasks of the node's runtime, and the steps of
  a stream and of a client's loop, which has no way to give up, go on. Publications,
  faults and retention need not happen.
- `SnapshotTransfer`: openraft's replication retries for ever and sends the newest
  snapshot; files are read and bodies delivered while nothing fails; handlers and the
  worker go on; a follower that is down is restarted. Each task has one weak
  fairness: the caller of a call, its handler, the worker with its process. Faults are bounded by `MaxFaults`,
  so what is shown is that the transfer recovers from them.
- `Requests`: the job, on a timer, goes on. Requests come when they come.
- `ConfigState`, `Accounts`, `AuthApi`, `Keys`, `Membership` only react; nothing is
  assumed.

### Where code and words disagree

Further configurations, which are not among the runs of `PROJECT.json`, each check one
property that a comment, a document, a test or the purpose of the code suggests and the
code does not have; TLC finds it violated. The passing runs use the strongest form that
does hold.

| Configuration (module) | Property | What happens |
|---|---|---|
| `GrayReadable.cfg` (`MCGray`) | `ActiveReadable` | `next_monotonic` (`state.rs:1030`) gives a promoted version, or a structure published during a gray release, a number that skips some, and `snapshot_of` needs every diff: the active version cannot be read. `src/dev_docs/design/gray-release.md:146`: "所有客户端现在都读到新稳定版 6" |
| `SharedAbort.cfg` (`MCGray`) | `SharedDraftsKept` | a cascade that fails has already deleted drafts past its batch (`state.rs:2414`). `src/dev_docs/design-v3.md:236`: "级联中某分支校验失败 → 整批回滚（原子）" |
| `NestedNames.cfg` (`MCShared`) | `PublishedSurvives` | deleting `dev` deletes `dev2`: the prefix has no separator at its end (`state.rs:1572`, `keys.rs:90`), against the guard at `state.rs:1567` |
| `GrayReuse.cfg` (`ConfigHistory`) | `GrayNumbersGrow` | after an abort the next gray release gets a number that was given before (`state.rs:2304`). `dsh-core/src/model.rs:280`: "分支级独立单调递增" |
| `RetryOnce.cfg` (`ConfigHistory`) | `RequestTakesEffectOnce` | only the last request id is remembered (`state.rs:2022`). `src/dev_docs/design-v3.md:231`: "同 request_id 重复发布只生效一次（返回同版本）" |
| `BuilderRace.cfg` (`NodeStore`) | `NeverRefused` | the builder replaces the registry entry of an installation under way and removes its payload (`store.rs:1942`, 1960); after a crash the node refuses to start |
| `BuilderMixed.cfg` (`NodeStore`) | `BuiltWhole` | a builder waiting for the lock dumps the state of a failed restore (`store.rs:1884`). `store.rs:1886`: "refusing to build a snapshot from a mixed state" |
| `CrashExact.cfg` (`NodeStore`) | `BuiltExact` | after a crash between command and `last_applied`, a snapshot's body is newer than its meta (`store.rs:1862`), what the comment at `store.rs:1891` rules out |
| `FlushLost.cfg` (`NodeStore`) | `StateIsPrefix` | a command whose commit fails counts as applied (`store.rs:1852`). `store.rs:1798`: "hard!=None 即 IO/锁错误" |
| `ReadWindow.cfg` (`NodeStore`) | `ReadsSeeWhole` | requests read a mixed state before the poison flag is set (`store.rs:2147`, 1537) |
| `AuthOldPassword.cfg` (`MCAuth`) | `OldPasswordOpensNothing` | a login that verified the old password writes its session after the change. `src/docs/09-admin.md:26`: "立即收回该账号的全部会话" |
| `AuthChange.cfg` (`MCAuth`) | `ChangeReplacesVerified` | a change of one's own password overwrites a reset that came after its verification |
| `AuthNested.cfg` (`MCAuth`) | `NothingInherited` | deleting a project by prefix takes the record of another whose name continues its own, and leaves its accounts to who makes it again (`state.rs:1458`, `keys.rs:38`), against the comments at `state.rs:1467` and 1472 |
| `WatchLost.cfg` (`Watch`) | `NoEventLost` | versions published while a client is away, or between replay and subscription, are passed over. `src/docs/07-tokens.md:70`: "重连携带 `after_version`，不丢事件" |
| `WatchResync.cfg` (`Watch`) | `ResyncHeard` | over SSE the event that tells a client to fetch everything has the version of the last replayed event, and the client drops it (`client.go:230`), against the comment at `dsh-watch/src/lib.rs:66` that it must be handled in addition to the ordinary events |
| `KeysSnapshot.cfg` (`Keys`) | `RotationReachesAll` | a node that got a snapshot instead of the rotations lacks the keys (`store.rs:2120`). `dsh-api/src/lib.rs:4202`: "最终一致" |
| `TransferCleans.cfg` (`MCTransfer`) | `EveryFailureCleans` | a handler that is dropped leaves its `.part`. `raft_http_server.rs:232`: "EVERY failure path after ..." |
| `MembershipRace.cfg` (`Membership`) | `PromotedVotes` | of two promotions at once, the later proposal takes out the voter of the earlier |
| `RequestsPids.cfg` (`MCRequests`) | `AckedTookEffect` | where process ids repeat (containers), a request is answered as the repetition of another (`dsh-api/src/lib.rs:5112`, `FreshPids = FALSE`) |
| `PromoteRace.cfg` (`MCRequests`) | `PromoteKeepsEdits` | a save between promote's read and its write is overwritten. `dsh-api/src/lib.rs:1678`: "目标草稿已修改项默认跳过" |

Five more disagreements were met that no configuration here shows. A save made with
revision 0, from a page opened before the first save, is compared with the draft's revision
like every other one (`Some(0)` is `Some`), and refused with 409 when somebody saved before:
`SavesOnSeen` holds there too. The comments at `state.rs:1774` ("0 = 旧客户端/旧日志，不校验")
and `dsh-publish/src/lib.rs:122` ("0 = 不校验") say that 0 is not checked, while
`src/dev_docs/research-concurrent-edit.md` (lines 55 and 134) has the 409. A shared item
may change its type under its bindings (`state.rs:1973` calls that "正常流程不可达"). In a
store that has no diffs, the fallback of the new reader may return an earlier version
(`state.rs:552`: "退化直读目标版本全量"). The first event of a replay has its changes against
nothing (`grpc.rs:271`: "changes 由相邻快照 diff 得出"). And an acknowledged removal need not take a node
out: it was expected that a removal puts its node out of the membership until it joins
again, and the attempt to prove it showed that a join of the same node between the two
entries of the removal (joint, then final) makes it a member again before the removal is
answered; TLC has the trace with six entries, one more than the bound of `membership`.

`node_crashes` leaves out the failing commit of `FlushLost.cfg` and `node_builder` the
failing restore of `BuilderMixed.cfg`; `NeverRefused` and `SnapshotCoversPurged` are
checked with builds and installs in turn, because of `BuilderRace.cfg` (what is proved of
them is more, section 5). `AckedTookEffect` is checked where no two processes of the cluster
have one pid (`RequestsPids.cfg`); `auth` has names that do not continue one another, and
what it checks of deleted projects is stated for such names only.

## 5. Proofs

`ConfigStateProofs`, for every set of branches, items, shared keys, types, values and
inputs and for every bound:

| Theorem | States |
|---|---|
| `DiffRoundTrip` | `apply_diff(old, compute_diff(old, new)) = new` |
| `TypeCorrect` | `Spec => []StateTypeOK` |
| `StateInvariant` | `Spec => []StateInv`, the inductive invariant |
| `StructureIsShared` | `Spec => []StructureLockstep` |
| `BindingsAlwaysResolve` | `Spec => []BindingsResolve` |
| `ReferencedItemsReadOnly` | `Spec => []RefItemsReadOnly` |
| `GrayAlwaysServable` | `Spec => []GrayServable` |
| `VersionsGrow` | `Spec => VersionNumbersGrow` |
| `DeletionIsWhole` | `Spec => []DeletedLeavesNothing`, whatever names continue others |
| `HistoryInvariant` | `Spec => []HistoryInv`, the inductive invariant of the version history |
| `FullTypeCorrect` | `Spec => []TypeOK`, version store and contents included |
| `HistoryIsFaithful` | `Spec => []HistoryFaithful` |
| `VersionsAreImmutable` | `Spec => VersionImmutable` |
| `RollbacksRestore` | `Spec => []RollbackRestores` |
| `SecretsAreCarried` | `Spec => SecretsSurvivePublish` |
| `HistoryIsWhole` | `Spec => []WholeHistory`, when `GrayRule = {}` |
| `HistoryAlwaysRebuilds` | `Spec => []HistoryRebuilds`, when `GrayRule = {}` |
| `ActiveAlwaysReadable` | `Spec => []ActiveReadable`, when `GrayRule = {}` |
| `CascadeAlwaysDelivers` | `Spec => CascadeDelivers`, when `GrayRule = {}` |

Assumptions: `CheckpointIntervalAssumption`, `ConfigAssumption` (items are a finite set
of numbers, inputs have their types, `None` is not an id, a rule or a key, a name is a
prefix of itself, the number of kept versions and the bounds are numbers, `NotFound` is no
content) and `NoneAssumption` (`None` is no branch state). TLC evaluates them
in every run of `ConfigState`. `GrayRule = {}`, no gray release is ever started, is the
hypothesis of the last four and cannot be dropped: the numbers that a gray release skips
break chains of diffs (`GrayReadable.cfg`). The runs `stable` and `shared`, which check
`HistoryRebuilds` and `CascadeDelivers`, are without gray releases too.

The inductive invariant of the first part is
`StateInv == StateTypeOK /\ ByBranch /\ References`. None of the listed properties is
inductive alone. `BindingsResolve` needs to know that a copied branch takes its
bindings from one that satisfies it and that `PublishStructure` keeps only bindings
whose shared item exists; `RefItemsReadOnly` needs the structure that a draft was
checked against to be the current one; `GrayServable` speaks of branches that do not
exist too, because a branch created later inherits the keys under its name. The
preservation proof has one lemma per action; `ByBranch` groups what an action on one
branch cannot disturb on the others.

The second part is about what a version rebuilds to, through checkpoint and diffs.
`HistoryInv` adds to `StateInv` that every draft, gray snapshot and version is a content,
and of every store that `StoreHolds`: its records are those of the history, the active version
among them and none above it; a checkpoint has a snapshot and every other version a diff; a checkpoint
holds what it was given; and a diff, wherever the version before it is kept, leads from that
version's content to its own. From it follows the one fact that everything else uses
(`RebuiltContent`): `snapshot_of` gives a version the content it was given if its chain is
`Complete`, that is, no number is missing since the last checkpoint, and `NotFound`
otherwise. This is the induction over the chain, done by the least version of the chain at
which the fold is not the content it should be (`LeastNat`); that the fold exists as a
function (`ChainExists`) goes by the least length of a chain without one. `StoreHolds` and `Complete` are kept by the only two things that
write a store: `write_versions`, whose diff is `DiffRoundTrip` (`WrittenStore`,
`WrittenComplete`), and `prune_versions`, which cuts at a checkpoint (`KeepPoint`,
`PrunedStore`). `StoreStep` says that every command does one of these or deletes the branch,
and `HistoryStep` that a version that is kept keeps content and chain. Without gray releases
every chain is complete (`WholeHistory`), because versions are then numbered without gaps.

`AuthApiProofs`, for every set of users, projects, sessions, tokens and handlers, every way of folding names and every bound:

| Theorem | States |
|---|---|
| `AccountsTypeCorrect` | `Spec => []TypeOK` |
| `AccountsSafe` | `Spec => [](NamesExclusive /\ SessionsOwned /\ SessionsUnderPassword)`: the commands alone |
| `ApiTypeCorrect` | `ApiSpec => []ApiTypeOK` |
| `ApiImplementsAccounts` | `ApiSpec => Spec`: every step of the handlers is a command or leaves the credentials alone |
| `NamesStayExclusive`, `SessionsStayOwned`, `SessionsStayUnderPassword` | the three invariants for interleaved handlers, through the refinement |
| `DeletionLeavesNoOrphans` | `ApiSpec => []NoOrphans`, which speaks of the projects whose names continue no other |
| `RootSessionsEnd` | `ApiSpec => []RootSessionsUnderPassword` |
| `FailuresStayBounded` | `ApiSpec => []FailuresBounded`, when there is a handler |
| `RevokedStaysRevoked` | `ApiSpec => RevokedOpensNothing` |

Assumptions: `FoldAssumption`, `UnderAssumption`, `AbsentAssumption`, `BoundsAssumption`
and `ApiAssumption`. What an invariant of the commands needs is only the command that is
carried out, because a command checks again what its handler had read: the refinement
moves `NamesExclusive`, `SessionsOwned` and `SessionsUnderPassword` over as they are.
Two properties are about the handlers themselves. `RootSessionsUnderPassword` is inductive
with the types: the step that makes a root session stale is the one that puts its
handler before the log-out. `FailuresBounded` is not inductive: the strengthening
`ThrottleInv` adds to the failures counted those that handlers which passed the throttle
have still to count (`Pending`), and bounds the sum. `RevokedOpensNothing` needs
`TokensUnique`, that a hash belongs to one token.

`NodeStoreProofs`, for a log of any length, any number of batches, payload files, crashes
and faults, and with the builder in turns or beside the worker:

| Theorem | States | Hypotheses on the constants |
|---|---|---|
| `NodeTypeOK` | `Spec => []TypeOK` | - |
| `AppliedNeverRegressesHolds` | `Spec => AppliedNeverRegresses` | - |
| `PoisonEndsWholeHolds` | `Spec => PoisonEndsWhole` | - |
| `PoisonHasWayOutHolds` | `Spec => []PoisonHasWayOut` | `Marked` |
| `StateIsPrefixHolds` | `Spec => []StateIsPrefix` | `Marked`, `Flushed` |
| `BuiltWholeHolds` | `Spec => []BuiltWhole` | `Marked`, `Flushed`, `Steady` |
| `NeverRefusedHolds` | `Spec /\ []~Overlap => []NeverRefused` | `Marked` |
| `SnapshotCoversPurgedHolds` | `Spec /\ []~Overlap => []SnapshotCoversPurged` | `Marked`, `Flushed`, `Steady` |

`Marked` says that the restore marker is never switched off (its default is on), `Flushed`
that no commit of a command fails, `Steady` that no restore fails where the builder runs
beside the worker. None of them can be dropped: without the marker a half-restored state is
served after a crash, and `FlushLost.cfg` and `BuilderMixed.cfg` are the counterexamples
without the other two. The passing runs satisfy the hypotheses of what they check.

`Overlap` is no assumption on the constants but a state: builder and worker are both between
reading the registry and having removed the file it named. Nothing in the code keeps them
from it when openraft runs the builder beside the worker, and `BuilderRace.cfg` goes through
it. The two theorems say that it is the only way there: a builder beside the worker that dumps
before, during or after an installation, crashes at any step, failing writes and the sweep do
no harm as long as the two registrations do not meet. `ApartInv` is what keeps them apart:
neither knows, as the old file it is about to remove, a file that the other still needs.

`NodeInv` is inductive with every switch and every fault: what may run in which phase, that
every file name in use is one that was made, that the payload a marker or an installation
names is the snapshot it says (or gone), that nobody else knows the file of an installation
before it is registered, what a restore has written so far, part by part, and that no
snapshot is ahead of `last_applied` while none that is being installed is behind it. From
it the two action properties follow. `MarkerInv` adds that a state that is not whole has a
marker, `WholeInv` what is in the tables between two entries, `TurnsInv` and `BuiltInv` what
the builder has in hand, `KeepInv` that the files of registry and marker exist, `NewerInv`
that the builder replaces something older, `ApartInv` that the two stay apart, `CoverInv` that the registered snapshot reaches
as far as openraft may purge. `StateIsPrefix` alone is far from inductive: whether a state
may be served after the next crash depends on which of eight writes of an installation
came last.

`WatchProofs`, for any number of clients, versions and gray events and any capacity of the
channels:

| Theorem | States |
|---|---|
| `WatchTypeOK` | `Spec => []TypeOK` |
| `StreamCompleteHolds` | `Spec => []StreamComplete` |
| `FeedHolds` | `Spec => FeedImplemented`, the refinement of `Feed` |

The invariant is `WatchInv == TypeOK /\ LogInv /\ PipeInv /\ StreamInv`. `LogInv`: versions
grow along the log and each was published by an entry. `PipeInv`: the hub is what was taken
from the channel and, while no snapshot replaced entries, channel and pending events are
together the applied log. `StreamInv` says of a client what its server still owes it:
a replay has new versions in increasing order (`ReplayInv`), the server's `last` is the
client's cursor over gRPC and not ahead of cursor and replay over HTTP (`LastInv`), what the node had applied when the history was read is known or in the replay or, over gRPC,
the stream will be told to fetch (`SeenInv`), what the stream has passed is known (`PassedInv`).
`StreamComplete` follows by looking where in that pipeline entry `n` is. A stream that asks
for a fetch counts as carrying every version over gRPC; over HTTP, where the client drops
that event, its replay has to reach what was applied when the history was read. In the refinement a
publication is `Publish`, a fetch `Anchor`, a received event `Tell`, `TellGray` or
`TellResync`, and an event the client drops, like every other step, a stutter; that the gRPC
client, which filters nothing, hears no version twice rests on `LastInv`.

`KeysProofs`, for any number of nodes, keys, commands and faults:

| Theorem | States |
|---|---|
| `KeysTypeOK` | `Spec => []TypeOK` |
| `RingFollowsLogHolds` | `Spec => []RingFollowsLog` |
| `NoKekTwiceHolds` | `Spec => []NoKekTwice` |
| `SecretsReadableHolds` | `Spec => []SecretsReadable` |
| `RewrapKeepsReadableHolds` | `Spec => RewrapKeepsReadable` |

`RingInv`: rings have the first key first and no key twice, the golden rings follow each
other by one command, a node that saves has torn its file and is about to learn a key, one
that records has learned it, and otherwise file and ring of a node that missed nothing are
the golden ring of its position or of the next. `ReadInv`: golden rings only grow, so that a generation keeps
its key, and every ciphertext names the generation whose key wraps it. The exception in
`SecretsReadable` is real: a node whose ring is ahead may lead, rewrap under the new key and
send its store by snapshot to a node with the same `last_applied`, which has to apply the
rotation before it can read. What the loader makes of a ring file is a
recursive function; that it gives back a proper ring is shown by looking at the least
position where it does not (`LeastNat`, from the well-foundedness of the naturals).

`TransferProofs`, for any number of calls, snapshots, sizes, chunks and faults:

| Theorem | States |
|---|---|
| `TransferTypeOK` | `Spec => []TypeOK` |
| `InstalledWholeHolds` | `Spec => []InstalledWhole` |
| `AckMeansInstalledHolds` | `Spec => []AckMeansInstalled` |
| `NothingPilesUpHolds` | `Spec => []NothingPilesUp` |

`CallInv`: what header, chunks, end, sender and handler of one call speak of is one
snapshot, and what was sent and what is carried over are a prefix of it. `FileInv`: handlers
have names of their own, a queued installation has the whole snapshot on disk, copies and the
registered file are nobody else's. `AckInv`: who waits for an installation has it queued or
needs it no more. That a minted name is fresh needs that only finitely many are taken,
hence `IsFiniteSet(Calls)` among the assumptions.

`MembershipProofs`, for any set of nodes and callers and any number of entries, retries and
changes of leader:

| Theorem | States |
|---|---|
| `MembershipTypeOK` | `Spec => []TypeOK` |
| `JoinedWasMemberHolds` | `Spec => []JoinedWasMember` |
| `PromotionsLastHolds` | `Spec => PromotionsLast`, that is `[]~Overtaken => []PromotedVotes` |

`JoinInv`: at most one entry is uncommitted, voters of an entry were nodes of the one
before, a join that waits for its commit has its node in an entry so far. `PromoteInv`: every
entry a new leader may go back to ends in a set with all acknowledged voters, a promotion
aims at all of them, and every entry from its own on has its node. Two administrators may
work at the same time; what cannot be dropped is that neither changes the voters while the
promotion of the other waits for its commit (`MembershipRace.cfg`).

`RequestsProofs`, for any number of administrators, nodes, requests, restarts and changes of
leader:

| Theorem | States |
|---|---|
| `RequestsImplementState` | `RequestsSpec => Spec`: what handlers, middleware and job write are commands of `ConfigState` |
| `RequestsTypeCorrect` | `RequestsSpec => []RequestsTypeOK` |
| `SavesAreSeen` | `RequestsSpec => SavesOnSeen` |
| `RepetitionsAreOwn` | `RequestsSpec => []GivenTookEffect`, the part of `AckedTookEffect` on ids that clients choose |

The refinement carries every theorem of `ConfigStateProofs` over to the system with its API;
it needs `HistoryInv` below, because the values that `promote` copies are an edit only if
the active version reads as a content. `PagesInv` is behind `SavesOnSeen`: a page, or the
command of a save that came from it, has a revision not above the draft's, and while they
are equal the draft has no value but those seen. A step either raises the revision or only
takes values away (`Counted`): a publication empties a draft without raising its revision,
and a change of the structure removes items. `IdsInv` is behind `GivenTookEffect`:
the id of a call is the one its client chose or one that a handler drew (`RidsInv`), and the
last request of a branch, if a client chose its id, was carried out on this branch
(`LastInv`). It needs nothing of process ids, and says nothing of requests without an id of
their own: two processes with one pid, usual in containers, draw the same ids, and then such a
request is answered and not carried out (`RequestsPids.cfg`). That the ids of clients and of
the job are not among those that handlers draw is `RequestIdsAssumption`, which TLC
evaluates; the code relies on it without checking it, since a client may send any string.

Assumptions: `NodeAssumption`, `WatchAssumption`, `KeysAssumption`, `TransferAssumption`,
`MembershipAssumption`, `RequestsAssumption` and `RequestIdsAssumption` on inputs, bounds and sizes, and in `NodeStore`
and `SnapshotTransfer` a `NoneAssumption`, that `None` is no snapshot, name or path.
`RequestsAssumption` has in it that `DraftInputs` is the set of all edits that can be
written down, because a handler changes the edit it is given. TLC evaluates the assumptions
in the runs. Each inductive invariant was checked by TLC on an instance before it was proved.

Only model-checked:

- liveness (`RestartServes`, `EventuallyKnown`, `EventuallyInstalled`,
  `AutoRollbackEnds`): fairness and `ENABLED` are out of the provers' reach;
- `AckedTookEffect` for requests whose ids the handlers draw, where pids differ;
- `AnswerNotOlder` of `Requests`.

## 6. Not modelled

- **Configuration state machine**: other projects (a shared item's references in their
  listings), limits on names and sizes. An emptied draft publishes what the code
  publishes; no document says what it should.
- **API**: reads without effect on state, listings, backup and export, the audit log,
  routing and JSON, `force` and the item filter of `promote`, and
  `write_shared_draft` as a flow of two steps (`ConfigState` has its command). A follower
  that answers from its older state is the same as an earlier read.
- **Raft**: openraft itself (elections, votes, replication, the uncommitted log), redb and
  the operating system are external. Of the storage: migration of inline payloads and of
  the old `last_purged` format, payload formats, responders. `write_command` repeats a
  command for ten seconds after an error that openraft 0.10 only gives when the node
  stops; that repetition, dev-single mode and a voter with an emptied data directory are
  left out. `append` and `vote` of the transport carry openraft's messages unchanged.
- **Replicas that differ**: retention runs on the leader only, so that a rollback to a
  pruned version fails on one replica and not on another; `ConfigState` is one replica.
- **Watch**: the restart of a node (its streams end and its channels start empty), SDKs
  other than Go, caches of clients on disk.
- **Jobs**: retention of the audit log, the arithmetic of error rates.
- **Encryption**: the ciphers; a ciphertext opens under the key that made it and no other.
- **Key-value storage, rendering, observability, argument parsing, admin UI, test kit**:
  a transaction interface over redb, output only, input only, or tests.
