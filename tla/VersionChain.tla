------------------------------ MODULE VersionChain ------------------------------
(***************************************************************************)
(* The version store of one branch (dsh-core/src/state.rs, diff.rs):       *)
(* every published version has a record and a payload, a full snapshot for *)
(* version 1 and for the multiples of CHECKPOINT_INTERVAL, and a diff      *)
(* against the previous content otherwise.  A read rebuilds a version from *)
(* the nearest checkpoint below it and the diffs that follow.              *)
(*                                                                         *)
(* A content (SnapshotMap) is a function from the items that have a value  *)
(* to their values.  The module has no variables: its operators are pure.  *)
(***************************************************************************)
EXTENDS Integers, FiniteSets

CONSTANTS
    CheckpointInterval,  \* CHECKPOINT_INTERVAL (limits.rs), 100 in the code
    NotFound             \* the answer of a read whose payload is missing

ASSUME CheckpointIntervalAssumption == CheckpointInterval \in Nat \ {0}

-----------------------------------------------------------------------------
(* Partial functions as maps: later entries win, as BTreeMap::insert does. *)

EmptyMap == [x \in {} |-> x]

Overlay(f, g) ==
    [x \in DOMAIN f \cup DOMAIN g |-> IF x \in DOMAIN g THEN g[x] ELSE f[x]]

Without(f, S) == [x \in DOMAIN f \ S |-> f[x]]

-----------------------------------------------------------------------------
(* diff.rs *)

\* Mutant: the loop over the old keys is forgotten, deletions are not recorded.
compute_diff_upserts_only(old, new) ==
    [upsert |-> [i \in {j \in DOMAIN new : j \notin DOMAIN old \/ old[j] # new[j]} |-> new[i]],
     delete |-> {}]

compute_diff(old, new) ==
    [upsert |-> [i \in {j \in DOMAIN new : j \notin DOMAIN old \/ old[j] # new[j]} |-> new[i]],
     delete |-> DOMAIN old \ DOMAIN new]

apply_diff(snap, diff) == Without(Overlay(snap, diff.upsert), diff.delete)

-----------------------------------------------------------------------------
(* state.rs: checkpoints, rebuilding, writing and pruning.  A store is a   *)
(* record of three maps keyed by version number:                           *)
(*   recs   the VersionRecord: rollback_of, 0 when it is not a rollback    *)
(*   snaps  the full snapshots (".../v/{no}/snap")                         *)
(*   diffs  the diffs (".../v/{no}/diff")                                  *)

EmptyStore == [recs |-> EmptyMap, snaps |-> EmptyMap, diffs |-> EmptyMap]

IsCheckpoint(v) == v = 1 \/ v % CheckpointInterval = 0

\* The version a rebuild starts from: v itself, or the checkpoint below it.
ChainBase(v) ==
    LET base == ((v - 1) \div CheckpointInterval) * CheckpointInterval
    IN  IF v % CheckpointInterval = 0 THEN v ELSE IF base = 0 THEN 1 ELSE base

FullAt(store, v) == IF v \in DOMAIN store.snaps THEN store.snaps[v] ELSE NotFound

\* One turn of the loop of snapshot_of: "ret" is an early return of the loop.
RebuildStep(store, acc, v) ==
    IF acc.ret THEN acc
    ELSE IF v % CheckpointInterval = 0
         THEN [ret |-> FullAt(store, v) = NotFound, snap |-> FullAt(store, v)]
    ELSE IF v \in DOMAIN store.diffs
         THEN [ret |-> FALSE, snap |-> apply_diff(acc.snap, store.diffs[v])]
    ELSE [ret |-> TRUE, snap |-> FullAt(store, v)]

\* The content of version v, or NotFound: without its base, v is read as a
\* full snapshot; at the first missing diff the loop returns the full
\* snapshot of the version it has reached, if there is one.
snapshot_of(store, v) ==
    LET start == ChainBase(v)
        chain[n \in start..v] ==
            IF n = start THEN [ret |-> FALSE, snap |-> store.snaps[start]]
            ELSE RebuildStep(store, chain[n - 1], n)
    IN  IF v = 0 THEN NotFound
        ELSE IF start \notin DOMAIN store.snaps THEN FullAt(store, v)
        ELSE chain[v].snap

\* write_version_snapshot, for the versions a command writes to one branch:
\* contents maps their numbers to their contents, old is the content the
\* first of them is compared with.
write_versions(store, old, contents, rollback_of) ==
    LET nos == DOMAIN contents
        full == {v \in nos : IsCheckpoint(v)}
        before(v) == IF v - 1 \in nos THEN contents[v - 1] ELSE old
    IN  [recs  |-> Overlay(store.recs, [v \in nos |-> rollback_of]),
         snaps |-> Overlay(store.snaps, [v \in full |-> contents[v]]),
         diffs |-> Overlay(store.diffs,
                       [v \in nos \ full |-> compute_diff(before(v), contents[v])])]

\* Mutant: the lower end is not aligned to a checkpoint.
KeepFromUnaligned(store, keep) ==
    CHOOSE v \in DOMAIN store.recs :
        Cardinality({w \in DOMAIN store.recs : w > v}) = keep

\* The lower end of what prune_versions keeps: the record that has keep later
\* ones, moved down to the checkpoint its chain starts from.
KeepFrom(store, keep) ==
    ChainBase(CHOOSE v \in DOMAIN store.recs :
                  Cardinality({w \in DOMAIN store.recs : w > v}) = keep)

\* The versions prune_versions removes, none when there are at most keep.
PrunedVersions(store, active, keep) ==
    IF Cardinality(DOMAIN store.recs) <= keep THEN {}
    ELSE {v \in DOMAIN store.recs : v < KeepFrom(store, keep) /\ v # active}

prune_versions(store, active, keep) ==
    LET gone == PrunedVersions(store, active, keep)
    IN  [recs  |-> Without(store.recs, gone),
         snaps |-> Without(store.snaps, gone),
         diffs |-> Without(store.diffs, gone)]
=============================================================================
