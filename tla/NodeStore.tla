------------------------------- MODULE NodeStore -------------------------------
(***************************************************************************)
(* The durable storage of one Raft node (dsh-raft/src/store.rs): the log,  *)
(* the state machine's tables with last_applied and membership, the        *)
(* snapshot registry and its payload files, and the protocol that makes an *)
(* interrupted snapshot installation replayable: restore marker, poison    *)
(* flag, sweep and recovery at start.                                      *)
(*                                                                         *)
(* A step is one redb transaction, one file operation or one change of the *)
(* process's memory, so that a crash can fall between any two of them.     *)
(* Two tasks run in the process: openraft's state machine worker, which    *)
(* applies entries and installs snapshots, and the snapshot builder.       *)
(*                                                                         *)
(* The log is the committed one: entry i is the i-th entry of the cluster. *)
(* What the tables hold is a count, per part of the key space, of how many *)
(* times each entry was applied to it; a restore writes part after part.   *)
(***************************************************************************)
EXTENDS Integers, Sequences

CONSTANTS
    MaxIndex,         \* bound: entries of the log
    Batches,          \* batches a restore writes (RESTORE_BATCH_BYTES each)
    MembershipEntry,  \* the entries that change the membership
    SpawnedBuild,     \* openraft runs the builder beside the worker
    MarkerSettings,   \* DSH_RAFT_RESTORE_MARKER at a start
    ForceSettings,    \* DSH_RAFT_RESTORE_FORCE at a start
    Faults,           \* the writes that may fail
    MaxMishaps,       \* bound: crashes and faults
    MaxFiles,         \* bound: payload files made
    None

Index == 1..MaxIndex

Part == 1..Batches

ASSUME NodeAssumption ==
    /\ MaxIndex \in Nat /\ Batches \in Nat \ {0} /\ MaxMishaps \in Nat /\ MaxFiles \in Nat
    /\ MembershipEntry \subseteq Index
    /\ SpawnedBuild \in BOOLEAN
    /\ MarkerSettings \subseteq BOOLEAN /\ ForceSettings \subseteq BOOLEAN
    /\ Faults \subseteq {"flush", "meta", "payload", "restore", "clear", "poison"}

Meta == [at : 0..MaxIndex, members : 0..MaxIndex]

Named == [meta : Meta, file : 1..MaxFiles] \cup {None}

Body == [Part -> [Index -> Nat]]

Snap == [meta : Meta, body : Body]

Work ==
    [pc : {"idle", "record", "mark", "restore", "last_applied", "membership", "old", "registry",
           "remove", "clear", "failed"},
     meta : Meta, file : 0..MaxFiles, old : 1..MaxFiles \cup {None}, part : 0..Batches]

Build ==
    [pc : {"idle", "dump", "write", "check", "old", "registry", "remove", "done"},
     snap : Snap, file : 0..MaxFiles, old : 1..MaxFiles \cup {None}]

\* None is no snapshot, no entry of the registry and no file name.
ASSUME NoneAssumption ==
    None \notin Snap /\ None \notin [meta : Meta, file : 1..MaxFiles] /\ None \notin Nat

VARIABLES
    \* durable
    lastLog,     \* index of the last log entry
    lastPurged,  \* META_LAST_PURGED: the log starts after it
    applied,     \* META_LAST_APPLIED
    membership,  \* META_MEMBERSHIP: the entry it comes from
    body,        \* the state machine's tables
    registry,    \* snapshots table: meta and payload file, or None
    marker,      \* META_RESTORE_BEGIN: meta and payload file, or None
    poisonKey,   \* META_POISON
    files,       \* payload files in the order of their names, None once removed
    \* the process
    phase,       \* "down", "boot", "up", "halted" (openraft stopped), "refused"
    markerOn,    \* restore_marker
    poisoned,    \* StateMachineStore::poisoned
    current,     \* current_snapshot
    known,       \* index of the newest snapshot openraft knows of
    work,        \* the worker, or the recovery at start
    build,       \* the builder
    mishaps      \* crashes and faults so far

logVars == <<lastLog, lastPurged>>
tableVars == <<applied, membership, body>>
restoreVars == <<marker, poisonKey>>
processVars == <<phase, markerOn, poisoned, current, known>>
vars == <<lastLog, lastPurged, applied, membership, body, registry, marker, poisonKey, files,
          phase, markerOn, poisoned, current, known, work, build, mishaps>>

-----------------------------------------------------------------------------
(* Log prefixes and snapshots *)

\* The membership entry in force after entry n, 0 before the first.
MembershipAt(n) ==
    LET set == {i \in MembershipEntry : i <= n}
    IN  IF set = {} THEN 0 ELSE CHOOSE i \in set : \A j \in set : j <= i

\* How often each entry is applied in the state after entry n.
Prefix(n) == [i \in Index |-> IF i <= n /\ i \notin MembershipEntry THEN 1 ELSE 0]

MetaAt(n) == [at |-> n, members |-> MembershipAt(n)]

\* The snapshot of another node that has applied n entries.
SnapshotAt(n) == [meta |-> MetaAt(n), body |-> [p \in Part |-> Prefix(n)]]

Exists(f) == f \in DOMAIN files /\ files[f] # None

Removed(fs, gone) == [f \in DOMAIN fs |-> IF f \in gone THEN None ELSE fs[f]]

\* get_current_snapshot
CurrentSnapshot ==
    IF poisoned THEN None
    ELSE IF current # None THEN current
    ELSE IF registry # None /\ Exists(registry.file) THEN registry
    ELSE None

Idle == [pc |-> "idle", meta |-> MetaAt(0), file |-> 0, old |-> None, part |-> 0]

IdleBuild == [pc |-> "idle", snap |-> SnapshotAt(0), file |-> 0, old |-> None]

\* openraft learns of a snapshot that was built or installed.
Learns(n) == known' = IF n > known THEN n ELSE known

\* The worker holds the write lock of the state machine.
Locked == work.pc \in {"record", "restore", "last_applied", "membership", "old", "registry"}

-----------------------------------------------------------------------------
(* The log *)

\* LogStore::append
AppendLog ==
    /\ phase = "up" /\ lastLog < MaxIndex
    /\ lastLog' = lastLog + 1
    /\ UNCHANGED <<lastPurged, tableVars, registry, restoreVars, files, processVars,
                   work, build, mishaps>>

\* get_log_state: the last entry, or the purge position of an empty log.
LogEnd(last, purged) == IF purged > last THEN purged ELSE last

\* LogStore::purge, called by openraft for entries that its snapshot covers;
\* it may go past the end of a log that a snapshot has overtaken.
Purge(n) ==
    /\ phase = "up"
    /\ n > lastPurged /\ n <= known
    /\ lastPurged' = n
    /\ lastLog' = LogEnd(lastLog, n)
    /\ UNCHANGED <<tableVars, registry, restoreVars, files, processVars, work, build, mishaps>>

-----------------------------------------------------------------------------
(* Applying entries *)

\* The worker takes the next task; without SpawnedBuild it waits for a build.
WorkerFree == phase = "up" /\ work.pc = "idle" /\ (SpawnedBuild \/ build.pc = "idle")

NextEntry == applied + 1

MayApply == WorkerFree /\ applied < lastLog /\ lastPurged < NextEntry /\ ~poisoned

\* sm.apply commits the command's batch, or write_membership the membership.
ApplyEntry ==
    /\ MayApply
    /\ IF NextEntry \in MembershipEntry
       THEN membership' = NextEntry /\ body' = body
       ELSE membership' = membership
            /\ body' = [p \in Part |-> [body[p] EXCEPT ![NextEntry] = @ + 1]]
    /\ work' = [work EXCEPT !.pc = "record", !.meta = [at |-> NextEntry, members |-> 0]]
    /\ UNCHANGED <<logVars, applied, registry, restoreVars, files, processVars, build, mishaps>>

\* sm.apply fails to commit.  Its error is that of a refused command: the entry
\* counts as applied.
ApplyLost ==
    /\ "flush" \in Faults /\ mishaps < MaxMishaps
    /\ MayApply /\ NextEntry \notin MembershipEntry
    /\ work' = [work EXCEPT !.pc = "record", !.meta = [at |-> NextEntry, members |-> 0]]
    /\ mishaps' = mishaps + 1
    /\ UNCHANGED <<logVars, tableVars, registry, restoreVars, files, processVars, build>>

\* write_last_applied, in a transaction of its own.
RecordApplied ==
    /\ work.pc = "record"
    /\ applied' = work.meta.at
    /\ work' = Idle
    /\ UNCHANGED <<logVars, membership, body, registry, restoreVars, files, processVars,
                   build, mishaps>>

\* A failing write_membership or write_last_applied stops openraft.
ApplyFails ==
    /\ "meta" \in Faults /\ mishaps < MaxMishaps
    /\ work.pc = "record" \/ (MayApply /\ NextEntry \in MembershipEntry)
    /\ phase' = "halted"
    /\ work' = Idle
    /\ mishaps' = mishaps + 1
    /\ UNCHANGED <<logVars, tableVars, registry, restoreVars, files, markerOn, poisoned,
                   current, known, build>>

\* A poisoned state machine refuses to apply, which stops openraft.
ApplyRefused ==
    /\ WorkerFree /\ applied < lastLog /\ poisoned
    /\ phase' = "halted"
    /\ UNCHANGED <<logVars, tableVars, registry, restoreVars, files, markerOn, poisoned,
                   current, known, work, build, mishaps>>

-----------------------------------------------------------------------------
(* Installing a snapshot.  Recovery at start runs the same steps.           *)

\* The payload is verified and copied to a file of this node.
InstallSnapshot(n) ==
    /\ WorkerFree
    /\ n > applied /\ Len(files) < MaxFiles
    /\ files' = Append(files, SnapshotAt(n))
    /\ work' = [work EXCEPT !.pc = "mark", !.meta = MetaAt(n), !.file = Len(files) + 1]
    /\ UNCHANGED <<logVars, tableVars, registry, restoreVars, processVars, build, mishaps>>

\* Mutant: the marker is not written.
WriteMarkerNever ==
    /\ work.pc = "mark"
    /\ work' = [work EXCEPT !.pc = "restore", !.part = 1]
    /\ UNCHANGED <<logVars, tableVars, registry, restoreVars, files, processVars, build, mishaps>>

\* The marker is written before the state machine is touched.
WriteMarker ==
    /\ work.pc = "mark"
    /\ marker' = IF markerOn THEN [meta |-> work.meta, file |-> work.file] ELSE marker
    /\ work' = [work EXCEPT !.pc = "restore", !.part = 1]
    /\ UNCHANGED <<logVars, tableVars, registry, poisonKey, files, processVars, build, mishaps>>

\* Mutant: every batch replaces everything, as restore_all would.
RestoreBatchClearing ==
    LET p == work.part
    IN  /\ work.pc = "restore"
        /\ body' = [q \in Part |-> IF q = p THEN files[work.file].body[p] ELSE Prefix(0)]
        /\ work' = IF p < Batches THEN [work EXCEPT !.part = p + 1]
                   ELSE [work EXCEPT !.pc = "last_applied"]
        /\ UNCHANGED <<logVars, applied, membership, registry, restoreVars, files,
                       processVars, build, mishaps>>

\* restore_stream: the first batch replaces everything, the others are added.
RestoreBatch ==
    LET p == work.part
        batch == files[work.file].body[p]
    IN  /\ work.pc = "restore"
        /\ body' = [q \in Part |-> IF q = p THEN batch ELSE IF p = 1 THEN Prefix(0) ELSE body[q]]
        /\ work' = IF p < Batches THEN [work EXCEPT !.part = p + 1]
                   ELSE [work EXCEPT !.pc = "last_applied"]
        /\ UNCHANGED <<logVars, applied, membership, registry, restoreVars, files,
                       processVars, build, mishaps>>

RestoreLastApplied ==
    /\ work.pc = "last_applied"
    /\ applied' = work.meta.at
    /\ work' = [work EXCEPT !.pc = "membership"]
    /\ UNCHANGED <<logVars, membership, body, registry, restoreVars, files, processVars,
                   build, mishaps>>

RestoreMembership ==
    /\ work.pc = "membership"
    /\ membership' = work.meta.members
    /\ work' = [work EXCEPT !.pc = "old"]
    /\ UNCHANGED <<logVars, applied, body, registry, restoreVars, files, processVars,
                   build, mishaps>>

\* persist_snapshot_registry reads the old file in a transaction of its own.
RestoreOld ==
    /\ work.pc = "old"
    /\ work' = [work EXCEPT !.pc = "registry",
                           !.old = IF registry = None THEN None ELSE registry.file]
    /\ UNCHANGED <<logVars, tableVars, registry, restoreVars, files, processVars, build, mishaps>>

RestoreRegistry ==
    /\ work.pc = "registry"
    /\ registry' = [meta |-> work.meta, file |-> work.file]
    /\ work' = [work EXCEPT !.pc = "remove"]
    /\ UNCHANGED <<logVars, tableVars, restoreVars, files, processVars, build, mishaps>>

\* Mutant: the file that the registry had named goes in any case.
RemoveOldAlways ==
    /\ work.pc = "remove"
    /\ files' = Removed(files, {work.old})
    /\ work' = [work EXCEPT !.pc = "clear"]
    /\ UNCHANGED <<logVars, tableVars, registry, restoreVars, processVars, build, mishaps>>

\* The file that the registry had named goes, unless it is the new one.
RemoveOld ==
    /\ work.pc = "remove"
    /\ files' = Removed(files, {work.old} \ {work.file})
    /\ work' = [work EXCEPT !.pc = "clear"]
    /\ UNCHANGED <<logVars, tableVars, registry, restoreVars, processVars, build, mishaps>>

\* Mutant: the marker is cleared, the poison key in a later transaction.
ClearedMarkerOnly == marker' = None /\ UNCHANGED poisonKey

\* Marker and poison key are cleared in one transaction.
ClearedRestore == marker' = None /\ poisonKey' = FALSE

\* The end of install_snapshot.
InstallDone ==
    /\ work.pc = "clear" /\ phase = "up"
    /\ ClearedRestore
    /\ poisoned' = FALSE
    /\ current' = [meta |-> work.meta, file |-> work.file]
    /\ Learns(work.meta.at)
    /\ work' = Idle
    /\ UNCHANGED <<logVars, tableVars, registry, files, phase, markerOn, build, mishaps>>

\* The copy or the marker cannot be written: openraft stops, nothing is harmed.
InstallRejected ==
    /\ "payload" \in Faults /\ mishaps < MaxMishaps
    /\ work.pc = "mark"
    /\ phase' = "halted"
    /\ work' = Idle
    /\ mishaps' = mishaps + 1
    /\ UNCHANGED <<logVars, tableVars, registry, restoreVars, files, markerOn, poisoned,
                   current, known, build>>

\* A write fails after the marker: restore_and_persist_inner returns and
\* releases the lock, or the marker cannot be cleared.
RestoreFails ==
    /\ mishaps < MaxMishaps /\ phase = "up"
    /\ \/ "restore" \in Faults
          /\ work.pc \in {"restore", "last_applied", "membership", "old", "registry"}
       \/ "clear" \in Faults /\ work.pc = "clear"
    /\ work' = [work EXCEPT !.pc = "failed"]
    /\ mishaps' = mishaps + 1
    /\ UNCHANGED <<logVars, tableVars, registry, restoreVars, files, processVars, build>>

\* poison: the flag in memory and the durable key, whose write may fail.
Poison ==
    /\ work.pc = "failed"
    /\ poisoned' = TRUE
    /\ \/ poisonKey' = TRUE /\ UNCHANGED mishaps
       \/ "poison" \in Faults /\ mishaps < MaxMishaps
          /\ mishaps' = mishaps + 1 /\ UNCHANGED poisonKey
    /\ phase' = "halted"
    /\ work' = Idle
    /\ UNCHANGED <<logVars, tableVars, registry, marker, files, markerOn, current, known, build>>

-----------------------------------------------------------------------------
(* Building a snapshot *)

BuilderFree == phase = "up" /\ build.pc = "idle" /\ (SpawnedBuild \/ work.pc = "idle")

BuildStart ==
    /\ BuilderFree /\ ~poisoned /\ Len(files) < MaxFiles
    /\ build' = [build EXCEPT !.pc = "dump"]
    /\ UNCHANGED <<logVars, tableVars, registry, restoreVars, files, processVars, work, mishaps>>

\* A poisoned state machine refuses to build, which stops openraft.
BuildRefused ==
    /\ BuilderFree /\ poisoned
    /\ phase' = "halted"
    /\ UNCHANGED <<logVars, tableVars, registry, restoreVars, files, markerOn, poisoned,
                   current, known, work, build, mishaps>>

\* Mutant: the read lock is not taken.
MayDumpUnlocked == build.pc = "dump"

MayDump == build.pc = "dump" /\ ~Locked

\* Meta and body are read under one read lock.
BuildDump ==
    /\ MayDump
    /\ build' = [build EXCEPT !.pc = "write",
          !.snap = [meta |-> [at |-> applied, members |-> membership], body |-> body]]
    /\ UNCHANGED <<logVars, tableVars, registry, restoreVars, files, processVars, work, mishaps>>

BuildWrite ==
    /\ build.pc = "write" /\ Len(files) < MaxFiles
    /\ files' = Append(files, build.snap)
    /\ build' = [build EXCEPT !.pc = "check", !.file = Len(files) + 1]
    /\ UNCHANGED <<logVars, tableVars, registry, restoreVars, processVars, work, mishaps>>

\* snapshot_meta_newer, with what load_snapshot_registry returns.
NewerThanRegistry ==
    registry # None /\ Exists(registry.file) => build.snap.meta.at > registry.meta.at

\* A build that is not newer than the registry is handed to openraft, and its
\* file is left behind for the next sweep.
BuildCheck ==
    /\ build.pc = "check"
    /\ IF NewerThanRegistry
       THEN build' = [build EXCEPT !.pc = "old"] /\ UNCHANGED known
       ELSE build' = IdleBuild /\ Learns(build.snap.meta.at)
    /\ UNCHANGED <<logVars, tableVars, registry, restoreVars, files, phase, markerOn, poisoned,
                   current, work, mishaps>>

BuildOld ==
    /\ build.pc = "old"
    /\ build' = [build EXCEPT !.pc = "registry",
                             !.old = IF registry = None THEN None ELSE registry.file]
    /\ UNCHANGED <<logVars, tableVars, registry, restoreVars, files, processVars, work, mishaps>>

BuildRegistry ==
    /\ build.pc = "registry"
    /\ registry' = [meta |-> build.snap.meta, file |-> build.file]
    /\ build' = [build EXCEPT !.pc = "remove"]
    /\ UNCHANGED <<logVars, tableVars, restoreVars, files, processVars, work, mishaps>>

BuildRemove ==
    /\ build.pc = "remove"
    /\ files' = Removed(files, {build.old})
    /\ build' = [build EXCEPT !.pc = "done"]
    /\ UNCHANGED <<logVars, tableVars, registry, restoreVars, processVars, work, mishaps>>

BuildDone ==
    /\ build.pc = "done"
    /\ current' = [meta |-> build.snap.meta, file |-> build.file]
    /\ Learns(build.snap.meta.at)
    /\ build' = IdleBuild
    /\ UNCHANGED <<logVars, tableVars, registry, restoreVars, files, phase, markerOn, poisoned,
                   work, mishaps>>

-----------------------------------------------------------------------------
(* Crash and start *)

\* The process dies, or an operator restarts one whose openraft has stopped.
Crash ==
    /\ phase \in {"boot", "up", "halted"}
    /\ \/ phase = "halted" /\ UNCHANGED mishaps
       \/ mishaps < MaxMishaps /\ mishaps' = mishaps + 1
    /\ phase' = "down"
    /\ poisoned' = FALSE /\ current' = None /\ known' = 0
    /\ work' = Idle /\ build' = IdleBuild
    /\ UNCHANGED <<logVars, tableVars, registry, restoreVars, files, markerOn>>

\* Mutant: the payload of the marker is not kept (A1).
SweepKeepsRegistry == {r.file : r \in {registry} \ {None}}

\* The files that the sweep keeps: those of the registry and of the marker.
SweepKeeps == {r.file : r \in {registry, marker} \ {None}}

\* new_with_rotation: sweep, reset_registry_if_file_missing, poison key.
Boot ==
    /\ phase \in {"down", "refused"}
    /\ files' = Removed(files, DOMAIN files \ SweepKeeps)
    /\ registry' = IF registry # None /\ Exists(registry.file) THEN registry ELSE None
    /\ poisoned' = poisonKey
    /\ markerOn' \in MarkerSettings
    /\ phase' = "boot"
    /\ UNCHANGED <<logVars, tableVars, restoreVars, current, known, work, build, mishaps>>

\* The node joins openraft, which asks for the current snapshot.
Up ==
    /\ phase' = "up"
    /\ known' = IF CurrentSnapshot' = None THEN 0 ELSE CurrentSnapshot'.meta.at

RecoverNothing ==
    /\ phase = "boot" /\ work.pc = "idle" /\ marker = None
    /\ UNCHANGED <<logVars, tableVars, registry, restoreVars, files, markerOn, poisoned,
                   current, work, build, mishaps>>
    /\ Up

\* Mutant: a marker is never taken for a stale one.
StaleMarkerNever == FALSE

\* The node has applied entries beyond the snapshot of the marker.
StaleMarker == marker.meta.at > 0 /\ applied > 0 /\ marker.meta.at < applied

RecoverStale ==
    /\ phase = "boot" /\ work.pc = "idle" /\ marker # None
    /\ StaleMarker
    /\ marker' = None
    /\ UNCHANGED <<logVars, tableVars, registry, poisonKey, files, markerOn, poisoned,
                   current, work, build, mishaps>>
    /\ Up

\* DSH_RAFT_RESTORE_FORCE: the node starts poisoned and keeps the marker.
RecoverForced ==
    /\ phase = "boot" /\ work.pc = "idle" /\ marker # None
    /\ ~StaleMarker /\ TRUE \in ForceSettings
    /\ poisoned' = TRUE /\ poisonKey' = TRUE
    /\ UNCHANGED <<logVars, tableVars, registry, marker, files, markerOn, current, work,
                   build, mishaps>>
    /\ Up

RecoverRefused ==
    /\ phase = "boot" /\ work.pc = "idle" /\ marker # None
    /\ ~StaleMarker /\ FALSE \in ForceSettings
    /\ ~Exists(marker.file)
    /\ phase' = "refused"
    /\ UNCHANGED <<logVars, tableVars, registry, restoreVars, files, markerOn, poisoned,
                   current, known, work, build, mishaps>>

\* The payload of the marker is restored once more, from the first batch on.
RecoverReplay ==
    /\ phase = "boot" /\ work.pc = "idle" /\ marker # None
    /\ ~StaleMarker /\ FALSE \in ForceSettings
    /\ Exists(marker.file)
    /\ work' = [work EXCEPT !.pc = "restore", !.meta = marker.meta, !.file = marker.file,
                           !.part = 1]
    /\ UNCHANGED <<logVars, tableVars, registry, restoreVars, files, processVars, build, mishaps>>

\* The end of recover_interrupted_restore, with its second sweep.
RecoverDone ==
    /\ phase = "boot" /\ work.pc = "clear"
    /\ ClearedRestore
    /\ poisoned' = FALSE
    /\ files' = Removed(files, DOMAIN files \ {registry.file})
    /\ work' = Idle
    /\ UNCHANGED <<logVars, tableVars, registry, markerOn, current, build, mishaps>>
    /\ Up

-----------------------------------------------------------------------------
(* The specification *)

Init ==
    /\ lastLog = 0 /\ lastPurged = 0
    /\ applied = 0 /\ membership = 0 /\ body = [p \in Part |-> Prefix(0)]
    /\ registry = None /\ marker = None /\ poisonKey = FALSE
    /\ files = <<>>
    /\ phase = "up" /\ markerOn \in MarkerSettings /\ poisoned = FALSE
    /\ current = None /\ known = 0
    /\ work = Idle /\ build = IdleBuild
    /\ mishaps = 0

RestoreStep ==
    \/ RestoreBatch \/ RestoreLastApplied \/ RestoreMembership
    \/ RestoreOld \/ RestoreRegistry \/ RemoveOld

WorkerStep ==
    \/ ApplyEntry \/ ApplyLost \/ RecordApplied \/ ApplyFails \/ ApplyRefused
    \/ \E n \in Index : InstallSnapshot(n)
    \/ WriteMarker \/ RestoreStep \/ InstallDone
    \/ InstallRejected \/ RestoreFails \/ Poison

BuildStep ==
    \/ BuildStart \/ BuildRefused \/ BuildDump \/ BuildWrite \/ BuildCheck
    \/ BuildOld \/ BuildRegistry \/ BuildRemove \/ BuildDone

RecoverStep ==
    \/ RecoverNothing \/ RecoverStale \/ RecoverForced \/ RecoverRefused
    \/ RecoverReplay \/ RecoverDone

Next ==
    \/ AppendLog
    \/ \E n \in Index : Purge(n)
    \/ WorkerStep
    \/ BuildStep
    \/ Crash
    \/ Boot
    \/ RecoverStep

Spec == Init /\ [][Next]_vars

\* A process that is down is started again, and the recovery at start is
\* straight-line code that goes on to its end.
FairSpec ==
    /\ Spec
    /\ WF_vars(Boot)
    /\ WF_vars(RecoverStep)
    /\ WF_vars(phase = "boot" /\ RestoreStep)

-----------------------------------------------------------------------------
(* Properties *)

\* The type invariant.
TypeOK ==
    /\ lastLog \in 0..MaxIndex /\ lastPurged \in 0..lastLog
    /\ applied \in 0..MaxIndex /\ membership \in 0..MaxIndex /\ body \in Body
    /\ registry \in Named /\ marker \in Named /\ poisonKey \in BOOLEAN
    /\ files \in Seq(Snap \cup {None}) /\ Len(files) <= MaxFiles
    /\ phase \in {"down", "boot", "up", "halted", "refused"}
    /\ markerOn \in BOOLEAN /\ poisoned \in BOOLEAN
    /\ current \in Named /\ known \in 0..MaxIndex
    /\ work \in Work /\ build \in Build
    /\ mishaps \in 0..MaxMishaps

\* The tables b hold the state after entry n: all parts agree, every entry up
\* to n was applied, and none after it but the next one, which a crash may
\* have left unrecorded.
Holds(b, n) ==
    \A p \in Part :
        /\ b[p] = b[1]
        /\ \A i \in Index \ MembershipEntry :
              /\ i <= n => b[p][i] >= 1
              /\ i > n + 1 => b[p][i] = 0

Running == phase \in {"up", "halted"}

\* A node that serves requests and is not in the middle of an entry or an
\* installation has the state that its last_applied says: no interrupted
\* installation is ever taken for a whole one, whatever crashed or failed.
StateIsPrefix ==
    Running /\ work.pc = "idle" /\ ~poisoned =>
        /\ Holds(body, applied)
        /\ membership \in {MembershipAt(applied), MembershipAt(applied + 1)}

\* A node is never left with a marker whose payload is gone, which would make
\* it refuse to start.
NeverRefused == phase # "refused"

\* Whenever the fail-stop is durable there is a marker to replay (NB2).
PoisonHasWayOut == poisonKey => marker # None

\* Purged entries are in a snapshot that this node can send: its file is
\* there, it is whole and it reaches as far as the purge did.
SnapshotCoversPurged ==
    phase = "up" /\ work.pc = "idle" /\ build.pc = "idle" /\ ~poisoned /\ lastPurged > 0 =>
        /\ CurrentSnapshot # None
        /\ CurrentSnapshot.meta.at >= lastPurged
        /\ Exists(CurrentSnapshot.file)
        /\ Holds(files[CurrentSnapshot.file].body, CurrentSnapshot.meta.at)

\* Neither an installation nor a replay at start takes last_applied back, and
\* it never lags behind the purged part of the log.
AppliedNeverRegresses == [][applied' >= applied /\ applied' >= lastPurged']_vars

\* The durable fail-stop ends only with a state that is whole again.
PoisonEndsWhole == [][poisonKey /\ ~poisonKey' => Holds(body', applied')]_vars

\* A node that goes down comes back and serves, poisoned or not before.
RestartServes == phase = "down" ~> phase = "up" /\ ~poisoned

-----------------------------------------------------------------------------
(* What comments and documents say of the code, beyond what it does *)

\* Requests read the tables when the write lock is free and the node is not
\* poisoned: they never see a part of a restore.
ReadsSeeWhole == Running /\ ~Locked /\ ~poisoned => Holds(body, applied)

\* No snapshot is made from a mixed state.
BuiltWhole ==
    registry # None /\ Exists(registry.file) =>
        Holds(files[registry.file].body, registry.meta.at)

\* The body of a snapshot is neither older nor newer than its meta.
BuiltExact ==
    registry # None /\ Exists(registry.file) =>
        \A p \in Part : files[registry.file].body[p] = Prefix(registry.meta.at)
=============================================================================
