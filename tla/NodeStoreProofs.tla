---------------------------- MODULE NodeStoreProofs ----------------------------
(***************************************************************************)
(* Theorems about NodeStore, for a log of any length, any number of        *)
(* batches, files, crashes and faults: an interrupted installation is never *)
(* taken for a whole one, a node can always start again, what was purged   *)
(* is in a snapshot, and last_applied never goes back.                     *)
(***************************************************************************)
EXTENDS NodeStore, SequenceTheorems, WellFoundedInduction, TLAPS

(* What holds with any setting of the switches and any fault *)

Installing ==
    {"mark", "restore", "last_applied", "membership", "old", "registry", "remove", "clear"}

\* The tables are written.
Restored == Installing \ {"mark", "restore"}

\* The builder has written its file.
Building == {"check", "old", "registry", "remove", "done"}

\* What runs in which phase of the process.
PhasesFit ==
    /\ work.pc # "idle" => phase \in {"boot", "up", "halted"}
    /\ phase = "boot" => work.pc \notin {"record", "mark", "failed"}
    /\ build.pc # "idle" => phase \in {"up", "halted"}
    /\ current # None => phase \in {"up", "halted"}

\* File names that are in use are names of files that were made.
FilesFit ==
    /\ registry # None => registry.file \in DOMAIN files
    /\ build.pc \in Building => build.file \in DOMAIN files
    /\ build.old # None => build.old \in DOMAIN files
    /\ current # None => current.file \in DOMAIN files

\* The payload of a marker is the snapshot it names, unless it is gone.
MarkerFits ==
    marker # None =>
        /\ marker.meta.at \in Index /\ marker.meta = MetaAt(marker.meta.at)
        /\ marker.file \in DOMAIN files
        /\ files[marker.file] \in {None, SnapshotAt(marker.meta.at)}

\* The payload that is being restored is there and is the snapshot.
PayloadFits ==
    /\ work.pc \in Installing =>
          /\ work.meta.at \in Index /\ work.meta = MetaAt(work.meta.at)
          /\ work.file \in DOMAIN files
    /\ work.pc \in {"mark", "restore"} => files[work.file] = SnapshotAt(work.meta.at)

\* Nobody else knows the file of an installation before it is registered.
Alone ==
    work.pc \in {"mark", "restore"} /\ phase # "boot" =>
        /\ registry # None => registry.file # work.file
        /\ build.pc \in {"registry", "remove"} => build.old # work.file
        /\ build.pc \in Building => build.file # work.file

\* What a restore has written so far.
BodyFits ==
    /\ work.pc = "restore" =>
          work.part \in Part /\ \A q \in Part : q < work.part => body[q] = Prefix(work.meta.at)
    /\ work.pc \in Restored => \A q \in Part : body[q] = Prefix(work.meta.at)
    /\ work.pc \in Restored \ {"last_applied"} => applied = work.meta.at
    /\ work.pc \in Restored \ {"last_applied", "membership"} => membership = work.meta.members

\* No snapshot of this node is ahead of last_applied, and none that is being
\* installed is behind it.
Bounds ==
    /\ lastPurged <= applied /\ known <= applied
    /\ registry # None => registry.meta.at <= applied
    /\ current # None => current.meta.at <= applied
    /\ build.pc \in {"write"} \cup Building => build.snap.meta.at <= applied
    /\ work.pc = "record" => work.meta.at = applied + 1 /\ work.meta.at \in Index
    /\ work.pc \in Installing => work.meta.at >= applied

NodeInv ==
    TypeOK /\ PhasesFit /\ FilesFit /\ MarkerFits /\ PayloadFits /\ Alone /\ BodyFits /\ Bounds

-----------------------------------------------------------------------------
(* Prefixes, memberships and files *)

\* A set of naturals has a least one.
LEMMA LeastNat ==
    ASSUME NEW T \in SUBSET Nat, T # {}
    PROVE  \E x \in T : \A y \in T : x <= y
<1> DEFINE R == OpToRel(<, Nat)
<1>1. IsWellFoundedOn(R, Nat)
  BY NatLessThanWellFounded, Zenon
<1>2. \A x, y \in Nat : y < x => <<y, x>> \in R
  BY SMT DEF OpToRel
<1> HIDE DEF R
<1>3. PICK x \in T : \A y \in T : ~(<<y, x>> \in R)
  BY <1>1, WFMin
<1>4. \A y \in T : ~(y < x)
  BY <1>2, <1>3
<1> QED
  BY <1>4

\* A set of entries that is not empty has a last one.
LEMMA LastEntry ==
    ASSUME NEW S \in SUBSET Index, S # {}
    PROVE  \E x \in S : \A y \in S : y <= x
<1>0. MaxIndex \in Nat /\ Index = 1..MaxIndex
  BY NodeAssumption DEF Index
<1> DEFINE T == {n \in Nat : \E x \in S : n = MaxIndex - x}
<1>1. T \in SUBSET Nat /\ T # {}
  <2>1. PICK x \in S : TRUE
    OBVIOUS
  <2>2. MaxIndex - x \in Nat
    BY <1>0, <2>1
  <2> QED
    BY <2>1, <2>2
<1>2. PICK n \in T : \A m \in T : n <= m
  <2> HIDE DEF T
  <2> QED
    BY <1>1, LeastNat
<1>3. PICK x \in S : n = MaxIndex - x
  BY <1>2
<1>4. ASSUME NEW y \in S PROVE y <= x
  <2>1. MaxIndex - y \in T
    BY <1>0
  <2>2. n <= MaxIndex - y
    BY <1>2, <2>1
  <2>3. x \in 1..MaxIndex /\ y \in 1..MaxIndex
    BY <1>0
  <2> QED
    BY <1>0, <1>3, <2>2, <2>3
<1> QED
  BY <1>4

\* What the operators on prefixes are.
LEMMA MembershipType ==
    ASSUME NEW n \in 0..MaxIndex
    PROVE  MembershipAt(n) \in 0..MaxIndex
<1> DEFINE S == {i \in MembershipEntry : i <= n}
<1>0. MaxIndex \in Nat /\ MembershipEntry \subseteq Index /\ Index = 1..MaxIndex
  BY NodeAssumption DEF Index
<1>1. CASE S = {}
  BY <1>0, <1>1 DEF MembershipAt
<1>2. CASE S # {}
  <2>1. S \in SUBSET Index
    BY <1>0
  <2>2. \E x \in S : \A y \in S : y <= x
    <3> HIDE DEF S
    <3> QED
      BY <1>2, <2>1, LastEntry
  <2>3. (CHOOSE x \in S : \A y \in S : y <= x) \in S
    BY <2>2
  <2> QED
    BY <1>0, <1>2, <2>1, <2>3 DEF MembershipAt
<1> QED
  BY <1>1, <1>2

LEMMA PrefixTypes ==
    ASSUME NEW n \in 0..MaxIndex
    PROVE  /\ Prefix(n) \in [Index -> Nat]
           /\ MetaAt(n) \in Meta /\ MetaAt(n).at = n /\ MetaAt(n).members = MembershipAt(n)
           /\ SnapshotAt(n) \in Snap
           /\ SnapshotAt(n).meta = MetaAt(n)
           /\ \A p \in Part : SnapshotAt(n).body[p] = Prefix(n)
<1>1. Prefix(n) \in [Index -> Nat]
  BY DEF Prefix
<1>2. MetaAt(n) \in Meta /\ MetaAt(n).at = n /\ MetaAt(n).members = MembershipAt(n)
  BY MembershipType DEF MetaAt, Meta
<1>3. SnapshotAt(n) \in Snap
  BY <1>1, <1>2 DEF SnapshotAt, Snap, Body
<1>4. SnapshotAt(n).meta = MetaAt(n) /\ \A p \in Part : SnapshotAt(n).body[p] = Prefix(n)
  BY DEF SnapshotAt
<1> QED
  BY <1>1, <1>2, <1>3, <1>4

\* The membership after the next entry.
LEMMA MembershipNext ==
    ASSUME NEW n \in Nat
    PROVE  MembershipAt(n + 1) = IF n + 1 \in MembershipEntry THEN n + 1 ELSE MembershipAt(n)
<1>0. MembershipEntry \subseteq Nat
  BY NodeAssumption DEF Index
<1> DEFINE S == {i \in MembershipEntry : i <= n + 1}
<1>1. CASE n + 1 \in MembershipEntry
  <2>1. n + 1 \in S /\ \A j \in S : j <= n + 1
    BY <1>0, <1>1
  <2>2. \A i \in S : (\A j \in S : j <= i) => i = n + 1
    BY <1>0, <1>1
  <2> DEFINE m == CHOOSE i \in S : \A j \in S : j <= i
  <2>3. MembershipAt(n + 1) = m
    BY <2>1, Zenon DEF MembershipAt
  <2>4. m \in S /\ \A j \in S : j <= m
    <3> HIDE DEF S
    <3> QED
      BY <2>1, Zenon
  <2> HIDE DEF m, S
  <2> QED
    BY <1>1, <2>2, <2>3, <2>4
<1>2. CASE n + 1 \notin MembershipEntry
  <2>0. \A i \in MembershipEntry : i <= n + 1 <=> i <= n
    BY <1>0, <1>2
  <2>1. S = {i \in MembershipEntry : i <= n}
    BY <2>0, Zenon
  <2> DEFINE F(T) == IF T = {} THEN 0 ELSE CHOOSE i \in T : \A j \in T : j <= i
             R == {i \in MembershipEntry : i <= n}
  <2>2. MembershipAt(n + 1) = F(S) /\ MembershipAt(n) = F(R)
    BY DEF MembershipAt
  <2>3. S = R
    BY <2>1
  <2> HIDE DEF F, S, R
  <2> QED
    BY <1>2, <2>2, <2>3
<1> QED
  BY <1>1, <1>2

\* What appending and removing files does.
LEMMA FilesAppend ==
    ASSUME NEW s \in Snap, files \in Seq(Snap \cup {None})
    PROVE  /\ Append(files, s) \in Seq(Snap \cup {None})
           /\ Len(Append(files, s)) = Len(files) + 1
           /\ DOMAIN Append(files, s) = DOMAIN files \cup {Len(files) + 1}
           /\ DOMAIN files = 1..Len(files) /\ Len(files) \in Nat
           /\ Append(files, s)[Len(files) + 1] = s
           /\ \A f \in DOMAIN files : Append(files, s)[f] = files[f]
OBVIOUS

LEMMA FilesRemove ==
    ASSUME NEW gone, files \in Seq(Snap \cup {None})
    PROVE  /\ Removed(files, gone) \in Seq(Snap \cup {None})
           /\ Len(Removed(files, gone)) = Len(files)
           /\ DOMAIN Removed(files, gone) = DOMAIN files
           /\ \A f \in DOMAIN files :
                 Removed(files, gone)[f] = IF f \in gone THEN None ELSE files[f]
BY DEF Removed
\* A worker and a builder at rest.
LEMMA IdleTypes ==
    /\ Idle \in Work /\ Idle.pc = "idle" /\ Idle.file = 0
    /\ IdleBuild \in Build /\ IdleBuild.pc = "idle" /\ IdleBuild.old = None
<1>1. 0 \in 0..MaxIndex /\ 0 \in 0..MaxFiles /\ 0 \in 0..Batches
  BY NodeAssumption
<1>2. MetaAt(0) \in Meta /\ SnapshotAt(0) \in Snap
  BY <1>1, PrefixTypes
<1> QED
  BY <1>1, <1>2 DEF Idle, IdleBuild, Work, Build

\* Every step keeps the types.
LEMMA TypeStep ==
    ASSUME NodeInv, [Next]_vars
    PROVE  TypeOK'
<1> USE DEF TypeOK, Named, logVars, tableVars, restoreVars, processVars
<1>0. /\ Idle \in Work /\ IdleBuild \in Build /\ DOMAIN files = 1..Len(files) /\ Len(files) \in Nat
  BY IdleTypes DEF NodeInv
<1> USE NodeAssumption DEF NodeInv
<1>1. CASE AppendLog
  BY <1>1, <1>0 DEF AppendLog
<1>2. ASSUME NEW n \in Index, Purge(n) PROVE TypeOK'
  BY <1>2, <1>0 DEF Purge, LogEnd, Index
<1>3. CASE ApplyEntry
  <2>1. NextEntry \in Index
    BY <1>3 DEF ApplyEntry, MayApply, WorkerFree, NextEntry, Index
  <2>2. [at |-> NextEntry, members |-> 0] \in Meta
    BY <1>3, <2>1 DEF ApplyEntry, MayApply, WorkerFree, NextEntry, Meta, Index
  <2>3. work' \in Work
    BY <1>3, <2>2 DEF ApplyEntry, MayApply, WorkerFree, NextEntry, Work
  <2>4. \A p \in Part : [body[p] EXCEPT ![NextEntry] = @ + 1] \in [Index -> Nat]
    BY <1>3, <2>1 DEF ApplyEntry, MayApply, WorkerFree, NextEntry, Body
  <2>5. body' = body \/ body' = [p \in Part |-> [body[p] EXCEPT ![NextEntry] = @ + 1]]
    BY <1>3 DEF ApplyEntry, MayApply, WorkerFree, NextEntry
  <2>6. body' \in Body
    BY <2>4, <2>5 DEF Body
  <2>7. membership' \in 0..MaxIndex
    BY <1>3, <2>1 DEF ApplyEntry, MayApply, WorkerFree, NextEntry, Index
  <2> QED
    BY <1>3, <2>1, <2>2, <2>3, <2>4, <2>5, <2>6, <2>7 DEF ApplyEntry, MayApply, WorkerFree,
         NextEntry
<1>4. CASE ApplyLost
  <2>1. NextEntry \in Index
    BY <1>4 DEF ApplyLost, MayApply, WorkerFree, NextEntry, Index
  <2>2. [at |-> NextEntry, members |-> 0] \in Meta
    BY <1>4, <2>1 DEF ApplyLost, MayApply, WorkerFree, NextEntry, Meta, Index
  <2>3. work' \in Work
    BY <1>4, <2>2 DEF ApplyLost, MayApply, WorkerFree, NextEntry, Work
  <2>4. mishaps' \in 0..MaxMishaps
    BY <1>4 DEF ApplyLost, MayApply, WorkerFree, NextEntry
  <2> QED
    BY <1>4, <2>1, <2>2, <2>3, <2>4 DEF ApplyLost, MayApply, WorkerFree, NextEntry
<1>5. CASE RecordApplied
  BY <1>5, <1>0 DEF RecordApplied, Meta, Work
<1>6. CASE ApplyFails
  BY <1>6, <1>0 DEF ApplyFails, MayApply, WorkerFree, NextEntry, Work
<1>7. CASE ApplyRefused
  BY <1>7, <1>0 DEF ApplyRefused, WorkerFree
<1>8. ASSUME NEW n \in Index, InstallSnapshot(n) PROVE TypeOK'
  <2>1. n \in 0..MaxIndex
    BY <1>8 DEF InstallSnapshot, WorkerFree, Index
  <2>2. MetaAt(n) \in Meta /\ SnapshotAt(n) \in Snap
    BY <1>8, <2>1, PrefixTypes DEF InstallSnapshot, WorkerFree
  <2>3. files' \in Seq(Snap \cup {None}) /\ Len(files') = Len(files) + 1
    BY <1>8, <2>2, FilesAppend DEF InstallSnapshot, WorkerFree
  <2>4. Len(files) + 1 \in 0..MaxFiles
    BY <1>8, <1>0 DEF InstallSnapshot, WorkerFree
  <2>5. work' \in Work
    BY <1>8, <2>4, <2>2 DEF InstallSnapshot, WorkerFree, Work
  <2> QED
    BY <1>8, <2>1, <2>2, <2>3, <2>4, <2>5 DEF InstallSnapshot, WorkerFree
<1>9. CASE WriteMarker
  <2>1. 1 \in 0..Batches
    BY <1>9 DEF WriteMarker
  <2>2. work' \in Work
    BY <1>9, <2>1 DEF WriteMarker, Work
  <2>3. marker' \in Named
    BY <1>9, <1>0 DEF WriteMarker, Meta, Work, PayloadFits, Installing
  <2> QED
    BY <1>9, <2>1, <2>2, <2>3 DEF WriteMarker
<1>10. CASE RestoreBatch
  <2>1. work.meta.at \in 0..MaxIndex /\ work.part \in Part
    BY <1>10, SMTT(30) DEF RestoreBatch, PayloadFits, BodyFits, Installing, Index
  <2>2. files[work.file].body[work.part] = Prefix(work.meta.at)
    BY <1>10, <2>1, PrefixTypes, SMTT(30) DEF RestoreBatch, PayloadFits
  <2>3. Prefix(work.meta.at) \in [Index -> Nat] /\ Prefix(0) \in [Index -> Nat]
    BY <2>1, PrefixTypes, 0 \in 0..MaxIndex
  <2>4. body' \in Body
    BY <1>10, <2>2, <2>3 DEF RestoreBatch, Body
  <2>5. work.part < Batches => work.part + 1 \in 0..Batches
    BY <1>10, <2>1, SMTT(30) DEF RestoreBatch, Part
  <2>6. work' \in Work
    BY <1>10, <2>5 DEF RestoreBatch, Work
  <2> QED
    BY <1>10, <2>1, <2>2, <2>3, <2>4, <2>5, <2>6 DEF RestoreBatch
<1>11. CASE RestoreLastApplied
  BY <1>11, <1>0, SMTT(30) DEF RestoreLastApplied, Meta, Work
<1>12. CASE RestoreMembership
  BY <1>12, <1>0, ZenonT(30) DEF RestoreMembership, Meta, Work
<1>13. CASE RestoreOld
  BY <1>13, <1>0, ZenonT(30) DEF RestoreOld, Work
<1>14. CASE RestoreRegistry
  <2>1. work' \in Work
    BY <1>14 DEF RestoreRegistry, Work
  <2>2. registry' \in Named
    BY <1>14, <1>0 DEF RestoreRegistry, Meta, Work, PayloadFits, Installing
  <2> QED
    BY <1>14, <2>1, <2>2 DEF RestoreRegistry
<1>15. CASE RemoveOld
  <2>1. work' \in Work
    BY <1>15 DEF RemoveOld, Work
  <2>2. files' \in Seq(Snap \cup {None}) /\ Len(files') = Len(files)
    BY <1>15, FilesRemove DEF RemoveOld
  <2> QED
    BY <1>15, <2>1, <2>2 DEF RemoveOld
<1>16. CASE InstallDone
  <2>1. current' \in Named
    BY <1>16, <1>0 DEF InstallDone, ClearedRestore, Learns, Meta, Work, PayloadFits, Installing
  <2>2. known' \in 0..MaxIndex
    BY <1>16 DEF InstallDone, ClearedRestore, Learns, Meta, Work
  <2> QED
    BY <1>16, <2>1, <2>2, <1>0 DEF InstallDone, ClearedRestore, Learns
<1>17. CASE InstallRejected
  <2>1. mishaps' \in 0..MaxMishaps
    BY <1>17 DEF InstallRejected
  <2> QED
    BY <1>17, <2>1, <1>0 DEF InstallRejected
<1>18. CASE RestoreFails
  <2>1. mishaps' \in 0..MaxMishaps
    BY <1>18 DEF RestoreFails
  <2>2. work' \in Work
    BY <1>18 DEF RestoreFails, Work
  <2> QED
    BY <1>18, <2>1, <2>2 DEF RestoreFails
<1>19. CASE Poison
  <2>1. mishaps' \in 0..MaxMishaps
    BY <1>19 DEF Poison
  <2>2. poisonKey' \in BOOLEAN
    BY <1>19 DEF Poison
  <2> QED
    BY <1>19, <2>1, <2>2, <1>0 DEF Poison
<1>20. CASE BuildStart
  BY <1>20, <1>0 DEF BuildStart, BuilderFree, Build
<1>21. CASE BuildRefused
  BY <1>21, <1>0 DEF BuildRefused, BuilderFree
<1>22. CASE BuildDump
  BY <1>22, <1>0 DEF BuildDump, MayDump, Meta, Snap, Build
<1>23. CASE BuildWrite
  <2>1. build.snap \in Snap
    BY <1>23 DEF BuildWrite, Build
  <2>2. files' \in Seq(Snap \cup {None}) /\ Len(files') = Len(files) + 1
    BY <1>23, <2>1, FilesAppend DEF BuildWrite
  <2>3. Len(files) + 1 \in 0..MaxFiles
    BY <1>23, <1>0 DEF BuildWrite
  <2>4. build' \in Build
    BY <1>23, <2>3 DEF BuildWrite, Build
  <2> QED
    BY <1>23, <2>1, <2>2, <2>3, <2>4 DEF BuildWrite
<1>24. CASE BuildCheck
  <2>1. build' \in Build
    BY <1>24, <1>0 DEF BuildCheck, Learns, NewerThanRegistry, Exists, Build
  <2>2. known' \in 0..MaxIndex
    BY <1>24 DEF BuildCheck, Learns, NewerThanRegistry, Exists, Meta, Build, Snap
  <2> QED
    BY <1>24, <2>1, <2>2 DEF BuildCheck, Learns, NewerThanRegistry, Exists
<1>25. CASE BuildOld
  BY <1>25, <1>0, ZenonT(30) DEF BuildOld, Build
<1>26. CASE BuildRegistry
  <2>1. build' \in Build
    BY <1>26 DEF BuildRegistry, Build
  <2>2. registry' \in Named
    BY <1>26, <1>0 DEF BuildRegistry, Meta, Build, Snap, FilesFit, Building
  <2> QED
    BY <1>26, <2>1, <2>2 DEF BuildRegistry
<1>27. CASE BuildRemove
  <2>1. build' \in Build
    BY <1>27 DEF BuildRemove, Build
  <2>2. files' \in Seq(Snap \cup {None}) /\ Len(files') = Len(files)
    BY <1>27, FilesRemove DEF BuildRemove
  <2> QED
    BY <1>27, <2>1, <2>2 DEF BuildRemove
<1>28. CASE BuildDone
  <2>1. current' \in Named
    BY <1>28, <1>0 DEF BuildDone, Learns, Meta, Build, Snap, FilesFit, Building
  <2>2. known' \in 0..MaxIndex
    BY <1>28 DEF BuildDone, Learns, Meta, Build, Snap
  <2> QED
    BY <1>28, <2>1, <2>2, <1>0 DEF BuildDone, Learns
<1>29. CASE Crash
  <2>1. mishaps' \in 0..MaxMishaps
    BY <1>29 DEF Crash
  <2>2. current' \in Named /\ known' \in 0..MaxIndex
    BY <1>29 DEF Crash
  <2> QED
    BY <1>29, <2>1, <2>2, <1>0 DEF Crash
<1>30. CASE Boot
  <2>1. files' \in Seq(Snap \cup {None}) /\ Len(files') = Len(files)
    BY <1>30, FilesRemove DEF Boot
  <2>2. registry' \in Named
    BY <1>30 DEF Boot
  <2> QED
    BY <1>30, <2>1, <2>2 DEF Boot
<1>31. CASE RecoverNothing
  <2>1. known' \in 0..MaxIndex
    BY <1>31 DEF RecoverNothing, Meta, Up, CurrentSnapshot, Exists
  <2> QED
    BY <1>31, <2>1 DEF RecoverNothing, Up
<1>32. CASE RecoverStale
  <2>1. known' \in 0..MaxIndex
    BY <1>32 DEF RecoverStale, Meta, Up, CurrentSnapshot, Exists
  <2> QED
    BY <1>32, <2>1 DEF RecoverStale, Up
<1>33. CASE RecoverForced
  <2>1. known' \in 0..MaxIndex
    BY <1>33 DEF RecoverForced, Meta, Up, CurrentSnapshot, Exists
  <2> QED
    BY <1>33, <2>1 DEF RecoverForced, Up
<1>34. CASE RecoverRefused
  BY <1>34, <1>0 DEF RecoverRefused
<1>35. CASE RecoverReplay
  <2>1. marker.meta \in Meta /\ marker.file \in 0..MaxFiles /\ 1 \in 0..Batches
    BY <1>35 DEF RecoverReplay
  <2>2. work' \in Work
    BY <1>35, <2>1 DEF RecoverReplay, Work
  <2> QED
    BY <1>35, <2>1, <2>2 DEF RecoverReplay
<1>36. CASE RecoverDone
  <2>1. files' \in Seq(Snap \cup {None}) /\ Len(files') = Len(files)
    BY <1>36, FilesRemove DEF RecoverDone, ClearedRestore
  <2>2. known' \in 0..MaxIndex
    BY <1>36 DEF RecoverDone, ClearedRestore, Meta, Up, CurrentSnapshot, Exists
  <2> QED
    BY <1>36, <2>1, <2>2, <1>0 DEF RecoverDone, ClearedRestore, Up
<1>37. CASE UNCHANGED vars
  BY <1>37, <1>0 DEF vars
<1> QED
  BY <1>1, <1>2, <1>3, <1>4, <1>5, <1>6, <1>7, <1>8, <1>9, <1>10, <1>11, <1>12, <1>13, <1>14,
       <1>15, <1>16, <1>17, <1>18, <1>19, <1>20, <1>21, <1>22, <1>23, <1>24, <1>25, <1>26, <1>27,
       <1>28, <1>29, <1>30, <1>31, <1>32, <1>33, <1>34, <1>35, <1>36, <1>37
     DEF Next, WorkerStep, RestoreStep, BuildStep, RecoverStep

\* The phases fit after every step.
LEMMA PhasesStep ==
    ASSUME NodeInv, [Next]_vars
    PROVE  PhasesFit'
<1> USE DEF NodeInv, PhasesFit, Work, Build, logVars, tableVars, restoreVars, processVars
<1>0. /\ work \in Work /\ build \in Build /\ Idle.pc = "idle" /\ IdleBuild.pc = "idle"
      /\ IdleBuild.old = None
  BY IdleTypes DEF NodeInv, TypeOK
<1>1. CASE AppendLog
  BY <1>1, <1>0 DEF AppendLog
<1>2. ASSUME NEW n \in Index, Purge(n) PROVE PhasesFit'
  BY <1>2, <1>0 DEF Purge, LogEnd
<1>3. CASE ApplyEntry
  BY <1>3, <1>0 DEF ApplyEntry, MayApply, WorkerFree, NextEntry
<1>4. CASE ApplyLost
  BY <1>4, <1>0 DEF ApplyLost, MayApply, WorkerFree, NextEntry
<1>5. CASE RecordApplied
  BY <1>5, <1>0 DEF RecordApplied
<1>6. CASE ApplyFails
  BY <1>6, <1>0 DEF ApplyFails, MayApply, WorkerFree, NextEntry
<1>7. CASE ApplyRefused
  BY <1>7, <1>0 DEF ApplyRefused, WorkerFree
<1>8. ASSUME NEW n \in Index, InstallSnapshot(n) PROVE PhasesFit'
  BY <1>8, <1>0 DEF InstallSnapshot, WorkerFree
<1>9. CASE WriteMarker
  BY <1>9, <1>0 DEF WriteMarker
<1>10. CASE RestoreBatch
  BY <1>10, <1>0 DEF RestoreBatch
<1>11. CASE RestoreLastApplied
  BY <1>11, <1>0 DEF RestoreLastApplied
<1>12. CASE RestoreMembership
  BY <1>12, <1>0 DEF RestoreMembership
<1>13. CASE RestoreOld
  BY <1>13, <1>0 DEF RestoreOld
<1>14. CASE RestoreRegistry
  BY <1>14, <1>0 DEF RestoreRegistry
<1>15. CASE RemoveOld
  BY <1>15, <1>0 DEF RemoveOld
<1>16. CASE InstallDone
  BY <1>16, <1>0 DEF InstallDone, ClearedRestore, Learns
<1>17. CASE InstallRejected
  BY <1>17, <1>0 DEF InstallRejected
<1>18. CASE RestoreFails
  BY <1>18, <1>0 DEF RestoreFails
<1>19. CASE Poison
  BY <1>19, <1>0 DEF Poison
<1>20. CASE BuildStart
  BY <1>20, <1>0 DEF BuildStart, BuilderFree
<1>21. CASE BuildRefused
  BY <1>21, <1>0 DEF BuildRefused, BuilderFree
<1>22. CASE BuildDump
  BY <1>22, <1>0 DEF BuildDump, MayDump
<1>23. CASE BuildWrite
  BY <1>23, <1>0 DEF BuildWrite
<1>24. CASE BuildCheck
  BY <1>24, <1>0 DEF BuildCheck, Learns, NewerThanRegistry, Exists
<1>25. CASE BuildOld
  BY <1>25, <1>0 DEF BuildOld
<1>26. CASE BuildRegistry
  BY <1>26, <1>0 DEF BuildRegistry
<1>27. CASE BuildRemove
  BY <1>27, <1>0 DEF BuildRemove
<1>28. CASE BuildDone
  BY <1>28, <1>0 DEF BuildDone, Learns
<1>29. CASE Crash
  BY <1>29, <1>0 DEF Crash
<1>30. CASE Boot
  BY <1>30, <1>0 DEF Boot
<1>31. CASE RecoverNothing
  BY <1>31, <1>0 DEF RecoverNothing, Up
<1>32. CASE RecoverStale
  BY <1>32, <1>0 DEF RecoverStale, Up
<1>33. CASE RecoverForced
  BY <1>33, <1>0 DEF RecoverForced, Up
<1>34. CASE RecoverRefused
  BY <1>34, <1>0 DEF RecoverRefused
<1>35. CASE RecoverReplay
  BY <1>35, <1>0 DEF RecoverReplay
<1>36. CASE RecoverDone
  BY <1>36, <1>0 DEF RecoverDone, ClearedRestore, Up
<1>37. CASE UNCHANGED vars
  BY <1>37, <1>0 DEF vars
<1> QED
  BY <1>1, <1>2, <1>3, <1>4, <1>5, <1>6, <1>7, <1>8, <1>9, <1>10, <1>11, <1>12, <1>13, <1>14,
       <1>15, <1>16, <1>17, <1>18, <1>19, <1>20, <1>21, <1>22, <1>23, <1>24, <1>25, <1>26, <1>27,
       <1>28, <1>29, <1>30, <1>31, <1>32, <1>33, <1>34, <1>35, <1>36, <1>37
     DEF Next, WorkerStep, RestoreStep, BuildStep, RecoverStep

\* File names stay names of files that were made.
LEMMA FilesStep ==
    ASSUME NodeInv, [Next]_vars
    PROVE  FilesFit'
<1> USE DEF NodeInv, FilesFit, Building, Work, Build, logVars, tableVars, restoreVars, processVars
<1>0. /\ build \in Build /\ IdleBuild.pc = "idle" /\ IdleBuild.old = None
      /\ files \in Seq(Snap \cup {None}) /\ DOMAIN files = 1..Len(files) /\ Len(files) \in Nat
      /\ work \in Work /\ registry \in Named
  BY IdleTypes DEF NodeInv, TypeOK
<1>1. CASE AppendLog
  BY <1>1, <1>0 DEF AppendLog
<1>2. ASSUME NEW n \in Index, Purge(n) PROVE FilesFit'
  BY <1>2, <1>0 DEF Purge, LogEnd
<1>3. CASE ApplyEntry
  BY <1>3, <1>0 DEF ApplyEntry, MayApply, WorkerFree, NextEntry
<1>4. CASE ApplyLost
  BY <1>4, <1>0 DEF ApplyLost, MayApply, WorkerFree, NextEntry
<1>5. CASE RecordApplied
  BY <1>5, <1>0 DEF RecordApplied
<1>6. CASE ApplyFails
  BY <1>6, <1>0 DEF ApplyFails, MayApply, WorkerFree, NextEntry
<1>7. CASE ApplyRefused
  BY <1>7, <1>0 DEF ApplyRefused, WorkerFree
<1>8. ASSUME NEW n \in Index, InstallSnapshot(n) PROVE FilesFit'
  <2>1. n \in 0..MaxIndex /\ SnapshotAt(n) \in Snap
    BY PrefixTypes, NodeAssumption DEF Index
  <2>2. DOMAIN files \subseteq DOMAIN files'
    BY <1>8, <1>0, <2>1, FilesAppend DEF InstallSnapshot
  <2> QED
    BY <1>8, <2>2 DEF InstallSnapshot
<1>9. CASE WriteMarker
  BY <1>9, <1>0 DEF WriteMarker
<1>10. CASE RestoreBatch
  BY <1>10, <1>0 DEF RestoreBatch
<1>11. CASE RestoreLastApplied
  BY <1>11, <1>0 DEF RestoreLastApplied
<1>12. CASE RestoreMembership
  BY <1>12, <1>0 DEF RestoreMembership
<1>13. CASE RestoreOld
  BY <1>13, <1>0 DEF RestoreOld
<1>14. CASE RestoreRegistry
  BY <1>14, <1>0 DEF RestoreRegistry, PayloadFits, Installing
<1>15. CASE RemoveOld
  BY <1>15, <1>0, FilesRemove DEF RemoveOld
<1>16. CASE InstallDone
  BY <1>16, <1>0 DEF InstallDone, ClearedRestore, Learns, PayloadFits, Installing
<1>17. CASE InstallRejected
  BY <1>17, <1>0 DEF InstallRejected
<1>18. CASE RestoreFails
  BY <1>18, <1>0 DEF RestoreFails
<1>19. CASE Poison
  BY <1>19, <1>0 DEF Poison
<1>20. CASE BuildStart
  BY <1>20, <1>0 DEF BuildStart, BuilderFree
<1>21. CASE BuildRefused
  BY <1>21, <1>0 DEF BuildRefused, BuilderFree
<1>22. CASE BuildDump
  BY <1>22, <1>0 DEF BuildDump, MayDump
<1>23. CASE BuildWrite
  <2>1. build.snap \in Snap
    BY <1>0
  <2>2. DOMAIN files' = DOMAIN files \cup {Len(files) + 1}
    BY <1>23, <1>0, <2>1, FilesAppend DEF BuildWrite
  <2> QED
    BY <1>23, <1>0, <2>2 DEF BuildWrite
<1>24. CASE BuildCheck
  BY <1>24, <1>0 DEF BuildCheck, Learns, NewerThanRegistry, Exists
<1>25. CASE BuildOld
  BY <1>25, <1>0 DEF BuildOld
<1>26. CASE BuildRegistry
  BY <1>26, <1>0 DEF BuildRegistry
<1>27. CASE BuildRemove
  BY <1>27, <1>0, FilesRemove DEF BuildRemove
<1>28. CASE BuildDone
  BY <1>28, <1>0 DEF BuildDone, Learns
<1>29. CASE Crash
  BY <1>29, <1>0 DEF Crash
<1>30. CASE Boot
  BY <1>30, <1>0, FilesRemove DEF Boot
<1>31. CASE RecoverNothing
  BY <1>31, <1>0 DEF RecoverNothing
<1>32. CASE RecoverStale
  BY <1>32, <1>0 DEF RecoverStale
<1>33. CASE RecoverForced
  BY <1>33, <1>0 DEF RecoverForced
<1>34. CASE RecoverRefused
  BY <1>34, <1>0 DEF RecoverRefused
<1>35. CASE RecoverReplay
  BY <1>35, <1>0 DEF RecoverReplay
<1>36. CASE RecoverDone
  BY <1>36, <1>0, FilesRemove DEF RecoverDone, ClearedRestore
<1>37. CASE UNCHANGED vars
  BY <1>37, <1>0 DEF vars
<1> QED
  BY <1>1, <1>2, <1>3, <1>4, <1>5, <1>6, <1>7, <1>8, <1>9, <1>10, <1>11, <1>12, <1>13, <1>14,
       <1>15, <1>16, <1>17, <1>18, <1>19, <1>20, <1>21, <1>22, <1>23, <1>24, <1>25, <1>26, <1>27,
       <1>28, <1>29, <1>30, <1>31, <1>32, <1>33, <1>34, <1>35, <1>36, <1>37
     DEF Next, WorkerStep, RestoreStep, BuildStep, RecoverStep

\* The payload of a marker stays the snapshot it names.
LEMMA MarkerStep ==
    ASSUME NodeInv, [Next]_vars
    PROVE  MarkerFits'
<1> USE DEF NodeInv, MarkerFits, logVars, tableVars, restoreVars, processVars
<1>0. /\ files \in Seq(Snap \cup {None}) /\ DOMAIN files = 1..Len(files) /\ Len(files) \in Nat
      /\ work \in Work /\ build \in Build /\ marker \in Named
  BY DEF NodeInv, TypeOK
<1>1. CASE AppendLog
  BY <1>1, <1>0 DEF AppendLog
<1>2. ASSUME NEW n \in Index, Purge(n) PROVE MarkerFits'
  BY <1>2, <1>0 DEF Purge, LogEnd
<1>3. CASE ApplyEntry
  BY <1>3, <1>0 DEF ApplyEntry, MayApply, WorkerFree, NextEntry
<1>4. CASE ApplyLost
  BY <1>4, <1>0 DEF ApplyLost, MayApply, WorkerFree, NextEntry
<1>5. CASE RecordApplied
  BY <1>5, <1>0 DEF RecordApplied
<1>6. CASE ApplyFails
  BY <1>6, <1>0 DEF ApplyFails, MayApply, WorkerFree, NextEntry
<1>7. CASE ApplyRefused
  BY <1>7, <1>0 DEF ApplyRefused, WorkerFree
<1>8. ASSUME NEW n \in Index, InstallSnapshot(n) PROVE MarkerFits'
  <2>1. SnapshotAt(n) \in Snap
    BY <1>8, <1>0, PrefixTypes, NodeAssumption DEF Index
  <2>2. DOMAIN files \subseteq DOMAIN files' /\ \A f \in DOMAIN files : files'[f] = files[f]
    BY <1>8, <1>0, <2>1, FilesAppend DEF InstallSnapshot
  <2> QED
    BY <1>8, <2>2 DEF InstallSnapshot
<1>9. CASE WriteMarker
  BY <1>9, <1>0 DEF WriteMarker, PayloadFits, Installing, Work
<1>10. CASE RestoreBatch
  BY <1>10, <1>0 DEF RestoreBatch
<1>11. CASE RestoreLastApplied
  BY <1>11, <1>0 DEF RestoreLastApplied
<1>12. CASE RestoreMembership
  BY <1>12, <1>0 DEF RestoreMembership
<1>13. CASE RestoreOld
  BY <1>13, <1>0 DEF RestoreOld
<1>14. CASE RestoreRegistry
  BY <1>14, <1>0 DEF RestoreRegistry
<1>15. CASE RemoveOld
  <2>1. DOMAIN files' = DOMAIN files /\ \A f \in DOMAIN files : files'[f] \in {None, files[f]}
    BY <1>15, <1>0, FilesRemove DEF RemoveOld
  <2> QED
    BY <1>15, <2>1 DEF RemoveOld
<1>16. CASE InstallDone
  BY <1>16, <1>0 DEF InstallDone, ClearedRestore, Learns
<1>17. CASE InstallRejected
  BY <1>17, <1>0 DEF InstallRejected
<1>18. CASE RestoreFails
  BY <1>18, <1>0 DEF RestoreFails
<1>19. CASE Poison
  BY <1>19, <1>0 DEF Poison
<1>20. CASE BuildStart
  BY <1>20, <1>0 DEF BuildStart, BuilderFree
<1>21. CASE BuildRefused
  BY <1>21, <1>0 DEF BuildRefused, BuilderFree
<1>22. CASE BuildDump
  BY <1>22, <1>0 DEF BuildDump, MayDump
<1>23. CASE BuildWrite
  <2>1. build.snap \in Snap
    BY <1>23, <1>0 DEF Build
  <2>2. DOMAIN files \subseteq DOMAIN files' /\ \A f \in DOMAIN files : files'[f] = files[f]
    BY <1>23, <1>0, <2>1, FilesAppend DEF BuildWrite
  <2> QED
    BY <1>23, <2>2 DEF BuildWrite
<1>24. CASE BuildCheck
  BY <1>24, <1>0 DEF BuildCheck, Learns, NewerThanRegistry, Exists
<1>25. CASE BuildOld
  BY <1>25, <1>0 DEF BuildOld
<1>26. CASE BuildRegistry
  BY <1>26, <1>0 DEF BuildRegistry
<1>27. CASE BuildRemove
  <2>1. DOMAIN files' = DOMAIN files /\ \A f \in DOMAIN files : files'[f] \in {None, files[f]}
    BY <1>27, <1>0, FilesRemove DEF BuildRemove
  <2> QED
    BY <1>27, <2>1 DEF BuildRemove
<1>28. CASE BuildDone
  BY <1>28, <1>0 DEF BuildDone, Learns
<1>29. CASE Crash
  BY <1>29, <1>0 DEF Crash
<1>30. CASE Boot
  <2>1. DOMAIN files' = DOMAIN files /\ \A f \in DOMAIN files : files'[f] \in {None, files[f]}
    BY <1>30, <1>0, FilesRemove DEF Boot
  <2> QED
    BY <1>30, <2>1 DEF Boot
<1>31. CASE RecoverNothing
  BY <1>31, <1>0 DEF RecoverNothing
<1>32. CASE RecoverStale
  BY <1>32, <1>0 DEF RecoverStale
<1>33. CASE RecoverForced
  BY <1>33, <1>0 DEF RecoverForced
<1>34. CASE RecoverRefused
  BY <1>34, <1>0 DEF RecoverRefused
<1>35. CASE RecoverReplay
  BY <1>35, <1>0 DEF RecoverReplay
<1>36. CASE RecoverDone
  <2>1. DOMAIN files' = DOMAIN files /\ \A f \in DOMAIN files : files'[f] \in {None, files[f]}
    BY <1>36, <1>0, FilesRemove DEF RecoverDone
  <2> QED
    BY <1>36, <2>1 DEF RecoverDone, ClearedRestore
<1>37. CASE UNCHANGED vars
  BY <1>37, <1>0 DEF vars
<1> QED
  BY <1>1, <1>2, <1>3, <1>4, <1>5, <1>6, <1>7, <1>8, <1>9, <1>10, <1>11, <1>12, <1>13, <1>14,
       <1>15, <1>16, <1>17, <1>18, <1>19, <1>20, <1>21, <1>22, <1>23, <1>24, <1>25, <1>26, <1>27,
       <1>28, <1>29, <1>30, <1>31, <1>32, <1>33, <1>34, <1>35, <1>36, <1>37
     DEF Next, WorkerStep, RestoreStep, BuildStep, RecoverStep

\* The payload of an installation stays there until it is restored.
LEMMA PayloadStep ==
    ASSUME NodeInv, [Next]_vars
    PROVE  PayloadFits'
<1> USE DEF NodeInv, PayloadFits, Installing, Work, logVars, tableVars, restoreVars, processVars
<1>0. /\ files \in Seq(Snap \cup {None}) /\ DOMAIN files = 1..Len(files) /\ Len(files) \in Nat
      /\ work \in Work /\ build \in Build /\ Idle.pc = "idle"
  BY IdleTypes DEF NodeInv, TypeOK
<1>1. CASE AppendLog
  BY <1>1, <1>0 DEF AppendLog
<1>2. ASSUME NEW n \in Index, Purge(n) PROVE PayloadFits'
  BY <1>2, <1>0 DEF Purge, LogEnd
<1>3. CASE ApplyEntry
  BY <1>3, <1>0 DEF ApplyEntry, MayApply, WorkerFree, NextEntry
<1>4. CASE ApplyLost
  BY <1>4, <1>0 DEF ApplyLost, MayApply, WorkerFree, NextEntry
<1>5. CASE RecordApplied
  BY <1>5, <1>0 DEF RecordApplied
<1>6. CASE ApplyFails
  BY <1>6, <1>0 DEF ApplyFails, MayApply, WorkerFree, NextEntry
<1>7. CASE ApplyRefused
  BY <1>7, <1>0 DEF ApplyRefused, WorkerFree
<1>8. ASSUME NEW n \in Index, InstallSnapshot(n) PROVE PayloadFits'
  <2>1. n \in 0..MaxIndex
    BY NodeAssumption DEF Index
  <2>2. SnapshotAt(n) \in Snap /\ MetaAt(n) \in Meta /\ MetaAt(n).at = n
    BY <2>1, PrefixTypes
  <2>3. Len(files) + 1 \in DOMAIN files' /\ files'[Len(files) + 1] = SnapshotAt(n)
    BY <1>8, <1>0, <2>2, FilesAppend DEF InstallSnapshot
  <2>4. work'.meta = MetaAt(n) /\ work'.file = Len(files) + 1
    BY <1>8, <1>0 DEF InstallSnapshot
  <2> QED
    BY <2>2, <2>3, <2>4
<1>9. CASE WriteMarker
  BY <1>9, <1>0 DEF WriteMarker
<1>10. CASE RestoreBatch
  BY <1>10, <1>0 DEF RestoreBatch
<1>11. CASE RestoreLastApplied
  BY <1>11, <1>0 DEF RestoreLastApplied
<1>12. CASE RestoreMembership
  BY <1>12, <1>0 DEF RestoreMembership
<1>13. CASE RestoreOld
  BY <1>13, <1>0 DEF RestoreOld
<1>14. CASE RestoreRegistry
  BY <1>14, <1>0 DEF RestoreRegistry
<1>15. CASE RemoveOld
  <2>1. DOMAIN files' = DOMAIN files
    BY <1>15, <1>0, FilesRemove DEF RemoveOld
  <2> QED
    BY <1>15, <1>0, <2>1 DEF RemoveOld
<1>16. CASE InstallDone
  BY <1>16, <1>0 DEF InstallDone, ClearedRestore, Learns
<1>17. CASE InstallRejected
  BY <1>17, <1>0 DEF InstallRejected
<1>18. CASE RestoreFails
  BY <1>18, <1>0 DEF RestoreFails
<1>19. CASE Poison
  BY <1>19, <1>0 DEF Poison
<1>20. CASE BuildStart
  BY <1>20, <1>0 DEF BuildStart, BuilderFree
<1>21. CASE BuildRefused
  BY <1>21, <1>0 DEF BuildRefused, BuilderFree
<1>22. CASE BuildDump
  BY <1>22, <1>0 DEF BuildDump, MayDump
<1>23. CASE BuildWrite
  <2>1. build.snap \in Snap
    BY <1>23, <1>0 DEF Build
  <2>2. DOMAIN files \subseteq DOMAIN files' /\ \A f \in DOMAIN files : files'[f] = files[f]
    BY <1>23, <1>0, <2>1, FilesAppend DEF BuildWrite
  <2> QED
    BY <1>23, <2>2 DEF BuildWrite
<1>24. CASE BuildCheck
  BY <1>24, <1>0 DEF BuildCheck, Learns, NewerThanRegistry, Exists
<1>25. CASE BuildOld
  BY <1>25, <1>0 DEF BuildOld
<1>26. CASE BuildRegistry
  BY <1>26, <1>0 DEF BuildRegistry
<1>27. CASE BuildRemove
  <2>1. DOMAIN files' = DOMAIN files
    BY <1>27, <1>0, FilesRemove DEF BuildRemove
  <2>2. ASSUME work.pc \in {"mark", "restore"} PROVE files'[work.file] = files[work.file]
    <3>1. phase # "boot" /\ work.file # build.old /\ work.file \in DOMAIN files
      BY <1>27, <2>2 DEF PhasesFit, Alone, BuildRemove
    <3> QED
      BY <1>27, <1>0, <3>1, FilesRemove DEF BuildRemove
  <2> QED
    BY <1>27, <1>0, <2>1, <2>2 DEF BuildRemove
<1>28. CASE BuildDone
  BY <1>28, <1>0 DEF BuildDone, Learns
<1>29. CASE Crash
  BY <1>29, <1>0 DEF Crash
<1>30. CASE Boot
  <2>1. work'.pc = "idle"
    BY <1>30, <1>0 DEF Boot, PhasesFit
  <2> QED
    BY <2>1
<1>31. CASE RecoverNothing
  BY <1>31, <1>0 DEF RecoverNothing
<1>32. CASE RecoverStale
  BY <1>32, <1>0 DEF RecoverStale
<1>33. CASE RecoverForced
  BY <1>33, <1>0 DEF RecoverForced
<1>34. CASE RecoverRefused
  BY <1>34, <1>0 DEF RecoverRefused
<1>35. CASE RecoverReplay
  BY <1>35, <1>0 DEF RecoverReplay, MarkerFits, Exists
<1>36. CASE RecoverDone
  BY <1>36, <1>0 DEF RecoverDone, ClearedRestore
<1>37. CASE UNCHANGED vars
  BY <1>37, <1>0 DEF vars
<1> QED
  BY <1>1, <1>2, <1>3, <1>4, <1>5, <1>6, <1>7, <1>8, <1>9, <1>10, <1>11, <1>12, <1>13, <1>14,
       <1>15, <1>16, <1>17, <1>18, <1>19, <1>20, <1>21, <1>22, <1>23, <1>24, <1>25, <1>26, <1>27,
       <1>28, <1>29, <1>30, <1>31, <1>32, <1>33, <1>34, <1>35, <1>36, <1>37
     DEF Next, WorkerStep, RestoreStep, BuildStep, RecoverStep

\* Nobody learns of the file of an installation too early.
LEMMA AloneStep ==
    ASSUME NodeInv, [Next]_vars
    PROVE  Alone'
<1> USE DEF NodeInv, Alone, Building, Work, Build, logVars, tableVars, restoreVars, processVars
<1>0. /\ files \in Seq(Snap \cup {None}) /\ DOMAIN files = 1..Len(files) /\ Len(files) \in Nat
      /\ work \in Work /\ build \in Build /\ Idle.pc = "idle" /\ IdleBuild.pc = "idle"
  BY IdleTypes DEF NodeInv, TypeOK
<1>1. CASE AppendLog
  BY <1>1, <1>0 DEF AppendLog
<1>2. ASSUME NEW n \in Index, Purge(n) PROVE Alone'
  BY <1>2, <1>0 DEF Purge, LogEnd
<1>3. CASE ApplyEntry
  BY <1>3, <1>0 DEF ApplyEntry, MayApply, WorkerFree, NextEntry
<1>4. CASE ApplyLost
  BY <1>4, <1>0 DEF ApplyLost, MayApply, WorkerFree, NextEntry
<1>5. CASE RecordApplied
  BY <1>5, <1>0 DEF RecordApplied
<1>6. CASE ApplyFails
  BY <1>6, <1>0 DEF ApplyFails, MayApply, WorkerFree, NextEntry
<1>7. CASE ApplyRefused
  BY <1>7, <1>0 DEF ApplyRefused, WorkerFree
<1>8. ASSUME NEW n \in Index, InstallSnapshot(n) PROVE Alone'
  <2>1. work'.file = Len(files) + 1 /\ Len(files) + 1 \notin DOMAIN files /\ Len(files) + 1 # None
    BY <1>8, <1>0, NoneAssumption DEF InstallSnapshot
  <2>2. registry' = registry /\ build' = build /\ phase' = phase
    BY <1>8 DEF InstallSnapshot
  <2> QED
    BY <2>1, <2>2 DEF FilesFit
<1>9. CASE WriteMarker
  BY <1>9, <1>0 DEF WriteMarker
<1>10. CASE RestoreBatch
  BY <1>10, <1>0 DEF RestoreBatch
<1>11. CASE RestoreLastApplied
  BY <1>11, <1>0 DEF RestoreLastApplied
<1>12. CASE RestoreMembership
  BY <1>12, <1>0 DEF RestoreMembership
<1>13. CASE RestoreOld
  BY <1>13, <1>0 DEF RestoreOld
<1>14. CASE RestoreRegistry
  BY <1>14, <1>0 DEF RestoreRegistry
<1>15. CASE RemoveOld
  BY <1>15, <1>0 DEF RemoveOld
<1>16. CASE InstallDone
  BY <1>16, <1>0 DEF InstallDone, ClearedRestore, Learns
<1>17. CASE InstallRejected
  BY <1>17, <1>0 DEF InstallRejected
<1>18. CASE RestoreFails
  BY <1>18, <1>0 DEF RestoreFails
<1>19. CASE Poison
  BY <1>19, <1>0 DEF Poison
<1>20. CASE BuildStart
  BY <1>20, <1>0 DEF BuildStart, BuilderFree
<1>21. CASE BuildRefused
  BY <1>21, <1>0 DEF BuildRefused, BuilderFree
<1>22. CASE BuildDump
  BY <1>22, <1>0 DEF BuildDump, MayDump
<1>23. CASE BuildWrite
  <2>1. build'.file = Len(files) + 1 /\ Len(files) + 1 \notin DOMAIN files /\ build'.pc = "check"
    BY <1>23, <1>0 DEF BuildWrite
  <2>2. registry' = registry /\ work' = work /\ phase' = phase
    BY <1>23 DEF BuildWrite
  <2> QED
    BY <2>1, <2>2 DEF PayloadFits, Installing
<1>24. CASE BuildCheck
  BY <1>24, <1>0 DEF BuildCheck, Learns, NewerThanRegistry, Exists
<1>25. CASE BuildOld
  BY <1>25, <1>0, NoneAssumption DEF BuildOld, PayloadFits, Installing
<1>26. CASE BuildRegistry
  BY <1>26, <1>0 DEF BuildRegistry
<1>27. CASE BuildRemove
  BY <1>27, <1>0 DEF BuildRemove
<1>28. CASE BuildDone
  BY <1>28, <1>0 DEF BuildDone, Learns
<1>29. CASE Crash
  BY <1>29, <1>0 DEF Crash
<1>30. CASE Boot
  BY <1>30, <1>0 DEF Boot, PhasesFit
<1>31. CASE RecoverNothing
  BY <1>31, <1>0 DEF RecoverNothing, Up
<1>32. CASE RecoverStale
  BY <1>32, <1>0 DEF RecoverStale, Up
<1>33. CASE RecoverForced
  BY <1>33, <1>0 DEF RecoverForced, Up
<1>34. CASE RecoverRefused
  BY <1>34, <1>0 DEF RecoverRefused
<1>35. CASE RecoverReplay
  BY <1>35, <1>0 DEF RecoverReplay
<1>36. CASE RecoverDone
  BY <1>36, <1>0 DEF RecoverDone, ClearedRestore, Up
<1>37. CASE UNCHANGED vars
  BY <1>37, <1>0 DEF vars
<1> QED
  BY <1>1, <1>2, <1>3, <1>4, <1>5, <1>6, <1>7, <1>8, <1>9, <1>10, <1>11, <1>12, <1>13, <1>14,
       <1>15, <1>16, <1>17, <1>18, <1>19, <1>20, <1>21, <1>22, <1>23, <1>24, <1>25, <1>26, <1>27,
       <1>28, <1>29, <1>30, <1>31, <1>32, <1>33, <1>34, <1>35, <1>36, <1>37
     DEF Next, WorkerStep, RestoreStep, BuildStep, RecoverStep

\* A restore writes the snapshot part by part.
LEMMA BodyStep ==
    ASSUME NodeInv, [Next]_vars
    PROVE  BodyFits'
<1> USE DEF NodeInv, BodyFits, Restored, Installing, Work, logVars, tableVars, restoreVars,
processVars
<1>0. /\ work \in Work /\ body \in Body /\ Idle.pc = "idle" /\ Batches \in Nat \ {0}
  BY IdleTypes, NodeAssumption DEF NodeInv, TypeOK
<1>1. CASE AppendLog
  BY <1>1, <1>0 DEF AppendLog
<1>2. ASSUME NEW n \in Index, Purge(n) PROVE BodyFits'
  BY <1>2, <1>0 DEF Purge, LogEnd
<1>3. CASE ApplyEntry
  BY <1>3, <1>0 DEF ApplyEntry, MayApply, WorkerFree, NextEntry
<1>4. CASE ApplyLost
  BY <1>4, <1>0 DEF ApplyLost, MayApply, WorkerFree, NextEntry
<1>5. CASE RecordApplied
  BY <1>5, <1>0 DEF RecordApplied
<1>6. CASE ApplyFails
  BY <1>6, <1>0 DEF ApplyFails, MayApply, WorkerFree, NextEntry
<1>7. CASE ApplyRefused
  BY <1>7, <1>0 DEF ApplyRefused, WorkerFree
<1>8. ASSUME NEW n \in Index, InstallSnapshot(n) PROVE BodyFits'
  BY <1>8, <1>0 DEF InstallSnapshot, WorkerFree
<1>9. CASE WriteMarker
  BY <1>9, <1>0 DEF WriteMarker, Part
<1>10. CASE RestoreBatch
  <2>1. /\ work.meta.at \in 0..MaxIndex /\ work.part \in Part
        /\ files[work.file] = SnapshotAt(work.meta.at)
    BY <1>10, NodeAssumption DEF RestoreBatch, PayloadFits, Installing, Index
  <2>2. files[work.file].body[work.part] = Prefix(work.meta.at)
    BY <2>1, PrefixTypes
  <2>3. /\ body'[work.part] = Prefix(work.meta.at)
        /\ \A q \in Part : q < work.part => body'[q] = body[q]
    BY <1>10, <1>0, <2>1, <2>2 DEF RestoreBatch, Part
  <2>4. \A q \in Part : q <= work.part => body'[q] = Prefix(work.meta.at)
    BY <1>10, <1>0, <2>1, <2>3 DEF RestoreBatch, Part
  <2>5. CASE work.part < Batches
    <3>1. work'.pc = "restore" /\ work'.part = work.part + 1 /\ work'.meta = work.meta
      BY <1>10, <1>0, <2>5 DEF RestoreBatch
    <3> QED
      BY <1>0, <2>1, <2>4, <2>5, <3>1 DEF Part
  <2>6. CASE ~(work.part < Batches)
    <3>1. work'.pc = "last_applied" /\ work'.meta = work.meta /\ work.part = Batches
      BY <1>10, <1>0, <2>1, <2>6 DEF RestoreBatch, Part
    <3> QED
      BY <1>0, <2>4, <3>1 DEF Part
  <2> QED
    BY <2>5, <2>6
<1>11. CASE RestoreLastApplied
  BY <1>11, <1>0 DEF RestoreLastApplied
<1>12. CASE RestoreMembership
  BY <1>12, <1>0 DEF RestoreMembership
<1>13. CASE RestoreOld
  BY <1>13, <1>0 DEF RestoreOld
<1>14. CASE RestoreRegistry
  BY <1>14, <1>0 DEF RestoreRegistry
<1>15. CASE RemoveOld
  BY <1>15, <1>0 DEF RemoveOld
<1>16. CASE InstallDone
  BY <1>16, <1>0 DEF InstallDone, ClearedRestore, Learns
<1>17. CASE InstallRejected
  BY <1>17, <1>0 DEF InstallRejected
<1>18. CASE RestoreFails
  BY <1>18, <1>0 DEF RestoreFails
<1>19. CASE Poison
  BY <1>19, <1>0 DEF Poison
<1>20. CASE BuildStart
  BY <1>20, <1>0 DEF BuildStart, BuilderFree
<1>21. CASE BuildRefused
  BY <1>21, <1>0 DEF BuildRefused, BuilderFree
<1>22. CASE BuildDump
  BY <1>22, <1>0 DEF BuildDump, MayDump
<1>23. CASE BuildWrite
  BY <1>23, <1>0 DEF BuildWrite
<1>24. CASE BuildCheck
  BY <1>24, <1>0 DEF BuildCheck, Learns, NewerThanRegistry, Exists
<1>25. CASE BuildOld
  BY <1>25, <1>0 DEF BuildOld
<1>26. CASE BuildRegistry
  BY <1>26, <1>0 DEF BuildRegistry
<1>27. CASE BuildRemove
  BY <1>27, <1>0 DEF BuildRemove
<1>28. CASE BuildDone
  BY <1>28, <1>0 DEF BuildDone, Learns
<1>29. CASE Crash
  BY <1>29, <1>0 DEF Crash
<1>30. CASE Boot
  BY <1>30, <1>0 DEF Boot, PhasesFit
<1>31. CASE RecoverNothing
  BY <1>31, <1>0 DEF RecoverNothing
<1>32. CASE RecoverStale
  BY <1>32, <1>0 DEF RecoverStale
<1>33. CASE RecoverForced
  BY <1>33, <1>0 DEF RecoverForced
<1>34. CASE RecoverRefused
  BY <1>34, <1>0 DEF RecoverRefused
<1>35. CASE RecoverReplay
  BY <1>35, <1>0 DEF RecoverReplay, Part
<1>36. CASE RecoverDone
  BY <1>36, <1>0 DEF RecoverDone, ClearedRestore
<1>37. CASE UNCHANGED vars
  BY <1>37, <1>0 DEF vars
<1> QED
  BY <1>1, <1>2, <1>3, <1>4, <1>5, <1>6, <1>7, <1>8, <1>9, <1>10, <1>11, <1>12, <1>13, <1>14,
       <1>15, <1>16, <1>17, <1>18, <1>19, <1>20, <1>21, <1>22, <1>23, <1>24, <1>25, <1>26, <1>27,
       <1>28, <1>29, <1>30, <1>31, <1>32, <1>33, <1>34, <1>35, <1>36, <1>37
     DEF Next, WorkerStep, RestoreStep, BuildStep, RecoverStep

\* No snapshot of the node is ever ahead of its last_applied.
LEMMA BoundsStep ==
    ASSUME NodeInv, [Next]_vars
    PROVE  Bounds'
<1> USE DEF NodeInv, Bounds, Installing, Building, Work, Build, logVars, tableVars, restoreVars,
processVars
<1>0. /\ work \in Work /\ build \in Build /\ work.meta \in Meta /\ applied \in 0..MaxIndex
      /\ known \in 0..MaxIndex /\ lastPurged \in Nat /\ lastLog \in 0..MaxIndex
      /\ build.snap.meta \in Meta /\ registry \in Named /\ current \in Named /\ marker \in Named
      /\ Idle.pc = "idle" /\ IdleBuild.pc = "idle" /\ MaxIndex \in Nat
  BY IdleTypes, NodeAssumption DEF NodeInv, TypeOK, Work, Build, Snap
<1>1. CASE AppendLog
  BY <1>1, <1>0 DEF AppendLog
<1>2. ASSUME NEW n \in Index, Purge(n) PROVE Bounds'
  BY <1>2, <1>0 DEF Purge, LogEnd, Index, Meta
<1>3. CASE ApplyEntry
  BY <1>3, <1>0 DEF ApplyEntry, MayApply, WorkerFree, NextEntry, Index, Meta
<1>4. CASE ApplyLost
  BY <1>4, <1>0 DEF ApplyLost, MayApply, WorkerFree, NextEntry, Index, Meta
<1>5. CASE RecordApplied
  BY <1>5, <1>0 DEF RecordApplied, Meta, Named, Building
<1>6. CASE ApplyFails
  BY <1>6, <1>0 DEF ApplyFails, MayApply, WorkerFree, NextEntry
<1>7. CASE ApplyRefused
  BY <1>7, <1>0 DEF ApplyRefused, WorkerFree
<1>8. ASSUME NEW n \in Index, InstallSnapshot(n) PROVE Bounds'
  <2>1. n \in 0..MaxIndex /\ MetaAt(n).at = n
    BY <1>0, PrefixTypes DEF Index
  <2> QED
    BY <1>8, <1>0, <2>1 DEF InstallSnapshot, WorkerFree
<1>9. CASE WriteMarker
  BY <1>9, <1>0 DEF WriteMarker
<1>10. CASE RestoreBatch
  BY <1>10, <1>0 DEF RestoreBatch
<1>11. CASE RestoreLastApplied
  BY <1>11, <1>0 DEF RestoreLastApplied, Meta, Named, Building
<1>12. CASE RestoreMembership
  BY <1>12, <1>0 DEF RestoreMembership
<1>13. CASE RestoreOld
  BY <1>13, <1>0 DEF RestoreOld
<1>14. CASE RestoreRegistry
  BY <1>14, <1>0, NoneAssumption DEF RestoreRegistry, BodyFits, Restored, Meta
<1>15. CASE RemoveOld
  BY <1>15, <1>0 DEF RemoveOld
<1>16. CASE InstallDone
  BY <1>16, <1>0, NoneAssumption DEF InstallDone, ClearedRestore, Learns, BodyFits, Restored, Meta
<1>17. CASE InstallRejected
  BY <1>17, <1>0 DEF InstallRejected
<1>18. CASE RestoreFails
  BY <1>18, <1>0 DEF RestoreFails
<1>19. CASE Poison
  BY <1>19, <1>0 DEF Poison
<1>20. CASE BuildStart
  BY <1>20, <1>0 DEF BuildStart, BuilderFree
<1>21. CASE BuildRefused
  BY <1>21, <1>0 DEF BuildRefused, BuilderFree
<1>22. CASE BuildDump
  BY <1>22, <1>0 DEF BuildDump, MayDump
<1>23. CASE BuildWrite
  BY <1>23, <1>0 DEF BuildWrite
<1>24. CASE BuildCheck
  BY <1>24, <1>0 DEF BuildCheck, Learns, NewerThanRegistry, Exists, Meta
<1>25. CASE BuildOld
  BY <1>25, <1>0 DEF BuildOld
<1>26. CASE BuildRegistry
  BY <1>26, <1>0 DEF BuildRegistry, Meta
<1>27. CASE BuildRemove
  BY <1>27, <1>0 DEF BuildRemove
<1>28. CASE BuildDone
  BY <1>28, <1>0 DEF BuildDone, Learns, Meta
<1>29. CASE Crash
  BY <1>29, <1>0 DEF Crash
<1>30. CASE Boot
  BY <1>30, <1>0 DEF Boot
<1>31. CASE RecoverNothing
  BY <1>31, <1>0 DEF RecoverNothing, Up, CurrentSnapshot, Exists, Named, Meta
<1>32. CASE RecoverStale
  BY <1>32, <1>0 DEF RecoverStale, Up, CurrentSnapshot, Exists, Named, Meta
<1>33. CASE RecoverForced
  BY <1>33, <1>0 DEF RecoverForced, Up, CurrentSnapshot, Exists, Named, Meta
<1>34. CASE RecoverRefused
  BY <1>34, <1>0 DEF RecoverRefused
<1>35. CASE RecoverReplay
  BY <1>35, <1>0 DEF RecoverReplay, StaleMarker, MarkerFits, Named, Meta, Index
<1>36. CASE RecoverDone
  BY <1>36, <1>0 DEF RecoverDone, ClearedRestore, Up, CurrentSnapshot, Exists, Named, Meta,
       PhasesFit
<1>37. CASE UNCHANGED vars
  BY <1>37, <1>0 DEF vars
<1> QED
  BY <1>1, <1>2, <1>3, <1>4, <1>5, <1>6, <1>7, <1>8, <1>9, <1>10, <1>11, <1>12, <1>13, <1>14,
       <1>15, <1>16, <1>17, <1>18, <1>19, <1>20, <1>21, <1>22, <1>23, <1>24, <1>25, <1>26, <1>27,
       <1>28, <1>29, <1>30, <1>31, <1>32, <1>33, <1>34, <1>35, <1>36, <1>37
     DEF Next, WorkerStep, RestoreStep, BuildStep, RecoverStep

\* The first state of a node.
LEMMA NodeStart == Init => NodeInv
<1> SUFFICES ASSUME Init PROVE NodeInv
  OBVIOUS
<1>0. /\ 0 \in 0..MaxIndex /\ 0 \in 0..MaxFiles /\ Len(<<>>) = 0
      /\ MaxIndex \in Nat /\ MaxFiles \in Nat
  BY NodeAssumption
<1>1. Prefix(0) \in [Index -> Nat]
  BY <1>0, PrefixTypes
<1>2. body \in Body
  BY <1>1 DEF Init, Body
<1>3. markerOn \in BOOLEAN /\ mishaps \in 0..MaxMishaps
  BY NodeAssumption DEF Init
<1>4. files \in Seq(Snap \cup {None}) /\ Len(files) <= MaxFiles
  BY <1>0 DEF Init
<1>5. TypeOK
  <2>1. /\ lastLog \in 0..MaxIndex /\ lastPurged \in 0..lastLog
        /\ applied \in 0..MaxIndex /\ membership \in 0..MaxIndex /\ known \in 0..MaxIndex
    BY <1>0 DEF Init
  <2>2. work \in Work /\ build \in Build
    BY IdleTypes DEF Init
  <2>3. /\ registry \in Named /\ marker \in Named /\ current \in Named
        /\ poisonKey \in BOOLEAN /\ poisoned \in BOOLEAN
        /\ phase \in {"down", "boot", "up", "halted", "refused"}
    BY DEF Init, Named
  <2> QED
    BY <1>2, <1>3, <1>4, <2>1, <2>2, <2>3 DEF TypeOK
<1>6. PhasesFit /\ FilesFit /\ MarkerFits /\ PayloadFits /\ Alone /\ BodyFits /\ Bounds
  BY <1>0, IdleTypes DEF Init, PhasesFit, FilesFit, MarkerFits, PayloadFits, Alone, BodyFits,
     Bounds, Installing, Restored, Building
<1> QED
  BY <1>5, <1>6 DEF NodeInv

\* The invariant of every node, whatever its switches and faults.
LEMMA NodeHolds == Spec => []NodeInv
<1>1. NodeInv /\ [Next]_vars => NodeInv'
  BY TypeStep, PhasesStep, FilesStep, MarkerStep, PayloadStep, AloneStep, BodyStep, BoundsStep
     DEF NodeInv
<1> QED
  BY NodeStart, <1>1, PTL DEF Spec

\* The variables of the store have their types (dsh-raft/src/store.rs), for any settings and
\* any faults.
THEOREM NodeTypeOK == Spec => []TypeOK
<1>1. NodeInv => TypeOK
  BY DEF NodeInv
<1> QED
  BY <1>1, NodeHolds, PTL

\* Tables that hold the snapshot at n, part by part, hold the state after entry n.
LEMMA PrefixHolds ==
    ASSUME NEW n \in 0..MaxIndex, NEW b, \A q \in Part : b[q] = Prefix(n)
    PROVE  Holds(b, n)
<1>1. 1 \in Part /\ Index \subseteq Nat /\ n \in Nat
  BY NodeAssumption DEF Part, Index
<1>2. ASSUME NEW p \in Part, NEW i \in Index \ MembershipEntry
      PROVE  (i <= n => b[p][i] >= 1) /\ (i > n + 1 => b[p][i] = 0)
  <2>1. b[p][i] = Prefix(n)[i] /\ i \in Nat
    BY <1>1
  <2>2. Prefix(n)[i] = IF i <= n THEN 1 ELSE 0
    BY DEF Prefix
  <2> QED
    BY <1>1, <2>1, <2>2
<1>3. \A p \in Part : b[p] = b[1]
  BY <1>1
<1> QED
  BY <1>2, <1>3 DEF Holds

\* Neither an installation nor its replay at start takes last_applied back
\* (restore_and_persist_inner, recover_interrupted_restore), and what was purged was applied:
\* with every switch, every fault and the builder beside the worker.
THEOREM AppliedNeverRegressesHolds == Spec => AppliedNeverRegresses
<1>1. NodeInv /\ NodeInv' /\ [Next]_vars => [applied' >= applied /\ applied' >= lastPurged']_vars
  <2> SUFFICES ASSUME NodeInv, NodeInv', [Next]_vars
               PROVE  applied' >= applied /\ applied' >= lastPurged'
    BY Zenon
  <2>0. /\ applied \in Nat
        /\ work.pc = "record" => work.meta.at = applied + 1
        /\ work.pc \in Installing => work.meta.at >= applied
    <3>1. applied \in Nat
      BY NodeAssumption DEF NodeInv, TypeOK
    <3>2. /\ work.pc = "record" => work.meta.at = applied + 1
          /\ work.pc \in Installing => work.meta.at >= applied
      BY DEF NodeInv, Bounds
    <3> QED
      BY <3>1, <3>2
  <2>1. applied' >= lastPurged'
    <3>1. /\ applied' \in 0..MaxIndex /\ lastPurged' \in 0..lastLog' /\ lastLog' \in 0..MaxIndex
          /\ lastPurged' <= applied'
      BY DEF NodeInv, TypeOK, Bounds
    <3> QED
      BY <3>1, NodeAssumption
  <2>2. RecordApplied \/ RestoreLastApplied \/ applied' = applied
    BY DEF Next, WorkerStep, BuildStep, RecoverStep, RestoreStep, logVars, tableVars, restoreVars,
       processVars, vars, AppendLog, Purge, ApplyEntry, ApplyLost, ApplyFails, ApplyRefused,
       InstallSnapshot, WriteMarker, RestoreBatch, RestoreMembership, RestoreOld, RestoreRegistry,
       RemoveOld, InstallDone, InstallRejected, RestoreFails, Poison, BuildStart, BuildRefused,
       BuildDump, BuildWrite, BuildCheck, BuildOld, BuildRegistry, BuildRemove, BuildDone, Crash,
       Boot, RecoverNothing, RecoverStale, RecoverForced, RecoverRefused, RecoverReplay, RecoverDone
  <2>3. CASE RecordApplied
    BY <2>0, <2>1, <2>3 DEF RecordApplied
  <2>4. CASE RestoreLastApplied
    BY <2>0, <2>1, <2>4 DEF RestoreLastApplied, Installing
  <2>5. CASE applied' = applied
    BY <2>0, <2>1, <2>5
  <2> QED
    BY <2>2, <2>3, <2>4, <2>5
<1> QED
  BY <1>1, NodeHolds, PTL DEF Spec, AppliedNeverRegresses

\* The durable fail-stop (META_POISON) ends only where a restore has been carried out whole:
\* with every switch, every fault and the builder beside the worker.
THEOREM PoisonEndsWholeHolds == Spec => PoisonEndsWhole
<1>1. NodeInv /\ [Next]_vars => [poisonKey /\ ~poisonKey' => Holds(body', applied')]_vars
  <2> SUFFICES ASSUME NodeInv, [Next]_vars, poisonKey, ~poisonKey' PROVE Holds(body', applied')
    BY Zenon
  <2>1. InstallDone \/ RecoverDone \/ poisonKey' = poisonKey \/ poisonKey'
    BY DEF Next, WorkerStep, BuildStep, RecoverStep, RestoreStep, logVars, tableVars, restoreVars,
       processVars, vars, AppendLog, Purge, ApplyEntry, ApplyLost, RecordApplied, ApplyFails,
       ApplyRefused, InstallSnapshot, WriteMarker, RestoreBatch, RestoreLastApplied,
       RestoreMembership, RestoreOld, RestoreRegistry, RemoveOld, InstallRejected, RestoreFails,
       Poison, BuildStart, BuildRefused, BuildDump, BuildWrite, BuildCheck, BuildOld,
       BuildRegistry, BuildRemove, BuildDone, Crash, Boot, RecoverNothing, RecoverStale,
       RecoverForced, RecoverRefused, RecoverReplay
  <2>2. work.pc = "clear" /\ body' = body /\ applied' = applied
    BY <2>1 DEF InstallDone, RecoverDone, tableVars
  <2>3. /\ applied = work.meta.at /\ applied \in 0..MaxIndex
        /\ \A q \in Part : body[q] = Prefix(applied)
    BY <2>2 DEF NodeInv, TypeOK, BodyFits, Restored, Installing
  <2>4. Holds(body, applied)
    BY <2>3, PrefixHolds
  <2> QED
    BY <2>2, <2>4
<1> QED
  BY <1>1, NodeHolds, PTL DEF Spec, PoisonEndsWhole

-----------------------------------------------------------------------------
(* What the restore marker is for *)

\* DSH_RAFT_RESTORE_MARKER is not switched off.
Marked == MarkerSettings \subseteq {TRUE}

\* The marker stands as long as the tables are not whole, and then a running
\* node is installing a snapshot or poisoned.
MarkerInv ==
    /\ markerOn = TRUE
    /\ work.pc \in Installing \ {"mark"} => marker = [meta |-> work.meta, file |-> work.file]
    /\ work.pc \in (Installing \ {"mark"}) \cup {"failed"} => marker # None
    /\ poisonKey \/ poisoned => marker # None
    /\ marker # None => marker.meta.at >= applied
    /\ work.pc = "record" => marker = None
    /\ Running /\ work.pc \in {"idle", "record", "mark"} /\ ~poisoned => marker = None

\* Every step keeps the marker where it is needed.
LEMMA MarkerInvStep ==
    ASSUME Marked, NodeInv, MarkerInv, [Next]_vars
    PROVE  MarkerInv'
<1> USE DEF NodeInv, MarkerInv, Marked, Running, Installing, Work, logVars, tableVars,
restoreVars, processVars
<1>0. /\ work \in Work /\ work.meta \in Meta /\ applied \in 0..MaxIndex /\ marker \in Named
      /\ poisoned \in BOOLEAN /\ poisonKey \in BOOLEAN /\ Idle.pc = "idle" /\ MaxIndex \in Nat
      /\ phase \in {"down", "boot", "up", "halted", "refused"}
  BY IdleTypes, NodeAssumption DEF NodeInv, TypeOK, Work
<1>1. CASE AppendLog
  BY <1>1, <1>0 DEF AppendLog
<1>2. ASSUME NEW n \in Index, Purge(n) PROVE MarkerInv'
  BY <1>2, <1>0 DEF Purge, LogEnd
<1>3. CASE ApplyEntry
  BY <1>3, <1>0 DEF ApplyEntry, MayApply, WorkerFree, NextEntry
<1>4. CASE ApplyLost
  BY <1>4, <1>0 DEF ApplyLost, MayApply, WorkerFree, NextEntry
<1>5. CASE RecordApplied
  BY <1>5, <1>0 DEF RecordApplied
<1>6. CASE ApplyFails
  BY <1>6, <1>0 DEF ApplyFails, MayApply, WorkerFree, NextEntry
<1>7. CASE ApplyRefused
  BY <1>7, <1>0 DEF ApplyRefused, WorkerFree
<1>8. ASSUME NEW n \in Index, InstallSnapshot(n) PROVE MarkerInv'
  BY <1>8, <1>0 DEF InstallSnapshot, WorkerFree, Bounds
<1>9. CASE WriteMarker
  <2>1. marker' = [meta |-> work.meta, file |-> work.file] /\ work'.pc = "restore"
    BY <1>9, <1>0 DEF WriteMarker
  <2>2. work'.meta = work.meta /\ work'.file = work.file
    BY <1>9, <1>0 DEF WriteMarker
  <2>3. marker' # None
    <3>1. work.file \in 1..MaxFiles
      BY <1>9, <1>0 DEF WriteMarker, PayloadFits, TypeOK
    <3> QED
      BY <1>0, <2>1, <3>1, NoneAssumption
  <2>4. marker'.meta.at >= applied
    BY <1>9, <1>0, <2>1 DEF WriteMarker, Bounds
  <2> QED
    BY <1>9, <2>1, <2>2, <2>3, <2>4 DEF WriteMarker
<1>10. CASE RestoreBatch
  BY <1>10, <1>0 DEF RestoreBatch
<1>11. CASE RestoreLastApplied
  BY <1>11, <1>0 DEF RestoreLastApplied, Meta, Named
<1>12. CASE RestoreMembership
  BY <1>12, <1>0 DEF RestoreMembership
<1>13. CASE RestoreOld
  BY <1>13, <1>0 DEF RestoreOld
<1>14. CASE RestoreRegistry
  BY <1>14, <1>0 DEF RestoreRegistry
<1>15. CASE RemoveOld
  BY <1>15, <1>0 DEF RemoveOld
<1>16. CASE InstallDone
  BY <1>16, <1>0 DEF InstallDone, ClearedRestore, Learns
<1>17. CASE InstallRejected
  BY <1>17, <1>0 DEF InstallRejected, PhasesFit
<1>18. CASE RestoreFails
  BY <1>18, <1>0 DEF RestoreFails
<1>19. CASE Poison
  BY <1>19, <1>0 DEF Poison
<1>20. CASE BuildStart
  BY <1>20, <1>0 DEF BuildStart, BuilderFree
<1>21. CASE BuildRefused
  BY <1>21, <1>0 DEF BuildRefused, BuilderFree
<1>22. CASE BuildDump
  BY <1>22, <1>0 DEF BuildDump, MayDump
<1>23. CASE BuildWrite
  BY <1>23, <1>0 DEF BuildWrite
<1>24. CASE BuildCheck
  BY <1>24, <1>0 DEF BuildCheck, Learns, NewerThanRegistry, Exists
<1>25. CASE BuildOld
  BY <1>25, <1>0 DEF BuildOld
<1>26. CASE BuildRegistry
  BY <1>26, <1>0 DEF BuildRegistry
<1>27. CASE BuildRemove
  BY <1>27, <1>0 DEF BuildRemove
<1>28. CASE BuildDone
  BY <1>28, <1>0 DEF BuildDone, Learns
<1>29. CASE Crash
  BY <1>29, <1>0 DEF Crash
<1>30. CASE Boot
  BY <1>30, <1>0 DEF Boot, PhasesFit
<1>31. CASE RecoverNothing
  BY <1>31, <1>0 DEF RecoverNothing, Up
<1>32. CASE RecoverStale
  BY <1>32, <1>0 DEF RecoverStale, Up, StaleMarker, Named, Meta
<1>33. CASE RecoverForced
  BY <1>33, <1>0 DEF RecoverForced, Up
<1>34. CASE RecoverRefused
  BY <1>34, <1>0 DEF RecoverRefused
<1>35. CASE RecoverReplay
  <2>1. marker = [meta |-> marker.meta, file |-> marker.file]
    BY <1>35, <1>0 DEF RecoverReplay, Named
  <2>2. work' = [work EXCEPT !.pc = "restore", !.meta = marker.meta, !.file = marker.file,
  !.part = 1]
    BY <1>35 DEF RecoverReplay
  <2>3. work'.pc = "restore" /\ work'.meta = marker.meta /\ work'.file = marker.file
    BY <1>0, <2>2
  <2> QED
    BY <1>35, <2>1, <2>3 DEF RecoverReplay
<1>36. CASE RecoverDone
  BY <1>36, <1>0 DEF RecoverDone, ClearedRestore, Up
<1>37. CASE UNCHANGED vars
  BY <1>37, <1>0 DEF vars
<1> QED
  BY <1>1, <1>2, <1>3, <1>4, <1>5, <1>6, <1>7, <1>8, <1>9, <1>10, <1>11, <1>12, <1>13, <1>14,
       <1>15, <1>16, <1>17, <1>18, <1>19, <1>20, <1>21, <1>22, <1>23, <1>24, <1>25, <1>26, <1>27,
       <1>28, <1>29, <1>30, <1>31, <1>32, <1>33, <1>34, <1>35, <1>36, <1>37
     DEF Next, WorkerStep, RestoreStep, BuildStep, RecoverStep

-----------------------------------------------------------------------------
(* The tables are whole unless the marker stands *)

\* A command whose commit fails would count as applied: that fault is left out.
Flushed == "flush" \notin Faults

\* The tables are those after last_applied, or one entry further.
Recorded ==
    Holds(body, applied) /\ membership \in {MembershipAt(applied), MembershipAt(applied + 1)}

WholeInv ==
    /\ marker = None /\ work.pc \in {"idle", "record", "mark"} => Recorded
    /\ work.pc = "record" =>
          /\ membership = MembershipAt(applied + 1)
          /\ applied + 1 \notin MembershipEntry => \A p \in Part : body[p][applied + 1] >= 1

\* Applying the next entry, and recording that it was applied.
LEMMA HoldsApply ==
    ASSUME NEW b \in Body, NEW n \in Nat, n + 1 \in Index, Holds(b, n),
           NEW c, c = [p \in Part |-> [b[p] EXCEPT ![n + 1] = @ + 1]]
    PROVE  Holds(c, n) /\ \A p \in Part : c[p][n + 1] >= 1
<1>0. 1 \in Part /\ Index \subseteq Nat
  BY NodeAssumption DEF Part, Index
<1>1. \A p \in Part : b[p] \in [Index -> Nat] /\ b[p] = b[1]
  BY DEF Body, Holds
<1>2. \A p \in Part : c[p] = [b[p] EXCEPT ![n + 1] = b[p][n + 1] + 1]
  OBVIOUS
<1>3. \A p \in Part : c[p] = c[1]
  BY <1>0, <1>1, <1>2
<1>4. ASSUME NEW p \in Part PROVE c[p][n + 1] >= 1
  BY <1>1, <1>2
<1>5. ASSUME NEW p \in Part, NEW i \in Index \ MembershipEntry
      PROVE  (i <= n => c[p][i] >= 1) /\ (i > n + 1 => c[p][i] = 0)
  <2>1. (i <= n => b[p][i] >= 1) /\ (i > n + 1 => b[p][i] = 0)
    BY DEF Holds
  <2>2. i <= n \/ i > n + 1 => c[p][i] = b[p][i]
    BY <1>0, <1>1, <1>2
  <2> QED
    BY <2>1, <2>2
<1> QED
  BY <1>3, <1>4, <1>5 DEF Holds

LEMMA HoldsRecord ==
    ASSUME NEW b, NEW n \in Nat, Holds(b, n),
           n + 1 \notin MembershipEntry => \A p \in Part : b[p][n + 1] >= 1
    PROVE  Holds(b, n + 1)
<1>0. Index \subseteq Nat
  BY NodeAssumption DEF Index
<1>1. ASSUME NEW p \in Part, NEW i \in Index \ MembershipEntry
      PROVE  (i <= n + 1 => b[p][i] >= 1) /\ (i > n + 1 + 1 => b[p][i] = 0)
  <2>1. (i <= n => b[p][i] >= 1) /\ (i > n + 1 => b[p][i] = 0)
    BY DEF Holds
  <2>2. CASE i = n + 1
    BY <2>2
  <2>3. CASE i # n + 1
    BY <1>0, <2>1, <2>3
  <2> QED
    BY <2>2, <2>3
<1>2. \A p \in Part : b[p] = b[1]
  BY DEF Holds
<1> QED
  BY <1>1, <1>2 DEF Holds

\* What a restore leaves when it is done.
LEMMA RestoredWhole ==
    ASSUME NodeInv, work.pc \in {"old", "registry", "remove", "clear"}
    PROVE  Recorded
<1>1. /\ applied = work.meta.at /\ applied \in 0..MaxIndex /\ work.meta = MetaAt(applied)
      /\ membership = work.meta.members /\ \A q \in Part : body[q] = Prefix(applied)
  BY DEF NodeInv, TypeOK, BodyFits, PayloadFits, Restored, Installing
<1>2. Holds(body, applied) /\ MetaAt(applied).members = MembershipAt(applied)
  BY <1>1, PrefixHolds, PrefixTypes
<1> QED
  BY <1>1, <1>2 DEF Recorded

\* Every step leaves the tables whole or the marker standing.
LEMMA WholeStep ==
    ASSUME Flushed, NodeInv, MarkerInv, WholeInv, [Next]_vars
    PROVE  WholeInv'
<1> USE DEF NodeInv, MarkerInv, WholeInv, Recorded, Running, Installing, Work, logVars,
tableVars, restoreVars, processVars
<1>0. /\ work \in Work /\ applied \in Nat /\ Idle.pc = "idle" /\ body \in Body
      /\ poisoned \in BOOLEAN /\ phase \in {"down", "boot", "up", "halted", "refused"}
  BY IdleTypes, NodeAssumption DEF NodeInv, TypeOK, Work
<1>1. CASE AppendLog
  BY <1>1, <1>0 DEF AppendLog
<1>2. ASSUME NEW n \in Index, Purge(n) PROVE WholeInv'
  BY <1>2, <1>0 DEF Purge, LogEnd
<1>3. CASE ApplyEntry
  <2>1. /\ phase = "up" /\ work.pc = "idle" /\ ~poisoned
        /\ applied' = applied /\ work'.pc = "record" /\ applied + 1 \in Index
    BY <1>3, <1>0, NodeAssumption, SMTT(30) DEF ApplyEntry, MayApply, WorkerFree, NodeInv, TypeOK, Index
  <2>2. Holds(body, applied) /\ membership \in {MembershipAt(applied), MembershipAt(applied + 1)}
    BY <2>1 DEF Running
  <2>3. CASE applied + 1 \in MembershipEntry
    <3>1. membership' = applied + 1 /\ body' = body
      BY <1>3, <2>3 DEF ApplyEntry, NextEntry
    <3>2. MembershipAt(applied + 1) = applied + 1
      BY <1>0, <2>3, MembershipNext
    <3> QED
      BY <2>1, <2>2, <2>3, <3>1, <3>2
  <2>4. CASE applied + 1 \notin MembershipEntry
    <3>1. /\ membership' = membership
          /\ body' = [p \in Part |-> [body[p] EXCEPT ![applied + 1] = @ + 1]]
      BY <1>3, <2>4 DEF ApplyEntry, NextEntry
    <3>2. MembershipAt(applied + 1) = MembershipAt(applied)
      BY <1>0, <2>4, MembershipNext
    <3>3. Holds(body', applied) /\ \A p \in Part : body'[p][applied + 1] >= 1
      BY <1>0, <2>1, <2>2, <3>1, HoldsApply
    <3> QED
      BY <2>1, <2>2, <3>1, <3>2, <3>3
  <2> QED
    BY <2>3, <2>4
<1>4. CASE ApplyLost
  BY <1>4, <1>0 DEF ApplyLost, MayApply, WorkerFree, NextEntry, Flushed
<1>5. CASE RecordApplied
  <2>1. /\ work.pc = "record" /\ applied' = applied + 1 /\ body' = body /\ membership' = membership
        /\ work'.pc = "idle"
    BY <1>5, <1>0 DEF RecordApplied, Bounds
  <2>2. Holds(body, applied) /\ membership = MembershipAt(applied + 1)
    BY <2>1
  <2>3. Holds(body, applied + 1)
    BY <1>0, <2>1, <2>2, HoldsRecord
  <2> QED
    BY <2>1, <2>2, <2>3
<1>6. CASE ApplyFails
  BY <1>6, <1>0 DEF ApplyFails, MayApply, WorkerFree, NextEntry
<1>7. CASE ApplyRefused
  BY <1>7, <1>0 DEF ApplyRefused, WorkerFree
<1>8. ASSUME NEW n \in Index, InstallSnapshot(n) PROVE WholeInv'
  BY <1>8, <1>0 DEF InstallSnapshot, WorkerFree
<1>9. CASE WriteMarker
  BY <1>9, <1>0 DEF WriteMarker
<1>10. CASE RestoreBatch
  BY <1>10, <1>0 DEF RestoreBatch
<1>11. CASE RestoreLastApplied
  BY <1>11, <1>0 DEF RestoreLastApplied
<1>12. CASE RestoreMembership
  BY <1>12, <1>0 DEF RestoreMembership
<1>13. CASE RestoreOld
  BY <1>13, <1>0 DEF RestoreOld
<1>14. CASE RestoreRegistry
  BY <1>14, <1>0 DEF RestoreRegistry
<1>15. CASE RemoveOld
  BY <1>15, <1>0 DEF RemoveOld
<1>16. CASE InstallDone
  <2>1. Recorded /\ UNCHANGED <<applied, body, membership>> /\ work'.pc = "idle"
    BY <1>16, <1>0, RestoredWhole DEF InstallDone
  <2> QED
    BY <2>1
<1>17. CASE InstallRejected
  BY <1>17, <1>0 DEF InstallRejected
<1>18. CASE RestoreFails
  BY <1>18, <1>0 DEF RestoreFails
<1>19. CASE Poison
  BY <1>19, <1>0 DEF Poison
<1>20. CASE BuildStart
  BY <1>20, <1>0 DEF BuildStart, BuilderFree
<1>21. CASE BuildRefused
  BY <1>21, <1>0 DEF BuildRefused, BuilderFree
<1>22. CASE BuildDump
  BY <1>22, <1>0 DEF BuildDump, MayDump
<1>23. CASE BuildWrite
  BY <1>23, <1>0 DEF BuildWrite
<1>24. CASE BuildCheck
  BY <1>24, <1>0 DEF BuildCheck, Learns, NewerThanRegistry, Exists
<1>25. CASE BuildOld
  BY <1>25, <1>0 DEF BuildOld
<1>26. CASE BuildRegistry
  BY <1>26, <1>0 DEF BuildRegistry
<1>27. CASE BuildRemove
  BY <1>27, <1>0 DEF BuildRemove
<1>28. CASE BuildDone
  BY <1>28, <1>0 DEF BuildDone, Learns
<1>29. CASE Crash
  BY <1>29, <1>0 DEF Crash
<1>30. CASE Boot
  BY <1>30, <1>0 DEF Boot, PhasesFit
<1>31. CASE RecoverNothing
  BY <1>31, <1>0 DEF RecoverNothing
<1>32. CASE RecoverStale
  BY <1>32, <1>0 DEF RecoverStale, StaleMarker, Named, Meta, TypeOK, Up
<1>33. CASE RecoverForced
  BY <1>33, <1>0 DEF RecoverForced
<1>34. CASE RecoverRefused
  BY <1>34, <1>0 DEF RecoverRefused
<1>35. CASE RecoverReplay
  BY <1>35, <1>0 DEF RecoverReplay
<1>36. CASE RecoverDone
  <2>1. Recorded /\ UNCHANGED <<applied, body, membership>> /\ work'.pc = "idle"
    BY <1>36, <1>0, RestoredWhole DEF RecoverDone
  <2> QED
    BY <2>1
<1>37. CASE UNCHANGED vars
  BY <1>37, <1>0 DEF vars
<1> QED
  BY <1>1, <1>2, <1>3, <1>4, <1>5, <1>6, <1>7, <1>8, <1>9, <1>10, <1>11, <1>12, <1>13, <1>14,
       <1>15, <1>16, <1>17, <1>18, <1>19, <1>20, <1>21, <1>22, <1>23, <1>24, <1>25, <1>26, <1>27,
       <1>28, <1>29, <1>30, <1>31, <1>32, <1>33, <1>34, <1>35, <1>36, <1>37
     DEF Next, WorkerStep, RestoreStep, BuildStep, RecoverStep

\* The tables of a node that has its marker, and whose commits succeed or stop it.
LEMMA MarkedHolds ==
    ASSUME Marked
    PROVE  Spec => [](NodeInv /\ MarkerInv)
<1>1. Init => MarkerInv
  BY IdleTypes DEF Init, MarkerInv, Marked, Installing
<1>2. NodeInv /\ MarkerInv /\ [Next]_vars => MarkerInv'
  BY MarkerInvStep
<1> QED
  BY <1>1, <1>2, NodeHolds, PTL DEF Spec

LEMMA WholeHolds ==
    ASSUME Marked, Flushed
    PROVE  Spec => [](NodeInv /\ MarkerInv /\ WholeInv)
<1>1. Init => WholeInv
  <2>1. 0 \in 0..MaxIndex
    BY NodeAssumption
  <2>2. Init => Holds(body, applied)
    BY <2>1, PrefixHolds DEF Init
  <2>3. MembershipAt(0) = 0
    <3>0. \A i \in MembershipEntry : ~(i <= 0)
      BY NodeAssumption DEF Index
    <3>1. {i \in MembershipEntry : i <= 0} = {}
      BY <3>0, Zenon
    <3> QED
      BY <3>1 DEF MembershipAt
  <2> QED
    BY <2>2, <2>3, IdleTypes DEF Init, WholeInv, Recorded
<1>2. NodeInv /\ MarkerInv /\ WholeInv /\ [Next]_vars => WholeInv'
  BY WholeStep
<1> QED
  BY <1>1, <1>2, MarkedHolds, PTL DEF Spec

\* Whenever the durable fail-stop is set there is a marker to replay (NB2): the node can get
\* out of it by a restart.
THEOREM PoisonHasWayOutHolds ==
    ASSUME Marked
    PROVE  Spec => []PoisonHasWayOut
<1>1. MarkerInv => PoisonHasWayOut
  BY DEF MarkerInv, PoisonHasWayOut
<1>2. Spec => [](NodeInv /\ MarkerInv)
  BY MarkedHolds
<1> QED
  BY <1>1, <1>2, PTL

\* A node that serves and is between entries and installations has the tables of its
\* last_applied (restore_and_persist_inner, apply, recover_interrupted_restore), whatever
\* crashed or failed, with the builder beside the worker or not, forced starts included.
THEOREM StateIsPrefixHolds ==
    ASSUME Marked, Flushed
    PROVE  Spec => []StateIsPrefix
<1>1. MarkerInv /\ WholeInv => StateIsPrefix
  BY DEF MarkerInv, WholeInv, StateIsPrefix, Recorded
<1>2. Spec => [](NodeInv /\ MarkerInv /\ WholeInv)
  BY WholeHolds
<1> QED
  BY <1>1, <1>2, PTL

-----------------------------------------------------------------------------
(* The snapshots that the node builds *)

\* Without SpawnedBuild, worker and builder take turns.
TurnsInv ==
    ~SpawnedBuild /\ build.pc # "idle" => phase = "up" /\ work.pc = "idle" /\ ~poisoned

\* A builder beside the worker may dump the tables of a restore that failed: that fault is
\* left out where they do not take turns.
Steady == SpawnedBuild => "restore" \notin Faults

\* The file f, if it is there, holds the state after entry n.
FileHolds(f, n) == files[f] # None => Holds(files[f].body, n)

BuiltInv ==
    /\ registry # None => FileHolds(registry.file, registry.meta.at)
    /\ build.pc = "dump" /\ ~Locked => Holds(body, applied)
    /\ build.pc = "write" => Holds(build.snap.body, build.snap.meta.at)
    /\ build.pc \in Building => FileHolds(build.file, build.snap.meta.at)
    /\ SpawnedBuild /\ work.pc = "failed" => Holds(body, applied)

\* Every step leaves one of them at rest.
LEMMA TurnsStep ==
    ASSUME NodeInv, TurnsInv, [Next]_vars
    PROVE  TurnsInv'
<1> USE DEF NodeInv, TurnsInv, Work, Build, logVars, tableVars, restoreVars, processVars
<1>0. /\ work \in Work /\ build \in Build /\ Idle.pc = "idle" /\ IdleBuild.pc = "idle"
      /\ poisoned \in BOOLEAN /\ SpawnedBuild \in BOOLEAN
  BY IdleTypes, NodeAssumption DEF NodeInv, TypeOK
<1>1. CASE AppendLog
  BY <1>1, <1>0 DEF AppendLog
<1>2. ASSUME NEW n \in Index, Purge(n) PROVE TurnsInv'
  BY <1>2, <1>0 DEF Purge, LogEnd
<1>3. CASE ApplyEntry
  BY <1>3, <1>0 DEF ApplyEntry, MayApply, WorkerFree, NextEntry
<1>4. CASE ApplyLost
  BY <1>4, <1>0 DEF ApplyLost, MayApply, WorkerFree, NextEntry
<1>5. CASE RecordApplied
  BY <1>5, <1>0 DEF RecordApplied
<1>6. CASE ApplyFails
  BY <1>6, <1>0 DEF ApplyFails, MayApply, WorkerFree, NextEntry
<1>7. CASE ApplyRefused
  BY <1>7, <1>0 DEF ApplyRefused, WorkerFree
<1>8. ASSUME NEW n \in Index, InstallSnapshot(n) PROVE TurnsInv'
  BY <1>8, <1>0 DEF InstallSnapshot, WorkerFree
<1>9. CASE WriteMarker
  BY <1>9, <1>0 DEF WriteMarker
<1>10. CASE RestoreBatch
  BY <1>10, <1>0 DEF RestoreBatch
<1>11. CASE RestoreLastApplied
  BY <1>11, <1>0 DEF RestoreLastApplied
<1>12. CASE RestoreMembership
  BY <1>12, <1>0 DEF RestoreMembership
<1>13. CASE RestoreOld
  BY <1>13, <1>0 DEF RestoreOld
<1>14. CASE RestoreRegistry
  BY <1>14, <1>0 DEF RestoreRegistry
<1>15. CASE RemoveOld
  BY <1>15, <1>0 DEF RemoveOld
<1>16. CASE InstallDone
  BY <1>16, <1>0 DEF InstallDone, ClearedRestore, Learns
<1>17. CASE InstallRejected
  BY <1>17, <1>0 DEF InstallRejected
<1>18. CASE RestoreFails
  BY <1>18, <1>0 DEF RestoreFails
<1>19. CASE Poison
  BY <1>19, <1>0 DEF Poison
<1>20. CASE BuildStart
  BY <1>20, <1>0 DEF BuildStart, BuilderFree
<1>21. CASE BuildRefused
  BY <1>21, <1>0 DEF BuildRefused, BuilderFree
<1>22. CASE BuildDump
  BY <1>22, <1>0 DEF BuildDump, MayDump
<1>23. CASE BuildWrite
  BY <1>23, <1>0 DEF BuildWrite
<1>24. CASE BuildCheck
  BY <1>24, <1>0 DEF BuildCheck, Learns, NewerThanRegistry, Exists
<1>25. CASE BuildOld
  BY <1>25, <1>0 DEF BuildOld
<1>26. CASE BuildRegistry
  BY <1>26, <1>0 DEF BuildRegistry
<1>27. CASE BuildRemove
  BY <1>27, <1>0 DEF BuildRemove
<1>28. CASE BuildDone
  BY <1>28, <1>0 DEF BuildDone, Learns
<1>29. CASE Crash
  BY <1>29, <1>0 DEF Crash
<1>30. CASE Boot
  BY <1>30, <1>0 DEF Boot, PhasesFit
<1>31. CASE RecoverNothing
  BY <1>31, <1>0 DEF RecoverNothing, Up, PhasesFit
<1>32. CASE RecoverStale
  BY <1>32, <1>0 DEF RecoverStale, Up, PhasesFit
<1>33. CASE RecoverForced
  BY <1>33, <1>0 DEF RecoverForced, Up, PhasesFit
<1>34. CASE RecoverRefused
  BY <1>34, <1>0 DEF RecoverRefused, PhasesFit
<1>35. CASE RecoverReplay
  BY <1>35, <1>0 DEF RecoverReplay, PhasesFit
<1>36. CASE RecoverDone
  BY <1>36, <1>0 DEF RecoverDone, ClearedRestore, Up, PhasesFit
<1>37. CASE UNCHANGED vars
  BY <1>37, <1>0 DEF vars
<1> QED
  BY <1>1, <1>2, <1>3, <1>4, <1>5, <1>6, <1>7, <1>8, <1>9, <1>10, <1>11, <1>12, <1>13, <1>14,
       <1>15, <1>16, <1>17, <1>18, <1>19, <1>20, <1>21, <1>22, <1>23, <1>24, <1>25, <1>26, <1>27,
       <1>28, <1>29, <1>30, <1>31, <1>32, <1>33, <1>34, <1>35, <1>36, <1>37
     DEF Next, WorkerStep, RestoreStep, BuildStep, RecoverStep

\* Every step leaves the registered snapshot whole.
LEMMA BuiltStep ==
    ASSUME Flushed, Steady, NodeInv, MarkerInv, WholeInv, TurnsInv, BuiltInv, [Next]_vars
    PROVE  BuiltInv'
<1> USE DEF NodeInv, BuiltInv, FileHolds, Locked, Installing, Building, Work, Build, logVars,
tableVars, restoreVars, processVars
<1>0. /\ work \in Work /\ build \in Build /\ Idle.pc = "idle" /\ IdleBuild.pc = "idle"
      /\ SpawnedBuild \in BOOLEAN /\ poisoned \in BOOLEAN
      /\ files \in Seq(Snap \cup {None}) /\ DOMAIN files = 1..Len(files) /\ Len(files) \in Nat
  BY IdleTypes, NodeAssumption DEF NodeInv, TypeOK
<1>1. CASE AppendLog
  BY <1>1, <1>0 DEF AppendLog
<1>2. ASSUME NEW n \in Index, Purge(n) PROVE BuiltInv'
  BY <1>2, <1>0 DEF Purge, LogEnd
<1>3. CASE ApplyEntry
  BY <1>3, <1>0 DEF ApplyEntry, MayApply, WorkerFree, NextEntry
<1>4. CASE ApplyLost
  BY <1>4, <1>0 DEF ApplyLost, MayApply, WorkerFree, NextEntry
<1>5. CASE RecordApplied
  <2>1. WholeInv'
    BY WholeStep
  <2>2. marker' = None /\ work'.pc = "idle"
    BY <1>5, <1>0 DEF RecordApplied, MarkerInv
  <2>3. Holds(body', applied')
    BY <2>1, <2>2 DEF WholeInv, Recorded
  <2> QED
    BY <1>5, <1>0, <2>2, <2>3 DEF RecordApplied
<1>6. CASE ApplyFails
  BY <1>6, <1>0 DEF ApplyFails, MayApply, WorkerFree, NextEntry, MarkerInv, WholeInv, Recorded
<1>7. CASE ApplyRefused
  BY <1>7, <1>0 DEF ApplyRefused, WorkerFree
<1>8. ASSUME NEW n \in Index, InstallSnapshot(n) PROVE BuiltInv'
  <2>1. SnapshotAt(n) \in Snap
    BY <1>8, <1>0, PrefixTypes, NodeAssumption DEF Index
  <2>2. /\ DOMAIN files \subseteq DOMAIN files' /\ \A f \in DOMAIN files : files'[f] = files[f]
        /\ files'[Len(files) + 1] = SnapshotAt(n)
    BY <1>8, <1>0, <2>1, FilesAppend DEF InstallSnapshot
  <2> QED
    BY <1>8, <1>0, <2>2 DEF InstallSnapshot, WorkerFree, FilesFit
<1>9. CASE WriteMarker
  BY <1>9, <1>0 DEF WriteMarker
<1>10. CASE RestoreBatch
  BY <1>10, <1>0 DEF RestoreBatch
<1>11. CASE RestoreLastApplied
  BY <1>11, <1>0 DEF RestoreLastApplied
<1>12. CASE RestoreMembership
  BY <1>12, <1>0 DEF RestoreMembership
<1>13. CASE RestoreOld
  BY <1>13, <1>0 DEF RestoreOld
<1>14. CASE RestoreRegistry
  <2>1. /\ work.meta.at \in 0..MaxIndex
        /\ files[work.file] # None => files[work.file] = SnapshotAt(work.meta.at)
    BY <1>14, NodeAssumption DEF RestoreRegistry, MarkerInv, MarkerFits, PayloadFits, Installing,
         Index
  <2>2. FileHolds(work.file, work.meta.at)
    BY <2>1, PrefixTypes, PrefixHolds
  <2>3. Holds(body, applied)
    BY <1>14, RestoredWhole DEF RestoreRegistry, Recorded
  <2> QED
    BY <1>14, <1>0, <2>2, <2>3 DEF RestoreRegistry
<1>15. CASE RemoveOld
  <2>1. DOMAIN files' = DOMAIN files /\ \A f \in DOMAIN files : files'[f] \in {None, files[f]}
    BY <1>15, <1>0, FilesRemove DEF RemoveOld
  <2> QED
    BY <1>15, <1>0, <2>1 DEF RemoveOld, FilesFit
<1>16. CASE InstallDone
  <2>1. Holds(body, applied)
    BY <1>16, RestoredWhole DEF InstallDone, Recorded
  <2> QED
    BY <1>16, <1>0, <2>1 DEF InstallDone
<1>17. CASE InstallRejected
  BY <1>17, <1>0 DEF InstallRejected
<1>18. CASE RestoreFails
  <2>1. CASE SpawnedBuild
    <3>1. work.pc = "clear"
      BY <1>18, <2>1 DEF RestoreFails, Steady
    <3>2. Holds(body, applied)
      BY <3>1, RestoredWhole DEF Recorded
    <3> QED
      BY <1>18, <1>0, <3>1, <3>2 DEF RestoreFails
  <2>2. CASE ~SpawnedBuild
    <3>1. build.pc = "idle"
      BY <1>18, <2>2 DEF RestoreFails, TurnsInv
    <3> QED
      BY <1>18, <1>0, <2>2, <3>1 DEF RestoreFails
  <2> QED
    BY <2>1, <2>2
<1>19. CASE Poison
  BY <1>19, <1>0 DEF Poison
<1>20. CASE BuildStart
  <2>1. ~Locked => Holds(body, applied)
    <3>1. phase = "up" /\ ~poisoned /\ (SpawnedBuild \/ work.pc = "idle")
      BY <1>20 DEF BuildStart, BuilderFree
    <3>2. CASE work.pc \in {"idle", "record", "mark"}
      BY <3>1, <3>2 DEF MarkerInv, WholeInv, Recorded, Running
    <3>3. CASE work.pc \in {"remove", "clear"}
      BY <3>3, RestoredWhole DEF Recorded
    <3>4. CASE work.pc = "failed"
      BY <3>1, <3>4
    <3> QED
      BY <1>0, <3>2, <3>3, <3>4
  <2> QED
    BY <1>20, <1>0, <2>1 DEF BuildStart
<1>21. CASE BuildRefused
  BY <1>21, <1>0 DEF BuildRefused, BuilderFree
<1>22. CASE BuildDump
  BY <1>22, <1>0 DEF BuildDump, MayDump
<1>23. CASE BuildWrite
  <2>1. build.snap \in Snap
    BY <1>23, <1>0 DEF Build
  <2>2. /\ DOMAIN files \subseteq DOMAIN files' /\ \A f \in DOMAIN files : files'[f] = files[f]
        /\ files'[Len(files) + 1] = build.snap
    BY <1>23, <1>0, <2>1, FilesAppend DEF BuildWrite
  <2> QED
    BY <1>23, <1>0, <2>2 DEF BuildWrite, FilesFit
<1>24. CASE BuildCheck
  BY <1>24, <1>0 DEF BuildCheck, Learns, NewerThanRegistry, Exists
<1>25. CASE BuildOld
  BY <1>25, <1>0 DEF BuildOld
<1>26. CASE BuildRegistry
  BY <1>26, <1>0 DEF BuildRegistry
<1>27. CASE BuildRemove
  <2>1. DOMAIN files' = DOMAIN files /\ \A f \in DOMAIN files : files'[f] \in {None, files[f]}
    BY <1>27, <1>0, FilesRemove DEF BuildRemove
  <2> QED
    BY <1>27, <1>0, <2>1 DEF BuildRemove, FilesFit
<1>28. CASE BuildDone
  BY <1>28, <1>0 DEF BuildDone, Learns
<1>29. CASE Crash
  BY <1>29, <1>0 DEF Crash
<1>30. CASE Boot
  <2>1. DOMAIN files' = DOMAIN files /\ \A f \in DOMAIN files : files'[f] \in {None, files[f]}
    BY <1>30, <1>0, FilesRemove DEF Boot
  <2> QED
    BY <1>30, <1>0, <2>1 DEF Boot, FilesFit, PhasesFit
<1>31. CASE RecoverNothing
  BY <1>31, <1>0 DEF RecoverNothing, Up
<1>32. CASE RecoverStale
  BY <1>32, <1>0 DEF RecoverStale, Up
<1>33. CASE RecoverForced
  BY <1>33, <1>0 DEF RecoverForced, Up
<1>34. CASE RecoverRefused
  BY <1>34, <1>0 DEF RecoverRefused
<1>35. CASE RecoverReplay
  BY <1>35, <1>0 DEF RecoverReplay
<1>36. CASE RecoverDone
  <2>1. DOMAIN files' = DOMAIN files /\ \A f \in DOMAIN files : files'[f] \in {None, files[f]}
    BY <1>36, <1>0, FilesRemove DEF RecoverDone
  <2> QED
    BY <1>36, <1>0, <2>1 DEF RecoverDone, FilesFit, PhasesFit, Up
<1>37. CASE UNCHANGED vars
  BY <1>37, <1>0 DEF vars
<1> QED
  BY <1>1, <1>2, <1>3, <1>4, <1>5, <1>6, <1>7, <1>8, <1>9, <1>10, <1>11, <1>12, <1>13, <1>14,
       <1>15, <1>16, <1>17, <1>18, <1>19, <1>20, <1>21, <1>22, <1>23, <1>24, <1>25, <1>26, <1>27,
       <1>28, <1>29, <1>30, <1>31, <1>32, <1>33, <1>34, <1>35, <1>36, <1>37
     DEF Next, WorkerStep, RestoreStep, BuildStep, RecoverStep

\* Everything that is known of the tables and of the snapshots made from them.
LEMMA BuiltHolds ==
    ASSUME Marked, Flushed, Steady
    PROVE  Spec => [](NodeInv /\ MarkerInv /\ WholeInv /\ TurnsInv /\ BuiltInv)
<1>1. Init => TurnsInv /\ BuiltInv
  BY IdleTypes DEF Init, TurnsInv, BuiltInv, FileHolds, Building
<1>2. NodeInv /\ MarkerInv /\ WholeInv /\ TurnsInv /\ BuiltInv /\ [Next]_vars
          => TurnsInv' /\ BuiltInv'
  BY TurnsStep, BuiltStep
<1>3. Spec => [](NodeInv /\ MarkerInv /\ WholeInv)
  BY WholeHolds
<1> QED
  BY <1>1, <1>2, <1>3, PTL DEF Spec

\* No snapshot of this node mixes two states (build_snapshot, persist_snapshot_registry):
\* what the registry names, if its file is there, is the state after the entry of its meta.
THEOREM BuiltWholeHolds ==
    ASSUME Marked, Flushed, Steady
    PROVE  Spec => []BuiltWhole
<1>1. BuiltInv => BuiltWhole
  BY DEF BuiltInv, BuiltWhole, FileHolds, Exists
<1>2. Spec => [](NodeInv /\ MarkerInv /\ WholeInv /\ TurnsInv /\ BuiltInv)
  BY BuiltHolds
<1> QED
  BY <1>1, <1>2, PTL

-----------------------------------------------------------------------------
(* Starting again, and sending what was purged *)

\* Worker and builder are in the middle of registering their snapshots, each
\* with the old file it read before the other one has finished.
Overlap ==
    /\ build.pc \in {"old", "registry", "remove", "done"}
    /\ work.pc \in {"registry", "remove", "clear"}

\* The files that registry and marker name are there, and what is served is what is
\* registered.
KeepInv ==
    /\ phase # "refused"
    /\ registry # None => files[registry.file] # None
    /\ marker # None => files[marker.file] # None
    /\ work.pc \in {"remove", "clear"} => registry = [meta |-> work.meta, file |-> work.file]
    /\ phase = "up" /\ current # None =>
          \/ current = registry
          \/ work.pc \in {"remove", "clear", "failed"}
          \/ build.pc \in {"remove", "done"}

\* The registry covers what was purged and what openraft may purge.
CoverInv ==
    /\ registry = None => known = 0 /\ lastPurged = 0
    /\ registry # None => known <= registry.meta.at /\ lastPurged <= registry.meta.at

\* What the builder has made takes the place of something older.
NewerInv ==
    /\ build.pc \in Building => files[build.file] # None
    /\ build.pc \in {"check", "old", "registry"} /\ registry # None => registry.file # build.file
    /\ build.pc \in {"old", "registry"} /\ registry # None =>
          build.snap.meta.at > registry.meta.at
    /\ build.pc \in {"registry", "remove"} => build.old # build.file
    /\ build.pc \in {"remove", "done"} =>
          registry = [meta |-> build.snap.meta, file |-> build.file]

\* Neither of the two knows a file that the other one still needs.
ApartInv ==
    /\ marker # None /\ registry # None /\ registry.file = marker.file => registry = marker
    /\ marker # None /\ build.pc \in Building => build.file # marker.file
    /\ marker # None /\ build.pc \in {"registry", "remove"} => build.old # marker.file
    /\ work.pc \in {"registry", "remove"} /\ work.old # None =>
          /\ work.old \in DOMAIN files
          /\ build.pc \in Building => work.old # build.file

\* The numbers that are compared.
NodeNumbers ==
    /\ work.meta.at \in Nat /\ build.snap.meta.at \in Nat /\ build.snap.meta \in Meta
    /\ registry # None => registry.meta.at \in Nat
    /\ known \in Nat /\ lastPurged \in Nat /\ applied \in Nat

LEMMA NumbersHold == NodeInv => NodeNumbers
<1> SUFFICES ASSUME NodeInv PROVE NodeNumbers
  OBVIOUS
<1>1. build.snap.meta \in Meta /\ work.meta \in Meta
  BY DEF NodeInv, TypeOK, Work, Build, Snap
<1>2. work.meta.at \in Nat /\ build.snap.meta.at \in Nat
  BY <1>1, NodeAssumption DEF Meta
<1>3. registry # None => registry.meta.at \in Nat
  BY NodeAssumption DEF NodeInv, TypeOK, Named, Meta
<1>4. known \in Nat /\ lastPurged \in Nat /\ applied \in Nat
  BY NodeAssumption DEF NodeInv, TypeOK
<1> QED
  BY <1>1, <1>2, <1>3, <1>4 DEF NodeNumbers

\* Every step keeps the files that a start needs.
LEMMA KeepStep ==
    ASSUME ~Overlap, ~Overlap', NodeInv, MarkerInv, KeepInv, NewerInv, ApartInv, [Next]_vars
    PROVE  KeepInv'
<1> USE DEF NodeInv, NodeNumbers, KeepInv, Work, Build, logVars, tableVars, restoreVars,
processVars
<1>0. /\ work \in Work /\ build \in Build /\ Idle.pc = "idle" /\ IdleBuild.pc = "idle"
      /\ files \in Seq(Snap \cup {None}) /\ DOMAIN files = 1..Len(files) /\ Len(files) \in Nat
  BY IdleTypes DEF NodeInv, TypeOK
<1>a. NodeNumbers
  BY NumbersHold
<1>b. work.pc \in {"registry", "remove", "clear"} =>
        build.pc \notin {"old", "registry", "remove", "done"}
  BY DEF Overlap
<1>1. CASE AppendLog
  BY <1>1, <1>0, <1>b DEF AppendLog
<1>2. ASSUME NEW n \in Index, Purge(n) PROVE KeepInv'
  BY <1>2, <1>0, <1>b DEF Purge, LogEnd, Index
<1>3. CASE ApplyEntry
  BY <1>3, <1>0, <1>b DEF ApplyEntry, MayApply, WorkerFree, NextEntry
<1>4. CASE ApplyLost
  BY <1>4, <1>0, <1>b DEF ApplyLost, MayApply, WorkerFree, NextEntry
<1>5. CASE RecordApplied
  BY <1>5, <1>0, <1>b DEF RecordApplied
<1>6. CASE ApplyFails
  BY <1>6, <1>0, <1>b DEF ApplyFails, MayApply, WorkerFree, NextEntry
<1>7. CASE ApplyRefused
  BY <1>7, <1>0, <1>b DEF ApplyRefused, WorkerFree
<1>8. ASSUME NEW n \in Index, InstallSnapshot(n) PROVE KeepInv'
  <2>1. SnapshotAt(n) \in Snap
    BY <1>8, <1>0, PrefixTypes, NodeAssumption DEF Index
  <2>2. /\ \A f \in DOMAIN files : files'[f] = files[f]
        /\ files'[Len(files) + 1] = SnapshotAt(n)
    BY <1>8, <1>0, <2>1, FilesAppend DEF InstallSnapshot
  <2> QED
    BY <1>8, <1>0, <1>a, <1>b, <2>1, <2>2 DEF InstallSnapshot, FilesFit, MarkerFits, WorkerFree
<1>9. CASE WriteMarker
  <2>1. files[work.file] # None
    <3>1. work.meta.at \in 0..MaxIndex /\ files[work.file] = SnapshotAt(work.meta.at)
      BY <1>9, NodeAssumption DEF WriteMarker, PayloadFits, Installing, Index
    <3> QED
      BY <3>1, PrefixTypes, NoneAssumption
  <2>2. marker' \in {marker, [meta |-> work.meta, file |-> work.file]}
    BY <1>9 DEF WriteMarker
  <2>3. marker'.file = work.file \/ marker' = marker
    BY <2>2
  <2> QED
    BY <1>9, <1>0, <1>b, <2>1, <2>3 DEF WriteMarker
<1>10. CASE RestoreBatch
  BY <1>10, <1>0, <1>b DEF RestoreBatch
<1>11. CASE RestoreLastApplied
  BY <1>11, <1>0, <1>b DEF RestoreLastApplied
<1>12. CASE RestoreMembership
  BY <1>12, <1>0, <1>b DEF RestoreMembership
<1>13. CASE RestoreOld
  BY <1>13, <1>0, <1>b DEF RestoreOld
<1>14. CASE RestoreRegistry
  <2>1. registry' = marker /\ marker # None /\ marker.meta = work.meta
    BY <1>14 DEF RestoreRegistry, MarkerInv, Installing
  <2>2. work'.meta = work.meta /\ work'.file = work.file /\ work'.pc = "remove"
    BY <1>14, <1>0 DEF RestoreRegistry
  <2> QED
    BY <1>14, <1>0, <1>a, <1>b, <2>1, <2>2 DEF RestoreRegistry
<1>15. CASE RemoveOld
  <2>1. /\ registry = [meta |-> work.meta, file |-> work.file] /\ marker = registry
        /\ work.file \in DOMAIN files
    BY <1>15 DEF RemoveOld, MarkerInv, PayloadFits, Installing
  <2>2. files'[work.file] = files[work.file]
    BY <1>15, <1>0, <2>1, FilesRemove DEF RemoveOld
  <2>3. work'.meta = work.meta /\ work'.file = work.file /\ work'.pc = "clear"
    BY <1>15, <1>0 DEF RemoveOld
  <2> QED
    BY <1>15, <1>0, <1>a, <1>b, <2>1, <2>2, <2>3 DEF RemoveOld
<1>16. CASE InstallDone
  <2>1. registry = [meta |-> work.meta, file |-> work.file] /\ registry # None
    BY <1>16 DEF InstallDone, MarkerInv, Installing
  <2> QED
    BY <1>16, <1>0, <1>a, <1>b, <2>1 DEF InstallDone, ClearedRestore, Learns
<1>17. CASE InstallRejected
  BY <1>17, <1>0, <1>b DEF InstallRejected
<1>18. CASE RestoreFails
  BY <1>18, <1>0, <1>b DEF RestoreFails
<1>19. CASE Poison
  BY <1>19, <1>0, <1>b DEF Poison
<1>20. CASE BuildStart
  BY <1>20, <1>0, <1>b DEF BuildStart, BuilderFree
<1>21. CASE BuildRefused
  BY <1>21, <1>0, <1>b DEF BuildRefused, BuilderFree
<1>22. CASE BuildDump
  BY <1>22, <1>0, <1>b DEF BuildDump, MayDump
<1>23. CASE BuildWrite
  <2>1. build.snap \in Snap
    BY <1>23, <1>0 DEF Build
  <2>2. /\ \A f \in DOMAIN files : files'[f] = files[f]
        /\ files'[Len(files) + 1] = build.snap
    BY <1>23, <1>0, <2>1, FilesAppend DEF BuildWrite
  <2> QED
    BY <1>23, <1>0, <1>a, <1>b, <2>1, <2>2 DEF BuildWrite, FilesFit, MarkerFits
<1>24. CASE BuildCheck
  BY <1>24, <1>0, <1>b DEF BuildCheck, Learns, NewerThanRegistry, Exists
<1>25. CASE BuildOld
  BY <1>25, <1>0, <1>b DEF BuildOld
<1>26. CASE BuildRegistry
  <2>1. registry' = [meta |-> build.snap.meta, file |-> build.file] /\ build.file \in 1..MaxFiles
    BY <1>26, <1>0 DEF BuildRegistry, FilesFit, Building, TypeOK
  <2>2. registry' # None
    BY <1>a, <2>1, NoneAssumption
  <2>3. files[build.file] # None
    BY <1>26 DEF BuildRegistry, NewerInv, Building
  <2>4. build'.pc = "remove"
    BY <1>26, <1>0 DEF BuildRegistry
  <2> QED
    BY <1>26, <1>0, <1>a, <1>b, <2>1, <2>2, <2>3, <2>4 DEF BuildRegistry
<1>27. CASE BuildRemove
  <2>1. /\ registry = [meta |-> build.snap.meta, file |-> build.file]
        /\ build.file \in DOMAIN files /\ build.old # build.file
        /\ marker # None => marker.file \in DOMAIN files /\ build.old # marker.file
    BY <1>27 DEF BuildRemove, NewerInv, FilesFit, MarkerFits, ApartInv, Building
  <2>2. /\ files'[build.file] = files[build.file]
        /\ marker # None => files'[marker.file] = files[marker.file]
    BY <1>27, <1>0, <2>1, FilesRemove DEF BuildRemove
  <2> QED
    BY <1>27, <1>0, <1>a, <1>b, <2>1, <2>2 DEF BuildRemove
<1>28. CASE BuildDone
  <2>1. registry = [meta |-> build.snap.meta, file |-> build.file] /\ current' = registry
    BY <1>28 DEF BuildDone, NewerInv
  <2>2. build.file \in 1..MaxFiles
    BY <1>28, <1>0 DEF BuildDone, FilesFit, Building, TypeOK
  <2>3. registry # None
    BY <1>a, <2>1, <2>2, NoneAssumption
  <2> QED
    BY <1>28, <1>0, <1>a, <1>b, <2>1, <2>3 DEF BuildDone, Learns
<1>29. CASE Crash
  BY <1>29, <1>0, <1>b DEF Crash
<1>30. CASE Boot
  <2>1. registry # None => registry.file \in SweepKeeps /\ Exists(registry.file)
    BY DEF SweepKeeps, Exists, FilesFit
  <2>2. marker # None => marker.file \in SweepKeeps /\ marker.file \in DOMAIN files
    BY DEF SweepKeeps, MarkerFits
  <2>3. registry' = registry
    BY <1>30, <2>1 DEF Boot
  <2>4. \A f \in DOMAIN files : f \in SweepKeeps => files'[f] = files[f]
    BY <1>30, <1>0, FilesRemove DEF Boot
  <2> QED
    BY <1>30, <1>0, <1>a, <1>b, <2>1, <2>2, <2>3, <2>4 DEF Boot, PhasesFit, Exists
<1>31. CASE RecoverNothing
  BY <1>31, <1>0, <1>b DEF RecoverNothing, Up, PhasesFit
<1>32. CASE RecoverStale
  BY <1>32, <1>0, <1>b DEF RecoverStale, Up, PhasesFit
<1>33. CASE RecoverForced
  BY <1>33, <1>0, <1>b DEF RecoverForced, Up, PhasesFit
<1>34. CASE RecoverRefused
  BY <1>34, <1>0, <1>b DEF RecoverRefused, Exists, MarkerFits
<1>35. CASE RecoverReplay
  BY <1>35, <1>0, <1>b DEF RecoverReplay
<1>36. CASE RecoverDone
  <2>1. registry = [meta |-> work.meta, file |-> work.file] /\ registry # None
    BY <1>36 DEF RecoverDone, MarkerInv, Installing
  <2>2. registry.file \in DOMAIN files /\ files'[registry.file] = files[registry.file]
    BY <1>36, <1>0, <2>1, FilesRemove DEF RecoverDone, FilesFit
  <2> QED
    BY <1>36, <1>0, <1>a, <1>b, <2>1, <2>2 DEF RecoverDone, ClearedRestore, Up, PhasesFit
<1>37. CASE UNCHANGED vars
  BY <1>37, <1>0, <1>b DEF vars
<1> QED
  BY <1>1, <1>2, <1>3, <1>4, <1>5, <1>6, <1>7, <1>8, <1>9, <1>10, <1>11, <1>12, <1>13, <1>14,
       <1>15, <1>16, <1>17, <1>18, <1>19, <1>20, <1>21, <1>22, <1>23, <1>24, <1>25, <1>26, <1>27,
       <1>28, <1>29, <1>30, <1>31, <1>32, <1>33, <1>34, <1>35, <1>36, <1>37
     DEF Next, WorkerStep, RestoreStep, BuildStep, RecoverStep

\* Every step lets the builder replace older snapshots only.
LEMMA NewerStep ==
    ASSUME ~Overlap, ~Overlap', NodeInv, MarkerInv, KeepInv, NewerInv, ApartInv, [Next]_vars
    PROVE  NewerInv'
<1> USE DEF NodeInv, NodeNumbers, NewerInv, Building, Work, Build, logVars, tableVars,
restoreVars, processVars
<1>0. /\ work \in Work /\ build \in Build /\ Idle.pc = "idle" /\ IdleBuild.pc = "idle"
      /\ files \in Seq(Snap \cup {None}) /\ DOMAIN files = 1..Len(files) /\ Len(files) \in Nat
  BY IdleTypes DEF NodeInv, TypeOK
<1>a. NodeNumbers
  BY NumbersHold
<1>b. work.pc \in {"registry", "remove", "clear"} =>
        build.pc \notin {"old", "registry", "remove", "done"}
  BY DEF Overlap
<1>1. CASE AppendLog
  BY <1>1, <1>0, <1>a, <1>b DEF AppendLog
<1>2. ASSUME NEW n \in Index, Purge(n) PROVE NewerInv'
  BY <1>2, <1>0, <1>a, <1>b DEF Purge, LogEnd
<1>3. CASE ApplyEntry
  BY <1>3, <1>0, <1>a, <1>b DEF ApplyEntry, MayApply, WorkerFree, NextEntry
<1>4. CASE ApplyLost
  BY <1>4, <1>0, <1>a, <1>b DEF ApplyLost, MayApply, WorkerFree, NextEntry
<1>5. CASE RecordApplied
  BY <1>5, <1>0, <1>a, <1>b DEF RecordApplied
<1>6. CASE ApplyFails
  BY <1>6, <1>0, <1>a, <1>b DEF ApplyFails, MayApply, WorkerFree, NextEntry
<1>7. CASE ApplyRefused
  BY <1>7, <1>0, <1>a, <1>b DEF ApplyRefused, WorkerFree
<1>8. ASSUME NEW n \in Index, InstallSnapshot(n) PROVE NewerInv'
  <2>1. SnapshotAt(n) \in Snap
    BY <1>8, <1>0, PrefixTypes, NodeAssumption DEF Index
  <2>2. \A f \in DOMAIN files : files'[f] = files[f]
    BY <1>8, <1>0, <2>1, FilesAppend DEF InstallSnapshot
  <2> QED
    BY <1>8, <1>0, <1>a, <2>2 DEF InstallSnapshot, FilesFit
<1>9. CASE WriteMarker
  BY <1>9, <1>0, <1>a, <1>b DEF WriteMarker
<1>10. CASE RestoreBatch
  BY <1>10, <1>0, <1>a, <1>b DEF RestoreBatch
<1>11. CASE RestoreLastApplied
  BY <1>11, <1>0, <1>a, <1>b DEF RestoreLastApplied
<1>12. CASE RestoreMembership
  BY <1>12, <1>0, <1>a, <1>b DEF RestoreMembership
<1>13. CASE RestoreOld
  BY <1>13, <1>0, <1>a, <1>b DEF RestoreOld
<1>14. CASE RestoreRegistry
  <2>1. registry' = marker /\ marker # None
    BY <1>14 DEF RestoreRegistry, MarkerInv, Installing
  <2>2. build.pc \in Building => build.pc = "check" /\ build.file # marker.file
    BY <1>14, <1>b, <2>1 DEF RestoreRegistry, ApartInv
  <2> QED
    BY <1>14, <1>0, <2>1, <2>2 DEF RestoreRegistry
<1>15. CASE RemoveOld
  <2>1. build.pc \in Building => build.pc = "check" /\ build.file \in DOMAIN files
    BY <1>15, <1>b DEF RemoveOld, FilesFit
  <2>3. build.pc \in Building => work.old # build.file
    BY <1>15, <1>0, <2>1, NoneAssumption DEF RemoveOld, ApartInv
  <2>2. build.pc \in Building => files'[build.file] = files[build.file]
    BY <1>15, <1>0, <2>1, <2>3, FilesRemove DEF RemoveOld
  <2> QED
    BY <1>15, <1>0, <2>1, <2>2 DEF RemoveOld
<1>16. CASE InstallDone
  BY <1>16, <1>0, <1>a, <1>b DEF InstallDone, ClearedRestore, Learns
<1>17. CASE InstallRejected
  BY <1>17, <1>0, <1>a, <1>b DEF InstallRejected
<1>18. CASE RestoreFails
  BY <1>18, <1>0, <1>a, <1>b DEF RestoreFails
<1>19. CASE Poison
  BY <1>19, <1>0, <1>a, <1>b DEF Poison
<1>20. CASE BuildStart
  BY <1>20, <1>0, <1>a, <1>b DEF BuildStart, BuilderFree
<1>21. CASE BuildRefused
  BY <1>21, <1>0, <1>a, <1>b DEF BuildRefused, BuilderFree
<1>22. CASE BuildDump
  BY <1>22, <1>0, <1>a, <1>b DEF BuildDump, MayDump
<1>23. CASE BuildWrite
  <2>1. build.snap \in Snap /\ build.snap # None
    BY <1>23, <1>0, NoneAssumption DEF Build
  <2>2. files'[Len(files) + 1] = build.snap /\ Len(files) + 1 \notin DOMAIN files
    BY <1>23, <1>0, <2>1, FilesAppend DEF BuildWrite
  <2>3. build'.file = Len(files) + 1 /\ build'.pc = "check" /\ registry' = registry
    BY <1>23, <1>0 DEF BuildWrite
  <2> QED
    BY <2>1, <2>2, <2>3 DEF FilesFit
<1>24. CASE BuildCheck
  BY <1>24, <1>0, <1>a, <1>b DEF BuildCheck, Learns, NewerThanRegistry, Exists, KeepInv, FilesFit
<1>25. CASE BuildOld
  BY <1>25, <1>0, <1>a, <1>b, NoneAssumption, NodeAssumption DEF BuildOld, FilesFit
<1>26. CASE BuildRegistry
  BY <1>26, <1>0, <1>a, <1>b DEF BuildRegistry
<1>27. CASE BuildRemove
  <2>1. build.file \in DOMAIN files /\ build.old # build.file
    BY <1>27 DEF BuildRemove, FilesFit
  <2>2. files'[build.file] = files[build.file]
    BY <1>27, <1>0, <2>1, FilesRemove DEF BuildRemove
  <2> QED
    BY <1>27, <1>0, <1>a, <1>b, <2>2 DEF BuildRemove
<1>28. CASE BuildDone
  BY <1>28, <1>0, <1>a, <1>b DEF BuildDone, Learns
<1>29. CASE Crash
  BY <1>29, <1>0, <1>a, <1>b DEF Crash
<1>30. CASE Boot
  BY <1>30, <1>0, <1>a, <1>b DEF Boot, PhasesFit
<1>31. CASE RecoverNothing
  BY <1>31, <1>0, <1>a, <1>b DEF RecoverNothing
<1>32. CASE RecoverStale
  BY <1>32, <1>0, <1>a, <1>b DEF RecoverStale
<1>33. CASE RecoverForced
  BY <1>33, <1>0, <1>a, <1>b DEF RecoverForced
<1>34. CASE RecoverRefused
  BY <1>34, <1>0, <1>a, <1>b DEF RecoverRefused
<1>35. CASE RecoverReplay
  BY <1>35, <1>0, <1>a, <1>b DEF RecoverReplay
<1>36. CASE RecoverDone
  BY <1>36, <1>0, <1>a, <1>b DEF RecoverDone, ClearedRestore, PhasesFit
<1>37. CASE UNCHANGED vars
  BY <1>37, <1>0, <1>a, <1>b DEF vars
<1> QED
  BY <1>1, <1>2, <1>3, <1>4, <1>5, <1>6, <1>7, <1>8, <1>9, <1>10, <1>11, <1>12, <1>13, <1>14,
       <1>15, <1>16, <1>17, <1>18, <1>19, <1>20, <1>21, <1>22, <1>23, <1>24, <1>25, <1>26, <1>27,
       <1>28, <1>29, <1>30, <1>31, <1>32, <1>33, <1>34, <1>35, <1>36, <1>37
     DEF Next, WorkerStep, RestoreStep, BuildStep, RecoverStep

\* Every step keeps worker and builder away from each other's files.
LEMMA ApartStep ==
    ASSUME ~Overlap, ~Overlap', NodeInv, MarkerInv, KeepInv, NewerInv, ApartInv, [Next]_vars
    PROVE  ApartInv'
<1> USE DEF NodeInv, NodeNumbers, ApartInv, Building, Work, Build, logVars, tableVars,
restoreVars, processVars
<1>0. /\ work \in Work /\ build \in Build /\ Idle.pc = "idle" /\ IdleBuild.pc = "idle"
      /\ files \in Seq(Snap \cup {None}) /\ DOMAIN files = 1..Len(files) /\ Len(files) \in Nat
  BY IdleTypes DEF NodeInv, TypeOK
<1>a. NodeNumbers
  BY NumbersHold
<1>b. work'.pc \in {"registry", "remove", "clear"} =>
        build'.pc \notin {"old", "registry", "remove", "done"}
  BY DEF Overlap
<1>c. \A gone : DOMAIN Removed(files, gone) = DOMAIN files
  BY DEF Removed
<1>d. \A snap \in Snap : DOMAIN Append(files, snap) = 1..(Len(files) + 1)
  BY <1>0, FilesAppend
<1>1. ASSUME marker' \in {marker, None}, registry' \in {registry, None},
             build' = build \/ build'.pc \notin Building,
             work' = work \/ work'.pc \notin {"registry", "remove"},
             DOMAIN files \subseteq DOMAIN files'
      PROVE  ApartInv'
  BY <1>1
<1>2. CASE AppendLog \/ (\E n \in Index : Purge(n)) \/ ApplyEntry \/ ApplyLost
           \/ RecordApplied \/ ApplyFails \/ ApplyRefused
  BY <1>0, <1>1, <1>2 DEF AppendLog, Purge, ApplyEntry, ApplyLost, RecordApplied, ApplyFails,
       ApplyRefused
<1>3. ASSUME NEW n \in Index, InstallSnapshot(n) PROVE ApartInv'
  <2>1. SnapshotAt(n) \in Snap
    BY PrefixTypes, NodeAssumption DEF Index
  <2> QED
    BY <1>0, <1>1, <1>3, <1>d, <2>1 DEF InstallSnapshot
<1>4. CASE WriteMarker
  <2>1. /\ marker' = [meta |-> work.meta, file |-> work.file]
        /\ registry' = registry /\ build' = build /\ work'.pc = "restore"
    BY <1>0, <1>4 DEF WriteMarker, MarkerInv
  <2>2. /\ registry # None => registry.file # work.file
        /\ build.pc \in {"registry", "remove"} => build.old # work.file
        /\ build.pc \in Building => build.file # work.file
    BY <1>4 DEF WriteMarker, Alone, PhasesFit
  <2> QED
    BY <2>1, <2>2
<1>5. CASE RestoreBatch \/ RestoreLastApplied \/ RestoreMembership
  BY <1>0, <1>1, <1>5 DEF RestoreBatch, RestoreLastApplied, RestoreMembership
<1>6. CASE RestoreOld
  <2>1. /\ UNCHANGED <<marker, registry, build, files>> /\ work'.pc = "registry"
        /\ work'.old = IF registry = None THEN None ELSE registry.file
    BY <1>0, <1>6 DEF RestoreOld
  <2>2. build.pc \in Building => build.pc = "check"
    BY <1>b, <2>1
  <2> QED
    BY <2>1, <2>2 DEF NewerInv, FilesFit
<1>7. CASE RestoreRegistry
  <2>1. registry' = marker
    BY <1>7 DEF RestoreRegistry, MarkerInv, Installing
  <2> QED
    BY <1>0, <1>7, <2>1 DEF RestoreRegistry
<1>8. CASE RemoveOld
  BY <1>0, <1>1, <1>8, <1>c DEF RemoveOld
<1>9. CASE InstallDone \/ InstallRejected \/ RestoreFails \/ Poison
  BY <1>0, <1>1, <1>9 DEF InstallDone, ClearedRestore, InstallRejected, RestoreFails, Poison
<1>10. CASE BuildStart \/ BuildRefused \/ BuildDump
  BY <1>0, <1>1, <1>10 DEF BuildStart, BuildRefused, BuildDump
<1>11. CASE BuildWrite
  <2>1. build.snap \in Snap
    BY <1>0
  <2>2. /\ DOMAIN files' = 1..(Len(files) + 1) /\ UNCHANGED <<marker, registry, work>>
        /\ build'.pc = "check" /\ build'.file = Len(files) + 1
    BY <1>0, <1>11, <1>d, <2>1 DEF BuildWrite
  <2>3. /\ Len(files) + 1 \notin DOMAIN files /\ DOMAIN files \subseteq DOMAIN files'
        /\ marker # None => marker.file \in DOMAIN files
    BY <1>0, <2>2 DEF MarkerFits
  <2> QED
    BY <2>2, <2>3
<1>12. CASE BuildCheck
  BY <1>0, <1>b, <1>12 DEF BuildCheck
<1>13. CASE BuildOld
  <2>1. /\ UNCHANGED <<marker, registry, work, files>> /\ build'.pc = "registry"
        /\ build'.file = build.file /\ build.pc = "old"
        /\ build'.old = IF registry = None THEN None ELSE registry.file
    BY <1>0, <1>13 DEF BuildOld
  <2>2. marker # None => marker.file \in Nat /\ marker.meta.at >= applied /\ marker.meta.at \in Nat
    BY <1>0, NodeAssumption DEF MarkerFits, MarkerInv, Index
  <2>3. marker # None /\ registry # None => registry.file # marker.file
    <3>1. registry # None => build.snap.meta.at > registry.meta.at
      BY <2>1 DEF NewerInv
    <3>2. build.snap.meta.at <= applied
      BY <2>1 DEF Bounds
    <3> QED
      BY <1>a, <2>2, <3>1, <3>2
  <2> QED
    BY <1>b, <2>1, <2>2, <2>3, NoneAssumption
<1>14. CASE BuildRegistry
  <2>1. /\ UNCHANGED <<marker, work, files>> /\ build'.pc = "remove" /\ build.pc = "registry"
        /\ build'.file = build.file /\ build'.old = build.old
        /\ registry' = [meta |-> build.snap.meta, file |-> build.file]
    BY <1>0, <1>14 DEF BuildRegistry
  <2> QED
    BY <1>b, <2>1
<1>15. CASE BuildRemove
  <2>1. /\ UNCHANGED <<marker, registry, work>> /\ build'.pc = "done"
        /\ build'.file = build.file /\ build.pc = "remove"
    BY <1>0, <1>15 DEF BuildRemove
  <2> QED
    BY <1>b, <2>1
<1>16. CASE BuildDone
  BY <1>0, <1>1, <1>16 DEF BuildDone
<1>17. CASE Crash
  BY <1>0, <1>1, <1>17 DEF Crash
<1>18. CASE Boot
  BY <1>0, <1>1, <1>18, <1>c DEF Boot
<1>19. CASE RecoverStep
  BY <1>0, <1>1, <1>19, <1>c DEF RecoverStep, RecoverNothing, RecoverStale, RecoverForced,
       RecoverRefused, RecoverReplay, RecoverDone, ClearedRestore
<1>20. CASE UNCHANGED vars
  BY <1>1, <1>20 DEF vars
<1> QED
  BY <1>2, <1>3, <1>4, <1>5, <1>6, <1>7, <1>8, <1>9, <1>10, <1>11, <1>12, <1>13, <1>14, <1>15,
       <1>16, <1>17, <1>18, <1>19, <1>20
     DEF Next, WorkerStep, RestoreStep, BuildStep

\* Every step leaves what was purged in the registered snapshot.
LEMMA CoverStep ==
    ASSUME NodeInv, MarkerInv, KeepInv, NewerInv, CoverInv, [Next]_vars
    PROVE  CoverInv'
<1> USE DEF NodeInv, NodeNumbers, CoverInv, Work, Build, logVars, tableVars, restoreVars,
processVars
<1>0. /\ work \in Work /\ build \in Build /\ Idle.pc = "idle" /\ IdleBuild.pc = "idle"
      /\ files \in Seq(Snap \cup {None}) /\ DOMAIN files = 1..Len(files) /\ Len(files) \in Nat
  BY IdleTypes DEF NodeInv, TypeOK
<1>a. NodeNumbers
  BY NumbersHold
<1>1. CASE AppendLog
  BY <1>1, <1>0, <1>a DEF AppendLog
<1>2. ASSUME NEW n \in Index, Purge(n) PROVE CoverInv'
  BY <1>2, <1>0, <1>a, NodeAssumption, SMTT(30) DEF Purge, LogEnd, Index
<1>3. CASE ApplyEntry
  BY <1>3, <1>0, <1>a DEF ApplyEntry, MayApply, WorkerFree, NextEntry
<1>4. CASE ApplyLost
  BY <1>4, <1>0, <1>a DEF ApplyLost, MayApply, WorkerFree, NextEntry
<1>5. CASE RecordApplied
  BY <1>5, <1>0, <1>a DEF RecordApplied
<1>6. CASE ApplyFails
  BY <1>6, <1>0, <1>a DEF ApplyFails, MayApply, WorkerFree, NextEntry
<1>7. CASE ApplyRefused
  BY <1>7, <1>0, <1>a DEF ApplyRefused, WorkerFree
<1>8. ASSUME NEW n \in Index, InstallSnapshot(n) PROVE CoverInv'
  BY <1>8, <1>0, <1>a DEF InstallSnapshot, WorkerFree
<1>9. CASE WriteMarker
  BY <1>9, <1>0, <1>a DEF WriteMarker
<1>10. CASE RestoreBatch
  BY <1>10, <1>0, <1>a DEF RestoreBatch
<1>11. CASE RestoreLastApplied
  BY <1>11, <1>0, <1>a DEF RestoreLastApplied
<1>12. CASE RestoreMembership
  BY <1>12, <1>0, <1>a DEF RestoreMembership
<1>13. CASE RestoreOld
  BY <1>13, <1>0, <1>a DEF RestoreOld
<1>14. CASE RestoreRegistry
  <2>1. registry' = marker /\ marker # None /\ marker.meta = work.meta
    BY <1>14 DEF RestoreRegistry, MarkerInv, Installing
  <2>2. work.meta.at >= known /\ work.meta.at >= lastPurged
    <3>1. work.meta.at >= applied /\ known <= applied /\ lastPurged <= applied
      BY <1>14 DEF RestoreRegistry, Bounds, Installing
    <3> QED
      BY <1>a, <3>1
  <2> QED
    BY <1>14, <1>a, <2>1, <2>2 DEF RestoreRegistry
<1>15. CASE RemoveOld
  BY <1>15, <1>0, <1>a DEF RemoveOld
<1>16. CASE InstallDone
  <2>1. registry = [meta |-> work.meta, file |-> work.file] /\ registry # None
    BY <1>16 DEF InstallDone, MarkerInv, Installing, KeepInv
  <2>2. registry.meta.at = work.meta.at
    BY <2>1
  <2> QED
    BY <1>16, <1>a, <2>1, <2>2 DEF InstallDone, ClearedRestore, Learns
<1>17. CASE InstallRejected
  BY <1>17, <1>0, <1>a DEF InstallRejected
<1>18. CASE RestoreFails
  BY <1>18, <1>0, <1>a DEF RestoreFails
<1>19. CASE Poison
  BY <1>19, <1>0, <1>a DEF Poison
<1>20. CASE BuildStart
  BY <1>20, <1>0, <1>a DEF BuildStart, BuilderFree
<1>21. CASE BuildRefused
  BY <1>21, <1>0, <1>a DEF BuildRefused, BuilderFree
<1>22. CASE BuildDump
  BY <1>22, <1>0, <1>a DEF BuildDump, MayDump
<1>23. CASE BuildWrite
  BY <1>23, <1>0, <1>a DEF BuildWrite
<1>24. CASE BuildCheck
  BY <1>24, <1>0, <1>a, SMTT(30) DEF BuildCheck, Learns, NewerThanRegistry, Exists, FilesFit, KeepInv
<1>25. CASE BuildOld
  BY <1>25, <1>0, <1>a DEF BuildOld
<1>26. CASE BuildRegistry
  <2>1. registry' = [meta |-> build.snap.meta, file |-> build.file] /\ build.file \in 1..MaxFiles
    BY <1>26, <1>0 DEF BuildRegistry, FilesFit, Building, TypeOK
  <2>2. registry' # None /\ registry'.meta.at = build.snap.meta.at
    BY <1>a, <2>1, NoneAssumption
  <2>3. registry # None => build.snap.meta.at > registry.meta.at
    BY <1>26 DEF BuildRegistry, NewerInv
  <2> QED
    BY <1>26, <1>a, <2>2, <2>3 DEF BuildRegistry
<1>27. CASE BuildRemove
  BY <1>27, <1>0, <1>a DEF BuildRemove
<1>28. CASE BuildDone
  <2>1. registry = [meta |-> build.snap.meta, file |-> build.file]
    BY <1>28 DEF BuildDone, NewerInv
  <2>2. build.file \in 1..MaxFiles
    BY <1>28, <1>0 DEF BuildDone, FilesFit, Building, TypeOK
  <2>3. registry # None /\ registry.meta.at = build.snap.meta.at
    BY <1>a, <2>1, <2>2, NoneAssumption
  <2> QED
    BY <1>28, <1>a, <2>3 DEF BuildDone, Learns
<1>29. CASE Crash
  BY <1>29, <1>0, <1>a DEF Crash
<1>30. CASE Boot
  <2>1. registry' = registry
    BY <1>30 DEF Boot, Exists, FilesFit, KeepInv
  <2> QED
    BY <1>30, <2>1 DEF Boot
<1>31. CASE RecoverNothing
  <2>1. CurrentSnapshot' = None \/ (CurrentSnapshot' = registry /\ registry # None)
    BY <1>31 DEF RecoverNothing, CurrentSnapshot, PhasesFit
  <2>2. known' = 0 \/ (registry # None /\ known' = registry.meta.at)
    BY <1>31, <2>1 DEF RecoverNothing, Up
  <2> QED
    BY <1>31, <1>0, <1>a, <2>2 DEF RecoverNothing
<1>32. CASE RecoverStale
  <2>1. CurrentSnapshot' = None \/ (CurrentSnapshot' = registry /\ registry # None)
    BY <1>32 DEF RecoverStale, CurrentSnapshot, PhasesFit
  <2>2. known' = 0 \/ (registry # None /\ known' = registry.meta.at)
    BY <1>32, <2>1 DEF RecoverStale, Up
  <2> QED
    BY <1>32, <1>0, <1>a, <2>2 DEF RecoverStale
<1>33. CASE RecoverForced
  <2>1. CurrentSnapshot' = None \/ (CurrentSnapshot' = registry /\ registry # None)
    BY <1>33 DEF RecoverForced, CurrentSnapshot, PhasesFit
  <2>2. known' = 0 \/ (registry # None /\ known' = registry.meta.at)
    BY <1>33, <2>1 DEF RecoverForced, Up
  <2> QED
    BY <1>33, <1>0, <1>a, <2>2 DEF RecoverForced
<1>34. CASE RecoverRefused
  BY <1>34, <1>0, <1>a DEF RecoverRefused
<1>35. CASE RecoverReplay
  BY <1>35, <1>0, <1>a DEF RecoverReplay
<1>36. CASE RecoverDone
  <2>1. CurrentSnapshot' = None \/ (CurrentSnapshot' = registry /\ registry # None)
    BY <1>36 DEF RecoverDone, CurrentSnapshot, PhasesFit
  <2>2. known' = 0 \/ (registry # None /\ known' = registry.meta.at)
    BY <1>36, <2>1 DEF RecoverDone, Up
  <2> QED
    BY <1>36, <1>0, <1>a, <2>2 DEF RecoverDone
<1>37. CASE UNCHANGED vars
  BY <1>37, <1>0, <1>a DEF vars
<1> QED
  BY <1>1, <1>2, <1>3, <1>4, <1>5, <1>6, <1>7, <1>8, <1>9, <1>10, <1>11, <1>12, <1>13, <1>14,
       <1>15, <1>16, <1>17, <1>18, <1>19, <1>20, <1>21, <1>22, <1>23, <1>24, <1>25, <1>26, <1>27,
       <1>28, <1>29, <1>30, <1>31, <1>32, <1>33, <1>34, <1>35, <1>36, <1>37
     DEF Next, WorkerStep, RestoreStep, BuildStep, RecoverStep

\* What a node keeps as long as the two do not register at the same time.
LEMMA KeepHolds ==
    ASSUME Marked
    PROVE  Spec /\ []~Overlap =>
               [](NodeInv /\ MarkerInv /\ KeepInv /\ NewerInv /\ ApartInv /\ CoverInv)
<1>1. Init => KeepInv /\ NewerInv /\ ApartInv /\ CoverInv
  BY IdleTypes DEF Init, KeepInv, NewerInv, ApartInv, CoverInv, Building
<1>2. (/\ ~Overlap /\ ~Overlap' /\ [Next]_vars
       /\ NodeInv /\ MarkerInv /\ KeepInv /\ NewerInv /\ ApartInv /\ CoverInv)
          => KeepInv' /\ NewerInv' /\ ApartInv' /\ CoverInv'
  BY KeepStep, NewerStep, ApartStep, CoverStep
<1>3. Spec => [](NodeInv /\ MarkerInv)
  BY MarkedHolds
<1> QED
  BY <1>1, <1>2, <1>3, PTL DEF Spec

\* Whether or not openraft runs the builder beside the worker: a node finds itself with a
\* marker whose payload is gone, which makes it refuse to start
\* (recover_interrupted_restore), only after a build and an installation have registered
\* their snapshots at the same time.  Neither sweep nor registry nor builder removes that
\* file otherwise, whatever else overlaps, crashes or fails, a lost commit included.
THEOREM NeverRefusedHolds ==
    ASSUME Marked
    PROVE  Spec /\ []~Overlap => []NeverRefused
<1>1. KeepInv => NeverRefused
  BY DEF KeepInv, NeverRefused
<1>2. Spec /\ []~Overlap =>
          [](NodeInv /\ MarkerInv /\ KeepInv /\ NewerInv /\ ApartInv /\ CoverInv)
  BY KeepHolds
<1> QED
  BY <1>1, <1>2, PTL

\* Entries that were purged are in a snapshot that this node can send (get_current_snapshot,
\* purge): its file is there, it is whole and it reaches as far as the purge did, also with
\* the builder beside the worker, as long as the two do not register at the same time.
THEOREM SnapshotCoversPurgedHolds ==
    ASSUME Marked, Flushed, Steady
    PROVE  Spec /\ []~Overlap => []SnapshotCoversPurged
<1>1. NodeInv /\ BuiltInv /\ KeepInv /\ CoverInv => SnapshotCoversPurged
  <2> SUFFICES ASSUME NodeInv, BuiltInv, KeepInv, CoverInv,
                      phase = "up", work.pc = "idle", build.pc = "idle", ~poisoned, lastPurged > 0
               PROVE  /\ CurrentSnapshot # None
                      /\ CurrentSnapshot.meta.at >= lastPurged
                      /\ Exists(CurrentSnapshot.file)
                      /\ Holds(files[CurrentSnapshot.file].body, CurrentSnapshot.meta.at)
    BY Zenon DEF SnapshotCoversPurged
  <2>1. NodeNumbers
    BY NumbersHold
  <2>2. registry # None /\ registry.meta.at >= lastPurged
    BY <2>1 DEF CoverInv, NodeNumbers
  <2>3. Exists(registry.file) /\ Holds(files[registry.file].body, registry.meta.at)
    BY <2>2 DEF KeepInv, BuiltInv, FileHolds, Exists, NodeInv, FilesFit
  <2>4. CurrentSnapshot = registry
    BY <2>2, <2>3 DEF KeepInv, CurrentSnapshot
  <2> QED
    BY <2>2, <2>3, <2>4
<1>2. Spec /\ []~Overlap =>
          [](NodeInv /\ MarkerInv /\ KeepInv /\ NewerInv /\ ApartInv /\ CoverInv)
  BY KeepHolds
<1>3. Spec => [](NodeInv /\ MarkerInv /\ WholeInv /\ TurnsInv /\ BuiltInv)
  BY BuiltHolds
<1> QED
  BY <1>1, <1>2, <1>3, PTL
=============================================================================
