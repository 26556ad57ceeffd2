----------------------------- MODULE MCTransfer -----------------------------
(* Two calls and three snapshots: one that is over the limit, one of a single *)
(* chunk, one whose last chunk is not full.                                   *)
EXTENDS SnapshotTransfer

Sizes == <<4, 1, 3>>
==============================================================================
