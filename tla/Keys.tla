--------------------------------- MODULE Keys ---------------------------------
(* Master keys in a cluster.  A secret is encrypted where the request arrives, *)
(* before its command enters the log: its data key is wrapped by the current  *)
(* key (KEK) of that node's ring and marked with the ring's generation, which *)
(* is the ring's length.  A rotation travels through the log, wrapped by the  *)
(* KEK that was current where it was submitted; every node that applies it    *)
(* adds it to its ring file and then to its ring.  last_applied is recorded   *)
(* in a transaction of its own after each command.                            *)
(*                                                                            *)
(* A ciphertext is [gen, kek]: dek_v and the key that really wraps it.        *)
EXTENDS Integers, Sequences, FiniteSets

CONSTANTS
    Nodes,
    Keks,
    First,        \* the key of --master-key-file, the same on every node
    Torn,         \* a ring file that was truncated and not written
    MaxLog,       \* bound: commands
    MaxFaults     \* bound: crashes and writes that fail

ASSUME KeysAssumption ==
    /\ First \in Keks /\ MaxLog \in Nat /\ MaxFaults \in Nat
    /\ Torn \notin Seq(Keks)

VARIABLES
    log,          \* the committed commands
    golden,       \* the ring after each prefix of the log, on a node that missed nothing
    applied,      \* per node, how much of the log it has applied
    phase,        \* per node: "up", "saving" (in save_ring), "recording" (the command
                  \* is carried out, last_applied is not written), "down"
    ring,         \* per node, KeyRing::entries
    file,         \* per node, the ring file, empty when there is none
    store,        \* per node, the secrets by the position of their command
    missed,       \* the nodes that lost a key or never learnt one
    faults

vars == <<log, golden, applied, phase, ring, file, store, missed, faults>>

Ciphertexts == [gen : Nat, kek : Keks]
Commands == [op : {"put"}, ct : Ciphertexts] \cup [op : {"rotate"}, kek : Keks, under : Keks]
Rings == Seq(Keks)
Stores(len) == UNION {[S -> Ciphertexts] : S \in SUBSET (1 .. len)}

TypeOK ==
    /\ log \in Seq(Commands)
    /\ golden \in Seq(Rings) /\ Len(golden) = Len(log) + 1
    /\ applied \in [Nodes -> 0 .. Len(log)]
    /\ phase \in [Nodes -> {"up", "saving", "recording", "down"}]
    /\ ring \in [Nodes -> Rings] /\ \A n \in Nodes : ring[n] # <<>>
    /\ file \in [Nodes -> Rings \cup {Torn}]
    /\ store \in [Nodes -> Stores(Len(log))]
    /\ missed \subseteq Nodes
    /\ faults \in Nat

-----------------------------------------------------------------------------
(* dsh-crypto *)

Holds(r, k) == \E g \in DOMAIN r : r[g] = k
Current(r) == r[Len(r)]

\* Cipher::encrypt_secret, as far as the wrapping goes
EncryptSecret(r) == [gen |-> Len(r), kek |-> Current(r)]

\* Cipher::decrypt_secret: the key of the generation, or the newest one
\* Mutant: the newest key is tried first.
KekForNewest(r, ct) == Current(r)
KekFor(r, ct) == IF ct.gen \in DOMAIN r THEN r[ct.gen] ELSE Current(r)
Decrypts(r, ct) == KekFor(r, ct) = ct.kek

\* Cipher::rewrap_dek
\* Mutant: the generation of the ciphertext stays.
RewrapDekInPlace(r, ct) == [gen |-> ct.gen, kek |-> Current(r)]
RewrapDek(r, ct) == EncryptSecret(r)
CanRewrap(r, ct) == ct.gen \in DOMAIN r /\ r[ct.gen] = ct.kek

\* KeyRing::push
Push(r, k) == Append(r, k)

\* main: the key file's key first, then the ring file's others.
\* Mutant: the ring file is appended as it is.
LoadRingTwice(f) == IF f = Torn THEN <<First>> ELSE <<First>> \o f
LoadRing(f) ==
    LET entries[i \in 0 .. Len(f)] ==
            IF i = 0 THEN <<First>>
            ELSE IF f[i] # First THEN Append(entries[i - 1], f[i]) ELSE entries[i - 1]
    IN  IF f = Torn THEN <<First>> ELSE entries[Len(f)]

(* What the hook makes of a rotation: nothing if no key of the ring opens it *)
(* or the ring holds it already.                                             *)
Learns(r, c) == c.op = "rotate" /\ Holds(r, c.under) /\ ~Holds(r, c.kek)

-----------------------------------------------------------------------------

Init ==
    /\ log = <<>> /\ golden = << <<First>> >>
    /\ applied = [n \in Nodes |-> 0]
    /\ phase = [n \in Nodes |-> "up"]
    /\ ring = [n \in Nodes |-> <<First>>]
    /\ file = [n \in Nodes |-> <<>>]
    /\ store = [n \in Nodes |-> <<>>]
    /\ missed = {}
    /\ faults = 0

Commit(c) ==
    LET last == golden[Len(golden)]
    IN  /\ Len(log) < MaxLog
        /\ log' = Append(log, c)
        /\ golden' = Append(golden, IF Learns(last, c) THEN Push(last, c.kek) ELSE last)
        /\ UNCHANGED <<applied, phase, ring, file, store, missed, faults>>

\* update_draft and the other writes that carry a secret
PutSecret(n) ==
    /\ phase[n] # "down"
    /\ Commit([op |-> "put", ct |-> EncryptSecret(ring[n])])

\* rotate_master_key; a request that is repeated brings the same key again.
RotateMasterKey(n, k) ==
    /\ phase[n] # "down"
    /\ Commit([op |-> "rotate", kek |-> k, under |-> Current(ring[n])])

Command(n) == log[applied[n] + 1]
CanApply(n) == phase[n] = "up" /\ applied[n] < Len(log)

ApplySecret(n) ==
    /\ CanApply(n) /\ Command(n).op = "put"
    /\ store' = [store EXCEPT ![n] =
          [i \in DOMAIN @ \cup {applied[n] + 1} |->
              IF i = applied[n] + 1 THEN Command(n).ct ELSE @[i]]]
    /\ phase' = [phase EXCEPT ![n] = "recording"]
    /\ UNCHANGED <<log, golden, applied, ring, file, missed, faults>>

\* The hook returns early.
ApplyKnownKey(n) ==
    /\ CanApply(n) /\ Command(n).op = "rotate" /\ ~Learns(ring[n], Command(n))
    /\ phase' = [phase EXCEPT ![n] = "recording"]
    /\ UNCHANGED <<log, golden, applied, ring, file, store, missed, faults>>

\* save_ring opens the file, which truncates it ...
SaveRing(n) ==
    /\ CanApply(n) /\ Learns(ring[n], Command(n))
    /\ phase' = [phase EXCEPT ![n] = "saving"]
    /\ file' = [file EXCEPT ![n] = Torn]
    /\ UNCHANGED <<log, golden, applied, ring, store, missed, faults>>

\* ... and writes it; then the ring changes.
LearnKey(n) ==
    /\ phase[n] = "saving"
    /\ ring' = [ring EXCEPT ![n] = Push(@, Command(n).kek)]
    /\ file' = [file EXCEPT ![n] = Push(ring[n], Command(n).kek)]
    /\ phase' = [phase EXCEPT ![n] = "recording"]
    /\ UNCHANGED <<log, golden, applied, store, missed, faults>>

\* The write fails, or the permissions are refused after it: the ring stays,
\* and the command counts as carried out.
SaveRingFails(n) ==
    /\ phase[n] = "saving" /\ faults < MaxFaults
    /\ file' \in {file, [file EXCEPT ![n] = Push(ring[n], Command(n).kek)]}
    /\ phase' = [phase EXCEPT ![n] = "recording"]
    /\ missed' = missed \cup {n}
    /\ faults' = faults + 1
    /\ UNCHANGED <<log, golden, applied, ring, store>>

\* write_last_applied
RecordApplied(n) ==
    /\ phase[n] = "recording"
    /\ applied' = [applied EXCEPT ![n] = @ + 1]
    /\ phase' = [phase EXCEPT ![n] = "up"]
    /\ UNCHANGED <<log, golden, ring, file, store, missed, faults>>

\* RewrapDeks on the leader's store: what is older than the generation that was
\* read before the lock was taken, in the order of the keys, up to the first
\* ciphertext that cannot be unwrapped.
RewrapDeks(n) == \E generation \in 1 .. Len(ring[n]) :
    LET old == {i \in DOMAIN store[n] : store[n][i].gen < generation}
        stuck == {i \in old : ~CanRewrap(ring[n], store[n][i])}
        done == {i \in old : \A j \in stuck : i < j}
    IN  /\ phase[n] = "up" /\ done # {}
        /\ store' = [store EXCEPT ![n] =
              [i \in DOMAIN @ |-> IF i \in done THEN RewrapDek(ring[n], @[i]) ELSE @[i]]]
        /\ UNCHANGED <<log, golden, applied, phase, ring, file, missed, faults>>

\* install_snapshot: the state of another node, which holds no keys.  A dump is
\* not made while a command is carried out.
InstallSnapshot(n, m) ==
    /\ phase[n] = "up" /\ phase[m] = "up" /\ applied[n] < applied[m]
    /\ applied' = [applied EXCEPT ![n] = applied[m]]
    /\ store' = [store EXCEPT ![n] = store[m]]
    /\ missed' = IF ring[n] = golden[applied[m] + 1] THEN missed ELSE missed \cup {n}
    /\ UNCHANGED <<log, golden, phase, ring, file, faults>>

\* A death in the middle of save_ring loses the file; only the first key is
\* elsewhere, and the rotation itself is in the log.  A death before
\* last_applied is recorded leaves file and secrets ahead of it: the command is
\* carried out again.
Crash(n) ==
    /\ phase[n] # "down" /\ faults < MaxFaults
    /\ phase' = [phase EXCEPT ![n] = "down"]
    /\ missed' = IF phase[n] = "saving" /\ Len(ring[n]) > 1 THEN missed \cup {n} ELSE missed
    /\ faults' = faults + 1
    /\ UNCHANGED <<log, golden, applied, ring, file, store>>

Restart(n) ==
    /\ phase[n] = "down"
    /\ phase' = [phase EXCEPT ![n] = "up"]
    /\ ring' = [ring EXCEPT ![n] = LoadRing(file[n])]
    /\ UNCHANGED <<log, golden, applied, file, store, missed, faults>>

ApplyStep(n) == ApplySecret(n) \/ ApplyKnownKey(n) \/ SaveRing(n) \/ LearnKey(n)
                \/ RecordApplied(n)

Next == \E n \in Nodes :
    \/ PutSecret(n)
    \/ \E k \in Keks : RotateMasterKey(n, k)
    \/ ApplyStep(n) \/ SaveRingFails(n) \/ RewrapDeks(n)
    \/ \E m \in Nodes : InstallSnapshot(n, m)
    \/ Crash(n) \/ Restart(n)

Spec == Init /\ [][Next]_vars

-----------------------------------------------------------------------------
(* Properties *)

(* The rings of the nodes that missed nothing are those of the log as far as *)
(* the node has applied it, or one command further: where a crash between    *)
(* the hook and write_last_applied left the ring file ahead, and the command *)
(* is yet to be applied again.  The generations agree from node to node,     *)
(* through restarts, repeated rotations and installed snapshots.             *)
RingFollowsLog ==
    \A n \in Nodes \ missed : phase[n] # "down" =>
        \E i \in {applied[n], applied[n] + 1} : i <= Len(log) /\ ring[n] = golden[i + 1]

(* As long as no node missed a key, every node reads every secret it has:    *)
(* whichever node encrypted it, under whichever generation, and whether or   *)
(* not the leader rewrapped it before a snapshot carried it over.  The one   *)
(* exception is a secret that a node whose ring is ahead rewrapped: it is    *)
(* readable with the rotation that the node applies next.                    *)
SecretsReadable ==
    missed = {} => \A n \in Nodes : phase[n] # "down" =>
        \A i \in DOMAIN store[n] :
            \/ Decrypts(ring[n], store[n][i])
            \/ /\ applied[n] < Len(log) /\ Learns(ring[n], Command(n))
               /\ Decrypts(Push(ring[n], Command(n).kek), store[n][i])

(* A rotation that is repeated or applied again adds nothing: no ring, not   *)
(* even of a node that missed keys, holds a key twice.                       *)
NoKekTwice ==
    \A n \in Nodes : \A g, h \in DOMAIN ring[n] : ring[n][g] = ring[n][h] => g = h

(* Rewrapping never costs a node a secret that it could read, not even a     *)
(* node whose generations differ from the others'.                           *)
RewrapKeepsReadable ==
    [][\A n \in Nodes : RewrapDeks(n) =>
         \A i \in DOMAIN store[n] :
            Decrypts(ring[n], store[n][i]) => Decrypts(ring[n], store'[n][i])]_vars

(* A rotation reaches all the nodes (rotate_master_key: consistent in the    *)
(* end): a node that has applied the whole log and suffered no fault reads   *)
(* every secret.                                                             *)
RotationReachesAll ==
    faults = 0 => \A n \in Nodes : phase[n] = "up" /\ applied[n] = Len(log) =>
        \A i \in DOMAIN store[n] : Decrypts(ring[n], store[n][i])
=============================================================================
