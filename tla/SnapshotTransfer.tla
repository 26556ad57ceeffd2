--------------------------- MODULE SnapshotTransfer ---------------------------
(* A full snapshot on its way to one follower.  A leader reads its payload    *)
(* file and streams it as frames (Header, Chunk 1, 2, .., End) in the body of *)
(* one request; the follower's handler writes the chunks to a file of its     *)
(* own, checks the whole, renames it, lets the state machine install a copy   *)
(* and removes what it received.  Requests are cancelled, cut, damaged or     *)
(* repeated, two of them may overlap (a retry and the handler of the call it  *)
(* replaces, an old leader and a new one), and the follower may crash.        *)
(*                                                                            *)
(* Snapshots are named by the log index they reach.  The bytes of snapshot i  *)
(* are <<i, 1>>, <<i, 2>>, ..; a CRC stands for the bytes it was computed of. *)
EXTENDS Integers, Sequences, FiniteSets

CONSTANTS
    Calls,        \* the places of concurrent full_snapshot calls
    Size,         \* the bytes of each snapshot, a sequence over the snapshots
    ChunkBytes,   \* the chunk size of the emitter
    ReadBytes,    \* the most one read of the payload file returns
    MaxBytes,     \* MAX_SNAPSHOT_BYTES
    None,
    InFlight,     \* bound: frames a connection holds before the emitter is polled
    MaxFaults     \* bound: cancellations, damages, failing writes and crashes, and paths left behind

ASSUME TransferAssumption ==
    /\ Size \in Seq(Nat \ {0}) /\ Size # <<>> /\ IsFiniteSet(Calls)
    /\ ChunkBytes \in Nat \ {0} /\ ReadBytes \in Nat \ {0}
    /\ MaxBytes \in Nat /\ InFlight \in Nat \ {0} /\ MaxFaults \in Nat

VARIABLES
    latest,       \* the newest snapshot of the leader
    sender,       \* per call, the emitter
    acked,        \* per call, the newest snapshot its leader saw acknowledged
    wire,         \* per call, the frames in flight and how the body goes on
    recv,         \* per call, the handler
    answer,       \* per call, the handler's answer: None, "ok" or "error"
    files,        \* the follower's snapshot directory: paths to contents
    registry,     \* the installed snapshot, [snap, file], or None
    installs,     \* the state machine's queue of installations
    phase,        \* of the follower: "up" or "down"
    leaked,       \* the paths that handlers left behind when they were dropped
    faults

vars == <<latest, sender, acked, wire, recv, answer, files, registry, installs,
          phase, leaked, faults>>
leaderVars == <<latest, sender, acked>>
followerVars == <<recv, files, registry, installs, phase, leaked>>

Snaps == 1 .. Len(Size)
Payload(i) == [k \in 1 .. Size[i] |-> <<i, k>>]
Damaged == <<0, 0>>
Bytes == (Snaps \X Nat) \cup {Damaged}

(* Paths: every name is minted once, and NAME.part and NAME are two paths. *)
NameSpace == [snap : Snaps, seq : Nat]
Paths == [name : NameSpace, part : BOOLEAN]

ASSUME NoneAssumption ==
    /\ None \notin Calls /\ None \notin NameSpace /\ None \notin Paths
    /\ None \notin [snap : Snaps, file : Paths]

Installed == IF registry = None THEN 0 ELSE registry.snap

IdleSender == [pc |-> "idle", snap |-> 0, pos |-> 0, carry |-> <<>>, seq |-> 0, sent |-> <<>>]
IdleHandler == [pc |-> "idle", snap |-> 0, name |-> None, seq |-> 0, seen |-> <<>>, end |-> None]
Quiet == [frames |-> <<>>, body |-> "none"]

PartPath(name) == [name |-> name, part |-> TRUE]
FinalPath(name) == [name |-> name, part |-> FALSE]
Exists(path) == path \in DOMAIN files
Written(path, data) == [p \in DOMAIN files \cup {path} |-> IF p = path THEN data ELSE files[p]]
Gone(paths) == [p \in DOMAIN files \ paths |-> files[p]]

Names ==
    {p.name : p \in DOMAIN files} \cup {recv[c].name : c \in Calls}
        \cup {installs[k].file.name : k \in DOMAIN installs}

\* snap_file_name: the index, a counter of the process and the process's nonce
\* Mutant: the name says only which snapshot it is.
NameOfMeta(i) == [snap |-> i, seq |-> 0]
FreshName(i) ==
    [snap |-> i, seq |-> CHOOSE n \in 1 .. Cardinality(Names) + 1 :
                             [snap |-> i, seq |-> n] \notin Names]

-----------------------------------------------------------------------------
(* The sender: HttpNetwork::full_snapshot and FrameEmitter *)

Header(i) == [kind |-> "header", snap |-> i]
Chunk(seq, data) == [kind |-> "chunk", seq |-> seq, data |-> data]
End(data) == [kind |-> "end", total |-> Len(data), crc |-> data]

\* The leader's state machine builds a newer snapshot.
BuildSnapshot ==
    /\ latest < Len(Size)
    /\ latest' = latest + 1
    /\ UNCHANGED <<sender, acked, wire, answer, faults, followerVars>>

\* full_snapshot of the current snapshot: the file opens, the header is the first frame.
Open(c) ==
    /\ phase = "up"
    /\ sender[c].pc = "idle" /\ recv[c].pc = "idle"
    /\ acked[c] < latest
    /\ sender' = [sender EXCEPT ![c] = [IdleSender EXCEPT !.pc = "sending", !.snap = latest]]
    /\ wire' = [wire EXCEPT ![c] = [frames |-> <<Header(latest)>>, body |-> "open"]]
    /\ answer' = [answer EXCEPT ![c] = None]
    /\ UNCHANGED <<latest, acked, faults, followerVars>>

\* The full chunks of what was read, and the rest that is carried over
Cut(bytes) == Len(bytes) \div ChunkBytes
Full(bytes) == SubSeq(bytes, 1, Cut(bytes) * ChunkBytes)
Rest(bytes) == SubSeq(bytes, Cut(bytes) * ChunkBytes + 1, Len(bytes))
Chunks(seq, bytes) ==
    [k \in 1 .. Cut(bytes) |->
        Chunk(seq + k, SubSeq(bytes, (k - 1) * ChunkBytes + 1, k * ChunkBytes))]

TooLarge(n) == n > MaxBytes
Polled(c) == sender[c].pc = "sending" /\ wire[c].body = "open" /\ Len(wire[c].frames) < InFlight

\* poll_next, one read of the payload file
Read(c, n) ==
    LET s == sender[c]
        bytes == s.carry \o SubSeq(Payload(s.snap), s.pos + 1, s.pos + n)
    IN  /\ Polled(c)
        /\ s.pos + n <= Size[s.snap]
        /\ ~TooLarge(Len(s.sent) + Len(bytes))
        /\ sender' = [sender EXCEPT ![c].pos = s.pos + n,
                                    ![c].carry = Rest(bytes),
                                    ![c].seq = s.seq + Cut(bytes),
                                    ![c].sent = s.sent \o Full(bytes)]
        /\ wire' = [wire EXCEPT ![c].frames = @ \o Chunks(s.seq, bytes)]
        /\ UNCHANGED <<latest, acked, answer, faults, followerVars>>

\* poll_next past the limit: the stream ends with an error.
ReadTooLarge(c, n) ==
    LET s == sender[c]
    IN  /\ Polled(c)
        /\ s.pos + n <= Size[s.snap]
        /\ TooLarge(Len(s.sent) + Len(s.carry) + n)
        /\ sender' = [sender EXCEPT ![c] = IdleSender]
        /\ wire' = [wire EXCEPT ![c].body = "cut"]
        /\ UNCHANGED <<latest, acked, answer, faults, followerVars>>

\* poll_next at the end of the file: what is left as a last chunk, then End
ReadEof(c) ==
    LET s == sender[c]
        last == IF s.carry = <<>> THEN <<>> ELSE <<Chunk(s.seq + 1, s.carry)>>
    IN  /\ Polled(c)
        /\ s.pos = Size[s.snap]
        /\ sender' = [sender EXCEPT ![c].pc = "waiting"]
        /\ wire' = [wire EXCEPT ![c].frames = @ \o Append(last, End(s.sent \o s.carry)),
                                ![c].body = "ended"]
        /\ UNCHANGED <<latest, acked, answer, faults, followerVars>>

\* The answer ends the call; the replication task tries again after an error.
Answered(c) ==
    /\ sender[c].pc # "idle" /\ answer[c] # None
    /\ acked' = IF answer[c] = "ok" THEN [acked EXCEPT ![c] = sender[c].snap] ELSE acked
    /\ sender' = [sender EXCEPT ![c] = IdleSender]
    /\ UNCHANGED <<latest, wire, answer, faults, followerVars>>

\* The cancel future, the client's timeout or a lost connection
Cancel(c) ==
    /\ sender[c].pc # "idle" /\ faults < MaxFaults
    /\ sender' = [sender EXCEPT ![c] = IdleSender]
    /\ wire' = [wire EXCEPT ![c].body = "cut"]
    /\ faults' = faults + 1
    /\ UNCHANGED <<latest, acked, answer, followerVars>>

\* The connection that a failure of the follower cuts
Cutoff(c) ==
    /\ sender[c].pc # "idle" /\ wire[c].body = "cut"
    /\ sender' = [sender EXCEPT ![c] = IdleSender]
    /\ UNCHANGED <<latest, acked, wire, answer, faults, followerVars>>

-----------------------------------------------------------------------------
(* The transport *)

Without(s, k) == SubSeq(s, 1, k - 1) \o SubSeq(s, k + 1, Len(s))

LoseFrame(c, k) ==
    /\ faults < MaxFaults
    /\ wire' = [wire EXCEPT ![c].frames = Without(@, k)]
    /\ faults' = faults + 1
    /\ UNCHANGED <<leaderVars, answer, followerVars>>

DamageChunk(c, k) ==
    /\ faults < MaxFaults /\ wire[c].frames[k].kind = "chunk"
    /\ wire' = [wire EXCEPT ![c].frames[k].data[1] = Damaged]
    /\ faults' = faults + 1
    /\ UNCHANGED <<leaderVars, answer, followerVars>>

-----------------------------------------------------------------------------
(* The handler: full_snapshot of the raft server *)

Frame(c) == Head(wire[c].frames)
Reading(c, kind) ==
    /\ phase = "up" /\ recv[c].pc \in {"idle", "reading"}
    /\ wire[c].frames # <<>> /\ Frame(c).kind = kind
Taken(c) == wire' = [wire EXCEPT ![c].frames = Tail(@)]

\* The failure channel: the part is removed and the answer is an error.
\* Mutant: the part stays.
FailKeepsPart(c) ==
    /\ recv' = [recv EXCEPT ![c] = IdleHandler]
    /\ wire' = [wire EXCEPT ![c] = Quiet]
    /\ answer' = [answer EXCEPT ![c] = "error"]
    /\ UNCHANGED files
Fail(c) ==
    /\ recv' = [recv EXCEPT ![c] = IdleHandler]
    /\ wire' = [wire EXCEPT ![c] = Quiet]
    /\ answer' = [answer EXCEPT ![c] = "error"]
    /\ files' = Gone({PartPath(recv[c].name)})

\* The first header names the file and opens its part.
RecvHeader(c) ==
    /\ Reading(c, "header") /\ recv[c].pc = "idle"
    /\ LET name == FreshName(Frame(c).snap)
       IN  /\ recv' = [recv EXCEPT ![c] = [IdleHandler EXCEPT
                           !.pc = "reading", !.snap = Frame(c).snap, !.name = name]]
           /\ files' = Written(PartPath(name), <<>>)
    /\ Taken(c)
    /\ UNCHANGED <<leaderVars, answer, registry, installs, phase, leaked, faults>>

\* Mutant: the first chunk is expected to be number 0.
InOrderFromZero(c) == Frame(c).seq = recv[c].seq
InOrder(c) == Frame(c).seq = recv[c].seq + 1

RecvChunk(c) ==
    LET data == Frame(c).data
        path == PartPath(recv[c].name)
    IN  /\ Reading(c, "chunk") /\ recv[c].pc = "reading" /\ InOrder(c)
        /\ ~TooLarge(Len(recv[c].seen) + Len(data))
        /\ recv' = [recv EXCEPT ![c].seq = Frame(c).seq, ![c].seen = @ \o data]
        /\ files' = IF Exists(path) THEN Written(path, files[path] \o data) ELSE files
        /\ Taken(c)
        /\ UNCHANGED <<leaderVars, answer, registry, installs, phase, leaked, faults>>

RecvEnd(c) ==
    /\ Reading(c, "end") /\ recv[c].pc = "reading"
    /\ recv' = [recv EXCEPT ![c].end = Frame(c)]
    /\ Taken(c)
    /\ UNCHANGED <<leaderVars, answer, files, registry, installs, phase, leaked, faults>>

\* A chunk out of order, past the limit or before the header, an end before it
Violates(c) ==
    \/ /\ Reading(c, "chunk")
       /\ \/ recv[c].pc = "idle" \/ ~InOrder(c)
          \/ TooLarge(Len(recv[c].seen) + Len(Frame(c).data))
    \/ Reading(c, "end") /\ recv[c].pc = "idle"

\* The whole body was read: is it what the sender says it sent?
BodyRead(c) == recv[c].pc = "reading" /\ wire[c].frames = <<>> /\ wire[c].body = "ended"
Checks(c) ==
    /\ recv[c].end # None
    /\ recv[c].end.total = Len(recv[c].seen)
    /\ recv[c].end.crc = recv[c].seen

\* Nothing of the body came before it ended or was cut.
BodyCut(c) ==
    /\ wire[c].frames = <<>>
    /\ \/ wire[c].body = "cut"
       \/ wire[c].body = "ended" /\ recv[c].pc = "idle"

RecvFails(c) ==
    /\ phase = "up" /\ recv[c].pc \in {"idle", "reading"}
    /\ Violates(c) \/ BodyCut(c) \/ (BodyRead(c) /\ ~Checks(c))
    /\ Fail(c)
    /\ UNCHANGED <<leaderVars, registry, installs, phase, leaked, faults>>

\* Writing, flushing or renaming the part fails.
WriteFails(c) ==
    /\ phase = "up" /\ recv[c].pc = "reading" /\ faults < MaxFaults
    /\ Fail(c)
    /\ faults' = faults + 1
    /\ UNCHANGED <<leaderVars, registry, installs, phase, leaked>>

\* finalize_payload_part, then install_full_snapshot on the renamed file
Finalize(c) ==
    LET part == PartPath(recv[c].name)
        final == FinalPath(recv[c].name)
    IN  /\ phase = "up" /\ BodyRead(c) /\ Checks(c) /\ Exists(part)
        /\ files' = [p \in (DOMAIN files \ {part}) \cup {final} |->
                        IF p = final THEN files[part] ELSE files[p]]
        /\ recv' = [recv EXCEPT ![c].pc = "installing"]
        /\ installs' = Append(installs, [snap |-> recv[c].snap, file |-> final,
                                         owner |-> c, copy |-> None])
        /\ UNCHANGED <<leaderVars, wire, answer, registry, phase, leaked, faults>>

\* The installation is done or was not needed: the received file goes.
\* Mutant: it is answered before the installation.
RespondEarly(c) == recv[c].pc = "installing"
MayRespond(c) ==
    /\ recv[c].pc = "installing"
    /\ \A k \in DOMAIN installs : installs[k].owner # c
Respond(c) ==
    /\ phase = "up" /\ MayRespond(c)
    /\ files' = Gone({FinalPath(recv[c].name)})
    /\ recv' = [recv EXCEPT ![c] = IdleHandler]
    /\ answer' = [answer EXCEPT ![c] = "ok"]
    /\ wire' = [wire EXCEPT ![c] = Quiet]
    /\ UNCHANGED <<leaderVars, registry, installs, phase, leaked, faults>>

\* The client is gone: the server drops the handler at one of its awaits.
Drop(c) ==
    LET path == IF recv[c].pc = "reading" THEN PartPath(recv[c].name)
                ELSE FinalPath(recv[c].name)
    IN  /\ phase = "up" /\ recv[c].pc \in {"reading", "installing"} /\ wire[c].body = "cut"
        /\ Cardinality(leaked) < MaxFaults
        /\ recv' = [recv EXCEPT ![c] = IdleHandler]
        /\ wire' = [wire EXCEPT ![c] = Quiet]
        /\ installs' = [k \in DOMAIN installs |->
                           IF installs[k].owner = c THEN [installs[k] EXCEPT !.owner = None]
                           ELSE installs[k]]
        /\ leaked' = leaked \cup {path}
        /\ UNCHANGED <<leaderVars, answer, files, registry, phase, faults>>

-----------------------------------------------------------------------------
(* The state machine and the follower's process *)

\* A snapshot that brings nothing new is dropped from the queue.
InstallSkipped ==
    /\ phase = "up" /\ installs # <<>>
    /\ Head(installs).copy = None /\ Head(installs).snap <= Installed
    /\ installs' = Tail(installs)
    /\ UNCHANGED <<leaderVars, wire, recv, answer, files, registry, phase, leaked, faults>>

\* install_snapshot: the received file is copied under a name of its own.
InstallCopy ==
    LET i == Head(installs)
        copy == FinalPath(FreshName(i.snap))
    IN  /\ phase = "up" /\ installs # <<>>
        /\ i.copy = None /\ i.snap > Installed /\ Exists(i.file)
        /\ files' = Written(copy, files[i.file])
        /\ installs' = [installs EXCEPT ![1].copy = copy]
        /\ UNCHANGED <<leaderVars, wire, recv, answer, registry, phase, leaked, faults>>

\* The registry names the copy; the file it named before is removed.
InstallRegister ==
    LET i == Head(installs)
    IN  /\ phase = "up" /\ installs # <<>> /\ i.copy # None
        /\ registry' = [snap |-> i.snap, file |-> i.copy]
        /\ files' = IF registry = None \/ registry.file = i.copy THEN files
                    ELSE Gone({registry.file})
        /\ installs' = Tail(installs)
        /\ UNCHANGED <<leaderVars, wire, recv, answer, phase, leaked, faults>>

Crash ==
    /\ phase = "up" /\ faults < MaxFaults
    /\ phase' = "down"
    /\ recv' = [c \in Calls |-> IdleHandler]
    /\ wire' = [c \in Calls |-> IF wire[c].body = "none" THEN wire[c]
                                ELSE [frames |-> <<>>, body |-> "cut"]]
    /\ installs' = <<>>
    /\ faults' = faults + 1
    /\ UNCHANGED <<leaderVars, answer, files, registry, leaked>>

\* sweep_snapshot_payloads: every part goes, and every payload but the registry's.
Keeps == {p \in DOMAIN files : registry # None /\ p = registry.file}

Restart ==
    /\ phase = "down"
    /\ phase' = "up"
    /\ files' = [p \in Keeps |-> files[p]]
    /\ leaked' = {}
    /\ UNCHANGED <<leaderVars, wire, recv, answer, registry, installs, faults>>

-----------------------------------------------------------------------------

Init ==
    /\ latest = 1
    /\ sender = [c \in Calls |-> IdleSender]
    /\ acked = [c \in Calls |-> 0]
    /\ wire = [c \in Calls |-> Quiet]
    /\ recv = [c \in Calls |-> IdleHandler]
    /\ answer = [c \in Calls |-> None]
    /\ files = <<>> /\ registry = None /\ installs = <<>>
    /\ phase = "up" /\ leaked = {} /\ faults = 0

Emit(c) == ReadEof(c) \/ \E n \in 1 .. ReadBytes : Read(c, n) \/ ReadTooLarge(c, n)
Sender(c) == Open(c) \/ Emit(c) \/ Answered(c) \/ Cancel(c) \/ Cutoff(c)
Transport(c) == \E k \in DOMAIN wire[c].frames : LoseFrame(c, k) \/ DamageChunk(c, k)
HandlerStep(c) ==
    RecvHeader(c) \/ RecvChunk(c) \/ RecvEnd(c) \/ RecvFails(c) \/ Finalize(c) \/ Respond(c)
Handler(c) == HandlerStep(c) \/ WriteFails(c) \/ Drop(c)
Install == InstallSkipped \/ InstallCopy \/ InstallRegister

Next ==
    \/ BuildSnapshot \/ Install \/ Crash \/ Restart
    \/ \E c \in Calls : Sender(c) \/ Transport(c) \/ Handler(c)

(* Replication tasks retry for ever and send the newest snapshot, files are   *)
(* read and bodies delivered while nothing fails, handlers and the state      *)
(* machine's worker make progress, and a follower that is down is restarted.  *)
Fairness ==
    /\ WF_vars(Install \/ Restart)
    /\ \A c \in Calls :
        /\ WF_vars(Open(c) \/ Emit(c) \/ Answered(c) \/ Cutoff(c))
        /\ WF_vars(HandlerStep(c) \/ Drop(c))

Spec == Init /\ [][Next]_vars /\ Fairness

-----------------------------------------------------------------------------

\* Every variable keeps its type; a path holds the bytes written to it so far.
TypeOK ==
    /\ latest \in Snaps /\ acked \in [Calls -> 0 .. Len(Size)]
    /\ \A c \in Calls :
        /\ sender[c].pc \in {"idle", "sending", "waiting"} /\ sender[c].snap \in 0 .. latest
        /\ sender[c].carry \in Seq(Bytes) /\ Len(sender[c].carry) < ChunkBytes
        /\ recv[c].pc \in {"idle", "reading", "installing"} /\ recv[c].snap \in 0 .. latest
        /\ recv[c].pc # "idle" => FinalPath(recv[c].name) \in Paths
        /\ wire[c].body \in {"none", "open", "ended", "cut"}
        /\ answer[c] \in {None, "ok", "error"}
    /\ \A p \in DOMAIN files : p \in Paths /\ files[p] \in Seq(Bytes)
    /\ registry = None \/ (registry.snap \in Snaps /\ registry.file \in Paths)
    /\ \A k \in DOMAIN installs : installs[k].owner \in Calls \cup {None}
    /\ phase \in {"up", "down"} /\ leaked \subseteq Paths /\ faults \in 0 .. MaxFaults

(* The installed snapshot is on disk, whole and unaltered, whatever was lost, *)
(* damaged or repeated on the way: no handler writes to, renames or removes   *)
(* the file the registry names (full_snapshot, install_snapshot).             *)
InstalledWhole ==
    registry # None =>
        Exists(registry.file) /\ files[registry.file] = Payload(registry.snap)

\* An acknowledged snapshot is installed, or a newer one: the leader may go on
\* with the log from there (the ack of full_snapshot).
AckMeansInstalled == \A c \in Calls : acked[c] <= Installed

\* The file a running handler or installation works on, and the registry's
InUse ==
    {PartPath(recv[c].name) : c \in {d \in Calls : recv[d].pc = "reading"}}
        \cup {FinalPath(recv[c].name) : c \in {d \in Calls : recv[d].pc = "installing"}}
        \cup {installs[k].copy : k \in DOMAIN installs}
        \cup (IF registry = None THEN {} ELSE {registry.file})

(* Nothing piles up in the snapshot directory of a running follower: a path   *)
(* is in use, or its handler was dropped since the follower started (the      *)
(* failure paths of full_snapshot, sweep_snapshot_payloads).                  *)
NothingPilesUp == phase = "up" => DOMAIN files \subseteq InUse \cup leaked

\* Once the leader's newest snapshot is one that fits, the follower gets it,
\* whatever was cancelled, damaged or crashed before.
EventuallyInstalled == latest = Len(Size) ~> Installed = Len(Size)

(* "EVERY failure path after the part was opened removes `.part`": does not   *)
(* hold of a handler that is dropped.                                         *)
EveryFailureCleans == \A p \in DOMAIN files : p.part => phase = "down" \/ p \in InUse
================================================================================
