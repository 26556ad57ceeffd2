---------------------------- MODULE TransferProofs ----------------------------
(***************************************************************************)
(* Theorems about SnapshotTransfer: what is installed is whole, what is    *)
(* acknowledged is installed, and no file is left that nobody answers for; *)
(* for any number of calls, sizes of snapshots and chunks, and faults.     *)
(***************************************************************************)
EXTENDS SnapshotTransfer, SequenceTheorems, FiniteSetTheorems, TLAPS

Senders == [pc : {"idle", "sending", "waiting"}, snap : 0 .. Len(Size), pos : Nat,
            carry : Seq(Bytes), seq : Nat, sent : Seq(Bytes)]
EndFrames == [kind : {"end"}, total : Nat, crc : Seq(Bytes)]
Frames == [kind : {"header"}, snap : Snaps]
            \cup [kind : {"chunk"}, seq : Nat, data : Seq(Bytes)] \cup EndFrames
Wires == [frames : Seq(Frames), body : {"none", "open", "ended", "cut"}]
Handlers == [pc : {"idle", "reading", "installing"}, snap : 0 .. Len(Size),
             name : NameSpace \cup {None}, seq : Nat, seen : Seq(Bytes), end : EndFrames \cup {None}]
Installations == [snap : Snaps, file : Paths, owner : Calls \cup {None}, copy : Paths \cup {None}]

FilesType == IsFiniteSet(DOMAIN files) /\ DOMAIN files \subseteq Paths
                /\ files \in [DOMAIN files -> Seq(Bytes)]
TypeInv ==
    /\ latest \in Snaps /\ sender \in [Calls -> Senders] /\ acked \in [Calls -> 0 .. Len(Size)]
    /\ wire \in [Calls -> Wires] /\ recv \in [Calls -> Handlers]
    /\ answer \in [Calls -> {None, "ok", "error"}]
    /\ FilesType
    /\ registry \in {None} \cup [snap : Snaps, file : Paths]
    /\ installs \in Seq(Installations)
    /\ phase \in {"up", "down"} /\ leaked \subseteq Paths /\ faults \in 0 .. MaxFaults

\* What the types of a sender and of a handler leave open.
Within(c) ==
    /\ sender[c].snap <= latest /\ recv[c].snap <= latest /\ Len(sender[c].carry) < ChunkBytes
    /\ recv[c].name = None <=> recv[c].pc = "idle"
Bounded == \A c \in Calls : Within(c)

-----------------------------------------------------------------------------
(* One call, one snapshot: what its header, its end, its sender and its      *)
(* handler speak of is the same.                                             *)

FrameOf(f, x) ==
    /\ f.kind = "header" => f.snap = x
    /\ f.kind = "end" => f.crc = Payload(x)
SenderOf(s, x) == s.pc # "idle" =>
    /\ s.snap = x
    /\ s.pc = "sending" => s.pos <= Size[x] /\ s.sent \o s.carry = SubSeq(Payload(x), 1, s.pos)
HandlerOf(h, x) == h.pc # "idle" =>
    /\ h.snap = x
    /\ h.end # None => h.end.crc = Payload(x)

About(c, x) ==
    /\ \A k \in 1 .. Len(wire[c].frames) : FrameOf(wire[c].frames[k], x)
    /\ SenderOf(sender[c], x) /\ HandlerOf(recv[c], x)
CallInv == \A c \in Calls : \E x \in 1 .. latest : About(c, x)

-----------------------------------------------------------------------------
(* Whose a path is *)

Busy(c) == recv[c].pc # "idle"
Part(c) == PartPath(recv[c].name)
Final(c) == FinalPath(recv[c].name)

\* Handlers have names of their own, and a file to each.
HandlersOwn ==
    /\ \A c, d \in Calls : Busy(c) /\ Busy(d) /\ recv[c].name = recv[d].name => c = d
    /\ \A c \in Calls : recv[c].pc = "reading" =>
          Exists(Part(c)) /\ files[Part(c)] = recv[c].seen /\ ~Exists(Final(c))

\* A queued installation has the whole snapshot on disk, and only the first has
\* a copy.
Whole(i) ==
    /\ ~i.file.part /\ Exists(i.file) /\ files[i.file] = Payload(i.snap)
    /\ i.owner # None =>
          /\ recv[i.owner].pc = "installing"
          /\ i.file = Final(i.owner) /\ i.snap = recv[i.owner].snap
    /\ i.copy # None =>
          /\ Exists(i.copy) /\ ~i.copy.part /\ files[i.copy] = Payload(i.snap)
          /\ i.snap > Installed
InstallsWhole == \A k \in 1 .. Len(installs) :
    Whole(installs[k]) /\ (installs[k].copy # None => k = 1)

\* Nobody else has the path of a copy or of the registered snapshot.
Apart(p) ==
    /\ \A c \in Calls : recv[c].name # p.name
    /\ \A k \in 1 .. Len(installs) : installs[k].file.name # p.name
CopiesOwn ==
    /\ \A k \in 1 .. Len(installs) : installs[k].copy # None =>
          Apart(installs[k].copy) /\ (registry # None => registry.file # installs[k].copy)
    /\ registry # None => Apart(registry.file) /\ ~registry.file.part

\* Who waits for an installation has it queued, or it is not needed any more.
WaitersServed ==
    \A c \in Calls : recv[c].pc = "installing" =>
        \/ recv[c].snap <= Installed
        \/ \E k \in 1 .. Len(installs) : installs[k].owner = c

\* An installation is of the handler that has its name, if one has.
OwnersKnown == \A k \in 1 .. Len(installs) : \A c \in Calls :
    installs[k].file.name = recv[c].name => installs[k].owner = c

DownIdle == phase = "down" => installs = <<>> /\ \A c \in Calls : ~Busy(c)

FileInv == HandlersOwn /\ InstallsWhole /\ CopiesOwn /\ OwnersKnown /\ DownIdle /\ InstalledWhole

AnswersMean == \A c \in Calls :
    answer[c] # None /\ answer[c] = "ok" /\ sender[c].pc # "idle" => sender[c].snap <= Installed
AckInv == WaitersServed /\ AnswersMean /\ AckMeansInstalled
-----------------------------------------------------------------------------
(* Names are fresh *)

LEMMA NamesFinite ==
    ASSUME TypeInv
    PROVE  IsFiniteSet(Names) /\ Names \subseteq NameSpace \cup {None}
<1> DEFINE F == [p \in DOMAIN files |-> p.name]
           R == [c \in Calls |-> recv[c].name]
           I == [k \in DOMAIN installs |-> installs[k].file.name]
<1>0. IsFiniteSet(Calls) /\ IsFiniteSet(DOMAIN files) /\ IsFiniteSet(DOMAIN installs)
  <2>1. installs \in Seq(Installations)
    BY DEF TypeInv
  <2>2. DOMAIN installs = 1 .. Len(installs) /\ Len(installs) \in Nat
    BY <2>1, LenProperties
  <2>3. IsFiniteSet(1 .. Len(installs))
    BY <2>2, FS_Interval
  <2> QED
    BY <2>2, <2>3, TransferAssumption DEF TypeInv, FilesType
<1>1. /\ F \in [DOMAIN files -> NameSpace] /\ R \in [Calls -> NameSpace \cup {None}]
      /\ I \in [DOMAIN installs -> NameSpace]
  <2>1. \A k \in DOMAIN installs : installs[k] \in Installations
    BY LenProperties, ElementOfSeq DEF TypeInv
  <2>2. \A p \in DOMAIN files : p \in Paths
    BY DEF TypeInv, FilesType
  <2>3. \A c \in Calls : recv[c] \in Handlers
    BY DEF TypeInv
  <2> QED
    BY <2>1, <2>2, <2>3 DEF Installations, Handlers, Paths
<1> DEFINE A == {p.name : p \in DOMAIN files}
           B == {recv[c].name : c \in Calls}
           C == {installs[k].file.name : k \in DOMAIN installs}
<1>2. /\ F \in Surjection(DOMAIN files, A) /\ R \in Surjection(Calls, B)
      /\ I \in Surjection(DOMAIN installs, C)
  BY DEF Surjection
<1>3. Names = (A \cup B) \cup C
  BY DEF Names
<1>4. Names \subseteq NameSpace \cup {None}
  BY <1>1, <1>3
<1> HIDE DEF F, R, I, A, B, C
<1>5. IsFiniteSet(A) /\ IsFiniteSet(B) /\ IsFiniteSet(C)
  BY <1>0, <1>2, FS_Surjection
<1> QED
  BY <1>3, <1>4, <1>5, FS_Union

\* snap_file_name gives a name that nothing in the directory or the process has.
LEMMA FreshNameIsFresh ==
    ASSUME TypeInv, NEW i \in Snaps
    PROVE  FreshName(i) \in NameSpace /\ FreshName(i) \notin Names
<1> DEFINE N == Cardinality(Names)
           D == 1 .. N + 1
           f == [n \in D |-> [snap |-> i, seq |-> n]]
<1>0. IsFiniteSet(Names) /\ N \in Nat
  BY NamesFinite, FS_CardinalityType
<1>1. IsFiniteSet(D) /\ Cardinality(D) = N + 1
  <2> HIDE DEF N
  <2> QED
    BY <1>0, FS_Interval
<1>2. \E n \in D : [snap |-> i, seq |-> n] \notin Names
  <2> SUFFICES ASSUME \A n \in D : [snap |-> i, seq |-> n] \in Names
               PROVE  FALSE
    OBVIOUS
  <2>1. f \in [D -> Names]
    OBVIOUS
  <2>2. Cardinality(Names) < Cardinality(D)
    BY <1>0, <1>1
  <2>3. PICK x, y \in D : x # y /\ f[x] = f[y]
    <3> HIDE DEF f, D
    <3> QED
      BY <1>0, <1>1, <2>1, <2>2, FS_PigeonHole
  <2> QED
    BY <2>3
<1> DEFINE m == CHOOSE n \in D : [snap |-> i, seq |-> n] \notin Names
<1>3. m \in D /\ [snap |-> i, seq |-> m] \notin Names
  BY <1>2
<1>4. FreshName(i) = [snap |-> i, seq |-> m]
  BY DEF FreshName
<1> HIDE DEF m
<1>5. m \in Nat
  BY <1>0, <1>3
<1> QED
  BY <1>3, <1>4, <1>5 DEF NameSpace

-----------------------------------------------------------------------------
(* What the emitter cuts *)

LEMMA DivBounds ==
    ASSUME NEW a \in Nat, NEW b \in Nat \ {0}
    PROVE  a \div b \in Nat /\ (a \div b) * b <= a /\ a - (a \div b) * b < b
OBVIOUS

LEMMA TimesMonotonic ==
    ASSUME NEW k \in Nat, NEW m \in Nat, NEW b \in Nat, k <= m
    PROVE  k * b <= m * b
OBVIOUS

LEMMA Associates ==
    ASSUME NEW s \in Seq(Bytes), NEW t \in Seq(Bytes), NEW u \in Seq(Bytes)
    PROVE  (s \o t) \o u = s \o (t \o u)
BY ConcatAssociative, SMT

LEMMA AdjacentPrefix ==
    ASSUME NEW s \in Seq(Bytes), NEW m \in 0 .. Len(s), NEW n \in m .. Len(s)
    PROVE  SubSeq(s, 1, m) \o SubSeq(s, m + 1, n) = SubSeq(s, 1, n)
<1>1. 1 \in 1 .. Len(s) + 1 /\ m \in 1 - 1 .. Len(s)
  OBVIOUS
<1> QED
  BY <1>1, ConcatAdjacentSubSeq, Zenon

LEMMA PayloadType ==
    ASSUME NEW i \in Snaps
    PROVE  Payload(i) \in Seq(Bytes) /\ Len(Payload(i)) = Size[i] /\ Size[i] \in Nat \ {0}
<1>1. Size[i] \in Nat \ {0}
  BY TransferAssumption, ElementOfSeq DEF Snaps
<1>2. i \in Nat
  BY TransferAssumption DEF Snaps
<1>3. \A k \in 1 .. Size[i] : <<i, k>> \in Bytes
  BY <1>1, <1>2 DEF Bytes
<1> QED
  BY <1>1, <1>3 DEF Payload

\* The bytes cut into chunks, and the rest, are the bytes.
LEMMA CutWhole ==
    ASSUME NEW bytes \in Seq(Bytes)
    PROVE  /\ Cut(bytes) \in Nat
           /\ Full(bytes) \in Seq(Bytes) /\ Rest(bytes) \in Seq(Bytes)
           /\ Full(bytes) \o Rest(bytes) = bytes
           /\ Len(Rest(bytes)) < ChunkBytes
<1> DEFINE L == Len(bytes)
           m == Cut(bytes) * ChunkBytes
<1>0. L \in Nat /\ ChunkBytes \in Nat \ {0} /\ Cut(bytes) = L \div ChunkBytes
  BY TransferAssumption, LenProperties DEF Cut
<1>1. /\ L \in Nat /\ ChunkBytes \in Nat \ {0}
      /\ Cut(bytes) \in Nat /\ m \in Nat /\ m <= L /\ L - m < ChunkBytes
  <2> HIDE DEF L
  <2>1. /\ L \div ChunkBytes \in Nat
        /\ (L \div ChunkBytes) * ChunkBytes <= L /\ L - (L \div ChunkBytes) * ChunkBytes < ChunkBytes
    BY <1>0, DivBounds
  <2>2. m \in Nat
    BY <1>0, <2>1
  <2> QED
    BY <1>0, <2>1, <2>2
<1>2. Full(bytes) = SubSeq(bytes, 1, m) /\ Rest(bytes) = SubSeq(bytes, m + 1, L)
  BY DEF Full, Rest
<1> HIDE DEF m
<1>3. SubSeq(bytes, 1, m) \in Seq(Bytes) /\ SubSeq(bytes, m + 1, L) \in Seq(Bytes)
  BY <1>1, ElementOfSeq, SubSeqProperties
<1>4. Len(SubSeq(bytes, m + 1, L)) < ChunkBytes
  BY <1>1, ElementOfSeq, SubSeqProperties
<1>5. SubSeq(bytes, 1, m) \o SubSeq(bytes, m + 1, L) = SubSeq(bytes, 1, L)
  <2>1. m \in 0 .. Len(bytes) /\ L \in m .. Len(bytes)
    BY <1>1
  <2> QED
    BY <2>1, AdjacentPrefix, Zenon
<1>6. SubSeq(bytes, 1, L) = bytes
  BY SubSeqFull
<1> QED
  BY <1>1, <1>2, <1>3, <1>4, <1>5, <1>6

LEMMA ChunksType ==
    ASSUME NEW bytes \in Seq(Bytes), NEW n \in Nat
    PROVE  Chunks(n, bytes) \in Seq(Frames)
           /\ \A k \in 1 .. Len(Chunks(n, bytes)) : Chunks(n, bytes)[k].kind = "chunk"
<1>1. /\ Len(bytes) \in Nat /\ ChunkBytes \in Nat \ {0}
      /\ Cut(bytes) \in Nat /\ Cut(bytes) * ChunkBytes <= Len(bytes)
  BY TransferAssumption, LenProperties, DivBounds DEF Cut
<1>2. \A k \in 1 .. Cut(bytes) : Chunks(n, bytes)[k] \in Frames /\ Chunks(n, bytes)[k].kind = "chunk"
  <2> TAKE k \in 1 .. Cut(bytes)
  <2> DEFINE a == (k - 1) * ChunkBytes + 1
             b == k * ChunkBytes
             data == SubSeq(bytes, a, b)
  <2>1. a \in Nat /\ b \in Nat /\ a >= 1 /\ b <= Len(bytes)
    <3>1. k * ChunkBytes <= Cut(bytes) * ChunkBytes
      BY <1>1, TimesMonotonic
    <3>2. (k - 1) * ChunkBytes \in Nat /\ k * ChunkBytes \in Nat /\ Cut(bytes) * ChunkBytes \in Nat
      BY <1>1
    <3> QED
      BY <1>1, <3>1, <3>2
  <2>2. Chunks(n, bytes)[k] = Chunk(n + k, data)
    BY DEF Chunks
  <2> HIDE DEF a, b
  <2>3. data \in Seq(Bytes)
    <3>1. \A i \in a .. b : bytes[i] \in Bytes
      BY <1>1, <2>1, ElementOfSeq
    <3> QED
      BY <2>1, <3>1, SubSeqProperties
  <2> HIDE DEF data
  <2> QED
    BY <1>1, <2>2, <2>3 DEF Chunk, Frames
<1>3. Chunks(n, bytes) = [k \in 1 .. Cut(bytes) |-> Chunks(n, bytes)[k]]
  BY DEF Chunks
<1>4. Chunks(n, bytes) \in [1 .. Cut(bytes) -> Frames]
  BY <1>2, <1>3
<1>5. Chunks(n, bytes) \in Seq(Frames) /\ Len(Chunks(n, bytes)) = Cut(bytes)
  BY <1>1, <1>4
<1> QED
  BY <1>2, <1>5

\* One read keeps what was sent and what is carried a prefix of the payload.
LEMMA ReadKeepsPrefix ==
    ASSUME NEW x \in Snaps, NEW sent \in Seq(Bytes), NEW carry \in Seq(Bytes),
           NEW pos \in Nat, NEW n \in Nat, pos + n <= Size[x],
           sent \o carry = SubSeq(Payload(x), 1, pos)
    PROVE  LET bytes == carry \o SubSeq(Payload(x), pos + 1, pos + n)
           IN  /\ bytes \in Seq(Bytes)
               /\ (sent \o Full(bytes)) \o Rest(bytes) = SubSeq(Payload(x), 1, pos + n)
<1> DEFINE P == Payload(x)
           more == SubSeq(P, pos + 1, pos + n)
           bytes == carry \o more
<1>1. P \in Seq(Bytes) /\ Len(P) = Size[x] /\ Size[x] \in Nat
  BY PayloadType
<1> HIDE DEF P
<1>2. more \in Seq(Bytes)
  BY <1>1, ElementOfSeq, SubSeqProperties
<1>3. SubSeq(P, 1, pos) \o more = SubSeq(P, 1, pos + n)
  BY <1>1, AdjacentPrefix
<1> HIDE DEF more
<1>4. bytes \in Seq(Bytes)
  BY <1>2, ConcatProperties
<1>5. sent \o bytes = (sent \o carry) \o more
  BY <1>2, Associates
<1>6. sent \o bytes = SubSeq(P, 1, pos + n)
  BY <1>3, <1>5 DEF P
<1> HIDE DEF bytes
<1>7. (sent \o Full(bytes)) \o Rest(bytes) = sent \o bytes
  <2>1. Full(bytes) \in Seq(Bytes) /\ Rest(bytes) \in Seq(Bytes) /\ Full(bytes) \o Rest(bytes) = bytes
    BY <1>4, CutWhole
  <2>2. (sent \o Full(bytes)) \o Rest(bytes) = sent \o (Full(bytes) \o Rest(bytes))
    BY <2>1, Associates
  <2> QED
    BY <2>1, <2>2, Zenon
<1> QED
  BY <1>4, <1>6, <1>7 DEF bytes, more, P
-----------------------------------------------------------------------------
(* Types *)

LEMMA IdleTypes ==
    /\ Len(Size) \in Nat \ {0} /\ Size \in [1 .. Len(Size) -> Nat \ {0}]
    /\ IdleSender \in Senders /\ IdleHandler \in Handlers /\ Quiet \in Wires
<1>1. Len(Size) \in Nat \ {0} /\ Size \in [1 .. Len(Size) -> Nat \ {0}]
  BY TransferAssumption, EmptySeq, LenProperties
<1>2. <<>> \in Seq(Bytes) /\ <<>> \in Seq(Frames)
  OBVIOUS
<1> QED
  BY <1>1, <1>2 DEF IdleSender, IdleHandler, Quiet, Senders, Handlers, Wires

\* Writing a path, and removing some.
LEMMA WrittenFiles ==
    ASSUME FilesType, NEW path \in Paths, NEW data \in Seq(Bytes), files' = Written(path, data)
    PROVE  /\ FilesType'
           /\ DOMAIN files' = DOMAIN files \cup {path} /\ files'[path] = data
           /\ \A p \in DOMAIN files : p # path => files'[p] = files[p]
<1>1. IsFiniteSet(DOMAIN files \cup {path})
  BY FS_AddElement DEF FilesType
<1>2. DOMAIN files' = DOMAIN files \cup {path} /\ files'[path] = data
      /\ \A p \in DOMAIN files : p # path => files'[p] = files[p]
  BY DEF Written
<1>3. files' \in [DOMAIN files' -> Seq(Bytes)]
  BY DEF Written, FilesType
<1> QED
  BY <1>1, <1>2, <1>3 DEF FilesType

LEMMA KeptFiles ==
    ASSUME FilesType, NEW D \in SUBSET DOMAIN files, files' = [p \in D |-> files[p]]
    PROVE  /\ FilesType'
           /\ DOMAIN files' = D /\ \A p \in D : files'[p] = files[p]
<1>1. IsFiniteSet(D)
  BY FS_Subset DEF FilesType
<1>2. DOMAIN files' = D /\ \A p \in D : files'[p] = files[p]
  OBVIOUS
<1>3. files' \in [DOMAIN files' -> Seq(Bytes)]
  BY DEF FilesType
<1> QED
  BY <1>1, <1>2, <1>3 DEF FilesType

LEMMA GoneFiles ==
    ASSUME FilesType, NEW ps, files' = Gone(ps)
    PROVE  /\ FilesType'
           /\ DOMAIN files' = DOMAIN files \ ps /\ \A p \in DOMAIN files \ ps : files'[p] = files[p]
<1>1. DOMAIN files \ ps \in SUBSET DOMAIN files /\ files' = [p \in DOMAIN files \ ps |-> files[p]]
  BY DEF Gone
<1> QED
  BY <1>1, KeptFiles

LEMMA FramesType ==
    ASSUME TypeInv, NEW c \in Calls
    PROVE  /\ wire[c] \in Wires /\ wire[c].frames \in Seq(Frames)
           /\ DOMAIN wire[c].frames = 1 .. Len(wire[c].frames) /\ Len(wire[c].frames) \in Nat
           /\ \A k \in 1 .. Len(wire[c].frames) : wire[c].frames[k] \in Frames
           /\ wire[c].frames # <<>> =>
                /\ Len(wire[c].frames) >= 1
                /\ Frame(c) = wire[c].frames[1] /\ Frame(c) \in Frames
                /\ Tail(wire[c].frames) \in Seq(Frames)
                /\ Len(Tail(wire[c].frames)) = Len(wire[c].frames) - 1
                /\ \A k \in 1 .. Len(Tail(wire[c].frames)) :
                      Tail(wire[c].frames)[k] = wire[c].frames[k + 1]
<1>1. wire[c] \in Wires /\ wire[c].frames \in Seq(Frames)
  BY DEF TypeInv, Wires
<1>2. /\ DOMAIN wire[c].frames = 1 .. Len(wire[c].frames) /\ Len(wire[c].frames) \in Nat
      /\ \A k \in 1 .. Len(wire[c].frames) : wire[c].frames[k] \in Frames
  BY <1>1, LenProperties, ElementOfSeq
<1>3. ASSUME wire[c].frames # <<>>
      PROVE  /\ Len(wire[c].frames) >= 1
             /\ Frame(c) = wire[c].frames[1] /\ Frame(c) \in Frames
             /\ Tail(wire[c].frames) \in Seq(Frames)
             /\ Len(Tail(wire[c].frames)) = Len(wire[c].frames) - 1
             /\ \A k \in 1 .. Len(Tail(wire[c].frames)) :
                   Tail(wire[c].frames)[k] = wire[c].frames[k + 1]
  <2>1. Len(wire[c].frames) \in Nat \ {0}
    BY <1>1, <1>3, EmptySeq
  <2>2. Frame(c) = wire[c].frames[1]
    BY <1>1, <1>3 DEF Frame
  <2> QED
    BY <1>1, <1>2, <1>3, <2>1, <2>2, HeadTailProperties
<1> QED
  BY <1>1, <1>2, <1>3

\* What a frame carries is of its kind.
LEMMA FrameParts ==
    ASSUME NEW f \in Frames
    PROVE  /\ f.kind \in {"header", "chunk", "end"}
           /\ f.kind = "header" => f.snap \in Snaps
           /\ f.kind = "chunk" => f.seq \in Nat /\ f.data \in Seq(Bytes)
           /\ f.kind = "end" => f \in EndFrames
BY DEF Frames, EndFrames

LEMMA InstallsType ==
    ASSUME TypeInv
    PROVE  /\ installs \in Seq(Installations)
           /\ DOMAIN installs = 1 .. Len(installs) /\ Len(installs) \in Nat
           /\ \A k \in 1 .. Len(installs) : installs[k] \in Installations
           /\ installs # <<>> =>
                /\ Len(installs) >= 1 /\ Head(installs) = installs[1]
                /\ Tail(installs) \in Seq(Installations)
                /\ Len(Tail(installs)) = Len(installs) - 1
                /\ \A k \in 1 .. Len(Tail(installs)) : Tail(installs)[k] = installs[k + 1]
<1>1. installs \in Seq(Installations)
  BY DEF TypeInv
<1>2. /\ DOMAIN installs = 1 .. Len(installs) /\ Len(installs) \in Nat
      /\ \A k \in 1 .. Len(installs) : installs[k] \in Installations
  BY <1>1, LenProperties, ElementOfSeq
<1>3. ASSUME installs # <<>>
      PROVE  /\ Len(installs) >= 1 /\ Head(installs) = installs[1]
             /\ Tail(installs) \in Seq(Installations)
             /\ Len(Tail(installs)) = Len(installs) - 1
             /\ \A k \in 1 .. Len(Tail(installs)) : Tail(installs)[k] = installs[k + 1]
  <2>1. Len(installs) \in Nat \ {0}
    BY <1>1, <1>3, EmptySeq
  <2> QED
    BY <1>1, <1>2, <1>3, <2>1, HeadTailProperties
<1> QED
  BY <1>1, <1>2, <1>3
\* What the calls of the emitter add to the wire.
LEMMA ReadType ==
    ASSUME TypeInv, CallInv, NEW c \in Calls, sender[c].pc = "sending", NEW n \in Nat,
           sender[c].pos + n <= Size[sender[c].snap]
    PROVE  LET s == sender[c]
               bytes == s.carry \o SubSeq(Payload(s.snap), s.pos + 1, s.pos + n)
           IN  /\ s \in Senders /\ s.snap \in 1 .. latest /\ s.snap \in Snaps
               /\ bytes \in Seq(Bytes)
               /\ (s.sent \o Full(bytes)) \o Rest(bytes) = SubSeq(Payload(s.snap), 1, s.pos + n)
<1>1. PICK x \in 1 .. latest : About(c, x)
  BY DEF CallInv
<1>2. sender[c] \in Senders /\ x \in Snaps
  BY IdleTypes DEF TypeInv, Snaps
<1>3. sender[c].snap = x /\ sender[c].sent \o sender[c].carry = SubSeq(Payload(x), 1, sender[c].pos)
  BY <1>1 DEF About, SenderOf
<1>4. sender[c].sent \in Seq(Bytes) /\ sender[c].carry \in Seq(Bytes) /\ sender[c].pos \in Nat
  BY <1>2 DEF Senders
<1> QED
  BY <1>1, <1>2, <1>3, <1>4, ReadKeepsPrefix, ZenonT(30)

\* Losing a frame and damaging one.
LEMMA WithoutType ==
    ASSUME NEW s \in Seq(Frames), NEW k \in 1 .. Len(s)
    PROVE  /\ Without(s, k) \in Seq(Frames)
           /\ Len(Without(s, k)) = Len(s) - 1
           /\ \A j \in 1 .. Len(s) - 1 : Without(s, k)[j] = IF j < k THEN s[j] ELSE s[j + 1]
<1> DEFINE a == SubSeq(s, 1, k - 1)
           b == SubSeq(s, k + 1, Len(s))
<1>1. /\ a \in Seq(Frames) /\ Len(a) = k - 1 /\ \A j \in 1 .. k - 1 : a[j] = s[j]
      /\ b \in Seq(Frames) /\ Len(b) = Len(s) - k /\ \A j \in 1 .. Len(s) - k : b[j] = s[k + j]
  BY ElementOfSeq, SubSeqProperties
<1> HIDE DEF a, b
<1>2. /\ a \o b \in Seq(Frames) /\ Len(a \o b) = Len(a) + Len(b)
      /\ \A j \in 1 .. Len(a) + Len(b) : (a \o b)[j] = IF j <= Len(a) THEN a[j] ELSE b[j - Len(a)]
  BY <1>1, ConcatProperties
<1>3. Len(s) \in Nat /\ Len(a) + Len(b) = Len(s) - 1
  BY <1>1
<1>4. \A j \in 1 .. Len(s) - 1 : (a \o b)[j] = IF j < k THEN s[j] ELSE s[j + 1]
  <2> TAKE j \in 1 .. Len(s) - 1
  <2>1. CASE j < k
    BY <1>1, <1>2, <1>3, <2>1
  <2>2. CASE ~(j < k)
    <3>1. (a \o b)[j] = b[j - Len(a)]
      BY <1>1, <1>2, <1>3, <2>2, SMTT(30)
    <3>2. j - Len(a) \in 1 .. Len(s) - k /\ k + (j - Len(a)) = j + 1
      BY <1>1, <1>3, <2>2
    <3> QED
      BY <1>1, <2>2, <3>1, <3>2
  <2> QED
    BY <2>1, <2>2
<1> QED
  BY <1>2, <1>3, <1>4 DEF Without, a, b

LEMMA DamageType ==
    ASSUME NEW f \in Frames, f.kind = "chunk"
    PROVE  [f EXCEPT !.data[1] = Damaged] \in Frames
           /\ [f EXCEPT !.data[1] = Damaged].kind = "chunk"
<1>1. f \in [kind : {"chunk"}, seq : Nat, data : Seq(Bytes)]
  BY DEF Frames, EndFrames
<1>2. Damaged \in Bytes
  BY DEF Bytes
<1>3. f.data \in [1 .. Len(f.data) -> Bytes] /\ Len(f.data) \in Nat
  BY <1>1, LenProperties
<1>4. [f.data EXCEPT ![1] = Damaged] \in [1 .. Len(f.data) -> Bytes]
  BY <1>2, <1>3
<1>5. [f.data EXCEPT ![1] = Damaged] \in Seq(Bytes)
  BY <1>3, <1>4
<1>6. [f EXCEPT !.data[1] = Damaged] = [f EXCEPT !.data = [f.data EXCEPT ![1] = Damaged]]
  BY <1>1
<1> QED
  BY <1>1, <1>5, <1>6 DEF Frames
\* The leader and the transport keep the types.
LEMMA SenderTypes ==
    ASSUME TypeInv, CallInv, NEW c \in Calls, Sender(c) \/ Transport(c)
    PROVE  TypeInv'
<1>0. sender[c] \in Senders /\ wire[c] \in Wires /\ latest \in Snaps
  BY DEF TypeInv
<1>f. TypeInv => (UNCHANGED followerVars => FilesType')
  BY DEF TypeInv, FilesType, followerVars
<1>1. CASE Open(c)
  <2>1. [IdleSender EXCEPT !.pc = "sending", !.snap = latest] \in Senders
    <3>1. latest \in 0 .. Len(Size)
      BY <1>0, IdleTypes DEF Snaps
    <3> QED
      BY <3>1, IdleTypes DEF Senders
  <2>2. [frames |-> <<Header(latest)>>, body |-> "open"] \in Wires
    <3>1. Header(latest) \in Frames
      BY <1>0 DEF Header, Frames
    <3> QED
      BY <3>1 DEF Wires
  <2> QED
    BY <1>1, <1>f, <2>1, <2>2 DEF Open, TypeInv, followerVars
<1>2. ASSUME NEW n \in 1 .. ReadBytes, Read(c, n) PROVE TypeInv'
  <2> DEFINE s == sender[c]
             bytes == s.carry \o SubSeq(Payload(s.snap), s.pos + 1, s.pos + n)
  <2>1. n \in Nat /\ s.pc = "sending" /\ s.pos + n <= Size[s.snap]
    <3>1. n \in Nat
      BY TransferAssumption
    <3>2. Polled(c) /\ s.pos + n <= Size[s.snap]
      BY <1>2 DEF Read
    <3> QED
      BY <3>1, <3>2 DEF Polled
  <2>2. bytes \in Seq(Bytes) /\ s \in Senders
    BY <2>1, ReadType
  <2>3. /\ sender' = [sender EXCEPT ![c].pos = s.pos + n, ![c].carry = Rest(bytes),
                                    ![c].seq = s.seq + Cut(bytes), ![c].sent = s.sent \o Full(bytes)]
        /\ wire' = [wire EXCEPT ![c].frames = wire[c].frames \o Chunks(s.seq, bytes)]
        /\ UNCHANGED <<latest, acked, answer, faults, followerVars>>
    BY <1>2 DEF Read
  <2> HIDE DEF bytes
  <2>4. /\ Cut(bytes) \in Nat /\ Rest(bytes) \in Seq(Bytes) /\ Full(bytes) \in Seq(Bytes)
        /\ s.seq + Cut(bytes) \in Nat /\ s.pos + n \in Nat /\ s.sent \o Full(bytes) \in Seq(Bytes)
    <3>1. Cut(bytes) \in Nat /\ Rest(bytes) \in Seq(Bytes) /\ Full(bytes) \in Seq(Bytes)
      BY <2>2, CutWhole
    <3>2. s.seq \in Nat /\ s.pos \in Nat /\ s.sent \in Seq(Bytes)
      BY <2>2 DEF Senders
    <3>3. s.sent \o Full(bytes) \in Seq(Bytes)
      BY <3>1, <3>2, ConcatProperties
    <3> QED
      BY <2>1, <3>1, <3>2, <3>3, SMTT(30)
  <2>5. sender' \in [Calls -> Senders]
    BY <2>2, <2>3, <2>4 DEF TypeInv, Senders
  <2>6. wire[c].frames \o Chunks(s.seq, bytes) \in Seq(Frames)
    <3>1. Chunks(s.seq, bytes) \in Seq(Frames)
      BY <2>2, ChunksType DEF Senders
    <3> QED
      BY <1>0, <3>1, ConcatProperties DEF Wires
  <2>7. wire' \in [Calls -> Wires]
    BY <1>0, <2>3, <2>6 DEF TypeInv, Wires
  <2> QED
    BY <1>f, <2>3, <2>5, <2>7 DEF TypeInv, followerVars
<1>3. ASSUME NEW n \in 1 .. ReadBytes, ReadTooLarge(c, n) PROVE TypeInv'
  BY <1>0, <1>f, <1>3, IdleTypes DEF ReadTooLarge, TypeInv, followerVars, Wires
<1>4. CASE ReadEof(c)
  <2> DEFINE s == sender[c]
             last == IF s.carry = <<>> THEN <<>> ELSE <<Chunk(s.seq + 1, s.carry)>>
             more == Append(last, End(s.sent \o s.carry))
  <2>1. last \in Seq(Frames)
    <3>1. Chunk(s.seq + 1, s.carry) \in Frames
      BY <1>0 DEF Senders, Chunk, Frames
    <3> QED
      BY <3>1
  <2>2. End(s.sent \o s.carry) \in Frames
    <3>1. s.sent \o s.carry \in Seq(Bytes)
      BY <1>0, ConcatProperties DEF Senders
    <3>2. Len(s.sent \o s.carry) \in Nat
      BY <3>1, LenProperties
    <3> QED
      BY <3>1, <3>2 DEF End, EndFrames, Frames
  <2>3. /\ sender' = [sender EXCEPT ![c].pc = "waiting"]
        /\ wire' = [wire EXCEPT ![c].frames = wire[c].frames \o more, ![c].body = "ended"]
        /\ UNCHANGED <<latest, acked, answer, faults, followerVars>>
    BY <1>4 DEF ReadEof
  <2> HIDE DEF last
  <2>4. wire[c].frames \o more \in Seq(Frames)
    <3>1. more \in Seq(Frames)
      BY <2>1, <2>2
    <3> HIDE DEF more
    <3> QED
      BY <1>0, <3>1, ConcatProperties DEF Wires
  <2> HIDE DEF more
  <2>5. sender' \in [Calls -> Senders]
    BY <1>0, <2>3 DEF TypeInv, Senders
  <2>6. wire' \in [Calls -> Wires]
    BY <1>0, <2>3, <2>4 DEF TypeInv, Wires
  <2> QED
    BY <1>f, <2>3, <2>5, <2>6 DEF TypeInv, followerVars
<1>5. CASE Answered(c)
  <2>1. acked' \in [Calls -> 0 .. Len(Size)]
    BY <1>0, <1>5 DEF Answered, TypeInv, Senders
  <2> QED
    BY <1>0, <1>f, <1>5, <2>1, IdleTypes DEF Answered, TypeInv, followerVars
<1>6. CASE Cancel(c)
  <2>1. faults' \in 0 .. MaxFaults
    BY <1>6, TransferAssumption DEF Cancel, TypeInv
  <2> QED
    BY <1>0, <1>f, <1>6, <2>1, IdleTypes DEF Cancel, TypeInv, followerVars, Wires
<1>7. CASE Cutoff(c)
  BY <1>0, <1>f, <1>7, IdleTypes DEF Cutoff, TypeInv, followerVars
<1>8. ASSUME NEW k \in DOMAIN wire[c].frames, LoseFrame(c, k) PROVE TypeInv'
  <2>1. faults' \in 0 .. MaxFaults
    BY <1>8, TransferAssumption DEF LoseFrame, TypeInv
  <2>2. Without(wire[c].frames, k) \in Seq(Frames)
    BY <1>8, FramesType, WithoutType
  <2> QED
    BY <1>0, <1>f, <1>8, <2>1, <2>2 DEF LoseFrame, TypeInv, leaderVars, followerVars, Wires
<1>9. ASSUME NEW k \in DOMAIN wire[c].frames, DamageChunk(c, k) PROVE TypeInv'
  <2> DEFINE f == wire[c].frames[k]
             g == [f EXCEPT !.data[1] = Damaged]
  <2>1. faults' \in 0 .. MaxFaults
    BY <1>9, TransferAssumption DEF DamageChunk, TypeInv
  <2>2. k \in 1 .. Len(wire[c].frames) /\ f \in Frames /\ f.kind = "chunk" /\ wire[c].frames \in Seq(Frames)
    BY <1>9, FramesType DEF DamageChunk
  <2>3. g \in Frames
    BY <2>2, DamageType
  <2>4. wire' = [wire EXCEPT ![c] = [wire[c] EXCEPT !.frames = [wire[c].frames EXCEPT ![k] = g]]]
    BY <1>9 DEF DamageChunk
  <2> HIDE DEF g
  <2>5. [wire[c].frames EXCEPT ![k] = g] \in Seq(Frames)
    BY <2>2, <2>3, ExceptSeq
  <2>6. wire' \in [Calls -> Wires]
    BY <1>0, <2>4, <2>5 DEF TypeInv, Wires
  <2>7. UNCHANGED <<leaderVars, answer, followerVars>>
    BY <1>9 DEF DamageChunk
  <2> QED
    BY <1>f, <2>1, <2>6, <2>7 DEF TypeInv, leaderVars, followerVars
<1> QED
  BY <1>1, <1>2, <1>3, <1>4, <1>5, <1>6, <1>7, <1>8, <1>9 DEF Sender, Emit, Transport
\* The handlers keep the types.
LEMMA FailTypes ==
    ASSUME TypeInv, NEW c \in Calls, Fail(c)
    PROVE  /\ recv' \in [Calls -> Handlers] /\ wire' \in [Calls -> Wires]
           /\ answer' \in [Calls -> {None, "ok", "error"}] /\ FilesType'
<1>1. FilesType'
  BY GoneFiles DEF Fail, TypeInv
<1> QED
  BY <1>1, IdleTypes DEF Fail, TypeInv

LEMMA HandlerTypes ==
    ASSUME TypeInv, Bounded, CallInv, NEW c \in Calls, Handler(c)
    PROVE  TypeInv'
<1>0. recv[c] \in Handlers /\ wire[c] \in Wires /\ FilesType
  BY DEF TypeInv
<1>f. ASSUME files' = files PROVE FilesType'
  BY <1>0, <1>f DEF FilesType
<1>t. ASSUME wire[c].frames # <<>>, Taken(c) PROVE wire' \in [Calls -> Wires]
  <2>1. Tail(wire[c].frames) \in Seq(Frames)
    BY <1>t, FramesType
  <2> QED
    BY <1>0, <1>t, <2>1 DEF Taken, TypeInv, Wires
<1>1. CASE RecvHeader(c)
  <2> DEFINE name == FreshName(Frame(c).snap)
  <2>1. wire[c].frames # <<>> /\ Frame(c).kind = "header" /\ Taken(c)
    BY <1>1 DEF RecvHeader, Reading
  <2>2. Frame(c).snap \in Snaps
    BY <2>1, FramesType, FrameParts
  <2>3. name \in NameSpace
    BY <2>2, FreshNameIsFresh
  <2>4. /\ recv' = [recv EXCEPT ![c] = [IdleHandler EXCEPT
                        !.pc = "reading", !.snap = Frame(c).snap, !.name = name]]
        /\ files' = Written(PartPath(name), <<>>)
        /\ UNCHANGED <<leaderVars, answer, registry, installs, phase, leaked, faults>>
    BY <1>1 DEF RecvHeader
  <2> HIDE DEF name
  <2>5. FilesType'
    <3>1. PartPath(name) \in Paths /\ <<>> \in Seq(Bytes)
      BY <2>3 DEF PartPath, Paths
    <3> QED
      BY <1>0, <2>4, <3>1, WrittenFiles
  <2>6. recv' \in [Calls -> Handlers]
    <3>1. Frame(c).snap \in 0 .. Len(Size) /\ name \in NameSpace \cup {None}
      BY <2>2, <2>3, IdleTypes DEF Snaps
    <3>2. [IdleHandler EXCEPT !.pc = "reading", !.snap = Frame(c).snap, !.name = name] \in Handlers
      BY <3>1, IdleTypes DEF Handlers
    <3> QED
      BY <2>4, <3>2 DEF TypeInv
  <2> QED
    BY <1>t, <2>1, <2>4, <2>5, <2>6 DEF TypeInv, leaderVars
<1>2. CASE RecvChunk(c)
  <2> DEFINE data == Frame(c).data
             path == PartPath(recv[c].name)
  <2>1. wire[c].frames # <<>> /\ Frame(c).kind = "chunk" /\ Taken(c)
    BY <1>2 DEF RecvChunk, Reading
  <2>2. Frame(c).seq \in Nat /\ data \in Seq(Bytes)
    BY <2>1, FramesType, FrameParts
  <2>3. /\ recv' = [recv EXCEPT ![c].seq = Frame(c).seq, ![c].seen = recv[c].seen \o data]
        /\ files' = IF Exists(path) THEN Written(path, files[path] \o data) ELSE files
        /\ UNCHANGED <<leaderVars, answer, registry, installs, phase, leaked, faults>>
    BY <1>2 DEF RecvChunk
  <2> HIDE DEF data, path
  <2>4. FilesType'
    <3>1. CASE Exists(path)
      <4>1. path \in Paths /\ files[path] \in Seq(Bytes)
        BY <1>0, <3>1 DEF Exists, FilesType
      <4>2. files[path] \o data \in Seq(Bytes)
        BY <2>2, <4>1, ConcatProperties
      <4> QED
        BY <1>0, <2>3, <3>1, <4>1, <4>2, WrittenFiles
    <3>2. CASE ~Exists(path)
      BY <1>f, <2>3, <3>2
    <3> QED
      BY <3>1, <3>2
  <2>5. recv' \in [Calls -> Handlers]
    <3>1. recv[c].seen \o data \in Seq(Bytes)
      BY <1>0, <2>2, ConcatProperties DEF Handlers
    <3> QED
      BY <1>0, <2>2, <2>3, <3>1 DEF TypeInv, Handlers
  <2> QED
    BY <1>t, <2>1, <2>3, <2>4, <2>5 DEF TypeInv, leaderVars
<1>3. CASE RecvEnd(c)
  <2>1. wire[c].frames # <<>> /\ Frame(c).kind = "end" /\ Taken(c)
    BY <1>3 DEF RecvEnd, Reading
  <2>2. Frame(c) \in EndFrames
    BY <2>1, FramesType, FrameParts
  <2>3. recv' \in [Calls -> Handlers]
    BY <1>0, <1>3, <2>2 DEF RecvEnd, TypeInv, Handlers
  <2>4. UNCHANGED <<leaderVars, answer, files, registry, installs, phase, leaked, faults>>
    BY <1>3 DEF RecvEnd
  <2> QED
    BY <1>f, <1>t, <2>1, <2>3, <2>4 DEF TypeInv, leaderVars
<1>4. CASE RecvFails(c)
  <2>1. Fail(c) /\ UNCHANGED <<leaderVars, registry, installs, phase, leaked, faults>>
    BY <1>4 DEF RecvFails
  <2> QED
    BY <2>1, FailTypes DEF TypeInv, leaderVars
<1>5. CASE WriteFails(c)
  <2>1. Fail(c) /\ UNCHANGED <<leaderVars, registry, installs, phase, leaked>>
    BY <1>5 DEF WriteFails
  <2>2. faults' \in 0 .. MaxFaults
    BY <1>5, TransferAssumption DEF WriteFails, TypeInv
  <2> QED
    BY <2>1, <2>2, FailTypes DEF TypeInv, leaderVars
<1>6. CASE Finalize(c)
  <2> DEFINE part == PartPath(recv[c].name)
             final == FinalPath(recv[c].name)
             D == (DOMAIN files \ {part}) \cup {final}
             new == [snap |-> recv[c].snap, file |-> final, owner |-> c, copy |-> None]
  <2>1. /\ files' = [p \in D |-> IF p = final THEN files[part] ELSE files[p]]
        /\ part \in DOMAIN files /\ recv[c].pc = "reading"
        /\ recv' = [recv EXCEPT ![c].pc = "installing"] /\ installs' = Append(installs, new)
        /\ UNCHANGED <<leaderVars, wire, answer, registry, phase, leaked, faults>>
    BY <1>6 DEF Finalize, Exists, BodyRead
  <2>2. part \in Paths /\ files[part] \in Seq(Bytes)
    BY <1>0, <2>1 DEF FilesType
  <2>3. recv[c].name \in NameSpace /\ final \in Paths
    BY <2>2 DEF PartPath, FinalPath, Paths
  <2>4. FilesType'
    <3>1. IsFiniteSet(D)
      BY <1>0, FS_RemoveElement, FS_AddElement DEF FilesType
    <3>2. D \subseteq Paths
      BY <1>0, <2>3 DEF FilesType
    <3>3. DOMAIN files' = D /\ files' \in [D -> Seq(Bytes)]
      BY <1>0, <2>1, <2>2 DEF FilesType
    <3> HIDE DEF D
    <3> QED
      BY <3>1, <3>2, <3>3 DEF FilesType
  <2>5. recv[c].snap \in Snaps
    <3>1. PICK x \in 1 .. latest : About(c, x)
      BY DEF CallInv
    <3> QED
      BY <2>1, <3>1, IdleTypes DEF About, HandlerOf, TypeInv, Snaps
  <2>6. new \in Installations
    BY <2>3, <2>5 DEF Installations
  <2> HIDE DEF new, final, part, D
  <2>7. installs' \in Seq(Installations)
    BY <2>1, <2>6 DEF TypeInv
  <2>8. recv' \in [Calls -> Handlers]
    BY <1>0, <2>1 DEF TypeInv, Handlers
  <2> QED
    BY <2>1, <2>4, <2>7, <2>8 DEF TypeInv, leaderVars
<1>7. CASE Respond(c)
  <2>1. FilesType'
    BY <1>0, <1>7, GoneFiles DEF Respond
  <2> QED
    BY <1>7, <2>1, IdleTypes DEF Respond, TypeInv, leaderVars
<1>8. CASE Drop(c)
  <2> DEFINE path == IF recv[c].pc = "reading" THEN PartPath(recv[c].name)
                     ELSE FinalPath(recv[c].name)
  <2>1. /\ recv' = [recv EXCEPT ![c] = IdleHandler] /\ wire' = [wire EXCEPT ![c] = Quiet]
        /\ installs' = [k \in DOMAIN installs |->
                           IF installs[k].owner = c THEN [installs[k] EXCEPT !.owner = None]
                           ELSE installs[k]]
        /\ leaked' = leaked \cup {path}
        /\ UNCHANGED <<leaderVars, answer, files, registry, phase, faults>>
        /\ recv[c].pc # "idle"
    BY <1>8 DEF Drop
  <2>2. path \in Paths
    <3>1. recv[c].name \in NameSpace
      BY <1>0, <2>1 DEF Bounded, Within, Handlers
    <3> QED
      BY <3>1 DEF PartPath, FinalPath, Paths
  <2> HIDE DEF path
  <2>3. installs' \in Seq(Installations)
    <3>1. installs' \in [1 .. Len(installs) -> Installations]
      BY <2>1, InstallsType DEF Installations
    <3> QED
      BY <3>1, InstallsType
  <2>4. recv' \in [Calls -> Handlers] /\ wire' \in [Calls -> Wires]
    BY <2>1, IdleTypes DEF TypeInv
  <2> QED
    BY <1>f, <2>1, <2>2, <2>3, <2>4 DEF TypeInv, leaderVars
<1> QED
  BY <1>1, <1>2, <1>3, <1>4, <1>5, <1>6, <1>7, <1>8 DEF Handler, HandlerStep
\* The state machine and the process keep the types.
LEMMA FollowerTypes ==
    ASSUME TypeInv, BuildSnapshot \/ Install \/ Crash \/ Restart
    PROVE  TypeInv'
<1>0. FilesType /\ installs \in Seq(Installations) /\ latest \in Snaps
  BY DEF TypeInv
<1>f. ASSUME files' = files PROVE FilesType'
  BY <1>0, <1>f DEF FilesType
<1>1. CASE BuildSnapshot
  <2>1. latest' \in Snaps
    BY <1>0, <1>1, IdleTypes DEF BuildSnapshot, Snaps
  <2> QED
    BY <1>1, <1>f, <2>1 DEF BuildSnapshot, TypeInv, followerVars
<1>2. CASE InstallSkipped
  <2>1. Tail(installs) \in Seq(Installations)
    BY <1>2, InstallsType DEF InstallSkipped
  <2> QED
    BY <1>2, <1>f, <2>1 DEF InstallSkipped, TypeInv, leaderVars
<1>3. CASE InstallCopy
  <2> DEFINE i == Head(installs)
             copy == FinalPath(FreshName(i.snap))
  <2>1. /\ installs # <<>> /\ Exists(i.file) /\ files' = Written(copy, files[i.file])
        /\ installs' = [installs EXCEPT ![1].copy = copy]
        /\ UNCHANGED <<leaderVars, wire, recv, answer, registry, phase, leaked, faults>>
    BY <1>3 DEF InstallCopy
  <2>2. i = installs[1] /\ i \in Installations /\ 1 \in 1 .. Len(installs)
    BY <2>1, InstallsType
  <2>3. copy \in Paths
    <3>1. FreshName(i.snap) \in NameSpace
      BY <2>2, FreshNameIsFresh DEF Installations
    <3> QED
      BY <3>1 DEF FinalPath, Paths
  <2>4. files[i.file] \in Seq(Bytes)
    BY <1>0, <2>1 DEF FilesType, Exists
  <2> HIDE DEF copy
  <2>5. FilesType'
    BY <1>0, <2>1, <2>3, <2>4, WrittenFiles
  <2>6. installs' \in Seq(Installations)
    <3>1. [installs[1] EXCEPT !.copy = copy] \in Installations
      BY <2>2, <2>3 DEF Installations
    <3>2. installs' = [installs EXCEPT ![1] = [installs[1] EXCEPT !.copy = copy]]
      BY <2>1
    <3> QED
      BY <1>0, <2>2, <3>1, <3>2, ExceptSeq
  <2> QED
    BY <2>1, <2>5, <2>6 DEF TypeInv, leaderVars
<1>4. CASE InstallRegister
  <2> DEFINE i == Head(installs)
  <2>1. /\ installs # <<>> /\ i.copy # None
        /\ registry' = [snap |-> i.snap, file |-> i.copy]
        /\ files' = files \/ files' = Gone({registry.file})
        /\ installs' = Tail(installs)
        /\ UNCHANGED <<leaderVars, wire, recv, answer, phase, leaked, faults>>
    BY <1>4 DEF InstallRegister
  <2>2. i \in Installations /\ Tail(installs) \in Seq(Installations)
    BY <2>1, InstallsType
  <2>3. registry' \in [snap : Snaps, file : Paths]
    BY <2>1, <2>2 DEF Installations
  <2>4. FilesType'
    BY <1>0, <1>f, <2>1, GoneFiles
  <2> QED
    BY <2>1, <2>2, <2>3, <2>4 DEF TypeInv, leaderVars
<1>5. CASE Crash
  <2>1. wire' \in [Calls -> Wires]
    <3>1. [frames |-> <<>>, body |-> "cut"] \in Wires
      BY DEF Wires
    <3> QED
      BY <1>5, <3>1 DEF Crash, TypeInv
  <2>2. faults' \in 0 .. MaxFaults
    BY <1>5, TransferAssumption DEF Crash, TypeInv
  <2>3. recv' \in [Calls -> Handlers]
    BY <1>5, IdleTypes DEF Crash
  <2>4. installs' \in Seq(Installations)
    BY <1>5 DEF Crash
  <2>5. phase' = "down" /\ UNCHANGED <<leaderVars, answer, files, registry, leaked>>
    BY <1>5 DEF Crash
  <2> QED
    BY <1>f, <2>1, <2>2, <2>3, <2>4, <2>5 DEF TypeInv, leaderVars
<1>6. CASE Restart
  <2>1. FilesType'
    <3>1. Keeps \in SUBSET DOMAIN files /\ files' = [p \in Keeps |-> files[p]]
      BY <1>6 DEF Restart, Keeps
    <3> HIDE DEF Keeps
    <3> QED
      BY <1>0, <3>1, KeptFiles
  <2>2. /\ phase' = "up" /\ leaked' = {}
        /\ UNCHANGED <<leaderVars, wire, recv, answer, registry, installs, faults>>
    BY <1>6 DEF Restart
  <2> QED
    BY <2>1, <2>2 DEF TypeInv, leaderVars
<1> QED
  BY <1>1, <1>2, <1>3, <1>4, <1>5, <1>6 DEF Install
-----------------------------------------------------------------------------
(* One call, one snapshot *)

\* A step of one call leaves the others as they are.
LEMMA OtherCalls ==
    ASSUME Bounded, CallInv, NEW c \in Calls, latest \in Snaps, latest' = latest,
           \A d \in Calls \ {c} : sender'[d] = sender[d] /\ wire'[d] = wire[d] /\ recv'[d] = recv[d],
           \E x \in 1 .. latest : About(c, x)', Within(c)'
    PROVE  CallInv' /\ Bounded'
<1>1. ASSUME NEW d \in Calls \ {c} PROVE Within(d)' /\ \E x \in 1 .. latest : About(d, x)'
  <2>1. PICK x \in 1 .. latest : About(d, x)
    BY <1>1 DEF CallInv
  <2>2. About(d, x)'
    BY <1>1, <2>1 DEF About
  <2>3. Within(d)
    BY <1>1 DEF Bounded
  <2> QED
    BY <1>1, <2>2, <2>3 DEF Within
<1> QED
  BY <1>1 DEF CallInv, Bounded

\* What the leader and the transport do to a call.
LEMMA SenderCall ==
    ASSUME TypeInv, Bounded, CallInv, NEW c \in Calls, Sender(c) \/ Transport(c)
    PROVE  CallInv' /\ Bounded'
<1>0. /\ sender \in [Calls -> Senders] /\ wire \in [Calls -> Wires] /\ latest \in Snaps
      /\ latest \in Nat /\ latest >= 1 /\ ChunkBytes \in Nat \ {0}
  BY IdleTypes, TransferAssumption DEF TypeInv, Snaps
<1>1. latest' = latest /\ recv' = recv
  BY DEF Sender, Emit, Transport, Open, Read, ReadTooLarge, ReadEof, Answered, Cancel, Cutoff,
         LoseFrame, DamageChunk, leaderVars, followerVars
<1>2. \A d \in Calls \ {c} : sender'[d] = sender[d] /\ wire'[d] = wire[d]
  BY <1>0 DEF Sender, Emit, Transport, Open, Read, ReadTooLarge, ReadEof, Answered, Cancel, Cutoff,
         LoseFrame, DamageChunk, leaderVars
<1> SUFFICES (\E x \in 1 .. latest : About(c, x)') /\ Within(c)'
  BY <1>0, <1>1, <1>2, OtherCalls
<1>3. Within(c) /\ sender[c] \in Senders /\ wire[c] \in Wires
  BY <1>0 DEF Bounded
<1>i. IdleSender.snap <= latest /\ Len(IdleSender.carry) < ChunkBytes /\ IdleSender.pc = "idle"
  BY <1>0 DEF IdleSender
<1>4. PICK x \in 1 .. latest : About(c, x)
  BY DEF CallInv
<1>5. /\ \A k \in 1 .. Len(wire[c].frames) : FrameOf(wire[c].frames[k], x)
      /\ SenderOf(sender[c], x) /\ HandlerOf(recv[c], x)
  BY <1>4 DEF About
\* The sender goes idle and the frames stay.
<1>s. ASSUME sender'[c] = IdleSender, wire'[c].frames = wire[c].frames
      PROVE  About(c, x)' /\ Within(c)'
  BY <1>1, <1>3, <1>5, <1>i, <1>s DEF About, SenderOf, Within
<1>6. CASE Open(c)
  <2>1. /\ sender'[c] = [IdleSender EXCEPT !.pc = "sending", !.snap = latest]
        /\ wire'[c].frames = <<Header(latest)>> /\ recv[c].pc = "idle"
    BY <1>0, <1>6 DEF Open
  <2>2. SenderOf(sender'[c], latest)
    <3>1. SubSeq(Payload(latest), 1, 0) = <<>>
      OBVIOUS
    <3>2. Size[latest] \in Nat
      BY <1>0, PayloadType
    <3>3. sender'[c].pos = 0 /\ sender'[c].sent = <<>> /\ sender'[c].carry = <<>> /\ sender'[c].snap = latest
      BY <2>1 DEF IdleSender
    <3> QED
      BY <3>1, <3>2, <3>3 DEF SenderOf
  <2>3. \A k \in 1 .. Len(<<Header(latest)>>) : FrameOf(<<Header(latest)>>[k], latest)
    BY DEF FrameOf, Header
  <2>4. HandlerOf(recv[c], latest)
    BY <2>1 DEF HandlerOf
  <2>5. PICK y \in 1 .. latest : y = latest
    BY <1>0
  <2>6. Within(c)'
    BY <1>0, <1>1, <1>3, <2>1 DEF Within, IdleSender
  <2>7. About(c, y)'
    <3>1. /\ \A k \in 1 .. Len(wire'[c].frames) : FrameOf(wire'[c].frames[k], y)
          /\ SenderOf(sender'[c], y) /\ HandlerOf(recv'[c], y)
      BY <1>1, <2>1, <2>2, <2>3, <2>4, <2>5
    <3> QED
      BY <3>1 DEF About
  <2> QED
    BY <2>6, <2>7
<1>7. ASSUME NEW n \in 1 .. ReadBytes, Read(c, n) PROVE About(c, x)' /\ Within(c)'
  <2> DEFINE s == sender[c]
             bytes == s.carry \o SubSeq(Payload(s.snap), s.pos + 1, s.pos + n)
             more == Chunks(s.seq, bytes)
  <2>1. n \in Nat /\ s.pc = "sending" /\ s.pos + n <= Size[s.snap]
    <3>1. n \in Nat
      BY TransferAssumption
    <3>2. Polled(c) /\ s.pos + n <= Size[s.snap]
      BY <1>7 DEF Read
    <3> QED
      BY <3>1, <3>2 DEF Polled
  <2>2. /\ bytes \in Seq(Bytes)
        /\ (s.sent \o Full(bytes)) \o Rest(bytes) = SubSeq(Payload(s.snap), 1, s.pos + n)
    BY <2>1, ReadType
  <2>3. /\ sender'[c] = [s EXCEPT !.pos = s.pos + n, !.carry = Rest(bytes),
                                  !.seq = s.seq + Cut(bytes), !.sent = s.sent \o Full(bytes)]
        /\ wire'[c].frames = wire[c].frames \o more
    BY <1>0, <1>7 DEF Read, Wires
  <2>4. more \in Seq(Frames) /\ \A k \in 1 .. Len(more) : more[k].kind = "chunk"
    BY <1>3, <2>2, ChunksType DEF Senders
  <2>5. Len(Rest(bytes)) < ChunkBytes
    BY <2>2, CutWhole
  <2> HIDE DEF bytes, more
  <2>6. s.snap = x
    BY <1>5, <2>1 DEF SenderOf
  <2>7. SenderOf(sender'[c], x)
    <3>1. /\ sender'[c].pc = s.pc /\ sender'[c].snap = s.snap /\ sender'[c].pos = s.pos + n
          /\ sender'[c].sent = s.sent \o Full(bytes) /\ sender'[c].carry = Rest(bytes)
      BY <1>3, <2>3 DEF Senders
    <3> QED
      BY <2>1, <2>2, <2>6, <3>1 DEF SenderOf
  <2>8. \A k \in 1 .. Len(wire'[c].frames) : FrameOf(wire'[c].frames[k], x)
    <3> DEFINE old == wire[c].frames
    <3>1. /\ Len(old \o more) = Len(old) + Len(more)
          /\ \A k \in 1 .. Len(old) + Len(more) :
                (old \o more)[k] = IF k <= Len(old) THEN old[k] ELSE more[k - Len(old)]
      BY <2>4, FramesType, ConcatProperties
    <3>2. \A k \in 1 .. Len(more) : FrameOf(more[k], x)
      BY <2>4 DEF FrameOf
    <3>3. Len(old) \in Nat /\ Len(more) \in Nat /\ \A k \in 1 .. Len(old) : FrameOf(old[k], x)
      BY <1>5, <2>4, FramesType, LenProperties
    <3> HIDE DEF old
    <3>4. \A k \in 1 .. Len(old \o more) : FrameOf((old \o more)[k], x)
      BY <3>1, <3>2, <3>3
    <3> QED
      BY <2>3, <3>4 DEF old
  <2>9. Within(c)'
    BY <1>1, <1>3, <2>3, <2>5 DEF Within, Senders
  <2> QED
    BY <1>1, <1>5, <2>7, <2>8, <2>9 DEF About
<1>8. ASSUME NEW n \in 1 .. ReadBytes, ReadTooLarge(c, n) PROVE About(c, x)' /\ Within(c)'
  BY <1>0, <1>8, <1>s DEF ReadTooLarge, Wires
<1>9. CASE ReadEof(c)
  <2> DEFINE s == sender[c]
             last == IF s.carry = <<>> THEN <<>> ELSE <<Chunk(s.seq + 1, s.carry)>>
             more == Append(last, End(s.sent \o s.carry))
  <2>1. s.pc = "sending" /\ s.pos = Size[s.snap]
    BY <1>9 DEF ReadEof, Polled
  <2>2. /\ sender'[c] = [s EXCEPT !.pc = "waiting"]
        /\ wire'[c].frames = wire[c].frames \o more
    BY <1>0, <1>9 DEF ReadEof, Wires
  <2>3. s.snap = x /\ s.sent \o s.carry = SubSeq(Payload(x), 1, s.pos)
    BY <1>5, <2>1 DEF SenderOf
  <2>4. s.sent \o s.carry = Payload(x)
    <3>1. x \in Snaps
      BY <1>0 DEF Snaps
    <3> QED
      BY <2>1, <2>3, <3>1, PayloadType, SubSeqFull
  <2>5. last \in Seq(Frames) /\ \A k \in 1 .. Len(last) : last[k].kind = "chunk"
    <3>1. Chunk(s.seq + 1, s.carry) \in Frames /\ Chunk(s.seq + 1, s.carry).kind = "chunk"
      BY <1>3 DEF Senders, Chunk, Frames
    <3> QED
      BY <3>1
  <2>6. End(s.sent \o s.carry) \in Frames /\ FrameOf(End(s.sent \o s.carry), x)
    <3>1. Payload(x) \in Seq(Bytes)
      BY <1>0, PayloadType DEF Snaps
    <3>2. Len(Payload(x)) \in Nat
      BY <3>1, LenProperties
    <3> QED
      BY <2>4, <3>1, <3>2 DEF End, FrameOf, EndFrames, Frames
  <2> HIDE DEF last
  <2>7. more \in Seq(Frames) /\ \A k \in 1 .. Len(more) : FrameOf(more[k], x)
    <3>1. more \in Seq(Frames) /\ Len(more) = Len(last) + 1 /\ Len(last) \in Nat
          /\ more[Len(last) + 1] = End(s.sent \o s.carry)
          /\ \A k \in 1 .. Len(last) : more[k] = last[k]
      BY <2>5, <2>6
    <3> HIDE DEF more
    <3>2. \A k \in 1 .. Len(last) : FrameOf(last[k], x)
      BY <2>5 DEF FrameOf
    <3> QED
      BY <2>6, <3>1, <3>2
  <2> HIDE DEF more
  <2>8. \A k \in 1 .. Len(wire'[c].frames) : FrameOf(wire'[c].frames[k], x)
    <3> DEFINE old == wire[c].frames
    <3>1. /\ Len(old \o more) = Len(old) + Len(more)
          /\ \A k \in 1 .. Len(old) + Len(more) :
                (old \o more)[k] = IF k <= Len(old) THEN old[k] ELSE more[k - Len(old)]
      BY <2>7, FramesType, ConcatProperties
    <3>3. Len(old) \in Nat /\ Len(more) \in Nat /\ \A k \in 1 .. Len(old) : FrameOf(old[k], x)
      BY <1>5, <2>7, FramesType, LenProperties
    <3> HIDE DEF old
    <3>4. \A k \in 1 .. Len(old \o more) : FrameOf((old \o more)[k], x)
      BY <2>7, <3>1, <3>3
    <3> QED
      BY <2>2, <3>4 DEF old
  <2>9. sender'[c].pc = "waiting" /\ sender'[c].snap = s.snap /\ sender'[c].carry = s.carry
    BY <1>3, <2>2 DEF Senders
  <2> QED
    BY <1>1, <1>3, <1>5, <2>3, <2>8, <2>9 DEF About, SenderOf, Within
<1>10. CASE Answered(c)
  BY <1>0, <1>10, <1>s DEF Answered
<1>11. CASE Cancel(c)
  BY <1>0, <1>11, <1>s DEF Cancel, Wires
<1>12. CASE Cutoff(c)
  BY <1>0, <1>12, <1>s DEF Cutoff
<1>13. ASSUME NEW k \in DOMAIN wire[c].frames, LoseFrame(c, k) PROVE About(c, x)' /\ Within(c)'
  <2> DEFINE old == wire[c].frames
  <2>1. sender' = sender /\ wire'[c].frames = Without(old, k)
    BY <1>0, <1>13 DEF LoseFrame, leaderVars, Wires
  <2>2. /\ Len(old) \in Nat /\ k \in 1 .. Len(old) /\ Len(Without(old, k)) = Len(old) - 1
        /\ \A j \in 1 .. Len(old) - 1 : Without(old, k)[j] = IF j < k THEN old[j] ELSE old[j + 1]
    BY <1>13, FramesType, WithoutType, ZenonT(30)
  <2> HIDE DEF old
  <2>3. \A j \in 1 .. Len(Without(old, k)) : FrameOf(Without(old, k)[j], x)
    <3>1. \A j \in 1 .. Len(old) : FrameOf(old[j], x)
      BY <1>5 DEF old
    <3> QED
      BY <2>2, <3>1
  <2> QED
    BY <1>1, <1>3, <1>5, <2>1, <2>3 DEF About, Within
<1>14. ASSUME NEW k \in DOMAIN wire[c].frames, DamageChunk(c, k) PROVE About(c, x)' /\ Within(c)'
  <2> DEFINE old == wire[c].frames
             g == [old[k] EXCEPT !.data[1] = Damaged]
  <2>1. sender' = sender /\ wire'[c].frames = [old EXCEPT ![k] = g]
    BY <1>0, <1>14 DEF DamageChunk, leaderVars, Wires
  <2>2. /\ old \in Seq(Frames) /\ k \in 1 .. Len(old) /\ old[k] \in Frames /\ old[k].kind = "chunk"
    BY <1>14, FramesType DEF DamageChunk
  <2>3. g \in Frames /\ g.kind = "chunk"
    BY <2>2, DamageType
  <2> HIDE DEF old, g
  <2>4. \A j \in 1 .. Len(old) : FrameOf(old[j], x)
    BY <1>5 DEF old
  <2>5. /\ Len([old EXCEPT ![k] = g]) = Len(old)
        /\ \A j \in 1 .. Len(old) : [old EXCEPT ![k] = g][j] = IF j = k THEN g ELSE old[j]
    BY <2>2, <2>3, ExceptSeq
  <2>6. FrameOf(g, x)
    BY <2>3 DEF FrameOf
  <2>7. \A j \in 1 .. Len(wire'[c].frames) : FrameOf(wire'[c].frames[j], x)
    BY <2>1, <2>4, <2>5, <2>6
  <2> QED
    BY <1>1, <1>3, <1>5, <2>1, <2>7 DEF About, Within
<1> QED
  BY <1>4, <1>6, <1>7, <1>8, <1>9, <1>10, <1>11, <1>12, <1>13, <1>14 DEF Sender, Emit, Transport
\* What a handler does to its call.
LEMMA HandlerCall ==
    ASSUME TypeInv, Bounded, CallInv, NEW c \in Calls, Handler(c)
    PROVE  CallInv' /\ Bounded'
<1>0. /\ recv \in [Calls -> Handlers] /\ wire \in [Calls -> Wires] /\ latest \in Snaps
      /\ latest \in Nat /\ latest >= 1
  BY IdleTypes DEF TypeInv, Snaps
<1>1. latest' = latest /\ sender' = sender
  BY DEF Handler, HandlerStep, RecvHeader, RecvChunk, RecvEnd, RecvFails, Finalize, Respond,
         WriteFails, Drop, leaderVars
<1>2. \A d \in Calls \ {c} : recv'[d] = recv[d] /\ wire'[d] = wire[d]
  BY <1>0 DEF Handler, HandlerStep, RecvHeader, RecvChunk, RecvEnd, RecvFails, Finalize, Respond,
         WriteFails, Drop, Fail, Taken
<1> SUFFICES (\E x \in 1 .. latest : About(c, x)') /\ Within(c)'
  BY <1>0, <1>1, <1>2, OtherCalls
<1>3. Within(c) /\ recv[c] \in Handlers /\ wire[c] \in Wires
  BY <1>0 DEF Bounded
<1>4. PICK x \in 1 .. latest : About(c, x)
  BY DEF CallInv
<1>5. /\ \A k \in 1 .. Len(wire[c].frames) : FrameOf(wire[c].frames[k], x)
      /\ SenderOf(sender[c], x) /\ HandlerOf(recv[c], x)
  BY <1>4 DEF About
\* The handler is done with the call.
<1>s. ASSUME recv'[c] = IdleHandler, wire'[c] = Quiet \/ wire'[c] = wire[c]
      PROVE  About(c, x)' /\ Within(c)'
  <2>1. \A k \in 1 .. Len(wire'[c].frames) : FrameOf(wire'[c].frames[k], x)
    BY <1>5, <1>s DEF Quiet
  <2>2. HandlerOf(recv'[c], x)
    BY <1>s DEF HandlerOf, IdleHandler
  <2> QED
    BY <1>0, <1>1, <1>3, <1>5, <1>s, <2>1, <2>2 DEF About, Within, IdleHandler
\* A frame is taken from the wire.
<1>t. ASSUME wire[c].frames # <<>>, Taken(c)
      PROVE  /\ FrameOf(Frame(c), x)
             /\ \A k \in 1 .. Len(wire'[c].frames) : FrameOf(wire'[c].frames[k], x)
  <2>1. wire'[c].frames = Tail(wire[c].frames)
    BY <1>0, <1>t DEF Taken, Wires
  <2> QED
    BY <1>5, <1>t, <2>1, FramesType, SMTT(30)
<1>6. CASE RecvHeader(c)
  <2>1. /\ wire[c].frames # <<>> /\ Frame(c).kind = "header" /\ Taken(c)
        /\ recv'[c] = [IdleHandler EXCEPT !.pc = "reading", !.snap = Frame(c).snap,
                                          !.name = FreshName(Frame(c).snap)]
    BY <1>0, <1>6 DEF RecvHeader, Reading
  <2>2. Frame(c).snap = x
    BY <1>t, <2>1 DEF FrameOf
  <2>3. recv'[c].pc = "reading" /\ recv'[c].snap = x /\ recv'[c].end = None
        /\ recv'[c].name = FreshName(Frame(c).snap)
    BY <2>1, <2>2 DEF IdleHandler
  <2>4. recv'[c].name # None
    <3>1. Frame(c).snap \in Snaps
      BY <2>1, FramesType, FrameParts
    <3> QED
      BY <2>3, <3>1, FreshNameIsFresh, NoneAssumption
  <2> QED
    BY <1>0, <1>1, <1>3, <1>5, <1>t, <2>1, <2>3, <2>4 DEF About, HandlerOf, Within
<1>7. CASE RecvChunk(c)
  <2>1. /\ wire[c].frames # <<>> /\ Taken(c)
        /\ recv'[c].pc = recv[c].pc /\ recv'[c].snap = recv[c].snap /\ recv'[c].end = recv[c].end
        /\ recv'[c].name = recv[c].name
    BY <1>0, <1>3, <1>7 DEF RecvChunk, Reading, Handlers
  <2> QED
    BY <1>1, <1>3, <1>5, <1>t, <2>1 DEF About, HandlerOf, Within
<1>8. CASE RecvEnd(c)
  <2>1. /\ wire[c].frames # <<>> /\ Taken(c) /\ Frame(c).kind = "end"
        /\ recv'[c].pc = recv[c].pc /\ recv'[c].snap = recv[c].snap /\ recv'[c].end = Frame(c)
        /\ recv'[c].name = recv[c].name
    BY <1>0, <1>3, <1>8 DEF RecvEnd, Reading, Handlers
  <2>2. Frame(c).crc = Payload(x)
    BY <1>t, <2>1 DEF FrameOf
  <2> QED
    BY <1>1, <1>3, <1>5, <1>t, <2>1, <2>2 DEF About, HandlerOf, Within
<1>9. CASE RecvFails(c) \/ WriteFails(c)
  BY <1>0, <1>9, <1>s DEF RecvFails, WriteFails, Fail
<1>10. CASE Finalize(c)
  <2>1. /\ wire' = wire /\ recv[c].pc = "reading"
        /\ recv'[c].pc = "installing" /\ recv'[c].snap = recv[c].snap /\ recv'[c].end = recv[c].end
        /\ recv'[c].name = recv[c].name
    BY <1>0, <1>3, <1>10 DEF Finalize, BodyRead, Handlers
  <2> QED
    BY <1>1, <1>3, <1>5, <2>1 DEF About, HandlerOf, Within
<1>11. CASE Respond(c)
  BY <1>0, <1>11, <1>s DEF Respond
<1>12. CASE Drop(c)
  BY <1>0, <1>12, <1>s DEF Drop
<1> QED
  BY <1>4, <1>6, <1>7, <1>8, <1>9, <1>10, <1>11, <1>12 DEF Handler, HandlerStep

\* The steps of the leader's and the follower's state machines
LEMMA FollowerCall ==
    ASSUME TypeInv, Bounded, CallInv, BuildSnapshot \/ Install \/ Crash \/ Restart
    PROVE  CallInv' /\ Bounded'
<1>0. latest \in Nat /\ latest >= 1 /\ latest' \in Nat /\ latest <= latest'
  BY IdleTypes DEF TypeInv, Snaps, BuildSnapshot, Install, InstallSkipped, InstallCopy,
       InstallRegister, Crash, Restart, leaderVars
<1>1. sender' = sender
  BY DEF BuildSnapshot, Install, InstallSkipped, InstallCopy, InstallRegister, Crash, Restart,
         leaderVars
<1>2. CASE Crash
  <2> SUFFICES ASSUME NEW c \in Calls
               PROVE  (\E x \in 1 .. latest' : About(c, x)') /\ Within(c)'
    BY DEF CallInv, Bounded
  <2>1. PICK x \in 1 .. latest : About(c, x)
    BY DEF CallInv
  <2>2. recv'[c] = IdleHandler /\ (wire'[c] = wire[c] \/ wire'[c].frames = <<>>)
    BY <1>2 DEF Crash
  <2>3. \A k \in 1 .. Len(wire'[c].frames) : FrameOf(wire'[c].frames[k], x)
    BY <2>1, <2>2 DEF About
  <2>4. About(c, x)' /\ x \in 1 .. latest'
    BY <1>0, <1>1, <2>1, <2>2, <2>3 DEF About, HandlerOf, IdleHandler
  <2>5. Within(c) /\ sender[c].snap \in Nat
    BY DEF Bounded, TypeInv, Senders
  <2> QED
    BY <1>0, <1>1, <2>2, <2>4, <2>5 DEF Within, IdleHandler
<1>3. CASE ~Crash
  <2>1. recv' = recv /\ wire' = wire
    BY <1>3 DEF BuildSnapshot, Install, InstallSkipped, InstallCopy, InstallRegister, Restart,
                followerVars
  <2> SUFFICES ASSUME NEW c \in Calls
               PROVE  (\E x \in 1 .. latest' : About(c, x)') /\ Within(c)'
    BY DEF CallInv, Bounded
  <2>2. PICK x \in 1 .. latest : About(c, x)
    BY DEF CallInv
  <2>3. About(c, x)' /\ x \in 1 .. latest'
    BY <1>0, <1>1, <2>1, <2>2 DEF About
  <2>4. Within(c) /\ sender[c].snap \in Nat /\ recv[c].snap \in Nat
    BY DEF Bounded, TypeInv, Senders, Handlers
  <2> QED
    BY <1>0, <1>1, <2>1, <2>3, <2>4 DEF Within
<1> QED
  BY <1>2, <1>3

CallState == TypeInv /\ Bounded /\ CallInv

LEMMA InitCallState == Init => CallState
<1> SUFFICES ASSUME Init PROVE CallState
  OBVIOUS
<1>1. FilesType
  <2>1. DOMAIN files = {} /\ files \in [{} -> Seq(Bytes)]
    BY DEF Init
  <2> QED
    BY <2>1, FS_EmptySet DEF FilesType
<1>2. TypeInv
  BY <1>1, IdleTypes, TransferAssumption DEF Init, TypeInv, Snaps
<1>3. ASSUME NEW c \in Calls PROVE Within(c) /\ About(c, 1) /\ 1 \in 1 .. latest
  BY TransferAssumption DEF Init, Within, About, IdleSender, IdleHandler, Quiet, SenderOf, HandlerOf
<1> QED
  BY <1>2, <1>3 DEF CallState, Bounded, CallInv

LEMMA NextCallState == CallState /\ [Next]_vars => CallState'
<1> SUFFICES ASSUME CallState, [Next]_vars PROVE CallState'
  OBVIOUS
<1>0. TypeInv /\ Bounded /\ CallInv
  BY DEF CallState
<1>1. CASE BuildSnapshot \/ Install \/ Crash \/ Restart
  BY <1>0, <1>1, FollowerTypes, FollowerCall DEF CallState
<1>2. ASSUME NEW c \in Calls, Sender(c) \/ Transport(c) PROVE CallState'
  BY <1>0, <1>2, SenderTypes, SenderCall DEF CallState
<1>3. ASSUME NEW c \in Calls, Handler(c) PROVE CallState'
  BY <1>0, <1>3, HandlerTypes, HandlerCall DEF CallState
<1>4. CASE UNCHANGED vars
  <2>1. TypeInv'
    BY <1>0, <1>4 DEF vars, TypeInv, FilesType
  <2>2. Bounded' /\ CallInv'
    BY <1>0, <1>4 DEF vars, Bounded, Within, CallInv, About
  <2> QED
    BY <2>1, <2>2 DEF CallState
<1> QED
  BY <1>1, <1>2, <1>3, <1>4 DEF Next

\* Every variable keeps its type through every fault of the transfer.
THEOREM TransferTypeOK == Spec => []TypeOK
<1>1. CallState => TypeOK
  <2> SUFFICES ASSUME TypeInv, Bounded PROVE TypeOK
    BY DEF CallState
  <2>1. /\ latest \in Snaps /\ acked \in [Calls -> 0 .. Len(Size)]
        /\ phase \in {"up", "down"} /\ leaked \subseteq Paths /\ faults \in 0 .. MaxFaults
        /\ \A p \in DOMAIN files : p \in Paths /\ files[p] \in Seq(Bytes)
        /\ registry = None \/ (registry.snap \in Snaps /\ registry.file \in Paths)
    BY DEF TypeInv, FilesType
  <2>2. \A k \in DOMAIN installs : installs[k].owner \in Calls \cup {None}
    BY InstallsType DEF Installations
  <2>3. ASSUME NEW c \in Calls
        PROVE  /\ sender[c].pc \in {"idle", "sending", "waiting"} /\ sender[c].snap \in 0 .. latest
               /\ sender[c].carry \in Seq(Bytes) /\ Len(sender[c].carry) < ChunkBytes
               /\ recv[c].pc \in {"idle", "reading", "installing"} /\ recv[c].snap \in 0 .. latest
               /\ recv[c].pc # "idle" => FinalPath(recv[c].name) \in Paths
               /\ wire[c].body \in {"none", "open", "ended", "cut"}
               /\ answer[c] \in {None, "ok", "error"}
    <3>1. sender[c] \in Senders /\ recv[c] \in Handlers /\ wire[c] \in Wires
          /\ answer[c] \in {None, "ok", "error"} /\ Within(c) /\ latest \in Nat
      BY IdleTypes DEF TypeInv, Bounded, Snaps
    <3>2. sender[c].snap \in 0 .. latest /\ recv[c].snap \in 0 .. latest
      BY <3>1, IdleTypes, SMTT(30) DEF Within, Senders, Handlers
    <3>3. recv[c].pc # "idle" => FinalPath(recv[c].name) \in Paths
      BY <3>1 DEF Within, Handlers, FinalPath, Paths
    <3> QED
      BY <3>1, <3>2, <3>3 DEF Within, Senders, Handlers, Wires
  <2> QED
    BY <2>1, <2>2, <2>3 DEF TypeOK
<1> QED
  BY <1>1, InitCallState, NextCallState, PTL DEF Spec
-----------------------------------------------------------------------------
(* Whose a path is *)

LEMMA PathFacts ==
    /\ \A m, n : PartPath(m) # FinalPath(n)
    /\ \A m, n : PartPath(m) = PartPath(n) => m = n
    /\ \A m, n : FinalPath(m) = FinalPath(n) => m = n
    /\ \A n : PartPath(n).name = n /\ FinalPath(n).name = n
    /\ \A n : PartPath(n).part = TRUE /\ FinalPath(n).part = FALSE
BY DEF PartPath, FinalPath

LEMMA FileFacts ==
    ASSUME CallState
    PROVE  /\ recv \in [Calls -> Handlers] /\ FilesType
           /\ \A c \in Calls : Busy(c) => recv[c].name \in NameSpace
           /\ \A c \in Calls : ~Busy(c) => recv[c].name = None
           /\ \A p \in DOMAIN files : p \in Paths /\ p.name \in NameSpace
           /\ \A k \in 1 .. Len(installs) :
                /\ installs[k] \in Installations
                /\ installs[k].file \in Paths /\ installs[k].file.name \in NameSpace
           /\ registry # None => registry \in [snap : Snaps, file : Paths] /\ registry.file.name \in NameSpace
<1>0. TypeInv /\ Bounded
  BY DEF CallState
<1>1. recv \in [Calls -> Handlers] /\ FilesType
  BY <1>0 DEF TypeInv
<1>2. \A c \in Calls : (Busy(c) => recv[c].name \in NameSpace) /\ (~Busy(c) => recv[c].name = None)
  BY <1>0, <1>1 DEF Bounded, Within, Busy, Handlers
<1>3. \A p \in DOMAIN files : p \in Paths /\ p.name \in NameSpace
  BY <1>1 DEF FilesType, Paths
<1>4. \A k \in 1 .. Len(installs) :
        /\ installs[k] \in Installations
        /\ installs[k].file \in Paths /\ installs[k].file.name \in NameSpace
  BY <1>0, InstallsType DEF Installations, Paths
<1>5. registry # None => registry \in [snap : Snaps, file : Paths] /\ registry.file.name \in NameSpace
  BY <1>0 DEF TypeInv, Paths
<1> QED
  BY <1>1, <1>2, <1>3, <1>4, <1>5

LEMMA FreshFacts ==
    ASSUME TypeInv, NEW i \in Snaps
    PROVE  /\ FreshName(i) \in NameSpace
           /\ \A p \in DOMAIN files : p.name # FreshName(i)
           /\ \A c \in Calls : recv[c].name # FreshName(i)
           /\ \A k \in 1 .. Len(installs) : installs[k].file.name # FreshName(i)
<1>1. FreshName(i) \in NameSpace /\ FreshName(i) \notin Names
  BY FreshNameIsFresh
<1>2. DOMAIN installs = 1 .. Len(installs)
  BY InstallsType
<1> QED
  BY <1>1, <1>2 DEF Names

LEMMA HeaderFiles ==
    ASSUME CallState, FileInv, NEW c \in Calls, RecvHeader(c)
    PROVE  FileInv'
<1> DEFINE n == FreshName(Frame(c).snap)
<1>0. TypeInv
  BY DEF CallState
<1>1. /\ wire[c].frames # <<>> /\ Frame(c).kind = "header" /\ phase = "up" /\ recv[c].pc = "idle"
      /\ recv' = [recv EXCEPT ![c] = [IdleHandler EXCEPT
                     !.pc = "reading", !.snap = Frame(c).snap, !.name = n]]
      /\ files' = Written(PartPath(n), <<>>)
      /\ installs' = installs /\ registry' = registry /\ phase' = phase
  BY DEF RecvHeader, Reading
<1>2. Frame(c).snap \in Snaps
  BY <1>0, <1>1, FramesType, FrameParts
<1>3. /\ n \in NameSpace /\ \A p \in DOMAIN files : p.name # n
      /\ \A d \in Calls : recv[d].name # n
      /\ \A k \in 1 .. Len(installs) : installs[k].file.name # n
  BY <1>0, <1>2, FreshFacts
<1> HIDE DEF n
<1>4. /\ recv'[c].pc = "reading" /\ recv'[c].name = n /\ recv'[c].seen = <<>>
      /\ \A d \in Calls \ {c} : recv'[d] = recv[d]
  BY <1>0, <1>1 DEF TypeInv, IdleHandler
<1>5. /\ DOMAIN files' = DOMAIN files \cup {PartPath(n)} /\ files'[PartPath(n)] = <<>>
      /\ \A p \in DOMAIN files : p # PartPath(n) /\ files'[p] = files[p]
  <2>1. PartPath(n) \in Paths /\ <<>> \in Seq(Bytes) /\ FilesType
    BY <1>0, <1>3 DEF TypeInv, Paths, PartPath
  <2>2. \A p \in DOMAIN files : p # PartPath(n)
    BY <1>3, PathFacts
  <2> QED
    BY <1>1, <2>1, <2>2, WrittenFiles
<1>6. HandlersOwn'
  <2>1. \A d, e \in Calls : Busy(d)' /\ Busy(e)' /\ recv'[d].name = recv'[e].name => d = e
    BY <1>3, <1>4 DEF FileInv, HandlersOwn, Busy
  <2>2. \A d \in Calls : recv'[d].pc = "reading" =>
          /\ PartPath(recv'[d].name) \in DOMAIN files' /\ files'[PartPath(recv'[d].name)] = recv'[d].seen
          /\ FinalPath(recv'[d].name) \notin DOMAIN files'
    <3> TAKE d \in Calls
    <3>1. CASE d = c
      BY <1>3, <1>4, <1>5, <3>1, PathFacts
    <3>2. CASE d # c
      BY <1>4, <1>5, <3>2, PathFacts DEF FileInv, HandlersOwn, Exists, Part, Final
    <3> QED
      BY <3>1, <3>2
  <2> QED
    BY <2>1, <2>2 DEF HandlersOwn, Exists, Part, Final
<1>7. InstallsWhole'
  <2> SUFFICES ASSUME NEW k \in 1 .. Len(installs)
               PROVE  Whole(installs[k])'
    BY <1>1 DEF InstallsWhole, FileInv
  <2>1. Whole(installs[k]) /\ installs[k] \in Installations
    BY FileFacts DEF FileInv, InstallsWhole
  <2>2. installs[k].owner # None => installs[k].owner \in Calls \ {c}
    BY <1>1, <2>1 DEF Whole, Installations
  <2> QED
    BY <1>1, <1>4, <1>5, <2>1, <2>2 DEF Whole, Exists, Final, Installed
<1>8. InstalledWhole'
  BY <1>1, <1>5 DEF InstalledWhole, Exists, FileInv
<1>9. CopiesOwn'
  <2>1. ASSUME NEW p \in DOMAIN files, Apart(p) PROVE Apart(p)'
    BY <1>1, <1>3, <1>4, <2>1 DEF Apart
  <2> QED
    BY <1>1, <2>1 DEF CopiesOwn, FileInv, InstallsWhole, Whole, InstalledWhole, Exists
<1>10. OwnersKnown' /\ DownIdle'
  BY <1>1, <1>3, <1>4 DEF OwnersKnown, DownIdle, FileInv
<1> QED
  BY <1>6, <1>7, <1>8, <1>9, <1>10 DEF FileInv
LEMMA ChunkFiles ==
    ASSUME CallState, FileInv, NEW c \in Calls, RecvChunk(c) \/ RecvEnd(c)
    PROVE  FileInv'
<1>0. TypeInv /\ recv[c] \in Handlers /\ recv \in [Calls -> Handlers]
  BY DEF CallState, TypeInv
<1>1. /\ recv'[c].pc = recv[c].pc /\ recv'[c].name = recv[c].name /\ recv'[c].snap = recv[c].snap
      /\ recv[c].pc = "reading"
      /\ \A d \in Calls \ {c} : recv'[d] = recv[d]
      /\ installs' = installs /\ registry' = registry /\ phase' = phase
  BY <1>0 DEF RecvChunk, RecvEnd, Handlers
<1>2. /\ DOMAIN files' = DOMAIN files
      /\ files'[Part(c)] = recv'[c].seen
      /\ \A p \in DOMAIN files \ {Part(c)} : files'[p] = files[p]
  <2>1. Part(c) \in DOMAIN files /\ files[Part(c)] = recv[c].seen
    BY <1>1 DEF FileInv, HandlersOwn, Exists
  <2>2. CASE RecvEnd(c)
    BY <1>0, <2>1, <2>2 DEF RecvEnd, Handlers
  <2>3. CASE RecvChunk(c)
    <3>1. /\ files' = Written(Part(c), files[Part(c)] \o Frame(c).data)
          /\ recv'[c].seen = recv[c].seen \o Frame(c).data
      BY <1>0, <2>1, <2>3 DEF RecvChunk, Part, Exists, Handlers
    <3>2. DOMAIN files' = DOMAIN files \cup {Part(c)} /\ files'[Part(c)] = files[Part(c)] \o Frame(c).data
          /\ \A p \in DOMAIN files \ {Part(c)} : files'[p] = files[p]
      BY <3>1 DEF Written
    <3> QED
      BY <2>1, <3>1, <3>2
  <2> QED
    BY <2>2, <2>3
<1>3. \A p \in DOMAIN files : ~p.part => files'[p] = files[p]
  BY <1>2, PathFacts DEF Part
<1>4. HandlersOwn'
  <2>1. \A d, e \in Calls : Busy(d)' /\ Busy(e)' /\ recv'[d].name = recv'[e].name => d = e
    BY <1>1 DEF FileInv, HandlersOwn, Busy
  <2>2. \A d \in Calls : recv'[d].pc = "reading" =>
          /\ PartPath(recv'[d].name) \in DOMAIN files' /\ files'[PartPath(recv'[d].name)] = recv'[d].seen
          /\ FinalPath(recv'[d].name) \notin DOMAIN files'
    <3> TAKE d \in Calls
    <3>1. CASE d = c
      BY <1>1, <1>2, <3>1 DEF FileInv, HandlersOwn, Exists, Part, Final
    <3>2. CASE d # c
      <4>1. recv'[d].pc = "reading" => PartPath(recv[d].name) # Part(c)
        BY <1>1, <3>2, PathFacts DEF FileInv, HandlersOwn, Busy, Part
      <4> QED
        BY <1>1, <1>2, <3>2, <4>1 DEF FileInv, HandlersOwn, Exists, Part, Final
    <3> QED
      BY <3>1, <3>2
  <2> QED
    BY <2>1, <2>2 DEF HandlersOwn, Exists, Part, Final
<1>5. InstallsWhole'
  <2> SUFFICES ASSUME NEW k \in 1 .. Len(installs)
               PROVE  Whole(installs[k])'
    BY <1>1 DEF InstallsWhole, FileInv
  <2>1. Whole(installs[k]) /\ installs[k] \in Installations
    BY FileFacts DEF FileInv, InstallsWhole
  <2>2. installs[k].owner # None => installs[k].owner \in Calls \ {c}
    BY <1>1, <2>1 DEF Whole, Installations
  <2> QED
    BY <1>1, <1>2, <1>3, <2>1, <2>2 DEF Whole, Exists, Final, Installed
<1>6. InstalledWhole'
  BY <1>1, <1>2, <1>3 DEF InstalledWhole, Exists, FileInv, CopiesOwn
<1>7. CopiesOwn'
  <2>1. ASSUME NEW p, Apart(p) PROVE Apart(p)'
    BY <1>1, <2>1 DEF Apart
  <2> QED
    BY <1>1, <2>1 DEF CopiesOwn, FileInv
<1>8. OwnersKnown' /\ DownIdle'
  BY <1>1 DEF OwnersKnown, DownIdle, FileInv, Busy
<1> QED
  BY <1>4, <1>5, <1>6, <1>7, <1>8 DEF FileInv

\* A handler that ends, and the path it takes away, if any.
LEMMA EndFiles ==
    ASSUME CallState, FileInv, NEW c \in Calls, recv' = [recv EXCEPT ![c] = IdleHandler],
           registry' = registry, phase' = phase, phase = "up",
           NEW D \in SUBSET DOMAIN files, DOMAIN files' = D, \A p \in D : files'[p] = files[p],
           \A p \in DOMAIN files \ D : p.name = recv[c].name,
           Len(installs') = Len(installs),
           \A k \in 1 .. Len(installs) :
              /\ installs'[k].file = installs[k].file /\ installs'[k].copy = installs[k].copy
              /\ installs'[k].snap = installs[k].snap
              /\ installs[k].owner # c => installs'[k].owner = installs[k].owner
              /\ installs[k].owner = c => installs'[k].owner = None /\ D = DOMAIN files
    PROVE  FileInv'
<1>1. recv'[c] = IdleHandler /\ \A d \in Calls \ {c} : recv'[d] = recv[d]
  BY FileFacts
<1>2. recv'[c].pc = "idle" /\ recv'[c].name = None
  BY <1>1 DEF IdleHandler
<1>3. HandlersOwn'
  <2>1. \A d, e \in Calls : Busy(d)' /\ Busy(e)' /\ recv'[d].name = recv'[e].name => d = e
    BY <1>1, <1>2 DEF FileInv, HandlersOwn, Busy
  <2>2. \A d \in Calls : recv'[d].pc = "reading" =>
          /\ PartPath(recv'[d].name) \in DOMAIN files' /\ files'[PartPath(recv'[d].name)] = recv'[d].seen
          /\ FinalPath(recv'[d].name) \notin DOMAIN files'
    <3> SUFFICES ASSUME NEW d \in Calls \ {c}, recv[d].pc = "reading"
                 PROVE  /\ Part(d) \in D /\ files'[Part(d)] = recv[d].seen /\ Final(d) \notin D
      BY <1>1, <1>2 DEF Part, Final
    <3>1. recv[d].name # recv[c].name
      <4>1. CASE Busy(c)
        BY <4>1 DEF FileInv, HandlersOwn, Busy
      <4>2. CASE ~Busy(c)
        BY <4>2, FileFacts, NoneAssumption DEF Busy
      <4> QED
        BY <4>1, <4>2
    <3>2. Part(d) \in DOMAIN files /\ files[Part(d)] = recv[d].seen /\ Final(d) \notin DOMAIN files
      BY DEF FileInv, HandlersOwn, Exists
    <3>3. Part(d).name = recv[d].name
      BY PathFacts DEF Part
    <3> QED
      BY <3>1, <3>2, <3>3
  <2> QED
    BY <2>1, <2>2 DEF HandlersOwn, Exists, Part, Final
<1>4. InstallsWhole'
  <2> SUFFICES ASSUME NEW k \in 1 .. Len(installs)
               PROVE  Whole(installs[k])' /\ (installs'[k].copy # None => k = 1)
    BY DEF InstallsWhole
  <2>1. Whole(installs[k]) /\ installs[k] \in Installations /\ (installs[k].copy # None => k = 1)
    BY FileFacts DEF FileInv, InstallsWhole
  <2>2. installs[k].file \in D /\ (installs[k].copy # None => installs[k].copy \in D)
    <3>1. installs[k].file \in DOMAIN files /\ (installs[k].copy # None => installs[k].copy \in DOMAIN files)
      BY <2>1 DEF Whole, Exists
    <3>2. installs[k].file.name = recv[c].name => D = DOMAIN files
      BY DEF FileInv, OwnersKnown
    <3>3. installs[k].copy # None => installs[k].copy.name # recv[c].name
      BY DEF FileInv, CopiesOwn, Apart
    <3> QED
      BY <3>1, <3>2, <3>3
  <2>3. installs'[k].owner # None =>
          /\ installs'[k].owner = installs[k].owner /\ installs[k].owner \in Calls \ {c}
    BY <2>1 DEF Installations
  <2> QED
    BY <1>1, <2>1, <2>2, <2>3 DEF Whole, Exists, Final, Installed
<1>5. InstalledWhole'
  BY DEF InstalledWhole, Exists, FileInv, CopiesOwn, Apart
<1>6. CopiesOwn'
  <2>1. ASSUME NEW p, p.name \in NameSpace, Apart(p) PROVE Apart(p)'
    BY <1>1, <1>2, <2>1, NoneAssumption DEF Apart
  <2>2. \A k \in 1 .. Len(installs) : installs[k].copy # None => installs[k].copy.name \in NameSpace
    BY FileFacts DEF FileInv, InstallsWhole, Whole, Exists
  <2> QED
    BY <2>1, <2>2, FileFacts DEF CopiesOwn, FileInv
<1>7. OwnersKnown'
  <2> SUFFICES ASSUME NEW k \in 1 .. Len(installs), NEW d \in Calls,
                      installs[k].file.name = recv'[d].name
               PROVE  installs'[k].owner = d
    BY DEF OwnersKnown
  <2>1. d # c
    BY <1>2, FileFacts, NoneAssumption
  <2> QED
    BY <1>1, <2>1 DEF FileInv, OwnersKnown
<1>8. DownIdle'
  BY DEF DownIdle
<1> QED
  BY <1>3, <1>4, <1>5, <1>6, <1>7, <1>8 DEF FileInv

LEMMA FailFiles ==
    ASSUME CallState, FileInv, NEW c \in Calls, RecvFails(c) \/ WriteFails(c)
    PROVE  FileInv'
<1>1. /\ recv' = [recv EXCEPT ![c] = IdleHandler] /\ recv[c].pc # "installing"
      /\ files' = Gone({Part(c)})
      /\ registry' = registry /\ installs' = installs /\ phase' = phase /\ phase = "up"
  BY DEF RecvFails, WriteFails, Fail, Part
<1> DEFINE D == DOMAIN files \ {Part(c)}
<1>2. /\ D \in SUBSET DOMAIN files /\ DOMAIN files' = D /\ \A p \in D : files'[p] = files[p]
      /\ \A p \in DOMAIN files \ D : p.name = recv[c].name
  BY <1>1, PathFacts DEF Gone, Part
<1>3. \A k \in 1 .. Len(installs) : installs[k].owner # c
  BY <1>1, NoneAssumption DEF FileInv, InstallsWhole, Whole
<1> HIDE DEF D
<1>4. /\ Len(installs') = Len(installs)
      /\ \A k \in 1 .. Len(installs) :
            /\ installs'[k].file = installs[k].file /\ installs'[k].copy = installs[k].copy
            /\ installs'[k].snap = installs[k].snap
            /\ installs[k].owner # c => installs'[k].owner = installs[k].owner
            /\ installs[k].owner = c => installs'[k].owner = None /\ D = DOMAIN files
  BY <1>1, <1>3
<1> QED
  BY <1>1, <1>2, <1>4, EndFiles, ZenonT(30)

LEMMA RespondFiles ==
    ASSUME CallState, FileInv, NEW c \in Calls, Respond(c)
    PROVE  FileInv'
<1>1. /\ recv' = [recv EXCEPT ![c] = IdleHandler]
      /\ files' = Gone({Final(c)})
      /\ registry' = registry /\ installs' = installs /\ phase' = phase /\ phase = "up"
      /\ \A k \in DOMAIN installs : installs[k].owner # c
  BY DEF Respond, MayRespond, Final
<1> DEFINE D == DOMAIN files \ {Final(c)}
<1>2. /\ D \in SUBSET DOMAIN files /\ DOMAIN files' = D /\ \A p \in D : files'[p] = files[p]
      /\ \A p \in DOMAIN files \ D : p.name = recv[c].name
  BY <1>1, PathFacts DEF Gone, Final
<1>3. \A k \in 1 .. Len(installs) : installs[k].owner # c
  BY <1>1, InstallsType DEF CallState
<1> HIDE DEF D
<1>4. /\ Len(installs') = Len(installs)
      /\ \A k \in 1 .. Len(installs) :
            /\ installs'[k].file = installs[k].file /\ installs'[k].copy = installs[k].copy
            /\ installs'[k].snap = installs[k].snap
            /\ installs[k].owner # c => installs'[k].owner = installs[k].owner
            /\ installs[k].owner = c => installs'[k].owner = None /\ D = DOMAIN files
  BY <1>1, <1>3
<1> QED
  BY <1>1, <1>2, <1>4, EndFiles, ZenonT(30)

LEMMA DropFiles ==
    ASSUME CallState, FileInv, NEW c \in Calls, Drop(c)
    PROVE  FileInv'
<1>1. /\ recv' = [recv EXCEPT ![c] = IdleHandler] /\ files' = files
      /\ registry' = registry /\ phase' = phase /\ phase = "up"
      /\ installs' = [k \in DOMAIN installs |->
                         IF installs[k].owner = c THEN [installs[k] EXCEPT !.owner = None]
                         ELSE installs[k]]
  BY DEF Drop
<1>2. /\ Len(installs') = Len(installs)
      /\ \A k \in 1 .. Len(installs) :
            installs'[k] = IF installs[k].owner = c THEN [installs[k] EXCEPT !.owner = None]
                           ELSE installs[k]
  <2>1. DOMAIN installs = 1 .. Len(installs) /\ Len(installs) \in Nat
    BY InstallsType DEF CallState
  <2> QED
    BY <1>1, <2>1
<1>3. \A k \in 1 .. Len(installs) :
        /\ installs'[k].file = installs[k].file /\ installs'[k].copy = installs[k].copy
        /\ installs'[k].snap = installs[k].snap
        /\ installs[k].owner # c => installs'[k].owner = installs[k].owner
        /\ installs[k].owner = c => installs'[k].owner = None /\ DOMAIN files = DOMAIN files
  BY <1>2, FileFacts DEF Installations
<1>4. /\ DOMAIN files \in SUBSET DOMAIN files /\ DOMAIN files' = DOMAIN files
      /\ \A p \in DOMAIN files : files'[p] = files[p]
      /\ \A p \in DOMAIN files \ DOMAIN files : p.name = recv[c].name
  BY <1>1
<1> QED
  BY <1>1, <1>2, <1>3, <1>4, EndFiles, ZenonT(30)

LEMMA FinalizeFiles ==
    ASSUME CallState, FileInv, NEW c \in Calls, Finalize(c)
    PROVE  FileInv'
<1> DEFINE new == [snap |-> recv[c].snap, file |-> Final(c), owner |-> c, copy |-> None]
<1>0. TypeInv /\ recv[c] \in Handlers /\ recv \in [Calls -> Handlers] /\ installs \in Seq(Installations)
      /\ Len(installs) \in Nat
  BY InstallsType DEF CallState, TypeInv
<1>1. /\ files' = [p \in (DOMAIN files \ {Part(c)}) \cup {Final(c)} |->
                      IF p = Final(c) THEN files[Part(c)] ELSE files[p]]
      /\ recv' = [recv EXCEPT ![c].pc = "installing"]
      /\ installs' = Append(installs, new)
      /\ registry' = registry /\ phase' = phase /\ phase = "up"
      /\ recv[c].pc = "reading" /\ Checks(c)
  BY DEF Finalize, Part, Final, BodyRead
<1>2. /\ recv'[c].pc = "installing" /\ recv'[c].name = recv[c].name /\ recv'[c].snap = recv[c].snap
      /\ \A d \in Calls \ {c} : recv'[d] = recv[d]
  BY <1>0, <1>1 DEF Handlers
<1>3. /\ DOMAIN files' = (DOMAIN files \ {Part(c)}) \cup {Final(c)}
      /\ files'[Final(c)] = files[Part(c)]
      /\ \A p \in DOMAIN files \ {Part(c)} : p # Final(c) /\ files'[p] = files[p]
  <2>1. Final(c) \notin DOMAIN files
    BY <1>1 DEF FileInv, HandlersOwn, Exists
  <2> QED
    BY <1>1, <2>1
<1>4. files[Part(c)] = Payload(recv[c].snap)
  <2>1. PICK x \in 1 .. latest : About(c, x)
    BY DEF CallState, CallInv
  <2>2. recv[c].snap = x /\ recv[c].end.crc = Payload(x) /\ recv[c].end.crc = recv[c].seen
    BY <1>1, <2>1 DEF About, HandlerOf, Checks
  <2> QED
    BY <1>1, <2>2 DEF FileInv, HandlersOwn
<1>5. /\ Len(installs') = Len(installs) + 1 /\ installs'[Len(installs) + 1] = new
      /\ \A k \in 1 .. Len(installs) : installs'[k] = installs[k]
      /\ 1 .. Len(installs') = 1 .. Len(installs) \cup {Len(installs) + 1}
  <2> HIDE DEF new
  <2> QED
    BY <1>0, <1>1
<1>6. /\ new.snap = recv[c].snap /\ new.file = Final(c) /\ new.owner = c /\ new.copy = None
      /\ new.file.name = recv[c].name
  BY PathFacts DEF Final
<1> HIDE DEF new
<1>7. HandlersOwn'
  <2>1. \A d, e \in Calls : Busy(d)' /\ Busy(e)' /\ recv'[d].name = recv'[e].name => d = e
    BY <1>1, <1>2 DEF FileInv, HandlersOwn, Busy
  <2>2. \A d \in Calls : recv'[d].pc = "reading" =>
          /\ PartPath(recv'[d].name) \in DOMAIN files' /\ files'[PartPath(recv'[d].name)] = recv'[d].seen
          /\ FinalPath(recv'[d].name) \notin DOMAIN files'
    <3> SUFFICES ASSUME NEW d \in Calls \ {c}, recv[d].pc = "reading"
                 PROVE  /\ Part(d) \in DOMAIN files' /\ files'[Part(d)] = recv[d].seen
                        /\ Final(d) \notin DOMAIN files'
      BY <1>2 DEF Part, Final
    <3>1. recv[d].name # recv[c].name
      BY <1>1 DEF FileInv, HandlersOwn, Busy
    <3>2. Part(d) \in DOMAIN files /\ files[Part(d)] = recv[d].seen /\ Final(d) \notin DOMAIN files
      BY DEF FileInv, HandlersOwn, Exists
    <3>3. Part(d) # Part(c) /\ Final(d) # Final(c)
      BY <3>1, PathFacts DEF Part, Final
    <3> QED
      BY <1>3, <3>2, <3>3
  <2> QED
    BY <2>1, <2>2 DEF HandlersOwn, Exists, Part, Final
<1>8. InstallsWhole'
  <2>1. ASSUME NEW k \in 1 .. Len(installs)
        PROVE  Whole(installs[k])' /\ (installs'[k].copy # None => k = 1)
    <3>1. Whole(installs[k]) /\ installs[k] \in Installations /\ (installs[k].copy # None => k = 1)
      BY <2>1, FileFacts DEF FileInv, InstallsWhole
    <3>2. installs[k].owner # None => installs[k].owner \in Calls \ {c}
      BY <1>1, <3>1 DEF Whole, Installations
    <3>3. \A p \in DOMAIN files : ~p.part => p \in DOMAIN files' /\ files'[p] = files[p]
      BY <1>3, PathFacts DEF Part
    <3> QED
      BY <1>1, <1>2, <1>5, <3>1, <3>2, <3>3, ZenonT(30) DEF Whole, Exists, Final, Installed
  <2>2. /\ new.file \in DOMAIN files' /\ files'[new.file] = Payload(new.snap) /\ ~new.file.part
        /\ recv'[c].pc = "installing" /\ new.file = FinalPath(recv'[c].name)
        /\ new.snap = recv'[c].snap
    BY <1>2, <1>3, <1>4, <1>6, PathFacts DEF Final
  <2> PICK m \in Nat : m = Len(installs) + 1
    BY <1>0
  <2>3. Whole(installs[m])' /\ installs'[m].copy = None
    BY <1>5, <1>6, <2>2 DEF Whole, Exists, Final
  <2> QED
    BY <1>5, <2>1, <2>3 DEF InstallsWhole
<1>9. InstalledWhole'
  BY <1>1, <1>3, PathFacts DEF InstalledWhole, Exists, FileInv, CopiesOwn, Part
<1>10. CopiesOwn'
  <2>1. ASSUME NEW p, Apart(p) PROVE Apart(p)'
    BY <1>2, <1>5, <1>6, <2>1 DEF Apart
  <2> QED
    BY <1>1, <1>5, <1>6, <2>1 DEF CopiesOwn, FileInv
<1>11. OwnersKnown'
  <2>1. ASSUME NEW d \in Calls, recv'[d].name = recv[c].name PROVE d = c
    <3>1. recv[c].name \in NameSpace /\ recv[d].name = recv[c].name
      BY <1>1, <1>2, <2>1, FileFacts DEF Busy
    <3>2. Busy(d) /\ Busy(c)
      BY <1>1, <3>1, FileFacts, NoneAssumption DEF Busy
    <3> QED
      BY <3>1, <3>2 DEF FileInv, HandlersOwn
  <2>2. \A d \in Calls : recv'[d].name = recv[d].name
    BY <1>2
  <2>3. \A k \in 1 .. Len(installs) : \A d \in Calls :
          installs'[k].file.name = recv'[d].name => installs'[k].owner = d
    BY <1>5, <2>2 DEF FileInv, OwnersKnown
  <2>4. \A d \in Calls : installs'[Len(installs) + 1].file.name = recv'[d].name =>
          installs'[Len(installs) + 1].owner = d
    BY <1>5, <1>6, <2>1
  <2> QED
    BY <1>5, <2>3, <2>4 DEF OwnersKnown
<1>12. DownIdle'
  BY <1>1 DEF DownIdle
<1> QED
  BY <1>7, <1>8, <1>9, <1>10, <1>11, <1>12 DEF FileInv
LEMMA SkippedFiles ==
    ASSUME CallState, FileInv, InstallSkipped
    PROVE  FileInv'
<1>1. /\ recv' = recv /\ files' = files /\ registry' = registry /\ phase' = phase /\ phase = "up"
      /\ installs # <<>> /\ installs' = Tail(installs)
  BY DEF InstallSkipped
<1>2. /\ Len(installs) \in Nat /\ Len(installs') = Len(installs) - 1
      /\ \A k \in 1 .. Len(installs') : k + 1 \in 2 .. Len(installs) /\ installs'[k] = installs[k + 1]
  BY <1>1, InstallsType DEF CallState
<1>3. ASSUME NEW k \in 1 .. Len(installs')
      PROVE  Whole(installs[k])' /\ installs'[k].copy = None
  <2>1. Whole(installs[k + 1]) /\ installs[k + 1].copy = None
    BY <1>2, <1>3 DEF FileInv, InstallsWhole
  <2> QED
    BY <1>1, <1>2, <1>3, <2>1 DEF Whole, Exists, Final, Installed
<1>4. InstallsWhole'
  BY <1>3 DEF InstallsWhole
<1>5. CopiesOwn'
  <2>1. ASSUME NEW p, Apart(p) PROVE Apart(p)'
    BY <1>1, <1>2, <2>1 DEF Apart
  <2> QED
    BY <1>1, <1>3, <2>1 DEF CopiesOwn, FileInv
<1>6. OwnersKnown'
  BY <1>1, <1>2 DEF FileInv, OwnersKnown
<1>7. HandlersOwn' /\ InstalledWhole' /\ DownIdle'
  BY <1>1 DEF FileInv, HandlersOwn, InstalledWhole, Busy, Part, Final, Exists, DownIdle
<1> QED
  BY <1>4, <1>5, <1>6, <1>7 DEF FileInv

LEMMA CopyFiles ==
    ASSUME CallState, FileInv, InstallCopy
    PROVE  FileInv'
<1> DEFINE i == installs[1]
           n == FreshName(i.snap)
           copy == FinalPath(n)
<1>0. TypeInv /\ FilesType /\ installs \in Seq(Installations)
  BY DEF CallState, TypeInv
<1>1. /\ installs # <<>> /\ Head(installs) = i /\ 1 \in 1 .. Len(installs) /\ Len(installs) \in Nat
      /\ i \in Installations /\ Whole(i) /\ i.snap \in Snaps
  <2>1. installs # <<>>
    BY DEF InstallCopy
  <2>2. /\ Head(installs) = i /\ 1 \in 1 .. Len(installs) /\ Len(installs) \in Nat /\ i \in Installations
    BY <1>0, <2>1, InstallsType
  <2> QED
    BY <2>1, <2>2 DEF FileInv, InstallsWhole, Installations
<1>2. /\ recv' = recv /\ registry' = registry /\ phase' = phase /\ phase = "up"
      /\ i.copy = None /\ i.snap > Installed
      /\ files' = Written(copy, files[i.file]) /\ installs' = [installs EXCEPT ![1].copy = copy]
  BY <1>1 DEF InstallCopy
<1>3. /\ n \in NameSpace /\ \A p \in DOMAIN files : p.name # n
      /\ \A d \in Calls : recv[d].name # n
      /\ \A k \in 1 .. Len(installs) : installs[k].file.name # n
  BY <1>0, <1>1, FreshFacts
<1>4. copy \in Paths /\ copy.name = n /\ ~copy.part /\ copy # None
  <2>1. copy \in Paths
    BY <1>3 DEF FinalPath, Paths
  <2> QED
    BY <2>1, PathFacts, NoneAssumption
<1> HIDE DEF n, copy
<1>5. files[i.file] = Payload(i.snap) /\ files[i.file] \in Seq(Bytes) /\ i.file \in DOMAIN files
  BY <1>0, <1>1 DEF Whole, Exists, FilesType
<1>6. /\ DOMAIN files' = DOMAIN files \cup {copy} /\ files'[copy] = Payload(i.snap)
      /\ \A p \in DOMAIN files : p # copy /\ files'[p] = files[p]
  BY <1>0, <1>2, <1>3, <1>4, <1>5, WrittenFiles
<1>7. /\ Len(installs') = Len(installs)
      /\ installs'[1].file = i.file /\ installs'[1].snap = i.snap /\ installs'[1].owner = i.owner
      /\ installs'[1].copy = copy
      /\ \A k \in 1 .. Len(installs) : k # 1 => installs'[k] = installs[k]
  <2>1. installs' = [installs EXCEPT ![1] = [i EXCEPT !.copy = copy]]
    BY <1>2
  <2>2. [i EXCEPT !.copy = copy] \in Installations
    BY <1>1, <1>4 DEF Installations
  <2>3. /\ Len(installs') = Len(installs) /\ installs'[1] = [i EXCEPT !.copy = copy]
        /\ \A k \in 1 .. Len(installs) : k # 1 => installs'[k] = installs[k]
    <3> DEFINE j == [i EXCEPT !.copy = copy]
    <3> HIDE DEF j
    <3>1. j \in Installations /\ installs' = [installs EXCEPT ![1] = j]
      BY <2>1, <2>2 DEF j
    <3>2. /\ Len([installs EXCEPT ![1] = j]) = Len(installs)
          /\ \A k \in 1 .. Len(installs) : [installs EXCEPT ![1] = j][k] = IF k = 1 THEN j ELSE installs[k]
      BY <1>0, <1>1, <3>1, ExceptSeq
    <3> QED
      BY <1>1, <3>1, <3>2 DEF j
  <2> QED
    BY <1>1, <2>3 DEF Installations
<1>8. InstallsWhole'
  <2> SUFFICES ASSUME NEW k \in 1 .. Len(installs)
               PROVE  Whole(installs[k])' /\ (installs'[k].copy # None => k = 1)
    BY <1>7 DEF InstallsWhole
  <2>1. Whole(installs[k]) /\ (installs[k].copy # None => k = 1)
    BY DEF FileInv, InstallsWhole
  <2>2. CASE k = 1
    BY <1>2, <1>4, <1>5, <1>6, <1>7, <2>1, <2>2 DEF Whole, Exists, Final, Installed
  <2>3. CASE k # 1
    BY <1>2, <1>6, <1>7, <2>1, <2>3 DEF Whole, Exists, Final, Installed
  <2> QED
    BY <2>2, <2>3
<1>9. HandlersOwn'
  <2>1. \A d \in Calls : FinalPath(recv[d].name) # copy /\ PartPath(recv[d].name) # copy
    BY <1>3, <1>4, PathFacts
  <2> QED
    BY <1>2, <1>6, <2>1 DEF FileInv, HandlersOwn, Busy, Part, Final, Exists
<1>10. InstalledWhole'
  BY <1>2, <1>6 DEF FileInv, InstalledWhole, Exists
<1>11. CopiesOwn'
  <2>1. \A k \in 1 .. Len(installs) : installs'[k].file = installs[k].file
    BY <1>7
  <2>2. ASSUME NEW p, Apart(p) PROVE Apart(p)'
    BY <1>2, <1>7, <2>1, <2>2 DEF Apart
  <2>3. Apart(copy)
    BY <1>3, <1>4 DEF Apart
  <2>4. registry # None => registry.file # copy
    BY <1>6 DEF FileInv, InstalledWhole, Exists
  <2>5. \A k \in 1 .. Len(installs) : k # 1 => installs'[k].copy = None
    BY <1>7 DEF FileInv, InstallsWhole
  <2>6. \A k \in 1 .. Len(installs') : installs'[k].copy # None => installs'[k].copy = copy
    BY <1>7, <2>5
  <2>7. (\A c \in Calls : recv'[c].name # copy.name)
        /\ (\A k \in 1 .. Len(installs') : installs'[k].file.name # copy.name)
    BY <1>2, <1>7, <2>1, <2>3 DEF Apart
  <2>8. \A k \in 1 .. Len(installs') : installs'[k].copy # None =>
           Apart(installs[k].copy)' /\ (registry' # None => registry'.file # installs'[k].copy)
    BY <1>2, <2>4, <2>6, <2>7 DEF Apart
  <2>9. registry' # None => Apart(registry.file)' /\ ~registry'.file.part
    BY <1>2, <1>7, <2>1 DEF Apart, FileInv, CopiesOwn
  <2> QED
    BY <2>8, <2>9 DEF CopiesOwn
<1>12. OwnersKnown' /\ DownIdle'
  BY <1>1, <1>2, <1>7 DEF FileInv, OwnersKnown, DownIdle
<1> QED
  BY <1>8, <1>9, <1>10, <1>11, <1>12 DEF FileInv

LEMMA RegisterFiles ==
    ASSUME CallState, FileInv, InstallRegister
    PROVE  FileInv'
<1> DEFINE i == installs[1]
<1>0. TypeInv
  BY DEF CallState
<1>1. /\ installs # <<>> /\ Head(installs) = i /\ 1 \in 1 .. Len(installs) /\ Len(installs) \in Nat
      /\ i \in Installations /\ Whole(i)
  <2>1. installs # <<>>
    BY DEF InstallRegister
  <2>2. /\ Head(installs) = i /\ 1 \in 1 .. Len(installs) /\ Len(installs) \in Nat /\ i \in Installations
    BY <1>0, <2>1, InstallsType
  <2> QED
    BY <2>1, <2>2 DEF FileInv, InstallsWhole
<1>2. /\ recv' = recv /\ phase' = phase /\ phase = "up" /\ i.copy # None
      /\ registry' = [snap |-> i.snap, file |-> i.copy]
      /\ files' = IF registry = None \/ registry.file = i.copy THEN files ELSE Gone({registry.file})
      /\ installs' = Tail(installs)
  BY <1>1 DEF InstallRegister
<1>3. /\ Len(installs') = Len(installs) - 1
      /\ \A k \in 1 .. Len(installs') : k + 1 \in 2 .. Len(installs) /\ installs'[k] = installs[k + 1]
  BY <1>0, <1>1, <1>2, InstallsType
<1>4. /\ DOMAIN files' \subseteq DOMAIN files /\ \A p \in DOMAIN files' : files'[p] = files[p]
      /\ \A p \in DOMAIN files : p \notin DOMAIN files' => registry # None /\ p = registry.file
  BY <1>2 DEF Gone
<1>5. Apart(i.copy) /\ (registry # None => registry.file # i.copy /\ Apart(registry.file))
  BY <1>1, <1>2 DEF FileInv, CopiesOwn
<1>6. registry' # None /\ registry'.snap = i.snap /\ registry'.file = i.copy
  <2>1. registry' \in [snap : Snaps, file : Paths]
    BY <1>1, <1>2 DEF Installations
  <2> QED
    BY <1>2, <2>1, NoneAssumption
<1>7. ASSUME NEW k \in 1 .. Len(installs')
      PROVE  Whole(installs[k])' /\ installs'[k].copy = None
  <2>1. k + 1 \in 1 .. Len(installs) /\ Whole(installs[k + 1]) /\ installs[k + 1].copy = None
    BY <1>3, <1>7 DEF FileInv, InstallsWhole
  <2>2. installs[k + 1].file \in DOMAIN files' /\ files'[installs[k + 1].file] = files[installs[k + 1].file]
    BY <1>4, <1>5, <2>1 DEF Apart, Whole, Exists
  <2> QED
    BY <1>2, <1>3, <1>7, <2>1, <2>2 DEF Whole, Exists, Final
<1>8. InstallsWhole'
  BY <1>7 DEF InstallsWhole
<1>9. HandlersOwn'
  <2>1. \A d \in Calls : Part(d) \in DOMAIN files => Part(d) \in DOMAIN files'
    BY <1>4, <1>5, PathFacts DEF Apart, Part
  <2> QED
    BY <1>2, <1>4, <2>1 DEF FileInv, HandlersOwn, Busy, Part, Final, Exists
<1>10. InstalledWhole'
  BY <1>1, <1>2, <1>4, <1>5, <1>6 DEF Whole, Exists, InstalledWhole
<1>11. CopiesOwn'
  <2>1. /\ \A c \in Calls : recv'[c].name # registry'.file.name
        /\ \A k \in 1 .. Len(installs') : installs'[k].file.name # registry'.file.name
    BY <1>2, <1>3, <1>5, <1>6 DEF Apart
  <2>2. ~registry'.file.part
    BY <1>1, <1>2, <1>6 DEF Whole
  <2> QED
    BY <1>7, <2>1, <2>2 DEF CopiesOwn, Apart
<1>12. OwnersKnown' /\ DownIdle'
  BY <1>2, <1>3 DEF FileInv, OwnersKnown, DownIdle
<1> QED
  BY <1>8, <1>9, <1>10, <1>11, <1>12 DEF FileInv
LEMMA CrashFiles ==
    ASSUME CallState, FileInv, Crash \/ Restart
    PROVE  FileInv'
<1>1. /\ registry' = registry /\ installs' = <<>> /\ Len(installs') = 0
      /\ \A c \in Calls : recv'[c].pc = "idle" /\ recv'[c].name = None
      /\ phase' = "down" \/ phase' = "up"
  <2>1. CASE Crash
    BY <2>1 DEF Crash, IdleHandler
  <2>2. CASE Restart
    BY <2>2, FileFacts DEF Restart, FileInv, DownIdle, Busy
  <2> QED
    BY <2>1, <2>2
<1>2. registry # None => registry.file \in DOMAIN files' /\ files'[registry.file] = files[registry.file]
  BY DEF Crash, Restart, Keeps, FileInv, InstalledWhole, Exists
<1>3. InstalledWhole'
  BY <1>1, <1>2 DEF FileInv, InstalledWhole, Exists
<1>4. CopiesOwn'
  <2>1. registry # None => \A c \in Calls : recv'[c].name # registry.file.name
    BY <1>1, FileFacts, NoneAssumption
  <2> QED
    BY <1>1, <2>1 DEF FileInv, CopiesOwn, Apart
<1>5. HandlersOwn' /\ InstallsWhole' /\ OwnersKnown' /\ DownIdle'
  BY <1>1 DEF HandlersOwn, InstallsWhole, OwnersKnown, DownIdle, Busy
<1> QED
  BY <1>3, <1>4, <1>5 DEF FileInv

\* Nothing of the follower changes.
LEMMA OtherFiles ==
    ASSUME FileInv, recv' = recv, files' = files, registry' = registry, installs' = installs, phase' = phase
    PROVE  FileInv'
BY DEF FileInv, HandlersOwn, InstallsWhole, Whole, CopiesOwn, Apart, OwnersKnown, DownIdle,
       InstalledWhole, Installed, Busy, Part, Final, Exists

LEMMA SenderKeeps ==
    ASSUME NEW c \in Calls, Sender(c) \/ Transport(c)
    PROVE  /\ recv' = recv /\ files' = files /\ registry' = registry /\ installs' = installs
           /\ phase' = phase /\ leaked' = leaked
BY DEF Sender, Emit, Transport, Open, Read, ReadTooLarge, ReadEof, Answered, Cancel, Cutoff,
       LoseFrame, DamageChunk, followerVars

FileState == CallState /\ FileInv

LEMMA InitFileState == Init => FileState
<1> SUFFICES ASSUME Init PROVE FileInv
  BY InitCallState DEF FileState
<1>1. \A c \in Calls : recv[c].pc = "idle"
  BY DEF Init, IdleHandler
<1>2. Len(installs) = 0 /\ registry = None /\ phase = "up" /\ installs = <<>>
  BY DEF Init
<1> QED
  BY <1>1, <1>2 DEF FileInv, HandlersOwn, InstallsWhole, CopiesOwn, OwnersKnown, DownIdle,
       InstalledWhole, Busy

LEMMA NextFileState == FileState /\ [Next]_vars => FileState'
<1> SUFFICES ASSUME FileState, [Next]_vars PROVE FileInv'
  BY NextCallState DEF FileState
<1>0. CallState /\ FileInv
  BY DEF FileState
<1>1. CASE BuildSnapshot
  BY <1>0, <1>1, OtherFiles DEF BuildSnapshot, followerVars
<1>2. CASE Install
  BY <1>0, <1>2, SkippedFiles, CopyFiles, RegisterFiles DEF Install
<1>3. CASE Crash \/ Restart
  BY <1>0, <1>3, CrashFiles
<1>4. ASSUME NEW c \in Calls, Sender(c) \/ Transport(c) PROVE FileInv'
  BY <1>0, <1>4, SenderKeeps, OtherFiles
<1>5. ASSUME NEW c \in Calls, Handler(c) PROVE FileInv'
  BY <1>0, <1>5, HeaderFiles, ChunkFiles, FailFiles, FinalizeFiles, RespondFiles, DropFiles
     DEF Handler, HandlerStep
<1>6. CASE UNCHANGED vars
  BY <1>0, <1>6, OtherFiles DEF vars
<1> QED
  BY <1>1, <1>2, <1>3, <1>4, <1>5, <1>6 DEF Next

(* The installed snapshot is on disk, whole and unaltered: no handler writes  *)
(* to, renames or removes the file that the registry names, whatever was lost *)
(* or damaged and wherever the follower crashed.                              *)
THEOREM InstalledWholeHolds == Spec => []InstalledWhole
<1>1. FileState => InstalledWhole
  BY DEF FileState, FileInv
<1> QED
  BY <1>1, InitFileState, NextFileState, PTL DEF Spec

-----------------------------------------------------------------------------
(* What is acknowledged is installed *)

\* The follower's snapshot never gets older.
LEMMA InstalledGrows ==
    ASSUME FileState, [Next]_vars
    PROVE  Installed \in Nat /\ Installed' \in Nat /\ Installed <= Installed'
<1>0. TypeInv /\ TypeInv' /\ FileInv /\ CallState
  BY NextCallState DEF FileState, CallState
<1>1. Installed \in Nat
  BY <1>0, IdleTypes DEF TypeInv, Installed, Snaps
<1>2. Installed' \in Nat
  BY <1>0, IdleTypes DEF TypeInv, Installed, Snaps
<1>3. CASE InstallRegister
  <2>1. /\ installs # <<>> /\ Head(installs) = installs[1] /\ 1 \in 1 .. Len(installs)
        /\ installs[1] \in Installations
    BY <1>0, <1>3, InstallsType DEF InstallRegister
  <2>2. installs[1].copy # None /\ registry' = [snap |-> installs[1].snap, file |-> installs[1].copy]
    BY <1>3, <2>1 DEF InstallRegister
  <2>3. installs[1].snap > Installed
    BY <1>0, <2>1, <2>2 DEF FileInv, InstallsWhole, Whole
  <2>4. registry' # None
    BY <2>1, <2>2, NoneAssumption DEF Installations
  <2>5. Installed' = installs[1].snap
    BY <2>2, <2>4 DEF Installed
  <2> QED
    BY <1>1, <1>2, <2>3, <2>5
<1>4. CASE ~InstallRegister
  <2>1. registry' = registry
    <3>1. CASE BuildSnapshot \/ Install \/ Crash \/ Restart
      BY <1>4, <3>1 DEF BuildSnapshot, Install, InstallSkipped, InstallCopy, Crash, Restart, followerVars
    <3>2. ASSUME NEW c \in Calls, Sender(c) \/ Transport(c) PROVE registry' = registry
      BY <3>2, SenderKeeps
    <3>3. ASSUME NEW c \in Calls, Handler(c) PROVE registry' = registry
      BY <3>3 DEF Handler, HandlerStep, RecvHeader, RecvChunk, RecvEnd, RecvFails,
                  Finalize, Respond, WriteFails, Drop
    <3>4. CASE UNCHANGED vars
      BY <3>4 DEF vars
    <3> QED
      BY <3>1, <3>2, <3>3, <3>4 DEF Next
  <2> QED
    BY <1>1, <2>1 DEF Installed
<1> QED
  BY <1>3, <1>4
LEMMA ReadingStays ==
    ASSUME recv \in [Calls -> Handlers], NEW c \in Calls, RecvHeader(c) \/ RecvChunk(c) \/ RecvEnd(c)
    PROVE  recv'[c].pc = "reading"
<1>1. CASE RecvHeader(c)
  BY <1>1 DEF RecvHeader, IdleHandler
<1>2. CASE RecvChunk(c)
  BY <1>2 DEF RecvChunk, Handlers
<1>3. CASE RecvEnd(c)
  BY <1>3 DEF RecvEnd, Handlers
<1> QED
  BY <1>1, <1>2, <1>3

\* Who waits is served: the steps that shorten or relabel the queue, and the rest.
LEMMA WaitersStep ==
    ASSUME FileState, WaitersServed, [Next]_vars
    PROVE  WaitersServed'
<1>0. TypeInv /\ FileInv /\ CallState
  BY DEF FileState, CallState
<1>1. Installed \in Nat /\ Installed' \in Nat /\ Installed <= Installed'
  BY InstalledGrows
<1>2. \A k \in 1 .. Len(installs) : installs[k] \in Installations /\ Whole(installs[k])
  BY <1>0, FileFacts DEF FileInv, InstallsWhole
<1>3. \A c \in Calls : recv[c] \in Handlers /\ recv[c].snap \in Nat
  BY <1>0 DEF TypeInv, Handlers
\* The head of the queue goes, and what it brings is there.
<1>h. ASSUME installs # <<>>, installs' = Tail(installs), recv' = recv, installs[1].snap <= Installed'
      PROVE  WaitersServed'
  <2> SUFFICES ASSUME NEW c \in Calls, recv[c].pc = "installing", ~(recv[c].snap <= Installed')
               PROVE  \E k \in 1 .. Len(installs') : installs'[k].owner = c
    BY <1>h DEF WaitersServed
  <2>1. PICK k \in 1 .. Len(installs) : installs[k].owner = c
    BY <1>1, <1>3 DEF WaitersServed
  <2>2. /\ Len(installs) \in Nat /\ Len(installs') = Len(installs) - 1
        /\ \A j \in 1 .. Len(installs') : installs'[j] = installs[j + 1]
    BY <1>0, <1>h, InstallsType
  <2>3. k # 1
    BY <1>2, <1>h, <2>1, NoneAssumption DEF Whole
  <2>4. k - 1 \in 1 .. Len(installs') /\ installs'[k - 1].owner = c
    BY <2>1, <2>2, <2>3
  <2> QED
    BY <2>4
\* Whoever waits after the step waited before, and is queued if it was.
<1>k. ASSUME \A c \in Calls : recv'[c].pc = "installing" =>
                recv[c].pc = "installing" /\ recv'[c].snap = recv[c].snap,
             \A c \in Calls : recv'[c].pc = "installing" =>
                \A k \in 1 .. Len(installs) : installs[k].owner = c => installs'[k].owner = c,
             Len(installs') = Len(installs) \/ \A c \in Calls : recv'[c].pc # "installing"
      PROVE  WaitersServed'
  <2> SUFFICES ASSUME NEW c \in Calls, recv'[c].pc = "installing", ~(recv[c].snap <= Installed')
               PROVE  \E k \in 1 .. Len(installs') : installs'[k].owner = c
    BY <1>k DEF WaitersServed
  <2>1. PICK k \in 1 .. Len(installs) : installs[k].owner = c
    BY <1>1, <1>3, <1>k DEF WaitersServed
  <2> QED
    BY <1>k, <2>1
<1>4. CASE BuildSnapshot \/ Restart
  BY <1>4, <1>k DEF BuildSnapshot, Restart, followerVars
<1>5. CASE Crash
  <2>1. \A c \in Calls : recv'[c].pc = "idle"
    BY <1>5 DEF Crash, IdleHandler
  <2> QED
    BY <2>1, <1>k
<1>6. CASE InstallSkipped
  BY <1>0, <1>1, <1>6, <1>h, InstallsType DEF InstallSkipped, Installed
<1>7. CASE InstallRegister
  <2>1. /\ installs # <<>> /\ Head(installs) = installs[1] /\ installs[1] \in Installations
    BY <1>0, <1>7, InstallsType DEF InstallRegister
  <2>2. registry' = [snap |-> installs[1].snap, file |-> installs[1].copy] /\ recv' = recv
        /\ installs' = Tail(installs) /\ installs[1].copy # None
    BY <1>7, <2>1 DEF InstallRegister
  <2>3. registry' # None
    BY <2>1, <2>2, NoneAssumption DEF Installations
  <2>4. Installed' = installs[1].snap
    BY <2>2, <2>3 DEF Installed
  <2> QED
    BY <1>1, <1>h, <2>1, <2>2, <2>4
<1>8. CASE InstallCopy
  <2>1. /\ recv' = recv /\ installs # <<>> /\ installs \in Seq(Installations)
        /\ installs' = [installs EXCEPT ![1].copy = FinalPath(FreshName(Head(installs).snap))]
    BY <1>0, <1>8 DEF InstallCopy, TypeInv
  <2>2. Len(installs') = Len(installs) /\ \A k \in 1 .. Len(installs) : installs'[k].owner = installs[k].owner
    <3> DEFINE p == FinalPath(FreshName(Head(installs).snap))
    <3>1. DOMAIN installs = 1 .. Len(installs) /\ Len(installs) \in Nat /\ 1 \in 1 .. Len(installs)
          /\ installs' = [installs EXCEPT ![1].copy = p]
      BY <1>0, <2>1, InstallsType
    <3> HIDE DEF p
    <3>2. DOMAIN installs' = 1 .. Len(installs) /\ \A k \in 1 .. Len(installs) : installs'[k].owner = installs[k].owner
      BY <1>2, <3>1 DEF Installations
    <3>3. installs' \in [1 .. Len(installs) -> {installs'[k] : k \in 1 .. Len(installs)}]
      BY <3>1, <3>2
    <3>4. Len(installs') = Len(installs)
      BY <3>1, <3>3
    <3> QED
      BY <3>2, <3>4
  <2> QED
    BY <1>k, <2>1, <2>2
<1>9. ASSUME NEW c \in Calls, Sender(c) \/ Transport(c) PROVE WaitersServed'
  BY <1>9, <1>k, SenderKeeps
<1>10. ASSUME NEW c \in Calls, Handler(c) PROVE WaitersServed'
  <2>0. recv \in [Calls -> Handlers] /\ IdleHandler.pc = "idle"
    BY <1>0 DEF TypeInv, IdleHandler
  <2>1. CASE RecvHeader(c) \/ RecvChunk(c) \/ RecvEnd(c)
    <3>1. \A d \in Calls : recv'[d].pc = "installing" => recv[d].pc = "installing" /\ recv'[d] = recv[d]
      <4>1. recv'[c].pc = "reading"
        BY <1>3, <2>0, <2>1, ReadingStays
      <4>2. \A d \in Calls \ {c} : recv'[d] = recv[d]
        BY <2>0, <2>1 DEF RecvHeader, RecvChunk, RecvEnd
      <4> QED
        BY <4>1, <4>2
    <3>2. installs' = installs
      BY <2>1 DEF RecvHeader, RecvChunk, RecvEnd
    <3> QED
      BY <1>k, <3>1, <3>2
  <2>2. CASE RecvFails(c) \/ WriteFails(c) \/ Respond(c)
    <3>1. recv' = [recv EXCEPT ![c] = IdleHandler] /\ installs' = installs
      BY <2>2 DEF RecvFails, WriteFails, Respond, Fail
    <3>2. \A d \in Calls : recv'[d].pc = "installing" => recv'[d] = recv[d]
      BY <2>0, <3>1
    <3> QED
      BY <1>k, <3>1, <3>2
  <2>3. CASE Drop(c)
    <3>1. /\ recv' = [recv EXCEPT ![c] = IdleHandler]
          /\ installs' = [k \in DOMAIN installs |->
                             IF installs[k].owner = c THEN [installs[k] EXCEPT !.owner = None]
                             ELSE installs[k]]
      BY <2>3 DEF Drop
    <3>2. \A d \in Calls : recv'[d].pc = "installing" => d # c /\ recv'[d] = recv[d]
      BY <2>0, <3>1
    <3>3. DOMAIN installs = 1 .. Len(installs) /\ Len(installs) \in Nat
      BY <1>0, InstallsType
    <3>4. Len(installs') = Len(installs)
      BY <3>1, <3>3
    <3>5. \A d \in Calls : d # c =>
            \A k \in 1 .. Len(installs) : installs[k].owner = d => installs'[k].owner = d
      BY <3>1, <3>3
    <3> QED
      BY <1>k, <3>2, <3>4, <3>5
  <2>4. CASE Finalize(c)
    <3> DEFINE new == [snap |-> recv[c].snap, file |-> FinalPath(recv[c].name),
                       owner |-> c, copy |-> None]
    <3>1. recv' = [recv EXCEPT ![c].pc = "installing"] /\ installs' = Append(installs, new)
      BY <2>4 DEF Finalize
    <3>2. new.owner = c
      OBVIOUS
    <3> HIDE DEF new
    <3>3. /\ Len(installs) \in Nat /\ Len(installs') = Len(installs) + 1
          /\ installs'[Len(installs) + 1] = new
          /\ \A k \in 1 .. Len(installs) : installs'[k] = installs[k]
      BY <1>0, <3>1 DEF TypeInv
    <3> SUFFICES ASSUME NEW d \in Calls, recv'[d].pc = "installing", ~(recv'[d].snap <= Installed')
                 PROVE  \E k \in 1 .. Len(installs') : installs'[k].owner = d
      BY DEF WaitersServed
    <3>4. CASE d = c
      BY <3>2, <3>3, <3>4
    <3>5. CASE d # c
      <4>1. recv'[d] = recv[d]
        BY <2>0, <3>1, <3>5
      <4>2. PICK k \in 1 .. Len(installs) : installs[k].owner = d
        BY <1>1, <1>3, <4>1 DEF WaitersServed
      <4> QED
        BY <3>3, <4>2
    <3> QED
      BY <3>4, <3>5
  <2> QED
    BY <1>10, <2>1, <2>2, <2>3, <2>4 DEF Handler, HandlerStep
<1>11. CASE UNCHANGED vars
  BY <1>11, <1>k DEF vars
<1> QED
  BY <1>4, <1>5, <1>6, <1>7, <1>8, <1>9, <1>10, <1>11 DEF Next, Install
\* An answer to a call that goes on speaks of the snapshot of that call.
LEMMA AnswersStep ==
    ASSUME FileState, WaitersServed, AnswersMean, [Next]_vars
    PROVE  AnswersMean'
<1>0. TypeInv /\ CallInv /\ CallState
  BY DEF FileState, CallState
<1>1. Installed \in Nat /\ Installed' \in Nat /\ Installed <= Installed'
  BY InstalledGrows
<1>2. /\ sender \in [Calls -> Senders] /\ answer \in [Calls -> {None, "ok", "error"}]
      /\ \A c \in Calls : sender[c] \in Senders /\ sender[c].snap \in Nat
  BY <1>0 DEF TypeInv, Senders
\* Nothing new is answered and nothing new is sent.
<1>k. ASSUME \A c \in Calls : answer'[c] # None /\ answer'[c] = "ok" => answer'[c] = answer[c],
             \A c \in Calls : sender'[c].pc # "idle" /\ answer'[c] # None =>
                sender[c].pc # "idle" /\ sender'[c].snap = sender[c].snap
      PROVE  AnswersMean'
  <2> SUFFICES ASSUME NEW c \in Calls, answer'[c] # None, answer'[c] = "ok", sender'[c].pc # "idle"
               PROVE  sender'[c].snap <= Installed'
    BY DEF AnswersMean
  <2>1. sender[c].snap <= Installed /\ sender'[c].snap = sender[c].snap
    BY <1>k DEF AnswersMean
  <2> QED
    BY <1>1, <1>2, <2>1
<1>3. CASE BuildSnapshot \/ Install \/ Crash \/ Restart
  <2>1. answer' = answer /\ sender' = sender
    BY <1>3 DEF BuildSnapshot, Install, InstallSkipped, InstallCopy, InstallRegister, Crash, Restart,
                leaderVars
  <2> QED
    BY <1>k, <2>1
<1>4. ASSUME NEW c \in Calls, Sender(c) \/ Transport(c) PROVE AnswersMean'
  <2>1. CASE Open(c)
    <3>1. answer'[c] = None /\ \A d \in Calls \ {c} : answer'[d] = answer[d] /\ sender'[d] = sender[d]
      BY <1>2, <2>1 DEF Open
    <3> QED
      BY <1>k, <3>1
  <2>2. ASSUME NEW n \in 1 .. ReadBytes, Read(c, n) PROVE AnswersMean'
    <3>1. answer' = answer /\ \A d \in Calls \ {c} : sender'[d] = sender[d]
      BY <1>2, <2>2 DEF Read
    <3>2. sender'[c].snap = sender[c].snap /\ sender[c].pc # "idle"
      BY <1>2, <2>2 DEF Read, Polled, Senders
    <3> QED
      BY <1>k, <3>1, <3>2
  <2>3. CASE ReadEof(c)
    <3>1. answer' = answer /\ \A d \in Calls \ {c} : sender'[d] = sender[d]
      BY <1>2, <2>3 DEF ReadEof
    <3>2. sender'[c].snap = sender[c].snap /\ sender[c].pc # "idle"
      BY <1>2, <2>3 DEF ReadEof, Polled, Senders
    <3> QED
      BY <1>k, <3>1, <3>2
  <2>4. CASE Answered(c) \/ Cancel(c) \/ Cutoff(c) \/ \E n \in 1 .. ReadBytes : ReadTooLarge(c, n)
    <3>1. answer' = answer /\ sender' = [sender EXCEPT ![c] = IdleSender]
      BY <2>4 DEF Answered, Cancel, Cutoff, ReadTooLarge
    <3>2. \A d \in Calls : sender'[d].pc # "idle" => sender'[d] = sender[d]
      BY <1>2, <3>1 DEF IdleSender
    <3> QED
      BY <1>k, <3>1, <3>2
  <2>5. CASE Transport(c)
    BY <1>k, <2>5 DEF Transport, LoseFrame, DamageChunk, leaderVars
  <2> QED
    BY <1>4, <2>1, <2>2, <2>3, <2>4, <2>5 DEF Sender, Emit
<1>5. ASSUME NEW c \in Calls, Handler(c) PROVE AnswersMean'
  <2>0. sender' = sender
    BY <1>5 DEF Handler, HandlerStep, RecvHeader, RecvChunk, RecvEnd, RecvFails, Finalize, Respond,
                WriteFails, Drop, leaderVars
  <2>1. CASE RecvHeader(c) \/ RecvChunk(c) \/ RecvEnd(c) \/ Finalize(c) \/ Drop(c)
    BY <1>k, <2>0, <2>1 DEF RecvHeader, RecvChunk, RecvEnd, Finalize, Drop
  <2>2. CASE RecvFails(c) \/ WriteFails(c)
    <3>1. answer' = [answer EXCEPT ![c] = "error"]
      BY <2>2 DEF RecvFails, WriteFails, Fail
    <3>2. \A d \in Calls : answer'[d] = "ok" => answer'[d] = answer[d]
      BY <1>2, <3>1
    <3> QED
      BY <1>k, <2>0, <3>2
  <2>3. CASE Respond(c)
    <3>1. /\ recv[c].pc = "installing" /\ \A k \in DOMAIN installs : installs[k].owner # c
          /\ answer' = [answer EXCEPT ![c] = "ok"]
      BY <2>3 DEF Respond, MayRespond
    <3>2. recv[c].snap <= Installed
      BY <1>0, <3>1, InstallsType DEF WaitersServed
    <3>3. sender[c].pc # "idle" => sender[c].snap = recv[c].snap
      <4>1. PICK x \in 1 .. latest : About(c, x)
        BY <1>0 DEF CallInv
      <4> QED
        BY <3>1, <4>1 DEF About, SenderOf, HandlerOf
    <3>4. Installed' = Installed
      BY <2>3 DEF Respond, Installed
    <3>5. \A d \in Calls \ {c} : answer'[d] = answer[d]
      BY <1>2, <3>1
    <3> QED
      BY <2>0, <3>2, <3>3, <3>4, <3>5 DEF AnswersMean
  <2> QED
    BY <1>5, <2>1, <2>2, <2>3 DEF Handler, HandlerStep
<1>6. CASE UNCHANGED vars
  BY <1>6, <1>k DEF vars
<1> QED
  BY <1>3, <1>4, <1>5, <1>6 DEF Next

\* What is acknowledged stays installed.
LEMMA AcksStep ==
    ASSUME FileState, AnswersMean, AckMeansInstalled, [Next]_vars
    PROVE  AckMeansInstalled'
<1>0. TypeInv
  BY DEF FileState, CallState
<1>1. Installed \in Nat /\ Installed' \in Nat /\ Installed <= Installed'
  BY InstalledGrows
<1>2. acked \in [Calls -> 0 .. Len(Size)] /\ Len(Size) \in Nat
  BY <1>0, IdleTypes DEF TypeInv
<1>k. ASSUME acked' = acked PROVE AckMeansInstalled'
  BY <1>1, <1>2, <1>k DEF AckMeansInstalled
<1>3. CASE BuildSnapshot \/ Install \/ Crash \/ Restart
  BY <1>3, <1>k DEF BuildSnapshot, Install, InstallSkipped, InstallCopy, InstallRegister, Crash, Restart,
                    leaderVars
<1>4. ASSUME NEW c \in Calls, Sender(c) \/ Transport(c) PROVE AckMeansInstalled'
  <2>1. CASE Answered(c)
    <3>1. acked' = IF answer[c] = "ok" THEN [acked EXCEPT ![c] = sender[c].snap] ELSE acked
      BY <2>1 DEF Answered
    <3>2. answer[c] = "ok" => sender[c].snap <= Installed
      BY <2>1 DEF Answered, AnswersMean
    <3>3. Installed' = Installed
      BY <1>4, SenderKeeps DEF Installed
    <3> QED
      BY <1>2, <3>1, <3>2, <3>3 DEF AckMeansInstalled
  <2>2. CASE ~Answered(c)
    BY <1>4, <1>k, <2>2 DEF Sender, Emit, Transport, Open, Read, ReadTooLarge, ReadEof, Cancel, Cutoff,
                            LoseFrame, DamageChunk, leaderVars
  <2> QED
    BY <2>1, <2>2
<1>5. ASSUME NEW c \in Calls, Handler(c) PROVE AckMeansInstalled'
  BY <1>5, <1>k DEF Handler, HandlerStep, RecvHeader, RecvChunk, RecvEnd, RecvFails, Finalize, Respond,
                    WriteFails, Drop, leaderVars
<1>6. CASE UNCHANGED vars
  BY <1>6, <1>k DEF vars
<1> QED
  BY <1>3, <1>4, <1>5, <1>6 DEF Next

(* A leader that saw a snapshot acknowledged may go on with the log from      *)
(* there: the follower has it, or a newer one.                                *)
THEOREM AckMeansInstalledHolds == Spec => []AckMeansInstalled
<1>1. Init => AckInv
  BY DEF Init, AckInv, WaitersServed, AnswersMean, AckMeansInstalled, Installed, IdleHandler, IdleSender
<1>2. FileState /\ AckInv /\ [Next]_vars => AckInv'
  BY WaitersStep, AnswersStep, AcksStep DEF AckInv
<1>3. AckInv => AckMeansInstalled
  BY DEF AckInv
<1> QED
  BY <1>1, <1>2, <1>3, InitFileState, NextFileState, PTL DEF Spec
-----------------------------------------------------------------------------
(* Nothing piles up *)

\* Somebody answers for the path.
Used(p) ==
    \/ \E c \in Calls : recv[c].pc = "reading" /\ p = Part(c)
    \/ \E c \in Calls : recv[c].pc = "installing" /\ p = Final(c)
    \/ \E k \in 1 .. Len(installs) : p = installs[k].copy
    \/ registry # None /\ p = registry.file
    \/ p \in leaked

LEMMA PilesUp ==
    ASSUME TypeInv
    PROVE  NothingPilesUp <=> (phase = "up" => \A p \in DOMAIN files : Used(p))
<1>1. DOMAIN installs = 1 .. Len(installs)
  BY InstallsType
<1>2. ASSUME NEW p PROVE p \in InUse \cup leaked <=> Used(p)
  BY <1>1 DEF InUse, Used, Part, Final
<1> QED
  BY <1>2 DEF NothingPilesUp

LEMMA PilesStep ==
    ASSUME FileState, NothingPilesUp, [Next]_vars
    PROVE  NothingPilesUp'
<1>0. TypeInv /\ TypeInv' /\ FileInv /\ CallState /\ recv \in [Calls -> Handlers]
  BY NextCallState DEF FileState, CallState, TypeInv
<1>1. phase = "up" => \A p \in DOMAIN files : Used(p)
  BY <1>0, PilesUp
<1>2. \A p \in DOMAIN files : p # None
  BY <1>0, FileFacts, NoneAssumption
<1> SUFFICES ASSUME phase' = "up" PROVE \A p \in DOMAIN files' : Used(p)'
  <2>1. installs' \in Seq(Installations)
    BY <1>0 DEF TypeInv
  <2>2. DOMAIN installs' = 1 .. Len(installs')
    BY <2>1, LenProperties
  <2>3. ASSUME NEW p PROVE Used(p)' => p \in InUse' \cup leaked'
    BY <2>2 DEF InUse, Used, Part, Final
  <2> QED
    BY <2>3 DEF NothingPilesUp
\* The steps that leave paths and users alone
<1>k. ASSUME phase' = phase, files' = files, recv' = recv, installs' = installs, registry' = registry,
             leaked' = leaked
      PROVE  \A p \in DOMAIN files' : Used(p)'
  BY <1>1, <1>k DEF Used, Part, Final
<1>3. CASE BuildSnapshot
  BY <1>3, <1>k DEF BuildSnapshot, followerVars
<1>4. CASE Crash
  BY <1>4 DEF Crash
<1>5. CASE Restart
  BY <1>5 DEF Restart, Keeps, Used
<1>6. CASE InstallSkipped
  <2>1. /\ phase = "up" /\ files' = files /\ recv' = recv /\ registry' = registry /\ leaked' = leaked
        /\ installs # <<>> /\ installs' = Tail(installs) /\ Head(installs).copy = None
    BY <1>6 DEF InstallSkipped
  <2>2. /\ Len(installs) \in Nat /\ Len(installs') = Len(installs) - 1 /\ installs[1].copy = None
        /\ \A j \in 1 .. Len(installs') : installs'[j] = installs[j + 1]
    BY <1>0, <2>1, InstallsType
  <2>3. ASSUME NEW p \in DOMAIN files, NEW k \in 1 .. Len(installs), p = installs[k].copy
        PROVE  k - 1 \in 1 .. Len(installs') /\ p = installs'[k - 1].copy
    BY <1>2, <2>2, <2>3
  <2> QED
    BY <1>1, <2>1, <2>3 DEF Used, Part, Final
<1>7. CASE InstallCopy
  <2> DEFINE copy == FinalPath(FreshName(Head(installs).snap))
  <2>1. /\ phase = "up" /\ recv' = recv /\ registry' = registry /\ leaked' = leaked
        /\ installs # <<>> /\ Head(installs).copy = None
        /\ files' = Written(copy, files[Head(installs).file])
        /\ installs' = [installs EXCEPT ![1].copy = copy]
    BY <1>7 DEF InstallCopy
  <2> HIDE DEF copy
  <2>2. /\ 1 \in 1 .. Len(installs) /\ installs[1].copy = None /\ installs[1] \in Installations
        /\ DOMAIN installs = 1 .. Len(installs) /\ Len(installs) \in Nat
        /\ \A k \in 1 .. Len(installs) : installs[k] \in Installations
    BY <1>0, <2>1, InstallsType
  <2>3. installs'[1].copy = copy /\ \A k \in 1 .. Len(installs) : k # 1 => installs'[k] = installs[k]
    BY <2>1, <2>2 DEF Installations
  <2>4. Len(installs') = Len(installs)
    <3>1. DOMAIN installs' = 1 .. Len(installs)
      BY <2>1, <2>2
    <3>2. DOMAIN installs' = 1 .. Len(installs') /\ Len(installs') \in Nat
      BY <1>0, InstallsType
    <3> QED
      BY <2>2, <3>1, <3>2
  <2>5. DOMAIN files' = DOMAIN files \cup {copy}
    BY <2>1 DEF Written
  <2>6. \A p : p = copy => Used(p)'
    BY <2>2, <2>3, <2>4 DEF Used
  <2>7. ASSUME NEW p \in DOMAIN files PROVE Used(p)'
    BY <1>1, <1>2, <2>1, <2>2, <2>3, <2>4, <2>7 DEF Used, Part, Final
  <2> QED
    BY <2>5, <2>6, <2>7
<1>8. CASE InstallRegister
  <2>1. /\ phase = "up" /\ recv' = recv /\ leaked' = leaked
        /\ installs # <<>> /\ installs' = Tail(installs) /\ Head(installs).copy # None
        /\ registry' = [snap |-> Head(installs).snap, file |-> Head(installs).copy]
        /\ files' = IF registry = None \/ registry.file = Head(installs).copy THEN files
                    ELSE Gone({registry.file})
    BY <1>8 DEF InstallRegister
  <2>2. /\ Len(installs) \in Nat /\ Len(installs') = Len(installs) - 1
        /\ Head(installs) = installs[1] /\ installs[1] \in Installations /\ 1 \in 1 .. Len(installs)
        /\ \A j \in 1 .. Len(installs') : installs'[j] = installs[j + 1]
    BY <1>0, <2>1, InstallsType
  <2>3. registry' # None /\ registry'.file = installs[1].copy
    BY <2>1, <2>2, NoneAssumption DEF Installations
  <2>4. \A p \in DOMAIN files' : p \in DOMAIN files /\ (registry # None => p # registry.file \/ p = installs[1].copy)
    BY <2>1, <2>2 DEF Gone
  <2>5. ASSUME NEW p \in DOMAIN files, NEW k \in 1 .. Len(installs), p = installs[k].copy, k # 1
        PROVE  k - 1 \in 1 .. Len(installs') /\ p = installs'[k - 1].copy
    BY <2>2, <2>5
  <2>6. ASSUME NEW p \in DOMAIN files' PROVE Used(p)'
    <3>1. Used(p)
      BY <1>1, <2>1, <2>4
    <3>2. CASE p = installs[1].copy
      BY <2>3, <3>2 DEF Used
    <3>3. ASSUME NEW k \in 1 .. Len(installs), p = installs[k].copy, k # 1 PROVE Used(p)'
      BY <2>4, <2>5, <3>3 DEF Used
    <3>4. CASE registry # None /\ p = registry.file
      BY <2>4, <3>2, <3>4
    <3>5. CASE \/ \E c \in Calls : recv[c].pc = "reading" /\ p = Part(c)
               \/ \E c \in Calls : recv[c].pc = "installing" /\ p = Final(c)
               \/ p \in leaked
      BY <2>1, <3>5 DEF Used, Part, Final
    <3> QED
      BY <3>1, <3>2, <3>3, <3>4, <3>5 DEF Used
  <2> QED
    BY <2>6
<1>9. ASSUME NEW c \in Calls, Sender(c) \/ Transport(c) PROVE \A p \in DOMAIN files' : Used(p)'
  BY <1>9, <1>k, SenderKeeps
<1>10. ASSUME NEW c \in Calls, Handler(c) PROVE \A p \in DOMAIN files' : Used(p)'
  <2>0. phase = "up"
    BY <1>10 DEF Handler, HandlerStep, RecvHeader, RecvChunk, RecvEnd, RecvFails, Finalize, Respond,
                 WriteFails, Drop, Reading
  <2>1. CASE RecvHeader(c)
    <3> DEFINE n == FreshName(Frame(c).snap)
    <3>1. /\ recv' = [recv EXCEPT ![c] = [IdleHandler EXCEPT
                         !.pc = "reading", !.snap = Frame(c).snap, !.name = n]]
          /\ files' = Written(PartPath(n), <<>>) /\ recv[c].pc = "idle"
          /\ installs' = installs /\ registry' = registry /\ leaked' = leaked
      BY <2>1 DEF RecvHeader
    <3> HIDE DEF n
    <3>2. recv'[c].pc = "reading" /\ recv'[c].name = n /\ \A d \in Calls \ {c} : recv'[d] = recv[d]
      BY <1>0, <3>1 DEF IdleHandler
    <3>3. DOMAIN files' = DOMAIN files \cup {PartPath(n)}
      BY <3>1 DEF Written
    <3>4. \A p \in DOMAIN files : Used(p)'
      BY <1>1, <2>0, <3>1, <3>2 DEF Used, Part, Final
    <3>5. \A p : p = PartPath(n) => Used(p)'
      BY <3>2 DEF Used, Part
    <3> QED
      BY <3>3, <3>4, <3>5
  <2>2. CASE RecvChunk(c) \/ RecvEnd(c)
    <3>1. installs' = installs /\ registry' = registry /\ leaked' = leaked /\ recv[c].pc = "reading"
      BY <2>2 DEF RecvChunk, RecvEnd
    <3>2. recv'[c].pc = "reading" /\ recv'[c].name = recv[c].name /\ \A d \in Calls \ {c} : recv'[d] = recv[d]
      <4>1. CASE RecvChunk(c)
        BY <1>0, <3>1, <4>1 DEF RecvChunk, Handlers
      <4>2. CASE RecvEnd(c)
        BY <1>0, <3>1, <4>2 DEF RecvEnd, Handlers
      <4> QED
        BY <2>2, <4>1, <4>2
    <3>3. DOMAIN files' = DOMAIN files
      BY <2>2 DEF RecvChunk, RecvEnd, Written, Exists
    <3>4. \A d \in Calls : recv'[d].pc = recv[d].pc /\ recv'[d].name = recv[d].name
      BY <3>1, <3>2
    <3> QED
      BY <1>1, <2>0, <3>1, <3>3, <3>4 DEF Used, Part, Final
  <2>3. CASE RecvFails(c) \/ WriteFails(c)
    <3>1. /\ recv' = [recv EXCEPT ![c] = IdleHandler] /\ files' = Gone({Part(c)})
          /\ installs' = installs /\ registry' = registry /\ leaked' = leaked
          /\ recv[c].pc # "installing"
      BY <2>3 DEF RecvFails, WriteFails, Fail, Part
    <3>2. DOMAIN files' = DOMAIN files \ {Part(c)} /\ \A d \in Calls \ {c} : recv'[d] = recv[d]
      BY <1>0, <3>1 DEF Gone
    <3> QED
      BY <1>1, <2>0, <3>1, <3>2 DEF Used, Part, Final
  <2>4. CASE Finalize(c)
    <3> DEFINE new == [snap |-> recv[c].snap, file |-> FinalPath(recv[c].name),
                       owner |-> c, copy |-> None]
    <3>1. /\ DOMAIN files' = (DOMAIN files \ {Part(c)}) \cup {Final(c)}
          /\ recv' = [recv EXCEPT ![c].pc = "installing"] /\ installs' = Append(installs, new)
          /\ registry' = registry /\ leaked' = leaked /\ recv[c].pc = "reading"
      BY <2>4 DEF Finalize, Part, Final, BodyRead
    <3> HIDE DEF new
    <3>2. /\ recv'[c].pc = "installing" /\ recv'[c].name = recv[c].name
          /\ \A d \in Calls \ {c} : recv'[d] = recv[d]
      BY <1>0, <3>1 DEF Handlers
    <3>3. \A k \in 1 .. Len(installs) : k \in 1 .. Len(installs') /\ installs'[k] = installs[k]
      BY <1>0, <3>1 DEF TypeInv
    <3>4. \A p : p = Final(c) => Used(p)'
      BY <3>2 DEF Used, Final
    <3>5. \A p \in DOMAIN files \ {Part(c)} : Used(p)'
      BY <1>1, <2>0, <3>1, <3>2, <3>3 DEF Used, Part, Final
    <3> QED
      BY <3>1, <3>4, <3>5
  <2>5. CASE Respond(c)
    <3>1. /\ recv' = [recv EXCEPT ![c] = IdleHandler] /\ files' = Gone({Final(c)})
          /\ installs' = installs /\ registry' = registry /\ leaked' = leaked
          /\ recv[c].pc = "installing"
      BY <2>5 DEF Respond, MayRespond, Final
    <3>2. DOMAIN files' = DOMAIN files \ {Final(c)} /\ \A d \in Calls \ {c} : recv'[d] = recv[d]
      BY <1>0, <3>1 DEF Gone
    <3> QED
      BY <1>1, <2>0, <3>1, <3>2 DEF Used, Part, Final
  <2>6. CASE Drop(c)
    <3>1. /\ recv' = [recv EXCEPT ![c] = IdleHandler] /\ files' = files /\ registry' = registry
          /\ leaked' = leaked \cup {IF recv[c].pc = "reading" THEN Part(c) ELSE Final(c)}
          /\ installs' = [k \in DOMAIN installs |->
                             IF installs[k].owner = c THEN [installs[k] EXCEPT !.owner = None]
                             ELSE installs[k]]
          /\ recv[c].pc \in {"reading", "installing"}
      BY <2>6 DEF Drop, Part, Final
    <3>2. \A d \in Calls \ {c} : recv'[d] = recv[d]
      BY <1>0, <3>1
    <3>3. DOMAIN installs = 1 .. Len(installs) /\ Len(installs) \in Nat
          /\ \A k \in 1 .. Len(installs) : installs[k] \in Installations
      BY <1>0, InstallsType
    <3>4. Len(installs') = Len(installs)
      BY <3>1, <3>3
    <3>5. \A k \in 1 .. Len(installs) : installs'[k].copy = installs[k].copy
      BY <3>1, <3>3 DEF Installations
    <3> QED
      BY <1>1, <2>0, <3>1, <3>2, <3>4, <3>5, SMTT(30) DEF Used, Part, Final
  <2> QED
    BY <1>10, <2>1, <2>2, <2>3, <2>4, <2>5, <2>6 DEF Handler, HandlerStep
<1>11. CASE UNCHANGED vars
  BY <1>11, <1>k DEF vars
<1> QED
  BY <1>3, <1>4, <1>5, <1>6, <1>7, <1>8, <1>9, <1>10, <1>11 DEF Next, Install

(* Every path in the snapshot directory of a running follower is the          *)
(* registry's, somebody's who works on it, or was left by a handler that the  *)
(* server dropped since the last sweep.                                       *)
THEOREM NothingPilesUpHolds == Spec => []NothingPilesUp
<1>1. Init => NothingPilesUp
  BY DEF Init, NothingPilesUp
<1>2. FileState /\ NothingPilesUp /\ [Next]_vars => NothingPilesUp'
  BY PilesStep
<1> QED
  BY <1>1, <1>2, InitFileState, NextFileState, PTL DEF Spec
=============================================================================
