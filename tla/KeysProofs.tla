------------------------------ MODULE KeysProofs ------------------------------
(***************************************************************************)
(* Theorems about Keys: the generations of the nodes agree up to the       *)
(* command that a crash left unrecorded, every secret is readable while no *)
(* node missed a key, no ring holds a key twice, and rewrapping costs no   *)
(* secret; for any number of nodes, keys, commands and faults.             *)
(***************************************************************************)
EXTENDS Keys, SequenceTheorems, WellFoundedInduction, TLAPS

(* A ring as the hook makes it: the first key first, and no key twice. *)
Proper(r) ==
    /\ r \in Rings /\ Len(r) >= 1 /\ r[1] = First
    /\ \A g, h \in 1 .. Len(r) : r[g] = r[h] => g = h

\* A ring file is empty, torn, or the ring that was saved last.
Loaded(f) == IF f = <<>> \/ f = Torn THEN <<First>> ELSE f
FileOK(f) == f = <<>> \/ f = Torn \/ Proper(f)

RingsProper == \A n \in Nodes : Proper(ring[n]) /\ FileOK(file[n])

\* What the log makes of a ring, command by command.
After(r, c) == IF Learns(r, c) THEN Push(r, c.kek) ELSE r
GoldenSteps ==
    /\ \A i \in 1 .. Len(golden) : Proper(golden[i])
    /\ golden[1] = <<First>>
    /\ \A i \in 1 .. Len(log) : golden[i + 1] = After(golden[i], log[i])

\* A node that is about to learn a key has torn its file and has yet to apply
\* the rotation.
SavingLearns == \A n \in Nodes : phase[n] = "saving" =>
    file[n] = Torn /\ applied[n] < Len(log) /\ Learns(ring[n], Command(n))

\* Until the command is recorded, the ring of a node that missed nothing is
\* the one that the command makes.
RecordingFollows == \A n \in Nodes : phase[n] = "recording" =>
    applied[n] < Len(log) /\ (n \notin missed => ring[n] = golden[applied[n] + 2])

\* The ring of the log at a position, or at the next one.
Follows(r, a) == \E i \in {a, a + 1} : i <= Len(log) /\ r = golden[i + 1]

\* Unless it is being saved, the file gives the ring that the log gives.
FilesFollow == \A n \in Nodes \ missed :
    /\ Follows(ring[n], applied[n])
    /\ phase[n] # "saving" => Loaded(file[n]) = ring[n]

RingInv == RingsProper /\ GoldenSteps /\ SavingLearns /\ RecordingFollows /\ FilesFollow

\* Rings only grow along the log.
Prefix(r, s) == Len(r) <= Len(s) /\ \A g \in 1 .. Len(r) : s[g] = r[g]
GoldenGrows == \A i, j \in 1 .. Len(golden) : i <= j => Prefix(golden[i], golden[j])

\* The key of the generation that the ciphertext names is the one that wraps it.
Reads(r, ct) == ct.gen \in 1 .. Len(r) /\ r[ct.gen] = ct.kek
LogReadable == \A p \in 1 .. Len(log) : log[p].op = "put" => Reads(golden[p], log[p].ct)
\* A store may hold the secret of a command that is not recorded, and secrets
\* that were rewrapped under the ring of the next command.
Ahead(n) == IF applied[n] < Len(log) THEN applied[n] + 1 ELSE applied[n]
StoreReadable == \A n \in Nodes : \A i \in DOMAIN store[n] :
    Reads(golden[Ahead(n) + 1], store[n][i])

ReadInv == GoldenGrows /\ (missed = {} => LogReadable /\ StoreReadable)

-----------------------------------------------------------------------------
(* Loading the ring *)

\* A set of naturals has a least one.
LEMMA LeastNat ==
    ASSUME NEW T \in SUBSET Nat, T # {}
    PROVE  \E x \in T : \A y \in T : x <= y
<1> DEFINE R == OpToRel(<, Nat)
<1>1. IsWellFoundedOn(R, Nat)
  BY NatLessThanWellFounded, Zenon
<1>2. \A x, y \in Nat : y < x => <<y, x>> \in R
  BY SMT DEF OpToRel
<1> HIDE DEF R
<1>3. PICK x \in T : \A y \in T : ~(<<y, x>> \in R)
  BY <1>1, WFMin
<1>4. \A y \in T : ~(y < x)
  BY <1>2, <1>3
<1> QED
  BY <1>4

\* The prefixes of a ring, one key at a time.
LEMMA PrefixSteps ==
    ASSUME NEW f, Proper(f)
    PROVE  /\ SubSeq(f, 1, 1) = <<First>>
           /\ \A i \in 2 .. Len(f) : Append(SubSeq(f, 1, i - 1), f[i]) = SubSeq(f, 1, i)
<1>0. f \in Seq(Keks) /\ Len(f) \in Nat /\ Len(f) >= 1 /\ f[1] = First /\ First \in Keks
  BY KeysAssumption DEF Proper, Rings
<1>1. SubSeq(f, 1, 1) = <<First>>
  <2>1. /\ SubSeq(f, 1, 1) \in Seq(Keks) /\ Len(SubSeq(f, 1, 1)) = 1 /\ SubSeq(f, 1, 1)[1] = First
    BY <1>0
  <2>2. /\ <<First>> \in Seq(Keks) /\ Len(<<First>>) = 1 /\ <<First>>[1] = First
    BY <1>0
  <2>3. \A i \in 1 .. 1 : SubSeq(f, 1, 1)[i] = <<First>>[i]
    BY <2>1, <2>2
  <2> QED
    BY <2>1, <2>2, <2>3, SeqEqual
<1>2. ASSUME NEW i \in 2 .. Len(f)
      PROVE  Append(SubSeq(f, 1, i - 1), f[i]) = SubSeq(f, 1, i)
  BY <1>0
<1> QED
  BY <1>1, <1>2

\* The filter of main, over a ring that has the first key first and no other
\* copy of it: what is in front of position i stays.
LEMMA FilterKeeps ==
    ASSUME NEW f, Proper(f), NEW e, e[0] = <<First>>,
           \A i \in 1 .. Len(f) :
              e[i] = IF f[i] # First THEN Append(e[i - 1], f[i]) ELSE e[i - 1]
    PROVE  e[Len(f)] = f
<1>0. f \in Seq(Keks) /\ Len(f) \in Nat /\ Len(f) >= 1 /\ f[1] = First
  BY DEF Proper, Rings
<1> DEFINE B == {i \in 1 .. Len(f) : e[i] # SubSeq(f, 1, i)}
<1>1. ASSUME B # {} PROVE FALSE
  <2>0. B \in SUBSET Nat
    BY <1>0
  <2>1. PICK i \in B : \A j \in B : i <= j
    BY <1>1, <2>0, LeastNat
  <2>2. i \in 1 .. Len(f) /\ i \in Nat /\ e[i] # SubSeq(f, 1, i)
    BY <2>1, <1>0
  <2>3. CASE i = 1
    <3>1. e[1] = e[0]
      <4>1. 1 \in 1 .. Len(f) /\ 1 - 1 = 0
        BY <1>0
      <4> QED
        BY <4>1, <1>0
    <3>2. e[1] = SubSeq(f, 1, 1)
      BY <3>1, PrefixSteps
    <3> QED
      BY <2>2, <2>3, <3>2
  <2>4. CASE i >= 2
    <3>1. i - 1 \in 1 .. Len(f) /\ ~(i <= i - 1)
      BY <2>2, <2>4, <1>0
    <3>2. i - 1 \notin B
      BY <2>1, <3>1
    <3>3. e[i - 1] = SubSeq(f, 1, i - 1)
      BY <3>1, <3>2
    <3>4. f[i] # First
      BY <2>2, <2>4, <1>0 DEF Proper
    <3>5. e[i] = Append(e[i - 1], f[i])
      BY <2>2, <3>4
    <3> QED
      BY <2>2, <2>4, <3>3, <3>5, <1>0, PrefixSteps
  <2> QED
    BY <2>2, <2>3, <2>4
<1>2. Len(f) \in 1 .. Len(f) /\ Len(f) \notin B
  BY <1>1, <1>0
<1>3. e[Len(f)] = SubSeq(f, 1, Len(f))
  BY <1>2
<1>4. SubSeq(f, 1, Len(f)) = f
  BY <1>0, SubSeqFull
<1> QED
  BY <1>3, <1>4

LEMMA LoadRingFacts ==
    ASSUME NEW f, FileOK(f)
    PROVE  LoadRing(f) = Loaded(f)
<1> DEFINE Filter(e) == [i \in 0 .. Len(f) |->
                  IF i = 0 THEN <<First>>
                  ELSE IF f[i] # First THEN Append(e[i - 1], f[i]) ELSE e[i - 1]]
           entries == CHOOSE e : e = Filter(e)
<1>0. LoadRing(f) = IF f = Torn THEN <<First>> ELSE entries[Len(f)]
  BY DEF LoadRing
<1>1. CASE f = Torn
  BY <1>0, <1>1 DEF Loaded
<1>2. CASE f # Torn /\ f = <<>>
  <2> DEFINE g == [i \in 0 .. 0 |-> <<First>>]
  <2>1. g = Filter(g)
    BY <1>2
  <2>2. entries = Filter(entries)
    BY <2>1
  <2>3. entries[0] = <<First>>
    <3> HIDE DEF entries
    <3> QED
      BY <2>2, <1>2
  <2> QED
    BY <1>0, <1>2, <2>3 DEF Loaded
<1>3. CASE f # Torn /\ f # <<>>
  <2>0. Proper(f) /\ f \in Seq(Keks) /\ Len(f) \in Nat /\ Len(f) >= 1 /\ f[1] = First
    BY <1>3 DEF FileOK, Proper, Rings
  <2> DEFINE g == [i \in 0 .. Len(f) |-> IF i = 0 THEN <<First>> ELSE SubSeq(f, 1, i)]
  <2>1. ASSUME NEW i \in 0 .. Len(f)
        PROVE  g[i] = IF i = 0 THEN <<First>>
                      ELSE IF f[i] # First THEN Append(g[i - 1], f[i]) ELSE g[i - 1]
    <3>1. CASE i = 0
      BY <3>1, <2>0
    <3>2. CASE i = 1
      BY <3>2, <2>0, PrefixSteps
    <3>3. CASE i >= 2
      <4>1. f[i] # First
        BY <3>3, <2>0 DEF Proper
      <4>2. g[i - 1] = SubSeq(f, 1, i - 1) /\ g[i] = SubSeq(f, 1, i)
        BY <3>3, <2>0
      <4>3. Append(SubSeq(f, 1, i - 1), f[i]) = SubSeq(f, 1, i)
        BY <3>3, <2>0, PrefixSteps
      <4> QED
        BY <4>1, <4>2, <4>3, <3>3
    <3> QED
      BY <3>1, <3>2, <3>3, <2>0
  <2>2. g = Filter(g)
    BY <2>1
  <2>3. entries = Filter(entries)
    <3> HIDE DEF g
    <3> QED
      BY <2>2
  <2>4. /\ entries[0] = <<First>>
        /\ \A i \in 1 .. Len(f) :
             entries[i] = IF f[i] # First THEN Append(entries[i - 1], f[i]) ELSE entries[i - 1]
    <3> HIDE DEF entries
    <3>0. 0 \in 0 .. Len(f)
      BY <2>0
    <3>1. entries[0] = <<First>>
      BY <2>3, <3>0
    <3>2. ASSUME NEW i \in 1 .. Len(f)
          PROVE  entries[i] = IF f[i] # First THEN Append(entries[i - 1], f[i]) ELSE entries[i - 1]
      <4>1. i \in 0 .. Len(f) /\ i # 0
        BY <2>0
      <4>2. entries[i] = Filter(entries)[i]
        BY <2>3
      <4>3. Filter(entries)[i] = IF f[i] # First THEN Append(entries[i - 1], f[i]) ELSE entries[i - 1]
        BY <4>1
      <4> QED
        BY <4>2, <4>3
    <3> QED
      BY <3>1, <3>2
  <2>5. entries[Len(f)] = f
    <3> HIDE DEF entries
    <3> QED
      BY <2>0, <2>4, FilterKeeps
  <2> QED
    BY <1>0, <1>3, <2>5 DEF Loaded
<1> QED
  BY <1>1, <1>2, <1>3

-----------------------------------------------------------------------------
(* Commands and types *)

LEMMA CommandFacts ==
    ASSUME NEW c \in Commands
    PROVE  /\ c.op \in {"put", "rotate"}
           /\ c.op = "put" => c.ct \in Ciphertexts
           /\ c.op = "rotate" => c.kek \in Keks /\ c.under \in Keks
BY DEF Commands

\* A ring with a key more.
LEMMA PushFacts ==
    ASSUME NEW r \in Rings, NEW k \in Keks
    PROVE  /\ Push(r, k) \in Rings /\ Len(Push(r, k)) = Len(r) + 1
           /\ Push(r, k)[Len(r) + 1] = k
           /\ \A g \in 1 .. Len(r) : Push(r, k)[g] = r[g]
BY DEF Rings, Push

\* A rotation that a ring learns keeps it proper.
LEMMA LearnsProper ==
    ASSUME NEW r, Proper(r), NEW c \in Commands, Learns(r, c)
    PROVE  Proper(Push(r, c.kek)) /\ c.kek \in Keks
<1>0. r \in Rings /\ r \in Seq(Keks) /\ Len(r) \in Nat /\ DOMAIN r = 1 .. Len(r)
  BY DEF Proper, Rings
<1>1. c.kek \in Keks /\ \A g \in 1 .. Len(r) : r[g] # c.kek
  BY <1>0, CommandFacts DEF Learns, Holds
<1>2. /\ Push(r, c.kek) \in Rings /\ Len(Push(r, c.kek)) = Len(r) + 1
      /\ Push(r, c.kek)[Len(r) + 1] = c.kek
      /\ \A g \in 1 .. Len(r) : Push(r, c.kek)[g] = r[g]
  BY <1>0, <1>1, PushFacts
<1>3. \A g \in 1 .. Len(r) + 1 : g \in 1 .. Len(r) \/ g = Len(r) + 1
  BY <1>0
<1>4. \A g, h \in 1 .. Len(r) + 1 : Push(r, c.kek)[g] = Push(r, c.kek)[h] => g = h
  BY <1>1, <1>2, <1>3 DEF Proper
<1> QED
  BY <1>0, <1>1, <1>2, <1>4 DEF Proper

\* What is encrypted under a ring is a ciphertext that the ring reads.
LEMMA EncryptFacts ==
    ASSUME NEW r, Proper(r)
    PROVE  /\ EncryptSecret(r) \in Ciphertexts /\ Current(r) \in Keks
           /\ EncryptSecret(r).gen = Len(r) /\ EncryptSecret(r).kek = Current(r)
           /\ Reads(r, EncryptSecret(r))
<1>1. r \in Seq(Keks) /\ Len(r) \in Nat /\ Len(r) >= 1
  BY DEF Proper, Rings
<1>2. Len(r) \in 1 .. Len(r) /\ r[Len(r)] \in Keks
  BY <1>1
<1> QED
  BY <1>1, <1>2 DEF EncryptSecret, Current, Ciphertexts, Reads

LEMMA ReadsDecrypts ==
    ASSUME NEW r \in Rings, NEW ct, Reads(r, ct)
    PROVE  Decrypts(r, ct)
BY DEF Rings, Reads, Decrypts, KekFor

\* A command that is committed.
LEMMA CommitFacts ==
    ASSUME TypeOK, NEW c \in Commands, Commit(c), Proper(golden[Len(golden)])
    PROVE  /\ log' \in Seq(Commands) /\ Len(log') = Len(log) + 1 /\ log'[Len(log) + 1] = c
           /\ \A p \in 1 .. Len(log) : log'[p] = log[p]
           /\ golden' \in Seq(Rings) /\ Len(golden') = Len(log') + 1
           /\ golden'[Len(log) + 2] = After(golden[Len(log) + 1], c)
           /\ \A p \in 1 .. Len(log) + 1 : golden'[p] = golden[p]
           /\ UNCHANGED <<applied, phase, ring, file, store, missed, faults>>
<1> DEFINE last == golden[Len(golden)]
           r == After(last, c)
<1>0. log \in Seq(Commands) /\ golden \in Seq(Rings) /\ Len(golden) = Len(log) + 1
  BY DEF TypeOK
<1>1. last \in Rings
  BY <1>0
<1>2. r \in Rings
  BY <1>1, LearnsProper DEF After, Proper
<1>3. log' = Append(log, c) /\ golden' = Append(golden, r)
  BY DEF Commit, After
<1> HIDE DEF r
<1>4. /\ golden' \in Seq(Rings) /\ Len(golden') = Len(golden) + 1
      /\ golden'[Len(golden) + 1] = r /\ \A p \in 1 .. Len(golden) : golden'[p] = golden[p]
  BY <1>0, <1>2, <1>3
<1>5. /\ log' \in Seq(Commands) /\ Len(log') = Len(log) + 1 /\ log'[Len(log) + 1] = c
      /\ \A p \in 1 .. Len(log) : log'[p] = log[p]
  BY <1>0, <1>3
<1>6. golden'[Len(log) + 2] = r /\ r = After(golden[Len(log) + 1], c)
  BY <1>0, <1>4 DEF r
<1> QED
  BY <1>0, <1>4, <1>5, <1>6 DEF Commit

\* What the two commits put into the log.
LEMMA CommittedCommand ==
    ASSUME RingsProper, NEW n \in Nodes
    PROVE  /\ [op |-> "put", ct |-> EncryptSecret(ring[n])] \in Commands
           /\ \A k \in Keks : [op |-> "rotate", kek |-> k, under |-> Current(ring[n])] \in Commands
<1>1. EncryptSecret(ring[n]) \in Ciphertexts /\ Current(ring[n]) \in Keks
  BY EncryptFacts DEF RingsProper
<1> QED
  BY <1>1 DEF Commands

-----------------------------------------------------------------------------
(* Rings *)

LEMMA FirstProper == Proper(<<First>>) /\ Loaded(<<>>) = <<First>> /\ FileOK(<<>>)
<1>1. <<First>> \in Seq(Keks) /\ Len(<<First>>) = 1 /\ <<First>>[1] = First
  BY KeysAssumption
<1>2. \A g, h \in 1 .. 1 : g = h
  OBVIOUS
<1> QED
  BY <1>1, <1>2 DEF Proper, Rings, Loaded, FileOK

LEMMA KeysInit == Init => TypeOK /\ RingInv
<1> SUFFICES ASSUME Init PROVE TypeOK /\ RingInv
  OBVIOUS
<1>1. <<First>> \in Rings /\ <<First>> # <<>>
  BY FirstProper DEF Proper
<1>2. golden \in Seq(Rings) /\ Len(golden) = 1 /\ golden[1] = <<First>> /\ log = <<>>
  BY <1>1 DEF Init
<1>3. \A n \in Nodes : store[n] \in [{} -> Ciphertexts] /\ {} \in SUBSET (1 .. 0)
  BY DEF Init
<1>4. store \in [Nodes -> Stores(0)]
  BY <1>3 DEF Init, Stores
<1>5. Len(log) = 0 /\ log \in Seq(Commands)
  BY <1>2
<1>6. TypeOK
  BY <1>1, <1>2, <1>4, <1>5 DEF Init, TypeOK, Rings
<1>7. RingInv
  BY <1>2, <1>5, FirstProper DEF Init, RingInv, RingsProper, GoldenSteps, SavingLearns,
     RecordingFollows, FilesFollow, Follows
<1> QED
  BY <1>6, <1>7

\* The command a node applies next, in terms of the log.
LEMMA NextCommand ==
    ASSUME TypeOK, RingInv, NEW n \in Nodes, applied[n] < Len(log)
    PROVE  /\ Command(n) \in Commands /\ applied[n] + 1 \in 1 .. Len(log) /\ applied[n] \in Nat
           /\ Command(n) = log[applied[n] + 1]
           /\ golden[applied[n] + 2] = After(golden[applied[n] + 1], Command(n))
<1>1. applied[n] + 1 \in 1 .. Len(log) /\ applied[n] \in Nat /\ applied[n] + 1 + 1 = applied[n] + 2
  BY DEF TypeOK
<1> QED
  BY <1>1 DEF TypeOK, RingInv, GoldenSteps, Command

\* The secrets of a shorter log are those of a longer one.
LEMMA StoresGrow ==
    ASSUME NEW a \in Nat, NEW b \in Nat, a <= b
    PROVE  Stores(a) \subseteq Stores(b)
<1>1. SUBSET (1 .. a) \subseteq SUBSET (1 .. b)
  OBVIOUS
<1> QED
  BY <1>1 DEF Stores

\* A secret more, or other secrets at the same positions.
LEMMA StoreFacts ==
    ASSUME NEW len \in Nat, NEW st \in Stores(len)
    PROVE  /\ \A i \in DOMAIN st : st[i] \in Ciphertexts /\ i \in 1 .. len
           /\ \A f : DOMAIN f \subseteq 1 .. len /\ f = [i \in DOMAIN f |-> f[i]]
                     /\ (\A i \in DOMAIN f : f[i] \in Ciphertexts) => f \in Stores(len)
<1>1. PICK S \in SUBSET (1 .. len) : st \in [S -> Ciphertexts]
  BY DEF Stores
<1>2. \A i \in DOMAIN st : st[i] \in Ciphertexts /\ i \in 1 .. len
  BY <1>1
<1>3. ASSUME NEW f, DOMAIN f \subseteq 1 .. len, f = [i \in DOMAIN f |-> f[i]],
             \A i \in DOMAIN f : f[i] \in Ciphertexts
      PROVE  f \in Stores(len)
  <2>1. f \in [DOMAIN f -> Ciphertexts]
    BY <1>3
  <2> QED
    BY <1>3, <2>1 DEF Stores
<1> QED
  BY <1>2, <1>3

\* A step of one node that leaves the log alone keeps what is said of it.
OneNode(n) ==
    /\ UNCHANGED <<log, golden>> /\ missed \subseteq missed' /\ missed' \subseteq missed \cup {n}
    /\ \A m \in Nodes \ {n} : /\ applied'[m] = applied[m] /\ phase'[m] = phase[m]
                              /\ ring'[m] = ring[m] /\ file'[m] = file[m]

\* So that node alone is left to look at.
LEMMA OneNodeKeeps ==
    ASSUME TypeOK, RingInv, NEW n \in Nodes, OneNode(n),
           Proper(ring'[n]), FileOK(file'[n]),
           phase'[n] = "saving" => /\ file'[n] = Torn /\ applied'[n] < Len(log)
                                   /\ Learns(ring'[n], log[applied'[n] + 1]),
           phase'[n] = "recording" =>
              applied'[n] < Len(log) /\ (n \notin missed' => ring'[n] = golden[applied'[n] + 2]),
           n \notin missed' => Follows(ring'[n], applied'[n]),
           n \notin missed' /\ phase'[n] # "saving" => Loaded(file'[n]) = ring'[n]
    PROVE  RingInv'
<1>1. RingsProper'
  BY DEF RingInv, RingsProper, OneNode
<1>2. GoldenSteps'
  BY DEF RingInv, GoldenSteps, OneNode, After, Learns, Holds, Push, Proper
<1>3. \A m \in Nodes : phase'[m] = "saving" =>
         file'[m] = Torn /\ applied'[m] < Len(log') /\ Learns(ring'[m], log'[applied'[m] + 1])
  BY DEF RingInv, SavingLearns, OneNode, Command
<1>4. SavingLearns'
  BY <1>3 DEF SavingLearns, Command, Learns, Holds
<1>5. \A m \in Nodes \ missed' : /\ \E i \in {applied'[m], applied'[m] + 1} :
                                       i <= Len(log') /\ ring'[m] = golden'[i + 1]
                                 /\ phase'[m] # "saving" => Loaded(file'[m]) = ring'[m]
  BY DEF RingInv, FilesFollow, Follows, OneNode
<1>6. FilesFollow'
  BY <1>5 DEF FilesFollow, Follows, Loaded
<1>7. RecordingFollows'
  BY DEF RingInv, RecordingFollows, OneNode
<1> QED
  BY <1>1, <1>2, <1>4, <1>6, <1>7 DEF RingInv

\* A commit keeps the rings of the log in step with it.
LEMMA CommitKeeps ==
    ASSUME TypeOK, RingInv, NEW c \in Commands, Commit(c)
    PROVE  TypeOK' /\ RingInv'
<1>0. /\ Len(log) \in Nat /\ Len(golden) = Len(log) + 1 /\ Len(golden) \in 1 .. Len(golden)
      /\ \A i \in 1 .. Len(golden) : Proper(golden[i])
      /\ applied \in [Nodes -> 0 .. Len(log)]
  BY DEF TypeOK, RingInv, GoldenSteps
<1>1. /\ log' \in Seq(Commands) /\ Len(log') = Len(log) + 1 /\ log'[Len(log) + 1] = c
      /\ \A p \in 1 .. Len(log) : log'[p] = log[p]
      /\ golden' \in Seq(Rings) /\ Len(golden') = Len(log') + 1
      /\ golden'[Len(log) + 2] = After(golden[Len(log) + 1], c)
      /\ \A p \in 1 .. Len(log) + 1 : golden'[p] = golden[p]
      /\ UNCHANGED <<applied, phase, ring, file, store, missed, faults>>
  BY <1>0, CommitFacts
<1>2. TypeOK'
  <2>1. applied' \in [Nodes -> 0 .. Len(log')]
    BY <1>0, <1>1
  <2>2. store' \in [Nodes -> Stores(Len(log'))]
    <3>1. Stores(Len(log)) \subseteq Stores(Len(log'))
      BY <1>0, <1>1, StoresGrow
    <3> QED
      BY <1>1, <3>1 DEF TypeOK
  <2> QED
    BY <1>1, <2>1, <2>2 DEF TypeOK
<1>3. RingsProper'
  BY <1>1 DEF RingInv, RingsProper
<1>4. GoldenSteps'
  <2>1. Proper(golden'[Len(log) + 2])
    <3>1. Proper(golden[Len(log) + 1])
      BY <1>0
    <3> QED
      BY <1>1, <3>1, LearnsProper DEF After
  <2>2. \A i \in 1 .. Len(golden') : i \in 1 .. Len(golden) \/ i = Len(log) + 2
    BY <1>0, <1>1
  <2>3. \A i \in 1 .. Len(golden') : Proper(golden'[i])
    BY <1>0, <1>1, <2>1, <2>2
  <2>4. golden'[1] = <<First>>
    BY <1>0, <1>1 DEF RingInv, GoldenSteps
  <2>5. ASSUME NEW i \in 1 .. Len(log')
        PROVE  golden'[i + 1] = After(golden'[i], log'[i])
    <3>1. CASE i \in 1 .. Len(log)
      <4>1. golden'[i + 1] = golden[i + 1] /\ golden'[i] = golden[i] /\ log'[i] = log[i]
        BY <1>0, <1>1, <3>1
      <4> QED
        BY <3>1, <4>1 DEF RingInv, GoldenSteps
    <3>2. CASE i = Len(log) + 1
      <4>1. i + 1 = Len(log) + 2 /\ golden'[i] = golden[i] /\ log'[i] = c
        BY <1>0, <1>1, <3>2
      <4> QED
        BY <1>1, <3>2, <4>1
    <3> QED
      BY <1>0, <1>1, <3>1, <3>2
  <2> QED
    BY <2>3, <2>4, <2>5 DEF GoldenSteps, After, Learns, Holds, Push, Proper
<1>5. SavingLearns'
  <2>1. ASSUME NEW n \in Nodes, phase[n] = "saving"
        PROVE  file[n] = Torn /\ applied[n] < Len(log') /\ Learns(ring[n], log'[applied[n] + 1])
    <3>1. file[n] = Torn /\ applied[n] < Len(log) /\ Learns(ring[n], log[applied[n] + 1])
      BY <2>1 DEF RingInv, SavingLearns, Command
    <3> QED
      BY <3>1, <1>0, <1>1
  <2> QED
    BY <2>1, <1>1 DEF SavingLearns, Command, Learns, Holds
<1>6. FilesFollow'
  <2>1. \A i \in 0 .. Len(log) : golden'[i + 1] = golden[i + 1] /\ i <= Len(log')
    BY <1>0, <1>1
  <2>2. ASSUME NEW n \in Nodes \ missed
        PROVE  \E i \in {applied[n], applied[n] + 1} : i <= Len(log') /\ ring[n] = golden'[i + 1]
    <3>1. PICK i \in {applied[n], applied[n] + 1} : i <= Len(log) /\ ring[n] = golden[i + 1]
      BY DEF RingInv, FilesFollow, Follows
    <3>2. i \in 0 .. Len(log)
      BY <1>0, <3>1
    <3> QED
      BY <2>1, <3>1, <3>2
  <2> QED
    BY <1>1, <2>2 DEF RingInv, FilesFollow, Follows, Loaded
<1>7. RecordingFollows'
  <2>1. ASSUME NEW n \in Nodes, phase[n] = "recording"
        PROVE  applied[n] < Len(log') /\ (n \notin missed => ring[n] = golden'[applied[n] + 2])
    <3>1. applied[n] < Len(log) /\ (n \notin missed => ring[n] = golden[applied[n] + 2])
      BY <2>1 DEF RingInv, RecordingFollows
    <3>2. applied[n] + 2 \in 1 .. Len(log) + 1 /\ applied[n] < Len(log')
      BY <3>1, <1>0, <1>1
    <3> QED
      BY <3>1, <3>2, <1>1
  <2> QED
    BY <1>1, <2>1 DEF RecordingFollows
<1> QED
  BY <1>2, <1>3, <1>4, <1>5, <1>6, <1>7 DEF RingInv

\* A node that missed nothing and is asked for the next command.
LEMMA NextRing ==
    ASSUME TypeOK, RingInv, NEW n \in Nodes \ missed, applied[n] < Len(log)
    PROVE  /\ ring[n] \in {golden[applied[n] + 1], golden[applied[n] + 2]}
           /\ IF Learns(ring[n], Command(n))
              THEN golden[applied[n] + 2] = Push(ring[n], Command(n).kek)
              ELSE golden[applied[n] + 2] = ring[n]
<1>1. /\ Command(n) \in Commands /\ applied[n] \in Nat /\ applied[n] + 1 \in 1 .. Len(golden)
      /\ golden[applied[n] + 2] = After(golden[applied[n] + 1], Command(n))
  BY NextCommand DEF TypeOK
<1>2. Proper(golden[applied[n] + 1])
  BY <1>1 DEF RingInv, GoldenSteps
<1>3. PICK i \in {applied[n], applied[n] + 1} : ring[n] = golden[i + 1]
  BY DEF RingInv, FilesFollow, Follows
<1>4. i + 1 \in {applied[n] + 1, applied[n] + 2}
  BY <1>1
<1>5. ring[n] \in {golden[applied[n] + 1], golden[applied[n] + 2]}
  BY <1>3, <1>4
<1> DEFINE g == golden[applied[n] + 1]
           c == Command(n)
<1>6. CASE Learns(g, c)
  <2>1. Proper(Push(g, c.kek)) /\ c.kek \in Keks /\ g \in Rings
    BY <1>1, <1>2, <1>6, LearnsProper DEF Proper
  <2>2. Holds(Push(g, c.kek), c.kek)
    <3>1. Len(g) + 1 \in DOMAIN Push(g, c.kek) /\ Push(g, c.kek)[Len(g) + 1] = c.kek
      <4>1. /\ Push(g, c.kek) \in Rings /\ Len(Push(g, c.kek)) = Len(g) + 1
            /\ Push(g, c.kek)[Len(g) + 1] = c.kek
        BY <2>1, PushFacts
      <4>2. Len(g) \in Nat
        BY <2>1 DEF Rings
      <4>3. DOMAIN Push(g, c.kek) = 1 .. Len(g) + 1
        BY <4>1 DEF Rings
      <4> QED
        BY <4>1, <4>2, <4>3
    <3> QED
      BY <3>1 DEF Holds
  <2>3. ~Learns(Push(g, c.kek), c)
    BY <2>2 DEF Learns
  <2>4. golden[applied[n] + 2] = Push(g, c.kek)
    BY <1>1, <1>6 DEF After
  <2> QED
    BY <1>5, <1>6, <2>3, <2>4
<1>7. CASE ~Learns(g, c)
  <2>1. golden[applied[n] + 2] = g
    BY <1>1, <1>7 DEF After
  <2> QED
    BY <1>5, <1>7, <2>1
<1> QED
  BY <1>6, <1>7

\* Every step keeps the rings in line with the log.
LEMMA KeysNext == TypeOK /\ RingInv /\ [Next]_vars => TypeOK' /\ RingInv'
<1> SUFFICES ASSUME TypeOK, RingInv, [Next]_vars PROVE TypeOK' /\ RingInv'
  OBVIOUS
<1>0. /\ Len(log) \in Nat
      /\ applied \in [Nodes -> 0 .. Len(log)] /\ phase \in [Nodes -> {"up", "saving", "recording", "down"}]
      /\ ring \in [Nodes -> Rings] /\ file \in [Nodes -> Rings \cup {Torn}]
      /\ store \in [Nodes -> Stores(Len(log))] /\ missed \subseteq Nodes /\ faults \in Nat
      /\ \A n \in Nodes : Proper(ring[n]) /\ FileOK(file[n]) /\ ring[n] # <<>>
      /\ \A n \in Nodes \ missed : Follows(ring[n], applied[n])
      /\ \A n \in Nodes \ missed : phase[n] # "saving" => Loaded(file[n]) = ring[n]
      /\ \A n \in Nodes : phase[n] = "saving" =>
            file[n] = Torn /\ applied[n] < Len(log) /\ Learns(ring[n], log[applied[n] + 1])
      /\ \A n \in Nodes : phase[n] = "recording" =>
            applied[n] < Len(log) /\ (n \notin missed => ring[n] = golden[applied[n] + 2])
  BY DEF TypeOK, RingInv, RingsProper, FilesFollow, SavingLearns, RecordingFollows, Command
\* The log aside, the types of the parts that a step of a node changes.
<1>t. ASSUME UNCHANGED <<log, golden>>, applied' \in [Nodes -> 0 .. Len(log)],
             phase' \in [Nodes -> {"up", "saving", "recording", "down"}], ring' \in [Nodes -> Rings],
             file' \in [Nodes -> Rings \cup {Torn}], store' \in [Nodes -> Stores(Len(log))],
             missed' \subseteq Nodes, faults' \in Nat, \A n \in Nodes : Proper(ring'[n])
      PROVE  TypeOK'
  <2>1. \A n \in Nodes : ring'[n] # <<>>
    BY <1>t DEF Proper
  <2> QED
    BY <1>t, <2>1 DEF TypeOK
<1>1. ASSUME NEW n \in Nodes, PutSecret(n)
      PROVE  TypeOK' /\ RingInv'
  BY <1>1, CommitKeeps, CommittedCommand DEF PutSecret, RingInv
<1>2. ASSUME NEW n \in Nodes, NEW k \in Keks, RotateMasterKey(n, k)
      PROVE  TypeOK' /\ RingInv'
  BY <1>2, CommitKeeps, CommittedCommand DEF RotateMasterKey, RingInv
<1>3. ASSUME NEW n \in Nodes, ApplySecret(n)
      PROVE  TypeOK' /\ RingInv'
  <2>1. /\ phase[n] = "up" /\ applied[n] < Len(log) /\ Command(n).op = "put"
        /\ UNCHANGED <<log, golden, applied, ring, file, missed, faults>>
        /\ phase' = [phase EXCEPT ![n] = "recording"]
    BY <1>3 DEF ApplySecret, CanApply
  <2>2. /\ Command(n) \in Commands /\ applied[n] + 1 \in 1 .. Len(log) /\ applied[n] \in Nat
        /\ n \notin missed => golden[applied[n] + 2] = ring[n]
    BY <2>1, NextCommand, NextRing DEF Learns
  <2>3. store' \in [Nodes -> Stores(Len(log))]
    <3> DEFINE st == [i \in DOMAIN store[n] \cup {applied[n] + 1} |->
                        IF i = applied[n] + 1 THEN Command(n).ct ELSE store[n][i]]
    <3>1. store' = [store EXCEPT ![n] = st]
      BY <1>3 DEF ApplySecret
    <3>2. Command(n).ct \in Ciphertexts
      BY <2>1, <2>2, CommandFacts
    <3>3. st \in Stores(Len(log))
      <4>1. \A i \in DOMAIN store[n] : store[n][i] \in Ciphertexts /\ i \in 1 .. Len(log)
        BY <1>0, StoreFacts
      <4>2. DOMAIN st \subseteq 1 .. Len(log) /\ \A i \in DOMAIN st : st[i] \in Ciphertexts
        BY <4>1, <3>2, <2>2
      <4>3. st \in [DOMAIN st -> Ciphertexts] /\ DOMAIN st \in SUBSET (1 .. Len(log))
        BY <4>2
      <4> QED
        BY <4>3 DEF Stores
    <3> HIDE DEF st
    <3> QED
      BY <3>1, <3>3, <1>0
  <2>4. /\ phase' \in [Nodes -> {"up", "saving", "recording", "down"}] /\ phase'[n] = "recording"
        /\ OneNode(n)
    BY <2>1, <1>0 DEF OneNode
  <2>5. TypeOK'
    BY <2>1, <2>3, <2>4, <1>0, <1>t
  <2> QED
    BY <2>1, <2>2, <2>4, <2>5, <1>0, OneNodeKeeps
<1>4. ASSUME NEW n \in Nodes, ApplyKnownKey(n)
      PROVE  TypeOK' /\ RingInv'
  <2>1. /\ phase[n] = "up" /\ applied[n] < Len(log) /\ ~Learns(ring[n], Command(n))
        /\ UNCHANGED <<log, golden, applied, ring, file, store, missed, faults>>
        /\ phase' = [phase EXCEPT ![n] = "recording"]
    BY <1>4 DEF ApplyKnownKey, CanApply
  <2>2. n \notin missed => golden[applied[n] + 2] = ring[n]
    BY <2>1, NextRing
  <2>4. /\ phase' \in [Nodes -> {"up", "saving", "recording", "down"}] /\ phase'[n] = "recording"
        /\ OneNode(n)
    BY <2>1, <1>0 DEF OneNode
  <2>5. TypeOK'
    BY <2>1, <2>4, <1>0, <1>t
  <2> QED
    BY <2>1, <2>2, <2>4, <2>5, <1>0, OneNodeKeeps
<1>5. ASSUME NEW n \in Nodes, SaveRing(n)
      PROVE  TypeOK' /\ RingInv'
  <2>1. /\ applied[n] < Len(log) /\ Learns(ring[n], log[applied[n] + 1])
        /\ UNCHANGED <<log, golden, applied, ring, store, missed, faults>>
        /\ phase' = [phase EXCEPT ![n] = "saving"] /\ file' = [file EXCEPT ![n] = Torn]
    BY <1>5 DEF SaveRing, CanApply, Command
  <2>2. /\ phase' \in [Nodes -> {"up", "saving", "recording", "down"}] /\ phase'[n] = "saving"
        /\ file' \in [Nodes -> Rings \cup {Torn}] /\ file'[n] = Torn /\ OneNode(n)
    BY <2>1, <1>0 DEF OneNode
  <2>3. TypeOK'
    BY <2>1, <2>2, <1>0, <1>t
  <2> QED
    BY <2>1, <2>2, <2>3, <1>0, OneNodeKeeps DEF FileOK
<1>6. ASSUME NEW n \in Nodes, LearnKey(n)
      PROVE  TypeOK' /\ RingInv'
  <2> DEFINE r == Push(ring[n], Command(n).kek)
  <2>1. /\ phase[n] = "saving" /\ UNCHANGED <<log, golden, applied, store, missed, faults>>
        /\ ring' = [ring EXCEPT ![n] = r] /\ file' = [file EXCEPT ![n] = r]
        /\ phase' = [phase EXCEPT ![n] = "recording"]
    BY <1>6 DEF LearnKey
  <2>2. /\ applied[n] < Len(log) /\ Learns(ring[n], Command(n))
    BY <2>1, <1>0 DEF Command
  <2>3. /\ applied[n] + 1 \in 1 .. Len(log) /\ applied[n] \in Nat /\ Command(n) \in Commands
        /\ n \notin missed => golden[applied[n] + 2] = r
    BY <2>2, <1>0, NextCommand, NextRing
  <2>4. Proper(r)
    BY <2>2, <2>3, <1>0, LearnsProper
  <2>5. r \in Rings /\ r # <<>> /\ r # Torn
    BY <2>4, KeysAssumption DEF Proper, Rings
  <2> HIDE DEF r
  <2>6. /\ phase' \in [Nodes -> {"up", "saving", "recording", "down"}] /\ phase'[n] = "recording"
        /\ ring' \in [Nodes -> Rings] /\ ring'[n] = r
        /\ file' \in [Nodes -> Rings \cup {Torn}] /\ file'[n] = r /\ OneNode(n)
    BY <2>1, <2>3, <2>5, <1>0 DEF OneNode
  <2>7. TypeOK'
    <3>1. \A m \in Nodes : Proper(ring'[m])
      BY <2>6, <2>4, <1>0 DEF OneNode
    <3> QED
      BY <2>1, <2>6, <3>1, <1>0, <1>t
  <2>8. /\ applied[n] + 1 <= Len(log) /\ (applied[n] + 1) + 1 = applied[n] + 2 /\ Loaded(r) = r
    BY <2>3, <2>5 DEF Loaded
  <2>9. n \notin missed => Follows(r, applied[n])
    BY <2>3, <2>8 DEF Follows
  <2> QED
    BY <2>1, <2>2, <2>3, <2>4, <2>6, <2>7, <2>8, <2>9, OneNodeKeeps DEF FileOK
<1>7. ASSUME NEW n \in Nodes, SaveRingFails(n)
      PROVE  TypeOK' /\ RingInv'
  <2> DEFINE r == Push(ring[n], Command(n).kek)
  <2>1. /\ phase[n] = "saving" /\ UNCHANGED <<log, golden, applied, ring, store>>
        /\ file' \in {file, [file EXCEPT ![n] = r]}
        /\ missed' = missed \cup {n} /\ faults' = faults + 1
        /\ phase' = [phase EXCEPT ![n] = "recording"]
    BY <1>7 DEF SaveRingFails
  <2>2. Proper(r) /\ r \in Rings /\ applied[n] < Len(log)
    <3>1. applied[n] < Len(log) /\ Learns(ring[n], Command(n)) /\ Command(n) \in Commands
      BY <2>1, <1>0, NextCommand DEF Command
    <3>2. Proper(r)
      BY <3>1, <1>0, LearnsProper
    <3> QED
      BY <3>1, <3>2 DEF Proper
  <2> HIDE DEF r
  <2>3. /\ missed' \subseteq Nodes /\ faults' \in Nat /\ n \in missed'
        /\ phase' \in [Nodes -> {"up", "saving", "recording", "down"}] /\ phase'[n] = "recording"
        /\ file' \in [Nodes -> Rings \cup {Torn}] /\ file'[n] \in {file[n], r} /\ OneNode(n)
    <3>1. CASE file' = file
      BY <2>1, <3>1, <1>0 DEF OneNode
    <3>2. CASE file' = [file EXCEPT ![n] = r]
      BY <2>1, <2>2, <3>2, <1>0 DEF OneNode
    <3> QED
      BY <2>1, <3>1, <3>2
  <2>4. TypeOK'
    BY <2>1, <2>3, <1>0, <1>t
  <2>5. FileOK(file'[n])
    BY <2>2, <2>3, <1>0 DEF FileOK
  <2> QED
    BY <2>1, <2>2, <2>3, <2>4, <2>5, <1>0, OneNodeKeeps
<1>13. ASSUME NEW n \in Nodes, RecordApplied(n)
       PROVE  TypeOK' /\ RingInv'
  <2>1. /\ phase[n] = "recording" /\ UNCHANGED <<log, golden, ring, file, store, missed, faults>>
        /\ applied' = [applied EXCEPT ![n] = applied[n] + 1]
        /\ phase' = [phase EXCEPT ![n] = "up"]
    BY <1>13 DEF RecordApplied
  <2>2. /\ applied[n] \in Nat /\ applied[n] + 1 \in 0 .. Len(log) /\ (applied[n] + 1) + 1 = applied[n] + 2
        /\ n \notin missed => ring[n] = golden[applied[n] + 2]
    BY <2>1, <1>0
  <2>3. /\ applied' \in [Nodes -> 0 .. Len(log)] /\ applied'[n] = applied[n] + 1
        /\ phase' \in [Nodes -> {"up", "saving", "recording", "down"}] /\ phase'[n] = "up" /\ OneNode(n)
    BY <2>1, <2>2, <1>0 DEF OneNode
  <2>4. TypeOK'
    BY <2>1, <2>3, <1>0, <1>t
  <2>5. n \notin missed => Follows(ring[n], applied'[n])
    BY <2>2, <2>3 DEF Follows
  <2> QED
    BY <2>1, <2>3, <2>4, <2>5, <1>0, OneNodeKeeps
<1>8. ASSUME NEW n \in Nodes, RewrapDeks(n)
      PROVE  TypeOK' /\ RingInv'
  <2>1. UNCHANGED <<log, golden, applied, phase, ring, file, missed, faults>>
    BY <1>8 DEF RewrapDeks
  <2>2. PICK done : store' = [store EXCEPT ![n] =
              [i \in DOMAIN store[n] |-> IF i \in done THEN RewrapDek(ring[n], store[n][i])
                                         ELSE store[n][i]]]
    BY <1>8 DEF RewrapDeks
  <2>3. store' \in [Nodes -> Stores(Len(log))]
    <3> DEFINE st == [i \in DOMAIN store[n] |-> IF i \in done THEN RewrapDek(ring[n], store[n][i])
                                                ELSE store[n][i]]
    <3>1. \A i \in DOMAIN store[n] : store[n][i] \in Ciphertexts /\ i \in 1 .. Len(log)
      BY <1>0, StoreFacts
    <3>2. \A i \in DOMAIN store[n] : RewrapDek(ring[n], store[n][i]) \in Ciphertexts
      BY <1>0, EncryptFacts DEF RewrapDek
    <3>3. st \in [DOMAIN st -> Ciphertexts] /\ DOMAIN st \in SUBSET (1 .. Len(log))
      BY <3>1, <3>2
    <3>4. st \in Stores(Len(log))
      BY <3>3 DEF Stores
    <3> HIDE DEF st
    <3> QED
      BY <2>2, <3>4, <1>0 DEF st
  <2>4. TypeOK'
    BY <2>1, <2>3, <1>0, <1>t
  <2>5. OneNode(n)
    BY <2>1 DEF OneNode
  <2> QED
    BY <2>1, <2>4, <2>5, <1>0, OneNodeKeeps
<1>9. ASSUME NEW n \in Nodes, NEW m \in Nodes, InstallSnapshot(n, m)
      PROVE  TypeOK' /\ RingInv'
  <2>1. /\ phase[n] = "up" /\ UNCHANGED <<log, golden, phase, ring, file, faults>>
        /\ applied' = [applied EXCEPT ![n] = applied[m]]
        /\ store' = [store EXCEPT ![n] = store[m]]
        /\ missed' = IF ring[n] = golden[applied[m] + 1] THEN missed ELSE missed \cup {n}
    BY <1>9 DEF InstallSnapshot
  <2>2. /\ applied' \in [Nodes -> 0 .. Len(log)] /\ applied'[n] = applied[m]
        /\ store' \in [Nodes -> Stores(Len(log))] /\ missed' \subseteq Nodes /\ OneNode(n)
        /\ n \notin missed' => n \notin missed /\ Follows(ring[n], applied[m])
    BY <2>1, <1>0 DEF OneNode, Follows
  <2>3. TypeOK'
    BY <2>1, <2>2, <1>0, <1>t
  <2> QED
    BY <2>1, <2>2, <2>3, <1>0, OneNodeKeeps
<1>10. ASSUME NEW n \in Nodes, Crash(n)
       PROVE  TypeOK' /\ RingInv'
  <2>1. /\ UNCHANGED <<log, golden, applied, ring, file, store>>
        /\ phase' = [phase EXCEPT ![n] = "down"] /\ faults' = faults + 1
        /\ missed' = IF phase[n] = "saving" /\ Len(ring[n]) > 1 THEN missed \cup {n} ELSE missed
    BY <1>10 DEF Crash
  <2>2. /\ phase' \in [Nodes -> {"up", "saving", "recording", "down"}] /\ phase'[n] = "down"
        /\ missed' \subseteq Nodes /\ faults' \in Nat /\ OneNode(n)
    BY <2>1, <1>0 DEF OneNode
  <2>3. TypeOK'
    BY <2>1, <2>2, <1>0, <1>t
  <2>4. ASSUME n \notin missed' PROVE Loaded(file[n]) = ring[n]
    <3>1. CASE phase[n] # "saving"
      BY <2>1, <2>4, <3>1, <1>0
    <3>2. CASE phase[n] = "saving"
      \* The file is torn, but it held no more than the first key.
      <4> DEFINE len == Len(ring[n])
      <4>0. len \in Nat /\ len >= 1 /\ ~(len > 1)
        <5>1. ring[n] \in Seq(Keks) /\ len >= 1
          BY <1>0 DEF Proper, Rings
        <5>2. len \in Nat
          BY <5>1
        <5> QED
          BY <5>1, <5>2, <2>1, <2>4, <3>2, <1>0
      <4>1. file[n] = Torn /\ Len(ring[n]) = 1
        <5>1. file[n] = Torn
          BY <3>2 DEF RingInv, SavingLearns
        <5>2. len = 1
          <6> HIDE DEF len
          <6> QED
            BY <4>0
        <5> QED
          BY <5>1, <5>2
      <4>2. ring[n] = <<First>>
        BY <4>1, <1>0 DEF Proper, Rings
      <4> QED
        BY <4>1, <4>2 DEF Loaded
    <3> QED
      BY <3>1, <3>2
  <2>5. n \notin missed' => n \notin missed
    BY <2>1
  <2> QED
    BY <2>1, <2>2, <2>3, <2>4, <2>5, <1>0, OneNodeKeeps
<1>11. ASSUME NEW n \in Nodes, Restart(n)
       PROVE  TypeOK' /\ RingInv'
  <2>1. /\ phase[n] = "down" /\ UNCHANGED <<log, golden, applied, file, store, missed, faults>>
        /\ phase' = [phase EXCEPT ![n] = "up"]
        /\ ring' = [ring EXCEPT ![n] = Loaded(file[n])]
    BY <1>11, <1>0, LoadRingFacts DEF Restart
  <2>2. Proper(Loaded(file[n]))
    BY <1>0, FirstProper DEF Loaded, FileOK
  <2>3. Loaded(file[n]) \in Rings
    BY <2>2 DEF Proper
  <2>4. /\ phase' \in [Nodes -> {"up", "saving", "recording", "down"}] /\ phase'[n] = "up"
        /\ ring' \in [Nodes -> Rings] /\ ring'[n] = Loaded(file[n]) /\ OneNode(n)
    BY <2>1, <2>3, <1>0 DEF OneNode
  <2>5. TypeOK'
    <3>1. \A m \in Nodes : Proper(ring'[m])
      BY <2>2, <2>4, <1>0 DEF OneNode
    <3> QED
      BY <2>1, <2>4, <3>1, <1>0, <1>t
  <2> QED
    BY <2>1, <2>2, <2>4, <2>5, <1>0, OneNodeKeeps
<1>12. CASE UNCHANGED vars
  BY <1>12 DEF vars, TypeOK, RingInv, RingsProper, GoldenSteps, After, Learns, Holds, Push, Proper,
     SavingLearns, Command, RecordingFollows, FilesFollow, Follows
<1> QED
  BY <1>1, <1>2, <1>3, <1>4, <1>5, <1>6, <1>7, <1>8, <1>9, <1>10, <1>11, <1>12, <1>13
  DEF Next, ApplyStep

LEMMA KeysHolds == Spec => [](TypeOK /\ RingInv)
BY KeysInit, KeysNext, PTL DEF Spec

\* Rings, files, logs and stores keep their form whatever fails when.
THEOREM KeysTypeOK == Spec => []TypeOK
BY KeysHolds, PTL

\* The generations of the nodes agree: a node that missed nothing has the ring
\* of the log as far as it applied it or one command further, after restarts
\* that load the ring file (main), saves that a crash cut short (save_ring),
\* crashes between the hook and write_last_applied (apply_entry), repeated
\* rotations, and commands that are applied again (rotate_hook).
THEOREM RingFollowsLogHolds == Spec => []RingFollowsLog
<1>1. RingInv => RingFollowsLog
  BY DEF RingInv, FilesFollow, Follows, RingFollowsLog
<1> QED
  BY <1>1, KeysHolds, PTL

\* No ring holds a key twice, not even that of a node that missed keys: the
\* hook and main both drop what the ring holds already.
THEOREM NoKekTwiceHolds == Spec => []NoKekTwice
<1>1. RingInv => NoKekTwice
  BY DEF RingInv, RingsProper, Proper, Rings, NoKekTwice
<1> QED
  BY <1>1, KeysHolds, PTL

-----------------------------------------------------------------------------
(* Secrets *)

LEMMA ReadsPrefix ==
    ASSUME NEW r \in Rings, NEW s \in Rings, Prefix(r, s), NEW ct, Reads(r, ct)
    PROVE  Reads(s, ct)
<1>1. Len(r) \in Nat /\ Len(s) \in Nat
  BY DEF Rings
<1> QED
  BY <1>1 DEF Prefix, Reads

\* A ring is a prefix of what a command makes of it.
LEMMA AfterGrows ==
    ASSUME NEW r, Proper(r), NEW c \in Commands
    PROVE  Prefix(r, After(r, c)) /\ After(r, c) \in Rings
<1>1. r \in Rings /\ Len(r) \in Nat
  BY DEF Proper, Rings
<1>2. CASE Learns(r, c)
  BY <1>1, <1>2, LearnsProper, PushFacts DEF After, Prefix
<1>3. CASE ~Learns(r, c)
  BY <1>1, <1>3 DEF After, Prefix
<1> QED
  BY <1>2, <1>3

LEMMA ReadInit == Init => ReadInv
<1> SUFFICES ASSUME Init PROVE ReadInv
  OBVIOUS
<1>1. Len(golden) = 1 /\ golden[1] \in Rings /\ Len(log) = 0
  BY FirstProper DEF Init, Proper
<1>2. \A n \in Nodes : DOMAIN store[n] = {}
  BY DEF Init
<1>3. Len(golden[1]) \in Nat
  BY <1>1 DEF Rings
<1> QED
  BY <1>1, <1>2, <1>3 DEF ReadInv, GoldenGrows, Prefix, LogReadable, StoreReadable

\* A commit extends the rings of the log; a secret it carries is readable
\* there, because the node that encrypted it has a ring of an earlier prefix.
LEMMA CommitReads ==
    ASSUME TypeOK, RingInv, ReadInv, NEW c \in Commands, Commit(c),
           missed = {} /\ c.op = "put" => Reads(golden[Len(log) + 1], c.ct)
    PROVE  ReadInv'
<1>0. /\ Len(log) \in Nat /\ Len(golden) = Len(log) + 1 /\ Len(golden) \in 1 .. Len(golden)
      /\ \A i \in 1 .. Len(golden) : Proper(golden[i]) /\ golden[i] \in Rings
      /\ applied \in [Nodes -> 0 .. Len(log)]
  BY DEF TypeOK, RingInv, GoldenSteps
<1>1. /\ Len(log') = Len(log) + 1 /\ log'[Len(log) + 1] = c
      /\ \A p \in 1 .. Len(log) : log'[p] = log[p]
      /\ Len(golden') = Len(log) + 2
      /\ golden'[Len(log) + 2] = After(golden[Len(log) + 1], c)
      /\ \A p \in 1 .. Len(log) + 1 : golden'[p] = golden[p]
      /\ UNCHANGED <<applied, store, missed>>
  BY <1>0, CommitFacts
<1>2. \A i, j \in 1 .. Len(golden') : i <= j => Prefix(golden'[i], golden'[j])
  <2> DEFINE s == golden[Len(log) + 1]
             t == After(s, c)
  <2>1. Proper(s) /\ s \in Rings /\ Prefix(s, t) /\ t \in Rings
    BY <1>0, AfterGrows
  <2> HIDE DEF t
  <2>2. ASSUME NEW i \in 1 .. Len(log) + 1 PROVE Prefix(golden[i], t)
    <3>1. Prefix(golden[i], s) /\ golden[i] \in Rings
      BY <1>0 DEF ReadInv, GoldenGrows
    <3>2. Len(s) \in Nat /\ Len(t) \in Nat /\ Len(golden[i]) \in Nat
      BY <2>1, <3>1 DEF Rings
    <3> QED
      BY <2>1, <3>1, <3>2 DEF Prefix
  <2>3. Prefix(t, t)
    BY <2>1 DEF Prefix, Rings
  <2>4. \A i, j \in 1 .. Len(log) + 1 : i <= j => Prefix(golden[i], golden[j])
    BY <1>0 DEF ReadInv, GoldenGrows
  <2>5. \A i \in 1 .. Len(golden') : i \in 1 .. Len(log) + 1 \/ i = Len(log) + 2
    BY <1>0, <1>1
  <2>6. golden'[Len(log) + 2] = t
    BY <1>1 DEF t
  <2>7. \A j \in 1 .. Len(log) + 1 : ~(Len(log) + 2 <= j)
    BY <1>0
  <2> QED
    BY <1>1, <2>2, <2>3, <2>4, <2>5, <2>6, <2>7
<1>3. GoldenGrows'
  BY <1>2 DEF GoldenGrows, Prefix
<1>4. missed = {} => \A p \in 1 .. Len(log') : log'[p].op = "put" => Reads(golden'[p], log'[p].ct)
  <2>1. ASSUME missed = {}, NEW p \in 1 .. Len(log'), log'[p].op = "put"
        PROVE  Reads(golden'[p], log'[p].ct)
    <3>1. CASE p \in 1 .. Len(log)
      BY <2>1, <3>1, <1>0, <1>1 DEF ReadInv, LogReadable
    <3>2. CASE p = Len(log) + 1
      BY <2>1, <3>2, <1>0, <1>1
    <3> QED
      BY <3>1, <3>2, <1>0, <1>1
  <2> QED
    BY <2>1
<1>5. missed = {} => StoreReadable'
  <2>1. ASSUME missed = {}, NEW n \in Nodes, NEW i \in DOMAIN store[n]
        PROVE  Reads(golden'[Ahead(n)' + 1], store[n][i])
    <3>1. Reads(golden[Ahead(n) + 1], store[n][i])
      BY <2>1 DEF ReadInv, StoreReadable
    <3>2. /\ Ahead(n) \in 0 .. Len(log) /\ Ahead(n)' \in 0 .. Len(log') /\ Ahead(n) <= Ahead(n)'
          /\ Ahead(n) \in 0 .. Len(log')
      BY <1>0, <1>1 DEF Ahead
    <3>3. Prefix(golden'[Ahead(n) + 1], golden'[Ahead(n)' + 1]) /\ golden'[Ahead(n) + 1] = golden[Ahead(n) + 1]
      <4> DEFINE a == Ahead(n) + 1
                 b == Ahead(n)' + 1
      <4>1. a \in 1 .. Len(golden') /\ b \in 1 .. Len(golden') /\ a <= b /\ a \in 1 .. Len(log) + 1
        BY <1>0, <1>1, <3>2
      <4> HIDE DEF a, b
      <4>2. Prefix(golden'[a], golden'[b]) /\ golden'[a] = golden[a]
        BY <1>1, <1>2, <4>1
      <4> QED
        BY <4>2 DEF a, b
    <3>4. golden'[Ahead(n) + 1] \in Rings /\ golden'[Ahead(n)' + 1] \in Rings
      BY <1>0, <1>1, <3>2, CommitFacts
    <3> QED
      BY <3>1, <3>3, <3>4, ReadsPrefix
  <2> QED
    BY <1>1, <2>1 DEF StoreReadable, Reads
<1> QED
  BY <1>1, <1>3, <1>4, <1>5 DEF ReadInv, LogReadable, Reads

\* Every step keeps what is stored readable.
LEMMA ReadNext == TypeOK /\ RingInv /\ ReadInv /\ [Next]_vars => ReadInv'
<1> SUFFICES ASSUME TypeOK, RingInv, ReadInv, [Next]_vars PROVE ReadInv'
  OBVIOUS
<1>0. /\ Len(log) \in Nat /\ Len(golden) = Len(log) + 1
      /\ applied \in [Nodes -> 0 .. Len(log)] /\ store \in [Nodes -> Stores(Len(log))]
      /\ \A i \in 1 .. Len(golden) : golden[i] \in Rings
      /\ \A n \in Nodes : Proper(ring[n])
      /\ missed = {} => LogReadable /\ StoreReadable
      /\ \A n \in Nodes : Ahead(n) \in 0 .. Len(log)
      /\ missed = {} => \A n \in Nodes : \E i \in 0 .. Ahead(n) : ring[n] = golden[i + 1]
  <2>1. /\ Len(log) \in Nat /\ Len(golden) = Len(log) + 1
        /\ applied \in [Nodes -> 0 .. Len(log)] /\ store \in [Nodes -> Stores(Len(log))]
        /\ \A i \in 1 .. Len(golden) : golden[i] \in Rings
        /\ \A n \in Nodes : Proper(ring[n])
        /\ missed = {} => LogReadable /\ StoreReadable
    BY DEF TypeOK, RingInv, RingsProper, GoldenSteps, ReadInv
  <2>2. \A n \in Nodes : Ahead(n) \in 0 .. Len(log)
    BY <2>1 DEF Ahead
  <2>3. ASSUME missed = {}, NEW n \in Nodes
        PROVE  \E i \in 0 .. Ahead(n) : ring[n] = golden[i + 1]
    <3>1. PICK i \in {applied[n], applied[n] + 1} : i <= Len(log) /\ ring[n] = golden[i + 1]
      BY <2>3 DEF RingInv, FilesFollow, Follows
    <3>2. i \in 0 .. Ahead(n)
      BY <2>1, <3>1 DEF Ahead
    <3> QED
      BY <3>1, <3>2
  <2> QED
    BY <2>1, <2>2, <2>3
<1>g. UNCHANGED <<log, golden>> => GoldenGrows' /\ (LogReadable => LogReadable')
  BY DEF ReadInv, GoldenGrows, Prefix, LogReadable, Reads
\* Rings only grow: what a node reads it reads when it has applied more.
<1>p. ASSUME NEW i \in 0 .. Len(log), NEW j \in 0 .. Len(log), i <= j, NEW ct,
             Reads(golden[i + 1], ct)
      PROVE  Reads(golden[j + 1], ct)
  <2>1. i + 1 \in 1 .. Len(golden) /\ j + 1 \in 1 .. Len(golden) /\ i + 1 <= j + 1
    BY <1>p, <1>0
  <2>2. Prefix(golden[i + 1], golden[j + 1])
    BY <2>1 DEF ReadInv, GoldenGrows
  <2> QED
    BY <1>p, <1>0, <2>1, <2>2, ReadsPrefix
<1>1. ASSUME NEW n \in Nodes, PutSecret(n)
      PROVE  ReadInv'
  <2> DEFINE c == [op |-> "put", ct |-> EncryptSecret(ring[n])]
  <2>1. c \in Commands /\ Commit(c) /\ c.ct = EncryptSecret(ring[n])
    BY <1>1, CommittedCommand DEF PutSecret, RingInv
  <2>2. missed = {} => Reads(golden[Len(log) + 1], EncryptSecret(ring[n]))
    <3>1. Reads(ring[n], EncryptSecret(ring[n]))
      BY <1>0, EncryptFacts
    <3>2. ASSUME missed = {} PROVE \E i \in 0 .. Len(log) : ring[n] = golden[i + 1] /\ i <= Len(log)
      <4>1. PICK i \in 0 .. Ahead(n) : ring[n] = golden[i + 1]
        BY <1>0, <3>2
      <4>2. i \in 0 .. Len(log) /\ i <= Len(log)
        BY <1>0, <4>1
      <4> QED
        BY <4>1, <4>2
    <3>3. Len(log) \in 0 .. Len(log)
      BY <1>0
    <3> QED
      BY <3>1, <3>2, <3>3, <1>p
  <2> HIDE DEF c
  <2> QED
    BY <2>1, <2>2, CommitReads
<1>2. ASSUME NEW n \in Nodes, NEW k \in Keks, RotateMasterKey(n, k)
      PROVE  ReadInv'
  <2> DEFINE c == [op |-> "rotate", kek |-> k, under |-> Current(ring[n])]
  <2>1. c \in Commands /\ Commit(c) /\ c.op = "rotate"
    BY <1>2, CommittedCommand DEF RotateMasterKey, RingInv
  <2> HIDE DEF c
  <2> QED
    BY <2>1, CommitReads
<1>3. ASSUME NEW n \in Nodes, ApplySecret(n)
      PROVE  ReadInv'
  <2>1. /\ applied[n] < Len(log) /\ Command(n).op = "put" /\ UNCHANGED <<log, golden, applied, missed>>
    BY <1>3 DEF ApplySecret, CanApply
  <2>2. applied[n] + 1 \in 1 .. Len(log) /\ applied[n] \in 0 .. Len(log) /\ applied[n] \in Nat
        /\ applied[n] + 1 \in 0 .. Len(log) /\ Command(n) = log[applied[n] + 1]
    BY <2>1, <1>0, NextCommand
  <2> DEFINE st == [i \in DOMAIN store[n] \cup {applied[n] + 1} |->
                      IF i = applied[n] + 1 THEN Command(n).ct ELSE store[n][i]]
  <2>3. store' = [store EXCEPT ![n] = st]
    BY <1>3 DEF ApplySecret
  <2>4. ASSUME missed = {}, NEW i \in DOMAIN st
        PROVE  Reads(golden[Ahead(n) + 1], st[i])
    <3>1. CASE i # applied[n] + 1
      BY <2>4, <3>1, <1>0 DEF StoreReadable
    <3>2. CASE i = applied[n] + 1
      <4>1. Reads(golden[applied[n] + 1], st[i])
        BY <2>1, <2>2, <2>4, <3>2, <1>0 DEF LogReadable
      <4>2. applied[n] <= Ahead(n)
        BY <2>2 DEF Ahead
      <4> QED
        BY <4>1, <4>2, <2>2, <1>0, <1>p
    <3> QED
      BY <3>1, <3>2
  <2> HIDE DEF st
  <2>5. store'[n] = st /\ \A m \in Nodes \ {n} : store'[m] = store[m]
    BY <2>3, <1>0
  <2>6. missed = {} => \A m \in Nodes : \A i \in DOMAIN store'[m] :
                          Reads(golden[Ahead(m) + 1], store'[m][i])
    BY <2>4, <2>5, <1>0 DEF StoreReadable
  <2>7. \A m \in Nodes : Ahead(m)' = Ahead(m)
    BY <2>1 DEF Ahead
  <2>8. missed = {} => StoreReadable'
    BY <2>1, <2>6, <2>7 DEF StoreReadable, Reads
  <2> QED
    BY <2>1, <2>8, <1>g, <1>0 DEF ReadInv
<1>4. ASSUME NEW n \in Nodes, UNCHANGED <<log, golden, store>>, missed' = {} => missed = {},
             \A m \in Nodes : applied'[m] \in 0 .. Len(log) /\ applied[m] <= applied'[m]
      PROVE  ReadInv'
  <2>1. ASSUME missed = {}, NEW m \in Nodes, NEW i \in DOMAIN store[m]
        PROVE  Reads(golden[Ahead(m)' + 1], store[m][i])
    <3>1. Reads(golden[Ahead(m) + 1], store[m][i])
      BY <2>1, <1>0 DEF StoreReadable
    <3>2. Ahead(m)' \in 0 .. Len(log) /\ Ahead(m) <= Ahead(m)'
      BY <1>4, <1>0 DEF Ahead
    <3> QED
      BY <3>1, <3>2, <1>0, <1>p
  <2>2. missed = {} => StoreReadable'
    BY <2>1, <1>4 DEF StoreReadable, Reads
  <2> QED
    BY <1>4, <2>2, <1>g, <1>0 DEF ReadInv
<1>5. ASSUME NEW n \in Nodes, RecordApplied(n)
      PROVE  ReadInv'
  <2>1. /\ UNCHANGED <<log, golden, store, missed>> /\ phase[n] = "recording"
        /\ applied' = [applied EXCEPT ![n] = applied[n] + 1]
    BY <1>5 DEF RecordApplied
  <2>2. applied[n] < Len(log)
    BY <2>1 DEF RingInv, RecordingFollows
  <2>3. \A m \in Nodes : applied'[m] \in 0 .. Len(log) /\ applied[m] <= applied'[m]
    BY <2>1, <2>2, <1>0
  <2> QED
    BY <2>1, <2>3, <1>4
<1>6. ASSUME NEW n \in Nodes,
             ApplyKnownKey(n) \/ SaveRing(n) \/ LearnKey(n) \/ SaveRingFails(n) \/ Crash(n) \/ Restart(n)
      PROVE  ReadInv'
  <2>1. UNCHANGED <<log, golden, store, applied>> /\ (missed' = {} => missed = {})
    BY <1>6 DEF ApplyKnownKey, SaveRing, LearnKey, SaveRingFails, Crash, Restart
  <2>2. \A m \in Nodes : applied'[m] \in 0 .. Len(log) /\ applied[m] <= applied'[m]
    BY <2>1, <1>0
  <2> QED
    BY <2>1, <2>2, <1>4
<1>7. ASSUME NEW n \in Nodes, RewrapDeks(n)
      PROVE  ReadInv'
  <2>1. UNCHANGED <<log, golden, applied, missed>>
    BY <1>7 DEF RewrapDeks
  <2>2. PICK done : store' = [store EXCEPT ![n] =
              [i \in DOMAIN store[n] |-> IF i \in done THEN RewrapDek(ring[n], store[n][i])
                                         ELSE store[n][i]]]
    BY <1>7 DEF RewrapDeks
  <2>3. /\ DOMAIN store'[n] = DOMAIN store[n]
        /\ \A i \in DOMAIN store[n] : store'[n][i] \in {EncryptSecret(ring[n]), store[n][i]}
        /\ \A m \in Nodes \ {n} : store'[m] = store[m]
    BY <2>2, <1>0 DEF RewrapDek
  <2>4. Reads(ring[n], EncryptSecret(ring[n]))
    BY <1>0, EncryptFacts
  <2>5. missed = {} => \A m \in Nodes : \A i \in DOMAIN store'[m] :
                          Reads(golden[Ahead(m) + 1], store'[m][i])
    <3>1. ASSUME missed = {} PROVE Reads(golden[Ahead(n) + 1], EncryptSecret(ring[n]))
      <4>1. PICK i \in 0 .. Ahead(n) : ring[n] = golden[i + 1]
        BY <1>0, <3>1
      <4>2. i \in 0 .. Len(log) /\ i <= Ahead(n)
        BY <1>0, <4>1
      <4> QED
        BY <2>4, <4>1, <4>2, <1>0, <1>p
    <3>2. ASSUME missed = {}, NEW m \in Nodes, NEW i \in DOMAIN store'[m]
          PROVE  Reads(golden[Ahead(m) + 1], store'[m][i])
      <4>1. CASE m = n
        BY <2>3, <3>1, <3>2, <4>1, <1>0 DEF StoreReadable
      <4>2. CASE m # n
        BY <2>3, <3>2, <4>2, <1>0 DEF StoreReadable
      <4> QED
        BY <4>1, <4>2
    <3> QED
      BY <3>2
  <2>6. missed = {} => StoreReadable'
    BY <2>1, <2>5 DEF StoreReadable, Reads, Ahead
  <2> QED
    BY <2>1, <2>6, <1>g, <1>0 DEF ReadInv
<1>8. ASSUME NEW n \in Nodes, NEW m \in Nodes, InstallSnapshot(n, m)
      PROVE  ReadInv'
  <2>1. /\ UNCHANGED <<log, golden>> /\ (missed' = {} => missed = {})
        /\ applied' = [applied EXCEPT ![n] = applied[m]]
        /\ store' = [store EXCEPT ![n] = store[m]]
    BY <1>8 DEF InstallSnapshot
  <2>2. /\ applied'[n] = applied[m] /\ store'[n] = store[m]
        /\ \A k \in Nodes \ {n} : applied'[k] = applied[k] /\ store'[k] = store[k]
    BY <2>1, <1>0
  <2>4. Ahead(n)' = Ahead(m) /\ \A k \in Nodes \ {n} : Ahead(k)' = Ahead(k)
    BY <2>1, <2>2 DEF Ahead
  <2>5. missed = {} => \A k \in Nodes : \A i \in DOMAIN store'[k] :
                          Reads(golden[Ahead(k)' + 1], store'[k][i])
    BY <2>2, <2>4, <1>0, SMTT(30) DEF StoreReadable
  <2>3. missed = {} => StoreReadable'
    BY <2>1, <2>5 DEF StoreReadable, Reads
  <2> QED
    BY <2>1, <2>3, <1>g, <1>0 DEF ReadInv
<1>9. CASE UNCHANGED vars
  BY <1>9 DEF vars, ReadInv, GoldenGrows, Prefix, LogReadable, StoreReadable, Reads, Ahead
<1> QED
  BY <1>1, <1>2, <1>3, <1>5, <1>6, <1>7, <1>8, <1>9 DEF Next, ApplyStep

\* As long as no node missed a key, every secret is readable wherever it is
\* stored: whichever node encrypted it before a rotation reached the others
\* (encrypt_secret, decrypt_secret), rewrapped or not (rewrap_dek); at the
\* latest with the rotation that the node applies next.
THEOREM SecretsReadableHolds == Spec => []SecretsReadable
<1>1. TypeOK /\ RingInv /\ ReadInv => SecretsReadable
  <2> SUFFICES ASSUME TypeOK, RingInv, ReadInv, missed = {}, NEW n \in Nodes,
                      NEW i \in DOMAIN store[n]
               PROVE  \/ Decrypts(ring[n], store[n][i])
                      \/ /\ applied[n] < Len(log) /\ Learns(ring[n], Command(n))
                         /\ Decrypts(Push(ring[n], Command(n).kek), store[n][i])
    BY DEF SecretsReadable
  <2>1. /\ Reads(golden[Ahead(n) + 1], store[n][i]) /\ applied[n] \in 0 .. Len(log) /\ Len(log) \in Nat
        /\ \A k \in 1 .. Len(log) + 1 : golden[k] \in Rings
    BY DEF ReadInv, StoreReadable, TypeOK
  <2>2. CASE applied[n] < Len(log)
    <3>1. Ahead(n) + 1 = applied[n] + 2 /\ golden[applied[n] + 2] \in Rings
      BY <2>1, <2>2 DEF Ahead
    <3>2. Decrypts(golden[applied[n] + 2], store[n][i])
      BY <2>1, <3>1, ReadsDecrypts
    <3> QED
      BY <2>2, <3>2, NextRing
  <2>3. CASE ~(applied[n] < Len(log))
    <3>1. Ahead(n) = applied[n] /\ applied[n] = Len(log)
      BY <2>1, <2>3 DEF Ahead
    <3>2. PICK k \in {applied[n], applied[n] + 1} : k <= Len(log) /\ ring[n] = golden[k + 1]
      BY DEF RingInv, FilesFollow, Follows
    <3>3. k = applied[n]
      BY <2>1, <3>1, <3>2
    <3>4. ring[n] = golden[Ahead(n) + 1] /\ ring[n] \in Rings
      BY <3>1, <3>2, <3>3 DEF TypeOK
    <3> QED
      BY <2>1, <3>4, ReadsDecrypts
  <2> QED
    BY <2>2, <2>3
<1>2. Spec => []ReadInv
  BY ReadInit, ReadNext, KeysHolds, PTL DEF Spec
<1> QED
  BY <1>1, <1>2, KeysHolds, PTL

\* What RewrapKeepsReadable says of a step.
RewrapStep == \A n \in Nodes : RewrapDeks(n) =>
    \A i \in DOMAIN store[n] :
       Decrypts(ring[n], store[n][i]) => Decrypts(ring[n], store'[n][i])

\* Rewrapping (rewrap_dek, RewrapDeks) costs no node a secret that it could
\* read, whatever keys the node missed.
THEOREM RewrapKeepsReadableHolds == Spec => RewrapKeepsReadable
<1>1. TypeOK /\ RingInv /\ [Next]_vars => [RewrapStep]_vars
  <2> SUFFICES ASSUME TypeOK, RingInv, NEW n \in Nodes, RewrapDeks(n), NEW i \in DOMAIN store[n],
                      Decrypts(ring[n], store[n][i])
               PROVE  Decrypts(ring[n], store'[n][i])
    BY DEF RewrapStep
  <2>1. PICK done : store' = [store EXCEPT ![n] =
              [j \in DOMAIN store[n] |-> IF j \in done THEN RewrapDek(ring[n], store[n][j])
                                         ELSE store[n][j]]]
    BY DEF RewrapDeks
  <2>2. store'[n][i] \in {EncryptSecret(ring[n]), store[n][i]}
    BY <2>1 DEF RewrapDek, TypeOK
  <2>3. Decrypts(ring[n], EncryptSecret(ring[n]))
    <3>1. Reads(ring[n], EncryptSecret(ring[n])) /\ ring[n] \in Rings
      BY EncryptFacts DEF RingInv, RingsProper, Proper
    <3> QED
      BY <3>1, ReadsDecrypts
  <2> QED
    BY <2>2, <2>3
<1> QED
  BY <1>1, KeysHolds, PTL DEF Spec, RewrapKeepsReadable, RewrapStep
=============================================================================
