------------------------------ MODULE WatchProofs ------------------------------
(***************************************************************************)
(* Theorems about Watch, for any number of clients, versions and gray      *)
(* events and any capacity of the channels: no client of an open stream is *)
(* left behind what its node applied while the pipeline is intact, and     *)
(* what the listeners hear is what Feed allows, through lags,              *)
(* reconnections and snapshots.                                            *)
(***************************************************************************)
EXTENDS Watch, SequenceTheorems, TLAPS

(* Versions along the log grow, and every one of them was published by an   *)
(* entry that says so.                                                      *)
LogInv ==
    /\ \A m, n \in DOMAIN log : m <= n => log[m].version <= log[n].version
    /\ \A n \in DOMAIN log : log[n].kind # "resync"
    /\ \A v \in 1 .. Committed : \E n \in DOMAIN log : log[n].version = v /\ log[n].base # v

(* An event that some entry of the log made.                                *)
FromLog(e) == \E n \in DOMAIN log : e = log[n]

(* The hub has what was taken from the channel; and as long as no snapshot  *)
(* has taken the place of entries, channel and pending are the applied log. *)
PipeInv ==
    /\ taken = Len(hub) /\ \A i \in DOMAIN hub : hub[i] = channel[i]
    /\ \A i \in DOMAIN channel : FromLog(channel[i])
    /\ \A i \in DOMAIN pending : FromLog(pending[i])
    /\ ~skipped =>
          /\ applied = Len(channel) + Len(pending)
          /\ \A i \in DOMAIN channel : channel[i] = log[i]
          /\ \A i \in DOMAIN pending : pending[i] = log[Len(channel) + i]

(* A replay that is under way: published versions in increasing order, all  *)
(* of them new to the client.                                               *)
ReplayInv(c) ==
    LET r == streams[c].replay
    IN  /\ \A i \in DOMAIN r :
              r[i].version > cursor[c] /\ r[i].version <= Committed /\ r[i].kind # "resync"
        /\ \A i, j \in DOMAIN r : i < j => r[i].version < r[j].version

(* What the server holds for the last event the client knows.               *)
LastInv(c) ==
    /\ streams[c].protocol = "grpc" => streams[c].last = cursor[c]
    /\ \/ streams[c].last <= cursor[c]
       \/ \E i \in DOMAIN streams[c].replay : streams[c].last <= streams[c].replay[i].version

(* What the node had applied when the history was read.                     *)
SeenInv(c) ==
    /\ streams[c].seen <= applied
    /\ \A n \in 1 .. streams[c].seen :
          \/ log[n].version <= cursor[c]
          \/ \E i \in DOMAIN streams[c].replay :
                \/ streams[c].replay[i].version = log[n].version
                \/ streams[c].force /\ streams[c].replay[i].version > log[n].version
          \/ streams[c].force /\ streams[c].protocol = "grpc"

(* What the stream has passed since it subscribed.                          *)
PassedInv(c) ==
    /\ streams[c].replay # <<>> => streams[c].next = streams[c].from
    /\ \A i \in streams[c].from + 1 .. streams[c].next : hub[i].version <= cursor[c]

(* Records are removed only below the active version.                       *)
OldestInv == oldest = 1 \/ oldest <= Version

StreamInv ==
    \A c \in Clients :
        /\ cursor[c] <= Committed
        /\ streams[c].at \in {"read", "open"} => ReplayInv(c) /\ LastInv(c) /\ SeenInv(c)
        /\ streams[c].at = "open" => PassedInv(c)

WatchInv == TypeOK /\ LogInv /\ PipeInv /\ OldestInv /\ StreamInv

-----------------------------------------------------------------------------
(* Types *)

\* The numbers of versions.
LEMMA Versions ==
    ASSUME TypeOK
    PROVE  /\ Committed \in 0 .. MaxVersion /\ Version \in 0 .. MaxVersion
           /\ Len(log) \in Nat /\ DOMAIN log = 1 .. Len(log)
           /\ \A n \in DOMAIN log : log[n] \in Events /\ log[n].version \in 0 .. MaxVersion
           /\ \A n \in 0 .. Len(log) : VersionAt(n) \in 0 .. MaxVersion
<1>1. /\ Len(log) \in Nat /\ DOMAIN log = 1 .. Len(log) /\ \A n \in DOMAIN log : log[n] \in Events
      /\ applied \in 0 .. Len(log)
  BY DEF TypeOK
<1>2. \A n \in DOMAIN log : log[n].version \in 0 .. MaxVersion
  BY <1>1 DEF Events
<1>3. \A n \in 0 .. Len(log) : VersionAt(n) \in 0 .. MaxVersion
  BY <1>1, <1>2, WatchAssumption DEF VersionAt
<1> QED
  BY <1>1, <1>2, <1>3 DEF Committed, Version

\* A connection that is down.
LEMMA DownType ==
    ASSUME NEW p \in Protocols
    PROVE  Down(p) \in Streams /\ Down(p).at = "down" /\ Down(p).next = 0 /\ Down(p).from = 0
<1>1. <<>> \in Seq(Events) /\ 0 \in 0 .. MaxVersion
  BY WatchAssumption
<1> QED
  BY <1>1 DEF Down, Streams

\* The node's part of the types, and the clients'.
NodeTypes ==
    /\ log \in Seq(Events) /\ applied \in 0 .. Len(log) /\ oldest \in 1 .. MaxVersion + 1
    /\ pending \in Seq(Events) /\ sending \in BOOLEAN
    /\ channel \in Seq(Events) /\ taken \in 0 .. Len(channel)
    /\ forwarder \in {"running", "ended"} /\ hub \in Seq(Events) /\ skipped \in BOOLEAN

ClientTypes ==
    /\ streams \in [Clients -> Streams]
    /\ \A c \in Clients : streams[c].next \in streams[c].from .. Len(hub)
    /\ cursor \in [Clients -> 0 .. MaxVersion]
    /\ heard \in [Clients -> Seq(Events)]

\* What every step of the node does to what it has: logs only grow.
Grows ==
    /\ Len(log) <= Len(log') /\ \A n \in DOMAIN log : log'[n] = log[n]
    /\ Len(hub) <= Len(hub') /\ \A n \in DOMAIN hub : hub'[n] = hub[n]
    /\ applied <= applied'
    /\ UNCHANGED clientVars

NodeStep ==
    \/ \E kind \in {"plain", "gray"} : Publish(kind)
    \/ GrayChange \/ Apply \/ Broadcast \/ InstallSnapshot \/ Prune \/ Forward \/ ForwarderLags

\* Committing an event.
LEMMA CommitFacts ==
    ASSUME TypeOK, NEW e \in Events, Commit(e)
    PROVE  NodeTypes' /\ Grows
<1>1. /\ log' \in Seq(Events) /\ Len(log') = Len(log) + 1 /\ Len(log) \in Nat
      /\ \A n \in DOMAIN log : log'[n] = log[n]
  BY DEF TypeOK, Commit
<1>2. applied' \in 0 .. Len(log')
  BY <1>1 DEF TypeOK, Commit
<1>3. NodeTypes'
  BY <1>1, <1>2 DEF TypeOK, NodeTypes, Commit
<1>4. Len(hub) <= Len(hub') /\ applied <= applied' /\ Len(log) <= Len(log')
  BY <1>1 DEF TypeOK, Commit
<1> QED
  BY <1>1, <1>3, <1>4 DEF Grows, Commit

\* The steps of the node.
LEMMA NodeStepFacts ==
    ASSUME TypeOK, NodeStep
    PROVE  NodeTypes' /\ Grows
<1>0. /\ Committed \in 0 .. MaxVersion /\ Version \in 0 .. MaxVersion /\ MaxVersion \in Nat
      /\ Len(log) \in Nat /\ Len(hub) \in Nat /\ Len(channel) \in Nat /\ DOMAIN log = 1 .. Len(log)
  BY Versions, WatchAssumption DEF TypeOK
<1>1. ASSUME NEW kind \in {"plain", "gray"}, Publish(kind) PROVE NodeTypes' /\ Grows
  <2>1. [version |-> Committed + 1, kind |-> kind, base |-> Committed] \in Events
    BY <1>0, <1>1 DEF Events, Kinds, Publish
  <2> QED
    BY <1>1, <2>1, CommitFacts DEF Publish
<1>2. CASE GrayChange
  <2>1. [version |-> Committed, kind |-> "gray", base |-> Committed] \in Events
    BY <1>0 DEF Events, Kinds
  <2> QED
    BY <1>2, <2>1, CommitFacts DEF GrayChange
<1>3. CASE Apply
  <2>1. log[applied + 1] \in Events
    BY <1>0, <1>3 DEF TypeOK, Apply
  <2>2. pending' \in Seq(Events) /\ applied' \in 0 .. Len(log) /\ applied <= applied'
    BY <1>0, <1>3, <2>1 DEF TypeOK, Apply
  <2> QED
    BY <1>0, <1>3, <2>2 DEF TypeOK, NodeTypes, Grows, Apply
<1>4. CASE Broadcast
  <2>1. Head(pending) \in Events /\ Tail(pending) \in Seq(Events)
    BY <1>4 DEF TypeOK, Broadcast
  <2>2. channel' \in Seq(Events) /\ taken' \in 0 .. Len(channel')
    BY <1>0, <1>4, <2>1 DEF TypeOK, Broadcast
  <2>3. sending' \in BOOLEAN
    BY <1>4 DEF Broadcast
  <2> QED
    BY <1>0, <1>4, <2>1, <2>2, <2>3 DEF TypeOK, NodeTypes, Grows, Broadcast
<1>5. CASE InstallSnapshot
  <2>1. PICK n \in applied + 1 .. Len(log) :
           applied' = n /\ skipped' = TRUE /\ oldest' \in {oldest, Max2(oldest, VersionAt(n))}
    BY <1>5 DEF InstallSnapshot
  <2>2. n \in 0 .. Len(log) /\ VersionAt(n) \in 0 .. MaxVersion
    BY <1>0, Versions DEF TypeOK
  <2>3. oldest' \in 1 .. MaxVersion + 1
    BY <1>0, <2>1, <2>2 DEF TypeOK, Max2
  <2>4. applied' \in 0 .. Len(log) /\ applied <= applied'
    BY <1>0, <2>1, <2>2 DEF TypeOK
  <2> QED
    BY <1>0, <1>5, <2>1, <2>3, <2>4 DEF TypeOK, NodeTypes, Grows, InstallSnapshot
<1>6. CASE Prune
  <2>1. oldest' \in 1 .. MaxVersion + 1
    BY <1>0, <1>6 DEF TypeOK, Prune
  <2> QED
    BY <1>0, <1>6, <2>1 DEF TypeOK, NodeTypes, Grows, Prune
<1>7. CASE Forward
  <2>1. channel[taken + 1] \in Events /\ taken' \in 0 .. Len(channel)
    BY <1>0, <1>7 DEF TypeOK, Forward
  <2>2. /\ hub' \in Seq(Events) /\ Len(hub') = Len(hub) + 1
        /\ \A n \in DOMAIN hub : hub'[n] = hub[n]
    BY <1>7, <2>1 DEF TypeOK, Forward
  <2> QED
    BY <1>0, <1>7, <2>1, <2>2 DEF TypeOK, NodeTypes, Grows, Forward
<1>8. CASE ForwarderLags
  BY <1>0, <1>8 DEF TypeOK, NodeTypes, Grows, ForwarderLags
<1> QED
  BY <1>1, <1>2, <1>3, <1>4, <1>5, <1>6, <1>7, <1>8 DEF NodeStep


\* Steps of a client change its own connection, and nothing of the node.
ClientStep(c) == Fetch(c) \/ Server(c) \/ Disconnect(c)

\* What an event does to the client that receives it.
LEMMA ReceiveFacts ==
    ASSUME TypeOK, NEW c \in Clients, NEW e \in Events, Receive(c, e)
    PROVE  /\ cursor' \in [Clients -> 0 .. MaxVersion] /\ heard' \in [Clients -> Seq(Events)]
           /\ cursor'[c] = Max2(cursor[c], e.version)
           /\ heard'[c] = IF Accepts(c, e) /\ ~Repeats(c, e) THEN Append(heard[c], e) ELSE heard[c]
           /\ \A d \in Clients \ {c} : cursor'[d] = cursor[d] /\ heard'[d] = heard[d]
           /\ UNCHANGED nodeVars
<1>1. e.version \in 0 .. MaxVersion /\ cursor[c] \in 0 .. MaxVersion
  BY DEF TypeOK, Events
<1>2. Max2(cursor[c], e.version) \in 0 .. MaxVersion
  BY <1>1 DEF Max2
<1>3. cursor' = [cursor EXCEPT ![c] = Max2(cursor[c], e.version)]
  BY DEF Receive
<1>4. heard' = [heard EXCEPT ![c] = IF Accepts(c, e) /\ ~Repeats(c, e) THEN Append(heard[c], e)
                                    ELSE heard[c]]
  BY DEF Receive
<1>5. heard[c] \in Seq(Events) /\ Append(heard[c], e) \in Seq(Events)
  BY DEF TypeOK
<1>6. UNCHANGED nodeVars
  BY DEF Receive
<1>7. cursor' \in [Clients -> 0 .. MaxVersion] /\ cursor'[c] = Max2(cursor[c], e.version)
      /\ \A d \in Clients \ {c} : cursor'[d] = cursor[d]
  BY <1>2, <1>3 DEF TypeOK
<1>8. /\ heard' \in [Clients -> Seq(Events)]
      /\ heard'[c] = IF Accepts(c, e) /\ ~Repeats(c, e) THEN Append(heard[c], e) ELSE heard[c]
      /\ \A d \in Clients \ {c} : heard'[d] = heard[d]
  <2> DEFINE h == IF Accepts(c, e) /\ ~Repeats(c, e) THEN Append(heard[c], e) ELSE heard[c]
  <2>1. h \in Seq(Events) /\ heard' = [heard EXCEPT ![c] = h]
    BY <1>4, <1>5
  <2> HIDE DEF h
  <2>2. heard' \in [Clients -> Seq(Events)] /\ heard'[c] = h
        /\ \A d \in Clients \ {c} : heard'[d] = heard[d]
    BY <2>1 DEF TypeOK
  <2> QED
    BY <2>2 DEF h
<1> QED
  BY <1>6, <1>7, <1>8

\* The records that a replay reads: consecutive versions, as the log published them.
LEMMA ReplayedFacts ==
    ASSUME TypeOK, LogInv, NEW after \in 0 .. MaxVersion,
           NEW first, first = Max2(oldest, after + 1)
    PROVE  /\ Replayed(after) \in Seq(Events)
           /\ DOMAIN Replayed(after) = 1 .. Version - first + 1
           /\ \A i \in DOMAIN Replayed(after) :
                 /\ Replayed(after)[i].version = first + i - 1
                 /\ Replayed(after)[i].kind # "resync"
<1>0. /\ Committed \in 0 .. MaxVersion /\ Version \in 0 .. MaxVersion /\ MaxVersion \in Nat
      /\ Len(log) \in Nat /\ DOMAIN log = 1 .. Len(log) /\ applied \in 0 .. Len(log)
      /\ \A n \in DOMAIN log : log[n] \in Events /\ log[n].version \in 0 .. MaxVersion
      /\ oldest \in 1 .. MaxVersion + 1
  BY Versions, WatchAssumption DEF TypeOK
<1>1. Version <= Committed
  <2>1. CASE applied = 0
    BY <1>0, <2>1 DEF Version, VersionAt
  <2>2. CASE applied # 0
    <3>1. applied \in DOMAIN log /\ Len(log) \in DOMAIN log /\ applied <= Len(log)
      BY <1>0, <2>2
    <3>2. log[applied].version <= log[Len(log)].version
      BY <3>1 DEF LogInv
    <3> QED
      BY <1>0, <2>2, <3>1, <3>2 DEF Version, Committed, VersionAt
  <2> QED
    BY <2>1, <2>2
<1>2. first \in Nat /\ first >= 1 /\ first > after /\ first >= oldest
  BY <1>0 DEF Max2
<1> DEFINE at(v) == CHOOSE n \in DOMAIN log : log[n].version = v /\ log[n].base # v
           ev(i) == [log[at(first + i - 1)] EXCEPT !.base = IF i = 1 THEN 0 ELSE @]
           N == Version - first + 1
<1>3. ASSUME NEW i \in 1 .. N PROVE at(first + i - 1) \in DOMAIN log /\ log[at(first + i - 1)].version = first + i - 1
  <2>1. first + i - 1 \in 1 .. Committed
    BY <1>0, <1>1, <1>2, SMTT(30)
  <2>2. \E n \in DOMAIN log : log[n].version = first + i - 1 /\ log[n].base # first + i - 1
    BY <2>1 DEF LogInv
  <2> QED
    BY <2>2
<1>4. ASSUME NEW i \in 1 .. N
      PROVE  ev(i) \in Events /\ ev(i).version = first + i - 1 /\ ev(i).kind # "resync"
  <2>1. log[at(first + i - 1)] \in Events /\ log[at(first + i - 1)].kind # "resync"
    BY <1>0, <1>3 DEF LogInv
  <2> DEFINE r == log[at(first + i - 1)]
             b == IF i = 1 THEN 0 ELSE r.base
  <2>2. r \in Events /\ r.kind # "resync" /\ r.version = first + i - 1
    BY <1>3, <2>1
  <2>3. ev(i) = [r EXCEPT !.base = b]
    OBVIOUS
  <2> HIDE DEF at, r, ev
  <2>4. b \in 0 .. MaxVersion
    BY <1>0, <2>2 DEF Events
  <2> HIDE DEF b
  <2>5. [r EXCEPT !.base = b] = [version |-> r.version, kind |-> r.kind, base |-> b]
    BY <2>2 DEF Events
  <2>6. [version |-> r.version, kind |-> r.kind, base |-> b] \in Events
    BY <2>2, <2>4 DEF Events
  <2> QED
    BY <2>2, <2>3, <2>5, <2>6
<1>5. Replayed(after) = [i \in 1 .. N |-> ev(i)]
  BY DEF Replayed
<1>6. N \in Int
  BY <1>0, <1>2
<1> HIDE DEF ev, N
<1>7. [i \in 1 .. N |-> ev(i)] \in Seq(Events)
  <2>1. PICK M \in Nat : 1 .. N = 1 .. M
    <3>1. CASE N >= 0
      BY <1>6, <3>1
    <3>2. CASE N < 0
      <4>1. 0 \in Nat /\ 1 .. N = 1 .. 0
        BY <1>6, <3>2
      <4> QED
        BY <4>1
    <3> QED
      BY <1>6, <3>1, <3>2
  <2>2. \A i \in 1 .. M : ev(i) \in Events
    BY <1>4, <2>1
  <2>3. [i \in 1 .. M |-> ev(i)] \in [1 .. M -> Events]
    BY <2>2
  <2>4. [i \in 1 .. M |-> ev(i)] \in Seq(Events)
    BY <2>3
  <2> QED
    BY <2>1, <2>4
<1>8. DOMAIN Replayed(after) = 1 .. N /\ \A i \in 1 .. N : Replayed(after)[i] = ev(i)
  BY <1>5
<1> QED
  BY <1>4, <1>5, <1>7, <1>8 DEF N


-----------------------------------------------------------------------------
(* What the steps of a client do to its connection *)

\* A connection, field by field.
Link(a, p, r, f, l, n, s, m) ==
    [at |-> a, protocol |-> p, replay |-> r, force |-> f, last |-> l, next |-> n, seen |-> s,
     from |-> m]

LEMMA LinkOf ==
    ASSUME NEW t \in Streams
    PROVE  t = Link(t.at, t.protocol, t.replay, t.force, t.last, t.next, t.seen, t.from)
BY DEF Link, Streams

\* The other connections stay.
OthersStay(c) == \A d \in Clients \ {c} : streams'[d] = streams[d]

LEMMA LinkStep ==
    ASSUME TypeOK, NEW c \in Clients, NEW a \in {"down", "fetched", "read", "open"},
           NEW r \in Seq(Events), NEW f \in BOOLEAN, NEW l \in 0 .. MaxVersion,
           NEW n \in Nat, NEW s \in Nat, NEW m \in Nat,
           streams' = [streams EXCEPT ![c] = Link(a, streams[c].protocol, r, f, l, n, s, m)]
    PROVE  /\ streams' \in [Clients -> Streams]
           /\ streams'[c] = Link(a, streams[c].protocol, r, f, l, n, s, m)
           /\ OthersStay(c)
<1>1. Link(a, streams[c].protocol, r, f, l, n, s, m) \in Streams
  BY DEF Link, Streams, TypeOK
<1> QED
  BY <1>1 DEF TypeOK, OthersStay

\* The fields of a connection.
LEMMA Fields ==
    ASSUME TypeOK, NEW c \in Clients
    PROVE  /\ streams[c] = Link(streams[c].at, streams[c].protocol, streams[c].replay,
                                streams[c].force, streams[c].last, streams[c].next,
                                streams[c].seen, streams[c].from)
           /\ streams[c].at \in {"down", "fetched", "read", "open"}
           /\ streams[c].protocol \in Protocols /\ streams[c].replay \in Seq(Events)
           /\ streams[c].force \in BOOLEAN /\ streams[c].last \in 0 .. MaxVersion
           /\ streams[c].next \in Nat /\ streams[c].seen \in Nat /\ streams[c].from \in Nat
           /\ streams[c].from <= streams[c].next /\ streams[c].next <= Len(hub) /\ Len(hub) \in Nat
           /\ cursor[c] \in 0 .. MaxVersion /\ heard[c] \in Seq(Events)
<1>1. /\ streams[c] \in Streams /\ cursor[c] \in 0 .. MaxVersion /\ heard[c] \in Seq(Events)
      /\ Len(hub) \in Nat
  BY DEF TypeOK
<1>2. streams[c].next \in streams[c].from .. Len(hub)
  BY DEF TypeOK
<1>3. /\ streams[c] = Link(streams[c].at, streams[c].protocol, streams[c].replay,
                                streams[c].force, streams[c].last, streams[c].next,
                                streams[c].seen, streams[c].from)
      /\ streams[c].at \in {"down", "fetched", "read", "open"}
      /\ streams[c].protocol \in Protocols /\ streams[c].replay \in Seq(Events)
      /\ streams[c].force \in BOOLEAN /\ streams[c].last \in 0 .. MaxVersion
      /\ streams[c].next \in Nat /\ streams[c].seen \in Nat /\ streams[c].from \in Nat
  BY <1>1 DEF Link, Streams
<1>4. streams[c].from <= streams[c].next /\ streams[c].next <= Len(hub)
  BY <1>1, <1>2, <1>3
<1> QED
  BY <1>1, <1>3, <1>4

LEMMA FetchFacts ==
    ASSUME TypeOK, NEW c \in Clients, Fetch(c)
    PROVE  LET s == streams[c]
           IN  /\ streams' \in [Clients -> Streams] /\ OthersStay(c)
               /\ streams'[c] = Link("fetched", s.protocol, s.replay, s.force, s.last, s.next,
                                     s.seen, s.from)
<1> DEFINE t == streams[c]
<1>1. t = Link(t.at, t.protocol, t.replay, t.force, t.last, t.next, t.seen, t.from)
  BY Fields
<1>2. streams' = [streams EXCEPT ![c] =
                     Link("fetched", t.protocol, t.replay, t.force, t.last, t.next, t.seen, t.from)]
  <2>1. streams' = [streams EXCEPT ![c] = [t EXCEPT !.at = "fetched"]]
    BY DEF Fetch
  <2>2. t \in Streams
    BY DEF TypeOK
  <2> HIDE DEF t
  <2>3. [t EXCEPT !.at = "fetched"]
           = Link("fetched", t.protocol, t.replay, t.force, t.last, t.next, t.seen, t.from)
    BY <2>2 DEF Link, Streams
  <2> QED
    BY <2>1, <2>3
<1> QED
  BY <1>2, Fields, LinkStep, ZenonT(30)

LEMMA ReadFacts ==
    ASSUME TypeOK, LogInv, NEW c \in Clients, ReadHistory(c)
    PROVE  LET s == streams[c]
               after == cursor[c]
               replay == IF after > 0 THEN Replayed(after) ELSE <<>>
               force == after > 0 /\ Version > 0 /\ after < oldest /\ after < Version
               r == IF force /\ s.protocol = "grpc" THEN <<>> ELSE replay
               l == IF s.protocol = "grpc" THEN after ELSE IF replay = <<>> THEN 0 ELSE Version
               n == IF after > 0 THEN applied ELSE 0
           IN  /\ streams' \in [Clients -> Streams] /\ OthersStay(c)
               /\ streams'[c] = Link("read", s.protocol, r, force, l, s.next, n, s.from)
               /\ r \in Seq(Events) /\ replay \in Seq(Events)
<1> DEFINE s == streams[c]
           after == cursor[c]
           replay == IF after > 0 THEN Replayed(after) ELSE <<>>
           force == after > 0 /\ Version > 0 /\ after < oldest /\ after < Version
           r == IF force /\ s.protocol = "grpc" THEN <<>> ELSE replay
           l == IF s.protocol = "grpc" THEN after ELSE IF replay = <<>> THEN 0 ELSE Version
           n == IF after > 0 THEN applied ELSE 0
<1>1. s = Link(s.at, s.protocol, s.replay, s.force, s.last, s.next, s.seen, s.from)
      /\ s.next \in Nat /\ s.from \in Nat /\ after \in 0 .. MaxVersion
  BY Fields
<1>2. Replayed(after) \in Seq(Events)
  BY <1>1, ReplayedFacts
<1>3. replay \in Seq(Events) /\ r \in Seq(Events)
  BY <1>2
<1>4. force \in BOOLEAN
  OBVIOUS
<1>5. l \in 0 .. MaxVersion
  BY <1>1, Versions, WatchAssumption
<1>6. n \in Nat
  BY DEF TypeOK
<1>7. streams' = [streams EXCEPT ![c].at = "read", ![c].replay = r, ![c].force = force,
                                 ![c].last = l, ![c].seen = n]
  BY DEF ReadHistory
<1> HIDE DEF replay, force, r, l, n
<1>8. streams' = [streams EXCEPT ![c] = Link("read", s.protocol, r, force, l, s.next, n, s.from)]
  <2>1. streams' = [streams EXCEPT ![c] = [s EXCEPT !.at = "read", !.replay = r, !.force = force,
                                                    !.last = l, !.seen = n]]
    BY <1>7
  <2>2. s \in Streams
    BY DEF TypeOK
  <2> HIDE DEF s
  <2> DEFINE u == [s EXCEPT !.at = "read", !.replay = r, !.force = force, !.last = l, !.seen = n]
  <2>3. /\ u.at = "read" /\ u.protocol = s.protocol /\ u.replay = r /\ u.force = force
        /\ u.last = l /\ u.next = s.next /\ u.seen = n /\ u.from = s.from /\ u \in Streams
    BY <1>3, <1>4, <1>5, <1>6, <2>2 DEF Streams
  <2> HIDE DEF u
  <2>4. u = Link("read", s.protocol, r, force, l, s.next, n, s.from)
    BY <2>3, LinkOf
  <2> QED
    BY <2>1, <2>4 DEF u
<1>9. streams' \in [Clients -> Streams] /\ OthersStay(c)
      /\ streams'[c] = Link("read", s.protocol, r, force, l, s.next, n, s.from)
  BY <1>1, <1>3, <1>4, <1>5, <1>6, <1>8, LinkStep, ZenonT(30)
<1> QED
  BY <1>3, <1>9 DEF replay, force, r, l, n

LEMMA SubscribeFacts ==
    ASSUME TypeOK, NEW c \in Clients, Subscribe(c)
    PROVE  LET s == streams[c]
           IN  /\ streams' \in [Clients -> Streams] /\ OthersStay(c)
               /\ streams'[c] = Link("open", s.protocol, s.replay, s.force, s.last, Len(hub),
                                     s.seen, Len(hub))
<1> DEFINE t == streams[c]
<1>1. t = Link(t.at, t.protocol, t.replay, t.force, t.last, t.next, t.seen, t.from)
  BY Fields
<1>2. streams' = [streams EXCEPT ![c] =
                   Link("open", t.protocol, t.replay, t.force, t.last, Len(hub), t.seen, Len(hub))]
  <2>1. streams' = [streams EXCEPT ![c] = [t EXCEPT !.at = "open", !.next = Len(hub),
                                                    !.from = Len(hub)]]
    BY DEF Subscribe
  <2>2. t \in Streams
    BY DEF TypeOK
  <2> HIDE DEF t
  <2> DEFINE u == [t EXCEPT !.at = "open", !.next = Len(hub), !.from = Len(hub)]
  <2>3. Len(hub) \in Nat
    BY DEF TypeOK
  <2>4. /\ u.at = "open" /\ u.protocol = t.protocol /\ u.replay = t.replay /\ u.force = t.force
        /\ u.last = t.last /\ u.next = Len(hub) /\ u.seen = t.seen /\ u.from = Len(hub)
        /\ u \in Streams
    BY <2>2, <2>3 DEF Streams
  <2> HIDE DEF u
  <2>5. u = Link("open", t.protocol, t.replay, t.force, t.last, Len(hub), t.seen, Len(hub))
    BY <2>4, LinkOf
  <2> QED
    BY <2>1, <2>5 DEF u
<1> QED
  BY <1>2, Fields, LinkStep, ZenonT(30)

\* Whatever ends a connection.
LEMMA DownFacts ==
    ASSUME TypeOK, NEW c \in Clients, streams' = [streams EXCEPT ![c] = Down(streams[c].protocol)]
    PROVE  /\ streams' \in [Clients -> Streams] /\ OthersStay(c)
           /\ streams'[c].at = "down" /\ streams'[c].next = 0 /\ streams'[c].from = 0
<1>1. Down(streams[c].protocol) \in Streams
  BY Fields, DownType
<1>2. streams' \in [Clients -> Streams] /\ OthersStay(c) /\ streams'[c] = Down(streams[c].protocol)
  BY <1>1 DEF TypeOK, OthersStay
<1> QED
  BY <1>2, Fields, DownType

LEMMA SendReplayFacts ==
    ASSUME TypeOK, NEW c \in Clients, SendReplay(c)
    PROVE  LET s == streams[c]
               e == Head(s.replay)
           IN  /\ streams' \in [Clients -> Streams] /\ OthersStay(c)
               /\ streams'[c] = Link("open", s.protocol, Tail(s.replay), s.force,
                                     Max2(s.last, e.version), s.next, s.seen, s.from)
               /\ e \in Events /\ Receive(c, e) /\ Tail(s.replay) \in Seq(Events)
<1> DEFINE s == streams[c]
           e == Head(s.replay)
           l == Max2(s.last, e.version)
           r == Tail(s.replay)
<1>1. /\ s.replay \in Seq(Events) /\ s.last \in 0 .. MaxVersion /\ s.next \in Nat
      /\ s.seen \in Nat /\ s.from \in Nat /\ s.force \in BOOLEAN
  BY Fields
<1>2. s.replay # <<>> /\ s.at = "open" /\ Receive(c, e)
  BY DEF SendReplay
<1>3. e \in Events /\ r \in Seq(Events)
  BY <1>1, <1>2
<1>4. l \in 0 .. MaxVersion
  BY <1>1, <1>3 DEF Max2, Events
<1>5. streams' = [streams EXCEPT ![c].replay = r, ![c].last = l]
  BY DEF SendReplay
<1>6. s \in Streams
  BY DEF TypeOK
<1> HIDE DEF l, r, e
<1>7. streams' = [streams EXCEPT ![c] = [s EXCEPT !.replay = r, !.last = l]]
  BY <1>5
<1> DEFINE u == [s EXCEPT !.replay = r, !.last = l]
<1> HIDE DEF s
<1>8. /\ u.at = "open" /\ u.protocol = s.protocol /\ u.replay = r /\ u.force = s.force
      /\ u.last = l /\ u.next = s.next /\ u.seen = s.seen /\ u.from = s.from /\ u \in Streams
  BY <1>2, <1>3, <1>4, <1>6 DEF Streams
<1> HIDE DEF u
<1>9. u = Link("open", s.protocol, r, s.force, l, s.next, s.seen, s.from)
  BY <1>8, LinkOf
<1>10. streams' = [streams EXCEPT ![c] = u]
  BY <1>7 DEF u
<1>11. streams' \in [Clients -> Streams] /\ OthersStay(c) /\ streams'[c] = u
  BY <1>8, <1>10 DEF TypeOK, OthersStay
<1> QED
  BY <1>2, <1>3, <1>9, <1>11 DEF l, r, e, s

LEMMA SendLiveFacts ==
    ASSUME TypeOK, NEW c \in Clients, SendLive(c)
    PROVE  LET s == streams[c]
               e == hub[s.next + 1]
               l == IF s.protocol = "grpc" THEN Max2(s.last, e.version) ELSE s.last
           IN  /\ streams' \in [Clients -> Streams] /\ OthersStay(c)
               /\ s.at = "open" /\ s.replay = <<>> /\ s.next < Len(hub) /\ e \in Events
               /\ \/ /\ e.kind = "gray" \/ e.version > s.last
                     /\ Receive(c, e)
                     /\ streams'[c] = Link("open", s.protocol, s.replay, s.force, l, s.next + 1,
                                           s.seen, s.from)
                  \/ /\ e.kind # "gray" /\ ~(e.version > s.last)
                     /\ UNCHANGED <<nodeVars, cursor, heard>>
                     /\ streams'[c] = Link("open", s.protocol, s.replay, s.force, s.last,
                                           s.next + 1, s.seen, s.from)
<1> DEFINE s == streams[c]
           e == hub[s.next + 1]
           l == IF s.protocol = "grpc" THEN Max2(s.last, e.version) ELSE s.last
<1>1. /\ s.replay \in Seq(Events) /\ s.last \in 0 .. MaxVersion /\ s.next \in Nat
      /\ s.seen \in Nat /\ s.from \in Nat /\ s.force \in BOOLEAN /\ Len(hub) \in Nat
  BY Fields
<1>2. s.replay = <<>> /\ s.at = "open" /\ s.next < Len(hub)
  BY DEF SendLive, Live
<1>3. e \in Events
  BY <1>1, <1>2 DEF TypeOK
<1>4. l \in 0 .. MaxVersion
  BY <1>1, <1>3 DEF Max2, Events
<1>5. s \in Streams
  BY DEF TypeOK
<1>6. CASE e.kind = "gray" \/ e.version > s.last
  <2>1. Receive(c, e) /\ streams' = [streams EXCEPT ![c] = Pass(s, e)]
    BY <1>6 DEF SendLive
  <2>2. Pass(s, e) = [s EXCEPT !.next = s.next + 1, !.last = l]
    BY DEF Pass
  <2> DEFINE u == [s EXCEPT !.next = s.next + 1, !.last = l]
  <2> HIDE DEF s, l, e
  <2>3. /\ u.at = "open" /\ u.protocol = s.protocol /\ u.replay = s.replay /\ u.force = s.force
        /\ u.last = l /\ u.next = s.next + 1 /\ u.seen = s.seen /\ u.from = s.from /\ u \in Streams
    <3> DEFINE k == s.next + 1
    <3>1. k \in Nat
      BY <1>1
    <3> HIDE DEF k
    <3>2. [s EXCEPT !.next = k, !.last = l] \in Streams
      BY <1>4, <1>5, <3>1 DEF Streams
    <3>3. LET w == [s EXCEPT !.next = k, !.last = l]
          IN  /\ w.at = "open" /\ w.protocol = s.protocol /\ w.replay = s.replay
              /\ w.force = s.force /\ w.last = l /\ w.next = k /\ w.seen = s.seen
              /\ w.from = s.from
      BY <1>2, <1>5 DEF Streams
    <3> QED
      BY <3>2, <3>3 DEF k
  <2> HIDE DEF u
  <2>4. u = Link("open", s.protocol, s.replay, s.force, l, s.next + 1, s.seen, s.from)
    BY <2>3, LinkOf
  <2>5. streams' = [streams EXCEPT ![c] = u]
    BY <2>1, <2>2 DEF u
  <2>6. streams' \in [Clients -> Streams] /\ OthersStay(c) /\ streams'[c] = u
    BY <2>3, <2>5 DEF TypeOK, OthersStay
  <2> QED
    BY <1>2, <1>3, <1>6, <2>1, <2>4, <2>6 DEF s, l, e
<1>7. CASE ~(e.kind = "gray" \/ e.version > s.last)
  <2>1. streams' = [streams EXCEPT ![c].next = s.next + 1] /\ UNCHANGED <<nodeVars, cursor, heard>>
    BY <1>7 DEF SendLive
  <2> DEFINE u == [s EXCEPT !.next = s.next + 1]
  <2>2. streams' = [streams EXCEPT ![c] = u]
    BY <2>1
  <2> HIDE DEF s, l, e
  <2>3. /\ u.at = "open" /\ u.protocol = s.protocol /\ u.replay = s.replay /\ u.force = s.force
        /\ u.last = s.last /\ u.next = s.next + 1 /\ u.seen = s.seen /\ u.from = s.from
        /\ u \in Streams
    BY <1>1, <1>2, <1>5 DEF Streams
  <2> HIDE DEF u
  <2>4. u = Link("open", s.protocol, s.replay, s.force, s.last, s.next + 1, s.seen, s.from)
    BY <2>3, LinkOf
  <2>6. streams' \in [Clients -> Streams] /\ OthersStay(c) /\ streams'[c] = u
    BY <2>2, <2>3 DEF TypeOK, OthersStay
  <2> QED
    BY <1>2, <1>3, <1>7, <2>1, <2>4, <2>6 DEF s, l, e
<1> QED
  BY <1>6, <1>7


-----------------------------------------------------------------------------
(* A step is one of the node or one of a client *)

LEMMA LinkFields ==
    ASSUME NEW a, NEW p, NEW r, NEW f, NEW l, NEW n, NEW s, NEW m
    PROVE  /\ Link(a, p, r, f, l, n, s, m).at = a /\ Link(a, p, r, f, l, n, s, m).protocol = p
           /\ Link(a, p, r, f, l, n, s, m).replay = r /\ Link(a, p, r, f, l, n, s, m).force = f
           /\ Link(a, p, r, f, l, n, s, m).last = l /\ Link(a, p, r, f, l, n, s, m).next = n
           /\ Link(a, p, r, f, l, n, s, m).seen = s /\ Link(a, p, r, f, l, n, s, m).from = m
BY DEF Link

\* The client's part of the types, when only one connection has changed.
LEMMA ClientTypesStep ==
    ASSUME TypeOK, NEW c \in Clients, UNCHANGED nodeVars,
           streams' \in [Clients -> Streams], OthersStay(c),
           streams'[c].next \in streams'[c].from .. Len(hub),
           cursor' \in [Clients -> 0 .. MaxVersion], heard' \in [Clients -> Seq(Events)]
    PROVE  TypeOK'
<1>1. ASSUME NEW d \in Clients PROVE streams'[d].next \in streams'[d].from .. Len(hub)
  <2>1. CASE d = c
    BY <2>1
  <2>2. CASE d # c
    BY <2>2 DEF TypeOK, OthersStay
  <2> QED
    BY <2>1, <2>2
<1> QED
  BY <1>1 DEF TypeOK, nodeVars

\* A request to fetch everything is an event.
LEMMA ResyncType ==
    ASSUME NEW v \in 0 .. MaxVersion
    PROVE  /\ Resync(v) \in Events /\ Resync(v).version = v /\ Resync(v).kind = "resync"
BY DEF Resync, Events, Kinds

\* The step that tells a gRPC client that it fell behind, and the one that does not.
LEMMA ClientStepTypes ==
    ASSUME TypeOK, LogInv, NEW c \in Clients, ClientStep(c)
    PROVE  /\ TypeOK' /\ UNCHANGED nodeVars /\ OthersStay(c)
           /\ \A d \in Clients \ {c} : cursor'[d] = cursor[d] /\ heard'[d] = heard[d]
<1> DEFINE s == streams[c]
           Rest == /\ cursor' \in [Clients -> 0 .. MaxVersion] /\ heard' \in [Clients -> Seq(Events)]
                   /\ UNCHANGED nodeVars
                   /\ \A d \in Clients \ {c} : cursor'[d] = cursor[d] /\ heard'[d] = heard[d]
<1>0. /\ s.next \in Nat /\ s.from \in Nat /\ s.from <= s.next /\ s.next <= Len(hub)
      /\ Len(hub) \in Nat /\ s.last \in 0 .. MaxVersion /\ s.protocol \in Protocols
      /\ cursor[c] \in 0 .. MaxVersion
  BY Fields
<1>1. UNCHANGED <<nodeVars, cursor, heard>> => Rest
  BY DEF TypeOK
<1>2. ASSUME NEW e \in Events, Receive(c, e) PROVE Rest
  BY <1>2, ReceiveFacts
<1>3. Resync(s.last) \in Events
  BY <1>0, ResyncType
<1>4. ASSUME streams' \in [Clients -> Streams], OthersStay(c), Rest,
             streams'[c].next \in streams'[c].from .. Len(hub)
      PROVE  /\ TypeOK' /\ UNCHANGED nodeVars /\ OthersStay(c)
             /\ \A d \in Clients \ {c} : cursor'[d] = cursor[d] /\ heard'[d] = heard[d]
  BY <1>4, ClientTypesStep
<1> HIDE DEF Rest
<1>5. CASE Fetch(c)
  <2>1. streams'[c].next = s.next /\ streams'[c].from = s.from
        /\ streams' \in [Clients -> Streams] /\ OthersStay(c)
    BY <1>5, FetchFacts, LinkFields
  <2>2. PICK v \in 0 .. Committed : cursor' = [cursor EXCEPT ![c] = Max2(cursor[c], v)]
    BY <1>5 DEF Fetch
  <2>3. v \in 0 .. MaxVersion
    BY Versions, WatchAssumption
  <2>4. Max2(cursor[c], v) \in 0 .. MaxVersion
    BY <1>0, <2>3 DEF Max2
  <2>5. Rest
    BY <1>5, <2>2, <2>4 DEF Rest, Fetch, TypeOK
  <2> QED
    BY <1>0, <1>4, <2>1, <2>5
<1>6. CASE ReadHistory(c)
  <2>1. streams'[c].next = s.next /\ streams'[c].from = s.from
        /\ streams' \in [Clients -> Streams] /\ OthersStay(c)
    BY <1>6, ReadFacts, LinkFields
  <2>2. Rest
    BY <1>1, <1>6 DEF ReadHistory
  <2> QED
    BY <1>0, <1>4, <2>1, <2>2
<1>7. CASE Subscribe(c)
  <2>1. streams'[c].next = Len(hub) /\ streams'[c].from = Len(hub)
        /\ streams' \in [Clients -> Streams] /\ OthersStay(c)
    BY <1>7, SubscribeFacts, LinkFields
  <2>2. Rest
    BY <1>1, <1>7 DEF Subscribe
  <2> QED
    BY <1>0, <1>4, <2>1, <2>2
<1>8. CASE SendReplay(c)
  <2>1. streams'[c].next = s.next /\ streams'[c].from = s.from
        /\ streams' \in [Clients -> Streams] /\ OthersStay(c)
    BY <1>8, SendReplayFacts, LinkFields
  <2>2. Rest
    BY <1>2, <1>8, SendReplayFacts
  <2> QED
    BY <1>0, <1>4, <2>1, <2>2
<1>9. CASE SendLive(c)
  <2>1. streams'[c].next = s.next + 1 /\ streams'[c].from = s.from
        /\ streams' \in [Clients -> Streams] /\ OthersStay(c) /\ s.next < Len(hub)
    BY <1>9, SendLiveFacts, LinkFields
  <2>2. Rest
    BY <1>1, <1>2, <1>9, SendLiveFacts
  <2> QED
    BY <1>0, <1>4, <2>1, <2>2
<1>10. CASE SendResync(c) \/ EndLagged(c) \/ Disconnect(c)
  <2>1. streams' = [streams EXCEPT ![c] = Down(streams[c].protocol)]
    BY <1>10 DEF SendResync, EndLagged, Disconnect
  <2>2. streams'[c].next = 0 /\ streams'[c].from = 0
        /\ streams' \in [Clients -> Streams] /\ OthersStay(c)
    BY <2>1, DownFacts
  <2>3. Receive(c, Resync(s.last)) \/ UNCHANGED <<nodeVars, cursor, heard>>
    BY <1>10 DEF SendResync, EndLagged, Disconnect
  <2>4. Rest
    BY <1>1, <1>2, <1>3, <2>3
  <2> QED
    BY <1>0, <1>4, <2>2, <2>4
<1> QED
  BY <1>5, <1>6, <1>7, <1>8, <1>9, <1>10 DEF ClientStep, Server

LEMMA NodeStepTypes ==
    ASSUME TypeOK, NodeStep
    PROVE  TypeOK'
<1>1. NodeTypes' /\ Grows
  BY NodeStepFacts
<1>2. ASSUME NEW c \in Clients PROVE streams'[c].next \in streams'[c].from .. Len(hub')
  <2>1. /\ streams[c].next \in Nat /\ streams[c].from \in Nat /\ streams[c].from <= streams[c].next
        /\ streams[c].next <= Len(hub) /\ Len(hub) \in Nat
    BY Fields
  <2>2. Len(hub') \in Nat /\ Len(hub) <= Len(hub') /\ streams' = streams
    BY <1>1 DEF NodeTypes, Grows, clientVars
  <2> QED
    BY <2>1, <2>2
<1> QED
  BY <1>1, <1>2 DEF TypeOK, NodeTypes, Grows, clientVars

-----------------------------------------------------------------------------
(* The log and the pipeline *)

\* The version of an event of the log, and of what was applied, was published.
LEMMA LogBounds ==
    ASSUME TypeOK, LogInv
    PROVE  /\ \A n \in DOMAIN log : log[n].version <= Committed
           /\ \A n \in 1 .. applied : log[n].version <= Version
           /\ Version <= Committed
<1>0. /\ Len(log) \in Nat /\ DOMAIN log = 1 .. Len(log) /\ applied \in 0 .. Len(log)
      /\ \A n \in DOMAIN log : log[n].version \in 0 .. MaxVersion
      /\ Committed \in 0 .. MaxVersion
  BY Versions DEF TypeOK
<1>1. ASSUME NEW n \in DOMAIN log PROVE log[n].version <= Committed
  <2>1. Len(log) \in DOMAIN log /\ n <= Len(log) /\ Len(log) # 0
    BY <1>0
  <2>2. log[n].version <= log[Len(log)].version
    BY <2>1 DEF LogInv
  <2> QED
    BY <2>1, <2>2 DEF Committed, VersionAt
<1>2. ASSUME NEW n \in 1 .. applied PROVE log[n].version <= Version
  <2>1. applied \in DOMAIN log /\ n \in DOMAIN log /\ n <= applied /\ applied # 0
    BY <1>0
  <2>2. log[n].version <= log[applied].version
    BY <2>1 DEF LogInv
  <2> QED
    BY <2>1, <2>2 DEF Version, VersionAt
<1>3. Version <= Committed
  <2>1. CASE applied = 0
    BY <1>0, <2>1 DEF Version, VersionAt
  <2>2. CASE applied # 0
    <3>1. applied \in DOMAIN log
      BY <1>0, <2>2
    <3> QED
      BY <1>1, <2>2, <3>1 DEF Version, VersionAt
  <2> QED
    BY <2>1, <2>2
<1> QED
  BY <1>1, <1>2, <1>3

LEMMA CommitLog ==
    ASSUME TypeOK, LogInv, NEW e \in Events, Commit(e), e.kind # "resync",
           e.version = Committed \/ (e.version = Committed + 1 /\ e.base # e.version)
    PROVE  LogInv' /\ Committed' = e.version
<1>0. /\ Len(log) \in Nat /\ DOMAIN log = 1 .. Len(log) /\ Committed \in 0 .. MaxVersion
      /\ \A n \in DOMAIN log : log[n].version \in 0 .. MaxVersion /\ log[n].version <= Committed
  BY Versions, LogBounds
<1>1. /\ Len(log') = Len(log) + 1 /\ DOMAIN log' = 1 .. Len(log) + 1
      /\ \A n \in DOMAIN log : log'[n] = log[n] /\ n \in DOMAIN log'
      /\ log'[Len(log) + 1] = e /\ Len(log) + 1 \in DOMAIN log'
      /\ \A n \in DOMAIN log' : n \in DOMAIN log \/ n = Len(log) + 1
  BY <1>0 DEF Commit, TypeOK
<1>2. Committed' = e.version
  BY <1>0, <1>1 DEF Committed, VersionAt
<1>3. ASSUME NEW m \in DOMAIN log', NEW n \in DOMAIN log', m <= n
      PROVE  log'[m].version <= log'[n].version
  <2>1. CASE n \in DOMAIN log
    <3>1. m \in DOMAIN log
      BY <1>0, <1>1, <1>3, <2>1
    <3>2. log[m].version <= log[n].version
      BY <1>3, <2>1, <3>1 DEF LogInv
    <3> QED
      BY <1>1, <2>1, <3>1, <3>2
  <2>2. CASE n = Len(log) + 1
    BY <1>0, <1>1, <2>2
  <2> QED
    BY <1>1, <2>1, <2>2
<1>4. ASSUME NEW n \in DOMAIN log' PROVE log'[n].kind # "resync"
  BY <1>1 DEF LogInv
<1>5. ASSUME NEW v \in 1 .. Committed'
      PROVE  \E n \in DOMAIN log' : log'[n].version = v /\ log'[n].base # v
  <2>1. CASE v \in 1 .. Committed
    <3>1. PICK n \in DOMAIN log : log[n].version = v /\ log[n].base # v
      BY <2>1 DEF LogInv
    <3> QED
      BY <1>1, <3>1
  <2>2. CASE v \notin 1 .. Committed
    <3>1. v = e.version /\ e.base # e.version
      BY <1>0, <1>2, <2>2
    <3> QED
      BY <1>1, <3>1
  <2> QED
    BY <2>1, <2>2
<1> QED
  BY <1>2, <1>3, <1>4, <1>5 DEF LogInv


LEMMA LogStep ==
    ASSUME TypeOK, LogInv, NodeStep
    PROVE  LogInv' /\ (Committed' = Committed \/ Committed' = Committed + 1)
<1>0. Committed \in 0 .. MaxVersion /\ MaxVersion \in Nat
  BY Versions, WatchAssumption
<1>1. ASSUME NEW kind \in {"plain", "gray"}, Publish(kind)
      PROVE  LogInv' /\ Committed' = Committed + 1
  <2> DEFINE e == [version |-> Committed + 1, kind |-> kind, base |-> Committed]
  <2>1. e \in Events /\ e.kind # "resync" /\ e.version = Committed + 1 /\ e.base # e.version
    BY <1>0, <1>1 DEF Events, Kinds, Publish
  <2>2. Commit(e)
    BY <1>1 DEF Publish
  <2> HIDE DEF e
  <2> QED
    BY <2>1, <2>2, CommitLog
<1>2. CASE GrayChange
  <2> DEFINE e == [version |-> Committed, kind |-> "gray", base |-> Committed]
  <2>1. e \in Events /\ e.kind # "resync" /\ e.version = Committed
    BY <1>0 DEF Events, Kinds
  <2>2. Commit(e)
    BY <1>2 DEF GrayChange
  <2> HIDE DEF e
  <2> QED
    BY <2>1, <2>2, CommitLog
<1>3. CASE Apply \/ Broadcast \/ InstallSnapshot \/ Prune \/ Forward \/ ForwarderLags
  <2>1. log' = log
    BY <1>3 DEF Apply, Broadcast, InstallSnapshot, Prune, Forward, ForwarderLags
  <2> QED
    BY <2>1 DEF LogInv, Committed, VersionAt
<1> QED
  BY <1>1, <1>2, <1>3 DEF NodeStep

\* The active version only grows, and the oldest record follows it at most.
LEMMA OldestStep ==
    ASSUME TypeOK, LogInv, OldestInv, NodeStep
    PROVE  OldestInv'
<1>0. TypeOK' /\ Grows
  BY NodeStepTypes, NodeStepFacts
<1>1. /\ applied \in 0 .. Len(log) /\ Len(log) \in Nat /\ DOMAIN log = 1 .. Len(log)
      /\ oldest \in 1 .. MaxVersion + 1 /\ oldest' \in Nat /\ Version \in 0 .. MaxVersion
      /\ MaxVersion \in Nat /\ \A n \in 0 .. Len(log) : VersionAt(n) \in 0 .. MaxVersion
  BY <1>0, Versions, WatchAssumption, SMTT(30) DEF TypeOK
<1>2. \A n \in applied .. Len(log) : Version <= VersionAt(n)
  <2> SUFFICES ASSUME NEW n \in applied .. Len(log) PROVE Version <= VersionAt(n)
    OBVIOUS
  <2>1. CASE applied = 0
    BY <1>1, <2>1 DEF Version, VersionAt
  <2>2. CASE applied # 0
    <3>1. applied \in DOMAIN log /\ n \in DOMAIN log /\ applied <= n /\ n # 0
      BY <1>1, <2>2
    <3> QED
      BY <2>2, <3>1 DEF LogInv, Version, VersionAt
  <2> QED
    BY <2>1, <2>2
<1>3. ASSUME log' = log, oldest' = oldest, applied' \in applied .. Len(log) PROVE OldestInv'
  <2>1. Version' = VersionAt(applied')
    BY <1>3 DEF Version, VersionAt
  <2> QED
    BY <1>1, <1>2, <1>3, <2>1 DEF OldestInv
<1>4. CASE Apply \/ Broadcast \/ Forward \/ ForwarderLags
  <2>1. log' = log /\ oldest' = oldest /\ applied' \in applied .. Len(log)
    BY <1>1, <1>4 DEF Apply, Broadcast, Forward, ForwarderLags
  <2> QED
    BY <1>3, <2>1
<1>5. CASE InstallSnapshot
  <2>1. PICK n \in applied + 1 .. Len(log) :
           applied' = n /\ oldest' \in {oldest, Max2(oldest, VersionAt(n))} /\ log' = log
    BY <1>5 DEF InstallSnapshot
  <2>2. n \in applied .. Len(log) /\ n \in 0 .. Len(log)
    BY <1>1
  <2>3. Version' = VersionAt(n) /\ Version <= VersionAt(n) /\ VersionAt(n) \in 0 .. MaxVersion
    BY <1>1, <1>2, <2>1, <2>2 DEF Version, VersionAt
  <2> QED
    BY <1>1, <2>1, <2>3 DEF OldestInv, Max2
<1>6. CASE Prune
  BY <1>1, <1>6 DEF Prune, OldestInv, Version, VersionAt
<1>7. CASE (\E kind \in {"plain", "gray"} : Publish(kind)) \/ GrayChange
  <2>1. /\ applied' = applied /\ oldest' = oldest
        /\ \A n \in DOMAIN log : log'[n] = log[n]
    BY <1>0, <1>7 DEF Publish, GrayChange, Commit, Grows
  <2>2. Version' = Version
    <3>1. CASE applied = 0
      BY <2>1, <3>1 DEF Version, VersionAt
    <3>2. CASE applied # 0
      <4>1. applied \in DOMAIN log
        BY <1>1, <3>2
      <4> QED
        BY <2>1, <4>1 DEF Version, VersionAt
    <3> QED
      BY <3>1, <3>2
  <2> QED
    BY <2>1, <2>2 DEF OldestInv
<1> QED
  BY <1>4, <1>5, <1>6, <1>7 DEF NodeStep

\* An event of the log stays one.
LEMMA FromLogStays ==
    ASSUME TypeOK, Grows, TypeOK', NEW e, FromLog(e)
    PROVE  FromLog(e)'
<1>1. PICK n \in DOMAIN log : e = log[n]
  BY DEF FromLog
<1>2. n \in DOMAIN log' /\ log'[n] = log[n]
  <2>1. log \in Seq(Events) /\ log' \in Seq(Events) /\ Len(log) <= Len(log')
    BY DEF TypeOK, Grows
  <2> QED
    BY <1>1, <2>1 DEF Grows
<1> QED
  BY <1>1, <1>2 DEF FromLog

LEMMA CommitPipe ==
    ASSUME TypeOK, PipeInv, NEW e, Commit(e), Grows, TypeOK'
    PROVE  PipeInv'
<1>0. /\ UNCHANGED <<applied, pending, channel, taken, hub, skipped>>
      /\ log \in Seq(Events) /\ Len(log) \in Nat /\ applied \in 0 .. Len(log)
      /\ pending \in Seq(Events) /\ channel \in Seq(Events)
      /\ \A n \in 1 .. Len(log) : log'[n] = log[n]
  BY DEF TypeOK, Commit, Grows
<1>1. taken' = Len(hub') /\ \A i \in DOMAIN hub' : hub'[i] = channel'[i]
  BY <1>0 DEF PipeInv
<1>2. \A i \in DOMAIN channel : FromLog(channel[i])'
  BY <1>0, FromLogStays DEF PipeInv
<1>3. \A i \in DOMAIN pending : FromLog(pending[i])'
  BY <1>0, FromLogStays DEF PipeInv
<1>4. ASSUME ~skipped
      PROVE  /\ applied = Len(channel) + Len(pending)
             /\ \A i \in DOMAIN channel : channel[i] = log'[i]
             /\ \A i \in DOMAIN pending : pending[i] = log'[Len(channel) + i]
  <2>1. /\ applied = Len(channel) + Len(pending)
        /\ \A i \in DOMAIN channel : channel[i] = log[i]
        /\ \A i \in DOMAIN pending : pending[i] = log[Len(channel) + i]
    BY <1>4 DEF PipeInv
  <2>2. ASSUME NEW i \in DOMAIN channel PROVE channel[i] = log'[i]
    <3>1. i \in 1 .. Len(log)
      BY <1>0, <2>1
    <3> QED
      BY <1>0, <2>1, <3>1
  <2>3. ASSUME NEW i \in DOMAIN pending PROVE pending[i] = log'[Len(channel) + i]
    <3>1. Len(channel) + i \in 1 .. Len(log)
      BY <1>0, <2>1
    <3> QED
      BY <1>0, <2>1, <3>1
  <2> QED
    BY <2>1, <2>2, <2>3
<1> QED
  BY <1>0, <1>1, <1>2, <1>3, <1>4 DEF PipeInv

LEMMA PipeStep ==
    ASSUME TypeOK, PipeInv, NodeStep
    PROVE  PipeInv'
<1>0. TypeOK' /\ Grows
  BY NodeStepTypes, NodeStepFacts
<1>1. /\ Len(log) \in Nat /\ DOMAIN log = 1 .. Len(log) /\ applied \in 0 .. Len(log)
      /\ pending \in Seq(Events) /\ channel \in Seq(Events) /\ hub \in Seq(Events)
      /\ Len(pending) \in Nat /\ Len(channel) \in Nat /\ Len(hub) \in Nat
      /\ DOMAIN pending = 1 .. Len(pending) /\ DOMAIN channel = 1 .. Len(channel)
      /\ DOMAIN hub = 1 .. Len(hub) /\ taken = Len(hub) /\ taken <= Len(channel)
      /\ skipped \in BOOLEAN
  BY DEF TypeOK, PipeInv
<1>2. CASE (\E kind \in {"plain", "gray"} : Publish(kind)) \/ GrayChange
  BY <1>0, <1>2, CommitPipe DEF Publish, GrayChange
<1>3. CASE Apply
  <2>1. /\ applied < Len(log) /\ applied' = applied + 1
        /\ pending' = Append(pending, log[applied + 1])
        /\ UNCHANGED <<log, channel, taken, hub, skipped>>
    BY <1>3 DEF Apply
  <2>2. applied + 1 \in DOMAIN log /\ log[applied + 1] \in Events
    BY <1>1, <2>1 DEF TypeOK
  <2>3. /\ Len(pending') = Len(pending) + 1 /\ DOMAIN pending' = 1 .. Len(pending) + 1
        /\ \A i \in DOMAIN pending : pending'[i] = pending[i]
        /\ pending'[Len(pending) + 1] = log[applied + 1]
        /\ \A i \in DOMAIN pending' : i \in DOMAIN pending \/ i = Len(pending) + 1
    BY <1>1, <2>1, <2>2
  <2>4. \A i \in DOMAIN pending' : FromLog(pending'[i])
    BY <2>2, <2>3 DEF PipeInv, FromLog
  <2>5. ASSUME ~skipped
        PROVE  /\ applied' = Len(channel) + Len(pending')
               /\ \A i \in DOMAIN pending' : pending'[i] = log[Len(channel) + i]
    <3>1. applied = Len(channel) + Len(pending)
          /\ \A i \in DOMAIN pending : pending[i] = log[Len(channel) + i]
      BY <2>5 DEF PipeInv
    <3>2. Len(channel) + (Len(pending) + 1) = applied + 1
      BY <1>1, <3>1
    <3> QED
      BY <1>1, <2>1, <2>3, <3>1, <3>2
  <2> QED
    BY <2>1, <2>4, <2>5 DEF PipeInv, FromLog
<1>4. CASE Broadcast
  <2>1. /\ pending # <<>> /\ channel' = Append(channel, Head(pending)) /\ pending' = Tail(pending)
        /\ UNCHANGED <<log, applied, taken, hub, skipped>>
    BY <1>4 DEF Broadcast
  <2>2. /\ Len(pending) # 0 /\ Head(pending) = pending[1] /\ 1 \in DOMAIN pending
        /\ Len(pending') = Len(pending) - 1 /\ DOMAIN pending' = 1 .. Len(pending) - 1
        /\ \A i \in DOMAIN pending' : pending'[i] = pending[i + 1] /\ i + 1 \in DOMAIN pending
    BY <1>1, <2>1
  <2>3. pending[1] \in Events
    BY <1>1, <2>2
  <2>4. /\ Len(channel') = Len(channel) + 1 /\ DOMAIN channel' = 1 .. Len(channel) + 1
        /\ \A i \in DOMAIN channel : channel'[i] = channel[i]
        /\ channel'[Len(channel) + 1] = pending[1]
        /\ \A i \in DOMAIN channel' : i \in DOMAIN channel \/ i = Len(channel) + 1
    BY <1>1, <2>1, <2>2, <2>3
  <2>5. \A i \in DOMAIN hub : hub[i] = channel'[i]
    <3>1. \A i \in DOMAIN hub : i \in DOMAIN channel /\ hub[i] = channel[i]
      BY <1>1 DEF PipeInv
    <3> QED
      BY <2>4, <3>1
  <2>6. \A i \in DOMAIN channel' : FromLog(channel'[i])
    BY <2>2, <2>4 DEF PipeInv
  <2>7. \A i \in DOMAIN pending' : FromLog(pending'[i])
    BY <2>2 DEF PipeInv
  <2>8. ASSUME ~skipped
        PROVE  /\ applied = Len(channel') + Len(pending')
               /\ \A i \in DOMAIN channel' : channel'[i] = log[i]
               /\ \A i \in DOMAIN pending' : pending'[i] = log[Len(channel') + i]
    <3>1. /\ applied = Len(channel) + Len(pending)
          /\ \A i \in DOMAIN channel : channel[i] = log[i]
          /\ \A i \in DOMAIN pending : pending[i] = log[Len(channel) + i]
      BY <2>8 DEF PipeInv
    <3>2. applied = Len(channel') + Len(pending')
      BY <1>1, <2>2, <2>4, <3>1
    <3>3. \A i \in DOMAIN channel' : channel'[i] = log[i]
      BY <2>2, <2>4, <3>1
    <3>4. ASSUME NEW i \in DOMAIN pending' PROVE pending'[i] = log[Len(channel') + i]
      <4>1. i + 1 \in DOMAIN pending /\ pending'[i] = pending[i + 1] /\ i \in Int
        BY <1>1, <2>2
      <4>2. Len(channel') + i = Len(channel) + (i + 1)
        BY <1>1, <2>4, <4>1
      <4> QED
        BY <3>1, <4>1, <4>2
    <3> QED
      BY <3>2, <3>3, <3>4
  <2> QED
    BY <1>1, <2>1, <2>5, <2>6, <2>7, <2>8, ZenonT(30) DEF PipeInv, FromLog
<1>5. CASE InstallSnapshot
  <2>1. UNCHANGED <<log, pending, channel, taken, hub>> /\ skipped' = TRUE
    BY <1>5 DEF InstallSnapshot
  <2> QED
    BY <2>1 DEF PipeInv, FromLog
<1>6. CASE Prune \/ ForwarderLags
  <2>1. UNCHANGED <<log, applied, pending, channel, taken, hub, skipped>>
    BY <1>6 DEF Prune, ForwarderLags
  <2> QED
    BY <2>1 DEF PipeInv, FromLog
<1>7. CASE Forward
  <2>1. /\ taken < Len(channel) /\ taken' = taken + 1 /\ hub' = Append(hub, channel[taken + 1])
        /\ UNCHANGED <<log, applied, pending, channel, skipped>>
    BY <1>7 DEF Forward
  <2>2. channel[taken + 1] \in Events
    BY <1>1, <2>1
  <2>3. /\ Len(hub') = Len(hub) + 1 /\ \A i \in DOMAIN hub : hub'[i] = hub[i]
        /\ hub'[Len(hub) + 1] = channel[taken + 1]
        /\ \A i \in DOMAIN hub' : i \in DOMAIN hub \/ i = Len(hub) + 1
    BY <1>1, <2>1, <2>2
  <2>4. \A i \in DOMAIN hub' : hub'[i] = channel[i]
    BY <1>1, <2>3 DEF PipeInv
  <2> QED
    BY <1>1, <2>1, <2>3, <2>4 DEF PipeInv, FromLog
<1> QED
  BY <1>2, <1>3, <1>4, <1>5, <1>6, <1>7 DEF NodeStep


-----------------------------------------------------------------------------
(* The streams *)

\* What holds of one client.
ClientInv(c) ==
    /\ cursor[c] <= Committed
    /\ streams[c].at \in {"read", "open"} => ReplayInv(c) /\ LastInv(c) /\ SeenInv(c)
    /\ streams[c].at = "open" => PassedInv(c)

\* Steps of the node leave the clients' invariant: logs only grow.
LEMMA NodeStream ==
    ASSUME WatchInv, NodeStep, NEW c \in Clients
    PROVE  ClientInv(c)'
<1>0. TypeOK /\ LogInv /\ ClientInv(c) /\ TypeOK' /\ Grows /\ LogInv'
  BY NodeStepTypes, NodeStepFacts, LogStep DEF WatchInv, StreamInv, ClientInv
<1>1. /\ Committed \in 0 .. MaxVersion /\ Committed <= Committed' /\ cursor[c] \in 0 .. MaxVersion
      /\ Committed' \in Int
  BY <1>0, Versions, LogStep, Fields
<1>2. streams' = streams /\ cursor' = cursor
  BY <1>0 DEF Grows, clientVars
<1>3. /\ streams[c].replay \in Seq(Events) /\ streams[c].seen \in Nat
      /\ streams[c].next \in Nat /\ streams[c].from \in Nat
      /\ streams[c].next <= Len(hub) /\ Len(hub) \in Nat
  BY <1>0, Fields
<1>4. \A i \in DOMAIN streams[c].replay : streams[c].replay[i].version \in 0 .. MaxVersion
  <2>1. \A i \in DOMAIN streams[c].replay : streams[c].replay[i] \in Events
    BY <1>3
  <2> QED
    BY <2>1 DEF Events
<1>5. cursor'[c] <= Committed'
  BY <1>0, <1>1, <1>2 DEF ClientInv
<1>6. ReplayInv(c) => ReplayInv(c)'
  BY <1>1, <1>2, <1>4 DEF ReplayInv
<1>7. LastInv(c) => LastInv(c)'
  BY <1>2 DEF LastInv
<1>8. SeenInv(c) => SeenInv(c)'
  <2> SUFFICES ASSUME SeenInv(c) PROVE SeenInv(c)'
    OBVIOUS
  <2>1. applied \in 0 .. Len(log) /\ applied' \in Nat /\ applied <= applied' /\ Len(log) \in Nat
    BY <1>0 DEF TypeOK, Grows
  <2>2. \A n \in 1 .. streams[c].seen : log'[n] = log[n]
    <3>1. streams[c].seen <= applied
      BY DEF SeenInv
    <3>2. \A n \in 1 .. streams[c].seen : n \in DOMAIN log
      BY <1>0, <1>3, <2>1, <3>1, Versions
    <3> QED
      BY <1>0, <3>2 DEF Grows
  <2>3. streams[c].seen <= applied'
    BY <1>3, <2>1 DEF SeenInv
  <2> QED
    BY <1>2, <2>2, <2>3 DEF SeenInv
<1>9. PassedInv(c) => PassedInv(c)'
  <2>1. \A i \in streams[c].from + 1 .. streams[c].next : i \in DOMAIN hub
    <3>1. DOMAIN hub = 1 .. Len(hub)
      BY <1>0 DEF TypeOK
    <3> QED
      BY <1>3, <3>1
  <2>2. \A i \in streams[c].from + 1 .. streams[c].next : hub'[i] = hub[i]
    BY <1>0, <2>1 DEF Grows
  <2> QED
    BY <1>2, <2>2 DEF PassedInv
<1> QED
  BY <1>0, <1>2, <1>5, <1>6, <1>7, <1>8, <1>9 DEF ClientInv

LEMMA NonEmpty ==
    ASSUME NEW S, NEW q \in Seq(S), q # <<>>
    PROVE  Len(q) \in Nat \ {0} /\ DOMAIN q = 1 .. Len(q) /\ 1 \in DOMAIN q
BY EmptySeq

\* What the history says of the versions beyond a cursor.
LEMMA ReadStream ==
    ASSUME WatchInv, NEW c \in Clients, ReadHistory(c), TypeOK'
    PROVE  ClientInv(c)'
<1> DEFINE s == streams[c]
           after == cursor[c]
           replay == IF after > 0 THEN Replayed(after) ELSE <<>>
           force == after > 0 /\ Version > 0 /\ after < oldest /\ after < Version
           r == IF force /\ s.protocol = "grpc" THEN <<>> ELSE replay
           l == IF s.protocol = "grpc" THEN after ELSE IF replay = <<>> THEN 0 ELSE Version
           n == IF after > 0 THEN applied ELSE 0
           first == Max2(oldest, after + 1)
           t == streams'[c]
<1>0. TypeOK /\ LogInv /\ ClientInv(c) /\ UNCHANGED <<nodeVars, cursor, heard>>
  BY DEF WatchInv, StreamInv, ClientInv, ReadHistory
<1>1. /\ t.at = "read" /\ t.protocol = s.protocol /\ t.replay = r /\ t.force = force
      /\ t.last = l /\ t.seen = n
  BY <1>0, ReadFacts, LinkFields
<1>2. /\ after \in 0 .. MaxVersion /\ Version \in 0 .. MaxVersion /\ Committed \in 0 .. MaxVersion
      /\ MaxVersion \in Nat /\ oldest \in 1 .. MaxVersion + 1 /\ applied \in 0 .. Len(log)
      /\ Len(log) \in Nat /\ DOMAIN log = 1 .. Len(log) /\ Version <= Committed
      /\ \A k \in DOMAIN log : log[k].version \in 0 .. MaxVersion
      /\ \A k \in 1 .. applied : log[k].version <= Version
  BY <1>0, Versions, LogBounds, Fields, WatchAssumption DEF TypeOK
<1>3. first \in Nat /\ first > after /\ first >= oldest /\ (oldest <= after => first = after + 1)
  BY <1>2 DEF Max2
<1>4. /\ Replayed(after) \in Seq(Events) /\ DOMAIN Replayed(after) = 1 .. Version - first + 1
      /\ \A i \in DOMAIN Replayed(after) :
            Replayed(after)[i].version = first + i - 1 /\ Replayed(after)[i].kind # "resync"
  BY <1>0, <1>2, ReplayedFacts
<1> HIDE DEF first
<1>5. /\ \A i \in DOMAIN r : i \in 1 .. Version - first + 1
      /\ \A i \in DOMAIN r : r[i].version = first + i - 1 /\ r[i].kind # "resync"
  <2>1. r = <<>> \/ r = Replayed(after)
    OBVIOUS
  <2>2. DOMAIN (<<>>) = {}
    OBVIOUS
  <2> HIDE DEF r
  <2> QED
    BY <1>4, <2>1, <2>2
<1>6. cursor'[c] = after /\ Committed' = Committed /\ log' = log /\ applied' = applied
  BY <1>0 DEF nodeVars, Committed, VersionAt
<1>7. ReplayInv(c)'
  <2> HIDE DEF r, replay, force, l, n
  <2>1. \A i \in DOMAIN r :
           r[i].version > after /\ r[i].version <= Committed /\ r[i].kind # "resync"
    BY <1>2, <1>3, <1>5, SMTT(30)
  <2>2. \A i, j \in DOMAIN r : i < j => r[i].version < r[j].version
    BY <1>2, <1>3, <1>5
  <2> QED
    BY <1>1, <1>6, <2>1, <2>2 DEF ReplayInv
<1>8. LastInv(c)'
  <2>1. s.protocol = "grpc" => l = after
    OBVIOUS
  <2>2. l <= after \/ \E i \in DOMAIN r : l <= r[i].version
    <3>1. CASE s.protocol = "grpc" \/ replay = <<>>
      BY <1>2, <3>1
    <3>2. CASE ~(s.protocol = "grpc" \/ replay = <<>>)
      <4>1. r = replay /\ replay = Replayed(after) /\ l = Version /\ Replayed(after) # <<>>
        BY <3>2
      <4>2. DOMAIN Replayed(after) # {}
        BY <1>4, <4>1, NonEmpty
      <4>3. Version - first + 1 \in DOMAIN r
        BY <1>2, <1>3, <1>4, <4>1, <4>2
      <4>4. r[Version - first + 1].version = Version
        <5>1. r[Version - first + 1].version = first + (Version - first + 1) - 1
          BY <1>5, <4>3
        <5> QED
          BY <1>2, <1>3, <5>1
      <4> QED
        BY <1>2, <4>1, <4>3, <4>4
    <3> QED
      BY <3>1, <3>2
  <2> QED
    BY <1>1, <1>6, <2>1, <2>2 DEF LastInv
<1>9. SeenInv(c)'
  <2>1. n <= applied /\ (oldest = 1 \/ oldest <= Version)
    BY <1>2 DEF WatchInv, OldestInv
  <2>2. ASSUME NEW k \in 1 .. n, ~(log[k].version <= after), ~force
        PROVE  \E i \in DOMAIN r : r[i].version = log[k].version
    <3>1. after > 0 /\ k \in 1 .. applied /\ k \in DOMAIN log
      BY <1>2, <2>2
    <3>2. log[k].version \in 0 .. MaxVersion /\ log[k].version <= Version
      BY <1>2, <3>1
    <3>3. oldest <= after /\ first = after + 1 /\ Version > after
      BY <1>2, <1>3, <2>2, <3>1, <3>2
    <3>4. r = Replayed(after)
      BY <2>2, <3>1
    <3> DEFINE i == log[k].version - after
    <3>5. i \in 1 .. Version - first + 1 /\ first + i - 1 = log[k].version
      BY <1>2, <2>2, <3>2, <3>3, SMTT(30)
    <3>6. i \in DOMAIN r
      BY <1>4, <3>4, <3>5
    <3> QED
      BY <1>5, <3>5, <3>6
  <2>3. ASSUME NEW k \in 1 .. n, force, s.protocol # "grpc"
        PROVE  \E i \in DOMAIN r : r[i].version = log[k].version \/ r[i].version > log[k].version
    <3>1. after > 0 /\ after < Version /\ oldest <= Version /\ k \in DOMAIN log /\ k \in 1 .. applied
      BY <1>2, <2>1, <2>3
    <3>2. r = Replayed(after)
      BY <2>3, <3>1
    <3> DEFINE i == Version - first + 1
    <3>3. first <= Version
      BY <1>2, <3>1 DEF first, Max2
    <3>4. i \in 1 .. Version - first + 1 /\ first + i - 1 = Version
      BY <1>2, <1>3, <3>3
    <3>5. i \in DOMAIN r
      BY <1>4, <3>2, <3>4
    <3>6. r[i].version = Version
      BY <1>5, <3>4, <3>5
    <3>7. log[k].version <= Version /\ log[k].version \in 0 .. MaxVersion
      BY <1>2, <3>1
    <3>8. Version = log[k].version \/ Version > log[k].version
      BY <1>2, <3>7
    <3> QED
      BY <3>5, <3>6, <3>8
  <2>4. \A k \in 1 .. n :
           \/ log[k].version <= after
           \/ \E i \in DOMAIN r :
                 r[i].version = log[k].version \/ (force /\ r[i].version > log[k].version)
           \/ (force /\ s.protocol = "grpc")
    <3> HIDE DEF r, force, n
    <3> QED
      BY <2>2, <2>3
  <2> QED
    BY <1>1, <1>6, <2>1, <2>4 DEF SeenInv
<1> QED
  BY <1>0, <1>1, <1>6, <1>7, <1>8, <1>9 DEF ClientInv


LEMMA HubEvents ==
    ASSUME TypeOK
    PROVE  /\ Len(hub) \in Nat /\ DOMAIN hub = 1 .. Len(hub)
           /\ \A i \in DOMAIN hub : hub[i] \in Events /\ hub[i].version \in 0 .. MaxVersion
<1>1. Len(hub) \in Nat /\ DOMAIN hub = 1 .. Len(hub) /\ \A i \in DOMAIN hub : hub[i] \in Events
  BY DEF TypeOK
<1> QED
  BY <1>1 DEF Events

LEMMA SeenVersions ==
    ASSUME TypeOK, NEW c \in Clients, SeenInv(c)
    PROVE  \A n \in 1 .. streams[c].seen : log[n].version \in 0 .. MaxVersion
<1>1. /\ streams[c].seen \in Nat /\ streams[c].seen <= applied /\ applied \in 0 .. Len(log)
      /\ Len(log) \in Nat /\ DOMAIN log = 1 .. Len(log)
      /\ \A n \in DOMAIN log : log[n].version \in 0 .. MaxVersion
  BY Fields, Versions DEF SeenInv, TypeOK
<1> QED
  BY <1>1

\* A version that reaches a client was published, and its cursor only rises.
LEMMA RaisesCursor ==
    ASSUME TypeOK, NEW c \in Clients, NEW e \in Events, Receive(c, e)
    PROVE  /\ cursor'[c] \in 0 .. MaxVersion /\ cursor[c] <= cursor'[c] /\ e.version <= cursor'[c]
           /\ cursor'[c] = cursor[c] \/ cursor'[c] = e.version
           /\ e.version \in 0 .. MaxVersion /\ cursor[c] \in 0 .. MaxVersion
<1>1. e.version \in 0 .. MaxVersion /\ cursor[c] \in 0 .. MaxVersion
  BY Fields DEF Events
<1>2. cursor'[c] = Max2(cursor[c], e.version)
  BY ReceiveFacts
<1> QED
  BY <1>1, <1>2 DEF Max2

LEMMA SendReplayStream ==
    ASSUME WatchInv, NEW c \in Clients, SendReplay(c), TypeOK'
    PROVE  ClientInv(c)'
<1> DEFINE s == streams[c]
           r == s.replay
           e == Head(r)
           t == streams'[c]
<1>0. TypeOK /\ LogInv /\ ClientInv(c) /\ r # <<>> /\ s.at = "open"
  BY DEF WatchInv, StreamInv, ClientInv, SendReplay
<1>1. /\ t.at = "open" /\ t.protocol = s.protocol /\ t.replay = Tail(r) /\ t.force = s.force
      /\ t.last = Max2(s.last, e.version) /\ t.next = s.next /\ t.seen = s.seen /\ t.from = s.from
      /\ e \in Events /\ Receive(c, e)
  BY <1>0, SendReplayFacts, LinkFields
<1>2. /\ ReplayInv(c) /\ LastInv(c) /\ SeenInv(c) /\ PassedInv(c) /\ cursor[c] <= Committed
  BY <1>0 DEF ClientInv
<1>3. /\ cursor'[c] \in 0 .. MaxVersion /\ cursor[c] <= cursor'[c] /\ e.version <= cursor'[c]
      /\ cursor'[c] = cursor[c] \/ cursor'[c] = e.version
      /\ e.version \in 0 .. MaxVersion /\ cursor[c] \in 0 .. MaxVersion
      /\ UNCHANGED nodeVars /\ s.last \in 0 .. MaxVersion /\ r \in Seq(Events)
      /\ s.next \in Nat /\ s.from \in Nat /\ s.seen \in Nat
  BY <1>0, <1>1, RaisesCursor, ReceiveFacts, Fields
<1>4. /\ e = r[1] /\ 1 \in DOMAIN r /\ Len(r) \in Nat \ {0} /\ DOMAIN r = 1 .. Len(r)
      /\ DOMAIN Tail(r) = 1 .. Len(r) - 1
      /\ \A i \in DOMAIN Tail(r) : Tail(r)[i] = r[i + 1] /\ i + 1 \in DOMAIN r /\ i \in Nat /\ i > 0
  <2>1. Len(r) \in Nat \ {0} /\ DOMAIN r = 1 .. Len(r) /\ 1 \in DOMAIN r
    BY <1>0, <1>3, NonEmpty
  <2> QED
    BY <1>0, <1>3, <2>1
<1>5. \A i \in DOMAIN r : /\ r[i].version \in 0 .. MaxVersion
                          /\ i # 1 => \E j \in DOMAIN Tail(r) : Tail(r)[j] = r[i]
  <2>1. \A i \in DOMAIN r : r[i] \in Events
    BY <1>3, <1>4
  <2>2. ASSUME NEW i \in DOMAIN r, i # 1 PROVE \E j \in DOMAIN Tail(r) : Tail(r)[j] = r[i]
    <3>1. i - 1 \in DOMAIN Tail(r) /\ (i - 1) + 1 = i
      BY <1>4, <2>2
    <3> QED
      BY <1>4, <3>1
  <2> QED
    BY <2>1, <2>2 DEF Events
<1>6. /\ e.version > cursor[c] /\ e.version <= Committed /\ cursor'[c] = e.version
  BY <1>2, <1>3, <1>4 DEF ReplayInv
<1>7. Committed' = Committed /\ log' = log /\ applied' = applied /\ hub' = hub
  BY <1>3 DEF nodeVars, Committed, VersionAt
<1> HIDE DEF r, e, s, t
<1>8. ReplayInv(c)'
  <2>1. \A i \in DOMAIN Tail(r) : /\ Tail(r)[i].version > e.version /\ Tail(r)[i].version <= Committed
                                  /\ Tail(r)[i].kind # "resync"
    <3> SUFFICES ASSUME NEW i \in DOMAIN Tail(r)
                 PROVE  /\ Tail(r)[i].version > e.version /\ Tail(r)[i].version <= Committed
                        /\ Tail(r)[i].kind # "resync"
      OBVIOUS
    <3>1. Tail(r)[i] = r[i + 1] /\ i + 1 \in DOMAIN r /\ 1 \in DOMAIN r /\ 1 < i + 1 /\ e = r[1]
      BY <1>4
    <3>2. r[1].version < r[i + 1].version /\ r[i + 1].version <= Committed
          /\ r[i + 1].kind # "resync"
      BY <1>2, <3>1 DEF ReplayInv, r, s
    <3> QED
      BY <1>3, <1>5, <3>1, <3>2
  <2>2. ASSUME NEW i \in DOMAIN Tail(r), NEW j \in DOMAIN Tail(r), i < j
        PROVE  Tail(r)[i].version < Tail(r)[j].version
    <3>1. /\ Tail(r)[i] = r[i + 1] /\ i + 1 \in DOMAIN r /\ Tail(r)[j] = r[j + 1]
          /\ j + 1 \in DOMAIN r /\ i + 1 < j + 1
      BY <1>4, <2>2
    <3> QED
      BY <1>2, <3>1 DEF ReplayInv, r, s
  <2> QED
    BY <1>1, <1>6, <1>7, <2>1, <2>2 DEF ReplayInv, t
<1>9. LastInv(c)'
  <2>1. s.protocol = "grpc" => Max2(s.last, e.version) = e.version
    <3>1. s.protocol = "grpc" => s.last = cursor[c]
      BY <1>2 DEF LastInv, s
    <3> QED
      BY <1>3, <1>6, <3>1 DEF Max2
  <2>2. \/ Max2(s.last, e.version) <= e.version
        \/ \E i \in DOMAIN Tail(r) : Max2(s.last, e.version) <= Tail(r)[i].version
    <3>1. CASE s.last <= e.version
      BY <1>3, <3>1 DEF Max2
    <3>2. CASE ~(s.last <= e.version)
      <4>1. PICK i \in DOMAIN r : s.last <= r[i].version
        BY <1>2, <1>3, <1>6, <3>2 DEF LastInv, r, s
      <4>2. i # 1 /\ Max2(s.last, e.version) = s.last
        BY <1>3, <1>4, <3>2, <4>1 DEF Max2
      <4> QED
        BY <1>5, <4>1, <4>2
    <3> QED
      BY <3>1, <3>2
  <2> QED
    BY <1>1, <1>6, <2>1, <2>2 DEF LastInv, t
<1>10. SeenInv(c)'
  <2>1. ASSUME NEW n \in 1 .. s.seen
        PROVE  \/ log[n].version <= cursor'[c]
               \/ \E i \in DOMAIN Tail(r) :
                     \/ Tail(r)[i].version = log[n].version
                     \/ s.force /\ Tail(r)[i].version > log[n].version
               \/ (s.force /\ s.protocol = "grpc")
    <3>2. CASE log[n].version <= cursor[c]
      <4>1. log[n].version \in 0 .. MaxVersion
        BY <1>0, <1>2, SeenVersions DEF s
      <4> QED
        BY <1>3, <3>2, <4>1
    <3>3. ASSUME NEW i \in DOMAIN r,
                 r[i].version = log[n].version \/ (s.force /\ r[i].version > log[n].version)
          PROVE  \/ log[n].version <= cursor'[c]
                 \/ \E j \in DOMAIN Tail(r) :
                       \/ Tail(r)[j].version = log[n].version
                       \/ s.force /\ Tail(r)[j].version > log[n].version
      <4>0. log[n].version \in 0 .. MaxVersion
        BY <1>0, <1>2, SeenVersions DEF s
      <4>1. CASE i = 1
        BY <1>3, <1>4, <1>6, <3>3, <4>0, <4>1
      <4>2. CASE i # 1
        BY <1>5, <3>3, <4>2
      <4> QED
        BY <4>1, <4>2
    <3>4. \/ log[n].version <= cursor[c]
          \/ \E i \in DOMAIN r : r[i].version = log[n].version \/ (s.force /\ r[i].version > log[n].version)
          \/ (s.force /\ s.protocol = "grpc")
      BY <1>2 DEF SeenInv, r, s
    <3> QED
      BY <3>2, <3>3, <3>4
  <2> QED
    BY <1>1, <1>2, <1>7, <2>1 DEF SeenInv, t, s
<1>11. PassedInv(c)'
  <2>1. s.next = s.from
    BY <1>0, <1>2 DEF PassedInv, r, s
  <2>2. s.from + 1 .. s.next = {}
    BY <1>3, <2>1
  <2> QED
    BY <1>1, <2>1, <2>2 DEF PassedInv, t
<1> QED
  BY <1>1, <1>6, <1>7, <1>8, <1>9, <1>10, <1>11 DEF ClientInv, t

\* What is in the hub was published.
LEMMA HubBounds ==
    ASSUME WatchInv, NEW i \in DOMAIN hub
    PROVE  hub[i].version <= Committed /\ hub[i].kind # "resync"
<1>1. i \in DOMAIN channel /\ hub[i] = channel[i]
  BY DEF WatchInv, PipeInv, TypeOK
<1>2. FromLog(hub[i])
  BY <1>1 DEF WatchInv, PipeInv
<1> QED
  BY <1>2, LogBounds DEF FromLog, WatchInv, LogInv

LEMMA SendLiveStream ==
    ASSUME WatchInv, NEW c \in Clients, SendLive(c), TypeOK'
    PROVE  ClientInv(c)'
<1> DEFINE s == streams[c]
           e == hub[s.next + 1]
           t == streams'[c]
           l == IF s.protocol = "grpc" THEN Max2(s.last, e.version) ELSE s.last
<1>0. TypeOK /\ LogInv /\ ClientInv(c) /\ s.replay = <<>> /\ s.at = "open"
  BY DEF WatchInv, StreamInv, ClientInv, SendLive, Live
<1>1. /\ t.at = "open" /\ t.protocol = s.protocol /\ t.replay = <<>> /\ t.force = s.force
      /\ t.next = s.next + 1 /\ t.seen = s.seen /\ t.from = s.from
      /\ s.next < Len(hub) /\ e \in Events
  BY <1>0, SendLiveFacts, LinkFields
<1>2. /\ ReplayInv(c) /\ LastInv(c) /\ SeenInv(c) /\ PassedInv(c) /\ cursor[c] <= Committed
  BY <1>0 DEF ClientInv
<1>3. /\ e.version \in 0 .. MaxVersion /\ cursor[c] \in 0 .. MaxVersion
      /\ s.last \in 0 .. MaxVersion /\ Len(hub) \in Nat
      /\ s.next \in Nat /\ s.from \in Nat /\ s.seen \in Nat /\ s.from <= s.next
  BY <1>0, <1>1, Fields DEF Events
<1>4. s.last <= cursor[c] /\ (s.protocol = "grpc" => s.last = cursor[c])
  BY <1>0, <1>2 DEF LastInv
<1>5. e.version <= Committed
  <2>1. s.next + 1 \in DOMAIN hub
    BY <1>0, <1>1, <1>3, HubEvents
  <2> QED
    BY <2>1, HubBounds
<1>6. /\ cursor'[c] \in 0 .. MaxVersion /\ cursor[c] <= cursor'[c] /\ e.version <= cursor'[c]
      /\ cursor'[c] <= Committed /\ UNCHANGED nodeVars
      /\ t.last <= cursor'[c] /\ (s.protocol = "grpc" => t.last = cursor'[c])
  <2>1. CASE Receive(c, e) /\ t.last = l
    <3>1. /\ cursor'[c] \in 0 .. MaxVersion /\ cursor[c] <= cursor'[c] /\ e.version <= cursor'[c]
          /\ cursor'[c] = Max2(cursor[c], e.version) /\ UNCHANGED nodeVars
      BY <1>0, <1>1, <2>1, RaisesCursor, ReceiveFacts
    <3>2. cursor'[c] <= Committed
      BY <1>2, <1>3, <1>5, <3>1 DEF Max2
    <3>3. l <= cursor'[c] /\ (s.protocol = "grpc" => l = cursor'[c])
      BY <1>3, <1>4, <3>1 DEF Max2
    <3> QED
      BY <2>1, <3>1, <3>2, <3>3
  <2>2. CASE UNCHANGED <<nodeVars, cursor, heard>> /\ t.last = s.last /\ ~(e.version > s.last)
    BY <1>2, <1>3, <1>4, <2>2
  <2> QED
    BY <1>0, <2>1, <2>2, SendLiveFacts, LinkFields
<1>7. Committed' = Committed /\ log' = log /\ applied' = applied /\ hub' = hub
  BY <1>6 DEF nodeVars, Committed, VersionAt
<1>8. ReplayInv(c)'
  <2>1. DOMAIN (<<>>) = {}
    OBVIOUS
  <2> QED
    BY <1>1, <2>1 DEF ReplayInv
<1>9. LastInv(c)'
  BY <1>1, <1>6 DEF LastInv
<1>10. SeenInv(c)'
  <2>1. \A n \in 1 .. s.seen : log[n].version <= cursor'[c] \/ (s.force /\ s.protocol = "grpc")
    <3> SUFFICES ASSUME NEW n \in 1 .. s.seen PROVE log[n].version <= cursor'[c] \/ (s.force /\ s.protocol = "grpc")
      OBVIOUS
    <3>1. log[n].version <= cursor[c] \/ (s.force /\ s.protocol = "grpc")
      BY <1>0, <1>2 DEF SeenInv
    <3>2. log[n].version \in 0 .. MaxVersion
      BY <1>0, <1>2, SeenVersions
    <3> QED
      BY <1>3, <1>6, <3>1, <3>2
  <2> QED
    BY <1>1, <1>2, <1>7, <2>1 DEF SeenInv
<1>11. PassedInv(c)'
  <2>1. ASSUME NEW i \in s.from + 1 .. s.next + 1 PROVE hub[i].version <= cursor'[c]
    <3>1. CASE i = s.next + 1
      BY <1>6, <3>1
    <3>2. CASE i # s.next + 1
      <4>1. i \in s.from + 1 .. s.next /\ i \in DOMAIN hub
        BY <1>0, <1>1, <1>3, <3>2, HubEvents, SMTT(30)
      <4>2. hub[i].version \in 0 .. MaxVersion
        BY <1>0, <4>1, HubEvents
      <4>3. hub[i].version <= cursor[c]
        BY <1>2, <4>1 DEF PassedInv
      <4> QED
        BY <1>3, <1>6, <4>2, <4>3
    <3> QED
      BY <3>1, <3>2
  <2> QED
    BY <1>1, <1>7, <2>1 DEF PassedInv
<1> QED
  BY <1>1, <1>6, <1>7, <1>8, <1>9, <1>10, <1>11 DEF ClientInv


LEMMA ClientStream ==
    ASSUME WatchInv, NEW c \in Clients, ClientStep(c)
    PROVE  ClientInv(c)'
<1> DEFINE s == streams[c]
<1>0. TypeOK /\ LogInv /\ ClientInv(c) /\ TypeOK' /\ UNCHANGED nodeVars
  BY ClientStepTypes DEF WatchInv, StreamInv, ClientInv
<1>1. Committed' = Committed /\ log' = log /\ applied' = applied /\ hub' = hub
  BY <1>0 DEF nodeVars, Committed, VersionAt
<1>2. /\ cursor[c] \in 0 .. MaxVersion /\ cursor[c] <= Committed /\ Committed \in 0 .. MaxVersion
      /\ s.last \in 0 .. MaxVersion /\ s.protocol \in Protocols /\ Len(hub) \in Nat
  BY <1>0, Fields, Versions DEF ClientInv
<1>3. CASE Fetch(c)
  <2>1. streams'[c].at = "fetched"
    BY <1>0, <1>3, FetchFacts, LinkFields
  <2>2. PICK v \in 0 .. Committed : cursor' = [cursor EXCEPT ![c] = Max2(cursor[c], v)]
    BY <1>3 DEF Fetch
  <2>3. cursor'[c] = Max2(cursor[c], v)
    BY <1>0, <2>2 DEF TypeOK
  <2>4. cursor'[c] <= Committed
    BY <1>2, <2>3 DEF Max2
  <2> QED
    BY <1>1, <2>1, <2>4 DEF ClientInv
<1>4. CASE ReadHistory(c)
  BY <1>0, <1>4, ReadStream
<1>5. CASE Subscribe(c)
  <2> DEFINE t == streams'[c]
  <2>1. /\ t.at = "open" /\ t.protocol = s.protocol /\ t.replay = s.replay /\ t.force = s.force
        /\ t.last = s.last /\ t.next = Len(hub) /\ t.seen = s.seen /\ t.from = Len(hub)
    BY <1>0, <1>5, SubscribeFacts, LinkFields
  <2>2. ReplayInv(c) /\ LastInv(c) /\ SeenInv(c) /\ cursor' = cursor
    BY <1>0, <1>5 DEF ClientInv, Subscribe
  <2>3. ReplayInv(c)'
    BY <1>1, <2>1, <2>2 DEF ReplayInv
  <2>4. LastInv(c)'
    BY <1>1, <2>1, <2>2 DEF LastInv
  <2>5. SeenInv(c)'
    BY <1>1, <2>1, <2>2 DEF SeenInv
  <2>6. PassedInv(c)'
    <3>1. Len(hub) + 1 .. Len(hub) = {}
      BY <1>2
    <3> QED
      BY <2>1, <3>1 DEF PassedInv
  <2> QED
    BY <1>1, <1>2, <2>2, <2>3, <2>4, <2>5, <2>6 DEF ClientInv
<1>6. CASE SendReplay(c)
  BY <1>0, <1>6, SendReplayStream
<1>7. CASE SendLive(c)
  BY <1>0, <1>7, SendLiveStream
<1>8. CASE SendResync(c) \/ EndLagged(c) \/ Disconnect(c)
  <2>1. streams' = [streams EXCEPT ![c] = Down(streams[c].protocol)]
    BY <1>8 DEF SendResync, EndLagged, Disconnect
  <2>2. streams'[c].at = "down"
    BY <1>0, <2>1, DownFacts
  <2>3. \/ s.at = "open" /\ s.replay = <<>> /\ Receive(c, Resync(s.last))
        \/ cursor' = cursor
    BY <1>8 DEF SendResync, EndLagged, Disconnect, Live
  <2>4. cursor'[c] <= Committed
    <3>1. CASE s.at = "open" /\ s.replay = <<>> /\ Receive(c, Resync(s.last))
      <4>1. s.last <= cursor[c]
        BY <1>0, <3>1 DEF ClientInv, LastInv
      <4>2. Resync(s.last) \in Events /\ Resync(s.last).version = s.last
        BY <1>2, ResyncType
      <4>3. cursor'[c] = Max2(cursor[c], s.last)
        BY <1>0, <3>1, <4>2, ReceiveFacts
      <4> QED
        BY <1>2, <4>1, <4>3 DEF Max2
    <3>2. CASE cursor' = cursor
      BY <1>2, <3>2
    <3> QED
      BY <2>3, <3>1, <3>2
  <2> QED
    BY <1>1, <2>2, <2>4 DEF ClientInv
<1> QED
  BY <1>3, <1>4, <1>5, <1>6, <1>7, <1>8 DEF ClientStep, Server

\* The other clients do not notice.
LEMMA OtherStream ==
    ASSUME WatchInv, NEW c \in Clients, ClientStep(c), NEW d \in Clients \ {c}
    PROVE  ClientInv(d)'
<1>1. /\ ClientInv(d) /\ UNCHANGED nodeVars /\ streams'[d] = streams[d] /\ cursor'[d] = cursor[d]
  BY ClientStepTypes DEF WatchInv, StreamInv, ClientInv, OthersStay
<1>2. Committed' = Committed /\ log' = log /\ applied' = applied /\ hub' = hub
  BY <1>1 DEF nodeVars, Committed, VersionAt
<1> QED
  BY <1>1, <1>2 DEF ClientInv, ReplayInv, LastInv, SeenInv, PassedInv

-----------------------------------------------------------------------------
(* The invariant *)

LEMMA WatchInit ==
    ASSUME Init
    PROVE  WatchInv
<1>0. <<>> \in Seq(Events) /\ Len(<<>>) = 0 /\ DOMAIN (<<>>) = {} /\ MaxVersion \in Nat
  BY WatchAssumption
<1>1. PICK p \in [Clients -> Protocols] : streams = [c \in Clients |-> Down(p[c])]
  BY DEF Init
<1>2. ASSUME NEW c \in Clients
      PROVE  /\ streams[c] \in Streams /\ streams[c].at = "down" /\ cursor[c] = 0
             /\ streams[c].next = 0 /\ streams[c].from = 0
  BY <1>1, DownType DEF Init
<1>3. ClientTypes
  <2>1. streams \in [Clients -> Streams]
    BY <1>1, <1>2
  <2>2. \A c \in Clients : streams[c].next \in streams[c].from .. Len(hub)
    BY <1>0, <1>2 DEF Init
  <2>3. cursor \in [Clients -> 0 .. MaxVersion] /\ heard \in [Clients -> Seq(Events)]
    BY <1>0 DEF Init
  <2> QED
    BY <2>1, <2>2, <2>3 DEF ClientTypes
<1>4. NodeTypes
  <2>1. 0 \in 0 .. Len(<<>>) /\ 1 \in 1 .. MaxVersion + 1
    BY <1>0
  <2>2. log = <<>> /\ pending = <<>> /\ channel = <<>> /\ hub = <<>>
    BY DEF Init
  <2>3. log \in Seq(Events) /\ pending \in Seq(Events) /\ channel \in Seq(Events)
        /\ hub \in Seq(Events)
    BY <1>0, <2>2
  <2>4. applied \in 0 .. Len(log) /\ taken \in 0 .. Len(channel) /\ oldest \in 1 .. MaxVersion + 1
    BY <2>1, <2>2 DEF Init
  <2>5. sending \in BOOLEAN /\ skipped \in BOOLEAN /\ forwarder \in {"running", "ended"}
    BY DEF Init
  <2> QED
    BY <2>3, <2>4, <2>5 DEF NodeTypes
<1>5. TypeOK
  BY <1>3, <1>4 DEF TypeOK, NodeTypes, ClientTypes
<1>6. Committed = 0
  BY <1>0 DEF Init, Committed, VersionAt
<1>7. LogInv
  BY <1>0, <1>6 DEF Init, LogInv
<1>8. PipeInv
  BY <1>0 DEF Init, PipeInv
<1>9. OldestInv /\ StreamInv
  BY <1>2, <1>6 DEF Init, OldestInv, StreamInv
<1> QED
  BY <1>5, <1>7, <1>8, <1>9 DEF WatchInv

LEMMA WatchStep ==
    ASSUME WatchInv, [Next]_vars
    PROVE  WatchInv'
<1>1. CASE NodeStep
  <2>1. TypeOK' /\ LogInv' /\ PipeInv' /\ OldestInv'
    BY <1>1, NodeStepTypes, LogStep, PipeStep, OldestStep DEF WatchInv
  <2>2. \A c \in Clients : ClientInv(c)'
    BY <1>1, NodeStream
  <2> QED
    BY <2>1, <2>2 DEF WatchInv, StreamInv, ClientInv
<1>2. ASSUME NEW c \in Clients, ClientStep(c) PROVE WatchInv'
  <2>1. TypeOK' /\ UNCHANGED nodeVars
    BY <1>2, ClientStepTypes DEF WatchInv
  <2>2. LogInv' /\ PipeInv' /\ OldestInv'
    BY <2>1 DEF WatchInv, nodeVars, LogInv, PipeInv, OldestInv, Committed, Version, VersionAt, FromLog
  <2>3. \A d \in Clients : ClientInv(d)'
    BY <1>2, ClientStream, OtherStream
  <2> QED
    BY <2>1, <2>2, <2>3 DEF WatchInv, StreamInv, ClientInv
<1>3. CASE UNCHANGED vars
  <2>1. UNCHANGED nodeVars /\ UNCHANGED clientVars
    BY <1>3 DEF vars
  <2>2. TypeOK'
    BY <2>1 DEF nodeVars, clientVars, WatchInv, TypeOK
  <2>3. LogInv' /\ PipeInv' /\ OldestInv'
    BY <2>1 DEF WatchInv, nodeVars, LogInv, PipeInv, OldestInv, Committed, Version, VersionAt, FromLog
  <2>4. Committed' = Committed /\ log' = log /\ applied' = applied /\ hub' = hub
        /\ streams' = streams /\ cursor' = cursor
    BY <2>1 DEF nodeVars, clientVars, Committed, VersionAt
  <2>5. StreamInv'
    BY <2>4 DEF WatchInv, StreamInv, ReplayInv, LastInv, SeenInv, PassedInv
  <2> QED
    BY <2>2, <2>3, <2>5 DEF WatchInv
<1> QED
  BY <1>1, <1>2, <1>3 DEF Next, NodeStep, ClientStep

\* The inductive invariant.
LEMMA WatchInvariant == Spec => []WatchInv
<1>1. Init => WatchInv
  BY WatchInit
<1>2. WatchInv /\ [Next]_vars => WatchInv'
  BY WatchStep
<1> QED
  BY <1>1, <1>2, PTL DEF Spec

(* Types, and every position a stream holds lies within what the hub has.    *)
THEOREM WatchTypeOK == Spec => []TypeOK
<1>1. WatchInv => TypeOK
  BY DEF WatchInv
<1> QED
  BY <1>1, WatchInvariant, PTL

(* As long as the forwarder runs and no snapshot has taken the place of      *)
(* entries, what the node applied is at or below the cursor of the client of *)
(* an open stream, or the stream still carries the cursor there; only what   *)
(* the hub was sent between the read of the history and the subscription can *)
(* be missed.  A stream whose start was pruned carries it by its replay, and *)
(* over gRPC by the request to fetch.  For any capacity of the channels, any *)
(* number of clients and versions.                                           *)
THEOREM StreamCompleteHolds == Spec => []StreamComplete
<1>1. ASSUME WatchInv, Intact, NEW c \in Clients, streams[c].at = "open", NEW n \in 1 .. applied
      PROVE  log[n].version <= cursor[c] \/ Carried(streams[c], n)
  <2>1. /\ SeenInv(c) /\ PassedInv(c) /\ TypeOK /\ PipeInv /\ ~skipped
    BY <1>1 DEF WatchInv, StreamInv, Intact
  <2>2. /\ streams[c].seen \in Nat /\ streams[c].from \in Nat /\ streams[c].next \in Nat
        /\ streams[c].next <= Len(hub) /\ Len(hub) \in Nat /\ Len(channel) \in Nat
        /\ Len(pending) \in Nat /\ applied \in Nat /\ n \in Nat
    BY <2>1, Fields DEF TypeOK
  <2>3. /\ taken = Len(hub) /\ \A i \in DOMAIN hub : hub[i] = channel[i]
        /\ applied = Len(channel) + Len(pending) /\ Len(hub) <= Len(channel)
        /\ \A i \in DOMAIN channel : channel[i] = log[i]
        /\ \A i \in DOMAIN pending : pending[i] = log[Len(channel) + i]
        /\ DOMAIN hub = 1 .. Len(hub) /\ DOMAIN channel = 1 .. Len(channel)
        /\ DOMAIN pending = 1 .. Len(pending)
    BY <2>1 DEF PipeInv, TypeOK
  <2>4. CASE n <= streams[c].seen
    <3>1. n \in 1 .. streams[c].seen
      BY <2>2, <2>4
    <3> QED
      BY <2>1, <3>1 DEF SeenInv, Carried
  <2>5. CASE ~streams[c].force /\ n \in streams[c].seen + 1 .. streams[c].from
    BY <2>5 DEF Carried
  <2>6. CASE ~streams[c].force /\ n > streams[c].from /\ n <= Len(hub)
    <3>1. n \in DOMAIN hub /\ n \in DOMAIN channel /\ hub[n] = log[n]
      BY <2>2, <2>3, <2>6, SMTT(30)
    <3>2. CASE n <= streams[c].next
      <4>1. n \in streams[c].from + 1 .. streams[c].next
        BY <2>2, <2>6, <3>2
      <4>2. hub[n].version <= cursor[c]
        BY <2>1, <4>1 DEF PassedInv
      <4> QED
        BY <3>1, <4>2
    <3>3. CASE n > streams[c].next
      <4>1. n \in streams[c].next + 1 .. Len(hub)
        BY <2>2, <2>6, <3>3
      <4> QED
        BY <2>6, <3>1, <4>1 DEF Carried
    <3> QED
      BY <2>2, <3>2, <3>3
  <2>7. CASE ~streams[c].force /\ n > Len(hub) /\ n <= Len(channel)
    <3>1. n \in taken + 1 .. Len(channel) /\ n \in DOMAIN channel
      BY <2>2, <2>3, <2>7
    <3>2. channel[n].version = log[n].version
      BY <2>3, <3>1
    <3> QED
      BY <2>7, <3>1, <3>2 DEF Carried, InFlight
  <2>8. CASE ~streams[c].force /\ n > Len(channel)
    <3> DEFINE i == n - Len(channel)
    <3>1. i \in DOMAIN pending /\ Len(channel) + i = n
      BY <2>2, <2>3, <2>8
    <3>2. pending[i].version = log[n].version
      BY <2>3, <3>1
    <3> QED
      BY <2>8, <3>1, <3>2 DEF Carried, InFlight
  <2>9. CASE streams[c].force /\ n > streams[c].seen
    BY <2>9 DEF Carried
  <2> QED
    BY <2>2, <2>4, <2>5, <2>6, <2>7, <2>8, <2>9
<1>2. WatchInv => StreamComplete
  BY <1>1 DEF StreamComplete
<1> QED
  BY <1>2, WatchInvariant, PTL


-----------------------------------------------------------------------------
(* What the listeners hear implements Feed *)

\* What a listener was told of an event, and of all of them.
Notice(e) == [version |-> e.version, kind |-> e.kind]
Told(h) == [i \in DOMAIN h |-> Notice(h[i])]
ToldAll == [c \in Clients |-> Told(heard[c])]

LEMMA ToldAppend ==
    ASSUME NEW h \in Seq(Events), NEW e \in Events
    PROVE  Told(Append(h, e)) = Append(Told(h), Notice(e))
<1> DEFINE N == [version : 0 .. MaxVersion, kind : Kinds]
<1>1. \A x \in Events : Notice(x) \in N
  BY DEF Notice, Events
<1>2. Len(h) \in Nat /\ DOMAIN h = 1 .. Len(h) /\ \A i \in DOMAIN h : h[i] \in Events
  OBVIOUS
<1>3. Told(h) \in Seq(N) /\ Len(Told(h)) = Len(h)
  <2>1. Told(h) \in [1 .. Len(h) -> N]
    BY <1>1, <1>2 DEF Told
  <2> HIDE DEF N
  <2> QED
    BY <1>2, <2>1, LenProperties DEF Told
<1>4. Append(h, e) \in Seq(Events) /\ Len(Append(h, e)) = Len(h) + 1
      /\ DOMAIN Append(h, e) = 1 .. Len(h) + 1
      /\ \A i \in 1 .. Len(h) + 1 : Append(h, e)[i] = IF i = Len(h) + 1 THEN e ELSE h[i]
  BY <1>2
<1>5. Told(Append(h, e)) = 
         [i \in 1 .. Len(h) + 1 |-> IF i = Len(h) + 1 THEN Notice(e) ELSE Notice(h[i])]
  BY <1>4 DEF Told
<1>6. Append(Told(h), Notice(e))
         = [i \in 1 .. Len(h) + 1 |-> IF i = Len(h) + 1 THEN Notice(e) ELSE Notice(h[i])]
  <2>1. Notice(e) \in N
    BY <1>1
  <2> HIDE DEF N
  <2>2. /\ DOMAIN Append(Told(h), Notice(e)) = 1 .. Len(h) + 1
        /\ \A i \in 1 .. Len(h) + 1 :
              Append(Told(h), Notice(e))[i] = IF i = Len(h) + 1 THEN Notice(e) ELSE Told(h)[i]
        /\ Append(Told(h), Notice(e)) \in Seq(N)
    BY <1>2, <1>3, <2>1
  <2>3. \A i \in 1 .. Len(h) : Told(h)[i] = Notice(h[i])
    BY <1>2 DEF Told
  <2>4. \A i \in 1 .. Len(h) + 1 : i # Len(h) + 1 => i \in 1 .. Len(h)
    BY <1>2
  <2> HIDE DEF Told
  <2>5. \A i \in 1 .. Len(h) + 1 : Append(Told(h), Notice(e))[i]
           = IF i = Len(h) + 1 THEN Notice(e) ELSE Notice(h[i])
    BY <2>2, <2>3, <2>4
  <2> DEFINE A == Append(Told(h), Notice(e))
  <2>6. A \in Seq(N) /\ DOMAIN A = 1 .. Len(h) + 1
        /\ \A i \in 1 .. Len(h) + 1 : A[i] = IF i = Len(h) + 1 THEN Notice(e) ELSE Notice(h[i])
    BY <2>2, <2>5
  <2> HIDE DEF A
  <2>7. A \in [1 .. Len(A) -> N] /\ Len(A) = Len(h) + 1
    BY <1>2, <2>6
  <2>8. A = [i \in 1 .. Len(h) + 1 |-> IF i = Len(h) + 1 THEN Notice(e) ELSE Notice(h[i])]
    BY <2>6, <2>7
  <2> QED
    BY <2>8 DEF A
<1> QED
  BY <1>5, <1>6

\* An event that is taken, and one that is not.
LEMMA ToldStep ==
    ASSUME TypeOK, NEW c \in Clients, NEW e \in Events, Receive(c, e)
    PROVE  ToldAll' = IF Accepts(c, e) /\ ~Repeats(c, e)
                      THEN [ToldAll EXCEPT ![c] = Append(ToldAll[c], Notice(e))]
                      ELSE ToldAll
<1>1. /\ heard[c] \in Seq(Events) /\ heard' \in [Clients -> Seq(Events)]
      /\ heard'[c] = IF Accepts(c, e) /\ ~Repeats(c, e) THEN Append(heard[c], e) ELSE heard[c]
      /\ \A d \in Clients \ {c} : heard'[d] = heard[d]
  BY ReceiveFacts, Fields
<1>2. Told(Append(heard[c], e)) = Append(Told(heard[c]), Notice(e))
  BY <1>1, ToldAppend
<1>3. ToldAll = [d \in Clients |-> Told(heard[d])] /\ ToldAll' = [d \in Clients |-> Told(heard'[d])]
  BY DEF ToldAll, Told, Notice
<1>4. CASE Accepts(c, e) /\ ~Repeats(c, e)
  <2>1. heard'[c] = Append(heard[c], e)
    BY <1>1, <1>4
  <2> HIDE DEF Told
  <2>2. ToldAll' = [ToldAll EXCEPT ![c] = Append(ToldAll[c], Notice(e))]
    BY <1>1, <1>2, <1>3, <2>1
  <2> QED
    BY <1>4, <2>2
<1>5. CASE ~(Accepts(c, e) /\ ~Repeats(c, e))
  <2>1. \A d \in Clients : heard'[d] = heard[d]
    BY <1>1, <1>5
  <2>2. ToldAll' = ToldAll
    BY <1>3, <2>1
  <2> QED
    BY <1>5, <2>2
<1> QED
  BY <1>4, <1>5


\* The steps of Feed, in terms of what was told.
LEMMA FeedSteps ==
    ASSUME NEW c \in Clients
    PROVE  /\ Committed' = Committed /\ cursor' = cursor /\ ToldAll' = ToldAll
              => UNCHANGED feed!feedVars
           /\ Committed' = Committed + 1 /\ cursor' = cursor /\ ToldAll' = ToldAll => feed!FeedNext
           /\ /\ \E v \in cursor[c] .. Committed : cursor' = [cursor EXCEPT ![c] = v]
              /\ Committed' = Committed /\ ToldAll' = ToldAll
              => feed!FeedNext
           /\ /\ \E v \in cursor[c] + 1 .. Committed :
                    /\ cursor' = [cursor EXCEPT ![c] = v]
                    /\ ToldAll' = [ToldAll EXCEPT ![c] =
                                      Append(ToldAll[c], [version |-> v, kind |-> "plain"])]
              /\ Committed' = Committed
              => feed!FeedNext
           /\ /\ \E v \in 0 .. Committed :
                    /\ cursor' = [cursor EXCEPT ![c] = IF v > cursor[c] THEN v ELSE cursor[c]]
                    /\ ToldAll' = [ToldAll EXCEPT ![c] =
                                      Append(ToldAll[c], [version |-> v, kind |-> "gray"])]
              /\ Committed' = Committed
              => feed!FeedNext
           /\ /\ ToldAll' = [ToldAll EXCEPT ![c] =
                                Append(ToldAll[c], [version |-> cursor[c], kind |-> "resync"])]
              /\ Committed' = Committed /\ cursor' = cursor
              => feed!FeedNext
<1>1. Committed' = Committed /\ cursor' = cursor /\ ToldAll' = ToldAll => UNCHANGED feed!feedVars
  BY DEF feed!feedVars, ToldAll, Told, Notice
<1>2. Committed' = Committed + 1 /\ cursor' = cursor /\ ToldAll' = ToldAll => feed!FeedNext
  BY DEF feed!FeedNext, feed!Publish, ToldAll, Told, Notice
<1>3. /\ \E v \in cursor[c] .. Committed : cursor' = [cursor EXCEPT ![c] = v]
      /\ Committed' = Committed /\ ToldAll' = ToldAll
      => feed!FeedNext
  BY DEF feed!FeedNext, feed!Anchor, ToldAll, Told, Notice
<1>4. /\ \E v \in cursor[c] + 1 .. Committed :
            /\ cursor' = [cursor EXCEPT ![c] = v]
            /\ ToldAll' = [ToldAll EXCEPT ![c] =
                              Append(ToldAll[c], [version |-> v, kind |-> "plain"])]
      /\ Committed' = Committed
      => feed!FeedNext
  BY DEF feed!FeedNext, feed!Tell, ToldAll, Told, Notice
<1>5. /\ \E v \in 0 .. Committed :
            /\ cursor' = [cursor EXCEPT ![c] = IF v > cursor[c] THEN v ELSE cursor[c]]
            /\ ToldAll' = [ToldAll EXCEPT ![c] =
                              Append(ToldAll[c], [version |-> v, kind |-> "gray"])]
      /\ Committed' = Committed
      => feed!FeedNext
  BY DEF feed!FeedNext, feed!TellGray, ToldAll, Told, Notice
<1>6. /\ ToldAll' = [ToldAll EXCEPT ![c] =
                        Append(ToldAll[c], [version |-> cursor[c], kind |-> "resync"])]
      /\ Committed' = Committed /\ cursor' = cursor
      => feed!FeedNext
  BY DEF feed!FeedNext, feed!TellResync, ToldAll, Told, Notice
<1> QED
  BY <1>1, <1>2, <1>3, <1>4, <1>5, <1>6


\* A step of Feed, or none.
FeedStep == feed!FeedNext \/ UNCHANGED feed!feedVars

\* An event that a client receives: new to it, or gray, or not taken.
LEMMA ReceiveFeeds ==
    ASSUME TypeOK, NEW c \in Clients, NEW e \in Events, Receive(c, e), e.version <= Committed,
           e.kind = "plain" => (Accepts(c, e) => e.version > cursor[c]),
           e.kind = "resync" => e.version <= cursor[c],
           e.kind = "resync" => (Accepts(c, e) => e.version = cursor[c])
    PROVE  FeedStep
<1>1. /\ cursor[c] \in 0 .. MaxVersion /\ e.version \in 0 .. MaxVersion /\ e.kind \in Kinds
      /\ Committed \in 0 .. MaxVersion
  BY Fields, Versions DEF Events
<1>2. cursor' = [cursor EXCEPT ![c] = Max2(cursor[c], e.version)] /\ UNCHANGED nodeVars
  BY DEF Receive
<1>3. Committed' = Committed
  BY <1>2 DEF nodeVars, Committed, VersionAt
<1>4. ToldAll' = IF Accepts(c, e) /\ ~Repeats(c, e)
                 THEN [ToldAll EXCEPT ![c] = Append(ToldAll[c], Notice(e))]
                 ELSE ToldAll
  BY ToldStep
<1>5. Max2(cursor[c], e.version) = cursor[c] => cursor' = cursor
  BY <1>2 DEF TypeOK
<1>6. CASE e.kind = "plain"
  <2>1. ~Repeats(c, e)
    BY <1>6 DEF Repeats
  <2>2. CASE Accepts(c, e)
    <3>1. e.version \in cursor[c] + 1 .. Committed /\ Max2(cursor[c], e.version) = e.version
      BY <1>1, <1>6, <2>2 DEF Max2
    <3>2. Notice(e) = [version |-> e.version, kind |-> "plain"]
      BY <1>6 DEF Notice
    <3>3. /\ cursor' = [cursor EXCEPT ![c] = e.version]
          /\ ToldAll' = [ToldAll EXCEPT ![c] =
                            Append(ToldAll[c], [version |-> e.version, kind |-> "plain"])]
      BY <1>2, <1>4, <2>1, <2>2, <3>1, <3>2
    <3> QED
      BY <1>3, <3>1, <3>3, FeedSteps DEF FeedStep
  <2>3. CASE ~Accepts(c, e)
    <3>1. Max2(cursor[c], e.version) = cursor[c]
      BY <1>1, <2>3 DEF Max2, Accepts
    <3> QED
      BY <1>3, <1>4, <1>5, <2>3, <3>1, FeedSteps DEF FeedStep
  <2> QED
    BY <2>2, <2>3
<1>7. CASE e.kind = "gray"
  <2>1. Accepts(c, e) /\ ~Repeats(c, e)
    BY <1>7 DEF Accepts, Repeats
  <2>2. Notice(e) = [version |-> e.version, kind |-> "gray"]
    BY <1>7 DEF Notice
  <2>3. ToldAll' = [ToldAll EXCEPT ![c] =
                       Append(ToldAll[c], [version |-> e.version, kind |-> "gray"])]
    BY <1>4, <2>1, <2>2
  <2>4. Max2(cursor[c], e.version) = IF e.version > cursor[c] THEN e.version ELSE cursor[c]
    BY <1>1 DEF Max2
  <2>5. cursor' = [cursor EXCEPT ![c] = IF e.version > cursor[c] THEN e.version ELSE cursor[c]]
    BY <1>2, <2>4
  <2>6. e.version \in 0 .. Committed
    BY <1>1
  <2> QED
    BY <1>3, <2>3, <2>5, <2>6, FeedSteps DEF FeedStep
<1>8. CASE e.kind = "resync"
  <2>1. cursor' = cursor
    BY <1>1, <1>5, <1>8 DEF Max2
  <2>2. CASE Accepts(c, e) /\ ~Repeats(c, e)
    <3>1. Notice(e) = [version |-> cursor[c], kind |-> "resync"]
      BY <1>8, <2>2 DEF Notice
    <3>2. ToldAll' = [ToldAll EXCEPT ![c] =
                         Append(ToldAll[c], [version |-> cursor[c], kind |-> "resync"])]
      BY <1>4, <2>2, <3>1
    <3> QED
      BY <1>3, <2>1, <3>2, FeedSteps DEF FeedStep
  <2>3. CASE ~(Accepts(c, e) /\ ~Repeats(c, e))
    BY <1>3, <1>4, <2>1, <2>3, FeedSteps DEF FeedStep
  <2> QED
    BY <2>2, <2>3
<1> QED
  BY <1>1, <1>6, <1>7, <1>8 DEF Kinds

LEMMA ClientFeeds ==
    ASSUME WatchInv, NEW c \in Clients, ClientStep(c)
    PROVE  FeedStep
<1> DEFINE s == streams[c]
<1>0. TypeOK /\ LogInv /\ ClientInv(c) /\ UNCHANGED nodeVars
  BY ClientStepTypes DEF WatchInv, StreamInv, ClientInv
<1>1. Committed' = Committed
  BY <1>0 DEF nodeVars, Committed, VersionAt
<1>2. /\ cursor[c] \in 0 .. MaxVersion /\ cursor[c] <= Committed /\ Committed \in 0 .. MaxVersion
      /\ s.last \in 0 .. MaxVersion /\ s.protocol \in Protocols /\ Len(hub) \in Nat
      /\ s.next \in Nat /\ s.replay \in Seq(Events)
  BY <1>0, Fields, Versions DEF ClientInv
<1>3. ASSUME UNCHANGED <<cursor, heard>> PROVE FeedStep
  <2>1. ToldAll' = ToldAll /\ cursor' = cursor
    BY <1>3 DEF ToldAll, Told
  <2> QED
    BY <1>1, <2>1, FeedSteps DEF FeedStep
<1>4. CASE Fetch(c)
  <2>1. PICK v \in 0 .. Committed : cursor' = [cursor EXCEPT ![c] = Max2(cursor[c], v)]
    BY <1>4 DEF Fetch
  <2>2. Max2(cursor[c], v) \in cursor[c] .. Committed
    BY <1>2 DEF Max2
  <2>3. ToldAll' = ToldAll
    BY <1>4 DEF Fetch, ToldAll, Told
  <2> QED
    BY <1>1, <2>1, <2>2, <2>3, FeedSteps DEF FeedStep
<1>5. CASE ReadHistory(c) \/ Subscribe(c) \/ Disconnect(c)
  BY <1>3, <1>5 DEF ReadHistory, Subscribe, Disconnect
<1>6. CASE SendReplay(c)
  <2> DEFINE e == Head(s.replay)
  <2>1. e \in Events /\ Receive(c, e)
    BY <1>0, <1>6, SendReplayFacts
  <2>2. e = s.replay[1] /\ 1 \in DOMAIN s.replay
    BY <1>2, <1>6, NonEmpty DEF SendReplay
  <2>3. e.version > cursor[c] /\ e.version <= Committed /\ e.kind # "resync"
    BY <1>0, <1>6, <2>2 DEF ClientInv, ReplayInv, SendReplay
  <2> HIDE DEF e
  <2> QED
    BY <1>0, <2>1, <2>3, ReceiveFeeds
<1>7. CASE SendLive(c)
  <2> DEFINE e == hub[s.next + 1]
  <2>1. /\ e \in Events /\ s.at = "open" /\ s.replay = <<>> /\ s.next < Len(hub)
        /\ \/ (e.kind = "gray" \/ e.version > s.last) /\ Receive(c, e)
           \/ UNCHANGED <<nodeVars, cursor, heard>>
    BY <1>0, <1>7, SendLiveFacts
  <2>2. s.next + 1 \in DOMAIN hub
    BY <1>0, <1>2, <2>1, HubEvents
  <2>3. e.version <= Committed /\ e.kind # "resync"
    BY <2>2, HubBounds
  <2>4. s.protocol = "grpc" => s.last = cursor[c]
    BY <1>0, <2>1 DEF ClientInv, LastInv
  <2> HIDE DEF e
  <2>5. CASE (e.kind = "gray" \/ e.version > s.last) /\ Receive(c, e)
    <3>1. e.kind = "plain" => (Accepts(c, e) => e.version > cursor[c])
      BY <2>4, <2>5 DEF Accepts
    <3> QED
      BY <1>0, <2>1, <2>3, <2>5, <3>1, ReceiveFeeds
  <2>6. CASE UNCHANGED <<nodeVars, cursor, heard>>
    BY <1>3, <2>6
  <2> QED
    BY <2>1, <2>5, <2>6
<1>8. CASE SendResync(c) \/ EndLagged(c)
  <2>1. s.at = "open" /\ s.replay = <<>>
    BY <1>8 DEF SendResync, EndLagged, Live
  <2>2. Receive(c, Resync(s.last)) \/ UNCHANGED <<nodeVars, cursor, heard>>
    BY <1>8 DEF SendResync, EndLagged
  <2>3. s.last <= cursor[c] /\ (s.protocol = "grpc" => s.last = cursor[c])
    BY <1>0, <2>1 DEF ClientInv, LastInv
  <2> DEFINE e == Resync(s.last)
  <2>4. e \in Events /\ e.version = s.last /\ e.kind = "resync"
    BY <1>2, ResyncType
  <2> HIDE DEF e
  <2>5. CASE Receive(c, e)
    <3>1. e.version <= Committed /\ e.version <= cursor[c]
      BY <1>2, <2>3, <2>4
    <3>2. Accepts(c, e) => e.version = cursor[c]
      BY <1>2, <2>3, <2>4 DEF Accepts
    <3> QED
      BY <1>0, <2>4, <2>5, <3>1, <3>2, ReceiveFeeds
  <2>6. CASE UNCHANGED <<nodeVars, cursor, heard>>
    BY <1>3, <2>6
  <2> QED
    BY <2>2, <2>5, <2>6 DEF e
<1> QED
  BY <1>4, <1>5, <1>6, <1>7, <1>8 DEF ClientStep, Server

LEMMA NodeFeeds ==
    ASSUME WatchInv, NodeStep
    PROVE  FeedStep
<1>1. (Committed' = Committed \/ Committed' = Committed + 1) /\ Grows
  BY LogStep, NodeStepFacts DEF WatchInv
<1>2. cursor' = cursor /\ ToldAll' = ToldAll
  BY <1>1 DEF Grows, clientVars, ToldAll, Told
<1>3. CASE Committed' = Committed + 1
  BY <1>2, <1>3 DEF FeedStep, feed!FeedNext, feed!Publish, ToldAll, Told, Notice
<1>4. CASE Committed' = Committed
  BY <1>2, <1>4 DEF FeedStep, feed!feedVars, ToldAll, Told, Notice
<1> QED
  BY <1>1, <1>3, <1>4

(* Every behaviour of the node and its clients is one of Feed: a listener    *)
(* hears only published versions, the ones that are not gray strictly        *)
(* increasing, through replays that overlap the live part, lags,             *)
(* reconnections, snapshots and gray events about an older version.          *)
THEOREM FeedHolds == Spec => FeedImplemented
<1>1. Init => feed!FeedInit
  <2> SUFFICES ASSUME Init PROVE feed!FeedInit
    OBVIOUS
  <2>1. Committed = 0 /\ cursor = [c \in Clients |-> 0]
    BY DEF Init, Committed, VersionAt
  <2>2. ToldAll = [c \in Clients |-> <<>>]
    <3>1. Told(<<>>) = <<>>
      BY DEF Told
    <3>2. ToldAll = [c \in Clients |-> Told(<<>>)]
      BY DEF Init, ToldAll, Told
    <3> QED
      BY <3>1, <3>2
  <2> QED
    BY <2>1, <2>2 DEF feed!FeedInit, ToldAll, Told, Notice
<1>2. WatchInv /\ [Next]_vars => [feed!FeedNext]_(feed!feedVars)
  <2> SUFFICES ASSUME WatchInv, [Next]_vars PROVE FeedStep
    BY DEF FeedStep
  <2>1. CASE NodeStep
    BY <2>1, NodeFeeds
  <2>2. ASSUME NEW c \in Clients, ClientStep(c) PROVE FeedStep
    BY <2>2, ClientFeeds
  <2>3. CASE UNCHANGED vars
    <3>1. Committed' = Committed /\ cursor' = cursor /\ ToldAll' = ToldAll
      BY <2>3 DEF vars, nodeVars, clientVars, Committed, VersionAt, ToldAll, Told
    <3> QED
      BY <3>1 DEF FeedStep, feed!feedVars, ToldAll, Told, Notice
  <2> QED
    BY <2>1, <2>2, <2>3 DEF Next, NodeStep, ClientStep
<1> QED
  BY <1>1, <1>2, WatchInvariant, PTL DEF Spec, FeedImplemented, feed!FeedSpec
=============================================================================
