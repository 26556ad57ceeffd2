-------------------------------- MODULE Watch --------------------------------
(* Change notification for one branch: from the apply of a publication on a  *)
(* node through the broadcast of its state machine store (dsh-raft), the     *)
(* forwarder into the WatchHub (dsh-watch), the replay and the live part of  *)
(* a stream (dsh-api, HTTP and gRPC) to the listener of an SDK client, which *)
(* reconnects by itself.                                                     *)
(*                                                                           *)
(* An event is [version, kind, base]: base is the version its changes were   *)
(* computed against.  Both broadcast channels are kept whole; a receiver is  *)
(* a position in one, and lags when more events than the capacity follow it. *)
EXTENDS Integers, Sequences, FiniteSets

CONSTANTS
    Clients,
    RaftCap,      \* capacity of StateMachineStore::events, 1024 in the code
    HubCap,       \* capacity of the hub, --watch-event-retain
    MaxVersion,   \* bound: versions published
    MaxGray       \* bound: gray events, promotions included

ASSUME WatchAssumption ==
    RaftCap \in Nat \ {0} /\ HubCap \in Nat \ {0} /\ MaxVersion \in Nat /\ MaxGray \in Nat

VARIABLES
    log,          \* the committed changes of the branch, as their events
    applied,      \* how many of them the node has applied
    oldest,       \* the oldest version whose record the node keeps
    pending,      \* pending_events of the running apply
    sending,      \* apply has released the lock and sends pending
    channel,      \* what was sent to StateMachineStore::events
    taken,        \* the forwarder's position in it
    forwarder,    \* "running", "ended"
    hub,          \* what was sent to the hub
    streams,      \* per client, its connection
    cursor,       \* per client, lastVersion or afterVersion
    heard,        \* per client, the events its listener was called with
    skipped       \* whether a snapshot replaced entries, so that no event told of them

nodeVars == <<log, applied, oldest, pending, sending, channel, taken, forwarder, hub, skipped>>
clientVars == <<streams, cursor, heard>>
vars == <<nodeVars, clientVars>>

Protocols == {"sse", "grpc"}
Kinds == {"plain", "gray", "resync"}   \* resync: snapshot_required
Events == [version : 0 .. MaxVersion, kind : Kinds, base : 0 .. MaxVersion]

Max2(a, b) == IF a >= b THEN a ELSE b
VersionAt(n) == IF n = 0 THEN 0 ELSE log[n].version
Committed == VersionAt(Len(log))
Version == VersionAt(applied)

Down(protocol) ==
    [at |-> "down", protocol |-> protocol, replay |-> <<>>, force |-> FALSE, last |-> 0,
     next |-> 0, seen |-> 0, from |-> 0]

Streams ==
    [at : {"down", "fetched", "read", "open"}, protocol : Protocols, replay : Seq(Events),
     force : BOOLEAN, last : 0 .. MaxVersion, next : Nat, seen : Nat, from : Nat]

TypeOK ==
    /\ log \in Seq(Events) /\ applied \in 0 .. Len(log) /\ oldest \in 1 .. MaxVersion + 1
    /\ pending \in Seq(Events) /\ sending \in BOOLEAN
    /\ channel \in Seq(Events) /\ taken \in 0 .. Len(channel)
    /\ forwarder \in {"running", "ended"} /\ hub \in Seq(Events) /\ skipped \in BOOLEAN
    /\ streams \in [Clients -> Streams]
    /\ \A c \in Clients : streams[c].next \in streams[c].from .. Len(hub)
    /\ cursor \in [Clients -> 0 .. MaxVersion]
    /\ heard \in [Clients -> Seq(Events)]

Init ==
    /\ log = <<>> /\ applied = 0 /\ oldest = 1
    /\ pending = <<>> /\ sending = FALSE
    /\ channel = <<>> /\ taken = 0 /\ forwarder = "running"
    /\ hub = <<>> /\ skipped = FALSE
    /\ \E p \in [Clients -> Protocols] : streams = [c \in Clients |-> Down(p[c])]
    /\ cursor = [c \in Clients |-> 0]
    /\ heard = [c \in Clients |-> <<>>]

-----------------------------------------------------------------------------
(* The node *)

GrayEvents == Cardinality({n \in DOMAIN log : log[n].kind = "gray"})

Commit(e) ==
    /\ log' = Append(log, e)
    /\ UNCHANGED <<applied, oldest, pending, sending, channel, taken, forwarder, hub, skipped,
                   clientVars>>

(* A publication, roll-back or promotion; a promotion's event is gray.       *)
Publish(kind) ==
    /\ Committed < MaxVersion
    /\ kind = "plain" \/ GrayEvents < MaxGray
    /\ Commit([version |-> Committed + 1, kind |-> kind, base |-> Committed])

(* A gray publication or its abort: an event about the active version.       *)
GrayChange ==
    /\ GrayEvents < MaxGray
    /\ Commit([version |-> Committed, kind |-> "gray", base |-> Committed])

(* An entry is applied under the write lock; its event waits for the end of  *)
(* the call.                                                                 *)
Apply ==
    /\ ~sending /\ applied < Len(log)
    /\ applied' = applied + 1
    /\ pending' = Append(pending, log[applied + 1])
    /\ UNCHANGED <<log, oldest, sending, channel, taken, forwarder, hub, skipped, clientVars>>

(* The end of the call: the lock is released, the events are sent.           *)
\* Mutant: only the first event of the call is sent.
BroadcastFirst ==
    /\ pending # <<>>
    /\ channel' = Append(channel, Head(pending))
    /\ pending' = <<>>
    /\ UNCHANGED <<log, applied, oldest, sending, taken, forwarder, hub, skipped, clientVars>>
Broadcast ==
    /\ pending # <<>>
    /\ channel' = Append(channel, Head(pending))
    /\ pending' = Tail(pending)
    /\ sending' = (Len(pending) > 1)
    /\ UNCHANGED <<log, applied, oldest, taken, forwarder, hub, skipped, clientVars>>

(* A snapshot of the leader replaces the state; it makes no event.           *)
InstallSnapshot ==
    /\ pending = <<>>
    /\ \E n \in applied + 1 .. Len(log) :
          /\ applied' = n
          /\ skipped' = TRUE
          /\ oldest' \in {oldest, Max2(oldest, VersionAt(n))}
    /\ UNCHANGED <<log, pending, sending, channel, taken, forwarder, hub, clientVars>>

(* The retention job; the active version stays.                              *)
Prune ==
    /\ \E v \in oldest + 1 .. Version : oldest' = v
    /\ UNCHANGED <<log, applied, pending, sending, channel, taken, forwarder, hub, skipped,
                   clientVars>>

(* spawn_raft_forward: the loop runs while recv answers Ok.                  *)
Forward ==
    /\ forwarder = "running" /\ taken < Len(channel) /\ Len(channel) - taken <= RaftCap
    /\ taken' = taken + 1
    /\ hub' = Append(hub, channel[taken + 1])
    /\ UNCHANGED <<log, applied, oldest, pending, sending, channel, forwarder, skipped, clientVars>>

(* recv answers Lagged: the loop, and with it the task, is over.             *)
ForwarderLags ==
    /\ forwarder = "running" /\ Len(channel) - taken > RaftCap
    /\ forwarder' = "ended"
    /\ UNCHANGED <<log, applied, oldest, pending, sending, channel, taken, hub, skipped, clientVars>>

-----------------------------------------------------------------------------
(* A connection of a client *)

(* The client fetches a snapshot before it connects, from any endpoint, and  *)
(* anchors its cursor; a fetch that fails leaves the cursor.                 *)
Fetch(c) ==
    /\ streams[c].at = "down"
    /\ \E v \in 0 .. Committed : cursor' = [cursor EXCEPT ![c] = Max2(@, v)]
    /\ streams' = [streams EXCEPT ![c].at = "fetched"]
    /\ UNCHANGED <<nodeVars, heard>>

(* The records the node keeps beyond a version, as events: each with the     *)
(* changes against the record before it in the replay, the first against     *)
(* nothing.                                                                  *)
Replayed(after) ==
    LET first == Max2(oldest, after + 1)
        record(v) == log[CHOOSE n \in DOMAIN log : log[n].version = v /\ log[n].base # v]
    IN  [i \in 1 .. Version - first + 1 |->
           [record(first + i - 1) EXCEPT !.base = IF i = 1 THEN 0 ELSE @]]

(* The start of watch: the replay and whether its start was pruned are read  *)
(* under the state machine's lock.  Without a cursor there is no replay.     *)
ReadHistory(c) ==
    /\ streams[c].at = "fetched"
    /\ LET after == cursor[c]
           replay == IF after > 0 THEN Replayed(after) ELSE <<>>
           force == after > 0 /\ Version > 0 /\ after < oldest /\ after < Version
       IN  streams' = [streams EXCEPT
             ![c].at = "read",
             ![c].replay = IF force /\ streams[c].protocol = "grpc" THEN <<>> ELSE replay,
             ![c].force = force,
             ![c].last = IF streams[c].protocol = "grpc" THEN after
                         ELSE IF replay = <<>> THEN 0 ELSE Version,
             ![c].seen = IF after > 0 THEN applied ELSE 0]
    /\ UNCHANGED <<nodeVars, cursor, heard>>

(* hub.subscribe(), after the lock is released.                              *)
Subscribe(c) ==
    /\ streams[c].at = "read"
    /\ streams' = [streams EXCEPT ![c].at = "open", ![c].next = Len(hub), ![c].from = Len(hub)]
    /\ UNCHANGED <<nodeVars, cursor, heard>>

(* What the client does with an event: the HTTP clients drop the versions    *)
(* they know, the gRPC client takes what comes.                              *)
Accepts(c, e) == streams[c].protocol = "grpc" \/ e.kind = "gray" \/ e.version > cursor[c]

(* Requests to fetch everything that follow each other count as one.         *)
Repeats(c, e) == e.kind = "resync" /\ heard[c] # <<>> /\ heard[c][Len(heard[c])] = e

Receive(c, e) ==
    /\ cursor' = [cursor EXCEPT ![c] = Max2(@, e.version)]
    /\ heard' = [heard EXCEPT ![c] = IF Accepts(c, e) /\ ~Repeats(c, e) THEN Append(@, e) ELSE @]
    /\ UNCHANGED nodeVars

Resync(v) == [version |-> v, kind |-> "resync", base |-> v]

SendReplay(c) ==
    /\ streams[c].at = "open" /\ streams[c].replay # <<>>
    /\ LET e == Head(streams[c].replay)
       IN  /\ Receive(c, e)
           /\ streams' = [streams EXCEPT
                ![c].replay = Tail(@), ![c].last = Max2(@, e.version)]

(* A start that was pruned: the last event asks for a fetch and the stream   *)
(* ends.  The event's version is last, which the HTTP client has reached.    *)
SendResync(c) ==
    /\ streams[c].at = "open" /\ streams[c].replay = <<>> /\ streams[c].force
    /\ streams' = [streams EXCEPT ![c] = Down(streams[c].protocol)]
    /\ Receive(c, Resync(streams[c].last))

Live(c) == streams[c].at = "open" /\ streams[c].replay = <<>> /\ ~streams[c].force
Lagged(c) == Len(hub) - streams[c].next > HubCap

(* The filter of the live part; last is frozen over HTTP, moves over gRPC.   *)
\* Mutant: the gRPC cursor of the server follows gray events downwards.
PassLowers(s, e) ==
    [s EXCEPT !.next = @ + 1, !.last = IF s.protocol = "grpc" THEN e.version ELSE @]
Pass(s, e) ==
    [s EXCEPT !.next = @ + 1,
              !.last = IF s.protocol = "grpc" THEN Max2(@, e.version) ELSE @]

SendLive(c) ==
    /\ Live(c) /\ ~Lagged(c) /\ streams[c].next < Len(hub)
    /\ LET e == hub[streams[c].next + 1]
           s == streams[c]
       IN  IF e.kind = "gray" \/ e.version > s.last
           THEN /\ Receive(c, e)
                /\ streams' = [streams EXCEPT ![c] = Pass(s, e)]
           ELSE /\ streams' = [streams EXCEPT ![c].next = @ + 1]
                /\ UNCHANGED <<nodeVars, cursor, heard>>

(* A slow consumer: over HTTP the stream ends, over gRPC it says so first.   *)
\* Mutant: the stream goes on behind the events it lost.
EndLaggedSkips(c) ==
    /\ Live(c) /\ Lagged(c)
    /\ streams' = [streams EXCEPT ![c].next = Len(hub) - HubCap]
    /\ UNCHANGED <<nodeVars, cursor, heard>>
EndLagged(c) ==
    /\ Live(c) /\ Lagged(c)
    /\ streams' = [streams EXCEPT ![c] = Down(streams[c].protocol)]
    /\ IF streams[c].protocol = "grpc" THEN Receive(c, Resync(streams[c].last))
       ELSE UNCHANGED <<nodeVars, cursor, heard>>

(* The connection breaks, or the request for it fails.                       *)
Disconnect(c) ==
    /\ streams[c].at # "down"
    /\ streams' = [streams EXCEPT ![c] = Down(streams[c].protocol)]
    /\ UNCHANGED <<nodeVars, cursor, heard>>

Server(c) == ReadHistory(c) \/ Subscribe(c) \/ SendReplay(c) \/ SendResync(c) \/ SendLive(c)
             \/ EndLagged(c)

Next ==
    \/ \E kind \in {"plain", "gray"} : Publish(kind)
    \/ GrayChange \/ Apply \/ Broadcast \/ InstallSnapshot \/ Prune \/ Forward \/ ForwarderLags
    \/ \E c \in Clients : Fetch(c) \/ Server(c) \/ Disconnect(c)

(* The tasks of a running node and of a client go on; publications, faults   *)
(* and the retention job need not happen.                                    *)
Fairness ==
    /\ WF_vars(Apply) /\ WF_vars(Broadcast) /\ WF_vars(Forward \/ ForwarderLags)
    /\ \A c \in Clients : WF_vars(Fetch(c)) /\ WF_vars(Server(c))

Spec == Init /\ [][Next]_vars /\ Fairness

-----------------------------------------------------------------------------
(* Properties *)

(* Every event that left the state machine still reaches the hub: the        *)
(* forwarder is there and no snapshot has taken the place of entries.        *)
Intact == forwarder = "running" /\ ~skipped

InFlight ==
    {pending[i].version : i \in DOMAIN pending}
        \cup {channel[i].version : i \in taken + 1 .. Len(channel)}

(* What the clients hear is what Feed allows: nothing that was not           *)
(* published, no version twice or out of order, over both protocols, through *)
(* replays that overlap the live part, reconnections, snapshots fetched from *)
(* nodes that are behind, and gray events whose version is old.              *)
feed == INSTANCE Feed WITH
    published <- Committed,
    cursor <- cursor,
    heard <- [c \in Clients |-> [i \in DOMAIN heard[c] |->
                [version |-> heard[c][i].version, kind |-> heard[c][i].kind]]]
FeedImplemented == feed!FeedSpec

(* The client of an open stream is never left behind what its node applied:  *)
(* as long as the node's pipeline is intact, every applied version is at or  *)
(* below the client's cursor, or this stream still carries the cursor there. *)
(* A live stream carries what is in flight, in the hub or in its replay, but *)
(* not what reached the hub after the history was read and before the        *)
(* subscription (without a cursor no history is read): WatchLost.cfg.        *)
(* A stream whose start was pruned ends after its replay.  Over gRPC its     *)
(* last event asks the listener to fetch; over HTTP that event is dropped    *)
(* (ResyncHeard), so there the replay alone has to reach what was applied    *)
(* when it was read, and what came later is left to the next connection.     *)
Carried(s, n) ==
    LET v == log[n].version
    IN  \/ \E i \in DOMAIN s.replay :
              s.replay[i].version = v \/ (s.force /\ s.replay[i].version > v)
        \/ s.force /\ (s.protocol = "grpc" \/ n > s.seen)
        \/ ~s.force /\ v \in InFlight
        \/ ~s.force /\ (\E i \in s.next + 1 .. Len(hub) : hub[i].version = v)
        \/ ~s.force /\ n \in s.seen + 1 .. s.from
StreamComplete ==
    Intact => \A c \in Clients : streams[c].at = "open" =>
        \A n \in 1 .. applied : log[n].version <= cursor[c] \/ Carried(streams[c], n)

(* A version that an open stream's node applies is heard, or anchored by a   *)
(* fetch, or the stream ends, unless the pipeline broke.                     *)
EventuallyKnown ==
    \A c \in Clients : \A v \in 1 .. MaxVersion :
        (streams[c].at = "open" /\ Version < v /\ Committed >= v)
            ~> (cursor[c] >= v \/ streams[c].at # "open" \/ ~Intact)

(* A watch that reconnects loses no event (docs/07-tokens.md): between two   *)
(* events a listener hears no version is missing, unless it was told to      *)
(* fetch everything.                                                         *)
NoEventLost ==
    \A c \in Clients : \A i \in 1 .. Len(heard[c]) - 1 :
        {heard[c][i].kind, heard[c][i + 1].kind} \subseteq {"plain", "gray"} =>
            heard[c][i + 1].version <= heard[c][i].version + 1

(* A client whose start was pruned is told to fetch everything: the comment  *)
(* of snapshot_required (dsh-watch/src/lib.rs:66) says that it must be       *)
(* handled in addition to the ordinary events.                               *)
ResyncHeard ==
    [][\A c \in Clients : SendResync(c) =>
          heard'[c] # <<>> /\ heard'[c][Len(heard'[c])].kind = "resync"]_vars
=============================================================================
