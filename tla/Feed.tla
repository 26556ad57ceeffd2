--------------------------------- MODULE Feed ---------------------------------
(* What the watch of a branch promises to the listener of a client: it hears *)
(* only versions that were published, the ones that are not gray in strictly *)
(* increasing order and hence once each, and every one of them beyond what   *)
(* the client has seen.  Gray events are notifications and may repeat.       *)
EXTENDS Naturals, Sequences

CONSTANT Clients

VARIABLES
    published,    \* the number of the newest version
    cursor,       \* per client, the newest version it knows of
    heard         \* per client, what its listener was called with, in order

feedVars == <<published, cursor, heard>>

FeedInit ==
    /\ published = 0
    /\ cursor = [c \in Clients |-> 0]
    /\ heard = [c \in Clients |-> <<>>]

Publish ==
    /\ published' = published + 1
    /\ UNCHANGED <<cursor, heard>>

(* A client takes over a version without telling its listener.               *)
Anchor(c) ==
    /\ \E v \in cursor[c] .. published : cursor' = [cursor EXCEPT ![c] = v]
    /\ UNCHANGED <<published, heard>>

Tell(c) ==
    \E v \in cursor[c] + 1 .. published :
        /\ cursor' = [cursor EXCEPT ![c] = v]
        /\ heard' = [heard EXCEPT ![c] = Append(@, [version |-> v, kind |-> "plain"])]
        /\ UNCHANGED published

TellGray(c) ==
    \E v \in 0 .. published :
        /\ cursor' = [cursor EXCEPT ![c] = IF v > @ THEN v ELSE @]
        /\ heard' = [heard EXCEPT ![c] = Append(@, [version |-> v, kind |-> "gray"])]
        /\ UNCHANGED published

(* The listener is told to fetch everything.                                 *)
TellResync(c) ==
    /\ heard' = [heard EXCEPT ![c] = Append(@, [version |-> cursor[c], kind |-> "resync"])]
    /\ UNCHANGED <<published, cursor>>

FeedNext ==
    \/ Publish
    \/ \E c \in Clients : Anchor(c) \/ Tell(c) \/ TellGray(c) \/ TellResync(c)

FeedSpec == FeedInit /\ [][FeedNext]_feedVars
===============================================================================
