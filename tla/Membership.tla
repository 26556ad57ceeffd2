------------------------------ MODULE Membership ------------------------------
(* Who is in the cluster.  A new node asks to join until it is answered; an   *)
(* administrator promotes learners and removes nodes.  Every handler reads    *)
(* the membership first and proposes a change later, again and again while an *)
(* earlier change is not committed; a promotion proposes the whole set of     *)
(* voters it read, and its node.  The voters change in two entries, a joint   *)
(* configuration and the final one (openraft).                                *)
EXTENDS Integers, Sequences, FiniteSets

CONSTANTS
    Nodes,
    Seed,         \* the voters of the bootstrap
    Calls,        \* the places of concurrent requests to the leader
    RetryLimit,   \* RETRY_LIMIT of membership_write
    MaxLog,       \* bound: membership entries
    MaxFaults     \* bound: changes of leader and crashes of starting nodes

ASSUME MembershipAssumption ==
    /\ Seed \subseteq Nodes /\ Seed # {}
    /\ RetryLimit \in Nat \ {0} /\ MaxLog \in Nat /\ MaxFaults \in Nat

VARIABLES
    log,          \* the membership entries: a sequence of voter sets and the nodes
    committed,    \* how many of them are committed
    call,         \* per place, the request a handler works on
    start,        \* per node, its process: "off", "joining" or "running"
    disk,         \* the nodes with persisted Raft state
    voting,       \* the nodes whose promotion was acknowledged, until a removal is asked for
    faults

vars == <<log, committed, call, start, disk, voting, faults>>

Entries == [voters : Seq(SUBSET Nodes), nodes : SUBSET Nodes]
Effective == log[Len(log)]
Final(e) == e.voters[Len(e.voters)]
VoterIds(e) == UNION {e.voters[k] : k \in DOMAIN e.voters}
Joint(e) == Len(e.voters) = 2

Idle == [pc |-> "idle", op |-> "none", node |-> CHOOSE n \in Nodes : TRUE,
         goal |-> {}, at |-> 0, tries |-> 0]
Busy(c) == call[c].pc # "idle"

-----------------------------------------------------------------------------
(* openraft: the entry a change makes of the effective configuration *)

\* Towards goal: at once when goal is one of the current sets, else by a joint step.
Coherent(voters, goal) ==
    IF \E k \in DOMAIN voters : voters[k] = goal THEN <<goal>>
    ELSE <<voters[Len(voters)], goal>>

\* A voter that is in no set any more leaves the nodes too (retain = false).
Towards(e, goal) ==
    LET voters == Coherent(e.voters, goal)
        ids == UNION {voters[k] : k \in DOMAIN voters}
    IN  [voters |-> voters, nodes |-> e.nodes \ (VoterIds(e) \ ids)]

AddLearner(e, n) == [e EXCEPT !.nodes = @ \cup {n}]
RemoveNode(e, n) == [e EXCEPT !.nodes = @ \ {n}]

\* Every voter is a node, and there is one.
Valid(e) == Final(e) # {} /\ VoterIds(e) \subseteq e.nodes

Changed(e, q) ==
    CASE q.op = "join" -> AddLearner(e, q.node)
      [] q.op = "promote" -> Towards(e, q.goal)
      [] q.op = "remove_voter" -> Towards(e, Final(e) \ {q.node})
      [] q.op = "remove_learner" -> RemoveNode(e, q.node)

-----------------------------------------------------------------------------
(* The handlers up to their first proposal *)

Working(c, op, n, goal) ==
    call' = [call EXCEPT ![c] = [Idle EXCEPT !.pc = "propose", !.op = op, !.node = n,
                                             !.goal = goal]]

\* cluster_join of a node that is no voter
Join(c, n) ==
    /\ ~Busy(c) /\ start[n] = "joining"
    /\ n \notin VoterIds(Effective)
    /\ Working(c, "join", n, {})
    /\ UNCHANGED <<log, committed, start, disk, voting, faults>>

\* cluster_join of a voter: 409, which the node takes for success
JoinOfVoter(n) ==
    /\ start[n] = "joining" /\ n \in VoterIds(Effective)
    /\ start' = [start EXCEPT ![n] = "running"]
    /\ UNCHANGED <<log, committed, call, disk, voting, faults>>

\* cluster_promote: the voters it read and the node
\* Mutant: the node alone.
PromoteGoalOnly(e, n) == {n}
PromoteGoal(e, n) == VoterIds(e) \cup {n}
Promote(c, n) ==
    /\ ~Busy(c)
    /\ Working(c, "promote", n, PromoteGoal(Effective, n))
    /\ UNCHANGED <<log, committed, start, disk, voting, faults>>

\* cluster_remove of a voter, of a learner; of another node it is refused
Remove(c, n) ==
    /\ ~Busy(c) /\ n \in Effective.nodes
    /\ Working(c, IF n \in VoterIds(Effective) THEN "remove_voter" ELSE "remove_learner", n, {})
    /\ voting' = voting \ {n}
    /\ UNCHANGED <<log, committed, start, disk, faults>>

-----------------------------------------------------------------------------
(* membership_write *)

InProgress == committed < Len(log)

\* The proposal is appended and waits for its commit.
Propose(c) ==
    LET e == Changed(Effective, call[c])
    IN  /\ call[c].pc = "propose" /\ ~InProgress
        /\ Len(log) < MaxLog /\ Valid(e)
        /\ log' = Append(log, e)
        /\ call' = [call EXCEPT ![c].pc = "commit", ![c].at = Len(log) + 1]
        /\ UNCHANGED <<committed, start, disk, voting, faults>>

\* An earlier change is not committed: again later, for a number of times.
MayRetry(c) == call[c].tries + 1 < RetryLimit
ProposeAgain(c) ==
    /\ call[c].pc = "propose" /\ InProgress /\ MayRetry(c)
    /\ call' = [call EXCEPT ![c].tries = @ + 1]
    /\ UNCHANGED <<log, committed, start, disk, voting, faults>>

\* The call ends: retries used up, EmptyMembership, LearnerNotFound (or the bound).
ProposeFails(c) ==
    /\ call[c].pc = "propose"
    /\ IF InProgress THEN ~MayRetry(c)
       ELSE ~Valid(Changed(Effective, call[c])) \/ Len(log) = MaxLog
    /\ call' = [call EXCEPT ![c] = Idle]
    /\ UNCHANGED <<log, committed, start, disk, voting, faults>>

\* A quorum of each set has the entry.
Commit ==
    /\ InProgress
    /\ committed' = committed + 1
    /\ UNCHANGED <<log, call, start, disk, voting, faults>>

Reached(c) == call[c].pc = "commit" /\ committed >= call[c].at

\* change_membership goes from the joint configuration to its last set.
Flatten(c) ==
    /\ Reached(c) /\ Joint(log[call[c].at]) /\ ~InProgress /\ Len(log) < MaxLog
    /\ log' = Append(log, Towards(Effective, Final(Effective)))
    /\ call' = [call EXCEPT ![c].at = Len(log) + 1]
    /\ UNCHANGED <<committed, start, disk, voting, faults>>

\* The second proposal is refused with InProgress: the first one is made again.
FlattenRefused(c) ==
    /\ Reached(c) /\ Joint(log[call[c].at]) /\ (InProgress \/ Len(log) = MaxLog)
    /\ call' = [call EXCEPT ![c] = IF InProgress /\ MayRetry(c)
                                   THEN [@ EXCEPT !.pc = "propose", !.tries = call[c].tries + 1]
                                   ELSE Idle]
    /\ UNCHANGED <<log, committed, start, disk, voting, faults>>

\* The handler answers.
Acknowledge(c) ==
    LET q == call[c]
    IN  /\ Reached(c) /\ ~Joint(log[q.at])
        /\ call' = [call EXCEPT ![c] = Idle]
        /\ start' = IF q.op = "join" /\ start[q.node] = "joining"
                    THEN [start EXCEPT ![q.node] = "running"] ELSE start
        /\ voting' = IF q.op = "promote" THEN voting \cup {q.node} ELSE voting
        /\ UNCHANGED <<log, committed, disk, faults>>

-----------------------------------------------------------------------------
(* The nodes and the leader *)

\* main with --join: a node with persisted state resumes, another one asks.
\* Mutant: an empty data directory counts as state.
StartResuming(n) ==
    /\ start[n] = "off"
    /\ start' = [start EXCEPT ![n] = "running"]
    /\ UNCHANGED <<log, committed, call, disk, voting, faults>>
Start(n) ==
    /\ start[n] = "off"
    /\ start' = [start EXCEPT ![n] = IF n \in disk THEN "running" ELSE "joining"]
    /\ UNCHANGED <<log, committed, call, disk, voting, faults>>

\* A running member receives the log.
Replicate(n) ==
    /\ start[n] = "running" /\ n \in log[committed].nodes /\ n \notin disk
    /\ disk' = disk \cup {n}
    /\ UNCHANGED <<log, committed, call, start, voting, faults>>

\* A crash, or join_cluster gives up; the request it made goes on without it.
Stop(n) ==
    /\ n \notin Seed /\ start[n] # "off" /\ faults < MaxFaults
    /\ start' = [start EXCEPT ![n] = "off"]
    /\ faults' = faults + 1
    /\ UNCHANGED <<log, committed, call, disk, voting>>

\* Another leader: entries that are not committed may be lost, and the requests fail.
ChangeLeader ==
    /\ faults < MaxFaults
    /\ \E k \in committed .. Len(log) : log' = SubSeq(log, 1, k)
    /\ call' = [c \in Calls |-> Idle]
    /\ faults' = faults + 1
    /\ UNCHANGED <<committed, start, disk, voting>>

-----------------------------------------------------------------------------

\* The bootstrap by seed map: the same first entry whoever writes it
Init ==
    /\ log = <<[voters |-> <<Seed>>, nodes |-> Seed]>> /\ committed = 1
    /\ call = [c \in Calls |-> Idle]
    /\ start = [n \in Nodes |-> IF n \in Seed THEN "running" ELSE "off"]
    /\ disk = Seed /\ voting = {} /\ faults = 0

Write(c) ==
    Propose(c) \/ ProposeAgain(c) \/ ProposeFails(c) \/ Flatten(c) \/ FlattenRefused(c)
        \/ Acknowledge(c)

Ask(c) == \E n \in Nodes : Join(c, n) \/ Promote(c, n) \/ Remove(c, n)
Process(n) == Start(n) \/ JoinOfVoter(n) \/ Replicate(n) \/ Stop(n)

Next ==
    \/ Commit \/ ChangeLeader
    \/ \E c \in Calls : Ask(c) \/ Write(c)
    \/ \E n \in Nodes : Process(n)

Spec == Init /\ [][Next]_vars

-----------------------------------------------------------------------------

\* Every variable keeps its type, and every entry has voters that are nodes.
TypeOK ==
    /\ log \in Seq(Entries) /\ committed \in 1 .. Len(log)
    /\ \A k \in DOMAIN log : Len(log[k].voters) \in 1 .. 2 /\ Valid(log[k])
    /\ \A c \in Calls :
        /\ call[c].pc \in {"idle", "propose", "commit"} /\ call[c].node \in Nodes
        /\ call[c].goal \subseteq Nodes /\ call[c].at \in 0 .. Len(log)
        /\ call[c].tries \in 0 .. RetryLimit - 1
    /\ start \in [Nodes -> {"off", "joining", "running"}]
    /\ disk \subseteq Nodes /\ voting \subseteq Nodes
    /\ faults \in 0 .. MaxFaults

(* A node whose promotion was acknowledged votes until its removal is asked   *)
(* for (cluster_promote, membership_write).  Nothing in the code sees to it   *)
(* when another promotion or removal of a voter, which read the membership    *)
(* before, is open while the promotion waits for its commit (Overtaken).      *)
PromotedVotes == \A n \in voting : n \in Final(Effective)

Overtaken == \E c \in Calls : \E d \in Calls \ {c} :
    /\ call[d].op = "promote" /\ call[d].pc = "commit"
    /\ call[c].op \in {"promote", "remove_voter"}

(* A promotion lasts, whatever else joins, is promoted or removed, is tried   *)
(* again or is undone by a change of leader, as long as none is overtaken.    *)
PromotionsLast == []~Overtaken => []PromotedVotes

(* A node that takes its join for done was made a member by a committed       *)
(* entry, whatever a change of leader undid: the 409 and the repeated joins   *)
(* that join_cluster counts as success are successes.                         *)
JoinedWasMember ==
    \A n \in Nodes :
        start[n] = "running" => \E k \in 1 .. committed : n \in log[k].nodes
================================================================================
