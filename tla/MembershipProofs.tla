--------------------------- MODULE MembershipProofs ---------------------------
(***************************************************************************)
(* Theorems about Membership: a node that takes its join for done was a    *)
(* member, and an acknowledged promotion that is not overtaken lasts until *)
(* a removal is asked for.  Both hold for any number of nodes, concurrent  *)
(* requests, retries and changes of leader.                                *)
(***************************************************************************)
EXTENDS Membership, SequenceTheorems, TLAPS

Ops == {"none", "join", "promote", "remove_voter", "remove_learner"}
Pcs == {"idle", "propose", "commit"}
Requests == [pc : Pcs, op : Ops, node : Nodes, goal : SUBSET Nodes, at : Nat,
             tries : 0 .. RetryLimit - 1]

\* An entry as the leader writes it: one set of voters or two, all of them nodes.
Sound(e) == e \in Entries /\ Len(e.voters) \in 1 .. 2 /\ Valid(e)

\* TypeOK, entry by entry, with the requests as a function.
TypeInv ==
    /\ log \in Seq(Entries) /\ committed \in 1 .. Len(log)
    /\ \A k \in 1 .. Len(log) : Sound(log[k])
    /\ call \in [Calls -> Requests]
    /\ \A c \in Calls : call[c].at <= Len(log) /\ (Busy(c) => call[c].op # "none")
    /\ start \in [Nodes -> {"off", "joining", "running"}]
    /\ disk \subseteq Nodes /\ voting \subseteq Nodes
    /\ faults \in 0 .. MaxFaults

-----------------------------------------------------------------------------
(* What JoinedWasMember rests on *)

\* One change at a time is open, and nobody votes in an entry who was not a
\* node of the entry before it.
ChangesFollow ==
    /\ Len(log) <= committed + 1
    /\ \A k \in 2 .. Len(log) : VoterIds(log[k]) \subseteq log[k - 1].nodes

WasMember(n, upTo) == \E k \in 1 .. upTo : n \in log[k].nodes

\* A join that waits for its commit has its node in an entry so far.
JoinsRecorded ==
    \A c \in Calls : call[c].op = "join" /\ call[c].pc = "commit"
        => WasMember(call[c].node, call[c].at)

StateOfMembers == \A n \in disk : WasMember(n, committed)
JoinInv == ChangesFollow /\ JoinsRecorded /\ StateOfMembers /\ JoinedWasMember

-----------------------------------------------------------------------------
(* What PromotionsLast rests on *)

\* A change of leader may go back to any entry from the committed one on.
VotersLast == \A n \in voting : \A k \in committed .. Len(log) : n \in Final(log[k])

\* A promotion does not forget the voters there are, a removal is no one's promotion.
PromotionsKeep == \A c \in Calls : call[c].op = "promote" =>
    voting \subseteq call[c].goal /\ call[c].node \in call[c].goal
RemovalsSpare == \A c \in Calls : call[c].op = "remove_voter" => call[c].node \notin voting

\* Once a promotion is in the log, every entry from there on has its node.
PromotionsStand == \A c \in Calls : call[c].op = "promote" /\ call[c].pc = "commit" =>
    call[c].at # 0 /\ \A k \in call[c].at .. Len(log) : call[c].node \in Final(log[k])

PromoteInv == VotersLast /\ PromotionsKeep /\ RemovalsSpare /\ PromotionsStand

-----------------------------------------------------------------------------
(* Entries *)

\* The last set of a sound entry is one of its sets.
LEMMA EntryFacts ==
    ASSUME NEW e, Sound(e)
    PROVE  /\ e.voters \in Seq(SUBSET Nodes) /\ e.nodes \subseteq Nodes
           /\ DOMAIN e.voters = 1 .. Len(e.voters) /\ Len(e.voters) \in 1 .. 2
           /\ Final(e) \subseteq VoterIds(e) /\ Final(e) \subseteq Nodes /\ Final(e) # {}
           /\ VoterIds(e) \subseteq e.nodes
BY DEF Sound, Entries, Final, VoterIds, Valid

\* A learner more or less changes no voter.
LEMMA LearnerFacts ==
    ASSUME NEW e, Sound(e), NEW n \in Nodes
    PROVE  /\ AddLearner(e, n).voters = e.voters /\ RemoveNode(e, n).voters = e.voters
           /\ AddLearner(e, n).nodes = e.nodes \cup {n} /\ RemoveNode(e, n).nodes = e.nodes \ {n}
           /\ AddLearner(e, n) \in Entries /\ RemoveNode(e, n) \in Entries
BY DEF Sound, Entries, AddLearner, RemoveNode

\* A change of the voters ends in its goal, keeps to the old voters and the
\* goal, and brings no node.
LEMMA TowardsFacts ==
    ASSUME NEW e, Sound(e), NEW goal \in SUBSET Nodes
    PROVE  /\ Towards(e, goal) \in Entries /\ Len(Towards(e, goal).voters) \in 1 .. 2
           /\ Final(Towards(e, goal)) = goal
           /\ VoterIds(Towards(e, goal)) \subseteq VoterIds(e) \cup goal
           /\ Towards(e, goal).nodes \subseteq e.nodes
<1> DEFINE voters == Coherent(e.voters, goal)
           ids == UNION {voters[k] : k \in DOMAIN voters}
<1>1. /\ voters \in Seq(SUBSET Nodes) /\ Len(voters) \in 1 .. 2
      /\ voters[Len(voters)] = goal
      /\ \A k \in DOMAIN voters : voters[k] = goal \/ voters[k] = Final(e)
  <2>1. CASE voters = <<goal>>
    BY <2>1
  <2>2. CASE voters = <<Final(e), goal>>
    <3>1. Final(e) \in SUBSET Nodes
      BY EntryFacts
    <3> HIDE DEF voters
    <3> QED
      BY <2>2, <3>1
  <2> QED
    BY <2>1, <2>2 DEF Coherent, Final
<1>2. Towards(e, goal) = [voters |-> voters, nodes |-> e.nodes \ (VoterIds(e) \ ids)]
  BY DEF Towards
<1>3. e.nodes \subseteq Nodes /\ Final(e) \subseteq VoterIds(e)
  BY EntryFacts
<1>4. /\ Towards(e, goal).voters = voters
      /\ Towards(e, goal).nodes = e.nodes \ (VoterIds(e) \ ids)
  BY <1>2
<1> HIDE DEF voters
<1>5. Towards(e, goal) \in Entries
  BY <1>1, <1>2, <1>3 DEF Entries
<1>6. VoterIds(Towards(e, goal)) \subseteq VoterIds(e) \cup goal
  BY <1>1, <1>3, <1>4 DEF VoterIds
<1> QED
  BY <1>1, <1>4, <1>5, <1>6 DEF Final

\* The second step of a change needs no check.
LEMMA FlattenFacts ==
    ASSUME NEW e, Sound(e)
    PROVE  /\ Sound(Towards(e, Final(e)))
           /\ VoterIds(Towards(e, Final(e))) \subseteq e.nodes
<1> DEFINE goal == Final(e)
           f == Towards(e, goal)
           voters == Coherent(e.voters, goal)
           ids == UNION {voters[k] : k \in DOMAIN voters}
<1>1. goal \in SUBSET Nodes /\ goal # {} /\ goal \subseteq VoterIds(e) /\ VoterIds(e) \subseteq e.nodes
  BY EntryFacts
<1>2. /\ f \in Entries /\ Len(f.voters) \in 1 .. 2 /\ Final(f) = goal
      /\ VoterIds(f) \subseteq VoterIds(e)
  BY <1>1, TowardsFacts
<1>3. f.voters = voters /\ f.nodes = e.nodes \ (VoterIds(e) \ ids)
  BY DEF Towards
<1>4. VoterIds(f) = ids
  BY <1>3 DEF VoterIds
<1>5. VoterIds(f) \subseteq f.nodes
  <2> HIDE DEF ids, f
  <2> QED
    BY <1>1, <1>2, <1>3, <1>4
<1> QED
  BY <1>1, <1>2, <1>5 DEF Sound, Valid

\* What a proposal that is valid makes of the effective entry.
LEMMA ChangedFacts ==
    ASSUME NEW e, Sound(e), NEW q \in Requests, q.op # "none", Valid(Changed(e, q))
    PROVE  /\ Sound(Changed(e, q)) /\ VoterIds(Changed(e, q)) \subseteq e.nodes
           /\ q.op = "join" => q.node \in Changed(e, q).nodes
           /\ q.op = "promote" => Final(Changed(e, q)) = q.goal
           /\ q.op = "remove_voter" => Final(Changed(e, q)) = Final(e) \ {q.node}
           /\ q.op \in {"join", "remove_learner"} => Final(Changed(e, q)) = Final(e)
<1> DEFINE f == Changed(e, q)
<1>0. /\ q.node \in Nodes /\ q.goal \in SUBSET Nodes
      /\ q.op \in {"join", "promote", "remove_voter", "remove_learner"}
  BY DEF Requests, Ops
<1>1. CASE q.op = "join"
  <2>1. f = AddLearner(e, q.node)
    BY <1>1 DEF Changed
  <2>2. f.voters = e.voters /\ f.nodes = e.nodes \cup {q.node} /\ f \in Entries
    BY <1>0, <2>1, LearnerFacts
  <2> QED
    BY <1>1, <2>2, EntryFacts DEF Sound, Final, VoterIds
<1>2. CASE q.op = "promote"
  <2>1. f = Towards(e, q.goal)
    BY <1>2 DEF Changed
  <2>2. f \in Entries /\ Len(f.voters) \in 1 .. 2 /\ Final(f) = q.goal /\ f.nodes \subseteq e.nodes
    BY <1>0, <2>1, TowardsFacts
  <2> QED
    BY <1>2, <2>2 DEF Sound, Valid
<1>3. CASE q.op = "remove_voter"
  <2>1. f = Towards(e, Final(e) \ {q.node})
    BY <1>3 DEF Changed
  <2>2. Final(e) \ {q.node} \in SUBSET Nodes
    BY EntryFacts
  <2>3. /\ f \in Entries /\ Len(f.voters) \in 1 .. 2 /\ Final(f) = Final(e) \ {q.node}
        /\ f.nodes \subseteq e.nodes
    BY <2>1, <2>2, TowardsFacts
  <2> QED
    BY <1>3, <2>3 DEF Sound, Valid
<1>4. CASE q.op = "remove_learner"
  <2>1. f = RemoveNode(e, q.node)
    BY <1>4 DEF Changed
  <2>2. f.voters = e.voters /\ f.nodes = e.nodes \ {q.node} /\ f \in Entries
    BY <1>0, <2>1, LearnerFacts
  <2> QED
    BY <1>4, <2>2, EntryFacts DEF Sound, Final, VoterIds
<1> QED
  BY <1>0, <1>1, <1>2, <1>3, <1>4

-----------------------------------------------------------------------------
(* How the log and the requests change *)

Grows(e) ==
    /\ Len(log') = Len(log) + 1 /\ log'[Len(log) + 1] = e
    /\ \A k \in 1 .. Len(log) : log'[k] = log[k]

LEMMA AppendGrows ==
    ASSUME log \in Seq(Entries), NEW e \in Entries, log' = Append(log, e)
    PROVE  log' \in Seq(Entries) /\ Grows(e)
BY DEF Grows

LEMMA EffectiveSound ==
    ASSUME TypeInv
    PROVE  Sound(Effective) /\ Len(log) \in Nat \ {0} /\ Len(log) \in 1 .. Len(log)
BY DEF TypeInv, Effective

\* No request has no operation and no entry.
LEMMA IdleFacts ==
    Idle \in Requests /\ Idle.pc = "idle" /\ Idle.op = "none" /\ Idle.at = 0
<1>1. (CHOOSE n \in Nodes : TRUE) \in Nodes
  BY MembershipAssumption
<1> QED
  BY <1>1, MembershipAssumption DEF Idle, Requests, Pcs, Ops

\* A request that begins.
LEMMA WorkingFacts ==
    ASSUME TypeInv, NEW c \in Calls, NEW op \in Ops \ {"none"}, NEW n \in Nodes,
           NEW goal \in SUBSET Nodes, Working(c, op, n, goal)
    PROVE  /\ call' \in [Calls -> Requests]
           /\ call'[c].pc = "propose" /\ call'[c].op = op /\ call'[c].node = n
           /\ call'[c].goal = goal /\ call'[c].at = 0
           /\ \A d \in Calls \ {c} : call'[d] = call[d]
<1> DEFINE q == [Idle EXCEPT !.pc = "propose", !.op = op, !.node = n, !.goal = goal]
<1>1. /\ q \in Requests /\ q.pc = "propose" /\ q.op = op /\ q.node = n /\ q.goal = goal
      /\ q.at = 0
  BY IdleFacts DEF Requests, Pcs, Ops
<1>2. call' = [call EXCEPT ![c] = q] /\ call \in [Calls -> Requests]
  BY DEF Working, TypeInv
<1> HIDE DEF q
<1> QED
  BY <1>1, <1>2

\* A request that a step takes to another place, attempt or entry.
Moves(c, pc, at, tries) ==
    /\ call' \in [Calls -> Requests]
    /\ call'[c].pc = pc /\ call'[c].at = at /\ call'[c].tries = tries
    /\ call'[c].op = call[c].op /\ call'[c].node = call[c].node /\ call'[c].goal = call[c].goal
    /\ \A d \in Calls \ {c} : call'[d] = call[d]

LEMMA MovesFacts ==
    ASSUME TypeInv, NEW c \in Calls, NEW pc \in Pcs, NEW at \in Nat,
           NEW tries \in 0 .. RetryLimit - 1,
           call' = [call EXCEPT ![c] = [@ EXCEPT !.pc = pc, !.at = at, !.tries = tries]]
    PROVE  Moves(c, pc, at, tries)
<1> DEFINE q == [call[c] EXCEPT !.pc = pc, !.at = at, !.tries = tries]
<1>0. call[c] \in Requests /\ call \in [Calls -> Requests]
  BY DEF TypeInv
<1>1. /\ q \in Requests /\ q.pc = pc /\ q.op = call[c].op /\ q.node = call[c].node
      /\ q.goal = call[c].goal /\ q.at = at /\ q.tries = tries
  BY <1>0 DEF Requests
<1>2. call' = [call EXCEPT ![c] = q]
  BY <1>0
<1> HIDE DEF q
<1> QED
  BY <1>0, <1>1, <1>2 DEF Moves

\* A request that ends.
Ends(c) ==
    /\ call' \in [Calls -> Requests] /\ call'[c] = Idle
    /\ \A d \in Calls \ {c} : call'[d] = call[d]

LEMMA EndsFacts ==
    ASSUME TypeInv, NEW c \in Calls, call' = [call EXCEPT ![c] = Idle]
    PROVE  Ends(c)
BY IdleFacts DEF Ends, TypeInv

LEMMA ProposeFacts ==
    ASSUME TypeInv, NEW c \in Calls, Propose(c)
    PROVE  /\ Len(log) = committed /\ call[c].pc = "propose" /\ call[c].op # "none"
           /\ Valid(Changed(Effective, call[c]))
           /\ log' \in Seq(Entries) /\ Grows(Changed(Effective, call[c]))
           /\ Sound(Changed(Effective, call[c]))
           /\ VoterIds(Changed(Effective, call[c])) \subseteq Effective.nodes
           /\ Moves(c, "commit", Len(log) + 1, call[c].tries)
<1> DEFINE e == Changed(Effective, call[c])
<1>0. /\ call[c] \in Requests /\ call[c].op # "none" /\ call[c].tries \in 0 .. RetryLimit - 1
      /\ log \in Seq(Entries) /\ committed \in 1 .. Len(log) /\ Len(log) + 1 \in Nat
  BY DEF TypeInv, Propose, Busy, Requests
<1>1. Valid(e) /\ Len(log) = committed /\ call[c].pc = "propose" /\ log' = Append(log, e)
  BY <1>0 DEF Propose, InProgress
<1>2. Sound(e) /\ VoterIds(e) \subseteq Effective.nodes
  BY <1>0, <1>1, EffectiveSound, ChangedFacts
<1>3. e \in Entries
  BY <1>2 DEF Sound
<1>4. log' \in Seq(Entries) /\ Grows(e)
  <2> HIDE DEF e
  <2> QED
    BY <1>0, <1>1, <1>3, AppendGrows
<1>5. call' = [call EXCEPT ![c] = [@ EXCEPT !.pc = "commit", !.at = Len(log) + 1,
                                            !.tries = call[c].tries]]
  BY <1>0 DEF Propose, Requests, TypeInv
<1>6. Moves(c, "commit", Len(log) + 1, call[c].tries)
  BY <1>0, <1>5, MovesFacts DEF Pcs
<1> QED
  BY <1>0, <1>1, <1>2, <1>4, <1>6

LEMMA FlattenStep ==
    ASSUME TypeInv, NEW c \in Calls, Flatten(c)
    PROVE  /\ Len(log) = committed /\ call[c].pc = "commit" /\ call[c].at <= committed
           /\ log' \in Seq(Entries) /\ Grows(Towards(Effective, Final(Effective)))
           /\ Sound(Towards(Effective, Final(Effective)))
           /\ Final(Towards(Effective, Final(Effective))) = Final(Effective)
           /\ VoterIds(Towards(Effective, Final(Effective))) \subseteq Effective.nodes
           /\ Moves(c, "commit", Len(log) + 1, call[c].tries)
<1> DEFINE e == Towards(Effective, Final(Effective))
<1>0. /\ call[c] \in Requests /\ call[c].tries \in 0 .. RetryLimit - 1 /\ call[c].at \in Nat
      /\ log \in Seq(Entries) /\ committed \in 1 .. Len(log) /\ Len(log) + 1 \in Nat
  BY DEF TypeInv, Requests
<1>1. Len(log) = committed /\ call[c].pc = "commit" /\ call[c].at <= committed /\ log' = Append(log, e)
  BY <1>0 DEF Flatten, Reached, InProgress
<1>2. Sound(e) /\ VoterIds(e) \subseteq Effective.nodes /\ Final(e) = Final(Effective)
  BY EffectiveSound, FlattenFacts, TowardsFacts, EntryFacts
<1>3. e \in Entries
  BY <1>2 DEF Sound
<1>4. log' \in Seq(Entries) /\ Grows(e)
  <2> HIDE DEF e
  <2> QED
    BY <1>0, <1>1, <1>3, AppendGrows
<1>5. call' = [call EXCEPT ![c] = [@ EXCEPT !.pc = "commit", !.at = Len(log) + 1,
                                            !.tries = call[c].tries]]
  BY <1>0, <1>1 DEF Flatten, Requests, TypeInv
<1>6. Moves(c, "commit", Len(log) + 1, call[c].tries)
  BY <1>0, <1>5, MovesFacts DEF Pcs
<1> QED
  BY <1>0, <1>1, <1>2, <1>4, <1>6

LEMMA ProposeAgainFacts ==
    ASSUME TypeInv, NEW c \in Calls, ProposeAgain(c)
    PROVE  Moves(c, "propose", call[c].at, call[c].tries + 1)
<1>0. /\ call[c] \in Requests /\ call[c].tries + 1 \in 0 .. RetryLimit - 1 /\ call[c].at \in Nat
  BY MembershipAssumption DEF TypeInv, Requests, ProposeAgain, MayRetry
<1>1. call' = [call EXCEPT ![c] = [@ EXCEPT !.pc = "propose", !.at = call[c].at,
                                            !.tries = call[c].tries + 1]]
  BY <1>0 DEF ProposeAgain, Requests, TypeInv
<1> QED
  BY <1>0, <1>1, MovesFacts DEF Pcs

LEMMA FlattenRefusedFacts ==
    ASSUME TypeInv, NEW c \in Calls, FlattenRefused(c)
    PROVE  Ends(c) \/ (Moves(c, "propose", call[c].at, call[c].tries + 1) /\ call[c].pc = "commit")
<1>1. CASE InProgress /\ MayRetry(c)
  <2>0. /\ call[c] \in Requests /\ call[c].tries + 1 \in 0 .. RetryLimit - 1 /\ call[c].at \in Nat
        /\ call[c].pc = "commit"
    BY <1>1, MembershipAssumption DEF TypeInv, Requests, MayRetry, FlattenRefused, Reached
  <2>1. call' = [call EXCEPT ![c] = [@ EXCEPT !.pc = "propose", !.at = call[c].at,
                                              !.tries = call[c].tries + 1]]
    BY <2>0, <1>1 DEF FlattenRefused, Requests, TypeInv
  <2> QED
    BY <2>0, <2>1, MovesFacts DEF Pcs
<1>2. CASE ~(InProgress /\ MayRetry(c))
  BY <1>2, EndsFacts DEF FlattenRefused
<1> QED
  BY <1>1, <1>2

\* Another leader keeps a prefix of the log with the committed entries.
LEMMA ChangeLeaderFacts ==
    ASSUME TypeInv, ChangeLeader
    PROVE  /\ log' \in Seq(Entries) /\ Len(log') \in committed .. Len(log)
           /\ \A k \in 1 .. Len(log') : log'[k] = log[k]
           /\ call' = [c \in Calls |-> Idle] /\ call' \in [Calls -> Requests]
<1>0. log \in Seq(Entries) /\ committed \in 1 .. Len(log)
  BY DEF TypeInv
<1>1. PICK k \in committed .. Len(log) : log' = SubSeq(log, 1, k)
  BY DEF ChangeLeader
<1>2. k \in Int /\ k >= 1 /\ k <= Len(log) /\ \A i \in 1 .. k : log[i] \in Entries
  BY <1>0
<1>3. /\ log' \in Seq(Entries) /\ Len(log') = k
      /\ \A i \in 1 .. k : log'[i] = log[i]
  BY <1>1, <1>2, SubSeqProperties
<1> QED
  BY <1>0, <1>3, IdleFacts DEF ChangeLeader

-----------------------------------------------------------------------------
(* Types *)

LEMMA TypeInit == Init => TypeInv
<1> SUFFICES ASSUME Init PROVE TypeInv
  OBVIOUS
<1> DEFINE e == [voters |-> <<Seed>>, nodes |-> Seed]
<1>1. e \in Entries /\ Len(e.voters) = 1 /\ e.voters[1] = Seed /\ DOMAIN e.voters = {1} /\ e.nodes = Seed
  BY MembershipAssumption DEF Entries
<1>2. Sound(e)
  <2> HIDE DEF e
  <2> QED
    BY <1>1, MembershipAssumption DEF Sound, Valid, Final, VoterIds
<1>3. log = <<e>> /\ committed = 1
  BY DEF Init
<1>4. log \in Seq(Entries) /\ Len(log) = 1 /\ log[1] = e
  <2> HIDE DEF e
  <2> QED
    BY <1>1, <1>3
<1>5. /\ call \in [Calls -> Requests]
      /\ \A c \in Calls : call[c].at = 0 /\ call[c].pc = "idle"
  BY IdleFacts DEF Init
<1>6. \A c \in Calls : call[c].at <= Len(log) /\ (Busy(c) => call[c].op # "none")
  BY <1>4, <1>5 DEF Busy
<1>7. /\ start \in [Nodes -> {"off", "joining", "running"}] /\ disk \subseteq Nodes
      /\ voting \subseteq Nodes /\ faults \in 0 .. MaxFaults
  BY MembershipAssumption DEF Init
<1> HIDE DEF e
<1> QED
  BY <1>2, <1>3, <1>4, <1>5, <1>6, <1>7 DEF TypeInv

\* The parts of the type that speak of the log and of the requests.
LogType == 
    /\ log \in Seq(Entries) /\ committed \in 1 .. Len(log)
    /\ \A k \in 1 .. Len(log) : Sound(log[k])
CallType ==
    /\ call \in [Calls -> Requests]
    /\ \A c \in Calls : call[c].at <= Len(log) /\ (Busy(c) => call[c].op # "none")
RestType ==
    /\ start \in [Nodes -> {"off", "joining", "running"}]
    /\ disk \subseteq Nodes /\ voting \subseteq Nodes
    /\ faults \in 0 .. MaxFaults

\* Every step keeps the types.
LEMMA TypeNext == TypeInv /\ [Next]_vars => TypeInv'
<1> SUFFICES ASSUME TypeInv, [Next]_vars PROVE TypeInv'
  OBVIOUS
<1>t. TypeInv <=> LogType /\ CallType /\ RestType
  BY DEF TypeInv, LogType, CallType, RestType
<1>t2. TypeInv' <=> LogType' /\ CallType' /\ RestType'
  BY DEF TypeInv, LogType, CallType, RestType
<1>0. LogType /\ CallType /\ RestType
  BY <1>t
<1>l. UNCHANGED <<log, committed>> => LogType'
  BY <1>0 DEF LogType
<1>c. UNCHANGED <<call, log>> => CallType'
  BY <1>0 DEF CallType, Busy
<1>r. UNCHANGED <<start, disk, voting, faults>> => RestType'
  BY <1>0 DEF RestType
<1>g. ASSUME NEW e, Sound(e), Grows(e), log' \in Seq(Entries), committed' = committed
      PROVE  LogType'
  BY <1>0, <1>g DEF LogType, Grows
<1>m. ASSUME NEW c \in Calls, NEW pc, NEW at, NEW tries, Moves(c, pc, at, tries),
             at <= Len(log'), Len(log) <= Len(log'), Len(log) \in Nat, Len(log') \in Nat,
             Busy(c)
      PROVE  CallType'
  <2>1. \A d \in Calls \ {c} : call'[d].at <= Len(log')
    BY <1>m, <1>0 DEF CallType, Moves, Requests
  <2>2. \A d \in Calls : (Busy(d) => call[d].op # "none")'
    BY <1>m, <1>0 DEF CallType, Moves, Busy
  <2> QED
    BY <1>m, <2>1, <2>2 DEF CallType, Moves
<1>e. ASSUME NEW c \in Calls, Ends(c), UNCHANGED log
      PROVE  CallType'
  BY <1>e, <1>0, IdleFacts DEF CallType, Ends, Busy, LogType
<1>w. ASSUME NEW c \in Calls, NEW op \in Ops \ {"none"}, NEW n \in Nodes,
             NEW goal \in SUBSET Nodes, Working(c, op, n, goal), UNCHANGED log
      PROVE  CallType'
  BY <1>w, <1>0, WorkingFacts DEF CallType, Busy, LogType
<1>n. Len(log) \in Nat \ {0}
  BY <1>0 DEF LogType
<1>1. CASE Commit
  <2>1. LogType'
    BY <1>1, <1>0 DEF Commit, InProgress, LogType
  <2> QED
    BY <1>1, <2>1, <1>c, <1>r, <1>t2 DEF Commit
<1>2. CASE ChangeLeader
  <2>1. LogType'
    BY <1>2, <1>0, ChangeLeaderFacts DEF ChangeLeader, LogType
  <2>2. CallType'
    BY <1>2, <1>n, ChangeLeaderFacts, IdleFacts, <2>1 DEF CallType, Busy, LogType
  <2>3. RestType'
    BY <1>2, <1>0, MembershipAssumption DEF ChangeLeader, RestType
  <2> QED
    BY <2>1, <2>2, <2>3, <1>t2
<1>3. ASSUME NEW c \in Calls, NEW n \in Nodes, Join(c, n)
      PROVE  TypeInv'
  BY <1>3, <1>w, <1>l, <1>r, <1>t2 DEF Join, Ops
<1>4. ASSUME NEW c \in Calls, NEW n \in Nodes, Promote(c, n)
      PROVE  TypeInv'
  <2>1. PromoteGoal(Effective, n) \in SUBSET Nodes
    BY EffectiveSound, EntryFacts DEF PromoteGoal
  <2> QED
    BY <1>4, <2>1, <1>w, <1>l, <1>r, <1>t2 DEF Promote, Ops
<1>5. ASSUME NEW c \in Calls, NEW n \in Nodes, Remove(c, n)
      PROVE  TypeInv'
  <2> DEFINE op == IF n \in VoterIds(Effective) THEN "remove_voter" ELSE "remove_learner"
  <2>1. op \in Ops \ {"none"} /\ Working(c, op, n, {}) /\ UNCHANGED log
    BY <1>5 DEF Remove, Ops
  <2>2. CallType'
    <3> HIDE DEF op
    <3> QED
      BY <2>1, <1>w
  <2>3. RestType'
    BY <1>5, <1>0 DEF Remove, RestType
  <2> QED
    BY <1>5, <2>2, <2>3, <1>l, <1>t2 DEF Remove
<1>6. ASSUME NEW c \in Calls, Propose(c)
      PROVE  TypeInv'
  <2>1. LogType'
    BY <1>6, <1>g, ProposeFacts DEF Propose
  <2>2. CallType'
    BY <1>6, <1>m, <1>n, ProposeFacts DEF Grows, Busy
  <2> QED
    BY <1>6, <2>1, <2>2, <1>r, <1>t2 DEF Propose
<1>7. ASSUME NEW c \in Calls, Flatten(c)
      PROVE  TypeInv'
  <2>1. LogType'
    BY <1>7, <1>g, FlattenStep DEF Flatten
  <2>2. CallType'
    BY <1>7, <1>m, <1>n, FlattenStep DEF Grows, Busy
  <2> QED
    BY <1>7, <2>1, <2>2, <1>r, <1>t2 DEF Flatten
<1>8. ASSUME NEW c \in Calls, ProposeAgain(c)
      PROVE  TypeInv'
  <2>1. call[c].at <= Len(log) /\ Busy(c)
    BY <1>8, <1>0 DEF CallType, ProposeAgain, Busy
  <2>2. Moves(c, "propose", call[c].at, call[c].tries + 1) /\ UNCHANGED log
    BY <1>8, ProposeAgainFacts DEF ProposeAgain
  <2>3. CallType'
    BY <2>1, <2>2, <1>m, <1>n
  <2> QED
    BY <1>8, <2>3, <1>l, <1>r, <1>t2 DEF ProposeAgain
<1>9. ASSUME NEW c \in Calls, FlattenRefused(c)
      PROVE  TypeInv'
  <2>1. call[c].at <= Len(log) /\ (call[c].pc = "commit" => Busy(c))
    BY <1>0 DEF CallType, Busy
  <2>2. UNCHANGED log
    BY <1>9 DEF FlattenRefused
  <2>3. CallType'
    <3>1. CASE Ends(c)
      BY <2>2, <3>1, <1>e
    <3>2. CASE Moves(c, "propose", call[c].at, call[c].tries + 1) /\ call[c].pc = "commit"
      BY <2>1, <2>2, <3>2, <1>m, <1>n
    <3> QED
      BY <1>9, <3>1, <3>2, FlattenRefusedFacts
  <2> QED
    BY <1>9, <2>3, <1>l, <1>r, <1>t2 DEF FlattenRefused
<1>10. ASSUME NEW c \in Calls, ProposeFails(c)
       PROVE  TypeInv'
  BY <1>10, <1>e, <1>l, <1>r, <1>t2, EndsFacts DEF ProposeFails
<1>11. ASSUME NEW c \in Calls, Acknowledge(c)
       PROVE  TypeInv'
  <2>1. call[c].node \in Nodes
    BY <1>0 DEF CallType, Requests
  <2>2. RestType'
    BY <1>11, <2>1, <1>0 DEF Acknowledge, RestType
  <2> QED
    BY <1>11, <2>2, <1>e, <1>l, <1>t2, EndsFacts DEF Acknowledge
<1>12. ASSUME NEW n \in Nodes, Process(n)
       PROVE  TypeInv'
  <2>1. RestType'
    BY <1>12, <1>0, MembershipAssumption
       DEF Process, Start, JoinOfVoter, Replicate, Stop, RestType
  <2> QED
    BY <1>12, <2>1, <1>l, <1>c, <1>t2 DEF Process, Start, JoinOfVoter, Replicate, Stop
<1>13. CASE UNCHANGED vars
  BY <1>13, <1>l, <1>c, <1>r, <1>t2 DEF vars
<1> QED
  BY <1>1, <1>2, <1>3, <1>4, <1>5, <1>6, <1>7, <1>8, <1>9, <1>10, <1>11, <1>12, <1>13
     DEF Next, Ask, Write

LEMMA TypeHolds == Spec => []TypeInv
BY TypeInit, TypeNext, PTL DEF Spec

\* Every entry of the log has voters and has them among its nodes, and every
\* request stays within its retries and the entries there are (membership_write,
\* openraft's check of a change), whatever changes of leader undo.
THEOREM MembershipTypeOK == Spec => []TypeOK
<1>1. TypeInv => TypeOK
  BY DEF TypeInv, TypeOK, Sound, Requests, Pcs
<1> QED
  BY <1>1, TypeHolds, PTL

-----------------------------------------------------------------------------
(* Joins *)

\* What was recorded stays recorded while the entries it was recorded in stay.
LEMMA WasMemberKept ==
    ASSUME NEW n, NEW i \in Nat, NEW j \in Nat, i <= j, WasMember(n, i),
           \A k \in 1 .. i : log'[k] = log[k]
    PROVE  \E k \in 1 .. j : n \in log'[k].nodes
BY DEF WasMember

LEMMA JoinInit == Init => JoinInv
<1> SUFFICES ASSUME Init PROVE JoinInv
  OBVIOUS
<1>1. /\ Len(log) = 1 /\ committed = 1 /\ log[1].nodes = Seed /\ disk = Seed
      /\ \A n \in Nodes : start[n] = "running" => n \in Seed
  BY DEF Init
<1>2. \A c \in Calls : call[c].pc = "idle"
  BY IdleFacts DEF Init
<1>3. 1 \in 1 .. committed
  BY <1>1
<1> QED
  BY <1>1, <1>2, <1>3 DEF JoinInv, ChangesFollow, JoinsRecorded, StateOfMembers, JoinedWasMember,
     WasMember

\* Whoever votes in the effective entry, committed or not, was a node of a
\* committed one.
LEMMA VotersWereMembers ==
    ASSUME TypeInv, ChangesFollow, NEW n \in VoterIds(Effective)
    PROVE  WasMember(n, committed)
<1>0. Len(log) \in Nat \ {0} /\ committed \in 1 .. Len(log) /\ Len(log) <= committed + 1
  BY DEF TypeInv, ChangesFollow
<1>1. CASE Len(log) = committed
  BY <1>0, <1>1, EffectiveSound, EntryFacts DEF WasMember, Effective
<1>2. CASE Len(log) = committed + 1
  <2>1. Len(log) \in 2 .. Len(log) /\ Len(log) - 1 \in 1 .. committed
    BY <1>0, <1>2
  <2>2. VoterIds(log[Len(log)]) \subseteq log[Len(log) - 1].nodes
    BY <2>1 DEF ChangesFollow
  <2> QED
    BY <2>1, <2>2 DEF WasMember, Effective
<1> QED
  BY <1>0, <1>1, <1>2

\* A sound entry that is appended when nothing is open.
LEMMA GrowsFollows ==
    ASSUME TypeInv, ChangesFollow, NEW e, Grows(e), Len(log) = committed, committed' = committed,
           VoterIds(e) \subseteq Effective.nodes
    PROVE  ChangesFollow'
<1>0. Len(log) \in Nat \ {0}
  BY EffectiveSound
<1>1. Len(log') <= committed' + 1
  BY <1>0 DEF Grows
<1>2. ASSUME NEW k \in 2 .. Len(log')
      PROVE  VoterIds(log'[k]) \subseteq log'[k - 1].nodes
  <2>1. k - 1 \in 1 .. Len(log) /\ log'[k - 1] = log[k - 1]
    BY <1>0 DEF Grows
  <2>2. CASE k \in 1 .. Len(log)
    <3>1. log'[k] = log[k] /\ k \in 2 .. Len(log)
      BY <2>2, <1>0 DEF Grows
    <3> QED
      BY <3>1, <2>1 DEF ChangesFollow
  <2>3. CASE k = Len(log) + 1
    BY <2>1, <2>3, <1>0 DEF Grows, Effective
  <2> QED
    BY <2>2, <2>3, <1>0 DEF Grows
<1>3. ChangesFollow' <=> /\ Len(log') <= committed' + 1
                         /\ \A k \in 2 .. Len(log') : VoterIds(log'[k]) \subseteq log'[k - 1].nodes
  BY DEF ChangesFollow, VoterIds
<1> QED
  BY <1>1, <1>2, <1>3

\* Every step keeps what is recorded of joins.
LEMMA JoinNext == TypeInv /\ JoinInv /\ [Next]_vars => JoinInv'
<1> SUFFICES ASSUME TypeInv, JoinInv, [Next]_vars PROVE JoinInv'
  OBVIOUS
<1>0. ChangesFollow /\ JoinsRecorded /\ StateOfMembers /\ JoinedWasMember
  BY DEF JoinInv
<1>n. Len(log) \in Nat \ {0} /\ committed \in 1 .. Len(log)
  BY DEF TypeInv
<1>f. UNCHANGED <<log, committed>> => ChangesFollow'
  BY <1>0 DEF ChangesFollow, VoterIds
\* The committed entries stay, and there are no fewer of them.
<1> DEFINE Keeps == /\ committed' \in Nat /\ committed <= committed'
                    /\ \A k \in 1 .. committed : log'[k] = log[k]
<1>u. UNCHANGED <<log, committed>> => Keeps
  BY <1>n
<1>k. ASSUME Keeps, NEW n, WasMember(n, committed)
      PROVE  WasMember(n, committed)'
  BY <1>k, <1>n, WasMemberKept DEF WasMember
<1>s. Keeps /\ disk' = disk => StateOfMembers'
  BY <1>0, <1>k DEF StateOfMembers
<1>j. Keeps /\ start' = start => JoinedWasMember'
  BY <1>0, <1>k DEF JoinedWasMember, WasMember
<1>c. ASSUME NEW c \in Calls, \A d \in Calls \ {c} : call'[d] = call[d],
             \A k \in 1 .. Len(log) : log'[k] = log[k],
             call'[c].op = "join" /\ call'[c].pc = "commit" => WasMember(call[c].node, call[c].at)'
      PROVE  JoinsRecorded'
  <2>1. ASSUME NEW d \in Calls \ {c}, call'[d].op = "join" /\ call'[d].pc = "commit"
        PROVE  WasMember(call[d].node, call[d].at)'
    <3>1. WasMember(call[d].node, call[d].at) /\ call'[d] = call[d]
      BY <1>c, <2>1, <1>0 DEF JoinsRecorded
    <3>2. call[d].at \in 0 .. Len(log)
      BY <1>n DEF TypeInv, Requests
    <3> QED
      BY <1>c, <3>1, <3>2 DEF WasMember
  <2> QED
    BY <1>c, <2>1 DEF JoinsRecorded
<1>d. UNCHANGED <<log, call>> => JoinsRecorded'
  BY <1>0 DEF JoinsRecorded, WasMember
<1>1. CASE Commit
  <2>1. Keeps /\ ChangesFollow'
    BY <1>1, <1>0, <1>n DEF Commit, InProgress, ChangesFollow, VoterIds
  <2> QED
    BY <1>1, <2>1, <1>d, <1>s, <1>j DEF Commit, JoinInv
<1>2. CASE ChangeLeader
  <2>0. /\ Len(log') \in committed .. Len(log) /\ committed' = committed
        /\ \A k \in 1 .. Len(log') : log'[k] = log[k]
    BY <1>2, ChangeLeaderFacts DEF ChangeLeader
  <2>1. Keeps
    BY <2>0, <1>n
  <2>2. ChangesFollow'
    <3>1. Len(log') <= committed' + 1
      BY <2>0, <1>0, <1>n DEF ChangesFollow
    <3>2. ASSUME NEW k \in 2 .. Len(log')
          PROVE  VoterIds(log'[k]) \subseteq log'[k - 1].nodes
      <4>1. log'[k] = log[k] /\ log'[k - 1] = log[k - 1] /\ k \in 2 .. Len(log)
        BY <2>0, <1>n
      <4> QED
        BY <4>1, <1>0 DEF ChangesFollow
    <3> QED
      BY <3>1, <3>2 DEF ChangesFollow, VoterIds
  <2>3. JoinsRecorded'
    BY <1>2, ChangeLeaderFacts, IdleFacts DEF JoinsRecorded
  <2> QED
    BY <1>2, <2>1, <2>2, <2>3, <1>s, <1>j DEF ChangeLeader, JoinInv
<1>3. ASSUME NEW c \in Calls, Ask(c)
      PROVE  JoinInv'
  <2>1. UNCHANGED <<log, committed, start, disk>>
    BY <1>3 DEF Ask, Join, Promote, Remove
  <2>2. /\ \A d \in Calls \ {c} : call'[d] = call[d]
        /\ call'[c].pc = "propose"
    <3>1. \A n \in Nodes : PromoteGoal(Effective, n) \in SUBSET Nodes
      BY EffectiveSound, EntryFacts DEF PromoteGoal
    <3>2. PICK op \in Ops \ {"none"}, n \in Nodes, goal \in SUBSET Nodes : Working(c, op, n, goal)
      BY <1>3, <3>1 DEF Ask, Join, Promote, Remove, Ops
    <3> QED
      BY <3>2, WorkingFacts
  <2>3. JoinsRecorded'
    BY <2>1, <2>2, <1>c
  <2> QED
    BY <2>1, <2>3, <1>f, <1>u, <1>s, <1>j DEF JoinInv
<1>4. ASSUME NEW c \in Calls, Propose(c)
      PROVE  JoinInv'
  <2> DEFINE e == Changed(Effective, call[c])
  <2>1. /\ Grows(e) /\ Len(log) = committed /\ VoterIds(e) \subseteq Effective.nodes
        /\ Moves(c, "commit", Len(log) + 1, call[c].tries)
        /\ UNCHANGED <<committed, start, disk>>
    BY <1>4, ProposeFacts DEF Propose
  <2>2. call[c].op = "join" => call[c].node \in e.nodes
    BY <1>4, ProposeFacts, EffectiveSound, ChangedFacts DEF TypeInv
  <2> HIDE DEF e
  <2>3. ChangesFollow' /\ Keeps
    BY <2>1, <1>0, <1>n, GrowsFollows DEF Grows
  <2>4. call'[c].op = "join" => WasMember(call[c].node, call[c].at)'
    BY <2>1, <2>2, <1>n DEF Grows, Moves, WasMember
  <2>5. JoinsRecorded'
    BY <2>1, <2>4, <1>c DEF Grows, Moves
  <2> QED
    BY <2>1, <2>3, <2>5, <1>s, <1>j DEF JoinInv
<1>5. ASSUME NEW c \in Calls, Flatten(c)
      PROVE  JoinInv'
  <2> DEFINE e == Towards(Effective, Final(Effective))
  <2>1. /\ Grows(e) /\ Len(log) = committed /\ VoterIds(e) \subseteq Effective.nodes
        /\ Moves(c, "commit", Len(log) + 1, call[c].tries) /\ call[c].pc = "commit"
        /\ UNCHANGED <<committed, start, disk>>
    BY <1>5, FlattenStep DEF Flatten
  <2> HIDE DEF e
  <2>2. ChangesFollow' /\ Keeps
    BY <2>1, <1>0, <1>n, GrowsFollows DEF Grows
  <2>3. ASSUME call'[c].op = "join"
        PROVE  WasMember(call[c].node, call[c].at)'
    <3>1. WasMember(call[c].node, call[c].at)
      BY <2>1, <2>3, <1>0 DEF Moves, JoinsRecorded
    <3>2. call[c].at \in 0 .. Len(log)
      BY <1>n DEF TypeInv, Requests
    <3> QED
      BY <3>1, <3>2, <2>1, <1>n DEF Moves, Grows, WasMember
  <2>4. JoinsRecorded'
    BY <2>1, <2>3, <1>c DEF Grows, Moves
  <2> QED
    BY <2>1, <2>2, <2>4, <1>s, <1>j DEF JoinInv
<1>6. ASSUME NEW c \in Calls, ProposeAgain(c) \/ FlattenRefused(c) \/ ProposeFails(c)
      PROVE  JoinInv'
  <2>1. UNCHANGED <<log, committed, start, disk>>
    BY <1>6 DEF ProposeAgain, FlattenRefused, ProposeFails
  <2>2. /\ \A d \in Calls \ {c} : call'[d] = call[d]
        /\ call'[c].pc # "commit"
    BY <1>6, ProposeAgainFacts, FlattenRefusedFacts, EndsFacts, IdleFacts
       DEF ProposeFails, Moves, Ends
  <2>3. JoinsRecorded'
    BY <2>1, <2>2, <1>c
  <2> QED
    BY <2>1, <2>3, <1>f, <1>u, <1>s, <1>j DEF JoinInv
<1>7. ASSUME NEW c \in Calls, Acknowledge(c)
      PROVE  JoinInv'
  <2>1. UNCHANGED <<log, committed, disk>> /\ Ends(c)
    BY <1>7, EndsFacts DEF Acknowledge
  <2>2. JoinsRecorded'
    BY <2>1, <1>c, IdleFacts DEF Ends
  <2>3. ASSUME call[c].op = "join"
        PROVE  WasMember(call[c].node, committed)
    <3>1. WasMember(call[c].node, call[c].at) /\ call[c].at <= committed /\ call[c].at \in Nat
      BY <1>7, <2>3, <1>0, <1>n DEF JoinsRecorded, Acknowledge, Reached, TypeInv, Requests
    <3> QED
      BY <3>1, <1>n DEF WasMember
  <2>4. JoinedWasMember'
    <3>1. start \in [Nodes -> {"off", "joining", "running"}] /\ call[c].node \in Nodes
      BY DEF TypeInv, Requests
    <3> QED
      BY <1>7, <2>1, <2>3, <3>1, <1>0 DEF Acknowledge, JoinedWasMember, WasMember
  <2> QED
    BY <2>1, <2>2, <2>4, <1>f, <1>u, <1>s DEF JoinInv
<1>8. ASSUME NEW n \in Nodes, Process(n)
      PROVE  JoinInv'
  <2>0. start \in [Nodes -> {"off", "joining", "running"}]
    BY DEF TypeInv
  <2>1. UNCHANGED <<log, committed, call>>
    BY <1>8 DEF Process, Start, JoinOfVoter, Replicate, Stop
  <2>2. JoinedWasMember'
    <3>1. CASE Start(n)
      BY <3>1, <2>0, <2>1, <1>0 DEF Start, JoinedWasMember, StateOfMembers, WasMember
    <3>2. CASE JoinOfVoter(n)
      <4>1. WasMember(n, committed)
        BY <3>2, <1>0, VotersWereMembers DEF JoinOfVoter
      <4> QED
        BY <3>2, <4>1, <2>0, <2>1, <1>0 DEF JoinOfVoter, JoinedWasMember, WasMember
    <3>3. CASE Replicate(n)
      BY <3>3, <2>1, <1>0 DEF Replicate, JoinedWasMember
    <3>4. CASE Stop(n)
      BY <3>4, <2>0, <2>1, <1>0 DEF Stop, JoinedWasMember
    <3> QED
      BY <1>8, <3>1, <3>2, <3>3, <3>4 DEF Process
  <2>3. StateOfMembers'
    <3>1. CASE Replicate(n)
      BY <3>1, <2>1, <1>0, <1>n DEF Replicate, StateOfMembers, WasMember
    <3>2. CASE disk' = disk
      BY <3>2, <2>1, <1>u, <1>s
    <3> QED
      BY <1>8, <3>1, <3>2 DEF Process, Start, JoinOfVoter, Stop
  <2> QED
    BY <2>1, <2>2, <2>3, <1>f, <1>d DEF JoinInv
<1>9. CASE UNCHANGED vars
  BY <1>9, <1>f, <1>u, <1>s, <1>j, <1>d DEF vars, JoinInv
<1> QED
  BY <1>1, <1>2, <1>3, <1>4, <1>5, <1>6, <1>7, <1>8, <1>9 DEF Next, Write

\* A node that takes its join for done, because the leader answered or because
\* it is told that it votes already (join_cluster), was made a member by an
\* entry that is committed: no change of leader takes the reason away.
THEOREM JoinedWasMemberHolds == Spec => []JoinedWasMember
<1>1. JoinInv => JoinedWasMember
  BY DEF JoinInv
<1>2. Spec => []JoinInv
  BY JoinInit, JoinNext, TypeHolds, PTL DEF Spec
<1> QED
  BY <1>1, <1>2, PTL

-----------------------------------------------------------------------------
(* Promotions *)

LEMMA PromoteInit == Init => PromoteInv
<1> SUFFICES ASSUME Init PROVE PromoteInv
  OBVIOUS
<1>1. voting = {} /\ \A c \in Calls : call[c].op = "none"
  BY IdleFacts DEF Init
<1> QED
  BY <1>1 DEF PromoteInv, VotersLast, PromotionsKeep, RemovalsSpare, PromotionsStand

\* The request of one place changes in a way that is no news to the voters.
Harmless(c) ==
    /\ \A d \in Calls \ {c} : call'[d] = call[d]
    /\ call'[c].op = "none" \/ call'[c].op = "join"
         \/ /\ call'[c].op = call[c].op /\ call'[c].node = call[c].node
            /\ call'[c].goal = call[c].goal /\ call'[c].pc # "commit"

\* Steps of the requests that change neither the log nor the voters.
LEMMA HarmlessKeeps ==
    ASSUME PromoteInv, NEW c \in Calls, Harmless(c), UNCHANGED <<log, committed, voting>>
    PROVE  PromoteInv'
<1>1. VotersLast'
  BY DEF PromoteInv, VotersLast, Final
<1>2. PromotionsKeep' /\ RemovalsSpare'
  BY DEF PromoteInv, PromotionsKeep, RemovalsSpare, Harmless
<1>3. PromotionsStand'
  BY DEF PromoteInv, PromotionsStand, Harmless, Final
<1> QED
  BY <1>1, <1>2, <1>3 DEF PromoteInv

\* An entry that is appended in a place of its own, with the voters it must have.
LEMMA GrowsKeeps ==
    ASSUME TypeInv, PromoteInv, NEW c \in Calls, NEW e, Grows(e), NEW tries,
           Moves(c, "commit", Len(log) + 1, tries), Len(log) = committed,
           UNCHANGED <<committed, voting>>,
           voting \subseteq Final(e),
           call[c].op = "promote" => call[c].node \in Final(e),
           \A d \in Calls \ {c} : call[d].op = "promote" /\ call[d].pc = "commit" =>
               call[d].node \in Final(e)
    PROVE  PromoteInv'
<1>0. Len(log) \in Nat \ {0}
  BY EffectiveSound
<1>1. PromotionsKeep' /\ RemovalsSpare'
  BY DEF PromoteInv, PromotionsKeep, RemovalsSpare, Moves
<1>2. VotersLast'
  <2>1. \A k \in committed .. Len(log') : k = Len(log) \/ k = Len(log) + 1
    BY <1>0 DEF Grows
  <2>2. \A n \in voting : n \in Final(log[Len(log)])
    BY <1>0 DEF PromoteInv, VotersLast
  <2>3. Final(log'[Len(log)]) = Final(log[Len(log)]) /\ Final(log'[Len(log) + 1]) = Final(e)
    BY <1>0 DEF Grows
  <2>4. \A n \in voting : \A k \in committed .. Len(log') : n \in Final(log'[k])
    BY <2>1, <2>2, <2>3
  <2> QED
    BY <2>4 DEF VotersLast, Final
<1>3. PromotionsStand'
  <2>1. ASSUME NEW d \in Calls, call'[d].op = "promote" /\ call'[d].pc = "commit"
        PROVE  /\ call'[d].at # 0
               /\ \A k \in call'[d].at .. Len(log') : call'[d].node \in Final(log'[k])
    <3>1. CASE d = c
      BY <2>1, <3>1, <1>0 DEF Moves, Grows
    <3>2. CASE d # c
      <4>1. call'[d] = call[d] /\ call[d].at \in 0 .. Len(log)
        BY <3>2, <1>0 DEF Moves, TypeInv, Requests
      <4>2. /\ call[d].at # 0
            /\ \A i \in call[d].at .. Len(log) : call[d].node \in Final(log[i])
        BY <4>1, <2>1 DEF PromoteInv, PromotionsStand
      <4>3. call[d].node \in Final(log'[Len(log) + 1])
        BY <4>1, <2>1, <3>2, <1>0 DEF Grows
      <4>4. \A k \in call[d].at .. Len(log) : log'[k] = log[k]
        BY <4>1, <4>2, <1>0 DEF Grows
      <4>5. \A k \in call[d].at .. Len(log') : k \in call[d].at .. Len(log) \/ k = Len(log) + 1
        BY <4>1, <1>0 DEF Grows
      <4> QED
        BY <4>1, <4>2, <4>3, <4>4, <4>5
    <3> QED
      BY <3>1, <3>2
  <2> QED
    BY <2>1 DEF PromotionsStand, Final
<1> QED
  BY <1>1, <1>2, <1>3 DEF PromoteInv

\* Every step keeps the promotions, as long as none is overtaken.
LEMMA PromoteNext == TypeInv /\ PromoteInv /\ ~Overtaken /\ [Next]_vars => PromoteInv'
<1> SUFFICES ASSUME TypeInv, PromoteInv, ~Overtaken, [Next]_vars PROVE PromoteInv'
  OBVIOUS
<1>n. /\ Len(log) \in Nat \ {0} /\ committed \in 1 .. Len(log) /\ voting \subseteq Nodes
      /\ call \in [Calls -> Requests] /\ Len(log) \in committed .. Len(log)
  BY DEF TypeInv
<1>v. voting \subseteq Final(Effective)
  BY <1>n DEF PromoteInv, VotersLast, Effective
<1>p. ASSUME NEW d \in Calls, call[d].op = "promote", call[d].pc = "commit"
      PROVE  call[d].node \in Final(Effective)
  <2>1. call[d].at \in Nat /\ call[d].at <= Len(log)
    BY DEF TypeInv, Requests
  <2> QED
    BY <1>p, <2>1, <1>n DEF PromoteInv, PromotionsStand, Effective
<1>o. ASSUME NEW d \in Calls, call[d].op = "promote", call[d].pc = "commit"
      PROVE  \A c \in Calls \ {d} : call[c].op # "promote" /\ call[c].op # "remove_voter"
  BY <1>o DEF Overtaken
<1>1. CASE Commit
  <2>1. VotersLast'
    BY <1>1, <1>n DEF Commit, InProgress, PromoteInv, VotersLast, Final
  <2> QED
    BY <1>1, <2>1 DEF Commit, PromoteInv, PromotionsKeep, RemovalsSpare, PromotionsStand, Final
<1>2. CASE ChangeLeader
  <2>1. /\ Len(log') \in committed .. Len(log) /\ UNCHANGED <<committed, voting>>
        /\ \A k \in 1 .. Len(log') : log'[k] = log[k]
        /\ \A c \in Calls : call'[c].op = "none"
    BY <1>2, ChangeLeaderFacts, IdleFacts DEF ChangeLeader
  <2>2. VotersLast'
    BY <2>1, <1>n DEF PromoteInv, VotersLast, Final
  <2> QED
    BY <2>1, <2>2 DEF PromoteInv, PromotionsKeep, RemovalsSpare, PromotionsStand
<1>3. ASSUME NEW c \in Calls, NEW n \in Nodes, Join(c, n)
      PROVE  PromoteInv'
  <2>1. Harmless(c)
    BY <1>3, WorkingFacts DEF Join, Ops, Harmless
  <2> QED
    BY <1>3, <2>1, HarmlessKeeps DEF Join
<1>4. ASSUME NEW c \in Calls, NEW n \in Nodes, Promote(c, n)
      PROVE  PromoteInv'
  <2> DEFINE goal == PromoteGoal(Effective, n)
  <2>0. /\ goal \in SUBSET Nodes /\ n \in goal /\ voting \subseteq goal
    BY <1>v, EffectiveSound, EntryFacts DEF PromoteGoal
  <2>1. /\ call'[c].op = "promote" /\ call'[c].goal = goal /\ call'[c].node = n
        /\ call'[c].pc = "propose" /\ \A d \in Calls \ {c} : call'[d] = call[d]
    <3> HIDE DEF goal
    <3>1. Working(c, "promote", n, goal)
      BY <1>4 DEF Promote, goal
    <3> QED
      BY <3>1, <2>0, WorkingFacts DEF Ops
  <2>2. UNCHANGED <<log, committed, voting>>
    BY <1>4 DEF Promote
  <2> HIDE DEF goal
  <2>3. PromotionsKeep' /\ RemovalsSpare'
    BY <2>0, <2>1, <2>2 DEF PromoteInv, PromotionsKeep, RemovalsSpare
  <2>4. VotersLast' /\ PromotionsStand'
    BY <2>1, <2>2 DEF PromoteInv, VotersLast, PromotionsStand, Final
  <2> QED
    BY <2>3, <2>4 DEF PromoteInv
<1>5. ASSUME NEW c \in Calls, NEW n \in Nodes, Remove(c, n)
      PROVE  PromoteInv'
  <2> DEFINE op == IF n \in VoterIds(Effective) THEN "remove_voter" ELSE "remove_learner"
  <2>0. op \in Ops \ {"none"} /\ op \in {"remove_voter", "remove_learner"} /\ Working(c, op, n, {})
    BY <1>5 DEF Remove, Ops
  <2>1. /\ call'[c].op \in {"remove_voter", "remove_learner"} /\ call'[c].node = n
        /\ \A d \in Calls \ {c} : call'[d] = call[d]
    <3> HIDE DEF op
    <3> QED
      BY <2>0, WorkingFacts
  <2>2. UNCHANGED <<log, committed>> /\ voting' = voting \ {n}
    BY <1>5 DEF Remove
  <2>3. PromotionsKeep' /\ RemovalsSpare'
    BY <2>1, <2>2 DEF PromoteInv, PromotionsKeep, RemovalsSpare
  <2>4. VotersLast' /\ PromotionsStand'
    BY <2>1, <2>2 DEF PromoteInv, VotersLast, PromotionsStand, Final
  <2> QED
    BY <2>3, <2>4 DEF PromoteInv
<1>6. ASSUME NEW c \in Calls, Propose(c)
      PROVE  PromoteInv'
  <2> DEFINE e == Changed(Effective, call[c])
  <2>0. /\ call[c] \in Requests /\ call[c].op # "none"
        /\ call[c].op \in {"join", "promote", "remove_voter", "remove_learner"}
    BY <1>n, <1>6, ProposeFacts DEF Requests, Ops
  <2>1. /\ Grows(e) /\ Len(log) = committed
        /\ Moves(c, "commit", Len(log) + 1, call[c].tries)
        /\ UNCHANGED <<committed, voting>>
    BY <1>6, ProposeFacts DEF Propose
  <2>2. /\ call[c].op = "promote" => Final(e) = call[c].goal
        /\ call[c].op = "remove_voter" => Final(e) = Final(Effective) \ {call[c].node}
        /\ call[c].op \in {"join", "remove_learner"} => Final(e) = Final(Effective)
    BY <2>0, <1>6, ProposeFacts, EffectiveSound, ChangedFacts
  <2> HIDE DEF e
  <2>3. voting \subseteq Final(e) /\ (call[c].op = "promote" => call[c].node \in Final(e))
    BY <2>0, <2>2, <1>v DEF PromoteInv, PromotionsKeep, RemovalsSpare
  <2>4. ASSUME NEW d \in Calls \ {c}, call[d].op = "promote", call[d].pc = "commit"
        PROVE  call[d].node \in Final(e)
    <3>1. call[c].op \in {"join", "remove_learner"}
      BY <2>4, <2>0, <1>o
    <3> QED
      BY <3>1, <2>2, <2>4, <1>p
  <2> QED
    BY <2>1, <2>3, <2>4, GrowsKeeps
<1>7. ASSUME NEW c \in Calls, Flatten(c)
      PROVE  PromoteInv'
  <2> DEFINE e == Towards(Effective, Final(Effective))
  <2>1. /\ Grows(e) /\ Len(log) = committed /\ Final(e) = Final(Effective)
        /\ Moves(c, "commit", Len(log) + 1, call[c].tries) /\ call[c].pc = "commit"
        /\ UNCHANGED <<committed, voting>>
    BY <1>7, FlattenStep DEF Flatten
  <2> HIDE DEF e
  <2> QED
    BY <2>1, <1>v, <1>p, GrowsKeeps
<1>8. ASSUME NEW c \in Calls, ProposeAgain(c) \/ FlattenRefused(c) \/ ProposeFails(c)
      PROVE  PromoteInv'
  <2>1. UNCHANGED <<log, committed, voting>>
    BY <1>8 DEF ProposeAgain, FlattenRefused, ProposeFails
  <2>2. Harmless(c)
    BY <1>8, ProposeAgainFacts, FlattenRefusedFacts, EndsFacts, IdleFacts
       DEF ProposeFails, Moves, Ends, Harmless
  <2> QED
    BY <2>1, <2>2, HarmlessKeeps
<1>9. ASSUME NEW c \in Calls, Acknowledge(c)
      PROVE  PromoteInv'
  <2>1. UNCHANGED <<log, committed>> /\ Ends(c) /\ call'[c].op = "none"
    BY <1>9, EndsFacts, IdleFacts DEF Acknowledge, Ends
  <2>2. CASE call[c].op # "promote"
    <3>1. Harmless(c) /\ voting' = voting
      BY <1>9, <2>1, <2>2 DEF Acknowledge, Ends, Harmless
    <3> QED
      BY <2>1, <3>1, HarmlessKeeps
  <2>3. CASE call[c].op = "promote"
    <3>1. voting' = voting \cup {call[c].node} /\ call[c].pc = "commit"
      BY <1>9, <2>3 DEF Acknowledge, Reached
    <3>2. \A d \in Calls \ {c} : call[d].op # "promote" /\ call[d].op # "remove_voter"
      BY <2>3, <3>1, <1>o
    <3>3. \A k \in committed .. Len(log) : call[c].node \in Final(log[k])
      <4>1. call[c].at \in Nat /\ call[c].at <= committed
        BY <1>9 DEF Acknowledge, Reached, TypeInv, Requests
      <4>2. \A k \in call[c].at .. Len(log) : call[c].node \in Final(log[k])
        BY <2>3, <3>1 DEF PromoteInv, PromotionsStand
      <4> QED
        BY <4>1, <4>2, <1>n
    <3>4. VotersLast'
      BY <3>1, <3>3, <2>1 DEF PromoteInv, VotersLast, Final
    <3>5. \A d \in Calls : call'[d].op # "promote" /\ call'[d].op # "remove_voter"
      BY <3>2, <2>1 DEF Ends
    <3> QED
      BY <3>4, <3>5 DEF PromoteInv, PromotionsKeep, RemovalsSpare, PromotionsStand
  <2> QED
    BY <2>2, <2>3
<1>10. ASSUME NEW n \in Nodes, Process(n)
       PROVE  PromoteInv'
  <2>1. UNCHANGED <<log, committed, call, voting>>
    BY <1>10 DEF Process, Start, JoinOfVoter, Replicate, Stop
  <2> QED
    BY <2>1 DEF PromoteInv, VotersLast, PromotionsKeep, RemovalsSpare, PromotionsStand, Final
<1>11. CASE UNCHANGED vars
  BY <1>11 DEF vars, PromoteInv, VotersLast, PromotionsKeep, RemovalsSpare, PromotionsStand, Final
<1> QED
  BY <1>1, <1>2, <1>3, <1>4, <1>5, <1>6, <1>7, <1>8, <1>9, <1>10, <1>11 DEF Next, Ask, Write

\* A promotion that was acknowledged (cluster_promote after membership_write)
\* makes a voter that stays one until its removal is asked for: no join, no
\* retry, no joint configuration and no change of leader that drops open
\* entries takes it away, nor another promotion or removal, but one that is
\* open while the promotion waits for its commit.
THEOREM PromotionsLastHolds == Spec => PromotionsLast
<1>1. TypeInv /\ PromoteInv => PromotedVotes
  BY DEF TypeInv, PromoteInv, VotersLast, PromotedVotes, Effective
<1>2. TypeInv /\ PromoteInv /\ ~Overtaken /\ [Next]_vars => PromoteInv'
  BY PromoteNext
<1>3. Spec /\ []~Overtaken => []PromotedVotes
  BY <1>1, <1>2, PromoteInit, TypeHolds, PTL DEF Spec
<1> QED
  BY <1>3 DEF PromotionsLast
=============================================================================
