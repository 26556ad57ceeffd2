------------------------------- MODULE Requests -------------------------------
(***************************************************************************)
(* The requests of administrators on their way to the state machine        *)
(* ConfigState: the handlers of dsh-api/src/lib.rs, the services of        *)
(* dsh-publish they call, write_command of dsh-raft, and the middleware    *)
(* forward_leader_writes that repeats a whole request at the leader.       *)
(* Between the read of a handler, its write and its answer other requests  *)
(* are carried out, leadership moves and nodes restart.  The job that ends *)
(* gray releases (dsh-jobs) runs beside them.                              *)
(*                                                                         *)
(* Reads are of the state that the leader has applied: a follower's older  *)
(* state is the one an earlier read would have seen.  A caller that gives  *)
(* up waiting and asks again is another caller: the request goes on.       *)
(***************************************************************************)
EXTENDS ConfigState, Functions

CONSTANTS
    Node,            \* nodes of the cluster
    Caller,          \* administrators, each with one request at a time
    GivenId,         \* request ids that clients choose
    JobId,           \* the request ids of the job, "auto-" and a time
    Inputs,          \* requests: op, branch, given id and argument
    PublishPolicy,   \* --publish-policy
    FreshPids,       \* no two processes of the cluster have the same pid
    Unhealthy,       \* the error rate is above the threshold
    MaxSeq,          \* bound: request ids drawn, by a process and by all that run
    MaxMishaps       \* bound: leader changes, restarts and failing writes

VersionOps == {"publish", "rollback", "grayPromote"}

IdOps == VersionOps \cup {"grayPublish", "grayAbort"}

\* Every edit of a draft that can be written down.
Edits ==
    [updates : Content, deletes : SUBSET Item,
     bindings : PartialFcn(Item, SharedKey \cup {None})]

ASSUME RequestsAssumption ==
    /\ \A r \in Inputs :
          /\ r.op \in IdOps \cup {"save", "promote"}
          /\ r.branch \in Branch
          /\ r.given \in GivenId \cup {None}
          /\ r.op = "rollback" => r.arg \in Nat
          /\ r.op = "grayPublish" => r.arg \in GrayRule
          /\ r.op = "save" => r.arg \in DraftInputs
          /\ r.op = "promote" => r.arg \in Branch
    /\ None \notin GivenId /\ JobId \notin GivenId /\ None \notin Nat
    /\ GivenId \cup {JobId} \subseteq RequestId
    /\ FreshPids \in BOOLEAN /\ Unhealthy \in BOOLEAN /\ MaxMishaps \in Nat
    /\ Node # {} /\ IsFiniteSet(Node)
    /\ PublishPolicy \in Policies
    /\ DraftInputs = Edits
    /\ \A v \in Value : [v EXCEPT !.ty = "secret"] \in Value

\* process::id() of the processes that run before and after restarts.
Pid == 1..(Cardinality(Node) + MaxMishaps)

\* The ids that handlers draw.
DrawnId == Pid \X (0..MaxSeq)

\* Clients choose no id of the form that handlers and the job give theirs.
ASSUME RequestIdsAssumption ==
    /\ MaxSeq \in Nat
    /\ DrawnId \subseteq RequestId
    /\ (GivenId \cup {JobId}) \cap DrawnId = {}

VARIABLES
    leader,    \* the node that leads
    pids,      \* process::id() of every node
    seqs,      \* SEQ of new_request_id in every process
    calls,     \* the request of every caller
    targets,   \* the branches that the job of a node is about to abort
    took,      \* history: the version made on a branch by the request with an
               \* id that its client chose (0 for none), None before
    mishaps    \* how many mishaps there were

callVars == <<leader, pids, seqs, calls, targets, took, mishaps>>

allVars == <<vars, callVars>>

NoCall == [pc |-> "idle"]

-----------------------------------------------------------------------------
(* Handlers *)

\* Mutant: a handler takes the number without counting it.
NextSeqSame(n) == seqs[n]

NextSeq(n) == seqs[n] + 1

NewRequestId(n) == <<pids[n], seqs[n]>>

\* The handler makes an id when the client gave none.
Draws(r) == r.op \in IdOps /\ r.given = None

\* What a caller asked for has been done: by this call, or by another one with
\* the id that its client chose.
Done(c) ==
    LET r == calls[c].req
    IN  IF r.given = None THEN calls[c].did ELSE took[<<r.branch, r.given>>]

\* encrypt_secret_updates, by the structure read before the write.
Sealed(edit) ==
    LET secret(i) == i \in DOMAIN structure.defs /\ structure.defs[i].ty = "secret"
    IN  [edit EXCEPT !.updates = [i \in DOMAIN @ |->
            IF secret(i) /\ @[i].ty = "string" THEN [@[i] EXCEPT !.ty = "secret"] ELSE @[i]]]

\* The values that promote takes from the active version of from: not those of
\* referenced items, and none that the draft of to has already.
Promoted(from, to) ==
    LET content == ActiveContent(from)
        taken == DOMAIN content \ (SharedDefs(structure.defs) \cup DOMAIN drafts[to].values)
    IN  [updates |-> [i \in taken |-> content[i]], deletes |-> {}, bindings |-> EmptyMap]

Readable(b) == b \in Live /\ branches[b].active_version > 0 /\ ActiveContent(b) # NotFound

\* An administrator opens the draft page, which shows the draft and its
\* revision, and keeps it open.
Open(c, b) ==
    /\ calls[c].pc = "idle"
    /\ b \in Live
    /\ calls' = [calls EXCEPT ![c] =
          [pc |-> "open", branch |-> b, rev |-> branches[b].draft_rev,
           seen |-> drafts[b].values]]
    /\ UNCHANGED <<vars, leader, pids, seqs, targets, took, mishaps>>

\* The command of request r at node n: an id is drawn, secrets are encrypted,
\* the values to promote are read.
Prepared(r, n, rev, seen, did) ==
    [pc |-> "write", req |-> r, at |-> n, rev |-> rev, seen |-> seen, did |-> did,
     rid |-> IF Draws(r) THEN NewRequestId(n) ELSE r.given,
     edit |-> CASE r.op = "save" -> Sealed(r.arg)
                [] r.op = "promote" -> Sealed(Promoted(r.arg, r.branch))
                [] OTHER -> None]

\* promote has nothing to write: its source or target cannot be read, or no
\* value is left to be taken.
NoWrite(r) ==
    /\ r.op = "promote"
    /\ \/ ~Readable(r.arg) \/ r.branch \notin Live
       \/ DOMAIN Promoted(r.arg, r.branch).updates = {}

\* A handler runs at node n up to its write.
Handle(c, r, n, rev, seen, did) ==
    /\ Draws(r) => seqs[n] < MaxSeq /\ FoldFunction(+, 0, seqs) < MaxSeq
    /\ calls' = [calls EXCEPT ![c] =
          IF NoWrite(r) THEN NoCall ELSE Prepared(r, n, rev, seen, did)]
    /\ seqs' = IF Draws(r) THEN [seqs EXCEPT ![n] = NextSeq(n)] ELSE seqs
    /\ UNCHANGED <<vars, leader, pids, targets, took, mishaps>>

\* A request comes to node n.
Request(c, n, r) ==
    /\ calls[c].pc = "idle"
    /\ r.op # "save"
    /\ Handle(c, r, n, None, EmptyMap, None)

\* A draft is saved from the page it was opened on, with the revision that the
\* page showed.
Save(c, n, r) ==
    /\ calls[c].pc = "open"
    /\ r.op = "save" /\ r.branch = calls[c].branch
    /\ Handle(c, r, n, calls[c].rev, calls[c].seen, None)

-----------------------------------------------------------------------------
(* Writes *)

\* The command of a call is carried out by the state machine.
Carries(call) ==
    LET r == call.req
        b == r.branch
    IN  \/ r.op = "publish" /\ Publish(b, call.rid, PublishPolicy)
        \/ r.op = "rollback" /\ Rollback(b, r.arg, call.rid)
        \/ r.op = "grayPublish" /\ GrayPublish(b, r.arg, call.rid, PublishPolicy)
        \/ r.op = "grayPromote" /\ GrayPromote(b, call.rid)
        \/ r.op = "grayAbort" /\ GrayAbort(b, call.rid)
        \/ r.op \in {"save", "promote"} /\ DraftUpdate(b, call.edit, call.rev)

\* The state machine takes it for the repetition of its last request (I10).
Replays(call) ==
    /\ call.req.op \in IdOps
    /\ call.req.branch \in Live
    /\ branches[call.req.branch].last_request_id = call.rid

\* The guards of the commands, without the bounds of the model.
Accepts(call) ==
    LET r == call.req
        b == r.branch
        read == ActiveContent(b) # NotFound
    IN  /\ b \in Live
        /\ r.op \in {"publish", "grayPublish"} => Publishable(b, call.rid, PublishPolicy)
        /\ r.op = "rollback" =>
              /\ read /\ 0 < r.arg /\ r.arg < branches[b].active_version
              /\ RollbackContent(b, r.arg) # NotFound
        /\ r.op = "grayPromote" =>
              read /\ GrayActive(b) /\ branches[b].gray_seq \in DOMAIN graySnaps[b]
        /\ r.op = "grayAbort" => GrayActive(b)
        /\ r.op \in {"save", "promote"} => LockHolds(b, call.rev) /\ EditValid(call.edit)

\* The version of the first event of the command.
MadeVersion(r) == IF r.op \in VersionOps THEN branches'[r.branch].active_version ELSE 0

Recorded(r) ==
    IF r.given = None THEN took ELSE [took EXCEPT ![<<r.branch, r.given>>] = MadeVersion(r)]

Writing(c) == calls[c].pc = "write"

AtLeader(c) == Writing(c) /\ calls[c].at = leader

\* The answer has the version of the command's first event.
WriteCarried(c) ==
    /\ AtLeader(c)
    /\ Carries(calls[c])
    /\ took' = Recorded(calls[c].req)
    /\ calls' = [calls EXCEPT ![c] = NoCall]
    /\ UNCHANGED <<leader, pids, seqs, targets, mishaps>>

\* There is no event and no version: the handler reads what to answer.
WriteReplayed(c) ==
    /\ AtLeader(c)
    /\ Replays(calls[c])
    /\ calls' = [calls EXCEPT ![c] =
          [pc |-> "answer", req |-> @.req, at |-> @.at, made |-> Done(c)]]
    /\ UNCHANGED <<vars, leader, pids, seqs, targets, took, mishaps>>

WriteRefused(c) ==
    /\ AtLeader(c)
    /\ ~Replays(calls[c]) /\ ~Accepts(calls[c])
    /\ calls' = [calls EXCEPT ![c] = NoCall]
    /\ UNCHANGED <<vars, leader, pids, seqs, targets, took, mishaps>>

Mishap == mishaps < MaxMishaps /\ mishaps' = mishaps + 1

\* The leader loses its role after it has replicated the entry and before it
\* answers: the write ends in a redirection although it is carried out.
WriteUnanswered(c) ==
    /\ Mishap
    /\ AtLeader(c)
    /\ Carries(calls[c])
    /\ took' = Recorded(calls[c].req)
    /\ calls' = [calls EXCEPT ![c].did = MadeVersion(calls[c].req)]
    /\ leader' \in Node \ {leader}
    /\ UNCHANGED <<pids, seqs, targets>>

\* ERR_LEADER_REDIRECT: the middleware sends the request to the leader, whose
\* handler starts from the beginning.
Forward(c) ==
    LET call == calls[c]
    IN  /\ Writing(c) /\ call.at # leader
        /\ Handle(c, call.req, leader, call.rev, call.seen, call.did)

\* No leader is known or it cannot be reached: the redirection is the answer.
ForwardFails(c) ==
    /\ Mishap
    /\ Writing(c) /\ calls[c].at # leader
    /\ calls' = [calls EXCEPT ![c] = NoCall]
    /\ UNCHANGED <<vars, leader, pids, seqs, targets, took>>

\* The version that is answered to a repetition.
AnsweredVersion(r) == branches[r.branch].active_version

Answer(c) ==
    /\ calls[c].pc = "answer"
    /\ calls' = [calls EXCEPT ![c] = NoCall]
    /\ UNCHANGED <<vars, leader, pids, seqs, targets, took, mishaps>>

-----------------------------------------------------------------------------
(* Nodes and the job that ends gray releases *)

ChangeLeader ==
    /\ Mishap
    /\ leader' \in Node \ {leader}
    /\ UNCHANGED <<vars, pids, seqs, calls, targets, took>>

\* The requests at a node that dies end with an error for their callers.  The
\* new process counts its request ids from 0 again.
Restart(n) ==
    LET at(c) == calls[c].pc \in {"write", "answer"} /\ calls[c].at = n
    IN  /\ Mishap
        /\ calls' = [c \in Caller |-> IF at(c) THEN NoCall ELSE calls[c]]
        /\ pids' = [pids EXCEPT ![n] =
              IF FreshPids THEN 1 + Cardinality(Node) + mishaps ELSE @]
        /\ seqs' = [seqs EXCEPT ![n] = 0]
        /\ targets' = [targets EXCEPT ![n] = {}]
        /\ leader' \in IF leader = n THEN Node \ {n} ELSE {leader}
        /\ UNCHANGED <<vars, took>>

\* Mutant: the job looks for branches that have a gray rule as well as a draft.
GrayBranchesEdited == {b \in Live : branches[b].gray_seq > 0 /\ drafts[b].groups # {}}

GrayBranches == {b \in Live : branches[b].gray_seq > 0}

JobScan(n) ==
    /\ Unhealthy
    /\ n = leader
    /\ targets[n] = {}
    /\ GrayBranches # {}
    /\ targets' = [targets EXCEPT ![n] = GrayBranches]
    /\ UNCHANGED <<vars, leader, pids, seqs, calls, took, mishaps>>

\* The write fails at a node that leads no more, and is refused when the gray
\* release has ended since.
JobAbort(n, b) ==
    /\ b \in targets[n]
    /\ targets' = [targets EXCEPT ![n] = @ \ {b}]
    /\ \/ n = leader /\ GrayAbort(b, JobId)
       \/ (n # leader \/ b \notin Live \/ ~GrayActive(b)) /\ UNCHANGED vars
    /\ UNCHANGED <<leader, pids, seqs, calls, took, mishaps>>

-----------------------------------------------------------------------------
\* Nodes are alike: which of them leads first and who has which pid is
\* arbitrary.
FirstPids ==
    CHOOSE p \in [Node -> 1..Cardinality(Node)] :
        IF FreshPids THEN IsInjective(p) ELSE \A n \in Node : p[n] = 1

RequestsInit ==
    /\ Init
    /\ leader = CHOOSE n \in Node : TRUE
    /\ pids = FirstPids
    /\ seqs = [n \in Node |-> 0]
    /\ calls = [c \in Caller |-> NoCall]
    /\ targets = [n \in Node |-> {}]
    /\ took = [bi \in Branch \X GivenId |-> None]
    /\ mishaps = 0

Job == \E n \in Node : JobScan(n) \/ \E b \in Branch : JobAbort(n, b)

CallStep(c) ==
    \/ \E b \in Branch : Open(c, b)
    \/ \E n \in Node, r \in Inputs : Request(c, n, r)
    \/ \E n \in Node, r \in Inputs : Save(c, n, r)
    \/ WriteCarried(c)
    \/ WriteReplayed(c)
    \/ WriteRefused(c)
    \/ WriteUnanswered(c)
    \/ Forward(c)
    \/ ForwardFails(c)
    \/ Answer(c)

\* Bound: no draft of a structure that MaxStructure keeps from being published.
StructureStep == structure.version < MaxStructure /\ StructureNext

RequestsNext ==
    \/ StructureStep /\ UNCHANGED callVars
    \/ \E c \in Caller : CallStep(c)
    \/ ChangeLeader
    \/ \E n \in Node : Restart(n)
    \/ Job

\* The job runs on a timer; requests come when they come.
RequestsSpec == RequestsInit /\ [][RequestsNext]_allVars /\ WF_allVars(Job)

-----------------------------------------------------------------------------
(* Properties *)

RequestsTypeOK ==
    /\ TypeOK
    /\ leader \in Node
    /\ \A n \in Node : pids[n] \in Nat /\ seqs[n] \in Nat /\ targets[n] \subseteq Branch
    /\ \A c \in Caller :
          calls[c].pc \in {"idle", "open", "write", "answer"}
    /\ \A bi \in DOMAIN took : took[bi] \in Nat \cup {None}
    /\ mishaps \in 0..MaxMishaps

\* A request that is answered as the repetition of one that was done was done:
\* no publication, rollback or end of a gray release is taken for another
\* request, whichever nodes made their ids.
AckedTookEffect == \A c \in Caller : calls[c].pc = "answer" => calls[c].made # None

\* The version that is answered to a repetition, read after the write when
\* other requests may have come in between, exists and is not older than the
\* one that the request made.
AnswerNotOlder ==
    \A c \in Caller :
        calls[c].pc = "answer" /\ calls[c].req.op \in VersionOps =>
            /\ AnsweredVersion(calls[c].req) \in DOMAIN published[calls[c].req.branch]
            /\ calls[c].made # None => AnsweredVersion(calls[c].req) >= calls[c].made

\* The command of caller c is carried out in this step.
Carried(c) ==
    /\ calls[c].pc = "write"
    /\ branches' # branches
    /\ calls'[c] # calls[c]

\* Whoever saves a draft with the revision of the page it was opened on
\* overwrites nothing that the page did not show, whatever was saved, deleted,
\* promoted, published or restructured since.  A page opened at revision 0 is
\* no exception: the code compares it like any other.
SavesOnSeen ==
    [][\A c \in Caller :
          Carried(c) /\ calls[c].req.op = "save" =>
            LET values == drafts[calls[c].req.branch].values
            IN  \A i \in DOMAIN values :
                    i \in DOMAIN calls[c].seen /\ calls[c].seen[i] = values[i]]_allVars

\* As long as the error rate stays high every gray release ends, through
\* changes of the leader and restarts in the middle of the job.
AutoRollbackEnds ==
    Unhealthy => \A b \in Branch :
        (b \in Live /\ GrayActive(b)) ~> ~(b \in Live /\ GrayActive(b))

\* What promote's comment says: values that the draft of the target has are
\* skipped unless forced.
PromoteKeepsEdits ==
    [][\A c \in Caller :
          Carried(c) /\ calls[c].req.op = "promote" =>
            LET values == drafts[calls[c].req.branch].values
            IN  \A i \in DOMAIN values : drafts'[calls[c].req.branch].values[i] = values[i]]_allVars
=============================================================================
