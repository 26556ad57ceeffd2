---------------------------- MODULE RequestsProofs ----------------------------
(***************************************************************************)
(* Theorems about Requests, for any number of administrators, nodes and    *)
(* requests: every request reaches the state machine as one of its         *)
(* commands, a saved page overwrites nothing it did not show, and no       *)
(* request with an id that its client chose is taken for another one.      *)
(***************************************************************************)
EXTENDS Requests, ConfigStateProofs, FunctionTheorems

-----------------------------------------------------------------------------
(* Calls *)

\* A page that is kept open.
PageCalls == [pc : {"open"}, branch : Branch, rev : Nat, seen : Content]

\* A command on its way, with what the node saw before it sent it.
WriteCalls ==
    [pc : {"write"}, req : Inputs, at : Node, rev : Nat \cup {None}, seen : Content,
     did : Nat \cup {None}, rid : RequestId \cup {None}, edit : Edits \cup {None}]

\* An answer to give, and the version the command made, if any.
AnswerCalls ==
    [pc : {"answer"}, req : Inputs, at : Node, made : Nat \cup {None}]

\* A command has what its kind needs: an id, an edit, the revision of a page.
CommandOK(call) ==
    /\ call.req.op \in IdOps => call.rid \in RequestId
    /\ call.req.op \in {"save", "promote"} => call.edit \in Edits
    /\ call.req.op = "save" => call.rev \in Nat
    /\ call.req.op = "promote" => call.rev = None

\* A call is none, or one of these.
CallOK(call) ==
    \/ call = NoCall
    \/ call \in PageCalls
    \/ call \in WriteCalls /\ CommandOK(call)
    \/ call \in AnswerCalls

\* The variables of Requests are of their types.
CallsInv ==
    /\ leader \in Node
    /\ pids \in [Node -> Pid] /\ seqs \in [Node -> 0..MaxSeq]
    /\ targets \in [Node -> SUBSET Branch]
    /\ calls = [c \in Caller |-> calls[c]]
    /\ \A c \in Caller : CallOK(calls[c])
    /\ took \in [Branch \X GivenId -> Nat \cup {None}]
    /\ mishaps \in 0..MaxMishaps

-----------------------------------------------------------------------------
(* Pages *)

\* A draft that still has the revision rev has no value but those seen.
Shows(b, rev, seen) ==
    b \in Live =>
        /\ rev <= branches[b].draft_rev
        /\ rev = branches[b].draft_rev =>
              \A i \in DOMAIN drafts[b].values :
                  i \in DOMAIN seen /\ seen[i] = drafts[b].values[i]

\* What a page showed, or a command to save it was given.
Shown(call) ==
    /\ call.pc = "open" => Shows(call.branch, call.rev, call.seen)
    /\ call.pc = "write" /\ call.req.op = "save" =>
          Shows(call.req.branch, call.rev, call.seen)

\* The invariant behind SavesOnSeen.
PagesInv == \A c \in Caller : Shown(calls[c])

-----------------------------------------------------------------------------
(* Request ids *)

\* A command has the id that its client chose, or one that was drawn.
RidsInv ==
    \A c \in Caller :
        Writing(c) =>
            IF Draws(calls[c].req) THEN calls[c].rid \in DrawnId
            ELSE calls[c].rid = calls[c].req.given

\* The last request of a branch, when a client chose its id, was carried out
\* on that branch.
LastInv ==
    \A b \in Live :
        branches[b].last_request_id \in GivenId =>
            took[<<b, branches[b].last_request_id>>] # None

\* A request with an id that its client chose is answered as a repetition only
\* when a request with this id was carried out on the same branch, by the call
\* itself or by one it repeats.
GivenTookEffect ==
    \A c \in Caller :
        calls[c].pc = "answer" /\ calls[c].req.given # None => calls[c].made # None

\* The invariant behind GivenTookEffect.
IdsInv == RidsInv /\ LastInv /\ GivenTookEffect

-----------------------------------------------------------------------------
(* What a command does to the drafts and the last requests of branches *)

\* A draft changes with its revision, or it only loses values.
Counted(b) ==
    /\ branches'[b].draft_rev \in Nat
    /\ branches'[b].draft_rev >= branches[b].draft_rev
    /\ branches'[b].draft_rev = branches[b].draft_rev =>
          \A i \in DOMAIN drafts'[b].values :
              i \in DOMAIN drafts[b].values /\ drafts'[b].values[i] = drafts[b].values[i]

\* No branch comes into being, and b has the last request id.
BranchStep(b, id) ==
    b \in Live' =>
        b \in Live /\ Counted(b) /\ branches'[b].last_request_id = id

\* The id of the last request that b carried out.
LastId(b) == branches[b].last_request_id

\* A branch that a command leaves alone.
LEMMA UntouchedBranch ==
    ASSUME StateTypeOK, NEW b \in Branch, branches'[b] = branches[b], drafts'[b] = drafts[b]
    PROVE  BranchStep(b, LastId(b))
BY DEF BranchStep, LastId, Counted, Live, StateTypeOK, BranchState

\* A branch whose draft is kept or emptied while its revision stays.
LEMMA AnsweredBranch ==
    ASSUME StateTypeOK, NEW b \in Branch, NEW rid, b \in Live,
           branches'[b].draft_rev = branches[b].draft_rev,
           branches'[b].last_request_id = rid,
           drafts'[b] \in {drafts[b], EmptyDraft}
    PROVE  BranchStep(b, rid)
<1>1. branches[b].draft_rev \in Nat
  BY DEF StateTypeOK, Live, BranchState
<1>2. DOMAIN EmptyDraft.values = {}
  BY DEF EmptyDraft, EmptyMap
<1> QED
  BY <1>1, <1>2 DEF BranchStep, Counted

\* A command on one branch leaves the others alone.
OnlyBranch(b) ==
    \A c \in Branch \ {b} : branches'[c] = branches[c] /\ drafts'[c] = drafts[c]

\* The request rid becomes the last one of b, whose draft is kept or emptied.
MadeLast(b, rid) ==
    /\ \A c \in Branch \ {b} : branches'[c] = branches[c]
    /\ branches'[b].draft_rev = branches[b].draft_rev
    /\ branches'[b].last_request_id = rid
    /\ drafts' \in {drafts, [drafts EXCEPT ![b] = EmptyDraft]}

\* Publish, Rollback, GrayPublish, GrayPromote and GrayAbort make their request
\* the last one of their branch and keep its draft or empty it.
LEMMA RequestStep ==
    ASSUME HistoryInv, NEW b \in Branch, NEW rid,
           \/ \E policy \in Policies : Publish(b, rid, policy)
           \/ \E to \in Nat : Rollback(b, to, rid)
           \/ \E policy \in Policies, rule \in GrayRule : GrayPublish(b, rule, rid, policy)
           \/ GrayPromote(b, rid)
           \/ GrayAbort(b, rid)
    PROVE  OnlyBranch(b) /\ BranchStep(b, rid)
<1>1. StateTypeOK /\ ByBranch
  BY DEF HistoryInv, StateInv
<1>2. b \in Live
  BY DEF Publish, Publishable, Rollback, GrayPublish, GrayPromote, GrayAbort
<1>3. branches[b] \in BranchState /\ branches \in [Branch -> BranchState \cup {None}]
  BY <1>1, <1>2 DEF StateTypeOK, Live
<1>4. SUFFICES MadeLast(b, rid)
  BY <1>1, <1>2, AnsweredBranch DEF MadeLast, OnlyBranch, ByBranch
<1>5. ASSUME NEW policy \in Policies, Publish(b, rid, policy)
      PROVE  MadeLast(b, rid)
  BY <1>3, <1>5 DEF MadeLast, Publish, BranchState
<1>6. ASSUME NEW to \in Nat, Rollback(b, to, rid)
      PROVE  MadeLast(b, rid)
  BY <1>3, <1>6 DEF MadeLast, Rollback, BranchState
<1>7. ASSUME NEW policy \in Policies, NEW rule \in GrayRule, GrayPublish(b, rule, rid, policy)
      PROVE  MadeLast(b, rid)
  BY <1>3, <1>7 DEF MadeLast, GrayPublish, BranchState
<1>8. CASE GrayPromote(b, rid)
  BY <1>3, <1>8 DEF MadeLast, GrayPromote, GrayCleared, BranchState
<1>9. CASE GrayAbort(b, rid)
  BY <1>3, <1>9 DEF MadeLast, GrayAbort, GrayCleared, BranchState
<1> QED
  BY <1>5, <1>6, <1>7, <1>8, <1>9

\* DraftUpdate counts its edit and is no request.
LEMMA EditStep ==
    ASSUME HistoryInv, NEW b \in Branch, NEW edit, NEW expected,
           DraftUpdate(b, edit, expected)
    PROVE  OnlyBranch(b) /\ BranchStep(b, LastId(b))
<1>1. b \in Live /\ branches[b] \in BranchState
      /\ branches \in [Branch -> BranchState \cup {None}] /\ ByBranch
  BY DEF DraftUpdate, Live, HistoryInv, StateInv, StateTypeOK
<1>2. /\ \A c \in Branch \ {b} : branches'[c] = branches[c]
      /\ branches'[b].draft_rev = branches[b].draft_rev + 1
      /\ branches'[b].last_request_id = branches[b].last_request_id
  BY <1>1 DEF DraftUpdate, BranchState
<1>3. \A c \in Branch \ {b} : drafts'[c] = drafts[c]
  BY <1>1 DEF DraftUpdate, ByBranch
<1>4. branches[b].draft_rev \in Nat
  BY <1>1 DEF BranchState
<1> QED
  BY <1>1, <1>2, <1>3, <1>4 DEF OnlyBranch, BranchStep, Counted, LastId

\* A publication of the structure keeps the last requests, and its drafts only
\* lose values.
LEMMA StructureKeeps ==
    ASSUME HistoryInv, StructureStep, NEW b \in Branch
    PROVE  BranchStep(b, LastId(b))
<1>1. StateTypeOK /\ ByBranch
  BY DEF HistoryInv, StateInv
<1>2. ASSUME NEW defs \in StructureInputs, StructureDraftSet(structure.version, defs)
      PROVE  BranchStep(b, LastId(b))
  BY <1>1, <1>2, UntouchedBranch DEF StructureDraftSet
<1>3. CASE PublishStructure
  <2> SUFFICES ASSUME b \in Live'
               PROVE  b \in Live /\ Counted(b) /\ branches'[b].last_request_id = LastId(b)
    BY DEF BranchStep
  <2>1. b \in Live
    BY <1>3 DEF PublishStructure, Live
  <2>2. /\ branches'[b] = Restructured(branches[b], structDraft.defs)
        /\ drafts'[b] = RestructuredDraft(drafts[b], structDraft.defs)
    BY <1>3, <2>1 DEF PublishStructure
  <2>3. branches[b] \in BranchState
    BY <1>1, <2>1 DEF StateTypeOK, Live
  <2>4. /\ branches'[b].draft_rev = branches[b].draft_rev
        /\ branches'[b].last_request_id = branches[b].last_request_id
    BY <2>2, <2>3 DEF Restructured, BranchState
  <2>5. \A i \in DOMAIN drafts'[b].values :
           i \in DOMAIN drafts[b].values /\ drafts'[b].values[i] = drafts[b].values[i]
    BY <2>2 DEF RestructuredDraft
  <2>6. branches[b].draft_rev \in Nat
    BY <2>3 DEF BranchState
  <2> QED
    BY <2>1, <2>4, <2>5, <2>6 DEF Counted, LastId
<1> QED
  BY <1>2, <1>3 DEF StructureStep, StructureNext

-----------------------------------------------------------------------------
(* Requests reach the state machine as its commands *)

\* encrypt_secret_updates gives an edit of the same items.
LEMMA SealedType ==
    ASSUME NEW edit \in Edits
    PROVE  Sealed(edit) \in Edits
<1> DEFINE secret(i) == i \in DOMAIN structure.defs /\ structure.defs[i].ty = "secret"
           old == edit.updates
           new == [i \in DOMAIN old |->
                      IF secret(i) /\ old[i].ty = "string"
                      THEN [old[i] EXCEPT !.ty = "secret"] ELSE old[i]]
<1>1. old \in Content
  BY DEF Edits
<1>2. DOMAIN old \in SUBSET Item /\ \A i \in DOMAIN old : old[i] \in Value
  BY <1>1, PartialFcnElim DEF Content
<1>3. \A i \in DOMAIN old : [old[i] EXCEPT !.ty = "secret"] \in Value
  BY <1>2, RequestsAssumption
<1>4. new \in [DOMAIN old -> Value]
  BY <1>2, <1>3
<1>5. new \in Content
  BY <1>2, <1>4, PartialFcnIntro DEF Content
<1>6. Sealed(edit) = [edit EXCEPT !.updates = new]
  BY DEF Sealed
<1> HIDE DEF new
<1> QED
  BY <1>5, <1>6 DEF Edits

\* The values that promote takes make an edit.
LEMMA PromotedType ==
    ASSUME HistoryInv, NEW from, NEW to, Readable(from)
    PROVE  Promoted(from, to) \in Edits
<1> DEFINE content == ActiveContent(from)
           taken == DOMAIN content \ (SharedDefs(structure.defs) \cup DOMAIN drafts[to].values)
           updates == [i \in taken |-> content[i]]
<1>1. content \in Content
  BY ActiveRead DEF Readable
<1>2. updates \in Content
  <2> HIDE DEF content
  <2> QED
    BY <1>1, PartType DEF Content
<1>3. EmptyMap \in PartialFcn(Item, SharedKey \cup {None})
  BY EmptyMapType
<1>4. Promoted(from, to) = [updates |-> updates, deletes |-> {}, bindings |-> EmptyMap]
  BY DEF Promoted
<1> HIDE DEF updates
<1> QED
  BY <1>2, <1>3, <1>4 DEF Edits

\* A handler that reaches its write has a command of the kind it serves.
LEMMA PreparedType ==
    ASSUME HistoryInv, CallsInv, NEW r \in Inputs, NEW n \in Node,
           NEW rev \in Nat \cup {None}, NEW seen \in Content, NEW did \in Nat \cup {None},
           ~NoWrite(r), Draws(r) => seqs[n] < MaxSeq,
           r.op = "save" => rev \in Nat, r.op = "promote" => rev = None
    PROVE  /\ Prepared(r, n, rev, seen, did) \in WriteCalls
           /\ CommandOK(Prepared(r, n, rev, seen, did))
<1> DEFINE rid == IF Draws(r) THEN NewRequestId(n) ELSE r.given
           edit == CASE r.op = "save" -> Sealed(r.arg)
                     [] r.op = "promote" -> Sealed(Promoted(r.arg, r.branch))
                     [] OTHER -> None
<1>1. NewRequestId(n) \in DrawnId /\ DrawnId \subseteq RequestId
  BY RequestIdsAssumption DEF NewRequestId, CallsInv, DrawnId
<1>2. r.given \in GivenId \cup {None} /\ GivenId \subseteq RequestId
  BY RequestsAssumption
<1>3. rid \in RequestId \cup {None} /\ (r.op \in IdOps => rid \in RequestId)
  BY <1>1, <1>2 DEF Draws
<1>4. r.op = "save" => edit \in Edits
  BY SealedType, RequestsAssumption
<1>5. r.op = "promote" => edit \in Edits
  BY SealedType, PromotedType DEF NoWrite
<1>6. r.op \notin {"save", "promote"} => edit = None
  OBVIOUS
<1>7. Prepared(r, n, rev, seen, did) =
        [pc |-> "write", req |-> r, at |-> n, rev |-> rev, seen |-> seen, did |-> did,
         rid |-> rid, edit |-> edit]
  BY DEF Prepared
<1> HIDE DEF rid, edit
<1> QED
  BY <1>3, <1>4, <1>5, <1>6, <1>7 DEF WriteCalls, CommandOK

\* The command of a call is a step of the state machine.
LEMMA CarriesNext ==
    ASSUME HistoryInv, NEW call \in WriteCalls, CommandOK(call), Carries(call)
    PROVE  Next
<1> DEFINE r == call.req
           b == r.branch
<1>1. /\ r \in Inputs /\ b \in Branch
      /\ r.op \in IdOps => call.rid \in RequestId
      /\ PublishPolicy \in Policies
  BY RequestsAssumption DEF WriteCalls, CommandOK
<1>2. CASE r.op = "publish" /\ Publish(b, call.rid, PublishPolicy)
  BY <1>1, <1>2 DEF Next, BranchNext, IdOps, VersionOps
<1>3. CASE r.op = "rollback" /\ Rollback(b, r.arg, call.rid)
  <2>1. branches[b].active_version \in Nat /\ r.arg \in Nat /\ MaxVersion \in Nat
    BY <1>1, <1>3, RequestsAssumption, ConfigAssumption
       DEF Rollback, Live, HistoryInv, StateInv, StateTypeOK, BranchState
  <2>2. r.arg \in 1..MaxVersion
    BY <1>3, <2>1 DEF Rollback, WriteVersion
  <2> QED
    BY <1>1, <1>3, <2>2 DEF Next, BranchNext, IdOps, VersionOps
<1>4. CASE r.op = "grayPublish" /\ GrayPublish(b, r.arg, call.rid, PublishPolicy)
  BY <1>1, <1>4, RequestsAssumption DEF Next, BranchNext, IdOps
<1>5. CASE r.op = "grayPromote" /\ GrayPromote(b, call.rid)
  BY <1>1, <1>5 DEF Next, BranchNext, IdOps, VersionOps
<1>6. CASE r.op = "grayAbort" /\ GrayAbort(b, call.rid)
  BY <1>1, <1>6 DEF Next, BranchNext, IdOps
<1>7. CASE r.op \in {"save", "promote"} /\ DraftUpdate(b, call.edit, call.rev)
  <2>1. call.edit \in DraftInputs
    BY <1>7, RequestsAssumption DEF CommandOK
  <2>2. call.rev \in {None} \cup 0..MaxDraftRev
    <3>1. call.rev \in Nat \cup {None}
      BY DEF WriteCalls
    <3>2. call.rev = None \/ call.rev = branches[b].draft_rev
      BY <1>7 DEF DraftUpdate, LockHolds
    <3>3. branches[b].draft_rev < MaxDraftRev
      BY <1>7 DEF DraftUpdate
    <3>4. MaxDraftRev \in Nat
      BY ConfigAssumption
    <3> QED
      BY <3>1, <3>2, <3>3, <3>4
  <2> QED
    BY <1>1, <1>7, <2>1, <2>2 DEF Next, BranchNext
<1> QED
  BY <1>2, <1>3, <1>4, <1>5, <1>6, <1>7 DEF Carries

\* What the command of a call does to every branch.
LEMMA CarriesStep ==
    ASSUME HistoryInv, NEW call \in WriteCalls, Carries(call), NEW b \in Branch
    PROVE  BranchStep(b, IF call.req.op \in IdOps /\ b = call.req.branch
                         THEN call.rid ELSE LastId(b))
<1> DEFINE r == call.req
<1>1. /\ r.branch \in Branch
      /\ r.op = "rollback" => r.arg \in Nat
      /\ r.op = "grayPublish" => r.arg \in GrayRule
      /\ PublishPolicy \in Policies /\ StateTypeOK
  BY RequestsAssumption DEF WriteCalls, HistoryInv, StateInv
<1>2. CASE r.op \in IdOps
  <2>1. OnlyBranch(r.branch) /\ BranchStep(r.branch, call.rid)
    BY <1>1, <1>2, RequestStep DEF Carries, IdOps, VersionOps
  <2> QED
    BY <1>1, <1>2, <2>1, UntouchedBranch DEF OnlyBranch
<1>3. CASE r.op \notin IdOps
  <2>1. DraftUpdate(r.branch, call.edit, call.rev)
    BY <1>3 DEF Carries, IdOps, VersionOps
  <2>2. OnlyBranch(r.branch) /\ BranchStep(r.branch, LastId(r.branch))
    BY <1>1, <2>1, EditStep
  <2> QED
    BY <1>1, <1>3, <2>2, UntouchedBranch DEF OnlyBranch
<1> QED
  BY <1>2, <1>3

\* The version that a command makes is a number.
LEMMA MadeType ==
    ASSUME HistoryInv, NEW call \in WriteCalls, CommandOK(call), Carries(call)
    PROVE  MadeVersion(call.req) \in Nat
<1> DEFINE r == call.req
           b == r.branch
<1>1. b \in Branch /\ r.op \in {"publish", "rollback", "grayPromote"} => call.rid \in RequestId
  BY RequestsAssumption DEF WriteCalls, CommandOK, IdOps, VersionOps
<1>2. StateTypeOK /\ b \in Branch /\ PublishPolicy \in Policies
  BY RequestsAssumption DEF WriteCalls, HistoryInv, StateInv
<1>3. CASE r.op \notin VersionOps
  BY <1>3 DEF MadeVersion
<1>4. CASE r.op \in VersionOps
  <2>0. call.rid \in RequestId
    BY <1>4 DEF CommandOK, IdOps
  <2>1. \/ Publish(b, call.rid, PublishPolicy)
        \/ Rollback(b, r.arg, call.rid)
        \/ GrayPromote(b, call.rid)
    BY <1>4 DEF Carries, VersionOps
  <2>2. OneBranch(b)
    BY <1>2, <2>0, <2>1, PublishBranch, RollbackBranch, GrayPromoteBranch
  <2> QED
    BY <1>4, <2>2 DEF MadeVersion, OneBranch, BranchState
<1> QED
  BY <1>3, <1>4

\* A call is of the kind its pc tells.
LEMMA CallKind ==
    ASSUME CallsInv, NEW c \in Caller
    PROVE  /\ calls[c].pc = "open" => calls[c] \in PageCalls
           /\ calls[c].pc = "write" => calls[c] \in WriteCalls /\ CommandOK(calls[c])
           /\ calls[c].pc = "answer" => calls[c] \in AnswerCalls
BY DEF CallsInv, CallOK, NoCall, PageCalls, WriteCalls, AnswerCalls

\* One call that is replaced by another one.
LEMMA OneCall ==
    ASSUME CallsInv, NEW c \in Caller, NEW call, CallOK(call),
           calls' = [calls EXCEPT ![c] = call]
    PROVE  calls' = [d \in Caller |-> calls'[d]] /\ \A d \in Caller : CallOK(calls'[d])
<1> HIDE DEF CallOK
<1> QED
  BY DEF CallsInv

\* A handler that runs keeps the types.
LEMMA HandleType ==
    ASSUME HistoryInv, CallsInv,
           NEW c \in Caller, NEW r \in Inputs, NEW n \in Node,
           NEW rev \in Nat \cup {None}, NEW seen \in Content, NEW did \in Nat \cup {None},
           r.op = "save" => rev \in Nat, r.op = "promote" => rev = None,
           Handle(c, r, n, rev, seen, did)
    PROVE  CallsInv'
<1> DEFINE call == IF NoWrite(r) THEN NoCall ELSE Prepared(r, n, rev, seen, did)
<1>1. CallOK(call)
  BY PreparedType DEF CallOK, Handle
<1>2. calls' = [calls EXCEPT ![c] = call]
  BY DEF Handle
<1>3. calls' = [d \in Caller |-> calls'[d]] /\ \A d \in Caller : CallOK(calls'[d])
  <2> HIDE DEF call
  <2> QED
    BY <1>1, <1>2, OneCall
<1>4. Draws(r) => NextSeq(n) \in 0..MaxSeq
  <2>1. seqs[n] \in 0..MaxSeq
    BY DEF CallsInv
  <2>2. Draws(r) => seqs[n] < MaxSeq
    BY DEF Handle
  <2> QED
    BY <2>1, <2>2, RequestIdsAssumption DEF NextSeq
<1>5. Draws(r) => [seqs EXCEPT ![n] = NextSeq(n)] \in [Node -> 0..MaxSeq]
  BY <1>4 DEF CallsInv
<1>6. seqs' \in [Node -> 0..MaxSeq]
  BY <1>5 DEF CallsInv, Handle
<1> QED
  BY <1>3, <1>6 DEF CallsInv, Handle

\* A command whose call ends or goes on unanswered keeps the types.
LEMMA RecordedType ==
    ASSUME HistoryInv, CallsInv, NEW c \in Caller, AtLeader(c), Carries(calls[c]),
           took' = Recorded(calls[c].req)
    PROVE  took' \in [Branch \X GivenId -> Nat \cup {None}]
<1>1. calls[c] \in WriteCalls /\ CommandOK(calls[c])
  BY CallKind DEF AtLeader, Writing
<1>2. MadeVersion(calls[c].req) \in Nat
  BY <1>1, MadeType
<1> QED
  BY <1>2 DEF CallsInv, Recorded

\* Every step of a caller is a command of the state machine or leaves it alone,
\* and keeps the types.
LEMMA CallTypes ==
    ASSUME HistoryInv, CallsInv, NEW c \in Caller, CallStep(c)
    PROVE  [Next]_vars /\ CallsInv'
<1> DEFINE Goal == [Next]_vars /\ CallsInv'
<1>0. /\ calls[c].pc = "open" => calls[c] \in PageCalls
      /\ calls[c].pc = "write" => calls[c] \in WriteCalls /\ CommandOK(calls[c])
      /\ calls[c].pc = "answer" => calls[c] \in AnswerCalls
  BY CallKind
<1>1. ASSUME NEW call, CallOK(call), calls' = [calls EXCEPT ![c] = call],
             UNCHANGED <<vars, leader, pids, seqs, targets, took, mishaps>>
      PROVE  Goal
  <2>1. calls' = [d \in Caller |-> calls'[d]] /\ \A d \in Caller : CallOK(calls'[d])
    BY <1>1, OneCall
  <2> QED
    BY <1>1, <2>1 DEF CallsInv
<1>2. CallOK(NoCall)
  BY DEF CallOK
<1>3. ASSUME NEW b \in Branch, Open(c, b) PROVE Goal
  <2> DEFINE page == [pc |-> "open", branch |-> b, rev |-> branches[b].draft_rev,
                      seen |-> drafts[b].values]
  <2>1. branches[b].draft_rev \in Nat /\ drafts[b].values \in Content
    BY <1>3 DEF Open, Live, HistoryInv, StateInv, StateTypeOK, BranchState, BranchContents
  <2>2. CallOK(page)
    BY <2>1 DEF CallOK, PageCalls
  <2>3. calls' = [calls EXCEPT ![c] = page]
    BY <1>3 DEF Open
  <2> HIDE DEF page
  <2> QED
    BY <1>1, <1>3, <2>2, <2>3 DEF Open
<1>4. ASSUME NEW n \in Node, NEW r \in Inputs, Request(c, n, r) PROVE Goal
  <2>1. EmptyMap \in Content
    BY EmptyMapType DEF Content
  <2>2. Handle(c, r, n, None, EmptyMap, None) /\ r.op # "save"
    BY <1>4 DEF Request
  <2>3. CallsInv'
    BY <2>1, <2>2, HandleType
  <2> QED
    BY <2>2, <2>3 DEF Handle
<1>5. ASSUME NEW n \in Node, NEW r \in Inputs, Save(c, n, r) PROVE Goal
  <2>1. /\ Handle(c, r, n, calls[c].rev, calls[c].seen, None)
        /\ r.op = "save" /\ calls[c].rev \in Nat /\ calls[c].seen \in Content
    BY <1>0, <1>5 DEF Save, PageCalls
  <2>2. CallsInv'
    BY <2>1, HandleType
  <2> QED
    BY <2>1, <2>2 DEF Handle
<1>6. CASE Forward(c)
  <2>1. /\ calls[c] \in WriteCalls /\ CommandOK(calls[c]) /\ leader \in Node
        /\ Handle(c, calls[c].req, leader, calls[c].rev, calls[c].seen, calls[c].did)
    BY <1>0, <1>6 DEF Forward, Writing, CallsInv
  <2>2. /\ calls[c].req \in Inputs /\ calls[c].rev \in Nat \cup {None}
        /\ calls[c].seen \in Content /\ calls[c].did \in Nat \cup {None}
        /\ calls[c].req.op = "save" => calls[c].rev \in Nat
        /\ calls[c].req.op = "promote" => calls[c].rev = None
    BY <2>1 DEF WriteCalls, CommandOK
  <2>3. CallsInv'
    BY <2>1, <2>2, HandleType
  <2> QED
    BY <2>1, <2>3 DEF Handle
<1>7. CASE WriteReplayed(c)
  <2> DEFINE answer == [pc |-> "answer", req |-> calls[c].req, at |-> calls[c].at,
                        made |-> Done(c)]
  <2>1. calls[c] \in WriteCalls
    BY <1>0, <1>7 DEF WriteReplayed, AtLeader, Writing
  <2>2. calls[c].req.given \in GivenId \cup {None}
    BY <2>1, RequestsAssumption DEF WriteCalls
  <2>3. Done(c) \in Nat \cup {None}
    <3>1. calls[c].req.branch \in Branch /\ calls[c].did \in Nat \cup {None}
      BY <2>1, RequestsAssumption DEF WriteCalls
    <3> QED
      BY <2>2, <3>1 DEF Done, CallsInv
  <2>4. CallOK(answer)
    BY <2>1, <2>3 DEF CallOK, AnswerCalls, WriteCalls
  <2>5. calls' = [calls EXCEPT ![c] = answer]
    BY <1>7 DEF WriteReplayed
  <2> HIDE DEF answer
  <2> QED
    BY <1>1, <1>7, <2>4, <2>5 DEF WriteReplayed
<1>8. CASE WriteRefused(c)
  BY <1>1, <1>2, <1>8 DEF WriteRefused
<1>9. CASE Answer(c)
  BY <1>1, <1>2, <1>9 DEF Answer
<1>10. CASE WriteCarried(c)
  <2>1. /\ AtLeader(c) /\ Carries(calls[c]) /\ calls[c] \in WriteCalls /\ CommandOK(calls[c])
        /\ took' = Recorded(calls[c].req) /\ calls' = [calls EXCEPT ![c] = NoCall]
    BY <1>0, <1>10 DEF WriteCarried, AtLeader, Writing
  <2>2. Next /\ took' \in [Branch \X GivenId -> Nat \cup {None}]
    BY <2>1, CarriesNext, RecordedType
  <2>3. calls' = [d \in Caller |-> calls'[d]] /\ \A d \in Caller : CallOK(calls'[d])
    BY <1>2, <2>1, OneCall
  <2> QED
    BY <1>10, <2>2, <2>3 DEF CallsInv, WriteCarried
<1>11. CASE WriteUnanswered(c)
  <2> DEFINE call == [calls[c] EXCEPT !.did = MadeVersion(calls[c].req)]
  <2>1. /\ AtLeader(c) /\ Carries(calls[c]) /\ calls[c] \in WriteCalls /\ CommandOK(calls[c])
        /\ took' = Recorded(calls[c].req) /\ calls' = [calls EXCEPT ![c] = call]
    BY <1>0, <1>11 DEF WriteUnanswered, AtLeader, Writing, CallsInv
  <2>2. Next /\ took' \in [Branch \X GivenId -> Nat \cup {None}]
    BY <2>1, CarriesNext, RecordedType
  <2>3. MadeVersion(calls[c].req) \in Nat
    BY <2>1, MadeType
  <2>4. call \in WriteCalls /\ CommandOK(call)
    BY <2>1, <2>3 DEF WriteCalls, CommandOK
  <2>5. CallOK(call)
    BY <2>4 DEF CallOK
  <2>6. calls' = [d \in Caller |-> calls'[d]] /\ \A d \in Caller : CallOK(calls'[d])
    <3> HIDE DEF call
    <3> QED
      BY <2>1, <2>5, OneCall
  <2>7. leader' \in Node /\ mishaps' \in 0..MaxMishaps
    BY <1>11, RequestsAssumption DEF WriteUnanswered, Mishap, CallsInv
  <2> QED
    BY <1>11, <2>2, <2>6, <2>7 DEF CallsInv, WriteUnanswered
<1>12. CASE ForwardFails(c)
  <2>1. calls' = [d \in Caller |-> calls'[d]] /\ \A d \in Caller : CallOK(calls'[d])
    BY <1>2, <1>12, OneCall DEF ForwardFails
  <2>2. mishaps' \in 0..MaxMishaps
    BY <1>12, RequestsAssumption DEF ForwardFails, Mishap, CallsInv
  <2> QED
    BY <1>12, <2>1, <2>2 DEF CallsInv, ForwardFails
<1> QED
  BY <1>3, <1>4, <1>5, <1>6, <1>7, <1>8, <1>9, <1>10, <1>11, <1>12 DEF CallStep

\* Every step of the system is a command of the state machine or leaves it
\* alone, and keeps the types.
LEMMA RequestsStep ==
    ASSUME HistoryInv, CallsInv, [RequestsNext]_allVars
    PROVE  [Next]_vars /\ CallsInv'
<1>1. CASE UNCHANGED allVars
  BY <1>1 DEF allVars, callVars, CallsInv
<1>2. CASE StructureStep /\ UNCHANGED callVars
  BY <1>2 DEF StructureStep, callVars, CallsInv, Next
<1>3. ASSUME NEW c \in Caller, CallStep(c) PROVE [Next]_vars /\ CallsInv'
  BY <1>3, CallTypes
<1>4. CASE ChangeLeader
  <2>1. leader' \in Node /\ mishaps' \in 0..MaxMishaps
    BY <1>4, RequestsAssumption DEF ChangeLeader, Mishap, CallsInv
  <2> QED
    BY <1>4, <2>1 DEF ChangeLeader, CallsInv
<1>5. ASSUME NEW n \in Node, Restart(n) PROVE [Next]_vars /\ CallsInv'
  <2>1. mishaps' \in 0..MaxMishaps /\ mishaps \in Nat
    BY <1>5, RequestsAssumption DEF Restart, Mishap, CallsInv
  <2>2. Cardinality(Node) \in Nat
    BY RequestsAssumption, FS_CardinalityType
  <2>3. leader' \in Node
    BY <1>5 DEF Restart, CallsInv
  <2>4. pids' \in [Node -> Pid]
    <3>1. 1 + Cardinality(Node) + mishaps \in Pid
      BY <1>5, <2>1, <2>2, RequestsAssumption DEF Restart, Mishap, Pid
    <3> QED
      BY <1>5, <3>1 DEF Restart, CallsInv
  <2>5. seqs' \in [Node -> 0..MaxSeq] /\ targets' \in [Node -> SUBSET Branch]
    BY <1>5, RequestIdsAssumption DEF Restart, CallsInv
  <2>6. calls' = [d \in Caller |-> calls'[d]]
        /\ \A d \in Caller : calls'[d] \in {NoCall, calls[d]}
    BY <1>5 DEF Restart
  <2>7. \A d \in Caller : CallOK(calls'[d])
    BY <2>6 DEF CallOK, CallsInv
  <2> QED
    BY <1>5, <2>1, <2>3, <2>4, <2>5, <2>6, <2>7 DEF Restart, CallsInv
<1>6. ASSUME NEW n \in Node, JobScan(n) PROVE [Next]_vars /\ CallsInv'
  BY <1>6 DEF JobScan, CallsInv, GrayBranches, Live
<1>7. ASSUME NEW n \in Node, NEW b \in Branch, JobAbort(n, b) PROVE [Next]_vars /\ CallsInv'
  <2>1. targets' \in [Node -> SUBSET Branch]
    BY <1>7 DEF JobAbort, CallsInv
  <2>2. GrayAbort(b, JobId) \/ UNCHANGED vars
    BY <1>7 DEF JobAbort
  <2>3. [Next]_vars
    BY <2>2, RequestsAssumption DEF Next, BranchNext
  <2> QED
    BY <1>7, <2>1, <2>3 DEF JobAbort, CallsInv
<1> QED
  BY <1>1, <1>2, <1>3, <1>4, <1>5, <1>6, <1>7 DEF RequestsNext, Job

\* The first processes have pids of their own, unless all have the same.
LEMMA FirstPidsType ==
    FirstPids \in [Node -> 1..Cardinality(Node)]
<1> DEFINE Pids == [Node -> 1..Cardinality(Node)]
           Fit(p) == IF FreshPids THEN IsInjective(p) ELSE \A n \in Node : p[n] = 1
<1>1. /\ Cardinality(Node) \in Nat /\ Cardinality(Node) # 0
      /\ ExistsBijection(1..Cardinality(Node), Node)
  BY RequestsAssumption, FS_CardinalityType, FS_EmptySet
<1>2. CASE FreshPids
  <2>1. PICK p : p \in Bijection(Node, 1..Cardinality(Node))
    BY <1>1, Fun_ExistsBijSymmetric DEF ExistsBijection
  <2>2. p \in Pids /\ IsInjective(p)
    BY <2>1 DEF Bijection, Injection
  <2>3. \E q \in Pids : Fit(q)
    BY <1>2, <2>2
  <2> HIDE DEF Pids
  <2>4. FirstPids \in Pids /\ Fit(FirstPids)
    BY <2>3 DEF FirstPids, Pids
  <2> QED
    BY <1>2, <2>4 DEF Pids
<1>3. CASE ~FreshPids
  <2>1. [n \in Node |-> 1] \in Pids
    BY <1>1
  <2>2. \E q \in Pids : Fit(q)
    BY <1>3, <2>1
  <2> HIDE DEF Pids
  <2>3. FirstPids \in Pids
    BY <2>2 DEF FirstPids, Pids
  <2> QED
    BY <1>3, <2>3 DEF Pids
<1> QED
  BY <1>2, <1>3

\* Before the first request the variables of Requests are of their types.
LEMMA CallsInit ==
    ASSUME RequestsInit
    PROVE  HistoryInv /\ CallsInv
<1>1. HistoryInv
  BY HistoryInvInit DEF RequestsInit
<1>2. leader \in Node
  BY RequestsAssumption DEF RequestsInit
<1>3. Cardinality(Node) \in Nat
  BY RequestsAssumption, FS_CardinalityType
<1>4. pids \in [Node -> Pid]
  <2>1. 1..Cardinality(Node) \subseteq Pid
    BY <1>3, RequestsAssumption DEF Pid
  <2> QED
    BY <2>1, FirstPidsType DEF RequestsInit
<1>5. 0 \in 0..MaxMishaps /\ 0 \in 0..MaxSeq
  BY RequestsAssumption, RequestIdsAssumption
<1> QED
  BY <1>1, <1>2, <1>4, <1>5 DEF RequestsInit, CallsInv, CallOK

\* The handlers of the API, the middleware that forwards and the job write
\* nothing but commands of the state machine: what is proved about Spec holds
\* under every interleaving of requests, of leader changes and of restarts.
THEOREM RequestsImplementState ==
    RequestsSpec => Spec
<1>1. RequestsInit => HistoryInv /\ CallsInv /\ Init
  BY CallsInit DEF RequestsInit
<1>2. HistoryInv /\ CallsInv /\ [RequestsNext]_allVars =>
        [Next]_vars /\ HistoryInv' /\ CallsInv'
  BY RequestsStep, HistoryInvStep
<1> QED
  BY <1>1, <1>2, PTL DEF RequestsSpec, Spec

\* The state is of its type in every reachable state of the system.
THEOREM RequestsTypeCorrect ==
    RequestsSpec => []RequestsTypeOK
<1>1. RequestsInit => HistoryInv /\ CallsInv
  BY CallsInit
<1>2. HistoryInv /\ CallsInv /\ [RequestsNext]_allVars => HistoryInv' /\ CallsInv'
  BY RequestsStep, HistoryInvStep
<1>3. TypeOK /\ CallsInv => RequestsTypeOK
  <2> SUFFICES ASSUME TypeOK, CallsInv PROVE RequestsTypeOK
    OBVIOUS
  <2>1. \A c \in Caller : calls[c].pc \in {"idle", "open", "write", "answer"}
    BY DEF CallsInv, CallOK, NoCall, PageCalls, WriteCalls, AnswerCalls
  <2>2. \A n \in Node : pids[n] \in Nat /\ seqs[n] \in Nat /\ targets[n] \subseteq Branch
    <3>1. Pid \subseteq Nat /\ 0..MaxSeq \subseteq Nat
      BY RequestIdsAssumption DEF Pid
    <3> QED
      BY <3>1 DEF CallsInv
  <2> QED
    BY <2>1, <2>2 DEF RequestsTypeOK, CallsInv
<1> QED
  BY <1>1, <1>2, <1>3, RequestsImplementState, FullTypeCorrect, PTL DEF RequestsSpec

-----------------------------------------------------------------------------
(* Pages *)

\* A step that counts its edits keeps what a page shows.
LEMMA ShowsStep ==
    ASSUME HistoryInv, NEW b \in Branch, NEW id, BranchStep(b, id),
           NEW rev \in Nat, NEW seen, Shows(b, rev, seen)
    PROVE  Shows(b, rev, seen)'
<1> SUFFICES ASSUME b \in Live'
             PROVE  /\ rev <= branches'[b].draft_rev
                    /\ rev = branches'[b].draft_rev =>
                          \A i \in DOMAIN drafts'[b].values :
                              i \in DOMAIN seen /\ seen[i] = drafts'[b].values[i]
  BY DEF Shows
<1>1. b \in Live /\ Counted(b)
  BY DEF BranchStep
<1>2. branches[b].draft_rev \in Nat
  BY <1>1 DEF Live, HistoryInv, StateInv, StateTypeOK, BranchState
<1> QED
  BY <1>1, <1>2 DEF Counted, Shows

\* Every step of the system counts its edits on every branch.
LEMMA EveryBranchStep ==
    ASSUME HistoryInv, CallsInv, [RequestsNext]_allVars, NEW b \in Branch
    PROVE  \E id : BranchStep(b, id)
<1>0. StateTypeOK
  BY DEF HistoryInv, StateInv
<1>1. CASE UNCHANGED vars
  BY <1>0, <1>1, UntouchedBranch DEF vars
<1>2. CASE StructureStep
  BY <1>2, StructureKeeps
<1>3. ASSUME NEW c \in Caller, AtLeader(c), Carries(calls[c])
      PROVE  \E id : BranchStep(b, id)
  <2>1. calls[c] \in WriteCalls
    BY <1>3, CallKind DEF AtLeader, Writing
  <2> QED
    BY <1>3, <2>1, CarriesStep
<1>4. ASSUME NEW d \in Branch, GrayAbort(d, JobId)
      PROVE  \E id : BranchStep(b, id)
  BY <1>0, <1>4, RequestStep, UntouchedBranch DEF OnlyBranch
<1>5. \/ UNCHANGED vars \/ StructureStep
      \/ \E c \in Caller : AtLeader(c) /\ Carries(calls[c])
      \/ \E d \in Branch : GrayAbort(d, JobId)
  BY DEF RequestsNext, CallStep, Open, Request, Save, Handle, WriteCarried, WriteReplayed,
         WriteRefused, WriteUnanswered, Forward, ForwardFails, Answer, ChangeLeader, Restart,
         Job, JobScan, JobAbort, allVars
<1> QED
  BY <1>1, <1>2, <1>3, <1>4, <1>5

\* What a page showed is kept by the handlers on its way to the write.
LEMMA HandleShown ==
    ASSUME CallsInv, NEW c \in Caller, NEW r, NEW n, NEW rev, NEW seen, NEW did,
           Handle(c, r, n, rev, seen, did),
           r.op = "save" => Shows(r.branch, rev, seen)
    PROVE  Shown(calls'[c])
<1>1. calls'[c] \in {NoCall, Prepared(r, n, rev, seen, did)}
  BY DEF Handle, CallsInv
<1> QED
  BY <1>1 DEF Shown, NoCall, Prepared

\* Before its step is carried out, every call of the next state is of a page
\* that showed what its branch has.
LEMMA ShownKept ==
    ASSUME HistoryInv, CallsInv, PagesInv, [RequestsNext]_allVars,
           NEW d \in Caller
    PROVE  Shown(calls'[d])
<1>1. Shown(calls[d])
  BY DEF PagesInv
<1>2. ASSUME calls'[d] = calls[d] PROVE Shown(calls'[d])
  BY <1>1, <1>2
<1>3. ASSUME calls'[d] = NoCall PROVE Shown(calls'[d])
  BY <1>3 DEF Shown, NoCall
<1>4. ASSUME NEW b \in Branch, Open(d, b) PROVE Shown(calls'[d])
  <2>1. calls'[d] = [pc |-> "open", branch |-> b, rev |-> branches[b].draft_rev,
                     seen |-> drafts[b].values]
    BY <1>4 DEF Open, CallsInv
  <2>2. branches[b].draft_rev \in Nat
    BY <1>4 DEF Open, Live, HistoryInv, StateInv, StateTypeOK, BranchState
  <2> QED
    BY <2>1, <2>2 DEF Shown, Shows
<1>5. ASSUME NEW n \in Node, NEW r \in Inputs, Request(d, n, r) PROVE Shown(calls'[d])
  BY <1>5, HandleShown DEF Request
<1>6. ASSUME NEW n \in Node, NEW r \in Inputs, Save(d, n, r) PROVE Shown(calls'[d])
  BY <1>1, <1>6, HandleShown DEF Save, Shown
<1>7. CASE Forward(d)
  BY <1>1, <1>7, HandleShown DEF Forward, Writing, Shown
<1>8. CASE WriteUnanswered(d)
  <2>1. calls[d] \in WriteCalls /\ calls[d].pc = "write"
    BY <1>8, CallKind DEF WriteUnanswered, AtLeader, Writing
  <2>2. calls'[d] = [calls[d] EXCEPT !.did = MadeVersion(calls[d].req)]
    BY <1>8 DEF WriteUnanswered, CallsInv
  <2>3. /\ calls'[d].pc = "write" /\ calls'[d].req = calls[d].req
        /\ calls'[d].rev = calls[d].rev /\ calls'[d].seen = calls[d].seen
    BY <2>1, <2>2 DEF WriteCalls
  <2> QED
    BY <1>1, <2>1, <2>3 DEF Shown
<1>9. CASE WriteReplayed(d)
  <2>1. calls'[d].pc = "answer"
    BY <1>9 DEF WriteReplayed, CallsInv
  <2> QED
    BY <2>1 DEF Shown
<1>10. CASE WriteCarried(d) \/ WriteRefused(d) \/ ForwardFails(d) \/ Answer(d)
  <2>1. calls'[d] = NoCall
    BY <1>10 DEF WriteCarried, WriteRefused, ForwardFails, Answer, CallsInv
  <2> QED
    BY <2>1, <1>3
<1>11. CASE CallStep(d)
  BY <1>4, <1>5, <1>6, <1>7, <1>8, <1>9, <1>10, <1>11 DEF CallStep
<1>12. ASSUME NEW c \in Caller, c # d, CallStep(c) PROVE Shown(calls'[d])
  <2>1. calls'[d] = calls[d]
    BY <1>12 DEF CallStep, Open, Request, Save, Handle, WriteCarried, WriteReplayed,
         WriteRefused, WriteUnanswered, Forward, ForwardFails, Answer, CallsInv
  <2> QED
    BY <1>2, <2>1
<1>13. ASSUME NEW n \in Node, Restart(n) PROVE Shown(calls'[d])
  <2>1. calls'[d] \in {NoCall, calls[d]}
    BY <1>13 DEF Restart
  <2> QED
    BY <1>2, <1>3, <2>1
<1>14. ASSUME calls' = calls PROVE Shown(calls'[d])
  BY <1>2, <1>14
<1>15. \/ calls' = calls
       \/ \E c \in Caller : CallStep(c)
       \/ \E n \in Node : Restart(n)
  BY DEF RequestsNext, ChangeLeader, Job, JobScan, JobAbort, allVars, callVars
<1> QED
  BY <1>11, <1>12, <1>13, <1>14, <1>15

\* A command on the page of a caller keeps what the pages of others showed.
LEMMA PagesStep ==
    ASSUME HistoryInv, CallsInv, PagesInv, [RequestsNext]_allVars
    PROVE  PagesInv'
<1> SUFFICES ASSUME NEW d \in Caller
             PROVE  Shown(calls[d])'
  BY DEF PagesInv
<1>1. PICK call : call = calls'[d]
  OBVIOUS
<1>2. CallOK(call) /\ Shown(call)
  BY <1>1, ShownKept, RequestsStep DEF CallsInv
<1>3. ASSUME NEW b \in Branch, NEW rev \in Nat, NEW seen, Shows(b, rev, seen)
      PROVE  Shows(b, rev, seen)'
  BY <1>3, EveryBranchStep, ShowsStep
<1>4. /\ call.pc = "open" => /\ call.branch \in Branch /\ call.rev \in Nat
                             /\ Shows(call.branch, call.rev, call.seen)
      /\ call.pc = "write" /\ call.req.op = "save" =>
            /\ call.req.branch \in Branch /\ call.rev \in Nat
            /\ Shows(call.req.branch, call.rev, call.seen)
  BY <1>2, RequestsAssumption
     DEF CallOK, NoCall, PageCalls, WriteCalls, AnswerCalls, CommandOK, Shown
<1>5. /\ call.pc = "open" => Shows(call.branch, call.rev, call.seen)'
      /\ call.pc = "write" /\ call.req.op = "save" =>
            Shows(call.req.branch, call.rev, call.seen)'
  BY <1>3, <1>4
<1> QED
  BY <1>1, <1>5 DEF Shown, Shows

\* Whoever saves a page overwrites no value that the page did not show: the
\* revision that goes with the command tells every edit since, and publications
\* and changes of the structure only take values away.
THEOREM SavesAreSeen ==
    RequestsSpec => SavesOnSeen
<1> DEFINE Seen ==
              \A c \in Caller :
                  Carried(c) /\ calls[c].req.op = "save" =>
                      LET values == drafts[calls[c].req.branch].values
                      IN  \A i \in DOMAIN values :
                              i \in DOMAIN calls[c].seen /\ calls[c].seen[i] = values[i]
<1>1. RequestsInit => HistoryInv /\ CallsInv /\ PagesInv
  BY CallsInit DEF RequestsInit, PagesInv, Shown, NoCall
<1>2. HistoryInv /\ CallsInv /\ PagesInv /\ [RequestsNext]_allVars =>
        HistoryInv' /\ CallsInv' /\ PagesInv'
  BY RequestsStep, HistoryInvStep, PagesStep
<1>3. ASSUME HistoryInv, CallsInv, PagesInv, [RequestsNext]_allVars
      PROVE  Seen
  <2> SUFFICES ASSUME NEW c \in Caller, Carried(c), calls[c].req.op = "save",
                      NEW i \in DOMAIN drafts[calls[c].req.branch].values
               PROVE  /\ i \in DOMAIN calls[c].seen
                      /\ calls[c].seen[i] = drafts[calls[c].req.branch].values[i]
    OBVIOUS
  <2>1. calls[c].pc = "write" /\ branches' # branches /\ calls'[c] # calls[c]
    BY DEF Carried
  <2>2. Carries(calls[c])
    <3>0. ASSUME NEW d \in Caller, CallStep(d), ~WriteCarried(d), ~WriteUnanswered(d)
          PROVE  UNCHANGED vars
      BY <3>0 DEF CallStep, Open, Request, Save, Handle, WriteReplayed, WriteRefused,
             Forward, ForwardFails, Answer
    <3>1. \E d \in Caller : WriteCarried(d) \/ WriteUnanswered(d)
      BY <1>3, <2>1, <3>0
         DEF RequestsNext, ChangeLeader, Restart, Job, JobScan, JobAbort, callVars, allVars, vars
    <3>2. PICK d \in Caller : WriteCarried(d) \/ WriteUnanswered(d)
      BY <3>1
    <3>3. d = c
      BY <1>3, <2>1, <3>2 DEF WriteCarried, WriteUnanswered, CallsInv
    <3> QED
      BY <3>2, <3>3 DEF WriteCarried, WriteUnanswered
  <2>3. calls[c] \in WriteCalls /\ CommandOK(calls[c])
    BY <1>3, <2>1, CallKind
  <2>4. DraftUpdate(calls[c].req.branch, calls[c].edit, calls[c].rev)
    BY <2>2 DEF Carries
  <2>5. calls[c].req.branch \in Live /\ calls[c].rev = branches[calls[c].req.branch].draft_rev
    BY <2>3, <2>4, RequestsAssumption DEF DraftUpdate, LockHolds, CommandOK
  <2>6. Shows(calls[c].req.branch, calls[c].rev, calls[c].seen)
    BY <1>3, <2>1 DEF PagesInv, Shown
  <2> QED
    BY <2>5, <2>6 DEF Shows
<1>4. RequestsSpec => [][Seen]_allVars
  <2> HIDE DEF Seen
  <2> QED
    BY <1>1, <1>2, <1>3, PTL DEF RequestsSpec
<1> QED
  BY <1>4 DEF SavesOnSeen

-----------------------------------------------------------------------------
(* No request with a chosen id is taken for another one *)

\* A handler gives its call a drawn id or keeps the one that the client chose.
LEMMA HandleRid ==
    ASSUME CallsInv, NEW c \in Caller, NEW r, NEW n \in Node, NEW rev, NEW seen, NEW did,
           Handle(c, r, n, rev, seen, did)
    PROVE  Writing(c)' =>
               IF Draws(calls'[c].req) THEN calls'[c].rid \in DrawnId
               ELSE calls'[c].rid = calls'[c].req.given
<1>1. calls'[c] \in {NoCall, Prepared(r, n, rev, seen, did)}
  BY DEF Handle, CallsInv
<1>2. CASE calls'[c] = NoCall
  BY <1>2 DEF NoCall, Writing
<1>3. CASE calls'[c] = Prepared(r, n, rev, seen, did)
  <2>1. /\ calls'[c].req = r
        /\ calls'[c].rid = IF Draws(r) THEN NewRequestId(n) ELSE r.given
    BY <1>3 DEF Prepared
  <2>2. Draws(r) => NewRequestId(n) \in DrawnId
    BY DEF CallsInv, NewRequestId, DrawnId
  <2> QED
    BY <2>1, <2>2
<1> QED
  BY <1>1, <1>2, <1>3

\* The ids of commands stay drawn or chosen.
LEMMA RidsStep ==
    ASSUME CallsInv, RidsInv, [RequestsNext]_allVars
    PROVE  RidsInv'
<1> DEFINE Goal(d) ==
              Writing(d)' =>
                  IF Draws(calls'[d].req) THEN calls'[d].rid \in DrawnId
                  ELSE calls'[d].rid = calls'[d].req.given
<1> SUFFICES ASSUME NEW d \in Caller PROVE Goal(d)
  BY DEF RidsInv, Draws
<1>1. ASSUME calls'[d] = calls[d] PROVE Goal(d)
  BY <1>1 DEF Writing, RidsInv
<1>2. ASSUME calls'[d].pc # "write" PROVE Goal(d)
  BY <1>2 DEF Writing
<1>3. ASSUME NEW r, NEW n \in Node, NEW rev, NEW seen, NEW did,
             Handle(d, r, n, rev, seen, did)
      PROVE  Goal(d)
  BY <1>3, HandleRid
<1>4. CASE WriteUnanswered(d)
  <2>1. calls[d] \in WriteCalls /\ calls[d].pc = "write"
    BY <1>4, CallKind DEF WriteUnanswered, AtLeader, Writing
  <2>2. calls'[d] = [calls[d] EXCEPT !.did = MadeVersion(calls[d].req)]
    BY <1>4 DEF WriteUnanswered, CallsInv
  <2>3. calls'[d].req = calls[d].req /\ calls'[d].rid = calls[d].rid
    BY <2>1, <2>2 DEF WriteCalls
  <2> QED
    BY <2>1, <2>3 DEF Writing, RidsInv
<1>5. ASSUME CallStep(d) PROVE Goal(d)
  <2>1. leader \in Node
    BY DEF CallsInv
  <2>2. ASSUME NEW n \in Node, NEW r \in Inputs, Request(d, n, r) \/ Save(d, n, r)
        PROVE  Goal(d)
    BY <2>2, <1>3 DEF Request, Save
  <2>3. CASE Forward(d)
    BY <2>1, <2>3, <1>3 DEF Forward
  <2>4. ASSUME NEW b \in Branch, Open(d, b) PROVE Goal(d)
    BY <2>4, <1>2 DEF Open, CallsInv
  <2>5. CASE WriteReplayed(d)
    BY <2>5, <1>2 DEF WriteReplayed, CallsInv
  <2>6. CASE WriteCarried(d) \/ WriteRefused(d) \/ ForwardFails(d) \/ Answer(d)
    <3>1. calls'[d] = NoCall
      BY <2>6 DEF WriteCarried, WriteRefused, ForwardFails, Answer, CallsInv
    <3> QED
      BY <3>1, <1>2 DEF NoCall
  <2> QED
    BY <1>4, <1>5, <2>2, <2>3, <2>4, <2>5, <2>6 DEF CallStep
<1>6. ASSUME NEW c \in Caller, c # d, CallStep(c) PROVE Goal(d)
  <2>1. calls'[d] = calls[d]
    BY <1>6 DEF CallStep, Open, Request, Save, Handle, WriteCarried, WriteReplayed,
         WriteRefused, WriteUnanswered, Forward, ForwardFails, Answer, CallsInv
  <2> QED
    BY <1>1, <2>1
<1>7. ASSUME NEW n \in Node, Restart(n) PROVE Goal(d)
  <2>1. calls'[d] \in {NoCall, calls[d]}
    BY <1>7 DEF Restart
  <2> QED
    BY <1>1, <1>2, <2>1 DEF NoCall
<1>8. \/ calls' = calls
      \/ \E c \in Caller : CallStep(c)
      \/ \E n \in Node : Restart(n)
  BY DEF RequestsNext, ChangeLeader, Job, JobScan, JobAbort, allVars, callVars
<1> QED
  BY <1>1, <1>5, <1>6, <1>7, <1>8

\* The command of a call is carried out in this step.
Commits(c) == (WriteCarried(c) \/ WriteUnanswered(c)) /\ calls[c].req.op \in IdOps

\* A branch keeps its last request, or it is that of the job or of a call.
LEMMA LastCases ==
    ASSUME HistoryInv, CallsInv, [RequestsNext]_allVars, NEW b \in Branch
    PROVE  \/ BranchStep(b, LastId(b))
           \/ BranchStep(b, JobId)
           \/ \E c \in Caller :
                 Commits(c) /\ calls[c].req.branch = b /\ BranchStep(b, calls[c].rid)
<1>0. StateTypeOK
  BY DEF HistoryInv, StateInv
<1>1. CASE UNCHANGED vars
  BY <1>0, <1>1, UntouchedBranch DEF vars
<1>2. CASE StructureStep
  BY <1>2, StructureKeeps
<1>3. ASSUME NEW c \in Caller, WriteCarried(c) \/ WriteUnanswered(c)
      PROVE  \/ BranchStep(b, LastId(b))
             \/ Commits(c) /\ calls[c].req.branch = b /\ BranchStep(b, calls[c].rid)
  <2>1. calls[c] \in WriteCalls /\ Carries(calls[c])
    BY <1>3, CallKind DEF WriteCarried, WriteUnanswered, AtLeader, Writing
  <2> QED
    BY <1>3, <2>1, CarriesStep DEF Commits
<1>4. ASSUME NEW d \in Branch, GrayAbort(d, JobId)
      PROVE  BranchStep(b, LastId(b)) \/ BranchStep(b, JobId)
  BY <1>0, <1>4, RequestStep, UntouchedBranch DEF OnlyBranch
<1>5. \/ UNCHANGED vars \/ StructureStep
      \/ \E c \in Caller : WriteCarried(c) \/ WriteUnanswered(c)
      \/ \E d \in Branch : GrayAbort(d, JobId)
  BY DEF RequestsNext, CallStep, Open, Request, Save, Handle, WriteReplayed, WriteRefused,
         Forward, ForwardFails, Answer, ChangeLeader, Restart, Job, JobScan, JobAbort, allVars
<1> QED
  BY <1>1, <1>2, <1>3, <1>4, <1>5

\* What was done for an id stays done, and the id of a command that is carried
\* out gets its version.
LEMMA TookStep ==
    ASSUME HistoryInv, CallsInv, [RequestsNext]_allVars
    PROVE  /\ \A b \in Branch, i \in GivenId : took[<<b, i>>] # None => took'[<<b, i>>] # None
           /\ \A c \in Caller :
                 Commits(c) /\ calls[c].req.given \in GivenId =>
                     took'[<<calls[c].req.branch, calls[c].req.given>>] # None
<1> DEFINE Kept == \A b \in Branch, i \in GivenId : took[<<b, i>>] # None => took'[<<b, i>>] # None
<1>1. ASSUME NEW c \in Caller, WriteCarried(c) \/ WriteUnanswered(c)
      PROVE  /\ Kept
             /\ calls[c].req.given \in GivenId =>
                   took'[<<calls[c].req.branch, calls[c].req.given>>] # None
  <2>1. /\ calls[c] \in WriteCalls /\ CommandOK(calls[c]) /\ Carries(calls[c])
        /\ took' = Recorded(calls[c].req)
    BY <1>1, CallKind DEF WriteCarried, WriteUnanswered, AtLeader, Writing
  <2>2. MadeVersion(calls[c].req) # None
    BY <2>1, MadeType, RequestsAssumption
  <2>3. /\ calls[c].req.given \in GivenId \cup {None} /\ None \notin GivenId
        /\ calls[c].req.branch \in Branch
    BY <2>1, RequestsAssumption DEF WriteCalls
  <2>4. took' = IF calls[c].req.given = None THEN took
                ELSE [took EXCEPT ![<<calls[c].req.branch, calls[c].req.given>>] =
                                       MadeVersion(calls[c].req)]
    BY <2>1 DEF Recorded
  <2>5. took \in [Branch \X GivenId -> Nat \cup {None}]
    BY DEF CallsInv
  <2> QED
    BY <2>2, <2>3, <2>4, <2>5
<1>2. took' = took \/ \E c \in Caller : WriteCarried(c) \/ WriteUnanswered(c)
  BY DEF RequestsNext, CallStep, Open, Request, Save, Handle, WriteReplayed, WriteRefused,
         Forward, ForwardFails, Answer, ChangeLeader, Restart, Job, JobScan, JobAbort,
         allVars, callVars
<1> QED
  BY <1>1, <1>2 DEF Commits

\* The last requests of branches were carried out on them.
LEMMA LastStep ==
    ASSUME HistoryInv, CallsInv, RidsInv, LastInv, [RequestsNext]_allVars
    PROVE  LastInv'
<1> SUFFICES ASSUME NEW b \in Branch, b \in Live', branches'[b].last_request_id \in GivenId
             PROVE  took'[<<b, branches'[b].last_request_id>>] # None
  BY DEF LastInv, Live
<1>1. CASE BranchStep(b, LastId(b))
  BY <1>1, TookStep DEF BranchStep, LastId, LastInv
<1>2. CASE BranchStep(b, JobId)
  BY <1>2, RequestsAssumption DEF BranchStep
<1>3. ASSUME NEW c \in Caller, Commits(c), calls[c].req.branch = b,
             BranchStep(b, calls[c].rid)
      PROVE  took'[<<b, branches'[b].last_request_id>>] # None
  <2>1. Writing(c) /\ branches'[b].last_request_id = calls[c].rid
    BY <1>3 DEF BranchStep, Commits, WriteCarried, WriteUnanswered, AtLeader
  <2>2. calls[c].rid \notin DrawnId
    BY <2>1, RequestIdsAssumption
  <2>3. calls[c].rid = calls[c].req.given
    BY <2>1, <2>2 DEF RidsInv
  <2> QED
    BY <1>3, <2>1, <2>3, TookStep
<1> QED
  BY <1>1, <1>2, <1>3, LastCases

\* A request with a chosen id that is answered as a repetition was done.
LEMMA AnsweredStep ==
    ASSUME HistoryInv, CallsInv, RidsInv, LastInv, GivenTookEffect, [RequestsNext]_allVars
    PROVE  GivenTookEffect'
<1> SUFFICES ASSUME NEW d \in Caller, calls'[d].pc = "answer", calls'[d].req.given # None
             PROVE  calls'[d].made # None
  BY DEF GivenTookEffect
<1>1. CASE calls'[d] = calls[d]
  BY <1>1 DEF GivenTookEffect
<1>2. CASE WriteReplayed(d)
  <2> DEFINE r == calls[d].req
             last == branches[r.branch].last_request_id
  <2>1. /\ calls[d] \in WriteCalls /\ Writing(d)
        /\ r.op \in IdOps /\ r.branch \in Live /\ last = calls[d].rid
    BY <1>2, CallKind DEF WriteReplayed, AtLeader, Writing, Replays
  <2>2. calls'[d].req = r /\ calls'[d].made = Done(d)
    BY <1>2 DEF WriteReplayed, CallsInv
  <2>3. r.given \in GivenId /\ last = r.given
    BY <2>1, <2>2, RequestsAssumption DEF WriteCalls, RidsInv, Draws
  <2> QED
    BY <2>1, <2>2, <2>3 DEF LastInv, Done
<1>3. calls'[d] = calls[d] \/ calls'[d].pc # "answer" \/ WriteReplayed(d)
  <2>1. ASSUME NEW c \in Caller, CallStep(c), c # d PROVE calls'[d] = calls[d]
    BY <2>1 DEF CallStep, Open, Request, Save, Handle, WriteCarried, WriteReplayed,
         WriteRefused, WriteUnanswered, Forward, ForwardFails, Answer, CallsInv
  <2>2. ASSUME CallStep(d), ~WriteReplayed(d) PROVE calls'[d].pc # "answer"
    <3>1. ASSUME NEW r, NEW n, NEW rev, NEW seen, NEW did, Handle(d, r, n, rev, seen, did)
          PROVE  calls'[d].pc # "answer"
      BY <3>1 DEF Handle, Prepared, NoCall, CallsInv
    <3>2. CASE WriteUnanswered(d)
      <4>1. calls[d] \in WriteCalls
        BY <3>2, CallKind DEF WriteUnanswered, AtLeader, Writing
      <4>2. calls'[d] = [calls[d] EXCEPT !.did = MadeVersion(calls[d].req)]
        BY <3>2 DEF WriteUnanswered, CallsInv
      <4> QED
        BY <4>1, <4>2 DEF WriteCalls
    <3>3. CASE WriteCarried(d) \/ WriteRefused(d) \/ ForwardFails(d) \/ Answer(d)
      BY <3>3 DEF WriteCarried, WriteRefused, ForwardFails, Answer, NoCall, CallsInv
    <3>4. ASSUME NEW b \in Branch, Open(d, b) PROVE calls'[d].pc # "answer"
      BY <3>4 DEF Open, CallsInv
    <3> QED
      BY <2>2, <3>1, <3>2, <3>3, <3>4 DEF CallStep, Request, Save, Forward
  <2>3. ASSUME NEW n \in Node, Restart(n)
        PROVE  calls'[d] = calls[d] \/ calls'[d].pc # "answer"
    BY <2>3 DEF Restart, NoCall
  <2>4. \/ calls' = calls
        \/ \E c \in Caller : CallStep(c)
        \/ \E n \in Node : Restart(n)
    BY DEF RequestsNext, ChangeLeader, Job, JobScan, JobAbort, allVars, callVars
  <2> QED
    BY <2>1, <2>2, <2>3, <2>4
<1> QED
  BY <1>1, <1>2, <1>3

\* Nothing was asked yet.
LEMMA IdsInit ==
    ASSUME RequestsInit
    PROVE  IdsInv
<1>1. \A c \in Caller : ~Writing(c) /\ calls[c].pc # "answer"
  BY DEF RequestsInit, Writing, NoCall
<1>2. \A b \in Live : branches[b].last_request_id = None
  BY DEF RequestsInit, Init, Live, NewBranchState
<1>3. None \notin GivenId
  BY RequestsAssumption
<1> QED
  BY <1>1, <1>2, <1>3 DEF IdsInv, RidsInv, LastInv, GivenTookEffect

\* Whatever pids the processes have, no publication, rollback or end of a gray
\* release that its client gave an id is answered as the repetition of another
\* request: an answer without a new version means that a request with this id
\* was carried out on the branch, whatever was forwarded, repeated or cut off
\* by a restart on the way.
THEOREM RepetitionsAreOwn ==
    RequestsSpec => []GivenTookEffect
<1>1. RequestsInit => HistoryInv /\ CallsInv /\ IdsInv
  BY CallsInit, IdsInit
<1>2. HistoryInv /\ CallsInv /\ IdsInv /\ [RequestsNext]_allVars =>
        HistoryInv' /\ CallsInv' /\ IdsInv'
  BY RequestsStep, HistoryInvStep, RidsStep, LastStep, AnsweredStep DEF IdsInv
<1>3. IdsInv => GivenTookEffect
  BY DEF IdsInv
<1> QED
  BY <1>1, <1>2, <1>3, PTL DEF RequestsSpec

=============================================================================
