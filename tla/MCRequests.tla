------------------------------ MODULE MCRequests ------------------------------
(* Two administrators and two nodes; one branch with a secret item that is    *)
(* edited, published, rolled back and gray released, and whose published      *)
(* value is promoted into its own draft.                                      *)
EXTENDS Requests

CONSTANTS dev, n1, n2, a1, a2, rule, g1, job

text(n) == [ty |-> "string", datum |-> n]

local(ty) == [ty |-> ty, required |-> FALSE, shared |-> FALSE]

mcBranch == {dev}
mcNamePrefix == {<<dev, dev>>}
mcItem == {1}
mcGroupOf == [i \in mcItem |-> "g"]
mcTy == {"string", "secret"}
mcValue == [ty : mcTy, datum : {1, 2}]
mcRequestId == {g1, job} \cup {<<p, s>> : p \in 1..6, s \in 0..9}
mcStructureInputs == {[i \in {1} |-> local("secret")]}

clear == [updates |-> EmptyMap, deletes |-> {1}, bindings |-> EmptyMap]
edit(n) == [updates |-> [i \in {1} |-> text(n)], deletes |-> {}, bindings |-> EmptyMap]
mcDraftInputs == Edits
mcTwoEdits == {edit(1), edit(2)}

request(op, b, given, arg) == [op |-> op, branch |-> b, given |-> given, arg |-> arg]

mcInputs ==
    {request("publish", dev, g1, None),
     request("rollback", dev, None, 1),
     request("grayPublish", dev, None, rule), request("grayPromote", dev, None, None),
     request("grayAbort", dev, None, None),
     request("promote", dev, None, dev)}
        \cup {request("save", dev, None, e) : e \in {edit(1), clear}}

\* Two values, to tell an edit from what promote writes over it.
mcPromoteInputs ==
    {request("publish", dev, None, None), request("promote", dev, None, dev)}
        \cup {request("save", dev, None, e) : e \in mcTwoEdits}
=============================================================================
