------------------------------- MODULE MCShared -------------------------------
(* Two branches and the shared library: cascades into both branches, items    *)
(* that change between local and referenced, branches that are copied and     *)
(* deleted.  The name of dev is a prefix of that of dev2 in NestedNames.cfg.  *)
EXTENDS ConfigState

CONSTANTS dev, dev2, r1

text == [ty |-> "string", datum |-> 1]
otherText == [ty |-> "string", datum |-> 3]
number == [ty |-> "int", datum |-> 2]

local == [ty |-> "string", required |-> FALSE, shared |-> FALSE]
referenced == [ty |-> "string", required |-> FALSE, shared |-> TRUE]

mcBranch == {dev, dev2}
mcInitBranch == {dev}
mcSeparateNames == {<<dev, dev>>, <<dev2, dev2>>}
mcNestedNames == mcSeparateNames \cup {<<dev, dev2>>}
mcItem == {1, 2}
mcGroupOf == [i \in mcItem |-> "g"]
mcTy == {"string", "int"}
mcValue == {text, otherText, number}
mcRequestId == {r1}
mcAllReferenced == {[i \in {1, 2} |-> referenced]}
mcMixed == mcAllReferenced \cup {[i \in {1, 2} |-> IF i = 1 THEN local ELSE referenced]}
mcSharedText == {[ty |-> "string", value |-> text]}

bind(bindings) == [updates |-> EmptyMap, deletes |-> {}, bindings |-> bindings]

mcMixedEdits ==
    {[updates |-> [i \in {1} |-> text], deletes |-> {}, bindings |-> EmptyMap],
     [updates |-> EmptyMap, deletes |-> {1}, bindings |-> [i \in {2} |-> None]],
     bind([i \in {2} |-> 1]), bind([i \in {1, 2} |-> i])}
=============================================================================
