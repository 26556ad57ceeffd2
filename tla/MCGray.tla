-------------------------------- MODULE MCGray --------------------------------
(* One branch with a gray release that is published, promoted, aborted and    *)
(* carried through structure publications, a secret that leaves the structure *)
(* and comes back, and one referenced item, so that cascades of the shared    *)
(* library meet the versions that gray releases leave.                        *)
EXTENDS ConfigState, TLC

CONSTANTS dev, r1, r2, rule

text == [ty |-> "string", datum |-> 1]
otherText == [ty |-> "string", datum |-> 2]
cipher == [ty |-> "secret", datum |-> 3]
otherCipher == [ty |-> "secret", datum |-> 4]

secret == [ty |-> "secret", required |-> FALSE, shared |-> FALSE]
referenced == [ty |-> "string", required |-> FALSE, shared |-> TRUE]

mcBranch == {dev}
mcNamePrefix == {<<dev, dev>>}
mcItem == {1, 2}
mcGroupOf == [i \in mcItem |-> "g"]
mcTy == {"string", "secret"}
mcValue == {text, otherText, cipher, otherCipher}
mcSharedKey == {1}
mcRequestId == {r1, r2}
mcSymmetry == Permutations(mcRequestId)
mcGrayRule == {rule}
mcStructureInputs == {[i \in {1, 2} |-> IF i = 1 THEN secret ELSE referenced],
                      [i \in {2} |-> referenced]}
mcSharedInputs == {[ty |-> "string", value |-> text]}
mcSharedTexts == mcSharedInputs \cup {[ty |-> "string", value |-> otherText]}

mcDraftInputs ==
    {[updates |-> [i \in {1} |-> cipher], deletes |-> {}, bindings |-> EmptyMap],
     [updates |-> [i \in {1} |-> otherCipher], deletes |-> {}, bindings |-> EmptyMap],
     [updates |-> EmptyMap, deletes |-> {}, bindings |-> [i \in {2} |-> 1]]}
=============================================================================
