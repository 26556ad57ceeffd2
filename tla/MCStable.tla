------------------------------- MODULE MCStable -------------------------------
(* One branch that publishes, rolls back and is pruned, without gray release: *)
(* a required text item and an optional secret.                               *)
EXTENDS ConfigState, TLC

CONSTANTS dev, r1, r2

text == [ty |-> "string", datum |-> 1]
otherText == [ty |-> "string", datum |-> 2]
cipher == [ty |-> "secret", datum |-> 3]

def(ty, required) == [ty |-> ty, required |-> required, shared |-> FALSE]

mcBranch == {dev}
mcNamePrefix == {<<dev, dev>>}
mcItem == {1, 2}
mcGroupOf == [i \in mcItem |-> "g"]
mcTy == {"string", "secret"}
mcValue == {text, otherText, cipher}
mcRequestId == {r1, r2}
mcSymmetry == Permutations(mcRequestId)
mcStructureInputs == {[i \in {1, 2} |-> IF i = 1 THEN def("string", TRUE) ELSE def("secret", FALSE)]}

edit(updates, deletes) == [updates |-> updates, deletes |-> deletes, bindings |-> EmptyMap]

mcDraftInputs ==
    {edit([i \in {1} |-> text], {}), edit([i \in {1} |-> otherText], {}),
     edit([i \in {2} |-> cipher], {}), edit(EmptyMap, {1})}
=============================================================================
