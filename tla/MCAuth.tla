------------------------------- MODULE MCAuth -------------------------------
(* AuthApi on two names that differ in case and the reserved one.            *)
EXTENDS AuthApi, TLC
CONSTANTS alice, Alice, admin, p, q, s1, t1, n1, c1, c2

UserNames == {alice, Alice, admin}
FoldCase == [u \in UserNames |-> IF u = Alice THEN alice ELSE u]
OwnKeysOnly == [r \in Projects |-> {r}]
PeerGuesses == {PeerKey}
NestedKeys == [r \in Projects |-> IF r = p THEN {p, q} ELSE {r}]
Perms == Permutations(Clients) \cup Permutations({alice, Alice}) \cup Permutations(Projects)
=============================================================================
