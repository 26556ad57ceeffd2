CONSTANTS
    alice = alice  Alice = Alice  admin = admin
    p = p  q = q  s1 = s1  NoSid = NoSid  t1 = t1  n1 = n1
    NoProject = NoProject  c1 = c1 c2 = c2
    Users <- UserNames  Super = admin  Fold <- FoldCase
    Projects = {p}  Under <- OwnKeysOnly
    Sids = {s1}  Tokens = {t1}  TokenNames = {n1}
    MaxPassword = 2  MaxSessions = 2  Clients = {c1, c2}  MaxFails = 1
    Guessed <- PeerGuesses
SPECIFICATION ApiSpec
INVARIANTS ApiTypeOK NamesExclusive SessionsOwned SessionsUnderPassword NoOrphans RootSessionsUnderPassword FailuresBounded
SYMMETRY Perms
