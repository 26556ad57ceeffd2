---------------------------- MODULE AuthApiProofs ----------------------------
(***************************************************************************)
(* Theorems about Accounts and AuthApi, for every set of users, projects,  *)
(* sessions and tokens and any way of folding names: the commands keep     *)
(* names exclusive and sessions owned, the handlers of AuthApi implement   *)
(* the commands, and what they promise holds for any number of requests    *)
(* at a time.                                                              *)
(***************************************************************************)
EXTENDS AuthApi, FiniteSetTheorems, TLAPS

-----------------------------------------------------------------------------
(* The commands of Accounts *)

\* A command on sessions changes nothing else.
SessionStep ==
    /\ UNCHANGED <<projects, rootPassword, pas, gas, tokens, lastPassword>>
    /\ \A s \in sessions' :
        \/ \E r \in sessions :
            r.kind = s.kind /\ r.user = s.user /\ r.project = s.project /\ r.since = s.since
        \/ s.since \in PasswordsOf(s.kind, s.user) /\ s.project \in ProjectsOf(s.kind, s.user)

-----------------------------------------------------------------------------
(* Type correctness *)

\* Passwords are among those that were set.
LEMMA PasswordsOfType ==
    ASSUME TypeOK, NEW k \in Kinds, NEW u \in Users
    PROVE  PasswordsOf(k, u) \subseteq Passwords
BY DEF TypeOK, PasswordsOf, PaNamed, GaNamed, Kinds, PaAccounts, GaAccounts

\* The principal of a session has a project of its account or none.
LEMMA ProjectsOfType ==
    ASSUME TypeOK, NEW k \in Kinds, NEW u \in Users
    PROVE  ProjectsOf(k, u) \subseteq Projects \cup {NoProject}
BY DEF TypeOK, ProjectsOf, PaNamed, PaAccounts

\* A new password has the next number.
LEMMA NewPasswordType ==
    ASSUME TypeOK, NewPassword
    PROVE  lastPassword + 1 \in Passwords /\ lastPassword' = lastPassword + 1
BY BoundsAssumption DEF TypeOK, NewPassword, Passwords

\* Sessions that a login writes are sessions.
LEMMA WriteSessionType ==
    ASSUME TypeOK, NEW k \in Kinds, NEW u \in Users, NEW sid \in Sids \cup {NoSid},
           NEW q \in Passwords, WriteSession(k, u, sid, q)
    PROVE  sessions' \subseteq Sessions
<1>1. PICK since \in PasswordsOf(k, u) :
        sessions' = (sessions \ SessionsAt(k, u, sid)) \cup Opened(k, u, sid, q, since)
  BY DEF WriteSession
<1>2. since \in Passwords
  BY <1>1, PasswordsOfType
<1>3. Opened(k, u, sid, q, since) \subseteq Sessions
  <2> SUFFICES ASSUME NEW r \in ProjectsOf(k, u)
               PROVE  [kind |-> k, user |-> u, sid |-> sid, project |-> r, proved |-> q,
                       since |-> since, live |-> TRUE] \in Sessions
    BY DEF Opened
  <2>1. r \in Projects \cup {NoProject}
    BY ProjectsOfType
  <2> QED
    BY <1>2, <2>1 DEF Sessions
<1> QED
  BY <1>1, <1>3 DEF TypeOK

\* Every command on sessions keeps them sessions.
LEMMA SessionTypes ==
    ASSUME TypeOK, SessionCommand \/ GlobalAdminSessionsRevokeAll \/ \E s \in sessions : Expire(s)
    PROVE  sessions' \subseteq Sessions
<1>1. CASE SessionCommand
  <2>1. PICK k \in Kinds, u \in Users :
          \/ \E sid \in Sids, q \in Passwords : SessionLogin(k, u, sid, q)
          \/ \E q \in Passwords : LegacyLogin(k, u, q)
          \/ \E sid \in Sids \cup {NoSid} : SessionHeartbeat(k, u, sid) \/ SessionLogout(k, u, sid)
          \/ SessionLogoutAll(k, u)
    BY <1>1 DEF SessionCommand
  <2>2. CASE \E sid \in Sids, q \in Passwords : SessionLogin(k, u, sid, q)
    BY <2>2, WriteSessionType DEF SessionLogin
  <2>3. CASE \E q \in Passwords : LegacyLogin(k, u, q)
    BY <2>3, WriteSessionType DEF LegacyLogin
  <2>4. CASE \E sid \in Sids \cup {NoSid} : SessionHeartbeat(k, u, sid)
    <3>1. PICK sid \in Sids \cup {NoSid} : SessionHeartbeat(k, u, sid)
      BY <2>4
    <3>2. \A s \in Sessions : [s EXCEPT !.live = TRUE] \in Sessions
      BY DEF Sessions
    <3>3. SessionsAt(k, u, sid) \subseteq Sessions
      BY DEF SessionsAt, SessionsOf, TypeOK
    <3> QED
      BY <3>1, <3>2, <3>3 DEF SessionHeartbeat, TypeOK
  <2>5. CASE \E sid \in Sids \cup {NoSid} : SessionLogout(k, u, sid)
    BY <2>5 DEF SessionLogout, DropSessions, TypeOK
  <2>6. CASE SessionLogoutAll(k, u)
    BY <2>6 DEF SessionLogoutAll, DropSessions, TypeOK
  <2> QED
    BY <2>1, <2>2, <2>3, <2>4, <2>5, <2>6
<1>2. CASE GlobalAdminSessionsRevokeAll
  BY <1>2 DEF GlobalAdminSessionsRevokeAll, DropSessions, TypeOK
<1>3. CASE \E s \in sessions : Expire(s)
  <2>1. PICK s \in sessions : Expire(s)
    BY <1>3
  <2>2. [s EXCEPT !.live = FALSE] \in Sessions
    BY DEF Sessions, TypeOK
  <2> QED
    BY <2>1, <2>2 DEF Expire, TypeOK
<1> QED
  BY <1>1, <1>2, <1>3

\* Every command on projects, accounts and tokens keeps the types.
LEMMA AccountTypes ==
    ASSUME TypeOK, AccountCommand
    PROVE  TypeOK'
<1>1. ASSUME NEW p \in Projects, ProjectCreate(p) \/ ProjectDelete(p)
      PROVE  TypeOK'
  BY <1>1 DEF ProjectCreate, ProjectDelete, TypeOK
<1>2. ASSUME NEW u \in Users, NEW p \in Projects, ProjectAdminCreate(p, u)
      PROVE  TypeOK'
  BY <1>2, NewPasswordType DEF ProjectAdminCreate, TypeOK, PaAccounts
<1>3. ASSUME NEW u \in Users, ProjectAdminDelete(u) \/ GlobalAdminDelete(u)
      PROVE  TypeOK'
  BY <1>3 DEF ProjectAdminDelete, GlobalAdminDelete, TypeOK
<1>4. ASSUME NEW u \in Users, ProjectAdminSetPassword(u)
      PROVE  TypeOK'
  <2>1. lastPassword + 1 \in Passwords /\ lastPassword' = lastPassword + 1
    BY <1>4, NewPasswordType DEF ProjectAdminSetPassword
  <2>2. \A a \in PaAccounts : [a EXCEPT !.pw = lastPassword + 1] \in PaAccounts
    BY <2>1 DEF PaAccounts
  <2> QED
    BY <1>4, <2>1, <2>2 DEF ProjectAdminSetPassword, PaNamed, TypeOK
<1>5. ASSUME NEW u \in Users, GlobalAdminCreate(u)
      PROVE  TypeOK'
  BY <1>5, NewPasswordType DEF GlobalAdminCreate, TypeOK, GaAccounts
<1>6. ASSUME NEW u \in Users, GlobalAdminSetPassword(u)
      PROVE  TypeOK'
  <2>1. lastPassword + 1 \in Passwords /\ lastPassword' = lastPassword + 1
    BY <1>6, NewPasswordType DEF GlobalAdminSetPassword
  <2>2. \A a \in GaAccounts : [a EXCEPT !.pw = lastPassword + 1] \in GaAccounts
    BY <2>1 DEF GaAccounts
  <2> QED
    BY <1>6, <2>1, <2>2 DEF GlobalAdminSetPassword, GaNamed, TypeOK
<1>7. ASSUME NEW p \in Projects, NEW t \in Tokens, ProjectTokenRevoke(p, t)
      PROVE  TypeOK'
  <2>1. \A r \in TokenRecords : [r EXCEPT !.revoked = TRUE] \in TokenRecords
    BY DEF TokenRecords
  <2> QED
    BY <1>7, <2>1 DEF ProjectTokenRevoke, TypeOK
<1>8. ASSUME NEW p \in Projects, NEW t \in Tokens, NEW n \in TokenNames,
             ProjectTokenCreate(p, n, t)
      PROVE  TypeOK'
  <2>1. [id |-> t, project |-> p, name |-> n, revoked |-> FALSE] \in TokenRecords
    BY DEF TokenRecords
  <2> QED
    BY <1>8, <2>1 DEF ProjectTokenCreate, TypeOK
<1> QED
  BY <1>1, <1>2, <1>3, <1>4, <1>5, <1>6, <1>7, <1>8 DEF AccountCommand

\* What a command on sessions may do to them: the sessions it leaves are old
\* ones, or ones opened under the password and the project of their account.
LEMMA SessionSteps ==
    ASSUME TypeOK, SessionCommand \/ GlobalAdminSessionsRevokeAll \/ \E s \in sessions : Expire(s)
    PROVE  SessionStep
<1>1. ASSUME NEW k \in Kinds, NEW u \in Users, NEW sid, NEW q, WriteSession(k, u, sid, q)
      PROVE  SessionStep
  <2>1. PICK since \in PasswordsOf(k, u) :
          sessions' = (sessions \ SessionsAt(k, u, sid)) \cup Opened(k, u, sid, q, since)
    BY <1>1 DEF WriteSession
  <2>2. \A s \in Opened(k, u, sid, q, since) :
          s.since \in PasswordsOf(s.kind, s.user) /\ s.project \in ProjectsOf(s.kind, s.user)
    BY DEF Opened
  <2>3. \A s \in sessions' : s \in sessions \/ s \in Opened(k, u, sid, q, since)
    BY <2>1
  <2>4. UNCHANGED <<projects, rootPassword, pas, gas, tokens, lastPassword>>
    BY <1>1 DEF WriteSession
  <2> QED
    BY <2>2, <2>3, <2>4 DEF SessionStep
<1>2. ASSUME NEW S, DropSessions(S)
      PROVE  SessionStep
  BY <1>2 DEF DropSessions, SessionStep
<1>3. ASSUME NEW k, NEW u, NEW sid, SessionHeartbeat(k, u, sid)
      PROVE  SessionStep
  <2> DEFINE beat(s) == [s EXCEPT !.live = TRUE]
  <2>1. \A s \in SessionsAt(k, u, sid) : s \in sessions /\ s \in Sessions
    BY DEF SessionsAt, SessionsOf, TypeOK
  <2>2. \A s \in SessionsAt(k, u, sid) :
          s.kind = beat(s).kind /\ s.user = beat(s).user /\ s.project = beat(s).project
            /\ s.since = beat(s).since
    BY <2>1 DEF Sessions
  <2>3. sessions' = (sessions \ SessionsAt(k, u, sid)) \cup {beat(s) : s \in SessionsAt(k, u, sid)}
    BY <1>3 DEF SessionHeartbeat
  <2>4. UNCHANGED <<projects, rootPassword, pas, gas, tokens, lastPassword>>
    BY <1>3 DEF SessionHeartbeat
  <2> HIDE DEF beat
  <2>5. \A s \in sessions' : s \in sessions \/ \E r \in SessionsAt(k, u, sid) : s = beat(r)
    BY <2>3
  <2> QED
    BY <2>1, <2>2, <2>4, <2>5 DEF SessionStep
<1>4. ASSUME NEW s \in sessions, Expire(s)
      PROVE  SessionStep
  <2>1. LET t == [s EXCEPT !.live = FALSE] IN
          s.kind = t.kind /\ s.user = t.user /\ s.project = t.project /\ s.since = t.since
    BY DEF TypeOK, Sessions
  <2> QED
    BY <1>4, <2>1 DEF Expire, SessionStep
<1> QED
  BY <1>1, <1>2, <1>3, <1>4
     DEF SessionCommand, SessionLogin, LegacyLogin, SessionLogout, SessionLogoutAll,
         GlobalAdminSessionsRevokeAll

\* Setting the root password touches no account and no session.
LEMMA RootTypes ==
    ASSUME TypeOK, AdminSetPassword
    PROVE  TypeOK'
BY NewPasswordType DEF AdminSetPassword, TypeOK

\* Every command keeps the types (StateMachine::apply).
LEMMA TypeStep ==
    ASSUME TypeOK, [Next]_accountVars
    PROVE  TypeOK'
<1>1. CASE UNCHANGED accountVars
  BY <1>1 DEF accountVars, TypeOK
<1>2. CASE AccountCommand
  BY <1>2, AccountTypes
<1>3. CASE AdminSetPassword
  BY <1>3, RootTypes
<1>4. CASE SessionCommand \/ GlobalAdminSessionsRevokeAll \/ \E s \in sessions : Expire(s)
  <2>1. sessions' \subseteq Sessions
    BY <1>4, SessionTypes
  <2>2. UNCHANGED <<projects, rootPassword, pas, gas, tokens, lastPassword>>
    BY <1>4, SessionSteps DEF SessionStep
  <2> QED
    BY <2>1, <2>2 DEF TypeOK
<1> QED
  BY <1>1, <1>2, <1>3, <1>4 DEF Next

\* The credentials keep their types, whatever commands come in what order.
THEOREM AccountsTypeCorrect == Spec => []TypeOK
<1>1. Init => TypeOK
  BY BoundsAssumption DEF Init, TypeOK, Passwords
<1>2. TypeOK /\ [Next]_accountVars => TypeOK'
  BY TypeStep
<1> QED
  BY <1>1, <1>2, PTL DEF Spec

-----------------------------------------------------------------------------
(* Names *)

\* Every command keeps names apart: an account is created only when no name of
\* the other table folds to its name (apply_project_admin_create,
\* apply_global_admin_create).
LEMMA NamesStep ==
    ASSUME TypeOK, NamesExclusive, [Next]_accountVars
    PROVE  NamesExclusive'
<1>1. CASE UNCHANGED <<pas, gas>>
  BY <1>1 DEF NamesExclusive, ValidUser, SameName
<1>2. ASSUME pas' \subseteq pas, gas' \subseteq gas
      PROVE  NamesExclusive'
  BY <1>2 DEF NamesExclusive, ValidUser, SameName
<1>3. ASSUME NEW u \in Users, NEW p \in Projects, ProjectAdminCreate(p, u)
      PROVE  NamesExclusive'
  BY <1>3 DEF ProjectAdminCreate, NamesExclusive, GaNameTaken, PaNamed, ValidUser, SameName
<1>4. ASSUME NEW u \in Users, GlobalAdminCreate(u)
      PROVE  NamesExclusive'
  BY <1>4 DEF GlobalAdminCreate, NamesExclusive, PaNameTaken, GaNamed, ValidUser, SameName
<1>5. ASSUME NEW u \in Users, ProjectAdminSetPassword(u)
      PROVE  NamesExclusive'
  <2> DEFINE set(a) == [a EXCEPT !.pw = lastPassword + 1]
  <2>1. \A a \in pas : set(a).user = a.user
    BY DEF TypeOK, PaAccounts
  <2>2. pas' = (pas \ PaNamed(u)) \cup {set(a) : a \in PaNamed(u)} /\ gas' = gas
    BY <1>5 DEF ProjectAdminSetPassword
  <2>3. \A b \in pas' : (b \in pas /\ b.user # u) \/ \E a \in pas : a.user = u /\ b = set(a)
    BY <2>2 DEF PaNamed
  <2> HIDE DEF set
  <2> QED
    BY <2>1, <2>2, <2>3 DEF NamesExclusive, ValidUser, SameName
<1>6. ASSUME NEW u \in Users, GlobalAdminSetPassword(u)
      PROVE  NamesExclusive'
  <2> DEFINE set(a) == [a EXCEPT !.pw = lastPassword + 1]
  <2>1. \A a \in gas : set(a).user = a.user
    BY DEF TypeOK, GaAccounts
  <2>2. gas' = (gas \ GaNamed(u)) \cup {set(a) : a \in GaNamed(u)} /\ pas' = pas
    BY <1>6 DEF GlobalAdminSetPassword
  <2>3. \A b \in gas' : (b \in gas /\ b.user # u) \/ \E a \in gas : a.user = u /\ b = set(a)
    BY <2>2 DEF GaNamed
  <2> HIDE DEF set
  <2> QED
    BY <2>1, <2>2, <2>3 DEF NamesExclusive, ValidUser, SameName
<1>7. CASE SessionCommand \/ GlobalAdminSessionsRevokeAll \/ \E s \in sessions : Expire(s)
  BY <1>1, <1>7, SessionSteps DEF SessionStep
<1>8. CASE AdminSetPassword
  BY <1>1, <1>8 DEF AdminSetPassword
<1>9. CASE AccountCommand
  <2>1. \A p, u, t, n :
          ProjectCreate(p) \/ ProjectDelete(p) \/ ProjectAdminDelete(u) \/ GlobalAdminDelete(u)
            \/ ProjectTokenRevoke(p, t) \/ ProjectTokenCreate(p, n, t)
          => pas' \subseteq pas /\ gas' \subseteq gas
    BY DEF ProjectCreate, ProjectDelete, ProjectAdminDelete, GlobalAdminDelete,
           ProjectTokenRevoke, ProjectTokenCreate
  <2> QED
    BY <1>9, <1>2, <1>3, <1>4, <1>5, <1>6, <2>1 DEF AccountCommand
<1> QED
  BY <1>1, <1>7, <1>8, <1>9 DEF Next, accountVars

-----------------------------------------------------------------------------
(* Sessions *)

\* Every command keeps sessions with their accounts: an account goes with its
\* sessions, and a login takes the project of the account that is there.
LEMMA OwnedStep ==
    ASSUME TypeOK, SessionsOwned, [Next]_accountVars
    PROVE  SessionsOwned'
<1>1. CASE UNCHANGED <<pas, gas, sessions>>
  BY <1>1 DEF SessionsOwned
<1>2. ASSUME sessions' \subseteq sessions,
             \A s \in sessions' : s.kind = "pa" =>
                \A a \in pas : a.user = s.user => \E b \in pas' : b.user = a.user /\ b.project = a.project,
             \A s \in sessions' : s.kind = "ga" =>
                \A a \in gas : a.user = s.user => \E b \in gas' : b.user = a.user
      PROVE  SessionsOwned'
  BY <1>2 DEF SessionsOwned
<1>3. ASSUME NEW p \in Projects, ProjectDelete(p)
      PROVE  SessionsOwned'
  <2>1. \A s \in sessions' : s \in sessions /\ \A a \in OfProject(p) : s \notin SessionsOf("pa", a.user)
    BY <1>3 DEF ProjectDelete
  <2>2. \A s \in sessions' : s.kind = "pa" => \A a \in pas : a.user = s.user => a \in pas'
    BY <1>3, <2>1 DEF ProjectDelete, OfProject, SessionsOf
  <2> QED
    BY <1>2, <1>3, <2>1, <2>2 DEF ProjectDelete
<1>4. ASSUME NEW u \in Users, GlobalAdminCreate(u) \/ \E p \in Projects : ProjectAdminCreate(p, u)
      PROVE  SessionsOwned'
  BY <1>4, <1>2 DEF ProjectAdminCreate, GlobalAdminCreate
<1>5. ASSUME NEW u \in Users, ProjectAdminDelete(u) \/ ProjectAdminSetPassword(u)
      PROVE  SessionsOwned'
  <2>1. \A a \in pas : a.user # u => a \in pas'
    BY <1>5 DEF ProjectAdminDelete, ProjectAdminSetPassword, PaNamed
  <2>2. \A s \in sessions' : s \in sessions /\ (s.kind = "pa" => s.user # u)
    BY <1>5 DEF ProjectAdminDelete, ProjectAdminSetPassword, SessionsOf
  <2> QED
    BY <1>2, <1>5, <2>1, <2>2 DEF ProjectAdminDelete, ProjectAdminSetPassword
<1>6. ASSUME NEW u \in Users, GlobalAdminDelete(u) \/ GlobalAdminSetPassword(u)
      PROVE  SessionsOwned'
  <2>1. \A a \in gas : a.user # u => a \in gas'
    BY <1>6 DEF GlobalAdminDelete, GlobalAdminSetPassword, GaNamed
  <2>2. \A s \in sessions' : s \in sessions /\ (s.kind = "ga" => s.user # u)
    BY <1>6 DEF GlobalAdminDelete, GlobalAdminSetPassword, SessionsOf
  <2> QED
    BY <1>2, <1>6, <2>1, <2>2 DEF GlobalAdminDelete, GlobalAdminSetPassword
<1>7. CASE SessionCommand \/ GlobalAdminSessionsRevokeAll \/ \E s \in sessions : Expire(s)
  <2>1. SessionStep
    BY <1>7, SessionSteps
  <2>2. \A k, u : /\ ProjectsOf("pa", u) = {a.project : a \in PaNamed(u)}
                  /\ PasswordsOf("ga", u) = {a.pw : a \in GaNamed(u)}
    BY DEF ProjectsOf, PasswordsOf
  <2> QED
    BY <2>1, <2>2 DEF SessionStep, SessionsOwned, PaNamed, GaNamed
<1>8. CASE AdminSetPassword
  BY <1>1, <1>8 DEF AdminSetPassword
<1>9. CASE AccountCommand
  <2>1. \A p, t, n : ProjectCreate(p) \/ ProjectTokenRevoke(p, t) \/ ProjectTokenCreate(p, n, t)
                       => UNCHANGED <<pas, gas, sessions>>
    BY DEF ProjectCreate, ProjectTokenRevoke, ProjectTokenCreate
  <2> QED
    BY <1>9, <1>1, <1>3, <1>4, <1>5, <1>6, <2>1 DEF AccountCommand
<1> QED
  BY <1>1, <1>7, <1>8, <1>9 DEF Next, accountVars

\* Every command keeps sessions under the password in force: the commands that
\* set a password end the sessions of the account.
LEMMA PasswordStep ==
    ASSUME TypeOK, SessionsUnderPassword, [Next]_accountVars
    PROVE  SessionsUnderPassword'
<1> DEFINE Kept == \A s \in sessions' :
              /\ s.kind = "pa" => \A a \in pas : a.user = s.user => a \in pas'
              /\ s.kind = "ga" => \A a \in gas : a.user = s.user => a \in gas'
<1>1. \A u : PasswordsOf("pa", u) = {a.pw : a \in PaNamed(u)}
             /\ PasswordsOf("ga", u) = {a.pw : a \in GaNamed(u)}
  BY DEF PasswordsOf
<1>2. \A u : PasswordsOf("pa", u)' = {a.pw : a \in PaNamed(u)'}
             /\ PasswordsOf("ga", u)' = {a.pw : a \in GaNamed(u)'}
  BY DEF PasswordsOf
<1>3. \A s \in sessions : s.kind \in {"admin", "pa", "ga"}
  BY DEF TypeOK, Sessions, Kinds
<1>4. ASSUME sessions' \subseteq sessions, Kept
      PROVE  SessionsUnderPassword'
  BY <1>1, <1>2, <1>3, <1>4 DEF SessionsUnderPassword, PaNamed, GaNamed
<1>5. ASSUME NEW p \in Projects, ProjectDelete(p)
      PROVE  SessionsUnderPassword'
  <2>1. \A s \in sessions' : s \in sessions /\ \A a \in OfProject(p) : s \notin SessionsOf("pa", a.user)
    BY <1>5 DEF ProjectDelete
  <2>2. Kept
    BY <1>5, <2>1 DEF ProjectDelete, OfProject, SessionsOf
  <2> QED
    BY <1>4, <2>1, <2>2
<1>6. ASSUME NEW u \in Users, GlobalAdminCreate(u) \/ \E p \in Projects : ProjectAdminCreate(p, u)
      PROVE  SessionsUnderPassword'
  BY <1>4, <1>6 DEF GlobalAdminCreate, ProjectAdminCreate
<1>7. ASSUME NEW u \in Users, ProjectAdminDelete(u) \/ ProjectAdminSetPassword(u)
      PROVE  SessionsUnderPassword'
  <2>1. \A a \in pas : a.user # u => a \in pas'
    BY <1>7 DEF ProjectAdminDelete, ProjectAdminSetPassword, PaNamed
  <2>2. \A s \in sessions' : s \in sessions /\ (s.kind = "pa" => s.user # u)
    BY <1>7 DEF ProjectAdminDelete, ProjectAdminSetPassword, SessionsOf
  <2>3. gas' = gas
    BY <1>7 DEF ProjectAdminDelete, ProjectAdminSetPassword
  <2> QED
    BY <1>4, <2>1, <2>2, <2>3
<1>8. ASSUME NEW u \in Users, GlobalAdminDelete(u) \/ GlobalAdminSetPassword(u)
      PROVE  SessionsUnderPassword'
  <2>1. \A a \in gas : a.user # u => a \in gas'
    BY <1>8 DEF GlobalAdminDelete, GlobalAdminSetPassword, GaNamed
  <2>2. \A s \in sessions' : s \in sessions /\ (s.kind = "ga" => s.user # u)
    BY <1>8 DEF GlobalAdminDelete, GlobalAdminSetPassword, SessionsOf
  <2>3. pas' = pas
    BY <1>8 DEF GlobalAdminDelete, GlobalAdminSetPassword
  <2> QED
    BY <1>4, <2>1, <2>2, <2>3
<1>9. CASE SessionCommand \/ GlobalAdminSessionsRevokeAll \/ \E s \in sessions : Expire(s)
  <2>1. SessionStep
    BY <1>9, SessionSteps
  <2>2. pas' = pas /\ gas' = gas /\ rootPassword' = rootPassword
    BY <2>1 DEF SessionStep
  <2>3. \A k, u : PasswordsOf(k, u)' = PasswordsOf(k, u)
    BY <2>2 DEF PasswordsOf, PaNamed, GaNamed
  <2> QED
    BY <2>1, <2>3 DEF SessionStep, SessionsUnderPassword
<1>10. CASE AdminSetPassword
  BY <1>4, <1>10 DEF AdminSetPassword
<1>11. CASE AccountCommand
  <2>1. \A p, t, n : ProjectCreate(p) \/ ProjectTokenRevoke(p, t) \/ ProjectTokenCreate(p, n, t)
                       => sessions' \subseteq sessions /\ Kept
    BY DEF ProjectCreate, ProjectTokenRevoke, ProjectTokenCreate
  <2> HIDE DEF Kept
  <2> QED
    BY <1>11, <1>4, <1>5, <1>6, <1>7, <1>8, <2>1 DEF AccountCommand
<1>12. CASE UNCHANGED accountVars
  BY <1>4, <1>12 DEF accountVars
<1> QED
  BY <1>9, <1>10, <1>11, <1>12 DEF Next

-----------------------------------------------------------------------------
(* Projects *)

\* Every command keeps accounts and tokens with the projects that vanish with no
\* other one.
LEMMA OrphanStep ==
    ASSUME TypeOK, NoOrphans, [Next]_accountVars
    PROVE  NoOrphans'
<1>1. CASE UNCHANGED <<projects, pas, tokens>>
  BY <1>1 DEF NoOrphans
<1>2. ASSUME NEW p \in Projects, ProjectCreate(p) \/ ProjectDelete(p)
      PROVE  NoOrphans'
  <2>1. CASE ProjectCreate(p)
    BY <2>1 DEF ProjectCreate, NoOrphans
  <2>2. CASE ProjectDelete(p)
    <3>1. \A r \in Projects : OwnName(r) /\ r \in Under[p] => r = p
      BY DEF OwnName
    <3>2. /\ \A a \in pas : a.project \in Projects
          /\ \A t \in tokens : t.project \in Projects
      BY DEF TypeOK, PaAccounts, TokenRecords
    <3> QED
      BY <2>2, <3>1, <3>2 DEF ProjectDelete, OfProject, NoOrphans
  <2> QED
    BY <1>2, <2>1, <2>2
<1>3. ASSUME NEW u \in Users, NEW p \in Projects, ProjectAdminCreate(p, u)
      PROVE  NoOrphans'
  BY <1>3 DEF ProjectAdminCreate, NoOrphans
<1>4. ASSUME NEW u \in Users, ProjectAdminDelete(u)
      PROVE  NoOrphans'
  BY <1>4 DEF ProjectAdminDelete, NoOrphans
<1>5. ASSUME NEW u \in Users, ProjectAdminSetPassword(u)
      PROVE  NoOrphans'
  <2> DEFINE set(a) == [a EXCEPT !.pw = lastPassword + 1]
  <2>1. \A a \in pas : set(a).project = a.project
    BY DEF TypeOK, PaAccounts
  <2>2. /\ pas' = (pas \ PaNamed(u)) \cup {set(a) : a \in PaNamed(u)}
        /\ tokens' = tokens /\ projects' = projects
    BY <1>5 DEF ProjectAdminSetPassword
  <2> HIDE DEF set
  <2>3. \A b \in pas' : b \in pas \/ \E a \in pas : b = set(a)
    BY <2>2 DEF PaNamed
  <2> QED
    BY <2>1, <2>2, <2>3 DEF NoOrphans
<1>6. ASSUME NEW p \in Projects, NEW t \in Tokens, ProjectTokenRevoke(p, t)
      PROVE  NoOrphans'
  <2> DEFINE set(r) == [r EXCEPT !.revoked = TRUE]
             found == {r \in tokens : r.id = t /\ r.project = p}
  <2>1. \A r \in tokens : set(r).project = r.project
    BY DEF TypeOK, TokenRecords
  <2>2. /\ tokens' = (tokens \ found) \cup {set(r) : r \in found}
        /\ pas' = pas /\ projects' = projects
    BY <1>6 DEF ProjectTokenRevoke
  <2> HIDE DEF set
  <2>3. \A r \in tokens' : r \in tokens \/ \E q \in tokens : r = set(q)
    BY <2>2
  <2> QED
    BY <2>1, <2>2, <2>3 DEF NoOrphans
<1>7. ASSUME NEW p \in Projects, NEW t \in Tokens, NEW n \in TokenNames, ProjectTokenCreate(p, n, t)
      PROVE  NoOrphans'
  BY <1>7 DEF ProjectTokenCreate, NoOrphans
<1>8. CASE SessionCommand \/ GlobalAdminSessionsRevokeAll \/ \E s \in sessions : Expire(s)
  BY <1>1, <1>8, SessionSteps DEF SessionStep
<1>9. CASE AccountCommand
  <2>1. \A u : GlobalAdminCreate(u) \/ GlobalAdminDelete(u) \/ GlobalAdminSetPassword(u)
                 => UNCHANGED <<projects, pas, tokens>>
    BY DEF GlobalAdminCreate, GlobalAdminDelete, GlobalAdminSetPassword
  <2> QED
    BY <1>9, <1>1, <1>2, <1>3, <1>4, <1>5, <1>6, <1>7, <2>1 DEF AccountCommand
<1> QED
  BY <1>1, <1>8, <1>9 DEF Next, AdminSetPassword, accountVars

-----------------------------------------------------------------------------
(* The commands of the log alone *)

\* However commands are ordered, names stay apart, sessions stay with their
\* accounts and under the passwords in force.
THEOREM AccountsSafe == Spec => [](NamesExclusive /\ SessionsOwned /\ SessionsUnderPassword)
<1> DEFINE Inv == TypeOK /\ NamesExclusive /\ SessionsOwned /\ SessionsUnderPassword
<1>1. Init => Inv
  BY BoundsAssumption
     DEF Init, TypeOK, Passwords, NamesExclusive, SessionsOwned, SessionsUnderPassword
<1>2. Inv /\ [Next]_accountVars => Inv'
  BY TypeStep, NamesStep, OwnedStep, PasswordStep
<1> QED
  BY <1>1, <1>2, PTL DEF Spec

-----------------------------------------------------------------------------
(* The handlers of AuthApi *)

\* The request of a handler is put back or replaced.
Replaces(c) == \E r \in Requests : req' = [req EXCEPT ![c] = r]

-----------------------------------------------------------------------------
(* Types *)

\* The request that stands for no request, and the request of a handler.
LEMMA IdleType == Idle \in Requests
<1>1. Super \in Users /\ 0 \in Passwords
  BY FoldAssumption, BoundsAssumption DEF Passwords
<1> QED
  BY <1>1 DEF Idle, Requests, Steps, Kinds

\* A handler that goes on to another step keeps what it knows.
LEMMA GotoType ==
    ASSUME ApiTypeOK, NEW c \in Clients, NEW step \in Steps, Goto(c, step)
    PROVE  Replaces(c)
<1>1. req[c] \in Requests
  BY DEF ApiTypeOK
<1>2. [req[c] EXCEPT !.step = step] \in Requests
  BY <1>1 DEF Requests
<1> QED
  BY <1>1, <1>2 DEF Goto, Replaces

\* A handler that is done has no request.
LEMMA DoneType ==
    ASSUME NEW c \in Clients, Done(c)
    PROVE  Replaces(c)
BY IdleType DEF Done, Replaces

\* Throttle keys: the peer and every principal.
LEMMA KeyType ==
    /\ PeerKey \in ThrottleKeys
    /\ \A k \in Kinds, u \in Users : MeKey(k, u) \in ThrottleKeys
    /\ \A k \in Kinds, u \in Users : MeKey(k, u) # PeerKey
BY DEF ThrottleKeys, MeKey, PeerKey, Kinds

\* Counting a failure, or forgetting them, keeps the counts.
LEMMA FailsType ==
    ASSUME fails \in [ThrottleKeys -> Nat], NEW key \in ThrottleKeys
    PROVE  /\ [fails EXCEPT ![key] = 0] \in [ThrottleKeys -> Nat]
           /\ [fails EXCEPT ![key] = @ + 1] \in [ThrottleKeys -> Nat]
OBVIOUS

\* A handler changes its own request only, and keeps the types of requests and
\* of the throttle.
LEMMA HandlerTypes ==
    ASSUME ApiTypeOK, NEW c \in Clients, Handler(c)
    PROVE  /\ Replaces(c) /\ fails' \in [ThrottleKeys -> Nat] /\ brokenOff' \in BOOLEAN
<1> DEFINE Goal == Replaces(c) /\ fails' \in [ThrottleKeys -> Nat] /\ brokenOff' \in BOOLEAN
<1> SUFFICES Goal
  OBVIOUS
<1>0. /\ fails \in [ThrottleKeys -> Nat] /\ brokenOff \in BOOLEAN
      /\ req \in [Clients -> Requests] /\ req[c] \in Requests
      /\ req[c].kind \in Kinds /\ req[c].user \in Users /\ req[c].sid \in Sids \cup {NoSid}
      /\ req[c].pw \in Passwords /\ req = [req EXCEPT ![c] = req[c]]
  BY DEF ApiTypeOK, Requests
<1>a. UNCHANGED req => Replaces(c)
  BY <1>0 DEF Replaces
<1>b. UNCHANGED fails => fails' \in [ThrottleKeys -> Nat]
  BY <1>0
<1>c. UNCHANGED brokenOff => brokenOff' \in BOOLEAN
  BY <1>0
<1>d. \A key \in ThrottleKeys : NoFailure(key) => fails' \in [ThrottleKeys -> Nat]
  BY <1>0, FailsType DEF NoFailure
<1>1. ASSUME NEW k \in Kinds, NEW u \in Users, NEW p \in Passwords, Verify(c, k, u, p)
      PROVE  Goal
  <2>1. [step |-> "login", kind |-> k, user |-> u, sid |-> NoSid, pw |-> p] \in Requests
    BY DEF Requests, Steps
  <2>2. [Idle EXCEPT !.step = "wrong"] \in Requests
    BY IdleType DEF Requests, Steps
  <2> QED
    BY <1>1, <1>b, <1>c, <2>1, <2>2 DEF Verify, Replaces
<1>2. CASE RecordFailure(c)
  <2>1. MeKey(req[c].kind, req[c].user) \in ThrottleKeys /\ PeerKey \in ThrottleKeys
    BY <1>0, KeyType
  <2>2. fails' \in [ThrottleKeys -> Nat]
    BY <1>2, <1>0, <2>1, FailsType DEF RecordFailure
  <2> QED
    BY <1>2, <2>2, <1>c, DoneType DEF RecordFailure
<1>3. CASE LoginRefused(c)
  BY <1>3, <1>b, <1>c, DoneType DEF LoginRefused
<1>4. ASSUME NEW k \in Kinds, NEW sid \in Sids, OpenSession(c, k, sid)
      PROVE  Goal
  BY <1>4, <1>a, <1>b, <1>c, <1>d, KeyType, DoneType DEF OpenSession
<1>5. ASSUME NEW k \in Kinds, NEW u \in Users, NEW sid \in Sids \cup {NoSid}, Admit(c, k, u, sid)
      PROVE  Goal
  <2>1. 0 \in Passwords
    BY BoundsAssumption DEF Passwords
  <2>2. [step |-> "admitted", kind |-> k, user |-> u, sid |-> sid, pw |-> 0] \in Requests
    BY <2>1 DEF Requests, Steps
  <2> QED
    BY <1>5, <1>b, <1>c, <2>2 DEF Admit, Replaces
<1>6. CASE ManageAccounts(c)
  BY <1>6, <1>b, <1>c, DoneType
     DEF ManageAccounts, CreateProject, DeleteProject, CreateProjectAdmin, DeleteProjectAdmin,
         ResetProjectAdmin, CreateGlobalAdmin, DeleteGlobalAdmin, ResetGlobalAdmin, CreateToken,
         RevokeToken, Serving
<1>7. ASSUME NEW k \in Kinds, NEW u \in Users, ForceLogoutOne(c, k, u)
      PROVE  Goal
  BY <1>7, <1>b, <1>c, DoneType DEF ForceLogoutOne, Serving
<1>8. CASE ForceLogoutAll(c)
  BY <1>8, <1>b, <1>c, GotoType DEF ForceLogoutAll, Serving, Steps
<1>9. CASE Logout(c) \/ Heartbeat(c)
  BY <1>9, <1>b, <1>c, DoneType DEF Logout, Heartbeat, Serving
<1>10. ASSUME NEW p \in Passwords, ChangeVerify(c, p)
       PROVE  Goal
  <2> DEFINE step == IF p \in PasswordsOf(req[c].kind, req[c].user) THEN "change" ELSE "wrongOwn"
             pw == IF p \in PasswordsOf(req[c].kind, req[c].user) THEN p ELSE 0
  <2>1. step \in Steps /\ pw \in Passwords
    BY BoundsAssumption DEF Steps, Passwords
  <2>2. req' = [req EXCEPT ![c] = [@ EXCEPT !.step = step, !.pw = pw]]
    BY <1>0, <1>10 DEF ChangeVerify
  <2> HIDE DEF step, pw
  <2>3. [req[c] EXCEPT !.step = step, !.pw = pw] \in Requests
    BY <1>0, <2>1 DEF Requests
  <2>4. Replaces(c)
    BY <2>2, <2>3, <1>0 DEF Replaces
  <2> QED
    BY <1>10, <1>b, <1>c, <2>4 DEF ChangeVerify
<1>11. CASE ChangeWrite(c)
  <2>1. Replaces(c)
    BY <1>11, DoneType, GotoType DEF ChangeWrite, Steps
  <2>2. fails' \in [ThrottleKeys -> Nat]
    BY <1>11, <1>0, <1>b, <1>d, KeyType DEF ChangeWrite
  <2> QED
    BY <1>11, <2>1, <2>2, <1>c DEF ChangeWrite
<1>12. CASE SetRootPassword(c) \/ ResetRootPassword(c)
  BY <1>12, <1>b, <1>c, GotoType DEF SetRootPassword, ResetRootPassword, Serving, Steps
<1>13. CASE LogoutAll(c)
  <2>1. Replaces(c)
    BY <1>13, DoneType, GotoType DEF LogoutAll, Steps
  <2>2. MeKey("admin", Super) \in ThrottleKeys
    BY KeyType, FoldAssumption DEF Kinds
  <2>3. fails' \in [ThrottleKeys -> Nat]
    BY <1>13, <1>b, <1>d, <2>2 DEF LogoutAll
  <2> QED
    BY <1>13, <2>1, <2>3, <1>c DEF LogoutAll
<1>14. CASE CheckGa(c) \/ RevokeGa(c)
  BY <1>14, <1>b, <1>c, GotoType, DoneType DEF CheckGa, RevokeGa, Steps
<1>15. CASE BreakOff(c)
  BY <1>15, <1>b, DoneType DEF BreakOff
<1> HIDE DEF Goal
<1>16. Super \in Users /\ "admin" \in Kinds /\ "pa" \in Kinds /\ "ga" \in Kinds
  BY FoldAssumption DEF Kinds
<1> QED
  BY <1>1, <1>2, <1>3, <1>4, <1>5, <1>6, <1>7, <1>8, <1>9, <1>10, <1>11, <1>12, <1>13, <1>14,
     <1>15, <1>16
     DEF Handler, RootVerify, PaVerify, GaVerify, RootLogin, PaLogin, GaLogin

\* A handler's request is replaced by a request: the others stay.
LEMMA ReplacesType ==
    ASSUME req \in [Clients -> Requests], NEW c \in Clients, Replaces(c)
    PROVE  req' \in [Clients -> Requests] /\ \A d \in Clients \ {c} : req'[d] = req[d]
BY DEF Replaces

-----------------------------------------------------------------------------
(* The handlers write commands *)

\* Every step of a handler is one command of the log, or none.
LEMMA HandlerCommands ==
    ASSUME ApiTypeOK, NEW c \in Clients, Handler(c)
    PROVE  [Next]_accountVars
<1> DEFINE Goal == [Next]_accountVars
<1> SUFFICES Goal
  OBVIOUS
<1>0. /\ req[c].kind \in Kinds /\ req[c].user \in Users /\ req[c].sid \in Sids \cup {NoSid}
      /\ req[c].pw \in Passwords
  BY DEF ApiTypeOK, Requests
<1>1. Super \in Users /\ "admin" \in Kinds /\ "pa" \in Kinds /\ "ga" \in Kinds
  BY FoldAssumption DEF Kinds
<1>2. UNCHANGED accountVars => Goal
  OBVIOUS
<1>3. AccountCommand \/ SessionCommand \/ AdminSetPassword \/ GlobalAdminSessionsRevokeAll => Goal
  BY DEF Next
<1> HIDE DEF Goal
<1>4. ASSUME NEW k \in Kinds, NEW u \in Users, NEW p \in Passwords, Verify(c, k, u, p)
      PROVE  Goal
  BY <1>2, <1>4 DEF Verify
<1>5. CASE RecordFailure(c) \/ LoginRefused(c) \/ CheckGa(c) \/ BreakOff(c)
  BY <1>2, <1>5 DEF RecordFailure, LoginRefused, CheckGa, BreakOff
<1>6. ASSUME NEW k \in Kinds, NEW sid \in Sids, OpenSession(c, k, sid)
      PROVE  Goal
  BY <1>0, <1>3, <1>6 DEF OpenSession, SessionCommand
<1>7. ASSUME NEW k, NEW u, NEW sid, Admit(c, k, u, sid)
      PROVE  Goal
  BY <1>2, <1>7 DEF Admit
<1>8. CASE ManageAccounts(c)
  BY <1>3, <1>8
     DEF ManageAccounts, CreateProject, DeleteProject, CreateProjectAdmin, DeleteProjectAdmin,
         ResetProjectAdmin, CreateGlobalAdmin, DeleteGlobalAdmin, ResetGlobalAdmin, CreateToken,
         RevokeToken, AccountCommand
<1>9. ASSUME NEW k \in Kinds, NEW u \in Users, ForceLogoutOne(c, k, u)
      PROVE  Goal
  BY <1>3, <1>9 DEF ForceLogoutOne, SessionCommand
<1>10. CASE ForceLogoutAll(c) \/ LogoutAll(c)
  BY <1>1, <1>3, <1>10 DEF ForceLogoutAll, LogoutAll, SessionCommand
<1>11. CASE Logout(c) \/ Heartbeat(c)
  BY <1>0, <1>3, <1>11 DEF Logout, Heartbeat, SessionCommand
<1>12. ASSUME NEW p \in Passwords, ChangeVerify(c, p)
       PROVE  Goal
  BY <1>2, <1>12 DEF ChangeVerify
<1>13. CASE ChangeWrite(c)
  <2>1. req[c].kind \in {"admin", "pa", "ga"}
    BY <1>0 DEF Kinds
  <2>2. \/ ProjectAdminSetPassword(req[c].user) \/ GlobalAdminSetPassword(req[c].user)
        \/ AdminSetPassword
    BY <1>13, <2>1 DEF ChangeWrite
  <2> QED
    BY <1>0, <1>3, <2>2 DEF AccountCommand
<1>14. CASE SetRootPassword(c) \/ ResetRootPassword(c) \/ RevokeGa(c)
  BY <1>3, <1>14 DEF SetRootPassword, ResetRootPassword, RevokeGa
<1> QED
  BY <1>1, <1>4, <1>5, <1>6, <1>7, <1>8, <1>9, <1>10, <1>11, <1>12, <1>13, <1>14
     DEF Handler, RootVerify, PaVerify, GaVerify, RootLogin, PaLogin, GaLogin

\* So is every step of the API.
LEMMA ApiCommands ==
    ASSUME ApiTypeOK, [ApiNext]_vars
    PROVE  [Next]_accountVars
<1>1. CASE UNCHANGED vars
  BY <1>1 DEF vars
<1>2. CASE \E c \in Clients : Handler(c)
  BY <1>2, HandlerCommands
<1>3. CASE \E key \in ThrottleKeys : WindowEnds(key)
  BY <1>3 DEF WindowEnds
<1>4. CASE OldServer
  <2>1. PICK k \in {"admin", "pa"}, u \in Users : \E p \in PasswordsOf(k, u) : LegacyLogin(k, u, p)
    BY <1>4 DEF OldServer
  <2>2. k \in Kinds
    BY DEF Kinds
  <2>3. PasswordsOf(k, u) \subseteq Passwords
    BY <2>2, PasswordsOfType DEF ApiTypeOK
  <2> QED
    BY <2>1, <2>2, <2>3 DEF SessionCommand, Next
<1>5. CASE TimePasses
  BY <1>5 DEF TimePasses, Next
<1> QED
  BY <1>1, <1>2, <1>3, <1>4, <1>5 DEF ApiNext

\* Every step keeps the types of the API.
LEMMA ApiTypeStep ==
    ASSUME ApiTypeOK, [ApiNext]_vars
    PROVE  ApiTypeOK'
<1>1. TypeOK'
  BY ApiCommands, TypeStep DEF ApiTypeOK
<1>2. CASE UNCHANGED vars
  BY <1>1, <1>2 DEF vars, ApiTypeOK
<1>3. CASE \E c \in Clients : Handler(c)
  BY <1>1, <1>3, HandlerTypes, ReplacesType DEF ApiTypeOK
<1>4. CASE \E key \in ThrottleKeys : WindowEnds(key)
  <2>1. fails' \in [ThrottleKeys -> Nat]
    BY <1>4, FailsType DEF WindowEnds, NoFailure, ApiTypeOK
  <2> QED
    BY <1>1, <1>4, <2>1 DEF WindowEnds, ApiTypeOK
<1>5. CASE OldServer \/ TimePasses
  BY <1>1, <1>5 DEF OldServer, TimePasses, ApiTypeOK
<1> QED
  BY <1>2, <1>3, <1>4, <1>5 DEF ApiNext

\* In the beginning nothing is under way.
LEMMA ApiTypeInit == ApiInit => ApiTypeOK
<1>1. Init => TypeOK
  BY BoundsAssumption DEF Init, TypeOK, Passwords
<1>2. ApiInit => req \in [Clients -> Requests]
  BY IdleType DEF ApiInit
<1>3. ApiInit => fails \in [ThrottleKeys -> Nat]
  BY DEF ApiInit
<1> QED
  BY <1>1, <1>2, <1>3 DEF ApiInit, ApiTypeOK

\* Handlers and credentials keep their types, for any number of handlers.
THEOREM ApiTypeCorrect == ApiSpec => []ApiTypeOK
<1>1. ApiTypeOK /\ [ApiNext]_vars => ApiTypeOK'
  BY ApiTypeStep
<1> QED
  BY <1>1, ApiTypeInit, PTL DEF ApiSpec

\* The handlers, interleaved and broken off in any way, implement the commands
\* of the log: whatever holds of Accounts holds of the API.
THEOREM ApiImplementsAccounts == ApiSpec => Spec
<1>1. ApiInit => Init
  BY DEF ApiInit
<1>2. ApiTypeOK /\ [ApiNext]_vars => [Next]_accountVars
  BY ApiCommands
<1> QED
  BY <1>1, <1>2, ApiTypeCorrect, PTL DEF ApiSpec, Spec

\* No name belongs to two accounts.
THEOREM NamesStayExclusive == ApiSpec => []NamesExclusive
BY ApiImplementsAccounts, AccountsSafe, PTL

\* No session outlives its account or speaks for another project.
THEOREM SessionsStayOwned == ApiSpec => []SessionsOwned
BY ApiImplementsAccounts, AccountsSafe, PTL

\* No session of an administrator of a project, or of all projects, outlives
\* the password that was in force when it was written.
THEOREM SessionsStayUnderPassword == ApiSpec => []SessionsUnderPassword
BY ApiImplementsAccounts, AccountsSafe, PTL

\* Whatever names projects have and whatever is deleted with them, a project
\* whose name continues no other one's leaves no account and no token behind.
THEOREM DeletionLeavesNoOrphans == ApiSpec => []NoOrphans
<1>1. Init => NoOrphans
  BY DEF Init, NoOrphans
<1>2. TypeOK /\ NoOrphans /\ [Next]_accountVars => NoOrphans'
  BY OrphanStep
<1> QED
  BY <1>1, <1>2, ApiImplementsAccounts, AccountsTypeCorrect, PTL DEF Spec

-----------------------------------------------------------------------------
(* The root password *)

RootSessions == SessionsOf("admin", Super)

\* The steps after which a handler still has to end the root sessions.
Ending == {"changeAll", "logoutAll", "resetAll"}

\* A session of the root account is an old one or opened under the password in
\* force.
LEMMA RootSessionsStep ==
    ASSUME ApiTypeOK, [ApiNext]_vars
    PROVE  \A s \in RootSessions' :
              s.since = rootPassword \/ \E r \in RootSessions : r.since = s.since
<1> DEFINE Goal == \A s \in RootSessions' :
              s.since = rootPassword \/ \E r \in RootSessions : r.since = s.since
<1>1. [Next]_accountVars /\ TypeOK
  BY ApiCommands DEF ApiTypeOK
<1>2. ASSUME sessions' \subseteq sessions
      PROVE  Goal
  BY <1>2 DEF RootSessions, SessionsOf
<1>3. CASE SessionCommand \/ GlobalAdminSessionsRevokeAll \/ \E s \in sessions : Expire(s)
  <2>1. SessionStep
    BY <1>1, <1>3, SessionSteps
  <2>2. \A u : PasswordsOf("admin", u) = {rootPassword}
    BY DEF PasswordsOf
  <2> QED
    BY <2>1, <2>2 DEF SessionStep, RootSessions, SessionsOf
<1>4. CASE AccountCommand \/ AdminSetPassword \/ UNCHANGED accountVars
  <2>1. sessions' \subseteq sessions
    BY <1>4
       DEF AccountCommand, AdminSetPassword, accountVars, ProjectCreate, ProjectDelete,
           ProjectAdminCreate, ProjectAdminDelete, ProjectAdminSetPassword, GlobalAdminCreate,
           GlobalAdminDelete, GlobalAdminSetPassword, ProjectTokenCreate, ProjectTokenRevoke
  <2> QED
    BY <1>2, <2>1
<1> QED
  BY <1>1, <1>3, <1>4 DEF Next

\* A handler that sets the root password goes on to end the sessions; one that
\* has to end them does so or breaks off.
LEMMA HandlerEnds ==
    ASSUME ApiTypeOK, NEW c \in Clients, Handler(c)
    PROVE  /\ rootPassword' = rootPassword \/ req'[c].step \in Ending
           /\ EndsSessions(c) => req'[c].step \in Ending \/ brokenOff' \/ RootSessions' = {}
           /\ brokenOff => brokenOff'
<1> DEFINE Goal == /\ rootPassword' = rootPassword \/ req'[c].step \in Ending
                   /\ EndsSessions(c) => req'[c].step \in Ending \/ brokenOff' \/ RootSessions' = {}
                   /\ brokenOff => brokenOff'
<1> SUFFICES Goal
  OBVIOUS
<1>0. req \in [Clients -> Requests] /\ req[c] \in Requests /\ TypeOK
  BY DEF ApiTypeOK
<1>1. \A step : Goto(c, step) => req'[c].step = step
  BY <1>0 DEF Goto, Requests
<1>2. ASSUME UNCHANGED rootPassword, UNCHANGED brokenOff, req[c].step \notin Ending
      PROVE  Goal
  BY <1>2 DEF EndsSessions, Ending
<1>3. ASSUME UNCHANGED accountVars, UNCHANGED brokenOff, req[c].step \notin Ending
      PROVE  Goal
  BY <1>2, <1>3 DEF accountVars
<1> HIDE DEF Goal
<1>4. ASSUME NEW k \in Kinds, NEW u \in Users, NEW p \in Passwords, Verify(c, k, u, p)
      PROVE  Goal
  BY <1>3, <1>4 DEF Verify, At, Ending
<1>5. CASE RecordFailure(c) \/ LoginRefused(c) \/ CheckGa(c)
  BY <1>3, <1>5 DEF RecordFailure, LoginRefused, CheckGa, At, Ending
<1>6. ASSUME NEW k \in Kinds, NEW sid \in Sids, OpenSession(c, k, sid)
      PROVE  Goal
  BY <1>2, <1>6 DEF OpenSession, SessionLogin, WriteSession, At, Ending
<1>7. ASSUME NEW k, NEW u, NEW sid, Admit(c, k, u, sid)
      PROVE  Goal
  BY <1>3, <1>7 DEF Admit, At, Ending
<1>8. CASE ManageAccounts(c)
  BY <1>2, <1>8
     DEF ManageAccounts, CreateProject, DeleteProject, CreateProjectAdmin, DeleteProjectAdmin,
         ResetProjectAdmin, CreateGlobalAdmin, DeleteGlobalAdmin, ResetGlobalAdmin, CreateToken,
         RevokeToken, Serving, At, Ending, ProjectCreate, ProjectDelete, ProjectAdminCreate,
         ProjectAdminDelete, ProjectAdminSetPassword, GlobalAdminCreate, GlobalAdminDelete,
         GlobalAdminSetPassword, ProjectTokenCreate, ProjectTokenRevoke
<1>9. ASSUME NEW k \in Kinds, NEW u \in Users, ForceLogoutOne(c, k, u)
      PROVE  Goal
  BY <1>2, <1>9 DEF ForceLogoutOne, Serving, At, Ending, SessionLogoutAll, SessionLogout, DropSessions
<1>10. CASE ForceLogoutAll(c) \/ Logout(c) \/ Heartbeat(c) \/ RevokeGa(c)
  BY <1>2, <1>10
     DEF ForceLogoutAll, Logout, Heartbeat, RevokeGa, Serving, At, Ending, SessionLogoutAll,
         SessionLogout, SessionHeartbeat, GlobalAdminSessionsRevokeAll, DropSessions
<1>11. ASSUME NEW p \in Passwords, ChangeVerify(c, p)
       PROVE  Goal
  BY <1>3, <1>11 DEF ChangeVerify, At, Ending
<1>12. CASE ChangeWrite(c)
  <2>1. CASE req[c].kind = "admin"
    <3>1. Goto(c, "changeAll") /\ UNCHANGED brokenOff
      BY <1>12, <2>1 DEF ChangeWrite
    <3> QED
      BY <1>1, <3>1 DEF Goal, Ending
  <2>2. CASE req[c].kind # "admin"
    <3>1. req[c].kind \in {"pa", "ga"}
      BY <1>0, <2>2 DEF Requests, Kinds
    <3>2. rootPassword' = rootPassword /\ UNCHANGED brokenOff /\ At(c, "change")
      BY <1>12, <3>1 DEF ChangeWrite, ProjectAdminSetPassword, GlobalAdminSetPassword
    <3> QED
      BY <1>2, <3>2 DEF At, Ending
  <2> QED
    BY <2>1, <2>2
<1>13. CASE SetRootPassword(c) \/ ResetRootPassword(c)
  BY <1>1, <1>13 DEF SetRootPassword, ResetRootPassword, Serving, Goal, Ending
<1>14. CASE LogoutAll(c)
  <2>1. RootSessions' = {} /\ rootPassword' = rootPassword /\ UNCHANGED brokenOff
    BY <1>14 DEF LogoutAll, SessionLogoutAll, DropSessions, RootSessions, SessionsOf
  <2> QED
    BY <2>1 DEF Goal
<1>15. CASE BreakOff(c)
  BY <1>15 DEF BreakOff, Goal, accountVars
<1>16. Super \in Users /\ "admin" \in Kinds /\ "pa" \in Kinds /\ "ga" \in Kinds
  BY FoldAssumption DEF Kinds
<1> QED
  BY <1>4, <1>5, <1>6, <1>7, <1>8, <1>9, <1>10, <1>11, <1>12, <1>13, <1>14, <1>15, <1>16
     DEF Handler, RootVerify, PaVerify, GaVerify, RootLogin, PaLogin, GaLogin

\* A root session opened before the root password was set is gone, or a handler
\* is about to end it, or one broke off before it could.
THEOREM RootSessionsEnd == ApiSpec => []RootSessionsUnderPassword
<1>1. ApiInit => RootSessionsUnderPassword
  BY DEF ApiInit, Init, RootSessionsUnderPassword, SessionsOf
<1>2. ASSUME ApiTypeOK, RootSessionsUnderPassword, [ApiNext]_vars
      PROVE  RootSessionsUnderPassword'
  <2> SUFFICES ASSUME NEW s \in RootSessions', ~brokenOff', \A d \in Clients : ~EndsSessions(d)'
               PROVE  s.since = rootPassword'
    BY DEF RootSessionsUnderPassword, RootSessions
  <2>0. /\ s.since = rootPassword \/ \E r \in RootSessions : r.since = s.since
        /\ \A d \in Clients : req'[d].step \notin Ending
        /\ \A d \in Clients : EndsSessions(d) <=> req[d].step \in Ending
    BY <1>2, RootSessionsStep DEF EndsSessions, Ending
  <2>1. CASE \E c \in Clients : Handler(c)
    <3>1. PICK c \in Clients : Handler(c)
      BY <2>1
    <3>2. rootPassword' = rootPassword /\ ~EndsSessions(c) /\ ~brokenOff
      BY <1>2, <2>0, <3>1, HandlerEnds
    <3>3. \A d \in Clients \ {c} : req'[d] = req[d]
      BY <1>2, <3>1, HandlerTypes, ReplacesType DEF ApiTypeOK
    <3>4. \A d \in Clients : ~EndsSessions(d)
      BY <2>0, <3>2, <3>3
    <3> QED
      BY <1>2, <2>0, <3>2, <3>4 DEF RootSessionsUnderPassword, RootSessions
  <2>2. CASE UNCHANGED <<rootPassword, req, brokenOff>>
    <3>1. \A d \in Clients : ~EndsSessions(d)
      BY <2>0, <2>2
    <3> QED
      BY <1>2, <2>0, <2>2, <3>1 DEF RootSessionsUnderPassword, RootSessions
  <2>3. (\E key \in ThrottleKeys : WindowEnds(key)) \/ OldServer \/ TimePasses \/ UNCHANGED vars
          => UNCHANGED <<rootPassword, req, brokenOff>>
    BY DEF WindowEnds, OldServer, LegacyLogin, WriteSession, TimePasses, Expire, vars, accountVars
  <2> QED
    BY <1>2, <2>1, <2>2, <2>3 DEF ApiNext
<1> QED
  BY <1>1, <1>2, ApiTypeCorrect, PTL DEF ApiSpec

-----------------------------------------------------------------------------
(* The throttle *)

\* The handlers that passed the throttle under a key with a wrong password and
\* have not counted the failure yet.
Pending(key) ==
    {c \in Clients : \/ req[c].step = "wrong" /\ key = PeerKey
                     \/ req[c].step = "wrongOwn" /\ key = MeKey(req[c].kind, req[c].user)}

\* Every failure that was or will be counted passed the throttle when fewer
\* than MaxFails were counted: the inductive form of FailuresBounded.
ThrottleInv ==
    \A key \in ThrottleKeys :
        fails[key] + Cardinality(Pending(key)) < MaxFails + Cardinality(Clients)

\* The handlers with a failure to count are some of the handlers.
LEMMA PendingCount ==
    ASSUME NEW key
    PROVE  /\ IsFiniteSet(Pending(key)) /\ Cardinality(Pending(key)) \in Nat
           /\ Cardinality(Pending(key)) <= Cardinality(Clients)
           /\ Cardinality(Clients) \in Nat
<1>1. Pending(key) \subseteq Clients /\ IsFiniteSet(Clients)
  BY ApiAssumption DEF Pending
<1> QED
  BY <1>1, FS_Subset, FS_CardinalityType

\* A step that passes the throttle under no key, and counts nothing, keeps the
\* bound.
LEMMA ThrottleKept ==
    ASSUME ApiTypeOK, ApiTypeOK', ThrottleInv, NEW key \in ThrottleKeys,
           fails'[key] <= fails[key], Pending(key)' \subseteq Pending(key)
    PROVE  (fails[key] + Cardinality(Pending(key)) < MaxFails + Cardinality(Clients))'
<1>1. Cardinality(Pending(key)') <= Cardinality(Pending(key)) /\ Cardinality(Pending(key)') \in Nat
  BY PendingCount, FS_Subset, FS_CardinalityType
<1>2. fails[key] \in Nat /\ fails'[key] \in Nat
  BY DEF ApiTypeOK
<1>3. fails[key] + Cardinality(Pending(key)) < MaxFails + Cardinality(Clients)
  BY DEF ThrottleInv
<1> QED
  BY <1>1, <1>2, <1>3, PendingCount, ApiAssumption

\* A step that passes the throttle under a key keeps the bound.
LEMMA ThrottlePassed ==
    ASSUME ApiTypeOK, ApiTypeOK', NEW key \in ThrottleKeys, ~Blocked(key), fails' = fails
    PROVE  (fails[key] + Cardinality(Pending(key)) < MaxFails + Cardinality(Clients))'
<1>1. Pending(key)' \subseteq Clients /\ IsFiniteSet(Clients)
  BY ApiAssumption DEF Pending
<1>2. /\ Cardinality(Pending(key)') <= Cardinality(Clients)
      /\ Cardinality(Pending(key)') \in Nat /\ Cardinality(Clients) \in Nat
  BY <1>1, FS_Subset, FS_CardinalityType
<1>3. fails[key] < MaxFails /\ fails[key] \in Nat /\ MaxFails \in Nat
  BY ApiAssumption DEF Blocked, ApiTypeOK
<1> QED
  BY <1>2, <1>3

\* Handlers that neither verify a password nor count a failure: the counts do
\* not grow and the handler has no failure to count.
Harmless(c) ==
    /\ \A key \in ThrottleKeys : fails'[key] <= fails[key]
    /\ req'[c].step \notin {"wrong", "wrongOwn"}

\* A handler that verifies a password passed the throttle under its key.
Passes(c) ==
    /\ fails' = fails
    /\ \E key \in ThrottleKeys : ~Blocked(key) /\ \A k \in ThrottleKeys : c \in Pending(k)' => k = key

\* There is no third kind of step besides the count of a failure.
LEMMA HandlerThrottle ==
    ASSUME ApiTypeOK, NEW c \in Clients, Handler(c)
    PROVE  Harmless(c) \/ Passes(c) \/ RecordFailure(c)
<1> DEFINE Goal == Harmless(c) \/ Passes(c) \/ RecordFailure(c)
<1> SUFFICES Goal
  OBVIOUS
<1>0. /\ req \in [Clients -> Requests] /\ req[c] \in Requests
      /\ fails \in [ThrottleKeys -> Nat]
      /\ req[c].kind \in Kinds /\ req[c].user \in Users
  BY DEF ApiTypeOK, Requests
<1>1. \A step : Goto(c, step) => req'[c].step = step
  BY <1>0 DEF Goto, Requests
<1>2. Done(c) => req'[c].step = "idle"
  BY <1>0 DEF Done, Idle
<1>3. UNCHANGED fails => \A key \in ThrottleKeys : fails'[key] <= fails[key]
  BY <1>0
<1>4. \A k \in ThrottleKeys : NoFailure(k) => \A key \in ThrottleKeys : fails'[key] <= fails[key]
  BY <1>0 DEF NoFailure
<1>5. (UNCHANGED fails /\ (Done(c) \/ Goto(c, "checkGa") \/ Goto(c, "revokeGa")
          \/ Goto(c, "logoutAll") \/ Goto(c, "resetAll") \/ Goto(c, "changeAll"))) => Goal
  BY <1>1, <1>2, <1>3 DEF Harmless
<1>6. \A k \in ThrottleKeys : NoFailure(k) /\ Done(c) => Goal
  BY <1>2, <1>4 DEF Harmless
<1> HIDE DEF Goal
<1>7. ASSUME NEW k \in Kinds, NEW u \in Users, NEW p \in Passwords, Verify(c, k, u, p)
      PROVE  Goal
  <2>1. req'[c].step \in {"login", "wrong"} /\ fails' = fails /\ ~Blocked(PeerKey)
    BY <1>0, <1>7 DEF Verify, Idle
  <2>2. \A key : c \in Pending(key)' => key = PeerKey
    BY <2>1 DEF Pending
  <2> QED
    BY <2>1, <2>2, KeyType DEF Goal, Passes
<1>8. CASE RecordFailure(c)
  BY <1>8 DEF Goal
<1>9. CASE LoginRefused(c) \/ CheckGa(c) \/ BreakOff(c) \/ RevokeGa(c)
  BY <1>5, <1>9 DEF LoginRefused, CheckGa, BreakOff, RevokeGa
<1>10. ASSUME NEW k \in Kinds, NEW sid \in Sids, OpenSession(c, k, sid)
       PROVE  Goal
  <2>1. CASE UNCHANGED <<req, fails>>
    BY <1>3, <1>10, <2>1 DEF OpenSession, At, Harmless, Goal
  <2>2. CASE Done(c) /\ NoFailure(PeerKey)
    BY <1>6, <2>2, KeyType
  <2> QED
    BY <1>10, <2>1, <2>2 DEF OpenSession
<1>11. ASSUME NEW k \in Kinds, NEW u \in Users, NEW sid \in Sids \cup {NoSid}, Admit(c, k, u, sid)
       PROVE  Goal
  <2>1. req'[c].step = "admitted" /\ UNCHANGED fails
    BY <1>0, <1>11 DEF Admit
  <2> QED
    BY <1>3, <2>1 DEF Harmless, Goal
<1>12. CASE ManageAccounts(c)
  BY <1>5, <1>12
     DEF ManageAccounts, CreateProject, DeleteProject, CreateProjectAdmin, DeleteProjectAdmin,
         ResetProjectAdmin, CreateGlobalAdmin, DeleteGlobalAdmin, ResetGlobalAdmin, CreateToken,
         RevokeToken, Serving
<1>13. ASSUME NEW k \in Kinds, NEW u \in Users, ForceLogoutOne(c, k, u)
       PROVE  Goal
  BY <1>5, <1>13 DEF ForceLogoutOne, Serving
<1>14. CASE ForceLogoutAll(c) \/ Logout(c) \/ Heartbeat(c) \/ SetRootPassword(c) \/ ResetRootPassword(c)
  BY <1>5, <1>14 DEF ForceLogoutAll, Logout, Heartbeat, SetRootPassword, ResetRootPassword, Serving
<1>15. ASSUME NEW p \in Passwords, ChangeVerify(c, p)
       PROVE  Goal
  <2> DEFINE key == MeKey(req[c].kind, req[c].user)
  <2>1. /\ req'[c].step \in {"change", "wrongOwn"} /\ req'[c].kind = req[c].kind
        /\ req'[c].user = req[c].user /\ fails' = fails /\ ~Blocked(key)
    BY <1>0, <1>15 DEF ChangeVerify, Requests
  <2>2. key \in ThrottleKeys
    BY <1>0, KeyType
  <2>3. \A k : c \in Pending(k)' => k = key
    BY <2>1 DEF Pending
  <2> QED
    BY <2>1, <2>2, <2>3 DEF Goal, Passes
<1>16. CASE ChangeWrite(c)
  BY <1>0, <1>5, <1>6, <1>16, KeyType DEF ChangeWrite
<1>17. CASE LogoutAll(c)
  <2>1. MeKey("admin", Super) \in ThrottleKeys
    BY KeyType, FoldAssumption DEF Kinds
  <2>2. CASE At(c, "changeAll")
    BY <1>6, <1>17, <2>1, <2>2 DEF LogoutAll, At
  <2>3. CASE ~At(c, "changeAll")
    BY <1>5, <1>17, <2>3 DEF LogoutAll
  <2> QED
    BY <2>2, <2>3
<1>18. Super \in Users /\ "admin" \in Kinds /\ "pa" \in Kinds /\ "ga" \in Kinds
  BY FoldAssumption DEF Kinds
<1> QED
  BY <1>7, <1>8, <1>9, <1>10, <1>11, <1>12, <1>13, <1>14, <1>15, <1>16, <1>17, <1>18
     DEF Handler, RootVerify, PaVerify, GaVerify, RootLogin, PaLogin, GaLogin

\* Counting a failure moves it from those that are pending to those counted.
LEMMA FailureCounted ==
    ASSUME ApiTypeOK, ApiTypeOK', ThrottleInv, NEW c \in Clients, RecordFailure(c)
    PROVE  ThrottleInv'
<1> DEFINE counted == IF req[c].step = "wrong" THEN PeerKey ELSE MeKey(req[c].kind, req[c].user)
<1>0. /\ req \in [Clients -> Requests] /\ fails \in [ThrottleKeys -> Nat]
      /\ req[c].kind \in Kinds /\ req[c].user \in Users
  BY DEF ApiTypeOK, Requests
<1>1. counted \in ThrottleKeys
  BY <1>0, KeyType
<1>2. fails' = [fails EXCEPT ![counted] = @ + 1] /\ c \in Pending(counted)
  BY DEF RecordFailure, Pending
<1>3. req' = [req EXCEPT ![c] = Idle] /\ req'[c].step = "idle"
  BY <1>0 DEF RecordFailure, Done, Idle
<1>4. \A key : Pending(key)' = Pending(key) \ {c}
  BY <1>0, <1>3 DEF Pending
<1> HIDE DEF counted
<1> SUFFICES ASSUME NEW key \in ThrottleKeys
             PROVE  (fails[key] + Cardinality(Pending(key)) < MaxFails + Cardinality(Clients))'
  BY DEF ThrottleInv
<1>5. CASE key = counted
  <2>1. Cardinality(Pending(key)') = Cardinality(Pending(key)) - 1
    BY <1>2, <1>4, <1>5, PendingCount, FS_RemoveElement
  <2>2. fails'[key] = fails[key] + 1 /\ fails[key] \in Nat
    BY <1>0, <1>1, <1>2, <1>5
  <2>3. fails[key] + Cardinality(Pending(key)) < MaxFails + Cardinality(Clients)
    BY DEF ThrottleInv
  <2> QED
    BY <2>1, <2>2, <2>3, PendingCount, ApiAssumption
<1>6. CASE key # counted
  <2>1. fails'[key] <= fails[key]
    BY <1>0, <1>2, <1>6
  <2> QED
    BY <1>4, <2>1, ThrottleKept
<1> QED
  BY <1>5, <1>6

\* Every step keeps the bound.
LEMMA ThrottleStep ==
    ASSUME ApiTypeOK, ThrottleInv, [ApiNext]_vars
    PROVE  ThrottleInv'
<1>0. ApiTypeOK' /\ req \in [Clients -> Requests] /\ fails \in [ThrottleKeys -> Nat]
  BY ApiTypeStep DEF ApiTypeOK
<1>1. CASE \E c \in Clients : Handler(c)
  <2>1. PICK c \in Clients : Handler(c)
    BY <1>1
  <2>2. \A d \in Clients \ {c} : req'[d] = req[d]
    BY <1>0, <2>1, HandlerTypes, ReplacesType
  <2>3. \A key : \A d \in Pending(key)' : d \in Pending(key) \/ d = c
    BY <2>2 DEF Pending
  <2>4. CASE Harmless(c)
    <3>1. \A key : c \notin Pending(key)'
      BY <2>4 DEF Harmless, Pending
    <3>2. \A key : Pending(key)' \subseteq Pending(key)
      BY <2>3, <3>1
    <3> QED
      BY <1>0, <2>4, <3>2, ThrottleKept DEF Harmless, ThrottleInv
  <2>5. CASE Passes(c)
    <3>1. PICK key \in ThrottleKeys : ~Blocked(key) /\ \A k \in ThrottleKeys : c \in Pending(k)' => k = key
      BY <2>5 DEF Passes
    <3>2. fails' = fails /\ \A k \in ThrottleKeys : fails'[k] <= fails[k]
      BY <1>0, <2>5 DEF Passes
    <3>3. \A k \in ThrottleKeys : k # key => Pending(k)' \subseteq Pending(k)
      BY <2>3, <3>1
    <3> QED
      BY <1>0, <3>1, <3>2, <3>3, ThrottleKept, ThrottlePassed DEF ThrottleInv
  <2>6. CASE RecordFailure(c)
    BY <1>0, <2>6, FailureCounted
  <2> QED
    BY <2>1, <2>4, <2>5, <2>6, HandlerThrottle
<1>2. CASE UNCHANGED req /\ \A key \in ThrottleKeys : fails'[key] <= fails[key]
  <2>1. \A key : Pending(key)' \subseteq Pending(key)
    BY <1>2 DEF Pending
  <2> QED
    BY <1>0, <1>2, <2>1, ThrottleKept DEF ThrottleInv
<1>3. (\E key \in ThrottleKeys : WindowEnds(key)) \/ OldServer \/ TimePasses \/ UNCHANGED vars
        => UNCHANGED req /\ \A key \in ThrottleKeys : fails'[key] <= fails[key]
  BY <1>0 DEF WindowEnds, NoFailure, OldServer, TimePasses, vars
<1> QED
  BY <1>1, <1>2, <1>3 DEF ApiNext

\* However many requests race past the throttle, the failures counted in a
\* window exceed the limit by less than the number of handlers.
THEOREM FailuresStayBounded ==
    ASSUME Clients # {}
    PROVE  ApiSpec => []FailuresBounded
<1>1. ApiInit => ThrottleInv
  <2> SUFFICES ASSUME ApiInit, NEW key \in ThrottleKeys
               PROVE  fails[key] + Cardinality(Pending(key)) < MaxFails + Cardinality(Clients)
    BY DEF ThrottleInv
  <2>1. Pending(key) = {} /\ fails[key] = 0
    BY DEF ApiInit, Pending, Idle
  <2>2. Cardinality(Pending(key)) = 0
    BY <2>1, FS_EmptySet
  <2>3. Cardinality(Clients) \in Nat /\ Cardinality(Clients) # 0
    BY ApiAssumption, FS_CardinalityType, FS_EmptySet
  <2> QED
    BY <2>1, <2>2, <2>3, ApiAssumption
<1>2. ApiTypeOK /\ ThrottleInv /\ [ApiNext]_vars => ThrottleInv'
  BY ThrottleStep
<1>3. ASSUME ApiTypeOK, ThrottleInv, NEW key \in ThrottleKeys
      PROVE  fails[key] < MaxFails + Cardinality(Clients)
  <2>1. fails[key] + Cardinality(Pending(key)) < MaxFails + Cardinality(Clients) /\ fails[key] \in Nat
    BY <1>3 DEF ThrottleInv, ApiTypeOK
  <2> QED
    BY <2>1, PendingCount, ApiAssumption
<1>4. ApiTypeOK /\ ThrottleInv => FailuresBounded
  BY <1>3 DEF FailuresBounded
<1> QED
  BY <1>1, <1>2, <1>4, ApiTypeCorrect, PTL DEF ApiSpec

-----------------------------------------------------------------------------
(* Tokens *)

\* A hash belongs to one token.
TokensUnique == \A r, t \in tokens : r.id = t.id => r = t

\* Commands other than those on tokens and projects leave the tokens alone.
LEMMA TokenSteps ==
    ASSUME TypeOK, [Next]_accountVars
    PROVE  \/ tokens' \subseteq tokens
           \/ \E p \in Projects, t \in Tokens : ProjectTokenRevoke(p, t)
           \/ \E p \in Projects, n \in TokenNames, t \in Tokens : ProjectTokenCreate(p, n, t)
<1>1. CASE SessionCommand \/ GlobalAdminSessionsRevokeAll \/ \E s \in sessions : Expire(s)
  BY <1>1, SessionSteps DEF SessionStep
<1>2. CASE AdminSetPassword \/ UNCHANGED accountVars
  BY <1>2 DEF AdminSetPassword, accountVars
<1>3. CASE AccountCommand
  BY <1>3
     DEF AccountCommand, ProjectCreate, ProjectDelete, ProjectAdminCreate, ProjectAdminDelete,
         ProjectAdminSetPassword, GlobalAdminCreate, GlobalAdminDelete, GlobalAdminSetPassword
<1> QED
  BY <1>1, <1>2, <1>3 DEF Next

\* Hashes stay unique, and a token that was revoked stays revoked.
LEMMA TokensStep ==
    ASSUME TypeOK, TokensUnique, [Next]_accountVars
    PROVE  /\ TokensUnique'
           /\ \A t \in tokens : t.revoked => \A r \in tokens' : r.id = t.id => r.revoked
<1>0. \A t \in tokens : t.revoked \in BOOLEAN
  BY DEF TypeOK, TokenRecords
<1>1. CASE tokens' \subseteq tokens
  BY <1>1 DEF TokensUnique
<1>2. ASSUME NEW p \in Projects, NEW t \in Tokens, ProjectTokenRevoke(p, t)
      PROVE  /\ TokensUnique'
             /\ \A s \in tokens : s.revoked => \A r \in tokens' : r.id = s.id => r.revoked
  <2> DEFINE found == {r \in tokens : r.id = t /\ r.project = p}
             set(r) == [r EXCEPT !.revoked = TRUE]
  <2>1. \A r \in tokens : set(r).id = r.id /\ set(r).revoked = TRUE
    BY DEF TypeOK, TokenRecords
  <2>2. tokens' = (tokens \ found) \cup {set(r) : r \in found}
    BY <1>2 DEF ProjectTokenRevoke
  <2> HIDE DEF set
  <2>3. \A r \in tokens' : (r \in tokens /\ r \notin found) \/ \E q \in found : r = set(q)
    BY <2>2
  <2>4. \A q \in found : q \in tokens
    OBVIOUS
  <2> HIDE DEF found
  <2>5. TokensUnique'
    BY <2>1, <2>3, <2>4 DEF TokensUnique
  <2>6. \A s \in tokens : s.revoked => \A r \in tokens' : r.id = s.id => r.revoked
    BY <2>1, <2>3, <2>4 DEF TokensUnique
  <2> QED
    BY <2>5, <2>6
<1>3. ASSUME NEW p \in Projects, NEW n \in TokenNames, NEW t \in Tokens, ProjectTokenCreate(p, n, t)
      PROVE  /\ TokensUnique'
             /\ \A s \in tokens : s.revoked => \A r \in tokens' : r.id = s.id => r.revoked
  <2> DEFINE made == [id |-> t, project |-> p, name |-> n, revoked |-> FALSE]
  <2>1. made.id = t
    OBVIOUS
  <2>2. tokens' = tokens \cup {made} /\ \A r \in tokens : r.id # t
    BY <1>3 DEF ProjectTokenCreate
  <2> HIDE DEF made
  <2> QED
    BY <2>1, <2>2, Zenon DEF TokensUnique
<1> QED
  BY <1>1, <1>2, <1>3, TokenSteps

\* A token that was revoked opens nothing any more, whatever tokens are created
\* and revoked.
THEOREM RevokedStaysRevoked == ApiSpec => RevokedOpensNothing
<1>1. Init => TokensUnique
  BY DEF Init, TokensUnique
<1>2. TypeOK /\ TokensUnique /\ [Next]_accountVars => TokensUnique'
  BY TokensStep
<1>3. ApiSpec => [](ApiTypeOK /\ TokensUnique)
  BY <1>1, <1>2, ApiTypeCorrect, ApiImplementsAccounts, AccountsTypeCorrect, PTL DEF Spec
<1>4. ASSUME ApiTypeOK, TokensUnique, [ApiNext]_vars
      PROVE  RevokedRefused
  <2>1. \A t \in tokens : t.revoked => \A r \in tokens' : r.id = t.id => r.revoked
    BY <1>4, ApiCommands, TokensStep DEF ApiTypeOK
  <2> QED
    BY <2>1 DEF TokenOpens, RevokedRefused
<1>5. ApiTypeOK /\ TokensUnique /\ [ApiNext]_vars => [RevokedRefused]_vars
  BY <1>4
<1> QED
  BY <1>3, <1>5, PTL DEF ApiSpec, RevokedOpensNothing
=============================================================================
