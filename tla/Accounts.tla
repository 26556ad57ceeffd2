------------------------------ MODULE Accounts ------------------------------
(* The credentials of the replicated state machine (dsh-core state.rs): the  *)
(* root password, project administrators (PA), global administrators (GA),   *)
(* their sessions and the access tokens of projects.  One action per         *)
(* command; a command runs alone, in the order of the log.                   *)
(* Passwords are numbered in the order in which they are set: an account     *)
(* never gets the number of another one, and a password presented at a login *)
(* is right when it has the account's number.                                *)
EXTENDS Naturals, FiniteSets

CONSTANTS
    Users,         \* user names, the reserved one of the root account included
    Super,         \* the reserved name "admin"
    Fold,          \* a name folded to one case
    Projects,      \* project names
    Under,         \* the projects whose keys start with the key of a project
    Sids,          \* session ids
    NoSid,         \* the key without a session id of the first session format
    Tokens,        \* hashes of access tokens
    TokenNames,
    NoProject,
    MaxPassword,   \* bound on the number of passwords ever set
    MaxSessions    \* bound on the sessions at a time

ASSUME FoldAssumption == Fold \in [Users -> Users] /\ Super \in Users
ASSUME UnderAssumption ==
    Under \in [Projects -> SUBSET Projects] /\ \A p \in Projects : p \in Under[p]
ASSUME AbsentAssumption == NoProject \notin Projects /\ NoSid \notin Sids
ASSUME BoundsAssumption == MaxPassword \in Nat /\ MaxSessions \in Nat

VARIABLES
    projects,      \* projects that exist
    rootPassword,  \* the root account's password
    pas,           \* PA accounts, adm/pa/{user}
    gas,           \* GA accounts, adm/ga/{user}
    sessions,      \* sess/admin, sess/pa and sess/ga, all formats
    tokens,        \* tok/{hash}
    lastPassword   \* the number of the last password set

accountVars == <<projects, rootPassword, pas, gas, sessions, tokens, lastPassword>>

Kinds == {"admin", "pa", "ga"}
Passwords == 0 .. MaxPassword
PaAccounts == [user : Users, project : Projects, pw : Passwords]
GaAccounts == [user : Users, pw : Passwords]

(* proved is the password that the login had verified, since the one in      *)
(* force when the session was written; the code keeps neither.               *)
Sessions == [kind : Kinds, user : Users, sid : Sids \cup {NoSid},
             project : Projects \cup {NoProject},
             proved : Passwords, since : Passwords, live : BOOLEAN]
TokenRecords == [id : Tokens, project : Projects, name : TokenNames, revoked : BOOLEAN]

TypeOK ==
    /\ projects \subseteq Projects
    /\ rootPassword \in Passwords
    /\ pas \subseteq PaAccounts
    /\ gas \subseteq GaAccounts
    /\ sessions \subseteq Sessions
    /\ tokens \subseteq TokenRecords
    /\ lastPassword \in Passwords

Init ==
    /\ projects = {}
    /\ rootPassword = 0
    /\ pas = {}
    /\ gas = {}
    /\ sessions = {}
    /\ tokens = {}
    /\ lastPassword = 0

-----------------------------------------------------------------------------
(* Reading                                                                   *)

PaNamed(u) == {a \in pas : a.user = u}
GaNamed(u) == {a \in gas : a.user = u}
SessionsOf(k, u) == {s \in sessions : s.kind = k /\ s.user = u}
SessionsAt(k, u, sid) == {s \in SessionsOf(k, u) : s.sid = sid}

SameName(u, v) == Fold[u] = Fold[v]
ValidUser(u) == ~SameName(u, Super)
\* Mutant: names are compared as they are written.
PaNameTakenExact(u) == \E a \in pas : a.user = u
PaNameTaken(u) == \E a \in pas : SameName(a.user, u)
GaNameTaken(u) == \E a \in gas : SameName(a.user, u)

(* The password against which a principal is verified.                       *)
PasswordsOf(k, u) ==
    CASE k = "admin" -> {rootPassword}
      [] k = "pa" -> {a.pw : a \in PaNamed(u)}
      [] k = "ga" -> {a.pw : a \in GaNamed(u)}

\* Mutant: the principal is given the name of the user for its project.
ProjectsOfSwapped(k, u) == IF k = "pa" THEN {a.user : a \in PaNamed(u)} ELSE {NoProject}

(* The project written into the session's principal: the account's, as the   *)
(* command finds it.                                                         *)
ProjectsOf(k, u) == IF k = "pa" THEN {a.project : a \in PaNamed(u)} ELSE {NoProject}

-----------------------------------------------------------------------------
(* Projects                                                                  *)

ProjectCreate(p) ==
    /\ p \notin projects
    /\ projects' = projects \cup {p}
    /\ UNCHANGED <<rootPassword, pas, gas, sessions, tokens, lastPassword>>

(* The project's keys go by prefix; its accounts, their sessions and its     *)
(* tokens by the name they hold.                                             *)
OfProject(p) == {a \in pas : a.project = p}

\* Mutant: the project's tokens stay, they are not under its prefix.
ProjectDeleteTokensStay(p) ==
    /\ p \in projects
    /\ projects' = projects \ Under[p]
    /\ pas' = pas \ OfProject(p)
    /\ sessions' = sessions \ UNION {SessionsOf("pa", a.user) : a \in OfProject(p)}
    /\ UNCHANGED <<rootPassword, gas, tokens, lastPassword>>

ProjectDelete(p) ==
    /\ p \in projects
    /\ projects' = projects \ Under[p]
    /\ pas' = pas \ OfProject(p)
    /\ sessions' = sessions \ UNION {SessionsOf("pa", a.user) : a \in OfProject(p)}
    /\ tokens' = {t \in tokens : t.project # p}
    /\ UNCHANGED <<rootPassword, gas, lastPassword>>

-----------------------------------------------------------------------------
(* Accounts                                                                  *)

(* Every command that carries a password carries a new one.                  *)
NewPassword ==
    /\ lastPassword < MaxPassword
    /\ lastPassword' = lastPassword + 1

ProjectAdminCreate(p, u) ==
    /\ ValidUser(u)
    /\ p \in projects
    /\ PaNamed(u) = {}
    /\ ~GaNameTaken(u)
    /\ NewPassword
    /\ pas' = pas \cup {[user |-> u, project |-> p, pw |-> lastPassword + 1]}
    /\ UNCHANGED <<projects, rootPassword, gas, sessions, tokens>>

\* Mutant: the account goes without its sessions.
ProjectAdminDeleteAlone(u) ==
    /\ PaNamed(u) # {}
    /\ pas' = pas \ PaNamed(u)
    /\ UNCHANGED <<projects, rootPassword, gas, sessions, tokens, lastPassword>>

ProjectAdminDelete(u) ==
    /\ PaNamed(u) # {}
    /\ pas' = pas \ PaNamed(u)
    /\ sessions' = sessions \ SessionsOf("pa", u)
    /\ UNCHANGED <<projects, rootPassword, gas, tokens, lastPassword>>

ProjectAdminSetPassword(u) ==
    /\ PaNamed(u) # {}
    /\ NewPassword
    /\ pas' = (pas \ PaNamed(u)) \cup {[a EXCEPT !.pw = lastPassword + 1] : a \in PaNamed(u)}
    /\ sessions' = sessions \ SessionsOf("pa", u)
    /\ UNCHANGED <<projects, rootPassword, gas, tokens>>

GlobalAdminCreate(u) ==
    /\ ValidUser(u)
    /\ GaNamed(u) = {}
    /\ ~PaNameTaken(u)
    /\ NewPassword
    /\ gas' = gas \cup {[user |-> u, pw |-> lastPassword + 1]}
    /\ UNCHANGED <<projects, rootPassword, pas, sessions, tokens>>

GlobalAdminDelete(u) ==
    /\ GaNamed(u) # {}
    /\ gas' = gas \ GaNamed(u)
    /\ sessions' = sessions \ SessionsOf("ga", u)
    /\ UNCHANGED <<projects, rootPassword, pas, tokens, lastPassword>>

\* Mutant: the sessions stay.
GlobalAdminSetPasswordAlone(u) ==
    /\ GaNamed(u) # {}
    /\ NewPassword
    /\ gas' = (gas \ GaNamed(u)) \cup {[a EXCEPT !.pw = lastPassword + 1] : a \in GaNamed(u)}
    /\ UNCHANGED <<projects, rootPassword, pas, sessions, tokens>>

GlobalAdminSetPassword(u) ==
    /\ GaNamed(u) # {}
    /\ NewPassword
    /\ gas' = (gas \ GaNamed(u)) \cup {[a EXCEPT !.pw = lastPassword + 1] : a \in GaNamed(u)}
    /\ sessions' = sessions \ SessionsOf("ga", u)
    /\ UNCHANGED <<projects, rootPassword, pas, tokens>>

(* The root password alone: the sessions go with a command of their own.     *)
AdminSetPassword ==
    /\ NewPassword
    /\ rootPassword' = lastPassword + 1
    /\ UNCHANGED <<projects, pas, gas, sessions, tokens>>

-----------------------------------------------------------------------------
(* Sessions                                                                  *)

Opened(k, u, sid, p, q) ==
    {[kind |-> k, user |-> u, sid |-> sid, project |-> r, proved |-> p,
      since |-> q, live |-> TRUE] : r \in ProjectsOf(k, u)}

WriteSession(k, u, sid, proved) ==
    /\ Cardinality(sessions) < MaxSessions
    /\ \E since \in PasswordsOf(k, u) :
        sessions' = (sessions \ SessionsAt(k, u, sid)) \cup Opened(k, u, sid, proved, since)
    /\ UNCHANGED <<projects, rootPassword, pas, gas, tokens, lastPassword>>

(* MultiSessionLogin, MultiPaSessionLogin, MultiGaSessionLogin: sessions     *)
(* live side by side; no account, no session.                                *)
SessionLogin(k, u, sid, proved) ==
    /\ sid \in Sids
    /\ k = "admin" <=> u = Super
    /\ WriteSession(k, u, sid, proved)

(* SessionLogin and PaSessionLogin of the first format, from the logs and    *)
(* the servers of older releases: one session, expired or not, shuts out the *)
(* next.  There is no such format for a GA.                                  *)
LegacyLogin(k, u, proved) ==
    /\ k # "ga"
    /\ k = "admin" <=> u = Super
    /\ SessionsAt(k, u, NoSid) = {}
    /\ WriteSession(k, u, NoSid, proved)

SessionHeartbeat(k, u, sid) ==
    /\ SessionsAt(k, u, sid) # {}
    /\ sessions' = (sessions \ SessionsAt(k, u, sid))
                     \cup {[s EXCEPT !.live = TRUE] : s \in SessionsAt(k, u, sid)}
    /\ UNCHANGED <<projects, rootPassword, pas, gas, tokens, lastPassword>>

DropSessions(S) ==
    /\ sessions' = sessions \ S
    /\ UNCHANGED <<projects, rootPassword, pas, gas, tokens, lastPassword>>

SessionLogout(k, u, sid) == DropSessions(SessionsAt(k, u, sid))

\* Mutant: only the key of the first format is deleted.
SessionLogoutAllLegacy(k, u) == DropSessions(SessionsAt(k, u, NoSid))
SessionLogoutAll(k, u) == DropSessions(SessionsOf(k, u))

(* Every GA account's sessions, found by the keys of the accounts.           *)
GlobalAdminSessionsRevokeAll ==
    DropSessions(UNION {SessionsOf("ga", a.user) : a \in gas})

(* The clock passes expires_at; the record stays.                            *)
Expire(s) ==
    /\ s \in sessions /\ s.live
    /\ sessions' = (sessions \ {s}) \cup {[s EXCEPT !.live = FALSE]}
    /\ UNCHANGED <<projects, rootPassword, pas, gas, tokens, lastPassword>>

-----------------------------------------------------------------------------
(* Access tokens                                                             *)

(* A hash that is there already is a retry and changes nothing; a name is    *)
(* taken by a revoked token too.                                             *)
NameFree(p, n) == \A r \in tokens : ~(r.project = p /\ r.name = n)

ProjectTokenCreate(p, n, t) ==
    /\ p \in projects
    /\ \A r \in tokens : r.id # t
    /\ NameFree(p, n)
    /\ tokens' = tokens \cup {[id |-> t, project |-> p, name |-> n, revoked |-> FALSE]}
    /\ UNCHANGED <<projects, rootPassword, pas, gas, sessions, lastPassword>>

ProjectTokenRevoke(p, t) ==
    LET found == {r \in tokens : r.id = t /\ r.project = p} IN
    /\ found # {}
    /\ tokens' = (tokens \ found) \cup {[r EXCEPT !.revoked = TRUE] : r \in found}
    /\ UNCHANGED <<projects, rootPassword, pas, gas, sessions, lastPassword>>

-----------------------------------------------------------------------------
AccountCommand ==
    \/ \E p \in Projects : ProjectCreate(p) \/ ProjectDelete(p)
    \/ \E u \in Users :
        \/ \E p \in Projects : ProjectAdminCreate(p, u)
        \/ ProjectAdminDelete(u) \/ ProjectAdminSetPassword(u)
        \/ GlobalAdminCreate(u) \/ GlobalAdminDelete(u) \/ GlobalAdminSetPassword(u)
    \/ \E p \in Projects, t \in Tokens :
        ProjectTokenRevoke(p, t) \/ \E n \in TokenNames : ProjectTokenCreate(p, n, t)

SessionCommand ==
    \E k \in Kinds, u \in Users :
        \/ \E sid \in Sids, q \in Passwords : SessionLogin(k, u, sid, q)
        \/ \E q \in Passwords : LegacyLogin(k, u, q)
        \/ \E sid \in Sids \cup {NoSid} : SessionHeartbeat(k, u, sid) \/ SessionLogout(k, u, sid)
        \/ SessionLogoutAll(k, u)

Next ==
    \/ AccountCommand
    \/ SessionCommand
    \/ AdminSetPassword
    \/ GlobalAdminSessionsRevokeAll
    \/ \E s \in sessions : Expire(s)

Spec == Init /\ [][Next]_accountVars

-----------------------------------------------------------------------------
(* One name, one person: no GA name is a PA name or the root account's in    *)
(* another case, in whatever order accounts are created and deleted (state.rs *)
(* apply_project_admin_create, apply_global_admin_create; the login tries    *)
(* GA names first and relies on it).                                         *)
NamesExclusive ==
    /\ \A a \in pas, b \in gas : ~SameName(a.user, b.user)
    /\ \A a \in pas \cup gas : ValidUser(a.user)
    /\ \A a, b \in pas : a.user = b.user => a = b
    /\ \A a, b \in gas : a.user = b.user => a = b

(* A session never outlives its account nor speaks for another project than  *)
(* the account's: an account deleted and created again elsewhere starts      *)
(* without sessions, and a late login gets the project of the account that   *)
(* is there (apply_multi_pa_session_login, apply_project_delete).            *)
SessionsOwned ==
    \A s \in sessions :
        /\ s.kind = "pa" => \E a \in pas : a.user = s.user /\ a.project = s.project
        /\ s.kind = "ga" => \E a \in gas : a.user = s.user

(* A session written before the account's password was set is gone: what the *)
(* cascade of the password commands promises for GA and PA.                  *)
SessionsUnderPassword ==
    \A s \in sessions : s.kind # "admin" => s.since \in PasswordsOf(s.kind, s.user)

(* Its keys start with those of no other project.                            *)
OwnName(p) == \A r \in Projects : p \in Under[r] => r = p

(* The cascade of a deletion (apply_project_delete) leaves no account and no *)
(* token that a new project of the name would inherit, also when the keys of *)
(* other projects are deleted with those of the project.  It holds for the   *)
(* projects that cannot vanish with another one.                             *)
NoOrphans ==
    /\ \A a \in pas : OwnName(a.project) => a.project \in projects
    /\ \A t \in tokens : OwnName(t.project) => t.project \in projects

(* The comments of the cascade (state.rs:1467, 1472): all the accounts and   *)
(* the tokens of a project go with it.                                       *)
NothingInherited ==
    /\ \A a \in pas : a.project \in projects
    /\ \A t \in tokens : t.project \in projects
=============================================================================
