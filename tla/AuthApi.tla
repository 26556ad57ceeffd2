------------------------------- MODULE AuthApi -------------------------------
(* The handlers of dsh-api that log in, change passwords and end sessions.   *)
(* A handler reads the state under a lock that it gives up, spends its time   *)
(* on argon2, and then writes one or more commands, each through the log:    *)
(* other handlers run in between, and a handler may end between its writes   *)
(* (death of the node, loss of leadership, the client's deadline).           *)
EXTENDS Accounts

CONSTANTS
    Clients,       \* handlers that run at a time
    MaxFails,      \* LoginThrottle.max_failures
    Guessed        \* bound: the throttle keys under which wrong passwords come

PeerKey == <<"peer", Super>>          \* the peer's address, at a login
MeKey(k, u) == <<k, u>>               \* the principal, at a change of its password
ThrottleKeys == {PeerKey} \cup (Kinds \X Users)

ASSUME ApiAssumption ==
    MaxFails \in Nat /\ IsFiniteSet(Clients) /\ Guessed \subseteq ThrottleKeys

VARIABLES
    req,           \* what a handler has established and still has to do
    fails,         \* LoginThrottle.inner, the failures of the window by key
    brokenOff      \* some handler ended after a root password, before the log-outs

vars == <<accountVars, req, fails, brokenOff>>

Idle == [step |-> "idle", kind |-> "admin", user |-> Super, sid |-> NoSid, pw |-> 0]
Steps == {"idle", "wrong", "wrongOwn", "login", "admitted", "change", "changeAll", "logoutAll", "resetAll",
          "checkGa", "revokeGa"}
Requests == [step : Steps, kind : Kinds, user : Users, sid : Sids \cup {NoSid}, pw : Passwords]

ApiTypeOK ==
    /\ TypeOK
    /\ req \in [Clients -> Requests]
    /\ fails \in [ThrottleKeys -> Nat]
    /\ brokenOff \in BOOLEAN

ApiInit ==
    /\ Init
    /\ req = [c \in Clients |-> Idle]
    /\ fails = [t \in ThrottleKeys |-> 0]
    /\ brokenOff = FALSE

At(c, step) == req[c].step = step
Goto(c, step) == req' = [req EXCEPT ![c].step = step]
Done(c) == req' = [req EXCEPT ![c] = Idle]

\* Mutant: one failure more than the limit.
BlockedAbove(key) == fails[key] > MaxFails
Blocked(key) == fails[key] >= MaxFails
NoFailure(key) == fails' = [fails EXCEPT ![key] = 0]

(* The middleware resolves a principal from a session that is not expired.   *)
Resolves(k, u, sid) == \E s \in SessionsAt(k, u, sid) : s.live

(* The matrix, as far as accounts go: the account areas are the root         *)
(* account's, one's own session and password are everybody's.                *)
Authorized(k, area) == k = "admin" \/ area = "own"

(* The data plane: one lookup by hash.                                       *)
TokenOpens(t, p) == \E r \in tokens : r.id = t /\ r.project = p /\ ~r.revoked

-----------------------------------------------------------------------------
(* Logging in                                                                *)

(* The throttle is asked first and the failure counted only after the        *)
(* password has been computed.                                               *)
Verify(c, k, u, p) ==
    /\ At(c, "idle") /\ ~Blocked(PeerKey)
    /\ p \in PasswordsOf(k, u) \/ PeerKey \in Guessed
    /\ req' = [req EXCEPT ![c] =
          IF p \in PasswordsOf(k, u)
          THEN [step |-> "login", kind |-> k, user |-> u, sid |-> NoSid, pw |-> p]
          ELSE [Idle EXCEPT !.step = "wrong"]]
    /\ UNCHANGED <<accountVars, fails, brokenOff>>

(* Without a user name: the root account.  A user name leads to the GA       *)
(* account if there is one, else to the PA's.                                *)
RootVerify(c, p) == Verify(c, "admin", Super, p)
GaVerify(c, u, p) == u # Super /\ GaNamed(u) # {} /\ Verify(c, "ga", u, p)
PaVerify(c, u, p) == u # Super /\ GaNamed(u) = {} /\ Verify(c, "pa", u, p)

RecordFailure(c) ==
    LET r == req[c]
        key == IF r.step = "wrong" THEN PeerKey ELSE MeKey(r.kind, r.user)
    IN
    /\ r.step \in {"wrong", "wrongOwn"}
    /\ fails' = [fails EXCEPT ![key] = @ + 1]
    /\ Done(c)
    /\ UNCHANGED <<accountVars, brokenOff>>

(* Under a new session id, without a second look at the password.  When the  *)
(* answer of a write is lost the loop writes another session.                *)
OpenSession(c, k, sid) ==
    LET r == req[c] IN
    /\ At(c, "login") /\ r.kind = k /\ SessionsAt(k, r.user, sid) = {}
    /\ SessionLogin(k, r.user, sid, r.pw)
    /\ \/ Done(c) /\ NoFailure(PeerKey)
       \/ UNCHANGED <<req, fails>>
    /\ UNCHANGED brokenOff

RootLogin(c, sid) == OpenSession(c, "admin", sid)
PaLogin(c, sid) == OpenSession(c, "pa", sid)
GaLogin(c, sid) == OpenSession(c, "ga", sid)

(* The account went in between: 401 without a failure counted.               *)
LoginRefused(c) ==
    /\ At(c, "login") /\ PasswordsOf(req[c].kind, req[c].user) = {}
    /\ Done(c)
    /\ UNCHANGED <<accountVars, fails, brokenOff>>

-----------------------------------------------------------------------------
(* Requests under a session                                                  *)

Admit(c, k, u, sid) ==
    /\ At(c, "idle") /\ Resolves(k, u, sid)
    /\ req' = [req EXCEPT ![c] = [step |-> "admitted", kind |-> k, user |-> u,
                                  sid |-> sid, pw |-> 0]]
    /\ UNCHANGED <<accountVars, fails, brokenOff>>

Serving(c, area) ==
    /\ At(c, "admitted") /\ Authorized(req[c].kind, area)
    /\ UNCHANGED <<fails, brokenOff>>

(* One command each: projects, the accounts of PAs and GAs, access tokens.   *)
(* A record in the audit log follows, which no credential depends on.        *)
CreateProject(c) == Serving(c, "accounts") /\ Done(c) /\ \E p \in Projects : ProjectCreate(p)
DeleteProject(c) == Serving(c, "accounts") /\ Done(c) /\ \E p \in Projects : ProjectDelete(p)

CreateProjectAdmin(c) ==
    Serving(c, "accounts") /\ Done(c) /\ \E p \in Projects, u \in Users : ProjectAdminCreate(p, u)
DeleteProjectAdmin(c) ==
    Serving(c, "accounts") /\ Done(c) /\ \E u \in Users : ProjectAdminDelete(u)
ResetProjectAdmin(c) ==
    Serving(c, "accounts") /\ Done(c) /\ \E u \in Users : ProjectAdminSetPassword(u)

CreateGlobalAdmin(c) ==
    Serving(c, "accounts") /\ Done(c) /\ \E u \in Users : GlobalAdminCreate(u)
DeleteGlobalAdmin(c) ==
    Serving(c, "accounts") /\ Done(c) /\ \E u \in Users : GlobalAdminDelete(u)
ResetGlobalAdmin(c) ==
    Serving(c, "accounts") /\ Done(c) /\ \E u \in Users : GlobalAdminSetPassword(u)

CreateToken(c) ==
    /\ Serving(c, "accounts") /\ Done(c)
    /\ \E p \in Projects, n \in TokenNames, t \in Tokens : ProjectTokenCreate(p, n, t)
RevokeToken(c) ==
    /\ Serving(c, "accounts") /\ Done(c)
    /\ \E p \in Projects, t \in Tokens : ProjectTokenRevoke(p, t)

ManageAccounts(c) ==
    \/ CreateProject(c) \/ DeleteProject(c)
    \/ CreateProjectAdmin(c) \/ DeleteProjectAdmin(c) \/ ResetProjectAdmin(c)
    \/ CreateGlobalAdmin(c) \/ DeleteGlobalAdmin(c) \/ ResetGlobalAdmin(c)
    \/ CreateToken(c) \/ RevokeToken(c)

ForceLogoutOne(c, k, u) ==
    /\ Serving(c, "accounts") /\ Done(c) /\ SessionsOf(k, u) # {}
    /\ \/ k # "admin" /\ SessionLogoutAll(k, u)
       \/ \E sid \in Sids : SessionLogout(k, u, sid)

(* Without a name: the root sessions, then a look whether there are GAs, then *)
(* theirs.                                                                   *)
ForceLogoutAll(c) ==
    Serving(c, "accounts") /\ SessionLogoutAll("admin", Super) /\ Goto(c, "checkGa")

Logout(c) ==
    LET r == req[c] IN Serving(c, "own") /\ SessionLogout(r.kind, r.user, r.sid) /\ Done(c)

Heartbeat(c) ==
    LET r == req[c] IN Serving(c, "own") /\ SessionHeartbeat(r.kind, r.user, r.sid) /\ Done(c)

-----------------------------------------------------------------------------
(* Passwords                                                                 *)

(* One's own: the current password is verified first, throttled by principal. *)
ChangeVerify(c, p) ==
    LET r == req[c]
        key == MeKey(r.kind, r.user)
        ok == p \in PasswordsOf(r.kind, r.user)
    IN
    /\ At(c, "admitted") /\ Authorized(r.kind, "own") /\ ~Blocked(key)
    /\ ok \/ key \in Guessed
    /\ req' = [req EXCEPT ![c].step = IF ok THEN "change" ELSE "wrongOwn",
                          ![c].pw = IF ok THEN p ELSE 0]
    /\ UNCHANGED <<accountVars, fails, brokenOff>>

(* The count of failures starts again when all is written.                   *)
ChangeWrite(c) ==
    LET r == req[c] IN
    /\ At(c, "change")
    /\ CASE r.kind = "pa" -> ProjectAdminSetPassword(r.user)
         [] r.kind = "ga" -> GlobalAdminSetPassword(r.user)
         [] r.kind = "admin" -> AdminSetPassword
    /\ IF r.kind = "admin"
       THEN Goto(c, "changeAll") /\ UNCHANGED fails
       ELSE Done(c) /\ NoFailure(MeKey(r.kind, r.user))
    /\ UNCHANGED brokenOff

(* admin_set_password, under a root session, and admin_reset_password, with  *)
(* the operations token: a command for the password, a second one for the    *)
(* sessions; the reset also ends the sessions of the GAs.                    *)
SetRootPassword(c) ==
    Serving(c, "accounts") /\ AdminSetPassword /\ Goto(c, "logoutAll")

ResetRootPassword(c) ==
    /\ At(c, "idle") /\ AdminSetPassword /\ Goto(c, "resetAll")
    /\ UNCHANGED <<fails, brokenOff>>

EndsSessions(c) == req[c].step \in {"changeAll", "logoutAll", "resetAll"}

LogoutAll(c) ==
    /\ EndsSessions(c)
    /\ SessionLogoutAll("admin", Super)
    /\ IF At(c, "resetAll") THEN Goto(c, "checkGa") ELSE Done(c)
    /\ IF At(c, "changeAll") THEN NoFailure(MeKey("admin", Super)) ELSE UNCHANGED fails
    /\ UNCHANGED brokenOff

CheckGa(c) ==
    /\ At(c, "checkGa")
    /\ IF gas # {} THEN Goto(c, "revokeGa") ELSE Done(c)
    /\ UNCHANGED <<accountVars, fails, brokenOff>>

RevokeGa(c) ==
    /\ At(c, "revokeGa") /\ GlobalAdminSessionsRevokeAll /\ Done(c)
    /\ UNCHANGED <<fails, brokenOff>>

-----------------------------------------------------------------------------
(* A handler that ends early; what it wrote stays.                           *)
BreakOff(c) ==
    /\ req[c] # Idle /\ Done(c)
    /\ brokenOff' = (brokenOff \/ EndsSessions(c))
    /\ UNCHANGED <<accountVars, fails>>

WindowEnds(key) ==
    /\ fails[key] > 0 /\ NoFailure(key)
    /\ UNCHANGED <<accountVars, req, brokenOff>>

OldServer ==
    /\ \E k \in {"admin", "pa"}, u \in Users : \E p \in PasswordsOf(k, u) : LegacyLogin(k, u, p)
    /\ UNCHANGED <<req, fails, brokenOff>>

TimePasses ==
    (\E s \in sessions : Expire(s)) /\ UNCHANGED <<req, fails, brokenOff>>

Handler(c) ==
    \/ \E p \in Passwords :
        RootVerify(c, p) \/ \E u \in Users : PaVerify(c, u, p) \/ GaVerify(c, u, p)
    \/ RecordFailure(c) \/ LoginRefused(c)
    \/ \E sid \in Sids : RootLogin(c, sid) \/ PaLogin(c, sid) \/ GaLogin(c, sid)
    \/ \E k \in Kinds, u \in Users, sid \in Sids \cup {NoSid} : Admit(c, k, u, sid)
    \/ ManageAccounts(c)
    \/ \E k \in Kinds, u \in Users : ForceLogoutOne(c, k, u)
    \/ ForceLogoutAll(c) \/ Logout(c) \/ Heartbeat(c)
    \/ \E p \in Passwords : ChangeVerify(c, p)
    \/ ChangeWrite(c)
    \/ SetRootPassword(c) \/ ResetRootPassword(c)
    \/ LogoutAll(c) \/ CheckGa(c) \/ RevokeGa(c)
    \/ BreakOff(c)

ApiNext ==
    \/ \E c \in Clients : Handler(c)
    \/ \E key \in ThrottleKeys : WindowEnds(key)
    \/ OldServer
    \/ TimePasses

ApiSpec == ApiInit /\ [][ApiNext]_vars

-----------------------------------------------------------------------------
(* A root session that was opened before the root password was set is gone,  *)
(* or the handler that set it is about to end it, or broke off before it     *)
(* could: no other interleaving of changes, resets, logins and log-outs      *)
(* leaves one (admin_set_password, admin_reset_password,                     *)
(* change_my_password; "旧会话失效").                                         *)
RootSessionsUnderPassword ==
    \A s \in SessionsOf("admin", Super) :
        s.since = rootPassword \/ brokenOff \/ \E c \in Clients : EndsSessions(c)

(* However many requests are under way, the failures of a peer, or of a      *)
(* principal, in a window exceed the limit by less than the number of        *)
(* handlers: each passed the throttle before the last failure was counted    *)
(* (LoginThrottle::blocked and record_failure are two steps of a login).     *)
FailuresBounded == \A key \in ThrottleKeys : fails[key] < MaxFails + Cardinality(Clients)

(* After a step, a token that was revoked before it opens no project.        *)
RevokedRefused == \A t \in tokens : t.revoked => \A p \in Projects : ~TokenOpens(t.id, p)'

(* A revoked token stays refused for as long as its record is kept: neither  *)
(* another revocation nor the creation of a token of its name brings it back *)
(* (apply_project_token_revoke, apply_project_token_create).                 *)
RevokedOpensNothing == [][RevokedRefused]_vars

(* docs/09-admin.md:26 "立即收回该账号的全部会话": after a password was set   *)
(* no session opened with an older one remains.                              *)
OldPasswordOpensNothing ==
    \A s \in sessions : s.kind # "admin" => s.proved \in PasswordsOf(s.kind, s.user)

(* change_my_password verifies the current password: what it replaces is the *)
(* password it verified.                                                     *)
ChangeReplacesVerified ==
    [][\A c \in Clients : At(c, "change") /\ ~At(c, "change")' /\ lastPassword' # lastPassword
          => req[c].pw \in PasswordsOf(req[c].kind, req[c].user)]_vars
=============================================================================
