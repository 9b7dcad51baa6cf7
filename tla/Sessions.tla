------------------------------ MODULE Sessions ------------------------------
(***************************************************************************)
(* User sessions: first-run setup, login with its lockout, refresh token   *)
(* rotation, logout, the JWT branch of the authentication middleware with  *)
(* its user cache, and the user administration that invalidates sessions   *)
(* (services/auth, api/v1/middleware/auth.py, api/v1/endpoints/auth.py,    *)
(* setup.py and admin/users.py).                                           *)
(*                                                                         *)
(* A client is one HTTP request being served.  A SQL statement that reads  *)
(* or locks what another request may change, a COMMIT and a Redis command  *)
(* are one step each; a statement that waits for a row lock is a guard.    *)
(* A login or a refresh issues an access token and a refresh token: both   *)
(* are one entry of sessions.  There is one tenant; what passwords are and *)
(* when a JWT expires is left open (a refused request changes nothing).    *)
(***************************************************************************)
EXTENDS Integers, Sequences, FiniteSets

CONSTANTS
    Users,        \* accounts, by email
    Clients,      \* requests served at a time
    NoRow,        \* no user row, no cache entry
    MaxFailed,    \* auth_max_failed_attempts
    MaxSessions,  \* bound: tokens ever issued, for each set of operations
    MaxVersion,   \* bound: token_version, for each set of operations
    MaxFaults,    \* bound: crashes and failed Redis commands
    Scopes        \* bound: the sets of operations that occur in one behaviour

ASSUME SessionsAssumption ==
    /\ MaxFailed \in Nat \ {0}
    /\ MaxFaults \in Nat
    /\ IsFiniteSet(Clients)
    /\ Scopes \subseteq SUBSET {"guess", "refresh", "cleanup", "logout", "change", "create", "demote",
                               "promote", "deactivate", "reactivate", "unlock", "reset",
                               "bootstrap"}
ASSUME BoundsAssumption == MaxSessions \in [Scopes -> Nat] /\ MaxVersion \in [Scopes -> Nat]

VARIABLES
    scope,     \* the operations of this behaviour, besides setup and login
    users,     \* users[u]: the account with its membership, or NoRow
    cache,     \* cache[u]: what auth:user:<id> holds in Redis, or NoRow
    sessions,  \* the tokens issued, in order of issue
    failed,    \* failed[u]: the counter of failed logins in Redis
    locked,    \* locked[u]: the lockout flag in Redis
    req,       \* req[c]: how far c's request is
    founders,  \* accounts created by setup
    cut,       \* accounts whose password reset died between its two commits
    faults

vars == <<scope, users, cache, sessions, failed, locked, req, founders, cut, faults>>

\* The role of the account's membership: an administrator's, or any other.
Role == {"ADMIN", "VIEWER"}
Row == [active : BOOLEAN, role : Role, ver : Nat, fpc : BOOLEAN]

ASSUME NoRowAssumption == NoRow \notin Row \cup Users

\* ver: the token_version stamped on both tokens; since: the token_version
\* when the password of this chain of tokens was checked, and fpc the
\* force_password_change read then; parent: the token it was rotated from.
Session == [user : Users, ver : Nat, since : Nat, fpc : BOOLEAN, parent : Nat,
            status : {"live", "revoked", "gone"}, black : BOOLEAN]

\* What a request asks for; FORCE_CHANGE_ALLOWED: what a user who must change
\* the password may ask for.
Path == {"logout", "change", "admin"}
ForcedPath == {"logout", "change"}
\* What a PATCH of an account may contain: the administrator's role, any other
\* role or a department, and is_active.
RoleChange == {"promote", "demote"}
StateChange == {"deactivate", "reactivate"}
Administration == {"create", "unlock", "reset"} \cup RoleChange \cup StateChange
\* Why the sessions of a user are ended, or its lock removed.
Cause == {"change", "replay", "update", "reset", "unlock"}

Phase == {"idle", "setup", "bootstrap", "credentials", "failing", "locking", "clearing", "unlocking",
          "opening", "rotating", "rotated", "fill", "store", "admitted", "blacklist",
          "guarding", "flushing", "membership", "invalidate", "revoking", "dropping"}
\* The phases of update_user before it ends the sessions, and of all that end them.
Updating == {"guarding", "flushing", "membership"}
Ending == {"invalidate", "revoking"}
NoReq == [pc |-> "idle", op |-> "none", user |-> NoRow, tok |-> 0, row |-> NoRow, snap |-> {},
          writes |-> {}, holds |-> {}]

Issued == 1..Len(sessions)
Fault == faults < MaxFaults /\ faults' = faults + 1
NoFault == UNCHANGED faults
Goto(c, r) == req' = [req EXCEPT ![c] = r]
At(c, pc) == req[c].pc = pc
Moved(c, pc) == [req[c] EXCEPT !.pc = pc]

\* The bounds, counting the requests that may issue a token or raise a version.
Room(n) ==
    LET issuing == {c \in Clients : /\ req[c].op = "none"
                                   /\ req[c].pc \in {"credentials", "clearing", "unlocking",
                                                     "opening", "rotating", "rotated"}} IN
    Len(sessions) + Cardinality(issuing) + n <= MaxSessions[scope]
MayInvalidate(u) ==
    users[u].ver + Cardinality({c \in Clients : req[c].pc \in Updating \cup Ending /\ req[c].user = u})
        < MaxVersion[scope]
-----------------------------------------------------------------------------
(* Row locks, held until the transaction ends *)

\* The user row, or the membership row, that c has locked.
HoldsUser(c, u) == req[c].user = u /\ "user" \in req[c].holds
HoldsMembership(c, u) == req[c].user = u /\ "membership" \in req[c].holds
\* The refresh token row c has selected FOR UPDATE.
HoldsToken(c, i) == req[c].pc \in {"rotating", "rotated"} /\ req[c].tok = i

\* c has locked one more row, and goes on.
Locked(c, kind, pc) == [Moved(c, pc) EXCEPT !.holds = @ \cup {kind}]

UserFree(c, u) == \A d \in Clients \ {c} : ~HoldsUser(d, u)
TokenFree(c, i) == \A d \in Clients \ {c} : ~HoldsToken(d, i)
MembershipFree(c, u) == \A d \in Clients \ {c} : ~HoldsMembership(d, u)
-----------------------------------------------------------------------------
(* Accounts *)

\* UserRepository.create and update.
create_account(role, fpc) == [active |-> TRUE, role |-> role, ver |-> 0, fpc |-> fpc]
update(row, field, value) == [row EXCEPT ![field] = value]
\* UserRepository.update and MembershipRepository.upsert_for_user with what a
\* PATCH contains.
update_state(row, changes) ==
    update(row, "active", "reactivate" \in changes \/ (row.active /\ "deactivate" \notin changes))
upsert_for_user(row, changes) == update(row, "role", CASE "promote" \in changes -> "ADMIN"
                                                       [] "demote" \in changes -> "VIEWER"
                                                       [] OTHER -> row.role)
-----------------------------------------------------------------------------
(* First-run setup *)

any_user_exists == \E u \in Users : users[u] # NoRow

\* Mutant of setup_gate: no advisory lock.
setup_gate_NoLock(c) == ~any_user_exists

\* The advisory lock is held until commit; a user anywhere answers 404.
setup_gate(c) ==
    /\ \A d \in Clients \ {c} : ~At(d, "setup")
    /\ ~any_user_exists

complete_setup_begin(c) ==
    /\ At(c, "idle")
    /\ setup_gate(c)
    /\ Goto(c, Moved(c, "setup"))
    /\ UNCHANGED <<scope, users, cache, sessions, failed, locked, founders, cut, faults>>

\* An email that has got an account meanwhile violates the unique index and
\* rolls the transaction back.
complete_setup(c, u) ==
    /\ At(c, "setup")
    /\ \/ /\ users[u] = NoRow
          /\ users' = [users EXCEPT ![u] = create_account("ADMIN", FALSE)]
          /\ founders' = founders \cup {u}
       \/ users[u] # NoRow /\ UNCHANGED <<users, founders>>
    /\ Goto(c, NoReq)
    /\ UNCHANGED <<scope, cache, sessions, failed, locked, cut, faults>>

\* api/main.py's bootstrap_admin, which every process runs when it starts, and
\* the operator's endpoint of that name: the count of memberships is read
\* without setup's lock.
bootstrap_admin_begin(c) ==
    /\ At(c, "idle")
    /\ "bootstrap" \in scope
    /\ ~any_user_exists
    /\ Goto(c, Moved(c, "bootstrap"))
    /\ UNCHANGED <<scope, users, cache, sessions, failed, locked, founders, cut, faults>>

\* The account is made to change its password; one that exists is left alone.
bootstrap_admin(c, u) ==
    /\ At(c, "bootstrap")
    /\ \/ /\ users[u] = NoRow
          /\ users' = [users EXCEPT ![u] = create_account("ADMIN", TRUE)]
       \/ users[u] # NoRow /\ UNCHANGED users
    /\ Goto(c, NoReq)
    /\ UNCHANGED <<scope, cache, sessions, failed, locked, founders, cut, faults>>
-----------------------------------------------------------------------------
(* Login and lockout *)

\* is_locked: a store that does not answer counts as not locked.
not_locked(u) == (~locked[u] /\ NoFault) \/ (locked[u] /\ Fault)

\* AuthService.login, up to the provider.
login_begin(c, u) == not_locked(u) /\ Goto(c, [NoReq EXCEPT !.pc = "credentials", !.user = u])

\* POST /login.  Every failure answers INVALID_CREDENTIALS; the limit by address
\* refuses some requests and is open.
login(c, u) ==
    /\ At(c, "idle")
    /\ "guess" \in scope \/ (users[u] # NoRow /\ Room(1))
    /\ login_begin(c, u)
    /\ UNCHANGED <<scope, users, cache, sessions, failed, locked, founders, cut>>

\* What PasswordAuthProvider.authenticate may find: no such user or a wrong
\* password, or the row the tokens will be made from.
AuthOutcome(u) ==
    (IF "guess" \in scope THEN {NoRow} ELSE {})
        \cup (IF users[u] # NoRow /\ Room(0) THEN {users[u]} ELSE {})

\* The checks of login after it: a disabled account counts no failure.
authenticate(c) ==
    /\ At(c, "credentials")
    /\ \E row \in AuthOutcome(req[c].user) :
        Goto(c, IF row = NoRow THEN Moved(c, "failing")
                ELSE IF ~row.active THEN NoReq
                ELSE [Moved(c, "clearing") EXCEPT !.row = row])
    /\ UNCHANGED <<scope, users, cache, sessions, failed, locked, founders, cut, faults>>

\* Mutant of Locks: the lock is set at the exact limit only.
Locks_Exact(count) == count = MaxFailed

\* The counts that set the lock.
Locks(count) == count >= MaxFailed

\* record_failure: INCR and EXPIRE in one MULTI.
record_failure(c) ==
    LET u == req[c].user IN
    /\ At(c, "failing")
    /\ \/ /\ NoFault
          /\ failed' = [failed EXCEPT ![u] = @ + 1]
          /\ Goto(c, IF Locks(failed[u] + 1) THEN Moved(c, "locking") ELSE NoReq)
       \/ Fault /\ UNCHANGED failed /\ Goto(c, NoReq)
    /\ UNCHANGED <<scope, users, cache, sessions, locked, founders, cut>>

\* ... and the SETEX of the lock, a command of its own.
record_failure_lock(c) ==
    /\ At(c, "locking")
    /\ \/ NoFault /\ locked' = [locked EXCEPT ![req[c].user] = TRUE]
       \/ Fault /\ UNCHANGED locked
    /\ Goto(c, NoReq)
    /\ UNCHANGED <<scope, users, cache, sessions, failed, founders, cut>>

\* clear_failures (login) and unlock (administration): the counter, then the
\* flag.  A login goes on whether or not the store answered.
clear_failures(c) ==
    /\ At(c, "clearing")
    /\ \/ /\ NoFault
          /\ failed' = [failed EXCEPT ![req[c].user] = 0]
          /\ Goto(c, Moved(c, "unlocking"))
       \/ /\ Fault
          /\ UNCHANGED failed
          /\ Goto(c, IF req[c].op = "unlock" THEN NoReq ELSE Moved(c, "opening"))
    /\ UNCHANGED <<scope, users, cache, sessions, locked, founders, cut>>

clear_failures_flag(c) ==
    /\ At(c, "unlocking")
    /\ \/ NoFault /\ locked' = [locked EXCEPT ![req[c].user] = FALSE]
       \/ Fault /\ UNCHANGED locked
    /\ Goto(c, IF req[c].op = "unlock" THEN NoReq ELSE Moved(c, "opening"))
    /\ UNCHANGED <<scope, users, cache, sessions, failed, founders, cut>>

\* Both keys live auth_lockout_duration_seconds.  The lock is set after the
\* count that reached the limit, so it outlives that count.
lockout_expires(u) ==
    /\ \/ failed[u] > 0 /\ failed' = [failed EXCEPT ![u] = 0] /\ UNCHANGED locked
       \/ /\ locked[u] /\ failed[u] < MaxFailed
          /\ locked' = [locked EXCEPT ![u] = FALSE] /\ UNCHANGED failed
    /\ UNCHANGED <<scope, users, cache, sessions, req, founders, cut, faults>>

\* create_access_token and RefreshTokenRepository.create, from the row read.
NewSession(row, u, parent) ==
    [user |-> u, ver |-> row.ver, since |-> IF parent = 0 THEN row.ver ELSE sessions[parent].since,
     fpc |-> IF parent = 0 THEN row.fpc ELSE sessions[parent].fpc,
     parent |-> parent, status |-> "live", black |-> FALSE]

\* The transaction that writes the token and last_login_at.
login_commit(c) ==
    LET u == req[c].user IN
    /\ At(c, "opening")
    /\ UserFree(c, u)
    /\ sessions' = Append(sessions, NewSession(req[c].row, u, 0))
    /\ Goto(c, NoReq)
    /\ UNCHANGED <<scope, users, cache, failed, locked, founders, cut, faults>>
-----------------------------------------------------------------------------
(* Ending all sessions of a user: AuthService.logout_all_sessions *)

\* What the transaction writes besides the version: the changes of update_user,
\* or the cleared flag of change_password.
Written(r, row) ==
    [upsert_for_user(update_state(row, r.writes), r.writes) EXCEPT !.fpc = @ /\ r.op # "change"]

\* The request goes on to end the sessions of u.
Invalidates(c, op, u) ==
    MayInvalidate(u) /\ Goto(c, [NoReq EXCEPT !.pc = "invalidate", !.op = op, !.user = u])

\* The UPDATE of refresh_tokens sees the live tokens committed when it starts.
LiveTokens(u) == {i \in Issued : sessions[i].user = u /\ sessions[i].status = "live"}

\* increment_token_version locks the user row.
logout_all_begin(c) ==
    LET u == req[c].user IN
    /\ At(c, "invalidate")
    /\ UserFree(c, u)
    /\ Goto(c, [Locked(c, "user", "revoking") EXCEPT !.snap = LiveTokens(u)])
    /\ UNCHANGED <<scope, users, cache, sessions, failed, locked, founders, cut, faults>>

\* revoke_all_for_user waits for the rows others have locked; then COMMIT.
logout_all_commit(c) ==
    LET u == req[c].user IN
    /\ At(c, "revoking")
    /\ \A i \in req[c].snap : TokenFree(c, i)
    /\ users' = [users EXCEPT ![u] = [Written(req[c], users[u]) EXCEPT !.ver = @ + 1]]
    /\ sessions' = [i \in Issued |-> IF i \in req[c].snap /\ sessions[i].status = "live"
                                     THEN [sessions[i] EXCEPT !.status = "revoked"]
                                     ELSE sessions[i]]
    /\ cut' = cut \ {u}
    /\ Goto(c, [NoReq EXCEPT !.pc = "dropping", !.op = req[c].op, !.user = u])
    /\ UNCHANGED <<scope, cache, failed, locked, founders, faults>>

\* The DELETE of the cached user after the commit; its failure is ignored.
drop_cached_user(c) ==
    /\ At(c, "dropping")
    /\ \/ NoFault /\ cache' = [cache EXCEPT ![req[c].user] = NoRow]
       \/ Fault /\ UNCHANGED cache
    /\ Goto(c, NoReq)
    /\ UNCHANGED <<scope, users, sessions, failed, locked, founders, cut>>
-----------------------------------------------------------------------------
(* Refresh *)

\* Mutant of get_by_hash: the row is read without FOR UPDATE.
get_by_hash_NoLock(c, i) == TRUE

\* SELECT ... FOR UPDATE waits for the request that has locked the row.
get_by_hash(c, i) == TokenFree(c, i)

\* A revoked token that is presented again ends all sessions of its user.
replay(c, i) ==
    /\ sessions[i].status = "revoked"
    /\ Invalidates(c, "replay", sessions[i].user)

\* POST /refresh: a live token is locked, a deleted one is refused.
refresh(c, i) ==
    /\ At(c, "idle")
    /\ "refresh" \in scope
    /\ get_by_hash(c, i)
    /\ \/ /\ sessions[i].status = "live"
          /\ Room(1)
          /\ Goto(c, [NoReq EXCEPT !.pc = "rotating", !.tok = i, !.user = sessions[i].user])
       \/ replay(c, i)
    /\ UNCHANGED <<scope, users, cache, sessions, failed, locked, founders, cut, faults>>

\* Mutant of RefreshAllowed: the version is not compared.
RefreshAllowed_NoVersion(i, row) == row.active

\* The user is active and the token was issued under its version.
RefreshAllowed(i, row) == row.active /\ sessions[i].ver = row.ver

\* Mutant of UserRead: the user row is selected FOR UPDATE.
UserRead_Locking(c, u) == UserFree(c, u)

\* The user row is read without waiting for its writers.
UserRead(c, u) == TRUE

\* The user row is read; a token it refuses is revoked and committed.
refresh_check(c) ==
    LET i == req[c].tok
        row == users[req[c].user] IN
    /\ At(c, "rotating")
    /\ UserRead(c, req[c].user)
    /\ \/ /\ RefreshAllowed(i, row)
          /\ Goto(c, [Moved(c, "rotated") EXCEPT !.row = row])
          /\ UNCHANGED sessions
       \/ /\ ~RefreshAllowed(i, row)
          /\ sessions' = [sessions EXCEPT ![i].status = "revoked"]
          /\ Goto(c, NoReq)
    /\ UNCHANGED <<scope, users, cache, failed, locked, founders, cut, faults>>

\* The old token is revoked and its successor written, in one transaction.
refresh_commit(c) ==
    LET i == req[c].tok IN
    /\ At(c, "rotated")
    /\ sessions' = Append([sessions EXCEPT ![i].status = "revoked"],
                          NewSession(req[c].row, req[c].user, i))
    /\ Goto(c, NoReq)
    /\ UNCHANGED <<scope, users, cache, failed, locked, founders, cut, faults>>

\* RefreshTokenRepository.cleanup_expired: an expired token, which is refused
\* even before, is deleted once nobody has its row locked.
cleanup_expired(i) ==
    /\ sessions[i].status # "gone"
    /\ \A c \in Clients : ~HoldsToken(c, i)
    /\ sessions' = [sessions EXCEPT ![i].status = "gone"]

\* The retention worker's part.
_cleanup_refresh_tokens(i) ==
    /\ "cleanup" \in scope
    /\ cleanup_expired(i)
    /\ UNCHANGED <<scope, users, cache, failed, locked, req, founders, cut, faults>>
-----------------------------------------------------------------------------
(* A request with an access token: AuthMiddleware._authenticate_jwt *)

\* is_blacklisted: a store that does not answer counts as not revoked.
NotBlacklisted(i) == (~sessions[i].black /\ NoFault) \/ (sessions[i].black /\ Fault)

\* require_admin, and require_jwt for everybody else.
RoleAllows(row, op) == op = "admin" => row.role = "ADMIN"

\* The row shows an active user, the token's version, and no forced change
\* that excludes what is asked for.
Admits(row, i, op) ==
    /\ row # NoRow
    /\ row.active
    /\ row.ver = sessions[i].ver
    /\ row.fpc => op \in ForcedPath
    /\ RoleAllows(row, op)

Admitted(row, r) ==
    IF Admits(row, r.tok, r.op)
    THEN [NoReq EXCEPT !.pc = "admitted", !.op = r.op, !.tok = r.tok, !.user = r.user]
    ELSE NoReq

\* The middleware looks for the cached user: an entry decides at once.
request(c, i, op) ==
    LET u == sessions[i].user
        r == [NoReq EXCEPT !.op = op, !.tok = i, !.user = u] IN
    /\ At(c, "idle")
    /\ IF op = "admin" THEN scope \cap Administration # {} ELSE op \in scope
    /\ NotBlacklisted(i)
    /\ \/ cache[u] # NoRow /\ Admits(cache[u], i, op) /\ Goto(c, Admitted(cache[u], r))
       \/ cache[u] = NoRow /\ Goto(c, [r EXCEPT !.pc = "fill"])
    /\ UNCHANGED <<scope, users, cache, sessions, failed, locked, founders, cut>>

\* _get_user_cached, on a miss: the row and the memberships are read ...
user_read(c) ==
    /\ At(c, "fill")
    /\ Goto(c, [Moved(c, "store") EXCEPT !.row = users[req[c].user]])
    /\ UNCHANGED <<scope, users, cache, sessions, failed, locked, founders, cut, faults>>

\* ... and then stored, for 30 minutes.
user_store(c) ==
    /\ At(c, "store")
    /\ \/ NoFault /\ cache' = [cache EXCEPT ![req[c].user] = req[c].row]
       \/ Fault /\ UNCHANGED cache
    /\ Goto(c, Admitted(req[c].row, req[c]))
    /\ UNCHANGED <<scope, users, sessions, failed, locked, founders, cut>>

\* Mutant of cache_expires: the entry is stored without a TTL.
cache_expires_Never(u) == FALSE /\ UNCHANGED vars

\* _USER_CACHE_TTL.
cache_expires(u) ==
    /\ cache[u] # NoRow
    /\ cache' = [cache EXCEPT ![u] = NoRow]
    /\ UNCHANGED <<scope, users, sessions, failed, locked, req, founders, cut, faults>>
-----------------------------------------------------------------------------
(* What an admitted request does *)

Serves(c, op) == At(c, "admitted") /\ req[c].op = op
Administers(c) == Serves(c, "admin")

\* AuthService.logout: a live token is revoked, waiting for who has locked it.
revoke_presented(c, i) ==
    /\ TokenFree(c, i)
    /\ sessions' = IF sessions[i].status = "live"
                   THEN [sessions EXCEPT ![i].status = "revoked"]
                   ELSE sessions

\* POST /logout: the refresh token of the session is revoked ...
logout(c) ==
    /\ Serves(c, "logout")
    /\ revoke_presented(c, req[c].tok)
    /\ Goto(c, Moved(c, "blacklist"))
    /\ UNCHANGED <<scope, users, cache, failed, locked, founders, cut, faults>>

\* The store keeps the token's jti until the token expires, or does not answer.
blacklist_jti(i) ==
    \/ NoFault /\ sessions' = [sessions EXCEPT ![i].black = TRUE]
    \/ Fault /\ UNCHANGED sessions

\* ... and then its access token blacklisted, best effort.
blacklist_current(c) ==
    /\ At(c, "blacklist")
    /\ blacklist_jti(req[c].tok)
    /\ Goto(c, NoReq)
    /\ UNCHANGED <<scope, users, cache, failed, locked, founders, cut>>

\* The handler refuses: a wrong current password, an invalid body, a taken
\* email, no such user, oneself, the last administrator.
refuse(c) ==
    /\ At(c, "admitted")
    /\ req[c].op # "logout"
    /\ Goto(c, NoReq)
    /\ UNCHANGED <<scope, users, cache, sessions, failed, locked, founders, cut, faults>>

\* AuthService.change_password: the password, the flag and the invalidation
\* commit together.
password_changes(c, u) == Invalidates(c, "change", u)

\* POST /change-password.
change_password(c) ==
    /\ Serves(c, "change")
    /\ password_changes(c, req[c].user)
    /\ UNCHANGED <<scope, users, cache, sessions, failed, locked, founders, cut, faults>>

\* create_user: a taken email answers 409.
create_user(c, u, role) ==
    /\ Administers(c) /\ "create" \in scope
    /\ users[u] = NoRow
    /\ users' = [users EXCEPT ![u] = create_account(role, TRUE)]
    /\ Goto(c, NoReq)
    /\ UNCHANGED <<scope, cache, sessions, failed, locked, founders, cut, faults>>

ActiveAdmin(u) == users[u] # NoRow /\ users[u].active /\ users[u].role = "ADMIN"

\* The body of a PATCH that ends the sessions: at most one role and one state.
PatchBody == {b \in SUBSET (scope \cap (RoleChange \cup StateChange)) :
                  /\ ~(RoleChange \subseteq b) /\ ~(StateChange \subseteq b)
                  /\ b \cap (RoleChange \cup {"deactivate"}) # {}}

\* What is written of it: what differs from the row read.  Another role that is
\* not an administrator's, or a department, may differ where the model does not.
Effective(row, b) == {k \in b : \/ k = "promote" /\ row.role # "ADMIN"
                                \/ k = "demote" /\ row.role = "ADMIN"
                                \/ k = "deactivate" /\ row.active
                                \/ k = "reactivate" /\ ~row.active}
Differing(row, b) == {Effective(row, b), Effective(row, b) \cup (b \cap {"demote"})}

\* The row written first: repo.flush() precedes upsert_for_user in a body with a
\* role, and a state alone is written by logout_all_sessions.
FirstWrite(writes) ==
    CASE writes \cap RoleChange = {}  -> "invalidate"
      [] writes \cap StateChange = {} -> "membership"
      [] OTHER                        -> "flushing"

\* An administrator is demoted or deactivated.
Guarded(row, b) == row.role = "ADMIN" /\ b \cap {"demote", "deactivate"} # {}

\* update_user with a role, is_active = false or both: nobody deactivates
\* oneself.  The rows are read, and neither is locked.
update_user(c, u, b) ==
    /\ Administers(c)
    /\ b \in PatchBody
    /\ users[u] # NoRow
    /\ "deactivate" \in b => u # req[c].user
    /\ MayInvalidate(u)
    /\ \E writes \in Differing(users[u], b) :
        Goto(c, [NoReq EXCEPT !.op = "update", !.user = u, !.writes = writes,
                              !.pc = IF Guarded(users[u], b) THEN "guarding" ELSE FirstWrite(writes)])
    /\ UNCHANGED <<scope, users, cache, sessions, failed, locked, founders, cut, faults>>

\* The target's membership row is locked, then the active administrators are
\* counted as committed: the last one is refused.
count_active_admins_for_update(c) ==
    /\ At(c, "guarding")
    /\ MembershipFree(c, req[c].user)
    /\ Goto(c, IF Cardinality({a \in Users : ActiveAdmin(a)}) > 1
               THEN Locked(c, "membership", FirstWrite(req[c].writes))
               ELSE NoReq)
    /\ UNCHANGED <<scope, users, cache, sessions, failed, locked, founders, cut, faults>>

\* repo.flush() writes is_active ...
flush(c) ==
    /\ At(c, "flushing")
    /\ UserFree(c, req[c].user)
    /\ Goto(c, Locked(c, "user", "membership"))
    /\ UNCHANGED <<scope, users, cache, sessions, failed, locked, founders, cut, faults>>

\* ... and the role is written by the flush that precedes the next statement.
write_membership(c) ==
    /\ At(c, "membership")
    /\ MembershipFree(c, req[c].user)
    /\ Goto(c, Locked(c, "membership", "invalidate"))
    /\ UNCHANGED <<scope, users, cache, sessions, failed, locked, founders, cut, faults>>

\* update_user with is_active = true alone: a plain commit, of nothing if the
\* account is active, and the cached user is left as it is.
reactivate_user(c, u) ==
    /\ Administers(c) /\ "reactivate" \in scope
    /\ users[u] # NoRow
    /\ users[u].active \/ UserFree(c, u)
    /\ users' = [users EXCEPT ![u] = update_state(@, {"reactivate"})]
    /\ Goto(c, NoReq)
    /\ UNCHANGED <<scope, cache, sessions, failed, locked, founders, cut, faults>>

\* unlock_account: the two deletes of the lockout store.
unlock_account(c, u) ==
    /\ Administers(c) /\ "unlock" \in scope
    /\ users[u] # NoRow
    /\ Goto(c, [NoReq EXCEPT !.pc = "clearing", !.op = "unlock", !.user = u])
    /\ UNCHANGED <<scope, users, cache, sessions, failed, locked, founders, cut, faults>>

\* Mutant of reset_password: the sessions are left alone.
reset_password_KeepSessions(c, u) ==
    /\ Administers(c) /\ "reset" \in scope
    /\ users[u] # NoRow
    /\ UserFree(c, u)
    /\ users' = [users EXCEPT ![u] = update(@, "fpc", TRUE)]
    /\ Goto(c, NoReq)
    /\ UNCHANGED <<scope, cache, sessions, failed, locked, founders, cut, faults>>

\* reset_password: the new password and the flag are committed, and the
\* sessions are ended by a second transaction.
reset_password(c, u) ==
    /\ Administers(c) /\ "reset" \in scope
    /\ users[u] # NoRow
    /\ UserFree(c, u)
    /\ users' = [users EXCEPT ![u] = update(@, "fpc", TRUE)]
    /\ Invalidates(c, "reset", u)
    /\ UNCHANGED <<scope, cache, sessions, failed, locked, founders, cut, faults>>

\* The transaction of c ends without a commit: what it wrote is rolled back and
\* its locks are released.
RolledBack(c) ==
    /\ cut' = IF req[c].op = "reset" /\ req[c].pc \in Ending THEN cut \cup {req[c].user} ELSE cut
    /\ Goto(c, NoReq)
    /\ UNCHANGED <<scope, users, cache, sessions, failed, locked, founders>>

\* The process serving c dies, or its database connection.
crash(c) == ~At(c, "idle") /\ Fault /\ RolledBack(c)

\* The next statement of c waits, or may wait, for a row d has locked: the user
\* row a login, an update, an invalidation or a locking read wants, the
\* membership row of an update, the refresh tokens an invalidation or a logout
\* revokes, and the user row of what an administrator's request is about.
WaitsFor(c, d) ==
    /\ d # c
    /\ \/ req[c].pc \in {"opening", "flushing", "invalidate"} /\ HoldsUser(d, req[c].user)
       \/ req[c].pc \in {"guarding", "membership"} /\ HoldsMembership(d, req[c].user)
       \/ At(c, "revoking") /\ \E i \in req[c].snap : HoldsToken(d, i)
       \/ At(c, "rotating") /\ ~UserRead(c, req[c].user) /\ HoldsUser(d, req[c].user)
       \/ Serves(c, "logout") /\ HoldsToken(d, req[c].tok)
       \/ Serves(c, "admin") /\ \E u \in Users : HoldsUser(d, u)

\* PostgreSQL aborts one of two transactions that wait for each other.
deadlock_detected(c) ==
    /\ \E d \in Clients : WaitsFor(c, d) /\ WaitsFor(d, c)
    /\ NoFault
    /\ RolledBack(c)
-----------------------------------------------------------------------------

Init ==
    /\ scope \in Scopes
    /\ users = [u \in Users |-> NoRow]
    /\ cache = [u \in Users |-> NoRow]
    /\ sessions = <<>>
    /\ failed = [u \in Users |-> 0]
    /\ locked = [u \in Users |-> FALSE]
    /\ req = [c \in Clients |-> NoReq]
    /\ founders = {}
    /\ cut = {}
    /\ faults = 0

\* A request that has begun goes on.
Continue(c) ==
    \/ \E u \in Users : complete_setup(c, u) \/ bootstrap_admin(c, u)
    \/ authenticate(c)
    \/ record_failure(c)
    \/ record_failure_lock(c)
    \/ clear_failures(c)
    \/ clear_failures_flag(c)
    \/ login_commit(c)
    \/ refresh_check(c)
    \/ refresh_commit(c)
    \/ user_read(c)
    \/ user_store(c)
    \/ logout(c)
    \/ blacklist_current(c)
    \/ refuse(c)
    \/ change_password(c)
    \/ \E u \in Users, role \in Role : create_user(c, u, role)
    \/ \E u \in Users, b \in PatchBody : update_user(c, u, b)
    \/ count_active_admins_for_update(c)
    \/ flush(c)
    \/ write_membership(c)
    \/ \E u \in Users : reactivate_user(c, u)
    \/ \E u \in Users : unlock_account(c, u)
    \/ \E u \in Users : reset_password(c, u)
    \/ logout_all_begin(c)
    \/ logout_all_commit(c)
    \/ drop_cached_user(c)

Begin(c) ==
    \/ complete_setup_begin(c) \/ bootstrap_admin_begin(c)
    \/ \E u \in Users : login(c, u)
    \/ \E i \in Issued : refresh(c, i)
    \/ \E i \in Issued, op \in Path : request(c, i, op)

Expire ==
    \/ \E u \in Users : lockout_expires(u)
    \/ \E u \in Users : cache_expires(u)
    \/ \E i \in Issued : _cleanup_refresh_tokens(i)

Next == (\E c \in Clients : Continue(c) \/ Begin(c) \/ crash(c) \/ deadlock_detected(c)) \/ Expire

\* Requests in progress and Redis's expiry go on; nobody has to log in.
Fairness ==
    /\ \A c \in Clients : WF_vars(user_read(c)) /\ WF_vars(user_store(c))
    /\ \A u \in Users : WF_vars(cache_expires(u))

Spec == Init /\ [][Next]_vars
FairSpec == Spec /\ Fairness
-----------------------------------------------------------------------------
(* Properties *)

Request == [pc : Phase, op : Path \cup Cause \cup {"none"}, user : Users \cup {NoRow},
            tok : Nat, row : Row \cup {NoRow}, snap : SUBSET Nat,
            writes : SUBSET (RoleChange \cup StateChange), holds : SUBSET {"user", "membership"}]

\* Every variable has its type, and tokens refer to tokens issued before them.
TypeOK ==
    /\ scope \in Scopes
    /\ users \in [Users -> Row \cup {NoRow}]
    /\ cache \in [Users -> Row \cup {NoRow}]
    /\ sessions \in Seq(Session)
    /\ \A i \in Issued : sessions[i].parent < i
    /\ failed \in [Users -> Nat]
    /\ locked \in [Users -> BOOLEAN]
    /\ req \in [Clients -> Request]
    /\ founders \subseteq Users
    /\ cut \subseteq Users
    /\ faults \in 0..MaxFaults

\* A refresh token the service would exchange now.
Usable(i) ==
    /\ sessions[i].status = "live"
    /\ users[sessions[i].user].active
    /\ sessions[i].ver = users[sessions[i].user].ver

\* A refresh token is exchanged at most once, however many requests present it
\* at the same time (AuthService.refresh, RefreshTokenRepository.get_by_hash).
RefreshOnce ==
    \A i, j \in Issued :
        sessions[i].parent # 0 /\ sessions[i].parent = sessions[j].parent => i = j

\* A usable chain of tokens was opened by a password check made after the last
\* invalidation of its user: neither a login nor a refresh in flight carries a
\* session over logout_all_sessions.
InvalidationReachesInFlight ==
    \A i \in Issued : Usable(i) => sessions[i].since = users[sessions[i].user].ver

\* Once an administrator has reset the password, no session opened with the old
\* one is usable, unless the reset is between its commits or died there.
ResetEndsSessions ==
    \A i \in Issued :
        LET u == sessions[i].user IN
        Usable(i) /\ users[u].fpc /\ ~sessions[i].fpc =>
            \/ u \in cut
            \/ \E c \in Clients : /\ req[c].op = "reset" /\ req[c].user = u
                                  /\ req[c].pc \in Ending

\* Wrong passwords counted against an account: past the limit by at most the
\* logins in flight when the lock is set, and by those again each time a success
\* that was under way removes a lock set meanwhile; a lost Redis command lets
\* another round through.
LockoutBoundsGuesses ==
    \A u \in Users :
        LET n == Cardinality(Clients)
        IN  failed[u] <= MaxFailed - 1 + (n * (n + 1)) \div 2 + n * faults

\* complete_setup creates one account in the life of a deployment.
SetupOnce == Cardinality(founders) <= 1

\* An access token of an earlier version is refused for good once the cache
\* entry that still accepts it has expired: no request stores the old row then.
\* (The bound on v: versions every behaviour has room to leave behind.)
RevocationTakesEffect ==
    \A u \in Users, v \in {n \in UNION {0..MaxVersion[s] : s \in Scopes} :
                               \A s \in Scopes : n < MaxVersion[s]} :
        (users[u] # NoRow /\ users[u].ver > v) ~> [](cache[u] = NoRow \/ cache[u].ver > v)

\* Two PATCHes of one account lock its rows in opposite orders: c has a role and
\* a state to write and holds the user row, d has locked the membership row and
\* goes on to the user row.
Crossed(c, d) ==
    /\ req[c].op = "update" /\ At(c, "membership") /\ HoldsUser(c, req[c].user)
    /\ req[d].op = "update" /\ req[d].pc \in {"flushing", "invalidate"}
    /\ HoldsMembership(d, req[c].user)

\* Requests that wait for each other in a circle include two such PATCHes.
OnlyUpdatesCross ==
    \A S \in SUBSET Clients :
        S # {} /\ (\A c \in S : \E d \in S : WaitsFor(c, d)) => \E c, d \in S : Crossed(c, d)

\* The order in which transactions lock rows admits no deadlock but that one,
\* and a request that is in progress and waits for nobody can go on.
OnlyUpdatesDeadlock ==
    /\ OnlyUpdatesCross
    /\ \A c \in Clients : ~At(c, "idle") /\ (\A d \in Clients : ~WaitsFor(c, d)) => ENABLED Continue(c)

\* Once set up, the tenant has an active administrator: "The row lock serializes
\* concurrent last-admin checks so two requests cannot both pass".
AdminRemains == founders # {} => \E u \in Users : ActiveAdmin(u)
=============================================================================
