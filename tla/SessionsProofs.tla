---------------------------- MODULE SessionsProofs ----------------------------
(***************************************************************************)
(* Proofs about Sessions, for every number of accounts, of requests served *)
(* at a time, of tokens and of faults.                                     *)
(*                                                                         *)
(* What the properties say of the tokens issued is not inductive: a token  *)
(* is made from a row, or a token, that its request has read some steps    *)
(* before.  The invariant says of what a request has read and locked what  *)
(* the properties say of the tokens.                                       *)
(***************************************************************************)
EXTENDS Sessions, FiniteSetTheorems, TLAPS

USE SessionsAssumption, NoRowAssumption DEF SessionsAssumption

-----------------------------------------------------------------------------
(* The invariant *)

TypeRest ==
    /\ scope \in Scopes
    /\ cache \in [Users -> Row \cup {NoRow}]
    /\ failed \in [Users -> Nat]
    /\ locked \in [Users -> BOOLEAN]
    /\ founders \subseteq Users
    /\ cut \subseteq Users
    /\ faults \in 0..MaxFaults

TypeMain ==
    /\ users \in [Users -> Row \cup {NoRow}]
    /\ sessions \in Seq(Session)
    /\ req \in [Clients -> Request]

\* A request that resets the password of u and has not ended its sessions yet.
Resetting(r, u) == r.op = "reset" /\ r.user = u /\ r.pc \in {"invalidate", "revoking"}
Pending(u) == u \in cut \/ \E c \in Clients : Resetting(req[c], u)

\* A version and a flag that were read of u's row at some time: if the version is
\* still u's, a flag set since is the work of a reset that is not finished.
Credible(ver, fpc, u) ==
    /\ users[u] \in Row
    /\ ver <= users[u].ver
    /\ ver = users[u].ver /\ users[u].fpc /\ ~fpc => Pending(u)

\* A login has read its row; a refresh has locked its token.
HasRow(r) == r.pc = "opening" \/ (r.pc \in {"clearing", "unlocking"} /\ r.op # "unlock")
HasToken(r) == r.pc \in {"rotating", "rotated"}

RequestOK(r) ==
    /\ r.pc \notin {"idle", "setup", "bootstrap"} => r.user \in Users
    /\ HasRow(r) => r.row \in Row /\ Credible(r.row.ver, r.row.fpc, r.user)
    /\ HasToken(r) \/ r.pc \in {"fill", "store", "admitted", "blacklist"}
          => r.tok \in Issued /\ sessions[r.tok].user = r.user
    /\ HasToken(r) => sessions[r.tok].status = "live"
    /\ r.pc = "rotated" => r.row \in Row /\ r.row.ver = sessions[r.tok].ver
    /\ r.pc \in {"guarding", "flushing", "membership", "invalidate", "revoking"} => users[r.user] \in Row

\* The tokens of a chain carry the version under which the password was checked;
\* a token that has a successor is dead.
SessionOK(i) ==
    /\ sessions[i].parent < i
    /\ sessions[i].since = sessions[i].ver
    /\ Credible(sessions[i].ver, sessions[i].fpc, sessions[i].user)
    /\ sessions[i].parent # 0 => sessions[sessions[i].parent].status # "live"

RequestsOK == \A c \in Clients : RequestOK(req[c])
SessionsOK == \A i \in Issued : SessionOK(i)
TokensLocked ==
    \A c, d \in Clients : HasToken(req[c]) /\ HasToken(req[d]) /\ req[c].tok = req[d].tok => c = d

Core == TypeMain /\ RequestsOK /\ SessionsOK /\ TokensLocked /\ RefreshOnce
Inv == TypeRest /\ Core

LEMMA NoReqType ==
    /\ NoReq \in Request /\ NoReq.pc = "idle" /\ NoReq.op = "none" /\ NoReq.user = NoRow
    /\ NoReq.tok = 0 /\ NoReq.row = NoRow /\ NoReq.snap = {}
    /\ NoReq.writes = {} /\ NoReq.holds = {}
    /\ RequestOK(NoReq) /\ ~HasToken(NoReq)
BY DEF NoReq, Request, Phase, RequestOK, HasRow, HasToken

LEMMA InvInit == Init => Inv
<1> SUFFICES ASSUME Init PROVE Inv
  OBVIOUS
<1>1. TypeRest
  BY DEF Init, TypeRest
<1>2. TypeMain
  BY NoReqType DEF Init, TypeMain
<1>3. RequestsOK /\ TokensLocked
  BY NoReqType DEF Init, RequestsOK, TokensLocked
<1>4. SessionsOK /\ RefreshOnce
  BY DEF Init, SessionsOK, RefreshOnce, Issued
<1> QED BY <1>1, <1>2, <1>3, <1>4 DEF Inv, Core

-----------------------------------------------------------------------------
(* What every step leaves as it is *)

\* A row is never deleted, its version never falls, and a flag is set without a
\* new version by a reset only.
UsersGrow ==
    \A u \in Users : users[u] # NoRow =>
        /\ users'[u] \in Row
        /\ users[u].ver <= users'[u].ver
        /\ users'[u].ver = users[u].ver =>
              /\ users'[u].fpc => users[u].fpc \/ Pending(u)'
              /\ Pending(u) => Pending(u)'

\* Of a token only the status changes, and never back to live.
SessionsGrow ==
    /\ sessions' \in Seq(Session)
    /\ Len(sessions) <= Len(sessions')
    /\ \A i \in Issued :
          /\ sessions'[i].user = sessions[i].user
          /\ sessions'[i].ver = sessions[i].ver
          /\ sessions'[i].since = sessions[i].since
          /\ sessions'[i].fpc = sessions[i].fpc
          /\ sessions'[i].parent = sessions[i].parent
          /\ sessions'[i].status = "live" => sessions[i].status = "live"

LEMMA CredibleKept ==
    ASSUME UsersGrow, NEW u \in Users, NEW ver \in Nat, NEW fpc \in BOOLEAN, Credible(ver, fpc, u)
    PROVE  Credible(ver, fpc, u)'
<1>1. users[u] \in Row /\ users[u] # NoRow /\ users'[u] \in Row
  BY DEF Credible, UsersGrow
<1>2. users[u].ver \in Nat /\ users'[u].ver \in Nat /\ users[u].ver <= users'[u].ver
      /\ ver <= users[u].ver
  BY <1>1 DEF UsersGrow, Row, Credible
<1>3. ASSUME ver = users'[u].ver, users'[u].fpc, ~fpc PROVE Pending(u)'
  <2>1. users'[u].ver = users[u].ver /\ ver = users[u].ver
    BY <1>2, <1>3
  <2> QED BY <1>1, <1>3, <2>1 DEF UsersGrow, Credible
<1> QED BY <1>1, <1>2, <1>3 DEF Credible

LEMMA RequestKept ==
    ASSUME TypeMain, UsersGrow, SessionsGrow, NEW r \in Request, RequestOK(r),
           HasToken(r) => sessions'[r.tok].status = "live"
    PROVE  RequestOK(r)'
<1>1. r.pc \notin {"idle", "setup", "bootstrap"} => r.user \in Users
  BY DEF RequestOK
<1>2. HasRow(r) => r.row \in Row /\ Credible(r.row.ver, r.row.fpc, r.user)'
  BY <1>1, CredibleKept DEF RequestOK, HasRow, Row
<1>3. HasToken(r) \/ r.pc \in {"fill", "store", "admitted", "blacklist"}
          => r.tok \in Issued' /\ sessions'[r.tok].user = r.user
  BY DEF RequestOK, SessionsGrow, Issued, TypeMain
<1>4. r.pc = "rotated" => r.row \in Row /\ r.row.ver = sessions'[r.tok].ver
  BY DEF RequestOK, HasToken, SessionsGrow
<1>5. r.pc \in {"guarding", "flushing", "membership", "invalidate", "revoking"} => users'[r.user] \in Row
  BY <1>1 DEF RequestOK, UsersGrow
<1> QED BY <1>1, <1>2, <1>3, <1>4, <1>5 DEF RequestOK, HasRow, HasToken

LEMMA TokenType ==
    ASSUME TypeMain, NEW i \in Issued
    PROVE  /\ sessions[i] \in Session /\ sessions[i].user \in Users /\ sessions[i].ver \in Nat
           /\ sessions[i].since \in Nat /\ sessions[i].fpc \in BOOLEAN
           /\ sessions[i].parent \in Nat /\ sessions[i].black \in BOOLEAN
<1>1. sessions[i] \in Session
  BY DEF TypeMain, Issued
<1> QED BY <1>1 DEF Session

LEMMA SessionKept ==
    ASSUME TypeMain, UsersGrow, SessionsGrow, NEW i \in Issued, SessionOK(i)
    PROVE  SessionOK(i)'
<1>1. /\ sessions[i].user \in Users /\ sessions[i].ver \in Nat
      /\ sessions[i].fpc \in BOOLEAN /\ sessions[i].parent \in Nat
  BY TokenType
<1>2. Credible(sessions[i].ver, sessions[i].fpc, sessions[i].user)
  BY DEF SessionOK
<1>3. PICK u \in Users, ver \in Nat, fpc \in BOOLEAN :
         u = sessions[i].user /\ ver = sessions[i].ver /\ fpc = sessions[i].fpc
  BY <1>1
<1>4. Credible(ver, fpc, u)'
  BY <1>2, <1>3, CredibleKept
<1>5. Credible(sessions[i].ver, sessions[i].fpc, sessions[i].user)'
  BY <1>3, <1>4 DEF SessionsGrow
<1>6. sessions[i].parent # 0 => sessions[i].parent \in Issued
  BY <1>1 DEF SessionOK, Issued, TypeMain
<1> QED BY <1>5, <1>6 DEF SessionOK, SessionsGrow

LEMMA RequestStays ==
    ASSUME TypeMain, RequestsOK, UsersGrow, SessionsGrow, NEW d \in Clients, req'[d] = req[d],
           HasToken(req[d]) => sessions'[req[d].tok].status = "live"
    PROVE  RequestOK(req[d])'
<1>1. PICK r \in Request : r = req[d]
  BY DEF TypeMain
<1>2. RequestOK(r) /\ (HasToken(r) => sessions'[r.tok].status = "live") /\ req'[d] = r
  <2>1. RequestOK(req[d])
    BY DEF RequestsOK
  <2> QED BY <1>1, <2>1
<1>3. RequestOK(r)'
  BY <1>2, RequestKept
<1> QED BY <1>2, <1>3

LEMMA TokensStay ==
    ASSUME TypeMain, SessionsOK, UsersGrow, SessionsGrow,
           \A i \in Issued' : i \notin Issued => SessionOK(i)'
    PROVE  SessionsOK'
<1>1. ASSUME NEW i \in Issued' PROVE SessionOK(i)'
  BY SessionKept DEF SessionsOK
<1> QED BY <1>1 DEF SessionsOK

\* The requests that go on and the tokens issued before stay as the invariant
\* says; what is left to show of a step is the request and the token it makes.
LEMMA OthersKept ==
    ASSUME TypeMain, RequestsOK, SessionsOK, UsersGrow, SessionsGrow, NEW c \in Clients,
           \A d \in Clients \ {c} : req'[d] = req[d],
           \A d \in Clients \ {c} : HasToken(req[d]) => sessions'[req[d].tok].status = "live",
           RequestOK(req[c])',
           \A i \in Issued' : i \notin Issued => SessionOK(i)'
    PROVE  RequestsOK' /\ SessionsOK'
<1>1. ASSUME NEW d \in Clients, d # c PROVE RequestOK(req[d])'
  <2>1. req'[d] = req[d] /\ (HasToken(req[d]) => sessions'[req[d].tok].status = "live")
    BY <1>1
  <2> QED BY <2>1, RequestStays
<1> QED BY <1>1, TokensStay DEF RequestsOK

LEMMA PendingKept ==
    ASSUME NEW c \in Clients, NEW u \in Users,
           \A d \in Clients \ {c} : req'[d] = req[d], u \in cut => u \in cut',
           Resetting(req[c], u) => Resetting(req[c], u)' \/ u \in cut'
    PROVE  Pending(u) => Pending(u)'
BY DEF Pending, Resetting

\* A step of one request that writes neither a user row nor a token.
Plain(c) ==
    /\ UNCHANGED <<users, sessions>>
    /\ cut \subseteq cut'
    /\ req' = [req EXCEPT ![c] = req'[c]]
    /\ req'[c] \in Request
    /\ RequestOK(req'[c])
    /\ HasToken(req'[c]) => TokenFree(c, req'[c].tok)
    /\ \A u \in Users : Resetting(req[c], u) => Resetting(req'[c], u) \/ u \in cut'

LEMMA UnchangedGrow ==
    ASSUME TypeMain, UNCHANGED sessions
    PROVE  SessionsGrow
BY DEF SessionsGrow, TypeMain

LEMMA UsersStay ==
    ASSUME TypeMain, UNCHANGED users, \A u \in Users : Pending(u) => Pending(u)'
    PROVE  UsersGrow
<1> SUFFICES ASSUME NEW u \in Users, users[u] # NoRow
             PROVE  /\ users'[u] \in Row
                    /\ users[u].ver <= users'[u].ver
                    /\ users'[u].ver = users[u].ver =>
                          /\ users'[u].fpc => users[u].fpc \/ Pending(u)'
                          /\ Pending(u) => Pending(u)'
  BY DEF UsersGrow
<1>1. users[u] \in Row /\ users'[u] = users[u]
  BY DEF TypeMain
<1>2. users[u].ver \in Nat
  BY <1>1 DEF Row
<1> QED BY <1>1, <1>2

\* The locks on tokens stay exclusive when a request locks a free one.
LEMMA LocksKept ==
    ASSUME TokensLocked, NEW c \in Clients, \A d \in Clients \ {c} : req'[d] = req[d],
           HasToken(req'[c]) => TokenFree(c, req'[c].tok)
    PROVE  TokensLocked'
<1>1. ASSUME NEW d \in Clients, d # c, HasToken(req'[c]), HasToken(req'[d]) PROVE req'[c].tok # req'[d].tok
  BY <1>1 DEF TokenFree, HoldsToken, HasToken
<1> QED BY <1>1 DEF TokensLocked

LEMMA PlainStep ==
    ASSUME Core, NEW c \in Clients, Plain(c)
    PROVE  Core'
<1> USE DEF Core
<1>1. PICK r \in Request : r = req'[c]
  BY DEF Plain
<1>2. req' \in [Clients -> Request] /\ \A d \in Clients \ {c} : req'[d] = req[d]
  BY DEF Plain, TypeMain
<1>3. TypeMain'
  BY <1>2 DEF Plain, TypeMain
<1>4. ASSUME NEW u \in Users PROVE Pending(u) => Pending(u)'
  <2>1. Resetting(req[c], u) => Resetting(req[c], u)' \/ u \in cut'
    BY DEF Plain, Resetting
  <2>2. u \in cut => u \in cut'
    BY DEF Plain
  <2> QED BY <1>2, <2>1, <2>2, PendingKept
<1>5. UsersGrow
  BY <1>4, UsersStay DEF Plain
<1>6. SessionsGrow
  BY UnchangedGrow DEF Plain
<1>7. RequestOK(req[c])'
  <2>1. RequestOK(r) /\ (HasToken(r) => sessions'[r.tok].status = "live")
    BY <1>1 DEF Plain, RequestOK
  <2>2. RequestOK(r)'
    BY <1>5, <1>6, <2>1, RequestKept
  <2> QED BY <1>1, <2>2
<1>8. \A d \in Clients \ {c} : HasToken(req[d]) => sessions'[req[d].tok].status = "live"
  BY DEF Plain, RequestsOK, RequestOK
<1>9. RequestsOK' /\ SessionsOK'
  BY <1>2, <1>5, <1>6, <1>7, <1>8, OthersKept DEF Plain, Issued
<1>10. TokensLocked'
  BY <1>2, LocksKept DEF Plain
<1>11. RefreshOnce'
  BY DEF Plain, RefreshOnce, Issued
<1> QED BY <1>3, <1>9, <1>10, <1>11

-----------------------------------------------------------------------------
(* Types *)

LEMMA UserType ==
    ASSUME Core, NEW c \in Clients, req[c].pc \notin {"idle", "setup", "bootstrap"}
    PROVE  req[c].user \in Users
BY DEF Core, RequestsOK, RequestOK

LEMMA RequestType ==
    ASSUME Core, NEW c \in Clients
    PROVE  /\ req[c] \in Request /\ req[c].op \in Path \cup Cause \cup {"none"}
           /\ req[c].user \in Users \cup {NoRow} /\ req[c].tok \in Nat
           /\ req[c].row \in Row \cup {NoRow} /\ req[c].snap \in SUBSET Nat
           /\ req[c].writes \in SUBSET (RoleChange \cup StateChange)
           /\ req[c].holds \in SUBSET {"user", "membership"}
BY DEF Core, TypeMain, Request

LEMMA FaultType ==
    ASSUME TypeRest, Fault \/ NoFault \/ UNCHANGED faults
    PROVE  faults' \in 0..MaxFaults
BY DEF TypeRest, Fault, NoFault

LEMMA TypeRestNext ==
    ASSUME Inv, Next
    PROVE  TypeRest'
<1> USE DEF Inv
<1>1. ASSUME NEW c \in Clients, Begin(c) PROVE TypeRest'
  <2>1. UNCHANGED <<scope, cache, failed, locked, founders, cut>> /\ (Fault \/ NoFault \/ UNCHANGED faults)
    BY <1>1 DEF Begin, complete_setup_begin, bootstrap_admin_begin, login, login_begin, not_locked,
                refresh, request, NotBlacklisted, NoFault
  <2> QED BY <2>1, FaultType DEF TypeRest
<1>2. ASSUME NEW c \in Clients, crash(c) \/ deadlock_detected(c) PROVE TypeRest'
  <2>1. req[c].op = "reset" /\ req[c].pc \in Ending => req[c].user \in Users
    BY UserType DEF Ending
  <2>2. faults' \in 0..MaxFaults /\ RolledBack(c)
    BY <1>2, FaultType DEF crash, deadlock_detected
  <2> QED BY <2>1, <2>2 DEF RolledBack, TypeRest
<1>3. ASSUME Expire PROVE TypeRest'
  <2>1. ASSUME NEW u \in Users, lockout_expires(u) PROVE TypeRest'
    <3>1. failed' = failed \/ failed' = [failed EXCEPT ![u] = 0]
      BY <2>1 DEF lockout_expires
    <3>2. locked' = locked \/ locked' = [locked EXCEPT ![u] = FALSE]
      BY <2>1 DEF lockout_expires
    <3>3. failed' \in [Users -> Nat]
      BY <3>1 DEF TypeRest
    <3>4. locked' \in [Users -> BOOLEAN]
      BY <3>2, Zenon DEF TypeRest
    <3> QED BY <2>1, <3>3, <3>4 DEF lockout_expires, TypeRest
  <2>2. ASSUME NEW u \in Users, cache_expires(u) PROVE TypeRest'
    BY <2>2 DEF cache_expires, TypeRest
  <2>3. ASSUME NEW i \in Issued, _cleanup_refresh_tokens(i) PROVE TypeRest'
    BY <2>3 DEF _cleanup_refresh_tokens, TypeRest
  <2> QED BY <1>3, <2>1, <2>2, <2>3 DEF Expire
<1>4. ASSUME NEW c \in Clients, Continue(c) PROVE TypeRest'
  <2>1. ASSUME NEW u \in Users, complete_setup(c, u) \/ bootstrap_admin(c, u) PROVE TypeRest'
    BY <2>1 DEF complete_setup, bootstrap_admin, TypeRest
  <2>2. ASSUME record_failure(c) \/ clear_failures(c) PROVE TypeRest'
    <3>1. req[c].user \in Users
      BY <2>2, UserType DEF record_failure, clear_failures, At
    <3>2. faults' \in 0..MaxFaults /\ UNCHANGED <<scope, cache, locked, founders, cut>>
      BY <2>2, FaultType DEF record_failure, clear_failures
    <3>3. failed' \in [Users -> Nat]
      BY <2>2, <3>1 DEF record_failure, clear_failures, TypeRest
    <3> QED BY <3>2, <3>3 DEF TypeRest
  <2>3. ASSUME record_failure_lock(c) \/ clear_failures_flag(c) PROVE TypeRest'
    <3>1. req[c].user \in Users
      BY <2>3, UserType DEF record_failure_lock, clear_failures_flag, At
    <3>2. faults' \in 0..MaxFaults /\ UNCHANGED <<scope, cache, failed, founders, cut>>
      BY <2>3, FaultType DEF record_failure_lock, clear_failures_flag
    <3>3. locked' \in [Users -> BOOLEAN]
      BY <2>3, <3>1 DEF record_failure_lock, clear_failures_flag, TypeRest
    <3> QED BY <3>2, <3>3 DEF TypeRest
  <2>4. ASSUME user_store(c) \/ drop_cached_user(c) PROVE TypeRest'
    <3>1. req[c].user \in Users /\ req[c].row \in Row \cup {NoRow}
      BY <2>4, UserType, RequestType DEF user_store, drop_cached_user, At
    <3>2. faults' \in 0..MaxFaults /\ UNCHANGED <<scope, locked, failed, founders, cut>>
      BY <2>4, FaultType DEF user_store, drop_cached_user
    <3>3. cache' \in [Users -> Row \cup {NoRow}]
      BY <2>4, <3>1 DEF user_store, drop_cached_user, TypeRest
    <3> QED BY <3>2, <3>3 DEF TypeRest
  <2>5. ASSUME blacklist_current(c) PROVE TypeRest'
    BY <2>5, FaultType DEF blacklist_current, blacklist_jti, TypeRest
  <2>6. ASSUME logout_all_commit(c) PROVE TypeRest'
    BY <2>6 DEF logout_all_commit, TypeRest
  <2>7. ASSUME \/ authenticate(c) \/ login_commit(c) \/ refresh_check(c) \/ refresh_commit(c)
               \/ user_read(c) \/ logout(c) \/ refuse(c) \/ change_password(c) \/ logout_all_begin(c)
               \/ \E u \in Users, role \in Role : create_user(c, u, role)
               \/ \E u \in Users, b \in PatchBody : update_user(c, u, b)
               \/ count_active_admins_for_update(c) \/ flush(c) \/ write_membership(c)
               \/ \E u \in Users : reactivate_user(c, u) \/ unlock_account(c, u) \/ reset_password(c, u)
        PROVE  TypeRest'
    <3>1. UNCHANGED <<scope, cache, failed, locked, founders, cut, faults>>
      BY <2>7 DEF authenticate, login_commit, refresh_check, refresh_commit, user_read, logout, refuse,
                  change_password, logout_all_begin, create_user, update_user,
                  count_active_admins_for_update, flush, write_membership, reactivate_user,
                  unlock_account, reset_password
    <3> QED BY <3>1 DEF TypeRest
  <2> QED BY <1>4, <2>1, <2>2, <2>3, <2>4, <2>5, <2>6, <2>7 DEF Continue
<1> QED BY <1>1, <1>2, <1>3, <1>4 DEF Next

-----------------------------------------------------------------------------
(* The steps that write neither a user row nor a token *)

\* The request goes to r, which is as the invariant says.
LEMMA PlainTo ==
    ASSUME Core, NEW c \in Clients, NEW r \in Request, Goto(c, r), UNCHANGED <<users, sessions>>,
           cut \subseteq cut', RequestOK(r), HasToken(r) => TokenFree(c, r.tok),
           \A u \in Users : Resetting(req[c], u) => Resetting(r, u) \/ u \in cut'
    PROVE  Plain(c)
<1>1. req' = [req EXCEPT ![c] = r] /\ req'[c] = r
  BY DEF Goto, Core, TypeMain
<1> QED BY <1>1 DEF Plain

LEMMA PlainDone ==
    ASSUME Core, NEW c \in Clients, Goto(c, NoReq), UNCHANGED <<users, sessions>>, cut \subseteq cut',
           \A u \in Users : Resetting(req[c], u) => u \in cut'
    PROVE  Plain(c)
BY PlainTo, NoReqType

LEMMA InvalidateStep ==
    ASSUME Core, NEW c \in Clients, NEW op \in Cause, NEW u \in Users, users[u] \in Row,
           req[c].pc \in {"idle", "admitted"}, Invalidates(c, op, u), UNCHANGED <<users, sessions, cut>>
    PROVE  Plain(c)
<1>1. PICK r \in Request : r = [NoReq EXCEPT !.pc = "invalidate", !.op = op, !.user = u]
  BY NoReqType DEF Request, Phase
<1>2. r.pc = "invalidate" /\ r.user = u
  BY <1>1, NoReqType DEF Request
<1>3. Goto(c, r)
  BY <1>1 DEF Invalidates
<1>4. RequestOK(r) /\ ~HasToken(r) /\ \A v \in Users : ~Resetting(req[c], v)
  BY <1>2 DEF RequestOK, HasRow, HasToken, Resetting
<1> QED BY <1>3, <1>4, PlainTo

LEMMA RowOfToken ==
    ASSUME Core, NEW i \in Issued
    PROVE  sessions[i].user \in Users /\ users[sessions[i].user] \in Row
BY TokenType DEF Core, SessionsOK, SessionOK, Credible

LEMMA TokenNumber ==
    ASSUME NEW i \in Issued
    PROVE  i \in Nat /\ i # 0
BY DEF Issued

LEMMA BeginPlain ==
    ASSUME Core, NEW c \in Clients, Begin(c)
    PROVE  Plain(c)
<1> USE DEF At
<1>1. CASE complete_setup_begin(c) \/ bootstrap_admin_begin(c)
  <2>1. PICK r \in Request : (r = Moved(c, "setup") \/ r = Moved(c, "bootstrap")) /\ Goto(c, r)
    BY <1>1, RequestType DEF complete_setup_begin, bootstrap_admin_begin, Moved, Request, Phase
  <2>2. r.pc \in {"setup", "bootstrap"}
    BY <2>1, RequestType DEF Moved, Request
  <2>3. RequestOK(r) /\ ~HasToken(r)
    BY <2>2 DEF RequestOK, HasRow, HasToken
  <2>4. req[c].pc = "idle" /\ UNCHANGED <<users, sessions, cut>>
    BY <1>1 DEF complete_setup_begin, bootstrap_admin_begin
  <2> QED BY <2>1, <2>3, <2>4, PlainTo DEF Resetting
<1>2. ASSUME NEW u \in Users, login(c, u) PROVE Plain(c)
  <2>1. PICK r \in Request : r = [NoReq EXCEPT !.pc = "credentials", !.user = u]
    BY NoReqType DEF Request, Phase
  <2>2. r.pc = "credentials" /\ r.user = u
    BY <2>1, NoReqType DEF Request
  <2>3. RequestOK(r) /\ ~HasToken(r)
    BY <2>2 DEF RequestOK, HasRow, HasToken
  <2>4. req[c].pc = "idle" /\ UNCHANGED <<users, sessions, cut>> /\ Goto(c, r)
    BY <1>2, <2>1 DEF login, login_begin
  <2> QED BY <2>3, <2>4, PlainTo DEF Resetting
<1>3. ASSUME NEW i \in Issued, refresh(c, i) PROVE Plain(c)
  <2>1. req[c].pc = "idle" /\ UNCHANGED <<users, sessions, cut>> /\ TokenFree(c, i)
    BY <1>3 DEF refresh, get_by_hash
  <2>2. CASE replay(c, i)
    BY <2>1, <2>2, RowOfToken, InvalidateStep DEF replay, Cause
  <2>3. CASE ~replay(c, i)
    <3>1. PICK r \in Request : r = [NoReq EXCEPT !.pc = "rotating", !.tok = i, !.user = sessions[i].user]
      BY NoReqType, RowOfToken, TokenNumber DEF Request, Phase
    <3>2. r.pc = "rotating" /\ r.user = sessions[i].user /\ r.tok = i
      BY <3>1, NoReqType DEF Request
    <3>3. sessions[i].status = "live" /\ Goto(c, r)
      BY <1>3, <2>3, <3>1 DEF refresh
    <3>4. RequestOK(r)
      BY <3>2, <3>3, RowOfToken DEF RequestOK, HasRow, HasToken
    <3> QED BY <2>1, <3>2, <3>3, <3>4, PlainTo DEF Resetting
  <2> QED BY <2>2, <2>3
<1>4. ASSUME NEW i \in Issued, NEW op \in Path, request(c, i, op) PROVE Plain(c)
  <2>1. req[c].pc = "idle" /\ UNCHANGED <<users, sessions, cut>>
    BY <1>4 DEF request
  <2>2. PICK u \in Users : u = sessions[i].user
    BY RowOfToken
  <2>3. PICK r : r = [NoReq EXCEPT !.op = op, !.tok = i, !.user = u]
    OBVIOUS
  <2>4. r \in Request /\ r.tok = i /\ r.user = u /\ r.op = op
    BY <2>3, NoReqType, TokenNumber DEF Request
  <2>5. PICK f \in Request : f = [r EXCEPT !.pc = "fill"]
    BY <2>4 DEF Request, Phase
  <2>6. PICK a \in Request : a = [NoReq EXCEPT !.pc = "admitted", !.op = op, !.tok = i, !.user = u]
    BY NoReqType, TokenNumber DEF Request, Phase
  <2>7. Goto(c, f) \/ Goto(c, a)
    BY <1>4, <2>2, <2>3, <2>4, <2>5, <2>6 DEF request, Admitted
  <2>8. f.pc = "fill" /\ a.pc = "admitted" /\ f.tok = i /\ a.tok = i /\ f.user = u /\ a.user = u
    BY <2>4, <2>5, <2>6, NoReqType DEF Request
  <2>9. RequestOK(f) /\ RequestOK(a) /\ ~HasToken(f) /\ ~HasToken(a)
    BY <2>2, <2>8 DEF RequestOK, HasRow, HasToken
  <2> QED BY <2>1, <2>7, <2>9, PlainTo DEF Resetting
<1> QED BY <1>1, <1>2, <1>3, <1>4 DEF Begin

LEMMA MovedType ==
    ASSUME Core, NEW c \in Clients, NEW pc \in Phase
    PROVE  /\ Moved(c, pc) \in Request /\ Moved(c, pc).pc = pc
           /\ Moved(c, pc).op = req[c].op /\ Moved(c, pc).user = req[c].user
           /\ Moved(c, pc).tok = req[c].tok /\ Moved(c, pc).row = req[c].row
           /\ Moved(c, pc).holds = req[c].holds /\ Moved(c, pc).writes = req[c].writes
           /\ Moved(c, pc).snap = req[c].snap
BY RequestType DEF Moved, Request

\* A request of a login or an unlock that moves on with what it has.
LEMMA MovedStep ==
    ASSUME Core, NEW c \in Clients, UNCHANGED <<users, sessions, cut>>, NEW pc \in Phase,
           Goto(c, Moved(c, pc)),
           \/ req[c].pc \in {"credentials", "failing"} /\ pc \in {"failing", "locking"}
           \/ req[c].pc = "clearing" /\ pc = "unlocking"
           \/ req[c].pc \in {"clearing", "unlocking"} /\ req[c].op # "unlock" /\ pc = "opening"
    PROVE  Plain(c)
<1>1. PICK r \in Request : r = Moved(c, pc)
  BY RequestType DEF Moved, Request
<1>2. r.pc = pc /\ r.op = req[c].op /\ r.user = req[c].user /\ r.row = req[c].row
  BY <1>1, RequestType DEF Moved, Request
<1>3. RequestOK(req[c])
  BY DEF Core, RequestsOK
<1>4. r.user \in Users
  BY <1>2, UserType
<1>5. HasRow(r) => r.row \in Row /\ Credible(r.row.ver, r.row.fpc, r.user)
  BY <1>2, <1>3 DEF RequestOK, HasRow
<1>6. RequestOK(r) /\ ~HasToken(r)
  BY <1>2, <1>4, <1>5 DEF RequestOK, HasToken
<1> QED BY <1>1, <1>6, PlainTo DEF Resetting

\* An update of an account that goes on, with one more row locked or not.
LEMMA UpdateStep ==
    ASSUME Core, NEW c \in Clients, NEW r \in Request, UNCHANGED <<users, sessions, cut>>, Goto(c, r),
           r.pc \in {"guarding", "flushing", "membership", "invalidate"},
           r.user \in Users, users[r.user] \in Row,
           req[c].pc \in {"admitted", "guarding", "flushing", "membership"}
    PROVE  Plain(c)
<1>1. RequestOK(r) /\ ~HasToken(r) /\ \A u \in Users : ~Resetting(req[c], u)
  BY DEF RequestOK, HasRow, HasToken, Resetting
<1> QED BY <1>1, PlainTo

LEMMA LockedType ==
    ASSUME Core, NEW c \in Clients, NEW pc \in Phase, NEW kind \in {"user", "membership"}
    PROVE  /\ Locked(c, kind, pc) \in Request /\ Locked(c, kind, pc).pc = pc
           /\ Locked(c, kind, pc).op = req[c].op /\ Locked(c, kind, pc).user = req[c].user
           /\ Locked(c, kind, pc).tok = req[c].tok /\ Locked(c, kind, pc).snap = req[c].snap
           /\ Locked(c, kind, pc).writes = req[c].writes
           /\ Locked(c, kind, pc).holds = req[c].holds \cup {kind}
<1>1. PICK m \in Request : /\ m = Moved(c, pc) /\ m.pc = pc /\ m.op = req[c].op /\ m.user = req[c].user
                          /\ m.tok = req[c].tok /\ m.snap = req[c].snap
                          /\ m.writes = req[c].writes /\ m.holds = req[c].holds
  BY MovedType
<1>2. PICK h \in SUBSET {"user", "membership"} : h = req[c].holds \cup {kind}
  BY RequestType
<1>3. PICK r : r = [m EXCEPT !.holds = h]
  OBVIOUS
<1>4. /\ r \in Request /\ r.pc = m.pc /\ r.op = m.op /\ r.user = m.user /\ r.tok = m.tok
      /\ r.snap = m.snap /\ r.writes = m.writes /\ r.holds = h
  BY <1>3 DEF Request
<1>5. Locked(c, kind, pc) = r
  BY <1>1, <1>2, <1>3 DEF Locked
<1> QED BY <1>1, <1>2, <1>4, <1>5

LEMMA FirstPhase ==
    ASSUME NEW writes
    PROVE  FirstWrite(writes) \in {"flushing", "membership", "invalidate"}
BY DEF FirstWrite

LEMMA PatchStarts ==
    ASSUME NEW c \in Clients, NEW u \in Users, NEW b \in PatchBody, update_user(c, u, b)
    PROVE  \E r \in Request : /\ Goto(c, r) /\ r.op = "update" /\ r.user = u /\ r.holds = {}
                              /\ r.pc \in {"guarding", "flushing", "membership", "invalidate"}
<1>1. PICK writes \in Differing(users[u], b) :
        Goto(c, [NoReq EXCEPT !.op = "update", !.user = u, !.writes = writes,
                              !.pc = IF Guarded(users[u], b) THEN "guarding" ELSE FirstWrite(writes)])
  BY DEF update_user
<1>2. writes \in SUBSET (RoleChange \cup StateChange)
  BY DEF Differing, Effective, PatchBody
<1>3. PICK pc \in {"guarding", "flushing", "membership", "invalidate"} :
        pc = IF Guarded(users[u], b) THEN "guarding" ELSE FirstWrite(writes)
  BY FirstPhase
<1>4. PICK r : r = [NoReq EXCEPT !.op = "update", !.user = u, !.writes = writes, !.pc = pc]
  OBVIOUS
<1>5. r \in Request /\ r.op = "update" /\ r.user = u /\ r.pc = pc /\ r.holds = {}
  BY <1>2, <1>3, <1>4, NoReqType DEF Request, Phase, Cause
<1> QED BY <1>1, <1>3, <1>4, <1>5

\* The statements of update_user before it ends the sessions.
LEMMA UpdatingTo ==
    ASSUME Core, NEW c \in Clients, count_active_admins_for_update(c) \/ flush(c) \/ write_membership(c)
    PROVE  /\ req[c].pc \in {"guarding", "flushing", "membership"}
           /\ \/ Goto(c, NoReq)
              \/ \E kind \in {"user", "membership"}, pc \in {"flushing", "membership", "invalidate"} :
                    Goto(c, Locked(c, kind, pc))
<1> USE DEF At
<1>1. CASE count_active_admins_for_update(c)
  BY <1>1, FirstPhase DEF count_active_admins_for_update
<1>2. CASE flush(c)
  BY <1>2 DEF flush
<1>3. CASE write_membership(c)
  BY <1>3 DEF write_membership
<1> QED BY <1>1, <1>2, <1>3

LEMMA UpdatingPlain ==
    ASSUME Core, NEW c \in Clients, count_active_admins_for_update(c) \/ flush(c) \/ write_membership(c)
    PROVE  Plain(c)
<1>1. req[c].pc \in {"guarding", "flushing", "membership"}
  BY UpdatingTo
<1>2. UNCHANGED <<users, sessions, cut>> /\ req[c].user \in Users /\ users[req[c].user] \in Row
  BY <1>1, UserType DEF count_active_admins_for_update, flush, write_membership, Core, RequestsOK, RequestOK
<1>3. CASE Goto(c, NoReq)
  BY <1>1, <1>2, <1>3, PlainDone DEF Resetting
<1>4. ASSUME NEW kind \in {"user", "membership"}, NEW pc \in {"flushing", "membership", "invalidate"},
             Goto(c, Locked(c, kind, pc))
      PROVE  Plain(c)
  <2> PICK r \in Request : /\ r = Locked(c, kind, pc) /\ r.pc = pc /\ r.user = req[c].user
    BY LockedType DEF Phase
  <2> QED BY <1>1, <1>2, <1>4, UpdateStep
<1> QED BY <1>3, <1>4, UpdatingTo

LEMMA LoginPlain ==
    ASSUME Core, NEW c \in Clients,
           \/ authenticate(c) \/ record_failure(c) \/ record_failure_lock(c)
           \/ clear_failures(c) \/ clear_failures_flag(c)
    PROVE  Plain(c)
<1> USE DEF At
<1>1. CASE authenticate(c)
  <2>1. req[c].pc = "credentials" /\ UNCHANGED <<users, sessions, cut>> /\ req[c].user \in Users
    BY <1>1, UserType DEF authenticate
  <2>2. PICK row \in Row \cup {NoRow} :
           /\ row = NoRow \/ row = users[req[c].user]
           /\ Goto(c, IF row = NoRow THEN Moved(c, "failing")
                      ELSE IF ~row.active THEN NoReq
                      ELSE [Moved(c, "clearing") EXCEPT !.row = row])
    <3>1. users[req[c].user] \in Row \cup {NoRow}
      BY <2>1 DEF Core, TypeMain
    <3>2. AuthOutcome(req[c].user) \subseteq {NoRow, users[req[c].user]}
      BY DEF AuthOutcome
    <3> QED BY <1>1, <3>1, <3>2 DEF authenticate
  <2>3. CASE row = NoRow
    <3>1. Goto(c, Moved(c, "failing")) /\ "failing" \in Phase
      BY <2>2, <2>3 DEF Phase
    <3> QED BY <2>1, <3>1, MovedStep
  <2>4. CASE row # NoRow /\ ~row.active
    BY <2>1, <2>2, <2>4, PlainDone DEF Resetting
  <2>5. CASE row # NoRow /\ row.active
    <3> PICK m \in Request : m = Moved(c, "clearing") /\ m.pc = "clearing" /\ m.user = req[c].user
      BY MovedType DEF Phase
    <3>1. PICK r \in Request : r = [Moved(c, "clearing") EXCEPT !.row = row]
      BY DEF Request
    <3>2. r.pc = "clearing" /\ r.user = req[c].user /\ r.row = row
      BY <3>1 DEF Request
    <3>3. Goto(c, r) /\ row \in Row /\ row = users[r.user]
      BY <2>2, <2>5, <3>1, <3>2
    <3>4. row.ver \in Nat
      BY <3>3 DEF Row
    <3>5. Credible(r.row.ver, r.row.fpc, r.user)
      BY <3>2, <3>3, <3>4 DEF Credible
    <3>6. RequestOK(r) /\ ~HasToken(r)
      BY <2>1, <3>2, <3>3, <3>5 DEF RequestOK, HasToken
    <3> QED BY <2>1, <3>3, <3>6, PlainTo DEF Resetting
  <2> QED BY <2>3, <2>4, <2>5
<1>2. CASE record_failure(c)
  <2>1. req[c].pc = "failing" /\ UNCHANGED <<users, sessions, cut>> /\ "locking" \in Phase
    BY <1>2 DEF record_failure, Phase
  <2>2. Goto(c, NoReq) \/ Goto(c, Moved(c, "locking"))
    BY <1>2 DEF record_failure
  <2> QED BY <2>1, <2>2, PlainDone, MovedStep DEF Resetting
<1>3. CASE record_failure_lock(c)
  BY <1>3, PlainDone DEF record_failure_lock, Resetting
<1>4. CASE clear_failures(c) \/ clear_failures_flag(c)
  <2>1. /\ req[c].pc \in {"clearing", "unlocking"} /\ UNCHANGED <<users, sessions, cut>>
        /\ "opening" \in Phase /\ "unlocking" \in Phase
    BY <1>4 DEF clear_failures, clear_failures_flag, Phase
  <2>2. \/ Goto(c, NoReq)
        \/ Goto(c, Moved(c, "opening")) /\ req[c].op # "unlock"
        \/ Goto(c, Moved(c, "unlocking")) /\ req[c].pc = "clearing"
    BY <1>4 DEF clear_failures, clear_failures_flag
  <2> QED BY <2>1, <2>2, PlainDone, MovedStep DEF Resetting
<1> QED BY <1>1, <1>2, <1>3, <1>4

LEMMA ServedPlain ==
    ASSUME Core, NEW c \in Clients,
           \/ user_read(c) \/ user_store(c) \/ refuse(c) \/ change_password(c)
           \/ \E u \in Users, b \in PatchBody : update_user(c, u, b)
           \/ \E u \in Users : unlock_account(c, u)
    PROVE  Plain(c)
<1> USE DEF At, Serves, Administers
<1>1. CASE user_read(c)
  <2>1. req[c].pc = "fill" /\ UNCHANGED <<users, sessions, cut>> /\ req[c].user \in Users
    BY <1>1, UserType DEF user_read
  <2> PICK m \in Request : /\ m = Moved(c, "store") /\ m.pc = "store"
                           /\ m.user = req[c].user /\ m.tok = req[c].tok
    BY MovedType DEF Phase
  <2>a. users[req[c].user] \in Row \cup {NoRow}
    BY <2>1 DEF Core, TypeMain
  <2>2. PICK r \in Request : r = [m EXCEPT !.row = users[req[c].user]]
    BY <2>a DEF Request
  <2>3. r.pc = "store" /\ r.user = req[c].user /\ r.tok = req[c].tok /\ Goto(c, r)
    BY <1>1, <2>2 DEF Request, user_read
  <2>4. RequestOK(r) /\ ~HasToken(r)
    BY <2>1, <2>3 DEF RequestOK, HasToken, HasRow, Core, RequestsOK
  <2> QED BY <2>1, <2>3, <2>4, PlainTo DEF Resetting
<1>2. CASE user_store(c)
  <2>1. req[c].pc = "store" /\ UNCHANGED <<users, sessions, cut>> /\ req[c].user \in Users
    BY <1>2, UserType DEF user_store
  <2>2. PICK r \in Request : r = [NoReq EXCEPT !.pc = "admitted", !.op = req[c].op,
                                               !.tok = req[c].tok, !.user = req[c].user]
    BY <2>1, RequestType, NoReqType DEF Request, Phase
  <2>3. r.pc = "admitted" /\ r.user = req[c].user /\ r.tok = req[c].tok
    BY <2>2, NoReqType DEF Request
  <2>4. Goto(c, NoReq) \/ Goto(c, r)
    BY <1>2, <2>2 DEF user_store, Admitted
  <2>5. RequestOK(r) /\ ~HasToken(r)
    BY <2>1, <2>3 DEF RequestOK, HasToken, HasRow, Core, RequestsOK
  <2> QED BY <2>1, <2>4, <2>5, PlainTo, PlainDone DEF Resetting
<1>3. CASE refuse(c)
  BY <1>3, PlainDone DEF refuse, Resetting
<1>4. CASE change_password(c)
  <2>1. /\ req[c].pc = "admitted" /\ UNCHANGED <<users, sessions, cut>> /\ req[c].user \in Users
        /\ Invalidates(c, "change", req[c].user)
    BY <1>4, UserType DEF change_password, password_changes
  <2>2. users[req[c].user] \in Row
    BY <2>1, RowOfToken DEF Core, RequestsOK, RequestOK
  <2> QED BY <2>1, <2>2, InvalidateStep DEF Cause
<1>5. ASSUME NEW u \in Users, NEW b \in PatchBody, update_user(c, u, b)
      PROVE  Plain(c)
  <2>1. users[u] \in Row /\ req[c].pc = "admitted" /\ UNCHANGED <<users, sessions, cut>>
    BY <1>5 DEF update_user, Core, TypeMain
  <2>2. PICK r \in Request : /\ Goto(c, r) /\ r.user = u
                            /\ r.pc \in {"guarding", "flushing", "membership", "invalidate"}
    BY <1>5, PatchStarts
  <2> QED BY <2>1, <2>2, UpdateStep
<1>6. ASSUME NEW u \in Users, unlock_account(c, u) PROVE Plain(c)
  <2>1. PICK r \in Request : r = [NoReq EXCEPT !.pc = "clearing", !.op = "unlock", !.user = u]
    BY NoReqType DEF Request, Phase, Cause
  <2>2. r.pc = "clearing" /\ r.op = "unlock" /\ r.user = u
    BY <2>1, NoReqType DEF Request
  <2>3. RequestOK(r) /\ ~HasToken(r)
    BY <2>2 DEF RequestOK, HasRow, HasToken
  <2> QED BY <1>6, <2>1, <2>3, PlainTo DEF unlock_account, Resetting
<1> QED BY <1>1, <1>2, <1>3, <1>4, <1>5, <1>6

LEMMA BegunTo ==
    ASSUME Core, NEW c \in Clients, logout_all_begin(c)
    PROVE  \E r \in Request : /\ Goto(c, r) /\ r.pc = "revoking"
                              /\ r.user = req[c].user /\ r.op = req[c].op
                              /\ r.holds = req[c].holds \cup {"user"}
<1>1. LiveTokens(req[c].user) \in SUBSET Nat
  BY TokenNumber DEF LiveTokens
<1> PICK m \in Request : /\ m = Locked(c, "user", "revoking") /\ m.pc = "revoking"
                         /\ m.user = req[c].user /\ m.op = req[c].op
                         /\ m.holds = req[c].holds \cup {"user"}
  BY LockedType DEF Phase
<1>2. PICK r : r = [m EXCEPT !.snap = LiveTokens(req[c].user)]
  OBVIOUS
<1>3. /\ r \in Request /\ r.pc = "revoking" /\ r.user = req[c].user /\ r.op = req[c].op
      /\ r.holds = req[c].holds \cup {"user"}
  BY <1>1, <1>2 DEF Request
<1> QED BY <1>2, <1>3 DEF logout_all_begin

LEMMA EndingPlain ==
    ASSUME Core, NEW c \in Clients,
           logout_all_begin(c) \/ drop_cached_user(c) \/ crash(c) \/ deadlock_detected(c)
    PROVE  Plain(c)
<1> USE DEF At
<1>1. CASE logout_all_begin(c)
  <2>1. /\ req[c].pc = "invalidate" /\ UNCHANGED <<users, sessions, cut>>
        /\ req[c].user \in Users /\ users[req[c].user] \in Row
    BY <1>1, UserType DEF logout_all_begin, Core, RequestsOK, RequestOK
  <2>4. PICK r \in Request : Goto(c, r) /\ r.pc = "revoking" /\ r.user = req[c].user /\ r.op = req[c].op
    BY <1>1, BegunTo
  <2>5. RequestOK(r) /\ ~HasToken(r)
    BY <2>1, <2>4 DEF RequestOK, HasToken, HasRow
  <2>6. \A u \in Users : Resetting(req[c], u) => Resetting(r, u)
    BY <2>4 DEF Resetting
  <2> QED BY <2>1, <2>4, <2>5, <2>6, PlainTo
<1>2. CASE drop_cached_user(c)
  BY <1>2, PlainDone DEF drop_cached_user, Resetting
<1>3. CASE crash(c) \/ deadlock_detected(c)
  <2>1. RolledBack(c)
    BY <1>3 DEF crash, deadlock_detected
  <2> QED BY <2>1, PlainDone DEF RolledBack, Resetting, Ending
<1> QED BY <1>1, <1>2, <1>3

-----------------------------------------------------------------------------
(* The steps that write a user row or a token *)

LEMMA WriteStep ==
    ASSUME Core, NEW c \in Clients, UsersGrow, SessionsGrow, users' \in [Users -> Row \cup {NoRow}],
           req' = [req EXCEPT ![c] = req'[c]], req'[c] \in Request, ~HasToken(req'[c]),
           RequestOK(req[c])',
           \A d \in Clients \ {c} : HasToken(req[d]) => sessions'[req[d].tok].status = "live",
           \A i \in Issued' : i \notin Issued => SessionOK(i)',
           RefreshOnce'
    PROVE  Core'
<1> USE DEF Core
<1>1. req' \in [Clients -> Request] /\ \A d \in Clients \ {c} : req'[d] = req[d]
  BY DEF TypeMain
<1>2. TypeMain'
  BY <1>1 DEF TypeMain, SessionsGrow
<1>3. RequestsOK' /\ SessionsOK'
  BY <1>1, OthersKept
<1>4. TokensLocked'
  BY <1>1, LocksKept
<1> QED BY <1>2, <1>3, <1>4

LEMMA NoReqKept == RequestOK(NoReq)'
BY NoReqType DEF RequestOK, HasRow, HasToken

\* A request that resets nothing leaves what is pending as it is.
LEMMA PendingStays ==
    ASSUME TypeMain, NEW c \in Clients, req' = [req EXCEPT ![c] = req'[c]], UNCHANGED cut,
           req[c].pc \notin {"invalidate", "revoking"}
    PROVE  \A u \in Users : Pending(u) => Pending(u)'
<1> TAKE u \in Users
<1>1. \A d \in Clients \ {c} : req'[d] = req[d]
  BY DEF TypeMain
<1>2. ~Resetting(req[c], u)
  BY DEF Resetting
<1> QED BY <1>1, <1>2, PendingKept

\* One row is written without a new version.
LEMMA RowStep ==
    ASSUME Core, NEW c \in Clients, NEW u \in Users, NEW row \in Row, UNCHANGED <<sessions, cut>>,
           users' = [users EXCEPT ![u] = row], req' = [req EXCEPT ![c] = req'[c]],
           req'[c] \in Request, ~HasToken(req'[c]), RequestOK(req[c])',
           req[c].pc \notin {"invalidate", "revoking"},
           users[u] # NoRow => row.ver = users[u].ver,
           users[u] # NoRow => (row.fpc => users[u].fpc \/ Pending(u)')
    PROVE  Core'
<1> USE DEF Core
<1>1. \A v \in Users : Pending(v) => Pending(v)'
  BY PendingStays
<1>2. users' \in [Users -> Row \cup {NoRow}]
  BY DEF TypeMain
<1>3. UsersGrow
  <2> SUFFICES ASSUME NEW v \in Users, users[v] # NoRow
               PROVE  /\ users'[v] \in Row
                      /\ users[v].ver <= users'[v].ver
                      /\ users'[v].ver = users[v].ver =>
                            /\ users'[v].fpc => users[v].fpc \/ Pending(v)'
                            /\ Pending(v) => Pending(v)'
    BY DEF UsersGrow
  <2>1. users[v] \in Row /\ users[v].ver \in Nat
    BY DEF TypeMain, Row
  <2>2. CASE v = u
    BY <1>1, <2>1, <2>2 DEF TypeMain
  <2>3. CASE v # u
    BY <1>1, <2>1, <2>3 DEF TypeMain
  <2> QED BY <2>2, <2>3
<1>4. SessionsGrow
  BY UnchangedGrow
<1>5. \A d \in Clients \ {c} : HasToken(req[d]) => sessions'[req[d].tok].status = "live"
  BY DEF RequestsOK, RequestOK
<1>6. RefreshOnce' /\ \A i \in Issued' : i \in Issued
  BY DEF RefreshOnce, Issued
<1> QED BY <1>2, <1>3, <1>4, <1>5, <1>6, WriteStep

LEMMA Done ==
    ASSUME Core, NEW c \in Clients, Goto(c, NoReq)
    PROVE  /\ req' = [req EXCEPT ![c] = req'[c]] /\ req'[c] = NoReq /\ req'[c] \in Request
           /\ ~HasToken(req'[c]) /\ RequestOK(req[c])'
<1>1. req' = [req EXCEPT ![c] = req'[c]] /\ req'[c] = NoReq
  BY DEF Goto, Core, TypeMain
<1> QED BY <1>1, NoReqType, NoReqKept

LEMMA AccountType ==
    ASSUME NEW role \in Role, NEW fpc \in BOOLEAN
    PROVE  create_account(role, fpc) \in Row
BY DEF create_account, Row

LEMMA CreateStep ==
    ASSUME Core, NEW c \in Clients, NEW u \in Users, NEW role \in Role, NEW fpc \in BOOLEAN,
           users[u] = NoRow, users' = [users EXCEPT ![u] = create_account(role, fpc)],
           UNCHANGED <<sessions, cut>>, Goto(c, NoReq), req[c].pc \notin {"invalidate", "revoking"}
    PROVE  Core'
<1>1. create_account(role, fpc) \in Row
  BY AccountType
<1> QED BY <1>1, Done, RowStep

LEMMA RowWritten ==
    ASSUME NEW row \in Row, NEW v \in BOOLEAN
    PROVE  /\ update(row, "active", v) \in Row /\ update(row, "active", v).ver = row.ver
           /\ update(row, "active", v).fpc = row.fpc
           /\ update(row, "fpc", v) \in Row /\ update(row, "fpc", v).ver = row.ver
BY DEF update, Row

LEMMA StateWritten ==
    ASSUME NEW row \in Row, NEW changes
    PROVE  /\ update_state(row, changes) \in Row /\ update_state(row, changes).ver = row.ver
           /\ update_state(row, changes).fpc = row.fpc
<1>1. row.active \in BOOLEAN
  BY DEF Row
<1>2. PICK v \in BOOLEAN : v = ("reactivate" \in changes \/ (row.active /\ "deactivate" \notin changes))
  BY <1>1, Zenon
<1>3. update_state(row, changes) = update(row, "active", v)
  BY <1>2, Zenon DEF update_state
<1>4. /\ update(row, "active", v) \in Row /\ update(row, "active", v).ver = row.ver
      /\ update(row, "active", v).fpc = row.fpc
  BY RowWritten
<1> QED BY <1>3, <1>4, Zenon

LEMMA AccountSteps ==
    ASSUME Core, NEW c \in Clients,
           \/ \E u \in Users : complete_setup(c, u) \/ bootstrap_admin(c, u)
           \/ \E u \in Users, role \in Role : create_user(c, u, role)
           \/ \E u \in Users : reactivate_user(c, u) \/ reset_password(c, u)
    PROVE  Core'
<1> USE DEF At, Administers, Serves
<1>1. ASSUME NEW u \in Users, complete_setup(c, u) \/ bootstrap_admin(c, u) PROVE Core'
  <2>1. req[c].pc \in {"setup", "bootstrap"} /\ UNCHANGED <<sessions, cut>> /\ Goto(c, NoReq)
    BY <1>1 DEF complete_setup, bootstrap_admin
  <2>2. CASE users[u] = NoRow
    <3>1. PICK fpc \in BOOLEAN : users' = [users EXCEPT ![u] = create_account("ADMIN", fpc)]
      BY <1>1, <2>2 DEF complete_setup, bootstrap_admin
    <3> QED BY <2>1, <2>2, <3>1, CreateStep DEF Role
  <2>3. CASE users[u] # NoRow
    <3>1. UNCHANGED users
      BY <1>1, <2>3 DEF complete_setup, bootstrap_admin
    <3>2. Plain(c)
      BY <2>1, <3>1, PlainDone DEF Resetting
    <3> QED BY <3>2, PlainStep
  <2> QED BY <2>2, <2>3
<1>2. ASSUME NEW u \in Users, NEW role \in Role, create_user(c, u, role) PROVE Core'
  BY <1>2, CreateStep DEF create_user
<1>3. ASSUME NEW u \in Users, reactivate_user(c, u) PROVE Core'
  <2>1. users[u] \in Row
    BY <1>3 DEF reactivate_user, Core, TypeMain
  <2>2. PICK row \in Row : /\ row = update_state(users[u], {"reactivate"})
                           /\ row.ver = users[u].ver /\ row.fpc = users[u].fpc
    BY <2>1, StateWritten
  <2>3. users' = [users EXCEPT ![u] = row]
    BY <1>3, <2>2 DEF reactivate_user
  <2>4. req[c].pc = "admitted" /\ UNCHANGED <<sessions, cut>> /\ Goto(c, NoReq)
    BY <1>3 DEF reactivate_user
  <2> QED BY <2>2, <2>3, <2>4, Done, RowStep, ZenonT(60)
<1>4. ASSUME NEW u \in Users, reset_password(c, u) PROVE Core'
  <2>1. users[u] \in Row
    BY <1>4 DEF reset_password, Core, TypeMain
  <2>2. PICK row \in Row : row = update(users[u], "fpc", TRUE) /\ row.ver = users[u].ver
    BY <2>1, RowWritten
  <2>3. users' = [users EXCEPT ![u] = row]
    BY <1>4, <2>2 DEF reset_password
  <2>4. req[c].pc = "admitted" /\ UNCHANGED <<sessions, cut>>
    BY <1>4 DEF reset_password
  <2>5. PICK r \in Request : r = [NoReq EXCEPT !.pc = "invalidate", !.op = "reset", !.user = u]
    BY NoReqType DEF Request, Phase, Cause
  <2>6. r.pc = "invalidate" /\ r.op = "reset" /\ r.user = u
    BY <2>5, NoReqType DEF Request
  <2>7. req' = [req EXCEPT ![c] = req'[c]] /\ req'[c] = r
    BY <1>4, <2>5 DEF reset_password, Invalidates, Goto, Core, TypeMain
  <2>8. RequestOK(r)' /\ ~HasToken(r)
    <3>1. users'[u] = row
      BY <2>3 DEF Core, TypeMain
    <3> QED BY <2>2, <2>6, <3>1 DEF RequestOK, HasRow, HasToken
  <2>9. Pending(u)'
    BY <2>6, <2>7 DEF Pending, Resetting
  <2>10. RequestOK(req[c])' /\ ~HasToken(req'[c]) /\ req'[c] \in Request
    BY <2>7, <2>8
  <2> QED BY <2>2, <2>3, <2>4, <2>7, <2>9, <2>10, RowStep
<1> QED BY <1>1, <1>2, <1>3, <1>4

\* A token written over: only its status, or its blacklisting, differs.
LEMMA TokenWritten ==
    ASSUME TypeMain, NEW i \in Issued, sessions' \in Seq(Session), Len(sessions') = Len(sessions),
           \A j \in Issued : j # i => sessions'[j] = sessions[j],
           sessions'[i].user = sessions[i].user, sessions'[i].ver = sessions[i].ver,
           sessions'[i].since = sessions[i].since, sessions'[i].fpc = sessions[i].fpc,
           sessions'[i].parent = sessions[i].parent,
           sessions'[i].status = "live" => sessions[i].status = "live"
    PROVE  SessionsGrow /\ Issued' = Issued
BY DEF SessionsGrow, Issued, TypeMain

LEMMA TokenEnded ==
    ASSUME TypeMain, NEW i \in Issued, NEW status \in {"revoked", "gone"},
           sessions' = [sessions EXCEPT ![i].status = status]
    PROVE  /\ SessionsGrow /\ Issued' = Issued /\ sessions'[i].status = status
           /\ \A j \in Issued : j # i => sessions'[j] = sessions[j]
<1>1. sessions[i] \in Session /\ sessions \in Seq(Session) /\ i \in 1..Len(sessions)
  BY TokenType DEF TypeMain, Issued
<1>2. PICK x \in Session : x = [sessions[i] EXCEPT !.status = status]
  BY <1>1 DEF Session
<1>3. /\ x.user = sessions[i].user /\ x.ver = sessions[i].ver /\ x.since = sessions[i].since
      /\ x.fpc = sessions[i].fpc /\ x.parent = sessions[i].parent /\ x.status = status
  BY <1>1, <1>2 DEF Session
<1>4. /\ sessions' \in Seq(Session) /\ Len(sessions') = Len(sessions) /\ sessions'[i] = x
      /\ \A j \in Issued : j # i => sessions'[j] = sessions[j]
  BY <1>1, <1>2 DEF Issued
<1> QED BY <1>3, <1>4, TokenWritten

LEMMA TokenBlacklisted ==
    ASSUME TypeMain, NEW i \in Issued, NEW b \in BOOLEAN,
           sessions' = [sessions EXCEPT ![i].black = b]
    PROVE  /\ SessionsGrow /\ Issued' = Issued /\ sessions'[i].status = sessions[i].status
           /\ \A j \in Issued : j # i => sessions'[j] = sessions[j]
<1>1. sessions[i] \in Session /\ sessions \in Seq(Session) /\ i \in 1..Len(sessions)
  BY TokenType DEF TypeMain, Issued
<1>2. PICK x \in Session : x = [sessions[i] EXCEPT !.black = b]
  BY <1>1 DEF Session
<1>3. /\ x.user = sessions[i].user /\ x.ver = sessions[i].ver /\ x.since = sessions[i].since
      /\ x.fpc = sessions[i].fpc /\ x.parent = sessions[i].parent /\ x.status = sessions[i].status
  BY <1>1, <1>2 DEF Session
<1>4. /\ sessions' \in Seq(Session) /\ Len(sessions') = Len(sessions) /\ sessions'[i] = x
      /\ \A j \in Issued : j # i => sessions'[j] = sessions[j]
  BY <1>1, <1>2 DEF Issued
<1> QED BY <1>3, <1>4, TokenWritten

LEMMA OnceKept ==
    ASSUME RefreshOnce, SessionsGrow, Issued' = Issued
    PROVE  RefreshOnce'
BY DEF RefreshOnce, SessionsGrow

\* A request that writes tokens only.
LEMMA TokenStep ==
    ASSUME Core, NEW c \in Clients, UNCHANGED <<users, cut>>, SessionsGrow,
           req' = [req EXCEPT ![c] = req'[c]], req'[c] \in Request, ~HasToken(req'[c]),
           RequestOK(req[c])', req[c].pc \notin {"invalidate", "revoking"},
           \A d \in Clients \ {c} : HasToken(req[d]) => sessions'[req[d].tok].status = "live",
           \A i \in Issued' : i \notin Issued => SessionOK(i)',
           RefreshOnce'
    PROVE  Core'
<1> USE DEF Core
<1>1. UsersGrow
  BY PendingStays, UsersStay
<1>2. users' \in [Users -> Row \cup {NoRow}]
  BY DEF TypeMain
<1> QED BY <1>1, <1>2, WriteStep

\* A token nobody has locked, or the request itself has, is ended.
LEMMA EndStep ==
    ASSUME Core, NEW c \in Clients, NEW i \in Issued, UNCHANGED <<users, cut>>,
           sessions' = [sessions EXCEPT ![i].status = "revoked"], TokenFree(c, i),
           req' = [req EXCEPT ![c] = req'[c]], req'[c] \in Request, ~HasToken(req'[c]),
           SessionsGrow /\ UsersGrow => RequestOK(req[c])',
           req[c].pc \notin {"invalidate", "revoking"}
    PROVE  Core'
<1> USE DEF Core
<1>2. SessionsGrow /\ Issued' = Issued /\ \A j \in Issued : j # i => sessions'[j] = sessions[j]
  BY TokenEnded
<1>3. UsersGrow
  BY PendingStays, UsersStay
<1>4. ASSUME NEW d \in Clients \ {c}, HasToken(req[d]) PROVE sessions'[req[d].tok].status = "live"
  <2>1. req[d].tok # i
    BY <1>4 DEF TokenFree, HoldsToken, HasToken
  <2>2. req[d].tok \in Issued /\ sessions[req[d].tok].status = "live"
    BY <1>4 DEF RequestsOK, RequestOK
  <2> QED BY <1>2, <2>1, <2>2
<1>5. RefreshOnce'
  BY <1>2, OnceKept
<1> QED BY <1>2, <1>3, <1>4, <1>5, TokenStep

\* The lock a refresh holds on its token is its own.
LEMMA OwnToken ==
    ASSUME Core, NEW c \in Clients, HasToken(req[c])
    PROVE  /\ TokenFree(c, req[c].tok) /\ req[c].tok \in Issued
           /\ sessions[req[c].tok].status = "live" /\ sessions[req[c].tok].user = req[c].user
<1>1. TokenFree(c, req[c].tok)
  BY DEF Core, TokensLocked, TokenFree, HoldsToken, HasToken
<1>2. RequestOK(req[c])
  BY DEF Core, RequestsOK
<1> QED BY <1>1, <1>2 DEF RequestOK

LEMMA CheckStep ==
    ASSUME Core, NEW c \in Clients, refresh_check(c)
    PROVE  Core'
<1>1. req[c].pc = "rotating" /\ HasToken(req[c]) /\ UNCHANGED <<users, cut>>
  BY DEF refresh_check, At, HasToken
<1>2. PICK i \in Issued : /\ i = req[c].tok /\ TokenFree(c, i)
                          /\ sessions[i].status = "live" /\ sessions[i].user = req[c].user
  BY <1>1, OwnToken
<1>3. req[c].user \in Users /\ users[req[c].user] \in Row
  BY <1>2, RowOfToken
<1>4. PICK row \in Row : row = users[req[c].user]
  BY <1>3
<1>5. CASE RefreshAllowed(i, row)
  <2>1. PICK m \in Request : /\ m = Moved(c, "rotated") /\ m.pc = "rotated"
                             /\ m.user = req[c].user /\ m.tok = i
    BY <1>2, MovedType DEF Phase
  <2>2. PICK r \in Request : r = [m EXCEPT !.row = row]
    BY DEF Request
  <2>3. r.pc = "rotated" /\ r.user = req[c].user /\ r.tok = i /\ r.row = row
    BY <2>1, <2>2 DEF Request
  <2>4. Goto(c, r) /\ UNCHANGED sessions
    BY <1>2, <1>4, <1>5, <2>1, <2>2 DEF refresh_check
  <2>5. RequestOK(r)
    BY <1>2, <1>3, <1>5, <2>3 DEF RequestOK, HasRow, HasToken, RefreshAllowed
  <2>6. Plain(c)
    BY <1>1, <1>2, <2>3, <2>4, <2>5, PlainTo DEF Resetting
  <2> QED BY <2>6, PlainStep
<1>6. CASE ~RefreshAllowed(i, row)
  <2>1. sessions' = [sessions EXCEPT ![i].status = "revoked"] /\ Goto(c, NoReq)
    BY <1>2, <1>4, <1>6 DEF refresh_check
  <2>2. /\ req' = [req EXCEPT ![c] = req'[c]] /\ req'[c] \in Request
        /\ ~HasToken(req'[c]) /\ RequestOK(req[c])'
    BY <2>1, Done
  <2> QED BY <1>1, <1>2, <2>1, <2>2, EndStep
<1> QED BY <1>5, <1>6

LEMMA LogoutStep ==
    ASSUME Core, NEW c \in Clients, logout(c)
    PROVE  Core'
<1>1. req[c].pc = "admitted" /\ UNCHANGED <<users, cut>>
  BY DEF logout, Serves, At
<1>2. PICK i \in Issued : i = req[c].tok /\ sessions[i].user = req[c].user
  BY <1>1 DEF Core, RequestsOK, RequestOK
<1>3. PICK r \in Request : /\ r = Moved(c, "blacklist") /\ r.pc = "blacklist"
                           /\ r.user = req[c].user /\ r.tok = i
  BY <1>2, MovedType DEF Phase
<1>4. RequestOK(r) /\ ~HasToken(r)
  BY <1>2, <1>3, RowOfToken DEF RequestOK, HasRow, HasToken
<1>5. Goto(c, r) /\ TokenFree(c, i)
  BY <1>2, <1>3 DEF logout, revoke_presented
<1>6. req' = [req EXCEPT ![c] = req'[c]] /\ req'[c] = r
  BY <1>5 DEF Goto, Core, TypeMain
<1>7. CASE sessions[i].status = "live"
  <2>1. sessions' = [sessions EXCEPT ![i].status = "revoked"]
    BY <1>2, <1>7 DEF logout, revoke_presented
  <2>2. ASSUME SessionsGrow, UsersGrow PROVE RequestOK(req[c])'
    <3>1. RequestOK(r)'
      BY <1>4, <2>2, RequestKept DEF Core
    <3> QED BY <1>6, <3>1
  <2>3. req'[c] \in Request /\ ~HasToken(req'[c])
    BY <1>4, <1>6
  <2> QED BY <1>1, <1>5, <1>6, <2>1, <2>2, <2>3, EndStep
<1>8. CASE sessions[i].status # "live"
  <2>1. UNCHANGED sessions
    BY <1>2, <1>8 DEF logout, revoke_presented
  <2>2. Plain(c)
    BY <1>1, <1>4, <1>5, <2>1, PlainTo DEF Resetting
  <2> QED BY <2>2, PlainStep
<1> QED BY <1>7, <1>8

LEMMA BlacklistStep ==
    ASSUME Core, NEW c \in Clients, blacklist_current(c)
    PROVE  Core'
<1>1. req[c].pc = "blacklist" /\ UNCHANGED <<users, cut>> /\ Goto(c, NoReq)
  BY DEF blacklist_current, At
<1>2. PICK i \in Issued : i = req[c].tok
  BY <1>1 DEF Core, RequestsOK, RequestOK
<1>3. CASE UNCHANGED sessions
  <2>1. Plain(c)
    BY <1>1, <1>3, PlainDone DEF Resetting
  <2> QED BY <2>1, PlainStep
<1>4. CASE sessions' = [sessions EXCEPT ![i].black = TRUE]
  <2>1. /\ SessionsGrow /\ Issued' = Issued /\ sessions'[i].status = sessions[i].status
        /\ \A j \in Issued : j # i => sessions'[j] = sessions[j]
    BY <1>4, TokenBlacklisted DEF Core
  <2>2. \A d \in Clients \ {c} : HasToken(req[d]) => sessions'[req[d].tok].status = "live"
    BY <2>1 DEF Core, RequestsOK, RequestOK
  <2>3. RefreshOnce'
    BY <2>1, OnceKept DEF Core
  <2>4. /\ req' = [req EXCEPT ![c] = req'[c]] /\ req'[c] \in Request
        /\ ~HasToken(req'[c]) /\ RequestOK(req[c])'
    BY <1>1, Done
  <2> QED BY <1>1, <2>1, <2>2, <2>3, <2>4, TokenStep
<1> QED BY <1>2, <1>3, <1>4 DEF blacklist_current, blacklist_jti

LEMMA CleanupStep ==
    ASSUME Core, NEW i \in Issued, _cleanup_refresh_tokens(i)
    PROVE  Core'
<1> USE DEF Core
<1>1. /\ UNCHANGED <<users, req, cut>> /\ \A c \in Clients : ~HoldsToken(c, i)
      /\ sessions' = [sessions EXCEPT ![i].status = "gone"]
  BY DEF _cleanup_refresh_tokens, cleanup_expired
<1>2. SessionsGrow /\ Issued' = Issued /\ \A j \in Issued : j # i => sessions'[j] = sessions[j]
  BY <1>1, TokenEnded
<1>3. UsersGrow
  <2>1. \A u \in Users : Pending(u) => Pending(u)'
    BY <1>1 DEF Pending, Resetting
  <2> QED BY <1>1, <2>1, UsersStay
<1>4. RequestsOK'
  <2>1. ASSUME NEW d \in Clients PROVE RequestOK(req[d])'
    <3>1. HasToken(req[d]) => sessions'[req[d].tok].status = "live"
      BY <1>1, <1>2 DEF RequestsOK, RequestOK, HoldsToken, HasToken
    <3> QED BY <1>1, <1>2, <1>3, <3>1, RequestStays
  <2> QED BY <2>1 DEF RequestsOK
<1>5. SessionsOK'
  BY <1>2, <1>3, TokensStay
<1>6. TypeMain' /\ TokensLocked' /\ RefreshOnce'
  <2>1. RefreshOnce'
    BY <1>2, OnceKept
  <2> QED BY <1>1, <1>2, <2>1 DEF TypeMain, TokensLocked, SessionsGrow
<1> QED BY <1>4, <1>5, <1>6

-----------------------------------------------------------------------------
(* The steps that issue a token *)

\* t is the log of tokens before the new one, with at most one status changed.
LEMMA TokenIssued ==
    ASSUME NEW t \in Seq(Session), NEW x \in Session
    PROVE  /\ Append(t, x) \in Seq(Session) /\ Len(Append(t, x)) = Len(t) + 1
           /\ Append(t, x)[Len(t) + 1] = x /\ \A j \in 1..Len(t) : Append(t, x)[j] = t[j]
OBVIOUS

\* A new token is as the invariant says if what it is made from is.
LEMMA IssueStep ==
    ASSUME Core, NEW c \in Clients, UNCHANGED <<users, cut>>, SessionsGrow, Goto(c, NoReq),
           req[c].pc \notin {"invalidate", "revoking"},
           \A d \in Clients \ {c} : HasToken(req[d]) => sessions'[req[d].tok].status = "live",
           NEW n, n = Len(sessions) + 1, Len(sessions') = n, NEW x \in Session, sessions'[n] = x,
           x.since = x.ver, Credible(x.ver, x.fpc, x.user),
           x.parent # 0 => /\ x.parent \in Issued /\ sessions[x.parent].status = "live"
                           /\ sessions'[x.parent].status # "live"
    PROVE  Core'
<1> USE DEF Core
<1>1. /\ req' = [req EXCEPT ![c] = req'[c]] /\ req'[c] \in Request
      /\ ~HasToken(req'[c]) /\ RequestOK(req[c])'
  BY Done
<1>2. UsersGrow
  BY <1>1, PendingStays, UsersStay
<1>3. Len(sessions) \in Nat /\ n \in Nat /\ \A i \in Issued' : i \notin Issued => i = n
  BY DEF Issued, TypeMain
<1>4. x.user \in Users /\ x.ver \in Nat /\ x.fpc \in BOOLEAN /\ x.parent \in Nat
  BY DEF Session
<1>5. Credible(x.ver, x.fpc, x.user)'
  <2>1. PICK u \in Users, ver \in Nat, fpc \in BOOLEAN : u = x.user /\ ver = x.ver /\ fpc = x.fpc
    BY <1>4
  <2>2. Credible(ver, fpc, u)'
    BY <1>2, <2>1, CredibleKept
  <2> QED BY <2>1, <2>2
<1>6. x.parent < n
  BY <1>3, <1>4 DEF Issued
<1>7. SessionOK(n)'
  <2>1. sessions'[n].parent < n /\ sessions'[n].since = sessions'[n].ver
    BY <1>6
  <2>2. Credible(sessions[n].ver, sessions[n].fpc, sessions[n].user)'
    BY <1>5
  <2>3. sessions'[n].parent # 0 => sessions'[sessions'[n].parent].status # "live"
    OBVIOUS
  <2> QED BY <2>1, <2>2, <2>3 DEF SessionOK
<1>8. RefreshOnce'
  <2> SUFFICES ASSUME NEW i \in Issued', NEW j \in Issued', sessions'[i].parent # 0,
                      sessions'[i].parent = sessions'[j].parent, i # j
               PROVE  FALSE
    BY DEF RefreshOnce
  <2>1. CASE i \in Issued /\ j \in Issued
    BY <2>1 DEF RefreshOnce, SessionsGrow
  <2>2. ASSUME NEW k \in Issued, sessions'[k].parent = x.parent, x.parent # 0 PROVE FALSE
    BY <2>2 DEF SessionsGrow, SessionsOK, SessionOK
  <2> QED BY <1>3, <2>1, <2>2
<1>9. \A i \in Issued' : i \notin Issued => SessionOK(i)'
  BY <1>3, <1>7
<1> QED BY <1>1, <1>8, <1>9, TokenStep

LEMMA LoginStep ==
    ASSUME Core, NEW c \in Clients, login_commit(c)
    PROVE  Core'
<1>1. /\ req[c].pc = "opening" /\ UNCHANGED <<users, cut>> /\ Goto(c, NoReq)
      /\ sessions' = Append(sessions, NewSession(req[c].row, req[c].user, 0))
  BY DEF login_commit, At
<1>2. /\ req[c].user \in Users /\ req[c].row \in Row
      /\ Credible(req[c].row.ver, req[c].row.fpc, req[c].user)
  BY <1>1, UserType DEF Core, RequestsOK, RequestOK, HasRow
<1>3. PICK u \in Users, row \in Row : u = req[c].user /\ row = req[c].row /\ row.ver \in Nat /\ row.fpc \in BOOLEAN
  BY <1>2 DEF Row
<1>4. PICK x \in Session : x = NewSession(row, u, 0)
  BY <1>3 DEF NewSession, Session
<1>5. x.user = u /\ x.ver = row.ver /\ x.since = row.ver /\ x.fpc = row.fpc /\ x.parent = 0
  BY <1>4 DEF NewSession
<1>6. PICK t \in Seq(Session) : t = sessions
  BY DEF Core, TypeMain
<1>7. /\ sessions' \in Seq(Session) /\ Len(sessions') = Len(sessions) + 1
      /\ sessions'[Len(sessions) + 1] = x /\ \A j \in Issued : sessions'[j] = sessions[j]
  BY <1>1, <1>3, <1>4, <1>6, TokenIssued DEF Issued
<1>8. SessionsGrow
  BY <1>6, <1>7 DEF SessionsGrow
<1>9. \A d \in Clients \ {c} : HasToken(req[d]) => sessions'[req[d].tok].status = "live"
  BY <1>7 DEF Core, RequestsOK, RequestOK
<1>10. Credible(x.ver, x.fpc, x.user)
  BY <1>2, <1>3, <1>5
<1>11. PICK n : n = Len(sessions) + 1
  OBVIOUS
<1>12. Len(sessions') = n /\ sessions'[n] = x /\ x.since = x.ver /\ x.parent = 0
  BY <1>5, <1>7, <1>11
<1> QED BY <1>1, <1>8, <1>9, <1>10, <1>11, <1>12, IssueStep

LEMMA RotateStep ==
    ASSUME Core, NEW c \in Clients, refresh_commit(c)
    PROVE  Core'
<1>1. /\ req[c].pc = "rotated" /\ HasToken(req[c]) /\ UNCHANGED <<users, cut>> /\ Goto(c, NoReq)
      /\ sessions' = Append([sessions EXCEPT ![req[c].tok].status = "revoked"],
                            NewSession(req[c].row, req[c].user, req[c].tok))
  BY DEF refresh_commit, At, HasToken
<1>2. PICK i \in Issued : /\ i = req[c].tok /\ TokenFree(c, i)
                          /\ sessions[i].status = "live" /\ sessions[i].user = req[c].user
  BY <1>1, OwnToken
<1>3. PICK row \in Row : row = req[c].row /\ row.ver = sessions[i].ver
  BY <1>1, <1>2 DEF Core, RequestsOK, RequestOK
<1>4. PICK p \in Session : /\ p = sessions[i] /\ p.user \in Users /\ p.ver \in Nat /\ p.since \in Nat
                           /\ p.fpc \in BOOLEAN /\ p.parent \in Nat
  BY TokenType DEF Core
<1>5. i \in Nat /\ i # 0
  BY TokenNumber
<1>6. PICK x \in Session : x = NewSession(row, p.user, i)
  BY <1>3, <1>4, <1>5 DEF NewSession, Session
<1>7. x.user = p.user /\ x.ver = p.ver /\ x.since = p.since /\ x.fpc = p.fpc /\ x.parent = i
  BY <1>3, <1>4, <1>5, <1>6 DEF NewSession
<1>8. PICK y \in Session : y = [p EXCEPT !.status = "revoked"]
  BY DEF Session
<1>9. /\ y.user = p.user /\ y.ver = p.ver /\ y.since = p.since /\ y.fpc = p.fpc
      /\ y.parent = p.parent /\ y.status = "revoked"
  BY <1>8 DEF Session
<1>10. PICK t \in Seq(Session) : /\ t = [sessions EXCEPT ![i].status = "revoked"]
                                 /\ Len(t) = Len(sessions) /\ t[i] = y
                                 /\ \A j \in Issued : j # i => t[j] = sessions[j]
  <2>1. sessions \in Seq(Session) /\ i \in 1..Len(sessions)
    BY DEF Core, TypeMain, Issued
  <2>2. \A f \in Seq(Session) : i \in 1..Len(f) =>
           /\ [f EXCEPT ![i] = y] \in Seq(Session) /\ Len([f EXCEPT ![i] = y]) = Len(f)
           /\ [f EXCEPT ![i] = y][i] = y
           /\ \A j \in 1..Len(f) : j # i => [f EXCEPT ![i] = y][j] = f[j]
    OBVIOUS
  <2>3. [sessions EXCEPT ![i].status = "revoked"] = [sessions EXCEPT ![i] = y]
    BY <1>4, <1>8
  <2> QED BY <2>1, <2>2, <2>3 DEF Issued
<1>11. sessions' = Append(t, x)
  BY <1>1, <1>2, <1>3, <1>4, <1>6, <1>10
<1>12. /\ sessions' \in Seq(Session) /\ Len(sessions') = Len(sessions) + 1
       /\ sessions'[Len(sessions) + 1] = x /\ \A j \in Issued : sessions'[j] = t[j]
  BY <1>10, <1>11, TokenIssued DEF Issued
<1>13. sessions'[i] = y /\ \A j \in Issued : j # i => sessions'[j] = sessions[j]
  BY <1>10, <1>12
<1>14. SessionsGrow
  <2>1. Len(sessions) \in Nat
    BY DEF Core, TypeMain
  <2> QED BY <1>4, <1>9, <1>12, <1>13, <2>1, SMTT(30) DEF SessionsGrow
<1>15. ASSUME NEW d \in Clients \ {c}, HasToken(req[d]) PROVE sessions'[req[d].tok].status = "live"
  <2>1. req[d].tok # i
    BY <1>2, <1>15 DEF TokenFree, HoldsToken, HasToken
  <2>2. req[d].tok \in Issued /\ sessions[req[d].tok].status = "live"
    BY <1>15 DEF Core, RequestsOK, RequestOK
  <2> QED BY <1>13, <2>1, <2>2
<1>16. x.since = x.ver /\ Credible(x.ver, x.fpc, x.user)
  BY <1>4, <1>7 DEF Core, SessionsOK, SessionOK
<1>17. sessions'[i].status # "live"
  BY <1>9, <1>13
<1>18. PICK n : n = Len(sessions) + 1
  OBVIOUS
<1>19. Len(sessions') = n /\ sessions'[n] = x
  BY <1>12, <1>18
<1>20. x.parent \in Issued /\ sessions[x.parent].status = "live" /\ sessions'[x.parent].status # "live"
  BY <1>2, <1>7, <1>17
<1> QED BY <1>1, <1>14, <1>15, <1>16, <1>18, <1>19, <1>20, IssueStep

-----------------------------------------------------------------------------
(* Ending all sessions of a user, and the invariant *)

LEMMA RowRaised ==
    ASSUME NEW row \in Row
    PROVE  [row EXCEPT !.ver = row.ver + 1] \in Row /\ [row EXCEPT !.ver = row.ver + 1].ver = row.ver + 1
<1>1. row.ver + 1 \in Nat
  BY DEF Row
<1> QED BY <1>1 DEF Row

LEMMA RoleWritten ==
    ASSUME NEW row \in Row, NEW changes
    PROVE  upsert_for_user(row, changes) \in Row /\ upsert_for_user(row, changes).ver = row.ver
<1>1. PICK role \in Role : upsert_for_user(row, changes) = update(row, "role", role)
  <2>1. row.role \in Role
    BY DEF Row
  <2>2. PICK role \in Role : role = CASE "promote" \in changes -> "ADMIN"
                                     [] "demote" \in changes -> "VIEWER"
                                     [] OTHER -> row.role
    BY <2>1 DEF Role
  <2> QED BY <2>2, Zenon DEF upsert_for_user
<1>2. update(row, "role", role) \in Row /\ update(row, "role", role).ver = row.ver
  BY DEF update, Row
<1> QED BY <1>1, <1>2

LEMMA WrittenType ==
    ASSUME NEW row \in Row, NEW r
    PROVE  /\ Written(r, row) \in Row /\ Written(r, row).ver = row.ver
           /\ [Written(r, row) EXCEPT !.ver = Written(r, row).ver + 1] \in Row
           /\ [Written(r, row) EXCEPT !.ver = Written(r, row).ver + 1].ver = row.ver + 1
<1>1. PICK w \in Row : w = upsert_for_user(update_state(row, r.writes), r.writes) /\ w.ver = row.ver
  BY StateWritten, RoleWritten
<1>2. PICK v \in BOOLEAN : v = (w.fpc /\ r.op # "change")
  OBVIOUS
<1>3. Written(r, row) = [w EXCEPT !.fpc = v]
  BY <1>1, <1>2 DEF Written
<1>4. [w EXCEPT !.fpc = v] \in Row /\ [w EXCEPT !.fpc = v].ver = row.ver
  BY <1>1 DEF Row
<1> QED BY <1>3, <1>4, RowRaised

LEMMA EndedTo ==
    ASSUME Core, NEW c \in Clients, logout_all_commit(c)
    PROVE  \E r \in Request : Goto(c, r) /\ r.pc = "dropping" /\ r.user = req[c].user /\ r.holds = {}
<1>1. req[c].user \in Users /\ req[c].op \in Path \cup Cause \cup {"none"}
  BY UserType, RequestType DEF logout_all_commit, At
<1>2. PICK r : r = [NoReq EXCEPT !.pc = "dropping", !.op = req[c].op, !.user = req[c].user]
  OBVIOUS
<1>3. r \in Request /\ r.pc = "dropping" /\ r.user = req[c].user /\ r.holds = {}
  BY <1>1, <1>2, NoReqType DEF Request, Phase
<1> QED BY <1>2, <1>3 DEF logout_all_commit

LEMMA EndAllStep ==
    ASSUME Core, NEW c \in Clients, logout_all_commit(c)
    PROVE  Core'
<1> USE DEF Core
<1>1. /\ req[c].pc = "revoking" /\ \A i \in req[c].snap : TokenFree(c, i)
      /\ cut' = cut \ {req[c].user}
      /\ req[c].user \in Users /\ users[req[c].user] \in Row
  BY UserType DEF logout_all_commit, At, RequestsOK, RequestOK
<1>2. PICK u \in Users, row \in Row : u = req[c].user /\ row = users[u] /\ row.ver \in Nat
  BY <1>1 DEF Row
<1>3. PICK w \in Row : /\ w = [Written(req[c], row) EXCEPT !.ver = Written(req[c], row).ver + 1]
                       /\ w.ver = row.ver + 1
  BY WrittenType
<1>4. users' = [users EXCEPT ![u] = w]
  <2>1. users' = [users EXCEPT ![req[c].user] =
                     [Written(req[c], users[req[c].user]) EXCEPT !.ver = @ + 1]]
    BY DEF logout_all_commit
  <2>2. [Written(req[c], row) EXCEPT !.ver = @ + 1] = w
    BY <1>3
  <2> QED BY <1>2, <2>1, <2>2
<1>5. PICK r \in Request : Goto(c, r) /\ r.pc = "dropping" /\ r.user = u
  BY <1>2, EndedTo
<1>6. req' = [req EXCEPT ![c] = req'[c]] /\ req'[c] = r /\ \A d \in Clients \ {c} : req'[d] = req[d]
  BY <1>5 DEF logout_all_commit, Goto, TypeMain
<1>7. /\ sessions' \in Seq(Session) /\ Len(sessions') = Len(sessions)
      /\ \A i \in Issued : \/ sessions'[i] = sessions[i]
                           \/ /\ i \in req[c].snap
                              /\ sessions'[i] = [sessions[i] EXCEPT !.status = "revoked"]
  <2>1. \A i \in Issued : sessions[i] \in Session /\ [sessions[i] EXCEPT !.status = "revoked"] \in Session
    BY TokenType DEF Session
  <2>2. sessions' = [i \in 1..Len(sessions) |-> IF i \in req[c].snap /\ sessions[i].status = "live"
                                               THEN [sessions[i] EXCEPT !.status = "revoked"]
                                               ELSE sessions[i]]
    BY DEF logout_all_commit, Issued
  <2>3. Len(sessions) \in Nat
    BY DEF TypeMain
  <2>4. sessions' \in Seq(Session) /\ Len(sessions') = Len(sessions)
    BY <2>1, <2>2, <2>3 DEF Issued
  <2> QED BY <2>2, <2>4 DEF Issued
<1>8. SessionsGrow /\ Issued' = Issued
  <2>1. ASSUME NEW i \in Issued
        PROVE  /\ sessions'[i].user = sessions[i].user /\ sessions'[i].ver = sessions[i].ver
               /\ sessions'[i].since = sessions[i].since /\ sessions'[i].fpc = sessions[i].fpc
               /\ sessions'[i].parent = sessions[i].parent
               /\ sessions'[i].status = "live" => sessions[i].status = "live"
    <3>1. PICK p \in Session : p = sessions[i]
      BY TokenType
    <3>2. PICK q \in Session : q = [p EXCEPT !.status = "revoked"]
      BY DEF Session
    <3>3. /\ q.user = p.user /\ q.ver = p.ver /\ q.since = p.since /\ q.fpc = p.fpc
          /\ q.parent = p.parent /\ q.status = "revoked"
      BY <3>2 DEF Session
    <3>4. sessions'[i] = p \/ sessions'[i] = q
      BY <1>7, <3>1, <3>2
    <3> QED BY <3>1, <3>3, <3>4
  <2>2. Len(sessions) \in Nat
    BY DEF TypeMain
  <2> QED BY <1>7, <2>1, <2>2 DEF SessionsGrow, Issued
<1>9. UsersGrow
  <2> SUFFICES ASSUME NEW v \in Users, users[v] # NoRow
               PROVE  /\ users'[v] \in Row
                      /\ users[v].ver <= users'[v].ver
                      /\ users'[v].ver = users[v].ver =>
                            /\ users'[v].fpc => users[v].fpc \/ Pending(v)'
                            /\ Pending(v) => Pending(v)'
    BY DEF UsersGrow
  <2>1. users[v] \in Row /\ users[v].ver \in Nat
    BY DEF TypeMain, Row
  <2>2. CASE v = u
    <3>1. users'[v] = w
      BY <1>4, <2>2 DEF TypeMain
    <3> QED BY <1>2, <1>3, <2>1, <2>2, <3>1
  <2>3. CASE v # u
    <3>1. users'[v] = users[v] /\ ~Resetting(req[c], v) /\ (v \in cut => v \in cut')
      BY <1>1, <1>2, <1>4, <2>3 DEF TypeMain, Resetting
    <3>2. Pending(v) => Pending(v)'
      BY <1>6, <3>1, PendingKept
    <3> QED BY <2>1, <3>1, <3>2
  <2> QED BY <2>2, <2>3
<1>10. users' \in [Users -> Row \cup {NoRow}]
  BY <1>4 DEF TypeMain
<1>11. RequestOK(req[c])' /\ ~HasToken(req'[c]) /\ req'[c] \in Request
  <2>1. RequestOK(r)' /\ ~HasToken(r)
    BY <1>5 DEF RequestOK, HasRow, HasToken
  <2> QED BY <1>6, <2>1
<1>12. ASSUME NEW d \in Clients \ {c}, HasToken(req[d]) PROVE sessions'[req[d].tok].status = "live"
  <2>1. req[d].tok \notin req[c].snap
    BY <1>1, <1>12 DEF TokenFree, HoldsToken, HasToken
  <2>2. req[d].tok \in Issued /\ sessions[req[d].tok].status = "live"
    BY <1>12 DEF RequestsOK, RequestOK
  <2> QED BY <1>7, <2>1, <2>2
<1>13. RefreshOnce'
  BY <1>8, OnceKept
<1> QED BY <1>6, <1>8, <1>9, <1>10, <1>11, <1>12, <1>13, WriteStep

LEMMA CoreUnchanged ==
    ASSUME Core, UNCHANGED <<users, sessions, req, cut>>
    PROVE  Core'
BY DEF Core, TypeMain, RequestsOK, SessionsOK, TokensLocked, RefreshOnce, RequestOK, SessionOK,
       Credible, Pending, Issued

LEMMA InvNext == Inv /\ [Next]_vars => Inv'
<1> SUFFICES ASSUME Inv, [Next]_vars PROVE Inv'
  OBVIOUS
<1> USE DEF Inv
<1>1. CASE UNCHANGED vars
  <2>1. TypeRest'
    BY <1>1 DEF vars, TypeRest
  <2> QED BY <1>1, <2>1, CoreUnchanged DEF vars
<1>2. CASE Next
  <2>1. TypeRest'
    BY <1>2, TypeRestNext
  <2>2. ASSUME NEW c \in Clients, Begin(c) PROVE Core'
    BY <2>2, BeginPlain, PlainStep
  <2>3. ASSUME NEW c \in Clients, crash(c) \/ deadlock_detected(c) PROVE Core'
    BY <2>3, EndingPlain, PlainStep
  <2>4. ASSUME Expire PROVE Core'
    <3>1. ASSUME NEW u \in Users, lockout_expires(u) \/ cache_expires(u) PROVE Core'
      BY <3>1, CoreUnchanged DEF lockout_expires, cache_expires
    <3> QED BY <2>4, <3>1, CleanupStep DEF Expire
  <2>5. ASSUME NEW c \in Clients, Continue(c) PROVE Core'
    <3>1. CASE \/ authenticate(c) \/ record_failure(c) \/ record_failure_lock(c)
               \/ clear_failures(c) \/ clear_failures_flag(c)
      BY <3>1, LoginPlain, PlainStep
    <3>2. CASE \/ user_read(c) \/ user_store(c) \/ refuse(c) \/ change_password(c)
               \/ \E u \in Users, b \in PatchBody : update_user(c, u, b)
               \/ \E u \in Users : unlock_account(c, u)
      BY <3>2, ServedPlain, PlainStep
    <3>3. CASE logout_all_begin(c) \/ drop_cached_user(c)
      BY <3>3, EndingPlain, PlainStep
    <3>4. CASE \/ \E u \in Users : complete_setup(c, u) \/ bootstrap_admin(c, u)
               \/ \E u \in Users, role \in Role : create_user(c, u, role)
               \/ \E u \in Users : reactivate_user(c, u) \/ reset_password(c, u)
      BY <3>4, AccountSteps
    <3>5. CASE refresh_check(c)
      BY <3>5, CheckStep
    <3>6. CASE logout(c)
      BY <3>6, LogoutStep
    <3>7. CASE blacklist_current(c)
      BY <3>7, BlacklistStep
    <3>8. CASE login_commit(c)
      BY <3>8, LoginStep
    <3>9. CASE refresh_commit(c)
      BY <3>9, RotateStep
    <3>10. CASE logout_all_commit(c)
      BY <3>10, EndAllStep
    <3>11. CASE count_active_admins_for_update(c) \/ flush(c) \/ write_membership(c)
      BY <3>11, UpdatingPlain, PlainStep
    <3> QED BY <2>5, <3>1, <3>2, <3>3, <3>4, <3>5, <3>6, <3>7, <3>8, <3>9, <3>10, <3>11 DEF Continue
  <2> QED BY <1>2, <2>1, <2>2, <2>3, <2>4, <2>5 DEF Next
<1> QED BY <1>1, <1>2

LEMMA InvMeans == Inv => TypeOK /\ InvalidationReachesInFlight /\ ResetEndsSessions
<1> SUFFICES ASSUME Inv PROVE TypeOK /\ InvalidationReachesInFlight /\ ResetEndsSessions
  OBVIOUS
<1> USE DEF Inv, Core
<1>1. TypeOK
  BY DEF TypeOK, TypeRest, TypeMain, SessionsOK, SessionOK
<1>2. InvalidationReachesInFlight
  BY DEF InvalidationReachesInFlight, Usable, SessionsOK, SessionOK
<1>3. ResetEndsSessions
  BY DEF ResetEndsSessions, Usable, SessionsOK, SessionOK, Credible, Pending, Resetting, Ending
<1> QED BY <1>1, <1>2, <1>3

LEMMA InvAlways == Spec => []Inv
BY InvInit, InvNext, PTL DEF Spec

-----------------------------------------------------------------------------
(* Theorems *)

\* Every variable keeps its type, and a token names a token issued before it.
THEOREM TypesHold == Spec => []TypeOK
BY InvAlways, InvMeans, PTL

\* However many requests present a refresh token at a time, and whatever else
\* is under way, at most one of them exchanges it (AuthService.refresh behind
\* RefreshTokenRepository.get_by_hash FOR UPDATE).
THEOREM ExchangedOnce == Spec => []RefreshOnce
<1>1. Inv => RefreshOnce
  BY DEF Inv, Core
<1> QED BY <1>1, InvAlways, PTL

\* No login and no refresh in flight carries a session over the end of all
\* sessions of its user (AuthService.logout_all_sessions): a token that would be
\* exchanged goes back to a password check under the user's present version.
THEOREM InvalidationHolds == Spec => []InvalidationReachesInFlight
BY InvAlways, InvMeans, PTL

\* A password reset leaves no usable session opened with the old password, but
\* for a reset between its two commits or that died there.
THEOREM ResetHolds == Spec => []ResetEndsSessions
BY InvAlways, InvMeans, PTL

-----------------------------------------------------------------------------
(* First-run setup *)

\* One request at a time is past the gate, and only while no account was set up;
\* an account that was set up stays, which keeps the gate shut.
GateHeld == \A c, d \in Clients : At(c, "setup") /\ At(d, "setup") => c = d
GateMeansNew == (\E c \in Clients : At(c, "setup")) => founders = {}
FounderStays == founders # {} => any_user_exists
OneFounder == \A u, v \in founders : u = v
Setup == GateHeld /\ GateMeansNew /\ FounderStays /\ OneFounder

LEMMA RowsStay ==
    ASSUME Inv, Next
    PROVE  any_user_exists => any_user_exists'
<1> USE DEF Inv, Core
<1>1. ASSUME UNCHANGED users PROVE any_user_exists => any_user_exists'
  BY <1>1 DEF any_user_exists
<1>2. ASSUME NEW u \in Users, NEW row \in Row, users' = [users EXCEPT ![u] = row]
      PROVE  any_user_exists'
  <2>1. users'[u] = row /\ row # NoRow
    BY <1>2 DEF TypeMain
  <2> QED BY <2>1 DEF any_user_exists
<1>3. ASSUME NEW c \in Clients, Begin(c) \/ crash(c) \/ deadlock_detected(c) PROVE UNCHANGED users
  BY <1>3 DEF Begin, crash, deadlock_detected, RolledBack, complete_setup_begin, bootstrap_admin_begin, login, refresh, request
<1>4. ASSUME Expire PROVE UNCHANGED users
  BY <1>4 DEF Expire, lockout_expires, cache_expires, _cleanup_refresh_tokens
<1>5. ASSUME NEW c \in Clients, Continue(c) PROVE any_user_exists => any_user_exists'
  <2>1. ASSUME NEW u \in Users, complete_setup(c, u) \/ bootstrap_admin(c, u)
        PROVE  any_user_exists => any_user_exists'
    <3>1. create_account("ADMIN", TRUE) \in Row /\ create_account("ADMIN", FALSE) \in Row
      BY AccountType DEF Role
    <3> QED BY <1>1, <1>2, <2>1, <3>1 DEF complete_setup, bootstrap_admin
  <2>2. ASSUME NEW u \in Users, NEW role \in Role, create_user(c, u, role) PROVE any_user_exists'
    BY <1>2, <2>2, AccountType DEF create_user
  <2>3. ASSUME NEW u \in Users, reactivate_user(c, u) \/ reset_password(c, u) PROVE any_user_exists'
    <3>1. users[u] \in Row
      BY <2>3 DEF reactivate_user, reset_password, TypeMain
    <3>2. update_state(users[u], {"reactivate"}) \in Row /\ update(users[u], "fpc", TRUE) \in Row
      BY <3>1, RowWritten, StateWritten
    <3> QED BY <1>2, <2>3, <3>2 DEF reactivate_user, reset_password
  <2>4. ASSUME logout_all_commit(c) PROVE any_user_exists'
    <3>1. PICK u \in Users : u = req[c].user /\ users[u] \in Row
      BY <2>4, UserType DEF logout_all_commit, At, RequestsOK, RequestOK
    <3>2. PICK w \in Row : w = [Written(req[c], users[u]) EXCEPT !.ver = @ + 1]
      BY <3>1, WrittenType
    <3> QED BY <1>2, <2>4, <3>1, <3>2 DEF logout_all_commit
  <2>5. ASSUME \/ authenticate(c) \/ record_failure(c) \/ record_failure_lock(c) \/ clear_failures(c)
               \/ clear_failures_flag(c) \/ login_commit(c) \/ refresh_check(c) \/ refresh_commit(c)
               \/ user_read(c) \/ user_store(c) \/ logout(c) \/ blacklist_current(c) \/ refuse(c)
               \/ change_password(c) \/ logout_all_begin(c) \/ drop_cached_user(c)
               \/ \E u \in Users, b \in PatchBody : update_user(c, u, b)
               \/ count_active_admins_for_update(c) \/ flush(c) \/ write_membership(c)
               \/ \E u \in Users : unlock_account(c, u)
        PROVE  UNCHANGED users
    BY <2>5 DEF authenticate, record_failure, record_failure_lock, clear_failures,
         clear_failures_flag, login_commit, refresh_check, refresh_commit, user_read, user_store,
         logout, blacklist_current, refuse, change_password, logout_all_begin, drop_cached_user,
         update_user, count_active_admins_for_update, flush, write_membership, unlock_account
  <2> QED BY <1>1, <1>5, <2>1, <2>2, <2>3, <2>4, <2>5 DEF Continue
<1> QED BY <1>1, <1>3, <1>4, <1>5 DEF Next

\* A step by which no request passes the gate and no account is set up.
LEMMA GateKept ==
    ASSUME Inv, Setup, any_user_exists => any_user_exists', UNCHANGED founders,
           \A d \in Clients : req'[d].pc = "setup" => req[d].pc = "setup"
    PROVE  Setup'
BY DEF Setup, GateHeld, GateMeansNew, FounderStays, OneFounder, At

\* A step that takes neither the gate nor the lock of a row: a request that goes
\* on with what it holds was not at a statement that may hold a lock.
LockPhase == {"flushing", "membership", "invalidate", "revoking"}
QuietPhase == Phase \ {"setup", "guarding", "flushing", "membership"}
Quiet ==
    \A d \in Clients :
        \/ req'[d] = req[d]
        \/ /\ req'[d].pc \in QuietPhase
           /\ req'[d].holds = {} \/ (req'[d].holds = req[d].holds /\ req[d].pc \notin LockPhase)

LEMMA QuietTo ==
    ASSUME Inv, NEW c \in Clients, NEW r \in Request, Goto(c, r), r.pc \in QuietPhase,
           r.holds = {} \/ (r.holds = req[c].holds /\ req[c].pc \notin LockPhase)
    PROVE  Quiet
BY DEF Inv, Core, TypeMain, Goto, Quiet

LEMMA NoReqQuiet ==
    ASSUME Inv, NEW c \in Clients, Goto(c, NoReq)
    PROVE  Quiet
BY QuietTo, NoReqType DEF QuietPhase, Phase

LEMMA MovedQuiet ==
    ASSUME Inv, NEW c \in Clients, NEW pc \in QuietPhase, NEW row \in Row \cup {NoRow},
           req[c].pc \notin LockPhase,
           Goto(c, Moved(c, pc)) \/ Goto(c, [Moved(c, pc) EXCEPT !.row = row])
    PROVE  Quiet
<1>1. PICK m \in Request : m = Moved(c, pc) /\ m.pc = pc /\ m.holds = req[c].holds
  BY MovedType DEF Inv, QuietPhase
<1>2. PICK r \in Request : r = [m EXCEPT !.row = row] /\ r.pc = pc /\ r.holds = m.holds
  <2>1. /\ [m EXCEPT !.row = row] \in Request /\ [m EXCEPT !.row = row].pc = pc
        /\ [m EXCEPT !.row = row].holds = m.holds
    BY <1>1 DEF Request
  <2> QED BY <2>1
<1>3. Goto(c, m) \/ Goto(c, r)
  BY <1>1, <1>2
<1> QED BY <1>1, <1>2, <1>3, QuietTo

LEMMA InvalidateQuiet ==
    ASSUME Inv, NEW c \in Clients, NEW op \in Cause, NEW u \in Users, Invalidates(c, op, u)
    PROVE  Quiet
<1>1. PICK r \in Request : r = [NoReq EXCEPT !.pc = "invalidate", !.op = op, !.user = u]
  BY NoReqType DEF Request, Phase
<1>2. Goto(c, r) /\ r.pc \in QuietPhase /\ r.holds = {}
  BY <1>1, NoReqType DEF Invalidates, Request, QuietPhase, Phase
<1> QED BY <1>1, <1>2, QuietTo

LEMMA AdmittedQuiet ==
    ASSUME Inv, NEW c \in Clients, NEW row, NEW r \in Request, r.user \in Users, Goto(c, Admitted(row, r))
    PROVE  Quiet
<1>1. PICK a \in Request : a = [NoReq EXCEPT !.pc = "admitted", !.op = r.op, !.tok = r.tok, !.user = r.user]
  BY NoReqType DEF Request, Phase
<1>2. a.pc \in QuietPhase /\ a.holds = {}
  BY <1>1, NoReqType DEF Request, QuietPhase, Phase
<1>3. Goto(c, NoReq) \/ Goto(c, a)
  BY <1>1 DEF Admitted
<1> QED BY <1>2, <1>3, NoReqQuiet, QuietTo

\* Setup, and the statements of an update and of an invalidation that lock a row.
SetsUp(c) == complete_setup_begin(c) \/ \E u \in Users : complete_setup(c, u)
LocksRow(c) ==
    \/ \E u \in Users, b \in PatchBody : update_user(c, u, b)
    \/ count_active_admins_for_update(c) \/ flush(c) \/ write_membership(c) \/ logout_all_begin(c)

LEMMA OthersQuiet ==
    ASSUME Inv, Next, ~\E c \in Clients : SetsUp(c) \/ LocksRow(c)
    PROVE  UNCHANGED founders /\ Quiet
<1> DEFINE Goal == UNCHANGED founders /\ Quiet
<1>1. ASSUME Expire PROVE Goal
  BY <1>1 DEF Expire, lockout_expires, cache_expires, _cleanup_refresh_tokens, Quiet
<1>2. ASSUME NEW c \in Clients, crash(c) \/ deadlock_detected(c) PROVE Goal
  BY <1>2, NoReqQuiet DEF crash, deadlock_detected, RolledBack
<1>3. ASSUME NEW c \in Clients, Begin(c) PROVE Goal
  <2>1. CASE bootstrap_admin_begin(c)
    <3>1. "bootstrap" \in QuietPhase /\ NoRow \in Row \cup {NoRow} /\ req[c].pc \notin LockPhase
      BY <2>1 DEF Phase, QuietPhase, LockPhase, bootstrap_admin_begin, At
    <3>2. UNCHANGED founders /\ Goto(c, Moved(c, "bootstrap"))
      BY <2>1 DEF bootstrap_admin_begin
    <3> QED BY <3>1, <3>2, MovedQuiet
  <2>2. ASSUME NEW u \in Users, login(c, u) PROVE Goal
    <3>1. PICK r \in Request : r = [NoReq EXCEPT !.pc = "credentials", !.user = u]
      BY NoReqType DEF Request, Phase
    <3>2. Goto(c, r) /\ UNCHANGED founders /\ r.pc \in QuietPhase /\ r.holds = {}
      BY <2>2, <3>1, NoReqType DEF login, login_begin, Request, QuietPhase, Phase
    <3> QED BY <3>1, <3>2, QuietTo
  <2>3. ASSUME NEW i \in Issued, refresh(c, i) PROVE Goal
    <3>1. sessions[i].user \in Users /\ i \in Nat
      BY RowOfToken, TokenNumber DEF Inv
    <3>2. PICK r \in Request : r = [NoReq EXCEPT !.pc = "rotating", !.tok = i, !.user = sessions[i].user]
      BY <3>1, NoReqType DEF Request, Phase
    <3>3. r.pc \in QuietPhase /\ r.holds = {}
      BY <3>2, NoReqType DEF Request, QuietPhase, Phase
    <3>4. UNCHANGED founders /\ (Goto(c, r) \/ \E op \in Cause, u \in Users : Invalidates(c, op, u))
      BY <2>3, <3>1, <3>2 DEF refresh, replay, Cause
    <3> QED BY <3>3, <3>4, QuietTo, InvalidateQuiet
  <2>4. ASSUME NEW i \in Issued, NEW op \in Path, request(c, i, op) PROVE Goal
    <3> sessions[i].user \in Users /\ i \in Nat
      BY RowOfToken, TokenNumber DEF Inv
    <3>1. PICK m \in Request : m = [NoReq EXCEPT !.op = op, !.tok = i, !.user = sessions[i].user]
      BY NoReqType DEF Request
    <3>2. PICK r \in Request : r = [m EXCEPT !.pc = "fill"]
      BY DEF Request, Phase
    <3>3. UNCHANGED founders /\ (Goto(c, r) \/ \E row : Goto(c, Admitted(row, m)))
      BY <2>4, <3>1, <3>2 DEF request
    <3>4. m.user \in Users
      BY <3>1, NoReqType DEF Request
    <3>5. r.pc \in QuietPhase /\ r.holds = {}
      BY <3>1, <3>2, NoReqType DEF Request, QuietPhase, Phase
    <3>6. CASE Goto(c, r)
      BY <3>3, <3>5, <3>6, QuietTo
    <3>7. ASSUME NEW row, Goto(c, Admitted(row, m)) PROVE Goal
      BY <3>3, <3>4, <3>7, AdmittedQuiet
    <3> QED BY <3>3, <3>6, <3>7
  <2> QED BY <1>3, <2>1, <2>2, <2>3, <2>4 DEF Begin, SetsUp
<1>4. ASSUME NEW c \in Clients, Continue(c) PROVE Goal
  <2>1. CASE \/ \E u \in Users : bootstrap_admin(c, u) \/ reactivate_user(c, u)
             \/ \E u \in Users, role \in Role : create_user(c, u, role)
             \/ record_failure_lock(c) \/ login_commit(c) \/ refresh_commit(c)
             \/ blacklist_current(c) \/ refuse(c) \/ drop_cached_user(c)
    BY <2>1, NoReqQuiet DEF bootstrap_admin, reactivate_user, create_user, record_failure_lock,
         login_commit, refresh_commit, blacklist_current, refuse, drop_cached_user
  <2>2. CASE change_password(c) \/ \E u \in Users : reset_password(c, u)
    <3>1. UNCHANGED founders /\ \E op \in Cause, u \in Users : Invalidates(c, op, u)
      BY <2>2, UserType DEF change_password, password_changes, reset_password, Serves, At,
           Inv, Cause
    <3> QED BY <3>1, InvalidateQuiet
  <2>3. CASE user_store(c)
    <3>1. PICK r \in Request : r = req[c] /\ r.user \in Users
      BY <2>3, UserType, RequestType DEF user_store, At, Inv
    <3>2. UNCHANGED founders /\ \E row : Goto(c, Admitted(row, r))
      BY <2>3, <3>1 DEF user_store
    <3> QED BY <3>1, <3>2, AdmittedQuiet
  <2>4. ASSUME NEW u \in Users, unlock_account(c, u) PROVE Goal
    <3>1. PICK r \in Request : r = [NoReq EXCEPT !.pc = "clearing", !.op = "unlock", !.user = u]
      BY NoReqType DEF Request, Phase, Cause
    <3>2. Goto(c, r) /\ UNCHANGED founders /\ r.pc \in QuietPhase /\ r.holds = {}
      BY <2>4, <3>1, NoReqType DEF unlock_account, Request, QuietPhase, Phase
    <3> QED BY <3>1, <3>2, QuietTo
  <2>5. CASE \/ authenticate(c) \/ record_failure(c) \/ clear_failures(c) \/ clear_failures_flag(c)
             \/ refresh_check(c) \/ user_read(c) \/ logout(c)
    <3>1. UNCHANGED founders
      BY <2>5 DEF authenticate, record_failure, clear_failures, clear_failures_flag, refresh_check,
           user_read, logout
    <3>2. /\ NoRow \in Row \cup {NoRow} /\ req[c].pc \notin LockPhase
          /\ {"failing", "clearing", "locking", "unlocking", "opening", "rotated", "store", "blacklist"}
                \subseteq QuietPhase
      BY <2>5 DEF Phase, QuietPhase, LockPhase, authenticate, record_failure, clear_failures,
           clear_failures_flag, refresh_check, user_read, logout, At, Serves
    <3>3. users[req[c].user] \in Row \cup {NoRow}
      <4>1. req[c].user \in Users
        BY <2>5, UserType DEF authenticate, record_failure, clear_failures, clear_failures_flag,
             refresh_check, user_read, logout, At, Serves, Inv
      <4> QED BY <4>1 DEF Inv, Core, TypeMain
    <3>4. CASE authenticate(c)
      <4>1. PICK row \in AuthOutcome(req[c].user) :
               Goto(c, IF row = NoRow THEN Moved(c, "failing")
                       ELSE IF ~row.active THEN NoReq
                       ELSE [Moved(c, "clearing") EXCEPT !.row = row])
        BY <3>4 DEF authenticate
      <4>2. row \in Row \cup {NoRow}
        BY <3>3, <4>1 DEF AuthOutcome
      <4>3. \/ Goto(c, NoReq) \/ Goto(c, Moved(c, "failing"))
            \/ Goto(c, [Moved(c, "clearing") EXCEPT !.row = row])
        BY <4>1
      <4> QED BY <3>1, <3>2, <4>2, <4>3, NoReqQuiet, MovedQuiet, ZenonT(60)
    <3>5. CASE record_failure(c) \/ clear_failures(c) \/ clear_failures_flag(c) \/ logout(c)
      <4>1. Goto(c, NoReq) \/ \E pc \in {"locking", "unlocking", "opening", "blacklist"} : Goto(c, Moved(c, pc))
        BY <3>5 DEF record_failure, clear_failures, clear_failures_flag, logout
      <4>2. CASE Goto(c, NoReq)
        BY <3>1, <4>2, NoReqQuiet
      <4>3. ASSUME NEW pc \in {"locking", "unlocking", "opening", "blacklist"}, Goto(c, Moved(c, pc))
            PROVE  Goal
        <5>1. pc \in QuietPhase
          BY <3>2
        <5> QED BY <3>1, <3>2, <4>3, <5>1, MovedQuiet
      <4> QED BY <4>1, <4>2, <4>3
    <3>6. CASE refresh_check(c) \/ user_read(c)
      <4>1. \/ Goto(c, NoReq)
            \/ \E pc \in {"rotated", "store"} : Goto(c, [Moved(c, pc) EXCEPT !.row = users[req[c].user]])
        BY <3>6 DEF refresh_check, user_read
      <4>2. PICK row \in Row \cup {NoRow} : row = users[req[c].user]
        BY <3>3
      <4>3. Goto(c, NoReq) \/ \E pc \in {"rotated", "store"} : Goto(c, [Moved(c, pc) EXCEPT !.row = row])
        BY <4>1, <4>2
      <4>4. CASE Goto(c, NoReq)
        BY <3>1, <4>4, NoReqQuiet
      <4>5. ASSUME NEW pc \in {"rotated", "store"}, Goto(c, [Moved(c, pc) EXCEPT !.row = row])
            PROVE  Goal
        <5>1. pc \in QuietPhase
          BY <3>2
        <5> QED BY <3>1, <3>2, <4>5, <5>1, MovedQuiet
      <4> QED BY <4>3, <4>4, <4>5
    <3> QED BY <2>5, <3>4, <3>5, <3>6
  <2>6. CASE logout_all_commit(c)
    <3>1. PICK r \in Request : Goto(c, r) /\ r.pc = "dropping" /\ r.holds = {}
      BY <2>6, EndedTo DEF Inv
    <3> QED BY <2>6, <3>1, QuietTo DEF logout_all_commit, QuietPhase, Phase
  <2>7. ~SetsUp(c) /\ ~LocksRow(c)
    OBVIOUS
  <2> QED BY <1>4, <2>1, <2>2, <2>3, <2>4, <2>5, <2>6, <2>7 DEF Continue, SetsUp, LocksRow
<1> QED BY <1>1, <1>2, <1>3, <1>4 DEF Next

LEMMA LocksGoes ==
    ASSUME Inv, NEW c \in Clients, LocksRow(c)
    PROVE  \E r \in Request :
               Goto(c, r) /\ r.pc \in {"idle", "guarding", "flushing", "membership", "invalidate", "revoking"}
<1> DEFINE Goal == \E r \in Request :
               Goto(c, r) /\ r.pc \in {"idle", "guarding", "flushing", "membership", "invalidate", "revoking"}
<1>1. ASSUME NEW u \in Users, NEW b \in PatchBody, update_user(c, u, b) PROVE Goal
  BY <1>1, PatchStarts
<1>2. CASE count_active_admins_for_update(c) \/ flush(c) \/ write_membership(c)
  <2>1. ASSUME NEW kind \in {"user", "membership"}, NEW pc \in {"flushing", "membership", "invalidate"},
               Goto(c, Locked(c, kind, pc))
        PROVE  Goal
    <3>1. Locked(c, kind, pc) \in Request /\ Locked(c, kind, pc).pc = pc
      BY LockedType DEF Phase, Inv
    <3> QED BY <2>1, <3>1
  <2> QED BY <1>2, <2>1, UpdatingTo, NoReqType DEF Inv
<1>3. CASE logout_all_begin(c)
  BY <1>3, BegunTo DEF Inv
<1> QED BY <1>1, <1>2, <1>3 DEF LocksRow

LEMMA LocksLeaveGate ==
    ASSUME Inv, NEW c \in Clients, LocksRow(c)
    PROVE  UNCHANGED founders /\ \A d \in Clients : req'[d].pc = "setup" => req[d].pc = "setup"
<1>1. UNCHANGED founders
  BY DEF LocksRow, update_user, count_active_admins_for_update, flush, write_membership, logout_all_begin
<1>2. PICK r \in Request : Goto(c, r) /\ r.pc # "setup"
  BY LocksGoes
<1> QED BY <1>1, <1>2 DEF Inv, Core, TypeMain, Goto

LEMMA SetupNext == Inv /\ Setup /\ [Next]_vars => Setup'
<1> SUFFICES ASSUME Inv, Setup, [Next]_vars PROVE Setup'
  OBVIOUS
<1>1. CASE UNCHANGED vars
  BY <1>1 DEF vars, Setup, GateHeld, GateMeansNew, FounderStays, OneFounder, At, any_user_exists
<1>2. CASE Next
  <2> USE <1>2
  <2>1. any_user_exists => any_user_exists'
    BY RowsStay
  <2>2. ASSUME NEW c \in Clients, complete_setup_begin(c) PROVE Setup'
    <3>1. /\ \A d \in Clients \ {c} : req[d].pc # "setup" /\ req'[d] = req[d]
          /\ ~any_user_exists /\ UNCHANGED <<users, founders>>
      BY <2>2 DEF complete_setup_begin, setup_gate, At, Goto, Inv, Core, TypeMain
    <3>2. founders = {}
      BY <3>1 DEF Setup, FounderStays
    <3> QED BY <3>1, <3>2 DEF Setup, GateHeld, GateMeansNew, FounderStays, OneFounder, At
  <2>3. ASSUME NEW c \in Clients, NEW u \in Users, complete_setup(c, u) PROVE Setup'
    <3>1. /\ req[c].pc = "setup" /\ founders = {} /\ req'[c] = NoReq
          /\ \A d \in Clients \ {c} : req[d].pc # "setup" /\ req'[d] = req[d]
      BY <2>3 DEF complete_setup, At, Goto, Inv, Core, TypeMain, Setup, GateHeld, GateMeansNew
    <3>2. \A d \in Clients : req'[d].pc # "setup"
      BY <3>1, NoReqType
    <3>3. founders' = {} \/ (founders' = {u} /\ users' = [users EXCEPT ![u] = create_account("ADMIN", FALSE)])
      BY <2>3, <3>1 DEF complete_setup
    <3>4. founders' = {u} => any_user_exists'
      <4>1. create_account("ADMIN", FALSE) \in Row
        BY AccountType DEF Role
      <4> QED BY <3>3, <4>1 DEF any_user_exists, Inv, Core, TypeMain
    <3> QED BY <3>2, <3>3, <3>4 DEF Setup, GateHeld, GateMeansNew, FounderStays, OneFounder, At
  <2>4. ASSUME NEW c \in Clients, LocksRow(c) PROVE Setup'
    BY <2>1, <2>4, LocksLeaveGate, GateKept
  <2>5. CASE ~\E c \in Clients : SetsUp(c) \/ LocksRow(c)
    BY <2>1, <2>5, OthersQuiet, GateKept DEF Quiet, QuietPhase
  <2> QED BY <2>2, <2>3, <2>4, <2>5 DEF SetsUp
<1> QED BY <1>1, <1>2

\* complete_setup creates one account in the life of a deployment, whichever
\* requests race for it: the advisory lock is held from the look for any user
\* until the commit.
THEOREM SetUpOnce == Spec => []SetupOnce
<1>1. Init => Setup
  BY NoReqType DEF Init, Setup, GateHeld, GateMeansNew, FounderStays, OneFounder, At
<1>2. Setup => SetupOnce
  <2> SUFFICES ASSUME Setup PROVE SetupOnce
    OBVIOUS
  <2>1. CASE founders = {}
    BY <2>1, FS_EmptySet DEF SetupOnce
  <2>2. CASE founders # {}
    <3>1. PICK u : u \in founders
      BY <2>2
    <3>2. founders = {u}
      BY <3>1 DEF Setup, OneFounder
    <3>3. Cardinality({u}) = 1
      BY FS_Singleton
    <3> QED BY <3>2, <3>3 DEF SetupOnce
  <2> QED BY <2>1, <2>2
<1> QED BY <1>1, <1>2, InvAlways, SetupNext, PTL DEF Spec
-----------------------------------------------------------------------------
(***************************************************************************)
(* How often an account is guessed at.  A count past the limit is paid for *)
(* by the requests of the account: each login in flight may count once     *)
(* more before the lock holds, and each removal of the lock that is under  *)
(* way opens another round.  Budget(u) is that account, and every step     *)
(* keeps it.                                                               *)
(***************************************************************************)

\* The requests that may still count a failure against u, have counted one and
\* not set the lock yet, and have reset the count and not removed the lock yet.
Guessing(u) == {c \in Clients : req[c].pc \in {"credentials", "failing"} /\ req[c].user = u}
Locking(u) == {c \in Clients : req[c].pc = "locking" /\ req[c].user = u}
Unlocking(u) == {c \in Clients : req[c].pc = "unlocking" /\ req[c].user = u}
Places == {"credentials", "failing", "locking", "unlocking"}

\* The failures that may still be counted before the lock holds, and twice those
\* of the rounds that k removals of the lock let through: n - k + 1, ..., n.
Left(n, isLocked, g, w, k) == IF isLocked THEN g ELSE n - w - k
Rounds(n, k) == k * (2 * n + 1 - k)

Within(n, f, isLocked, g, w, k, q) ==
    f >= MaxFailed =>
        2 * (f - MaxFailed + 1) + 2 * Left(n, isLocked, g, w, k) + Rounds(n, k) <= n * (n + 1) + 2 * (n * q)

Budget(u) ==
    Within(Cardinality(Clients), failed[u], locked[u], Cardinality(Guessing(u)), Cardinality(Locking(u)),
           Cardinality(Unlocking(u)), faults)
Budgets == \A u \in Users : Budget(u)
-----------------------------------------------------------------------------
(* What the numbers of one account allow *)

LEMMA NextRound ==
    ASSUME NEW n \in Nat, NEW k \in Nat, k > 0
    PROVE  Rounds(n, k) = Rounds(n, k - 1) + 2 * (n - k + 1)
BY DEF Rounds

LEMMA RoundsNat ==
    ASSUME NEW n \in Nat, NEW k \in Nat, k <= n
    PROVE  Rounds(n, k) \in Nat
BY DEF Rounds

LEMMA FirstRound ==
    ASSUME NEW n \in Nat, NEW k \in Nat, k <= n - 1
    PROVE  2 * (n - k) + Rounds(n, k) <= n * (n + 1)
<1>1. PICK m \in Nat : m = n - k - 1
  OBVIOUS
<1>2. n = m + k + 1
  BY <1>1
<1>3. Rounds(n, k) = k * (2 * m + k + 3)
  BY <1>2 DEF Rounds
<1>4. m * (m + 1) \in Nat
  OBVIOUS
<1>5. n * (n + 1) = 2 * (m + 1) + k * (2 * m + k + 3) + m * (m + 1)
  BY <1>2
<1> QED BY <1>2, <1>3, <1>4, <1>5

LEMMA Products ==
    ASSUME NEW n \in Nat, NEW q \in Nat
    PROVE  n * (n + 1) \in Nat /\ n * q \in Nat /\ n * (q + 1) = n * q + n
OBVIOUS

\* The numbers of one account, and what the steps of its requests make of them.
Numbers(n, f, isLocked, g, w, k, q) ==
    /\ n \in Nat /\ f \in Nat /\ isLocked \in BOOLEAN /\ g \in Nat /\ w \in Nat /\ k \in Nat /\ q \in Nat
    /\ g + w + k <= n
    /\ Within(n, f, isLocked, g, w, k, q)

\* A login gives up or a fault is counted.
LEMMA FewerGuess ==
    ASSUME NEW n, NEW f, NEW l, NEW g, NEW w, NEW k, NEW q, Numbers(n, f, l, g, w, k, q),
           NEW g1 \in Nat, g1 <= g, NEW q1 \in {q, q + 1}
    PROVE  Within(n, f, l, g1, w, k, q1)
<1>1. n * q \in Nat /\ n * q1 \in Nat /\ n * q <= n * q1 /\ n * (n + 1) \in Nat /\ Rounds(n, k) \in Nat
  BY Products, RoundsNat DEF Numbers
<1> QED BY <1>1 DEF Numbers, Within, Left

\* A login begins: while the lock holds, only a store that does not answer lets it in.
LEMMA OneMoreGuesses ==
    ASSUME NEW n, NEW f, NEW l, NEW g, NEW w, NEW k, NEW q, Numbers(n, f, l, g, w, k, q),
           NEW q1, (~l /\ q1 = q) \/ (q1 = q + 1 /\ n > 0)
    PROVE  Within(n, f, l, g + 1, w, k, q1)
<1>1. n * q \in Nat /\ n * (q + 1) = n * q + n /\ n * (n + 1) \in Nat /\ Rounds(n, k) \in Nat
  BY Products, RoundsNat DEF Numbers
<1> QED BY <1>1 DEF Numbers, Within, Left

\* A failure is counted: the request that counts it goes on to set the lock.
LEMMA OneIsCounted ==
    ASSUME NEW n, NEW f, NEW l, NEW g, NEW w, NEW k, NEW q, Numbers(n, f, l, g, w, k, q), g > 0
    PROVE  Within(n, f + 1, l, g - 1, w + 1, k, q)
<1>1. n * q \in Nat /\ n * (n + 1) \in Nat /\ Rounds(n, k) \in Nat /\ 2 * (n - k) + Rounds(n, k) <= n * (n + 1)
  BY Products, RoundsNat, FirstRound DEF Numbers
<1>2. CASE f >= MaxFailed
  BY <1>1, <1>2 DEF Numbers, Within, Left
<1>3. CASE f + 1 = MaxFailed
  BY <1>1, <1>3 DEF Numbers, Within, Left
<1>4. CASE f + 1 < MaxFailed
  BY <1>4 DEF Numbers, Within
<1> QED BY <1>2, <1>3, <1>4 DEF Numbers

\* The lock is set, or the command that sets it is lost.
LEMMA OneHasLocked ==
    ASSUME NEW n, NEW f, NEW l, NEW g, NEW w, NEW k, NEW q, Numbers(n, f, l, g, w, k, q), w > 0
    PROVE  Within(n, f, TRUE, g, w - 1, k, q) /\ Within(n, f, l, g, w - 1, k, q + 1)
<1>1. n * q \in Nat /\ n * (q + 1) = n * q + n /\ n * (n + 1) \in Nat /\ Rounds(n, k) \in Nat
  BY Products, RoundsNat DEF Numbers
<1> QED BY <1>1 DEF Numbers, Within, Left

\* The lock is removed, or the command that removes it is lost.
LEMMA OneHasUnlocked ==
    ASSUME NEW n, NEW f, NEW l, NEW g, NEW w, NEW k, NEW q, Numbers(n, f, l, g, w, k, q), k > 0
    PROVE  Within(n, f, FALSE, g, w, k - 1, q) /\ Within(n, f, l, g, w, k - 1, q + 1)
<1>1. n * q \in Nat /\ n * (q + 1) = n * q + n /\ n * (n + 1) \in Nat
      /\ Rounds(n, k - 1) \in Nat /\ Rounds(n, k) = Rounds(n, k - 1) + 2 * (n - k + 1)
  BY Products, RoundsNat, NextRound DEF Numbers
<1> QED BY <1>1 DEF Numbers, Within, Left

\* What the numbers say of the count itself.
LEMMA CountBounded ==
    ASSUME NEW n, NEW f, NEW l, NEW g, NEW w, NEW k, NEW q, Numbers(n, f, l, g, w, k, q)
    PROVE  f <= MaxFailed - 1 + (n * (n + 1)) \div 2 + n * q
<1>1. PICK p \in Nat : p = n * (n + 1)
  BY Products DEF Numbers
<1>2. PICK x \in Nat : x = n * q
  BY Products DEF Numbers
<1>3. Rounds(n, k) \in Nat
  BY RoundsNat DEF Numbers
<1>4. f >= MaxFailed => 2 * (f - MaxFailed + 1) <= p + 2 * x
  BY <1>1, <1>2, <1>3 DEF Numbers, Within, Left
<1>5. f <= MaxFailed - 1 + p \div 2 + x
  BY <1>4 DEF Numbers
<1> QED BY <1>1, <1>2, <1>5
-----------------------------------------------------------------------------
(* The requests of one account *)

Guesses(r, u) == r.pc \in {"credentials", "failing"} /\ r.user = u
SetsLock(r, u) == r.pc = "locking" /\ r.user = u
Unlocks(r, u) == r.pc = "unlocking" /\ r.user = u

LEMMA SomeClients ==
    ASSUME NEW c \in Clients
    PROVE  Cardinality(Clients) \in Nat \ {0}
<1>1. Cardinality(Clients) \in Nat
  BY FS_CardinalityType
<1> QED BY <1>1, FS_EmptySet

LEMMA DisjointSum ==
    ASSUME NEW S, NEW T, IsFiniteSet(S), IsFiniteSet(T), S \cap T = {}
    PROVE  IsFiniteSet(S \cup T) /\ Cardinality(S \cup T) = Cardinality(S) + Cardinality(T)
<1>1. Cardinality(S) \in Nat /\ Cardinality(T) \in Nat
  BY FS_CardinalityType
<1>2. Cardinality(S \cap T) = 0
  BY FS_EmptySet
<1>3. IsFiniteSet(S \cup T) /\ Cardinality(S \cup T) = Cardinality(S) + Cardinality(T) - Cardinality(S \cap T)
  BY FS_Union
<1> QED BY <1>1, <1>2, <1>3

LEMMA Tallies ==
    ASSUME NEW u, Inv
    PROVE  /\ IsFiniteSet(Guessing(u)) /\ IsFiniteSet(Locking(u)) /\ IsFiniteSet(Unlocking(u))
           /\ Cardinality(Guessing(u)) \in Nat /\ Cardinality(Locking(u)) \in Nat /\ Cardinality(Unlocking(u)) \in Nat
           /\ Cardinality(Guessing(u)) + Cardinality(Locking(u)) + Cardinality(Unlocking(u)) <= Cardinality(Clients)
<1>1. Guessing(u) \subseteq Clients /\ Locking(u) \subseteq Clients /\ Unlocking(u) \subseteq Clients
  BY DEF Guessing, Locking, Unlocking
<1>2. /\ IsFiniteSet(Guessing(u)) /\ IsFiniteSet(Locking(u)) /\ IsFiniteSet(Unlocking(u))
      /\ Cardinality(Guessing(u)) \in Nat /\ Cardinality(Locking(u)) \in Nat /\ Cardinality(Unlocking(u)) \in Nat
  BY <1>1, FS_Subset, FS_CardinalityType
<1>3. PICK S : S = Guessing(u) \cup Locking(u)
  OBVIOUS
<1>4. Guessing(u) \cap Locking(u) = {} /\ S \cap Unlocking(u) = {} /\ S \cup Unlocking(u) \subseteq Clients
  BY <1>1, <1>3 DEF Guessing, Locking, Unlocking
<1>5. IsFiniteSet(S) /\ Cardinality(S) = Cardinality(Guessing(u)) + Cardinality(Locking(u))
  BY <1>2, <1>3, <1>4, DisjointSum
<1>6. Cardinality(S \cup Unlocking(u)) = Cardinality(S) + Cardinality(Unlocking(u))
  BY <1>2, <1>4, <1>5, DisjointSum
<1>7. Cardinality(S \cup Unlocking(u)) <= Cardinality(Clients)
  BY <1>4, FS_Subset
<1> QED BY <1>2, <1>5, <1>6, <1>7

\* One element comes, goes or stays.
LEMMA OneMoves ==
    ASSUME NEW S, NEW T, IsFiniteSet(S), NEW c, \A d : d # c => (d \in S <=> d \in T)
    PROVE  /\ (c \in S <=> c \in T) => Cardinality(T) = Cardinality(S)
           /\ c \notin S /\ c \in T => Cardinality(T) = Cardinality(S) + 1
           /\ c \in S /\ c \notin T => Cardinality(T) = Cardinality(S) - 1 /\ Cardinality(S) > 0
<1>1. CASE c \in S <=> c \in T
  <2>1. \A d : d \in S <=> d \in T
    BY <1>1
  <2>2. S = T
    BY <2>1
  <2> QED BY <1>1, <2>2
<1>2. CASE c \notin S /\ c \in T
  <2>1. T = S \cup {c}
    BY <1>2
  <2> QED BY <1>2, <2>1, FS_AddElement
<1>3. CASE c \in S /\ c \notin T
  <2>1. T = S \ {c}
    BY <1>3
  <2>2. Cardinality(S) > 0
    BY <1>3, FS_EmptySet, FS_CardinalityType
  <2> QED BY <1>3, <2>1, <2>2, FS_RemoveElement
<1> QED BY <1>1, <1>2, <1>3

\* The tallies after a step of one request.
LEMMA TallyStep ==
    ASSUME NEW u, Inv, NEW c \in Clients, NEW r \in Request, r = req[c], NEW s \in Request, Goto(c, s)
    PROVE  LET g == Cardinality(Guessing(u))
               w == Cardinality(Locking(u))
               k == Cardinality(Unlocking(u)) IN
           /\ (Guesses(r, u) <=> Guesses(s, u)) => g' = g
           /\ ~Guesses(r, u) /\ Guesses(s, u) => g' = g + 1
           /\ Guesses(r, u) /\ ~Guesses(s, u) => g' = g - 1 /\ g > 0
           /\ (SetsLock(r, u) <=> SetsLock(s, u)) => w' = w
           /\ ~SetsLock(r, u) /\ SetsLock(s, u) => w' = w + 1
           /\ SetsLock(r, u) /\ ~SetsLock(s, u) => w' = w - 1 /\ w > 0
           /\ (Unlocks(r, u) <=> Unlocks(s, u)) => k' = k
           /\ ~Unlocks(r, u) /\ Unlocks(s, u) => k' = k + 1
           /\ Unlocks(r, u) /\ ~Unlocks(s, u) => k' = k - 1 /\ k > 0
<1>1. req'[c] = s /\ \A d \in Clients : d # c => req'[d] = req[d]
  BY DEF Goto, Inv, Core, TypeMain
<1>2. PICK G : G = Guessing(u)'
  OBVIOUS
<1>3. PICK W : W = Locking(u)'
  OBVIOUS
<1>4. PICK K : K = Unlocking(u)'
  OBVIOUS
<1>5. /\ \A d : d # c => (d \in Guessing(u) <=> d \in G)
      /\ (c \in Guessing(u) <=> Guesses(r, u)) /\ (c \in G <=> Guesses(s, u))
  BY <1>1, <1>2 DEF Guessing, Guesses
<1>6. /\ \A d : d # c => (d \in Locking(u) <=> d \in W)
      /\ (c \in Locking(u) <=> SetsLock(r, u)) /\ (c \in W <=> SetsLock(s, u))
  BY <1>1, <1>3 DEF Locking, SetsLock
<1>7. /\ \A d : d # c => (d \in Unlocking(u) <=> d \in K)
      /\ (c \in Unlocking(u) <=> Unlocks(r, u)) /\ (c \in K <=> Unlocks(s, u))
  BY <1>1, <1>4 DEF Unlocking, Unlocks
<1>8. IsFiniteSet(Guessing(u)) /\ IsFiniteSet(Locking(u)) /\ IsFiniteSet(Unlocking(u))
  BY Tallies
<1>9. /\ (Guesses(r, u) <=> Guesses(s, u)) => Cardinality(G) = Cardinality(Guessing(u))
      /\ ~Guesses(r, u) /\ Guesses(s, u) => Cardinality(G) = Cardinality(Guessing(u)) + 1
      /\ Guesses(r, u) /\ ~Guesses(s, u) => Cardinality(G) = Cardinality(Guessing(u)) - 1 /\ Cardinality(Guessing(u)) > 0
  BY <1>5, <1>8, OneMoves
<1>10. /\ (SetsLock(r, u) <=> SetsLock(s, u)) => Cardinality(W) = Cardinality(Locking(u))
       /\ ~SetsLock(r, u) /\ SetsLock(s, u) => Cardinality(W) = Cardinality(Locking(u)) + 1
       /\ SetsLock(r, u) /\ ~SetsLock(s, u) => Cardinality(W) = Cardinality(Locking(u)) - 1 /\ Cardinality(Locking(u)) > 0
  BY <1>6, <1>8, OneMoves
<1>11. /\ (Unlocks(r, u) <=> Unlocks(s, u)) => Cardinality(K) = Cardinality(Unlocking(u))
       /\ ~Unlocks(r, u) /\ Unlocks(s, u) => Cardinality(K) = Cardinality(Unlocking(u)) + 1
       /\ Unlocks(r, u) /\ ~Unlocks(s, u) => Cardinality(K) = Cardinality(Unlocking(u)) - 1 /\ Cardinality(Unlocking(u)) > 0
  BY <1>7, <1>8, OneMoves
<1> QED BY <1>2, <1>3, <1>4, <1>9, <1>10, <1>11, Zenon

\* The budget of an account, as its numbers.
LEMMA InNumbers ==
    ASSUME Inv, NEW u \in Users, Budget(u)
    PROVE  Numbers(Cardinality(Clients), failed[u], locked[u], Cardinality(Guessing(u)),
                   Cardinality(Locking(u)), Cardinality(Unlocking(u)), faults)
<1>1. failed[u] \in Nat /\ locked[u] \in BOOLEAN /\ faults \in Nat
  BY DEF Inv, TypeRest
<1>2. Cardinality(Clients) \in Nat
  BY FS_CardinalityType
<1> QED BY <1>1, <1>2, Tallies DEF Numbers, Budget

\* The budget after a step, from the numbers after it.
LEMMA FromNumbers ==
    ASSUME NEW u, NEW f, NEW l, NEW g, NEW w, NEW k, NEW q, Within(Cardinality(Clients), f, l, g, w, k, q),
           failed'[u] = f, locked'[u] = l, Cardinality(Guessing(u))' = g, Cardinality(Locking(u))' = w,
           Cardinality(Unlocking(u))' = k, faults' = q
    PROVE  Budget(u)'
BY DEF Budget

\* A request that counts nothing, locks nothing and unlocks nothing goes on.
LEMMA AsideStep ==
    ASSUME Inv, Budgets, NEW c \in Clients, NEW r \in Request, r = req[c], NEW s \in Request, Goto(c, s),
           r.pc \notin {"locking", "unlocking"}, s.pc \notin {"locking", "unlocking"},
           s.pc \in {"credentials", "failing"} => r.pc \in {"credentials", "failing"} /\ s.user = r.user,
           UNCHANGED <<failed, locked>>, faults' \in {faults, faults + 1}
    PROVE  Budgets'
<1> SUFFICES ASSUME NEW u \in Users PROVE Budget(u)'
  BY DEF Budgets
<1>1. Numbers(Cardinality(Clients), failed[u], locked[u], Cardinality(Guessing(u)),
              Cardinality(Locking(u)), Cardinality(Unlocking(u)), faults)
  BY InNumbers DEF Budgets
<1>2. /\ ~SetsLock(r, u) /\ ~SetsLock(s, u) /\ ~Unlocks(r, u) /\ ~Unlocks(s, u)
      /\ Guesses(s, u) => Guesses(r, u)
  BY DEF SetsLock, Unlocks, Guesses
<1>3. PICK g : g = Cardinality(Guessing(u))'
  OBVIOUS
<1>4. /\ g \in {Cardinality(Guessing(u)), Cardinality(Guessing(u)) - 1}
      /\ g = Cardinality(Guessing(u)) \/ Cardinality(Guessing(u)) > 0
      /\ Cardinality(Locking(u))' = Cardinality(Locking(u)) /\ Cardinality(Unlocking(u))' = Cardinality(Unlocking(u))
  BY <1>2, <1>3, TallyStep
<1>5. Cardinality(Guessing(u)) \in Nat
  BY Tallies
<1>6. g \in Nat /\ g <= Cardinality(Guessing(u))
  BY <1>4, <1>5
<1>7. PICK q \in {faults, faults + 1} : q = faults'
  OBVIOUS
<1>8. Within(Cardinality(Clients), failed[u], locked[u], g, Cardinality(Locking(u)), Cardinality(Unlocking(u)), q)
  BY <1>1, <1>6, FewerGuess
<1> QED BY <1>3, <1>4, <1>7, <1>8, FromNumbers

\* A fault ends what a request was about to do.
LEMMA FaultStep ==
    ASSUME Inv, Budgets, NEW c \in Clients, NEW r \in Request, r = req[c], NEW s \in Request, Goto(c, s),
           s.pc \notin Places, UNCHANGED <<failed, locked>>, faults' = faults + 1
    PROVE  Budgets'
<1> SUFFICES ASSUME NEW u \in Users PROVE Budget(u)'
  BY DEF Budgets
<1>1. CASE r.pc \notin {"locking", "unlocking"}
  <2>1. Budgets'
    BY <1>1, AsideStep DEF Places
  <2> QED BY <2>1 DEF Budgets
<1>2. Numbers(Cardinality(Clients), failed[u], locked[u], Cardinality(Guessing(u)),
              Cardinality(Locking(u)), Cardinality(Unlocking(u)), faults)
  BY InNumbers DEF Budgets
<1>3. ~Guesses(s, u) /\ ~SetsLock(s, u) /\ ~Unlocks(s, u)
  BY DEF Guesses, SetsLock, Unlocks, Places
<1>4. CASE SetsLock(r, u)
  <2>1. ~Guesses(r, u) /\ ~Unlocks(r, u)
    BY <1>4 DEF Guesses, SetsLock, Unlocks
  <2>2. /\ Cardinality(Guessing(u))' = Cardinality(Guessing(u)) /\ Cardinality(Unlocking(u))' = Cardinality(Unlocking(u))
        /\ Cardinality(Locking(u))' = Cardinality(Locking(u)) - 1 /\ Cardinality(Locking(u)) > 0
    BY <1>3, <1>4, <2>1, TallyStep
  <2>3. Within(Cardinality(Clients), failed[u], locked[u], Cardinality(Guessing(u)), Cardinality(Locking(u)) - 1,
               Cardinality(Unlocking(u)), faults + 1)
    BY <1>2, <2>2, OneHasLocked
  <2> QED BY <2>2, <2>3, FromNumbers
<1>5. CASE Unlocks(r, u)
  <2>1. ~Guesses(r, u) /\ ~SetsLock(r, u)
    BY <1>5 DEF Guesses, SetsLock, Unlocks
  <2>2. /\ Cardinality(Guessing(u))' = Cardinality(Guessing(u)) /\ Cardinality(Locking(u))' = Cardinality(Locking(u))
        /\ Cardinality(Unlocking(u))' = Cardinality(Unlocking(u)) - 1 /\ Cardinality(Unlocking(u)) > 0
    BY <1>3, <1>5, <2>1, TallyStep
  <2>3. Within(Cardinality(Clients), failed[u], locked[u], Cardinality(Guessing(u)), Cardinality(Locking(u)),
               Cardinality(Unlocking(u)) - 1, faults + 1)
    BY <1>2, <2>2, OneHasUnlocked
  <2> QED BY <2>2, <2>3, FromNumbers
<1>6. CASE r.pc \in {"locking", "unlocking"} /\ ~SetsLock(r, u) /\ ~Unlocks(r, u)
  <2>1. ~Guesses(r, u)
    BY <1>6 DEF Guesses
  <2>2. /\ Cardinality(Guessing(u))' = Cardinality(Guessing(u)) /\ Cardinality(Locking(u))' = Cardinality(Locking(u))
        /\ Cardinality(Unlocking(u))' = Cardinality(Unlocking(u))
    BY <1>3, <1>6, <2>1, TallyStep
  <2>3. Cardinality(Guessing(u)) \in Nat /\ Cardinality(Guessing(u)) <= Cardinality(Guessing(u))
    BY Tallies
  <2>4. Within(Cardinality(Clients), failed[u], locked[u], Cardinality(Guessing(u)), Cardinality(Locking(u)),
               Cardinality(Unlocking(u)), faults + 1)
    BY <1>2, <2>3, FewerGuess
  <2> QED BY <2>2, <2>4, FromNumbers
<1> QED BY <1>1, <1>4, <1>5, <1>6

\* Another account's request.
LEMMA OtherAccount ==
    ASSUME Inv, Budgets, NEW c \in Clients, NEW r \in Request, r = req[c], NEW s \in Request, Goto(c, s),
           NEW u \in Users, r.pc \in Places => r.user # u, s.pc \in Places => s.user # u,
           failed'[u] = failed[u], locked'[u] = locked[u], faults' \in {faults, faults + 1}
    PROVE  Budget(u)'
<1>1. Numbers(Cardinality(Clients), failed[u], locked[u], Cardinality(Guessing(u)),
              Cardinality(Locking(u)), Cardinality(Unlocking(u)), faults)
  BY InNumbers DEF Budgets
<1>2. /\ ~Guesses(r, u) /\ ~SetsLock(r, u) /\ ~Unlocks(r, u)
      /\ ~Guesses(s, u) /\ ~SetsLock(s, u) /\ ~Unlocks(s, u)
  BY DEF Guesses, SetsLock, Unlocks, Places
<1>3. /\ Cardinality(Guessing(u))' = Cardinality(Guessing(u)) /\ Cardinality(Locking(u))' = Cardinality(Locking(u))
      /\ Cardinality(Unlocking(u))' = Cardinality(Unlocking(u))
  BY <1>2, TallyStep
<1>4. Cardinality(Guessing(u)) \in Nat /\ Cardinality(Guessing(u)) <= Cardinality(Guessing(u))
  BY Tallies
<1>5. PICK q \in {faults, faults + 1} : q = faults'
  OBVIOUS
<1>6. Within(Cardinality(Clients), failed[u], locked[u], Cardinality(Guessing(u)), Cardinality(Locking(u)),
             Cardinality(Unlocking(u)), q)
  BY <1>1, <1>4, <1>5, FewerGuess
<1> QED BY <1>3, <1>5, <1>6, FromNumbers
-----------------------------------------------------------------------------
(* The steps that guess, lock and unlock *)

LEMMA LoginBudget ==
    ASSUME Inv, Budgets, NEW c \in Clients, NEW u \in Users, login(c, u)
    PROVE  Budgets'
<1>1. PICK r \in Request : r = req[c] /\ r.pc = "idle"
  BY RequestType DEF login, At, Inv
<1>2. PICK s \in Request : s = [NoReq EXCEPT !.pc = "credentials", !.user = u] /\ s.pc = "credentials" /\ s.user = u
  <2>1. [NoReq EXCEPT !.pc = "credentials", !.user = u] \in Request
    BY NoReqType DEF Request, Phase
  <2> QED BY <2>1, NoReqType DEF Request
<1>3. Goto(c, s) /\ UNCHANGED <<failed, locked>> /\ not_locked(u)
  BY <1>2 DEF login, login_begin
<1>4. (~locked[u] /\ faults' = faults) \/ faults' = faults + 1
  BY <1>3 DEF not_locked, NoFault, Fault
<1>5. ASSUME NEW v \in Users \ {u} PROVE Budget(v)'
  BY <1>1, <1>2, <1>3, <1>4, OtherAccount DEF Places
<1>6. Numbers(Cardinality(Clients), failed[u], locked[u], Cardinality(Guessing(u)),
              Cardinality(Locking(u)), Cardinality(Unlocking(u)), faults)
  BY InNumbers DEF Budgets
<1>7. /\ ~Guesses(r, u) /\ ~SetsLock(r, u) /\ ~Unlocks(r, u)
      /\ Guesses(s, u) /\ ~SetsLock(s, u) /\ ~Unlocks(s, u)
  BY <1>1, <1>2 DEF Guesses, SetsLock, Unlocks
<1>8. /\ Cardinality(Guessing(u))' = Cardinality(Guessing(u)) + 1
      /\ Cardinality(Locking(u))' = Cardinality(Locking(u)) /\ Cardinality(Unlocking(u))' = Cardinality(Unlocking(u))
  BY <1>1, <1>3, <1>7, TallyStep
<1>9. PICK q : q = faults' /\ ((~locked[u] /\ q = faults) \/ q = faults + 1)
  BY <1>4
<1>10. Within(Cardinality(Clients), failed[u], locked[u], Cardinality(Guessing(u)) + 1, Cardinality(Locking(u)),
              Cardinality(Unlocking(u)), q)
  <2>1. Cardinality(Clients) > 0
    BY SomeClients
  <2> QED BY <1>6, <1>9, <2>1, OneMoreGuesses
<1>11. Budget(u)'
  BY <1>3, <1>8, <1>9, <1>10, FromNumbers
<1> QED BY <1>5, <1>11 DEF Budgets

\* A count below the limit has the whole budget before it.
LEMMA BelowLimit ==
    ASSUME NEW u, failed'[u] < MaxFailed, failed'[u] \in Nat
    PROVE  Budget(u)'
BY DEF Budget, Within

LEMMA CountBudget ==
    ASSUME Inv, Budgets, NEW c \in Clients, record_failure(c)
    PROVE  Budgets'
<1>1. PICK r \in Request : r = req[c] /\ r.pc = "failing" /\ r.user \in Users
  BY RequestType, UserType DEF record_failure, At, Inv
<1>2. PICK u \in Users : u = r.user
  BY <1>1
<1>3. CASE Fault /\ UNCHANGED failed /\ Goto(c, NoReq)
  BY <1>1, <1>3, FaultStep, NoReqType DEF record_failure, Fault, Places
<1>4. CASE /\ NoFault /\ failed' = [failed EXCEPT ![u] = @ + 1]
           /\ Goto(c, IF Locks(failed[u] + 1) THEN Moved(c, "locking") ELSE NoReq)
  <2>1. PICK m \in Request : m = Moved(c, "locking") /\ m.pc = "locking" /\ m.user = u
    <3>1. Moved(c, "locking") \in Request /\ Moved(c, "locking").pc = "locking"
          /\ Moved(c, "locking").user = r.user
      BY <1>1 DEF Moved, Request, Phase
    <3> QED BY <1>2, <3>1
  <2>2. /\ failed[u] \in Nat /\ failed'[u] = failed[u] + 1 /\ faults' = faults /\ locked' = locked
        /\ \A v \in Users \ {u} : failed'[v] = failed[v]
    BY <1>4 DEF record_failure, NoFault, Inv, TypeRest
  <2>3. PICK s \in Request : /\ Goto(c, s)
                             /\ (s.pc = "locking" /\ s.user = u) \/ s.pc = "idle"
                             /\ failed[u] + 1 >= MaxFailed => s = m
    <3>1. CASE failed[u] + 1 >= MaxFailed
      BY <1>4, <2>1, <3>1 DEF Locks
    <3>2. CASE ~(failed[u] + 1 >= MaxFailed)
      BY <1>4, <3>2, NoReqType DEF Locks
    <3> QED BY <3>1, <3>2
  <2>4. ASSUME NEW v \in Users \ {u} PROVE Budget(v)'
    BY <1>1, <1>2, <2>2, <2>3, <2>4, OtherAccount DEF Places
  <2>5. CASE failed[u] + 1 < MaxFailed
    BY <2>2, <2>4, <2>5, BelowLimit DEF Budgets
  <2>6. CASE failed[u] + 1 >= MaxFailed
    <3>1. /\ Guesses(r, u) /\ ~SetsLock(r, u) /\ ~Unlocks(r, u)
          /\ ~Guesses(s, u) /\ SetsLock(s, u) /\ ~Unlocks(s, u)
      BY <1>1, <1>2, <2>1, <2>3, <2>6 DEF Guesses, SetsLock, Unlocks
    <3>2. /\ Cardinality(Guessing(u))' = Cardinality(Guessing(u)) - 1 /\ Cardinality(Guessing(u)) > 0
          /\ Cardinality(Locking(u))' = Cardinality(Locking(u)) + 1
          /\ Cardinality(Unlocking(u))' = Cardinality(Unlocking(u))
      BY <1>1, <2>3, <3>1, TallyStep
    <3>3. Numbers(Cardinality(Clients), failed[u], locked[u], Cardinality(Guessing(u)),
                  Cardinality(Locking(u)), Cardinality(Unlocking(u)), faults)
      BY InNumbers DEF Budgets
    <3>4. Within(Cardinality(Clients), failed[u] + 1, locked[u], Cardinality(Guessing(u)) - 1,
                 Cardinality(Locking(u)) + 1, Cardinality(Unlocking(u)), faults)
      BY <3>2, <3>3, OneIsCounted
    <3>5. Budget(u)'
      BY <2>2, <3>2, <3>4, FromNumbers
    <3> QED BY <2>4, <3>5 DEF Budgets
  <2> QED BY <2>2, <2>5, <2>6
<1> QED BY <1>1, <1>2, <1>3, <1>4 DEF record_failure

LEMMA LockBudget ==
    ASSUME Inv, Budgets, NEW c \in Clients, record_failure_lock(c)
    PROVE  Budgets'
<1>1. PICK r \in Request : r = req[c] /\ r.pc = "locking" /\ r.user \in Users
  BY RequestType, UserType DEF record_failure_lock, At, Inv
<1>2. PICK u \in Users : u = r.user
  BY <1>1
<1>3. Goto(c, NoReq) /\ UNCHANGED failed
  BY DEF record_failure_lock
<1>4. CASE Fault /\ UNCHANGED locked
  BY <1>1, <1>3, <1>4, FaultStep, NoReqType DEF Fault, Places
<1>5. CASE NoFault /\ locked' = [locked EXCEPT ![u] = TRUE]
  <2>1. locked'[u] = TRUE /\ faults' = faults /\ \A v \in Users \ {u} : locked'[v] = locked[v]
    BY <1>5 DEF NoFault, Inv, TypeRest
  <2>2. ASSUME NEW v \in Users \ {u} PROVE Budget(v)'
    BY <1>1, <1>2, <1>3, <2>1, <2>2, NoReqType, OtherAccount DEF Places
  <2>3. /\ ~Guesses(r, u) /\ SetsLock(r, u) /\ ~Unlocks(r, u)
        /\ ~Guesses(NoReq, u) /\ ~SetsLock(NoReq, u) /\ ~Unlocks(NoReq, u)
    BY <1>1, <1>2, NoReqType DEF Guesses, SetsLock, Unlocks
  <2>4. /\ Cardinality(Guessing(u))' = Cardinality(Guessing(u))
        /\ Cardinality(Locking(u))' = Cardinality(Locking(u)) - 1 /\ Cardinality(Locking(u)) > 0
        /\ Cardinality(Unlocking(u))' = Cardinality(Unlocking(u))
    BY <1>1, <1>3, <2>3, NoReqType, TallyStep
  <2>5. Numbers(Cardinality(Clients), failed[u], locked[u], Cardinality(Guessing(u)),
                Cardinality(Locking(u)), Cardinality(Unlocking(u)), faults)
    BY InNumbers DEF Budgets
  <2>6. Within(Cardinality(Clients), failed[u], TRUE, Cardinality(Guessing(u)), Cardinality(Locking(u)) - 1,
               Cardinality(Unlocking(u)), faults)
    BY <2>4, <2>5, OneHasLocked
  <2>7. Budget(u)'
    BY <1>3, <2>1, <2>4, <2>6, FromNumbers
  <2> QED BY <2>2, <2>7 DEF Budgets
<1> QED BY <1>1, <1>2, <1>4, <1>5 DEF record_failure_lock

LEMMA ClearBudget ==
    ASSUME Inv, Budgets, NEW c \in Clients, clear_failures(c)
    PROVE  Budgets'
<1>1. PICK r \in Request : r = req[c] /\ r.pc = "clearing" /\ r.user \in Users
  BY RequestType, UserType DEF clear_failures, At, Inv
<1>2. PICK u \in Users : u = r.user
  BY <1>1
<1>3. "opening" \in Phase /\ "unlocking" \in Phase
  BY DEF Phase
<1>4. UNCHANGED locked
  BY DEF clear_failures
<1>5. CASE Fault /\ UNCHANGED failed /\ Goto(c, IF req[c].op = "unlock" THEN NoReq ELSE Moved(c, "opening"))
  <2>1. PICK s \in Request : Goto(c, s) /\ s.pc \in {"idle", "opening"}
    BY <1>3, <1>5, NoReqType, MovedType DEF Inv
  <2> QED BY <1>1, <1>4, <1>5, <2>1, FaultStep DEF Fault, Places
<1>6. CASE NoFault /\ failed' = [failed EXCEPT ![u] = 0] /\ Goto(c, Moved(c, "unlocking"))
  <2>1. PICK s \in Request : Goto(c, s) /\ s.pc = "unlocking" /\ s.user = u
    BY <1>1, <1>2, <1>3, <1>6, MovedType DEF Inv
  <2>2. failed'[u] = 0 /\ faults' = faults /\ \A v \in Users \ {u} : failed'[v] = failed[v]
    BY <1>6 DEF NoFault, Inv, TypeRest
  <2>3. ASSUME NEW v \in Users \ {u} PROVE Budget(v)'
    BY <1>1, <1>2, <1>4, <2>1, <2>2, <2>3, OtherAccount DEF Places
  <2> QED BY <2>2, <2>3, BelowLimit DEF Budgets
<1> QED BY <1>1, <1>2, <1>5, <1>6 DEF clear_failures

LEMMA UnlockBudget ==
    ASSUME Inv, Budgets, NEW c \in Clients, clear_failures_flag(c)
    PROVE  Budgets'
<1>1. PICK r \in Request : r = req[c] /\ r.pc = "unlocking" /\ r.user \in Users
  BY RequestType, UserType DEF clear_failures_flag, At, Inv
<1>2. PICK u \in Users : u = r.user
  BY <1>1
<1>3. PICK s \in Request : Goto(c, s) /\ s.pc \in {"idle", "opening"}
  <2>1. "opening" \in Phase
    BY DEF Phase
  <2> QED BY <2>1, NoReqType, MovedType DEF clear_failures_flag, Inv
<1>4. UNCHANGED failed
  BY DEF clear_failures_flag
<1>5. CASE Fault /\ UNCHANGED locked
  BY <1>1, <1>3, <1>4, <1>5, FaultStep DEF Fault, Places
<1>6. CASE NoFault /\ locked' = [locked EXCEPT ![u] = FALSE]
  <2>1. locked'[u] = FALSE /\ faults' = faults /\ \A v \in Users \ {u} : locked'[v] = locked[v]
    BY <1>6 DEF NoFault, Inv, TypeRest
  <2>2. ASSUME NEW v \in Users \ {u} PROVE Budget(v)'
    BY <1>1, <1>2, <1>3, <1>4, <2>1, <2>2, OtherAccount DEF Places
  <2>3. /\ ~Guesses(r, u) /\ ~SetsLock(r, u) /\ Unlocks(r, u)
        /\ ~Guesses(s, u) /\ ~SetsLock(s, u) /\ ~Unlocks(s, u)
    BY <1>1, <1>2, <1>3 DEF Guesses, SetsLock, Unlocks
  <2>4. /\ Cardinality(Guessing(u))' = Cardinality(Guessing(u)) /\ Cardinality(Locking(u))' = Cardinality(Locking(u))
        /\ Cardinality(Unlocking(u))' = Cardinality(Unlocking(u)) - 1 /\ Cardinality(Unlocking(u)) > 0
    BY <1>1, <1>3, <2>3, TallyStep
  <2>5. Numbers(Cardinality(Clients), failed[u], locked[u], Cardinality(Guessing(u)),
                Cardinality(Locking(u)), Cardinality(Unlocking(u)), faults)
    BY InNumbers DEF Budgets
  <2>6. Within(Cardinality(Clients), failed[u], FALSE, Cardinality(Guessing(u)), Cardinality(Locking(u)),
               Cardinality(Unlocking(u)) - 1, faults)
    BY <2>4, <2>5, OneHasUnlocked
  <2>7. Budget(u)'
    BY <1>4, <2>1, <2>4, <2>6, FromNumbers
  <2> QED BY <2>2, <2>7 DEF Budgets
<1> QED BY <1>1, <1>2, <1>5, <1>6 DEF clear_failures_flag

\* The lock does not expire before the count that set it.
LEMMA ExpiryBudget ==
    ASSUME Inv, Budgets, NEW u \in Users, lockout_expires(u)
    PROVE  Budgets'
<1> SUFFICES ASSUME NEW v \in Users PROVE Budget(v)'
  BY DEF Budgets
<1>1. /\ failed[v] \in Nat /\ UNCHANGED <<req, faults>>
      /\ failed'[v] = 0 \/ (failed'[v] = failed[v] /\ locked'[v] = locked[v])
                        \/ (failed'[v] = failed[v] /\ failed[v] < MaxFailed)
  BY DEF lockout_expires, Inv, TypeRest
<1>2. CASE failed'[v] = failed[v] /\ locked'[v] = locked[v]
  BY <1>1, <1>2 DEF Budgets, Budget, Guessing, Locking, Unlocking
<1>3. CASE failed'[v] = 0 \/ (failed'[v] = failed[v] /\ failed[v] < MaxFailed)
  BY <1>1, <1>3, BelowLimit
<1> QED BY <1>1, <1>2, <1>3
-----------------------------------------------------------------------------
(* The other steps *)

\* A step that leaves the store of the lockout and the requests at it alone.
Elsewhere ==
    /\ UNCHANGED <<failed, locked>>
    /\ \/ UNCHANGED <<req, faults>>
       \/ /\ faults' \in {faults, faults + 1}
          /\ \E c \in Clients, s \in Request :
                Goto(c, s) /\ req[c].pc \notin {"locking", "unlocking"} /\ s.pc \notin Places

LEMMA ElsewhereBudget ==
    ASSUME Inv, Budgets, Elsewhere
    PROVE  Budgets'
<1>1. CASE /\ faults' \in {faults, faults + 1}
           /\ \E c \in Clients, s \in Request :
                 Goto(c, s) /\ req[c].pc \notin {"locking", "unlocking"} /\ s.pc \notin Places
  <2>1. PICK c \in Clients, s \in Request :
              Goto(c, s) /\ req[c].pc \notin {"locking", "unlocking"} /\ s.pc \notin Places
    BY <1>1
  <2>2. PICK r \in Request : r = req[c]
    BY RequestType DEF Inv
  <2> QED BY <1>1, <2>1, <2>2, AsideStep DEF Elsewhere, Places
<1>2. CASE UNCHANGED <<req, faults>>
  BY <1>2 DEF Elsewhere, Budgets, Budget, Guessing, Locking, Unlocking
<1> QED BY <1>1, <1>2 DEF Elsewhere

LEMMA AuthBudget ==
    ASSUME Inv, Budgets, NEW c \in Clients, authenticate(c)
    PROVE  Budgets'
<1>1. PICK r \in Request : r = req[c] /\ r.pc = "credentials" /\ r.user \in Users
  BY RequestType, UserType DEF authenticate, At, Inv
<1>2. PICK row \in AuthOutcome(req[c].user) :
         Goto(c, IF row = NoRow THEN Moved(c, "failing")
                 ELSE IF ~row.active THEN NoReq
                 ELSE [Moved(c, "clearing") EXCEPT !.row = row])
  BY DEF authenticate
<1>3. row \in Row \cup {NoRow}
  BY <1>1, <1>2 DEF AuthOutcome, Inv, Core, TypeMain
<1>4. PICK m \in Request : m = Moved(c, "failing") /\ m.pc = "failing" /\ m.user = r.user
  BY <1>1, MovedType DEF Inv, Phase
<1>5. PICK p \in Request : p = Moved(c, "clearing") /\ p.pc = "clearing"
  BY MovedType DEF Inv, Phase
<1>6. PICK t \in Request : t = [p EXCEPT !.row = row] /\ t.pc = "clearing"
  <2>1. [p EXCEPT !.row = row] \in Request /\ [p EXCEPT !.row = row].pc = "clearing"
    BY <1>3, <1>5 DEF Request
  <2> QED BY <2>1
<1>7. PICK s \in Request : Goto(c, s) /\ s.pc \in {"idle", "failing", "clearing"} /\ (s.pc = "failing" => s.user = r.user)
  BY <1>2, <1>4, <1>5, <1>6, NoReqType
<1> QED BY <1>1, <1>7, AsideStep DEF authenticate

LEMMA ElsewhereGoes ==
    ASSUME Inv, NEW c \in Clients, NEW s \in Request, Goto(c, s), req[c].pc \notin {"locking", "unlocking"},
           s.pc \notin Places, UNCHANGED <<failed, locked>>, Fault \/ NoFault \/ UNCHANGED faults
    PROVE  Elsewhere
BY DEF Elsewhere, Fault, NoFault

LEMMA ElsewhereMoves ==
    ASSUME Inv, NEW c \in Clients, req[c].pc \notin {"locking", "unlocking"}, NEW pc \in Phase \ Places,
           NEW row \in Row \cup {NoRow},
           Goto(c, Moved(c, pc)) \/ Goto(c, [Moved(c, pc) EXCEPT !.row = row]),
           UNCHANGED <<failed, locked>>, Fault \/ NoFault \/ UNCHANGED faults
    PROVE  Elsewhere
<1>1. PICK m \in Request : m = Moved(c, pc) /\ m.pc = pc
  BY MovedType DEF Inv
<1>2. PICK r \in Request : r = [m EXCEPT !.row = row] /\ r.pc = pc
  <2>1. [m EXCEPT !.row = row] \in Request /\ [m EXCEPT !.row = row].pc = pc
    BY <1>1 DEF Request
  <2> QED BY <2>1
<1>3. PICK t \in Request : Goto(c, t) /\ t.pc = pc
  BY <1>1, <1>2
<1> QED BY <1>3, ElsewhereGoes

LEMMA ElsewhereInvalidates ==
    ASSUME Inv, NEW c \in Clients, req[c].pc \notin {"locking", "unlocking"}, NEW op \in Cause, NEW u \in Users,
           Invalidates(c, op, u), UNCHANGED <<failed, locked>>, Fault \/ NoFault \/ UNCHANGED faults
    PROVE  Elsewhere
<1>1. PICK r \in Request : r = [NoReq EXCEPT !.pc = "invalidate", !.op = op, !.user = u]
  BY NoReqType DEF Request, Phase
<1>2. Goto(c, r) /\ r.pc = "invalidate"
  BY <1>1, NoReqType DEF Invalidates, Request
<1> QED BY <1>1, <1>2, ElsewhereGoes DEF Places

LEMMA ElsewhereAdmitted ==
    ASSUME Inv, NEW c \in Clients, req[c].pc \notin {"locking", "unlocking"}, NEW row, NEW r \in Request,
           r.user \in Users, Goto(c, Admitted(row, r)), UNCHANGED <<failed, locked>>,
           Fault \/ NoFault \/ UNCHANGED faults
    PROVE  Elsewhere
<1>1. PICK a \in Request : a = [NoReq EXCEPT !.pc = "admitted", !.op = r.op, !.tok = r.tok, !.user = r.user]
  BY NoReqType DEF Request, Phase
<1>2. a.pc = "admitted"
  BY <1>1, NoReqType DEF Request
<1>3. Goto(c, NoReq) \/ Goto(c, a)
  BY <1>1 DEF Admitted
<1> QED BY <1>2, <1>3, NoReqType, ElsewhereGoes DEF Places

LEMMA BeginBudget ==
    ASSUME Inv, Budgets, NEW c \in Clients, Begin(c)
    PROVE  Budgets'
<1>1. CASE complete_setup_begin(c) \/ bootstrap_admin_begin(c)
  <2>1. {"setup", "bootstrap"} \subseteq Phase \ Places /\ NoRow \in Row \cup {NoRow} /\ {} \in SUBSET Nat
    BY DEF Phase, Places
  <2>2. /\ UNCHANGED <<failed, locked, faults>> /\ req[c].pc = "idle"
        /\ \E pc \in {"setup", "bootstrap"} : Goto(c, Moved(c, pc))
    BY <1>1 DEF complete_setup_begin, bootstrap_admin_begin, At
  <2>3. Elsewhere
    BY <2>1, <2>2, ElsewhereMoves
  <2> QED BY <2>3, ElsewhereBudget
<1>2. ASSUME NEW u \in Users, login(c, u) PROVE Budgets'
  BY <1>2, LoginBudget
<1>3. ASSUME NEW i \in Issued, refresh(c, i) PROVE Budgets'
  <2>1. sessions[i].user \in Users /\ i \in Nat
    BY RowOfToken, TokenNumber DEF Inv
  <2>2. PICK r \in Request : r = [NoReq EXCEPT !.pc = "rotating", !.tok = i, !.user = sessions[i].user]
    BY <2>1, NoReqType DEF Request, Phase
  <2>3. r.pc = "rotating"
    BY <2>2, NoReqType DEF Request
  <2>4. /\ UNCHANGED <<failed, locked, faults>> /\ req[c].pc = "idle"
        /\ Goto(c, r) \/ \E op \in Cause, u \in Users : Invalidates(c, op, u)
    BY <1>3, <2>1, <2>2 DEF refresh, replay, Cause, At
  <2>5. Elsewhere
    BY <2>3, <2>4, ElsewhereGoes, ElsewhereInvalidates DEF Places
  <2> QED BY <2>5, ElsewhereBudget
<1>4. ASSUME NEW i \in Issued, NEW op \in Path, request(c, i, op) PROVE Budgets'
  <2>1. sessions[i].user \in Users /\ i \in Nat
    BY RowOfToken, TokenNumber DEF Inv
  <2>2. PICK m \in Request : m = [NoReq EXCEPT !.op = op, !.tok = i, !.user = sessions[i].user] /\ m.user \in Users
    <3>1. [NoReq EXCEPT !.op = op, !.tok = i, !.user = sessions[i].user] \in Request
          /\ [NoReq EXCEPT !.op = op, !.tok = i, !.user = sessions[i].user].user \in Users
      BY <2>1, NoReqType DEF Request
    <3> QED BY <3>1
  <2>3. PICK r \in Request : r = [m EXCEPT !.pc = "fill"] /\ r.pc = "fill"
    <3>1. [m EXCEPT !.pc = "fill"] \in Request /\ [m EXCEPT !.pc = "fill"].pc = "fill"
      BY <2>2 DEF Request, Phase
    <3> QED BY <3>1
  <2>4. /\ UNCHANGED <<failed, locked>> /\ (Fault \/ NoFault) /\ req[c].pc = "idle"
        /\ Goto(c, r) \/ \E row : Goto(c, Admitted(row, m))
    BY <1>4, <2>2, <2>3 DEF request, At, NotBlacklisted
  <2>5. Elsewhere
    BY <2>2, <2>3, <2>4, ElsewhereGoes, ElsewhereAdmitted DEF Places
  <2> QED BY <2>5, ElsewhereBudget
<1> QED BY <1>1, <1>2, <1>3, <1>4 DEF Begin

\* The requests that have nothing to do with the lockout go on.
LEMMA ContinueElsewhere ==
    ASSUME Inv, NEW c \in Clients, Continue(c),
           ~(\/ authenticate(c) \/ record_failure(c) \/ record_failure_lock(c)
             \/ clear_failures(c) \/ clear_failures_flag(c))
    PROVE  Elsewhere
<1>1. CASE \/ \E u \in Users : complete_setup(c, u) \/ bootstrap_admin(c, u) \/ reactivate_user(c, u)
           \/ \E u \in Users, role \in Role : create_user(c, u, role)
           \/ login_commit(c) \/ refresh_commit(c)
           \/ blacklist_current(c) \/ refuse(c) \/ drop_cached_user(c)
  <2>1. /\ UNCHANGED <<failed, locked>> /\ (Fault \/ NoFault) /\ Goto(c, NoReq)
        /\ req[c].pc \notin {"locking", "unlocking"}
    BY <1>1 DEF complete_setup, bootstrap_admin, reactivate_user, create_user, login_commit, refresh_commit,
         blacklist_current, blacklist_jti, refuse, drop_cached_user, Administers, Serves, At, NoFault
  <2> QED BY <2>1, NoReqType, ElsewhereGoes DEF Places
<1>2. CASE change_password(c) \/ \E u \in Users : reset_password(c, u)
  <2>1. req[c].pc = "admitted" /\ UNCHANGED <<failed, locked, faults>>
    BY <1>2 DEF change_password, reset_password, Administers, Serves, At
  <2>2. \E op \in Cause, u \in Users : Invalidates(c, op, u)
    <3>1. PICK v \in Users : v = req[c].user
      BY <2>1, UserType DEF Inv
    <3>2. {"change", "reset"} \subseteq Cause
      BY DEF Cause
    <3>3. CASE change_password(c)
      BY <3>1, <3>2, <3>3 DEF change_password, password_changes
    <3>4. ASSUME NEW u \in Users, reset_password(c, u) PROVE \E op \in Cause : Invalidates(c, op, u)
      BY <3>2, <3>4 DEF reset_password
    <3> QED BY <1>2, <3>2, <3>3, <3>4
  <2> QED BY <2>1, <2>2, ElsewhereInvalidates
<1>3. CASE user_store(c)
  <2>1. PICK r \in Request : r = req[c] /\ r.user \in Users /\ r.pc = "store"
    BY <1>3, UserType, RequestType DEF user_store, At, Inv
  <2>2. UNCHANGED <<failed, locked>> /\ (Fault \/ NoFault) /\ \E row : Goto(c, Admitted(row, r))
    BY <1>3, <2>1 DEF user_store
  <2> QED BY <2>1, <2>2, ElsewhereAdmitted
<1>4. ASSUME NEW u \in Users, unlock_account(c, u) PROVE Elsewhere
  <2>1. PICK r \in Request : r = [NoReq EXCEPT !.pc = "clearing", !.op = "unlock", !.user = u]
    BY NoReqType DEF Request, Phase, Cause
  <2>2. Goto(c, r) /\ UNCHANGED <<failed, locked, faults>> /\ r.pc = "clearing" /\ req[c].pc = "admitted"
    BY <1>4, <2>1, NoReqType DEF unlock_account, Request, Administers, Serves, At
  <2> QED BY <2>1, <2>2, ElsewhereGoes DEF Places
<1>5. CASE refresh_check(c) \/ user_read(c) \/ logout(c)
  <2>1. UNCHANGED <<failed, locked, faults>> /\ req[c].pc \in {"rotating", "fill", "admitted"}
    BY <1>5 DEF refresh_check, user_read, logout, At, Serves
  <2>2. NoRow \in Row \cup {NoRow} /\ {"rotated", "store", "blacklist"} \subseteq Phase \ Places
    BY DEF Phase, Places
  <2>3. PICK row \in Row \cup {NoRow} : row = users[req[c].user]
    <3>1. req[c].user \in Users
      BY <2>1, UserType DEF Inv
    <3> QED BY <3>1 DEF Inv, Core, TypeMain
  <2>4. CASE logout(c)
    <3>1. Goto(c, Moved(c, "blacklist"))
      BY <2>4 DEF logout
    <3> QED BY <2>1, <2>2, <3>1, ElsewhereMoves
  <2>5. CASE refresh_check(c) \/ user_read(c)
    <3>1. Goto(c, NoReq) \/ \E pc \in {"rotated", "store"} : Goto(c, [Moved(c, pc) EXCEPT !.row = row])
      BY <2>3, <2>5 DEF refresh_check, user_read
    <3>2. CASE Goto(c, NoReq)
      BY <2>1, <3>2, NoReqType, ElsewhereGoes DEF Places
    <3>3. ASSUME NEW pc \in {"rotated", "store"}, Goto(c, [Moved(c, pc) EXCEPT !.row = row]) PROVE Elsewhere
      <4>1. PICK p \in Phase \ Places : p = pc
        BY <2>2
      <4>2. req[c].pc \notin {"locking", "unlocking"} /\ UNCHANGED <<failed, locked>> /\ UNCHANGED faults
        BY <2>1
      <4>3. Goto(c, [Moved(c, p) EXCEPT !.row = row])
        BY <3>3, <4>1
      <4> QED BY <2>2, <4>2, <4>3, ElsewhereMoves
    <3> QED BY <3>1, <3>2, <3>3
  <2> QED BY <1>5, <2>4, <2>5
<1>6. CASE LocksRow(c) \/ logout_all_commit(c)
  <2>1. UNCHANGED <<failed, locked, faults>> /\ req[c].pc \notin {"locking", "unlocking"}
    BY <1>6 DEF LocksRow, update_user, count_active_admins_for_update, flush, write_membership,
         logout_all_begin, logout_all_commit, Administers, Serves, At
  <2>2. PICK r \in Request : Goto(c, r) /\ r.pc \notin Places
    BY <1>6, LocksGoes, EndedTo DEF Inv, Places
  <2> QED BY <2>1, <2>2, ElsewhereGoes
<1> QED BY <1>1, <1>2, <1>3, <1>4, <1>5, <1>6 DEF Continue, LocksRow

LEMMA BudgetsNext == Inv /\ Budgets /\ [Next]_vars => Budgets'
<1> SUFFICES ASSUME Inv, Budgets, [Next]_vars PROVE Budgets'
  OBVIOUS
<1>1. CASE UNCHANGED vars
  BY <1>1 DEF vars, Budgets, Budget, Guessing, Locking, Unlocking
<1>2. ASSUME NEW c \in Clients, Begin(c) PROVE Budgets'
  BY <1>2, BeginBudget
<1>3. ASSUME NEW c \in Clients, crash(c) \/ deadlock_detected(c) PROVE Budgets'
  <2>1. CASE crash(c)
    <3>1. PICK r \in Request : r = req[c]
      BY RequestType DEF Inv
    <3> QED BY <2>1, <3>1, NoReqType, FaultStep DEF crash, RolledBack, Fault, Places
  <2>2. CASE deadlock_detected(c)
    <3>1. req[c].pc \notin {"locking", "unlocking"}
      BY <2>2 DEF deadlock_detected, WaitsFor, At, Serves
    <3>2. Elsewhere
      BY <2>2, <3>1, NoReqType, ElsewhereGoes DEF deadlock_detected, RolledBack, NoFault, Places
    <3> QED BY <3>2, ElsewhereBudget
  <2> QED BY <1>3, <2>1, <2>2
<1>4. ASSUME NEW c \in Clients, Continue(c) PROVE Budgets'
  <2>1. CASE \/ authenticate(c) \/ record_failure(c) \/ record_failure_lock(c)
             \/ clear_failures(c) \/ clear_failures_flag(c)
    BY <2>1, AuthBudget, CountBudget, LockBudget, ClearBudget, UnlockBudget
  <2>2. CASE ~(\/ authenticate(c) \/ record_failure(c) \/ record_failure_lock(c)
               \/ clear_failures(c) \/ clear_failures_flag(c))
    BY <1>4, <2>2, ContinueElsewhere, ElsewhereBudget
  <2> QED BY <2>1, <2>2
<1>5. CASE Expire
  <2>1. ASSUME NEW u \in Users, lockout_expires(u) PROVE Budgets'
    BY <2>1, ExpiryBudget
  <2>2. CASE (\E u \in Users : cache_expires(u)) \/ \E i \in Issued : _cleanup_refresh_tokens(i)
    <3>1. Elsewhere
      BY <2>2 DEF cache_expires, _cleanup_refresh_tokens, Elsewhere
    <3> QED BY <3>1, ElsewhereBudget
  <2> QED BY <1>5, <2>1, <2>2 DEF Expire
<1> QED BY <1>1, <1>2, <1>3, <1>4, <1>5 DEF Next

\* However many logins race with the lock, with each other and with the
\* successes that remove the lock, an account is never guessed at more often
\* than the limit, one round of the requests in flight for each removal that is
\* under way and one round for each lost command (record_failure, is_locked,
\* clear_failures).
THEOREM GuessesBounded == Spec => []LockoutBoundsGuesses
<1>1. Init => Budgets
  BY DEF Init, Budgets, Budget, Within
<1>2. ASSUME Inv, Budgets PROVE LockoutBoundsGuesses
  <2> SUFFICES ASSUME NEW u \in Users
               PROVE  failed[u] <= MaxFailed - 1 + (Cardinality(Clients) * (Cardinality(Clients) + 1)) \div 2
                                   + Cardinality(Clients) * faults
    BY DEF LockoutBoundsGuesses
  <2>1. Numbers(Cardinality(Clients), failed[u], locked[u], Cardinality(Guessing(u)),
                Cardinality(Locking(u)), Cardinality(Unlocking(u)), faults)
    BY <1>2, InNumbers DEF Budgets
  <2>2. \A n, f, l, g, w, k, q : Numbers(n, f, l, g, w, k, q) =>
            f <= MaxFailed - 1 + (n * (n + 1)) \div 2 + n * q
    BY CountBounded
  <2> QED BY <2>1, <2>2, Zenon
<1> QED BY <1>1, <1>2, InvAlways, BudgetsNext, PTL DEF Spec
-----------------------------------------------------------------------------
(* The order in which transactions lock rows *)

\* A request holds rows of one account only, and at the statements that follow
\* their locking; what an update has read is held by nobody but an update.
LockFits(r) ==
    /\ "user" \in r.holds => r.pc \in {"membership", "invalidate", "revoking"}
    /\ "membership" \in r.holds => r.pc \in LockPhase /\ r.op = "update"
    /\ r.pc \in {"guarding", "flushing", "membership"} => r.op = "update"
LocksFit == \A c \in Clients : LockFits(req[c])

\* A row is locked by one request at a time.
HeldOnce ==
    \A c, d \in Clients, u \in Users :
        (HoldsUser(c, u) /\ HoldsUser(d, u)) \/ (HoldsMembership(c, u) /\ HoldsMembership(d, u)) => c = d
RowLocks == LocksFit /\ HeldOnce

LEMMA LockGained ==
    ASSUME Inv, RowLocks, NEW c \in Clients, NEW r \in Request, Goto(c, r), LockFits(r),
           \A kind \in r.holds :
               \/ kind \in req[c].holds /\ r.user = req[c].user
               \/ kind = "user" /\ UserFree(c, r.user)
               \/ kind = "membership" /\ MembershipFree(c, r.user)
    PROVE  RowLocks'
<1>1. req'[c] = r /\ \A d \in Clients \ {c} : req'[d] = req[d]
  BY DEF Goto, Inv, Core, TypeMain
<1>2. LocksFit'
  BY <1>1 DEF RowLocks, LocksFit
<1>3. \A d \in Clients \ {c}, u \in Users : /\ ~(HoldsUser(c, u)' /\ HoldsUser(d, u)')
                                           /\ ~(HoldsMembership(c, u)' /\ HoldsMembership(d, u)')
  BY <1>1 DEF RowLocks, HeldOnce, HoldsUser, HoldsMembership, UserFree, MembershipFree
<1>4. \A d, e \in Clients \ {c}, u \in Users :
        /\ HoldsUser(d, u)' /\ HoldsUser(e, u)' => d = e
        /\ HoldsMembership(d, u)' /\ HoldsMembership(e, u)' => d = e
  BY <1>1 DEF RowLocks, HeldOnce, HoldsUser, HoldsMembership
<1>5. HeldOnce'
  BY <1>3, <1>4 DEF HeldOnce
<1> QED BY <1>2, <1>5 DEF RowLocks

LEMMA LocksNext == Inv /\ RowLocks /\ [Next]_vars => RowLocks'
<1> SUFFICES ASSUME Inv, RowLocks, [Next]_vars PROVE RowLocks'
  OBVIOUS
<1>1. CASE UNCHANGED vars
  BY <1>1 DEF vars, RowLocks, LocksFit, HeldOnce, HoldsUser, HoldsMembership
<1>2. ASSUME NEW c \in Clients, SetsUp(c) PROVE RowLocks'
  <2>1. CASE complete_setup_begin(c)
    <3>1. PICK r \in Request : r = Moved(c, "setup") /\ r.pc = "setup" /\ r.holds = req[c].holds
      BY MovedType DEF Inv, Phase
    <3>2. Goto(c, r) /\ req[c].pc = "idle"
      BY <2>1, <3>1 DEF complete_setup_begin, At
    <3>3. r.holds = {}
      BY <3>1, <3>2, RequestType DEF RowLocks, LocksFit, LockFits, LockPhase, Inv
    <3> QED BY <3>1, <3>2, <3>3, LockGained DEF LockFits
  <2>2. ASSUME NEW u \in Users, complete_setup(c, u) PROVE RowLocks'
    BY <2>2, NoReqType, LockGained DEF complete_setup, LockFits
  <2> QED BY <1>2, <2>1, <2>2 DEF SetsUp
<1>3. ASSUME NEW c \in Clients, LocksRow(c) PROVE RowLocks'
  <2> USE DEF At
  <2>1. ASSUME NEW u \in Users, NEW b \in PatchBody, update_user(c, u, b) PROVE RowLocks'
    <3>1. PICK r \in Request : Goto(c, r) /\ r.op = "update" /\ r.holds = {}
      BY <2>1, PatchStarts
    <3> QED BY <3>1, LockGained DEF LockFits
  <2>2. CASE count_active_admins_for_update(c)
    <3>1. /\ req[c].pc = "guarding" /\ req[c].op = "update" /\ req[c].holds = {}
          /\ MembershipFree(c, req[c].user)
      BY <2>2, RequestType DEF count_active_admins_for_update, RowLocks, LocksFit, LockFits, LockPhase, Inv
    <3>2. PICK pc \in {"flushing", "membership", "invalidate"} : pc = FirstWrite(req[c].writes)
      BY FirstPhase
    <3>3. PICK r \in Request : /\ r = Locked(c, "membership", pc) /\ r.pc = pc /\ r.op = req[c].op
                              /\ r.user = req[c].user /\ r.holds = req[c].holds \cup {"membership"}
      BY LockedType DEF Inv, Phase
    <3>4. CASE Goto(c, NoReq)
      BY <3>4, NoReqType, LockGained DEF LockFits
    <3>5. CASE Goto(c, r)
      BY <3>1, <3>3, <3>5, LockGained DEF LockFits, LockPhase
    <3> QED BY <2>2, <3>2, <3>3, <3>4, <3>5 DEF count_active_admins_for_update
  <2>3. CASE flush(c)
    <3>1. req[c].pc = "flushing" /\ req[c].op = "update" /\ UserFree(c, req[c].user)
      BY <2>3 DEF flush, RowLocks, LocksFit, LockFits
    <3>2. PICK r \in Request : /\ Goto(c, r) /\ r.pc = "membership" /\ r.op = req[c].op
                              /\ r.user = req[c].user /\ r.holds = req[c].holds \cup {"user"}
      BY <2>3, LockedType DEF flush, Inv, Phase
    <3> QED BY <3>1, <3>2, LockGained DEF LockFits, LockPhase
  <2>4. CASE write_membership(c)
    <3>1. req[c].pc = "membership" /\ req[c].op = "update" /\ MembershipFree(c, req[c].user)
      BY <2>4 DEF write_membership, RowLocks, LocksFit, LockFits
    <3>2. PICK r \in Request : /\ Goto(c, r) /\ r.pc = "invalidate" /\ r.op = req[c].op
                              /\ r.user = req[c].user /\ r.holds = req[c].holds \cup {"membership"}
      BY <2>4, LockedType DEF write_membership, Inv, Phase
    <3> QED BY <3>1, <3>2, LockGained DEF LockFits, LockPhase
  <2>5. CASE logout_all_begin(c)
    <3>1. req[c].pc = "invalidate" /\ UserFree(c, req[c].user) /\ LockFits(req[c])
      BY <2>5 DEF logout_all_begin, RowLocks, LocksFit
    <3>2. PICK r \in Request : /\ Goto(c, r) /\ r.pc = "revoking" /\ r.user = req[c].user
                              /\ r.op = req[c].op /\ r.holds = req[c].holds \cup {"user"}
      BY <2>5, BegunTo DEF Inv
    <3> QED BY <3>1, <3>2, LockGained DEF LockFits, LockPhase
  <2> QED BY <1>3, <2>1, <2>2, <2>3, <2>4, <2>5 DEF LocksRow
<1>4. CASE Next /\ ~\E c \in Clients : SetsUp(c) \/ LocksRow(c)
  <2>1. Quiet
    BY <1>4, OthersQuiet
  <2>2. ASSUME NEW d \in Clients, req'[d] # req[d] PROVE req'[d].holds = {} /\ LockFits(req'[d])
    <3>1. /\ req'[d].pc \in QuietPhase
          /\ req'[d].holds = {} \/ (req'[d].holds = req[d].holds /\ req[d].pc \notin LockPhase)
      BY <2>1, <2>2 DEF Quiet
    <3>2. req'[d].holds = {}
      BY <3>1, RequestType DEF Inv, RowLocks, LocksFit, LockFits, LockPhase
    <3> QED BY <3>1, <3>2 DEF LockFits, QuietPhase
  <2>3. LocksFit'
    BY <2>2 DEF RowLocks, LocksFit
  <2>4. HeldOnce'
    BY <2>2 DEF RowLocks, HeldOnce, HoldsUser, HoldsMembership
  <2> QED BY <2>3, <2>4 DEF RowLocks
<1> QED BY <1>1, <1>2, <1>3, <1>4

\* Who has a refresh token locked waits for nobody, and an invalidation that has
\* the user row waits for such requests only.
LEMMA WaitsAtEnd ==
    ASSUME NEW c, NEW d, WaitsFor(c, d), req[c].pc \in {"rotating", "rotated", "revoking"}
    PROVE  req[c].pc = "revoking" /\ req[d].pc \in {"rotating", "rotated"}
BY DEF WaitsFor, HoldsToken, UserRead, Serves, At

\* Who waits, waits for a token, for the user row or for the membership row.
LEMMA WaitsForRow ==
    ASSUME NEW c, NEW d, WaitsFor(c, d)
    PROVE  \/ req[d].pc \in {"rotating", "rotated"}
           \/ \E u \in Users \cup {req[c].user} : HoldsUser(d, u) \/ HoldsMembership(d, u)
BY DEF WaitsFor, HoldsToken, UserRead, Serves, At

\* Requests that wait for each other in a circle hold rows of one account: one
\* of them has its user row and wants its membership row, another the reverse.
LEMMA CircleCrosses ==
    ASSUME Inv, RowLocks, NEW S \in SUBSET Clients, S # {}, \A c \in S : \E d \in S : WaitsFor(c, d)
    PROVE  \E c, d \in S : Crossed(c, d)
<1>1. \A c \in S : req[c].pc \notin {"rotating", "rotated", "revoking"}
  BY WaitsAtEnd
<1>2. ASSUME NEW c \in S, "user" \in req[c].holds PROVE \E e, d \in S : Crossed(e, d)
  <2>1. req[c].pc \in {"membership", "invalidate"} /\ req[c].user \in Users /\ HoldsUser(c, req[c].user)
    BY <1>1, <1>2, UserType DEF RowLocks, LocksFit, LockFits, HoldsUser, Inv
  <2>2. PICK d \in S : WaitsFor(c, d)
    OBVIOUS
  <2>3. CASE req[c].pc = "invalidate"
    <3>1. HoldsUser(d, req[c].user) /\ d # c
      BY <2>2, <2>3 DEF WaitsFor, At, Serves
    <3> QED BY <2>1, <3>1 DEF RowLocks, HeldOnce
  <2>4. CASE req[c].pc = "membership"
    <3>1. HoldsMembership(d, req[c].user) /\ d # c
      BY <2>2, <2>4 DEF WaitsFor, At, Serves
    <3>2. req[d].pc \in {"flushing", "membership", "invalidate"} /\ req[d].op = "update"
      BY <1>1, <3>1 DEF RowLocks, LocksFit, LockFits, LockPhase, HoldsMembership
    <3>3. CASE req[d].pc = "membership"
      <4>1. PICK e \in S : WaitsFor(d, e)
        OBVIOUS
      <4>2. HoldsMembership(e, req[c].user) /\ e # d
        BY <3>1, <3>3, <4>1 DEF WaitsFor, At, Serves, HoldsMembership
      <4> QED BY <2>1, <3>1, <4>2 DEF RowLocks, HeldOnce
    <3>4. CASE req[d].pc \in {"flushing", "invalidate"}
      <4>1. req[c].op = "update"
        BY <2>4 DEF RowLocks, LocksFit, LockFits
      <4>2. Crossed(c, d)
        BY <2>1, <2>4, <3>1, <3>2, <3>4, <4>1 DEF Crossed, At
      <4> QED BY <4>2
    <3> QED BY <3>2, <3>3, <3>4
  <2> QED BY <2>1, <2>3, <2>4
<1>3. ASSUME NEW c \in S, "membership" \in req[c].holds PROVE \E e \in S : "user" \in req[e].holds
  <2>1. req[c].pc \in {"flushing", "membership", "invalidate"} /\ req[c].user \in Users
        /\ HoldsMembership(c, req[c].user)
    BY <1>1, <1>3, UserType DEF RowLocks, LocksFit, LockFits, LockPhase, HoldsMembership, Inv
  <2>2. PICK d \in S : WaitsFor(c, d)
    OBVIOUS
  <2>3. CASE req[c].pc = "membership"
    <3>1. HoldsMembership(d, req[c].user) /\ d # c
      BY <2>2, <2>3 DEF WaitsFor, At, Serves
    <3> QED BY <2>1, <3>1 DEF RowLocks, HeldOnce
  <2>4. CASE req[c].pc \in {"flushing", "invalidate"}
    BY <2>2, <2>4 DEF WaitsFor, At, Serves, HoldsUser
  <2> QED BY <2>1, <2>3, <2>4
<1>4. \E c \in S : "user" \in req[c].holds \/ "membership" \in req[c].holds
  <2>1. PICK c \in S, d \in S : WaitsFor(c, d)
    OBVIOUS
  <2> QED BY <1>1, <2>1, WaitsForRow DEF HoldsUser, HoldsMembership
<1> QED BY <1>2, <1>3, <1>4

\* Logins, refreshes, logouts, invalidations and administration lock user,
\* membership and refresh token rows in an order that admits one deadlock only:
\* a PATCH that writes the state and the role of an account has the user row
\* (repo.flush) and another PATCH of it the membership row.
THEOREM OneDeadlock == Spec => []OnlyUpdatesCross
<1>1. Init => RowLocks
  BY NoReqType DEF Init, RowLocks, LocksFit, LockFits, HeldOnce, HoldsUser, HoldsMembership
<1>2. Inv /\ RowLocks => OnlyUpdatesCross
  BY CircleCrosses DEF OnlyUpdatesCross
<1> QED BY <1>1, <1>2, InvAlways, LocksNext, PTL DEF Spec
=============================================================================
