---------------------------- MODULE KycGateProofs ----------------------------
(***************************************************************************)
(* The KYC gate, for any number of accounts, requests and calls: every     *)
(* role the service shows or signs was there from the start or was granted *)
(* in the audit trail, and access tokens are earned.  The inductive        *)
(* invariant is ProvenanceInv (Identity); role_history only grows, so a    *)
(* role that has a basis keeps it.  From it follows who may sign.          *)
(***************************************************************************)
EXTENDS IdentityProofs

\* The parts of ProvenanceInv.
RowsOK ==
  \A u \in Users : RoleBasis(u, rows[u].role) /\ (~Registered(u) => rows[u].role = "user")
CacheOK == \A u \in Users : CacheHit(u) => RoleBasis(u, cache[u].role)
StreamOK == \A i \in DOMAIN stream : RoleBasis(stream[i].user, stream[i].role)

LogGrows == roleLog' = roleLog \/ \E e \in RoleChange : roleLog' = Append(roleLog, e)

LEMMA BasisGrows ==
  ASSUME TypeOK, LogGrows, NEW u, NEW role, RoleBasis(u, role)
  PROVE  RoleBasis(u, role)'
<1>1. \A i \in DOMAIN roleLog : i \in DOMAIN roleLog' /\ roleLog'[i] = roleLog[i]
  <2>1. ASSUME NEW e \in RoleChange, roleLog' = Append(roleLog, e)
        PROVE  \A i \in DOMAIN roleLog : i \in DOMAIN roleLog' /\ roleLog'[i] = roleLog[i]
    BY <2>1, AppendProperties DEF TypeOK
  <2> QED
    BY <2>1 DEF LogGrows
<1> QED
  BY <1>1 DEF RoleBasis, Grants

LEMMA RowsKept ==
  ASSUME ProvenanceInv, LogGrows, UNCHANGED rows
  PROVE  RowsOK'
BY BasisGrows DEF ProvenanceInv, RolesAreGranted, RowsOK, Registered

LEMMA CacheKept ==
  ASSUME ProvenanceInv, LogGrows, UNCHANGED cache
  PROVE  CacheOK'
BY BasisGrows DEF ProvenanceInv, RolesAreGranted, CacheOK, CacheHit

LEMMA StreamKept ==
  ASSUME ProvenanceInv, LogGrows, UNCHANGED stream
  PROVE  StreamOK'
BY BasisGrows DEF ProvenanceInv, RolesAreGranted, StreamOK

LEMMA AccessKept ==
  ASSUME ProvenanceInv, LogGrows, UNCHANGED access
  PROVE  AccessTokensAreEarned'
BY BasisGrows DEF ProvenanceInv, AccessTokensAreEarned

\* A step of one request: what it writes and what it carries afterwards have a basis.
LEMMA ProvenanceStep ==
  ASSUME ProvenanceInv, TypeOK', LogGrows, NEW r \in Requests,
         req' = [req EXCEPT ![r] = req'[r]],
         \A u \in Users : Registered(u) => Registered(u)',
         RowsOK', CacheOK', StreamOK', AccessTokensAreEarned',
         CarriedRoleIsGranted(req[r])'
  PROVE  ProvenanceInv'
<1>1. ASSUME NEW q \in Requests PROVE CarriedRoleIsGranted(req[q])'
  <2>1. CASE q = r
    BY <2>1
  <2>2. CASE q # r
    <3>1. req'[q] = req[q] /\ CarriedRoleIsGranted(req[q])
      BY <2>2 DEF ProvenanceInv, TypeOK
    <3>2. req[q].pc # "idle" => req[q].call.user \in Users
      BY CallType DEF ProvenanceInv
    <3>3. TypeOK
      BY DEF ProvenanceInv
    <3>4. ASSUME CarriesRole(req[q])
          PROVE  Registered(req[q].call.user)' /\ RoleBasis(req[q].call.user, req[q].mem.role)'
      <4>1. req[q].call.user \in Users
        BY <3>2, <3>4 DEF CarriesRole
      <4>2. Registered(req[q].call.user) /\ RoleBasis(req[q].call.user, req[q].mem.role)
        BY <3>1, <3>4 DEF CarriedRoleIsGranted
      <4>3. \A u \in Users, role \in {req[q].mem.role} : RoleBasis(u, role) => RoleBasis(u, role)'
        BY <3>3, BasisGrows
      <4> QED
        BY <3>1, <4>1, <4>2, <4>3 DEF Registered, RoleBasis, Grants
    <3> QED
      BY <3>1, <3>4 DEF CarriedRoleIsGranted, CarriesRole
  <2> QED
    BY <2>1, <2>2
<1> QED
  BY <1>1 DEF ProvenanceInv, RolesAreGranted, RowsOK, CacheOK, StreamOK

-----------------------------------------------------------------------------
(* Steps that write no role.                                               *)

\* A request moves on: only what it carries is at stake.
LEMMA MoveProvenance ==
  ASSUME ProvenanceInv, TypeOK', NEW r \in Requests,
         UNCHANGED <<rows, roleLog, redis, access>>,
         req' = [req EXCEPT ![r] = req'[r]],
         CarriedRoleIsGranted(req[r])'
  PROVE  ProvenanceInv'
<1>1. LogGrows
  BY DEF LogGrows
<1>2. \A u \in Users : Registered(u) => Registered(u)'
  BY DEF Registered
<1> QED
  BY <1>1, <1>2, RowsKept, CacheKept, StreamKept, AccessKept, ProvenanceStep DEF redis

\* A request ends.
LEMMA FinishProvenance ==
  ASSUME ProvenanceInv, NEW r \in Requests, Finish(r)
  PROVE  /\ req' = [req EXCEPT ![r] = req'[r]]
         /\ CarriedRoleIsGranted(req[r])'
<1>1. req'[r] = Idle /\ req' = [req EXCEPT ![r] = req'[r]]
  BY FinishType DEF ProvenanceInv
<1>2. CarriedRoleIsGranted(req[r])'
  BY <1>1 DEF CarriedRoleIsGranted, CarriesRole, Idle
<1> QED
  BY <1>1, <1>2

LEMMA EndProvenance ==
  ASSUME ProvenanceInv, TypeOK', NEW r \in Requests, Finish(r),
         UNCHANGED <<rows, roleLog, redis, access>>
  PROVE  ProvenanceInv'
BY FinishProvenance, MoveProvenance

\* A row that was read and is registered gives the request a role that has a basis.
LEMMA ReadProvenance ==
  ASSUME ProvenanceInv, TypeOK', NEW r \in Requests, req[r].pc # "idle",
         UNCHANGED <<rows, roleLog, redis, access>>,
         NEW u, u = req[r].call.user, Registered(u),
         NEW q \in RequestState, req' = [req EXCEPT ![r] = q],
         q.call = req[r].call, q.mem = rows[u],
         q.pc = "loaded" /\ q.call.op = "VerifyOtp" => q.mem.status # "suspended",
         q.pc = "loaded" /\ q.call.op = "Refresh" => q.mem.status \in SessionAllowedStatuses,
         q.pc \in {"loaded", "rowRead"}
  PROVE  ProvenanceInv'
<1>1. u \in Users
  BY CallType DEF ProvenanceInv
<1>2. req'[r] = q /\ req' = [req EXCEPT ![r] = req'[r]]
  BY DEF ProvenanceInv, TypeOK
<1>3. RoleBasis(u, rows[u].role)
  BY <1>1 DEF ProvenanceInv, RolesAreGranted
<1>4. CarriedRoleIsGranted(req[r])'
  BY <1>2, <1>3 DEF CarriedRoleIsGranted, CarriesRole, Registered, RoleBasis, Grants
<1> QED
  BY <1>2, <1>4, MoveProvenance

\* A request whose point says nothing of a role it carries.
LEMMA WaitProvenance ==
  ASSUME ProvenanceInv, TypeOK', NEW r \in Requests,
         UNCHANGED <<rows, roleLog, redis, access>>,
         NEW q \in RequestState, req' = [req EXCEPT ![r] = q],
         \/ q.pc \in {"admitted", "otpFound", "otpConsumed", "tokenFound", "replayed",
                      "cacheMissed"}
         \/ q.pc = "loaded" /\ q.call.op = "Register"
  PROVE  ProvenanceInv'
<1>1. req'[r] = q /\ req' = [req EXCEPT ![r] = req'[r]]
  BY DEF ProvenanceInv, TypeOK
<1>2. CarriedRoleIsGranted(req[r])'
  BY <1>1 DEF CarriedRoleIsGranted, CarriesRole
<1> QED
  BY <1>1, <1>2, MoveProvenance

LEMMA LoadAccountProvenance ==
  ASSUME ProvenanceInv, TypeOK', NEW r \in Requests, LoadAccount(r) PROVE ProvenanceInv'
<1> DEFINE c == req[r].call
           q == [req[r] EXCEPT !.pc = "loaded", !.mem = rows[c.user], !.base = rows[c.user]]
<1>1. CASE HasWork(c, rows[c.user])
  <2>1. req[r] \in RequestState /\ rows[c.user] \in User
    BY CallType DEF LoadAccount, ProvenanceInv
  <2>2. q \in RequestState
    BY <2>1 DEF RequestState, ProgramPoint
  <2>3. q.pc = "loaded" /\ q.call = c /\ q.mem = rows[c.user] /\ c.op \in AccountOp
    BY <2>1 DEF RequestState, LoadAccount
  <2>4. req' = [req EXCEPT ![r] = q]
    BY <1>1, <2>1 DEF LoadAccount, ProvenanceInv, TypeOK
  <2>5. Registered(c.user) /\ req[r].pc # "idle" /\ UNCHANGED <<rows, roleLog, redis, access>>
    BY <1>1 DEF LoadAccount, HasWork, Registered, db
  <2> QED
    BY <2>2, <2>3, <2>4, <2>5, ReadProvenance DEF AccountOp
<1>2. CASE ~HasWork(c, rows[c.user])
  BY <1>2, EndProvenance DEF LoadAccount, db
<1> QED
  BY <1>1, <1>2

LEMMA LoadVerifiedAccountProvenance ==
  ASSUME ProvenanceInv, TypeOK', NEW r \in Requests, LoadVerifiedAccount(r)
  PROVE  ProvenanceInv'
<1> DEFINE user == rows[req[r].call.user]
           q == [req[r] EXCEPT !.pc = "loaded", !.mem = user, !.base = user]
<1>1. CASE ~RejectedAtLogin(user)
  <2>1. req[r] \in RequestState /\ user \in User
    BY CallType DEF LoadVerifiedAccount, ProvenanceInv
  <2>2. q \in RequestState
    BY <2>1 DEF RequestState, ProgramPoint
  <2>3. q.pc = "loaded" /\ q.call = req[r].call /\ q.mem = user
    BY <2>1 DEF RequestState
  <2>4. req[r].call.op = "VerifyOtp" /\ user.status # "suspended"
    BY <1>1 DEF LoadVerifiedAccount, ProvenanceInv, TypeOK, RequestOK, RejectedAtLogin
  <2>5. req' = [req EXCEPT ![r] = q]
    BY <1>1, <2>1 DEF LoadVerifiedAccount, ProvenanceInv, TypeOK
  <2>6. /\ Registered(req[r].call.user) /\ req[r].pc # "idle"
        /\ UNCHANGED <<rows, roleLog, redis, access>>
    BY <1>1 DEF LoadVerifiedAccount, RejectedAtLogin, Registered, db
  <2> QED
    BY <2>2, <2>3, <2>4, <2>5, <2>6, ReadProvenance
<1>2. CASE RejectedAtLogin(user)
  BY <1>2, EndProvenance DEF LoadVerifiedAccount, db
<1> QED
  BY <1>1, <1>2

LEMMA LoadSessionOwnerProvenance ==
  ASSUME ProvenanceInv, TypeOK', NEW r \in Requests, LoadSessionOwner(r)
  PROVE  ProvenanceInv'
<1> DEFINE user == rows[req[r].call.user]
           q == [req[r] EXCEPT !.pc = "loaded", !.mem = user]
<1>1. CASE user.status \in SessionAllowedStatuses
  <2>1. req[r] \in RequestState /\ user \in User
    BY CallType DEF LoadSessionOwner, ProvenanceInv
  <2>2. q \in RequestState
    BY <2>1 DEF RequestState, ProgramPoint
  <2>3. q.pc = "loaded" /\ q.call = req[r].call /\ q.mem = user /\ q.call.op = "Refresh"
    BY <2>1 DEF RequestState, LoadSessionOwner
  <2>4. req' = [req EXCEPT ![r] = q]
    BY <1>1, <2>1 DEF LoadSessionOwner, ProvenanceInv, TypeOK
  <2>5. /\ Registered(req[r].call.user) /\ req[r].pc # "idle"
        /\ UNCHANGED <<rows, roleLog, redis, access>>
    BY <1>1 DEF LoadSessionOwner, SessionAllowedStatuses, Registered, Unregistered, db
  <2> QED
    BY <1>1, <2>2, <2>3, <2>4, <2>5, ReadProvenance
<1>2. CASE user.status \notin SessionAllowedStatuses
  BY <1>2, EndProvenance DEF LoadSessionOwner, db
<1> QED
  BY <1>1, <1>2

LEMMA ReadRowProvenance ==
  ASSUME ProvenanceInv, TypeOK', NEW r \in Requests, ReadRow(r) PROVE ProvenanceInv'
<1> DEFINE u == req[r].call.user
           q == [req[r] EXCEPT !.pc = "rowRead", !.mem = rows[u]]
<1>1. CASE Registered(u)
  <2>1. req[r] \in RequestState /\ rows[u] \in User
    BY CallType DEF ReadRow, ProvenanceInv
  <2>2. q \in RequestState
    BY <2>1 DEF RequestState, ProgramPoint
  <2>3. q.pc = "rowRead" /\ q.call = req[r].call /\ q.mem = rows[u]
    BY <2>1 DEF RequestState
  <2>4. req' = [req EXCEPT ![r] = q]
    BY <1>1, <2>1 DEF ReadRow, ProvenanceInv, TypeOK
  <2>5. req[r].pc # "idle" /\ UNCHANGED <<rows, roleLog, redis, access>>
    BY DEF ReadRow, db
  <2> QED
    BY <1>1, <2>2, <2>3, <2>4, <2>5, ReadProvenance
<1>2. CASE ~Registered(u)
  BY <1>2, EndProvenance DEF ReadRow, db
<1> QED
  BY <1>1, <1>2

\* The steps that only advance a request to a point where it carries no role yet.
LEMMA WaitingSteps ==
  ASSUME ProvenanceInv, TypeOK', NEW r \in Requests,
         LookUpPhone(r) \/ FindOtp(r) \/ ConsumeOtp(r) \/ FindToken(r) \/ ReadCache(r)
  PROVE  ProvenanceInv'
<1> DEFINE Waits(q) == \/ q.pc \in {"admitted", "otpFound", "otpConsumed", "tokenFound",
                                    "replayed", "cacheMissed"}
                       \/ q.pc = "loaded" /\ q.call.op = "Register"
<1>1. UNCHANGED <<rows, roleLog, redis, access>>
  BY DEF LookUpPhone, FindOtp, ConsumeOtp, FindToken, ReadCache, db
<1>2. req[r] \in RequestState /\ req'[r] \in RequestState
  BY DEF ProvenanceInv, TypeOK
<1>3. Finish(r) \/ (req' = [req EXCEPT ![r] = req'[r]] /\ Waits(req'[r]))
  <2>1. req \in [Requests -> RequestState]
    BY DEF ProvenanceInv, TypeOK
  <2>2. CASE LookUpPhone(r)
    BY <1>2, <2>1, <2>2 DEF LookUpPhone, RequestState
  <2>3. CASE FindOtp(r)
    BY <1>2, <2>1, <2>3 DEF FindOtp, RequestState
  <2>4. CASE ConsumeOtp(r)
    BY <1>2, <2>1, <2>4 DEF ConsumeOtp, RequestState
  <2>5. CASE FindToken(r)
    BY <1>2, <2>1, <2>5 DEF FindToken, RequestState
  <2>6. CASE ReadCache(r)
    BY <1>2, <2>1, <2>6 DEF ReadCache, RequestState
  <2> QED
    BY <2>2, <2>3, <2>4, <2>5, <2>6
<1>4. CASE Finish(r)
  BY <1>1, <1>4, EndProvenance
<1>5. CASE req' = [req EXCEPT ![r] = req'[r]] /\ Waits(req'[r])
  BY <1>1, <1>2, <1>5, WaitProvenance
<1> QED
  BY <1>3, <1>4, <1>5

LEMMA OtherQuietSteps ==
  ASSUME ProvenanceInv, TypeOK', NEW r \in Requests,
         CountWrongCode(r) \/ CloseAllSessions(r) \/ CloseSession(r) \/ Crash(r)
  PROVE  ProvenanceInv'
<1>1. UNCHANGED <<rows, roleLog, redis, access>> /\ Finish(r)
  BY DEF CountWrongCode, CloseAllSessions, CloseSession, Crash, db
<1> QED
  BY <1>1, EndProvenance

LEMMA BeginProvenance ==
  ASSUME ProvenanceInv, TypeOK', NEW r \in Requests, NEW c \in Calls, Begin(r, c)
  PROVE  ProvenanceInv'
<1> DEFINE q == [Idle EXCEPT !.pc = "admitted", !.call = c]
<1>1. q \in RequestState /\ q.pc = "admitted"
  BY IdleType DEF RequestState, ProgramPoint, Idle
<1>2. req' = [req EXCEPT ![r] = q] /\ UNCHANGED <<rows, roleLog, redis, access>>
  BY DEF Begin, db
<1> QED
  BY <1>1, <1>2, WaitProvenance

LEMMA RereadProvenance ==
  ASSUME ProvenanceInv, TypeOK', NEW r \in Requests, Reread(r) PROVE ProvenanceInv'
<1>1. /\ req[r] \in RequestState /\ CarriedRoleIsGranted(req[r])
      /\ UNCHANGED <<rows, roleLog, redis, access>>
  BY DEF Reread, ProvenanceInv, TypeOK, db
<1>2. /\ req' = [req EXCEPT ![r] = req'[r]]
      /\ req'[r].pc = req[r].pc /\ req'[r].call = req[r].call /\ req'[r].mem = req[r].mem
  BY <1>1 DEF Reread, ProvenanceInv, TypeOK, RequestState
<1>3. CarriedRoleIsGranted(req[r])'
  BY <1>1, <1>2 DEF CarriedRoleIsGranted, CarriesRole, Registered, RoleBasis, Grants
<1> QED
  BY <1>1, <1>2, <1>3, MoveProvenance

-----------------------------------------------------------------------------
(* The cache, the stream and the access tokens.                            *)

LEMMA RolesStay ==
  ASSUME ProvenanceInv, UNCHANGED <<rows, roleLog>>
  PROVE  /\ LogGrows
         /\ \A u \in Users : Registered(u) => Registered(u)'
BY DEF LogGrows, Registered

LEMMA InvalidateProvenance ==
  ASSUME ProvenanceInv, TypeOK', NEW r \in Requests, Invalidate(r) PROVE ProvenanceInv'
<1>1. /\ req[r] \in RequestState /\ CarriedRoleIsGranted(req[r])
      /\ UNCHANGED <<rows, roleLog, stream, access>> /\ TypeOK
  BY DEF Invalidate, ProvenanceInv, TypeOK, db
<1>2. /\ req' = [req EXCEPT ![r] = req'[r]]
      /\ req'[r].pc = "invalidated" /\ req'[r].call = req[r].call /\ req'[r].mem = req[r].mem
  BY <1>1 DEF Invalidate, TypeOK, RequestState
<1>3. CarriedRoleIsGranted(req[r])'
  BY <1>1, <1>2 DEF CarriedRoleIsGranted, CarriesRole, Registered, RoleBasis, Grants, Invalidate
<1>4. \A u \in Users : cache'[u] = cache[u] \/ cache'[u] = NoUser
  BY <1>1 DEF Invalidate, TypeOK
<1>5. CacheOK'
  BY <1>1, <1>4 DEF CacheOK, CacheHit, RoleBasis, Grants, ProvenanceInv, RolesAreGranted
<1> QED
  BY <1>1, <1>2, <1>3, <1>5, RolesStay, RowsKept, StreamKept, AccessKept, ProvenanceStep

LEMMA FillCacheProvenance ==
  ASSUME ProvenanceInv, TypeOK', NEW r \in Requests, FillCache(r) PROVE ProvenanceInv'
<1> DEFINE u == req[r].call.user
<1>1. /\ TypeOK /\ u \in Users /\ req[r].mem \in User
      /\ RoleBasis(u, req[r].mem.role)
      /\ UNCHANGED <<rows, roleLog, stream, access>> /\ Finish(r)
  BY CallType DEF FillCache, ProvenanceInv, CarriedRoleIsGranted, CarriesRole, db
<1>2. CacheEntry(req[r].mem).role = req[r].mem.role
  BY <1>1 DEF CacheEntry, User
<1>3. \A v \in Users : cache'[v] = cache[v] \/ (v = u /\ cache'[v] = CacheEntry(req[r].mem))
  BY <1>1 DEF FillCache, TypeOK
<1>4. CacheOK'
  BY <1>1, <1>2, <1>3 DEF CacheOK, CacheHit, RoleBasis, Grants, ProvenanceInv, RolesAreGranted
<1> QED
  BY <1>1, <1>4, RolesStay, RowsKept, StreamKept, AccessKept, FinishProvenance, ProvenanceStep

LEMMA ExpireCacheEntryProvenance ==
  ASSUME ProvenanceInv, TypeOK', NEW u \in Users, ExpireCacheEntry(u) PROVE ProvenanceInv'
<1>1. \A v \in Users : cache'[v] = cache[v] \/ cache'[v] = NoUser
  BY DEF ExpireCacheEntry, ProvenanceInv, TypeOK
<1>2. UNCHANGED <<rows, roleLog, stream, access, req>>
  BY DEF ExpireCacheEntry, db
<1> QED
  BY <1>1, <1>2 DEF ProvenanceInv, RolesAreGranted, AccessTokensAreEarned, CacheHit,
                    RoleBasis, Grants, Registered, CarriedRoleIsGranted, CarriesRole

LEMMA PublishAndReplyProvenance ==
  ASSUME ProvenanceInv, TypeOK', NEW r \in Requests, PublishAndReply(r) PROVE ProvenanceInv'
<1> DEFINE u == req[r].call.user
           role == req[r].mem.role
           e == [name |-> req[r].event, user |-> u, role |-> role]
           t == [user |-> u, role |-> role, status |-> req[r].mem.status]
<1>1. /\ TypeOK /\ RoleBasis(u, role)
      /\ req[r].call.op = "VerifyOtp" => req[r].mem.status \in SessionAllowedStatuses
      /\ UNCHANGED <<rows, roleLog, cache>> /\ Finish(r)
  BY DEF PublishAndReply, ProvenanceInv, CarriedRoleIsGranted, CarriesRole, db
<1>2. StreamOK'
  <2>1. CASE stream' = Append(stream, e)
    <3>1. \A i \in DOMAIN stream' : \/ i \in DOMAIN stream /\ stream'[i] = stream[i]
                                    \/ stream'[i] = e
      BY <1>1, <2>1 DEF TypeOK
    <3>2. e.user = u /\ e.role = role
      OBVIOUS
    <3> HIDE DEF e
    <3> QED
      BY <1>1, <3>1, <3>2 DEF StreamOK, RoleBasis, Grants, ProvenanceInv, RolesAreGranted
  <2>2. CASE stream' = stream
    BY <1>1, <2>2, RolesStay, StreamKept
  <2> QED
    BY <2>1, <2>2 DEF PublishAndReply
<1>3. AccessTokensAreEarned'
  <2>1. access' = access \/ (access' = access \cup {t} /\ req[r].call.op = "VerifyOtp")
    BY DEF PublishAndReply
  <2>2. t.user = u /\ t.role = role /\ t.status = req[r].mem.status
    OBVIOUS
  <2> HIDE DEF t
  <2> QED
    BY <1>1, <2>1, <2>2 DEF AccessTokensAreEarned, RoleBasis, Grants, ProvenanceInv
<1> QED
  BY <1>1, <1>2, <1>3, RolesStay, RowsKept, CacheKept, FinishProvenance, ProvenanceStep

LEMMA RotateTokenProvenance ==
  ASSUME ProvenanceInv, TypeOK', NEW r \in Requests, RotateToken(r) PROVE ProvenanceInv'
<1> DEFINE t == [user |-> req[r].call.user, role |-> req[r].mem.role,
                 status |-> req[r].mem.status]
<1>1. /\ RoleBasis(req[r].call.user, req[r].mem.role)
      /\ req[r].mem.status \in SessionAllowedStatuses
      /\ UNCHANGED <<rows, roleLog, cache, stream>> /\ Finish(r)
  BY DEF RotateToken, ProvenanceInv, CarriedRoleIsGranted, CarriesRole, redis
<1>2. AccessTokensAreEarned'
  <2>1. access' = access \cup {t} /\ t.user = req[r].call.user /\ t.role = req[r].mem.role
        /\ t.status = req[r].mem.status
    BY DEF RotateToken
  <2> HIDE DEF t
  <2> QED
    BY <1>1, <2>1 DEF AccessTokensAreEarned, RoleBasis, Grants, ProvenanceInv
<1> QED
  BY <1>1, <1>2, RolesStay, RowsKept, CacheKept, StreamKept, FinishProvenance, ProvenanceStep

-----------------------------------------------------------------------------
(* The steps that write the account.                                       *)

\* save() mixes the columns of two rows whose roles both have a basis, and never
\* takes an account back to unregistered.
LEMMA SaveProvenance ==
  ASSUME ProvenanceInv, LogGrows, NEW r \in Requests,
         NEW u \in Users, u = req[r].call.user, Registered(u),
         NEW new \in User, new.status # Unregistered, Save(r, new),
         RoleBasis(u, new.role)'
  PROVE  /\ RowsOK'
         /\ \A v \in Users : Registered(v) => Registered(v)'
<1> DEFINE row == Overlay(new, req[r].base, rows[u])
<1>1. TypeOK /\ rows \in [Users -> User]
  BY DEF ProvenanceInv, TypeOK
<1>2. rows' = [rows EXCEPT ![u] = row]
  BY DEF Save
<1>3. row.role \in {new.role, rows[u].role} /\ row.status \in {new.status, rows[u].status}
  BY DEF Overlay
<1>4. rows'[u] = row /\ \A v \in Users : v # u => rows'[v] = rows[v]
  BY <1>1, <1>2
<1>5. \A v \in Users : RoleBasis(v, rows[v].role) /\ (~Registered(v) => rows[v].role = "user")
  BY DEF ProvenanceInv, RolesAreGranted
<1>6. \A v \in Users, role \in UserRole : RoleBasis(v, role) => RoleBasis(v, role)'
  BY <1>1, BasisGrows
<1>7. \A v \in Users : RoleBasis(v, rows[v].role)'
  <2>1. \A v \in Users : rows[v].role \in UserRole
    BY <1>1 DEF User
  <2> HIDE DEF row
  <2> QED
    BY <1>3, <1>4, <1>5, <1>6, <2>1 DEF RoleBasis, Grants
<1>8. \A v \in Users : Registered(v) => Registered(v)'
  <2> HIDE DEF row
  <2> QED
    BY <1>3, <1>4 DEF Registered
<1>9. \A v \in Users : ~Registered(v)' => rows'[v].role = "user"
  <2>1. \A v \in Users : ~Registered(v)' => v # u
    BY <1>8
  <2> QED
    BY <1>4, <1>5, <2>1 DEF Registered
<1> QED
  BY <1>7, <1>8, <1>9 DEF RowsOK, Registered

\* A command of an account has read a registered row, and its COMMIT leaves it with
\* the object it has written.
LEMMA CommitProvenance ==
  ASSUME ProvenanceInv, TypeOK', LogGrows, NEW r \in Requests,
         req[r].pc = "loaded", req[r].call.op # "Register",
         NEW new \in User, NEW event \in EventName \cup {"none"}, Committed(r, new, event),
         NEW u, u = req[r].call.user,
         UNCHANGED rows \/ (Save(r, new) /\ new.status # Unregistered),
         RoleBasis(u, new.role)',
         req[r].call.op = "VerifyOtp" => new.status \in SessionAllowedStatuses,
         UNCHANGED <<redis, access>>
  PROVE  ProvenanceInv'
<1>1. TypeOK /\ u \in Users /\ Registered(u) /\ req[r] \in RequestState
  BY CallType DEF ProvenanceInv, CarriedRoleIsGranted, CarriesRole
<1>2. RowsOK' /\ \A v \in Users : Registered(v) => Registered(v)'
  <2>1. CASE UNCHANGED rows
    BY <2>1, RowsKept DEF Registered
  <2>2. CASE Save(r, new) /\ new.status # Unregistered
    BY <1>1, <2>2, SaveProvenance
  <2> QED
    BY <2>1, <2>2
<1>3. /\ req' = [req EXCEPT ![r] = req'[r]]
      /\ req'[r] = [req[r] EXCEPT !.pc = "committed", !.mem = new, !.event = event, !.lock = 0]
  BY <1>1 DEF Committed, TypeOK
<1>4. req'[r].pc = "committed" /\ req'[r].call = req[r].call /\ req'[r].mem = new
  BY <1>1, <1>3 DEF RequestState
<1>5. Registered(req[r].call.user)' /\ RoleBasis(req[r].call.user, req[r].mem.role)'
  BY <1>1, <1>2, <1>4 DEF Registered, RoleBasis, Grants
<1>6. CarriedRoleIsGranted(req[r])'
  BY <1>4, <1>5 DEF CarriedRoleIsGranted
<1> QED
  BY <1>2, <1>3, <1>6, CacheKept, StreamKept, AccessKept, ProvenanceStep DEF redis

\* What a command that is about to write knows.
LEMMA WritingProvenance ==
  ASSUME ProvenanceInv, NEW r \in Requests, req[r].pc = "loaded", req[r].call.op # "Register"
  PROVE  /\ TypeOK /\ req[r].call.user \in Users /\ req[r].mem \in User
         /\ req[r].mem.status \in UserStatus
         /\ RoleBasis(req[r].call.user, req[r].mem.role)
<1>1. TypeOK /\ CarriedRoleIsGranted(req[r])
  BY DEF ProvenanceInv
<1>2. /\ req[r].call.user \in Users /\ req[r].mem \in User
      /\ req[r].mem.status # Unregistered
  BY <1>1, CallType DEF TypeOK, RequestOK
<1>3. req[r].mem.status \in UserStatus
  BY <1>2 DEF User
<1> QED
  BY <1>1, <1>2, <1>3 DEF CarriedRoleIsGranted, CarriesRole

\* A commit that leaves the role as it was read.
LEMMA SameRoleCommit ==
  ASSUME ProvenanceInv, TypeOK', LogGrows, NEW r \in Requests,
         req[r].pc = "loaded", req[r].call.op # "Register",
         NEW new \in User, NEW event \in EventName \cup {"none"}, Committed(r, new, event),
         UNCHANGED rows \/ Save(r, new), new.status \in UserStatus,
         new.role = req[r].mem.role,
         req[r].call.op = "VerifyOtp" => new.status \in SessionAllowedStatuses,
         UNCHANGED <<redis, access>>
  PROVE  ProvenanceInv'
<1>1. TypeOK /\ RoleBasis(req[r].call.user, req[r].mem.role)
  BY WritingProvenance
<1>2. ASSUME NEW u, u = req[r].call.user, NEW role, role = new.role PROVE RoleBasis(u, role)'
  <2>1. RoleBasis(u, role)
    BY <1>1, <1>2
  <2> QED
    BY <1>1, <2>1, BasisGrows
<1>3. new.status # Unregistered
  BY DEF UserStatus, Unregistered
<1> QED
  BY <1>2, <1>3, CommitProvenance

LEMMA RequestRoleProvenance ==
  ASSUME ProvenanceInv, TypeOK', NEW r \in Requests, RequestRole(r) PROVE ProvenanceInv'
<1> DEFINE c == req[r].call
           new == [req[r].mem EXCEPT !.requested = c.arg]
<1>1. /\ c.user \in Users /\ c.by \in Users \cup {Nobody} /\ c.arg \in UserRole
      /\ req[r].mem \in User /\ req[r].mem.status \in UserStatus
  BY WritingProvenance, CallType DEF RequestRole, Writing
<1>2. /\ new \in User /\ new.role = req[r].mem.role /\ new.status \in UserStatus
  BY <1>1 DEF User
<1>3. LogGrows
  BY <1>1 DEF RoleChange, User, RequestRole, RecordRoleChange, LogGrows
<1>4. req[r].pc = "loaded" /\ c.op = "ChangeRole" /\ UNCHANGED <<redis, access>>
  BY DEF RequestRole, Writing
<1>5. Committed(r, new, "user.updated") /\ Save(r, new) /\ "user.updated" \in EventName
  BY DEF RequestRole, EventName
<1> HIDE DEF new
<1> QED
  BY <1>2, <1>3, <1>4, <1>5, SameRoleCommit

LEMMA SetStatusProvenance ==
  ASSUME ProvenanceInv, TypeOK', NEW r \in Requests, SetStatus(r) PROVE ProvenanceInv'
<1> DEFINE c == req[r].call
           new == [req[r].mem EXCEPT !.status = c.arg]
<1>1. c.arg \in UserStatus /\ req[r].mem \in User
  BY WritingProvenance, CallType DEF SetStatus, Writing
<1>2. /\ new \in User /\ new.role = req[r].mem.role /\ new.status \in UserStatus
  BY <1>1 DEF User
<1>3. req[r].pc = "loaded" /\ c.op = "ChangeStatus" /\ UNCHANGED <<redis, access>> /\ LogGrows
  BY DEF SetStatus, Writing, LogGrows
<1>4. /\ Committed(r, new, StatusEventName(c.arg)) /\ Save(r, new)
      /\ StatusEventName(c.arg) \in EventName
  BY DEF SetStatus, EventName, StatusEventName
<1> HIDE DEF new
<1> QED
  BY <1>2, <1>3, <1>4, SameRoleCommit

LEMMA EditProfileProvenance ==
  ASSUME ProvenanceInv, TypeOK', NEW r \in Requests, EditProfile(r) PROVE ProvenanceInv'
<1> DEFINE c == req[r].call
           new == [req[r].mem EXCEPT !.name = c.arg]
<1>1. c.arg \in Names /\ req[r].mem \in User /\ req[r].mem.status \in UserStatus
  BY WritingProvenance, CallType DEF EditProfile, Writing
<1>2. /\ new \in User /\ new.role = req[r].mem.role /\ new.status \in UserStatus
  BY <1>1 DEF User
<1>3. req[r].pc = "loaded" /\ c.op = "UpdateProfile" /\ UNCHANGED <<redis, access>> /\ LogGrows
  BY DEF EditProfile, Writing, LogGrows
<1>4. Committed(r, new, "user.updated") /\ Save(r, new) /\ "user.updated" \in EventName
  BY DEF EditProfile, EventName
<1> HIDE DEF new
<1> QED
  BY <1>2, <1>3, <1>4, SameRoleCommit

LEMMA ActivateAccountProvenance ==
  ASSUME ProvenanceInv, TypeOK', NEW r \in Requests, ActivateAccount(r) PROVE ProvenanceInv'
<1> DEFINE user == req[r].mem
           new == [user EXCEPT !.status = IF user.requested # NoRole THEN "pending_kyc"
                                                                     ELSE "active"]
<1>1. req[r].pc = "loaded" /\ req[r].call.op = "VerifyOtp" /\ user \in User
  BY WritingProvenance DEF ActivateAccount, Verifying
<1>2. /\ new \in User /\ new.role = user.role /\ new.status \in UserStatus
      /\ new.status \in SessionAllowedStatuses
  BY <1>1 DEF User, UserStatus, SessionAllowedStatuses
<1>3. UNCHANGED <<redis, access>> /\ LogGrows
  BY DEF ActivateAccount, LogGrows
<1>4. Committed(r, new, "user.registered") /\ Save(r, new) /\ "user.registered" \in EventName
  BY DEF ActivateAccount, EventName
<1> HIDE DEF new
<1> QED
  BY <1>1, <1>2, <1>3, <1>4, SameRoleCommit

LEMMA LogInProvenance ==
  ASSUME ProvenanceInv, TypeOK', NEW r \in Requests, LogIn(r) PROVE ProvenanceInv'
<1>1. /\ req[r].pc = "loaded" /\ req[r].call.op = "VerifyOtp" /\ req[r].mem \in User
      /\ req[r].mem.status \in UserStatus
  BY WritingProvenance DEF LogIn, Verifying
<1>2. req[r].mem.status \in SessionAllowedStatuses
  BY <1>1 DEF LogIn, FirstVerification, ProvenanceInv, CarriedRoleIsGranted,
              SessionAllowedStatuses, UserStatus
<1>3. UNCHANGED <<rows, redis, access>> /\ LogGrows /\ Committed(r, req[r].mem, "none")
  BY DEF LogIn, LogGrows
<1> QED
  BY <1>1, <1>2, <1>3, SameRoleCommit

-----------------------------------------------------------------------------
(* The steps that grant a role.                                            *)

\* A commit whose history row is the basis of the role it writes.
LEMMA GrantingCommit ==
  ASSUME ProvenanceInv, TypeOK', NEW r \in Requests,
         req[r].pc = "loaded", req[r].call.op \in {"ChangeRole", "DecideKyc"},
         NEW new \in User, NEW event \in EventName \cup {"none"}, Committed(r, new, event),
         Save(r, new), new.status \in UserStatus,
         NEW e \in RoleChange, roleLog' = Append(roleLog, e),
         e.user = req[r].call.user, e.to = new.role,
         new.role \in KycRequiredRoles => e.requested = new.role /\ e.by \in Users,
         UNCHANGED <<redis, access>>
  PROVE  ProvenanceInv'
<1>1. TypeOK /\ req[r].call.user \in Users
  BY WritingProvenance
<1>2. LogGrows
  BY DEF LogGrows
<1>3. ASSUME NEW u, u = req[r].call.user, NEW role, role = new.role PROVE RoleBasis(u, role)'
  <2>1. Len(roleLog) + 1 \in DOMAIN roleLog' /\ roleLog'[Len(roleLog) + 1] = e
    BY <1>1 DEF TypeOK
  <2> QED
    BY <1>3, <2>1 DEF RoleBasis, Grants
<1>4. new.status # Unregistered
  BY DEF UserStatus, Unregistered
<1> QED
  BY <1>2, <1>3, <1>4, CommitProvenance

\* Granted at once: a role that needs no KYC, or the one already held.
LEMMA GrantRoleProvenance ==
  ASSUME ProvenanceInv, TypeOK', NEW r \in Requests, GrantRole(r) PROVE ProvenanceInv'
<1> DEFINE c == req[r].call
           new == [req[r].mem EXCEPT !.role = c.arg, !.requested = NoRole]
           e == [user |-> c.user, from |-> req[r].mem.role, to |-> c.arg,
                 requested |-> NoRole, by |-> c.by]
<1>1. /\ c.user \in Users /\ c.by \in Users \cup {Nobody} /\ c.arg \in UserRole
      /\ req[r].mem \in User /\ req[r].mem.status \in UserStatus
  BY WritingProvenance, CallType DEF GrantRole, Writing
<1>2. new \in User /\ new.role = c.arg /\ new.status \in UserStatus
  BY <1>1 DEF User
<1>3. /\ e \in RoleChange /\ roleLog' = Append(roleLog, e)
      /\ e.user = c.user /\ e.to = c.arg
  BY <1>1 DEF RoleChange, User, GrantRole, RecordRoleChange
<1>4. req[r].pc = "loaded" /\ c.op = "ChangeRole" /\ UNCHANGED <<redis, access>>
  BY DEF GrantRole, Writing
<1>5. Committed(r, new, "user.role_changed") /\ Save(r, new) /\ "user.role_changed" \in EventName
  BY DEF GrantRole, EventName
<1>6. LogGrows
  BY <1>3 DEF LogGrows
<1>7. c.arg \in KycRequiredRoles => c.arg = req[r].mem.role
  BY DEF GrantRole, NeedsKycFor
<1> HIDE DEF new, e
<1>8. CASE c.arg \in KycRequiredRoles
  BY <1>2, <1>4, <1>5, <1>6, <1>7, <1>8, SameRoleCommit
<1>9. CASE c.arg \notin KycRequiredRoles
  BY <1>2, <1>3, <1>4, <1>5, <1>9, GrantingCommit
<1> QED
  BY <1>8, <1>9

\* Granted by a decision: the role requested, signed by the admin who decided.
LEMMA DecideProvenance ==
  ASSUME ProvenanceInv, TypeOK', NEW r \in Requests, Decide(r) PROVE ProvenanceInv'
<1> DEFINE c == req[r].call
           user == req[r].mem
           approved == c.arg = "approve"
           granted == IF approved THEN user.requested ELSE NoRole
           new == [user EXCEPT !.requested = NoRole,
                               !.role = IF approved THEN user.requested ELSE @,
                               !.status = IF @ = "pending_kyc" THEN "active" ELSE @]
           e == [user |-> c.user, from |-> user.role, to |-> granted,
                 requested |-> user.requested, by |-> c.by]
<1>1. /\ c.user \in Users /\ c.by \in Users /\ user \in User /\ user.status \in UserStatus
      /\ user.role \in UserRole
  BY WritingProvenance, CallType DEF Decide, Writing, User
<1>2. user.requested \in UserRole
  BY <1>1 DEF Decide, Writing, ProvenanceInv, TypeOK, RequestOK, User
<1>3. /\ new \in User /\ new.status \in UserStatus
      /\ new.role = IF approved THEN user.requested ELSE user.role
  BY <1>1, <1>2 DEF User, UserStatus
<1>4. /\ e \in RoleChange /\ roleLog' = Append(roleLog, e)
      /\ e.user = c.user /\ e.to = granted /\ e.requested = user.requested /\ e.by = c.by
  BY <1>1, <1>2 DEF RoleChange, Decide, RecordRoleChange
<1>5. req[r].pc = "loaded" /\ c.op = "DecideKyc" /\ UNCHANGED <<redis, access>>
  BY DEF Decide, Writing
<1>6. /\ Committed(r, new, DecisionEvent(approved)) /\ Save(r, new)
      /\ DecisionEvent(approved) \in EventName
  BY DEF Decide, EventName, DecisionEvent
<1>7. LogGrows
  BY <1>4 DEF LogGrows
<1> HIDE DEF new, e
<1>8. CASE approved
  BY <1>1, <1>3, <1>4, <1>5, <1>6, <1>8, GrantingCommit
<1>9. CASE ~approved
  BY <1>3, <1>5, <1>6, <1>7, <1>9, SameRoleCommit
<1> QED
  BY <1>8, <1>9

\* A new account is a plain user.
LEMMA InsertAccountProvenance ==
  ASSUME ProvenanceInv, TypeOK', NEW r \in Requests, InsertAccount(r) PROVE ProvenanceInv'
<1> DEFINE c == req[r].call
           row == [NoUser EXCEPT !.status = "pending_verification", !.name = c.arg]
<1>1. /\ TypeOK /\ c.user \in Users /\ LogGrows /\ Finish(r)
      /\ UNCHANGED <<roleLog, cache, stream, access>>
  BY CallType DEF InsertAccount, Writing, ProvenanceInv, LogGrows, redis
<1>2. row.role = "user" /\ row.status = "pending_verification"
  BY DEF NoUser
<1>3. ASSUME NEW v \in Users
      PROVE  \/ rows'[v] = rows[v]
             \/ v = c.user /\ ~Registered(v) /\ rows'[v] = row
  BY <1>1 DEF InsertAccount, TypeOK
<1>4. \A v \in Users : RoleBasis(v, rows[v].role) /\ (~Registered(v) => rows[v].role = "user")
  BY DEF ProvenanceInv, RolesAreGranted
<1> HIDE DEF row
<1>5. RowsOK'
  BY <1>1, <1>2, <1>3, <1>4 DEF RowsOK, Registered, RoleBasis, Grants
<1>6. \A v \in Users : Registered(v) => Registered(v)'
  BY <1>2, <1>3 DEF Registered, Unregistered
<1> QED
  BY <1>1, <1>5, <1>6, CacheKept, StreamKept, AccessKept, FinishProvenance, ProvenanceStep

-----------------------------------------------------------------------------
LEMMA InitProvenance == Init => ProvenanceInv
<1> SUFFICES ASSUME Init PROVE ProvenanceInv
  OBVIOUS
<1>1. \A r \in Requests : CarriedRoleIsGranted(req[r])
  BY DEF Init, Idle, CarriedRoleIsGranted, CarriesRole
<1>2. AccessTokensAreEarned
  BY ConstantsAssumption DEF Init, AccessTokensAreEarned, RoleBasis
<1>3. RolesAreGranted
  BY DEF Init, RolesAreGranted, RoleBasis, CacheHit
<1>4. \A u \in Users : ~Registered(u) => rows[u].role = "user"
  BY ConstantsAssumption DEF Init, Registered, NoUser
<1> QED
  BY <1>1, <1>2, <1>3, <1>4, TypeInit DEF ProvenanceInv

LEMMA NextProvenance == ProvenanceInv /\ [Next]_vars => ProvenanceInv'
<1> SUFFICES ASSUME ProvenanceInv, [Next]_vars PROVE ProvenanceInv'
  OBVIOUS
<1>1. TypeOK'
  BY NextType DEF ProvenanceInv
<1>2. ASSUME NEW r \in Requests, NEW c \in Calls, Begin(r, c) PROVE ProvenanceInv'
  BY <1>1, <1>2, BeginProvenance
<1>3. ASSUME NEW r \in Requests, AccountStep(r) PROVE ProvenanceInv'
  BY <1>1, <1>3, LoadAccountProvenance, WaitingSteps, InsertAccountProvenance,
     RequestRoleProvenance, GrantRoleProvenance, SetStatusProvenance, DecideProvenance,
     EditProfileProvenance
     DEF AccountStep
<1>4. ASSUME NEW r \in Requests, SessionStep(r) PROVE ProvenanceInv'
  BY <1>1, <1>4, WaitingSteps, OtherQuietSteps, LoadVerifiedAccountProvenance,
     ActivateAccountProvenance, LogInProvenance, LoadSessionOwnerProvenance,
     RotateTokenProvenance
     DEF SessionStep
<1>5. ASSUME NEW r \in Requests, QueryStep(r) \/ Reread(r) \/ Invalidate(r) \/ PublishAndReply(r)
      PROVE  ProvenanceInv'
  BY <1>1, <1>5, WaitingSteps, ReadRowProvenance, FillCacheProvenance, RereadProvenance,
     InvalidateProvenance, PublishAndReplyProvenance
     DEF QueryStep
<1>6. ASSUME NEW r \in Requests, Crash(r) PROVE ProvenanceInv'
  BY <1>1, <1>6, OtherQuietSteps
<1>7. ASSUME NEW u \in Users, ExpireCacheEntry(u) PROVE ProvenanceInv'
  BY <1>1, <1>7, ExpireCacheEntryProvenance
<1>8. CASE UNCHANGED vars
  BY <1>1, <1>8 DEF vars, db, redis, ProvenanceInv, RolesAreGranted, AccessTokensAreEarned,
                    CacheHit, RoleBasis, Grants, Registered, CarriedRoleIsGranted, CarriesRole
<1> QED
  BY <1>2, <1>3, <1>4, <1>5, <1>6, <1>7, <1>8 DEF Next, Step

\* The KYC gate (ChangeRole, DecideKyc): no interleaving of commands, crashes and
\* Redis failures lets an account hold, the cache show or an event announce a driver
\* or merchant role that no admin granted on a request for that role.
THEOREM RolesGranted == Spec => []RolesAreGranted
<1>1. ProvenanceInv => RolesAreGranted
  BY DEF ProvenanceInv
<1> QED
  BY <1>1, InitProvenance, NextProvenance, PTL DEF Spec

\* VerifyOtp and RefreshAccessToken sign access tokens only for a role that was
\* granted and a status that allows a session, however old the row they sign from.
THEOREM AccessTokensEarned == Spec => []AccessTokensAreEarned
<1>1. ProvenanceInv => AccessTokensAreEarned
  BY DEF ProvenanceInv
<1> QED
  BY <1>1, InitProvenance, NextProvenance, PTL DEF Spec

\* What the two theorems rest on, and more: every role a request carries has a basis.
THEOREM Provenance == Spec => []ProvenanceInv
BY InitProvenance, NextProvenance, PTL DEF Spec

-----------------------------------------------------------------------------
(* Decisions are signed by admins.  The gate reads the signer's row once,  *)
(* before the command; RolesAreGranted gives that row its basis in the     *)
(* role history, which is still there when the decision commits.           *)

SigningOp == {"ChangeRole", "ChangeStatus", "DecideKyc"}
Signs(q) == q.pc # "idle" /\ q.call.op \in SigningOp /\ q.call.by # Nobody

AuthorityInv ==
  /\ ProvenanceInv
  /\ AuthorityIsGranted
  /\ \A r \in Requests : Signs(req[r]) => AdminWithin(req[r].call.by, Len(roleLog))

\* Who was an admin by some row of the history is so by the same row of a longer one.
LEMMA AdminStays ==
  ASSUME TypeOK, LogGrows, NEW u, NEW n \in Nat, n <= Len(roleLog), AdminWithin(u, n),
         NEW m \in Nat, n <= m
  PROVE  AdminWithin(u, m)'
<1>1. \A j \in 1..n : roleLog'[j] = roleLog[j]
  <2>1. ASSUME NEW e \in RoleChange, roleLog' = Append(roleLog, e)
        PROVE  \A j \in 1..n : roleLog'[j] = roleLog[j]
    BY <2>1, AppendProperties DEF TypeOK
  <2> QED
    BY <2>1 DEF LogGrows
<1> QED
  BY <1>1 DEF AdminWithin, Grants

LEMMA LengthGrows ==
  ASSUME TypeOK, LogGrows
  PROVE  Len(roleLog) \in Nat /\ Len(roleLog') \in Nat /\ Len(roleLog) <= Len(roleLog')
<1>1. ASSUME NEW e \in RoleChange, roleLog' = Append(roleLog, e)
      PROVE  Len(roleLog') = Len(roleLog) + 1
  BY <1>1 DEF TypeOK
<1> QED
  BY <1>1 DEF LogGrows, TypeOK

\* A step of one request: the rows it adds are signed by an admin of before, or by no
\* person, and it signs afterwards only as it did before.
LEMMA AuthorityStep ==
  ASSUME AuthorityInv, ProvenanceInv', NEW r \in Requests,
         req' = [req EXCEPT ![r] = req'[r]],
         \/ roleLog' = roleLog
         \/ \E e \in RoleChange : /\ roleLog' = Append(roleLog, e)
                                  /\ e.by # Nobody => AdminWithin(e.by, Len(roleLog)),
         \/ statusLog' = statusLog
         \/ \E e \in StatusChange : /\ statusLog' = Append(statusLog, e)
                                    /\ e.by # Nobody => AdminWithin(e.by, Len(roleLog)),
         Signs(req'[r]) => AdminWithin(req'[r].call.by, Len(roleLog))
  PROVE  AuthorityInv'
<1>1. TypeOK /\ LogGrows
  BY DEF AuthorityInv, ProvenanceInv, LogGrows
<1>2. Len(roleLog) \in Nat /\ Len(roleLog') \in Nat /\ Len(roleLog) <= Len(roleLog')
  BY <1>1, LengthGrows
<1>3. ASSUME NEW i \in DOMAIN roleLog', roleLog'[i].by # Nobody
      PROVE  AdminWithin(roleLog[i].by, i - 1)'
  <2>1. CASE i \in DOMAIN roleLog /\ roleLog'[i] = roleLog[i]
    <3>1. i \in 1..Len(roleLog) /\ AdminWithin(roleLog[i].by, i - 1)
      BY <1>1, <1>3, <2>1 DEF AuthorityInv, AuthorityIsGranted, TypeOK
    <3>2. \A u : u = roleLog[i].by => AdminWithin(u, i - 1)'
      BY <1>1, <1>2, <3>1, AdminStays
    <3> QED
      BY <2>1, <3>2 DEF AdminWithin, Grants
  <2>2. CASE ~(i \in DOMAIN roleLog /\ roleLog'[i] = roleLog[i])
    <3>1. PICK e \in RoleChange : /\ roleLog' = Append(roleLog, e)
                                  /\ e.by # Nobody => AdminWithin(e.by, Len(roleLog))
      BY <2>2
    <3>2. i = Len(roleLog) + 1 /\ roleLog'[i] = e
      BY <1>1, <2>2, <3>1, AppendProperties DEF TypeOK
    <3>3. \A u : u = e.by => AdminWithin(u, i - 1)'
      BY <1>1, <1>2, <1>3, <3>1, <3>2, AdminStays
    <3> QED
      BY <3>2, <3>3 DEF AdminWithin, Grants
  <2> QED
    BY <2>1, <2>2
<1>4. ASSUME NEW i \in DOMAIN statusLog', statusLog'[i].by # Nobody
      PROVE  AdminWithin(statusLog[i].by, Len(roleLog))'
  <2>1. AdminWithin(statusLog'[i].by, Len(roleLog))
    <3>1. CASE i \in DOMAIN statusLog /\ statusLog'[i] = statusLog[i]
      BY <1>4, <3>1 DEF AuthorityInv, AuthorityIsGranted
    <3>2. CASE ~(i \in DOMAIN statusLog /\ statusLog'[i] = statusLog[i])
      <4>1. PICK e \in StatusChange : /\ statusLog' = Append(statusLog, e)
                                      /\ e.by # Nobody => AdminWithin(e.by, Len(roleLog))
        BY <3>2
      <4>2. statusLog'[i] = e
        BY <1>1, <3>2, <4>1, AppendProperties DEF TypeOK
      <4> QED
        BY <1>4, <4>1, <4>2
    <3> QED
      BY <3>1, <3>2
  <2>2. \A u, n : u = statusLog'[i].by /\ n = Len(roleLog') => AdminWithin(u, n)'
    BY <1>1, <1>2, <2>1, AdminStays
  <2> QED
    BY <2>2 DEF AdminWithin, Grants
<1>5. ASSUME NEW q \in Requests, Signs(req'[q])
      PROVE  AdminWithin(req[q].call.by, Len(roleLog))'
  <2>1. AdminWithin(req'[q].call.by, Len(roleLog))
    <3>1. CASE q = r
      BY <1>5, <3>1
    <3>2. CASE q # r
      BY <1>1, <1>5, <3>2 DEF AuthorityInv, TypeOK
    <3> QED
      BY <3>1, <3>2
  <2>2. \A u, n : u = req'[q].call.by /\ n = Len(roleLog') => AdminWithin(u, n)'
    BY <1>1, <1>2, <2>1, AdminStays
  <2> QED
    BY <2>2 DEF AdminWithin, Grants
<1>6. AuthorityIsGranted'
  BY <1>3, <1>4 DEF AuthorityIsGranted
<1>7. \A q \in Requests : Signs(req'[q]) => AdminWithin(req[q].call.by, Len(roleLog))'
  BY <1>5
<1> QED
  BY <1>6, <1>7 DEF AuthorityInv, Signs

\* A step that records nothing, of a request that ends or keeps its call.
LEMMA QuietAuthority ==
  ASSUME AuthorityInv, ProvenanceInv', NEW r \in Requests,
         UNCHANGED <<statusLog, roleLog>>,
         \/ Finish(r)
         \/ /\ req[r].pc # "idle" /\ req' = [req EXCEPT ![r] = req'[r]]
            /\ req'[r].call = req[r].call
  PROVE  AuthorityInv'
<1>1. CASE Finish(r)
  <2>1. req'[r] = Idle /\ req' = [req EXCEPT ![r] = req'[r]]
    BY <1>1, FinishType DEF AuthorityInv, ProvenanceInv
  <2> QED
    BY <2>1, AuthorityStep DEF Signs, Idle
<1>2. CASE /\ req[r].pc # "idle" /\ req' = [req EXCEPT ![r] = req'[r]]
           /\ req'[r].call = req[r].call
  <2>1. Signs(req'[r]) => AdminWithin(req'[r].call.by, Len(roleLog))
    BY <1>2 DEF Signs, AuthorityInv
  <2> QED
    BY <1>2, <2>1, AuthorityStep
<1> QED
  BY <1>1, <1>2

\* A commit, whose rows bear the signature of the call.
LEMMA CommitAuthority ==
  ASSUME AuthorityInv, ProvenanceInv', NEW r \in Requests, req[r].pc = "loaded",
         NEW new \in User, NEW event \in EventName \cup {"none"}, Committed(r, new, event),
         NEW by, by # Nobody => by = req[r].call.by /\ req[r].call.op \in SigningOp,
         \/ roleLog' = roleLog
         \/ \E e \in RoleChange : roleLog' = Append(roleLog, e) /\ e.by = by,
         \/ statusLog' = statusLog
         \/ \E e \in StatusChange : statusLog' = Append(statusLog, e) /\ e.by = by
  PROVE  AuthorityInv'
<1>1. TypeOK
  BY DEF AuthorityInv, ProvenanceInv
<1>2. req' = [req EXCEPT ![r] = req'[r]] /\ req'[r].call = req[r].call
  <2>1. req[r] \in RequestState
    BY <1>1 DEF TypeOK
  <2>2. /\ req' = [req EXCEPT ![r] = req'[r]]
        /\ req'[r] = [req[r] EXCEPT !.pc = "committed", !.mem = new, !.event = event, !.lock = 0]
    BY <1>1, <2>1 DEF Committed, TypeOK
  <2> QED
    BY <2>1, <2>2 DEF RequestState
<1>3. Signs(req[r]) => AdminWithin(req[r].call.by, Len(roleLog))
  BY DEF AuthorityInv
<1>4. by # Nobody => AdminWithin(by, Len(roleLog))
  BY <1>3 DEF Signs
<1>5. Signs(req'[r]) => AdminWithin(req'[r].call.by, Len(roleLog))
  BY <1>2, <1>3 DEF Signs
<1> QED
  BY <1>2, <1>4, <1>5, AuthorityStep

LEMMA CommandAuthority ==
  ASSUME AuthorityInv, ProvenanceInv', NEW r \in Requests, AccountStep(r)
  PROVE  AuthorityInv'
<1> DEFINE c == req[r].call
           user == req[r].mem
<1>1. /\ TypeOK /\ req[r].pc # "idle"
      /\ c.user \in Users /\ c.by \in Users \cup {Nobody} /\ user \in User
      /\ req[r] \in RequestState
  BY CallType DEF AuthorityInv, ProvenanceInv, AccountStep, LoadAccount, LookUpPhone,
     InsertAccount, RequestRole, GrantRole, SetStatus, Decide, EditProfile, Writing
<1>2. CASE RequestRole(r)
  <2> DEFINE new == [user EXCEPT !.requested = c.arg]
             e == [user |-> c.user, from |-> user.role, to |-> NoRole,
                   requested |-> c.arg, by |-> c.by]
  <2>1. c.arg \in UserRole /\ req[r].pc = "loaded" /\ c.op \in SigningOp
    BY <1>1, <1>2, CallType DEF RequestRole, Writing, SigningOp
  <2>2. new \in User /\ e \in RoleChange /\ e.by = c.by
    BY <1>1, <2>1 DEF User, RoleChange
  <2>3. /\ roleLog' = Append(roleLog, e) /\ statusLog' = statusLog
        /\ Committed(r, new, "user.updated") /\ "user.updated" \in EventName
    BY <1>2 DEF RequestRole, RecordRoleChange, EventName
  <2> HIDE DEF new, e
  <2> QED
    BY <2>1, <2>2, <2>3, CommitAuthority
<1>3. CASE GrantRole(r)
  <2> DEFINE new == [user EXCEPT !.role = c.arg, !.requested = NoRole]
             e == [user |-> c.user, from |-> user.role, to |-> c.arg,
                   requested |-> NoRole, by |-> c.by]
  <2>1. c.arg \in UserRole /\ req[r].pc = "loaded" /\ c.op \in SigningOp
    BY <1>1, <1>3, CallType DEF GrantRole, Writing, SigningOp
  <2>2. new \in User /\ e \in RoleChange /\ e.by = c.by
    BY <1>1, <2>1 DEF User, RoleChange
  <2>3. /\ roleLog' = Append(roleLog, e) /\ statusLog' = statusLog
        /\ Committed(r, new, "user.role_changed") /\ "user.role_changed" \in EventName
    BY <1>3 DEF GrantRole, RecordRoleChange, EventName
  <2> HIDE DEF new, e
  <2> QED
    BY <2>1, <2>2, <2>3, CommitAuthority
<1>4. CASE SetStatus(r)
  <2> DEFINE new == [user EXCEPT !.status = c.arg]
             e == [user |-> c.user, from |-> user.status, to |-> c.arg, by |-> c.by]
  <2>1. c.arg \in UserStatus /\ req[r].pc = "loaded" /\ c.op \in SigningOp
    BY <1>1, <1>4, CallType DEF SetStatus, Writing, SigningOp
  <2>2. user.status \in UserStatus
    BY <1>1, <1>4 DEF SetStatus, Writing, TypeOK, RequestOK, User, SigningOp
  <2>3. new \in User /\ e \in StatusChange /\ e.by = c.by
    BY <1>1, <2>1, <2>2 DEF User, StatusChange
  <2>4. /\ statusLog' = Append(statusLog, e) /\ roleLog' = roleLog
        /\ Committed(r, new, StatusEventName(c.arg)) /\ StatusEventName(c.arg) \in EventName
    BY <1>4 DEF SetStatus, RecordStatusChange, StatusEventName, EventName
  <2> HIDE DEF new, e
  <2> QED
    BY <2>1, <2>3, <2>4, CommitAuthority
<1>5. CASE Decide(r)
  <2> DEFINE approved == c.arg = "approve"
             granted == IF approved THEN user.requested ELSE NoRole
             new == [user EXCEPT !.requested = NoRole,
                                 !.role = IF approved THEN user.requested ELSE @,
                                 !.status = IF @ = "pending_kyc" THEN "active" ELSE @]
             e == [user |-> c.user, from |-> user.status, to |-> new.status, by |-> c.by]
             g == [user |-> c.user, from |-> user.role, to |-> granted,
                   requested |-> user.requested, by |-> c.by]
  <2>1. req[r].pc = "loaded" /\ c.op \in SigningOp
    BY <1>5 DEF Decide, Writing, SigningOp
  <2>2. user.status \in UserStatus /\ user.requested \in UserRole /\ user.role \in UserRole
    BY <1>1, <1>5 DEF Decide, Writing, TypeOK, RequestOK, User
  <2>3. new \in User /\ new.status \in UserStatus
    BY <1>1, <2>2 DEF User, UserStatus
  <2>4. e \in StatusChange /\ e.by = c.by /\ g \in RoleChange /\ g.by = c.by
    BY <1>1, <2>2, <2>3 DEF StatusChange, RoleChange
  <2>5. /\ roleLog' = Append(roleLog, g)
        /\ statusLog' = Append(statusLog, e) \/ statusLog' = statusLog
        /\ Committed(r, new, DecisionEvent(approved)) /\ DecisionEvent(approved) \in EventName
    BY <1>5 DEF Decide, RecordRoleChange, RecordStatusChange, EventName, DecisionEvent
  <2> HIDE DEF new, e, g
  <2> QED
    BY <2>1, <2>3, <2>4, <2>5, CommitAuthority
<1>6. CASE EditProfile(r)
  <2> DEFINE new == [user EXCEPT !.name = c.arg]
  <2>1. c.arg \in Names /\ req[r].pc = "loaded"
    BY <1>1, <1>6, CallType DEF EditProfile, Writing
  <2>2. new \in User
    BY <1>1, <2>1 DEF User
  <2>3. /\ UNCHANGED <<statusLog, roleLog>>
        /\ Committed(r, new, "user.updated") /\ "user.updated" \in EventName
    BY <1>6 DEF EditProfile, EventName
  <2> HIDE DEF new
  <2> QED
    BY <2>1, <2>2, <2>3, CommitAuthority
<1>7. CASE InsertAccount(r) \/ LookUpPhone(r) \/ LoadAccount(r)
  <2>1. UNCHANGED <<statusLog, roleLog>>
    BY <1>7 DEF InsertAccount, LookUpPhone, LoadAccount, db
  <2>2. \/ Finish(r)
        \/ req' = [req EXCEPT ![r] = req'[r]] /\ req'[r].call = req[r].call
    BY <1>1, <1>7 DEF InsertAccount, LookUpPhone, LoadAccount, TypeOK, RequestState
  <2> QED
    BY <1>1, <2>1, <2>2, QuietAuthority
<1> QED
  BY <1>2, <1>3, <1>4, <1>5, <1>6, <1>7 DEF AccountStep

LEMMA SessionAuthority ==
  ASSUME AuthorityInv, ProvenanceInv', NEW r \in Requests, SessionStep(r)
  PROVE  AuthorityInv'
<1>1. /\ TypeOK /\ req[r].pc # "idle" /\ req[r].call.user \in Users
      /\ req[r].mem \in User /\ req[r] \in RequestState
  BY CallType DEF AuthorityInv, ProvenanceInv, SessionStep, FindOtp, CountWrongCode, ConsumeOtp,
     LoadVerifiedAccount, ActivateAccount, LogIn, FindToken, CloseAllSessions, CloseSession,
     LoadSessionOwner, RotateToken, Verifying
<1>2. CASE ActivateAccount(r)
  <2> DEFINE user == req[r].mem
             new == [user EXCEPT !.status = IF user.requested # NoRole THEN "pending_kyc"
                                                                       ELSE "active"]
             e == [user |-> req[r].call.user, from |-> "pending_verification",
                   to |-> new.status, by |-> Nobody]
  <2>1. new \in User /\ new.status \in UserStatus
    BY <1>1 DEF User, UserStatus
  <2>2. e \in StatusChange /\ e.by = Nobody
    BY <1>1, <2>1 DEF StatusChange, UserStatus
  <2>3. /\ req[r].pc = "loaded" /\ statusLog' = Append(statusLog, e) /\ roleLog' = roleLog
        /\ Committed(r, new, "user.registered") /\ "user.registered" \in EventName
    BY <1>2 DEF ActivateAccount, Verifying, RecordStatusChange, EventName
  <2> HIDE DEF new, e
  <2> QED
    BY <2>1, <2>2, <2>3, CommitAuthority
<1>3. CASE LogIn(r)
  <2>1. /\ req[r].pc = "loaded" /\ UNCHANGED <<statusLog, roleLog>>
        /\ Committed(r, req[r].mem, "none")
    BY <1>3 DEF LogIn, Verifying
  <2> QED
    BY <1>1, <2>1, CommitAuthority
<1>4. CASE ~ActivateAccount(r) /\ ~LogIn(r)
  <2>1. UNCHANGED <<statusLog, roleLog>>
    BY <1>4 DEF SessionStep, FindOtp, CountWrongCode, ConsumeOtp, LoadVerifiedAccount, FindToken,
       CloseAllSessions, CloseSession, LoadSessionOwner, RotateToken, db
  <2>2. \/ Finish(r)
        \/ req' = [req EXCEPT ![r] = req'[r]] /\ req'[r].call = req[r].call
    <3>1. CASE FindOtp(r) \/ ConsumeOtp(r) \/ LoadVerifiedAccount(r)
      BY <1>1, <3>1 DEF FindOtp, ConsumeOtp, LoadVerifiedAccount, TypeOK, RequestState
    <3>2. CASE FindToken(r) \/ LoadSessionOwner(r)
      BY <1>1, <3>2 DEF FindToken, LoadSessionOwner, TypeOK, RequestState
    <3>3. CASE CountWrongCode(r) \/ CloseAllSessions(r) \/ CloseSession(r) \/ RotateToken(r)
      BY <3>3 DEF CountWrongCode, CloseAllSessions, CloseSession, RotateToken
    <3> QED
      BY <1>4, <3>1, <3>2, <3>3 DEF SessionStep
  <2> QED
    BY <1>1, <2>1, <2>2, QuietAuthority
<1> QED
  BY <1>2, <1>3, <1>4

\* The query, and what is left of a request.
LEMMA OtherAuthority ==
  ASSUME AuthorityInv, ProvenanceInv', NEW r \in Requests,
         QueryStep(r) \/ Reread(r) \/ Invalidate(r) \/ PublishAndReply(r) \/ Crash(r)
  PROVE  AuthorityInv'
<1>1. TypeOK /\ req[r] \in RequestState /\ req[r].pc # "idle"
  BY DEF AuthorityInv, ProvenanceInv, TypeOK, QueryStep, ReadCache, ReadRow, FillCache, Reread,
         Invalidate, PublishAndReply, Crash
<1>2. UNCHANGED <<statusLog, roleLog>>
  BY DEF QueryStep, ReadCache, ReadRow, FillCache, Reread, Invalidate, PublishAndReply, Crash, db
<1>3. \/ Finish(r)
      \/ req' = [req EXCEPT ![r] = req'[r]] /\ req'[r].call = req[r].call
  BY <1>1 DEF QueryStep, ReadCache, ReadRow, FillCache, Reread, Invalidate, PublishAndReply,
     Crash, TypeOK, RequestState
<1> QED
  BY <1>1, <1>2, <1>3, QuietAuthority

\* The gate: an admin's row has its basis in the role history.
LEMMA BeginAuthority ==
  ASSUME AuthorityInv, ProvenanceInv', NEW r \in Requests, NEW c \in Calls, Begin(r, c)
  PROVE  AuthorityInv'
<1>1. TypeOK
  BY DEF AuthorityInv, ProvenanceInv
<1>2. req'[r].call = c /\ req' = [req EXCEPT ![r] = req'[r]]
  BY <1>1 DEF Begin, TypeOK, Idle
<1>3. ASSUME c.op \in SigningOp, c.by # Nobody PROVE AdminWithin(c.by, Len(roleLog))
  <2>1. c.by \in Users /\ rows[c.by].role = "admin"
    BY <1>3, CallsAssumption DEF Begin, Admitted, IsActiveAdmin, SigningOp, Call
  <2>2. RoleBasis(c.by, "admin")
    BY <2>1 DEF AuthorityInv, ProvenanceInv, RolesAreGranted
  <2>3. DOMAIN roleLog = 1..Len(roleLog)
    BY <1>1 DEF TypeOK
  <2> QED
    BY <2>2, <2>3 DEF RoleBasis, AdminWithin
<1>4. UNCHANGED <<statusLog, roleLog>>
  BY DEF Begin, db
<1> QED
  BY <1>2, <1>3, <1>4, AuthorityStep DEF Signs

LEMMA InitAuthority == Init => AuthorityInv
<1> SUFFICES ASSUME Init PROVE AuthorityInv
  OBVIOUS
<1>1. statusLog = << >> /\ roleLog = << >> /\ \A r \in Requests : ~Signs(req[r])
  BY DEF Init, Idle, Signs
<1>2. AuthorityIsGranted
  BY <1>1 DEF AuthorityIsGranted
<1> QED
  BY <1>1, <1>2, InitProvenance DEF AuthorityInv

LEMMA NextAuthority == AuthorityInv /\ [Next]_vars => AuthorityInv'
<1> SUFFICES ASSUME AuthorityInv, [Next]_vars PROVE AuthorityInv'
  OBVIOUS
<1>1. ProvenanceInv'
  BY NextProvenance DEF AuthorityInv
<1>2. ASSUME NEW u \in Users, ExpireCacheEntry(u) PROVE AuthorityInv'
  BY <1>1, <1>2 DEF ExpireCacheEntry, db, AuthorityInv, AuthorityIsGranted, AdminWithin, Grants,
                    Signs
<1>3. CASE UNCHANGED vars
  BY <1>1, <1>3 DEF vars, db, AuthorityInv, AuthorityIsGranted, AdminWithin, Grants, Signs
<1> QED
  BY <1>1, <1>2, <1>3, BeginAuthority, CommandAuthority, SessionAuthority, OtherAuthority
     DEF Next, Step

\* require_admin: however old the check is when a decision commits, every decision
\* signed by a person bears the name of one who had been made admin by then.
THEOREM AuthorityGranted == Spec => []AuthorityIsGranted
<1>1. AuthorityInv => AuthorityIsGranted
  BY DEF AuthorityInv
<1> QED
  BY <1>1, InitAuthority, NextAuthority, PTL DEF Spec
=============================================================================
