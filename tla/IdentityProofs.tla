---------------------------- MODULE IdentityProofs ----------------------------
(***************************************************************************)
(* Proofs about Identity, for any number of accounts, requests and calls:   *)
(* type correctness, the fate of codes and refresh tokens, and the events  *)
(* published for what was committed.                                       *)
(***************************************************************************)
EXTENDS Identity, SequenceTheorems, FiniteSetTheorems, TLAPS

-----------------------------------------------------------------------------
(* The operators the commands are built from.                              *)

\* save() keeps a row a row: each of its columns is the new object's or the
\* current row's.
LEMMA OverlayType ==
  ASSUME NEW new \in User, NEW base \in User, NEW current \in User
  PROVE  Overlay(new, base, current) \in User
BY DEF Overlay, User

\* Revoking sessions changes tokens in place.
LEMMA AllRevokedType ==
  ASSUME NEW table \in Seq(Token), NEW u
  PROVE  /\ AllRevoked(table, u) \in Seq(Token)
         /\ DOMAIN AllRevoked(table, u) = DOMAIN table
<1>1. \A t \in 1..Len(table) : table[t] \in Token
  OBVIOUS
<1>2. ASSUME NEW t \in 1..Len(table)
      PROVE  [table[t] EXCEPT !.revoked = TRUE] \in Token
  BY <1>1 DEF Token
<1>3. AllRevoked(table, u) \in [1..Len(table) -> Token]
  BY <1>1, <1>2 DEF AllRevoked
<1> QED
  BY <1>3, SeqDef DEF AllRevoked

LEMMA RevokedType ==
  ASSUME NEW table \in Seq(Token), NEW t \in DOMAIN table
  PROVE  /\ Revoked(table, t) \in Seq(Token)
         /\ DOMAIN Revoked(table, t) = DOMAIN table
<1>1. table[t] \in Token
  OBVIOUS
<1>2. [table[t] EXCEPT !.revoked = TRUE] \in Token
  BY <1>1 DEF Token
<1> QED
  BY <1>2, ExceptSeq DEF Revoked

LEMMA IdleType == Idle \in RequestState /\ NoUser \in User
BY ConstantsAssumption DEF Idle, RequestState, ProgramPoint, NoUser, User, UserRole, UserStatus

LEMMA TypeInit == Init => TypeOK
<1> SUFFICES ASSUME Init PROVE TypeOK
  OBVIOUS
<1>1. otps \in Seq(Otp)
  <2>1. otps \in [1..Len(InitOtps) -> Otp]
    BY ConstantsAssumption DEF Init, Otp
  <2> QED
    BY <2>1, ConstantsAssumption, SeqDef
<1>2. tokens \in Seq(Token)
  <2>1. tokens \in [1..Len(InitTokens) -> Token]
    BY ConstantsAssumption DEF Init, Token
  <2> QED
    BY <2>1, ConstantsAssumption, SeqDef
<1>3. access \subseteq AccessToken
  BY ConstantsAssumption DEF Init, AccessToken, User
<1>4. \A r \in Requests : req[r] = Idle
  BY DEF Init
<1>5. \A r \in Requests : RequestOK(req[r])
  BY <1>4 DEF RequestOK, Idle
<1> QED
  BY <1>1, <1>2, <1>3, <1>5, IdleType, ConstantsAssumption DEF Init, TypeOK

-----------------------------------------------------------------------------
(* Every step keeps TypeOK.                                                *)

\* The part of the database, of Redis and of the clients that TypeOK speaks of.
TablesOK ==
  /\ rows \in [Users -> User]
  /\ statusLog \in Seq(StatusChange)
  /\ roleLog \in Seq(RoleChange)
  /\ otps \in Seq(Otp)
  /\ tokens \in Seq(Token)
  /\ cache \in [Users -> User]
  /\ stream \in Seq(Event)
  /\ access \subseteq AccessToken

\* A step of request r that leaves r in order and shortens no table disturbs no
\* other request.
LEMMA StepType ==
  ASSUME TypeOK, NEW r \in Requests,
         TablesOK', started' \in 0..MaxCalls,
         DOMAIN otps \subseteq DOMAIN otps', DOMAIN tokens \subseteq DOMAIN tokens',
         req' = [req EXCEPT ![r] = req'[r]],
         req'[r] \in RequestState, RequestOK(req[r])'
  PROVE  TypeOK'
<1>1. req' \in [Requests -> RequestState]
  BY DEF TypeOK
<1>2. ASSUME NEW q \in Requests PROVE RequestOK(req[q])'
  <2>1. CASE q = r
    BY <2>1
  <2>2. CASE q # r
    <3>1. req'[q] = req[q] /\ RequestOK(req[q])
      BY <2>2 DEF TypeOK
    <3> QED
      BY <3>1 DEF RequestOK
  <2> QED
    BY <2>1, <2>2
<1> QED
  BY <1>1, <1>2 DEF TypeOK, TablesOK

\* A step that touches no table.
LEMMA LocalStepType ==
  ASSUME TypeOK, NEW r \in Requests,
         UNCHANGED <<db, redis, access>>, started' \in 0..MaxCalls,
         req' = [req EXCEPT ![r] = req'[r]],
         req'[r] \in RequestState, RequestOK(req[r])'
  PROVE  TypeOK'
<1>1. TablesOK'
  BY DEF TypeOK, TablesOK, db, redis
<1>2. otps' = otps /\ tokens' = tokens
  BY DEF db
<1> QED
  BY <1>1, <1>2, StepType

LEMMA FinishType ==
  ASSUME TypeOK, NEW r \in Requests, Finish(r)
  PROVE  /\ req' = [req EXCEPT ![r] = req'[r]]
         /\ req'[r] = Idle
         /\ req'[r] \in RequestState
         /\ RequestOK(req[r])'
<1>1. req'[r] = Idle /\ req' = [req EXCEPT ![r] = req'[r]]
  BY DEF Finish, TypeOK
<1>2. RequestOK(req[r])'
  BY <1>1 DEF RequestOK, Idle
<1> QED
  BY <1>1, <1>2, IdleType

LEMMA CommittedType ==
  ASSUME TypeOK, NEW r \in Requests, req[r].pc = "loaded",
         NEW new \in User, NEW event \in EventName \cup {"none"},
         Committed(r, new, event)
  PROVE  /\ req' = [req EXCEPT ![r] = req'[r]]
         /\ req'[r] = [req[r] EXCEPT !.pc = "committed", !.mem = new, !.event = event, !.lock = 0]
         /\ req'[r] \in RequestState
         /\ RequestOK(req[r])'
<1>1. req[r] \in RequestState /\ RequestOK(req[r])
  BY DEF TypeOK
<1>2. /\ req'[r] = [req[r] EXCEPT !.pc = "committed", !.mem = new, !.event = event, !.lock = 0]
      /\ req' = [req EXCEPT ![r] = req'[r]]
  BY <1>1 DEF Committed, TypeOK
<1>3. req'[r] \in RequestState
  <2>1. "committed" \in ProgramPoint /\ 0 \in Nat
    BY DEF ProgramPoint
  <2> QED
    BY <1>1, <1>2, <2>1 DEF RequestState
<1>4. req'[r].pc = "committed" /\ req'[r].call = req[r].call
  BY <1>1, <1>2 DEF RequestState
<1>5. RequestOK(req[r])'
  BY <1>1, <1>4 DEF RequestOK
<1> QED
  BY <1>2, <1>3, <1>5

LEMMA SaveType ==
  ASSUME TypeOK, NEW r \in Requests, req[r].pc = "loaded", NEW new \in User, Save(r, new)
  PROVE  rows' \in [Users -> User]
<1>1. req[r].call \in Calls /\ req[r].base \in User
  BY DEF TypeOK, RequestOK, RequestState
<1>2. req[r].call.user \in Users
  BY <1>1, CallsAssumption DEF Call
<1>3. Overlay(new, req[r].base, rows[req[r].call.user]) \in User
  BY <1>1, <1>2, OverlayType DEF TypeOK
<1> QED
  BY <1>2, <1>3 DEF Save, TypeOK

\* What the commands know of the call they are handling.
LEMMA CallType ==
  ASSUME TypeOK, NEW r \in Requests, req[r].pc # "idle"
  PROVE  LET c == req[r].call
         IN  /\ c \in Calls
             /\ c.user \in Users /\ c.by \in Users \cup {Nobody} /\ c.item \in Nat
             /\ c.op = "ChangeRole" => c.arg \in UserRole
             /\ c.op = "ChangeStatus" => c.arg \in UserStatus
             /\ c.op \in {"ChangeStatus", "DecideKyc"} => c.by \in Users
             /\ c.op = "DecideKyc" => c.arg \in {"approve", "refuse"}
             /\ c.op \in {"Register", "UpdateProfile"} => c.arg \in Names
             /\ rows[c.user] \in User
             /\ req[r] \in RequestState /\ req[r].mem \in User
<1>1. req[r].call \in Calls
  BY DEF TypeOK, RequestOK
<1> QED
  BY <1>1, CallsAssumption DEF Call, TypeOK, RequestState

\* A request moves on, or ends, and nothing else changes.
LEMMA MoveType ==
  ASSUME TypeOK, NEW r \in Requests, NEW q \in RequestState, RequestOK(q),
         req' = [req EXCEPT ![r] = q], UNCHANGED <<db, redis, access, started>>
  PROVE  TypeOK'
<1>1. req'[r] = q /\ req' = [req EXCEPT ![r] = req'[r]]
  BY DEF TypeOK
<1>2. RequestOK(req[r])'
  BY <1>1 DEF RequestOK, db
<1>3. started' \in 0..MaxCalls
  BY DEF TypeOK
<1> QED
  BY <1>1, <1>2, <1>3, LocalStepType

LEMMA EndType ==
  ASSUME TypeOK, NEW r \in Requests, Finish(r), UNCHANGED <<db, redis, access, started>>
  PROVE  TypeOK'
<1>1. RequestOK(Idle)
  BY DEF RequestOK, Idle
<1> QED
  BY <1>1, IdleType, MoveType DEF Finish

-----------------------------------------------------------------------------
(* The commands on an account.                                             *)

LEMMA LoadAccountType ==
  ASSUME TypeOK, NEW r \in Requests, LoadAccount(r) PROVE TypeOK'
<1> DEFINE c == req[r].call
           q == [req[r] EXCEPT !.pc = "loaded", !.mem = rows[c.user], !.base = rows[c.user]]
<1>1. CASE HasWork(c, rows[c.user])
  <2>1. req[r] \in RequestState /\ c \in Calls /\ rows[c.user] \in User
    BY CallType DEF LoadAccount
  <2>2. q \in RequestState
    BY <2>1 DEF RequestState, ProgramPoint
  <2>3. q.pc = "loaded" /\ q.call = c /\ q.mem = rows[c.user] /\ c.op \in AccountOp
    BY <2>1 DEF RequestState, LoadAccount
  <2>4. RequestOK(q)
    BY <1>1, <2>1, <2>3 DEF RequestOK, HasWork, KycPending, AccountOp
  <2>5. req' = [req EXCEPT ![r] = q]
    BY <1>1, <2>1 DEF LoadAccount, TypeOK
  <2> QED
    BY <2>2, <2>4, <2>5, MoveType DEF LoadAccount
<1>2. CASE ~HasWork(c, rows[c.user])
  BY <1>2, EndType DEF LoadAccount
<1> QED
  BY <1>1, <1>2

LEMMA LookUpPhoneType ==
  ASSUME TypeOK, NEW r \in Requests, LookUpPhone(r) PROVE TypeOK'
<1> DEFINE q == [req[r] EXCEPT !.pc = "loaded"]
<1>1. CASE ~Registered(req[r].call.user)
  <2>1. req[r] \in RequestState /\ req[r].call \in Calls
    BY CallType DEF LookUpPhone
  <2>2. q \in RequestState
    BY <2>1 DEF RequestState, ProgramPoint
  <2>3. q.pc = "loaded" /\ q.call = req[r].call /\ q.call.op = "Register"
    BY <2>1 DEF RequestState, LookUpPhone
  <2>4. RequestOK(q)
    BY <2>1, <2>3 DEF RequestOK
  <2>5. req' = [req EXCEPT ![r] = q]
    BY <1>1, <2>1 DEF LookUpPhone, TypeOK
  <2> QED
    BY <2>2, <2>4, <2>5, MoveType DEF LookUpPhone
<1>2. CASE Registered(req[r].call.user)
  BY <1>2, EndType DEF LookUpPhone
<1> QED
  BY <1>1, <1>2

LEMMA InsertAccountType ==
  ASSUME TypeOK, NEW r \in Requests, InsertAccount(r) PROVE TypeOK'
<1> DEFINE c == req[r].call
           row == [NoUser EXCEPT !.status = "pending_verification", !.name = c.arg]
<1>1. c.user \in Users /\ c.arg \in Names
  BY CallType DEF InsertAccount, Writing
<1>2. row \in User
  BY <1>1, IdleType DEF User, UserStatus, NoUser
<1>3. rows' \in [Users -> User]
  BY <1>1, <1>2 DEF InsertAccount, TypeOK
<1>4. TablesOK' /\ otps' = otps /\ tokens' = tokens /\ started' \in 0..MaxCalls
  BY <1>3 DEF InsertAccount, TypeOK, TablesOK, redis
<1>5. Finish(r)
  BY DEF InsertAccount
<1> QED
  BY <1>4, <1>5, FinishType, StepType

LEMMA RequestRoleType ==
  ASSUME TypeOK, NEW r \in Requests, RequestRole(r) PROVE TypeOK'
<1> DEFINE c == req[r].call
           new == [req[r].mem EXCEPT !.requested = c.arg]
           e == [user |-> c.user, from |-> req[r].mem.role, to |-> NoRole,
                 requested |-> c.arg, by |-> c.by]
<1>1. /\ req[r].pc = "loaded" /\ c.user \in Users /\ c.by \in Users \cup {Nobody}
      /\ c.arg \in UserRole /\ req[r].mem \in User
  BY CallType DEF RequestRole, Writing
<1>2. new \in User
  BY <1>1 DEF User
<1>3. e \in RoleChange /\ roleLog' = Append(roleLog, e)
  BY <1>1 DEF RoleChange, User, RequestRole, RecordRoleChange
<1>4. rows' \in [Users -> User]
  BY <1>1, <1>2, SaveType DEF RequestRole
<1>5. TablesOK' /\ otps' = otps /\ tokens' = tokens /\ started' \in 0..MaxCalls
  BY <1>3, <1>4 DEF RequestRole, TypeOK, TablesOK, redis
<1>6. Committed(r, new, "user.updated") /\ "user.updated" \in EventName
  BY DEF RequestRole, EventName
<1> QED
  BY <1>1, <1>2, <1>5, <1>6, CommittedType, StepType

LEMMA GrantRoleType ==
  ASSUME TypeOK, NEW r \in Requests, GrantRole(r) PROVE TypeOK'
<1> DEFINE c == req[r].call
           new == [req[r].mem EXCEPT !.role = c.arg, !.requested = NoRole]
           e == [user |-> c.user, from |-> req[r].mem.role, to |-> c.arg,
                 requested |-> NoRole, by |-> c.by]
<1>1. /\ req[r].pc = "loaded" /\ c.user \in Users /\ c.by \in Users \cup {Nobody}
      /\ c.arg \in UserRole /\ req[r].mem \in User
  BY CallType DEF GrantRole, Writing
<1>2. new \in User
  BY <1>1 DEF User
<1>3. e \in RoleChange /\ roleLog' = Append(roleLog, e)
  BY <1>1 DEF RoleChange, User, GrantRole, RecordRoleChange
<1>4. rows' \in [Users -> User]
  BY <1>1, <1>2, SaveType DEF GrantRole
<1>5. TablesOK' /\ otps' = otps /\ tokens' = tokens /\ started' \in 0..MaxCalls
  BY <1>3, <1>4 DEF GrantRole, TypeOK, TablesOK, redis
<1>6. Committed(r, new, "user.role_changed") /\ "user.role_changed" \in EventName
  BY DEF GrantRole, EventName
<1> QED
  BY <1>1, <1>2, <1>5, <1>6, CommittedType, StepType

LEMMA SetStatusType ==
  ASSUME TypeOK, NEW r \in Requests, SetStatus(r) PROVE TypeOK'
<1> DEFINE c == req[r].call
           new == [req[r].mem EXCEPT !.status = c.arg]
           e == [user |-> c.user, from |-> req[r].mem.status, to |-> c.arg, by |-> c.by]
<1>1. /\ req[r].pc = "loaded" /\ c.user \in Users /\ c.by \in Users
      /\ c.arg \in UserStatus /\ req[r].mem \in User
  BY CallType DEF SetStatus, Writing
<1>2. req[r].mem.status # Unregistered
  BY DEF SetStatus, Writing, TypeOK, RequestOK
<1>3. new \in User
  BY <1>1 DEF User
<1>4. e \in StatusChange /\ statusLog' = Append(statusLog, e)
  BY <1>1, <1>2 DEF StatusChange, User, SetStatus, RecordStatusChange
<1>5. rows' \in [Users -> User]
  BY <1>1, <1>3, SaveType DEF SetStatus
<1>6. tokens' \in Seq(Token) /\ DOMAIN tokens' = DOMAIN tokens
  BY AllRevokedType DEF SetStatus, TypeOK
<1>7. TablesOK' /\ otps' = otps /\ started' \in 0..MaxCalls
  BY <1>4, <1>5, <1>6 DEF SetStatus, TypeOK, TablesOK, redis
<1>8. Committed(r, new, StatusEventName(c.arg)) /\ StatusEventName(c.arg) \in EventName
  BY DEF SetStatus, EventName, StatusEventName
<1> QED
  BY <1>1, <1>3, <1>6, <1>7, <1>8, CommittedType, StepType

LEMMA DecideType ==
  ASSUME TypeOK, NEW r \in Requests, Decide(r) PROVE TypeOK'
<1> DEFINE c == req[r].call
           user == req[r].mem
           approved == c.arg = "approve"
           granted == IF approved THEN user.requested ELSE NoRole
           new == [user EXCEPT !.requested = NoRole,
                               !.role = IF approved THEN user.requested ELSE @,
                               !.status = IF @ = "pending_kyc" THEN "active" ELSE @]
           e == [user |-> c.user, from |-> user.status, to |-> new.status, by |-> c.by]
           g == [user |-> c.user, from |-> user.role, to |-> granted,
                 requested |-> user.requested, by |-> c.by]
<1>1. req[r].pc = "loaded" /\ c.user \in Users /\ c.by \in Users /\ user \in User
  BY CallType DEF Decide, Writing
<1>2. user.status # Unregistered /\ user.requested # NoRole
  BY DEF Decide, Writing, TypeOK, RequestOK
<1>3. user.status \in UserStatus /\ user.requested \in UserRole /\ user.role \in UserRole
  BY <1>1, <1>2 DEF User
<1>4. new \in User /\ new.status \in UserStatus
  BY <1>1, <1>3 DEF User, UserStatus
<1>5. e \in StatusChange /\ g \in RoleChange
  BY <1>1, <1>3, <1>4 DEF StatusChange, RoleChange
<1>6. statusLog' \in Seq(StatusChange)
  <2>1. statusLog' = Append(statusLog, e) \/ statusLog' = statusLog
    BY DEF Decide, RecordStatusChange
  <2>2. \A x \in StatusChange : Append(statusLog, x) \in Seq(StatusChange)
    BY DEF TypeOK
  <2> HIDE DEF e
  <2> QED
    BY <1>5, <2>1, <2>2 DEF TypeOK
<1>7. roleLog' \in Seq(RoleChange)
  BY <1>5 DEF Decide, RecordRoleChange, TypeOK
<1>8. rows' \in [Users -> User]
  BY <1>1, <1>4, SaveType DEF Decide
<1>9. TablesOK' /\ otps' = otps /\ tokens' = tokens /\ started' \in 0..MaxCalls
  BY <1>6, <1>7, <1>8 DEF Decide, TypeOK, TablesOK, redis
<1>10. Committed(r, new, DecisionEvent(approved)) /\ DecisionEvent(approved) \in EventName
  BY DEF Decide, EventName, DecisionEvent
<1> QED
  BY <1>1, <1>4, <1>9, <1>10, CommittedType, StepType

LEMMA EditProfileType ==
  ASSUME TypeOK, NEW r \in Requests, EditProfile(r) PROVE TypeOK'
<1> DEFINE new == [req[r].mem EXCEPT !.name = req[r].call.arg]
<1>1. req[r].pc = "loaded" /\ req[r].call.arg \in Names /\ req[r].mem \in User
  BY CallType DEF EditProfile, Writing
<1>2. new \in User
  BY <1>1 DEF User
<1>3. rows' \in [Users -> User]
  BY <1>1, <1>2, SaveType DEF EditProfile
<1>4. TablesOK' /\ otps' = otps /\ tokens' = tokens /\ started' \in 0..MaxCalls
  BY <1>3 DEF EditProfile, TypeOK, TablesOK, redis
<1>5. Committed(r, new, "user.updated") /\ "user.updated" \in EventName
  BY DEF EditProfile, EventName
<1> QED
  BY <1>1, <1>2, <1>4, <1>5, CommittedType, StepType

LEMMA AccountStepType ==
  ASSUME TypeOK, NEW r \in Requests, AccountStep(r) PROVE TypeOK'
BY LoadAccountType, LookUpPhoneType, InsertAccountType, RequestRoleType, GrantRoleType,
   SetStatusType, DecideType, EditProfileType
   DEF AccountStep

-----------------------------------------------------------------------------
(* The commands on a session.                                              *)

LEMMA FindOtpType ==
  ASSUME TypeOK, NEW r \in Requests, FindOtp(r) PROVE TypeOK'
<1>1. CASE Finish(r)
  BY <1>1, EndType DEF FindOtp
<1>2. ASSUME NEW o \in LiveOtps(req[r].call.user),
             req' = [req EXCEPT ![r].pc = "otpFound", ![r].item = o]
      PROVE  TypeOK'
  <2> DEFINE q == [req[r] EXCEPT !.pc = "otpFound", !.item = o]
  <2>1. req[r] \in RequestState /\ req[r].call \in Calls
    BY CallType DEF FindOtp
  <2>2. o \in DOMAIN otps /\ o \in Nat
    BY DEF LiveOtps, TypeOK
  <2>3. q \in RequestState
    BY <2>1, <2>2 DEF RequestState, ProgramPoint
  <2>4. q.pc = "otpFound" /\ q.call = req[r].call /\ q.item = o /\ q.call.op = "VerifyOtp"
    BY <2>1 DEF RequestState, FindOtp
  <2>5. RequestOK(q)
    BY <2>1, <2>2, <2>4 DEF RequestOK
  <2>6. req' = [req EXCEPT ![r] = q]
    BY <1>2, <2>1 DEF TypeOK
  <2> QED
    BY <2>3, <2>5, <2>6, MoveType DEF FindOtp
<1> QED
  BY <1>1, <1>2 DEF FindOtp

LEMMA CountWrongCodeType ==
  ASSUME TypeOK, NEW r \in Requests, CountWrongCode(r) PROVE TypeOK'
<1> DEFINE o == req[r].item
           attempts == otps[o].attempts + 1
           code == [otps[o] EXCEPT !.attempts = attempts,
                                   !.consumed = IF CeilingReached(attempts) THEN TRUE ELSE @]
<1>1. o \in DOMAIN otps /\ otps[o] \in Otp
  BY DEF CountWrongCode, TypeOK, RequestOK
<1>2. code \in Otp
  <2>1. \A a \in Nat, b \in BOOLEAN :
          [otps[o] EXCEPT !.attempts = a, !.consumed = b] \in Otp
    BY <1>1 DEF Otp
  <2>2. attempts \in Nat /\ otps[o].consumed \in BOOLEAN
    BY <1>1 DEF Otp
  <2> QED
    BY <2>1, <2>2
<1>3. otps' = [otps EXCEPT ![o] = code]
  BY <1>1 DEF CountWrongCode, TypeOK
<1>4. otps' \in Seq(Otp) /\ DOMAIN otps' = DOMAIN otps
  BY <1>1, <1>2, <1>3, ExceptSeq DEF TypeOK
<1>5. TablesOK' /\ tokens' = tokens /\ started' \in 0..MaxCalls
  BY <1>4 DEF CountWrongCode, TypeOK, TablesOK, redis
<1>6. Finish(r)
  BY DEF CountWrongCode
<1> QED
  BY <1>4, <1>5, <1>6, FinishType, StepType

LEMMA ConsumeOtpType ==
  ASSUME TypeOK, NEW r \in Requests, ConsumeOtp(r) PROVE TypeOK'
<1>1. /\ req[r] \in RequestState /\ req[r].call \in Calls
      /\ req[r].item \in DOMAIN otps /\ req[r].item \in Nat
      /\ req[r].call.op = "VerifyOtp"
  BY CallType DEF ConsumeOtp, TypeOK, RequestOK
<1>2. ASSUME NEW lock \in {req[r].lock, req[r].item},
             req' = [req EXCEPT ![r].pc = "otpConsumed", ![r].lock = lock]
      PROVE  TypeOK'
  <2> DEFINE q == [req[r] EXCEPT !.pc = "otpConsumed", !.lock = lock]
  <2>1. q \in RequestState
    BY <1>1 DEF RequestState, ProgramPoint
  <2>2. /\ q.pc = "otpConsumed" /\ q.call = req[r].call /\ q.item = req[r].item
        /\ q.call.op = "VerifyOtp"
    BY <1>1 DEF RequestState
  <2>3. RequestOK(q)
    BY <1>1, <2>2 DEF RequestOK
  <2>4. req' = [req EXCEPT ![r] = q]
    BY <1>1, <1>2 DEF TypeOK
  <2> QED
    BY <2>1, <2>3, <2>4, MoveType DEF ConsumeOtp
<1>3. CASE otps[req[r].item].consumed /\ req' = [req EXCEPT ![r].pc = "otpConsumed"]
  <2>1. req' = [req EXCEPT ![r].pc = "otpConsumed", ![r].lock = req[r].lock]
    BY <1>1, <1>3 DEF TypeOK, RequestState
  <2> QED
    BY <1>2, <2>1
<1> QED
  BY <1>2, <1>3 DEF ConsumeOtp

LEMMA LoadVerifiedAccountType ==
  ASSUME TypeOK, NEW r \in Requests, LoadVerifiedAccount(r) PROVE TypeOK'
<1> DEFINE user == rows[req[r].call.user]
           q == [req[r] EXCEPT !.pc = "loaded", !.mem = user, !.base = user]
<1>1. CASE ~RejectedAtLogin(user)
  <2>1. /\ req[r] \in RequestState /\ req[r].call \in Calls /\ user \in User
        /\ req[r].item \in DOMAIN otps
    BY CallType DEF LoadVerifiedAccount, TypeOK, RequestOK
  <2>2. q \in RequestState
    BY <2>1 DEF RequestState, ProgramPoint
  <2>3. q.pc = "loaded" /\ q.call = req[r].call /\ q.mem = user /\ q.item = req[r].item
    BY <2>1 DEF RequestState
  <2>4. q.call.op = "VerifyOtp"
    BY <2>3 DEF LoadVerifiedAccount, TypeOK, RequestOK
  <2>5. RequestOK(q)
    BY <1>1, <2>1, <2>3, <2>4 DEF RequestOK, RejectedAtLogin
  <2>6. req' = [req EXCEPT ![r] = q]
    BY <1>1, <2>1 DEF LoadVerifiedAccount, TypeOK
  <2> QED
    BY <2>2, <2>5, <2>6, MoveType DEF LoadVerifiedAccount
<1>2. CASE RejectedAtLogin(user)
  BY <1>2, EndType DEF LoadVerifiedAccount
<1> QED
  BY <1>1, <1>2

\* OpenSession: the OTP stays where it is, consumed, and the table of tokens grows.
LEMMA OpenSessionType ==
  ASSUME TypeOK, NEW r \in Requests, Verifying(r), OpenSession(r)
  PROVE  /\ otps' \in Seq(Otp) /\ DOMAIN otps' = DOMAIN otps
         /\ tokens' \in Seq(Token) /\ DOMAIN tokens \subseteq DOMAIN tokens'
<1> DEFINE o == req[r].item
           token == [user |-> req[r].call.user, revoked |-> FALSE, parent |-> 0, otp |-> o]
<1>1. /\ o \in DOMAIN otps /\ o \in Nat /\ otps[o] \in Otp /\ req[r].call.user \in Users
  BY CallType DEF Verifying, TypeOK, RequestOK
<1>2. [otps[o] EXCEPT !.consumed = TRUE] \in Otp
  BY <1>1 DEF Otp
<1>3. otps' = [otps EXCEPT ![o] = [otps[o] EXCEPT !.consumed = TRUE]]
  BY <1>1 DEF OpenSession, TypeOK
<1>4. token \in Token /\ tokens' = Append(tokens, token)
  BY <1>1 DEF Token, OpenSession, WithToken
<1> QED
  BY <1>1, <1>2, <1>3, <1>4, ExceptSeq DEF TypeOK

LEMMA ActivateAccountType ==
  ASSUME TypeOK, NEW r \in Requests, ActivateAccount(r) PROVE TypeOK'
<1> DEFINE c == req[r].call
           user == req[r].mem
           new == [user EXCEPT !.status = IF user.requested # NoRole THEN "pending_kyc"
                                                                     ELSE "active"]
           e == [user |-> c.user, from |-> "pending_verification", to |-> new.status,
                 by |-> Nobody]
<1>1. req[r].pc = "loaded" /\ c.user \in Users /\ user \in User /\ Verifying(r)
  BY CallType DEF ActivateAccount, Verifying
<1>2. new \in User /\ new.status \in UserStatus
  BY <1>1 DEF User, UserStatus
<1>3. e \in StatusChange /\ statusLog' = Append(statusLog, e)
  BY <1>1, <1>2 DEF StatusChange, UserStatus, ActivateAccount, RecordStatusChange
<1>4. statusLog' \in Seq(StatusChange)
  <2>1. \A x \in StatusChange : Append(statusLog, x) \in Seq(StatusChange)
    BY DEF TypeOK
  <2> HIDE DEF e
  <2> QED
    BY <1>3, <2>1
<1>5. rows' \in [Users -> User]
  BY <1>1, <1>2, SaveType DEF ActivateAccount
<1>6. /\ otps' \in Seq(Otp) /\ DOMAIN otps' = DOMAIN otps
      /\ tokens' \in Seq(Token) /\ DOMAIN tokens \subseteq DOMAIN tokens'
  BY <1>1, OpenSessionType DEF ActivateAccount
<1>7. TablesOK' /\ started' \in 0..MaxCalls
  BY <1>4, <1>5, <1>6 DEF ActivateAccount, TypeOK, TablesOK, redis
<1>8. Committed(r, new, "user.registered") /\ "user.registered" \in EventName
  BY DEF ActivateAccount, EventName
<1> QED
  BY <1>1, <1>2, <1>6, <1>7, <1>8, CommittedType, StepType

LEMMA LogInType ==
  ASSUME TypeOK, NEW r \in Requests, LogIn(r) PROVE TypeOK'
<1>1. req[r].pc = "loaded" /\ req[r].mem \in User /\ Verifying(r)
  BY CallType DEF LogIn, Verifying
<1>2. /\ otps' \in Seq(Otp) /\ DOMAIN otps' = DOMAIN otps
      /\ tokens' \in Seq(Token) /\ DOMAIN tokens \subseteq DOMAIN tokens'
  BY <1>1, OpenSessionType DEF LogIn
<1>3. TablesOK' /\ started' \in 0..MaxCalls
  BY <1>2 DEF LogIn, TypeOK, TablesOK, redis
<1>4. Committed(r, req[r].mem, "none")
  BY DEF LogIn
<1> QED
  BY <1>1, <1>2, <1>3, <1>4, CommittedType, StepType

LEMMA FindTokenType ==
  ASSUME TypeOK, NEW r \in Requests, FindToken(r) PROVE TypeOK'
<1> DEFINE c == req[r].call
           found == c.item \in DOMAIN tokens
           point == IF c.op = "Refresh" /\ tokens[c.item].revoked
                    THEN "replayed" ELSE "tokenFound"
           q == [req[r] EXCEPT !.item = c.item, !.pc = point]
<1>1. CASE Finish(r)
  BY <1>1, EndType DEF FindToken
<1>2. CASE found /\ req' = [req EXCEPT ![r].item = c.item, ![r].pc = point]
  <2>1. req[r] \in RequestState /\ c \in Calls /\ c.item \in Nat
    BY CallType DEF FindToken
  <2>2. point \in {"replayed", "tokenFound"} /\ point \in ProgramPoint
    BY DEF ProgramPoint
  <2>3. q \in RequestState /\ q.pc = point /\ q.call = c /\ q.item = c.item
    <3> HIDE DEF point
    <3> QED
      BY <2>1, <2>2 DEF RequestState
  <2>4. RequestOK(q)
    BY <1>2, <2>1, <2>2, <2>3 DEF RequestOK
  <2>5. req' = [req EXCEPT ![r] = q]
    BY <1>2, <2>1 DEF TypeOK
  <2> QED
    BY <2>3, <2>4, <2>5, MoveType DEF FindToken
<1> QED
  BY <1>1, <1>2 DEF FindToken

LEMMA CloseAllSessionsType ==
  ASSUME TypeOK, NEW r \in Requests, CloseAllSessions(r) PROVE TypeOK'
<1>1. tokens' \in Seq(Token) /\ DOMAIN tokens' = DOMAIN tokens
  BY AllRevokedType DEF CloseAllSessions, TypeOK
<1>2. TablesOK' /\ otps' = otps /\ started' \in 0..MaxCalls /\ Finish(r)
  BY <1>1 DEF CloseAllSessions, TypeOK, TablesOK, redis
<1> QED
  BY <1>1, <1>2, FinishType, StepType

LEMMA CloseSessionType ==
  ASSUME TypeOK, NEW r \in Requests, CloseSession(r) PROVE TypeOK'
<1>1. req[r].item \in DOMAIN tokens
  BY DEF CloseSession, TypeOK, RequestOK
<1>2. tokens' \in Seq(Token) /\ DOMAIN tokens' = DOMAIN tokens
  BY <1>1, RevokedType DEF CloseSession, TypeOK
<1>3. TablesOK' /\ otps' = otps /\ started' \in 0..MaxCalls /\ Finish(r)
  BY <1>2 DEF CloseSession, TypeOK, TablesOK, redis
<1> QED
  BY <1>2, <1>3, FinishType, StepType

LEMMA LoadSessionOwnerType ==
  ASSUME TypeOK, NEW r \in Requests, LoadSessionOwner(r) PROVE TypeOK'
<1> DEFINE user == rows[req[r].call.user]
           q == [req[r] EXCEPT !.pc = "loaded", !.mem = user]
<1>1. CASE user.status \in SessionAllowedStatuses
  <2>1. /\ req[r] \in RequestState /\ req[r].call \in Calls /\ user \in User
        /\ req[r].item \in DOMAIN tokens
    BY CallType DEF LoadSessionOwner, TypeOK, RequestOK
  <2>2. q \in RequestState
    BY <2>1 DEF RequestState, ProgramPoint
  <2>3. /\ q.pc = "loaded" /\ q.call = req[r].call /\ q.mem = user /\ q.item = req[r].item
        /\ q.call.op = "Refresh"
    BY <2>1 DEF RequestState, LoadSessionOwner
  <2>4. RequestOK(q)
    BY <1>1, <2>1, <2>3 DEF RequestOK, SessionAllowedStatuses, Unregistered
  <2>5. req' = [req EXCEPT ![r] = q]
    BY <1>1, <2>1 DEF LoadSessionOwner, TypeOK
  <2> QED
    BY <2>2, <2>4, <2>5, MoveType DEF LoadSessionOwner
<1>2. CASE user.status \notin SessionAllowedStatuses
  BY <1>2, EndType DEF LoadSessionOwner
<1> QED
  BY <1>1, <1>2

LEMMA RotateTokenType ==
  ASSUME TypeOK, NEW r \in Requests, RotateToken(r) PROVE TypeOK'
<1> DEFINE u == req[r].call.user
           user == req[r].mem
           token == [user |-> u, revoked |-> FALSE, parent |-> req[r].item, otp |-> 0]
           rest == Revoked(tokens, req[r].item)
<1>1. u \in Users /\ user \in User /\ req[r].item \in DOMAIN tokens /\ req[r].item \in Nat
  BY CallType DEF RotateToken, TypeOK, RequestOK
<1>2. rest \in Seq(Token) /\ DOMAIN rest = DOMAIN tokens
  BY <1>1, RevokedType DEF TypeOK
<1>3. token \in Token /\ tokens' = Append(rest, token)
  BY <1>1 DEF Token, RotateToken, WithToken
<1>4. tokens' \in Seq(Token) /\ DOMAIN tokens \subseteq DOMAIN tokens'
  <2> HIDE DEF token, rest
  <2> QED
    BY <1>2, <1>3
<1>5. access' \subseteq AccessToken
  BY <1>1 DEF RotateToken, TypeOK, AccessToken, User
<1>6. TablesOK' /\ otps' = otps /\ started' \in 0..MaxCalls /\ Finish(r)
  BY <1>4, <1>5 DEF RotateToken, TypeOK, TablesOK, redis
<1> QED
  BY <1>4, <1>6, FinishType, StepType

LEMMA SessionStepType ==
  ASSUME TypeOK, NEW r \in Requests, SessionStep(r) PROVE TypeOK'
BY FindOtpType, CountWrongCodeType, ConsumeOtpType, LoadVerifiedAccountType,
   ActivateAccountType, LogInType, FindTokenType, CloseAllSessionsType, CloseSessionType,
   LoadSessionOwnerType, RotateTokenType
   DEF SessionStep

-----------------------------------------------------------------------------
(* The query, and the life of a request.                                   *)

LEMMA ReadCacheType ==
  ASSUME TypeOK, NEW r \in Requests, ReadCache(r) PROVE TypeOK'
<1> DEFINE q == [req[r] EXCEPT !.pc = "cacheMissed"]
<1>1. CASE Finish(r)
  BY <1>1, EndType DEF ReadCache
<1>2. CASE req' = [req EXCEPT ![r].pc = "cacheMissed"]
  <2>1. req[r] \in RequestState /\ req[r].call \in Calls
    BY CallType DEF ReadCache
  <2>2. q \in RequestState
    BY <2>1 DEF RequestState, ProgramPoint
  <2>3. q.pc = "cacheMissed" /\ q.call = req[r].call
    BY <2>1 DEF RequestState
  <2>4. RequestOK(q)
    BY <2>1, <2>3 DEF RequestOK
  <2>5. req' = [req EXCEPT ![r] = q]
    BY <1>2, <2>1 DEF TypeOK
  <2> QED
    BY <2>2, <2>4, <2>5, MoveType DEF ReadCache
<1> QED
  BY <1>1, <1>2 DEF ReadCache

LEMMA ReadRowType ==
  ASSUME TypeOK, NEW r \in Requests, ReadRow(r) PROVE TypeOK'
<1> DEFINE u == req[r].call.user
           q == [req[r] EXCEPT !.pc = "rowRead", !.mem = rows[u]]
<1>1. CASE Registered(u)
  <2>1. req[r] \in RequestState /\ req[r].call \in Calls /\ rows[u] \in User
    BY CallType DEF ReadRow
  <2>2. q \in RequestState
    BY <2>1 DEF RequestState, ProgramPoint
  <2>3. q.pc = "rowRead" /\ q.call = req[r].call
    BY <2>1 DEF RequestState
  <2>4. RequestOK(q)
    BY <2>1, <2>3 DEF RequestOK
  <2>5. req' = [req EXCEPT ![r] = q]
    BY <1>1, <2>1 DEF ReadRow, TypeOK
  <2> QED
    BY <2>2, <2>4, <2>5, MoveType DEF ReadRow
<1>2. CASE ~Registered(u)
  BY <1>2, EndType DEF ReadRow
<1> QED
  BY <1>1, <1>2

LEMMA FillCacheType ==
  ASSUME TypeOK, NEW r \in Requests, FillCache(r) PROVE TypeOK'
<1>1. req[r].call.user \in Users /\ req[r].mem \in User
  BY CallType DEF FillCache
<1>2. CacheEntry(req[r].mem) \in User
  BY <1>1 DEF CacheEntry, User
<1>3. cache' \in [Users -> User]
  BY <1>1, <1>2 DEF FillCache, TypeOK
<1>4. /\ TablesOK' /\ otps' = otps /\ tokens' = tokens /\ started' \in 0..MaxCalls
      /\ Finish(r)
  BY <1>3 DEF FillCache, TypeOK, TablesOK, db
<1> QED
  BY <1>4, FinishType, StepType

LEMMA RereadType ==
  ASSUME TypeOK, NEW r \in Requests, Reread(r) PROVE TypeOK'
<1> DEFINE q == [req[r] EXCEPT !.base = rows[req[r].call.user]]
<1>1. req[r] \in RequestState /\ rows[req[r].call.user] \in User /\ RequestOK(req[r])
  BY CallType DEF Reread, TypeOK
<1>2. /\ q \in RequestState
      /\ q.pc = req[r].pc /\ q.call = req[r].call /\ q.item = req[r].item /\ q.mem = req[r].mem
  BY <1>1 DEF RequestState
<1>3. RequestOK(q)
  BY <1>1, <1>2 DEF RequestOK
<1>4. req' = [req EXCEPT ![r] = q]
  BY <1>1 DEF Reread, TypeOK
<1> QED
  BY <1>2, <1>3, <1>4, MoveType DEF Reread

LEMMA InvalidateType ==
  ASSUME TypeOK, NEW r \in Requests, Invalidate(r) PROVE TypeOK'
<1> DEFINE q == [req[r] EXCEPT !.pc = "invalidated"]
<1>1. req[r] \in RequestState /\ req[r].call \in Calls /\ req[r].call.user \in Users
  BY CallType DEF Invalidate
<1>2. q \in RequestState
  BY <1>1 DEF RequestState, ProgramPoint
<1>3. q.pc = "invalidated" /\ q.call = req[r].call
  BY <1>1 DEF RequestState
<1>4. req'[r] = q /\ req' = [req EXCEPT ![r] = req'[r]]
  BY <1>1 DEF Invalidate, TypeOK
<1>5. RequestOK(req[r])'
  BY <1>1, <1>3, <1>4 DEF RequestOK
<1>6. cache' \in [Users -> User]
  BY <1>1, IdleType DEF Invalidate, TypeOK
<1>7. TablesOK' /\ otps' = otps /\ tokens' = tokens /\ started' \in 0..MaxCalls
  BY <1>6 DEF Invalidate, TypeOK, TablesOK, db
<1> QED
  BY <1>2, <1>4, <1>5, <1>7, StepType

LEMMA PublishAndReplyType ==
  ASSUME TypeOK, NEW r \in Requests, PublishAndReply(r) PROVE TypeOK'
<1> DEFINE u == req[r].call.user
           e == [name |-> req[r].event, user |-> u, role |-> req[r].mem.role]
           t == [user |-> u, role |-> req[r].mem.role, status |-> req[r].mem.status]
<1>1. /\ u \in Users /\ req[r].mem.role \in UserRole
      /\ req[r].mem.status \in UserStatus \cup {Unregistered}
      /\ req[r].event \in EventName \cup {"none"}
  BY CallType DEF PublishAndReply, RequestState, User
<1>2. stream' \in Seq(Event)
  <2>1. CASE req[r].event # "none" /\ stream' = Append(stream, e)
    <3>1. e \in Event
      BY <1>1, <2>1 DEF Event
    <3> HIDE DEF e
    <3> QED
      BY <2>1, <3>1 DEF TypeOK
  <2> QED
    BY <2>1 DEF PublishAndReply, TypeOK
<1>3. access' \subseteq AccessToken
  BY <1>1 DEF PublishAndReply, TypeOK, AccessToken
<1>4. /\ TablesOK' /\ otps' = otps /\ tokens' = tokens /\ started' \in 0..MaxCalls
      /\ Finish(r)
  BY <1>2, <1>3 DEF PublishAndReply, TypeOK, TablesOK, db
<1> QED
  BY <1>4, FinishType, StepType

LEMMA BeginType ==
  ASSUME TypeOK, NEW r \in Requests, NEW c \in Calls, Begin(r, c) PROVE TypeOK'
<1> DEFINE q == [Idle EXCEPT !.pc = "admitted", !.call = c]
<1>1. q \in RequestState
  BY IdleType DEF RequestState, ProgramPoint
<1>2. q.pc = "admitted" /\ q.call = c
  BY DEF Idle
<1>3. req'[r] = q /\ req' = [req EXCEPT ![r] = req'[r]]
  BY DEF Begin, TypeOK
<1>4. RequestOK(req[r])'
  BY <1>2, <1>3 DEF RequestOK
<1>5. started' \in 0..MaxCalls
  BY ConstantsAssumption DEF Begin, TypeOK
<1> QED
  BY <1>1, <1>3, <1>4, <1>5, LocalStepType DEF Begin

LEMMA ExpireCacheEntryType ==
  ASSUME TypeOK, NEW u \in Users, ExpireCacheEntry(u) PROVE TypeOK'
<1>1. cache' \in [Users -> User]
  BY IdleType DEF ExpireCacheEntry, TypeOK
<1>2. \A r \in Requests : RequestOK(req[r])'
  BY DEF ExpireCacheEntry, TypeOK, RequestOK, db
<1> QED
  BY <1>1, <1>2 DEF ExpireCacheEntry, TypeOK, db

LEMMA StutterType == TypeOK /\ UNCHANGED vars => TypeOK'
<1> SUFFICES ASSUME TypeOK, UNCHANGED vars PROVE TypeOK'
  OBVIOUS
<1>1. \A r \in Requests : RequestOK(req[r])'
  BY DEF TypeOK, RequestOK, vars, db
<1> QED
  BY <1>1 DEF TypeOK, vars, db, redis

LEMMA NextType == TypeOK /\ [Next]_vars => TypeOK'
<1> SUFFICES ASSUME TypeOK, [Next]_vars PROVE TypeOK'
  OBVIOUS
<1>1. ASSUME NEW r \in Requests, NEW c \in Calls, Begin(r, c) PROVE TypeOK'
  BY <1>1, BeginType
<1>2. ASSUME NEW r \in Requests, Step(r) PROVE TypeOK'
  BY <1>2, AccountStepType, SessionStepType, ReadCacheType, ReadRowType, FillCacheType,
     RereadType, InvalidateType, PublishAndReplyType
     DEF Step, QueryStep
<1>3. ASSUME NEW r \in Requests, Crash(r) PROVE TypeOK'
  BY <1>3, EndType DEF Crash
<1>4. ASSUME NEW u \in Users, ExpireCacheEntry(u) PROVE TypeOK'
  BY <1>4, ExpireCacheEntryType
<1> QED
  BY <1>1, <1>2, <1>3, <1>4, StutterType DEF Next

\* Type correctness: whatever requests overlap, crash or find Redis down, the tables,
\* the cache and the stream keep the columns and values the code gives them, and no
\* handler past its early returns misses what it is about to write.
THEOREM TypeCorrect == Spec => []TypeOK
BY TypeInit, NextType, PTL DEF Spec

-----------------------------------------------------------------------------
(* Codes and refresh tokens: what opened a session is spent, and a code    *)
(* guessed at too often is burned.  Neither is ever undone, and a token    *)
(* names a code and a predecessor that exist, so that no code or token to  *)
(* come is named by one that is there already.                             *)

\* A token's credential is spent, and not one still to be issued.
Opened(t) ==
  /\ t.otp # 0 => t.otp \in DOMAIN otps /\ otps[t.otp].consumed
  /\ t.parent # 0 => t.parent \in DOMAIN tokens /\ tokens[t.parent].revoked

SpentInv ==
  /\ TypeOK
  /\ \A t \in DOMAIN tokens : Opened(tokens[t])
  /\ BurnedAtTheCeiling

\* Codes stay consumed, and are so when they reach the ceiling.
OtpsKept ==
  /\ DOMAIN otps \subseteq DOMAIN otps'
  /\ \A o \in DOMAIN otps : otps[o].consumed => otps'[o].consumed
  /\ BurnedAtTheCeiling'

\* Tokens stay revoked, and keep what they were issued for; a new one is accounted for.
TokensKept ==
  /\ DOMAIN tokens \subseteq DOMAIN tokens'
  /\ \A t \in DOMAIN tokens : /\ tokens[t].revoked => tokens'[t].revoked
                              /\ tokens'[t].otp = tokens[t].otp
                              /\ tokens'[t].parent = tokens[t].parent
  /\ \A t \in DOMAIN tokens' \ DOMAIN tokens : Opened(tokens[t])'

LEMMA SpentStep ==
  ASSUME SpentInv, TypeOK', OtpsKept, TokensKept
  PROVE  SpentInv'
<1>1. ASSUME NEW t \in DOMAIN tokens PROVE Opened(tokens[t])'
  <2>1. Opened(tokens[t]) /\ tokens'[t].otp = tokens[t].otp /\ tokens'[t].parent = tokens[t].parent
    BY DEF SpentInv, TokensKept
  <2> QED
    BY <2>1 DEF Opened, OtpsKept, TokensKept
<1>2. \A t \in DOMAIN tokens' : Opened(tokens[t])'
  BY <1>1 DEF TokensKept
<1> QED
  BY <1>2 DEF SpentInv, OtpsKept

\* A table that a step leaves alone.
LEMMA Untouched ==
  ASSUME SpentInv
  PROVE  /\ otps' = otps => OtpsKept
         /\ tokens' = tokens => TokensKept
BY DEF SpentInv, OtpsKept, TokensKept, BurnedAtTheCeiling

\* revoke_all_for_user.
LEMMA AllRevokedKept ==
  ASSUME SpentInv, NEW u, tokens' = AllRevoked(tokens, u)
  PROVE  TokensKept
<1>1. tokens \in Seq(Token)
  BY DEF SpentInv, TypeOK
<1>2. DOMAIN tokens' = DOMAIN tokens
  BY <1>1, AllRevokedType
<1>3. ASSUME NEW t \in DOMAIN tokens
      PROVE  /\ tokens[t].revoked => tokens'[t].revoked
             /\ tokens'[t].otp = tokens[t].otp
             /\ tokens'[t].parent = tokens[t].parent
  <2>1. tokens[t] \in Token
    BY <1>1
  <2>2. tokens'[t] = IF tokens[t].user = u THEN [tokens[t] EXCEPT !.revoked = TRUE]
                                           ELSE tokens[t]
    BY DEF AllRevoked
  <2> QED
    BY <2>1, <2>2 DEF Token
<1> QED
  BY <1>2, <1>3 DEF TokensKept

\* revoke.
LEMMA RevokedKept ==
  ASSUME NEW table \in Seq(Token), NEW i \in DOMAIN table
  PROVE  /\ Revoked(table, i) \in Seq(Token) /\ DOMAIN Revoked(table, i) = DOMAIN table
         /\ Revoked(table, i)[i].revoked
         /\ \A t \in DOMAIN table : /\ table[t].revoked => Revoked(table, i)[t].revoked
                                    /\ Revoked(table, i)[t].otp = table[t].otp
                                    /\ Revoked(table, i)[t].parent = table[t].parent
<1>1. \A t \in DOMAIN table : table[t] \in Token
  OBVIOUS
<1> QED
  BY <1>1, RevokedType DEF Revoked, Token

\* A verification that succeeds: its code is consumed in the transaction that inserts
\* the token.
LEMMA OpenSessionKept ==
  ASSUME SpentInv, NEW r \in Requests, Verifying(r), OpenSession(r)
  PROVE  OtpsKept /\ TokensKept
<1> DEFINE o == req[r].item
           token == [user |-> req[r].call.user, revoked |-> FALSE, parent |-> 0, otp |-> o]
<1>1. TypeOK /\ o \in DOMAIN otps /\ otps \in Seq(Otp) /\ tokens \in Seq(Token)
  BY CallType DEF SpentInv, Verifying, TypeOK, RequestOK
<1>2. \A p \in DOMAIN otps : otps[p] \in Otp
  BY <1>1
<1>3. otps' = [otps EXCEPT ![o] = [otps[o] EXCEPT !.consumed = TRUE]]
  BY <1>1 DEF OpenSession
<1>4. DOMAIN otps' = DOMAIN otps /\ otps'[o].consumed
  BY <1>1, <1>2, <1>3 DEF Otp
<1>5. \A p \in DOMAIN otps : /\ otps[p].consumed => otps'[p].consumed
                             /\ otps'[p].attempts = otps[p].attempts
  BY <1>1, <1>2, <1>3 DEF Otp
<1>6. OtpsKept
  BY <1>4, <1>5 DEF OtpsKept, SpentInv, BurnedAtTheCeiling
<1>7. tokens' = Append(tokens, token)
  BY DEF OpenSession, WithToken
<1>8. /\ DOMAIN tokens' = 1..(Len(tokens) + 1)
      /\ \A t \in DOMAIN tokens : tokens'[t] = tokens[t]
      /\ tokens'[Len(tokens) + 1] = token
  <2> HIDE DEF token
  <2> QED
    BY <1>1, <1>7
<1>9. ASSUME NEW t \in DOMAIN tokens' \ DOMAIN tokens PROVE Opened(tokens[t])'
  <2>1. tokens'[t] = token
    BY <1>1, <1>8
  <2> QED
    BY <1>1, <1>4, <2>1 DEF Opened
<1>10. DOMAIN tokens \subseteq DOMAIN tokens'
  BY <1>1, <1>8
<1> HIDE DEF token
<1>11. TokensKept
  BY <1>8, <1>9, <1>10 DEF TokensKept
<1> QED
  BY <1>6, <1>11

\* A rotation: the token presented is revoked in the transaction that inserts its
\* successor.
LEMMA RotateTokenKept ==
  ASSUME SpentInv, NEW r \in Requests, RotateToken(r)
  PROVE  TokensKept
<1> DEFINE i == req[r].item
           rest == Revoked(tokens, i)
           token == [user |-> req[r].call.user, revoked |-> FALSE, parent |-> i, otp |-> 0]
<1>1. tokens \in Seq(Token) /\ i \in DOMAIN tokens
  BY DEF SpentInv, RotateToken, TypeOK, RequestOK
<1>2. /\ rest \in Seq(Token) /\ DOMAIN rest = DOMAIN tokens /\ rest[i].revoked
      /\ \A t \in DOMAIN tokens : /\ tokens[t].revoked => rest[t].revoked
                                  /\ rest[t].otp = tokens[t].otp
                                  /\ rest[t].parent = tokens[t].parent
  BY <1>1, RevokedKept
<1>3. tokens' = Append(rest, token)
  BY DEF RotateToken, WithToken
<1>4. /\ DOMAIN tokens' = 1..(Len(tokens) + 1)
      /\ \A t \in DOMAIN tokens : tokens'[t] = rest[t]
      /\ tokens'[Len(tokens) + 1] = token
  <2>1. Len(rest) = Len(tokens)
    BY <1>1, <1>2
  <2> HIDE DEF token, rest
  <2> QED
    BY <1>1, <1>2, <1>3, <2>1
<1>5. DOMAIN tokens \subseteq DOMAIN tokens'
  BY <1>1, <1>4
<1>6. ASSUME NEW t \in DOMAIN tokens' \ DOMAIN tokens PROVE Opened(tokens[t])'
  <2>1. tokens'[t] = token
    BY <1>1, <1>4
  <2>2. tokens'[t].otp = 0 /\ tokens'[t].parent = i
    BY <2>1
  <2>3. tokens'[i].revoked /\ i \in DOMAIN tokens'
    BY <1>1, <1>2, <1>4, <1>5
  <2> QED
    BY <2>2, <2>3 DEF Opened
<1> HIDE DEF rest, token
<1> QED
  BY <1>2, <1>4, <1>5, <1>6 DEF TokensKept

\* A wrong guess: the count and the burning are one UPDATE.
LEMMA CountWrongCodeKept ==
  ASSUME SpentInv, NEW r \in Requests, CountWrongCode(r)
  PROVE  OtpsKept
<1> DEFINE o == req[r].item
           attempts == otps[o].attempts + 1
           burned == IF CeilingReached(attempts) THEN TRUE ELSE otps[o].consumed
<1>1. otps \in Seq(Otp) /\ o \in DOMAIN otps /\ \A p \in DOMAIN otps : otps[p] \in Otp
  BY DEF SpentInv, CountWrongCode, TypeOK, RequestOK
<1>2. otps' = [otps EXCEPT ![o] = [otps[o] EXCEPT !.attempts = attempts, !.consumed = burned]]
  BY <1>1 DEF CountWrongCode, Otp
<1>3. /\ DOMAIN otps' = DOMAIN otps
      /\ \A p \in DOMAIN otps \ {o} : otps'[p] = otps[p]
      /\ otps'[o].attempts = attempts /\ otps'[o].consumed = burned
  <2> HIDE DEF attempts, burned
  <2> QED
    BY <1>1, <1>2 DEF Otp
<1>4. /\ otps[o].consumed => otps'[o].consumed
      /\ otps'[o].attempts >= MaxAttempts => otps'[o].consumed
  BY <1>3 DEF CeilingReached
<1> QED
  BY <1>3, <1>4 DEF OtpsKept, SpentInv, BurnedAtTheCeiling

LEMMA AccountStepSpent ==
  ASSUME SpentInv, NEW r \in Requests, AccountStep(r)
  PROVE  OtpsKept /\ TokensKept
<1>1. OtpsKept
  <2>1. otps' = otps
    BY DEF AccountStep, LoadAccount, LookUpPhone, InsertAccount, RequestRole, GrantRole,
           SetStatus, Decide, EditProfile, db
  <2> QED
    BY <2>1, Untouched
<1>2. TokensKept
  <2>1. CASE SetStatus(r)
    BY <2>1, AllRevokedKept, Untouched DEF SetStatus
  <2>2. CASE ~SetStatus(r)
    <3>1. tokens' = tokens
      BY <2>2 DEF AccountStep, LoadAccount, LookUpPhone, InsertAccount, RequestRole, GrantRole,
                  Decide, EditProfile, db
    <3> QED
      BY <3>1, Untouched
  <2> QED
    BY <2>1, <2>2
<1> QED
  BY <1>1, <1>2

LEMMA SessionStepSpent ==
  ASSUME SpentInv, NEW r \in Requests, SessionStep(r)
  PROVE  OtpsKept /\ TokensKept
<1>1. CASE ActivateAccount(r) \/ LogIn(r)
  BY <1>1, OpenSessionKept DEF ActivateAccount, LogIn
<1>2. CASE RotateToken(r)
  BY <1>2, RotateTokenKept, Untouched DEF RotateToken
<1>3. CASE CountWrongCode(r)
  BY <1>3, CountWrongCodeKept, Untouched DEF CountWrongCode
<1>4. CASE CloseAllSessions(r)
  BY <1>4, AllRevokedKept, Untouched DEF CloseAllSessions
<1>5. CASE CloseSession(r)
  <2>1. tokens \in Seq(Token) /\ req[r].item \in DOMAIN tokens
    BY <1>5 DEF SpentInv, CloseSession, TypeOK, RequestOK
  <2>2. tokens' = Revoked(tokens, req[r].item) /\ otps' = otps
    BY <1>5 DEF CloseSession
  <2>3. TokensKept
    BY <2>1, <2>2, RevokedKept DEF TokensKept
  <2> QED
    BY <2>2, <2>3, Untouched
<1>6. CASE \/ FindOtp(r) \/ ConsumeOtp(r) \/ LoadVerifiedAccount(r)
           \/ FindToken(r) \/ LoadSessionOwner(r)
  <2>1. otps' = otps /\ tokens' = tokens
    BY <1>6 DEF FindOtp, ConsumeOtp, LoadVerifiedAccount, FindToken, LoadSessionOwner, db
  <2> QED
    BY <2>1, Untouched
<1> QED
  BY <1>1, <1>2, <1>3, <1>4, <1>5, <1>6 DEF SessionStep

LEMMA InitSpent == Init => SpentInv
<1> SUFFICES ASSUME Init PROVE SpentInv
  OBVIOUS
<1>1. \A t \in DOMAIN tokens : tokens[t].otp = 0 /\ tokens[t].parent = 0
  BY DEF Init
<1>2. \A o \in DOMAIN otps : otps[o].attempts = 0
  BY DEF Init
<1> QED
  BY <1>1, <1>2, TypeInit, ConstantsAssumption DEF SpentInv, Opened, BurnedAtTheCeiling

LEMMA NextSpent == SpentInv /\ [Next]_vars => SpentInv'
<1> SUFFICES ASSUME SpentInv, [Next]_vars PROVE SpentInv'
  OBVIOUS
<1>1. TypeOK'
  BY NextType DEF SpentInv
<1>2. OtpsKept /\ TokensKept
  <2>1. ASSUME NEW r \in Requests, AccountStep(r) \/ SessionStep(r)
        PROVE  OtpsKept /\ TokensKept
    BY <2>1, AccountStepSpent, SessionStepSpent
  <2>2. ASSUME NEW r \in Requests,
               \/ \E c \in Calls : Begin(r, c)
               \/ QueryStep(r) \/ Reread(r) \/ Invalidate(r) \/ PublishAndReply(r) \/ Crash(r)
        PROVE  otps' = otps /\ tokens' = tokens
    BY <2>2 DEF Begin, QueryStep, ReadCache, ReadRow, FillCache, Reread, Invalidate,
                PublishAndReply, Crash, db
  <2>3. ASSUME NEW u \in Users, ExpireCacheEntry(u) PROVE otps' = otps /\ tokens' = tokens
    BY <2>3 DEF ExpireCacheEntry, db
  <2>4. CASE UNCHANGED vars
    BY <2>4, Untouched DEF vars, db
  <2> QED
    BY <2>1, <2>2, <2>3, <2>4, Untouched DEF Next, Step
<1> QED
  BY <1>1, <1>2, SpentStep

\* VerifyOtp and RefreshAccessToken: the code or the refresh token that opened a
\* session is consumed or revoked for good, in whatever way the transactions of
\* the requests that use it overlap, crash or roll back.
THEOREM CredentialsSpent == Spec => []SpentCredentialsStaySpent
<1>1. SpentInv => SpentCredentialsStaySpent
  BY DEF SpentInv, Opened, SpentCredentialsStaySpent
<1> QED
  BY <1>1, InitSpent, NextSpent, PTL DEF Spec

\* VerifyOtp: whichever of the guesses that race reaches the ceiling burns the code,
\* and no verification brings it back.
THEOREM CodesBurned == Spec => []BurnedAtTheCeiling
<1>1. SpentInv => BurnedAtTheCeiling
  BY DEF SpentInv
<1> QED
  BY <1>1, InitSpent, NextSpent, PTL DEF Spec

-----------------------------------------------------------------------------
(* Events: for every event name that announces a commit, what is published *)
(* and what requests past their COMMIT still carry add up to the rows that *)
(* were committed, or fall short of them by what a crash or Redis lost.    *)

\* The events that announce a commit, and the commits they announce.
Announced == {"user.registered", "user.suspended", "user.role_changed"}

Activates(e) == e.from = "pending_verification" /\ e.by = Nobody

CommitRows(name, u) ==
  IF name = "user.role_changed"
  THEN {i \in DOMAIN roleLog : roleLog[i].user = u /\ roleLog[i].to # NoRole}
  ELSE {i \in DOMAIN statusLog :
          /\ statusLog[i].user = u
          /\ IF name = "user.suspended" THEN statusLog[i].to = "suspended"
                                        ELSE Activates(statusLog[i])}

Entries(name, u) == {i \in DOMAIN stream : stream[i].name = name /\ stream[i].user = u}

\* Requests that have committed and not published.
Carries(q) == q.pc \in {"committed", "invalidated"}
Carriers(name, u) ==
  {r \in Requests : Carries(req[r]) /\ req[r].event = name /\ req[r].call.user = u}

Busy == {r \in Requests : req[r].pc # "idle"}

Balanced(published, carried, committed) ==
  /\ published + carried <= committed
  /\ ~CrashesHappen /\ ~RedisFails => published + carried = committed

EventInv ==
  /\ TypeOK
  /\ IsFiniteSet(Busy)
  /\ \A name \in Announced, u \in Users :
       Balanced(Cardinality(Entries(name, u)), Cardinality(Carriers(name, u)),
                Cardinality(CommitRows(name, u)))

LEMMA FiniteRows ==
  ASSUME NEW s, NEW T, s \in Seq(T), NEW S \in SUBSET DOMAIN s
  PROVE  IsFiniteSet(S) /\ Cardinality(S) \in Nat
<1>1. IsFiniteSet(DOMAIN s)
  <2>1. DOMAIN s = 1..Len(s) /\ Len(s) \in Nat
    OBVIOUS
  <2> QED
    BY <2>1, FS_Interval
<1> QED
  BY <1>1, FS_Subset, FS_CardinalityType

LEMMA Counts ==
  ASSUME EventInv, NEW name, NEW u
  PROVE  /\ IsFiniteSet(Entries(name, u)) /\ Cardinality(Entries(name, u)) \in Nat
         /\ IsFiniteSet(Carriers(name, u)) /\ Cardinality(Carriers(name, u)) \in Nat
         /\ IsFiniteSet(CommitRows(name, u)) /\ Cardinality(CommitRows(name, u)) \in Nat
<1>1. stream \in Seq(Event) /\ statusLog \in Seq(StatusChange) /\ roleLog \in Seq(RoleChange)
  BY DEF EventInv, TypeOK
<1>2. Entries(name, u) \subseteq DOMAIN stream
  BY DEF Entries
<1>3. CommitRows(name, u) \subseteq DOMAIN roleLog \/ CommitRows(name, u) \subseteq DOMAIN statusLog
  BY DEF CommitRows
<1>4. Carriers(name, u) \subseteq Busy
  BY DEF Carriers, Carries, Busy
<1>5. IsFiniteSet(Carriers(name, u)) /\ Cardinality(Carriers(name, u)) \in Nat
  BY <1>4, FS_Subset, FS_CardinalityType DEF EventInv
<1> QED
  BY <1>1, <1>2, <1>3, <1>5, FiniteRows

\* Appending to a sequence adds one place.
LEMMA Appended ==
  ASSUME NEW T, NEW s \in Seq(T), NEW e
  PROVE  /\ DOMAIN Append(s, e) = DOMAIN s \cup {Len(s) + 1}
         /\ Len(s) + 1 \notin DOMAIN s
         /\ \A i \in DOMAIN s : Append(s, e)[i] = s[i]
         /\ Append(s, e)[Len(s) + 1] = e
OBVIOUS

LEMMA BusyStep ==
  ASSUME EventInv, NEW r, \A q \in Requests \ {r} : req'[q] = req[q]
  PROVE  IsFiniteSet(Busy)'
<1>1. Busy' \subseteq Busy \cup {r}
  BY DEF Busy
<1> QED
  BY <1>1, FS_AddElement, FS_Subset DEF EventInv

\* A step that moves no request past its commit, and publishes nothing: the event
\* that a lost request carried may be lost with it.
LEMMA QuietStep ==
  ASSUME EventInv, TypeOK', NEW r,
         \A q \in Requests \ {r} : req'[q] = req[q],
         UNCHANGED <<stream, statusLog, roleLog>>,
         \/ /\ Carries(req[r]) /\ Carries(req'[r])
            /\ req'[r].event = req[r].event /\ req'[r].call = req[r].call
         \/ ~Carries(req'[r]) /\ (~Carries(req[r]) \/ req[r].event \notin Announced)
         \/ ~Carries(req'[r]) /\ (CrashesHappen \/ RedisFails)
  PROVE  EventInv'
<1> SUFFICES ASSUME NEW name \in Announced, NEW u \in Users
             PROVE  Balanced(Cardinality(Entries(name, u)), Cardinality(Carriers(name, u)),
                             Cardinality(CommitRows(name, u)))'
  BY BusyStep DEF EventInv
<1>1. Entries(name, u)' = Entries(name, u) /\ CommitRows(name, u)' = CommitRows(name, u)
  BY DEF Entries, CommitRows
<1>2. Balanced(Cardinality(Entries(name, u)), Cardinality(Carriers(name, u)),
               Cardinality(CommitRows(name, u)))
  BY DEF EventInv
<1>3. CASE Carriers(name, u)' = Carriers(name, u)
  BY <1>1, <1>2, <1>3 DEF Balanced
<1>4. CASE Carriers(name, u)' # Carriers(name, u)
  <2>1. Carriers(name, u)' = Carriers(name, u) \ {r} /\ (CrashesHappen \/ RedisFails)
    BY <1>4 DEF Carriers
  <2>2. Cardinality(Carriers(name, u)') <= Cardinality(Carriers(name, u))
        /\ Cardinality(Carriers(name, u)') \in Nat
    BY <2>1, Counts, FS_Subset, FS_CardinalityType
  <2> QED
    BY <1>1, <1>2, <2>1, <2>2, Counts DEF Balanced
<1> QED
  BY <1>3, <1>4

\* A COMMIT: for each event that announces one, the row is in the history with the
\* request that carries it.
LEMMA CommitStep ==
  ASSUME EventInv, TypeOK', NEW r \in Requests,
         \A q \in Requests \ {r} : req'[q] = req[q],
         UNCHANGED stream, ~Carries(req[r]), Carries(req'[r]),
         \A name \in Announced, u \in Users :
           IF req'[r].event = name /\ req'[r].call.user = u
           THEN \E i : i \notin CommitRows(name, u)
                       /\ CommitRows(name, u)' = CommitRows(name, u) \cup {i}
           ELSE CommitRows(name, u)' = CommitRows(name, u)
  PROVE  EventInv'
<1> SUFFICES ASSUME NEW name \in Announced, NEW u \in Users
             PROVE  Balanced(Cardinality(Entries(name, u)), Cardinality(Carriers(name, u)),
                             Cardinality(CommitRows(name, u)))'
  BY BusyStep DEF EventInv
<1>1. Entries(name, u)' = Entries(name, u)
  BY DEF Entries
<1>2. Balanced(Cardinality(Entries(name, u)), Cardinality(Carriers(name, u)),
               Cardinality(CommitRows(name, u)))
  BY DEF EventInv
<1>3. CASE req'[r].event = name /\ req'[r].call.user = u
  <2>1. r \notin Carriers(name, u) /\ Carriers(name, u)' = Carriers(name, u) \cup {r}
    BY <1>3 DEF Carriers
  <2>2. PICK i : i \notin CommitRows(name, u)
                 /\ CommitRows(name, u)' = CommitRows(name, u) \cup {i}
    BY <1>3
  <2>3. Cardinality(Carriers(name, u)') = Cardinality(Carriers(name, u)) + 1
    BY <2>1, Counts, FS_AddElement
  <2>4. Cardinality(CommitRows(name, u)') = Cardinality(CommitRows(name, u)) + 1
    BY <2>2, Counts, FS_AddElement
  <2> QED
    BY <1>1, <1>2, <2>3, <2>4, Counts DEF Balanced
<1>4. CASE ~(req'[r].event = name /\ req'[r].call.user = u)
  <2>1. Carriers(name, u)' = Carriers(name, u) /\ CommitRows(name, u)' = CommitRows(name, u)
    BY <1>4 DEF Carriers
  <2> QED
    BY <1>1, <1>2, <2>1 DEF Balanced
<1> QED
  BY <1>3, <1>4

\* The rows a transaction appends to a history.
LEMMA StatusRowAdded ==
  ASSUME TypeOK, NEW e, statusLog' = Append(statusLog, e), NEW u, NEW name,
         name # "user.role_changed"
  PROVE  IF e.user = u /\ (IF name = "user.suspended" THEN e.to = "suspended" ELSE Activates(e))
         THEN \E i : i \notin CommitRows(name, u)
                     /\ CommitRows(name, u)' = CommitRows(name, u) \cup {i}
         ELSE CommitRows(name, u)' = CommitRows(name, u)
<1>1. statusLog \in Seq(StatusChange)
  BY DEF TypeOK
<1> DEFINE n == Len(statusLog) + 1
<1>2. /\ DOMAIN statusLog' = DOMAIN statusLog \cup {n} /\ n \notin DOMAIN statusLog
      /\ \A i \in DOMAIN statusLog : statusLog'[i] = statusLog[i]
      /\ statusLog'[n] = e
  BY <1>1, Appended
<1> HIDE DEF n
<1>3. n \notin CommitRows(name, u)
  BY <1>2 DEF CommitRows
<1> QED
  BY <1>2, <1>3 DEF CommitRows

LEMMA RoleRowAdded ==
  ASSUME TypeOK, NEW e, roleLog' = Append(roleLog, e), NEW u
  PROVE  IF e.user = u /\ e.to # NoRole
         THEN \E i : i \notin CommitRows("user.role_changed", u)
                     /\ CommitRows("user.role_changed", u)'
                          = CommitRows("user.role_changed", u) \cup {i}
         ELSE CommitRows("user.role_changed", u)' = CommitRows("user.role_changed", u)
<1>1. roleLog \in Seq(RoleChange)
  BY DEF TypeOK
<1> DEFINE n == Len(roleLog) + 1
<1>2. /\ DOMAIN roleLog' = DOMAIN roleLog \cup {n} /\ n \notin DOMAIN roleLog
      /\ \A i \in DOMAIN roleLog : roleLog'[i] = roleLog[i]
      /\ roleLog'[n] = e
  BY <1>1, Appended
<1> HIDE DEF n
<1>3. n \notin CommitRows("user.role_changed", u)
  BY <1>2 DEF CommitRows
<1> QED
  BY <1>2, <1>3 DEF CommitRows

LEMMA HistoryKept ==
  ASSUME NEW u, NEW name
  PROVE  /\ statusLog' = statusLog /\ name # "user.role_changed" =>
              CommitRows(name, u)' = CommitRows(name, u)
         /\ roleLog' = roleLog =>
              CommitRows("user.role_changed", u)' = CommitRows("user.role_changed", u)
BY DEF CommitRows

LEMMA Committing ==
  ASSUME TypeOK, NEW r \in Requests, req[r].pc = "loaded", NEW new, NEW event,
         Committed(r, new, event)
  PROVE  /\ \A q \in Requests \ {r} : req'[q] = req[q]
         /\ ~Carries(req[r]) /\ Carries(req'[r])
         /\ req'[r].event = event /\ req'[r].call = req[r].call
<1>1. req[r] \in RequestState /\ req \in [Requests -> RequestState]
  BY DEF TypeOK
<1>2. req' = [req EXCEPT ![r] = [req[r] EXCEPT !.pc = "committed", !.mem = new,
                                               !.event = event, !.lock = 0]]
  BY <1>1 DEF Committed
<1> QED
  BY <1>1, <1>2 DEF RequestState, Carries

LEMMA RequestRoleEvents ==
  ASSUME EventInv, TypeOK', NEW r \in Requests, RequestRole(r) PROVE EventInv'
<1> DEFINE c == req[r].call
           e == [user |-> c.user, from |-> req[r].mem.role, to |-> NoRole,
                 requested |-> c.arg, by |-> c.by]
<1>1. TypeOK /\ req[r].pc = "loaded"
  BY DEF EventInv, RequestRole, Writing
<1>2. /\ \A q \in Requests \ {r} : req'[q] = req[q]
      /\ ~Carries(req[r]) /\ Carries(req'[r])
      /\ req'[r].event = "user.updated" /\ req'[r].call = c
  BY <1>1, Committing DEF RequestRole
<1>3. roleLog' = Append(roleLog, e) /\ statusLog' = statusLog /\ stream' = stream
  BY DEF RequestRole, RecordRoleChange, redis
<1>4. ASSUME NEW name \in Announced, NEW u \in Users
      PROVE  CommitRows(name, u)' = CommitRows(name, u) /\ name # "user.updated"
  BY <1>1, <1>3, RoleRowAdded, HistoryKept DEF Announced
<1> QED
  BY <1>2, <1>3, <1>4, CommitStep

LEMMA GrantRoleEvents ==
  ASSUME EventInv, TypeOK', NEW r \in Requests, GrantRole(r) PROVE EventInv'
<1> DEFINE c == req[r].call
           e == [user |-> c.user, from |-> req[r].mem.role, to |-> c.arg,
                 requested |-> NoRole, by |-> c.by]
<1>1. TypeOK /\ req[r].pc = "loaded" /\ c.op = "ChangeRole"
  BY DEF EventInv, GrantRole, Writing
<1>2. /\ \A q \in Requests \ {r} : req'[q] = req[q]
      /\ ~Carries(req[r]) /\ Carries(req'[r])
      /\ req'[r].event = "user.role_changed" /\ req'[r].call = c
  BY <1>1, Committing DEF GrantRole
<1>3. roleLog' = Append(roleLog, e) /\ statusLog' = statusLog /\ stream' = stream
  BY DEF GrantRole, RecordRoleChange, redis
<1>4. c.arg # NoRole
  BY <1>1, CallType DEF UserRole, NoRole
<1>5. ASSUME NEW name \in Announced, NEW u \in Users
      PROVE  IF name = "user.role_changed" /\ c.user = u
             THEN \E i : i \notin CommitRows(name, u)
                         /\ CommitRows(name, u)' = CommitRows(name, u) \cup {i}
             ELSE CommitRows(name, u)' = CommitRows(name, u)
  BY <1>1, <1>3, <1>4, RoleRowAdded, HistoryKept
<1> QED
  BY <1>2, <1>3, <1>5, CommitStep

LEMMA SetStatusEvents ==
  ASSUME EventInv, TypeOK', NEW r \in Requests, SetStatus(r) PROVE EventInv'
<1> DEFINE c == req[r].call
           e == [user |-> c.user, from |-> req[r].mem.status, to |-> c.arg, by |-> c.by]
           event == StatusEventName(c.arg)
<1>1. TypeOK /\ req[r].pc = "loaded" /\ c.op = "ChangeStatus"
  BY DEF EventInv, SetStatus, Writing
<1>2. /\ \A q \in Requests \ {r} : req'[q] = req[q]
      /\ ~Carries(req[r]) /\ Carries(req'[r])
      /\ req'[r].event = event /\ req'[r].call = c
  BY <1>1, Committing DEF SetStatus
<1>3. statusLog' = Append(statusLog, e) /\ roleLog' = roleLog /\ stream' = stream
  BY DEF SetStatus, RecordStatusChange, redis
<1>4. ~Activates(e)
  BY <1>1, CallType, ConstantsAssumption DEF Activates
<1>5. ASSUME NEW name \in Announced, NEW u \in Users
      PROVE  IF event = name /\ c.user = u
             THEN \E i : i \notin CommitRows(name, u)
                         /\ CommitRows(name, u)' = CommitRows(name, u) \cup {i}
             ELSE CommitRows(name, u)' = CommitRows(name, u)
  <2>1. CASE name = "user.role_changed"
    BY <1>3, <2>1, HistoryKept DEF StatusEventName
  <2>2. CASE name = "user.registered"
    <3>1. event # name
      BY <2>2 DEF StatusEventName
    <3>2. CommitRows(name, u)' = CommitRows(name, u)
      BY <1>1, <1>3, <1>4, <2>2, StatusRowAdded
    <3> QED
      BY <3>1, <3>2
  <2>3. CASE name = "user.suspended"
    <3>1. event = name <=> e.to = "suspended"
      BY <2>3 DEF StatusEventName
    <3> HIDE DEF event
    <3> QED
      BY <1>1, <1>3, <2>3, <3>1, StatusRowAdded
  <2> QED
    BY <2>1, <2>2, <2>3 DEF Announced
<1> HIDE DEF event
<1> QED
  BY <1>2, <1>3, <1>5, CommitStep

LEMMA DecideEvents ==
  ASSUME EventInv, TypeOK', NEW r \in Requests, Decide(r) PROVE EventInv'
<1> DEFINE c == req[r].call
           user == req[r].mem
           approved == c.arg = "approve"
           event == DecisionEvent(approved)
           granted == IF approved THEN user.requested ELSE NoRole
           status == IF user.status = "pending_kyc" THEN "active" ELSE user.status
           e == [user |-> c.user, from |-> user.status, to |-> status, by |-> c.by]
           f == [user |-> c.user, from |-> user.role, to |-> granted,
                 requested |-> user.requested, by |-> c.by]
<1>1. TypeOK /\ req[r].pc = "loaded" /\ c.op = "DecideKyc" /\ user \in User
  BY CallType DEF EventInv, Decide, Writing
<1>2. /\ \A q \in Requests \ {r} : req'[q] = req[q]
      /\ ~Carries(req[r]) /\ Carries(req'[r])
      /\ req'[r].event = event /\ req'[r].call = c
  BY <1>1, Committing DEF Decide
<1>3. roleLog' = Append(roleLog, f) /\ stream' = stream
  BY DEF Decide, RecordRoleChange, redis
<1>4. statusLog' = statusLog \/ (statusLog' = Append(statusLog, e) /\ status = "active")
  BY <1>1 DEF Decide, RecordStatusChange, User
<1>5. ~Activates(e) /\ (event = "user.role_changed" <=> granted # NoRole)
      /\ event \in {"user.role_changed", "user.updated"}
  <2>1. c.by # Nobody /\ user.requested # NoRole
    BY <1>1, CallType, ConstantsAssumption DEF TypeOK, RequestOK
  <2> QED
    BY <2>1 DEF Activates, DecisionEvent
<1>6. ASSUME NEW name \in Announced, NEW u \in Users
      PROVE  IF event = name /\ c.user = u
             THEN \E i : i \notin CommitRows(name, u)
                         /\ CommitRows(name, u)' = CommitRows(name, u) \cup {i}
             ELSE CommitRows(name, u)' = CommitRows(name, u)
  <2>1. CASE name = "user.role_changed"
    <3>1. f.user = c.user /\ f.to = granted
      OBVIOUS
    <3> HIDE DEF event, granted, f
    <3> QED
      BY <1>1, <1>3, <1>5, <2>1, <3>1, RoleRowAdded
  <2>2. CASE name # "user.role_changed"
    <3>1. event # name
      BY <1>5, <2>2 DEF Announced
    <3>2. CommitRows(name, u)' = CommitRows(name, u)
      BY <1>1, <1>4, <1>5, <2>2, StatusRowAdded, HistoryKept
    <3> QED
      BY <3>1, <3>2
  <2> QED
    BY <2>1, <2>2
<1> HIDE DEF event
<1> QED
  BY <1>2, <1>3, <1>6, CommitStep

LEMMA ActivateAccountEvents ==
  ASSUME EventInv, TypeOK', NEW r \in Requests, ActivateAccount(r) PROVE EventInv'
<1> DEFINE c == req[r].call
           status == IF req[r].mem.requested # NoRole THEN "pending_kyc" ELSE "active"
           e == [user |-> c.user, from |-> "pending_verification", to |-> status,
                 by |-> Nobody]
<1>1. TypeOK /\ req[r].pc = "loaded" /\ req[r].mem \in User
  BY CallType DEF EventInv, ActivateAccount, Verifying
<1>2. /\ \A q \in Requests \ {r} : req'[q] = req[q]
      /\ ~Carries(req[r]) /\ Carries(req'[r])
      /\ req'[r].event = "user.registered" /\ req'[r].call = c
  BY <1>1, Committing DEF ActivateAccount
<1>3. statusLog' = Append(statusLog, e) /\ roleLog' = roleLog /\ stream' = stream
  BY <1>1 DEF ActivateAccount, RecordStatusChange, redis, User
<1>4. ASSUME NEW name \in Announced, NEW u \in Users
      PROVE  IF "user.registered" = name /\ c.user = u
             THEN \E i : i \notin CommitRows(name, u)
                         /\ CommitRows(name, u)' = CommitRows(name, u) \cup {i}
             ELSE CommitRows(name, u)' = CommitRows(name, u)
  <2>1. Activates(e) /\ e.user = c.user /\ e.to # "suspended"
    BY DEF Activates
  <2>2. CASE name = "user.role_changed"
    BY <1>3, <2>2, HistoryKept
  <2>3. CASE name # "user.role_changed"
    <3> HIDE DEF e
    <3> QED
      BY <1>1, <1>3, <2>1, <2>3, StatusRowAdded DEF Announced
  <2> QED
    BY <2>2, <2>3
<1> QED
  BY <1>2, <1>3, <1>4, CommitStep

\* EditProfile and LogIn commit nothing that has an event of these names.
LEMMA UnannouncedEvents ==
  ASSUME EventInv, TypeOK', NEW r \in Requests, EditProfile(r) \/ LogIn(r) PROVE EventInv'
<1>1. TypeOK /\ req[r].pc = "loaded"
  BY DEF EventInv, EditProfile, Writing, LogIn, Verifying
<1>2. /\ \A q \in Requests \ {r} : req'[q] = req[q]
      /\ ~Carries(req[r]) /\ Carries(req'[r])
      /\ req'[r].event \in {"user.updated", "none"}
  BY <1>1, Committing DEF EditProfile, LogIn
<1>3. UNCHANGED <<stream, statusLog, roleLog>>
  BY DEF EditProfile, LogIn, redis
<1>4. ASSUME NEW name \in Announced, NEW u \in Users
      PROVE  CommitRows(name, u)' = CommitRows(name, u) /\ req'[r].event # name
  BY <1>2, <1>3, HistoryKept DEF Announced
<1> QED
  BY <1>2, <1>3, <1>4, CommitStep

LEMMA PublishAndReplyEvents ==
  ASSUME EventInv, TypeOK', NEW r \in Requests, PublishAndReply(r) PROVE EventInv'
<1> DEFINE c == req[r].call
           e == [name |-> req[r].event, user |-> c.user, role |-> req[r].mem.role]
<1>1. /\ TypeOK /\ Carries(req[r])
      /\ \A q \in Requests \ {r} : req'[q] = req[q]
      /\ req'[r] = Idle /\ ~Carries(req'[r])
      /\ UNCHANGED <<statusLog, roleLog>>
  BY DEF EventInv, PublishAndReply, Finish, TypeOK, Carries, Idle, db
<1>2. CASE stream' = stream /\ (req[r].event = "none" \/ RedisFails)
  <2>1. req[r].event \notin Announced \/ RedisFails
    BY <1>2 DEF Announced
  <2> QED
    BY <1>1, <1>2, <2>1, QuietStep
<1>3. CASE stream' = Append(stream, e)
  <2> DEFINE n == Len(stream) + 1
  <2>1. /\ DOMAIN stream' = DOMAIN stream \cup {n} /\ n \notin DOMAIN stream
        /\ \A i \in DOMAIN stream : stream'[i] = stream[i]
        /\ stream'[n].name = req[r].event /\ stream'[n].user = c.user
    BY <1>1, <1>3, Appended DEF TypeOK
  <2> HIDE DEF n
  <2> SUFFICES ASSUME NEW name \in Announced, NEW u \in Users
               PROVE  Balanced(Cardinality(Entries(name, u)), Cardinality(Carriers(name, u)),
                               Cardinality(CommitRows(name, u)))'
    BY <1>1, BusyStep DEF EventInv
  <2>2. Balanced(Cardinality(Entries(name, u)), Cardinality(Carriers(name, u)),
                 Cardinality(CommitRows(name, u)))
    BY DEF EventInv
  <2>3. CommitRows(name, u)' = CommitRows(name, u)
    BY <1>1 DEF CommitRows
  <2>4. CASE req[r].event = name /\ c.user = u
    <3>1. n \notin Entries(name, u) /\ Entries(name, u)' = Entries(name, u) \cup {n}
      BY <2>1, <2>4 DEF Entries
    <3>2. r \in Carriers(name, u) /\ Carriers(name, u)' = Carriers(name, u) \ {r}
      BY <1>1, <2>4 DEF Carriers
    <3>3. Cardinality(Entries(name, u)') = Cardinality(Entries(name, u)) + 1
      BY <3>1, Counts, FS_AddElement
    <3>4. Cardinality(Carriers(name, u)') = Cardinality(Carriers(name, u)) - 1
      BY <3>2, Counts, FS_RemoveElement
    <3> QED
      BY <2>2, <2>3, <3>3, <3>4, Counts DEF Balanced
  <2>5. CASE ~(req[r].event = name /\ c.user = u)
    <3>1. Entries(name, u)' = Entries(name, u) /\ Carriers(name, u)' = Carriers(name, u)
      BY <1>1, <2>1, <2>5 DEF Entries, Carriers
    <3> QED
      BY <2>2, <2>3, <3>1 DEF Balanced
  <2> QED
    BY <2>4, <2>5
<1> QED
  BY <1>2, <1>3 DEF PublishAndReply

\* Steps between the admission and the COMMIT, those of a query, and the end of a
\* request that has committed nothing.
LEMMA UncommittedEvents ==
  ASSUME EventInv, TypeOK', NEW r \in Requests,
         \/ \E c \in Calls : Begin(r, c)
         \/ LoadAccount(r) \/ LookUpPhone(r) \/ InsertAccount(r)
         \/ FindOtp(r) \/ CountWrongCode(r) \/ ConsumeOtp(r) \/ LoadVerifiedAccount(r)
         \/ FindToken(r) \/ CloseAllSessions(r) \/ CloseSession(r) \/ LoadSessionOwner(r)
         \/ RotateToken(r) \/ QueryStep(r) \/ Reread(r)
  PROVE  EventInv'
<1>1. req \in [Requests -> RequestState] /\ req[r] \in RequestState
  BY DEF EventInv, TypeOK
<1>2. ~Carries(req[r]) /\ UNCHANGED <<stream, statusLog, roleLog>>
  BY DEF Carries, Begin, LoadAccount, LookUpPhone, InsertAccount, Writing, FindOtp,
         CountWrongCode, ConsumeOtp, LoadVerifiedAccount, FindToken, CloseAllSessions,
         CloseSession, LoadSessionOwner, RotateToken, QueryStep, ReadCache, ReadRow,
         FillCache, Reread, db, redis
<1>3. \A q \in Requests \ {r} : req'[q] = req[q]
  BY <1>1 DEF Begin, LoadAccount, LookUpPhone, InsertAccount, FindOtp, CountWrongCode,
              ConsumeOtp, LoadVerifiedAccount, FindToken, CloseAllSessions, CloseSession,
              LoadSessionOwner, RotateToken, QueryStep, ReadCache, ReadRow, FillCache,
              Reread, Finish
<1>4. ~Carries(req'[r])
  <2>1. CASE Finish(r)
    BY <1>1, <2>1 DEF Finish, Carries, Idle
  <2>2. CASE ~Finish(r)
    <3>1. ASSUME NEW c \in Calls, Begin(r, c) PROVE ~Carries(req'[r])
      <4>1. req'[r] = [Idle EXCEPT !.pc = "admitted", !.call = c]
        BY <1>1, <3>1 DEF Begin
      <4> QED
        BY <4>1 DEF Idle, Carries
    <3>2. CASE ~\E c \in Calls : Begin(r, c)
      <4>1. CASE LoadAccount(r) \/ LookUpPhone(r) \/ LoadVerifiedAccount(r) \/ LoadSessionOwner(r)
        BY <1>1, <2>2, <4>1 DEF LoadAccount, LookUpPhone, LoadVerifiedAccount, LoadSessionOwner,
                                RequestState, Carries
      <4>2. CASE FindOtp(r) \/ ConsumeOtp(r)
        BY <1>1, <2>2, <4>2 DEF FindOtp, ConsumeOtp, RequestState, Carries
      <4>3. CASE FindToken(r)
        BY <1>1, <2>2, <4>3 DEF FindToken, RequestState, Carries
      <4>4. CASE QueryStep(r)
        BY <1>1, <2>2, <4>4 DEF QueryStep, ReadCache, ReadRow, FillCache, RequestState, Carries
      <4>5. CASE Reread(r)
        BY <1>1, <4>5 DEF Reread, RequestState, Carries
      <4>6. ~(InsertAccount(r) \/ CountWrongCode(r) \/ CloseAllSessions(r) \/ CloseSession(r)
              \/ RotateToken(r))
        BY <2>2 DEF InsertAccount, CountWrongCode, CloseAllSessions, CloseSession, RotateToken
      <4> QED
        BY <3>2, <4>1, <4>2, <4>3, <4>4, <4>5, <4>6
    <3> QED
      BY <3>1, <3>2
  <2> QED
    BY <2>1, <2>2
<1> QED
  BY <1>2, <1>3, <1>4, QuietStep

LEMMA InvalidateEvents ==
  ASSUME EventInv, TypeOK', NEW r \in Requests, Invalidate(r) PROVE EventInv'
<1>1. req \in [Requests -> RequestState] /\ req[r] \in RequestState
  BY DEF EventInv, TypeOK
<1>2. /\ \A q \in Requests \ {r} : req'[q] = req[q]
      /\ Carries(req[r]) /\ Carries(req'[r])
      /\ req'[r].event = req[r].event /\ req'[r].call = req[r].call
      /\ UNCHANGED <<stream, statusLog, roleLog>>
  BY <1>1 DEF Invalidate, Carries, RequestState, db
<1> QED
  BY <1>2, QuietStep

LEMMA CrashEvents ==
  ASSUME EventInv, TypeOK', NEW r \in Requests, Crash(r) PROVE EventInv'
<1>1. /\ \A q \in Requests \ {r} : req'[q] = req[q]
      /\ req'[r] = Idle /\ ~Carries(req'[r]) /\ CrashesHappen
      /\ UNCHANGED <<stream, statusLog, roleLog>>
  BY DEF EventInv, TypeOK, Crash, Finish, Carries, Idle, db, redis
<1> QED
  BY <1>1, QuietStep

LEMMA UnchangedEvents ==
  ASSUME EventInv, TypeOK', UNCHANGED <<stream, statusLog, roleLog, req>> PROVE EventInv'
BY DEF EventInv, Entries, Carriers, CommitRows, Busy

LEMMA NextEvents == EventInv /\ [Next]_vars => EventInv'
<1> SUFFICES ASSUME EventInv, [Next]_vars PROVE EventInv'
  OBVIOUS
<1>1. TypeOK'
  BY NextType DEF EventInv
<1>2. ASSUME NEW r \in Requests, NEW c \in Calls, Begin(r, c) PROVE EventInv'
  BY <1>1, <1>2, UncommittedEvents
<1>3. ASSUME NEW r \in Requests, AccountStep(r) PROVE EventInv'
  BY <1>1, <1>3, UncommittedEvents, RequestRoleEvents, GrantRoleEvents, SetStatusEvents,
     DecideEvents, UnannouncedEvents
     DEF AccountStep
<1>4. ASSUME NEW r \in Requests, SessionStep(r) PROVE EventInv'
  BY <1>1, <1>4, UncommittedEvents, ActivateAccountEvents, UnannouncedEvents DEF SessionStep
<1>5. ASSUME NEW r \in Requests,
             QueryStep(r) \/ Reread(r) \/ Invalidate(r) \/ PublishAndReply(r) \/ Crash(r)
      PROVE  EventInv'
  BY <1>1, <1>5, UncommittedEvents, InvalidateEvents, PublishAndReplyEvents, CrashEvents
<1>6. CASE (\E u \in Users : ExpireCacheEntry(u)) \/ UNCHANGED vars
  BY <1>1, <1>6, UnchangedEvents DEF ExpireCacheEntry, vars, db, redis
<1> QED
  BY <1>2, <1>3, <1>4, <1>5, <1>6 DEF Next, Step

LEMMA InitEvents == Init => EventInv
<1> SUFFICES ASSUME Init PROVE EventInv
  OBVIOUS
<1>1. \A r \in Requests : req[r].pc = "idle"
  BY DEF Init, Idle
<1>2. Busy = {} /\ \A name, u : Carriers(name, u) = {}
  BY <1>1 DEF Busy, Carriers, Carries
<1>3. \A name, u : Entries(name, u) = {} /\ CommitRows(name, u) = {}
  BY DEF Init, Entries, CommitRows
<1> QED
  BY <1>2, <1>3, TypeInit, FS_EmptySet DEF EventInv, Balanced

\* What the three counters of EventsMatchCommits count.
LEMMA CommitCounters ==
  ASSUME NEW u
  PROVE  /\ Activations(u) = Cardinality(CommitRows("user.registered", u))
         /\ Suspensions(u) = Cardinality(CommitRows("user.suspended", u))
         /\ RoleGrants(u) = Cardinality(CommitRows("user.role_changed", u))
<1>1. {i \in StatusRows(u) : statusLog[i].from = "pending_verification"
                             /\ statusLog[i].by = Nobody} = CommitRows("user.registered", u)
  BY DEF CommitRows, StatusRows, Activates
<1>2. {i \in StatusRows(u) : statusLog[i].to = "suspended"} = CommitRows("user.suspended", u)
  BY DEF CommitRows, StatusRows
<1>3. {i \in DOMAIN roleLog : roleLog[i].user = u /\ roleLog[i].to # NoRole}
        = CommitRows("user.role_changed", u)
  BY DEF CommitRows
<1> QED
  BY <1>1, <1>2, <1>3 DEF Activations, Suspensions, RoleGrants, Count

\* Event bus, contract 4 (publication after the commit), for any number of requests
\* at once: an activation, a suspension or a grant is announced at most once, and
\* exactly once when neither a crash nor Redis loses the event.
THEOREM EventsFollowCommits == Spec => []EventsMatchCommits
<1>1. EventInv => EventsMatchCommits
  <2> SUFFICES ASSUME EventInv, NEW u \in Users, NEW name \in Announced
               PROVE  /\ Published(name, u) <= Cardinality(CommitRows(name, u))
                      /\ Quiescent /\ ~CrashesHappen /\ ~RedisFails =>
                           Published(name, u) = Cardinality(CommitRows(name, u))
    BY CommitCounters DEF EventsMatchCommits, Announced
  <2>1. Balanced(Cardinality(Entries(name, u)), Cardinality(Carriers(name, u)),
                 Cardinality(CommitRows(name, u)))
    BY DEF EventInv
  <2>2. Published(name, u) = Cardinality(Entries(name, u))
    BY DEF Published, Count, Entries
  <2>3. Quiescent => Carriers(name, u) = {}
    BY DEF Quiescent, Carriers, Carries
  <2> QED
    BY <2>1, <2>2, <2>3, Counts, FS_EmptySet DEF Balanced
<1> QED
  BY <1>1, InitEvents, NextEvents, PTL DEF Spec
=============================================================================
