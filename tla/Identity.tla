------------------------------- MODULE Identity -------------------------------
(***************************************************************************)
(* The identity service: every command and the profile query, handled      *)
(* concurrently over one database, one profile cache and one event stream. *)
(* The properties say what the repository says of the service; those that  *)
(* hold only when no account has two requests at once are checked and      *)
(* proved for SerialSpec, and refuted for Spec (see README.md).            *)
(***************************************************************************)
EXTENDS AccountCommands, SessionCommands, ProfileQueries

Init ==
  /\ rows = InitRows
  /\ statusLog = << >>
  /\ roleLog = << >>
  /\ otps = [o \in DOMAIN InitOtps |-> [user |-> InitOtps[o], consumed |-> FALSE, attempts |-> 0]]
  /\ tokens = [t \in DOMAIN InitTokens |->
                 [user |-> InitTokens[t], revoked |-> FALSE, parent |-> 0, otp |-> 0]]
  /\ cache = [u \in Users |-> NoUser]
  /\ stream = << >>
  /\ access = {[user |-> InitTokens[t], role |-> InitRows[InitTokens[t]].role,
                status |-> InitRows[InitTokens[t]].status] : t \in DOMAIN InitTokens}
  /\ req = [r \in Requests |-> Idle]
  /\ started = 0

\* What a request being handled may do next, other than crash.
Step(r) ==
  \/ AccountStep(r)
  \/ SessionStep(r)
  \/ QueryStep(r)
  \/ Reread(r)
  \/ Invalidate(r)
  \/ PublishAndReply(r)

Next ==
  \/ \E r \in Requests, c \in Calls : Begin(r, c)
  \/ \E r \in Requests : Step(r)
  \/ \E r \in Requests : Crash(r)
  \/ \E u \in Users : ExpireCacheEntry(u)

Spec == Init /\ [][Next]_vars

\* A coroutine whose await has completed is run again by the event loop, and
\* PostgreSQL and Redis answer: every request that can proceed does.
FairSpec == Spec /\ \A r \in Requests : WF_vars(Step(r))

-----------------------------------------------------------------------------
\* What a request holds while it is being handled.
RequestOK(q) ==
  LET verifying == q.pc = "loaded" /\ q.call.op = "VerifyOtp"
      rotating  == q.pc = "loaded" /\ q.call.op = "Refresh"
  IN  /\ q.pc # "idle" => q.call \in Calls
      /\ q.pc \in {"otpFound", "otpConsumed"} => q.call.op = "VerifyOtp"
      /\ q.pc \in {"otpFound", "otpConsumed"} \/ verifying => q.item \in DOMAIN otps
      /\ q.pc \in {"tokenFound", "replayed"} \/ rotating => q.item \in DOMAIN tokens
      /\ q.pc = "loaded" /\ q.call.op # "Register" => q.mem.status # Unregistered
      /\ q.pc = "loaded" /\ q.call.op = "DecideKyc" => q.mem.requested # NoRole

\* The tables, the stream and the requests have the columns and the values the code
\* gives them, and a handler past its early returns has what it needs to write:
\* an OTP or token that exists, a registered account, a request to decide on.
TypeOK ==
  /\ rows \in [Users -> User]
  /\ statusLog \in Seq(StatusChange)
  /\ roleLog \in Seq(RoleChange)
  /\ otps \in Seq(Otp)
  /\ tokens \in Seq(Token)
  /\ cache \in [Users -> User]
  /\ stream \in Seq(Event)
  /\ access \subseteq AccessToken
  /\ req \in [Requests -> RequestState]
  /\ started \in 0..MaxCalls
  /\ \A r \in Requests : RequestOK(req[r])

-----------------------------------------------------------------------------
(* Whatever the interleaving, with crashes and Redis failures.             *)

\* role_history: who was given which role.  An approved KYC file is a row whose
\* to_role is the role requested, signed by an admin.
Grants(e, u, role) ==
  /\ e.user = u /\ e.to = role
  /\ role \in KycRequiredRoles => e.requested = role /\ e.by \in Users

RoleBasis(u, role) ==
  \/ role = InitRows[u].role
  \/ \E i \in DOMAIN roleLog : Grants(roleLog[i], u, role)

\* The KYC gate (architecture 7.5).  A role an account holds, a cached profile
\* shows or an event announces was there from the start or was granted in the
\* audit trail: a driver or a merchant by an admin approving a request for that
\* very role, never by the module that asked, whatever stale copy of the row a
\* concurrent save() writes back.
RolesAreGranted ==
  /\ \A u \in Users : RoleBasis(u, rows[u].role)
  /\ \A u \in Users : CacheHit(u) => RoleBasis(u, cache[u].role)
  /\ \A i \in DOMAIN stream : RoleBasis(stream[i].user, stream[i].role)

\* An access token is signed from a copy of the row that may be old, but never for
\* a role that was not granted, nor for an account that was not allowed a session
\* (verify_otp.py, refresh_token.py).
AccessTokensAreEarned ==
  \A t \in access : t.status \in SessionAllowedStatuses /\ RoleBasis(t.user, t.role)

\* What makes the two invariants above inductive: every role a request carries in
\* memory has a basis as well, so that no stale save(), cache fill, event or token
\* can spread one that has not; and an account once registered stays so.
CarriesRole(q) ==
  \/ q.pc \in {"committed", "invalidated", "rowRead"}
  \/ q.pc = "loaded" /\ q.call.op # "Register"

CarriedRoleIsGranted(q) ==
  /\ CarriesRole(q) => Registered(q.call.user) /\ RoleBasis(q.call.user, q.mem.role)
  /\ q.pc = "loaded" /\ q.call.op = "VerifyOtp" => q.mem.status # "suspended"
  /\ \/ q.pc = "loaded" /\ q.call.op = "Refresh"
     \/ q.pc \in {"committed", "invalidated"} /\ q.call.op = "VerifyOtp"
     => q.mem.status \in SessionAllowedStatuses

ProvenanceInv ==
  /\ TypeOK
  /\ RolesAreGranted
  /\ AccessTokensAreEarned
  /\ \A u \in Users : ~Registered(u) => rows[u].role = "user"
  /\ \A r \in Requests : CarriedRoleIsGranted(req[r])

\* Was u given the admin role by one of the first n rows of the role history?
AdminWithin(u, n) ==
  \/ InitRows[u].role = "admin"
  \/ \E j \in 1..n : Grants(roleLog[j], u, "admin")

\* changed_by: every decision signed by a person is signed by someone who had been
\* made admin, by rows that precede it (require_admin, auth_deps.py).
AuthorityIsGranted ==
  /\ \A i \in DOMAIN roleLog : roleLog[i].by # Nobody => AdminWithin(roleLog[i].by, i - 1)
  /\ \A i \in DOMAIN statusLog :
       statusLog[i].by # Nobody => AdminWithin(statusLog[i].by, Len(roleLog))

Count(S) == Cardinality(S)
Published(name, u) == Count({i \in DOMAIN stream : stream[i].name = name /\ stream[i].user = u})
StatusRows(u) == {i \in DOMAIN statusLog : statusLog[i].user = u}

Activations(u) ==
  Count({i \in StatusRows(u) : statusLog[i].from = "pending_verification"
                               /\ statusLog[i].by = Nobody})
Suspensions(u) == Count({i \in StatusRows(u) : statusLog[i].to = "suspended"})
RoleGrants(u) == Count({i \in DOMAIN roleLog : roleLog[i].user = u /\ roleLog[i].to # NoRole})

Quiescent == \A r \in Requests : req[r].pc = "idle"

\* Publication comes after the commit (event bus, contract 4): no event announces
\* an activation, a suspension or a grant that is not committed, and the same
\* commit is never announced twice.  Once the requests are done, every one of them
\* was announced, unless a crash or a Redis failure lost the event.
EventsMatchCommits ==
  \A u \in Users :
    LET pairs == {<<Published("user.registered", u), Activations(u)>>,
                  <<Published("user.suspended", u), Suspensions(u)>>,
                  <<Published("user.role_changed", u), RoleGrants(u)>>}
    IN  \A p \in pairs :
          /\ p[1] <= p[2]
          /\ Quiescent /\ ~CrashesHappen /\ ~RedisFails => p[1] = p[2]

\* A credential that opened a session is spent for good: the OTP is consumed and
\* the refresh token revoked, even when the transactions of several requests that
\* use them overlap or roll back.
SpentCredentialsStaySpent ==
  \A t \in DOMAIN tokens :
    /\ tokens[t].otp # 0 => otps[tokens[t].otp].consumed
    /\ tokens[t].parent # 0 => tokens[tokens[t].parent].revoked

\* otp_max_attempts: a code wrongly guessed that often is burned, whichever of the
\* concurrent guesses reached the ceiling.
BurnedAtTheCeiling ==
  \A o \in DOMAIN otps : otps[o].attempts >= MaxAttempts => otps[o].consumed

\* No request waits for ever, on an OTP row lock in particular.
EveryRequestEnds == \A r \in Requests : req[r].pc # "idle" ~> req[r].pc = "idle"

-----------------------------------------------------------------------------
(* One request per account at a time.                                      *)

\* A call begins only when no other on its account is being handled.  The promises
\* below take it for granted; nothing in the code sees to it.
NobodyOn(u) == \A q \in Requests : req[q].pc # "idle" => req[q].call.user # u

SerialNext ==
  \/ \E r \in Requests, c \in Calls : NobodyOn(c.user) /\ Begin(r, c)
  \/ \E r \in Requests : Step(r)
  \/ \E r \in Requests : Crash(r)
  \/ \E u \in Users : ExpireCacheEntry(u)

SerialSpec == Init /\ [][SerialNext]_vars

\* entities.py: a status changes along ALLOWED_STATUS_TRANSITIONS only, in VerifyOtp
\* and DecideKyc too, which do not consult the table.
StatusFollowsTable ==
  [][\A u \in Users :
       \/ rows'[u].status = rows[u].status
       \/ CanTransition(rows[u].status, rows'[u].status)
       \/ rows[u].status = Unregistered /\ rows'[u].status = "pending_verification"]_rows

StatusRowIsExact(e) == e.from = rows[e.user].status /\ e.to = rows'[e.user].status

RoleRowIsExact(e) ==
  /\ e.from = rows[e.user].role
  /\ rows'[e.user].role = IF e.to = NoRole THEN e.from ELSE e.to

\* The audit trail agrees with the rows it audits: what a committed history row says
\* of its account is what that commit did, and no commit moves a status, a role or a
\* request without a row (interfaces.py, record_status_change / record_role_change).
AuditTrailIsExact ==
  [][LET newStatusRow == Len(statusLog') > Len(statusLog)
         newRoleRow == Len(roleLog') > Len(roleLog)
     IN  /\ newStatusRow => StatusRowIsExact(statusLog'[Len(statusLog')])
         /\ newRoleRow => RoleRowIsExact(roleLog'[Len(roleLog')])
         /\ \A u \in Users :
              /\ rows'[u].status # rows[u].status /\ Registered(u) =>
                   newStatusRow /\ statusLog'[Len(statusLog')].user = u
              /\ <<rows'[u].role, rows'[u].requested>> # <<rows[u].role, rows[u].requested>> =>
                   newRoleRow /\ roleLog'[Len(roleLog')].user = u
    ]_<<rows, statusLog, roleLog>>

\* user.registered once per account, however often it logs in (user_events.py).
RegisteredOnce == \A u \in Users : Published("user.registered", u) <= 1

\* change_status.py: the suspension bites at once, so that no refresh token of a
\* suspended account is live.
SuspendedHasNoSession ==
  \A t \in DOMAIN tokens : rows[tokens[t].user].status = "suspended" => tokens[t].revoked

\* verify_otp.py: replaying a verification cannot mint a second session.
OtpOpensOneSession ==
  \A s, t \in DOMAIN tokens : tokens[s].otp # 0 /\ tokens[s].otp = tokens[t].otp => s = t

\* Rotation: a refresh token is exchanged for one successor.
RotationYieldsOneSuccessor ==
  \A s, t \in DOMAIN tokens : tokens[s].parent # 0 /\ tokens[s].parent = tokens[t].parent => s = t

\* Past the ceiling of wrong guesses even the right code opens nothing.
BurnedCodeOpensNothing ==
  [][\A t \in DOMAIN tokens' \ DOMAIN tokens :
       tokens'[t].otp # 0 => otps[tokens'[t].otp].attempts < MaxAttempts]_tokens

\* cache.py: invalidation after every write keeps the cache correct.  What is cached
\* while nothing is in flight is what PostgreSQL holds, requested_role aside, unless
\* a crash or a Redis failure cost an invalidation.
CacheIsFresh ==
  Quiescent /\ ~CrashesHappen /\ ~RedisFails =>
    \A u \in Users : CacheHit(u) => cache[u] = CacheEntry(rows[u])

\* The rows, the codes still live and the refresh tokens not revoked, as AccountLedger
\* sees them.
LiveTokens(u) == {t \in DOMAIN tokens : tokens[t].user = u /\ ~tokens[t].revoked}

Ledger == INSTANCE AccountLedger
  WITH account <- rows,
       codes <- [u \in Users |-> LiveOtps(u)],
       sessions <- [u \in Users |-> LiveTokens(u)]

\* Every command has the effect of its handler run in an instant, on the account as
\* it is at the COMMIT: nothing it read before is stale, no column that another
\* command wrote is lost, no code or token it found live is used twice.
CommandsAreAtomic == Ledger!LedgerSpec

-----------------------------------------------------------------------------
(* Said by the repository, and not so even one request at a time.          *)

\* README: a decision always gets an account out of pending_kyc, which takes a
\* request to decide on.
PendingKycHasRequest ==
  \A u \in Users : rows[u].status = "pending_kyc" => rows[u].requested # NoRole
=============================================================================
