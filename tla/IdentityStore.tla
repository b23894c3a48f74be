---------------------------- MODULE IdentityStore ----------------------------
(***************************************************************************)
(* The state of the identity service and the repository operations its     *)
(* commands are built from.                                                *)
(*                                                                         *)
(*   PostgreSQL   rows, statusLog, roleLog, otps, tokens                   *)
(*   Redis        cache (profiles), stream (published events)              *)
(*   clients      access (the access tokens handed out)                    *)
(*   the server   req (requests being handled), started (how many so far)  *)
(*                                                                         *)
(* A request runs in one database session at READ COMMITTED.  Its SELECTs  *)
(* are steps of their own and every other request may run between them;    *)
(* its writes become visible together at COMMIT, so the flushes of one     *)
(* transaction and the COMMIT are one step.  The one exception is the row  *)
(* lock that VerifyOtp takes on the OTP before it reads the account: that  *)
(* lock is state (req[r].lock).                                            *)
(***************************************************************************)
EXTENDS IdentityDomain, Integers, Sequences, FiniteSets

CONSTANTS
  Users,            \* accounts; a phone number and its account are one value
  Nobody,           \* changed_by IS NULL: the system, or a service
  Names,            \* values of full_name
  NoName,           \* full_name IS NULL
  Requests,         \* how many requests the server handles at once
  Calls,            \* the calls clients, services and admins may make
  MaxCalls,         \* bound: how many calls are made in all
  MaxAttempts,      \* otp_max_attempts
  InitRows,         \* accounts already there (registered, migrated, bootstrapped)
  InitOtps,         \* owner of each OTP already issued, oldest first
  InitTokens,       \* owner of each live refresh token
  CrashesHappen,    \* may a request be cut short (worker killed, connection lost)?
  RedisFails        \* may a Redis call of a command fail (and be swallowed)?

VARIABLES rows, statusLog, roleLog, otps, tokens, cache, stream, access, req, started

db    == <<rows, statusLog, roleLog, otps, tokens>>
redis == <<cache, stream>>
vars  == <<db, redis, access, req, started>>

-----------------------------------------------------------------------------
\* identity.users, as far as a command or a query looks at it.
User == [role: UserRole, status: UserStatus \cup {Unregistered},
         requested: UserRole \cup {NoRole}, name: Names]

\* No row for this phone number; also "nothing cached" in the profile cache.
NoUser == [role |-> "user", status |-> Unregistered, requested |-> NoRole, name |-> NoName]

StatusChange == [user: Users, from: UserStatus, to: UserStatus, by: Users \cup {Nobody}]

RoleChange == [user: Users, from: UserRole, to: UserRole \cup {NoRole},
               requested: UserRole \cup {NoRole}, by: Users \cup {Nobody}]

Otp == [user: Users, consumed: BOOLEAN, attempts: Nat]

\* parent and otp are history: the token this one replaced, the OTP that opened it.
Token == [user: Users, revoked: BOOLEAN, parent: Nat, otp: Nat]

Event == [name: EventName, user: Users, role: UserRole]

AccessToken == [user: Users, role: UserRole, status: UserStatus \cup {Unregistered}]

Op == {"Register", "VerifyOtp", "ChangeRole", "ChangeStatus", "DecideKyc",
       "UpdateProfile", "Refresh", "Logout", "LogoutAll", "GetUser"}

\* arg: the role, status, decision or name asked for.  item: the refresh token
\* presented, or the OTP whose code was typed (0 for a code that matches none).
\* by: the admin making the call, or Nobody for a service.
Call == [op: Op, user: Users, by: Users \cup {Nobody}, item: Nat,
         arg: UserRole \cup UserStatus \cup Names \cup {"approve", "refuse", "-"}]

NoCall == [op |-> "none", user |-> Nobody, by |-> Nobody, item |-> 0, arg |-> "-"]

ProgramPoint == {"idle", "admitted", "otpFound", "otpConsumed", "tokenFound", "replayed",
                 "loaded", "committed", "invalidated", "cacheMissed", "rowRead"}

\* mem: the domain object the handler computes with.  base: the ORM row that
\* save() compares it with.  item: the OTP or token being handled.  lock: the
\* OTP row this transaction has locked, 0 if none.  event: what to publish.
RequestState == [pc: ProgramPoint, call: Calls \cup {NoCall}, mem: User, base: User,
                 item: Nat, lock: Nat, event: EventName \cup {"none"}]

Idle == [pc |-> "idle", call |-> NoCall, mem |-> NoUser, base |-> NoUser,
         item |-> 0, lock |-> 0, event |-> "none"]

ASSUME ConstantsAssumption ==
  /\ Nobody \notin Users
  /\ NoName \in Names
  /\ MaxCalls \in Nat
  /\ MaxAttempts \in Nat \ {0}
  /\ InitRows \in [Users -> User]
  /\ InitOtps \in Seq(Users)
  /\ InitTokens \in Seq(Users)
  /\ \A u \in Users : InitRows[u].status = Unregistered => InitRows[u] = NoUser
  /\ \A t \in DOMAIN InitTokens : InitRows[InitTokens[t]].status \in SessionAllowedStatuses
  /\ CrashesHappen \in BOOLEAN
  /\ RedisFails \in BOOLEAN

\* What request validation and the authentication dependencies let through.
ASSUME CallsAssumption ==
  \A c \in Calls :
    /\ c \in Call
    /\ c.op = "ChangeRole" => c.arg \in UserRole
    /\ c.op = "ChangeStatus" => c.arg \in UserStatus
    /\ c.op \in {"ChangeStatus", "DecideKyc"} => c.by \in Users
    /\ c.op = "DecideKyc" => c.arg \in {"approve", "refuse"}
    /\ c.op \in {"Register", "UpdateProfile"} => c.arg \in Names

-----------------------------------------------------------------------------
(* Repositories (infra/write_repository.py).                               *)

Registered(u) == rows[u].status # Unregistered

\* UserWriteRepository.save on a row that exists assigns every column; the ORM
\* sends the ones that differ from the row object it holds, and only those.
Overlay(new, base, current) ==
  LET column(n, b, c) == IF n # b THEN n ELSE c
  IN  [role      |-> column(new.role, base.role, current.role),
       status    |-> column(new.status, base.status, current.status),
       requested |-> column(new.requested, base.requested, current.requested),
       name      |-> column(new.name, base.name, current.name)]

Save(r, new) ==
  LET u == req[r].call.user
  IN  rows' = [rows EXCEPT ![u] = Overlay(new, req[r].base, rows[u])]

\* Mutant: the row is written from the object after it was changed.
RecordStatusAfterChange(u, from, to, by) ==
  statusLog' = Append(statusLog, [user |-> u, from |-> to, to |-> to, by |-> by])

RecordStatusChange(u, from, to, by) ==
  statusLog' = Append(statusLog, [user |-> u, from |-> from, to |-> to, by |-> by])

RecordRoleChange(u, from, to, requested, by) ==
  roleLog' = Append(roleLog, [user |-> u, from |-> from, to |-> to,
                              requested |-> requested, by |-> by])

\* Mutant: consumed codes are not filtered out.
AllOtps(u) == {o \in DOMAIN otps : otps[o].user = u}

\* OtpRepository.find_latest_active: the newest code not consumed.
LiveOtps(u) == {o \in DOMAIN otps : otps[o].user = u /\ ~otps[o].consumed}
IsLatestActive(o, u) == o \in LiveOtps(u) /\ \A p \in LiveOtps(u) : p <= o

OtpUnlocked(o) == \A q \in Requests : req[q].lock # o

\* RefreshTokenRepository.save, revoke and revoke_all_for_user, as values of the
\* table so that one transaction can do several of them.
WithToken(table, u, parent, otp) ==
  Append(table, [user |-> u, revoked |-> FALSE, parent |-> parent, otp |-> otp])

\* Mutants: revoked_at is flipped, or not written; only the newest is revoked.
Flipped(table, t) == [table EXCEPT ![t].revoked = ~@]
Unrevoked(table, t) == table
NewestRevoked(table, u) ==
  [t \in DOMAIN table |-> IF table[t].user = u /\ t = Len(table)
                          THEN [table[t] EXCEPT !.revoked = TRUE] ELSE table[t]]

Revoked(table, t) == [table EXCEPT ![t].revoked = TRUE]
AllRevoked(table, u) ==
  [t \in DOMAIN table |-> IF table[t].user = u THEN [table[t] EXCEPT !.revoked = TRUE]
                                              ELSE table[t]]

-----------------------------------------------------------------------------
(* The life of a request.                                                  *)

\* Mutant: any active account passes the admin gate.
IsActive(u) == rows[u].status = "active"

\* require_admin and require_service_or_admin read the admin's row afresh.
IsActiveAdmin(u) == rows[u].status = "active" /\ rows[u].role = "admin"

\* get_current_user_id trusts the token: the account is not read again.
HoldsAccessToken(u) == \E t \in access : t.user = u /\ t.status \in SessionAllowedStatuses

Admitted(c) ==
  /\ c.op \in {"ChangeStatus", "DecideKyc"} => IsActiveAdmin(c.by)
  /\ c.op = "ChangeRole" /\ c.by # Nobody => IsActiveAdmin(c.by)
  /\ c.op = "UpdateProfile" => HoldsAccessToken(c.user)

\* The call passes its authentication dependency; the handler has done nothing yet.
Begin(r, c) ==
  /\ req[r].pc = "idle"
  /\ started < MaxCalls
  /\ Admitted(c)
  /\ req' = [req EXCEPT ![r] = [Idle EXCEPT !.pc = "admitted", !.call = c]]
  /\ started' = started + 1
  /\ UNCHANGED <<db, redis, access>>

\* Mutant: the connection goes back to the pool with its transaction open.
FinishWithoutRollback(r) == req' = [req EXCEPT ![r] = [Idle EXCEPT !.lock = req[r].lock]]

\* get_session: an ApiError, an exception or the loss of the worker rolls back
\* what was not committed, and releases the locks.
Finish(r) == req' = [req EXCEPT ![r] = Idle]

Crash(r) ==
  /\ CrashesHappen
  /\ req[r].pc # "idle"
  /\ Finish(r)
  /\ UNCHANGED <<db, redis, access, started>>

\* save() fetches the row with session.get().  The session holds rows weakly:
\* get() answers from the identity map while the row object of the last SELECT is
\* still alive, and with a new SELECT otherwise.  Both are allowed here.
Reread(r) ==
  /\ req[r].pc = "loaded"
  /\ req[r].call.op \in {"VerifyOtp", "ChangeRole", "ChangeStatus", "DecideKyc", "UpdateProfile"}
  /\ req[r].base # rows[req[r].call.user]
  /\ req' = [req EXCEPT ![r].base = rows[req[r].call.user]]
  /\ UNCHANGED <<db, redis, access, started>>

\* COMMIT, after which the handler goes on with the object it computed.
Committed(r, new, event) ==
  req' = [req EXCEPT ![r].pc = "committed", ![r].mem = new, ![r].event = event, ![r].lock = 0]

\* Mutant: the command forgets the cache.
SkipInvalidation(r) ==
  /\ req[r].pc = "committed"
  /\ req' = [req EXCEPT ![r].pc = "invalidated"]
  /\ UNCHANGED <<db, redis, access, started>>

\* ProfileCache.invalidate_user: after the commit; a failure is logged and ignored.
Invalidate(r) ==
  /\ req[r].pc = "committed"
  /\ \/ cache' = [cache EXCEPT ![req[r].call.user] = NoUser]
     \/ RedisFails /\ UNCHANGED cache
  /\ req' = [req EXCEPT ![r].pc = "invalidated"]
  /\ UNCHANGED <<db, stream, access, started>>

\* EventBus.publish (a failure is logged and ignored), then the reply.  VerifyOtp
\* signs its access token from the object in memory at this point.
PublishAndReply(r) ==
  LET u == req[r].call.user
  IN  /\ req[r].pc = "invalidated"
      /\ \/ /\ req[r].event # "none"
            /\ stream' = Append(stream, [name |-> req[r].event, user |-> u,
                                         role |-> req[r].mem.role])
         \/ (req[r].event = "none" \/ RedisFails) /\ UNCHANGED stream
      /\ access' = IF req[r].call.op = "VerifyOtp"
                   THEN access \cup {[user |-> u, role |-> req[r].mem.role,
                                      status |-> req[r].mem.status]}
                   ELSE access
      /\ Finish(r)
      /\ UNCHANGED <<db, cache, started>>
=============================================================================
