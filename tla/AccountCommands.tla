--------------------------- MODULE AccountCommands ---------------------------
(***************************************************************************)
(* The commands on an account: RegisterUser, ChangeRole, ChangeStatus,     *)
(* DecideKyc and UpdateProfile.  Each reads the account (LoadAccount),     *)
(* decides on what it read, and writes in a later step.                    *)
(***************************************************************************)
EXTENDS IdentityStore

AccountOp == {"ChangeRole", "ChangeStatus", "DecideKyc", "UpdateProfile"}

\* Whether the handler has something to write, decided on the row it has read;
\* no await separates the SELECT from this decision.  Otherwise: 404, 409, 422 or
\* an idempotent answer.
ChangesRole(user, target) ==
  \/ NeedsKycFor(user, target) /\ user.requested # target
  \/ ~NeedsKycFor(user, target) /\ user.role # target

ChangesStatus(user, target) ==
  target \in AdminSettableStatuses /\ CanTransition(user.status, target)

KycPending(user) == user.requested # NoRole

ChangesProfile(user, name) == name # NoName /\ name # user.name

HasWork(c, user) ==
  /\ user.status # Unregistered
  /\ c.op = "ChangeRole" => ChangesRole(user, c.arg)
  /\ c.op = "ChangeStatus" => ChangesStatus(user, c.arg)
  /\ c.op = "DecideKyc" => KycPending(user)
  /\ c.op = "UpdateProfile" => ChangesProfile(user, c.arg)

\* find_by_id: a plain SELECT, no lock.
LoadAccount(r) ==
  LET c == req[r].call
      user == rows[c.user]
  IN  /\ req[r].pc = "admitted"
      /\ c.op \in AccountOp
      /\ IF HasWork(c, user)
         THEN req' = [req EXCEPT ![r].pc = "loaded", ![r].mem = user, ![r].base = user]
         ELSE Finish(r)
      /\ UNCHANGED <<db, redis, access, started>>

Writing(r, op) == req[r].pc = "loaded" /\ req[r].call.op = op

-----------------------------------------------------------------------------
(* RegisterUser.                                                           *)

\* find_by_phone: a number already registered is answered 409.
LookUpPhone(r) ==
  /\ req[r].pc = "admitted"
  /\ req[r].call.op = "Register"
  /\ IF Registered(req[r].call.user) THEN Finish(r)
                                     ELSE req' = [req EXCEPT ![r].pc = "loaded"]
  /\ UNCHANGED <<db, redis, access, started>>

\* INSERT; the UNIQUE constraint on phone rejects the loser of a race.
InsertAccount(r) ==
  LET c == req[r].call
  IN  /\ Writing(r, "Register")
      /\ rows' = IF Registered(c.user) THEN rows
                 ELSE [rows EXCEPT ![c.user] = [NoUser EXCEPT !.status = "pending_verification",
                                                              !.name = c.arg]]
      /\ Finish(r)
      /\ UNCHANGED <<statusLog, roleLog, otps, tokens, redis, access, started>>

-----------------------------------------------------------------------------
(* ChangeRole.                                                             *)

\* A role under KYC is requested, not granted.
RequestRole(r) ==
  LET c == req[r].call
      user == req[r].mem
      new == [user EXCEPT !.requested = c.arg]
  IN  /\ Writing(r, "ChangeRole")
      /\ NeedsKycFor(user, c.arg)
      /\ Save(r, new)
      /\ RecordRoleChange(c.user, user.role, NoRole, c.arg, c.by)
      /\ Committed(r, new, "user.updated")
      /\ UNCHANGED <<statusLog, otps, tokens, redis, access, started>>

\* Any other role is granted at once and settles the pending request.
GrantRole(r) ==
  LET c == req[r].call
      user == req[r].mem
      new == [user EXCEPT !.role = c.arg, !.requested = NoRole]
  IN  /\ Writing(r, "ChangeRole")
      /\ ~NeedsKycFor(user, c.arg)
      /\ Save(r, new)
      /\ RecordRoleChange(c.user, user.role, c.arg, NoRole, c.by)
      /\ Committed(r, new, "user.role_changed")
      /\ UNCHANGED <<statusLog, otps, tokens, redis, access, started>>

-----------------------------------------------------------------------------
\* ChangeStatus: a suspension closes the sessions in the same transaction.
SetStatus(r) ==
  LET c == req[r].call
      user == req[r].mem
      new == [user EXCEPT !.status = c.arg]
  IN  /\ Writing(r, "ChangeStatus")
      /\ Save(r, new)
      /\ RecordStatusChange(c.user, user.status, c.arg, c.by)
      /\ tokens' = IF c.arg = "suspended" THEN AllRevoked(tokens, c.user) ELSE tokens
      /\ Committed(r, new, StatusEventName(c.arg))
      /\ UNCHANGED <<roleLog, otps, redis, access, started>>

-----------------------------------------------------------------------------
\* Mutant: a refusal is announced as a grant.
AlwaysRoleChanged(approved) == "user.role_changed"

DecisionEvent(approved) == IF approved THEN "user.role_changed" ELSE "user.updated"

\* DecideKyc: the request is cleared either way, and an account parked in
\* pending_kyc becomes active.
Decide(r) ==
  LET c == req[r].call
      user == req[r].mem
      approved == c.arg = "approve"
      new == [user EXCEPT !.requested = NoRole,
                          !.role = IF approved THEN user.requested ELSE @,
                          !.status = IF @ = "pending_kyc" THEN "active" ELSE @]
  IN  /\ Writing(r, "DecideKyc")
      /\ Save(r, new)
      /\ IF new.status # user.status
         THEN RecordStatusChange(c.user, user.status, new.status, c.by)
         ELSE UNCHANGED statusLog
      /\ RecordRoleChange(c.user, user.role, IF approved THEN user.requested ELSE NoRole,
                          user.requested, c.by)
      /\ Committed(r, new, DecisionEvent(approved))
      /\ UNCHANGED <<otps, tokens, redis, access, started>>

-----------------------------------------------------------------------------
\* UpdateProfile.
EditProfile(r) ==
  LET c == req[r].call
      new == [req[r].mem EXCEPT !.name = c.arg]
  IN  /\ Writing(r, "UpdateProfile")
      /\ Save(r, new)
      /\ Committed(r, new, "user.updated")
      /\ UNCHANGED <<statusLog, roleLog, otps, tokens, redis, access, started>>

AccountStep(r) ==
  \/ LoadAccount(r)
  \/ LookUpPhone(r)
  \/ InsertAccount(r)
  \/ RequestRole(r)
  \/ GrantRole(r)
  \/ SetStatus(r)
  \/ Decide(r)
  \/ EditProfile(r)
=============================================================================
