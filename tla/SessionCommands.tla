--------------------------- MODULE SessionCommands ---------------------------
(***************************************************************************)
(* The commands on a session: VerifyOtp, RefreshAccessToken and Logout.    *)
(* Expiry is a choice of the environment here: a request that finds its    *)
(* OTP (410) or refresh token (401) expired ends without an effect.        *)
(***************************************************************************)
EXTENDS IdentityStore

-----------------------------------------------------------------------------
(* VerifyOtp.                                                              *)

\* find_latest_active: none, or an expired one, ends the request.
FindOtp(r) ==
  LET u == req[r].call.user
  IN  /\ req[r].pc = "admitted"
      /\ req[r].call.op = "VerifyOtp"
      /\ \/ Finish(r)
         \/ \E o \in LiveOtps(u) :
              /\ IsLatestActive(o, u)
              /\ req' = [req EXCEPT ![r].pc = "otpFound", ![r].item = o]
      /\ UNCHANGED <<db, redis, access, started>>

CodeMatches(r) == req[r].call.item = req[r].item

\* Mutant: one guess too many.
CeilingPassed(attempts) == attempts > MaxAttempts

CeilingReached(attempts) == attempts >= MaxAttempts

\* A wrong code: register_attempt counts in SQL, and the ceiling burns the code.
CountWrongCode(r) ==
  LET o == req[r].item
      attempts == otps[o].attempts + 1
  IN  /\ req[r].pc = "otpFound"
      /\ ~CodeMatches(r)
      /\ OtpUnlocked(o)
      /\ otps' = [otps EXCEPT ![o].attempts = attempts,
                              ![o].consumed = IF CeilingReached(attempts) THEN TRUE ELSE @]
      /\ Finish(r)
      /\ UNCHANGED <<rows, statusLog, roleLog, tokens, redis, access, started>>

\* The right code: mark_consumed waits for the row lock of a concurrent
\* transaction and keeps its own until COMMIT, or finds the code already
\* consumed and just returns.
ConsumeOtp(r) ==
  LET o == req[r].item
  IN  /\ req[r].pc = "otpFound"
      /\ CodeMatches(r)
      /\ \/ otps[o].consumed /\ req' = [req EXCEPT ![r].pc = "otpConsumed"]
         \/ /\ ~otps[o].consumed
            /\ OtpUnlocked(o)
            /\ req' = [req EXCEPT ![r].pc = "otpConsumed", ![r].lock = o]
      /\ UNCHANGED <<db, redis, access, started>>

\* Mutant: the suspension is checked at refresh only.
RejectedWhenAbsent(user) == user.status = Unregistered

RejectedAtLogin(user) == user.status \in {Unregistered, "suspended"}

\* find_by_phone; an absent (404) or suspended (403) account rolls back, and the
\* code is live again.
LoadVerifiedAccount(r) ==
  LET user == rows[req[r].call.user]
  IN  /\ req[r].pc = "otpConsumed"
      /\ IF RejectedAtLogin(user)
         THEN Finish(r)
         ELSE req' = [req EXCEPT ![r].pc = "loaded", ![r].mem = user, ![r].base = user]
      /\ UNCHANGED <<db, redis, access, started>>

Verifying(r) == req[r].pc = "loaded" /\ req[r].call.op = "VerifyOtp"

\* Mutant: every login is taken for the first.
EveryVerification(r) == TRUE

FirstVerification(r) == req[r].mem.status = "pending_verification"

OpenSession(r) ==
  /\ otps' = [otps EXCEPT ![req[r].item].consumed = TRUE]
  /\ tokens' = WithToken(tokens, req[r].call.user, 0, req[r].item)

\* First verification: the account leaves pending_verification, for pending_kyc
\* when a role request is already waiting.
ActivateAccount(r) ==
  LET user == req[r].mem
      new == [user EXCEPT !.status = IF user.requested # NoRole THEN "pending_kyc"
                                                                ELSE "active"]
  IN  /\ Verifying(r)
      /\ FirstVerification(r)
      /\ Save(r, new)
      /\ RecordStatusChange(req[r].call.user, "pending_verification", new.status, Nobody)
      /\ OpenSession(r)
      /\ Committed(r, new, "user.registered")
      /\ UNCHANGED <<roleLog, redis, access, started>>

\* A later login.
LogIn(r) ==
  /\ Verifying(r)
  /\ ~FirstVerification(r)
  /\ OpenSession(r)
  /\ Committed(r, req[r].mem, "none")
  /\ UNCHANGED <<rows, statusLog, roleLog, redis, access, started>>

-----------------------------------------------------------------------------
(* RefreshAccessToken and Logout.                                          *)

\* find_by_hash, which both start with.  An unknown token ends either; one already
\* revoked or expired means something to a refresh only, looked at in that order.
FindToken(r) ==
  LET c == req[r].call
      known == c.item \in DOMAIN tokens /\ tokens[c.item].user = c.user
  IN  /\ req[r].pc = "admitted"
      /\ c.op \in {"Refresh", "Logout", "LogoutAll"}
      /\ \/ /\ known => c.op = "Refresh" /\ ~tokens[c.item].revoked
            /\ Finish(r)
         \/ /\ known
            /\ req' = [req EXCEPT ![r].item = c.item,
                                  ![r].pc = IF c.op = "Refresh" /\ tokens[c.item].revoked
                                            THEN "replayed" ELSE "tokenFound"]
      /\ UNCHANGED <<db, redis, access, started>>

\* Reuse of a token that was rotated away: every session of its owner is closed.
CloseAllSessions(r) ==
  /\ \/ req[r].pc = "replayed"
     \/ req[r].pc = "tokenFound" /\ req[r].call.op = "LogoutAll"
  /\ tokens' = AllRevoked(tokens, req[r].call.user)
  /\ Finish(r)
  /\ UNCHANGED <<rows, statusLog, roleLog, otps, redis, access, started>>

CloseSession(r) ==
  /\ req[r].pc = "tokenFound"
  /\ req[r].call.op = "Logout"
  /\ tokens' = Revoked(tokens, req[r].item)
  /\ Finish(r)
  /\ UNCHANGED <<rows, statusLog, roleLog, otps, redis, access, started>>

\* find_by_id of the owner; only a status that allows a session goes on.
LoadSessionOwner(r) ==
  LET user == rows[req[r].call.user]
  IN  /\ req[r].pc = "tokenFound"
      /\ req[r].call.op = "Refresh"
      /\ IF user.status \in SessionAllowedStatuses
         THEN req' = [req EXCEPT ![r].pc = "loaded", ![r].mem = user]
         ELSE Finish(r)
      /\ UNCHANGED <<db, redis, access, started>>

\* Revoke the token presented (no check that it was still live), insert its
\* successor, commit, and sign an access token from the row read before.
RotateToken(r) ==
  LET u == req[r].call.user
      user == req[r].mem
  IN  /\ req[r].pc = "loaded"
      /\ req[r].call.op = "Refresh"
      /\ tokens' = WithToken(Revoked(tokens, req[r].item), u, req[r].item, 0)
      /\ access' = access \cup {[user |-> u, role |-> user.role, status |-> user.status]}
      /\ Finish(r)
      /\ UNCHANGED <<rows, statusLog, roleLog, otps, redis, started>>

SessionStep(r) ==
  \/ FindOtp(r)
  \/ CountWrongCode(r)
  \/ ConsumeOtp(r)
  \/ LoadVerifiedAccount(r)
  \/ ActivateAccount(r)
  \/ LogIn(r)
  \/ FindToken(r)
  \/ CloseAllSessions(r)
  \/ CloseSession(r)
  \/ LoadSessionOwner(r)
  \/ RotateToken(r)
=============================================================================
