----------------------------- MODULE SerialProofs -----------------------------
(***************************************************************************)
(* Proofs about SerialSpec: what the service keeps when no account has two *)
(* requests at once, however many accounts are served at the same time.    *)
(* What a request has read of its account is then still so when it writes  *)
(* (Current), and each promise follows from that.                          *)
(***************************************************************************)
EXTENDS IdentityProofs

\* A request that has found a code, or a token to rotate.
VerifiesOtp(q) ==
  \/ q.pc \in {"otpFound", "otpConsumed"}
  \/ q.pc = "loaded" /\ q.call.op = "VerifyOtp"

Rotates(q) == q.pc \in {"tokenFound", "loaded"} /\ q.call.op = "Refresh"

\* The request loaded its account, or read its row for the cache.
HoldsRow(q) ==
  \/ q.pc = "rowRead"
  \/ q.pc = "loaded" /\ q.call.op # "Register"

\* What a request has read is still so.
Current(q) ==
  LET u == q.call.user
  IN  /\ q.pc = "loaded" /\ q.call.op = "Register" => ~Registered(u)
      /\ HoldsRow(q) => Registered(u) /\ q.mem = rows[u]
      /\ q.pc = "loaded" /\ q.call.op \in AccountOp \cup {"VerifyOtp"} => q.base = rows[u]
      /\ q.pc = "loaded" /\ q.call.op \in AccountOp => HasWork(q.call, q.mem)
      /\ q.pc = "loaded" /\ q.call.op = "VerifyOtp" => q.mem.status # "suspended"
      /\ q.pc = "loaded" /\ q.call.op = "Refresh" => q.mem.status \in SessionAllowedStatuses
      /\ VerifiesOtp(q) => otps[q.item].user = u /\ ~otps[q.item].consumed
      /\ q.pc = "tokenFound" => tokens[q.item].user = u
      /\ Rotates(q) => tokens[q.item].user = u /\ ~tokens[q.item].revoked

\* No two requests are on one account.
OnePerAccount ==
  \A q, r \in Requests :
    req[q].pc # "idle" /\ req[r].pc # "idle" /\ req[q].call.user = req[r].call.user => q = r

SerialInv ==
  /\ SpentInv
  /\ OnePerAccount
  /\ \A r \in Requests : Current(req[r])

-----------------------------------------------------------------------------
(* A request works on the account it was called for.                       *)

\* Only rows of the account, and no row moves to another one.
OwnOtps(u) ==
  \A o \in DOMAIN otps : /\ o \in DOMAIN otps' /\ otps'[o].user = otps[o].user
                         /\ otps[o].user # u => otps'[o] = otps[o]

OwnTokens(u) ==
  \A t \in DOMAIN tokens : /\ t \in DOMAIN tokens' /\ tokens'[t].user = tokens[t].user
                           /\ tokens[t].user # u => tokens'[t] = tokens[t]

Footprint(r) ==
  LET u == req[r].call.user
  IN  /\ \A q \in Requests \ {r} : req'[q] = req[q]
      /\ \A v \in Users \ {u} : rows'[v] = rows[v]
      /\ OwnOtps(u)
      /\ OwnTokens(u)

\* save() on a row that nobody wrote since it was read writes the object as it is.
LEMMA OverlaySame ==
  ASSUME NEW new \in User, NEW base \in User
  PROVE  Overlay(new, base, base) = new
BY DEF Overlay, User

LEMMA SavedRow ==
  ASSUME SerialInv, NEW r \in Requests, req[r].pc = "loaded",
         req[r].call.op \in AccountOp \cup {"VerifyOtp"}, NEW new \in User, Save(r, new)
  PROVE  LET u == req[r].call.user
         IN  /\ u \in Users /\ rows[u] \in User /\ req[r].mem = rows[u]
             /\ rows'[u] = new
             /\ \A v \in Users \ {u} : rows'[v] = rows[v]
<1> DEFINE u == req[r].call.user
<1>1. u \in Users /\ rows[u] \in User /\ rows \in [Users -> User]
  BY CallType DEF SerialInv, SpentInv, TypeOK
<1>2. req[r].base = rows[u] /\ req[r].mem = rows[u]
  BY DEF SerialInv, Current, HoldsRow, AccountOp
<1>3. Overlay(new, rows[u], rows[u]) = new
  BY <1>1, OverlaySame
<1>4. rows' = [rows EXCEPT ![u] = new]
  BY <1>2, <1>3 DEF Save
<1> QED
  BY <1>1, <1>2, <1>4

LEMMA UntouchedTables ==
  ASSUME NEW u
  PROVE  /\ otps' = otps => OwnOtps(u)
         /\ tokens' = tokens => OwnTokens(u)
BY DEF OwnOtps, OwnTokens

\* The other requests do not notice.
LEMMA OthersCurrent ==
  ASSUME SerialInv, NEW r \in Requests, req[r].pc # "idle", Footprint(r),
         NEW q \in Requests \ {r}
  PROVE  Current(req[q])'
<1>1. req'[q] = req[q] /\ Current(req[q])
  BY DEF Footprint, SerialInv
<1>2. CASE req[q].pc = "idle"
  BY <1>1, <1>2 DEF Current, HoldsRow, VerifiesOtp, Rotates
<1>3. CASE req[q].pc # "idle"
  <2> DEFINE v == req[q].call.user
  <2>1. v \in Users /\ v # req[r].call.user
    BY <1>3, CallType DEF SerialInv, SpentInv, OnePerAccount
  <2>2. rows'[v] = rows[v]
    BY <2>1 DEF Footprint
  <2>3. RequestOK(req[q])
    BY DEF SerialInv, SpentInv, TypeOK
  <2>4. VerifiesOtp(req[q]) => otps'[req[q].item] = otps[req[q].item]
    BY <1>1, <2>1, <2>3 DEF VerifiesOtp, RequestOK, Current, Footprint, OwnOtps
  <2>5. req[q].pc = "tokenFound" \/ Rotates(req[q]) => tokens'[req[q].item] = tokens[req[q].item]
    BY <1>1, <2>1, <2>3 DEF Rotates, RequestOK, Current, Footprint, OwnTokens
  <2> QED
    BY <1>1, <2>2, <2>4, <2>5 DEF Current, HoldsRow, VerifiesOtp, Rotates, Registered
<1> QED
  BY <1>2, <1>3

\* A request that is not past a read whose answer it still relies on.
LEMMA NothingHeld ==
  ASSUME NEW q, q.pc \in {"idle", "admitted", "committed", "invalidated", "cacheMissed", "replayed"}
  PROVE  Current(q) /\ Current(q)'
BY DEF Current, HoldsRow, VerifiesOtp, Rotates

LEMMA FinishCurrent ==
  ASSUME SerialInv, NEW r \in Requests, Finish(r)
  PROVE  (\A q \in Requests \ {r} : req'[q] = req[q]) /\ req'[r] = Idle /\ Current(req[r])'
<1>1. req \in [Requests -> RequestState]
  BY DEF SerialInv, SpentInv, TypeOK
<1>2. req'[r] = Idle /\ \A q \in Requests \ {r} : req'[q] = req[q]
  BY <1>1 DEF Finish
<1> QED
  BY <1>2 DEF Idle, Current, HoldsRow, VerifiesOtp, Rotates

\* SELECTs, and the steps after the COMMIT, leave the database alone.
LEMMA ReadingFootprint ==
  ASSUME SerialInv, NEW r \in Requests,
         \/ LoadAccount(r) \/ LookUpPhone(r) \/ FindOtp(r) \/ ConsumeOtp(r)
         \/ LoadVerifiedAccount(r) \/ FindToken(r) \/ LoadSessionOwner(r) \/ QueryStep(r)
         \/ Reread(r) \/ Invalidate(r) \/ PublishAndReply(r) \/ Crash(r)
  PROVE  Footprint(r)
<1>1. req \in [Requests -> RequestState]
  BY DEF SerialInv, SpentInv, TypeOK
<1>2. UNCHANGED db
  BY DEF LoadAccount, LookUpPhone, FindOtp, ConsumeOtp, LoadVerifiedAccount, FindToken,
         LoadSessionOwner, QueryStep, ReadCache, ReadRow, FillCache, Reread, Invalidate,
         PublishAndReply, Crash
<1>3. \A q \in Requests \ {r} : req'[q] = req[q]
  BY <1>1 DEF LoadAccount, LookUpPhone, FindOtp, ConsumeOtp, LoadVerifiedAccount, FindToken,
         LoadSessionOwner, QueryStep, ReadCache, ReadRow, FillCache, Reread, Invalidate,
         PublishAndReply, Crash, Finish
<1> QED
  BY <1>2, <1>3, UntouchedTables DEF Footprint, db

LEMMA LoadAccountCurrent ==
  ASSUME SerialInv, NEW r \in Requests, LoadAccount(r) \/ LookUpPhone(r) \/ ReadRow(r)
  PROVE  Current(req[r])'
<1>1. req \in [Requests -> RequestState] /\ req[r] \in RequestState
  BY DEF SerialInv, SpentInv, TypeOK
<1>2. CASE Finish(r)
  BY <1>2, FinishCurrent
<1>3. CASE LoadAccount(r) /\ ~Finish(r)
  <2>1. /\ req'[r] = [req[r] EXCEPT !.pc = "loaded", !.mem = rows[req[r].call.user],
                                    !.base = rows[req[r].call.user]]
        /\ req[r].call.op \in AccountOp /\ HasWork(req[r].call, rows[req[r].call.user])
        /\ rows' = rows
    BY <1>1, <1>3 DEF LoadAccount, db
  <2>2. /\ req'[r].pc = "loaded" /\ req'[r].call = req[r].call
        /\ req'[r].mem = rows[req[r].call.user] /\ req'[r].base = rows[req[r].call.user]
    BY <1>1, <2>1 DEF RequestState
  <2>3. Registered(req[r].call.user)
    BY <2>1 DEF HasWork, Registered
  <2> QED
    BY <2>1, <2>2, <2>3 DEF Current, HoldsRow, VerifiesOtp, Rotates, AccountOp, Registered
<1>4. CASE LookUpPhone(r) /\ ~Finish(r)
  <2>1. /\ req'[r].pc = "loaded" /\ req'[r].call = req[r].call /\ req[r].call.op = "Register"
        /\ ~Registered(req[r].call.user) /\ rows' = rows
    BY <1>1, <1>4 DEF LookUpPhone, db, RequestState
  <2> QED
    BY <2>1 DEF Current, HoldsRow, VerifiesOtp, Rotates, AccountOp, Registered
<1>5. CASE ReadRow(r) /\ ~Finish(r)
  <2>1. /\ req'[r].pc = "rowRead" /\ req'[r].call = req[r].call
        /\ req'[r].mem = rows[req[r].call.user]
        /\ Registered(req[r].call.user) /\ rows' = rows
    BY <1>1, <1>5 DEF ReadRow, db, RequestState
  <2> QED
    BY <2>1 DEF Current, HoldsRow, VerifiesOtp, Rotates, Registered
<1> QED
  BY <1>2, <1>3, <1>4, <1>5

LEMMA FindOtpCurrent ==
  ASSUME SerialInv, NEW r \in Requests, FindOtp(r) \/ ConsumeOtp(r)
  PROVE  Current(req[r])'
<1>1. req \in [Requests -> RequestState] /\ req[r] \in RequestState
  BY DEF SerialInv, SpentInv, TypeOK
<1>2. CASE Finish(r)
  BY <1>2, FinishCurrent
<1>3. CASE FindOtp(r) /\ ~Finish(r)
  <2>1. PICK o \in LiveOtps(req[r].call.user) :
             req' = [req EXCEPT ![r].pc = "otpFound", ![r].item = o]
    BY <1>3 DEF FindOtp
  <2>2. /\ req'[r].pc = "otpFound" /\ req'[r].call = req[r].call /\ req'[r].item = o
        /\ otps' = otps
    BY <1>1, <1>3, <2>1 DEF FindOtp, db, RequestState
  <2> QED
    BY <2>2 DEF Current, HoldsRow, VerifiesOtp, Rotates, LiveOtps
<1>4. CASE ConsumeOtp(r)
  <2>1. /\ req'[r].pc = "otpConsumed" /\ req'[r].call = req[r].call
        /\ req'[r].item = req[r].item /\ otps' = otps /\ req[r].pc = "otpFound"
    BY <1>1, <1>4 DEF ConsumeOtp, db, RequestState
  <2>2. Current(req[r])
    BY DEF SerialInv
  <2> QED
    BY <2>1, <2>2 DEF Current, HoldsRow, VerifiesOtp, Rotates
<1> QED
  BY <1>2, <1>3, <1>4

LEMMA LoadVerifiedAccountCurrent ==
  ASSUME SerialInv, NEW r \in Requests, LoadVerifiedAccount(r)
  PROVE  Current(req[r])'
<1>1. req \in [Requests -> RequestState] /\ req[r] \in RequestState /\ RequestOK(req[r])
  BY DEF SerialInv, SpentInv, TypeOK
<1>2. CASE Finish(r)
  BY <1>2, FinishCurrent
<1>3. CASE ~Finish(r)
  <2>1. /\ req'[r].pc = "loaded" /\ req'[r].call = req[r].call /\ req'[r].item = req[r].item
        /\ req'[r].mem = rows[req[r].call.user] /\ req'[r].base = rows[req[r].call.user]
        /\ ~RejectedAtLogin(rows[req[r].call.user])
        /\ otps' = otps /\ rows' = rows /\ req[r].pc = "otpConsumed"
    BY <1>1, <1>3 DEF LoadVerifiedAccount, db, RequestState
  <2>2. Current(req[r]) /\ req[r].call.op = "VerifyOtp"
    BY <1>1, <2>1 DEF SerialInv, RequestOK
  <2> QED
    BY <2>1, <2>2 DEF Current, HoldsRow, VerifiesOtp, Rotates, AccountOp, RejectedAtLogin, Registered
<1> QED
  BY <1>2, <1>3

LEMMA FindTokenCurrent ==
  ASSUME SerialInv, NEW r \in Requests, FindToken(r) \/ LoadSessionOwner(r)
  PROVE  Current(req[r])'
<1>1. req \in [Requests -> RequestState] /\ req[r] \in RequestState
  BY DEF SerialInv, SpentInv, TypeOK
<1>2. CASE Finish(r)
  BY <1>2, FinishCurrent
<1>3. CASE FindToken(r) /\ ~Finish(r)
  <2> DEFINE c == req[r].call
  <2>1. /\ tokens[c.item].user = c.user /\ c.op \in {"Refresh", "Logout", "LogoutAll"}
        /\ req'[r].call = c /\ req'[r].item = c.item /\ tokens' = tokens
        /\ req'[r].pc = IF c.op = "Refresh" /\ tokens[c.item].revoked
                        THEN "replayed" ELSE "tokenFound"
    BY <1>1, <1>3 DEF FindToken, db, RequestState
  <2> QED
    BY <2>1 DEF Current, HoldsRow, VerifiesOtp, Rotates
<1>4. CASE LoadSessionOwner(r) /\ ~Finish(r)
  <2>1. /\ req'[r].pc = "loaded" /\ req'[r].call = req[r].call /\ req'[r].item = req[r].item
        /\ req'[r].mem = rows[req[r].call.user]
        /\ rows[req[r].call.user].status \in SessionAllowedStatuses
        /\ tokens' = tokens /\ rows' = rows
        /\ req[r].pc = "tokenFound" /\ req[r].call.op = "Refresh"
    BY <1>1, <1>4 DEF LoadSessionOwner, db, RequestState
  <2>2. Current(req[r])
    BY DEF SerialInv
  <2> QED
    BY <2>1, <2>2 DEF Current, HoldsRow, VerifiesOtp, Rotates, AccountOp, Registered,
                      SessionAllowedStatuses, Unregistered
<1> QED
  BY <1>2, <1>3, <1>4

\* save() would select the row again only if it had changed: it has not.
LEMMA NoReread ==
  ASSUME SerialInv, NEW r \in Requests
  PROVE  ~Reread(r)
BY DEF SerialInv, Current, Reread, AccountOp

-----------------------------------------------------------------------------
(* What each write does to the account.                                    *)

\* A command that saves its account and commits: no other row and no other request.
Saved(r) ==
  LET u == req[r].call.user
  IN  /\ u \in Users /\ rows[u] \in User /\ rows'[u] \in User /\ Registered(u)
      /\ \A v \in Users \ {u} : rows'[v] = rows[v]
      /\ \A q \in Requests \ {r} : req'[q] = req[q]
      /\ req[r].pc = "loaded"
      /\ req'[r].pc = "committed" /\ req'[r].call = req[r].call

LEMMA Saving ==
  ASSUME SerialInv, NEW r \in Requests, req[r].pc = "loaded",
         req[r].call.op \in AccountOp \cup {"VerifyOtp"},
         NEW new \in User, NEW event, Save(r, new), Committed(r, new, event)
  PROVE  /\ Saved(r)
         /\ rows'[req[r].call.user] = new
         /\ req[r].mem = rows[req[r].call.user]
         /\ req'[r].event = event
         /\ Current(req[r])'
<1>1. TypeOK /\ Current(req[r]) /\ Registered(req[r].call.user)
  BY DEF SerialInv, SpentInv, Current, HoldsRow, AccountOp
<1>2. /\ \A q \in Requests \ {r} : req'[q] = req[q]
      /\ req'[r].event = event /\ req'[r].call = req[r].call
  BY <1>1, Committing
<1>3. req'[r].pc = "committed"
  BY <1>1 DEF Committed, TypeOK, RequestState
<1>4. Current(req[r])'
  BY <1>3 DEF Current, HoldsRow, VerifiesOtp, Rotates
<1> QED
  BY <1>1, <1>2, <1>3, <1>4, SavedRow DEF Saved

LEMMA RequestRoleSaves ==
  ASSUME SerialInv, NEW r \in Requests, RequestRole(r)
  PROVE  LET c == req[r].call
             old == rows[c.user]
         IN  /\ Saved(r) /\ Current(req[r])'
             /\ rows'[c.user] = [old EXCEPT !.requested = c.arg]
             /\ rows'[c.user].status = old.status
             /\ rows'[c.user].role = old.role
             /\ roleLog' = Append(roleLog, [user |-> c.user, from |-> old.role, to |-> NoRole,
                                            requested |-> c.arg, by |-> c.by])
             /\ statusLog' = statusLog
             /\ req'[r].event = "user.updated"
<1> DEFINE c == req[r].call
           new == [req[r].mem EXCEPT !.requested = c.arg]
<1>1. req[r].pc = "loaded" /\ c.op \in AccountOp /\ c.arg \in UserRole /\ req[r].mem \in User
  BY CallType DEF SerialInv, SpentInv, RequestRole, Writing, AccountOp
<1>2. new \in User /\ new.status = req[r].mem.status /\ new.role = req[r].mem.role
  BY <1>1 DEF User
<1>3. Save(r, new) /\ Committed(r, new, "user.updated")
  BY DEF RequestRole
<1>4. /\ Saved(r) /\ rows'[c.user] = new /\ req[r].mem = rows[c.user]
      /\ req'[r].event = "user.updated" /\ Current(req[r])'
  BY <1>1, <1>2, <1>3, Saving
<1> QED
  BY <1>2, <1>4 DEF RequestRole, RecordRoleChange

LEMMA GrantRoleSaves ==
  ASSUME SerialInv, NEW r \in Requests, GrantRole(r)
  PROVE  LET c == req[r].call
             old == rows[c.user]
         IN  /\ Saved(r) /\ Current(req[r])'
             /\ rows'[c.user] = [old EXCEPT !.role = c.arg, !.requested = NoRole]
             /\ rows'[c.user].status = old.status
             /\ rows'[c.user].role = c.arg /\ c.arg \in UserRole
             /\ roleLog' = Append(roleLog, [user |-> c.user, from |-> old.role, to |-> c.arg,
                                            requested |-> NoRole, by |-> c.by])
             /\ statusLog' = statusLog
             /\ req'[r].event = "user.role_changed"
<1> DEFINE c == req[r].call
           new == [req[r].mem EXCEPT !.role = c.arg, !.requested = NoRole]
<1>1. req[r].pc = "loaded" /\ c.op \in AccountOp /\ c.arg \in UserRole /\ req[r].mem \in User
  BY CallType DEF SerialInv, SpentInv, GrantRole, Writing, AccountOp
<1>2. new \in User /\ new.status = req[r].mem.status /\ new.role = c.arg
  BY <1>1 DEF User
<1>3. Save(r, new) /\ Committed(r, new, "user.role_changed")
  BY DEF GrantRole
<1>4. /\ Saved(r) /\ rows'[c.user] = new /\ req[r].mem = rows[c.user]
      /\ req'[r].event = "user.role_changed" /\ Current(req[r])'
  BY <1>1, <1>2, <1>3, Saving
<1> QED
  BY <1>1, <1>2, <1>4 DEF GrantRole, RecordRoleChange

LEMMA SetStatusSaves ==
  ASSUME SerialInv, NEW r \in Requests, SetStatus(r)
  PROVE  LET c == req[r].call
             old == rows[c.user]
         IN  /\ Saved(r) /\ Current(req[r])'
             /\ rows'[c.user] = [old EXCEPT !.status = c.arg]
             /\ rows'[c.user].status = c.arg
             /\ rows'[c.user].role = old.role /\ rows'[c.user].requested = old.requested
             /\ ChangesStatus(old, c.arg)
             /\ statusLog' = Append(statusLog, [user |-> c.user, from |-> old.status,
                                                to |-> c.arg, by |-> c.by])
             /\ roleLog' = roleLog
             /\ req'[r].event = StatusEventName(c.arg)
<1> DEFINE c == req[r].call
           new == [req[r].mem EXCEPT !.status = c.arg]
<1>1. req[r].pc = "loaded" /\ c.op \in AccountOp /\ c.arg \in UserStatus /\ req[r].mem \in User
  BY CallType DEF SerialInv, SpentInv, SetStatus, Writing, AccountOp
<1>2. /\ new \in User /\ new.status = c.arg
      /\ new.role = req[r].mem.role /\ new.requested = req[r].mem.requested
  BY <1>1 DEF User
<1>3. Save(r, new) /\ Committed(r, new, StatusEventName(c.arg)) /\ c.op = "ChangeStatus"
  BY DEF SetStatus, Writing
<1>4. /\ Saved(r) /\ rows'[c.user] = new /\ req[r].mem = rows[c.user]
      /\ req'[r].event = StatusEventName(c.arg) /\ Current(req[r])'
  BY <1>1, <1>2, <1>3, Saving
<1>5. ChangesStatus(rows[c.user], c.arg)
  BY <1>1, <1>3, <1>4 DEF SerialInv, Current, HasWork
<1> QED
  BY <1>2, <1>4, <1>5 DEF SetStatus, RecordStatusChange

LEMMA DecideSaves ==
  ASSUME SerialInv, NEW r \in Requests, Decide(r)
  PROVE  LET c == req[r].call
             old == rows[c.user]
             granted == IF c.arg = "approve" THEN old.requested ELSE NoRole
         IN  /\ Saved(r) /\ Current(req[r])'
             /\ rows'[c.user] = [old EXCEPT !.requested = NoRole,
                                           !.role = IF c.arg = "approve" THEN old.requested ELSE @,
                                           !.status = IF @ = "pending_kyc" THEN "active" ELSE @]
             /\ rows'[c.user].status = IF old.status = "pending_kyc" THEN "active" ELSE old.status
             /\ rows'[c.user].role = IF c.arg = "approve" THEN old.requested ELSE old.role
             /\ rows'[c.user].name = old.name
             /\ old.requested # NoRole
             /\ roleLog' = Append(roleLog, [user |-> c.user, from |-> old.role, to |-> granted,
                                            requested |-> old.requested, by |-> c.by])
             /\ IF rows'[c.user].status # old.status
                THEN statusLog' = Append(statusLog, [user |-> c.user, from |-> old.status,
                                                     to |-> rows'[c.user].status, by |-> c.by])
                ELSE statusLog' = statusLog
             /\ req'[r].event \in {"user.role_changed", "user.updated"}
<1> DEFINE c == req[r].call
           user == req[r].mem
           approved == c.arg = "approve"
           new == [user EXCEPT !.requested = NoRole,
                               !.role = IF approved THEN user.requested ELSE @,
                               !.status = IF @ = "pending_kyc" THEN "active" ELSE @]
<1>1. req[r].pc = "loaded" /\ c.op \in AccountOp /\ user \in User /\ user.requested # NoRole
  BY CallType DEF SerialInv, SpentInv, TypeOK, RequestOK, Decide, Writing, AccountOp
<1>2. /\ new \in User /\ new.name = user.name
      /\ new.status = IF user.status = "pending_kyc" THEN "active" ELSE user.status
      /\ new.role = IF approved THEN user.requested ELSE user.role
  BY <1>1 DEF User, UserStatus
<1>3. Save(r, new) /\ Committed(r, new, DecisionEvent(approved))
  BY DEF Decide
<1>4. /\ Saved(r) /\ rows'[c.user] = new /\ user = rows[c.user]
      /\ req'[r].event = DecisionEvent(approved) /\ Current(req[r])'
  BY <1>1, <1>2, <1>3, Saving
<1>5. /\ roleLog' = Append(roleLog, [user |-> c.user, from |-> user.role,
                                     to |-> IF approved THEN user.requested ELSE NoRole,
                                     requested |-> user.requested, by |-> c.by])
      /\ IF new.status # user.status
         THEN statusLog' = Append(statusLog, [user |-> c.user, from |-> user.status,
                                              to |-> new.status, by |-> c.by])
         ELSE statusLog' = statusLog
  BY DEF Decide, RecordStatusChange, RecordRoleChange
<1>6. rows'[c.user] = [rows[c.user] EXCEPT
                         !.requested = NoRole,
                         !.role = IF approved THEN rows[c.user].requested ELSE @,
                         !.status = IF @ = "pending_kyc" THEN "active" ELSE @]
  BY <1>4
<1> HIDE DEF new
<1> QED
  BY <1>1, <1>2, <1>4, <1>5, <1>6 DEF DecisionEvent

LEMMA EditProfileSaves ==
  ASSUME SerialInv, NEW r \in Requests, EditProfile(r)
  PROVE  LET u == req[r].call.user
         IN  /\ Saved(r) /\ Current(req[r])'
             /\ req[r].call.arg \in Names
             /\ rows'[u] = [rows[u] EXCEPT !.name = req[r].call.arg]
             /\ rows'[u].status = rows[u].status
             /\ rows'[u].role = rows[u].role /\ rows'[u].requested = rows[u].requested
             /\ statusLog' = statusLog /\ roleLog' = roleLog
             /\ req'[r].event = "user.updated"
<1> DEFINE u == req[r].call.user
           new == [req[r].mem EXCEPT !.name = req[r].call.arg]
<1>1. /\ req[r].pc = "loaded" /\ req[r].call.op \in AccountOp
      /\ req[r].call.arg \in Names /\ req[r].mem \in User
  BY CallType DEF SerialInv, SpentInv, EditProfile, Writing, AccountOp
<1>2. /\ new \in User /\ new.status = req[r].mem.status
      /\ new.role = req[r].mem.role /\ new.requested = req[r].mem.requested
  BY <1>1 DEF User
<1>3. Save(r, new) /\ Committed(r, new, "user.updated")
  BY DEF EditProfile
<1>4. /\ Saved(r) /\ rows'[u] = new /\ req[r].mem = rows[u]
      /\ req'[r].event = "user.updated" /\ Current(req[r])'
  BY <1>1, <1>2, <1>3, Saving
<1> QED
  BY <1>1, <1>2, <1>4 DEF EditProfile

LEMMA ActivateAccountSaves ==
  ASSUME SerialInv, NEW r \in Requests, ActivateAccount(r)
  PROVE  LET c == req[r].call
             old == rows[c.user]
         IN  /\ Saved(r) /\ Current(req[r])'
             /\ old.status = "pending_verification"
             /\ rows'[c.user] = [old EXCEPT !.status = IF old.requested # NoRole
                                                      THEN "pending_kyc" ELSE "active"]
             /\ rows'[c.user].status \in {"pending_kyc", "active"}
             /\ rows'[c.user].role = old.role /\ rows'[c.user].requested = old.requested
             /\ statusLog' = Append(statusLog, [user |-> c.user, from |-> old.status,
                                                to |-> rows'[c.user].status, by |-> Nobody])
             /\ roleLog' = roleLog
             /\ req'[r].event = "user.registered"
<1> DEFINE c == req[r].call
           user == req[r].mem
           new == [user EXCEPT !.status = IF user.requested # NoRole THEN "pending_kyc"
                                                                     ELSE "active"]
<1>1. req[r].pc = "loaded" /\ c.op = "VerifyOtp" /\ user \in User
  BY CallType DEF SerialInv, SpentInv, ActivateAccount, Verifying
<1>2. /\ new \in User /\ new.status \in {"pending_kyc", "active"}
      /\ new.role = user.role /\ new.requested = user.requested
  BY <1>1 DEF User, UserStatus
<1>3. Save(r, new) /\ Committed(r, new, "user.registered") /\ user.status = "pending_verification"
  BY DEF ActivateAccount, FirstVerification
<1>4. /\ Saved(r) /\ rows'[c.user] = new /\ user = rows[c.user]
      /\ req'[r].event = "user.registered" /\ Current(req[r])'
  BY <1>1, <1>2, <1>3, Saving
<1>5. /\ statusLog' = Append(statusLog, [user |-> c.user, from |-> "pending_verification",
                                         to |-> new.status, by |-> Nobody])
      /\ roleLog' = roleLog
  BY DEF ActivateAccount, RecordStatusChange
<1>6. rows'[c.user] = [rows[c.user] EXCEPT !.status = IF rows[c.user].requested # NoRole
                                                      THEN "pending_kyc" ELSE "active"]
  BY <1>4
<1> HIDE DEF new
<1> QED
  BY <1>2, <1>3, <1>4, <1>5, <1>6

-----------------------------------------------------------------------------
(* What each write does to codes and refresh tokens.                       *)

\* A new session: its token, for a code that was live and names this account, and that
\* code consumed.
Opening(r) ==
  LET u == req[r].call.user
      o == req[r].item
  IN  /\ o \in DOMAIN otps /\ otps[o].user = u /\ ~otps[o].consumed
      /\ rows[u] = req[r].mem /\ rows[u].status # "suspended" /\ u \in Users
      /\ tokens' = Append(tokens, [user |-> u, revoked |-> FALSE, parent |-> 0, otp |-> o])

LEMMA SessionOpened ==
  ASSUME SerialInv, NEW r \in Requests, ActivateAccount(r) \/ LogIn(r)
  PROVE  Opening(r) /\ OwnOtps(req[r].call.user) /\ OwnTokens(req[r].call.user)
<1> DEFINE u == req[r].call.user
           o == req[r].item
           token == [user |-> u, revoked |-> FALSE, parent |-> 0, otp |-> o]
<1>1. Verifying(r) /\ OpenSession(r)
  BY DEF ActivateAccount, LogIn
<1>2. /\ o \in DOMAIN otps /\ otps \in Seq(Otp) /\ tokens \in Seq(Token) /\ u \in Users
      /\ Current(req[r])
  BY <1>1, CallType DEF SerialInv, SpentInv, TypeOK, RequestOK, Verifying
<1>3. tokens' = Append(tokens, token)
  BY <1>1 DEF OpenSession, WithToken
<1>4. Opening(r)
  BY <1>1, <1>2, <1>3 DEF Opening, Current, HoldsRow, VerifiesOtp, Verifying
<1>5. otps' = [otps EXCEPT ![o] = [otps[o] EXCEPT !.consumed = TRUE]]
  BY <1>1, <1>2 DEF OpenSession
<1>6. OwnOtps(u)
  <2>1. otps[o] \in Otp
    BY <1>2
  <2> QED
    BY <1>2, <1>4, <1>5, <2>1 DEF Opening, OwnOtps, Otp
<1>7. OwnTokens(u)
  <2> HIDE DEF token
  <2> QED
    BY <1>2, <1>3, Appended DEF OwnTokens
<1> QED
  BY <1>4, <1>6, <1>7

\* Tokens are revoked and nothing else about them changes.
Revoking ==
  /\ DOMAIN tokens' = DOMAIN tokens
  /\ \A t \in DOMAIN tokens : /\ tokens'[t].user = tokens[t].user
                              /\ tokens'[t].otp = tokens[t].otp
                              /\ tokens'[t].parent = tokens[t].parent
                              /\ tokens[t].revoked => tokens'[t].revoked

LEMMA AllSessionsClosed ==
  ASSUME SerialInv, NEW u, tokens' = AllRevoked(tokens, u)
  PROVE  /\ Revoking /\ OwnTokens(u)
         /\ \A t \in DOMAIN tokens : tokens[t].user = u => tokens'[t].revoked
<1>1. tokens \in Seq(Token)
  BY DEF SerialInv, SpentInv, TypeOK
<1>2. DOMAIN tokens' = DOMAIN tokens
  BY <1>1, AllRevokedType
<1>3. ASSUME NEW t \in DOMAIN tokens
      PROVE  /\ tokens'[t].user = tokens[t].user
             /\ tokens'[t].otp = tokens[t].otp
             /\ tokens'[t].parent = tokens[t].parent
             /\ tokens[t].revoked => tokens'[t].revoked
             /\ tokens[t].user = u => tokens'[t].revoked
             /\ tokens[t].user # u => tokens'[t] = tokens[t]
  <2>1. tokens[t] \in Token
    BY <1>1
  <2>2. tokens'[t] = IF tokens[t].user = u THEN [tokens[t] EXCEPT !.revoked = TRUE]
                                           ELSE tokens[t]
    BY DEF AllRevoked
  <2> QED
    BY <2>1, <2>2 DEF Token
<1> QED
  BY <1>2, <1>3 DEF Revoking, OwnTokens

LEMMA OneRevoked ==
  ASSUME NEW table \in Seq(Token), NEW i \in DOMAIN table
  PROVE  \A t \in DOMAIN table : /\ Revoked(table, i)[t].user = table[t].user
                                 /\ t # i => Revoked(table, i)[t] = table[t]
<1>1. \A t \in DOMAIN table : table[t] \in Token
  OBVIOUS
<1> QED
  BY <1>1 DEF Revoked, Token

LEMMA SessionClosed ==
  ASSUME SerialInv, NEW r \in Requests, CloseSession(r)
  PROVE  Revoking /\ OwnTokens(req[r].call.user)
<1> DEFINE i == req[r].item
<1>1. tokens \in Seq(Token) /\ i \in DOMAIN tokens /\ tokens[i].user = req[r].call.user
  BY DEF SerialInv, SpentInv, TypeOK, RequestOK, Current, CloseSession
<1>2. tokens' = Revoked(tokens, i)
  BY DEF CloseSession
<1> QED
  BY <1>1, <1>2, OneRevoked, RevokedKept DEF Revoking, OwnTokens

\* A rotation: the live token presented is revoked and its successor is new.
Rotating(r) ==
  LET u == req[r].call.user
      i == req[r].item
      new == Len(tokens) + 1
  IN  /\ i \in DOMAIN tokens /\ tokens[i].user = u /\ ~tokens[i].revoked
      /\ u \in Users /\ rows[u].status \in SessionAllowedStatuses
      /\ new \notin DOMAIN tokens /\ DOMAIN tokens' = DOMAIN tokens \cup {new}
      /\ tokens'[new] = [user |-> u, revoked |-> FALSE, parent |-> i, otp |-> 0]
      /\ \A t \in DOMAIN tokens : /\ tokens'[t].user = tokens[t].user
                                  /\ tokens'[t].otp = tokens[t].otp
                                  /\ tokens'[t].parent = tokens[t].parent
                                  /\ tokens'[t].revoked <=> tokens[t].revoked \/ t = i

LEMMA TokenRotated ==
  ASSUME SerialInv, NEW r \in Requests, RotateToken(r)
  PROVE  Rotating(r) /\ OwnTokens(req[r].call.user)
<1> DEFINE u == req[r].call.user
           i == req[r].item
           rest == Revoked(tokens, i)
           token == [user |-> u, revoked |-> FALSE, parent |-> i, otp |-> 0]
<1>1. tokens \in Seq(Token) /\ i \in DOMAIN tokens /\ u \in Users
  BY CallType DEF SerialInv, SpentInv, TypeOK, RequestOK, RotateToken
<1>2. tokens[i].user = u /\ ~tokens[i].revoked /\ rows[u].status \in SessionAllowedStatuses
  BY DEF SerialInv, Current, Rotates, HoldsRow, RotateToken
<1>3. /\ rest \in Seq(Token) /\ DOMAIN rest = DOMAIN tokens
      /\ \A t \in DOMAIN tokens : /\ rest[t].revoked <=> tokens[t].revoked \/ t = i
                                  /\ rest[t].otp = tokens[t].otp
                                  /\ rest[t].parent = tokens[t].parent
                                  /\ rest[t].user = tokens[t].user
                                  /\ t # i => rest[t] = tokens[t]
  BY <1>1, OneRevoked, RevokedKept
<1>4. tokens' = Append(rest, token)
  BY DEF RotateToken, WithToken
<1>5. Len(rest) = Len(tokens)
  BY <1>1, <1>3
<1>6. /\ DOMAIN tokens' = DOMAIN tokens \cup {Len(tokens) + 1}
      /\ Len(tokens) + 1 \notin DOMAIN tokens
      /\ \A t \in DOMAIN tokens : tokens'[t] = rest[t]
      /\ tokens'[Len(tokens) + 1] = token
  <2> HIDE DEF rest, token
  <2> QED
    BY <1>3, <1>4, <1>5, Appended
<1>7. OwnTokens(u)
  BY <1>2, <1>3, <1>6 DEF OwnTokens
<1> HIDE DEF rest
<1>8. Rotating(r)
  BY <1>1, <1>2, <1>3, <1>6 DEF Rotating
<1> QED
  BY <1>7, <1>8

LEMMA CodeCounted ==
  ASSUME SerialInv, NEW r \in Requests, CountWrongCode(r)
  PROVE  OwnOtps(req[r].call.user)
<1> DEFINE o == req[r].item
<1>1. otps \in Seq(Otp) /\ o \in DOMAIN otps /\ otps[o] \in Otp /\ otps[o].user = req[r].call.user
  BY DEF SerialInv, SpentInv, TypeOK, RequestOK, Current, VerifiesOtp, CountWrongCode
<1>2. PICK a, b : otps' = [otps EXCEPT ![o] = [otps[o] EXCEPT !.attempts = a, !.consumed = b]]
  BY <1>1 DEF CountWrongCode, Otp
<1> QED
  BY <1>1, <1>2 DEF OwnOtps, Otp

-----------------------------------------------------------------------------
(* Every step keeps what requests have read current.                       *)

LEMMA AccountInserted ==
  ASSUME SerialInv, NEW r \in Requests, InsertAccount(r)
  PROVE  LET u == req[r].call.user
         IN  /\ u \in Users /\ ~Registered(u)
             /\ rows'[u].status = "pending_verification"
             /\ rows'[u].role = "user" /\ rows'[u].requested = NoRole
             /\ \A v \in Users \ {u} : rows'[v] = rows[v]
<1> DEFINE u == req[r].call.user
           new == [NoUser EXCEPT !.status = "pending_verification", !.name = req[r].call.arg]
<1>1. u \in Users /\ rows \in [Users -> User] /\ ~Registered(u)
  BY CallType DEF SerialInv, SpentInv, TypeOK, Current, InsertAccount, Writing
<1>2. new.status = "pending_verification" /\ new.role = "user" /\ new.requested = NoRole
  BY DEF NoUser
<1>3. rows' = [rows EXCEPT ![u] = new]
  BY <1>1 DEF InsertAccount
<1> HIDE DEF new
<1> QED
  BY <1>1, <1>2, <1>3

\* A command or a query, or the end of a request: Begin aside, all there is.
Acts(r) == Step(r) \/ Crash(r)

LEMMA ActsBusy == ASSUME NEW r, Acts(r) PROVE req[r].pc # "idle"
BY DEF Acts, Step, AccountStep, SessionStep, QueryStep, LoadAccount, LookUpPhone, InsertAccount,
       RequestRole, GrantRole, SetStatus, Decide, EditProfile, Writing, FindOtp, CountWrongCode,
       ConsumeOtp, LoadVerifiedAccount, ActivateAccount, LogIn, Verifying, FindToken,
       CloseAllSessions, CloseSession, LoadSessionOwner, RotateToken, ReadCache, ReadRow,
       FillCache, Reread, Invalidate, PublishAndReply, Crash

LEMMA AccountStepFootprint ==
  ASSUME SerialInv, NEW r \in Requests, AccountStep(r)
  PROVE  Footprint(r) /\ Current(req[r])'
<1>1. CASE LoadAccount(r) \/ LookUpPhone(r)
  BY <1>1, ReadingFootprint, LoadAccountCurrent
<1>2. CASE InsertAccount(r)
  <2>1. otps' = otps /\ tokens' = tokens /\ Finish(r)
    BY <1>2 DEF InsertAccount
  <2> QED
    BY <1>2, <2>1, AccountInserted, FinishCurrent, UntouchedTables DEF Footprint
<1>3. CASE RequestRole(r) \/ GrantRole(r) \/ Decide(r) \/ EditProfile(r)
  <2>1. otps' = otps /\ tokens' = tokens
    BY <1>3 DEF RequestRole, GrantRole, Decide, EditProfile
  <2>2. Saved(r) /\ Current(req[r])'
    BY <1>3, RequestRoleSaves, GrantRoleSaves, DecideSaves, EditProfileSaves
  <2> QED
    BY <2>1, <2>2, UntouchedTables DEF Footprint, Saved
<1>4. CASE SetStatus(r)
  <2>1. Saved(r) /\ Current(req[r])'
    BY <1>4, SetStatusSaves
  <2>2. OwnOtps(req[r].call.user) /\ OwnTokens(req[r].call.user)
    BY <1>4, UntouchedTables, AllSessionsClosed DEF SetStatus
  <2> QED
    BY <2>1, <2>2 DEF Footprint, Saved
<1> QED
  BY <1>1, <1>2, <1>3, <1>4 DEF AccountStep

LEMMA SessionStepFootprint ==
  ASSUME SerialInv, NEW r \in Requests, SessionStep(r)
  PROVE  Footprint(r) /\ Current(req[r])'
<1>1. CASE FindOtp(r) \/ ConsumeOtp(r) \/ LoadVerifiedAccount(r) \/ FindToken(r) \/ LoadSessionOwner(r)
  BY <1>1, ReadingFootprint, FindOtpCurrent, LoadVerifiedAccountCurrent, FindTokenCurrent
<1>2. CASE CountWrongCode(r)
  <2>1. rows' = rows /\ tokens' = tokens /\ Finish(r)
    BY <1>2 DEF CountWrongCode
  <2> QED
    BY <1>2, <2>1, CodeCounted, FinishCurrent, UntouchedTables DEF Footprint
<1>3. CASE ActivateAccount(r)
  BY <1>3, ActivateAccountSaves, SessionOpened DEF Footprint, Saved
<1>4. CASE LogIn(r)
  <2>1. rows' = rows /\ Committed(r, req[r].mem, "none") /\ req[r].pc = "loaded" /\ TypeOK
    BY <1>4 DEF LogIn, Verifying, SerialInv, SpentInv
  <2>2. \A q \in Requests \ {r} : req'[q] = req[q]
    BY <2>1, Committing
  <2>3. req'[r].pc = "committed"
    BY <2>1 DEF Committed, TypeOK, RequestState
  <2>4. Current(req[r])'
    BY <2>3 DEF Current, HoldsRow, VerifiesOtp, Rotates
  <2> QED
    BY <1>4, <2>1, <2>2, <2>4, SessionOpened DEF Footprint
<1>5. CASE CloseAllSessions(r) \/ CloseSession(r)
  <2>1. rows' = rows /\ otps' = otps /\ Finish(r)
    BY <1>5 DEF CloseAllSessions, CloseSession
  <2>2. OwnTokens(req[r].call.user)
    BY <1>5, AllSessionsClosed, SessionClosed DEF CloseAllSessions
  <2> QED
    BY <2>1, <2>2, FinishCurrent, UntouchedTables DEF Footprint
<1>6. CASE RotateToken(r)
  <2>1. rows' = rows /\ otps' = otps /\ Finish(r)
    BY <1>6 DEF RotateToken
  <2> QED
    BY <1>6, <2>1, TokenRotated, FinishCurrent, UntouchedTables DEF Footprint
<1> QED
  BY <1>1, <1>2, <1>3, <1>4, <1>5, <1>6 DEF SessionStep

LEMMA QueryStepFootprint ==
  ASSUME SerialInv, NEW r \in Requests,
         QueryStep(r) \/ Reread(r) \/ Invalidate(r) \/ PublishAndReply(r) \/ Crash(r)
  PROVE  Footprint(r) /\ Current(req[r])'
<1>1. Footprint(r)
  BY ReadingFootprint
<1>2. req \in [Requests -> RequestState] /\ req[r] \in RequestState
  BY DEF SerialInv, SpentInv, TypeOK
<1>3. CASE Finish(r)
  BY <1>1, <1>3, FinishCurrent
<1>4. CASE ReadRow(r)
  BY <1>1, <1>4, LoadAccountCurrent
<1>5. CASE ReadCache(r) /\ ~Finish(r)
  <2>1. req'[r].pc = "cacheMissed"
    BY <1>2, <1>5 DEF ReadCache, RequestState
  <2> QED
    BY <1>1, <2>1 DEF Current, HoldsRow, VerifiesOtp, Rotates
<1>6. CASE Invalidate(r)
  <2>1. req'[r].pc = "invalidated"
    BY <1>2, <1>6 DEF Invalidate, RequestState
  <2> QED
    BY <1>1, <2>1 DEF Current, HoldsRow, VerifiesOtp, Rotates
<1> QED
  BY <1>3, <1>4, <1>5, <1>6, NoReread DEF QueryStep, FillCache, PublishAndReply, Crash

LEMMA ActsFootprint ==
  ASSUME SerialInv, NEW r \in Requests, Acts(r)
  PROVE  Footprint(r) /\ Current(req[r])'
BY AccountStepFootprint, SessionStepFootprint, QueryStepFootprint DEF Acts, Step

LEMMA InitSerial == Init => SerialInv
<1> SUFFICES ASSUME Init PROVE SerialInv
  OBVIOUS
<1>1. \A r \in Requests : req[r].pc = "idle"
  BY DEF Init, Idle
<1>2. \A r \in Requests : Current(req[r])
  BY <1>1 DEF Current, HoldsRow, VerifiesOtp, Rotates
<1> QED
  BY <1>1, <1>2, InitSpent DEF SerialInv, OnePerAccount

LEMMA NextSerial == SerialInv /\ [Next /\ OnePerAccount']_vars => SerialInv'
<1> SUFFICES ASSUME SerialInv, [Next /\ OnePerAccount']_vars PROVE SerialInv'
  OBVIOUS
<1>1. SpentInv'
  BY NextSpent DEF SerialInv
<1>2. OnePerAccount'
  <2>1. CASE UNCHANGED vars
    BY <2>1 DEF SerialInv, OnePerAccount, vars
  <2> QED
    BY <2>1
<1>3. \A q \in Requests : Current(req[q])'
  <2>1. ASSUME NEW r \in Requests, Acts(r) PROVE \A q \in Requests : Current(req[q])'
    BY <2>1, ActsFootprint, ActsBusy, OthersCurrent
  <2>2. ASSUME NEW r \in Requests, NEW c \in Calls, Begin(r, c)
        PROVE  \A q \in Requests : Current(req[q])'
    <3>1. req \in [Requests -> RequestState] /\ UNCHANGED db
      BY <2>2 DEF SerialInv, SpentInv, TypeOK, Begin
    <3>2. req'[r] = [Idle EXCEPT !.pc = "admitted", !.call = c]
      BY <2>2, <3>1 DEF Begin
    <3>3. req'[r].pc = "admitted"
      BY <3>2 DEF Idle
    <3>4. Current(req[r])'
      BY <3>3 DEF Current, HoldsRow, VerifiesOtp, Rotates
    <3>5. \A q \in Requests \ {r} : req'[q] = req[q]
      BY <2>2, <3>1 DEF Begin
    <3>6. \A q \in Requests \ {r} : Current(req[q])'
      BY <3>1, <3>5 DEF SerialInv, Current, HoldsRow, VerifiesOtp, Rotates, Registered, db
    <3> QED
      BY <3>4, <3>6
  <2>3. CASE UNCHANGED <<db, req>>
    BY <2>3 DEF SerialInv, Current, HoldsRow, VerifiesOtp, Rotates, Registered, db
  <2>4. ASSUME NEW u \in Users, ExpireCacheEntry(u) PROVE UNCHANGED <<db, req>>
    BY <2>4 DEF ExpireCacheEntry
  <2> QED
    BY <2>1, <2>2, <2>3, <2>4 DEF Next, Acts, vars
<1> QED
  BY <1>1, <1>2, <1>3 DEF SerialInv

-----------------------------------------------------------------------------
(* SerialNext is Next without the overlaps.                                *)

\* A request keeps its call until it ends.
LEMMA CallKept ==
  ASSUME TypeOK, NEW r \in Requests, Acts(r)
  PROVE  req'[r].pc # "idle" => req'[r].call = req[r].call
<1>1. req \in [Requests -> RequestState] /\ req[r] \in RequestState
  BY DEF TypeOK
<1>2. CASE Finish(r)
  BY <1>1, <1>2 DEF Finish, Idle
<1>3. CASE Reread(r) \/ Invalidate(r)
  BY <1>1, <1>3 DEF Reread, Invalidate, RequestState
<1>4. CASE AccountStep(r) /\ ~Finish(r)
  BY <1>1, <1>4 DEF AccountStep, LoadAccount, LookUpPhone, InsertAccount, RequestRole, GrantRole,
     SetStatus, Decide, EditProfile, Committed, RequestState
<1>5. CASE SessionStep(r) /\ ~Finish(r)
  <2>1. CASE FindOtp(r) \/ ConsumeOtp(r) \/ LoadVerifiedAccount(r)
    BY <1>1, <1>5, <2>1 DEF FindOtp, ConsumeOtp, LoadVerifiedAccount, RequestState
  <2>2. CASE ActivateAccount(r) \/ LogIn(r)
    BY <1>1, <2>2 DEF ActivateAccount, LogIn, Committed, RequestState
  <2>3. CASE FindToken(r)
    BY <1>1, <1>5, <2>3 DEF FindToken, RequestState
  <2>4. CASE LoadSessionOwner(r)
    BY <1>1, <1>5, <2>4 DEF LoadSessionOwner, RequestState
  <2> QED
    BY <1>5, <2>1, <2>2, <2>3, <2>4
       DEF SessionStep, CountWrongCode, CloseAllSessions, CloseSession, RotateToken
<1>6. CASE QueryStep(r) /\ ~Finish(r)
  BY <1>1, <1>6 DEF QueryStep, ReadCache, ReadRow, FillCache, RequestState
<1> QED
  BY <1>2, <1>3, <1>4, <1>5, <1>6 DEF Acts, Step, PublishAndReply, Crash

LEMMA SerialStep == SerialInv /\ [SerialNext]_vars => [Next /\ OnePerAccount']_vars
<1> SUFFICES ASSUME SerialInv, SerialNext PROVE Next /\ OnePerAccount'
  OBVIOUS
<1>1. TypeOK /\ OnePerAccount
  BY DEF SerialInv, SpentInv
<1>2. ASSUME NEW r \in Requests, NEW c \in Calls, NobodyOn(c.user), Begin(r, c)
      PROVE  OnePerAccount'
  <2>1. req'[r].call = c /\ \A q \in Requests \ {r} : req'[q] = req[q]
    BY <1>1, <1>2 DEF Begin, TypeOK, Idle
  <2> QED
    BY <1>1, <1>2, <2>1 DEF OnePerAccount, NobodyOn
<1>3. ASSUME NEW r \in Requests, Acts(r) PROVE OnePerAccount'
  <2>1. \A q \in Requests \ {r} : req'[q] = req[q]
    BY <1>3, ActsFootprint DEF Footprint
  <2>2. req'[r].pc # "idle" => req'[r].call = req[r].call
    BY <1>1, <1>3, CallKept
  <2> QED
    BY <1>1, <1>3, <2>1, <2>2, ActsBusy DEF OnePerAccount
<1>4. ASSUME NEW u \in Users, ExpireCacheEntry(u) PROVE OnePerAccount'
  BY <1>1, <1>4 DEF ExpireCacheEntry, OnePerAccount
<1> QED
  BY <1>2, <1>3, <1>4 DEF SerialNext, Next, Acts

\* The rest of this module reasons from these.
LEMMA SerialBehaviour ==
  SerialSpec => Init /\ []SerialInv /\ [][Next /\ OnePerAccount']_vars
BY SerialStep, InitSerial, NextSerial, PTL DEF SerialSpec

-----------------------------------------------------------------------------
(* Statuses and the audit trail.                                           *)

\* Steps that leave every account as it is, and both histories.
LEMMA QuietRows ==
  ASSUME NEW r \in Requests,
         \/ LoadAccount(r) \/ LookUpPhone(r) \/ FindOtp(r) \/ CountWrongCode(r) \/ ConsumeOtp(r)
         \/ LoadVerifiedAccount(r) \/ LogIn(r) \/ FindToken(r) \/ CloseAllSessions(r)
         \/ CloseSession(r) \/ LoadSessionOwner(r) \/ RotateToken(r)
         \/ QueryStep(r) \/ Reread(r) \/ Invalidate(r) \/ PublishAndReply(r) \/ Crash(r)
  PROVE  UNCHANGED <<rows, statusLog, roleLog>>
BY DEF LoadAccount, LookUpPhone, FindOtp, CountWrongCode, ConsumeOtp, LoadVerifiedAccount,
       LogIn, FindToken, CloseAllSessions, CloseSession, LoadSessionOwner, RotateToken,
       QueryStep, ReadCache, ReadRow, FillCache, Reread, Invalidate, PublishAndReply, Crash, db

StatusMove(u) ==
  \/ rows'[u].status = rows[u].status
  \/ CanTransition(rows[u].status, rows'[u].status)
  \/ rows[u].status = Unregistered /\ rows'[u].status = "pending_verification"

LEMMA StatusMoves ==
  ASSUME SerialInv, NEW r \in Requests, Acts(r)
  PROVE  \A u \in Users : StatusMove(u)
<1> DEFINE u == req[r].call.user
<1>1. CASE RequestRole(r) \/ GrantRole(r) \/ EditProfile(r)
  <2>1. rows'[u].status = rows[u].status /\ Saved(r)
    BY <1>1, RequestRoleSaves, GrantRoleSaves, EditProfileSaves
  <2> QED
    BY <2>1 DEF StatusMove, Saved
<1>2. CASE SetStatus(r)
  <2>1. Saved(r) /\ CanTransition(rows[u].status, rows'[u].status)
    BY <1>2, SetStatusSaves DEF ChangesStatus
  <2> QED
    BY <2>1 DEF StatusMove, Saved
<1>3. CASE Decide(r)
  <2>1. /\ Saved(r)
        /\ rows'[u].status = IF rows[u].status = "pending_kyc" THEN "active" ELSE rows[u].status
    BY <1>3, DecideSaves
  <2> QED
    BY <2>1 DEF StatusMove, Saved, CanTransition, AllowedStatusTransitions
<1>4. CASE ActivateAccount(r)
  <2>1. /\ Saved(r) /\ rows[u].status = "pending_verification"
        /\ rows'[u].status \in {"pending_kyc", "active"}
    BY <1>4, ActivateAccountSaves
  <2> QED
    BY <2>1 DEF StatusMove, Saved, CanTransition, AllowedStatusTransitions
<1>5. CASE InsertAccount(r)
  BY <1>5, AccountInserted DEF StatusMove, Registered
<1>6. CASE UNCHANGED rows
  BY <1>6 DEF StatusMove
<1> QED
  BY <1>1, <1>2, <1>3, <1>4, <1>5, <1>6, QuietRows DEF Acts, Step, AccountStep, SessionStep

\* Steps that are not a request's own leave the database alone.
LEMMA OutsideSteps ==
  ASSUME [Next]_vars, ~\E r \in Requests : Acts(r)
  PROVE  UNCHANGED db
BY DEF Next, Acts, Begin, ExpireCacheEntry, vars

\* entities.py, for any number of accounts: a status moves along the table, from
\* pending_verification in VerifyOtp and out of pending_kyc in DecideKyc too, when
\* no other request on the account comes between the read and the write.
THEOREM StatusesFollowTable == SerialSpec => StatusFollowsTable
<1>1. SerialInv /\ [Next /\ OnePerAccount']_vars => [\A u \in Users : StatusMove(u)]_rows
  BY StatusMoves, OutsideSteps DEF db
<1>2. SerialInv /\ [Next /\ OnePerAccount']_vars =>
        [\A u \in Users :
           \/ rows'[u].status = rows[u].status
           \/ CanTransition(rows[u].status, rows'[u].status)
           \/ rows[u].status = Unregistered /\ rows'[u].status = "pending_verification"]_rows
  BY <1>1 DEF StatusMove
<1> QED
  BY SerialBehaviour, <1>2, PTL DEF StatusFollowsTable

\* A number without an account has none of its columns: a row comes to be with its
\* INSERT and never goes.
AbsentIsBlank == \A u \in Users : ~Registered(u) => rows[u] = NoUser

LEMMA BlankStep ==
  ASSUME SerialInv, AbsentIsBlank, NEW r \in Requests, Acts(r)
  PROVE  AbsentIsBlank'
<1> SUFFICES ASSUME NEW u \in Users, ~Registered(u)' PROVE rows'[u] = NoUser
  BY DEF AbsentIsBlank
<1>1. ~Registered(u)
  BY StatusMoves DEF StatusMove, Registered, CanTransition, AllowedStatusTransitions, Unregistered
<1>2. CASE UNCHANGED rows
  BY <1>1, <1>2 DEF AbsentIsBlank
<1>3. CASE InsertAccount(r)
  <2>1. u # req[r].call.user
    BY <1>3, AccountInserted DEF Registered, Unregistered
  <2> QED
    BY <1>1, <1>3, <2>1, AccountInserted DEF AbsentIsBlank
<1>4. CASE Saved(r)
  BY <1>1, <1>4 DEF Saved, AbsentIsBlank
<1> QED
  BY <1>2, <1>3, <1>4, RequestRoleSaves, GrantRoleSaves, SetStatusSaves, DecideSaves,
     EditProfileSaves, ActivateAccountSaves, QuietRows
     DEF Acts, Step, AccountStep, SessionStep

LEMMA NextBlank ==
  SerialInv /\ AbsentIsBlank /\ [Next /\ OnePerAccount']_vars => AbsentIsBlank'
BY BlankStep, OutsideSteps DEF AbsentIsBlank, Registered, db

LEMMA InitBlank == Init => AbsentIsBlank
BY ConstantsAssumption DEF Init, AbsentIsBlank, Registered

\* What AuditTrailIsExact says of a commit.
AuditedCommit ==
  LET newStatusRow == Len(statusLog') > Len(statusLog)
      newRoleRow == Len(roleLog') > Len(roleLog)
  IN  /\ newStatusRow => StatusRowIsExact(statusLog'[Len(statusLog')])
      /\ newRoleRow => RoleRowIsExact(roleLog'[Len(roleLog')])
      /\ \A u \in Users :
           /\ rows'[u].status # rows[u].status /\ Registered(u) =>
                newStatusRow /\ statusLog'[Len(statusLog')].user = u
           /\ <<rows'[u].role, rows'[u].requested>> # <<rows[u].role, rows[u].requested>> =>
                newRoleRow /\ roleLog'[Len(roleLog')].user = u

LEMMA LastRow ==
  ASSUME NEW T, NEW s \in Seq(T), NEW e
  PROVE  /\ Len(Append(s, e)) > Len(s)
         /\ Append(s, e)[Len(Append(s, e))] = e
OBVIOUS

LEMMA AuditedRoleChange ==
  ASSUME SerialInv, NEW r \in Requests, RequestRole(r) \/ GrantRole(r)
  PROVE  AuditedCommit
<1> DEFINE u == req[r].call.user
<1>1. roleLog \in Seq(RoleChange) /\ Len(statusLog) \in Nat
  BY DEF SerialInv, SpentInv, TypeOK
<1>2. PICK e : roleLog' = Append(roleLog, e) /\ e.user = u /\ e.from = rows[u].role
               /\ rows'[u].role = IF e.to = NoRole THEN e.from ELSE e.to
  <2> DEFINE c == req[r].call
             e == [user |-> c.user, from |-> rows[u].role,
                   to |-> IF RequestRole(r) THEN NoRole ELSE c.arg,
                   requested |-> IF RequestRole(r) THEN c.arg ELSE NoRole, by |-> c.by]
  <2>1. /\ roleLog' = Append(roleLog, e)
        /\ rows'[u].role = IF e.to = NoRole THEN rows[u].role ELSE e.to
    <3>1. CASE RequestRole(r)
      BY <3>1, RequestRoleSaves
    <3>2. CASE ~RequestRole(r)
      BY <3>2, GrantRoleSaves DEF UserRole, NoRole
    <3> QED
      BY <3>1, <3>2
  <2>2. e.user = u /\ e.from = rows[u].role
    OBVIOUS
  <2> HIDE DEF e
  <2> QED
    BY <2>1, <2>2
<1>3. Saved(r) /\ rows'[u].status = rows[u].status /\ statusLog' = statusLog
  BY RequestRoleSaves, GrantRoleSaves
<1>4. Len(roleLog') > Len(roleLog) /\ roleLog'[Len(roleLog')] = e
  BY <1>1, <1>2, LastRow
<1>5. \A v \in Users \ {u} : rows'[v] = rows[v]
  BY <1>3 DEF Saved
<1> QED
  BY <1>1, <1>2, <1>3, <1>4, <1>5 DEF AuditedCommit, RoleRowIsExact

LEMMA AuditedStatusChange ==
  ASSUME SerialInv, NEW r \in Requests, SetStatus(r) \/ ActivateAccount(r)
  PROVE  AuditedCommit
<1> DEFINE u == req[r].call.user
<1>1. statusLog \in Seq(StatusChange) /\ Len(roleLog) \in Nat
  BY DEF SerialInv, SpentInv, TypeOK
<1>2. PICK e : statusLog' = Append(statusLog, e) /\ e.user = u /\ e.from = rows[u].status
               /\ e.to = rows'[u].status
  <2> DEFINE e == [user |-> u, from |-> rows[u].status, to |-> rows'[u].status,
                   by |-> IF SetStatus(r) THEN req[r].call.by ELSE Nobody]
  <2>1. statusLog' = Append(statusLog, e)
    BY SetStatusSaves, ActivateAccountSaves
  <2>2. e.user = u /\ e.from = rows[u].status /\ e.to = rows'[u].status
    OBVIOUS
  <2> HIDE DEF e
  <2> QED
    BY <2>1, <2>2
<1>3. /\ Saved(r) /\ roleLog' = roleLog
      /\ rows'[u].role = rows[u].role /\ rows'[u].requested = rows[u].requested
  BY SetStatusSaves, ActivateAccountSaves
<1>4. Len(statusLog') > Len(statusLog) /\ statusLog'[Len(statusLog')] = e
  BY <1>1, <1>2, LastRow
<1>5. \A v \in Users \ {u} : rows'[v] = rows[v]
  BY <1>3 DEF Saved
<1> QED
  BY <1>1, <1>2, <1>3, <1>4, <1>5 DEF AuditedCommit, StatusRowIsExact

LEMMA AuditedDecision ==
  ASSUME SerialInv, NEW r \in Requests, Decide(r)
  PROVE  AuditedCommit
<1> DEFINE u == req[r].call.user
           old == rows[u]
<1>1. statusLog \in Seq(StatusChange) /\ roleLog \in Seq(RoleChange)
  BY DEF SerialInv, SpentInv, TypeOK
<1>2. PICK g : roleLog' = Append(roleLog, g) /\ g.user = u /\ g.from = old.role
               /\ rows'[u].role = IF g.to = NoRole THEN g.from ELSE g.to
  <2> DEFINE c == req[r].call
             g == [user |-> u, from |-> old.role,
                   to |-> IF c.arg = "approve" THEN old.requested ELSE NoRole,
                   requested |-> old.requested, by |-> c.by]
  <2>1. /\ roleLog' = Append(roleLog, g) /\ old.requested # NoRole
        /\ rows'[u].role = IF c.arg = "approve" THEN old.requested ELSE old.role
    BY DecideSaves
  <2>2. /\ g.user = u /\ g.from = old.role
        /\ g.to = IF c.arg = "approve" THEN old.requested ELSE NoRole
    OBVIOUS
  <2> HIDE DEF g
  <2> QED
    BY <2>1, <2>2
<1>3. IF rows'[u].status # old.status
      THEN \E e : statusLog' = Append(statusLog, e) /\ e.user = u /\ e.from = old.status
                  /\ e.to = rows'[u].status
      ELSE statusLog' = statusLog
  <2> DEFINE e == [user |-> u, from |-> old.status, to |-> rows'[u].status,
                   by |-> req[r].call.by]
  <2>1. IF rows'[u].status # old.status THEN statusLog' = Append(statusLog, e)
                                        ELSE statusLog' = statusLog
    BY DecideSaves
  <2>2. e.user = u /\ e.from = old.status /\ e.to = rows'[u].status
    OBVIOUS
  <2> HIDE DEF e
  <2> QED
    BY <2>1, <2>2
<1>4. /\ Len(roleLog') > Len(roleLog) /\ roleLog'[Len(roleLog')] = g
  BY <1>1, <1>2, LastRow
<1>5. \A v \in Users \ {u} : rows'[v] = rows[v]
  BY DecideSaves DEF Saved
<1>6. CASE rows'[u].status # old.status
  <2>1. PICK e : statusLog' = Append(statusLog, e) /\ e.user = u /\ e.from = old.status
                 /\ e.to = rows'[u].status
    BY <1>3, <1>6
  <2>2. Len(statusLog') > Len(statusLog) /\ statusLog'[Len(statusLog')] = e
    BY <1>1, <2>1, LastRow
  <2> QED
    BY <1>2, <1>4, <1>5, <2>1, <2>2 DEF AuditedCommit, StatusRowIsExact, RoleRowIsExact
<1>7. CASE rows'[u].status = old.status
  <2>1. statusLog' = statusLog /\ Len(statusLog) \in Nat
    BY <1>1, <1>3, <1>7
  <2> QED
    BY <1>2, <1>4, <1>5, <1>7, <2>1 DEF AuditedCommit, RoleRowIsExact
<1> QED
  BY <1>6, <1>7

LEMMA ActsAudited ==
  ASSUME SerialInv, AbsentIsBlank, NEW r \in Requests, Acts(r)
  PROVE  AuditedCommit
<1>1. Len(statusLog) \in Nat /\ Len(roleLog) \in Nat
  BY DEF SerialInv, SpentInv, TypeOK
<1>2. CASE UNCHANGED <<rows, statusLog, roleLog>>
  BY <1>1, <1>2 DEF AuditedCommit
<1>3. CASE EditProfile(r)
  <2> DEFINE u == req[r].call.user
  <2>1. /\ rows'[u].status = rows[u].status /\ rows'[u].role = rows[u].role
        /\ rows'[u].requested = rows[u].requested /\ UNCHANGED <<statusLog, roleLog>>
        /\ \A v \in Users \ {u} : rows'[v] = rows[v]
    BY <1>3, EditProfileSaves DEF Saved
  <2> QED
    BY <1>1, <2>1 DEF AuditedCommit
<1>4. CASE InsertAccount(r)
  <2> DEFINE u == req[r].call.user
  <2>1. /\ ~Registered(u) /\ rows'[u].role = "user" /\ rows'[u].requested = NoRole
        /\ UNCHANGED <<statusLog, roleLog>> /\ u \in Users
        /\ \A v \in Users \ {u} : rows'[v] = rows[v]
    BY <1>4, AccountInserted DEF InsertAccount
  <2>2. rows[u].role = "user" /\ rows[u].requested = NoRole
    BY <2>1 DEF AbsentIsBlank, NoUser
  <2> QED
    BY <1>1, <2>1, <2>2 DEF AuditedCommit
<1> QED
  BY <1>2, <1>3, <1>4, AuditedRoleChange, AuditedStatusChange, AuditedDecision, QuietRows
     DEF Acts, Step, AccountStep, SessionStep

\* interfaces.py, record_status_change and record_role_change, for any number of
\* accounts: every change of a status, a role or a request is committed with a history
\* row that says what it was, unless another request on the account came in between.
THEOREM AuditTrailExact == SerialSpec => AuditTrailIsExact
<1>1. SerialInv /\ AbsentIsBlank /\ [Next /\ OnePerAccount']_vars =>
        [AuditedCommit]_<<rows, statusLog, roleLog>>
  BY ActsAudited, OutsideSteps DEF db
<1>2. SerialInv /\ AbsentIsBlank /\ [Next /\ OnePerAccount']_vars =>
        [LET newStatusRow == Len(statusLog') > Len(statusLog)
             newRoleRow == Len(roleLog') > Len(roleLog)
         IN  /\ newStatusRow => StatusRowIsExact(statusLog'[Len(statusLog')])
             /\ newRoleRow => RoleRowIsExact(roleLog'[Len(roleLog')])
             /\ \A u \in Users :
                  /\ rows'[u].status # rows[u].status /\ Registered(u) =>
                       newStatusRow /\ statusLog'[Len(statusLog')].user = u
                  /\ <<rows'[u].role, rows'[u].requested>> # <<rows[u].role, rows[u].requested>> =>
                       newRoleRow /\ roleLog'[Len(roleLog')].user = u
        ]_<<rows, statusLog, roleLog>>
  BY <1>1 DEF AuditedCommit
<1> QED
  BY SerialBehaviour, <1>2, InitBlank, NextBlank, PTL DEF AuditTrailIsExact

-----------------------------------------------------------------------------
(* Sessions.                                                               *)

SessionInv ==
  /\ SerialInv
  /\ SuspendedHasNoSession
  /\ OtpOpensOneSession
  /\ RotationYieldsOneSuccessor

LEMMA TokenUsers ==
  ASSUME SessionInv
  PROVE  tokens \in Seq(Token) /\ \A t \in DOMAIN tokens : tokens[t].user \in Users
<1>1. tokens \in Seq(Token)
  BY DEF SessionInv, SerialInv, SpentInv, TypeOK
<1>2. \A t \in DOMAIN tokens : tokens[t] \in Token
  BY <1>1
<1> QED
  BY <1>1, <1>2 DEF Token

\* Only ChangeStatus suspends.
LEMMA OnlySetStatusSuspends ==
  ASSUME SerialInv, NEW r \in Requests, Acts(r), ~SetStatus(r),
         NEW u \in Users, rows'[u].status = "suspended"
  PROVE  rows[u].status = "suspended"
<1> DEFINE v == req[r].call.user
<1>1. CASE RequestRole(r) \/ GrantRole(r) \/ EditProfile(r)
  <2>1. Saved(r) /\ rows'[v].status = rows[v].status
    BY <1>1, RequestRoleSaves, GrantRoleSaves, EditProfileSaves
  <2> QED
    BY <2>1 DEF Saved
<1>2. CASE Decide(r) \/ ActivateAccount(r)
  <2>1. Saved(r) /\ (rows'[v].status \in {"pending_kyc", "active"} \/ rows'[v].status = rows[v].status)
    BY <1>2, DecideSaves, ActivateAccountSaves
  <2> QED
    BY <2>1 DEF Saved
<1>3. CASE InsertAccount(r)
  BY <1>3, AccountInserted
<1>4. CASE UNCHANGED rows
  BY <1>4
<1> QED
  BY <1>1, <1>2, <1>3, <1>4, QuietRows DEF Acts, Step, AccountStep, SessionStep

\* A step that issues no token.
LEMMA RevokingStep ==
  ASSUME SessionInv, NEW r \in Requests, Acts(r), ~SetStatus(r), Revoking
  PROVE  SuspendedHasNoSession' /\ OtpOpensOneSession' /\ RotationYieldsOneSuccessor'
<1>1. \A t \in DOMAIN tokens : tokens[t].user \in Users
  BY TokenUsers
<1>2. SuspendedHasNoSession'
  BY <1>1, OnlySetStatusSuspends DEF SessionInv, SuspendedHasNoSession, Revoking
<1> QED
  BY <1>2 DEF SessionInv, OtpOpensOneSession, RotationYieldsOneSuccessor, Revoking

LEMMA TokensUnchanged == tokens' = tokens => Revoking
BY DEF Revoking

LEMMA SetStatusSessions ==
  ASSUME SessionInv, NEW r \in Requests, SetStatus(r)
  PROVE  SuspendedHasNoSession' /\ OtpOpensOneSession' /\ RotationYieldsOneSuccessor'
<1> DEFINE u == req[r].call.user
<1>1. Saved(r) /\ rows'[u].status = req[r].call.arg
  BY SetStatusSaves DEF SessionInv
<1>2. \A t \in DOMAIN tokens : tokens[t].user \in Users
  BY TokenUsers
<1>3. CASE req[r].call.arg = "suspended"
  <2>1. Revoking /\ \A t \in DOMAIN tokens : tokens[t].user = u => tokens'[t].revoked
    BY <1>3, AllSessionsClosed DEF SessionInv, SetStatus
  <2>2. SuspendedHasNoSession'
    BY <1>1, <1>2, <2>1 DEF SessionInv, SuspendedHasNoSession, Revoking, Saved
  <2> QED
    BY <2>1, <2>2 DEF SessionInv, OtpOpensOneSession, RotationYieldsOneSuccessor, Revoking
<1>4. CASE req[r].call.arg # "suspended"
  <2>1. tokens' = tokens
    BY <1>4 DEF SetStatus
  <2>2. SuspendedHasNoSession'
    BY <1>1, <1>2, <1>4, <2>1 DEF SessionInv, SuspendedHasNoSession, Saved
  <2> QED
    BY <2>1, <2>2 DEF SessionInv, OtpOpensOneSession, RotationYieldsOneSuccessor
<1> QED
  BY <1>3, <1>4

\* The code was live, and every code that opened a session is consumed: this one has
\* opened none.
LEMMA OpeningSessions ==
  ASSUME SessionInv, NEW r \in Requests, ActivateAccount(r) \/ LogIn(r)
  PROVE  SuspendedHasNoSession' /\ OtpOpensOneSession' /\ RotationYieldsOneSuccessor'
<1> DEFINE u == req[r].call.user
           o == req[r].item
           token == [user |-> u, revoked |-> FALSE, parent |-> 0, otp |-> o]
           new == Len(tokens) + 1
<1>1. Opening(r)
  BY SessionOpened DEF SessionInv
<1>2. tokens \in Seq(Token) /\ \A t \in DOMAIN tokens : tokens[t].user \in Users
  BY TokenUsers
<1>3. token.user = u /\ token.parent = 0 /\ token.otp = o
  OBVIOUS
<1>4. tokens' = Append(tokens, token)
  BY <1>1 DEF Opening
<1> HIDE DEF token
<1>5. /\ DOMAIN tokens' = DOMAIN tokens \cup {new} /\ new \notin DOMAIN tokens
      /\ \A t \in DOMAIN tokens : tokens'[t] = tokens[t]
      /\ tokens'[new] = token
  BY <1>2, <1>4, Appended
<1> HIDE DEF new
<1>6. \A t \in DOMAIN tokens : tokens[t].otp # o \/ o = 0
  BY <1>1 DEF SessionInv, SerialInv, SpentInv, Opened, Opening
<1>7. rows'[u].status # "suspended"
  <2>1. CASE ActivateAccount(r)
    BY <2>1, ActivateAccountSaves DEF SessionInv
  <2>2. CASE LogIn(r)
    BY <1>1, <2>2 DEF LogIn, Opening
  <2> QED
    BY <2>1, <2>2
<1>8. SuspendedHasNoSession'
  <2>1. ASSUME NEW v \in Users, rows'[v].status = "suspended" PROVE rows[v].status = "suspended"
    <3>1. Acts(r) /\ ~SetStatus(r)
      BY DEF Acts, Step, SessionStep, ActivateAccount, LogIn, Verifying, SetStatus, Writing
    <3> QED
      BY <2>1, <3>1, OnlySetStatusSuspends DEF SessionInv
  <2> QED
    BY <1>2, <1>3, <1>5, <1>7, <2>1 DEF SessionInv, SuspendedHasNoSession
<1> QED
  BY <1>3, <1>5, <1>6, <1>8 DEF SessionInv, OtpOpensOneSession, RotationYieldsOneSuccessor

\* The token was live, and every token that was exchanged is revoked: this one was not.
LEMMA RotatingSessions ==
  ASSUME SessionInv, NEW r \in Requests, RotateToken(r)
  PROVE  SuspendedHasNoSession' /\ OtpOpensOneSession' /\ RotationYieldsOneSuccessor'
<1> DEFINE u == req[r].call.user
           i == req[r].item
           new == Len(tokens) + 1
           token == [user |-> u, revoked |-> FALSE, parent |-> i, otp |-> 0]
<1>1. /\ i \in DOMAIN tokens /\ tokens[i].user = u /\ ~tokens[i].revoked
      /\ u \in Users /\ rows[u].status \in SessionAllowedStatuses
      /\ new \notin DOMAIN tokens /\ DOMAIN tokens' = DOMAIN tokens \cup {new}
      /\ tokens'[new] = token
      /\ \A t \in DOMAIN tokens : /\ tokens'[t].user = tokens[t].user
                                  /\ tokens'[t].otp = tokens[t].otp
                                  /\ tokens'[t].parent = tokens[t].parent
                                  /\ tokens[t].revoked => tokens'[t].revoked
  BY TokenRotated DEF SessionInv, Rotating
<1>2. token.user = u /\ token.parent = i /\ token.otp = 0
  OBVIOUS
<1> HIDE DEF token, new
<1>3. rows' = rows /\ rows[u].status # "suspended"
  BY <1>1 DEF RotateToken, SessionAllowedStatuses
<1>4. \A t \in DOMAIN tokens : tokens[t].parent # i \/ i = 0
  BY <1>1 DEF SessionInv, SerialInv, SpentInv, Opened
<1>5. SuspendedHasNoSession'
  BY <1>1, <1>2, <1>3 DEF SessionInv, SuspendedHasNoSession
<1> QED
  BY <1>1, <1>2, <1>4, <1>5 DEF SessionInv, OtpOpensOneSession, RotationYieldsOneSuccessor

\* Steps that leave the sessions alone.
LEMMA QuietTokens ==
  ASSUME NEW r \in Requests,
         \/ AccountStep(r) /\ ~SetStatus(r)
         \/ FindOtp(r) \/ CountWrongCode(r) \/ ConsumeOtp(r)
         \/ LoadVerifiedAccount(r) \/ FindToken(r) \/ LoadSessionOwner(r)
         \/ QueryStep(r) \/ Reread(r) \/ Invalidate(r) \/ PublishAndReply(r) \/ Crash(r)
  PROVE  tokens' = tokens
BY DEF AccountStep, LoadAccount, LookUpPhone, InsertAccount, RequestRole, GrantRole, Decide,
       EditProfile, FindOtp, CountWrongCode, ConsumeOtp, LoadVerifiedAccount, FindToken,
       LoadSessionOwner, QueryStep, ReadCache, ReadRow, FillCache, Reread, Invalidate,
       PublishAndReply, Crash, db

LEMMA NextSessions ==
  SessionInv /\ [Next /\ OnePerAccount']_vars => SessionInv'
<1> SUFFICES ASSUME SessionInv, [Next /\ OnePerAccount']_vars PROVE SessionInv'
  OBVIOUS
<1>1. SerialInv'
  BY NextSerial DEF SessionInv
<1>2. ASSUME NEW r \in Requests, Acts(r)
      PROVE  SuspendedHasNoSession' /\ OtpOpensOneSession' /\ RotationYieldsOneSuccessor'
  <2>1. CASE SetStatus(r)
    BY <2>1, SetStatusSessions
  <2>2. CASE ActivateAccount(r) \/ LogIn(r)
    BY <2>2, OpeningSessions
  <2>3. CASE RotateToken(r)
    BY <2>3, RotatingSessions
  <2>4. CASE /\ tokens' = tokens \/ CloseAllSessions(r) \/ CloseSession(r)
             /\ ~SetStatus(r)
    BY <1>2, <2>4, TokensUnchanged, AllSessionsClosed, SessionClosed, RevokingStep
       DEF SessionInv, CloseAllSessions
  <2> QED
    BY <1>2, <2>1, <2>2, <2>3, <2>4, QuietTokens DEF Acts, Step, SessionStep
<1>3. ASSUME UNCHANGED db
      PROVE  SuspendedHasNoSession' /\ OtpOpensOneSession' /\ RotationYieldsOneSuccessor'
  <2>1. tokens' = tokens /\ rows' = rows
    BY <1>3 DEF db
  <2> QED
    BY <2>1 DEF SessionInv, SuspendedHasNoSession, OtpOpensOneSession,
                RotationYieldsOneSuccessor
<1> QED
  BY <1>1, <1>2, <1>3, OutsideSteps DEF SessionInv

LEMMA InitSessions == Init => SessionInv
<1> SUFFICES ASSUME Init PROVE SessionInv
  OBVIOUS
<1>1. /\ DOMAIN tokens = DOMAIN InitTokens
      /\ \A t \in DOMAIN tokens : /\ tokens[t].otp = 0 /\ tokens[t].parent = 0
                                  /\ tokens[t].user = InitTokens[t]
  BY DEF Init
<1>2. \A t \in DOMAIN tokens : rows[tokens[t].user].status \in SessionAllowedStatuses
  BY <1>1, ConstantsAssumption DEF Init
<1> QED
  BY <1>1, <1>2, InitSerial DEF SessionInv, SuspendedHasNoSession, OtpOpensOneSession,
     RotationYieldsOneSuccessor, SessionAllowedStatuses

\* change_status.py, "the suspension bites at once": every refresh token of a suspended
\* account is revoked, unless another request of that account was under way.
THEOREM SuspensionClosesSessions == SerialSpec => []SuspendedHasNoSession
<1>1. SessionInv => SuspendedHasNoSession
  BY DEF SessionInv
<1> QED
  BY SerialBehaviour, <1>1, InitSessions, NextSessions, PTL

\* verify_otp.py: one session per code, whatever is replayed after it.
THEOREM OneSessionPerOtp == SerialSpec => []OtpOpensOneSession
<1>1. SessionInv => OtpOpensOneSession
  BY DEF SessionInv
<1> QED
  BY SerialBehaviour, <1>1, InitSessions, NextSessions, PTL

\* refresh_token.py: one successor per refresh token.
THEOREM OneSuccessorPerToken == SerialSpec => []RotationYieldsOneSuccessor
<1>1. SessionInv => RotationYieldsOneSuccessor
  BY DEF SessionInv
<1> QED
  BY SerialBehaviour, <1>1, InitSessions, NextSessions, PTL

\* A new token's code is below the ceiling.
EarnedTokens ==
  \A t \in DOMAIN tokens' \ DOMAIN tokens :
    tokens'[t].otp # 0 => otps[tokens'[t].otp].attempts < MaxAttempts

LEMMA OpeningEarned ==
  ASSUME SerialInv, NEW r \in Requests, ActivateAccount(r) \/ LogIn(r)
  PROVE  EarnedTokens
<1> DEFINE o == req[r].item
           token == [user |-> req[r].call.user, revoked |-> FALSE, parent |-> 0, otp |-> o]
<1>1. Opening(r)
  BY SessionOpened
<1>2. tokens \in Seq(Token) /\ otps \in Seq(Otp) /\ o \in DOMAIN otps
  BY <1>1 DEF SerialInv, SpentInv, TypeOK, Opening
<1>3. otps[o].attempts \in Nat /\ MaxAttempts \in Nat
  <2>1. otps[o] \in Otp
    BY <1>2
  <2> QED
    BY <2>1, ConstantsAssumption DEF Otp
<1>4. otps[o].attempts < MaxAttempts
  BY <1>1, <1>3 DEF SerialInv, SpentInv, BurnedAtTheCeiling, Opening
<1>5. token.otp = o
  OBVIOUS
<1>6. tokens' = Append(tokens, token)
  BY <1>1 DEF Opening
<1> HIDE DEF token
<1>7. ASSUME NEW t \in DOMAIN tokens' \ DOMAIN tokens PROVE tokens'[t] = token
  BY <1>2, <1>6, <1>7, Appended
<1> QED
  BY <1>4, <1>5, <1>7 DEF EarnedTokens

LEMMA ActsEarned ==
  ASSUME SerialInv, NEW r \in Requests, Acts(r)
  PROVE  EarnedTokens
<1>1. CASE ActivateAccount(r) \/ LogIn(r)
  BY <1>1, OpeningEarned
<1>2. CASE RotateToken(r)
  <2> DEFINE token == [user |-> req[r].call.user, revoked |-> FALSE,
                       parent |-> req[r].item, otp |-> 0]
  <2>1. ASSUME NEW t \in DOMAIN tokens' \ DOMAIN tokens PROVE tokens'[t] = token
    <3>1. Rotating(r)
      BY <1>2, TokenRotated
    <3> QED
      BY <2>1, <3>1 DEF Rotating
  <2> QED
    BY <2>1 DEF EarnedTokens
<1>3. CASE DOMAIN tokens' = DOMAIN tokens
  BY <1>3 DEF EarnedTokens
<1>4. CASE SetStatus(r)
  BY <1>3, <1>4, AllSessionsClosed DEF SetStatus, Revoking
<1> QED
  BY <1>1, <1>2, <1>3, <1>4, QuietTokens, AllSessionsClosed, SessionClosed
     DEF Acts, Step, SessionStep, CloseAllSessions, Revoking

\* verify_otp.py and otp_max_attempts: once wrong guesses have reached the ceiling the
\* code opens no session, unless a right guess of the same owner was under way.
THEOREM BurnedCodesOpenNothing == SerialSpec => BurnedCodeOpensNothing
<1>1. SerialInv /\ [Next /\ OnePerAccount']_vars => [EarnedTokens]_tokens
  BY ActsEarned, OutsideSteps DEF db
<1>2. SerialInv /\ [Next /\ OnePerAccount']_vars =>
        [\A t \in DOMAIN tokens' \ DOMAIN tokens :
           tokens'[t].otp # 0 => otps[tokens'[t].otp].attempts < MaxAttempts]_tokens
  BY <1>1 DEF EarnedTokens
<1> QED
  BY SerialBehaviour, <1>2, PTL DEF BurnedCodeOpensNothing

-----------------------------------------------------------------------------
(* user.registered is published once.                                      *)

\* An account that has not been verified yet.
Unverified(u) == rows[u].status \in {Unregistered, "pending_verification"}

\* A request that has activated u and not announced it.
Welcomes(r, u) ==
  Carries(req[r]) /\ req[r].event = "user.registered" /\ req[r].call.user = u

Welcomed(u) ==
  /\ Unverified(u) => Entries("user.registered", u) = {}
  /\ \A r \in Requests : Welcomes(r, u) => /\ ~Unverified(u)
                                           /\ Entries("user.registered", u) = {}
  /\ \A i, j \in Entries("user.registered", u) : i = j

WelcomeInv == SerialInv /\ \A u \in Users : Welcomed(u)

\* No account returns to being unverified.
LEMMA VerifiedForGood ==
  ASSUME SerialInv, NEW r \in Requests, Acts(r), NEW u \in Users, Unverified(u)'
  PROVE  Unverified(u)
BY StatusMoves DEF StatusMove, Unverified, CanTransition, AllowedStatusTransitions, Unregistered

\* A step that publishes nothing and after which the request carries no welcome that
\* it did not carry before.
LEMMA UnwelcomingStep ==
  ASSUME WelcomeInv, NEW r \in Requests, Acts(r), stream' = stream,
         \A u \in Users : Welcomes(r, u)' => Welcomes(r, u)
  PROVE  \A u \in Users : Welcomed(u)'
<1> SUFFICES ASSUME NEW u \in Users PROVE Welcomed(u)'
  OBVIOUS
<1>1. Welcomed(u) /\ SerialInv
  BY DEF WelcomeInv
<1>2. Entries("user.registered", u)' = Entries("user.registered", u)
  BY DEF Entries
<1>3. \A q \in Requests : Welcomes(q, u)' => Welcomes(q, u)
  <2>1. \A q \in Requests \ {r} : req'[q] = req[q]
    BY <1>1, ActsFootprint DEF Footprint
  <2> QED
    BY <2>1 DEF Welcomes
<1>4. Unverified(u)' => Unverified(u)
  BY <1>1, VerifiedForGood
<1> QED
  BY <1>1, <1>2, <1>3, <1>4 DEF Welcomed

LEMMA ActivateAccountWelcomes ==
  ASSUME WelcomeInv, NEW r \in Requests, ActivateAccount(r)
  PROVE  \A u \in Users : Welcomed(u)'
<1> DEFINE v == req[r].call.user
<1>1. /\ SerialInv /\ Saved(r) /\ v \in Users /\ Unverified(v)
      /\ rows'[v].status \in {"pending_kyc", "active"}
      /\ req'[r].event = "user.registered"
  BY ActivateAccountSaves DEF WelcomeInv, Saved, Unverified
<1>2. stream' = stream
  BY DEF ActivateAccount, redis
<1> SUFFICES ASSUME NEW u \in Users PROVE Welcomed(u)'
  OBVIOUS
<1>3. Welcomed(u) /\ Entries("user.registered", u)' = Entries("user.registered", u)
  BY <1>2 DEF WelcomeInv, Entries
<1>4. CASE u = v
  <2>1. ~Unverified(u)'
    BY <1>1, <1>4 DEF Unverified, Unregistered
  <2> QED
    BY <1>1, <1>3, <1>4, <2>1 DEF Welcomed
<1>5. CASE u # v
  <2>1. \A q \in Requests : Welcomes(q, u)' => Welcomes(q, u)
    BY <1>1, <1>5 DEF Welcomes, Saved
  <2>2. Unverified(u)' = Unverified(u)
    BY <1>1, <1>5 DEF Saved, Unverified
  <2> QED
    BY <1>3, <2>1, <2>2 DEF Welcomed
<1> QED
  BY <1>4, <1>5

LEMMA PublishAndReplyWelcomes ==
  ASSUME WelcomeInv, NEW r \in Requests, PublishAndReply(r), stream' # stream
  PROVE  \A u \in Users : Welcomed(u)'
<1> DEFINE v == req[r].call.user
           e == [name |-> req[r].event, user |-> v, role |-> req[r].mem.role]
           n == Len(stream) + 1
<1>1. /\ SerialInv /\ rows' = rows /\ Carries(req[r]) /\ stream \in Seq(Event)
      /\ stream' = Append(stream, e) /\ Finish(r)
  BY DEF WelcomeInv, SerialInv, SpentInv, TypeOK, PublishAndReply, Carries, db
<1>2. e.name = req[r].event /\ e.user = v
  OBVIOUS
<1> HIDE DEF e
<1>3. /\ DOMAIN stream' = DOMAIN stream \cup {n} /\ n \notin DOMAIN stream
      /\ \A i \in DOMAIN stream : stream'[i] = stream[i]
      /\ stream'[n] = e
  BY <1>1, Appended
<1> HIDE DEF n
<1>4. \A q \in Requests \ {r} : req'[q] = req[q]
  BY <1>1, FinishCurrent
<1>5. req'[r].pc = "idle"
  BY <1>1, FinishCurrent DEF Idle
<1> SUFFICES ASSUME NEW u \in Users PROVE Welcomed(u)'
  OBVIOUS
<1>6. Welcomed(u) /\ Unverified(u)' = Unverified(u)
  BY <1>1 DEF WelcomeInv, Unverified
<1>7. \A q \in Requests : Welcomes(q, u)' => Welcomes(q, u) /\ q # r
  BY <1>4, <1>5 DEF Welcomes, Carries
<1>8. CASE Welcomes(r, u)
  <2>1. \A q \in Requests : ~Welcomes(q, u)'
    BY <1>1, <1>7, <1>8 DEF Welcomes, Carries, SerialInv, OnePerAccount
  <2>2. ~Unverified(u)' /\ Entries("user.registered", u) = {}
    BY <1>6, <1>8 DEF Welcomed
  <2>3. Entries("user.registered", u)' \subseteq {n}
    BY <1>3, <2>2 DEF Entries
  <2> QED
    BY <2>1, <2>2, <2>3 DEF Welcomed
<1>9. CASE ~Welcomes(r, u)
  <2>1. ~(e.name = "user.registered" /\ e.user = u)
    BY <1>1, <1>2, <1>9 DEF Welcomes
  <2>2. Entries("user.registered", u)' = Entries("user.registered", u)
    BY <1>3, <2>1 DEF Entries
  <2> QED
    BY <1>6, <1>7, <2>2 DEF Welcomed
<1> QED
  BY <1>8, <1>9

LEMMA ActsWelcome ==
  ASSUME WelcomeInv, NEW r \in Requests, Acts(r)
  PROVE  \A u \in Users : Welcomed(u)'
<1>1. /\ SerialInv /\ TypeOK
      /\ req \in [Requests -> RequestState] /\ req[r] \in RequestState
  BY DEF WelcomeInv, SerialInv, SpentInv, TypeOK
<1>2. CASE ActivateAccount(r)
  BY <1>2, ActivateAccountWelcomes
<1>3. CASE RequestRole(r) \/ GrantRole(r) \/ SetStatus(r) \/ Decide(r) \/ EditProfile(r)
  <2>1. stream' = stream
    BY <1>3 DEF RequestRole, GrantRole, SetStatus, Decide, EditProfile, redis
  <2>2. req'[r].event # "user.registered"
    BY <1>1, <1>3, RequestRoleSaves, GrantRoleSaves, SetStatusSaves, DecideSaves, EditProfileSaves
       DEF StatusEventName
  <2> QED
    BY <1>1, <1>3, <2>1, <2>2, UnwelcomingStep DEF Welcomes, Acts, Step, AccountStep
<1>4. CASE LogIn(r)
  <2>1. stream' = stream /\ Committed(r, req[r].mem, "none") /\ req[r].pc = "loaded"
    BY <1>4 DEF LogIn, Verifying, redis
  <2>2. req'[r].event = "none"
    BY <1>1, <2>1, Committing
  <2> QED
    BY <1>4, <2>1, <2>2, UnwelcomingStep DEF Welcomes, Acts, Step, SessionStep
<1>5. CASE Finish(r) /\ stream' = stream
  <2>1. req'[r].pc = "idle"
    BY <1>1, <1>5, FinishCurrent DEF Idle
  <2> QED
    BY <1>5, <2>1, UnwelcomingStep DEF Welcomes, Carries
<1>6. CASE PublishAndReply(r)
  BY <1>5, <1>6, PublishAndReplyWelcomes DEF PublishAndReply
<1>7. CASE Invalidate(r)
  <2>1. /\ stream' = stream /\ req[r].pc = "committed"
        /\ req'[r].event = req[r].event /\ req'[r].call = req[r].call
    BY <1>1, <1>7 DEF Invalidate, RequestState
  <2> QED
    BY <1>7, <2>1, UnwelcomingStep DEF Welcomes, Carries, Acts, Step
<1>8. CASE /\ \/ LoadAccount(r) \/ LookUpPhone(r) \/ FindOtp(r) \/ ConsumeOtp(r)
              \/ LoadVerifiedAccount(r) \/ FindToken(r) \/ LoadSessionOwner(r)
              \/ ReadCache(r) \/ ReadRow(r)
           /\ ~Finish(r)
  <2>1. stream' = stream
    BY <1>8 DEF LoadAccount, LookUpPhone, FindOtp, ConsumeOtp, LoadVerifiedAccount, FindToken,
                LoadSessionOwner, ReadCache, ReadRow, redis
  <2>2. req'[r].pc \in {"loaded", "otpFound", "otpConsumed", "replayed", "tokenFound",
                        "cacheMissed", "rowRead"}
    <3>1. CASE LoadAccount(r) \/ LookUpPhone(r) \/ LoadVerifiedAccount(r) \/ LoadSessionOwner(r)
      BY <1>1, <1>8, <3>1 DEF LoadAccount, LookUpPhone, LoadVerifiedAccount, LoadSessionOwner,
                              RequestState
    <3>2. CASE FindOtp(r) \/ ConsumeOtp(r)
      BY <1>1, <1>8, <3>2 DEF FindOtp, ConsumeOtp, RequestState
    <3>3. CASE FindToken(r)
      BY <1>1, <1>8, <3>3 DEF FindToken, RequestState
    <3>4. CASE ReadCache(r) \/ ReadRow(r)
      BY <1>1, <1>8, <3>4 DEF ReadCache, ReadRow, RequestState
    <3> QED
      BY <1>8, <3>1, <3>2, <3>3, <3>4
  <2> QED
    BY <2>1, <2>2, UnwelcomingStep DEF Welcomes, Carries
<1>9. CASE \/ InsertAccount(r) \/ CountWrongCode(r) \/ CloseAllSessions(r) \/ CloseSession(r)
           \/ RotateToken(r) \/ FillCache(r) \/ Crash(r)
  <2>1. Finish(r) /\ stream' = stream
    BY <1>9 DEF InsertAccount, CountWrongCode, CloseAllSessions, CloseSession, RotateToken,
                FillCache, Crash, redis
  <2> QED
    BY <1>5, <2>1
<1>10. CASE Finish(r) /\ (LoadAccount(r) \/ LookUpPhone(r) \/ FindOtp(r) \/ LoadVerifiedAccount(r)
             \/ FindToken(r) \/ LoadSessionOwner(r) \/ ReadCache(r) \/ ReadRow(r))
  BY <1>5, <1>10 DEF LoadAccount, LookUpPhone, FindOtp, LoadVerifiedAccount, FindToken,
                LoadSessionOwner, ReadCache, ReadRow, redis
<1>11. CASE ConsumeOtp(r) /\ Finish(r)
  BY <1>5, <1>11 DEF ConsumeOtp, redis
<1> QED
  BY <1>1, <1>2, <1>3, <1>4, <1>6, <1>7, <1>8, <1>9, <1>10, <1>11, NoReread
     DEF Acts, Step, AccountStep, SessionStep, QueryStep

LEMMA BeginWelcomes ==
  ASSUME WelcomeInv, NEW r \in Requests, NEW c \in Calls, Begin(r, c)
  PROVE  \A u \in Users : Welcomed(u)'
<1>1. req \in [Requests -> RequestState] /\ rows' = rows /\ stream' = stream
  BY DEF WelcomeInv, SerialInv, SpentInv, TypeOK, Begin, db, redis
<1>2. req'[r] = [Idle EXCEPT !.pc = "admitted", !.call = c]
      /\ \A q \in Requests \ {r} : req'[q] = req[q]
  BY <1>1 DEF Begin
<1>3. req'[r].pc = "admitted"
  BY <1>2 DEF Idle
<1>4. \A u \in Users, q \in Requests : Welcomes(q, u)' => Welcomes(q, u)
  BY <1>2, <1>3 DEF Welcomes, Carries
<1> QED
  BY <1>1, <1>4 DEF WelcomeInv, Welcomed, Unverified, Entries

LEMMA NextWelcome ==
  WelcomeInv /\ [Next /\ OnePerAccount']_vars => WelcomeInv'
<1> SUFFICES ASSUME WelcomeInv, [Next /\ OnePerAccount']_vars PROVE WelcomeInv'
  OBVIOUS
<1>1. SerialInv'
  BY NextSerial DEF WelcomeInv
<1>2. CASE UNCHANGED <<db, req, stream>>
  <2>1. rows' = rows /\ req' = req /\ stream' = stream
    BY <1>2 DEF db
  <2>2. \A u \in Users : Welcomed(u)'
    BY <2>1 DEF WelcomeInv, Welcomed, Welcomes, Unverified, Entries
  <2> QED
    BY <1>1, <2>2 DEF WelcomeInv
<1>3. ASSUME NEW u \in Users, ExpireCacheEntry(u) PROVE UNCHANGED <<db, req, stream>>
  BY <1>3 DEF ExpireCacheEntry
<1>4. UNCHANGED vars => UNCHANGED <<db, req, stream>>
  BY DEF vars, redis
<1> QED
  BY <1>1, <1>2, <1>3, <1>4, ActsWelcome, BeginWelcomes DEF WelcomeInv, Next, Acts

LEMMA InitWelcome == Init => WelcomeInv
<1> SUFFICES ASSUME Init PROVE WelcomeInv
  OBVIOUS
<1>1. \A r \in Requests : req[r].pc = "idle"
  BY DEF Init, Idle
<1>2. \A u : Entries("user.registered", u) = {}
  BY DEF Init, Entries
<1> QED
  BY <1>1, <1>2, InitSerial DEF WelcomeInv, Welcomed, Welcomes, Carries

\* user_events.py, user.registered: once per account, however many codes are verified,
\* unless two verifications of one account overlap.
THEOREM RegistrationAnnouncedOnce == SerialSpec => []RegisteredOnce
<1>1. WelcomeInv => RegisteredOnce
  <2> SUFFICES ASSUME WelcomeInv, NEW u \in Users PROVE Published("user.registered", u) <= 1
    BY DEF RegisteredOnce
  <2> DEFINE S == Entries("user.registered", u)
  <2>1. Published("user.registered", u) = Cardinality(S)
    BY DEF Published, Count, Entries
  <2>2. \A i, j \in S : i = j
    BY DEF WelcomeInv, Welcomed
  <2> HIDE DEF S
  <2>3. CASE S = {}
    BY <2>1, <2>3, FS_EmptySet
  <2>4. CASE S # {}
    <3>1. PICK i \in S : TRUE
      BY <2>4
    <3>2. S = {i}
      BY <2>2
    <3> QED
      BY <2>1, <3>2, FS_Singleton
  <2> QED
    BY <2>3, <2>4
<1> QED
  BY SerialBehaviour, <1>1, InitWelcome, NextWelcome, PTL

-----------------------------------------------------------------------------
(* The profile cache.                                                      *)

\* What is cached is what the row says, or is about to be invalidated.
Fresh(u) ==
  CacheHit(u) =>
    /\ Registered(u)
    /\ \/ cache[u] = CacheEntry(rows[u])
       \/ \E r \in Requests : req[r].pc = "committed" /\ req[r].call.user = u

CacheInv ==
  /\ SerialInv
  /\ ~CrashesHappen /\ ~RedisFails => \A u \in Users : Fresh(u)

\* Another account's entry.
LEMMA OthersFresh ==
  ASSUME SerialInv, NEW r \in Requests, Footprint(r),
         NEW u \in Users \ {req[r].call.user}, cache'[u] = cache[u], Fresh(u)
  PROVE  Fresh(u)'
<1>1. rows'[u] = rows[u]
  BY DEF Footprint
<1>2. ASSUME NEW q \in Requests, req[q].pc = "committed", req[q].call.user = u
      PROVE  req'[q].pc = "committed" /\ req'[q].call.user = u
  BY <1>2 DEF Footprint
<1> QED
  BY <1>1, <1>2 DEF Fresh, CacheHit, Registered

\* The cache keeps up with a step that changes no row and is not an invalidation.
LEMMA QuietFresh ==
  ASSUME SerialInv, NEW r \in Requests, Footprint(r), req[r].pc # "committed",
         UNCHANGED <<rows, cache>>, NEW u \in Users, Fresh(u)
  PROVE  Fresh(u)'
<1>1. ASSUME NEW q \in Requests, req[q].pc = "committed" PROVE req'[q] = req[q]
  BY <1>1 DEF Footprint
<1> QED
  BY <1>1 DEF Fresh, CacheHit, Registered

\* A COMMIT outdates the entry, and the request that made it will invalidate it.
LEMMA CommitFresh ==
  ASSUME SerialInv, NEW r \in Requests, Acts(r), cache' = cache,
         req'[r].pc = "committed", req'[r].call = req[r].call,
         req[r].call.user \in Users, Fresh(req[r].call.user)
  PROVE  Fresh(req[r].call.user)'
<1> DEFINE u == req[r].call.user
<1>1. Registered(u) => Registered(u)'
  BY StatusMoves DEF StatusMove, Registered, CanTransition, AllowedStatusTransitions, Unregistered
<1> QED
  BY <1>1 DEF Fresh, CacheHit

LEMMA ActsFresh ==
  ASSUME CacheInv, NEW r \in Requests, Acts(r), ~CrashesHappen, ~RedisFails, NEW u \in Users
  PROVE  Fresh(u)'
<1> DEFINE v == req[r].call.user
<1>1. /\ SerialInv /\ Fresh(u) /\ Footprint(r)
      /\ TypeOK /\ cache \in [Users -> User]
  BY ActsFootprint DEF CacheInv, SerialInv, SpentInv, TypeOK
<1>2. v \in Users
  BY <1>1, ActsBusy, CallType
<1>3. CASE u # v
  <2>1. cache'[u] = cache[u]
    <3>1. CASE FillCache(r) \/ Invalidate(r)
      BY <1>1, <1>3, <3>1 DEF FillCache, Invalidate
    <3>2. CASE AccountStep(r)
      BY <3>2 DEF AccountStep, LoadAccount, LookUpPhone, InsertAccount, RequestRole,
             GrantRole, SetStatus, Decide, EditProfile, redis
    <3>3. CASE SessionStep(r)
      <4>1. UNCHANGED redis
        BY <3>3 DEF SessionStep, FindOtp, CountWrongCode, ConsumeOtp, LoadVerifiedAccount,
               ActivateAccount, LogIn, FindToken, CloseAllSessions, CloseSession,
               LoadSessionOwner, RotateToken
      <4> QED
        BY <4>1 DEF redis
    <3>4. CASE ReadCache(r) \/ ReadRow(r) \/ Reread(r) \/ PublishAndReply(r) \/ Crash(r)
      BY <3>4 DEF ReadCache, ReadRow, Reread, PublishAndReply, Crash, redis
    <3> QED
      BY <3>1, <3>2, <3>3, <3>4 DEF Acts, Step, QueryStep
  <2> QED
    BY <1>1, <1>3, <2>1, OthersFresh
<1>4. CASE u = v
  <2>1. CASE \/ RequestRole(r) \/ GrantRole(r) \/ SetStatus(r) \/ Decide(r) \/ EditProfile(r)
             \/ ActivateAccount(r)
    <3>1. Saved(r) /\ cache' = cache
      BY <1>1, <2>1, RequestRoleSaves, GrantRoleSaves, SetStatusSaves, DecideSaves,
         EditProfileSaves, ActivateAccountSaves
         DEF RequestRole, GrantRole, SetStatus, Decide, EditProfile, ActivateAccount, redis
    <3> QED
      BY <1>1, <1>2, <1>4, <3>1, CommitFresh DEF Saved
  <2>2. CASE InsertAccount(r)
    <3>1. cache' = cache /\ ~Registered(v)
      BY <1>1, <2>2, AccountInserted DEF InsertAccount, redis
    <3> QED
      BY <1>1, <1>4, <3>1 DEF Fresh, CacheHit
  <2>3. CASE Invalidate(r)
    <3>1. cache' = [cache EXCEPT ![v] = NoUser]
      BY <2>3 DEF Invalidate
    <3> QED
      BY <1>1, <1>2, <1>4, <3>1 DEF Fresh, CacheHit
  <2>4. CASE FillCache(r)
    <3>1. cache' = [cache EXCEPT ![v] = CacheEntry(req[r].mem)] /\ rows' = rows
      BY <2>4 DEF FillCache, db
    <3>2. req[r].mem = rows[v] /\ Registered(v)
      BY <1>1, <2>4 DEF FillCache, SerialInv, Current, HoldsRow
    <3> QED
      BY <1>1, <1>2, <1>4, <3>1, <3>2 DEF Fresh, Registered
  <2>5. CASE \/ LoadAccount(r) \/ LookUpPhone(r) \/ FindOtp(r) \/ CountWrongCode(r) \/ ConsumeOtp(r)
             \/ LoadVerifiedAccount(r) \/ LogIn(r) \/ FindToken(r) \/ CloseAllSessions(r)
             \/ CloseSession(r) \/ LoadSessionOwner(r) \/ RotateToken(r) \/ ReadCache(r)
             \/ ReadRow(r) \/ PublishAndReply(r)
    <3>1. cache' = cache
      BY <2>5 DEF LoadAccount, LookUpPhone, FindOtp, CountWrongCode, ConsumeOtp,
         LoadVerifiedAccount, LogIn, FindToken, CloseAllSessions, CloseSession,
         LoadSessionOwner, RotateToken, ReadCache, ReadRow, PublishAndReply, redis
    <3>2. rows' = rows
      BY <2>5, QuietRows DEF QueryStep
    <3>3. req[r].pc # "committed"
      BY <2>5 DEF LoadAccount, LookUpPhone, FindOtp, CountWrongCode, ConsumeOtp,
         LoadVerifiedAccount, LogIn, Verifying, FindToken, CloseAllSessions, CloseSession,
         LoadSessionOwner, RotateToken, ReadCache, ReadRow, PublishAndReply
    <3> QED
      BY <1>1, <3>1, <3>2, <3>3, QuietFresh
  <2> QED
    BY <1>1, <2>1, <2>2, <2>3, <2>4, <2>5, NoReread
       DEF Acts, Step, AccountStep, SessionStep, QueryStep, Crash
<1> QED
  BY <1>3, <1>4

LEMMA NextCache == CacheInv /\ [Next /\ OnePerAccount']_vars => CacheInv'
<1> SUFFICES ASSUME CacheInv, [Next /\ OnePerAccount']_vars, ~CrashesHappen, ~RedisFails,
                    NEW u \in Users
             PROVE  Fresh(u)'
  BY NextSerial DEF CacheInv
<1>1. /\ Fresh(u) /\ req \in [Requests -> RequestState] /\ cache \in [Users -> User]
      /\ SerialInv
  BY DEF CacheInv, SerialInv, SpentInv, TypeOK
<1>2. ASSUME NEW r \in Requests, NEW c \in Calls, Begin(r, c) PROVE Fresh(u)'
  <2>1. UNCHANGED <<rows, cache>> /\ req[r].pc = "idle"
    BY <1>2 DEF Begin, db, redis
  <2>2. \A q \in Requests : req[q].pc = "committed" => req'[q] = req[q]
    BY <1>1, <1>2, <2>1 DEF Begin
  <2> QED
    BY <1>1, <2>1, <2>2 DEF Fresh, CacheHit, Registered
<1>3. ASSUME NEW v \in Users, ExpireCacheEntry(v) PROVE Fresh(u)'
  <2>1. rows' = rows /\ req' = req /\ cache' = [cache EXCEPT ![v] = NoUser]
    BY <1>3 DEF ExpireCacheEntry, db
  <2> QED
    BY <1>1, <2>1 DEF Fresh, CacheHit, Registered
<1>4. CASE UNCHANGED vars
  <2>1. UNCHANGED <<rows, cache, req>>
    BY <1>4 DEF vars, db, redis
  <2> QED
    BY <1>1, <2>1 DEF Fresh, CacheHit, Registered
<1> QED
  BY <1>2, <1>3, <1>4, ActsFresh DEF Next, Acts

LEMMA InitCache == Init => CacheInv
<1> SUFFICES ASSUME Init PROVE CacheInv
  OBVIOUS
<1>1. \A u \in Users : ~CacheHit(u)
  BY DEF Init, CacheHit
<1> QED
  BY <1>1, InitSerial DEF CacheInv, Fresh

\* cache.py and the invalidations of the commands: with no request of the account
\* reading while another writes, a crash or a Redis failure aside, the cache never
\* outlives the row it was filled from.
THEOREM CacheStaysFresh == SerialSpec => []CacheIsFresh
<1>1. CacheInv => CacheIsFresh
  BY DEF CacheInv, CacheIsFresh, Fresh, Quiescent
<1> QED
  BY SerialBehaviour, <1>1, InitCache, NextCache, PTL
-----------------------------------------------------------------------------
(* Every command as if it ran in an instant: AccountLedger.                *)

\* The live codes and the live refresh tokens of each account.
LiveCodes == [u \in Users |-> LiveOtps(u)]
LiveSessions == [u \in Users |-> LiveTokens(u)]

LedgerStep == Ledger!LedgerNext \/ UNCHANGED <<rows, LiveCodes, LiveSessions>>

\* The vocabulary of the domain is the same in both.
LEMMA SameWords ==
  /\ Ledger!Unregistered = Unregistered
  /\ Ledger!NoRole = NoRole
  /\ Ledger!NoAccount = NoUser
  /\ Ledger!UserRole = UserRole
  /\ Ledger!SessionAllowedStatuses = SessionAllowedStatuses
  /\ Ledger!AdminSettableStatuses = AdminSettableStatuses
  /\ \A a, b : Ledger!CanTransition(a, b) <=> CanTransition(a, b)
  /\ \A user, role : Ledger!NeedsKycFor(user, role) <=> NeedsKycFor(user, role)
BY DEF Ledger!Unregistered, Unregistered, Ledger!NoRole, NoRole, Ledger!NoAccount, NoUser,
       Ledger!UserRole, UserRole, Ledger!SessionAllowedStatuses, SessionAllowedStatuses,
       Ledger!AdminSettableStatuses, AdminSettableStatuses, Ledger!CanTransition, CanTransition,
       Ledger!AllowedStatusTransitions, AllowedStatusTransitions,
       Ledger!NeedsKycFor, NeedsKycFor, Ledger!KycRequiredRoles, KycRequiredRoles

LEMMA RowBecomes ==
  ASSUME NEW u \in Users, rows \in [Users -> User], rows' \in [Users -> User],
         \A v \in Users \ {u} : rows'[v] = rows[v]
  PROVE  Ledger!Becomes(u, rows'[u])
BY DEF Ledger!Becomes

LEMMA TablesKept ==
  /\ otps' = otps => LiveCodes' = LiveCodes
  /\ tokens' = tokens => LiveSessions' = LiveSessions
BY DEF LiveCodes, LiveSessions, LiveOtps, LiveTokens

\* A code used up is gone from its account, and from no other.
LEMMA CodeGone ==
  ASSUME NEW u \in Users, NEW o \in LiveOtps(u), DOMAIN otps' = DOMAIN otps,
         \A p \in DOMAIN otps \ {o} : otps'[p] = otps[p], otps'[o].consumed
  PROVE  LiveCodes' = [LiveCodes EXCEPT ![u] = @ \ {o}]
<1>1. ASSUME NEW v \in Users
      PROVE  LiveOtps(v)' = IF v = u THEN LiveOtps(u) \ {o} ELSE LiveOtps(v)
  BY DEF LiveOtps
<1> QED
  BY <1>1 DEF LiveCodes

\* The tokens of one account change.
LEMMA SessionsBecome ==
  ASSUME NEW u \in Users, OwnTokens(u), NEW live, LiveTokens(u)' = live,
         \A t \in DOMAIN tokens' \ DOMAIN tokens : tokens'[t].user = u
  PROVE  LiveSessions' = [LiveSessions EXCEPT ![u] = live]
<1>1. ASSUME NEW v \in Users \ {u} PROVE LiveTokens(v)' = LiveTokens(v)
  BY DEF LiveTokens, OwnTokens
<1> QED
  BY <1>1 DEF LiveSessions
\* revoke_all_for_user leaves the account no session.
LEMMA NoSessionLeft ==
  ASSUME SerialInv, NEW u \in Users, tokens' = AllRevoked(tokens, u)
  PROVE  LiveSessions' = [LiveSessions EXCEPT ![u] = {}]
<1>1. /\ Revoking /\ OwnTokens(u)
      /\ \A t \in DOMAIN tokens : tokens[t].user = u => tokens'[t].revoked
  BY AllSessionsClosed
<1>2. LiveTokens(u)' = {}
  BY <1>1 DEF LiveTokens, Revoking
<1> QED
  BY <1>1, <1>2, SessionsBecome DEF Revoking

LEMMA NewSession ==
  ASSUME NEW u \in Users, NEW ended, NEW t, t \notin DOMAIN tokens,
         LiveSessions' = [LiveSessions EXCEPT ![u] = (LiveTokens(u) \ ended) \cup {t}]
  PROVE  Ledger!Opens(u, ended)
<1>1. t \in LiveSessions'[u]
  BY DEF LiveSessions
<1>2. \A v \in Users : t \notin LiveTokens(v)
  BY DEF LiveTokens
<1>3. LiveSessions' = [LiveSessions EXCEPT ![u] = (@ \ ended) \cup {t}]
  BY DEF LiveSessions
<1> QED
  BY <1>1, <1>2, <1>3 DEF Ledger!Opens, LiveSessions

\* RegisterUser: the number had no account, and the INSERT gives it one.
LEMMA RegisterInLedger ==
  ASSUME SerialInv, SerialInv', AbsentIsBlank, NEW r \in Requests, InsertAccount(r)
  PROVE  LedgerStep
<1> DEFINE u == req[r].call.user
           new == [NoUser EXCEPT !.status = "pending_verification", !.name = req[r].call.arg]
<1>1. /\ rows \in [Users -> User] /\ rows' \in [Users -> User]
      /\ req[r].call.op = "Register" /\ req[r].call \in Calls
  BY CallType DEF SerialInv, SpentInv, TypeOK, InsertAccount, Writing
<1>2. u \in Users /\ ~Registered(u) /\ rows[u] = NoUser /\ req[r].call.arg \in Names
  BY <1>1, AccountInserted, CallsAssumption DEF AbsentIsBlank
<1>3. rows' = [rows EXCEPT ![u] = new] /\ otps' = otps /\ tokens' = tokens
  BY <1>2 DEF InsertAccount
<1>4. Ledger!Becomes(u, new)
  BY <1>3 DEF Ledger!Becomes
<1>5. new = [Ledger!NoAccount EXCEPT !.status = "pending_verification", !.name = req[r].call.arg]
  BY SameWords
<1>6. Ledger!Register(u)
  BY <1>2, <1>3, <1>4, <1>5, SameWords, TablesKept DEF Ledger!Register, LiveCodes, LiveSessions
<1> QED
  BY <1>2, <1>6 DEF LedgerStep, Ledger!LedgerNext

\* The other commands on an account save it as they decided on it, which is as it is.
LEMMA CommandInLedger ==
  ASSUME SerialInv, SerialInv', NEW r \in Requests,
         RequestRole(r) \/ GrantRole(r) \/ Decide(r) \/ EditProfile(r)
  PROVE  LedgerStep
<1> DEFINE c == req[r].call
           u == req[r].call.user
<1>1. rows \in [Users -> User] /\ rows' \in [Users -> User] /\ Current(req[r])
  BY DEF SerialInv, SpentInv, TypeOK
<1>2. Saved(r)
  BY RequestRoleSaves, GrantRoleSaves, DecideSaves, EditProfileSaves
<1>3. /\ u \in Users /\ Ledger!HasAccount(u) /\ Ledger!Becomes(u, rows'[u])
      /\ rows[u] \in User /\ req[r].pc = "loaded"
  BY <1>1, <1>2, RowBecomes, SameWords DEF Saved, Ledger!HasAccount, Registered
<1>4. LiveCodes' = LiveCodes /\ LiveSessions' = LiveSessions
  BY TablesKept DEF RequestRole, GrantRole, Decide, EditProfile
<1>5. CASE RequestRole(r) \/ GrantRole(r)
  <2>1. c.op = "ChangeRole" /\ c \in Calls /\ c.arg \in UserRole
    BY <1>3, <1>5, CallType, CallsAssumption
       DEF RequestRole, GrantRole, Writing, SerialInv, SpentInv
  <2>2. req[r].mem = rows[u]
    BY <1>1, <1>3, <2>1 DEF Current, HoldsRow
  <2>3. rows'[u] = IF NeedsKycFor(rows[u], c.arg)
                   THEN [rows[u] EXCEPT !.requested = c.arg]
                   ELSE [rows[u] EXCEPT !.role = c.arg, !.requested = NoRole]
    BY <1>5, <2>2, RequestRoleSaves, GrantRoleSaves DEF RequestRole, GrantRole
  <2>4. Ledger!ChangeRole(u)
    BY <1>3, <1>4, <2>1, <2>3, SameWords DEF Ledger!ChangeRole, LiveCodes, LiveSessions
  <2> QED
    BY <1>3, <2>4 DEF LedgerStep, Ledger!LedgerNext
<1>6. CASE Decide(r)
  <2> DEFINE role == IF c.arg = "approve" THEN rows[u].requested ELSE rows[u].role
  <2>1. /\ rows[u].requested # NoRole
        /\ rows'[u] = [rows[u] EXCEPT !.requested = NoRole, !.role = role,
                                      !.status = IF @ = "pending_kyc" THEN "active" ELSE @]
    BY <1>3, <1>6, DecideSaves DEF User
  <2>2. role \in {rows[u].role, rows[u].requested}
    OBVIOUS
  <2> HIDE DEF role
  <2>3. Ledger!DecideKyc(u)
    BY <1>3, <1>4, <2>1, <2>2, SameWords DEF Ledger!DecideKyc, LiveCodes, LiveSessions
  <2> QED
    BY <1>3, <2>3 DEF LedgerStep, Ledger!LedgerNext
<1>7. CASE EditProfile(r)
  <2>1. c.arg \in Names /\ rows'[u] = [rows[u] EXCEPT !.name = c.arg]
    BY <1>7, EditProfileSaves
  <2>2. Ledger!UpdateProfile(u)
    BY <1>3, <1>4, <2>1 DEF Ledger!UpdateProfile, LiveCodes, LiveSessions
  <2> QED
    BY <1>3, <2>2 DEF LedgerStep, Ledger!LedgerNext
<1> QED
  BY <1>5, <1>6, <1>7

\* A suspension takes every session with it, in the same commit.
LEMMA SetStatusInLedger ==
  ASSUME SerialInv, SerialInv', NEW r \in Requests, SetStatus(r)
  PROVE  LedgerStep
<1> DEFINE c == req[r].call
           u == req[r].call.user
<1>1. rows \in [Users -> User] /\ rows' \in [Users -> User]
  BY DEF SerialInv, SpentInv, TypeOK
<1>2. /\ Saved(r) /\ rows'[u] = [rows[u] EXCEPT !.status = c.arg]
      /\ c.arg \in AdminSettableStatuses /\ CanTransition(rows[u].status, c.arg)
  BY SetStatusSaves DEF ChangesStatus
<1>3. u \in Users /\ Ledger!Becomes(u, rows'[u])
  BY <1>1, <1>2, RowBecomes DEF Saved
<1>4. LiveCodes' = LiveCodes
  BY TablesKept DEF SetStatus
<1>5. LiveSessions' = IF c.arg = "suspended" THEN [LiveSessions EXCEPT ![u] = {}]
                                             ELSE LiveSessions
  <2>1. CASE c.arg = "suspended"
    BY <1>3, <2>1, NoSessionLeft DEF SetStatus
  <2>2. CASE c.arg # "suspended"
    BY <2>2, TablesKept DEF SetStatus
  <2> QED
    BY <2>1, <2>2
<1>6. Ledger!ChangeStatus(u)
  BY <1>2, <1>3, <1>4, <1>5, SameWords DEF Ledger!ChangeStatus, LiveCodes, LiveSessions
<1> QED
  BY <1>3, <1>6 DEF LedgerStep, Ledger!LedgerNext

\* VerifyOtp: the code found is still live, and pays for one session.
LEMMA VerifyOtpInLedger ==
  ASSUME SerialInv, SerialInv', NEW r \in Requests, ActivateAccount(r) \/ LogIn(r)
  PROVE  LedgerStep
<1>0. PICK u \in Users : u = req[r].call.user
  BY CallType DEF SerialInv, SpentInv, ActivateAccount, LogIn, Verifying
<1> USE <1>0
<1> DEFINE o == req[r].item
           token == [user |-> u, revoked |-> FALSE, parent |-> 0, otp |-> o]
           t == Len(tokens) + 1
<1>1. /\ rows \in [Users -> User] /\ rows' \in [Users -> User]
      /\ otps \in Seq(Otp) /\ tokens \in Seq(Token)
      /\ Opening(r) /\ OwnTokens(u) /\ Verifying(r) /\ Current(req[r])
  BY SessionOpened DEF SerialInv, SpentInv, TypeOK, ActivateAccount, LogIn
<1>2. /\ u \in Users /\ o \in LiveOtps(u)
      /\ rows[u] = req[r].mem /\ rows[u].status \notin {Unregistered, "suspended"}
  BY <1>1 DEF Opening, LiveOtps, Current, HoldsRow, Registered, Verifying
<1>3. LiveCodes' = [LiveCodes EXCEPT ![u] = @ \ {o}]
  <2>1. otps' = [otps EXCEPT ![o] = [otps[o] EXCEPT !.consumed = TRUE]] /\ o \in DOMAIN otps
    BY <1>1 DEF ActivateAccount, LogIn, OpenSession, Opening
  <2>2. otps'[o].consumed
    <3>1. otps[o] \in Otp
      BY <1>1, <2>1
    <3> QED
      BY <2>1, <3>1 DEF Otp
  <2> QED
    BY <1>2, <2>1, <2>2, CodeGone
<1>4. /\ DOMAIN tokens' = DOMAIN tokens \cup {t} /\ t \notin DOMAIN tokens
      /\ \A s \in DOMAIN tokens : tokens'[s] = tokens[s]
      /\ tokens'[t] = token
  <2>1. tokens' = Append(tokens, token)
    BY <1>1 DEF Opening
  <2> HIDE DEF token
  <2> QED
    BY <1>1, <2>1, Appended
<1>5. token.user = u /\ ~token.revoked
  OBVIOUS
<1> HIDE DEF token, t
<1>6. LiveTokens(u)' = LiveTokens(u) \cup {t}
  BY <1>4, <1>5 DEF LiveTokens
<1>7. LiveSessions' = [LiveSessions EXCEPT ![u] = LiveTokens(u) \cup {t}]
  BY <1>1, <1>2, <1>4, <1>5, <1>6, SessionsBecome
<1>8. Ledger!Opens(u, {})
  <2>1. LiveTokens(u) \cup {t} = (LiveTokens(u) \ {}) \cup {t}
    OBVIOUS
  <2> QED
    BY <1>4, <1>7, <2>1, NewSession
<1>9. IF rows[u].status = "pending_verification"
      THEN Ledger!Becomes(u, [rows[u] EXCEPT !.status = IF rows[u].requested # NoRole
                                                        THEN "pending_kyc" ELSE "active"])
      ELSE rows' = rows
  <2>1. CASE ActivateAccount(r)
    <3>1. /\ Saved(r) /\ rows[u].status = "pending_verification"
          /\ rows'[u] = [rows[u] EXCEPT !.status = IF rows[u].requested # NoRole
                                                   THEN "pending_kyc" ELSE "active"]
      BY <2>1, ActivateAccountSaves
    <3>2. Ledger!Becomes(u, rows'[u])
      BY <1>1, <3>1, RowBecomes DEF Saved
    <3> QED
      BY <3>1, <3>2
  <2>2. CASE LogIn(r)
    BY <1>2, <2>2 DEF LogIn, FirstVerification
  <2> QED
    BY <2>1, <2>2
<1>10. Ledger!VerifyOtp(u)
  BY <1>2, <1>3, <1>8, <1>9, SameWords DEF Ledger!VerifyOtp, LiveCodes
<1> QED
  BY <1>2, <1>10 DEF LedgerStep, Ledger!LedgerNext

\* A wrong guess shows only when it burns the code.
LEMMA WrongCodeInLedger ==
  ASSUME SerialInv, NEW r \in Requests, CountWrongCode(r)
  PROVE  LedgerStep
<1>0. PICK u \in Users : u = req[r].call.user
  BY CallType DEF SerialInv, SpentInv, CountWrongCode
<1> USE <1>0
<1> DEFINE o == req[r].item
<1>1. /\ otps \in Seq(Otp) /\ o \in DOMAIN otps /\ otps[o] \in Otp
      /\ u \in Users /\ o \in LiveOtps(u)
      /\ rows' = rows /\ LiveSessions' = LiveSessions
  BY CallType, TablesKept DEF SerialInv, SpentInv, TypeOK, RequestOK, Current, VerifiesOtp,
     CountWrongCode, LiveOtps
<1>2. PICK a, b : otps' = [otps EXCEPT ![o] = [otps[o] EXCEPT !.attempts = a, !.consumed = b]]
                  /\ b \in BOOLEAN
  BY <1>1 DEF CountWrongCode, Otp
<1>3. CASE b
  <2>1. LiveCodes' = [LiveCodes EXCEPT ![u] = @ \ {o}]
    BY <1>1, <1>2, <1>3, CodeGone DEF Otp
  <2>2. Ledger!BurnCode(u)
    BY <1>1, <2>1 DEF Ledger!BurnCode, LiveCodes, LiveSessions
  <2> QED
    BY <1>1, <2>2 DEF LedgerStep, Ledger!LedgerNext
<1>4. CASE ~b
  <2>1. ~otps[o].consumed
    BY <1>1 DEF LiveOtps
  <2>2. /\ DOMAIN otps' = DOMAIN otps
        /\ \A p \in DOMAIN otps : /\ otps'[p].user = otps[p].user
                                  /\ otps'[p].consumed <=> otps[p].consumed
    BY <1>1, <1>2, <1>4, <2>1 DEF Otp
  <2>3. \A v \in Users : LiveOtps(v)' = LiveOtps(v)
    BY <2>2 DEF LiveOtps
  <2> QED
    BY <1>1, <2>3 DEF LedgerStep, LiveCodes
<1> QED
  BY <1>2, <1>3, <1>4

\* Refresh: the token presented ends, its successor begins.
LEMMA RefreshInLedger ==
  ASSUME SerialInv, NEW r \in Requests, RotateToken(r)
  PROVE  LedgerStep
<1>0. PICK u \in Users : u = req[r].call.user
  BY CallType DEF SerialInv, SpentInv, RotateToken
<1> USE <1>0
<1> DEFINE i == req[r].item
           t == Len(tokens) + 1
<1>1. /\ i \in DOMAIN tokens /\ tokens[i].user = u /\ ~tokens[i].revoked
      /\ rows[u].status \in SessionAllowedStatuses
      /\ t \notin DOMAIN tokens /\ DOMAIN tokens' = DOMAIN tokens \cup {t}
      /\ tokens'[t].user = u /\ ~tokens'[t].revoked
      /\ OwnTokens(u)
  <2>1. Rotating(r) /\ OwnTokens(u)
    BY TokenRotated
  <2> QED
    BY <2>1 DEF Rotating
<1>2. \A s \in DOMAIN tokens : /\ tokens'[s].user = tokens[s].user
                               /\ tokens'[s].revoked <=> tokens[s].revoked \/ s = i
  BY TokenRotated DEF Rotating
<1>3. rows' = rows /\ LiveCodes' = LiveCodes
  BY TablesKept DEF RotateToken
<1> HIDE DEF t
<1>4. LiveTokens(u)' = (LiveTokens(u) \ {i}) \cup {t}
  BY <1>1, <1>2 DEF LiveTokens
<1>5. LiveSessions' = [LiveSessions EXCEPT ![u] = (LiveTokens(u) \ {i}) \cup {t}]
  BY <1>1, <1>4, SessionsBecome
<1>6. Ledger!Opens(u, {i})
  BY <1>1, <1>5, NewSession
<1>7. i \in LiveTokens(u)
  BY <1>1 DEF LiveTokens
<1>8. Ledger!Refresh(u)
  BY <1>1, <1>3, <1>6, <1>7, SameWords DEF Ledger!Refresh, LiveCodes
<1> QED
  BY <1>1, <1>8 DEF LedgerStep, Ledger!LedgerNext

\* Logout of one session, or of all of them; a second logout finds nothing live.
LEMMA LogoutInLedger ==
  ASSUME SerialInv, NEW r \in Requests, CloseSession(r) \/ CloseAllSessions(r)
  PROVE  LedgerStep
<1>0. PICK u \in Users : u = req[r].call.user
  BY CallType DEF SerialInv, SpentInv, CloseSession, CloseAllSessions
<1> USE <1>0
<1> DEFINE i == req[r].item
<1>1. u \in Users /\ tokens \in Seq(Token) /\ rows' = rows /\ LiveCodes' = LiveCodes
  BY CallType, TablesKept
     DEF SerialInv, SpentInv, TypeOK, CloseSession, CloseAllSessions
<1>2. CASE CloseAllSessions(r)
  <2>1. LiveSessions' = [LiveSessions EXCEPT ![u] = {}]
    BY <1>1, <1>2, NoSessionLeft DEF CloseAllSessions
  <2>2. Ledger!LogoutAll(u)
    BY <1>1, <2>1 DEF Ledger!LogoutAll, LiveCodes, LiveSessions
  <2> QED
    BY <1>1, <2>2 DEF LedgerStep, Ledger!LedgerNext
<1>3. CASE CloseSession(r)
  <2>1. Revoking /\ OwnTokens(u) /\ i \in DOMAIN tokens /\ tokens[i].user = u
    BY <1>3, SessionClosed DEF SerialInv, SpentInv, TypeOK, RequestOK, Current, CloseSession
  <2>2. \A t \in DOMAIN tokens : tokens'[t].revoked <=> tokens[t].revoked \/ t = i
    <3>1. \A t \in DOMAIN tokens : tokens[t] \in Token
      BY <1>1
    <3> QED
      BY <1>3, <2>1, <3>1 DEF CloseSession, Revoked, Token
  <2>3. LiveTokens(u)' = LiveTokens(u) \ {i}
    BY <2>1, <2>2 DEF LiveTokens, Revoking
  <2>4. LiveSessions' = [LiveSessions EXCEPT ![u] = LiveTokens(u) \ {i}]
    BY <1>1, <2>1, <2>3, SessionsBecome DEF Revoking
  <2>5. CASE i \in LiveTokens(u)
    <3>1. Ledger!Logout(u)
      BY <1>1, <2>4, <2>5 DEF Ledger!Logout, LiveCodes, LiveSessions
    <3> QED
      BY <1>1, <3>1 DEF LedgerStep, Ledger!LedgerNext
  <2>6. CASE i \notin LiveTokens(u)
    <3>1. LiveTokens(u) \ {i} = LiveTokens(u)
      BY <2>6
    <3>2. LiveSessions' = LiveSessions
      BY <2>4, <3>1 DEF LiveSessions
    <3> QED
      BY <1>1, <3>2 DEF LedgerStep
  <2> QED
    BY <2>5, <2>6
<1> QED
  BY <1>2, <1>3

\* Every other step is of no account to the ledger.
LEMMA ActsInLedger ==
  ASSUME SerialInv, SerialInv', AbsentIsBlank, NEW r \in Requests, Acts(r)
  PROVE  LedgerStep
<1>1. CASE \/ LoadAccount(r) \/ LookUpPhone(r) \/ FindOtp(r) \/ ConsumeOtp(r)
           \/ LoadVerifiedAccount(r) \/ FindToken(r) \/ LoadSessionOwner(r) \/ QueryStep(r)
           \/ Reread(r) \/ Invalidate(r) \/ PublishAndReply(r) \/ Crash(r)
  <2>1. UNCHANGED db
    BY <1>1 DEF LoadAccount, LookUpPhone, FindOtp, ConsumeOtp, LoadVerifiedAccount, FindToken,
         LoadSessionOwner, QueryStep, ReadCache, ReadRow, FillCache, Reread, Invalidate,
         PublishAndReply, Crash
  <2> QED
    BY <2>1, TablesKept DEF LedgerStep, db
<1> QED
  BY <1>1, RegisterInLedger, CommandInLedger, SetStatusInLedger, VerifyOtpInLedger,
     WrongCodeInLedger, RefreshInLedger, LogoutInLedger
     DEF Acts, Step, AccountStep, SessionStep

\* Each command of the service, with its reads, its COMMIT and what it does after, has
\* the effect on an account of one step of AccountLedger taken at the COMMIT, whatever
\* the requests on other accounts do meanwhile.
THEOREM CommandsAtomic == SerialSpec => CommandsAreAtomic
<1>1. Init => Ledger!LedgerInit
  <2> SUFFICES ASSUME Init PROVE Ledger!LedgerInit
    OBVIOUS
  <2>1. \A u \in Users : rows[u].status = Unregistered => rows[u] = Ledger!NoAccount
    BY ConstantsAssumption, SameWords DEF Init
  <2>2. \A u \in Users : LiveTokens(u) # {} => rows[u].status \in SessionAllowedStatuses
    <3> SUFFICES ASSUME NEW u \in Users, NEW t \in LiveTokens(u)
                 PROVE  rows[u].status \in SessionAllowedStatuses
      OBVIOUS
    <3>1. t \in DOMAIN InitTokens /\ InitTokens[t] = u
      BY DEF LiveTokens, Init
    <3> QED
      BY <3>1, ConstantsAssumption DEF Init
  <2> QED
    BY <2>1, <2>2, SameWords DEF Ledger!LedgerInit
<1>2. SerialInv /\ SerialInv' /\ AbsentIsBlank /\ [Next /\ OnePerAccount']_vars => LedgerStep
  BY ActsInLedger, OutsideSteps, TablesKept DEF LedgerStep, db
<1>3. LedgerStep => [Ledger!LedgerNext]_(Ledger!ledger)
  BY DEF LedgerStep, Ledger!ledger, LiveCodes, LiveSessions
<1> QED
  BY SerialBehaviour, <1>1, <1>2, <1>3, InitBlank, NextBlank,
     PTL DEF CommandsAreAtomic, Ledger!LedgerSpec
=============================================================================
