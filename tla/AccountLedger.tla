---------------------------- MODULE AccountLedger ----------------------------
(***************************************************************************)
(* What the commands promise about one account, each as if it ran in an    *)
(* instant: the account as it is now decides what may become of it, of its *)
(* live codes and of its sessions.  There are no requests here, no         *)
(* histories, no cache and no events.                                      *)
(***************************************************************************)
EXTENDS IdentityDomain

CONSTANTS Users, Names, NoName

VARIABLES
  account,          \* the account of each phone number
  codes,            \* the live codes of each account
  sessions          \* the live refresh tokens of each account

ledger == <<account, codes, sessions>>

NoAccount == [role |-> "user", status |-> Unregistered, requested |-> NoRole, name |-> NoName]

HasAccount(u) == account[u].status # Unregistered

Becomes(u, new) == account' = [account EXCEPT ![u] = new]

Register(u) ==
  /\ account[u] = NoAccount
  /\ \E name \in Names :
       Becomes(u, [NoAccount EXCEPT !.status = "pending_verification", !.name = name])
  /\ UNCHANGED <<codes, sessions>>

\* A role under KYC is asked for; any other is given at once, and settles the request.
ChangeRole(u) ==
  /\ HasAccount(u)
  /\ \E role \in UserRole :
       Becomes(u, IF NeedsKycFor(account[u], role)
                  THEN [account[u] EXCEPT !.requested = role]
                  ELSE [account[u] EXCEPT !.role = role, !.requested = NoRole])
  /\ UNCHANGED <<codes, sessions>>

ChangeStatus(u) ==
  \E status \in AdminSettableStatuses :
    /\ CanTransition(account[u].status, status)
    /\ Becomes(u, [account[u] EXCEPT !.status = status])
    /\ sessions' = IF status = "suspended" THEN [sessions EXCEPT ![u] = {}] ELSE sessions
    /\ UNCHANGED codes

DecideKyc(u) ==
  /\ HasAccount(u)
  /\ account[u].requested # NoRole
  /\ \E role \in {account[u].role, account[u].requested} :
       Becomes(u, [account[u] EXCEPT !.requested = NoRole, !.role = role,
                                     !.status = IF @ = "pending_kyc" THEN "active" ELSE @])
  /\ UNCHANGED <<codes, sessions>>

UpdateProfile(u) ==
  /\ HasAccount(u)
  /\ \E name \in Names : Becomes(u, [account[u] EXCEPT !.name = name])
  /\ UNCHANGED <<codes, sessions>>

-----------------------------------------------------------------------------
\* u gets a new session for the ones that end.
Opens(u, ended) ==
  \E t \in sessions'[u] : /\ \A v \in Users : t \notin sessions[v]
                          /\ sessions' = [sessions EXCEPT ![u] = (@ \ ended) \cup {t}]

\* A code opens one session, and is gone; the first one verifies the account.
VerifyOtp(u) ==
  /\ account[u].status \notin {Unregistered, "suspended"}
  /\ \E o \in codes[u] : codes' = [codes EXCEPT ![u] = @ \ {o}]
  /\ Opens(u, {})
  /\ IF account[u].status = "pending_verification"
     THEN Becomes(u, [account[u] EXCEPT !.status = IF account[u].requested # NoRole
                                                   THEN "pending_kyc" ELSE "active"])
     ELSE UNCHANGED account

\* Wrong guesses have used the code up.
BurnCode(u) ==
  /\ \E o \in codes[u] : codes' = [codes EXCEPT ![u] = @ \ {o}]
  /\ UNCHANGED <<account, sessions>>

\* A session is exchanged for another, while its owner is allowed one.
Refresh(u) ==
  /\ account[u].status \in SessionAllowedStatuses
  /\ \E t \in sessions[u] : Opens(u, {t})
  /\ UNCHANGED <<account, codes>>

Logout(u) ==
  /\ \E t \in sessions[u] : sessions' = [sessions EXCEPT ![u] = @ \ {t}]
  /\ UNCHANGED <<account, codes>>

\* On demand, or because a token that was exchanged came back.
LogoutAll(u) ==
  /\ sessions' = [sessions EXCEPT ![u] = {}]
  /\ UNCHANGED <<account, codes>>

-----------------------------------------------------------------------------
LedgerInit ==
  /\ \A u \in Users : account[u].status = Unregistered => account[u] = NoAccount
  /\ \A u \in Users : sessions[u] # {} => account[u].status \in SessionAllowedStatuses

LedgerNext ==
  \E u \in Users :
    \/ Register(u) \/ ChangeRole(u) \/ ChangeStatus(u) \/ DecideKyc(u) \/ UpdateProfile(u)
    \/ VerifyOtp(u) \/ BurnCode(u) \/ Refresh(u) \/ Logout(u) \/ LogoutAll(u)

LedgerSpec == LedgerInit /\ [][LedgerNext]_ledger
=============================================================================
