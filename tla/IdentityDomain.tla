---------------------------- MODULE IdentityDomain ----------------------------
(***************************************************************************)
(* The vocabulary of the identity domain (domain/entities.py): roles,      *)
(* statuses, the table of allowed status transitions and the KYC rule.     *)
(* Constant-level only, so every other module can EXTEND it.               *)
(***************************************************************************)

UserRole == {"user", "driver", "merchant", "admin"}

\* Roles that are handed out by a KYC decision only.
KycRequiredRoles == {"driver", "merchant"}

UserStatus == {"pending_verification", "pending_kyc", "active", "suspended"}

\* requested_role IS NULL, and to_role / requested_role NULL in the role history.
NoRole == "none"

\* The status of a phone number that has no row in identity.users yet.
Unregistered == "unregistered"

AllowedStatusTransitions ==
  {<<"pending_verification", "active">>,
   <<"pending_verification", "pending_kyc">>,
   <<"pending_verification", "suspended">>,
   <<"pending_kyc", "active">>,
   <<"pending_kyc", "suspended">>,
   <<"active", "suspended">>,
   <<"suspended", "active">>}

CanTransition(current, target) == <<current, target>> \in AllowedStatusTransitions

\* Statuses in which a person may hold a session on the identity service.
SessionAllowedStatuses == {"active", "pending_kyc"}

\* Statuses PATCH /admin/users/{id}/status accepts.
AdminSettableStatuses == {"active", "suspended"}

\* Mutant: once someone holds a KYC role, the other one is free.
NeedsKycForPlainUser(user, target) == target \in KycRequiredRoles /\ user.role = "user"

NeedsKycFor(user, target) == target \in KycRequiredRoles /\ user.role # target

-----------------------------------------------------------------------------
\* What is published under the names of user_events.py.
EventName == {"user.registered", "user.updated", "user.role_changed", "user.suspended"}

\* Mutants: the name is never adjusted, or adjusted to one no subscriber knows.
AlwaysSuspended(newStatus) == "user.suspended"
InventedName(newStatus) ==
  IF newStatus = "suspended" THEN "user.suspended" ELSE "user.reactivated"

\* UserStatusChanged.__post_init__: only a suspension goes out as user.suspended.
StatusEventName(newStatus) ==
  IF newStatus = "suspended" THEN "user.suspended" ELSE "user.updated"
=============================================================================
