------------------------------ MODULE MCIdentity ------------------------------
(***************************************************************************)
(* Instances of Identity for TLC: alice is the account acted upon, root an *)
(* admin from the start, eve a second person.  A run picks one set of      *)
(* calls, one starting database and the bounds.                            *)
(***************************************************************************)
EXTENDS Identity, TLC

CONSTANTS alice, root, eve, nobody

Account(role, status, requested) ==
  [role |-> role, status |-> status, requested |-> requested, name |-> "-"]

MCNames == {"-", "Alice"}

Plain(op, u) == [op |-> op, user |-> u, by |-> nobody, item |-> 0, arg |-> "-"]
WithArg(op, u, by, arg) == [op |-> op, user |-> u, by |-> by, item |-> 0, arg |-> arg]
WithItem(op, u, item) == [op |-> op, user |-> u, by |-> nobody, item |-> item, arg |-> "-"]

-----------------------------------------------------------------------------
(* Databases.                                                              *)

Root == Account("admin", "active", NoRole)

\* alice has registered and not yet verified her number; eve's is not registered.
FreshAccount ==
  (alice :> Account("user", "pending_verification", NoRole)) @@ (root :> Root)
  @@ (eve :> NoUser)

\* alice has an account in use.
UserAndAdmin ==
  (alice :> Account("user", "active", NoRole)) @@ (root :> Root) @@ (eve :> NoUser)

TwoPeople ==
  (alice :> Account("user", "active", NoRole)) @@ (root :> Root)
  @@ (eve :> Account("user", "active", NoRole))

\* alice has asked to drive before her first verification.
ApplicantAccount ==
  (alice :> Account("user", "pending_verification", "driver")) @@ (root :> Root)
  @@ (eve :> NoUser)

OneOtp == <<alice>>
TwoOtps == <<alice, alice>>
OneToken == <<alice>>
None == << >>

-----------------------------------------------------------------------------
(* Calls.                                                                  *)

StatusCalls == {WithArg("ChangeStatus", alice, root, s) : s \in {"suspended", "active"}}
KycCalls == {WithArg("DecideKyc", alice, root, d) : d \in {"approve", "refuse"}}
VerifyCalls == {WithItem("VerifyOtp", alice, o) : o \in 0..2}

\* What opens, renews and closes sessions.
SessionCalls ==
  StatusCalls \cup VerifyCalls
  \cup {WithItem(op, alice, t) : op \in {"Refresh", "Logout", "LogoutAll"}, t \in 1..2}

\* Everything that can happen to alice, and eve registering.
AllCalls ==
  SessionCalls \cup KycCalls
  \cup {WithArg("ChangeStatus", alice, root, "pending_kyc"),
        WithArg("ChangeRole", alice, nobody, "driver"),
        WithArg("ChangeRole", alice, root, "admin"),
        WithArg("UpdateProfile", alice, nobody, "Alice"),
        WithArg("UpdateProfile", alice, nobody, "-"),
        WithArg("Register", eve, nobody, "-"),
        Plain("GetUser", alice), Plain("GetUser", eve)}

\* Two admins, one of whom the other makes, and a service.
GovernanceCalls ==
  KycCalls
  \cup {WithArg("ChangeRole", eve, root, "admin"), WithArg("ChangeRole", eve, nobody, "user"),
        WithArg("ChangeRole", alice, nobody, "driver"), WithArg("ChangeRole", alice, nobody, "merchant"),
        WithArg("DecideKyc", alice, eve, "approve"), WithArg("ChangeStatus", alice, eve, "suspended"),
        WithArg("UpdateProfile", alice, nobody, "Alice"), Plain("GetUser", alice)}

OnboardingCalls ==
  VerifyCalls \cup {WithArg("ChangeRole", alice, nobody, "driver"),
                    WithArg("ChangeRole", alice, root, "admin")}
=============================================================================
