------------------------------- MODULE OtpIssue -------------------------------
(***************************************************************************)
(* RequestOtp: a code for a phone number, behind the two limits that       *)
(* RedisOtpRateLimiter keeps in Redis.  Every Redis call and every SQL     *)
(* statement is an await, so every step below is a step of its own; a      *)
(* request may be lost between two of them and Redis may fail in each.     *)
(***************************************************************************)
EXTENDS Integers, Sequences, FiniteSets

CONSTANTS
  Phones,           \* phone numbers
  Known,            \* those that have an account
  Ips,              \* client addresses
  NoIp,             \* the address of a client that could not be told
  Requests,         \* how many requests the server handles at once
  IpAllowance,      \* IP_REQUESTS_PER_WINDOW
  MaxCalls,         \* bound: how many requests are made in all
  CrashesHappen,    \* may a request be cut short?
  RedisFails        \* may a Redis call fail?

ASSUME IssueAssumption ==
  /\ Known \subseteq Phones
  /\ NoIp \notin Ips
  /\ IpAllowance \in Nat \ {0}
  /\ MaxCalls \in Nat
  /\ IsFiniteSet(Requests)
  /\ Requests # {}
  /\ CrashesHappen \in BOOLEAN
  /\ RedisFails \in BOOLEAN

VARIABLES
  cooldown,         \* identity:otp:cooldown:<phone> exists
  window,           \* identity:otp:ip:<ip>: its value, and whether it has a TTL
  codes,            \* the OTP rows committed: the phone of each
  sent,             \* the codes handed to the SMS sender
  req, started,
  passed,           \* history: requests the counter let through in this window
  extra             \* history: codes committed for a phone while it was cooling

vars == <<cooldown, window, codes, sent, req, started, passed, extra>>

\* failedOpen: Redis did not answer for the cooldown, and the request went on.
\* code: the row this request committed, 0 if none.
Idle == [pc |-> "idle", phone |-> "-", ip |-> NoIp, failedOpen |-> FALSE, code |-> 0]

ProgramPoint == {"idle", "received", "firstHit", "counted", "allowed", "found",
                 "committed", "sent"}

RequestState == [pc: ProgramPoint, phone: Phones \cup {"-"}, ip: Ips \cup {NoIp},
                 failedOpen: BOOLEAN, code: Nat]

NoWindow == [count |-> 0, expires |-> FALSE]

Init ==
  /\ cooldown = [p \in Phones |-> FALSE]
  /\ window = [i \in Ips |-> NoWindow]
  /\ codes = << >>
  /\ sent = {}
  /\ req = [r \in Requests |-> Idle]
  /\ started = 0
  /\ passed = [i \in Ips |-> 0]
  /\ extra = [p \in Phones |-> 0]

-----------------------------------------------------------------------------
Goto(r, pc) == req' = [req EXCEPT ![r].pc = pc]
Finish(r) == req' = [req EXCEPT ![r] = Idle]

\* The request arrives.  A client whose address is unknown is not counted.
Receive(r, p, ip) ==
  /\ req[r].pc = "idle"
  /\ started < MaxCalls
  /\ req' = [req EXCEPT ![r] = [Idle EXCEPT !.pc = IF ip = NoIp THEN "counted" ELSE "received",
                                            !.phone = p, !.ip = ip]]
  /\ started' = started + 1
  /\ UNCHANGED <<cooldown, window, codes, sent, passed, extra>>

\* Mutant: one request too many.
WithinAndOne(count) == count <= IpAllowance + 1

WithinAllowance(count) == count <= IpAllowance
OpensWindow(count) == count = 1

\* hit_ip, INCR: the first hit goes on to set the TTL, the others compare.
CountHit(r) ==
  LET ip == req[r].ip
      count == window[ip].count + 1
  IN  /\ req[r].pc = "received"
      /\ window' = [window EXCEPT ![ip].count = count]
      /\ IF OpensWindow(count)
         THEN Goto(r, "firstHit") /\ UNCHANGED passed
         ELSE IF WithinAllowance(count)
              THEN Goto(r, "counted") /\ passed' = [passed EXCEPT ![ip] = @ + 1]
              ELSE Finish(r) /\ UNCHANGED passed
      /\ UNCHANGED <<cooldown, codes, sent, started, extra>>

\* hit_ip, EXPIRE.
OpenWindow(r) ==
  LET ip == req[r].ip
  IN  /\ req[r].pc = "firstHit"
      /\ window' = [window EXCEPT ![ip].expires = TRUE]
      /\ passed' = [passed EXCEPT ![ip] = @ + 1]
      /\ Goto(r, "counted")
      /\ UNCHANGED <<cooldown, codes, sent, started, extra>>

\* hit_ip fails open, in INCR (which Redis may have executed all the same) as well
\* as in EXPIRE.
HitFails(r) ==
  /\ RedisFails
  /\ \/ req[r].pc \in {"received", "firstHit"} /\ UNCHANGED window
     \/ req[r].pc = "received" /\ window' = [window EXCEPT ![req[r].ip].count = @ + 1]
  /\ Goto(r, "counted")
  /\ UNCHANGED <<cooldown, codes, sent, started, passed, extra>>

\* Mutant: the cooldown is never looked at.
NeverCooling(p) == FALSE

Cooling(p) == cooldown[p]

\* seconds_until_phone_allowed: a TTL that is read, not taken; 429 while it runs.
CheckCooldown(r) ==
  /\ req[r].pc = "counted"
  /\ \/ Cooling(req[r].phone) /\ Finish(r)
     \/ ~Cooling(req[r].phone) /\ Goto(r, "allowed")
     \/ RedisFails /\ req' = [req EXCEPT ![r].pc = "allowed", ![r].failedOpen = TRUE]
  /\ UNCHANGED <<cooldown, window, codes, sent, started, passed, extra>>

\* Mutant: the account is not looked for.
LookUpNobody(r) ==
  /\ req[r].pc = "allowed"
  /\ Goto(r, "found")
  /\ UNCHANGED <<cooldown, window, codes, sent, started, passed, extra>>

\* find_by_phone: an unknown number gets the same answer, and no code.
LookUp(r) ==
  /\ req[r].pc = "allowed"
  /\ Goto(r, IF req[r].phone \in Known THEN "found" ELSE "sent")
  /\ UNCHANGED <<cooldown, window, codes, sent, started, passed, extra>>

\* The code is committed before it leaves the process.
CommitCode(r) ==
  LET p == req[r].phone
  IN  /\ req[r].pc = "found"
      /\ codes' = Append(codes, p)
      /\ req' = [req EXCEPT ![r].pc = "committed", ![r].code = Len(codes) + 1]
      /\ extra' = IF cooldown[p] /\ ~req[r].failedOpen
                  THEN [extra EXCEPT ![p] = @ + 1] ELSE extra
      /\ UNCHANGED <<cooldown, window, sent, started, passed>>

SendCode(r) ==
  /\ req[r].pc = "committed"
  /\ sent' = sent \cup {req[r].code}
  /\ Goto(r, "sent")
  /\ UNCHANGED <<cooldown, window, codes, started, passed, extra>>

\* mark_phone_sent, then the answer.
MarkSent(r) ==
  LET p == req[r].phone
  IN  /\ req[r].pc = "sent"
      /\ \/ cooldown' = [cooldown EXCEPT ![p] = TRUE]
         \/ RedisFails /\ UNCHANGED cooldown
      /\ Finish(r)
      /\ UNCHANGED <<window, codes, sent, started, passed, extra>>

Crash(r) ==
  /\ CrashesHappen
  /\ req[r].pc # "idle"
  /\ Finish(r)
  /\ UNCHANGED <<cooldown, window, codes, sent, started, passed, extra>>

-----------------------------------------------------------------------------
\* Redis removes a key whose TTL has run out.
EndCooldown(p) ==
  /\ cooldown[p]
  /\ cooldown' = [cooldown EXCEPT ![p] = FALSE]
  /\ extra' = [extra EXCEPT ![p] = 0]
  /\ UNCHANGED <<window, codes, sent, req, started, passed>>

CloseWindow(ip) ==
  /\ window[ip].expires
  /\ window' = [window EXCEPT ![ip] = NoWindow]
  /\ passed' = [passed EXCEPT ![ip] = 0]
  /\ UNCHANGED <<cooldown, codes, sent, req, started, extra>>

Step(r) ==
  \/ CountHit(r)
  \/ OpenWindow(r)
  \/ HitFails(r)
  \/ CheckCooldown(r)
  \/ LookUp(r)
  \/ CommitCode(r)
  \/ SendCode(r)
  \/ MarkSent(r)

Next ==
  \/ \E r \in Requests, p \in Phones, ip \in Ips \cup {NoIp} : Receive(r, p, ip)
  \/ \E r \in Requests : Step(r)
  \/ \E r \in Requests : Crash(r)
  \/ \E p \in Phones : EndCooldown(p)
  \/ \E ip \in Ips : CloseWindow(ip)

Spec == Init /\ [][Next]_vars

\* The event loop resumes a coroutine whose await completed; Redis expires its keys.
FairSpec ==
  /\ Spec
  /\ \A r \in Requests : WF_vars(Step(r))
  /\ \A p \in Phones : WF_vars(EndCooldown(p))
  /\ \A ip \in Ips : WF_vars(CloseWindow(ip))

-----------------------------------------------------------------------------
\* A request past its early returns has an account, one that counts its address has
\* an address, and a code that is committed and not sent is of one request's phone.
RequestsOK ==
  /\ \A r \in Requests :
       /\ req[r].pc # "idle" => req[r].phone \in Phones
       /\ req[r].pc = "found" => req[r].phone \in Known
       /\ req[r].pc \in {"received", "firstHit"} => req[r].ip \in Ips
       /\ req[r].pc = "committed" => req[r].code \in DOMAIN codes \ sent
                                     /\ codes[req[r].code] = req[r].phone
  /\ \A r, s \in Requests :
       req[r].pc = "committed" /\ req[s].pc = "committed" /\ req[r].code = req[s].code
         => r = s

\* The keys, the table and the requests have the values the code gives them: a
\* counter that has a TTL counts, and no more requests passed than it counted.
TypeOK ==
  /\ cooldown \in [Phones -> BOOLEAN]
  /\ window \in [Ips -> [count: Nat, expires: BOOLEAN]]
  /\ codes \in Seq(Known)
  /\ sent \subseteq DOMAIN codes
  /\ req \in [Requests -> RequestState]
  /\ started \in 0..MaxCalls
  /\ passed \in [Ips -> Nat]
  /\ extra \in [Phones -> Nat]
  /\ \A i \in Ips : passed[i] <= window[i].count
  /\ \A i \in Ips : window[i].expires => window[i].count > 0
  /\ RequestsOK

\* Per address (rate_limiter.py): the counter lets no more than the allowance through
\* in one window, however many requests count at once, are lost or find Redis down.
AllowancePerWindow == \A i \in Ips : passed[i] <= IpAllowance

\* Per phone: the cooldown is read long before it is armed, so that requests which
\* overlap the one that arms it still issue their codes, but no others do: one request
\* at a time a cooling phone gets no code, n at a time n - 1 at most.
CodesWhileCooling == \A p \in Phones : extra[p] <= Cardinality(Requests) - 1

\* "These keys expire on their own" (rate_limiter.py): a counter that was opened is
\* closed again, and an address past its allowance is let through again.
EveryWindowCloses == \A i \in Ips : window[i].count > 0 ~> window[i].count = 0
=============================================================================
