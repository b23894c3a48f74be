---------------------------- MODULE OtpIssueProofs ----------------------------
(***************************************************************************)
(* Theorems about OtpIssue, for any phones, addresses, allowance and number*)
(* of requests: what the two rate limits promise.  Neither is inductive.   *)
(* HitsOK says what a request between INCR and EXPIRE may still rely on,   *)
(* CoolingOK counts the requests that looked before the cooldown was armed.*)
(***************************************************************************)
EXTENDS OtpIssue, FiniteSetTheorems, TLAPS

USE IssueAssumption DEF IssueAssumption

FirstHit(i) == {r \in Requests : req[r].pc = "firstHit" /\ req[r].ip = i}

\* A window is opened by one request, which has not passed yet, and closes after that.
HitsOK ==
  \A i \in Ips :
    /\ passed[i] <= IpAllowance
    /\ \A r \in FirstHit(i) :
         passed[i] < IpAllowance /\ passed[i] < window[i].count /\ ~window[i].expires
    /\ \A r, s \in FirstHit(i) : r = s

\* Past the cooldown, and on the way to a code.
Committing(p) ==
  {r \in Requests : req[r].pc \in {"allowed", "found"} /\ req[r].phone = p /\ ~req[r].failedOpen}

CoolingOK ==
  \A p \in Phones :
    /\ cooldown[p] => extra[p] + Cardinality(Committing(p)) <= Cardinality(Requests) - 1
    /\ ~cooldown[p] => extra[p] = 0

IssueInv == TypeOK /\ HitsOK /\ CoolingOK

-----------------------------------------------------------------------------
\* Any set of requests is finite, and one without r has at most all the others.
LEMMA SomeRequests ==
  ASSUME NEW S \in SUBSET Requests
  PROVE  /\ IsFiniteSet(S) /\ Cardinality(S) \in Nat
         /\ \A T \in SUBSET S : Cardinality(T) <= Cardinality(S)
         /\ \A r \in S : Cardinality(S \ {r}) = Cardinality(S) - 1
         /\ \A r \in Requests : r \notin S => Cardinality(S) <= Cardinality(Requests) - 1
<1>1. IsFiniteSet(S) /\ Cardinality(S) \in Nat
  BY FS_Subset, FS_CardinalityType
<1>2. \A T \in SUBSET S : Cardinality(T) <= Cardinality(S)
  BY <1>1, FS_Subset
<1>3. \A r \in S : Cardinality(S \ {r}) = Cardinality(S) - 1
  BY <1>1, FS_RemoveElement
<1>4. ASSUME NEW r \in Requests, r \notin S
      PROVE  Cardinality(S) <= Cardinality(Requests) - 1
  <2>1. IsFiniteSet(Requests \ {r}) /\ Cardinality(Requests \ {r}) = Cardinality(Requests) - 1
    BY FS_RemoveElement
  <2>2. S \in SUBSET (Requests \ {r})
    BY <1>4
  <2> QED
    BY <2>1, <2>2, FS_Subset
<1> QED
  BY <1>1, <1>2, <1>3, <1>4

LEMMA InitIssue == Init => IssueInv
<1> SUFFICES ASSUME Init PROVE IssueInv
  OBVIOUS
<1>1. TypeOK
  BY DEF Init, TypeOK, RequestsOK, Idle, RequestState, ProgramPoint, NoWindow
<1>2. HitsOK
  BY DEF Init, HitsOK, FirstHit, Idle
<1>3. CoolingOK
  BY DEF Init, CoolingOK
<1> QED
  BY <1>1, <1>2, <1>3 DEF IssueInv

\* A step that arms no cooldown and counts no code, and lets nobody past a cooldown
\* that runs.
LEMMA CoolingKept ==
  ASSUME CoolingOK, UNCHANGED <<cooldown, extra>>, extra \in [Phones -> Nat],
         \A p \in Phones : cooldown[p] => Committing(p)' \subseteq Committing(p)
  PROVE  CoolingOK'
<1> SUFFICES ASSUME NEW p \in Phones
             PROVE  /\ cooldown[p] => extra[p] + Cardinality(Committing(p)') <= Cardinality(Requests) - 1
                    /\ ~cooldown[p] => extra[p] = 0
  BY DEF CoolingOK
<1>1. Committing(p) \in SUBSET Requests /\ Cardinality(Requests) \in Nat
  BY SomeRequests DEF Committing
<1>2. CASE cooldown[p]
  <2> DEFINE S == Committing(p)
             T == Committing(p)'
  <2>1. T \in SUBSET S
    BY <1>2
  <2>2. T \in SUBSET Requests
    BY <1>1, <2>1
  <2>3. extra[p] + Cardinality(S) <= Cardinality(Requests) - 1
    BY <1>2 DEF CoolingOK
  <2> HIDE DEF S, T
  <2>4. Cardinality(T) \in Nat /\ Cardinality(S) \in Nat /\ Cardinality(T) <= Cardinality(S)
    BY <1>1, <2>1, <2>2, SomeRequests DEF S
  <2>5. extra[p] + Cardinality(T) <= Cardinality(Requests) - 1
    BY <1>1, <2>3, <2>4
  <2> QED
    BY <1>2, <2>5 DEF T
<1> QED
  BY <1>2 DEF CoolingOK

\* A step of r that changes neither the codes nor what was sent, after which r has no
\* code of its own.
LEMMA RequestsKept ==
  ASSUME TypeOK, NEW r \in Requests, NEW new \in RequestState,
         req' = [req EXCEPT ![r] = new], UNCHANGED <<codes, sent>>,
         new.pc # "committed",
         new.pc # "idle" => new.phone \in Phones,
         new.pc = "found" => new.phone \in Known,
         new.pc \in {"received", "firstHit"} => new.ip \in Ips
  PROVE  req' \in [Requests -> RequestState] /\ RequestsOK'
<1>1. req \in [Requests -> RequestState] /\ RequestsOK
  BY DEF TypeOK
<1>2. req'[r] = new /\ \A s \in Requests \ {r} : req'[s] = req[s]
  BY <1>1
<1>3. req' \in [Requests -> RequestState]
  BY <1>1
<1>4. \A s \in Requests : req'[s] = req[s] \/ (s = r /\ req'[s].pc # "committed")
  BY <1>2
<1>5. ASSUME NEW s \in Requests
      PROVE  /\ req'[s].pc # "idle" => req'[s].phone \in Phones
             /\ req'[s].pc = "found" => req'[s].phone \in Known
             /\ req'[s].pc \in {"received", "firstHit"} => req'[s].ip \in Ips
             /\ req'[s].pc = "committed" => req'[s].code \in DOMAIN codes \ sent
                                           /\ codes[req'[s].code] = req'[s].phone
  BY <1>1, <1>2 DEF RequestsOK
<1>6. ASSUME NEW s \in Requests, NEW t \in Requests,
             req'[s].pc = "committed", req'[t].pc = "committed", req'[s].code = req'[t].code
      PROVE  s = t
  BY <1>1, <1>4, <1>6 DEF RequestsOK
<1> QED
  BY <1>3, <1>5, <1>6 DEF RequestsOK

\* A step of r that touches no counter and leaves no window half open.
LEMMA HitsKept ==
  ASSUME HitsOK, NEW r \in Requests, NEW new, req \in [Requests -> RequestState],
         req' = [req EXCEPT ![r] = new], UNCHANGED <<passed, window>>,
         new.pc # "firstHit"
  PROVE  HitsOK'
<1>1. \A i \in Ips : FirstHit(i)' \subseteq FirstHit(i)
  <2> SUFFICES ASSUME NEW i \in Ips, NEW s \in Requests, req'[s].pc = "firstHit", req'[s].ip = i
               PROVE  req[s].pc = "firstHit" /\ req[s].ip = i
    BY DEF FirstHit
  <2>1. s # r
    OBVIOUS
  <2> QED
    BY <2>1
<1> QED
  BY <1>1 DEF HitsOK

\* A step of r after which r is not past p's cooldown, unless it was before.
LEMMA CommittingKept ==
  ASSUME NEW r \in Requests, NEW new, req \in [Requests -> RequestState],
         req' = [req EXCEPT ![r] = new], NEW p,
         (new.pc \in {"allowed", "found"} /\ new.phone = p /\ ~new.failedOpen) => r \in Committing(p)
  PROVE  Committing(p)' \subseteq Committing(p)
<1> SUFFICES ASSUME NEW s \in Committing(p)' PROVE s \in Committing(p)
  OBVIOUS
<1>1. s \in Requests /\ req'[s].pc \in {"allowed", "found"} /\ req'[s].phone = p /\ ~req'[s].failedOpen
  BY DEF Committing
<1>2. CASE s = r
  BY <1>1, <1>2
<1>3. CASE s # r
  BY <1>1, <1>3 DEF Committing
<1> QED
  BY <1>2, <1>3

\* A step of r that changes nothing but r.
LEMMA OwnStep ==
  ASSUME IssueInv, NEW r \in Requests, NEW new \in RequestState,
         req' = [req EXCEPT ![r] = new],
         UNCHANGED <<cooldown, window, codes, sent, passed, extra>>, started' \in 0..MaxCalls,
         new.pc \notin {"committed", "firstHit"},
         new.pc # "idle" => new.phone \in Phones,
         new.pc = "found" => new.phone \in Known,
         new.pc = "received" => new.ip \in Ips,
         new.pc \in {"allowed", "found"} /\ ~new.failedOpen
           => ~cooldown[new.phone] \/ r \in Committing(new.phone)
  PROVE  IssueInv'
<1>1. TypeOK /\ HitsOK /\ CoolingOK
  BY DEF IssueInv
<1>2. req \in [Requests -> RequestState] /\ extra \in [Phones -> Nat]
  BY <1>1 DEF TypeOK
<1>3. req' \in [Requests -> RequestState] /\ RequestsOK'
  BY <1>1, RequestsKept
<1>4. TypeOK'
  BY <1>1, <1>3 DEF TypeOK
<1>5. HitsOK'
  BY <1>1, <1>2, HitsKept
<1>6. ASSUME NEW p \in Phones, cooldown[p] PROVE Committing(p)' \subseteq Committing(p)
  BY <1>2, <1>6, CommittingKept
<1>7. CoolingOK'
  BY <1>1, <1>2, <1>6, CoolingKept
<1> QED
  BY <1>4, <1>5, <1>7 DEF IssueInv

-----------------------------------------------------------------------------
LEMMA ReceiveStep ==
  ASSUME NEW r \in Requests, NEW p \in Phones, NEW ip \in Ips \cup {NoIp},
         IssueInv, Receive(r, p, ip)
  PROVE  IssueInv'
<1> DEFINE new == [Idle EXCEPT !.pc = IF ip = NoIp THEN "counted" ELSE "received",
                               !.phone = p, !.ip = ip]
<1>1. new \in RequestState /\ new.pc \in {"counted", "received"} /\ new.phone = p /\ new.ip = ip
      /\ (new.pc = "received" => ip \in Ips)
  BY DEF Idle, RequestState, ProgramPoint
<1>2. /\ req' = [req EXCEPT ![r] = new] /\ started' \in 0..MaxCalls
      /\ UNCHANGED <<cooldown, window, codes, sent, passed, extra>>
  BY DEF Receive, IssueInv, TypeOK
<1> HIDE DEF new
<1> QED
  BY <1>1, <1>2, OwnStep

LEMMA FinishStep ==
  ASSUME NEW r \in Requests, IssueInv, Finish(r),
         UNCHANGED <<cooldown, window, codes, sent, started, passed, extra>>
  PROVE  IssueInv'
<1>1. Idle \in RequestState /\ Idle.pc = "idle"
  BY DEF Idle, RequestState, ProgramPoint
<1>2. req' = [req EXCEPT ![r] = Idle] /\ started' \in 0..MaxCalls
  BY DEF Finish, IssueInv, TypeOK
<1> QED
  BY <1>1, <1>2, OwnStep

\* What a request that is under way carries.
LEMMA RequestFields ==
  ASSUME IssueInv, NEW r \in Requests
  PROVE  /\ req[r] \in RequestState /\ req \in [Requests -> RequestState]
         /\ started \in 0..MaxCalls
         /\ req[r].pc # "idle" => req[r].phone \in Phones
         /\ req[r].pc = "found" => req[r].phone \in Known
         /\ req[r].pc \in {"received", "firstHit"} => req[r].ip \in Ips
  BY DEF IssueInv, TypeOK, RequestsOK

LEMMA CheckCooldownStep ==
  ASSUME NEW r \in Requests, IssueInv, CheckCooldown(r)
  PROVE  IssueInv'
<1>1. /\ req[r] \in RequestState /\ req \in [Requests -> RequestState]
      /\ started \in 0..MaxCalls /\ req[r].pc = "counted" /\ req[r].phone \in Phones
      /\ UNCHANGED <<cooldown, window, codes, sent, started, passed, extra>>
  BY RequestFields DEF CheckCooldown
<1>2. CASE Finish(r)
  BY <1>1, <1>2, FinishStep
<1>3. CASE ~Cooling(req[r].phone) /\ Goto(r, "allowed")
  <2> DEFINE new == [req[r] EXCEPT !.pc = "allowed"]
  <2>1. new \in RequestState /\ new.pc = "allowed" /\ new.phone = req[r].phone
    BY <1>1 DEF RequestState, ProgramPoint
  <2>2. req' = [req EXCEPT ![r] = new]
    BY <1>1, <1>3 DEF Goto, RequestState
  <2>3. ~cooldown[new.phone]
    BY <1>3, <2>1 DEF Cooling
  <2> HIDE DEF new
  <2> QED
    BY <1>1, <2>1, <2>2, <2>3, OwnStep
<1>4. CASE req' = [req EXCEPT ![r].pc = "allowed", ![r].failedOpen = TRUE]
  <2> DEFINE new == [req[r] EXCEPT !.pc = "allowed", !.failedOpen = TRUE]
  <2>1. new \in RequestState /\ new.pc = "allowed" /\ new.phone = req[r].phone /\ new.failedOpen
    BY <1>1 DEF RequestState, ProgramPoint
  <2>2. req' = [req EXCEPT ![r] = new]
    BY <1>1, <1>4 DEF RequestState
  <2> HIDE DEF new
  <2> QED
    BY <1>1, <2>1, <2>2, OwnStep
<1> QED
  BY <1>2, <1>3, <1>4 DEF CheckCooldown

LEMMA LookUpStep ==
  ASSUME NEW r \in Requests, IssueInv, LookUp(r)
  PROVE  IssueInv'
<1> DEFINE new == [req[r] EXCEPT !.pc = IF req[r].phone \in Known THEN "found" ELSE "sent"]
<1>1. /\ req[r] \in RequestState /\ req \in [Requests -> RequestState]
      /\ started \in 0..MaxCalls /\ req[r].pc = "allowed" /\ req[r].phone \in Phones
      /\ UNCHANGED <<cooldown, window, codes, sent, started, passed, extra>>
  BY RequestFields DEF LookUp
<1>2. /\ new \in RequestState /\ new.pc \in {"found", "sent"} /\ new.phone = req[r].phone
      /\ new.failedOpen = req[r].failedOpen /\ (new.pc = "found" => new.phone \in Known)
  BY <1>1 DEF RequestState, ProgramPoint
<1>3. req' = [req EXCEPT ![r] = new]
  BY <1>1 DEF LookUp, Goto, RequestState
<1>4. ~new.failedOpen => r \in Committing(new.phone)
  BY <1>1, <1>2 DEF Committing
<1> HIDE DEF new
<1> QED
  BY <1>1, <1>2, <1>3, <1>4, OwnStep

-----------------------------------------------------------------------------
\* A step of r that counts: what it leaves to show is about the counters.
LEMMA CountingStep ==
  ASSUME IssueInv, NEW r \in Requests, NEW new \in RequestState,
         req' = [req EXCEPT ![r] = new],
         UNCHANGED <<cooldown, codes, sent, started, extra>>,
         new.pc \in {"idle", "firstHit", "counted"},
         new.pc # "idle" => new.phone \in Phones,
         new.pc = "firstHit" => new.ip \in Ips,
         window' \in [Ips -> [count: Nat, expires: BOOLEAN]], passed' \in [Ips -> Nat],
         \A i \in Ips : passed'[i] <= window'[i].count,
         \A i \in Ips : window'[i].expires => window'[i].count > 0,
         HitsOK'
  PROVE  IssueInv'
<1>1. TypeOK /\ CoolingOK
  BY DEF IssueInv
<1>2. req \in [Requests -> RequestState] /\ extra \in [Phones -> Nat]
  BY <1>1 DEF TypeOK
<1>3. req' \in [Requests -> RequestState] /\ RequestsOK'
  BY <1>1, RequestsKept
<1>4. TypeOK'
  BY <1>1, <1>3 DEF TypeOK
<1>5. ASSUME NEW p \in Phones PROVE Committing(p)' \subseteq Committing(p)
  BY <1>2, CommittingKept
<1>6. CoolingOK'
  BY <1>1, <1>2, <1>5, CoolingKept
<1> QED
  BY <1>4, <1>6 DEF IssueInv

\* What the counters are, and what a half-open one tells of its window.
LEMMA Counters ==
  ASSUME IssueInv
  PROVE  /\ window \in [Ips -> [count: Nat, expires: BOOLEAN]] /\ passed \in [Ips -> Nat]
         /\ \A i \in Ips : passed[i] <= window[i].count /\ passed[i] <= IpAllowance
         /\ \A i \in Ips : window[i].expires => window[i].count > 0
         /\ \A i \in Ips, s \in Requests :
              req[s].pc = "firstHit" /\ req[s].ip = i
                => passed[i] < IpAllowance /\ passed[i] < window[i].count /\ ~window[i].expires
         /\ \A s, t \in Requests :
              req[s].pc = "firstHit" /\ req[t].pc = "firstHit" /\ req[s].ip = req[t].ip => s = t
<1>1. TypeOK /\ HitsOK
  BY DEF IssueInv
<1>2. /\ window \in [Ips -> [count: Nat, expires: BOOLEAN]] /\ passed \in [Ips -> Nat]
      /\ \A i \in Ips : passed[i] <= window[i].count
      /\ \A i \in Ips : window[i].expires => window[i].count > 0
  BY <1>1 DEF TypeOK
<1>3. \A s \in Requests : req[s].pc = "firstHit" => req[s].ip \in Ips /\ s \in FirstHit(req[s].ip)
  BY <1>1 DEF TypeOK, RequestsOK, FirstHit
<1>4. \A i \in Ips : \A s, t \in FirstHit(i) : s = t
  BY <1>1 DEF HitsOK
<1>5. ASSUME NEW s \in Requests, NEW t \in Requests,
             req[s].pc = "firstHit", req[t].pc = "firstHit", req[s].ip = req[t].ip
      PROVE  s = t
  <2>1. req[s].ip \in Ips /\ s \in FirstHit(req[s].ip) /\ t \in FirstHit(req[s].ip)
    BY <1>3, <1>5
  <2> QED
    BY <1>4, <2>1
<1> QED
  BY <1>1, <1>2, <1>3, <1>5 DEF HitsOK

\* INCR by r: the first of a window, one within the allowance, or one past it.
LEMMA CountHitStep ==
  ASSUME NEW r \in Requests, IssueInv, CountHit(r)
  PROVE  IssueInv'
<1> DEFINE ip == req[r].ip
           n == window[ip].count + 1
<1>1. /\ req[r] \in RequestState /\ req \in [Requests -> RequestState]
      /\ req[r].pc = "received" /\ req[r].phone \in Phones /\ ip \in Ips
      /\ UNCHANGED <<cooldown, codes, sent, started, extra>>
  BY RequestFields DEF CountHit
<1>2. /\ window \in [Ips -> [count: Nat, expires: BOOLEAN]]
      /\ window' = [window EXCEPT ![ip].count = n] /\ n \in Nat /\ n > 0
  BY <1>1, Counters DEF CountHit
<1>3. /\ window' \in [Ips -> [count: Nat, expires: BOOLEAN]]
      /\ window'[ip].count = n /\ window'[ip].expires = window[ip].expires
      /\ \A i \in Ips \ {ip} : window'[i] = window[i]
  BY <1>1, <1>2
<1>4. \A i \in Ips : window'[i].expires => window'[i].count > 0
  BY <1>2, <1>3, Counters
<1>5. PICK new \in RequestState :
         /\ req' = [req EXCEPT ![r] = new]
         /\ \/ new.pc = "firstHit" /\ new.ip = ip /\ new.phone = req[r].phone
               /\ n = 1 /\ passed' = passed
            \/ new.pc = "counted" /\ new.phone = req[r].phone
               /\ n # 1 /\ n <= IpAllowance /\ passed' = [passed EXCEPT ![ip] = @ + 1]
            \/ new.pc = "idle" /\ n # 1 /\ passed' = passed
  <2>1. CASE n = 1
    <3> DEFINE new == [req[r] EXCEPT !.pc = "firstHit"]
    <3>1. new \in RequestState /\ new.pc = "firstHit" /\ new.ip = ip /\ new.phone = req[r].phone
      BY <1>1 DEF RequestState, ProgramPoint
    <3>2. req' = [req EXCEPT ![r] = new] /\ passed' = passed
      BY <1>1, <2>1 DEF CountHit, OpensWindow, Goto, RequestState
    <3> HIDE DEF new
    <3> QED
      BY <2>1, <3>1, <3>2
  <2>2. CASE n # 1 /\ n <= IpAllowance
    <3> DEFINE new == [req[r] EXCEPT !.pc = "counted"]
    <3>1. new \in RequestState /\ new.pc = "counted" /\ new.phone = req[r].phone
      BY <1>1 DEF RequestState, ProgramPoint
    <3>2. req' = [req EXCEPT ![r] = new] /\ passed' = [passed EXCEPT ![ip] = @ + 1]
      BY <1>1, <2>2 DEF CountHit, OpensWindow, WithinAllowance, Goto, RequestState
    <3> HIDE DEF new
    <3> QED
      BY <2>2, <3>1, <3>2
  <2>3. CASE n # 1 /\ ~(n <= IpAllowance)
    <3>1. Idle \in RequestState /\ Idle.pc = "idle"
      BY DEF Idle, RequestState, ProgramPoint
    <3>2. req' = [req EXCEPT ![r] = Idle] /\ passed' = passed
      BY <2>3 DEF CountHit, OpensWindow, WithinAllowance, Finish
    <3> QED
      BY <2>3, <3>1, <3>2
  <2> QED
    BY <2>1, <2>2, <2>3
<1> HIDE DEF n, ip
<1>6. req'[r] = new /\ \A s \in Requests \ {r} : req'[s] = req[s]
  BY <1>1, <1>5
<1>7. /\ passed' \in [Ips -> Nat] /\ \A i \in Ips \ {ip} : passed'[i] = passed[i]
      /\ n = window[ip].count + 1 /\ passed[ip] <= window[ip].count /\ passed[ip] <= IpAllowance
      /\ (new.pc = "counted" => passed'[ip] = passed[ip] + 1)
      /\ (new.pc # "counted" => passed'[ip] = passed[ip])
      /\ passed[ip] \in Nat /\ window[ip].count \in Nat
  BY <1>1, <1>2, <1>5, Counters DEF n
<1>8. \A i \in Ips : passed'[i] <= window'[i].count
  BY <1>3, <1>7, Counters
<1>9. HitsOK'
  <2>1. ASSUME NEW i \in Ips PROVE passed'[i] <= IpAllowance
    BY <1>5, <1>7, Counters
  <2>2. ASSUME NEW i \in Ips, NEW s \in FirstHit(i)'
        PROVE  passed'[i] < IpAllowance /\ passed'[i] < window'[i].count /\ ~window'[i].expires
    <3>1. s \in Requests /\ req'[s].pc = "firstHit" /\ req'[s].ip = i
      BY DEF FirstHit
    <3>2. CASE s = r
      <4>1. i = ip /\ n = 1 /\ passed'[i] = passed[i] /\ window[ip].count = 0
        BY <1>5, <1>6, <1>7, <3>1, <3>2
      <4>2. passed[i] = 0 /\ ~window[i].expires
        BY <1>1, <1>7, <4>1, Counters
      <4> QED
        BY <1>3, <4>1, <4>2
    <3>3. CASE s # r
      <4>1. passed[i] < IpAllowance /\ passed[i] < window[i].count /\ ~window[i].expires
        BY <1>6, <3>1, <3>3, Counters
      <4>2. CASE i = ip
        BY <1>3, <1>5, <1>7, <4>1, <4>2
      <4>3. CASE i # ip
        BY <1>3, <1>7, <4>1, <4>3
      <4> QED
        BY <4>2, <4>3
    <3> QED
      BY <3>2, <3>3
  <2>3. ASSUME NEW i \in Ips, NEW s \in FirstHit(i)', NEW t \in FirstHit(i)' PROVE s = t
    <3>1. /\ s \in Requests /\ req'[s].pc = "firstHit" /\ req'[s].ip = i
          /\ t \in Requests /\ req'[t].pc = "firstHit" /\ req'[t].ip = i
      BY DEF FirstHit
    <3>2. ASSUME NEW u \in Requests, u # r, req[u].pc = "firstHit", req[u].ip = ip,
                 new.pc = "firstHit"
          PROVE  FALSE
      <4>1. passed[ip] < window[ip].count
        BY <1>1, <3>2, Counters
      <4>2. window[ip].count = 0
        BY <1>5, <1>7, <3>2
      <4> QED
        BY <1>7, <4>1, <4>2
    <3>3. new.pc = "firstHit" => new.ip = ip
      BY <1>5
    <3> QED
      BY <1>6, <3>1, <3>2, <3>3, Counters
  <2> QED
    BY <2>1, <2>2, <2>3 DEF HitsOK
<1> QED
  BY <1>1, <1>3, <1>4, <1>5, <1>7, <1>8, <1>9, CountingStep

\* EXPIRE by r: no one else opens this window, and it has not run out meanwhile.
LEMMA OpenWindowStep ==
  ASSUME NEW r \in Requests, IssueInv, OpenWindow(r)
  PROVE  IssueInv'
<1> DEFINE ip == req[r].ip
           new == [req[r] EXCEPT !.pc = "counted"]
<1>1. /\ req[r] \in RequestState /\ req \in [Requests -> RequestState]
      /\ req[r].pc = "firstHit" /\ req[r].phone \in Phones /\ ip \in Ips
      /\ UNCHANGED <<cooldown, codes, sent, started, extra>>
  BY RequestFields DEF OpenWindow
<1>2. new \in RequestState /\ new.pc = "counted" /\ new.phone = req[r].phone
  BY <1>1 DEF RequestState, ProgramPoint
<1>3. req' = [req EXCEPT ![r] = new]
  BY <1>1 DEF OpenWindow, Goto, RequestState
<1>4. /\ window \in [Ips -> [count: Nat, expires: BOOLEAN]] /\ passed \in [Ips -> Nat]
      /\ passed[ip] < IpAllowance /\ passed[ip] < window[ip].count
  BY <1>1, Counters
<1>5. /\ window' = [window EXCEPT ![ip].expires = TRUE]
      /\ passed' = [passed EXCEPT ![ip] = @ + 1]
  BY DEF OpenWindow
<1> HIDE DEF new, ip
<1>6. /\ window' \in [Ips -> [count: Nat, expires: BOOLEAN]] /\ passed' \in [Ips -> Nat]
      /\ window'[ip].count = window[ip].count /\ passed'[ip] = passed[ip] + 1
      /\ \A i \in Ips \ {ip} : window'[i] = window[i] /\ passed'[i] = passed[i]
  <2>1. /\ passed' \in [Ips -> Nat] /\ passed'[ip] = passed[ip] + 1
        /\ \A i \in Ips \ {ip} : passed'[i] = passed[i]
    BY <1>1, <1>4, <1>5
  <2>2. /\ window' \in [Ips -> [count: Nat, expires: BOOLEAN]]
        /\ window'[ip].count = window[ip].count
        /\ \A i \in Ips \ {ip} : window'[i] = window[i]
    BY <1>1, <1>4, <1>5
  <2> QED
    BY <2>1, <2>2
<1>7. /\ passed[ip] \in Nat /\ window[ip].count \in Nat /\ window[ip].count > 0
      /\ passed'[ip] <= window[ip].count /\ passed'[ip] <= IpAllowance
  BY <1>1, <1>4, <1>6
<1>8. \A i \in Ips : passed'[i] <= window'[i].count
  BY <1>6, <1>7, Counters
<1>9. \A i \in Ips : window'[i].expires => window'[i].count > 0
  BY <1>6, <1>7, Counters
<1>10. HitsOK'
  <2>1. ASSUME NEW i \in Ips, NEW s \in FirstHit(i)'
        PROVE  s # r /\ i # ip /\ req[s].pc = "firstHit" /\ req[s].ip = i
    <3>1. s \in Requests /\ req'[s].pc = "firstHit" /\ req'[s].ip = i
      BY DEF FirstHit
    <3>2. s # r /\ req'[s] = req[s]
      BY <1>1, <1>2, <1>3, <3>1
    <3>3. i # ip
      BY <1>1, <3>1, <3>2, Counters DEF ip
    <3> QED
      BY <3>1, <3>2, <3>3
  <2>2. ASSUME NEW i \in Ips PROVE passed'[i] <= IpAllowance
    BY <1>6, <1>7, Counters
  <2>3. ASSUME NEW i \in Ips, NEW s \in FirstHit(i)'
        PROVE  passed'[i] < IpAllowance /\ passed'[i] < window'[i].count /\ ~window'[i].expires
    <3>1. s \in Requests
      BY DEF FirstHit
    <3> QED
      BY <1>6, <2>1, <3>1, Counters
  <2>4. ASSUME NEW i \in Ips, NEW s \in FirstHit(i)', NEW t \in FirstHit(i)' PROVE s = t
    <3>1. s \in Requests /\ t \in Requests
      BY DEF FirstHit
    <3> QED
      BY <2>1, <3>1, Counters
  <2> QED
    BY <2>2, <2>3, <2>4 DEF HitsOK
<1> QED
  BY <1>1, <1>2, <1>3, <1>6, <1>8, <1>9, <1>10, CountingStep

\* Redis fails in hit_ip: the counter may have grown, and nobody counts as passed.
LEMMA HitFailsStep ==
  ASSUME NEW r \in Requests, IssueInv, HitFails(r)
  PROVE  IssueInv'
<1> DEFINE new == [req[r] EXCEPT !.pc = "counted"]
<1>1. /\ req[r] \in RequestState /\ req \in [Requests -> RequestState]
      /\ req[r].phone \in Phones /\ req[r].ip \in Ips
      /\ UNCHANGED <<cooldown, codes, sent, started, passed, extra>>
  BY RequestFields DEF HitFails
<1>2. new \in RequestState /\ new.pc = "counted" /\ new.phone = req[r].phone
  BY <1>1 DEF RequestState, ProgramPoint
<1>3. req' = [req EXCEPT ![r] = new]
  BY <1>1 DEF HitFails, Goto, RequestState
<1> HIDE DEF new
<1>4. window \in [Ips -> [count: Nat, expires: BOOLEAN]] /\ passed \in [Ips -> Nat]
  BY Counters
<1>5. /\ window' \in [Ips -> [count: Nat, expires: BOOLEAN]]
      /\ \A i \in Ips : /\ window'[i].expires = window[i].expires
                        /\ window'[i].count \in {window[i].count, window[i].count + 1}
                        /\ window[i].count \in Nat /\ passed[i] \in Nat
  <2>1. CASE UNCHANGED window
    BY <1>4, <2>1
  <2>2. CASE window' = [window EXCEPT ![req[r].ip].count = @ + 1]
    BY <1>1, <1>4, <2>2
  <2> QED
    BY <2>1, <2>2 DEF HitFails
<1>6. \A i \in Ips : passed'[i] <= window'[i].count
  BY <1>1, <1>5, Counters
<1>7. \A i \in Ips : window'[i].expires => window'[i].count > 0
  BY <1>5, Counters
<1>8. HitsOK'
  <2>1. ASSUME NEW i \in Ips, NEW s \in FirstHit(i)'
        PROVE  s \in Requests /\ req[s].pc = "firstHit" /\ req[s].ip = i
    <3>1. s \in Requests /\ req'[s].pc = "firstHit" /\ req'[s].ip = i
      BY DEF FirstHit
    <3>2. req'[s] = req[s]
      BY <1>1, <1>2, <1>3, <3>1
    <3> QED
      BY <3>1, <3>2
  <2>2. ASSUME NEW i \in Ips, NEW s \in FirstHit(i)'
        PROVE  passed'[i] < IpAllowance /\ passed'[i] < window'[i].count /\ ~window'[i].expires
    <3>1. passed[i] < IpAllowance /\ passed[i] < window[i].count /\ ~window[i].expires
      BY <2>1, Counters
    <3> QED
      BY <1>1, <1>5, <3>1
  <2>3. ASSUME NEW i \in Ips, NEW s \in FirstHit(i)', NEW t \in FirstHit(i)' PROVE s = t
    BY <2>1, Counters
  <2> QED
    BY <1>1, <2>2, <2>3, Counters DEF HitsOK
<1> QED
  BY <1>1, <1>2, <1>3, <1>4, <1>5, <1>6, <1>7, <1>8, CountingStep

\* A window that closes has been opened, so that no one is about to pass in it.
LEMMA CloseWindowStep ==
  ASSUME NEW ip \in Ips, IssueInv, CloseWindow(ip)
  PROVE  IssueInv'
<1>1. /\ window \in [Ips -> [count: Nat, expires: BOOLEAN]] /\ passed \in [Ips -> Nat]
      /\ UNCHANGED <<cooldown, codes, sent, req, started, extra>> /\ window[ip].expires
  BY Counters DEF CloseWindow
<1>2. /\ window' \in [Ips -> [count: Nat, expires: BOOLEAN]] /\ passed' \in [Ips -> Nat]
      /\ window'[ip].count = 0 /\ ~window'[ip].expires /\ passed'[ip] = 0
      /\ \A i \in Ips \ {ip} : window'[i] = window[i] /\ passed'[i] = passed[i]
  BY <1>1 DEF CloseWindow, NoWindow
<1>3. TypeOK'
  <2>1. \A i \in Ips : passed'[i] <= window'[i].count
    BY <1>2, Counters
  <2>2. \A i \in Ips : window'[i].expires => window'[i].count > 0
    BY <1>2, Counters
  <2> QED
    BY <1>1, <1>2, <2>1, <2>2 DEF IssueInv, TypeOK, RequestsOK
<1>4. HitsOK'
  <2>1. \A i \in Ips : FirstHit(i)' = FirstHit(i)
    BY <1>1 DEF FirstHit
  <2>2. FirstHit(ip) = {}
    BY <1>1, Counters DEF FirstHit
  <2> QED
    BY <1>2, <2>1, <2>2 DEF IssueInv, HitsOK
<1>5. CoolingOK'
  <2>1. \A p \in Phones : Committing(p)' = Committing(p)
    BY <1>1 DEF Committing
  <2> QED
    BY <1>1, <2>1 DEF IssueInv, CoolingOK
<1> QED
  BY <1>3, <1>4, <1>5 DEF IssueInv

-----------------------------------------------------------------------------
\* The INSERT of a code: the row is new, so no other request holds it; if p is cooling,
\* r was counted as one that is past the cooldown.
LEMMA CommitCodeStep ==
  ASSUME NEW r \in Requests, IssueInv, CommitCode(r)
  PROVE  IssueInv'
<1> DEFINE p == req[r].phone
           n == Len(codes) + 1
           new == [req[r] EXCEPT !.pc = "committed", !.code = n]
<1>1. /\ req[r] \in RequestState /\ req \in [Requests -> RequestState]
      /\ started \in 0..MaxCalls /\ req[r].pc = "found" /\ p \in Phones /\ p \in Known
      /\ UNCHANGED <<cooldown, window, sent, started, passed>>
  BY RequestFields DEF CommitCode
<1>2. /\ codes \in Seq(Known) /\ sent \subseteq DOMAIN codes /\ extra \in [Phones -> Nat]
      /\ RequestsOK /\ HitsOK /\ CoolingOK /\ cooldown \in [Phones -> BOOLEAN]
  BY DEF IssueInv, TypeOK
<1>3. /\ codes' \in Seq(Known) /\ n \in Nat /\ n \in DOMAIN codes' /\ n \notin DOMAIN codes
      /\ codes'[n] = p /\ \A k \in DOMAIN codes : k \in DOMAIN codes' /\ codes'[k] = codes[k]
  <2>1. codes' = Append(codes, p) /\ Len(codes) \in Nat /\ DOMAIN codes = 1..Len(codes)
    BY <1>2 DEF CommitCode
  <2>2. /\ codes' \in Seq(Known) /\ DOMAIN codes' = 1..n /\ codes'[n] = p
        /\ \A k \in DOMAIN codes : codes'[k] = codes[k]
    BY <1>1, <1>2, <2>1
  <2> QED
    BY <2>1, <2>2
<1>4. /\ new \in RequestState /\ new.pc = "committed" /\ new.code = n /\ new.phone = p
      /\ new.ip = req[r].ip
  BY <1>1, <1>3 DEF RequestState, ProgramPoint
<1>5. req' = [req EXCEPT ![r] = new]
  BY <1>1 DEF CommitCode, RequestState
<1>6. /\ extra' \in [Phones -> Nat]
      /\ \A q \in Phones \ {p} : extra'[q] = extra[q]
      /\ extra'[p] = IF cooldown[p] /\ ~req[r].failedOpen THEN extra[p] + 1 ELSE extra[p]
  BY <1>1, <1>2 DEF CommitCode
<1> HIDE DEF p, n, new
<1>7. req' \in [Requests -> RequestState] /\ req'[r] = new
      /\ \A s \in Requests \ {r} : req'[s] = req[s]
  BY <1>1, <1>4, <1>5
<1>8. RequestsOK'
  <2>1. \A s \in Requests : req[s].pc = "committed" => req[s].code \in DOMAIN codes
    BY <1>2 DEF RequestsOK
  <2>2. ASSUME NEW s \in Requests
        PROVE  /\ req'[s].pc # "idle" => req'[s].phone \in Phones
               /\ req'[s].pc = "found" => req'[s].phone \in Known
               /\ req'[s].pc \in {"received", "firstHit"} => req'[s].ip \in Ips
               /\ req'[s].pc = "committed" => req'[s].code \in DOMAIN codes' \ sent
                                             /\ codes'[req'[s].code] = req'[s].phone
    <3>1. CASE s = r
      <4>1. n \in DOMAIN codes' /\ n \notin sent
        BY <1>2, <1>3
      <4>2. req'[s] = new
        BY <1>7, <3>1
      <4>3. codes'[new.code] = new.phone /\ new.code \in DOMAIN codes' \ sent
        BY <1>3, <1>4, <4>1
      <4>4. new.phone \in Phones /\ new.pc = "committed"
        BY <1>1, <1>4
      <4> QED
        BY <4>2, <4>3, <4>4
    <3>2. CASE s # r
      BY <1>2, <1>3, <1>7, <3>2 DEF RequestsOK
    <3> QED
      BY <3>1, <3>2
  <2>3. ASSUME NEW s \in Requests, NEW t \in Requests,
               req'[s].pc = "committed", req'[t].pc = "committed", req'[s].code = req'[t].code
        PROVE  s = t
    <3>1. CASE s = r \/ t = r
      <4>1. \A u \in Requests \ {r} : req'[u].pc = "committed" => req'[u].code # n
        BY <1>3, <1>7, <2>1
      <4> QED
        BY <1>4, <1>7, <2>3, <3>1, <4>1
    <3>2. CASE s # r /\ t # r
      BY <1>2, <1>7, <2>3, <3>2 DEF RequestsOK
    <3> QED
      BY <3>1, <3>2
  <2>4. sent' = sent
    BY <1>1
  <2> QED
    BY <2>2, <2>3, <2>4 DEF RequestsOK
<1>9. TypeOK'
  <2>1. sent' \subseteq DOMAIN codes'
    BY <1>1, <1>2, <1>3
  <2> QED
    BY <1>1, <1>3, <1>6, <1>7, <1>8, <2>1 DEF IssueInv, TypeOK
<1>10. HitsOK'
  BY <1>1, <1>2, <1>4, <1>5, HitsKept
<1>11. CoolingOK'
  <2> SUFFICES ASSUME NEW q \in Phones
               PROVE  /\ cooldown[q] => extra'[q] + Cardinality(Committing(q)') <= Cardinality(Requests) - 1
                      /\ ~cooldown[q] => extra'[q] = 0
    BY <1>1 DEF CoolingOK
  <2> DEFINE S == Committing(q)
             T == Committing(q)'
  <2>1. T \in SUBSET S /\ r \notin T
    <3>1. T \subseteq S
      BY <1>1, <1>4, <1>5, CommittingKept
    <3>2. r \notin T
      BY <1>4, <1>7 DEF Committing
    <3> QED
      BY <3>1, <3>2
  <2>2. S \in SUBSET Requests /\ T \in SUBSET Requests /\ S \ {r} \in SUBSET Requests
    BY <2>1 DEF Committing
  <2>3. r \in S <=> q = p /\ ~req[r].failedOpen
    BY <1>1 DEF Committing, p
  <2>4. cooldown[q] => extra[q] + Cardinality(S) <= Cardinality(Requests) - 1
    BY <1>2 DEF CoolingOK
  <2>5. ~cooldown[q] => extra[q] = 0
    BY <1>2 DEF CoolingOK
  <2> HIDE DEF S, T
  <2>6. /\ Cardinality(S) \in Nat /\ Cardinality(T) \in Nat /\ Cardinality(T) <= Cardinality(S)
        /\ Cardinality(Requests) \in Nat
    BY <2>1, <2>2, SomeRequests
  <2>7. r \in S => Cardinality(T) <= Cardinality(S) - 1
    <3> SUFFICES ASSUME r \in S PROVE Cardinality(T) <= Cardinality(S) - 1
      OBVIOUS
    <3>1. Cardinality(S \ {r}) = Cardinality(S) - 1
      BY <2>2, SomeRequests
    <3>2. T \in SUBSET (S \ {r})
      BY <2>1
    <3>3. Cardinality(T) <= Cardinality(S \ {r})
      BY <2>2, <3>2, SomeRequests
    <3> QED
      BY <3>1, <3>3
  <2>8. extra[q] \in Nat
    BY <1>2
  <2>9. CASE r \in S
    <3>1. extra'[q] = IF cooldown[q] THEN extra[q] + 1 ELSE extra[q]
      BY <1>6, <2>3, <2>9
    <3> QED
      BY <2>4, <2>5, <2>6, <2>7, <2>8, <2>9, <3>1 DEF T
  <2>10. CASE r \notin S
    <3>1. extra'[q] = extra[q]
      BY <1>6, <2>3, <2>10
    <3> QED
      BY <2>4, <2>5, <2>6, <2>8, <3>1 DEF T
  <2> QED
    BY <2>9, <2>10
<1> QED
  BY <1>9, <1>10, <1>11 DEF IssueInv

LEMMA SendCodeStep ==
  ASSUME NEW r \in Requests, IssueInv, SendCode(r)
  PROVE  IssueInv'
<1> DEFINE new == [req[r] EXCEPT !.pc = "sent"]
<1>1. /\ req[r] \in RequestState /\ req \in [Requests -> RequestState]
      /\ req[r].pc = "committed" /\ req[r].phone \in Phones
      /\ UNCHANGED <<cooldown, window, codes, started, passed, extra>>
      /\ sent' = sent \cup {req[r].code}
  BY RequestFields DEF SendCode
<1>2. /\ codes \in Seq(Known) /\ sent \subseteq DOMAIN codes /\ extra \in [Phones -> Nat]
      /\ RequestsOK /\ HitsOK /\ CoolingOK
  BY DEF IssueInv, TypeOK
<1>3. new \in RequestState /\ new.pc = "sent" /\ new.phone = req[r].phone
  BY <1>1 DEF RequestState, ProgramPoint
<1>4. req' = [req EXCEPT ![r] = new]
  BY <1>1 DEF SendCode, Goto, RequestState
<1> HIDE DEF new
<1>5. /\ req' \in [Requests -> RequestState] /\ req'[r] = new
      /\ \A s \in Requests \ {r} : req'[s] = req[s]
  BY <1>1, <1>3, <1>4
<1>6. req[r].code \in DOMAIN codes
  BY <1>1, <1>2 DEF RequestsOK
<1>7. RequestsOK'
  <2>1. ASSUME NEW s \in Requests
        PROVE  /\ req'[s].pc # "idle" => req'[s].phone \in Phones
               /\ req'[s].pc = "found" => req'[s].phone \in Known
               /\ req'[s].pc \in {"received", "firstHit"} => req'[s].ip \in Ips
               /\ req'[s].pc = "committed" => req'[s].code \in DOMAIN codes \ sent'
                                             /\ codes[req'[s].code] = req'[s].phone
    <3>1. CASE s = r
      BY <1>1, <1>3, <1>5, <3>1
    <3>2. CASE s # r
      <4>1. req[s].pc = "committed" => req[s].code # req[r].code
        BY <1>1, <1>2, <3>2 DEF RequestsOK
      <4> QED
        BY <1>1, <1>2, <1>5, <3>2, <4>1 DEF RequestsOK
    <3> QED
      BY <3>1, <3>2
  <2>2. ASSUME NEW s \in Requests, NEW t \in Requests,
               req'[s].pc = "committed", req'[t].pc = "committed", req'[s].code = req'[t].code
        PROVE  s = t
    BY <1>2, <1>3, <1>5, <2>2 DEF RequestsOK
  <2> QED
    BY <1>1, <2>1, <2>2 DEF RequestsOK
<1>8. TypeOK'
  BY <1>1, <1>2, <1>5, <1>6, <1>7 DEF IssueInv, TypeOK
<1>9. HitsOK'
  BY <1>1, <1>2, <1>3, <1>4, HitsKept
<1>10. ASSUME NEW p \in Phones PROVE Committing(p)' \subseteq Committing(p)
  BY <1>1, <1>3, <1>4, CommittingKept
<1>11. CoolingOK'
  BY <1>1, <1>2, <1>10, CoolingKept
<1> QED
  BY <1>8, <1>9, <1>11 DEF IssueInv

\* The cooldown is armed by r: the others may be past it by now, r is not.
LEMMA MarkSentStep ==
  ASSUME NEW r \in Requests, IssueInv, MarkSent(r)
  PROVE  IssueInv'
<1> DEFINE p == req[r].phone
<1>1. /\ req \in [Requests -> RequestState] /\ req[r].pc = "sent" /\ p \in Phones
      /\ started \in 0..MaxCalls
      /\ UNCHANGED <<window, codes, sent, started, passed, extra>> /\ req' = [req EXCEPT ![r] = Idle]
  BY RequestFields DEF MarkSent, Finish
<1>2. /\ cooldown \in [Phones -> BOOLEAN] /\ extra \in [Phones -> Nat]
      /\ TypeOK /\ HitsOK /\ CoolingOK
  BY DEF IssueInv, TypeOK
<1>3. Idle \in RequestState /\ Idle.pc = "idle"
  BY DEF Idle, RequestState, ProgramPoint
<1>4. CASE UNCHANGED cooldown
  BY <1>1, <1>4, FinishStep DEF Finish
<1>5. CASE cooldown' = [cooldown EXCEPT ![p] = TRUE]
  <2>1. req' \in [Requests -> RequestState] /\ RequestsOK'
    BY <1>1, <1>2, <1>3, RequestsKept
  <2>2. TypeOK'
    <3>1. cooldown' \in [Phones -> BOOLEAN]
      BY <1>2, <1>5
    <3> QED
      BY <1>1, <1>2, <2>1, <3>1 DEF TypeOK
  <2>3. HitsOK'
    BY <1>1, <1>2, <1>3, HitsKept
  <2>4. CoolingOK'
    <3> SUFFICES ASSUME NEW q \in Phones
                 PROVE  /\ cooldown'[q] => extra[q] + Cardinality(Committing(q)') <= Cardinality(Requests) - 1
                        /\ ~cooldown'[q] => extra[q] = 0
      BY <1>1 DEF CoolingOK
    <3> DEFINE S == Committing(q)
               T == Committing(q)'
    <3>1. T \in SUBSET S /\ r \notin S
      <4>1. T \subseteq S
        BY <1>1, <1>3, CommittingKept
      <4>2. r \notin S
        BY <1>1 DEF Committing
      <4> QED
        BY <4>1, <4>2
    <3>2. S \in SUBSET Requests /\ T \in SUBSET Requests
      BY <3>1 DEF Committing
    <3>3. /\ cooldown[q] => extra[q] + Cardinality(S) <= Cardinality(Requests) - 1
          /\ ~cooldown[q] => extra[q] = 0
      BY <1>2 DEF CoolingOK
    <3> HIDE DEF S, T
    <3>4. /\ Cardinality(S) \in Nat /\ Cardinality(T) \in Nat /\ Cardinality(T) <= Cardinality(S)
          /\ Cardinality(Requests) \in Nat /\ Cardinality(S) <= Cardinality(Requests) - 1
      BY <3>1, <3>2, SomeRequests
    <3>5. extra[q] \in Nat
      BY <1>2
    <3>6. extra[q] + Cardinality(T) <= Cardinality(Requests) - 1
      BY <3>3, <3>4, <3>5
    <3>7. ~cooldown'[q] => ~cooldown[q]
      BY <1>2, <1>5
    <3> QED
      BY <3>3, <3>6, <3>7 DEF T
  <2> QED
    BY <2>2, <2>3, <2>4 DEF IssueInv
<1> QED
  BY <1>4, <1>5 DEF MarkSent

LEMMA EndCooldownStep ==
  ASSUME NEW p \in Phones, IssueInv, EndCooldown(p)
  PROVE  IssueInv'
<1>1. /\ cooldown \in [Phones -> BOOLEAN] /\ extra \in [Phones -> Nat]
      /\ UNCHANGED <<window, codes, sent, req, started, passed>>
      /\ cooldown' = [cooldown EXCEPT ![p] = FALSE] /\ extra' = [extra EXCEPT ![p] = 0]
  BY DEF EndCooldown, IssueInv, TypeOK
<1>2. TypeOK'
  <2>1. cooldown' \in [Phones -> BOOLEAN] /\ extra' \in [Phones -> Nat]
    BY <1>1
  <2> QED
    BY <1>1, <2>1 DEF IssueInv, TypeOK, RequestsOK
<1>3. HitsOK'
  BY <1>1 DEF IssueInv, HitsOK, FirstHit
<1>4. CoolingOK'
  <2>1. \A q \in Phones : Committing(q)' = Committing(q)
    BY <1>1 DEF Committing
  <2>2. /\ cooldown'[p] = FALSE /\ extra'[p] = 0
        /\ \A q \in Phones \ {p} : cooldown'[q] = cooldown[q] /\ extra'[q] = extra[q]
    BY <1>1
  <2> QED
    BY <2>1, <2>2 DEF IssueInv, CoolingOK
<1> QED
  BY <1>2, <1>3, <1>4 DEF IssueInv

-----------------------------------------------------------------------------
LEMMA IssueInvariant == Spec => []IssueInv
<1>1. Init => IssueInv
  BY InitIssue
<1>2. IssueInv /\ [Next]_vars => IssueInv'
  <2> SUFFICES ASSUME IssueInv, [Next]_vars PROVE IssueInv'
    OBVIOUS
  <2>1. CASE \E r \in Requests, p \in Phones, ip \in Ips \cup {NoIp} : Receive(r, p, ip)
    BY <2>1, ReceiveStep
  <2>2. CASE \E r \in Requests : Step(r)
    BY <2>2, CountHitStep, OpenWindowStep, HitFailsStep, CheckCooldownStep, LookUpStep,
       CommitCodeStep, SendCodeStep, MarkSentStep DEF Step
  <2>3. CASE \E r \in Requests : Crash(r)
    BY <2>3, FinishStep DEF Crash
  <2>4. CASE \E p \in Phones : EndCooldown(p)
    BY <2>4, EndCooldownStep
  <2>5. CASE \E ip \in Ips : CloseWindow(ip)
    BY <2>5, CloseWindowStep
  <2>6. CASE UNCHANGED vars
    <3>1. TypeOK'
      BY <2>6 DEF vars, IssueInv, TypeOK, RequestsOK
    <3>2. HitsOK'
      BY <2>6 DEF vars, IssueInv, HitsOK, FirstHit
    <3>3. CoolingOK'
      <4>1. \A p \in Phones : Committing(p)' = Committing(p)
        BY <2>6 DEF vars, Committing
      <4> QED
        BY <2>6, <4>1 DEF vars, IssueInv, CoolingOK
    <3> QED
      BY <3>1, <3>2, <3>3 DEF IssueInv
  <2> QED
    BY <2>1, <2>2, <2>3, <2>4, <2>5, <2>6 DEF Next
<1> QED
  BY <1>1, <1>2, PTL DEF Spec

\* The keys of RedisOtpRateLimiter, the OTP rows and the requests fit together; in
\* particular no two requests hold the same code.
THEOREM IssueTypeCorrect == Spec => []TypeOK
  BY IssueInvariant, PTL DEF IssueInv

\* Per address (RedisOtpRateLimiter.hit_ip): the counter lets no more than the allowance
\* through in a window, however requests overlap, are lost or find Redis down.
THEOREM AllowanceKept == Spec => []AllowancePerWindow
<1>1. IssueInv => AllowancePerWindow
  BY DEF IssueInv, HitsOK, AllowancePerWindow
<1> QED
  BY <1>1, IssueInvariant, PTL

\* Per phone (RequestOtp): of n requests at once, at most n - 1 issue a code for a phone
\* while it is cooling.
THEOREM CoolingBounded == Spec => []CodesWhileCooling
<1>1. ASSUME IssueInv, NEW p \in Phones PROVE extra[p] <= Cardinality(Requests) - 1
  <2>1. Committing(p) \in SUBSET Requests /\ {} \in SUBSET Requests
    BY DEF Committing
  <2>2. /\ Cardinality(Committing(p)) \in Nat /\ extra[p] \in Nat
        /\ Cardinality({}) \in Nat /\ Cardinality({}) <= Cardinality(Requests) - 1
        /\ Cardinality(Requests) \in Nat
    <3>1. PICK r \in Requests : TRUE
      OBVIOUS
    <3>2. Cardinality(Requests) \in Nat
      BY SomeRequests
    <3> QED
      BY <1>1, <2>1, <3>1, <3>2, SomeRequests DEF IssueInv, TypeOK
  <2>3. /\ cooldown[p] => extra[p] + Cardinality(Committing(p)) <= Cardinality(Requests) - 1
        /\ ~cooldown[p] => extra[p] = 0
    BY <1>1 DEF IssueInv, CoolingOK
  <2> QED
    BY <2>2, <2>3
<1>2. IssueInv => CodesWhileCooling
  BY <1>1 DEF CodesWhileCooling
<1> QED
  BY <1>2, IssueInvariant, PTL
=============================================================================
