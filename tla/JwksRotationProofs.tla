------------------------- MODULE JwksRotationProofs -------------------------
(***************************************************************************)
(* Theorems about JwksRotation, for any number of processes and of         *)
(* verifications and any lifetimes.  KeysInv is what a rotation keeps true *)
(* of every ring that somebody holds, an answer on its way included: no    *)
(* live token and no running process is older than the oldest key in it.   *)
(* FreshInv follows a key from the process that publishes it through the   *)
(* answer into the cache.                                                  *)
(***************************************************************************)
EXTENDS JwksRotation, TLAPS

USE JwksAssumption DEF JwksAssumption, None

Running == {p \in Proc : ring[p] # Down}
Answered == {t \in Task : task[t].doc # Down}
Held == {config} \union {ring[p] : p \in Running} \union {task[t].doc : t \in Answered}

Oldest(r) == IF r.previous = None THEN r.active ELSE r.previous

RingOK(r) ==
    /\ r \in KeyRing
    /\ r.active <= config.active
    /\ r.previous \in {None, r.active - 1}
    /\ \A p \in Running : ring[p].active >= Oldest(r)
    /\ \A k \in Kid : left[k] > 0 => k >= Oldest(r)

RingsOK == \A r \in Held : RingOK(r)

\* While somebody signs with an older key the wait has not begun; what has
\* been waited is gone from the tokens of the older keys.
WaitOK ==
    /\ ~RolledOut => waited = 0
    /\ \A k \in Kid : k < config.active => left[k] + waited <= AccessLifetime

KeysInv == TypeOK /\ RingsOK /\ WaitOK /\ RefusedOnlyByTheLagging

FreshOK ==
    /\ \A k \in Kid : Serving(ring, k) => unserved[k] = 0
    /\ \A t \in Task : task[t].pc \in Fetching =>
          \A k \in Published(task[t].doc) : unserved[k] <= task[t].for
    /\ age <= TTL => \A k \in keys : unserved[k] <= age + MaxFetch

FreshInv == TypeOK /\ FreshOK

-----------------------------------------------------------------------------
(* Types.                                                                  *)

LEMMA PublishedType ==
  ASSUME NEW r \in KeyRing \union {Down}
  PROVE  Published(r) \subseteq Kid
BY DEF Published, KeyRing, Down

LEMMA Numbers ==
  ASSUME TypeOK
  PROVE  /\ config \in KeyRing /\ config.active \in Kid /\ left \in [Kid -> Nat]
         /\ Kid \subseteq Nat \ {None}
<1>1. config \in KeyRing
  BY DEF TypeOK
<1>2. config.active \in Kid
  BY <1>1 DEF KeyRing
<1>3. Kid \subseteq Nat \ {None}
  BY DEF Kid
<1>4. left \in [Kid -> Nat]
  BY DEF TypeOK
<1> QED
  BY <1>1, <1>2, <1>3, <1>4

LEMMA InitTypes == Init => TypeOK
<1> SUFFICES ASSUME Init PROVE TypeOK
  OBVIOUS
<1>1. config \in KeyRing
  BY DEF Init, KeyRing, Kid
<1>2. Idle \in Verification
  BY DEF Idle, Verification, Fetching
<1>3. unserved \in [Kid -> 0..ForgetBy]
  BY DEF Init, ForgetBy
<1> QED
  BY <1>1, <1>2, <1>3 DEF Init, TypeOK, Idle, Fetching

LEMMA OperatorTypes ==
  ASSUME TypeOK, Rotate \/ RetirePrevious \/ issue_service_token
  PROVE  TypeOK'
<1>1. CASE Rotate
  <2>1. config' \in KeyRing
    BY <1>1 DEF Rotate, TypeOK, KeyRing, Kid
  <2> QED
    BY <1>1, <2>1 DEF Rotate, TypeOK, tokenVars, cacheVars
<1>2. CASE RetirePrevious
  <2>1. config' \in KeyRing
    BY <1>2 DEF RetirePrevious, TypeOK, KeyRing
  <2> QED
    BY <1>2, <2>1 DEF RetirePrevious, TypeOK, tokenVars, cacheVars
<1>3. CASE issue_service_token
  BY <1>3 DEF issue_service_token, get_key_ring, TypeOK, KeyRing, keyVars, cacheVars
<1> QED
  BY <1>1, <1>2, <1>3

LEMMA ProcessTypes ==
  ASSUME TypeOK, NEW p \in Proc, Start(p) \/ Stop(p) \/ issue_access_token(p)
  PROVE  TypeOK'
<1>1. CASE Start(p)
  <2>1. unserved' \in [Kid -> 0..ForgetBy]
    BY <1>1 DEF Start, TypeOK, ForgetBy
  <2>2. get_key_ring \in KeyRing
    BY DEF get_key_ring, TypeOK, KeyRing
  <2> QED
    BY <1>1, <2>1, <2>2 DEF Start, TypeOK, tokenVars, cacheVars
<1>2. CASE Stop(p)
  BY <1>2 DEF Stop, TypeOK, tokenVars, cacheVars
<1>3. CASE issue_access_token(p)
  <2>1. ring[p].active \in Kid
    BY <1>3 DEF issue_access_token, TypeOK, KeyRing
  <2> QED
    BY <1>3, <2>1 DEF issue_access_token, TypeOK, keyVars, cacheVars
<1> QED
  BY <1>1, <1>2, <1>3

LEMMA TickTypes == TypeOK /\ Tick => TypeOK'
<1> SUFFICES ASSUME TypeOK, Tick PROVE TypeOK'
  OBVIOUS
<1>1. waited' \in 0..AccessLifetime /\ age' \in 0..(TTL + 1)
  BY DEF Tick, TypeOK, Grown
<1>2. unserved' \in [Kid -> 0..ForgetBy]
  BY DEF Tick, TypeOK, Grown, ForgetBy
<1>3. left' \in [Kid -> 0..AccessLifetime]
  <2>1. left \in [Kid -> 0..AccessLifetime]
    BY DEF TypeOK
  <2> QED
    BY <2>1 DEF Tick
<1>4. task' \in [Task -> Verification]
  BY DEF Tick, TypeOK, Verification
<1>5. \A t \in Task : task'[t].pc = task[t].pc /\ task'[t].kid = task[t].kid
  BY DEF Tick, TypeOK, Verification
<1> QED
  BY <1>1, <1>2, <1>3, <1>4, <1>5 DEF Tick, TypeOK

LEMMA VerifierTypes ==
  ASSUME TypeOK, NEW t \in Task,
         \/ \E k \in Kid : Begin(t, k)
         \/ \E p \in Proc : Serve(t, p)
         \/ Receive(t)
         \/ FetchFails(t)
  PROVE  TypeOK'
<1> USE DEF TypeOK, Verification, Fetching, Idle
<1>1. CASE \E k \in Kid : Begin(t, k)
  <2>1. /\ task' \in [Task -> Verification]
        /\ \A s \in Task : task'[s].pc \in Fetching => task'[s].kid \in Kid
    BY <1>1 DEF Begin, Fetch
  <2> QED
    BY <1>1, <2>1 DEF Begin, keyVars, tokenVars, cacheVars
<1>2. CASE \E p \in Proc : Serve(t, p)
  <2>1. task' \in [Task -> Verification]
    BY <1>2 DEF Serve
  <2> QED
    BY <1>2, <2>1 DEF Serve, keyVars, tokenVars, cacheVars
<1>3. CASE Receive(t)
  <2>1. keys' \subseteq Kid /\ age' \in 0..(TTL + 1)
    BY <1>3, PublishedType DEF Receive
  <2>2. task' \in [Task -> Verification]
    BY <1>3 DEF Receive, Fetch, Refuse
  <2>3. \A s \in Task : task'[s].pc \in Fetching => task'[s].kid \in Kid
    BY <1>3 DEF Receive, Fetch, Refuse
  <2> QED
    BY <1>3, <2>1, <2>2, <2>3 DEF Receive, keyVars, tokenVars
<1>4. CASE FetchFails(t)
  BY <1>4 DEF FetchFails, keyVars, tokenVars, cacheVars
<1> QED
  BY <1>1, <1>2, <1>3, <1>4

LEMMA NextTypes == TypeOK /\ [Next]_vars => TypeOK'
<1> SUFFICES ASSUME TypeOK, [Next]_vars PROVE TypeOK'
  OBVIOUS
<1>1. CASE UNCHANGED vars
  BY <1>1 DEF vars, keyVars, tokenVars, cacheVars, TypeOK
<1>2. CASE Next
  BY <1>2, OperatorTypes, ProcessTypes, TickTypes, VerifierTypes DEF Next
<1> QED
  BY <1>1, <1>2

(* The settings, rings, timers, cache and verifications keep their types   *)
(* through every rotation, crash and exchange (JwksRotation.TypeOK).       *)
THEOREM JwksTypeCorrect == Spec => []TypeOK
<1> QED
  BY InitTypes, NextTypes, PTL DEF Spec

-----------------------------------------------------------------------------
(* Rings.                                                                  *)

\* A ring that lacks the key of a live token is older than the key.
LEMMA LivePublished ==
  ASSUME NEW r, RingOK(r), NEW k \in Kid, left[k] > 0, k \notin Published(r)
  PROVE  r.active < k
BY DEF RingOK, Oldest, Published, KeyRing, Kid

\* It is enough to look at the settings, at the rings that processes load and
\* at the keys that they sign with.
LEMMA RingsKept ==
  ASSUME TypeOK, TypeOK', RingsOK,
         Held' \subseteq Held \union {config'},
         config.active <= config'.active,
         \A p \in Running' : \/ p \in Running /\ ring'[p] = ring[p]
                             \/ ring'[p] = config',
         \A k \in Kid : left'[k] > 0 => \/ left[k] > 0
                                        \/ \E p \in Running : k = ring[p].active,
         RingOK(config)'
  PROVE  RingsOK'
<1> SUFFICES ASSUME NEW r \in Held, r # config' PROVE RingOK(r)'
  BY DEF RingsOK
<1>1. RingOK(r) /\ r \in KeyRing
  BY DEF RingsOK, RingOK
<1>2. r.active \in Nat /\ Oldest(r) \in Nat /\ Oldest(r) <= r.active
  BY <1>1 DEF RingOK, Oldest, KeyRing, Kid
<1>3. config.active \in Nat /\ config'.active \in Nat
  <2>1. config \in KeyRing /\ config' \in KeyRing
    BY DEF TypeOK
  <2> QED
    BY <2>1 DEF KeyRing, Kid
<1>4. ASSUME NEW p \in Running' PROVE ring'[p].active >= Oldest(r)
  BY <1>1, <1>2, <1>3 DEF RingOK
<1>5. ASSUME NEW k \in Kid, left'[k] > 0 PROVE k >= Oldest(r)
  BY <1>1, <1>5 DEF RingOK
<1> QED
  BY <1>1, <1>2, <1>3, <1>4, <1>5 DEF RingOK, Oldest

LEMMA InitKeys == Init => KeysInv
<1> SUFFICES ASSUME Init PROVE KeysInv
  OBVIOUS
<1>1. TypeOK
  BY InitTypes
<1>2. RingOK(config)
  BY <1>1 DEF Init, TypeOK, RingOK, Oldest, Running, KeyRing
<1>3. Held = {config}
  <2>1. \A p \in Running : ring[p] = config
    BY DEF Init, Running
  <2>2. Answered = {}
    BY DEF Init, Answered, Idle
  <2> QED
    BY <2>1, <2>2 DEF Held
<1>4. WaitOK
  BY <1>1 DEF Init, WaitOK, RolledOut, TypeOK
<1> QED
  BY <1>1, <1>2, <1>3, <1>4 DEF KeysInv, RingsOK, RefusedOnlyByTheLagging, Init, Idle

LEMMA RotateKeys == KeysInv /\ Rotate => KeysInv'
<1> SUFFICES ASSUME KeysInv, Rotate PROVE KeysInv'
  OBVIOUS
<1>1. TypeOK /\ TypeOK' /\ RingOK(config)
  BY OperatorTypes DEF KeysInv, RingsOK, Held
<1>2. \A p \in Running : ring[p].active = config.active
  BY <1>1 DEF Rotate, RolledOut, Running, TypeOK, KeyRing, Kid
<1>3. RingOK(config)'
  BY <1>1, <1>2 DEF Rotate, RingOK, Oldest, Running, KeyRing, Kid, TypeOK, tokenVars
<1>4. RingsOK'
  <2>1. Held' \subseteq Held \union {config'}
    BY DEF Rotate, Held, Running, Answered
  <2>2. config.active <= config'.active
    BY <1>1 DEF Rotate, TypeOK, KeyRing, Kid
  <2> QED
    BY <1>1, <1>3, <2>1, <2>2, RingsKept DEF KeysInv, Rotate, Running, tokenVars
<1>5. WaitOK'
  BY <1>1 DEF Rotate, WaitOK, TypeOK, tokenVars
<1> QED
  BY <1>1, <1>4, <1>5 DEF KeysInv, RefusedOnlyByTheLagging, Rotate

LEMMA RetireKeys == KeysInv /\ RetirePrevious => KeysInv'
<1> SUFFICES ASSUME KeysInv, RetirePrevious PROVE KeysInv'
  OBVIOUS
<1>1. TypeOK /\ TypeOK' /\ RingOK(config)
  BY OperatorTypes DEF KeysInv, RingsOK, Held
<1>2. \A p \in Running : ring[p].active = config.active
  BY <1>1 DEF RetirePrevious, RolledOut, Running, TypeOK, KeyRing, Kid
<1>3. config' \in KeyRing /\ config'.active = config.active /\ config'.previous = None
  BY <1>1 DEF RetirePrevious, TypeOK, KeyRing
<1>4. \A k \in Kid : left[k] > 0 => k >= config.active
  <2>1. config.active \in Nat /\ Kid \subseteq Nat /\ left \in [Kid -> Nat]
    BY <1>1, Numbers
  <2>2. \A k \in Kid : k < config.active => left[k] + AccessLifetime <= AccessLifetime
    BY DEF KeysInv, WaitOK, RetirePrevious
  <2> QED
    BY <2>1, <2>2
<1>5. RingOK(config)'
  BY <1>1, <1>2, <1>3, <1>4 DEF RetirePrevious, RingOK, Oldest, Running, KeyRing, Kid, tokenVars
<1>6. RingsOK'
  <2>1. Held' \subseteq Held \union {config'}
    BY DEF RetirePrevious, Held, Running, Answered
  <2>2. config.active <= config'.active
    BY <1>1, <1>3 DEF TypeOK, KeyRing, Kid
  <2> QED
    BY <1>1, <1>5, <2>1, <2>2, RingsKept DEF KeysInv, RetirePrevious, Running, tokenVars
<1>7. WaitOK'
  BY <1>1, <1>3 DEF RetirePrevious, WaitOK, TypeOK, tokenVars
<1> QED
  BY <1>1, <1>6, <1>7 DEF KeysInv, RefusedOnlyByTheLagging, RetirePrevious

LEMMA StartKeys == ASSUME NEW p \in Proc, KeysInv, Start(p) PROVE KeysInv'
<1>1. TypeOK /\ TypeOK' /\ RingOK(config)
  BY ProcessTypes DEF KeysInv, RingsOK, Held
<1>2. config \in KeyRing /\ get_key_ring = config
  BY <1>1 DEF TypeOK, get_key_ring, KeyRing
<1>3. ring' = [ring EXCEPT ![p] = config] /\ UNCHANGED <<config, left, waited, task>>
  BY <1>2 DEF Start, tokenVars
<1>4. \A q \in Running' : (q \in Running /\ ring'[q] = ring[q]) \/ ring'[q] = config
  BY <1>1, <1>3 DEF Running, TypeOK
<1>5. RingOK(config)'
  <2>1. \A q \in Running' : ring'[q].active >= Oldest(config)
    BY <1>1, <1>2, <1>4 DEF RingOK, Oldest, KeyRing, Kid
  <2> QED
    BY <1>1, <1>3, <2>1 DEF RingOK, Oldest
<1>6. RingsOK'
  <2>1. Held' \subseteq Held \union {config'}
    BY <1>3, <1>4 DEF Held, Answered
  <2>2. config.active <= config'.active
    BY <1>2, <1>3 DEF KeyRing, Kid
  <2> QED
    BY <1>1, <1>3, <1>4, <1>5, <2>1, <2>2, RingsKept DEF KeysInv
<1>7. RolledOut' = RolledOut
  BY <1>1, <1>3 DEF RolledOut, Start, TypeOK, Down
<1>8. WaitOK'
  BY <1>3, <1>7 DEF KeysInv, WaitOK
<1> QED
  BY <1>1, <1>3, <1>6, <1>8 DEF KeysInv, RefusedOnlyByTheLagging

LEMMA StopKeys == ASSUME NEW p \in Proc, KeysInv, Stop(p) PROVE KeysInv'
<1>1. TypeOK /\ TypeOK' /\ RingOK(config)
  BY ProcessTypes DEF KeysInv, RingsOK, Held
<1>2. ring' = [ring EXCEPT ![p] = Down] /\ UNCHANGED <<config, left, task>>
  BY DEF Stop, tokenVars
<1>3. \A q \in Running' : q \in Running /\ ring'[q] = ring[q]
  BY <1>1, <1>2 DEF Running, TypeOK
<1>4. RingOK(config)'
  BY <1>1, <1>2, <1>3 DEF RingOK, Oldest
<1>5. RingsOK'
  <2>1. Held' \subseteq Held \union {config'}
    BY <1>2, <1>3 DEF Held, Answered
  <2>2. config.active <= config'.active
    BY <1>1, <1>2 DEF RingOK
  <2> QED
    BY <1>1, <1>2, <1>3, <1>4, <2>1, <2>2, RingsKept DEF KeysInv
<1>6. WaitOK'
  <2>1. CASE ring[p].active = config.active
    <3>1. RolledOut' = RolledOut
      BY <1>1, <1>2, <2>1 DEF RolledOut, TypeOK, Down
    <3> QED
      BY <1>2, <2>1, <3>1 DEF KeysInv, WaitOK, Stop
  <2>2. CASE ring[p].active # config.active
    BY <1>1, <1>2, <2>2 DEF WaitOK, Stop, TypeOK
  <2> QED
    BY <2>1, <2>2
<1> QED
  BY <1>1, <1>2, <1>5, <1>6 DEF KeysInv, RefusedOnlyByTheLagging

\* A token is signed with the key of a process: while that is not the newest
\* key, the wait has not begun.
LEMMA IssueKeys == ASSUME NEW p \in Proc, KeysInv, issue_access_token(p) PROVE KeysInv'
<1>1. TypeOK /\ TypeOK' /\ RingOK(config)
  BY ProcessTypes DEF KeysInv, RingsOK, Held
<1> DEFINE kid == ring[p].active
<1>2. /\ ring[p] # Down /\ UNCHANGED <<config, ring, waited, task>>
      /\ left' = [left EXCEPT ![kid] = AccessLifetime]
  BY DEF issue_access_token, keyVars
<1>3. p \in Running /\ kid \in Kid
  BY <1>1, <1>2 DEF Running, TypeOK, KeyRing
<1>4. \A k \in Kid : left'[k] = IF k = kid THEN AccessLifetime ELSE left[k]
  BY <1>1, <1>2 DEF TypeOK
<1>5. RingOK(config)'
  BY <1>1, <1>2, <1>3, <1>4 DEF RingOK, Oldest, Running
<1>6. RingsOK'
  <2>1. Held' \subseteq Held \union {config'}
    BY <1>2 DEF Held, Answered, Running
  <2>2. config.active <= config'.active
    BY <1>1, <1>2 DEF RingOK
  <2>3. Running' = Running
    BY <1>2 DEF Running
  <2> QED
    BY <1>1, <1>2, <1>3, <1>4, <1>5, <2>1, <2>2, <2>3, RingsKept DEF KeysInv
<1>7. WaitOK'
  <2>1. ~RolledOut => waited = 0
    BY DEF KeysInv, WaitOK
  <2>2. kid < config.active => ~RolledOut
    BY <1>1, <1>3, Numbers DEF RolledOut
  <2>3. \A k \in Kid : k < config.active => left'[k] + waited <= AccessLifetime
    BY <1>4, <2>1, <2>2 DEF KeysInv, WaitOK
  <2> QED
    BY <1>2, <2>1, <2>3 DEF WaitOK, RolledOut
<1> QED
  BY <1>1, <1>2, <1>6, <1>7 DEF KeysInv, RefusedOnlyByTheLagging

LEMMA TickKeys == KeysInv /\ Tick => KeysInv'
<1> SUFFICES ASSUME KeysInv, Tick PROVE KeysInv'
  OBVIOUS
<1>1. TypeOK /\ TypeOK' /\ RingOK(config)
  BY TickTypes DEF KeysInv, RingsOK, Held
<1>2. UNCHANGED <<config, ring>>
  BY DEF Tick
<1>3. \A k \in Kid : left'[k] = IF left[k] = 0 THEN 0 ELSE left[k] - 1
  BY DEF Tick
<1>4. \A t \in Task : task'[t].doc = task[t].doc /\ task'[t].pc = task[t].pc
                      /\ task'[t].kid = task[t].kid
  BY <1>1 DEF Tick, TypeOK, Verification
<1>5. RingOK(config)'
  BY <1>1, <1>2, <1>3, Numbers DEF RingOK, Oldest, Running
<1>6. RingsOK'
  <2>1. Held' = Held
    BY <1>2, <1>4 DEF Held, Answered, Running
  <2>2. Running' = Running
    BY <1>2 DEF Running
  <2>3. config.active <= config'.active
    BY <1>1, <1>2 DEF RingOK
  <2>4. \A k \in Kid : left'[k] > 0 => left[k] > 0
    BY <1>1, <1>3, Numbers
  <2> QED
    BY <1>1, <1>2, <1>5, <2>1, <2>2, <2>3, <2>4, RingsKept DEF KeysInv
<1>7. WaitOK'
  <2>1. RolledOut' = RolledOut
    BY <1>2 DEF RolledOut
  <2>2. ~RolledOut => waited' = 0
    BY DEF Tick
  <2>3. waited' \in Nat /\ waited \in Nat /\ waited' <= waited + 1 /\ waited' <= AccessLifetime
    BY <1>1 DEF Tick, Grown, TypeOK
  <2>4. \A k \in Kid : k < config.active => left'[k] + waited' <= AccessLifetime
    BY <1>1, <1>3, <2>3, Numbers DEF KeysInv, WaitOK
  <2> QED
    BY <1>2, <2>1, <2>2, <2>4 DEF WaitOK
<1> QED
  BY <1>1, <1>4, <1>6, <1>7 DEF KeysInv, RefusedOnlyByTheLagging

\* A verification that holds no ring but one that was held already, or that a
\* process answered with, keeps the invariant if its refusal is in order.
LEMMA VerifierKeys ==
  ASSUME KeysInv, TypeOK', NEW t \in Task, UNCHANGED <<keyVars, tokenVars>>,
         \A s \in Task \ {t} : task'[s] = task[s],
         task'[t].doc \in Held \union {Down},
         task'[t].pc = "refused" => task'[t].doc # Down /\ task'[t].doc.active < task'[t].kid
  PROVE  KeysInv'
<1>1. UNCHANGED <<config, ring, waited, left>>
  BY DEF keyVars, tokenVars
<1>2. Held' \subseteq Held
  BY <1>1 DEF Held, Answered, Running
<1>3. RingsOK'
  BY <1>1, <1>2 DEF KeysInv, RingsOK, RingOK, Running, Oldest
<1>4. WaitOK'
  BY <1>1 DEF KeysInv, WaitOK, RolledOut
<1> QED
  BY <1>3, <1>4 DEF KeysInv, RefusedOnlyByTheLagging

LEMMA BeginKeys ==
  ASSUME NEW t \in Task, NEW k \in Kid, KeysInv, Begin(t, k)
  PROVE  KeysInv'
<1>1. TypeOK'
  BY VerifierTypes DEF KeysInv
<1>2. task'[t].doc = Down /\ task'[t].pc # "refused" /\ \A s \in Task \ {t} : task'[s] = task[s]
  BY DEF KeysInv, TypeOK, Begin, Fetch, Idle
<1> QED
  BY <1>1, <1>2, VerifierKeys DEF Begin

LEMMA ServeKeys ==
  ASSUME NEW t \in Task, NEW p \in Proc, KeysInv, Serve(t, p)
  PROVE  KeysInv'
<1>1. TypeOK'
  BY VerifierTypes DEF KeysInv
<1>2. /\ task'[t].doc = ring[p] /\ task'[t].pc = task[t].pc
      /\ \A s \in Task \ {t} : task'[s] = task[s]
  BY DEF KeysInv, TypeOK, Verification, Serve
<1>3. ring[p] \in Held /\ task[t].pc # "refused"
  BY DEF Serve, Held, Running, Fetching
<1> QED
  BY <1>1, <1>2, <1>3, VerifierKeys DEF Serve

LEMMA ReceiveKeys ==
  ASSUME NEW t \in Task, KeysInv, Receive(t)
  PROVE  KeysInv'
<1>1. TypeOK' /\ TypeOK
  BY VerifierTypes DEF KeysInv
<1> DEFINE k == task[t].kid
           r == task[t].doc
<1>2. r \in Held /\ r # Down
  BY DEF Receive, Held, Answered
<1>3. \A s \in Task \ {t} : task'[s] = task[s]
  BY <1>1 DEF TypeOK, Receive, Fetch, Refuse
<1>4. \/ task'[t] = Idle
      \/ task'[t] = [pc |-> "unknown", kid |-> k, for |-> 0, doc |-> Down]
      \/ /\ k \notin Published(r) /\ left[k] > 0
         /\ task'[t] = [pc |-> "refused", kid |-> k, for |-> 0, doc |-> r]
  BY <1>1 DEF TypeOK, Receive, Fetch, Refuse
<1>5. CASE task'[t].pc = "refused"
  <2>1. /\ k \notin Published(r) /\ left[k] > 0
        /\ task'[t] = [pc |-> "refused", kid |-> k, for |-> 0, doc |-> r]
    BY <1>4, <1>5 DEF Idle
  <2>2. k \in Kid
    BY <1>1, <2>1 DEF Receive, TypeOK, Verification
  <2>3. r.active < k
    BY <1>2, <2>1, <2>2, LivePublished DEF KeysInv, RingsOK
  <2> QED
    BY <1>1, <1>2, <1>3, <2>1, <2>3, VerifierKeys DEF Receive
<1>6. CASE task'[t].pc # "refused"
  <2>1. task'[t].doc = Down
    BY <1>4, <1>6 DEF Idle
  <2> QED
    BY <1>1, <1>3, <1>6, <2>1, VerifierKeys DEF Receive
<1> QED
  BY <1>5, <1>6

LEMMA FailKeys ==
  ASSUME NEW t \in Task, KeysInv, FetchFails(t)
  PROVE  KeysInv'
<1>1. TypeOK'
  BY VerifierTypes DEF KeysInv
<1>2. task'[t].doc = Down /\ task'[t].pc # "refused" /\ \A s \in Task \ {t} : task'[s] = task[s]
  BY DEF KeysInv, TypeOK, FetchFails, Idle
<1> QED
  BY <1>1, <1>2, VerifierKeys DEF FetchFails

LEMMA NextKeys == KeysInv /\ [Next]_vars => KeysInv'
<1> SUFFICES ASSUME KeysInv, [Next]_vars PROVE KeysInv'
  OBVIOUS
<1>1. CASE issue_service_token
  <2>1. TypeOK' /\ UNCHANGED <<config, ring, waited, left, task>>
    BY <1>1, OperatorTypes DEF KeysInv, issue_service_token, keyVars
  <2> QED
    BY <2>1 DEF KeysInv, RingsOK, RingOK, Held, Answered, Running, WaitOK, RolledOut,
                Oldest, RefusedOnlyByTheLagging
<1>2. CASE UNCHANGED vars
  <2>1. TypeOK' /\ UNCHANGED <<config, ring, waited, left, task>>
    BY <1>2, NextTypes DEF KeysInv, vars, keyVars, tokenVars
  <2> QED
    BY <2>1 DEF KeysInv, RingsOK, RingOK, Held, Answered, Running, WaitOK, RolledOut,
                Oldest, RefusedOnlyByTheLagging
<1>3. CASE Next
  BY <1>1, <1>3, RotateKeys, RetireKeys, StartKeys, StopKeys, IssueKeys, TickKeys,
     BeginKeys, ServeKeys, ReceiveKeys, FailKeys DEF Next
<1> QED
  BY <1>2, <1>3

\* The invariant's rings include those the processes hold.
LEMMA KeysLive == KeysInv => LiveKeysPublished
<1> SUFFICES ASSUME KeysInv, NEW p \in Proc, NEW k \in Kid,
                    left[k] > 0, ring[p] # Down, ~DecodesHere(p, k)
             PROVE  ring[p].active < k
  BY DEF LiveKeysPublished
<1>1. RingOK(ring[p])
  BY DEF KeysInv, RingsOK, Held, Running
<1> QED
  BY <1>1, LivePublished DEF DecodesHere

(* An access token that has not expired decodes in every process that was  *)
(* started since its key was configured, through any number of rotations   *)
(* (JwksRotation.LiveKeysPublished; get_key_ring, decode_access_token).    *)
THEOREM LiveTokensDecode == Spec => []LiveKeysPublished
<1> QED
  BY InitKeys, NextKeys, KeysLive, PTL DEF Spec

(* No module refuses a live access token for its key, except on the answer *)
(* of a process older than the key (JwksRotation.RefusedOnlyByTheLagging;  *)
(* JwksIdentityVerifier._key_for).                                         *)
THEOREM LiveTokensAccepted == Spec => []RefusedOnlyByTheLagging
<1>1. KeysInv => RefusedOnlyByTheLagging
  BY DEF KeysInv
<1> QED
  BY <1>1, InitKeys, NextKeys, PTL DEF Spec

-----------------------------------------------------------------------------
(* The cache.                                                              *)

LEMMA InitFresh == Init => FreshInv
<1> SUFFICES ASSUME Init PROVE FreshInv
  OBVIOUS
<1>1. \A k \in Kid : unserved[k] = 0
  BY DEF Init
<1>2. \A t \in Task : task[t].pc \notin Fetching
  BY DEF Init, Idle, Fetching
<1>3. keys = {}
  BY DEF Init
<1> QED
  BY <1>1, <1>2, <1>3, InitTypes DEF FreshInv, FreshOK

\* Starts, stops and the rest of the key actions only make keys fresher.
LEMMA FresherKeys ==
  ASSUME FreshInv, TypeOK', UNCHANGED <<cacheVars, task>>,
         \A k \in Kid : Serving(ring, k)' => unserved'[k] = 0,
         \A k \in Kid : unserved'[k] <= unserved[k]
  PROVE  FreshInv'
<1>1. \A k \in Kid : unserved[k] \in Nat /\ unserved'[k] \in Nat
  BY DEF FreshInv, TypeOK, ForgetBy
<1>2. \A t \in Task : /\ task[t].for \in Nat
                      /\ \A k \in Published(task[t].doc) : k \in Kid
  BY PublishedType DEF FreshInv, TypeOK, Verification
<1>3. age \in Nat /\ keys \subseteq Kid
  BY DEF FreshInv, TypeOK
<1>4. UNCHANGED <<keys, age, task>>
  BY DEF cacheVars
<1>5. ASSUME NEW t \in Task, task[t].pc \in Fetching, NEW k \in Published(task[t].doc)
      PROVE  unserved'[k] <= task[t].for
  BY <1>1, <1>2, <1>5 DEF FreshInv, FreshOK
<1>6. ASSUME age <= TTL, NEW k \in keys
      PROVE  unserved'[k] <= age + MaxFetch
  BY <1>1, <1>3, <1>6 DEF FreshInv, FreshOK
<1> QED
  BY <1>4, <1>5, <1>6 DEF FreshInv, FreshOK

LEMMA KeyActionsFresh ==
  ASSUME FreshInv,
         \/ Rotate \/ RetirePrevious \/ issue_service_token
         \/ \E p \in Proc : Start(p) \/ Stop(p) \/ issue_access_token(p)
  PROVE  FreshInv'
<1>1. TypeOK'
  BY OperatorTypes, ProcessTypes DEF FreshInv
<1>2. \A k \in Kid : unserved[k] \in Nat
  BY DEF FreshInv, TypeOK, ForgetBy
<1>3. CASE \E p \in Proc : Start(p)
  <2>1. \A k \in Kid : unserved'[k] = IF Serving(ring', k) THEN 0 ELSE unserved[k]
    BY <1>3 DEF Start
  <2>2. \A k \in Kid : Serving(ring, k)' = Serving(ring', k)
    BY DEF Serving
  <2> QED
    BY <1>1, <1>2, <1>3, <2>1, <2>2, FresherKeys DEF Start
<1>4. CASE \E p \in Proc : Stop(p)
  <2>1. \A k \in Kid : Serving(ring, k)' => Serving(ring, k)
    BY <1>4 DEF Stop, Serving, Published, Down, FreshInv, TypeOK
  <2>2. UNCHANGED <<unserved, cacheVars, task>>
    BY <1>4 DEF Stop
  <2>3. \A k \in Kid : Serving(ring, k) => unserved[k] = 0
    BY DEF FreshInv, FreshOK
  <2> QED
    BY <1>1, <1>2, <2>1, <2>2, <2>3, FresherKeys
<1>5. CASE Rotate \/ RetirePrevious \/ issue_service_token \/ \E p \in Proc : issue_access_token(p)
  <2>1. UNCHANGED <<ring, unserved, cacheVars, task>>
    BY <1>5 DEF Rotate, RetirePrevious, issue_service_token, issue_access_token, keyVars
  <2> QED
    BY <1>1, <1>2, <2>1, FresherKeys DEF FreshInv, FreshOK, Serving
<1> QED
  BY <1>3, <1>4, <1>5

LEMMA TickFresh == FreshInv /\ Tick => FreshInv'
<1> SUFFICES ASSUME FreshInv, Tick PROVE FreshInv'
  OBVIOUS
<1>1. TypeOK /\ TypeOK'
  BY TickTypes DEF FreshInv
<1>2. \A k \in Kid : unserved[k] \in Nat /\ unserved'[k] \in Nat /\ unserved'[k] <= unserved[k] + 1
  BY <1>1 DEF Tick, TypeOK, Grown, ForgetBy
<1>3. \A k \in Kid : Serving(ring, k)' => unserved'[k] = 0
  BY DEF Tick, Serving
<1>4. ASSUME NEW t \in Task, task'[t].pc \in Fetching, NEW k \in Published(task'[t].doc)
      PROVE  unserved'[k] <= task'[t].for
  <2>1. /\ task[t].pc \in Fetching /\ task'[t].doc = task[t].doc
        /\ task[t].for \in Nat /\ task'[t].for = task[t].for + 1
    BY <1>1, <1>4 DEF Tick, TypeOK, Verification
  <2>2. k \in Kid
    BY <1>1, <1>4, PublishedType DEF TypeOK, Verification
  <2>3. unserved[k] <= task[t].for
    BY <1>4, <2>1 DEF FreshInv, FreshOK
  <2> QED
    BY <1>2, <2>1, <2>2, <2>3
<1>5. ASSUME age' <= TTL, NEW k \in keys'
      PROVE  unserved'[k] <= age' + MaxFetch
  <2>1. age \in Nat /\ age <= TTL /\ age' = age + 1 /\ keys' = keys /\ k \in Kid
    BY <1>1, <1>5 DEF Tick, Grown, TypeOK
  <2>2. unserved[k] <= age + MaxFetch
    BY <1>5, <2>1 DEF FreshInv, FreshOK
  <2> QED
    BY <1>2, <2>1, <2>2
<1> QED
  BY <1>1, <1>3, <1>4, <1>5 DEF FreshInv, FreshOK

LEMMA VerifierFresh ==
  ASSUME FreshInv, NEW t \in Task,
         \/ \E k \in Kid : Begin(t, k)
         \/ \E p \in Proc : Serve(t, p)
         \/ Receive(t)
         \/ FetchFails(t)
  PROVE  FreshInv'
<1>1. TypeOK /\ TypeOK'
  BY VerifierTypes DEF FreshInv
<1>2. UNCHANGED <<ring, unserved>> /\ \A s \in Task \ {t} : task'[s] = task[s]
  BY <1>1 DEF TypeOK, Begin, Serve, Receive, FetchFails, Fetch, Refuse, keyVars
<1>3. Published(Down) = {}
  BY DEF Published, Down
<1>4. task'[t].pc \in Fetching =>
        \A k \in Published(task'[t].doc) : unserved[k] <= task'[t].for
  <2>1. CASE \E p \in Proc : Serve(t, p)
    <3> PICK p \in Proc : Serve(t, p)
      BY <2>1
    <3>1. task'[t].doc = ring[p] /\ task'[t].for \in Nat
      BY <1>1 DEF Serve, TypeOK, Verification
    <3>2. \A k \in Published(ring[p]) : k \in Kid /\ Serving(ring, k)
      BY <1>1, PublishedType DEF Serving, TypeOK
    <3> QED
      BY <3>1, <3>2 DEF FreshInv, FreshOK
  <2>2. CASE (\E k \in Kid : Begin(t, k)) \/ Receive(t) \/ FetchFails(t)
    <3>1. task'[t].pc \in Fetching => task'[t].doc = Down
      BY <1>1, <2>2 DEF TypeOK, Begin, Receive, FetchFails, Fetch, Refuse, Idle, Fetching
    <3> QED
      BY <1>3, <3>1
  <2> QED
    BY <2>1, <2>2
<1>5. ASSUME age' <= TTL, NEW k \in keys' PROVE unserved[k] <= age' + MaxFetch
  <2>1. CASE Receive(t)
    <3>1. age' = 0 /\ task[t].pc \in Fetching /\ k \in Published(task[t].doc)
      BY <1>5, <2>1 DEF Receive
    <3>2. unserved[k] <= task[t].for /\ task[t].for <= MaxFetch /\ task[t].for \in Nat
      BY <1>1, <3>1 DEF FreshInv, FreshOK, TypeOK, Verification
    <3>3. unserved[k] \in Nat
      BY <1>1, <3>1, PublishedType DEF TypeOK, Verification, ForgetBy
    <3> QED
      BY <3>1, <3>2, <3>3
  <2>2. CASE ~Receive(t)
    BY <1>5, <2>2 DEF FreshInv, FreshOK, Begin, Serve, FetchFails, cacheVars
  <2> QED
    BY <2>1, <2>2
<1> QED
  BY <1>1, <1>2, <1>4, <1>5 DEF FreshInv, FreshOK, Serving

LEMMA NextFresh == FreshInv /\ [Next]_vars => FreshInv'
<1> SUFFICES ASSUME FreshInv, [Next]_vars PROVE FreshInv'
  OBVIOUS
<1>1. CASE UNCHANGED vars
  <2>1. TypeOK' /\ UNCHANGED <<ring, unserved, keys, age, task>>
    BY <1>1, NextTypes DEF FreshInv, vars, keyVars, cacheVars
  <2> QED
    BY <2>1 DEF FreshInv, FreshOK, Serving
<1>2. CASE Next
  BY <1>2, KeyActionsFresh, TickFresh, VerifierFresh DEF Next
<1> QED
  BY <1>1, <1>2

LEMMA FreshForgets == FreshInv => WithdrawnKeysForgotten
<1> SUFFICES ASSUME FreshInv, ~Stale, NEW k \in keys
             PROVE  unserved[k] <= TTL + MaxFetch
  BY DEF WithdrawnKeysForgotten
<1>1. age \in Nat /\ age <= TTL
  BY DEF Stale, FreshInv, TypeOK
<1>2. unserved[k] \in Nat
  BY DEF FreshInv, TypeOK, ForgetBy
<1> QED
  BY <1>1, <1>2 DEF FreshInv, FreshOK

(* A cache that still answers vouches for no key that every process has    *)
(* withdrawn for more than its TTL and one exchange, in whatever order the *)
(* answers arrived (JwksRotation.WithdrawnKeysForgotten; _refresh).        *)
THEOREM WithdrawnForgotten == Spec => []WithdrawnKeysForgotten
<1> QED
  BY InitFresh, NextFresh, FreshForgets, PTL DEF Spec
=============================================================================
