---------------------------- MODULE JwksRotation ----------------------------
(***************************************************************************)
(* Signing keys from one rolling restart to the next: the settings the     *)
(* operator writes, the key ring each process holds from its start on      *)
(* (core/keys.py), the tokens signed with it (token_service.py,            *)
(* scripts/issue_service_token.py), and the verifier that the modules      *)
(* embed, with its cached copy of /.well-known/jwks.json                   *)
(* (shared_kernel/contracts/identity_provider.py).                         *)
(*                                                                         *)
(* A kid is the number of its generation.  A token is what its kid and its *)
(* expiry make of it; of the access tokens signed with one key, the one    *)
(* that lives longest stands for all.  Clocks are timers: ages that grow   *)
(* up to the value at which the code no longer tells them apart, and what  *)
(* is left of a lifetime.  Time is therefore not bounded.                  *)
(***************************************************************************)
EXTENDS Integers

CONSTANTS Proc,             \* processes of the service
          Task,             \* verifications running in one consuming module
          TTL,              \* age up to which the cached document is used
          MaxFetch,         \* longest exchange the HTTP client waits for
          AccessLifetime,   \* of an access token
          MaxKid            \* bound: generations of keys

ASSUME JwksAssumption ==
    /\ TTL \in Nat /\ MaxFetch \in Nat
    /\ AccessLifetime \in Nat \ {0}
    /\ MaxKid \in Nat \ {0}

Kid == 1..MaxKid
None == 0
Grown(age, cap) == IF age < cap THEN age + 1 ELSE cap

KeyRing == [active : Kid, previous : Kid \union {None}]
Down == [active |-> None, previous |-> None]    \* no ring, and no answer

\* Mutant: an empty slot is published as a key.
PublishedWithGaps(r) == {r.active, r.previous}

\* KeyRing.jwks(): the document shows the keys of the ring, under their kids.
Published(r) == {r.active, r.previous} \ {None}

VARIABLES
    config,     \* the JWT_* settings that a starting process reads
    ring,       \* the ring of each process, Down while it is stopped
    waited,     \* time since a process last held an older key than config's
    unserved,   \* for each kid, time since a process last published it
    left,       \* for each kid, time until its last access token expires
    signed,     \* kids that have signed a token, service tokens included
    keys,       \* kids in the verifier's cached document
    age,        \* time since it was received
    task        \* the verifications

keyVars == <<config, ring, waited, unserved>>
tokenVars == <<left, signed>>
cacheVars == <<keys, age>>
vars == <<keyVars, tokenVars, cacheVars, task>>

\* A GET in flight: because the document is old, or because it lacks the kid.
Fetching == {"refresh", "unknown"}
\* "refused" is history: the last verdict was that no key has the kid of an
\* access token that had not expired.
Verification == [pc : {"idle", "refused"} \union Fetching, kid : Kid \union {None},
                 for : 0..MaxFetch, doc : KeyRing \union {Down}]
Idle == [pc |-> "idle", kid |-> None, for |-> 0, doc |-> Down]

ForgetBy == TTL + MaxFetch + 1

TypeOK ==
    /\ config \in KeyRing
    /\ ring \in [Proc -> KeyRing \union {Down}]
    /\ waited \in 0..AccessLifetime
    /\ unserved \in [Kid -> 0..ForgetBy]
    /\ left \in [Kid -> 0..AccessLifetime]
    /\ signed \subseteq Kid
    /\ keys \subseteq Kid
    /\ age \in 0..(TTL + 1)
    /\ task \in [Task -> Verification]
    /\ \A t \in Task : task[t].pc \in Fetching => task[t].kid \in Kid

Init ==
    /\ config = [active |-> 1, previous |-> None]
    /\ ring = [p \in Proc |-> config]
    /\ waited = 0
    /\ unserved = [k \in Kid |-> 0]
    /\ left = [k \in Kid |-> 0]
    /\ signed = {}
    /\ keys = {}
    /\ age = 0
    /\ task = [t \in Task |-> Idle]

-----------------------------------------------------------------------------
(* The operator and the processes.  A rotation is a change of the settings *)
(* followed by a rolling restart; a crash is a stop too.                   *)

RolledOut == \A p \in Proc : ring[p].active \in {None, config.active}

\* One slot holds the previous key: a rotation begins when it is free.
Rotate ==
    /\ config.previous = None /\ RolledOut
    /\ config.active < MaxKid
    /\ config' = [active |-> config.active + 1, previous |-> config.active]
    /\ waited' = 0
    /\ UNCHANGED <<ring, unserved, tokenVars, cacheVars, task>>

\* The operator waits until the access tokens of the old key have expired.
RetirePrevious ==
    /\ config.previous # None /\ RolledOut
    /\ waited = AccessLifetime
    /\ config' = [config EXCEPT !.previous = None]
    /\ waited' = 0
    /\ UNCHANGED <<ring, unserved, tokenVars, cacheVars, task>>

\* Mutant: the previous key is left out.
get_active_key_only == [active |-> config.active, previous |-> None]

\* What a starting process loads: the active key, and the previous one if
\* the settings name one.
get_key_ring == [active |-> config.active, previous |-> config.previous]

Serving(rings, k) == \E p \in Proc : k \in Published(rings[p])

Start(p) ==
    /\ ring[p] = Down
    /\ ring' = [ring EXCEPT ![p] = get_key_ring]
    /\ unserved' = [k \in Kid |-> IF Serving(ring', k) THEN 0 ELSE unserved[k]]
    /\ UNCHANGED <<config, waited, tokenVars, cacheVars, task>>

Stop(p) ==
    /\ ring[p] # Down
    /\ ring' = [ring EXCEPT ![p] = Down]
    /\ waited' = IF ring[p].active = config.active THEN waited ELSE 0
    /\ UNCHANGED <<config, unserved, tokenVars, cacheVars, task>>

issue_access_token(p) ==
    /\ ring[p] # Down
    /\ left' = [left EXCEPT ![ring[p].active] = AccessLifetime]
    /\ signed' = signed \union {ring[p].active}
    /\ UNCHANGED <<keyVars, cacheVars, task>>

\* The script is a process of its own: it reads the settings of the moment.
issue_service_token ==
    /\ signed' = signed \union {get_key_ring.active}
    /\ UNCHANGED <<keyVars, left, cacheVars, task>>

\* decode_access_token: a process looks the kid up in its own ring.
DecodesHere(p, k) == k \in Published(ring[p])

-----------------------------------------------------------------------------
(* The verifier.  Between its awaits a verification runs without a break.  *)

\* Mutant: a document once received is good for ever.
StaleWhenEmpty == keys = {}

Stale == keys = {} \/ age > TTL

Fetch(t, why, k) ==
    task' = [task EXCEPT ![t] = [pc |-> why, kid |-> k, for |-> 0, doc |-> Down]]

Refuse(t, k, doc) ==
    task' = [task EXCEPT ![t] =
        IF left[k] > 0 THEN [pc |-> "refused", kid |-> k, for |-> 0, doc |-> doc]
                       ELSE Idle]

\* Mutant: an unknown kid is not worth another exchange.
BeginWithoutRefetch(t, k) ==
    /\ task[t].pc \notin Fetching
    /\ k \in signed
    /\ IF Stale THEN Fetch(t, "refresh", k)
       ELSE IF k \notin keys THEN Refuse(t, k, Down)
       ELSE task' = [task EXCEPT ![t] = Idle]
    /\ UNCHANGED <<keyVars, tokenVars, cacheVars>>

\* verify() of a token with kid k, up to its first await or its verdict.
Begin(t, k) ==
    /\ task[t].pc \notin Fetching
    /\ k \in signed
    /\ IF Stale THEN Fetch(t, "refresh", k)
       ELSE IF k \notin keys THEN Fetch(t, "unknown", k)
       ELSE task' = [task EXCEPT ![t] = Idle]
    /\ UNCHANGED <<keyVars, tokenVars, cacheVars>>

\* Any running process may answer the GET, with the ring it holds.
Serve(t, p) ==
    /\ task[t].pc \in Fetching /\ task[t].doc = Down
    /\ ring[p] # Down
    /\ task' = [task EXCEPT ![t].doc = ring[p]]
    /\ UNCHANGED <<keyVars, tokenVars, cacheVars>>

\* _refresh() after its await, and the rest of _key_for(): a kid missing from
\* a document fetched for its age is worth one more exchange.
Receive(t) ==
    /\ task[t].pc \in Fetching /\ task[t].doc # Down
    /\ keys' = Published(task[t].doc)
    /\ age' = 0
    /\ IF task[t].kid \in keys' THEN task' = [task EXCEPT ![t] = Idle]
       ELSE IF task[t].pc = "refresh" THEN Fetch(t, "unknown", task[t].kid)
       ELSE Refuse(t, task[t].kid, task[t].doc)
    /\ UNCHANGED <<keyVars, tokenVars>>

\* The exchange fails or times out: verify() raises, the cache stays as it is.
FetchFails(t) ==
    /\ task[t].pc \in Fetching /\ task[t].doc = Down
    /\ task' = [task EXCEPT ![t] = Idle]
    /\ UNCHANGED <<keyVars, tokenVars, cacheVars>>

\* Time passes, but no exchange outlives the client's timeout.
Tick ==
    /\ \A t \in Task : task[t].pc \in Fetching => task[t].for < MaxFetch
    /\ waited' = IF RolledOut THEN Grown(waited, AccessLifetime) ELSE 0
    /\ unserved' = [k \in Kid |-> IF Serving(ring, k) THEN 0
                                  ELSE Grown(unserved[k], ForgetBy)]
    /\ left' = [k \in Kid |-> IF left[k] = 0 THEN 0 ELSE left[k] - 1]
    /\ age' = Grown(age, TTL + 1)
    /\ task' = [t \in Task |-> IF task[t].pc \in Fetching
                               THEN [task[t] EXCEPT !.for = @ + 1] ELSE task[t]]
    /\ UNCHANGED <<config, ring, signed, keys>>

-----------------------------------------------------------------------------
Next ==
    \/ Rotate
    \/ RetirePrevious
    \/ issue_service_token
    \/ Tick
    \/ \E p \in Proc : Start(p) \/ Stop(p) \/ issue_access_token(p)
    \/ \E t \in Task :
          \/ \E k \in Kid : Begin(t, k)
          \/ \E p \in Proc : Serve(t, p)
          \/ Receive(t)
          \/ FetchFails(t)

Spec == Init /\ [][Next]_vars

-----------------------------------------------------------------------------
(* Whatever the processes hold and sign with, an access token that has not *)
(* expired decodes in every process, except in one that started before the *)
(* token's key was configured: neither a restart nor the end of a rotation *)
(* takes the key from a token in circulation (get_key_ring,                *)
(* decode_access_token).                                                   *)
LiveKeysPublished ==
    \A p \in Proc, k \in Kid :
        left[k] > 0 /\ ring[p] # Down /\ ~DecodesHere(p, k) => ring[p].active < k

(* The verifier refuses a live access token for its key only on the answer *)
(* that a process older than the key gave to that very verification:       *)
(* neither the cache, nor an old answer that overtook a new one, nor the   *)
(* end of a rotation refuses anybody (_key_for).                           *)
RefusedOnlyByTheLagging ==
    \A t \in Task : task[t].pc = "refused" =>
        task[t].doc # Down /\ task[t].doc.active < task[t].kid

(* A key that the cache vouches for was published by some process at most  *)
(* one TTL and one exchange ago, whichever answers overtook each other     *)
(* (_refresh, _key_for).                                                   *)
WithdrawnKeysForgotten ==
    ~Stale => \A k \in keys : unserved[k] <= TTL + MaxFetch
=============================================================================
