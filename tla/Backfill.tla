------------------------------ MODULE Backfill ------------------------------
(***************************************************************************)
(* Walking the accounts page by page (ListUsers over                       *)
(* SqlAlchemyUserReadRepository.list_users): a module that replays history *)
(* through GET /users/backfill, oldest account first, or an administrator  *)
(* who pages through GET /admin/users under a filter, newest first.  Every *)
(* request counts the rows and then selects a page by OFFSET, in two       *)
(* statements, over a table that grows and under a filter that accounts    *)
(* enter and leave meanwhile.                                              *)
(*                                                                         *)
(* The caller is not in this repository: it asks for page after page until *)
(* one is short, or until total_pages.  A module that breaks off goes on   *)
(* with the page it remembers, or again with the first: an answer gives it *)
(* no created_at to start from.                                            *)
(***************************************************************************)
EXTENDS FiniteSets, Integers

CONSTANTS Account,      \* ids; numbers, for their order decides among equals
          PageSize,
          MaxTime,      \* bound: instants at which accounts are created
          MaxLeft       \* bound: departures from a filter during a walk

ASSUME BackfillAssumption ==
    /\ Account \subseteq Nat /\ IsFiniteSet(Account)
    /\ PageSize \in Nat \ {0}
    /\ MaxTime \in Nat /\ MaxLeft \in Nat

Time == 0..MaxTime

VARIABLES
    now,
    created,    \* created_at of each account
    open,       \* accounts stamped by a registration that has not committed
    stored,     \* accounts in the table
    wanted,     \* accounts that pass the administrator's filter
    kind,       \* of the walk: "backfill" or "list"
    pc,         \* of the walk
    since,      \* `since` of its requests
    page,       \* the page it asks for next
    total,      \* COUNT of the request being answered
    met,        \* history: accounts received, before it began again too
    behind,     \* history: accounts that came up where the walk had been
    left,       \* history: number of accounts that left the filter
    late,       \* history: number that came up after the last COUNT
    present     \* history: accounts due at the last SELECT

tableVars == <<now, created, open, stored>>
walkVars == <<kind, pc, since, page, total, met, present>>
historyVars == <<behind, left, late>>
vars == <<tableVars, wanted, walkVars, historyVars>>

TypeOK ==
    /\ now \in Time
    /\ created \in [Account -> Time]
    /\ open \subseteq Account /\ stored \subseteq Account
    /\ open \intersect stored = {}
    /\ wanted \subseteq stored
    /\ kind \in {"backfill", "list"}
    /\ pc \in {"idle", "asking", "counted", "complete", "stopped"}
    /\ since \in Time
    /\ page \in Nat \ {0} /\ total \in Nat
    /\ met \subseteq stored /\ behind \subseteq stored /\ present \subseteq stored
    /\ left \in 0..MaxLeft /\ late \in Nat
    /\ kind = "backfill" => /\ left = 0 /\ wanted = {}
                            /\ \A a \in met : created[a] >= since

Init ==
    /\ now = 0
    /\ created = [a \in Account |-> 0]
    /\ open = {} /\ stored = {} /\ wanted = {}
    /\ kind = "backfill" /\ pc = "idle"
    /\ since = 0 /\ page = 1 /\ total = 0
    /\ met = {} /\ behind = {} /\ present = {}
    /\ left = 0 /\ late = 0

-----------------------------------------------------------------------------
(* list_users: the rows a request is about, their order, and the page.     *)

\* Mutant: `created_since` gets lost on its way to the query.
MatchingEver == IF kind = "list" THEN wanted ELSE stored

Matching ==
    IF kind = "list" THEN wanted ELSE {a \in stored : created[a] >= since}

Older(a, b) == created[a] < created[b] \/ (created[a] = created[b] /\ a < b)

\* Mutant: one order for both routes, the newest first.
NewestFirst(a, b) == Older(b, a)

Before(a, b) == IF kind = "list" THEN Older(b, a) ELSE Older(a, b)

Rank(a) == Cardinality({b \in Matching : Before(b, a)})

\* Mutant: pages counted from zero.
OffsetFromZero == page * PageSize

Offset == (page - 1) * PageSize

\* Mutant: the page is cut below the size that offsets and total_pages use.
PageOneShort ==
    {a \in Matching : Offset <= Rank(a) /\ Rank(a) < Offset + PageSize - 1}

Page == {a \in Matching : Offset <= Rank(a) /\ Rank(a) < Offset + PageSize}

\* LIMIT finds fewer rows than it may return.
ShortPage == Cardinality(Matching) < Offset + PageSize

\* The accounts the walk is about.
Due == IF kind = "list" THEN wanted ELSE {a \in stored : created[a] >= since}

\* Where no later page looks.
Passed(a) == a \in Matching /\ Rank(a) < Offset

-----------------------------------------------------------------------------
(* The table.  `a` comes up for the walk: the row or the filter begins to  *)
(* name it.                                                                *)

ComesUp(a) ==
    LET due == a \in Due' /\ a \notin Due IN
    /\ UNCHANGED <<left, walkVars>>
    /\ behind' = IF due /\ Passed(a)' THEN behind \union {a} ELSE behind
    /\ late' = IF due /\ pc = "counted" THEN late + 1 ELSE late

\* The new row passes the administrator's filter, or it does not.
MayPassFilter(a) ==
    \/ wanted' = wanted
    \/ kind = "list" /\ wanted' = wanted \union {a}

\* RegisterUser reads the clock, and its row is visible at its COMMIT.
RegisterUser(a) ==
    /\ a \notin open \union stored
    /\ created' = [created EXCEPT ![a] = now]
    /\ open' = open \union {a}
    /\ UNCHANGED <<now, stored, wanted, walkVars, historyVars>>

Commit(a) ==
    /\ a \in open
    /\ open' = open \ {a}
    /\ stored' = stored \union {a}
    /\ UNCHANGED <<now, created>>
    /\ MayPassFilter(a)
    /\ ComesUp(a)

Rollback(a) ==
    /\ a \in open
    /\ open' = open \ {a}
    /\ UNCHANGED <<now, created, stored, wanted, walkVars, historyVars>>

\* migrate(): the account arrives with the created_at it had in DiddiGo.
Import(a, t) ==
    /\ a \notin open \union stored /\ t <= now
    /\ created' = [created EXCEPT ![a] = t]
    /\ stored' = stored \union {a}
    /\ UNCHANGED <<now, open>>
    /\ MayPassFilter(a)
    /\ ComesUp(a)

\* A command gives the account the role, status or request that the filter
\* names, or takes it away.
Enter(a) ==
    /\ kind = "list" /\ a \in stored \ wanted
    /\ wanted' = wanted \union {a}
    /\ UNCHANGED tableVars
    /\ ComesUp(a)

Leave(a) ==
    /\ kind = "list" /\ a \in wanted /\ left < MaxLeft
    /\ wanted' = wanted \ {a}
    /\ left' = left + 1
    /\ UNCHANGED <<tableVars, walkVars, behind, late>>

Tick ==
    /\ now < MaxTime
    /\ now' = now + 1
    /\ UNCHANGED <<created, open, stored, wanted, walkVars, historyVars>>

-----------------------------------------------------------------------------
(* The walk.                                                               *)

Resting == {"idle", "complete", "stopped"}

FirstPage(from) ==
    /\ pc' = "asking"
    /\ since' = from /\ page' = 1 /\ total' = 0
    /\ behind' = {} /\ present' = {} /\ left' = 0 /\ late' = 0
    /\ UNCHANGED tableVars

StartWalk(from) ==
    /\ pc \in Resting
    /\ FirstPage(from)
    /\ met' = {}

\* GET /users/backfill?since=from
StartBackfill(from) ==
    /\ StartWalk(from)
    /\ kind' = "backfill" /\ wanted' = {}

\* GET /admin/users, under a filter that `some` accounts pass
StartList(some) ==
    /\ StartWalk(0)
    /\ kind' = "list" /\ wanted' = some

Count ==
    /\ pc = "asking"
    /\ pc' = "counted"
    /\ total' = Cardinality(Matching)
    /\ late' = 0
    /\ UNCHANGED <<tableVars, wanted, kind, since, page, met, present,
                   behind, left>>

\* A short page is the last one, and the last of total_pages may be taken
\* for it.
Select ==
    /\ pc = "counted"
    /\ met' = met \union Page
    /\ page' = page + 1
    /\ present' = Due
    /\ \/ ShortPage /\ pc' = "complete"
       \/ ~ShortPage /\ pc' = "asking"
       \/ ~ShortPage /\ page * PageSize >= total /\ pc' = "stopped"
    /\ UNCHANGED <<tableVars, wanted, kind, since, total, historyVars>>

\* The request fails, or its answer is lost: the caller has to ask again.
RequestFails ==
    /\ pc = "counted"
    /\ pc' = "asking"
    /\ UNCHANGED <<tableVars, wanted, kind, since, page, total, met, present,
                   historyVars>>

\* A module that lost its place, or is done, begins again, and keeps what it
\* has received.  It has no later instant to start from: profile_payload
\* tells it no created_at.
StartAgain ==
    /\ kind = "backfill" /\ pc # "idle"
    /\ FirstPage(since)
    /\ UNCHANGED <<wanted, kind, met>>

-----------------------------------------------------------------------------
Next ==
    \/ Tick
    \/ \E a \in Account :
          \/ RegisterUser(a) \/ Commit(a) \/ Rollback(a)
          \/ \E t \in Time : Import(a, t)
          \/ Enter(a) \/ Leave(a)
    \/ \E from \in 0..now : StartBackfill(from)
    \/ \E some \in SUBSET stored : StartList(some)
    \/ Count \/ Select \/ RequestFails \/ StartAgain

Spec == Init /\ [][Next]_vars

-----------------------------------------------------------------------------
Missed(some) == some \ (met \union behind)

(* What the walk has gone past it has received, but for the accounts that  *)
(* came up where it had been, and one for every account that left the      *)
(* filter and let the rest move up (OFFSET in list_users).                 *)
PassesOverOnlyWhatMoved ==
    Cardinality(Missed({a \in Due : Passed(a)})) <= left

(* A walk that ends on a short page has met every account that its last    *)
(* SELECT could see, with the same exceptions.  In a backfill nothing      *)
(* leaves, and its order is the reason why what it misses is older than an *)
(* account it has received: who registers later is not missed, however     *)
(* often requests failed or the module began again (list_users).           *)
CompleteWalkMeetsEveryone ==
    pc = "complete" =>
        /\ Cardinality(Missed(present)) <= left
        /\ kind = "backfill" =>
               \A a \in present \ met : \E b \in met : Older(a, b)

(* A walk that trusts total_pages misses no more than that and the         *)
(* accounts that came up between the COUNT and the SELECT of its last      *)
(* request (ListUsers, list_users).                                        *)
CountedWalkMissesOnlyTheLate ==
    pc = "stopped" => Cardinality(Missed(present)) <= left + late
=============================================================================
