# DiddiFreeID in TLA+

DiddiFreeID is the identity service of the DiddiFree modules: it registers
people by phone number, verifies them with one-time codes, opens and renews
their sessions, decides which roles they hold (drivers and merchants after a
KYC decision), and announces what it committed on an event bus. It is a FastAPI
application over PostgreSQL and Redis. This directory holds TLA+ modules of the
part of it whose correctness depends on the order in which things happen, TLC
runs over small instances, and proofs.

Paths below are relative to `src/identity_app/`, and `identity/` stands for
`modules/identity/`.

## The system

| Component | State | Operations |
|---|---|---|
| Domain rules (`identity/domain/`) | none | transition table, KYC rule, event names |
| Repositories (`identity/infra/write_repository.py`, `models.py`, `core/database.py`) | PostgreSQL: users, status and role history, OTPs, refresh tokens; one session and transaction per request | find, save, record, mark consumed, count an attempt, revoke, commit |
| Account commands (`identity/application/commands/`) | the request's own | RegisterUser, ChangeRole, ChangeStatus, DecideKyc, UpdateProfile |
| Session commands (same) | the request's own | VerifyOtp, RefreshAccessToken, Logout |
| OTP issue (`request_otp.py`, `rate_limiter.py`) | Redis: a counter per address, a cooldown per phone | RequestOtp |
| Profile query and cache (`queries/get_user.py`, `infra/cache.py`) | Redis: a profile per account, with a TTL | read through, fill, invalidate |
| Authentication dependencies (`core/auth_deps.py`, routers) | none | service secret, access token, admin read afresh |
| Event bus (`shared_kernel/events/bus.py`) | Redis: a stream, a consumer group, a pending list per consumer | publish, ensure_group, read, read_pending, ack |
| Key ring, JWKS, verifier (`core/keys.py`, `infra/token_service.py`, `shared_kernel/contracts/identity_provider.py`) | the ring a process read at its start; a cached document in each module | sign, publish keys, verify |
| Listing and backfill (`infra/read_repository.py`, `queries/list_users.py`, `users_router.py`, `admin_router.py`) | none; the caller holds its `since` and a page number | COUNT and SELECT of one page |
| DiddiGo migration (`scripts/migrate_from_diddigo.py`) | one transaction on `identity.users`, and its report | one pass, real or simulated |
| SMS sender, settings, errors, validation, wiring, DDL, scripts | none that matters | |

How they interact: a router's dependency admits the call, builds the command
over one database session and awaits it. A command reads rows with plain
SELECTs, decides on a domain object in memory, writes through the repositories,
commits, then invalidates the cached profile, then publishes the event, then
answers. Every `await` lets other requests run; there are several worker
processes as well. Redis failures after the commit are logged and swallowed. A
subscribing module reads the stream through a consumer group; to recover what the
stream lost it walks the accounts page by page. It checks access tokens by itself,
with a copy of the public keys that it fetches over HTTP from any of the
processes, each of which publishes the keys it started with. The migration writes
accounts into the same table, in a transaction of its own, while all this goes on.

What is hard: nothing but one row lock (taken when an OTP is marked consumed)
separates two commands on the same account, so what a command read may be old
when it writes; the object a command publishes, caches or signs an access token
from is older still; a request can be lost between any two steps; Redis and
PostgreSQL do not commit together; the bus promises at-least-once delivery on
top of a stream that drops its oldest entries. A rotation of the signing key
reaches the processes one restart at a time and the verifiers one refresh at a
time. A walk by OFFSET goes over a table that grows, in an order in which
accounts need not appear. A pass of the migration looks a phone up and inserts it
later.

What makes each component correct:

* accounts: statuses move along the table only; roles come from grants, driver
  and merchant through KYC; histories agree with rows; the authors of decisions
  were admins;
* sessions: a code or refresh token opens one session and is spent; a burned
  code opens nothing; a suspension closes sessions; access tokens carry granted
  roles and allowed statuses;
* OTP issue: the allowance per address, the cooldown per phone, and both end;
* cache: holds what the row holds; events: announce what was committed, once;
* bus: at least once, in order, nothing forgotten that is not written off;
* keys: a live token keeps its key through restarts and rotations, a key that was
  withdrawn is forgotten;
* listing: a walk meets every account, but for those that moved where it had been;
* migration: all or nothing, every row answered for, one account per phone.

The list of what can go wrong, at its line, is `hazards` in `PROJECT.json`.

## Modules

| Module | Models |
|---|---|
| `IdentityDomain` | roles, statuses, table, KYC rule, event names |
| `IdentityStore` | the state, the repository operations, the life of a request: admission, rollback, loss, commit, cache invalidation, publication |
| `AccountCommands` | RegisterUser, ChangeRole, ChangeStatus, DecideKyc, UpdateProfile |
| `SessionCommands` | VerifyOtp, RefreshAccessToken, Logout |
| `ProfileQueries` | GetUserById / GetCurrentUserProfile through the cache |
| `Identity` | composes the four above over one state; the specification and its properties |
| `OtpIssue` | RequestOtp and the rate limiter |
| `EventDelivery` | abstract: at-least-once delivery |
| `EventBus` | publisher, stream, consumer group and workers; implements `EventDelivery` |
| `JwksRotation` | key rings from one rolling restart to the next, tokens, the verifier and its cache |
| `Backfill` | walks by OFFSET over the accounts, with requests that fail and modules that begin again |
| `Migration` | passes and simulations of the migration, beside registrations |
| `AccountLedger` | abstract: every command acts on an account, its live codes and its sessions in an instant |
| `IdentityProofs`, `KycGateProofs` | theorems about `Spec` of `Identity` |
| `SerialProofs` | theorems about `SerialSpec` of `Identity` |
| `OtpIssueProofs`, `EventBusProofs`, `JwksRotationProofs`, `BackfillProofs`, `MigrationProofs` | theorems about the module of that name |
| `MCIdentity`, `MCOtpIssue`, `MCEventBus`, `MCJwksRotation`, `MCBackfill`, `MCMigration` | instances for TLC |

`Identity` has two specifications. `Spec` lets any requests overlap, as the code does.
`SerialSpec` differs in one guard (`NobodyOn`): a call begins when no other on its
account is being handled; requests on different accounts interleave as
they like. Nothing in the code sees to that: it separates what the
service promises by itself from what it promises to a well-behaved client, and the
second kind is refuted for `Spec` (see Runs).

### State and code

`rows` is `identity.users`, one entry per phone number (`Unregistered` where
there is no row); `statusLog` and `roleLog` are the two history tables; `otps`
and `tokens` the OTP and refresh-token tables, in order of insertion (a token's
`parent` and `otp` say what it was issued for: the code does not store them,
the properties need them). `cache` and `stream` are in Redis, `access` is the
set of access tokens handed out. `req[r]` is a request being handled: its
program point, the call, the domain object in memory (`mem`), the ORM row that
`save()` compares it with (`base`), the OTP or token it works on, the OTP row
it has locked, and the event to publish.

One action is what a handler does between two awaits at which another request
can change something it depends on:

* a SELECT and the decision taken on it are one step, which ends the request
  where the code returns or raises (404, 409, 422, idempotent answers);
* the flushes of a transaction and its COMMIT are one step, since READ COMMITTED
  shows them to others together; the exception is `mark_consumed` in VerifyOtp,
  whose row lock is taken before the account is read and held until COMMIT
  (`ConsumeOtp`, `req[r].lock`);
* cache invalidation and publication are steps after the commit.

`save()` assigns every column, and the ORM's UPDATE names only those that differ
from the row object it holds: `Overlay`. That object comes from
`session.get()`, which answers from the session's identity map while the object
of the last SELECT is alive (the map is weak) and with a new SELECT otherwise:
`Reread` allows both, any number of times before the write.

`Crash` ends a request anywhere: what is not committed is rolled back, what is
committed stands and the rest of the handler is not run. `RedisFails` lets the
GET, SET and DEL on the cache and the XADD fail. Expiry of a code or a refresh
token is a choice the environment may take whenever the code looks at it.
Codes are there from the start (`InitOtps`): `OtpIssue` is what issues them.

`AccountLedger` keeps of all this the account, its live codes and its live refresh
tokens, and has one action per command. `CommandsAreAtomic` maps `rows`, the OTPs not
consumed and the tokens not revoked to them: a command takes its step of the ledger
at its COMMIT, and its SELECTs, the cache and the events are stutters.

`OtpIssue` gives RequestOtp the same treatment over the limiter's keys: `window`
is the counter of an address and whether it has a TTL, `cooldown` the key of a
phone, `codes` the rows committed, `sent` those given to the SMS sender.
`passed` and `extra` are history: requests the counter let through in the
current window, codes committed while the phone was cooling (by requests for
which Redis did answer).

`EventBus` numbers events by commit and entries by place in the stream;
`trimmed` entries are gone (`MAXLEN ~` removes whole blocks, so how many is a
choice that leaves `MaxLen` at least). An entry that was trimmed while pending
comes back from XREADGROUP without its fields and one in `Unreadable` does not
parse: `_decode()` leaves both out, and both stay pending. The handler of the
subscribing module is external and idempotent, as bus.py asks.

`JwksRotation` numbers keys by generation. `config` is what the operator has written
into the settings, `ring[p]` what the process p read of it when it started (`Down`
while it is stopped), `keys` and `age` the document a verifier holds and the time
since it received it, `task[t]` a verification with its exchange. A verification
runs without a break between its awaits: up to the GET, and from the answer to a
verdict or to a second GET (`Begin`, `Serve`, `Receive`). Two exchanges of one
verifier may be answered in one order and received in the other. Clocks are timers
that saturate where the code stops telling values apart, so time is not bounded.
What the operator does is external, and is what "Rotation de clé" in the
repository's README asks, with the care one slot needs: a rotation starts when the
slot for the previous key is free and the last one is rolled out; the previous key
is retired once the access tokens signed by the last process that held it have
expired.

`Backfill` has the table (`stored`, stamped with `created`; `open` are the rows a
registration has stamped and not committed), the filter of an administrator
(`wanted`), and one walk: `since`, `page`, `total` of the COUNT, `met` the accounts
received. COUNT and SELECT are two steps. `behind`, `left` and `late` are
history: the accounts that came up where the walk had been, the departures from
the filter, and what came up after the last COUNT. Routers bound `page_size`, so the
clamp of `list_users.py` never changes it. The caller is external; it walks until
a short page or until `total_pages`. A request that failed is made again, and a
module that broke off goes on with the page it remembers, which is no step of the
model, or begins again with the first page and keeps what it has received
(`StartAgain`), which is always from the `since` it has: neither an answer
(`profile_payload` under `UserListResponse`) nor an event tells it a `created_at`.

`Migration` has DiddiGo's rows, the phone of each account committed here, the
registrations in flight and one pass: `rows` read at its start, `todo`, the row in
hand and the report. An INSERT waits while another transaction holds the phone
(`HeldBy`, `Staged`) and fails if it is then committed. A role or a status missing
from the maps is one list here and two in `Report`.

## Runs

| Run | Instance | Shows |
|---|---|---|
| `one_per_account` | 2 requests, never two on one account, 6 calls of every kind, 2 codes, ceiling 1 | all the documented promises hold when requests on one account do not overlap; implements `AccountLedger` |
| `governance_concurrent` | 2 requests, 4 calls, crashes, Redis failures, 2 admins and a service | roles are granted, decisions are signed by admins, events follow commits |
| `sessions_concurrent` | 2 requests, 4 calls, crashes, 2 codes, ceiling 2 | credentials stay spent, burned codes stay burned, access tokens are earned, every request ends |
| `otp_issue` | 2 requests, 5 calls, allowance 2, crashes, Redis failures, a known and an unknown phone | allowance per window; the cooldown is overshot by the overlapping request only |
| `event_bus` | 2 workers dying twice, 4 events, stream of 3, read 2, read_pending 3, an unreadable entry, 2 commands publishing, XADD failures | implements `EventDelivery`; nothing forgotten; every entry handled or written off |
| `jwks` | 2 processes, 3 keys, 2 verifications of one module, TTL 1, exchanges up to 1, lifetime 2; crashes and rolling restarts, no bound on time | live tokens keep their key; a refusal comes from a process older than the key; a withdrawn key is forgotten |
| `backfill` | 4 accounts, pages of 2, 2 instants, 2 departures; late commits, imports, failed requests, walks begun again | only what moved behind a walk can be missed, in a backfill only accounts older than one received |
| `migration` | 3 users of DiddiGo (2 share a phone, 1 has an unknown role), 2 registrations, 2 phones, 1 change, 1 crash | all or nothing; rows accounted; phones exclusive; the simulation right; everybody ends |
| `otp_replay` | violation | two overlapping verifications of one code open two sessions |
| `kyc_limbo` | violation | `pending_kyc` with no request to decide on, one request at a time |
| `window_stuck` | violation | a counter without a TTL: the address is refused for good |
| `event_order` | violation | events handled in another order than their commits |

The violation runs each refute one sentence of the repository, quoted in
`findings`. `OtpOpensOneSession` is therefore checked with `SerialSpec` and refuted
with `Spec`. TLC refutes others in the same way when `one_per_account` is given
`Spec`, and no run is spent on them: `RegisteredOnce` (two verifications of
a new account each activate it and publish `user.registered`; so does one that
follows a `save()` which wrote `pending_verification` back),
`RotationYieldsOneSuccessor` (two refreshes with one token),
`StatusFollowsTable` (a verification that read its account before a suspension
undoes it), `AuditTrailIsExact` (two commands that read the same row each record a
change from it), `SuspendedHasNoSession` (a refresh that read its owner before
the suspension inserts its successor after it), `BurnedCodeOpensNothing` (the
right code, found live before it was burned, is accepted after), `CacheIsFresh` (a
reader that missed fills the cache after the invalidation) and with them
`CommandsAreAtomic`. `EventsMatchCommits` is a property of both specifications.
`CacheIsFresh` leaves aside `requested_role`, which `set_user` does not store
(`cache.py`) although `payloads.py` wants one profile everywhere; it and the exact
half of `EventsMatchCommits` are about a service that loses no request and no Redis
call, since either leaves an entry behind or an event out. `EveryWindowCloses` holds
when `CrashesHappen` and `RedisFails` are FALSE.

What the runs of the three later modules say beside their properties:

* `jwks`: nobody is logged out by a rotation, as `keys.py:8-10` has it, except
  while the restart is rolling. A verifier that refreshes its document from a
  process not yet restarted refuses a token that a restarted one signed, and a
  second exchange may reach the same process. `RefusedOnlyByTheLagging` states that
  this is the only case. A verification whose exchange fails raises, so a service
  that stays away longer than the TTL stops all verifications. Service tokens
  outlive the previous key's publication and have to be issued again.
* `backfill`: the bounds of the three properties are reached. A backfill misses
  the accounts that came up on pages it had read: a registration that
  committed late, and imported accounts, which keep their old `created_at` and are
  announced by no event. When it ends on a short page, all of them are older than an
  account it received: whoever registers later is met, and that is what the
  ascending order is worth. A walk begun again from its `since` meets those the
  first one missed. A list loses one account for every departure from the filter, and a walk
  that believes `total_pages` also what came up after the COUNT. Nor does a
  backfill `since` some instant recover a `role_changed` or `suspended` event lost
  about an older account, because it filters on `created_at`: only a walk from the
  beginning does.
* The documentation of the backfill and the code disagree about interruptions.
  `users_router.py:78-79` ("so an interrupted pass can resume from the last
  `created_at` it saw"), `read_repository.py:88-90`, `README.md:164-165` and
  `DiddiFreeID_Contrat_API.md:326` all say that a module can resume from the last
  `created_at` it saw. It never sees one: `ListUsers` answers with `profile_payload`
  (`payloads.py:25-32`), the route publishes `UserListResponse`
  (`schemas.py:75-83`, `113-115`), and no other endpoint or event has the field. The
  model follows the code, and no run is spent on a field that is not there.
* `migration`: a phone registered between the SELECT and the INSERT ends the whole
  pass with the constraint's error, and nothing of it is left; it is reported as
  "phone taken" only when the next pass finds it. A simulation announces both of
  two users that share a phone; the real pass takes one of them.

### Bounds

* Three accounts: the one acted upon, an admin, and a second person who can
  register or become an admin. Commands touch one account (and read the admin's
  row), so accounts interact through the admin check only.
* Two requests at a time: every race here is between a read and a write of one
  request and a commit of another. `MaxCalls` 4 lets two follow two; six in a row
  cover a request, a verification, a decision, a suspension and a reinstatement.
* `one_per_account` runs without crashes and Redis failures, so that the cache and the
  events have to be exact; its theorems are about any values of `CrashesHappen` and
  `RedisFails`.
* Two codes show one code burned or consumed while another is live; up to four
  tokens appear.
* `MaxAttempts` 1 and 2 stand for 5, `IpAllowance` 1 and 2 for 10, `MaxLen` 3 for
  100 000, `ReadCount` 2 and `PendingCount` 3 for 10 and 100 (the larger, so that
  one dead entry is tolerated and two are not, as 90 and 91 are).
* `jwks`: two processes are one restarted and one not, two verifications are two
  exchanges that overtake each other, three keys are two rotations, the second of
  which needs the slot of the first. TTL, timeout and lifetime are the least that
  differ in what they allow; any others are left to the theorems.
* `backfill`: four accounts and pages of two give a boundary between equals, a
  page after the first that is short, and one that is full and last; two instants
  give an older and a newer account.
* `migration`: two users with one phone and two registrations, over two phones, give
  every pair that excludes each other, and two transactions that wait.
* `MaxCalls`, `MaxEvents` and `MaxCrashes` bound the workload, after which nothing
  happens: the configurations do not check for deadlock. That no request waits
  for ever is `EveryRequestEnds`.

### Fairness

`WF(Step(r))` in `Identity` and `OtpIssue`: a coroutine whose await has completed
is resumed by the event loop, and PostgreSQL and Redis answer, if only with an
error. Crashes are not fair. `WF` on `EndCooldown` and `CloseWindow`: Redis
removes expired keys. `WF(WorkerStep(w))` in `EventBus`: the module restarts a
worker that died, and its loop goes on; a worker dies finitely often. No
publisher is assumed to publish. `WF(PassStep)` and `WF(Registration(r))` in
`Migration`: a statement sent to PostgreSQL ends unless it waits, and no one has
to start a pass. `JwksRotation` and `Backfill` assume no fairness: nobody has to
restart a process, to call, or to walk on.

## Proofs

`IdentityProofs`: `TypeCorrect`, `Spec => []TypeOK`, for any accounts, requests,
calls and starting database that satisfy `ConstantsAssumption` and
`CallsAssumption` of `IdentityStore`. `TypeOK` is inductive as it stands because
it includes `RequestOK`: a handler past its early returns works on an OTP or
token that exists, on an account that is registered, and for DecideKyc on a
pending request. There is a lemma per action; `StepType`, `FinishType`,
`CommittedType` and `SaveType` carry what they have in common.

`KycGateProofs`: `RolesGranted` and `AccessTokensEarned`. Neither invariant is
inductive: an action spreads the role that a request carries in memory, which
may have been read long before. `ProvenanceInv` adds that every role carried by a
request has a basis, that a carried status is one the code let through, and that
an account without a row has the default role. The argument is that `roleLog`
only grows, so a basis is never lost (`BasisGrows`); that `Overlay` picks each
column from the command's object, which is accounted for, or from the current
row, which is too (`SaveProvenance`); and that the commands which change a role
append the history row in the same commit. `Provenance` states that invariant
itself, which TLC checks in `governance_concurrent`. `AuthorityGranted` rests on
it: `require_admin` reads the row once, `RolesAreGranted` gives the role read there
a basis in `role_history`, and since that history only grows the signer is still
accounted for when the decision is committed, however much later (`AuthorityInv`).

`IdentityProofs` also has `CredentialsSpent` and `CodesBurned`. The inductive invariant
`SpentInv` says that the code or the token a session was opened with is spent;
what makes it inductive is that no step takes a `consumed` or a `revoked` back,
that rows are only appended, and that a request works on rows that exist. And it has
`EventsFollowCommits`, for any number of overlapping requests: `EventInv` balances,
for each account and each event that announces a commit, the entries of the stream
and the requests that carry the event (committed, not yet published) against the
history rows that ask for it. A COMMIT adds one to both sides, a publication turns
a carrier into an entry, and only a crash or a lost XADD takes a carrier away: hence
never more, and exactly as many where neither happens. That finitely many requests
are busy at any time is part of the invariant; it is not assumed of `Requests`.

`SerialProofs` proves, for `SerialSpec`, the promises that need requests on one account
not to overlap: `StatusesFollowTable`, `AuditTrailExact`, `SuspensionClosesSessions`,
`OneSessionPerOtp`, `OneSuccessorPerToken`, `BurnedCodesOpenNothing`,
`RegistrationAnnouncedOnce`, `CacheStaysFresh`, and the refinement `CommandsAtomic`.
They hold for any number of accounts and of requests at once. `NobodyOn`, which
restricts nothing but when a call begins, is their only hypothesis beside the
assumptions on the constants. The argument:

* No two requests are ever on one account (`OnePerAccount`, `SerialStep`), since a
  request keeps its call until it ends (`CallKept`).

* What a request read of its account, a code or a token is still so when it writes
  (`Current`, in `SerialInv`). A step changes only rows of the account its request is
  for (`Footprint`, `ActsFootprint`: one case per action), and no other request in
  flight is for that account (`OthersCurrent`). So a `Reread` never happens
  (`NoReread`), and `Overlay` writes the object as it was computed (`Saving`). The
  lemmas `RequestRoleSaves` to `ActivateAccountSaves` then say what each command
  does to the row it found, its history and its event. `AuditTrailExact` and
  `StatusesFollowTable` are read off them.
* `SessionInv`: a code that opened a session is consumed and a rotated token revoked
  (`SpentInv`), and a verification or a rotation finds its own live at the COMMIT, so it
  is the first; a login or a rotation commits on a row that is not suspended.
  `BurnedCodesOpenNothing` follows in the same way from `BurnedAtTheCeiling`.
* `WelcomeInv`: an account leaves `pending_verification` once and never returns
  (`VerifiedForGood`), so whoever carries its `user.registered` is the only one.
* `CacheInv`: an entry equals the row, or a request that has committed and not yet
  invalidated is there for it; a fill copies a row that is current.
* `CommandsAtomic`: one lemma per writing action maps it to its action of
  `AccountLedger`, or, for a wrong guess below the ceiling and the logout of a dead
  token, to a stutter. `AbsentIsBlank` (a number without a row has no column set) is
  needed for Register. A code leaves the live codes of one account only (`CodeGone`),
  and a token those sessions only (`SessionsBecome`).

`OtpIssueProofs`: `IssueTypeCorrect`, `AllowanceKept` and `CoolingBounded`, from
`IssueAssumption`, which asks for a finite, non-empty set of requests. Neither limit is
inductive. The request whose INCR read 1 passes later, at its EXPIRE, so `HitsOK`
adds that there is one such request per window at most, that the window has no TTL
before it (it cannot close and reopen meanwhile), and that one place of the
allowance is still free. For the cooldown `CoolingOK` counts the requests that are
past `CheckCooldown` and not yet at the INSERT: while a phone cools, the codes
committed since it was armed and those requests are fewer than all requests, because
the one that armed it is neither; nobody joins them before the cooldown ends.

`EventBusProofs`: `BusTypeCorrect`, `BusForgetsNothing` and
`BusImplementsDelivery`, from `BusAssumption` alone. The inductive invariant is
`TypeOK /\ NothingForgotten`: the type invariant says that a worker's batch is part
of what it was given and that an entry about to be acknowledged was handled, and
that is what makes the two other results inductive. There is a lemma per action,
which shows that the invariant is kept and that the action is a step of
`EventDelivery` or leaves its variables alone; `WorkerType` carries what the
workers' actions have in common. The step that needs an argument is `Read`: by
`EarliestIsPrefix` a batch leaves no entry behind that is older than one it takes,
so everything up to the group's new position is the reader's, older than the old
position, or trimmed. That entries are numbers of a finite stream is used there.

`JwksRotationProofs`: `JwksTypeCorrect`, `LiveTokensDecode`, `LiveTokensAccepted`
and `WithdrawnForgotten`, for any number of processes, verifications and keys and
any TTL, timeout and lifetime. The invariant (`KeysInv`) relates every ring in use,
held, written down or on its way in a document, to the settings: no process is older
than the oldest key in it, and no live access token either. What makes this
inductive is the wait before a retirement, which takes from the life of the older
keys' tokens what it adds to itself (`WaitOK`). A document, in the cache or on its
way, is a ring that some process held, and its age is bounded by what the exchange
and the cache add, which is why the order of answers does not matter.

`BackfillProofs`: `BackfillTypeCorrect`, `OnlyWhatMovedIsPassedOver`,
`CompleteWalks`, `CountedWalks`, for any finite set of accounts and any page size.
`created_at, id` is a strict total order, so ranks are distinct; a row that comes
up moves none to before the offset that is not counted in `behind`, and a departure
moves at most one. A page takes what lies between two offsets, and a short page
is followed by nothing. That those missed by a backfill are older than an account
received needs two more conjuncts: the pages before the offset were full
(`FullPages`), so a row that comes up among them pushes a later one out, and that
one was received, or came up in the same way and is itself older than one that
was (`BehindIsOlder`). `CountedWalks` counts the rows beyond the last page by an
injection into those that came up late.

`MigrationProofs`: `MigrationTypeCorrect`, `PhonesExclusive`, `RowsAccounted`,
`PassIsAtomic`, `ForecastsAreGood`. The invariant sorts the rows a pass has gone
through into the lists of its report, says what the table holds for each, and
keeps the phones of accounts, staged rows and staged registrations apart; that the
phone was looked up before is not used for that, since the constraint decides.

Only model-checked: liveness (`EveryRequestEnds`, `AtLeastOnce`, `EverybodyEnds`), for
which the prover has no rules under fairness, and what the violation runs refute.
Every invariant and every action property that a passing run checks is also stated by
a theorem.

Three hazards have no property, and say why in `hazards`: a demotion between
`require_admin` and the COMMIT it admitted (`AuthorityIsGranted` says that the signer
had been made admin, not that he still is one), an increment of `attempts` that gets
lost (the database does it in one UPDATE, and so does the model), and a profile left
in the cache by a failed invalidation (`CacheIsFresh` sets it aside).

## Not modelled

* The setting that turns the OTP cooldown off (used by tests).
* What a verifier reads in the claims once the signature is good, and a half
  configured rotation, with which a process refuses to start (`keys.py`).
* HTTP caches between a verifier and the service (`Cache-Control: public,
  max-age=3600`), which would add their age to a document's.
* Rounds of retries that only one caller decides on; two passes of the migration at
  once (an operator runs one); a multi-row INSERT of an import in `Backfill`, which
  takes its rows one at a time.
* What changes in DiddiGo after a pass has imported the account: nothing carries it
  over, so there is no behaviour to model.
* Formats, hashes, signatures, error bodies, logging, DDL, wiring, scripts.
* A Redis or PostgreSQL that loses acknowledged writes.

## Plan

Remaining, in this order:

1. Composition of `OtpIssue` with `SessionCommands`: several live codes of one
   phone, the oldest coming back when the newest is consumed.
2. `Backfill` composed with `EventBus`: a module that lost entries and walks.
3. Which overlaps each promise of `SerialSpec` can bear: a suspension beside a
   profile edit, say, but not beside a refresh.
