------------------------------- MODULE EventBus -------------------------------
(***************************************************************************)
(* The event bus (shared_kernel/events/bus.py): commands that publish what *)
(* they committed, one Redis stream of bounded length, and the workers of  *)
(* one subscribing module, which read it through a consumer group.         *)
(*                                                                         *)
(* An event is the number of its commit, an entry its place in the stream. *)
(* The stream and the group are Redis's, modelled from the calls bus.py    *)
(* makes: XADD MAXLEN ~, XGROUP CREATE, XREADGROUP and XACK.               *)
(***************************************************************************)
EXTENDS Integers, Sequences, FiniteSets

CONSTANTS
  Workers,          \* consumers of the group, each with a name of its own
  MaxLen,           \* STREAM_MAX_LEN
  ReadCount,        \* entries one read() asks for
  PendingCount,     \* entries one read_pending() asks for
  InFlight,         \* how many commands may be between COMMIT and publish at once
  Unreadable,       \* entries whose payload _decode() cannot parse
  MaxEvents,        \* bound: how many events are committed in all
  MaxCrashes,       \* bound: how often a worker dies
  PublishFails      \* may an XADD fail (and be swallowed)?

ASSUME BusAssumption ==
  /\ MaxLen \in Nat \ {0}
  /\ ReadCount \in Nat \ {0}
  /\ PendingCount \in Nat \ {0}
  /\ InFlight \in Nat \ {0}
  /\ MaxEvents \in Nat
  /\ MaxCrashes \in Nat
  /\ Unreadable \subseteq Nat
  /\ PublishFails \in BOOLEAN

VARIABLES
  committed,        \* commits so far that have an event to publish
  unpublished,      \* those whose command has not called publish() yet
  stream,           \* every entry ever added: its event
  trimmed,          \* entries 1..trimmed are gone
  group,            \* last entry delivered to the group; NoGroup before it exists
  pending,          \* entries delivered to each worker and not acknowledged
  worker,           \* what each worker is doing, with which entries, oldest first
  handled,          \* events in the order they were first handled (the module's state)
  acked,            \* history: entries acknowledged
  crashes

vars == <<committed, unpublished, stream, trimmed, group, pending, worker, handled, acked, crashes>>
busVars == <<committed, unpublished, stream, trimmed>>

NoGroup == -1

\* batch: the entries fetched and not finished with; acking: the one of them that is
\* handled and not acknowledged yet, 0 if none.
Down == [pc |-> "down", batch |-> {}, acking |-> 0]
WorkerState == [pc: {"down", "started", "reading"}, batch: SUBSET Nat, acking: Nat]

Init ==
  /\ committed = 0
  /\ unpublished = {}
  /\ stream = << >>
  /\ trimmed = 0
  /\ group = NoGroup
  /\ pending = [w \in Workers |-> {}]
  /\ worker = [w \in Workers |-> Down]
  /\ handled = << >>
  /\ acked = {}
  /\ crashes = 0

-----------------------------------------------------------------------------
(* Publishing.                                                             *)

\* A command commits; it will publish after that (and after the cache).
Commit ==
  /\ committed < MaxEvents
  /\ Cardinality(unpublished) < InFlight
  /\ committed' = committed + 1
  /\ unpublished' = unpublished \cup {committed + 1}
  /\ UNCHANGED <<stream, trimmed, group, pending, worker, handled, acked, crashes>>

\* XADD MAXLEN ~: whole blocks of old entries go, and MaxLen entries stay at least.
Publish(e) ==
  /\ e \in unpublished
  /\ unpublished' = unpublished \ {e}
  /\ stream' = Append(stream, e)
  /\ trimmed' \in {trimmed} \cup {t \in trimmed..Len(stream) : t <= Len(stream) + 1 - MaxLen}
  /\ UNCHANGED <<committed, group, pending, worker, handled, acked, crashes>>

\* The XADD fails, or the command is lost before it: no event, and no one is told.
LosePublication(e) ==
  /\ PublishFails
  /\ e \in unpublished
  /\ unpublished' = unpublished \ {e}
  /\ UNCHANGED <<committed, stream, trimmed, group, pending, worker, handled, acked, crashes>>

-----------------------------------------------------------------------------
(* Consuming.                                                              *)

Done(e) == \E k \in DOMAIN handled : handled[k] = e

Earliest(S, n) == {i \in S : Cardinality({j \in S : j < i}) < n}

\* _decode() leaves out an entry it cannot parse; of one that was trimmed while it
\* was pending, XREADGROUP gives the id without the fields.
Decoded(S) == {i \in S : i > trimmed /\ i \notin Unreadable}

\* Mutant: the group starts at the tail.
EnsureGroupAtTail(w) ==
  /\ worker[w].pc = "down"
  /\ group' = IF group = NoGroup THEN Len(stream) ELSE group
  /\ worker' = [worker EXCEPT ![w].pc = "started"]
  /\ UNCHANGED <<busVars, pending, handled, acked, crashes>>

\* ensure_group(from_beginning=True), which every start calls: BUSYGROUP is ignored.
EnsureGroup(w) ==
  /\ worker[w].pc = "down"
  /\ group' = IF group = NoGroup THEN 0 ELSE group
  /\ worker' = [worker EXCEPT ![w].pc = "started"]
  /\ UNCHANGED <<busVars, pending, handled, acked, crashes>>

\* Mutant: straight on to what is new.
SkipPending(w) ==
  /\ worker[w].pc = "started"
  /\ worker' = [worker EXCEPT ![w].pc = "reading"]
  /\ UNCHANGED <<busVars, group, pending, handled, acked, crashes>>

\* Mutant: what any worker of the group left pending.
GivenToAnyone(w) == UNION {pending[v] : v \in Workers}

GivenTo(w) == pending[w]

\* read_pending(): once per start, what this worker was given and did not finish.
ReadPending(w) ==
  /\ worker[w].pc = "started"
  /\ worker' = [worker EXCEPT ![w].pc = "reading",
                              ![w].batch = Decoded(Earliest(GivenTo(w), PendingCount))]
  /\ UNCHANGED <<busVars, group, pending, handled, acked, crashes>>

Undelivered == {i \in DOMAIN stream : i > group /\ i > trimmed}

\* read(), the batch before it being finished: entries no worker was given.
Read(w) ==
  LET new == Earliest(Undelivered, ReadCount)
  IN  /\ worker[w].pc = "reading"
      /\ worker[w].batch = {}
      /\ new # {}
      /\ group' \in new /\ \A i \in new : i <= group'
      /\ pending' = [pending EXCEPT ![w] = @ \cup new]
      /\ worker' = [worker EXCEPT ![w].batch = Decoded(new)]
      /\ UNCHANGED <<busVars, handled, acked, crashes>>

\* The module's handler, idempotent as the bus asks of it, on the oldest entry.
Handle(w) ==
  /\ worker[w].acking = 0
  /\ \E i \in worker[w].batch :
       /\ \A j \in worker[w].batch : i <= j
       /\ handled' = IF Done(stream[i]) THEN handled ELSE Append(handled, stream[i])
       /\ worker' = [worker EXCEPT ![w].acking = i]
  /\ UNCHANGED <<busVars, group, pending, acked, crashes>>

Acknowledge(w, i) ==
  /\ pending' = [pending EXCEPT ![w] = @ \ {i}]
  /\ acked' = acked \cup {i}
  /\ worker' = [worker EXCEPT ![w].batch = @ \ {i}, ![w].acking = 0]
  /\ UNCHANGED <<busVars, group, handled, crashes>>

\* Mutant: acknowledged on receipt.
AckAtOnce(w) == \E i \in worker[w].batch : Acknowledge(w, i)

\* ack(), after handling.
Ack(w) == worker[w].acking # 0 /\ Acknowledge(w, worker[w].acking)

\* The worker dies, or its handler raises; Redis keeps what it was given.
Die(w) ==
  /\ crashes < MaxCrashes
  /\ worker[w].pc # "down"
  /\ crashes' = crashes + 1
  /\ worker' = [worker EXCEPT ![w] = Down]
  /\ UNCHANGED <<busVars, group, pending, handled, acked>>

WorkerStep(w) == EnsureGroup(w) \/ ReadPending(w) \/ Read(w) \/ Handle(w) \/ Ack(w)

Next ==
  \/ Commit
  \/ \E e \in unpublished : Publish(e) \/ LosePublication(e)
  \/ \E w \in Workers : WorkerStep(w) \/ Die(w)

Spec == Init /\ [][Next]_vars

\* A worker that died is started again, and its loop goes on: "after a restart,
\* finish what was delivered but never acknowledged".
FairSpec == Spec /\ \A w \in Workers : WF_vars(WorkerStep(w))

-----------------------------------------------------------------------------
\* Redis's state and the workers' fit together: an event is in the stream or still
\* to be published, what is pending was delivered, a worker works on entries it
\* was given, and one that is about to acknowledge an entry has handled it.
TypeOK ==
  /\ committed \in 0..MaxEvents
  /\ unpublished \subseteq 1..committed
  /\ stream \in Seq(1..committed)
  /\ \A i \in DOMAIN stream : stream[i] \notin unpublished
  /\ trimmed \in 0..Len(stream)
  /\ group \in {NoGroup} \cup 0..Len(stream)
  /\ pending \in [Workers -> SUBSET (1..group)]
  /\ worker \in [Workers -> WorkerState]
  /\ handled \in Seq(1..committed)
  /\ acked \subseteq 1..group
  /\ crashes \in 0..MaxCrashes
  /\ \A w \in Workers :
       /\ worker[w].batch \subseteq pending[w]
       /\ worker[w].pc # "reading" => worker[w].batch = {}
       /\ worker[w].acking # 0 => worker[w].acking \in worker[w].batch
                                  /\ Done(stream[worker[w].acking])

\* "An entry stays pending until the module acknowledges it" (bus.py): every entry the
\* group has gone past is acknowledged, pending with exactly one worker, or was
\* trimmed; never acknowledged and pending at once.
NothingForgotten ==
  /\ \A i \in 1..group :
       i \in acked \/ i <= trimmed \/ \E w \in Workers : i \in pending[w]
  /\ \A w \in Workers : pending[w] \cap acked = {}
  /\ \A v, w \in Workers : v # w => pending[v] \cap pending[w] = {}

Delivery == INSTANCE EventDelivery
  WITH Events <- 1..MaxEvents,
       sent <- {stream[i] : i \in DOMAIN stream},
       handled <- {handled[k] : k \in DOMAIN handled},
       settled <- {stream[i] : i \in acked}

\* The bus implements at-least-once delivery: nothing is handled that was not
\* published, nor acknowledged that was not handled.
ImplementsDelivery == Delivery!DeliverySpec

Dead(w) == pending[w] \ Decoded(pending[w])

\* An entry that is never handled: trimmed first, unreadable, or given to a worker
\* that has too many unreadable and trimmed entries pending for read_pending()
\* to reach what is behind them.
WrittenOff(i) ==
  \/ i <= trimmed
  \/ i \in Unreadable
  \/ \E w \in Workers : i \in pending[w] /\ Cardinality(Dead(w)) > PendingCount - ReadCount

\* A worker that dies in the middle of handling gets the event again: every other
\* entry is handled, whoever dies and whenever.
AtLeastOnce ==
  \A i \in 1..MaxEvents :
    i \in DOMAIN stream ~> (i \in DOMAIN stream /\ Done(stream[i])) \/ WrittenOff(i)

\* "One stream for every event type, so a user's role_changed can never be delivered
\* after the suspended that followed it" (bus.py): events are handled in the order
\* of their commits.
HandledInCommitOrder == \A j, k \in DOMAIN handled : j < k => handled[j] < handled[k]
=============================================================================
