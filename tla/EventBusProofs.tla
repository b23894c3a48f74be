---------------------------- MODULE EventBusProofs ----------------------------
(***************************************************************************)
(* Theorems about EventBus, for any number of workers, stream length, batch*)
(* sizes, unreadable entries and crashes: it forgets no entry and it       *)
(* implements EventDelivery.  The invariant is TypeOK /\ NothingForgotten; *)
(* one lemma per action shows that it is kept and that the action is a     *)
(* step of EventDelivery or leaves its variables alone.                    *)
(***************************************************************************)
EXTENDS EventBus, FiniteSetTheorems, TLAPS

USE BusAssumption DEF BusAssumption

BusInv == TypeOK /\ NothingForgotten

\* What a step is to EventDelivery.
DeliveryStep == Delivery!DeliveryNext \/ UNCHANGED <<
  {stream[i] : i \in DOMAIN stream}, {handled[k] : k \in DOMAIN handled},
  {stream[i] : i \in acked}>>

-----------------------------------------------------------------------------
\* XREADGROUP COUNT n takes entries of S, and no entry before one it leaves.
LEMMA EarliestIsPrefix ==
  ASSUME NEW S, IsFiniteSet(S), S \subseteq Nat, NEW n \in Nat
  PROVE  /\ Earliest(S, n) \subseteq S
         /\ \A i \in Earliest(S, n), j \in S : j < i => j \in Earliest(S, n)
<1>1. Earliest(S, n) \subseteq S
  BY DEF Earliest
<1>2. ASSUME NEW i \in Earliest(S, n), NEW j \in S, j < i
      PROVE  j \in Earliest(S, n)
  <2> DEFINE Before(k) == {h \in S : h < k}
  <2>1. Before(j) \subseteq Before(i)
    <3>1. i \in Nat /\ j \in Nat
      BY <1>1
    <3>2. ASSUME NEW h \in S, h < j PROVE h < i
      BY <1>2, <3>1, <3>2
    <3> QED
      BY <3>2
  <2>2. IsFiniteSet(Before(i)) /\ IsFiniteSet(Before(j))
    BY FS_Subset
  <2>3. Cardinality(Before(j)) <= Cardinality(Before(i))
    BY <2>1, <2>2, FS_Subset
  <2>4. Cardinality(Before(i)) \in Nat /\ Cardinality(Before(j)) \in Nat
    BY <2>2, FS_CardinalityType
  <2>5. Cardinality(Before(i)) < n
    BY <1>2 DEF Earliest
  <2>6. Cardinality(Before(j)) < n
    BY <2>3, <2>4, <2>5
  <2> QED
    BY <2>6 DEF Earliest
<1> QED
  BY <1>1, <1>2

LEMMA WiderSeq == ASSUME NEW S, NEW T, S \subseteq T PROVE Seq(S) \subseteq Seq(T)
<1> SUFFICES ASSUME NEW s \in Seq(S) PROVE s \in Seq(T)
  OBVIOUS
<1>1. s \in [1..Len(s) -> S] /\ Len(s) \in Nat
  OBVIOUS
<1>2. s \in [1..Len(s) -> T]
  BY <1>1
<1> QED
  BY <1>1, <1>2

LEMMA InitBus == Init => BusInv /\ Delivery!DeliveryInit
  BY DEF Init, BusInv, TypeOK, NothingForgotten, Delivery!DeliveryInit, Down, WorkerState, NoGroup

-----------------------------------------------------------------------------
LEMMA CommitStep == BusInv /\ Commit => BusInv' /\ DeliveryStep
<1> SUFFICES ASSUME BusInv, Commit PROVE BusInv' /\ DeliveryStep
  OBVIOUS
<1> USE DEF BusInv, Commit
<1>1. TypeOK'
  <2>1. committed \in Nat /\ committed' \in 0..MaxEvents /\ 1..committed \subseteq 1..committed'
    BY DEF TypeOK
  <2>2. unpublished' \subseteq 1..committed'
    BY <2>1 DEF TypeOK
  <2>3. stream' \in Seq(1..committed') /\ handled' \in Seq(1..committed')
    BY <2>1, WiderSeq DEF TypeOK
  <2>4. \A i \in DOMAIN stream' : stream'[i] \notin unpublished'
    <3>1. ASSUME NEW i \in DOMAIN stream PROVE stream[i] \in 1..committed /\ stream[i] \notin unpublished
      BY DEF TypeOK
    <3> QED
      BY <2>1, <3>1
  <2> QED
    BY <2>1, <2>2, <2>3, <2>4 DEF TypeOK, Done
<1>2. NothingForgotten'
  BY DEF NothingForgotten
<1>3. DeliveryStep
  BY DEF DeliveryStep
<1> QED
  BY <1>1, <1>2, <1>3

LEMMA PublishStep == ASSUME NEW e \in unpublished
                     PROVE  BusInv /\ Publish(e) => BusInv' /\ DeliveryStep
<1> SUFFICES ASSUME BusInv, Publish(e) PROVE BusInv' /\ DeliveryStep
  OBVIOUS
<1> USE DEF BusInv, Publish
<1>1. e \in 1..committed /\ committed \in Nat /\ committed <= MaxEvents
  BY DEF TypeOK
<1>2. /\ stream \in Seq(1..committed)
      /\ Len(stream) \in Nat
      /\ stream' \in Seq(1..committed)
      /\ Len(stream') = Len(stream) + 1
      /\ DOMAIN stream = 1..Len(stream) /\ DOMAIN stream' = 1..Len(stream) + 1
      /\ \A i \in DOMAIN stream : stream'[i] = stream[i]
      /\ stream'[Len(stream) + 1] = e
  BY <1>1 DEF TypeOK
<1>3. trimmed \in 0..Len(stream) /\ trimmed' \in trimmed..Len(stream)
  BY <1>2 DEF TypeOK
<1>4. group \in {NoGroup} \cup 0..Len(stream) /\ group' = group /\ acked' = acked
      /\ acked \subseteq DOMAIN stream /\ \A w \in Workers : pending[w] \subseteq DOMAIN stream
  BY <1>2 DEF TypeOK, NoGroup
<1>5. TypeOK'
  <2>1. committed' \in 0..MaxEvents /\ unpublished' \subseteq 1..committed'
        /\ stream' \in Seq(1..committed')
    BY <1>1, <1>2 DEF TypeOK
  <2>2. \A i \in DOMAIN stream' : stream'[i] \notin unpublished'
    BY <1>2 DEF TypeOK
  <2>3. trimmed' \in 0..Len(stream') /\ group' \in {NoGroup} \cup 0..Len(stream')
    BY <1>2, <1>3, <1>4
  <2>4. pending' \in [Workers -> SUBSET (1..group')] /\ worker' \in [Workers -> WorkerState]
        /\ handled' \in Seq(1..committed') /\ acked' \subseteq 1..group'
        /\ crashes' \in 0..MaxCrashes
    BY DEF TypeOK
  <2>5. ASSUME NEW w \in Workers
        PROVE  /\ worker'[w].batch \subseteq pending'[w]
               /\ worker'[w].acking # 0 => worker'[w].acking \in worker'[w].batch
                                           /\ Done(stream[worker[w].acking])'
    <3>1. worker[w].acking # 0 => worker[w].acking \in DOMAIN stream
      BY <1>4 DEF TypeOK
    <3> QED
      BY <1>2, <3>1 DEF TypeOK, Done
  <2> QED
    BY <2>1, <2>2, <2>3, <2>4, <2>5 DEF TypeOK
<1>6. NothingForgotten'
  BY <1>2, <1>3, <1>4 DEF NothingForgotten, NoGroup
<1>7. Delivery!Send(e)
  <2>1. e \notin {stream[i] : i \in DOMAIN stream}
    BY DEF TypeOK
  <2>2. {stream'[i] : i \in DOMAIN stream'} = {stream[i] : i \in DOMAIN stream} \cup {e}
    BY <1>2
  <2>3. {stream'[i] : i \in acked'} = {stream[i] : i \in acked}
    BY <1>2, <1>4
  <2> QED
    BY <2>1, <2>2, <2>3 DEF Delivery!Send
<1>8. DeliveryStep
  BY <1>1, <1>7 DEF DeliveryStep, Delivery!DeliveryNext, TypeOK
<1> QED
  BY <1>5, <1>6, <1>8

LEMMA LosePublicationStep == ASSUME NEW e \in unpublished
                             PROVE  BusInv /\ LosePublication(e) => BusInv' /\ DeliveryStep
<1> SUFFICES ASSUME BusInv, LosePublication(e) PROVE BusInv' /\ DeliveryStep
  OBVIOUS
<1> USE DEF BusInv, LosePublication
<1>1. TypeOK'
  BY DEF TypeOK, Done
<1>2. NothingForgotten'
  BY DEF NothingForgotten
<1>3. DeliveryStep
  BY DEF DeliveryStep
<1> QED
  BY <1>1, <1>2, <1>3

-----------------------------------------------------------------------------
HandledSet == {handled[k] : k \in DOMAIN handled}

\* What the steps of a worker that leave the stream alone have in common: only the
\* bounds of the group, and the entry of w in pending and worker, need a proof.
LEMMA WorkerType ==
  ASSUME BusInv, UNCHANGED busVars, NEW w \in Workers,
         NEW new \in WorkerState, worker' = [worker EXCEPT ![w] = new],
         NEW own, pending' = [pending EXCEPT ![w] = own],
         group' \in {NoGroup} \cup 0..Len(stream),
         \A i \in Nat : i <= group => i <= group',
         own \subseteq 1..group', new.batch \subseteq own,
         new.pc # "reading" => new.batch = {},
         new.acking # 0 => new.acking \in new.batch,
         new.acking # 0 => stream[new.acking] \in HandledSet',
         HandledSet \subseteq HandledSet',
         handled' \in Seq(1..committed), crashes' \in 0..MaxCrashes,
         acked' \subseteq 1..group'
  PROVE  TypeOK'
<1> USE DEF BusInv, busVars
<1>1. /\ group \in {NoGroup} \cup 0..Len(stream) /\ Len(stream) \in Nat
      /\ pending \in [Workers -> SUBSET (1..group)] /\ worker \in [Workers -> WorkerState]
  BY DEF TypeOK
<1>2. 1..group \subseteq 1..group'
  BY <1>1 DEF NoGroup
<1>3. pending' \in [Workers -> SUBSET (1..group')]
  BY <1>1, <1>2
<1>5. worker' \in [Workers -> WorkerState]
  BY <1>1
<1>6. ASSUME NEW v \in Workers
      PROVE  /\ worker'[v].batch \subseteq pending'[v]
             /\ worker'[v].pc # "reading" => worker'[v].batch = {}
             /\ worker'[v].acking # 0 => worker'[v].acking \in worker'[v].batch
             /\ worker'[v].acking # 0 => stream[worker'[v].acking] \in HandledSet'
  <2>1. CASE v = w
    <3>1. worker'[v] = new /\ pending'[v] = own
      BY <1>1, <2>1
    <3> QED
      BY <3>1
  <2>2. CASE v # w
    <3>1. worker'[v] = worker[v] /\ pending'[v] = pending[v]
      BY <1>1, <2>2
    <3>2. /\ worker[v].batch \subseteq pending[v]
          /\ worker[v].pc # "reading" => worker[v].batch = {}
          /\ worker[v].acking # 0 => worker[v].acking \in worker[v].batch
          /\ worker[v].acking # 0 => stream[worker[v].acking] \in HandledSet
      BY DEF TypeOK, HandledSet, Done
    <3> QED
      BY <3>1, <3>2
  <2> QED
    BY <2>1, <2>2
<1>7. \A v \in Workers : worker'[v].acking # 0 => Done(stream[worker[v].acking])'
  BY <1>6 DEF Done, HandledSet
<1>8. /\ committed \in 0..MaxEvents /\ unpublished \subseteq 1..committed
      /\ stream \in Seq(1..committed) /\ \A i \in DOMAIN stream : stream[i] \notin unpublished
      /\ trimmed \in 0..Len(stream)
  BY DEF TypeOK
<1> QED
  BY <1>3, <1>5, <1>6, <1>7, <1>8 DEF TypeOK

\* A step that changes neither the stream nor what was handled or acknowledged.
LEMMA QuietDelivery == UNCHANGED <<stream, handled, acked>> => DeliveryStep
  BY DEF DeliveryStep

LEMMA EnsureGroupStep == ASSUME NEW w \in Workers
                         PROVE  BusInv /\ EnsureGroup(w) => BusInv' /\ DeliveryStep
<1> SUFFICES ASSUME BusInv, EnsureGroup(w) PROVE BusInv' /\ DeliveryStep
  OBVIOUS
<1> DEFINE new == [worker[w] EXCEPT !.pc = "started"]
<1>1. group \in {NoGroup} \cup 0..Len(stream) /\ Len(stream) \in Nat
      /\ pending \in [Workers -> SUBSET (1..group)] /\ worker \in [Workers -> WorkerState]
      /\ handled \in Seq(1..committed) /\ crashes \in 0..MaxCrashes
  BY DEF BusInv, TypeOK
<1>2. /\ worker' = [worker EXCEPT ![w] = new]
      /\ group' = IF group = NoGroup THEN 0 ELSE group
      /\ UNCHANGED busVars /\ UNCHANGED <<stream, pending, handled, acked, trimmed>>
      /\ crashes' = crashes
  BY <1>1 DEF EnsureGroup, busVars, WorkerState
<1>3. /\ group' \in {NoGroup} \cup 0..Len(stream)
      /\ \A i \in Nat : i <= group => i <= group'
      /\ \A i \in Nat \ {0} : i <= group' => i <= group
  BY <1>1, <1>2 DEF NoGroup
<1>4. worker[w].acking = 0 /\ worker[w].batch = {}
  BY <1>1 DEF BusInv, TypeOK, EnsureGroup
<1>5. new \in WorkerState /\ new.acking = 0 /\ new.batch = {}
  BY <1>1, <1>4 DEF WorkerState
<1>6. /\ pending' = [pending EXCEPT ![w] = pending[w]] /\ pending[w] \subseteq 1..group'
      /\ acked' \subseteq 1..group'
  BY <1>1, <1>2, <1>3 DEF NoGroup, BusInv, TypeOK
<1>7. HandledSet' = HandledSet
  BY <1>2 DEF HandledSet
<1>8. TypeOK'
  BY <1>1, <1>2, <1>3, <1>5, <1>6, <1>7, WorkerType
<1>9. NothingForgotten'
  BY <1>1, <1>2, <1>3 DEF BusInv, NothingForgotten, NoGroup
<1> QED
  BY <1>2, <1>8, <1>9, QuietDelivery DEF BusInv

LEMMA ReadPendingStep == ASSUME NEW w \in Workers
                         PROVE  BusInv /\ ReadPending(w) => BusInv' /\ DeliveryStep
<1> SUFFICES ASSUME BusInv, ReadPending(w) PROVE BusInv' /\ DeliveryStep
  OBVIOUS
<1> DEFINE old == Decoded(Earliest(GivenTo(w), PendingCount))
           new == [worker[w] EXCEPT !.pc = "reading", !.batch = old]
<1>1. group \in {NoGroup} \cup 0..Len(stream)
      /\ pending \in [Workers -> SUBSET (1..group)] /\ worker \in [Workers -> WorkerState]
      /\ handled \in Seq(1..committed) /\ crashes \in 0..MaxCrashes
  BY DEF BusInv, TypeOK
<1>2. /\ worker' = [worker EXCEPT ![w] = new]
      /\ UNCHANGED busVars /\ UNCHANGED <<stream, group, pending, handled, acked, trimmed>>
      /\ crashes' = crashes
  BY <1>1 DEF ReadPending, busVars, WorkerState
<1>3. old \subseteq pending[w] /\ pending[w] \subseteq 1..group /\ old \subseteq Nat
  BY <1>1 DEF Decoded, Earliest, GivenTo
<1>4. worker[w].acking = 0
  BY <1>1 DEF BusInv, TypeOK, ReadPending
<1>5. new \in WorkerState /\ new.acking = 0 /\ new.batch = old /\ new.pc = "reading"
  BY <1>1, <1>3, <1>4 DEF WorkerState
<1>6. /\ pending' = [pending EXCEPT ![w] = pending[w]] /\ HandledSet' = HandledSet
      /\ acked' \subseteq 1..group'
  BY <1>1, <1>2 DEF HandledSet, BusInv, TypeOK
<1> HIDE DEF new, old
<1>7. TypeOK'
  BY <1>1, <1>2, <1>3, <1>5, <1>6, WorkerType
<1>8. NothingForgotten'
  BY <1>2 DEF BusInv, NothingForgotten
<1> QED
  BY <1>2, <1>7, <1>8, QuietDelivery DEF BusInv

LEMMA ReadStep == ASSUME NEW w \in Workers
                  PROVE  BusInv /\ Read(w) => BusInv' /\ DeliveryStep
<1> SUFFICES ASSUME BusInv, Read(w) PROVE BusInv' /\ DeliveryStep
  OBVIOUS
<1> DEFINE fresh == Earliest(Undelivered, ReadCount)
           new == [worker[w] EXCEPT !.batch = Decoded(fresh)]
<1>1. group \in {NoGroup} \cup 0..Len(stream) /\ Len(stream) \in Nat /\ trimmed \in Nat
      /\ pending \in [Workers -> SUBSET (1..group)] /\ worker \in [Workers -> WorkerState]
      /\ handled \in Seq(1..committed) /\ crashes \in 0..MaxCrashes /\ acked \subseteq 1..group
      /\ DOMAIN stream = 1..Len(stream)
  BY DEF BusInv, TypeOK
<1>2. /\ worker' = [worker EXCEPT ![w] = new]
      /\ pending' = [pending EXCEPT ![w] = pending[w] \cup fresh]
      /\ group' \in fresh /\ \A i \in fresh : i <= group'
      /\ UNCHANGED busVars /\ UNCHANGED <<stream, handled, acked, trimmed>>
      /\ crashes' = crashes
      /\ worker[w].pc = "reading" /\ worker[w].batch = {}
  BY <1>1 DEF Read, busVars, WorkerState
<1>3. Undelivered \subseteq 1..Len(stream) /\ IsFiniteSet(Undelivered) /\ Undelivered \subseteq Nat
  <2>1. Undelivered \subseteq 1..Len(stream)
    BY <1>1 DEF Undelivered
  <2>2. IsFiniteSet(1..Len(stream))
    BY <1>1, FS_Interval
  <2>3. IsFiniteSet(Undelivered)
    BY <2>1, <2>2, FS_Subset
  <2>4. 1..Len(stream) \subseteq Nat
    OBVIOUS
  <2> QED
    BY <2>1, <2>3, <2>4
<1>4. fresh \subseteq Undelivered /\ \A i \in fresh, j \in Undelivered : j < i => j \in fresh
  BY <1>3, EarliestIsPrefix
<1> HIDE DEF fresh
<1>5. group' \in 1..Len(stream) /\ group < group' /\ group \in Int
      /\ \A i \in Nat : i <= group => i <= group'
  BY <1>1, <1>2, <1>3, <1>4 DEF Undelivered, NoGroup
<1>6. fresh \subseteq 1..group' /\ pending[w] \subseteq 1..group'
      /\ \A i \in fresh : i > group
  BY <1>1, <1>2, <1>3, <1>4, <1>5 DEF Undelivered
<1>7. worker[w].acking = 0
  BY <1>1, <1>2 DEF BusInv, TypeOK
<1>8. Decoded(fresh) \subseteq fresh /\ Decoded(fresh) \subseteq Nat
  BY <1>3, <1>4 DEF Decoded
<1>9. new \in WorkerState /\ new.acking = 0 /\ new.batch = Decoded(fresh) /\ new.pc = "reading"
  BY <1>1, <1>2, <1>7, <1>8 DEF WorkerState
<1>10. HandledSet' = HandledSet
  BY <1>2 DEF HandledSet
<1> HIDE DEF new
<1>11. TypeOK'
  <2> DEFINE own == pending[w] \cup fresh
  <2>1. own \subseteq 1..group' /\ new.batch \subseteq own /\ pending' = [pending EXCEPT ![w] = own]
    BY <1>2, <1>6, <1>8, <1>9
  <2>2. group' \in {NoGroup} \cup 0..Len(stream) /\ acked' \subseteq 1..group'
    BY <1>1, <1>2, <1>5
  <2> HIDE DEF own
  <2> QED
    BY <1>1, <1>2, <1>5, <1>9, <1>10, <2>1, <2>2, WorkerType
<1>12. NothingForgotten'
  <2>1. ASSUME NEW i \in 1..group'
        PROVE  i \in acked \/ i <= trimmed \/ \E v \in Workers : i \in pending'[v]
    <3>1. CASE i <= group
      <4>1. i \in 1..group
        BY <1>5, <3>1
      <4>2. \A v \in Workers : pending[v] \subseteq pending'[v]
        BY <1>1, <1>2
      <4> QED
        BY <4>1, <4>2 DEF BusInv, NothingForgotten
    <3>2. CASE i > group /\ i > trimmed
      <4>1. i \in Undelivered
        BY <1>1, <1>5, <3>2 DEF Undelivered
      <4>2. i \in fresh
        BY <1>2, <1>4, <1>5, <4>1
      <4> QED
        BY <1>1, <1>2, <4>2
    <3> QED
      BY <1>1, <1>5, <3>1, <3>2
  <2>2. ASSUME NEW v \in Workers PROVE pending'[v] \cap acked = {}
    <3>1. fresh \cap acked = {}
      BY <1>1, <1>5, <1>6
    <3>2. pending'[v] \subseteq pending[v] \cup fresh
      BY <1>1, <1>2
    <3> QED
      BY <3>1, <3>2 DEF BusInv, NothingForgotten
  <2>3. ASSUME NEW u \in Workers, NEW v \in Workers, u # v
        PROVE  pending'[u] \cap pending'[v] = {}
    <3>1. pending[u] \cap pending[v] = {}
      BY <2>3 DEF BusInv, NothingForgotten
    <3>2. \A x \in Workers : pending[x] \cap fresh = {}
      BY <1>1, <1>5, <1>6
    <3>3. \/ pending'[u] = pending[u] /\ pending'[v] \subseteq pending[v] \cup fresh
          \/ pending'[v] = pending[v] /\ pending'[u] \subseteq pending[u] \cup fresh
      BY <1>1, <1>2, <2>3
    <3> QED
      BY <3>1, <3>2, <3>3
  <2> QED
    BY <1>2, <2>1, <2>2, <2>3 DEF NothingForgotten
<1> QED
  BY <1>2, <1>11, <1>12, QuietDelivery DEF BusInv

LEMMA HandleStep == ASSUME NEW w \in Workers
                    PROVE  BusInv /\ Handle(w) => BusInv' /\ DeliveryStep
<1> SUFFICES ASSUME BusInv, Handle(w) PROVE BusInv' /\ DeliveryStep
  OBVIOUS
<1>1. PICK i \in worker[w].batch :
         /\ handled' = IF Done(stream[i]) THEN handled ELSE Append(handled, stream[i])
         /\ worker' = [worker EXCEPT ![w].acking = i]
  BY DEF Handle
<1> DEFINE new == [worker[w] EXCEPT !.acking = i]
           e == stream[i]
<1>2. /\ group \in {NoGroup} \cup 0..Len(stream) /\ Len(stream) \in Nat
      /\ pending \in [Workers -> SUBSET (1..group)] /\ worker \in [Workers -> WorkerState]
      /\ handled \in Seq(1..committed) /\ crashes \in 0..MaxCrashes
      /\ stream \in Seq(1..committed) /\ committed \in 0..MaxEvents
      /\ worker[w].batch \subseteq pending[w] /\ (worker[w].pc # "reading" => worker[w].batch = {})
  BY DEF BusInv, TypeOK
<1>3. /\ worker' = [worker EXCEPT ![w] = new]
      /\ UNCHANGED busVars /\ UNCHANGED <<stream, group, pending, acked, trimmed>>
      /\ crashes' = crashes
  BY <1>1, <1>2 DEF Handle, busVars, WorkerState
<1>4. i \in 1..group /\ i \in DOMAIN stream /\ i \in Nat /\ e \in 1..committed
  <2>1. i \in 1..group
    BY <1>2
  <2>2. i \in 1..Len(stream)
    BY <1>2, <2>1 DEF NoGroup
  <2> QED
    BY <1>2, <2>1, <2>2
<1>5. handled' \in Seq(1..committed) /\ HandledSet' = HandledSet \cup {e}
  <2>1. CASE Done(e)
    BY <1>1, <1>2, <2>1 DEF Done, HandledSet
  <2>2. CASE ~Done(e)
    <3>1. handled' = Append(handled, e)
      BY <1>1, <2>2
    <3>2. /\ handled' \in Seq(1..committed) /\ Len(handled) \in Nat
          /\ DOMAIN handled = 1..Len(handled) /\ DOMAIN handled' = 1..Len(handled) + 1
          /\ \A k \in DOMAIN handled : handled'[k] = handled[k]
          /\ handled'[Len(handled) + 1] = e
      BY <1>2, <1>4, <3>1
    <3> HIDE DEF e
    <3> QED
      BY <3>2 DEF HandledSet
  <2> QED
    BY <2>1, <2>2
<1>6. /\ new \in WorkerState /\ new.acking = i /\ new.batch = worker[w].batch
      /\ new.pc = worker[w].pc
  BY <1>2, <1>4 DEF WorkerState
<1>7. pending' = [pending EXCEPT ![w] = pending[w]] /\ pending[w] \subseteq 1..group
  BY <1>2, <1>3
<1> HIDE DEF new
<1>8. TypeOK'
  <2>1. group' \in {NoGroup} \cup 0..Len(stream) /\ group' = group /\ acked' \subseteq 1..group'
    BY <1>2, <1>3 DEF BusInv, TypeOK
  <2>2. stream[new.acking] \in HandledSet' /\ HandledSet \subseteq HandledSet'
    BY <1>5, <1>6
  <2>3. /\ new.acking \in new.batch /\ new.batch \subseteq pending[w]
        /\ new.pc # "reading" => new.batch = {}
    BY <1>2, <1>6
  <2>4. handled' \in Seq(1..committed) /\ crashes' \in 0..MaxCrashes
    BY <1>2, <1>3, <1>5
  <2> HIDE DEF e
  <2> QED
    BY <1>3, <1>6, <1>7, <2>1, <2>2, <2>3, <2>4, WorkerType
<1>9. NothingForgotten'
  BY <1>3 DEF BusInv, NothingForgotten
<1>10. DeliveryStep
  <2>1. PICK x \in 1..MaxEvents : x = e
    BY <1>2, <1>4
  <2>2. x \in {stream[j] : j \in DOMAIN stream}
    BY <1>4, <2>1
  <2>3. Delivery!Deliver(x)
    BY <1>3, <1>5, <2>1, <2>2 DEF Delivery!Deliver, HandledSet
  <2> QED
    BY <2>3 DEF DeliveryStep, Delivery!DeliveryNext
<1> QED
  BY <1>8, <1>9, <1>10 DEF BusInv

LEMMA AckStep == ASSUME NEW w \in Workers
                 PROVE  BusInv /\ Ack(w) => BusInv' /\ DeliveryStep
<1> SUFFICES ASSUME BusInv, Ack(w) PROVE BusInv' /\ DeliveryStep
  OBVIOUS
<1> DEFINE i == worker[w].acking
           e == stream[i]
           own == pending[w] \ {i}
           new == [worker[w] EXCEPT !.batch = worker[w].batch \ {i}, !.acking = 0]
<1>1. /\ group \in {NoGroup} \cup 0..Len(stream) /\ Len(stream) \in Nat
      /\ pending \in [Workers -> SUBSET (1..group)] /\ worker \in [Workers -> WorkerState]
      /\ handled \in Seq(1..committed) /\ crashes \in 0..MaxCrashes
      /\ stream \in Seq(1..committed) /\ committed \in 0..MaxEvents /\ acked \subseteq 1..group
      /\ worker[w].batch \subseteq pending[w] /\ (worker[w].pc # "reading" => worker[w].batch = {})
  BY DEF BusInv, TypeOK
<1>2. i # 0 /\ i \in worker[w].batch /\ Done(e)
  BY DEF BusInv, TypeOK, Ack
<1>3. /\ worker' = [worker EXCEPT ![w] = new]
      /\ pending' = [pending EXCEPT ![w] = own]
      /\ acked' = acked \cup {i}
      /\ UNCHANGED busVars /\ UNCHANGED <<stream, group, handled, trimmed>>
      /\ crashes' = crashes
  BY <1>1 DEF Ack, Acknowledge, busVars, WorkerState
<1>4. i \in pending[w] /\ i \in 1..group /\ i \in DOMAIN stream /\ e \in 1..committed
  BY <1>1, <1>2 DEF NoGroup
<1>5. /\ new \in WorkerState /\ new.acking = 0 /\ new.batch = worker[w].batch \ {i}
      /\ new.pc = worker[w].pc
  BY <1>1 DEF WorkerState
<1>6. own \subseteq 1..group /\ new.batch \subseteq own /\ HandledSet' = HandledSet
  BY <1>1, <1>3, <1>5 DEF HandledSet
<1>7. acked' \subseteq 1..group'
  BY <1>1, <1>3, <1>4
<1> HIDE DEF new
<1>8. TypeOK'
  <2>1. group' \in {NoGroup} \cup 0..Len(stream) /\ group' = group
        /\ handled' \in Seq(1..committed) /\ crashes' \in 0..MaxCrashes
    BY <1>1, <1>3
  <2>2. new.pc # "reading" => new.batch = {}
    BY <1>1, <1>5
  <2> HIDE DEF own
  <2> QED
    BY <1>3, <1>5, <1>6, <1>7, <2>1, <2>2, WorkerType
<1>9. NothingForgotten'
  <2>1. /\ \A v \in Workers : pending'[v] \subseteq pending[v] /\ i \notin pending'[w]
        /\ \A v \in Workers : \A j \in pending[v] : j # i => j \in pending'[v]
    BY <1>1, <1>3
  <2>2. \A v \in Workers : i \notin pending'[v]
    BY <1>4, <2>1 DEF BusInv, NothingForgotten
  <2> HIDE DEF i, own
  <2>3. \A v \in Workers : pending'[v] \cap acked' = {}
    BY <1>3, <2>1, <2>2 DEF BusInv, NothingForgotten
  <2>4. \A j \in 1..group : j \in acked' \/ j <= trimmed \/ \E v \in Workers : j \in pending'[v]
    BY <1>3, <2>1 DEF BusInv, NothingForgotten
  <2>5. \A u, v \in Workers : u # v => pending'[u] \cap pending'[v] = {}
    BY <2>1 DEF BusInv, NothingForgotten
  <2> QED
    BY <1>3, <2>3, <2>4, <2>5 DEF NothingForgotten
<1>10. DeliveryStep
  <2>1. PICK x \in 1..MaxEvents : x = e
    BY <1>1, <1>4
  <2>2. x \in {handled[k] : k \in DOMAIN handled}
    BY <1>2, <2>1 DEF Done
  <2>3. {stream[j] : j \in acked'} = {stream[j] : j \in acked} \cup {x}
    BY <1>3, <2>1
  <2>4. Delivery!Settle(x)
    BY <1>3, <2>2, <2>3 DEF Delivery!Settle
  <2> QED
    BY <2>4 DEF DeliveryStep, Delivery!DeliveryNext
<1> QED
  BY <1>8, <1>9, <1>10 DEF BusInv

LEMMA DieStep == ASSUME NEW w \in Workers
                 PROVE  BusInv /\ Die(w) => BusInv' /\ DeliveryStep
<1> SUFFICES ASSUME BusInv, Die(w) PROVE BusInv' /\ DeliveryStep
  OBVIOUS
<1>1. /\ group \in {NoGroup} \cup 0..Len(stream)
      /\ pending \in [Workers -> SUBSET (1..group)]
      /\ handled \in Seq(1..committed) /\ crashes \in 0..MaxCrashes
  BY DEF BusInv, TypeOK
<1>2. /\ worker' = [worker EXCEPT ![w] = Down]
      /\ UNCHANGED busVars /\ UNCHANGED <<stream, group, pending, handled, acked, trimmed>>
      /\ crashes' \in 0..MaxCrashes
  BY <1>1 DEF Die, busVars
<1>3. Down \in WorkerState /\ Down.acking = 0 /\ Down.batch = {}
  BY DEF Down, WorkerState
<1>4. /\ pending' = [pending EXCEPT ![w] = pending[w]] /\ HandledSet' = HandledSet
      /\ pending[w] \subseteq 1..group' /\ acked' \subseteq 1..group'
      /\ group' \in {NoGroup} \cup 0..Len(stream) /\ group' = group
      /\ handled' \in Seq(1..committed)
  BY <1>1, <1>2 DEF HandledSet, BusInv, TypeOK
<1>5. TypeOK'
  BY <1>2, <1>3, <1>4, WorkerType
<1>6. NothingForgotten'
  BY <1>2 DEF BusInv, NothingForgotten
<1> QED
  BY <1>2, <1>5, <1>6, QuietDelivery DEF BusInv

-----------------------------------------------------------------------------
LEMMA NextBus == BusInv /\ [Next]_vars => BusInv' /\ DeliveryStep
<1> SUFFICES ASSUME BusInv, [Next]_vars PROVE BusInv' /\ DeliveryStep
  OBVIOUS
<1>1. CASE Commit
  BY <1>1, CommitStep
<1>2. CASE \E e \in unpublished : Publish(e) \/ LosePublication(e)
  BY <1>2, PublishStep, LosePublicationStep
<1>3. CASE \E w \in Workers : WorkerStep(w) \/ Die(w)
  BY <1>3, EnsureGroupStep, ReadPendingStep, ReadStep, HandleStep, AckStep, DieStep
  DEF WorkerStep
<1>4. CASE UNCHANGED vars
  <2>1. BusInv'
    BY <1>4 DEF vars, BusInv, TypeOK, NothingForgotten, Done
  <2> QED
    BY <1>4, <2>1, QuietDelivery DEF vars
<1> QED
  BY <1>1, <1>2, <1>3, <1>4 DEF Next

LEMMA BusInvariant == Spec => []BusInv
<1>1. Init => BusInv
  BY InitBus
<1>2. BusInv /\ [Next]_vars => BusInv'
  BY NextBus
<1> QED
  BY <1>1, <1>2, PTL DEF Spec

\* What the group and its workers hold fits together (bus.py): in particular a worker
\* acknowledges only what it was given and has handled.
THEOREM BusTypeCorrect == Spec => []TypeOK
  BY BusInvariant, PTL DEF BusInv

\* "An entry stays pending until the module acknowledges it" (bus.py), whoever dies and
\* whatever is trimmed: no entry the group has gone past is neither acknowledged, nor
\* pending with a worker, nor trimmed.
THEOREM BusForgetsNothing == Spec => []NothingForgotten
  BY BusInvariant, PTL DEF BusInv

\* The bus implements at-least-once delivery (the safety part of it): each step of it is
\* a step of EventDelivery or changes nothing that module knows of.
THEOREM BusImplementsDelivery == Spec => ImplementsDelivery
<1>1. Init => Delivery!DeliveryInit
  BY InitBus
<1>2. BusInv /\ [Next]_vars => DeliveryStep
  BY NextBus
<1> QED
  BY <1>1, <1>2, BusInvariant, PTL DEF Spec, ImplementsDelivery, Delivery!DeliverySpec, DeliveryStep
=============================================================================
