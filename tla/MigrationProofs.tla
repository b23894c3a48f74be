-------------------------- MODULE MigrationProofs --------------------------
(***************************************************************************)
(* The safety properties of Migration, for any rows of DiddiGo, any number *)
(* of registrations beside the pass, and passes lost anywhere.             *)
(*                                                                         *)
(* The argument follows one row through a pass: it is still to come, or it *)
(* is the one in hand, or it is in one of the lists of the report, and     *)
(* each list says something of the table that stays true (Sorted).  What   *)
(* holds a phone keeps others from getting it (Exclusive): between the     *)
(* SELECT that finds a phone free and the INSERT, only the constraint      *)
(* does.  While a forecast holds, it names the rows that are Fresh.        *)
(***************************************************************************)
EXTENDS Migration, TLAPS

InHand == pc \in {"absent", "free"}

(* Each row of the pass is in one place. *)
Placed ==
    /\ pc # "idle" => \A i \in DiddiGo :
          \/ i \in todo \/ (InHand /\ i = row)
          \/ i \in migrated \union existing \union taken \union unknown
    /\ pc = "done" => todo = {}
    /\ migrated \intersect todo = {}
    /\ InHand => row \notin todo /\ row \notin migrated

(* What the report says of a row is so, and stays so. *)
Sorted ==
    /\ InHand => rows[row].known /\ users[row] = NoPhone
    /\ \A i \in existing : users[i] # NoPhone
    /\ \A i \in unknown : ~rows[i].known
    /\ \A i \in taken : \E j \in Id \ {i} :
          \/ users[j] = rows[i].phone
          \/ j \in Staged /\ rows[j].phone = rows[i].phone
    /\ \A i \in migrated :
          /\ rows[i].known
          /\ pc \in Walking => users[i] = NoPhone
          /\ pc = "done" /\ ~dry => users[i] = rows[i].phone

(* The pass does not insert a phone twice, nor one that is held. *)
Exclusive ==
    /\ pc = "free" => \A j \in Staged : rows[j].phone # rows[row].phone
    /\ PhonesAreExclusive

(* What a pass would migrate if nothing changed and phones were distinct. *)
Fresh == {i \in DiddiGo :
             source[i].known /\ users[i] = NoPhone /\ ~Committed(source[i].phone)}

Forecasts ==
    forecast.made =>
        /\ pc \in Walking => rows = source /\ migrated \subseteq Fresh
        /\ pc = "free" => row \in Fresh
        /\ ~(pc \in Walking /\ dry) => forecast.ids = Fresh

IInv == TypeOK /\ Placed /\ Sorted /\ Exclusive /\ Forecasts

-----------------------------------------------------------------------------
(* Types.                                                                  *)

LEMMA InitHolds == Init => IInv
  <1> SUFFICES ASSUME Init
               PROVE  IInv
    OBVIOUS
  <1>1. TypeOK
    BY MigrationAssumption DEF Init, TypeOK, Id, Walking, NoForecast
  <1>2. Placed /\ Sorted
    BY DEF Init, Placed, Sorted, InHand, Walking
  <1>3. Exclusive
    BY DEF Init, Exclusive, PhonesAreExclusive, Holder, Staged, Walking
  <1>4. Forecasts
    BY DEF Init, Forecasts, NoForecast
  <1> QED
    BY <1>1, <1>2, <1>3, <1>4 DEF IInv

(* The ids of DiddiGo's users are none of those given out here. *)
LEMMA Ids == DiddiGo \subseteq Id /\ Registrant \subseteq Id
             /\ \A i \in DiddiGo : i \notin Registrant
  BY MigrationAssumption DEF Id

LEMMA ForgetTypes ==
    ASSUME TypeOK, Forget, crashes' \in 0..MaxCrashes
    PROVE  TypeOK'
  BY DEF TypeOK, Forget, NoForecast, Walking

LEMMA PassTypes == TypeOK /\ PassStep => TypeOK'
  <1> SUFFICES ASSUME TypeOK, PassStep
               PROVE  TypeOK'
    OBVIOUS
  <1>1. ASSUME NEW i \in DiddiGo, LookUpId(i)
        PROVE  TypeOK'
    BY <1>1 DEF LookUpId, TypeOK, Walking
  <1>2. CASE CheckPhone
    BY <1>2 DEF CheckPhone, TypeOK, Walking
  <1>3. CASE InsertRow
    <2>1. CASE Violates(rows[row].phone)
      BY <1>3, <2>1, ForgetTypes DEF InsertRow, TypeOK
    <2>2. CASE ~Violates(rows[row].phone)
      BY <1>3, <2>2 DEF InsertRow, TypeOK, Walking
    <2> QED
      BY <2>1, <2>2
  <1>4. CASE CountRow
    BY <1>4 DEF CountRow, TypeOK, Walking
  <1>5. CASE CommitPass
    <2>1. users' \in [Id -> Phone \union {NoPhone}]
      BY <1>5 DEF CommitPass, TypeOK, Row
    <2>2. \A r \in Registrant : users'[r] = users[r]
      BY <1>5, Ids DEF CommitPass, TypeOK
    <2> QED
      BY <1>5, <2>1, <2>2 DEF CommitPass, TypeOK, reportVars, NoForecast, Walking
  <1>6. CASE EndSimulation
    BY <1>6 DEF EndSimulation, TypeOK, reportVars, NoForecast, Walking
  <1> QED
    BY <1>1, <1>2, <1>3, <1>4, <1>5, <1>6 DEF PassStep

LEMMA ServiceTypes ==
    ASSUME TypeOK, NEW r \in Registrant,
           \/ \E p \in Phone : LookUpPhone(r, p)
           \/ InsertAccount(r) \/ CommitAccount(r) \/ LoseRequest(r)
    PROVE  TypeOK'
  <1>1. CASE \E p \in Phone : LookUpPhone(r, p)
    BY <1>1 DEF LookUpPhone, TypeOK, passVars, reportVars
  <1>2. CASE InsertAccount(r)
    BY <1>2 DEF InsertAccount, TypeOK, passVars, reportVars
  <1>3. CASE CommitAccount(r)
    <2>1. users' = [users EXCEPT ![r] = request[r].phone] /\ r \in Id
      BY <1>3, Ids DEF CommitAccount
    <2>2. request[r].phone \in Phone
      BY <1>3 DEF CommitAccount, TypeOK
    <2>3. users' \in [Id -> Phone \union {NoPhone}]
      BY <2>1, <2>2 DEF TypeOK
    <2>4. \A s \in Registrant : users'[s] # NoPhone <=> request'[s].pc = "done"
      BY <1>3, <2>1, <2>2, Ids, MigrationAssumption DEF CommitAccount, TypeOK
    <2> QED
      BY <1>3, <2>3, <2>4 DEF CommitAccount, TypeOK, passVars, reportVars, NoForecast
  <1>4. CASE LoseRequest(r)
    BY <1>4, MigrationAssumption DEF LoseRequest, TypeOK, passVars, reportVars
  <1> QED
    BY <1>1, <1>2, <1>3, <1>4

LEMMA TypesKept == TypeOK /\ [Next]_vars => TypeOK'
  <1> SUFFICES ASSUME TypeOK, [Next]_vars
               PROVE  TypeOK'
    OBVIOUS
  <1>1. ASSUME NEW simulated \in BOOLEAN, StartPass(simulated)
        PROVE  TypeOK'
    BY <1>1 DEF StartPass, TypeOK, Walking
  <1>2. CASE LosePass
    <2>1. crashes' \in 0..MaxCrashes
      BY <1>2, MigrationAssumption DEF LosePass, TypeOK
    <2> QED
      BY <1>2, <2>1, ForgetTypes DEF LosePass
  <1>3. ASSUME NEW i \in DiddiGo, NEW new \in Row, SourceChanges(i, new)
        PROVE  TypeOK'
    BY <1>3, MigrationAssumption
    DEF SourceChanges, TypeOK, passVars, reportVars, NoForecast
  <1>4. CASE UNCHANGED vars
    BY <1>4 DEF vars, passVars, reportVars, TypeOK
  <1> QED
    BY <1>1, <1>2, <1>3, <1>4, PassTypes, ServiceTypes DEF Next, Registration

-----------------------------------------------------------------------------
(* Registrations.                                                          *)

(* A step of the service that commits nothing touches only who holds what. *)
LEMMA ServiceKeepsThePass ==
    ASSUME IInv, UNCHANGED <<source, users, passVars, forecast>>
    PROVE  /\ Placed' /\ Sorted' /\ Forecasts'
           /\ Staged' = Staged
           /\ (pc = "free" => \A j \in Staged : rows[j].phone # rows[row].phone)'
  <1>1. /\ pc' = pc /\ dry' = dry /\ rows' = rows /\ todo' = todo /\ row' = row
        /\ migrated' = migrated /\ existing' = existing /\ taken' = taken
        /\ unknown' = unknown
        /\ source' = source /\ users' = users /\ forecast' = forecast
    BY DEF passVars, reportVars
  <1>2. Staged' = Staged
    BY <1>1 DEF Staged
  <1>3. Placed'
    BY <1>1 DEF IInv, Placed, InHand
  <1>4. Sorted'
    BY <1>1, <1>2 DEF IInv, Sorted, InHand
  <1>5. Forecasts'
    BY <1>1 DEF IInv, Forecasts, Fresh, Committed
  <1>6. (pc = "free" => \A j \in Staged : rows[j].phone # rows[row].phone)'
    BY <1>1, <1>2 DEF IInv, Exclusive
  <1> QED
    BY <1>2, <1>3, <1>4, <1>5, <1>6

LEMMA RequestKeeps ==
    ASSUME IInv, TypeOK', NEW r \in Registrant,
           (\E p \in Phone : LookUpPhone(r, p)) \/ LoseRequest(r)
    PROVE  IInv'
  <1>1. /\ UNCHANGED <<source, users, passVars, forecast>>
        /\ request[r].pc \in {"new", "checked", "staged"}
        /\ request'[r].pc # "staged"
        /\ \A s \in Registrant : s # r => request'[s] = request[s]
        /\ rows' = rows
    BY DEF LookUpPhone, LoseRequest, passVars, IInv, TypeOK
  <1>2. Staged' = Staged /\ Placed' /\ Sorted' /\ Forecasts'
        /\ (pc = "free" => \A j \in Staged : rows[j].phone # rows[row].phone)'
    BY <1>1, ServiceKeepsThePass
  <1>3. users' = users /\ users[r] = NoPhone
    BY <1>1 DEF IInv, TypeOK
  <1>4. Holder' \subseteq Holder /\ r \notin Holder'
    <2>1. r \notin Staged
      BY Ids DEF Staged, IInv, TypeOK
    <2> QED
      BY <1>1, <1>2, <1>3, <2>1 DEF Holder
  <1>5. \A i \in Holder' : PhoneOf(i)' = PhoneOf(i)
    <2> SUFFICES ASSUME NEW i \in Holder'
                 PROVE  PhoneOf(i)' = PhoneOf(i)
      OBVIOUS
    <2>1. i \in DiddiGo \/ (i \in Registrant /\ i # r)
      BY <1>4 DEF Holder, Staged, TypeOK, Id
    <2> QED
      BY <1>1, <1>3, <2>1, Ids DEF PhoneOf
  <1>6. PhonesAreExclusive'
    BY <1>4, <1>5 DEF IInv, Exclusive, PhonesAreExclusive
  <1> QED
    BY <1>2, <1>6 DEF IInv, Exclusive

LEMMA InsertAccountKeeps ==
    ASSUME IInv, TypeOK', NEW r \in Registrant, InsertAccount(r)
    PROVE  IInv'
  <1> DEFINE p == request[r].phone
  <1>1. /\ UNCHANGED <<source, users, passVars, forecast>>
        /\ users' = users /\ rows' = rows
        /\ request[r].pc = "checked" /\ request'[r].phone = p
        /\ request'[r].pc = IF Committed(p) THEN "failed" ELSE "staged"
        /\ \A s \in Registrant : s # r => request'[s] = request[s]
        /\ HeldBy(p) = {} /\ \A i \in Staged : rows[i].phone # p
        /\ users[r] = NoPhone /\ p \in Phone
    BY DEF InsertAccount, passVars, IInv, TypeOK
  <1>2. Staged' = Staged /\ Placed' /\ Sorted' /\ Forecasts'
        /\ (pc = "free" => \A j \in Staged : rows[j].phone # rows[row].phone)'
    BY <1>1, ServiceKeepsThePass
  <1>3. r \notin Staged /\ r \notin DiddiGo /\ Staged \subseteq DiddiGo
    BY Ids DEF Staged, IInv, TypeOK
  <1>4. r \notin Holder /\ Holder' \subseteq Holder \union {r}
        /\ Holder \subseteq Id
    BY <1>1, <1>2, <1>3, Ids DEF Holder
  <1>5. \A i \in Holder : PhoneOf(i)' = PhoneOf(i)
    BY <1>1, <1>4, Ids DEF PhoneOf, Id
  <1>6. PhonesAreExclusive'
    <2>1. CASE Committed(p)
      <3>1. Holder' \subseteq Holder
        BY <1>1, <1>3, <1>2, <1>4, <2>1 DEF Holder
      <3> QED
        BY <1>5, <3>1 DEF IInv, Exclusive, PhonesAreExclusive
    <2>2. CASE ~Committed(p)
      <3>1. PhoneOf(r)' = p
        BY <1>1, <1>3 DEF PhoneOf
      <3>2. ASSUME NEW i \in Holder
            PROVE  PhoneOf(i) # p
        <4>1. CASE users[i] # NoPhone
          BY <1>4, <2>2, <3>2, <4>1 DEF PhoneOf, Committed
        <4>2. CASE users[i] = NoPhone /\ i \in Staged
          BY <1>1, <1>3, <4>2 DEF PhoneOf
        <4>3. CASE users[i] = NoPhone /\ i \in Registrant /\ request[i].pc = "staged"
          <5>1. PhoneOf(i) = request[i].phone
            BY <4>3, Ids DEF PhoneOf
          <5>2. request[i].phone = p => request[i] = [pc |-> "staged", phone |-> p]
            BY <4>3 DEF IInv, TypeOK
          <5> QED
            BY <1>1, <4>3, <5>1, <5>2 DEF HeldBy
        <4> QED
          BY <3>2, <4>1, <4>2, <4>3 DEF Holder
      <3> QED
        BY <1>4, <1>5, <3>1, <3>2 DEF IInv, Exclusive, PhonesAreExclusive
    <2> QED
      BY <2>1, <2>2
  <1> QED
    BY <1>2, <1>6 DEF IInv, Exclusive

LEMMA CommitAccountKeeps ==
    ASSUME IInv, TypeOK', NEW r \in Registrant, CommitAccount(r)
    PROVE  IInv'
  <1>1. /\ pc' = pc /\ dry' = dry /\ rows' = rows /\ todo' = todo /\ row' = row
        /\ migrated' = migrated /\ existing' = existing /\ taken' = taken
        /\ unknown' = unknown /\ Staged' = Staged
        /\ ~forecast'.made
    BY DEF CommitAccount, passVars, reportVars, Staged, NoForecast
  <1>2. /\ users' = [users EXCEPT ![r] = request[r].phone]
        /\ users' \in [Id -> Phone \union {NoPhone}]
        /\ users \in [Id -> Phone \union {NoPhone}]
        /\ users[r] = NoPhone /\ request[r].phone \in Phone
        /\ request[r].pc = "staged"
        /\ request' = [request EXCEPT ![r].pc = "done"]
        /\ request'[r].pc = "done"
        /\ \A s \in Registrant : s # r => request'[s] = request[s]
    BY DEF CommitAccount, IInv, TypeOK
  <1>3. /\ users'[r] = request[r].phone
        /\ \A i \in Id : i # r => users'[i] = users[i]
        /\ \A i \in DiddiGo : users'[i] = users[i]
    BY <1>2, Ids
  <1>4. Placed'
    BY <1>1 DEF IInv, Placed, InHand
  <1>5. Sorted'
    <2>1. \A i \in DiddiGo : rows[i].phone \in Phone
      BY DEF IInv, TypeOK, Row
    <2>2. \A i \in taken : \E j \in Id \ {i} :
             \/ users'[j] = rows[i].phone
             \/ j \in Staged /\ rows[j].phone = rows[i].phone
      <3> SUFFICES ASSUME NEW i \in taken
                   PROVE  \E j \in Id \ {i} :
                             \/ users'[j] = rows[i].phone
                             \/ j \in Staged /\ rows[j].phone = rows[i].phone
        OBVIOUS
      <3>1. PICK j \in Id \ {i} : \/ users[j] = rows[i].phone
                                  \/ j \in Staged /\ rows[j].phone = rows[i].phone
        BY DEF IInv, Sorted
      <3>2. i \in DiddiGo
        BY DEF IInv, TypeOK
      <3>3. users[j] = rows[i].phone => j # r
        BY <1>2, <2>1, <3>2, MigrationAssumption
      <3> QED
        BY <1>3, <3>1, <3>3
    <2>3. /\ existing \subseteq DiddiGo /\ migrated \subseteq DiddiGo
          /\ InHand => row \in DiddiGo
      BY DEF IInv, TypeOK, InHand
    <2> QED
      BY <1>1, <1>3, <2>2, <2>3 DEF IInv, Sorted, InHand
  <1>6. Exclusive'
    <2>1. r \notin DiddiGo
      BY Ids
    <2>2. Holder' = Holder
      BY <1>1, <1>2, <1>3, Ids, MigrationAssumption DEF Holder
    <2>3. \A i \in Holder : PhoneOf(i)' = PhoneOf(i)
      <3> SUFFICES ASSUME NEW i \in Holder
                   PROVE  PhoneOf(i)' = PhoneOf(i)
        OBVIOUS
      <3>1. i \in Id
        BY Ids DEF Holder, Staged, IInv, TypeOK
      <3>2. CASE i = r
        BY <1>2, <1>3, <2>1, <3>2, MigrationAssumption DEF PhoneOf
      <3>3. CASE i # r
        BY <1>1, <1>2, <1>3, <3>1, <3>3, Ids DEF PhoneOf, Id
      <3> QED
        BY <3>2, <3>3
    <2> QED
      BY <1>1, <2>2, <2>3 DEF IInv, Exclusive, PhonesAreExclusive
  <1>7. Forecasts'
    BY <1>1 DEF Forecasts
  <1> QED
    BY <1>4, <1>5, <1>6, <1>7 DEF IInv

-----------------------------------------------------------------------------
(* The pass.                                                               *)

(* Registered rows and requests stand as they were, and so does every      *)
(* phone, as long as no row is staged that was not.                        *)
LEMMA HoldersKept ==
    ASSUME IInv, TypeOK', UNCHANGED <<users, request>>, Staged' \subseteq Staged,
           \A i \in Staged' : rows'[i] = rows[i]
    PROVE  PhonesAreExclusive'
  <1>1. Holder' \subseteq Holder /\ Holder' \subseteq Id
    BY Ids DEF Holder, Staged, IInv, TypeOK
  <1>2. \A i \in Holder' : PhoneOf(i)' = PhoneOf(i)
    <2> SUFFICES ASSUME NEW i \in Holder'
                 PROVE  PhoneOf(i)' = PhoneOf(i)
      OBVIOUS
    <2>1. CASE users[i] # NoPhone
      BY <2>1 DEF PhoneOf
    <2>2. CASE users[i] = NoPhone /\ i \in Registrant
      BY <2>2, Ids DEF PhoneOf
    <2>3. CASE users[i] = NoPhone /\ i \in DiddiGo
      <3>1. i \in Staged'
        BY <2>3, Ids DEF Holder
      <3> QED
        BY <2>3, <3>1 DEF PhoneOf
    <2> QED
      BY <1>1, <2>1, <2>2, <2>3 DEF Id
  <1> QED
    BY <1>1, <1>2 DEF IInv, Exclusive, PhonesAreExclusive

LEMMA LookUpIdKeeps ==
    ASSUME IInv, TypeOK', NEW i \in DiddiGo, LookUpId(i)
    PROVE  IInv'
  <1>1. /\ pc = "next" /\ pc' \in {"next", "absent"} /\ i \in todo
        /\ todo' = todo \ {i}
        /\ dry' = dry /\ rows' = rows /\ migrated' = migrated /\ taken' = taken
        /\ source' = source /\ users' = users /\ request' = request
        /\ forecast' = forecast
    BY DEF LookUpId
  <1>2. Staged' = Staged
    BY <1>1 DEF Staged, Walking
  <1>3. Placed'
    BY <1>1 DEF IInv, Placed, InHand, LookUpId
  <1>4. Sorted'
    BY <1>1, <1>2 DEF IInv, Sorted, InHand, LookUpId, Walking
  <1>5. Exclusive'
    BY <1>1, <1>2, HoldersKept DEF Exclusive
  <1>6. Forecasts'
    BY <1>1 DEF IInv, Forecasts, Fresh, Committed, Walking
  <1> QED
    BY <1>3, <1>4, <1>5, <1>6 DEF IInv

LEMMA CheckPhoneKeeps ==
    ASSUME IInv, TypeOK', CheckPhone
    PROVE  IInv'
  <1>1. /\ pc = "absent" /\ pc' \in {"next", "free"} /\ todo' = todo /\ row' = row
        /\ dry' = dry /\ rows' = rows /\ migrated' = migrated
        /\ existing' = existing /\ unknown' = unknown
        /\ source' = source /\ users' = users /\ request' = request
        /\ forecast' = forecast /\ row \in DiddiGo
        /\ taken' = IF pc' = "next" THEN taken \union {row} ELSE taken
        /\ pc' = "next" <=> PhoneTaken(rows[row].phone)
    BY DEF CheckPhone, IInv, TypeOK
  <1>2. Staged' = Staged /\ Staged \subseteq migrated /\ Staged \subseteq Id
    BY <1>1, Ids DEF Staged, Walking, IInv, TypeOK
  <1>3. /\ row \notin todo /\ row \notin migrated
        /\ rows[row].known /\ users[row] = NoPhone /\ rows[row].phone \in Phone
    BY <1>1 DEF IInv, Placed, Sorted, InHand, TypeOK, Row
  <1>4. Placed'
    BY <1>1, <1>3 DEF IInv, Placed, InHand
  <1>5. Sorted'
    <2>1. PhoneTaken(rows[row].phone) =>
            \E j \in Id \ {row} : \/ users[j] = rows[row].phone
                                  \/ j \in Staged /\ rows[j].phone = rows[row].phone
      BY <1>2, <1>3, MigrationAssumption DEF PhoneTaken, Committed
    <2>2. \A i \in taken' : \E j \in Id \ {i} :
             \/ users[j] = rows[i].phone
             \/ j \in Staged /\ rows[j].phone = rows[i].phone
      BY <1>1, <2>1 DEF IInv, Sorted
    <2> QED
      BY <1>1, <1>2, <1>3, <2>2 DEF IInv, Sorted, InHand, Walking
  <1>6. Exclusive'
    <2>1. pc' = "free" => \A j \in Staged : rows[j].phone # rows[row].phone
      BY <1>1 DEF PhoneTaken
    <2> QED
      BY <1>1, <1>2, <2>1, HoldersKept DEF Exclusive
  <1>7. Forecasts'
    <2> SUFFICES ASSUME forecast.made
                 PROVE  /\ pc' \in Walking => rows = source /\ migrated \subseteq Fresh
                        /\ pc' = "free" => row \in Fresh
                        /\ ~(pc' \in Walking /\ dry) => forecast.ids = Fresh
      BY <1>1 DEF Forecasts, Fresh, Committed
    <2>1. rows = source /\ migrated \subseteq Fresh
          /\ (~dry => forecast.ids = Fresh)
      BY <1>1 DEF IInv, Forecasts, Walking
    <2>2. pc' = "free" => row \in Fresh
      BY <1>1, <1>3, <2>1 DEF PhoneTaken, Fresh
    <2> QED
      BY <1>1, <2>1, <2>2 DEF Walking
  <1> QED
    BY <1>4, <1>5, <1>6, <1>7 DEF IInv

LEMMA ForgetKeeps ==
    ASSUME IInv, TypeOK', pc \in Walking, Forget
    PROVE  IInv'
  <1>1. /\ pc' = "idle" /\ migrated' = {} /\ existing' = {} /\ taken' = {}
        /\ unknown' = {} /\ todo' = {} /\ dry' = dry
        /\ source' = source /\ users' = users /\ request' = request
        /\ forecast' = IF dry THEN NoForecast ELSE forecast
    BY DEF Forget
  <1>2. Staged' = {}
    BY <1>1 DEF Staged, Walking
  <1>3. Placed' /\ Sorted'
    BY <1>1 DEF Placed, Sorted, InHand, Walking
  <1>4. Exclusive'
    BY <1>1, <1>2, HoldersKept DEF Exclusive
  <1>5. Forecasts'
    <2>1. Fresh' = Fresh
      BY <1>1 DEF Fresh, Committed
    <2> QED
      BY <1>1, <2>1 DEF IInv, Forecasts, NoForecast, Walking
  <1> QED
    BY <1>3, <1>4, <1>5 DEF IInv

(* InsertRow and CountRow, when the row is counted. *)
LEMMA CountedRowKeeps ==
    ASSUME IInv, TypeOK', pc = "free", pc' = "next",
           migrated' = migrated \union {row},
           UNCHANGED <<source, users, request, dry, rows, todo, row, existing,
                       taken, unknown, forecast>>,
           ~dry => HeldBy(rows[row].phone) = {} /\ ~Committed(rows[row].phone)
    PROVE  IInv'
  <1>1. /\ row \in DiddiGo /\ row \notin todo /\ row \notin migrated
        /\ rows[row].known /\ users[row] = NoPhone /\ rows[row].phone \in Phone
    BY DEF IInv, Placed, Sorted, InHand, TypeOK, Row
  <1>2. Staged' = IF dry THEN {} ELSE Staged \union {row}
    BY DEF Staged, Walking
  <1>3. Staged \subseteq Staged' /\ Staged \subseteq DiddiGo
    BY <1>2 DEF Staged, IInv, TypeOK
  <1>4. Placed'
    BY <1>1 DEF IInv, Placed, InHand
  <1>5. Sorted'
    BY <1>1, <1>3 DEF IInv, Sorted, InHand, Walking
  <1>6. PhonesAreExclusive'
    <2>1. CASE dry
      BY <2>1, <1>2, HoldersKept
    <2>2. CASE ~dry
      <3>1. Holder' = Holder \union {row} /\ Holder \subseteq Id
        BY <1>2, <1>3, <2>2, Ids DEF Holder
      <3>2. \A i \in Id : PhoneOf(i)' = PhoneOf(i)
        BY DEF PhoneOf
      <3>3. PhoneOf(row) = rows[row].phone /\ row \in Id
        BY <1>1, Ids DEF PhoneOf
      <3>4. ASSUME NEW i \in Holder
            PROVE  PhoneOf(i) # rows[row].phone
        <4>1. CASE users[i] # NoPhone
          BY <2>2, <3>1, <4>1 DEF PhoneOf, Committed
        <4>2. CASE users[i] = NoPhone /\ i \in Staged
          BY <1>3, <4>2 DEF PhoneOf, IInv, Exclusive
        <4>3. CASE users[i] = NoPhone /\ i \in Registrant /\ request[i].pc = "staged"
          <5>1. PhoneOf(i) = request[i].phone
            BY <4>3, Ids DEF PhoneOf
          <5>2. \A p : request[i].phone = p =>
                         request[i] = [pc |-> "staged", phone |-> p]
            BY <4>3 DEF IInv, TypeOK
          <5> QED
            BY <2>2, <4>3, <5>1, <5>2 DEF HeldBy
        <4> QED
          BY <3>4, <4>1, <4>2, <4>3 DEF Holder
      <3> QED
        BY <3>1, <3>2, <3>3, <3>4 DEF IInv, Exclusive, PhonesAreExclusive
    <2> QED
      BY <2>1, <2>2
  <1>7. Forecasts'
    <2>1. Fresh' = Fresh
      BY DEF Fresh, Committed
    <2> QED
      BY <2>1 DEF IInv, Forecasts, Walking
  <1> QED
    BY <1>4, <1>5, <1>6, <1>7 DEF IInv, Exclusive

LEMMA CommitPassKeeps ==
    ASSUME IInv, TypeOK', CommitPass
    PROVE  IInv'
  <1>1. /\ pc = "next" /\ pc' = "done" /\ todo = {} /\ todo' = {} /\ ~dry
        /\ dry' = dry /\ rows' = rows /\ migrated' = migrated
        /\ existing' = existing /\ taken' = taken /\ unknown' = unknown
        /\ source' = source /\ request' = request /\ ~forecast'.made
    BY DEF CommitPass, reportVars, NoForecast
  <1>2. /\ Staged = migrated /\ Staged' = {} /\ migrated \subseteq DiddiGo
        /\ \A i \in DiddiGo : rows[i].phone \in Phone
        /\ \A i \in migrated : users[i] = NoPhone /\ rows[i].known
    BY <1>1 DEF Staged, Walking, IInv, TypeOK, Row, Sorted
  <1>3. \A i \in Id : users'[i] = IF i \in migrated THEN rows[i].phone ELSE users[i]
    BY DEF CommitPass
  <1>4. Placed'
    BY <1>1 DEF IInv, Placed, InHand
  <1>5. Sorted'
    <2>1. \A i \in taken : \E j \in Id \ {i} : users'[j] = rows[i].phone
      <3> SUFFICES ASSUME NEW i \in taken
                   PROVE  \E j \in Id \ {i} : users'[j] = rows[i].phone
        OBVIOUS
      <3>1. PICK j \in Id \ {i} : \/ users[j] = rows[i].phone
                                  \/ j \in Staged /\ rows[j].phone = rows[i].phone
        BY DEF IInv, Sorted
      <3>2. i \in DiddiGo
        BY DEF IInv, TypeOK
      <3>3. users'[j] = rows[i].phone
        BY <1>2, <1>3, <3>1, <3>2, MigrationAssumption
      <3> QED
        BY <3>1, <3>3
    <2>2. \A i \in existing : users'[i] # NoPhone
      BY <1>2, <1>3, Ids, MigrationAssumption DEF IInv, Sorted, TypeOK
    <2>3. \A i \in migrated : users'[i] = rows[i].phone
      BY <1>2, <1>3, Ids
    <2> QED
      BY <1>1, <1>2, <2>1, <2>2, <2>3 DEF IInv, Sorted, InHand, Walking
  <1>6. Exclusive'
    <2>1. Holder' = Holder
      <3>1. \A i \in Id : users'[i] # NoPhone <=> users[i] # NoPhone \/ i \in migrated
        BY <1>2, <1>3, MigrationAssumption
      <3> QED
        BY <1>1, <1>2, <3>1, Ids DEF Holder
    <2>2. \A i \in Id : PhoneOf(i)' = PhoneOf(i)
      BY <1>1, <1>2, <1>3, MigrationAssumption DEF PhoneOf
    <2>3. Holder \subseteq Id
      BY <1>2, Ids DEF Holder
    <2> QED
      BY <1>1, <2>1, <2>2, <2>3 DEF IInv, Exclusive, PhonesAreExclusive
  <1>7. Forecasts'
    BY <1>1 DEF Forecasts
  <1> QED
    BY <1>4, <1>5, <1>6, <1>7 DEF IInv

(* A pass whose rows are all placed has found every fresh row, but those   *)
(* that share their phone with a staged one.                               *)
LEMMA FreshFound ==
    ASSUME IInv, pc = "next", todo = {}, forecast.made, NEW i \in Fresh
    PROVE  \/ i \in migrated
           \/ i \in taken /\ \E j \in Staged : rows[j].phone = rows[i].phone
  <1>1. /\ rows = source /\ i \in DiddiGo /\ rows[i].known /\ users[i] = NoPhone
        /\ ~Committed(rows[i].phone)
    BY DEF IInv, Forecasts, Fresh, Walking
  <1>2. i \in migrated \union existing \union taken \union unknown
    BY <1>1 DEF IInv, Placed, InHand
  <1>3. i \notin existing /\ i \notin unknown
    BY <1>1 DEF IInv, Sorted
  <1>4. i \in taken => \E j \in Staged : rows[j].phone = rows[i].phone
    BY <1>1 DEF IInv, Sorted, Committed
  <1> QED
    BY <1>2, <1>3, <1>4

LEMMA EndSimulationKeeps ==
    ASSUME IInv, TypeOK', EndSimulation
    PROVE  IInv'
  <1>1. /\ pc = "next" /\ pc' = "done" /\ todo = {} /\ todo' = {} /\ dry
        /\ dry' = dry /\ rows' = rows /\ migrated' = migrated
        /\ existing' = existing /\ taken' = taken /\ unknown' = unknown
        /\ source' = source /\ request' = request /\ users' = users
        /\ forecast' = IF forecast.made THEN [made |-> TRUE, ids |-> migrated]
                                        ELSE NoForecast
    BY DEF EndSimulation, reportVars
  <1>2. Staged = {} /\ Staged' = {}
    BY <1>1 DEF Staged, Walking
  <1>3. Placed'
    BY <1>1 DEF IInv, Placed, InHand
  <1>4. Sorted'
    BY <1>1, <1>2 DEF IInv, Sorted, InHand, Walking
  <1>5. Exclusive'
    BY <1>1, <1>2, HoldersKept DEF Exclusive
  <1>6. Forecasts'
    <2> SUFFICES ASSUME forecast.made
                 PROVE  migrated = Fresh
      BY <1>1 DEF Forecasts, NoForecast, Walking, Fresh, Committed
    <2>1. migrated \subseteq Fresh
      BY <1>1 DEF IInv, Forecasts, Walking
    <2>2. Fresh \subseteq migrated
      BY <1>1, <1>2, FreshFound
    <2> QED
      BY <2>1, <2>2
  <1> QED
    BY <1>3, <1>4, <1>5, <1>6 DEF IInv

LEMMA StartPassKeeps ==
    ASSUME IInv, TypeOK', NEW simulated \in BOOLEAN, StartPass(simulated)
    PROVE  IInv'
  <1>1. /\ pc \notin Walking /\ pc' = "next" /\ dry' = simulated
        /\ rows' = source /\ todo' = DiddiGo /\ source' = source
        /\ migrated' = {} /\ existing' = {} /\ taken' = {} /\ unknown' = {}
        /\ users' = users /\ request' = request
        /\ forecast' = IF simulated THEN [made |-> TRUE, ids |-> {}] ELSE forecast
    BY DEF StartPass, Walking
  <1>2. Staged' = {}
    BY <1>1 DEF Staged
  <1>3. Placed' /\ Sorted'
    BY <1>1 DEF Placed, Sorted, InHand
  <1>4. Exclusive'
    BY <1>1, <1>2, HoldersKept DEF Exclusive
  <1>5. Forecasts'
    <2>1. Fresh' = Fresh
      BY <1>1 DEF Fresh, Committed
    <2> QED
      BY <1>1, <2>1 DEF IInv, Forecasts, Walking
  <1> QED
    BY <1>3, <1>4, <1>5 DEF IInv

(* Steps that leave the table and the pass alone. *)
LEMMA ElsewhereKeeps ==
    ASSUME IInv, TypeOK', UNCHANGED <<users, request, passVars>>,
           forecast' = NoForecast \/ UNCHANGED <<source, forecast>>
    PROVE  IInv'
  <1>1. /\ pc' = pc /\ dry' = dry /\ rows' = rows /\ todo' = todo /\ row' = row
        /\ migrated' = migrated /\ existing' = existing /\ taken' = taken
        /\ unknown' = unknown /\ Staged' = Staged
        /\ users' = users /\ request' = request
    BY DEF passVars, reportVars, Staged
  <1>2. Placed' /\ Sorted'
    BY <1>1 DEF IInv, Placed, Sorted, InHand
  <1>3. Exclusive'
    BY <1>1, HoldersKept DEF IInv, Exclusive
  <1>4. Forecasts'
    BY <1>1 DEF IInv, Forecasts, Fresh, Committed, NoForecast
  <1> QED
    BY <1>2, <1>3, <1>4 DEF IInv

LEMMA StepKeeps == IInv /\ [Next]_vars => IInv'
  <1> SUFFICES ASSUME IInv, [Next]_vars
               PROVE  IInv'
    OBVIOUS
  <1>1. TypeOK'
    BY TypesKept DEF IInv
  <1>2. CASE InsertRow
    <2>1. CASE Violates(rows[row].phone)
      BY <1>1, <1>2, <2>1, ForgetKeeps DEF InsertRow, Walking
    <2>2. CASE ~Violates(rows[row].phone)
      BY <1>1, <1>2, <2>2, CountedRowKeeps DEF InsertRow, Violates
    <2> QED
      BY <2>1, <2>2
  <1>3. CASE CountRow
    BY <1>1, <1>3, CountedRowKeeps DEF CountRow
  <1>4. CASE PassStep
    BY <1>1, <1>2, <1>3, <1>4, LookUpIdKeeps, CheckPhoneKeeps, CommitPassKeeps,
       EndSimulationKeeps DEF PassStep
  <1>5. CASE LosePass
    BY <1>1, <1>5, ForgetKeeps DEF LosePass
  <1>6. ASSUME NEW simulated \in BOOLEAN, StartPass(simulated)
        PROVE  IInv'
    BY <1>1, <1>6, StartPassKeeps
  <1>7. ASSUME NEW i \in DiddiGo, NEW new \in Row, SourceChanges(i, new)
        PROVE  IInv'
    BY <1>1, <1>7, ElsewhereKeeps DEF SourceChanges
  <1>8. CASE UNCHANGED vars
    BY <1>1, <1>8, ElsewhereKeeps DEF vars
  <1> QED
    BY <1>1, <1>4, <1>5, <1>6, <1>7, <1>8, RequestKeeps, InsertAccountKeeps,
       CommitAccountKeeps DEF Next, Registration

LEMMA IInvHolds == Spec => []IInv
  BY InitHolds, StepKeeps, PTL DEF Spec

-----------------------------------------------------------------------------
(* Types, with the agreement of requests and table, hold for any users of  *)
(* DiddiGo and any registrations (migrate, RegisterUser).                  *)
THEOREM MigrationTypeCorrect == Spec => []TypeOK
  <1>1. IInv => TypeOK
    BY DEF IInv
  <1> QED
    BY <1>1, IInvHolds, PTL

(* A phone is never held twice, by rows committed or staged, although pass *)
(* and registrations both look before they insert (migrate, save).         *)
THEOREM PhonesExclusive == Spec => []PhonesAreExclusive
  <1>1. IInv => PhonesAreExclusive
    BY DEF IInv, Exclusive
  <1> QED
    BY <1>1, IInvHolds, PTL

(* A real pass that has ended has an answer for every row it read, and the *)
(* answer is still true while its report is (migrate, Report).             *)
THEOREM RowsAccounted == Spec => []EveryRowAccounted
  <1>1. IInv => EveryRowAccounted
    <2> SUFFICES ASSUME IInv, pc = "done", ~dry, NEW i \in DiddiGo
                 PROVE  \/ i \in migrated /\ users[i] = rows[i].phone
                        \/ i \in existing /\ users[i] # NoPhone
                        \/ i \in taken /\ \E j \in Id \ {i} : users[j] = rows[i].phone
                        \/ i \in unknown /\ ~rows[i].known
      BY DEF EveryRowAccounted
    <2>1. i \in migrated \union existing \union taken \union unknown
      BY DEF IInv, Placed, InHand
    <2>2. Staged = {}
      BY DEF Staged, Walking
    <2> QED
      BY <2>1, <2>2 DEF IInv, Sorted
  <1> QED
    BY <1>1, IInvHolds, PTL

(* A pass enters all that it found to migrate at once, or leaves nothing,  *)
(* wherever it is lost and whatever is registered meanwhile (migrate).     *)
THEOREM PassIsAtomic == Spec => AllOrNothing
  <1> DEFINE Changed == \E i \in DiddiGo : users'[i] # users[i]
             Whole == \A i \in DiddiGo : users'[i] # NoPhone \/ i \in taken \/ i \in unknown
  <1>1. IInv /\ [Next]_vars => [Changed => Whole]_vars
    <2> SUFFICES ASSUME IInv, Next, Changed
                 PROVE  Whole
      BY DEF vars
    <2>1. CommitPass
      <3>1. ASSUME NEW r \in Registrant, CommitAccount(r)
            PROVE  FALSE
        <4>1. \A i \in DiddiGo : users'[i] = users[i]
          BY <3>1, Ids DEF CommitAccount, IInv, TypeOK
        <4> QED
          BY <4>1
      <3>2. users' # users
        OBVIOUS
      <3> QED
        BY <3>1, <3>2 DEF Next, Registration, PassStep, LookUpPhone, InsertAccount,
           LoseRequest, StartPass, LookUpId, CheckPhone, InsertRow, CountRow,
           EndSimulation, LosePass, Forget, SourceChanges
    <2>2. pc = "next" /\ todo = {} /\ ~dry
      BY <2>1 DEF CommitPass
    <2>3. \A i \in Id : users'[i] = IF i \in migrated THEN rows[i].phone ELSE users[i]
      BY <2>1 DEF CommitPass
    <2>4. \A i \in DiddiGo : rows[i].phone # NoPhone
      BY MigrationAssumption DEF IInv, TypeOK, Row
    <2> SUFFICES ASSUME NEW i \in DiddiGo
                 PROVE  users'[i] # NoPhone \/ i \in taken \/ i \in unknown
      OBVIOUS
    <2>5. i \in migrated \union existing \union taken \union unknown
      BY <2>2 DEF IInv, Placed, InHand
    <2>6. i \in existing => users[i] # NoPhone
      BY DEF IInv, Sorted
    <2> QED
      BY <2>3, <2>4, <2>5, <2>6, Ids
  <1> QED
    BY <1>1, IInvHolds, PTL DEF Spec, AllOrNothing

(* While nothing changes, a real pass migrates what the simulation named,  *)
(* except users whose phone another of them has (migrate with dry_run).    *)
THEOREM ForecastsAreGood == Spec => SimulationForetells
  <1> DEFINE Good == /\ migrated \subseteq forecast.ids
                     /\ \A i \in forecast.ids \ migrated :
                           i \in taken /\ \E j \in migrated : rows[j].phone = rows[i].phone
  <1>1. IInv => [CommitPass /\ forecast.made => Good]_vars
    <2> SUFFICES ASSUME IInv, CommitPass, forecast.made
                 PROVE  Good
      OBVIOUS
    <2>1. pc = "next" /\ todo = {} /\ ~dry
      BY DEF CommitPass
    <2>2. Staged = migrated
      BY <2>1 DEF Staged, Walking
    <2>3. migrated \subseteq Fresh /\ forecast.ids = Fresh
      BY <2>1 DEF IInv, Forecasts, Walking
    <2> QED
      BY <2>1, <2>2, <2>3, FreshFound
  <1> QED
    BY <1>1, IInvHolds, PTL DEF SimulationForetells
=============================================================================
