----------------------------- MODULE Migration -----------------------------
(***************************************************************************)
(* scripts/migrate_from_diddigo.py beside a service that registers         *)
(* accounts.  A pass reads DiddiGo's users once, then looks each of them   *)
(* up in identity.users, by id and by phone, and inserts the new ones, all *)
(* in one transaction of PostgreSQL at READ COMMITTED: a statement sees    *)
(* what was committed before it and what its own transaction wrote, and an *)
(* INSERT waits while another transaction holds the phone (models.py,      *)
(* UNIQUE).  The operator may simulate a pass, repeat one that was lost,   *)
(* and settle what it reported in between.                                 *)
(*                                                                         *)
(* ORDER BY created_at puts the users in some order; the model takes any.  *)
(***************************************************************************)
EXTENDS FiniteSets, Integers

CONSTANTS DiddiGo,      \* ids of DiddiGo's users
          Registrant,   \* ids of accounts registered here
          Phone,
          NoId, NoPhone,
          FirstRows,    \* what DiddiGo holds at the start
          MaxChanges,   \* bound: changes of DiddiGo's rows
          MaxCrashes    \* bound: passes and requests lost

Row == [phone : Phone, known : BOOLEAN]     \* is role and status in the maps?

ASSUME MigrationAssumption ==
    /\ DiddiGo \intersect Registrant = {}
    /\ NoId \notin DiddiGo /\ NoPhone \notin Phone
    /\ FirstRows \in [DiddiGo -> Row]
    /\ MaxChanges \in Nat /\ MaxCrashes \in Nat

Id == DiddiGo \union Registrant
NoForecast == [made |-> FALSE, ids |-> {}]

VARIABLES
    source,     \* auth.users of DiddiGo
    users,      \* identity.users as committed: the phone of each id
    request,    \* the registrations: pc and phone
    pc,         \* of the pass
    dry,        \* is it a simulation?
    rows,       \* what fetchall() returned
    todo,       \* rows still to come
    row,        \* the row being looked up
    migrated,   \* Report.migrated, by id; in a real pass inserted as well
    existing, taken, unknown,   \* the other lists of Report
    forecast,   \* history: what the last simulation said, while it holds
    changes, crashes

reportVars == <<migrated, existing, taken, unknown>>
passVars == <<pc, dry, rows, todo, row, reportVars>>
vars == <<source, users, request, passVars, forecast, changes, crashes>>

Walking == {"next", "absent", "free"}

\* Rows that the pass has inserted and not committed.
Staged == IF pc \in Walking /\ ~dry THEN migrated ELSE {}

\* Mutant: a request that failed leaves its transaction open.
HeldByAbandoned(p) ==
    {r \in Registrant : request[r].pc \in {"staged", "failed"} /\ request[r].phone = p}

HeldBy(p) == {r \in Registrant : request[r] = [pc |-> "staged", phone |-> p]}

Committed(p) == \E i \in Id : users[i] = p

TypeOK ==
    /\ source \in [DiddiGo -> Row] /\ rows \in [DiddiGo -> Row]
    /\ users \in [Id -> Phone \union {NoPhone}]
    /\ request \in [Registrant ->
                     [pc : {"new", "checked", "staged", "done", "failed"},
                      phone : Phone \union {NoPhone}]]
    /\ \A r \in Registrant :
          /\ request[r].pc \in {"checked", "staged"} => request[r].phone \in Phone
          /\ users[r] # NoPhone <=> request[r].pc = "done"
    /\ pc \in {"idle", "done"} \union Walking
    /\ dry \in BOOLEAN
    /\ todo \subseteq DiddiGo
    /\ row \in DiddiGo \union {NoId} /\ (pc \in {"absent", "free"} => row \in DiddiGo)
    /\ migrated \subseteq DiddiGo /\ existing \subseteq DiddiGo
    /\ taken \subseteq DiddiGo /\ unknown \subseteq DiddiGo
    /\ forecast \in [made : BOOLEAN, ids : SUBSET DiddiGo]
    /\ changes \in 0..MaxChanges /\ crashes \in 0..MaxCrashes

Init ==
    /\ source = FirstRows /\ rows = FirstRows
    /\ users = [i \in Id |-> NoPhone]
    /\ request = [r \in Registrant |-> [pc |-> "new", phone |-> NoPhone]]
    /\ pc = "idle" /\ dry = TRUE
    /\ todo = {} /\ row = NoId
    /\ migrated = {} /\ existing = {} /\ taken = {} /\ unknown = {}
    /\ forecast = NoForecast
    /\ changes = 0 /\ crashes = 0

-----------------------------------------------------------------------------
(* The service: RegisterUser, reduced to what holds a phone.               *)

LookUpPhone(r, p) ==
    /\ request[r].pc = "new"
    /\ request' = [request EXCEPT
           ![r] = [pc |-> IF Committed(p) THEN "failed" ELSE "checked", phone |-> p]]
    /\ UNCHANGED <<source, users, passVars, forecast, changes, crashes>>

\* The INSERT of save().
InsertAccount(r) ==
    LET p == request[r].phone IN
    /\ request[r].pc = "checked"
    /\ HeldBy(p) = {} /\ \A i \in Staged : rows[i].phone # p
    /\ request' = [request EXCEPT ![r].pc = IF Committed(p) THEN "failed" ELSE "staged"]
    /\ UNCHANGED <<source, users, passVars, forecast, changes, crashes>>

CommitAccount(r) ==
    /\ request[r].pc = "staged"
    /\ users' = [users EXCEPT ![r] = request[r].phone]
    /\ request' = [request EXCEPT ![r].pc = "done"]
    /\ forecast' = NoForecast
    /\ UNCHANGED <<source, passVars, changes, crashes>>

LoseRequest(r) ==
    /\ request[r].pc \in {"checked", "staged"}
    /\ crashes < MaxCrashes
    /\ crashes' = crashes + 1
    /\ request' = [request EXCEPT ![r].pc = "failed"]
    /\ UNCHANGED <<source, users, passVars, forecast, changes>>

-----------------------------------------------------------------------------
(* The pass.                                                               *)

\* SELECT ... FROM auth.users, and the target's transaction begins.
StartPass(simulated) ==
    /\ pc \in {"idle", "done"}
    /\ pc' = "next" /\ dry' = simulated
    /\ rows' = source /\ todo' = DiddiGo /\ row' = NoId
    /\ migrated' = {} /\ existing' = {} /\ taken' = {} /\ unknown' = {}
    /\ forecast' = IF simulated THEN [made |-> TRUE, ids |-> {}] ELSE forecast
    /\ UNCHANGED <<source, users, request, changes, crashes>>

\* ROLE_MAP and STATUS_MAP, then SELECT ... WHERE id = ...
LookUpId(i) ==
    /\ pc = "next" /\ i \in todo
    /\ todo' = todo \ {i}
    /\ \/ /\ ~rows[i].known
          /\ unknown' = unknown \union {i}
          /\ UNCHANGED <<pc, row, existing>>
       \/ /\ rows[i].known /\ users[i] # NoPhone
          /\ existing' = existing \union {i}
          /\ UNCHANGED <<pc, row, unknown>>
       \/ /\ rows[i].known /\ users[i] = NoPhone
          /\ pc' = "absent" /\ row' = i
          /\ UNCHANGED <<existing, unknown>>
    /\ UNCHANGED <<source, users, request, dry, rows, migrated, taken, forecast,
                   changes, crashes>>

\* SELECT ... WHERE phone = ..., which sees the rows this pass has inserted.
\* Mutants: READ UNCOMMITTED; a simulation that skips the SELECT.
PhoneTakenDirty(p) ==
    Committed(p) \/ HeldBy(p) # {} \/ \E j \in Staged : rows[j].phone = p
PhoneTakenForReal(p) == ~dry /\ (Committed(p) \/ \E j \in Staged : rows[j].phone = p)

PhoneTaken(p) == Committed(p) \/ \E j \in Staged : rows[j].phone = p

\* Mutant: the loop goes on to the next row before this one is inserted.
CheckPhoneAndGoOn ==
    /\ pc = "absent"
    /\ row' = NoId
    /\ IF PhoneTaken(rows[row].phone)
       THEN pc' = "next" /\ taken' = taken \union {row}
       ELSE pc' = "free" /\ taken' = taken
    /\ UNCHANGED <<source, users, request, dry, rows, todo, migrated,
                   existing, unknown, forecast, changes, crashes>>

CheckPhone ==
    /\ pc = "absent"
    /\ IF PhoneTaken(rows[row].phone)
       THEN pc' = "next" /\ taken' = taken \union {row}
       ELSE pc' = "free" /\ taken' = taken
    /\ UNCHANGED <<source, users, request, dry, rows, todo, row, migrated,
                   existing, unknown, forecast, changes, crashes>>

\* Nothing of the pass is left, its report included.
Forget ==
    /\ pc' = "idle"
    /\ todo' = {} /\ row' = NoId
    /\ migrated' = {} /\ existing' = {} /\ taken' = {} /\ unknown' = {}
    /\ forecast' = IF dry THEN NoForecast ELSE forecast
    /\ UNCHANGED <<source, users, request, dry, rows, changes>>

\* The INSERT waits for a registration that holds the phone, and violates the
\* UNIQUE constraint if that has committed: the exception ends the pass.
\* Mutant: no UNIQUE constraint on phone.
NeverViolates(p) == FALSE

Violates(p) == Committed(p)

InsertRow ==
    /\ pc = "free" /\ ~dry
    /\ HeldBy(rows[row].phone) = {}
    /\ IF Violates(rows[row].phone)
       THEN Forget
       ELSE /\ pc' = "next" /\ migrated' = migrated \union {row}
            /\ UNCHANGED <<source, users, request, dry, rows, todo, row, existing,
                           taken, unknown, forecast, changes>>
    /\ UNCHANGED crashes

\* A simulation counts the row and inserts nothing.
CountRow ==
    /\ pc = "free" /\ dry
    /\ pc' = "next" /\ migrated' = migrated \union {row}
    /\ UNCHANGED <<source, users, request, dry, rows, todo, row, existing, taken,
                   unknown, forecast, changes, crashes>>

\* Mutant: a COMMIT after each row.
CommitEachRow ==
    /\ pc = "next" /\ ~dry
    /\ pc' = IF todo = {} THEN "done" ELSE "next"
    /\ users' = [i \in Id |-> IF i \in migrated THEN rows[i].phone ELSE users[i]]
    /\ forecast' = NoForecast
    /\ UNCHANGED <<source, request, dry, rows, todo, row, reportVars, changes, crashes>>

\* target.commit()
CommitPass ==
    /\ pc = "next" /\ todo = {} /\ ~dry
    /\ pc' = "done"
    /\ users' = [i \in Id |-> IF i \in migrated THEN rows[i].phone ELSE users[i]]
    /\ forecast' = NoForecast
    /\ UNCHANGED <<source, request, dry, rows, todo, row, reportVars, changes, crashes>>

\* target.rollback(); the forecast is good if nothing changed meanwhile.
EndSimulation ==
    /\ pc = "next" /\ todo = {} /\ dry
    /\ pc' = "done"
    /\ forecast' = IF forecast.made THEN [made |-> TRUE, ids |-> migrated]
                                    ELSE NoForecast
    /\ UNCHANGED <<source, users, request, dry, rows, todo, row, reportVars,
                   changes, crashes>>

LosePass ==
    /\ pc \in Walking
    /\ crashes < MaxCrashes
    /\ crashes' = crashes + 1
    /\ Forget

\* DiddiGo is in service too: a phone changes, or a role is corrected.
SourceChanges(i, new) ==
    /\ changes < MaxChanges /\ source[i] # new
    /\ changes' = changes + 1
    /\ source' = [source EXCEPT ![i] = new]
    /\ forecast' = NoForecast
    /\ UNCHANGED <<users, request, passVars, crashes>>

-----------------------------------------------------------------------------
Registration(r) == InsertAccount(r) \/ CommitAccount(r)

PassStep ==
    \/ \E i \in DiddiGo : LookUpId(i)
    \/ CheckPhone \/ InsertRow \/ CountRow \/ CommitPass \/ EndSimulation

Next ==
    \/ \E r \in Registrant :
          \/ \E p \in Phone : LookUpPhone(r, p)
          \/ Registration(r)
          \/ LoseRequest(r)
    \/ \E simulated \in BOOLEAN : StartPass(simulated)
    \/ PassStep
    \/ LosePass
    \/ \E i \in DiddiGo, new \in Row : SourceChanges(i, new)

\* Statements that have been sent end, unless they wait for each other for
\* ever.  No one has to start a pass, or a registration.
Fairness == WF_vars(PassStep) /\ \A r \in Registrant : WF_vars(Registration(r))

Spec == Init /\ [][Next]_vars /\ Fairness

-----------------------------------------------------------------------------
(* A real pass that has ended has an answer for each row it read: the id   *)
(* is in the table, with the phone of the row if this pass brought it, or  *)
(* another id has its phone and the report says so, or its role or status  *)
(* is unknown and the report says so (migrate, Report).                    *)
EveryRowAccounted ==
    pc = "done" /\ ~dry => \A i \in DiddiGo :
        \/ i \in migrated /\ users[i] = rows[i].phone
        \/ i \in existing /\ users[i] # NoPhone
        \/ i \in taken /\ \E j \in Id \ {i} : users[j] = rows[i].phone
        \/ i \in unknown /\ ~rows[i].known

(* A phone is never with two accounts, nor with one account and an INSERT  *)
(* that may still commit, whether a registration or the pass wrote it: all *)
(* that holds a phone excludes the rest (save, migrate).                   *)
Holder == {i \in Id : users[i] # NoPhone} \union Staged
          \union {r \in Registrant : request[r].pc = "staged"}

PhoneOf(i) ==
    IF users[i] # NoPhone THEN users[i]
    ELSE IF i \in DiddiGo THEN rows[i].phone ELSE request[i].phone

PhonesAreExclusive ==
    \A i, j \in Holder : PhoneOf(i) = PhoneOf(j) => i = j

(* The table takes in all that a pass found to migrate, or nothing: no     *)
(* crash and no violated constraint leaves a part of it (migrate).         *)
AllOrNothing ==
    [][(\E i \in DiddiGo : users'[i] # users[i]) =>
          \A i \in DiddiGo : users'[i] # NoPhone \/ i \in taken \/ i \in unknown]_vars

(* With nothing changed since the simulation, the real pass migrates what  *)
(* it announced, except users whose phone another announced user has: a    *)
(* simulation inserts nothing, and cannot see that two rows of DiddiGo     *)
(* exclude each other (migrate with dry_run).                              *)
SimulationForetells ==
    [][CommitPass /\ forecast.made =>
          /\ migrated \subseteq forecast.ids
          /\ \A i \in forecast.ids \ migrated :
                i \in taken /\ \E j \in migrated : rows[j].phone = rows[i].phone]_vars

(* No pass and no registration waits for ever: what they wait for is a     *)
(* transaction that ends (migrate, RegisterUser, get_session).             *)
EverybodyEnds ==
    /\ pc \in Walking ~> pc \notin Walking
    /\ \A r \in Registrant :
          request[r].pc \in {"checked", "staged"} ~> request[r].pc \in {"done", "failed"}
=============================================================================
