--------------------------- MODULE BackfillProofs ---------------------------
(***************************************************************************)
(* The walks of Backfill miss nobody but those that moved: for any number  *)
(* of accounts, any page size, and however the table and the filter change *)
(* during the walk.                                                        *)
(*                                                                         *)
(* The argument is about ranks.  The order is strict and total, so ranks   *)
(* are distinct (RankIncreases).  A row that comes up moves others away    *)
(* from the part that has been read, a row that leaves moves one into it.  *)
(* A SELECT receives the ranks between two offsets, and a short page ends  *)
(* above the last rank there is.  In a backfill the pages before were      *)
(* full: a row that comes up among them pushes a later one out, which was  *)
(* received or is itself older than one that was.                          *)
(***************************************************************************)
EXTENDS Backfill, FiniteSetTheorems, TLAPS

(* A COUNT is outrun by the accounts that came up since. *)
CountedBefore == pc = "counted" => Cardinality(Matching) <= total + late

(* A backfill asks for a page when those before it were full. *)
Walking == kind = "backfill" /\ pc \in {"asking", "counted"}

FullPages == Walking => Offset <= Cardinality(Matching)

BehindIsOlder == Walking => \A a \in behind : \E b \in met : Older(a, b)

IInv ==
    /\ TypeOK
    /\ CountedBefore
    /\ FullPages
    /\ BehindIsOlder
    /\ PassesOverOnlyWhatMoved
    /\ CompleteWalkMeetsEveryone
    /\ CountedWalkMissesOnlyTheLate

-----------------------------------------------------------------------------
(* Counting, and the order of the rows.                                    *)

(* Sets of accounts can be counted, and a subset has no more elements. *)
LEMMA Fewer ==
    ASSUME NEW T, NEW S, T \subseteq Account, S \subseteq T
    PROVE  /\ IsFiniteSet(S) /\ IsFiniteSet(T)
           /\ Cardinality(S) \in Nat /\ Cardinality(T) \in Nat
           /\ Cardinality(S) <= Cardinality(T)
  <1>1. IsFiniteSet(T)
    BY FS_Subset, BackfillAssumption
  <1>2. IsFiniteSet(S) /\ Cardinality(S) <= Cardinality(T)
    BY <1>1, FS_Subset
  <1> QED
    BY <1>1, <1>2, FS_CardinalityType

(* One element more is one more at most. *)
LEMMA OneMore ==
    ASSUME NEW T, NEW S, NEW x, T \subseteq Account, S \subseteq T \union {x},
           x \in Account
    PROVE  Cardinality(S) <= Cardinality(T) + 1
  <1>1. IsFiniteSet(T) /\ Cardinality(T) \in Nat
    BY Fewer
  <1>2. Cardinality(T \union {x}) <= Cardinality(T) + 1
    BY <1>1, FS_AddElement
  <1>3. /\ Cardinality(S) <= Cardinality(T \union {x})
        /\ Cardinality(S) \in Nat /\ Cardinality(T \union {x}) \in Nat
    <2>1. T \union {x} \subseteq Account
      OBVIOUS
    <2> QED
      BY <2>1, Fewer
  <1> QED
    BY <1>1, <1>2, <1>3

(* The sets of the model are sets of accounts. *)
LEMMA Subsets ==
    ASSUME TypeOK
    PROVE  /\ Matching \subseteq stored /\ Due \subseteq stored
           /\ stored \subseteq Account
           /\ Matching = Due
           /\ Page \subseteq Matching
           /\ \A a \in Account : created[a] \in Nat
           /\ Offset \in Nat
  <1>1. Matching \subseteq stored /\ Due \subseteq stored /\ stored \subseteq Account
    BY DEF TypeOK, Matching, Due
  <1>2. \A a \in Account : created[a] \in Nat
    BY BackfillAssumption DEF TypeOK, Time
  <1>3. Matching = Due
    BY DEF Matching, Due
  <1>4. Offset \in Nat
    <2>1. page \in Nat \ {0}
      BY DEF TypeOK
    <2>2. page - 1 \in Nat /\ PageSize \in Nat
      BY <2>1, BackfillAssumption
    <2>3. \A m, n \in Nat : m * n \in Nat
      OBVIOUS
    <2> QED
      BY <2>2, <2>3 DEF Offset
  <1> QED
    BY <1>1, <1>2, <1>3, <1>4 DEF Page

(* The rows come in a strict total order. *)
LEMMA TotalOrder ==
    ASSUME TypeOK, NEW a \in Account, NEW b \in Account, NEW c \in Account
    PROVE  /\ ~Before(a, a)
           /\ Before(a, b) /\ Before(b, c) => Before(a, c)
           /\ a # b => Before(a, b) \/ Before(b, a)
  <1>1. /\ created[a] \in Nat /\ created[b] \in Nat /\ created[c] \in Nat
        /\ a \in Nat /\ b \in Nat /\ c \in Nat
    BY BackfillAssumption, Subsets
  <1> QED
    BY <1>1 DEF Before, Older

(* A rank is a number, below the number of rows. *)
LEMMA RankBelow ==
    ASSUME TypeOK, NEW a \in Account
    PROVE  /\ Rank(a) \in Nat
           /\ a \in Matching => Rank(a) < Cardinality(Matching)
  <1> DEFINE Ahead == {b \in Matching : Before(b, a)}
  <1>1. Matching \subseteq Account /\ Ahead \subseteq Matching
    BY Subsets
  <1>2. /\ Cardinality(Ahead) \in Nat /\ Cardinality(Matching) \in Nat
        /\ Cardinality(Ahead) <= Cardinality(Matching) /\ IsFiniteSet(Matching)
    BY <1>1, Fewer
  <1>3. a \notin Ahead
    BY TotalOrder
  <1>4. a \in Matching => Cardinality(Ahead) # Cardinality(Matching)
    <2> SUFFICES ASSUME a \in Matching, Cardinality(Matching) = Cardinality(Ahead)
                 PROVE  FALSE
      OBVIOUS
    <2>1. Matching = Ahead
      BY <1>1, <1>2, FS_Subset
    <2> QED
      BY <2>1, <1>3
  <1> QED
    BY <1>2, <1>4 DEF Rank

(* A later row has a greater rank. *)
LEMMA RankIncreases ==
    ASSUME TypeOK, NEW a \in Matching, NEW c \in Account, Before(a, c)
    PROVE  Rank(a) < Rank(c)
  <1> DEFINE Ahead(x) == {b \in Matching : Before(b, x)}
  <1>1. Matching \subseteq Account /\ a \in Account
    BY Subsets
  <1>2. Ahead(a) \union {a} \subseteq Ahead(c)
    BY <1>1, TotalOrder
  <1>3. a \notin Ahead(a)
    BY <1>1, TotalOrder
  <1>4. /\ IsFiniteSet(Ahead(a)) /\ Cardinality(Ahead(a)) \in Nat
        /\ Ahead(c) \subseteq Account
    <2>1. Ahead(a) \subseteq Matching /\ Ahead(c) \subseteq Matching
      OBVIOUS
    <2> QED
      BY <2>1, <1>1, Fewer
  <1>5. Cardinality(Ahead(a) \union {a}) = Cardinality(Ahead(a)) + 1
    BY <1>3, <1>4, FS_AddElement
  <1>6. /\ Cardinality(Ahead(a) \union {a}) <= Cardinality(Ahead(c))
        /\ Cardinality(Ahead(c)) \in Nat
    BY <1>2, <1>4, Fewer
  <1> QED
    BY <1>4, <1>5, <1>6 DEF Rank

(* No two rows have the same rank. *)
LEMMA RankDistinct ==
    ASSUME TypeOK, NEW a \in Matching, NEW c \in Matching, Rank(a) = Rank(c)
    PROVE  a = c
  <1>1. a \in Account /\ c \in Account
    BY Subsets
  <1>2. Rank(a) \in Nat
    BY <1>1, RankBelow
  <1>3. ~Before(a, c) /\ ~Before(c, a)
    BY <1>1, <1>2, RankIncreases
  <1> QED
    BY <1>1, <1>3, TotalOrder

(* The ranks above an offset leave room for no more rows than that. *)
LEMMA RowsBeyond ==
    ASSUME TypeOK, NEW n \in Nat, n <= Cardinality(Matching)
    PROVE  Cardinality({c \in Matching : n <= Rank(c)}) <= Cardinality(Matching) - n
  <1> DEFINE Beyond == {c \in Matching : n <= Rank(c)}
             Room == n..(Cardinality(Matching) - 1)
             rank == [c \in Beyond |-> Rank(c)]
  <1>1. Matching \subseteq Account /\ Cardinality(Matching) \in Nat
    BY Subsets, Fewer
  <1>2. rank \in [Beyond -> Room]
    <2> SUFFICES ASSUME NEW c \in Beyond
                 PROVE  Rank(c) \in Room
      OBVIOUS
    <2>1. Rank(c) \in Nat /\ Rank(c) < Cardinality(Matching) /\ n <= Rank(c)
      BY <1>1, RankBelow
    <2> QED
      BY <1>1, <2>1
  <1>3. \A b, c \in Beyond : rank[b] = rank[c] => b = c
    BY RankDistinct
  <1>4. rank \in Injection(Beyond, Room)
    BY <1>2, <1>3 DEF Injection, IsInjective
  <1>5. /\ IsFiniteSet(Room)
        /\ Cardinality(Room) = Cardinality(Matching) - n
    <2>1. n \in Int /\ Cardinality(Matching) - 1 \in Int
      BY <1>1
    <2>2. /\ IsFiniteSet(Room)
          /\ Cardinality(Room) = IF n > Cardinality(Matching) - 1 THEN 0
                                 ELSE Cardinality(Matching) - 1 - n + 1
      BY <2>1, FS_Interval
    <2> QED
      BY <1>1, <2>2
  <1>6. Cardinality(Beyond) <= Cardinality(Room)
    BY <1>4, <1>5, FS_Injection
  <1> QED
    BY <1>5, <1>6

(* Together no more than each on its own. *)
LEMMA Together ==
    ASSUME NEW T, NEW S, T \subseteq Account, S \subseteq Account
    PROVE  /\ Cardinality(T \union S) <= Cardinality(T) + Cardinality(S)
           /\ Cardinality(T \union S) \in Nat
  <1>1. /\ IsFiniteSet(T) /\ IsFiniteSet(S)
        /\ Cardinality(T) \in Nat /\ Cardinality(S) \in Nat
    BY Fewer
  <1>2. Cardinality(T \union S) =
            Cardinality(T) + Cardinality(S) - Cardinality(T \intersect S)
    BY <1>1, FS_Union
  <1>3. T \intersect S \subseteq Account /\ T \union S \subseteq Account
    OBVIOUS
  <1>4. Cardinality(T \intersect S) \in Nat /\ Cardinality(T \union S) \in Nat
    BY <1>3, Fewer
  <1> QED
    BY <1>1, <1>2, <1>4

(* As many rows have a rank below n, when there are as many. *)
LEMMA RowsWithin ==
    ASSUME TypeOK, NEW n \in Nat, n <= Cardinality(Matching)
    PROVE  n <= Cardinality({c \in Matching : Rank(c) < n})
  <1> DEFINE Beyond == {c \in Matching : n <= Rank(c)}
             Within == {c \in Matching : Rank(c) < n}
  <1>1. /\ Matching \subseteq Account /\ Beyond \subseteq Account
        /\ Within \subseteq Account
    BY Subsets
  <1>2. /\ Cardinality(Matching) \in Nat /\ Cardinality(Beyond) \in Nat
        /\ Cardinality(Within) \in Nat
    BY <1>1, Fewer
  <1>3. Matching \subseteq Within \union Beyond
    <2> SUFFICES ASSUME NEW c \in Matching
                 PROVE  Rank(c) < n \/ n <= Rank(c)
      OBVIOUS
    <2>1. Rank(c) \in Nat
      BY <1>1, RankBelow
    <2> QED
      BY <2>1
  <1>4. /\ Cardinality(Within \union Beyond) <= Cardinality(Within) + Cardinality(Beyond)
        /\ Cardinality(Within \union Beyond) \in Nat
    BY <1>1, Together
  <1>5. Cardinality(Matching) <= Cardinality(Within \union Beyond)
    <2>1. Within \union Beyond \subseteq Account
      BY <1>1
    <2> QED
      BY <1>3, <2>1, Fewer
  <1>6. Cardinality(Beyond) <= Cardinality(Matching) - n
    BY RowsBeyond
  <1> QED
    BY <1>2, <1>4, <1>5, <1>6

-----------------------------------------------------------------------------
(* Steps of the table.                                                     *)

(* What they have in common: rows keep their date, at most `a` comes up,   *)
(* and that is noted.                                                      *)
Advances(a) ==
    /\ stored \subseteq stored' /\ wanted \subseteq wanted'
    /\ \A b \in stored : created'[b] = created[b]
    /\ UNCHANGED <<walkVars, left>>
    /\ Due' \subseteq Due \union {a} /\ Matching' \subseteq Matching \union {a}
    /\ behind \subseteq behind' /\ behind' \subseteq behind \union {a}
    /\ a \in behind' \ behind => a \in Due' \ Due /\ Passed(a)'
    /\ a \in Due' \ Due /\ Passed(a)' => a \in behind'
    /\ late' \in Nat /\ late' >= late
    /\ pc = "counted" /\ a \in Due' \ Due => late' = late + 1

(* A row already due keeps the rank it had, or gets a greater one: nothing *)
(* that was ahead of the walk is now behind it.                            *)
LEMMA NothingFallsBehind ==
    ASSUME TypeOK, TypeOK', NEW a \in Account, Advances(a),
           NEW c \in Due, c \in Due', Passed(c)'
    PROVE  Passed(c)
  <1>1. /\ kind' = kind /\ since' = since /\ page' = page
        /\ c \in stored /\ created'[c] = created[c]
    BY Subsets DEF Advances, walkVars
  <1> DEFINE Ahead == {b \in Matching : Before(b, c)}
             AheadNow == {b \in Matching' : Before(b, c)'}
  <1>2. Matching \subseteq Matching' /\ Matching \subseteq stored
    BY <1>1, Subsets DEF Advances, Matching
  <1>3. \A b \in stored : Before(b, c)' <=> Before(b, c)
    BY <1>1 DEF Advances, Before, Older
  <1>4. Ahead \subseteq AheadNow
    BY <1>2, <1>3
  <1>5. AheadNow \subseteq Account
    BY DEF TypeOK, Matching
  <1>6. Cardinality(Ahead) <= Cardinality(AheadNow)
        /\ Cardinality(Ahead) \in Nat /\ Cardinality(AheadNow) \in Nat
    BY <1>4, <1>5, Fewer
  <1>7. Rank(c) = Cardinality(Ahead) /\ Rank(c)' = Cardinality(AheadNow)
    BY DEF Rank
  <1>8. Offset' = Offset /\ Offset \in Nat
    BY <1>1, Subsets DEF Offset
  <1>9. c \in Matching /\ Rank(c)' < Offset'
    BY Subsets DEF Passed
  <1> QED
    BY <1>6, <1>7, <1>8, <1>9 DEF Passed

(* A row that comes up among the pages of a backfill pushes a later one    *)
(* out of them.                                                            *)
LEMMA PushesOneOut ==
    ASSUME IInv, TypeOK', NEW a \in Account, Advances(a), Walking,
           a \in Due' \ Due, Passed(a)'
    PROVE  \E b \in met : Older(a, b)'
  <1> DEFINE Within == {c \in Matching : Rank(c) < Offset}
             AheadNow == {b \in Matching' : Before(b, a)'}
             Old == Missed({c \in Due : Passed(c)})
  <1>1. /\ TypeOK /\ kind = "backfill" /\ kind' = kind /\ since' = since
        /\ page' = page /\ left = 0
        /\ \A b \in stored : created'[b] = created[b]
        /\ \A b \in Account : created'[b] \in Nat
        /\ Account \subseteq Nat
    BY BackfillAssumption DEF IInv, Walking, TypeOK, Time, Advances, walkVars
  <1>2. /\ Matching = Due /\ Matching \subseteq stored /\ stored \subseteq Account
        /\ Offset \in Nat /\ met \subseteq stored
    BY <1>1, Subsets DEF TypeOK
  <1>3. Offset <= Cardinality(Within)
    BY <1>1, <1>2, RowsWithin DEF IInv, FullPages
  <1>4. ~(Within \subseteq AheadNow)
    <2> SUFFICES ASSUME Within \subseteq AheadNow
                 PROVE  FALSE
      OBVIOUS
    <2>1. AheadNow \subseteq Account
      BY DEF TypeOK, Matching
    <2>2. /\ Cardinality(Within) <= Cardinality(AheadNow)
          /\ Cardinality(Within) \in Nat /\ Cardinality(AheadNow) \in Nat
      BY <2>1, Fewer
    <2>3. Cardinality(AheadNow) < Offset
      BY <1>1 DEF Passed, Rank, Offset
    <2> QED
      BY <1>2, <1>3, <2>2, <2>3
  <1>5. PICK b \in Within : b \notin AheadNow
    BY <1>4
  <1>6. b \in stored /\ b \in Account /\ b \in Due /\ Passed(b) /\ b # a
    BY <1>2 DEF Passed
  <1>7. Older(a, b)'
    <2>1. b \in Matching'
      BY <1>1, <1>6 DEF Matching, Due, Advances
    <2>2. ~Older(b, a)'
      BY <1>1, <1>5, <2>1 DEF Before
    <2> QED
      BY <1>1, <1>6, <2>2 DEF Older
  <1>8. b \in met \/ b \in behind
    <2>1. Old \subseteq Account
      BY <1>2 DEF Missed
    <2>2. IsFiniteSet(Old) /\ Cardinality(Old) \in Nat /\ Cardinality(Old) <= 0
      BY <1>1, <2>1, Fewer DEF IInv, PassesOverOnlyWhatMoved
    <2>3. Old = {}
      BY <2>2, FS_EmptySet
    <2> QED
      BY <1>6, <2>3 DEF Missed
  <1>9. CASE b \in met
    BY <1>7, <1>9
  <1>10. CASE b \in behind
    <2>1. PICK c \in met : Older(b, c)
      BY <1>10 DEF IInv, BehindIsOlder
    <2>2. c \in stored /\ c \in Account
      BY <1>2
    <2>3. Older(b, c)'
      BY <1>1, <1>6, <2>1, <2>2 DEF Older
    <2>4. Older(a, c)'
      BY <1>1, <1>6, <1>7, <2>2, <2>3 DEF Older
    <2> QED
      BY <2>4
  <1> QED
    BY <1>8, <1>9, <1>10

LEMMA AdvanceKeeps ==
    ASSUME IInv, TypeOK', NEW a \in Account, Advances(a)
    PROVE  IInv'
  <1>1. TypeOK /\ left \in Nat /\ late \in Nat /\ total \in Nat
    BY BackfillAssumption DEF IInv, TypeOK
  <1>2. /\ pc' = pc /\ total' = total /\ met' = met /\ present' = present
        /\ left' = left /\ late' \in Nat /\ late' >= late
    BY DEF Advances, walkVars
  <1>3. CountedBefore'
    <2> SUFFICES ASSUME pc = "counted"
                 PROVE  Cardinality(Matching') <= total + late'
      BY <1>2 DEF CountedBefore
    <2>1. /\ Matching \subseteq Account /\ Cardinality(Matching) \in Nat
          /\ Cardinality(Matching) <= total + late
      BY <1>1, Subsets, Fewer DEF IInv, CountedBefore
    <2>2. CASE a \in Due' \ Due
      <3>1. Cardinality(Matching') <= Cardinality(Matching) + 1
        BY <2>1, OneMore DEF Advances
      <3>2. Matching' \subseteq Account
        BY DEF TypeOK, Matching
      <3>3. Cardinality(Matching') \in Nat
        BY <3>2, Fewer
      <3>4. late' = late + 1
        BY <2>2 DEF Advances
      <3> QED
        BY <1>1, <2>1, <3>1, <3>3, <3>4
    <2>3. CASE a \notin Due' \ Due
      <3>1. /\ kind' = kind /\ since' = since
            /\ kind \in {"backfill", "list"}
        BY <1>1 DEF Advances, walkVars, TypeOK
      <3>2. Matching' \subseteq Due'
        BY DEF Matching, Due, TypeOK, Time
      <3>3. a \in Due => (a \in Matching' => a \in Matching)
        BY <3>1, <1>1, Subsets DEF Matching, Due, Advances
      <3>4. Matching' \subseteq Matching
        BY <2>3, <3>2, <3>3 DEF Advances
      <3>5. Cardinality(Matching') <= Cardinality(Matching)
            /\ Cardinality(Matching') \in Nat
        BY <2>1, <3>4, Fewer
      <3> QED
        BY <1>1, <1>2, <2>1, <3>5
    <2> QED
      BY <2>2, <2>3
  <1>4. FullPages' /\ BehindIsOlder'
    <2> SUFFICES ASSUME Walking'
                 PROVE  /\ Offset' <= Cardinality(Matching')
                        /\ \A c \in behind' : \E b \in met' : Older(c, b)'
      BY DEF FullPages, BehindIsOlder
    <2>1. /\ Walking /\ kind = "backfill" /\ kind' = kind /\ since' = since
          /\ page' = page
      BY DEF Walking, Advances, walkVars
    <2>2. Offset' <= Cardinality(Matching')
      <3>1. Matching \subseteq Matching' /\ Matching' \subseteq Account
        BY <1>1, <2>1, Subsets DEF Advances, Matching, TypeOK
      <3>2. /\ Cardinality(Matching) <= Cardinality(Matching')
            /\ Cardinality(Matching) \in Nat /\ Cardinality(Matching') \in Nat
        BY <3>1, Fewer
      <3>3. Offset' = Offset /\ Offset \in Nat /\ Offset <= Cardinality(Matching)
        BY <1>1, <2>1, Subsets DEF IInv, FullPages, Offset
      <3> QED
        BY <3>2, <3>3
    <2>3. ASSUME NEW c \in behind'
          PROVE  \E b \in met' : Older(c, b)'
      <3>1. CASE c \in behind
        <4>1. PICK b \in met : Older(c, b)
          BY <2>1, <3>1 DEF IInv, BehindIsOlder
        <4>2. created'[c] = created[c] /\ created'[b] = created[b]
          BY <1>1, <3>1 DEF Advances, TypeOK
        <4> QED
          BY <1>2, <4>1, <4>2 DEF Older
      <3>2. CASE c \notin behind
        <4>1. c = a /\ a \in Due' \ Due /\ Passed(a)'
          BY <2>3, <3>2 DEF Advances
        <4> QED
          BY <1>2, <2>1, <4>1, PushesOneOut
      <3> QED
        BY <3>1, <3>2
    <2> QED
      BY <2>2, <2>3
  <1>5. PassesOverOnlyWhatMoved'
    <2> DEFINE Old == Missed({c \in Due : Passed(c)})
               New == Missed({c \in Due : Passed(c)})'
    <2>1. New \subseteq Old
      <3> SUFFICES ASSUME NEW c \in Due', Passed(c)', c \notin met', c \notin behind'
                   PROVE  c \in Due /\ Passed(c) /\ c \notin met /\ c \notin behind
        BY DEF Missed
      <3>1. c \in Due
        BY DEF Advances
      <3> QED
        BY <1>1, <1>2, <3>1, NothingFallsBehind DEF Advances
    <2>2. Old \subseteq Account
      BY <1>1, Subsets DEF Missed
    <2>3. Cardinality(New) <= Cardinality(Old) /\ Cardinality(Old) <= left
          /\ Cardinality(New) \in Nat /\ Cardinality(Old) \in Nat
      BY <2>1, <2>2, Fewer DEF IInv, PassesOverOnlyWhatMoved
    <2> QED
      BY <1>1, <1>2, <2>3 DEF PassesOverOnlyWhatMoved
  <1>6. CompleteWalkMeetsEveryone' /\ CountedWalkMissesOnlyTheLate'
    <2>1. Missed(present)' \subseteq Missed(present)
      BY <1>2 DEF Missed, Advances
    <2>2. Missed(present) \subseteq Account
      BY <1>1 DEF Missed, TypeOK
    <2>3. Cardinality(Missed(present)') <= Cardinality(Missed(present))
          /\ Cardinality(Missed(present)') \in Nat
          /\ Cardinality(Missed(present)) \in Nat
      BY <2>1, <2>2, Fewer
    <2>4. ASSUME NEW c \in present, NEW b \in met, Older(c, b)
          PROVE  Older(c, b)'
      BY <1>1, <2>4 DEF Older, Advances, TypeOK
    <2>5. kind' = kind
      BY DEF Advances, walkVars
    <2> QED
      BY <1>1, <1>2, <2>3, <2>4, <2>5 DEF IInv, CompleteWalkMeetsEveryone,
                              CountedWalkMissesOnlyTheLate
  <1> QED
    BY <1>3, <1>4, <1>5, <1>6 DEF IInv

-----------------------------------------------------------------------------
(* An account leaves the filter: one row at most moves up past the offset. *)

LEMMA RankDropsByOne ==
    ASSUME TypeOK, NEW x \in Account, Leave(x), NEW c \in Account
    PROVE  /\ Rank(c) \in Nat /\ Rank(c)' \in Nat
           /\ Rank(c) <= Rank(c)' + 1
  <1> DEFINE Ahead == {b \in Matching : Before(b, c)}
             AheadNow == {b \in Matching' : Before(b, c)'}
  <1>1. /\ kind = "list" /\ kind' = kind /\ wanted' = wanted \ {x}
        /\ created' = created
    BY DEF Leave, walkVars, tableVars
  <1>2. AheadNow = Ahead \ {x}
    BY <1>1 DEF Matching, Before, Older
  <1>3. Ahead \subseteq Account
    BY Subsets
  <1>4. IsFiniteSet(Ahead) /\ Cardinality(Ahead) \in Nat
    BY <1>3, Fewer
  <1>5. Cardinality(Ahead \ {x}) = IF x \in Ahead THEN Cardinality(Ahead) - 1
                                                 ELSE Cardinality(Ahead)
    BY <1>4, FS_RemoveElement
  <1>6. Cardinality(Ahead \ {x}) \in Nat
    BY <1>3, Fewer
  <1>7. Rank(c) = Cardinality(Ahead) /\ Rank(c)' = Cardinality(AheadNow)
    BY DEF Rank
  <1> QED
    BY <1>2, <1>4, <1>5, <1>6, <1>7

LEMMA LeaveKeeps ==
    ASSUME IInv, TypeOK', NEW x \in Account, Leave(x)
    PROVE  IInv'
  <1>1. TypeOK /\ left \in Nat /\ late \in Nat /\ total \in Nat
    BY BackfillAssumption DEF IInv, TypeOK
  <1>2. /\ pc' = pc /\ total' = total /\ met' = met /\ present' = present
        /\ late' = late /\ left' = left + 1 /\ behind' = behind
        /\ kind = "list" /\ kind' = kind /\ page' = page
        /\ x \in wanted /\ wanted' = wanted \ {x}
    BY DEF Leave, walkVars
  <1>3. /\ Due = wanted /\ Due' = wanted' /\ Matching = wanted
        /\ Matching' = wanted' /\ wanted \subseteq Account
    BY <1>1, <1>2 DEF Due, Matching, TypeOK
  <1>4. CountedBefore'
    <2>1. Cardinality(Matching') <= Cardinality(Matching)
          /\ Cardinality(Matching') \in Nat /\ Cardinality(Matching) \in Nat
      BY <1>2, <1>3, Fewer
    <2> QED
      BY <1>1, <1>2, <2>1 DEF IInv, CountedBefore
  <1>5. PassesOverOnlyWhatMoved'
    <2> DEFINE Old == Missed({c \in Due : Passed(c)})
               New == Missed({c \in Due : Passed(c)})'
    <2>1. /\ Old \subseteq Account /\ New \subseteq Account
          /\ Cardinality(Old) <= left
      BY <1>2, <1>3 DEF Missed, IInv, PassesOverOnlyWhatMoved
    <2>2. Cardinality(Old) \in Nat /\ Cardinality(New) \in Nat
      BY <2>1, Fewer
    <2>3. \A c \in New : c \in Old \/ Rank(c) = Offset
      <3> SUFFICES ASSUME NEW c \in New, c \notin Old
                   PROVE  Rank(c) = Offset
        OBVIOUS
      <3>1. c \in wanted /\ c \in wanted' /\ c \in Account
        BY <1>2, <1>3 DEF Missed
      <3>2. Offset \in Nat /\ Offset' = Offset
        BY <1>1, <1>2, Subsets DEF Offset
      <3>3. Rank(c)' < Offset
        BY <1>2, <3>2 DEF Missed, Passed
      <3>4. ~(Rank(c) < Offset)
        BY <1>2, <1>3, <3>1 DEF Missed, Passed
      <3>5. Rank(c) \in Nat /\ Rank(c)' \in Nat /\ Rank(c) <= Rank(c)' + 1
        BY <1>1, <3>1, RankDropsByOne
      <3> QED
        BY <3>2, <3>3, <3>4, <3>5
    <2>4. CASE New \subseteq Old
      <3>1. Cardinality(New) <= Cardinality(Old)
        BY <2>1, <2>4, Fewer
      <3> QED
        BY <1>1, <1>2, <2>1, <2>2, <3>1 DEF PassesOverOnlyWhatMoved
    <2>5. CASE ~(New \subseteq Old)
      <3>1. PICK d \in New : d \notin Old
        BY <2>5
      <3>2. New \subseteq Old \union {d}
        <4> SUFFICES ASSUME NEW c \in New, c \notin Old
                     PROVE  c = d
          OBVIOUS
        <4>1. Rank(c) = Offset /\ Rank(d) = Offset
          BY <2>3, <3>1
        <4>2. c \in Matching /\ d \in Matching
          BY <1>2, <1>3 DEF Missed
        <4> QED
          BY <1>1, <4>1, <4>2, RankDistinct
      <3>3. Cardinality(New) <= Cardinality(Old) + 1
        BY <2>1, <3>2, OneMore
      <3> QED
        BY <1>1, <1>2, <2>1, <2>2, <3>3 DEF PassesOverOnlyWhatMoved
    <2> QED
      BY <2>4, <2>5
  <1>6. CompleteWalkMeetsEveryone' /\ CountedWalkMissesOnlyTheLate'
    <2>1. Missed(present)' = Missed(present)
      BY <1>2 DEF Missed
    <2>2. Missed(present) \subseteq Account
      BY <1>1 DEF Missed, TypeOK
    <2>3. Cardinality(Missed(present)) \in Nat
      BY <2>2, Fewer
    <2> QED
      BY <1>1, <1>2, <2>1, <2>3 DEF IInv, CompleteWalkMeetsEveryone,
                                    CountedWalkMissesOnlyTheLate
  <1> QED
    BY <1>2, <1>4, <1>5, <1>6 DEF IInv, Walking, FullPages, BehindIsOlder

-----------------------------------------------------------------------------
(* A page is received.                                                     *)

(* The walk receives what it goes past. *)
LEMMA PageReceived ==
    ASSUME TypeOK, Select, NEW c \in Due
    PROVE  /\ Offset' = Offset + PageSize
           /\ Passed(c)' => Passed(c) \/ c \in met'
           /\ Rank(c) < Offset + PageSize => Passed(c) \/ c \in met'
  <1>1. /\ kind' = kind /\ created' = created /\ stored' = stored
        /\ wanted' = wanted /\ since' = since /\ page' = page + 1
        /\ met' = met \union Page
    BY DEF Select, tableVars
  <1>2. Matching' = Matching /\ Rank(c)' = Rank(c)
    <2>1. Matching' = Matching
      BY <1>1 DEF Matching
    <2>2. \A b : Before(b, c)' <=> Before(b, c)
      BY <1>1 DEF Before, Older
    <2> QED
      BY <2>1, <2>2 DEF Rank
  <1>3. c \in Matching /\ Rank(c) \in Nat /\ Offset \in Nat
    <2>1. c \in Account /\ c \in Matching /\ Offset \in Nat
      BY Subsets
    <2> QED
      BY <2>1, RankBelow
  <1>4. Rank(c) < Offset + PageSize => Passed(c) \/ c \in met'
    BY <1>1, <1>3 DEF Passed, Page
  <1>5. Offset' = Offset + PageSize
    <2>1. page \in Nat \ {0} /\ PageSize \in Nat
      BY BackfillAssumption DEF TypeOK
    <2>2. \A m, n \in Nat : (m + 1) * n = m * n + n
      OBVIOUS
    <2>3. page = (page - 1) + 1 /\ page - 1 \in Nat /\ page' - 1 = page
      BY <1>1, <2>1
    <2>4. page * PageSize = (page - 1) * PageSize + PageSize
      BY <2>1, <2>2, <2>3
    <2> QED
      BY <2>3, <2>4 DEF Offset
  <1>6. Passed(c)' => Rank(c) < Offset + PageSize
    BY <1>2, <1>5 DEF Passed
  <1> QED
    BY <1>4, <1>5, <1>6

LEMMA SelectKeeps ==
    ASSUME IInv, TypeOK', Select
    PROVE  IInv'
  <1>1. /\ TypeOK /\ left \in Nat /\ late \in Nat /\ total \in Nat
        /\ page \in Nat /\ PageSize \in Nat
    BY BackfillAssumption DEF IInv, TypeOK
  <1>2. /\ left' = left /\ late' = late /\ behind' = behind
        /\ met \subseteq met' /\ present' = Due
        /\ kind' = kind /\ stored' = stored /\ created' = created
        /\ wanted' = wanted /\ since' = since
        /\ pc = "counted" /\ pc' # "counted"
    BY DEF Select, historyVars, tableVars
  <1>3. Due' = Due /\ Due \subseteq Account /\ Matching = Due /\ Matching' = Due
    BY <1>1, <1>2, Subsets DEF Due, Matching
  <1> DEFINE Old == Missed({c \in Due : Passed(c)})
             Beyond == {c \in Matching : Offset + PageSize <= Rank(c)}
  <1>4. /\ Old \subseteq Account /\ Cardinality(Old) \in Nat
        /\ Cardinality(Old) <= left
    <2>1. Old \subseteq Account
      BY <1>3 DEF Missed
    <2> QED
      BY <2>1, Fewer DEF IInv, PassesOverOnlyWhatMoved
  <1>5. CountedBefore' /\ FullPages' /\ BehindIsOlder'
    <2>1. CountedBefore'
      BY <1>2 DEF CountedBefore
    <2>2. FullPages'
      <3> SUFFICES ASSUME pc' = "asking"
                   PROVE  Offset' <= Cardinality(Matching')
        BY <1>2 DEF FullPages, Walking
      <3>1. ~ShortPage
        BY DEF Select
      <3>2. Offset' = Offset + PageSize /\ Offset \in Nat
        <4>1. CASE Due = {}
          <5>1. Cardinality(Matching) = 0
            BY <1>3, <4>1, FS_EmptySet
          <5>2. Offset \in Nat
            BY <1>1, Subsets
          <5> QED
            BY <1>1, <3>1, <5>1, <5>2, BackfillAssumption DEF ShortPage
        <4>2. CASE Due # {}
          BY <1>1, <4>2, Subsets, PageReceived
        <4> QED
          BY <4>1, <4>2
      <3>3. Cardinality(Matching) \in Nat
        BY <1>3, Fewer
      <3> QED
        BY <1>1, <1>3, <3>1, <3>2, <3>3 DEF ShortPage
    <2>3. BehindIsOlder'
      BY <1>2 DEF IInv, BehindIsOlder, Walking, Older
    <2> QED
      BY <2>1, <2>2, <2>3
  <1>6. PassesOverOnlyWhatMoved'
    <2> DEFINE New == Missed({c \in Due : Passed(c)})'
    <2>1. New \subseteq Old
      <3> SUFFICES ASSUME NEW c \in Due, Passed(c)', c \notin met', c \notin behind'
                   PROVE  Passed(c) /\ c \notin met /\ c \notin behind
        BY <1>3 DEF Missed
      <3> QED
        BY <1>1, <1>2, PageReceived
    <2>2. Cardinality(New) <= Cardinality(Old) /\ Cardinality(New) \in Nat
      BY <1>4, <2>1, Fewer
    <2> QED
      BY <1>1, <1>2, <1>4, <2>2 DEF PassesOverOnlyWhatMoved
  <1>7. Missed(present)' \subseteq Old \union Beyond
    <2> SUFFICES ASSUME NEW c \in Due, c \notin met', c \notin behind, c \notin Beyond
                 PROVE  Passed(c) /\ c \notin met
      BY <1>2 DEF Missed
    <2>1. Rank(c) < Offset + PageSize
      <3>1. c \in Account /\ Rank(c) \in Nat /\ Offset \in Nat
        BY <1>1, <1>3, Subsets, RankBelow
      <3> QED
        BY <1>1, <1>3, <3>1
    <2> QED
      BY <1>1, <1>2, <2>1, PageReceived
  <1>8. CompleteWalkMeetsEveryone'
    <2> SUFFICES ASSUME pc' = "complete"
                 PROVE  /\ Cardinality(Missed(present)') <= left
                        /\ kind = "backfill" =>
                             \A c \in Due \ met' : \E b \in met' : Older(c, b)
      BY <1>2 DEF CompleteWalkMeetsEveryone, Older
    <2>1. ShortPage
      BY DEF Select
    <2>2. Beyond = {}
      <3> SUFFICES ASSUME NEW c \in Beyond
                   PROVE  FALSE
        OBVIOUS
      <3>1. c \in Account /\ Matching \subseteq Account /\ Offset \in Nat
        BY <1>1, Subsets
      <3>2. /\ Rank(c) \in Nat /\ Rank(c) < Cardinality(Matching)
            /\ Cardinality(Matching) \in Nat
        BY <1>1, <3>1, RankBelow, Fewer
      <3> QED
        BY <1>1, <2>1, <3>1, <3>2 DEF ShortPage
    <2>3. Missed(present)' \subseteq Old
      BY <1>7, <2>2
    <2>4. Cardinality(Missed(present)') <= Cardinality(Old)
          /\ Cardinality(Missed(present)') \in Nat
      BY <1>4, <2>3, Fewer
    <2>5. Cardinality(Missed(present)') <= left
      BY <1>1, <1>4, <2>4
    <2>6. ASSUME kind = "backfill", NEW c \in Due \ met'
          PROVE  \E b \in met' : Older(c, b)
      <3>1. left = 0
        BY <1>1, <2>6 DEF TypeOK
      <3>2. IsFiniteSet(Missed(present)') /\ Cardinality(Missed(present)') = 0
        BY <1>4, <2>3, <2>4, <2>5, <3>1, Fewer
      <3>3. Missed(present)' = {}
        BY <3>2, FS_EmptySet
      <3>4. c \in behind
        BY <1>2, <3>3 DEF Missed
      <3> QED
        BY <1>2, <2>6, <3>4 DEF IInv, BehindIsOlder, Walking
    <2> QED
      BY <2>5, <2>6
  <1>9. CountedWalkMissesOnlyTheLate'
    <2> SUFFICES ASSUME pc' = "stopped"
                 PROVE  Cardinality(Missed(present)') <= left + late
      BY <1>2 DEF CountedWalkMissesOnlyTheLate
    <2>1. ~ShortPage /\ page * PageSize >= total
      BY DEF Select
    <2>2. page * PageSize = Offset + PageSize /\ Offset + PageSize \in Nat
      <3>1. Offset \in Nat /\ page - 1 \in Nat /\ page = (page - 1) + 1
        BY <1>1, Subsets DEF TypeOK
      <3>2. \A m, n \in Nat : (m + 1) * n = m * n + n
        OBVIOUS
      <3>3. page * PageSize = (page - 1) * PageSize + PageSize
        BY <1>1, <3>1, <3>2
      <3> QED
        BY <1>1, <3>1, <3>3 DEF Offset
    <2>3. Matching \subseteq Account /\ Beyond \subseteq Account
          /\ Cardinality(Matching) \in Nat /\ Cardinality(Beyond) \in Nat
      <3>1. Matching \subseteq Account
        BY <1>1, Subsets
      <3> QED
        BY <3>1, Fewer
    <2>4. Cardinality(Matching) <= total + late
      BY <1>2 DEF IInv, CountedBefore
    <2>5. Cardinality(Beyond) <= Cardinality(Matching) - (Offset + PageSize)
      <3>1. Offset + PageSize <= Cardinality(Matching)
        BY <2>1, <2>2, <2>3 DEF ShortPage
      <3> QED
        BY <1>1, <2>2, <3>1, RowsBeyond
    <2>6. Cardinality(Old \union Beyond) <= Cardinality(Old) + Cardinality(Beyond)
          /\ Cardinality(Old \union Beyond) \in Nat
      BY <1>4, <2>3, Together
    <2>7. Cardinality(Missed(present)') <= Cardinality(Old \union Beyond)
          /\ Cardinality(Missed(present)') \in Nat
      <3>1. Old \union Beyond \subseteq Account
        BY <1>4, <2>3
      <3> QED
        BY <1>7, <3>1, Fewer
    <2> QED
      BY <1>1, <1>4, <2>1, <2>2, <2>3, <2>4, <2>5, <2>6, <2>7
  <1> QED
    BY <1>5, <1>6, <1>8, <1>9 DEF IInv

-----------------------------------------------------------------------------
(* The other steps of the walk, from the first page or without a page.     *)

(* Asking for the first page, a walk has passed nobody. *)
LEMMA AtTheFirstPage ==
    ASSUME TypeOK', page' = 1
    PROVE  Offset' = 0 /\ \A c : ~Passed(c)'
  <1>1. Offset' = 0
    <2>1. \A n \in Nat : (1 - 1) * n = 0
      OBVIOUS
    <2> QED
      BY <2>1, BackfillAssumption DEF Offset
  <1>2. ASSUME NEW c
        PROVE  Rank(c)' \in Nat
    <2> DEFINE Ahead == {b \in Matching' : Before(b, c)'}
    <2>1. Ahead \subseteq Account
      BY DEF TypeOK, Matching
    <2> QED
      BY <2>1, Fewer DEF Rank
  <1> QED
    BY <1>1, <1>2 DEF Passed

LEMMA FirstPageKeeps ==
    ASSUME TypeOK', NEW from, FirstPage(from)
    PROVE  IInv'
  <1>1. pc' = "asking" /\ page' = 1 /\ behind' = {} /\ left' = 0
    BY DEF FirstPage
  <1>2. PassesOverOnlyWhatMoved'
    <2> DEFINE Gone == {c \in Due : Passed(c)}
    <2>1. Missed(Gone)' = {}
      BY <1>1, AtTheFirstPage DEF Missed
    <2>2. Cardinality(Missed(Gone)') = 0
      BY <2>1, FS_EmptySet
    <2> QED
      BY <1>1, <2>2 DEF PassesOverOnlyWhatMoved
  <1>3. FullPages' /\ BehindIsOlder'
    <2>1. Matching' \subseteq Account
      BY DEF TypeOK, Matching
    <2>2. Cardinality(Matching') \in Nat
      BY <2>1, Fewer
    <2>3. Offset' = 0
      BY <1>1, AtTheFirstPage
    <2> QED
      BY <1>1, <2>2, <2>3 DEF FullPages, BehindIsOlder
  <1> QED
    BY <1>1, <1>2, <1>3 DEF IInv, CountedBefore, CompleteWalkMeetsEveryone,
                            CountedWalkMissesOnlyTheLate

LEMMA CountKeeps ==
    ASSUME IInv, TypeOK', Count
    PROVE  IInv'
  <1>1. /\ kind' = kind /\ created' = created /\ stored' = stored
        /\ wanted' = wanted /\ since' = since /\ page' = page
        /\ met' = met /\ behind' = behind /\ left' = left
        /\ pc \in {"asking", "counted"} /\ pc' = "counted" /\ total' = Cardinality(Matching) /\ late' = 0
    BY DEF Count, tableVars
  <1>2. Matching' = Matching /\ Due' = Due
    BY <1>1 DEF Matching, Due
  <1>3. CountedBefore'
    <2>1. Matching \subseteq Account
      BY Subsets DEF IInv
    <2>2. Cardinality(Matching) \in Nat
      BY <2>1, Fewer
    <2> QED
      BY <1>1, <1>2, <2>2 DEF CountedBefore
  <1>4. PassesOverOnlyWhatMoved'
    <2>1. \A c : Passed(c)' <=> Passed(c)
      BY <1>1, <1>2 DEF Passed, Rank, Before, Older, Offset
    <2>2. Missed({c \in Due : Passed(c)})' = Missed({c \in Due : Passed(c)})
      BY <1>1, <1>2, <2>1 DEF Missed
    <2> QED
      BY <1>1, <2>2 DEF IInv, PassesOverOnlyWhatMoved
  <1>5. FullPages' /\ BehindIsOlder'
    BY <1>1, <1>2 DEF IInv, FullPages, BehindIsOlder, Walking, Offset, Older
  <1> QED
    BY <1>1, <1>3, <1>4, <1>5 DEF IInv, CompleteWalkMeetsEveryone,
                            CountedWalkMissesOnlyTheLate

LEMMA FailureKeeps ==
    ASSUME IInv, TypeOK', RequestFails
    PROVE  IInv'
  <1>1. /\ kind' = kind /\ created' = created /\ stored' = stored
        /\ wanted' = wanted /\ since' = since /\ page' = page
        /\ met' = met /\ behind' = behind /\ left' = left
        /\ pc \in {"asking", "counted"} /\ pc' = "asking"
    BY DEF RequestFails, tableVars, historyVars
  <1>2. Matching' = Matching /\ Due' = Due
    BY <1>1 DEF Matching, Due
  <1>3. \A c : Passed(c)' <=> Passed(c)
    BY <1>1, <1>2 DEF Passed, Rank, Before, Older, Offset
  <1>4. Missed({c \in Due : Passed(c)})' = Missed({c \in Due : Passed(c)})
    BY <1>1, <1>2, <1>3 DEF Missed
  <1>5. FullPages' /\ BehindIsOlder'
    BY <1>1, <1>2 DEF IInv, FullPages, BehindIsOlder, Walking, Offset, Older
  <1> QED
    BY <1>1, <1>4, <1>5 DEF IInv, CountedBefore, PassesOverOnlyWhatMoved,
                      CompleteWalkMeetsEveryone, CountedWalkMissesOnlyTheLate

-----------------------------------------------------------------------------
(* Types, and every step together.                                         *)

LEMMA InitHolds == Init => IInv
  <1> SUFFICES ASSUME Init
               PROVE  IInv
    OBVIOUS
  <1>1. TypeOK
    BY BackfillAssumption DEF Init, TypeOK, Time
  <1>2. Cardinality(Missed({c \in Due : Passed(c)})) <= left
    <2>1. Missed({c \in Due : Passed(c)}) = {}
      BY DEF Init, Missed, Due
    <2>2. Cardinality(Missed({c \in Due : Passed(c)})) = 0
      BY <2>1, FS_EmptySet
    <2> QED
      BY <2>2 DEF Init
  <1> QED
    BY <1>1, <1>2 DEF IInv, CountedBefore, FullPages, BehindIsOlder, Walking,
                      PassesOverOnlyWhatMoved, Init,
                      CompleteWalkMeetsEveryone, CountedWalkMissesOnlyTheLate

LEMMA TypesKept == TypeOK /\ [Next]_vars => TypeOK'
  <1> SUFFICES ASSUME TypeOK, [Next]_vars
               PROVE  TypeOK'
    OBVIOUS
  <1>1. ASSUME NEW a \in Account, RegisterUser(a)
        PROVE  TypeOK'
    BY <1>1 DEF RegisterUser, TypeOK, walkVars, historyVars
  <1>2. ASSUME NEW a \in Account, Commit(a)
        PROVE  TypeOK'
    <2>1. wanted' \subseteq stored' /\ (kind = "backfill" => wanted' = {})
      BY <1>2 DEF Commit, MayPassFilter, TypeOK
    <2>2. behind' \subseteq stored' /\ late' \in Nat /\ UNCHANGED <<left, walkVars>>
      BY <1>2 DEF Commit, ComesUp, TypeOK
    <2> QED
      BY <1>2, <2>1, <2>2 DEF Commit, TypeOK, walkVars
  <1>3. ASSUME NEW a \in Account, Rollback(a)
        PROVE  TypeOK'
    BY <1>3 DEF Rollback, TypeOK, walkVars, historyVars
  <1>4. ASSUME NEW a \in Account, NEW t \in Time, Import(a, t)
        PROVE  TypeOK'
    <2>1. wanted' \subseteq stored' /\ (kind = "backfill" => wanted' = {})
      BY <1>4 DEF Import, MayPassFilter, TypeOK
    <2>2. behind' \subseteq stored' /\ late' \in Nat /\ UNCHANGED <<left, walkVars>>
      BY <1>4 DEF Import, ComesUp, TypeOK
    <2> QED
      BY <1>4, <2>1, <2>2 DEF Import, TypeOK, walkVars
  <1>5. ASSUME NEW a \in Account, Enter(a)
        PROVE  TypeOK'
    <2>1. behind' \subseteq stored' /\ late' \in Nat /\ UNCHANGED <<left, walkVars>>
      BY <1>5 DEF Enter, ComesUp, TypeOK, tableVars
    <2> QED
      BY <1>5, <2>1 DEF Enter, TypeOK, walkVars, tableVars
  <1>6. ASSUME NEW a \in Account, Leave(a)
        PROVE  TypeOK'
    BY <1>6, BackfillAssumption DEF Leave, TypeOK, walkVars, tableVars
  <1>7. CASE Tick
    BY <1>7, BackfillAssumption DEF Tick, TypeOK, walkVars, historyVars, Time
  <1>8. ASSUME NEW from \in 0..now, StartBackfill(from)
        PROVE  TypeOK'
    <2>1. from \in Time
      BY <1>8, BackfillAssumption DEF TypeOK, Time
    <2> QED
      BY <1>8, <2>1, BackfillAssumption
      DEF StartBackfill, StartWalk, FirstPage, TypeOK, tableVars, Time
  <1>9. ASSUME NEW some \in SUBSET stored, StartList(some)
        PROVE  TypeOK'
    BY <1>9, BackfillAssumption DEF StartList, StartWalk, FirstPage, TypeOK, tableVars, Time
  <1>10. CASE Count
    <2>1. Cardinality(Matching) \in Nat
      <3>1. Matching \subseteq Account
        BY Subsets
      <3> QED
        BY <3>1, Fewer
    <2> QED
      BY <1>10, <2>1 DEF Count, TypeOK, tableVars
  <1>11. CASE Select
    <2>1. Page \subseteq stored /\ Due \subseteq stored
      BY Subsets
    <2>2. kind = "backfill" => \A a \in Page : created[a] >= since
      BY DEF Page, Matching
    <2>3. /\ pc' \in {"complete", "asking", "stopped"} /\ page' = page + 1
          /\ met' = met \union Page /\ present' = Due
          /\ UNCHANGED <<tableVars, wanted, kind, since, total, historyVars>>
      BY <1>11 DEF Select
    <2> QED
      BY <2>1, <2>2, <2>3 DEF TypeOK, tableVars, historyVars
  <1>12. CASE RequestFails
    BY <1>12 DEF RequestFails, TypeOK, tableVars, historyVars
  <1>13. CASE StartAgain
    BY <1>13 DEF StartAgain, FirstPage, TypeOK, tableVars
  <1>14. CASE UNCHANGED vars
    BY <1>14 DEF vars, tableVars, walkVars, historyVars, TypeOK
  <1> QED
    BY <1>1, <1>2, <1>3, <1>4, <1>5, <1>6, <1>7, <1>8, <1>9, <1>10, <1>11,
       <1>12, <1>13, <1>14 DEF Next

(* The steps that bring an account up, or change nothing that is due. *)
LEMMA Quiet ==
    ASSUME TypeOK, NEW a \in Account,
           stored' = stored, wanted' = wanted,
           \A b \in stored : created'[b] = created[b],
           UNCHANGED <<walkVars, historyVars>>
    PROVE  Advances(a)
  <1>1. Due' = Due /\ Matching' = Matching
    BY Subsets DEF Due, Matching, walkVars
  <1> QED
    BY <1>1 DEF Advances, TypeOK, historyVars

LEMMA Rising ==
    ASSUME TypeOK, NEW a \in Account, ComesUp(a),
           stored \subseteq stored', stored' \subseteq stored \union {a},
           wanted \subseteq wanted', wanted' \subseteq wanted \union {a},
           \A b \in stored : created'[b] = created[b]
    PROVE  Advances(a)
  <1>1. UNCHANGED <<walkVars, left>>
    BY DEF ComesUp
  <1>2. Due' \subseteq Due \union {a} /\ Matching' \subseteq Matching \union {a}
    BY <1>1 DEF Due, Matching, walkVars
  <1> QED
    BY <1>1, <1>2 DEF Advances, ComesUp, TypeOK

LEMMA StepKeeps == IInv /\ [Next]_vars => IInv'
  <1> SUFFICES ASSUME IInv, [Next]_vars
               PROVE  IInv'
    OBVIOUS
  <1>1. TypeOK /\ TypeOK'
    BY TypesKept DEF IInv
  <1>2. ASSUME NEW a \in Account, RegisterUser(a) \/ Rollback(a)
        PROVE  IInv'
    <2>1. \A b \in stored : created'[b] = created[b]
      BY <1>1, <1>2 DEF RegisterUser, Rollback, TypeOK
    <2>2. stored' = stored /\ wanted' = wanted /\ UNCHANGED <<walkVars, historyVars>>
      BY <1>2 DEF RegisterUser, Rollback
    <2> QED
      BY <1>1, <2>1, <2>2, Quiet, AdvanceKeeps
  <1>3. ASSUME NEW a \in Account, Commit(a)
        PROVE  IInv'
    <2>1. Advances(a)
      BY <1>1, <1>3, Rising DEF Commit, MayPassFilter
    <2> QED
      BY <1>1, <2>1, AdvanceKeeps
  <1>4. ASSUME NEW a \in Account, NEW t \in Time, Import(a, t)
        PROVE  IInv'
    <2>1. \A b \in stored : created'[b] = created[b]
      BY <1>1, <1>4 DEF Import, TypeOK
    <2>2. Advances(a)
      BY <1>1, <1>4, <2>1, Rising DEF Import, MayPassFilter
    <2> QED
      BY <1>1, <2>2, AdvanceKeeps
  <1>5. ASSUME NEW a \in Account, Enter(a)
        PROVE  IInv'
    <2>1. Advances(a)
      BY <1>1, <1>5, Rising DEF Enter, tableVars
    <2> QED
      BY <1>1, <2>1, AdvanceKeeps
  <1>6. ASSUME NEW a \in Account, Leave(a)
        PROVE  IInv'
    BY <1>1, <1>6, LeaveKeeps
  <1>7. ASSUME Tick \/ UNCHANGED vars
        PROVE  IInv'
    <2>1. /\ stored' = stored /\ wanted' = wanted /\ created' = created
          /\ UNCHANGED <<walkVars, historyVars>>
      BY <1>7 DEF Tick, vars, tableVars
    <2>2. CASE Account = {}
      <3>1. Due = {} /\ Due' = {} /\ Matching = {} /\ Matching' = {}
        BY <1>1, <2>2 DEF TypeOK, Due, Matching
      <3> QED
        BY <1>1, <2>1, <3>1 DEF IInv, CountedBefore, FullPages, BehindIsOlder,
           Walking, Offset, Older, PassesOverOnlyWhatMoved,
           CompleteWalkMeetsEveryone, CountedWalkMissesOnlyTheLate, Missed,
           walkVars, historyVars
    <2>3. CASE Account # {}
      <3>1. PICK a \in Account : TRUE
        BY <2>3
      <3>2. Advances(a)
        BY <1>1, <2>1, Quiet
      <3> QED
        BY <1>1, <3>2, AdvanceKeeps
    <2> QED
      BY <2>2, <2>3
  <1>8. ASSUME NEW from \in 0..now, StartBackfill(from)
        PROVE  IInv'
    BY <1>1, <1>8, FirstPageKeeps DEF StartBackfill, StartWalk
  <1>9. ASSUME NEW some \in SUBSET stored, StartList(some)
        PROVE  IInv'
    BY <1>1, <1>9, FirstPageKeeps DEF StartList, StartWalk
  <1>10. CASE StartAgain
    BY <1>1, <1>10, FirstPageKeeps DEF StartAgain
  <1> QED
    BY <1>1, <1>2, <1>3, <1>4, <1>5, <1>6, <1>7, <1>8, <1>9, <1>10, CountKeeps,
       SelectKeeps, FailureKeeps DEF Next

LEMMA IInvHolds == Spec => []IInv
  BY InitHolds, StepKeeps, PTL DEF Spec

-----------------------------------------------------------------------------
(* Types hold for every set of accounts, and a backfill receives nobody    *)
(* from before the `since` its module gives (list_users).                  *)
THEOREM BackfillTypeCorrect == Spec => []TypeOK
  <1>1. IInv => TypeOK
    BY DEF IInv
  <1> QED
    BY <1>1, IInvHolds, PTL

(* Whatever comes up or leaves while somebody walks, whichever requests    *)
(* fail, and however often a module begins again, the pages gone past have *)
(* shown everybody on them but the accounts that came up there since, and  *)
(* one for each that left.                                                 *)
THEOREM OnlyWhatMovedIsPassedOver == Spec => []PassesOverOnlyWhatMoved
  <1>1. IInv => PassesOverOnlyWhatMoved
    BY DEF IInv
  <1> QED
    BY <1>1, IInvHolds, PTL

(* A walk that ends on a short page is complete, with the same exceptions; *)
(* and whom a backfill misses is older than somebody it received.          *)
THEOREM CompleteWalks == Spec => []CompleteWalkMeetsEveryone
  <1>1. IInv => CompleteWalkMeetsEveryone
    BY DEF IInv
  <1> QED
    BY <1>1, IInvHolds, PTL

(* A walk that ends by total_pages misses besides at most the accounts     *)
(* that came up between the COUNT and the SELECT of its last request.      *)
THEOREM CountedWalks == Spec => []CountedWalkMissesOnlyTheLate
  <1>1. IInv => CountedWalkMissesOnlyTheLate
    BY DEF IInv
  <1> QED
    BY <1>1, IInvHolds, PTL
=============================================================================
