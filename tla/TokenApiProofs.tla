--------------------------- MODULE TokenApiProofs ---------------------------
(***************************************************************************)
(* Proofs about what the API reads: HistoryPages, TokenControls and        *)
(* PolicySnapshot, for every history, every page size and every order in   *)
(* which rows are stored between two requests.                             *)
(*                                                                         *)
(*   PageMeaning   what one page shows and where its cursor points         *)
(*   Paging        the pages so far against the cursor and the first page  *)
(*   ReplayExists, ReplayInduction   what a replay of stored rows is       *)
(*   RolesHold, AnnouncementsReplayed, ControlsReplayed                    *)
(*                 what each replay has found when it has read some rows   *)
(*   Reach, After  what resolve adds to a table of policies, in closed form *)
(*   Sound         every entry of the table is what the registry tables say *)
(***************************************************************************)
EXTENDS HistoryPages, TokenControls, PolicySnapshot, FiniteSetTheorems, WellFoundedInduction, TLAPS

(* A set of stored events: a subset of one history. *)
Rows(S) == \E h \in Histories : S \subseteq h

Above(S, l) == {k \in S : Before(l, k)}

-----------------------------------------------------------------------------
(* The order of events.                                                    *)

LEMMA RowOrder ==
    ASSUME NEW S, Rows(S), NEW k \in S, NEW l \in S
    PROVE  /\ l.block \in Nat /\ l.index \in Nat
           /\ ~Before(l, l)
           /\ Before(k, l) => ~Before(l, k)
           /\ \A j \in S : Before(j, k) /\ Before(k, l) => Before(j, l)
           /\ k = l \/ Before(k, l) \/ Before(l, k)
<1>1. PICK h \in Histories : S \subseteq h
  BY DEF Rows
<1>2. \A j \in S : j.block \in Nat /\ j.index \in Nat
  BY <1>1, HistoriesAssumption
<1>3. k = l \/ k.block # l.block \/ k.index # l.index
  BY <1>1, HistoriesAssumption
<1> QED
  BY <1>2, <1>3 DEF Before

LEMMA RowsFinite ==
    ASSUME NEW S, Rows(S), NEW T \in SUBSET S
    PROVE  /\ IsFiniteSet(T) /\ Cardinality(T) \in Nat
           /\ Rows(T)
<1>1. PICK h \in Histories : S \subseteq h
  BY DEF Rows
<1>2. IsFiniteSet(T)
  BY <1>1, HistoriesAssumption, FS_Subset
<1> QED
  BY <1>1, <1>2, FS_CardinalityType DEF Rows

(* Some row of T has none of T above it; the proof takes one with the      *)
(* fewest rows of S above it.                                              *)
LEMMA TopExists ==
    ASSUME NEW S, Rows(S), NEW T \in SUBSET S, T # {}
    PROVE  \E t \in T : \A k \in Above(S, t) : k \notin T
<1> DEFINE N == {Cardinality(Above(S, t)) : t \in T}
<1>1. \A t \in S : Above(S, t) \in SUBSET S /\ Cardinality(Above(S, t)) \in Nat
  BY RowsFinite DEF Above
<1>2. N \subseteq Nat /\ N # {}
  BY <1>1
<1>3. PICK n \in N : \A m \in N : ~(<<m, n>> \in OpToRel(<, Nat))
  <2> HIDE DEF N
  <2> QED
    BY <1>2, WFMin, NatLessThanWellFounded
<1>4. \A m \in N : ~(m < n)
  BY <1>2, <1>3 DEF OpToRel
<1>5. PICK t \in T : n = Cardinality(Above(S, t))
  OBVIOUS
<1>6. ASSUME NEW k \in Above(S, t), k \in T PROVE FALSE
  <2>1. k \in S /\ Before(t, k)
    BY <1>6 DEF Above
  <2>2. Above(S, k) \subseteq Above(S, t) /\ k \notin Above(S, k)
    BY <2>1, RowOrder DEF Above
  <2>3. Cardinality(Above(S, k)) <= n /\ Cardinality(Above(S, k)) # n
    <3>1. IsFiniteSet(Above(S, t))
      BY RowsFinite DEF Above
    <3> QED
      BY <1>5, <1>6, <2>2, <3>1, FS_Subset
  <2>4. Cardinality(Above(S, k)) \in N
    BY <1>6
  <2>5. /\ Cardinality(Above(S, k)) \in Nat /\ n \in Nat
        /\ ~(Cardinality(Above(S, k)) < n)
    BY <1>2, <1>4, <2>4
  <2> QED
    BY <2>3, <2>5
<1> QED
  BY <1>6

(* The oldest row of a set: nothing of the set is below it. *)
LEMMA OldestExists ==
    ASSUME NEW S, Rows(S), S # {}
    PROVE  \E l \in S : \A k \in S : k = l \/ Before(l, k)
<1> DEFINE Below(l) == {k \in S : Before(k, l)}
           N == {Cardinality(Below(l)) : l \in S}
<1>1. \A l \in S : Below(l) \in SUBSET S /\ Cardinality(Below(l)) \in Nat
  BY RowsFinite
<1>2. N \subseteq Nat /\ N # {}
  BY <1>1
<1>3. PICK n \in N : \A m \in N : ~(<<m, n>> \in OpToRel(<, Nat))
  <2> HIDE DEF N
  <2> QED
    BY <1>2, WFMin, NatLessThanWellFounded
<1>4. \A m \in N : ~(m < n)
  BY <1>2, <1>3 DEF OpToRel
<1>5. PICK l \in S : n = Cardinality(Below(l))
  OBVIOUS
<1>6. ASSUME NEW k \in Below(l) PROVE FALSE
  <2>1. k \in S /\ Before(k, l)
    BY <1>6
  <2>2. Below(k) \subseteq Below(l) /\ k \notin Below(k)
    BY <2>1, RowOrder
  <2>3. Cardinality(Below(k)) <= n /\ Cardinality(Below(k)) # n
    <3>1. IsFiniteSet(Below(l))
      BY <1>1, RowsFinite
    <3> HIDE DEF Below
    <3> QED
      BY <1>5, <1>6, <2>2, <3>1, FS_Subset
  <2>4. Cardinality(Below(k)) \in N
    BY <2>1
  <2>5. /\ Cardinality(Below(k)) \in Nat /\ n \in Nat
        /\ ~(Cardinality(Below(k)) < n)
    BY <1>2, <1>4, <2>4
  <2> QED
    BY <2>3, <2>5
<1>7. ASSUME NEW k \in S PROVE k = l \/ Before(l, k)
  BY <1>6, <1>7, RowOrder
<1> QED
  BY <1>7

-----------------------------------------------------------------------------
(* LIMIT n in the order block DESC, log_index DESC.                        *)

LEMMA NewestMeaning ==
    ASSUME NEW S, NEW n
    PROVE  Newest(S, n) = {l \in S : Cardinality(Above(S, l)) < n}
BY DEF Newest, Above

(* Fewer rows than the limit are all the rows. *)
LEMMA FewAreAll ==
    ASSUME NEW S, Rows(S), NEW n \in Nat, Cardinality(Newest(S, n)) < n
    PROVE  Newest(S, n) = S
<1> SUFFICES ASSUME S \ Newest(S, n) # {} PROVE FALSE
  BY NewestMeaning
<1>1. PICK t \in S \ Newest(S, n) : \A k \in Above(S, t) : k \notin S \ Newest(S, n)
  BY TopExists
<1>2. Above(S, t) \subseteq Newest(S, n)
  BY <1>1 DEF Above
<1>3. IsFiniteSet(Newest(S, n)) /\ Cardinality(Newest(S, n)) \in Nat
  BY RowsFinite, NewestMeaning
<1>4. Cardinality(Above(S, t)) <= Cardinality(Newest(S, n))
  BY <1>2, <1>3, FS_Subset
<1>5. ~(Cardinality(Above(S, t)) < n) /\ Cardinality(Above(S, t)) \in Nat
  BY <1>1, NewestMeaning, RowsFinite DEF Above
<1> QED
  BY <1>3, <1>4, <1>5

(* And a limit that is not exceeded cuts nothing off. *)
LEMMA AllFit ==
    ASSUME NEW S, Rows(S), NEW n \in Nat, Cardinality(S) <= n
    PROVE  Newest(S, n) = S
<1> SUFFICES ASSUME NEW l \in S PROVE Cardinality(Above(S, l)) < n
  BY NewestMeaning
<1>1. Above(S, l) \subseteq S /\ l \notin Above(S, l)
  BY RowOrder DEF Above
<1>2. IsFiniteSet(S) /\ Cardinality(S) \in Nat /\ Cardinality(Above(S, l)) \in Nat
  BY <1>1, RowsFinite
<1>3. Cardinality(Above(S, l)) <= Cardinality(S) /\ Cardinality(Above(S, l)) # Cardinality(S)
  BY <1>1, <1>2, FS_Subset
<1> QED
  BY <1>2, <1>3

LEMMA SomeAreNewest ==
    ASSUME NEW S, Rows(S), S # {}, NEW n \in Nat \ {0}
    PROVE  Newest(S, n) # {}
<1>1. PICK t \in S : \A k \in Above(S, t) : k \notin S
  BY TopExists
<1>2. Above(S, t) = {}
  BY <1>1 DEF Above
<1>3. Cardinality(Above(S, t)) = 0 /\ 0 < n
  BY <1>2, FS_EmptySet
<1> QED
  BY <1>3, NewestMeaning

(* What is newer than a row within the limit is within the limit. *)
LEMMA NewestUpward ==
    ASSUME NEW S, Rows(S), NEW n \in Nat, NEW k \in Newest(S, n), NEW l \in S, Before(k, l)
    PROVE  l \in Newest(S, n)
<1>1. k \in S /\ Cardinality(Above(S, k)) < n
  BY NewestMeaning
<1>2. Above(S, l) \subseteq Above(S, k)
  BY <1>1, RowOrder DEF Above
<1>3. IsFiniteSet(Above(S, k)) /\ Cardinality(Above(S, k)) \in Nat
      /\ Cardinality(Above(S, l)) \in Nat
  BY RowsFinite DEF Above
<1>4. Cardinality(Above(S, l)) <= Cardinality(Above(S, k))
  BY <1>2, <1>3, FS_Subset
<1> QED
  BY <1>1, <1>3, <1>4, NewestMeaning

-----------------------------------------------------------------------------
(* One page.                                                               *)

(* Either the page shows all the rows asked for and is the last one, or    *)
(* the rows it leaves out are exactly those behind its cursor.             *)
LEMMA PageMeaning ==
    ASSUME NEW M, Rows(M), Page(M)
    PROVE  /\ page' \subseteq M /\ seen' = seen \cup page
           /\ \/ pc' = "done" /\ page' = M
              \/ /\ pc' = "paging"
                 /\ \E last \in M :
                      /\ cursor' = <<last.block, last.index>>
                      /\ \A l \in M : l \in page' <=> ~Before(l, last)
<1> DEFINE fetched == Newest(M, Limit + 1)
           shown == Newest(fetched, Limit)
           last == CHOOSE l \in shown : \A k \in shown : k = l \/ Before(l, k)
<1>0. Limit \in Nat /\ Limit > 0
  BY PagesAssumption
<1>1. /\ page' = shown /\ seen' = seen \cup page
      /\ IF Cardinality(fetched) > Limit
         THEN cursor' = <<last.block, last.index>> /\ pc' = "paging"
         ELSE pc' = "done" /\ UNCHANGED cursor
  BY DEF Page
<1>2. fetched \in SUBSET M /\ Rows(fetched) /\ Cardinality(fetched) \in Nat
  BY NewestMeaning, RowsFinite
<1>3. shown \in SUBSET fetched /\ Rows(shown)
  BY <1>2, NewestMeaning, RowsFinite
<1>4. CASE ~(Cardinality(fetched) > Limit)
  <2>1. Cardinality(fetched) < Limit + 1 /\ Limit + 1 \in Nat
    BY <1>0, <1>2, <1>4
  <2>2. fetched = M
    BY <2>1, FewAreAll
  <2>3. Cardinality(fetched) <= Limit
    BY <1>0, <1>2, <1>4
  <2> HIDE DEF fetched
  <2>4. shown = fetched
    BY <1>0, <1>2, <2>3, AllFit
  <2> QED
    BY <1>1, <1>4, <2>2, <2>4
<1>5. CASE Cardinality(fetched) > Limit
  <2>1. fetched # {}
    BY <1>0, <1>5, FS_EmptySet
  <2>2. shown # {}
    <3> HIDE DEF fetched
    <3>1. Limit \in Nat \ {0}
      BY <1>0
    <3> QED
      BY <1>2, <2>1, <3>1, SomeAreNewest
  <2>3. last \in shown /\ \A k \in shown : k = last \/ Before(last, k)
    <3> HIDE DEF shown
    <3> QED
      BY <1>3, <2>2, OldestExists
  <2>4. last \in fetched /\ last \in M
    BY <1>2, <1>3, <2>3
  <2> HIDE DEF last
  <2>5. ASSUME NEW l \in M, l \in shown PROVE ~Before(l, last)
    BY <2>3, <2>4, <2>5, RowOrder
  <2>6. ASSUME NEW l \in M, ~Before(l, last) PROVE l \in shown
    <3>1. CASE l = last
      BY <2>3, <3>1
    <3>2. CASE l # last
      <4>1. Before(last, l)
        BY <2>4, <2>6, <3>2, RowOrder
      <4>2. l \in fetched
        <5>1. Limit + 1 \in Nat
          BY <1>0
        <5> QED
          BY <2>4, <4>1, <5>1, NewestUpward
      <4> HIDE DEF fetched
      <4> QED
        BY <1>0, <1>2, <2>3, <4>1, <4>2, NewestUpward
    <3> QED
      BY <3>1, <3>2
  <2> HIDE DEF shown, fetched
  <2> QED
    BY <1>1, <1>2, <1>3, <1>5, <2>4, <2>5, <2>6
<1> HIDE DEF shown, fetched, last
<1> QED
  BY <1>2, <1>4, <1>5

-----------------------------------------------------------------------------
(* The pages so far.                                                       *)

Shown == seen \cup page

Paging ==
    /\ chain \in Histories /\ rows \subseteq chain
    /\ cursor \in Nat \X Nat
    /\ basis \cup Shown \subseteq TokenRows(rows)
    /\ page \cap seen = {}
    /\ pc = "start" => page = {}
    /\ pc = "start" => seen = {}
    /\ pc = "paging" => /\ \A l \in Shown : ~Behind(l, cursor)
                        /\ \A l \in basis : l \in Shown \/ Behind(l, cursor)
    /\ pc = "done" => basis \subseteq Shown

(* A history never loses a row. *)
LEMMA HistoryGrows ==
    ASSUME NEW S, NEW T, S \subseteq T
    PROVE  TokenRows(S) \subseteq TokenRows(T) /\ TokenRows(T) \subseteq T
BY DEF TokenRows

LEMMA BehindLast ==
    ASSUME NEW l, NEW last
    PROVE  Behind(l, <<last.block, last.index>>) <=> Before(l, last)
BY DEF Behind, Before

LEMMA InitPaging == Init => Paging
BY DEF Init, Empty, Paging, Shown

LEMMA PagingStep ==
    ASSUME Paging, [Next]_vars
    PROVE  Paging'
<1>1. CASE UNCHANGED vars
  BY <1>1 DEF vars, Paging, Shown, TokenRows, Behind
<1>2. CASE StoreRow
  <2>1. rows \subseteq rows' /\ rows' \subseteq chain /\ chain' = chain /\ UNCHANGED reader
    BY <1>2 DEF StoreRow, Store, Paging
  <2>2. TokenRows(rows) \subseteq TokenRows(rows')
    BY <2>1, HistoryGrows
  <2>3. UNCHANGED <<cursor, page, seen, basis, pc>>
    BY <2>1 DEF reader
  <2>4. Shown' = Shown /\ TokenRows(rows)' = TokenRows(rows')
    BY <2>3 DEF Shown
  <2> QED
    BY <2>1, <2>2, <2>3, <2>4 DEF Paging, Behind
<1>3. CASE FirstPage
  <2> DEFINE M == TokenRows(rows)
  <2>1. M \subseteq rows /\ Rows(M)
    BY HistoryGrows DEF Paging, Rows
  <2>2. basis' = M /\ Page(M) /\ UNCHANGED <<chain, rows>> /\ Shown = {}
    BY <1>3 DEF FirstPage, Paging, Shown
  <2> HIDE DEF M
  <2>3. PICK last : /\ page' \subseteq M /\ seen' = seen \cup page
                    /\ \/ pc' = "done" /\ page' = M /\ cursor' \in Nat \X Nat
                       \/ /\ pc' = "paging" /\ cursor' \in Nat \X Nat
                          /\ cursor' = <<last.block, last.index>>
                          /\ \A l \in M : l \in page' <=> ~Before(l, last)
    <3>1. cursor' = cursor \/ pc' = "paging"
      BY <2>2 DEF Page
    <3>2. \A last \in M : <<last.block, last.index>> \in Nat \X Nat
      BY <2>1, RowOrder
    <3> QED
      BY <2>1, <2>2, <3>1, <3>2, PageMeaning DEF Paging
  <2>4. Shown' = page' /\ page' \cap seen' = {} /\ TokenRows(rows)' = M
    BY <2>2, <2>3 DEF Shown, M, TokenRows
  <2> QED
    BY <2>2, <2>3, <2>4, BehindLast DEF Paging
<1>4. CASE NextPage
  <2> DEFINE M == {l \in TokenRows(rows) : Behind(l, cursor)}
  <2>1. M \subseteq TokenRows(rows) /\ TokenRows(rows) \subseteq rows
        /\ Rows(M) /\ Rows(TokenRows(rows))
    BY HistoryGrows DEF Paging, Rows
  <2>2. /\ pc = "paging" /\ basis' = basis /\ Page(M) /\ UNCHANGED <<chain, rows>>
        /\ \A l \in Shown : ~Behind(l, cursor)
        /\ \A l \in basis : l \in Shown \/ l \in M
    BY <1>4 DEF NextPage, Paging
  <2>3. \A l \in M : Behind(l, cursor)
    OBVIOUS
  <2> HIDE DEF M
  <2>4. /\ page' \subseteq M /\ seen' = Shown
        /\ \/ pc' = "done" /\ page' = M /\ cursor' \in Nat \X Nat
           \/ /\ pc' = "paging" /\ cursor' \in Nat \X Nat
              /\ \E last \in M : /\ cursor' = <<last.block, last.index>>
                                 /\ \A l \in M : l \in page' <=> ~Before(l, last)
    <3>1. cursor' = cursor \/ pc' = "paging"
      BY <2>2 DEF Page
    <3>2. \A last \in M : <<last.block, last.index>> \in Nat \X Nat
      BY <2>1, RowOrder
    <3> QED
      BY <2>1, <2>2, <3>1, <3>2, PageMeaning DEF Paging, Shown
  <2>5. page' \cap seen' = {}
    BY <2>2, <2>3, <2>4
  <2>6. basis' \cup Shown' \subseteq TokenRows(rows) /\ TokenRows(rows)' = TokenRows(rows)
        /\ Shown' = Shown \cup page'
    BY <2>1, <2>2, <2>4 DEF Shown, Paging, TokenRows
  <2>7. CASE pc' = "done" /\ page' = M
    <3>1. basis' \subseteq Shown'
      BY <2>2, <2>6, <2>7
    <3> QED
      BY <2>2, <2>4, <2>5, <2>6, <2>7, <3>1 DEF Paging
  <2>8. ASSUME pc' = "paging", NEW last \in M, cursor' = <<last.block, last.index>>,
               \A l \in M : l \in page' <=> ~Before(l, last)
        PROVE  Paging'
    <3>1. ASSUME NEW l \in Shown' PROVE ~Behind(l, cursor')
      <4>1. CASE l \in page'
        BY <2>4, <2>8, <4>1, BehindLast
      <4>2. CASE l \in Shown
        <5>1. ~Behind(l, cursor) /\ Behind(last, cursor)
          BY <2>2, <2>3, <4>2
        <5>2. /\ l.block \in Nat /\ l.index \in Nat
              /\ last.block \in Nat /\ last.index \in Nat
          BY <2>1, <4>2, RowOrder DEF Paging
        <5>3. cursor[1] \in Nat /\ cursor[2] \in Nat
          BY DEF Paging
        <5>4. ~Before(l, last)
          BY <5>1, <5>2, <5>3 DEF Behind, Before
        <5> QED
          BY <2>8, <5>4, BehindLast
      <4> QED
        BY <2>6, <3>1, <4>1, <4>2
    <3>2. ASSUME NEW l \in basis' PROVE l \in Shown' \/ Behind(l, cursor')
      BY <2>2, <2>6, <2>8, <3>2, BehindLast
    <3> QED
      BY <2>2, <2>4, <2>5, <2>6, <2>8, <3>1, <3>2 DEF Paging
  <2> QED
    BY <2>4, <2>7, <2>8
<1>5. CASE Again
  <2>1. Shown' = {} /\ TokenRows(rows)' = TokenRows(rows)
    BY <1>5 DEF Again, Shown, TokenRows
  <2> QED
    BY <1>5, <2>1 DEF Again, Paging
<1> QED
  BY <1>1, <1>2, <1>3, <1>4, <1>5 DEF Next

(* The pages shown so far and the cursor divide the first page's history. *)
THEOREM PagingInvariant == Spec => []Paging
BY InitPaging, PagingStep, PTL DEF Spec

(* The reader who follows nextCursor to the end has seen every row of the  *)
(* history as it was at the first page, and none twice, though rows are    *)
(* stored on both sides of the cursor meanwhile (runPaged).                *)
THEOREM PagesExact == Spec => []PagingExact
<1>1. Paging => PagingExact
  BY DEF Paging, PagingExact, Shown
<1> QED
  BY PagingInvariant, <1>1, PTL

-----------------------------------------------------------------------------
(* Replaying stored rows from the newest one down.                         *)

(* A smallest member of a set of subsets of a finite set. *)
LEMMA SmallestExists ==
    ASSUME NEW S, IsFiniteSet(S), NEW Bad \in SUBSET (SUBSET S), Bad # {}
    PROVE  \E U \in Bad : \A T \in Bad : T \subseteq U => T = U
<1> DEFINE N == {Cardinality(U) : U \in Bad}
<1>1. \A U \in Bad : IsFiniteSet(U) /\ Cardinality(U) \in Nat
  BY FS_Subset, FS_CardinalityType
<1>2. N \subseteq Nat /\ N # {}
  BY <1>1
<1>3. PICK n \in N : \A m \in N : ~(<<m, n>> \in OpToRel(<, Nat))
  <2> HIDE DEF N
  <2> QED
    BY <1>2, WFMin, NatLessThanWellFounded
<1>4. \A m \in N : ~(m < n)
  BY <1>2, <1>3 DEF OpToRel
<1>5. PICK U \in Bad : n = Cardinality(U)
  OBVIOUS
<1>6. ASSUME NEW T \in Bad, T \subseteq U PROVE T = U
  <2>1. Cardinality(T) <= n /\ (Cardinality(T) = n => T = U)
    BY <1>1, <1>5, <1>6, FS_Subset
  <2>2. Cardinality(T) \in N /\ Cardinality(T) \in Nat /\ n \in Nat
    BY <1>1, <1>2
  <2>3. ~(Cardinality(T) < n)
    BY <1>4, <2>2
  <2> QED
    BY <2>1, <2>2, <2>3
<1> QED
  BY <1>6

(* Last finds the newest row. *)
LEMMA LastMeaning ==
    ASSUME NEW S, Rows(S), S # {}
    PROVE  /\ Last(S) \in S
           /\ \A k \in S : k = Last(S) \/ Before(k, Last(S))
           /\ \A l \in S : (\A k \in S : ~Before(l, k)) => l = Last(S)
<1>1. \E l \in S : \A k \in S : ~Before(l, k)
  <2>1. PICK t \in S : \A k \in Above(S, t) : k \notin S
    BY TopExists
  <2> QED
    BY <2>1 DEF Above
<1>2. Last(S) \in S /\ \A k \in S : ~Before(Last(S), k)
  BY <1>1 DEF Last
<1> QED
  BY <1>2, RowOrder

(* The newest row of a set is the newest of every part it belongs to. *)
LEMMA LastOfPart ==
    ASSUME NEW S, Rows(S), NEW T \in SUBSET S, Last(S) \in T
    PROVE  Last(T) = Last(S)
<1>1. Rows(T) /\ S # {} /\ T # {}
  BY RowsFinite
<1>2. \A k \in T : ~Before(Last(S), k)
  BY <1>1, LastMeaning, RowOrder
<1> QED
  BY <1>1, <1>2, LastMeaning

(* Induction over sets of rows, the newest row taken away first, for a set *)
(* of sets instead of a predicate: what holds of no rows, and of some rows *)
(* when it holds of all but the newest, holds of every set of rows.        *)
LEMMA ReplayInduction ==
    ASSUME NEW S, Rows(S), NEW Good \in SUBSET (SUBSET S), {} \in Good,
           \A T \in SUBSET S : T # {} /\ T \ {Last(T)} \in Good => T \in Good
    PROVE  Good = SUBSET S
<1> DEFINE Bad == (SUBSET S) \ Good
<1>1. SUFFICES ASSUME Bad # {} PROVE FALSE
  OBVIOUS
<1>2. PICK T \in Bad : \A U \in Bad : U \subseteq T => U = T
  <2>1. IsFiniteSet(S) /\ Bad \in SUBSET (SUBSET S)
    BY RowsFinite
  <2> HIDE DEF Bad
  <2> QED
    BY <1>1, <2>1, SmallestExists
<1>3. T \in SUBSET S /\ T # {} /\ T \notin Good
  BY <1>2
<1>4. Last(T) \in T
  BY <1>3, RowsFinite, LastMeaning
<1>5. T \ {Last(T)} \in Good
  BY <1>2, <1>3, <1>4
<1> QED
  BY <1>3, <1>5

(* Replaying a set of rows from the newest one down is well defined: there *)
(* is a function that says what each subset amounts to.                    *)
Follows(g, S, V, base, P) ==
    /\ g \in [SUBSET S -> V]
    /\ \A T \in SUBSET S :
          g[T] = IF T = {} THEN base ELSE P[<<g[T \ {Last(T)}], Last(T)>>]

LEMMA ReplayExists ==
    ASSUME NEW S, Rows(S), NEW V, NEW base \in V, NEW P \in [V \X S -> V]
    PROVE  \E g : /\ Follows(g, S, V, base, P)
                  /\ \A T \in SUBSET S :
                        T # {} => <<g[T \ {Last(T)}], Last(T)>> \in V \X S
<1> DEFINE Good == {U \in SUBSET S : \E g : Follows(g, U, V, base, P)}
<1>1. {} \in Good
  <2>1. SUBSET {} = {{}}
    OBVIOUS
  <2>2. Follows([T \in {{}} |-> base], {}, V, base, P)
    BY <2>1 DEF Follows
  <2> QED
    BY <2>2
<1>2. ASSUME NEW U \in SUBSET S, U # {}, U \ {Last(U)} \in Good
      PROVE  U \in Good
  <2> DEFINE l == Last(U)
  <2>1. l \in U /\ Rows(U)
    BY <1>2, LastMeaning, RowsFinite
  <2>2. PICK g : Follows(g, U \ {l}, V, base, P)
    BY <1>2
  <2> HIDE DEF l
  <2> DEFINE h == [T \in SUBSET U |-> IF l \in T THEN P[<<g[T \ {l}], l>>] ELSE g[T]]
  <2>3. g \in [SUBSET (U \ {l}) -> V]
    BY <2>2 DEF Follows
  <2>4. h \in [SUBSET U -> V]
    <3> SUFFICES ASSUME NEW T \in SUBSET U
                 PROVE  (IF l \in T THEN P[<<g[T \ {l}], l>>] ELSE g[T]) \in V
      OBVIOUS
    <3>1. CASE l \in T
      <4>1. T \ {l} \in SUBSET (U \ {l})
        OBVIOUS
      <4>2. <<g[T \ {l}], l>> \in V \X S
        BY <2>1, <2>3, <4>1
      <4> QED
        BY <3>1, <4>2
    <3>2. CASE l \notin T
      BY <2>3, <3>2
    <3> QED
      BY <3>1, <3>2
  <2>5. ASSUME NEW T \in SUBSET U
        PROVE  h[T] = IF T = {} THEN base ELSE P[<<h[T \ {Last(T)}], Last(T)>>]
    <3>1. CASE l \in T
      <4>1. Last(T) = l
        BY <2>1, <3>1, LastOfPart DEF l
      <4>2. T \ {l} \in SUBSET U /\ h[T \ {l}] = g[T \ {l}]
        OBVIOUS
      <4> QED
        BY <3>1, <4>1, <4>2
    <3>2. CASE l \notin T
      <4>1. T \in SUBSET (U \ {l}) /\ T \ {Last(T)} \in SUBSET (U \ {l})
        BY <3>2
      <4>2. h[T] = g[T] /\ h[T \ {Last(T)}] = g[T \ {Last(T)}]
        BY <4>1
      <4>3. g[T] = IF T = {} THEN base ELSE P[<<g[T \ {Last(T)}], Last(T)>>]
        BY <2>2, <4>1 DEF Follows
      <4> QED
        BY <4>2, <4>3
    <3> QED
      BY <3>1, <3>2
  <2>6. Follows(h, U, V, base, P)
    <3> HIDE DEF h
    <3> QED
      BY <2>4, <2>5 DEF Follows
  <2> QED
    BY <2>6
<1>3. S \in Good
  <2> HIDE DEF Good
  <2>1. Good = SUBSET S
    <3>1. Good \in SUBSET (SUBSET S)
      BY DEF Good
    <3> QED
      BY <1>1, <1>2, <3>1, ReplayInduction
  <2> QED
    BY <2>1
<1>4. PICK g : Follows(g, S, V, base, P)
  BY <1>3
<1>5. ASSUME NEW T \in SUBSET S, T # {}
      PROVE  <<g[T \ {Last(T)}], Last(T)>> \in V \X S
  <2>1. Last(T) \in T
    BY <1>5, RowsFinite, LastMeaning
  <2> QED
    BY <1>4, <2>1 DEF Follows
<1> QED
  BY <1>4, <1>5

-----------------------------------------------------------------------------
(* Roles.                                                                  *)

Changes(T, a, r) == {l \in T : l.kind \in RoleKind /\ l.role = r /\ l.account = a}

(* The account holds the role as far as the rows T tell. *)
HoldsIn(T, a, r) == Changes(T, a, r) # {} /\ Last(Changes(T, a, r)).kind = "RoleGranted"

LEMMA HoldsIsIn ==
    ASSUME NEW a, NEW r, NEW T, {l \in rows : l.kind \in RoleKind} \subseteq T, T \subseteq rows
    PROVE  Holds(a, r) <=> HoldsIn(T, a, r)
<1>1. Changes(T, a, r) = {l \in Of(RoleKind) : l.role = r /\ l.account = a}
  BY DEF Changes, Of
<1> QED
  BY <1>1 DEF Holds, HoldsIn

(* The newest row decides for its own account and role and no other. *)
LEMMA HoldsStep ==
    ASSUME NEW T, Rows(T), T # {}, NEW a, NEW r
    PROVE  HoldsIn(T, a, r) <=>
             LET l == Last(T)
             IN  IF l.kind \in RoleKind /\ l.role = r /\ l.account = a
                 THEN l.kind = "RoleGranted" ELSE HoldsIn(T \ {l}, a, r)
<1> DEFINE l == Last(T)
<1>1. l \in T
  BY LastMeaning
<1>2. CASE l.kind \in RoleKind /\ l.role = r /\ l.account = a
  <2>1. l \in Changes(T, a, r) /\ Changes(T, a, r) \in SUBSET T
    BY <1>1, <1>2 DEF Changes
  <2>2. Last(Changes(T, a, r)) = l
    BY <2>1, LastOfPart
  <2> QED
    BY <1>2, <2>1, <2>2 DEF HoldsIn
<1>3. CASE ~(l.kind \in RoleKind /\ l.role = r /\ l.account = a)
  <2>1. Changes(T \ {l}, a, r) = Changes(T, a, r)
    BY <1>3 DEF Changes
  <2> QED
    BY <1>3, <2>1 DEF HoldsIn
<1> QED
  BY <1>2, <1>3

(* What may be stored: part of what the chain holds. *)
Stored == chain \in Histories /\ rows \subseteq chain

LEMMA StoredRows == ASSUME Stored, NEW T \in SUBSET rows PROVE Rows(T)
BY DEF Stored, Rows

LEMMA RoleRowTypes ==
    ASSUME Stored, NEW l \in rows, l.kind \in RoleKind
    PROVE  l.role \in Role /\ l.account \in Account /\ Label[l.role] \in Labels
BY ControlsAssumption DEF Stored, Labels

(* The replay behind /roles as a function on the sets of role rows. *)
LEMMA RolesReplay ==
    ASSUME Stored
    PROVE  \E it : /\ Roles = it[Of(RoleKind)]
                   /\ \A T \in SUBSET Of(RoleKind) :
                        it[T] = IF T = {} THEN [n \in Labels |-> {}]
                                ELSE RolesStep(it[T \ {Last(T)}], Last(T))
<1> DEFINE S == Of(RoleKind)
           V == [Labels -> SUBSET Account]
           base == [n \in Labels |-> {}]
           P == [x \in V \X S |-> RolesStep(x[1], x[2])]
           Step(it) == [T \in SUBSET S |-> IF T = {} THEN base
                                           ELSE RolesStep(it[T \ {Last(T)}], Last(T))]
<1>1. S \subseteq rows /\ Rows(S) /\ \A l \in S : l.kind \in RoleKind
  BY StoredRows DEF Of
<1>2. \A v \in V, l \in S : RolesStep(v, l) \in V
  BY <1>1, RoleRowTypes DEF RolesStep, HeldStep
<1>3. base \in V /\ P \in [V \X S -> V]
  BY <1>2
<1>4. PICK g : /\ Follows(g, S, V, base, P)
               /\ \A T \in SUBSET S :
                     T # {} => <<g[T \ {Last(T)}], Last(T)>> \in V \X S
  <2> HIDE DEF S, V, base, P
  <2> QED
    BY <1>1, <1>3, ReplayExists
<1>5. g = Step(g)
  <2>1. \A T \in SUBSET S :
          T # {} => P[<<g[T \ {Last(T)}], Last(T)>>] = RolesStep(g[T \ {Last(T)}], Last(T))
    BY <1>4
  <2> HIDE DEF V, base, P
  <2> QED
    BY <1>4, <2>1 DEF Follows
<1> DEFINE it == CHOOSE f : f = Step(f)
<1>6. Roles = it[S]
  BY DEF Roles, Replay, MapThenFoldSet
<1>7. it = Step(it)
  <2> HIDE DEF Step
  <2> QED
    BY <1>5
<1> HIDE DEF it
<1> QED
  BY <1>6, <1>7
(* Whoever is kept under a label holds a role of that label. *)
RolesHold(held, T) ==
    /\ held \in [Labels -> SUBSET Account]
    /\ \A n \in Labels : \A a \in held[n] : \E r \in Role : Label[r] = n /\ HoldsIn(T, a, r)

LEMMA RolesHoldStep ==
    ASSUME Stored, NEW T \in SUBSET Of(RoleKind), T # {}, NEW held,
           RolesHold(held, T \ {Last(T)})
    PROVE  RolesHold(RolesStep(held, Last(T)), T)
<1> DEFINE l == Last(T)
           n == Label[l.role]
           new == RolesStep(held, l)
<1>1. Rows(T) /\ l \in T /\ l \in rows /\ l.kind \in RoleKind
  <2>1. T \subseteq rows
    BY DEF Of
  <2>2. Rows(T)
    BY <2>1, StoredRows
  <2>3. l \in T
    BY <2>2, LastMeaning
  <2> QED
    BY <2>1, <2>2, <2>3 DEF Of
<1>2. l.role \in Role /\ l.account \in Account /\ n \in Labels
  BY <1>1, RoleRowTypes
<1>3. held \in [Labels -> SUBSET Account]
  BY DEF RolesHold
<1>4. new = [held EXCEPT ![n] = IF l.kind = "RoleGranted" THEN @ \cup {l.account} ELSE @ \ {l.account}]
  BY DEF RolesStep, HeldStep
<1>5. new \in [Labels -> SUBSET Account]
  BY <1>2, <1>3, <1>4
<1>6. ASSUME NEW m \in Labels, NEW a \in new[m]
      PROVE  \E r \in Role : Label[r] = m /\ HoldsIn(T, a, r)
  <2>1. CASE m = n /\ a = l.account
    <3>1. l.kind = "RoleGranted"
      BY <1>2, <1>3, <1>4, <1>6, <2>1
    <3>2. HoldsIn(T, a, l.role)
      BY <1>1, <2>1, <3>1, HoldsStep
    <3> QED
      BY <1>2, <2>1, <3>2
  <2>2. CASE ~(m = n /\ a = l.account)
    <3>1. a \in held[m]
      BY <1>2, <1>3, <1>4, <1>6, <2>2
    <3>2. PICK r \in Role : Label[r] = m /\ HoldsIn(T \ {l}, a, r)
      BY <3>1 DEF RolesHold
    <3>3. ~(l.role = r /\ l.account = a)
      BY <2>2, <3>2
    <3>4. HoldsIn(T, a, r)
      BY <1>1, <3>2, <3>3, HoldsStep
    <3> QED
      BY <3>2, <3>4
  <2> QED
    BY <2>1, <2>2
<1> QED
  BY <1>5, <1>6 DEF RolesHold

LEMMA RolesListed == ASSUME Stored PROVE ListedHold
<1> DEFINE S == Of(RoleKind)
<1>1. S \subseteq rows /\ Rows(S) /\ IsFiniteSet(S)
  BY StoredRows, RowsFinite DEF Of
<1>2. PICK it : /\ Roles = it[S]
                /\ \A T \in SUBSET S :
                     it[T] = IF T = {} THEN [n \in Labels |-> {}]
                             ELSE RolesStep(it[T \ {Last(T)}], Last(T))
  BY RolesReplay
<1> DEFINE Good == {T \in SUBSET S : RolesHold(it[T], T)}
<1>3. Good = SUBSET S
  <2>1. {} \in Good
    BY <1>2 DEF RolesHold
  <2>2. ASSUME NEW T \in SUBSET S, T # {}, T \ {Last(T)} \in Good PROVE T \in Good
    BY <1>2, <2>2, RolesHoldStep
  <2>3. Good \in SUBSET (SUBSET S)
    OBVIOUS
  <2> HIDE DEF Good
  <2> QED
    BY <1>1, <2>1, <2>2, <2>3, ReplayInduction
<1>4. RolesHold(Roles, S)
  BY <1>2, <1>3
<1>5. {l \in rows : l.kind \in RoleKind} \subseteq S
  BY DEF Of
<1> QED
  BY <1>1, <1>4, <1>5, HoldsIsIn DEF RolesHold, ListedHold

-----------------------------------------------------------------------------
(* Announcements.                                                          *)

Note(l) == l.kind = "Announcement"
Notes(T, i) == {l \in T : Note(l) /\ l.id = i}
Ends(T, i) == {l \in T : l.kind = "EndAnnouncement" /\ l.id = i}
Announced(T) == {l.id : l \in {k \in T : Note(k)}}

(* An end follows the newest announcement with this id. *)
ClosedIn(T, i) == \E e \in Ends(T, i) : Before(Last(Notes(T, i)), e)

NoteRows == {l \in Of({"Announcement", "EndAnnouncement"}) : l.id # ""}

AnnouncementsReplayed(shown, T) ==
    /\ shown \in [Announced(T) -> BOOLEAN]
    /\ \A i \in Announced(T) : shown[i] <=> ClosedIn(T, i)

(* The replay of the announcements as a function on the sets of rows. *)
LEMMA AnnouncementsReplay ==
    ASSUME Stored
    PROVE  \E it : /\ Announcements = it[NoteRows]
                   /\ \A T \in SUBSET NoteRows :
                        it[T] = IF T = {} THEN <<>>
                                ELSE AnnounceStep(it[T \ {Last(T)}], Last(T))
<1> DEFINE S == NoteRows
           Id == {l.id : l \in S}
           V == UNION {[D -> BOOLEAN] : D \in SUBSET Id}
           P == [x \in V \X S |-> AnnounceStep(x[1], x[2])]
           Step(it) == [T \in SUBSET S |-> IF T = {} THEN <<>>
                                           ELSE AnnounceStep(it[T \ {Last(T)}], Last(T))]
<1>1. S \subseteq rows /\ Rows(S)
  BY StoredRows DEF NoteRows, Of
<1>2. \A v \in V, l \in S : AnnounceStep(v, l) \in V
  <2> SUFFICES ASSUME NEW D \in SUBSET Id, NEW v \in [D -> BOOLEAN], NEW l \in S
               PROVE  \E E \in SUBSET Id : AnnounceStep(v, l) \in [E -> BOOLEAN]
    OBVIOUS
  <2>1. CASE l.kind = "Announcement"
    <3>1. D \cup {l.id} \in SUBSET Id
      OBVIOUS
    <3>2. AnnounceStep(v, l) = [i \in D \cup {l.id} |-> IF i = l.id THEN FALSE ELSE v[i]]
      BY <2>1 DEF AnnounceStep
    <3>3. AnnounceStep(v, l) \in [D \cup {l.id} -> BOOLEAN]
      <4> HIDE DEF S
      <4> QED
        BY <3>2
    <3> QED
      BY <3>1, <3>3
  <2>2. CASE l.kind # "Announcement"
    <3>1. AnnounceStep(v, l) = [i \in D |-> v[i] \/ i = l.id]
      BY <2>2 DEF AnnounceStep
    <3> QED
      BY <3>1
  <2> QED
    BY <2>1, <2>2
<1>3. <<>> \in V /\ P \in [V \X S -> V]
  <2>1. <<>> \in [{} -> BOOLEAN]
    OBVIOUS
  <2>2. <<>> \in V
    BY <2>1
  <2> HIDE DEF V
  <2> QED
    BY <1>2, <2>2
<1>4. PICK g : /\ Follows(g, S, V, <<>>, P)
               /\ \A T \in SUBSET S :
                     T # {} => <<g[T \ {Last(T)}], Last(T)>> \in V \X S
  <2> HIDE DEF S, V, P
  <2> QED
    BY <1>1, <1>3, ReplayExists
<1>5. g = Step(g)
  <2>1. \A T \in SUBSET S :
          T # {} => P[<<g[T \ {Last(T)}], Last(T)>>] = AnnounceStep(g[T \ {Last(T)}], Last(T))
    <3> HIDE DEF V, S
    <3> QED
      BY <1>4
  <2> HIDE DEF S, V, P
  <2> QED
    BY <1>4, <2>1 DEF Follows
<1> DEFINE it == CHOOSE f : f = Step(f)
<1>6. Announcements = it[S]
  BY DEF Announcements, NoteRows, Replay, MapThenFoldSet
<1>7. it = Step(it)
  <2> HIDE DEF Step
  <2> QED
    BY <1>5
<1> HIDE DEF it
<1> QED
  BY <1>6, <1>7

(* An announcement opens its id, an end closes it. *)
LEMMA AnnouncementsStep ==
    ASSUME Stored, NEW T \in SUBSET NoteRows, T # {}, NEW shown,
           AnnouncementsReplayed(shown, T \ {Last(T)})
    PROVE  AnnouncementsReplayed(AnnounceStep(shown, Last(T)), T)
<1> DEFINE l == Last(T)
           U == T \ {l}
           new == AnnounceStep(shown, l)
<1>1. Rows(T) /\ l \in T /\ l.kind \in {"Announcement", "EndAnnouncement"}
  <2>1. Rows(T)
    BY StoredRows DEF NoteRows, Of
  <2>2. l \in T
    BY <2>1, LastMeaning
  <2> QED
    BY <2>1, <2>2 DEF NoteRows, Of
<1>2. /\ shown \in [Announced(U) -> BOOLEAN]
      /\ \A i \in Announced(U) : shown[i] <=> ClosedIn(U, i)
  BY DEF AnnouncementsReplayed
<1>3. CASE Note(l)
  <2>1. Announced(T) = Announced(U) \cup {l.id}
    BY <1>1, <1>3 DEF Announced
  <2>2. new = [i \in Announced(T) |-> IF i = l.id THEN FALSE ELSE shown[i]]
    BY <1>2, <1>3, <2>1 DEF AnnounceStep, Note
  <2>3. new \in [Announced(T) -> BOOLEAN]
    BY <1>2, <2>1, <2>2
  <2>4. ~ClosedIn(T, l.id)
    <3>1. Notes(T, l.id) \in SUBSET T /\ l \in Notes(T, l.id)
      BY <1>1, <1>3 DEF Notes
    <3>2. Last(Notes(T, l.id)) = l
      BY <1>1, <3>1, LastOfPart
    <3>3. \A e \in T : ~Before(l, e)
      BY <1>1, LastMeaning, RowOrder
    <3> QED
      BY <3>2, <3>3 DEF ClosedIn, Ends
  <2>5. ASSUME NEW i \in Announced(U), i # l.id PROVE ClosedIn(T, i) <=> ClosedIn(U, i)
    <3>1. Notes(T, i) = Notes(U, i) /\ Ends(T, i) = Ends(U, i)
      BY <1>3, <2>5 DEF Notes, Ends, Note
    <3> QED
      BY <3>1 DEF ClosedIn
  <2>6. ASSUME NEW i \in Announced(T) PROVE new[i] <=> ClosedIn(T, i)
    <3>1. CASE i = l.id
      BY <2>2, <2>4, <2>6, <3>1
    <3>2. CASE i # l.id
      BY <1>2, <2>1, <2>2, <2>5, <2>6, <3>2
    <3> QED
      BY <3>1, <3>2
  <2> QED
    BY <2>3, <2>6 DEF AnnouncementsReplayed
<1>4. CASE ~Note(l)
  <2>1. Announced(T) = Announced(U) /\ l.kind = "EndAnnouncement"
    BY <1>1, <1>4 DEF Announced, Note
  <2>2. new = [i \in Announced(T) |-> shown[i] \/ i = l.id]
    BY <1>2, <1>4, <2>1 DEF AnnounceStep, Note
  <2>3. new \in [Announced(T) -> BOOLEAN]
    BY <2>2
  <2>4. ASSUME NEW i \in Announced(T) PROVE ClosedIn(T, i) <=> ClosedIn(U, i) \/ i = l.id
    <3>1. Notes(T, i) = Notes(U, i) /\ Ends(U, i) \subseteq Ends(T, i)
      BY <1>4 DEF Notes, Ends
    <3>2. CASE i = l.id
      <4>1. l \in Ends(T, i)
        BY <1>1, <2>1, <3>2 DEF Ends
      <4>2. Notes(T, i) # {} /\ Notes(T, i) \in SUBSET T
        BY <2>4 DEF Notes, Announced
      <4>3. Last(Notes(T, i)) \in Notes(T, i)
        BY <1>1, <4>2, RowsFinite, LastMeaning
      <4>4. Last(Notes(T, i)) \in T /\ Last(Notes(T, i)) # l
        BY <1>4, <4>3 DEF Notes
      <4>5. Before(Last(Notes(T, i)), l)
        BY <1>1, <4>4, LastMeaning
      <4> QED
        BY <3>2, <4>1, <4>5 DEF ClosedIn
    <3>3. CASE i # l.id
      <4>1. Ends(T, i) = Ends(U, i)
        BY <3>3 DEF Ends
      <4> QED
        BY <3>1, <3>3, <4>1 DEF ClosedIn
    <3> QED
      BY <3>2, <3>3
  <2>5. \A i \in Announced(T) : new[i] <=> ClosedIn(T, i)
    BY <1>2, <2>1, <2>2, <2>4
  <2> QED
    BY <2>3, <2>5 DEF AnnouncementsReplayed
<1> QED
  BY <1>3, <1>4

LEMMA AnnouncementsClosed == ASSUME Stored PROVE AnnouncementsExact
<1>1. Rows(NoteRows)
  BY StoredRows DEF NoteRows, Of
<1>2. PICK it : /\ Announcements = it[NoteRows]
                /\ \A T \in SUBSET NoteRows :
                     it[T] = IF T = {} THEN <<>>
                             ELSE AnnounceStep(it[T \ {Last(T)}], Last(T))
  BY AnnouncementsReplay
<1> DEFINE Good == {T \in SUBSET NoteRows : AnnouncementsReplayed(it[T], T)}
<1>3. Good = SUBSET NoteRows
  <2>1. {} \in Good
    <3>1. Announced({}) = {} /\ it[{}] = <<>>
      BY <1>2 DEF Announced
    <3>2. it[{}] \in [Announced({}) -> BOOLEAN]
      BY <3>1
    <3> QED
      BY <3>1, <3>2 DEF AnnouncementsReplayed
  <2>2. ASSUME NEW T \in SUBSET NoteRows, T # {}, T \ {Last(T)} \in Good PROVE T \in Good
    BY <1>2, <2>2, AnnouncementsStep
  <2>3. Good \in SUBSET (SUBSET NoteRows)
    OBVIOUS
  <2> HIDE DEF Good
  <2> QED
    BY <1>1, <2>1, <2>2, <2>3, ReplayInduction
<1>4. AnnouncementsReplayed(Announcements, NoteRows)
  BY <1>2, <1>3
<1> DEFINE named(kind, i) == {l \in Of({kind}) : l.id = i}
           ids == {l.id : l \in Of({"Announcement"})} \ {""}
<1>5. Announced(NoteRows) = ids
  BY DEF Announced, NoteRows, Of, Note
<1>6. ASSUME NEW i \in ids
      PROVE  /\ Notes(NoteRows, i) = named("Announcement", i)
             /\ Ends(NoteRows, i) = named("EndAnnouncement", i)
  BY DEF Notes, Ends, NoteRows, Of, Note
<1>7. DOMAIN Announcements = ids
  BY <1>4, <1>5 DEF AnnouncementsReplayed
<1>8. ASSUME NEW i \in ids
      PROVE  Announcements[i] <=>
                \E e \in named("EndAnnouncement", i) : Before(Last(named("Announcement", i)), e)
  <2>1. Announcements[i] <=> ClosedIn(NoteRows, i)
    BY <1>4, <1>5 DEF AnnouncementsReplayed
  <2> QED
    BY <1>6, <2>1 DEF ClosedIn
<1> QED
  BY <1>7, <1>8 DEF AnnouncementsExact

-----------------------------------------------------------------------------
(* Controls.                                                               *)

Updates(T, scope) == {l \in T : l.kind = "PolicyUpdated" /\ l.scope = scope}
PolicyIn(T, scope) ==
    IF Updates(T, scope) = {} THEN NoPolicy ELSE Last(Updates(T, scope)).policy

PauseKind == {"Paused", "Unpaused"}
Pauses(T, feature) == {l \in T : l.kind \in PauseKind /\ feature \in l.features}
PausedIn(T, feature) == Pauses(T, feature) # {} /\ Last(Pauses(T, feature)).kind = "Paused"

ControlRows == Of(RoleKind \cup {"PolicyUpdated", "Paused", "Unpaused"})

LEMMA PolicyStepMeaning ==
    ASSUME NEW T, Rows(T), T # {}, NEW scope
    PROVE  PolicyIn(T, scope) =
             LET l == Last(T)
             IN  IF l.kind = "PolicyUpdated" /\ l.scope = scope
                 THEN l.policy ELSE PolicyIn(T \ {l}, scope)
<1> DEFINE l == Last(T)
<1>1. l \in T
  BY LastMeaning
<1>2. CASE l.kind = "PolicyUpdated" /\ l.scope = scope
  <2>1. l \in Updates(T, scope) /\ Updates(T, scope) \in SUBSET T
    BY <1>1, <1>2 DEF Updates
  <2>2. Last(Updates(T, scope)) = l
    BY <2>1, LastOfPart
  <2> QED
    BY <1>2, <2>1, <2>2 DEF PolicyIn
<1>3. CASE ~(l.kind = "PolicyUpdated" /\ l.scope = scope)
  <2>1. Updates(T \ {l}, scope) = Updates(T, scope)
    BY <1>3 DEF Updates
  <2> QED
    BY <1>3, <2>1 DEF PolicyIn
<1> QED
  BY <1>2, <1>3

LEMMA PausedStepMeaning ==
    ASSUME NEW T, Rows(T), T # {}, NEW feature
    PROVE  PausedIn(T, feature) <=>
             LET l == Last(T)
             IN  IF l.kind \in PauseKind /\ feature \in l.features
                 THEN l.kind = "Paused" ELSE PausedIn(T \ {l}, feature)
<1> DEFINE l == Last(T)
<1>1. l \in T
  BY LastMeaning
<1>2. CASE l.kind \in PauseKind /\ feature \in l.features
  <2>1. l \in Pauses(T, feature) /\ Pauses(T, feature) \in SUBSET T
    BY <1>1, <1>2 DEF Pauses
  <2>2. Last(Pauses(T, feature)) = l
    BY <2>1, LastOfPart
  <2> QED
    BY <1>2, <2>1, <2>2 DEF PausedIn
<1>3. CASE ~(l.kind \in PauseKind /\ feature \in l.features)
  <2>1. Pauses(T \ {l}, feature) = Pauses(T, feature)
    BY <1>3 DEF Pauses
  <2> QED
    BY <1>3, <2>1 DEF PausedIn
<1> QED
  BY <1>2, <1>3

(* No role held, no scope bound, nothing paused. *)
NoControls ==
    [held |-> [r \in Role |-> {}], policy |-> [s \in SeizureScope |-> NoPolicy], paused |-> {}]

(* Some policies and features, as many as the rows name. *)
PolicyValue == {NoPolicy} \cup {l.policy : l \in rows}
Feature     == UNION {l.features : l \in rows}
ControlState ==
    [held : [Role -> SUBSET Account], policy : [SeizureScope -> PolicyValue], paused : SUBSET Feature]

(* What one row does to each of the three. *)
LEMMA ControlCases ==
    ASSUME Stored, NEW l \in ControlRows, NEW c \in ControlState
    PROVE  /\ ControlStep(c, l) \in ControlState
           /\ \/ /\ l.kind \in RoleKind
                 /\ ControlStep(c, l).held = HeldStep(c.held, l, l.role)
                 /\ ControlStep(c, l).policy = c.policy /\ ControlStep(c, l).paused = c.paused
              \/ /\ l.kind = "PolicyUpdated"
                 /\ ControlStep(c, l).policy = PolicyStep(c.policy, l)
                 /\ ControlStep(c, l).held = c.held /\ ControlStep(c, l).paused = c.paused
              \/ /\ l.kind \in PauseKind
                 /\ ControlStep(c, l).paused = PausedStep(c.paused, l)
                 /\ ControlStep(c, l).held = c.held /\ ControlStep(c, l).policy = c.policy
<1>1. l \in rows
  BY DEF ControlRows, Of
<1>2. /\ c = [held |-> c.held, policy |-> c.policy, paused |-> c.paused]
      /\ c.held \in [Role -> SUBSET Account]
      /\ c.policy \in [SeizureScope -> PolicyValue]
      /\ c.paused \in SUBSET Feature
  BY DEF ControlState
<1>3. CASE l.kind \in RoleKind
  <2>1. ControlStep(c, l) = [c EXCEPT !.held = HeldStep(@, l, l.role)]
    BY <1>3 DEF ControlStep, RoleKind
  <2>2. HeldStep(c.held, l, l.role) \in [Role -> SUBSET Account]
    BY <1>1, <1>2, <1>3, RoleRowTypes DEF HeldStep
  <2> QED
    BY <1>2, <1>3, <2>1, <2>2 DEF ControlState
<1>4. CASE l.kind = "PolicyUpdated"
  <2>1. ControlStep(c, l) = [c EXCEPT !.policy = PolicyStep(@, l)]
    BY <1>4 DEF ControlStep, RoleKind
  <2>2. l.policy \in PolicyValue
    BY <1>1 DEF PolicyValue
  <2>3. PolicyStep(c.policy, l) \in [SeizureScope -> PolicyValue]
    BY <1>2, <2>2 DEF PolicyStep
  <2> QED
    BY <1>2, <1>4, <2>1, <2>3 DEF ControlState
<1>5. CASE l.kind \in PauseKind
  <2>1. ControlStep(c, l) = [c EXCEPT !.paused = PausedStep(@, l)]
    BY <1>5 DEF ControlStep, RoleKind, PauseKind
  <2>2. l.features \subseteq Feature
    BY <1>1 DEF Feature
  <2>3. PausedStep(c.paused, l) \in SUBSET Feature
    BY <1>2, <2>2 DEF PausedStep
  <2> QED
    BY <1>2, <1>5, <2>1, <2>3 DEF ControlState
<1>6. l.kind \in RoleKind \cup {"PolicyUpdated"} \cup PauseKind
  BY DEF ControlRows, Of, PauseKind
<1> QED
  BY <1>3, <1>4, <1>5, <1>6

LEMMA ControlsReplay ==
    ASSUME Stored
    PROVE  \E it : /\ Controls = it[ControlRows]
                   /\ \A T \in SUBSET ControlRows :
                        it[T] = IF T = {} THEN NoControls
                                ELSE ControlStep(it[T \ {Last(T)}], Last(T))
<1> DEFINE S == ControlRows
           V == ControlState
           P == [x \in V \X S |-> ControlStep(x[1], x[2])]
           Step(it) == [T \in SUBSET S |-> IF T = {} THEN NoControls
                                           ELSE ControlStep(it[T \ {Last(T)}], Last(T))]
<1>1. S \subseteq rows /\ Rows(S)
  BY StoredRows DEF ControlRows, Of
<1>2. NoControls \in V
  BY DEF NoControls, ControlState, PolicyValue
<1>3. P \in [V \X S -> V]
  BY ControlCases
<1>4. PICK g : /\ Follows(g, S, V, NoControls, P)
               /\ \A T \in SUBSET S :
                     T # {} => <<g[T \ {Last(T)}], Last(T)>> \in V \X S
  <2> HIDE DEF S, V, P
  <2> QED
    BY <1>1, <1>2, <1>3, ReplayExists
<1>5. g = Step(g)
  <2>1. \A T \in SUBSET S :
          T # {} => P[<<g[T \ {Last(T)}], Last(T)>>] = ControlStep(g[T \ {Last(T)}], Last(T))
    <3> HIDE DEF S, V
    <3> QED
      BY <1>4
  <2> HIDE DEF S, V, P
  <2> QED
    BY <1>4, <2>1 DEF Follows
<1> DEFINE it == CHOOSE f : f = Step(f)
<1>6. Controls = it[S]
  BY DEF Controls, ControlRows, NoControls, Replay, MapThenFoldSet
<1>7. it = Step(it)
  <2> HIDE DEF Step
  <2> QED
    BY <1>5
<1> HIDE DEF it
<1> QED
  BY <1>6, <1>7

(* Roles, scopes and features are what their newest rows say. *)
ControlsReplayed(c, T) ==
    /\ c \in ControlState
    /\ \A r \in Role, a \in Account : a \in c.held[r] <=> HoldsIn(T, a, r)
    /\ \A s \in SeizureScope : c.policy[s] = PolicyIn(T, s)
    /\ \A f : f \in c.paused <=> PausedIn(T, f)

LEMMA ControlsStep ==
    ASSUME Stored, NEW T \in SUBSET ControlRows, T # {}, NEW c,
           ControlsReplayed(c, T \ {Last(T)})
    PROVE  ControlsReplayed(ControlStep(c, Last(T)), T)
<1> DEFINE l == Last(T)
           U == T \ {l}
           new == ControlStep(c, l)
<1>1. Rows(T) /\ l \in T /\ l \in ControlRows /\ l \in rows
  <2>1. T \subseteq rows
    BY DEF ControlRows, Of
  <2>2. Rows(T)
    BY <2>1, StoredRows
  <2> QED
    BY <2>1, <2>2, LastMeaning
<1>2. /\ c \in ControlState
      /\ \A r \in Role, a \in Account : a \in c.held[r] <=> HoldsIn(U, a, r)
      /\ \A s \in SeizureScope : c.policy[s] = PolicyIn(U, s)
      /\ \A f : f \in c.paused <=> PausedIn(U, f)
  BY DEF ControlsReplayed
<1>3. /\ c.held \in [Role -> SUBSET Account]
      /\ c.policy \in [SeizureScope -> PolicyValue]
  BY <1>2 DEF ControlState
<1>4. new \in ControlState
  BY <1>1, <1>2, ControlCases
<1>5. ASSUME NEW r \in Role, NEW a \in Account PROVE a \in new.held[r] <=> HoldsIn(T, a, r)
  <2>1. CASE l.kind \in RoleKind
    <3>1. new.held = HeldStep(c.held, l, l.role) /\ l.role \in Role
      BY <1>1, <1>2, <2>1, ControlCases, RoleRowTypes DEF RoleKind, PauseKind
    <3>2. new.held[r] = IF r # l.role THEN c.held[r]
                        ELSE IF l.kind = "RoleGranted" THEN c.held[r] \cup {l.account}
                        ELSE c.held[r] \ {l.account}
      BY <1>3, <3>1 DEF HeldStep
    <3>3. HoldsIn(T, a, r) <=> IF l.role = r /\ l.account = a
                               THEN l.kind = "RoleGranted" ELSE HoldsIn(U, a, r)
      BY <1>1, <2>1, HoldsStep
    <3> QED
      BY <1>2, <3>2, <3>3
  <2>2. CASE l.kind \notin RoleKind
    <3>1. new.held = c.held
      BY <1>1, <1>2, <2>2, ControlCases
    <3> QED
      BY <1>1, <1>2, <2>2, <3>1, HoldsStep
  <2> QED
    BY <2>1, <2>2
<1>6. ASSUME NEW s \in SeizureScope PROVE new.policy[s] = PolicyIn(T, s)
  <2>1. CASE l.kind = "PolicyUpdated"
    <3>1. new.policy = PolicyStep(c.policy, l)
      BY <1>1, <1>2, <2>1, ControlCases DEF RoleKind, PauseKind
    <3>2. new.policy[s] = IF l.scope = s THEN l.policy ELSE c.policy[s]
      BY <1>3, <3>1 DEF PolicyStep
    <3> QED
      BY <1>1, <1>2, <2>1, <3>2, PolicyStepMeaning
  <2>2. CASE l.kind # "PolicyUpdated"
    <3>1. new.policy = c.policy
      BY <1>1, <1>2, <2>2, ControlCases
    <3> QED
      BY <1>1, <1>2, <2>2, <3>1, PolicyStepMeaning
  <2> QED
    BY <2>1, <2>2
<1>7. ASSUME NEW f PROVE f \in new.paused <=> PausedIn(T, f)
  <2>1. CASE l.kind \in PauseKind
    <3>1. new.paused = PausedStep(c.paused, l)
      BY <1>1, <1>2, <2>1, ControlCases DEF RoleKind, PauseKind
    <3>2. f \in new.paused <=> IF f \in l.features THEN l.kind = "Paused" ELSE f \in c.paused
      BY <2>1, <3>1 DEF PausedStep, PauseKind
    <3> QED
      BY <1>1, <1>2, <2>1, <3>2, PausedStepMeaning
  <2>2. CASE l.kind \notin PauseKind
    <3>1. new.paused = c.paused
      BY <1>1, <1>2, <2>2, ControlCases
    <3> QED
      BY <1>1, <1>2, <2>2, <3>1, PausedStepMeaning
  <2> QED
    BY <2>1, <2>2
<1> QED
  BY <1>4, <1>5, <1>6, <1>7 DEF ControlsReplayed

LEMMA CapabilityExact == ASSUME Stored PROVE ArmedExact
<1>1. ControlRows \subseteq rows /\ Rows(ControlRows)
  BY StoredRows DEF ControlRows, Of
<1>2. PICK it : /\ Controls = it[ControlRows]
                /\ \A T \in SUBSET ControlRows :
                     it[T] = IF T = {} THEN NoControls
                             ELSE ControlStep(it[T \ {Last(T)}], Last(T))
  BY ControlsReplay
<1> DEFINE Good == {T \in SUBSET ControlRows : ControlsReplayed(it[T], T)}
<1>3. Good = SUBSET ControlRows
  <2>1. {} \in Good
    <3>1. it[{}] = NoControls /\ NoControls \in ControlState
      BY <1>2 DEF NoControls, ControlState, PolicyValue
    <3>2. \A a, r : ~HoldsIn({}, a, r)
      BY DEF HoldsIn, Changes
    <3>3. \A s : PolicyIn({}, s) = NoPolicy
      BY DEF PolicyIn, Updates
    <3>4. \A f : ~PausedIn({}, f)
      BY DEF PausedIn, Pauses
    <3>5. ControlsReplayed(NoControls, {})
      BY <3>1, <3>2, <3>3, <3>4 DEF ControlsReplayed, NoControls
    <3> QED
      BY <3>1, <3>5
  <2>2. ASSUME NEW T \in SUBSET ControlRows, T # {}, T \ {Last(T)} \in Good PROVE T \in Good
    BY <1>2, <2>2, ControlsStep
  <2>3. Good \in SUBSET (SUBSET ControlRows)
    OBVIOUS
  <2> HIDE DEF Good
  <2> QED
    BY <1>1, <2>1, <2>2, <2>3, ReplayInduction
<1>4. ControlsReplayed(Controls, ControlRows)
  BY <1>2, <1>3
<1>5. \A a, r : Holds(a, r) <=> HoldsIn(ControlRows, a, r)
  <2>1. {l \in rows : l.kind \in RoleKind} \subseteq ControlRows
    BY DEF ControlRows, Of
  <2> QED
    BY <1>1, <2>1, HoldsIsIn
<1>6. \A s : PolicyOf(s) = PolicyIn(ControlRows, s)
  <2> SUFFICES ASSUME NEW s PROVE PolicyOf(s) = PolicyIn(ControlRows, s)
    OBVIOUS
  <2>1. Updates(ControlRows, s) = {l \in Of({"PolicyUpdated"}) : l.scope = s}
    BY DEF Updates, ControlRows, Of
  <2> QED
    BY <2>1 DEF PolicyOf, PolicyIn
<1>7. \A f : IsPaused(f) <=> PausedIn(ControlRows, f)
  <2> SUFFICES ASSUME NEW f PROVE IsPaused(f) <=> PausedIn(ControlRows, f)
    OBVIOUS
  <2>1. Pauses(ControlRows, f) = {l \in Of({"Paused", "Unpaused"}) : f \in l.features}
    BY DEF Pauses, PauseKind, ControlRows, Of
  <2> QED
    BY <2>1 DEF IsPaused, PausedIn
<1>8. \A r \in Role : Controls.held[r] # {} <=> \E a \in Account : Holds(a, r)
  <2>1. Controls.held \in [Role -> SUBSET Account]
    BY <1>4 DEF ControlsReplayed, ControlState
  <2> QED
    BY <1>4, <1>5, <2>1 DEF ControlsReplayed
<1>9. /\ \A s \in SeizureScope : Controls.policy[s] = PolicyOf(s)
      /\ \A f : f \in Controls.paused <=> IsPaused(f)
  BY <1>4, <1>6, <1>7 DEF ControlsReplayed
<1>10. /\ "seize" \in Armed <=> /\ Controls.held[SeizeRole] # {}
                               /\ Controls.policy[ExemptScope] # NoPolicy
                               /\ Controls.policy[ReceiverScope] # AlwaysBlock
                               /\ "SEIZE" \notin Controls.paused
       /\ "burnBlocked" \in Armed <=> /\ Controls.held[BurnBlockedRole] # {}
                                     /\ Controls.policy[SenderScope] # NoPolicy
                                     /\ "BURN" \notin Controls.paused
  BY DEF Armed
<1> QED
  BY <1>8, <1>9, <1>10, ControlsAssumption DEF ArmedExact, SeizureScope

-----------------------------------------------------------------------------
(* Policies: what resolve makes of a table, in closed form.                *)

LEMMA PolicyTypes ==
    ASSUME Stored, NEW p \in Policy
    PROVE  Known(p) \in Knowledge /\ ChildrenOf(p) \in Seq(Policy) /\ IsComposite(p) \in BOOLEAN
<1>1. /\ Creations(p) \in SUBSET rows /\ Compositions(p) \in SUBSET rows
      /\ \A l \in Creations(p) : l.kind = "PolicyCreated"
      /\ \A l \in Compositions(p) : l.kind = "CompositePolicyUpdated"
  BY DEF Creations, Compositions, Of
<1>2. Rows(Creations(p)) /\ Rows(Compositions(p))
  BY <1>1, StoredRows
<1>3. Creations(p) # {} => Last(Creations(p)).type \in PolicyType
  <2>1. \A l \in Creations(p) : l.type \in PolicyType
    BY <1>1, PolicyAssumption DEF Stored
  <2> QED
    BY <1>2, <2>1, LastMeaning
<1>4. Compositions(p) # {} => Last(Compositions(p)).children \in Seq(Policy)
  <2>1. \A l \in Compositions(p) : l.children \in Seq(Policy)
    BY <1>1, PolicyAssumption DEF Stored
  <2> QED
    BY <1>2, <2>1, LastMeaning
<1>5. Recorded(p) \in Knowledge
  BY <1>3 DEF Recorded, Knowledge
<1>6. BuiltinRecord(p) \in Knowledge
  BY DEF BuiltinRecord, Knowledge, PolicyType
<1>7. <<>> \in Seq(Policy)
  OBVIOUS
<1> QED
  BY <1>4, <1>5, <1>6, <1>7 DEF Known, ChildrenOf, IsComposite

Members(list) == {list[i] : i \in DOMAIN list}

(* The policies that resolve adds for the policies W when those in D are    *)
(* already in the table: the smallest set that has W, and with a policy     *)
(* its children, without entering D.                                       *)
ClosedUnder(D, W, S) ==
    /\ W \ D \subseteq S
    /\ \A s \in S : Members(ChildrenOf(s)) \ D \subseteq S

Reach(D, W) == {q \in Policy : \A S \in SUBSET Policy : ClosedUnder(D, W, S) => q \in S}

LEMMA ChildrenArePolicies ==
    ASSUME Stored, NEW p \in Policy
    PROVE  /\ Members(ChildrenOf(p)) \in SUBSET Policy
           /\ \A i \in DOMAIN ChildrenOf(p) :
                ChildrenOf(p)[i] \in Policy /\ ChildrenOf(p)[i] \in Members(ChildrenOf(p))
BY PolicyTypes DEF Members

LEMMA ReachIsClosed ==
    ASSUME Stored, NEW D \in SUBSET Policy, NEW W \in SUBSET Policy
    PROVE  /\ Reach(D, W) \in SUBSET Policy /\ ClosedUnder(D, W, Reach(D, W))
           /\ \A S \in SUBSET Policy : ClosedUnder(D, W, S) => Reach(D, W) \subseteq S
           /\ Reach(D, W) \cap D = {}
<1>1. Reach(D, W) \in SUBSET Policy
  BY DEF Reach
<1>2. \A S \in SUBSET Policy : ClosedUnder(D, W, S) => Reach(D, W) \subseteq S
  BY DEF Reach
<1>3. W \ D \subseteq Reach(D, W)
  BY DEF Reach, ClosedUnder
<1>4. ASSUME NEW s \in Reach(D, W), NEW c \in Members(ChildrenOf(s)) \ D
      PROVE  c \in Reach(D, W)
  <2>1. s \in Policy /\ c \in Policy
    BY <1>1, ChildrenArePolicies
  <2>2. ASSUME NEW S \in SUBSET Policy, ClosedUnder(D, W, S) PROVE c \in S
    BY <1>2, <2>2 DEF ClosedUnder
  <2> QED
    BY <2>1, <2>2 DEF Reach
<1>5. ClosedUnder(D, W, Reach(D, W))
  BY <1>3, <1>4 DEF ClosedUnder
<1>6. ClosedUnder(D, W, Reach(D, W) \ D)
  BY <1>5 DEF ClosedUnder
<1>7. Reach(D, W) \subseteq Reach(D, W) \ D
  BY <1>1, <1>2, <1>6
<1> QED
  BY <1>1, <1>2, <1>5, <1>7

LEMMA ReachNothing ==
    ASSUME Stored, NEW D \in SUBSET Policy
    PROVE  Reach(D, {}) = {}
<1>1. ClosedUnder(D, {}, {})
  BY DEF ClosedUnder
<1> QED
  BY <1>1, ReachIsClosed

LEMMA ReachFound ==
    ASSUME Stored, NEW D \in SUBSET Policy, NEW W \in SUBSET Policy, NEW p \in D
    PROVE  Reach(D, {p} \cup W) = Reach(D, W)
<1>1. \A S : ClosedUnder(D, {p} \cup W, S) <=> ClosedUnder(D, W, S)
  BY DEF ClosedUnder
<1> QED
  BY <1>1 DEF Reach

(* A policy, then what its children add, then what the others still add.   *)
LEMMA ReachSplits ==
    ASSUME Stored, NEW D \in SUBSET Policy, NEW W \in SUBSET Policy, NEW p \in Policy \ D
    PROVE  LET R1 == Reach(D \cup {p}, Members(ChildrenOf(p)))
           IN  Reach(D, {p} \cup W) = {p} \cup R1 \cup Reach(D \cup {p} \cup R1, W)
<1> DEFINE C  == Members(ChildrenOf(p))
           D1 == D \cup {p}
           R1 == Reach(D1, C)
           D2 == D1 \cup R1
           R2 == Reach(D2, W)
           R  == Reach(D, {p} \cup W)
           All == {p} \cup R1 \cup R2
<1>1. C \in SUBSET Policy /\ D1 \in SUBSET Policy /\ {p} \cup W \in SUBSET Policy
  BY ChildrenArePolicies
<1>2. /\ R1 \in SUBSET Policy /\ ClosedUnder(D1, C, R1)
      /\ \A S \in SUBSET Policy : ClosedUnder(D1, C, S) => R1 \subseteq S
  <2> HIDE DEF C, D1
  <2> QED
    BY <1>1, ReachIsClosed
<1>3. D2 \in SUBSET Policy
  BY <1>1, <1>2
<1>4. /\ R2 \in SUBSET Policy /\ ClosedUnder(D2, W, R2)
      /\ \A S \in SUBSET Policy : ClosedUnder(D2, W, S) => R2 \subseteq S
  <2> HIDE DEF D2
  <2> QED
    BY <1>3, ReachIsClosed
<1>5. /\ R \in SUBSET Policy /\ ClosedUnder(D, {p} \cup W, R)
      /\ \A S \in SUBSET Policy : ClosedUnder(D, {p} \cup W, S) => R \subseteq S
  BY <1>1, ReachIsClosed
<1> HIDE DEF C, R1, R2, R
<1>6. R \subseteq All
  <2>1. {p} \cup W \subseteq All \cup D
    BY <1>4 DEF ClosedUnder
  <2>2. Members(ChildrenOf(p)) \ D \subseteq All
    BY <1>2 DEF ClosedUnder, C
  <2>3. \A s \in R1 : Members(ChildrenOf(s)) \ D \subseteq All
    BY <1>2 DEF ClosedUnder
  <2>4. \A s \in R2 : Members(ChildrenOf(s)) \ D \subseteq All
    BY <1>4 DEF ClosedUnder
  <2>5. ClosedUnder(D, {p} \cup W, All)
    BY <2>1, <2>2, <2>3, <2>4 DEF ClosedUnder
  <2>6. All \in SUBSET Policy
    BY <1>2, <1>4
  <2> QED
    BY <1>5, <2>5, <2>6
<1>7. p \in R
  BY <1>5 DEF ClosedUnder
<1>8. R1 \subseteq R
  <2>1. ClosedUnder(D1, C, R)
    BY <1>5, <1>7 DEF ClosedUnder, C
  <2> QED
    BY <1>2, <1>5, <2>1
<1>9. R2 \subseteq R
  <2>1. ClosedUnder(D2, W, R)
    BY <1>5 DEF ClosedUnder
  <2> QED
    BY <1>4, <1>5, <2>1
<1> QED
  BY <1>6, <1>7, <1>8, <1>9 DEF R, R1, R2, C

(* What a policy shows of a child while the table is as it is, and the      *)
(* whole record of a policy.                                               *)
KnownTo(table, c) == IF table[c] = Missing THEN Known(c) ELSE table[c].known

Whole(table, p) ==
    IF IsComposite(p)
    THEN [ known |-> Known(p), composite |-> TRUE,
           children |-> [i \in DOMAIN ChildrenOf(p) |->
                           [policy |-> ChildrenOf(p)[i], known |-> KnownTo(table, ChildrenOf(p)[i])]] ]
    ELSE Entry(p)

Added(t) == Reach(Found(t.table), Members(t.list))
After(t) == [q \in Policy |-> IF q \in Added(t) THEN Whole(t.table, q) ELSE t.table[q]]

LEMMA KnownTypes ==
    ASSUME Stored, NEW table \in Table, NEW c \in Policy
    PROVE  KnownTo(table, c) \in Knowledge
BY PolicyTypes DEF KnownTo, Table, Detail

LEMMA EntryType ==
    ASSUME Stored, NEW p \in Policy
    PROVE  Entry(p) \in Detail /\ Entry(p) # Missing /\ Entry(p).known = Known(p)
<1>1. Known(p) \in Knowledge
  BY PolicyTypes
<1>2. Entry(p) \in Detail
  BY <1>1 DEF Entry, Detail
<1> QED
  BY <1>2, MissingAssumption DEF Entry

LEMMA WholeType ==
    ASSUME Stored, NEW table \in Table, NEW p \in Policy
    PROVE  Whole(table, p) \in Detail /\ Whole(table, p) # Missing /\ Whole(table, p).known = Known(p)
<1> DEFINE C == ChildrenOf(p)
           children == [i \in DOMAIN C |-> [policy |-> C[i], known |-> KnownTo(table, C[i])]]
<1>1. Known(p) \in Knowledge /\ C \in Seq(Policy)
  BY PolicyTypes
<1>2. children \in Seq(Child)
  <2>1. \A i \in DOMAIN C : C[i] \in Policy /\ KnownTo(table, C[i]) \in Knowledge
    BY <1>1, KnownTypes
  <2>2. DOMAIN C = 1 .. Len(C) /\ Len(C) \in Nat
    BY <1>1
  <2> HIDE DEF C
  <2>3. \A i \in 1 .. Len(C) : [policy |-> C[i], known |-> KnownTo(table, C[i])] \in Child
    BY <2>1, <2>2 DEF Child
  <2>4. children \in [1 .. Len(C) -> Child]
    BY <2>2, <2>3
  <2> HIDE DEF children
  <2> QED
    BY <2>2, <2>4
<1>3. CASE IsComposite(p)
  <2> HIDE DEF children
  <2>1. Whole(table, p) = [known |-> Known(p), composite |-> TRUE, children |-> children]
    BY <1>3 DEF Whole, children
  <2>2. Whole(table, p) \in Detail
    BY <1>1, <1>2, <2>1 DEF Detail
  <2>3. Whole(table, p) # Missing
    BY <2>2, MissingAssumption
  <2>4. Whole(table, p).known = Known(p)
    <3> HIDE DEF C
    <3> QED
      BY <2>1
  <2> QED
    BY <2>2, <2>3, <2>4
<1>4. CASE ~IsComposite(p)
  BY <1>4, EntryType DEF Whole
<1> QED
  BY <1>3, <1>4

(* A whole record depends on the table through what it knows of policies.  *)
LEMMA WholeSame ==
    ASSUME Stored, NEW table, NEW other, NEW p \in Policy,
           \A c \in Policy : KnownTo(table, c) = KnownTo(other, c)
    PROVE  Whole(table, p) = Whole(other, p)
<1>1. \A i \in DOMAIN ChildrenOf(p) : ChildrenOf(p)[i] \in Policy
  BY ChildrenArePolicies
<1>2. [i \in DOMAIN ChildrenOf(p) |->
         [policy |-> ChildrenOf(p)[i], known |-> KnownTo(table, ChildrenOf(p)[i])]]
      = [i \in DOMAIN ChildrenOf(p) |->
         [policy |-> ChildrenOf(p)[i], known |-> KnownTo(other, ChildrenOf(p)[i])]]
  BY <1>1
<1> QED
  BY <1>2 DEF Whole

LEMMA AfterMeaning ==
    ASSUME Stored, NEW t \in Task
    PROVE  /\ Found(t.table) \in SUBSET Policy /\ Members(t.list) \in SUBSET Policy
           /\ Added(t) \in SUBSET Policy /\ Added(t) \cap Found(t.table) = {}
           /\ After(t) \in Table
           /\ Found(After(t)) = Found(t.table) \cup Added(t)
           /\ \A c \in Policy : KnownTo(After(t), c) = KnownTo(t.table, c)
<1>1. /\ t.table \in Table /\ t.list \in Seq(Policy)
      /\ Found(t.table) \in SUBSET Policy /\ Members(t.list) \in SUBSET Policy
  BY DEF Task, Found, Members
<1>2. Added(t) \in SUBSET Policy /\ Added(t) \cap Found(t.table) = {}
  BY <1>1, ReachIsClosed DEF Added
<1>3. \A q \in Policy : /\ Whole(t.table, q) \in Detail /\ Whole(t.table, q) # Missing
                        /\ Whole(t.table, q).known = Known(q)
  BY <1>1, WholeType
<1>4. After(t) \in Table
  <2>1. \A q \in Policy : t.table[q] \in Detail \cup {Missing}
    BY <1>1 DEF Table
  <2>2. \A q \in Policy : (IF q \in Added(t) THEN Whole(t.table, q) ELSE t.table[q])
                             \in Detail \cup {Missing}
    BY <1>3, <2>1
  <2> QED
    BY <2>2 DEF After, Table
<1>5. \A q \in Policy : After(t)[q] = IF q \in Added(t) THEN Whole(t.table, q) ELSE t.table[q]
  BY DEF After
<1>6. Found(After(t)) = Found(t.table) \cup Added(t)
  BY <1>2, <1>3, <1>5 DEF Found
<1>7. ASSUME NEW c \in Policy PROVE KnownTo(After(t), c) = KnownTo(t.table, c)
  <2>1. CASE c \in Added(t)
    <3>1. t.table[c] = Missing
      BY <1>2, <2>1 DEF Found
    <3> QED
      BY <1>3, <1>5, <2>1, <3>1 DEF KnownTo
  <2>2. CASE c \notin Added(t)
    BY <1>5, <2>2 DEF KnownTo
  <2> QED
    BY <2>1, <2>2
<1> QED
  BY <1>1, <1>2, <1>4, <1>6, <1>7

(* The tasks a call of resolve starts: for the children of the first policy *)
(* of the list, then for the rest of the list.                             *)
Inner(t) == [table |-> [t.table EXCEPT ![Head(t.list)] = Entry(Head(t.list))],
             list  |-> ChildrenOf(Head(t.list))]
Outer(t, inner) == [table |-> [inner EXCEPT ![Head(t.list)] = Completed(inner, Head(t.list))],
                    list  |-> Tail(t.list)]
Skipped(t) == [table |-> t.table, list |-> Tail(t.list)]

ResolveBody(f, t) ==
    IF t.list = <<>> THEN t.table
    ELSE IF Head(t.list) \in Found(t.table) THEN f[Skipped(t)]
    ELSE f[Outer(t, f[Inner(t)])]

LEMMA ListSplits ==
    ASSUME NEW list \in Seq(Policy), list # <<>>
    PROVE  /\ Head(list) \in Policy /\ Tail(list) \in Seq(Policy)
           /\ Members(list) = {Head(list)} \cup Members(Tail(list))
           /\ Len(Tail(list)) \in Nat /\ Len(list) \in Nat /\ Len(Tail(list)) < Len(list)
<1>1. /\ Len(list) \in Nat /\ Len(list) > 0 /\ DOMAIN list = 1 .. Len(list)
      /\ Head(list) = list[1] /\ Head(list) \in Policy
      /\ Tail(list) \in Seq(Policy) /\ Len(Tail(list)) = Len(list) - 1
      /\ DOMAIN Tail(list) = 1 .. (Len(list) - 1)
      /\ \A i \in 1 .. (Len(list) - 1) : Tail(list)[i] = list[i + 1]
  OBVIOUS
<1>2. Members(list) \subseteq {Head(list)} \cup Members(Tail(list))
  <2> SUFFICES ASSUME NEW i \in 1 .. Len(list), i # 1
               PROVE  \E j \in DOMAIN Tail(list) : list[i] = Tail(list)[j]
    BY <1>1 DEF Members
  <2> WITNESS i - 1 \in DOMAIN Tail(list)
  <2> QED
    BY <1>1
<1>3. {Head(list)} \cup Members(Tail(list)) \subseteq Members(list)
  <2>1. 1 \in DOMAIN list /\ \A j \in DOMAIN Tail(list) : j + 1 \in DOMAIN list
    BY <1>1
  <2> QED
    BY <1>1, <2>1 DEF Members
<1> QED
  BY <1>1, <1>2, <1>3

LEMMA AfterNothing ==
    ASSUME Stored, NEW t \in Task, t.list = <<>>
    PROVE  After(t) = t.table
<1>1. Members(t.list) = {}
  BY DEF Members
<1>2. Found(t.table) \in SUBSET Policy /\ t.table \in Table
  BY DEF Found, Task
<1>3. Added(t) = {}
  BY <1>1, <1>2, ReachNothing DEF Added
<1> QED
  BY <1>2, <1>3 DEF After, Table

LEMMA AfterSkipped ==
    ASSUME Stored, NEW t \in Task, t.list # <<>>, Head(t.list) \in Found(t.table)
    PROVE  Skipped(t) \in Task /\ After(Skipped(t)) = After(t)
<1>1. t.table \in Table /\ t.list \in Seq(Policy)
  BY DEF Task
<1>2. /\ Tail(t.list) \in Seq(Policy)
      /\ Members(t.list) = {Head(t.list)} \cup Members(Tail(t.list))
  BY <1>1, ListSplits
<1>3. Skipped(t) \in Task /\ Skipped(t).table = t.table /\ Skipped(t).list = Tail(t.list)
  BY <1>1, <1>2 DEF Skipped, Task
<1>4. Found(t.table) \in SUBSET Policy /\ Members(Tail(t.list)) \in SUBSET Policy
  BY <1>2 DEF Found, Members
<1>5. Added(t) = Added(Skipped(t))
  BY <1>2, <1>3, <1>4, ReachFound DEF Added
<1> QED
  BY <1>3, <1>5 DEF After

LEMMA AfterInner ==
    ASSUME Stored, NEW t \in Task, t.list # <<>>, Head(t.list) \notin Found(t.table)
    PROVE  LET p == Head(t.list)
           IN  /\ p \in Policy /\ Inner(t) \in Task
               /\ Found(Inner(t).table) = Found(t.table) \cup {p}
               /\ Members(Inner(t).list) = Members(ChildrenOf(p))
               /\ \A c \in Policy : KnownTo(Inner(t).table, c) = KnownTo(t.table, c)
               /\ Inner(t).table[p] = Entry(p)
               /\ \A q \in Policy : q # p => Inner(t).table[q] = t.table[q]
<1> DEFINE p == Head(t.list)
<1>1. t.table \in Table /\ t.list \in Seq(Policy)
  BY DEF Task
<1>2. p \in Policy
  BY <1>1, ListSplits
<1> HIDE DEF p
<1>3. ChildrenOf(p) \in Seq(Policy) /\ Entry(p) \in Detail /\ Entry(p) # Missing /\ Entry(p).known = Known(p)
  BY <1>2, PolicyTypes, EntryType
<1>4. Inner(t).table = [t.table EXCEPT ![p] = Entry(p)] /\ Inner(t).list = ChildrenOf(p)
  BY DEF Inner, p
<1>5. Inner(t).table \in Table
  BY <1>1, <1>3, <1>4 DEF Table
<1>6. Inner(t) \in Task
  <2>1. Inner(t) = [table |-> Inner(t).table, list |-> ChildrenOf(p)]
    BY DEF Inner, p
  <2> QED
    BY <1>3, <1>5, <2>1 DEF Task
<1>7. Inner(t).table[p] = Entry(p) /\ \A q \in Policy : q # p => Inner(t).table[q] = t.table[q]
  BY <1>1, <1>2, <1>4 DEF Table
<1>8. Found(Inner(t).table) = Found(t.table) \cup {p}
  BY <1>2, <1>3, <1>7 DEF Found
<1>9. t.table[p] = Missing
  BY <1>2 DEF Found, p
<1>10. \A c \in Policy : KnownTo(Inner(t).table, c) = KnownTo(t.table, c)
  BY <1>3, <1>7, <1>9 DEF KnownTo
<1> QED
  BY <1>2, <1>4, <1>6, <1>7, <1>8, <1>10 DEF p

(* What the children added is still there when the policy itself is         *)
(* completed, and the rest of the list starts from there.                  *)
LEMMA AfterOuter ==
    ASSUME Stored, NEW t \in Task, t.list # <<>>, Head(t.list) \notin Found(t.table)
    PROVE  LET p == Head(t.list)
               o == Outer(t, After(Inner(t)))
           IN  /\ o \in Task
               /\ Found(o.table) = Found(t.table) \cup {p} \cup Added(Inner(t))
               /\ After(o) = After(t)
<1> DEFINE p == Head(t.list)
           D == Found(t.table)
           i == Inner(t)
           R1 == Added(i)
           inner == After(i)
           o == Outer(t, inner)
           W == Members(Tail(t.list))
<1>1. t.table \in Table /\ t.list \in Seq(Policy) /\ D \in SUBSET Policy
  BY DEF Task, Found
<1>2. /\ p \in Policy /\ Tail(t.list) \in Seq(Policy) /\ W \in SUBSET Policy
      /\ Members(t.list) = {p} \cup W
  <2>1. p \in Policy /\ Tail(t.list) \in Seq(Policy) /\ Members(t.list) = {p} \cup W
    BY <1>1, ListSplits
  <2>2. \A j \in DOMAIN Tail(t.list) : Tail(t.list)[j] \in Policy
    BY <2>1
  <2> QED
    BY <2>1, <2>2 DEF Members
<1>3. /\ i \in Task /\ Found(i.table) = D \cup {p} /\ Members(i.list) = Members(ChildrenOf(p))
      /\ \A c \in Policy : KnownTo(i.table, c) = KnownTo(t.table, c)
      /\ i.table[p] = Entry(p) /\ \A q \in Policy : q # p => i.table[q] = t.table[q]
  BY AfterInner
<1>4. /\ R1 \in SUBSET Policy /\ R1 \cap (D \cup {p}) = {} /\ inner \in Table
      /\ Found(inner) = D \cup {p} \cup R1
      /\ \A c \in Policy : KnownTo(inner, c) = KnownTo(t.table, c)
  <2> HIDE DEF i
  <2> QED
    BY <1>3, AfterMeaning
<1>5. \A q \in Policy : inner[q] = IF q \in R1 THEN Whole(t.table, q) ELSE i.table[q]
  <2>1. \A q \in R1 : Whole(i.table, q) = Whole(t.table, q)
    BY <1>3, <1>4, WholeSame
  <2> QED
    BY <2>1 DEF After
<1> HIDE DEF i, R1, inner
<1>6. inner[p] = Entry(p)
  BY <1>2, <1>3, <1>4, <1>5
<1>7. Completed(inner, p) = Whole(t.table, p)
  <2>1. CASE IsComposite(p)
    <3>1. \A c \in Members(ChildrenOf(p)) : c \in Found(inner)
      <4>1. R1 = Reach(D \cup {p}, Members(ChildrenOf(p)))
        BY <1>3 DEF R1, Added
      <4>2. ClosedUnder(D \cup {p}, Members(ChildrenOf(p)), R1)
        <5>1. Members(ChildrenOf(p)) \in SUBSET Policy /\ D \cup {p} \in SUBSET Policy
          BY <1>1, <1>2, ChildrenArePolicies
        <5> HIDE DEF D
        <5> QED
          BY <4>1, <5>1, ReachIsClosed
      <4> QED
        BY <1>4, <4>2 DEF ClosedUnder
    <3>2. \A k \in DOMAIN ChildrenOf(p) : inner[ChildrenOf(p)[k]].known = KnownTo(t.table, ChildrenOf(p)[k])
      <4> SUFFICES ASSUME NEW k \in DOMAIN ChildrenOf(p)
                   PROVE  inner[ChildrenOf(p)[k]].known = KnownTo(t.table, ChildrenOf(p)[k])
        OBVIOUS
      <4>1. ChildrenOf(p)[k] \in Policy /\ ChildrenOf(p)[k] \in Found(inner)
        BY <1>2, <3>1, ChildrenArePolicies
      <4>2. inner[ChildrenOf(p)[k]] # Missing
        BY <4>1 DEF Found
      <4> QED
        BY <1>4, <4>1, <4>2 DEF KnownTo
    <3>3. \A k \in DOMAIN ChildrenOf(p) :
             ShownAs(inner, ChildrenOf(p)[k])
               = [policy |-> ChildrenOf(p)[k], known |-> KnownTo(t.table, ChildrenOf(p)[k])]
      BY <3>2 DEF ShownAs
    <3>4. inner[p].known = Known(p)
      BY <1>2, <1>6, EntryType
    <3> QED
      BY <2>1, <3>3, <3>4 DEF Completed, Whole
  <2>2. CASE ~IsComposite(p)
    BY <1>6, <2>2 DEF Completed, Whole
  <2> QED
    BY <2>1, <2>2
<1>8. /\ o.table = [inner EXCEPT ![p] = Whole(t.table, p)] /\ o.list = Tail(t.list)
      /\ o = [table |-> o.table, list |-> o.list]
  BY <1>7 DEF Outer
<1>9. /\ Whole(t.table, p) \in Detail /\ Whole(t.table, p) # Missing
      /\ Whole(t.table, p).known = Known(p)
  BY <1>1, <1>2, WholeType
<1>10. o.table[p] = Whole(t.table, p) /\ \A q \in Policy : q # p => o.table[q] = inner[q]
  BY <1>2, <1>4, <1>8 DEF Table
<1> HIDE DEF o, p, W
<1>11. o \in Task
  <2>1. o.table \in Table
    BY <1>4, <1>8, <1>9 DEF Table
  <2> QED
    BY <1>2, <1>8, <2>1 DEF Task
<1>12. Found(o.table) = D \cup {p} \cup R1
  <2> HIDE DEF D
  <2> QED
    BY <1>2, <1>4, <1>9, <1>10 DEF Found
<1>13. \A c \in Policy : KnownTo(o.table, c) = KnownTo(t.table, c)
  <2>1. KnownTo(o.table, p) = Known(p) /\ KnownTo(t.table, p) = Known(p)
    <3>1. t.table[p] = Missing
      BY <1>2 DEF p, Found
    <3> QED
      BY <1>9, <1>10, <3>1 DEF KnownTo
  <2>2. \A c \in Policy : c # p => KnownTo(o.table, c) = KnownTo(inner, c)
    BY <1>10 DEF KnownTo
  <2> QED
    BY <1>4, <2>1, <2>2
<1>14. Added(t) = {p} \cup R1 \cup Added(o)
  <2>1. Added(t) = Reach(D, {p} \cup W)
    BY <1>2 DEF Added
  <2>2. Added(o) = Reach(D \cup {p} \cup R1, W)
    BY <1>8, <1>12 DEF Added, W
  <2>3. R1 = Reach(D \cup {p}, Members(ChildrenOf(p)))
    BY <1>3 DEF R1, Added
  <2>4. p \in Policy \ D
    BY <1>2 DEF p
  <2> HIDE DEF D
  <2> QED
    BY <1>1, <1>2, <2>1, <2>2, <2>3, <2>4, ReachSplits
<1>15. Added(o) \in SUBSET Policy /\ Added(o) \cap (D \cup {p} \cup R1) = {}
  BY <1>11, <1>12, AfterMeaning
<1>16. \A q \in Policy : After(o)[q] = After(t)[q]
  <2> SUFFICES ASSUME NEW q \in Policy PROVE After(o)[q] = After(t)[q]
    OBVIOUS
  <2>1. /\ After(o)[q] = IF q \in Added(o) THEN Whole(o.table, q) ELSE o.table[q]
        /\ After(t)[q] = IF q \in Added(t) THEN Whole(t.table, q) ELSE t.table[q]
    BY DEF After
  <2>2. Whole(o.table, q) = Whole(t.table, q)
    BY <1>13, WholeSame
  <2>3. CASE q = p
    BY <1>10, <1>14, <1>15, <2>1, <2>3
  <2>4. CASE q # p /\ q \in R1
    BY <1>5, <1>10, <1>14, <1>15, <2>1, <2>4
  <2>5. CASE q # p /\ q \notin R1
    BY <1>3, <1>5, <1>10, <1>14, <2>1, <2>2, <2>5
  <2> QED
    BY <2>3, <2>4, <2>5
<1>17. After(o) = After(t)
  BY <1>16 DEF After
<1> QED
  BY <1>11, <1>12, <1>17 DEF o, inner, p, R1, i, D

LEMMA ResolveIs ==
    ASSUME Stored
    PROVE  \A t \in Task : Resolve[t] = ResolveBody(Resolve, t)
<1> DEFINE F == [t \in Task |-> After(t)]
<1>1. F = [t \in Task |-> ResolveBody(F, t)]
  <2> SUFFICES ASSUME NEW t \in Task PROVE F[t] = ResolveBody(F, t)
    OBVIOUS
  <2>1. CASE t.list = <<>>
    BY <2>1, AfterNothing DEF ResolveBody
  <2>2. CASE t.list # <<>> /\ Head(t.list) \in Found(t.table)
    BY <2>2, AfterSkipped DEF ResolveBody
  <2>3. CASE t.list # <<>> /\ Head(t.list) \notin Found(t.table)
    <3>1. Inner(t) \in Task /\ F[Inner(t)] = After(Inner(t))
      BY <2>3, AfterInner
    <3>2. Outer(t, After(Inner(t))) \in Task /\ After(Outer(t, After(Inner(t)))) = After(t)
      BY <2>3, AfterOuter
    <3>3. ResolveBody(F, t) = F[Outer(t, After(Inner(t)))]
      BY <2>3, <3>1 DEF ResolveBody
    <3> QED
      BY <3>2, <3>3
  <2> QED
    BY <2>1, <2>2, <2>3
<1>2. Resolve = [t \in Task |-> ResolveBody(Resolve, t)]
  <2>1. Resolve = CHOOSE g : g = [t \in Task |-> ResolveBody(g, t)]
    BY DEF Resolve, ResolveBody, Inner, Outer, Skipped
  <2> HIDE DEF F
  <2> QED
    BY <1>1, <2>1
<1> QED
  BY <1>2

(* Each call puts one more policy in the table or leaves a shorter list.   *)
LEMMA ResolveMeaning ==
    ASSUME Stored
    PROVE  \A t \in Task : Resolve[t] = After(t)
<1> DEFINE Bad == {t \in Task : Resolve[t] # After(t)}
           Left(t) == Policy \ Found(t.table)
           Lefts == {Left(t) : t \in Bad}
<1>1. SUFFICES ASSUME Bad # {} PROVE FALSE
  OBVIOUS
<1>2. PICK U \in Lefts : \A T \in Lefts : T \subseteq U => T = U
  <2>1. IsFiniteSet(Policy)
    BY PolicyAssumption
  <2>2. \A t \in Bad : Left(t) \in SUBSET Policy
    OBVIOUS
  <2>3. Lefts \in SUBSET (SUBSET Policy) /\ Lefts # {}
    <3> HIDE DEF Bad, Left
    <3> QED
      BY <1>1, <2>2
  <2> HIDE DEF Lefts
  <2> QED
    BY <2>1, <2>3, SmallestExists
<1> DEFINE Worst == {t \in Bad : Left(t) = U}
           N == {Len(t.list) : t \in Worst}
<1>3. N \subseteq Nat /\ N # {}
  <2>1. \A t \in Worst : t.list \in Seq(Policy)
    BY DEF Task
  <2>2. \A t \in Worst : Len(t.list) \in Nat
    BY <2>1
  <2>3. Worst # {}
    BY <1>2
  <2> HIDE DEF Worst
  <2> QED
    BY <2>2, <2>3
<1>4. PICK n \in N : \A m \in N : ~(m < n)
  <2>1. PICK n \in N : \A m \in N : ~(<<m, n>> \in OpToRel(<, Nat))
    <3> HIDE DEF N
    <3> QED
      BY <1>3, WFMin, NatLessThanWellFounded
  <2> HIDE DEF N
  <2> QED
    BY <1>3, <2>1 DEF OpToRel
<1>5. PICK t \in Worst : Len(t.list) = n
  BY <1>4
<1>6. t \in Task /\ Resolve[t] # After(t) /\ Left(t) = U
  BY <1>5
<1>7. \A u \in Task : Left(u) \subseteq U /\ Left(u) # U => Resolve[u] = After(u)
  BY <1>2
<1>8. \A u \in Task : Left(u) = U /\ Len(u.list) < Len(t.list) => Resolve[u] = After(u)
  BY <1>4, <1>5
<1> HIDE DEF Bad, Lefts, Worst, N
<1>9. Resolve[t] = ResolveBody(Resolve, t)
  BY <1>6, ResolveIs
<1>10. CASE t.list = <<>>
  BY <1>6, <1>9, <1>10, AfterNothing DEF ResolveBody
<1>11. CASE t.list # <<>> /\ Head(t.list) \in Found(t.table)
  <2>1. Skipped(t) \in Task /\ After(Skipped(t)) = After(t)
    BY <1>6, <1>11, AfterSkipped
  <2>2. Skipped(t).table = t.table /\ Skipped(t).list = Tail(t.list)
    BY DEF Skipped
  <2>3. Len(Skipped(t).list) < Len(t.list)
    BY <1>6, <1>11, <2>2, ListSplits DEF Task
  <2>4. Resolve[Skipped(t)] = After(Skipped(t))
    BY <1>6, <1>8, <2>1, <2>2, <2>3
  <2> QED
    BY <1>6, <1>9, <1>11, <2>1, <2>4 DEF ResolveBody
<1>12. CASE t.list # <<>> /\ Head(t.list) \notin Found(t.table)
  <2> DEFINE p == Head(t.list)
             o == Outer(t, After(Inner(t)))
  <2>1. /\ p \in Policy /\ Inner(t) \in Task
        /\ Found(Inner(t).table) = Found(t.table) \cup {p}
    BY <1>6, <1>12, AfterInner
  <2>2. /\ o \in Task /\ Found(o.table) = Found(t.table) \cup {p} \cup Added(Inner(t))
        /\ After(o) = After(t)
    BY <1>6, <1>12, AfterOuter
  <2>3. p \in U
    BY <1>6, <1>12, <2>1
  <2>4. /\ Left(Inner(t)) \subseteq U /\ p \notin Left(Inner(t))
        /\ Left(o) \subseteq U /\ p \notin Left(o)
    BY <1>6, <2>1, <2>2
  <2> HIDE DEF p, Left
  <2>5. Resolve[Inner(t)] = After(Inner(t))
    BY <1>7, <2>1, <2>3, <2>4
  <2>6. Resolve[o] = After(o)
    BY <1>7, <2>2, <2>3, <2>4
  <2>7. ResolveBody(Resolve, t) = Resolve[o]
    BY <1>12, <2>5 DEF ResolveBody
  <2> QED
    BY <1>6, <1>9, <2>2, <2>6, <2>7
<1> QED
  BY <1>10, <1>11, <1>12

-----------------------------------------------------------------------------
(* A table every entry of which is what the registry tables say.           *)
NewTable == [p \in Policy |-> Missing]
Full(p)  == Whole(NewTable, p)
Sound(table) == table \in Table /\ \A p \in Found(table) : table[p] = Full(p)

LEMMA FullMeaning ==
    ASSUME Stored, NEW p \in Policy
    PROVE  /\ Full(p).known = Known(p) /\ Full(p).composite = IsComposite(p)
           /\ Len(Full(p).children) = Len(ChildrenOf(p))
           /\ \A i \in DOMAIN ChildrenOf(p) :
                Full(p).children[i] = [policy |-> ChildrenOf(p)[i], known |-> Known(ChildrenOf(p)[i])]
<1>1. CASE IsComposite(p)
  <2> DEFINE C == ChildrenOf(p)
             children == [i \in DOMAIN C |-> [policy |-> C[i], known |-> KnownTo(NewTable, C[i])]]
  <2>1. /\ Full(p).known = Known(p) /\ Full(p).composite = TRUE
        /\ Full(p).children = children
    BY <1>1 DEF Full, Whole
  <2>2. C \in Seq(Policy)
    BY PolicyTypes
  <2> HIDE DEF C
  <2>3. Len(children) = Len(C)
    BY <2>2
  <2>4. \A i \in DOMAIN C : C[i] \in Policy
    BY <2>2
  <2>5. \A c \in Policy : KnownTo(NewTable, c) = Known(c)
    BY DEF KnownTo, NewTable
  <2>6. \A i \in DOMAIN C : children[i] = [policy |-> C[i], known |-> Known(C[i])]
    BY <2>4, <2>5
  <2> HIDE DEF children
  <2> QED
    BY <1>1, <2>1, <2>3, <2>6 DEF C
<1>2. CASE ~IsComposite(p)
  <2>1. Full(p) = [known |-> Known(p), composite |-> FALSE, children |-> <<>>]
    BY <1>2 DEF Full, Whole, Entry
  <2>2. ChildrenOf(p) = <<>>
    BY <1>2 DEF ChildrenOf
  <2>3. IsComposite(p) = FALSE
    BY <1>2, PolicyTypes
  <2>4. Full(p).known = Known(p) /\ Full(p).composite = FALSE
    BY <2>1
  <2>5. Full(p).children = ChildrenOf(p)
    BY <2>1, <2>2
  <2>6. DOMAIN <<>> = {}
    OBVIOUS
  <2>7. \A i \in DOMAIN ChildrenOf(p) : FALSE
    BY <2>2, <2>6, Zenon
  <2> QED
    BY <2>3, <2>4, <2>5, <2>7
<1> QED
  BY <1>1, <1>2

LEMMA NewTableSound ==
    ASSUME Stored PROVE Sound(NewTable) /\ Found(NewTable) = {}
BY DEF NewTable, Sound, Found, Table

LEMMA SoundKnown ==
    ASSUME Stored, NEW table, Sound(table), NEW p \in Policy
    PROVE  Whole(table, p) = Full(p)
<1>1. ASSUME NEW c \in Policy PROVE KnownTo(table, c) = KnownTo(NewTable, c)
  <2>1. KnownTo(NewTable, c) = Known(c)
    BY DEF KnownTo, NewTable
  <2>2. table[c] # Missing => table[c].known = Known(c)
    BY FullMeaning DEF Sound, Found
  <2> QED
    BY <2>1, <2>2 DEF KnownTo
<1> QED
  BY <1>1, WholeSame DEF Full

(* Resolving one policy leaves a sound table that has it.                  *)
With(table, q) == Resolve[[table |-> table, list |-> <<q>>]]

LEMMA WithSound ==
    ASSUME Stored, NEW table, Sound(table), NEW q \in Policy
    PROVE  LET next == With(table, q)
           IN  /\ Sound(next) /\ q \in Found(next)
               /\ Found(table) \subseteq Found(next)
<1> DEFINE t == [table |-> table, list |-> <<q>>]
<1>1. t \in Task /\ t.table = table /\ Members(t.list) = {q}
  <2>1. <<q>> \in Seq(Policy) /\ DOMAIN <<q>> = {1}
    OBVIOUS
  <2> QED
    BY <2>1 DEF Task, Sound, Members
<1>2. With(table, q) = After(t)
  BY <1>1, ResolveMeaning DEF With
<1> HIDE DEF t
<1>3. /\ Found(table) \in SUBSET Policy /\ Added(t) \in SUBSET Policy
      /\ After(t) \in Table /\ Found(After(t)) = Found(table) \cup Added(t)
  BY <1>1, AfterMeaning
<1>4. q \in Found(table) \cup Added(t)
  <2>1. ClosedUnder(Found(table), {q}, Added(t))
    BY <1>1, <1>3, ReachIsClosed DEF Added
  <2> QED
    BY <2>1 DEF ClosedUnder
<1>5. ASSUME NEW p \in Found(After(t)) PROVE After(t)[p] = Full(p)
  <2>1. p \in Policy /\ After(t)[p] = IF p \in Added(t) THEN Whole(table, p) ELSE table[p]
    BY <1>1 DEF Found, After
  <2>2. Whole(table, p) = Full(p)
    BY <2>1, SoundKnown
  <2> QED
    BY <1>3, <1>5, <2>1, <2>2 DEF Sound
<1>6. Sound(After(t))
  BY <1>3, <1>5 DEF Sound
<1> QED
  BY <1>2, <1>3, <1>4, <1>6

(* A replay that resolves one policy for every row of S.                   *)
Resolves(f, S, base, N) ==
    [T \in SUBSET S |-> IF T = {} THEN base ELSE With(f[T \ {Last(T)}], N[Last(T)])]

LEMMA ResolvesExist ==
    ASSUME Stored, NEW S \in SUBSET rows, NEW base, Sound(base), NEW N \in [S -> Policy]
    PROVE  \E g : g = Resolves(g, S, base, N)
<1> DEFINE V == {table \in Table : Sound(table)}
           P == [x \in V \X S |-> With(x[1], N[x[2]])]
<1>1. Rows(S)
  BY StoredRows
<1>2. \A v \in V, l \in S : With(v, N[l]) \in V
  BY WithSound DEF Sound
<1>3. base \in V /\ P \in [V \X S -> V]
  BY <1>2 DEF Sound
<1>4. PICK g : /\ Follows(g, S, V, base, P)
               /\ \A T \in SUBSET S :
                     T # {} => <<g[T \ {Last(T)}], Last(T)>> \in V \X S
  <2> HIDE DEF V, P
  <2>1. Rows(S) /\ base \in V /\ P \in [V \X S -> V]
    BY <1>1, <1>3
  <2>2. \A VV : \A bb \in VV : \A PP \in [VV \X S -> VV] :
          \E g : /\ Follows(g, S, VV, bb, PP)
                 /\ \A T \in SUBSET S : T # {} => <<g[T \ {Last(T)}], Last(T)>> \in VV \X S
    BY <1>1, ReplayExists
  <2> QED
    BY <2>1, <2>2
<1>5. \A T \in SUBSET S :
        T # {} => P[<<g[T \ {Last(T)}], Last(T)>>] = With(g[T \ {Last(T)}], N[Last(T)])
  BY <1>4
<1>6. g = Resolves(g, S, base, N)
  <2> HIDE DEF V, P
  <2> QED
    BY <1>4, <1>5 DEF Follows, Resolves
<1> QED
  BY <1>6

LEMMA ResolvesSound ==
    ASSUME Stored, NEW S \in SUBSET rows, NEW base, Sound(base), NEW N \in [S -> Policy],
           NEW it, it = Resolves(it, S, base, N)
    PROVE  /\ Sound(it[S]) /\ Found(base) \subseteq Found(it[S])
           /\ \A u \in S : N[u] \in Found(it[S])
<1> DEFINE Good == {T \in SUBSET S : /\ Sound(it[T]) /\ Found(base) \subseteq Found(it[T])
                                     /\ \A u \in T : N[u] \in Found(it[T])}
<1>1. Rows(S)
  BY StoredRows
<1>2. \A T \in SUBSET S :
        it[T] = IF T = {} THEN base ELSE With(it[T \ {Last(T)}], N[Last(T)])
  BY DEF Resolves
<1>3. {} \in Good
  BY <1>2
<1>4. ASSUME NEW T \in SUBSET S, T # {}, T \ {Last(T)} \in Good PROVE T \in Good
  <2> DEFINE u == Last(T)
             before == it[T \ {u}]
  <2>1. u \in T
    BY <1>1, <1>4, RowsFinite, LastMeaning
  <2>2. /\ Sound(before) /\ Found(base) \subseteq Found(before)
        /\ \A l \in T \ {u} : N[l] \in Found(before)
    BY <1>4
  <2>3. it[T] = With(before, N[u])
    BY <1>2, <1>4
  <2> HIDE DEF u, before
  <2>4. /\ Sound(it[T]) /\ N[u] \in Found(it[T]) /\ Found(before) \subseteq Found(it[T])
    <3>1. N[u] \in Policy
      BY <2>1
    <3> QED
      BY <2>2, <2>3, <3>1, WithSound
  <2> QED
    BY <2>2, <2>4
<1>5. Good = SUBSET S
  <2>1. Good \in SUBSET (SUBSET S)
    OBVIOUS
  <2> HIDE DEF Good
  <2> QED
    BY <1>1, <1>3, <1>4, <2>1, ReplayInduction
<1> QED
  BY <1>5

LEMMA UpdatePolicies ==
    ASSUME Stored
    PROVE  /\ History \in SUBSET rows /\ \A u \in History : u.policy \in Policy
           /\ \A s \in {u.scope : u \in History} :
                /\ OfScope(s) \in SUBSET History /\ OfScope(s) # {}
                /\ Last(OfScope(s)) \in OfScope(s)
<1>1. History \in SUBSET rows /\ \A u \in History : u.kind = "PolicyUpdated"
  BY DEF History, Of
<1>2. \A u \in History : u.policy \in Policy
  BY <1>1, PolicyAssumption DEF Stored
<1>3. ASSUME NEW s \in {u.scope : u \in History}
      PROVE  /\ OfScope(s) \in SUBSET History /\ OfScope(s) # {}
             /\ Last(OfScope(s)) \in OfScope(s)
  <2>1. OfScope(s) \in SUBSET History /\ OfScope(s) # {}
    BY DEF OfScope
  <2>2. Rows(OfScope(s))
    BY <1>1, <2>1, StoredRows
  <2> QED
    BY <2>1, <2>2, LastMeaning
<1> QED
  BY <1>1, <1>2, <1>3

(* The replay over the first updates of the scopes. *)
LEMMA OpeningsSound ==
    ASSUME Stored
    PROVE  LET table == Replay(Openings, ResolveScope, NewTable)
           IN  /\ Sound(table)
               /\ \A u \in Openings : Last(OfScope(u.scope)).policy \in Found(table)
<1> DEFINE S == Openings
           N == [u \in S |-> Last(OfScope(u.scope)).policy]
           Step(f) == [T \in SUBSET S |-> IF T = {} THEN NewTable
                                          ELSE ResolveScope(f[T \ {Last(T)}], Last(T))]
           it == CHOOSE f : f = Step(f)
<1>1. S \in SUBSET rows /\ S \subseteq History /\ Rows(S)
  BY UpdatePolicies, StoredRows DEF Openings
<1>2. N \in [S -> Policy]
  BY <1>1, UpdatePolicies
<1>3. Replay(Openings, ResolveScope, NewTable) = it[S]
  BY DEF Replay, MapThenFoldSet
<1>4. \A f : Step(f) = Resolves(f, S, NewTable, N)
  <2> SUFFICES ASSUME NEW f, NEW T \in SUBSET S, T # {}
               PROVE  ResolveScope(f[T \ {Last(T)}], Last(T)) = With(f[T \ {Last(T)}], N[Last(T)])
    BY DEF Resolves
  <2>1. Last(T) \in S
    BY <1>1, RowsFinite, LastMeaning
  <2>2. N[Last(T)] = Last(OfScope(Last(T).scope)).policy
    BY <2>1
  <2> HIDE DEF N
  <2> QED
    BY <2>2 DEF ResolveScope, ResolveUpdate, With
<1>5. it = Resolves(it, S, NewTable, N)
  <2>1. \E g : g = Resolves(g, S, NewTable, N)
    <3> HIDE DEF S, N
    <3> QED
      BY <1>1, <1>2, NewTableSound, ResolvesExist
  <2>2. it = Step(it)
    <3> HIDE DEF Step
    <3> QED
      BY <1>4, <2>1
  <2> HIDE DEF Step, it
  <2> QED
    BY <1>4, <2>2
<1>6. Sound(it[S]) /\ \A u \in S : N[u] \in Found(it[S])
  <2> HIDE DEF S, N, it
  <2> QED
    BY <1>1, <1>2, <1>5, NewTableSound, ResolvesSound
<1>7. \A u \in S : N[u] = Last(OfScope(u.scope)).policy
  OBVIOUS
<1> HIDE DEF N, it
<1> QED
  BY <1>3, <1>6, <1>7

(* The replay over every update that names a policy, and the snapshot.     *)
LEMMA SnapshotSound ==
    ASSUME Stored
    PROVE  /\ Sound(Resolved)
           /\ \A u \in Openings : Last(OfScope(u.scope)).policy \in Found(Resolved)
           /\ \A u \in History : Bound(u) => u.policy \in Found(Resolved)
<1> DEFINE S == {u \in History : Bound(u)}
           N == [u \in S |-> u.policy]
           base == Replay(Openings, ResolveScope, NewTable)
           Step(f) == [T \in SUBSET S |-> IF T = {} THEN base
                                          ELSE ResolveUpdate(f[T \ {Last(T)}], Last(T))]
           it == CHOOSE f : f = Step(f)
<1>1. S \in SUBSET rows /\ S \subseteq History /\ Rows(S)
  BY UpdatePolicies, StoredRows
<1>2. N \in [S -> Policy]
  BY <1>1, UpdatePolicies
<1>3. Sound(base) /\ \A u \in Openings : Last(OfScope(u.scope)).policy \in Found(base)
  BY OpeningsSound
<1>4. Resolved = it[S]
  BY DEF Resolved, NewTable, Replay, MapThenFoldSet
<1> HIDE DEF base
<1>5. \A f : Step(f) = Resolves(f, S, base, N)
  <2> SUFFICES ASSUME NEW f, NEW T \in SUBSET S, T # {}
               PROVE  ResolveUpdate(f[T \ {Last(T)}], Last(T)) = With(f[T \ {Last(T)}], N[Last(T)])
    BY DEF Resolves
  <2>1. Last(T) \in S
    BY <1>1, RowsFinite, LastMeaning
  <2>2. N[Last(T)] = Last(T).policy
    BY <2>1
  <2> HIDE DEF N
  <2> QED
    BY <2>2 DEF ResolveUpdate, With
<1>6. it = Resolves(it, S, base, N)
  <2>1. \E g : g = Resolves(g, S, base, N)
    <3> HIDE DEF S, N
    <3> QED
      BY <1>1, <1>2, <1>3, ResolvesExist
  <2>2. it = Step(it)
    <3> HIDE DEF Step
    <3> QED
      BY <1>5, <2>1
  <2> HIDE DEF Step, it
  <2> QED
    BY <1>5, <2>2
<1>7. /\ Sound(it[S]) /\ Found(base) \subseteq Found(it[S])
      /\ \A u \in S : N[u] \in Found(it[S])
  <2> HIDE DEF S, N, it
  <2> QED
    BY <1>1, <1>2, <1>3, <1>6, ResolvesSound
<1>8. \A u \in History : Bound(u) => N[u] = u.policy /\ u \in S
  OBVIOUS
<1> HIDE DEF N, it, S
<1> QED
  BY <1>3, <1>4, <1>7, <1>8

LEMMA DetailsAreExact == ASSUME Stored PROVE DetailsExact
<1>1. \A p \in Found(Resolved) : p \in Policy /\ Resolved[p] = Full(p)
  BY SnapshotSound DEF Sound, Found
<1>2. \A p \in Found(Resolved) :
         /\ Resolved[p].known = Known(p)
         /\ Resolved[p].composite = IsComposite(p)
         /\ Len(Resolved[p].children) = Len(ChildrenOf(p))
         /\ \A i \in DOMAIN ChildrenOf(p) :
               Resolved[p].children[i] = [policy |-> ChildrenOf(p)[i], known |-> Known(ChildrenOf(p)[i])]
  <2> SUFFICES ASSUME NEW p \in Found(Resolved)
               PROVE  /\ Full(p).known = Known(p)
                      /\ Full(p).composite = IsComposite(p)
                      /\ Len(Full(p).children) = Len(ChildrenOf(p))
                      /\ \A i \in DOMAIN ChildrenOf(p) :
                            Full(p).children[i] = [policy |-> ChildrenOf(p)[i], known |-> Known(ChildrenOf(p)[i])]
    BY <1>1, Zenon
  <2> QED
    BY <1>1, FullMeaning
<1> QED
  BY <1>2 DEF DetailsExact

(* A scope that any update names has a first update, at which the snapshot *)
(* resolves the policy of its last one.                                    *)
LEMMA NoScopeIsHidden == ASSUME Stored PROVE NoScopeHidden
<1> DEFINE scopes    == {u.scope : u \in History}
           newest(s) == Last({u \in History : u.scope = s})
<1>1. ASSUME NEW s \in scopes PROVE newest(s) = Last(OfScope(s))
  BY DEF OfScope
<1>2. ASSUME NEW s \in scopes PROVE newest(s).policy \in Found(Resolved)
  <2>1. /\ History \in SUBSET rows /\ OfScope(s) \in SUBSET History /\ OfScope(s) # {}
        /\ Last(OfScope(s)) \in OfScope(s)
    BY UpdatePolicies
  <2>2. PICK u \in OfScope(s) : \A v \in OfScope(s) : ~Before(v, u)
    <3>1. Rows(OfScope(s))
      BY <2>1, StoredRows
    <3> QED
      BY <2>1, <3>1, OldestExists, RowOrder
  <2>3. u.scope = s /\ u \in History
    BY <2>1, <2>2 DEF OfScope
  <2>4. u \in Openings
    BY <2>2, <2>3 DEF Openings
  <2>5. Last(OfScope(s)).policy \in Found(Resolved)
    BY <2>3, <2>4, SnapshotSound
  <2> QED
    BY <1>1, <2>5
<1>3. HasPolicy <=> \E s \in scopes : Bound(newest(s))
  BY <1>1 DEF HasPolicy, CurrentScopes
<1> QED
  BY <1>2, <1>3 DEF NoScopeHidden

-----------------------------------------------------------------------------
(* The requests may come at any moment.                                    *)

(* What the API reads is always part of one chain.                         *)
THEOREM RowsAreStored == Spec => []Stored
<1>1. Paging => Stored
  BY DEF Paging, Stored
<1> QED
  BY PagingInvariant, <1>1, PTL

(* seizureCapability reports a method as armed exactly if its role is      *)
(* held, its scopes are bound as COBALT.md:14-19 says and its feature is   *)
(* not paused, by the newest stored row on each of them.                   *)
THEOREM SeizureCapabilityExact == Spec => []ArmedExact
BY RowsAreStored, CapabilityExact, PTL

(* Nobody is listed under a label by /roles without holding a role of that *)
(* label, though several hashes share one and the replay forgets which.    *)
THEOREM ListedAccountsHold == Spec => []ListedHold
BY RowsAreStored, RolesListed, PTL

(* reconstructAnnouncements shows every announced id, and as closed iff an *)
(* end of that id follows its newest announcement.                         *)
THEOREM AnnouncementStateExact == Spec => []AnnouncementsExact
BY RowsAreStored, AnnouncementsClosed, PTL

(* Every policy of the snapshot has its own record and its newest children, *)
(* whatever the registry's composites refer to and in whatever order the   *)
(* rows came.                                                              *)
THEOREM PolicyDetailsExact == Spec => []DetailsExact
BY RowsAreStored, DetailsAreExact, PTL

(* No scope hides another: the token has a policy iff some scope is bound,  *)
(* and the policy of every scope is in the snapshot.                       *)
THEOREM BoundScopesShown == Spec => []NoScopeHidden
BY RowsAreStored, NoScopeIsHidden, PTL
=============================================================================
