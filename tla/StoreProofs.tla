---------------------------- MODULE StoreProofs -----------------------------
(***************************************************************************)
(* Lemmas about the operators of Store: they map databases to databases    *)
(* and keep the two counts of a token exact.  And about sums of amounts,   *)
(* which are folds over sets: that such a fold exists, and that it does    *)
(* not matter in which order the rows are added up.                        *)
(***************************************************************************)
EXTENDS Store, FiniteSetsExt, FiniteSetTheorems, WellFoundedInduction, TLAPS

-----------------------------------------------------------------------------
(* Types.                                                                  *)

(* The empty database is one. *)
LEMMA EmptyDBType == EmptyDB \in DB
BY DEF EmptyDB, DB

(* insertToken returns a database. *)
LEMMA InsertTokenType ==
    ASSUME NEW d \in DB, NEW t \in Token
    PROVE  /\ InsertToken(d, t) \in DB
           /\ InsertToken(d, t) = [d EXCEPT !.tokens = d.tokens \cup {t}]
BY DEF InsertToken, DB

(* CurrentAdmin is a truth value. *)
LEMMA CurrentAdminType ==
    ASSUME NEW rows, NEW t
    PROVE  CurrentAdmin(rows, t) \in BOOLEAN
BY DEF CurrentAdmin

(* A batch of inserted rows changes the events and the two flags. *)
LEMMA InsertRowsType ==
    ASSUME NEW d \in DB, NEW rows \in SUBSET Log
    PROVE  /\ InsertRows(d, rows) \in DB
           /\ InsertRows(d, rows).events = rows \cup d.events
           /\ InsertRows(d, rows).tokens = d.tokens
           /\ InsertRows(d, rows).applied = d.applied
           /\ InsertRows(d, rows).holders = d.holders
           /\ InsertRows(d, rows).supply = d.supply
           /\ InsertRows(d, rows).holderCount = d.holderCount
           /\ InsertRows(d, rows).transferCount = d.transferCount
<1> DEFINE new == rows \ d.events
           all == rows \cup d.events
           nm == [t \in Token |-> d.nonMint[t] \/ \E l \in new : Moves(l, t)]
           aa == [t \in Token |-> IF \E l \in new : ChangesAdmin(l, t)
                                  THEN CurrentAdmin(all, t) ELSE d.adminActive[t]]
<1>1. nm \in [Token -> BOOLEAN]
  BY DEF DB, Moves
<1>2. aa \in [Token -> BOOLEAN]
  BY CurrentAdminType DEF DB
<1>3. all \in SUBSET Log
  BY DEF DB
<1>4. InsertRows(d, rows) = [d EXCEPT !.events = all, !.nonMint = nm, !.adminActive = aa]
  BY DEF InsertRows, DB
<1> HIDE DEF nm, aa
<1> QED
  BY <1>1, <1>2, <1>3, <1>4 DEF DB

(* The balances of one token after a debit are natural numbers: the clamp. *)
LEMMA DebitType ==
    ASSUME NEW bal \in [Account -> Nat], NEW l \in Log, IsTransfer(l)
    PROVE  /\ Debit(bal, l) \in [Account -> Nat]
           /\ \A a \in Account :
                 Debit(bal, l)[a] = IF a = l.from
                                    THEN IF bal[a] <= l.amount THEN 0 ELSE bal[a] - l.amount
                                    ELSE bal[a]
BY LogAssumption, AccountAssumption DEF Debit

(* So are they after a credit. *)
LEMMA CreditType ==
    ASSUME NEW bal \in [Account -> Nat], NEW l \in Log, IsTransfer(l)
    PROVE  /\ Credit(bal, l) \in [Account -> Nat]
           /\ \A a \in Account :
                 Credit(bal, l)[a] = IF a = l.to THEN bal[a] + l.amount ELSE bal[a]
BY LogAssumption, AccountAssumption DEF Credit

(* holder_count stays a natural number. *)
LEMMA HolderCountType ==
    ASSUME NEW n \in Nat, NEW bal, NEW l
    PROVE  HolderCount(n, bal, l) \in Nat
<1> DEFINE c == IF Closes(bal, l) THEN 1 ELSE 0
           o == IF Opens(bal, l) THEN 1 ELSE 0
<1>1. c \in {0, 1} /\ o \in {0, 1}
  OBVIOUS
<1>2. HolderCount(n, bal, l) = IF n - c + o < 0 THEN 0 ELSE n - c + o
  BY DEF HolderCount
<1> HIDE DEF c, o
<1> QED
  BY <1>1, <1>2

(* Applying a Transfer returns a database, and what it changes. *)
LEMMA ApplyTransferType ==
    ASSUME NEW d \in DB, NEW l \in Log, IsTransfer(l)
    PROVE  /\ ApplyTransfer(d, l) \in DB
           /\ ApplyTransfer(d, l).events = d.events
           /\ ApplyTransfer(d, l).tokens = d.tokens
           /\ ApplyTransfer(d, l).applied = d.applied
           /\ ApplyTransfer(d, l).transferCount
                = [d.transferCount EXCEPT ![l.token] = @ + 1]
           /\ ApplyTransfer(d, l).holders
                = IF Effective(l)
                  THEN [d.holders EXCEPT ![l.token] = Credit(Debit(@, l), l)]
                  ELSE d.holders
           /\ ApplyTransfer(d, l).holderCount
                = IF Effective(l)
                  THEN [d.holderCount EXCEPT ![l.token] = HolderCount(@, d.holders[l.token], l)]
                  ELSE d.holderCount
<1> DEFINE t == l.token
           tc == [d.transferCount EXCEPT ![t] = @ + 1]
           hs == [d.holders EXCEPT ![t] = Credit(Debit(@, l), l)]
           hc == [d.holderCount EXCEPT ![t] = HolderCount(@, d.holders[t], l)]
           su == [d.supply EXCEPT ![t] = Supply(@, l)]
<1>1. t \in Token /\ l.amount \in Nat
  BY LogAssumption
<1>2. tc \in [Token -> Nat]
  BY <1>1 DEF DB
<1>3. d.holders[t] \in [Account -> Nat] /\ d.holderCount[t] \in Nat /\ d.supply[t] \in Int
  BY <1>1 DEF DB
<1>4. hs \in [Token -> [Account -> Nat]]
  <2>1. Credit(Debit(d.holders[t], l), l) \in [Account -> Nat]
    BY <1>3, DebitType, CreditType
  <2> QED
    BY <2>1 DEF DB
<1>5. hc \in [Token -> Nat]
  <2>1. HolderCount(d.holderCount[t], d.holders[t], l) \in Nat
    BY <1>3, HolderCountType
  <2> QED
    BY <2>1 DEF DB
<1>6. su \in [Token -> Int]
  <2>1. Supply(d.supply[t], l) \in Int
    BY <1>1, <1>3 DEF Supply
  <2> QED
    BY <2>1 DEF DB
<1>7. CASE ~Effective(l)
  <2>1. ApplyTransfer(d, l) = [d EXCEPT !.transferCount = tc]
    BY <1>7 DEF ApplyTransfer, DB
  <2> HIDE DEF tc
  <2>2. ApplyTransfer(d, l) \in DB
    BY <2>1, <1>2 DEF DB
  <2> QED
    BY <2>1, <2>2, <1>7 DEF DB, tc
<1>8. CASE Effective(l)
  <2>1. ApplyTransfer(d, l) = [d EXCEPT !.transferCount = tc, !.holders = hs,
                                        !.holderCount = hc, !.supply = su]
    BY <1>8 DEF ApplyTransfer, DB
  <2> HIDE DEF tc, hs, hc, su
  <2>2. ApplyTransfer(d, l) \in DB
    BY <2>1, <1>2, <1>4, <1>5, <1>6 DEF DB
  <2>3. /\ ApplyTransfer(d, l).transferCount = tc
        /\ ApplyTransfer(d, l).holders = hs
        /\ ApplyTransfer(d, l).holderCount = hc
        /\ ApplyTransfer(d, l).events = d.events
        /\ ApplyTransfer(d, l).tokens = d.tokens
        /\ ApplyTransfer(d, l).applied = d.applied
    BY <2>1 DEF DB
  <2> QED
    BY <2>2, <2>3, <1>8 DEF tc, hs, hc
<1> QED
  BY <1>7, <1>8

(* insertTransferEventAndApply of a stored, unapplied row: it is the row    *)
(* applied and marked.                                                     *)
LEMMA ApplyStoredType ==
    ASSUME NEW d \in DB, NEW l \in Log, IsTransfer(l), l \in d.events, l \notin d.applied
    PROVE  LET e == InsertTransferAndApply(d, l)
           IN  /\ e \in DB
               /\ e.events = d.events
               /\ e.tokens = d.tokens
               /\ e.applied = d.applied \cup {l}
               /\ e.transferCount = [d.transferCount EXCEPT ![l.token] = @ + 1]
               /\ e.holders
                    = IF Effective(l)
                      THEN [d.holders EXCEPT ![l.token] = Credit(Debit(@, l), l)]
                      ELSE d.holders
               /\ e.holderCount
                    = IF Effective(l)
                      THEN [d.holderCount EXCEPT ![l.token] = HolderCount(@, d.holders[l.token], l)]
                      ELSE d.holderCount
<1> DEFINE i == InsertRows(d, {l})
           a == ApplyTransfer(i, l)
           e == InsertTransferAndApply(d, l)
<1>1. /\ i \in DB
      /\ i.events = d.events
      /\ i.tokens = d.tokens
      /\ i.applied = d.applied
      /\ i.holders = d.holders
      /\ i.holderCount = d.holderCount
      /\ i.transferCount = d.transferCount
  BY InsertRowsType, {l} \in SUBSET Log, {l} \cup d.events = d.events
<1> HIDE DEF i
<1>2. /\ a \in DB
      /\ a.events = i.events
      /\ a.tokens = i.tokens
      /\ a.applied = i.applied
      /\ a.transferCount = [i.transferCount EXCEPT ![l.token] = @ + 1]
      /\ a.holders = IF Effective(l)
                     THEN [i.holders EXCEPT ![l.token] = Credit(Debit(@, l), l)]
                     ELSE i.holders
      /\ a.holderCount = IF Effective(l)
                         THEN [i.holderCount EXCEPT ![l.token] = HolderCount(@, i.holders[l.token], l)]
                         ELSE i.holderCount
  BY <1>1, ApplyTransferType
<1>3. e = [a EXCEPT !.applied = a.applied \cup {l}]
  BY DEF InsertTransferAndApply, i
<1> HIDE DEF a, e
<1>4. e \in DB
  BY <1>2, <1>3 DEF DB
<1>5. /\ e.events = a.events /\ e.tokens = a.tokens /\ e.applied = a.applied \cup {l}
      /\ e.transferCount = a.transferCount /\ e.holders = a.holders
      /\ e.holderCount = a.holderCount
  BY <1>2, <1>3 DEF DB
<1>6. /\ e.events = d.events /\ e.tokens = d.tokens /\ e.applied = d.applied \cup {l}
  BY <1>1, <1>2, <1>5
<1>7. e.transferCount = [d.transferCount EXCEPT ![l.token] = @ + 1]
  BY <1>1, <1>2, <1>5
<1>8. e.holders = IF Effective(l)
                  THEN [d.holders EXCEPT ![l.token] = Credit(Debit(@, l), l)]
                  ELSE d.holders
  BY <1>1, <1>2, <1>5
<1>9. e.holderCount = IF Effective(l)
                      THEN [d.holderCount EXCEPT ![l.token] = HolderCount(@, d.holders[l.token], l)]
                      ELSE d.holderCount
  BY <1>1, <1>2, <1>5
<1> QED
  BY <1>4, <1>6, <1>7, <1>8, <1>9 DEF e

(* total_supply follows the mints and burns that take effect. *)
LEMMA ApplyStoredSupply ==
    ASSUME NEW d \in DB, NEW l \in Log, IsTransfer(l), l \in d.events, l \notin d.applied
    PROVE  InsertTransferAndApply(d, l).supply
             = IF Effective(l) THEN [d.supply EXCEPT ![l.token] = Supply(@, l)] ELSE d.supply
<1> DEFINE i == InsertRows(d, {l})
           a == ApplyTransfer(i, l)
<1>1. i \in DB /\ i.supply = d.supply
  BY InsertRowsType, {l} \in SUBSET Log
<1> HIDE DEF i
<1>2. a.supply = IF Effective(l) THEN [i.supply EXCEPT ![l.token] = Supply(@, l)] ELSE i.supply
  BY <1>1 DEF ApplyTransfer, DB
<1>3. a \in DB
  BY <1>1, ApplyTransferType
<1> HIDE DEF a
<1>4. InsertTransferAndApply(d, l) = [a EXCEPT !.applied = a.applied \cup {l}]
  BY DEF InsertTransferAndApply, i, a
<1> QED
  BY <1>1, <1>2, <1>3, <1>4 DEF DB

(* The part of it that the invariants of the indexer use. *)
LEMMA ApplyStoredFields ==
    ASSUME NEW d \in DB, NEW l \in Log, IsTransfer(l), l \in d.events, l \notin d.applied
    PROVE  /\ InsertTransferAndApply(d, l) \in DB
           /\ InsertTransferAndApply(d, l).events = d.events
           /\ InsertTransferAndApply(d, l).tokens = d.tokens
           /\ InsertTransferAndApply(d, l).applied = d.applied \cup {l}
BY ApplyStoredType

-----------------------------------------------------------------------------
(* Counts.                                                                 *)

HolderRows(bal) == {a \in Account : bal[a] > 0}

(* A debit removes the row of the sender exactly when it closes it. *)
LEMMA DebitRows ==
    ASSUME NEW bal \in [Account -> Nat], NEW l \in Log, IsTransfer(l), Effective(l)
    PROVE  /\ IsFiniteSet(HolderRows(bal))
           /\ IsFiniteSet(HolderRows(Debit(bal, l)))
           /\ Cardinality(HolderRows(Debit(bal, l)))
                = Cardinality(HolderRows(bal)) - (IF Closes(bal, l) THEN 1 ELSE 0)
<1> DEFINE R == HolderRows(bal)
           D == HolderRows(Debit(bal, l))
<1>1. IsFiniteSet(R)
  <2>1. R \subseteq Account
    BY DEF HolderRows
  <2> QED
    BY <2>1, AccountAssumption, FS_Subset
<1>2. l.amount \in Nat /\ l.amount > 0 /\ l.from \in Account \cup {ZERO}
  BY LogAssumption DEF Effective
<1>3. CASE Closes(bal, l)
  <2>1. l.from \in R
    BY <1>2, <1>3 DEF HolderRows, Closes
  <2>2. D = R \ {l.from}
    BY <1>2, <1>3, DebitType DEF HolderRows, Closes
  <2>3. IsFiniteSet(D) /\ Cardinality(D) = Cardinality(R) - 1
    BY <1>1, <2>1, <2>2, FS_RemoveElement
  <2> QED
    BY <1>1, <1>3, <2>3
<1>4. CASE ~Closes(bal, l)
  <2>1. D = R
    BY <1>2, <1>4, DebitType, AccountAssumption DEF HolderRows, Closes
  <2>2. Cardinality(R) \in Nat
    BY <1>1, FS_CardinalityType
  <2> QED
    BY <1>1, <1>4, <2>1, <2>2
<1> QED
  BY <1>3, <1>4

(* A credit adds the row of the recipient exactly when it opens it. *)
LEMMA CreditRows ==
    ASSUME NEW bal \in [Account -> Nat], NEW l \in Log, IsTransfer(l), Effective(l)
    PROVE  /\ IsFiniteSet(HolderRows(Credit(bal, l)))
           /\ Cardinality(HolderRows(Credit(bal, l)))
                = Cardinality(HolderRows(bal)) + (IF Opens(bal, l) THEN 1 ELSE 0)
<1> DEFINE R == HolderRows(bal)
           C == HolderRows(Credit(bal, l))
<1>1. IsFiniteSet(R)
  <2>1. R \subseteq Account
    BY DEF HolderRows
  <2> QED
    BY <2>1, AccountAssumption, FS_Subset
<1>2. l.amount \in Nat /\ l.amount > 0 /\ l.to \in Account \cup {ZERO}
  BY LogAssumption DEF Effective
<1>3. CASE Opens(bal, l)
  <2>1. l.to \in Account /\ l.to \notin R
    BY <1>2, <1>3 DEF HolderRows, Opens
  <2>2. C = R \cup {l.to}
    BY <1>2, <1>3, <2>1, CreditType DEF HolderRows, Opens
  <2>3. IsFiniteSet(C) /\ Cardinality(C) = Cardinality(R) + 1
    BY <1>1, <2>1, <2>2, FS_AddElement
  <2> QED
    BY <1>3, <2>3
<1>4. CASE ~Opens(bal, l)
  <2>1. C = R
    BY <1>2, <1>4, CreditType, AccountAssumption DEF HolderRows, Opens
  <2>2. Cardinality(R) \in Nat
    BY <1>1, FS_CardinalityType
  <2> QED
    BY <1>1, <1>4, <2>1, <2>2
<1> QED
  BY <1>3, <1>4

(* Storing rows leaves holder_count and transfer_count exact. *)
LEMMA InsertRowsCounts ==
    ASSUME NEW d \in DB, NEW rows \in SUBSET Log
    PROVE  /\ HolderCountExact(d) => HolderCountExact(InsertRows(d, rows))
           /\ TransferCountExact(d) => TransferCountExact(InsertRows(d, rows))
<1> DEFINE i == InsertRows(d, rows)
<1>1. /\ i.events = rows \cup d.events
      /\ i.applied = d.applied
      /\ i.holders = d.holders
      /\ i.holderCount = d.holderCount
      /\ i.transferCount = d.transferCount
  BY InsertRowsType
<1> HIDE DEF i
<1>2. HolderCountExact(d) => HolderCountExact(i)
  BY <1>1 DEF HolderCountExact
<1>3. TransferCountExact(d) => TransferCountExact(i)
  BY <1>1 DEF TransferCountExact
<1> QED
  BY <1>2, <1>3 DEF i

(* Applying a stored row keeps holder_count equal to the number of rows. *)
LEMMA ApplyStoredHolders ==
    ASSUME NEW d \in DB, NEW l \in Log, IsTransfer(l), l \in d.events, l \notin d.applied,
           HolderCountExact(d)
    PROVE  HolderCountExact(InsertTransferAndApply(d, l))
<1> DEFINE e == InsertTransferAndApply(d, l)
           t == l.token
           bal == d.holders[t]
           deb == Debit(bal, l)
           n == d.holderCount[t]
<1>1. /\ e.holders = IF Effective(l)
                     THEN [d.holders EXCEPT ![t] = Credit(deb, l)]
                     ELSE d.holders
      /\ e.holderCount = IF Effective(l)
                         THEN [d.holderCount EXCEPT ![t] = HolderCount(n, bal, l)]
                         ELSE d.holderCount
  BY ApplyStoredType
<1>2. t \in Token /\ bal \in [Account -> Nat] /\ n \in Nat
  BY LogAssumption DEF DB
<1>3. d.holders \in [Token -> [Account -> Nat]] /\ d.holderCount \in [Token -> Nat]
  BY DEF DB
<1> HIDE DEF e
<1>4. CASE ~Effective(l)
  BY <1>1, <1>4 DEF HolderCountExact, e
<1>5. CASE Effective(l)
  <2> DEFINE c == IF Closes(bal, l) THEN 1 ELSE 0
             o == IF Opens(bal, l) THEN 1 ELSE 0
  <2>1. n = Cardinality(HolderRows(bal))
    BY <1>2 DEF HolderCountExact, HolderRows
  <2>2. deb \in [Account -> Nat]
    BY <1>2, DebitType
  <2>3. /\ Cardinality(HolderRows(deb)) = n - c
        /\ IsFiniteSet(HolderRows(deb))
    BY <1>2, <1>5, <2>1, DebitRows
  <2>4. Opens(deb, l) <=> Opens(bal, l)
    BY <1>2, <1>5, DebitType, LogAssumption DEF Opens, Effective
  <2>5. Cardinality(HolderRows(Credit(deb, l))) = n - c + o
    BY <1>5, <2>2, <2>3, <2>4, CreditRows
  <2>6. Cardinality(HolderRows(deb)) \in Nat
    BY <2>3, FS_CardinalityType
  <2>7. HolderCount(n, bal, l) = n - c + o
    <3>1. HolderCount(n, bal, l) = IF n - c + o < 0 THEN 0 ELSE n - c + o
      BY DEF HolderCount
    <3>2. o \in {0, 1} /\ c \in {0, 1}
      OBVIOUS
    <3> HIDE DEF o, c
    <3> QED
      BY <1>2, <2>3, <2>6, <3>1, <3>2
  <2> HIDE DEF o, c, deb, bal, n
  <2>8. e.holders[t] = Credit(deb, l) /\ e.holderCount[t] = HolderCount(n, bal, l)
    BY <1>1, <1>2, <1>3, <1>5
  <2>9. e.holderCount[t] = Cardinality({a \in Account : e.holders[t][a] > 0})
    BY <2>5, <2>7, <2>8 DEF HolderRows
  <2>10. ASSUME NEW u \in Token, u # t
         PROVE  e.holderCount[u] = Cardinality({a \in Account : e.holders[u][a] > 0})
    <3>1. e.holders[u] = d.holders[u] /\ e.holderCount[u] = d.holderCount[u]
      BY <1>1, <1>3, <1>5, <2>10
    <3> QED
      BY <3>1 DEF HolderCountExact
  <2> QED
    BY <2>9, <2>10 DEF HolderCountExact, e
<1> QED
  BY <1>4, <1>5

(* Applying a stored row counts it once. *)
LEMMA ApplyStoredCounts ==
    ASSUME NEW d \in DB, NEW l \in Log, IsTransfer(l), l \in d.events, l \notin d.applied,
           TransferCountExact(d)
    PROVE  TransferCountExact(InsertTransferAndApply(d, l))
<1> DEFINE e == InsertTransferAndApply(d, l)
           Of(A, t) == {k \in A : k.token = t}
<1>1. /\ e.events = d.events
      /\ e.applied = d.applied \cup {l}
      /\ e.transferCount = [d.transferCount EXCEPT ![l.token] = @ + 1]
  BY ApplyStoredType
<1>2. l.token \in Token /\ d.transferCount \in [Token -> Nat] /\ d.applied \subseteq Log
  BY LogAssumption DEF DB
<1> HIDE DEF e
<1>3. e.applied \subseteq {k \in e.events : IsTransfer(k)}
  BY <1>1 DEF TransferCountExact
<1>4. ASSUME NEW t \in Token
      PROVE  e.transferCount[t] = Cardinality(Of(e.applied, t))
  <2>1. Of(d.applied, t) \subseteq Log /\ IsFiniteSet(Of(d.applied, t))
    <3>1. Of(d.applied, t) \subseteq Log
      BY <1>2
    <3> QED
      BY <3>1, LogAssumption, FS_Subset
  <2>2. d.transferCount[t] = Cardinality(Of(d.applied, t))
    BY DEF TransferCountExact
  <2>3. CASE t = l.token
    <3>1. Of(e.applied, t) = Of(d.applied, t) \cup {l}
      BY <1>1, <2>3
    <3>2. Cardinality(Of(e.applied, t)) = Cardinality(Of(d.applied, t)) + 1
      BY <2>1, <3>1, FS_AddElement
    <3>3. e.transferCount[t] = d.transferCount[t] + 1
      BY <1>1, <1>2, <2>3
    <3> QED
      BY <2>2, <3>2, <3>3
  <2>4. CASE t # l.token
    <3>1. Of(e.applied, t) = Of(d.applied, t)
      BY <1>1, <2>4
    <3>2. e.transferCount[t] = d.transferCount[t]
      BY <1>1, <1>2, <2>4
    <3> QED
      BY <2>2, <3>1, <3>2
  <2> QED
    BY <2>3, <2>4
<1> QED
  BY <1>3, <1>4 DEF TransferCountExact, e

-----------------------------------------------------------------------------
(* Flags.                                                                  *)

Ranked(E) == \A k, l \in E : k = l \/ Before(k, l) \/ Before(l, k)

(* Positions are ordered. *)
LEMMA BeforeOrder ==
    /\ \A k \in Log : ~Before(k, k)
    /\ \A k, l \in Log : Before(k, l) => ~Before(l, k)
    /\ \A j, k, l \in Log : Before(j, k) /\ Before(k, l) => Before(j, l)
<1>1. \A l \in Log : l.block \in Int /\ l.index \in Int
  BY LogAssumption
<1> QED
  BY <1>1 DEF Before

(* Some log is the last: the one with the fewest behind it. *)
LEMMA NewestExists ==
    ASSUME NEW H \in SUBSET Log, H # {}, Ranked(H)
    PROVE  \E n \in H : \A l \in H : l = n \/ Before(l, n)
<1> DEFINE Later(l) == {k \in H : Before(l, k)}
           T == {Later(l) : l \in H}
<1>1. T \subseteq FiniteSubsetsOf(H) /\ T # {}
  <2>1. IsFiniteSet(H)
    BY LogAssumption, FS_Subset
  <2>2. \A l \in H : Later(l) \in SUBSET H /\ IsFiniteSet(Later(l))
    BY <2>1, FS_Subset
  <2> QED
    BY <2>2 DEF FiniteSubsetsOf
<1>2. PICK x \in T : \A y \in T : ~(<<y, x>> \in StrictSubsetOrdering(H))
  <2>1. IsWellFoundedOn(StrictSubsetOrdering(H), FiniteSubsetsOf(H))
    BY FS_StrictSubsetOrderingWellFounded
  <2> HIDE DEF T
  <2> QED
    BY <1>1, <2>1, WFMin
<1>3. PICK n \in H : x = Later(n)
  BY <1>2
<1>4. Later(n) = {}
  <2> SUFFICES ASSUME NEW k \in Later(n) PROVE FALSE
    OBVIOUS
  <2>1. k \in H /\ Before(n, k)
    OBVIOUS
  <2>2. Later(k) \subseteq Later(n) /\ k \notin Later(k)
    BY <2>1, BeforeOrder
  <2>3. <<Later(k), Later(n)>> \in StrictSubsetOrdering(H)
    BY <2>2 DEF StrictSubsetOrdering
  <2>4. Later(k) \in T
    BY <2>1
  <2> QED
    BY <1>2, <1>3, <2>3, <2>4
<1> QED
  BY <1>4 DEF Ranked

(* The newest change of some admin role of some account is a grant. *)
NewestGrants(E, t) ==
    \E r \in AdminRole, a \in Account :
        LET H == {l \in E : IsRoleChange(l) /\ l.token = t /\ l.role = r /\ l.account = a}
        IN  \E g \in H : g.kind = "RoleGranted" /\ \A l \in H : l = g \/ Before(l, g)

(* currentAdminActive asks for a grant that no revocation follows.  That   *)
(* is the same as asking for the newest change, although grants of one     *)
(* role of one account may repeat.                                         *)
LEMMA CurrentAdminNewest ==
    ASSUME NEW E \in SUBSET Log, Ranked(E), NEW t
    PROVE  CurrentAdmin(E, t) <=> NewestGrants(E, t)
<1> DEFINE Hist(r, a) == {l \in E : IsRoleChange(l) /\ l.token = t /\ l.role = r /\ l.account = a}
<1>1. ASSUME NEW g \in E, g.kind = "RoleGranted", g.token = t, g.role \in AdminRole,
             ~ \E r \in E : /\ r.kind = "RoleRevoked" /\ r.token = t
                            /\ r.role = g.role /\ r.account = g.account /\ Before(g, r)
      PROVE  NewestGrants(E, t)
  <2> DEFINE H == Hist(g.role, g.account)
  <2>1. g \in H /\ H \in SUBSET Log /\ g.account \in Account
    BY <1>1, LogAssumption DEF IsRoleChange
  <2>2. Ranked(H)
    BY DEF Ranked
  <2>3. PICK n \in H : \A l \in H : l = n \/ Before(l, n)
    <3> HIDE DEF H
    <3> QED
      BY <2>1, <2>2, NewestExists
  <2>4. n.kind = "RoleGranted"
    BY <1>1, <2>1, <2>3 DEF IsRoleChange
  <2> QED
    BY <1>1, <2>1, <2>3, <2>4 DEF NewestGrants
<1>2. ASSUME NEW r \in AdminRole, NEW a \in Account, NEW g \in Hist(r, a),
             g.kind = "RoleGranted", \A l \in Hist(r, a) : l = g \/ Before(l, g)
      PROVE  CurrentAdmin(E, t)
  <2>1. ASSUME NEW k \in E, k.kind = "RoleRevoked", k.token = t, k.role = g.role,
               k.account = g.account, Before(g, k)
        PROVE  FALSE
    <3>1. k \in Hist(r, a) /\ k # g /\ k \in Log /\ g \in Log
      BY <1>2, <2>1 DEF IsRoleChange
    <3> QED
      BY <1>2, <2>1, <3>1, BeforeOrder
  <2> QED
    BY <1>2, <2>1 DEF CurrentAdmin
<1> QED
  BY <1>1, <1>2 DEF CurrentAdmin, NewestGrants

(* What the flags must say. *)
LEMMA FlagsMeaning ==
    ASSUME NEW d
    PROVE  AdminExact(d) <=> \A t \in Token : d.adminActive[t] <=> NewestGrants(d.events, t)
BY DEF AdminExact, NewestGrants, RoleHistory

(* A batch of rows leaves both flags exact, also rows older than stored    *)
(* ones: admin_active is computed anew from all of them.                   *)
LEMMA InsertRowsFlags ==
    ASSUME NEW d \in DB, NEW rows \in SUBSET Log, Ranked(rows \cup d.events),
           AdminExact(d), NonMintExact(d)
    PROVE  AdminExact(InsertRows(d, rows)) /\ NonMintExact(InsertRows(d, rows))
<1> DEFINE new == rows \ d.events
           all == rows \cup d.events
           i == InsertRows(d, rows)
<1>1. i.events = all /\ all \in SUBSET Log
  BY InsertRowsType DEF DB
<1>2. /\ \A t \in Token : i.nonMint[t] = (d.nonMint[t] \/ \E l \in new : Moves(l, t))
      /\ \A t \in Token : i.adminActive[t] = IF \E l \in new : ChangesAdmin(l, t)
                                             THEN CurrentAdmin(all, t) ELSE d.adminActive[t]
  BY DEF InsertRows, DB
<1> HIDE DEF i
<1>3. ASSUME NEW t \in Token
      PROVE  i.adminActive[t] <=> NewestGrants(all, t)
  <2>1. CASE \E l \in new : ChangesAdmin(l, t)
    BY <1>1, <1>2, <2>1, CurrentAdminNewest
  <2>2. CASE ~ \E l \in new : ChangesAdmin(l, t)
    <3>1. \A r \in AdminRole, a \in Account :
            {l \in all : IsRoleChange(l) /\ l.token = t /\ l.role = r /\ l.account = a}
            = {l \in d.events : IsRoleChange(l) /\ l.token = t /\ l.role = r /\ l.account = a}
      BY <2>2 DEF ChangesAdmin
    <3>2. NewestGrants(all, t) <=> NewestGrants(d.events, t)
      BY <3>1 DEF NewestGrants
    <3>3. d.adminActive[t] <=> NewestGrants(d.events, t)
      BY FlagsMeaning
    <3> QED
      BY <1>2, <2>2, <3>2, <3>3
  <2> QED
    BY <2>1, <2>2
<1>4. AdminExact(i)
  BY <1>1, <1>3, FlagsMeaning
<1>5. NonMintExact(i)
  <2> SUFFICES ASSUME NEW t \in Token
               PROVE  i.nonMint[t] <=> \E l \in i.events : Moves(l, t)
    BY DEF NonMintExact
  <2>1. d.nonMint[t] <=> \E l \in d.events : Moves(l, t)
    BY DEF NonMintExact
  <2> QED
    BY <1>1, <1>2, <2>1
<1> QED
  BY <1>4, <1>5 DEF i

(* Applying a stored row touches neither flag. *)
LEMMA ApplyStoredFlags ==
    ASSUME NEW d \in DB, NEW l \in Log, IsTransfer(l), l \in d.events, l \notin d.applied
    PROVE  /\ InsertTransferAndApply(d, l).adminActive = d.adminActive
           /\ InsertTransferAndApply(d, l).nonMint = d.nonMint
<1> DEFINE i == InsertRows(d, {l})
           a == ApplyTransfer(i, l)
<1>1. {l} \ d.events = {} /\ {l} \in SUBSET Log
  OBVIOUS
<1>2. i.adminActive = d.adminActive /\ i.nonMint = d.nonMint
  <2> DEFINE nm == [t \in Token |-> d.nonMint[t] \/ \E k \in {l} \ d.events : Moves(k, t)]
             aa == [t \in Token |-> IF \E k \in {l} \ d.events : ChangesAdmin(k, t)
                                    THEN CurrentAdmin({l} \cup d.events, t) ELSE d.adminActive[t]]
  <2>1. d.nonMint \in [Token -> BOOLEAN] /\ d.adminActive \in [Token -> BOOLEAN]
    BY DEF DB
  <2>2. nm = d.nonMint
    BY <1>1, <2>1
  <2>3. aa = d.adminActive
    BY <1>1, <2>1
  <2>4. i.nonMint = nm /\ i.adminActive = aa
    BY DEF InsertRows, DB
  <2> QED
    BY <2>2, <2>3, <2>4
<1>3. i \in DB
  BY <1>1, InsertRowsType
<1> HIDE DEF i
<1>4. a \in DB /\ a.adminActive = i.adminActive /\ a.nonMint = i.nonMint
  <2>1. a \in DB
    BY <1>3, ApplyTransferType
  <2> QED
    BY <1>3, <2>1 DEF ApplyTransfer, DB
<1>5. InsertTransferAndApply(d, l) = [a EXCEPT !.applied = a.applied \cup {l}]
  BY DEF InsertTransferAndApply, i
<1> HIDE DEF a
<1> QED
  BY <1>2, <1>4, <1>5 DEF DB

-----------------------------------------------------------------------------
(* Folds.                                                                  *)

(* A smallest member of a set of subsets of a finite set. *)
LEMMA SmallestExists ==
    ASSUME NEW S, IsFiniteSet(S), NEW Bad \in SUBSET (SUBSET S), Bad # {}
    PROVE  \E U \in Bad : \A T \in Bad : T \subseteq U => T = U
<1>1. Bad \subseteq FiniteSubsetsOf(S)
  BY FS_Subset DEF FiniteSubsetsOf
<1>2. PICK U \in Bad : \A T \in Bad : ~(<<T, U>> \in StrictSubsetOrdering(S))
  BY <1>1, FS_StrictSubsetOrderingWellFounded, WFMin
<1> QED
  BY <1>2 DEF StrictSubsetOrdering

(* Which member of a set is taken away first. *)
Chooser(C, S) == \A T \in SUBSET S : T # {} => C[T] \in T

(* What holds of no members, and of some when it holds of all but the one  *)
(* taken away, holds of every part of S.                                   *)
LEMMA FoldInduction ==
    ASSUME NEW S, IsFiniteSet(S), NEW C, Chooser(C, S),
           NEW Good \in SUBSET (SUBSET S), {} \in Good,
           \A T \in SUBSET S : T # {} /\ T \ {C[T]} \in Good => T \in Good
    PROVE  Good = SUBSET S
<1> DEFINE Bad == (SUBSET S) \ Good
<1>1. SUFFICES ASSUME Bad # {} PROVE FALSE
  OBVIOUS
<1>2. PICK T \in Bad : \A U \in Bad : U \subseteq T => U = T
  <2> HIDE DEF Bad
  <2>1. Bad \in SUBSET (SUBSET S)
    BY DEF Bad
  <2> QED
    BY <1>1, <2>1, SmallestExists
<1>3. T \in SUBSET S /\ T # {} /\ C[T] \in T
  BY <1>2 DEF Chooser
<1>4. T \ {C[T]} \in Good
  BY <1>2, <1>3
<1> QED
  BY <1>2, <1>3, <1>4

(* g says what folding P over each part of S gives. *)
IsFold(g, S, V, base, P, C) ==
    /\ g \in [SUBSET S -> V]
    /\ \A T \in SUBSET S :
          g[T] = IF T = {} THEN base ELSE P[<<g[T \ {C[T]}], C[T]>>]

(* Two folds of the same kind agree where both are defined. *)
LEMMA FoldUnique ==
    ASSUME NEW S, IsFiniteSet(S), NEW C, Chooser(C, S), NEW V, NEW base, NEW P,
           NEW g, IsFold(g, S, V, base, P, C), NEW U \in SUBSET S,
           NEW h, IsFold(h, U, V, base, P, C)
    PROVE  h[U] = g[U]
<1> DEFINE Good == {T \in SUBSET U : h[T] = g[T]}
<1>1. IsFiniteSet(U) /\ Chooser(C, U)
  BY FS_Subset DEF Chooser
<1>2. {} \in Good
  BY DEF IsFold
<1>3. ASSUME NEW T \in SUBSET U, T # {}, T \ {C[T]} \in Good PROVE T \in Good
  <2>1. h[T] = P[<<h[T \ {C[T]}], C[T]>>]
    BY <1>3 DEF IsFold
  <2>2. g[T] = P[<<g[T \ {C[T]}], C[T]>>]
    BY <1>3 DEF IsFold
  <2> QED
    BY <1>3, <2>1, <2>2
<1>4. Good = SUBSET U
  <2>1. Good \in SUBSET (SUBSET U)
    OBVIOUS
  <2> HIDE DEF Good
  <2> QED
    BY <1>1, <1>2, <1>3, <2>1, FoldInduction
<1> QED
  BY <1>4

(* A fold over a finite set is well defined, whichever member comes first. *)
LEMMA FoldExists ==
    ASSUME NEW S, IsFiniteSet(S), NEW C, Chooser(C, S), NEW V, NEW base \in V,
           NEW P \in [V \X S -> V]
    PROVE  \E g : IsFold(g, S, V, base, P, C)
<1> DEFINE Part(T) == CHOOSE g : IsFold(g, T, V, base, P, C)
           Good == {U \in SUBSET S : \E g : IsFold(g, U, V, base, P, C)}
           Bad == (SUBSET S) \ Good
<1>1. {} \in Good
  <2>1. SUBSET {} = {{}}
    OBVIOUS
  <2>2. IsFold([T \in {{}} |-> base], {}, V, base, P, C)
    BY <2>1 DEF IsFold
  <2> QED
    BY <2>2
<1>2. SUFFICES ASSUME Bad # {} PROVE FALSE
  <2>1. S \in SUBSET S
    OBVIOUS
  <2> QED
    BY <2>1
<1>3. PICK U \in Bad : \A T \in Bad : T \subseteq U => T = U
  <2>1. Bad \in SUBSET (SUBSET S)
    OBVIOUS
  <2> HIDE DEF Bad
  <2> QED
    BY <1>2, <2>1, SmallestExists
<1>4. U # {} /\ C[U] \in U /\ U \in SUBSET S
  BY <1>1, <1>3 DEF Chooser
<1>5. ASSUME NEW T \in SUBSET U, T # U PROVE IsFold(Part(T), T, V, base, P, C)
  <2>1. T \in Good
    BY <1>3, <1>5
  <2> QED
    BY <2>1
<1> DEFINE value(T) == Part(T)[T]
<1>6. ASSUME NEW T \in SUBSET U, T # U
      PROVE  /\ value(T) \in V
             /\ value(T) = IF T = {} THEN base ELSE P[<<value(T \ {C[T]}), C[T]>>]
  <2>1. IsFold(Part(T), T, V, base, P, C)
    BY <1>5, <1>6
  <2>2. T \in SUBSET T
    OBVIOUS
  <2> HIDE DEF Part
  <2>3. value(T) \in V
    BY <2>1, <2>2 DEF IsFold
  <2>4. CASE T = {}
    BY <2>1, <2>2, <2>3, <2>4 DEF IsFold
  <2>5. CASE T # {}
    <3> DEFINE W == T \ {C[T]}
    <3>1. W \in SUBSET T /\ W \in SUBSET U /\ W # U
      BY <1>4
    <3>2. IsFold(Part(W), W, V, base, P, C)
      BY <1>5, <3>1
    <3>3. IsFiniteSet(T) /\ Chooser(C, T)
      BY <1>4, FS_Subset DEF Chooser
    <3>4. Part(W)[W] = Part(T)[W]
      BY <2>1, <3>1, <3>2, <3>3, FoldUnique
    <3>5. value(T) = P[<<Part(T)[W], C[T]>>]
      BY <2>1, <2>2, <2>5 DEF IsFold
    <3> QED
      BY <2>3, <2>5, <3>4, <3>5
  <2> QED
    BY <2>4, <2>5
<1> HIDE DEF value
<1> DEFINE top == P[<<value(U \ {C[U]}), C[U]>>]
           h == [T \in SUBSET U |-> IF T = U THEN top ELSE value(T)]
<1>7. top \in V
  <2>1. U \ {C[U]} \in SUBSET U /\ U \ {C[U]} # U
    BY <1>4
  <2>2. value(U \ {C[U]}) \in V
    BY <1>6, <2>1
  <2> QED
    BY <1>4, <2>2
<1>8. h \in [SUBSET U -> V]
  BY <1>6, <1>7
<1>9. ASSUME NEW T \in SUBSET U
      PROVE  h[T] = IF T = {} THEN base ELSE P[<<h[T \ {C[T]}], C[T]>>]
  <2>1. T # {} => T \ {C[T]} \in SUBSET U /\ T \ {C[T]} # U
    BY <1>4
  <2>2. T # {} => h[T \ {C[T]}] = value(T \ {C[T]})
    BY <2>1
  <2>3. CASE T = U
    BY <1>4, <2>2, <2>3
  <2>4. CASE T # U
    BY <1>6, <2>2, <2>4
  <2> QED
    BY <2>3, <2>4
<1>10. IsFold(h, U, V, base, P, C)
  <2> HIDE DEF h
  <2> QED
    BY <1>8, <1>9 DEF IsFold
<1> QED
  BY <1>3, <1>10

-----------------------------------------------------------------------------
(* Sums of amounts.                                                        *)

TransferLogs == {l \in Log : IsTransfer(l)}
Amounts(S) == MapThenSumSet(LAMBDA l : l.amount, S)

(* g has the sum of every part of S. *)
AddsUp(g, S) ==
    /\ g \in [SUBSET S -> Nat]
    /\ \A T \in SUBSET S :
          /\ g[T] = Amounts(T)
          /\ T = {} => g[T] = 0
          /\ T # {} => g[T] = (CHOOSE x \in T : TRUE).amount + g[T \ {CHOOSE x \in T : TRUE}]

(* Sums of amounts exist. *)
LEMMA AmountsFold ==
    ASSUME NEW S \in SUBSET TransferLogs
    PROVE  \E g : AddsUp(g, S)
<1> DEFINE C == [T \in SUBSET S |-> CHOOSE x \in T : TRUE]
           P == [x \in Nat \X S |-> x[2].amount + x[1]]
           Step(it, U) == [T \in SUBSET U |->
                             IF T = {} THEN 0
                             ELSE (CHOOSE x \in T : TRUE).amount + it[T \ {CHOOSE x \in T : TRUE}]]
<1>1. IsFiniteSet(S) /\ Chooser(C, S)
  BY LogAssumption, FS_Subset DEF Chooser, TransferLogs
<1>2. \A l \in S : l.amount \in Nat
  BY LogAssumption DEF TransferLogs
<1>3. P \in [Nat \X S -> Nat]
  BY <1>2
<1>4. PICK g : IsFold(g, S, Nat, 0, P, C)
  <2> HIDE DEF P, C
  <2> QED
    BY <1>1, <1>3, FoldExists
<1>5. ASSUME NEW T \in SUBSET S, T # {}
      PROVE  g[T] = (CHOOSE x \in T : TRUE).amount + g[T \ {CHOOSE x \in T : TRUE}]
  <2>1. g[T] = P[<<g[T \ {C[T]}], C[T]>>]
    BY <1>4, <1>5 DEF IsFold
  <2>2. C[T] \in S /\ g[T \ {C[T]}] \in Nat
    BY <1>1, <1>4, <1>5 DEF IsFold, Chooser
  <2>3. C[T] = CHOOSE x \in T : TRUE
    OBVIOUS
  <2> HIDE DEF C
  <2>4. g[T] = C[T].amount + g[T \ {C[T]}]
    BY <2>1, <2>2
  <2> QED
    BY <2>3, <2>4
<1>6. g \in [SUBSET S -> Nat] /\ \A T \in SUBSET S : T = {} => g[T] = 0
  BY <1>4 DEF IsFold
<1> HIDE DEF P
<1>7. ASSUME NEW U \in SUBSET S PROVE g[U] = Amounts(U)
  <2> DEFINE h == [T \in SUBSET U |-> g[T]]
             it == CHOOSE f : f = Step(f, U)
  <2>1. h = Step(h, U)
    <3>1. ASSUME NEW T \in SUBSET U, T # {}
          PROVE  h[T] = (CHOOSE x \in T : TRUE).amount + h[T \ {CHOOSE x \in T : TRUE}]
      BY <1>5, <3>1
    <3>2. \A T \in SUBSET U : T = {} => h[T] = 0
      BY <1>6
    <3> HIDE DEF h
    <3>3. h = [T \in SUBSET U |-> h[T]]
      BY DEF h
    <3> QED
      BY <3>1, <3>2, <3>3
  <2>2. Amounts(U) = it[U]
    BY DEF Amounts, MapThenSumSet, MapThenFoldSet
  <2>3. it = Step(it, U)
    <3> HIDE DEF Step, h
    <3> QED
      BY <2>1
  <2> HIDE DEF it
  <2>4. \A T \in SUBSET U : it[T] = IF T = {} THEN 0 ELSE C[T].amount + it[T \ {C[T]}]
    BY <2>3
  <2>5. \A T \in SUBSET U : g[T] = IF T = {} THEN 0 ELSE C[T].amount + g[T \ {C[T]}]
    BY <1>5, <1>6
  <2> HIDE DEF C
  <2> DEFINE Good == {T \in SUBSET U : it[T] = g[T]}
  <2>6. Good = SUBSET U
    <3>1. {} \in Good
      <4>1. it[{}] = 0 /\ g[{}] = 0
        BY <2>4, <2>5
      <4> QED
        BY <4>1
    <3>2. ASSUME NEW T \in SUBSET U, T # {}, T \ {C[T]} \in Good PROVE T \in Good
      BY <2>4, <2>5, <3>2
    <3>3. Good \in SUBSET (SUBSET U) /\ IsFiniteSet(U) /\ Chooser(C, U)
      BY <1>1, FS_Subset DEF Chooser
    <3> HIDE DEF Good
    <3> QED
      BY <3>1, <3>2, <3>3, FoldInduction
  <2> QED
    BY <2>2, <2>6
<1>8. AddsUp(g, S)
  BY <1>5, <1>6, <1>7 DEF AddsUp
<1> QED
  BY <1>8

(* A sum of amounts is a natural number, and nothing adds up to zero. *)
LEMMA AmountsType ==
    ASSUME NEW S \in SUBSET TransferLogs
    PROVE  Amounts(S) \in Nat /\ Amounts({}) = 0
<1>1. PICK g : AddsUp(g, S)
  BY AmountsFold
<1>2. S \in SUBSET S /\ {} \in SUBSET S
  OBVIOUS
<1> QED
  BY <1>1, <1>2 DEF AddsUp

(* A row adds its amount, whichever the sum takes first. *)
LEMMA AmountsAdd ==
    ASSUME NEW S \in SUBSET TransferLogs, NEW k \in S
    PROVE  Amounts(S) = Amounts(S \ {k}) + k.amount
<1> DEFINE Bad == {T \in SUBSET S : \E x \in T : Amounts(T) # Amounts(T \ {x}) + x.amount}
<1>0. IsFiniteSet(S) /\ \A T \in SUBSET S : Amounts(T) \in Nat
  BY LogAssumption, FS_Subset, AmountsType DEF TransferLogs
<1>1. \A x \in S : x.amount \in Nat
  BY LogAssumption DEF TransferLogs
<1>2. SUFFICES ASSUME Bad # {} PROVE FALSE
  OBVIOUS
<1>3. PICK T \in Bad : \A U \in Bad : U \subseteq T => U = T
  <2>1. Bad \in SUBSET (SUBSET S)
    OBVIOUS
  <2> HIDE DEF Bad
  <2> QED
    BY <1>0, <1>2, <2>1, SmallestExists
<1>4. PICK x \in T : Amounts(T) # Amounts(T \ {x}) + x.amount
  BY <1>3
<1>5. \A U \in SUBSET T : U # T => \A y \in U : Amounts(U) = Amounts(U \ {y}) + y.amount
  BY <1>3
<1> DEFINE c == CHOOSE y \in T : TRUE
<1>6. c \in T /\ T \in SUBSET S
  BY <1>3, <1>4
<1>7. Amounts(T) = c.amount + Amounts(T \ {c})
  <2>1. PICK g : AddsUp(g, S)
    BY AmountsFold
  <2>2. g[T] = c.amount + g[T \ {c}]
    BY <1>6, <2>1 DEF AddsUp
  <2>3. g[T] = Amounts(T) /\ g[T \ {c}] = Amounts(T \ {c})
    BY <1>6, <2>1 DEF AddsUp
  <2> QED
    BY <2>2, <2>3
<1> HIDE DEF c, Bad
<1>8. x # c
  <2>1. ASSUME x = c PROVE FALSE
    <3>1. Amounts(T \ {c}) \in Nat /\ c.amount \in Nat
      BY <1>0, <1>1, <1>6
    <3>2. Amounts(T) = Amounts(T \ {x}) + x.amount
      BY <1>7, <2>1, <3>1
    <3> QED
      BY <1>4, <3>2
  <2> QED
    BY <2>1
<1>9. Amounts(T \ {c}) = Amounts((T \ {c}) \ {x}) + x.amount
  BY <1>4, <1>5, <1>6, <1>8
<1>10. Amounts(T \ {x}) = Amounts((T \ {x}) \ {c}) + c.amount
  BY <1>4, <1>5, <1>6, <1>8
<1>11. (T \ {c}) \ {x} = (T \ {x}) \ {c}
  OBVIOUS
<1>12. /\ c.amount \in Nat /\ x.amount \in Nat
       /\ Amounts(T) \in Nat /\ Amounts(T \ {c}) \in Nat /\ Amounts(T \ {x}) \in Nat
       /\ Amounts((T \ {x}) \ {c}) \in Nat
  BY <1>0, <1>1, <1>4, <1>6
<1>13. Amounts((T \ {c}) \ {x}) = Amounts((T \ {x}) \ {c})
  BY <1>11
<1> QED
  BY <1>4, <1>7, <1>9, <1>10, <1>12, <1>13
=============================================================================
