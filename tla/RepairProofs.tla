---------------------------- MODULE RepairProofs -----------------------------
(***************************************************************************)
(* Proofs about Repair, for every chain, any tokens and accounts, and any  *)
(* steps of the follower.  The invariant Inv has these parts:              *)
(*                                                                         *)
(*   Followed  what the follower is about to put below its cursor has been *)
(*             applied                                                     *)
(*   Reading   what the tool read is still in the database                 *)
(*   Counted   the counts are exact, or (Spent) a rebuild has marked rows  *)
(*             it had not planned, and its file is refused from then on    *)
(*   Planning  a plan describes rows up to the tool's cursor, or adds up;  *)
(*             as long as the number of Transfers of its token is the one  *)
(*             it was made with, nothing of the token was applied          *)
(*   Still     which a plain rebuild need not check, being alone           *)
(***************************************************************************)
EXTENDS Repair, StoreProofs

-----------------------------------------------------------------------------
(* Sums of Transfers, which are folds.                                     *)

(* A sum is a natural number. *)
LEMMA SumType == ASSUME NEW S \in SUBSET Log PROVE Sum(S) \in Nat
<1>1. Sum(S) = Amounts(S)
  BY DEF Sum, Amount, Amounts, MapThenSumSet, MapThenFoldSet
<1>2. S \in SUBSET TransferLogs
  BY RepairAssumption DEF TransferLogs
<1> QED
  BY <1>1, <1>2, AmountsType

(* A net balance is an integer. *)
LEMMA NetType ==
    ASSUME NEW S \in SUBSET Log, NEW t, NEW a
    PROVE  Net(S, t, a) \in Int /\ NetSupply(S, t) \in Int
<1>1. \A b : Net(S, t, b) \in Int
  <2> SUFFICES ASSUME NEW b PROVE Net(S, t, b) \in Int
    OBVIOUS
  <2>1. Sum({l \in S : l.token = t /\ l.to = b}) \in Nat
    BY SumType
  <2>2. Sum({l \in S : l.token = t /\ l.from = b}) \in Nat
    BY SumType
  <2> QED
    BY <2>1, <2>2 DEF Net
<1> QED
  BY <1>1 DEF NetSupply

-----------------------------------------------------------------------------
(* Applying rows.                                                          *)

(* A token none of whose rows are applied keeps its totals and holders. *)
LEMMA ApplyOther ==
    ASSUME NEW d \in DB, NEW l \in Log, l \in d.events, l \notin d.applied,
           NEW t \in Token, t # l.token
    PROVE  LET e == InsertTransferAndApply(d, l)
           IN  e.holders[t] = d.holders[t] /\ e.transferCount[t] = d.transferCount[t]
<1> DEFINE e == InsertTransferAndApply(d, l)
<1>1. IsTransfer(l)
  BY RepairAssumption
<1>2. /\ e.transferCount = [d.transferCount EXCEPT ![l.token] = @ + 1]
      /\ e.holders = IF Effective(l)
                     THEN [d.holders EXCEPT ![l.token] = Credit(Debit(@, l), l)]
                     ELSE d.holders
  BY <1>1, ApplyStoredType
<1> HIDE DEF e
<1>3. e.holders[t] = d.holders[t] /\ e.transferCount[t] = d.transferCount[t]
  BY <1>2 DEF DB
<1> QED
  BY <1>3 DEF e

(* What applying the rows T to d comes to. *)
Applied(e, d, T) ==
    /\ e \in DB
    /\ e.events = d.events
    /\ e.applied = d.applied \cup T
    /\ HolderCountExact(d) => HolderCountExact(e)
    /\ TransferCountExact(d) => TransferCountExact(e)
    /\ \A t \in Token :
          /\ d.transferCount[t] <= e.transferCount[t]
          /\ (\E l \in T : l.token = t) => d.transferCount[t] < e.transferCount[t]
          /\ (\A l \in T : l.token # t) => e.holders[t] = d.holders[t]

(* One more row. *)
LEMMA AppliedStep ==
    ASSUME NEW d \in DB, NEW T \in SUBSET d.events, NEW l \in T, T \cap d.applied = {},
           NEW e, Applied(e, d, T \ {l})
    PROVE  Applied(InsertTransferAndApply(e, l), d, T)
<1> DEFINE n == InsertTransferAndApply(e, l)
<1>1. /\ e \in DB /\ l \in Log /\ IsTransfer(l) /\ l \in e.events /\ l \notin e.applied
      /\ e.applied = d.applied \cup (T \ {l})
      /\ e.events = d.events
  BY RepairAssumption DEF Applied, DB
<1>2. n \in DB /\ n.events = e.events /\ n.applied = e.applied \cup {l}
  BY <1>1, ApplyStoredFields
<1>3. /\ HolderCountExact(d) => HolderCountExact(n)
      /\ TransferCountExact(d) => TransferCountExact(n)
  BY <1>1, ApplyStoredHolders, ApplyStoredCounts DEF Applied
<1>4. ASSUME NEW t \in Token
      PROVE  /\ d.transferCount[t] <= n.transferCount[t]
             /\ (\E k \in T : k.token = t) => d.transferCount[t] < n.transferCount[t]
             /\ (\A k \in T : k.token # t) => n.holders[t] = d.holders[t]
  <2>1. n.transferCount = [e.transferCount EXCEPT ![l.token] = @ + 1]
    BY <1>1, ApplyStoredType
  <2>2. d.transferCount[t] \in Nat /\ e.transferCount \in [Token -> Nat] /\ l.token \in Token
    BY <1>1, LogAssumption DEF DB
  <2>3. /\ d.transferCount[t] <= e.transferCount[t]
        /\ (\E k \in T \ {l} : k.token = t) => d.transferCount[t] < e.transferCount[t]
        /\ (\A k \in T \ {l} : k.token # t) => e.holders[t] = d.holders[t]
    BY DEF Applied
  <2>4. t # l.token => n.holders[t] = e.holders[t]
    BY <1>1, ApplyOther
  <2> HIDE DEF n
  <2>5. n.transferCount[t] = IF t = l.token THEN e.transferCount[t] + 1 ELSE e.transferCount[t]
    BY <2>1, <2>2
  <2> QED
    BY <2>2, <2>3, <2>4, <2>5
<1> HIDE DEF n
<1>5. n.applied = d.applied \cup T
  BY <1>1, <1>2
<1>6. Applied(n, d, T)
  BY <1>1, <1>2, <1>3, <1>4, <1>5 DEF Applied
<1> QED
  BY <1>6 DEF n

(* applyStoredTransfers applies each of the rows once and leaves exact     *)
(* counts exact.                                                           *)
LEMMA ApplyAllMeaning ==
    ASSUME NEW d \in DB, NEW S \in SUBSET d.events, S \cap d.applied = {}
    PROVE  Applied(ApplyAll(d, S), d, S)
<1> DEFINE C == [T \in SUBSET S |-> Newest(T)]
           P == [x \in DB \X S |-> InsertTransferAndApply(x[1], x[2])]
           Step(it) == [T \in SUBSET S |->
                          IF T = {} THEN d
                          ELSE InsertTransferAndApply(it[T \ {Newest(T)}], Newest(T))]
<1>1. S \in SUBSET Log /\ IsFiniteSet(S)
  BY LogAssumption, FS_Subset DEF DB
<1>2. Chooser(C, S)
  <2> SUFFICES ASSUME NEW T \in SUBSET S, T # {} PROVE Newest(T) \in T
    BY DEF Chooser
  <2>1. T \in SUBSET Log /\ Ranked(T)
    BY <1>1, RepairAssumption DEF Ranked
  <2>2. PICK n \in T : \A k \in T : k = n \/ Before(k, n)
    BY <2>1, NewestExists
  <2>3. \A k \in T : ~Before(n, k)
    BY <2>1, <2>2, BeforeOrder
  <2> QED
    BY <2>3 DEF Newest
<1>3. \A e \in DB, l \in S : InsertTransferAndApply(e, l) \in DB
  <2> SUFFICES ASSUME NEW e \in DB, NEW l \in S PROVE InsertTransferAndApply(e, l) \in DB
    OBVIOUS
  <2> DEFINE i == InsertRows(e, {l})
  <2>1. l \in Log /\ IsTransfer(l) /\ i \in DB
    BY <1>1, RepairAssumption, InsertRowsType
  <2> HIDE DEF i
  <2>2. ApplyTransfer(i, l) \in DB
    BY <2>1, ApplyTransferType
  <2>3. [ApplyTransfer(i, l) EXCEPT !.applied = @ \cup {l}] \in DB
    BY <2>1, <2>2 DEF DB
  <2> QED
    BY <2>1, <2>3 DEF InsertTransferAndApply, i
<1>4. P \in [DB \X S -> DB]
  BY <1>3
<1>5. PICK g : IsFold(g, S, DB, d, P, C)
  <2> HIDE DEF P, C
  <2> QED
    BY <1>1, <1>2, <1>4, FoldExists
<1>6. g = Step(g)
  <2>1. ASSUME NEW T \in SUBSET S, T # {}
        PROVE  g[T] = InsertTransferAndApply(g[T \ {Newest(T)}], Newest(T))
    <3>1. g[T] = P[<<g[T \ {C[T]}], C[T]>>]
      BY <1>5, <2>1 DEF IsFold
    <3>2. C[T] \in S /\ g[T \ {C[T]}] \in DB
      BY <1>2, <1>5, <2>1 DEF IsFold, Chooser
    <3>3. C[T] = Newest(T)
      OBVIOUS
    <3> HIDE DEF C
    <3>4. g[T] = InsertTransferAndApply(g[T \ {C[T]}], C[T])
      BY <3>1, <3>2
    <3> QED
      BY <3>3, <3>4
  <2> QED
    BY <1>5, <2>1 DEF IsFold
<1> DEFINE it == CHOOSE f : f = Step(f)
<1>7. ApplyAll(d, S) = it[S]
  BY DEF ApplyAll, MapThenFoldSet
<1>8. it = Step(it)
  <2> HIDE DEF Step
  <2> QED
    BY <1>6
<1> HIDE DEF it
<1>9. \A T \in SUBSET S :
        it[T] = IF T = {} THEN d ELSE InsertTransferAndApply(it[T \ {C[T]}], C[T])
  BY <1>8
<1> HIDE DEF C
<1> DEFINE Good == {T \in SUBSET S : Applied(it[T], d, T)}
<1>10. Good = SUBSET S
  <2>1. {} \in Good
    <3>1. it[{}] = d /\ \A t \in Token : d.transferCount[t] \in Nat
      BY <1>9 DEF DB
    <3> QED
      BY <3>1 DEF Applied
  <2>2. ASSUME NEW T \in SUBSET S, T # {}, T \ {C[T]} \in Good PROVE T \in Good
    <3>1. C[T] \in T /\ T \in SUBSET d.events /\ T \cap d.applied = {}
      BY <1>2, <2>2 DEF Chooser
    <3>2. Applied(it[T \ {C[T]}], d, T \ {C[T]})
      BY <2>2
    <3>3. it[T] = InsertTransferAndApply(it[T \ {C[T]}], C[T])
      BY <1>9, <2>2
    <3> QED
      BY <3>1, <3>2, <3>3, AppliedStep
  <2>3. Good \in SUBSET (SUBSET S)
    OBVIOUS
  <2> HIDE DEF Good
  <2> QED
    BY <1>1, <1>2, <2>1, <2>2, <2>3, FoldInduction
<1> QED
  BY <1>7, <1>10

-----------------------------------------------------------------------------
(* The invariant.                                                          *)

RowsOf(t) == OfToken(UpTo(db.events, at), t)

Shape ==
    /\ db \in DB
    /\ cursor \in 0 .. MaxBlock /\ upto \in 0 .. MaxBlock /\ at \in 0 .. MaxBlock
    /\ tool \in {"rebuild", "prepared", "chain"}
    /\ from \in Nat
    /\ pending \in SUBSET Log
    /\ DOMAIN plans \subseteq Affected

(* What the follower is about to put below the cursor is applied. *)
Followed ==
    upto # 0 => /\ cursor < upto
                /\ {l \in Log : l.block \in cursor + 1 .. upto} \subseteq db.applied

(* What the tool has read is still so; only the rows it saw may have been  *)
(* applied meanwhile, by itself.                                           *)
Reading ==
    /\ pc = "start" => DOMAIN plans = {}
    /\ pc # "start" =>
          /\ at <= cursor
          /\ pending \subseteq UpTo(db.events, at)
    /\ pc \in {"plan", "totals"} => pending \cap db.applied = {}
    /\ pc \in {"ready", "checked"} => Affected \subseteq DOMAIN plans

(* The totals were those of t when they were read; as long as the number   *)
(* of Transfers is the same, none of the pending ones has been applied.    *)
Fresh(t, old) ==
    /\ old[1] \in Int /\ old[2] \in Nat
    /\ old[2] <= db.transferCount[t]
    /\ old[2] = db.transferCount[t] => OfToken(pending, t) \cap db.applied = {}

(* A rebuild does not compare totals: nothing else runs. *)
Still ==
    tool = "rebuild" =>
        /\ pc = "totals" => totals[2][2] = db.transferCount[totals[1]]
        /\ pc \in {"plan", "totals", "ready"} =>
              \A t \in DOMAIN plans : plans[t].old[2] = db.transferCount[t]

(* A plan of a rebuild is the ledger of rows up to the cursor: of all that *)
(* were stored when it was made.                                           *)
Rebuilds(t, p) ==
    /\ p.written = Account
    /\ \E R \in SUBSET RowsOf(t) :
          /\ p.transfers = Cardinality(R)
          /\ p.supply = NetSupply(R, t)
          /\ \A a \in Account : p.holders[a] = Net(R, t, a)

(* A plan from the chain adds up, and keeps the holders it does not write. *)
Adjusts(t, p) ==
    /\ SumAgrees(p.holders, p.supply)
    /\ p.old[2] = db.transferCount[t] =>
          \A a \in Account \ p.written : p.holders[a] = db.holders[t][a]

Sound(t, p) ==
    /\ Fresh(t, p.old)
    /\ p.holders \in [Account -> Nat] /\ p.supply \in Int
    /\ p.transfers = p.old[2] + Cardinality(OfToken(pending, t))
    /\ p.count = Cardinality({a \in Account : p.holders[a] > 0})
    /\ IF tool = "chain" THEN Adjusts(t, p) ELSE Rebuilds(t, p)

Planning ==
    /\ pc = "totals" => totals[1] \in Unplanned /\ Fresh(totals[1], totals[2])
    /\ \A t \in DOMAIN plans : Sound(t, plans[t])

(* A rebuild has marked rows that it had not planned: the number of        *)
(* Transfers of a token is beyond the one its plan was made with.          *)
Spent ==
    /\ pc \notin {"start", "plan", "totals"}
    /\ tool # "chain" /\ (tool = "rebuild" => pc = "done")
    /\ \E t \in DOMAIN plans : plans[t].old[2] < db.transferCount[t]

Counted == HolderCountExact(db) /\ (TransferCountExact(db) \/ Spent)

Inv == Shape /\ Followed /\ Reading /\ Counted /\ Still /\ Planning

-----------------------------------------------------------------------------
(* The follower.                                                           *)

(* The length of the chain is a number. *)
LEMMA MaxBlockType == MaxBlock \in Nat
BY RepairAssumption

(* Pending rows are finitely many Transfers of tokens. *)
LEMMA PendingType ==
    ASSUME Shape
    PROVE  /\ IsFiniteSet(pending) /\ Affected \subseteq Token
           /\ \A t : IsFiniteSet(OfToken(pending, t)) /\ Cardinality(OfToken(pending, t)) \in Nat
           /\ \A t \in Affected : Cardinality(OfToken(pending, t)) > 0
<1>1. IsFiniteSet(pending) /\ Affected \subseteq Token
  BY LogAssumption, FS_Subset DEF Shape, Affected
<1>2. ASSUME NEW t PROVE IsFiniteSet(OfToken(pending, t)) /\ Cardinality(OfToken(pending, t)) \in Nat
  <2>1. OfToken(pending, t) \subseteq pending
    BY DEF OfToken
  <2> QED
    BY <1>1, <2>1, FS_Subset, FS_CardinalityType
<1>3. ASSUME NEW t \in Affected PROVE Cardinality(OfToken(pending, t)) > 0
  <2>1. OfToken(pending, t) # {}
    BY DEF Affected, OfToken
  <2> QED
    BY <1>2, <2>1, FS_EmptySet
<1> QED
  BY <1>1, <1>2, <1>3

(* What a step of the follower does, as far as the tools can tell. *)
FollowerMoves ==
    /\ db' \in DB /\ db.events \subseteq db'.events /\ db.applied \subseteq db'.applied
    /\ \A l \in db'.applied \ db.applied : cursor < l.block
    /\ \A t \in Token :
          /\ db.transferCount[t] <= db'.transferCount[t]
          /\ db'.transferCount[t] = db.transferCount[t] =>
                OfToken(db'.applied, t) = OfToken(db.applied, t) /\ db'.holders[t] = db.holders[t]
    /\ tool = "rebuild" => db' = db
    /\ HolderCountExact(db') /\ (TransferCountExact(db) => TransferCountExact(db'))
    /\ cursor' \in cursor .. MaxBlock /\ upto' \in 0 .. MaxBlock
    /\ UNCHANGED <<tool, pc, from, at, pending, totals, plans>>

(* A step that leaves the database alone. *)
LEMMA StillMoves ==
    ASSUME Inv, db' = db, cursor' \in cursor .. MaxBlock, upto' \in 0 .. MaxBlock,
           UNCHANGED <<tool, pc, from, at, pending, totals, plans>>
    PROVE  FollowerMoves
<1>1. \A t \in Token : db.transferCount[t] \in Nat
  BY DEF Inv, Shape, DB
<1> QED
  BY <1>1 DEF Inv, Shape, Counted, FollowerMoves

(* The cursor passes rows that are applied. *)
LEMMA MoveCursorStep ==
    ASSUME Inv, MoveCursor
    PROVE  FollowerMoves /\ Followed'
<1>1. cursor < upto /\ {l \in Log : l.block \in cursor + 1 .. upto} \subseteq db.applied
  BY DEF Inv, Followed, MoveCursor
<1>2. FollowerMoves
  <2>1. cursor' \in cursor .. MaxBlock /\ upto' \in 0 .. MaxBlock
    BY <1>1, MaxBlockType DEF Inv, Shape, MoveCursor
  <2> QED
    BY <2>1, StillMoves DEF MoveCursor
<1>3. Followed'
  BY DEF Followed, MoveCursor
<1> QED
  BY <1>2, <1>3

(* The cursor stays behind rows that are applied. *)
LEMMA RestartStep ==
    ASSUME Inv, Restart
    PROVE  FollowerMoves /\ Followed'
<1>1. cursor' \in cursor .. MaxBlock /\ upto' \in 0 .. MaxBlock
  BY MaxBlockType DEF Inv, Shape, Restart
<1>2. FollowerMoves
  BY <1>1, StillMoves DEF Restart
<1>3. Followed'
  BY DEF Followed, Restart
<1> QED
  BY <1>2, <1>3

(* A row stored beside a tool leaves the ledger alone. *)
LEMMA LiveRowStep ==
    ASSUME Inv, LiveRow
    PROVE  FollowerMoves /\ Followed'
<1>1. PICK l \in Log \ db.events : db' = InsertRows(db, {l})
  BY DEF LiveRow
<1>2. /\ db' \in DB /\ db'.events = {l} \cup db.events /\ db'.applied = db.applied
      /\ db'.holders = db.holders /\ db'.transferCount = db.transferCount
  BY <1>1, InsertRowsType DEF Inv, Shape
<1>3. HolderCountExact(db') /\ (TransferCountExact(db) => TransferCountExact(db'))
  BY <1>1, InsertRowsCounts DEF Inv, Shape, Counted
<1>4. \A t \in Token : db.transferCount[t] \in Nat
  BY DEF Inv, Shape, DB
<1>5. FollowerMoves
  <2>1. cursor' \in cursor .. MaxBlock /\ upto' \in 0 .. MaxBlock
    BY MaxBlockType DEF Inv, Shape, LiveRow
  <2>2. tool # "rebuild" /\ UNCHANGED <<tool, pc, from, at, pending, totals, plans>>
    BY DEF LiveRow, Follows
  <2>3. \A t \in Token :
          /\ db.transferCount[t] <= db'.transferCount[t]
          /\ OfToken(db'.applied, t) = OfToken(db.applied, t) /\ db'.holders[t] = db.holders[t]
    BY <1>2, <1>4 DEF OfToken
  <2> QED
    BY <1>2, <1>3, <2>1, <2>2, <2>3 DEF FollowerMoves
<1>6. Followed'
  BY <1>2 DEF Inv, Followed, LiveRow
<1> QED
  BY <1>5, <1>6

(* A range that is applied only adds rows beyond the cursor, and a token   *)
(* whose number of Transfers it leaves alone keeps its holders.            *)
LEMMA EventRangeStep ==
    ASSUME Inv, EventRange
    PROVE  FollowerMoves /\ Followed'
<1>1. PICK c \in cursor + 1 .. MaxBlock :
        LET range == {l \in Log : l.block \in cursor + 1 .. c}
            d == InsertRows(db, range)
        IN  db' = ApplyAll(d, Unapplied(d, cursor + 1, c)) /\ upto' = c
  BY DEF EventRange
<1> DEFINE range == {l \in Log : l.block \in cursor + 1 .. c}
           d == InsertRows(db, range)
           T == Unapplied(d, cursor + 1, c)
<1>2. /\ d \in DB /\ d.events = range \cup db.events /\ d.applied = db.applied
      /\ d.holders = db.holders /\ d.transferCount = db.transferCount
  <2>1. range \in SUBSET Log
    OBVIOUS
  <2> HIDE DEF range
  <2> QED
    BY <2>1, InsertRowsType DEF Inv, Shape
<1>3. HolderCountExact(d) /\ (TransferCountExact(db) => TransferCountExact(d))
  <2>1. range \in SUBSET Log
    OBVIOUS
  <2> HIDE DEF range
  <2> QED
    BY <2>1, InsertRowsCounts DEF Inv, Shape, Counted
<1>4. db' = ApplyAll(d, T) /\ upto' = c
  BY <1>1
<1> HIDE DEF d
<1>5. /\ T \in SUBSET d.events /\ T \cap d.applied = {} /\ T \subseteq Log
      /\ \A l \in T : cursor < l.block
  BY <1>2, LogAssumption DEF Unapplied, DB, Inv, Shape
<1>6. range \subseteq db.applied \cup T
  BY <1>2, RepairAssumption DEF Unapplied
<1> HIDE DEF T
<1>7. Applied(db', d, T)
  BY <1>2, <1>4, <1>5, ApplyAllMeaning
<1>8. /\ db' \in DB /\ db'.events = range \cup db.events /\ db'.applied = db.applied \cup T
      /\ HolderCountExact(db') /\ (TransferCountExact(db) => TransferCountExact(db'))
  BY <1>2, <1>3, <1>7 DEF Applied
<1>9. ASSUME NEW t \in Token
      PROVE  /\ db.transferCount[t] <= db'.transferCount[t]
             /\ db'.transferCount[t] = db.transferCount[t] =>
                  OfToken(db'.applied, t) = OfToken(db.applied, t) /\ db'.holders[t] = db.holders[t]
  <2>1. db.transferCount[t] \in Nat
    BY DEF Inv, Shape, DB
  <2>2. /\ db.transferCount[t] <= db'.transferCount[t]
        /\ (\E l \in T : l.token = t) => db.transferCount[t] < db'.transferCount[t]
        /\ (\A l \in T : l.token # t) => db'.holders[t] = db.holders[t]
    BY <1>2, <1>7 DEF Applied
  <2>3. (\A l \in T : l.token # t) => OfToken(db'.applied, t) = OfToken(db.applied, t)
    BY <1>8 DEF OfToken
  <2> QED
    BY <2>1, <2>2, <2>3
<1>10. FollowerMoves
  <2>1. cursor' \in cursor .. MaxBlock /\ upto' \in 0 .. MaxBlock
    BY <1>4, MaxBlockType DEF Inv, Shape, EventRange
  <2>2. \A l \in db'.applied \ db.applied : cursor < l.block
    BY <1>5, <1>8
  <2>3. db.events \subseteq db'.events /\ db.applied \subseteq db'.applied
    BY <1>8
  <2> QED
    BY <1>8, <1>9, <2>1, <2>2, <2>3 DEF FollowerMoves, EventRange, Follows
<1>11. Followed'
  <2>1. cursor < c
    BY DEF Inv, Shape
  <2>2. range \subseteq db'.applied
    BY <1>6, <1>8
  <2> QED
    BY <1>4, <2>1, <2>2 DEF Followed, EventRange
<1> QED
  BY <1>10, <1>11

(* Such a step disturbs nothing a tool has read or planned. *)
LEMMA FollowerKeeps ==
    ASSUME Inv, FollowerMoves, Followed'
    PROVE  Inv'
<1>1. Shape'
  <2>1. Affected' = Affected
    BY DEF FollowerMoves, Affected
  <2> QED
    BY <2>1, MaxBlockType DEF FollowerMoves, Inv, Shape
<1>2. /\ db'.events \subseteq Log /\ db'.applied \subseteq Log
      /\ at \in Int /\ cursor \in Int /\ cursor' \in Int /\ cursor <= cursor'
  BY MaxBlockType DEF FollowerMoves, Inv, Shape, DB
<1>3. ASSUME pc # "start"
      PROVE  /\ at <= cursor
             /\ UpTo(db'.applied \ db.applied, at) = {}
             /\ UpTo(db.events, at) \subseteq UpTo(db'.events, at)
  <2>1. at <= cursor
    BY <1>3 DEF Inv, Reading
  <2>2. \A l \in Log : cursor < l.block => ~(l.block <= at)
    BY <1>2, <2>1, LogAssumption
  <2> QED
    BY <1>2, <2>1, <2>2 DEF FollowerMoves, UpTo
<1>4. ASSUME pc # "start" PROVE pending \cap db'.applied = pending \cap db.applied
  <2>1. pending \subseteq UpTo(db.events, at)
    BY <1>4 DEF Inv, Reading
  <2>2. \A l \in pending : l \in db'.applied => l \in db.applied
    BY <1>3, <1>4, <2>1 DEF UpTo
  <2> QED
    BY <2>2 DEF FollowerMoves
<1>5. Reading'
  <2>1. Affected' = Affected
    BY DEF FollowerMoves, Affected
  <2>2. pc = "start" => DOMAIN plans = {}
    BY DEF Inv, Reading
  <2>3. ASSUME pc # "start"
        PROVE  at <= cursor' /\ pending \subseteq UpTo(db'.events, at)
    BY <1>2, <1>3, <2>3 DEF Inv, Reading, FollowerMoves
  <2>4. pc \in {"plan", "totals"} => pending \cap db'.applied = {}
    BY <1>4 DEF Inv, Reading
  <2>5. pc \in {"ready", "checked"} => Affected \subseteq DOMAIN plans
    BY DEF Inv, Reading
  <2> QED
    BY <2>1, <2>2, <2>3, <2>4, <2>5 DEF Reading, FollowerMoves
<1>6. Counted'
  <2>1. ASSUME Spent PROVE Spent'
    <3>1. PICK t \in DOMAIN plans : plans[t].old[2] < db.transferCount[t]
      BY <2>1 DEF Spent
    <3>2. t \in Token /\ plans[t].old[2] \in Nat
      BY PendingType DEF Inv, Shape, Planning, Sound, Fresh
    <3>3. /\ db.transferCount[t] \in Nat /\ db'.transferCount[t] \in Nat
          /\ db.transferCount[t] <= db'.transferCount[t]
      BY <3>2 DEF FollowerMoves, Inv, Shape, DB
    <3>4. plans[t].old[2] < db'.transferCount[t]
      BY <3>1, <3>2, <3>3
    <3> QED
      BY <2>1, <3>4 DEF Spent, FollowerMoves
  <2> QED
    BY <2>1 DEF FollowerMoves, Inv, Counted
<1>7. ASSUME pc # "start", NEW t \in Token, NEW old, Fresh(t, old)
      PROVE  /\ old[1] \in Int /\ old[2] \in Nat
             /\ old[2] <= db'.transferCount[t]
             /\ old[2] = db'.transferCount[t] => OfToken(pending, t) \cap db'.applied = {}
             /\ old[2] = db'.transferCount[t] =>
                   old[2] = db.transferCount[t] /\ db'.holders[t] = db.holders[t]
  <2>1. db.transferCount[t] \in Nat /\ db'.transferCount[t] \in Nat
    BY DEF Inv, Shape, DB, FollowerMoves
  <2>2. old[2] \in Nat /\ old[2] <= db.transferCount[t] /\ db.transferCount[t] <= db'.transferCount[t]
    BY <1>7 DEF Fresh, FollowerMoves
  <2>3. old[2] = db'.transferCount[t] =>
           old[2] = db.transferCount[t] /\ db'.transferCount[t] = db.transferCount[t]
    BY <2>1, <2>2
  <2>4. old[2] = db'.transferCount[t] => OfToken(pending, t) \cap db'.applied = {}
    BY <1>4, <1>7, <2>3 DEF Fresh, OfToken
  <2> QED
    BY <1>7, <2>1, <2>2, <2>3, <2>4 DEF FollowerMoves, Fresh
<1>8. Still'
  BY DEF FollowerMoves, Inv, Still
<1>9. Planning'
  <2>1. ASSUME pc = "totals" PROVE totals[1] \in Unplanned /\ Fresh(totals[1], totals[2])'
    <3>1. totals[1] \in Unplanned /\ Fresh(totals[1], totals[2])
      BY <2>1 DEF Inv, Planning
    <3>2. totals[1] \in Token
      BY <3>1, PendingType DEF Unplanned, Inv
    <3> QED
      BY <1>7, <2>1, <3>1, <3>2 DEF Fresh, FollowerMoves
  <2>2. ASSUME NEW t \in DOMAIN plans PROVE Sound(t, plans[t])'
    <3> DEFINE p == plans[t]
    <3>1. pc # "start" /\ t \in Token /\ Sound(t, p)
      BY <2>2, PendingType DEF Inv, Reading, Planning, Shape
    <3>2. /\ p.old[2] = db'.transferCount[t] =>
                p.old[2] = db.transferCount[t] /\ db'.holders[t] = db.holders[t]
          /\ Fresh(t, p.old)'
      BY <1>7, <3>1 DEF Sound, Fresh, FollowerMoves
    <3>3. ASSUME tool = "chain" PROVE Adjusts(t, p)'
      BY <3>1, <3>2, <3>3 DEF Sound, Adjusts, FollowerMoves
    <3>4. ASSUME tool # "chain" PROVE Rebuilds(t, p)'
      <4>1. RowsOf(t) \subseteq RowsOf(t)'
        BY <1>3, <3>1 DEF RowsOf, OfToken, FollowerMoves
      <4>2. Rebuilds(t, p)
        BY <3>1, <3>4 DEF Sound
      <4>3. p' = p
        BY DEF FollowerMoves
      <4> HIDE DEF p
      <4> QED
        BY <4>1, <4>2, <4>3 DEF Rebuilds
    <3> QED
      BY <3>1, <3>2, <3>3, <3>4 DEF Sound, FollowerMoves
  <2>3. Unplanned' = Unplanned
    BY DEF Unplanned, Affected, FollowerMoves
  <2> QED
    BY <2>1, <2>2, <2>3 DEF Planning, FollowerMoves
<1> QED
  BY <1>1, <1>5, <1>6, <1>8, <1>9 DEF Inv

-----------------------------------------------------------------------------
(* The tools, up to their last transaction.                                *)

(* The pending rows are stored, and not applied. *)
LEMMA ReadPendingStep ==
    ASSUME Inv, ReadPending
    PROVE  Inv'
<1>1. /\ pc = "start" /\ at' = cursor /\ pending' = Unapplied(db, from, cursor)
      /\ pc' \in {"done", "plan"}
      /\ UNCHANGED <<db, cursor, upto, tool, from, totals, plans>>
  BY DEF ReadPending, follower
<1>2. DOMAIN plans = {}
  BY <1>1 DEF Inv, Reading
<1>3. pending' \subseteq UpTo(db.events, cursor) /\ pending' \cap db.applied = {}
      /\ pending' \subseteq Log
  BY <1>1, LogAssumption DEF Unapplied, UpTo, Inv, Shape, DB
<1>4. Shape'
  BY <1>1, <1>2, <1>3 DEF Inv, Shape
<1>5. Reading'
  <2>1. cursor <= cursor
    BY MaxBlockType DEF Inv, Shape
  <2> QED
    BY <1>1, <1>3, <2>1 DEF Reading
<1>6. Counted'
  BY <1>1, <1>2 DEF Inv, Counted, Spent
<1> QED
  BY <1>1, <1>2, <1>4, <1>5, <1>6 DEF Inv, Followed, Still, Planning

(* The totals are read. *)
LEMMA ReadTotalsStep ==
    ASSUME Inv, ReadTotals
    PROVE  Inv'
<1>1. PICK t \in Unplanned : totals' = <<t, Totals(t)>>
  BY DEF ReadTotals
<1>2. /\ pc = "plan" /\ pc' = "totals"
      /\ UNCHANGED <<db, cursor, upto, tool, from, at, pending, plans>>
  BY DEF ReadTotals, follower
<1>3. t \in Token /\ pending \cap db.applied = {}
  BY <1>2, PendingType DEF Inv, Reading, Unplanned
<1>4. totals'[1] = t /\ totals'[2][1] = db.supply[t] /\ totals'[2][2] = db.transferCount[t]
  BY <1>1 DEF Totals
<1>5. db.supply[t] \in Int /\ db.transferCount[t] \in Nat
  BY <1>3 DEF Inv, Shape, DB
<1>6. Fresh(totals[1], totals[2])'
  BY <1>2, <1>3, <1>4, <1>5 DEF Fresh, OfToken
<1>7. Unplanned' = Unplanned /\ Affected' = Affected
  BY <1>2 DEF Unplanned, Affected
<1>8. Planning'
  <2>1. ASSUME NEW s \in DOMAIN plans PROVE Sound(s, plans[s])'
    BY <1>2, <2>1 DEF Inv, Planning, Sound, Fresh, Adjusts, Rebuilds, RowsOf
  <2> QED
    BY <1>2, <1>4, <1>6, <1>7, <2>1 DEF Planning
<1>9. Still'
  BY <1>2, <1>4 DEF Inv, Still
<1>10. Reading'
  BY <1>2, <1>7 DEF Inv, Reading
<1> QED
  BY <1>2, <1>7, <1>8, <1>9, <1>10 DEF Inv, Shape, Followed, Counted, Spent

(* Balances that are not negative. *)
LEMMA NonNegative ==
    ASSUME NEW f \in [Account -> Int], \A a \in Account : f[a] >= 0
    PROVE  f \in [Account -> Nat]
OBVIOUS

(* A rebuilt plan that is accepted. *)
LEMMA RebuiltSound ==
    ASSUME Inv, pc = "totals", tool # "chain", Rebuilt(totals[1], totals[2]).ok
    PROVE  Sound(totals[1], Rebuilt(totals[1], totals[2]))
<1> DEFINE t == totals[1]
           old == totals[2]
           p == Rebuilt(t, old)
           H == [a \in Account |-> Net(RowsOf(t), t, a)]
<1>1. t \in Affected /\ Fresh(t, old)
  BY DEF Inv, Planning, Unplanned
<1>2. RowsOf(t) \in SUBSET Log
  BY DEF RowsOf, OfToken, UpTo, Inv, Shape, DB
<1>3. /\ p.old = old /\ p.written = Account /\ p.holders = H
      /\ p.supply = NetSupply(RowsOf(t), t) /\ p.transfers = Cardinality(RowsOf(t))
      /\ p.count = Cardinality({a \in Account : Net(RowsOf(t), t, a) > 0})
      /\ \A a \in Account : Net(RowsOf(t), t, a) >= 0
      /\ Cardinality(RowsOf(t)) = old[2] + Cardinality(OfToken(pending, t))
  BY DEF Rebuilt, RowsOf
<1> HIDE DEF p
<1>4. \A a \in Account : Net(RowsOf(t), t, a) \in Int
  BY <1>2, NetType
<1>5. H \in [Account -> Nat]
  <2>1. H \in [Account -> Int] /\ \A a \in Account : H[a] >= 0
    BY <1>3, <1>4
  <2> HIDE DEF H
  <2> QED
    BY <2>1, NonNegative
<1>6. p.supply \in Int
  BY <1>2, <1>3, NetType
<1>7. {a \in Account : p.holders[a] > 0} = {a \in Account : Net(RowsOf(t), t, a) > 0}
  BY <1>3
<1>8. Rebuilds(t, p)
  <2>1. p.written = Account /\ RowsOf(t) \in SUBSET RowsOf(t)
        /\ \A a \in Account : p.holders[a] = Net(RowsOf(t), t, a)
    BY <1>3
  <2> QED
    BY <1>3, <2>1 DEF Rebuilds
<1>9. Sound(t, p)
  BY <1>1, <1>3, <1>5, <1>6, <1>7, <1>8 DEF Sound
<1> QED
  BY <1>9 DEF p

(* A plan from the chain that is accepted. *)
LEMMA AdjustedSound ==
    ASSUME Inv, pc = "totals", tool = "chain", ReadFromChain(totals[1], totals[2]).ok
    PROVE  Sound(totals[1], ReadFromChain(totals[1], totals[2]))
<1> DEFINE t == totals[1]
           old == totals[2]
           p == ReadFromChain(t, old)
<1>1. t \in Affected /\ t \in Token /\ Fresh(t, old)
  BY PendingType DEF Inv, Planning, Unplanned
<1>2. /\ p.old = old /\ p.written = Parties(t) /\ p.holders = Adjusted(t)
      /\ p.supply = NetSupply(UpTo(Log, at), t)
      /\ p.transfers = old[2] + Cardinality(OfToken(pending, t))
      /\ p.count = Cardinality({a \in Account : Adjusted(t)[a] > 0})
      /\ SumAgrees(Adjusted(t), NetSupply(UpTo(Log, at), t))
  BY DEF ReadFromChain
<1> HIDE DEF p
<1>3. UpTo(Log, at) \in SUBSET Log
  BY DEF UpTo
<1>4. \A a \in Account : Net(UpTo(Log, at), t, a) \in Int /\ Net(UpTo(Log, at), t, a) >= 0
  BY <1>1, <1>3, NetType, ChainAssumption DEF Inv, Shape
<1>5. db.holders[t] \in [Account -> Nat]
  BY <1>1 DEF Inv, Shape, DB
<1>6. Adjusted(t) \in [Account -> Nat]
  <2>1. Adjusted(t) \in [Account -> Int] /\ \A a \in Account : Adjusted(t)[a] >= 0
    BY <1>4, <1>5 DEF Adjusted
  <2> QED
    BY <2>1, NonNegative
<1>7. p.supply \in Int
  BY <1>2, <1>3, NetType
<1>8. \A a \in Account \ Parties(t) : Adjusted(t)[a] = db.holders[t][a]
  BY DEF Adjusted
<1>9. Adjusts(t, p)
  BY <1>2, <1>8 DEF Adjusts
<1>10. Sound(t, p)
  BY <1>1, <1>2, <1>6, <1>7, <1>9 DEF Sound
<1> QED
  BY <1>10 DEF p

(* A plan is accepted and kept, or the tool gives up. *)
LEMMA MakePlanStep ==
    ASSUME Inv, MakePlan
    PROVE  Inv'
<1> DEFINE t == totals[1]
           p == IF tool = "chain" THEN ReadFromChain(t, totals[2]) ELSE Rebuilt(t, totals[2])
<1>1. /\ pc = "totals" /\ pc' \in {"ready", "plan", "failed"}
      /\ UNCHANGED <<db, cursor, upto, tool, from, at, pending, totals>>
  BY DEF MakePlan, follower
<1>2. IF p.ok
      THEN /\ plans' = [s \in DOMAIN plans \cup {t} |-> IF s = t THEN p ELSE plans[s]]
           /\ pc' = IF Unplanned = {t} THEN "ready" ELSE "plan"
      ELSE pc' = "failed" /\ UNCHANGED plans
  BY DEF MakePlan
<1>3. p.ok => Sound(t, p)
  BY <1>1, RebuiltSound, AdjustedSound
<1>4. p.old = totals[2]
  BY DEF Rebuilt, ReadFromChain
<1> HIDE DEF p
<1>5. Affected' = Affected /\ t \in Unplanned
  BY <1>1 DEF Inv, Planning, Affected
<1>6. DOMAIN plans' \subseteq Affected /\ (pc' = "ready" => Affected \subseteq DOMAIN plans')
  BY <1>2, <1>5 DEF Inv, Shape, Unplanned
<1>7. ASSUME NEW s \in DOMAIN plans' PROVE Sound(s, plans'[s])
  BY <1>2, <1>3, <1>7 DEF Inv, Planning
<1>8. Planning'
  <2>1. ASSUME NEW s \in DOMAIN plans' PROVE Sound(s, plans[s])'
    BY <1>1, <1>7, <2>1 DEF Sound, Fresh, Adjusts, Rebuilds, RowsOf
  <2> QED
    BY <1>1, <2>1 DEF Planning
<1>9. Still'
  <2>1. ASSUME tool = "rebuild", NEW s \in DOMAIN plans', pc' # "failed"
        PROVE  plans'[s].old[2] = db.transferCount[s]
    BY <1>1, <1>2, <1>4, <2>1 DEF Inv, Still
  <2> QED
    BY <1>1, <2>1 DEF Still
<1>10. Reading'
  BY <1>1, <1>5, <1>6 DEF Inv, Reading
<1> QED
  BY <1>1, <1>5, <1>6, <1>8, <1>9, <1>10 DEF Inv, Shape, Followed, Counted, Spent

(* Comparing the cursor changes nothing but the place in the program. *)
LEMMA CheckCursorStep ==
    ASSUME Inv, CheckCursor
    PROVE  Inv'
<1>1. /\ pc = "ready" /\ tool = "prepared" /\ pc' \in {"checked", "failed"}
      /\ UNCHANGED <<db, cursor, upto, tool, from, at, pending, totals, plans>>
  BY DEF CheckCursor, follower
<1>2. Affected' = Affected
  BY <1>1 DEF Affected
<1>3. Planning'
  <2>1. ASSUME NEW s \in DOMAIN plans PROVE Sound(s, plans[s])'
    BY <1>1, <2>1 DEF Inv, Planning, Sound, Fresh, Adjusts, Rebuilds, RowsOf
  <2> QED
    BY <1>1, <2>1 DEF Planning
<1> QED
  BY <1>1, <1>2, <1>3 DEF Inv, Shape, Followed, Reading, Counted, Spent, Still

(* A saved file still describes what was read. *)
LEMMA ApplySavedStep ==
    ASSUME Inv, ApplySaved
    PROVE  Inv'
<1>1. /\ pc \in {"done", "failed"} /\ pc' = "ready" /\ Unplanned = {}
      /\ tool' = (IF tool = "rebuild" THEN "prepared" ELSE tool)
      /\ UNCHANGED <<db, cursor, upto, from, at, pending, totals, plans>>
  BY DEF ApplySaved, follower
<1>2. Affected' = Affected /\ Affected \subseteq DOMAIN plans
  BY <1>1 DEF Affected, Unplanned
<1>3. tool' \in {"rebuild", "prepared", "chain"} /\ tool' # "rebuild"
      /\ (tool' = "chain" <=> tool = "chain")
  BY <1>1 DEF Inv, Shape
<1>4. Planning'
  <2>1. ASSUME NEW s \in DOMAIN plans PROVE Sound(s, plans[s])'
    BY <1>1, <1>3, <2>1 DEF Inv, Planning, Sound, Fresh, Adjusts, Rebuilds, RowsOf
  <2> QED
    BY <1>1, <2>1 DEF Planning
<1> QED
  BY <1>1, <1>2, <1>3, <1>4 DEF Inv, Shape, Followed, Reading, Counted, Spent, Still

-----------------------------------------------------------------------------
(* The last transaction.                                                   *)

Ready == pc = IF tool = "prepared" THEN "checked" ELSE "ready"

(* The transaction changes something only if every token has the number of *)
(* Transfers its plan was made with.                                       *)
LEMMA PlannedToken ==
    ASSUME Inv, Ready, Unchanged, NEW t \in DOMAIN plans
    PROVE  /\ plans[t].old[2] = db.transferCount[t]
           /\ plans[t].old[2] < plans[t].transfers
           /\ NewHolders(t) = plans[t].holders
<1> DEFINE p == plans[t]
<1>1. Sound(t, p) /\ t \in Affected /\ t \in Token
  BY PendingType DEF Inv, Planning, Shape
<1>2. p.old[2] = db.transferCount[t]
  <2>1. CASE tool = "rebuild"
    BY <2>1 DEF Inv, Still, Ready
  <2>2. CASE tool # "rebuild"
    <3>1. Totals(t) = p.old
      BY <2>2 DEF Unchanged
    <3> QED
      BY <3>1 DEF Totals
  <2> QED
    BY <2>1, <2>2
<1>3. p.old[2] < p.transfers
  <2>1. /\ Cardinality(OfToken(pending, t)) \in Nat /\ Cardinality(OfToken(pending, t)) > 0
        /\ p.transfers = p.old[2] + Cardinality(OfToken(pending, t)) /\ p.old[2] \in Nat
    BY <1>1, PendingType DEF Inv, Sound, Fresh
  <2> QED
    BY <2>1
<1>4. NewHolders(t) = [a \in Account |->
          IF a \in p.written THEN p.holders[a] ELSE db.holders[t][a]]
  BY DEF NewHolders
<1>5. p.holders \in [Account -> Nat]
  BY <1>1 DEF Sound
<1>6. \A a \in Account \ p.written : p.holders[a] = db.holders[t][a]
  BY <1>1, <1>2 DEF Sound, Adjusts, Rebuilds
<1>7. NewHolders(t) = p.holders
  BY <1>4, <1>5, <1>6
<1> QED
  BY <1>2, <1>3, <1>7

(* A transaction that is not refused finds the counts exact. *)
LEMMA UnchangedExact ==
    ASSUME Inv, Ready, Unchanged
    PROVE  TransferCountExact(db)
<1>1. \A t \in DOMAIN plans : ~(plans[t].old[2] < db.transferCount[t])
  <2> SUFFICES ASSUME NEW t \in DOMAIN plans PROVE ~(plans[t].old[2] < db.transferCount[t])
    OBVIOUS
  <2>1. plans[t].old[2] = db.transferCount[t] /\ plans[t].old[2] \in Nat
    BY PlannedToken DEF Inv, Planning, Sound, Fresh
  <2> QED
    BY <2>1
<1> QED
  BY <1>1 DEF Inv, Counted, Spent

(* Where nothing was applied since the totals were read and no other row   *)
(* is marked, the rows then marked applied are those the plan is about and *)
(* its numbers are theirs.  That the number of Transfers is the old one    *)
(* also says that no row beyond the tool's cursor is applied yet.          *)
LEMMA MarkedToken ==
    ASSUME Inv, Ready, Unchanged, MarksPlanned, NEW t \in DOMAIN plans
    PROVE  LET new == OfToken(db.applied \cup Marked, t)
           IN  /\ Cardinality(new) = plans[t].transfers
               /\ tool # "chain" =>
                     /\ plans[t].supply = NetSupply(new, t)
                     /\ \A a \in Account : plans[t].holders[a] = Net(new, t, a)
<1> DEFINE p == plans[t]
           A == OfToken(db.applied, t)
           P == OfToken(pending, t)
           new == OfToken(db.applied \cup Marked, t)
<1>1. Sound(t, p) /\ t \in Affected /\ t \in Token
  BY PendingType DEF Inv, Planning, Shape
<1>2. p.old[2] = db.transferCount[t]
  BY PlannedToken
<1>3. P \cap A = {}
  BY <1>1, <1>2 DEF Sound, Fresh, OfToken
<1>4. /\ IsFiniteSet(A) /\ IsFiniteSet(P)
      /\ Cardinality(A) = db.transferCount[t]
      /\ Cardinality(P) \in Nat /\ Cardinality(A) \in Nat
  <2>1. A \subseteq Log
    BY DEF OfToken, Inv, Shape, DB
  <2>2. IsFiniteSet(A) /\ Cardinality(A) \in Nat
    BY <2>1, LogAssumption, FS_Subset, FS_CardinalityType
  <2>3. Cardinality(A) = db.transferCount[t]
    BY <1>1, UnchangedExact DEF TransferCountExact, OfToken
  <2> QED
    BY <1>1, <2>2, <2>3, PendingType DEF Inv
<1>5. p.transfers = Cardinality(A) + Cardinality(P)
  BY <1>1, <1>2, <1>4 DEF Sound
<1>6. Cardinality(A \cup P) = Cardinality(A) + Cardinality(P) /\ IsFiniteSet(A \cup P)
  <2>1. A \cap P = {}
    BY <1>3
  <2> HIDE DEF A, P
  <2>2. Cardinality(A \cup P) = Cardinality(A) + Cardinality(P) - Cardinality(A \cap P)
        /\ IsFiniteSet(A \cup P)
    BY <1>4, FS_Union
  <2>3. Cardinality(A \cap P) = 0
    BY <2>1, FS_EmptySet
  <2> QED
    BY <1>4, <2>2, <2>3
<1>7. CASE tool = "chain"
  <2>1. new = A \cup P
    BY <1>7 DEF Marked, OfToken
  <2> QED
    BY <1>5, <1>6, <1>7, <2>1
<1>8. CASE tool # "chain"
  <2>1. PICK R \in SUBSET RowsOf(t) : /\ p.transfers = Cardinality(R)
                                      /\ p.supply = NetSupply(R, t)
                                      /\ \A a \in Account : p.holders[a] = Net(R, t, a)
    BY <1>1, <1>8 DEF Sound, Rebuilds
  <2>2. OfToken(Marked, t) = RowsOf(t)
    <3>1. \A l \in UpTo(db.events, at) : IsTransfer(l)
      BY RepairAssumption DEF UpTo, Inv, Shape, DB
    <3>2. Marked = {l \in UpTo(db.events, at) : IsTransfer(l) /\ l.token \in DOMAIN plans}
      BY <1>8 DEF Marked
    <3> QED
      BY <3>1, <3>2 DEF OfToken, RowsOf
  <2>3. RowsOf(t) \subseteq A \cup P
    BY <2>2 DEF MarksPlanned, OfToken
  <2>4. R = A \cup P
    <3> HIDE DEF A, P, p
    <3>1. R \subseteq A \cup P /\ Cardinality(R) = Cardinality(A \cup P)
      BY <1>5, <1>6, <2>1, <2>3
    <3> QED
      BY <1>6, <3>1, FS_Subset
  <2>5. new = R
    <3>1. new = A \cup OfToken(Marked, t)
      BY DEF OfToken
    <3> HIDE DEF A, P, new
    <3> QED
      BY <2>1, <2>2, <2>3, <2>4, <3>1
  <2> QED
    BY <2>1, <2>5
<1> QED
  BY <1>7, <1>8

(* No row of a token without a plan is marked. *)
LEMMA UnplannedToken ==
    ASSUME Inv, Ready, NEW t \in Token \ DOMAIN plans
    PROVE  OfToken(db.applied \cup Marked, t) = OfToken(db.applied, t)
<1>1. Affected \subseteq DOMAIN plans
  BY DEF Inv, Reading, Ready
<1>2. \A l \in Marked : l.token \in DOMAIN plans
  BY <1>1 DEF Marked, Affected
<1> QED
  BY <1>2 DEF OfToken

(* What is marked are stored Transfers. *)
LEMMA MarkedStored ==
    ASSUME Inv, Ready
    PROVE  Marked \subseteq {l \in db.events : IsTransfer(l)}
<1>1. pending \subseteq UpTo(db.events, at)
  BY DEF Inv, Reading, Ready
<1>2. \A l \in db.events : IsTransfer(l)
  BY RepairAssumption DEF Inv, Shape, DB
<1> QED
  BY <1>1, <1>2 DEF Marked, UpTo

(* The transaction leaves the counts exact, if it marks no row that was not *)
(* planned, and its own plan used up: the number of Transfers has grown,   *)
(* so the same file is refused from now on.                                *)
LEMMA ApplyStep ==
    ASSUME Inv, Apply
    PROVE  Inv' /\ (MarksPlanned /\ TransferCountExact(db) => TransferCountExact(db'))
<1>1. Ready /\ UNCHANGED <<cursor, upto, tool, from, at, pending, totals, plans>>
  BY DEF Apply, Ready
<1>2. Affected' = Affected /\ Unplanned' = Unplanned
  BY <1>1 DEF Affected, Unplanned
<1>3. CASE ~Unchanged
  <2>1. pc' = "failed" /\ db' = db
    BY <1>3 DEF Apply
  <2>2. Planning'
    <3>1. ASSUME NEW s \in DOMAIN plans PROVE Sound(s, plans[s])'
      BY <1>1, <2>1, <3>1 DEF Inv, Planning, Sound, Fresh, Adjusts, Rebuilds, RowsOf
    <3> QED
      BY <1>1, <2>1, <3>1 DEF Planning
  <2> QED
    BY <1>1, <1>2, <2>1, <2>2 DEF Inv, Shape, Followed, Reading, Counted, Spent, Still, Ready
<1>4. CASE Unchanged
  <2> DEFINE supplies == [t \in Token |-> Planned(t, plans[t].supply, db.supply[t])]
             counts == [t \in Token |-> Planned(t, plans[t].count, db.holderCount[t])]
             transfers == [t \in Token |-> Planned(t, plans[t].transfers, db.transferCount[t])]
             holders == [t \in Token |-> NewHolders(t)]
  <2>1. /\ pc' = "done"
        /\ db' = [db EXCEPT !.applied = db.applied \cup Marked, !.holders = holders,
                            !.supply = supplies, !.holderCount = counts,
                            !.transferCount = transfers]
    BY <1>4 DEF Apply
  <2>2. /\ \A t \in DOMAIN plans : t \in Token /\ Sound(t, plans[t])
        /\ \A t \in Token : /\ db.holders[t] \in [Account -> Nat] /\ db.supply[t] \in Int
                            /\ db.holderCount[t] \in Nat /\ db.transferCount[t] \in Nat
    BY PendingType DEF Inv, Planning, Shape, DB
  <2>3. ASSUME NEW t \in DOMAIN plans
        PROVE  /\ plans[t].old[2] = db.transferCount[t]
               /\ plans[t].old[2] < plans[t].transfers
               /\ NewHolders(t) = plans[t].holders
               /\ plans[t].transfers \in Nat /\ plans[t].count \in Nat
    <3>1. plans[t].transfers \in Nat
      <4>1. Cardinality(OfToken(pending, t)) \in Nat
        BY PendingType DEF Inv
      <4>2. /\ plans[t].old[2] \in Nat
            /\ plans[t].transfers = plans[t].old[2] + Cardinality(OfToken(pending, t))
        BY <2>2 DEF Sound, Fresh
      <4> QED
        BY <4>1, <4>2
    <3>2. plans[t].count \in Nat
      <4>1. IsFiniteSet({a \in Account : plans[t].holders[a] > 0})
        BY AccountAssumption, FS_Subset
      <4> QED
        BY <2>2, <4>1, FS_CardinalityType DEF Sound
    <3> QED
      BY <1>1, <1>4, <3>1, <3>2, PlannedToken
  <2>4. ASSUME NEW t \in Token, t \notin DOMAIN plans
        PROVE  /\ OfToken(db.applied \cup Marked, t) = OfToken(db.applied, t)
               /\ NewHolders(t) = db.holders[t]
    BY <1>1, <2>4, UnplannedToken DEF NewHolders
  <2>5. /\ supplies \in [Token -> Int] /\ counts \in [Token -> Nat]
        /\ transfers \in [Token -> Nat] /\ holders \in [Token -> [Account -> Nat]]
    <3>1. \A t \in Token : Planned(t, plans[t].supply, db.supply[t]) \in Int
      BY <2>2 DEF Planned, Sound
    <3>2. \A t \in Token : Planned(t, plans[t].count, db.holderCount[t]) \in Nat
      BY <2>2, <2>3 DEF Planned
    <3>3. \A t \in Token : Planned(t, plans[t].transfers, db.transferCount[t]) \in Nat
      BY <2>2, <2>3 DEF Planned
    <3>4. \A t \in Token : NewHolders(t) \in [Account -> Nat]
      BY <2>2, <2>3, <2>4 DEF Sound
    <3> QED
      BY <3>1, <3>2, <3>3, <3>4
  <2>6. Marked \subseteq {l \in db.events : IsTransfer(l)}
    BY <1>1, MarkedStored
  <2>7. \A t \in Token :
          /\ holders[t] = NewHolders(t)
          /\ t \in DOMAIN plans => counts[t] = plans[t].count /\ transfers[t] = plans[t].transfers
          /\ t \notin DOMAIN plans => counts[t] = db.holderCount[t] /\ transfers[t] = db.transferCount[t]
    BY DEF Planned
  <2> HIDE DEF supplies, counts, transfers, holders
  <2>8. /\ db' \in DB /\ db'.events = db.events /\ db'.applied = db.applied \cup Marked
        /\ db'.holders = holders /\ db'.holderCount = counts /\ db'.transferCount = transfers
    BY <2>1, <2>5, <2>6 DEF Inv, Shape, DB
  <2>9. HolderCountExact(db')
    <3>1. ASSUME NEW t \in Token
          PROVE  counts[t] = Cardinality({a \in Account : holders[t][a] > 0})
      <4>1. CASE t \in DOMAIN plans
        BY <2>2, <2>3, <2>7, <4>1 DEF Sound
      <4>2. CASE t \notin DOMAIN plans
        BY <2>4, <2>7, <4>2 DEF Inv, Counted, HolderCountExact
      <4> QED
        BY <4>1, <4>2
    <3> QED
      BY <2>8, <3>1 DEF HolderCountExact
  <2>10. ASSUME MarksPlanned PROVE TransferCountExact(db')
    <3>0. TransferCountExact(db)
      BY <1>1, <1>4, UnchangedExact
    <3>1. ASSUME NEW t \in Token
          PROVE  transfers[t] = Cardinality(OfToken(db.applied \cup Marked, t))
      <4>1. CASE t \in DOMAIN plans
        <5>1. Cardinality(OfToken(db.applied \cup Marked, t)) = plans[t].transfers
          BY <1>1, <1>4, <2>10, <4>1, MarkedToken
        <5> QED
          BY <2>7, <4>1, <5>1
      <4>2. CASE t \notin DOMAIN plans
        BY <2>4, <2>7, <3>0, <4>2 DEF TransferCountExact, OfToken
      <4> QED
        BY <4>1, <4>2
    <3> QED
      BY <2>6, <2>8, <3>0, <3>1 DEF TransferCountExact, OfToken
  <2>11. Planning'
    <3>1. ASSUME NEW t \in DOMAIN plans PROVE Sound(t, plans[t])'
      <4> DEFINE p == plans[t]
      <4>1. Sound(t, p) /\ t \in Token
        BY <2>2
      <4>2. p.old[2] < db'.transferCount[t] /\ p.old[2] \in Nat /\ db'.transferCount[t] \in Nat
        BY <2>3, <2>7, <2>8, <4>1 DEF Sound, Fresh
      <4>3. p.old[2] <= db'.transferCount[t] /\ p.old[2] # db'.transferCount[t]
        BY <4>2
      <4>4. RowsOf(t)' = RowsOf(t)
        BY <1>1, <2>8 DEF RowsOf
      <4> QED
        BY <1>1, <4>1, <4>3, <4>4 DEF Sound, Fresh, Adjusts, Rebuilds
    <3> QED
      BY <1>1, <2>1, <3>1 DEF Planning
  <2>12. Followed'
    BY <1>1, <2>8 DEF Inv, Followed
  <2>13. Reading'
    BY <1>1, <2>1, <2>8 DEF Inv, Reading, Ready
  <2>14. ASSUME ~MarksPlanned PROVE Spent'
    <3>1. tool # "chain"
      BY <2>14 DEF MarksPlanned, Marked
    <3>2. PICK l \in Marked : l \notin pending
      BY <2>14 DEF MarksPlanned
    <3>3. l.token \in DOMAIN plans
      BY <3>1, <3>2 DEF Marked
    <3>4. plans[l.token].old[2] < db'.transferCount[l.token]
      BY <2>2, <2>3, <2>7, <2>8, <3>3
    <3> QED
      BY <1>1, <2>1, <3>1, <3>3, <3>4 DEF Spent
  <2>15. Counted'
    BY <2>9, <2>10, <2>14 DEF Counted
  <2> QED
    BY <1>1, <1>2, <2>1, <2>8, <2>10, <2>11, <2>12, <2>13, <2>15 DEF Inv, Shape, Still
<1> QED
  BY <1>3, <1>4

-----------------------------------------------------------------------------
(* The theorems.                                                           *)

(* Every database a tool may find. *)
LEMMA InitInv ==
    ASSUME Init
    PROVE  Inv
<1>1. PICK rows \in SUBSET Log, c \in cursor .. MaxBlock :
        LET range == {l \in Log : l.block \in cursor + 1 .. c}
        IN  \E applied \in SUBSET UpTo(rows, cursor) :
                db = ApplyAll(InsertRows([EmptyDB EXCEPT !.tokens = Token], rows \cup range),
                              applied \cup range)
  BY DEF Init
<1> DEFINE range == {l \in Log : l.block \in cursor + 1 .. c}
           empty == [EmptyDB EXCEPT !.tokens = Token]
           d == InsertRows(empty, rows \cup range)
<1>2. PICK applied \in SUBSET UpTo(rows, cursor) : db = ApplyAll(d, applied \cup range)
  BY <1>1
<1>3. empty \in DB /\ empty.events = {} /\ empty.applied = {}
      /\ HolderCountExact(empty) /\ TransferCountExact(empty)
  <2>1. empty \in DB /\ empty.events = {} /\ empty.applied = {}
    BY EmptyDBType DEF EmptyDB, DB
  <2>2. HolderCountExact(empty)
    <3>1. \A t \in Token : {a \in Account : empty.holders[t][a] > 0} = {} /\ empty.holderCount[t] = 0
      BY DEF EmptyDB
    <3> HIDE DEF empty
    <3> QED
      BY <3>1, FS_EmptySet DEF HolderCountExact
  <2>3. TransferCountExact(empty)
    <3>1. \A t \in Token : {l \in empty.applied : l.token = t} = {} /\ empty.transferCount[t] = 0
      BY DEF EmptyDB
    <3> HIDE DEF empty
    <3> QED
      BY <2>1, <3>1, FS_EmptySet DEF TransferCountExact
  <2> QED
    BY <2>1, <2>2, <2>3
<1> HIDE DEF empty
<1>4. rows \cup range \in SUBSET Log /\ applied \cup range \subseteq rows \cup range
  BY <1>2 DEF UpTo
<1> HIDE DEF range
<1>5. d \in DB /\ d.events = rows \cup range /\ d.applied = {}
      /\ HolderCountExact(d) /\ TransferCountExact(d)
  BY <1>3, <1>4, InsertRowsType, InsertRowsCounts
<1> HIDE DEF d
<1>6. Applied(db, d, applied \cup range)
  <2>1. applied \cup range \in SUBSET d.events /\ (applied \cup range) \cap d.applied = {}
    BY <1>4, <1>5
  <2> QED
    BY <1>2, <1>5, <2>1, ApplyAllMeaning
<1>7. db \in DB /\ HolderCountExact(db) /\ TransferCountExact(db)
  BY <1>5, <1>6 DEF Applied
<1>8. /\ cursor \in 0 .. MaxBlock /\ tool \in Tools /\ from \in FromBlocks /\ upto = 0
      /\ pc = "start" /\ at = 0 /\ pending = {} /\ plans = <<>>
  BY DEF Init
<1>9. DOMAIN plans = {}
  BY <1>8
<1>10. Shape
  <2>1. tool \in {"rebuild", "prepared", "chain"} /\ from \in Nat
    BY <1>8, RepairAssumption
  <2> QED
    BY <1>7, <1>8, <1>9, <2>1, MaxBlockType DEF Shape
<1> QED
  BY <1>7, <1>8, <1>9, <1>10 DEF Inv, Followed, Reading, Counted, Still, Planning

(* One lemma per action. *)
LEMMA InvStep ==
    ASSUME Inv, [Next]_vars
    PROVE  Inv'
<1>1. CASE LiveRow
  BY <1>1, LiveRowStep, FollowerKeeps
<1>2. CASE EventRange
  BY <1>2, EventRangeStep, FollowerKeeps
<1>3. CASE MoveCursor
  BY <1>3, MoveCursorStep, FollowerKeeps
<1>4. CASE Restart
  BY <1>4, RestartStep, FollowerKeeps
<1>5. CASE ReadPending
  BY <1>5, ReadPendingStep
<1>6. CASE ReadTotals
  BY <1>6, ReadTotalsStep
<1>7. CASE MakePlan
  BY <1>7, MakePlanStep
<1>8. CASE CheckCursor
  BY <1>8, CheckCursorStep
<1>9. CASE Apply
  BY <1>9, ApplyStep
<1>10. CASE ApplySaved
  BY <1>10, ApplySavedStep
<1>11. CASE UNCHANGED vars
  <2>1. FollowerMoves
    BY <1>11, StillMoves, MaxBlockType DEF vars, Inv, Shape
  <2>2. Followed'
    BY <1>11 DEF vars, Inv, Followed
  <2> QED
    BY <2>1, <2>2, FollowerKeeps
<1> QED
  BY <1>1, <1>2, <1>3, <1>4, <1>5, <1>6, <1>7, <1>8, <1>9, <1>10, <1>11 DEF Next

(* No step makes exact counts inexact, unless it marks unplanned rows. *)
LEMMA CountStep ==
    ASSUME Inv, [Next]_vars, TransferCountExact(db), Applies => MarksPlanned
    PROVE  TransferCountExact(db')
<1>1. CASE LiveRow \/ EventRange \/ MoveCursor \/ Restart
  BY <1>1, LiveRowStep, EventRangeStep, MoveCursorStep, RestartStep DEF FollowerMoves
<1>2. CASE ReadPending \/ ReadTotals \/ MakePlan \/ CheckCursor \/ ApplySaved \/ UNCHANGED vars
  <2>1. db' = db
    BY <1>2 DEF ReadPending, ReadTotals, MakePlan, CheckCursor, ApplySaved, vars, follower
  <2> QED
    BY <2>1
<1>3. CASE Apply
  <2>1. CASE Unchanged
    <3>1. Applies
      BY <1>3, <2>1 DEF Apply, Applies
    <3> QED
      BY <1>3, <3>1, ApplyStep
  <2>2. CASE ~Unchanged
    <3>1. db' = db
      BY <1>3, <2>2 DEF Apply
    <3> QED
      BY <3>1
  <2> QED
    BY <2>1, <2>2
<1> QED
  BY <1>1, <1>2, <1>3 DEF Next

(* The last transaction is the only step from ready to done. *)
LEMMA AppliesPlans ==
    ASSUME Inv, [Next]_vars, Applies
    PROVE  /\ Ready /\ Unchanged /\ DOMAIN plans \subseteq Token /\ plans' = plans
           /\ db'.applied = db.applied \cup Marked
           /\ \A t \in DOMAIN plans : /\ db'.holders[t] = plans[t].holders
                                      /\ db'.supply[t] = plans[t].supply
<1>1. Apply
  BY DEF Next, vars, Applies, LiveRow, EventRange, MoveCursor, Restart, ReadPending, ReadTotals,
         MakePlan, CheckCursor, ApplySaved
<1>2. Ready /\ Unchanged /\ plans' = plans
  BY <1>1 DEF Apply, Applies, Ready
<1>3. DOMAIN plans \subseteq Token
  BY PendingType DEF Inv, Shape
<1>4. /\ db'.applied = db.applied \cup Marked
      /\ \A t \in Token : /\ db'.holders[t] = NewHolders(t)
                          /\ db'.supply[t] = Planned(t, plans[t].supply, db.supply[t])
  <2> DEFINE supplies == [t \in Token |-> Planned(t, plans[t].supply, db.supply[t])]
             counts == [t \in Token |-> Planned(t, plans[t].count, db.holderCount[t])]
             transfers == [t \in Token |-> Planned(t, plans[t].transfers, db.transferCount[t])]
             holders == [t \in Token |-> NewHolders(t)]
  <2>1. db' = [db EXCEPT !.applied = db.applied \cup Marked, !.holders = holders,
                         !.supply = supplies, !.holderCount = counts,
                         !.transferCount = transfers]
    BY <1>1, <1>2 DEF Apply
  <2>2. \A t \in Token : /\ holders[t] = NewHolders(t)
                         /\ supplies[t] = Planned(t, plans[t].supply, db.supply[t])
    OBVIOUS
  <2> HIDE DEF supplies, counts, transfers, holders
  <2>3. db'.applied = db.applied \cup Marked /\ db'.holders = holders /\ db'.supply = supplies
    BY <2>1 DEF Inv, Shape, DB
  <2> QED
    BY <2>2, <2>3
<1>5. \A t \in DOMAIN plans : NewHolders(t) = plans[t].holders
  BY <1>2, PlannedToken
<1>6. \A t \in DOMAIN plans : /\ db'.holders[t] = plans[t].holders
                              /\ db'.supply[t] = plans[t].supply
  BY <1>3, <1>4, <1>5 DEF Planned
<1> QED
  BY <1>2, <1>3, <1>4, <1>6

(* A rebuilt token. *)
LEMMA LedgerStep ==
    ASSUME Inv, [Next]_vars, Applies, tool # "chain", MarksPlanned, NEW t \in DOMAIN plans
    PROVE  LET rows == OfToken(db'.applied, t)
           IN  /\ \A a \in Account : db'.holders[t][a] = Net(rows, t, a)
               /\ db'.supply[t] = NetSupply(rows, t)
<1>1. /\ db'.applied = db.applied \cup Marked /\ Ready /\ Unchanged
      /\ db'.holders[t] = plans[t].holders /\ db'.supply[t] = plans[t].supply
  BY AppliesPlans
<1>2. LET new == OfToken(db.applied \cup Marked, t)
      IN  /\ plans[t].supply = NetSupply(new, t)
          /\ \A a \in Account : plans[t].holders[a] = Net(new, t, a)
  BY <1>1, MarkedToken
<1> QED
  BY <1>1, <1>2

(* A token repaired from the chain. *)
LEMMA SumStep ==
    ASSUME Inv, [Next]_vars, Applies, tool = "chain", NEW t \in DOMAIN plans
    PROVE  MapThenSumSet(LAMBDA a : db'.holders[t][a], Account) = db'.supply[t]
<1>1. SumAgrees(plans[t].holders, plans[t].supply)
  BY DEF Inv, Planning, Sound, Adjusts
<1>2. db'.holders[t] = plans[t].holders /\ db'.supply[t] = plans[t].supply
  BY AppliesPlans
<1>3. SumAgrees(db'.holders[t], db'.supply[t])
  BY <1>1, <1>2
<1> QED
  BY <1>3 DEF SumAgrees

(* The invariant of every behaviour. *)
LEMMA Invariance == Spec => []Inv
<1>1. Init => Inv
  BY InitInv
<1>2. Inv /\ [Next]_vars => Inv'
  BY InvStep
<1> QED
  BY <1>1, <1>2, PTL DEF Spec

(* Beside a follower that goes on, fails or restarts, stores late rows, and *)
(* however often a saved file is applied, holder_count is the number of    *)
(* holder rows, and transfer_count stays the number of Transfers marked    *)
(* applied in every step but a transaction of a rebuild that marks a row   *)
(* its plan was not about (repair-balances.js:50-58, 120-128), which the   *)
(* code does not rule out.                                                 *)
THEOREM RepairKeepsCounts == Spec => CountsExact
<1>1. Inv /\ Inv' /\ [Next]_vars =>
        [/\ HolderCountExact(db')
         /\ TransferCountExact(db) /\ (Applies => MarksPlanned) => TransferCountExact(db')]_vars
  <2> SUFFICES ASSUME Inv, Inv', [Next]_vars
               PROVE  /\ HolderCountExact(db')
                      /\ TransferCountExact(db) /\ (Applies => MarksPlanned) => TransferCountExact(db')
    OBVIOUS
  <2>1. HolderCountExact(db')
    BY DEF Inv, Counted
  <2> QED
    BY <2>1, CountStep
<1> QED
  BY <1>1, Invariance, PTL DEF Spec, CountsExact

(* README.md:74: a rebuilt token's holders and supply are the exact net of  *)
(* the rows that are marked applied with them, if the transaction marks no *)
(* row the plan was not about; it compares totals and marks by block, so   *)
(* --from-block=N must leave no older unapplied row out and none may       *)
(* arrive late (repair-balances.js:50-58, 120-128).                        *)
THEOREM RepairRebuildsLedger == Spec => LedgerExact
<1>1. Inv /\ [Next]_vars => [Applies /\ tool # "chain" /\ MarksPlanned =>
         \A t \in DOMAIN plans :
            LET rows == OfToken(db'.applied, t)
            IN  /\ \A a \in Account : db'.holders[t][a] = Net(rows, t, a)
                /\ db'.supply[t] = NetSupply(rows, t)]_vars
  BY LedgerStep
<1> QED
  BY <1>1, Invariance, PTL DEF Spec, LedgerExact

(* README.md:80: after the chain tool the holder rows of a token, those it  *)
(* did not write included, add up to its supply.                           *)
THEOREM ChainRepairAddsUp == Spec => HoldersSumToSupply
<1>1. Inv /\ [Next]_vars => [Applies /\ tool = "chain" =>
         \A t \in DOMAIN plans :
            MapThenSumSet(LAMBDA a : db'.holders[t][a], Account) = db'.supply[t]]_vars
  BY SumStep
<1> QED
  BY <1>1, Invariance, PTL DEF Spec, HoldersSumToSupply
=============================================================================
