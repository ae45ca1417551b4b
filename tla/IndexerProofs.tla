--------------------------- MODULE IndexerProofs ----------------------------
(***************************************************************************)
(* Proofs about Indexer, for every chain, every bound and any number of    *)
(* processes.  The inductive invariant is built in layers; a layer may use *)
(* the ones before it in both the old and the new state.                   *)
(*                                                                         *)
(*   Shape    types, the range of every cursor, who owns the transaction   *)
(*   Rooted   everything stored or about to be stored is confirmed         *)
(*   Counted  the counts of db.js, in the store and in the transaction     *)
(*   Streamed which stream a process is in at each step                    *)
(*   Covered  every cursor, in table meta or in the memory of a process,   *)
(*            vouches for what is at or below it, and a range in progress  *)
(*            for what it has fetched                                      *)
(*   Ordered  Transfers are applied in chain order, also in the view of    *)
(*            the open transaction                                         *)
(*   Flagged  admin_active and has_non_mint_transfer follow from the rows  *)
(*            of the store, and of the view of an open transaction         *)
(*   Emitters every stored row belongs to a listed token                   *)
(*   Sure     what the event cursor is about to pass has been applied      *)
(*   Booked   balances and supplies are what the applied rows amount to    *)
(*   Prefixed the applied rows are those of whole blocks, up to some block *)
(*   Spanned  the open transaction adds only rows of its range             *)
(*   Viewed   the open transaction has all that is stored                  *)
(*                                                                         *)
(* Covered and Ordered, and Booked and Prefixed that rest on them, need    *)
(* endpoints that answer fully; Sure needs that or one process alone; the  *)
(* others hold however short the answers fall.                             *)
(***************************************************************************)
EXTENDS IndexerLedger, StoreProofs

Keys == {"factory", "cursor", "token", "live"}

(* The steps of a process that are inside a range. *)
InRange == {"tokens", "publish", "logs", "batch", "apply", "cursor"}

(* A cursor in memory: nothing is indexed yet, or a confirmed block. *)
Reached(c) == c >= First /\ (c = First \/ c <= head - Confirmations)

(* A cursor in table meta. *)
MetaBound == \A k \in Keys : meta[k] = Unset \/ (meta[k] >= First /\ meta[k] <= head - Confirmations)

MemBound(m) ==
    m.pc # "down" =>
        /\ Reached(m.F) /\ Reached(m.T) /\ Reached(m.L)
        /\ m.pc # "idle" => m.safe <= head - Confirmations /\ Reached(m.cur)
        /\ m.pc \in InRange => m.to > m.cur /\ m.to <= head - Confirmations

(* The open transaction belongs to the one process that is applying. *)
Owned ==
    /\ \A p \in Proc : At(p, "apply") => txn # NoTxn /\ txn.owner = p
    /\ txn # NoTxn => At(txn.owner, "apply")

Shape == TypeOK /\ MetaBound /\ (\A p \in Proc : MemBound(mem[p])) /\ Owned

-----------------------------------------------------------------------------
(* Layer 1: Shape.                                                         *)

(* The constants, as the arithmetic below needs them. *)
LEMMA Constants ==
    /\ StartBlock \in Nat /\ StartBlock > 0
    /\ First \in Nat
    /\ MaxBlock \in Nat /\ Confirmations \in Nat /\ MaxLag \in Nat /\ LiveLookback \in Nat
    /\ Chunk \in Nat /\ Chunk > 0
    /\ LiveChunk \in Nat /\ LiveChunk > 0
    /\ TopicChunk \in Nat /\ TopicChunk > 0
BY IndexerAssumption DEF Pos, First

(* Replacing the memory of one process. *)
LEMMA MemUpdate ==
    ASSUME Shape, NEW p \in Proc, NEW n \in Mem, MemBound(n),
           mem' = [mem EXCEPT ![p] = n], UNCHANGED head
    PROVE  /\ mem' \in [Proc -> Mem]
           /\ \A q \in Proc : MemBound(mem[q])'
<1>1. mem \in [Proc -> Mem]
  BY DEF Shape, TypeOK
<1>2. mem' \in [Proc -> Mem]
  BY <1>1
<1>3. ASSUME NEW q \in Proc
      PROVE  MemBound(mem[q])'
  <2>1. CASE q = p
    <3>1. mem'[q] = n
      BY <1>1, <2>1
    <3> QED
      BY <3>1 DEF MemBound, Reached
  <2>2. CASE q # p
    <3>1. mem'[q] = mem[q] /\ MemBound(mem[q])
      BY <1>1, <2>2 DEF Shape
    <3> QED
      BY <3>1 DEF MemBound, Reached
  <2> QED
    BY <2>1, <2>2
<1> QED
  BY <1>2, <1>3

(* A step that leaves the store, the cursors and the transaction alone. *)
LEMMA MemOnly ==
    ASSUME Shape, NEW p \in Proc, NEW n \in Mem, MemBound(n),
           ~At(p, "apply"), n.pc # "apply",
           mem' = [mem EXCEPT ![p] = n], UNCHANGED <<chain, head, db, meta, txn>>
    PROVE  Shape'
<1>1. mem' \in [Proc -> Mem] /\ \A q \in Proc : MemBound(mem[q])'
  BY MemUpdate
<1>2. TypeOK'
  BY <1>1 DEF Shape, TypeOK
<1>3. MetaBound'
  BY DEF Shape, MetaBound
<1>4. Owned'
  BY DEF Shape, Owned, At, TypeOK
<1> QED
  BY <1>1, <1>2, <1>3, <1>4 DEF Shape

(* The memory of a process that is not running. *)
LEMMA DownFields ==
    Down \in Mem /\ Down.pc = "down" /\ Down.todo = {} /\ Down.stream = "factory"
BY DEF Down, Mem, PC, Stream

(* The memory of a process between two ticks. *)
LEMMA IdleFields ==
    ASSUME NEW m \in Mem
    PROVE  /\ Idle(m) \in Mem
           /\ Idle(m).pc = "idle" /\ Idle(m).todo = {} /\ Idle(m).stream = "factory"
           /\ Idle(m).F = m.F /\ Idle(m).T = m.T /\ Idle(m).L = m.L
<1>1. m.F \in Int /\ m.T \in Int /\ m.L \in Int
  BY DEF Mem
<1>2. Idle(m) = [Down EXCEPT !.pc = "idle", !.F = m.F, !.T = m.T, !.L = m.L]
  BY DEF Idle
<1>3. "idle" \in PC
  BY DEF PC
<1> QED
  BY <1>1, <1>2, <1>3, DownFields DEF Mem

(* The records a process can be reset to. *)
LEMMA ResetShape ==
    ASSUME Shape, NEW p \in Proc
    PROVE  /\ mem[p] \in Mem
           /\ Down \in Mem /\ MemBound(Down)
           /\ ~At(p, "down") => Idle(mem[p]) \in Mem /\ MemBound(Idle(mem[p]))
<1>1. mem[p] \in Mem /\ MemBound(mem[p])
  BY DEF Shape, TypeOK
<1>2. Down \in Mem /\ MemBound(Down)
  BY DEF Down, Mem, PC, Stream, MemBound
<1>3. ASSUME ~At(p, "down")
      PROVE  Idle(mem[p]) \in Mem /\ MemBound(Idle(mem[p]))
  BY <1>1, <1>3, IdleFields DEF MemBound, At, InRange
<1> QED
  BY <1>1, <1>2, <1>3

(* A cursor read from meta, or its fallback, is a reached one. *)
LEMMA CursorReached ==
    ASSUME Shape, NEW k \in Keys, NEW f \in Int, Reached(f)
    PROVE  Cursor(k, f) \in Int /\ Reached(Cursor(k, f))
BY Constants DEF Shape, MetaBound, TypeOK, Keys, Cursor, Reached, CursorValue, Unset

LEMMA StartShape ==
    ASSUME Shape, NEW p \in Proc, Start(p)
    PROVE  Shape'
<1>1. PICK s \in SafeHead :
          mem' = [mem EXCEPT ![p] =
              [Down EXCEPT !.pc = "drain", !.boot = TRUE, !.safe = s,
                           !.F = Cursor("factory", Cursor("cursor", First)),
                           !.cur = Cursor("factory", Cursor("cursor", First)),
                           !.T = Cursor("token", First),
                           !.L = Cursor("live", Greatest(First, s - LiveLookback))]]
  BY DEF Start
<1>2. head \in Nat
  BY Constants DEF Shape, TypeOK
<1>3. s \in Int /\ s <= head - Confirmations
  BY <1>2, Constants DEF SafeHead
<1> DEFINE F == Cursor("factory", Cursor("cursor", First))
           T == Cursor("token", First)
           L == Cursor("live", Greatest(First, s - LiveLookback))
<1>4. Reached(First) /\ First \in Int
  BY Constants DEF Reached
<1>5. F \in Int /\ Reached(F) /\ T \in Int /\ Reached(T)
  BY <1>4, CursorReached DEF Keys
<1>6. L \in Int /\ Reached(L)
  <2>1. Greatest(First, s - LiveLookback) \in Int /\ Reached(Greatest(First, s - LiveLookback))
    BY <1>2, <1>3, Constants DEF Greatest, Reached
  <2> QED
    BY <2>1, CursorReached DEF Keys
<1> HIDE DEF F, T, L
<1> DEFINE n == [Down EXCEPT !.pc = "drain", !.boot = TRUE, !.safe = s,
                             !.F = F, !.cur = F, !.T = T, !.L = L]
<1>7. n \in Mem
  <2>1. "drain" \in PC
    BY DEF PC
  <2> QED
    BY <1>3, <1>5, <1>6, <2>1, DownFields DEF Mem
<1>8. MemBound(n)
  BY <1>3, <1>5, <1>6 DEF Down, MemBound, InRange
<1>9. mem' = [mem EXCEPT ![p] = n] /\ n.pc # "apply"
  BY <1>1 DEF F, T, L, Down
<1> HIDE DEF n
<1> QED
  BY <1>7, <1>8, <1>9, MemOnly DEF Start, At

LEMMA TickShape ==
    ASSUME Shape, NEW p \in Proc, Tick(p)
    PROVE  Shape'
<1> DEFINE m == mem[p]
<1>1. PICK s \in SafeHead :
          mem' = [mem EXCEPT ![p] = [m EXCEPT !.pc = "drain", !.safe = s, !.cur = m.F]]
  BY DEF Tick
<1>2. head \in Nat /\ m \in Mem /\ MemBound(m) /\ m.pc = "idle"
  BY Constants DEF Shape, TypeOK, Tick, At
<1>3. s \in Int /\ s <= head - Confirmations
  BY <1>2, Constants DEF SafeHead
<1> DEFINE n == [m EXCEPT !.pc = "drain", !.safe = s, !.cur = m.F]
<1>4. n \in Mem /\ MemBound(n) /\ n.pc # "apply"
  BY <1>2, <1>3 DEF Mem, PC, MemBound, InRange
<1> HIDE DEF n
<1> QED
  BY <1>1, <1>2, <1>4, MemOnly DEF Tick, At, n

LEMMA FactoryFetchShape ==
    ASSUME Shape, NEW p \in Proc, FactoryFetch(p)
    PROVE  Shape'
<1> DEFINE m == mem[p]
           to == Least(m.cur + Chunk, m.safe)
           td == {l \in LogsIn(m.cur + 1, to) : l.kind = "Created"}
           n == [m EXCEPT !.pc = "tokens", !.to = to, !.todo = td]
<1>1. m \in Mem /\ MemBound(m) /\ m.pc = "drain" /\ m.cur < m.safe /\ chain \subseteq Log
  BY ForkAssumption DEF Shape, TypeOK, FactoryFetch, In
<1>2. to \in Int /\ to > m.cur /\ to <= m.safe
  BY <1>1, Constants DEF Least, Mem
<1>3. td \subseteq Log
  BY <1>1 DEF LogsIn
<1>4. mem' = [mem EXCEPT ![p] = n]
  BY DEF FactoryFetch
<1>5. head \in Nat
  BY Constants DEF Shape, TypeOK
<1> HIDE DEF to, td
<1>6. n \in Mem
  BY <1>1, <1>2, <1>3 DEF Mem, PC
<1>7. MemBound(n)
  <2>1. /\ n.pc = "tokens" /\ n.to = to /\ n.F = m.F /\ n.T = m.T /\ n.L = m.L
        /\ n.safe = m.safe /\ n.cur = m.cur
    BY <1>1 DEF Mem
  <2>2. to <= head - Confirmations
    BY <1>1, <1>2, <1>5, Constants DEF MemBound, Mem
  <2> QED
    BY <1>1, <1>2, <2>1, <2>2 DEF MemBound, InRange
<1>8. n.pc # "apply"
  BY <1>1 DEF Mem
<1> HIDE DEF n
<1> QED
  BY <1>1, <1>4, <1>6, <1>7, <1>8, MemOnly DEF FactoryFetch, In, At

LEMMA FactoryDoneShape ==
    ASSUME Shape, NEW p \in Proc, FactoryDone(p)
    PROVE  Shape'
<1> DEFINE m == mem[p]
           f == [m EXCEPT !.F = m.cur]
           n == IF Mode[p] = "once"
                THEN [f EXCEPT !.stream = "token", !.cur = m.T]
                ELSE [f EXCEPT !.stream = "live", !.cur = LiveFrom(m)]
<1>1. m \in Mem /\ MemBound(m) /\ m.pc = "drain" /\ head \in Nat
  BY Constants DEF Shape, TypeOK, FactoryDone, In
<1>2. LiveFrom(m) \in Int /\ Reached(LiveFrom(m))
  BY <1>1, Constants DEF LiveFrom, Greatest, Reached, MemBound, Mem
<1>3. n \in Mem /\ n.pc = "drain"
  BY <1>1, <1>2 DEF Mem, Stream
<1>4. MemBound(n)
  BY <1>1, <1>2 DEF MemBound, InRange, Mem
<1>5. mem' = [mem EXCEPT ![p] = n]
  BY DEF FactoryDone
<1> HIDE DEF n
<1> QED
  BY <1>1, <1>3, <1>4, <1>5, MemOnly DEF FactoryDone, At

LEMMA RangeBeginShape ==
    ASSUME Shape, NEW p \in Proc, RangeBegin(p)
    PROVE  Shape'
<1> DEFINE m == mem[p]
           q == IF db.tokens = {} THEN "cursor" ELSE "logs"
           n == [m EXCEPT !.pc = q, !.to = RangeEnd(m), !.addrs = db.tokens]
<1>1. m \in Mem /\ MemBound(m) /\ m.pc = "drain" /\ HasRange(p) /\ head \in Nat /\ db \in DB
  BY Constants DEF Shape, TypeOK, RangeBegin, At
<1>2. RangeEnd(m) \in Int /\ RangeEnd(m) > m.cur /\ RangeEnd(m) <= head - Confirmations
  BY <1>1, Constants DEF RangeEnd, HasRange, Least, Reached, MemBound, Mem
<1>3. q \in PC /\ q \in {"cursor", "logs"}
  BY DEF PC
<1>4. mem' = [mem EXCEPT ![p] = n]
  BY DEF RangeBegin
<1> HIDE DEF q
<1>5. n \in Mem /\ n.pc = q
  BY <1>1, <1>2, <1>3 DEF Mem, DB
<1>6. MemBound(n)
  <2>1. /\ n.to = RangeEnd(m) /\ n.F = m.F /\ n.T = m.T /\ n.L = m.L
        /\ n.safe = m.safe /\ n.cur = m.cur
    BY <1>1 DEF Mem
  <2> QED
    BY <1>1, <1>2, <1>3, <1>5, <2>1 DEF MemBound, InRange
<1> HIDE DEF n
<1> QED
  BY <1>1, <1>3, <1>4, <1>5, <1>6, MemOnly DEF RangeBegin, At

LEMMA AddressRequiredShape ==
    ASSUME Shape, NEW p \in Proc, AddressRequired(p)
    PROVE  Shape'
<1> DEFINE m == mem[p]
           n == [m EXCEPT !.pc = "batch"]
<1>1. m \in Mem /\ MemBound(m) /\ m.pc = "logs" /\ mem \in [Proc -> Mem]
  BY DEF Shape, TypeOK, AddressRequired, At
<1>2. n \in Mem /\ MemBound(n) /\ n.pc # "apply"
  BY <1>1 DEF Mem, PC, MemBound, InRange
<1>3. mem' = [mem EXCEPT ![p] = n]
  BY <1>1 DEF AddressRequired
<1> HIDE DEF n
<1> QED
  BY <1>1, <1>2, <1>3, MemOnly DEF AddressRequired, At

LEMMA LiveDoneShape ==
    ASSUME Shape, NEW p \in Proc, LiveDone(p)
    PROVE  Shape'
<1> DEFINE m == mem[p]
           n == [m EXCEPT !.L = m.cur, !.stream = "token", !.cur = m.T]
<1>1. m \in Mem /\ MemBound(m) /\ m.pc = "drain"
  BY DEF Shape, TypeOK, LiveDone, In
<1>2. n \in Mem /\ MemBound(n) /\ n.pc # "apply"
  BY <1>1 DEF Mem, Stream, MemBound, InRange
<1>3. mem' = [mem EXCEPT ![p] = n]
  BY DEF LiveDone
<1> HIDE DEF n
<1> QED
  BY <1>1, <1>2, <1>3, MemOnly DEF LiveDone, At

LEMMA TokenDoneShape ==
    ASSUME Shape, NEW p \in Proc, TokenDone(p)
    PROVE  Shape'
<1> DEFINE m == mem[p]
           i == Idle([m EXCEPT !.T = m.cur])
           n == IF Mode[p] = "once" THEN Down ELSE i
<1>1. m \in Mem /\ MemBound(m) /\ m.pc = "drain"
  BY DEF Shape, TypeOK, TokenDone, In
<1>2. i \in Mem /\ MemBound(i) /\ i.pc # "apply"
  <2> DEFINE k == [m EXCEPT !.T = m.cur]
  <2>1. k \in Mem /\ k.F = m.F /\ k.T = m.cur /\ k.L = m.L
    BY <1>1 DEF Mem
  <2> HIDE DEF k
  <2>2. /\ i \in Mem /\ i.pc = "idle"
        /\ i.F = m.F /\ i.T = m.cur /\ i.L = m.L
    BY <2>1, IdleFields DEF k
  <2> QED
    BY <1>1, <2>2 DEF MemBound, InRange
<1>3. n \in Mem /\ MemBound(n) /\ n.pc # "apply"
  BY <1>2, ResetShape DEF Down
<1>4. mem' = [mem EXCEPT ![p] = n]
  BY DEF TokenDone
<1> HIDE DEF n
<1> QED
  BY <1>1, <1>3, <1>4, MemOnly DEF TokenDone, At

(* A step outside the transaction that writes the store or the cursors. *)
LEMMA WriteStep ==
    ASSUME Shape, NEW p \in Proc, NEW n \in Mem, MemBound(n),
           ~At(p, "apply"), n.pc # "apply",
           mem' = [mem EXCEPT ![p] = n], UNCHANGED <<chain, head, txn>>,
           db' \in DB,
           meta' \in [factory : CursorValue, cursor : CursorValue,
                      token : CursorValue, live : CursorValue],
           MetaBound'
    PROVE  Shape'
<1>1. mem' \in [Proc -> Mem] /\ \A q \in Proc : MemBound(mem[q])'
  BY MemUpdate
<1>2. TypeOK'
  BY <1>1 DEF Shape, TypeOK
<1>3. Owned'
  BY DEF Shape, Owned, At, TypeOK
<1> QED
  BY <1>1, <1>2, <1>3 DEF Shape

(* Writing one cursor: the end of the range of a process. *)
LEMMA MetaWrite ==
    ASSUME Shape, NEW p \in Proc, mem[p].pc \in InRange, NEW k \in Keys,
           meta' = [meta EXCEPT ![k] = mem[p].to], UNCHANGED head
    PROVE  /\ meta' \in [factory : CursorValue, cursor : CursorValue,
                         token : CursorValue, live : CursorValue]
           /\ MetaBound'
<1> DEFINE to == mem[p].to
<1>1. mem[p] \in Mem /\ MemBound(mem[p]) /\ head \in 0 .. MaxBlock
  BY DEF Shape, TypeOK
<1>2. to \in Int /\ to >= First /\ to <= head - Confirmations
  BY <1>1, Constants DEF MemBound, InRange, Reached, Mem
<1>3. to \in CursorValue
  BY <1>1, <1>2, Constants DEF CursorValue
<1> HIDE DEF to
<1>4. meta \in [factory : CursorValue, cursor : CursorValue,
                token : CursorValue, live : CursorValue]
  BY DEF Shape, TypeOK
<1>5. meta' = [meta EXCEPT ![k] = to]
  BY DEF to
<1>6. CASE k = "factory"
  BY <1>2, <1>3, <1>4, <1>5, <1>6 DEF Shape, MetaBound, Keys
<1>7. CASE k = "cursor"
  BY <1>2, <1>3, <1>4, <1>5, <1>7 DEF Shape, MetaBound, Keys
<1>8. CASE k = "token"
  BY <1>2, <1>3, <1>4, <1>5, <1>8 DEF Shape, MetaBound, Keys
<1>9. CASE k = "live"
  BY <1>2, <1>3, <1>4, <1>5, <1>9 DEF Shape, MetaBound, Keys
<1> QED
  BY <1>6, <1>7, <1>8, <1>9 DEF Keys

LEMMA InsertNextTokenShape ==
    ASSUME Shape, NEW p \in Proc, InsertNextToken(p)
    PROVE  Shape'
<1> DEFINE m == mem[p]
<1>1. PICK l \in m.todo : /\ db' = InsertToken(db, l.token)
                          /\ mem' = [mem EXCEPT ![p].todo = @ \ {l}]
  BY DEF InsertNextToken
<1> DEFINE n == [m EXCEPT !.todo = m.todo \ {l}]
<1>2. m \in Mem /\ MemBound(m) /\ m.pc = "tokens" /\ mem \in [Proc -> Mem] /\ db \in DB
  BY DEF Shape, TypeOK, InsertNextToken, At
<1>3. l \in Log /\ l.token \in Token
  BY <1>2, LogAssumption DEF Mem
<1>4. db' \in DB
  BY <1>1, <1>2, <1>3, InsertTokenType
<1>5. mem' = [mem EXCEPT ![p] = n]
  BY <1>1, <1>2
<1>6. n \in Mem /\ MemBound(n) /\ n.pc # "apply"
  BY <1>2 DEF Mem, MemBound
<1>7. meta' = meta /\ UNCHANGED <<chain, head, txn>>
  BY DEF InsertNextToken
<1>8. MetaBound' /\ meta' \in [factory : CursorValue, cursor : CursorValue,
                               token : CursorValue, live : CursorValue]
  BY <1>7 DEF Shape, TypeOK, MetaBound
<1> HIDE DEF n
<1> QED
  BY <1>2, <1>4, <1>5, <1>6, <1>7, <1>8, WriteStep DEF At

LEMMA SetFactoryCursorShape ==
    ASSUME Shape, NEW p \in Proc, SetFactoryCursor(p)
    PROVE  Shape'
<1> DEFINE m == mem[p]
           n == [m EXCEPT !.pc = "publish"]
<1>1. /\ m \in Mem /\ MemBound(m) /\ m.pc = "tokens" /\ mem \in [Proc -> Mem] /\ db \in DB
      /\ meta \in [factory : CursorValue, cursor : CursorValue,
                   token : CursorValue, live : CursorValue]
  BY DEF Shape, TypeOK, SetFactoryCursor, At
<1>2. n \in Mem /\ MemBound(n) /\ n.pc # "apply"
  BY <1>1 DEF Mem, PC, MemBound, InRange
<1>3. mem' = [mem EXCEPT ![p] = n]
  BY <1>1 DEF SetFactoryCursor
<1>4. UNCHANGED <<chain, head, db, txn>>
  BY DEF SetFactoryCursor
<1>5. meta' = [meta EXCEPT !["factory"] = m.to]
  BY <1>1 DEF SetFactoryCursor
<1>6. /\ MetaBound'
      /\ meta' \in [factory : CursorValue, cursor : CursorValue,
                    token : CursorValue, live : CursorValue]
  BY <1>1, <1>4, <1>5, MetaWrite DEF InRange, Keys
<1> HIDE DEF n
<1> QED
  BY <1>1, <1>2, <1>3, <1>4, <1>6, WriteStep DEF At

LEMMA PublishCursorShape ==
    ASSUME Shape, NEW p \in Proc, PublishCursor(p)
    PROVE  Shape'
<1> DEFINE m == mem[p]
           n == [m EXCEPT !.pc = "drain", !.cur = m.to]
<1>1. /\ m \in Mem /\ MemBound(m) /\ m.pc = "publish" /\ mem \in [Proc -> Mem] /\ db \in DB
      /\ meta \in [factory : CursorValue, cursor : CursorValue,
                   token : CursorValue, live : CursorValue]
      /\ head \in Nat
  BY Constants DEF Shape, TypeOK, PublishCursor, At
<1>2. n \in Mem /\ MemBound(n) /\ n.pc # "apply"
  <2>1. n \in Mem /\ n.pc = "drain"
    BY <1>1 DEF Mem, PC
  <2>2. MemBound(n)
    BY <1>1, <2>1, Constants DEF Mem, MemBound, InRange, Reached
  <2> QED
    BY <2>1, <2>2
<1>3. mem' = [mem EXCEPT ![p] = n]
  BY DEF PublishCursor
<1>4. UNCHANGED <<chain, head, db, txn>>
  BY DEF PublishCursor
<1>5. meta' = [meta EXCEPT !["cursor"] = m.to]
  BY <1>1 DEF PublishCursor
<1>6. /\ MetaBound'
      /\ meta' \in [factory : CursorValue, cursor : CursorValue,
                    token : CursorValue, live : CursorValue]
  BY <1>1, <1>4, <1>5, MetaWrite DEF InRange, Keys
<1> HIDE DEF n
<1> QED
  BY <1>1, <1>2, <1>3, <1>4, <1>6, WriteStep DEF At

LEMMA SetStreamCursorShape ==
    ASSUME Shape, NEW p \in Proc, SetStreamCursor(p)
    PROVE  Shape'
<1> DEFINE m == mem[p]
           r == IF m.stream = "token" /\ Mode[p] = "follow" THEN m.ranges + 1 ELSE m.ranges
           n == [m EXCEPT !.pc = "drain", !.cur = m.to, !.addrs = {}, !.ranges = r]
<1>1. /\ m \in Mem /\ MemBound(m) /\ m.pc = "cursor" /\ mem \in [Proc -> Mem] /\ db \in DB
      /\ meta \in [factory : CursorValue, cursor : CursorValue,
                   token : CursorValue, live : CursorValue]
      /\ head \in Nat /\ m.stream \in Keys
  BY Constants DEF Shape, TypeOK, SetStreamCursor, At, Mem, Stream, Keys
<1>2. r \in Nat
  BY <1>1 DEF Mem
<1>3. mem' = [mem EXCEPT ![p] = n]
  BY DEF SetStreamCursor
<1> HIDE DEF r
<1>4. n \in Mem /\ n.pc = "drain"
  BY <1>1, <1>2 DEF Mem, PC
<1>5. MemBound(n)
  BY <1>1, <1>4, Constants DEF Mem, MemBound, InRange, Reached
<1>6. UNCHANGED <<chain, head, db, txn>>
  BY DEF SetStreamCursor
<1>7. meta' = [meta EXCEPT ![m.stream] = m.to]
  BY DEF SetStreamCursor
<1>8. /\ MetaBound'
      /\ meta' \in [factory : CursorValue, cursor : CursorValue,
                    token : CursorValue, live : CursorValue]
  BY <1>1, <1>6, <1>7, MetaWrite DEF InRange
<1> HIDE DEF n
<1> QED
  BY <1>1, <1>3, <1>4, <1>5, <1>6, <1>8, WriteStep DEF At

(* The rows of a reply are logs. *)
LEMMA ReplyRows ==
    ASSUME Shape, NEW tokens, NEW p \in Proc, NEW rows \in Reply(LogsOf(tokens, mem[p]))
    PROVE  rows \subseteq LogsOf(tokens, mem[p]) /\ rows \in SUBSET Log
<1>1. chain \subseteq Log
  BY ForkAssumption DEF Shape, TypeOK
<1>2. rows \subseteq LogsOf(tokens, mem[p])
  BY DEF Reply
<1> QED
  BY <1>1, <1>2 DEF LogsOf, LogsIn

(* What an opened transaction looks like. *)
LEMMA OpenTxnType ==
    ASSUME NEW p \in Proc, NEW view \in DB
    PROVE  /\ OpenTxn(p, view) \in [owner : Proc, view : DB, todo : SUBSET Log]
           /\ OpenTxn(p, view) # NoTxn
           /\ OpenTxn(p, view).owner = p
           /\ OpenTxn(p, view).view = view
           /\ OpenTxn(p, view).todo = Unapplied(view, mem[p].cur + 1, mem[p].to)
<1>1. Unapplied(view, mem[p].cur + 1, mem[p].to) \subseteq Log
  BY DEF Unapplied, DB
<1> QED
  BY <1>1, IndexerAssumption DEF OpenTxn

(* A process opens the transaction. *)
LEMMA OpenStep ==
    ASSUME Shape, NEW p \in Proc, NEW n \in Mem, MemBound(n), n.pc = "apply",
           NEW view \in DB, MayWrite, txn' = OpenTxn(p, view),
           mem' = [mem EXCEPT ![p] = n], UNCHANGED <<chain, head, db, meta>>
    PROVE  Shape'
<1>1. mem' \in [Proc -> Mem] /\ \A q \in Proc : MemBound(mem[q])'
  BY MemUpdate
<1>2. TypeOK'
  BY <1>1, OpenTxnType DEF Shape, TypeOK
<1>3. MetaBound'
  BY DEF Shape, MetaBound
<1>4. Owned'
  BY OpenTxnType DEF Shape, Owned, At, TypeOK, MayWrite
<1> QED
  BY <1>1, <1>2, <1>3, <1>4 DEF Shape

LEMMA TopicReplyShape ==
    ASSUME Shape, NEW p \in Proc, TopicReply(p)
    PROVE  Shape'
<1> DEFINE m == mem[p]
<1>1. /\ m \in Mem /\ MemBound(m) /\ m.pc = "logs" /\ db \in DB
      /\ meta \in [factory : CursorValue, cursor : CursorValue,
                   token : CursorValue, live : CursorValue]
      /\ UNCHANGED <<chain, head, meta>> /\ MayWrite
  BY DEF Shape, TypeOK, TopicReply, At
<1>2. PICK rows \in Reply(LogsOf(m.addrs, m)) :
        IF m.stream = "live"
        THEN /\ db' = InsertRows(db, rows)
             /\ mem' = [mem EXCEPT ![p] = [m EXCEPT !.pc = "cursor", !.addrs = {}]]
             /\ UNCHANGED txn
        ELSE /\ txn' = OpenTxn(p, InsertRows(db, rows))
             /\ mem' = [mem EXCEPT ![p] = [m EXCEPT !.pc = "apply", !.addrs = {}]]
             /\ UNCHANGED db
  BY DEF TopicReply
<1>3. InsertRows(db, rows) \in DB
  BY <1>1, ReplyRows, InsertRowsType
<1>4. CASE m.stream = "live"
  <2> DEFINE n == [m EXCEPT !.pc = "cursor", !.addrs = {}]
  <2>1. n \in Mem /\ MemBound(n) /\ n.pc # "apply"
    BY <1>1 DEF Mem, PC, MemBound, InRange
  <2>2. MetaBound'
    BY <1>1 DEF Shape, MetaBound
  <2>3. mem' = [mem EXCEPT ![p] = n] /\ db' \in DB /\ UNCHANGED txn
    BY <1>2, <1>3, <1>4
  <2> HIDE DEF n
  <2> QED
    BY <1>1, <2>1, <2>2, <2>3, WriteStep DEF At
<1>5. CASE m.stream # "live"
  <2> DEFINE n == [m EXCEPT !.pc = "apply", !.addrs = {}]
  <2>1. n \in Mem /\ MemBound(n) /\ n.pc = "apply"
    BY <1>1 DEF Mem, PC, MemBound, InRange
  <2>2. mem' = [mem EXCEPT ![p] = n] /\ txn' = OpenTxn(p, InsertRows(db, rows)) /\ UNCHANGED db
    BY <1>2, <1>5
  <2> HIDE DEF n
  <2> QED
    BY <1>1, <1>3, <2>1, <2>2, OpenStep
<1> QED
  BY <1>4, <1>5

LEMMA BatchReplyShape ==
    ASSUME Shape, NEW p \in Proc, BatchReply(p)
    PROVE  Shape'
<1> DEFINE m == mem[p]
<1>1. /\ m \in Mem /\ MemBound(m) /\ m.pc = "batch" /\ db \in DB /\ mem \in [Proc -> Mem]
      /\ meta \in [factory : CursorValue, cursor : CursorValue,
                   token : CursorValue, live : CursorValue]
      /\ UNCHANGED <<chain, head, meta, txn>>
  BY DEF Shape, TypeOK, BatchReply, At
<1>a. PICK batch \in SUBSET m.addrs :
        /\ \E rows \in Reply(LogsOf(batch, m)) : db' = InsertRows(db, rows)
        /\ mem' = [mem EXCEPT ![p].addrs = @ \ batch]
  BY DEF BatchReply
<1>2. PICK rows \in Reply(LogsOf(batch, m)) : db' = InsertRows(db, rows)
  BY <1>a
<1> DEFINE n == [m EXCEPT !.addrs = m.addrs \ batch]
<1>3. db' \in DB
  BY <1>1, <1>2, ReplyRows, InsertRowsType
<1>4. n \in Mem /\ MemBound(n) /\ n.pc # "apply"
  BY <1>1 DEF Mem, MemBound
<1>5. mem' = [mem EXCEPT ![p] = n]
  BY <1>1, <1>a
<1>6. MetaBound'
  BY <1>1 DEF Shape, MetaBound
<1> HIDE DEF n
<1> QED
  BY <1>1, <1>3, <1>4, <1>5, <1>6, WriteStep DEF At

LEMMA BatchesDoneShape ==
    ASSUME Shape, NEW p \in Proc, BatchesDone(p)
    PROVE  Shape'
<1> DEFINE m == mem[p]
<1>1. /\ m \in Mem /\ MemBound(m) /\ m.pc = "batch" /\ db \in DB /\ mem \in [Proc -> Mem]
      /\ UNCHANGED <<chain, head, db, meta>> /\ MayWrite
  BY DEF Shape, TypeOK, BatchesDone, At
<1>2. CASE m.stream = "live"
  <2> DEFINE n == [m EXCEPT !.pc = "cursor"]
  <2>1. n \in Mem /\ MemBound(n) /\ n.pc # "apply"
    BY <1>1 DEF Mem, PC, MemBound, InRange
  <2>2. mem' = [mem EXCEPT ![p] = n] /\ UNCHANGED txn
    BY <1>1, <1>2 DEF BatchesDone
  <2> HIDE DEF n
  <2> QED
    BY <1>1, <2>1, <2>2, MemOnly DEF At
<1>3. CASE m.stream # "live"
  <2> DEFINE n == [m EXCEPT !.pc = "apply"]
  <2>1. n \in Mem /\ MemBound(n) /\ n.pc = "apply"
    BY <1>1 DEF Mem, PC, MemBound, InRange
  <2>2. mem' = [mem EXCEPT ![p] = n] /\ txn' = OpenTxn(p, db)
    BY <1>1, <1>3 DEF BatchesDone
  <2> HIDE DEF n
  <2> QED
    BY <1>1, <2>1, <2>2, OpenStep
<1> QED
  BY <1>2, <1>3

(* The rows still to be applied are stored, unapplied Transfers. *)
TodoOK ==
    txn # NoTxn => \A l \in txn.todo :
        IsTransfer(l) /\ l \in txn.view.events /\ l \notin txn.view.applied

(* While a process applies, the transaction is a record it owns. *)
LEMMA TxnRecord ==
    ASSUME Shape, NEW p \in Proc, At(p, "apply")
    PROVE  /\ txn \in [owner : Proc, view : DB, todo : SUBSET Log]
           /\ txn # NoTxn /\ txn.owner = p
BY DEF Shape, Owned, TypeOK

LEMMA ApplyNextRowShape ==
    ASSUME Shape, TodoOK, NEW p \in Proc, ApplyNextRow(p)
    PROVE  Shape'
<1>1. /\ txn \in [owner : Proc, view : DB, todo : SUBSET Log]
      /\ txn # NoTxn /\ txn.owner = p
  BY TxnRecord DEF ApplyNextRow
<1>2. PICK l \in txn.todo :
        txn' = [txn EXCEPT !.view = InsertTransferAndApply(txn.view, l), !.todo = txn.todo \ {l}]
  BY DEF ApplyNextRow
<1>3. InsertTransferAndApply(txn.view, l) \in DB
  <2>1. txn.view \in DB /\ l \in Log
    BY <1>1
  <2>2. IsTransfer(l) /\ l \in txn.view.events /\ l \notin txn.view.applied
    BY <1>1 DEF TodoOK
  <2> QED
    BY <2>1, <2>2, ApplyStoredFields
<1>4. txn' \in [owner : Proc, view : DB, todo : SUBSET Log] /\ txn'.owner = p /\ txn' # NoTxn
  <2> DEFINE v == InsertTransferAndApply(txn.view, l)
             td == txn.todo \ {l}
  <2>1. td \in SUBSET Log /\ txn' = [txn EXCEPT !.view = v, !.todo = td]
    BY <1>1, <1>2
  <2> HIDE DEF v, td
  <2>2. txn' \in [owner : Proc, view : DB, todo : SUBSET Log] /\ txn'.owner = txn.owner
    BY <1>1, <1>3, <2>1 DEF v
  <2> QED
    BY <1>1, <2>2, IndexerAssumption
<1>5. UNCHANGED <<chain, head, db, meta, mem>>
  BY DEF ApplyNextRow
<1>6. TypeOK'
  BY <1>4, <1>5 DEF Shape, TypeOK
<1>7. MetaBound' /\ (\A q \in Proc : MemBound(mem[q])')
  BY <1>5 DEF Shape, MetaBound, MemBound, Reached
<1>8. Owned'
  BY <1>1, <1>4, <1>5 DEF Shape, Owned, At
<1> QED
  BY <1>6, <1>7, <1>8 DEF Shape

(* A process closes its transaction, or does not have one. *)
LEMMA CloseStep ==
    ASSUME Shape, NEW p \in Proc, NEW n \in Mem, MemBound(n), n.pc # "apply",
           mem' = [mem EXCEPT ![p] = n], UNCHANGED <<chain, head, meta>>,
           db' \in DB, txn' = IF At(p, "apply") THEN NoTxn ELSE txn
    PROVE  Shape'
<1>1. mem' \in [Proc -> Mem] /\ \A q \in Proc : MemBound(mem[q])'
  BY MemUpdate
<1>2. TypeOK'
  BY <1>1 DEF Shape, TypeOK
<1>3. MetaBound'
  BY DEF Shape, MetaBound
<1>4. Owned'
  BY DEF Shape, Owned, At, TypeOK
<1> QED
  BY <1>1, <1>2, <1>3, <1>4 DEF Shape

LEMMA CommitShape ==
    ASSUME Shape, NEW p \in Proc, Commit(p)
    PROVE  Shape'
<1> DEFINE m == mem[p]
           n == [m EXCEPT !.pc = "cursor"]
<1>1. m \in Mem /\ MemBound(m) /\ m.pc = "apply" /\ mem \in [Proc -> Mem]
  BY DEF Shape, TypeOK, Commit, At
<1>2. n \in Mem /\ MemBound(n) /\ n.pc # "apply"
  BY <1>1 DEF Mem, PC, MemBound, InRange
<1>3. mem' = [mem EXCEPT ![p] = n]
  BY <1>1 DEF Commit
<1>4. db' \in DB /\ txn' = NoTxn /\ At(p, "apply") /\ UNCHANGED <<chain, head, meta>>
  BY TxnRecord DEF Commit
<1> HIDE DEF n
<1> QED
  BY <1>2, <1>3, <1>4, CloseStep

LEMMA StopShape ==
    ASSUME Shape, NEW p \in Proc, Fail(p) \/ Crash(p)
    PROVE  Shape'
<1>1. PICK n \in Mem : mem' = [mem EXCEPT ![p] = n] /\ MemBound(n) /\ n.pc # "apply"
  <2>1. CASE Fail(p)
    <3>1. Idle(mem[p]) \in Mem /\ MemBound(Idle(mem[p])) /\ Idle(mem[p]).pc = "idle"
      BY <2>1, ResetShape, IdleFields DEF Fail
    <3> QED
      BY <2>1, <3>1, ResetShape, DownFields DEF Fail
  <2>2. CASE Crash(p)
    BY <2>2, ResetShape, DownFields DEF Crash
  <2> QED
    BY <2>1, <2>2
<1>2. UNCHANGED <<chain, head, meta>> /\ Abandon(p)
  BY DEF Fail, Crash
<1>3. db' = db /\ txn' = IF At(p, "apply") THEN NoTxn ELSE txn
  BY <1>2 DEF Abandon
<1>4. db' \in DB
  BY <1>3 DEF Shape, TypeOK
<1> QED
  BY <1>1, <1>2, <1>3, <1>4, CloseStep

LEMMA NetworkShape ==
    ASSUME Shape, Mine \/ Reorg
    PROVE  Shape'
<1>1. UNCHANGED <<db, meta, txn, mem>> /\ head' \in 0 .. MaxBlock /\ chain' \in Fork /\ head' >= head
  BY Constants DEF Mine, Reorg, Shape, TypeOK
<1>2. TypeOK'
  BY <1>1 DEF Shape, TypeOK
<1>3. MetaBound'
  <2>1. \A k \in Keys : meta[k] \in Int
    BY Constants DEF Shape, TypeOK, Keys, CursorValue, Unset
  <2> QED
    BY <1>1, <2>1, Constants DEF Shape, MetaBound, TypeOK
<1>4. ASSUME NEW q \in Proc
      PROVE  MemBound(mem[q])'
  <2>1. mem[q] \in Mem /\ MemBound(mem[q]) /\ head \in Int /\ head' \in Int
    BY <1>1, Constants DEF Shape, TypeOK
  <2> QED
    BY <1>1, <2>1, Constants DEF MemBound, Reached, Mem
<1>5. Owned'
  BY <1>1 DEF Shape, Owned, At
<1> QED
  BY <1>2, <1>3, <1>4, <1>5 DEF Shape

LEMMA InitShape == Init => Shape
<1> SUFFICES ASSUME Init PROVE Shape
  OBVIOUS
<1>1. PICK c \in LegacyCursors :
        /\ c = Unset \/ c <= head - Confirmations
        /\ meta = [factory |-> Unset, cursor |-> c, token |-> Unset, live |-> Unset]
        /\ db = [EmptyDB EXCEPT !.tokens =
                    {l.token : l \in {k \in chain : k.kind = "Created" /\ k.block <= c}}]
  BY DEF Init, InitStore
<1>2. c = Unset \/ c \in StartBlock .. MaxBlock
  BY LegacyAssumption
<1>3. c \in CursorValue /\ Unset \in CursorValue
  BY <1>2, Constants DEF CursorValue, First
<1>4. db \in DB
  <2>1. chain \subseteq Log
    BY ForkAssumption DEF Init
  <2>2. {l.token : l \in {k \in chain : k.kind = "Created" /\ k.block <= c}} \subseteq Token
    BY <2>1, LogAssumption
  <2> QED
    BY <1>1, <2>2, EmptyDBType DEF DB
<1>5. TypeOK
  BY <1>1, <1>3, <1>4, DownFields DEF Init, TypeOK
<1>6. MetaBound
  BY <1>1, <1>2, Constants DEF MetaBound, Keys, First
<1>7. \A p \in Proc : MemBound(mem[p])
  BY DownFields DEF Init, MemBound
<1>8. Owned
  BY DownFields DEF Init, Owned, At
<1> QED
  BY <1>5, <1>6, <1>7, <1>8 DEF Shape

-----------------------------------------------------------------------------
(* Layer 2: the rows of the transaction, and the counts.                   *)

(* Every log of a range is confirmed. *)
LEMMA RangeFinal ==
    ASSUME Shape, NEW p \in Proc, mem[p].pc \in InRange, NEW tokens,
           NEW l \in LogsOf(tokens, mem[p])
    PROVE  Final(l)
<1>1. mem[p] \in Mem /\ MemBound(mem[p]) /\ head \in Nat /\ chain \in Fork
  BY Constants DEF Shape, TypeOK
<1>2. mem[p].to <= head - Confirmations
  BY <1>1 DEF MemBound, InRange
<1>3. l \in chain /\ l.block \in (mem[p].cur + 1) .. mem[p].to
  BY DEF LogsOf, LogsIn
<1>4. l.block \in Int
  BY <1>1, <1>3, ForkAssumption, LogAssumption
<1> QED
  BY <1>1, <1>2, <1>3, <1>4, Constants DEF Final, Mem

(* What a step can do to the store and to the transaction. *)
LEMMA StoreEffects ==
    ASSUME Shape, Next
    PROVE  \/ UNCHANGED <<db, txn>>
           \/ \E t \in Token : /\ db' = InsertToken(db, t) /\ UNCHANGED txn
                             /\ \E q \in Proc : \E l \in mem[q].todo : t = l.token
           \/ \E rows \in SUBSET Log : /\ db' = InsertRows(db, rows) /\ UNCHANGED txn
                                    /\ \A l \in rows : Final(l)
           \/ /\ UNCHANGED db
              /\ \E p \in Proc :
                    \/ txn' = OpenTxn(p, db)
                    \/ \E rows \in SUBSET Log : /\ txn' = OpenTxn(p, InsertRows(db, rows))
                                              /\ \A l \in rows : Final(l)
           \/ \E p \in Proc : ApplyNextRow(p)
           \/ \E p \in Proc : Commit(p)
           \/ UNCHANGED db /\ txn' = NoTxn
<1>1. CASE Mine \/ Reorg
  BY <1>1 DEF Mine, Reorg
<1>2. CASE Trouble
  BY <1>2 DEF Trouble, Fail, Crash, Abandon
<1>3. ASSUME NEW p \in Proc, Step(p)
      PROVE  \/ UNCHANGED <<db, txn>>
             \/ \E t \in Token : /\ db' = InsertToken(db, t) /\ UNCHANGED txn
                             /\ \E q \in Proc : \E l \in mem[q].todo : t = l.token
             \/ \E rows \in SUBSET Log : /\ db' = InsertRows(db, rows) /\ UNCHANGED txn
                                    /\ \A l \in rows : Final(l)
             \/ /\ UNCHANGED db
                /\ \/ txn' = OpenTxn(p, db)
                   \/ \E rows \in SUBSET Log : /\ txn' = OpenTxn(p, InsertRows(db, rows))
                                              /\ \A l \in rows : Final(l)
             \/ ApplyNextRow(p)
             \/ Commit(p)
  <2>1. CASE Start(p) \/ Tick(p) \/ FactoryFetch(p) \/ SetFactoryCursor(p)
             \/ PublishCursor(p) \/ FactoryDone(p) \/ RangeBegin(p) \/ AddressRequired(p)
             \/ SetStreamCursor(p) \/ LiveDone(p) \/ TokenDone(p)
    BY <2>1 DEF Start, Tick, FactoryFetch, SetFactoryCursor, PublishCursor, FactoryDone,
                RangeBegin, AddressRequired, SetStreamCursor, LiveDone, TokenDone
  <2>2. CASE InsertNextToken(p)
    <3>1. PICK l \in mem[p].todo : db' = InsertToken(db, l.token)
      BY <2>2 DEF InsertNextToken
    <3>2. l.token \in Token
      BY LogAssumption DEF Shape, TypeOK, Mem
    <3> QED
      BY <2>2, <3>1, <3>2 DEF InsertNextToken
  <2>3. CASE TopicReply(p)
    <3>1. PICK rows \in Reply(LogsOf(mem[p].addrs, mem[p])) :
              \/ db' = InsertRows(db, rows) /\ UNCHANGED txn
              \/ txn' = OpenTxn(p, InsertRows(db, rows)) /\ UNCHANGED db
      BY <2>3 DEF TopicReply
    <3>2. rows \in SUBSET Log /\ \A l \in rows : Final(l)
      <4>1. mem[p].pc \in InRange
        BY <2>3 DEF TopicReply, At, InRange
      <4>2. rows \subseteq LogsOf(mem[p].addrs, mem[p]) /\ rows \in SUBSET Log
        BY ReplyRows
      <4> QED
        BY <4>1, <4>2, RangeFinal
    <3> QED
      BY <3>1, <3>2
  <2>4. CASE BatchReply(p)
    <3>1. PICK batch \in SUBSET mem[p].addrs :
              \E rows \in Reply(LogsOf(batch, mem[p])) : db' = InsertRows(db, rows)
      BY <2>4 DEF BatchReply
    <3>2. PICK rows \in Reply(LogsOf(batch, mem[p])) : db' = InsertRows(db, rows)
      BY <3>1
    <3>3. rows \in SUBSET Log /\ \A l \in rows : Final(l)
      <4>1. mem[p].pc \in InRange
        BY <2>4 DEF BatchReply, At, InRange
      <4>2. rows \subseteq LogsOf(batch, mem[p]) /\ rows \in SUBSET Log
        BY ReplyRows
      <4> QED
        BY <4>1, <4>2, RangeFinal
    <3> QED
      BY <2>4, <3>2, <3>3 DEF BatchReply
  <2>5. CASE BatchesDone(p)
    BY <2>5 DEF BatchesDone
  <2>6. CASE ApplyNextRow(p) \/ Commit(p)
    BY <2>6
  <2> QED
    BY <1>3, <2>1, <2>2, <2>3, <2>4, <2>5, <2>6 DEF Step
<1> QED
  BY <1>1, <1>2, <1>3 DEF Next

(* Every step keeps the shape. *)
LEMMA ShapeStep ==
    ASSUME Shape, TodoOK, [Next]_vars
    PROVE  Shape'
<1>1. CASE UNCHANGED vars
  BY <1>1 DEF vars, Shape, TypeOK, MetaBound, MemBound, Reached, Owned, At
<1>2. CASE Mine \/ Reorg
  BY <1>2, NetworkShape
<1>3. CASE Trouble
  BY <1>3, StopShape DEF Trouble
<1>4. ASSUME NEW p \in Proc, Step(p)
      PROVE  Shape'
  <2>1. CASE Start(p) \/ Tick(p)
    BY <2>1, StartShape, TickShape
  <2>2. CASE FactoryFetch(p) \/ InsertNextToken(p) \/ SetFactoryCursor(p)
             \/ PublishCursor(p) \/ FactoryDone(p)
    BY <2>2, FactoryFetchShape, InsertNextTokenShape, SetFactoryCursorShape,
       PublishCursorShape, FactoryDoneShape
  <2>3. CASE RangeBegin(p) \/ TopicReply(p) \/ AddressRequired(p)
             \/ BatchReply(p) \/ BatchesDone(p)
    BY <2>3, RangeBeginShape, TopicReplyShape, AddressRequiredShape,
       BatchReplyShape, BatchesDoneShape
  <2>4. CASE ApplyNextRow(p) \/ Commit(p) \/ SetStreamCursor(p) \/ LiveDone(p) \/ TokenDone(p)
    BY <2>4, ApplyNextRowShape, CommitShape, SetStreamCursorShape, LiveDoneShape, TokenDoneShape
  <2> QED
    BY <1>4, <2>1, <2>2, <2>3, <2>4 DEF Step
<1> QED
  BY <1>1, <1>2, <1>3, <1>4 DEF Next

(* An opened transaction has only stored, unapplied Transfers to apply. *)
LEMMA OpenTodo ==
    ASSUME NEW p \in Proc, NEW view \in DB, txn' = OpenTxn(p, view)
    PROVE  TodoOK'
<1>1. txn'.view = view /\ txn'.todo = Unapplied(view, mem[p].cur + 1, mem[p].to)
  BY OpenTxnType
<1> QED
  BY <1>1 DEF TodoOK, Unapplied

(* One applied row, seen from the invariants. *)
LEMMA ApplyFacts ==
    ASSUME Shape, TodoOK, NEW p \in Proc, ApplyNextRow(p)
    PROVE  \E l \in txn.todo :
              /\ l \in Log /\ IsTransfer(l)
              /\ l \in txn.view.events /\ l \notin txn.view.applied
              /\ \A k \in txn.todo : ~Before(k, l)
              /\ txn.view \in DB
              /\ txn'.view = InsertTransferAndApply(txn.view, l)
              /\ txn'.view.events = txn.view.events
              /\ txn'.view.tokens = txn.view.tokens
              /\ txn'.view.applied = txn.view.applied \cup {l}
              /\ txn'.todo = txn.todo \ {l}
              /\ txn'.owner = txn.owner /\ txn # NoTxn
<1>1. /\ txn \in [owner : Proc, view : DB, todo : SUBSET Log]
      /\ txn # NoTxn /\ txn.owner = p
  BY TxnRecord DEF ApplyNextRow
<1>2. PICK l \in txn.todo :
        /\ \A k \in txn.todo : ~Before(k, l)
        /\ txn' = [txn EXCEPT !.view = InsertTransferAndApply(txn.view, l), !.todo = txn.todo \ {l}]
  BY DEF ApplyNextRow
<1>3. txn.view \in DB /\ l \in Log
  BY <1>1
<1>4. IsTransfer(l) /\ l \in txn.view.events /\ l \notin txn.view.applied
  BY <1>1 DEF TodoOK
<1> DEFINE v == InsertTransferAndApply(txn.view, l)
           td == txn.todo \ {l}
<1>5. v.events = txn.view.events /\ v.tokens = txn.view.tokens /\ v.applied = txn.view.applied \cup {l}
  BY <1>3, <1>4, ApplyStoredFields
<1>6. txn' = [txn EXCEPT !.view = v, !.todo = td]
  BY <1>2
<1> HIDE DEF v, td
<1>7. txn'.view = v /\ txn'.todo = td /\ txn'.owner = txn.owner
  BY <1>1, <1>6
<1> QED
  BY <1>1, <1>2, <1>3, <1>4, <1>5, <1>7 DEF v, td

LEMMA TodoStep ==
    ASSUME Shape, TodoOK, [Next]_vars
    PROVE  TodoOK'
<1>1. CASE UNCHANGED txn
  BY <1>1 DEF TodoOK
<1>2. CASE \E p \in Proc : txn' = OpenTxn(p, db)
  BY <1>2, OpenTodo DEF Shape, TypeOK
<1>3. CASE \E p \in Proc : \E rows \in SUBSET Log : txn' = OpenTxn(p, InsertRows(db, rows))
  <2>1. PICK p \in Proc, rows \in SUBSET Log : txn' = OpenTxn(p, InsertRows(db, rows))
    BY <1>3
  <2>2. InsertRows(db, rows) \in DB
    BY InsertRowsType DEF Shape, TypeOK
  <2> QED
    BY <2>1, <2>2, OpenTodo
<1>4. CASE \E p \in Proc : ApplyNextRow(p)
  BY <1>4, ApplyFacts DEF TodoOK
<1>5. CASE \E p \in Proc : Commit(p)
  BY <1>5 DEF Commit, TodoOK
<1>6. CASE txn' = NoTxn
  BY <1>6 DEF TodoOK
<1> QED
  BY <1>1, <1>2, <1>3, <1>4, <1>5, <1>6, StoreEffects DEF vars

Typed == Shape /\ TodoOK

(* The shape is an invariant. *)
THEOREM TypedInvariant == Spec => []Typed
<1>1. Init => Typed
  BY InitShape DEF Typed, TodoOK, Init
<1>2. Typed /\ [Next]_vars => Typed'
  BY ShapeStep, TodoStep DEF Typed
<1> QED
  BY <1>1, <1>2, PTL DEF Spec

(* Every variable has its type in every reachable state; no cursor, in the *)
(* table or in memory, is ever outside First .. MaxBlock.                  *)
THEOREM TypeCorrect == Spec => []TypeOK
<1>1. Typed => TypeOK
  BY DEF Typed, Shape
<1> QED
  BY <1>1, TypedInvariant, PTL

Exact(d) == HolderCountExact(d) /\ TransferCountExact(d)
Counted  == Exact(db) /\ (txn # NoTxn => Exact(txn.view))

(* Nothing is counted in the store an indexer starts with. *)
LEMMA InitCounted == Init => Counted
<1> SUFFICES ASSUME Init PROVE Counted
  OBVIOUS
<1>1. /\ db.events = {} /\ db.applied = {}
      /\ db.holders = [t \in Token |-> [a \in Account |-> 0]]
      /\ db.holderCount = [t \in Token |-> 0]
      /\ db.transferCount = [t \in Token |-> 0]
  BY DEF Init, InitStore, EmptyDB
<1>2. HolderCountExact(db)
  <2>1. ASSUME NEW t \in Token
        PROVE  {a \in Account : db.holders[t][a] > 0} = {}
    BY <1>1
  <2> QED
    BY <1>1, <2>1, FS_EmptySet DEF HolderCountExact
<1>3. TransferCountExact(db)
  <2>1. ASSUME NEW t \in Token
        PROVE  {l \in db.applied : l.token = t} = {}
    BY <1>1
  <2> QED
    BY <1>1, <2>1, FS_EmptySet DEF TransferCountExact
<1> QED
  BY <1>2, <1>3 DEF Counted, Exact, Init

(* Storing rows keeps a database exact. *)
LEMMA InsertExact ==
    ASSUME NEW d \in DB, Exact(d), NEW rows \in SUBSET Log
    PROVE  Exact(InsertRows(d, rows)) /\ InsertRows(d, rows) \in DB
BY InsertRowsCounts, InsertRowsType DEF Exact

LEMMA CountedStep ==
    ASSUME Typed, Counted, [Next]_vars
    PROVE  Counted'
<1>0. db \in DB /\ Shape /\ TodoOK
  BY DEF Typed, Shape, TypeOK
<1>1. CASE UNCHANGED <<db, txn>>
  BY <1>1 DEF Counted, Exact, HolderCountExact, TransferCountExact
<1>2. CASE \E t \in Token : db' = InsertToken(db, t) /\ UNCHANGED txn
  <2>1. PICK t \in Token : db' = InsertToken(db, t)
    BY <1>2
  <2>2. db' = [db EXCEPT !.tokens = db.tokens \cup {t}]
    BY <1>0, <2>1, InsertTokenType
  <2>3. /\ db'.events = db.events /\ db'.applied = db.applied /\ db'.holders = db.holders
        /\ db'.holderCount = db.holderCount /\ db'.transferCount = db.transferCount
    BY <1>0, <2>2 DEF DB
  <2>4. Exact(db')
    BY <2>3 DEF Counted, Exact, HolderCountExact, TransferCountExact
  <2>5. txn' = txn
    BY <1>2
  <2> QED
    BY <2>4, <2>5 DEF Counted, Exact, HolderCountExact, TransferCountExact
<1>3. CASE \E rows \in SUBSET Log : db' = InsertRows(db, rows) /\ UNCHANGED txn
  <2>1. Exact(db') /\ txn' = txn
    BY <1>0, <1>3, InsertExact DEF Counted
  <2> QED
    BY <2>1 DEF Counted, Exact, HolderCountExact, TransferCountExact
<1>4. ASSUME NEW p \in Proc, NEW view \in DB, Exact(view), db' = db, txn' = OpenTxn(p, view)
      PROVE  Counted'
  <2>1. txn'.view = view
    BY <1>4, OpenTxnType
  <2> QED
    BY <1>4, <2>1 DEF Counted, Exact, HolderCountExact, TransferCountExact
<1>5. CASE /\ UNCHANGED db
           /\ \E p \in Proc :
                 \/ txn' = OpenTxn(p, db)
                 \/ \E rows \in SUBSET Log : txn' = OpenTxn(p, InsertRows(db, rows))
  <2>1. PICK p \in Proc :
            \/ txn' = OpenTxn(p, db)
            \/ \E rows \in SUBSET Log : txn' = OpenTxn(p, InsertRows(db, rows))
    BY <1>5
  <2>2. CASE txn' = OpenTxn(p, db)
    BY <1>0, <1>4, <1>5, <2>2 DEF Counted
  <2>3. CASE \E rows \in SUBSET Log : txn' = OpenTxn(p, InsertRows(db, rows))
    <3>1. PICK rows \in SUBSET Log : txn' = OpenTxn(p, InsertRows(db, rows))
      BY <2>3
    <3>2. Exact(InsertRows(db, rows)) /\ InsertRows(db, rows) \in DB
      BY <1>0, InsertExact DEF Counted
    <3> QED
      BY <1>4, <1>5, <3>1, <3>2
  <2> QED
    BY <2>1, <2>2, <2>3
<1>6. CASE \E p \in Proc : ApplyNextRow(p)
  <2>1. PICK l \in txn.todo :
            /\ l \in Log /\ IsTransfer(l)
            /\ l \in txn.view.events /\ l \notin txn.view.applied
            /\ txn.view \in DB
            /\ txn'.view = InsertTransferAndApply(txn.view, l)
            /\ txn # NoTxn
    BY <1>0, <1>6, ApplyFacts
  <2>2. HolderCountExact(txn.view) /\ TransferCountExact(txn.view)
    BY <2>1 DEF Counted, Exact
  <2>3. HolderCountExact(InsertTransferAndApply(txn.view, l))
    BY <2>1, <2>2, ApplyStoredHolders
  <2>4. TransferCountExact(InsertTransferAndApply(txn.view, l))
    BY <2>1, <2>2, ApplyStoredCounts
  <2>5. Exact(txn'.view)
    BY <2>1, <2>3, <2>4 DEF Exact
  <2>6. db' = db
    BY <1>6 DEF ApplyNextRow
  <2> QED
    BY <2>5, <2>6 DEF Counted, Exact, HolderCountExact, TransferCountExact
<1>7. CASE \E p \in Proc : Commit(p)
  <2>1. db' = txn.view /\ txn' = NoTxn /\ txn # NoTxn
    BY <1>0, <1>7, TxnRecord DEF Commit
  <2> QED
    BY <2>1 DEF Counted, Exact, HolderCountExact, TransferCountExact
<1>8. CASE UNCHANGED db /\ txn' = NoTxn
  BY <1>8 DEF Counted, Exact, HolderCountExact, TransferCountExact
<1> QED
  BY <1>0, <1>1, <1>2, <1>3, <1>5, <1>6, <1>7, <1>8, StoreEffects DEF vars

THEOREM CountedInvariant == Spec => []Counted
<1>1. Typed /\ Counted /\ [Next]_vars => Counted'
  BY CountedStep
<1> QED
  BY <1>1, InitCounted, TypedInvariant, PTL DEF Spec

(* holder_count is the number of holder rows of its token, for every       *)
(* sequence of live rows, replays, failures and crashes and whatever the   *)
(* endpoints leave out.                                                    *)
THEOREM HolderCountsCorrect == Spec => []HoldersCounted
<1>1. Counted => HoldersCounted
  BY DEF Counted, Exact, HoldersCounted
<1> QED
  BY <1>1, CountedInvariant, PTL

(* transfer_count is the number of applied Transfers, each stored: none is *)
(* counted twice, by a replay, a restart or another process.               *)
THEOREM TransferCountsCorrect == Spec => []TransfersCounted
<1>1. Counted => TransfersCounted
  BY DEF Counted, Exact, TransfersCounted
<1> QED
  BY <1>1, CountedInvariant, PTL

-----------------------------------------------------------------------------
(* Layer 3: only confirmed logs are stored.                                *)

RootedDB(d) ==
    /\ \A l \in d.events : Final(l)
    /\ \A t \in d.tokens :
          \E l \in chain : Final(l) /\ l.kind = "Created" /\ l.token = t

Rooted ==
    /\ RootedDB(db)
    /\ txn # NoTxn => RootedDB(txn.view)
    /\ \A p \in Proc : \A l \in mem[p].todo : Final(l) /\ l.kind = "Created"

(* What the network does never unconfirms a log. *)
LEMMA FinalStep ==
    ASSUME Shape, [Next]_vars
    PROVE  \A l : Final(l) => Final(l)'
<1>1. CASE Mine
  <2>1. chain \subseteq Log /\ head \in Int /\ head' = head + 1 /\ chain' = chain
    BY <1>1, ForkAssumption, Constants DEF Mine, Shape, TypeOK
  <2> QED
    BY <2>1, LogAssumption, Constants DEF Final
<1>2. CASE Reorg
  BY <1>2 DEF Reorg, Final
<1>3. CASE UNCHANGED <<chain, head>>
  BY <1>3 DEF Final
<1>4. CASE Trouble
  BY <1>3, <1>4 DEF Trouble, Fail, Crash
<1>5. ASSUME NEW p \in Proc, Step(p)
      PROVE  UNCHANGED <<chain, head>>
  BY <1>5 DEF Step, Start, Tick, FactoryFetch, InsertNextToken, SetFactoryCursor,
     PublishCursor, FactoryDone, RangeBegin, TopicReply, AddressRequired, BatchReply,
     BatchesDone, ApplyNextRow, Commit, SetStreamCursor, LiveDone, TokenDone
<1> QED
  BY <1>1, <1>2, <1>3, <1>4, <1>5 DEF Next, vars

(* The list of tokens to insert only shrinks, or is fetched anew. *)
LEMMA TodoEffects ==
    ASSUME Shape, Next, NEW q \in Proc
    PROVE  \/ mem'[q].todo \subseteq mem[q].todo
           \/ \A l \in mem'[q].todo : Final(l) /\ l.kind = "Created"
<1>0. mem \in [Proc -> Mem]
  BY DEF Shape, TypeOK
<1>1. CASE Mine \/ Reorg
  BY <1>1 DEF Mine, Reorg
<1>2. ASSUME NEW p \in Proc, NEW n, mem' = [mem EXCEPT ![p] = n],
             n.todo \subseteq mem[p].todo
      PROVE  mem'[q].todo \subseteq mem[q].todo
  BY <1>0, <1>2
<1>3. ASSUME NEW p \in Proc
      PROVE  Down.todo = {} /\ Idle(mem[p]).todo = {}
             /\ Idle([mem[p] EXCEPT !.T = mem[p].cur]).todo = {}
  BY DownFields DEF Idle, Down
<1>4. CASE Trouble
  <2>1. PICK p \in Proc : Fail(p) \/ Crash(p)
    BY <1>4 DEF Trouble
  <2>2. \/ mem' = [mem EXCEPT ![p] = Down]
        \/ mem' = [mem EXCEPT ![p] = Idle(mem[p])]
    BY <2>1 DEF Fail, Crash
  <2> QED
    BY <1>2, <1>3, <2>2
<1>5. ASSUME NEW p \in Proc, Step(p)
      PROVE  \/ mem'[q].todo \subseteq mem[q].todo
             \/ \A l \in mem'[q].todo : Final(l) /\ l.kind = "Created"
  <2> DEFINE m == mem[p]
  <2>0. m \in Mem
    BY <1>0
  <2>1. CASE Start(p)
    <3>1. PICK s \in SafeHead :
            mem' = [mem EXCEPT ![p] =
              [Down EXCEPT !.pc = "drain", !.boot = TRUE, !.safe = s,
                 !.F = Cursor("factory", Cursor("cursor", First)),
                 !.cur = Cursor("factory", Cursor("cursor", First)),
                 !.T = Cursor("token", First),
                 !.L = Cursor("live", Greatest(First, s - LiveLookback))]]
      BY <2>1 DEF Start
    <3> DEFINE n == [Down EXCEPT !.pc = "drain", !.boot = TRUE, !.safe = s,
                       !.F = Cursor("factory", Cursor("cursor", First)),
                       !.cur = Cursor("factory", Cursor("cursor", First)),
                       !.T = Cursor("token", First),
                       !.L = Cursor("live", Greatest(First, s - LiveLookback))]
    <3>2. n.todo = {}
      BY DEF Down
    <3>3. mem' = [mem EXCEPT ![p] = n]
      BY <3>1
    <3> HIDE DEF n
    <3> QED
      BY <1>2, <3>2, <3>3
  <2>2. CASE Tick(p) \/ RangeBegin(p) \/ AddressRequired(p) \/ LiveDone(p)
             \/ PublishCursor(p) \/ SetFactoryCursor(p) \/ SetStreamCursor(p)
    <3>1. CASE Tick(p)
      BY <1>0, <2>0, <3>1 DEF Tick, Mem
    <3>2. CASE RangeBegin(p)
      BY <1>0, <2>0, <3>2 DEF RangeBegin, Mem
    <3>3. CASE AddressRequired(p)
      BY <1>0, <2>0, <3>3 DEF AddressRequired, Mem
    <3>4. CASE LiveDone(p)
      BY <1>0, <2>0, <3>4 DEF LiveDone, Mem
    <3>5. CASE PublishCursor(p)
      BY <1>0, <2>0, <3>5 DEF PublishCursor, Mem
    <3>6. CASE SetFactoryCursor(p)
      BY <1>0, <2>0, <3>6 DEF SetFactoryCursor, Mem
    <3>7. CASE SetStreamCursor(p)
      BY <1>0, <2>0, <3>7 DEF SetStreamCursor, Mem
    <3> QED
      BY <2>2, <3>1, <3>2, <3>3, <3>4, <3>5, <3>6, <3>7
  <2>3. CASE TopicReply(p) \/ BatchReply(p) \/ BatchesDone(p) \/ Commit(p) \/ FactoryDone(p)
    <3>1. CASE TopicReply(p)
      <4>1. \E pc \in PC : mem' = [mem EXCEPT ![p] = [m EXCEPT !.pc = pc, !.addrs = {}]]
        BY <3>1 DEF TopicReply, PC
      <4>2. PICK pc \in PC : mem' = [mem EXCEPT ![p] = [m EXCEPT !.pc = pc, !.addrs = {}]]
        BY <4>1
      <4> QED
        BY <1>0, <2>0, <4>2 DEF Mem
    <3>2. CASE BatchReply(p)
      BY <1>0, <2>0, <3>2 DEF BatchReply, Mem
    <3>3. CASE BatchesDone(p)
      BY <1>0, <2>0, <3>3 DEF BatchesDone, Mem
    <3>4. CASE Commit(p)
      BY <1>0, <2>0, <3>4 DEF Commit, Mem
    <3>5. CASE FactoryDone(p)
      BY <1>0, <2>0, <3>5 DEF FactoryDone, Mem
    <3> QED
      BY <2>3, <3>1, <3>2, <3>3, <3>4, <3>5
  <2>4. CASE ApplyNextRow(p)
    BY <2>4 DEF ApplyNextRow
  <2>5. CASE TokenDone(p)
    BY <1>2, <1>3, <2>5 DEF TokenDone
  <2>6. CASE InsertNextToken(p)
    BY <1>0, <2>6 DEF InsertNextToken, Mem
  <2>7. CASE FactoryFetch(p)
    <3> DEFINE to == Least(m.cur + Chunk, m.safe)
    <3>1. /\ m.pc = "drain" /\ m.cur < m.safe /\ MemBound(m) /\ head \in Nat
          /\ chain \in Fork
      BY <2>7, Constants DEF FactoryFetch, In, Shape, TypeOK
    <3>2. to \in Int /\ to <= head - Confirmations
      BY <2>0, <3>1, Constants DEF Least, MemBound, Mem
    <3> DEFINE new == {l \in LogsIn(m.cur + 1, to) : l.kind = "Created"}
               n == [m EXCEPT !.pc = "tokens", !.to = to, !.todo = new]
    <3>3. mem' = [mem EXCEPT ![p] = n] /\ n.todo = new
      BY <2>0, <2>7 DEF FactoryFetch, Mem
    <3>5. \A l \in new : l \in chain /\ l.block \in (m.cur + 1) .. to /\ l.kind = "Created"
      BY DEF LogsIn
    <3> HIDE DEF to, n, new
    <3>4. \A l \in n.todo : Final(l) /\ l.kind = "Created"
      <4> SUFFICES ASSUME NEW l \in n.todo PROVE Final(l) /\ l.kind = "Created"
        OBVIOUS
      <4>1. l \in chain /\ l.block \in (m.cur + 1) .. to /\ l.kind = "Created"
        BY <3>3, <3>5
      <4>2. l.block \in Int /\ m.cur \in Int
        BY <2>0, <3>1, <4>1, ForkAssumption, LogAssumption DEF Mem
      <4> QED
        BY <3>1, <3>2, <4>1, <4>2, Constants DEF Final
    <3> QED
      BY <1>0, <3>3, <3>4
  <2> QED
    BY <1>5, <2>1, <2>2, <2>3, <2>4, <2>5, <2>6, <2>7 DEF Step
<1> QED
  BY <1>1, <1>4, <1>5 DEF Next

(* Contents that are confirmed before a step are confirmed after it. *)
RootedNext(d) ==
    /\ \A l \in d.events : Final(l)'
    /\ \A t \in d.tokens :
          \E l \in chain' : Final(l)' /\ l.kind = "Created" /\ l.token = t

LEMMA RootedStays ==
    ASSUME Shape, [Next]_vars, NEW d, RootedDB(d)
    PROVE  RootedNext(d)
<1>1. \A l : Final(l) => Final(l)'
  BY FinalStep
<1>2. \A l : Final(l)' => l \in chain'
  BY DEF Final
<1> QED
  BY <1>1, <1>2 DEF RootedDB, RootedNext

LEMMA InitRooted == Init => Rooted
<1> SUFFICES ASSUME Init PROVE Rooted
  OBVIOUS
<1>1. PICK c \in LegacyCursors :
        /\ c = Unset \/ c <= head - Confirmations
        /\ db = [EmptyDB EXCEPT !.tokens =
                    {l.token : l \in {k \in chain : k.kind = "Created" /\ k.block <= c}}]
  BY DEF Init, InitStore
<1>2. chain \in Fork /\ head \in Int /\ c \in Int /\ Confirmations \in Int
  BY Constants, LegacyAssumption DEF Init, Unset
<1>3. db.events = {} /\ db.tokens = {l.token : l \in {k \in chain : k.kind = "Created" /\ k.block <= c}}
  BY <1>1 DEF EmptyDB
<1>4. ASSUME NEW t \in db.tokens
      PROVE  \E l \in chain : Final(l) /\ l.kind = "Created" /\ l.token = t
  <2>1. PICK l \in chain : l.kind = "Created" /\ l.block <= c /\ l.token = t
    BY <1>3, <1>4
  <2>2. l.block \in Nat /\ l.block > 0
    BY <1>2, ForkAssumption, LogAssumption, Constants
  <2>3. Final(l)
    BY <1>1, <1>2, <2>1, <2>2 DEF Final, Unset
  <2> QED
    BY <2>1, <2>3
<1>5. \A p \in Proc : mem[p].todo = {}
  BY DownFields DEF Init
<1>6. txn = NoTxn
  BY DEF Init
<1> QED
  BY <1>3, <1>4, <1>5, <1>6 DEF Rooted, RootedDB

(* Inserting confirmed rows, or the token of a confirmed deployment. *)
LEMMA RootedInsert ==
    ASSUME NEW d \in DB, RootedDB(d), NEW rows \in SUBSET Log, \A l \in rows : Final(l)
    PROVE  RootedDB(InsertRows(d, rows))
<1>1. InsertRows(d, rows).events = rows \cup d.events /\ InsertRows(d, rows).tokens = d.tokens
  BY DEF InsertRows, DB
<1> QED
  BY <1>1 DEF RootedDB

LEMMA RootedToken ==
    ASSUME NEW d \in DB, RootedDB(d), NEW l, Final(l), l.kind = "Created"
    PROVE  RootedDB(InsertToken(d, l.token))
<1>1. InsertToken(d, l.token).events = d.events
      /\ InsertToken(d, l.token).tokens = d.tokens \cup {l.token}
  BY DEF InsertToken, DB
<1>2. l \in chain
  BY DEF Final
<1> QED
  BY <1>1, <1>2 DEF RootedDB

LEMMA RootedStep ==
    ASSUME Shape, TodoOK, Rooted, [Next]_vars
    PROVE  Rooted'
<1>0. db \in DB
  BY DEF Shape, TypeOK
<1>1. \A l : Final(l) => Final(l)'
  BY FinalStep
<1>2. \A p \in Proc : \A l \in mem'[p].todo : Final(l)' /\ l.kind = "Created"
  <2>1. CASE UNCHANGED vars
    BY <1>1, <2>1 DEF vars, Rooted
  <2>2. CASE Next
    <3> SUFFICES ASSUME NEW p \in Proc, NEW l \in mem'[p].todo
                 PROVE  Final(l)' /\ l.kind = "Created"
      OBVIOUS
    <3>1. \A k \in mem[p].todo : Final(k) /\ k.kind = "Created"
      BY DEF Rooted
    <3>2. Final(l) /\ l.kind = "Created"
      BY <2>2, <3>1, TodoEffects
    <3> QED
      BY <1>1, <3>2
  <2> QED
    BY <2>1, <2>2
<1>3. \A d : RootedDB(d) => RootedNext(d)
  BY RootedStays
<1>4. ASSUME NEW d, RootedDB(d), db' = d PROVE RootedDB(db)'
  BY <1>3, <1>4 DEF RootedDB, RootedNext
<1>5. ASSUME NEW d, RootedDB(d), txn'.view = d PROVE RootedDB(txn.view)'
  BY <1>3, <1>5 DEF RootedDB, RootedNext
<1>6. RootedDB(db)' /\ (txn # NoTxn => RootedDB(txn.view))'
  <2>0. RootedDB(db) /\ (txn # NoTxn => RootedDB(txn.view))
    BY DEF Rooted
  <2>1. CASE UNCHANGED <<db, txn>>
    BY <1>4, <1>5, <2>0, <2>1
  <2>2. CASE \E t \in Token : /\ db' = InsertToken(db, t) /\ UNCHANGED txn
                             /\ \E q \in Proc : \E l \in mem[q].todo : t = l.token
    <3>0. PICK q \in Proc :
            \E l \in mem[q].todo : db' = InsertToken(db, l.token) /\ UNCHANGED txn
      BY <2>2
    <3>1. PICK l \in mem[q].todo : db' = InsertToken(db, l.token) /\ UNCHANGED txn
      BY <3>0
    <3>2. Final(l) /\ l.kind = "Created"
      BY DEF Rooted
    <3>3. RootedDB(InsertToken(db, l.token))
      BY <1>0, <2>0, <3>2, RootedToken
    <3> QED
      BY <1>4, <1>5, <2>0, <3>1, <3>3
  <2>3. CASE \E rows \in SUBSET Log : /\ db' = InsertRows(db, rows) /\ UNCHANGED txn
                                    /\ \A l \in rows : Final(l)
    <3>1. PICK rows \in SUBSET Log : /\ db' = InsertRows(db, rows) /\ UNCHANGED txn
                                    /\ \A l \in rows : Final(l)
      BY <2>3
    <3>2. RootedDB(InsertRows(db, rows))
      BY <1>0, <2>0, <3>1, RootedInsert
    <3> QED
      BY <1>4, <1>5, <2>0, <3>1, <3>2
  <2>4. ASSUME NEW p \in Proc, txn' = OpenTxn(p, db), UNCHANGED db
        PROVE  RootedDB(db)' /\ RootedDB(txn.view)'
    <3>1. txn'.view = db
      BY <2>4 DEF OpenTxn
    <3> QED
      BY <1>4, <1>5, <2>0, <2>4, <3>1
  <2>5. ASSUME NEW p \in Proc, NEW rows \in SUBSET Log, UNCHANGED db,
               txn' = OpenTxn(p, InsertRows(db, rows)), \A l \in rows : Final(l)
        PROVE  RootedDB(db)' /\ RootedDB(txn.view)'
    <3>1. txn'.view = InsertRows(db, rows)
      BY <2>5 DEF OpenTxn
    <3>2. RootedDB(InsertRows(db, rows))
      BY <1>0, <2>0, <2>5, RootedInsert
    <3> QED
      BY <1>4, <1>5, <2>0, <2>5, <3>1, <3>2
  <2>6. ASSUME NEW p \in Proc, ApplyNextRow(p)
        PROVE  RootedDB(db)' /\ RootedDB(txn.view)'
    <3>1. txn'.view.events = txn.view.events /\ txn'.view.tokens = txn.view.tokens
          /\ txn # NoTxn
      BY <2>6, ApplyFacts
    <3>2. RootedDB(txn.view)
      BY <2>0, <3>1
    <3>3. RootedDB(txn'.view)
      BY <3>1, <3>2 DEF RootedDB
    <3>4. UNCHANGED db
      BY <2>6 DEF ApplyNextRow
    <3> QED
      BY <1>4, <1>5, <2>0, <3>3, <3>4
  <2>7. ASSUME NEW p \in Proc, Commit(p)
        PROVE  RootedDB(db)' /\ txn' = NoTxn
    <3>1. db' = txn.view /\ txn' = NoTxn /\ txn # NoTxn
      BY <2>7, TxnRecord DEF Commit
    <3> QED
      BY <1>4, <2>0, <3>1
  <2>8. CASE UNCHANGED db /\ txn' = NoTxn
    BY <1>4, <2>0, <2>8
  <2> QED
    BY <2>1, <2>2, <2>3, <2>4, <2>5, <2>6, <2>7, <2>8, StoreEffects DEF vars
<1> QED
  BY <1>2, <1>6 DEF Rooted

THEOREM RootedInvariant == Spec => []Rooted
<1>1. Typed /\ Rooted /\ [Next]_vars => Rooted'
  BY RootedStep DEF Typed
<1> QED
  BY <1>1, InitRooted, TypedInvariant, PTL DEF Spec

(* Whatever an endpoint says its head is and whichever fork the network    *)
(* settles on, everything stored is on the chain and confirmed.            *)
THEOREM StoredIsCanonical == Spec => []CanonicalOnly
<1>1. Rooted => CanonicalOnly
  BY DEF Rooted, RootedDB, CanonicalOnly
<1> QED
  BY <1>1, RootedInvariant, PTL

-----------------------------------------------------------------------------
(* What the cursors vouch for.                                             *)

(* The deployments, or the events, of chain C up to block c are in d. *)
Listed(C, d, c) == \A l \in C : l.kind = "Created" /\ l.block <= c => l.token \in d.tokens
Stored(C, d, c) ==
    \A l \in C : l.kind # "Created" /\ l.block <= c =>
        l \in d.events /\ (IsTransfer(l) => l \in d.applied)

InTo(m, l) == m.cur < l.block /\ l.block <= m.to

StreamOK(m) ==
    /\ m.pc \in {"down", "idle", "tokens", "publish"} => m.stream = "factory"
    /\ m.pc \in {"logs", "batch", "cursor"} => m.stream # "factory"
    /\ m.pc = "apply" => m.stream = "token"

Streamed == \A p \in Proc : StreamOK(mem[p])

FactoryCov(C, d, m) ==
    /\ Listed(C, d, m.cur)
    /\ m.pc = "tokens" =>
          \A l \in C : l.kind = "Created" /\ InTo(m, l) => l.token \in d.tokens \/ l \in m.todo
    /\ m.pc = "publish" => Listed(C, d, m.to)

TokenCov(C, d, m) ==
    /\ Stored(C, d, m.cur)
    /\ m.pc = "logs" => \A l \in C : l.kind # "Created" /\ InTo(m, l) => l.token \in m.addrs
    /\ m.pc = "batch" =>
          \A l \in C : l.kind # "Created" /\ InTo(m, l) => l \in d.events \/ l.token \in m.addrs
    /\ m.pc = "cursor" => Stored(C, d, m.to)

(* What the memory m of a process knows to be in d. *)
MemCov(C, d, m) ==
    m.pc # "down" =>
        /\ Listed(C, d, m.F) /\ Stored(C, d, m.T)
        /\ m.pc # "idle" /\ m.stream = "factory" => FactoryCov(C, d, m)
        /\ m.pc # "idle" /\ m.stream = "token" => TokenCov(C, d, m)

(* Nothing is taken away. *)
Grows(d, e) == d.tokens \subseteq e.tokens /\ d.events \subseteq e.events /\ d.applied \subseteq e.applied

(* What the open transaction x adds to d, for the range of memory m. *)
TxnCov(C, d, x, m) ==
    /\ Grows(d, x.view)
    /\ \A l \in C : l.kind # "Created" /\ InTo(m, l) =>
          l \in x.view.events /\ (IsTransfer(l) => l \in x.view.applied \/ l \in x.todo)

MetaCov == Listed(chain, db, meta.factory) /\ Listed(chain, db, meta.cursor) /\ Stored(chain, db, meta.token)

Covered ==
    /\ \A p \in Proc : MemCov(chain, db, mem[p])
    /\ txn # NoTxn => TxnCov(chain, db, txn, mem[txn.owner])
    /\ MetaCov

OrderedIn(d) ==
    \A k \in d.applied, l \in chain : IsTransfer(l) /\ Before(l, k) => l \in d.applied

(* What is left to apply is in the range of its process. *)
Ranged == txn # NoTxn => \A l \in txn.todo : InTo(mem[txn.owner], l)

Ordered == Ranged /\ OrderedIn(db) /\ (txn # NoTxn => OrderedIn(txn.view))

-----------------------------------------------------------------------------
(* The pieces of a step.                                                   *)

(* The logs of a chain have a position. *)
LEMMA ChainLogs ==
    ASSUME NEW C \in Fork
    PROVE  /\ C \subseteq Log
           /\ \A l \in C : l.block \in Nat /\ l.block >= StartBlock /\ l.block > First
<1>1. C \subseteq Log /\ \A l \in C : l.block \in StartBlock .. MaxBlock
  BY ForkAssumption
<1> QED
  BY <1>1, LogAssumption, Constants DEF First

(* A fork never brings a log at or below a cursor. *)
Solid(C, D, h) == \A l \in D : l.block <= h => l \in C

LEMMA ChainKept ==
    ASSUME Shape, [Next]_vars
    PROVE  /\ chain \in Fork /\ chain' \in Fork
           /\ Solid(chain, chain', head - Confirmations)
<1>1. chain \in Fork
  BY DEF Shape, TypeOK
<1>2. CASE Reorg
  BY <1>1, <1>2, ForkAssumption DEF Reorg, Solid
<1>3. CASE chain' = chain
  BY <1>1, <1>3 DEF Solid
<1>4. CASE Mine \/ Trouble \/ UNCHANGED vars
  BY <1>3, <1>4 DEF Mine, Trouble, Fail, Crash, vars
<1>5. ASSUME NEW p \in Proc, Step(p)
      PROVE  chain' = chain
  BY <1>5 DEF Step, Start, Tick, FactoryFetch, InsertNextToken, SetFactoryCursor,
     PublishCursor, FactoryDone, RangeBegin, TopicReply, AddressRequired, BatchReply,
     BatchesDone, ApplyNextRow, Commit, SetStreamCursor, LiveDone, TokenDone
<1> QED
  BY <1>2, <1>3, <1>4, <1>5 DEF Next

(* Either the network moves, or one process does. *)
LEMMA OneMoves ==
    ASSUME Shape, Next
    PROVE  \/ (Mine \/ Reorg) /\ UNCHANGED <<db, meta, txn, mem>>
           \/ \E p \in Proc : /\ Step(p) \/ Fail(p) \/ Crash(p)
                             /\ UNCHANGED <<chain, head>>
                             /\ \E n : mem' = [mem EXCEPT ![p] = n]
<1>1. CASE Mine \/ Reorg
  BY <1>1 DEF Mine, Reorg
<1>2. ASSUME NEW p \in Proc, Fail(p) \/ Crash(p)
      PROVE  UNCHANGED <<chain, head>> /\ \E n : mem' = [mem EXCEPT ![p] = n]
  BY <1>2 DEF Fail, Crash
<1>3. ASSUME NEW p \in Proc, Step(p)
      PROVE  UNCHANGED <<chain, head>> /\ \E n : mem' = [mem EXCEPT ![p] = n]
  <2>1. CASE Start(p) \/ Tick(p) \/ FactoryFetch(p)
    BY <2>1 DEF Start, Tick, FactoryFetch
  <2>2. CASE InsertNextToken(p) \/ SetFactoryCursor(p) \/ PublishCursor(p)
    BY <2>2 DEF InsertNextToken, SetFactoryCursor, PublishCursor
  <2>3. CASE FactoryDone(p)
    BY <2>3 DEF FactoryDone
  <2>4. CASE RangeBegin(p) \/ AddressRequired(p) \/ LiveDone(p) \/ TokenDone(p)
    BY <2>4 DEF RangeBegin, AddressRequired, LiveDone, TokenDone
  <2>5. CASE TopicReply(p) \/ BatchReply(p) \/ BatchesDone(p)
    BY <2>5 DEF TopicReply, BatchReply, BatchesDone
  <2>6. CASE ApplyNextRow(p)
    <3>1. mem = [mem EXCEPT ![p] = mem[p]]
      BY DEF Shape, TypeOK
    <3> QED
      BY <2>6, <3>1 DEF ApplyNextRow
  <2>7. CASE Commit(p) \/ SetStreamCursor(p)
    BY <2>7 DEF Commit, SetStreamCursor
  <2> QED
    BY <1>3, <2>1, <2>2, <2>3, <2>4, <2>5, <2>6, <2>7 DEF Step
<1> QED
  BY <1>1, <1>2, <1>3 DEF Next, Trouble

(* What a process knows stays true while the store grows and the network   *)
(* moves.                                                                  *)
LEMMA KeepMem ==
    ASSUME NEW C \in Fork, NEW D \in Fork, NEW d, NEW e, NEW m \in Mem, NEW h \in Int,
           Solid(C, D, h), Grows(d, e), MemCov(C, d, m),
           m.pc # "down" =>
              /\ \A c \in {m.F, m.T} : c = First \/ c <= h
              /\ m.pc # "idle" => m.cur = First \/ m.cur <= h
              /\ m.pc \in InRange => m.to <= h
    PROVE  MemCov(D, e, m)
<1>1. ASSUME NEW c \in Int, c = First \/ c <= h, NEW l \in D, l.block <= c
      PROVE  l \in C
  BY <1>1, ChainLogs, Constants DEF Solid
<1>2. m.F \in Int /\ m.T \in Int /\ m.cur \in Int /\ m.to \in Int
  BY DEF Mem
<1>3. ASSUME NEW c \in Int, c = First \/ c <= h
      PROVE  /\ Listed(C, d, c) => Listed(D, e, c)
             /\ Stored(C, d, c) => Stored(D, e, c)
  BY <1>1, <1>3 DEF Listed, Stored, Grows
<1>4. ASSUME m.pc \in InRange, NEW l \in D, InTo(m, l)
      PROVE  l \in C
  BY <1>1, <1>2, <1>4 DEF InTo, InRange
<1>5. ASSUME m.pc # "down", m.pc # "idle", m.stream = "factory", FactoryCov(C, d, m)
      PROVE  FactoryCov(D, e, m)
  <2>1. Listed(D, e, m.cur)
    BY <1>2, <1>3, <1>5 DEF FactoryCov
  <2>2. m.pc = "tokens" =>
          \A l \in D : l.kind = "Created" /\ InTo(m, l) => l.token \in e.tokens \/ l \in m.todo
    BY <1>4, <1>5 DEF FactoryCov, Grows, InRange
  <2>3. m.pc = "publish" => Listed(D, e, m.to)
    BY <1>2, <1>3, <1>5 DEF FactoryCov, InRange
  <2> QED
    BY <2>1, <2>2, <2>3 DEF FactoryCov
<1>6. ASSUME m.pc # "down", m.pc # "idle", m.stream = "token", TokenCov(C, d, m)
      PROVE  TokenCov(D, e, m)
  <2>1. Stored(D, e, m.cur)
    BY <1>2, <1>3, <1>6 DEF TokenCov
  <2>2. m.pc = "logs" => \A l \in D : l.kind # "Created" /\ InTo(m, l) => l.token \in m.addrs
    BY <1>4, <1>6 DEF TokenCov, InRange
  <2>3. m.pc = "batch" =>
          \A l \in D : l.kind # "Created" /\ InTo(m, l) => l \in e.events \/ l.token \in m.addrs
    BY <1>4, <1>6 DEF TokenCov, InRange, Grows
  <2>4. m.pc = "cursor" => Stored(D, e, m.to)
    BY <1>2, <1>3, <1>6 DEF TokenCov, InRange
  <2> QED
    BY <2>1, <2>2, <2>3, <2>4 DEF TokenCov
<1> QED
  BY <1>2, <1>3, <1>5, <1>6 DEF MemCov

(* The same from the invariants, for process q. *)
LEMMA KeepProcess ==
    ASSUME Shape, [Next]_vars, NEW q \in Proc, MemCov(chain, db, mem[q]), Grows(db, db')
    PROVE  MemCov(chain', db', mem[q])
<1> DEFINE m == mem[q]
           h == head - Confirmations
<1>1. m \in Mem /\ MemBound(m) /\ h \in Int
  BY Constants DEF Shape, TypeOK
<1>2. m.pc # "down" =>
              /\ \A c \in {m.F, m.T} : c = First \/ c <= h
              /\ m.pc # "idle" => m.cur = First \/ m.cur <= h
              /\ m.pc \in InRange => m.to <= h
  BY <1>1 DEF MemBound, Reached
<1>3. chain \in Fork /\ chain' \in Fork /\ Solid(chain, chain', h)
  BY ChainKept
<1> HIDE DEF m, h
<1>4. MemCov(chain, db, m)
  BY DEF m
<1>5. MemCov(chain', db', m)
  BY <1>1, <1>2, <1>3, <1>4, KeepMem
<1> QED
  BY <1>5 DEF m

-----------------------------------------------------------------------------
(* Which stream a process is in.                                           *)

LEMMA StreamedStep ==
    ASSUME Shape, Streamed, [Next]_vars
    PROVE  Streamed'
<1>0. mem \in [Proc -> Mem]
  BY DEF Shape, TypeOK
<1>1. ASSUME NEW p \in Proc, NEW n, mem' = [mem EXCEPT ![p] = n], StreamOK(n)
      PROVE  Streamed'
  <2>1. \A q \in Proc : mem'[q] = IF q = p THEN n ELSE mem[q]
    BY <1>0, <1>1
  <2>2. \A q \in Proc : StreamOK(mem'[q])
    BY <1>1, <2>1 DEF Streamed
  <2> QED
    BY <2>2 DEF Streamed, StreamOK
<1>2. CASE mem' = mem
  BY <1>2 DEF Streamed, StreamOK
<1>3. StreamOK(Down) /\ \A m \in Mem : StreamOK(Idle(m))
  BY DownFields, IdleFields DEF StreamOK
<1>4. ASSUME NEW p \in Proc, Fail(p) \/ Crash(p)
      PROVE  Streamed'
  <2>1. mem' = [mem EXCEPT ![p] = Down] \/ mem' = [mem EXCEPT ![p] = Idle(mem[p])]
    BY <1>4 DEF Fail, Crash
  <2> QED
    BY <1>0, <1>1, <1>3, <2>1
<1>5. ASSUME NEW p \in Proc, Step(p)
      PROVE  Streamed'
  <2> DEFINE m == mem[p]
  <2>0. m \in Mem /\ StreamOK(m)
    BY <1>0 DEF Streamed
  <2>1. CASE Start(p)
    <3>1. PICK s, F, T, L :
            mem' = [mem EXCEPT ![p] =
              [Down EXCEPT !.pc = "drain", !.boot = TRUE, !.safe = s,
                 !.F = F, !.cur = F, !.T = T, !.L = L]]
      BY <2>1 DEF Start
    <3> DEFINE n == [Down EXCEPT !.pc = "drain", !.boot = TRUE, !.safe = s,
                       !.F = F, !.cur = F, !.T = T, !.L = L]
    <3>2. n.pc = "drain"
      BY DEF Down
    <3> HIDE DEF n
    <3>3. StreamOK(n)
      BY <3>2 DEF StreamOK
    <3> QED
      BY <1>1, <3>1, <3>3 DEF n
  <2>2. CASE Tick(p)
    <3>1. PICK s \in SafeHead :
            mem' = [mem EXCEPT ![p] = [m EXCEPT !.pc = "drain", !.safe = s, !.cur = m.F]]
      BY <2>2 DEF Tick
    <3>2. StreamOK([m EXCEPT !.pc = "drain", !.safe = s, !.cur = m.F])
      BY <2>0 DEF StreamOK, Mem
    <3> QED
      BY <1>1, <3>1, <3>2
  <2>3. CASE FactoryFetch(p)
    <3>1. PICK to, td : mem' = [mem EXCEPT ![p] = [m EXCEPT !.pc = "tokens", !.to = to, !.todo = td]]
      BY <2>3 DEF FactoryFetch
    <3>2. StreamOK([m EXCEPT !.pc = "tokens", !.to = to, !.todo = td])
      BY <2>0, <2>3 DEF StreamOK, Mem, FactoryFetch, In
    <3> QED
      BY <1>1, <3>1, <3>2
  <2>4. CASE InsertNextToken(p)
    <3>1. PICK td : mem' = [mem EXCEPT ![p] = [m EXCEPT !.todo = td]]
      BY <1>0, <2>4 DEF InsertNextToken
    <3>2. StreamOK([m EXCEPT !.todo = td])
      BY <2>0 DEF StreamOK, Mem
    <3> QED
      BY <1>1, <3>1, <3>2
  <2>5. CASE SetFactoryCursor(p)
    <3>1. mem' = [mem EXCEPT ![p] = [m EXCEPT !.pc = "publish"]]
      BY <1>0, <2>5 DEF SetFactoryCursor
    <3>2. StreamOK([m EXCEPT !.pc = "publish"])
      BY <2>0, <2>5 DEF StreamOK, Mem, SetFactoryCursor, At
    <3> QED
      BY <1>1, <3>1, <3>2
  <2>6. CASE PublishCursor(p)
    <3>1. mem' = [mem EXCEPT ![p] = [m EXCEPT !.pc = "drain", !.cur = m.to]]
      BY <2>6 DEF PublishCursor
    <3>2. StreamOK([m EXCEPT !.pc = "drain", !.cur = m.to])
      BY <2>0 DEF StreamOK, Mem
    <3> QED
      BY <1>1, <3>1, <3>2
  <2>7. CASE FactoryDone(p)
    <3>0. PICK s \in {"token", "live"} : \E c :
            mem' = [mem EXCEPT ![p] = [m EXCEPT !.F = m.cur, !.stream = s, !.cur = c]]
      BY <2>7 DEF FactoryDone
    <3>1. PICK c :
            mem' = [mem EXCEPT ![p] = [m EXCEPT !.F = m.cur, !.stream = s, !.cur = c]]
      BY <3>0
    <3>2. StreamOK([m EXCEPT !.F = m.cur, !.stream = s, !.cur = c])
      BY <2>0, <2>7 DEF StreamOK, Mem, FactoryDone, In
    <3> QED
      BY <1>1, <3>1, <3>2
  <2>8. CASE RangeBegin(p)
    <3>0. PICK pc \in {"cursor", "logs"} : \E to, a :
            mem' = [mem EXCEPT ![p] = [m EXCEPT !.pc = pc, !.to = to, !.addrs = a]]
      BY <2>8 DEF RangeBegin
    <3>1. PICK to, a :
            mem' = [mem EXCEPT ![p] = [m EXCEPT !.pc = pc, !.to = to, !.addrs = a]]
      BY <3>0
    <3>2. StreamOK([m EXCEPT !.pc = pc, !.to = to, !.addrs = a])
      BY <2>0, <2>8 DEF StreamOK, Mem, RangeBegin, HasRange
    <3> QED
      BY <1>1, <3>1, <3>2
  <2>9. CASE TopicReply(p)
    <3>1. PICK pc \in {"cursor", "apply"} :
            /\ mem' = [mem EXCEPT ![p] = [m EXCEPT !.pc = pc, !.addrs = {}]]
            /\ pc = "apply" => m.stream # "live"
      BY <2>9 DEF TopicReply
    <3>2. StreamOK([m EXCEPT !.pc = pc, !.addrs = {}])
      BY <2>0, <2>9, <3>1 DEF StreamOK, Mem, Stream, TopicReply, At
    <3> QED
      BY <1>1, <3>1, <3>2
  <2>10. CASE AddressRequired(p)
    <3>1. mem' = [mem EXCEPT ![p] = [m EXCEPT !.pc = "batch"]]
      BY <1>0, <2>10 DEF AddressRequired
    <3>2. StreamOK([m EXCEPT !.pc = "batch"])
      BY <2>0, <2>10 DEF StreamOK, Mem, AddressRequired, At
    <3> QED
      BY <1>1, <3>1, <3>2
  <2>11. CASE BatchReply(p)
    <3>1. PICK a : mem' = [mem EXCEPT ![p] = [m EXCEPT !.addrs = a]]
      BY <1>0, <2>11 DEF BatchReply
    <3>2. StreamOK([m EXCEPT !.addrs = a])
      BY <2>0 DEF StreamOK, Mem
    <3> QED
      BY <1>1, <3>1, <3>2
  <2>12. CASE BatchesDone(p)
    <3>1. PICK pc \in {"cursor", "apply"} :
            /\ mem' = [mem EXCEPT ![p] = [m EXCEPT !.pc = pc]]
            /\ pc = "apply" => m.stream # "live"
      BY <1>0, <2>12 DEF BatchesDone
    <3>2. StreamOK([m EXCEPT !.pc = pc])
      BY <2>0, <2>12, <3>1 DEF StreamOK, Mem, Stream, BatchesDone, At
    <3> QED
      BY <1>1, <3>1, <3>2
  <2>13. CASE ApplyNextRow(p)
    BY <1>2, <2>13 DEF ApplyNextRow
  <2>14. CASE Commit(p)
    <3>1. mem' = [mem EXCEPT ![p] = [m EXCEPT !.pc = "cursor"]]
      BY <1>0, <2>14 DEF Commit
    <3>2. StreamOK([m EXCEPT !.pc = "cursor"])
      BY <2>0, <2>14 DEF StreamOK, Mem, Commit, At
    <3> QED
      BY <1>1, <3>1, <3>2
  <2>15. CASE SetStreamCursor(p)
    <3>1. PICK r : mem' = [mem EXCEPT ![p] =
                     [m EXCEPT !.pc = "drain", !.cur = m.to, !.addrs = {}, !.ranges = r]]
      BY <2>15 DEF SetStreamCursor
    <3>2. StreamOK([m EXCEPT !.pc = "drain", !.cur = m.to, !.addrs = {}, !.ranges = r])
      BY <2>0 DEF StreamOK, Mem
    <3> QED
      BY <1>1, <3>1, <3>2
  <2>16. CASE LiveDone(p)
    <3>1. mem' = [mem EXCEPT ![p] = [m EXCEPT !.L = m.cur, !.stream = "token", !.cur = m.T]]
      BY <2>16 DEF LiveDone
    <3>2. StreamOK([m EXCEPT !.L = m.cur, !.stream = "token", !.cur = m.T])
      BY <2>0, <2>16 DEF StreamOK, Mem, LiveDone, In
    <3> QED
      BY <1>1, <3>1, <3>2
  <2>17. CASE TokenDone(p)
    <3>1. [m EXCEPT !.T = m.cur] \in Mem
      BY <2>0 DEF Mem
    <3>2. mem' = [mem EXCEPT ![p] = Down] \/ mem' = [mem EXCEPT ![p] = Idle([m EXCEPT !.T = m.cur])]
      BY <2>17 DEF TokenDone
    <3> QED
      BY <1>1, <1>3, <3>1, <3>2
  <2> QED
    BY <1>5, <2>1, <2>2, <2>3, <2>4, <2>5, <2>6, <2>7, <2>8, <2>9, <2>10, <2>11, <2>12,
       <2>13, <2>14, <2>15, <2>16, <2>17 DEF Step
<1> QED
  BY <1>2, <1>4, <1>5, OneMoves DEF vars

-----------------------------------------------------------------------------
(* What the moving process knows after its step.                           *)

(* What the database says it holds, when a row or a token is added. *)
LEMMA GrowsTypes ==
    ASSUME NEW d \in DB
    PROVE  /\ Grows(d, d)
           /\ \A t \in Token : Grows(d, InsertToken(d, t)) /\ t \in InsertToken(d, t).tokens
           /\ \A rows \in SUBSET Log :
                 /\ Grows(d, InsertRows(d, rows))
                 /\ rows \subseteq InsertRows(d, rows).events
<1>1. ASSUME NEW t \in Token
      PROVE  Grows(d, InsertToken(d, t)) /\ t \in InsertToken(d, t).tokens
  <2>1. InsertToken(d, t) = [d EXCEPT !.tokens = d.tokens \cup {t}]
    BY InsertTokenType
  <2> QED
    BY <2>1 DEF Grows, DB
<1>2. ASSUME NEW rows \in SUBSET Log
      PROVE  Grows(d, InsertRows(d, rows)) /\ rows \subseteq InsertRows(d, rows).events
  BY InsertRowsType DEF Grows
<1> QED
  BY <1>1, <1>2 DEF Grows

(* A cursor in meta that is not set leaves the fallback. *)
LEMMA CursorCov ==
    ASSUME Shape, MetaCov
    PROVE  /\ Listed(chain, db, Cursor("factory", Cursor("cursor", First)))
           /\ Stored(chain, db, Cursor("token", First))
<1>1. Listed(chain, db, First) /\ Stored(chain, db, First)
  BY ChainLogs, Constants DEF Listed, Stored, Shape, TypeOK
<1> QED
  BY <1>1 DEF MetaCov, Cursor

LEMMA StartCov ==
    ASSUME Shape, MetaCov, NEW p \in Proc, Start(p)
    PROVE  MemCov(chain, db, mem'[p])
<1> DEFINE F == Cursor("factory", Cursor("cursor", First))
           T == Cursor("token", First)
<1>0. mem \in [Proc -> Mem]
  BY DEF Shape, TypeOK
<1>1. PICK s, L :
          mem' = [mem EXCEPT ![p] =
              [Down EXCEPT !.pc = "drain", !.boot = TRUE, !.safe = s,
                           !.F = F, !.cur = F, !.T = T, !.L = L]]
  BY DEF Start
<1>2. /\ mem'[p].pc = "drain" /\ mem'[p].stream = "factory"
      /\ mem'[p].F = F /\ mem'[p].cur = F /\ mem'[p].T = T
  BY <1>0, <1>1 DEF Down
<1> HIDE DEF F, T
<1> QED
  BY <1>2, CursorCov DEF MemCov, FactoryCov, F, T

LEMMA TickCov ==
    ASSUME Shape, Streamed, NEW p \in Proc, MemCov(chain, db, mem[p]), Tick(p)
    PROVE  MemCov(chain, db, mem'[p])
<1> DEFINE m == mem[p]
<1>0. mem \in [Proc -> Mem] /\ m \in Mem /\ m.pc = "idle" /\ m.stream = "factory"
  BY DEF Shape, TypeOK, Tick, At, Streamed, StreamOK
<1>1. PICK s \in SafeHead :
          mem' = [mem EXCEPT ![p] = [m EXCEPT !.pc = "drain", !.safe = s, !.cur = m.F]]
  BY DEF Tick
<1>2. /\ mem'[p].pc = "drain" /\ mem'[p].stream = "factory"
      /\ mem'[p].F = m.F /\ mem'[p].cur = m.F /\ mem'[p].T = m.T
  BY <1>0, <1>1 DEF Mem
<1> QED
  BY <1>0, <1>2 DEF MemCov, FactoryCov

(* The reply of the factory query: all deployments of the range. *)
LEMMA FactoryFetchCov ==
    ASSUME Shape, NEW p \in Proc, MemCov(chain, db, mem[p]), FactoryFetch(p)
    PROVE  MemCov(chain, db, mem'[p])
<1> DEFINE m == mem[p]
           to == Least(m.cur + Chunk, m.safe)
           td == {l \in LogsIn(m.cur + 1, to) : l.kind = "Created"}
<1>0. /\ mem \in [Proc -> Mem] /\ m \in Mem /\ m.pc = "drain" /\ m.stream = "factory"
      /\ chain \in Fork /\ head \in Nat /\ MemBound(m)
  BY Constants DEF Shape, TypeOK, FactoryFetch, In
<1>1. mem' = [mem EXCEPT ![p] = [m EXCEPT !.pc = "tokens", !.to = to, !.todo = td]]
  BY DEF FactoryFetch
<1>2. /\ mem'[p].pc = "tokens" /\ mem'[p].stream = "factory" /\ mem'[p].todo = td
      /\ mem'[p].F = m.F /\ mem'[p].cur = m.cur /\ mem'[p].T = m.T /\ mem'[p].to = to
  BY <1>0, <1>1 DEF Mem
<1>3. to \in Int /\ to <= head
  BY <1>0, Constants DEF Least, Mem, MemBound
<1>4. ASSUME NEW l \in chain, l.kind = "Created", m.cur < l.block, l.block <= to
      PROVE  l \in td
  BY <1>0, <1>3, <1>4, ChainLogs DEF LogsIn, Mem
<1> HIDE DEF td, to
<1> QED
  BY <1>0, <1>2, <1>4 DEF MemCov, FactoryCov, InTo

LEMMA InsertNextTokenCov ==
    ASSUME Shape, Streamed, NEW p \in Proc, MemCov(chain, db, mem[p]), InsertNextToken(p)
    PROVE  MemCov(chain, db', mem'[p])
<1> DEFINE m == mem[p]
<1>0. /\ mem \in [Proc -> Mem] /\ m \in Mem /\ m.pc = "tokens" /\ m.stream = "factory"
      /\ db \in DB
  BY DEF Shape, TypeOK, InsertNextToken, At, Streamed, StreamOK
<1>1. PICK l \in m.todo :
        /\ db' = InsertToken(db, l.token)
        /\ mem' = [mem EXCEPT ![p] = [m EXCEPT !.todo = m.todo \ {l}]]
  BY <1>0 DEF InsertNextToken
<1>2. /\ mem'[p].pc = "tokens" /\ mem'[p].stream = "factory" /\ mem'[p].todo = m.todo \ {l}
      /\ mem'[p].F = m.F /\ mem'[p].cur = m.cur /\ mem'[p].T = m.T /\ mem'[p].to = m.to
  BY <1>0, <1>1 DEF Mem
<1>3. l.token \in Token
  BY <1>0, LogAssumption DEF Mem
<1>4. Grows(db, db') /\ l.token \in db'.tokens
  BY <1>0, <1>1, <1>3, GrowsTypes
<1>5. /\ Listed(chain, db', m.F) /\ Stored(chain, db', m.T) /\ Listed(chain, db', m.cur)
  BY <1>0, <1>4 DEF MemCov, FactoryCov, Listed, Stored, Grows
<1>6. \A k \in chain : k.kind = "Created" /\ InTo(m, k) => k.token \in db'.tokens \/ k \in m.todo \ {l}
  BY <1>0, <1>4 DEF MemCov, FactoryCov, Grows
<1> QED
  BY <1>2, <1>5, <1>6 DEF MemCov, FactoryCov, InTo

(* With the last token inserted, the range is listed. *)
LEMMA SetFactoryCursorCov ==
    ASSUME Shape, Streamed, NEW p \in Proc, MemCov(chain, db, mem[p]), SetFactoryCursor(p)
    PROVE  MemCov(chain, db, mem'[p]) /\ Listed(chain, db, mem[p].to)
<1> DEFINE m == mem[p]
<1>0. /\ mem \in [Proc -> Mem] /\ m \in Mem /\ m.pc = "tokens" /\ m.stream = "factory"
      /\ m.todo = {} /\ chain \in Fork
  BY DEF Shape, TypeOK, SetFactoryCursor, At, Streamed, StreamOK
<1>1. mem' = [mem EXCEPT ![p] = [m EXCEPT !.pc = "publish"]]
  BY <1>0 DEF SetFactoryCursor
<1>2. /\ mem'[p].pc = "publish" /\ mem'[p].stream = "factory"
      /\ mem'[p].F = m.F /\ mem'[p].cur = m.cur /\ mem'[p].T = m.T /\ mem'[p].to = m.to
  BY <1>0, <1>1 DEF Mem
<1>3. Listed(chain, db, m.to)
  <2> SUFFICES ASSUME NEW l \in chain, l.kind = "Created", l.block <= m.to
               PROVE  l.token \in db.tokens
    BY DEF Listed
  <2>1. l.block \in Int /\ m.cur \in Int
    BY <1>0, ChainLogs DEF Mem
  <2>2. CASE l.block <= m.cur
    BY <1>0, <2>2 DEF MemCov, FactoryCov, Listed
  <2>3. CASE m.cur < l.block
    BY <1>0, <2>3 DEF MemCov, FactoryCov, InTo
  <2> QED
    BY <2>1, <2>2, <2>3
<1> QED
  BY <1>0, <1>2, <1>3 DEF MemCov, FactoryCov

LEMMA PublishCursorCov ==
    ASSUME Shape, Streamed, NEW p \in Proc, MemCov(chain, db, mem[p]), PublishCursor(p)
    PROVE  MemCov(chain, db, mem'[p]) /\ Listed(chain, db, mem[p].to)
<1> DEFINE m == mem[p]
<1>0. /\ mem \in [Proc -> Mem] /\ m \in Mem /\ m.pc = "publish" /\ m.stream = "factory"
  BY DEF Shape, TypeOK, PublishCursor, At, Streamed, StreamOK
<1>1. mem' = [mem EXCEPT ![p] = [m EXCEPT !.pc = "drain", !.cur = m.to]]
  BY DEF PublishCursor
<1>2. /\ mem'[p].pc = "drain" /\ mem'[p].stream = "factory"
      /\ mem'[p].F = m.F /\ mem'[p].cur = m.to /\ mem'[p].T = m.T
  BY <1>0, <1>1 DEF Mem
<1> QED
  BY <1>0, <1>2 DEF MemCov, FactoryCov

LEMMA FactoryDoneCov ==
    ASSUME Shape, NEW p \in Proc, MemCov(chain, db, mem[p]), FactoryDone(p)
    PROVE  MemCov(chain, db, mem'[p])
<1> DEFINE m == mem[p]
<1>0. /\ mem \in [Proc -> Mem] /\ m \in Mem /\ m.pc = "drain" /\ m.stream = "factory"
  BY DEF Shape, TypeOK, FactoryDone, In
<1>a. PICK s \in {"token", "live"} : \E c :
        /\ mem' = [mem EXCEPT ![p] = [m EXCEPT !.F = m.cur, !.stream = s, !.cur = c]]
        /\ s = "token" => c = m.T
  BY DEF FactoryDone
<1>1. PICK c :
        /\ mem' = [mem EXCEPT ![p] = [m EXCEPT !.F = m.cur, !.stream = s, !.cur = c]]
        /\ s = "token" => c = m.T
  BY <1>a
<1>2. /\ mem'[p].pc = "drain" /\ mem'[p].stream = s
      /\ mem'[p].F = m.cur /\ mem'[p].cur = c /\ mem'[p].T = m.T
  BY <1>0, <1>1 DEF Mem
<1> QED
  BY <1>0, <1>1, <1>2 DEF MemCov, FactoryCov, TokenCov

(* The logs of a range in progress exist by now. *)
LEMMA RangeLogs ==
    ASSUME Shape, NEW p \in Proc, mem[p].pc \in InRange, NEW l \in chain, InTo(mem[p], l)
    PROVE  l \in LogsIn(mem[p].cur + 1, mem[p].to)
<1>1. mem[p] \in Mem /\ MemBound(mem[p]) /\ head \in Nat /\ chain \in Fork
  BY Constants DEF Shape, TypeOK
<1>2. mem[p].to <= head /\ mem[p].to \in Int /\ mem[p].cur \in Int
  BY <1>1, Constants DEF MemBound, InRange, Mem
<1>3. l.block \in Nat
  BY <1>1, ChainLogs
<1>4. l.block \in (mem[p].cur + 1) .. mem[p].to /\ l.block <= head
  <2>1. mem[p].cur < l.block /\ l.block <= mem[p].to
    BY DEF InTo
  <2> QED
    BY <1>1, <1>2, <1>3, <2>1
<1> QED
  BY <1>4 DEF LogsIn

(* The factory cursor is ahead of the event range, and a token emits       *)
(* nothing before it is announced: whoever emits in the range is known.    *)
LEMMA EmittersKnown ==
    ASSUME Shape, NEW c \in Int, Listed(chain, db, c),
           NEW l \in chain, l.kind # "Created", l.block <= c
    PROVE  l.token \in db.tokens
<1>1. chain \in Fork
  BY DEF Shape, TypeOK
<1>2. PICK k \in chain : k.kind = "Created" /\ k.token = l.token /\ Before(k, l)
  BY <1>1, ForkAssumption
<1>3. k.block <= l.block /\ k.block \in Int /\ l.block \in Int
  BY <1>1, <1>2, ChainLogs DEF Before
<1> QED
  BY <1>2, <1>3 DEF Listed

LEMMA RangeBeginCov ==
    ASSUME Shape, NEW p \in Proc, MemCov(chain, db, mem[p]), RangeBegin(p)
    PROVE  MemCov(chain, db, mem'[p])
<1> DEFINE m == mem[p]
           pc == IF db.tokens = {} THEN "cursor" ELSE "logs"
           to == RangeEnd(m)
<1>0. /\ mem \in [Proc -> Mem] /\ m \in Mem /\ m.pc = "drain" /\ m.stream \in {"token", "live"}
      /\ chain \in Fork
  BY DEF Shape, TypeOK, RangeBegin, At, HasRange
<1>1. mem' = [mem EXCEPT ![p] = [m EXCEPT !.pc = pc, !.to = to, !.addrs = db.tokens]]
  BY DEF RangeBegin
<1>2. /\ mem'[p].pc = pc /\ mem'[p].stream = m.stream /\ mem'[p].addrs = db.tokens
      /\ mem'[p].F = m.F /\ mem'[p].cur = m.cur /\ mem'[p].T = m.T /\ mem'[p].to = to
  BY <1>0, <1>1 DEF Mem
<1>3. CASE m.stream = "token"
  <2>1. to \in Int /\ to <= m.F /\ m.F \in Int /\ m.cur \in Int
    BY <1>0, <1>3, Constants DEF RangeEnd, Least, Mem
  <2>2. ASSUME NEW l \in chain, l.kind # "Created", l.block <= to
        PROVE  l.token \in db.tokens
    <3>1. l.block <= m.F
      BY <1>0, <2>1, <2>2, ChainLogs
    <3> QED
      BY <1>0, <2>1, <2>2, <3>1, EmittersKnown DEF MemCov
  <2>3. ASSUME pc = "cursor"
        PROVE  Stored(chain, db, to)
    BY <2>2, <2>3 DEF Stored
  <2>4. TokenCov(chain, db, mem'[p])
    <3>1. Stored(chain, db, m.cur)
      BY <1>0, <1>3 DEF MemCov, TokenCov
    <3>2. \A l \in chain : l.kind # "Created" /\ l.block <= to => l.token \in db.tokens
      BY <2>2
    <3>3. pc \in {"cursor", "logs"}
      OBVIOUS
    <3> HIDE DEF pc, to
    <3> QED
      BY <1>2, <2>3, <3>1, <3>2, <3>3 DEF TokenCov, InTo
  <2> HIDE DEF pc, to
  <2> QED
    BY <1>0, <1>2, <1>3, <2>4 DEF MemCov
<1>4. CASE m.stream = "live"
  BY <1>0, <1>2, <1>4 DEF MemCov
<1> QED
  BY <1>0, <1>3, <1>4

LEMMA AddressRequiredCov ==
    ASSUME Shape, NEW p \in Proc, MemCov(chain, db, mem[p]), Streamed, AddressRequired(p)
    PROVE  MemCov(chain, db, mem'[p])
<1> DEFINE m == mem[p]
<1>0. mem \in [Proc -> Mem] /\ m \in Mem /\ m.pc = "logs" /\ m.stream # "factory"
  BY DEF Shape, TypeOK, AddressRequired, At, Streamed, StreamOK
<1>1. mem' = [mem EXCEPT ![p] = [m EXCEPT !.pc = "batch"]]
  BY <1>0 DEF AddressRequired
<1>2. /\ mem'[p].pc = "batch" /\ mem'[p].stream = m.stream /\ mem'[p].addrs = m.addrs
      /\ mem'[p].F = m.F /\ mem'[p].cur = m.cur /\ mem'[p].T = m.T /\ mem'[p].to = m.to
  BY <1>0, <1>1 DEF Mem
<1> QED
  BY <1>0, <1>2 DEF MemCov, TokenCov, InTo

(* A whole reply is every event of the queried tokens in the range. *)
LEMMA WholeReply ==
    ASSUME Shape, ~ShortReplies, NEW p \in Proc, mem[p].pc \in InRange,
           NEW tokens, NEW rows \in Reply(LogsOf(tokens, mem[p]))
    PROVE  /\ rows \in SUBSET Log
           /\ \A l \in chain : l.kind # "Created" /\ InTo(mem[p], l) /\ l.token \in tokens => l \in rows
<1>1. rows = LogsOf(tokens, mem[p])
  BY DEF Reply
<1>2. rows \in SUBSET Log
  BY ReplyRows
<1> QED
  BY <1>1, <1>2, RangeLogs DEF LogsOf

(* The fresh transaction covers the range of its process. *)
LEMMA OpenCov ==
    ASSUME Shape, NEW p \in Proc, mem[p].pc \in InRange, NEW view \in DB, Grows(db, view),
           \A l \in chain : l.kind # "Created" /\ InTo(mem[p], l) => l \in view.events,
           NEW n, n.cur = mem[p].cur, n.to = mem[p].to
    PROVE  TxnCov(chain, db, OpenTxn(p, view), n)
<1>1. OpenTxn(p, view).view = view
      /\ OpenTxn(p, view).todo = Unapplied(view, mem[p].cur + 1, mem[p].to)
  BY OpenTxnType
<1>2. mem[p] \in Mem /\ chain \in Fork
  BY DEF Shape, TypeOK
<1>3. ASSUME NEW l \in chain, l.kind # "Created", InTo(n, l)
      PROVE  l \in view.events /\ (IsTransfer(l) =>
                l \in view.applied \/ l \in Unapplied(view, mem[p].cur + 1, mem[p].to))
  <2>1. InTo(mem[p], l) /\ l \in view.events
    BY <1>3 DEF InTo
  <2>2. l.block \in (mem[p].cur + 1) .. mem[p].to
    BY <1>2, <2>1, ChainLogs DEF InTo, Mem
  <2> QED
    BY <2>1, <2>2 DEF Unapplied
<1> QED
  BY <1>1, <1>3 DEF TxnCov

LEMMA TopicReplyCov ==
    ASSUME Shape, ~ShortReplies, Streamed, NEW p \in Proc, MemCov(chain, db, mem[p]),
           TopicReply(p)
    PROVE  /\ MemCov(chain, db', mem'[p])
           /\ txn' # txn => TxnCov(chain, db', txn', mem'[p]) /\ txn'.owner = p
<1> DEFINE m == mem[p]
<1>0. /\ mem \in [Proc -> Mem] /\ m \in Mem /\ m.pc = "logs" /\ m.stream \in {"token", "live"}
      /\ db \in DB
  BY DEF Shape, TypeOK, TopicReply, At, Streamed, StreamOK, Mem, Stream
<1>1. PICK rows \in Reply(LogsOf(m.addrs, m)) :
        IF m.stream = "live"
        THEN /\ db' = InsertRows(db, rows)
             /\ mem' = [mem EXCEPT ![p] = [m EXCEPT !.pc = "cursor", !.addrs = {}]]
             /\ UNCHANGED txn
        ELSE /\ txn' = OpenTxn(p, InsertRows(db, rows))
             /\ mem' = [mem EXCEPT ![p] = [m EXCEPT !.pc = "apply", !.addrs = {}]]
             /\ UNCHANGED db
  <2>1. PICK rows \in Reply(LogsOf(m.addrs, m)) :
          IF m.stream = "live"
          THEN /\ db' = InsertRows(db, rows)
               /\ mem' = [mem EXCEPT ![p] = [@ EXCEPT !.pc = "cursor", !.addrs = {}]]
               /\ UNCHANGED txn
          ELSE /\ txn' = OpenTxn(p, InsertRows(db, rows))
               /\ mem' = [mem EXCEPT ![p] = [@ EXCEPT !.pc = "apply", !.addrs = {}]]
               /\ UNCHANGED db
    BY DEF TopicReply
  <2>2. \A pc : [mem EXCEPT ![p] = [@ EXCEPT !.pc = pc, !.addrs = {}]]
                 = [mem EXCEPT ![p] = [m EXCEPT !.pc = pc, !.addrs = {}]]
    BY <1>0
  <2> QED
    BY <2>1, <2>2
<1>2. m.pc \in InRange
  BY <1>0 DEF InRange
<1>3. /\ rows \in SUBSET Log
      /\ \A l \in chain : l.kind # "Created" /\ InTo(m, l) /\ l.token \in m.addrs => l \in rows
  BY <1>2, WholeReply
<1>4. /\ Grows(db, InsertRows(db, rows)) /\ rows \subseteq InsertRows(db, rows).events
      /\ InsertRows(db, rows) \in DB
  BY <1>0, <1>3, GrowsTypes, InsertRowsType
<1>5. CASE m.stream = "live"
  <2>1. /\ mem'[p].pc = "cursor" /\ mem'[p].stream = "live"
        /\ mem'[p].F = m.F /\ mem'[p].T = m.T
    BY <1>0, <1>1, <1>5 DEF Mem
  <2>2. Listed(chain, db', m.F) /\ Stored(chain, db', m.T)
    BY <1>0, <1>1, <1>4, <1>5 DEF MemCov, Listed, Stored, Grows
  <2> QED
    BY <1>1, <1>5, <2>1, <2>2 DEF MemCov
<1>6. CASE m.stream = "token"
  <2>1. /\ mem'[p].pc = "apply" /\ mem'[p].stream = "token" /\ db' = db
        /\ mem'[p].F = m.F /\ mem'[p].T = m.T /\ mem'[p].cur = m.cur /\ mem'[p].to = m.to
    BY <1>0, <1>1, <1>6 DEF Mem
  <2>2. MemCov(chain, db, mem'[p])
    BY <1>0, <1>6, <2>1 DEF MemCov, TokenCov
  <2>3. \A l \in chain : l.kind # "Created" /\ InTo(m, l) => l \in InsertRows(db, rows).events
    BY <1>0, <1>3, <1>4, <1>6 DEF MemCov, TokenCov
  <2>4. txn' = OpenTxn(p, InsertRows(db, rows))
    BY <1>1, <1>6
  <2>5. TxnCov(chain, db, txn', mem'[p])
    BY <1>2, <1>4, <2>1, <2>3, <2>4, OpenCov
  <2>6. txn'.owner = p
    BY <1>4, <2>4, OpenTxnType
  <2> QED
    BY <2>1, <2>2, <2>5, <2>6
<1> QED
  BY <1>0, <1>5, <1>6

LEMMA BatchReplyCov ==
    ASSUME Shape, ~ShortReplies, Streamed, NEW p \in Proc, MemCov(chain, db, mem[p]),
           BatchReply(p)
    PROVE  MemCov(chain, db', mem'[p])
<1> DEFINE m == mem[p]
<1>0. /\ mem \in [Proc -> Mem] /\ m \in Mem /\ m.pc = "batch" /\ m.stream # "factory"
      /\ db \in DB
  BY DEF Shape, TypeOK, BatchReply, At, Streamed, StreamOK
<1>1. PICK batch \in SUBSET m.addrs :
        /\ \E rows \in Reply(LogsOf(batch, m)) : db' = InsertRows(db, rows)
        /\ mem' = [mem EXCEPT ![p] = [m EXCEPT !.addrs = m.addrs \ batch]]
  BY <1>0 DEF BatchReply
<1>2. PICK rows \in Reply(LogsOf(batch, m)) : db' = InsertRows(db, rows)
  BY <1>1
<1>3. m.pc \in InRange
  BY <1>0 DEF InRange
<1>4. /\ rows \in SUBSET Log
      /\ \A l \in chain : l.kind # "Created" /\ InTo(m, l) /\ l.token \in batch => l \in rows
  BY <1>3, WholeReply
<1>5. Grows(db, db') /\ rows \subseteq db'.events
  BY <1>0, <1>2, <1>4, GrowsTypes
<1>6. /\ mem'[p].pc = "batch" /\ mem'[p].stream = m.stream /\ mem'[p].addrs = m.addrs \ batch
      /\ mem'[p].F = m.F /\ mem'[p].T = m.T /\ mem'[p].cur = m.cur /\ mem'[p].to = m.to
  BY <1>0, <1>1 DEF Mem
<1>7. Listed(chain, db', m.F) /\ Stored(chain, db', m.T)
  BY <1>0, <1>5 DEF MemCov, Listed, Stored, Grows
<1>8. ASSUME m.stream = "token"
      PROVE  TokenCov(chain, db', mem'[p])
  <2>1. Stored(chain, db', m.cur)
    BY <1>0, <1>5, <1>8 DEF MemCov, TokenCov, Stored, Grows
  <2>2. \A l \in chain : l.kind # "Created" /\ InTo(m, l) =>
            l \in db'.events \/ l.token \in m.addrs \ batch
    BY <1>0, <1>4, <1>5, <1>8 DEF MemCov, TokenCov, Grows
  <2> QED
    BY <1>6, <2>1, <2>2 DEF TokenCov, InTo
<1> QED
  BY <1>0, <1>6, <1>7, <1>8 DEF MemCov

LEMMA BatchesDoneCov ==
    ASSUME Shape, Streamed, NEW p \in Proc, MemCov(chain, db, mem[p]), BatchesDone(p)
    PROVE  /\ MemCov(chain, db, mem'[p])
           /\ txn' # txn => TxnCov(chain, db, txn', mem'[p]) /\ txn'.owner = p
<1> DEFINE m == mem[p]
<1>0. /\ mem \in [Proc -> Mem] /\ m \in Mem /\ m.pc = "batch" /\ m.stream \in {"token", "live"}
      /\ m.addrs = {} /\ db \in DB
  BY DEF Shape, TypeOK, BatchesDone, At, Streamed, StreamOK, Mem, Stream
<1>1. CASE m.stream = "live"
  <2>1. mem' = [mem EXCEPT ![p] = [m EXCEPT !.pc = "cursor"]] /\ UNCHANGED txn
    BY <1>0, <1>1 DEF BatchesDone
  <2>2. /\ mem'[p].pc = "cursor" /\ mem'[p].stream = "live"
        /\ mem'[p].F = m.F /\ mem'[p].T = m.T
    BY <1>0, <1>1, <2>1 DEF Mem
  <2> QED
    BY <1>0, <2>1, <2>2 DEF MemCov
<1>2. CASE m.stream = "token"
  <2>1. mem' = [mem EXCEPT ![p] = [m EXCEPT !.pc = "apply"]] /\ txn' = OpenTxn(p, db)
    BY <1>0, <1>2 DEF BatchesDone
  <2>2. /\ mem'[p].pc = "apply" /\ mem'[p].stream = "token"
        /\ mem'[p].F = m.F /\ mem'[p].T = m.T /\ mem'[p].cur = m.cur /\ mem'[p].to = m.to
    BY <1>0, <1>2, <2>1 DEF Mem
  <2>3. \A l \in chain : l.kind # "Created" /\ InTo(m, l) => l \in db.events
    BY <1>0, <1>2 DEF MemCov, TokenCov
  <2>4. m.pc \in InRange /\ Grows(db, db)
    BY <1>0, GrowsTypes DEF InRange
  <2>5. TxnCov(chain, db, txn', mem'[p])
    BY <1>0, <2>1, <2>2, <2>3, <2>4, OpenCov
  <2>6. txn'.owner = p
    BY <1>0, <2>1, OpenTxnType
  <2> QED
    BY <1>0, <1>2, <2>2, <2>5, <2>6 DEF MemCov, TokenCov
<1> QED
  BY <1>0, <1>1, <1>2

(* The committed view holds all of the range, applied. *)
LEMMA CommitCov ==
    ASSUME Shape, Streamed, NEW p \in Proc, MemCov(chain, db, mem[p]),
           TxnCov(chain, db, txn, mem[p]), Commit(p)
    PROVE  MemCov(chain, db', mem'[p]) /\ Grows(db, db')
<1> DEFINE m == mem[p]
<1>0. /\ mem \in [Proc -> Mem] /\ m \in Mem /\ m.pc = "apply" /\ m.stream = "token"
      /\ chain \in Fork
  BY DEF Shape, TypeOK, Commit, At, Streamed, StreamOK
<1>1. mem' = [mem EXCEPT ![p] = [m EXCEPT !.pc = "cursor"]] /\ db' = txn.view /\ txn.todo = {}
  BY <1>0 DEF Commit
<1>2. /\ mem'[p].pc = "cursor" /\ mem'[p].stream = "token"
      /\ mem'[p].F = m.F /\ mem'[p].T = m.T /\ mem'[p].cur = m.cur /\ mem'[p].to = m.to
  BY <1>0, <1>1 DEF Mem
<1>3. Grows(db, db')
  BY <1>1 DEF TxnCov
<1>4. Listed(chain, db', m.F) /\ Stored(chain, db', m.T) /\ Stored(chain, db', m.cur)
  BY <1>0, <1>3 DEF MemCov, TokenCov, Listed, Stored, Grows
<1>5. ASSUME NEW l \in chain, l.kind # "Created", l.block <= m.to
      PROVE  l \in db'.events /\ (IsTransfer(l) => l \in db'.applied)
  <2>1. l.block \in Int /\ m.cur \in Int
    BY <1>0, ChainLogs DEF Mem
  <2>2. CASE l.block <= m.cur
    BY <1>4, <1>5, <2>2 DEF Stored
  <2>3. CASE m.cur < l.block
    BY <1>1, <1>5, <2>3 DEF TxnCov, InTo
  <2> QED
    BY <2>1, <2>2, <2>3
<1>6. Stored(chain, db', m.to)
  BY <1>5 DEF Stored
<1> QED
  BY <1>2, <1>3, <1>4, <1>6 DEF MemCov, TokenCov

LEMMA SetStreamCursorCov ==
    ASSUME Shape, Streamed, NEW p \in Proc, MemCov(chain, db, mem[p]), SetStreamCursor(p)
    PROVE  /\ MemCov(chain, db, mem'[p])
           /\ mem[p].stream \in {"token", "live"}
           /\ mem[p].stream = "token" => Stored(chain, db, mem[p].to)
<1> DEFINE m == mem[p]
<1>0. /\ mem \in [Proc -> Mem] /\ m \in Mem /\ m.pc = "cursor" /\ m.stream \in {"token", "live"}
  BY DEF Shape, TypeOK, SetStreamCursor, At, Streamed, StreamOK, Mem, Stream
<1>1. PICK r : mem' = [mem EXCEPT ![p] =
                  [m EXCEPT !.pc = "drain", !.cur = m.to, !.addrs = {}, !.ranges = r]]
  BY DEF SetStreamCursor
<1>2. /\ mem'[p].pc = "drain" /\ mem'[p].stream = m.stream
      /\ mem'[p].F = m.F /\ mem'[p].T = m.T /\ mem'[p].cur = m.to
  BY <1>0, <1>1 DEF Mem
<1> QED
  BY <1>0, <1>2 DEF MemCov, TokenCov

LEMMA LiveDoneCov ==
    ASSUME Shape, NEW p \in Proc, MemCov(chain, db, mem[p]), LiveDone(p)
    PROVE  MemCov(chain, db, mem'[p])
<1> DEFINE m == mem[p]
<1>0. /\ mem \in [Proc -> Mem] /\ m \in Mem /\ m.pc = "drain" /\ m.stream = "live"
  BY DEF Shape, TypeOK, LiveDone, In
<1>1. mem' = [mem EXCEPT ![p] = [m EXCEPT !.L = m.cur, !.stream = "token", !.cur = m.T]]
  BY DEF LiveDone
<1>2. /\ mem'[p].pc = "drain" /\ mem'[p].stream = "token"
      /\ mem'[p].F = m.F /\ mem'[p].T = m.T /\ mem'[p].cur = m.T
  BY <1>0, <1>1 DEF Mem
<1> QED
  BY <1>0, <1>2 DEF MemCov, TokenCov

(* Where a process begins again: with the cursors of main, or nothing. *)
LEMMA RestCov ==
    ASSUME NEW C, NEW d, NEW m \in Mem, MemCov(C, d, m), m.pc # "down"
    PROVE  /\ MemCov(C, d, Down)
           /\ MemCov(C, d, Idle(m))
<1>1. MemCov(C, d, Down)
  BY DownFields DEF MemCov
<1>2. MemCov(C, d, Idle(m))
  BY IdleFields DEF MemCov
<1> QED
  BY <1>1, <1>2

LEMMA TokenDoneCov ==
    ASSUME Shape, NEW p \in Proc, MemCov(chain, db, mem[p]), TokenDone(p)
    PROVE  MemCov(chain, db, mem'[p])
<1> DEFINE m == mem[p]
           k == [m EXCEPT !.T = m.cur]
<1>0. /\ mem \in [Proc -> Mem] /\ m \in Mem /\ m.pc = "drain" /\ m.stream = "token"
  BY DEF Shape, TypeOK, TokenDone, In
<1>1. k \in Mem /\ k.pc = "drain" /\ k.stream = "token" /\ k.F = m.F /\ k.T = m.cur /\ k.cur = m.cur
  BY <1>0 DEF Mem
<1>2. mem'[p] = Down \/ mem'[p] = Idle(k)
  BY <1>0 DEF TokenDone
<1> HIDE DEF k
<1>3. MemCov(chain, db, k)
  BY <1>0, <1>1 DEF MemCov, TokenCov
<1>4. MemCov(chain, db, Down) /\ MemCov(chain, db, Idle(k))
  BY <1>1, <1>3, RestCov
<1> QED
  BY <1>2, <1>4

(* One more row applied. *)
LEMMA ApplyNextRowCov ==
    ASSUME Shape, TodoOK, NEW p \in Proc, ApplyNextRow(p), NEW m, TxnCov(chain, db, txn, m)
    PROVE  TxnCov(chain, db, txn', m)
<1>1. PICK l \in txn.todo :
        /\ txn'.view.events = txn.view.events
        /\ txn'.view.tokens = txn.view.tokens
        /\ txn'.view.applied = txn.view.applied \cup {l}
        /\ txn'.todo = txn.todo \ {l}
  BY ApplyFacts
<1> QED
  BY <1>1 DEF TxnCov, Grows

-----------------------------------------------------------------------------
(* Putting the steps together.                                             *)

LEMMA MovedCov ==
    ASSUME Shape, ~ShortReplies, Streamed, Covered, NEW p \in Proc, [Next]_vars,
           Step(p) \/ Fail(p) \/ Crash(p), Grows(db, db')
    PROVE  MemCov(chain, db', mem'[p])
<1>0. mem[p] \in Mem /\ mem \in [Proc -> Mem] /\ MemCov(chain, db, mem[p]) /\ MetaCov
  BY DEF Shape, TypeOK, Covered
<1>1. CASE Fail(p) \/ Crash(p)
  <2>1. mem[p].pc # "down" /\ db' = db
    BY <1>1 DEF Fail, Crash, At, Abandon
  <2>2. mem'[p] = Down \/ mem'[p] = Idle(mem[p])
    BY <1>0, <1>1 DEF Fail, Crash
  <2>3. MemCov(chain, db, Down) /\ MemCov(chain, db, Idle(mem[p]))
    BY <1>0, <2>1, RestCov
  <2> QED
    BY <2>1, <2>2, <2>3
<1>2. CASE Start(p) \/ Tick(p) \/ FactoryFetch(p) \/ FactoryDone(p) \/ RangeBegin(p)
           \/ AddressRequired(p) \/ LiveDone(p) \/ TokenDone(p) \/ BatchesDone(p)
           \/ SetFactoryCursor(p) \/ PublishCursor(p) \/ SetStreamCursor(p)
  <2>1. db' = db
    BY <1>2 DEF Start, Tick, FactoryFetch, FactoryDone, RangeBegin, AddressRequired, LiveDone,
       TokenDone, BatchesDone, SetFactoryCursor, PublishCursor, SetStreamCursor
  <2>2. MemCov(chain, db, mem'[p])
    BY <1>0, <1>2, StartCov, TickCov, FactoryFetchCov, FactoryDoneCov, RangeBeginCov,
       AddressRequiredCov, LiveDoneCov, TokenDoneCov, BatchesDoneCov, SetFactoryCursorCov,
       PublishCursorCov, SetStreamCursorCov
  <2> QED
    BY <2>1, <2>2
<1>3. CASE InsertNextToken(p) \/ TopicReply(p) \/ BatchReply(p)
  BY <1>0, <1>3, InsertNextTokenCov, TopicReplyCov, BatchReplyCov
<1>4. CASE ApplyNextRow(p)
  BY <1>0, <1>4 DEF ApplyNextRow
<1>5. CASE Commit(p)
  <2>1. txn # NoTxn /\ txn.owner = p
    BY <1>5, TxnRecord DEF Commit
  <2> QED
    BY <1>0, <1>5, <2>1, CommitCov DEF Covered
<1> QED
  BY <1>1, <1>2, <1>3, <1>4, <1>5 DEF Step

(* Nobody else writes while a transaction is open. *)
LEMMA StepKinds ==
    ASSUME NEW p \in Proc, Step(p) \/ Fail(p) \/ Crash(p)
    PROVE  \/ UNCHANGED <<db, txn>> /\ ~At(p, "apply")
           \/ MayWrite /\ UNCHANGED txn
           \/ MayWrite /\ UNCHANGED db /\ (TopicReply(p) \/ BatchesDone(p))
           \/ ApplyNextRow(p) /\ UNCHANGED <<db, mem>>
           \/ Commit(p)
           \/ UNCHANGED db /\ txn' = NoTxn
<1>1. CASE Fail(p) \/ Crash(p)
  BY <1>1 DEF Fail, Crash, Abandon
<1>2. CASE Start(p) \/ Tick(p) \/ FactoryFetch(p) \/ FactoryDone(p)
  BY <1>2 DEF Start, Tick, FactoryFetch, FactoryDone, At, In
<1>3. CASE RangeBegin(p) \/ AddressRequired(p) \/ LiveDone(p) \/ TokenDone(p)
  BY <1>3 DEF RangeBegin, AddressRequired, LiveDone, TokenDone, At, In
<1>4. CASE InsertNextToken(p) \/ BatchReply(p)
  BY <1>4 DEF InsertNextToken, BatchReply
<1>5. CASE SetFactoryCursor(p) \/ PublishCursor(p) \/ SetStreamCursor(p)
  BY <1>5 DEF SetFactoryCursor, PublishCursor, SetStreamCursor, At
<1>6. CASE TopicReply(p)
  BY <1>6 DEF TopicReply
<1>7. CASE BatchesDone(p)
  BY <1>7 DEF BatchesDone
<1>8. CASE ApplyNextRow(p) \/ Commit(p)
  BY <1>8 DEF ApplyNextRow
<1> QED
  BY <1>1, <1>2, <1>3, <1>4, <1>5, <1>6, <1>7, <1>8 DEF Step

(* The store only grows. *)
LEMMA StoreGrows ==
    ASSUME Shape, Streamed, Covered, [Next]_vars
    PROVE  Grows(db, db')
<1>0. db \in DB
  BY DEF Shape, TypeOK
<1>1. CASE db' = db
  BY <1>1 DEF Grows
<1>2. CASE \E t \in Token : db' = InsertToken(db, t)
  BY <1>0, <1>2, GrowsTypes
<1>3. CASE \E rows \in SUBSET Log : db' = InsertRows(db, rows)
  BY <1>0, <1>3, GrowsTypes
<1>4. ASSUME NEW p \in Proc, Commit(p)
      PROVE  Grows(db, db')
  <2>1. txn # NoTxn /\ txn.owner = p
    BY <1>4, TxnRecord DEF Commit
  <2> QED
    BY <1>4, <2>1, CommitCov DEF Covered
<1>5. ASSUME NEW p \in Proc, ApplyNextRow(p)
      PROVE  db' = db
  BY <1>5 DEF ApplyNextRow
<1> QED
  BY <1>1, <1>2, <1>3, <1>4, <1>5, StoreEffects DEF vars

LEMMA TxnStep ==
    ASSUME Shape, TodoOK, ~ShortReplies, Streamed, Covered, Next, txn' # NoTxn
    PROVE  TxnCov(chain', db', txn', mem'[txn'.owner])
<1>1. ASSUME txn' = txn, db' = db, mem'[txn.owner] = mem[txn.owner]
      PROVE  TxnCov(chain', db', txn', mem'[txn'.owner])
  <2> DEFINE m == mem[txn.owner]
  <2>1. /\ txn \in [owner : Proc, view : DB, todo : SUBSET Log]
        /\ At(txn.owner, "apply") /\ TxnCov(chain, db, txn, m)
    BY <1>1 DEF Shape, TypeOK, Owned, Covered
  <2>2. m \in Mem /\ MemBound(m) /\ m.pc = "apply"
    BY <2>1 DEF Shape, TypeOK, At
  <2>3. m.to <= head - Confirmations /\ m.to \in Int /\ head - Confirmations \in Int
    BY <2>2, Constants DEF MemBound, InRange, Mem, Shape, TypeOK
  <2>4. ASSUME NEW l \in chain', InTo(m, l)
        PROVE  l \in chain
    BY <2>3, <2>4, ChainKept, ChainLogs DEF InTo, Solid
  <2> HIDE DEF m
  <2>5. TxnCov(chain', db, txn, m)
    BY <2>1, <2>4 DEF TxnCov
  <2> QED
    BY <1>1, <2>5 DEF m
<1>2. CASE UNCHANGED <<db, txn, mem>>
  BY <1>1, <1>2
<1>3. ASSUME NEW p \in Proc, Step(p) \/ Fail(p) \/ Crash(p), chain' = chain,
             NEW n, mem' = [mem EXCEPT ![p] = n]
      PROVE  TxnCov(chain', db', txn', mem'[txn'.owner])
  <2>0. mem \in [Proc -> Mem] /\ MemCov(chain, db, mem[p])
    BY DEF Shape, TypeOK, Covered
  <2>1. CASE UNCHANGED <<db, txn>> /\ ~At(p, "apply")
    <3>1. txn.owner \in Proc /\ txn.owner # p
      BY <2>1 DEF Shape, TypeOK, Owned
    <3>2. mem'[txn.owner] = mem[txn.owner]
      BY <1>3, <2>0, <3>1
    <3> QED
      BY <1>1, <2>1, <3>2
  <2>2. CASE MayWrite /\ UNCHANGED txn
    BY <2>2 DEF MayWrite
  <2>3. CASE MayWrite /\ UNCHANGED db /\ (TopicReply(p) \/ BatchesDone(p))
    <3>1. txn' # txn
      BY <2>3 DEF MayWrite
    <3> QED
      BY <1>3, <2>0, <2>3, <3>1, TopicReplyCov, BatchesDoneCov
  <2>4. CASE ApplyNextRow(p) /\ UNCHANGED <<db, mem>>
    <3>1. txn # NoTxn /\ txn.owner = p /\ txn'.owner = txn.owner
      BY <2>4, TxnRecord, ApplyFacts DEF ApplyNextRow
    <3>2. TxnCov(chain, db, txn', mem[p])
      BY <2>4, <3>1, ApplyNextRowCov DEF Covered
    <3> QED
      BY <1>3, <2>4, <3>1, <3>2
  <2>5. CASE Commit(p) \/ txn' = NoTxn
    BY <2>5 DEF Commit
  <2> QED
    BY <1>3, <2>1, <2>2, <2>3, <2>4, <2>5, StepKinds
<1> QED
  BY <1>2, <1>3, OneMoves

LEMMA MetaStep ==
    ASSUME Shape, Streamed, Covered, Next, Grows(db, db')
    PROVE  MetaCov'
<1> DEFINE h == head - Confirmations
<1>0. /\ meta \in [factory : CursorValue, cursor : CursorValue,
                    token : CursorValue, live : CursorValue]
      /\ MetaBound /\ MetaCov /\ h \in Int /\ chain \in Fork
  BY Constants DEF Shape, TypeOK, Covered
<1>1. ASSUME NEW c \in Int, c <= h \/ c = Unset
      PROVE  /\ Listed(chain, db, c) => Listed(chain', db', c)
             /\ Stored(chain, db, c) => Stored(chain', db', c)
  <2>1. ASSUME NEW l \in chain', l.block <= c
        PROVE  l \in chain
    BY <1>0, <1>1, <2>1, ChainKept, ChainLogs DEF Solid, Unset
  <2> QED
    BY <2>1 DEF Listed, Stored, Grows
<1>2. \A k \in Keys : meta[k] \in Int /\ (meta[k] <= h \/ meta[k] = Unset)
  <2>1. CursorValue \subseteq Int
    BY Constants DEF CursorValue, Unset
  <2> QED
    BY <1>0, <2>1 DEF MetaBound, Keys
<1> HIDE DEF h
<1>3. /\ Listed(chain', db', meta.factory) /\ Listed(chain', db', meta.cursor)
      /\ Stored(chain', db', meta.token)
  BY <1>0, <1>1, <1>2 DEF MetaCov, Keys
<1>4. CASE meta' = meta
  BY <1>3, <1>4 DEF MetaCov
<1>5. ASSUME NEW p \in Proc, Step(p) \/ Fail(p) \/ Crash(p), chain' = chain
      PROVE  MetaCov'
  <2>0. MemCov(chain, db, mem[p])
    BY DEF Covered
  <2>1. CASE SetFactoryCursor(p)
    <3>1. meta' = [meta EXCEPT !.factory = mem[p].to] /\ db' = db
      BY <2>1 DEF SetFactoryCursor
    <3> QED
      BY <1>0, <1>3, <1>5, <2>0, <2>1, <3>1, SetFactoryCursorCov DEF MetaCov
  <2>2. CASE PublishCursor(p)
    <3>1. meta' = [meta EXCEPT !.cursor = mem[p].to] /\ db' = db
      BY <2>2 DEF PublishCursor
    <3> QED
      BY <1>0, <1>3, <1>5, <2>0, <2>2, <3>1, PublishCursorCov DEF MetaCov
  <2>3. CASE SetStreamCursor(p)
    <3>1. meta' = [meta EXCEPT ![mem[p].stream] = mem[p].to] /\ db' = db
      BY <2>3 DEF SetStreamCursor
    <3>2. /\ mem[p].stream \in {"token", "live"}
          /\ mem[p].stream = "token" => Stored(chain, db, mem[p].to)
      BY <2>0, <2>3, SetStreamCursorCov
    <3>3. CASE mem[p].stream = "token"
      <4>1. meta' = [meta EXCEPT !.token = mem[p].to]
        BY <3>1, <3>3
      <4> QED
        BY <1>0, <1>3, <1>5, <3>1, <3>2, <3>3, <4>1 DEF MetaCov
    <3>4. CASE mem[p].stream = "live"
      <4>1. meta' = [meta EXCEPT !.live = mem[p].to]
        BY <3>1, <3>4
      <4> QED
        BY <1>0, <1>3, <1>5, <3>1, <4>1 DEF MetaCov
    <3> QED
      BY <3>2, <3>3, <3>4
  <2>4. CASE Fail(p) \/ Crash(p)
    BY <1>4, <2>4 DEF Fail, Crash
  <2>5. CASE Start(p) \/ Tick(p) \/ FactoryFetch(p) \/ InsertNextToken(p) \/ FactoryDone(p)
             \/ RangeBegin(p) \/ TopicReply(p) \/ AddressRequired(p) \/ BatchReply(p)
             \/ BatchesDone(p) \/ ApplyNextRow(p) \/ Commit(p) \/ LiveDone(p) \/ TokenDone(p)
    <3>1. meta' = meta
      BY <2>5 DEF Start, Tick, FactoryFetch, InsertNextToken, FactoryDone, RangeBegin, TopicReply,
         AddressRequired, BatchReply, BatchesDone, ApplyNextRow, Commit, LiveDone, TokenDone
    <3> QED
      BY <1>4, <3>1
  <2> QED
    BY <1>5, <2>1, <2>2, <2>3, <2>4, <2>5 DEF Step
<1> QED
  BY <1>4, <1>5, OneMoves

LEMMA CoveredStep ==
    ASSUME Shape, TodoOK, ~ShortReplies, Streamed, Covered, [Next]_vars
    PROVE  Covered'
<1>0. mem \in [Proc -> Mem]
  BY DEF Shape, TypeOK
<1>1. CASE UNCHANGED vars
  BY <1>1 DEF vars, Covered, MetaCov
<1>2. CASE Next
  <2>1. Grows(db, db')
    BY StoreGrows
  <2>2. ASSUME NEW q \in Proc, mem'[q] = mem[q]
        PROVE  MemCov(chain', db', mem'[q])
    BY <2>1, <2>2, KeepProcess DEF Covered
  <2>3. \A q \in Proc : MemCov(chain', db', mem'[q])
    <3>1. CASE UNCHANGED mem
      BY <2>2, <3>1
    <3>2. ASSUME NEW p \in Proc, Step(p) \/ Fail(p) \/ Crash(p), chain' = chain,
                 NEW n, mem' = [mem EXCEPT ![p] = n], NEW q \in Proc
          PROVE  MemCov(chain', db', mem'[q])
      <4>1. CASE q = p
        BY <2>1, <3>2, <4>1, MovedCov
      <4>2. CASE q # p
        BY <1>0, <2>2, <3>2, <4>2
      <4> QED
        BY <4>1, <4>2
    <3> QED
      BY <1>2, <3>1, <3>2, OneMoves
  <2>4. txn' # NoTxn => TxnCov(chain', db', txn', mem'[txn'.owner])
    BY <1>2, TxnStep
  <2>5. MetaCov'
    BY <1>2, <2>1, MetaStep
  <2> QED
    BY <2>3, <2>4, <2>5 DEF Covered
<1> QED
  BY <1>1, <1>2

LEMMA InitStreamed == Init => Streamed
BY DownFields DEF Init, Streamed, StreamOK

(* An old database vouches for the deployments up to its `cursor`. *)
LEMMA InitCovered == Init => Covered
<1> SUFFICES ASSUME Init PROVE Covered
  OBVIOUS
<1>1. PICK c \in LegacyCursors :
        /\ meta = [factory |-> Unset, cursor |-> c, token |-> Unset, live |-> Unset]
        /\ db = [EmptyDB EXCEPT !.tokens =
                    {l.token : l \in {k \in chain : k.kind = "Created" /\ k.block <= c}}]
  BY DEF Init, InitStore
<1>2. db.tokens = {l.token : l \in {k \in chain : k.kind = "Created" /\ k.block <= c}}
  BY <1>1 DEF EmptyDB
<1>3. /\ Listed(chain, db, Unset) /\ Stored(chain, db, Unset)
  BY ChainLogs DEF Listed, Stored, Unset, Init
<1>4. Listed(chain, db, c)
  BY <1>2 DEF Listed
<1>5. MetaCov
  BY <1>1, <1>3, <1>4 DEF MetaCov
<1>6. \A p \in Proc : MemCov(chain, db, mem[p])
  BY DownFields DEF Init, MemCov
<1> QED
  BY <1>5, <1>6 DEF Covered, Init

(* Which stream a process is in at each step. *)
THEOREM StreamedInvariant == Spec => []Streamed
<1>1. Typed /\ Streamed /\ [Next]_vars => Streamed'
  BY StreamedStep DEF Typed
<1> QED
  BY <1>1, InitStreamed, TypedInvariant, PTL DEF Spec

(* Cursors, memory and open transactions vouch for what they passed. *)
THEOREM CoveredInvariant == ASSUME ~ShortReplies PROVE Spec => []Covered
<1>1. Typed /\ Streamed /\ Covered /\ [Next]_vars => Covered'
  BY CoveredStep DEF Typed
<1> QED
  BY <1>1, InitCovered, TypedInvariant, StreamedInvariant, PTL DEF Spec

(* A cursor of table meta vouches for everything at or below it, for every *)
(* number of processes, every crash between a commit and the cursor write, *)
(* every failed drain and replay: indexer.js writes a cursor only after    *)
(* the rows of its range.                                                  *)
THEOREM CursorsComplete == Spec => []CursorComplete
<1>1. CASE ShortReplies
  <2>1. CursorComplete
    BY <1>1 DEF CursorComplete
  <2> QED
    BY <2>1, PTL
<1>2. CASE ~ShortReplies
  <2>1. Typed /\ Covered => CursorComplete
    <3> SUFFICES ASSUME Typed, Covered, NEW l \in chain
                 PROVE  /\ l.kind = "Created" /\ l.block <= Greatest(meta.factory, meta.cursor)
                              => l.token \in db.tokens
                        /\ l.kind # "Created" /\ l.block <= meta.token
                              => l \in db.events /\ (IsTransfer(l) => l \in db.applied)
      BY DEF CursorComplete
    <3> QED
      BY DEF Covered, MetaCov, Listed, Stored, Greatest
  <2> QED
    BY <1>2, <2>1, CoveredInvariant, TypedInvariant, PTL
<1> QED
  BY <1>1, <1>2

-----------------------------------------------------------------------------
(* The order in which Transfers are applied.                               *)

(* Only the owner of the transaction has rows left to apply. *)
LEMMA RangedStep ==
    ASSUME Shape, Streamed, Ranged, Next
    PROVE  Ranged'
<1> SUFFICES ASSUME txn' # NoTxn, NEW l \in txn'.todo
             PROVE  InTo(mem'[txn'.owner], l)
  BY DEF Ranged
<1>0. mem \in [Proc -> Mem]
  BY DEF Shape, TypeOK
<1>1. ASSUME txn' = txn, mem'[txn.owner] = mem[txn.owner]
      PROVE  InTo(mem'[txn'.owner], l)
  BY <1>1 DEF Ranged
<1>2. ASSUME NEW p \in Proc, NEW view \in DB, txn' = OpenTxn(p, view),
             mem'[p].cur = mem[p].cur, mem'[p].to = mem[p].to
      PROVE  InTo(mem'[txn'.owner], l)
  <2>1. txn'.owner = p /\ l \in Unapplied(view, mem[p].cur + 1, mem[p].to)
    BY <1>2, OpenTxnType
  <2>2. l.block \in (mem[p].cur + 1) .. mem[p].to /\ mem[p] \in Mem
    BY <1>0, <2>1 DEF Unapplied
  <2> QED
    BY <1>2, <2>1, <2>2 DEF InTo, Mem
<1>3. ASSUME NEW p \in Proc, Step(p) \/ Fail(p) \/ Crash(p),
             NEW n, mem' = [mem EXCEPT ![p] = n]
      PROVE  InTo(mem'[txn'.owner], l)
  <2>1. CASE UNCHANGED <<db, txn>> /\ ~At(p, "apply")
    <3>1. txn.owner \in Proc /\ txn.owner # p
      BY <2>1 DEF Shape, TypeOK, Owned
    <3>2. mem'[txn.owner] = mem[txn.owner]
      BY <1>0, <1>3, <3>1
    <3> QED
      BY <1>1, <2>1, <3>2
  <2>2. CASE MayWrite /\ UNCHANGED txn
    BY <2>2 DEF MayWrite
  <2>3. CASE TopicReply(p) /\ MayWrite
    <3> DEFINE m == mem[p]
    <3>1. m \in Mem /\ db \in DB
      BY <1>0 DEF Shape, TypeOK
    <3>2. PICK rows \in Reply(LogsOf(m.addrs, m)) :
            \/ UNCHANGED txn
            \/ /\ txn' = OpenTxn(p, InsertRows(db, rows))
               /\ mem' = [mem EXCEPT ![p] = [@ EXCEPT !.pc = "apply", !.addrs = {}]]
      BY <2>3 DEF TopicReply
    <3>3. /\ txn' = OpenTxn(p, InsertRows(db, rows))
          /\ mem' = [mem EXCEPT ![p] = [@ EXCEPT !.pc = "apply", !.addrs = {}]]
      BY <2>3, <3>2 DEF MayWrite
    <3>4. mem'[p].cur = m.cur /\ mem'[p].to = m.to
      BY <1>0, <3>1, <3>3 DEF Mem
    <3>5. InsertRows(db, rows) \in DB
      BY <3>1, ReplyRows, InsertRowsType
    <3> QED
      BY <1>2, <3>3, <3>4, <3>5
  <2>4. CASE BatchesDone(p) /\ MayWrite
    <3>1. /\ txn' = OpenTxn(p, db)
          /\ mem' = [mem EXCEPT ![p] = [mem[p] EXCEPT !.pc = "apply"]]
      BY <1>0, <2>4 DEF BatchesDone, MayWrite
    <3>2. mem'[p].cur = mem[p].cur /\ mem'[p].to = mem[p].to
      BY <1>0, <3>1 DEF Mem
    <3> QED
      BY <1>2, <3>1, <3>2 DEF Shape, TypeOK
  <2>5. CASE ApplyNextRow(p)
    <3>1. txn # NoTxn /\ txn'.owner = txn.owner /\ txn'.todo \subseteq txn.todo /\ mem' = mem
      BY <2>5, TxnRecord DEF ApplyNextRow
    <3> QED
      BY <3>1 DEF Ranged
  <2>6. CASE Commit(p) \/ txn' = NoTxn
    BY <2>6 DEF Commit
  <2> QED
    BY <1>3, <2>1, <2>2, <2>3, <2>4, <2>5, <2>6, StepKinds
<1>4. CASE UNCHANGED <<txn, mem>>
  BY <1>1, <1>4
<1> QED
  BY <1>3, <1>4, OneMoves

(* The network does not put a Transfer before one that is applied. *)
LEMMA OrderStays ==
    ASSUME Shape, [Next]_vars, NEW d, RootedDB(d), d.applied \subseteq d.events, OrderedIn(d),
           NEW e, e.applied = d.applied
    PROVE  \A k \in e.applied, l \in chain' : IsTransfer(l) /\ Before(l, k) => l \in e.applied
<1> SUFFICES ASSUME NEW k \in d.applied, NEW l \in chain', IsTransfer(l), Before(l, k)
             PROVE  l \in d.applied
  OBVIOUS
<1>1. Final(k)
  BY DEF RootedDB
<1>2. /\ Solid(chain, chain', head - Confirmations)
      /\ chain \in Fork /\ chain' \in Fork /\ head \in Int /\ Confirmations \in Int
  BY ChainKept, Constants DEF Shape, TypeOK
<1>3. k.block \in Int /\ l.block \in Int
  BY <1>1, <1>2, ChainLogs DEF Final
<1>4. l.block <= head - Confirmations
  BY <1>1, <1>2, <1>3 DEF Final, Before
<1>5. l \in chain
  BY <1>2, <1>4 DEF Solid
<1> QED
  BY <1>5 DEF OrderedIn

(* The row applied next has every earlier Transfer of the chain behind it: *)
(* those below the range are in the store, those in it come first.         *)
LEMMA ApplyOrdered ==
    ASSUME Shape, TodoOK, Rooted, Streamed, Covered, Ordered, NEW p \in Proc, ApplyNextRow(p)
    PROVE  OrderedIn(txn'.view)
<1> DEFINE m == mem[p]
<1>1. /\ txn # NoTxn /\ txn.owner = p /\ m \in Mem /\ chain \in Fork
      /\ m.pc = "apply" /\ m.stream = "token" /\ MemCov(chain, db, m)
  BY TxnRecord DEF Shape, TypeOK, ApplyNextRow, At, Streamed, StreamOK, Covered
<1>2. PICK k \in txn.todo :
        /\ \A l \in txn.todo : ~Before(l, k)
        /\ txn'.view.applied = txn.view.applied \cup {k}
  BY ApplyFacts
<1>3. OrderedIn(txn.view) /\ InTo(m, k) /\ TxnCov(chain, db, txn, m) /\ k \in txn.view.events
  BY <1>1 DEF Ordered, Ranged, Covered, TodoOK
<1>4. k \in chain
  BY <1>1, <1>3 DEF Rooted, RootedDB, Final
<1>5. ASSUME NEW l \in chain, IsTransfer(l), Before(l, k)
      PROVE  l \in txn.view.applied
  <2>1. l.block \in Int /\ k.block \in Int /\ m.cur \in Int /\ m.to \in Int /\ l.kind # "Created"
    BY <1>1, <1>4, <1>5, ChainLogs DEF Mem, IsTransfer
  <2>2. l.block <= m.to
    BY <1>3, <1>5, <2>1 DEF InTo, Before
  <2>3. CASE l.block <= m.cur
    <3>1. Stored(chain, db, m.cur)
      BY <1>1 DEF MemCov, TokenCov
    <3> QED
      BY <1>3, <1>5, <2>1, <2>3, <3>1 DEF Stored, TxnCov, Grows
  <2>4. CASE m.cur < l.block
    <3>1. InTo(m, l)
      BY <2>2, <2>4 DEF InTo
    <3> QED
      BY <1>2, <1>3, <1>5, <2>1, <3>1 DEF TxnCov
  <2> QED
    BY <2>1, <2>3, <2>4
<1> QED
  BY <1>2, <1>3, <1>5 DEF OrderedIn

LEMMA OrderedStep ==
    ASSUME Typed, Counted, Rooted, Streamed, Covered, Ordered, [Next]_vars
    PROVE  Ordered'
<1>0. /\ Shape /\ TodoOK /\ db \in DB
      /\ RootedDB(db) /\ (txn # NoTxn => RootedDB(txn.view))
      /\ db.applied \subseteq db.events
      /\ txn # NoTxn => txn.view.applied \subseteq txn.view.events
  BY DEF Typed, Shape, TypeOK, Rooted, Counted, Exact, TransferCountExact
<1>1. CASE UNCHANGED vars
  BY <1>1 DEF vars, Ordered, Ranged, OrderedIn, InTo
<1>2. CASE Next
  <2>1. Ranged'
    BY <1>0, <1>2, RangedStep DEF Ordered
  <2>2. ASSUME NEW d, d = db \/ (txn # NoTxn /\ d = txn.view), NEW e, e.applied = d.applied
        PROVE  \A k \in e.applied, l \in chain' : IsTransfer(l) /\ Before(l, k) => l \in e.applied
    BY <1>0, <2>2, OrderStays DEF Ordered
  <2>3. CASE UNCHANGED <<db, txn>>
    BY <2>1, <2>2, <2>3 DEF Ordered, OrderedIn
  <2>4. CASE \/ \E t \in Token : db' = InsertToken(db, t) /\ UNCHANGED txn
             \/ \E rows \in SUBSET Log : db' = InsertRows(db, rows) /\ UNCHANGED txn
    <3>1. db'.applied = db.applied /\ txn' = txn
      <4>1. ASSUME NEW t \in Token
            PROVE  InsertToken(db, t).applied = db.applied
        BY <1>0 DEF InsertToken, DB
      <4> QED
        BY <1>0, <2>4, <4>1, InsertRowsType
    <3> QED
      BY <2>1, <2>2, <3>1 DEF Ordered, OrderedIn
  <2>5. CASE /\ UNCHANGED db
             /\ \E p \in Proc :
                   \/ txn' = OpenTxn(p, db)
                   \/ \E rows \in SUBSET Log : txn' = OpenTxn(p, InsertRows(db, rows))
    <3>1. txn'.view.applied = db.applied /\ db' = db
      BY <1>0, <2>5, InsertRowsType DEF OpenTxn
    <3> QED
      BY <2>1, <2>2, <3>1 DEF Ordered, OrderedIn
  <2>6. ASSUME NEW p \in Proc, ApplyNextRow(p)
        PROVE  Ordered'
    <3>1. OrderedIn(txn'.view)
      BY <1>0, <2>6, ApplyOrdered
    <3>2. chain' = chain /\ db' = db
      BY <2>6 DEF ApplyNextRow
    <3> QED
      BY <2>1, <3>1, <3>2 DEF Ordered, OrderedIn
  <2>7. ASSUME NEW p \in Proc, Commit(p)
        PROVE  Ordered'
    <3>1. db' = txn.view /\ txn' = NoTxn /\ txn # NoTxn
      BY <1>0, <2>7, TxnRecord DEF Commit
    <3> QED
      BY <2>1, <2>2, <3>1 DEF Ordered, OrderedIn
  <2>8. CASE UNCHANGED db /\ txn' = NoTxn
    BY <2>1, <2>2, <2>8 DEF Ordered, OrderedIn
  <2> QED
    BY <1>0, <1>2, <2>3, <2>4, <2>5, <2>6, <2>7, <2>8, StoreEffects
<1> QED
  BY <1>1, <1>2

LEMMA InitOrdered == Init => Ordered
BY DEF Init, InitStore, EmptyDB, Ordered, OrderedIn, Ranged

(* The order of application, with the range a transaction works on. *)
THEOREM OrderedInvariant == ASSUME ~ShortReplies PROVE Spec => []Ordered
<1>1. Typed /\ Counted /\ Rooted /\ Streamed /\ Covered /\ Ordered /\ [Next]_vars => Ordered'
  BY OrderedStep
<1> QED
  BY <1>1, InitOrdered, TypedInvariant, CountedInvariant, RootedInvariant, StreamedInvariant,
     CoveredInvariant, PTL DEF Spec

(* Transfers take effect in chain order, whatever the live stream stored   *)
(* first and however many processes apply: the clamp at zero of            *)
(* applyTransfer never sees a later Transfer before an earlier one.        *)
THEOREM TransfersInOrder == Spec => []AppliedInOrder
<1>1. CASE ShortReplies
  <2>1. AppliedInOrder
    BY <1>1 DEF AppliedInOrder
  <2> QED
    BY <2>1, PTL
<1>2. CASE ~ShortReplies
  <2>1. Ordered => AppliedInOrder
    BY DEF Ordered, OrderedIn, AppliedInOrder
  <2> QED
    BY <1>2, <2>1, OrderedInvariant, PTL
<1> QED
  BY <1>1, <1>2

-----------------------------------------------------------------------------
(* The flags.                                                              *)

FlagsDB(d) == AdminExact(d) /\ NonMintExact(d)
Flagged == FlagsDB(db) /\ (txn # NoTxn => FlagsDB(txn.view))

(* Rows of one chain have an order. *)
LEMMA ChainRanked == ASSUME Shape, NEW E \in SUBSET chain PROVE Ranked(E)
BY ForkAssumption DEF Shape, TypeOK, Ranked

(* The flags depend on three columns. *)
LEMMA FlagsKept ==
    ASSUME NEW d, NEW e, FlagsDB(d), e.events = d.events,
           e.adminActive = d.adminActive, e.nonMint = d.nonMint
    PROVE  FlagsDB(e)
BY FlagsMeaning DEF FlagsDB, NonMintExact

LEMMA InitFlagged == Init => Flagged
<1> SUFFICES ASSUME Init PROVE Flagged
  OBVIOUS
<1>1. /\ db.events = {} /\ txn = NoTxn
      /\ \A t \in Token : db.adminActive[t] = FALSE /\ db.nonMint[t] = FALSE
  BY DEF Init, InitStore, EmptyDB
<1>2. AdminExact(db)
  BY <1>1, FlagsMeaning DEF NewestGrants
<1> QED
  BY <1>1, <1>2 DEF Flagged, FlagsDB, NonMintExact

LEMMA FlaggedStep ==
    ASSUME Typed, Rooted, Flagged, [Next]_vars
    PROVE  Flagged'
<1>0. db \in DB /\ Shape /\ TodoOK /\ db.events \subseteq chain
  BY DEF Typed, Shape, TypeOK, Rooted, RootedDB, Final
<1>1. ASSUME FlagsDB(db'), txn' # NoTxn => FlagsDB(txn'.view)
      PROVE  Flagged'
  BY <1>1 DEF Flagged, FlagsDB, AdminExact, NonMintExact, RoleHistory
<1>2. ASSUME NEW rows \in SUBSET Log, \A l \in rows : Final(l)
      PROVE  FlagsDB(InsertRows(db, rows))
  <2>1. Ranked(rows \cup db.events)
    BY <1>0, <1>2, ChainRanked DEF Final
  <2> QED
    BY <1>0, <2>1, InsertRowsFlags DEF Flagged, FlagsDB
<1>3. CASE UNCHANGED <<db, txn>>
  BY <1>1, <1>3 DEF Flagged
<1>4. ASSUME NEW t \in Token, db' = InsertToken(db, t), UNCHANGED txn
      PROVE  Flagged'
  <2>1. /\ db'.events = db.events /\ db'.adminActive = db.adminActive
        /\ db'.nonMint = db.nonMint
    BY <1>0, <1>4 DEF InsertToken, DB
  <2>2. FlagsDB(db')
    BY <2>1, FlagsKept DEF Flagged
  <2> QED
    BY <1>1, <1>4, <2>2 DEF Flagged
<1>5. CASE \E rows \in SUBSET Log : /\ db' = InsertRows(db, rows) /\ UNCHANGED txn
                                    /\ \A l \in rows : Final(l)
  BY <1>1, <1>2, <1>5 DEF Flagged
<1>6. CASE /\ UNCHANGED db
           /\ \E p \in Proc :
                 \/ txn' = OpenTxn(p, db)
                 \/ \E rows \in SUBSET Log : /\ txn' = OpenTxn(p, InsertRows(db, rows))
                                             /\ \A l \in rows : Final(l)
  <2>1. FlagsDB(txn'.view)
    BY <1>2, <1>6 DEF OpenTxn, Flagged
  <2> QED
    BY <1>1, <1>6, <2>1 DEF Flagged
<1>7. ASSUME NEW p \in Proc, ApplyNextRow(p)
      PROVE  Flagged'
  <2>1. PICK l \in txn.todo :
          /\ l \in Log /\ IsTransfer(l)
          /\ l \in txn.view.events /\ l \notin txn.view.applied
          /\ txn.view \in DB
          /\ txn'.view = InsertTransferAndApply(txn.view, l)
          /\ txn'.view.events = txn.view.events
          /\ txn # NoTxn
    BY <1>0, <1>7, ApplyFacts
  <2>2. FlagsDB(txn'.view)
    BY <2>1, ApplyStoredFlags, FlagsKept DEF Flagged
  <2>3. db' = db
    BY <1>7 DEF ApplyNextRow
  <2> QED
    BY <1>1, <2>2, <2>3 DEF Flagged
<1>8. ASSUME NEW p \in Proc, Commit(p)
      PROVE  Flagged'
  <2>1. db' = txn.view /\ txn' = NoTxn /\ txn # NoTxn
    BY <1>0, <1>8, TxnRecord DEF Commit
  <2> QED
    BY <1>1, <2>1 DEF Flagged
<1>9. CASE UNCHANGED db /\ txn' = NoTxn
  BY <1>1, <1>9 DEF Flagged
<1> QED
  BY <1>0, <1>3, <1>4, <1>5, <1>6, <1>7, <1>8, <1>9, StoreEffects DEF vars

(* The flags of the store and of the open transaction are exact. *)
THEOREM FlaggedInvariant == Spec => []Flagged
<1>1. Typed /\ Rooted /\ Flagged /\ [Next]_vars => Flagged'
  BY FlaggedStep
<1> QED
  BY <1>1, InitFlagged, TypedInvariant, RootedInvariant, PTL DEF Spec

(* admin_active says whether some admin role's newest stored change is a   *)
(* grant, and has_non_mint_transfer whether a stored Transfer is not a     *)
(* mint, though the live stream stores newer rows before older ones, short *)
(* replies leave rows out and other processes store them later.            *)
THEOREM FlagsCorrect == Spec => []FlagsExact
<1>1. Flagged => FlagsExact
  BY DEF Flagged, FlagsDB, FlagsExact
<1> QED
  BY <1>1, FlaggedInvariant, PTL

-----------------------------------------------------------------------------
(* Rows and the tokens they belong to.                                     *)

EmittersDB(d) == \A l \in d.events : l.token \in d.tokens

Emitters ==
    /\ EmittersDB(db)
    /\ txn # NoTxn => EmittersDB(txn.view) /\ db.tokens \subseteq txn.view.tokens
    /\ \A p \in Proc : mem[p].addrs \subseteq db.tokens

(* The list of known tokens is read from the store, and only shrinks. *)
LEMMA AddrsEffects ==
    ASSUME Shape, Next, NEW q \in Proc
    PROVE  mem'[q].addrs \subseteq mem[q].addrs \cup db.tokens
<1>0. mem \in [Proc -> Mem]
  BY DEF Shape, TypeOK
<1>1. ASSUME NEW p \in Proc, NEW n, mem' = [mem EXCEPT ![p] = n],
             n.addrs \subseteq mem[p].addrs \cup db.tokens
      PROVE  mem'[q].addrs \subseteq mem[q].addrs \cup db.tokens
  BY <1>0, <1>1
<1>2. CASE UNCHANGED mem
  BY <1>2
<1>3. ASSUME NEW p \in Proc, Fail(p) \/ Crash(p)
      PROVE  mem'[q].addrs \subseteq mem[q].addrs \cup db.tokens
  <2>1. Down.addrs = {} /\ Idle(mem[p]).addrs = {}
    BY DEF Down, Idle
  <2> QED
    BY <1>1, <1>3, <2>1 DEF Fail, Crash
<1>4. ASSUME NEW p \in Proc, Step(p)
      PROVE  mem'[q].addrs \subseteq mem[q].addrs \cup db.tokens
  <2> DEFINE m == mem[p]
  <2>0. m \in Mem
    BY <1>0
  <2>1. CASE Start(p)
    <3>1. PICK s, F, T, L :
            mem' = [mem EXCEPT ![p] =
              [Down EXCEPT !.pc = "drain", !.boot = TRUE, !.safe = s,
                 !.F = F, !.cur = F, !.T = T, !.L = L]]
      BY <2>1 DEF Start
    <3> QED
      BY <1>0, <3>1 DEF Down
  <2>2. CASE Tick(p)
    BY <1>0, <2>0, <2>2 DEF Tick, Mem
  <2>3. CASE FactoryFetch(p)
    <3>1. PICK to, td : mem' = [mem EXCEPT ![p] = [m EXCEPT !.pc = "tokens", !.to = to, !.todo = td]]
      BY <2>3 DEF FactoryFetch
    <3> QED
      BY <1>0, <2>0, <3>1 DEF Mem
  <2>4. CASE InsertNextToken(p)
    BY <1>0, <2>0, <2>4 DEF InsertNextToken, Mem
  <2>5. CASE SetFactoryCursor(p)
    BY <1>0, <2>0, <2>5 DEF SetFactoryCursor, Mem
  <2>6. CASE PublishCursor(p)
    BY <1>0, <2>0, <2>6 DEF PublishCursor, Mem
  <2>7. CASE FactoryDone(p)
    <3>1. PICK s, c : mem' = [mem EXCEPT ![p] = [m EXCEPT !.F = m.cur, !.stream = s, !.cur = c]]
      BY <2>7 DEF FactoryDone
    <3> QED
      BY <1>0, <2>0, <3>1 DEF Mem
  <2>8. CASE RangeBegin(p)
    <3>1. PICK pc, to : mem' = [mem EXCEPT ![p] = [m EXCEPT !.pc = pc, !.to = to, !.addrs = db.tokens]]
      BY <2>8 DEF RangeBegin
    <3> QED
      BY <1>0, <2>0, <3>1 DEF Mem
  <2>9. CASE TopicReply(p)
    <3>1. PICK pc : mem' = [mem EXCEPT ![p] = [@ EXCEPT !.pc = pc, !.addrs = {}]]
      BY <2>9 DEF TopicReply
    <3> QED
      BY <1>0, <2>0, <3>1 DEF Mem
  <2>10. CASE AddressRequired(p)
    BY <1>0, <2>0, <2>10 DEF AddressRequired, Mem
  <2>11. CASE BatchReply(p)
    BY <1>0, <2>0, <2>11 DEF BatchReply, Mem
  <2>12. CASE BatchesDone(p)
    BY <1>0, <2>0, <2>12 DEF BatchesDone, Mem
  <2>13. CASE ApplyNextRow(p)
    BY <2>13 DEF ApplyNextRow
  <2>14. CASE Commit(p)
    BY <1>0, <2>0, <2>14 DEF Commit, Mem
  <2>15. CASE SetStreamCursor(p)
    <3>1. PICK r : mem' = [mem EXCEPT ![p] =
                     [m EXCEPT !.pc = "drain", !.cur = m.to, !.addrs = {}, !.ranges = r]]
      BY <2>15 DEF SetStreamCursor
    <3> QED
      BY <1>0, <2>0, <3>1 DEF Mem
  <2>16. CASE LiveDone(p)
    BY <1>0, <2>0, <2>16 DEF LiveDone, Mem
  <2>17. CASE TokenDone(p)
    <3>1. Down.addrs = {} /\ Idle([m EXCEPT !.T = m.cur]).addrs = {}
      BY DEF Down, Idle
    <3> QED
      BY <1>1, <2>17, <3>1 DEF TokenDone
  <2> QED
    BY <1>4, <2>1, <2>2, <2>3, <2>4, <2>5, <2>6, <2>7, <2>8, <2>9, <2>10, <2>11, <2>12,
       <2>13, <2>14, <2>15, <2>16, <2>17 DEF Step
<1>5. CASE Mine \/ Reorg
  BY <1>2, <1>5 DEF Mine, Reorg
<1> QED
  BY <1>3, <1>4, <1>5 DEF Next, Trouble

(* Rows come from the queried tokens. *)
LEMMA RowsKnown ==
    ASSUME Shape, Emitters, NEW p \in Proc, NEW tokens \in SUBSET mem[p].addrs,
           NEW rows \in Reply(LogsOf(tokens, mem[p]))
    PROVE  /\ EmittersDB(InsertRows(db, rows))
           /\ InsertRows(db, rows).tokens = db.tokens
<1>1. rows \in SUBSET Log /\ rows \subseteq LogsOf(tokens, mem[p]) /\ db \in DB
  BY ReplyRows DEF Shape, TypeOK
<1>2. \A l \in rows : l.token \in db.tokens
  BY <1>1 DEF LogsOf, Emitters
<1>3. /\ InsertRows(db, rows).events = rows \cup db.events
      /\ InsertRows(db, rows).tokens = db.tokens
  BY <1>1, InsertRowsType
<1> QED
  BY <1>2, <1>3 DEF EmittersDB, Emitters

LEMMA EmittersStep ==
    ASSUME Shape, TodoOK, Emitters, [Next]_vars
    PROVE  Emitters'
<1>0. db \in DB /\ mem \in [Proc -> Mem]
  BY DEF Shape, TypeOK
<1>1. CASE UNCHANGED vars
  BY <1>1 DEF vars, Emitters, EmittersDB
<1>2. CASE Next
  <2>1. ASSUME EmittersDB(db'), db.tokens \subseteq db'.tokens,
               txn' # NoTxn => EmittersDB(txn'.view) /\ db'.tokens \subseteq txn'.view.tokens
        PROVE  Emitters'
    <3>1. \A q \in Proc : mem'[q].addrs \subseteq db'.tokens
      BY <1>2, <2>1, AddrsEffects DEF Emitters
    <3> QED
      BY <2>1, <3>1 DEF Emitters, EmittersDB
  <2>2. CASE UNCHANGED <<db, txn>>
    BY <2>1, <2>2 DEF Emitters
  <2>3. ASSUME MayWrite, UNCHANGED txn, EmittersDB(db'), db.tokens \subseteq db'.tokens
        PROVE  Emitters'
    BY <2>1, <2>3 DEF MayWrite
  <2>4. ASSUME NEW p \in Proc, Step(p)
        PROVE  Emitters'
    <3>1. CASE UNCHANGED <<db, txn>>
      BY <2>2, <3>1
    <3>2. CASE InsertNextToken(p)
      <4>1. PICK l \in mem[p].todo : db' = InsertToken(db, l.token)
        BY <3>2 DEF InsertNextToken
      <4>2. db'.events = db.events /\ db'.tokens = db.tokens \cup {l.token}
        BY <1>0, <4>1 DEF InsertToken, DB
      <4>3. EmittersDB(db')
        BY <4>2 DEF EmittersDB, Emitters
      <4> QED
        BY <2>3, <3>2, <4>2, <4>3 DEF InsertNextToken
    <3>3. CASE TopicReply(p)
      <4>1. PICK rows \in Reply(LogsOf(mem[p].addrs, mem[p])) :
              \/ db' = InsertRows(db, rows) /\ UNCHANGED txn
              \/ txn' = OpenTxn(p, InsertRows(db, rows)) /\ UNCHANGED db
        BY <3>3 DEF TopicReply
      <4>2. EmittersDB(InsertRows(db, rows)) /\ InsertRows(db, rows).tokens = db.tokens
        BY RowsKnown
      <4>3. CASE db' = InsertRows(db, rows) /\ UNCHANGED txn
        BY <2>3, <3>3, <4>2, <4>3 DEF TopicReply
      <4>4. CASE txn' = OpenTxn(p, InsertRows(db, rows)) /\ UNCHANGED db
        BY <2>1, <4>2, <4>4 DEF OpenTxn, Emitters
      <4> QED
        BY <4>1, <4>3, <4>4
    <3>4. CASE BatchReply(p)
      <4>1. PICK batch \in SUBSET mem[p].addrs :
              \E rows \in Reply(LogsOf(batch, mem[p])) : db' = InsertRows(db, rows)
        BY <3>4 DEF BatchReply
      <4>2. PICK rows \in Reply(LogsOf(batch, mem[p])) : db' = InsertRows(db, rows)
        BY <4>1
      <4>3. EmittersDB(db') /\ db'.tokens = db.tokens
        BY <4>2, RowsKnown
      <4> QED
        BY <2>3, <3>4, <4>3 DEF BatchReply
    <3>5. CASE BatchesDone(p)
      <4>1. UNCHANGED db /\ (UNCHANGED txn \/ txn' = OpenTxn(p, db))
        BY <3>5 DEF BatchesDone
      <4> QED
        BY <2>1, <2>2, <4>1 DEF OpenTxn, Emitters
    <3>6. CASE ApplyNextRow(p)
      <4>1. /\ txn # NoTxn /\ txn'.view.events = txn.view.events
            /\ txn'.view.tokens = txn.view.tokens
        BY <3>6, ApplyFacts
      <4>2. db' = db
        BY <3>6 DEF ApplyNextRow
      <4> QED
        BY <2>1, <4>1, <4>2 DEF Emitters, EmittersDB
    <3>7. CASE Commit(p)
      <4>1. txn # NoTxn /\ db' = txn.view /\ txn' = NoTxn
        BY <3>7, TxnRecord DEF Commit
      <4> QED
        BY <2>1, <4>1 DEF Emitters
    <3>8. CASE Start(p) \/ Tick(p) \/ FactoryFetch(p) \/ FactoryDone(p) \/ RangeBegin(p)
               \/ AddressRequired(p) \/ LiveDone(p) \/ TokenDone(p)
               \/ SetFactoryCursor(p) \/ PublishCursor(p) \/ SetStreamCursor(p)
      BY <3>1, <3>8 DEF Start, Tick, FactoryFetch, FactoryDone, RangeBegin, AddressRequired,
         LiveDone, TokenDone, SetFactoryCursor, PublishCursor, SetStreamCursor
    <3> QED
      BY <2>4, <3>2, <3>3, <3>4, <3>5, <3>6, <3>7, <3>8 DEF Step
  <2>5. ASSUME NEW p \in Proc, Fail(p) \/ Crash(p)
        PROVE  Emitters'
    <3>1. UNCHANGED db /\ (UNCHANGED txn \/ txn' = NoTxn)
      BY <2>5 DEF Fail, Crash, Abandon
    <3> QED
      BY <2>1, <2>2, <3>1 DEF Emitters
  <2>6. CASE Mine \/ Reorg
    BY <2>2, <2>6 DEF Mine, Reorg
  <2> QED
    BY <1>2, <2>4, <2>5, <2>6 DEF Next, Trouble
<1> QED
  BY <1>1, <1>2

LEMMA InitEmitters == Init => Emitters
BY DEF Init, InitStore, EmptyDB, Emitters, EmittersDB, Down

(* Every stored row belongs to a listed token: that is what the filter     *)
(* isKnownB20Emitter is for.                                               *)
THEOREM EmittersInvariant == Spec => []Emitters
<1>1. Typed /\ Emitters /\ [Next]_vars => Emitters'
  BY EmittersStep DEF Typed
<1> QED
  BY <1>1, InitEmitters, TypedInvariant, PTL DEF Spec

-----------------------------------------------------------------------------
(* What the event cursor passes, when one process runs.                    *)

Lone == \A p, q \in Proc : p = q

(* The blocks the event cursor has been past. *)
Mark == Greatest(First, meta.token)

(* The stored Transfers of the range of memory m. *)
AppliedIn(d, m, todo) ==
    \A l \in d.events : IsTransfer(l) /\ InTo(m, l) => l \in d.applied \/ l \in todo

SureMem(d, m, mark) ==
    /\ m.pc # "down" => m.T <= mark
    /\ m.pc \notin {"down", "idle"} /\ m.stream = "token" => m.T <= m.cur /\ m.cur <= mark
    /\ m.pc = "cursor" /\ m.stream = "token" => AppliedIn(d, m, {})

Sure ==
    /\ \A p \in Proc : SureMem(db, mem[p], Mark)
    /\ txn # NoTxn => AppliedIn(txn.view, mem[txn.owner], txn.todo)

(* With one process, no transaction is open while it is not applying. *)
LEMMA LoneTxn ==
    ASSUME Shape, Lone, NEW p \in Proc, ~At(p, "apply")
    PROVE  txn = NoTxn
BY DEF Shape, Owned, TypeOK, Lone

(* A new transaction has all that is to be applied in its list. *)
LEMMA OpenSure ==
    ASSUME NEW p \in Proc, NEW view \in DB, mem[p] \in Mem,
           NEW n, n.cur = mem[p].cur, n.to = mem[p].to
    PROVE  AppliedIn(OpenTxn(p, view).view, n, OpenTxn(p, view).todo)
<1>1. OpenTxn(p, view).view = view
      /\ OpenTxn(p, view).todo = Unapplied(view, mem[p].cur + 1, mem[p].to)
  BY OpenTxnType
<1>2. ASSUME NEW l \in view.events, IsTransfer(l), InTo(n, l), l \notin view.applied
      PROVE  l \in Unapplied(view, mem[p].cur + 1, mem[p].to)
  <2>1. l.block \in Nat
    BY LogAssumption DEF DB
  <2> QED
    BY <1>2, <2>1 DEF Unapplied, InTo, Mem
<1> QED
  BY <1>1, <1>2 DEF AppliedIn

(* The start of a process, of a tick, of a factory range and of its end. *)
LEMMA SureFactory ==
    ASSUME Shape, Streamed, Lone, Sure, NEW p \in Proc,
           \/ Start(p) \/ Tick(p) \/ FactoryFetch(p) \/ InsertNextToken(p)
           \/ SetFactoryCursor(p) \/ PublishCursor(p) \/ FactoryDone(p)
    PROVE  SureMem(db', mem'[p], Mark')
<1> DEFINE m == mem[p]
<1>0. /\ mem \in [Proc -> Mem] /\ m \in Mem /\ StreamOK(m) /\ SureMem(db, m, Mark)
      /\ meta \in [factory : CursorValue, cursor : CursorValue,
                   token : CursorValue, live : CursorValue]
  BY DEF Shape, TypeOK, Streamed, Sure
<1>1. CASE Start(p)
  <2> DEFINE T == Cursor("token", First)
  <2>1. PICK s, F, L :
          mem' = [mem EXCEPT ![p] =
            [Down EXCEPT !.pc = "drain", !.boot = TRUE, !.safe = s,
               !.F = F, !.cur = F, !.T = T, !.L = L]]
    BY <1>1 DEF Start
  <2>2. mem'[p].pc = "drain" /\ mem'[p].stream = "factory" /\ mem'[p].T = T
    BY <1>0, <2>1 DEF Down
  <2>3. meta.token \in Int /\ First \in Int
    <3>1. CursorValue \subseteq Int
      BY Constants DEF CursorValue, Unset
    <3>2. meta.token \in CursorValue
      BY <1>0
    <3>3. First \in Int
      BY Constants
    <3> QED
      BY <3>1, <3>2, <3>3
  <2>5. Mark' = Mark
    BY <1>1 DEF Mark, Start
  <2>4. T <= Mark
    BY <2>3 DEF Cursor, Mark, Greatest
  <2> QED
    BY <2>2, <2>4, <2>5 DEF SureMem
<1>2. CASE FactoryDone(p)
  <2>0. PICK s \in {"token", "live"} : \E c :
          /\ mem' = [mem EXCEPT ![p] = [m EXCEPT !.F = m.cur, !.stream = s, !.cur = c]]
          /\ s = "token" => c = m.T
    BY <1>2 DEF FactoryDone
  <2>1. PICK c :
          /\ mem' = [mem EXCEPT ![p] = [m EXCEPT !.F = m.cur, !.stream = s, !.cur = c]]
          /\ s = "token" => c = m.T
    BY <2>0
  <2>a. m.pc = "drain"
    BY <1>2 DEF FactoryDone, In
  <2>2. /\ mem'[p].pc = "drain" /\ mem'[p].stream = s
        /\ mem'[p].T = m.T /\ mem'[p].cur = c /\ m.T \in Int
    BY <1>0, <2>1, <2>a DEF Mem
  <2>3. Mark' = Mark
    BY <1>2 DEF FactoryDone, Mark
  <2> QED
    BY <1>0, <2>1, <2>2, <2>3, <2>a DEF SureMem
<1>3. CASE Tick(p)
  <2>0. PICK s \in SafeHead :
          mem' = [mem EXCEPT ![p] = [m EXCEPT !.pc = "drain", !.safe = s, !.cur = m.F]]
    BY <1>3 DEF Tick
  <2>1. /\ mem'[p].pc = "drain" /\ mem'[p].stream = m.stream /\ mem'[p].T = m.T /\ m.pc = "idle"
    BY <1>0, <1>3, <2>0 DEF Tick, Mem, At
  <2>2. Mark' = Mark
    BY <1>3 DEF Tick, Mark
  <2> QED
    BY <1>0, <2>1, <2>2 DEF SureMem, StreamOK
<1>4. CASE FactoryFetch(p)
  <2>1. PICK to, td : mem' = [mem EXCEPT ![p] = [m EXCEPT !.pc = "tokens", !.to = to, !.todo = td]]
    BY <1>4 DEF FactoryFetch
  <2>2. /\ mem'[p].pc = "tokens" /\ mem'[p].stream = "factory" /\ mem'[p].T = m.T /\ m.pc = "drain"
    BY <1>0, <1>4, <2>1 DEF FactoryFetch, Mem, In
  <2>3. Mark' = Mark
    BY <1>4 DEF FactoryFetch, Mark
  <2> QED
    BY <1>0, <2>2, <2>3 DEF SureMem
<1>5. CASE InsertNextToken(p)
  <2>1. /\ m.pc = "tokens" /\ mem'[p].pc = "tokens" /\ mem'[p].stream = m.stream /\ mem'[p].T = m.T
    BY <1>0, <1>5 DEF InsertNextToken, Mem, At
  <2>2. Mark' = Mark
    BY <1>5 DEF InsertNextToken, Mark
  <2> QED
    BY <1>0, <2>1, <2>2 DEF SureMem, StreamOK
<1>6. CASE SetFactoryCursor(p)
  <2>1. /\ m.pc = "tokens" /\ mem'[p].pc = "publish" /\ mem'[p].stream = m.stream /\ mem'[p].T = m.T
    BY <1>0, <1>6 DEF SetFactoryCursor, Mem, At
  <2>2. Mark' = Mark
    BY <1>0, <1>6 DEF SetFactoryCursor, Mark
  <2> QED
    BY <1>0, <2>1, <2>2 DEF SureMem, StreamOK
<1>7. CASE PublishCursor(p)
  <2>1. /\ m.pc = "publish" /\ mem'[p].pc = "drain" /\ mem'[p].stream = m.stream /\ mem'[p].T = m.T
    BY <1>0, <1>7 DEF PublishCursor, Mem, At
  <2>2. Mark' = Mark
    BY <1>0, <1>7 DEF PublishCursor, Mark
  <2> QED
    BY <1>0, <2>1, <2>2 DEF SureMem, StreamOK
<1> QED
  BY <1>1, <1>2, <1>3, <1>4, <1>5, <1>6, <1>7

(* A range of the live or the event stream. *)
LEMMA SureRange ==
    ASSUME Shape, Streamed, Emitters, Lone, Sure, NEW p \in Proc,
           \/ RangeBegin(p) \/ TopicReply(p) \/ AddressRequired(p) \/ BatchReply(p)
           \/ BatchesDone(p) \/ ApplyNextRow(p) \/ Commit(p)
    PROVE  SureMem(db', mem'[p], Mark')
<1> DEFINE m == mem[p]
<1>0. /\ mem \in [Proc -> Mem] /\ m \in Mem /\ StreamOK(m) /\ SureMem(db, m, Mark)
  BY DEF Shape, TypeOK, Streamed, Sure
<1>1. Mark' = Mark
  BY DEF RangeBegin, TopicReply, AddressRequired, BatchReply, BatchesDone, ApplyNextRow, Commit, Mark
<1>2. ASSUME m.pc \notin {"down", "idle"}, mem'[p].pc \notin {"down", "idle"},
             mem'[p].stream = m.stream,
             mem'[p].T = m.T, mem'[p].cur = m.cur,
             mem'[p].pc = "cursor" /\ m.stream = "token" => AppliedIn(db', mem'[p], {})
      PROVE  SureMem(db', mem'[p], Mark')
  BY <1>0, <1>1, <1>2 DEF SureMem
<1>3. CASE RangeBegin(p)
  <2>1. PICK to :
          mem' = [mem EXCEPT ![p] =
            [m EXCEPT !.pc = IF db.tokens = {} THEN "cursor" ELSE "logs", !.to = to, !.addrs = db.tokens]]
    BY <1>3 DEF RangeBegin
  <2>2. /\ m.pc = "drain" /\ mem'[p].pc \in {"cursor", "logs"} /\ mem'[p].stream = m.stream
        /\ mem'[p].T = m.T /\ mem'[p].cur = m.cur
        /\ mem'[p].pc = "cursor" => db.tokens = {}
    BY <1>0, <1>3, <2>1 DEF RangeBegin, At, Mem
  <2>3. db.tokens = {} => db.events = {}
    BY DEF Emitters, EmittersDB
  <2>4. db' = db
    BY <1>3 DEF RangeBegin
  <2> QED
    BY <1>2, <2>2, <2>3, <2>4 DEF AppliedIn
<1>4. CASE TopicReply(p)
  <2>1. PICK pc : /\ mem' = [mem EXCEPT ![p] = [@ EXCEPT !.pc = pc, !.addrs = {}]]
                  /\ IF m.stream = "live" THEN pc = "cursor" ELSE pc = "apply"
    BY <1>4 DEF TopicReply
  <2>2. /\ m.pc = "logs" /\ mem'[p].pc = pc /\ mem'[p].stream = m.stream
        /\ mem'[p].T = m.T /\ mem'[p].cur = m.cur
    BY <1>0, <1>4, <2>1 DEF TopicReply, At, Mem
  <2> QED
    BY <1>2, <2>1, <2>2
<1>5. CASE AddressRequired(p)
  <2>1. /\ m.pc = "logs" /\ mem'[p].pc = "batch" /\ mem'[p].stream = m.stream
        /\ mem'[p].T = m.T /\ mem'[p].cur = m.cur
    BY <1>0, <1>5 DEF AddressRequired, At, Mem
  <2> QED
    BY <1>2, <2>1
<1>6. CASE BatchReply(p)
  <2>1. /\ m.pc = "batch" /\ mem'[p].pc = "batch" /\ mem'[p].stream = m.stream
        /\ mem'[p].T = m.T /\ mem'[p].cur = m.cur
    BY <1>0, <1>6 DEF BatchReply, At, Mem
  <2> QED
    BY <1>2, <2>1
<1>7. CASE BatchesDone(p)
  <2>1. PICK pc : /\ mem' = [mem EXCEPT ![p] = [m EXCEPT !.pc = pc]]
                  /\ IF m.stream = "live" THEN pc = "cursor" ELSE pc = "apply"
    BY <1>0, <1>7 DEF BatchesDone
  <2>2. /\ m.pc = "batch" /\ mem'[p].pc = pc /\ mem'[p].stream = m.stream
        /\ mem'[p].T = m.T /\ mem'[p].cur = m.cur
    BY <1>0, <1>7, <2>1 DEF BatchesDone, At, Mem
  <2> QED
    BY <1>2, <2>1, <2>2
<1>8. CASE ApplyNextRow(p)
  BY <1>2, <1>8 DEF ApplyNextRow, At
<1>9. CASE Commit(p)
  <2>1. /\ m.pc = "apply" /\ mem'[p].stream = m.stream /\ mem'[p].pc = "cursor"
        /\ mem'[p].T = m.T /\ mem'[p].cur = m.cur /\ mem'[p].to = m.to
    BY <1>0, <1>9 DEF Commit, At, Mem
  <2>2. txn # NoTxn /\ txn.owner = p /\ txn.todo = {} /\ db' = txn.view
    BY <1>9, TxnRecord DEF Commit
  <2>3. AppliedIn(db', mem'[p], {})
    BY <2>1, <2>2 DEF Sure, AppliedIn, InTo
  <2> QED
    BY <1>2, <2>1, <2>3
<1> QED
  BY <1>3, <1>4, <1>5, <1>6, <1>7, <1>8, <1>9

(* A range is over, a stream is, or the process stops. *)
LEMMA SureEnd ==
    ASSUME Shape, Streamed, Lone, Sure, NEW p \in Proc,
           SetStreamCursor(p) \/ LiveDone(p) \/ TokenDone(p) \/ Fail(p) \/ Crash(p)
    PROVE  SureMem(db', mem'[p], Mark')
<1> DEFINE m == mem[p]
<1>0. /\ mem \in [Proc -> Mem] /\ m \in Mem /\ StreamOK(m) /\ SureMem(db, m, Mark) /\ MemBound(m)
      /\ meta \in [factory : CursorValue, cursor : CursorValue,
                   token : CursorValue, live : CursorValue]
  BY DEF Shape, TypeOK, Streamed, Sure
<1>1. \A d, mark : SureMem(d, Down, mark)
  BY DownFields DEF SureMem
<1>2. CASE SetStreamCursor(p)
  <2>1. PICK r : mem' = [mem EXCEPT ![p] =
                   [m EXCEPT !.pc = "drain", !.cur = m.to, !.addrs = {}, !.ranges = r]]
    BY <1>2 DEF SetStreamCursor
  <2>2. /\ m.pc = "cursor" /\ mem'[p].pc = "drain" /\ mem'[p].stream = m.stream
        /\ mem'[p].T = m.T /\ mem'[p].cur = m.to
        /\ m.T \in Int /\ m.cur \in Int /\ m.to \in Int /\ m.cur < m.to
    BY <1>0, <1>2, <2>1 DEF SetStreamCursor, At, Mem, MemBound, InRange
  <2>3. m.stream \in {"live", "token"} /\ meta' = [meta EXCEPT ![m.stream] = m.to]
    BY <1>0, <1>2, <2>2 DEF SetStreamCursor, StreamOK, Mem, Stream
  <2>4. CASE m.stream = "live"
    <3>1. Mark' = Mark
      BY <1>0, <2>3, <2>4 DEF Mark
    <3> QED
      BY <1>0, <2>2, <2>4, <3>1 DEF SureMem
  <2>5. CASE m.stream = "token"
    <3>1. Mark' = Greatest(First, m.to)
      BY <1>0, <2>3, <2>5 DEF Mark
    <3>2. m.to <= Mark' /\ m.T <= m.to /\ m.T <= Mark'
      BY <1>0, <2>2, <2>5, <3>1, Constants DEF Greatest, SureMem
    <3> QED
      BY <2>2, <3>2 DEF SureMem
  <2> QED
    BY <2>3, <2>4, <2>5
<1>3. CASE LiveDone(p)
  <2>1. mem' = [mem EXCEPT ![p] = [m EXCEPT !.L = m.cur, !.stream = "token", !.cur = m.T]]
    BY <1>3 DEF LiveDone
  <2>2. /\ m.pc = "drain" /\ mem'[p].pc = "drain" /\ mem'[p].T = m.T /\ mem'[p].cur = m.T
        /\ m.T \in Int
    BY <1>0, <1>3, <2>1 DEF LiveDone, In, Mem
  <2>3. Mark' = Mark
    BY <1>3 DEF LiveDone, Mark
  <2> QED
    BY <1>0, <2>2, <2>3 DEF SureMem
<1>4. CASE TokenDone(p)
  <2> DEFINE k == [m EXCEPT !.T = m.cur]
  <2>1. k \in Mem /\ k.T = m.cur /\ m.pc = "drain" /\ m.stream = "token"
    BY <1>0, <1>4 DEF Mem, TokenDone, In
  <2>2. mem'[p] = Down \/ mem'[p] = Idle(k)
    BY <1>0, <1>4 DEF TokenDone
  <2>3. Mark' = Mark
    BY <1>4 DEF TokenDone, Mark
  <2> HIDE DEF k
  <2>4. Idle(k).pc = "idle" /\ Idle(k).T = m.cur
    BY <2>1, IdleFields
  <2> QED
    BY <1>0, <1>1, <2>1, <2>2, <2>3, <2>4 DEF SureMem
<1>5. CASE Fail(p) \/ Crash(p)
  <2>1. m.pc # "down" /\ (mem'[p] = Down \/ mem'[p] = Idle(m))
    BY <1>0, <1>5 DEF Fail, Crash, At
  <2>2. Mark' = Mark
    BY <1>5 DEF Fail, Crash, Mark
  <2> QED
    BY <1>0, <1>1, <2>1, <2>2, IdleFields DEF SureMem
<1> QED
  BY <1>2, <1>3, <1>4, <1>5

(* What an open transaction still has to apply. *)
LEMMA SureTxn ==
    ASSUME Shape, TodoOK, Streamed, Lone, Sure, NEW p \in Proc, Step(p) \/ Fail(p) \/ Crash(p),
           txn' # NoTxn
    PROVE  AppliedIn(txn'.view, mem'[p], txn'.todo)
<1> DEFINE m == mem[p]
<1>0. mem \in [Proc -> Mem] /\ m \in Mem /\ db \in DB
  BY DEF Shape, TypeOK
<1>1. CASE UNCHANGED <<db, txn>> /\ ~At(p, "apply")
  BY <1>1, LoneTxn
<1>2. CASE TopicReply(p) /\ MayWrite
  <2>1. PICK rows \in Reply(LogsOf(m.addrs, m)) :
          \/ UNCHANGED txn
          \/ /\ txn' = OpenTxn(p, InsertRows(db, rows))
             /\ mem' = [mem EXCEPT ![p] = [@ EXCEPT !.pc = "apply", !.addrs = {}]]
    BY <1>2 DEF TopicReply
  <2>2. /\ txn' = OpenTxn(p, InsertRows(db, rows))
        /\ mem' = [mem EXCEPT ![p] = [@ EXCEPT !.pc = "apply", !.addrs = {}]]
    BY <1>2, <2>1 DEF MayWrite
  <2>3. mem'[p].cur = m.cur /\ mem'[p].to = m.to
    BY <1>0, <2>2 DEF Mem
  <2>4. InsertRows(db, rows) \in DB
    BY <1>0, ReplyRows, InsertRowsType
  <2> QED
    BY <1>0, <2>2, <2>3, <2>4, OpenSure
<1>3. CASE BatchesDone(p) /\ MayWrite
  <2>1. /\ txn' = OpenTxn(p, db)
        /\ mem' = [mem EXCEPT ![p] = [m EXCEPT !.pc = "apply"]]
    BY <1>0, <1>3 DEF BatchesDone, MayWrite
  <2>2. mem'[p].cur = m.cur /\ mem'[p].to = m.to
    BY <1>0, <2>1 DEF Mem
  <2> QED
    BY <1>0, <2>1, <2>2, OpenSure
<1>4. CASE ApplyNextRow(p)
  <2>1. txn # NoTxn /\ txn.owner = p /\ mem' = mem
    BY <1>4, TxnRecord DEF ApplyNextRow
  <2>2. PICK l \in txn.todo :
          /\ txn'.view.events = txn.view.events
          /\ txn'.view.applied = txn.view.applied \cup {l}
          /\ txn'.todo = txn.todo \ {l}
    BY <1>4, ApplyFacts
  <2> QED
    BY <2>1, <2>2 DEF Sure, AppliedIn
<1>5. CASE MayWrite /\ UNCHANGED txn
  BY <1>5 DEF MayWrite
<1>6. CASE Commit(p) \/ txn' = NoTxn
  BY <1>6 DEF Commit
<1> QED
  BY <1>1, <1>2, <1>3, <1>4, <1>5, <1>6, StepKinds

LEMMA SureStep ==
    ASSUME Typed, Streamed, Emitters, Lone, Sure, [Next]_vars
    PROVE  Sure'
<1>0. Shape /\ TodoOK /\ Shape'
  BY ShapeStep DEF Typed
<1>1. CASE UNCHANGED <<db, meta, txn, mem>>
  BY <1>1 DEF Sure, SureMem, AppliedIn, Mark, InTo
<1>2. ASSUME NEW p \in Proc, Step(p) \/ Fail(p) \/ Crash(p)
      PROVE  Sure'
  <2>1. SureMem(db', mem'[p], Mark')
    BY <1>0, <1>2, SureFactory, SureRange, SureEnd DEF Step
  <2>2. txn' # NoTxn => AppliedIn(txn'.view, mem'[p], txn'.todo)
    BY <1>0, <1>2, SureTxn
  <2>3. txn' # NoTxn => txn'.owner = p
    BY <1>0 DEF Shape, TypeOK, Lone
  <2>4. \A q \in Proc : q = p
    BY DEF Lone
  <2> QED
    BY <2>1, <2>2, <2>3, <2>4 DEF Sure
<1> QED
  BY <1>1, <1>2 DEF Next, Trouble, Mine, Reorg, vars

LEMMA InitSure == Init => Sure
BY DownFields DEF Init, Sure, SureMem

(* What one process knows of the rows it passes. *)
THEOREM SureInvariant == ASSUME Lone PROVE Spec => []Sure
<1>1. Typed /\ Streamed /\ Emitters /\ Sure /\ [Next]_vars => Sure'
  BY SureStep
<1> QED
  BY <1>1, InitSure, TypedInvariant, StreamedInvariant, EmittersInvariant, PTL DEF Spec

(* The event cursor moves in one step only. *)
LEMMA MarkMoves ==
    ASSUME Shape, Streamed, [Next]_vars, meta'.token # meta.token
    PROVE  \E p \in Proc : /\ SetStreamCursor(p) /\ mem[p].stream = "token"
                           /\ meta'.token = mem[p].to /\ db' = db
<1>0. meta \in [factory : CursorValue, cursor : CursorValue, token : CursorValue, live : CursorValue]
  BY DEF Shape, TypeOK
<1>1. PICK p \in Proc : Step(p)
  BY DEF Next, Trouble, Mine, Reorg, Fail, Crash, vars
<1>2. CASE SetStreamCursor(p)
  <2>1. meta' = [meta EXCEPT ![mem[p].stream] = mem[p].to] /\ db' = db
    BY <1>2 DEF SetStreamCursor
  <2>2. mem[p].stream \in {"live", "token"}
    BY <1>2 DEF SetStreamCursor, At, Streamed, StreamOK, Shape, TypeOK, Mem, Stream
  <2>3. mem[p].stream = "token"
    BY <1>0, <2>1, <2>2
  <2> QED
    BY <1>0, <1>2, <2>1, <2>3
<1>3. CASE SetFactoryCursor(p) \/ PublishCursor(p)
  BY <1>0, <1>3 DEF SetFactoryCursor, PublishCursor
<1>4. CASE Start(p) \/ Tick(p) \/ FactoryFetch(p) \/ InsertNextToken(p) \/ FactoryDone(p)
           \/ RangeBegin(p) \/ TopicReply(p) \/ AddressRequired(p) \/ BatchReply(p)
           \/ BatchesDone(p) \/ ApplyNextRow(p) \/ Commit(p) \/ LiveDone(p) \/ TokenDone(p)
  BY <1>4 DEF Start, Tick, FactoryFetch, InsertNextToken, FactoryDone, RangeBegin, TopicReply,
     AddressRequired, BatchReply, BatchesDone, ApplyNextRow, Commit, LiveDone, TokenDone
<1> QED
  BY <1>1, <1>2, <1>3, <1>4 DEF Step

(* "A provider returning fewer logs must not leave already-known Transfers *)
(* unapplied" (indexer.js:156), in the step in which the cursor passes      *)
(* them: with one process, whatever the endpoints leave out; with several, *)
(* as long as they answer fully.  A second process may store a missing     *)
(* Transfer between the commit and the cursor write of the first, so       *)
(* neither condition can be dropped.  With short replies a row that the    *)
(* live stream stores below the cursor afterwards may stay unapplied.      *)
THEOREM KnownTransfersAreApplied ==
    ASSUME Lone \/ ~ShortReplies
    PROVE  Spec => KnownTransfersApplied
<1> DEFINE Safe == \A l \in db.events :
                      IsTransfer(l) /\ meta.token < l.block /\ l.block <= meta'.token
                          => l \in db'.applied
<1>1. ASSUME Typed, Rooted, Streamed, [Next]_vars, Sure \/ Covered
      PROVE  Safe
  <2> SUFFICES ASSUME NEW l \in db.events, IsTransfer(l),
                      meta.token < l.block, l.block <= meta'.token
               PROVE  l \in db'.applied
    OBVIOUS
  <2>0. /\ Shape /\ l \in chain /\ chain \in Fork
        /\ meta \in [factory : CursorValue, cursor : CursorValue,
                     token : CursorValue, live : CursorValue]
    BY <1>1 DEF Typed, Shape, TypeOK, Rooted, RootedDB, Final
  <2>1. l.block \in Int /\ l.block > First
    BY <2>0, ChainLogs
  <2>2. meta.token \in Int
    <3>1. CursorValue \subseteq Int
      BY Constants DEF CursorValue, Unset
    <3>2. meta.token \in CursorValue
      BY <2>0
    <3> QED
      BY <3>1, <3>2
  <2>3. meta'.token # meta.token
    BY <2>1, <2>2
  <2>4. PICK p \in Proc : /\ SetStreamCursor(p) /\ mem[p].stream = "token"
                          /\ meta'.token = mem[p].to /\ db' = db
    BY <1>1, <2>0, <2>3, MarkMoves
  <2>5. mem[p].pc = "cursor" /\ mem[p] \in Mem
    BY <2>0, <2>4 DEF SetStreamCursor, At, Shape, TypeOK
  <2>6. CASE Sure
    <3>1. SureMem(db, mem[p], Mark)
      BY <2>6 DEF Sure
    <3>2. mem[p].cur <= Mark /\ AppliedIn(db, mem[p], {})
      BY <2>4, <2>5, <3>1 DEF SureMem
    <3>3. mem[p].cur \in Int /\ First \in Int
      BY <2>5, Constants DEF Mem
    <3>4. mem[p].cur < l.block
      BY <2>1, <2>2, <3>2, <3>3 DEF Mark, Greatest
    <3> QED
      BY <2>4, <3>2, <3>4 DEF AppliedIn, InTo
  <2>7. CASE Covered
    <3>1. Stored(chain, db, mem[p].to)
      BY <2>4, <2>5, <2>7 DEF Covered, MemCov, TokenCov
    <3> QED
      BY <2>0, <2>4, <3>1 DEF Stored, IsTransfer
  <2> QED
    BY <1>1, <2>6, <2>7
<1>2. Typed /\ Rooted /\ Streamed /\ (Sure \/ Covered) /\ [Next]_vars => [Safe]_vars
  BY <1>1
<1>3. CASE Lone
  BY <1>2, <1>3, TypedInvariant, RootedInvariant, StreamedInvariant, SureInvariant, PTL
     DEF Spec, KnownTransfersApplied
<1>4. CASE ~ShortReplies
  BY <1>2, <1>4, TypedInvariant, RootedInvariant, StreamedInvariant, CoveredInvariant, PTL
     DEF Spec, KnownTransfersApplied
<1> QED
  BY <1>3, <1>4

-----------------------------------------------------------------------------
(* The refinement of the public ledger.                                    *)

(* The sums of the ledger are the sums of the store. *)
LEMMA TotalIsAmounts ==
    ASSUME NEW S
    PROVE  Ledger!Total(S) = Amounts(S)
BY DEF Ledger!Total, Amounts, Ledger!MapThenSumSet, MapThenSumSet,
       Ledger!MapThenFoldSet, MapThenFoldSet

(* What an account has received and sent, with one more Transfer. *)
LEMMA FlowAdd ==
    ASSUME NEW S \in SUBSET TransferLogs, NEW k \in TransferLogs, k \notin S, NEW t, NEW a
    PROVE  /\ Ledger!Received(S, t, a) \in Nat /\ Ledger!Sent(S, t, a) \in Nat
           /\ Ledger!Received(S \cup {k}, t, a)
                = Ledger!Received(S, t, a) + (IF k.token = t /\ k.to = a THEN k.amount ELSE 0)
           /\ Ledger!Sent(S \cup {k}, t, a)
                = Ledger!Sent(S, t, a) + (IF k.token = t /\ k.from = a THEN k.amount ELSE 0)
<1> DEFINE Into(A)  == {l \in Ledger!Transfers(t, A) : l.to = a}
           From(A) == {l \in Ledger!Transfers(t, A) : l.from = a}
           U == S \cup {k}
<1>1. k.amount \in Nat /\ k.kind = "Transfer"
  BY LogAssumption DEF TransferLogs, IsTransfer
<1>2. \A A : Ledger!Received(A, t, a) = Amounts(Into(A)) /\ Ledger!Sent(A, t, a) = Amounts(From(A))
  BY TotalIsAmounts DEF Ledger!Received, Ledger!Sent
<1>3. \A A : Into(A) = {l \in A : l.kind = "Transfer" /\ l.token = t /\ l.to = a}
  BY DEF Ledger!Transfers
<1>4. \A A : From(A) = {l \in A : l.kind = "Transfer" /\ l.token = t /\ l.from = a}
  BY DEF Ledger!Transfers
<1> HIDE DEF Into, From
<1>5. Into(S) \in SUBSET TransferLogs /\ From(S) \in SUBSET TransferLogs
  BY <1>3, <1>4
<1>6. Amounts(Into(S)) \in Nat /\ Amounts(From(S)) \in Nat
  BY <1>5, AmountsType
<1>7. Amounts(Into(U)) = Amounts(Into(S)) + (IF k.token = t /\ k.to = a THEN k.amount ELSE 0)
  <2>1. CASE k.token = t /\ k.to = a
    <3>1. k \in Into(U) /\ Into(U) \ {k} = Into(S) /\ Into(U) \in SUBSET TransferLogs
      BY <1>1, <1>3, <1>5, <2>1
    <3> QED
      BY <2>1, <3>1, AmountsAdd
  <2>2. CASE ~(k.token = t /\ k.to = a)
    <3>1. Into(U) = Into(S)
      BY <1>3, <2>2
    <3> QED
      BY <1>6, <2>2, <3>1
  <2> QED
    BY <2>1, <2>2
<1>8. Amounts(From(U)) = Amounts(From(S)) + (IF k.token = t /\ k.from = a THEN k.amount ELSE 0)
  <2>1. CASE k.token = t /\ k.from = a
    <3>1. k \in From(U) /\ From(U) \ {k} = From(S) /\ From(U) \in SUBSET TransferLogs
      BY <1>1, <1>4, <1>5, <2>1
    <3> QED
      BY <2>1, <3>1, AmountsAdd
  <2>2. CASE ~(k.token = t /\ k.from = a)
    <3>1. From(U) = From(S)
      BY <1>4, <2>2
    <3> QED
      BY <1>6, <2>2, <3>1
  <2> QED
    BY <2>1, <2>2
<1> QED
  BY <1>2, <1>6, <1>7, <1>8

(* The balances and the supplies of d are what its applied rows amount to. *)
Books(d) ==
    /\ d.holders = Ledger!Balances(d.applied)
    /\ d.supply = Ledger!Supplies(d.applied)

(* Applying a Transfer that its sender can pay keeps the books. *)
LEMMA ApplyBooks ==
    ASSUME NEW d \in DB, NEW k \in Log, IsTransfer(k), k \in d.events, k \notin d.applied,
           d.applied \subseteq TransferLogs, Books(d),
           k.from # ZERO => k.amount <= d.holders[k.token][k.from]
    PROVE  Books(InsertTransferAndApply(d, k))
<1> DEFINE e == InsertTransferAndApply(d, k)
           S == d.applied
           U == S \cup {k}
           u == k.token
           bal == d.holders[u]
<1>1. /\ e.applied = U
      /\ e.holders = IF Effective(k)
                     THEN [d.holders EXCEPT ![u] = Credit(Debit(bal, k), k)] ELSE d.holders
      /\ e.supply = IF Effective(k) THEN [d.supply EXCEPT ![u] = Supply(@, k)] ELSE d.supply
      /\ e \in DB
  BY ApplyStoredType, ApplyStoredSupply
<1>2. /\ k \in TransferLogs /\ S \in SUBSET TransferLogs /\ u \in Token
      /\ k.amount \in Nat /\ k.from \in Account \cup {ZERO} /\ k.to \in Account \cup {ZERO}
  BY LogAssumption DEF TransferLogs
<1>3. bal \in [Account -> Nat] /\ d.holders \in [Token -> [Account -> Nat]] /\ d.supply \in [Token -> Int]
  BY <1>2 DEF DB
<1>4. ASSUME NEW t \in Token, NEW a \in Account
      PROVE  e.holders[t][a] = Ledger!Received(U, t, a) - Ledger!Sent(U, t, a)
  <2> DEFINE r == Ledger!Received(S, t, a)
             s == Ledger!Sent(S, t, a)
             x == IF u = t /\ k.to = a THEN k.amount ELSE 0
             y == IF u = t /\ k.from = a THEN k.amount ELSE 0
  <2>1. /\ r \in Nat /\ s \in Nat
        /\ Ledger!Received(U, t, a) = r + x /\ Ledger!Sent(U, t, a) = s + y
    BY <1>2, FlowAdd
  <2>2. d.holders[t][a] = r - s
    BY DEF Books, Ledger!Balances
  <2>3. e.holders[t][a] = d.holders[t][a] + x - y
    <3>0. d.holders[t][a] \in Nat
      BY <1>3
    <3>1. CASE ~Effective(k)
      BY <1>1, <1>2, <3>0, <3>1 DEF Effective
    <3>2. CASE Effective(k) /\ t # u
      BY <1>1, <1>3, <3>0, <3>2
    <3>3. CASE Effective(k) /\ t = u
      <4>1. e.holders[t] = Credit(Debit(bal, k), k)
        BY <1>1, <1>2, <1>3, <3>3
      <4>2. Debit(bal, k) \in [Account -> Nat] /\ Debit(bal, k)[a] = bal[a] - y
        <5>1. /\ Debit(bal, k) \in [Account -> Nat]
              /\ Debit(bal, k)[a] = IF a = k.from
                                    THEN IF bal[a] <= k.amount THEN 0 ELSE bal[a] - k.amount
                                    ELSE bal[a]
          BY <1>3, DebitType
        <5>2. CASE a = k.from
          <6>1. k.amount <= bal[a] /\ bal[a] \in Nat /\ y = k.amount
            BY <1>3, <3>3, <5>2, AccountAssumption
          <6> HIDE DEF y
          <6> QED
            BY <1>2, <5>1, <5>2, <6>1
        <5>3. CASE a # k.from
          BY <1>3, <5>1, <5>3
        <5> QED
          BY <5>2, <5>3
      <4>3. Credit(Debit(bal, k), k)[a]
              = IF a = k.to THEN Debit(bal, k)[a] + k.amount ELSE Debit(bal, k)[a]
        BY <4>2, CreditType
      <4> QED
        BY <1>2, <1>3, <3>0, <3>3, <4>1, <4>2, <4>3
    <3> QED
      BY <3>1, <3>2, <3>3
  <2>4. x \in Nat /\ y \in Nat
    BY <1>2
  <2> HIDE DEF x, y, r, s
  <2> QED
    BY <2>1, <2>2, <2>3, <2>4
<1>5. ASSUME NEW t \in Token
      PROVE  e.supply[t] = Ledger!Sent(U, t, ZERO) - Ledger!Received(U, t, ZERO)
  <2> DEFINE r == Ledger!Received(S, t, ZERO)
             s == Ledger!Sent(S, t, ZERO)
             x == IF u = t /\ k.to = ZERO THEN k.amount ELSE 0
             y == IF u = t /\ k.from = ZERO THEN k.amount ELSE 0
  <2>1. /\ r \in Nat /\ s \in Nat
        /\ Ledger!Received(U, t, ZERO) = r + x /\ Ledger!Sent(U, t, ZERO) = s + y
    BY <1>2, FlowAdd
  <2>2. d.supply[t] = s - r
    BY DEF Books, Ledger!Supplies
  <2>3. e.supply[t] = d.supply[t] + y - x
    BY <1>1, <1>2, <1>3 DEF Effective, Supply
  <2>4. x \in Nat /\ y \in Nat
    BY <1>2
  <2> HIDE DEF x, y, r, s
  <2> QED
    BY <2>1, <2>2, <2>3, <2>4
<1>6. e.holders \in [Token -> [Account -> Nat]] /\ e.supply \in [Token -> Int]
  BY <1>1 DEF DB
<1> HIDE DEF e
<1>7. e.holders = Ledger!Balances(U)
  <2>1. \A t \in Token : e.holders[t] = [a \in Account |-> Ledger!Received(U, t, a) - Ledger!Sent(U, t, a)]
    BY <1>4, <1>6
  <2> QED
    BY <1>6, <2>1 DEF Ledger!Balances
<1>8. e.supply = Ledger!Supplies(U)
  BY <1>5, <1>6 DEF Ledger!Supplies
<1> QED
  BY <1>1, <1>7, <1>8 DEF Books, e

Booked == Books(db) /\ (txn # NoTxn => Books(txn.view))

(* The Transfers of chain C up to block b. *)
TransfersUpTo(C, b) == {l \in C : l.kind = "Transfer" /\ l.block <= b}

(* Whole blocks of the chain have been applied, and no others. *)
Prefixed == \E b \in Int : b <= head - Confirmations /\ db.applied = TransfersUpTo(chain, b)

(* The open transaction adds only rows of its range. *)
Spanned ==
    txn # NoTxn =>
        \A l \in txn.view.applied : l \in db.applied \/ l.block <= mem[txn.owner].to

(* Every row is applied when exactly the earlier Transfers of the chain are *)
(* behind it, so its sender can pay and the clamp has nothing to do.       *)
LEMMA BookedStep ==
    ASSUME Typed, Counted, Rooted, Streamed, Covered, Ordered, Booked, [Next]_vars
    PROVE  Booked'
<1>0. Shape /\ TodoOK /\ db \in DB
  BY DEF Typed, Shape, TypeOK
<1>1. CASE UNCHANGED <<db, txn>>
  BY <1>1 DEF Booked, Books
<1>2. ASSUME NEW e, e.applied = db.applied, e.holders = db.holders, e.supply = db.supply
      PROVE  Books(e)
  BY <1>2 DEF Booked, Books
<1>3. CASE \/ \E t \in Token : db' = InsertToken(db, t) /\ UNCHANGED txn
           \/ \E rows \in SUBSET Log : db' = InsertRows(db, rows) /\ UNCHANGED txn
  <2>1. ASSUME NEW t \in Token
        PROVE  Books(InsertToken(db, t))
    <3>1. /\ InsertToken(db, t).applied = db.applied
          /\ InsertToken(db, t).holders = db.holders
          /\ InsertToken(db, t).supply = db.supply
      BY <1>0 DEF InsertToken, DB
    <3> QED
      BY <1>2, <3>1
  <2>2. ASSUME NEW rows \in SUBSET Log
        PROVE  Books(InsertRows(db, rows))
    BY <1>0, <1>2, InsertRowsType
  <2>3. Books(db)' /\ txn' = txn
    <3>1. Books(db')
      BY <1>3, <2>1, <2>2
    <3> QED
      BY <1>3, <3>1 DEF Books
  <2> QED
    BY <2>3 DEF Booked, Books
<1>4. CASE /\ UNCHANGED db
           /\ \E p \in Proc :
                 \/ txn' = OpenTxn(p, db)
                 \/ \E rows \in SUBSET Log : txn' = OpenTxn(p, InsertRows(db, rows))
  <2>1. Books(txn'.view)
    BY <1>0, <1>2, <1>4, InsertRowsType DEF OpenTxn, Booked
  <2> QED
    BY <1>4, <2>1 DEF Booked, Books
<1>5. ASSUME NEW p \in Proc, ApplyNextRow(p)
      PROVE  Booked'
  <2>1. PICK k \in txn.todo :
          /\ k \in Log /\ IsTransfer(k)
          /\ k \in txn.view.events /\ k \notin txn.view.applied
          /\ txn.view \in DB
          /\ txn'.view = InsertTransferAndApply(txn.view, k)
          /\ txn'.view.applied = txn.view.applied \cup {k}
          /\ txn # NoTxn
    BY <1>0, <1>5, ApplyFacts
  <2> DEFINE v == txn.view
  <2>2. /\ chain \in Fork /\ chain' = chain /\ db' = db /\ RootedDB(v) /\ OrderedIn(v) /\ Books(v)
        /\ v.applied \subseteq {l \in v.events : IsTransfer(l)}
    BY <1>0, <1>5, <2>1 DEF ApplyNextRow, Shape, TypeOK, Rooted, Ordered, Booked, Counted, Exact,
       TransferCountExact
  <2>3. k \in chain /\ v.applied \subseteq chain /\ v.applied \subseteq TransferLogs
    BY <2>1, <2>2, ChainLogs DEF RootedDB, Final, TransferLogs
  <2>4. v.applied = Earlier(k, chain)
    <3>1. OrderedIn(txn'.view)
      BY <1>0, <1>5, ApplyOrdered
    <3>2. ASSUME NEW l \in chain, IsTransfer(l), Before(l, k)
          PROVE  l \in v.applied
      <4>1. l \in txn'.view.applied
        BY <2>1, <3>1, <3>2 DEF OrderedIn
      <4>2. l # k
        BY <2>1, <3>2, LogAssumption DEF Before
      <4> QED
        BY <2>1, <4>1, <4>2
    <3>3. ASSUME NEW l \in v.applied
          PROVE  IsTransfer(l) /\ Before(l, k)
      <4>1. l \in chain /\ IsTransfer(l) /\ l # k
        BY <2>1, <2>2, <2>3
      <4>2. ~Before(k, l)
        BY <2>1, <2>2, <2>3 DEF OrderedIn
      <4> QED
        BY <2>2, <2>3, <4>1, <4>2, ForkAssumption
    <3> QED
      BY <2>3, <3>2, <3>3 DEF Earlier
  <2>5. k.from # ZERO => k.amount <= v.holders[k.token][k.from]
    BY <2>1, <2>2, <2>3, <2>4, SolvencyAssumption DEF Books
  <2>6. Books(InsertTransferAndApply(v, k))
    <3> HIDE DEF v
    <3> QED
      BY <2>1, <2>2, <2>3, <2>5, ApplyBooks DEF v
  <2> QED
    BY <2>1, <2>2, <2>6 DEF Booked, Books
<1>6. ASSUME NEW p \in Proc, Commit(p)
      PROVE  Booked'
  <2>1. db' = txn.view /\ txn' = NoTxn /\ txn # NoTxn
    BY <1>0, <1>6, TxnRecord DEF Commit
  <2> QED
    BY <2>1 DEF Booked, Books
<1>7. CASE UNCHANGED db /\ txn' = NoTxn
  BY <1>7 DEF Booked, Books
<1> QED
  BY <1>0, <1>1, <1>3, <1>4, <1>5, <1>6, <1>7, StoreEffects DEF vars

(* Rows enter the view through todo, which is in the range. *)
LEMMA SpannedStep ==
    ASSUME Typed, Streamed, Ordered, Spanned, [Next]_vars
    PROVE  Spanned'
<1> SUFFICES ASSUME txn' # NoTxn, NEW l \in txn'.view.applied, l \notin db'.applied
             PROVE  l.block <= mem'[txn'.owner].to
  BY DEF Spanned
<1>0. Shape /\ TodoOK /\ mem \in [Proc -> Mem] /\ db \in DB
  BY DEF Typed, Shape, TypeOK
<1>1. ASSUME txn' = txn, db' = db, mem'[txn.owner] = mem[txn.owner]
      PROVE  l.block <= mem'[txn'.owner].to
  BY <1>1 DEF Spanned
<1>2. ASSUME NEW p \in Proc, Step(p) \/ Fail(p) \/ Crash(p),
             NEW n, mem' = [mem EXCEPT ![p] = n]
      PROVE  l.block <= mem'[txn'.owner].to
  <2>1. CASE UNCHANGED <<db, txn>> /\ ~At(p, "apply")
    <3>1. txn.owner \in Proc /\ txn.owner # p
      BY <1>0, <2>1 DEF Shape, TypeOK, Owned
    <3> QED
      BY <1>0, <1>1, <1>2, <2>1, <3>1
  <2>2. CASE MayWrite /\ UNCHANGED txn
    BY <2>2 DEF MayWrite
  <2>3. CASE MayWrite /\ UNCHANGED db /\ (TopicReply(p) \/ BatchesDone(p))
    <3>1. ASSUME TopicReply(p) PROVE txn'.view.applied = db.applied
      <4>1. PICK rows \in Reply(LogsOf(mem[p].addrs, mem[p])) :
                UNCHANGED txn \/ txn' = OpenTxn(p, InsertRows(db, rows))
        BY <3>1 DEF TopicReply
      <4>2. txn' = OpenTxn(p, InsertRows(db, rows)) /\ rows \in SUBSET Log
        BY <1>0, <2>3, <4>1, ReplyRows DEF MayWrite
      <4> QED
        BY <1>0, <4>2, InsertRowsType DEF OpenTxn
    <3>2. ASSUME BatchesDone(p) PROVE txn'.view.applied = db.applied
      <4>1. txn' = OpenTxn(p, db)
        BY <2>3, <3>2 DEF BatchesDone, MayWrite
      <4> QED
        BY <4>1 DEF OpenTxn
    <3>3. txn'.view.applied = db.applied
      BY <2>3, <3>1, <3>2
    <3> QED
      BY <2>3, <3>3
  <2>4. CASE ApplyNextRow(p) /\ UNCHANGED <<db, mem>>
    <3>1. PICK k \in txn.todo :
            /\ txn'.view.applied = txn.view.applied \cup {k}
            /\ txn'.owner = txn.owner /\ txn # NoTxn
      BY <1>0, <2>4, ApplyFacts
    <3>2. k.block <= mem[txn.owner].to
      BY <3>1 DEF Ordered, Ranged, InTo
    <3>3. l = k \/ l \in txn.view.applied
      BY <3>1
    <3>4. mem'[txn'.owner] = mem[txn.owner]
      BY <2>4, <3>1
    <3> QED
      BY <2>4, <3>1, <3>2, <3>3, <3>4 DEF Spanned
  <2>5. CASE Commit(p) \/ txn' = NoTxn
    BY <2>5 DEF Commit
  <2> QED
    BY <1>2, <2>1, <2>2, <2>3, <2>4, <2>5, StepKinds
<1>3. CASE UNCHANGED <<db, txn, mem>>
  BY <1>1, <1>3
<1> QED
  BY <1>0, <1>2, <1>3, OneMoves DEF vars

(* A commit makes the ledger whole up to the end of its range. *)
LEMMA CommitPosts ==
    ASSUME Typed, Counted, Rooted, Streamed, Covered, Prefixed, Spanned,
           NEW p \in Proc, Commit(p)
    PROVE  /\ db.applied \subseteq db'.applied
           /\ \E b \in 0 .. (head - Confirmations) : db'.applied = TransfersUpTo(chain, b)
<1> DEFINE m == mem[p]
           v == txn.view
<1>1. /\ txn # NoTxn /\ txn.owner = p /\ txn.todo = {} /\ db' = v
      /\ m \in Mem /\ chain \in Fork /\ m.pc = "apply" /\ MemBound(m)
      /\ head - Confirmations \in Int
  BY TxnRecord, Constants DEF Typed, Shape, TypeOK, Commit, At
<1>2. /\ MemCov(chain, db, m) /\ TxnCov(chain, db, txn, m) /\ m.stream = "token"
      /\ RootedDB(v) /\ v.applied \subseteq {l \in v.events : IsTransfer(l)}
  BY <1>1 DEF Covered, Streamed, StreamOK, Rooted, Counted, Exact, TransferCountExact
<1>3. /\ m.to \in Int /\ m.cur \in Int /\ m.to > m.cur /\ m.to <= head - Confirmations
      /\ m.cur >= First
  BY <1>1 DEF MemBound, InRange, Reached, Mem
<1>4. PICK b \in Int : b <= head - Confirmations /\ db.applied = TransfersUpTo(chain, b)
  BY DEF Prefixed
<1>5. db.applied \subseteq v.applied /\ Stored(chain, db, m.cur)
  BY <1>1, <1>2 DEF TxnCov, Grows, MemCov, TokenCov
<1>6. TransfersUpTo(chain, m.to) \subseteq v.applied
  <2> SUFFICES ASSUME NEW l \in chain, l.kind = "Transfer", l.block <= m.to
               PROVE  l \in v.applied
    BY DEF TransfersUpTo
  <2>1. l.block \in Int
    BY <1>1, ChainLogs
  <2>2. CASE l.block <= m.cur
    BY <1>5, <2>2 DEF Stored, IsTransfer
  <2>3. CASE m.cur < l.block
    BY <1>1, <1>2, <2>3 DEF TxnCov, InTo, IsTransfer
  <2> QED
    BY <1>3, <2>1, <2>2, <2>3
<1>7. v.applied \subseteq TransfersUpTo(chain, b) \cup TransfersUpTo(chain, m.to)
  <2> SUFFICES ASSUME NEW l \in v.applied, l \notin db.applied
               PROVE  l \in TransfersUpTo(chain, m.to)
    BY <1>4
  <2>1. l.block <= m.to
    BY <1>1 DEF Spanned
  <2>2. l \in chain /\ IsTransfer(l)
    BY <1>2 DEF RootedDB, Final
  <2> QED
    BY <2>1, <2>2 DEF TransfersUpTo, IsTransfer
<1> DEFINE c == Greatest(b, m.to)
<1>8. c \in 0 .. (head - Confirmations)
  BY <1>1, <1>3, <1>4, Constants DEF Greatest
<1>9. TransfersUpTo(chain, c) = TransfersUpTo(chain, b) \cup TransfersUpTo(chain, m.to)
  <2>1. \A l \in chain : l.block \in Int
    BY <1>1, ChainLogs
  <2>2. \A l \in chain : l.block <= c <=> l.block <= b \/ l.block <= m.to
    BY <1>3, <1>4, <2>1 DEF Greatest
  <2> HIDE DEF c
  <2> QED
    BY <2>2 DEF TransfersUpTo
<1>10. v.applied = TransfersUpTo(chain, c)
  BY <1>4, <1>5, <1>6, <1>7, <1>9
<1> QED
  BY <1>1, <1>5, <1>8, <1>10

(* What the network does keeps the confirmed blocks, both ways. *)
LEMMA NetworkMoves ==
    ASSUME Shape, Mine \/ Reorg
    PROVE  /\ head \in Nat /\ head' \in head .. MaxBlock /\ chain \in Fork /\ chain' \in Fork
           /\ \A l \in chain \cup chain' :
                 l.block <= head - Confirmations => l \in chain /\ l \in chain'
<1>1. head \in 0 .. MaxBlock /\ chain \in Fork
  BY DEF Shape, TypeOK
<1>2. CASE Mine
  BY <1>1, <1>2, Constants DEF Mine
<1>3. CASE Reorg
  <2>1. PICK f \in Fork :
          /\ \A l \in f \cup chain : l.block <= head - Confirmations => l \in f \cap chain
          /\ chain' = f /\ head' = head
    BY <1>3 DEF Reorg
  <2> QED
    BY <1>1, <2>1, Constants
<1> QED
  BY <1>2, <1>3

(* Only a commit changes which rows are applied. *)
LEMMA AppliedStays ==
    ASSUME Shape, Next, ~ \E p \in Proc : Commit(p)
    PROVE  db'.applied = db.applied
<1>0. db \in DB
  BY DEF Shape, TypeOK
<1>1. \A t \in Token : InsertToken(db, t).applied = db.applied
  BY <1>0 DEF InsertToken, DB
<1>2. \A rows \in SUBSET Log : InsertRows(db, rows).applied = db.applied
  BY <1>0, InsertRowsType
<1>3. ASSUME NEW p \in Proc, ApplyNextRow(p) PROVE db' = db
  BY <1>3 DEF ApplyNextRow
<1> QED
  BY <1>1, <1>2, <1>3, StoreEffects

(* The network leaves an applied prefix alone, a commit extends it. *)
LEMMA PrefixedStep ==
    ASSUME Typed, Counted, Rooted, Streamed, Covered, Prefixed, Spanned, [Next]_vars
    PROVE  Prefixed'
<1>0. Shape /\ db \in DB /\ head \in Int /\ Confirmations \in Int /\ chain \in Fork
  BY Constants DEF Typed, Shape, TypeOK
<1>1. PICK b \in Int : b <= head - Confirmations /\ db.applied = TransfersUpTo(chain, b)
  BY DEF Prefixed
<1>2. ASSUME UNCHANGED <<chain, head>>, db'.applied = db.applied
      PROVE  Prefixed'
  BY <1>1, <1>2 DEF Prefixed
<1>3. CASE UNCHANGED vars
  BY <1>2, <1>3 DEF vars
<1>4. CASE (Mine \/ Reorg) /\ UNCHANGED db
  <2>1. /\ head' \in Int /\ head' >= head /\ chain' \in Fork
        /\ \A l \in chain \cup chain' :
              l.block <= head - Confirmations => l \in chain /\ l \in chain'
    BY <1>0, <1>4, NetworkMoves, Constants
  <2>2. \A l \in chain \cup chain' : l.block \in Int
    BY <1>0, <2>1, ChainLogs
  <2>3. \A l \in chain \cup chain' : l.block <= b => l \in chain /\ l \in chain'
    BY <1>0, <1>1, <2>1, <2>2
  <2>4. TransfersUpTo(chain', b) = TransfersUpTo(chain, b)
    BY <2>3 DEF TransfersUpTo
  <2>5. b <= head' - Confirmations
    <3>1. \A h \in Int : h >= head => b <= h - Confirmations
      BY <1>0, <1>1
    <3> QED
      BY <2>1, <3>1
  <2> QED
    BY <1>1, <1>4, <2>4, <2>5 DEF Prefixed
<1>5. ASSUME NEW p \in Proc, Commit(p)
      PROVE  Prefixed'
  <2>1. PICK c \in 0 .. (head - Confirmations) : db'.applied = TransfersUpTo(chain, c)
    BY <1>5, CommitPosts
  <2>2. UNCHANGED <<chain, head>>
    BY <1>5 DEF Commit
  <2> QED
    BY <1>0, <2>1, <2>2 DEF Prefixed
<1>6. ASSUME Next, ~ \E p \in Proc : Commit(p)
      PROVE  db'.applied = db.applied
  BY <1>0, <1>6, AppliedStays
<1>7. CASE Next /\ ~ \E p \in Proc : Commit(p)
  BY <1>0, <1>2, <1>4, <1>6, <1>7, OneMoves
<1> QED
  BY <1>3, <1>5, <1>7

(* An empty store has empty books. *)
LEMMA InitKept == Init => Booked /\ Prefixed /\ Spanned
<1> SUFFICES ASSUME Init PROVE Booked /\ Prefixed /\ Spanned
  OBVIOUS
<1>1. /\ db.applied = {} /\ db.holders = EmptyDB.holders /\ db.supply = EmptyDB.supply
      /\ txn = NoTxn /\ chain \in Fork /\ head \in Int /\ Confirmations \in Int
  BY Constants DEF Init, InitStore, EmptyDB
<1>2. Books(db)
  <2>1. ASSUME NEW t, NEW a
        PROVE  Ledger!Received({}, t, a) = 0 /\ Ledger!Sent({}, t, a) = 0
    <3>1. /\ Ledger!Received({}, t, a) = Amounts({l \in Ledger!Transfers(t, {}) : l.to = a})
          /\ Ledger!Sent({}, t, a) = Amounts({l \in Ledger!Transfers(t, {}) : l.from = a})
      BY TotalIsAmounts DEF Ledger!Received, Ledger!Sent
    <3>2. /\ {l \in Ledger!Transfers(t, {}) : l.to = a} = {}
          /\ {l \in Ledger!Transfers(t, {}) : l.from = a} = {}
      BY DEF Ledger!Transfers
    <3> QED
      BY <3>1, <3>2, AmountsType, {} \in SUBSET TransferLogs
  <2>2. Ledger!Balances({}) = [t \in Token |-> [a \in Account |-> 0]]
    BY <2>1 DEF Ledger!Balances
  <2>3. Ledger!Supplies({}) = [t \in Token |-> 0]
    BY <2>1 DEF Ledger!Supplies
  <2> QED
    BY <1>1, <2>2, <2>3 DEF Books, EmptyDB
<1>3. Prefixed
  <2> DEFINE b == Least(0, head - Confirmations)
  <2>1. b \in Int /\ b <= 0 /\ b <= head - Confirmations
    BY <1>1 DEF Least
  <2> HIDE DEF b
  <2>2. \A l \in chain : ~ (l.block <= b)
    BY <1>1, <2>1, ChainLogs, Constants
  <2>3. TransfersUpTo(chain, b) = {}
    BY <2>2 DEF TransfersUpTo
  <2> QED
    BY <1>1, <2>1, <2>3 DEF Prefixed
<1> QED
  BY <1>1, <1>2, <1>3 DEF Booked, Spanned

(* The network's steps are Network, a commit is Post, the rest stutters. *)
LEMMA LedgerStep ==
    ASSUME Typed, Counted, Rooted, Streamed, Covered, Booked, Booked', Prefixed, Spanned, [Next]_vars
    PROVE  [Ledger!Next]_Ledger!vars
<1>0. Shape /\ db \in DB
  BY DEF Typed, Shape, TypeOK
<1>1. CASE UNCHANGED vars
  BY <1>1 DEF vars, Ledger!vars
<1>2. CASE (Mine \/ Reorg) /\ UNCHANGED db
  <2>1. /\ head' \in head .. MaxBlock /\ chain' \in Fork
        /\ \A l \in chain \cup chain' :
              l.block <= head - Confirmations => l \in chain /\ l \in chain'
    BY <1>0, <1>2, NetworkMoves
  <2>2. {l \in chain' : l.block <= head - Confirmations} = {l \in chain : l.block <= head - Confirmations}
    BY <2>1
  <2> QED
    BY <1>2, <2>1, <2>2 DEF Ledger!Next, Ledger!Network
<1>3. ASSUME NEW p \in Proc, Commit(p)
      PROVE  Ledger!Next
  <2>1. /\ db.applied \subseteq db'.applied
        /\ \E b \in 0 .. (head - Confirmations) : db'.applied = TransfersUpTo(chain, b)
    BY <1>3, CommitPosts
  <2>2. UNCHANGED <<chain, head>>
    BY <1>3 DEF Commit
  <2>3. db'.holders = Ledger!Balances(db'.applied) /\ db'.supply = Ledger!Supplies(db'.applied)
    BY DEF Booked, Books
  <2> QED
    BY <2>1, <2>2, <2>3 DEF Ledger!Next, Ledger!Post, Ledger!UpTo, TransfersUpTo
<1>4. ASSUME Next, ~ \E p \in Proc : Commit(p)
      PROVE  db'.applied = db.applied
  BY <1>0, <1>4, AppliedStays
<1>5. CASE UNCHANGED <<chain, head>> /\ db'.applied = db.applied
  <2>1. db'.holders = db.holders /\ db'.supply = db.supply
    BY <1>5 DEF Booked, Books
  <2> QED
    BY <1>5, <2>1 DEF Ledger!vars
<1>6. CASE Next /\ ~ \E p \in Proc : Commit(p)
  <2>1. ((Mine \/ Reorg) /\ UNCHANGED db) \/ UNCHANGED <<chain, head>>
    BY <1>0, <1>6, OneMoves
  <2> QED
    BY <1>2, <1>4, <1>5, <1>6, <2>1
<1> QED
  BY <1>1, <1>3, <1>6

(* The indexer implements the public ledger: with endpoints that answer     *)
(* fully and chains that never overdraw an account, holders and            *)
(* total_supply are at every moment the exact outcome of the Transfers of  *)
(* a confirmed prefix of whole blocks, and that prefix only grows.         *)
THEOREM LedgerImplemented == ASSUME ~ShortReplies PROVE Spec => ImplementsLedger
<1>1. Init => Ledger!Init
  <2>1. Init => chain \in Fork /\ head \in 0 .. MaxBlock /\ db.applied = {}
    BY DEF Init, InitStore, EmptyDB
  <2> QED
    BY <2>1, InitKept DEF Ledger!Init, Booked, Books
<1>2. Typed /\ Counted /\ Rooted /\ Streamed /\ Covered /\ Ordered /\ Booked /\ Prefixed /\ Spanned
        /\ [Next]_vars => Booked' /\ Prefixed' /\ Spanned'
  BY BookedStep, PrefixedStep, SpannedStep
<1>3. Typed /\ Counted /\ Rooted /\ Streamed /\ Covered /\ Booked /\ Booked' /\ Prefixed /\ Spanned
        /\ [Next]_vars => [Ledger!Next]_Ledger!vars
  BY LedgerStep
<1> QED
  BY <1>1, <1>2, <1>3, InitKept, TypedInvariant, CountedInvariant, RootedInvariant, StreamedInvariant,
     CoveredInvariant, OrderedInvariant, PTL DEF Spec, ImplementsLedger, Ledger!Spec

-----------------------------------------------------------------------------
(* Nothing stored is lost, whichever process writes and whatever fails.    *)

(* The books of a database change only with what is applied. *)
SameBooks(d, e) ==
    e.applied = d.applied =>
        /\ e.holders = d.holders /\ e.supply = d.supply
        /\ e.holderCount = d.holderCount /\ e.transferCount = d.transferCount

Keeps(d, e) == Grows(d, e) /\ SameBooks(d, e)

(* A commit replaces the whole database by the view of its transaction; it *)
(* loses nothing because the view has all that was stored when it began,   *)
(* and nobody stores anything while it is open.                            *)
Viewed == txn # NoTxn => Keeps(db, txn.view)

LEMMA KeepsTypes ==
    ASSUME NEW d \in DB
    PROVE  /\ Keeps(d, d)
           /\ \A t \in Token : Keeps(d, InsertToken(d, t))
           /\ \A rows \in SUBSET Log : Keeps(d, InsertRows(d, rows)) /\ InsertRows(d, rows) \in DB
<1>1. Keeps(d, d)
  BY DEF Keeps, Grows, SameBooks
<1>2. ASSUME NEW t \in Token PROVE Keeps(d, InsertToken(d, t))
  <2>1. InsertToken(d, t) = [d EXCEPT !.tokens = d.tokens \cup {t}]
    BY InsertTokenType
  <2>2. /\ InsertToken(d, t).holders = d.holders /\ InsertToken(d, t).supply = d.supply
        /\ InsertToken(d, t).holderCount = d.holderCount
        /\ InsertToken(d, t).transferCount = d.transferCount
    BY <2>1 DEF DB
  <2> QED
    BY <2>2, GrowsTypes DEF Keeps, SameBooks
<1>3. ASSUME NEW rows \in SUBSET Log
      PROVE  Keeps(d, InsertRows(d, rows)) /\ InsertRows(d, rows) \in DB
  BY <1>3, InsertRowsType, GrowsTypes DEF Keeps, SameBooks
<1> QED
  BY <1>1, <1>2, <1>3

(* One writer at a time: a step that stores something outside an open       *)
(* transaction finds none open.                                            *)
LEMMA OneWriter ==
    ASSUME Next, txn # NoTxn
    PROVE  db' = db \/ \E p \in Proc : Commit(p)
<1>1. CASE Mine \/ Reorg \/ Trouble
  BY <1>1 DEF Mine, Reorg, Trouble, Fail, Crash, Abandon
<1>2. ASSUME NEW p \in Proc, Step(p)
      PROVE  db' = db \/ Commit(p)
  <2>1. CASE \/ Start(p) \/ Tick(p) \/ FactoryFetch(p) \/ SetFactoryCursor(p)
             \/ PublishCursor(p) \/ FactoryDone(p) \/ RangeBegin(p) \/ AddressRequired(p)
             \/ BatchesDone(p) \/ ApplyNextRow(p)
             \/ SetStreamCursor(p) \/ LiveDone(p) \/ TokenDone(p)
    BY <2>1 DEF Start, Tick, FactoryFetch, SetFactoryCursor, PublishCursor, FactoryDone,
                RangeBegin, AddressRequired, BatchesDone, ApplyNextRow,
                SetStreamCursor, LiveDone, TokenDone
  <2>2. CASE InsertNextToken(p) \/ TopicReply(p) \/ BatchReply(p)
    BY <2>2 DEF InsertNextToken, TopicReply, BatchReply, MayWrite
  <2> QED
    BY <1>2, <2>1, <2>2 DEF Step
<1> QED
  BY <1>1, <1>2 DEF Next

LEMMA StoreKept ==
    ASSUME Typed, Viewed, [Next]_vars
    PROVE  Keeps(db, db')
<1>0. db \in DB /\ Shape
  BY DEF Typed, Shape, TypeOK
<1>1. CASE db' = db
  BY <1>0, <1>1, KeepsTypes
<1>2. CASE \E t \in Token : db' = InsertToken(db, t)
  BY <1>0, <1>2, KeepsTypes
<1>3. CASE \E rows \in SUBSET Log : db' = InsertRows(db, rows)
  BY <1>0, <1>3, KeepsTypes
<1>4. ASSUME NEW p \in Proc, Commit(p) PROVE Keeps(db, db')
  BY <1>0, <1>4, TxnRecord DEF Commit, Viewed
<1>5. ASSUME NEW p \in Proc, ApplyNextRow(p) PROVE db' = db
  BY <1>5 DEF ApplyNextRow
<1> QED
  BY <1>0, <1>1, <1>2, <1>3, <1>4, <1>5, StoreEffects DEF vars

LEMMA ViewedStep ==
    ASSUME Typed, Viewed, [Next]_vars
    PROVE  Viewed'
<1> SUFFICES ASSUME txn' # NoTxn PROVE Keeps(db', txn'.view)
  BY DEF Viewed
<1>0. db \in DB /\ Shape /\ TodoOK
  BY DEF Typed, Shape, TypeOK
<1>1. CASE txn' = txn /\ db' = db
  BY <1>1 DEF Viewed
<1>2. CASE txn' = txn /\ Next
  <2>1. txn # NoTxn
    BY <1>2
  <2>2. ASSUME NEW p \in Proc, Commit(p) PROVE FALSE
    BY <2>2 DEF Commit
  <2> QED
    BY <1>1, <1>2, <2>1, <2>2, OneWriter
<1>3. ASSUME NEW p \in Proc, NEW view \in DB, Keeps(db, view), db' = db, txn' = OpenTxn(p, view)
      PROVE  Keeps(db', txn'.view)
  BY <1>3, OpenTxnType
<1>4. CASE /\ UNCHANGED db
           /\ \E p \in Proc :
                 \/ txn' = OpenTxn(p, db)
                 \/ \E rows \in SUBSET Log : txn' = OpenTxn(p, InsertRows(db, rows))
  BY <1>0, <1>3, <1>4, KeepsTypes
<1>5. ASSUME NEW p \in Proc, ApplyNextRow(p) PROVE Keeps(db', txn'.view)
  <2>1. PICK l \in txn.todo :
          /\ l \notin txn.view.applied
          /\ txn'.view.events = txn.view.events
          /\ txn'.view.tokens = txn.view.tokens
          /\ txn'.view.applied = txn.view.applied \cup {l}
          /\ txn # NoTxn
    BY <1>0, <1>5, ApplyFacts
  <2>2. db' = db
    BY <1>5 DEF ApplyNextRow
  <2>3. Keeps(db, txn.view)
    BY <2>1 DEF Viewed
  <2>4. Grows(db, txn'.view)
    BY <2>1, <2>3 DEF Keeps, Grows
  <2>5. txn'.view.applied # db.applied
    BY <2>1, <2>3 DEF Keeps, Grows
  <2> QED
    BY <2>2, <2>4, <2>5 DEF Keeps, SameBooks
<1>6. ASSUME NEW p \in Proc, Commit(p) PROVE FALSE
  BY <1>6 DEF Commit
<1> QED
  BY <1>0, <1>1, <1>2, <1>4, <1>5, <1>6, StoreEffects DEF vars

(* No step of any process loses a stored row, a listed token or the mark of *)
(* an applied Transfer, and balances, supplies and counts change in no     *)
(* step that does not apply a Transfer: not by a commit beside another     *)
(* process, a replayed range or an abandoned transaction, and with         *)
(* endpoints that leave out logs as well.                                  *)
THEOREM NothingIsLost == Spec => [][Keeps(db, db')]_vars
<1>1. Init => Viewed
  BY DEF Init, Viewed
<1>2. Typed /\ Viewed /\ [Next]_vars => Viewed'
  BY ViewedStep
<1>3. Typed /\ Viewed /\ [Next]_vars => Keeps(db, db')
  BY StoreKept
<1> QED
  BY <1>1, <1>2, <1>3, TypedInvariant, PTL DEF Spec
=============================================================================
