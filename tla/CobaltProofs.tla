---------------------------- MODULE CobaltProofs -----------------------------
(***************************************************************************)
(* The PolicyRegistry and Seized streams of CobaltStreams, for every chain,*)
(* every chunk size and any number of followers, --once runs and backfills *)
(* on one database.                                                        *)
(*                                                                         *)
(*   Formed     types; the ranges in flight tile the blocks behind them;   *)
(*              the search for the first Cobalt block encloses it          *)
(*   Vouched    what a cursor, a drain's progress and the reply to a range *)
(*              promise about the stored rows                              *)
(*   StateIsNewest  is inductive beside the types                           *)
(***************************************************************************)
EXTENDS CobaltStreams, FiniteSetTheorems, TLAPS

(* The first block of the history of B20 that is not older than Cobalt. *)
Activation == Greatest(StartBlock, CobaltBlock)

(* A drain reads only blocks whose deployments are in the tokens table. *)
Aimed(m) ==
    /\ m.target \in 0 .. MaxBlock
    /\ m.target <= factory
    /\ m.pc \in {"drain", "ranges"} => First <= m.progress

(* The range that reaches furthest; the others leave no gap below it. *)
Top(m, r) ==
    /\ r \in m.flight
    /\ \A q \in m.flight : q.to <= r.to
    /\ m.progress < r.to /\ r.to <= m.target
    /\ \A b \in m.progress + 1 .. r.to : \E q \in m.flight : q.from <= b /\ b <= q.to

Tiled(m) == m.pc = "ranges" => IsFiniteSet(m.flight) /\ \E r \in m.flight : Top(m, r)

Searching(m) ==
    m.pc = "search" =>
        /\ CobaltBlock <= m.target
        /\ StartBlock <= m.low /\ m.low <= Activation
        /\ Activation <= m.high \/ m.low = Activation

WellFormed(m) == Aimed(m) /\ Tiled(m) /\ Searching(m)

Formed == TypeOK /\ StartExact /\ \A p \in Proc : WellFormed(mem[p])

-----------------------------------------------------------------------------
(* What a process in a drain may rely on. *)
Reached(m) ==
    m.pc \in {"drain", "ranges"} =>
        \A l \in Log : StreamOf(l) = m.key /\ l.block <= m.progress => l \in events

Answered(m) ==
    m.pc = "ranges" =>
        \A r \in m.flight : r.got =>
            \A l \in Log : StreamOf(l) = m.key /\ r.from <= l.block /\ l.block <= r.to
                             => l \in events \cup r.todo

Vouched == StreamComplete /\ \A p \in Proc : Reached(mem[p]) /\ Answered(mem[p])

-----------------------------------------------------------------------------
(* Arithmetic of ranges.                                                   *)

LEMMA Numbers ==
    /\ StartBlock \in Nat /\ StartBlock > 0
    /\ StreamChunk \in Nat /\ StreamChunk > 0
    /\ Concurrency \in Nat /\ Concurrency > 0
    /\ CobaltBlock \in Nat /\ MaxBlock \in Nat /\ MaxLag \in Nat
    /\ First \in Nat /\ First = StartBlock - 1
    /\ Activation \in Nat
BY CobaltAssumption DEF First, Activation, Greatest

LEMMA DivBounds ==
    ASSUME NEW a \in Nat, NEW c \in Nat \ {0}
    PROVE  /\ a \div c \in Nat
           /\ (a \div c) * c <= a
           /\ a < (a \div c) * c + c
OBVIOUS

LEMMA TimesMonotone ==
    ASSUME NEW i \in Nat, NEW n \in Nat, i < n, NEW c \in Nat
    PROVE  /\ i * c \in Nat /\ n * c \in Nat
           /\ i * c + c <= n * c
<1>1. PICK d \in Nat : n = i + 1 + d
  <2>1. n - i - 1 \in Nat /\ n = i + 1 + (n - i - 1)
    OBVIOUS
  <2> QED
    BY <2>1
<1>2. n * c = i * c + c + d * c
  BY <1>1
<1>3. d * c \in Nat /\ i * c \in Nat
  OBVIOUS
<1> QED
  BY <1>2, <1>3

(* The ranges that one batch asks for, the last one cut at the target. *)
LEMMA RangeBounds ==
    ASSUME NEW from \in Int, NEW i \in Int, NEW target \in Int
    PROVE  /\ Asked(BatchRange(from, i, target)) \in Flight
           /\ Asked(BatchRange(from, i, target)).got = FALSE
           /\ Asked(BatchRange(from, i, target)).from = from + i * StreamChunk + 1
           /\ Asked(BatchRange(from, i, target)).to
                = Least(from + i * StreamChunk + StreamChunk, target)
<1>1. (i + 1) * StreamChunk = i * StreamChunk + StreamChunk /\ i * StreamChunk \in Int
  BY Numbers
<1> QED
  BY <1>1, Numbers DEF Asked, BatchRange, Flight, Least

LEMMA BatchSize ==
    ASSUME NEW left \in Nat \ {0}, NEW most \in Nat \ {0}
    PROVE  /\ Least(most, CeilDiv(left, StreamChunk)) \in Nat
           /\ Least(most, CeilDiv(left, StreamChunk)) > 0
<1> DEFINE q == (left + StreamChunk - 1) \div StreamChunk
<1>1. left + StreamChunk - 1 \in Nat /\ StreamChunk \in Nat \ {0}
  BY Numbers
<1>2. q \in Nat /\ left + StreamChunk - 1 < q * StreamChunk + StreamChunk
  BY <1>1, DivBounds
<1>3. q # 0
  <2>1. 0 * StreamChunk = 0
    BY Numbers
  <2> QED
    BY <1>1, <1>2, <2>1
<1>4. CeilDiv(left, StreamChunk) = q
  BY DEF CeilDiv
<1> QED
  BY <1>2, <1>3, <1>4 DEF Least

(* A batch leaves no block out between the cursor and its furthest range.  *)
LEMMA BatchTiles ==
    ASSUME NEW m, NEW from \in Int, NEW n \in Nat \ {0},
           m.target \in Int, from < m.target, m.progress = from,
           m.flight = {Asked(BatchRange(from, i, m.target)) : i \in 0 .. n - 1}
    PROVE  Top(m, Asked(BatchRange(from, n - 1, m.target)))
<1> DEFINE R(i) == Asked(BatchRange(from, i, m.target))
           C == StreamChunk
<1>1. C \in Nat /\ C > 0
  BY Numbers
<1>2. \A i \in 0 .. n - 1 :
        /\ i * C \in Nat /\ n * C \in Nat /\ i * C + C <= n * C
        /\ R(i).from = from + i * C + 1
        /\ R(i).to = Least(from + i * C + C, m.target)
  <2> TAKE i \in 0 .. n - 1
  <2>1. i * C \in Nat /\ n * C \in Nat /\ i * C + C <= n * C
    BY <1>1, TimesMonotone
  <2>2. /\ R(i).from = from + i * C + 1
        /\ R(i).to = Least(from + i * C + C, m.target)
    <3>1. i \in Int
      OBVIOUS
    <3> QED
      BY <3>1, RangeBounds
  <2> QED
    BY <2>1, <2>2
<1>3. (n - 1) * C + C = n * C
  BY <1>1
<1>4. R(n - 1) \in m.flight /\ R(n - 1).to = Least(from + n * C, m.target)
  <2>1. n - 1 \in 0 .. n - 1
    OBVIOUS
  <2>2. from + (n - 1) * C + C = from + n * C
    <3> HIDE DEF C
    <3> QED
      BY <1>1, <1>2, <1>3, <2>1
  <2> QED
    BY <1>2, <2>1, <2>2
<1>5. n * C \in Nat /\ n * C >= C
  <2>1. 0 * C + C <= n * C /\ n * C \in Nat /\ 0 * C = 0
    BY <1>1, <1>2
  <2> QED
    BY <1>1, <2>1
<1>6. \A q \in m.flight : q.to <= R(n - 1).to
  <2> TAKE q \in m.flight
  <2>1. PICK i \in 0 .. n - 1 : q = R(i)
    OBVIOUS
  <2> HIDE DEF R, C
  <2>2. q.to = Least(from + i * C + C, m.target) /\ i * C \in Nat /\ i * C + C <= n * C
    BY <1>2, <2>1
  <2> QED
    BY <1>1, <1>4, <1>5, <2>2 DEF Least
<1>7. m.progress < R(n - 1).to /\ R(n - 1).to <= m.target
  BY <1>1, <1>4, <1>5 DEF Least
<1>8. ASSUME NEW b \in m.progress + 1 .. R(n - 1).to
      PROVE  \E q \in m.flight : q.from <= b /\ b <= q.to
  <2> DEFINE i == (b - from - 1) \div C
  <2>1. b \in Int /\ from < b /\ b <= m.target /\ b <= from + n * C
    <3> HIDE DEF R, C
    <3> QED
      BY <1>1, <1>4, <1>5, <1>7, <1>8 DEF Least
  <2>2. b - from - 1 \in Nat /\ C \in Nat \ {0}
    BY <1>1, <2>1
  <2>3. i \in Nat /\ i * C <= b - from - 1 /\ b - from - 1 < i * C + C
    BY <2>2, DivBounds
  <2>4. i < n
    <3>1. ASSUME n <= i PROVE FALSE
      <4>1. CASE n = i
        BY <1>5, <2>1, <2>3, <4>1
      <4>2. CASE n < i
        <5>1. n * C + C <= i * C
          BY <1>1, <2>3, <4>2, TimesMonotone
        <5> HIDE DEF i, C
        <5> QED
          BY <1>1, <1>5, <2>1, <2>3, <5>1
      <4> HIDE DEF i
      <4> QED
        BY <2>3, <3>1, <4>1, <4>2
    <3> HIDE DEF i
    <3> QED
      BY <2>3, <3>1
  <2>5. i \in 0 .. n - 1
    BY <2>3, <2>4
  <2>6. R(i).from <= b /\ b <= R(i).to
    <3>1. R(i).from = from + i * C + 1 /\ R(i).to = Least(from + i * C + C, m.target)
          /\ i * C \in Nat
      BY <1>2, <2>5
    <3> HIDE DEF i, C, R
    <3> QED
      BY <1>1, <2>1, <2>3, <3>1 DEF Least
  <2> QED
    BY <2>5, <2>6
<1> QED
  BY <1>4, <1>6, <1>7, <1>8 DEF Top

(* The block Promise.all reports is the end of the furthest range. *)
LEMMA FurthestEnd ==
    ASSUME NEW m \in Mem, NEW r, Top(m, r)
    PROVE  (CHOOSE b \in {q.to : q \in m.flight} : \A q \in m.flight : q.to <= b) = r.to
<1> DEFINE S == {q.to : q \in m.flight}
           P(b) == \A q \in m.flight : q.to <= b
           c == CHOOSE b \in S : P(b)
<1>1. r.to \in S /\ P(r.to)
  BY DEF Top
<1>2. c \in S /\ P(c)
  BY <1>1
<1>3. S \subseteq Int
  BY DEF Mem, Flight
<1>4. c <= r.to /\ r.to <= c
  BY <1>1, <1>2
<1>5. c \in Int /\ r.to \in Int
  BY <1>1, <1>2, <1>3
<1>6. c = r.to
  <2> HIDE DEF S, P, c
  <2> QED
    BY <1>4, <1>5
<1> QED
  BY <1>6

(* A range that gets its reply, or hands over a log, stays where it is. *)
LEMMA TopKept ==
    ASSUME NEW m, NEW n, NEW r \in m.flight, NEW s, s.from = r.from, s.to = r.to,
           n.flight = (m.flight \ {r}) \cup {s}, n.progress = m.progress, n.target = m.target,
           \E q \in m.flight : Top(m, q)
    PROVE  \E q \in n.flight : Top(n, q)
<1>1. PICK q \in m.flight : Top(m, q)
  OBVIOUS
<1> DEFINE w == IF q = r THEN s ELSE q
<1>2. w \in n.flight /\ w.to = q.to
  OBVIOUS
<1>3. \A b \in n.progress + 1 .. w.to : \E k \in n.flight : k.from <= b /\ b <= k.to
  <2> TAKE b \in n.progress + 1 .. w.to
  <2>1. PICK k \in m.flight : k.from <= b /\ b <= k.to
    BY <1>1, <1>2 DEF Top
  <2>2. CASE k = r
    BY <2>1, <2>2
  <2>3. CASE k # r
    BY <2>1, <2>3
  <2> QED
    BY <2>2, <2>3
<1>4. \A k \in n.flight : k.to <= w.to
  BY <1>1, <1>2 DEF Top
<1>5. n.progress < w.to /\ w.to <= n.target
  BY <1>1, <1>2 DEF Top
<1>6. Top(n, w)
  BY <1>2, <1>3, <1>4, <1>5 DEF Top
<1> QED
  BY <1>2, <1>6

-----------------------------------------------------------------------------
(* Formed.                                                                 *)

LEMMA OneMemory ==
    ASSUME mem \in [Proc -> Mem], NEW p \in Proc, NEW m \in Mem, mem' = [mem EXCEPT ![p] = m]
    PROVE  /\ mem' \in [Proc -> Mem]
           /\ mem'[p] = m
           /\ \A q \in Proc : q # p => mem'[q] = mem[q]
OBVIOUS

LEMMA AtRest ==
    ASSUME NEW p \in Proc, factory \in Nat
    PROVE  /\ Down \in Mem /\ WellFormed(Down)
           /\ Stopped(p) \in Mem /\ WellFormed(Stopped(p))
           /\ Down.pc = "down" /\ Stopped(p).pc \in {"down", "idle"}
<1>1. Down \in Mem /\ Down.pc = "down" /\ Down.target = 0
  BY DEF Down, Mem, Key
<1>2. Stopped(p) \in Mem /\ Stopped(p).pc \in {"down", "idle"} /\ Stopped(p).target = 0
  BY DEF Stopped, Down, Mem, Key
<1> QED
  BY <1>1, <1>2, Numbers DEF WellFormed, Aimed, Tiled, Searching

(* A step of one process keeps what it leaves alone. *)
LEMMA FormedByOne ==
    ASSUME Formed, NEW p \in Proc,
           mem' \in [Proc -> Mem], \A q \in Proc : q # p => mem'[q] = mem[q],
           factory' \in First .. Greatest(First, MaxBlock), factory <= factory',
           safe' = safe, events' \subseteq Log,
           state' \in [Policy -> [created : Log \cup {None}, children : Log \cup {None}]],
           cursor' \in [Key -> {Unset} \cup First .. MaxBlock],
           start' \in {Unset} \cup StartBlock .. Greatest(StartBlock, MaxBlock), StartExact',
           WellFormed(mem[p])'
    PROVE  Formed'
<1>1. TypeOK'
  BY DEF Formed, TypeOK
<1>2. ASSUME NEW q \in Proc, q # p PROVE WellFormed(mem[q])'
  <2>1. mem'[q] = mem[q] /\ WellFormed(mem[q]) /\ mem[q].target \in Int
    BY <1>2 DEF Formed, TypeOK, WellFormed, Aimed
  <2>2. factory \in Int /\ factory' \in Int
    BY Numbers DEF Formed, TypeOK
  <2> QED
    BY <2>1, <2>2 DEF WellFormed, Aimed, Tiled, Searching, Top
<1> QED
  BY <1>1, <1>2 DEF Formed

LEMMA InitFormed == Init => Formed
<1> SUFFICES ASSUME Init PROVE Formed
  OBVIOUS
<1>1. factory \in Nat /\ factory \in First .. Greatest(First, MaxBlock)
  BY Numbers DEF Init, Greatest
<1>2. mem \in [Proc -> Mem] /\ \A p \in Proc : WellFormed(mem[p])
  BY <1>1, AtRest DEF Init
<1>3. StartExact
  BY DEF Init, StartExact
<1>4. TypeOK
  BY <1>1, <1>2 DEF Init, TypeOK
<1> QED
  BY <1>2, <1>3, <1>4 DEF Formed

(* A step that moves one process and neither the tokens nor the database. *)
LEMMA FormedInMemory ==
    ASSUME Formed, NEW p \in Proc, NEW m \in Mem, mem' = [mem EXCEPT ![p] = m],
           UNCHANGED <<safe, factory, events, state, cursor, start>>, WellFormed(m)
    PROVE  Formed'
<1>1. /\ mem' \in [Proc -> Mem] /\ mem'[p] = m
      /\ \A q \in Proc : q # p => mem'[q] = mem[q]
  BY OneMemory DEF Formed, TypeOK
<1>2. WellFormed(mem[p])'
  BY <1>1 DEF WellFormed, Aimed, Tiled, Searching, Top
<1>3. factory \in Int /\ StartExact'
  BY Numbers DEF Formed, TypeOK, StartExact
<1> QED
  BY <1>1, <1>2, <1>3, FormedByOne DEF Formed, TypeOK

LEMMA FormedFollow ==
    ASSUME Formed, NEW p \in Proc, Follow(p)
    PROVE  Formed'
<1>1. PICK s \in Greatest(0, safe - MaxLag) .. safe :
        /\ factory' = IF Mode[p] = "backfill" THEN factory ELSE Greatest(factory, s)
        /\ mem' = [mem EXCEPT ![p] =
              [Down EXCEPT !.pc = "drain", !.target = Target(p, s),
                           !.progress = CursorOr("registry_cursor", First)]]
  BY DEF Follow
<1> DEFINE m == [Down EXCEPT !.pc = "drain", !.target = Target(p, s),
                             !.progress = CursorOr("registry_cursor", First)]
<1>2. /\ safe \in 0 .. MaxBlock /\ factory \in Nat /\ factory \in First .. Greatest(First, MaxBlock)
      /\ cursor["registry_cursor"] \in {Unset} \cup First .. MaxBlock
  BY Numbers DEF Formed, TypeOK, Key
<1>3. s \in 0 .. MaxBlock
  BY <1>2, Numbers DEF Greatest
<1>4. factory' \in First .. Greatest(First, MaxBlock) /\ factory <= factory'
  BY <1>1, <1>2, <1>3, Numbers DEF Greatest
<1>5. Target(p, s) \in 0 .. MaxBlock /\ Target(p, s) <= factory'
  <2>1. CASE Mode[p] = "backfill"
    BY <1>1, <1>2, <1>3, <2>1, Numbers DEF Target, Least
  <2>2. CASE Mode[p] # "backfill"
    BY <1>1, <1>2, <1>3, <2>2 DEF Target, Greatest
  <2> QED
    BY <2>1, <2>2
<1>6. CursorOr("registry_cursor", First) \in Int /\ First <= CursorOr("registry_cursor", First)
  BY <1>2, Numbers DEF CursorOr
<1>7. m \in Mem /\ m.pc = "drain" /\ m.target = Target(p, s)
      /\ m.progress = CursorOr("registry_cursor", First)
  <2>1. Target(p, s) \in Int
    BY <1>5
  <2>2. Down \in Mem
    BY <1>2, AtRest
  <2> QED
    BY <1>6, <2>1, <2>2 DEF Mem
<1> HIDE DEF m
<1>8. /\ mem' \in [Proc -> Mem] /\ mem'[p] = m
      /\ \A q \in Proc : q # p => mem'[q] = mem[q]
  BY <1>1, <1>7, OneMemory DEF Formed, TypeOK, m
<1>9. WellFormed(mem[p])'
  BY <1>5, <1>6, <1>7, <1>8 DEF WellFormed, Aimed, Tiled, Searching
<1>10. UNCHANGED <<safe, events, state, cursor, start>> /\ StartExact'
  BY DEF Follow, Formed, StartExact
<1> QED
  BY <1>4, <1>8, <1>9, <1>10, FormedByOne DEF Formed, TypeOK

LEMMA FormedLaunch ==
    ASSUME Formed, NEW p \in Proc, Launch(p)
    PROVE  Formed'
<1> DEFINE m == mem[p]
           from == Greatest(m.progress, CursorOr(m.key, m.progress))
           most == IF Bounded(p) THEN 1 ELSE Concurrency
           n == Least(most, CeilDiv(m.target - from, StreamChunk))
           batch == {Asked(BatchRange(from, i, m.target)) : i \in 0 .. n - 1}
           m2 == [m EXCEPT !.pc = "ranges", !.progress = from, !.flight = batch]
<1>1. /\ At(p, "drain") /\ from < m.target /\ mem' = [mem EXCEPT ![p] = m2]
      /\ UNCHANGED <<safe, factory, events, state, cursor, start>>
  BY DEF Launch
<1>2. m \in Mem /\ WellFormed(m)
  BY DEF Formed, TypeOK
<1>3. m.progress \in Int /\ m.target \in Int /\ First <= m.progress /\ m.key \in Key
  BY <1>1, <1>2 DEF Mem, WellFormed, Aimed, At
<1>4. from \in Int /\ m.progress <= from
  <2>1. cursor[m.key] \in Int
    BY <1>3, Numbers DEF Formed, TypeOK, Unset
  <2> QED
    BY <1>3, <2>1 DEF Greatest, CursorOr
<1>5. n \in Nat \ {0}
  <2>1. m.target - from \in Nat \ {0} /\ most \in Nat \ {0}
    <3> HIDE DEF m, from
    <3> QED
      BY <1>1, <1>3, <1>4, Numbers
  <2> HIDE DEF m, from, most
  <2>2. n \in Nat /\ n > 0
    BY <2>1, BatchSize
  <2> HIDE DEF n
  <2> QED
    BY <2>2
<1>6. batch \subseteq Flight /\ IsFiniteSet(batch)
  <2>1. ASSUME NEW i \in 0 .. n - 1 PROVE Asked(BatchRange(from, i, m.target)) \in Flight
    <3>1. i \in Int
      OBVIOUS
    <3> HIDE DEF from, n, m
    <3> QED
      BY <1>3, <1>4, <3>1, RangeBounds
  <2>2. IsFiniteSet(batch)
    <3> DEFINE f == [i \in 0 .. n - 1 |-> Asked(BatchRange(from, i, m.target))]
    <3>1. f \in Surjection(0 .. n - 1, batch)
      <4> HIDE DEF from, n, m
      <4> QED
        BY DEF Surjection
    <3>2. IsFiniteSet(0 .. n - 1)
      <4>1. n - 1 \in Int
        BY <1>5
      <4> HIDE DEF n
      <4> QED
        BY <4>1, FS_Interval
    <3> HIDE DEF f, batch, n
    <3> QED
      BY <3>1, <3>2, FS_Surjection
  <2> HIDE DEF from, n, m
  <2> QED
    BY <2>1, <2>2
<1>7. m2 \in Mem /\ m2.pc = "ranges" /\ m2.target = m.target /\ m2.progress = from
      /\ m2.flight = batch
  <2> HIDE DEF from, batch, m
  <2> QED
    BY <1>2, <1>4, <1>6 DEF Mem
<1>8. Top(m2, Asked(BatchRange(from, n - 1, m.target)))
  <2>1. m2.flight = {Asked(BatchRange(from, i, m2.target)) : i \in 0 .. n - 1}
    <3> HIDE DEF m2, from, n, m
    <3> QED
      BY <1>7
  <2> HIDE DEF m2, from, n, m, batch
  <2>2. Top(m2, Asked(BatchRange(from, n - 1, m2.target)))
    BY <1>1, <1>3, <1>4, <1>5, <1>7, <2>1, BatchTiles
  <2> QED
    BY <1>7, <2>2
<1> HIDE DEF m2
<1>9. Asked(BatchRange(from, n - 1, m.target)) \in m2.flight
  BY <1>8 DEF Top
<1>10. WellFormed(m2)
  <2> HIDE DEF from, n, m, batch
  <2>1. Aimed(m2)
    BY <1>2, <1>3, <1>4, <1>7, Numbers DEF WellFormed, Aimed
  <2>2. Tiled(m2) /\ Searching(m2)
    BY <1>6, <1>7, <1>8, <1>9 DEF Tiled, Searching
  <2> QED
    BY <2>1, <2>2 DEF WellFormed
<1> QED
  BY <1>1, <1>7, <1>10, FormedInMemory

(* A range of a batch is replaced by itself with other logs to insert. *)
LEMMA FormedFlight ==
    ASSUME Formed, NEW p \in Proc, At(p, "ranges"), NEW r \in mem[p].flight, NEW s \in Flight,
           s.from = r.from, s.to = r.to,
           mem' = [mem EXCEPT ![p].flight = (@ \ {r}) \cup {s}]
    PROVE  /\ mem' \in [Proc -> Mem]
           /\ \A q \in Proc : q # p => mem'[q] = mem[q]
           /\ mem'[p] = [mem[p] EXCEPT !.flight = (mem[p].flight \ {r}) \cup {s}]
           /\ factory' = factory => WellFormed(mem[p])'
<1> DEFINE m == [mem[p] EXCEPT !.flight = (mem[p].flight \ {r}) \cup {s}]
<1>1. mem[p] \in Mem /\ WellFormed(mem[p]) /\ mem[p].pc = "ranges"
  BY DEF Formed, TypeOK, At
<1>2. m \in Mem /\ m.pc = "ranges" /\ m.target = mem[p].target /\ m.progress = mem[p].progress
      /\ m.flight = (mem[p].flight \ {r}) \cup {s}
  BY <1>1 DEF Mem
<1>3. mem' = [mem EXCEPT ![p] = m]
  OBVIOUS
<1> HIDE DEF m
<1>4. /\ mem' \in [Proc -> Mem] /\ mem'[p] = m
      /\ \A q \in Proc : q # p => mem'[q] = mem[q]
  BY <1>2, <1>3, OneMemory DEF Formed, TypeOK
<1>5. \E q \in m.flight : Top(m, q)
  BY <1>1, <1>2, TopKept DEF WellFormed, Tiled
<1>7. IsFiniteSet(m.flight)
  <2>1. IsFiniteSet(mem[p].flight \ {r})
    BY <1>1, FS_RemoveElement DEF WellFormed, Tiled
  <2> QED
    BY <1>2, <2>1, FS_AddElement
<1>6. ASSUME factory' = factory PROVE WellFormed(mem[p])'
  BY <1>1, <1>2, <1>4, <1>5, <1>6, <1>7 DEF WellFormed, Aimed, Tiled, Searching, Top
<1> QED
  BY <1>4, <1>6 DEF m

LEMMA FormedReply ==
    ASSUME Formed, NEW p \in Proc, Reply(p)
    PROVE  Formed'
<1> DEFINE m == mem[p]
<1>1. PICK r \in m.flight :
        mem' = [mem EXCEPT ![p].flight = (@ \ {r}) \cup
                  {[r EXCEPT !.got = TRUE,
                      !.todo = {l \in Log : /\ StreamOf(l) = m.key
                                            /\ l.block \in r.from .. r.to
                                            /\ Known(l)}]}]
  BY DEF Reply
<1> DEFINE s == [r EXCEPT !.got = TRUE,
                   !.todo = {l \in Log : /\ StreamOf(l) = m.key
                                         /\ l.block \in r.from .. r.to
                                         /\ Known(l)}]
<1>2. r \in Flight /\ At(p, "ranges") /\ UNCHANGED <<safe, factory, events, state, cursor, start>>
  BY DEF Reply, Formed, TypeOK, Mem
<1>3. s \in Flight /\ s.from = r.from /\ s.to = r.to
  BY <1>2 DEF Flight
<1>4. mem' = [mem EXCEPT ![p].flight = (@ \ {r}) \cup {s}]
  BY <1>1
<1> HIDE DEF s
<1>5. /\ mem' \in [Proc -> Mem] /\ WellFormed(mem[p])'
      /\ \A q \in Proc : q # p => mem'[q] = mem[q]
  BY <1>2, <1>3, <1>4, FormedFlight
<1>6. factory \in Int /\ StartExact'
  BY <1>2, Numbers DEF Formed, TypeOK, StartExact
<1> QED
  BY <1>2, <1>5, <1>6, FormedByOne DEF Formed, TypeOK

LEMMA InsertTyped ==
    ASSUME TypeOK, NEW l \in Log, Insert(l)
    PROVE  /\ events' = events \cup {l}
           /\ events' \subseteq Log
           /\ state' \in [Policy -> [created : Log \cup {None}, children : Log \cup {None}]]
<1> DEFINE Row == [created : Log \cup {None}, children : Log \cup {None}]
<1>1. events' = events \cup {l} /\ events' \subseteq Log /\ state \in [Policy -> Row]
  BY DEF TypeOK, Insert
<1>2. CASE state' = state
  BY <1>1, <1>2
<1>3. CASE l.kind = "PolicyCreated" /\ state' = [state EXCEPT ![l.policy].created = l]
  BY <1>1, <1>3, RegistryAssumption
<1>4. CASE l.kind = "CompositePolicyUpdated" /\ state' = [state EXCEPT ![l.policy].children = l]
  BY <1>1, <1>4, RegistryAssumption
<1>5. \/ state' = state
      \/ l.kind = "PolicyCreated" /\ state' = [state EXCEPT ![l.policy].created = l]
      \/ l.kind = "CompositePolicyUpdated" /\ state' = [state EXCEPT ![l.policy].children = l]
  BY DEF Insert
<1> QED
  BY <1>1, <1>2, <1>3, <1>4, <1>5

LEMMA FormedInsert ==
    ASSUME Formed, NEW p \in Proc, InsertNext(p)
    PROVE  Formed'
<1>1. PICK r \in mem[p].flight : \E l \in r.todo :
        /\ Insert(l)
        /\ mem' = [mem EXCEPT ![p].flight = (@ \ {r}) \cup {[r EXCEPT !.todo = @ \ {l}]}]
  BY DEF InsertNext
<1>2. PICK l \in r.todo :
        /\ Insert(l)
        /\ mem' = [mem EXCEPT ![p].flight = (@ \ {r}) \cup {[r EXCEPT !.todo = @ \ {l}]}]
  BY <1>1
<1> DEFINE s == [r EXCEPT !.todo = @ \ {l}]
<1>3. r \in Flight /\ At(p, "ranges") /\ UNCHANGED <<safe, factory, cursor, start>>
  BY DEF InsertNext, Formed, TypeOK, Mem
<1>4. s \in Flight /\ s.from = r.from /\ s.to = r.to /\ l \in Log
  BY <1>3 DEF Flight
<1>5. mem' = [mem EXCEPT ![p].flight = (@ \ {r}) \cup {s}]
  BY <1>2
<1> HIDE DEF s
<1>6. /\ mem' \in [Proc -> Mem] /\ WellFormed(mem[p])'
      /\ \A q \in Proc : q # p => mem'[q] = mem[q]
  BY <1>3, <1>4, <1>5, FormedFlight
<1>7. /\ events' \subseteq Log
      /\ state' \in [Policy -> [created : Log \cup {None}, children : Log \cup {None}]]
  BY <1>2, <1>4, InsertTyped DEF Formed
<1>8. factory \in Int /\ StartExact'
  BY <1>3, Numbers DEF Formed, TypeOK, StartExact
<1> QED
  BY <1>3, <1>6, <1>7, <1>8, FormedByOne DEF Formed, TypeOK

(* What Advance writes: the end of the furthest range, a new block. *)
LEMMA AdvanceMeaning ==
    ASSUME Formed, NEW p \in Proc, Advance(p)
    PROVE  \E r \in mem[p].flight :
             /\ Top(mem[p], r)
             /\ r.to \in First + 1 .. MaxBlock
             /\ mem[p].pc = "ranges" /\ mem[p].key \in Key /\ mem[p].progress \in Int
             /\ \A q \in mem[p].flight : q.got /\ q.todo = {}
             /\ cursor' = [cursor EXCEPT ![mem[p].key] = AdvanceTo(@, r.to)]
             /\ mem'[p].pc = "drain" /\ mem'[p].progress = r.to /\ mem'[p].key = mem[p].key
             /\ mem'[p].target = mem[p].target
             /\ mem' \in [Proc -> Mem]
             /\ \A q \in Proc : q # p => mem'[q] = mem[q]
<1> DEFINE m == mem[p]
           to == CHOOSE b \in {r.to : r \in m.flight} : \A r \in m.flight : r.to <= b
           n == IF Bounded(p) THEN m.processed + Cardinality(m.flight) ELSE 0
           m2 == [m EXCEPT !.pc = "drain", !.progress = to, !.flight = {}, !.processed = n]
<1>1. m \in Mem /\ m.pc = "ranges" /\ WellFormed(m)
  BY DEF Advance, At, Formed, TypeOK
<1>2. PICK r \in m.flight : Top(m, r)
  BY <1>1 DEF WellFormed, Tiled
<1>3. to = r.to /\ r.to \in Int
  <2>1. r.to \in Int
    BY <1>1 DEF Mem, Flight
  <2> QED
    BY <1>1, <1>2, <2>1, FurthestEnd
<1>4. n \in Nat
  <2>1. Cardinality(m.flight) \in Nat
    BY <1>1, FS_CardinalityType DEF WellFormed, Tiled
  <2>2. m.processed \in Nat
    BY <1>1 DEF Mem
  <2> HIDE DEF m
  <2> QED
    BY <2>1, <2>2
<1>5. /\ cursor' = [cursor EXCEPT ![m.key] = AdvanceTo(@, to)]
      /\ mem' = [mem EXCEPT ![p] = m2]
      /\ \A q \in m.flight : q.got /\ q.todo = {}
  BY DEF Advance
<1>6. m2 \in Mem /\ m2.pc = "drain" /\ m2.progress = r.to /\ m2.key = m.key
      /\ m2.target = m.target
  <2> HIDE DEF m, n, to
  <2> QED
    BY <1>1, <1>3, <1>4 DEF Mem
<1> HIDE DEF m2
<1>7. /\ mem' \in [Proc -> Mem] /\ mem'[p] = m2
      /\ \A q \in Proc : q # p => mem'[q] = mem[q]
  BY <1>5, <1>6, OneMemory DEF Formed, TypeOK
<1>8. m.key \in Key /\ m.progress \in Int /\ r.to \in First + 1 .. MaxBlock
  BY <1>1, <1>2, <1>3, Numbers DEF Mem, WellFormed, Aimed, Top
<1>9. cursor' = [cursor EXCEPT ![m.key] = AdvanceTo(@, r.to)]
  BY <1>3, <1>5
<1> HIDE DEF to
<1> QED
  BY <1>1, <1>2, <1>5, <1>6, <1>7, <1>8, <1>9

LEMMA FormedAdvance ==
    ASSUME Formed, NEW p \in Proc, Advance(p)
    PROVE  Formed'
<1>1. PICK r \in mem[p].flight :
        /\ Top(mem[p], r)
        /\ r.to \in First + 1 .. MaxBlock
        /\ mem[p].key \in Key
        /\ cursor' = [cursor EXCEPT ![mem[p].key] = AdvanceTo(@, r.to)]
        /\ mem'[p].pc = "drain" /\ mem'[p].progress = r.to
        /\ mem'[p].target = mem[p].target
        /\ mem' \in [Proc -> Mem]
        /\ \A q \in Proc : q # p => mem'[q] = mem[q]
  BY AdvanceMeaning
<1>2. UNCHANGED <<safe, factory, events, state, start>> /\ StartExact'
  BY DEF Advance, Formed, StartExact
<1>3. cursor' \in [Key -> {Unset} \cup First .. MaxBlock]
  <2>1. cursor \in [Key -> {Unset} \cup First .. MaxBlock]
    BY DEF Formed, TypeOK
  <2>2. AdvanceTo(cursor[mem[p].key], r.to) \in First .. MaxBlock
    BY <1>1, <2>1, Numbers DEF AdvanceTo, Greatest, Unset
  <2> QED
    BY <1>1, <2>1, <2>2
<1>4. WellFormed(mem[p])'
  BY <1>1, <1>2, Numbers DEF Formed, WellFormed, Aimed, Tiled, Searching
<1>5. factory \in Int
  BY Numbers DEF Formed, TypeOK
<1> QED
  BY <1>1, <1>2, <1>3, <1>4, <1>5, FormedByOne DEF Formed, TypeOK

(* The seizures are read from the cursor, or from the start block. *)
LEMMA SeizeMeaning ==
    ASSUME TypeOK, NEW m \in Mem, NEW from \in Int, StartBlock <= from
    PROVE  /\ Seize(m, from) \in Mem
           /\ Seize(m, from).pc = "drain" /\ Seize(m, from).key = "seize_cursor"
           /\ Seize(m, from).target = m.target
           /\ Seize(m, from).progress = CursorOr("seize_cursor", from - 1)
           /\ First <= CursorOr("seize_cursor", from - 1)
<1>1. cursor["seize_cursor"] \in {Unset} \cup First .. MaxBlock
  BY DEF TypeOK, Key
<1>2. CursorOr("seize_cursor", from - 1) \in Int /\ First <= CursorOr("seize_cursor", from - 1)
  BY <1>1, Numbers DEF CursorOr
<1>3. Seize(m, from).progress = CursorOr("seize_cursor", from - 1)
  BY DEF Seize, Mem
<1>4. /\ Seize(m, from).pc = "drain" /\ Seize(m, from).key = "seize_cursor"
      /\ Seize(m, from).target = m.target
  BY DEF Seize, Mem
<1>5. Seize(m, from) \in Mem
  <2> DEFINE v == CursorOr("seize_cursor", from - 1)
             zero == 0
             n == [m EXCEPT !.pc = "drain", !.key = "seize_cursor", !.processed = 0]
  <2>1. v \in Int /\ zero \in Int
    BY <1>2
  <2>2. n \in Mem
    BY DEF Mem, Key
  <2>3. Seize(m, from) = [n EXCEPT !.low = zero, !.high = zero, !.progress = v]
    BY DEF Seize, Mem
  <2> HIDE DEF v, n, zero
  <2> QED
    BY <2>1, <2>2, <2>3 DEF Mem
<1> QED
  BY <1>2, <1>3, <1>4, <1>5

LEMMA FormedCobaltStart ==
    ASSUME Formed, NEW p \in Proc, CobaltStart(p)
    PROVE  Formed'
<1> DEFINE m == mem[p]
           m2 == IF start # Unset THEN Seize(m, start)
                 ELSE IF m.target < CobaltBlock THEN Stopped(p)
                 ELSE [m EXCEPT !.pc = "search", !.low = StartBlock, !.high = m.target]
<1>1. /\ mem' = [mem EXCEPT ![p] = m2]
      /\ UNCHANGED <<safe, factory, events, state, cursor, start>>
  BY DEF CobaltStart
<1>2. m \in Mem /\ WellFormed(m) /\ TypeOK /\ factory \in Nat
  BY Numbers DEF Formed, TypeOK
<1>3. CASE start # Unset
  <2>1. start \in Int /\ StartBlock <= start
    BY <1>2, <1>3, Numbers DEF TypeOK
  <2>2. m2 = Seize(m, start)
    BY <1>3
  <2> HIDE DEF m, m2
  <2>3. m2 \in Mem /\ m2.pc = "drain" /\ m2.target = m.target /\ First <= m2.progress
    BY <1>2, <2>1, <2>2, SeizeMeaning
  <2>4. WellFormed(m2)
    BY <1>2, <2>3 DEF WellFormed, Aimed, Tiled, Searching
  <2> QED
    BY <1>1, <2>3, <2>4, FormedInMemory
<1>4. CASE start = Unset /\ m.target < CobaltBlock
  <2>1. m2 = Stopped(p)
    BY <1>4
  <2> HIDE DEF m2
  <2> QED
    BY <1>1, <1>2, <2>1, AtRest, FormedInMemory
<1>5. CASE start = Unset /\ ~(m.target < CobaltBlock)
  <2>1. m2 = [m EXCEPT !.pc = "search", !.low = StartBlock, !.high = m.target]
    BY <1>5
  <2> HIDE DEF m2
  <2>2. m.target \in Int /\ StartBlock \in Int
    BY <1>2, Numbers DEF Mem
  <2>3. /\ m2 \in Mem /\ m2.pc = "search" /\ m2.target = m.target /\ m2.low = StartBlock
        /\ m2.high = m.target
    <3> HIDE DEF m
    <3> QED
      BY <1>2, <2>1, <2>2 DEF Mem
  <2>4. WellFormed(m2)
    <3>1. Activation <= m2.high \/ m2.low = Activation
      BY <1>5, <2>2, <2>3, Numbers DEF Activation, Greatest
    <3>2. m2.low <= Activation
      BY <2>3, Numbers DEF Activation, Greatest
    <3> QED
      BY <1>2, <1>5, <2>2, <2>3, <3>1, <3>2, Numbers DEF WellFormed, Aimed, Tiled, Searching
  <2> HIDE DEF m
  <2> QED
    BY <1>1, <2>3, <2>4, FormedInMemory
<1> QED
  BY <1>3, <1>4, <1>5

(* Half of the interval is dropped, never the one that holds the block. *)
LEMMA FormedSearchStep ==
    ASSUME Formed, NEW p \in Proc, SearchStep(p)
    PROVE  Formed'
<1> DEFINE m == mem[p]
           mid == (m.low + m.high) \div 2
<1>1. /\ mem' = [mem EXCEPT ![p] = Halve(m)]
      /\ UNCHANGED <<safe, factory, events, state, cursor, start>>
      /\ m.pc = "search" /\ m.low < m.high
  BY DEF SearchStep, At
<1>2. m \in Mem /\ WellFormed(m) /\ m.low \in Int /\ m.high \in Int
  BY DEF Formed, TypeOK, Mem
<1>3. mid \in Int /\ m.low <= mid /\ mid < m.high
  <2> HIDE DEF m
  <2> QED
    BY <1>1, <1>2
<1>4. Halve(m) = IF mid < CobaltBlock THEN [m EXCEPT !.low = mid + 1]
                 ELSE [m EXCEPT !.high = mid]
  BY DEF Halve
<1>5. CobaltBlock <= m.target /\ StartBlock <= m.low /\ m.low <= Activation
      /\ (Activation <= m.high \/ m.low = Activation)
  BY <1>1, <1>2 DEF WellFormed, Searching
<1> HIDE DEF m, mid
<1>6. CASE mid < CobaltBlock
  <2> DEFINE m2 == [m EXCEPT !.low = mid + 1]
  <2>1. m2 \in Mem /\ m2.low = mid + 1 /\ m2.high = m.high /\ m2.target = m.target
        /\ m2.pc = "search"
    BY <1>1, <1>2, <1>3 DEF Mem
  <2>2. Halve(m) = m2
    BY <1>4, <1>6
  <2> HIDE DEF m2
  <2>3. Searching(m2)
    BY <1>1, <1>2, <1>3, <1>5, <1>6, <2>1, Numbers DEF Searching, Activation, Greatest
  <2>4. WellFormed(m2)
    BY <1>2, <2>1, <2>3 DEF WellFormed, Aimed, Tiled
  <2> QED
    BY <1>1, <2>1, <2>2, <2>4, FormedInMemory
<1>7. CASE ~(mid < CobaltBlock)
  <2> DEFINE m2 == [m EXCEPT !.high = mid]
  <2>1. m2 \in Mem /\ m2.low = m.low /\ m2.high = mid /\ m2.target = m.target
        /\ m2.pc = "search"
    BY <1>1, <1>2, <1>3 DEF Mem
  <2>2. Halve(m) = m2
    BY <1>4, <1>7
  <2> HIDE DEF m2
  <2>3. Searching(m2)
    BY <1>1, <1>2, <1>3, <1>5, <1>7, <2>1, Numbers DEF Searching, Activation, Greatest
  <2>4. WellFormed(m2)
    BY <1>2, <2>1, <2>3 DEF WellFormed, Aimed, Tiled
  <2> QED
    BY <1>1, <2>1, <2>2, <2>4, FormedInMemory
<1> QED
  BY <1>6, <1>7

LEMMA FormedSearchDone ==
    ASSUME Formed, NEW p \in Proc, SearchDone(p)
    PROVE  Formed' /\ mem[p].low = Activation
<1> DEFINE m == mem[p]
<1>1. /\ mem' = [mem EXCEPT ![p] = Seize(m, m.low)] /\ start' = m.low
      /\ UNCHANGED <<safe, factory, events, state, cursor>>
      /\ m.pc = "search" /\ m.low >= m.high
  BY DEF SearchDone, At
<1>2. m \in Mem /\ WellFormed(m) /\ m.low \in Int /\ m.high \in Int /\ TypeOK
  BY DEF Formed, TypeOK, Mem
<1>3. /\ CobaltBlock <= m.target /\ StartBlock <= m.low /\ m.low <= Activation
      /\ (Activation <= m.high \/ m.low = Activation)
      /\ m.target \in 0 .. MaxBlock
  BY <1>1, <1>2 DEF WellFormed, Aimed, Searching
<1>4. m.low = Activation
  BY <1>1, <1>2, <1>3, Numbers
<1>5. /\ Seize(m, m.low) \in Mem /\ Seize(m, m.low).pc = "drain"
      /\ Seize(m, m.low).target = m.target /\ First <= Seize(m, m.low).progress
  BY <1>2, <1>3, SeizeMeaning
<1>6. /\ mem' \in [Proc -> Mem] /\ mem'[p] = Seize(m, m.low)
      /\ \A q \in Proc : q # p => mem'[q] = mem[q]
  BY <1>1, <1>2, <1>5, OneMemory DEF TypeOK
<1>7. WellFormed(mem[p])'
  BY <1>1, <1>2, <1>5, <1>6 DEF WellFormed, Aimed, Tiled, Searching
<1>8. start' \in {Unset} \cup StartBlock .. Greatest(StartBlock, MaxBlock) /\ StartExact'
  BY <1>1, <1>3, <1>4, Numbers DEF Activation, Greatest, StartExact
<1>9. factory \in Int
  BY <1>2, Numbers DEF TypeOK
<1> QED
  BY <1>1, <1>4, <1>6, <1>7, <1>8, <1>9, FormedByOne DEF Formed, TypeOK

LEMMA FormedStep ==
    ASSUME Formed, [Next]_vars
    PROVE  Formed'
<1>0. factory \in Nat
  BY Numbers DEF Formed, TypeOK
<1>1. CASE UNCHANGED vars
  BY <1>1 DEF vars, Formed, TypeOK, StartExact, WellFormed, Aimed, Tiled, Searching, Top
<1>2. CASE Mine
  <2>1. safe' \in 0 .. MaxBlock /\ UNCHANGED <<factory, events, state, cursor, start, mem>>
    BY <1>2, Numbers DEF Mine, Formed, TypeOK
  <2> QED
    BY <2>1 DEF Formed, TypeOK, StartExact, WellFormed, Aimed, Tiled, Searching, Top
<1>3. ASSUME NEW p \in Proc, Step(p) PROVE Formed'
  <2>1. CASE DrainDone(p)
    <3> DEFINE m == mem[p]
               m2 == IF m.key = "registry_cursor" THEN [m EXCEPT !.pc = "start"] ELSE Stopped(p)
    <3>1. /\ mem' = [mem EXCEPT ![p] = m2]
          /\ UNCHANGED <<safe, factory, events, state, cursor, start>>
      BY <2>1 DEF DrainDone
    <3>2. m \in Mem /\ WellFormed(m)
      BY DEF Formed, TypeOK
    <3>3. CASE m.key = "registry_cursor"
      <4>1. m2 \in Mem /\ m2.pc = "start" /\ m2.target = m.target
        BY <3>2, <3>3 DEF Mem
      <4> HIDE DEF m2
      <4>2. WellFormed(m2)
        BY <3>2, <4>1 DEF WellFormed, Aimed, Tiled, Searching
      <4> QED
        BY <3>1, <4>1, <4>2, FormedInMemory
    <3>4. CASE m.key # "registry_cursor"
      <4>1. m2 = Stopped(p)
        BY <3>4
      <4> HIDE DEF m2
      <4> QED
        BY <1>0, <3>1, <4>1, AtRest, FormedInMemory
    <3> QED
      BY <3>3, <3>4
  <2> QED
    BY <1>3, <2>1, FormedFollow, FormedLaunch, FormedReply, FormedInsert, FormedAdvance,
       FormedCobaltStart, FormedSearchStep, FormedSearchDone DEF Step
<1>4. ASSUME NEW p \in Proc, Fail(p) \/ Crash(p) PROVE Formed'
  BY <1>0, <1>4, AtRest, FormedInMemory DEF Fail, Crash
<1> QED
  BY <1>1, <1>2, <1>3, <1>4 DEF Next, Working

(* The types hold, the ranges in flight leave no gap and the search        *)
(* encloses the first Cobalt block, whatever fails or overlaps.            *)
THEOREM FormedInvariant == Spec => []Formed
<1>1. Formed /\ [Next]_vars => Formed'
  BY FormedStep
<1> QED
  BY InitFormed, <1>1, PTL DEF Spec

(* Every value stays in the set that TypeOK names. *)
THEOREM TypeCorrect == Spec => []TypeOK
<1>1. Formed => TypeOK
  BY DEF Formed
<1> QED
  BY FormedInvariant, <1>1, PTL

(* The saved start block is the first block of B20 at or after Cobalt      *)
(* (cobaltStartBlock), whichever process searched and however far the      *)
(* chain had grown by then.                                                *)
THEOREM StartBlockExact == Spec => []StartExact
<1>1. Formed => StartExact
  BY DEF Formed
<1> QED
  BY FormedInvariant, <1>1, PTL

-----------------------------------------------------------------------------
(* Vouched.                                                                *)

LEMMA LogFacts ==
    ASSUME NEW l \in Log
    PROVE  /\ l.block \in Int /\ First < l.block
           /\ StreamOf(l) \in Key
           /\ StreamOf(l) = "seize_cursor" => l.kind = "Seized" /\ Activation <= l.block
<1>1. l.block \in StartBlock .. MaxBlock /\ (l.kind = "Seized" => CobaltBlock <= l.block)
  BY RegistryAssumption
<1> QED
  BY <1>1, Numbers DEF StreamOf, Key, Activation, Greatest

(* Stored rows stay, so what other processes rely on stays true. *)
LEMMA VouchedByOne ==
    ASSUME Vouched, NEW p \in Proc, \A q \in Proc : q # p => mem'[q] = mem[q],
           events \subseteq events', StreamComplete', Reached(mem[p])', Answered(mem[p])'
    PROVE  Vouched'
<1>1. ASSUME NEW q \in Proc, q # p PROVE Reached(mem[q])' /\ Answered(mem[q])'
  <2>1. Reached(mem[q]) /\ Answered(mem[q]) /\ mem'[q] = mem[q]
    BY <1>1 DEF Vouched
  <2> QED
    BY <2>1 DEF Reached, Answered
<1> QED
  BY <1>1 DEF Vouched

(* A process that leaves the drain relies on nothing. *)
LEMMA VouchedAway ==
    ASSUME Formed, Vouched, NEW p \in Proc, NEW m \in Mem, mem' = [mem EXCEPT ![p] = m],
           UNCHANGED <<events, cursor>>, m.pc \notin {"drain", "ranges"}
    PROVE  Vouched'
<1>1. mem'[p] = m /\ \A q \in Proc : q # p => mem'[q] = mem[q]
  BY OneMemory DEF Formed, TypeOK
<1>2. Reached(mem[p])' /\ Answered(mem[p])'
  BY <1>1 DEF Reached, Answered
<1>3. StreamComplete'
  BY DEF Vouched, StreamComplete
<1> QED
  BY <1>1, <1>2, <1>3, VouchedByOne

(* A drain starts at the cursor of its stream, or below all of its logs.   *)
LEMMA VouchedStart ==
    ASSUME Formed, Vouched, NEW p \in Proc, NEW m \in Mem, mem' = [mem EXCEPT ![p] = m],
           UNCHANGED <<events, cursor>>, m.pc = "drain", NEW from \in Int,
           m.progress = CursorOr(m.key, from),
           \A l \in Log : StreamOf(l) = m.key => from < l.block
    PROVE  Vouched'
<1>1. mem'[p] = m /\ \A q \in Proc : q # p => mem'[q] = mem[q]
  BY OneMemory DEF Formed, TypeOK
<1>2. ASSUME NEW l \in Log, StreamOf(l) = m.key, l.block <= m.progress PROVE l \in events
  <2>1. l.block \in Int /\ from < l.block
    BY <1>2, LogFacts
  <2>2. cursor[m.key] # Unset /\ m.progress = cursor[m.key]
    BY <1>2, <2>1 DEF CursorOr
  <2> QED
    BY <1>2, <2>2 DEF Vouched, StreamComplete
<1>3. Reached(mem[p])' /\ Answered(mem[p])'
  BY <1>1, <1>2 DEF Reached, Answered
<1>4. StreamComplete'
  BY DEF Vouched, StreamComplete
<1> QED
  BY <1>1, <1>3, <1>4, VouchedByOne

LEMMA VouchedFollow ==
    ASSUME Formed, Vouched, NEW p \in Proc, Follow(p)
    PROVE  Vouched'
<1>1. PICK s \in Greatest(0, safe - MaxLag) .. safe :
        mem' = [mem EXCEPT ![p] =
                  [Down EXCEPT !.pc = "drain", !.target = Target(p, s),
                               !.progress = CursorOr("registry_cursor", First)]]
  BY DEF Follow
<1> DEFINE m == [Down EXCEPT !.pc = "drain", !.target = Target(p, s),
                             !.progress = CursorOr("registry_cursor", First)]
<1>2. Formed' /\ UNCHANGED <<events, cursor>>
  BY FormedFollow DEF Follow
<1>3. mem'[p] = m /\ mem'[p] \in Mem
  BY <1>1, <1>2 DEF Formed, TypeOK
<1>4. m \in Mem
  BY <1>3
<1>5. m.pc = "drain" /\ m.key = "registry_cursor" /\ m.progress = CursorOr("registry_cursor", First)
  BY DEF Down
<1>6. mem' = [mem EXCEPT ![p] = m]
  BY <1>1
<1> HIDE DEF m
<1>7. m.progress = CursorOr(m.key, First) /\ First \in Int
  BY <1>5, Numbers
<1>8. \A l \in Log : StreamOf(l) = m.key => First < l.block
  BY LogFacts
<1> QED
  BY <1>2, <1>4, <1>5, <1>6, <1>7, <1>8, VouchedStart

LEMMA VouchedSeize ==
    ASSUME Formed, Vouched, NEW p \in Proc, NEW from \in Int,
           StartBlock <= from, from <= Activation,
           mem' = [mem EXCEPT ![p] = Seize(mem[p], from)], UNCHANGED <<events, cursor>>
    PROVE  Vouched'
<1>1. mem[p] \in Mem /\ TypeOK
  BY DEF Formed, TypeOK
<1>2. /\ Seize(mem[p], from) \in Mem /\ Seize(mem[p], from).pc = "drain"
      /\ Seize(mem[p], from).key = "seize_cursor"
      /\ Seize(mem[p], from).progress = CursorOr("seize_cursor", from - 1)
  BY <1>1, SeizeMeaning
<1>3. ASSUME NEW l \in Log, StreamOf(l) = "seize_cursor" PROVE from - 1 < l.block
  BY <1>3, LogFacts, Numbers
<1>4. from - 1 \in Int
  OBVIOUS
<1> QED
  BY <1>2, <1>3, <1>4, VouchedStart

LEMMA VouchedLaunch ==
    ASSUME Formed, Vouched, NEW p \in Proc, Launch(p)
    PROVE  Vouched'
<1> DEFINE m == mem[p]
           from == Greatest(m.progress, CursorOr(m.key, m.progress))
<1>1. PICK n : mem' = [mem EXCEPT ![p] =
                [m EXCEPT !.pc = "ranges", !.progress = from,
                   !.flight = {Asked(BatchRange(from, i, m.target)) : i \in 0 .. n - 1}]]
  BY DEF Launch
<1>2. m \in Mem /\ m.pc = "drain" /\ UNCHANGED <<events, cursor>>
  BY DEF Launch, At, Formed, TypeOK
<1>3. /\ mem'[p].pc = "ranges" /\ mem'[p].progress = from /\ mem'[p].key = m.key
      /\ \A r \in mem'[p].flight : r.got = FALSE
      /\ \A q \in Proc : q # p => mem'[q] = mem[q]
  BY <1>1, <1>2 DEF Mem, Asked, Formed, TypeOK
<1>4. ASSUME NEW l \in Log, StreamOf(l) = m.key, l.block <= from PROVE l \in events
  <2>1. CASE l.block <= m.progress
    BY <1>2, <1>4, <2>1 DEF Vouched, Reached
  <2>2. CASE ~(l.block <= m.progress)
    <3>1. cursor[m.key] # Unset /\ from = cursor[m.key]
      BY <1>4, <2>2 DEF Greatest, CursorOr
    <3> QED
      BY <1>4, <3>1 DEF Vouched, StreamComplete
  <2> QED
    BY <2>1, <2>2
<1> HIDE DEF from
<1>5. Reached(mem[p])' /\ Answered(mem[p])'
  BY <1>2, <1>3, <1>4 DEF Reached, Answered
<1>6. StreamComplete'
  BY <1>2 DEF Vouched, StreamComplete
<1> QED
  BY <1>2, <1>3, <1>5, <1>6, VouchedByOne

(* Every log of a range passes isKnownB20Emitter: the range ends at or     *)
(* below the blocks whose deployments are in the tokens table.             *)
LEMMA VouchedReply ==
    ASSUME Formed, Vouched, NEW p \in Proc, Reply(p)
    PROVE  Vouched'
<1> DEFINE m == mem[p]
           Found(r) == {l \in Log : /\ StreamOf(l) = m.key
                                    /\ l.block \in r.from .. r.to
                                    /\ Known(l)}
<1>1. PICK r \in m.flight :
        mem' = [mem EXCEPT ![p].flight = (@ \ {r}) \cup
                  {[r EXCEPT !.got = TRUE, !.todo = Found(r)]}]
  BY DEF Reply
<1>2. m \in Mem /\ m.pc = "ranges" /\ WellFormed(m) /\ UNCHANGED <<events, cursor>>
  BY DEF Reply, At, Formed, TypeOK
<1> DEFINE s == [r EXCEPT !.got = TRUE, !.todo = Found(r)]
<1>3. r \in Flight
  BY <1>2 DEF Mem
<1>4. s.from = r.from /\ s.to = r.to /\ s.todo = Found(r)
  BY <1>3 DEF Flight
<1>5. ASSUME NEW l \in Log, StreamOf(l) = m.key, r.from <= l.block, l.block <= r.to
      PROVE  l \in s.todo
  <2>1. r.to \in Int /\ r.from \in Int /\ l.block \in Int
    BY <1>3, LogFacts DEF Flight
  <2>2. r.to <= m.target
    <3>1. PICK q \in m.flight : Top(m, q)
      BY <1>2 DEF WellFormed, Tiled
    <3>2. r.to <= q.to /\ q.to <= m.target /\ q.to \in Int /\ m.target \in Int
      BY <1>2, <3>1 DEF Top, Mem, Flight
    <3> QED
      BY <2>1, <3>2
  <2>3. l.block <= factory /\ factory \in Int
    BY <1>2, <1>5, <2>1, <2>2, Numbers DEF WellFormed, Aimed, Mem, Formed, TypeOK
  <2>4. Known(l)
    <3>1. CASE l.kind = "Seized"
      <4>1. Deployed[l.token] \in Nat /\ Deployed[l.token] <= l.block
        BY <3>1, RegistryAssumption, CobaltAssumption
      <4> QED
        BY <2>1, <2>3, <4>1 DEF Known
    <3> QED
      BY <3>1 DEF Known
  <2> QED
    BY <1>4, <1>5, <2>1, <2>4
<1>6. /\ mem'[p].pc = m.pc /\ mem'[p].progress = m.progress /\ mem'[p].key = m.key
      /\ mem'[p].flight = (m.flight \ {r}) \cup {s}
      /\ \A q \in Proc : q # p => mem'[q] = mem[q]
  <2>1. mem \in [Proc -> Mem]
    BY DEF Formed, TypeOK
  <2> HIDE DEF s
  <2>2. mem' = [mem EXCEPT ![p].flight = (@ \ {r}) \cup {s}]
    BY <1>1 DEF s
  <2> QED
    BY <2>1, <2>2 DEF Mem
<1> HIDE DEF s
<1>7. Reached(mem[p])'
  BY <1>2, <1>6 DEF Vouched, Reached
<1>8. Answered(mem[p])'
  <2> SUFFICES ASSUME NEW k \in mem'[p].flight, k.got, NEW l \in Log, StreamOf(l) = m.key,
                      k.from <= l.block, l.block <= k.to
               PROVE  l \in events \cup k.todo
    BY <1>2, <1>6 DEF Answered
  <2>1. CASE k = s
    BY <1>4, <1>5, <2>1
  <2>2. CASE k # s
    BY <1>2, <1>6, <2>2 DEF Vouched, Answered
  <2> QED
    BY <2>1, <2>2
<1>9. StreamComplete'
  BY <1>2 DEF Vouched, StreamComplete
<1> QED
  BY <1>2, <1>6, <1>7, <1>8, <1>9, VouchedByOne

LEMMA VouchedInsert ==
    ASSUME Formed, Vouched, NEW p \in Proc, InsertNext(p)
    PROVE  Vouched'
<1> DEFINE m == mem[p]
<1>1. PICK r \in m.flight : \E l \in r.todo :
        /\ Insert(l)
        /\ mem' = [mem EXCEPT ![p].flight = (@ \ {r}) \cup {[r EXCEPT !.todo = @ \ {l}]}]
  BY DEF InsertNext
<1>2. PICK l \in r.todo :
        /\ Insert(l)
        /\ mem' = [mem EXCEPT ![p].flight = (@ \ {r}) \cup {[r EXCEPT !.todo = @ \ {l}]}]
  BY <1>1
<1> DEFINE s == [r EXCEPT !.todo = @ \ {l}]
<1>3. m \in Mem /\ m.pc = "ranges" /\ cursor' = cursor
  BY DEF InsertNext, At, Formed, TypeOK
<1>4. r \in Flight
  BY <1>3 DEF Mem
<1>5. s.from = r.from /\ s.to = r.to /\ s.got = r.got /\ s.todo = r.todo \ {l}
  BY <1>4 DEF Flight
<1>6. events' = events \cup {l}
  BY <1>2 DEF Insert
<1>7. /\ mem'[p].pc = m.pc /\ mem'[p].progress = m.progress /\ mem'[p].key = m.key
      /\ mem'[p].flight = (m.flight \ {r}) \cup {s}
      /\ \A q \in Proc : q # p => mem'[q] = mem[q]
  <2>1. mem \in [Proc -> Mem]
    BY DEF Formed, TypeOK
  <2> HIDE DEF s
  <2>2. mem' = [mem EXCEPT ![p].flight = (@ \ {r}) \cup {s}]
    BY <1>2 DEF s
  <2> QED
    BY <2>1, <2>2 DEF Mem
<1> HIDE DEF s
<1>8. Reached(mem[p])'
  BY <1>3, <1>6, <1>7 DEF Vouched, Reached
<1>9. Answered(mem[p])'
  <2> SUFFICES ASSUME NEW k \in mem'[p].flight, k.got, NEW h \in Log, StreamOf(h) = m.key,
                      k.from <= h.block, h.block <= k.to
               PROVE  h \in events' \cup k.todo
    BY <1>3, <1>7 DEF Answered
  <2>1. CASE k = s
    <3>1. h \in events \cup r.todo
      BY <1>3, <1>5, <2>1 DEF Vouched, Answered
    <3> QED
      BY <1>5, <1>6, <2>1, <3>1
  <2>2. CASE k # s
    BY <1>3, <1>6, <1>7, <2>2 DEF Vouched, Answered
  <2> QED
    BY <2>1, <2>2
<1>10. StreamComplete'
  BY <1>3, <1>6 DEF Vouched, StreamComplete
<1> QED
  BY <1>6, <1>7, <1>8, <1>9, <1>10, VouchedByOne

(* Only when every range has arrived and its logs are inserted does the    *)
(* cursor move past the batch.                                             *)
LEMMA VouchedAdvance ==
    ASSUME Formed, Vouched, NEW p \in Proc, Advance(p)
    PROVE  Vouched'
<1> DEFINE m == mem[p]
<1>1. PICK r \in m.flight :
        /\ Top(m, r)
        /\ r.to \in First + 1 .. MaxBlock
        /\ m.pc = "ranges" /\ m.key \in Key /\ m.progress \in Int
        /\ \A q \in m.flight : q.got /\ q.todo = {}
        /\ cursor' = [cursor EXCEPT ![m.key] = AdvanceTo(@, r.to)]
        /\ mem'[p].pc = "drain" /\ mem'[p].progress = r.to /\ mem'[p].key = m.key
        /\ \A q \in Proc : q # p => mem'[q] = mem[q]
  BY AdvanceMeaning
<1>2. events' = events /\ cursor \in [Key -> {Unset} \cup First .. MaxBlock]
  BY DEF Advance, Formed, TypeOK
<1>3. ASSUME NEW l \in Log, StreamOf(l) = m.key, l.block <= r.to PROVE l \in events
  <2>1. l.block \in Int
    BY LogFacts
  <2>2. CASE l.block <= m.progress
    BY <1>1, <1>3, <2>2 DEF Vouched, Reached
  <2>3. CASE ~(l.block <= m.progress)
    <3>1. l.block \in m.progress + 1 .. r.to
      BY <1>1, <1>3, <2>1, <2>3
    <3>2. PICK q \in m.flight : q.from <= l.block /\ l.block <= q.to
      BY <1>1, <3>1 DEF Top
    <3>3. q.got /\ q.todo = {}
      BY <1>1, <3>2
    <3> QED
      BY <1>1, <1>3, <3>2, <3>3 DEF Vouched, Answered
  <2> QED
    BY <2>2, <2>3
<1>4. StreamComplete'
  <2> SUFFICES ASSUME NEW l \in Log, l.block <= cursor'[StreamOf(l)] PROVE l \in events
    BY <1>2 DEF StreamComplete
  <2>1. CASE StreamOf(l) = m.key
    <3>1. cursor'[m.key] = AdvanceTo(cursor[m.key], r.to)
      BY <1>1, <1>2
    <3>2. l.block <= r.to \/ l.block <= cursor[m.key]
      BY <2>1, <3>1 DEF AdvanceTo, Greatest
    <3> QED
      BY <1>3, <2>1, <3>2 DEF Vouched, StreamComplete
  <2>2. CASE StreamOf(l) # m.key
    <3>1. StreamOf(l) \in Key
      BY LogFacts
    <3> QED
      BY <1>1, <1>2, <2>2, <3>1 DEF Vouched, StreamComplete
  <2> QED
    BY <2>1, <2>2
<1>5. Reached(mem[p])' /\ Answered(mem[p])'
  BY <1>1, <1>2, <1>3 DEF Reached, Answered
<1> QED
  BY <1>1, <1>2, <1>4, <1>5, VouchedByOne

LEMMA InitVouched == Init => Vouched
<1> SUFFICES ASSUME Init PROVE Vouched
  OBVIOUS
<1>1. StreamComplete
  <2> SUFFICES ASSUME NEW l \in Log, l.block <= cursor[StreamOf(l)] PROVE FALSE
    BY DEF StreamComplete
  <2> QED
    BY LogFacts, Numbers DEF Init, Unset
<1>2. \A p \in Proc : mem[p].pc = "down"
  BY DEF Init, Down
<1> QED
  BY <1>1, <1>2 DEF Vouched, Reached, Answered

LEMMA VouchedStep ==
    ASSUME Formed, Vouched, [Next]_vars
    PROVE  Vouched'
<1>0. factory \in Nat /\ mem \in [Proc -> Mem]
  BY Numbers DEF Formed, TypeOK
<1>1. CASE UNCHANGED vars \/ Mine
  <2>1. UNCHANGED <<events, cursor, mem>>
    BY <1>1 DEF vars, Mine
  <2> QED
    BY <2>1 DEF Vouched, StreamComplete, Reached, Answered
<1>2. ASSUME NEW p \in Proc, Fail(p) \/ Crash(p) PROVE Vouched'
  <2>1. UNCHANGED <<events, cursor>> /\ \E m \in {Down, Stopped(p)} : mem' = [mem EXCEPT ![p] = m]
    BY <1>2 DEF Fail, Crash
  <2> QED
    BY <1>0, <2>1, AtRest, VouchedAway
<1>3. ASSUME NEW p \in Proc, DrainDone(p) PROVE Vouched'
  <2> DEFINE m == IF mem[p].key = "registry_cursor" THEN [mem[p] EXCEPT !.pc = "start"]
                  ELSE Stopped(p)
  <2>1. UNCHANGED <<events, cursor>> /\ mem' = [mem EXCEPT ![p] = m]
    BY <1>3 DEF DrainDone
  <2>2. m \in Mem /\ m.pc \notin {"drain", "ranges"}
    <3>1. [mem[p] EXCEPT !.pc = "start"] \in Mem /\ [mem[p] EXCEPT !.pc = "start"].pc = "start"
      BY <1>0 DEF Mem
    <3> QED
      BY <1>0, <3>1, AtRest
  <2> HIDE DEF m
  <2> QED
    BY <2>1, <2>2, VouchedAway
<1>4. ASSUME NEW p \in Proc, SearchStep(p) PROVE Vouched'
  <2>1. UNCHANGED <<events, cursor>> /\ mem' = [mem EXCEPT ![p] = Halve(mem[p])]
        /\ mem[p].pc = "search"
    BY <1>4 DEF SearchStep, At
  <2>2. Formed'
    BY <1>4, FormedSearchStep
  <2>3. Halve(mem[p]).pc = "search"
    BY <1>0, <2>1 DEF Halve, Mem
  <2>4. mem'[p] = Halve(mem[p]) /\ mem'[p] \in Mem
    <3> DEFINE m == Halve(mem[p])
    <3>1. mem' = [mem EXCEPT ![p] = m] /\ mem' \in [Proc -> Mem]
      BY <2>1, <2>2 DEF Formed, TypeOK
    <3> HIDE DEF m
    <3>2. mem'[p] = m
      BY <1>0, <3>1
    <3> QED
      BY <3>1, <3>2 DEF m
  <2> QED
    BY <2>1, <2>3, <2>4, VouchedAway
<1>5. ASSUME NEW p \in Proc, SearchDone(p) PROVE Vouched'
  <2>1. /\ mem' = [mem EXCEPT ![p] = Seize(@, @.low)] /\ UNCHANGED <<events, cursor>>
        /\ mem[p].pc = "search"
    BY <1>5 DEF SearchDone, At
  <2>2. mem[p].low = Activation /\ StartBlock <= Activation /\ Activation \in Int
    BY <1>5, FormedSearchDone, Numbers DEF Activation, Greatest
  <2>3. mem' = [mem EXCEPT ![p] = Seize(mem[p], Activation)]
    BY <2>1, <2>2
  <2>4. Activation <= Activation
    BY <2>2
  <2> QED
    BY <2>1, <2>2, <2>3, <2>4, VouchedSeize
<1>6. ASSUME NEW p \in Proc, CobaltStart(p) PROVE Vouched'
  <2>1. UNCHANGED <<events, cursor>>
    BY <1>6 DEF CobaltStart
  <2>2. CASE start # Unset
    <3>1. mem' = [mem EXCEPT ![p] = Seize(mem[p], start)]
      BY <1>6, <2>2 DEF CobaltStart
    <3>2. start = Activation /\ StartBlock <= start /\ start \in Int
      BY <2>2, Numbers DEF Formed, StartExact, Activation, Greatest
    <3>3. start <= Activation
      BY <3>2
    <3> QED
      BY <2>1, <3>1, <3>2, <3>3, VouchedSeize
  <2>3. CASE start = Unset /\ mem[p].target < CobaltBlock
    <3>1. mem' = [mem EXCEPT ![p] = Stopped(p)]
      BY <1>6, <2>3 DEF CobaltStart
    <3> QED
      BY <1>0, <2>1, <3>1, AtRest, VouchedAway
  <2>4. CASE start = Unset /\ ~(mem[p].target < CobaltBlock)
    <3> DEFINE m == [mem[p] EXCEPT !.pc = "search", !.low = StartBlock, !.high = mem[p].target]
    <3>1. mem' = [mem EXCEPT ![p] = m]
      BY <1>6, <2>4 DEF CobaltStart
    <3>2. m \in Mem /\ m.pc = "search"
      <4>1. mem[p].target \in Int /\ StartBlock \in Int /\ mem[p] \in Mem
        BY <1>0, Numbers DEF Mem
      <4> QED
        BY <4>1 DEF Mem
    <3> HIDE DEF m
    <3> QED
      BY <2>1, <3>1, <3>2, VouchedAway
  <2> QED
    BY <2>2, <2>3, <2>4
<1> QED
  BY <1>1, <1>2, <1>3, <1>4, <1>5, <1>6, VouchedFollow, VouchedLaunch, VouchedReply,
     VouchedInsert, VouchedAdvance DEF Next, Working, Step

(* What the cursors, the drains and the replies vouch for is stored. *)
THEOREM VouchedInvariant == Spec => []Vouched
<1>1. Formed /\ Vouched /\ [Next]_vars => Vouched'
  BY VouchedStep
<1> QED
  BY InitVouched, FormedInvariant, <1>1, PTL DEF Spec

(* Every log at or below a stream cursor is stored, though any number of   *)
(* followers, cron runs and backfills move the cursor and die inside a     *)
(* batch of concurrent ranges (drainNewStream, followCobalt).              *)
THEOREM StreamsComplete == Spec => []StreamComplete
<1>1. Vouched => StreamComplete
  BY DEF Vouched
<1> QED
  BY VouchedInvariant, <1>1, PTL

(* No step of any process moves a stream cursor back (advanceCursorStmt).  *)
THEOREM CursorsAdvance == Spec => CursorsOnlyAdvance
<1>1. ASSUME Formed, [Next]_vars
      PROVE  [\A k \in Key : cursor'[k] >= cursor[k]]_vars
  <2>1. CASE cursor' = cursor
    <3>1. \A k \in Key : cursor[k] \in Int
      BY <1>1, Numbers DEF Formed, TypeOK, Unset
    <3> QED
      BY <2>1, <3>1
  <2>2. ASSUME NEW p \in Proc, Advance(p) PROVE \A k \in Key : cursor'[k] >= cursor[k]
    <3>1. PICK r \in mem[p].flight :
            /\ r.to \in First + 1 .. MaxBlock
            /\ cursor' = [cursor EXCEPT ![mem[p].key] = AdvanceTo(@, r.to)]
      BY <2>2, <1>1, AdvanceMeaning
    <3> QED
      BY <1>1, <3>1, Numbers DEF Formed, TypeOK, AdvanceTo, Greatest, Unset
  <2>3. cursor' = cursor \/ \E p \in Proc : Advance(p)
    BY <1>1 DEF Next, Working, Step, Mine, Follow, Launch, Reply, InsertNext, DrainDone,
                CobaltStart, SearchStep, SearchDone, Fail, Crash, vars
  <2> QED
    BY <2>1, <2>2, <2>3
<1> QED
  BY FormedInvariant, <1>1, PTL DEF Spec, CursorsOnlyAdvance

-----------------------------------------------------------------------------
(* policy_state.                                                           *)

LEMMA OrderOfLogs ==
    ASSUME NEW k \in Log, NEW l \in Log
    PROVE  /\ ~Before(l, l)
           /\ Before(k, l) => ~Before(l, k)
           /\ \A j \in Log : Before(j, k) /\ Before(k, l) => Before(j, l)
           /\ \A j \in Log : ~Before(j, k) /\ ~Before(k, l) => ~Before(j, l)
           /\ k # None
<1>1. \A j \in Log : j.block \in Int /\ j.index \in Int /\ j.block # -1
  BY RegistryAssumption, Numbers
<1>2. k # None
  BY <1>1 DEF None, Unset
<1> QED
  BY <1>1, <1>2 DEF Before

Updates(E, p)   == {l \in E : l.kind = "CompositePolicyUpdated" /\ l.policy = p}
Creations(E, p) == {l \in E : l.kind = "PolicyCreated" /\ l.policy = p}

(* What the row of one policy shows of a set of stored logs. *)
RowShows(row, E, p) ==
    /\ IF Updates(E, p) = {} THEN row.children = None
       ELSE /\ row.children \in Updates(E, p)
            /\ \A k \in Updates(E, p) : ~Before(row.children, k)
    /\ IF Creations(E, p) = {} THEN row.created = None ELSE row.created \in Creations(E, p)

LEMMA StateMeaning == StateIsNewest <=> \A p \in Policy : RowShows(state[p], events, p)
BY DEF StateIsNewest, RowShows, Updates, Creations

(* A row that the log does not touch. *)
LEMMA RowKept ==
    ASSUME NEW p, NEW E, NEW l, NEW row, RowShows(row, E, p),
           l.kind \notin {"CompositePolicyUpdated", "PolicyCreated"} \/ l.policy # p
    PROVE  RowShows(row, E \cup {l}, p)
<1>1. Updates(E \cup {l}, p) = Updates(E, p) /\ Creations(E \cup {l}, p) = Creations(E, p)
  BY DEF Updates, Creations
<1> QED
  BY <1>1 DEF RowShows

(* insertRegistryEvent leaves the newest update in the row, also when the  *)
(* log it stores is older than the one the row shows.                      *)
LEMMA InsertShows ==
    ASSUME TypeOK, StateIsNewest, NEW l \in Log, Insert(l)
    PROVE  StateIsNewest'
<1> SUFFICES ASSUME NEW p \in Policy PROVE RowShows(state'[p], events', p)
  BY DEF StateIsNewest, RowShows, Updates, Creations
<1> DEFINE row == state[p]
<1>1. /\ RowShows(row, events, p) /\ events' = events \cup {l} /\ events \subseteq Log
      /\ state \in [Policy -> [created : Log \cup {None}, children : Log \cup {None}]]
  BY StateMeaning DEF TypeOK, Insert
<1>2. CASE l \in events
  <2>1. state' = state /\ events' = events
    BY <1>1, <1>2 DEF Insert
  <2> QED
    BY <1>1, <2>1
<1>3. CASE l \notin events /\ (l.kind = "Seized" \/ l.policy # p)
  <2>1. state'[p] = row
    BY <1>1, <1>3, RegistryAssumption DEF Insert
  <2>2. l.kind \notin {"CompositePolicyUpdated", "PolicyCreated"} \/ l.policy # p
    BY <1>3
  <2> QED
    BY <1>1, <2>1, <2>2, RowKept
<1>4. CASE l \notin events /\ l.kind = "PolicyCreated" /\ l.policy = p
  <2>1. state'[p].created = l /\ state'[p].children = row.children
    BY <1>1, <1>4 DEF Insert
  <2>2. Updates(events', p) = Updates(events, p) /\ l \in Creations(events', p)
    BY <1>1, <1>4 DEF Updates, Creations
  <2> QED
    BY <1>1, <2>1, <2>2 DEF RowShows
<1>5. CASE l \notin events /\ l.kind = "CompositePolicyUpdated" /\ l.policy = p
  <2>1. /\ Updates(events', p) = Updates(events, p) \cup {l}
        /\ Creations(events', p) = Creations(events, p)
    BY <1>1, <1>5 DEF Updates, Creations
  <2>2. CASE Newer(l, row.children)
    <3>1. state'[p].children = l /\ state'[p].created = row.created
      BY <1>1, <1>5, <2>2 DEF Insert
    <3>2. ASSUME NEW k \in Updates(events, p) PROVE ~Before(l, k)
      <4>1. k \in Log /\ row.children \in Updates(events, p) /\ ~Before(row.children, k)
        BY <1>1 DEF RowShows, Updates
      <4>2. row.children \in Log /\ row.children # None
        BY <1>1, <4>1, OrderOfLogs DEF Updates
      <4>3. Before(row.children, l)
        BY <2>2, <4>2 DEF Newer
      <4> QED
        BY <4>1, <4>2, <4>3, OrderOfLogs
    <3> QED
      BY <1>1, <2>1, <3>1, <3>2, OrderOfLogs DEF RowShows
  <2>3. CASE ~Newer(l, row.children)
    <3>1. state' = state
      BY <1>5, <2>3 DEF Insert
    <3>2. row.children # None /\ ~Before(row.children, l)
      BY <2>3 DEF Newer
    <3> QED
      BY <1>1, <2>1, <3>1, <3>2 DEF RowShows
  <2> QED
    BY <2>2, <2>3
<1>6. l.kind \in {"PolicyCreated", "CompositePolicyUpdated", "Seized"}
  BY RegistryAssumption DEF Kind
<1> QED
  BY <1>2, <1>3, <1>4, <1>5, <1>6

(* A policy's row shows its newest stored update and its creation, in      *)
(* whatever order the ranges of whichever processes delivered them         *)
(* (insertRegistryEvent, setPolicyChildren).                               *)
THEOREM StateNewest == Spec => []StateIsNewest
<1>1. Init => StateIsNewest
  BY DEF Init, StateIsNewest
<1>2. ASSUME Formed, StateIsNewest, [Next]_vars PROVE StateIsNewest'
  <2>1. CASE UNCHANGED <<events, state>>
    BY <1>2, <2>1 DEF StateIsNewest
  <2>2. ASSUME NEW p \in Proc, InsertNext(p) PROVE StateIsNewest'
    <3>1. PICK r \in mem[p].flight : \E l \in r.todo : Insert(l)
      BY <2>2 DEF InsertNext
    <3>2. PICK l \in r.todo : Insert(l)
      BY <3>1
    <3>3. l \in Log /\ TypeOK
      BY <1>2, <3>1 DEF Formed, TypeOK, Mem, Flight
    <3> QED
      BY <1>2, <3>2, <3>3, InsertShows
  <2>3. UNCHANGED <<events, state>> \/ \E p \in Proc : InsertNext(p)
    BY <1>2 DEF Next, Working, Step, Mine, Follow, Launch, Reply, Advance, DrainDone,
                CobaltStart, SearchStep, SearchDone, Fail, Crash, vars
  <2> QED
    BY <2>1, <2>2, <2>3
<1> QED
  BY <1>1, <1>2, FormedInvariant, PTL DEF Spec
=============================================================================
