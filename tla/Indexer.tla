------------------------------ MODULE Indexer -------------------------------
(***************************************************************************)
(* The indexer processes of indexer.js: the chain they read, the store     *)
(* they share and every step between two points at which something else    *)
(* may happen (an await, the end of a SQLite transaction, a crash).        *)
(*                                                                         *)
(* A process in mode "follow" runs `node indexer.js` as a service; one in  *)
(* mode "once" runs `node indexer.js --once` (from cron, say) on the same  *)
(* database file.  The Cobalt streams and the creator lookups touch other  *)
(* tables and have modules of their own.                                   *)
(***************************************************************************)
EXTENDS Store

CONSTANTS
    Proc, Mode,          \* the processes, and "follow" or "once" for each
    Fork,                \* the chains the network may settle on: sets of logs
    MaxBlock,            \* bound: the chain stops growing here
    StartBlock,          \* START_BLOCK
    Confirmations,       \* CONFIRMATIONS
    MaxLag,              \* bound: how far behind an endpoint's head may be
    Chunk,               \* CHUNK, blocks per factory range
    TopicChunk,          \* TOKEN_TOPIC_CHUNK, blocks per event range
    LiveChunk,           \* LIVE_CHUNK, blocks per live range
    LiveLookback,        \* LIVE_LOOKBACK
    AddressChunk,        \* TOKEN_ADDRESS_CHUNK
    RangesPerTick,       \* EVENT_RANGES_PER_TICK
    ShortReplies,        \* whether an endpoint may answer with too few logs
    LegacyCursors,       \* values of `cursor` an old database may start with
    NoTxn                \* no write transaction is open

Pos(n) == n \in Nat /\ n > 0

ASSUME IndexerAssumption ==
    /\ Mode \in [Proc -> {"follow", "once"}]
    /\ \A n \in {Chunk, TopicChunk, LiveChunk, AddressChunk, RangesPerTick, StartBlock} : Pos(n)
    /\ {MaxBlock, Confirmations, MaxLag, LiveLookback} \subseteq Nat
    /\ ShortReplies \in BOOLEAN
    /\ NoTxn \notin [owner : Proc, view : DB, todo : SUBSET Log]

(***************************************************************************)
(* What the chain guarantees: a position holds one log, and a token emits  *)
(* nothing before the factory has announced it.                            *)
(***************************************************************************)
ASSUME ForkAssumption ==
    \A f \in Fork :
        /\ f \subseteq Log
        /\ \A l \in f : l.block \in StartBlock .. MaxBlock
        /\ \A k, l \in f : k = l \/ Before(k, l) \/ Before(l, k)
        /\ \A l \in f : l.kind # "Created" =>
              \E c \in f : c.kind = "Created" /\ c.token = l.token /\ Before(c, l)

Unset == -1
ASSUME LegacyAssumption == LegacyCursors \subseteq {Unset} \cup StartBlock .. MaxBlock

VARIABLES
    chain,   \* the fork the network is on, future blocks included
    head,    \* its newest block: logs above it do not exist yet
    db,      \* the committed contents of the store
    meta,    \* the cursors of table meta: factory, cursor, token, live
    txn,     \* the open write transaction, or NoTxn
    mem      \* mem[p]: the memory of process p

vars == <<chain, head, db, meta, txn, mem>>

-----------------------------------------------------------------------------
Least(a, b)    == IF a <= b THEN a ELSE b
Greatest(a, b) == IF a >= b THEN a ELSE b

First == StartBlock - 1

(* cursor(key, fallback) *)
Cursor(key, fallback) == IF meta[key] = Unset THEN fallback ELSE meta[key]

(***************************************************************************)
(* The memory of a process.  F, T and L are the factoryCursor, tokenCursor *)
(* and liveTokenCursor of main; cur is the cursor inside the drain that is *)
(* running, which main sees only when the drain returns.                   *)
(***************************************************************************)
Stream == {"factory", "live", "token"}
PC == {"down", "idle", "drain", "tokens", "publish", "logs", "batch", "apply", "cursor"}

Mem == [ pc     : PC,
         boot   : BOOLEAN,      \* still in the part of main before the loop
         stream : Stream,       \* the drain that is running
         safe   : Int,          \* the safe head of this tick
         F : Int, T : Int, L : Int,
         cur    : Int,
         to     : Int,          \* the end of the range being indexed
         ranges : Nat,          \* event ranges drained in this tick
         todo   : SUBSET Log,   \* Created logs not inserted yet
         addrs  : SUBSET Token  \* known tokens when the range began *)
       ]

Down == [pc |-> "down", boot |-> FALSE, stream |-> "factory", safe |-> 0,
         F |-> 0, T |-> 0, L |-> 0, cur |-> 0, to |-> 0, ranges |-> 0,
         todo |-> {}, addrs |-> {}]

(* BUG: the next tick takes up the stream this one stopped in. *)
IdleKeepingStream(m) ==
    [Down EXCEPT !.pc = "idle", !.stream = m.stream, !.F = m.F, !.T = m.T, !.L = m.L]

(* BUG: the count of ranges is not reset between ticks. *)
IdleKeepingRanges(m) ==
    [Down EXCEPT !.pc = "idle", !.ranges = m.ranges, !.F = m.F, !.T = m.T, !.L = m.L]

(* Between two ticks only the cursors of main survive. *)
Idle(m) == [Down EXCEPT !.pc = "idle", !.F = m.F, !.T = m.T, !.L = m.L]

At(p, pc) == mem[p].pc = pc
In(p, pc, s) == mem[p].pc = pc /\ mem[p].stream = s

(* SQLite admits one writer at a time. *)
MayWrite == txn = NoTxn

-----------------------------------------------------------------------------
(***************************************************************************)
(* The network.                                                            *)
(***************************************************************************)
Mine ==
    /\ head < MaxBlock
    /\ head' = head + 1
    /\ UNCHANGED <<chain, db, meta, txn, mem>>

(* A reorganisation replaces blocks less than Confirmations deep. *)
Reorg ==
    /\ \E f \in Fork \ {chain} :
        /\ \A l \in f \cup chain : l.block <= head - Confirmations => l \in f \cap chain
        /\ chain' = f
    /\ UNCHANGED <<head, db, meta, txn, mem>>

(* BUG: the head is indexed without waiting for confirmations. *)
SafeHeadUnconfirmed == (head - MaxLag) .. head

(* provider.getBlockNumber() - CONFIRMATIONS, from an endpoint that may lag. *)
SafeHead == {h - Confirmations : h \in (head - MaxLag) .. head}

LogsIn(from, to) == {l \in chain : l.block \in from .. to /\ l.block <= head}

(* getLogs, when `all` is what there is: endpoints may fall short of it.   *)
Reply(all) == IF ShortReplies THEN SUBSET all ELSE {all}

-----------------------------------------------------------------------------
(***************************************************************************)
(* main: start, tick, failure, crash.                                      *)
(***************************************************************************)
Start(p) ==
    /\ At(p, "down")
    /\ \E s \in SafeHead :
        LET F == Cursor("factory", Cursor("cursor", First))
        IN  mem' = [mem EXCEPT ![p] =
                [Down EXCEPT !.pc = "drain", !.boot = TRUE, !.safe = s,
                             !.F = F, !.cur = F,
                             !.T = Cursor("token", First),
                             !.L = Cursor("live", Greatest(First, s - LiveLookback))]]
    /\ UNCHANGED <<chain, head, db, meta, txn>>

Tick(p) ==
    /\ At(p, "idle")
    /\ \E s \in SafeHead :
        LET m == mem[p]
        IN  mem' = [mem EXCEPT ![p] = [m EXCEPT !.pc = "drain", !.safe = s, !.cur = m.F]]
    /\ UNCHANGED <<chain, head, db, meta, txn>>

(* BUG: an open transaction survives the exception inside it. *)
AbandonKeepingWork(p) ==
    IF At(p, "apply") THEN db' = txn.view /\ txn' = NoTxn ELSE UNCHANGED <<db, txn>>

(* What becomes of a transaction when its process stops in the middle. *)
Abandon(p) ==
    IF At(p, "apply") THEN txn' = NoTxn /\ UNCHANGED db ELSE UNCHANGED <<db, txn>>

(* An RPC request or a SQLite statement throws.  During start-up, outside  *)
(* drainTokens, and in a --once run the process exits; otherwise the tick  *)
(* ends.  The cursors of main keep the values from before the drain.       *)
Fail(p) ==
    /\ ~At(p, "down") /\ ~At(p, "idle")
    /\ LET m == mem[p]
           exits == Mode[p] = "once" \/ (m.boot /\ m.stream # "token")
       IN  mem' = [mem EXCEPT ![p] = IF exits THEN Down ELSE Idle(m)]
    /\ Abandon(p)
    /\ UNCHANGED <<chain, head, meta>>

Crash(p) ==
    /\ ~At(p, "down")
    /\ mem' = [mem EXCEPT ![p] = Down]
    /\ Abandon(p)
    /\ UNCHANGED <<chain, head, meta>>

-----------------------------------------------------------------------------
(***************************************************************************)
(* drainFactory, processFactoryRange, indexFactoryRange.                   *)
(***************************************************************************)
FactoryFetch(p) ==
    /\ In(p, "drain", "factory")
    /\ LET m  == mem[p]
           to == Least(m.cur + Chunk, m.safe)
       IN  /\ m.cur < m.safe
           /\ mem' = [mem EXCEPT ![p] =
                  [m EXCEPT !.pc = "tokens", !.to = to,
                            !.todo = {l \in LogsIn(m.cur + 1, to) : l.kind = "Created"}]]
    /\ UNCHANGED <<chain, head, db, meta, txn>>

(* One insertToken; the creator lookup before it is an await. *)
InsertNextToken(p) ==
    /\ At(p, "tokens")
    /\ MayWrite
    /\ \E l \in mem[p].todo :
        /\ \A k \in mem[p].todo : ~Before(k, l)
        /\ db' = InsertToken(db, l.token)
        /\ mem' = [mem EXCEPT ![p].todo = @ \ {l}]
    /\ UNCHANGED <<chain, head, meta, txn>>

(* BUG: the cursor is written before the tokens of the range are. *)
SetFactoryCursorEarly(p) ==
    /\ At(p, "tokens")
    /\ MayWrite
    /\ meta' = [meta EXCEPT !.factory = mem[p].to]
    /\ mem' = [mem EXCEPT ![p].pc = IF mem[p].todo = {} THEN "publish" ELSE "tokens"]
    /\ UNCHANGED <<chain, head, db, txn>>

SetFactoryCursor(p) ==
    /\ At(p, "tokens")
    /\ mem[p].todo = {}
    /\ MayWrite
    /\ meta' = [meta EXCEPT !.factory = mem[p].to]
    /\ mem' = [mem EXCEPT ![p].pc = "publish"]
    /\ UNCHANGED <<chain, head, db, txn>>

PublishCursor(p) ==
    /\ At(p, "publish")
    /\ MayWrite
    /\ meta' = [meta EXCEPT !.cursor = mem[p].to]
    /\ LET m == mem[p]
       IN  mem' = [mem EXCEPT ![p] = [m EXCEPT !.pc = "drain", !.cur = m.to]]
    /\ UNCHANGED <<chain, head, db, txn>>

(* drainLiveTokens: never start more than LIVE_LOOKBACK behind. *)
LiveFrom(m) == Greatest(m.L, Greatest(First, m.safe - LiveLookback))

FactoryDone(p) ==
    /\ In(p, "drain", "factory")
    /\ LET m == mem[p]
           n == [m EXCEPT !.F = m.cur]
       IN  /\ m.cur >= m.safe
           /\ mem' = [mem EXCEPT ![p] =
                  IF Mode[p] = "once"
                  THEN [n EXCEPT !.stream = "token", !.cur = m.T]
                  ELSE [n EXCEPT !.stream = "live", !.cur = LiveFrom(m)]]
    /\ UNCHANGED <<chain, head, db, meta, txn>>

-----------------------------------------------------------------------------
(***************************************************************************)
(* drainLiveTokens, drainTokens and indexTokenRange.  The live stream only *)
(* stores rows; the token stream also applies every stored Transfer of its *)
(* range.                                                                  *)
(***************************************************************************)
(* BUG: the last range of a drain is not cut off at its limit. *)
RangeEndUnclipped(m) == m.cur + (IF m.stream = "live" THEN LiveChunk ELSE TopicChunk)

RangeEnd(m) ==
    IF m.stream = "live" THEN Least(m.cur + LiveChunk, m.safe)
                         ELSE Least(m.cur + TopicChunk, m.F)

HasRange(p) ==
    LET m == mem[p]
    IN  \/ m.stream = "live" /\ m.cur < m.safe
        \/ /\ m.stream = "token" /\ m.cur < m.F
           /\ Mode[p] = "once" \/ m.ranges < RangesPerTick

(* knownTokenAddresses; without a token the range is empty. *)
RangeBegin(p) ==
    /\ At(p, "drain")
    /\ HasRange(p)
    /\ LET m == mem[p]
       IN  mem' = [mem EXCEPT ![p] =
              [m EXCEPT !.pc = IF db.tokens = {} THEN "cursor" ELSE "logs",
                        !.to = RangeEnd(m), !.addrs = db.tokens]]
    /\ UNCHANGED <<chain, head, db, meta, txn>>

LogsOf(tokens, m) ==
    {l \in LogsIn(m.cur + 1, m.to) : l.kind # "Created" /\ l.token \in tokens}

(* BUG: only the rows of this reply are applied, not those stored before. *)
OpenTxnForReply(p, view) ==
    [owner |-> p, view |-> view,
     todo |-> Unapplied(view, mem[p].cur + 1, mem[p].to) \ db.events]

(* db.transaction with applyStoredTransfers in it has begun. *)
OpenTxn(p, view) ==
    [owner |-> p, view |-> view, todo |-> Unapplied(view, mem[p].cur + 1, mem[p].to)]

(* BUG: the live stream applies its rows as well, ahead of older ones. *)
TopicReplyApplyingLive(p) ==
    /\ At(p, "logs")
    /\ MayWrite
    /\ \E rows \in Reply(LogsOf(mem[p].addrs, mem[p])) :
            txn' = OpenTxn(p, InsertRows(db, rows))
    /\ mem' = [mem EXCEPT ![p] = [@ EXCEPT !.pc = "apply", !.addrs = {}]]
    /\ UNCHANGED <<chain, head, db, meta>>

(* The reply to the topic query, filtered by isKnownB20Emitter. *)
TopicReply(p) ==
    /\ At(p, "logs")
    /\ MayWrite
    /\ \E rows \in Reply(LogsOf(mem[p].addrs, mem[p])) :
        IF mem[p].stream = "live"
        THEN /\ db' = InsertRows(db, rows)
             /\ mem' = [mem EXCEPT ![p] = [@ EXCEPT !.pc = "cursor", !.addrs = {}]]
             /\ UNCHANGED txn
        ELSE /\ txn' = OpenTxn(p, InsertRows(db, rows))
             /\ mem' = [mem EXCEPT ![p] = [@ EXCEPT !.pc = "apply", !.addrs = {}]]
             /\ UNCHANGED db
    /\ UNCHANGED <<chain, head, meta>>

(* The endpoint demands an address filter: scan in batches of addresses. *)
AddressRequired(p) ==
    /\ At(p, "logs")
    /\ mem' = [mem EXCEPT ![p].pc = "batch"]
    /\ UNCHANGED <<chain, head, db, meta, txn>>

BatchReply(p) ==
    /\ At(p, "batch")
    /\ MayWrite
    /\ \E batch \in SUBSET mem[p].addrs :
        /\ Cardinality(batch) = Least(AddressChunk, Cardinality(mem[p].addrs))
        /\ batch # {}
        /\ \E rows \in Reply(LogsOf(batch, mem[p])) : db' = InsertRows(db, rows)
        /\ mem' = [mem EXCEPT ![p].addrs = @ \ batch]
    /\ UNCHANGED <<chain, head, meta, txn>>

BatchesDone(p) ==
    /\ At(p, "batch")
    /\ mem[p].addrs = {}
    /\ MayWrite
    /\ IF mem[p].stream = "live"
       THEN mem' = [mem EXCEPT ![p].pc = "cursor"] /\ UNCHANGED txn
       ELSE mem' = [mem EXCEPT ![p].pc = "apply"] /\ txn' = OpenTxn(p, db)
    /\ UNCHANGED <<chain, head, db, meta>>

(* BUG: the rows do not come ORDER BY block, log_index.                    *)
ApplyAnyRow(p) ==
    /\ At(p, "apply")
    /\ \E l \in txn.todo :
        txn' = [txn EXCEPT !.view = InsertTransferAndApply(@, l), !.todo = @ \ {l}]
    /\ UNCHANGED <<chain, head, db, meta, mem>>

(* One iteration of the loop of applyStoredTransfers. *)
ApplyNextRow(p) ==
    /\ At(p, "apply")
    /\ \E l \in txn.todo :
        /\ \A k \in txn.todo : ~Before(k, l)
        /\ txn' = [txn EXCEPT !.view = InsertTransferAndApply(@, l), !.todo = @ \ {l}]
    /\ UNCHANGED <<chain, head, db, meta, mem>>

Commit(p) ==
    /\ At(p, "apply")
    /\ txn.todo = {}
    /\ db' = txn.view
    /\ txn' = NoTxn
    /\ mem' = [mem EXCEPT ![p].pc = "cursor"]
    /\ UNCHANGED <<chain, head, meta>>

SetStreamCursor(p) ==
    /\ At(p, "cursor")
    /\ MayWrite
    /\ LET m == mem[p]
       IN  /\ meta' = [meta EXCEPT ![m.stream] = m.to]
           /\ mem' = [mem EXCEPT ![p] =
                  [m EXCEPT !.pc = "drain", !.cur = m.to, !.addrs = {},
                            !.ranges = IF m.stream = "token" /\ Mode[p] = "follow"
                                       THEN @ + 1 ELSE @]]
    /\ UNCHANGED <<chain, head, db, txn>>

LiveDone(p) ==
    /\ In(p, "drain", "live")
    /\ ~HasRange(p)
    /\ LET m == mem[p]
       IN  mem' = [mem EXCEPT ![p] =
              [m EXCEPT !.L = m.cur, !.stream = "token", !.cur = m.T]]
    /\ UNCHANGED <<chain, head, db, meta, txn>>

(* The tick is over; a --once run exits. *)
TokenDone(p) ==
    /\ In(p, "drain", "token")
    /\ ~HasRange(p)
    /\ LET m == mem[p]
       IN  mem' = [mem EXCEPT ![p] =
              IF Mode[p] = "once" THEN Down ELSE Idle([m EXCEPT !.T = m.cur])]
    /\ UNCHANGED <<chain, head, db, meta, txn>>

-----------------------------------------------------------------------------
Step(p) ==
    \/ Start(p) \/ Tick(p)
    \/ FactoryFetch(p) \/ InsertNextToken(p) \/ SetFactoryCursor(p)
    \/ PublishCursor(p) \/ FactoryDone(p)
    \/ RangeBegin(p) \/ TopicReply(p) \/ AddressRequired(p)
    \/ BatchReply(p) \/ BatchesDone(p)
    \/ ApplyNextRow(p) \/ Commit(p) \/ SetStreamCursor(p)
    \/ LiveDone(p) \/ TokenDone(p)

Trouble == \E p \in Proc : Fail(p) \/ Crash(p)

Next == Mine \/ Reorg \/ Trouble \/ \E p \in Proc : Step(p)

(* A new database file, or one written before the cursors were split: its  *)
(* `cursor` vouches for the tokens up to it and for nothing else.          *)
InitStore ==
    \E c \in {v \in LegacyCursors : v = Unset \/ v <= head - Confirmations} :
        /\ meta = [factory |-> Unset, cursor |-> c, token |-> Unset, live |-> Unset]
        /\ db = [EmptyDB EXCEPT !.tokens =
                    {l.token : l \in {k \in chain : k.kind = "Created" /\ k.block <= c}}]

Init ==
    /\ chain \in Fork
    /\ head \in 0 .. MaxBlock
    /\ InitStore
    /\ txn = NoTxn
    /\ mem = [p \in Proc |-> Down]

Spec == Init /\ [][Next]_vars

(* systemd restarts the follower (Restart=always) and its loop never ends; *)
(* nothing obliges anybody to start a --once run, but one that has begun   *)
(* keeps going.                                                            *)
FairSpec ==
    Spec /\ \A p \in Proc : WF_vars(Step(p) /\ (At(p, "down") => Mode[p] = "follow"))

-----------------------------------------------------------------------------
(***************************************************************************)
(* Properties.                                                             *)
(***************************************************************************)

(* Every variable has its type.  Cursors never leave First .. MaxBlock,    *)
(* the lower bound because a lookback from a young chain is clamped.       *)
CursorValue == {Unset} \cup First .. MaxBlock

TypeOK ==
    /\ chain \in Fork
    /\ head \in 0 .. MaxBlock
    /\ db \in DB
    /\ meta \in [factory : CursorValue, cursor : CursorValue,
                token : CursorValue, live : CursorValue]
    /\ txn \in {NoTxn} \cup [owner : Proc, view : DB, todo : SUBSET Log]
    /\ mem \in [Proc -> Mem]

Final(l) == l \in chain /\ l.block <= head - Confirmations

(* No unwind logic is needed (indexer.js:11-12): whatever was stored from a *)
(* block CONFIRMATIONS deep is still on the chain after every              *)
(* reorganisation, whichever endpoint reported the head.                   *)
CanonicalOnly ==
    /\ \A l \in db.events : Final(l)
    /\ \A t \in db.tokens :
          \E l \in chain : Final(l) /\ l.kind = "Created" /\ l.token = t

(* A cursor vouches for everything at or below it, across crashes between  *)
(* a commit and the cursor write, failed drains, replays and a second      *)
(* process: every deployment is listed, every event of every token is      *)
(* stored, every Transfer is applied.  For endpoints that answer fully.    *)
CursorComplete ==
    ~ShortReplies =>
        \A l \in chain :
            /\ l.kind = "Created" /\ l.block <= Greatest(meta.factory, meta.cursor)
                  => l.token \in db.tokens
            /\ l.kind # "Created" /\ l.block <= meta.token
                  => l \in db.events /\ (IsTransfer(l) => l \in db.applied)

(* Transfers take effect in chain order: when one is applied, every earlier *)
(* one of the chain has been.  applyTransfer clamps at zero, so an order   *)
(* violation would be a lost amount and not a temporary one.               *)
AppliedInOrder ==
    ~ShortReplies =>
        \A k \in db.applied, l \in chain :
            IsTransfer(l) /\ Before(l, k) => l \in db.applied

(* tokens.holder_count is the number of holder rows. *)
HoldersCounted == HolderCountExact(db)

(* tokens.transfer_count is the number of applied Transfers: a replayed    *)
(* range or a second process never counts one again.                       *)
TransfersCounted == TransferCountExact(db)

(* admin_active and has_non_mint_transfer follow from the stored rows,     *)
(* though the live stream may store newer rows before older ones.          *)
FlagsExact == AdminExact(db) /\ NonMintExact(db)

(* indexer.js:156: "A provider returning fewer logs must not leave         *)
(* already-known Transfers unapplied": in the step in which the event      *)
(* cursor passes a stored Transfer, that Transfer has been applied.  A row  *)
(* that the live stream stores below the cursor later is another matter.   *)
KnownTransfersApplied ==
    [][\A l \in db.events :
          IsTransfer(l) /\ meta.token < l.block /\ l.block <= meta'.token
              => l \in db'.applied]_vars

(* Every tick that begins sees the newest head: the endpoints have stopped *)
(* lagging.                                                                *)
HeadsCurrent == \A p \in Proc :
    mem[p].pc \in {"down", "idle"} /\ mem'[p].pc = "drain" => mem'[p].safe = head - Confirmations

Working == HeadsCurrent /\ (Mine \/ Reorg \/ \E p \in Proc : Step(p))

(* Once failures and lagging endpoints stop, every confirmed event is      *)
(* stored and every confirmed Transfer is applied, however few ranges a    *)
(* tick may drain.                                                         *)
CatchesUp ==
    <>[][Working]_vars =>
        \A l \in {k \in Log : k.kind # "Created"} :
            Final(l) ~> (l \in db.events /\ (IsTransfer(l) => l \in db.applied))

(* indexer.js:320: the deployment cursor never waits on the event scan.    *)
(* Confirmed deployments are listed even when every live and event range   *)
(* keeps failing, as long as the factory sweep itself is not disturbed.    *)
DeploymentsListed ==
    <>[][\/ Working
         \/ HeadsCurrent /\ \E p \in Proc : mem[p].stream # "factory" /\ (Fail(p) \/ Crash(p))]_vars =>
        \A l \in {k \in Log : k.kind = "Created"} :
            Final(l) ~> (l.token \in db.tokens)
=============================================================================
