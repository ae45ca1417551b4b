--------------------------- MODULE CobaltStreams ----------------------------
(***************************************************************************)
(* followCobalt of indexer.js: the PolicyRegistry stream and the stream of *)
(* Seized events, drained by drainNewStream, and the registry tables of    *)
(* db.js.  The follower, a --once run and a --cobalt-backfill run may work *)
(* on them at the same time, the last two with several ranges in flight.   *)
(*                                                                         *)
(* Only confirmed blocks are read, so the logs never change here; `safe`   *)
(* is the newest confirmed block.  Deployments up to `factory` are in the  *)
(* tokens table: that is CursorComplete of Indexer.                        *)
(***************************************************************************)
EXTENDS Integers, FiniteSets

CONSTANTS
    Proc, Mode,      \* the processes: "follow", "once" or "backfill"
    Log,             \* the logs of the PolicyRegistry and the Seized logs
    Policy, Token,
    Deployed,        \* Deployed[t]: the block in which t was created
    StartBlock,      \* START_BLOCK
    CobaltBlock,     \* the first block not older than COBALT_TIMESTAMP
    MaxBlock,        \* bound: the chain stops growing here
    MaxLag,          \* bound: how far behind an endpoint's head may be
    StreamChunk,     \* REGISTRY_CHUNK and SEIZE_CHUNK, blocks per range
    Concurrency,     \* ranges in flight when there is no limit per tick: 4
    RangesPerTick    \* COBALT_RANGES_PER_TICK

Key  == {"registry_cursor", "seize_cursor"}
Kind == {"PolicyCreated", "CompositePolicyUpdated", "Seized"}

ASSUME CobaltAssumption ==
    /\ Mode \in [Proc -> {"follow", "once", "backfill"}]
    /\ Deployed \in [Token -> Nat]
    /\ {StartBlock, StreamChunk, Concurrency, RangesPerTick} \subseteq Nat \ {0}
    /\ {CobaltBlock, MaxBlock, MaxLag} \subseteq Nat

(* A policy is created once, and a token seizes after it was deployed and   *)
(* after the activation of Cobalt.                                         *)
ASSUME RegistryAssumption ==
    /\ IsFiniteSet(Log)
    /\ \A l \in Log :
        /\ l.block \in StartBlock .. MaxBlock
        /\ l.index \in Nat
        /\ l.kind \in Kind
        /\ IF l.kind = "Seized"
           THEN l.token \in Token /\ Deployed[l.token] <= l.block /\ CobaltBlock <= l.block
           ELSE l.policy \in Policy
    /\ \A k, l \in Log : k.kind = "PolicyCreated" /\ l.kind = "PolicyCreated" /\ k.policy = l.policy
                            => k = l

VARIABLES
    safe,      \* the newest confirmed block
    factory,   \* factory_cursor: deployments up to here are in the tokens table
    events,    \* rows of policy_events, and of events with kind Seized
    state,     \* policy_state: state[p] = [created, children], logs or None
    cursor,    \* registry_cursor and seize_cursor of table meta
    start,     \* cobalt_start_block of table meta
    mem        \* mem[p]: the memory of process p

vars == <<safe, factory, events, state, cursor, start, mem>>

Unset == -1
None  == [block |-> Unset]
First == StartBlock - 1

Least(a, b)    == IF a <= b THEN a ELSE b
Greatest(a, b) == IF a >= b THEN a ELSE b
CeilDiv(a, b)  == (a + b - 1) \div b

Before(k, l) == k.block < l.block \/ (k.block = l.block /\ k.index < l.index)

StreamOf(l) == IF l.kind = "Seized" THEN "seize_cursor" ELSE "registry_cursor"

(***************************************************************************)
(* A range in flight: its bounds, whether its logs have arrived and those  *)
(* of them that are still to be inserted.                                  *)
(***************************************************************************)
Flight == [from : Int, to : Int, got : BOOLEAN, todo : SUBSET Log]
Mem == [ pc : {"down", "idle", "drain", "ranges", "start", "search"},
         key       : Key,          \* the stream being drained
         target    : Int,          \* the safeHead argument of followCobalt
         progress  : Int,
         processed : Nat,
         flight    : SUBSET Flight,
         low : Int, high : Int ]   \* of the search in cobaltStartBlock

Down == [pc |-> "down", key |-> "registry_cursor", target |-> 0, progress |-> 0,
         processed |-> 0, flight |-> {}, low |-> 0, high |-> 0]

Asked(r) == [from |-> r.from, to |-> r.to, got |-> FALSE, todo |-> {}]

At(p, pc) == mem[p].pc = pc
CursorOr(key, fallback) == IF cursor[key] = Unset THEN fallback ELSE cursor[key]
Bounded(p) == Mode[p] = "follow"

-----------------------------------------------------------------------------
Mine ==
    /\ safe < MaxBlock
    /\ safe' = safe + 1
    /\ UNCHANGED <<factory, events, state, cursor, start, mem>>

(* BUG: a backfill follows the head instead of the discovered tokens. *)
TargetAtHead(p, s) == s

(* min(factoryCursor, safeHead): a backfill uses only discovered tokens. *)
Target(p, s) == IF Mode[p] = "backfill" THEN Least(factory, s) ELSE s

(* followCobalt(safeHead) is reached.  In a tick and in a --once run the   *)
(* factory sweep has just been drained to the same safe head.              *)
Follow(p) ==
    /\ At(p, "idle") \/ At(p, "down")
    /\ \E s \in Greatest(0, safe - MaxLag) .. safe :
        /\ factory' = IF Mode[p] = "backfill" THEN factory ELSE Greatest(factory, s)
        /\ mem' = [mem EXCEPT ![p] =
              [Down EXCEPT !.pc = "drain", !.target = Target(p, s),
                           !.progress = CursorOr("registry_cursor", First)]]
    /\ UNCHANGED <<safe, events, state, cursor, start>>

HasRange(m, p) == m.progress < m.target /\ (Bounded(p) => m.processed < RangesPerTick)

BatchRange(from, i, target) ==
    [from |-> from + i * StreamChunk + 1, to |-> Least(from + (i + 1) * StreamChunk, target)]

(* Start the next ranges behind the cursor, wherever another process has   *)
(* moved it meanwhile.                                                     *)
Launch(p) ==
    /\ At(p, "drain")
    /\ HasRange(mem[p], p)
    /\ LET m == mem[p]
           from == Greatest(m.progress, CursorOr(m.key, m.progress))
           n == Least(IF Bounded(p) THEN 1 ELSE Concurrency, CeilDiv(m.target - from, StreamChunk))
       IN  /\ from < m.target
           /\ mem' = [mem EXCEPT ![p] =
                [m EXCEPT !.pc = "ranges", !.progress = from,
                   !.flight = {Asked(BatchRange(from, i, m.target)) : i \in 0 .. n - 1}]]
    /\ UNCHANGED <<safe, factory, events, state, cursor, start>>

(* BUG: the cached token list misses the deployments of the newest block. *)
KnownStale(l) == l.kind = "Seized" => Deployed[l.token] < factory

(* The tokens table when the reply is filtered by isKnownB20Emitter. *)
Known(l) == l.kind = "Seized" => Deployed[l.token] <= factory

(* The logs of one range arrive, in whatever order the ranges answer. *)
Reply(p) ==
    /\ At(p, "ranges")
    /\ LET m == mem[p]
       IN  \E r \in m.flight :
            /\ ~r.got
            /\ mem' = [mem EXCEPT ![p].flight = (@ \ {r}) \cup
                  {[r EXCEPT !.got = TRUE,
                      !.todo = {l \in Log : /\ StreamOf(l) = m.key
                                            /\ l.block \in r.from .. r.to
                                            /\ Known(l)}]}]
    /\ UNCHANGED <<safe, factory, events, state, cursor, start>>

(* BUG: the guard on updated_block and updated_log_index is gone. *)
NewerAlways(l, k) == TRUE

(* The WHERE clause of setPolicyChildren. *)
Newer(l, k) == k = None \/ Before(k, l)

(* insertRegistryEvent; for a Seized log insertDecodedTokenLog. *)
Insert(l) ==
    /\ events' = events \cup {l}
    /\ state' =
        IF l \in events THEN state
        ELSE CASE l.kind = "PolicyCreated" -> [state EXCEPT ![l.policy].created = l]
               [] l.kind = "CompositePolicyUpdated" /\ Newer(l, state[l.policy].children)
                    -> [state EXCEPT ![l.policy].children = l]
               [] OTHER -> state

(* The next log of one range is inserted; ranges take turns at each await. *)
InsertNext(p) ==
    /\ At(p, "ranges")
    /\ \E r \in mem[p].flight : \E l \in r.todo :
        /\ \A k \in r.todo : ~Before(k, l)
        /\ Insert(l)
        /\ mem' = [mem EXCEPT ![p].flight = (@ \ {r}) \cup {[r EXCEPT !.todo = @ \ {l}]}]
    /\ UNCHANGED <<safe, factory, cursor, start>>

(* BUG: the cursor is set, whatever another process has written. *)
AdvanceToAlways(old, to) == to

(* advanceCursorStmt. *)
AdvanceTo(old, to) == IF old = Unset THEN to ELSE Greatest(old, to)

(* Promise.all has settled. *)
Advance(p) ==
    /\ At(p, "ranges")
    /\ \A r \in mem[p].flight : r.got /\ r.todo = {}
    /\ LET m  == mem[p]
           to == CHOOSE b \in {r.to : r \in m.flight} : \A r \in m.flight : r.to <= b
       IN  /\ cursor' = [cursor EXCEPT ![m.key] = AdvanceTo(@, to)]
           /\ mem' = [mem EXCEPT ![p] =
                [m EXCEPT !.pc = "drain", !.progress = to, !.flight = {},
                          !.processed = IF Bounded(p) THEN @ + Cardinality(m.flight) ELSE 0]]
    /\ UNCHANGED <<safe, factory, events, state, start>>

Stopped(p) == [Down EXCEPT !.pc = IF Mode[p] = "follow" THEN "idle" ELSE "down"]

DrainDone(p) ==
    /\ At(p, "drain")
    /\ LET m == mem[p]
       IN  /\ ~HasRange(m, p) \/ Greatest(m.progress, CursorOr(m.key, m.progress)) >= m.target
           /\ mem' = [mem EXCEPT ![p] =
                IF m.key = "registry_cursor" THEN [m EXCEPT !.pc = "start"] ELSE Stopped(p)]
    /\ UNCHANGED <<safe, factory, events, state, cursor, start>>

(***************************************************************************)
(* cobaltStartBlock: a binary search by block timestamp, an await per step.*)
(***************************************************************************)
Seize(m, from) ==
    [m EXCEPT !.pc = "drain", !.key = "seize_cursor", !.processed = 0, !.low = 0, !.high = 0,
              !.progress = CursorOr("seize_cursor", from - 1)]

CobaltStart(p) ==
    /\ At(p, "start")
    /\ LET m == mem[p]
       IN  mem' = [mem EXCEPT ![p] =
              IF start # Unset THEN Seize(m, start)
              ELSE IF m.target < CobaltBlock THEN Stopped(p)
              ELSE [m EXCEPT !.pc = "search", !.low = StartBlock, !.high = m.target]]
    /\ UNCHANGED <<safe, factory, events, state, cursor, start>>

(* BUG: the middle block itself is dropped from the upper half. *)
HalveTooFar(m) ==
    LET mid == (m.low + m.high) \div 2
    IN  IF mid < CobaltBlock THEN [m EXCEPT !.low = mid + 1] ELSE [m EXCEPT !.high = mid - 1]

Halve(m) ==
    LET mid == (m.low + m.high) \div 2
    IN  IF mid < CobaltBlock THEN [m EXCEPT !.low = mid + 1] ELSE [m EXCEPT !.high = mid]

SearchStep(p) ==
    /\ At(p, "search")
    /\ mem[p].low < mem[p].high
    /\ mem' = [mem EXCEPT ![p] = Halve(@)]
    /\ UNCHANGED <<safe, factory, events, state, cursor, start>>

SearchDone(p) ==
    /\ At(p, "search")
    /\ mem[p].low >= mem[p].high
    /\ start' = mem[p].low
    /\ mem' = [mem EXCEPT ![p] = Seize(@, @.low)]
    /\ UNCHANGED <<safe, factory, events, state, cursor>>

(* A request or a statement throws: the follower's tick goes on, another   *)
(* process exits.                                                          *)
Fail(p) ==
    /\ mem[p].pc \in {"ranges", "start", "search"}
    /\ mem' = [mem EXCEPT ![p] = Stopped(p)]
    /\ UNCHANGED <<safe, factory, events, state, cursor, start>>

Crash(p) ==
    /\ ~At(p, "down")
    /\ mem' = [mem EXCEPT ![p] = Down]
    /\ UNCHANGED <<safe, factory, events, state, cursor, start>>

-----------------------------------------------------------------------------
Step(p) ==
    \/ Follow(p) \/ Launch(p) \/ Reply(p) \/ InsertNext(p) \/ Advance(p)
    \/ DrainDone(p) \/ CobaltStart(p) \/ SearchStep(p) \/ SearchDone(p)

Working == Mine \/ \E p \in Proc : Step(p)
Next    == Working \/ \E p \in Proc : Fail(p) \/ Crash(p)

Init ==
    /\ safe \in 0 .. MaxBlock
    /\ factory = First
    /\ events = {}
    /\ state = [p \in Policy |-> [created |-> None, children |-> None]]
    /\ cursor = [k \in Key |-> Unset]
    /\ start = Unset
    /\ mem = [p \in Proc |-> Down]

Spec == Init /\ [][Next]_vars

(* The service is restarted for ever; nobody has to start another process. *)
FairSpec ==
    Spec /\ \A p \in Proc : WF_vars(Step(p) /\ (At(p, "down") => Mode[p] = "follow"))

-----------------------------------------------------------------------------
TypeOK ==
    /\ safe \in 0 .. MaxBlock
    /\ factory \in First .. Greatest(First, MaxBlock)
    /\ events \subseteq Log
    /\ state \in [Policy -> [created : Log \cup {None}, children : Log \cup {None}]]
    /\ cursor \in [Key -> {Unset} \cup First .. MaxBlock]
    /\ start \in {Unset} \cup StartBlock .. Greatest(StartBlock, MaxBlock)
    /\ mem \in [Proc -> Mem]

(* A stream cursor vouches for its stream: every log at or below it is     *)
(* stored, though a backfill, a cron run and the follower move the same    *)
(* cursor and any of them may die inside a batch of concurrent ranges.     *)
StreamComplete ==
    \A l \in Log : l.block <= cursor[StreamOf(l)] => l \in events

(* Manual backfill may run alongside the follower; cursors only advance    *)
(* (indexer.js:294).                                                       *)
CursorsOnlyAdvance == [][\A k \in Key : cursor'[k] >= cursor[k]]_vars

(* policy_state shows the newest stored composite update and the creation  *)
(* of a policy, whatever order ranges and processes delivered them in      *)
(* (db.js:251: live reads can arrive before older backfill).               *)
StateIsNewest ==
    \A p \in Policy :
        LET updates == {l \in events : l.kind = "CompositePolicyUpdated" /\ l.policy = p}
            creations == {l \in events : l.kind = "PolicyCreated" /\ l.policy = p}
        IN  /\ IF updates = {} THEN state[p].children = None
               ELSE state[p].children \in {l \in updates : \A k \in updates : ~Before(l, k)}
            /\ IF creations = {} THEN state[p].created = None ELSE state[p].created \in creations

(* The saved start block is the first block of the B20 history at or after *)
(* the activation of Cobalt, whichever process searched and however far    *)
(* the chain had grown; a block too late would lose seizures for good.     *)
StartExact == start # Unset => start = Greatest(StartBlock, CobaltBlock)

(* The head a tick starts with is the newest one. *)
Timely == \A p \in Proc : Follow(p) => mem'[p].target = Target(p, safe)

(* Once failures stop and no endpoint lags behind, every confirmed registry *)
(* event and every confirmed seizure is stored.                            *)
CatchesUp ==
    <>[][Working /\ Timely]_vars => \A l \in Log : (l.block <= safe) ~> (l \in events)
=============================================================================
