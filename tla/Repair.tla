------------------------------- MODULE Repair -------------------------------
(***************************************************************************)
(* The two offline tools that repair balances after confirmed Transfers    *)
(* were stored but left unapplied: repair-balances.js, which rebuilds a    *)
(* token from its stored events, at once or from a file it prepared before *)
(* (--prepared), and repair-chain-balances.js, which reads the             *)
(* participants' balances from the chain.                                  *)
(*                                                                         *)
(* The tools want the follower stopped.  Two of the three check that       *)
(* nothing moved meanwhile, so here the follower goes on beside these two. *)
(* Their reads are separate statements; their last write is one            *)
(* transaction.                                                            *)
(***************************************************************************)
EXTENDS Store, FiniteSetsExt

CONSTANTS
    MaxBlock,   \* length of the chain; every element of Log is on it
    Tools,      \* subset of {"rebuild", "prepared", "chain"}
    FromBlocks  \* the values of --from-block that are tried

VARIABLES
    db,         \* the database
    cursor,     \* meta.token_cursor
    upto,       \* end of a range that is committed but not in the cursor yet
    tool,       \* the tool that runs
    pc,         \* "start", "plan", "totals", "ready", "checked", "done", "failed"
    from,       \* --from-block
    at,         \* the cursor the tool read
    pending,    \* the unapplied rows it read
    totals,     \* the totals of the token being planned
    plans       \* the plans made, by token

vars == <<db, cursor, upto, tool, pc, from, at, pending, totals, plans>>
follower == <<db, cursor, upto>>

ASSUME RepairAssumption ==
    /\ MaxBlock \in Nat /\ \A l \in Log : IsTransfer(l) /\ l.block \in 1 .. MaxBlock
    /\ \A k, l \in Log : k = l \/ Before(k, l) \/ Before(l, k)
    /\ Tools \subseteq {"rebuild", "prepared", "chain"}
    /\ FromBlocks \subseteq Nat

-----------------------------------------------------------------------------
(* What a set of Transfers amounts to. *)

Amount(l) == l.amount
Sum(rows) == MapThenSumSet(Amount, rows)

Net(rows, t, a) ==
    Sum({l \in rows : l.token = t /\ l.to = a}) - Sum({l \in rows : l.token = t /\ l.from = a})
NetSupply(rows, t) == 0 - Net(rows, t, ZERO)

OfToken(rows, t) == {l \in rows : l.token = t}
UpTo(rows, c)    == {l \in rows : l.block <= c}

(* The chain never lets an account spend what it does not have. *)
ASSUME ChainAssumption ==
    \A t \in Token, c \in 0 .. MaxBlock :
        \A a \in Account : Net(UpTo(Log, c), t, a) >= 0

(* applyStoredTransfers: each row in chain order. *)
Newest(rows) == CHOOSE l \in rows : \A k \in rows : ~Before(l, k)
ApplyAll(d, rows) ==
    MapThenFoldSet(LAMBDA l, e : InsertTransferAndApply(e, l), d, LAMBDA l : l, Newest, rows)

Totals(t) == <<db.supply[t], db.transferCount[t], db.holderCount[t]>>

-----------------------------------------------------------------------------
(* The follower: the live stream stores rows, late ones at or below the    *)
(* cursor included; the event stream stores and applies a range and then   *)
(* moves the cursor.                                                       *)

Follows == tool # "rebuild"

LiveRow ==
    /\ Follows
    /\ \E l \in Log \ db.events : db' = InsertRows(db, {l})
    /\ UNCHANGED <<cursor, upto, tool, pc, from, at, pending, totals, plans>>

EventRange ==
    /\ Follows /\ upto = 0
    /\ \E c \in cursor + 1 .. MaxBlock :
        LET range == {l \in Log : l.block \in cursor + 1 .. c}
            d == InsertRows(db, range)
        IN  db' = ApplyAll(d, Unapplied(d, cursor + 1, c)) /\ upto' = c
    /\ UNCHANGED <<cursor, tool, pc, from, at, pending, totals, plans>>

MoveCursor ==
    /\ upto # 0
    /\ cursor' = upto /\ upto' = 0
    /\ UNCHANGED <<db, tool, pc, from, at, pending, totals, plans>>

(* Stopped, or killed, before setCursor. *)
Restart ==
    /\ upto # 0 /\ upto' = 0
    /\ UNCHANGED <<db, cursor, tool, pc, from, at, pending, totals, plans>>

-----------------------------------------------------------------------------
(* The tools. *)

ReadPending ==
    /\ pc = "start"
    /\ at' = cursor
    /\ pending' = Unapplied(db, from, cursor)
    /\ pc' = IF pending' = {} THEN "done" ELSE "plan"
    /\ UNCHANGED <<follower, tool, from, totals, plans>>

Affected  == {l.token : l \in pending}
Unplanned == Affected \ DOMAIN plans

ReadTotals ==
    /\ pc = "plan"
    /\ \E t \in Unplanned : totals' = <<t, Totals(t)>>
    /\ pc' = "totals"
    /\ UNCHANGED <<follower, tool, from, at, pending, plans>>

(* tokenLedger, and the comparison with the totals. *)
Rebuilt(t, old) ==
    LET rows == OfToken(UpTo(db.events, at), t)
    IN  [ ok        |-> /\ \A a \in Account : Net(rows, t, a) >= 0
                        /\ NetSupply(rows, t) >= 0
                        /\ Cardinality(rows) = old[2] + Cardinality(OfToken(pending, t))
                        /\ NetSupply(rows, t) = old[1] + NetSupply(pending, t),
          old       |-> old,
          written   |-> Account,
          holders   |-> [a \in Account |-> Net(rows, t, a)],
          supply    |-> NetSupply(rows, t),
          transfers |-> Cardinality(rows),
          count     |-> Cardinality({a \in Account : Net(rows, t, a) > 0}) ]

Parties(t) == UNION {{l.from, l.to} : l \in OfToken(pending, t)} \ {ZERO}

(* The chain's balances of those named in the pending rows, at the cursor. *)
Adjusted(t) ==
    [a \in Account |-> IF a \in Parties(t) THEN Net(UpTo(Log, at), t, a) ELSE db.holders[t][a]]

(* BUG: the holders are not added up. *)
SumAgreesAlways(holders, supply) == TRUE
SumAgrees(holders, supply) == MapThenSumSet(LAMBDA a : holders[a], Account) = supply

ReadFromChain(t, old) ==
    LET supply == NetSupply(UpTo(Log, at), t)
    IN  [ ok        |-> supply = old[1] + NetSupply(pending, t) /\ SumAgrees(Adjusted(t), supply),
          old       |-> old,
          written   |-> Parties(t),
          holders   |-> Adjusted(t),
          supply    |-> supply,
          transfers |-> old[2] + Cardinality(OfToken(pending, t)),
          count     |-> Cardinality({a \in Account : Adjusted(t)[a] > 0}) ]

MakePlan ==
    /\ pc = "totals"
    /\ LET t == totals[1]
           p == IF tool = "chain" THEN ReadFromChain(t, totals[2]) ELSE Rebuilt(t, totals[2])
       IN  IF p.ok
           THEN /\ plans' = [s \in DOMAIN plans \cup {t} |-> IF s = t THEN p ELSE plans[s]]
                /\ pc' = IF Unplanned = {t} THEN "ready" ELSE "plan"
           ELSE pc' = "failed" /\ UNCHANGED plans
    /\ UNCHANGED <<follower, tool, from, at, pending, totals>>

(* applyPrepared compares the cursor before it opens its transaction. *)
CheckCursor ==
    /\ pc = "ready" /\ tool = "prepared"
    /\ pc' = IF cursor = at THEN "checked" ELSE "failed"
    /\ UNCHANGED <<follower, tool, from, at, pending, totals, plans>>

(* BUG: only the cursor is compared. *)
UnchangedByCursor == tool = "chain" => cursor = at

(* What the transaction checks first: nothing, in repair without --dry-run. *)
Unchanged ==
    /\ tool = "chain" => cursor = at
    /\ tool # "rebuild" => \A t \in DOMAIN plans : Totals(t) = plans[t].old

(* BUG: holder rows that end at zero are not deleted. *)
NewHoldersKeeping(t) ==
    IF t \notin DOMAIN plans THEN db.holders[t]
    ELSE [a \in Account |->
            IF a \in plans[t].written /\ plans[t].holders[a] # 0
            THEN plans[t].holders[a] ELSE db.holders[t][a]]

NewHolders(t) ==
    IF t \notin DOMAIN plans THEN db.holders[t]
    ELSE [a \in Account |->
            IF a \in plans[t].written THEN plans[t].holders[a] ELSE db.holders[t][a]]

(* Rebuilding marks every row of the token up to the cursor. *)
Marked ==
    IF tool = "chain" THEN pending
    ELSE {l \in UpTo(db.events, at) : IsTransfer(l) /\ l.token \in DOMAIN plans}

Planned(t, new, old) == IF t \in DOMAIN plans THEN new ELSE old

Apply ==
    /\ pc = IF tool = "prepared" THEN "checked" ELSE "ready"
    /\ IF Unchanged
       THEN /\ pc' = "done"
            /\ db' = [db EXCEPT
                !.applied = @ \cup Marked,
                !.holders = [t \in Token |-> NewHolders(t)],
                !.supply = [t \in Token |-> Planned(t, plans[t].supply, @[t])],
                !.holderCount = [t \in Token |-> Planned(t, plans[t].count, @[t])],
                !.transferCount = [t \in Token |-> Planned(t, plans[t].transfers, @[t])]]
       ELSE pc' = "failed" /\ UNCHANGED db
    /\ UNCHANGED <<cursor, upto, tool, from, at, pending, totals, plans>>

(* The file a tool saved is applied, perhaps once more: applyChainSnapshot, *)
(* or applyPrepared, which takes the file of a rebuild, too.               *)
ApplySaved ==
    /\ pc \in {"done", "failed"}
    /\ pending # {} /\ Unplanned = {}
    /\ tool' = IF tool = "rebuild" THEN "prepared" ELSE tool
    /\ pc' = "ready"
    /\ UNCHANGED <<follower, from, at, pending, totals, plans>>

Next ==
    \/ LiveRow \/ EventRange \/ MoveCursor \/ Restart
    \/ ReadPending \/ ReadTotals \/ MakePlan \/ CheckCursor \/ Apply \/ ApplySaved

(* Any rows are missing, and any of the stored ones up to the cursor were  *)
(* left unapplied, the others having been applied in chain order.  A       *)
(* follower that was killed before setCursor has applied a range beyond.   *)
Init ==
    /\ cursor \in 0 .. MaxBlock
    /\ \E rows \in SUBSET Log, c \in cursor .. MaxBlock :
        LET range == {l \in Log : l.block \in cursor + 1 .. c}
        IN  \E applied \in SUBSET UpTo(rows, cursor) :
                db = ApplyAll(InsertRows([EmptyDB EXCEPT !.tokens = Token], rows \cup range),
                              applied \cup range)
    /\ tool \in Tools /\ from \in FromBlocks
    /\ upto = 0 /\ pc = "start" /\ at = 0
    /\ pending = {} /\ totals = <<>> /\ plans = <<>>

Spec == Init /\ [][Next]_vars

-----------------------------------------------------------------------------
Applies == pc \in {"ready", "checked"} /\ pc' = "done"

(* The condition of what follows: the transaction marks no row the plan was *)
(* not about.  The code does not enforce it: UPDATE events marks by block, *)
(* also a row older than --from-block, which the totals only show when     *)
(* nothing else makes up for it (an applied row above the cursor does),    *)
(* and a row that arrived late, below the cursor (repair-balances.js:50).  *)
MarksPlanned == Marked \ db.applied \subseteq pending

(* Beside a running follower, and however often a saved file is applied,    *)
(* holder_count stays the number of holder rows, and transfer_count the    *)
(* number of Transfers marked applied if no other row is marked than those *)
(* the plan was about.                                                     *)
CountsExact ==
    [][/\ HolderCountExact(db')
       /\ TransferCountExact(db) /\ (Applies => MarksPlanned) => TransferCountExact(db')]_vars

(* README.md:74: a token is rebuilt from its complete indexed ledger.  If   *)
(* no other row is marked than those the plan was about, its holders and   *)
(* supply then are the exact net of the rows marked applied, which the     *)
(* clamped ones before were not.                                           *)
LedgerExact ==
    [][Applies /\ tool # "chain" /\ MarksPlanned =>
         \A t \in DOMAIN plans :
            LET rows == OfToken(db'.applied, t)
            IN  /\ \A a \in Account : db'.holders[t][a] = Net(rows, t, a)
                /\ db'.supply[t] = NetSupply(rows, t)]_vars

(* README.md:80: the chain tool verifies the complete holder sum, so after  *)
(* its transaction the holder rows add up to the supply, the rows it did   *)
(* not write included.                                                     *)
HoldersSumToSupply ==
    [][Applies /\ tool = "chain" =>
         \A t \in DOMAIN plans :
            MapThenSumSet(LAMBDA a : db'.holders[t][a], Account) = db'.supply[t]]_vars
=============================================================================
