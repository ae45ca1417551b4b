------------------------------- MODULE Store --------------------------------
(***************************************************************************)
(* The SQLite store of db.js, as the indexer writes it.                    *)
(*                                                                         *)
(* The module has no variables.  A database is a record of type DB and     *)
(* every prepared statement or transaction of db.js is an operator from a  *)
(* database to a database, so that the same operators serve the committed  *)
(* contents and the contents an open transaction sees.                     *)
(*                                                                         *)
(* A log is one element of the constant Log.  Two stored rows with the     *)
(* same (tx, log_index) are the same element, so INSERT OR IGNORE is set   *)
(* union.  The columns kept are those some other part of the program       *)
(* decides on; display columns (ts, name, last_activity_block, ...) are    *)
(* left out.  Registry events have their own tables and their own module.  *)
(***************************************************************************)
EXTENDS Integers, FiniteSets

CONSTANTS
    Token,       \* token addresses the factory may deploy
    Account,     \* accounts that may hold a balance
    ZERO,        \* the zero address: mints come from it, burns go to it
    Role,        \* role hashes
    AdminRole,   \* the two hashes of ADMIN_ROLES
    Log          \* every log that any fork of the chain can contain

Kind == {"Created", "Transfer", "RoleGranted", "RoleRevoked", "Memo"}

IsTransfer(l) == l.kind = "Transfer"
IsRoleChange(l) == l.kind \in {"RoleGranted", "RoleRevoked"}

(***************************************************************************)
(* A log has a position (block, log index), a kind and its decoded         *)
(* arguments.  "Memo" stands for every token event without a side effect   *)
(* on another table.                                                       *)
(***************************************************************************)
ASSUME AccountAssumption ==
    /\ IsFiniteSet(Account)
    /\ ZERO \notin Account
    /\ AdminRole \subseteq Role

ASSUME LogAssumption ==
    /\ IsFiniteSet(Log)
    /\ \A l \in Log :
        /\ l.block \in Nat
        /\ l.index \in Nat
        /\ l.token \in Token
        /\ l.kind \in Kind
        /\ IsTransfer(l) => /\ l.from \in Account \cup {ZERO}
                            /\ l.to \in Account \cup {ZERO}
                            /\ l.amount \in Nat
        /\ IsRoleChange(l) => l.role \in Role /\ l.account \in Account

(* ORDER BY block, log_index. *)
Before(k, l) ==
    \/ k.block < l.block
    \/ k.block = l.block /\ k.index < l.index

(***************************************************************************)
(* The tables.  A holder row exists iff its balance is positive: db.js     *)
(* deletes the row in every case where it would reach zero.                *)
(***************************************************************************)
DB == [ tokens        : SUBSET Token,           \* tokens.address
        events        : SUBSET Log,             \* events, one per row
        applied       : SUBSET Log,             \* Transfers with applied = 1
        holders       : [Token -> [Account -> Nat]],
        supply        : [Token -> Int],         \* tokens.total_supply
        holderCount   : [Token -> Nat],         \* tokens.holder_count
        transferCount : [Token -> Nat],         \* tokens.transfer_count
        nonMint       : [Token -> BOOLEAN],     \* has_non_mint_transfer
        adminActive   : [Token -> BOOLEAN] ]    \* admin_active

EmptyDB == [ tokens        |-> {},
             events        |-> {},
             applied       |-> {},
             holders       |-> [t \in Token |-> [a \in Account |-> 0]],
             supply        |-> [t \in Token |-> 0],
             holderCount   |-> [t \in Token |-> 0],
             transferCount |-> [t \in Token |-> 0],
             nonMint       |-> [t \in Token |-> FALSE],
             adminActive   |-> [t \in Token |-> FALSE] ]

-----------------------------------------------------------------------------
(***************************************************************************)
(* Inserting rows.                                                         *)
(***************************************************************************)

(* INSERT OR IGNORE INTO tokens. *)
InsertToken(d, t) == [d EXCEPT !.tokens = @ \cup {t}]

(* currentAdminActive: some grant of an admin role that no later           *)
(* revocation of the same role and account follows.                        *)
CurrentAdmin(rows, t) ==
    \E g \in rows :
        /\ g.kind = "RoleGranted"
        /\ g.token = t
        /\ g.role \in AdminRole
        /\ ~ \E r \in rows :
                /\ r.kind = "RoleRevoked"
                /\ r.token = t
                /\ r.role = g.role
                /\ r.account = g.account
                /\ Before(g, r)

ChangesAdmin(l, t) == IsRoleChange(l) /\ l.token = t /\ l.role \in AdminRole
Moves(l, t)        == IsTransfer(l) /\ l.token = t /\ l.from # ZERO

(* BUG: the flag follows the event that happens to arrive last. *)
InsertRowsTrustingArrival(d, rows) ==
    LET new == rows \ d.events
    IN  [d EXCEPT !.events = @ \cup rows,
                  !.nonMint = [t \in Token |-> @[t] \/ \E l \in new : Moves(l, t)],
                  !.adminActive =
                      [t \in Token |->
                          IF \E l \in new : ChangesAdmin(l, t)
                          THEN \E l \in new : ChangesAdmin(l, t) /\ l.kind = "RoleGranted"
                          ELSE @[t]]]

(***************************************************************************)
(* A batch of insertEventAndMaybeApply(.., applyState = false) inside one  *)
(* transaction: the rows that are new are added with applied = 0 (a        *)
(* Transfer) or 1 (anything else), and markTokenEvent runs for each of     *)
(* them.  admin_active is recomputed from the stored rows after each admin *)
(* row, so after the batch it is CurrentAdmin of all rows.                 *)
(***************************************************************************)
InsertRows(d, rows) ==
    LET new == rows \ d.events
        all == rows \cup d.events
    IN  [d EXCEPT !.events = all,
                  !.nonMint = [t \in Token |-> @[t] \/ \E l \in new : Moves(l, t)],
                  !.adminActive =
                      [t \in Token |->
                          IF \E l \in new : ChangesAdmin(l, t)
                          THEN CurrentAdmin(all, t)
                          ELSE @[t]]]

-----------------------------------------------------------------------------
(***************************************************************************)
(* applyTransfer.                                                          *)
(***************************************************************************)

(* A zero amount or a transfer to oneself only counts as a transfer. *)
Effective(l) == l.amount # 0 /\ l.from # l.to

(* BUG: a debit larger than the stored balance leaves a negative row. *)
DebitUnclamped(bal, l) ==
    IF l.from = ZERO THEN bal ELSE [bal EXCEPT ![l.from] = @ - l.amount]

(* A debit that would reach zero or less deletes the row. *)
Debit(bal, l) ==
    IF l.from = ZERO THEN bal
    ELSE [bal EXCEPT ![l.from] = IF @ <= l.amount THEN 0 ELSE @ - l.amount]

Credit(bal, l) ==
    IF l.to = ZERO THEN bal ELSE [bal EXCEPT ![l.to] = @ + l.amount]

Closes(bal, l) == l.from # ZERO /\ bal[l.from] > 0 /\ bal[l.from] <= l.amount
Opens(bal, l)  == l.to # ZERO /\ bal[l.to] = 0

(* holder_count after the transfer, Math.max(0, holderCount) included. *)
HolderCount(n, bal, l) ==
    LET m == n - (IF Closes(bal, l) THEN 1 ELSE 0) + (IF Opens(bal, l) THEN 1 ELSE 0)
    IN  IF m < 0 THEN 0 ELSE m

Supply(s, l) ==
    s + (IF l.from = ZERO THEN l.amount ELSE 0) - (IF l.to = ZERO THEN l.amount ELSE 0)

(* BUG: the guard on the recipient's old balance is gone. *)
ApplyTransferCountingCredits(d, l) ==
    LET t == l.token
        n == [d EXCEPT !.transferCount[t] = @ + 1]
    IN  IF ~Effective(l) THEN n
        ELSE [n EXCEPT !.holders[t] = Credit(Debit(@, l), l),
                       !.holderCount[t] = @ + (IF l.to = ZERO THEN 0 ELSE 1)
                                            - (IF Closes(d.holders[t], l) THEN 1 ELSE 0),
                       !.supply[t] = Supply(@, l)]

ApplyTransfer(d, l) ==
    LET t == l.token
        n == [d EXCEPT !.transferCount[t] = @ + 1]
    IN  IF ~Effective(l) THEN n
        ELSE [n EXCEPT !.holders[t] = Credit(Debit(@, l), l),
                       !.holderCount[t] = HolderCount(@, d.holders[t], l),
                       !.supply[t] = Supply(@, l)]

(* BUG: the row is not marked applied, so the next pass applies it again. *)
InsertTransferAndApplyUnmarked(d, l) ==
    ApplyTransfer(InsertRows(d, {l}), l)

(* insertTransferEventAndApply: insert if absent, apply once, mark. *)
InsertTransferAndApply(d, l) ==
    LET e == InsertRows(d, {l})
    IN  IF l \in d.applied THEN e
        ELSE [ApplyTransfer(e, l) EXCEPT !.applied = @ \cup {l}]

(* The rows applyStoredTransfers(from, to) selects. *)
Unapplied(d, from, to) ==
    {l \in d.events : IsTransfer(l) /\ l.block \in from .. to /\ l \notin d.applied}

-----------------------------------------------------------------------------
(***************************************************************************)
(* What the tables must say about themselves, whatever order their rows    *)
(* arrived in.                                                             *)
(***************************************************************************)

(* The number of holders equals the number of holder rows. *)
HolderCountExact(d) ==
    \A t \in Token : d.holderCount[t] = Cardinality({a \in Account : d.holders[t][a] > 0})

(* Every applied Transfer is stored, and counted exactly once. *)
TransferCountExact(d) ==
    /\ d.applied \subseteq {l \in d.events : IsTransfer(l)}
    /\ \A t \in Token : d.transferCount[t] = Cardinality({l \in d.applied : l.token = t})

(* The changes of one role of one account of one token. *)
RoleHistory(d, t, r, a) ==
    {l \in d.events : IsRoleChange(l) /\ l.token = t /\ l.role = r /\ l.account = a}

(* admin_active says whether the newest change of some admin role of some  *)
(* account is a grant, in chain order and not in the order of arrival.     *)
AdminExact(d) ==
    \A t \in Token :
        d.adminActive[t] <=>
            \E r \in AdminRole, a \in Account :
                \E g \in RoleHistory(d, t, r, a) :
                    /\ g.kind = "RoleGranted"
                    /\ \A l \in RoleHistory(d, t, r, a) : l = g \/ Before(l, g)

NonMintExact(d) ==
    \A t \in Token : d.nonMint[t] <=> \E l \in d.events : Moves(l, t)
=============================================================================
