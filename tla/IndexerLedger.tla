--------------------------- MODULE IndexerLedger ----------------------------
(***************************************************************************)
(* The indexer implements the public ledger: the applied rows are what it  *)
(* has counted, the holders table and tokens.total_supply are its books.   *)
(***************************************************************************)
EXTENDS Indexer

Ledger == INSTANCE PublicLedger
            WITH counted <- db.applied, balance <- db.holders, supply <- db.supply

(***************************************************************************)
(* What a token contract guarantees: a Transfer that would overdraw its    *)
(* sender reverts and leaves no log.  applyTransfer clamps at zero all the *)
(* same, and the books are exact because the clamp never has work to do.   *)
(***************************************************************************)
Earlier(l, f) == {k \in f : IsTransfer(k) /\ Before(k, l)}

ASSUME SolvencyAssumption ==
    \A f \in Fork : \A l \in f :
        IsTransfer(l) /\ l.from # ZERO =>
            l.amount <= Ledger!Balances(Earlier(l, f))[l.token][l.from]

(* Every behaviour of the indexer processes is, seen through the applied    *)
(* rows, a behaviour of the ledger: no crash, retry, replay, live row,     *)
(* second process or lagging endpoint makes a balance or a supply differ   *)
(* from the net of a confirmed prefix.  For endpoints that answer fully.   *)
ImplementsLedger == Ledger!Spec
=============================================================================
