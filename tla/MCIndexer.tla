----------------------------- MODULE MCIndexer ------------------------------
(***************************************************************************)
(* A small network for the Indexer: two tokens, two accounts, two forks    *)
(* that part after block 2.  The logs cover a mint, a transfer that        *)
(* empties its sender, one to oneself, a burn, a grant and a revocation of *)
(* an admin role within one block, and a token deployed late.              *)
(***************************************************************************)
EXTENDS IndexerLedger, TLC

CONSTANTS t1, t2, a, b, zero, admin, minter, p1, p2

Create(blk, i, t) == [block |-> blk, index |-> i, token |-> t, kind |-> "Created"]
Move(blk, i, t, x, y, n) ==
    [block |-> blk, index |-> i, token |-> t, kind |-> "Transfer",
     from |-> x, to |-> y, amount |-> n]
RoleLog(blk, i, t, k, r, x) ==
    [block |-> blk, index |-> i, token |-> t, kind |-> k, role |-> r, account |-> x]

Common == { Create(1, 0, t1),
            Move(1, 1, t1, zero, a, 2),
            RoleLog(1, 2, t1, "RoleGranted", admin, a),
            Move(2, 0, t1, a, b, 2),
            Move(2, 1, t1, b, b, 1),
            RoleLog(2, 2, t1, "RoleGranted", admin, b),
            RoleLog(2, 3, t1, "RoleRevoked", admin, b) }

ForkA == Common \cup { RoleLog(3, 0, t1, "RoleRevoked", admin, a),
                       Create(3, 1, t2),
                       Move(3, 2, t2, zero, b, 1),
                       Move(4, 0, t1, b, zero, 1) }

ForkB == Common \cup { Move(3, 0, t1, b, a, 1),
                       Create(4, 0, t2) }

(* One short chain, for runs with two processes. *)
Short == { Create(1, 0, t1),
           Move(1, 1, t1, zero, a, 2),
           RoleLog(1, 2, t1, "RoleGranted", admin, a),
           Move(2, 0, t1, a, b, 2),
           Create(2, 1, t2),
           RoleLog(3, 0, t1, "RoleRevoked", admin, a),
           Move(3, 1, t1, b, a, 1),
           Move(3, 2, t2, zero, b, 1) }
MCShortFork == {Short}
MCShortLog == Short

MCFork == {ForkA, ForkB}
MCLog == ForkA \cup ForkB
MCLegacy == {Unset, 2}
MCNew == {Unset}
MCMode1 == [p \in Proc |-> "follow"]
MCMode2 == (p1 :> "follow") @@ (p2 :> "once")
=============================================================================
