------------------------------ MODULE MCRepair ------------------------------
EXTENDS Repair

CONSTANTS A, B, a, b

T(t, blk, i, f, to, n) ==
    [token |-> t, block |-> blk, index |-> i, kind |-> "Transfer",
     from |-> f, to |-> to, amount |-> n]

(* Two tokens; a runs empty in block 2 and token B is burned in block 3.    *)
(* With the rows of A in blocks 1 and 4 applied and the cursor at 3, one   *)
(* row left out below --from-block makes up for the one applied above.     *)
MCLog == { T(A, 1, 0, ZERO, a, 2), T(A, 2, 0, a, b, 2), T(A, 3, 0, b, a, 1), T(A, 4, 0, a, b, 1),
           T(B, 2, 1, ZERO, b, 1), T(B, 3, 1, b, ZERO, 1) }
=============================================================================
