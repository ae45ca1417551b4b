--------------------------- MODULE MCAccountTypes ---------------------------
(* One token with an admin that becomes a smart account, and back, and may  *)
(* lose its role, and a plain account that becomes an admin later.         *)
EXTENDS AccountTypes, TLC

CONSTANTS T, a, b, zero, admin, other

RoleLog(blk, i, k, x) ==
    [block |-> blk, index |-> i, token |-> T, kind |-> k, role |-> admin, account |-> x]

MCLog == { RoleLog(1, 0, "RoleGranted", a), RoleLog(2, 0, "RoleGranted", b),
           RoleLog(2, 1, "RoleRevoked", a) }
MCCodes == (a :> {"EOA", "SMART_EOA"}) @@ (b :> {"EOA"})
=============================================================================
