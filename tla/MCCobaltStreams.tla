-------------------------- MODULE MCCobaltStreams ---------------------------
(* Four blocks, one composite policy updated twice in different ranges and *)
(* one token that seizes in the block it was deployed in and later.        *)
EXTENDS CobaltStreams, TLC

CONSTANTS p1, p2, pol, tok

Registry(blk, i, k) == [block |-> blk, index |-> i, kind |-> k, policy |-> pol]
Seized(blk, i)      == [block |-> blk, index |-> i, kind |-> "Seized", token |-> tok]

MCLog == { Registry(2, 0, "PolicyCreated"),
           Registry(2, 1, "CompositePolicyUpdated"),
           Registry(3, 0, "CompositePolicyUpdated"),
           Seized(3, 1), Seized(4, 0) }

MCDeployed == (tok :> 3)
MCBackfill == (p1 :> "follow") @@ (p2 :> "backfill")
=============================================================================
