----------------------------- MODULE MCNetwork -----------------------------
(***************************************************************************)
(* What goes over the network, one part in a behaviour: the calls of one   *)
(* provider, the query that is split, the creators of tokens.  The parts   *)
(* share no state, and `part' says which of them moves.                    *)
(***************************************************************************)
EXTENDS RpcTransport, LogSplit, Creators, TLC

VARIABLE part

allVars == <<part, vars, splitVars, creatorVars>>

(* Three endpoints: a primary that throttles, a backup on another chain    *)
(* and a dependable backup.  Two callers read logs and one reads blocks.   *)
CONSTANTS e1, e2, e3, c1, c2, c3, logs, block

MCAsks == (c1 :> {logs}) @@ (c2 :> {logs}) @@ (c3 :> {block})
MCPosition == (e1 :> 1) @@ (e2 :> 2) @@ (e3 :> 3)

(* Three addresses, four blocks, up to two logs of an address in a block.  *)
CONSTANTS a, b, c

Cell(blk, addr, n) == [block |-> blk, address |-> addr, index |-> n]
MCLog == { Cell(1, a, 0), Cell(1, a, 1), Cell(1, b, 2), Cell(1, c, 3), Cell(1, c, 4),
           Cell(2, b, 0), Cell(3, a, 0), Cell(3, c, 1), Cell(3, c, 2),
           Cell(4, a, 0), Cell(4, c, 1) }
MCAddresses == <<a, b, c>>

(* Five tokens: two rows without an answer, one of them the newest.        *)
CONSTANTS t1, t2, t3, t4, t5
MCBlock == (t1 :> 1) @@ (t2 :> 2) @@ (t3 :> 3) @@ (t4 :> 4) @@ (t5 :> 5)

Calling(A)  == part = "calls"    /\ A /\ UNCHANGED <<part, splitVars, creatorVars>>
Querying(A) == part = "query"    /\ A /\ UNCHANGED <<part, vars, creatorVars>>
Creating(A) == part = "creators" /\ A /\ UNCHANGED <<part, vars, splitVars>>

MCInit ==
    /\ part \in {"calls", "query", "creators"}
    /\ Init
    /\ SplitInit /\ (part # "query" => chain = {})
    /\ CreatorsInit /\ (part # "creators" => listed = {})

MCNext == Calling(Next) \/ Querying(SplitNext) \/ Creating(CreatorsNext)

(* Every request settles, and the service is restarted for ever.           *)
MCSpec ==
    /\ MCInit /\ [][MCNext]_allVars
    /\ \A k \in Call : WF_allVars(Calling(Progress(k)))
    /\ WF_allVars(Creating(Step))
=============================================================================
