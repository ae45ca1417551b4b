---------------------------- MODULE PublicLedger ----------------------------
(***************************************************************************)
(* What the explorer promises its readers about balances, without cursors, *)
(* processes, caches or transactions: the ledger it shows is the exact     *)
(* outcome of the Transfers of some confirmed prefix of the chain, whole   *)
(* blocks at a time, and the prefix only grows.                            *)
(***************************************************************************)
EXTENDS Integers, FiniteSetsExt

CONSTANTS Token, Account, ZERO, Fork, MaxBlock, Confirmations

VARIABLES
    chain, head,   \* the network
    counted,       \* the Transfers the ledger accounts for
    balance,       \* balance[t][a]
    supply         \* supply[t]

vars == <<chain, head, counted, balance, supply>>

Transfers(t, S) == {l \in S : l.kind = "Transfer" /\ l.token = t}
Total(S)        == MapThenSumSet(LAMBDA l : l.amount, S)

Received(S, t, a) == Total({l \in Transfers(t, S) : l.to = a})
Sent(S, t, a)     == Total({l \in Transfers(t, S) : l.from = a})

(* The balances and supplies that the Transfers in S amount to. *)
Balances(S) == [t \in Token |-> [a \in Account |-> Received(S, t, a) - Sent(S, t, a)]]
Supplies(S) == [t \in Token |-> Sent(S, t, ZERO) - Received(S, t, ZERO)]

UpTo(b) == {l \in chain : l.kind = "Transfer" /\ l.block <= b}

Init ==
    /\ chain \in Fork
    /\ head \in 0 .. MaxBlock
    /\ counted = {}
    /\ balance = Balances({})
    /\ supply = Supplies({})

(* The network moves; confirmed blocks stay. *)
Network ==
    /\ head' \in head .. MaxBlock
    /\ chain' \in Fork
    /\ {l \in chain' : l.block <= head - Confirmations}
         = {l \in chain : l.block <= head - Confirmations}
    /\ UNCHANGED <<counted, balance, supply>>

(* The explorer accounts for more confirmed blocks. *)
Post ==
    /\ \E b \in 0 .. (head - Confirmations) : counted' = UpTo(b)
    /\ counted \subseteq counted'
    /\ balance' = Balances(counted')
    /\ supply' = Supplies(counted')
    /\ UNCHANGED <<chain, head>>

Next == Network \/ Post

Spec == Init /\ [][Next]_vars
=============================================================================
