---------------------------- MODULE TokenHistory ----------------------------
(***************************************************************************)
(* What the API reads: the stored events of one token and the stored       *)
(* events of the PolicyRegistry.  Several streams of the indexer store     *)
(* them, the newest often before older ones, so rows arrive in any order   *)
(* and a request may come at any moment.                                   *)
(***************************************************************************)
EXTENDS Integers, Sequences, FiniteSets, Folds

CONSTANTS
    Histories,    \* sets of events; one of them is what the chain holds
    NoPolicy,     \* policy id 0, ALWAYS_ALLOW
    AlwaysBlock   \* ALWAYS_BLOCK_ID

ASSUME HistoriesAssumption ==
    \A h \in Histories :
        /\ IsFiniteSet(h)
        /\ \A l \in h : l.block \in Nat /\ l.index \in Nat
        /\ \A k, l \in h : k = l \/ k.block # l.block \/ k.index # l.index

VARIABLES
    chain,    \* the events on the chain
    rows      \* those in the tables events and policy_events

(* ORDER BY block, log_index *)
Before(k, l) == k.block < l.block \/ (k.block = l.block /\ k.index < l.index)

Last(S) == CHOOSE l \in S : \A k \in S : ~Before(l, k)

RegistryKind == {"PolicyCreated", "CompositePolicyUpdated"}
IsRegistry(l) == l.kind \in RegistryKind

(* ORDER BY block ASC, log_index ASC: the newest row is the last to count.  *)
Replay(S, op(_, _), base) ==
    MapThenFoldSet(LAMBDA l, acc : op(acc, l), base, LAMBDA l : l, Last, S)

(* WHERE kind IN (..) *)
Of(kinds) == {l \in rows : l.kind \in kinds}

Store ==
    /\ \E l \in chain \ rows : rows' = rows \cup {l}
    /\ UNCHANGED chain

Empty == chain \in Histories /\ rows = {}
=============================================================================
