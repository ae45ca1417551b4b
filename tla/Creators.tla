------------------------------ MODULE Creators ------------------------------
(***************************************************************************)
(* Who deployed a token: txFrom and fillMissingCreators of indexer.js, in  *)
(* the follower, which fills a few in each tick, and in the run with       *)
(* --fill-creators, which fills batch after batch and ends.                *)
(***************************************************************************)
EXTENDS Integers, FiniteSets

CONSTANTS
    Token,
    Block,        \* Block[t]: where t was created
    Sure,         \* tokens whose transaction every endpoint returns
    Flaky,        \* tokens whose transaction is returned now and then
    Limit         \* rows per batch

ASSUME CreatorsAssumption ==
    /\ IsFiniteSet(Token) /\ Block \in [Token -> Nat]
    /\ Sure \cap Flaky = {} /\ Sure \cup Flaky \subseteq Token
    /\ Limit \in Nat \ {0}
    /\ \A s, t \in Token : Block[s] = Block[t] => s = t

VARIABLES
    listed,    \* rows of tokens
    creator,   \* those whose creator is set
    nulls,     \* transactions txFromCache knows no sender of
    batch,     \* rows selected and not looked up yet
    found,     \* senders found in this batch: the result of fillMissingCreators
    pc         \* "down", "ready", "batch", with --fill-creators "fill", "ended"

creatorVars == <<listed, creator, nulls, batch, found, pc>>

Missing == listed \ creator

(* The rows of S that come before t in the order block DESC. *)
Above(S, t) == {s \in S : Block[s] > Block[t]}

(* The first Limit rows of S in that order. *)
FirstRows(S) == {t \in S : Cardinality(Above(S, t)) < Limit}

(* BUG: LIMIT is applied before the rows that have a creator are left out. *)
SelectFirst == FirstRows(listed) \ creator

(* tokensMissingCreator *)
Select == FirstRows(Missing)

(* getTransaction(t) may return the transaction; it may fail or return null. *)
Found(t)   == t \notin nulls /\ t \in Sure \cup Flaky
NothingOf(t) == t \in nulls \/ t \notin Sure

(* txFrom(t), and the UPDATE if it returned a sender. *)
TxFrom(t) ==
    \/ Found(t) /\ creator' = creator \cup {t} /\ UNCHANGED nulls
    \/ NothingOf(t) /\ nulls' = nulls \cup {t} /\ UNCHANGED creator

(* indexFactoryRange inserts a token, with or without its creator. *)
List ==
    /\ pc = "ready"
    /\ \E t \in Token \ listed : listed' = listed \cup {t} /\ TxFrom(t)
    /\ UNCHANGED <<batch, found, pc>>

Start ==
    /\ pc \in {"down", "ended"}
    /\ pc' = "ready"
    /\ UNCHANGED <<listed, creator, nulls, batch, found>>

(* node indexer.js --fill-creators *)
StartFill ==
    /\ pc \in {"down", "ended"}
    /\ batch' = Select /\ found' = 0 /\ nulls' = {} /\ pc' = "fill"
    /\ UNCHANGED <<listed, creator>>

(* fillMissingCreators(limit) in a tick *)
Begin ==
    /\ pc = "ready"
    /\ batch' = Select /\ found' = 0 /\ pc' = "batch"
    /\ UNCHANGED <<listed, creator, nulls>>

LookUp ==
    /\ pc \in {"batch", "fill"}
    /\ \E t \in batch :
        /\ \A s \in batch : Block[s] <= Block[t]
        /\ batch' = batch \ {t}
        /\ TxFrom(t)
        /\ found' = IF creator' = creator THEN found ELSE found + 1
    /\ UNCHANGED <<listed, pc>>

(* The tick goes on and leads to the next one. *)
End ==
    /\ pc = "batch" /\ batch = {}
    /\ pc' = "ready"
    /\ UNCHANGED <<listed, creator, nulls, batch, found>>

(* BUG: a batch that is not filled completely is taken for the last one. *)
GoesOnIfFull == found = Limit

(* while (await fillMissingCreators(limit)) {} *)
GoesOn == found > 0

NextFill ==
    /\ pc = "fill" /\ batch = {}
    /\ IF GoesOn
       THEN batch' = Select /\ found' = 0 /\ UNCHANGED <<nulls, pc>>
       ELSE pc' = "ended" /\ nulls' = {} /\ UNCHANGED <<batch, found>>
    /\ UNCHANGED <<listed, creator>>

(* The cache holds 4096 transactions and drops the oldest. *)
Forget ==
    /\ \E t \in nulls : nulls' = nulls \ {t}
    /\ UNCHANGED <<listed, creator, batch, found, pc>>

Crash ==
    /\ pc \in {"ready", "batch", "fill"}
    /\ nulls' = {} /\ batch' = {} /\ found' = 0 /\ pc' = "down"
    /\ UNCHANGED <<listed, creator>>

Step == Start \/ Begin \/ LookUp \/ End \/ NextFill
CreatorsNext == List \/ Step \/ StartFill \/ Forget \/ Crash

(* A database indexed before creators were looked up, in part or not at all. *)
CreatorsInit ==
    /\ listed \in SUBSET Token
    /\ creator \in SUBSET listed
    /\ nulls = {} /\ batch = {} /\ found = 0
    /\ pc = "down"

-----------------------------------------------------------------------------
(* Rows without an answer starve an older one only if they are as many as  *)
(* a batch is long: every creator an endpoint can tell that has fewer of   *)
(* them above it is filled in while the follower goes on, through crashes  *)
(* and whatever else is listed above it.                                   *)
CreatorsFilled ==
    \A t \in Sure :
        Cardinality(Above(Token \ Sure, t)) < Limit =>
            ((<>[](pc # "down") /\ <>(t \in listed)) => <>(t \in creator))

(* A run with --fill-creators goes on to the last batch it can fill: a      *)
(* creator that an endpoint can tell is left behind only below a whole     *)
(* batch of rows without an answer (while (await fillMissingCreators)).    *)
FillComplete ==
    pc = "ended" =>
        \A t \in Sure \cap Missing : Cardinality(Above(Missing \ Sure, t)) >= Limit

(* README.md:29 offers --fill-creators "to backfill deployers on an         *)
(* existing database": when it ends, no creator that an endpoint can tell  *)
(* is missing.  It does not hold: a batch that finds nothing is taken for  *)
(* the last one, and rows without an answer may fill a batch.              *)
DeployersBackfilled ==
    pc = "ended" => Sure \cap listed \subseteq creator
=============================================================================
