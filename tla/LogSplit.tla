------------------------------ MODULE LogSplit ------------------------------
(***************************************************************************)
(* getAddressScopedLogs and getTopicScopedLogs of indexer.js: a query that *)
(* is refused as too large is halved, by blocks while there are several,   *)
(* then (if it names addresses) by addresses, and the answers are joined.  *)
(***************************************************************************)
EXTENDS Integers, Sequences, FiniteSets

CONSTANTS
    Log,           \* logs that may exist: [block, address, index]
    Addresses,     \* the addresses of the query, a sequence
    From, To,      \* its blocks
    Max,           \* an endpoint refuses an answer with more logs
    Span,          \* ... or a query over more blocks
    Full           \* rpc.js refuses an answer with as many, if from < to: 10000

Listed(addresses) == {addresses[i] : i \in DOMAIN addresses}

ASSUME SplitAssumption ==
    /\ IsFiniteSet(Log)
    /\ Addresses \in Seq(Listed(Addresses))
    /\ {From, To, Max} \subseteq Nat /\ From <= To
    /\ {Span, Full} \subseteq Nat \ {0}

VARIABLES
    chain,     \* the logs that exist
    query,     \* the last query: "none", "addresses" or "topics"
    answer     \* its logs, or RangeError

splitVars == <<chain, query, answer>>

RangeError == [refused |-> TRUE, logs |-> {}]
All(logs)  == [refused |-> FALSE, logs |-> logs]

InRange(from, to) == {l \in chain : l.block \in from .. to}
Scoped(addresses, from, to) == {l \in InRange(from, to) : l.address \in Listed(addresses)}

(* provider.getLogs, when all is what matches. *)
ReplyTo(all, from, to) ==
    IF \/ Cardinality(all) > Max
       \/ to - from + 1 > Span
       \/ Cardinality(all) >= Full /\ from < to
    THEN RangeError ELSE All(all)

(* Promise.all, then left.concat(right). *)
Join(left, right) ==
    IF left.refused \/ right.refused THEN RangeError ELSE All(left.logs \cup right.logs)

(***************************************************************************)
(* The queries a query can be split into.  mid is the last block of the    *)
(* left half; an odd address goes to the second half.                      *)
(***************************************************************************)
Blocks == From .. To
Lists  == UNION {[1 .. n -> Listed(Addresses)] : n \in 0 .. Len(Addresses)}

AddressQuery == [addresses : Lists, from : Blocks, to : Blocks]
TopicQuery   == [from : Blocks, to : Blocks]

Mid(q) == (q.from + q.to) \div 2
LowerHalf(q) == [q EXCEPT !.to = Mid(q)]
UpperHalf(q) == [q EXCEPT !.from = Mid(q) + 1]

(* BUG: an odd address is dropped. *)
SecondHalfEven(q) ==
    LET s == q.addresses
    IN  [q EXCEPT !.addresses = SubSeq(s, Len(s) \div 2 + 1, 2 * (Len(s) \div 2))]

FirstHalf(q)  == [q EXCEPT !.addresses = SubSeq(@, 1, Len(@) \div 2)]
SecondHalf(q) == [q EXCEPT !.addresses = SubSeq(@, Len(@) \div 2 + 1, Len(@))]

AddressReply(q) == ReplyTo(Scoped(q.addresses, q.from, q.to), q.from, q.to)
TopicReply(q)   == ReplyTo(InRange(q.from, q.to), q.from, q.to)

AddressLogs[q \in AddressQuery] ==
    IF ~AddressReply(q).refused THEN AddressReply(q)
    ELSE IF q.from < q.to THEN Join(AddressLogs[LowerHalf(q)], AddressLogs[UpperHalf(q)])
    ELSE IF Len(q.addresses) > 1 THEN Join(AddressLogs[FirstHalf(q)], AddressLogs[SecondHalf(q)])
    ELSE RangeError

(* A topic query covers every emitter, so one block cannot be divided. *)
TopicLogs[q \in TopicQuery] ==
    IF ~TopicReply(q).refused THEN TopicReply(q)
    ELSE IF q.from < q.to THEN Join(TopicLogs[LowerHalf(q)], TopicLogs[UpperHalf(q)])
    ELSE RangeError

-----------------------------------------------------------------------------
AskAddresses ==
    /\ query' = "addresses"
    /\ answer' = AddressLogs[[addresses |-> Addresses, from |-> From, to |-> To]]
    /\ UNCHANGED chain

AskTopics ==
    /\ query' = "topics"
    /\ answer' = TopicLogs[[from |-> From, to |-> To]]
    /\ UNCHANGED chain

SplitInit == chain \in SUBSET Log /\ query = "none" /\ answer = All({})
SplitNext == AskAddresses \/ AskTopics

-----------------------------------------------------------------------------
AddressesExact ==
    query = "addresses" =>
        LET hot == \E a \in Listed(Addresses), b \in From .. To :
                      Cardinality(Scoped(<<a>>, b, b)) > Max
        IN  answer = IF hot THEN RangeError ELSE All(Scoped(Addresses, From, To))

TopicsExact ==
    query = "topics" =>
        LET hot == \E b \in From .. To : Cardinality(InRange(b, b)) > Max
        IN  answer = IF hot THEN RangeError ELSE All(InRange(From, To))

(* A query by addresses is answered in full unless a single address has     *)
(* more logs in a single block than an endpoint will return, one by topics *)
(* unless a single block has: no half is lost, whatever the order in which *)
(* the limits bite.  A query that cannot be answered fails as a whole, so  *)
(* that no cursor moves past its range (README.md:44).                     *)
AnswersExact == AddressesExact /\ TopicsExact
=============================================================================
