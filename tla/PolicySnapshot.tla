--------------------------- MODULE PolicySnapshot ---------------------------
(***************************************************************************)
(* policySnapshot of policy.js: the policy of every scope of a token, with *)
(* the type and the children that the registry tables give it.             *)
(***************************************************************************)
EXTENDS TokenHistory

CONSTANTS
    Policy,    \* ids of policies, whether the registry knows them yet or not
    Missing    \* what a Map has for a key that was never set

Builtin == {NoPolicy, AlwaysBlock}

PolicyType == {"BLOCKLIST", "ALLOWLIST", "UNION", "INTERSECT"}

ASSUME PolicyAssumption ==
    /\ IsFiniteSet(Policy) /\ Builtin \subseteq Policy
    /\ \A h \in Histories : \A l \in h :
        /\ l.kind \in RegistryKind \cup {"PolicyUpdated"} => l.policy \in Policy
        /\ l.kind = "PolicyCreated" => l.type \in PolicyType
        /\ l.kind = "CompositePolicyUpdated" => l.children \in Seq(Policy)
        /\ \A k \in h : k.kind = "PolicyCreated" /\ l.kind = "PolicyCreated" /\ k.policy = l.policy => k = l

(* policy_state: the type a policy was created with, and the children its   *)
(* newest stored update gives it, in whatever order updates were stored.   *)
Creations(p)    == {l \in Of({"PolicyCreated"}) : l.policy = p}
Compositions(p) == {l \in Of({"CompositePolicyUpdated"}) : l.policy = p}

Recorded(p) ==
    IF Creations(p) = {} THEN [type |-> "unknown", source |-> "not_indexed"]
    ELSE [type |-> Last(Creations(p)).type, source |-> "indexed"]

IsComposite(p) == p \notin Builtin /\ Compositions(p) # {}
ChildrenOf(p)  == IF IsComposite(p) THEN Last(Compositions(p)).children ELSE <<>>

-----------------------------------------------------------------------------
(* What is known of a policy without its children. *)
BuiltinRecord(p) ==
    [type |-> IF p = NoPolicy THEN "BLOCKLIST" ELSE "ALLOWLIST", source |-> "builtin"]

Known(p) == IF p \in Builtin THEN BuiltinRecord(p) ELSE Recorded(p)

Knowledge == [type : PolicyType \cup {"unknown"}, source : {"builtin", "indexed", "not_indexed"}]
Child     == [policy : Policy, known : Knowledge]
Detail    == [known : Knowledge, composite : BOOLEAN, children : Seq(Child)]

ASSUME MissingAssumption == Missing \notin Detail

(* The Map `resolved`. *)
Table == [Policy -> Detail \cup {Missing}]
Found(table) == {p \in Policy : table[p] # Missing}

(* A policy enters the table before its children do, which is what ends     *)
(* the recursion on a cycle; its type and source are known at once.        *)
Entry(p) == [known |-> Known(p), composite |-> FALSE, children |-> <<>>]

(* BUG: a composite counts as unknown as long as its children are resolved. *)
ShownWhenDone(table, c) ==
    [ policy |-> c,
      known  |-> IF IsComposite(c) /\ ~table[c].composite
                 THEN [type |-> "unknown", source |-> "not_indexed"] ELSE table[c].known ]

(* What a composite shows of a child. *)
ShownAs(table, c) == [policy |-> c, known |-> table[c].known]

Completed(table, p) ==
    IF IsComposite(p)
    THEN [ known     |-> table[p].known,
           composite |-> TRUE,
           children  |-> [i \in DOMAIN ChildrenOf(p) |-> ShownAs(table, ChildrenOf(p)[i])] ]
    ELSE table[p]

(* resolve for one policy of a list after the other: the table after it.   *)
Task == [table : Table, list : Seq(Policy)]

Resolve[t \in Task] ==
    IF t.list = <<>> THEN t.table
    ELSE LET policy == Head(t.list)
             rest(table) == Resolve[[table |-> table, list |-> Tail(t.list)]]
             inner == Resolve[[table |-> [t.table EXCEPT ![policy] = Entry(policy)],
                               list  |-> ChildrenOf(policy)]]
         IN  IF policy \in Found(t.table) THEN rest(t.table)
             ELSE rest([inner EXCEPT ![policy] = Completed(inner, policy)])

-----------------------------------------------------------------------------
History == Of({"PolicyUpdated"})

(* BUG: only the newest update of the token counts. *)
CurrentScopesNewest == IF History = {} THEN {} ELSE {Last(History)}

(* byScope: the last update of each scope. *)
OfScope(s)    == {u \in History : u.scope = s}
CurrentScopes == {Last(OfScope(s)) : s \in {u.scope : u \in History}}

Bound(u) == u.policy # NoPolicy
HasPolicy == \E u \in CurrentScopes : Bound(u)

ResolveUpdate(table, u) == Resolve[[table |-> table, list |-> <<u.policy>>]]
ResolveScope(table, u)  == ResolveUpdate(table, Last(OfScope(u.scope)))

(* The scopes are resolved one after another, in the order of their first   *)
(* updates, and then every policy the token ever named, with one table.    *)
Openings == {u \in History : \A v \in OfScope(u.scope) : ~Before(v, u)}
Resolved ==
    Replay({u \in History : Bound(u)}, ResolveUpdate, Replay(Openings, ResolveScope, [p \in Policy |-> Missing]))

-----------------------------------------------------------------------------
(* Every policy the snapshot shows carries the type and the source of its   *)
(* registry record, and exactly its newest stored children, each with the  *)
(* type and source of its own record, through shared children, cycles of   *)
(* composites and records that are not indexed yet.                        *)
DetailsExact ==
    LET table == Resolved
    IN  \A p \in Found(table) :
            /\ table[p].known = Known(p)
            /\ table[p].composite = IsComposite(p)
            /\ Len(table[p].children) = Len(ChildrenOf(p))
            /\ \A i \in DOMAIN ChildrenOf(p) :
                  table[p].children[i] = [policy |-> ChildrenOf(p)[i], known |-> Known(ChildrenOf(p)[i])]

(* COBALT.md:41: unbinding one scope does not hide policies still bound to  *)
(* other scopes: the token has a policy iff some scope's newest update     *)
(* names one, and the snapshot resolves every policy so named.             *)
NoScopeHidden ==
    LET scopes    == {u.scope : u \in History}
        newest(s) == Last({u \in History : u.scope = s})
    IN  /\ HasPolicy <=> \E s \in scopes : Bound(newest(s))
        /\ \A s \in scopes : newest(s).policy \in Found(Resolved)
=============================================================================
