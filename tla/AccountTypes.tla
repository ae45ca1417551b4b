---------------------------- MODULE AccountTypes ----------------------------
(***************************************************************************)
(* What the web server says of the kinds of accounts (server.js): the      *)
(* look-up accountTypeFor with its two caches, the warm-up of the accounts *)
(* that administer tokens, and the flags admin_eoa, admin_smart_eoa and    *)
(* admin_contract by which the token list is filtered.                     *)
(*                                                                         *)
(* Node.js runs one piece of JavaScript at a time, so between two awaits   *)
(* nothing else in the server happens; every SQLite statement is a         *)
(* transaction of its own, so the indexer may store a row between any two. *)
(* The clock appears as the expiry of cache entries.                       *)
(***************************************************************************)
EXTENDS Store

CONSTANTS
    Codes,         \* Codes[a]: the types account a has at one time or another
    Visited,       \* accounts somebody asks for at /api/account-types
    WarmLimit,     \* ADMIN_TYPE_INTERVAL_WARM_LIMIT
    Concurrency,   \* look-ups of the warm-up at a time: 8
    Others         \* names for whom else look-ups are under way: visitors, and
                   \* warm-ups that failed before all answers of a batch came.
                   \* Their number bounds the look-ups of one account at a time

Type == {"EOA", "SMART_EOA", "CONTRACT"}

ASSUME AccountTypesAssumption ==
    /\ Codes \in [Account -> (SUBSET Type) \ {{}}]
    /\ Visited \subseteq Account
    /\ {WarmLimit, Concurrency} \subseteq Nat \ {0}
    /\ Others # {} /\ "warm" \notin Others

VARIABLES
    code,      \* code[a]: what the chain says the type of a is
    db,        \* the store; the indexer adds role changes to it
    row,       \* row[a]: the row of account_types, or NoRow
    flags,     \* flags[t]: the three flag columns of token t, a set of types
    memo,      \* memo[a]: accountTypeCache, "none" also for an expired entry
    look,      \* look[by, a]: the look-up of a for the warm-up or for another
    left,      \* accounts the running warm-up has not come to
    refresh    \* the tokens whose flags the server is about to rewrite

vars == <<code, db, row, flags, memo, look, left, refresh>>

NoRow == [type |-> "none", fresh |-> FALSE]
Rows  == {NoRow} \cup [type : Type, fresh : BOOLEAN]   \* younger than an hour?

By    == {"warm"} \cup Others
Looks == By \X Account
NoRefresh == [by |-> "warm", tokens |-> {}]

(* Nothing runs: the server is at an await or waits for an event. *)
Quiet == refresh.tokens = {}

(* adminTypeWarmRunning *)
Warming == left # {} \/ \E a \in Account : look["warm", a] # "none"

(* The accounts with an admin role of t that has not been revoked since. *)
Admins(t) ==
    {g.account : g \in {k \in db.events :
        /\ k.kind = "RoleGranted" /\ k.token = t /\ k.role \in AdminRole
        /\ ~ \E r \in db.events :
                /\ r.kind = "RoleRevoked" /\ r.token = t
                /\ r.role = k.role /\ r.account = k.account
                /\ Before(k, r)}}

AdminTokens(a) == {t \in Token : a \in Admins(t)}

(* adminAccountsNeedingTypes, before its LIMIT *)
NeedingTypes == {a \in UNION {Admins(t) : t \in Token} : ~row[a].fresh}

-----------------------------------------------------------------------------
(* The indexer, the chain and the clock. *)

Index ==
    /\ \E l \in Log \ db.events : db' = InsertRows(db, {l})
    /\ UNCHANGED <<code, row, flags, memo, look, left, refresh>>

(* A contract is deployed, a delegation is set or cleared. *)
ChangeCode ==
    /\ \E a \in Account, c \in Type :
        c \in Codes[a] /\ c # code[a] /\ code' = [code EXCEPT ![a] = c]
    /\ UNCHANGED <<db, row, flags, memo, look, left, refresh>>

RowExpires(a) ==
    /\ row[a].fresh
    /\ row' = [row EXCEPT ![a].fresh = FALSE]
    /\ UNCHANGED <<code, db, flags, memo, look, left, refresh>>

(* After an hour, or ten seconds for UNKNOWN, or pushed out by others. *)
MemoExpires(a) ==
    /\ memo[a] # "none"
    /\ memo' = [memo EXCEPT ![a] = "none"]
    /\ UNCHANGED <<code, db, row, flags, look, left, refresh>>

-----------------------------------------------------------------------------
(* accountTypeFor *)

(* BUG: a row is believed whatever its age. *)
RowServesAnyAge(a) == memo[a] = "none" /\ row[a] # NoRow

RowServes(a) == memo[a] = "none" /\ row[a].fresh

(* The calls for the accounts of a batch, up to their first await: one that *)
(* no cache answers asks the chain; a row starts a new hour in memory.     *)
Call(by, batch) ==
    /\ Quiet
    /\ memo' = [a \in Account |-> IF a \in batch /\ RowServes(a) THEN row[a].type ELSE memo[a]]
    /\ look' = [k \in Looks |->
                  IF k[1] = by /\ k[2] \in batch /\ memo[k[2]] = "none" /\ ~RowServes(k[2])
                  THEN "asked" ELSE look[k]]
    /\ UNCHANGED <<code, db, row, flags, refresh>>

Visit(by, a) ==
    /\ look[by, a] = "none" /\ a \in Visited
    /\ Call(by, {a})
    /\ UNCHANGED left

(* getCode is evaluated somewhere on the way. *)
Evaluated(k) ==
    /\ look[k] = "asked"
    /\ look' = [look EXCEPT ![k] = code[k[2]]]
    /\ UNCHANGED <<code, db, row, flags, memo, left, refresh>>

Remember(k, type) ==
    /\ Quiet
    /\ memo' = [memo EXCEPT ![k[2]] = type]

LooksWithout(k) == [look EXCEPT ![k] = "none"]

(* No answer, or none in time; UNKNOWN is kept in memory only. *)
NoAnswer(k) ==
    /\ look[k] # "none"
    /\ Remember(k, "UNKNOWN") /\ look' = LooksWithout(k)
    /\ UNCHANGED <<code, db, row, flags, left, refresh>>

(* BUG: the flags are left alone when the type is the one known before. *)
TokensToRefreshOnChange(k) ==
    IF row[k[2]].type = look[k] THEN {} ELSE AdminTokens(k[2])

TokensToRefresh(k) == AdminTokens(k[2])

(* The answer goes to both caches, the clock of both starts anew, and the  *)
(* flags of every token that the account administers are to be rewritten.  *)
Answer(k) ==
    /\ look[k] \in Type
    /\ Remember(k, look[k]) /\ look' = LooksWithout(k)
    /\ row' = [row EXCEPT ![k[2]] = [type |-> look[k], fresh |-> TRUE]]
    /\ refresh' = IF TokensToRefresh(k) = {} THEN NoRefresh
                  ELSE [by |-> k[1], tokens |-> TokensToRefresh(k)]
    /\ UNCHANGED <<code, db, flags, left>>

(* The look-ups of the warm-up, if there are any, go on under the name s. *)
GoingOn(looks, s) ==
    [k \in Looks |-> IF k[1] = "warm" THEN "none"
                     ELSE IF k[1] = s THEN looks["warm", k[2]] ELSE looks[k]]

(* An exception out of accountTypeFor, with looks under way.  For the       *)
(* warm-up it fails Promise.all: the accounts left are given up and another *)
(* warm-up may begin, but nothing stops the rest of the batch.             *)
Throws(by, looks) ==
    \/ by # "warm" /\ left' = left /\ look' = looks
    \/ /\ by = "warm" /\ left' = {}
       /\ \E s \in By :
            /\ \A a \in Account : looks[s, a] = "none"
            /\ look' = GoingOn(looks, s)

(* The row cannot be written: another process holds the lock for too long. *)
RowBusy(k) ==
    /\ look[k] \in Type
    /\ Remember(k, look[k])
    /\ Throws(k[1], LooksWithout(k))
    /\ UNCHANGED <<code, db, row, flags, refresh>>

(* refreshAdminTypeFlagsForToken *)
Refresh ==
    /\ \E t \in refresh.tokens :
        /\ flags' = [flags EXCEPT ![t] = {row[a].type : a \in Admins(t)} \cap Type]
        /\ refresh' = IF refresh.tokens = {t} THEN NoRefresh
                      ELSE [refresh EXCEPT !.tokens = @ \ {t}]
    /\ UNCHANGED <<code, db, row, memo, look, left>>

FlagsBusy ==
    /\ ~Quiet
    /\ refresh' = NoRefresh
    /\ Throws(refresh.by, look)
    /\ UNCHANGED <<code, db, row, flags, memo>>

-----------------------------------------------------------------------------
(* warmAdminAccountTypes, every five minutes unless it runs already. *)
SubsetsUpTo(n, S) == {T \in SUBSET S : Cardinality(T) = n \/ (Cardinality(T) < n /\ T = S)}

WarmUp ==
    /\ Quiet /\ ~Warming
    /\ NeedingTypes # {}
    /\ left' \in SubsetsUpTo(WarmLimit, NeedingTypes)
    /\ UNCHANGED <<code, db, row, flags, memo, look, refresh>>

WarmBatch ==
    /\ \A a \in Account : look["warm", a] = "none"
    /\ \E batch \in SubsetsUpTo(Concurrency, left) :
        batch # {} /\ Call("warm", batch) /\ left' = left \ batch

(* The server stops and is started again. *)
Crash ==
    /\ memo' = [a \in Account |-> "none"]
    /\ look' = [k \in Looks |-> "none"]
    /\ left' = {} /\ refresh' = NoRefresh
    /\ UNCHANGED <<code, db, row, flags>>

-----------------------------------------------------------------------------
Working ==
    \/ \E a \in Account : RowExpires(a) \/ MemoExpires(a) \/ \E by \in Others : Visit(by, a)
    \/ \E k \in Looks : Evaluated(k) \/ Answer(k)
    \/ Refresh \/ WarmUp \/ WarmBatch

Trouble == Crash \/ FlagsBusy \/ \E k \in Looks : NoAnswer(k) \/ RowBusy(k)

Next == Index \/ ChangeCode \/ Working \/ Trouble

Init ==
    /\ code \in {c \in [Account -> Type] : \A a \in Account : c[a] \in Codes[a]}
    /\ db = [EmptyDB EXCEPT !.tokens = Token]
    /\ row = [a \in Account |-> NoRow]
    /\ flags = [t \in Token |-> {}]
    /\ memo = [a \in Account |-> "none"]
    /\ look = [k \in Looks |-> "none"]
    /\ left = {} /\ refresh = NoRefresh

Spec == Init /\ [][Next]_vars

(* The clock runs, the event loop comes to everything that is ready, and a *)
(* look-up is bounded by its timeout.                                      *)
FairSpec ==
    /\ Spec
    /\ \A a \in Account : WF_vars(RowExpires(a)) /\ WF_vars(MemoExpires(a))
    /\ \A k \in Looks : SF_vars(Evaluated(k) \/ Answer(k) \/ NoAnswer(k) \/ RowBusy(k))
    /\ WF_vars(Refresh \/ FlagsBusy)
    /\ SF_vars(WarmUp \/ WarmBatch)

-----------------------------------------------------------------------------
(* Accounts and roles stop changing, and nothing fails any more. *)
Calm == <>[][Working]_vars

(* A filter of the token list by the type of the admins. *)
ListedUnder(t, type) == db.adminActive[t] /\ type \in flags[t]

(* Whatever roles were granted and revoked and accounts changed, whichever  *)
(* answers came late and refreshes broke off, in the end the filter lists  *)
(* a token under exactly the types that its admins have.  It takes a       *)
(* warm-up that reaches every admin: LIMIT has no order to take turns by.  *)
FilterConverges ==
    Calm /\ WarmLimit >= Cardinality(Account) =>
        <>[](\A t \in Token, type \in Type :
                ListedUnder(t, type) <=> \E a \in Admins(t) : code[a] = type)

(* A late answer may overwrite a newer one in both caches; still, no label  *)
(* that is served stays wrong for good.                                    *)
LabelsConverge ==
    Calm => <>[](\A a \in Account :
                    /\ memo[a] \in {"none", code[a]}
                    /\ row[a].fresh => row[a].type = code[a])
=============================================================================
