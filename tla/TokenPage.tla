----------------------------- MODULE TokenPage ------------------------------
(***************************************************************************)
(* The page public/index.html in one browser tab: the filtered and paged   *)
(* list of tokens, refreshed by a timer, the card of one token, inline or  *)
(* as a spotlight, and the address bar that names it.                      *)
(*                                                                         *)
(* Handlers run one at a time; every fetch is a request that some other    *)
(* handler may overtake.  The server is the environment.                   *)
(***************************************************************************)
EXTENDS Integers, Sequences, FiniteSets

CONSTANTS
    Token,
    Filter,         \* variant, search and sort
    NoFilter,       \* what they are at first
    Pages,          \* Pages[f]: the pages of the list under filter f
    LateFailures,   \* whether a request may fail when another card is open
    MaxLists,       \* bound: list requests under way
    MaxCards,       \* bound: requests for tokens under way
    None

(* A record of the cache: the tokens its list row, its detail fields and   *)
(* its live values come from.                                              *)
Owner  == Token \cup {None}
Record == [row : Token, detail : Owner, live : Owner]
Mode   == {"inline", "spotlight"}

ASSUME PageAssumption ==
    /\ NoFilter \in Filter /\ Pages \in [Filter -> Seq(SUBSET Token)]
    /\ LateFailures \in BOOLEAN
    /\ {MaxLists, MaxCards} \subseteq Nat \ {0}
    /\ None \notin Token \cup Record

VARIABLES
    filter,   \* the filter that is set
    page,     \* tokenPage
    pages,    \* the number of pages that tokenTotal makes
    rows,     \* currentRows: the addresses of the rows of the table
    cache,    \* tokenCache, by address
    active,   \* activeDetailAddr, None for ""
    mode,     \* activeDetailMode
    route,    \* the token in the path of the URL, or None for /
    lists,    \* loadTokens calls under way
    cards     \* openToken and fetchLive calls under way

list == <<filter, page, pages, rows>>
vars == <<filter, page, pages, rows, cache, active, mode, route, lists, cards>>

ListCall == [filter : Filter, page : Nat, boot : BOOLEAN]
CardCall == [what : {"detail", "live"}, token : Token, cached : Record \cup {None}]

Most(a, b)  == IF a >= b THEN a ELSE b
PageCount(f) == Most(1, Len(Pages[f]))
ListOf(f, p) == IF p \in DOMAIN Pages[f] THEN Pages[f][p] ELSE {}

-----------------------------------------------------------------------------
(* pinActiveRow: an inline card keeps a row of its own in the table. *)
Pin(R, c, a, m) ==
    IF a = None \/ m = "spotlight" \/ a \in R \/ c[a] = None THEN R
    ELSE R \cup {c[a].row}

(* BUG: the response is filed under the token whose card is open. *)
FiledUnderOpen(t) == IF active = None THEN t ELSE active

FiledUnder(t) == t

(* openToken up to its request. *)
Request(t, cached) ==
    cards' = cards \cup {[what |-> "detail", token |-> t, cached |-> cached]}

Show(t, c, m) ==
    /\ active' = t /\ mode' = m
    /\ cache' = c
    /\ rows' = Pin(rows, c, t, m)
    /\ Request(t, c[t])
    /\ UNCHANGED <<filter, page, pages>>

CloseCard == active' = None /\ mode' = "inline"

MayAsk == Cardinality(cards) < MaxCards

(* A click on a row, or on the ticker, which shows cached tokens. *)
Click(t) ==
    /\ cache[t] # None
    /\ IF active = t /\ mode = "inline" /\ cache[t].detail # None
       THEN CloseCard /\ route' = None /\ UNCHANGED <<list, cache, cards>>
       ELSE MayAsk /\ route' = t /\ Show(t, cache, "inline")
    /\ UNCHANGED lists

(* A click on the activity rail: the event seeds the record. *)
ClickFeed(t) ==
    /\ MayAsk
    /\ route' = t
    /\ Show(t, [cache EXCEPT ![t] = [row |-> t, detail |-> t, live |-> None]], "spotlight")
    /\ UNCHANGED lists

(* closeDetail *)
Close ==
    /\ active # None
    /\ CloseCard /\ route' = None
    /\ UNCHANGED <<list, cache, lists, cards>>

(* BUG: the way back to the start page leaves the card open. *)
BackHomeLeavingCard ==
    /\ route # None /\ route' = None
    /\ UNCHANGED <<list, cache, active, mode, lists, cards>>

BackHome ==
    /\ route # None /\ route' = None
    /\ CloseCard
    /\ UNCHANGED <<list, cache, lists, cards>>

(* popstate: the back and forward buttons lead to tokens shown before. *)
BackToToken ==
    /\ MayAsk
    /\ \E t \in Token : t # route /\ route' = t /\ Show(t, cache, "spotlight")
    /\ UNCHANGED lists

-----------------------------------------------------------------------------
(* loadTokens with the filter and the page of this moment. *)
Load(f, p) ==
    /\ Cardinality(lists) < MaxLists
    /\ lists' = lists \cup {[filter |-> f, page |-> p, boot |-> FALSE]}

(* BUG: the list is not refreshed under an open card. *)
RefreshUndisturbed ==
    /\ active = None
    /\ Load(filter, page)
    /\ UNCHANGED <<list, cache, active, mode, route, cards>>

(* The timer. *)
Refresh ==
    /\ Load(filter, page)
    /\ UNCHANGED <<list, cache, active, mode, route, cards>>

(* resetTokenList, after a new variant, search or sort *)
SetFilter ==
    /\ \E f \in Filter \ {filter} :
        /\ filter' = f /\ page' = 1
        /\ Load(f, 1)
    /\ CloseCard /\ route' = None
    /\ UNCHANGED <<pages, rows, cache, cards>>

(* setTokenPage; the button of the page that is shown closes the card too. *)
SetPage ==
    /\ \E p \in 1 .. pages : page' = p /\ Load(filter, p)
    /\ CloseCard
    /\ UNCHANGED <<filter, pages, rows, cache, route, cards>>

(* BUG: the row of the open card is only kept if it is on the page. *)
RowsUnpinned(S, c) == S

RowsAfter(S, c) == Pin(S, c, active, mode)

(* The list arrives.  When the page asked for by now is beyond its end, the *)
(* last page is loaded instead.  When the first list of the visit is there,*)
(* the token of the URL is opened.                                         *)
Arrive(q) ==
    LET S == ListOf(q.filter, q.page)
        merged == [t \in Token |->
                     IF t \notin S THEN cache[t]
                     ELSE IF cache[t] = None THEN [row |-> t, detail |-> None, live |-> None]
                     ELSE [cache[t] EXCEPT !.row = t]]
    IN  /\ pages' = PageCount(q.filter)
        /\ IF page > pages'
           THEN /\ page' = pages'
                /\ lists' = (lists \ {q}) \cup {[filter |-> filter, page |-> page', boot |-> q.boot]}
                /\ UNCHANGED <<filter, rows, cache, active, mode, route, cards>>
           ELSE /\ lists' = lists \ {q}
                /\ IF q.boot /\ route # None
                   THEN /\ active' = route /\ mode' = "spotlight"
                        /\ cache' = merged
                        /\ rows' = RowsAfter(S, merged)
                        /\ Request(route, merged[route])
                   ELSE /\ cache' = merged
                        /\ rows' = RowsAfter(S, merged)
                        /\ UNCHANGED <<active, mode, cards>>
                /\ UNCHANGED <<filter, page, route>>

ListArrives(q) == q \in lists /\ Arrive(q)

(* After three attempts; the last good page stays. *)
ListFails(q) ==
    /\ q \in lists
    /\ lists' = lists \ {q}
    /\ IF q.boot /\ route # None
       THEN Show(route, cache, "spotlight")
       ELSE UNCHANGED <<list, cache, active, mode, cards>>
    /\ UNCHANGED route

-----------------------------------------------------------------------------
(* The second half of openToken, and fetchLive. *)

DetailArrives(r) ==
    /\ r \in cards /\ r.what = "detail"
    /\ \E live \in {r.token, None} :
        LET t == r.token
            c == [cache EXCEPT ![FiledUnder(t)] = [row |-> t, detail |-> t, live |-> live]]
        IN  /\ cache' = c
            /\ IF active = t
               THEN /\ rows' = Pin(rows, c, t, mode)
                    /\ cards' = (cards \ {r}) \cup {[what |-> "live", token |-> t, cached |-> None]}
               ELSE cards' = cards \ {r} /\ UNCHANGED rows
    /\ UNCHANGED <<filter, page, pages, active, mode, route, lists>>

(* The network, or a body that is not a token: the record that openToken   *)
(* found is filed again, under the card that is open by now.               *)
DetailFails(r) ==
    /\ r \in cards /\ r.what = "detail"
    /\ LateFailures \/ active \in {r.token, None}
    /\ cards' = cards \ {r}
    /\ cache' = IF r.cached = None \/ active = None THEN cache
                ELSE [cache EXCEPT ![active] = r.cached]
    /\ UNCHANGED <<list, active, mode, route, lists>>

LiveArrives(r) ==
    /\ r \in cards /\ r.what = "live"
    /\ cards' = cards \ {r}
    /\ cache' = IF active = r.token THEN [cache EXCEPT ![r.token].live = r.token] ELSE cache
    /\ UNCHANGED <<list, active, mode, route, lists>>

LiveFails(r) ==
    /\ r \in cards /\ r.what = "live"
    /\ cards' = cards \ {r}
    /\ UNCHANGED <<list, cache, active, mode, route, lists>>

-----------------------------------------------------------------------------
User ==
    \/ \E t \in Token : Click(t) \/ ClickFeed(t)
    \/ Close \/ BackHome \/ BackToToken \/ SetFilter \/ SetPage

Answers ==
    \/ \E q \in lists : ListArrives(q)
    \/ \E r \in cards : DetailArrives(r) \/ LiveArrives(r)

Failures ==
    \/ \E q \in lists : ListFails(q)
    \/ \E r \in cards : DetailFails(r) \/ LiveFails(r)

Next == User \/ Refresh \/ Answers \/ Failures

(* The page has been opened, by its own address or a token's. *)
Init ==
    /\ filter = NoFilter /\ page = 1 /\ pages = 1
    /\ rows = {} /\ cache = [t \in Token |-> None]
    /\ active = None /\ mode = "inline"
    /\ route \in Owner
    /\ lists = {[filter |-> filter, page |-> 1, boot |-> TRUE]}
    /\ cards = {}

Spec == Init /\ [][Next]_vars

(* The timer goes on, and of the list requests under way at least one is   *)
(* answered or given up: each is bounded by its timeouts.                  *)
FairSpec ==
    /\ Spec
    /\ WF_vars(Refresh)
    /\ WF_vars(\E q \in lists : ListArrives(q) \/ ListFails(q))

-----------------------------------------------------------------------------
TypeOK ==
    /\ filter \in Filter /\ page \in Nat \ {0} /\ pages \in Nat \ {0}
    /\ rows \subseteq Token /\ cache \in [Token -> Record \cup {None}]
    /\ active \in Owner /\ mode \in Mode /\ route \in Owner
    /\ lists \subseteq ListCall /\ cards \subseteq CardCall

(* README.md:152: the URL of a token can be shared.  While a card is open,  *)
(* the address bar names its token, however the card was reached and       *)
(* whatever is answered meanwhile.                                         *)
UrlNamesCard == active # None => route = active

(* What is kept, and shown, under the address of a token is about that     *)
(* token: a late answer for the card before does not get into this one.    *)
CardShowsItsToken ==
    \A t \in Token : cache[t] # None =>
        cache[t].row = t /\ cache[t].detail \in {t, None} /\ cache[t].live \in {t, None}

(* An inline card has a row to hang on, also when refreshes, pages and     *)
(* late lists of other filters replace the table under it.                 *)
OpenCardVisible ==
    active # None /\ mode = "inline" /\ cache[active] # None => active \in rows

(* index.html:602-603: a list that failed is replaced by the next refresh.  *)
(* Once the user rests and requests succeed again, the table is the page   *)
(* of the filter that is set, and the row of the open card.                *)
ListConverges ==
    <>[][Refresh \/ Answers]_vars =>
        <>[](rows = Pin(ListOf(filter, page), cache, active, mode))
=============================================================================
