-------------------------- MODULE TokenPageProofs --------------------------
(***************************************************************************)
(* Proofs about TokenPage, for any tokens, filters, lists and numbers of   *)
(* requests under way: the address bar names the open card; and, as long   *)
(* as no request fails behind another card, what is kept under a token is  *)
(* about it and an inline card has its row.                                *)
(*                                                                         *)
(*   Filed     the cache and what requests under way remember of it        *)
(*   Visible   the card against the cache and the rows                     *)
(***************************************************************************)
EXTENDS TokenPage, TLAPS

About(rec, t) ==
    rec.row = t /\ rec.detail \in {t, None} /\ rec.live \in {t, None}

(* A record that a request remembers was in the cache and still has a      *)
(* successor there; live values are asked for once there is a record.      *)
CardSound(r) ==
    /\ r.cached # None => About(r.cached, r.token) /\ cache[r.token] # None
    /\ r.what = "live" => cache[r.token] # None

CacheSound == \A t \in Token : cache[t] # None => About(cache[t], t)

Filed == CacheSound /\ \A r \in cards : CardSound(r)

Visible ==
    active # None /\ mode = "inline" => cache[active] # None /\ active \in rows

IInv == TypeOK /\ Filed /\ Visible

(* The cache of the next state, when it only gains sound records. *)
Grows ==
    /\ cache' \in [Token -> Record \cup {None}]
    /\ CacheSound'
    /\ \A t \in Token : cache[t] # None => cache'[t] # None

-----------------------------------------------------------------------------
LEMMA NoneIsNoRecord == None \notin Token /\ None \notin Record
BY PageAssumption

LEMMA ListsAreTokens ==
    ASSUME NEW f \in Filter, NEW p \in Nat
    PROVE  ListOf(f, p) \subseteq Token /\ PageCount(f) \in Nat \ {0}
<1>1. Pages[f] \in Seq(SUBSET Token)
  BY PageAssumption
<1>2. ListOf(f, p) \subseteq Token
  BY <1>1 DEF ListOf
<1>3. Len(Pages[f]) \in Nat
  BY <1>1
<1> QED BY <1>2, <1>3 DEF PageCount, Most

(* The row that is pinned is the card's. *)
LEMMA PinAdds ==
    ASSUME NEW R \in SUBSET Token, NEW c \in [Token -> Record \cup {None}],
           \A t \in Token : c[t] # None => About(c[t], t),
           NEW a \in Owner, NEW m \in Mode
    PROVE  /\ Pin(R, c, a, m) \subseteq Token
           /\ R \subseteq Pin(R, c, a, m)
           /\ a # None /\ m = "inline" /\ c[a] # None => a \in Pin(R, c, a, m)
<1>1. ASSUME a # None, c[a] # None PROVE c[a].row = a /\ a \in Token
  BY <1>1 DEF About, Owner
<1> QED BY <1>1 DEF Pin, Mode

LEMMA CardsStaySound ==
    ASSUME TypeOK, Filed, Grows, NEW r \in cards
    PROVE  CardSound(r)'
<1>1. r.token \in Token /\ CardSound(r)
  BY DEF TypeOK, CardCall, Filed
<1> QED BY <1>1 DEF CardSound, Grows, About

LEMMA VisibleStays ==
    ASSUME TypeOK, Visible, Grows, active' = active, mode' = mode, rows \subseteq rows'
    PROVE  Visible'
BY DEF TypeOK, Visible, Grows, Owner

LEMMA CacheStays ==
    ASSUME TypeOK, Filed, cache' = cache
    PROVE  Grows
BY DEF TypeOK, Filed, Grows, CacheSound, About

(* A sound record may be filed under its token. *)
LEMMA CacheGains ==
    ASSUME TypeOK, Filed, NEW t \in Token, NEW rec \in Record, About(rec, t),
           cache' = [cache EXCEPT ![t] = rec]
    PROVE  Grows /\ cache'[t] = rec
<1>1. \A s \in Token : cache'[s] = IF s = t THEN rec ELSE cache[s]
  BY DEF TypeOK
<1>2. cache' \in [Token -> Record \cup {None}]
  BY DEF TypeOK
<1>3. rec # None
  BY NoneIsNoRecord
<1>4. CacheSound'
  BY <1>1 DEF Filed, CacheSound, About
<1> QED BY <1>1, <1>2, <1>3, <1>4 DEF Grows

(* openToken up to its request, with the cache it shows. *)
LEMMA ShowStep ==
    ASSUME IInv, NEW t \in Token, NEW c, Grows, NEW m \in Mode, Show(t, c, m),
           cache' = c, m = "inline" => c[t] # None,
           lists' \subseteq ListCall, route' \in Owner
    PROVE  IInv'
<1>1. rows' = Pin(rows, c, t, m) /\ active' = t /\ mode' = m
  BY DEF Show
<1>2. c \in [Token -> Record \cup {None}] /\ \A s \in Token : c[s] # None => About(c[s], s)
  BY DEF Grows, CacheSound
<1>3. rows \subseteq Token /\ t \in Owner /\ t # None
  BY NoneIsNoRecord DEF IInv, TypeOK, Owner
<1>4. rows' \subseteq Token /\ (m = "inline" => t \in rows')
  BY <1>1, <1>2, <1>3, PinAdds
<1>5. Visible'
  BY <1>1, <1>4 DEF Visible
<1> DEFINE q == [what |-> "detail", token |-> t, cached |-> c[t]]
<1>6. cards' = cards \cup {q}
  BY DEF Show, Request
<1>7. q \in CardCall /\ q.cached = c[t] /\ q.token = t /\ q.what = "detail"
  BY <1>2 DEF CardCall
<1>8. CardSound(q)'
  BY <1>2, <1>7 DEF CardSound
<1>9. \A r \in cards : CardSound(r)'
  BY CardsStaySound DEF IInv
<1>10. Filed'
  BY <1>6, <1>8, <1>9 DEF Filed, Grows
<1>11. TypeOK'
  <2>1. cards' \subseteq CardCall
    BY <1>6, <1>7 DEF IInv, TypeOK
  <2> QED BY <2>1, <1>1, <1>2, <1>3, <1>4 DEF IInv, TypeOK, Show, Owner
<1> QED BY <1>5, <1>10, <1>11 DEF IInv

(* A step that closes the card, or leaves it, and asks for nothing.        *)
LEMMA QuietStep ==
    ASSUME IInv, cache' = cache, cards' \subseteq cards, rows' = rows,
           filter' \in Filter, page' \in Nat \ {0}, pages' \in Nat \ {0},
           route' \in Owner, lists' \subseteq ListCall,
           CloseCard \/ UNCHANGED <<active, mode>>
    PROVE  IInv'
<1>1. Grows
  BY CacheStays DEF IInv
<1>2. Filed'
  BY <1>1, CardsStaySound DEF Filed, IInv, Grows
<1>3. Visible'
  BY DEF IInv, Visible, CloseCard
<1>4. TypeOK'
  BY DEF IInv, TypeOK, CloseCard, Mode, Owner
<1> QED BY <1>2, <1>3, <1>4 DEF IInv

LEMMA LoadType ==
    ASSUME TypeOK, NEW f \in Filter, NEW p \in Nat, Load(f, p)
    PROVE  lists' \subseteq ListCall
<1> DEFINE q == [filter |-> f, page |-> p, boot |-> FALSE]
<1>1. q \in ListCall
  BY DEF ListCall
<1>2. lists' = lists \cup {q}
  BY DEF Load
<1> QED BY <1>1, <1>2 DEF TypeOK

LEMMA ClickStep ==
    ASSUME IInv, NEW t \in Token, Click(t)
    PROVE  IInv'
<1>1. CASE active = t /\ mode = "inline" /\ cache[t].detail # None
  <2>1. CloseCard /\ route' = None /\ UNCHANGED <<list, cache, cards, lists>>
    BY <1>1 DEF Click
  <2> QED BY <2>1, QuietStep DEF IInv, TypeOK, list, Owner
<1>2. CASE ~(active = t /\ mode = "inline" /\ cache[t].detail # None)
  <2>1. route' = t /\ Show(t, cache, "inline") /\ UNCHANGED lists /\ cache[t] # None
    BY <1>2 DEF Click
  <2>2. cache' = cache
    BY <2>1 DEF Show
  <2>3. Grows
    BY <2>2, CacheStays DEF IInv
  <2> QED BY <2>1, <2>2, <2>3, ShowStep DEF Mode, Owner, IInv, TypeOK
<1> QED BY <1>1, <1>2

LEMMA ClickFeedStep ==
    ASSUME IInv, NEW t \in Token, ClickFeed(t)
    PROVE  IInv'
<1> DEFINE rec == [row |-> t, detail |-> t, live |-> None]
           c == [cache EXCEPT ![t] = rec]
<1>1. Show(t, c, "spotlight") /\ route' = t /\ UNCHANGED lists
  BY DEF ClickFeed
<1>2. cache' = c
  BY <1>1 DEF Show
<1>3. rec \in Record /\ About(rec, t)
  BY DEF Record, Owner, About
<1>4. Grows
  BY <1>2, <1>3, CacheGains DEF IInv
<1> QED BY <1>1, <1>2, <1>4, ShowStep DEF Mode, Owner, IInv, TypeOK

LEMMA BackToTokenStep ==
    ASSUME IInv, BackToToken
    PROVE  IInv'
<1>1. PICK t \in Token : route' = t /\ Show(t, cache, "spotlight") /\ UNCHANGED lists
  BY DEF BackToToken
<1>2. cache' = cache
  BY <1>1 DEF Show
<1>3. Grows
  BY <1>2, CacheStays DEF IInv
<1> QED BY <1>1, <1>2, <1>3, ShowStep DEF Mode, Owner, IInv, TypeOK

LEMMA UserStep ==
    ASSUME IInv, User \/ Refresh
    PROVE  IInv'
<1>1. CASE \E t \in Token : Click(t) \/ ClickFeed(t)
  BY <1>1, ClickStep, ClickFeedStep
<1>2. CASE Close \/ BackHome
  BY <1>2, QuietStep DEF Close, BackHome, IInv, TypeOK, list, Owner
<1>3. CASE BackToToken
  BY <1>3, BackToTokenStep
<1>4. CASE SetFilter
  <2>1. PICK f \in Filter : filter' = f /\ page' = 1 /\ Load(f, 1)
    BY <1>4 DEF SetFilter
  <2>2. lists' \subseteq ListCall
    BY <2>1, LoadType DEF IInv
  <2> QED BY <1>4, <2>1, <2>2, QuietStep DEF SetFilter, IInv, TypeOK, Owner
<1>5. CASE SetPage
  <2>1. PICK p \in 1 .. pages : page' = p /\ Load(filter, p)
    BY <1>5 DEF SetPage
  <2>2. p \in Nat \ {0} /\ filter \in Filter
    BY <2>1 DEF IInv, TypeOK
  <2>3. lists' \subseteq ListCall
    BY <2>1, <2>2, LoadType DEF IInv
  <2> QED BY <1>5, <2>1, <2>2, <2>3, QuietStep DEF SetPage, IInv, TypeOK
<1>6. CASE Refresh
  <2>1. lists' \subseteq ListCall
    BY <1>6, LoadType DEF Refresh, IInv, TypeOK
  <2> QED BY <1>6, <2>1, QuietStep DEF Refresh, IInv, TypeOK, list
<1> QED BY <1>1, <1>2, <1>3, <1>4, <1>5, <1>6 DEF User

(* The rows of a list are merged into the cache. *)
LEMMA MergeGrows ==
    ASSUME TypeOK, Filed, NEW S \in SUBSET Token,
           cache' = [t \in Token |->
                       IF t \notin S THEN cache[t]
                       ELSE IF cache[t] = None THEN [row |-> t, detail |-> None, live |-> None]
                       ELSE [cache[t] EXCEPT !.row = t]]
    PROVE  Grows
<1> DEFINE new(t) == [row |-> t, detail |-> None, live |-> None]
           upd(t) == [cache[t] EXCEPT !.row = t]
<1>1. ASSUME NEW t \in Token
      PROVE  /\ cache'[t] \in Record \cup {None}
             /\ cache'[t] # None => About(cache'[t], t)
             /\ cache[t] # None => cache'[t] # None
  <2>1. cache[t] \in Record \cup {None} /\ (cache[t] # None => About(cache[t], t))
    BY DEF TypeOK, Filed, CacheSound
  <2>2. CASE t \notin S
    BY <2>1, <2>2
  <2>3. CASE t \in S /\ cache[t] = None
    <3>1. cache'[t] = new(t)
      BY <2>3
    <3>2. new(t) \in Record /\ About(new(t), t)
      BY DEF Record, Owner, About
    <3> QED BY <3>1, <3>2, <2>3
  <2>4. CASE t \in S /\ cache[t] # None
    <3>1. cache'[t] = upd(t) /\ cache[t] \in Record
      BY <2>1, <2>4
    <3>2. upd(t) \in Record /\ About(upd(t), t)
      BY <2>1, <2>4, <3>1 DEF Record, Owner, About
    <3> QED BY <3>1, <3>2, NoneIsNoRecord
  <2> QED BY <2>2, <2>3, <2>4
<1> QED BY <1>1 DEF Grows, CacheSound

-----------------------------------------------------------------------------
LEMMA ListArrivesStep ==
    ASSUME IInv, NEW q \in lists, ListArrives(q)
    PROVE  IInv'
<1> DEFINE S == ListOf(q.filter, q.page)
           merged == [t \in Token |->
                        IF t \notin S THEN cache[t]
                        ELSE IF cache[t] = None THEN [row |-> t, detail |-> None, live |-> None]
                        ELSE [cache[t] EXCEPT !.row = t]]
           again == [filter |-> filter, page |-> page', boot |-> q.boot]
<1>1. q.filter \in Filter /\ q.page \in Nat /\ q.boot \in BOOLEAN
  BY DEF IInv, TypeOK, ListCall
<1>2. S \in SUBSET Token /\ pages' \in Nat \ {0}
  BY <1>1, ListsAreTokens DEF ListArrives, Arrive
<1>3. CASE page > pages'
  <2>1. /\ page' = pages' /\ lists' = (lists \ {q}) \cup {again}
        /\ UNCHANGED <<filter, rows, cache, active, mode, route, cards>>
    BY <1>3 DEF ListArrives, Arrive
  <2>2. again \in ListCall
    BY <1>1, <1>2, <2>1 DEF IInv, TypeOK, ListCall
  <2>3. lists' \subseteq ListCall
    BY <2>1, <2>2 DEF IInv, TypeOK
  <2> QED BY <2>1, <2>3, <1>2, QuietStep DEF IInv, TypeOK
<1>4. CASE ~(page > pages')
  <2>1. /\ lists' = lists \ {q} /\ cache' = merged
        /\ rows' = RowsAfter(S, merged) /\ UNCHANGED <<filter, page, route>>
    BY <1>4 DEF ListArrives, Arrive
  <2>2. Grows
    BY <2>1, <1>2, MergeGrows DEF IInv
  <2>3. \A r \in cards : CardSound(r)'
    BY <2>2, CardsStaySound DEF IInv
  <2>4. rows' = Pin(S, cache', active, mode)
    BY <2>1 DEF RowsAfter
  <2>5. /\ rows' \subseteq Token
        /\ active # None /\ mode = "inline" /\ cache'[active] # None => active \in rows'
    BY <2>2, <2>4, <1>2, PinAdds DEF IInv, TypeOK, Grows, CacheSound
  <2>6. CASE q.boot /\ route # None
    <3>0. PICK r : r = [what |-> "detail", token |-> route, cached |-> merged[route]]
      OBVIOUS
    <3>1. active' = route /\ mode' = "spotlight" /\ Request(route, merged[route])
      BY <1>4, <2>6 DEF ListArrives, Arrive
    <3>2. cards' = cards \cup {r}
      BY <3>0, <3>1 DEF Request
    <3>3. route \in Token
      BY <2>6 DEF IInv, TypeOK, Owner
    <3>4. r \in CardCall /\ r.cached = cache'[route] /\ r.token = route /\ r.what = "detail"
      BY <3>0, <3>3, <2>1, <2>2 DEF CardCall, Grows
    <3>5. CardSound(r)'
      BY <3>3, <3>4, <2>2 DEF CardSound, Grows, CacheSound
    <3>6. Filed'
      BY <2>2, <2>3, <3>2, <3>5 DEF Filed, Grows
    <3>7. Visible'
      BY <3>1 DEF Visible
    <3>8. TypeOK'
      BY <1>2, <2>1, <2>2, <2>5, <3>1, <3>2, <3>3, <3>4 DEF IInv, TypeOK, Owner, Mode, Grows
    <3> QED BY <3>6, <3>7, <3>8 DEF IInv
  <2>7. CASE ~(q.boot /\ route # None)
    <3>1. UNCHANGED <<active, mode, cards>>
      BY <1>4, <2>7 DEF ListArrives, Arrive
    <3>2. Filed'
      BY <2>2, <2>3, <3>1 DEF Filed, Grows
    <3>3. Visible'
      BY <2>2, <2>5, <3>1 DEF IInv, TypeOK, Visible, Grows, Owner
    <3>4. TypeOK'
      BY <1>2, <2>1, <2>2, <2>5, <3>1 DEF IInv, TypeOK, Grows
    <3> QED BY <3>2, <3>3, <3>4 DEF IInv
  <2> QED BY <2>6, <2>7
<1> QED BY <1>3, <1>4

LEMMA ListFailsStep ==
    ASSUME IInv, NEW q \in lists, ListFails(q)
    PROVE  IInv'
<1>1. lists' \subseteq ListCall /\ route' = route
  BY DEF ListFails, IInv, TypeOK
<1>2. CASE q.boot /\ route # None
  <2>1. Show(route, cache, "spotlight")
    BY <1>2 DEF ListFails
  <2>2. cache' = cache /\ route \in Token
    BY <1>2, <2>1 DEF Show, IInv, TypeOK, Owner
  <2>3. Grows
    BY <2>2, CacheStays DEF IInv
  <2> QED BY <1>1, <2>1, <2>2, <2>3, ShowStep DEF Mode, Owner, IInv, TypeOK
<1>3. CASE ~(q.boot /\ route # None)
  <2>1. UNCHANGED <<list, cache, active, mode, cards>>
    BY <1>3 DEF ListFails
  <2> QED BY <1>1, <2>1, QuietStep DEF IInv, TypeOK, list
<1> QED BY <1>2, <1>3

-----------------------------------------------------------------------------
(* An answer for a card, or its failure: the cache, at most one more       *)
(* request for live values, and the row of an open inline card.            *)
LEMMA AnswerStep ==
    ASSUME IInv, Grows, rows \subseteq rows', rows' \subseteq Token,
           NEW t \in Token,
           \/ cards' \subseteq cards
           \/ /\ cards' \subseteq cards \cup {[what |-> "live", token |-> t, cached |-> None]}
              /\ cache'[t] # None,
           UNCHANGED <<filter, page, pages, active, mode, route, lists>>
    PROVE  IInv'
<1> DEFINE l == [what |-> "live", token |-> t, cached |-> None]
<1>1. l \in CardCall /\ l.cached = None /\ l.token = t
  BY DEF CardCall
<1>2. \A r \in cards : CardSound(r)'
  BY CardsStaySound DEF IInv
<1>3. cache'[t] # None => CardSound(l)'
  BY <1>1 DEF CardSound
<1>4. Filed'
  BY <1>2, <1>3 DEF Filed, Grows
<1>5. Visible'
  BY VisibleStays DEF IInv
<1>6. TypeOK'
  BY <1>1 DEF IInv, TypeOK, Grows
<1> QED BY <1>4, <1>5, <1>6 DEF IInv

LEMMA DetailArrivesStep ==
    ASSUME IInv, NEW r \in cards, DetailArrives(r)
    PROVE  IInv'
<1>1. r.token \in Token
  BY DEF IInv, TypeOK, CardCall
<1>2. PICK live \in {r.token, None} :
        LET t == r.token
            c == [cache EXCEPT ![t] = [row |-> t, detail |-> t, live |-> live]]
        IN  /\ cache' = c
            /\ IF active = t
               THEN /\ rows' = Pin(rows, c, t, mode)
                    /\ cards' = (cards \ {r}) \cup {[what |-> "live", token |-> t, cached |-> None]}
               ELSE cards' = cards \ {r} /\ UNCHANGED rows
  BY DEF DetailArrives, FiledUnder
<1> DEFINE t == r.token
           rec == [row |-> t, detail |-> t, live |-> live]
<1>3. rec \in Record /\ About(rec, t)
  BY <1>1, <1>2 DEF Record, Owner, About
<1>4. Grows /\ cache'[t] = rec
  BY <1>1, <1>2, <1>3, CacheGains DEF IInv
<1>5. cache'[t] # None
  BY <1>3, <1>4, NoneIsNoRecord
<1>6. UNCHANGED <<filter, page, pages, active, mode, route, lists>>
  BY DEF DetailArrives
<1>7. CASE active = t
  <2>1. rows' = Pin(rows, cache', t, mode)
    BY <1>2, <1>7
  <2>2. rows \subseteq rows' /\ rows' \subseteq Token
    BY <2>1, <1>1, <1>4, PinAdds DEF Grows, CacheSound, IInv, TypeOK, Owner
  <2>3. cards' \subseteq cards \cup {[what |-> "live", token |-> t, cached |-> None]}
    BY <1>2, <1>7
  <2> QED BY <2>2, <2>3, <1>1, <1>4, <1>5, <1>6, AnswerStep
<1>8. CASE active # t
  <2>1. cards' \subseteq cards /\ rows' = rows
    BY <1>2, <1>8
  <2> QED BY <2>1, <1>1, <1>4, <1>6, AnswerStep DEF IInv, TypeOK
<1> QED BY <1>7, <1>8

(* Where the assumption that no request fails behind another card counts.  *)
LEMMA DetailFailsStep ==
    ASSUME IInv, ~LateFailures, NEW r \in cards, DetailFails(r)
    PROVE  IInv'
<1>1. r.token \in Token /\ r.cached \in Record \cup {None} /\ CardSound(r)
  BY DEF IInv, TypeOK, Filed, CardCall
<1>2. /\ cards' \subseteq cards /\ rows' = rows
      /\ UNCHANGED <<filter, page, pages, active, mode, route, lists>>
  BY DEF DetailFails, list
<1>3. Grows
  <2>1. CASE r.cached = None \/ active = None
    BY <2>1, CacheStays DEF DetailFails, IInv
  <2>2. CASE r.cached # None /\ active # None
    <3>1. active = r.token /\ cache' = [cache EXCEPT ![r.token] = r.cached]
      BY <2>2 DEF DetailFails
    <3>2. About(r.cached, r.token) /\ r.cached \in Record
      BY <1>1, <2>2 DEF CardSound
    <3> QED BY <1>1, <3>1, <3>2, CacheGains DEF IInv
  <2> QED BY <2>1, <2>2
<1> QED BY <1>1, <1>2, <1>3, AnswerStep DEF IInv, TypeOK

LEMMA LiveStep ==
    ASSUME IInv, NEW r \in cards, LiveArrives(r) \/ LiveFails(r)
    PROVE  IInv'
<1>1. r.token \in Token /\ CardSound(r)
  BY DEF IInv, TypeOK, Filed, CardCall
<1>2. /\ cards' \subseteq cards /\ rows' = rows /\ r.what = "live"
      /\ UNCHANGED <<filter, page, pages, active, mode, route, lists>>
  BY DEF LiveArrives, LiveFails, list
<1>3. Grows
  <2>1. CASE cache' = cache
    BY <2>1, CacheStays DEF IInv
  <2>2. CASE cache' = [cache EXCEPT ![r.token].live = r.token]
    <3> DEFINE rec == [cache[r.token] EXCEPT !.live = r.token]
    <3>1. cache[r.token] \in Record /\ About(cache[r.token], r.token)
      BY <1>1, <1>2 DEF CardSound, IInv, TypeOK, Filed, CacheSound
    <3>2. rec \in Record /\ About(rec, r.token)
      BY <1>1, <3>1 DEF Record, Owner, About
    <3>3. cache' = [cache EXCEPT ![r.token] = rec]
      BY <2>2
    <3> QED BY <1>1, <3>2, <3>3, CacheGains DEF IInv
  <2> QED BY <2>1, <2>2 DEF LiveArrives, LiveFails
<1> QED BY <1>1, <1>2, <1>3, AnswerStep DEF IInv, TypeOK

-----------------------------------------------------------------------------
LEMMA PageStep ==
    ASSUME ~LateFailures, IInv, [Next]_vars
    PROVE  IInv'
<1>1. CASE User \/ Refresh
  BY <1>1, UserStep
<1>2. CASE Answers
  BY <1>2, ListArrivesStep, DetailArrivesStep, LiveStep DEF Answers
<1>3. CASE Failures
  BY <1>3, ListFailsStep, DetailFailsStep, LiveStep DEF Failures
<1>4. CASE UNCHANGED vars
  BY <1>4, QuietStep DEF vars, IInv, TypeOK
<1> QED BY <1>1, <1>2, <1>3, <1>4 DEF Next

LEMMA PageInit == Init => IInv
<1> SUFFICES ASSUME Init PROVE IInv
  OBVIOUS
<1>1. TypeOK
  BY PageAssumption DEF Init, TypeOK, ListCall, Owner, Mode
<1>2. Filed
  BY DEF Init, Filed, CacheSound
<1>3. Visible
  BY DEF Init, Visible
<1> QED BY <1>1, <1>2, <1>3 DEF IInv

LEMMA PageInvariant == ASSUME ~LateFailures PROVE Spec => []IInv
<1>1. Init => IInv
  BY PageInit
<1>2. IInv /\ [Next]_vars => IInv'
  BY PageStep
<1> QED BY <1>1, <1>2, PTL DEF Spec

-----------------------------------------------------------------------------
(* The address bar names the token of the open card: openToken, the way    *)
(* back, filters, pages and the first list of a visit all keep the two in  *)
(* step, and no answer moves one without the other.                        *)
THEOREM UrlAlwaysNamesCard == Spec => []UrlNamesCard
<1>1. Init => UrlNamesCard
  BY DEF Init, UrlNamesCard
<1>2. UrlNamesCard /\ [Next]_vars => UrlNamesCard'
  <2> SUFFICES ASSUME UrlNamesCard, [Next]_vars PROVE UrlNamesCard'
    OBVIOUS
  <2>1. CASE User
    BY <2>1 DEF User, Click, ClickFeed, Close, BackHome, BackToToken, SetFilter, SetPage,
                Show, CloseCard, UrlNamesCard
  <2>2. CASE Refresh
    BY <2>2 DEF Refresh, UrlNamesCard
  <2>3. CASE Answers
    <3>1. ASSUME NEW q \in lists, ListArrives(q) PROVE UrlNamesCard'
      BY <3>1 DEF ListArrives, Arrive, UrlNamesCard
    <3>2. ASSUME NEW r \in cards, DetailArrives(r) \/ LiveArrives(r) PROVE UrlNamesCard'
      BY <3>2 DEF DetailArrives, LiveArrives, UrlNamesCard
    <3> QED BY <2>3, <3>1, <3>2 DEF Answers
  <2>4. CASE Failures
    <3>1. ASSUME NEW q \in lists, ListFails(q) PROVE UrlNamesCard'
      BY <3>1 DEF ListFails, Show, UrlNamesCard
    <3>2. ASSUME NEW r \in cards, DetailFails(r) \/ LiveFails(r) PROVE UrlNamesCard'
      BY <3>2 DEF DetailFails, LiveFails, UrlNamesCard
    <3> QED BY <2>4, <3>1, <3>2 DEF Failures
  <2>5. CASE UNCHANGED vars
    BY <2>5 DEF vars, UrlNamesCard
  <2> QED BY <2>1, <2>2, <2>3, <2>4, <2>5 DEF Next
<1> QED BY <1>1, <1>2, PTL DEF Spec

(* As long as no request fails behind another card, what is kept and shown *)
(* under a token is about that token, in whatever order the lists, details *)
(* and live values of several cards arrive.                                *)
THEOREM CardAlwaysShowsItsToken ==
    ASSUME ~LateFailures PROVE Spec => []CardShowsItsToken
<1>1. IInv => CardShowsItsToken
  BY DEF IInv, Filed, CacheSound, About, CardShowsItsToken
<1> QED BY <1>1, PageInvariant, PTL

(* An inline card keeps its row in the table, whatever lists replace it.   *)
THEOREM OpenCardAlwaysVisible ==
    ASSUME ~LateFailures PROVE Spec => []OpenCardVisible
<1>1. IInv => OpenCardVisible
  BY DEF IInv, Visible, OpenCardVisible
<1> QED BY <1>1, PageInvariant, PTL

-----------------------------------------------------------------------------
(* The table of the list.                                                  *)

(* The table is the page of the filter that is set, with the row of the    *)
(* open card, and every list under way is of that page and later than the  *)
(* first of the visit, the one that will open the token of the URL.        *)
Rested ==
    /\ rows = Pin(ListOf(filter, page), cache, active, mode)
    /\ page <= PageCount(filter)
    /\ \A q \in lists : q.filter = filter /\ q.page = page /\ ~q.boot

(* Only the user changes it then: no refresh and no answer, in whatever    *)
(* order and whatever fails, takes a row away or brings another page.      *)
TableStays == Rested /\ (Refresh \/ Answers \/ Failures) => Rested'

LEMMA PinSame ==
    ASSUME NEW R, NEW c, NEW d, NEW a, NEW m,
           a = None \/ d[a] = c[a] \/ (c[a] # None /\ d[a] # None /\ c[a].row = a /\ d[a].row = a)
    PROVE  Pin(R, d, a, m) = Pin(R, c, a, m)
BY DEF Pin

(* Pinning the row of a card twice is pinning it once. *)
LEMMA PinAgain ==
    ASSUME NEW R, NEW c, NEW d, NEW a, NEW m,
           d[a] # None, d[a].row = a, c[a] # None => c[a].row = a
    PROVE  Pin(Pin(R, c, a, m), d, a, m) = Pin(R, d, a, m)
BY DEF Pin

(* A late list is of the page that is shown: the table is made anew.       *)
LEMMA ListRests ==
    ASSUME IInv, Rested, NEW q \in lists, ListArrives(q) \/ ListFails(q)
    PROVE  Rested'
<1>1. q.filter = filter /\ q.page = page /\ ~q.boot /\ page <= PageCount(filter)
  BY DEF Rested
<1>t. page \in Nat /\ PageCount(filter) \in Nat
  <2>1. filter \in Filter /\ page \in Nat
    BY DEF IInv, TypeOK
  <2> QED BY <2>1, ListsAreTokens
<1>2. CASE ListFails(q)
  <2>1. UNCHANGED <<filter, page, rows, cache, active, mode>> /\ lists' \subseteq lists
    BY <1>1, <1>2 DEF ListFails, list
  <2> QED
    BY <2>1 DEF Rested
<1>3. CASE ListArrives(q)
  <2>0. pages' = PageCount(q.filter)
    BY <1>3, Zenon DEF ListArrives, Arrive
  <2>1. pages' = PageCount(filter) /\ ~(page > pages')
    BY <1>1, <1>t, <2>0
  <2>2. /\ rows' = Pin(ListOf(filter, page), cache', active, mode)
        /\ UNCHANGED <<filter, page, active, mode>> /\ lists' \subseteq lists
    <3> DEFINE S == ListOf(filter, page)
               merged == [t \in Token |->
                            IF t \notin S THEN cache[t]
                            ELSE IF cache[t] = None THEN [row |-> t, detail |-> None, live |-> None]
                            ELSE [cache[t] EXCEPT !.row = t]]
    <3>1. lists' = lists \ {q} /\ cache' = merged /\ rows' = RowsAfter(S, merged)
          /\ UNCHANGED <<active, mode, cards>> /\ UNCHANGED <<filter, page, route>>
      BY <1>1, <1>3, <2>1 DEF ListArrives, Arrive
    <3> HIDE DEF merged
    <3> QED
      BY <3>1 DEF RowsAfter
  <2> QED
    BY <2>2 DEF Rested
<1> QED
  BY <1>2, <1>3

(* An answer about a token files a record, and pins a row at most that is   *)
(* there already.                                                          *)
LEMMA CardRests ==
    ASSUME IInv, ~LateFailures, Rested, NEW r \in cards,
           DetailArrives(r) \/ DetailFails(r) \/ LiveArrives(r) \/ LiveFails(r)
    PROVE  Rested'
<1> DEFINE L == ListOf(filter, page)
<1>1. /\ UNCHANGED <<filter, page, active, mode, lists>>
      /\ r.token \in Token /\ r.cached \in Record \cup {None} /\ CardSound(r)
      /\ cache \in [Token -> Record \cup {None}] /\ active \in Owner
      /\ active # None /\ cache[active] # None => cache[active].row = active
  <2>1. UNCHANGED <<filter, page, active, mode, lists>>
    BY DEF DetailArrives, DetailFails, LiveArrives, LiveFails, list
  <2>2. r.token \in Token /\ r.cached \in Record \cup {None} /\ CardSound(r)
    BY DEF IInv, TypeOK, Filed, CardCall
  <2>3. cache \in [Token -> Record \cup {None}] /\ active \in Owner
    BY DEF IInv, TypeOK
  <2>4. active # None /\ cache[active] # None => cache[active].row = active
    BY <2>3 DEF IInv, Filed, CacheSound, About, Owner
  <2> QED
    BY <2>1, <2>2, <2>3, <2>4
<1>2. rows = Pin(L, cache, active, mode)
  BY DEF Rested
<1>3. ASSUME rows' = Pin(L, cache', active, mode) PROVE Rested'
  BY <1>1, <1>3 DEF Rested
<1> HIDE DEF L
<1>4. ASSUME rows' = rows,
             \/ active = None \/ cache'[active] = cache[active]
             \/ /\ cache[active] # None /\ cache'[active] # None
                /\ cache[active].row = active /\ cache'[active].row = active
      PROVE  Rested'
  BY <1>2, <1>3, <1>4, PinSame
<1>5. CASE DetailArrives(r)
  <2>1. PICK live \in {r.token, None} :
          LET t == r.token
              c == [cache EXCEPT ![t] = [row |-> t, detail |-> t, live |-> live]]
          IN  /\ cache' = c
              /\ IF active = t
                 THEN /\ rows' = Pin(rows, c, t, mode)
                      /\ cards' = (cards \ {r}) \cup {[what |-> "live", token |-> t, cached |-> None]}
                 ELSE cards' = cards \ {r} /\ UNCHANGED rows
    BY <1>5 DEF DetailArrives, FiledUnder
  <2>2. CASE active = r.token
    <3> DEFINE rec == [row |-> active, detail |-> active, live |-> live]
    <3>1. cache'[active] = rec /\ rows' = Pin(rows, cache', active, mode)
      BY <1>1, <2>1, <2>2
    <3>2. rec \in Record /\ rec.row = active
      BY <1>1, <2>1, <2>2 DEF Record, Owner
    <3>3. rec # None
      BY <3>2, NoneIsNoRecord
    <3>4. active # None
      BY <1>1, <2>2, NoneIsNoRecord
    <3> HIDE DEF rec
    <3>5. rows' = Pin(L, cache', active, mode)
      BY <1>1, <1>2, <3>1, <3>2, <3>3, <3>4, PinAgain
    <3> QED
      BY <1>3, <3>5
  <2>3. CASE active # r.token
    <3>1. rows' = rows /\ (active = None \/ cache'[active] = cache[active])
      BY <1>1, <2>1, <2>3 DEF Owner
    <3> QED
      BY <1>4, <3>1
  <2> QED
    BY <2>2, <2>3
<1>6. CASE DetailFails(r)
  <2>1. rows' = rows
    BY <1>6 DEF DetailFails, list
  <2>2. CASE r.cached = None \/ active = None
    <3>1. cache' = cache
      BY <1>6, <2>2 DEF DetailFails
    <3> QED
      BY <1>4, <2>1, <3>1
  <2>3. CASE r.cached # None /\ active # None
    <3>1. active = r.token /\ cache' = [cache EXCEPT ![r.token] = r.cached]
      BY <1>6, <2>3 DEF DetailFails
    <3>2. cache[active] # None /\ r.cached.row = active
      BY <1>1, <2>3, <3>1 DEF CardSound, About
    <3> QED
      BY <1>1, <1>4, <2>1, <2>3, <3>1, <3>2
  <2> QED
    BY <2>2, <2>3
<1>7. CASE LiveArrives(r)
  <2>1. rows' = rows /\ r.what = "live"
        /\ cache' = IF active = r.token THEN [cache EXCEPT ![r.token].live = r.token] ELSE cache
    BY <1>7 DEF LiveArrives, list
  <2>2. CASE active # r.token
    BY <1>4, <2>1, <2>2
  <2>3. CASE active = r.token
    <3> DEFINE rec == [cache[active] EXCEPT !.live = active]
    <3>1. cache[active] # None /\ active # None
      BY <1>1, <2>1, <2>3, NoneIsNoRecord DEF CardSound
    <3>2. cache[active] \in Record /\ active \in Token
      BY <1>1, <2>3, <3>1
    <3>3. rec \in Record /\ rec.row = cache[active].row
      BY <3>2 DEF Record, Owner
    <3>4. cache'[active] = rec
      BY <1>1, <2>1, <2>3
    <3>5. rec # None
      BY <3>3, NoneIsNoRecord
    <3> HIDE DEF rec
    <3> QED
      BY <1>1, <1>4, <2>1, <3>1, <3>3, <3>4, <3>5
  <2> QED
    BY <2>2, <2>3
<1>8. CASE LiveFails(r)
  BY <1>4, <1>8 DEF LiveFails, list
<1> QED
  BY <1>5, <1>6, <1>7, <1>8

LEMMA TableStep ==
    ASSUME ~LateFailures, IInv
    PROVE  TableStays
<1> SUFFICES ASSUME Rested, Refresh \/ Answers \/ Failures PROVE Rested'
  BY DEF TableStays
<1>1. CASE Refresh
  BY <1>1 DEF Refresh, Load, Rested, list
<1>2. CASE Answers \/ Failures
  BY <1>2, ListRests, CardRests DEF Answers, Failures
<1> QED
  BY <1>1, <1>2

(* loadTokens: what the refresh brings is the page that is shown, so that  *)
(* once the table is right only the user replaces it.                      *)
THEOREM TableStaysRight ==
    ASSUME ~LateFailures PROVE Spec => [][TableStays]_vars
<1>1. IInv => TableStays
  BY TableStep
<1> QED BY <1>1, PageInvariant, PTL
=============================================================================
