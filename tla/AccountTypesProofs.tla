------------------------- MODULE AccountTypesProofs -------------------------
(***************************************************************************)
(* What the web server says of the kinds of accounts, for any number of    *)
(* accounts, tokens and logs, any limits of the warm-up and any number of  *)
(* look-ups at a time.                                                     *)
(*                                                                         *)
(*   Typed           types; a type that the chain gives is one of Codes    *)
(*   LabelSources    where a label in a cache or a look-up can come from:  *)
(*                   the lemma that most of the theorems rest on           *)
(*                                                                         *)
(* That labels and the filter do become right is liveness, and TLC's part. *)
(* Here is the other half: what is right stays right, through crashes,     *)
(* failures and late answers.                                              *)
(***************************************************************************)
EXTENDS AccountTypes, StoreProofs

Typed ==
    /\ code \in [Account -> Type]
    /\ \A x \in Account : code[x] \in Codes[x]
    /\ db \in DB
    /\ row \in [Account -> Rows]
    /\ flags \in [Token -> SUBSET Type]
    /\ memo \in [Account -> Type \cup {"none", "UNKNOWN"}]
    /\ look \in [Looks -> Type \cup {"none", "asked"}]
    /\ left \in SUBSET Account
    /\ refresh \in [by : By, tokens : SUBSET Token]

(* The types among the rows of the admins of t: what its flags should say. *)
ShownTypes(t) == {row[x].type : x \in Admins(t)} \cap Type

-----------------------------------------------------------------------------
(* One step.                                                               *)

(* Admins are accounts. *)
LEMMA AdminsType ==
    ASSUME db \in DB, NEW t
    PROVE  Admins(t) \in SUBSET Account
<1>1. \A k \in db.events : k.kind = "RoleGranted" => k.account \in Account
  BY LogAssumption DEF DB, IsRoleChange
<1> QED
  BY <1>1 DEF Admins

(* The three names of a type are none of the words beside them. *)
LEMMA Words ==
    /\ "none" \notin Type /\ "asked" \notin Type /\ "UNKNOWN" \notin Type
    /\ NoRow \in Rows /\ NoRow.type = "none" /\ NoRow.fresh = FALSE
    /\ \A r \in Rows : /\ r.fresh \in BOOLEAN
                       /\ r.type \in Type \cup {"none"}
                       /\ r.type = "none" <=> r = NoRow
                       /\ r.fresh => r.type \in Type
    /\ NoRefresh \in [by : By, tokens : SUBSET Token] /\ NoRefresh.tokens = {}
<1>1. "none" \notin Type /\ "asked" \notin Type /\ "UNKNOWN" \notin Type
  BY DEF Type
<1>2. NoRow \in Rows /\ NoRow.type = "none" /\ NoRow.fresh = FALSE
  BY DEF Rows, NoRow
<1>3. ASSUME NEW r \in Rows
      PROVE  /\ r.fresh \in BOOLEAN /\ r.type \in Type \cup {"none"}
             /\ r.type = "none" <=> r = NoRow
             /\ r.fresh => r.type \in Type
  <2>1. CASE r = NoRow
    BY <1>1, <1>2, <2>1
  <2>2. CASE r \in [type : Type, fresh : BOOLEAN]
    BY <1>1, <1>2, <2>2
  <2> QED
    BY <2>1, <2>2 DEF Rows
<1>4. NoRefresh \in [by : By, tokens : SUBSET Token] /\ NoRefresh.tokens = {}
  BY DEF NoRefresh, By
<1> QED
  BY <1>1, <1>2, <1>3, <1>4

(* The calls for a batch keep the types of the memory and of the look-ups. *)
LEMMA CallTypes ==
    ASSUME Typed, NEW by \in By, NEW batch \in SUBSET Account, Call(by, batch)
    PROVE  /\ memo' \in [Account -> Type \cup {"none", "UNKNOWN"}]
           /\ look' \in [Looks -> Type \cup {"none", "asked"}]
           /\ UNCHANGED <<code, db, row, flags, refresh>>
<1>1. memo' = [x \in Account |-> IF x \in batch /\ RowServes(x) THEN row[x].type ELSE memo[x]]
  BY DEF Call
<1>2. look' = [k \in Looks |->
                 IF k[1] = by /\ k[2] \in batch /\ memo[k[2]] = "none" /\ ~RowServes(k[2])
                 THEN "asked" ELSE look[k]]
  BY DEF Call
<1>3. \A x \in Account : row[x] \in Rows
  BY DEF Typed
<1>4. memo' \in [Account -> Type \cup {"none", "UNKNOWN"}]
  BY <1>1, <1>3, Words DEF Typed, RowServes
<1>5. look' \in [Looks -> Type \cup {"none", "asked"}]
  BY <1>2 DEF Typed
<1>6. UNCHANGED <<code, db, row, flags, refresh>>
  BY DEF Call
<1> QED
  BY <1>4, <1>5, <1>6

(* What they do for one account: a fresh row starts a new hour in memory,  *)
(* and a look-up of the caller may begin.                                  *)
LEMMA CallLabels ==
    ASSUME Typed, NEW by \in By, NEW batch \in SUBSET Account, Call(by, batch),
           NEW x \in Account, NEW y \in By
    PROVE  /\ memo'[x] = memo[x] \/ (row[x].fresh /\ memo'[x] = row[x].type)
           /\ look'[y, x] = look[y, x] \/ look'[y, x] = "asked"
           /\ y # by => look'[y, x] = look[y, x]
           /\ x \notin batch => look'[y, x] = look[y, x]
<1>1. memo' = [z \in Account |-> IF z \in batch /\ RowServes(z) THEN row[z].type ELSE memo[z]]
  BY DEF Call
<1>2. look' = [k \in Looks |->
                 IF k[1] = by /\ k[2] \in batch /\ memo[k[2]] = "none" /\ ~RowServes(k[2])
                 THEN "asked" ELSE look[k]]
  BY DEF Call
<1>3. <<y, x>> \in Looks /\ <<y, x>>[1] = y /\ <<y, x>>[2] = x
  BY DEF Looks
<1>4. memo'[x] = memo[x] \/ (row[x].fresh /\ memo'[x] = row[x].type)
  BY <1>1 DEF RowServes
<1>5. /\ look'[y, x] = look[y, x] \/ look'[y, x] = "asked"
      /\ y # by => look'[y, x] = look[y, x]
      /\ x \notin batch => look'[y, x] = look[y, x]
  BY <1>2, <1>3
<1> QED
  BY <1>4, <1>5

(* The look-up that ends, and the entry it leaves in memory. *)
LEMMA RememberEffect ==
    ASSUME Typed, NEW k \in Looks, NEW type \in Type \cup {"UNKNOWN"}, Remember(k, type)
    PROVE  /\ k[1] \in By /\ k[2] \in Account /\ k = <<k[1], k[2]>>
           /\ memo' \in [Account -> Type \cup {"none", "UNKNOWN"}]
           /\ LooksWithout(k) \in [Looks -> Type \cup {"none", "asked"}]
           /\ \A x \in Account :
                /\ memo'[x] = IF x = k[2] THEN type ELSE memo[x]
                /\ \A y \in By : LooksWithout(k)[y, x] \in {look[y, x], "none"}
<1>1. k[1] \in By /\ k[2] \in Account /\ k = <<k[1], k[2]>>
  BY DEF Looks
<1>2. \A x \in Account, y \in By : <<y, x>> \in Looks
  BY DEF Looks
<1> QED
  BY <1>1, <1>2 DEF Remember, LooksWithout, Typed

(* A look-up that throws changes the look-ups only by the names they go by. *)
LEMMA ThrowsEffect ==
    ASSUME NEW looks \in [Looks -> Type \cup {"none", "asked"}], left \in SUBSET Account,
           NEW by, Throws(by, looks)
    PROVE  /\ left' \in SUBSET Account
           /\ look' \in [Looks -> Type \cup {"none", "asked"}]
           /\ \A x \in Account, y \in By :
                look'[y, x] = "none" \/ \E z \in By : look'[y, x] = looks[z, x]
<1>1. CASE by # "warm" /\ left' = left /\ look' = looks
  BY <1>1
<1>2. ASSUME left' = {}, NEW s \in By, look' = GoingOn(looks, s)
      PROVE  /\ left' \in SUBSET Account
             /\ look' \in [Looks -> Type \cup {"none", "asked"}]
             /\ \A x \in Account, y \in By :
                  look'[y, x] = "none" \/ \E z \in By : look'[y, x] = looks[z, x]
  <2>1. "warm" \in By /\ \A k \in Looks : <<"warm", k[2]>> \in Looks
    BY DEF By, Looks
  <2>2. ASSUME NEW k \in Looks
        PROVE  GoingOn(looks, s)[k] \in {"none", looks["warm", k[2]], looks[k]}
    BY DEF GoingOn
  <2>3. look' \in [Looks -> Type \cup {"none", "asked"}]
    <3>1. look' = [k \in Looks |-> look'[k]]
      BY <1>2 DEF GoingOn
    <3>2. \A k \in Looks : look'[k] \in Type \cup {"none", "asked"}
      BY <1>2, <2>1, <2>2
    <3> QED
      BY <3>1, <3>2
  <2>4. ASSUME NEW x \in Account, NEW y \in By
        PROVE  look'[y, x] \in {"none", looks["warm", x], looks[y, x]}
    <3>1. <<y, x>> \in Looks /\ <<y, x>>[2] = x
      BY DEF Looks
    <3> QED
      BY <1>2, <2>2, <3>1
  <2> QED
    BY <1>2, <2>1, <2>3, <2>4
<1> QED
  BY <1>1, <1>2 DEF Throws

-----------------------------------------------------------------------------
(* Types.                                                                  *)

LEMMA TypedInit == Init => Typed
<1> SUFFICES ASSUME Init PROVE Typed
  OBVIOUS
<1>1. db \in DB
  <2>1. EmptyDB \in DB
    BY EmptyDBType
  <2> QED
    BY <2>1 DEF Init, DB
<1>2. \A x \in Account : Codes[x] \subseteq Type
  BY AccountTypesAssumption
<1> QED
  BY <1>1, <1>2, Words DEF Init, Typed, Looks

LEMMA TypedNext == Typed /\ [Next]_vars => Typed'
<1> SUFFICES ASSUME Typed, [Next]_vars PROVE Typed'
  OBVIOUS
<1>1. ASSUME Index PROVE Typed'
  <2>1. PICK l \in Log \ db.events : db' = InsertRows(db, {l})
    BY <1>1 DEF Index
  <2>2. db' \in DB
    BY <2>1, InsertRowsType DEF Typed
  <2> QED
    BY <1>1, <2>2 DEF Index, Typed
<1>2. ASSUME ChangeCode PROVE Typed'
  <2>1. PICK x \in Account, c \in Type : c \in Codes[x] /\ code' = [code EXCEPT ![x] = c]
    BY <1>2 DEF ChangeCode
  <2>2. code' \in [Account -> Type] /\ \A y \in Account : code'[y] \in Codes[y]
    BY <2>1 DEF Typed
  <2> QED
    BY <1>2, <2>2 DEF ChangeCode, Typed
<1>3. ASSUME NEW x \in Account, NEW by \in Others, Visit(by, x) PROVE Typed'
  <2>1. Call(by, {x}) /\ left' = left /\ by \in By
    BY <1>3 DEF Visit, By
  <2>2. {x} \in SUBSET Account
    OBVIOUS
  <2> QED
    BY <2>1, <2>2, CallTypes DEF Typed
<1>4. ASSUME NEW x \in Account, RowExpires(x) PROVE Typed'
  <2>1. row[x] \in Rows /\ row[x] # NoRow
    BY <1>4, Words DEF RowExpires, Typed
  <2>2. [row[x] EXCEPT !.fresh = FALSE] \in Rows
    BY <2>1 DEF Rows
  <2>3. row' = [row EXCEPT ![x] = [row[x] EXCEPT !.fresh = FALSE]]
    BY <1>4 DEF RowExpires, Typed
  <2>4. row' \in [Account -> Rows]
    BY <2>2, <2>3 DEF Typed
  <2> QED
    BY <1>4, <2>4 DEF RowExpires, Typed
<1>5. ASSUME NEW x \in Account, MemoExpires(x) PROVE Typed'
  BY <1>5 DEF MemoExpires, Typed
<1>6. ASSUME NEW k \in Looks, Evaluated(k) PROVE Typed'
  <2>1. k[2] \in Account
    BY DEF Looks
  <2>2. look' \in [Looks -> Type \cup {"none", "asked"}]
    BY <1>6, <2>1 DEF Evaluated, Typed
  <2> QED
    BY <1>6, <2>2 DEF Evaluated, Typed
<1>7. ASSUME NEW k \in Looks, Answer(k) PROVE Typed'
  <2>1. look[k] \in Type /\ Remember(k, look[k])
    BY <1>7 DEF Answer
  <2>2. /\ memo' \in [Account -> Type \cup {"none", "UNKNOWN"}]
        /\ look' \in [Looks -> Type \cup {"none", "asked"}]
        /\ k[1] \in By /\ k[2] \in Account
    BY <1>7, <2>1, RememberEffect DEF Answer
  <2>3. [type |-> look[k], fresh |-> TRUE] \in Rows
    BY <2>1 DEF Rows
  <2>4. row' \in [Account -> Rows]
    BY <1>7, <2>3 DEF Answer, Typed
  <2>5. refresh' \in [by : By, tokens : SUBSET Token]
    BY <1>7, <2>2, Words DEF Answer, TokensToRefresh, AdminTokens
  <2> QED
    BY <1>7, <2>2, <2>4, <2>5 DEF Answer, Typed
<1>8. ASSUME Refresh PROVE Typed'
  <2>1. PICK t \in refresh.tokens :
          /\ flags' = [flags EXCEPT ![t] = ShownTypes(t)]
          /\ refresh' = IF refresh.tokens = {t} THEN NoRefresh
                        ELSE [refresh EXCEPT !.tokens = @ \ {t}]
    BY <1>8 DEF Refresh, ShownTypes
  <2>2. ShownTypes(t) \in SUBSET Type
    BY DEF ShownTypes
  <2>3. flags' \in [Token -> SUBSET Type]
    BY <2>1, <2>2 DEF Typed
  <2>4. refresh' \in [by : By, tokens : SUBSET Token]
    BY <2>1, Words DEF Typed
  <2> QED
    BY <1>8, <2>3, <2>4 DEF Refresh, Typed
<1>9. ASSUME WarmUp PROVE Typed'
  <2>1. NeedingTypes \subseteq Account
    BY AdminsType DEF NeedingTypes, Typed
  <2>2. left' \in SUBSET Account
    BY <1>9, <2>1 DEF WarmUp, SubsetsUpTo
  <2> QED
    BY <1>9, <2>2 DEF WarmUp, Typed
<1>10. ASSUME WarmBatch PROVE Typed'
  <2>1. PICK batch \in SubsetsUpTo(Concurrency, left) : Call("warm", batch) /\ left' = left \ batch
    BY <1>10 DEF WarmBatch
  <2>2. batch \in SUBSET Account /\ "warm" \in By
    BY <2>1 DEF SubsetsUpTo, Typed, By
  <2> QED
    BY <2>1, <2>2, CallTypes DEF Typed
<1>11. ASSUME Crash PROVE Typed'
  BY <1>11, Words DEF Crash, Typed
<1>12. ASSUME FlagsBusy PROVE Typed'
  BY <1>12, ThrowsEffect, Words DEF FlagsBusy, Typed
<1>13. ASSUME NEW k \in Looks, NoAnswer(k) PROVE Typed'
  <2>1. Remember(k, "UNKNOWN")
    BY <1>13 DEF NoAnswer
  <2> QED
    BY <1>13, <2>1, RememberEffect DEF NoAnswer, Typed
<1>14. ASSUME NEW k \in Looks, RowBusy(k) PROVE Typed'
  <2>1. look[k] \in Type /\ Remember(k, look[k])
    BY <1>14 DEF RowBusy
  <2>2. /\ memo' \in [Account -> Type \cup {"none", "UNKNOWN"}]
        /\ LooksWithout(k) \in [Looks -> Type \cup {"none", "asked"}]
    BY <2>1, RememberEffect
  <2>3. left' \in SUBSET Account /\ look' \in [Looks -> Type \cup {"none", "asked"}]
    BY <1>14, <2>2, ThrowsEffect DEF RowBusy, Typed
  <2> QED
    BY <1>14, <2>2, <2>3 DEF RowBusy, Typed
<1>15. CASE UNCHANGED vars
  BY <1>15 DEF vars, Typed
<1> QED
  BY <1>1, <1>2, <1>3, <1>4, <1>5, <1>6, <1>7, <1>8, <1>9, <1>10, <1>11, <1>12, <1>13,
     <1>14, <1>15 DEF Next, Working, Trouble

(* The caches hold types, expired entries and UNKNOWN, the flags are sets  *)
(* of types, and a refresh names tokens.                                   *)
THEOREM LabelTypes == Spec => []Typed
<1>1. Init => Typed
  BY TypedInit
<1>2. Typed /\ [Next]_vars => Typed'
  BY TypedNext
<1> QED
  BY <1>1, <1>2, PTL DEF Spec

-----------------------------------------------------------------------------
(* Where labels come from.                                                 *)

(* A label in memory, in a row or in a look-up is the old one, gone, or    *)
(* taken over: memory from a fresh row or an answer, a row from an answer, *)
(* and an answer from the chain.                                           *)
LEMMA LabelSources ==
    ASSUME Typed, [Next]_vars, NEW x \in Account
    PROVE  /\ \/ memo'[x] \in {memo[x], "none", "UNKNOWN"}
              \/ row[x].fresh /\ memo'[x] = row[x].type
              \/ \E by \in By : look[by, x] \in Type /\ memo'[x] = look[by, x]
           /\ \/ row'[x] = row[x]
              \/ row[x].fresh /\ row'[x] = [type |-> row[x].type, fresh |-> FALSE]
              \/ \E by \in By : /\ look[by, x] \in Type
                                /\ row'[x] = [type |-> look[by, x], fresh |-> TRUE]
           /\ \A by \in By : \/ look'[by, x] \in {"none", "asked", code[x]}
                             \/ \E y \in By : look'[by, x] = look[y, x]
<1> DEFINE MemoOK == \/ memo'[x] \in {memo[x], "none", "UNKNOWN"}
                     \/ row[x].fresh /\ memo'[x] = row[x].type
                     \/ \E by \in By : look[by, x] \in Type /\ memo'[x] = look[by, x]
           RowOK == \/ row'[x] = row[x]
                    \/ row[x].fresh /\ row'[x] = [type |-> row[x].type, fresh |-> FALSE]
                    \/ \E by \in By : /\ look[by, x] \in Type
                                      /\ row'[x] = [type |-> look[by, x], fresh |-> TRUE]
           LookOK == \A by \in By : \/ look'[by, x] \in {"none", "asked", code[x]}
                                    \/ \E y \in By : look'[by, x] = look[y, x]
<1>1. CASE UNCHANGED <<row, memo, look>>
  BY <1>1
<1>2. ASSUME NEW by \in By, NEW batch \in SUBSET Account, Call(by, batch)
      PROVE  MemoOK /\ RowOK /\ LookOK
  <2>1. by \in By => memo'[x] = memo[x] \/ (row[x].fresh /\ memo'[x] = row[x].type)
    BY <1>2, CallLabels
  <2>2. ASSUME NEW y \in By PROVE look'[y, x] \in {look[y, x], "asked"}
    BY <1>2, CallLabels
  <2>3. row' = row
    BY <1>2 DEF Call
  <2> QED
    BY <2>1, <2>2, <2>3
<1>3. ASSUME NEW y \in Account, RowExpires(y) PROVE MemoOK /\ RowOK /\ LookOK
  <2>1. row' = [row EXCEPT ![y].fresh = FALSE] /\ row[y].fresh /\ UNCHANGED <<memo, look>>
    BY <1>3 DEF RowExpires
  <2>2. row[y] \in Rows /\ row[y] # NoRow
    BY <2>1, Words DEF Typed
  <2>3. row[y] \in [type : Type, fresh : BOOLEAN]
    BY <2>2 DEF Rows
  <2>4. [row[y] EXCEPT !.fresh = FALSE] = [type |-> row[y].type, fresh |-> FALSE]
    <3> DEFINE r == [row[y] EXCEPT !.fresh = FALSE]
    <3>1. r \in [type : Type, fresh : BOOLEAN] /\ r.type = row[y].type /\ r.fresh = FALSE
      BY <2>3
    <3> HIDE DEF r
    <3>2. r = [type |-> r.type, fresh |-> r.fresh]
      BY <3>1
    <3> QED
      BY <3>1, <3>2 DEF r
  <2>5. row'[x] = IF x = y THEN [row[y] EXCEPT !.fresh = FALSE] ELSE row[x]
    BY <2>1 DEF Typed
  <2> QED
    BY <2>1, <2>4, <2>5
<1>4. ASSUME NEW y \in Account, MemoExpires(y) PROVE MemoOK /\ RowOK /\ LookOK
  BY <1>4 DEF MemoExpires, Typed
<1>5. ASSUME NEW k \in Looks, Evaluated(k) PROVE MemoOK /\ RowOK /\ LookOK
  <2>1. look' = [look EXCEPT ![k] = code[k[2]]] /\ UNCHANGED <<row, memo>>
    BY <1>5 DEF Evaluated
  <2>2. \A by \in By : <<by, x>> \in Looks /\ <<by, x>>[2] = x
    BY DEF Looks
  <2>3. ASSUME NEW by \in By PROVE look'[by, x] \in {look[by, x], code[x]}
    <3>1. CASE k = <<by, x>>
      BY <2>1, <2>2, <3>1 DEF Typed
    <3>2. CASE k # <<by, x>>
      BY <2>1, <2>2, <3>2 DEF Typed
    <3> QED
      BY <3>1, <3>2
  <2> QED
    BY <2>1, <2>3
<1>6. ASSUME NEW k \in Looks, NEW type \in Type \cup {"UNKNOWN"}, Remember(k, type),
             type = "UNKNOWN" \/ type = look[k]
      PROVE  MemoOK /\ \A y \in By : LooksWithout(k)[y, x] \in {look[y, x], "none"}
  <2>1. /\ k[1] \in By /\ k = <<k[1], k[2]>>
        /\ memo'[x] = IF x = k[2] THEN type ELSE memo[x]
        /\ \A y \in By : LooksWithout(k)[y, x] \in {look[y, x], "none"}
    BY <1>6, RememberEffect
  <2>2. x = k[2] => look[k] = look[k[1], x]
    BY <2>1
  <2>3. MemoOK
    BY <1>6, <2>1, <2>2
  <2> QED
    BY <2>1, <2>3
<1>7. ASSUME NEW k \in Looks, Answer(k) PROVE MemoOK /\ RowOK /\ LookOK
  <2>1. /\ look[k] \in Type /\ Remember(k, look[k])
        /\ row' = [row EXCEPT ![k[2]] = [type |-> look[k], fresh |-> TRUE]]
    BY <1>7 DEF Answer
  <2>2. k[1] \in By /\ k[2] \in Account /\ k = <<k[1], k[2]>>
    BY DEF Looks
  <2>3. RowOK
    <3>1. CASE x = k[2]
      <4>1. row'[x] = [type |-> look[k], fresh |-> TRUE] /\ look[k] = look[k[1], x]
        BY <2>1, <2>2, <3>1 DEF Typed
      <4> QED
        BY <2>1, <2>2, <4>1
    <3>2. CASE x # k[2]
      BY <2>1, <2>2, <3>2 DEF Typed
    <3> QED
      BY <3>1, <3>2
  <2> QED
    BY <1>6, <1>7, <2>1, <2>3 DEF Answer
<1>8. ASSUME NEW k \in Looks, NoAnswer(k) PROVE MemoOK /\ RowOK /\ LookOK
  BY <1>6, <1>8 DEF NoAnswer
<1>9. ASSUME NEW k \in Looks, RowBusy(k) PROVE MemoOK /\ RowOK /\ LookOK
  <2>1. look[k] \in Type /\ Remember(k, look[k]) /\ Throws(k[1], LooksWithout(k)) /\ row' = row
    BY <1>9 DEF RowBusy
  <2>2. LooksWithout(k) \in [Looks -> Type \cup {"none", "asked"}]
    BY <2>1, RememberEffect
  <2>3. MemoOK /\ \A y \in By : LooksWithout(k)[y, x] \in {look[y, x], "none"}
    BY <1>6, <2>1
  <2>4. \A y \in By : look'[y, x] = "none" \/ \E z \in By : look'[y, x] = LooksWithout(k)[z, x]
    BY <2>1, <2>2, ThrowsEffect DEF Typed
  <2>5. LookOK
    BY <2>3, <2>4
  <2> QED
    BY <2>1, <2>3, <2>5
<1>10. ASSUME Crash PROVE MemoOK /\ RowOK /\ LookOK
  BY <1>10 DEF Crash, Looks
<1>11. ASSUME NEW y \in Account, NEW by \in Others, Visit(by, y) PROVE MemoOK /\ RowOK /\ LookOK
  <2>1. Call(by, {y}) /\ by \in By /\ {y} \in SUBSET Account
    BY <1>11 DEF Visit, By
  <2> QED
    BY <1>2, <2>1
<1>12. ASSUME WarmBatch PROVE MemoOK /\ RowOK /\ LookOK
  <2>1. PICK batch \in SubsetsUpTo(Concurrency, left) : Call("warm", batch)
    BY <1>12 DEF WarmBatch
  <2>2. batch \in SUBSET Account /\ "warm" \in By
    BY <2>1 DEF SubsetsUpTo, Typed, By
  <2> QED
    BY <1>2, <2>1, <2>2
<1>13. ASSUME FlagsBusy PROVE MemoOK /\ RowOK /\ LookOK
  <2>1. \A y \in By : look'[y, x] = "none" \/ \E z \in By : look'[y, x] = look[z, x]
    BY <1>13, ThrowsEffect DEF FlagsBusy, Typed
  <2> QED
    BY <1>13, <2>1 DEF FlagsBusy
<1> HIDE DEF MemoOK, RowOK, LookOK
<1>14. MemoOK /\ RowOK /\ LookOK
  <2>1. CASE Index \/ ChangeCode \/ Refresh \/ WarmUp \/ UNCHANGED vars
    BY <1>1, <2>1 DEF Index, ChangeCode, Refresh, WarmUp, vars, MemoOK, RowOK, LookOK
  <2> QED
    BY <1>3, <1>4, <1>5, <1>7, <1>8, <1>9, <1>10, <1>11, <1>12, <1>13, <2>1
       DEF Next, Working, Trouble
<1> QED
  BY <1>14 DEF MemoOK, RowOK, LookOK

(* The type in a row changes only to an answer, which makes the row fresh. *)
LEMMA RowTypeSources ==
    ASSUME Typed, [Next]_vars, NEW x \in Account
    PROVE  /\ \/ row'[x].type = row[x].type
              \/ \E by \in By : look[by, x] \in Type /\ row'[x].type = look[by, x]
           /\ row'[x].fresh => \/ row'[x] = row[x]
                              \/ \E by \in By : look[by, x] \in Type /\ row'[x].type = look[by, x]
<1>1. CASE row'[x] = row[x]
  BY <1>1
<1>2. CASE row'[x] = [type |-> row[x].type, fresh |-> FALSE]
  BY <1>2
<1>3. ASSUME NEW by \in By, look[by, x] \in Type,
             row'[x] = [type |-> look[by, x], fresh |-> TRUE]
      PROVE  row'[x].type = look[by, x]
  <2> DEFINE c == look[by, x]
  <2>1. [type |-> c, fresh |-> TRUE].type = c
    OBVIOUS
  <2> QED
    BY <1>3, <2>1
<1> QED
  BY <1>1, <1>2, <1>3, LabelSources

(* The flags of a token are the old ones or read from the rows at once.    *)
LEMMA FlagSources ==
    ASSUME Typed, [Next]_vars, NEW t \in Token
    PROVE  flags'[t] = flags[t] \/ flags'[t] = ShownTypes(t)
<1>1. ASSUME Refresh PROVE flags'[t] = flags[t] \/ flags'[t] = ShownTypes(t)
  BY <1>1 DEF Refresh, ShownTypes, Typed
<1>2. CASE flags' = flags
  BY <1>2
<1> QED
  BY <1>1, <1>2 DEF Next, Working, Trouble, vars, Index, ChangeCode, RowExpires, MemoExpires,
     Evaluated, Answer, WarmUp, Crash, FlagsBusy, NoAnswer, RowBusy, Visit, WarmBatch, Call

(* Only the indexer writes to the store here, and it adds one row.         *)
LEMMA StoreGrows ==
    ASSUME Typed, [Next]_vars
    PROVE  \/ db' = db
           \/ \E l \in Log : db' = InsertRows(db, {l}) /\ UNCHANGED <<row, flags, refresh>>
<1>1. ASSUME Index
      PROVE  \E l \in Log : db' = InsertRows(db, {l}) /\ UNCHANGED <<row, flags, refresh>>
  BY <1>1 DEF Index
<1> QED
  BY <1>1 DEF Next, Working, Trouble, vars, ChangeCode, RowExpires, MemoExpires, Evaluated,
     Answer, WarmUp, Crash, FlagsBusy, NoAnswer, RowBusy, Visit, WarmBatch, Call, Refresh

-----------------------------------------------------------------------------
(* Labels and flags.                                                       *)

(* admin_active, which the filter asks first, says whether there are admins. *)
AdminShown == \A t \in Token : db.adminActive[t] <=> Admins(t) # {}

(* A row recomputes the column if it changes an admin role of the token,   *)
(* and can change nothing about it otherwise.                              *)
LEMMA AdminRecomputed ==
    ASSUME NEW d \in DB, NEW rows \in SUBSET Log, NEW t \in Token,
           d.adminActive[t] <=> CurrentAdmin(d.events, t)
    PROVE  InsertRows(d, rows).adminActive[t] <=> CurrentAdmin(InsertRows(d, rows).events, t)
<1> DEFINE new == rows \ d.events
           all == rows \cup d.events
<1>1. InsertRows(d, rows).events = all
  BY InsertRowsType
<1>2. InsertRows(d, rows).adminActive[t] = IF \E l \in new : ChangesAdmin(l, t)
                                           THEN CurrentAdmin(all, t) ELSE d.adminActive[t]
  BY DEF InsertRows, DB
<1>3. ASSUME ~ \E l \in new : ChangesAdmin(l, t)
      PROVE  CurrentAdmin(all, t) <=> CurrentAdmin(d.events, t)
  <2>1. \A l \in all : ChangesAdmin(l, t) => l \in d.events
    BY <1>3
  <2> QED
    BY <2>1 DEF CurrentAdmin, ChangesAdmin, IsRoleChange
<1> QED
  BY <1>1, <1>2, <1>3

LEMMA AdminsMeaning == \A t : CurrentAdmin(db.events, t) <=> Admins(t) # {}
BY DEF CurrentAdmin, Admins

(* The tokens with the flag admin_active are those that have admins, after *)
(* any role changes in any order of arrival.                               *)
THEOREM AdminColumnShown == Spec => []AdminShown
<1>1. Init => AdminShown
  BY DEF Init, AdminShown, Admins, EmptyDB
<1>2. Typed /\ AdminShown /\ [Next]_vars => AdminShown'
  <2> SUFFICES ASSUME Typed, AdminShown, [Next]_vars PROVE AdminShown'
    OBVIOUS
  <2>1. CASE db' = db
    BY <2>1 DEF AdminShown, Admins
  <2>2. ASSUME NEW l \in Log, db' = InsertRows(db, {l}) PROVE AdminShown'
    <3>1. db \in DB /\ {l} \in SUBSET Log
      BY DEF Typed
    <3>2. \A t \in Token : db.adminActive[t] <=> CurrentAdmin(db.events, t)
      BY AdminsMeaning DEF AdminShown
    <3>3. \A t \in Token : db'.adminActive[t] <=> CurrentAdmin(db'.events, t)
      BY <2>2, <3>1, <3>2, AdminRecomputed
    <3>4. \A t : CurrentAdmin(db'.events, t) <=> Admins(t)' # {}
      BY DEF CurrentAdmin, Admins
    <3> QED
      BY <3>3, <3>4 DEF AdminShown
  <2> QED
    BY <2>1, <2>2, StoreGrows
<1> QED
  BY <1>1, <1>2, LabelTypes, PTL DEF Spec

(* Accounts that an admin role of t was granted to at some time. *)
EverAdmins(t) ==
    {g.account : g \in {k \in db.events :
        k.kind = "RoleGranted" /\ k.token = t /\ k.role \in AdminRole}}

(* No cache, no row and no look-up holds a type that its account never     *)
(* has, and no flag stands for a type that no admin, present or former,    *)
(* ever has: an answer is never filed under another account.               *)
NoTypeInvented ==
    /\ \A x \in Account :
        /\ memo[x] \in Codes[x] \cup {"none", "UNKNOWN"}
        /\ row[x].type \in Codes[x] \cup {"none"}
        /\ \A by \in By : look[by, x] \in Codes[x] \cup {"none", "asked"}
    /\ \A t \in Token : \A c \in flags[t] : \E x \in EverAdmins(t) : c \in Codes[x]

THEOREM TypesNotInvented == Spec => []NoTypeInvented
<1>1. Init => NoTypeInvented
  <2> SUFFICES ASSUME Init PROVE NoTypeInvented
    OBVIOUS
  <2>1. \A x \in Account : \A by \in By : look[by, x] = "none"
    BY DEF Init, Looks
  <2>2. \A x \in Account : memo[x] = "none" /\ row[x] = NoRow
    BY DEF Init
  <2>3. \A t \in Token : flags[t] = {}
    BY DEF Init
  <2> QED
    BY <2>1, <2>2, <2>3, Words DEF NoTypeInvented
<1>2. Typed /\ NoTypeInvented /\ [Next]_vars => NoTypeInvented'
  <2> SUFFICES ASSUME Typed, NoTypeInvented, [Next]_vars PROVE NoTypeInvented'
    OBVIOUS
  <2>1. ASSUME NEW x \in Account
        PROVE  /\ memo'[x] \in Codes[x] \cup {"none", "UNKNOWN"}
               /\ row'[x].type \in Codes[x] \cup {"none"}
               /\ \A by \in By : look'[by, x] \in Codes[x] \cup {"none", "asked"}
    <3>1. code[x] \in Codes[x] /\ row[x] \in Rows
      BY DEF Typed
    <3>2. /\ memo[x] \in Codes[x] \cup {"none", "UNKNOWN"}
          /\ row[x].type \in Codes[x] \cup {"none"}
          /\ \A by \in By : look[by, x] \in Codes[x] \cup {"none", "asked"}
      BY DEF NoTypeInvented
    <3>3. \A by \in By : look[by, x] \in Type => look[by, x] \in Codes[x]
      BY <3>2, Words
    <3>4. row[x].fresh => row[x].type \in Codes[x]
      BY <3>1, <3>2, Words
    <3>5. memo'[x] \in Codes[x] \cup {"none", "UNKNOWN"}
      BY <3>2, <3>3, <3>4, LabelSources
    <3>6. row'[x].type \in Codes[x] \cup {"none"}
      <4>1. row'[x].type = row[x].type \/ \E by \in By : look[by, x] \in Type /\ row'[x].type = look[by, x]
        BY RowTypeSources
      <4> QED
        BY <3>2, <3>3, <4>1
    <3>7. ASSUME NEW by \in By PROVE look'[by, x] \in Codes[x] \cup {"none", "asked"}
      <4>1. look'[by, x] \in {"none", "asked", code[x]} \/ \E y \in By : look'[by, x] = look[y, x]
        BY LabelSources
      <4> QED
        BY <3>1, <3>2, <4>1
    <3> QED
      BY <3>5, <3>6, <3>7
  <2>2. ASSUME NEW t \in Token, NEW c \in flags'[t]
        PROVE  \E x \in EverAdmins(t)' : c \in Codes[x]
    <3>1. EverAdmins(t) \subseteq EverAdmins(t)'
      <4>1. db.events \subseteq db'.events
        <5>1. ASSUME NEW l \in Log, db' = InsertRows(db, {l}) PROVE db.events \subseteq db'.events
          <6>1. db \in DB /\ {l} \in SUBSET Log
            BY DEF Typed
          <6>2. InsertRows(db, {l}).events = {l} \cup db.events
            BY <6>1, InsertRowsType
          <6> QED
            BY <5>1, <6>2
        <5> QED
          BY <5>1, StoreGrows
      <4> QED
        BY <4>1 DEF EverAdmins
    <3>2. Admins(t) \subseteq EverAdmins(t) /\ Admins(t) \in SUBSET Account
      BY AdminsType DEF Admins, EverAdmins, Typed
    <3>3. CASE c \in flags[t]
      BY <3>1, <3>3 DEF NoTypeInvented
    <3>4. CASE c \in ShownTypes(t)
      <4>1. PICK x \in Admins(t) : c = row[x].type /\ c \in Type
        BY <3>4 DEF ShownTypes
      <4>2. c \in Codes[x]
        BY <3>2, <4>1, Words DEF NoTypeInvented
      <4> QED
        BY <3>1, <3>2, <4>1, <4>2
    <3> QED
      BY <2>2, <3>3, <3>4, FlagSources
  <2> QED
    BY <2>1, <2>2 DEF NoTypeInvented
<1> QED
  BY <1>1, <1>2, LabelTypes, PTL DEF Spec

-----------------------------------------------------------------------------
(* What is right stays right.                                              *)

(* No cache and no look-up has a wrong type for x; UNKNOWN claims nothing. *)
Right(x) ==
    /\ memo[x] \in {"none", "UNKNOWN", code[x]}
    /\ row[x].fresh => row[x].type = code[x]
    /\ \A by \in By : look[by, x] \in {"none", "asked", code[x]}

(* Only a change of the account itself makes a label wrong: no crash, no   *)
(* failure, no late answer, no expiry and no other account does.           *)
LabelStaysRight ==
    \A x \in Account : Right(x) /\ code'[x] = code[x] => Right(x)'

LEMMA RightStep == Typed /\ [Next]_vars => LabelStaysRight
<1> SUFFICES ASSUME Typed, [Next]_vars, NEW x \in Account, Right(x), code'[x] = code[x]
             PROVE  Right(x)'
  BY DEF LabelStaysRight
<1>1. code[x] \in Type /\ row[x] \in Rows
  BY DEF Typed
<1>2. \A by \in By : look[by, x] \in Type => look[by, x] = code[x]
  BY Words DEF Right
<1>3. memo'[x] \in {"none", "UNKNOWN", code'[x]}
  BY <1>2, LabelSources DEF Right
<1>4. row'[x].fresh => row'[x].type = code'[x]
  BY <1>2, RowTypeSources DEF Right
<1>5. ASSUME NEW by \in By PROVE look'[by, x] \in {"none", "asked", code'[x]}
  <2>1. look'[by, x] \in {"none", "asked", code[x]} \/ \E y \in By : look'[by, x] = look[y, x]
    BY LabelSources
  <2> QED
    BY <2>1 DEF Right
<1> QED
  BY <1>3, <1>4, <1>5 DEF Right

THEOREM LabelsStayRight == Spec => [][LabelStaysRight]_vars
<1>1. Typed /\ [Next]_vars => [LabelStaysRight]_vars
  BY RightStep
<1> QED
  BY <1>1, LabelTypes, PTL DEF Spec

(* The flags of t say what its rows say, or are about to be rewritten. *)
Owed(t) == t \in refresh.tokens \/ flags[t] = ShownTypes(t)

(* The rewriting of the flags of t is broken off. *)
BreaksOff(t) == t \in refresh.tokens /\ (Crash \/ FlagsBusy)

(* Flags and rows part only when the roles change or a rewriting breaks    *)
(* off: whoever writes a row, for a visitor or for the warm-up, has the    *)
(* flags of every token that the account administers rewritten.            *)
FlagFollowsRows ==
    \A t \in Token : Owed(t) /\ Admins(t)' = Admins(t) /\ ~BreaksOff(t) => Owed(t)'

LEMMA OwedStep == Typed /\ [Next]_vars => FlagFollowsRows
<1> SUFFICES ASSUME Typed, [Next]_vars, NEW t \in Token,
                    Owed(t), Admins(t)' = Admins(t), ~BreaksOff(t)
             PROVE  Owed(t)'
  BY DEF FlagFollowsRows
<1>1. Admins(t) \in SUBSET Account
  BY AdminsType DEF Typed
<1>2. ASSUME \A x \in Admins(t) : row'[x].type = row[x].type
      PROVE  ShownTypes(t)' = ShownTypes(t)
  BY <1>2 DEF ShownTypes
<1>3. CASE flags' = flags /\ refresh' = refresh /\ \A x \in Admins(t) : row'[x].type = row[x].type
  BY <1>2, <1>3 DEF Owed
<1>4. ASSUME NEW k \in Looks, Answer(k) PROVE Owed(t)'
  <2>1. /\ refresh.tokens = {} /\ flags' = flags
        /\ row' = [row EXCEPT ![k[2]] = [type |-> look[k], fresh |-> TRUE]]
        /\ refresh' = IF AdminTokens(k[2]) = {} THEN NoRefresh
                      ELSE [by |-> k[1], tokens |-> AdminTokens(k[2])]
    BY <1>4 DEF Answer, Remember, Quiet, TokensToRefresh
  <2>2. CASE k[2] \in Admins(t)
    <3>1. t \in AdminTokens(k[2])
      BY <2>2 DEF AdminTokens
    <3> QED
      BY <2>1, <3>1 DEF Owed
  <2>3. CASE k[2] \notin Admins(t)
    <3>1. \A x \in Admins(t) : row'[x].type = row[x].type
      BY <1>1, <2>1, <2>3 DEF Typed
    <3>2. flags[t] = ShownTypes(t)
      BY <2>1 DEF Owed
    <3> QED
      BY <1>2, <2>1, <3>1, <3>2 DEF Owed
  <2> QED
    BY <2>2, <2>3
<1>5. ASSUME Refresh PROVE Owed(t)'
  <2>1. PICK u \in refresh.tokens :
          /\ flags' = [flags EXCEPT ![u] = ShownTypes(u)]
          /\ refresh' = IF refresh.tokens = {u} THEN NoRefresh
                        ELSE [refresh EXCEPT !.tokens = @ \ {u}]
          /\ row' = row
    BY <1>5 DEF Refresh, ShownTypes
  <2>2. ShownTypes(t)' = ShownTypes(t)
    BY <1>2, <2>1
  <2>3. CASE u = t
    BY <2>1, <2>2, <2>3 DEF Owed, Typed
  <2>4. CASE u # t
    <3>1. t \in refresh.tokens => t \in refresh'.tokens
      BY <2>1, <2>4 DEF Typed
    <3>2. flags'[t] = flags[t]
      BY <2>1, <2>4 DEF Typed
    <3> QED
      BY <2>2, <3>1, <3>2 DEF Owed
  <2> QED
    BY <2>3, <2>4
<1>6. ASSUME Crash \/ FlagsBusy PROVE Owed(t)'
  <2>1. flags[t] = ShownTypes(t)
    BY <1>6 DEF BreaksOff, Owed
  <2>2. flags' = flags /\ row' = row
    BY <1>6 DEF Crash, FlagsBusy
  <2> QED
    BY <1>2, <2>1, <2>2 DEF Owed
<1>7. ASSUME NEW x \in Account, RowExpires(x) PROVE Owed(t)'
  <2>1. row' = [row EXCEPT ![x].fresh = FALSE] /\ UNCHANGED <<flags, refresh>>
    BY <1>7 DEF RowExpires
  <2>2. \A y \in Admins(t) : row'[y].type = row[y].type
    <3>1. ASSUME NEW y \in Account PROVE row'[y].type = row[y].type
      <4>1. row[y] \in Rows /\ row[x] \in Rows
        BY DEF Typed
      <4>2. [row[y] EXCEPT !.fresh = FALSE].type = row[y].type
        BY <4>1 DEF Rows, NoRow
      <4> QED
        BY <2>1, <4>2 DEF Typed
    <3> QED
      BY <1>1, <3>1
  <2> QED
    BY <1>3, <2>1, <2>2
<1>8. CASE flags' = flags /\ refresh' = refresh /\ row' = row
  BY <1>3, <1>8
<1> QED
  BY <1>4, <1>5, <1>6, <1>7, <1>8 DEF Next, Working, Trouble, vars, Index, ChangeCode,
     MemoExpires, Evaluated, WarmUp, NoAnswer, RowBusy, Visit, WarmBatch, Call

THEOREM FlagsFollowRows == Spec => [][FlagFollowsRows]_vars
<1>1. Typed /\ [Next]_vars => [FlagFollowsRows]_vars
  BY OwedStep
<1> QED
  BY <1>1, LabelTypes, PTL DEF Spec

(* The filter has t right: fresh or not, the rows of its admins name the   *)
(* types they have, nothing on the way says otherwise, and so do the flags.*)
Settled(t) ==
    /\ \A x \in Admins(t) : Right(x) /\ row[x].type = code[x]
    /\ Admins(t) # {} => flags[t] = {code[x] : x \in Admins(t)}

(* Once it has, only a change of the admins of t, or of the type of one,   *)
(* takes that away: the server may crash, SQLite be busy, look-ups fail    *)
(* and answers come late.                                                  *)
FilterStays ==
    \A t \in Token :
        /\ Settled(t) /\ Admins(t)' = Admins(t)
        /\ \A x \in Admins(t) : code'[x] = code[x]
        => Settled(t)'

LEMMA SettledStep == Typed /\ [Next]_vars => FilterStays
<1> SUFFICES ASSUME Typed, [Next]_vars, NEW t \in Token, Settled(t), Admins(t)' = Admins(t),
                    \A x \in Admins(t) : code'[x] = code[x]
             PROVE  Settled(t)'
  BY DEF FilterStays
<1>1. Admins(t) \in SUBSET Account
  BY AdminsType DEF Typed
<1>2. ASSUME NEW x \in Admins(t) PROVE Right(x)' /\ row'[x].type = code'[x]
  <2>1. x \in Account /\ Right(x) /\ row[x].type = code[x] /\ code'[x] = code[x]
    BY <1>1 DEF Settled
  <2>2. Right(x)'
    BY <2>1, RightStep DEF LabelStaysRight
  <2>3. \A by \in By : look[by, x] \in Type => look[by, x] = code[x]
    BY <2>1, Words DEF Right
  <2>4. row'[x].type = code[x]
    BY <2>1, <2>3, RowTypeSources
  <2> QED
    BY <2>1, <2>2, <2>4
<1>3. ASSUME Admins(t) # {} PROVE flags'[t] = {code'[x] : x \in Admins(t)}
  <2>1. flags[t] = {code[x] : x \in Admins(t)}
    BY <1>3 DEF Settled
  <2>2. ShownTypes(t) = {code[x] : x \in Admins(t)}
    <3>1. \A x \in Admins(t) : row[x].type = code[x] /\ code[x] \in Type
      BY <1>1 DEF Settled, Typed
    <3> QED
      BY <3>1 DEF ShownTypes
  <2>3. flags'[t] = {code[x] : x \in Admins(t)}
    BY <2>1, <2>2, FlagSources
  <2> QED
    BY <2>3
<1> QED
  BY <1>2, <1>3 DEF Settled

THEOREM FilterStaysRight == Spec => [][FilterStays]_vars
<1>1. Typed /\ [Next]_vars => [FilterStays]_vars
  BY SettledStep
<1> QED
  BY <1>1, LabelTypes, PTL DEF Spec
=============================================================================
