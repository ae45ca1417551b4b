----------------------------- MODULE RpcProofs ------------------------------
(***************************************************************************)
(* Proofs about what goes over the network.                                *)
(*                                                                         *)
(* RpcTransport, for any number of calls, endpoints, methods and slots:    *)
(*   Shape    types, and what a call in each phase knows                   *)
(*   Queued   the queue against the phases of the calls                    *)
(*   Counted  the counter against the calls that hold a slot               *)
(*   ChainInv, UpInv   who is asked and believed, and who can still be asked *)
(*                                                                         *)
(* LogSplit: for any logs, addresses and range, and any limits of an       *)
(* endpoint, a query that is split has the answer it would have had whole. *)
(* Halving ends because the halves are smaller (Extent); what holds of     *)
(* every query whose smaller queries it holds of holds of all.             *)
(*                                                                         *)
(* Creators: for any number of tokens, any size of a batch and any         *)
(* endpoints, what a run with --fill-creators leaves behind.               *)
(*   Filling   what is left of a batch that has found nothing so far       *)
(***************************************************************************)
EXTENDS RpcTransport, LogSplit, Creators, FiniteSetTheorems, SequenceTheorems,
        WellFoundedInduction, TLAPS

-----------------------------------------------------------------------------
(* The transport.                                                          *)

Holders == {c \in Call : HoldsSlot(c)}

(* A call that is under way has a method, and one in the loop an endpoint. *)
CallShape(r) ==
    /\ r.pc # "idle" => r.method \in Method
    /\ r.pc \in {"check", "ask"} => r.at \in Endpoint

Shape ==
    /\ queue \in Seq(Call)
    /\ cooling \subseteq Endpoint \X Method
    /\ verified \subseteq Endpoint
    /\ preferred \in [Method -> Endpoint \cup {None}]
    /\ call \in [Call -> CallState]
    /\ \A c \in Call : CallShape(call[c])

Queued ==
    /\ \A c \in Call : At(c, "queued") <=> \E i \in DOMAIN queue : queue[i] = c
    /\ \A i, j \in DOMAIN queue : queue[i] = queue[j] => i = j

Counted ==
    /\ active \in Nat /\ active <= Slots
    /\ active = Cardinality(Holders)
    /\ queue # <<>> => active = Slots

IInv == Shape /\ Queued /\ Counted

-----------------------------------------------------------------------------
LEMMA EndedState ==
    ASSUME NEW how \in {"none", "answer", "split", "failed"}, NEW by \in Endpoint \cup {None}
    PROVE  /\ Ended(how, by) \in CallState /\ CallShape(Ended(how, by))
           /\ Ended(how, by).pc = "idle"
           /\ Ended(how, by).last = how /\ Ended(how, by).by = by
BY DEF Ended, Fresh, CallState, CallShape, PC

(* A step that changes one call and not its hold on a slot. *)
LEMMA SameHold ==
    ASSUME IInv, NEW c \in Call, HoldsSlot(c), NEW r \in CallState, CallShape(r),
           r.pc \in {"woken", "check", "ask"},
           call' = [call EXCEPT ![c] = r], UNCHANGED <<active, queue>>
    PROVE  /\ call' \in [Call -> CallState] /\ \A d \in Call : CallShape(call[d])'
           /\ Queued' /\ Counted'
<1>1. \A d \in Call : call'[d] = IF d = c THEN r ELSE call[d]
  BY DEF IInv, Shape
<1>2. call' \in [Call -> CallState]
  BY DEF IInv, Shape
<1>3. \A d \in Call : CallShape(call[d])'
  BY <1>1 DEF IInv, Shape, CallShape
<1>4. Queued'
  <2>1. call[c].pc # "queued" /\ r.pc # "queued"
    BY DEF HoldsSlot
  <2> QED
    BY <1>1, <2>1 DEF IInv, Queued, At
<1>5. Holders' = Holders
  BY <1>1 DEF Holders, HoldsSlot
<1>6. Counted'
  BY <1>5 DEF IInv, Counted
<1> QED
  BY <1>2, <1>3, <1>4, <1>6

(* The finally block: the slot is freed or handed to the oldest waiting    *)
(* call, and never both or neither.                                        *)
LEMMA ReleaseHolds ==
    ASSUME IInv, NEW c \in Call, HoldsSlot(c), NEW r \in CallState, CallShape(r),
           r.pc = "idle", Release(c, r)
    PROVE  /\ queue' \in Seq(Call)
           /\ call' \in [Call -> CallState] /\ \A d \in Call : CallShape(call[d])'
           /\ Queued' /\ Counted'
<1>0. /\ queue \in Seq(Call) /\ call \in [Call -> CallState]
      /\ \A d \in Call : CallShape(call[d])
      /\ active \in Nat /\ active <= Slots /\ active = Cardinality(Holders)
      /\ c \in Holders /\ IsFiniteSet(Holders)
  <2>1. IsFiniteSet(Holders)
    BY FS_Subset, TransportAssumption DEF Holders
  <2> QED
    BY <2>1 DEF IInv, Shape, Counted, Holders
<1>1. CASE queue = <<>>
  <2>1. active' = active - 1 /\ queue' = <<>> /\ call' = [call EXCEPT ![c] = r]
    BY <1>1 DEF Release
  <2>2. \A d \in Call : call'[d] = IF d = c THEN r ELSE call[d]
    BY <1>0, <2>1
  <2>3. call' \in [Call -> CallState] /\ \A d \in Call : CallShape(call[d])'
    BY <1>0, <2>1, <2>2 DEF CallShape
  <2>4. Queued'
    <3>1. call[c].pc # "queued"
      BY DEF HoldsSlot
    <3> QED
      BY <1>1, <2>1, <2>2, <3>1 DEF IInv, Queued, At
  <2>5. Holders' = Holders \ {c}
    BY <2>2 DEF Holders, HoldsSlot
  <2>6. Cardinality(Holders') = active - 1
    BY <1>0, <2>5, FS_RemoveElement
  <2>7. active - 1 \in Nat
    <3>1. Cardinality(Holders) # 0
      BY <1>0, FS_EmptySet
    <3> QED
      BY <1>0, <3>1
  <2>8. Counted'
    BY <1>0, <2>1, <2>6, <2>7, TransportAssumption DEF Counted
  <2> QED
    BY <1>0, <1>1, <2>1, <2>3, <2>4, <2>8
<1>2. CASE queue # <<>>
  <2> DEFINE h == Head(queue)
  <2>0. h \in Call /\ Tail(queue) \in Seq(Call) /\ Len(Tail(queue)) = Len(queue) - 1
        /\ Len(queue) \in Nat /\ h = queue[1] /\ 1 \in DOMAIN queue
        /\ DOMAIN queue = 1 .. Len(queue)
        /\ DOMAIN Tail(queue) = 1 .. (Len(queue) - 1)
        /\ \A i \in 1 .. (Len(queue) - 1) : Tail(queue)[i] = queue[i + 1]
    BY <1>0, <1>2, HeadTailProperties, LenProperties, EmptySeq
  <2>1. At(h, "queued") /\ h # c
    BY <2>0 DEF IInv, Queued, At, HoldsSlot
  <2>2. active' = active /\ queue' = Tail(queue)
        /\ call' = [call EXCEPT ![c] = r, ![h].pc = "woken"]
    BY <1>2 DEF Release
  <2>3. \A d \in Call : call'[d] = IF d = c THEN r
                                   ELSE IF d = h THEN [call[h] EXCEPT !.pc = "woken"]
                                   ELSE call[d]
    BY <1>0, <2>0, <2>1, <2>2
  <2>4. [call[h] EXCEPT !.pc = "woken"] \in CallState
        /\ CallShape([call[h] EXCEPT !.pc = "woken"])
        /\ [call[h] EXCEPT !.pc = "woken"].pc = "woken"
    BY <1>0, <2>0, <2>1 DEF CallState, CallShape, At, PC
  <2>5. call' \in [Call -> CallState]
    BY <1>0, <2>2, <2>4, <2>0
  <2>6. \A d \in Call : CallShape(call[d])'
    BY <1>0, <2>3, <2>4 DEF CallShape
  <2>7. Queued'
    <3>1. ASSUME NEW d \in Call
          PROVE  At(d, "queued")' <=> At(d, "queued") /\ d # h
      BY <2>1, <2>3, <2>4, <3>1 DEF At, HoldsSlot
    <3>2. ASSUME NEW d \in Call
          PROVE  (\E i \in DOMAIN queue' : queue'[i] = d)
                    <=> (d # h /\ \E i \in DOMAIN queue : queue[i] = d)
      <4>1. CASE d = h
        <5>1. \A i \in DOMAIN queue' : i + 1 \in DOMAIN queue /\ queue'[i] = queue[i + 1]
          BY <2>0, <2>2
        <5>2. \A i \in DOMAIN queue' : i + 1 # 1
          BY <2>0, <2>2
        <5> QED
          BY <2>0, <4>1, <5>1, <5>2 DEF IInv, Queued
      <4>2. CASE d # h
        <5>1. ASSUME NEW i \in DOMAIN queue, queue[i] = d
              PROVE  \E j \in DOMAIN queue' : queue'[j] = d
          <6>1. i # 1
            BY <2>0, <4>2, <5>1
          <6>2. i - 1 \in 1 .. (Len(queue) - 1)
            BY <2>0, <6>1
          <6>3. Tail(queue)[i - 1] = queue[(i - 1) + 1] /\ (i - 1) + 1 = i
            BY <2>0, <6>2
          <6> QED
            BY <2>0, <2>2, <5>1, <6>2, <6>3
        <5>2. ASSUME NEW j \in DOMAIN queue', queue'[j] = d
              PROVE  \E i \in DOMAIN queue : queue[i] = d
          <6>1. j \in 1 .. (Len(queue) - 1) /\ queue[j + 1] = d
            BY <2>0, <2>2, <5>2
          <6>2. j + 1 \in DOMAIN queue
            BY <2>0, <6>1
          <6> QED
            BY <6>1, <6>2
        <5> QED
          BY <4>2, <5>1, <5>2
      <4> QED
        BY <4>1, <4>2
    <3>3. ASSUME NEW i \in DOMAIN queue', NEW j \in DOMAIN queue', queue'[i] = queue'[j]
          PROVE  i = j
      <4>1. i \in 1 .. (Len(queue) - 1) /\ j \in 1 .. (Len(queue) - 1)
            /\ queue[i + 1] = queue[j + 1]
        BY <2>0, <2>2, <3>3
      <4>2. i + 1 \in DOMAIN queue /\ j + 1 \in DOMAIN queue
        BY <2>0, <4>1
      <4>3. i + 1 = j + 1
        BY <4>1, <4>2 DEF IInv, Queued
      <4> QED
        BY <4>1, <4>3
    <3>4. \A d \in Call : At(d, "queued") <=> \E i \in DOMAIN queue : queue[i] = d
      BY DEF IInv, Queued
    <3>5. \A d \in Call : At(d, "queued")' <=> \E i \in DOMAIN queue' : queue'[i] = d
      BY <3>1, <3>2, <3>4
    <3> QED
      BY <3>3, <3>5 DEF Queued
  <2>8. Holders' = (Holders \ {c}) \cup {h}
    BY <2>0, <2>1, <2>3, <2>4 DEF Holders, HoldsSlot
  <2>9. h \notin Holders
    BY <2>1 DEF Holders, HoldsSlot, At
  <2>10. Cardinality(Holders') = active
    <3>1. IsFiniteSet(Holders \ {c}) /\ Cardinality(Holders \ {c}) = active - 1
      BY <1>0, FS_RemoveElement
    <3>2. Cardinality((Holders \ {c}) \cup {h}) = active - 1 + 1
      BY <2>9, <3>1, FS_AddElement
    <3> QED
      BY <1>0, <2>8, <3>2
  <2>11. Counted'
    <3>1. active = Slots
      BY <1>2 DEF IInv, Counted
    <3> QED
      BY <1>0, <2>2, <2>10, <3>1 DEF Counted
  <2> QED
    BY <2>0, <2>2, <2>5, <2>6, <2>7, <2>11
<1> QED
  BY <1>1, <1>2

(* The invariant on the variables a turn of the loop may change. *)
CallPart ==
    /\ queue' \in Seq(Call)
    /\ call' \in [Call -> CallState] /\ \A d \in Call : CallShape(call[d])'
    /\ Queued' /\ Counted'

LEMMA TryNextHolds ==
    ASSUME IInv, NEW c \in Call, HoldsSlot(c),
           NEW left \in SUBSET Endpoint, NEW lead \in Endpoint \cup {None},
           TryNext(c, left, lead)
    PROVE  CallPart
<1>1. CASE left = {}
  BY <1>1, EndedState, ReleaseHolds DEF TryNext, CallPart
<1>2. CASE left # {}
  <2>1. PICK e \in left :
          /\ call' = [call EXCEPT ![c] =
                [call[c] EXCEPT !.pc = IF e \in verified THEN "ask" ELSE "check",
                          !.at = e, !.left = left \ {e}, !.lead = lead]]
          /\ UNCHANGED <<active, queue>>
    BY <1>2 DEF TryNext
  <2> DEFINE r == [call[c] EXCEPT !.pc = IF e \in verified THEN "ask" ELSE "check",
                          !.at = e, !.left = left \ {e}, !.lead = lead]
  <2>2. call[c] \in CallState /\ CallShape(call[c]) /\ call[c].pc # "idle"
    BY DEF IInv, Shape, HoldsSlot
  <2>3. r \in CallState
    BY <2>2 DEF CallState, PC
  <2>4. r.pc \in {"check", "ask"} /\ r.at = e /\ r.method = call[c].method
    BY <2>2 DEF CallState
  <2>5. CallShape(r)
    BY <2>2, <2>4 DEF CallShape
  <2>6. call' = [call EXCEPT ![c] = r]
    BY <2>1
  <2> HIDE DEF r
  <2>7. queue' \in Seq(Call)
    BY <2>1 DEF IInv, Shape
  <2> QED
    BY <2>1, <2>3, <2>4, <2>5, <2>6, <2>7, SameHold DEF CallPart
<1> QED
  BY <1>1, <1>2

LEMMA GiveUpHolds ==
    ASSUME IInv, NEW c \in Call, At(c, "check") \/ At(c, "ask"), GiveUp(c)
    PROVE  IInv'
<1>1. call[c] \in CallState /\ CallShape(call[c]) /\ HoldsSlot(c)
  BY DEF IInv, Shape, HoldsSlot, At
<1>2. Target(c) \in Endpoint /\ call[c].method \in Method
  BY <1>1 DEF CallShape, At, Target
<1>3. CallPart
  <2>1. call[c].left \in SUBSET Endpoint /\ call[c].lead \in Endpoint \cup {None}
    BY <1>1 DEF CallState
  <2> QED
    BY <1>1, <2>1, TryNextHolds DEF GiveUp
<1>4. cooling' \subseteq Endpoint \X Method
  BY <1>2 DEF GiveUp, IInv, Shape
<1> QED
  BY <1>3, <1>4 DEF GiveUp, CallPart, IInv, Shape

LEMMA SendHolds ==
    ASSUME IInv, NEW c \in Call, Send(c)
    PROVE  IInv'
<1>0. /\ queue \in Seq(Call) /\ call \in [Call -> CallState]
      /\ \A d \in Call : CallShape(call[d])
      /\ active \in Nat /\ active <= Slots /\ active = Cardinality(Holders)
      /\ IsFiniteSet(Holders) /\ call[c].pc = "idle" /\ Slots \in Nat
  <2>1. IsFiniteSet(Holders)
    BY FS_Subset, TransportAssumption DEF Holders
  <2> QED
    BY <2>1, TransportAssumption DEF IInv, Shape, Counted, Send, At
<1>0a. Asks[c] \subseteq Method
  BY TransportAssumption
<1>1. PICK m \in Method :
        \/ /\ active >= Slots /\ queue' = Append(queue, c) /\ UNCHANGED active
           /\ call' = [call EXCEPT ![c] = [Fresh EXCEPT !.pc = "queued", !.method = m]]
        \/ /\ active < Slots /\ active' = active + 1 /\ UNCHANGED queue
           /\ call' = [call EXCEPT ![c] = [Fresh EXCEPT !.pc = "woken", !.method = m]]
  <2>1. CASE active >= Slots
    BY <1>0a, <2>1 DEF Send
  <2>2. CASE ~(active >= Slots)
    <3>1. active < Slots
      BY <1>0, <2>2
    <3> QED
      BY <1>0a, <2>2, <3>1 DEF Send
  <2> QED
    BY <2>1, <2>2
<1> DEFINE r(phase) == [Fresh EXCEPT !.pc = phase, !.method = m]
<1>2. ASSUME NEW phase \in {"queued", "woken"}
      PROVE  r(phase) \in CallState /\ CallShape(r(phase)) /\ r(phase).pc = phase
  BY DEF Fresh, CallState, CallShape, PC
<1>3. PICK phase \in {"queued", "woken"} :
        /\ call' = [call EXCEPT ![c] = r(phase)]
        /\ phase = "queued" => active >= Slots /\ queue' = Append(queue, c) /\ UNCHANGED active
        /\ phase = "woken" => active < Slots /\ active' = active + 1 /\ UNCHANGED queue
  BY <1>1
<1>4. r(phase) \in CallState /\ CallShape(r(phase)) /\ r(phase).pc = phase
  BY <1>2
<1> HIDE DEF r
<1>5. \A d \in Call : call'[d] = IF d = c THEN r(phase) ELSE call[d]
  BY <1>0, <1>3
<1>6. call' \in [Call -> CallState] /\ \A d \in Call : CallShape(call[d])'
  BY <1>0, <1>3, <1>4, <1>5 DEF CallShape
<1>7. \A d \in Call : At(d, "queued") <=> \E i \in DOMAIN queue : queue[i] = d
  BY DEF IInv, Queued
<1>8. CASE phase = "queued"
  <2>1. /\ queue' \in Seq(Call) /\ queue' # <<>>
        /\ Len(queue) \in Nat /\ DOMAIN queue = 1 .. Len(queue)
        /\ DOMAIN queue' = 1 .. (Len(queue) + 1)
        /\ \A i \in 1 .. Len(queue) : queue'[i] = queue[i]
        /\ queue'[Len(queue) + 1] = c
    BY <1>0, <1>3, <1>8, AppendProperties, LenProperties
  <2>2. \A i \in DOMAIN queue : queue[i] # c
    BY <1>0, <1>7 DEF At
  <2>3. Queued'
    <3>1. ASSUME NEW d \in Call
          PROVE  At(d, "queued")' <=> \E i \in DOMAIN queue' : queue'[i] = d
      <4>1. CASE d = c
        <5>1. Len(queue) + 1 \in DOMAIN queue'
          BY <2>1
        <5> QED
          BY <1>4, <1>5, <1>8, <2>1, <4>1, <5>1 DEF At
      <4>2. CASE d # c
        <5>1. At(d, "queued")' <=> At(d, "queued")
          BY <1>5, <4>2 DEF At
        <5>2. ASSUME NEW i \in DOMAIN queue', queue'[i] = d
              PROVE  i \in DOMAIN queue /\ queue[i] = d
          <6>1. i # Len(queue) + 1
            BY <2>1, <4>2, <5>2
          <6> QED
            BY <2>1, <5>2, <6>1
        <5>3. \A i \in DOMAIN queue : i \in DOMAIN queue' /\ queue'[i] = queue[i]
          BY <2>1
        <5> QED
          BY <1>7, <5>1, <5>2, <5>3
      <4> QED
        BY <4>1, <4>2
    <3>2. ASSUME NEW i \in DOMAIN queue', NEW j \in DOMAIN queue', queue'[i] = queue'[j]
          PROVE  i = j
      <4>1. CASE i = Len(queue) + 1 \/ j = Len(queue) + 1
        BY <2>1, <2>2, <3>2, <4>1
      <4>2. CASE i # Len(queue) + 1 /\ j # Len(queue) + 1
        <5>1. i \in DOMAIN queue /\ j \in DOMAIN queue /\ queue[i] = queue[j]
          BY <2>1, <3>2, <4>2
        <5> QED
          BY <5>1 DEF IInv, Queued
      <4> QED
        BY <4>1, <4>2
    <3> QED
      BY <3>1, <3>2 DEF Queued
  <2>4. Holders' = Holders
    BY <1>0, <1>4, <1>5, <1>8 DEF Holders, HoldsSlot
  <2>5. Counted'
    BY <1>0, <1>3, <1>8, <2>4 DEF Counted
  <2> QED
    BY <1>6, <2>1, <2>3, <2>5 DEF IInv, Shape, Send
<1>9. CASE phase = "woken"
  <2>1. queue' = queue /\ active' = active + 1 /\ active < Slots
    BY <1>3, <1>9
  <2>2. Queued'
    BY <1>0, <1>4, <1>5, <1>9, <2>1 DEF IInv, Queued, At
  <2>3. Holders' = Holders \cup {c} /\ c \notin Holders
    BY <1>0, <1>4, <1>5, <1>9 DEF Holders, HoldsSlot
  <2>4. Cardinality(Holders') = active + 1
    BY <1>0, <2>3, FS_AddElement
  <2>5. queue = <<>>
    BY <1>0, <2>1 DEF IInv, Counted
  <2>6. Counted'
    BY <1>0, <2>1, <2>4, <2>5 DEF Counted
  <2> QED
    BY <1>6, <2>1, <2>2, <2>6 DEF IInv, Shape, Send
<1> QED
  BY <1>8, <1>9

LEMMA ProgressHolds ==
    ASSUME IInv, NEW c \in Call, Progress(c)
    PROVE  IInv'
<1>0. call[c] \in CallState /\ CallShape(call[c])
  BY DEF IInv, Shape
<1>1. CASE Plan(c)
  <2>1. HoldsSlot(c) /\ call[c].method \in Method
    BY <1>0, <1>1 DEF Plan, At, HoldsSlot, CallShape
  <2>2. Available(call[c].method) \in SUBSET Endpoint
        /\ preferred[call[c].method] \in Endpoint \cup {None}
    BY <2>1 DEF Available, IInv, Shape
  <2>3. CallPart
    BY <1>1, <2>1, <2>2, TryNextHolds DEF Plan
  <2> QED
    BY <1>1, <2>3 DEF Plan, CallPart, IInv, Shape
<1>2. CASE Verify(c)
  <2> DEFINE r == [call[c] EXCEPT !.pc = "ask"]
  <2>1. call[c].pc = "check" /\ HoldsSlot(c) /\ Target(c) \in Endpoint
    BY <1>0, <1>2 DEF Verify, At, HoldsSlot, CallShape, Target
  <2>2. r \in CallState /\ CallShape(r) /\ r.pc = "ask"
    BY <1>0, <2>1 DEF CallState, CallShape, PC
  <2>3. call' = [call EXCEPT ![c] = r] /\ UNCHANGED <<active, queue, cooling, preferred>>
        /\ verified' \subseteq Endpoint
    BY <1>2, <2>1 DEF Verify, IInv, Shape
  <2> HIDE DEF r
  <2>4. call' \in [Call -> CallState] /\ (\A d \in Call : CallShape(call[d])')
        /\ Queued' /\ Counted'
    BY <2>1, <2>2, <2>3, SameHold
  <2> QED
    BY <2>3, <2>4 DEF IInv, Shape
<1>3. CASE CheckFails(c) \/ Outage(c)
  BY <1>3, GiveUpHolds DEF CheckFails, Outage
<1>4. CASE Answer(c) \/ TooLarge(c)
  <2>1. HoldsSlot(c) /\ Target(c) \in Endpoint /\ call[c].method \in Method
    BY <1>0, <1>4 DEF Answer, TooLarge, At, HoldsSlot, CallShape, Target
  <2>2. CallPart
    BY <1>4, <2>1, EndedState, ReleaseHolds DEF Answer, TooLarge, CallPart
  <2>3. preferred' \in [Method -> Endpoint \cup {None}]
    BY <1>4, <2>1 DEF Answer, TooLarge, IInv, Shape
  <2> QED
    BY <1>4, <2>2, <2>3 DEF Answer, TooLarge, CallPart, IInv, Shape
<1> QED
  BY <1>1, <1>2, <1>3, <1>4 DEF Progress

LEMMA IInvStep == IInv /\ [Next]_vars => IInv'
<1> SUFFICES ASSUME IInv, [Next]_vars PROVE IInv'
  OBVIOUS
<1>1. CASE UNCHANGED vars
  BY <1>1 DEF vars, IInv, Shape, CallShape, Queued, Counted, At, Holders, HoldsSlot
<1>2. CASE CooledDown
  BY <1>2 DEF CooledDown, IInv, Shape, CallShape, Queued, Counted, At, Holders, HoldsSlot
<1>3. CASE \E c \in Call : Send(c) \/ Progress(c)
  BY <1>3, SendHolds, ProgressHolds
<1> QED
  BY <1>1, <1>2, <1>3 DEF Next

LEMMA IInvInit == Init => IInv
<1> SUFFICES ASSUME Init PROVE IInv
  OBVIOUS
<1>1. \A c \in Call : call[c] = Fresh
  BY DEF Init
<1>2. Fresh \in CallState /\ Fresh.pc = "idle"
  BY DEF Fresh, CallState, PC
<1>3. Shape
  BY <1>1, <1>2 DEF Init, Shape, CallShape
<1>4. Queued
  BY <1>1, <1>2 DEF Init, Queued, At
<1>5. Holders = {}
  BY <1>1, <1>2 DEF Holders, HoldsSlot
<1>6. Counted
  BY <1>5, FS_EmptySet, TransportAssumption DEF Init, Counted
<1> QED
  BY <1>3, <1>4, <1>6 DEF IInv

THEOREM SlotInvariant == Spec => []IInv
BY IInvInit, IInvStep, PTL DEF Spec

(* Every variable of the transport has its type in every reachable state.  *)
THEOREM TransportTypes == Spec => []TypeOK
<1>1. IInv => TypeOK
  BY TransportAssumption DEF IInv, Shape, Counted, TypeOK
<1> QED
  BY <1>1, SlotInvariant, PTL

(* acquire and release never lose a slot, hand one to two calls or let a    *)
(* call wait beside a free slot, for any number of calls and slots.        *)
THEOREM SlotsAlwaysExact == Spec => []SlotsExact
<1>1. IInv => SlotsExact
  BY DEF IInv, Queued, Counted, Holders, SlotsExact
<1> QED
  BY <1>1, SlotInvariant, PTL

-----------------------------------------------------------------------------
(* The right chain: an answer is only asked of an endpoint in V, and only   *)
(* accepted from one.                                                      *)
Chained(r, V) ==
    /\ r.pc = "ask" => r.at \in V
    /\ r.last = "answer" => r.by \in V

ChainInv ==
    /\ verified \subseteq OnChain
    /\ \A m \in Method : preferred[m] # None => preferred[m] \in verified
    /\ \A c \in Call : Chained(call[c], verified)

LEMMA ReleaseChained ==
    ASSUME IInv, ChainInv, NEW c \in Call, HoldsSlot(c),
           NEW r \in CallState, Chained(r, verified), Release(c, r)
    PROVE  \A d \in Call : Chained(call'[d], verified)
<1>0. call \in [Call -> CallState] /\ queue \in Seq(Call)
  BY DEF IInv, Shape
<1>1. CASE queue = <<>>
  BY <1>0, <1>1 DEF Release, ChainInv
<1>2. CASE queue # <<>>
  <2> DEFINE h == Head(queue)
  <2>1. h \in Call
    BY <1>0, <1>2, HeadTailProperties
  <2>2. call' = [call EXCEPT ![c] = r, ![h].pc = "woken"]
    BY <1>2 DEF Release
  <2>3. h # c
    <3>1. 1 \in DOMAIN queue /\ h = queue[1]
      BY <1>0, <1>2, LenProperties, EmptySeq
    <3> QED
      BY <2>1, <3>1 DEF IInv, Queued, At, HoldsSlot
  <2> HIDE DEF h
  <2>4. \A d \in Call : call'[d] = IF d = c THEN r
                                   ELSE IF d = h THEN [call[h] EXCEPT !.pc = "woken"]
                                   ELSE call[d]
    BY <1>0, <2>1, <2>2, <2>3
  <2>5. Chained([call[h] EXCEPT !.pc = "woken"], verified)
    <3>1. call[h] \in CallState /\ Chained(call[h], verified)
      BY <1>0, <2>1 DEF ChainInv
    <3> QED
      BY <3>1 DEF CallState, Chained
  <2> QED
    BY <2>4, <2>5 DEF ChainInv
<1> QED
  BY <1>1, <1>2

LEMMA TryNextChained ==
    ASSUME IInv, ChainInv, NEW c \in Call, HoldsSlot(c),
           NEW left \in SUBSET Endpoint, NEW lead \in Endpoint \cup {None},
           TryNext(c, left, lead)
    PROVE  \A d \in Call : Chained(call'[d], verified)
<1>0. call \in [Call -> CallState] /\ Chained(call[c], verified) /\ call[c] \in CallState
  BY DEF IInv, Shape, ChainInv
<1>1. CASE left = {}
  <2>1. Chained(Ended("failed", None), verified)
    BY EndedState DEF Chained
  <2> QED
    BY <1>1, <2>1, EndedState, ReleaseChained DEF TryNext
<1>2. CASE left # {}
  <2>1. PICK e \in left :
          call' = [call EXCEPT ![c] =
                [call[c] EXCEPT !.pc = IF e \in verified THEN "ask" ELSE "check",
                          !.at = e, !.left = left \ {e}, !.lead = lead]]
    BY <1>2 DEF TryNext
  <2> DEFINE r == [call[c] EXCEPT !.pc = IF e \in verified THEN "ask" ELSE "check",
                          !.at = e, !.left = left \ {e}, !.lead = lead]
  <2>2. Chained(r, verified)
    BY <1>0 DEF CallState, Chained
  <2>3. call' = [call EXCEPT ![c] = r]
    BY <2>1
  <2> HIDE DEF r
  <2> QED
    BY <1>0, <2>2, <2>3 DEF ChainInv
<1> QED
  BY <1>1, <1>2

LEMMA ChainStep ==
    ASSUME IInv, ChainInv, [Next]_vars
    PROVE  ChainInv'
<1>0. call \in [Call -> CallState] /\ preferred \in [Method -> Endpoint \cup {None}]
      /\ \A c \in Call : CallShape(call[c]) /\ Chained(call[c], verified)
  BY DEF IInv, Shape, ChainInv
<1>1. CASE UNCHANGED vars \/ CooledDown
  BY <1>1 DEF vars, CooledDown, ChainInv
<1>2. ASSUME NEW c \in Call, Send(c)
      PROVE  ChainInv'
  <2>1. PICK m \in Method, phase \in {"queued", "woken"} :
          call' = [call EXCEPT ![c] = [Fresh EXCEPT !.pc = phase, !.method = m]]
    BY <1>2, TransportAssumption DEF Send
  <2> DEFINE r == [Fresh EXCEPT !.pc = phase, !.method = m]
  <2>2. Chained(r, verified)
    BY DEF Chained, Fresh
  <2>3. call' = [call EXCEPT ![c] = r]
    BY <2>1
  <2> HIDE DEF r
  <2>4. \A d \in Call : Chained(call'[d], verified)
    BY <1>0, <2>2, <2>3
  <2> QED
    BY <1>2, <2>4 DEF Send, ChainInv
<1>3. ASSUME NEW c \in Call, Plan(c)
      PROVE  ChainInv'
  <2>1. HoldsSlot(c) /\ call[c].method \in Method
    BY <1>0, <1>3 DEF Plan, At, HoldsSlot, CallShape
  <2>2. Available(call[c].method) \in SUBSET Endpoint
        /\ preferred[call[c].method] \in Endpoint \cup {None}
    BY <1>0, <2>1 DEF Available
  <2>3. \A d \in Call : Chained(call'[d], verified)
    BY <1>3, <2>1, <2>2, TryNextChained DEF Plan
  <2> QED
    BY <1>3, <2>3 DEF Plan, ChainInv
<1>4. ASSUME NEW c \in Call, CheckFails(c) \/ Outage(c)
      PROVE  ChainInv'
  <2>1. HoldsSlot(c) /\ call[c].left \in SUBSET Endpoint
        /\ call[c].lead \in Endpoint \cup {None}
    BY <1>0, <1>4 DEF CheckFails, Outage, At, HoldsSlot, CallState
  <2>2. TryNext(c, call[c].left, call[c].lead) /\ UNCHANGED <<verified, preferred>>
    BY <1>4 DEF CheckFails, Outage, GiveUp
  <2>3. \A d \in Call : Chained(call'[d], verified)
    BY <2>1, <2>2, TryNextChained
  <2> QED
    BY <2>2, <2>3 DEF ChainInv
<1>5. ASSUME NEW c \in Call, Verify(c)
      PROVE  ChainInv'
  <2>1. verified' = verified \cup {Target(c)} /\ Target(c) \in OnChain
        /\ call' = [call EXCEPT ![c].pc = "ask"] /\ UNCHANGED preferred
    BY <1>5 DEF Verify, ChainChecked
  <2>2. ASSUME NEW d \in Call
        PROVE  Chained(call'[d], verified')
    <3>1. CASE d = c
      <4>1. call'[d] = [call[c] EXCEPT !.pc = "ask"] /\ call[c] \in CallState
        BY <1>0, <2>1, <3>1
      <4>2. call'[d].at = Target(c) /\ call'[d].last = call[c].last /\ call'[d].by = call[c].by
        BY <4>1 DEF CallState, Target
      <4> QED
        BY <1>0, <2>1, <4>2 DEF Chained
    <3>2. CASE d # c
      <4>1. call'[d] = call[d]
        BY <1>0, <2>1, <3>2
      <4>2. Chained(call[d], verified) /\ verified \subseteq verified'
        BY <1>0, <2>1
      <4> QED
        BY <4>1, <4>2 DEF Chained
    <3> QED
      BY <3>1, <3>2
  <2> QED
    BY <2>1, <2>2 DEF ChainInv
<1>6. ASSUME NEW c \in Call, Answer(c) \/ TooLarge(c)
      PROVE  ChainInv'
  <2>1. HoldsSlot(c) /\ Target(c) \in verified /\ Target(c) \in Endpoint
        /\ call[c].method \in Method /\ UNCHANGED verified
    BY <1>0, <1>6 DEF Answer, TooLarge, At, HoldsSlot, CallShape, Chained, Target
  <2>2. PICK how \in {"answer", "split"}, by \in Endpoint \cup {None} :
          /\ Release(c, Ended(how, by))
          /\ how = "answer" => by = Target(c)
    BY <1>6, <2>1 DEF Answer, TooLarge
  <2>3. Chained(Ended(how, by), verified) /\ Ended(how, by) \in CallState
    BY <2>1, <2>2, EndedState DEF Chained
  <2>4. \A d \in Call : Chained(call'[d], verified)
    BY <2>1, <2>2, <2>3, ReleaseChained
  <2>5. \A m \in Method : preferred'[m] # None => preferred'[m] \in verified
    BY <1>0, <1>6, <2>1 DEF Answer, TooLarge, ChainInv
  <2> QED
    BY <2>1, <2>4, <2>5 DEF ChainInv
<1> QED
  BY <1>1, <1>2, <1>3, <1>4, <1>5, <1>6 DEF Next, Progress

(* However many calls check an endpoint at once, and whatever they prefer, *)
(* nothing from an endpoint of another chain is ever taken for an answer.  *)
THEOREM AnswersFromRightChain == Spec => []RightChain
<1>1. Init => ChainInv
  BY DEF Init, ChainInv, Chained, Fresh
<1>2. IInv /\ ChainInv /\ [Next]_vars => ChainInv'
  BY ChainStep
<1>3. ChainInv => RightChain
  BY DEF ChainInv, Chained, RightChain
<1> QED
  BY <1>1, <1>2, <1>3, SlotInvariant, PTL DEF Spec

-----------------------------------------------------------------------------
(* Failover: an endpoint `up` that neither times out nor serves another    *)
(* chain never cools down, and stays on the list of every call that has    *)
(* not reached it yet.                                                     *)
Hopeful(r, up) ==
    /\ r.pc \in {"check", "ask"} => r.at = up \/ up \in r.left
    /\ r.last # "failed"

UpInv(up) ==
    /\ \A m \in Method : <<up, m>> \notin cooling
    /\ \A c \in Call : Hopeful(call[c], up)

LEMMA ReleaseHopeful ==
    ASSUME IInv, NEW up, UpInv(up), NEW c \in Call, HoldsSlot(c),
           NEW r \in CallState, Hopeful(r, up), Release(c, r)
    PROVE  \A d \in Call : Hopeful(call'[d], up)
<1>0. call \in [Call -> CallState] /\ queue \in Seq(Call)
  BY DEF IInv, Shape
<1>1. CASE queue = <<>>
  BY <1>0, <1>1 DEF Release, UpInv
<1>2. CASE queue # <<>>
  <2> DEFINE h == Head(queue)
  <2>1. h \in Call
    BY <1>0, <1>2, HeadTailProperties
  <2>2. call' = [call EXCEPT ![c] = r, ![h].pc = "woken"]
    BY <1>2 DEF Release
  <2>3. h # c
    <3>1. 1 \in DOMAIN queue /\ h = queue[1]
      BY <1>0, <1>2, LenProperties, EmptySeq
    <3> QED
      BY <2>1, <3>1 DEF IInv, Queued, At, HoldsSlot
  <2> HIDE DEF h
  <2>4. \A d \in Call : call'[d] = IF d = c THEN r
                                   ELSE IF d = h THEN [call[h] EXCEPT !.pc = "woken"]
                                   ELSE call[d]
    BY <1>0, <2>1, <2>2, <2>3
  <2>5. Hopeful([call[h] EXCEPT !.pc = "woken"], up)
    <3>1. call[h] \in CallState /\ Hopeful(call[h], up)
      BY <1>0, <2>1 DEF UpInv
    <3> QED
      BY <3>1 DEF CallState, Hopeful
  <2> QED
    BY <2>4, <2>5 DEF UpInv
<1> QED
  BY <1>1, <1>2

(* The loop goes on as long as `up` is on the list. *)
LEMMA TryNextHopeful ==
    ASSUME IInv, NEW up, UpInv(up), NEW c \in Call,
           NEW left, up \in left, NEW lead, TryNext(c, left, lead)
    PROVE  \A d \in Call : Hopeful(call'[d], up)
<1>0. call \in [Call -> CallState] /\ Hopeful(call[c], up) /\ call[c] \in CallState
  BY DEF IInv, Shape, UpInv
<1>1. PICK e \in left :
        call' = [call EXCEPT ![c] =
              [call[c] EXCEPT !.pc = IF e \in verified THEN "ask" ELSE "check",
                        !.at = e, !.left = left \ {e}, !.lead = lead]]
  BY DEF TryNext
<1> DEFINE r == [call[c] EXCEPT !.pc = IF e \in verified THEN "ask" ELSE "check",
                        !.at = e, !.left = left \ {e}, !.lead = lead]
<1>2. Hopeful(r, up)
  BY <1>0 DEF CallState, Hopeful
<1>3. call' = [call EXCEPT ![c] = r]
  BY <1>1
<1> HIDE DEF r
<1> QED
  BY <1>0, <1>2, <1>3 DEF UpInv

LEMMA UpStep ==
    ASSUME IInv, NEW up \in OnChain \cap Dependable, UpInv(up), [Next]_vars
    PROVE  UpInv(up)'
<1>0. /\ call \in [Call -> CallState] /\ preferred \in [Method -> Endpoint \cup {None}]
      /\ \A c \in Call : CallShape(call[c]) /\ Hopeful(call[c], up)
      /\ up \in Endpoint
  BY TransportAssumption DEF IInv, Shape, UpInv
<1>1. CASE UNCHANGED vars \/ CooledDown
  BY <1>1 DEF vars, CooledDown, UpInv
<1>2. ASSUME NEW c \in Call, Send(c)
      PROVE  UpInv(up)'
  <2>1. PICK m \in Method, phase \in {"queued", "woken"} :
          call' = [call EXCEPT ![c] = [Fresh EXCEPT !.pc = phase, !.method = m]]
    BY <1>2, TransportAssumption DEF Send
  <2> DEFINE r == [Fresh EXCEPT !.pc = phase, !.method = m]
  <2>2. Hopeful(r, up)
    BY DEF Hopeful, Fresh
  <2>3. call' = [call EXCEPT ![c] = r]
    BY <2>1
  <2> HIDE DEF r
  <2>4. \A d \in Call : Hopeful(call'[d], up)
    BY <1>0, <2>2, <2>3
  <2> QED
    BY <1>2, <2>4 DEF Send, UpInv
<1>3. ASSUME NEW c \in Call, Plan(c)
      PROVE  UpInv(up)'
  <2>1. call[c].method \in Method
    BY <1>0, <1>3 DEF Plan, At, CallShape
  <2>2. up \in Available(call[c].method)
    BY <1>0, <2>1 DEF Available, UpInv
  <2>3. \A d \in Call : Hopeful(call'[d], up)
    BY <1>3, <2>2, TryNextHopeful DEF Plan
  <2> QED
    BY <1>3, <2>3 DEF Plan, UpInv
<1>4. ASSUME NEW c \in Call, CheckFails(c) \/ Outage(c)
      PROVE  UpInv(up)'
  <2>1. Target(c) # up /\ call[c].pc \in {"check", "ask"}
    BY <1>4 DEF CheckFails, Outage, At
  <2>2. up \in call[c].left
    BY <1>0, <2>1 DEF Hopeful, Target
  <2>3. TryNext(c, call[c].left, call[c].lead)
        /\ cooling' = cooling \cup {<<Target(c), call[c].method>>}
    BY <1>4 DEF CheckFails, Outage, GiveUp
  <2>4. \A d \in Call : Hopeful(call'[d], up)
    BY <2>2, <2>3, TryNextHopeful
  <2>5. \A m \in Method : <<up, m>> \notin cooling'
    BY <2>1, <2>3 DEF UpInv
  <2> QED
    BY <2>4, <2>5 DEF UpInv
<1>5. ASSUME NEW c \in Call, Verify(c)
      PROVE  UpInv(up)'
  <2>1. call' = [call EXCEPT ![c].pc = "ask"] /\ UNCHANGED cooling /\ call[c].pc = "check"
    BY <1>5 DEF Verify, At
  <2>2. ASSUME NEW d \in Call
        PROVE  Hopeful(call'[d], up)
    BY <1>0, <2>1 DEF Hopeful, CallState
  <2> QED
    BY <2>1, <2>2 DEF UpInv
<1>6. ASSUME NEW c \in Call, Answer(c) \/ TooLarge(c)
      PROVE  UpInv(up)'
  <2>1. HoldsSlot(c) /\ Target(c) \in Endpoint /\ UNCHANGED cooling
    BY <1>0, <1>6 DEF Answer, TooLarge, At, HoldsSlot, CallShape, Target
  <2>2. PICK how \in {"answer", "split"}, by \in Endpoint \cup {None} :
          Release(c, Ended(how, by))
    BY <1>6, <2>1 DEF Answer, TooLarge
  <2>3. Hopeful(Ended(how, by), up) /\ Ended(how, by) \in CallState
    BY <2>2, EndedState DEF Hopeful
  <2>4. \A d \in Call : Hopeful(call'[d], up)
    BY <2>1, <2>2, <2>3, ReleaseHopeful
  <2> QED
    BY <2>1, <2>4 DEF UpInv
<1> QED
  BY <1>1, <1>2, <1>3, <1>4, <1>5, <1>6 DEF Next, Progress

(* While one endpoint of the right chain is up no call fails, whatever the *)
(* other endpoints do, whichever one is preferred and however many calls   *)
(* share them (the loop of provider.send).                                 *)
THEOREM FailoverAlwaysWorks == Spec => []FailoverWorks
<1>1. CASE OnChain \cap Dependable = {}
  <2>1. FailoverWorks
    BY <1>1 DEF FailoverWorks
  <2> QED
    BY <2>1, PTL
<1>2. ASSUME NEW up \in OnChain \cap Dependable
      PROVE  Spec => []FailoverWorks
  <2>1. Init => UpInv(up)
    BY DEF Init, UpInv, Hopeful, Fresh
  <2>2. IInv /\ UpInv(up) /\ [Next]_vars => UpInv(up)'
    BY UpStep
  <2>3. UpInv(up) => FailoverWorks
    BY DEF UpInv, Hopeful, FailoverWorks
  <2> QED
    BY <2>1, <2>2, <2>3, SlotInvariant, PTL DEF Spec
<1> QED
  BY <1>1, <1>2

-----------------------------------------------------------------------------
(* Recursion by halving.                                                   *)

(* What holds of every query whose smaller queries it holds of, holds of   *)
(* them all.                                                               *)
LEMMA SplitInduction ==
    ASSUME NEW Q, NEW Size \in [Q -> Nat], NEW Good \in SUBSET Q,
           \A q \in Q : (\A r \in Q : Size[r] < Size[q] => r \in Good) => q \in Good
    PROVE  Good = Q
<1> SUFFICES ASSUME Q \ Good # {} PROVE FALSE
  OBVIOUS
<1> DEFINE N == {Size[q] : q \in Q \ Good}
<1>1. N \subseteq Nat /\ N # {}
  OBVIOUS
<1>2. PICK n \in N : \A m \in N : ~(<<m, n>> \in OpToRel(<, Nat))
  <2> HIDE DEF N
  <2> QED
    BY <1>1, WFMin, NatLessThanWellFounded
<1>3. \A m \in N : ~(m < n)
  BY <1>1, <1>2 DEF OpToRel
<1>4. PICK q \in Q \ Good : n = Size[q]
  OBVIOUS
<1>5. \A r \in Q : Size[r] < Size[q] => r \in Good
  BY <1>3, <1>4
<1> QED
  BY <1>4, <1>5

(* A number is in every set of numbers that holds 0 and successors.        *)
LEMMA NumbersBelow ==
    ASSUME NEW N \in SUBSET Nat, 0 \in N, \A n \in N : n + 1 \in N
    PROVE  N = Nat
<1> SUFFICES ASSUME Nat \ N # {} PROVE FALSE
  OBVIOUS
<1>1. PICK n \in Nat \ N : \A m \in Nat \ N : ~(<<m, n>> \in OpToRel(<, Nat))
  BY WFMin, NatLessThanWellFounded
<1>2. \A m \in Nat \ N : ~(m < n)
  BY <1>1 DEF OpToRel
<1>3. n \in Nat /\ n \notin N /\ n # 0
  OBVIOUS
<1>4. n - 1 \in Nat /\ n - 1 < n /\ (n - 1) + 1 = n
  BY <1>3
<1>5. n - 1 \in N
  BY <1>2, <1>4
<1> QED
  BY <1>3, <1>4, <1>5

(***************************************************************************)
(* The recursion: the queries of S are split into L and R, the others have *)
(* the answer D; J joins two answers.                                      *)
(***************************************************************************)
Splits(f, Q, S, L, R, D, J) ==
    \A q \in Q : f[q] = IF q \in S THEN J[<<f[L[q]], f[R[q]]>>] ELSE D[q]

(* Splitting ends, because the halves are smaller. *)
LEMMA SplitExists ==
    ASSUME NEW Q, NEW Size \in [Q -> Nat], NEW V, NEW D \in [Q -> V],
           NEW S \in SUBSET Q, NEW L \in [S -> Q], NEW R \in [S -> Q],
           NEW J \in [V \X V -> V], NEW M \in Nat,
           \A q \in Q : Size[q] <= M,
           \A q \in S : Size[L[q]] < Size[q] /\ Size[R[q]] < Size[q]
    PROVE  \E f \in [Q -> V] : Splits(f, Q, S, L, R, D, J)
<1> DEFINE Below(n) == {q \in Q : Size[q] < n}
           N == {n \in Nat : \E g \in [Below(n) -> V] : Splits(g, Below(n), S, L, R, D, J)}
<1>1. 0 \in N
  <2>1. Below(0) = {}
    OBVIOUS
  <2>2. [q \in {} |-> D[q]] \in [{} -> V]
    OBVIOUS
  <2> QED
    BY <2>1, <2>2 DEF Splits
<1>2. ASSUME NEW n \in N PROVE n + 1 \in N
  <2>1. PICK g \in [Below(n) -> V] : Splits(g, Below(n), S, L, R, D, J)
    OBVIOUS
  <2> DEFINE h == [q \in Below(n + 1) |->
                     IF q \in S THEN J[<<g[L[q]], g[R[q]]>>] ELSE D[q]]
  <2>2. ASSUME NEW q \in Below(n + 1), q \in S
        PROVE  L[q] \in Below(n) /\ R[q] \in Below(n)
    BY <2>2
  <2>3. ASSUME NEW q \in Below(n) PROVE q \in Below(n + 1) /\ h[q] = g[q]
    <3>1. q \in Below(n + 1)
      BY <2>3
    <3> QED
      BY <2>1, <3>1 DEF Splits
  <2>4. h \in [Below(n + 1) -> V]
    <3>1. ASSUME NEW q \in Below(n + 1)
          PROVE  (IF q \in S THEN J[<<g[L[q]], g[R[q]]>>] ELSE D[q]) \in V
      <4>1. CASE q \in S
        <5>1. g[L[q]] \in V /\ g[R[q]] \in V
          BY <2>2, <4>1
        <5> QED
          BY <4>1, <5>1
      <4> QED
        BY <4>1
    <3> QED
      BY <3>1
  <2>5. Splits(h, Below(n + 1), S, L, R, D, J)
    <3> SUFFICES ASSUME NEW q \in Below(n + 1)
                 PROVE  h[q] = IF q \in S THEN J[<<h[L[q]], h[R[q]]>>] ELSE D[q]
      BY DEF Splits
    <3>1. q \in S => h[L[q]] = g[L[q]] /\ h[R[q]] = g[R[q]]
      BY <2>2, <2>3
    <3>2. h[q] = IF q \in S THEN J[<<g[L[q]], g[R[q]]>>] ELSE D[q]
      OBVIOUS
    <3> HIDE DEF h
    <3> QED
      BY <3>1, <3>2
  <2> HIDE DEF h, Below
  <2> QED
    BY <2>4, <2>5
<1>3. M + 1 \in N
  <2>1. N \in SUBSET Nat
    OBVIOUS
  <2> HIDE DEF N
  <2>2. N = Nat
    BY <1>1, <1>2, <2>1, NumbersBelow
  <2> QED
    BY <2>2
<1>4. Below(M + 1) = Q
  OBVIOUS
<1> QED
  BY <1>3, <1>4

-----------------------------------------------------------------------------
(* Queries by topics.                                                      *)

Outcome == [refused : BOOLEAN, logs : SUBSET Log]

(* What an answer is, and that joining two makes one. *)
LEMMA Answers ==
    /\ RangeError \in Outcome /\ RangeError.refused
    /\ \A logs \in SUBSET Log : All(logs) \in Outcome /\ ~All(logs).refused /\ All(logs).logs = logs
    /\ \A l, r \in Outcome : Join(l, r) \in Outcome
BY DEF RangeError, All, Outcome, Join

(* A limit refuses a range only if it has several blocks, or too many logs. *)
LEMMA Refusal ==
    ASSUME NEW all \in SUBSET Log, NEW from \in Int, NEW to \in Int
    PROVE  /\ ReplyTo(all, from, to) \in {RangeError, All(all)}
           /\ Cardinality(all) > Max => ReplyTo(all, from, to).refused
           /\ ReplyTo(all, from, to).refused => from < to \/ Cardinality(all) > Max
<1>1. RangeError.refused /\ ~All(all).refused
  BY Answers
<1>2. from >= to => ~(to - from + 1 > Span) /\ ~(from < to)
  BY SplitAssumption
<1> QED
  BY <1>1, <1>2 DEF ReplyTo

(* The logs of a range are those of its halves. *)
LEMMA RangeHalves ==
    ASSUME NEW from \in Int, NEW to \in Int, NEW mid \in Int, from <= mid, mid < to
    PROVE  /\ from .. to = (from .. mid) \cup ((mid + 1) .. to)
           /\ InRange(from, to) = InRange(from, mid) \cup InRange(mid + 1, to)
<1>1. from .. to = (from .. mid) \cup ((mid + 1) .. to)
  OBVIOUS
<1> QED
  BY <1>1 DEF InRange

(* The halves of a query, and what the halving does to its size. *)
LEMMA Middle ==
    ASSUME NEW from \in Blocks, NEW to \in Blocks, from < to
    PROVE  LET mid == (from + to) \div 2
           IN  /\ mid \in Blocks /\ mid + 1 \in Blocks
               /\ from \in Int /\ to \in Int /\ mid \in Int /\ from <= mid /\ mid < to
<1>1. From \in Nat /\ To \in Nat
  BY SplitAssumption
<1> QED
  BY <1>1 DEF Blocks

TopicBody(f, q) ==
    IF ~TopicReply(q).refused THEN TopicReply(q)
    ELSE IF q.from < q.to THEN Join(f[LowerHalf(q)], f[UpperHalf(q)])
    ELSE RangeError

(* The halves of a query by topics. *)
LEMMA TopicHalves ==
    ASSUME NEW q \in TopicQuery, q.from < q.to
    PROVE  /\ LowerHalf(q) \in TopicQuery /\ UpperHalf(q) \in TopicQuery
           /\ LowerHalf(q).from = q.from /\ LowerHalf(q).to = Mid(q)
           /\ UpperHalf(q).from = Mid(q) + 1 /\ UpperHalf(q).to = q.to
           /\ Mid(q) \in Int /\ q.from <= Mid(q) /\ Mid(q) < q.to
<1>1. /\ Mid(q) \in Blocks /\ Mid(q) + 1 \in Blocks
      /\ Mid(q) \in Int /\ q.from <= Mid(q) /\ Mid(q) < q.to
  BY Middle DEF TopicQuery, Mid
<1> QED
  BY <1>1 DEF TopicQuery, LowerHalf, UpperHalf

(* getTopicScopedLogs is defined for every range. *)
LEMMA TopicLogsAre ==
    ASSUME chain \in SUBSET Log
    PROVE  \A q \in TopicQuery : TopicLogs[q] = TopicBody(TopicLogs, q)
<1> DEFINE Q == TopicQuery
           S == {q \in Q : TopicReply(q).refused /\ q.from < q.to}
           D == [q \in Q |-> IF TopicReply(q).refused THEN RangeError ELSE TopicReply(q)]
           L == [q \in S |-> LowerHalf(q)]
           R == [q \in S |-> UpperHalf(q)]
           J == [p \in Outcome \X Outcome |-> Join(p[1], p[2])]
           Size == [q \in Q |-> q.to - q.from + To]
<1>0. /\ From \in Nat /\ To \in Nat
      /\ \A q \in Q : /\ q.from \in Nat /\ q.to \in Nat /\ q.from \in Blocks /\ q.to \in Blocks
                      /\ q.from <= To /\ q.to <= To
  BY SplitAssumption DEF TopicQuery, Blocks
<1>1. D \in [Q -> Outcome]
  <2>1. ASSUME NEW q \in Q PROVE TopicReply(q) \in Outcome
    <3>1. InRange(q.from, q.to) \in SUBSET Log
      BY DEF InRange
    <3> QED
      BY <1>0, <3>1, Refusal, Answers DEF TopicReply
  <2> QED
    BY <2>1, Answers
<1>2. S \in SUBSET Q /\ L \in [S -> Q] /\ R \in [S -> Q]
  BY TopicHalves
<1>3. J \in [Outcome \X Outcome -> Outcome]
  BY Answers
<1>4. Size \in [Q -> Nat] /\ (\A q \in Q : Size[q] <= To + To) /\ To + To \in Nat
  BY <1>0
<1>5. \A q \in S : Size[L[q]] < Size[q] /\ Size[R[q]] < Size[q]
  <2> SUFFICES ASSUME NEW q \in S PROVE Size[L[q]] < Size[q] /\ Size[R[q]] < Size[q]
    OBVIOUS
  <2>1. /\ Size[q] = q.to - q.from + To
        /\ Size[L[q]] = Mid(q) - q.from + To
        /\ Size[R[q]] = q.to - (Mid(q) + 1) + To
    BY TopicHalves
  <2>2. Mid(q) \in Int /\ q.from <= Mid(q) /\ Mid(q) < q.to
    BY TopicHalves
  <2> HIDE DEF Size, L, R
  <2> QED
    BY <1>0, <2>1, <2>2
<1>6. PICK f \in [Q -> Outcome] : Splits(f, Q, S, L, R, D, J)
  <2> HIDE DEF Q, S, L, R, D, J, Size
  <2> QED
    BY <1>1, <1>2, <1>3, <1>4, <1>5, SplitExists
<1>7. f = [q \in Q |-> TopicBody(f, q)]
  <2>1. ASSUME NEW q \in Q PROVE f[q] = TopicBody(f, q)
    <3>1. f[q] = IF q \in S THEN J[<<f[L[q]], f[R[q]]>>] ELSE D[q]
      BY <1>6 DEF Splits
    <3>2. CASE q \in S
      <4>1. L[q] = LowerHalf(q) /\ R[q] = UpperHalf(q) /\ L[q] \in Q /\ R[q] \in Q
        BY <1>2, <3>2
      <4>2. J[<<f[L[q]], f[R[q]]>>] = Join(f[LowerHalf(q)], f[UpperHalf(q)])
        BY <1>6, <4>1
      <4> QED
        BY <3>1, <3>2, <4>2 DEF TopicBody
    <3>3. CASE q \notin S
      BY <3>1, <3>3 DEF TopicBody
    <3> QED
      BY <3>2, <3>3
  <2> HIDE DEF Q
  <2> QED
    BY <1>6, <2>1
<1>8. TopicLogs = [q \in Q |-> TopicBody(TopicLogs, q)]
  <2>1. TopicLogs = CHOOSE g : g = [q \in Q |-> TopicBody(g, q)]
    BY DEF TopicLogs, TopicBody
  <2> QED
    BY <1>7, <2>1
<1> QED
  BY <1>8

(* A block of the range holds more logs than an endpoint returns. *)
HotTopic(q) == \E b \in q.from .. q.to : Cardinality(InRange(b, b)) > Max

(* A query by topics has every log of its range, or is refused. *)
LEMMA TopicLogsExact ==
    ASSUME chain \in SUBSET Log, NEW q \in TopicQuery
    PROVE  TopicLogs[q] = IF HotTopic(q) THEN RangeError ELSE All(InRange(q.from, q.to))
<1> DEFINE Exact(r) == TopicLogs[r] = IF HotTopic(r) THEN RangeError ELSE All(InRange(r.from, r.to))
           Good == {r \in TopicQuery : Exact(r)}
           Size == [r \in TopicQuery |-> r.to - r.from + To]
<1>0. \A r \in TopicQuery : r.from \in Nat /\ r.to \in Nat /\ r.from <= To /\ To \in Nat
  BY SplitAssumption DEF TopicQuery, Blocks
<1>1. Size \in [TopicQuery -> Nat] /\ Good \in SUBSET TopicQuery
  BY <1>0
<1>2. ASSUME NEW r \in TopicQuery, \A k \in TopicQuery : Size[k] < Size[r] => k \in Good
      PROVE  r \in Good
  <2> DEFINE all == InRange(r.from, r.to)
  <2>1. TopicLogs[r] = TopicBody(TopicLogs, r)
    BY TopicLogsAre
  <2>2. /\ all \in SUBSET Log /\ IsFiniteSet(all) /\ Cardinality(all) \in Nat /\ Max \in Nat
        /\ TopicReply(r) \in {RangeError, All(all)}
        /\ Cardinality(all) > Max => TopicReply(r).refused
        /\ TopicReply(r).refused => r.from < r.to \/ Cardinality(all) > Max
    <3>1. all \in SUBSET Log
      BY DEF InRange
    <3>2. IsFiniteSet(all)
      BY <3>1, SplitAssumption, FS_Subset
    <3> HIDE DEF all
    <3>3. r.from \in Int /\ r.to \in Int
      BY <1>0
    <3> QED
      BY <3>1, <3>2, <3>3, Refusal, FS_CardinalityType, SplitAssumption DEF TopicReply, all
  <2>3. RangeError.refused /\ ~All(all).refused
    BY <2>2, Answers
  <2>4. CASE ~TopicReply(r).refused
    <3>1. ~HotTopic(r)
      <4> SUFFICES ASSUME NEW b \in r.from .. r.to PROVE ~(Cardinality(InRange(b, b)) > Max)
        BY DEF HotTopic
      <4>1. InRange(b, b) \subseteq all
        BY <1>0 DEF InRange
      <4>2. Cardinality(InRange(b, b)) <= Cardinality(all) /\ Cardinality(InRange(b, b)) \in Nat
        BY <2>2, <4>1, FS_Subset, FS_CardinalityType
      <4> HIDE DEF all
      <4> QED
        BY <2>2, <2>4, <4>2
    <3> QED
      BY <2>1, <2>2, <2>3, <2>4, <3>1 DEF TopicBody
  <2>5. CASE TopicReply(r).refused /\ r.from < r.to
    <3> DEFINE l == LowerHalf(r)
               u == UpperHalf(r)
    <3>1. /\ l \in TopicQuery /\ u \in TopicQuery
          /\ l.from = r.from /\ l.to = Mid(r) /\ u.from = Mid(r) + 1 /\ u.to = r.to
          /\ Mid(r) \in Int /\ r.from <= Mid(r) /\ Mid(r) < r.to
      BY <2>5, TopicHalves
    <3>2. Size[l] < Size[r] /\ Size[u] < Size[r]
      BY <1>0, <3>1
    <3>3. Exact(l) /\ Exact(u)
      BY <1>2, <3>1, <3>2
    <3>4. /\ all = InRange(l.from, l.to) \cup InRange(u.from, u.to)
          /\ r.from .. r.to = (l.from .. l.to) \cup (u.from .. u.to)
      BY <1>0, <3>1, RangeHalves
    <3>5. HotTopic(r) <=> HotTopic(l) \/ HotTopic(u)
      BY <3>4 DEF HotTopic
    <3>6. TopicLogs[r] = Join(TopicLogs[l], TopicLogs[u])
      BY <2>1, <2>5 DEF TopicBody
    <3>7. Join(TopicLogs[l], TopicLogs[u])
            = IF HotTopic(l) \/ HotTopic(u) THEN RangeError
              ELSE All(InRange(l.from, l.to) \cup InRange(u.from, u.to))
      <4>1. InRange(l.from, l.to) \in SUBSET Log /\ InRange(u.from, u.to) \in SUBSET Log
        BY DEF InRange
      <4> HIDE DEF l, u
      <4> QED
        BY <3>3, <4>1, Answers DEF Join
    <3> HIDE DEF l, u
    <3> QED
      BY <3>4, <3>5, <3>6, <3>7
  <2>6. CASE TopicReply(r).refused /\ ~(r.from < r.to)
    <3>1. Cardinality(all) > Max
      BY <2>2, <2>6
    <3>2. r.from = r.to
      <4>1. ASSUME r.from > r.to PROVE FALSE
        <5>1. all = {}
          BY <1>0, <4>1 DEF InRange
        <5> QED
          BY <2>2, <3>1, <5>1, FS_EmptySet
      <4> QED
        BY <1>0, <2>6, <4>1
    <3>3. HotTopic(r)
      BY <1>0, <3>1, <3>2 DEF HotTopic
    <3> QED
      BY <2>1, <2>6, <3>3 DEF TopicBody
  <2> QED
    BY <2>4, <2>5, <2>6
<1>3. Good = TopicQuery
  <2> HIDE DEF Good, Size
  <2> QED
    BY <1>1, <1>2, SplitInduction
<1> QED
  BY <1>3

-----------------------------------------------------------------------------
(* Queries by addresses.                                                   *)

AddressBody(f, q) ==
    IF ~AddressReply(q).refused THEN AddressReply(q)
    ELSE IF q.from < q.to THEN Join(f[LowerHalf(q)], f[UpperHalf(q)])
    ELSE IF Len(q.addresses) > 1 THEN Join(f[FirstHalf(q)], f[SecondHalf(q)])
    ELSE RangeError

(* The lists of addresses are the sequences no longer than the query's. *)
LEMMA ListsAre ==
    /\ Len(Addresses) \in Nat
    /\ \A s : s \in Lists <=> s \in Seq(Listed(Addresses)) /\ Len(s) <= Len(Addresses)
<1>1. Len(Addresses) \in Nat
  BY SplitAssumption
<1>2. ASSUME NEW s \in Lists PROVE s \in Seq(Listed(Addresses)) /\ Len(s) <= Len(Addresses)
  <2>1. PICK n \in 0 .. Len(Addresses) : s \in [1 .. n -> Listed(Addresses)]
    BY DEF Lists
  <2> QED
    BY <1>1, <2>1
<1>3. ASSUME NEW s \in Seq(Listed(Addresses)), Len(s) <= Len(Addresses) PROVE s \in Lists
  <2>1. Len(s) \in 0 .. Len(Addresses) /\ s \in [1 .. Len(s) -> Listed(Addresses)]
    BY <1>1, <1>3
  <2> QED
    BY <2>1 DEF Lists
<1> QED
  BY <1>1, <1>2, <1>3

(* Halving the blocks. *)
LEMMA AddressHalves ==
    ASSUME NEW q \in AddressQuery, q.from < q.to
    PROVE  /\ LowerHalf(q) \in AddressQuery /\ UpperHalf(q) \in AddressQuery
           /\ LowerHalf(q).addresses = q.addresses /\ UpperHalf(q).addresses = q.addresses
           /\ LowerHalf(q).from = q.from /\ LowerHalf(q).to = Mid(q)
           /\ UpperHalf(q).from = Mid(q) + 1 /\ UpperHalf(q).to = q.to
           /\ Mid(q) \in Int /\ q.from <= Mid(q) /\ Mid(q) < q.to
<1>1. /\ Mid(q) \in Blocks /\ Mid(q) + 1 \in Blocks
      /\ Mid(q) \in Int /\ q.from <= Mid(q) /\ Mid(q) < q.to
  BY Middle DEF AddressQuery, Mid
<1> QED
  BY <1>1 DEF AddressQuery, LowerHalf, UpperHalf

(* Halving a list of at least two addresses shortens it and loses none.   *)
LEMMA ListHalves ==
    ASSUME NEW A, NEW s \in Seq(A), Len(s) > 1
    PROVE  LET h == Len(s) \div 2
               l == SubSeq(s, 1, h)
               r == SubSeq(s, h + 1, Len(s))
           IN  /\ l \in Seq(A) /\ r \in Seq(A)
               /\ Len(l) < Len(s) /\ Len(r) < Len(s)
               /\ Listed(s) = Listed(l) \cup Listed(r)
<1> DEFINE h == Len(s) \div 2
           l == SubSeq(s, 1, h)
           r == SubSeq(s, h + 1, Len(s))
<1>1. Len(s) \in Nat /\ h \in Nat /\ 0 < h /\ h < Len(s)
  OBVIOUS
<1> HIDE DEF h
<1>2. /\ l \in Seq(A) /\ Len(l) = h
      /\ \A i \in 1 .. h : l[i] = s[i]
  BY <1>1
<1>3. /\ r \in Seq(A) /\ Len(r) = Len(s) - h
      /\ \A i \in 1 .. (Len(s) - h) : r[i] = s[h + i]
  BY <1>1
<1> HIDE DEF l, r
<1>4. /\ Listed(s) = {s[i] : i \in 1 .. Len(s)}
      /\ Listed(l) = {l[i] : i \in 1 .. h}
      /\ Listed(r) = {r[i] : i \in 1 .. (Len(s) - h)}
  <2>1. DOMAIN s = 1 .. Len(s) /\ DOMAIN l = 1 .. h /\ DOMAIN r = 1 .. (Len(s) - h)
    BY <1>2, <1>3
  <2> QED
    BY <2>1 DEF Listed
<1>5. ASSUME NEW i \in 1 .. Len(s) PROVE s[i] \in Listed(l) \cup Listed(r)
  <2>1. CASE i \in 1 .. h
    BY <1>2, <1>4, <2>1
  <2>2. CASE i \notin 1 .. h
    <3>1. i - h \in 1 .. (Len(s) - h) /\ h + (i - h) = i
      BY <1>1, <2>2
    <3>2. r[i - h] = s[i]
      BY <1>3, <3>1
    <3> QED
      BY <1>4, <3>1, <3>2
  <2> QED
    BY <2>1, <2>2
<1>6. \A i \in 1 .. h : l[i] \in Listed(s)
  BY <1>1, <1>2, <1>4
<1>7. \A i \in 1 .. (Len(s) - h) : r[i] \in Listed(s)
  BY <1>1, <1>3, <1>4
<1>8. Listed(s) = Listed(l) \cup Listed(r)
  BY <1>4, <1>5, <1>6, <1>7
<1>9. Len(l) < Len(s) /\ Len(r) < Len(s)
  BY <1>1, <1>2, <1>3
<1> QED
  BY <1>2, <1>3, <1>8, <1>9 DEF l, r, h

(* Halving the addresses of a query. *)
LEMMA QueryHalves ==
    ASSUME NEW q \in AddressQuery, Len(q.addresses) > 1
    PROVE  /\ FirstHalf(q) \in AddressQuery /\ SecondHalf(q) \in AddressQuery
           /\ FirstHalf(q).from = q.from /\ FirstHalf(q).to = q.to
           /\ SecondHalf(q).from = q.from /\ SecondHalf(q).to = q.to
           /\ Len(FirstHalf(q).addresses) < Len(q.addresses)
           /\ Len(SecondHalf(q).addresses) < Len(q.addresses)
           /\ Listed(q.addresses) = Listed(FirstHalf(q).addresses) \cup Listed(SecondHalf(q).addresses)
<1> DEFINE s == q.addresses
           l == SubSeq(s, 1, Len(s) \div 2)
           r == SubSeq(s, Len(s) \div 2 + 1, Len(s))
<1>1. s \in Seq(Listed(Addresses)) /\ Len(s) \in Nat /\ Len(s) <= Len(Addresses)
      /\ Len(Addresses) \in Nat
  BY ListsAre DEF AddressQuery
<1>2. /\ l \in Seq(Listed(Addresses)) /\ r \in Seq(Listed(Addresses))
      /\ Len(l) < Len(s) /\ Len(r) < Len(s)
      /\ Listed(s) = Listed(l) \cup Listed(r)
  BY <1>1, ListHalves
<1>3. FirstHalf(q) = [q EXCEPT !.addresses = l] /\ SecondHalf(q) = [q EXCEPT !.addresses = r]
  BY DEF FirstHalf, SecondHalf
<1> HIDE DEF l, r
<1>4. Len(l) \in Nat /\ Len(r) \in Nat
  BY <1>2
<1>5. l \in Lists /\ r \in Lists
  BY <1>1, <1>2, <1>4, ListsAre
<1>6. /\ FirstHalf(q) \in AddressQuery /\ SecondHalf(q) \in AddressQuery
      /\ FirstHalf(q).from = q.from /\ FirstHalf(q).to = q.to
      /\ SecondHalf(q).from = q.from /\ SecondHalf(q).to = q.to
      /\ FirstHalf(q).addresses = l /\ SecondHalf(q).addresses = r
  BY <1>3, <1>5 DEF AddressQuery
<1> QED
  BY <1>2, <1>6

(* The size of a query: its blocks and its addresses. *)
Extent == [q \in AddressQuery |-> q.to - q.from + To + Len(q.addresses)]

(* Every half is smaller. *)
LEMMA Extents ==
    /\ Extent \in [AddressQuery -> Nat]
    /\ \E M \in Nat : \A q \in AddressQuery : Extent[q] <= M
    /\ \A q \in AddressQuery : q.from < q.to =>
          Extent[LowerHalf(q)] < Extent[q] /\ Extent[UpperHalf(q)] < Extent[q]
    /\ \A q \in AddressQuery : Len(q.addresses) > 1 =>
          Extent[FirstHalf(q)] < Extent[q] /\ Extent[SecondHalf(q)] < Extent[q]
<1>0. /\ From \in Nat /\ To \in Nat /\ Len(Addresses) \in Nat
      /\ \A q \in AddressQuery : /\ q.from \in Nat /\ q.to \in Nat /\ q.from <= To /\ q.to <= To
                                 /\ Len(q.addresses) \in Nat /\ Len(q.addresses) <= Len(Addresses)
  <2>1. \A q \in AddressQuery : q.addresses \in Lists /\ q.from \in Blocks /\ q.to \in Blocks
    BY DEF AddressQuery
  <2>2. \A s \in Lists : Len(s) \in Nat /\ Len(s) <= Len(Addresses)
    BY ListsAre
  <2> QED
    BY <2>1, <2>2, ListsAre, SplitAssumption DEF Blocks
<1>1. /\ Extent \in [AddressQuery -> Nat]
      /\ \A q \in AddressQuery : Extent[q] <= To + To + Len(Addresses)
  <2>1. ASSUME NEW q \in AddressQuery
        PROVE  /\ q.to - q.from + To + Len(q.addresses) \in Nat
               /\ q.to - q.from + To + Len(q.addresses) <= To + To + Len(Addresses)
    <3> DEFINE n == Len(q.addresses)
               N == Len(Addresses)
    <3>1. /\ q.from \in Nat /\ q.to \in Nat /\ q.from <= To /\ q.to <= To
          /\ n \in Nat /\ N \in Nat /\ n <= N
      BY <1>0
    <3> HIDE DEF n, N
    <3> QED
      BY <1>0, <3>1
  <2> QED
    BY <2>1 DEF Extent
<1>2. ASSUME NEW q \in AddressQuery, q.from < q.to
      PROVE  Extent[LowerHalf(q)] < Extent[q] /\ Extent[UpperHalf(q)] < Extent[q]
  <2> DEFINE n == Len(q.addresses)
  <2>1. /\ Extent[q] = q.to - q.from + To + n
        /\ Extent[LowerHalf(q)] = Mid(q) - q.from + To + n
        /\ Extent[UpperHalf(q)] = q.to - (Mid(q) + 1) + To + n
    BY <1>2, AddressHalves DEF Extent
  <2>2. Mid(q) \in Int /\ q.from <= Mid(q) /\ Mid(q) < q.to /\ n \in Nat
    BY <1>0, <1>2, AddressHalves
  <2>3. q.from \in Int /\ q.to \in Int /\ To \in Int /\ Mid(q) \in Int /\ n \in Int
    BY <1>0, <2>2
  <2>4. \A f, m, t, c, k \in Int : f <= m /\ m < t =>
            m - f + c + k < t - f + c + k /\ t - (m + 1) + c + k < t - f + c + k
    OBVIOUS
  <2> HIDE DEF n
  <2>5. /\ Mid(q) - q.from + To + n < q.to - q.from + To + n
        /\ q.to - (Mid(q) + 1) + To + n < q.to - q.from + To + n
    BY <2>2, <2>3, <2>4
  <2> QED
    BY <2>1, <2>5
<1>3. ASSUME NEW q \in AddressQuery, Len(q.addresses) > 1
      PROVE  Extent[FirstHalf(q)] < Extent[q] /\ Extent[SecondHalf(q)] < Extent[q]
  <2> DEFINE a == Len(FirstHalf(q).addresses)
             b == Len(SecondHalf(q).addresses)
             n == Len(q.addresses)
  <2>1. /\ Extent[q] = q.to - q.from + To + n
        /\ Extent[FirstHalf(q)] = q.to - q.from + To + a
        /\ Extent[SecondHalf(q)] = q.to - q.from + To + b
    BY <1>3, QueryHalves DEF Extent
  <2>2. a < n /\ b < n /\ a \in Nat /\ b \in Nat /\ n \in Nat
    BY <1>0, <1>3, QueryHalves
  <2>3. q.to - q.from + To \in Int
    BY <1>0
  <2>4. \A e, i, j \in Int : i < j => e + i < e + j
    OBVIOUS
  <2> HIDE DEF a, b, n
  <2> QED
    BY <2>1, <2>2, <2>3, <2>4
<1> QED
  BY <1>0, <1>1, <1>2, <1>3

(* getAddressScopedLogs is defined for every query. *)
LEMMA AddressLogsAre ==
    ASSUME chain \in SUBSET Log
    PROVE  \A q \in AddressQuery : AddressLogs[q] = AddressBody(AddressLogs, q)
<1> DEFINE Q == AddressQuery
           S == {q \in Q : AddressReply(q).refused /\ (q.from < q.to \/ Len(q.addresses) > 1)}
           D == [q \in Q |-> IF AddressReply(q).refused THEN RangeError ELSE AddressReply(q)]
           L == [q \in S |-> IF q.from < q.to THEN LowerHalf(q) ELSE FirstHalf(q)]
           R == [q \in S |-> IF q.from < q.to THEN UpperHalf(q) ELSE SecondHalf(q)]
           J == [p \in Outcome \X Outcome |-> Join(p[1], p[2])]
<1>1. D \in [Q -> Outcome]
  <2>1. ASSUME NEW q \in Q PROVE AddressReply(q) \in Outcome
    <3>1. Scoped(q.addresses, q.from, q.to) \in SUBSET Log
      BY DEF Scoped, InRange
    <3>2. q.from \in Int /\ q.to \in Int
      BY SplitAssumption DEF AddressQuery, Blocks
    <3> QED
      BY <3>1, <3>2, Refusal, Answers DEF AddressReply
  <2> QED
    BY <2>1, Answers
<1>2. S \in SUBSET Q /\ L \in [S -> Q] /\ R \in [S -> Q]
  BY AddressHalves, QueryHalves
<1>3. J \in [Outcome \X Outcome -> Outcome]
  BY Answers
<1>4. PICK M \in Nat : \A q \in Q : Extent[q] <= M
  BY Extents
<1>5. \A q \in S : Extent[L[q]] < Extent[q] /\ Extent[R[q]] < Extent[q]
  BY Extents
<1>6. PICK f \in [Q -> Outcome] : Splits(f, Q, S, L, R, D, J)
  <2>1. Extent \in [Q -> Nat]
    BY Extents
  <2> HIDE DEF Q, S, L, R, D, J
  <2> QED
    BY <1>1, <1>2, <1>3, <1>4, <1>5, <2>1, SplitExists
<1>7. f = [q \in Q |-> AddressBody(f, q)]
  <2>1. ASSUME NEW q \in Q PROVE f[q] = AddressBody(f, q)
    <3>1. f[q] = IF q \in S THEN J[<<f[L[q]], f[R[q]]>>] ELSE D[q]
      BY <1>6 DEF Splits
    <3>2. CASE q \in S
      <4>1. /\ L[q] \in Q /\ R[q] \in Q
            /\ L[q] = IF q.from < q.to THEN LowerHalf(q) ELSE FirstHalf(q)
            /\ R[q] = IF q.from < q.to THEN UpperHalf(q) ELSE SecondHalf(q)
        BY <1>2, <3>2
      <4>2. J[<<f[L[q]], f[R[q]]>>] = Join(f[L[q]], f[R[q]])
        BY <1>6, <4>1
      <4>3. AddressReply(q).refused /\ (q.from < q.to \/ Len(q.addresses) > 1)
        BY <3>2
      <4> HIDE DEF S, L, R, J
      <4> QED
        BY <3>1, <3>2, <4>1, <4>2, <4>3 DEF AddressBody
    <3>3. CASE q \notin S
      BY <3>1, <3>3 DEF AddressBody
    <3> QED
      BY <3>2, <3>3
  <2> HIDE DEF Q
  <2> QED
    BY <1>6, <2>1
<1>8. AddressLogs = [q \in Q |-> AddressBody(AddressLogs, q)]
  <2>1. AddressLogs = CHOOSE g : g = [q \in Q |-> AddressBody(g, q)]
    BY DEF AddressLogs, AddressBody
  <2> QED
    BY <1>7, <2>1
<1> QED
  BY <1>8

(* An address of the query has more logs in a block than an endpoint       *)
(* returns.                                                                *)
HotAddress(q) ==
    \E a \in Listed(q.addresses), b \in q.from .. q.to : Cardinality(Scoped(<<a>>, b, b)) > Max

LogsFor(q) == Scoped(q.addresses, q.from, q.to)

(* What the parts of a query have and the whole has. *)
LEMMA ScopedParts ==
    ASSUME NEW as, NEW from, NEW to, NEW bs, NEW f2, NEW t2
    PROVE  /\ Scoped(as, from, to) = {l \in chain : l.block \in from .. to /\ l.address \in Listed(as)}
           /\ Listed(bs) \subseteq Listed(as) /\ (f2 .. t2) \subseteq (from .. to)
                => Scoped(bs, f2, t2) \subseteq Scoped(as, from, to)
BY DEF Scoped, InRange

(* A query by addresses has every log it asks for, or is refused. *)
LEMMA AddressLogsExact ==
    ASSUME chain \in SUBSET Log, NEW q \in AddressQuery
    PROVE  AddressLogs[q] = IF HotAddress(q) THEN RangeError ELSE All(LogsFor(q))
<1> DEFINE Exact(r) == AddressLogs[r] = IF HotAddress(r) THEN RangeError ELSE All(LogsFor(r))
           Good == {r \in AddressQuery : Exact(r)}
<1>0. \A r \in AddressQuery : r.from \in Int /\ r.to \in Int /\ r.addresses \in Lists
  BY SplitAssumption DEF AddressQuery, Blocks
<1>1. ASSUME NEW x PROVE Listed(<<x>>) = {x}
  BY DEF Listed
<1>2. ASSUME NEW r \in AddressQuery, NEW l \in AddressQuery, NEW u \in AddressQuery,
             Exact(l), Exact(u), AddressLogs[r] = Join(AddressLogs[l], AddressLogs[u]),
             LogsFor(r) = LogsFor(l) \cup LogsFor(u),
             HotAddress(r) <=> HotAddress(l) \/ HotAddress(u)
      PROVE  r \in Good
  <2>1. LogsFor(l) \in SUBSET Log /\ LogsFor(u) \in SUBSET Log
    BY DEF LogsFor, Scoped, InRange
  <2>2. Join(AddressLogs[l], AddressLogs[u])
          = IF HotAddress(l) \/ HotAddress(u) THEN RangeError ELSE All(LogsFor(l) \cup LogsFor(u))
    BY <1>2, <2>1, Answers DEF Join
  <2> QED
    BY <1>2, <2>2
<1>3. ASSUME NEW r \in AddressQuery, \A k \in AddressQuery : Extent[k] < Extent[r] => k \in Good
      PROVE  r \in Good
  <2> DEFINE all == LogsFor(r)
  <2>1. AddressLogs[r] = AddressBody(AddressLogs, r)
    BY AddressLogsAre
  <2>2. /\ all \in SUBSET Log /\ IsFiniteSet(all) /\ Cardinality(all) \in Nat /\ Max \in Nat
        /\ AddressReply(r) \in {RangeError, All(all)}
        /\ Cardinality(all) > Max => AddressReply(r).refused
        /\ AddressReply(r).refused => r.from < r.to \/ Cardinality(all) > Max
    <3>1. all \in SUBSET Log
      BY DEF LogsFor, Scoped, InRange
    <3>2. IsFiniteSet(all)
      BY <3>1, SplitAssumption, FS_Subset
    <3>3. AddressReply(r) = ReplyTo(all, r.from, r.to)
      BY DEF AddressReply, LogsFor
    <3> HIDE DEF all
    <3> QED
      BY <1>0, <3>1, <3>2, <3>3, Refusal, FS_CardinalityType, SplitAssumption
  <2>3. RangeError.refused /\ ~All(all).refused
    BY <2>2, Answers
  <2>4. CASE ~AddressReply(r).refused
    <3>1. ~HotAddress(r)
      <4> SUFFICES ASSUME NEW a \in Listed(r.addresses), NEW b \in r.from .. r.to
                   PROVE  ~(Cardinality(Scoped(<<a>>, b, b)) > Max)
        BY DEF HotAddress
      <4>1. Scoped(<<a>>, b, b) \subseteq all
        <5>1. (b .. b) \subseteq (r.from .. r.to) /\ Listed(<<a>>) \subseteq Listed(r.addresses)
          BY <1>0, <1>1
        <5> QED
          BY <5>1, ScopedParts DEF LogsFor
      <4>2. /\ Cardinality(Scoped(<<a>>, b, b)) <= Cardinality(all)
            /\ Cardinality(Scoped(<<a>>, b, b)) \in Nat
        BY <2>2, <4>1, FS_Subset, FS_CardinalityType
      <4> HIDE DEF all
      <4> QED
        BY <2>2, <2>4, <4>2
    <3> QED
      BY <2>1, <2>2, <2>3, <2>4, <3>1 DEF AddressBody
  <2>5. CASE AddressReply(r).refused /\ r.from < r.to
    <3> DEFINE l == LowerHalf(r)
               u == UpperHalf(r)
    <3>1. /\ l \in AddressQuery /\ u \in AddressQuery
          /\ l.addresses = r.addresses /\ u.addresses = r.addresses
          /\ l.from = r.from /\ l.to = Mid(r) /\ u.from = Mid(r) + 1 /\ u.to = r.to
          /\ Mid(r) \in Int /\ r.from <= Mid(r) /\ Mid(r) < r.to
      BY <2>5, AddressHalves
    <3>2. Exact(l) /\ Exact(u)
      BY <1>3, <2>5, <3>1, Extents
    <3>3. AddressLogs[r] = Join(AddressLogs[l], AddressLogs[u])
      BY <2>1, <2>5 DEF AddressBody
    <3> HIDE DEF l, u
    <3>4. r.from .. r.to = (l.from .. l.to) \cup (u.from .. u.to)
      BY <1>0, <3>1, RangeHalves
    <3>5. LogsFor(r) = LogsFor(l) \cup LogsFor(u)
      BY <3>1, <3>4 DEF LogsFor, Scoped, InRange
    <3>6. HotAddress(r) <=> HotAddress(l) \/ HotAddress(u)
      BY <3>1, <3>4 DEF HotAddress
    <3> QED
      BY <1>2, <3>1, <3>2, <3>3, <3>5, <3>6
  <2>6. CASE AddressReply(r).refused /\ ~(r.from < r.to) /\ Len(r.addresses) > 1
    <3> DEFINE l == FirstHalf(r)
               u == SecondHalf(r)
    <3>1. /\ l \in AddressQuery /\ u \in AddressQuery
          /\ l.from = r.from /\ l.to = r.to /\ u.from = r.from /\ u.to = r.to
          /\ Listed(r.addresses) = Listed(l.addresses) \cup Listed(u.addresses)
      BY <2>6, QueryHalves
    <3>2. Exact(l) /\ Exact(u)
      BY <1>3, <2>6, <3>1, Extents
    <3>3. AddressLogs[r] = Join(AddressLogs[l], AddressLogs[u])
      BY <2>1, <2>6 DEF AddressBody
    <3> HIDE DEF l, u
    <3>5. LogsFor(r) = LogsFor(l) \cup LogsFor(u)
      BY <3>1 DEF LogsFor, Scoped, InRange
    <3>6. HotAddress(r) <=> HotAddress(l) \/ HotAddress(u)
      BY <3>1 DEF HotAddress
    <3> QED
      BY <1>2, <3>1, <3>2, <3>3, <3>5, <3>6
  <2>7. CASE AddressReply(r).refused /\ ~(r.from < r.to) /\ ~(Len(r.addresses) > 1)
    <3>1. Cardinality(all) > Max
      BY <2>2, <2>7
    <3>2. all # {}
      BY <2>2, <3>1, FS_EmptySet
    <3>3. r.from = r.to
      <4>1. PICK l \in chain : l.block \in r.from .. r.to
        BY <3>2 DEF LogsFor, Scoped, InRange
      <4> QED
        BY <1>0, <2>7, <4>1
    <3>4. PICK x : x \in Listed(r.addresses)
      BY <3>2 DEF LogsFor, Scoped
    <3>5. Listed(r.addresses) = {x}
      <4>1. r.addresses \in Seq(Listed(Addresses)) /\ Len(r.addresses) \in Nat
        BY <1>0, ListsAre
      <4>2. DOMAIN r.addresses = 1 .. Len(r.addresses)
        BY <4>1
      <4>3. DOMAIN r.addresses \subseteq {1}
        BY <2>7, <4>1, <4>2
      <4> QED
        BY <3>4, <4>3 DEF Listed
    <3>6. Listed(<<x>>) = Listed(r.addresses)
      BY <1>1, <3>5
    <3>7. all = Scoped(<<x>>, r.from, r.from)
      BY <3>3, <3>6 DEF LogsFor, Scoped
    <3>8. HotAddress(r)
      BY <1>0, <3>1, <3>3, <3>4, <3>7 DEF HotAddress
    <3> QED
      BY <2>1, <2>7, <3>8 DEF AddressBody
  <2> QED
    BY <2>4, <2>5, <2>6, <2>7
<1>4. Good = AddressQuery
  <2>1. Extent \in [AddressQuery -> Nat] /\ Good \in SUBSET AddressQuery
    BY Extents
  <2> HIDE DEF Good
  <2> QED
    BY <1>3, <2>1, SplitInduction
<1> QED
  BY <1>4

-----------------------------------------------------------------------------
SplitSpec == SplitInit /\ [][SplitNext]_splitVars

SplitInv == chain \in SUBSET Log /\ AnswersExact

(* getAddressScopedLogs and getTopicScopedLogs lose no log and double none, *)
(* for any logs, any list of addresses, any range and any limits of an     *)
(* endpoint: the answer is exact, or refused as a whole where a single     *)
(* block of a single address is too large.                                 *)
THEOREM SplitAnswersExact == SplitSpec => []AnswersExact
<1>1. SplitInit => SplitInv
  BY DEF SplitInit, SplitInv, AnswersExact, AddressesExact, TopicsExact
<1>2. SplitInv /\ [SplitNext]_splitVars => SplitInv'
  <2> SUFFICES ASSUME SplitInv, [SplitNext]_splitVars PROVE SplitInv'
    OBVIOUS
  <2>0. From \in Blocks /\ To \in Blocks /\ Addresses \in Lists /\ chain \in SUBSET Log
    BY SplitAssumption, ListsAre DEF Blocks, SplitInv
  <2>1. CASE UNCHANGED splitVars
    BY <2>1 DEF splitVars, SplitInv, AnswersExact, AddressesExact, TopicsExact, Scoped, InRange
  <2>2. CASE AskAddresses
    <3> DEFINE q == [addresses |-> Addresses, from |-> From, to |-> To]
    <3>1. /\ q \in AddressQuery /\ q.addresses = Addresses /\ q.from = From /\ q.to = To
      BY <2>0 DEF AddressQuery
    <3>2. answer' = AddressLogs[q] /\ query' = "addresses" /\ chain' = chain
      BY <2>2 DEF AskAddresses
    <3> HIDE DEF q
    <3>3. answer' = IF HotAddress(q) THEN RangeError ELSE All(LogsFor(q))
      BY <2>0, <3>1, <3>2, AddressLogsExact
    <3>4. AddressesExact'
      BY <3>1, <3>2, <3>3 DEF AddressesExact, HotAddress, LogsFor, Scoped, InRange
    <3> QED
      BY <2>0, <3>2, <3>4 DEF SplitInv, AnswersExact, TopicsExact
  <2>3. CASE AskTopics
    <3> DEFINE q == [from |-> From, to |-> To]
    <3>1. q \in TopicQuery /\ q.from = From /\ q.to = To
      BY <2>0 DEF TopicQuery
    <3>2. answer' = TopicLogs[q] /\ query' = "topics" /\ chain' = chain
      BY <2>3 DEF AskTopics
    <3> HIDE DEF q
    <3>3. answer' = IF HotTopic(q) THEN RangeError ELSE All(InRange(q.from, q.to))
      BY <2>0, <3>1, <3>2, TopicLogsExact
    <3>4. TopicsExact'
      BY <3>1, <3>2, <3>3 DEF TopicsExact, HotTopic, InRange
    <3> QED
      BY <2>0, <3>2, <3>4 DEF SplitInv, AnswersExact, AddressesExact
  <2> QED
    BY <2>1, <2>2, <2>3 DEF SplitNext
<1>3. SplitInv => AnswersExact
  BY DEF SplitInv
<1> QED
  BY <1>1, <1>2, <1>3, PTL DEF SplitSpec

-----------------------------------------------------------------------------
(* Creators.                                                               *)

CreatorsSpec == CreatorsInit /\ [][CreatorsNext]_creatorVars

(* The rows above one of S are finitely many. *)
LEMMA AboveFinite ==
    ASSUME NEW S \in SUBSET Token, NEW t \in S
    PROVE  /\ Above(S, t) \in SUBSET S
           /\ IsFiniteSet(Above(S, t)) /\ Cardinality(Above(S, t)) \in Nat
<1>1. Above(S, t) \in SUBSET Token /\ Above(S, t) \in SUBSET S
  BY DEF Above
<1>2. IsFiniteSet(Above(S, t))
  BY <1>1, CreatorsAssumption, FS_Subset
<1> QED
  BY <1>1, <1>2, FS_CardinalityType

(* Among the tokens of T the proof takes one with the fewest of S above it; *)
(* no token above it is in T.                                              *)
LEMMA TopToken ==
    ASSUME NEW S \in SUBSET Token, NEW T \in SUBSET S, T # {}
    PROVE  \E t \in T : \A k \in Above(S, t) : k \notin T
<1> DEFINE N == {Cardinality(Above(S, t)) : t \in T}
<1>1. N \subseteq Nat /\ N # {}
  BY AboveFinite
<1>2. PICK n \in N : \A m \in N : ~(<<m, n>> \in OpToRel(<, Nat))
  <2> HIDE DEF N
  <2> QED
    BY <1>1, WFMin, NatLessThanWellFounded
<1>3. \A m \in N : ~(m < n)
  BY <1>1, <1>2 DEF OpToRel
<1>4. PICK t \in T : n = Cardinality(Above(S, t))
  OBVIOUS
<1>5. ASSUME NEW k \in Above(S, t), k \in T PROVE FALSE
  <2>1. \A s \in S : Block[s] \in Nat
    BY CreatorsAssumption
  <2>2. Above(S, k) \subseteq Above(S, t) /\ k \notin Above(S, k)
    BY <1>5, <2>1 DEF Above
  <2>3. Cardinality(Above(S, k)) <= n /\ Cardinality(Above(S, k)) # n
    BY <1>4, <1>5, <2>2, AboveFinite, FS_Subset
  <2>4. /\ Cardinality(Above(S, k)) \in Nat /\ n \in Nat
        /\ ~(Cardinality(Above(S, k)) < n)
    BY <1>1, <1>3, <1>5
  <2> QED
    BY <2>3, <2>4
<1> QED
  BY <1>5

(* A batch that is not filled holds every row (LIMIT of                    *)
(* tokensMissingCreator).                                                  *)
LEMMA ShortBatchIsAll ==
    ASSUME NEW S \in SUBSET Token, Cardinality(FirstRows(S)) < Limit
    PROVE  FirstRows(S) = S
<1>0. FirstRows(S) = {t \in S : Cardinality(Above(S, t)) < Limit}
  BY DEF FirstRows, Above
<1> SUFFICES ASSUME S \ FirstRows(S) # {} PROVE FALSE
  BY <1>0
<1>1. PICK t \in S \ FirstRows(S) : \A k \in Above(S, t) : k \notin S \ FirstRows(S)
  BY TopToken
<1>2. Above(S, t) \subseteq FirstRows(S)
  BY <1>1 DEF Above
<1>3. IsFiniteSet(FirstRows(S)) /\ Cardinality(FirstRows(S)) \in Nat
  <2>1. FirstRows(S) \in SUBSET Token
    BY <1>0
  <2>2. IsFiniteSet(FirstRows(S))
    BY <2>1, CreatorsAssumption, FS_Subset
  <2> QED
    BY <2>2, FS_CardinalityType
<1>4. Cardinality(Above(S, t)) <= Cardinality(FirstRows(S))
  BY <1>2, <1>3, FS_Subset
<1>5. ~(Cardinality(Above(S, t)) < Limit) /\ Cardinality(Above(S, t)) \in Nat
  BY <1>0, <1>1, AboveFinite
<1>6. Limit \in Nat
  BY CreatorsAssumption
<1> QED
  BY <1>3, <1>4, <1>5, <1>6

-----------------------------------------------------------------------------
(* While a batch has found nothing, the rows it started with are still the *)
(* first rows without a creator, and those it is done with cannot be told  *)
(* by any dependable endpoint.                                             *)
Filling ==
    /\ listed \subseteq Token
    /\ nulls \cap Sure = {}
    /\ found \in Nat
    /\ pc = "fill" /\ found = 0 => Sure \cap Select \subseteq batch

FillInv == Filling /\ FillComplete

(* A run stops after a batch without a result.  Had the batch been all the *)
(* rows without a creator, none of them could be told; so a row that can   *)
(* lies below a batch that was full, and none of the batch can be told.    *)
LEMMA LastBatch ==
    ASSUME Filling, pc = "fill", batch = {}, found = 0,
           NEW t \in Sure \cap Missing
    PROVE  Cardinality(Above(Missing \ Sure, t)) >= Limit
<1>1. Sure \cap Select = {} /\ Missing \in SUBSET Token /\ Select \in SUBSET Missing
  BY DEF Filling, Missing, Select, FirstRows
<1>2. t \in Missing \ Select /\ t \in Token
  BY <1>1
<1>3. Select \subseteq Above(Missing \ Sure, t)
  <2> SUFFICES ASSUME NEW s \in Select PROVE Block[s] > Block[t]
    BY <1>1 DEF Above
  <2>1. s \in Missing /\ s # t /\ Block[s] \in Nat /\ Block[t] \in Nat /\ Block[s] # Block[t]
    BY <1>1, <1>2, CreatorsAssumption
  <2> SUFFICES ASSUME Block[t] > Block[s] PROVE FALSE
    BY <2>1
  <2>2. Above(Missing, t) \subseteq Above(Missing, s)
    <3> SUFFICES ASSUME NEW k \in Missing, Block[k] > Block[t] PROVE Block[k] > Block[s]
      BY DEF Above
    <3>1. Block[k] \in Nat
      BY <1>1, CreatorsAssumption
    <3> QED
      BY <2>1, <3>1
  <2>3. Cardinality(Above(Missing, t)) <= Cardinality(Above(Missing, s))
    BY <1>1, <2>1, <2>2, AboveFinite, FS_Subset
  <2>4. Cardinality(Above(Missing, s)) < Limit /\ ~(Cardinality(Above(Missing, t)) < Limit)
    BY <1>2 DEF Select, FirstRows
  <2>5. /\ Cardinality(Above(Missing, s)) \in Nat /\ Cardinality(Above(Missing, t)) \in Nat
        /\ Limit \in Nat
    BY <1>1, <1>2, <2>1, AboveFinite, CreatorsAssumption
  <2> QED
    BY <2>3, <2>4, <2>5
<1>4. IsFiniteSet(Above(Missing \ Sure, t))
  <2>1. Above(Missing \ Sure, t) \in SUBSET Token
    BY <1>1 DEF Above
  <2> QED
    BY <2>1, CreatorsAssumption, FS_Subset
<1>5. /\ Cardinality(Select) <= Cardinality(Above(Missing \ Sure, t))
      /\ IsFiniteSet(Select)
  BY <1>3, <1>4, FS_Subset
<1>6. ~(Cardinality(Select) < Limit)
  BY <1>1, <1>2, ShortBatchIsAll DEF Select
<1>7. /\ Cardinality(Select) \in Nat /\ Cardinality(Above(Missing \ Sure, t)) \in Nat
      /\ Limit \in Nat
  BY <1>4, <1>5, FS_CardinalityType, CreatorsAssumption
<1> QED
  BY <1>5, <1>6, <1>7

(* Every step keeps what is known of the batch. *)
LEMMA FillStep ==
    ASSUME FillInv, [CreatorsNext]_creatorVars
    PROVE  FillInv'
<1>0. Filling /\ FillComplete /\ Select' = FirstRows(listed' \ creator')
      /\ Select = FirstRows(listed \ creator)
  BY DEF FillInv, Select, Missing, FirstRows
<1>1. CASE UNCHANGED creatorVars
  <2>1. Missing' = Missing
    BY <1>1 DEF creatorVars, Missing
  <2> QED
    BY <1>0, <1>1, <2>1 DEF creatorVars, FillInv, Filling, FillComplete, Above
<1>2. CASE List
  <2>1. PICK t \in Token \ listed : listed' = listed \cup {t} /\ TxFrom(t)
    BY <1>2 DEF List
  <2>2. nulls' \cap Sure = {}
    BY <1>0, <2>1 DEF TxFrom, NothingOf, Filling
  <2>3. pc' = "ready" /\ found' = found
    BY <1>2 DEF List
  <2> QED
    BY <1>0, <2>1, <2>2, <2>3 DEF FillInv, Filling, FillComplete
<1>3. CASE Start \/ Begin \/ End \/ Crash
  <2>1. pc' \notin {"fill", "ended"} /\ listed' = listed /\ found' \in Nat
        /\ nulls' \subseteq nulls
    BY <1>0, <1>3 DEF Start, Begin, End, Crash, Filling
  <2> QED
    BY <1>0, <2>1 DEF FillInv, Filling, FillComplete
<1>4. CASE StartFill
  <2>1. pc' = "fill" /\ batch' = Select /\ found' = 0 /\ nulls' = {}
        /\ UNCHANGED <<listed, creator>>
    BY <1>4 DEF StartFill
  <2> QED
    BY <1>0, <2>1 DEF FillInv, Filling, FillComplete
<1>5. CASE LookUp
  <2>1. PICK t \in batch : /\ batch' = batch \ {t} /\ TxFrom(t)
                           /\ found' = IF creator' = creator THEN found ELSE found + 1
    BY <1>5 DEF LookUp
  <2>2. pc' = pc /\ pc # "ended" /\ listed' = listed
    BY <1>5 DEF LookUp
  <2>3. nulls' \cap Sure = {} /\ found' \in Nat
    BY <1>0, <2>1 DEF TxFrom, NothingOf, Filling
  <2>4. ASSUME pc' = "fill", found' = 0 PROVE Sure \cap Select' \subseteq batch'
    <3>1. creator' = creator /\ found = 0
      BY <1>0, <2>1, <2>4 DEF Filling
    <3>2. Sure \cap Select \subseteq batch /\ Select' = Select
      BY <1>0, <2>2, <2>4, <3>1 DEF Filling
    <3>3. t \notin Sure \cap Select
      <4>1. t \in creator \/ t \notin Sure
        BY <1>0, <2>1, <3>1 DEF TxFrom, NothingOf, Filling
      <4> QED
        BY <4>1 DEF Select, FirstRows, Missing
    <3> QED
      BY <2>1, <3>2, <3>3
  <2> QED
    BY <1>0, <2>2, <2>3, <2>4 DEF FillInv, Filling, FillComplete
<1>6. CASE NextFill
  <2>1. pc = "fill" /\ batch = {} /\ UNCHANGED <<listed, creator>> /\ found \in Nat
    BY <1>0, <1>6 DEF NextFill, Filling
  <2>2. CASE GoesOn
    <3>1. batch' = Select /\ found' = 0 /\ UNCHANGED <<nulls, pc>>
      BY <1>6, <2>2 DEF NextFill
    <3> QED
      BY <1>0, <2>1, <3>1 DEF FillInv, Filling, FillComplete
  <2>3. CASE ~GoesOn
    <3>1. pc' = "ended" /\ nulls' = {} /\ UNCHANGED <<batch, found>>
      BY <1>6, <2>3 DEF NextFill
    <3>2. found = 0
      BY <2>1, <2>3 DEF GoesOn
    <3>3. \A t \in Sure \cap Missing : Cardinality(Above(Missing \ Sure, t)) >= Limit
      BY <1>0, <2>1, <3>2, LastBatch
    <3>4. Missing' = Missing
      BY <2>1 DEF Missing
    <3> QED
      BY <1>0, <2>1, <3>1, <3>3, <3>4 DEF FillInv, Filling, FillComplete, Above
  <2> QED
    BY <2>2, <2>3
<1>7. CASE Forget
  <2>1. nulls' \subseteq nulls /\ UNCHANGED <<listed, creator, batch, found, pc>>
    BY <1>7 DEF Forget
  <2>2. Missing' = Missing
    BY <2>1 DEF Missing
  <2> QED
    BY <1>0, <2>1, <2>2 DEF FillInv, Filling, FillComplete, Above
<1> QED
  BY <1>1, <1>2, <1>3, <1>4, <1>5, <1>6, <1>7 DEF CreatorsNext, Step

(* When a run with --fill-creators ends, a creator that an endpoint can    *)
(* tell is missing only below a whole batch of rows without an answer (the *)
(* loop over fillMissingCreators), however many rows have none.            *)
THEOREM FillLeavesNone == CreatorsSpec => []FillComplete
<1>1. CreatorsInit => FillInv
  BY DEF CreatorsInit, FillInv, Filling, FillComplete
<1>2. FillInv /\ [CreatorsNext]_creatorVars => FillInv'
  BY FillStep
<1>3. FillInv => FillComplete
  BY DEF FillInv
<1> QED
  BY <1>1, <1>2, <1>3, PTL DEF CreatorsSpec
=============================================================================
