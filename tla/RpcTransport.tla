---------------------------- MODULE RpcTransport ----------------------------
(***************************************************************************)
(* createRpcProvider of rpc.js: the calls of one process share a few slots *)
(* and a list of endpoints.  A call takes a slot, tries the endpoints that *)
(* are not cooling down for its method, each one verified to serve the     *)
(* right chain before its first answer is believed, and gives the slot     *)
(* back whatever happens.                                                  *)
(*                                                                         *)
(* The endpoints and the clock are the environment: an endpoint may answer *)
(* anything it is capable of (Dependable and OnChain say of what), and a   *)
(* cooldown may end at any moment.                                         *)
(***************************************************************************)
EXTENDS Integers, Sequences, FiniteSets

CONSTANTS
    Call,          \* concurrent callers of the provider
    Method,        \* JSON-RPC methods
    Asks,          \* Asks[c]: the methods that caller c uses
    GetLogs,       \* the method eth_getLogs
    Endpoint,
    Position,      \* Position[e]: where e stands in the configured order
    OnChain,       \* those that serve CHAIN_ID
    Dependable,    \* those that never time out, throttle or misbehave
    Slots,         \* max(1, RPC_CONCURRENCY)
    None

ASSUME TransportAssumption ==
    /\ IsFiniteSet(Call) /\ IsFiniteSet(Endpoint)
    /\ GetLogs \in Method
    /\ Asks \in [Call -> SUBSET Method]
    /\ Position \in [Endpoint -> Nat]
    /\ \A e, f \in Endpoint : Position[e] = Position[f] => e = f
    /\ OnChain \subseteq Endpoint /\ Dependable \subseteq Endpoint
    /\ Slots \in Nat /\ Slots > 0
    /\ None \notin Endpoint /\ None \notin Method

VARIABLES
    active,      \* the counter of used slots
    queue,       \* calls waiting in acquire(), oldest first
    cooling,     \* pairs <<e, m>> with failedUntil[m] of e in the future
    verified,    \* endpoints with chainChecked
    preferred,   \* preferred[m]: the endpoint that answered m last, or None
    call         \* call[c]: the progress of call c

vars == <<active, queue, cooling, verified, preferred, call>>

(***************************************************************************)
(* "woken": acquire() has resolved; "check" and "ask": a request to        *)
(* endpoint `at` is under way, for its chain id or for the answer.         *)
(***************************************************************************)
PC == {"idle", "queued", "woken", "check", "ask"}

CallState == [ pc : PC,
               method : Method \cup {None},
               lead : Endpoint \cup {None},   \* preferred when the list was made
               left : SUBSET Endpoint,        \* the rest of the list
               at : Endpoint \cup {None},
               last : {"none", "answer", "split", "failed"},   \* how the last call ended
               by : Endpoint \cup {None} ]                     \* and who answered it

Fresh == [pc |-> "idle", method |-> None, lead |-> None, left |-> {}, at |-> None,
          last |-> "none", by |-> None]

At(c, pc) == call[c].pc = pc
HoldsSlot(c) == call[c].pc \in {"woken", "check", "ask"}
Target(c) == call[c].at

Ended(how, by) == [Fresh EXCEPT !.last = how, !.by = by]

-----------------------------------------------------------------------------
(* BUG: a released slot is counted as free although a waiting call has it. *)
ReleaseUncounted(c, r) ==
    IF queue = <<>>
    THEN active' = active - 1 /\ queue' = queue /\ call' = [call EXCEPT ![c] = r]
    ELSE /\ active' = active - 1
         /\ queue' = Tail(queue)
         /\ call' = [call EXCEPT ![c] = r, ![Head(queue)].pc = "woken"]

(* BUG: a released slot is free again and the waiting call is not resumed. *)
ReleaseUnwoken(c, r) ==
    /\ active' = active - 1
    /\ call' = [call EXCEPT ![c] = r]
    /\ UNCHANGED queue

(* release() in the finally block of call c, which ends as r. *)
Release(c, r) ==
    IF queue = <<>>
    THEN active' = active - 1 /\ queue' = queue /\ call' = [call EXCEPT ![c] = r]
    ELSE /\ active' = active
         /\ queue' = Tail(queue)
         /\ call' = [call EXCEPT ![c] = r, ![Head(queue)].pc = "woken"]

(* The next of the endpoints left: the preferred one, then as configured. *)
ComesNext(e, left, lead) ==
    e = lead \/ (lead \notin left /\ \A f \in left : Position[e] <= Position[f])

(* The next turn of the loop, or the error after it. *)
TryNext(c, left, lead) ==
    IF left = {} THEN Release(c, Ended("failed", None))
    ELSE /\ \E e \in left :
            /\ ComesNext(e, left, lead)
            /\ call' = [call EXCEPT ![c] =
                  [@ EXCEPT !.pc = IF e \in verified THEN "ask" ELSE "check",
                            !.at = e, !.left = left \ {e}, !.lead = lead]]
         /\ UNCHANGED <<active, queue>>

(* acquire() *)
Send(c) ==
    /\ At(c, "idle")
    /\ \E m \in Asks[c] :
        IF active >= Slots
        THEN /\ queue' = Append(queue, c)
             /\ call' = [call EXCEPT ![c] = [Fresh EXCEPT !.pc = "queued", !.method = m]]
             /\ UNCHANGED active
        ELSE /\ active' = active + 1
             /\ call' = [call EXCEPT ![c] = [Fresh EXCEPT !.pc = "woken", !.method = m]]
             /\ UNCHANGED queue
    /\ UNCHANGED <<cooling, verified, preferred>>

(* The endpoints that are not cooling down for the method. *)
Available(m) == {e \in Endpoint : <<e, m>> \notin cooling}

(* The list of endpoints is made once, when the slot is there. *)
Plan(c) ==
    /\ At(c, "woken")
    /\ TryNext(c, Available(call[c].method), preferred[call[c].method])
    /\ UNCHANGED <<cooling, verified, preferred>>

(* fail(endpoint, method, reason) and on to the next endpoint. *)
GiveUp(c) ==
    /\ cooling' = cooling \cup {<<Target(c), call[c].method>>}
    /\ UNCHANGED <<verified, preferred>>
    /\ TryNext(c, call[c].left, call[c].lead)

(* BUG: the chain check only asks whether the endpoint answers. *)
ChainCheckedAnyway(e) == TRUE

(* The endpoint's eth_chainId is CHAIN_ID. *)
ChainChecked(e) == e \in OnChain

(* The chain check succeeds and the call itself is sent. *)
Verify(c) ==
    /\ At(c, "check")
    /\ ChainChecked(Target(c))
    /\ verified' = verified \cup {Target(c)}
    /\ call' = [call EXCEPT ![c].pc = "ask"]
    /\ UNCHANGED <<active, queue, cooling, preferred>>

(* The chain check fails, by its answer or by the network. *)
CheckFails(c) ==
    /\ At(c, "check")
    /\ Target(c) \in OnChain => Target(c) \notin Dependable
    /\ GiveUp(c)

(* A real result, reverts and invalid arguments included. *)
Answer(c) ==
    /\ At(c, "ask")
    /\ preferred' = [preferred EXCEPT ![call[c].method] = Target(c)]
    /\ Release(c, Ended("answer", Target(c)))
    /\ UNCHANGED <<cooling, verified>>

(* BUG: a request-size limit counts as an outage. *)
TooLargeFailing(c) ==
    /\ At(c, "ask")
    /\ call[c].method = GetLogs
    /\ GiveUp(c)

(* The range is too large for the endpoint, or its answer is suspiciously  *)
(* full: the caller is told to split it and the endpoint stays in use.     *)
TooLarge(c) ==
    /\ At(c, "ask")
    /\ call[c].method = GetLogs
    /\ Release(c, Ended("split", None))
    /\ UNCHANGED <<cooling, verified, preferred>>

(* Throttled, unreachable, out of time, an answer outside the filter. *)
Outage(c) ==
    /\ At(c, "ask")
    /\ Target(c) \notin Dependable
    /\ GiveUp(c)

CooledDown ==
    /\ \E x \in cooling : cooling' = cooling \ {x}
    /\ UNCHANGED <<active, queue, verified, preferred, call>>

-----------------------------------------------------------------------------
Progress(c) ==
    Plan(c) \/ Verify(c) \/ CheckFails(c) \/ Answer(c) \/ TooLarge(c) \/ Outage(c)

Next == CooledDown \/ \E c \in Call : Send(c) \/ Progress(c)

Init ==
    /\ active = 0
    /\ queue = <<>>
    /\ cooling = {}
    /\ verified = {}
    /\ preferred = [m \in Method |-> None]
    /\ call = [c \in Call |-> Fresh]

Spec == Init /\ [][Next]_vars

(* Every request settles: AbortSignal.timeout bounds it. *)
FairSpec == Spec /\ \A c \in Call : WF_vars(Progress(c))

-----------------------------------------------------------------------------
TypeOK ==
    /\ active \in 0 .. Slots
    /\ queue \in Seq(Call)
    /\ cooling \subseteq Endpoint \X Method
    /\ verified \subseteq Endpoint
    /\ preferred \in [Method -> Endpoint \cup {None}]
    /\ call \in [Call -> CallState]

(* The counter is the number of calls that hold a slot, the queue holds    *)
(* exactly the calls that wait, each once, and a call only waits while     *)
(* every slot is taken: the hand-over in release() neither loses a slot    *)
(* nor gives one to two calls.                                             *)
SlotsExact ==
    /\ active = Cardinality({c \in Call : HoldsSlot(c)})
    /\ active <= Slots
    /\ queue # <<>> => active = Slots
    /\ \A c \in Call : At(c, "queued") <=> \E i \in DOMAIN queue : queue[i] = c
    /\ \A i, j \in DOMAIN queue : queue[i] = queue[j] => i = j

(* Nothing an endpoint of another chain says is ever an answer, nor is it   *)
(* preferred, however many calls check it at the same time.                *)
RightChain ==
    /\ verified \subseteq OnChain
    /\ \A m \in Method : preferred[m] # None => preferred[m] \in verified
    /\ \A c \in Call : call[c].last = "answer" => call[c].by \in verified

(* Failover: while one endpoint is up, no call fails, whatever the others  *)
(* do and whichever endpoint is preferred.                                 *)
FailoverWorks ==
    OnChain \cap Dependable # {} => \A c \in Call : call[c].last # "failed"

(* Every call that was sent ends, though newer calls keep arriving: every   *)
(* path gives the slot back, a waiting call gets it, and the list of       *)
(* endpoints a call tries is finite.                                       *)
EveryCallSettles == \A c \in Call : ~At(c, "idle") ~> At(c, "idle")
=============================================================================
