--------------------------- MODULE TokenControls ---------------------------
(***************************************************************************)
(* What the API says of a token's controls: seizureCapability and /roles   *)
(* of history.js, controlsFor and reconstructAnnouncements of server.js.   *)
(* Each replays the stored events of the token in chain order.             *)
(***************************************************************************)
EXTENDS TokenHistory

CONSTANTS
    Account, Role,
    Label,          \* Label[r]: the name shown for role hash r
    SeizeRole, BurnBlockedRole,
    ExemptScope, ReceiverScope, SenderScope

RoleKind == {"RoleGranted", "RoleRevoked"}

ASSUME ControlsAssumption ==
    /\ {SeizeRole, BurnBlockedRole} \subseteq Role /\ Role \subseteq DOMAIN Label
    /\ \A h \in Histories : \A l \in h :
          l.kind \in RoleKind => l.role \in Role /\ l.account \in Account

-----------------------------------------------------------------------------
(* The set of accounts kept under `key` gains or loses the account. *)
HeldStep(held, l, key) ==
    [held EXCEPT ![key] = IF l.kind = "RoleGranted" THEN @ \cup {l.account} ELSE @ \ {l.account}]

(* BUG: unpausing one feature unpauses every feature. *)
PausedStepAll(paused, l) == IF l.kind = "Paused" THEN paused \cup l.features ELSE {}

PausedStep(paused, l) ==
    IF l.kind = "Paused" THEN paused \cup l.features ELSE paused \ l.features

PolicyStep(policy, l) ==
    IF l.scope \in DOMAIN policy THEN [policy EXCEPT ![l.scope] = l.policy] ELSE policy

SeizureScope == {ExemptScope, ReceiverScope, SenderScope}

(* One pass over all control events, roles kept by their hash. *)
ControlStep(c, l) ==
    CASE l.kind \in RoleKind -> [c EXCEPT !.held = HeldStep(@, l, l.role)]
      [] l.kind = "PolicyUpdated" -> [c EXCEPT !.policy = PolicyStep(@, l)]
      [] l.kind \in {"Paused", "Unpaused"} -> [c EXCEPT !.paused = PausedStep(@, l)]

Controls ==
    Replay(Of(RoleKind \cup {"PolicyUpdated", "Paused", "Unpaused"}), ControlStep,
           [held |-> [r \in Role |-> {}], policy |-> [s \in SeizureScope |-> NoPolicy], paused |-> {}])

(* seizureCapability: the methods that are armed. *)
Armed ==
    LET c == Controls
        seize == /\ c.held[SeizeRole] # {}
                 /\ c.policy[ExemptScope] # NoPolicy
                 /\ c.policy[ReceiverScope] # AlwaysBlock
                 /\ "SEIZE" \notin c.paused
        burn  == /\ c.held[BurnBlockedRole] # {}
                 /\ c.policy[SenderScope] # NoPolicy
                 /\ "BURN" \notin c.paused
    IN  (IF seize THEN {"seize"} ELSE {}) \cup (IF burn THEN {"burnBlocked"} ELSE {})

Labels == {Label[r] : r \in Role}

(* BUG: a revocation is overlooked when another role has the same label. *)
RolesStepGrants(held, l) ==
    [held EXCEPT ![Label[l.role]] =
        IF l.kind = "RoleGranted" \/ \E r \in Role \ {l.role} : Label[r] = Label[l.role]
        THEN @ \cup {l.account} ELSE @ \ {l.account}]

(* /roles and controlsFor keep the accounts by label, not by hash. *)
RolesStep(held, l) == HeldStep(held, l, Label[l.role])

Roles == Replay(Of(RoleKind), RolesStep, [n \in Labels |-> {}])

(* BUG: a second announcement under an old id stays closed. *)
AnnounceStepKeeping(shown, l) ==
    IF l.kind = "Announcement"
    THEN IF l.id \in DOMAIN shown THEN shown
         ELSE [i \in DOMAIN shown \cup {l.id} |-> IF i = l.id THEN FALSE ELSE shown[i]]
    ELSE [i \in DOMAIN shown |-> shown[i] \/ i = l.id]

(* shown[id]: whether the announcement is closed. *)
AnnounceStep(shown, l) ==
    IF l.kind = "Announcement"
    THEN [i \in DOMAIN shown \cup {l.id} |-> IF i = l.id THEN FALSE ELSE shown[i]]
    ELSE [i \in DOMAIN shown |-> shown[i] \/ i = l.id]

Announcements ==
    Replay({l \in Of({"Announcement", "EndAnnouncement"}) : l.id # ""}, AnnounceStep, <<>>)

-----------------------------------------------------------------------------
(* The account holds the role: its newest stored change is a grant. *)
Holds(a, r) ==
    LET changes == {l \in Of(RoleKind) : l.role = r /\ l.account = a}
    IN  changes # {} /\ Last(changes).kind = "RoleGranted"

PolicyOf(scope) ==
    LET updates == {l \in Of({"PolicyUpdated"}) : l.scope = scope}
    IN  IF updates = {} THEN NoPolicy ELSE Last(updates).policy

IsPaused(feature) ==
    LET changes == {l \in Of({"Paused", "Unpaused"}) : feature \in l.features}
    IN  changes # {} /\ Last(changes).kind = "Paused"

(* COBALT.md:14-19: currently_armed checks current roles, the relevant      *)
(* scope and pause state; revoked roles and cleared scopes do not count;   *)
(* an always-block receiver disables the new path.                         *)
ArmedExact ==
    /\ "seize" \in Armed <=>
          /\ \E a \in Account : Holds(a, SeizeRole)
          /\ PolicyOf(ExemptScope) # NoPolicy
          /\ PolicyOf(ReceiverScope) # AlwaysBlock
          /\ ~IsPaused("SEIZE")
    /\ "burnBlocked" \in Armed <=>
          /\ \E a \in Account : Holds(a, BurnBlockedRole)
          /\ PolicyOf(SenderScope) # NoPolicy
          /\ ~IsPaused("BURN")

(* Whoever is listed under a label holds some role with that label, though *)
(* several hashes share a label and the replay forgets which was granted.  *)
ListedHold ==
    \A n \in Labels : \A a \in Roles[n] : \E r \in Role : Label[r] = n /\ Holds(a, r)

(* MCP.md:15, "current role holders folded from history": whoever holds a   *)
(* role is listed under its label.                                         *)
HoldersListed ==
    \A r \in Role, a \in Account : Holds(a, r) => a \in Roles[Label[r]]

(* An announcement is closed iff an end with its id follows the newest     *)
(* announcement with that id, though ids are reused and an end may be      *)
(* stored before the announcement it closes.                               *)
AnnouncementsExact ==
    LET named(kind, i) == {l \in Of({kind}) : l.id = i}
        ids == {l.id : l \in Of({"Announcement"})} \ {""}
    IN  /\ DOMAIN Announcements = ids
        /\ \A i \in ids :
              Announcements[i] <=>
                 \E e \in named("EndAnnouncement", i) : Before(Last(named("Announcement", i)), e)
=============================================================================
