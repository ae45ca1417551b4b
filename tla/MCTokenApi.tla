----------------------------- MODULE MCTokenApi -----------------------------
(* Four small histories of a token, each about one of the readers.         *)
EXTENDS TokenControls, PolicySnapshot, HistoryPages, TLC

CONSTANTS zeroAdmin, defaultAdmin, seizer, burner, x, y,
          exempt, receiver, sender, p, q, r, none, block

RoleLog(b, i, k, role, a) == [block |-> b, index |-> i, kind |-> k, role |-> role, account |-> a]
Bind(b, i, s, pol)  == [block |-> b, index |-> i, kind |-> "PolicyUpdated", scope |-> s, policy |-> pol]
Pause(b, i, k, fs)  == [block |-> b, index |-> i, kind |-> k, features |-> fs]
Note(b, i, k, id)   == [block |-> b, index |-> i, kind |-> k, id |-> id]
Row(b, i, k)        == [block |-> b, index |-> i, kind |-> k]
Created(b, i, pol, t)   == [block |-> b, index |-> i, kind |-> "PolicyCreated", policy |-> pol, type |-> t]
Children(b, i, pol, cs) ==
    [block |-> b, index |-> i, kind |-> "CompositePolicyUpdated", policy |-> pol, children |-> cs]

MCLabel == (zeroAdmin :> "ADMIN") @@ (defaultAdmin :> "ADMIN")
             @@ (seizer :> "SEIZE") @@ (burner :> "BURN BLOCKED")

(* Two admin hashes with one label, a seizure role that is revoked, scopes *)
(* that are bound and cleared, features paused together and unpaused one   *)
(* by one.                                                                 *)
Seizure == { RoleLog(1, 0, "RoleGranted", zeroAdmin, x),
             RoleLog(2, 0, "RoleGranted", defaultAdmin, x),
             RoleLog(2, 1, "RoleRevoked", defaultAdmin, x),
             RoleLog(1, 1, "RoleGranted", seizer, y),
             RoleLog(4, 0, "RoleRevoked", seizer, y),
             RoleLog(1, 3, "RoleGranted", burner, x),
             Bind(1, 2, exempt, p), Bind(5, 0, exempt, none),
             Bind(3, 0, receiver, block), Bind(1, 4, sender, p),
             Pause(2, 2, "Paused", {"SEIZE", "BURN"}), Pause(3, 1, "Unpaused", {"SEIZE"}) }

(* Announcement ids that are used twice or never announced. *)
Notes == { Note(1, 5, "Announcement", "i"), Note(2, 3, "EndAnnouncement", "i"),
           Note(3, 2, "Announcement", "i"), Note(4, 1, "EndAnnouncement", "j") }

(* Composites that contain each other, a policy that is a child of both,   *)
(* scopes that are bound, bound again and cleared.                         *)
Policies == { Bind(4, 0, exempt, p), Bind(5, 0, sender, q), Bind(6, 0, exempt, none),
              Bind(6, 1, sender, p), Bind(7, 0, exempt, block),
              Created(1, 0, p, "UNION"), Created(1, 1, q, "INTERSECT"), Created(2, 0, r, "ALLOWLIST"),
              Children(2, 1, p, <<r>>), Children(3, 0, p, <<q, r>>),
              Children(3, 1, q, <<r, p, block>>), Children(8, 0, q, <<q>>) }

(* Several rows in a block, a policy that is referenced late and registry  *)
(* rows older than the reference.                                          *)
Pages == { Row(1, 1, "Transfer"), Row(2, 0, "Memo"), Row(2, 1, "Transfer"), Row(2, 3, "Transfer"),
           Created(1, 0, p, "UNION"), Children(2, 2, p, <<r>>), Bind(3, 0, exempt, p),
           Created(1, 2, q, "UNION") }

MCPolicy    == {p, q, r, none, block}
MCHistories == {Seizure, Notes, Policies, Pages}
MCPaged     == {Pages}
MCRoles     == {Seizure}
=============================================================================
