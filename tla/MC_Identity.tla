----------------------------- MODULE MC_Identity -----------------------------
(* Instances of Identity for TLC. *)
EXTENDS Identity, TLC

CONSTANTS u1, u2, r1, r2

Symmetry == Permutations(Attempt) \cup Permutations(Request \ {r1, r2})

MCDuty == [r \in Request |-> IF r \in {r1, r2}
             THEN SelfTask \cup AdminTask \cup {"password_reset"}
             ELSE {"disable", "delete", "restore",
                   "grant_super_admin", "revoke_super_admin"}]

\* Sign-ins of u1 and what is done to u1 meet in some behaviours ...
SignIns ==
    /\ pc = [a \in Attempt |-> "idle"]
    /\ {r \in Request : call[r] = Idle} = {r1, r2}
    /\ roles = [u \in User |-> IF u = u2 THEN {"super_admin"} ELSE {}]
    /\ account = [u \in User |-> IF u \in {u1, u2} THEN "active" ELSE "absent"]
    /\ totp[u2] = "none"

\* ... and administrators with one another in the others.
Administration ==
    /\ pc = [a \in Attempt |-> "done"]
    /\ {r \in Request : call[r] = Done} = {r1, r2}
    /\ totp = [u \in User |-> "none"]

MCInit == Init /\ (SignIns \/ Administration)
MCSpec == MCInit /\ [][Next]_vars
=============================================================================
