------------------------------ MODULE Accounts ------------------------------
(***************************************************************************)
(* What the sessions of application/identity.py and the tokens of          *)
(* infrastructure/oauth.py have in common: the row of a user, with the     *)
(* flag that it is active and its security stamp.  Whatever is issued to a *)
(* user carries the stamp of that moment and is accepted only while it is  *)
(* still the user's; a new stamp is a fresh secret, never used before.     *)
(***************************************************************************)
EXTENDS Naturals

CONSTANTS User, StampCap    \* bound: stamps given to one user

ASSUME StampAssumption == StampCap \in Nat

VARIABLES
    account,    \* users.is_active; "absent" before and "deleted" after its row
    stamp       \* users.security_stamp

accounts == <<account, stamp>>

Account == {"absent", "active", "disabled", "deleted"}

AccountsOK ==
    /\ account \in [User -> Account]
    /\ stamp \in [User -> 0..StampCap]

Active(u) == account[u] = "active"
Exists(u) == account[u] \in {"active", "disabled"}

Becomes(u, state) == account' = [account EXCEPT ![u] = state]

Restamp(u) ==
    /\ stamp[u] < StampCap
    /\ stamp' = [stamp EXCEPT ![u] = @ + 1]

\* active_security_stamp: the stamp while the account is active, else none (-1
\* is no stamp).
Holds(u, s) == Active(u) /\ stamp[u] = s
=============================================================================
