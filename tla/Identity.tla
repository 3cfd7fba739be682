------------------------------ MODULE Identity ------------------------------
(***************************************************************************)
(* Signing in, sessions, second factors and platform roles                 *)
(* (application/identity.py, api/v1/account.py, api/v1/admin.py).  A step  *)
(* is a statement, or a run of statements of a transaction that read       *)
(* nothing another transaction may commit in between: under READ COMMITTED *)
(* each statement sees what was committed before it.                       *)
(*                                                                         *)
(* An attempt is one call of authenticate_password or verify_challenge; it *)
(* opens at most one session and gets at most one challenge, both named    *)
(* after it.  A request is one call of a signed-in user or administrator,  *)
(* let in by a first transaction and carried out by a second.              *)
(***************************************************************************)
EXTENDS Accounts, FiniteSets

CONSTANTS
    Attempt, Request,
    Subject,    \* bound: the users who sign in
    Duty,       \* bound: what each request may ask
    Nobody      \* neither an attempt nor a request

ASSUME IdentityAssumption ==
    /\ IsFiniteSet(User) /\ Subject \subseteq User
    /\ Nobody \notin Attempt \cup Request
    /\ StampCap > 0

VARIABLES
    pc, who, via, code, sees,       \* attempts: what each answers and has read
    session,    \* sessions: "none", "live" or "revoked"
    challenge,  \* auth_tokens of purpose signin_challenge
    links,      \* users with an unused invitation or password reset link
    totp,       \* totp_credentials: "none", "started" or "confirmed"
    recovery,   \* the unused recovery code, named after the stamp it came with
    roles,      \* platform_role_assignments
    call,       \* requests: where each is, and what it asks
    acted,      \* users an event of audit_events names as its actor
    lock,       \* advisory lock ima:last-super-admin
    ended       \* history: sessions begun before their user was secured

signin == <<pc, who, via, code, sees, challenge>>
factors == <<totp, recovery>>
requests == <<call, lock>>
vars == <<signin, session, links, factors, requests, roles, acted, accounts, ended>>

Role == {"super_admin", "platform_admin"}
Purpose == {"invite", "password_reset"}
SelfTask == {"change_password", "start_totp", "confirm_totp", "disable_totp"}
AdminTask == {"create", "invite", "disable", "delete", "restore",
              "set_password", "reset_totp", "revoke_sessions",
              "grant_super_admin", "revoke_super_admin",
              "grant_platform_admin", "revoke_platform_admin"}

Idle == [at |-> "idle"]
Done == [at |-> "done"]

ActiveSupers == {u \in User : "super_admin" \in roles[u] /\ Active(u)}

\* has_capability(users_manage)
Capable(u) == roles[u] # {}

\* An installation in use: cli bootstrap-admin made its first super
\* administrator; second factors may have been confirmed, with stamp 1; what is
\* done was refused and has left nothing.
Init ==
    /\ pc \in [Attempt -> {"idle", "done"}]
    /\ who \in [Attempt -> Subject]
    /\ via = [a \in Attempt |-> Nobody]
    /\ code = [a \in Attempt |-> 0]
    /\ sees = [a \in Attempt |-> 0]
    /\ session = [a \in Attempt |-> "none"]
    /\ challenge = [a \in Attempt |-> "none"]
    /\ links = [u \in User |-> [purpose \in Purpose |-> 0]]
    /\ totp \in [User -> {"none", "confirmed"}]
    /\ recovery = [u \in User |-> IF totp[u] = "none" THEN 0 ELSE 1]
    /\ stamp = recovery
    /\ account \in [User -> {"absent", "active", "disabled"}]
    /\ roles \in [User -> {{}, {"super_admin"}}]
    /\ ActiveSupers # {}
    /\ \A u \in User : account[u] = "absent" => roles[u] = {} /\ totp[u] = "none"
    /\ call \in [Request -> {Idle, Done}]
    /\ acted = {u \in User : totp[u] = "confirmed"}
    /\ lock = Nobody
    /\ ended = {}

\* Their own events are written with what they do; events of nobody are left out.
Acts(users) == acted' = acted \cup users

-----------------------------------------------------------------------------
(* Signing in *)

Step(a, from, to) == pc[a] = from /\ pc' = [pc EXCEPT ![a] = to]

\* The password and the account are checked on one connection ...
CheckPassword(a) ==
    /\ Step(a, "idle", "checked")
    /\ Active(who[a])
    /\ UNCHANGED <<who, via, code, sees, challenge>>
    /\ UNCHANGED <<session, links, factors, requests, roles, acted, accounts, ended>>

\* ... and a transaction of its own looks for a second factor: it inserts a
\* challenge, or goes on to open a session.
AskFactor(a) ==
    /\ Exists(who[a])
    /\ \/ /\ totp[who[a]] = "confirmed"
          /\ Step(a, "checked", "done")
          /\ challenge' = [challenge EXCEPT ![a] = "live"]
          /\ Acts({who[a]})
       \/ /\ totp[who[a]] # "confirmed"
          /\ Step(a, "checked", "opening")
          /\ UNCHANGED <<challenge, acted>>
    /\ UNCHANGED <<who, via, code, sees>>
    /\ UNCHANGED <<session, links, factors, requests, roles, accounts, ended>>

Opening(a) == pc[a] \in {"opening", "stamped"}

M_Unlocked(c) == TRUE

\* SELECT ... FOR UPDATE waits for the transaction that holds the challenge.
Unlocked(c) == \A b \in Attempt : Opening(b) => via[b] # c

Answer(a, c, value) ==
    /\ Step(a, "idle", "opening")
    /\ who[a] = who[c] /\ challenge[c] = "live" /\ Unlocked(c)
    /\ via' = [via EXCEPT ![a] = c]
    /\ code' = [code EXCEPT ![a] = value]
    /\ UNCHANGED <<who, sees, challenge>>
    /\ UNCHANGED <<session, links, factors, requests, roles, acted, accounts, ended>>

\* verify_challenge with a code of the authenticator,
AnswerTotp(a, c) ==
    /\ totp[who[a]] = "confirmed" /\ Active(who[a])
    /\ Answer(a, c, 0)

\* or with a recovery code, whose row is locked too.
AnswerRecovery(a, c) ==
    /\ recovery[who[a]] # 0
    /\ \A b \in Attempt : Opening(b) /\ who[b] = who[a] => code[b] = 0
    /\ Answer(a, c, recovery[who[a]])

\* _create_session reads the stamp,
ReadStamp(a) ==
    /\ Step(a, "opening", "stamped")
    /\ sees' = [sees EXCEPT ![a] = stamp[who[a]]]
    /\ UNCHANGED <<who, via, code, challenge>>
    /\ UNCHANGED <<session, links, factors, requests, roles, acted, accounts, ended>>

\* and the transaction commits, with the challenge and the code used.
OpenSession(a) ==
    /\ Step(a, "stamped", "done")
    /\ Exists(who[a])
    /\ session' = [session EXCEPT ![a] = "live"]
    /\ challenge' = [c \in Attempt |-> IF c = via[a] THEN "used" ELSE challenge[c]]
    /\ recovery' = [recovery EXCEPT ![who[a]] = IF @ = code[a] THEN 0 ELSE @]
    /\ UNCHANGED <<who, via, code, sees, links, totp>>
    /\ Acts({who[a]})
    /\ UNCHANGED <<requests, roles, accounts, ended>>

\* The process dies or the user is gone: the transaction is rolled back.
Abandon(a) ==
    /\ \E from \in {"checked", "opening", "stamped"} : Step(a, from, "done")
    /\ UNCHANGED <<who, via, code, sees, challenge>>
    /\ UNCHANGED <<session, links, factors, requests, roles, acted, accounts, ended>>

-----------------------------------------------------------------------------
(* Sessions *)

M_Accepted(a) == session[a] = "live" /\ Active(who[a])

\* current_session, but for the time-outs, which refuse still more.
Accepted(a) == session[a] = "live" /\ Holds(who[a], sees[a])

\* A session that is presented and not accepted is revoked.
UseSession(a) ==
    /\ session[a] = "live" /\ ~Accepted(a)
    /\ session' = [session EXCEPT ![a] = "revoked"]
    /\ UNCHANGED <<signin, links, factors, requests, roles, acted, accounts, ended>>

RevokeAll(u) ==
    session' = [a \in Attempt |->
        IF who[a] = u /\ session[a] = "live" THEN "revoked" ELSE session[a]]

\* revoke_session, also on signing out
RevokeSession(a) ==
    /\ Accepted(a)
    /\ \/ session' = [session EXCEPT ![a] = "revoked"]
       \/ RevokeAll(who[a])
    /\ Acts({who[a]})
    /\ UNCHANGED <<signin, links, factors, requests, roles, accounts, ended>>

Begun(u) ==
    {a \in Attempt : who[a] = u /\ (pc[a] = "stamped" \/ session[a] # "none")}

\* What every change of password or second factor ends with.
Secure(u) ==
    /\ Restamp(u)
    /\ RevokeAll(u)
    /\ ended' = ended \cup Begun(u)
    /\ UNCHANGED signin

-----------------------------------------------------------------------------
(* Invitation and reset links *)

\* The mail cannot be sent.
SpendLink(u, purpose) ==
    /\ links[u][purpose] > 0
    /\ links' = [links EXCEPT ![u][purpose] = @ - 1]
    /\ UNCHANGED <<signin, session, factors, requests, roles, acted, accounts, ended>>

AcceptInvite(u) ==
    /\ links[u]["invite"] > 0
    /\ links' = [links EXCEPT ![u]["invite"] = @ - 1]
    /\ Acts({u})
    /\ UNCHANGED <<signin, session, factors, requests, roles, accounts, ended>>

\* reset_password takes links of either purpose.
ResetPassword(u, purpose) ==
    /\ links[u][purpose] > 0
    /\ links' = [links EXCEPT ![u][purpose] = @ - 1]
    /\ Secure(u)
    /\ Acts({u})
    /\ UNCHANGED <<factors, requests, roles, account>>

-----------------------------------------------------------------------------
(* Requests: the first transaction *)

\* The caller's own account: a session, with recent authentication.
Present(u) == \E a \in Attempt : who[a] = u /\ Accepted(a)

Start(r, what, u, v) ==
    /\ call[r] = Idle /\ what \in Duty[r]
    /\ call' = [call EXCEPT ![r] =
                 [at |-> "required", task |-> what, actor |-> u, target |-> v]]
    /\ UNCHANGED <<lock, signin, session, factors, roles, acted, accounts, ended>>

RequireSession(r, what, u) ==
    /\ Present(u)
    /\ Start(r, what, u, u)
    /\ UNCHANGED links

RequireCapability(r, what, u, v) ==
    /\ Active(u) /\ Capable(u)
    /\ Start(r, what, u, v)
    /\ UNCHANGED links

\* create_password_token spends the user's earlier reset links; of two at once
\* neither sees the other's.
RequestReset(r, u) ==
    /\ Active(u)
    /\ Start(r, "password_reset", u, u)
    /\ links' = [links EXCEPT ![u]["password_reset"] = 0]

-----------------------------------------------------------------------------
(* Requests: the second transaction *)

At(r, point, what) == call[r].at = point /\ call[r].task = what

Target(r) == call[r].target

Carry(r, what) ==
    /\ At(r, "required", what)
    /\ call' = [call EXCEPT ![r] = Done]
    /\ UNCHANGED lock

IssueReset(r) ==
    /\ Carry(r, "password_reset") /\ Exists(Target(r))
    /\ links' = [links EXCEPT ![Target(r)]["password_reset"] = @ + 1]
    /\ UNCHANGED <<signin, session, factors, roles, acted, accounts, ended>>

\* change_password and admin_set_password
SetPassword(r) ==
    /\ Carry(r, "change_password") \/ Carry(r, "set_password")
    /\ Exists(Target(r))
    /\ Secure(Target(r))
    /\ Acts({call[r].actor})
    /\ UNCHANGED <<links, factors, roles, account>>

StartTotp(r) ==
    /\ Carry(r, "start_totp") /\ Exists(Target(r))
    /\ totp' = [totp EXCEPT ![Target(r)] = "started"]
    /\ UNCHANGED <<signin, session, links, recovery, roles, acted, accounts, ended>>

ConfirmTotp(r) ==
    LET u == Target(r)
    IN  /\ Carry(r, "confirm_totp")
        /\ totp[u] # "none"
        /\ totp' = [totp EXCEPT ![u] = "confirmed"]
        /\ Secure(u)
        /\ recovery' = [recovery EXCEPT ![u] = stamp'[u]]
        /\ Acts({u})
        /\ UNCHANGED <<links, roles, account>>

\* disable_totp and reset_totp
ClearTotp(r) ==
    LET u == Target(r)
    IN  /\ Carry(r, "disable_totp") \/ Carry(r, "reset_totp")
        /\ Exists(u)
        /\ totp' = [totp EXCEPT ![u] = "none"]
        /\ recovery' = [recovery EXCEPT ![u] = 0]
        /\ Secure(u)
        /\ Acts({call[r].actor})
        /\ UNCHANGED <<links, roles, account>>

RevokeUserSessions(r) ==
    /\ Carry(r, "revoke_sessions")
    /\ RevokeAll(Target(r))
    /\ Acts({call[r].actor})
    /\ UNCHANGED <<signin, links, factors, roles, accounts, ended>>

\* create_user, with a password or with an invitation
CreateUser(r) ==
    LET u == Target(r)
    IN  /\ \/ Carry(r, "create") /\ UNCHANGED links
           \/ /\ Carry(r, "invite")
              /\ links' = [links EXCEPT ![u]["invite"] = 1]
        /\ account[u] = "absent"
        /\ Becomes(u, "active")
        /\ Acts({call[r].actor})
        /\ UNCHANGED <<signin, session, factors, roles, stamp, ended>>

RestoreUser(r) ==
    /\ Carry(r, "restore") /\ Exists(Target(r))
    /\ Becomes(Target(r), "active")
    /\ Acts({call[r].actor})
    /\ UNCHANGED <<signin, session, links, factors, roles, stamp, ended>>

-----------------------------------------------------------------------------
(* Super administrators *)

\* Disabling and deleting take the advisory lock and look for the role; the
\* count is over the rows of the target, so every active super is final.
TakeLock(r) ==
    /\ \/ /\ At(r, "required", "disable")
          /\ Target(r) = call[r].actor => ~Capable(Target(r))
       \/ At(r, "required", "delete")
    /\ lock = Nobody
    /\ Target(r) \notin ActiveSupers
    /\ call' = [call EXCEPT ![r].at = "counted"]
    /\ lock' = r
    /\ UNCHANGED <<signin, session, links, factors, roles, acted, accounts, ended>>

Release(r, what) ==
    /\ At(r, "counted", what)
    /\ call' = [call EXCEPT ![r] = Done]
    /\ lock' = Nobody

\* The process dies: the lock goes with its connection.
Rollback(r) ==
    /\ \E what \in {"disable", "delete"} : Release(r, what)
    /\ UNCHANGED <<signin, session, links, factors, roles, acted, accounts, ended>>

DisableUser(r) ==
    /\ Release(r, "disable") /\ Exists(Target(r))
    /\ Becomes(Target(r), "disabled")
    /\ Secure(Target(r))
    /\ Acts({call[r].actor})
    /\ UNCHANGED <<links, factors, roles>>

\* Everything of the user goes with the row, but for the events: a user they
\* name cannot be deleted.
DeleteUser(r) ==
    LET u == Target(r)
    IN  /\ Release(r, "delete") /\ Exists(u)
        /\ u \notin acted \cup {call[r].actor}
        /\ Becomes(u, "deleted")
        /\ roles' = [roles EXCEPT ![u] = {}]
        /\ session' = [a \in Attempt |-> IF who[a] = u THEN "none" ELSE session[a]]
        /\ challenge' = [a \in Attempt |-> IF who[a] = u THEN "none" ELSE challenge[a]]
        /\ links' = [links EXCEPT ![u] = [p \in Purpose |-> 0]]
        /\ totp' = [totp EXCEPT ![u] = "none"]
        /\ recovery' = [recovery EXCEPT ![u] = 0]
        /\ Acts({call[r].actor})
        /\ UNCHANGED <<pc, who, via, code, sees, stamp, ended>>

\* mutate_platform_role checks the actor in the transaction that changes the role.
MayManageRoles(u, v) ==
    /\ lock = Nobody
    /\ Active(u) /\ "super_admin" \in roles[u] /\ Exists(v)

Manage(r) ==
    /\ MayManageRoles(call[r].actor, Target(r))
    /\ call' = [call EXCEPT ![r] = Done]
    /\ Acts({call[r].actor})
    /\ UNCHANGED <<lock, signin, session, links, factors, accounts, ended>>

GrantRole(r, what, role) ==
    /\ At(r, "required", what)
    /\ Manage(r)
    /\ roles' = [roles EXCEPT ![Target(r)] = @ \cup {role}]

M_NotFinal == ActiveSupers # {}

NotFinal == Cardinality(ActiveSupers) > 1

RevokeRole(r, what, role) ==
    /\ At(r, "required", what)
    /\ Manage(r)
    /\ role = "super_admin" => NotFinal
    /\ roles' = [roles EXCEPT ![Target(r)] = @ \ {role}]

-----------------------------------------------------------------------------
SigningIn ==
    \/ \E a \in Attempt :
         \/ CheckPassword(a) \/ AskFactor(a) \/ ReadStamp(a)
         \/ OpenSession(a) \/ Abandon(a)
         \/ UseSession(a) \/ RevokeSession(a)
    \/ \E a, c \in Attempt : AnswerTotp(a, c) \/ AnswerRecovery(a, c)

UsingLinks ==
    \E u \in User, purpose \in Purpose :
      \/ SpendLink(u, purpose) \/ AcceptInvite(u)
      \/ ResetPassword(u, purpose)

Asking ==
    \E r \in Request, u \in User :
      \/ RequestReset(r, u)
      \/ \E what \in SelfTask : RequireSession(r, what, u)
      \/ \E what \in AdminTask, v \in User : RequireCapability(r, what, u, v)

Acting ==
    \E r \in Request :
         \/ IssueReset(r) \/ SetPassword(r) \/ StartTotp(r) \/ ConfirmTotp(r)
         \/ ClearTotp(r) \/ RevokeUserSessions(r) \/ CreateUser(r)
         \/ RestoreUser(r) \/ TakeLock(r) \/ Rollback(r)
         \/ DisableUser(r) \/ DeleteUser(r)
         \/ GrantRole(r, "grant_super_admin", "super_admin")
         \/ GrantRole(r, "grant_platform_admin", "platform_admin")
         \/ RevokeRole(r, "revoke_super_admin", "super_admin")
         \/ RevokeRole(r, "revoke_platform_admin", "platform_admin")

Next == SigningIn \/ UsingLinks \/ Asking \/ Acting

Spec == Init /\ [][Next]_vars

-----------------------------------------------------------------------------
Carried ==
    [at : {"required", "counted"}, actor : User, target : User,
     task : SelfTask \cup AdminTask \cup {"password_reset"}]

TypeOK ==
    /\ AccountsOK
    /\ pc \in [Attempt -> {"idle", "checked", "opening", "stamped", "done"}]
    /\ who \in [Attempt -> Subject]
    /\ via \in [Attempt -> Attempt \cup {Nobody}]
    /\ code \in [Attempt -> 0..StampCap] /\ sees \in [Attempt -> 0..StampCap]
    /\ session \in [Attempt -> {"none", "live", "revoked"}]
    /\ challenge \in [Attempt -> {"none", "live", "used"}]
    /\ links \in [User -> [Purpose -> Nat]]
    /\ totp \in [User -> {"none", "started", "confirmed"}]
    /\ recovery \in [User -> 0..StampCap]
    /\ roles \in [User -> SUBSET Role]
    /\ call \in [Request -> {Idle, Done} \cup Carried]
    /\ acted \subseteq User
    /\ lock \in Request \cup {Nobody}
    /\ ended \subseteq Attempt

\* Some active user can manage roles, whatever demotions, disablings, deletions
\* and restorations overlap.
ASuperRemains == ActiveSupers # {}

\* No session begun before a change of password or second factor, or before the
\* account was disabled, is accepted after it: neither one whose row was not
\* committed yet when the sessions were revoked, nor one of a restored account.
SecuredSessionsEnd == \A a \in ended : ~Accepted(a)

\* A challenge, and a recovery code, opens one session.
UsedOnce ==
    \A a, b \in Attempt :
      /\ session[a] # "none" /\ session[b] # "none"
      /\ \/ via[a] = via[b] /\ via[a] # Nobody
         \/ who[a] = who[b] /\ code[a] = code[b] /\ code[a] # 0
      => a = b

\* Challenges of a disabled account are not answered (the code forgets it for
\* recovery codes).
DisabledDoNotAnswer ==
    [][\A a \in Attempt : via'[a] # via[a] => Active(who[a])]_vars
=============================================================================
