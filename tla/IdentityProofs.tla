--------------------------- MODULE IdentityProofs ---------------------------
(***************************************************************************)
(* Proofs about who is let in.                                             *)
(*                                                                         *)
(* Identity, for any finite set of users and any number of attempts and    *)
(* requests: types, that challenges and recovery codes open one session,   *)
(* that nothing begun before an account was secured is accepted after it,  *)
(* and that a super administrator remains.  The first needs that a         *)
(* challenge answered is held until it is used and that a new recovery     *)
(* code is newer than those answered with; the second that no session      *)
(* carries a stamp newer than the user's; the third that while a request   *)
(* holds the advisory lock some other user than its target is an active    *)
(* super administrator.                                                    *)
(*                                                                         *)
(* McpService, for any number of calls, credentials and any limit: types,  *)
(* that no more calls run in the time of their leases than the limit       *)
(* allows and no slot is lost, and that of a revoked principal no call     *)
(* passes its last check.  The limit holds because a call that is younger  *)
(* than a lease still has its lease, which then is live, and every clock   *)
(* counts all live leases: it was read before now.                         *)
(***************************************************************************)
EXTENDS Identity, McpService, FiniteSetTheorems, TLAPS

Uses(a) == Opening(a) \/ session[a] # "none"

\* A session is opened at the end of an attempt; only answers carry something.
Attempts ==
  \A a \in Attempt :
    /\ session[a] # "none" => pc[a] = "done"
    /\ challenge[a] # "none" => pc[a] = "done"
    /\ pc[a] \in {"idle", "checked"} => via[a] = Nobody /\ code[a] = 0
    /\ via[a] # Nobody => /\ via[a] \in Attempt /\ pc[via[a]] = "done"
                          /\ who[via[a]] = who[a]

\* What opened a session is used.
Spent ==
  \A a \in Attempt : session[a] # "none" =>
    /\ via[a] # Nobody => challenge[via[a]] = "used"
    /\ code[a] # 0 => recovery[who[a]] # code[a]

\* What is being answered, or was, is answered by one attempt.
SameChallenge(a, b) == via[a] = via[b] /\ via[a] # Nobody
SameCode(a, b) == who[a] = who[b] /\ code[a] = code[b] /\ code[a] # 0

OneAnswer ==
  \A a, b \in Attempt :
    /\ Uses(a) /\ Uses(b)
    /\ SameChallenge(a, b) \/ SameCode(a, b)
    => a = b

\* No stamp or recovery code is newer than the user's stamp.
Stamps ==
  /\ \A u \in User : recovery[u] <= stamp[u]
  /\ \A a \in Attempt :
       /\ code[a] <= stamp[who[a]]
       /\ pc[a] = "stamped" \/ session[a] # "none" => sees[a] <= stamp[who[a]]

EndedOlder ==
  \A a \in ended : pc[a] \in {"stamped", "done"} /\ sees[a] < stamp[who[a]]

SignInv == Attempts /\ Spent /\ OneAnswer /\ Stamps /\ EndedOlder

\* Whoever holds the lock is a request that has counted, and there is a super
\* administrator besides its target.
OthersRemain ==
  /\ \A r \in Request : call[r].at = "counted" <=> lock = r
  /\ lock # Nobody => ActiveSupers \ {Target(lock)} # {}

RoleInv == ASuperRemains /\ OthersRemain

IdentityInv == TypeOK /\ SignInv /\ RoleInv

-----------------------------------------------------------------------------
LEMMA IdentityInitial == Init => IdentityInv
<1> SUFFICES ASSUME Init
             PROVE  IdentityInv
  OBVIOUS
<1> USE IdentityAssumption, StampAssumption DEF Init
<1>1. TypeOK
  BY SMTT(60) DEF TypeOK, AccountsOK, Account, Role, Purpose, Carried, Idle, Done
<1>2. SignInv
  <2>1. Attempts /\ Spent /\ OneAnswer /\ EndedOlder
    BY DEF Attempts, Spent, OneAnswer, Uses, Opening, EndedOlder
  <2>2. Stamps
    <3>1. \A u \in User : recovery[u] \in Nat /\ stamp[u] = recovery[u]
      BY <1>1 DEF TypeOK
    <3>2. \A a \in Attempt : who[a] \in User /\ code[a] = 0 /\ stamp[who[a]] \in Nat
      BY <1>1, <3>1 DEF TypeOK
    <3>3. \A a \in Attempt : pc[a] # "stamped" /\ session[a] = "none"
      OBVIOUS
    <3> HIDE DEF Init
    <3>4. QED
      BY <3>1, <3>2, <3>3 DEF Stamps
  <2>3. QED
    BY <2>1, <2>2 DEF SignInv
<1>3. RoleInv
  BY DEF RoleInv, ASuperRemains, OthersRemain, Idle, Done
<1>4. QED
  BY <1>1, <1>2, <1>3 DEF IdentityInv

-----------------------------------------------------------------------------
(* Types *)

LEMMA CarriedOut ==
  ASSUME TypeOK, NEW r \in Request, call[r].at \in {"required", "counted"}
  PROVE  /\ call[r] \in Carried
         /\ Target(r) \in User /\ call[r].actor \in User
<1>1. call[r] \in Carried
  BY DEF TypeOK, Idle, Done
<1>2. QED
  BY <1>1 DEF Carried, Target

LEMMA TypeStep == TypeOK /\ [Next]_vars => TypeOK'
<1> SUFFICES ASSUME TypeOK, [Next]_vars
             PROVE  TypeOK'
  OBVIOUS
<1> USE IdentityAssumption, StampAssumption
    DEF signin, factors, requests, accounts
<1>1. CASE UNCHANGED vars
  BY <1>1 DEF vars, TypeOK, AccountsOK
<1>2. CASE SigningIn
  <2>1. ASSUME NEW a \in Attempt,
               CheckPassword(a) \/ AskFactor(a) \/ ReadStamp(a) \/ Abandon(a)
        PROVE  TypeOK'
    <3>1. who[a] \in User
      BY DEF TypeOK
    <3>2. CASE CheckPassword(a)
      BY <3>2 DEF CheckPassword, Step, TypeOK, AccountsOK
    <3>3. CASE AskFactor(a)
      BY ZenonT(60), <3>1, <3>3 DEF AskFactor, Step, Acts, TypeOK, AccountsOK
    <3>4. CASE ReadStamp(a)
      BY <3>1, <3>4 DEF ReadStamp, Step, TypeOK, AccountsOK
    <3>5. CASE Abandon(a)
      BY <3>5 DEF Abandon, Step, TypeOK, AccountsOK
    <3>6. QED
      BY <2>1, <3>2, <3>3, <3>4, <3>5
  <2>2. ASSUME NEW a \in Attempt, OpenSession(a)
        PROVE  TypeOK'
    BY <2>2 DEF OpenSession, Step, Acts, TypeOK, AccountsOK
  <2>3. ASSUME NEW a \in Attempt, UseSession(a) \/ RevokeSession(a)
        PROVE  TypeOK'
    BY <2>3 DEF UseSession, RevokeSession, RevokeAll, Acts, TypeOK, AccountsOK
  <2>4. ASSUME NEW a \in Attempt, NEW c \in Attempt, AnswerTotp(a, c) \/ AnswerRecovery(a, c)
        PROVE  TypeOK'
    <3>1. PICK value \in 0..StampCap : Answer(a, c, value)
      BY <2>4 DEF AnswerTotp, AnswerRecovery, TypeOK
    <3>2. QED
      BY <3>1 DEF Answer, Step, TypeOK, AccountsOK
  <2>5. QED
    BY <1>2, <2>1, <2>2, <2>3, <2>4 DEF SigningIn
<1>3. CASE UsingLinks
  <2>1. ASSUME NEW u \in User, NEW purpose \in Purpose,
               SpendLink(u, purpose) \/ AcceptInvite(u)
        PROVE  TypeOK'
    <3>1. CASE SpendLink(u, purpose)
      BY <3>1 DEF SpendLink, TypeOK, AccountsOK
    <3>2. CASE AcceptInvite(u)
      BY <3>2 DEF AcceptInvite, Acts, TypeOK, AccountsOK, Purpose
    <3>3. QED
      BY <2>1, <3>1, <3>2
  <2>2. ASSUME NEW u \in User, NEW purpose \in Purpose, ResetPassword(u, purpose)
        PROVE  TypeOK'
    BY <2>2 DEF ResetPassword, Secure, Restamp, RevokeAll, Begun, Acts, TypeOK, AccountsOK
  <2>3. QED
    BY <1>3, <2>1, <2>2 DEF UsingLinks
<1>4. CASE Asking
  <2>1. ASSUME NEW r \in Request, NEW u \in User, RequestReset(r, u)
        PROVE  TypeOK'
    BY <2>1 DEF RequestReset, Start, TypeOK, AccountsOK, Purpose, Carried
  <2>2. ASSUME NEW r \in Request, NEW u \in User, NEW what \in SelfTask,
               RequireSession(r, what, u)
        PROVE  TypeOK'
    BY <2>2 DEF RequireSession, Start, TypeOK, AccountsOK, Carried
  <2>3. ASSUME NEW r \in Request, NEW u \in User, NEW v \in User, NEW what \in AdminTask,
               RequireCapability(r, what, u, v)
        PROVE  TypeOK'
    BY <2>3 DEF RequireCapability, Start, TypeOK, AccountsOK, Carried
  <2>4. QED
    BY <1>4, <2>1, <2>2, <2>3 DEF Asking
<1>5. CASE Acting
  <2> SUFFICES ASSUME NEW r \in Request,
                      \/ IssueReset(r) \/ SetPassword(r) \/ StartTotp(r) \/ ConfirmTotp(r)
                      \/ ClearTotp(r) \/ RevokeUserSessions(r) \/ CreateUser(r)
                      \/ RestoreUser(r) \/ TakeLock(r) \/ Rollback(r)
                      \/ DisableUser(r) \/ DeleteUser(r)
                      \/ \E what \in AdminTask, role \in Role :
                           GrantRole(r, what, role) \/ RevokeRole(r, what, role)
               PROVE  TypeOK'
    BY <1>5 DEF Acting, AdminTask, Role
  <2>1. /\ call[r] \in Carried
        /\ Target(r) \in User /\ call[r].actor \in User
    BY CarriedOut
    DEF IssueReset, SetPassword, StartTotp, ConfirmTotp, ClearTotp, RevokeUserSessions,
        CreateUser, RestoreUser, TakeLock, Rollback, DisableUser, DeleteUser, GrantRole,
        RevokeRole, Carry, Release, At
  <2>2. CASE IssueReset(r)
    BY <2>1, <2>2 DEF IssueReset, Carry, TypeOK, AccountsOK, Purpose
  <2>3. CASE SetPassword(r)
    <3>1. Secure(Target(r)) /\ Acts({call[r].actor})
      BY <2>3 DEF SetPassword
    <3>2. /\ call' = [call EXCEPT ![r] = Done] /\ UNCHANGED lock
          /\ UNCHANGED <<links, factors, roles, account>>
      BY <2>3 DEF SetPassword, Carry
    <3>3. QED
      BY <2>1, <3>1, <3>2 DEF Secure, Restamp, RevokeAll, Begun, Acts, TypeOK, AccountsOK
  <2>4. CASE StartTotp(r)
    BY <2>1, <2>4 DEF StartTotp, Carry, TypeOK, AccountsOK
  <2>5. CASE ConfirmTotp(r)
    BY <2>1, <2>5
    DEF ConfirmTotp, Carry, Secure, Restamp, RevokeAll, Begun, Acts, TypeOK, AccountsOK
  <2>6. CASE ClearTotp(r)
    <3>1. Secure(Target(r)) /\ Acts({call[r].actor})
      BY <2>6 DEF ClearTotp
    <3>2. /\ call' = [call EXCEPT ![r] = Done] /\ UNCHANGED lock
          /\ totp' = [totp EXCEPT ![Target(r)] = "none"]
          /\ recovery' = [recovery EXCEPT ![Target(r)] = 0]
          /\ UNCHANGED <<links, roles, account>>
      BY <2>6 DEF ClearTotp, Carry
    <3>3. QED
      BY <2>1, <3>1, <3>2 DEF Secure, Restamp, RevokeAll, Begun, Acts, TypeOK, AccountsOK
  <2>7. CASE RevokeUserSessions(r)
    BY <2>1, <2>7 DEF RevokeUserSessions, Carry, RevokeAll, Acts, TypeOK, AccountsOK
  <2>8. CASE CreateUser(r)
    <3>1. /\ call' = [call EXCEPT ![r] = Done] /\ UNCHANGED lock
          /\ Becomes(Target(r), "active") /\ Acts({call[r].actor})
          /\ UNCHANGED <<signin, session, factors, roles, stamp, ended>>
      BY <2>8 DEF CreateUser, Carry
    <3>2. links' \in [User -> [Purpose -> Nat]]
      <4>1. \/ UNCHANGED links
            \/ links' = [links EXCEPT ![Target(r)]["invite"] = 1]
        BY <2>8 DEF CreateUser
      <4>2. QED
        BY <2>1, <4>1 DEF TypeOK, Purpose
    <3>3. QED
      BY <2>1, <3>1, <3>2 DEF Becomes, Acts, TypeOK, AccountsOK, Account
  <2>9. CASE RestoreUser(r)
    BY <2>1, <2>9 DEF RestoreUser, Carry, Becomes, Acts, TypeOK, AccountsOK, Account
  <2>10. CASE TakeLock(r)
    <3>1. [call[r] EXCEPT !.at = "counted"] \in Carried
      BY <2>1 DEF Carried
    <3>2. QED
      BY <2>10, <3>1 DEF TakeLock, TypeOK, AccountsOK
  <2>11. CASE Rollback(r)
    BY <2>1, <2>11 DEF Rollback, Release, TypeOK, AccountsOK
  <2>12. CASE DisableUser(r)
    BY <2>1, <2>12
    DEF DisableUser, Release, Becomes, Secure, Restamp, RevokeAll, Begun, Acts, TypeOK,
        AccountsOK, Account
  <2>13. CASE DeleteUser(r)
    BY <2>1, <2>13
    DEF DeleteUser, Release, Becomes, Acts, TypeOK, AccountsOK, Account, Purpose
  <2>14. CASE \E what \in AdminTask, role \in Role :
                GrantRole(r, what, role) \/ RevokeRole(r, what, role)
    <3>1. Manage(r)
      BY <2>14 DEF GrantRole, RevokeRole
    <3>2. roles' \in [User -> SUBSET Role]
      <4>1. PICK role \in Role :
              \/ roles' = [roles EXCEPT ![Target(r)] = @ \cup {role}]
              \/ roles' = [roles EXCEPT ![Target(r)] = @ \ {role}]
        BY <2>14 DEF GrantRole, RevokeRole
      <4>2. QED
        BY <2>1, <4>1 DEF TypeOK
    <3>3. QED
      BY <2>1, <3>1, <3>2 DEF Manage, Acts, TypeOK, AccountsOK
  <2>15. QED
    BY <2>2, <2>3, <2>4, <2>5, <2>6, <2>7, <2>8, <2>9, <2>10, <2>11, <2>12, <2>13, <2>14
<1>6. QED
  BY <1>1, <1>2, <1>3, <1>4, <1>5 DEF Next

-----------------------------------------------------------------------------
(* Signing in *)

\* What SignInv is about
sessions == <<pc, who, via, code, sees, session, challenge, recovery, stamp, ended>>

LEMMA SignUnchanged ==
  ASSUME SignInv, UNCHANGED sessions
  PROVE  SignInv'
BY DEF sessions, SignInv, Attempts, Spent, OneAnswer, Uses, Opening, SameChallenge,
       SameCode, Stamps, EndedOlder

\* Sessions are revoked.
LEMMA SignRevoked ==
  ASSUME SignInv, UNCHANGED <<signin, recovery, stamp, ended>>,
         \A a \in Attempt : session'[a] # "none" <=> session[a] # "none"
  PROVE  SignInv'
<1>1. UNCHANGED <<pc, who, via, code, sees, challenge, recovery, stamp, ended>>
  BY DEF signin
<1>2. \A a \in Attempt : Uses(a)' <=> Uses(a)
  BY <1>1 DEF Uses, Opening
<1>3. Attempts' /\ Spent' /\ Stamps' /\ EndedOlder'
  BY <1>1 DEF SignInv, Attempts, Spent, Stamps, EndedOlder
<1>4. OneAnswer'
  BY <1>1, <1>2 DEF SignInv, OneAnswer, SameChallenge, SameCode
<1>5. QED
  BY <1>3, <1>4 DEF SignInv

\* An attempt goes on without answering anything.
LEMMA SignMoved ==
  ASSUME TypeOK, SignInv, NEW a \in Attempt, NEW to,
         pc' = [pc EXCEPT ![a] = to], pc[a] # "done",
         \/ to = "checked" /\ pc[a] = "idle"
         \/ to = "opening" /\ pc[a] = "checked"
         \/ to = "done",
         UNCHANGED <<who, via, code, sees, session, challenge, recovery, stamp, ended>>
  PROVE  SignInv'
<1>1. session[a] = "none" /\ challenge[a] = "none"
  BY DEF SignInv, Attempts
<1>2. \A b \in Attempt : pc'[b] = IF b = a THEN to ELSE pc[b]
  BY DEF TypeOK
<1>3. Attempts' /\ Spent' /\ Stamps' /\ EndedOlder'
  BY <1>1, <1>2 DEF SignInv, Attempts, Spent, Stamps, EndedOlder
<1>4. OneAnswer'
  BY <1>1, <1>2
  DEF SignInv, Attempts, OneAnswer, Uses, Opening, SameChallenge, SameCode
<1>5. QED
  BY <1>3, <1>4 DEF SignInv

\* A change of password or second factor, with what becomes of the recovery code
LEMMA SignSecured ==
  ASSUME TypeOK, SignInv, NEW u \in User, Secure(u),
         recovery' \in {recovery, [recovery EXCEPT ![u] = 0],
                       [recovery EXCEPT ![u] = stamp'[u]]}
  PROVE  SignInv'
<1>1. UNCHANGED <<pc, who, via, code, sees, challenge>>
  BY DEF Secure, signin
<1>2. \A a \in Attempt : session'[a] # "none" <=> session[a] # "none"
  BY DEF Secure, RevokeAll
<1>3. \A v \in User : stamp[v] \in Nat /\ stamp'[v] = IF v = u THEN stamp[v] + 1 ELSE stamp[v]
  BY StampAssumption DEF Secure, Restamp, TypeOK, AccountsOK
<1>4. \A v \in User : /\ recovery[v] \in Nat
                      /\ v # u => recovery'[v] = recovery[v]
                      /\ recovery'[u] \in {recovery[u], 0, stamp[u] + 1}
  BY <1>3, StampAssumption DEF TypeOK
<1>5. \A a \in Attempt : who[a] \in User /\ code[a] \in Nat /\ sees[a] \in Nat
  BY StampAssumption, IdentityAssumption DEF TypeOK
<1>6. Attempts'
  BY <1>1, <1>2 DEF SignInv, Attempts
<1>7. Spent'
  <2> SUFFICES ASSUME NEW a \in Attempt, session[a] # "none"
               PROVE  /\ via[a] # Nobody => challenge[via[a]] = "used"
                      /\ code[a] # 0 => recovery'[who[a]] # code[a]
    BY <1>1, <1>2 DEF Spent
  <2>1. /\ via[a] # Nobody => challenge[via[a]] = "used"
        /\ code[a] # 0 => recovery[who[a]] # code[a]
        /\ code[a] <= stamp[who[a]]
    BY DEF SignInv, Spent, Stamps
  <2>2. QED
    BY <1>3, <1>4, <1>5, <2>1
<1>8. OneAnswer'
  BY <1>1, <1>2 DEF SignInv, OneAnswer, Uses, Opening, SameChallenge, SameCode
<1>9. Stamps'
  BY <1>1, <1>2, <1>3, <1>4, <1>5 DEF SignInv, Stamps
<1>10. EndedOlder'
  <2>1. \A a \in ended' : a \in ended \/ a \in Begun(u)
    BY DEF Secure
  <2>2. \A a \in Begun(u) : /\ a \in Attempt /\ who[a] = u
                           /\ pc[a] \in {"stamped", "done"} /\ sees[a] <= stamp[u]
    BY DEF Begun, SignInv, Attempts, Stamps
  <2>3. ended \subseteq Attempt
    BY DEF TypeOK
  <2>4. QED
    BY <1>1, <1>3, <1>5, <2>1, <2>2, <2>3 DEF SignInv, EndedOlder
<1>11. QED
  BY <1>6, <1>7, <1>8, <1>9, <1>10 DEF SignInv

\* A challenge and a recovery code are taken by nobody else.
LEMMA SignAnswered ==
  ASSUME TypeOK, SignInv, NEW a \in Attempt, NEW c \in Attempt,
         AnswerTotp(a, c) \/ AnswerRecovery(a, c)
  PROVE  SignInv'
<1>1. PICK value \in Nat :
        /\ Answer(a, c, value)
        /\ value # 0 => /\ value = recovery[who[a]]
                        /\ \A b \in Attempt : Opening(b) /\ who[b] = who[a] => code[b] = 0
  BY StampAssumption, IdentityAssumption DEF AnswerTotp, AnswerRecovery, TypeOK
<1>2. /\ pc[a] = "idle" /\ pc' = [pc EXCEPT ![a] = "opening"]
      /\ who[a] = who[c] /\ challenge[c] = "live" /\ Unlocked(c)
      /\ via' = [via EXCEPT ![a] = c] /\ code' = [code EXCEPT ![a] = value]
      /\ UNCHANGED <<who, sees, challenge, session, recovery, stamp, ended>>
  BY <1>1 DEF Answer, Step, factors, accounts
<1>3. \A b \in Attempt : /\ pc'[b] = IF b = a THEN "opening" ELSE pc[b]
                         /\ via'[b] = IF b = a THEN c ELSE via[b]
                         /\ code'[b] = IF b = a THEN value ELSE code[b]
  BY <1>2 DEF TypeOK
<1>4. session[a] = "none" /\ pc[c] = "done" /\ c # Nobody
  BY <1>2, IdentityAssumption DEF SignInv, Attempts
<1>5. Attempts' /\ Spent' /\ EndedOlder'
  BY <1>2, <1>3, <1>4 DEF SignInv, Attempts, Spent, EndedOlder
<1>6. \A b \in Attempt : Uses(b) /\ via[b] = c => FALSE
  BY <1>2, <1>4 DEF SignInv, Spent, Uses, Unlocked
<1>7. \A b \in Attempt : Uses(b) /\ who[b] = who[a] /\ code[b] = value /\ value # 0 => FALSE
  BY <1>1 DEF SignInv, Spent, Uses
<1>8. OneAnswer'
  <2> SUFFICES ASSUME NEW x \in Attempt, NEW y \in Attempt, Uses(x)', Uses(y)',
                      SameChallenge(x, y)' \/ SameCode(x, y)', x # y
               PROVE  FALSE
    BY DEF OneAnswer
  <2>1. \A b \in Attempt \ {a} : Uses(b)' => Uses(b)
    BY <1>2, <1>3 DEF Uses, Opening
  <2>2. CASE x # a /\ y # a
    BY <1>2, <1>3, <2>1, <2>2 DEF SignInv, OneAnswer, SameChallenge, SameCode
  <2>3. CASE x = a
    BY <1>2, <1>3, <1>6, <1>7, <2>1, <2>3 DEF SameChallenge, SameCode
  <2>4. CASE y = a
    BY <1>2, <1>3, <1>6, <1>7, <2>1, <2>4 DEF SameChallenge, SameCode
  <2>5. QED
    BY <2>2, <2>3, <2>4
<1>9. Stamps'
  <2>1. value <= stamp[who[a]]
    <3>1. who[a] \in User /\ stamp[who[a]] \in Nat
      BY StampAssumption, IdentityAssumption DEF TypeOK, AccountsOK
    <3>2. recovery[who[a]] <= stamp[who[a]]
      BY <3>1 DEF SignInv, Stamps
    <3>3. QED
      BY <1>1, <3>1, <3>2
  <2>2. QED
    BY <1>2, <1>3, <2>1 DEF SignInv, Stamps
<1>10. QED
  BY <1>5, <1>8, <1>9 DEF SignInv

LEMMA SignOpened ==
  ASSUME TypeOK, SignInv, NEW a \in Attempt, OpenSession(a)
  PROVE  SignInv'
<1>1. /\ pc[a] = "stamped" /\ pc' = [pc EXCEPT ![a] = "done"]
      /\ session' = [session EXCEPT ![a] = "live"]
      /\ challenge' = [c \in Attempt |-> IF c = via[a] THEN "used" ELSE challenge[c]]
      /\ recovery' = [recovery EXCEPT ![who[a]] = IF @ = code[a] THEN 0 ELSE @]
      /\ UNCHANGED <<who, via, code, sees, stamp, ended>>
  BY DEF OpenSession, Step, accounts
<1>2. who[a] \in User /\ \A b \in Attempt : who[b] \in User
  BY IdentityAssumption DEF TypeOK
<1>3. \A b \in Attempt : /\ pc'[b] = IF b = a THEN "done" ELSE pc[b]
                         /\ session'[b] = IF b = a THEN "live" ELSE session[b]
  BY <1>1 DEF TypeOK
<1>4. \A u \in User : /\ recovery[u] \in Nat /\ stamp[u] \in Nat
                      /\ recovery'[u] = IF u = who[a] /\ recovery[u] = code[a]
                                        THEN 0 ELSE recovery[u]
  BY <1>1, <1>2, StampAssumption DEF TypeOK, AccountsOK
<1>5. \A b \in Attempt : Uses(b)' <=> Uses(b)
  BY <1>1, <1>3 DEF Uses, Opening
<1>6. Attempts'
  BY <1>1, <1>3, IdentityAssumption DEF SignInv, Attempts
<1>7. Spent'
  <2> SUFFICES ASSUME NEW b \in Attempt, session'[b] # "none"
               PROVE  /\ via[b] # Nobody => challenge'[via[b]] = "used"
                      /\ code[b] # 0 => recovery'[who[b]] # code[b]
    BY <1>1 DEF Spent
  <2>1. via[b] # Nobody => via[b] \in Attempt
    BY DEF SignInv, Attempts
  <2>2. CASE b = a
    BY <1>1, <1>2, <1>4, <2>1, <2>2
  <2>3. CASE b # a
    BY <1>1, <1>2, <1>3, <1>4, <2>1, <2>3 DEF SignInv, Spent
  <2>4. QED
    BY <2>2, <2>3
<1>8. OneAnswer'
  BY <1>1, <1>5 DEF SignInv, OneAnswer, SameChallenge, SameCode
<1>9. Stamps' /\ EndedOlder'
  BY <1>1, <1>2, <1>3, <1>4 DEF SignInv, Stamps, EndedOlder, TypeOK
<1>10. QED
  BY <1>6, <1>7, <1>8, <1>9 DEF SignInv

LEMMA SignDeleted ==
  ASSUME TypeOK, SignInv, NEW r \in Request, Target(r) \in User, DeleteUser(r)
  PROVE  SignInv'
<1> DEFINE u == Target(r)
<1>1. /\ session' = [a \in Attempt |-> IF who[a] = u THEN "none" ELSE session[a]]
      /\ challenge' = [a \in Attempt |-> IF who[a] = u THEN "none" ELSE challenge[a]]
      /\ recovery' = [recovery EXCEPT ![u] = 0]
      /\ UNCHANGED <<pc, who, via, code, sees, stamp, ended>>
  BY DEF DeleteUser
<1>2. u \in User
  OBVIOUS
<1> HIDE DEF u
<1>3. \A v \in User : /\ recovery[v] \in Nat /\ stamp[v] \in Nat
                      /\ recovery'[v] = IF v = u THEN 0 ELSE recovery[v]
  BY <1>1, <1>2, StampAssumption DEF TypeOK, AccountsOK
<1>4. \A a \in Attempt : who[a] \in User
  BY IdentityAssumption DEF TypeOK
<1>5. Attempts'
  BY <1>1 DEF SignInv, Attempts
<1>6. Spent'
  BY <1>1, <1>3, <1>4 DEF SignInv, Attempts, Spent
<1>7. OneAnswer'
  BY <1>1 DEF SignInv, OneAnswer, Uses, Opening, SameChallenge, SameCode
<1>8. Stamps' /\ EndedOlder'
  BY <1>1, <1>3, <1>4 DEF SignInv, Stamps, EndedOlder
<1>9. QED
  BY <1>5, <1>6, <1>7, <1>8 DEF SignInv

LEMMA SignStep == TypeOK /\ SignInv /\ [Next]_vars => SignInv'
<1> SUFFICES ASSUME TypeOK, SignInv, [Next]_vars
             PROVE  SignInv'
  OBVIOUS
<1> USE DEF signin, factors, requests, accounts
<1>1. CASE UNCHANGED vars
  BY <1>1, SignUnchanged DEF vars, sessions
<1>2. CASE SigningIn
  <2>1. ASSUME NEW a \in Attempt, CheckPassword(a)
        PROVE  SignInv'
    BY <2>1, SignMoved DEF CheckPassword, Step
  <2>2. ASSUME NEW a \in Attempt, AskFactor(a)
        PROVE  SignInv'
    <3>1. CASE Step(a, "checked", "opening") /\ UNCHANGED challenge
      BY <2>2, <3>1, SignMoved DEF AskFactor, Step
    <3>2. CASE Step(a, "checked", "done") /\ challenge' = [challenge EXCEPT ![a] = "live"]
      <4>1. UNCHANGED <<who, via, code, sees, session, recovery, stamp, ended>>
        BY <2>2 DEF AskFactor
      <4>2. /\ pc[a] = "checked" /\ session[a] = "none"
            /\ \A b \in Attempt : /\ via[b] # a
                                 /\ pc'[b] = IF b = a THEN "done" ELSE pc[b]
        BY <3>2, IdentityAssumption DEF Step, TypeOK, SignInv, Attempts
      <4>3. \A b \in Attempt : challenge'[b] = IF b = a THEN "live" ELSE challenge[b]
        BY <3>2 DEF TypeOK
      <4>4. Attempts' /\ Spent'
        BY <4>1, <4>2, <4>3 DEF SignInv, Attempts, Spent
      <4>5. Stamps' /\ EndedOlder'
        BY <4>1, <4>2 DEF SignInv, Stamps, EndedOlder, TypeOK
      <4>6. OneAnswer'
        BY <4>1, <4>2 DEF SignInv, OneAnswer, Uses, Opening, SameChallenge, SameCode
      <4>7. QED
        BY <4>4, <4>5, <4>6 DEF SignInv
    <3>3. QED
      BY <2>2, <3>1, <3>2 DEF AskFactor
  <2>3. ASSUME NEW a \in Attempt, ReadStamp(a)
        PROVE  SignInv'
    <3>1. /\ pc[a] = "opening" /\ pc' = [pc EXCEPT ![a] = "stamped"]
          /\ sees' = [sees EXCEPT ![a] = stamp[who[a]]]
          /\ UNCHANGED <<who, via, code, session, challenge, recovery, stamp, ended>>
      BY <2>3 DEF ReadStamp, Step
    <3>2. \A b \in Attempt : /\ pc'[b] = IF b = a THEN "stamped" ELSE pc[b]
                             /\ sees'[b] = IF b = a THEN stamp[who[a]] ELSE sees[b]
      BY <3>1 DEF TypeOK
    <3>3. stamp[who[a]] \in Nat /\ a \notin ended
      <4>1. who[a] \in User /\ stamp[who[a]] \in Nat
        BY StampAssumption, IdentityAssumption DEF TypeOK, AccountsOK
      <4>2. a \notin ended
        BY <3>1 DEF SignInv, EndedOlder
      <4>3. QED
        BY <4>1, <4>2
    <3>4. Attempts' /\ Spent' /\ Stamps' /\ EndedOlder'
      BY <3>1, <3>2, <3>3 DEF SignInv, Attempts, Spent, Stamps, EndedOlder, TypeOK
    <3>5. OneAnswer'
      BY <3>1, <3>2 DEF SignInv, OneAnswer, Uses, Opening, SameChallenge, SameCode
    <3>6. QED
      BY <3>4, <3>5 DEF SignInv
  <2>4. ASSUME NEW a \in Attempt, Abandon(a)
        PROVE  SignInv'
    BY <2>4, SignMoved DEF Abandon, Step
  <2>5. ASSUME NEW a \in Attempt, UseSession(a) \/ RevokeSession(a)
        PROVE  SignInv'
    <3>1. \A b \in Attempt : session'[b] # "none" <=> session[b] # "none"
      BY <2>5 DEF UseSession, RevokeSession, RevokeAll, Accepted, TypeOK
    <3>2. UNCHANGED <<signin, recovery, stamp, ended>>
      BY <2>5 DEF UseSession, RevokeSession
    <3>3. QED
      BY <3>1, <3>2, SignRevoked
  <2>6. QED
    BY <1>2, <2>1, <2>2, <2>3, <2>4, <2>5, SignOpened, SignAnswered DEF SigningIn
<1>3. CASE UsingLinks
  <2>1. ASSUME NEW u \in User, NEW purpose \in Purpose,
               SpendLink(u, purpose) \/ AcceptInvite(u)
        PROVE  SignInv'
    BY <2>1, SignUnchanged DEF SpendLink, AcceptInvite, sessions
  <2>2. ASSUME NEW u \in User, NEW purpose \in Purpose, ResetPassword(u, purpose)
        PROVE  SignInv'
    BY <2>2, SignSecured DEF ResetPassword
  <2>3. QED
    BY <1>3, <2>1, <2>2 DEF UsingLinks
<1>4. CASE Asking
  BY <1>4, SignUnchanged
  DEF Asking, RequestReset, RequireSession, RequireCapability, Start, sessions
<1>5. CASE Acting
  <2> SUFFICES ASSUME NEW r \in Request,
                      \/ IssueReset(r) \/ SetPassword(r) \/ StartTotp(r) \/ ConfirmTotp(r)
                      \/ ClearTotp(r) \/ RevokeUserSessions(r) \/ CreateUser(r)
                      \/ RestoreUser(r) \/ TakeLock(r) \/ Rollback(r)
                      \/ DisableUser(r) \/ DeleteUser(r)
                      \/ \E what \in AdminTask, role \in Role :
                           GrantRole(r, what, role) \/ RevokeRole(r, what, role)
               PROVE  SignInv'
    BY <1>5 DEF Acting, AdminTask, Role
  <2>1. Target(r) \in User
    BY CarriedOut
    DEF IssueReset, SetPassword, StartTotp, ConfirmTotp, ClearTotp, RevokeUserSessions,
        CreateUser, RestoreUser, TakeLock, Rollback, DisableUser, DeleteUser, GrantRole,
        RevokeRole, Carry, Release, At
  <2>2. CASE \/ IssueReset(r) \/ StartTotp(r) \/ CreateUser(r) \/ RestoreUser(r)
             \/ TakeLock(r) \/ Rollback(r)
    BY <2>2, SignUnchanged
    DEF IssueReset, StartTotp, CreateUser, RestoreUser, TakeLock, Rollback, sessions
  <2>3. CASE SetPassword(r) \/ DisableUser(r)
    BY <2>1, <2>3, SignSecured DEF SetPassword, DisableUser
  <2>4. CASE ConfirmTotp(r)
    BY <2>1, <2>4, SignSecured DEF ConfirmTotp
  <2>5. CASE ClearTotp(r)
    BY <2>1, <2>5, SignSecured DEF ClearTotp
  <2>6. CASE RevokeUserSessions(r)
    <3>1. \A b \in Attempt : session'[b] # "none" <=> session[b] # "none"
      BY <2>6 DEF RevokeUserSessions, RevokeAll
    <3>2. QED
      BY <2>6, <3>1, SignRevoked DEF RevokeUserSessions
  <2>7. CASE DeleteUser(r)
    BY <2>1, <2>7, SignDeleted
  <2>8. CASE \E what \in AdminTask, role \in Role :
               GrantRole(r, what, role) \/ RevokeRole(r, what, role)
    BY <2>8, SignUnchanged DEF GrantRole, RevokeRole, Manage, sessions
  <2>9. QED
    BY <2>2, <2>3, <2>4, <2>5, <2>6, <2>7, <2>8
<1>6. QED
  BY <1>1, <1>2, <1>3, <1>4, <1>5 DEF Next
-----------------------------------------------------------------------------
(* Super administrators *)

\* A request that does not hold the lock goes on, and no super administrator goes.
LEMMA RolesKept ==
  ASSUME TypeOK, RoleInv, NEW r \in Request, NEW row,
         call[r].at # "counted", row.at # "counted",
         call' = [call EXCEPT ![r] = row], UNCHANGED lock,
         ActiveSupers \subseteq ActiveSupers'
  PROVE  RoleInv'
<1>1. \A q \in Request : call'[q] = IF q = r THEN row ELSE call[q]
  BY DEF TypeOK
<1>2. \A q \in Request : call'[q].at = "counted" <=> call[q].at = "counted"
  BY <1>1
<1>3. lock # Nobody => lock # r /\ Target(lock)' = Target(lock)
  BY <1>1 DEF RoleInv, OthersRemain, TypeOK, Target
<1>4. QED
  BY <1>2, <1>3 DEF RoleInv, ASuperRemains, OthersRemain

LEMMA RolesUnchanged ==
  ASSUME RoleInv, UNCHANGED <<requests, roles, account>>
  PROVE  RoleInv'
<1>1. ActiveSupers' = ActiveSupers /\ UNCHANGED <<call, lock>>
  BY DEF ActiveSupers, Active, requests
<1>2. \A r : Target(r)' = Target(r)
  BY <1>1 DEF Target
<1>3. QED
  BY <1>1, <1>2 DEF RoleInv, ASuperRemains, OthersRemain

\* The request that holds the lock is done with its target.
LEMMA RolesReleased ==
  ASSUME TypeOK, RoleInv, NEW r \in Request, call[r].at = "counted",
         call' = [call EXCEPT ![r] = Done], lock' = Nobody,
         ActiveSupers \ {Target(r)} \subseteq ActiveSupers'
  PROVE  RoleInv'
<1>1. lock = r /\ r # Nobody
  BY IdentityAssumption DEF RoleInv, OthersRemain
<1>2. ActiveSupers \ {Target(r)} # {}
  BY <1>1 DEF RoleInv, OthersRemain
<1>3. \A q \in Request : call'[q] = IF q = r THEN Done ELSE call[q]
  BY DEF TypeOK
<1>4. \A q \in Request : call'[q].at # "counted" /\ q # Nobody
  BY <1>1, <1>3, IdentityAssumption DEF RoleInv, OthersRemain, Done
<1>5. QED
  BY <1>2, <1>4 DEF RoleInv, ASuperRemains, OthersRemain

\* Of several one remains.
LEMMA NotFinalLeavesOne ==
  ASSUME NEW u \in User, NotFinal
  PROVE  ActiveSupers \ {u} # {}
<1>1. IsFiniteSet(ActiveSupers)
  BY IdentityAssumption, FS_Subset DEF ActiveSupers
<1>2. SUFFICES ASSUME ActiveSupers \ {u} = {}
               PROVE  FALSE
  OBVIOUS
<1>3. ActiveSupers \subseteq {u}
  BY <1>2
<1>4. Cardinality({u}) = 1 /\ IsFiniteSet({u})
  BY FS_Singleton
<1>5. Cardinality(ActiveSupers) <= 1
  BY <1>3, <1>4, FS_Subset
<1>6. QED
  BY <1>1, <1>5, FS_CardinalityType DEF NotFinal

LEMMA RoleStep == TypeOK /\ RoleInv /\ [Next]_vars => RoleInv'
<1> SUFFICES ASSUME TypeOK, RoleInv, [Next]_vars
             PROVE  RoleInv'
  OBVIOUS
<1> USE DEF signin, factors, accounts
<1>1. CASE UNCHANGED vars
  BY <1>1, RolesUnchanged DEF vars
<1>2. CASE SigningIn
  BY <1>2, RolesUnchanged
  DEF SigningIn, CheckPassword, AskFactor, ReadStamp, OpenSession, Abandon, UseSession,
      RevokeSession, AnswerTotp, AnswerRecovery, Answer
<1>3. CASE UsingLinks
  BY <1>3, RolesUnchanged DEF UsingLinks, SpendLink, AcceptInvite, ResetPassword
<1>4. CASE Asking
  <2>1. \E r \in Request, u \in User, v \in User : \E what : Start(r, what, u, v)
    <3>1. ASSUME NEW r \in Request, NEW u \in User, RequestReset(r, u)
          PROVE  Start(r, "password_reset", u, u)
      BY <3>1 DEF RequestReset
    <3>2. ASSUME NEW r \in Request, NEW u \in User, NEW what, RequireSession(r, what, u)
          PROVE  Start(r, what, u, u)
      BY <3>2 DEF RequireSession
    <3>3. ASSUME NEW r \in Request, NEW u \in User, NEW v \in User, NEW what,
                 RequireCapability(r, what, u, v)
          PROVE  Start(r, what, u, v)
      BY <3>3 DEF RequireCapability
    <3>4. QED
      BY <1>4, <3>1, <3>2, <3>3 DEF Asking
  <2>2. PICK r \in Request, u \in User, v \in User : \E what : Start(r, what, u, v)
    BY <2>1
  <2>3. PICK what : Start(r, what, u, v)
    BY <2>2
  <2> DEFINE row == [at |-> "required", task |-> what, actor |-> u, target |-> v]
  <2>4. /\ call[r].at # "counted" /\ row.at # "counted"
        /\ call' = [call EXCEPT ![r] = row] /\ UNCHANGED <<lock, roles, account>>
    BY <2>3 DEF Start, Idle
  <2>5. ActiveSupers' = ActiveSupers
    BY <2>4 DEF ActiveSupers, Active
  <2> HIDE DEF row
  <2>6. QED
    BY <2>4, <2>5, RolesKept
<1>5. CASE Acting
  <2> SUFFICES ASSUME NEW r \in Request,
                      \/ IssueReset(r) \/ SetPassword(r) \/ StartTotp(r) \/ ConfirmTotp(r)
                      \/ ClearTotp(r) \/ RevokeUserSessions(r) \/ CreateUser(r)
                      \/ RestoreUser(r) \/ TakeLock(r) \/ Rollback(r)
                      \/ DisableUser(r) \/ DeleteUser(r)
                      \/ \E what \in AdminTask, role \in Role :
                           \/ GrantRole(r, what, role)
                           \/ /\ RevokeRole(r, what, role)
                              /\ role = "super_admin" => NotFinal
               PROVE  RoleInv'
    BY <1>5 DEF Acting, AdminTask, Role, RevokeRole
  <2>1. /\ call[r].at \in {"required", "counted"}
        /\ Target(r) \in User
    BY CarriedOut
    DEF IssueReset, SetPassword, StartTotp, ConfirmTotp, ClearTotp, RevokeUserSessions,
        CreateUser, RestoreUser, TakeLock, Rollback, DisableUser, DeleteUser, GrantRole,
        RevokeRole, Carry, Release, At
  <2>2. Done.at # "counted"
    BY DEF Done
  <2>3. CASE \/ IssueReset(r) \/ SetPassword(r) \/ StartTotp(r) \/ ConfirmTotp(r)
             \/ ClearTotp(r) \/ RevokeUserSessions(r)
    <3>1. /\ call[r].at # "counted" /\ call' = [call EXCEPT ![r] = Done]
          /\ UNCHANGED <<lock, roles, account>>
      BY <2>3
      DEF IssueReset, SetPassword, StartTotp, ConfirmTotp, ClearTotp, RevokeUserSessions,
          Carry, At
    <3>2. ActiveSupers' = ActiveSupers
      BY <3>1 DEF ActiveSupers, Active
    <3>3. QED
      BY <2>2, <3>1, <3>2, RolesKept
  <2>4. CASE CreateUser(r) \/ RestoreUser(r)
    <3>1. /\ call[r].at # "counted" /\ call' = [call EXCEPT ![r] = Done]
          /\ UNCHANGED <<lock, roles>>
          /\ Becomes(Target(r), "active")
      BY <2>4 DEF CreateUser, RestoreUser, Carry, At
    <3>2. ActiveSupers \subseteq ActiveSupers'
      BY <2>1, <3>1 DEF ActiveSupers, Active, Becomes, TypeOK, AccountsOK
    <3>3. QED
      BY <2>2, <3>1, <3>2, RolesKept
  <2>5. CASE TakeLock(r)
    <3>1. /\ lock = Nobody /\ lock' = r /\ Target(r) \notin ActiveSupers
          /\ call' = [call EXCEPT ![r].at = "counted"]
          /\ UNCHANGED <<roles, account>>
      BY <2>5 DEF TakeLock
    <3>2. call[r] \in Carried
      BY <2>1, CarriedOut
    <3>3. [call[r] EXCEPT !.at = "counted"].at = "counted"
          /\ [call[r] EXCEPT !.at = "counted"].target = call[r].target
      BY <3>2 DEF Carried
    <3>4. \A q \in Request :
            call'[q] = IF q = r THEN [call[r] EXCEPT !.at = "counted"] ELSE call[q]
      BY <3>1 DEF TypeOK
    <3>5. ActiveSupers' = ActiveSupers
      BY <3>1 DEF ActiveSupers, Active
    <3>6. Target(r)' = Target(r)
      BY <3>3, <3>4 DEF Target
    <3>7. \A q \in Request : call[q].at # "counted"
      BY <3>1, IdentityAssumption DEF RoleInv, OthersRemain
    <3>8. \A q \in Request : call'[q].at = "counted" <=> lock' = q
      BY <3>1, <3>3, <3>4, <3>7
    <3>9. QED
      BY <3>1, <3>5, <3>6, <3>8 DEF RoleInv, ASuperRemains, OthersRemain
  <2>6. CASE Rollback(r)
    <3>1. /\ call[r].at = "counted" /\ call' = [call EXCEPT ![r] = Done]
          /\ lock' = Nobody /\ UNCHANGED <<roles, account>>
      BY <2>6 DEF Rollback, Release, At
    <3>2. ActiveSupers' = ActiveSupers
      BY <3>1 DEF ActiveSupers, Active
    <3>3. QED
      BY <3>1, <3>2, RolesReleased
  <2>7. CASE DisableUser(r) \/ DeleteUser(r)
    <3>1. /\ call[r].at = "counted" /\ call' = [call EXCEPT ![r] = Done]
          /\ lock' = Nobody
      BY <2>7 DEF DisableUser, DeleteUser, Release, At
    <3>2. \A u \in User \ {Target(r)} : account'[u] = account[u] /\ roles'[u] = roles[u]
      BY <2>1, <2>7 DEF DisableUser, DeleteUser, Becomes, TypeOK, AccountsOK
    <3>3. ActiveSupers \ {Target(r)} \subseteq ActiveSupers'
      BY <3>2 DEF ActiveSupers, Active
    <3>4. QED
      BY <3>1, <3>3, RolesReleased
  <2>8. ASSUME NEW what \in AdminTask, NEW role \in Role, GrantRole(r, what, role)
        PROVE  RoleInv'
    <3>1. /\ call[r].at # "counted" /\ call' = [call EXCEPT ![r] = Done]
          /\ UNCHANGED <<lock, account>>
      BY <2>8 DEF GrantRole, Manage, At
    <3>2. \A u \in User : roles[u] \subseteq roles'[u]
      BY <2>1, <2>8 DEF GrantRole, TypeOK
    <3>3. ActiveSupers \subseteq ActiveSupers'
      BY <3>1, <3>2 DEF ActiveSupers, Active
    <3>4. QED
      BY <2>2, <3>1, <3>3, RolesKept
  <2>9. ASSUME NEW what \in AdminTask, NEW role \in Role, RevokeRole(r, what, role),
               role = "super_admin" => NotFinal
        PROVE  RoleInv'
    <3>1. /\ call[r].at # "counted" /\ call' = [call EXCEPT ![r] = Done]
          /\ lock = Nobody /\ UNCHANGED <<lock, account>>
          /\ roles' = [roles EXCEPT ![Target(r)] = @ \ {role}]
      BY <2>9 DEF RevokeRole, Manage, MayManageRoles, At
    <3>2. CASE role # "super_admin"
      <4>1. ActiveSupers \subseteq ActiveSupers'
        BY <2>1, <3>1, <3>2 DEF ActiveSupers, Active, TypeOK
      <4>2. QED
        BY <2>2, <3>1, <4>1, RolesKept
    <3>3. CASE role = "super_admin"
      <4>1. ActiveSupers \ {Target(r)} # {}
        BY <2>1, <2>9, <3>3, NotFinalLeavesOne
      <4>2. ActiveSupers \ {Target(r)} \subseteq ActiveSupers'
        BY <2>1, <3>1 DEF ActiveSupers, Active, TypeOK
      <4>3. \A q \in Request : call'[q].at # "counted" /\ q # Nobody
        <5>1. \A q \in Request : q # Nobody /\ call[q].at # "counted"
          BY <3>1, IdentityAssumption DEF RoleInv, OthersRemain
        <5>2. \A q \in Request : call'[q] = IF q = r THEN Done ELSE call[q]
          BY <3>1 DEF TypeOK
        <5>3. QED
          BY <2>2, <5>1, <5>2
      <4>4. QED
        BY <3>1, <4>1, <4>2, <4>3 DEF RoleInv, ASuperRemains, OthersRemain
    <3>4. QED
      BY <3>2, <3>3
  <2>10. QED
    BY <2>3, <2>4, <2>5, <2>6, <2>7, <2>8, <2>9
<1>6. QED
  BY <1>1, <1>2, <1>3, <1>4, <1>5 DEF Next

-----------------------------------------------------------------------------
(* Theorems *)

LEMMA IdentityAlways == Spec => []IdentityInv
<1>1. IdentityInv /\ [Next]_vars => IdentityInv'
  BY TypeStep, SignStep, RoleStep DEF IdentityInv
<1>2. QED
  BY <1>1, IdentityInitial, PTL DEF Spec

\* Every variable keeps its type: a challenge or session is of a known attempt,
\* and no counter of links goes below zero.
THEOREM TypeCorrect == Spec => []TypeOK
<1>1. IdentityInv => TypeOK
  BY DEF IdentityInv
<1>2. QED
  BY <1>1, IdentityAlways, PTL

\* A challenge of the second factor and a recovery code open one session each,
\* also when they are answered twice at once (verify_challenge).
THEOREM AnswersAreUsedOnce == Spec => []UsedOnce
<1>1. IdentityInv => UsedOnce
  BY DEF IdentityInv, SignInv, OneAnswer, UsedOnce, Uses, SameChallenge, SameCode
<1>2. QED
  BY <1>1, IdentityAlways, PTL

\* No session begun before the account was secured is accepted after it, also
\* when it was being opened meanwhile (_create_session, current_session).
THEOREM EarlierSessionsEnd == Spec => []SecuredSessionsEnd
<1>1. IdentityInv => SecuredSessionsEnd
  <2> SUFFICES ASSUME IdentityInv, NEW a \in ended
               PROVE  ~Accepted(a)
    BY DEF SecuredSessionsEnd
  <2>1. a \in Attempt /\ sees[a] < stamp[who[a]]
    BY DEF IdentityInv, TypeOK, SignInv, EndedOlder
  <2>2. who[a] \in User /\ sees[a] \in Nat /\ stamp[who[a]] \in Nat
    BY <2>1, IdentityAssumption, StampAssumption DEF IdentityInv, TypeOK, AccountsOK
  <2>3. QED
    BY <2>1, <2>2 DEF Accepted, Holds
<1>2. QED
  BY <1>1, IdentityAlways, PTL

\* Some active user is a super administrator, however demotions, disablings,
\* deletions and restorations overlap (mutate_platform_role, admin.py).
THEOREM SupersRemain == Spec => []ASuperRemains
<1>1. IdentityInv => ASuperRemains
  BY DEF IdentityInv, RoleInv
<1>2. QED
  BY <1>1, IdentityAlways, PTL

-----------------------------------------------------------------------------
(* McpService *)

Live == {c \in Call : left[c] > 0}

\* The lease of a call that may run, or runs, is as old as the clock of the call,
\* unless it has expired and was deleted.
Leased ==
  \A k \in Call :
    at[k] \in {"leased", "checked", "running"} /\ age[k] < Ttl => left[k] = Ttl - age[k]

\* A lease is of a call under way, or one that was lost.
HeldOnly == \A k \in Call : left[k] > NoLease => k \in Held

WithinLimit == Cardinality(Live) <= Limit

\* No clock is older than the longest wait.
Aged == \A k \in Call : at[k] \in Waiting => age[k] <= WaitCap

SlotInv == McpTypeOK /\ Aged /\ Leased /\ HeldOnly /\ WithinLimit

-----------------------------------------------------------------------------
LEMMA SlotInitial == McpInit => SlotInv
<1> SUFFICES ASSUME McpInit
             PROVE  SlotInv
  OBVIOUS
<1> USE TimeAssumption, LimitAssumption
<1>1. McpTypeOK
  BY DEF McpInit, McpTypeOK, NoLease
<1>2. Aged /\ Leased /\ HeldOnly
  BY DEF McpInit, Aged, Leased, HeldOnly, NoLease, Waiting
<1>3. Live = {}
  BY DEF McpInit, Live, NoLease
<1>4. WithinLimit
  BY <1>3, FS_EmptySet DEF WithinLimit
<1>5. QED
  BY <1>1, <1>2, <1>4 DEF SlotInv

LEMMA McpTypeStep == McpTypeOK /\ [McpNext]_mcpVars => McpTypeOK'
<1> SUFFICES ASSUME McpTypeOK, [McpNext]_mcpVars
             PROVE  McpTypeOK'
  OBVIOUS
<1> USE TimeAssumption DEF policy, secrets, calls, leases
<1>1. CASE UNCHANGED mcpVars
  BY <1>1 DEF mcpVars, McpTypeOK
<1>2. CASE Administration
  <2>1. CASE CreatePrincipal \/ FailCreation \/ RevokePrincipal
    BY <2>1 DEF CreatePrincipal, FailCreation, RevokePrincipal, SetPrincipalState, McpTypeOK
  <2>2. CASE DisableOwner \/ LoseMembership
    BY <2>2 DEF DisableOwner, LoseMembership, McpTypeOK
  <2>3. ASSUME NEW c \in Credential,
               CreateCredential(c) \/ OverlapEnds(c) \/ RevokeCredential(c)
        PROVE  McpTypeOK'
    BY <2>3 DEF CreateCredential, OverlapEnds, RevokeCredential, Revoked, McpTypeOK
  <2>4. ASSUME NEW c \in Credential, NEW r \in Rotation, FindToRotate(r, c)
        PROVE  McpTypeOK'
    BY <2>4 DEF FindToRotate, McpTypeOK
  <2>5. ASSUME NEW c \in Credential, NEW x \in Exchange, ExchangeCredential(x, c)
        PROVE  McpTypeOK'
    BY <2>5 DEF ExchangeCredential, McpTypeOK
  <2>6. ASSUME NEW r \in Rotation, NEW keeps \in BOOLEAN, Rotate(r, keeps)
        PROVE  McpTypeOK'
    BY ZenonT(60), <2>6 DEF Rotate, McpTypeOK
  <2>7. ASSUME NEW x \in Exchange, CreateAccessToken(x) \/ RevokeToken(x)
        PROVE  McpTypeOK'
    BY <2>7 DEF CreateAccessToken, RevokeToken, McpTypeOK
  <2>8. QED
    BY <1>2, <2>1, <2>2, <2>3, <2>4, <2>5, <2>6, <2>7 DEF Administration
<1>3. CASE Calling
  <2>1. ASSUME NEW k \in Call, NEW b \in Credential \cup Exchange, Authenticate(k, b)
        PROVE  McpTypeOK'
    BY <2>1 DEF Authenticate, Moves, McpTypeOK
  <2>2. ASSUME NEW k \in Call, Authorize(k) \/ AuthorizeDocument(k) \/ ReadClock(k)
        PROVE  McpTypeOK'
    BY <2>2 DEF Authorize, AuthorizeDocument, ReadClock, Moves, McpTypeOK
  <2>3. ASSUME NEW k \in Call, Acquire(k) \/ Deny(k)
        PROVE  McpTypeOK'
    <3>1. /\ Swept(k) \in [Call -> Int] /\ Ttl - age[k] \in Int
          /\ bearer[k] \cap Credential \subseteq Credential
      BY DEF McpTypeOK, Swept, NoLease
    <3>2. CASE Acquire(k)
      BY <3>1, <3>2 DEF Acquire, Anchor, Moves, McpTypeOK
    <3>3. CASE Deny(k)
      BY <3>1, <3>3 DEF Deny, Anchor, Moves, McpTypeOK
    <3>4. QED
      BY <2>3, <3>2, <3>3
  <2>4. ASSUME NEW k \in Call, CheckPrincipal(k) \/ Begin(k) \/ Finish(k) \/ Return(k)
        PROVE  McpTypeOK'
    BY <2>4 DEF CheckPrincipal, Begin, Finish, Return, Moves, McpTypeOK
  <2>5. ASSUME NEW k \in Call, Refuse(k) \/ Vanish(k)
        PROVE  McpTypeOK'
    BY <2>5 DEF Refuse, Vanish, McpTypeOK
  <2>6. ASSUME NEW k \in Call, ReleaseLease(k)
        PROVE  McpTypeOK'
    BY <2>6 DEF ReleaseLease, Moves, McpTypeOK, NoLease
  <2>7. CASE Tick
    BY <2>7 DEF Tick, McpTypeOK, NoLease, Waiting
  <2>8. QED
    BY <1>3, <2>1, <2>2, <2>3, <2>4, <2>5, <2>6, <2>7 DEF Calling
<1>4. QED
  BY <1>1, <1>2, <1>3 DEF McpNext

-----------------------------------------------------------------------------
(* Leases *)

\* Where leases only run out or are deleted, no more of them are live.
LEMMA LiveKept ==
  ASSUME SlotInv, NEW l \in [Call -> Int], left' = l,
         \A c \in Call : l[c] <= left[c] \/ l[c] <= 0
  PROVE  WithinLimit'
<1>1. left \in [Call -> Int]
  BY DEF SlotInv, McpTypeOK
<1>2. Live' \subseteq Live /\ IsFiniteSet(Live)
  BY <1>1, CallAssumption, FS_Subset DEF Live
<1>3. Cardinality(Live') <= Cardinality(Live) /\ IsFiniteSet(Live')
  BY <1>2, FS_Subset
<1>4. Cardinality(Live) \in Nat /\ Cardinality(Live') \in Nat
  BY <1>2, <1>3, FS_CardinalityType
<1>5. QED
  BY <1>3, <1>4, LimitAssumption DEF SlotInv, WithinLimit

\* A call goes on as it is: with its lease, or without one.
LEMMA SlotMoved ==
  ASSUME SlotInv, NEW k \in Call, NEW to,
         at' = [at EXCEPT ![k] = to],
         to \in {"checked", "running"} =>
           at[k] \in {"leased", "checked", "running"} /\ age'[k] = age[k],
         to # "leased",
         left[k] > NoLease => to \in {"checked", "running", "ending", "gone"},
         to \in Waiting => age'[k] <= WaitCap,
         \A c \in Call \ {k} : age'[c] = age[c],
         UNCHANGED left
  PROVE  Aged' /\ Leased' /\ HeldOnly' /\ WithinLimit'
<1>1. \A c \in Call : at'[c] = IF c = k THEN to ELSE at[c]
  BY DEF SlotInv, McpTypeOK
<1>2. Aged'
  BY <1>1 DEF SlotInv, Aged
<1>3. Leased'
  BY <1>1 DEF SlotInv, Leased
<1>4. HeldOnly'
  BY <1>1 DEF SlotInv, HeldOnly, Held, NoLease
<1>5. WithinLimit'
  BY DEF SlotInv, WithinLimit, Live
<1>6. QED
  BY <1>2, <1>3, <1>4, <1>5

\* Every clock that is in use counts the leases that are live, and what it sweeps
\* has expired.
LEMMA LiveCounted ==
  ASSUME SlotInv, NEW k \in Call
  PROVE  /\ Live \subseteq Counted(k)
         /\ Swept(k) \in [Call -> Int]
         /\ \A c \in Call : \/ Swept(k)[c] = left[c]
                            \/ Swept(k)[c] = NoLease /\ left[c] <= 0
         /\ NoLease <= 0 /\ NoLease \in Int
<1>1. \A c \in Call : age[c] \in Nat /\ left[c] \in Int
  BY DEF SlotInv, McpTypeOK
<1>2. NoLease <= 0 /\ NoLease \in Int
  BY TimeAssumption DEF NoLease
<1>3. Live \subseteq Counted(k)
  BY <1>1 DEF Live, Counted
<1>4. \A c \in Call : c \notin Counted(k) => left[c] <= 0
  BY <1>1 DEF Counted
<1>5. QED
  BY <1>1, <1>2, <1>3, <1>4 DEF Swept

LEMMA SlotAcquired ==
  ASSUME SlotInv, NEW k \in Call, Acquire(k)
  PROVE  Aged' /\ Leased' /\ HeldOnly' /\ WithinLimit'
<1>1. /\ at[k] = "waiting" /\ at' = [at EXCEPT ![k] = "leased"]
      /\ Cardinality(Counted(k)) < Limit
      /\ left' = [Swept(k) EXCEPT ![k] = Ttl - age[k]]
      /\ UNCHANGED age
  BY DEF Acquire, Moves
<1>2. \A c \in Call : /\ at'[c] = IF c = k THEN "leased" ELSE at[c]
                      /\ left'[c] = IF c = k THEN Ttl - age[k] ELSE Swept(k)[c]
  BY <1>1, LiveCounted DEF SlotInv, McpTypeOK
<1>3. \A c \in Call : left[c] \in Int /\ age[c] \in Nat
  BY DEF SlotInv, McpTypeOK
<1>4. Aged'
  BY <1>1, <1>2 DEF SlotInv, Aged, Waiting
<1>5. Leased'
  <2> SUFFICES ASSUME NEW c \in Call, at'[c] \in {"leased", "checked", "running"},
                      age[c] < Ttl
               PROVE  left'[c] = Ttl - age[c]
    BY <1>1 DEF Leased
  <2>1. CASE c = k
    BY <1>2, <2>1
  <2>2. CASE c # k
    <3>1. left[c] = Ttl - age[c] /\ left[c] > 0
      BY <1>2, <1>3, <2>2, TimeAssumption DEF SlotInv, Leased
    <3>2. Swept(k)[c] = left[c]
      BY <1>3, <3>1, LiveCounted
    <3>3. QED
      BY <1>2, <2>2, <3>1, <3>2
  <2>3. QED
    BY <2>1, <2>2
<1>6. HeldOnly'
  <2> SUFFICES ASSUME NEW c \in Call, c # k, left'[c] > NoLease
               PROVE  at'[c] \in {"leased", "checked", "running", "ending", "gone"}
    BY <1>2 DEF HeldOnly, Held, NoLease
  <2>1. left'[c] = left[c]
    BY <1>2, LiveCounted
  <2>2. QED
    BY <1>2, <2>1 DEF SlotInv, HeldOnly, Held
<1>7. WithinLimit'
  <2>1. IsFiniteSet(Counted(k)) /\ IsFiniteSet(Live)
    BY CallAssumption, FS_Subset DEF Counted, Live
  <2>2. Live' \subseteq Counted(k) \cup {k} /\ IsFiniteSet(Counted(k) \cup {k})
    <3>1. ASSUME NEW c \in Call, left'[c] > 0, c # k
          PROVE  c \in Counted(k)
      BY <1>2, <1>3, <3>1, LiveCounted DEF Live
    <3>2. QED
      BY <2>1, <3>1, FS_AddElement DEF Live
  <2>3. Cardinality(Counted(k) \cup {k}) <= Cardinality(Counted(k)) + 1
    <3>1. Cardinality(Counted(k)) \in Nat
      BY <2>1, FS_CardinalityType
    <3>2. Cardinality(Counted(k) \cup {k})
            \in {Cardinality(Counted(k)), Cardinality(Counted(k)) + 1}
      BY <2>1, FS_AddElement
    <3>3. QED
      BY <3>1, <3>2
  <2>4. Cardinality(Live') <= Cardinality(Counted(k) \cup {k}) /\ IsFiniteSet(Live')
    BY <2>2, FS_Subset
  <2>5. /\ Cardinality(Live') \in Nat /\ Cardinality(Counted(k)) \in Nat
        /\ Cardinality(Counted(k) \cup {k}) \in Nat
    BY <2>1, <2>2, <2>4, FS_CardinalityType
  <2>6. QED
    BY <1>1, <2>3, <2>4, <2>5, LimitAssumption DEF WithinLimit
<1>8. QED
  BY <1>4, <1>5, <1>6, <1>7

LEMMA SlotDenied ==
  ASSUME SlotInv, NEW k \in Call, Deny(k)
  PROVE  Aged' /\ Leased' /\ HeldOnly' /\ WithinLimit'
<1>1. /\ at[k] = "waiting" /\ at' = [at EXCEPT ![k] = "idle"]
      /\ left' = Swept(k) /\ age' = [age EXCEPT ![k] = 0]
  BY DEF Deny, Moves
<1>2. \A c \in Call : /\ at'[c] = IF c = k THEN "idle" ELSE at[c]
                      /\ age'[c] = IF c = k THEN 0 ELSE age[c]
                      /\ left[c] \in Int /\ age[c] \in Nat
  BY <1>1 DEF SlotInv, McpTypeOK
<1>3. Aged'
  BY <1>2 DEF SlotInv, Aged, Waiting
<1>4. Leased'
  <2> SUFFICES ASSUME NEW c \in Call, at[c] \in {"leased", "checked", "running"},
                      age[c] < Ttl
               PROVE  Swept(k)[c] = Ttl - age[c]
    BY <1>1, <1>2 DEF Leased
  <2>1. left[c] = Ttl - age[c] /\ left[c] > 0
    BY <1>2, TimeAssumption DEF SlotInv, Leased
  <2>2. QED
    BY <1>2, <2>1, LiveCounted
<1>5. HeldOnly'
  <2> SUFFICES ASSUME NEW c \in Call, Swept(k)[c] > NoLease
               PROVE  at'[c] \in {"leased", "checked", "running", "ending", "gone"}
    BY <1>1 DEF HeldOnly, Held, NoLease
  <2>1. left[c] > NoLease
    BY LiveCounted
  <2>2. at[c] \in {"leased", "checked", "running", "ending", "gone"}
    BY <2>1 DEF SlotInv, HeldOnly, Held
  <2>3. QED
    BY <1>1, <1>2, <2>2
<1>6. \A c \in Call : Swept(k)[c] <= left[c] \/ Swept(k)[c] <= 0
  BY <1>2, LiveCounted
<1>7. WithinLimit'
  BY <1>1, <1>6, LiveCounted, LiveKept
<1>8. QED
  BY <1>3, <1>4, <1>5, <1>7

\* A tick takes as much from a lease as it adds to the age of a clock.
LEMMA SlotTicked ==
  ASSUME SlotInv, Tick
  PROVE  Aged' /\ Leased' /\ HeldOnly' /\ WithinLimit'
<1>1. /\ age' = [k \in Call |->
                   IF at[k] \in Waiting \cup {"running"} THEN age[k] + 1 ELSE 0]
      /\ left' = [k \in Call |-> IF left[k] > NoLease THEN left[k] - 1 ELSE NoLease]
      /\ \A k \in Call : at[k] \in Waiting => age[k] < WaitCap
      /\ UNCHANGED at
  BY DEF Tick
<1>2. \A k \in Call : age[k] \in Nat /\ left[k] \in Int
  BY DEF SlotInv, McpTypeOK
<1>3. Aged'
  BY <1>1, <1>2, TimeAssumption DEF Aged
<1>4. Leased'
  BY <1>1, <1>2, TimeAssumption DEF SlotInv, Leased, NoLease, Waiting
<1>5. HeldOnly'
  BY <1>1, <1>2, TimeAssumption DEF SlotInv, HeldOnly, Held, NoLease
<1>6. left' \in [Call -> Int] /\ \A k \in Call : left'[k] <= left[k] \/ left'[k] <= 0
  BY <1>1, <1>2, TimeAssumption DEF NoLease
<1>7. WithinLimit'
  BY <1>6, LiveKept
<1>8. QED
  BY <1>3, <1>4, <1>5, <1>7

LEMMA SlotStep ==
  SlotInv /\ [McpNext]_mcpVars => Aged' /\ Leased' /\ HeldOnly' /\ WithinLimit'
<1> SUFFICES ASSUME SlotInv, [McpNext]_mcpVars
             PROVE  Aged' /\ Leased' /\ HeldOnly' /\ WithinLimit'
  OBVIOUS
<1> USE TimeAssumption DEF policy, secrets, leases
<1>1. CASE UNCHANGED calls
  <2>1. UNCHANGED <<at, age, left>>
    BY <1>1 DEF calls
  <2>2. QED
    BY <2>1 DEF SlotInv, Aged, Leased, HeldOnly, Held, WithinLimit, Live, NoLease
<1>2. ASSUME NEW k \in Call, NEW b, Authenticate(k, b)
      PROVE  Aged' /\ Leased' /\ HeldOnly' /\ WithinLimit'
  <2>1. /\ at[k] = "idle" /\ at' = [at EXCEPT ![k] = "authenticated"]
        /\ UNCHANGED <<age, left>>
    BY <1>2 DEF Authenticate, Moves
  <2>2. ~(left[k] > NoLease)
    BY <2>1 DEF SlotInv, HeldOnly, Held
  <2>3. QED
    BY <2>1, <2>2, SlotMoved DEF Waiting
<1>3. ASSUME NEW k \in Call, Authorize(k) \/ AuthorizeDocument(k)
      PROVE  Aged' /\ Leased' /\ HeldOnly' /\ WithinLimit'
  <2>1. /\ at[k] = "authenticated" /\ at' = [at EXCEPT ![k] = "authorized"]
        /\ UNCHANGED <<age, left>>
    BY <1>3 DEF Authorize, AuthorizeDocument, Moves
  <2>2. ~(left[k] > NoLease)
    BY <2>1 DEF SlotInv, HeldOnly, Held
  <2>3. QED
    BY <2>1, <2>2, SlotMoved DEF Waiting
<1>4. ASSUME NEW k \in Call, ReadClock(k)
      PROVE  Aged' /\ Leased' /\ HeldOnly' /\ WithinLimit'
  <2>1. /\ at[k] = "authorized" /\ at' = [at EXCEPT ![k] = "waiting"]
        /\ \A c \in Call \ {k} : age'[c] = age[c]
        /\ age'[k] = 0 /\ UNCHANGED left
    BY <1>4 DEF ReadClock, Moves, SlotInv, McpTypeOK
  <2>2. ~(left[k] > NoLease) /\ 0 <= WaitCap
    BY <2>1 DEF SlotInv, HeldOnly, Held
  <2>3. QED
    BY <2>1, <2>2, SlotMoved
<1>5. ASSUME NEW k \in Call, CheckPrincipal(k) \/ Begin(k)
      PROVE  Aged' /\ Leased' /\ HeldOnly' /\ WithinLimit'
  <2>1. PICK to \in {"checked", "running"} :
          /\ at[k] \in {"leased", "checked"} /\ at' = [at EXCEPT ![k] = to]
          /\ UNCHANGED <<age, left>>
    BY <1>5 DEF CheckPrincipal, Begin, Moves
  <2>2. age[k] <= WaitCap
    BY <2>1 DEF SlotInv, Aged, Waiting
  <2>3. QED
    BY <2>1, <2>2, SlotMoved
<1>6. ASSUME NEW k \in Call, Finish(k)
      PROVE  Aged' /\ Leased' /\ HeldOnly' /\ WithinLimit'
  <2>1. /\ at' = [at EXCEPT ![k] = "ending"] /\ UNCHANGED left
        /\ \A c \in Call \ {k} : age'[c] = age[c]
    BY <1>6 DEF Finish, Moves, SlotInv, McpTypeOK
  <2>2. QED
    BY <2>1, SlotMoved DEF Waiting
<1>7. ASSUME NEW k \in Call, Refuse(k)
      PROVE  Aged' /\ Leased' /\ HeldOnly' /\ WithinLimit'
  <2>1. /\ at[k] \in {"authenticated", "authorized", "waiting", "leased", "checked"}
        /\ UNCHANGED left /\ \A c \in Call \ {k} : age'[c] = age[c]
    BY <1>7 DEF Refuse, SlotInv, McpTypeOK
  <2>2. left[k] > NoLease => at[k] \in {"leased", "checked"}
    BY <2>1 DEF SlotInv, HeldOnly, Held
  <2>3. PICK to \in {"ending", "idle"} :
          /\ at' = [at EXCEPT ![k] = to]
          /\ at[k] \in {"leased", "checked"} => to = "ending"
    BY <1>7 DEF Refuse
  <2>4. QED
    BY <2>1, <2>2, <2>3, SlotMoved DEF Waiting
<1>8. ASSUME NEW k \in Call, ReleaseLease(k)
      PROVE  Aged' /\ Leased' /\ HeldOnly' /\ WithinLimit'
  <2>1. /\ at[k] = "ending" /\ at' = [at EXCEPT ![k] = "idle"]
        /\ left' = [left EXCEPT ![k] = NoLease] /\ UNCHANGED age
    BY <1>8 DEF ReleaseLease, Moves
  <2>2. \A c \in Call : /\ at'[c] = IF c = k THEN "idle" ELSE at[c]
                        /\ left'[c] = IF c = k THEN NoLease ELSE left[c]
    BY <2>1 DEF SlotInv, McpTypeOK
  <2>3. Aged' /\ Leased' /\ HeldOnly'
    BY <2>1, <2>2 DEF SlotInv, Aged, Leased, HeldOnly, Held, NoLease, Waiting
  <2>4. left' \in [Call -> Int] /\ \A c \in Call : left'[c] <= left[c] \/ left'[c] <= 0
    BY <2>1, <2>2 DEF SlotInv, McpTypeOK, NoLease
  <2>5. WithinLimit'
    BY <2>4, LiveKept
  <2>6. QED
    BY <2>3, <2>5
<1>9. ASSUME NEW k \in Call, Vanish(k)
      PROVE  Aged' /\ Leased' /\ HeldOnly' /\ WithinLimit'
  <2>1. /\ at' = [at EXCEPT ![k] = "gone"] /\ UNCHANGED left
        /\ \A c \in Call \ {k} : age'[c] = age[c]
    BY <1>9 DEF Vanish, SlotInv, McpTypeOK
  <2>2. QED
    BY <2>1, SlotMoved DEF Waiting
<1>10. ASSUME NEW k \in Call, Return(k)
       PROVE  Aged' /\ Leased' /\ HeldOnly' /\ WithinLimit'
  <2>1. /\ at' = [at EXCEPT ![k] = "idle"] /\ left[k] = NoLease
        /\ UNCHANGED <<age, left>>
    BY <1>10 DEF Return, Moves
  <2>2. ~(left[k] > NoLease)
    BY <2>1 DEF NoLease
  <2>3. QED
    BY <2>1, <2>2, SlotMoved DEF Waiting
<1>11. CASE Administration
  BY <1>1, <1>11
  DEF Administration, CreatePrincipal, FailCreation, RevokePrincipal, SetPrincipalState,
      DisableOwner, LoseMembership, CreateCredential, OverlapEnds, RevokeCredential,
      FindToRotate, ExchangeCredential, Rotate, CreateAccessToken, RevokeToken
<1>12. QED
  BY <1>1, <1>2, <1>3, <1>4, <1>5, <1>6, <1>7, <1>8, <1>9, <1>10, <1>11, SlotAcquired,
     SlotDenied, SlotTicked
  DEF McpNext, Calling, mcpVars

-----------------------------------------------------------------------------
(* Theorems *)

LEMMA SlotAlways == McpSpec => []SlotInv
<1>1. SlotInv /\ [McpNext]_mcpVars => SlotInv'
  BY McpTypeStep, SlotStep DEF SlotInv
<1>2. QED
  BY <1>1, SlotInitial, PTL DEF McpSpec

\* Every variable keeps its type.
THEOREM McpTypeCorrect == McpSpec => []McpTypeOK
<1>1. SlotInv => McpTypeOK
  BY DEF SlotInv
<1>2. QED
  BY <1>1, SlotAlways, PTL

\* Of the calls that are over before their leases, no more run than the limit
\* allows, however long others have waited and whichever process was lost, and no
\* slot is counted for a call that is over (acquire_concurrency_lease).
THEOREM SlotsAreSound == McpSpec => []SlotsSound
<1>1. SlotInv => SlotsSound
  <2> SUFFICES ASSUME SlotInv
               PROVE  SlotsSound
    OBVIOUS
  <2> DEFINE Timely == {k \in Running : InTime(k)}
  <2>1. Timely \subseteq Live
    <3> SUFFICES ASSUME NEW k \in Call, at[k] = "running", age[k] + budget[k] < Ttl
                 PROVE  left[k] > 0
      BY DEF Running, InTime, Live
    <3>1. age[k] \in Nat /\ budget[k] \in Nat
      BY TimeAssumption DEF SlotInv, McpTypeOK
    <3>2. left[k] = Ttl - age[k]
      BY <3>1, TimeAssumption DEF SlotInv, Leased
    <3>3. QED
      BY <3>1, <3>2, TimeAssumption
  <2>2. IsFiniteSet(Live)
    BY CallAssumption, FS_Subset DEF Live
  <2>3. Cardinality(Timely) <= Cardinality(Live) /\ IsFiniteSet(Timely)
    BY <2>1, <2>2, FS_Subset
  <2>4. Cardinality(Timely) \in Nat /\ Cardinality(Live) \in Nat
    BY <2>2, <2>3, FS_CardinalityType
  <2>5. ConcurrencyBounded
    BY <2>3, <2>4, LimitAssumption DEF SlotInv, WithinLimit, ConcurrencyBounded
  <2>6. ASSUME NEW k \in Call, at[k] = "waiting", NEW c \in Counted(k)
        PROVE  c \in Held
    <3>1. /\ c \in Call /\ left[c] + age[k] > 0
          /\ left[c] \in Int /\ age[k] \in Nat /\ age[k] <= WaitCap
      BY <2>6 DEF Counted, SlotInv, McpTypeOK, Aged, Waiting
    <3>2. left[c] > NoLease
      BY <3>1, TimeAssumption DEF NoLease
    <3>3. QED
      BY <3>1, <3>2 DEF SlotInv, HeldOnly
  <2>7. QED
    BY <2>5, <2>6 DEF SlotsSound, SlotsReturn
<1>2. QED
  BY <1>1, SlotAlways, PTL

\* A principal that is revoked stays so and is not let in by any token or
\* credential, and no call of it passes its last check (set_principal_state,
\* effective_user_id).
THEOREM PrincipalRests == McpSpec => RevokedPrincipalRests
<1> DEFINE Rests == principal = "revoked" =>
                      /\ principal' = "revoked"
                      /\ Passed' \subseteq Passed
                      /\ \A b \in Credential \cup Exchange : ~BearerAccepted(b)'
<1>1. McpTypeOK /\ [McpNext]_mcpVars => Rests
  <2> SUFFICES ASSUME McpTypeOK, [McpNext]_mcpVars, principal = "revoked"
               PROVE  /\ principal' = "revoked"
                      /\ Passed' \subseteq Passed
                      /\ \A b \in Credential \cup Exchange : ~BearerAccepted(b)'
    OBVIOUS
  <2> USE DEF policy, secrets, calls, leases
  <2>1. principal' = "revoked"
    BY DEF McpNext, mcpVars, Administration, Calling, CreatePrincipal, FailCreation,
           RevokePrincipal, SetPrincipalState, DisableOwner, LoseMembership,
           CreateCredential, OverlapEnds, RevokeCredential, FindToRotate,
           ExchangeCredential, Rotate, CreateAccessToken, RevokeToken, Authenticate,
           Authorize, AuthorizeDocument, ReadClock, Acquire, Deny, CheckPrincipal, Begin,
           Finish, Refuse, ReleaseLease, Vanish, Return, Tick
  <2>2. \A b : ~BearerAccepted(b)'
    BY <2>1 DEF BearerAccepted, Resolved, Valid, Loaded
  <2>3. \A k \in Call : ~CheckPrincipal(k)
    BY DEF CheckPrincipal, Loaded
  <2>4. ASSUME UNCHANGED at
        PROVE  Passed' \subseteq Passed
    BY <2>4 DEF Passed
  <2>5. ASSUME NEW k \in Call, NEW to, at' = [at EXCEPT ![k] = to],
               to \in {"checked", "running"} => k \in Passed
        PROVE  Passed' \subseteq Passed
    BY <2>5 DEF Passed, McpTypeOK
  <2>6. Passed' \subseteq Passed
    BY <2>3, <2>4, <2>5
    DEF McpNext, mcpVars, Administration, Calling, CreatePrincipal, FailCreation,
        RevokePrincipal, SetPrincipalState, DisableOwner, LoseMembership,
        CreateCredential, OverlapEnds, RevokeCredential, FindToRotate,
        ExchangeCredential, Rotate, CreateAccessToken, RevokeToken, Authenticate,
        Authorize, AuthorizeDocument, ReadClock, Acquire, Deny, Begin, Finish, Refuse,
        ReleaseLease, Vanish, Return, Tick, Moves, Passed
  <2>7. QED
    BY <2>1, <2>2, <2>6
<1>2. QED
  BY <1>1, McpTypeCorrect, PTL DEF McpSpec, RevokedPrincipalRests
=============================================================================
