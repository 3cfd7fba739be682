----------------------------- MODULE OAuthProofs -----------------------------
(***************************************************************************)
(* Proofs about OAuthGrants, for any number of users, authorizations,      *)
(* exchanges and scopes: types, that a code is exchanged once, that a      *)
(* replay ends all that came from it, and that nothing approved before a   *)
(* change of the account works after it.                                   *)
(*                                                                         *)
(* None of these is inductive.  An exchange that holds a code holds it     *)
(* alone; tokens exist for used codes only, whose grant exists; and        *)
(* whatever carries a stamp carries one no newer than the user's, and an   *)
(* older one if it was approved before the account changed.                *)
(***************************************************************************)
EXTENDS OAuthGrants, SequenceTheorems, TLAPS

GrantRow == [user : User, scopes : Scopes, state : {"active", "revoked"}]

FamilyRow == [state : {"live", "revoked"}, stamp : 0..StampCap,
              generation : Nat, scopes : Scopes, live : BOOLEAN]

TokenRow == [flow : Flow, generation : Nat, stamp : 0..StampCap,
             scopes : Scopes, live : BOOLEAN]

Past(f) == pc[f] \in {"approved", "consented", "code", "used"}

\* An exchange under way is of a code not yet used, and no other has its grant.
Exclusive ==
  \A x \in Exchange : exchange[x] # NoExchange =>
    /\ pc[exchange[x].flow] = "code"
    /\ \A y \in Exchange :
         /\ exchange[y] # NoExchange
         /\ via[exchange[y].flow] = via[exchange[x].flow]
         => y = x

\* Codes that are used were exchanged once, the others never.
Once == \A f \in Flow : bundles[f] = IF pc[f] = "used" THEN 1 ELSE 0

\* Tokens come from used codes.
FromCodes ==
  \A f \in Flow : pc[f] # "used" =>
    family[f] = NoFamily /\ \A t \in access : t.flow # f

\* A family whose revocation is under way exists.
Noted == \A f \in Flow : snapshot[f] # 0 => family[f] # NoFamily

\* A flow that has consented has a grant.
Placed ==
  \A f \in Flow : pc[f] \in {"consented", "code", "used"} => via[f] \in DOMAIN grants

\* The grant of a flow that was replayed is revoked.
Dead ==
  \A f \in replayed : /\ f \in Flow /\ pc[f] = "used"
                      /\ grants[via[f]].state = "revoked"

\* A stamp a flow may carry
Old(f, s) ==
  /\ s <= stamp[owner[f]]
  /\ f \in ended => s < stamp[owner[f]]

Stamped ==
  /\ \A f \in Flow : Past(f) => Old(f, sees[f])
  /\ \A x \in Exchange : exchange[x] # NoExchange => Old(exchange[x].flow, exchange[x].stamp)
  /\ \A f \in Flow : family[f] # NoFamily => Old(f, family[f].stamp)
  /\ \A t \in access : Old(t.flow, t.stamp)

EndedPast == \A f \in ended : Past(f)

GrantInv ==
  /\ TypeOK /\ Exclusive /\ Once /\ FromCodes /\ Noted /\ Placed /\ Dead
  /\ Stamped /\ EndedPast

LEMMA GrantInitial == Init => GrantInv
<1> SUFFICES ASSUME Init
             PROVE  GrantInv
  OBVIOUS
<1> USE GrantAssumption, StampAssumption DEF Init
<1>1. TypeOK
  BY DEF TypeOK, AccountsOK, Account, Scopes, NoExchange, NoFamily
<1>2. Exclusive /\ Once /\ FromCodes /\ Noted /\ Placed /\ Dead
  BY DEF Exclusive, Once, FromCodes, Noted, Placed, Dead
<1>3. Stamped /\ EndedPast
  BY DEF Stamped, EndedPast, Past
<1>4. QED
  BY <1>1, <1>2, <1>3 DEF GrantInv

-----------------------------------------------------------------------------
(* Grants *)

\* A row that is replaced by another leaves a sequence of rows.
LEMMA RowReplaced ==
  ASSUME TypeOK, NEW g \in DOMAIN grants, NEW row \in GrantRow
  PROVE  LET new == [grants EXCEPT ![g] = row]
         IN  /\ new \in Seq(GrantRow)
             /\ Len(new) = Len(grants)
             /\ DOMAIN new = DOMAIN grants
<1>1. grants \in Seq(GrantRow) /\ g \in 1..Len(grants)
  BY DEF TypeOK, GrantRow
<1>2. QED
  BY <1>1, ExceptSeq

LEMMA RowRevoked ==
  ASSUME TypeOK, NEW g
  PROVE  /\ Revoked(g) \in Seq(GrantRow)
         /\ Len(Revoked(g)) = Len(grants)
         /\ DOMAIN Revoked(g) = DOMAIN grants
         /\ \A h \in DOMAIN grants :
              Revoked(g)[h].state = IF h = g THEN "revoked" ELSE grants[h].state
<1>1. grants \in Seq(GrantRow)
  BY DEF TypeOK, GrantRow
<1>2. CASE g \in DOMAIN grants
  <2>1. grants[g] \in GrantRow
    BY <1>1, <1>2
  <2>2. [grants[g] EXCEPT !.state = "revoked"] \in GrantRow
    BY <2>1 DEF GrantRow
  <2>3. Revoked(g) = [grants EXCEPT ![g] = [grants[g] EXCEPT !.state = "revoked"]]
    BY DEF Revoked
  <2>4. QED
    BY <1>1, <1>2, <2>1, <2>2, <2>3, RowReplaced DEF GrantRow
<1>3. CASE g \notin DOMAIN grants
  <2>1. Revoked(g) = grants
    BY <1>1, <1>3 DEF Revoked
  <2>2. QED
    BY <1>1, <1>3, <2>1
<1>4. QED
  BY <1>2, <1>3

LEMMA FamilyRevoked ==
  ASSUME TypeOK, NEW f \in Flow, family[f].state = "live"
  PROVE  /\ family[f] \in FamilyRow
         /\ [family EXCEPT ![f].state = "revoked"] \in [Flow -> {NoFamily} \cup FamilyRow]
<1>1. family[f] \in FamilyRow
  BY DEF TypeOK, NoFamily, FamilyRow
<1>2. [family[f] EXCEPT !.state = "revoked"] \in FamilyRow
  BY <1>1 DEF FamilyRow
<1>3. QED
  BY <1>1, <1>2 DEF TypeOK, FamilyRow

-----------------------------------------------------------------------------
(* Types *)

LEMMA TypeStep == GrantInv /\ [Next]_vars => TypeOK'
<1> SUFFICES ASSUME GrantInv, [Next]_vars
             PROVE  TypeOK'
  OBVIOUS
<1> USE GrantAssumption, StampAssumption, TokenAssumption
    DEF GrantInv, TypeOK, flows, tokens, others, accounts
<1>1. CASE UNCHANGED vars
  BY <1>1 DEF vars, AccountsOK, Scopes
<1>2. ASSUME NEW f \in Flow, BeginAuthorization(f)
      PROVE  TypeOK'
  <2>1. PICK g \in ActiveGrants(owner[f]) \cup {0} : prior' = [prior EXCEPT ![f] = g]
    BY <1>2 DEF BeginAuthorization
  <2>2. g \in 0..GrantCap
    BY <2>1 DEF ActiveGrants
  <2>3. prior' \in [Flow -> 0..GrantCap]
    BY <2>1, <2>2
  <2>4. QED
    BY <1>2, <2>3 DEF BeginAuthorization, Step, AccountsOK
<1>3. ASSUME NEW f \in Flow, Approve(f)
      PROVE  TypeOK'
  BY <1>3 DEF Approve, Step, AccountsOK, Scopes
<1>4. ASSUME NEW f \in Flow, Decline(f) \/ CreateCode(f)
      PROVE  TypeOK'
  BY <1>4 DEF Decline, CreateCode, Step, AccountsOK, Scopes
<1>5. ASSUME NEW f \in Flow, Consent(f)
      PROVE  TypeOK'
  <2>1. Grant(owner[f], asked[f]) \in GrantRow
    BY DEF Grant, GrantRow
  <2>2. grants' \in Seq(GrantRow) /\ Len(grants') <= GrantCap /\ via' \in [Flow -> 0..GrantCap]
    <3>1. CASE \E g \in ActiveGrants(owner[f]) :
                 /\ grants' = [grants EXCEPT ![g] = Grant(owner[f], asked[f])]
                 /\ via' = [via EXCEPT ![f] = g]
      <4>1. PICK g \in DOMAIN grants :
              /\ grants' = [grants EXCEPT ![g] = Grant(owner[f], asked[f])]
              /\ via' = [via EXCEPT ![f] = g]
        BY <3>1 DEF ActiveGrants
      <4>2. /\ [grants EXCEPT ![g] = Grant(owner[f], asked[f])] \in Seq(GrantRow)
            /\ Len([grants EXCEPT ![g] = Grant(owner[f], asked[f])]) = Len(grants)
        BY <2>1, RowReplaced
      <4>3. g \in 0..GrantCap
        OBVIOUS
      <4>4. QED
        BY <4>1, <4>2, <4>3
    <3>2. CASE /\ Len(grants) < GrantCap
               /\ grants' = Append(grants, Grant(owner[f], asked[f]))
               /\ via' = [via EXCEPT ![f] = Len(grants')]
      BY <2>1, <3>2 DEF GrantRow
    <3>3. QED
      BY <1>5, <3>1, <3>2 DEF Consent
  <2>3. QED
    BY <1>5, <2>2 DEF Consent, Step, AccountsOK, GrantRow
<1>6. ASSUME NEW f \in Flow, Reuse(f)
      PROVE  TypeOK'
  BY <1>6 DEF Reuse, Step, AccountsOK
<1>7. ASSUME NEW f \in Flow, ReplayCode(f)
      PROVE  TypeOK'
  BY <1>7, RowRevoked DEF ReplayCode, AccountsOK, GrantRow
<1>8. ASSUME NEW f \in Flow, ReplayRefresh(f)
      PROVE  TypeOK'
  <2>1. grants' \in Seq(GrantRow) /\ Len(grants') = Len(grants)
    BY <1>8, RowRevoked DEF ReplayRefresh
  <2>2. family' \in [Flow -> {NoFamily} \cup FamilyRow]
    BY <1>8, FamilyRevoked DEF ReplayRefresh
  <2>3. QED
    BY <1>8, <2>1, <2>2 DEF ReplayRefresh, AccountsOK, GrantRow, FamilyRow
<1>9. ASSUME NEW f \in Flow, RevokeRead(f)
      PROVE  TypeOK'
  <2> DEFINE n == family[f].generation + 1
  <2>1. family[f].state = "live" /\ snapshot' = [snapshot EXCEPT ![f] = n]
    BY <1>9 DEF RevokeRead
  <2>2. n \in Nat
    <3>1. family[f] \in FamilyRow
      BY <2>1, FamilyRevoked
    <3>2. QED
      BY <3>1 DEF FamilyRow
  <2> HIDE DEF n
  <2>3. snapshot' \in [Flow -> Nat]
    BY <2>1, <2>2
  <2>4. QED
    BY <1>9, <2>3 DEF RevokeRead, AccountsOK
<1>10. ASSUME NEW f \in Flow, RevokeWrite(f)
       PROVE  TypeOK'
  <2> DEFINE live == family[f].live /\ family[f].generation >= snapshot[f]
  <2>1. family' = [family EXCEPT ![f] = [family[f] EXCEPT !.state = "revoked", !.live = live]]
    BY <1>10 DEF RevokeWrite
  <2>2. family[f] \in FamilyRow
    BY <1>10 DEF RevokeWrite, Noted, FamilyRow
  <2> HIDE DEF live
  <2>3. [family[f] EXCEPT !.state = "revoked", !.live = live] \in FamilyRow
    <3>1. live \in BOOLEAN
      BY DEF live
    <3>2. QED
      BY <2>2, <3>1 DEF FamilyRow
  <2>4. family' \in [Flow -> {NoFamily} \cup FamilyRow]
    BY <2>1, <2>3 DEF FamilyRow
  <2>5. QED
    BY <1>10, <2>4 DEF RevokeWrite, AccountsOK, FamilyRow
<1>11. ASSUME NEW x \in Exchange, NEW f \in Flow, BeginExchange(x, f)
       PROVE  TypeOK'
  BY <1>11 DEF BeginExchange, AccountsOK
<1>12. ASSUME NEW f \in Flow, NEW scopes \in Scopes, Rotate(f, scopes)
       PROVE  TypeOK'
  <2> DEFINE n == family[f].generation + 1
  <2>1. family[f] \in FamilyRow
    BY <1>12 DEF Rotate, Refreshes, Renewable, FamilyLive, NoFamily, FamilyRow
  <2>2. n \in Nat
    BY <2>1 DEF FamilyRow
  <2>3. family' = [family EXCEPT ![f] =
                     [family[f] EXCEPT !.generation = n, !.scopes = scopes]]
    BY <1>12 DEF Rotate
  <2>4. access' = access \cup {Token(f, n, stamp[owner[f]], scopes)}
    BY <1>12 DEF Rotate
  <2> HIDE DEF n
  <2>5. [family[f] EXCEPT !.generation = n, !.scopes = scopes] \in FamilyRow
    BY <2>1, <2>2 DEF FamilyRow
  <2>6. family' \in [Flow -> {NoFamily} \cup FamilyRow]
    BY <2>3, <2>5 DEF FamilyRow
  <2>7. stamp[owner[f]] \in 0..StampCap
    BY DEF AccountsOK
  <2>8. access' \subseteq TokenRow
    <3>1. Token(f, n, stamp[owner[f]], scopes) \in TokenRow
      BY <2>2, <2>7 DEF Token, TokenRow
    <3>2. QED
      BY <2>4, <3>1 DEF TokenRow
  <2>9. QED
    BY <1>12, <2>6, <2>8 DEF Rotate, AccountsOK, FamilyRow, TokenRow
<1>13. ASSUME NEW x \in Exchange, FinishExchange(x)
       PROVE  TypeOK'
  <2> DEFINE f == exchange[x].flow
             s == exchange[x].stamp
             row == [state |-> "live", stamp |-> s, generation |-> 0,
                     scopes |-> asked[f], live |-> TRUE]
  <2>1. f \in Flow /\ s \in 0..StampCap
    BY <1>13 DEF FinishExchange
  <2>2. /\ pc' = [pc EXCEPT ![f] = "used"]
        /\ exchange' = [exchange EXCEPT ![x] = NoExchange]
        /\ family' = [family EXCEPT ![f] = row]
        /\ access' = access \cup {Token(f, 0, s, asked[f])}
        /\ bundles' = [bundles EXCEPT ![f] = bundles[f] + 1]
        /\ UNCHANGED <<owner, asked, prior, sees, via, snapshot, grants, client, account,
                       stamp, replayed, ended>>
    BY <1>13 DEF FinishExchange
  <2> HIDE DEF f, s
  <2>3. row \in FamilyRow
    BY <2>1 DEF FamilyRow
  <2>4. family' \in [Flow -> {NoFamily} \cup FamilyRow]
    BY <2>1, <2>2, <2>3 DEF FamilyRow
  <2>5. access' \subseteq TokenRow
    <3>1. Token(f, 0, s, asked[f]) \in TokenRow
      BY <2>1 DEF Token, TokenRow
    <3>2. QED
      BY <2>2, <3>1 DEF TokenRow
  <2>6. /\ bundles' \in [Flow -> Nat]
        /\ pc' \in [Flow -> {"idle", "begun", "declined", "approved", "consented", "code", "used"}]
        /\ exchange' \in [Exchange -> {NoExchange} \cup [flow : Flow, stamp : 0..StampCap]]
    BY <2>1, <2>2
  <2>7. QED
    BY <2>2, <2>4, <2>5, <2>6 DEF AccountsOK, FamilyRow, TokenRow
<1>14. ASSUME NEW x \in Exchange, DropExchange(x)
       PROVE  TypeOK'
  BY <1>14 DEF DropExchange, AccountsOK
<1>15. CASE SwitchClient
  BY <1>15 DEF SwitchClient, AccountsOK
<1>16. ASSUME NEW g \in DOMAIN grants, RevokeGrant(g)
       PROVE  TypeOK'
  BY <1>16, RowRevoked DEF RevokeGrant, AccountsOK, GrantRow
<1>17. ASSUME NEW t \in access, RevokeAccess(t)
       PROVE  TypeOK'
  BY <1>17 DEF RevokeAccess, AccountsOK
<1>18. ASSUME NEW u \in User, ChangePassword(u) \/ DisableUser(u) \/ RestoreUser(u)
       PROVE  TypeOK'
  <2>1. stamp' \in [User -> 0..StampCap]
    BY <1>18 DEF ChangePassword, DisableUser, RestoreUser, Secure, Restamp, AccountsOK
  <2>2. account' \in [User -> Account]
    BY <1>18 DEF ChangePassword, DisableUser, RestoreUser, Becomes, AccountsOK, Account
  <2>3. ended' \subseteq Flow
    BY <1>18 DEF ChangePassword, DisableUser, RestoreUser, Secure, Earlier
  <2>4. QED
    BY <1>18, <2>1, <2>2, <2>3 DEF ChangePassword, DisableUser, RestoreUser, Secure, AccountsOK
<1>19. QED
  BY <1>1, <1>2, <1>3, <1>4, <1>5, <1>6, <1>7, <1>8, <1>9, <1>10, <1>11, <1>12, <1>13,
     <1>14, <1>15, <1>16, <1>17, <1>18 DEF Next, TokenRequest, RevokeRequest, Scopes

-----------------------------------------------------------------------------
(* Codes and their tokens *)

CodeInv == Exclusive /\ Once /\ FromCodes /\ Noted /\ Placed

\* What a flow has reached, holds and was issued
codes == <<pc, via, exchange, family, access, snapshot, bundles>>

LEMMA CodesUnchanged ==
  ASSUME CodeInv, UNCHANGED codes, DOMAIN grants' = DOMAIN grants
  PROVE  CodeInv'
BY DEF CodeInv, codes, Exclusive, Once, FromCodes, Noted, Placed

\* A flow goes on that no exchange has to do with.
LEMMA FlowGoesOn ==
  ASSUME TypeOK, CodeInv, NEW f \in Flow, NEW to \in {"begun", "declined", "approved", "consented", "code"},
         pc[f] \in {"idle", "begun", "approved", "consented"},
         pc' = [pc EXCEPT ![f] = to],
         \A g \in Flow \ {f} : via'[g] = via[g],
         to \in {"consented", "code"} => via'[f] \in DOMAIN grants',
         DOMAIN grants \subseteq DOMAIN grants',
         UNCHANGED <<exchange, family, access, snapshot, bundles>>
  PROVE  CodeInv'
<1> USE DEF TypeOK, CodeInv
<1>1. Exclusive'
  <2>1. \A x \in Exchange : exchange[x] # NoExchange => exchange[x].flow \in Flow \ {f}
    BY DEF Exclusive
  <2>2. QED
    BY SMTT(60), <2>1 DEF Exclusive
<1>2. Once' /\ FromCodes' /\ Noted'
  BY DEF Once, FromCodes, Noted
<1>3. Placed'
  BY DEF Placed
<1>4. QED
  BY <1>1, <1>2, <1>3

LEMMA CodeStep == GrantInv /\ [Next]_vars => CodeInv'
<1> SUFFICES ASSUME GrantInv, [Next]_vars
             PROVE  CodeInv'
  OBVIOUS
<1>1. TypeOK /\ CodeInv
  BY DEF GrantInv, CodeInv
<1> USE DEF flows, tokens, others, accounts
<1>2. CASE UNCHANGED vars
  BY <1>1, <1>2, CodesUnchanged DEF vars, codes
<1>3. ASSUME NEW f \in Flow, BeginAuthorization(f) \/ Approve(f) \/ Decline(f) \/ CreateCode(f)
      PROVE  CodeInv'
  <2>1. PICK to \in {"begun", "declined", "approved", "code"} :
          /\ pc' = [pc EXCEPT ![f] = to]
          /\ pc[f] \in {"idle", "begun", "consented"}
          /\ to = "code" => pc[f] = "consented"
    BY <1>3 DEF BeginAuthorization, Approve, Decline, CreateCode, Step
  <2>2. UNCHANGED <<via, grants, exchange, family, access, snapshot, bundles>>
    BY <1>3 DEF BeginAuthorization, Approve, Decline, CreateCode
  <2>3. to = "code" => via[f] \in DOMAIN grants
    BY <1>1, <2>1 DEF CodeInv, Placed
  <2>4. QED
    BY <1>1, <2>1, <2>2, <2>3, FlowGoesOn
<1>4. ASSUME NEW f \in Flow, Consent(f) \/ Reuse(f)
      PROVE  CodeInv'
  <2>1. /\ pc' = [pc EXCEPT ![f] = "consented"]
        /\ pc[f] = "approved"
        /\ UNCHANGED <<exchange, family, access, snapshot, bundles>>
    BY <1>4 DEF Consent, Reuse, Step
  <2>2. /\ \A g \in Flow \ {f} : via'[g] = via[g]
        /\ via'[f] \in DOMAIN grants'
        /\ DOMAIN grants \subseteq DOMAIN grants'
    <3>1. CASE Reuse(f)
      BY <1>1, <3>1 DEF Reuse, Granted, TypeOK
    <3>2. CASE Consent(f)
      <4>1. Grant(owner[f], asked[f]) \in GrantRow
        BY <1>1 DEF Grant, GrantRow, TypeOK
      <4>2. CASE \E g \in ActiveGrants(owner[f]) :
                   /\ grants' = [grants EXCEPT ![g] = Grant(owner[f], asked[f])]
                   /\ via' = [via EXCEPT ![f] = g]
        <5>1. PICK g \in DOMAIN grants :
                /\ grants' = [grants EXCEPT ![g] = Grant(owner[f], asked[f])]
                /\ via' = [via EXCEPT ![f] = g]
          BY <4>2 DEF ActiveGrants
        <5>2. DOMAIN grants' = DOMAIN grants
          BY <5>1
        <5>3. QED
          BY <1>1, <5>1, <5>2 DEF TypeOK
      <4>3. CASE /\ grants' = Append(grants, Grant(owner[f], asked[f]))
                 /\ via' = [via EXCEPT ![f] = Len(grants')]
        <5>1. grants \in Seq(GrantRow)
          BY <1>1 DEF TypeOK, GrantRow
        <5>2. Len(grants') = Len(grants) + 1 /\ DOMAIN grants' = 1..Len(grants')
          BY <4>1, <4>3, <5>1
        <5>3. QED
          BY <1>1, <4>3, <5>1, <5>2 DEF TypeOK
      <4>4. QED
        BY <3>2, <4>2, <4>3 DEF Consent
    <3>3. QED
      BY <1>4, <3>1, <3>2
  <2>3. QED
    BY <1>1, <2>1, <2>2, FlowGoesOn
<1>5. ASSUME NEW f \in Flow, ReplayCode(f)
      PROVE  CodeInv'
  <2>1. DOMAIN grants' = DOMAIN grants
    BY <1>1, <1>5, RowRevoked DEF ReplayCode
  <2>2. QED
    BY <1>1, <1>5, <2>1, CodesUnchanged DEF ReplayCode, codes
<1>6. ASSUME NEW f \in Flow, ReplayRefresh(f)
      PROVE  CodeInv'
  <2>1. DOMAIN grants' = DOMAIN grants
    BY <1>1, <1>6, RowRevoked DEF ReplayRefresh
  <2>2. pc[f] = "used"
    BY <1>1, <1>6 DEF ReplayRefresh, CodeInv, FromCodes, NoFamily
  <2>3. /\ UNCHANGED <<pc, via, exchange, access, snapshot, bundles>>
        /\ \A g \in Flow \ {f} : family'[g] = family[g]
        /\ family'[f] # NoFamily
    <3>1. family'[f].state = "revoked"
      BY <1>1, <1>6 DEF ReplayRefresh, TypeOK, NoFamily
    <3>2. QED
      BY <1>1, <1>6, <3>1 DEF ReplayRefresh, TypeOK, NoFamily
  <2>4. QED
    BY <1>1, <2>1, <2>2, <2>3 DEF CodeInv, Exclusive, Once, FromCodes, Noted, Placed
<1>7. ASSUME NEW f \in Flow, RevokeRead(f)
      PROVE  CodeInv'
  <2>1. family[f] # NoFamily
    BY <1>7 DEF RevokeRead, NoFamily
  <2>2. /\ UNCHANGED <<pc, via, exchange, family, access, bundles, grants>>
        /\ \A g \in Flow \ {f} : snapshot'[g] = snapshot[g]
    BY <1>1, <1>7 DEF RevokeRead, TypeOK
  <2>3. QED
    BY <1>1, <2>1, <2>2 DEF CodeInv, Exclusive, Once, FromCodes, Noted, Placed
<1>8. ASSUME NEW f \in Flow, RevokeWrite(f)
      PROVE  CodeInv'
  <2>1. pc[f] = "used"
    BY <1>1, <1>8 DEF RevokeWrite, CodeInv, FromCodes, Noted
  <2>2. /\ UNCHANGED <<pc, via, exchange, access, bundles, grants>>
        /\ \A g \in Flow \ {f} : family'[g] = family[g] /\ snapshot'[g] = snapshot[g]
        /\ snapshot'[f] = 0
    BY <1>1, <1>8 DEF RevokeWrite, TypeOK
  <2>3. QED
    BY <1>1, <2>1, <2>2 DEF CodeInv, Exclusive, Once, FromCodes, Noted, Placed
<1>9. ASSUME NEW x \in Exchange, NEW f \in Flow, BeginExchange(x, f)
      PROVE  CodeInv'
  <2>1. /\ pc[f] = "code" /\ Unheld(via[f])
        /\ exchange' = [exchange EXCEPT ![x] = [flow |-> f, stamp |-> stamp[owner[f]]]]
        /\ UNCHANGED <<pc, via, grants, family, access, snapshot, bundles>>
    BY <1>9 DEF BeginExchange, FreeCode
  <2>2. Exclusive'
    BY <1>1, <2>1 DEF CodeInv, Exclusive, Unheld, TypeOK, NoExchange
  <2>3. QED
    BY <1>1, <2>1, <2>2 DEF CodeInv, Once, FromCodes, Noted, Placed
<1>10. ASSUME NEW f \in Flow, NEW scopes \in Scopes, Rotate(f, scopes)
       PROVE  CodeInv'
  <2>1. /\ family[f].state = "live"
        /\ pc[f] = "used"
        /\ \A t \in access' : t \in access \/ t.flow = f
        /\ UNCHANGED <<pc, via, grants, exchange, snapshot, bundles>>
    BY <1>1, <1>10 DEF Rotate, Refreshes, Renewable, FamilyLive, CodeInv, FromCodes, NoFamily, Token
  <2>2. \A g \in Flow \ {f} : family'[g] = family[g]
    BY <1>1, <1>10 DEF Rotate, TypeOK
  <2>3. family'[f] # NoFamily
    <3>1. family'[f].state = "live"
      BY <1>1, <1>10, <2>1 DEF Rotate, TypeOK
    <3>2. QED
      BY <3>1 DEF NoFamily
  <2>4. QED
    BY <1>1, <2>1, <2>2, <2>3 DEF CodeInv, Exclusive, Once, FromCodes, Noted, Placed
<1>11. ASSUME NEW x \in Exchange, FinishExchange(x)
       PROVE  CodeInv'
  <2> DEFINE f == exchange[x].flow
  <2>1. f \in Flow /\ pc[f] = "code"
    BY <1>1, <1>11 DEF FinishExchange, CodeInv, Exclusive, TypeOK
  <2>2. /\ pc' = [pc EXCEPT ![f] = "used"]
        /\ exchange' = [exchange EXCEPT ![x] = NoExchange]
        /\ \A g \in Flow \ {f} : family'[g] = family[g]
        /\ family'[f].state = "live"
        /\ \A t \in access' : t \in access \/ t.flow = f
        /\ bundles' = [bundles EXCEPT ![f] = bundles[f] + 1]
        /\ UNCHANGED <<via, snapshot, grants>>
    BY <1>1, <1>11, <2>1 DEF FinishExchange, TypeOK, Token
  <2>3. Exclusive'
    <3>1. \A y \in Exchange : exchange'[y] # NoExchange =>
            /\ y # x /\ exchange'[y] = exchange[y] /\ exchange[y].flow # f
            /\ exchange[y].flow \in Flow
      BY <1>1, <1>11, <2>1, <2>2 DEF FinishExchange, CodeInv, Exclusive, TypeOK
    <3>2. QED
      BY <1>1, <2>1, <2>2, <3>1 DEF CodeInv, Exclusive, TypeOK
  <2>4. Once' /\ FromCodes' /\ Noted' /\ Placed'
    <3> HIDE DEF f
    <3>1. family'[f] # NoFamily
      BY <2>2 DEF NoFamily
    <3>2. Once'
      BY <1>1, <2>1, <2>2 DEF CodeInv, Once, TypeOK
    <3>3. FromCodes' /\ Noted' /\ Placed'
      BY <1>1, <2>1, <2>2, <3>1 DEF CodeInv, FromCodes, Noted, Placed, TypeOK
    <3>4. QED
      BY <3>2, <3>3
  <2>5. QED
    BY <2>3, <2>4 DEF CodeInv
<1>12. ASSUME NEW x \in Exchange, DropExchange(x)
       PROVE  CodeInv'
  <2>1. /\ exchange' = [exchange EXCEPT ![x] = NoExchange]
        /\ UNCHANGED <<pc, via, grants, family, access, snapshot, bundles>>
    BY <1>12 DEF DropExchange
  <2>2. QED
    BY <1>1, <2>1 DEF CodeInv, Exclusive, Once, FromCodes, Noted, Placed, TypeOK
<1>13. CASE SwitchClient
  BY <1>1, <1>13, CodesUnchanged DEF SwitchClient, codes
<1>14. ASSUME NEW g \in DOMAIN grants, RevokeGrant(g)
       PROVE  CodeInv'
  <2>1. DOMAIN grants' = DOMAIN grants
    BY <1>1, <1>14, RowRevoked DEF RevokeGrant
  <2>2. QED
    BY <1>1, <1>14, <2>1, CodesUnchanged DEF RevokeGrant, codes
<1>15. ASSUME NEW t \in access, RevokeAccess(t)
       PROVE  CodeInv'
  <2>1. /\ \A s \in access' : \E r \in access : r.flow = s.flow
        /\ UNCHANGED <<pc, via, grants, exchange, family, snapshot, bundles>>
    BY <1>1, <1>15 DEF RevokeAccess, TypeOK
  <2>2. QED
    BY <1>1, <2>1 DEF CodeInv, Exclusive, Once, FromCodes, Noted, Placed
<1>16. ASSUME NEW u \in User, ChangePassword(u) \/ DisableUser(u) \/ RestoreUser(u)
       PROVE  CodeInv'
  <2>1. UNCHANGED <<codes, grants>>
    BY <1>16 DEF ChangePassword, DisableUser, RestoreUser, Secure, codes
  <2>2. QED
    BY <1>1, <2>1, CodesUnchanged
<1>17. QED
  BY <1>2, <1>3, <1>4, <1>5, <1>6, <1>7, <1>8, <1>9, <1>10, <1>11, <1>12, <1>13, <1>14,
     <1>15, <1>16 DEF Next, TokenRequest, RevokeRequest, Scopes

-----------------------------------------------------------------------------
(* Replays *)

\* The grant of a used code stays the same,
LEMMA UsedStays ==
  ASSUME TypeOK, [Next]_vars, NEW f \in Flow, pc[f] = "used"
  PROVE  pc'[f] = "used" /\ via'[f] = via[f]
<1> USE DEF TypeOK, flows, tokens, others
<1>1. CASE UNCHANGED vars
  BY <1>1 DEF vars
<1>2. ASSUME NEW g \in Flow, BeginAuthorization(g) \/ Approve(g) \/ Decline(g) \/ CreateCode(g)
      PROVE  pc'[f] = "used" /\ via'[f] = via[f]
  BY <1>2 DEF BeginAuthorization, Approve, Decline, CreateCode, Step
<1>3. ASSUME NEW g \in Flow, Consent(g) \/ Reuse(g)
      PROVE  pc'[f] = "used" /\ via'[f] = via[f]
  BY <1>3 DEF Consent, Reuse, Step
<1>4. ASSUME NEW x \in Exchange, FinishExchange(x)
      PROVE  pc'[f] = "used" /\ via'[f] = via[f]
  BY <1>4 DEF FinishExchange
<1>5. ASSUME UNCHANGED flows
      PROVE  pc'[f] = "used" /\ via'[f] = via[f]
  BY <1>5
<1>6. QED
  BY <1>1, <1>2, <1>3, <1>4, <1>5
  DEF Next, TokenRequest, RevokeRequest,
      ReplayCode, ReplayRefresh, RevokeRead, RevokeWrite, BeginExchange, Rotate,
      DropExchange, SwitchClient, RevokeGrant, RevokeAccess, ChangePassword, DisableUser,
      RestoreUser, Secure

\* and a grant that is revoked is not renewed.
LEMMA RevokedStays ==
  ASSUME TypeOK, [Next]_vars, NEW g \in DOMAIN grants, grants[g].state = "revoked"
  PROVE  grants'[g].state = "revoked"
<1> USE DEF flows, tokens, others
<1>1. CASE UNCHANGED grants
  BY <1>1
<1>2. ASSUME NEW h, grants' = Revoked(h)
      PROVE  grants'[g].state = "revoked"
  BY <1>2, RowRevoked
<1>3. ASSUME NEW f \in Flow, Consent(f)
      PROVE  grants'[g].state = "revoked"
  <2>1. grants \in Seq(GrantRow) /\ g \in 1..Len(grants)
    BY DEF TypeOK, GrantRow
  <2>2. CASE \E h \in ActiveGrants(owner[f]) :
               grants' = [grants EXCEPT ![h] = Grant(owner[f], asked[f])]
    BY <2>1, <2>2 DEF ActiveGrants, Granted
  <2>3. CASE grants' = Append(grants, Grant(owner[f], asked[f]))
    <3>1. Grant(owner[f], asked[f]) \in GrantRow
      BY DEF Grant, GrantRow, TypeOK
    <3>2. QED
      BY <2>1, <2>3, <3>1
  <2>4. QED
    BY <1>3, <2>2, <2>3 DEF Consent
<1>4. QED
  BY <1>1, <1>2, <1>3
  DEF Next, TokenRequest, RevokeRequest,
      vars, BeginAuthorization, Approve, Decline, Reuse, CreateCode, ReplayCode,
      ReplayRefresh, RevokeRead, RevokeWrite, BeginExchange, Rotate, FinishExchange,
      DropExchange, SwitchClient, RevokeGrant, RevokeAccess, ChangePassword, DisableUser,
      RestoreUser, Secure

LEMMA DeadStep == GrantInv /\ [Next]_vars => Dead'
<1> SUFFICES ASSUME GrantInv, [Next]_vars, NEW f \in replayed'
             PROVE  f \in Flow /\ pc'[f] = "used" /\ grants'[via'[f]].state = "revoked"
  BY DEF Dead
<1> USE DEF flows, tokens, others
<1>1. CASE f \in replayed
  <2>1. f \in Flow /\ pc[f] = "used" /\ grants[via[f]].state = "revoked"
    BY <1>1 DEF GrantInv, Dead
  <2>2. via[f] \in DOMAIN grants
    BY <2>1 DEF GrantInv, Placed
  <2>3. QED
    BY <2>1, <2>2, UsedStays, RevokedStays DEF GrantInv
<1>2. CASE f \notin replayed
  <2>1. /\ f \in Flow
        /\ ReplayCode(f) \/ ReplayRefresh(f)
    <3>1. CASE UNCHANGED replayed
      BY <1>2, <3>1
    <3>2. ASSUME NEW h \in Flow, ReplayCode(h) \/ ReplayRefresh(h)
          PROVE  /\ f \in Flow
                 /\ ReplayCode(f) \/ ReplayRefresh(f)
      <4>1. replayed' = replayed \cup {h}
        BY <3>2 DEF ReplayCode, ReplayRefresh
      <4>2. f = h
        BY <1>2, <4>1
      <4>3. QED
        BY <3>2, <4>2
    <3>3. QED
      BY <3>1, <3>2
      DEF Next, TokenRequest, RevokeRequest,
          vars, BeginAuthorization, Approve, Decline, Consent, Reuse, CreateCode,
          RevokeRead, RevokeWrite, BeginExchange, Rotate, FinishExchange, DropExchange,
          SwitchClient, RevokeGrant, RevokeAccess, ChangePassword, DisableUser,
          RestoreUser, Secure
  <2>2. pc[f] = "used" /\ grants' = Revoked(via[f])
    BY <2>1 DEF ReplayCode, ReplayRefresh, GrantInv, FromCodes, NoFamily
  <2>3. via[f] \in DOMAIN grants /\ pc'[f] = "used" /\ via'[f] = via[f]
    BY <2>1, <2>2, UsedStays DEF GrantInv, Placed
  <2>4. QED
    BY <2>1, <2>2, <2>3, RowRevoked DEF GrantInv
<1>3. QED
  BY <1>1, <1>2

-----------------------------------------------------------------------------
(* Stamps *)

StampInv == Stamped /\ EndedPast

\* What carries stamps, and who they are of
stamps == <<pc, sees, exchange, family, access, owner, stamp, ended>>

LEMMA StampsUnchanged ==
  ASSUME StampInv, UNCHANGED stamps
  PROVE  StampInv'
BY DEF StampInv, stamps, Stamped, EndedPast, Past, Old

\* A flow goes on without a new stamp.
LEMMA StampsOfFlow ==
  ASSUME TypeOK, StampInv, NEW f \in Flow, NEW to,
         pc' = [pc EXCEPT ![f] = to],
         to \in {"approved", "consented", "code", "used"} => Past(f),
         Past(f) => to \in {"approved", "consented", "code", "used"},
         UNCHANGED <<sees, owner, stamp, ended>>
  PROVE  /\ \A g \in Flow : Past(g)' => Old(g, sees[g])'
         /\ EndedPast'
<1>1. \A g \in Flow : Past(g)' <=> Past(g)
  BY DEF TypeOK, Past
<1>2. ended \subseteq Flow
  BY DEF TypeOK
<1>3. QED
  BY <1>1, <1>2 DEF StampInv, Stamped, EndedPast, Old

LEMMA StampStep == GrantInv /\ [Next]_vars => StampInv'
<1> SUFFICES ASSUME GrantInv, [Next]_vars
             PROVE  StampInv'
  OBVIOUS
<1>1. TypeOK /\ StampInv
  BY DEF GrantInv, StampInv
<1> USE DEF flows, tokens, others, accounts
<1>2. CASE UNCHANGED vars
  BY <1>1, <1>2, StampsUnchanged DEF vars, stamps
<1>3. ASSUME NEW f \in Flow,
             BeginAuthorization(f) \/ Decline(f) \/ Consent(f) \/ Reuse(f) \/ CreateCode(f)
      PROVE  StampInv'
  <2>1. PICK to \in {"begun", "declined", "consented", "code"} :
          /\ pc' = [pc EXCEPT ![f] = to]
          /\ to \in {"consented", "code"} <=> Past(f)
    BY <1>3 DEF BeginAuthorization, Decline, Consent, Reuse, CreateCode, Step, Past
  <2>2. UNCHANGED <<sees, owner, stamp, ended, exchange, family, access>>
    BY <1>3 DEF BeginAuthorization, Decline, Consent, Reuse, CreateCode
  <2>3. /\ \A g \in Flow : Past(g)' => Old(g, sees[g])'
        /\ EndedPast'
    BY <1>1, <2>1, <2>2, StampsOfFlow
  <2>4. QED
    BY <1>1, <2>2, <2>3 DEF StampInv, Stamped, Old
<1>4. ASSUME NEW f \in Flow, Approve(f)
      PROVE  StampInv'
  <2>1. /\ pc[f] = "begun" /\ pc' = [pc EXCEPT ![f] = "approved"]
        /\ sees' = [sees EXCEPT ![f] = stamp[owner[f]]]
        /\ UNCHANGED <<owner, stamp, ended, exchange, family, access>>
    BY <1>4 DEF Approve, Step
  <2>2. f \notin ended
    BY <1>1, <2>1 DEF StampInv, EndedPast, Past
  <2>3. stamp[owner[f]] <= stamp[owner[f]]
    BY <1>1 DEF TypeOK, AccountsOK
  <2>4. \A g \in Flow : Past(g)' => Old(g, sees[g])'
    BY <1>1, <2>1, <2>2, <2>3 DEF TypeOK, StampInv, Stamped, Past, Old
  <2>5. EndedPast'
    BY <1>1, <2>1 DEF TypeOK, StampInv, EndedPast, Past
  <2>6. QED
    BY <1>1, <2>1, <2>4, <2>5 DEF StampInv, Stamped, Old
<1>5. ASSUME NEW f \in Flow, ReplayCode(f) \/ RevokeRead(f)
      PROVE  StampInv'
  BY <1>1, <1>5, StampsUnchanged DEF ReplayCode, RevokeRead, stamps
<1>6. ASSUME NEW f \in Flow, ReplayRefresh(f) \/ RevokeWrite(f)
      PROVE  StampInv'
  <2>1. UNCHANGED <<pc, sees, owner, stamp, ended, exchange, access>>
    BY <1>6 DEF ReplayRefresh, RevokeWrite
  <2>2. family[f] # NoFamily
    BY <1>6 DEF ReplayRefresh, RevokeWrite, GrantInv, Noted, NoFamily
  <2>3. family[f] \in FamilyRow
    BY <1>1, <2>2 DEF TypeOK, FamilyRow
  <2>4. \A g \in Flow : family'[g] # NoFamily =>
          family[g] # NoFamily /\ family'[g].stamp = family[g].stamp
    <3>1. \A g \in Flow \ {f} : family'[g] = family[g]
      BY <1>1, <1>6 DEF ReplayRefresh, RevokeWrite, TypeOK
    <3>2. family'[f].stamp = family[f].stamp
      <4>1. CASE ReplayRefresh(f)
        BY <1>1, <2>3, <4>1 DEF ReplayRefresh, TypeOK, FamilyRow
      <4>2. CASE RevokeWrite(f)
        BY <1>1, <2>3, <4>2 DEF RevokeWrite, TypeOK, FamilyRow
      <4>3. QED
        BY <1>6, <4>1, <4>2
    <3>3. QED
      BY <2>2, <3>1, <3>2
  <2>5. QED
    BY <1>1, <2>1, <2>4 DEF StampInv, Stamped, EndedPast, Past, Old
<1>7. ASSUME NEW x \in Exchange, NEW f \in Flow, BeginExchange(x, f)
      PROVE  StampInv'
  <2>1. /\ pc[f] = "code" /\ stamp[owner[f]] = sees[f]
        /\ exchange' = [exchange EXCEPT ![x] = [flow |-> f, stamp |-> stamp[owner[f]]]]
        /\ UNCHANGED <<pc, sees, owner, stamp, ended, family, access>>
    BY <1>7 DEF BeginExchange, FreeCode, Approved, Holds
  <2>2. Old(f, stamp[owner[f]])
    BY <1>1, <2>1 DEF StampInv, Stamped, Past
  <2>3. \A y \in Exchange : exchange'[y] # NoExchange =>
          Old(exchange'[y].flow, exchange'[y].stamp)
    BY <1>1, <2>1, <2>2 DEF TypeOK, StampInv, Stamped
  <2>4. QED
    BY <1>1, <2>1, <2>3 DEF StampInv, Stamped, EndedPast, Past, Old
<1>8. ASSUME NEW f \in Flow, NEW scopes \in Scopes, Rotate(f, scopes)
      PROVE  StampInv'
  <2>1. /\ family[f].state = "live" /\ stamp[owner[f]] = family[f].stamp
        /\ UNCHANGED <<pc, sees, owner, stamp, ended, exchange>>
    BY <1>8 DEF Rotate, Refreshes, Renewable, FamilyLive, Holds
  <2>2. family[f] # NoFamily /\ family[f] \in FamilyRow
    BY <1>1, <2>1 DEF TypeOK, NoFamily, FamilyRow
  <2>3. Old(f, stamp[owner[f]])
    BY <1>1, <2>1, <2>2 DEF StampInv, Stamped
  <2>4. \A g \in Flow : family'[g] # NoFamily =>
          family[g] # NoFamily /\ family'[g].stamp = family[g].stamp
    <3>1. \A g \in Flow \ {f} : family'[g] = family[g]
      BY <1>1, <1>8 DEF Rotate, TypeOK
    <3>2. family'[f].stamp = family[f].stamp
      BY <1>1, <1>8, <2>2 DEF Rotate, TypeOK, FamilyRow
    <3>3. QED
      BY <2>2, <3>1, <3>2
  <2>5. \A t \in access' : t \in access \/ (t.flow = f /\ t.stamp = stamp[owner[f]])
    <3> DEFINE n == family[f].generation + 1
    <3>1. access' = access \cup {Token(f, n, stamp[owner[f]], scopes)}
      BY <1>8 DEF Rotate
    <3>2. /\ Token(f, n, stamp[owner[f]], scopes).flow = f
          /\ Token(f, n, stamp[owner[f]], scopes).stamp = stamp[owner[f]]
      BY DEF Token
    <3> HIDE DEF n
    <3>3. QED
      BY <3>1, <3>2
  <2>6. QED
    BY <1>1, <2>1, <2>3, <2>4, <2>5 DEF StampInv, Stamped, EndedPast, Past, Old
<1>9. ASSUME NEW x \in Exchange, FinishExchange(x)
      PROVE  StampInv'
  <2> DEFINE f == exchange[x].flow
             s == exchange[x].stamp
  <2>1. f \in Flow /\ pc[f] = "code" /\ Old(f, s)
    BY <1>1, <1>9 DEF FinishExchange, GrantInv, Exclusive, TypeOK, StampInv, Stamped
  <2>2. /\ pc' = [pc EXCEPT ![f] = "used"]
        /\ exchange' = [exchange EXCEPT ![x] = NoExchange]
        /\ \A g \in Flow \ {f} : family'[g] = family[g]
        /\ family'[f].stamp = s
        /\ \A t \in access' : t \in access \/ (t.flow = f /\ t.stamp = s)
        /\ UNCHANGED <<sees, owner, stamp, ended>>
    <3> DEFINE row == [state |-> "live", stamp |-> s, generation |-> 0,
                       scopes |-> asked[f], live |-> TRUE]
    <3>1. /\ pc' = [pc EXCEPT ![f] = "used"]
          /\ exchange' = [exchange EXCEPT ![x] = NoExchange]
          /\ UNCHANGED <<sees, owner, stamp, ended>>
      BY <1>9 DEF FinishExchange
    <3>2. family' = [family EXCEPT ![f] = row]
      BY <1>9 DEF FinishExchange
    <3>3. access' = access \cup {Token(f, 0, s, asked[f])}
      BY <1>9 DEF FinishExchange
    <3>4. row.stamp = s
      OBVIOUS
    <3> HIDE DEF f, s, row
    <3>5. /\ \A g \in Flow \ {f} : family'[g] = family[g]
          /\ family'[f] = row
      BY <1>1, <2>1, <3>2 DEF TypeOK
    <3>6. Token(f, 0, s, asked[f]).flow = f /\ Token(f, 0, s, asked[f]).stamp = s
      BY DEF Token
    <3>7. \A t \in access' : t \in access \/ (t.flow = f /\ t.stamp = s)
      BY <3>3, <3>6
    <3>8. QED
      BY <3>1, <3>4, <3>5, <3>7
  <2> HIDE DEF f, s
  <2>3. /\ \A g \in Flow : Past(g)' => Old(g, sees[g])'
        /\ EndedPast'
    <3>1. Past(f)
      BY <2>1 DEF Past
    <3>2. QED
      BY <1>1, <2>1, <2>2, <3>1, StampsOfFlow
  <2>4. \A y \in Exchange : exchange'[y] # NoExchange =>
          Old(exchange'[y].flow, exchange'[y].stamp)
    BY <1>1, <2>2 DEF TypeOK, StampInv, Stamped
  <2>5. \A g \in Flow : family'[g] # NoFamily => Old(g, family'[g].stamp)
    BY <1>1, <2>1, <2>2 DEF StampInv, Stamped
  <2>6. \A t \in access' : Old(t.flow, t.stamp)
    BY <1>1, <2>1, <2>2 DEF StampInv, Stamped
  <2>7. QED
    BY <2>2, <2>3, <2>4, <2>5, <2>6 DEF StampInv, Stamped, Old
<1>10. ASSUME NEW x \in Exchange, DropExchange(x)
       PROVE  StampInv'
  <2>1. /\ exchange' = [exchange EXCEPT ![x] = NoExchange]
        /\ UNCHANGED <<pc, sees, owner, stamp, ended, family, access>>
    BY <1>10 DEF DropExchange
  <2>2. QED
    BY <1>1, <2>1 DEF TypeOK, StampInv, Stamped, EndedPast, Past, Old
<1>11. ASSUME SwitchClient \/ (\E g \in DOMAIN grants : RevokeGrant(g))
       PROVE  StampInv'
  BY <1>1, <1>11, StampsUnchanged DEF SwitchClient, RevokeGrant, stamps
<1>12. ASSUME NEW t \in access, RevokeAccess(t)
       PROVE  StampInv'
  <2>1. \A r \in access' : \E q \in access : q.flow = r.flow /\ q.stamp = r.stamp
    BY <1>1, <1>12 DEF RevokeAccess, TypeOK
  <2>2. UNCHANGED <<pc, sees, owner, stamp, ended, family, exchange>>
    BY <1>12 DEF RevokeAccess
  <2>3. QED
    BY <1>1, <2>1, <2>2 DEF StampInv, Stamped, EndedPast, Past, Old
<1>13. ASSUME NEW u \in User, RestoreUser(u)
       PROVE  StampInv'
  BY <1>1, <1>13, StampsUnchanged DEF RestoreUser, stamps
<1>14. ASSUME NEW u \in User, ChangePassword(u) \/ DisableUser(u)
       PROVE  StampInv'
  <2>1. /\ stamp' = [stamp EXCEPT ![u] = stamp[u] + 1]
        /\ ended' = ended \cup Earlier(u)
        /\ UNCHANGED <<pc, sees, owner, exchange, family, access>>
    BY <1>14 DEF ChangePassword, DisableUser, Secure, Restamp
  <2>2. \A f \in Flow : f \in Earlier(u) <=> owner[f] = u /\ Past(f)
    BY <1>1 DEF Earlier, Past, TypeOK
  <2>3. \A f \in Flow : \A s \in 0..StampCap : Old(f, s) /\ Past(f) => Old(f, s)'
    <3> SUFFICES ASSUME NEW f \in Flow, NEW s \in 0..StampCap, Old(f, s), Past(f)
                 PROVE  Old(f, s)'
      OBVIOUS
    <3>1. owner[f] \in User /\ stamp[owner[f]] \in Nat /\ stamp \in [User -> 0..StampCap]
      BY <1>1, StampAssumption DEF TypeOK, AccountsOK
    <3>2. CASE owner[f] = u
      BY <2>1, <3>1, <3>2 DEF Old
    <3>3. CASE owner[f] # u
      <4>1. stamp'[owner[f]] = stamp[owner[f]] /\ (f \in ended' => f \in ended)
        BY <2>1, <2>2, <3>1, <3>3
      <4>2. QED
        BY <2>1, <4>1 DEF Old
    <3>4. QED
      BY <3>2, <3>3
  <2>4. \A f \in Flow : Past(f)' <=> Past(f)
    BY <2>1 DEF Past
  <2>5. \A f \in Flow : Past(f) => Old(f, sees[f])'
    <3> SUFFICES ASSUME NEW f \in Flow, Past(f)
                 PROVE  Old(f, sees[f])'
      OBVIOUS
    <3>1. sees[f] \in 0..StampCap /\ Old(f, sees[f])
      BY <1>1 DEF TypeOK, StampInv, Stamped
    <3>2. sees'[f] = sees[f]
      BY <1>14 DEF ChangePassword, DisableUser, Secure
    <3>3. QED
      BY <2>3, <3>1, <3>2
  <2>6. \A x \in Exchange : exchange[x] # NoExchange =>
          Old(exchange[x].flow, exchange[x].stamp)'
    <3> SUFFICES ASSUME NEW x \in Exchange, exchange[x] # NoExchange
                 PROVE  Old(exchange[x].flow, exchange[x].stamp)'
      OBVIOUS
    <3>1. /\ exchange[x].flow \in Flow /\ exchange[x].stamp \in 0..StampCap
          /\ Past(exchange[x].flow) /\ Old(exchange[x].flow, exchange[x].stamp)
      BY <1>1 DEF TypeOK, GrantInv, Exclusive, Past, StampInv, Stamped
    <3>2. exchange'[x] = exchange[x]
      BY <2>1
    <3>3. QED
      BY <2>3, <3>1, <3>2
  <2>7. \A f \in Flow : family[f] # NoFamily => Old(f, family[f].stamp)'
    <3> SUFFICES ASSUME NEW f \in Flow, family[f] # NoFamily
                 PROVE  Old(f, family[f].stamp)'
      OBVIOUS
    <3>1. family[f].stamp \in 0..StampCap /\ Past(f) /\ Old(f, family[f].stamp)
      BY <1>1 DEF TypeOK, GrantInv, FromCodes, Past, StampInv, Stamped
    <3>2. family'[f] = family[f]
      BY <2>1
    <3>3. QED
      BY <2>3, <3>1, <3>2
  <2>8. \A t \in access : Old(t.flow, t.stamp)'
    <3> SUFFICES ASSUME NEW t \in access
                 PROVE  Old(t.flow, t.stamp)'
      OBVIOUS
    <3>1. t.flow \in Flow /\ t.stamp \in 0..StampCap
      BY <1>1 DEF TypeOK
    <3>2. Past(t.flow) /\ Old(t.flow, t.stamp)
      BY <1>1, <3>1 DEF GrantInv, FromCodes, Past, StampInv, Stamped
    <3>3. QED
      BY <2>3, <3>1, <3>2
  <2>9. Stamped'
    BY <2>1, <2>4, <2>5, <2>6, <2>7, <2>8 DEF Stamped
  <2>10. EndedPast'
    BY <1>1, <2>1, <2>2, <2>4 DEF StampInv, EndedPast, TypeOK, Earlier
  <2>11. QED
    BY <2>9, <2>10 DEF StampInv
<1>15. QED
  BY <1>2, <1>3, <1>4, <1>5, <1>6, <1>7, <1>8, <1>9, <1>10, <1>11, <1>12, <1>13, <1>14
  DEF Next, TokenRequest, RevokeRequest, Scopes

-----------------------------------------------------------------------------
(* Theorems *)

LEMMA GrantAlways == Spec => []GrantInv
<1>1. GrantInv /\ [Next]_vars => GrantInv'
  BY TypeStep, CodeStep, DeadStep, StampStep DEF GrantInv, CodeInv, StampInv
<1>2. QED
  BY <1>1, GrantInitial, PTL DEF Spec

\* Every variable keeps its type.
THEOREM TypeCorrect == Spec => []TypeOK
<1>1. GrantInv => TypeOK
  BY DEF GrantInv
<1>2. QED
  BY <1>1, GrantAlways, PTL

\* A code yields tokens once, however many requests present it at the same time:
\* the one that holds it holds its grant as well (CodeExchangedOnce).
THEOREM OneExchange == Spec => []CodeExchangedOnce
<1>1. GrantInv => CodeExchangedOnce
  BY DEF GrantInv, Once, CodeExchangedOnce
<1>2. QED
  BY <1>1, GrantAlways, PTL

\* Nothing that came from a code or a refresh token which was presented again is
\* accepted (ReplayEndsAll): its grant stays revoked, and consents renew others.
THEOREM ReplayIsFatal == Spec => []ReplayEndsAll
<1>1. GrantInv => ReplayEndsAll
  BY DEF GrantInv, Dead, ReplayEndsAll, Usable, Accepted, Renewable, Granted
<1>2. QED
  BY <1>1, GrantAlways, PTL

\* What was approved before the account changed yields nothing afterwards
\* (SecuredFlowsEnd): it carries stamps older than the user's.
THEOREM EarlierFlowsEnd == Spec => []SecuredFlowsEnd
<1>1. GrantInv => SecuredFlowsEnd
  <2> SUFFICES ASSUME GrantInv, NEW f \in ended
               PROVE  ~Usable(f)
    BY DEF SecuredFlowsEnd
  <2>1. f \in Flow /\ owner[f] \in User /\ stamp[owner[f]] \in Nat
    BY StampAssumption DEF GrantInv, TypeOK, AccountsOK
  <2>2. \A t \in access : t.flow = f => ~Accepted(t)
    <3> SUFFICES ASSUME NEW t \in access, t.flow = f
                 PROVE  t.stamp # stamp[owner[f]]
      BY DEF Accepted, Holds
    <3>1. t.stamp < stamp[owner[f]] /\ t.stamp \in 0..StampCap
      BY DEF GrantInv, Stamped, Old, TypeOK
    <3>2. QED
      BY <2>1, <3>1
  <2>3. family[f] # NoFamily => ~Renewable(f)
    <3> SUFFICES ASSUME family[f] # NoFamily
                 PROVE  family[f].stamp # stamp[owner[f]]
      BY DEF Renewable, Holds
    <3>1. family[f].stamp < stamp[owner[f]] /\ family[f].stamp \in 0..StampCap
      BY <2>1 DEF GrantInv, Stamped, Old, TypeOK
    <3>2. QED
      BY <2>1, <3>1
  <2>4. QED
    BY <2>2, <2>3 DEF Usable
<1>2. QED
  BY <1>1, GrantAlways, PTL

\* A revoked family issues nothing more (RevokedFamilyRests): rotation asks for
\* the family again, and a code that made one is used.
THEOREM FamilyRests == Spec => RevokedFamilyRests
<1> DEFINE Rests == \A f \in Flow : family[f].state = "revoked" =>
              /\ family'[f].state = "revoked"
              /\ family'[f].generation = family[f].generation
<1>1. GrantInv /\ [Next]_vars => Rests
  <2> SUFFICES ASSUME GrantInv, [Next]_vars, NEW f \in Flow, family[f].state = "revoked"
               PROVE  /\ family'[f].state = "revoked"
                      /\ family'[f].generation = family[f].generation
    OBVIOUS
  <2>1. family[f] \in FamilyRow /\ pc[f] = "used"
    BY DEF GrantInv, TypeOK, FamilyRow, NoFamily, FromCodes
  <2> USE DEF tokens
  <2>2. CASE UNCHANGED family
    BY <2>2
  <2>3. ASSUME NEW g \in Flow, ReplayRefresh(g)
        PROVE  family'[f] = family[f]
    BY <2>3 DEF ReplayRefresh, GrantInv, TypeOK
  <2>4. ASSUME NEW g \in Flow, NEW scopes, Rotate(g, scopes)
        PROVE  family'[f] = family[f]
    BY <2>4 DEF Rotate, Refreshes, Renewable, FamilyLive, GrantInv, TypeOK
  <2>5. ASSUME NEW x \in Exchange, FinishExchange(x)
        PROVE  family'[f] = family[f]
    <3>1. exchange[x].flow # f
      BY <2>1, <2>5 DEF FinishExchange, GrantInv, Exclusive
    <3>2. QED
      BY <2>5, <3>1 DEF FinishExchange, GrantInv, TypeOK
  <2>6. ASSUME NEW g \in Flow, RevokeWrite(g)
        PROVE  /\ family'[f].state = "revoked"
               /\ family'[f].generation = family[f].generation
    <3>1. CASE f # g
      BY <2>6, <3>1 DEF RevokeWrite, GrantInv, TypeOK
    <3>2. CASE f = g
      BY <2>1, <2>6, <3>2 DEF RevokeWrite, GrantInv, TypeOK, FamilyRow
    <3>3. QED
      BY <3>1, <3>2
  <2>7. QED
    BY <2>2, <2>3, <2>4, <2>5, <2>6
    DEF Next, TokenRequest, RevokeRequest,
        vars, BeginAuthorization, Approve, Decline, Consent, Reuse, CreateCode,
        ReplayCode, RevokeRead, BeginExchange, DropExchange, SwitchClient, RevokeGrant,
        RevokeAccess, ChangePassword, DisableUser, RestoreUser, Secure
<1>2. QED
  BY <1>1, GrantAlways, PTL DEF Spec, RevokedFamilyRests
=============================================================================
