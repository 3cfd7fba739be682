------------------------------ MODULE KbProofs ------------------------------
(***************************************************************************)
(* Proofs about knowledge bases.                                           *)
(*                                                                         *)
(* KbMembership, for any number of users, links and requests: types, one   *)
(* owner, joining by valid links only, and that nothing is lost.  What a   *)
(* request read before it acts may be stale.  The invariant says what      *)
(* still holds of it: who leaves is not the owner, and whoever is about to *)
(* join holds a link that is not revoked of an active knowledge base.      *)
(*                                                                         *)
(* FolderTree, for any number of folders and transactions: the folders     *)
(* stay a tree and the closure table stays its closure.                    *)
(***************************************************************************)
EXTENDS KbMembership, FolderTree, WellFoundedInduction, FiniteSetTheorems, TLAPS
\* What a request half way can still rely on.
Standing ==
  \A t \in Tx :
    /\ tx[t].on \in Objects(tx[t].kind) \/ tx[t].kind = "join"
    /\ tx[t].kind = "leave" => tx[t].by # Founder
    /\ tx[t].kind = "join" => /\ tx[t].on \in Link
                              /\ kb = "active"
                              /\ link[tx[t].on].state \in {"open", "expired"}

\* A deleted knowledge base has no members.
Emptied == kb = "deleted" => \A u \in User : role[u] = "none"

KbInv ==
  TypeOK /\ Standing /\ Emptied /\ OneOwner /\ NothingLost /\ ChatsHaveMembers

\* One step of JoinedByLink.
ByLink ==
  \A u \in User : role[u] = "none" /\ role'[u] # "none" =>
    /\ kb = "active"
    /\ \E l \in Link : /\ link[l].state \in {"open", "expired"}
                       /\ link[l].role = role'[u]

LEMMA KbInitial == Init => KbInv
<1> SUFFICES ASSUME Init
             PROVE  KbInv
  OBVIOUS
<1> USE FounderAssumption DEF Init
<1>1. TypeOK
  BY DEF TypeOK, NoLink, Idle, Request, Nothing
<1>2. Standing
  BY DEF Standing, Idle, Objects
<1>3. Emptied /\ OneOwner /\ NothingLost /\ ChatsHaveMembers
  BY DEF Emptied, OneOwner, NothingLost, ChatsHaveMembers
<1>4. QED
  BY <1>1, <1>2, <1>3 DEF KbInv

\* Every step keeps the types: a request is dropped, begun, or turned from
\* accepting into joining.
LEMMA TypeStep == KbInv /\ [Next]_vars => TypeOK'
<1> SUFFICES ASSUME KbInv, [Next]_vars
             PROVE  TypeOK'
  OBVIOUS
<1> USE FounderAssumption DEF KbInv, TypeOK, data
<1>1. CASE UNCHANGED vars
  BY <1>1 DEF vars
<1>2. ASSUME NEW t \in Tx, Begin(t)
      PROVE  TypeOK'
  <2>1. PICK u \in User, kind \in Kind :
          \E x \in Objects(kind) :
            tx' = [tx EXCEPT ![t] = [kind |-> kind, by |-> u, on |-> x]]
    BY <1>2 DEF Begin
  <2>2. PICK x \in Objects(kind) :
          tx' = [tx EXCEPT ![t] = [kind |-> kind, by |-> u, on |-> x]]
    BY <2>1
  <2>3. x \in User \cup Link \cup {Nothing}
    BY <2>2 DEF Objects
  <2>4. [kind |-> kind, by |-> u, on |-> x] \in Request
    BY <2>3 DEF Request
  <2>5. QED
    BY <1>2, <2>2, <2>4 DEF Begin
<1>3. Idle \in Request
  BY DEF Idle, Request
<1>4. ASSUME NEW t \in Tx, End(t)
      PROVE  tx' \in [Tx -> Request]
  BY <1>3, <1>4 DEF End
<1>5. ASSUME NEW t \in Tx,
             Refuse(t) \/ LeaveKb(t) \/ Remove(t) \/ Archive(t) \/ Restore(t)
               \/ Write(t) \/ Clear(t) \/ Ask(t) \/ Forget(t)
      PROVE  TypeOK'
  <2>1. tx' \in [Tx -> Request] /\ tx[t].by \in User
    BY <1>4, <1>5 DEF Refuse, LeaveKb, Remove, Archive, Restore, Write,
                      Clear, Ask, Forget, Drop, Request
  <2>2. QED
    BY <1>5, <2>1 DEF Refuse, LeaveKb, Remove, Archive, Restore, Write,
                      Clear, Ask, Forget, Drop
<1>6. ASSUME NEW t \in Tx, ChangeRole(t)
      PROVE  TypeOK'
  BY <1>4, <1>6 DEF ChangeRole, ShareRole
<1>7. ASSUME NEW t \in Tx, CreateLink(t)
      PROVE  TypeOK'
  <2>1. tx[t].on \in Link
    BY <1>7 DEF CreateLink, Standing, Objects
  <2>2. tx' \in [Tx -> Request] /\ UNCHANGED <<kb, account, role, data>>
    BY <1>4, <1>7 DEF CreateLink
  <2>3. PICK r \in ShareRole :
          link' = [link EXCEPT ![tx[t].on] = [state |-> "open", role |-> r]]
    BY <1>7 DEF CreateLink
  <2>4. link' \in [Link -> [state : {"none", "open", "expired", "revoked"},
                            role : {"editor", "viewer"}]]
    BY <2>1, <2>3 DEF ShareRole
  <2>5. QED
    BY <2>2, <2>4
<1>8. ASSUME NEW t \in Tx, Revoke(t)
      PROVE  TypeOK'
  BY <1>4, <1>8 DEF Revoke
<1>9. ASSUME NEW t \in Tx, Match(t)
      PROVE  TypeOK'
  <2>1. [tx[t] EXCEPT !.kind = "join"] \in Request
    BY DEF Request
  <2>2. QED
    BY <1>9, <2>1 DEF Match
<1>10. ASSUME NEW t \in Tx, Join(t)
       PROVE  TypeOK'
  <2>1. link[tx[t].on].role \in {"editor", "viewer"}
    BY <1>10 DEF Join, Standing
  <2>2. QED
    BY <1>4, <1>10, <2>1 DEF Join
<1>11. ASSUME NEW t \in Tx, Delete(t)
       PROVE  TypeOK'
  BY <1>4, <1>11 DEF Delete, NoLink
<1>12. ASSUME NEW l \in Link, Expire(l)
       PROVE  TypeOK'
  BY <1>12 DEF Expire
<1>13. ASSUME NEW u \in User, Switch(u)
       PROVE  TypeOK'
  BY <1>13 DEF Switch
<1>14. CASE Index
  BY <1>14 DEF Index
<1>15. QED
  BY <1>1, <1>2, <1>5, <1>6, <1>7, <1>8, <1>9, <1>10, <1>11, <1>12, <1>13,
     <1>14 DEF Next, Step

\* Requests that are dropped or not touched keep what they rely on, as long as
\* neither the knowledge base nor a matched link changes.
LEMMA StandingKept ==
  ASSUME KbInv, NEW t \in Tx, End(t) \/ UNCHANGED tx,
         (kb' = kb /\ link' = link) \/ LinksFree
  PROVE  Standing'
<1> USE DEF KbInv, TypeOK
<1> SUFFICES ASSUME NEW s \in Tx
             PROVE  /\ tx'[s].on \in Objects(tx'[s].kind) \/ tx'[s].kind = "join"
                    /\ tx'[s].kind = "leave" => tx'[s].by # Founder
                    /\ tx'[s].kind = "join" =>
                         /\ tx'[s].on \in Link
                         /\ kb' = "active"
                         /\ link'[tx'[s].on].state \in {"open", "expired"}
  BY DEF Standing, Objects
<1>1. CASE tx'[s] = tx[s]
  BY <1>1 DEF Standing, LinksFree
<1>2. CASE tx'[s] = Idle
  BY <1>2 DEF Idle, Objects
<1>3. QED
  BY <1>1, <1>2 DEF End

LEMMA StandingStep == KbInv /\ [Next]_vars => Standing'
<1> SUFFICES ASSUME KbInv, [Next]_vars
             PROVE  Standing'
  OBVIOUS
<1>1. CASE UNCHANGED vars
  BY <1>1 DEF vars, KbInv, Standing, Objects
<1>2. ASSUME NEW t \in Tx, Begin(t)
      PROVE  Standing'
  <2>1. PICK u \in User, kind \in Kind :
          /\ Authorized(u, kind)
          /\ \E x \in Objects(kind) :
               tx' = [tx EXCEPT ![t] = [kind |-> kind, by |-> u, on |-> x]]
    BY <1>2 DEF Begin
  <2>2. PICK x \in Objects(kind) :
          tx' = [tx EXCEPT ![t] = [kind |-> kind, by |-> u, on |-> x]]
    BY <2>1
  <2>3. kb' = kb /\ link' = link
    BY <1>2 DEF Begin
  <2>4. kind = "leave" => u # Founder
    BY <2>1 DEF Authorized, KbInv, OneOwner
  <2>5. kind # "join"
    BY DEF Kind
  <2> SUFFICES ASSUME NEW s \in Tx
               PROVE  /\ tx'[s].on \in Objects(tx'[s].kind) \/ tx'[s].kind = "join"
                      /\ tx'[s].kind = "leave" => tx'[s].by # Founder
                      /\ tx'[s].kind = "join" =>
                           /\ tx'[s].on \in Link
                           /\ kb' = "active"
                           /\ link'[tx'[s].on].state \in {"open", "expired"}
    BY DEF Standing, Objects
  <2>6. CASE s = t
    BY <2>2, <2>4, <2>5, <2>6 DEF KbInv, TypeOK
  <2>7. CASE s # t
    BY <2>2, <2>3, <2>7 DEF KbInv, TypeOK, Standing
  <2>8. QED
    BY <2>6, <2>7
<1>3. ASSUME NEW t \in Tx,
             Refuse(t) \/ ChangeRole(t) \/ Remove(t) \/ LeaveKb(t) \/ Join(t)
               \/ CreateLink(t) \/ Revoke(t) \/ Archive(t) \/ Restore(t)
               \/ Delete(t) \/ Write(t) \/ Clear(t) \/ Ask(t) \/ Forget(t)
      PROVE  Standing'
  <2>1. End(t)
    BY <1>3 DEF Refuse, ChangeRole, Remove, LeaveKb, Join, CreateLink, Revoke,
                Archive, Restore, Delete, Write, Clear, Ask, Forget, Drop
  <2>2. (kb' = kb /\ link' = link) \/ LinksFree
    BY <1>3 DEF Refuse, ChangeRole, Remove, LeaveKb, Join, CreateLink, Revoke,
                Archive, Restore, Delete, Write, Clear, Ask, Forget, Drop
  <2>3. QED
    BY <2>1, <2>2, StandingKept
<1>4. ASSUME NEW t \in Tx, Match(t)
      PROVE  Standing'
  <2>1. /\ tx' = [tx EXCEPT ![t].kind = "join"]
        /\ kb' = kb /\ link' = link
        /\ kb = "active" /\ link[tx[t].on].state = "open"
        /\ tx[t].on \in Link
    BY <1>4 DEF Match, Admits, KbInv, Standing, Objects
  <2> SUFFICES ASSUME NEW s \in Tx
               PROVE  /\ tx'[s].on \in Objects(tx'[s].kind) \/ tx'[s].kind = "join"
                      /\ tx'[s].kind = "leave" => tx'[s].by # Founder
                      /\ tx'[s].kind = "join" =>
                           /\ tx'[s].on \in Link
                           /\ kb' = "active"
                           /\ link'[tx'[s].on].state \in {"open", "expired"}
    BY DEF Standing, Objects
  <2>2. CASE s = t
    <3>1. tx'[s].kind = "join" /\ tx'[s].on = tx[t].on
      BY <2>1, <2>2 DEF KbInv, TypeOK, Request
    <3>2. QED
      BY <2>1, <3>1
  <2>3. CASE s # t
    BY <2>1, <2>3 DEF KbInv, TypeOK, Standing
  <2>4. QED
    BY <2>2, <2>3
<1>5. ASSUME NEW l \in Link, Expire(l)
      PROVE  Standing'
  <2>1. /\ tx' = tx /\ kb' = kb
        /\ link' = [link EXCEPT ![l].state = "expired"]
    BY <1>5 DEF Expire
  <2>2. \A k \in Link : link[k].state \in {"open", "expired"} =>
          link'[k].state \in {"open", "expired"}
    BY <2>1 DEF KbInv, TypeOK
  <2>3. QED
    BY <2>1, <2>2 DEF KbInv, Standing, Objects
<1>6. ASSUME NEW u \in User, Switch(u)
      PROVE  Standing'
  BY <1>6 DEF Switch, KbInv, Standing, Objects
<1>7. CASE Index
  BY <1>7 DEF Index, KbInv, Standing, Objects
<1>8. QED
  BY <1>1, <1>2, <1>3, <1>4, <1>5, <1>6, <1>7 DEF Next, Step

\* What every step keeps of the memberships, and how it may add to them.
Members == Emptied /\ OneOwner /\ NothingLost /\ ChatsHaveMembers

LEMMA MembersStep == KbInv /\ [Next]_vars => Members' /\ ByLink
<1> SUFFICES ASSUME KbInv, [Next]_vars
             PROVE  Members' /\ ByLink
  OBVIOUS
<1> USE FounderAssumption
    DEF KbInv, TypeOK, Members, Emptied, OneOwner, NothingLost,
        ChatsHaveMembers, ByLink, data
<1>1. CASE UNCHANGED vars
  BY <1>1 DEF vars
<1>2. ASSUME NEW t \in Tx,
             Begin(t) \/ Refuse(t) \/ CreateLink(t) \/ Revoke(t) \/ Match(t)
      PROVE  Members' /\ ByLink
  BY <1>2 DEF Begin, Refuse, CreateLink, Revoke, Match
<1>3. ASSUME NEW t \in Tx, Archive(t) \/ Restore(t)
      PROVE  Members' /\ ByLink
  BY <1>3 DEF Archive, Restore
<1>4. ASSUME NEW t \in Tx, ChangeRole(t)
      PROVE  Members' /\ ByLink
  <2>1. PICK r \in ShareRole : role' = [role EXCEPT ![tx[t].on] = r]
    BY <1>4 DEF ChangeRole
  <2>2. role[tx[t].on] \notin {"none", "owner"} /\ UNCHANGED <<kb, link, data>>
    BY <1>4 DEF ChangeRole, Manageable
  <2>3. QED
    BY <2>1, <2>2 DEF ShareRole
<1>5. ASSUME NEW t \in Tx, Remove(t) \/ LeaveKb(t)
      PROVE  Members' /\ ByLink
  <2>1. PICK u : /\ u \notin chats
                 /\ u # Founder \/ kb = "deleted"
                 /\ role' = [role EXCEPT ![u] = "none"]
                 /\ UNCHANGED <<kb, link, data>>
    BY <1>5 DEF Remove, LeaveKb, Drop, Manageable, Referenced, Standing
  <2>2. QED
    BY <2>1
<1>6. ASSUME NEW t \in Tx, Join(t)
      PROVE  Members' /\ ByLink
  <2>1. /\ tx[t].on \in Link /\ kb = "active"
        /\ link[tx[t].on].state \in {"open", "expired"}
        /\ link[tx[t].on].role \in {"editor", "viewer"}
    BY <1>6 DEF Join, Standing
  <2>2. /\ UNCHANGED <<kb, link, data>>
        /\ role' = [role EXCEPT ![tx[t].by] =
                      IF @ = "none" THEN link[tx[t].on].role ELSE @]
    BY <1>6 DEF Join
  <2>3. QED
    BY <2>1, <2>2
<1>7. ASSUME NEW t \in Tx, Delete(t)
      PROVE  Members' /\ ByLink
  BY <1>7 DEF Delete, Deletable, Referenced
<1>8. ASSUME NEW t \in Tx,
             Write(t) \/ Clear(t) \/ Ask(t) \/ Forget(t)
      PROVE  Members' /\ ByLink
  <2>1. CASE Write(t) \/ Clear(t) \/ Forget(t)
    BY <2>1 DEF Write, Clear, Forget
  <2>2. CASE Ask(t)
    <3>1. tx[t].by \in User
      BY DEF Request
    <3>2. /\ role[tx[t].by] # "none" /\ chats' = chats \cup {tx[t].by}
          /\ UNCHANGED <<kb, role, link, content, indexed>>
      BY <2>2 DEF Ask
    <3>3. kb # "deleted"
      BY <3>1, <3>2
    <3>4. QED
      BY <3>2, <3>3
  <2>3. QED
    BY <1>8, <2>1, <2>2
<1>9. ASSUME NEW l \in Link, Expire(l)
      PROVE  Members' /\ ByLink
  BY <1>9 DEF Expire
<1>10. ASSUME NEW u \in User, Switch(u)
       PROVE  Members' /\ ByLink
  BY <1>10 DEF Switch
<1>11. CASE Index
  BY <1>11 DEF Index
<1>12. QED
  BY <1>1, <1>2, <1>3, <1>4, <1>5, <1>6, <1>7, <1>8, <1>9, <1>10, <1>11
     DEF Next, Step

LEMMA KbStep == KbInv /\ [Next]_vars => KbInv'
BY TypeStep, StandingStep, MembersStep DEF KbInv, Members

LEMMA KbInvariant == Spec => []KbInv
BY KbInitial, KbStep, PTL DEF Spec

-----------------------------------------------------------------------------
\* Every variable keeps its type.
THEOREM TypeCorrect == Spec => []TypeOK
<1>1. KbInv => TypeOK
  BY DEF KbInv
<1>2. QED
  BY <1>1, KbInvariant, PTL

\* While it exists, a knowledge base is owned by its founder, and by nobody
\* else, whatever requests overlap.
THEOREM OwnerKept == Spec => []OneOwner
<1>1. KbInv => OneOwner
  BY DEF KbInv
<1>2. QED
  BY <1>1, KbInvariant, PTL

\* Deletion takes no content, index or conversation with it.
THEOREM NothingIsLost == Spec => []NothingLost
<1>1. KbInv => NothingLost
  BY DEF KbInv
<1>2. QED
  BY <1>1, KbInvariant, PTL

\* Whoever has conversations is a member.
THEOREM ChattersAreMembers == Spec => []ChatsHaveMembers
<1>1. KbInv => ChatsHaveMembers
  BY DEF KbInv
<1>2. QED
  BY <1>1, KbInvariant, PTL

\* Nobody joins but by a link that was not revoked, of an active knowledge
\* base, and with the role the link confers.
THEOREM JoinedByLinkOnly == Spec => JoinedByLink
<1>1. KbInv /\ [Next]_vars => [ByLink]_vars
  BY MembersStep
<1>2. QED
  BY <1>1, KbInvariant, PTL DEF Spec, JoinedByLink, ByLink

-----------------------------------------------------------------------------
(***************************************************************************)
(* Folders.  A transaction reads the closure table in one statement and    *)
(* writes it in a later one, with others committing in between.  What      *)
(* keeps it right are the locks: a move that would put a folder above or   *)
(* below one that somebody else has locked has to insert a new closure row *)
(* with that folder, and waits.  So the ancestors of a locked folder never *)
(* change, its descendants only leave, and the rows of those that leave    *)
(* are the ones a waiting DELETE skips: what a transaction has found is at *)
(* any time what it would find now.  The commit of a move is then a graft  *)
(* of one subtree in a tree.                                               *)
(***************************************************************************)

\* The closure R of a tree over the folders L with parents P: an order in which
\* the ancestors of a folder are a chain that begins at the root, and those of
\* a folder are those of its parent and itself.
IsTree(L, R, P) ==
  /\ Root \in L /\ R \subseteq L \X L
  /\ \A x \in L : <<x, x>> \in R /\ <<Root, x>> \in R
  /\ \A x, y, z \in L : <<x, y>> \in R /\ <<y, z>> \in R => <<x, z>> \in R
  /\ \A x, y \in L : <<x, y>> \in R /\ <<y, x>> \in R => x = y
  /\ \A x, y, z \in L :
       <<x, z>> \in R /\ <<y, z>> \in R => <<x, y>> \in R \/ <<y, x>> \in R
  /\ \A x \in L \ {Root} :
       /\ P[x] \in L /\ P[x] # x
       /\ \A y \in L : <<y, x>> \in R <=> y = x \/ <<y, P[x]>> \in R

\* The folder f is moved below d: what is below f loses the ancestors of f and
\* gains those of d.
LEMMA Grafted ==
  ASSUME NEW L, NEW R, NEW P \in [Folder -> Folder], L \subseteq Folder, IsTree(L, R, P),
         NEW f \in L \ {Root}, NEW d \in L, <<f, d>> \notin R,
         NEW Q \in SUBSET (L \X L),
         \A x, y \in L : <<x, y>> \in Q <=>
           IF <<f, y>> \in R THEN (<<x, y>> \in R /\ <<f, x>> \in R) \/ <<x, d>> \in R
                             ELSE <<x, y>> \in R
  PROVE  IsTree(L, Q, [P EXCEPT ![f] = d])
<1> DEFINE B == {x \in L : <<f, x>> \in R}
<1>1. /\ Root \in L
      /\ \A x \in L : <<x, x>> \in R /\ <<Root, x>> \in R
      /\ \A x, y, z \in L : <<x, y>> \in R /\ <<y, z>> \in R => <<x, z>> \in R
      /\ \A x, y \in L : <<x, y>> \in R /\ <<y, x>> \in R => x = y
      /\ \A x, y, z \in L :
           <<x, z>> \in R /\ <<y, z>> \in R => <<x, y>> \in R \/ <<y, x>> \in R
  BY DEF IsTree
<1>2. \A x \in L \ {Root} :
        /\ P[x] \in L /\ P[x] # x
        /\ \A y \in L : <<y, x>> \in R <=> y = x \/ <<y, P[x]>> \in R
  BY DEF IsTree
<1>3. Root \notin B /\ f \in B /\ d \notin B
  BY <1>1
<1>4. \A x, y \in L : x \in B /\ <<x, y>> \in R => y \in B
  BY <1>1
<1>5. \A x, y \in L : <<x, y>> \in Q <=>
        \/ y \notin B /\ <<x, y>> \in R
        \/ y \in B /\ x \in B /\ <<x, y>> \in R
        \/ y \in B /\ <<x, d>> \in R
  OBVIOUS
<1>6. \A x \in L : <<x, d>> \in R => x \notin B
  BY <1>3, <1>4
<1>7. \A x \in B : x \in L
  OBVIOUS
<1> HIDE DEF B
<1>8. \A x \in L : <<x, x>> \in Q /\ <<Root, x>> \in Q
  BY <1>1, <1>5
<1>9. ASSUME NEW x \in L, NEW y \in L, NEW z \in L, <<x, y>> \in Q, <<y, z>> \in Q
      PROVE  <<x, z>> \in Q
  <2>1. CASE z \notin B
    BY <1>1, <1>4, <1>5, <1>9, <2>1
  <2>2. CASE z \in B /\ y \in B
    BY <1>1, <1>4, <1>5, <1>6, <1>9, <2>2
  <2>3. CASE z \in B /\ y \notin B
    BY <1>1, <1>4, <1>5, <1>6, <1>9, <2>3
  <2>4. QED
    BY <2>1, <2>2, <2>3
<1>10. ASSUME NEW x \in L, NEW y \in L, <<x, y>> \in Q, <<y, x>> \in Q
       PROVE  x = y
  BY <1>1, <1>4, <1>5, <1>6, <1>10
<1>11. ASSUME NEW x \in L, NEW y \in L, NEW z \in L, <<x, z>> \in Q, <<y, z>> \in Q
       PROVE  <<x, y>> \in Q \/ <<y, x>> \in Q
  BY ZenonT(60), <1>1, <1>3, <1>4, <1>5, <1>6, <1>11
<1>12. ASSUME NEW x \in L \ {Root}
       PROVE  LET p == [P EXCEPT ![f] = d][x]
              IN  /\ p \in L /\ p # x
                  /\ \A y \in L : <<y, x>> \in Q <=> y = x \/ <<y, p>> \in Q
  <2>1. CASE x = f
    <3>1. [P EXCEPT ![f] = d][x] = d /\ d # x
      BY <1>3, <2>1
    <3>2. \A y \in L : y \in B /\ <<y, f>> \in R => y = f
      BY <1>1 DEF B
    <3>3. \A y \in L : <<y, x>> \in Q <=> y = x \/ <<y, d>> \in Q
      BY <1>1, <1>3, <1>5, <2>1, <3>2
    <3>4. QED
      BY <3>1, <3>3
  <2>2. CASE x # f
    <3>1. [P EXCEPT ![f] = d][x] = P[x] /\ P[x] \in L /\ P[x] # x
      BY <1>2, <2>2
    <3>2. <<P[x], x>> \in R
      BY <1>1, <1>2
    <3>3. x \in B <=> P[x] \in B
      BY <1>2, <2>2, <3>1 DEF B
    <3>4. \A y \in L : <<y, x>> \in R <=> y = x \/ <<y, P[x]>> \in R
      BY <1>2
    <3>5. \A y \in L : <<y, x>> \in Q <=> y = x \/ <<y, P[x]>> \in Q
      BY <1>1, <1>5, <3>1, <3>3, <3>4
    <3>6. QED
      BY <3>1, <3>5
  <2>3. QED
    BY <2>1, <2>2
<1>13. QED
  BY <1>1, <1>8, <1>9, <1>10, <1>11, <1>12 DEF IsTree

\* A new folder f is put below d.
LEMMA Grown ==
  ASSUME NEW L, NEW R, NEW P \in [Folder -> Folder], L \subseteq Folder, IsTree(L, R, P),
         NEW f \in Folder \ L, NEW d \in L,
         NEW Q \in SUBSET ((L \cup {f}) \X (L \cup {f})),
         \A x, y \in L \cup {f} : <<x, y>> \in Q <=>
           IF y = f THEN x = f \/ <<x, d>> \in R ELSE <<x, y>> \in R
  PROVE  IsTree(L \cup {f}, Q, [P EXCEPT ![f] = d])
<1>1. /\ Root \in L /\ R \subseteq L \X L
      /\ \A x \in L : <<x, x>> \in R /\ <<Root, x>> \in R
      /\ \A x, y, z \in L : <<x, y>> \in R /\ <<y, z>> \in R => <<x, z>> \in R
      /\ \A x, y \in L : <<x, y>> \in R /\ <<y, x>> \in R => x = y
      /\ \A x, y, z \in L :
           <<x, z>> \in R /\ <<y, z>> \in R => <<x, y>> \in R \/ <<y, x>> \in R
  BY DEF IsTree
<1>2. \A x \in L \ {Root} :
        /\ P[x] \in L /\ P[x] # x
        /\ \A y \in L : <<y, x>> \in R <=> y = x \/ <<y, P[x]>> \in R
  BY DEF IsTree
<1>3. \A x, y : <<x, y>> \in R => x \in L /\ y \in L
  BY <1>1
<1>4. \A x \in L \cup {f} : <<x, x>> \in Q /\ <<Root, x>> \in Q
  BY <1>1
<1>5. ASSUME NEW x \in L \cup {f}, NEW y \in L \cup {f}, NEW z \in L \cup {f},
             <<x, y>> \in Q, <<y, z>> \in Q
      PROVE  <<x, z>> \in Q
  BY <1>1, <1>3, <1>5
<1>6. ASSUME NEW x \in L \cup {f}, NEW y \in L \cup {f}, <<x, y>> \in Q, <<y, x>> \in Q
      PROVE  x = y
  BY <1>1, <1>3, <1>6
<1>7. ASSUME NEW x \in L \cup {f}, NEW y \in L \cup {f}, NEW z \in L \cup {f},
             <<x, z>> \in Q, <<y, z>> \in Q
      PROVE  <<x, y>> \in Q \/ <<y, x>> \in Q
  BY <1>1, <1>3, <1>7
<1>8. ASSUME NEW x \in (L \cup {f}) \ {Root}
      PROVE  LET p == [P EXCEPT ![f] = d][x]
             IN  /\ p \in L \cup {f} /\ p # x
                 /\ \A y \in L \cup {f} : <<y, x>> \in Q <=> y = x \/ <<y, p>> \in Q
  <2>1. CASE x = f
    <3>1. [P EXCEPT ![f] = d][x] = d /\ d # x
      BY <2>1
    <3>2. \A y \in L \cup {f} : <<y, x>> \in Q <=> y = x \/ <<y, d>> \in Q
      BY <1>3, <2>1
    <3>3. QED
      BY <3>1, <3>2
  <2>2. CASE x # f
    <3>1. x \in L \ {Root} /\ [P EXCEPT ![f] = d][x] = P[x] /\ P[x] \in L /\ P[x] # x
      BY <1>2, <2>2
    <3>2. \A y \in L : <<y, x>> \in R <=> y = x \/ <<y, P[x]>> \in R
      BY <1>2, <3>1
    <3>3. \A y \in L \cup {f} : <<y, x>> \in Q <=> y = x \/ <<y, P[x]>> \in Q
      BY <1>3, <2>2, <3>1, <3>2
    <3>4. QED
      BY <3>1, <3>3
  <2>3. QED
    BY <2>1, <2>2
<1>9. QED
  BY <1>1, <1>4, <1>5, <1>6, <1>7, <1>8 DEF IsTree

\* A folder f without descendants is taken away.
LEMMA Pruned ==
  ASSUME NEW L, NEW R, NEW P \in [Folder -> Folder], L \subseteq Folder, IsTree(L, R, P),
         NEW f \in L \ {Root}, \A x \in L : <<f, x>> \in R => x = f,
         NEW Q \in SUBSET ((L \ {f}) \X (L \ {f})),
         \A x, y \in L \ {f} : <<x, y>> \in Q <=> <<x, y>> \in R
  PROVE  IsTree(L \ {f}, Q, [P EXCEPT ![f] = Root])
<1>1. /\ Root \in L \ {f}
      /\ \A x \in L : <<x, x>> \in R /\ <<Root, x>> \in R
      /\ \A x, y, z \in L : <<x, y>> \in R /\ <<y, z>> \in R => <<x, z>> \in R
      /\ \A x, y \in L : <<x, y>> \in R /\ <<y, x>> \in R => x = y
      /\ \A x, y, z \in L :
           <<x, z>> \in R /\ <<y, z>> \in R => <<x, y>> \in R \/ <<y, x>> \in R
  BY DEF IsTree
<1>2. \A x \in L \ {Root} :
        /\ P[x] \in L /\ P[x] # x
        /\ \A y \in L : <<y, x>> \in R <=> y = x \/ <<y, P[x]>> \in R
  BY DEF IsTree
<1>3. ASSUME NEW x \in (L \ {f}) \ {Root}
      PROVE  LET p == [P EXCEPT ![f] = Root][x]
             IN  /\ p \in L \ {f} /\ p # x
                 /\ \A y \in L \ {f} : <<y, x>> \in Q <=> y = x \/ <<y, p>> \in Q
  <2>1. [P EXCEPT ![f] = Root][x] = P[x] /\ P[x] \in L /\ P[x] # x
    BY <1>2
  <2>2. P[x] # f
    BY <1>1, <1>2
  <2>3. QED
    BY <1>2, <2>1, <2>2
<1> DEFINE M == L \ {f}
<1>4. /\ \A x \in M : <<x, x>> \in Q /\ <<Root, x>> \in Q
      /\ \A x, y, z \in M : <<x, y>> \in Q /\ <<y, z>> \in Q => <<x, z>> \in Q
      /\ \A x, y \in M : <<x, y>> \in Q /\ <<y, x>> \in Q => x = y
      /\ \A x, y, z \in M :
           <<x, z>> \in Q /\ <<y, z>> \in Q => <<x, y>> \in Q \/ <<y, x>> \in Q
  BY <1>1
<1>5. Root \in M /\ Q \subseteq M \X M
  BY <1>1
<1>6. \A x \in M \ {Root} :
        LET p == [P EXCEPT ![f] = Root][x]
        IN  /\ p \in M /\ p # x
            /\ \A y \in M : <<y, x>> \in Q <=> y = x \/ <<y, p>> \in Q
  BY <1>3
<1> HIDE DEF M
<1>7. IsTree(M, Q, [P EXCEPT ![f] = Root])
  BY <1>4, <1>5, <1>6 DEF IsTree
<1>8. QED
  BY <1>7 DEF M

\* What a transaction holds of the tree.  Whoever else commits can put nothing
\* new above or below a folder it has locked, so what it found and what it is
\* about to insert stay those of the tree as it is.
Creating(t) ==
  /\ op[t] = "create" /\ pc[t] \in {"locked", "inserting"}
  /\ folder[t] \notin live /\ dest[t] \in live
  /\ del[t] = {}
  /\ pc[t] = "inserting" =>
       ins[t] = (Ancestors(dest[t], closure) \cup {folder[t]}) \X {folder[t]}

Above(t) == Ancestors(folder[t], closure) \ {folder[t]}
Below(t) == Descendants(folder[t], closure)

Moving(t) ==
  /\ op[t] = "move" /\ pc[t] # "idle"
  /\ folder[t] \in live \ {Root} /\ dest[t] \in live
  /\ pc[t] # "locked" => <<folder[t], dest[t]>> \notin closure
  /\ del[t] = IF pc[t] \in {"locked", "checked"} THEN {} ELSE Above(t) \X Below(t)
  /\ pc[t] = "inserting" => ins[t] = Ancestors(dest[t], closure) \X Below(t)

Removing(t) ==
  /\ op[t] = "delete" /\ pc[t] \in {"locked", "checked"}
  /\ folder[t] \in live \ {Root} /\ dest[t] = folder[t]
  /\ del[t] = {}
  /\ pc[t] = "checked" => Below(t) \subseteq {folder[t]}

Naming(t) ==
  /\ op[t] \in {"rename", "reorder"} /\ pc[t] = "locked"
  /\ folder[t] \in live \ {Root} /\ dest[t] = folder[t]
  /\ del[t] = {}

Resting(t) == pc[t] = "idle" /\ del[t] = {}

Held(t) == Resting(t) \/ Creating(t) \/ Moving(t) \/ Removing(t) \/ Naming(t)

\* No two transactions have locked one folder, or deleted one row.
Apart ==
  \A t, u \in Txn : t # u =>
    Locked(t) \cap Locked(u) = {} /\ Deleted(t) \cap Deleted(u) = {}

TreeInv ==
  /\ TreeTypeOK /\ IsFiniteSet(live)
  /\ IsTree(live, closure, parent)
  /\ Apart /\ \A t \in Txn : Held(t)

\* What every transaction but t has is as it was, but for rows t deleted.
LEMMA Left ==
  ASSUME TreeInv, NEW t \in Txn, NEW rows, Leave(t, rows)
  PROVE  /\ pc' \in [Txn -> {"idle", "locked", "checked", "deleting", "deleted",
                             "inserting"}]
         /\ op' \in [Txn -> {"none", "create", "move", "delete", "rename", "reorder"}]
         /\ folder' \in [Txn -> Folder] /\ dest' \in [Txn -> Folder]
         /\ del' \in [Txn -> SUBSET (Folder \X Folder)]
         /\ ins' \in [Txn -> SUBSET (Folder \X Folder)]
         /\ Resting(t)'
         /\ \A u \in Txn \ {t} :
              /\ pc'[u] = pc[u] /\ op'[u] = op[u] /\ folder'[u] = folder[u]
              /\ dest'[u] = dest[u] /\ ins'[u] = ins[u] /\ del'[u] = del[u] \ rows
<1>1. /\ pc \in [Txn -> {"idle", "locked", "checked", "deleting", "deleted", "inserting"}]
      /\ op \in [Txn -> {"none", "create", "move", "delete", "rename", "reorder"}]
      /\ folder \in [Txn -> Folder] /\ dest \in [Txn -> Folder]
      /\ del \in [Txn -> SUBSET (Folder \X Folder)]
      /\ ins \in [Txn -> SUBSET (Folder \X Folder)]
  BY DEF TreeInv, TreeTypeOK
<1>2. /\ pc' = [pc EXCEPT ![t] = "idle"] /\ op' = [op EXCEPT ![t] = "none"]
      /\ folder' = [folder EXCEPT ![t] = Root] /\ dest' = [dest EXCEPT ![t] = Root]
      /\ del' = [u \in Txn |-> IF u = t THEN {} ELSE del[u] \ rows]
      /\ ins' = [ins EXCEPT ![t] = {}]
  BY DEF Leave
<1>3. /\ pc' \in [Txn -> {"idle", "locked", "checked", "deleting", "deleted", "inserting"}]
      /\ op' \in [Txn -> {"none", "create", "move", "delete", "rename", "reorder"}]
  BY <1>1, <1>2
<1>4. folder' \in [Txn -> Folder] /\ dest' \in [Txn -> Folder]
  BY <1>1, <1>2, RootAssumption
<1>5. /\ del' \in [Txn -> SUBSET (Folder \X Folder)]
      /\ ins' \in [Txn -> SUBSET (Folder \X Folder)]
  BY <1>1, <1>2
<1>6. Resting(t)'
  BY <1>1, <1>2 DEF Resting
<1>7. \A u \in Txn \ {t} :
        /\ pc'[u] = pc[u] /\ op'[u] = op[u] /\ folder'[u] = folder[u]
        /\ dest'[u] = dest[u] /\ ins'[u] = ins[u] /\ del'[u] = del[u] \ rows
  BY <1>1, <1>2
<1>8. QED
  BY <1>3, <1>4, <1>5, <1>6, <1>7

\* Locks are kept apart by whoever leaves.
LEMMA LeftApart ==
  ASSUME TreeInv, NEW t \in Txn, NEW rows, Leave(t, rows)
  PROVE  Apart'
<1>1. Locked(t)' = {} /\ Deleted(t)' = {}
  BY Left DEF Resting, Locked, Deleted
<1>2. ASSUME NEW u \in Txn \ {t}
      PROVE  Locked(u)' = Locked(u) /\ Deleted(u)' \subseteq Deleted(u)
  <2>1. /\ pc'[u] = pc[u] /\ folder'[u] = folder[u] /\ dest'[u] = dest[u]
        /\ del'[u] = del[u] \ rows
    BY Left
  <2>2. QED
    BY <2>1 DEF Locked, Deleted
<1>3. QED
  BY <1>1, <1>2, Zenon DEF TreeInv, Apart

\* A step that leaves what transaction u has locked where it is in the tree:
\* its folders keep their ancestors, and the folder it moves or deletes loses at
\* most some descendants, whose rows it no longer has to delete.
LEMMA StaysHeld ==
  ASSUME TreeInv, NEW u \in Txn, NEW lost, NEW rows,
         pc'[u] = pc[u], op'[u] = op[u], folder'[u] = folder[u], dest'[u] = dest[u],
         ins'[u] = ins[u], del'[u] = del[u] \ rows,
         pc[u] # "idle" =>
           /\ folder[u] \in live' <=> folder[u] \in live
           /\ dest[u] \in live'
           /\ Ancestors(dest[u], closure') = Ancestors(dest[u], closure)
           /\ folder[u] \in live =>
                /\ Ancestors(folder[u], closure') = Ancestors(folder[u], closure)
                /\ Descendants(folder[u], closure') =
                     Descendants(folder[u], closure) \ lost
                /\ (Above(u) \X Below(u)) \ rows = Above(u) \X (Below(u) \ lost)
                /\ op[u] = "move" /\ pc[u] = "inserting" => Below(u) \cap lost = {}
  PROVE  Held(u)'
<1>1. CASE Resting(u)
  BY <1>1 DEF Resting, Held
<1>2. CASE Creating(u)
  <2>1. Creating(u)'
    <3>1. op'[u] = "create" /\ pc'[u] \in {"locked", "inserting"} /\ del'[u] = {}
      BY <1>2 DEF Creating
    <3>2. folder'[u] \notin live' /\ dest'[u] \in live'
      BY <1>2 DEF Creating
    <3>3. pc'[u] = "inserting" =>
            ins'[u] = (Ancestors(dest[u], closure') \cup {folder'[u]}) \X {folder'[u]}
      BY <1>2 DEF Creating
    <3>4. Ancestors(dest[u], closure') = Ancestors(dest'[u], closure')
      OBVIOUS
    <3>5. QED
      BY <3>1, <3>2, <3>3, <3>4 DEF Creating
  <2>2. QED
    BY <2>1 DEF Held
<1>3. CASE Moving(u)
  <2>1. /\ folder[u] \in live \ {Root} /\ dest[u] \in live /\ op[u] = "move"
        /\ pc[u] # "idle" /\ folder[u] \in live' /\ dest[u] \in live'
    BY <1>3 DEF Moving
  <2>2. Above(u)' = Above(u) /\ Below(u)' = Below(u) \ lost
    BY <2>1 DEF Above, Below
  <2>3. Ancestors(dest[u], closure') = Ancestors(dest'[u], closure')
    OBVIOUS
  <2>4. <<folder[u], dest[u]>> \notin closure => <<folder[u], dest[u]>> \notin closure'
    <3>1. folder[u] \in Folder
      BY DEF TreeInv, TreeTypeOK
    <3>2. QED
      BY <2>1, <3>1 DEF Ancestors
  <2>5. del'[u] = IF pc'[u] \in {"locked", "checked"} THEN {} ELSE Above(u)' \X Below(u)'
    <3>1. CASE pc[u] \in {"locked", "checked"}
      BY <1>3, <3>1 DEF Moving
    <3>2. CASE pc[u] \notin {"locked", "checked"}
      <4>1. del[u] = Above(u) \X Below(u)
        BY <1>3, <3>2 DEF Moving
      <4>2. QED
        BY <2>1, <2>2, <3>2, <4>1
    <3>3. QED
      BY <3>1, <3>2
  <2>6. pc'[u] = "inserting" => ins'[u] = Ancestors(dest'[u], closure') \X Below(u)'
    <3> SUFFICES ASSUME pc[u] = "inserting"
                 PROVE  ins'[u] = Ancestors(dest'[u], closure') \X Below(u)'
      OBVIOUS
    <3>1. ins[u] = Ancestors(dest[u], closure) \X Below(u)
      BY <1>3 DEF Moving
    <3>2. Below(u) \cap lost = {}
      BY <2>1
    <3>3. Below(u)' = Below(u)
      BY <2>2, <3>2
    <3>4. QED
      BY <2>1, <2>3, <3>1, <3>3
  <2>7. Moving(u)'
    BY <1>3, <2>1, <2>4, <2>5, <2>6 DEF Moving
  <2>8. QED
    BY <2>7 DEF Held
<1>4. CASE Removing(u)
  <2>1. folder[u] \in live \ {Root} /\ folder[u] \in live' /\ pc[u] # "idle"
    BY <1>4 DEF Removing
  <2>2. Below(u)' \subseteq Below(u)
    BY <2>1 DEF Below
  <2>3. Removing(u)'
    BY <1>4, <2>1, <2>2 DEF Removing
  <2>4. QED
    BY <2>3 DEF Held
<1>5. CASE Naming(u)
  BY <1>5 DEF Naming, Held
<1>6. QED
  BY <1>1, <1>2, <1>3, <1>4, <1>5 DEF TreeInv, Held

LEMMA TreeFacts ==
  ASSUME TreeInv
  PROVE  /\ Root \in live /\ live \subseteq Folder /\ closure \subseteq live \X live
         /\ \A x \in live : <<x, x>> \in closure /\ <<Root, x>> \in closure
         /\ \A x, y, z \in live :
              <<x, y>> \in closure /\ <<y, z>> \in closure => <<x, z>> \in closure
         /\ \A x, y \in live : <<x, y>> \in closure /\ <<y, x>> \in closure => x = y
         /\ \A x, y, z \in live : <<x, z>> \in closure /\ <<y, z>> \in closure =>
              <<x, y>> \in closure \/ <<y, x>> \in closure
BY DEF TreeInv, TreeTypeOK, IsTree

\* Whoever is under way has its destination in the tree, and its folder unless
\* it creates it.
LEMMA HeldFacts ==
  ASSUME TreeInv, NEW u \in Txn, pc[u] # "idle"
  PROVE  /\ dest[u] \in live /\ folder[u] \in Folder
         /\ op[u] # "create" => folder[u] \in live \ {Root}
         /\ op[u] = "create" => folder[u] \notin live
         /\ Locked(u) = {folder[u], dest[u]}
<1>1. Held(u) /\ folder[u] \in Folder
  BY DEF TreeInv, TreeTypeOK
<1>2. QED
  BY <1>1 DEF Held, Resting, Creating, Moving, Removing, Naming, Locked

\* Locked folders are different.
LEMMA LocksDiffer ==
  ASSUME TreeInv, NEW t \in Txn, NEW u \in Txn \ {t}, pc[t] # "idle", pc[u] # "idle"
  PROVE  /\ folder[u] # folder[t] /\ folder[u] # dest[t]
         /\ dest[u] # folder[t] /\ dest[u] # dest[t]
<1>1. Locked(t) \cap Locked(u) = {}
  BY DEF TreeInv, Apart
<1>2. QED
  BY <1>1, HeldFacts

-----------------------------------------------------------------------------
\* A move puts its folder, with all that is below it, below its destination.
LEMMA MoveGrafts ==
  ASSUME TreeInv, NEW t \in Txn, Moving(t), pc[t] = "inserting",
         closure' = View(t) \cup ins[t]
  PROVE  /\ closure' \subseteq live \X live
         /\ <<folder[t], dest[t]>> \notin closure
         /\ \A x, y \in live : <<x, y>> \in closure' <=>
              IF <<folder[t], y>> \in closure
              THEN \/ <<x, y>> \in closure /\ <<folder[t], x>> \in closure
                   \/ <<x, dest[t]>> \in closure
              ELSE <<x, y>> \in closure
<1> DEFINE f == folder[t]
           d == dest[t]
<1>1. /\ f \in live \ {Root} /\ d \in live /\ <<f, d>> \notin closure
      /\ del[t] = Above(t) \X Below(t)
      /\ ins[t] = Ancestors(d, closure) \X Below(t)
  BY DEF Moving
<1>2. \A x \in live : /\ x \in Above(t) <=> <<x, f>> \in closure /\ x # f
                      /\ x \in Below(t) <=> <<f, x>> \in closure
                      /\ x \in Ancestors(d, closure) <=> <<x, d>> \in closure
  BY TreeFacts DEF Above, Below, Ancestors, Descendants
<1>3. Above(t) \subseteq live /\ Below(t) \subseteq live /\ Ancestors(d, closure) \subseteq live
  BY TreeFacts DEF Above, Below, Ancestors, Descendants
<1>4. closure' = (closure \ (Above(t) \X Below(t))) \cup (Ancestors(d, closure) \X Below(t))
  BY <1>1 DEF View, Deleted
<1>5. closure' \subseteq live \X live
  BY <1>3, <1>4, TreeFacts
<1>6. ASSUME NEW x \in live, NEW y \in live
      PROVE  <<x, y>> \in closure' <=>
               IF <<f, y>> \in closure
               THEN (<<x, y>> \in closure /\ <<f, x>> \in closure) \/ <<x, d>> \in closure
               ELSE <<x, y>> \in closure
  <2>1. <<x, y>> \in closure' <=>
          \/ <<x, y>> \in closure /\ ~ (x \in Above(t) /\ y \in Below(t))
          \/ x \in Ancestors(d, closure) /\ y \in Below(t)
    BY <1>4
  <2>2. <<f, y>> \in closure /\ <<x, y>> \in closure =>
          (x \notin Above(t) <=> <<f, x>> \in closure)
    BY <1>1, <1>2, TreeFacts
  <2>3. QED
    BY <1>2, <2>1, <2>2
<1>7. QED
  BY <1>1, <1>5, <1>6

\* It waits for whoever has locked a folder of the subtree, or one above the
\* destination: to each it would insert a new row.
LEMMA MoveWaits ==
  ASSUME TreeInv, NEW t \in Txn, Moving(t), CommitLinked(t),
         NEW u \in Txn \ {t}, NEW x \in Locked(u) \cap live
  PROVE  <<folder[t], x>> \notin closure /\ <<x, dest[t]>> \notin closure
<1> DEFINE f == folder[t]
           d == dest[t]
           new == ins[t] \ View(t)
<1>1. /\ f \in live \ {Root} /\ d \in live /\ <<f, d>> \notin closure
      /\ del[t] = Above(t) \X Below(t)
      /\ ins[t] = Ancestors(d, closure) \X Below(t) /\ pc[t] = "inserting"
  BY DEF Moving, CommitLinked
<1>2. View(t) = closure \ (Above(t) \X Below(t))
  BY <1>1 DEF View, Deleted
<1>3. \A y \in live : /\ y \in Above(t) <=> <<y, f>> \in closure /\ y # f
                      /\ y \in Below(t) <=> <<f, y>> \in closure
                      /\ y \in Ancestors(d, closure) <=> <<y, d>> \in closure
  BY TreeFacts DEF Above, Below, Ancestors, Descendants
<1>4. Locked(u) \cap UNION {Ends(row) : row \in new} = {}
  BY DEF CommitLinked, KeyShared, Free
<1>5. \A row \in new : x \notin Ends(row)
  BY <1>4
<1>6. x # f
  <2>1. Locked(t) \cap Locked(u) = {} /\ f \in Locked(t)
    BY <1>1 DEF TreeInv, Apart, Locked
  <2>2. QED
    BY <2>1
<1>7. ASSUME <<f, x>> \in closure
      PROVE  FALSE
  <2>1. <<d, x>> \in ins[t]
    BY <1>1, <1>3, <1>7, TreeFacts
  <2>2. <<d, x>> \notin View(t)
    <3>1. <<d, x>> \in closure => <<d, f>> \in closure /\ d # f
      BY <1>1, <1>7, TreeFacts
    <3>2. QED
      BY <1>1, <1>2, <1>3, <1>7, <3>1
  <2>3. <<d, x>> \in new /\ x \in Ends(<<d, x>>)
    BY <2>1, <2>2 DEF Ends
  <2>4. QED
    BY <1>5, <2>3
<1>8. ASSUME <<x, d>> \in closure
      PROVE  FALSE
  <2>1. <<x, f>> \in ins[t]
    BY <1>1, <1>3, <1>8, TreeFacts
  <2>2. <<x, f>> \notin View(t)
    BY <1>1, <1>2, <1>3, <1>6, TreeFacts
  <2>3. <<x, f>> \in new /\ x \in Ends(<<x, f>>)
    BY <2>1, <2>2 DEF Ends
  <2>4. QED
    BY <1>5, <2>3
<1>9. QED
  BY <1>7, <1>8

\* While a move commits, every other transaction keeps what it holds: of the
\* folders it has locked none is in the subtree or above the destination.
LEMMA MoveStays ==
  ASSUME TreeInv, NEW t \in Txn, Moving(t), CommitLinked(t), NEW u \in Txn \ {t}
  PROVE  Held(u)'
<1> DEFINE f == folder[t]
           d == dest[t]
           g == folder[u]
           lost == IF g \in Above(t) THEN Below(t) ELSE {}
<1>1. /\ f \in live \ {Root} /\ d \in live /\ pc[t] = "inserting"
      /\ del[t] = Above(t) \X Below(t) /\ closure' = View(t) \cup ins[t]
      /\ Leave(t, del[t]) /\ live' = live \cup {f}
  BY DEF Moving, CommitLinked
<1>2. live' = live
  BY <1>1
<1>3. \A x, y \in live : <<x, y>> \in closure' <=>
        IF <<f, y>> \in closure
        THEN (<<x, y>> \in closure /\ <<f, x>> \in closure) \/ <<x, d>> \in closure
        ELSE <<x, y>> \in closure
  BY <1>1, MoveGrafts
<1>4. closure' \subseteq live \X live
  BY <1>1, MoveGrafts
<1>5. \A x \in Locked(u) \cap live : <<f, x>> \notin closure /\ <<x, d>> \notin closure
  BY MoveWaits
<1>6. ASSUME NEW x \in Locked(u) \cap live
      PROVE  Ancestors(x, closure') = Ancestors(x, closure)
  <2>1. \A y \in live : <<y, x>> \in closure' <=> <<y, x>> \in closure
    BY <1>3, <1>5
  <2>2. \A y \in Folder : <<y, x>> \in closure' <=> <<y, x>> \in closure
    BY <1>4, <2>1, TreeFacts
  <2>3. QED
    BY <2>2, Zenon DEF Ancestors
<1>7. ASSUME pc[u] # "idle", g \in live
      PROVE  /\ Descendants(g, closure') = Descendants(g, closure) \ lost
             /\ (Above(u) \X Below(u)) \ del[t] = Above(u) \X (Below(u) \ lost)
             /\ op[u] = "move" /\ pc[u] = "inserting" => Below(u) \cap lost = {}
  <2>1. g \in Locked(u) \cap live /\ g # f
    BY <1>1, <1>7, HeldFacts, LocksDiffer
  <2>2. <<f, g>> \notin closure /\ <<g, d>> \notin closure
    BY <1>5, <2>1
  <2>3. \A y \in live :
          <<g, y>> \in closure' <=> <<g, y>> \in closure /\ <<f, y>> \notin closure
    BY <1>3, <2>1, <2>2
  <2>4. /\ \A y \in live : /\ y \in Above(t) <=> <<y, f>> \in closure /\ y # f
                           /\ y \in Below(t) <=> <<f, y>> \in closure
                           /\ y \in Above(u) <=> <<y, g>> \in closure /\ y # g
                           /\ y \in Below(u) <=> <<g, y>> \in closure
        /\ Above(t) \subseteq live /\ Below(t) \subseteq live
        /\ Above(u) \subseteq live /\ Below(u) \subseteq live
    BY TreeFacts DEF Above, Below, Ancestors, Descendants
  <2>5. CASE g \in Above(t)
    <3>1. lost = Below(t)
      BY <2>5
    <3>2. <<g, f>> \in closure
      BY <2>1, <2>4, <2>5
    <3>3. Above(u) \subseteq Above(t)
      BY <1>1, <2>1, <2>2, <2>4, <3>2, TreeFacts
    <3>4. Descendants(g, closure') = Descendants(g, closure) \ Below(t)
      <4>1. \A y \in live : y \in Descendants(g, closure') <=>
                              y \in Descendants(g, closure) \ Below(t)
        BY <2>3, <2>4, TreeFacts DEF Descendants
      <4>2. Descendants(g, closure') \subseteq live /\ Descendants(g, closure) \subseteq live
        BY <1>4, TreeFacts DEF Descendants
      <4>3. QED
        BY <4>1, <4>2
    <3>5. (Above(u) \X Below(u)) \ (Above(t) \X Below(t)) = Above(u) \X (Below(u) \ Below(t))
      BY <3>3
    <3>6. ASSUME op[u] = "move", pc[u] = "inserting"
          PROVE  FALSE
      <4>1. g # Root /\ del[u] = Above(u) \X Below(u)
        <5>1. Held(u) /\ g # Root
          BY <1>7, <3>6, HeldFacts DEF TreeInv
        <5>2. QED
          BY <3>6, <5>1 DEF Held, Resting, Creating, Moving, Removing, Naming
      <4>2. Root \in Above(u) /\ f \in Below(u)
        BY <1>1, <2>1, <2>4, <3>2, <4>1, TreeFacts
      <4>3. Root \in Above(t) /\ f \in Below(t)
        BY <1>1, <2>4, <3>3, <4>2, TreeFacts
      <4>4. <<Root, f>> \in del[u] /\ <<Root, f>> \in del[t]
        BY <1>1, <4>1, <4>2, <4>3
      <4>5. del[u] \cap del[t] = {}
        BY <1>1, <3>6 DEF TreeInv, Apart, Deleted
      <4>6. QED
        BY <4>4, <4>5
    <3>7. QED
      BY <1>1, <3>1, <3>4, <3>5, <3>6
  <2>6. CASE g \notin Above(t)
    <3>1. lost = {}
      BY <2>6
    <3>2. Below(u) \cap Below(t) = {}
      BY <1>1, <2>1, <2>2, <2>4, <2>6, TreeFacts
    <3>3. Descendants(g, closure') = Descendants(g, closure)
      <4>1. \A y \in live : y \in Descendants(g, closure') <=> y \in Descendants(g, closure)
        BY <2>3, <2>4, <3>2, TreeFacts DEF Descendants
      <4>2. Descendants(g, closure') \subseteq live /\ Descendants(g, closure) \subseteq live
        BY <1>4, TreeFacts DEF Descendants
      <4>3. QED
        BY <4>1, <4>2
    <3>4. (Above(u) \X Below(u)) \ (Above(t) \X Below(t)) = Above(u) \X Below(u)
      BY <3>2
    <3>5. QED
      BY <1>1, <3>1, <3>3, <3>4
  <2>7. QED
    BY <2>5, <2>6
<1>8. /\ pc'[u] = pc[u] /\ op'[u] = op[u] /\ folder'[u] = folder[u]
      /\ dest'[u] = dest[u] /\ ins'[u] = ins[u] /\ del'[u] = del[u] \ del[t]
  BY <1>1, Left
<1> HIDE DEF lost
<1>9. ASSUME pc[u] # "idle"
      PROVE  /\ g \in live' <=> g \in live
             /\ dest[u] \in live'
             /\ Ancestors(dest[u], closure') = Ancestors(dest[u], closure)
             /\ g \in live =>
                  /\ Ancestors(g, closure') = Ancestors(g, closure)
                  /\ Descendants(g, closure') = Descendants(g, closure) \ lost
                  /\ (Above(u) \X Below(u)) \ del[t] = Above(u) \X (Below(u) \ lost)
                  /\ op[u] = "move" /\ pc[u] = "inserting" => Below(u) \cap lost = {}
  <2>1. dest[u] \in Locked(u) \cap live /\ g \in Locked(u)
    BY <1>9, HeldFacts
  <2>2. Ancestors(dest[u], closure') = Ancestors(dest[u], closure)
    BY <1>6, <2>1
  <2>3. g \in live => Ancestors(g, closure') = Ancestors(g, closure)
    BY <1>6, <2>1
  <2>4. QED
    BY <1>2, <1>7, <1>9, <2>1, <2>2, <2>3
<1>10. QED
  BY <1>8, <1>9, StaysHeld

\* What a commit has to show.
LEMMA CommitKeeps ==
  ASSUME TreeInv, NEW t \in Txn, NEW rows, Leave(t, rows),
         live' \subseteq Folder, IsFiniteSet(live'), parent' \in [Folder -> Folder],
         IsTree(live', closure', parent'),
         \A u \in Txn \ {t} : Held(u)'
  PROVE  TreeInv'
<1>1. Apart' /\ Held(t)'
  BY Left, LeftApart DEF Held
<1>2. Root \in live' /\ closure' \subseteq live' \X live'
  BY DEF IsTree
<1>3. TreeTypeOK'
  BY <1>2, Left DEF TreeTypeOK
<1>4. QED
  BY <1>1, <1>3 DEF TreeInv

LEMMA CommitMove ==
  ASSUME TreeInv, NEW t \in Txn, Moving(t), CommitLinked(t)
  PROVE  TreeInv'
<1>1. /\ pc[t] = "inserting" /\ closure' = View(t) \cup ins[t]
      /\ live' = live \cup {folder[t]}
      /\ parent' = [parent EXCEPT ![folder[t]] = dest[t]]
      /\ Leave(t, del[t])
  BY DEF CommitLinked
<1>2. folder[t] \in live \ {Root} /\ dest[t] \in live /\ live \subseteq Folder
  BY TreeFacts DEF Moving
<1>3. live' = live
  BY <1>1, <1>2
<1>4. /\ parent \in [Folder -> Folder] /\ parent' \in [Folder -> Folder]
      /\ IsTree(live, closure, parent) /\ IsFiniteSet(live)
  BY <1>1, <1>2 DEF TreeInv, TreeTypeOK
<1>5. /\ closure' \in SUBSET (live \X live) /\ <<folder[t], dest[t]>> \notin closure
      /\ \A x, y \in live : <<x, y>> \in closure' <=>
           IF <<folder[t], y>> \in closure
           THEN \/ <<x, y>> \in closure /\ <<folder[t], x>> \in closure
                \/ <<x, dest[t]>> \in closure
           ELSE <<x, y>> \in closure
  BY <1>1, MoveGrafts
<1>6. IsTree(live, closure', [parent EXCEPT ![folder[t]] = dest[t]])
  BY <1>2, <1>4, <1>5, Grafted
<1>7. \A u \in Txn \ {t} : Held(u)'
  BY MoveStays
<1>8. QED
  BY <1>1, <1>2, <1>3, <1>4, <1>6, <1>7, CommitKeeps

-----------------------------------------------------------------------------
\* A new folder, and what others have locked meanwhile.
LEMMA CommitCreate ==
  ASSUME TreeInv, NEW t \in Txn, Creating(t), CommitLinked(t)
  PROVE  TreeInv'
<1> DEFINE f == folder[t]
           d == dest[t]
           A == Ancestors(d, closure)
<1>1. /\ pc[t] = "inserting" /\ closure' = View(t) \cup ins[t] /\ live' = live \cup {f}
      /\ parent' = [parent EXCEPT ![f] = d]
      /\ Leave(t, del[t])
      /\ KeyShared(t, UNION {Ends(row) : row \in ins[t] \ View(t)})
  BY DEF CommitLinked
<1>2. /\ f \in Folder \ live /\ d \in live /\ live \subseteq Folder /\ del[t] = {}
      /\ ins[t] = (A \cup {f}) \X {f}
  BY <1>1, TreeFacts DEF Creating, TreeInv, TreeTypeOK
<1>3. /\ parent \in [Folder -> Folder] /\ parent' \in [Folder -> Folder]
      /\ IsTree(live, closure, parent) /\ IsFiniteSet(live)
  BY <1>1, <1>2 DEF TreeInv, TreeTypeOK
<1>4. closure' = closure \cup ((A \cup {f}) \X {f}) /\ View(t) = closure
  BY <1>1, <1>2 DEF View, Deleted
<1>5. A \subseteq live /\ \A x \in live : x \in A <=> <<x, d>> \in closure
  BY TreeFacts DEF Ancestors
<1>6. closure' \in SUBSET ((live \cup {f}) \X (live \cup {f}))
  BY <1>4, <1>5, TreeFacts
<1>7. ASSUME NEW x \in live \cup {f}, NEW y \in live \cup {f}
      PROVE  <<x, y>> \in closure' <=>
               IF y = f THEN x = f \/ <<x, d>> \in closure ELSE <<x, y>> \in closure
  <2>1. <<x, y>> \in closure' <=> <<x, y>> \in closure \/ (x \in A \cup {f} /\ y = f)
    BY <1>4
  <2>2. <<x, f>> \notin closure /\ <<f, d>> \notin closure /\ f \notin A
    BY <1>2, <1>5, TreeFacts
  <2>3. QED
    BY <1>2, <1>5, <2>1, <2>2
<1>8. IsTree(live \cup {f}, closure', [parent EXCEPT ![f] = d])
  BY <1>2, <1>3, <1>6, <1>7, Grown
<1>9. IsFiniteSet(live \cup {f})
  BY <1>3, FS_AddElement
<1>10. ASSUME NEW u \in Txn \ {t}
       PROVE  Held(u)'
  <2>1. /\ pc'[u] = pc[u] /\ op'[u] = op[u] /\ folder'[u] = folder[u]
        /\ dest'[u] = dest[u] /\ ins'[u] = ins[u] /\ del'[u] = del[u] \ {}
    <3>1. del'[u] = del[u] \ del[t]
      BY <1>1, Left
    <3>2. del'[u] = del[u] \ {}
      BY <1>2, <3>1
    <3>3. QED
      BY <1>1, <3>2, Left
  <2>2. ASSUME NEW x \in Locked(u) \cap live
        PROVE  /\ Ancestors(x, closure') = Ancestors(x, closure)
               /\ Descendants(x, closure') = Descendants(x, closure)
    <3>1. x # f
      BY <1>2
    <3>2. x \notin A
      <4> SUFFICES ASSUME x \in A
                   PROVE  FALSE
        OBVIOUS
      <4>1. <<x, f>> \in ins[t] \ View(t) /\ x \in Ends(<<x, f>>)
        BY <1>2, <1>4, TreeFacts DEF Ends
      <4>2. x \in UNION {Ends(row) : row \in ins[t] \ View(t)}
        BY <4>1, Zenon
      <4>3. Locked(u) \cap UNION {Ends(row) : row \in ins[t] \ View(t)} = {}
        BY <1>1 DEF KeyShared, Free
      <4>4. QED
        BY <4>2, <4>3
    <3>3. \A y \in Folder : /\ <<y, x>> \in closure' <=> <<y, x>> \in closure
                            /\ <<x, y>> \in closure' <=> <<x, y>> \in closure
      BY <1>4, <3>1, <3>2
    <3>4. QED
      BY <3>3, Zenon DEF Ancestors, Descendants
  <2>3. ASSUME pc[u] # "idle"
        PROVE  /\ folder[u] \in live' <=> folder[u] \in live
               /\ dest[u] \in live'
               /\ Ancestors(dest[u], closure') = Ancestors(dest[u], closure)
               /\ folder[u] \in live =>
                    /\ Ancestors(folder[u], closure') = Ancestors(folder[u], closure)
                    /\ Descendants(folder[u], closure') =
                         Descendants(folder[u], closure) \ {}
                    /\ (Above(u) \X Below(u)) \ {} = Above(u) \X (Below(u) \ {})
                    /\ op[u] = "move" /\ pc[u] = "inserting" => Below(u) \cap {} = {}
    <3>1. dest[u] \in Locked(u) \cap live /\ folder[u] \in Locked(u)
      BY <2>3, HeldFacts
    <3>2. folder[u] # f
      BY <1>1, <2>3, LocksDiffer
    <3>3. folder[u] \in live =>
            /\ Ancestors(folder[u], closure') = Ancestors(folder[u], closure)
            /\ Descendants(folder[u], closure') = Descendants(folder[u], closure)
      BY <2>2, <3>1
    <3>4. Ancestors(dest[u], closure') = Ancestors(dest[u], closure)
      BY <2>2, <3>1
    <3>5. Descendants(folder[u], closure) \ {} = Descendants(folder[u], closure)
          /\ Below(u) \ {} = Below(u) /\ (Above(u) \X Below(u)) \ {} = Above(u) \X Below(u)
          /\ Below(u) \cap {} = {}
      OBVIOUS
    <3>6. QED
      BY <1>1, <3>1, <3>2, <3>3, <3>4, <3>5
  <2>4. QED
    BY <2>1, <2>3, StaysHeld
<1>11. live' \subseteq Folder
  BY <1>1, <1>2
<1>12. QED
  BY <1>1, <1>3, <1>8, <1>9, <1>10, <1>11, CommitKeeps

-----------------------------------------------------------------------------
\* An empty folder goes, with its rows.
LEMMA CommitRemove ==
  ASSUME TreeInv, NEW t \in Txn, CommitDeleted(t)
  PROVE  TreeInv'
<1> DEFINE f == folder[t]
           C == Cascade(t)
<1>1. /\ op[t] = "delete" /\ pc[t] = "checked" /\ Settled(t, C)
      /\ closure' = closure \ C /\ Leave(t, C) /\ live' = live \ {f}
      /\ parent' = [parent EXCEPT ![f] = Root]
  BY DEF CommitDeleted
<1>2. Removing(t)
  <2>1. Held(t)
    BY DEF TreeInv
  <2>2. QED
    BY <1>1, <2>1 DEF Held, Resting, Creating, Moving, Naming
<1>3. f \in live \ {Root} /\ live \subseteq Folder /\ Below(t) \subseteq {f}
  BY <1>1, <1>2, TreeFacts DEF Removing
<1>4. \A x, y : <<x, y>> \in C <=> <<x, y>> \in closure /\ (x = f \/ y = f)
  BY DEF Cascade, Ends
<1>5. \A x \in live : <<f, x>> \in closure => x = f
  BY <1>3, TreeFacts DEF Below, Descendants
<1>6. /\ parent \in [Folder -> Folder] /\ parent' \in [Folder -> Folder]
      /\ IsTree(live, closure, parent) /\ IsFiniteSet(live)
  BY <1>1, RootAssumption DEF TreeInv, TreeTypeOK
<1>7. closure' \in SUBSET ((live \ {f}) \X (live \ {f}))
      /\ \A x, y \in live \ {f} : <<x, y>> \in closure' <=> <<x, y>> \in closure
  <2> HIDE DEF C
  <2>1. \A row \in closure' : row \in (live \ {f}) \X (live \ {f})
    BY <1>1, <1>4, TreeFacts
  <2>2. QED
    BY <1>1, <1>4, <2>1
<1>8. IsTree(live \ {f}, closure', [parent EXCEPT ![f] = Root])
  BY <1>3, <1>5, <1>6, <1>7, Pruned
<1>9. IsFiniteSet(live \ {f})
  BY <1>6, FS_Subset
<1>10. ASSUME NEW u \in Txn \ {t}
       PROVE  Held(u)'
  <2> DEFINE g == folder[u]
             lost == {f}
  <2>1. /\ pc'[u] = pc[u] /\ op'[u] = op[u] /\ folder'[u] = folder[u]
        /\ dest'[u] = dest[u] /\ ins'[u] = ins[u] /\ del'[u] = del[u] \ C
    BY <1>1, Left
  <2> HIDE DEF C
  <2>2. ASSUME NEW x \in live, x # f
        PROVE  /\ Ancestors(x, closure') = Ancestors(x, closure)
               /\ Descendants(x, closure') = Descendants(x, closure) \ lost
    <3>1. <<f, x>> \notin closure
      BY <1>5, <2>2
    <3>2. \A y \in Folder : /\ <<y, x>> \in closure' <=> <<y, x>> \in closure
                            /\ <<x, y>> \in closure' <=> <<x, y>> \in closure /\ y # f
      BY <1>1, <1>4, <2>2, <3>1
    <3>3. QED
      BY <3>2 DEF Ancestors, Descendants
  <2>3. ASSUME pc[u] # "idle", g \in live
        PROVE  /\ (Above(u) \X Below(u)) \ C = Above(u) \X (Below(u) \ lost)
               /\ op[u] = "move" /\ pc[u] = "inserting" => Below(u) \cap lost = {}
    <3>1. g # f
      BY <1>1, <2>3, LocksDiffer
    <3>2. Above(u) \subseteq live /\ Below(u) \subseteq live
          /\ \A y \in live : /\ y \in Above(u) <=> <<y, g>> \in closure /\ y # g
                             /\ y \in Below(u) <=> <<g, y>> \in closure
      BY TreeFacts DEF Above, Below, Ancestors, Descendants
    <3>3. f \notin Above(u)
      BY <1>3, <1>5, <2>3, <3>1, <3>2
    <3>4. \A x \in Above(u), y \in Below(u) : <<x, y>> \in closure
      BY <2>3, <3>2, TreeFacts
    <3>5. ASSUME NEW x \in Above(u), NEW y \in Below(u)
          PROVE  <<x, y>> \in C <=> y = f
      <4>1. <<x, y>> \in C <=> <<x, y>> \in closure /\ (x = f \/ y = f)
        BY <1>4
      <4>2. QED
        BY <3>3, <3>4, <4>1
    <3>6. (Above(u) \X Below(u)) \ C = Above(u) \X (Below(u) \ lost)
      BY <3>5
    <3>7. ASSUME op[u] = "move", pc[u] = "inserting", f \in Below(u)
          PROVE  FALSE
      <4>1. g # Root /\ del[u] = Above(u) \X Below(u)
        <5>1. Held(u)
          BY DEF TreeInv
        <5>2. QED
          BY <3>7, <5>1 DEF Held, Resting, Creating, Moving, Removing, Naming
      <4>2. Root \in Above(u)
        BY <2>3, <3>2, <4>1, TreeFacts
      <4>3. <<Root, f>> \in del[u] /\ <<Root, f>> \in C
        BY <3>5, <3>7, <4>1, <4>2
      <4>4. del[u] \cap C = {}
        BY <1>1, <3>7 DEF Settled, Deleted
      <4>5. QED
        BY <4>3, <4>4
    <3>8. QED
      BY <3>6, <3>7
  <2>4. ASSUME pc[u] # "idle"
        PROVE  /\ g \in live' <=> g \in live
               /\ dest[u] \in live'
               /\ Ancestors(dest[u], closure') = Ancestors(dest[u], closure)
               /\ g \in live =>
                    /\ Ancestors(g, closure') = Ancestors(g, closure)
                    /\ Descendants(g, closure') = Descendants(g, closure) \ lost
                    /\ (Above(u) \X Below(u)) \ C = Above(u) \X (Below(u) \ lost)
                    /\ op[u] = "move" /\ pc[u] = "inserting" => Below(u) \cap lost = {}
    <3>1. dest[u] \in live /\ g # f /\ dest[u] # f
      BY <1>1, <2>4, HeldFacts, LocksDiffer
    <3>2. Ancestors(dest[u], closure') = Ancestors(dest[u], closure)
      BY <2>2, <3>1
    <3>3. g \in live => /\ Ancestors(g, closure') = Ancestors(g, closure)
                        /\ Descendants(g, closure') = Descendants(g, closure) \ lost
      BY <2>2, <3>1
    <3> HIDE DEF lost
    <3>4. QED
      BY <1>1, <2>3, <2>4, <3>1, <3>2, <3>3
  <2> HIDE DEF lost
  <2>5. QED
    BY <2>1, <2>4, StaysHeld
<1>11. live' \subseteq Folder
  BY <1>1, <1>3
<1>12. QED
  BY <1>1, <1>6, <1>8, <1>9, <1>10, <1>11, CommitKeeps

-----------------------------------------------------------------------------
\* A step before the commit changes what one transaction has.
LEMMA BeforeCommit ==
  ASSUME TreeInv, NEW t \in Txn, UNCHANGED committed, TreeTypeOK',
         Held(t)',
         \A u \in Txn \ {t} :
           /\ pc'[u] = pc[u] /\ op'[u] = op[u] /\ folder'[u] = folder[u]
           /\ dest'[u] = dest[u] /\ ins'[u] = ins[u] /\ del'[u] = del[u],
         \A u \in Txn \ {t} : /\ Locked(t)' \cap Locked(u) = {}
                              /\ Deleted(t)' \cap Deleted(u) = {}
  PROVE  TreeInv'
<1>1. UNCHANGED <<live, parent, closure>>
  BY DEF committed
<1>2. ASSUME NEW u \in Txn \ {t}
      PROVE  Held(u)' /\ Locked(u)' = Locked(u) /\ Deleted(u)' = Deleted(u)
  <2>1. Held(u)
    BY DEF TreeInv
  <2>2. Above(u)' = Above(u) /\ Below(u)' = Below(u)
        /\ Ancestors(dest[u], closure)' = Ancestors(dest[u], closure)
    BY <1>1, <1>2 DEF Above, Below, Ancestors, Descendants
  <2>3. Held(u)'
    BY <1>1, <1>2, <2>1, <2>2 DEF Held, Resting, Creating, Moving, Removing, Naming
  <2>4. QED
    BY <1>2, <2>3 DEF Locked, Deleted
<1>3. Apart'
  <2> SUFFICES ASSUME NEW u \in Txn, NEW v \in Txn, u # v
               PROVE  /\ Locked(u)' \cap Locked(v)' = {}
                      /\ Deleted(u)' \cap Deleted(v)' = {}
    BY DEF Apart
  <2>1. CASE u = t
    BY <1>2, <2>1
  <2>2. CASE v = t
    BY <1>2, <2>2
  <2>3. CASE u # t /\ v # t
    BY <1>2, <2>3 DEF TreeInv, Apart
  <2>4. QED
    BY <2>1, <2>2, <2>3
<1>4. IsFiniteSet(live') /\ IsTree(live', closure', parent')
  BY <1>1 DEF TreeInv
<1>5. QED
  BY <1>2, <1>3, <1>4 DEF TreeInv

\* Requests lock the folders they name.
LEMMA LockSound ==
  ASSUME TreeInv, NEW t \in Txn,
         \/ BeginCreate(t) \/ BeginMove(t) \/ BeginDelete(t)
         \/ BeginRename(t) \/ BeginReorder(t)
  PROVE  TreeInv'
<1>1. PICK what \in {"create", "move", "delete", "rename", "reorder"},
           f \in Folder, d \in live :
        /\ Lock(t, what, f, d)
        /\ what = "create" => f \notin live
        /\ what # "create" => f \in live \ {Root}
        /\ what \notin {"create", "move"} => d = f
  BY TreeFacts DEF BeginCreate, BeginMove, BeginDelete, BeginRename, BeginReorder
<1>2. /\ pc[t] = "idle" /\ pc' = [pc EXCEPT ![t] = "locked"]
      /\ op' = [op EXCEPT ![t] = what]
      /\ folder' = [folder EXCEPT ![t] = f] /\ dest' = [dest EXCEPT ![t] = d]
      /\ UNCHANGED <<live, parent, closure, del, ins>>
      /\ Free(t, {f, d})
  BY <1>1 DEF Lock, Goes, Lockable, committed
<1>3. d \in Folder
  BY TreeFacts
<1>4. TreeTypeOK'
  BY <1>2, <1>3 DEF TreeInv, TreeTypeOK
<1>5. /\ pc'[t] = "locked" /\ op'[t] = what /\ folder'[t] = f /\ dest'[t] = d
      /\ del'[t] = {}
      /\ \A u \in Txn \ {t} :
           /\ pc'[u] = pc[u] /\ op'[u] = op[u] /\ folder'[u] = folder[u]
           /\ dest'[u] = dest[u] /\ ins'[u] = ins[u] /\ del'[u] = del[u]
  <2>1. Held(t)
    BY DEF TreeInv
  <2>2. del[t] = {}
    BY <1>2, <2>1 DEF Held, Resting, Creating, Moving, Removing, Naming
  <2>3. QED
    BY <1>2, <2>2 DEF TreeInv, TreeTypeOK
<1>6. Held(t)'
  BY <1>1, <1>2, <1>5 DEF Held, Creating, Moving, Removing, Naming
<1>7. Locked(t)' = {f, d} /\ Deleted(t)' = {}
  BY <1>5 DEF Locked, Deleted
<1>8. \A u \in Txn \ {t} : Locked(t)' \cap Locked(u) = {} /\ Deleted(t)' \cap Deleted(u) = {}
  BY <1>2, <1>7 DEF Free
<1>9. QED
  BY <1>2, <1>4, <1>5, <1>6, <1>8, BeforeCommit DEF committed

\* What comes between the lock and the commit.
LEMMA WorkSound ==
  ASSUME TreeInv, NEW t \in Txn,
         \/ Check(t) \/ CheckEmpty(t) \/ FindRows(t) \/ DeleteRows(t)
         \/ LinkSubtree(t) \/ LinkNew(t)
  PROVE  TreeInv'
<1>1. /\ Held(t)
      /\ pc \in [Txn -> {"idle", "locked", "checked", "deleting", "deleted", "inserting"}]
      /\ del \in [Txn -> SUBSET (Folder \X Folder)]
      /\ ins \in [Txn -> SUBSET (Folder \X Folder)]
      /\ folder[t] \in Folder /\ dest[t] \in Folder
  BY DEF TreeInv, TreeTypeOK
<1>2. UNCHANGED <<live, parent, closure, op, folder, dest>>
  BY DEF Check, CheckEmpty, FindRows, DeleteRows, LinkSubtree, LinkNew, committed, request
<1>3. PICK next \in {"checked", "deleting", "deleted", "inserting"} :
        pc' = [pc EXCEPT ![t] = next]
  BY DEF Check, CheckEmpty, FindRows, DeleteRows, LinkSubtree, LinkNew, Goes
<1>4. /\ del' \in [Txn -> SUBSET (Folder \X Folder)]
      /\ ins' \in [Txn -> SUBSET (Folder \X Folder)]
      /\ \A u \in Txn \ {t} : del'[u] = del[u] /\ ins'[u] = ins[u]
  <2>1. CASE UNCHANGED <<del, ins>>
    BY <1>1, <2>1
  <2>2. CASE FindRows(t)
    <3>1. closure \cap ((Ancestors(folder[t], closure) \ {folder[t]})
                          \X Descendants(folder[t], closure)) \subseteq Folder \X Folder
      BY DEF Ancestors, Descendants
    <3>2. QED
      BY <1>1, <2>2, <3>1 DEF FindRows
  <2>3. CASE LinkSubtree(t)
    <3>1. Ancestors(dest[t], View(t)) \X Descendants(folder[t], View(t))
            \subseteq Folder \X Folder
      BY DEF Ancestors, Descendants
    <3>2. QED
      BY <1>1, <2>3, <3>1 DEF LinkSubtree
  <2>4. CASE LinkNew(t)
    <3>1. (Ancestors(dest[t], closure) \cup {folder[t]}) \X {folder[t]}
            \subseteq Folder \X Folder
      BY <1>1 DEF Ancestors
    <3>2. QED
      BY <1>1, <2>4, <3>1 DEF LinkNew
  <2>5. QED
    BY <2>1, <2>2, <2>3, <2>4 DEF Check, CheckEmpty, DeleteRows
<1>5. TreeTypeOK'
  BY <1>1, <1>2, <1>3, <1>4 DEF TreeInv, TreeTypeOK
<1>6. \A u \in Txn \ {t} : pc'[u] = pc[u]
  BY <1>1, <1>3
<1>7. pc'[t] = next /\ pc[t] # "idle" /\ Locked(t)' = Locked(t)
  <2>1. pc'[t] = next /\ pc[t] # "idle"
    BY <1>1, <1>3
    DEF Check, CheckEmpty, FindRows, DeleteRows, LinkSubtree, LinkNew, Goes
  <2>2. QED
    BY <1>2, <2>1 DEF Locked
<1>8. Above(t)' = Above(t) /\ Below(t)' = Below(t)
      /\ Ancestors(dest[t], closure)' = Ancestors(dest[t], closure)
  BY <1>2 DEF Above, Below, Ancestors, Descendants
<1>9. Held(t)' /\ \A u \in Txn \ {t} : Deleted(t)' \cap Deleted(u) = {}
  <2>1. CASE Check(t)
    <3>1. /\ op[t] = "move" /\ pc[t] = "locked" /\ pc'[t] = "checked" /\ del' = del
          /\ <<folder[t], dest[t]>> \notin closure
      BY <1>1, <2>1 DEF Check, Acyclic, Goes
    <3>2. Moving(t)
      BY <1>1, <3>1 DEF Held, Resting, Creating, Removing, Naming
    <3>3. Moving(t)' /\ Deleted(t)' = {}
      BY <1>2, <3>1, <3>2 DEF Moving, Deleted
    <3>4. QED
      BY <3>3 DEF Held
  <2>2. CASE CheckEmpty(t)
    <3>1. /\ op[t] = "delete" /\ pc[t] = "locked" /\ pc'[t] = "checked" /\ del' = del
          /\ Below(t) \subseteq {folder[t]}
      BY <1>1, <2>2 DEF CheckEmpty, Goes, Below
    <3>2. Removing(t)
      BY <1>1, <3>1 DEF Held, Resting, Creating, Moving, Naming
    <3>3. Removing(t)' /\ Deleted(t)' = {}
      BY <1>2, <1>8, <3>1, <3>2 DEF Removing, Deleted
    <3>4. QED
      BY <3>3 DEF Held
  <2>3. CASE FindRows(t)
    <3>1. /\ op[t] = "move" /\ pc[t] = "checked" /\ pc'[t] = "deleting"
          /\ del'[t] = closure \cap (Above(t) \X Below(t))
      BY <1>1, <2>3 DEF FindRows, Goes, Above, Below
    <3>2. Moving(t)
      BY <1>1, <3>1 DEF Held, Resting, Creating, Removing, Naming
    <3>3. Above(t) \X Below(t) \subseteq closure
      BY <3>2, TreeFacts DEF Moving, Above, Below, Ancestors, Descendants
    <3>4. Moving(t)' /\ Deleted(t)' = {}
      BY <1>2, <1>8, <3>1, <3>2, <3>3 DEF Moving, Deleted
    <3>5. QED
      BY <3>4 DEF Held
  <2>4. CASE DeleteRows(t)
    <3>1. /\ pc[t] = "deleting" /\ pc'[t] = "deleted" /\ del' = del /\ Settled(t, del[t])
      BY <1>1, <2>4 DEF DeleteRows, Goes
    <3>2. Moving(t)
      BY <1>1, <3>1 DEF Held, Resting, Creating, Removing, Naming
    <3>3. Moving(t)' /\ Deleted(t)' = del[t]
      BY <1>2, <1>8, <3>1, <3>2 DEF Moving, Deleted
    <3>4. QED
      BY <3>1, <3>3 DEF Held, Settled
  <2>5. CASE LinkSubtree(t)
    <3>1. /\ op[t] = "move" /\ pc[t] = "deleted" /\ pc'[t] = "inserting" /\ del' = del
          /\ ins'[t] = Ancestors(dest[t], View(t)) \X Descendants(folder[t], View(t))
          /\ View(t) = closure \ del[t]
      BY <1>1, <2>5 DEF LinkSubtree, Goes, View, Deleted
    <3>2. Moving(t)
      BY <1>1, <3>1 DEF Held, Resting, Creating, Removing, Naming
    <3>3. /\ del[t] = Above(t) \X Below(t) /\ folder[t] \in live /\ dest[t] \in live
          /\ dest[t] \notin Below(t) /\ folder[t] \notin Above(t)
      BY <3>1, <3>2 DEF Moving, Above, Below, Descendants
    <3>4. Ancestors(dest[t], View(t)) = Ancestors(dest[t], closure)
      BY <3>1, <3>3 DEF Ancestors
    <3>5. Descendants(folder[t], View(t)) = Below(t)
      BY <3>1, <3>3 DEF Below, Descendants
    <3>6. Moving(t)' /\ Deleted(t)' = Deleted(t)
      BY <1>2, <1>8, <3>1, <3>2, <3>4, <3>5 DEF Moving, Deleted
    <3>7. QED
      BY <3>6 DEF Held, TreeInv, Apart
  <2>6. CASE LinkNew(t)
    <3>1. /\ op[t] = "create" /\ pc[t] = "locked" /\ pc'[t] = "inserting" /\ del' = del
          /\ ins'[t] = (Ancestors(dest[t], closure) \cup {folder[t]}) \X {folder[t]}
      BY <1>1, <2>6 DEF LinkNew, Goes
    <3>2. Creating(t)
      BY <1>1, <3>1 DEF Held, Resting, Moving, Removing, Naming
    <3>3. Creating(t)' /\ Deleted(t)' = {}
      BY <1>2, <1>8, <3>1, <3>2 DEF Creating, Deleted
    <3>4. QED
      BY <3>3 DEF Held
  <2>7. QED
    BY <2>1, <2>2, <2>3, <2>4, <2>5, <2>6
<1>10. \A u \in Txn \ {t} : Locked(t)' \cap Locked(u) = {}
  BY <1>7 DEF TreeInv, Apart
<1>11. QED
  BY <1>2, <1>4, <1>5, <1>6, <1>9, <1>10, BeforeCommit DEF committed

\* A transaction that leaves the tree as it is.
LEMMA LeaveSound ==
  ASSUME TreeInv, NEW t \in Txn, Leave(t, {}), UNCHANGED committed
  PROVE  TreeInv'
<1>1. UNCHANGED <<live, parent, closure>>
  BY DEF committed
<1>2. \A u \in Txn \ {t} :
        /\ pc'[u] = pc[u] /\ op'[u] = op[u] /\ folder'[u] = folder[u]
        /\ dest'[u] = dest[u] /\ ins'[u] = ins[u] /\ del'[u] = del[u]
  <2>1. \A u \in Txn \ {t} : del'[u] = del[u] \ {}
    BY DEF Leave
  <2>2. \A u \in Txn \ {t} :
          /\ pc'[u] = pc[u] /\ op'[u] = op[u] /\ folder'[u] = folder[u]
          /\ dest'[u] = dest[u] /\ ins'[u] = ins[u]
    BY DEF Leave, TreeInv, TreeTypeOK
  <2>3. QED
    BY <2>1, <2>2
<1>3. ASSUME NEW u \in Txn \ {t}
      PROVE  Held(u)'
  <2>1. Held(u)
    BY DEF TreeInv
  <2>2. Above(u)' = Above(u) /\ Below(u)' = Below(u)
        /\ Ancestors(dest[u], closure)' = Ancestors(dest[u], closure)
    BY <1>1, <1>2 DEF Above, Below, Ancestors, Descendants
  <2>3. QED
    BY <1>1, <1>2, <2>1, <2>2 DEF Held, Resting, Creating, Moving, Removing, Naming
<1>4. live' \subseteq Folder /\ IsFiniteSet(live') /\ parent' \in [Folder -> Folder]
      /\ IsTree(live', closure', parent')
  BY <1>1 DEF TreeInv, TreeTypeOK
<1>5. QED
  BY <1>3, <1>4, CommitKeeps

LEMMA TreeInitial == TreeInit => TreeInv
<1> SUFFICES ASSUME TreeInit
             PROVE  TreeInv
  OBVIOUS
<1>1. /\ live = {Root} /\ parent = [f \in Folder |-> Root] /\ closure = {<<Root, Root>>}
      /\ pc = [t \in Txn |-> "idle"] /\ op = [t \in Txn |-> "none"]
      /\ folder = [t \in Txn |-> Root] /\ dest = [t \in Txn |-> Root]
      /\ del = [t \in Txn |-> {}] /\ ins = [t \in Txn |-> {}]
  BY DEF TreeInit
<1>2. TreeTypeOK
  BY <1>1, RootAssumption DEF TreeTypeOK
<1>3. IsFiniteSet(live)
  BY <1>1, FS_Singleton
<1>4. IsTree(live, closure, parent)
  BY <1>1 DEF IsTree
<1>5. Apart /\ \A t \in Txn : Held(t)
  BY <1>1 DEF Apart, Locked, Deleted, Held, Resting
<1>6. QED
  BY <1>2, <1>3, <1>4, <1>5 DEF TreeInv

LEMMA TreeStep == TreeInv /\ [TreeNext]_treeVars => TreeInv'
<1> SUFFICES ASSUME TreeInv, [TreeNext]_treeVars
             PROVE  TreeInv'
  OBVIOUS
<1>1. ASSUME NEW t \in Txn, CommitLinked(t)
      PROVE  TreeInv'
  <2>1. Held(t) /\ pc[t] = "inserting"
    BY <1>1 DEF TreeInv, CommitLinked
  <2>2. Creating(t) \/ Moving(t)
    BY <2>1 DEF Held, Resting, Removing, Naming
  <2>3. QED
    BY <1>1, <2>2, CommitCreate, CommitMove
<1>2. ASSUME NEW t \in Txn, CommitRenamed(t) \/ CommitReordered(t) \/ Abort(t)
      PROVE  TreeInv'
  BY <1>2, LeaveSound DEF CommitRenamed, CommitReordered, Abort
<1>3. CASE UNCHANGED treeVars
  <2>1. UNCHANGED <<live, parent, closure, pc, op, folder, dest, del, ins>>
    BY <1>3 DEF treeVars
  <2>2. TreeTypeOK'
    BY <2>1 DEF TreeInv, TreeTypeOK
  <2>3. IsFiniteSet(live') /\ IsTree(live', closure', parent')
    BY <2>1 DEF TreeInv
  <2>4. Apart'
    BY <2>1 DEF TreeInv, Apart, Locked, Deleted
  <2>5. \A t \in Txn : Held(t)'
    BY SMTT(60), <2>1
    DEF TreeInv, Held, Resting, Creating, Moving, Removing, Naming, Above, Below,
        Ancestors, Descendants
  <2>6. QED
    BY <2>2, <2>3, <2>4, <2>5 DEF TreeInv
<1>4. QED
  BY <1>1, <1>2, <1>3, LockSound, WorkSound, CommitRemove DEF TreeNext

LEMMA TreeInvariant == TreeSpec => []TreeInv
<1>1. QED
  BY TreeInitial, TreeStep, PTL DEF TreeSpec

\* Every variable holds a value its column or transaction can hold.
THEOREM TreeTypeCorrect == TreeSpec => []TreeTypeOK
<1>1. TreeInv => TreeTypeOK
  BY DEF TreeInv
<1>2. QED
  BY <1>1, TreeInvariant, PTL

\* The closure table is the reflexive transitive closure of the parents.
THEOREM ClosureStaysExact == TreeSpec => []ClosureExact
<1>1. TreeInv => ClosureExact
  <2> SUFFICES ASSUME TreeInv
               PROVE  ClosureExact
    OBVIOUS
  <2>1. Ancestors(Root, closure) = {Root}
    BY ZenonT(60), TreeFacts, RootAssumption DEF Ancestors
  <2>2. ASSUME NEW f \in live \ {Root}
        PROVE  Ancestors(f, closure) = Ancestors(parent[f], closure) \cup {f}
    <3>1. /\ parent[f] \in live
          /\ \A y \in live : <<y, f>> \in closure <=> y = f \/ <<y, parent[f]>> \in closure
      BY DEF TreeInv, IsTree
    <3>2. \A x : Ancestors(x, closure) \subseteq live
      BY TreeFacts DEF Ancestors
    <3>3. \A x, y \in live : y \in Ancestors(x, closure) <=> <<y, x>> \in closure
      BY TreeFacts DEF Ancestors
    <3>4. QED
      BY <3>1, <3>2, <3>3
  <2>3. QED
    BY <2>1, <2>2, TreeFacts DEF ClosureExact
<1>2. QED
  BY <1>1, TreeInvariant, PTL

Smaller == {pair \in Nat \X Nat : pair[1] < pair[2]}

\* The natural numbers are well ordered.
LEMMA LeastNumber ==
  ASSUME NEW S \in SUBSET Nat, S # {}
  PROVE  \E n \in S : \A m \in S : n <= m
<1>1. IsWellFoundedOn(Smaller, Nat)
  BY NatLessThanWellFounded DEF OpToRel, Smaller
<1>2. PICK n \in S : \A m \in S : ~ (<<m, n>> \in Smaller)
  BY <1>1, WFMin
<1>3. \A m \in S : ~ (m < n)
  BY <1>2 DEF Smaller
<1>4. QED
  BY <1>3

\* Following parents from any folder leads to the root: of the folders of a set
\* the one with the fewest ancestors has its parent outside.
THEOREM TreeStaysRooted == TreeSpec => []TreeRooted
<1>1. TreeInv => TreeRooted
  <2> SUFFICES ASSUME TreeInv, NEW S \in SUBSET (live \ {Root}), S # {}
               PROVE  \E f \in S : parent[f] \in live \ S
    BY DEF TreeRooted
  <2> DEFINE above(f) == {y \in live : <<y, f>> \in closure}
             c == [f \in live |-> Cardinality(above(f))]
  <2>1. \A f \in live : IsFiniteSet(above(f)) /\ c[f] \in Nat
    BY FS_Subset, FS_CardinalityType DEF TreeInv
  <2>2. ASSUME NEW f \in live \ {Root}
        PROVE  parent[f] \in live /\ c[parent[f]] < c[f]
    <3>1. /\ parent[f] \in live /\ parent[f] # f
          /\ \A y \in live : <<y, f>> \in closure <=> y = f \/ <<y, parent[f]>> \in closure
      BY DEF TreeInv, IsTree
    <3>2. <<f, parent[f]>> \notin closure
      BY <3>1, TreeFacts
    <3>3. above(f) = above(parent[f]) \cup {f} /\ f \notin above(parent[f])
      BY <3>1, <3>2
    <3>4. IsFiniteSet(above(parent[f]))
      BY <2>1, <3>1
    <3> HIDE DEF above
    <3>5. Cardinality(above(f)) = Cardinality(above(parent[f])) + 1
      BY <3>3, <3>4, FS_AddElement
    <3>6. c[parent[f]] \in Nat /\ c[f] = c[parent[f]] + 1
      BY <2>1, <3>1, <3>5
    <3>7. QED
      BY <3>1, <3>6
  <2> HIDE DEF c
  <2> DEFINE N == {c[f] : f \in S}
  <2>3. N \in SUBSET Nat /\ N # {}
    BY <2>1
  <2>4. PICK n \in N : \A m \in N : n <= m
    BY <2>3, LeastNumber
  <2>5. PICK f \in S : n = c[f]
    OBVIOUS
  <2>6. parent[f] \in live /\ c[parent[f]] < c[f] /\ c[f] \in Nat /\ c[parent[f]] \in Nat
    BY <2>1, <2>2
  <2>7. parent[f] \notin S
    <3> SUFFICES ASSUME parent[f] \in S
                 PROVE  FALSE
      OBVIOUS
    <3>1. c[parent[f]] \in N
      OBVIOUS
    <3>2. n <= c[parent[f]]
      BY <2>4, <3>1
    <3> HIDE DEF N
    <3>3. QED
      BY <2>5, <2>6, <3>2
  <2>8. QED
    BY <2>6, <2>7
<1>2. QED
  BY <1>1, TreeInvariant, PTL
=============================================================================
