---------------------------- MODULE KbMembership ----------------------------
(***************************************************************************)
(* Who belongs to one knowledge base, from its creation to its deletion.   *)
(*                                                                         *)
(* The owner hands out share links, changes roles, removes members, and    *)
(* archives, restores and deletes the knowledge base; members leave, write *)
(* and ask; anybody with a link joins; administrators disable accounts.    *)
(*                                                                         *)
(* Each request authorizes itself with a SELECT that locks nothing, and    *)
(* acts later: Begin is the first half, the action named for the request   *)
(* the second.  Accepting a link locks every link and its knowledge base   *)
(* before it reads them, and inserts the membership while it holds them;   *)
(* whoever writes those rows, or inserts one that references the knowledge *)
(* base, waits meanwhile.                                                  *)
(*                                                                         *)
(* Folders and documents are one flag, a member's conversations another.   *)
(* Users that joined have written audit events that reference them and are *)
(* never deleted.                                                          *)
(***************************************************************************)
EXTENDS Integers

CONSTANTS
  User,     \* user accounts
  Founder,  \* the user the knowledge base is created for
  Link,     \* bound: share links
  Tx        \* bound: requests at a time

ASSUME FounderAssumption == Founder \in User

Nothing == "nothing"

VARIABLES
  kb,       \* the row of ima.knowledge_bases
  account,  \* users that are active
  role,     \* kb_members.role, "none" without a row
  link,     \* rows of kb_share_links
  content,  \* whether there are folders but the root, or documents
  indexed,  \* whether a retrieval index was ever built
  chats,    \* members with conversations
  tx        \* requests between their two halves

data == <<content, indexed, chats>>
vars == <<kb, account, role, link, content, indexed, chats, tx>>

\* KbShareRole.
ShareRole == {"editor", "viewer"}

NoLink == [state |-> "none", role |-> "viewer"]
Idle == [kind |-> "idle", by |-> Founder, on |-> Nothing]

\* create_knowledge_base.
Init ==
  /\ kb = "active"
  /\ account = User
  /\ role = [u \in User |-> IF u = Founder THEN "owner" ELSE "none"]
  /\ link = [l \in Link |-> NoLink]
  /\ content = FALSE /\ indexed = FALSE /\ chats = {}
  /\ tx = [t \in Tx |-> Idle]

-----------------------------------------------------------------------------
(* Requests.                                                               *)

\* What a request acts on.
Objects(kind) ==
  CASE kind \in {"role", "remove"} -> User
    [] kind \in {"link", "revoke", "accept"} -> Link
    [] OTHER -> {Nothing}

Kind == {"role", "remove", "link", "revoke", "archive", "restore", "delete",
         "leave", "write", "ask", "accept"}

\* _require_member, _require_owner, load_membership.
Authorized(u, kind) ==
  /\ u \in account
  /\ \/ kind = "accept"
     \/ kind \in {"restore", "delete"} /\ role[u] = "owner"
     \/ /\ kb = "active"
        /\ \/ /\ kind \in {"role", "remove", "link", "revoke", "archive"}
              /\ role[u] = "owner"
           \/ kind = "leave" /\ role[u] \in {"editor", "viewer"}
           \/ kind = "write" /\ role[u] \in {"owner", "editor"}
           \/ kind = "ask" /\ role[u] # "none"

Begin(t) ==
  /\ tx[t] = Idle
  /\ \E u \in User, kind \in Kind :
       /\ Authorized(u, kind)
       /\ \E x \in Objects(kind) :
            tx' = [tx EXCEPT ![t] = [kind |-> kind, by |-> u, on |-> x]]
  /\ UNCHANGED <<kb, account, role, link, data>>

End(t) == tx' = [tx EXCEPT ![t] = Idle]

\* A request is refused, or its transaction aborted by an error.
Refuse(t) ==
  /\ tx[t] # Idle
  /\ End(t)
  /\ UNCHANGED <<kb, account, role, link, data>>

M_LinksFree == TRUE

\* Nobody is between matching a link and inserting the membership.
LinksFree == \A t \in Tx : tx[t].kind # "join"

-----------------------------------------------------------------------------
(* Members.                                                                *)

M_Manageable(u) == role[u] # "none"

\* The owner's own membership is neither changed nor removed.
Manageable(u) == role[u] \notin {"none", "owner"}

\* KbService.update_member_role.
ChangeRole(t) ==
  /\ tx[t].kind = "role"
  /\ Manageable(tx[t].on)
  /\ \E r \in ShareRole : role' = [role EXCEPT ![tx[t].on] = r]
  /\ End(t)
  /\ UNCHANGED <<kb, account, link, data>>

M_Referenced(u) == FALSE

\* conversations reference the membership ON DELETE RESTRICT.
Referenced(u) == u \in chats

\* The DELETE of a membership, an error if a conversation references it.
Drop(t, u) ==
  /\ ~Referenced(u)
  /\ role' = [role EXCEPT ![u] = "none"]
  /\ End(t)
  /\ UNCHANGED <<kb, account, link, data>>

\* KbService.remove_member.
Remove(t) ==
  /\ tx[t].kind = "remove"
  /\ Manageable(tx[t].on)
  /\ Drop(t, tx[t].on)

\* KbService.leave_knowledge_base: the role was checked before.
LeaveKb(t) ==
  /\ tx[t].kind = "leave"
  /\ Drop(t, tx[t].by)

-----------------------------------------------------------------------------
(* Links.                                                                  *)

\* KbService.create_share_link.
CreateLink(t) ==
  LET l == tx[t].on IN
  /\ LinksFree
  /\ tx[t].kind = "link"
  /\ kb # "deleted"
  /\ link[l].state = "none"
  /\ \E r \in ShareRole :
       link' = [link EXCEPT ![l] = [state |-> "open", role |-> r]]
  /\ End(t)
  /\ UNCHANGED <<kb, account, role, data>>

\* KbService.revoke_share_link.
Revoke(t) ==
  LET l == tx[t].on IN
  /\ LinksFree
  /\ tx[t].kind = "revoke"
  /\ link[l].state \in {"open", "expired"}
  /\ link' = [link EXCEPT ![l].state = "revoked"]
  /\ End(t)
  /\ UNCHANGED <<kb, account, role, data>>

\* expires_at passes.
Expire(l) ==
  /\ link[l].state = "open"
  /\ link' = [link EXCEPT ![l].state = "expired"]
  /\ UNCHANGED <<kb, account, role, data, tx>>

\* share_link_problem.
Admits(l) == link[l].state = "open" /\ kb = "active"

\* KbService.accept_share_link: the links and their knowledge base are locked
\* and read; a member keeps the role it has.
Match(t) ==
  /\ LinksFree
  /\ tx[t].kind = "accept"
  /\ Admits(tx[t].on)
  /\ role[tx[t].by] = "none"
  /\ tx' = [tx EXCEPT ![t].kind = "join"]
  /\ UNCHANGED <<kb, account, role, link, data>>

\* KbService.accept_share_link: the membership is inserted.
Join(t) ==
  LET u == tx[t].by IN
  /\ tx[t].kind = "join"
  /\ role' = [role EXCEPT ![u] = IF @ = "none" THEN link[tx[t].on].role ELSE @]
  /\ End(t)
  /\ UNCHANGED <<kb, account, link, data>>

-----------------------------------------------------------------------------
(* The knowledge base.                                                     *)

\* KbService.archive_knowledge_base.
Archive(t) ==
  /\ LinksFree
  /\ tx[t].kind = "archive"
  /\ kb = "active"
  /\ kb' = "archived"
  /\ End(t)
  /\ UNCHANGED <<account, role, link, data>>

\* KbService.restore_knowledge_base.
Restore(t) ==
  /\ LinksFree
  /\ tx[t].kind = "restore"
  /\ kb = "archived"
  /\ kb' = "active"
  /\ End(t)
  /\ UNCHANGED <<account, role, link, data>>

M_Deletable == kb = "archived"

\* Nothing is left but members, links and the root folder.
Deletable == kb = "archived" /\ ~content

\* KbService.delete_archived_knowledge_base: conversations and index rows are
\* neither asked for nor deleted, and reference what is ON DELETE RESTRICT.
Delete(t) ==
  /\ LinksFree
  /\ tx[t].kind = "delete"
  /\ Deletable
  /\ ~indexed /\ \A u \in User : ~Referenced(u)
  /\ kb' = "deleted"
  /\ role' = [u \in User |-> "none"]
  /\ link' = [l \in Link |-> NoLink]
  /\ End(t)
  /\ UNCHANGED <<account, data>>

-----------------------------------------------------------------------------
(* What members do with it.                                                *)

\* A folder or document is created: it references the knowledge base.
Write(t) ==
  /\ LinksFree
  /\ tx[t].kind = "write"
  /\ kb # "deleted"
  /\ content' = TRUE
  /\ End(t)
  /\ UNCHANGED <<kb, account, role, link, indexed, chats>>

\* The last folder or document is deleted.
Clear(t) ==
  /\ tx[t].kind = "write"
  /\ content
  /\ content' = FALSE
  /\ End(t)
  /\ UNCHANGED <<kb, account, role, link, indexed, chats>>

\* An index of the content is built, by a task.  One that reads the content
\* just before it is deleted leaves what Index and then Clear leave.
Index ==
  /\ LinksFree
  /\ content /\ ~indexed
  /\ indexed' = TRUE
  /\ UNCHANGED <<kb, account, role, link, content, chats, tx>>

\* A conversation is created: it references the membership.
Ask(t) ==
  /\ LinksFree
  /\ tx[t].kind = "ask"
  /\ role[tx[t].by] # "none"
  /\ chats' = chats \cup {tx[t].by}
  /\ End(t)
  /\ UNCHANGED <<kb, account, role, link, content, indexed>>

\* A member deletes the last of its conversations.
Forget(t) ==
  /\ tx[t].kind = "ask"
  /\ tx[t].by \in chats
  /\ chats' = chats \ {tx[t].by}
  /\ End(t)
  /\ UNCHANGED <<kb, account, role, link, content, indexed>>

\* An administrator disables or restores an account.
Switch(u) ==
  /\ account' = IF u \in account THEN account \ {u} ELSE account \cup {u}
  /\ UNCHANGED <<kb, role, link, data, tx>>

-----------------------------------------------------------------------------
Step(t) ==
  \/ Begin(t) \/ Refuse(t) \/ ChangeRole(t) \/ Remove(t) \/ LeaveKb(t)
  \/ CreateLink(t) \/ Revoke(t) \/ Match(t) \/ Join(t) \/ Archive(t)
  \/ Restore(t) \/ Delete(t) \/ Write(t) \/ Clear(t) \/ Ask(t) \/ Forget(t)

Next ==
  \/ \E t \in Tx : Step(t)
  \/ \E l \in Link : Expire(l)
  \/ \E u \in User : Switch(u)
  \/ Index

Spec == Init /\ [][Next]_vars

-----------------------------------------------------------------------------
Request ==
  [kind : Kind \cup {"idle", "join"}, by : User, on : User \cup Link \cup {Nothing}]

\* Every variable holds a value its column or request can hold; a link never
\* confers ownership.
TypeOK ==
  /\ kb \in {"active", "archived", "deleted"}
  /\ account \subseteq User
  /\ role \in [User -> {"none", "viewer", "editor", "owner"}]
  /\ link \in [Link -> [state : {"none", "open", "expired", "revoked"},
                        role : {"editor", "viewer"}]]
  /\ content \in BOOLEAN /\ indexed \in BOOLEAN
  /\ chats \subseteq User
  /\ tx \in [Tx -> Request]

\* A knowledge base always has one owner, the one it was created for, however
\* leaving, removing and role changes overlap (remove_member,
\* leave_knowledge_base, update_member_role).
OneOwner ==
  kb # "deleted" => \A u \in User : role[u] = "owner" <=> u = Founder

\* Whoever becomes a member does so by a link that is not revoked, with the
\* role it confers, and while the knowledge base is active: revocation and
\* archival shut out requests that are half way (accept_share_link).
JoinedByLink ==
  [][\A u \in User : role[u] = "none" /\ role'[u] # "none" =>
       /\ kb = "active"
       /\ \E l \in Link : /\ link[l].state \in {"open", "expired"}
                          /\ link[l].role = role'[u]]_vars

\* Deleting a knowledge base takes no content, conversation or index with it,
\* also when a member was authorized to write before it was archived
\* (delete_archived_knowledge_base, create_folder).
NothingLost == kb = "deleted" => ~content /\ ~indexed /\ chats = {}

\* Whoever has conversations is a member: nobody is removed, or leaves, while
\* a question is being asked (ask, remove_member, leave_knowledge_base).
ChatsHaveMembers == \A u \in chats : role[u] # "none"

\* An archived knowledge base without folders and documents can be deleted.
\* The code does not keep this.
EmptyCanBeDeleted ==
  Deletable => ~indexed /\ \A u \in User : ~Referenced(u)

=============================================================================
