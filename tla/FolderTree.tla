----------------------------- MODULE FolderTree -----------------------------
(***************************************************************************)
(* The folders of one knowledge base and their closure table, under        *)
(* concurrent API transactions.                                            *)
(*                                                                         *)
(* ima.folders holds the parent of every folder, ima.folder_closure one    *)
(* row for every ancestor and descendant.  Transactions run at READ        *)
(* COMMITTED: each statement reads what was committed when it began, waits *)
(* for rows that another transaction has locked or deleted, and skips      *)
(* those it finds deleted.  A closure row refers to two folders, and       *)
(* inserting it locks both FOR KEY SHARE, which a FOR UPDATE of another    *)
(* transaction keeps waiting.                                              *)
(*                                                                         *)
(* A transaction that waits for several rows takes them here in one step,  *)
(* when all are free: holding some of them earlier only makes others wait. *)
(* For the same reason the locks taken by the last statements are taken by *)
(* the step that commits.  Deadlock victims, refusals and broken           *)
(* connections are Abort.  Names, order keys, versions and depths are left *)
(* out: a stale version or a taken name only refuses the request.          *)
(***************************************************************************)
EXTENDS FiniteSets

CONSTANTS
  Root,    \* the root folder; its id is that of the knowledge base
  Folder,  \* every folder id that may be used, the root among them
  Txn       \* transactions that may be open at once

ASSUME RootAssumption == Root \in Folder

VARIABLES
  live,     \* the rows of ima.folders
  parent,   \* folders.parent_id
  closure,  \* the rows of ima.folder_closure: <<ancestor_id, descendant_id>>
  pc,       \* the last statement of each transaction
  op,       \* what it does
  folder,   \* the folder it creates, moves or deletes
  dest,     \* the folder it creates or moves it in
  del,      \* closure rows it has to delete, or has deleted
  ins       \* closure rows it inserts

committed == <<live, parent, closure>>
request   == <<op, folder, dest>>
treeVars == <<live, parent, closure, pc, op, folder, dest, del, ins>>

TreeInit ==
  /\ live = {Root}
  /\ parent = [f \in Folder |-> Root]
  /\ closure = {<<Root, Root>>}
  /\ pc = [t \in Txn |-> "idle"]
  /\ op = [t \in Txn |-> "none"]
  /\ folder = [t \in Txn |-> Root]
  /\ dest = [t \in Txn |-> Root]
  /\ del = [t \in Txn |-> {}]
  /\ ins = [t \in Txn |-> {}]

-----------------------------------------------------------------------------
(* What a transaction sees and holds.                                      *)

\* Rows it locked FOR UPDATE, or inserted.
Locked(t) == IF pc[t] = "idle" THEN {} ELSE {folder[t], dest[t]}

Free(t, S) == \A u \in Txn \ {t} : Locked(u) \cap S = {}

\* Closure rows it deleted and has not committed.
Deleted(t) == IF pc[t] \in {"deleted", "inserting"} THEN del[t] ELSE {}

Settled(t, rows) == \A u \in Txn \ {t} : Deleted(u) \cap rows = {}

\* The closure table as its statements see it.
View(t) == closure \ Deleted(t)

Ancestors(f, rows)   == {a \in Folder : <<a, f>> \in rows}
Descendants(f, rows) == {d \in Folder : <<f, d>> \in rows}

Goes(t, before, after) == pc[t] = before /\ pc' = [pc EXCEPT ![t] = after]

-----------------------------------------------------------------------------
\* SELECT ... FOR UPDATE of the folders a request names.
Lockable(t, f, d) == Free(t, {f, d})

Lock(t, what, f, d) ==
  /\ Goes(t, "idle", "locked")
  /\ Lockable(t, f, d)
  /\ op' = [op EXCEPT ![t] = what]
  /\ folder' = [folder EXCEPT ![t] = f]
  /\ dest' = [dest EXCEPT ![t] = d]
  /\ UNCHANGED <<committed, del, ins>>

\* KbService.create_folder: a new id in a live folder.
BeginCreate(t) ==
  \E f \in Folder \ live, d \in live : Lock(t, "create", f, d)

\* KbService.move_folder: the root does not move.
BeginMove(t) ==
  \E f \in live \ {Root}, d \in live : Lock(t, "move", f, d)

\* KbService.delete_folder.
BeginDelete(t) ==
  \E f \in live \ {Root} : Lock(t, "delete", f, f)

\* KbService.rename_folder, KbService.reorder_folder: the same lock, while a
\* folder and its rows stay where they are.
BeginRename(t) ==
  \E f \in live \ {Root} : Lock(t, "rename", f, f)

BeginReorder(t) ==
  \E f \in live \ {Root} : Lock(t, "reorder", f, f)

M_Acyclic(t) == folder[t] # dest[t]

\* A folder does not move into its own subtree.
Acyclic(t) == <<folder[t], dest[t]>> \notin closure

Check(t) ==
  /\ op[t] = "move"
  /\ Acyclic(t)
  /\ Goes(t, "locked", "checked")
  /\ UNCHANGED <<committed, request, del, ins>>

\* A folder that is deleted has no descendants.
CheckEmpty(t) ==
  /\ op[t] = "delete"
  /\ Descendants(folder[t], closure) \subseteq {folder[t]}
  /\ Goes(t, "locked", "checked")
  /\ UNCHANGED <<committed, request, del, ins>>

\* DELETE FROM folder_closure finds its rows: all that lead from above the
\* folder to its subtree.
FindRows(t) ==
  /\ op[t] = "move"
  /\ Goes(t, "checked", "deleting")
  /\ del' = [del EXCEPT ![t] =
       closure \cap ((Ancestors(folder[t], closure) \ {folder[t]})
                       \X Descendants(folder[t], closure))]
  /\ UNCHANGED <<committed, request, ins>>

\* It deletes them once no other transaction has; see Leave.
DeleteRows(t) ==
  /\ Goes(t, "deleting", "deleted")
  /\ Settled(t, del[t])
  /\ UNCHANGED <<committed, request, del, ins>>

\* INSERT INTO folder_closure ... SELECT: above the destination, below the
\* folder.
LinkSubtree(t) ==
  /\ op[t] = "move"
  /\ Goes(t, "deleted", "inserting")
  /\ ins' = [ins EXCEPT ![t] = Ancestors(dest[t], View(t))
                                 \X Descendants(folder[t], View(t))]
  /\ UNCHANGED <<committed, request, del>>

\* The rows of a new folder: itself, and below the ancestors of its parent.
LinkNew(t) ==
  /\ op[t] = "create"
  /\ Goes(t, "locked", "inserting")
  /\ ins' = [ins EXCEPT ![t] = (Ancestors(dest[t], closure) \cup {folder[t]})
                                 \X {folder[t]}]
  /\ UNCHANGED <<committed, request, del>>

-----------------------------------------------------------------------------
(* The end of a transaction.                                               *)

M_KeyShared(t, S) == S \subseteq live \cup {folder[t]}

\* The foreign keys of inserted rows: the folders exist, and no other
\* transaction has locked them FOR UPDATE.
KeyShared(t, S) == S \subseteq live \cup {folder[t]} /\ Free(t, S)

Ends(row) == {row[1], row[2]}

\* What the transaction leaves: nothing of its own, and rows that others
\* found and were waiting to delete are skipped by them.
Leave(t, rows) ==
  /\ pc' = [pc EXCEPT ![t] = "idle"]
  /\ op' = [op EXCEPT ![t] = "none"]
  /\ folder' = [folder EXCEPT ![t] = Root]
  /\ dest' = [dest EXCEPT ![t] = Root]
  /\ del' = [u \in Txn |-> IF u = t THEN {} ELSE del[u] \ rows]
  /\ ins' = [ins EXCEPT ![t] = {}]

\* The closure rows go in (ON CONFLICT DO NOTHING), the folder gets its
\* parent, and the transaction commits.
CommitLinked(t) ==
  /\ pc[t] = "inserting"
  /\ Settled(t, ins[t])
  /\ KeyShared(t, UNION {Ends(row) : row \in ins[t] \ View(t)})
  /\ closure' = View(t) \cup ins[t]
  /\ live' = live \cup {folder[t]}
  /\ parent' = [parent EXCEPT ![folder[t]] = dest[t]]
  /\ Leave(t, del[t])

\* ON DELETE CASCADE: the closure rows of a deleted folder go with it.
Cascade(t) == {row \in closure : folder[t] \in Ends(row)}

\* DELETE FROM folders: refused while a folder has it as parent.
CommitDeleted(t) ==
  /\ op[t] = "delete"
  /\ pc[t] = "checked"
  /\ \A f \in live \ {Root} : parent[f] # folder[t]
  /\ Settled(t, Cascade(t))
  /\ closure' = closure \ Cascade(t)
  /\ Leave(t, Cascade(t))
  /\ live' = live \ {folder[t]}
  /\ parent' = [parent EXCEPT ![folder[t]] = Root]

\* A new name, which refers to nothing.
CommitRenamed(t) ==
  /\ op[t] = "rename"
  /\ Leave(t, {})
  /\ UNCHANGED committed

\* New places among its siblings: whose rows that takes, it locks last.
CommitReordered(t) ==
  /\ op[t] = "reorder"
  /\ Leave(t, {})
  /\ UNCHANGED committed

\* Refused, a deadlock victim, or the connection is lost.
Abort(t) ==
  /\ pc[t] # "idle"
  /\ Leave(t, {})
  /\ UNCHANGED committed

-----------------------------------------------------------------------------
TreeNext ==
  \E t \in Txn :
    \/ BeginCreate(t) \/ BeginMove(t) \/ BeginDelete(t)
    \/ BeginRename(t) \/ BeginReorder(t)
    \/ Check(t) \/ CheckEmpty(t) \/ FindRows(t) \/ DeleteRows(t)
    \/ LinkSubtree(t) \/ LinkNew(t)
    \/ CommitLinked(t) \/ CommitDeleted(t)
    \/ CommitRenamed(t) \/ CommitReordered(t) \/ Abort(t)

TreeSpec == TreeInit /\ [][TreeNext]_treeVars

-----------------------------------------------------------------------------
\* Every variable holds a value its column or transaction can hold; del and
\* ins only name rows once their statement has begun.
TreeTypeOK ==
  /\ live \subseteq Folder /\ Root \in live
  /\ parent \in [Folder -> Folder]
  /\ closure \subseteq live \X live
  /\ pc \in [Txn -> {"idle", "locked", "checked", "deleting", "deleted",
                    "inserting"}]
  /\ op \in [Txn -> {"none", "create", "move", "delete",
                    "rename", "reorder"}]
  /\ folder \in [Txn -> Folder] /\ dest \in [Txn -> Folder]
  /\ del \in [Txn -> SUBSET (Folder \X Folder)]
  /\ ins \in [Txn -> SUBSET (Folder \X Folder)]

\* Following parents from any folder leads to the root: whatever moves,
\* creations and deletions run at once, no folder ends up in its own subtree
\* or below a deleted one (move_folder, delete_folder).
TreeRooted ==
  \A S \in SUBSET (live \ {Root}) :
    S # {} => \E f \in S : parent[f] \in live \ S

\* The closure rows of a folder are those of its parent and its own: the
\* closure table is the reflexive transitive closure of the parents, so
\* subtree searches, breadcrumbs and the checks of moves and deletions see
\* the tree as it is (create_folder, move_folder, delete_folder).
ClosureExact ==
  /\ Ancestors(Root, closure) = {Root}
  /\ \A f \in live \ {Root} :
       Ancestors(f, closure) = Ancestors(parent[f], closure) \cup {f}
  /\ closure \subseteq live \X live

=============================================================================
