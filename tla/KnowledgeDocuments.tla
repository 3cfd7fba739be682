-------------------------- MODULE KnowledgeDocuments --------------------------
(***************************************************************************)
(* application/knowledge.py: the notes of one folder as requests create,   *)
(* edit, move, delete and restore them in transactions that interleave,    *)
(* the pages a reader asks for meanwhile, and the write freeze of          *)
(* application/maintenance.py.                                             *)
(*                                                                         *)
(* The folder that is listed is "here", every other folder "there".  A key *)
(* is the place in the listing's order: that of lower(title), which an     *)
(* edit changes, or of the creation time, which several rows may share;    *)
(* ids are numbers in their order.  A cursor carries title.casefold(),     *)
(* which may have another place: that of the sharp s is "ss".  A request   *)
(* whose expected version does not match is refused and changes nothing,   *)
(* so the requests here are those that match.                              *)
(***************************************************************************)
EXTENDS Naturals, FiniteSets

CONSTANTS
    Document, Subfolder,    \* ids, of documents and of folders "here"
    Key, Tx,
    Folded,         \* the place of the key a cursor carries for a row's key
    Kinds,          \* which listings a reader asks for: "any" or "note"
    Limit,          \* items of a page
    VersionCap      \* bound: versions of a document

ASSUME DocumentAssumption ==
    /\ Document \subseteq Nat /\ Subfolder \subseteq Nat /\ Key \subseteq Nat
    /\ IsFiniteSet(Document) /\ IsFiniteSet(Subfolder)
    /\ Document \cap Subfolder = {}
    /\ Folded \in [Key -> Nat]
    /\ Limit \in Nat \ {0} /\ VersionCap \in Nat \ {0}

VARIABLES
    frozen,     \* system_settings.maintenance_write_freeze
    documents,  \* documents, with the number of the current content
    shelf,      \* the sort key of each folder "here"
    tx,         \* what each open transaction has read
    reader      \* a listing: its cursor, and what its pages showed

documentsVars == <<frozen, documents, shelf, tx, reader>>

Place == {"here", "there"}
Item == Document \cup Subfolder

Absent == [at |-> "absent"]
Deleted == [at |-> "deleted"]
Idle == [at |-> "idle"]

DocumentsInit ==
    /\ frozen = FALSE
    /\ documents = [d \in Document |-> Absent]
    /\ shelf \in [Subfolder -> Key]
    /\ tx = [t \in Tx |-> Idle]
    /\ reader = Idle

Live(d) == documents[d].at \in Place

-----------------------------------------------------------------------------
(* Row locks.  SELECT ... FOR UPDATE of a document joined with its folder   *)
(* locks both rows; the triggers that count a folder's changes lock it too. *)

\* The read before an edit takes no lock.
M_Free(t, docs, places) == TRUE

Free(t, docs, places) ==
    \A u \in Tx \ {t} : tx[u].at \in {"patching", "deleting"} =>
        tx[u].doc \notin docs /\ documents[tx[u].doc].at \notin places

Sets(t, record) == tx' = [tx EXCEPT ![t] = record]

\* What bump_document_children_version takes for a change of the folder
Changed(rows) ==
    \E d \in Document :
      /\ rows[d] # documents[d]
      /\ "here" \in {rows[d].at, documents[d].at}
      /\ rows[d].at = documents[d].at => rows[d].key # documents[d].key

\* The rows are written: a listing on its way has an older version number, and,
\* as a history, fewer items that stay as they were.
Writes(rows) ==
    /\ documents' = rows
    /\ reader' = IF reader = Idle THEN Idle
                 ELSE [reader EXCEPT
                   !.fresh = @ /\ ~Changed(rows),
                   !.stays = @ \ {d \in Document : Changed([documents EXCEPT ![d] = rows[d]])}]

-----------------------------------------------------------------------------
(* Transactions *)

\* assert_mutation_allowed, in the transaction of the request
Admits(t) == tx[t] = Idle /\ ~frozen

CreateNote(t, d, key) ==
    /\ Admits(t)
    /\ documents[d] = Absent
    /\ \A u \in Tx : tx[u].at = "creating" => tx[u].doc # d
    /\ Sets(t, [at |-> "creating", doc |-> d, key |-> key])
    /\ UNCHANGED <<frozen, documents, shelf, reader>>

CommitCreated(t) ==
    /\ tx[t].at = "creating"
    /\ Free(t, {}, {"here"})
    /\ Writes([documents EXCEPT ![tx[t].doc] =
         [at |-> "here", key |-> tx[t].key, version |-> 1, content |-> 1]])
    /\ Sets(t, Idle)
    /\ UNCHANGED <<frozen, shelf>>

Patching(t, d, key, content) ==
    /\ Free(t, {d}, {documents[d].at})
    /\ documents[d].version < VersionCap
    /\ Sets(t, [at |-> "patching", doc |-> d, key |-> key, content |-> content,
                base |-> documents[d]])
    /\ UNCHANGED <<frozen, documents, shelf, reader>>

\* patch_document: a new title, new content, or both
PatchDocument(t, d, key, content) ==
    /\ Admits(t) /\ Live(d)
    /\ Patching(t, d, key, content)

CommitPatched(t) ==
    /\ tx[t].at = "patching"
    /\ LET r == tx[t]
           row == documents[r.doc]
       IN  Writes([documents EXCEPT ![r.doc] =
             [row EXCEPT !.key = r.key, !.version = @ + 1,
                       !.content = IF r.content THEN r.base.content + 1 ELSE @]])
    /\ Sets(t, Idle)
    /\ UNCHANGED <<frozen, shelf>>

\* restore_version reads the old text and the current version on a connection
\* of its own, and patches with what it read.
RestoreVersion(t, d) ==
    /\ tx[t] = Idle /\ Live(d)
    /\ Sets(t, [at |-> "restoring", doc |-> d, current |-> documents[d].content])
    /\ UNCHANGED <<frozen, documents, shelf, reader>>

PatchRestored(t) ==
    /\ tx[t].at = "restoring" /\ ~frozen
    /\ Live(tx[t].doc)
    /\ documents[tx[t].doc].content = tx[t].current
    /\ Patching(t, tx[t].doc, documents[tx[t].doc].key, TRUE)

\* move_document reads the document without a lock
MoveDocument(t, d) ==
    /\ Admits(t) /\ Live(d)
    /\ Sets(t, [at |-> "moving", doc |-> d, to |-> CHOOSE p \in Place : p # documents[d].at])
    /\ UNCHANGED <<frozen, documents, shelf, reader>>

\* and updates it, if it is still there, when nobody holds it or its folders.
CommitMoved(t) ==
    LET d == tx[t].doc
    IN  /\ tx[t].at = "moving"
        /\ Free(t, {d}, Place)
        /\ Live(d) => documents[d].version < VersionCap
        /\ Writes(IF Live(d)
                  THEN [documents EXCEPT ![d] =
                         [documents[d] EXCEPT !.at = tx[t].to, !.version = @ + 1]]
                  ELSE documents)
        /\ Sets(t, Idle)
        /\ UNCHANGED <<frozen, shelf>>

DeleteDocument(t, d) ==
    /\ Admits(t) /\ Live(d)
    /\ Free(t, {d}, {documents[d].at})
    /\ Sets(t, [at |-> "deleting", doc |-> d])
    /\ UNCHANGED <<frozen, documents, shelf, reader>>

CommitDeleted(t) ==
    /\ tx[t].at = "deleting"
    /\ Writes([documents EXCEPT ![tx[t].doc] = Deleted])
    /\ Sets(t, Idle)
    /\ UNCHANGED <<frozen, shelf>>

\* Refused, a deadlock victim, or the connection is lost.
Abort(t) ==
    /\ tx[t] # Idle
    /\ Sets(t, Idle)
    /\ UNCHANGED <<frozen, documents, shelf, reader>>

Freeze(on) ==
    /\ frozen' = on
    /\ UNCHANGED <<documents, shelf, tx, reader>>

-----------------------------------------------------------------------------
(* list_contents: one statement reads children_version, the next the page.  *)
(* As a history, shown counts how often an item came (2: more than once),   *)
(* stays has the items that did not change since, and cuts the cursors that *)
(* were used, each with the key of the row it was made from.                *)

KeyOf(i) == IF i \in Subfolder THEN shelf[i] ELSE documents[i].key

\* The rows of the listing: the folders and documents of "here"
Content(kind) ==
    {d \in Document : documents[d].at = "here"} \cup (IF kind = "any" THEN Subfolder ELSE {})

\* The id is left out of the comparison.
M_Beyond(key, i, last) == key > last.key

\* _keyset_where: later by key, or by id among the same key
Beyond(key, i, last) == key > last.key \/ (key = last.key /\ i > last.id)

\* ORDER BY the group, folders first, the key and the id
Before(i, j) ==
    IF (i \in Subfolder) # (j \in Subfolder) THEN i \in Subfolder
    ELSE KeyOf(i) < KeyOf(j) \/ (KeyOf(i) = KeyOf(j) /\ i < j)

Remaining ==
    LET rows == Content(reader.kind)
    IN  IF reader.last = {} THEN rows
        ELSE {i \in rows : \A last \in reader.last : Beyond(KeyOf(i), i, last)}

\* The first Limit of them
Page == {i \in Remaining : Cardinality({j \in Remaining : Before(j, i)}) < Limit}

StartListing(kind) ==
    /\ reader = Idle
    /\ reader' = [at |-> "read", kind |-> kind, fresh |-> TRUE, last |-> {},
                  shown |-> [i \in Item |-> 0], stays |-> {}, cuts |-> {}]
    /\ UNCHANGED <<frozen, documents, shelf, tx>>

ReadPage ==
    /\ reader.at = "read"
    /\ reader' = [reader EXCEPT
         !.shown = [i \in Item |-> IF i \in Page /\ @[i] < 2 THEN @[i] + 1 ELSE @[i]],
         !.stays = IF reader.last = {} THEN Content(reader.kind) ELSE @,
         !.cuts = @ \cup reader.last,
         !.last = {[key |-> Folded[KeyOf(i)], id |-> i, row |-> KeyOf(i)] :
                     i \in {j \in Page : \A k \in Page : ~Before(j, k)}},
         !.at = IF Page = Remaining THEN "finished" ELSE "cursor"]
    /\ UNCHANGED <<frozen, documents, shelf, tx>>

\* The cursor is refused unless children_version is the one it carries.
Continue ==
    /\ reader.at = "cursor"
    /\ reader' = IF reader.fresh THEN [reader EXCEPT !.at = "read"] ELSE Idle
    /\ UNCHANGED <<frozen, documents, shelf, tx>>

LeaveListing ==
    /\ reader.at \in {"cursor", "finished"}
    /\ reader' = Idle
    /\ UNCHANGED <<frozen, documents, shelf, tx>>

-----------------------------------------------------------------------------
DocumentsNext ==
    \/ \E t \in Tx :
         \/ CommitCreated(t) \/ CommitPatched(t) \/ CommitMoved(t) \/ CommitDeleted(t)
         \/ PatchRestored(t) \/ Abort(t)
         \/ \E d \in Document :
              \/ RestoreVersion(t, d) \/ MoveDocument(t, d) \/ DeleteDocument(t, d)
              \/ \E key \in Key :
                   \/ CreateNote(t, d, key)
                   \/ \E content \in BOOLEAN : PatchDocument(t, d, key, content)
    \/ \E on \in BOOLEAN : Freeze(on)
    \/ \E kind \in Kinds : StartListing(kind)
    \/ ReadPage \/ Continue \/ LeaveListing

DocumentsSpec == DocumentsInit /\ [][DocumentsNext]_documentsVars

-----------------------------------------------------------------------------
Rows == {Absent, Deleted} \cup
    [at : Place, key : Key, version : 1..VersionCap, content : 1..VersionCap]

DocumentsTypeOK ==
    /\ frozen \in BOOLEAN
    /\ documents \in [Document -> Rows]
    /\ shelf \in [Subfolder -> Key]
    /\ \A t \in Tx : tx[t] # Idle => tx[t].doc \in Document
    /\ reader # Idle => reader.stays \subseteq Item

\* An edit that is about to be committed replaces exactly the row its
\* transaction read, whatever moves, deletions, edits and restores of the same
\* document were under way: no version of the text is lost or numbered twice.
EditsReplaceWhatTheyRead ==
    \A t \in Tx : tx[t].at = "patching" => documents[tx[t].doc] = tx[t].base

\* The place of the row a cursor was made from
EndOf(cut) == [key |-> cut.row, id |-> cut.id]

\* It comes after the last row of a page, but not after what its cursor names,
SkippedBy(key, i, cuts) ==
    \E cut \in cuts : Beyond(key, i, EndOf(cut)) /\ ~Beyond(key, i, cut)

\* or the other way about.
RepeatedBy(key, i, cuts) ==
    \E cut \in cuts : ~Beyond(key, i, EndOf(cut)) /\ Beyond(key, i, cut)

\* A listing that was paged to its end shows every item that was there, with
\* the same key, from its first page to its last exactly once, also among
\* items of the same key and while others come, go and are renamed: one is
\* left out, or comes again, only if it lies between the last row of a page
\* and the folded title that list_contents resumes from.
PagesMeet ==
    reader.at = "finished" =>
      \A i \in reader.stays :
        /\ reader.shown[i] = 0 => SkippedBy(KeyOf(i), i, reader.cuts)
        /\ reader.shown[i] = 2 => RepeatedBy(KeyOf(i), i, reader.cuts)

\* What is asked of paging: under any sort nothing is left out and nothing
\* comes twice.
ListedOnce ==
    reader.at = "finished" => \A i \in reader.stays : reader.shown[i] = 1

\* Between two pages of a listing that goes on nothing in the folder changed.
PagesOfOneVersion ==
    [][reader.at = "cursor" /\ reader'.at = "read" =>
         reader.stays = {i \in Item : reader.shown[i] > 0} \cup Remaining]_documentsVars
=============================================================================
