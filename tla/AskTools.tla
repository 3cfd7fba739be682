------------------------------ MODULE AskTools ------------------------------
(***************************************************************************)
(* application/ask_tools.py: the tools a model may call while it answers a  *)
(* question: a search, the list of a folder and the headings of a document. *)
(* A conversation may be pinned to a folder or a document when it is begun, *)
(* and its tools must stay inside.  Each call checks and reads in several   *)
(* connections one after the other, while folders and documents are moved   *)
(* and deleted and the asker leaves and joins.                              *)
(*                                                                         *)
(* One knowledge base, with its folders and the documents in them or in     *)
(* another one.  What is found is not ranked here; see HybridSearch.        *)
(***************************************************************************)
EXTENDS Naturals, FiniteSets

CONSTANTS
    Root,           \* the root folder
    Folder,         \* the other folders
    Document,
    ChangeCap       \* bound: changes of the tree and of the membership

VARIABLES
    parent,         \* of a folder; "gone" when it is deleted
    place,          \* the folder of a document, "gone" or "elsewhere"
    member,         \* the asker's role allows to ask
    scope,          \* what the conversation is pinned to; {} for everything
    tool, target,   \* the call under way, and the folder and document it names
    step,
    shown,          \* what the last call returned
    seen, allowed,  \* history: what was in the scope since the call began, and
                    \* whether the asker was a member
    changes

tree == <<parent, place, member, changes>>
call == <<tool, target>>
history == <<seen, allowed>>
vars == <<tree, scope, call, step, shown, history>>

Live == {Root} \cup {f \in Folder : parent[f] # "gone"}
Here == {d \in Document : place[d] \in Live}

\* The subtree of a folder, itself included: folder_closure, which FolderTree
\* shows to be exact.
Below(top) ==
    {f \in {Root} \cup Folder :
        \A S \in SUBSET ({Root} \cup Folder) :
            top \in S /\ (\A g \in Folder : parent[g] \in S => g \in S) => f \in S}

\* What lies below some folders and is one of some documents, where there are any
Within(folders, documents) ==
    {d \in Here : /\ \A f \in folders : place[d] \in Below(f)
                  /\ documents # {} => d \in documents}

\* What a pinned conversation is about
InScope ==
    (IF scope \cap Document # {} THEN {}
     ELSE {f \in Live \ {Root} : \A top \in scope : f \in Below(top)})
    \cup Within(scope \ Document, scope \cap Document)

Init ==
    /\ parent = [f \in Folder |-> Root]
    /\ place \in [Document -> {Root, "elsewhere"}]
    /\ member = TRUE
    /\ scope = {} /\ tool = "none" /\ target = {} /\ step = "waiting"
    /\ shown = {} /\ seen = {} /\ allowed = FALSE
    /\ changes = 0

-----------------------------------------------------------------------------
(* Calls *)

\* _resolve_scope_title: what a conversation is pinned to is in the knowledge base.
Pin(pinned) ==
    /\ step = "waiting"
    /\ member
    /\ pinned \subseteq Live \cup Here
    /\ scope' = pinned
    /\ step' = "asking"
    /\ UNCHANGED <<tree, call, shown, history>>

M_Targets(wanted) == IF wanted # {} THEN {wanted} ELSE {scope}

\* _scoped_targets: the pinned folder or document, which a call may name but
\* not replace; without one, what the call names.  Nothing when it is refused.
Targets(wanted) ==
    IF scope = {} THEN {wanted}
    ELSE IF wanted \subseteq scope THEN {scope} ELSE {}

Begin(name, to) ==
    /\ step = "asking"
    /\ tool' = name /\ target' = to
    /\ step' = "authorize"
    /\ shown' = {}
    /\ seen' = InScope /\ allowed' = member
    /\ UNCHANGED <<tree, scope>>

\* _search: a folder and a document, both optional.
CallSearch(wanted) ==
    \E to \in Targets(wanted) : Begin("search", to)

\* _list_dir: of a folder, of the root when none is named.
CallList(wanted) ==
    \E to \in Targets(wanted) :
        /\ to \cap Document = {}
        /\ Begin("list", IF to = {} THEN {Root} ELSE to)

\* _document_outline: the folder that is pinned is looked at later.
CallOutline(d) ==
    /\ scope \cap Document \subseteq {d}
    /\ Begin("outline", {d})

Go(to) ==
    /\ step' = to
    /\ UNCHANGED <<tree, scope, call, shown, history>>

\* _authorize_kb
Authorize ==
    /\ step = "authorize" /\ member
    /\ Go("find")

\* What the call names is in the knowledge base; a search asks for the
\* membership again.
Find ==
    /\ step = "find"
    /\ target \subseteq Live \cup Here
    /\ tool = "search" => member
    /\ Go(IF tool = "outline" /\ scope \ Document # {} THEN "inside" ELSE "read")

\* The document lies in the pinned folder.
Inside ==
    /\ step = "inside"
    /\ target \subseteq Within(scope, {})
    /\ Go("read")

Show(items) ==
    /\ step = "read"
    /\ shown' = items
    /\ step' = "asking"
    /\ UNCHANGED <<tree, scope, call, history>>

ReadSearch ==
    /\ tool = "search"
    /\ Show(Within(target \ Document, target \cap Document))

\* list_contents looks for the folder and the membership itself,
ReadList ==
    /\ tool = "list" /\ member
    /\ \E f \in target \cap Live :
         Show({g \in Folder : parent[g] = f} \cup {d \in Document : place[d] = f})

\* and so does get_document.
ReadOutline ==
    /\ tool = "outline" /\ member
    /\ target \subseteq Here
    /\ Show(target)

\* A check fails, and the model is told so.
Deny ==
    /\ step \in {"authorize", "find", "inside", "read"}
    /\ \/ ~member
       \/ ~(target \subseteq Live \cup Here)
       \/ step = "inside" /\ ~(target \subseteq Within(scope, {}))
    /\ Go("asking")

-----------------------------------------------------------------------------
(* What happens meanwhile *)

\* What is in the scope, and the membership, are noted for the call.
Changed ==
    /\ changes < ChangeCap /\ changes' = changes + 1
    /\ UNCHANGED <<scope, call, step, shown>>
    /\ seen' = seen \cup InScope'
    /\ allowed' = (allowed \/ member')

MoveFolder(f, to) ==
    /\ f \in Live /\ to \in Live \ Below(f)
    /\ parent' = [parent EXCEPT ![f] = to]
    /\ UNCHANGED <<place, member>>
    /\ Changed

MoveDocument(d, to) ==
    /\ d \in Here /\ to \in Live
    /\ place' = [place EXCEPT ![d] = to]
    /\ UNCHANGED <<parent, member>>
    /\ Changed

DeleteFolder(f) ==
    /\ f \in Live /\ f \notin {parent[g] : g \in Folder} \cup {place[d] : d \in Document}
    /\ parent' = [parent EXCEPT ![f] = "gone"]
    /\ UNCHANGED <<place, member>>
    /\ Changed

DeleteDocument(d) ==
    /\ d \in Here
    /\ place' = [place EXCEPT ![d] = "gone"]
    /\ UNCHANGED <<parent, member>>
    /\ Changed

SwitchMember ==
    /\ member' = ~member
    /\ UNCHANGED <<parent, place>>
    /\ Changed

-----------------------------------------------------------------------------
Pins == {{}} \cup {{x} : x \in {Root} \cup Folder \cup Document}
Folders == {{}} \cup {{f} : f \in {Root} \cup Folder}
Documents == {{}} \cup {{d} : d \in Document}

Next ==
    \/ \E pinned \in Pins : Pin(pinned)
    \/ \E folder \in Folders, document \in Documents : CallSearch(folder \cup document)
    \/ \E folder \in Folders : CallList(folder)
    \/ \E d \in Document : CallOutline(d) \/ DeleteDocument(d)
    \/ Authorize \/ Find \/ Inside \/ ReadSearch \/ ReadList \/ ReadOutline \/ Deny
    \/ \E to \in {Root} \cup Folder :
         (\E f \in Folder : MoveFolder(f, to)) \/ (\E d \in Document : MoveDocument(d, to))
    \/ \E f \in Folder : DeleteFolder(f)
    \/ SwitchMember

Spec == Init /\ [][Next]_vars

-----------------------------------------------------------------------------
TypeOK ==
    /\ parent \in [Folder -> {Root, "gone"} \cup Folder]
    /\ place \in [Document -> {Root, "gone", "elsewhere"} \cup Folder]
    /\ scope \in Pins
    /\ step \in {"waiting", "asking", "authorize", "find", "inside", "read"}
    /\ shown \subseteq Folder \cup Document

\* Whatever a tool tells the model was in the pinned scope, and the asker a
\* member, at some moment of the call, although both are looked at in
\* connections of their own before anything is read.
ToolsInScope == shown # {} => allowed /\ shown \subseteq seen
=============================================================================
