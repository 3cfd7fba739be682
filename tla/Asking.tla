------------------------------- MODULE Asking -------------------------------
(***************************************************************************)
(* Questions (AskStream) with the tools an agent calls while it answers     *)
(* (AskTools).  A question takes from a tool only sources that are visible  *)
(* when it returns, and a tool knows nothing of the question that calls it, *)
(* so a behaviour of one leaves the other where it is.                     *)
(***************************************************************************)
EXTENDS AskStream

CONSTANTS Root, Folder, Document, ToolChanges

\* Folders and documents are told apart, and from what is no folder.
ASSUME NamesAssumption ==
    /\ Root \notin Folder \cup Document
    /\ Folder \cap Document = {}
    /\ {"gone", "elsewhere"} \cap ({Root} \cup Folder \cup Document) = {}

VARIABLES parent, place, member, scope, tool, named, step, shown, seen, allowed, moved
tools == <<parent, place, member, scope, tool, named, step, shown, seen, allowed, moved>>
Tools == INSTANCE AskTools
             WITH ChangeCap <- ToolChanges, target <- named, changes <- moved

AskingInit == AskInit /\ Tools!Init

AskingNext ==
    \/ AskNext /\ UNCHANGED tools
    \/ Tools!Next /\ UNCHANGED askVars

AskingSpec == AskingInit /\ [][AskingNext]_<<askVars, tools>>

\* Whatever a tool tells the model was in the pinned scope, and the asker a
\* member, at some moment of the call: see AskTools.
ToolsInScope == Tools!ToolsInScope
=============================================================================
