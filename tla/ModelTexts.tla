----------------------------- MODULE ModelTexts -----------------------------
(***************************************************************************)
(* application/search.py: the two texts an agent exchanges with its model, *)
(* the messages it sends (AgentContext) and the events of an answer        *)
(* (ChatEvents).  Neither reads what the other keeps.                      *)
(***************************************************************************)
EXTENDS ChatEvents, AgentContext

TextsInit == ChatInit /\ ContextInit

TextsNext ==
    \/ ChatNext /\ UNCHANGED contextVars
    \/ ContextNext /\ UNCHANGED chatVars

TextsSpec == TextsInit /\ [][TextsNext]_<<chatVars, contextVars>>

-----------------------------------------------------------------------------
\* What an agent hears of its model, however it arrives, is what was sent, and
\* what it sends its model is a valid conversation: see ChatEvents and
\* AgentContext.
ExchangesSound == DecodedWhole /\ ContextSound
=============================================================================
