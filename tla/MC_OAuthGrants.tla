--------------------------- MODULE MC_OAuthGrants ---------------------------
(* Instances of OAuthGrants for TLC. *)
EXTENDS OAuthGrants, TLC

Symmetry == Permutations(Exchange) \cup Permutations(Flow)
=============================================================================
