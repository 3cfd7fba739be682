--------------------------- MODULE MC_McpService ----------------------------
(***************************************************************************)
(* Two families of behaviours of McpService for TLC.  In one, three calls  *)
(* meet for two slots while the principal, a token and the membership are  *)
(* revoked; in the other everything about credentials changes at any       *)
(* moment of a call.  Calls meet one another in their leases alone, so a   *)
(* second call beside all these changes would show nothing else.           *)
(***************************************************************************)
EXTENDS McpService, TLC

VARIABLE explored

Opening ==
    \/ CreatePrincipal \/ \E c \in Credential : CreateCredential(c)
    \/ \E x \in Exchange : CreateAccessToken(x)
    \/ \E x \in Exchange, c \in Credential : ExchangeCredential(x, c)

Revocation ==
    \/ RevokePrincipal \/ LoseMembership
    \/ \E x \in Exchange : RevokeToken(x)

Slots == Calling \/ Opening \/ Revocation

Secrets ==
    /\ Calling \/ Administration
    /\ Cardinality({k \in Call : at'[k] # "idle"}) <= 1

MCNext ==
    /\ \/ explored = "slots" /\ Slots
       \/ explored = "secrets" /\ Secrets
    /\ UNCHANGED explored

MCInit == McpInit /\ explored \in {"slots", "secrets"}

MCSpec == MCInit /\ [][MCNext]_<<mcpVars, explored>>

Symmetry == Permutations(Call) \cup Permutations(Credential)
=============================================================================
