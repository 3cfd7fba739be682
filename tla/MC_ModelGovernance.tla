-------------------------- MODULE MC_ModelGovernance --------------------------
\* A bounded instance of Governance, of which a behaviour explores one part.
EXTENDS Governance, TLC

\* What a behaviour explores; the rest stays in its initial state.
VARIABLE explored

MCInit ==
    explored \in {"governance", "gateways"} /\ GovernanceInit

MCNext ==
    \/ explored = "governance" /\ Next /\ UNCHANGED <<explored, gateways>>
    \/ explored = "gateways" /\ Gateways!Next /\ UNCHANGED <<explored, vars>>

GoverningAndCalling == MCInit /\ [][MCNext]_<<explored, vars, gateways>>

Symmetry ==
    UNION {Permutations(S) : S \in {Profile, Admin, Process, Url}}
=============================================================================
