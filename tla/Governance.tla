------------------------------ MODULE Governance ------------------------------
(***************************************************************************)
(* application/model_governance.py as a whole: the models and profiles of   *)
(* ModelGovernance and the gateways, credentials and calls of Gateways.  Of *)
(* each other they need only that a gateway serves, so a behaviour of one   *)
(* leaves the other where it is.                                           *)
(***************************************************************************)
EXTENDS ModelGovernance

CONSTANTS Gateway, Secret, Url, Credential, Process, Inputs, MaxChunks, KeyCap

ASSUME GatewaysAssumption ==
    Inputs \in Nat /\ MaxChunks \in Nat /\ KeyCap \in Nat \ {0}

VARIABLES gateway, secret, deployed, running, rotation, call
gateways == <<gateway, secret, deployed, running, rotation, call>>
Gateways == INSTANCE Gateways

GovernanceInit == Init /\ Gateways!Init

GovernanceNext ==
    \/ Next /\ UNCHANGED gateways
    \/ Gateways!Next /\ UNCHANGED vars

GovernanceSpec == GovernanceInit /\ [][GovernanceNext]_<<vars, gateways>>

\* A call sends a credential only where it belongs, takes as many answers as it
\* sent inputs, and finds no credential locked out by a rotation: see Gateways.
GatewaysSound == Gateways!GatewaysSound
=============================================================================
