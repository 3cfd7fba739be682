------------------------------- MODULE Gateways -------------------------------
(***************************************************************************)
(* Model gateways, the credentials they keep and the calls that use them:   *)
(* application/model_governance.py, infrastructure/model_gateway and the    *)
(* command rotate-model-secrets (cli.py).                                   *)
(*                                                                         *)
(* A call reads an address in one transaction and the credential in the     *)
(* next, and then sends both.  Credentials are encrypted with a version of  *)
(* the deployment's key; the operator adds a version, restarts every        *)
(* process, re-encrypts (docs/model-governance.md, Key Ring), and takes the *)
(* old versions out.  Row versions refuse an edit that came too late and    *)
(* are left out: an edit here is one that came in time.                     *)
(***************************************************************************)
EXTENDS Naturals, FiniteSets, Sequences, Functions

CONSTANTS
    Gateway, Secret,    \* ids, of which none is used twice
    Url, Credential,
    Process,            \* API and worker processes
    Inputs,             \* texts embedded or ranked by one call
    MaxChunks,          \* max_response_bytes, in the chunks an answer comes in
    KeyCap              \* bound: versions of the deployment's key

VARIABLES
    gateway,            \* model_gateways
    secret,             \* model_gateway_secrets
    deployed,           \* the configured key ring
    running,            \* the key ring each process was started with
    rotation,           \* rotate-model-secrets apply, and what it has locked
    call                \* the call each process makes

stored == <<gateway, secret>>
vars == <<stored, deployed, running, rotation, call>>

Absent == [life |-> "absent"]
Deleted == [life |-> "deleted"]
NoSecret == [of |-> "nothing"]
Idle == [at |-> "idle"]

Ring(keys, current) == [keys |-> keys, current |-> current]
First == Ring({1}, 1)

Init ==
    /\ gateway = [g \in Gateway |-> Absent]
    /\ secret = [s \in Secret |-> NoSecret]
    /\ deployed = First
    /\ running = [p \in Process |-> First]
    /\ rotation = Idle
    /\ call = [p \in Process |-> Idle]

-----------------------------------------------------------------------------
(* Administrators.  Each operation locks the gateway for one transaction,   *)
(* which the rows that a rotation has re-encrypted keep waiting.            *)

Exists(g) == gateway[g].life = "gateway"
Locked(g) == rotation.at = "applying" /\ gateway[g].secret \cap rotation.done # {}
Unlocked(g) == Exists(g) /\ ~Locked(g)

Envelope(g, credential, ring) ==
    [of |-> "gateway", gateway |-> g, credential |-> credential, key |-> ring.current]

Unused == {s \in Secret : secret[s] = NoSecret}

CreateGateway(p, g, u, s, c) ==
    /\ gateway[g] = Absent /\ s \in Unused
    /\ gateway' = [gateway EXCEPT ![g] = [life |-> "gateway", url |-> u, secret |-> {s}]]
    /\ secret' = [secret EXCEPT ![s] = Envelope(g, c, running[p])]
    /\ UNCHANGED <<deployed, running, rotation, call>>

CreateOpenGateway(g, u) ==
    /\ gateway[g] = Absent
    /\ gateway' = [gateway EXCEPT ![g] = [life |-> "gateway", url |-> u, secret |-> {}]]
    /\ UNCHANGED <<secret, deployed, running, rotation, call>>

\* The credential before stays behind in a row of its own.
RotateSecret(p, g, s, c) ==
    /\ Unlocked(g) /\ s \in Unused
    /\ secret' = [secret EXCEPT ![s] = Envelope(g, c, running[p])]
    /\ gateway' = [gateway EXCEPT ![g].secret = {s}]
    /\ UNCHANGED <<deployed, running, rotation, call>>

UpdateGateway(g, u) ==
    /\ Unlocked(g)
    /\ gateway' = [gateway EXCEPT ![g].url = u]
    /\ UNCHANGED <<secret, deployed, running, rotation, call>>

\* A gateway that no model refers to; its credentials stay behind.
DeleteGateway(g) ==
    /\ Unlocked(g)
    /\ gateway' = [gateway EXCEPT ![g] = Deleted]
    /\ UNCHANGED <<secret, deployed, running, rotation, call>>

-----------------------------------------------------------------------------
(* The key ring *)

\* A new version to encrypt with, beside those that decrypt
AddKey ==
    /\ rotation.at # "applying"
    /\ \A p \in Process : running[p] = deployed
    /\ deployed.current < KeyCap
    /\ deployed' = Ring(deployed.keys \cup {deployed.current + 1}, deployed.current + 1)
    /\ rotation' = Idle
    /\ UNCHANGED <<stored, running, call>>

\* A process that is restarted loses its call.
Restart(p) ==
    /\ running' = [running EXCEPT ![p] = deployed]
    /\ call' = [call EXCEPT ![p] = Idle]
    /\ UNCHANGED <<stored, deployed, rotation>>

\* Once every process has the ring the operator applies it.
BeginApply ==
    /\ rotation = Idle
    /\ \A p \in Process : running[p] = deployed
    /\ rotation' = [at |-> "applying", todo |-> Secret \ Unused, done |-> {}]
    /\ UNCHANGED <<stored, deployed, running, call>>

\* The row is locked with the gateway that refers to it, if one still does;
\* what cannot be decrypted is a failure, and is not applied.
InUse(s) == \E g \in Gateway : Exists(g) /\ s \in gateway[g].secret

ApplyTo(s) ==
    /\ rotation.at = "applying" /\ s \in rotation.todo
    /\ InUse(s) => secret[s].key \in deployed.keys
    /\ rotation' = [rotation EXCEPT !.todo = @ \ {s},
                                    !.done = IF InUse(s) THEN @ \cup {s} ELSE @]
    /\ UNCHANGED <<stored, deployed, running, call>>

Reencrypted(envelope) == [envelope EXCEPT !.key = deployed.current]

\* All rows are written by one transaction.
Applied ==
    /\ rotation.at = "applying" /\ rotation.todo = {}
    /\ secret' = [s \in Secret |-> IF s \in rotation.done THEN Reencrypted(secret[s])
                                   ELSE secret[s]]
    /\ rotation' = [at |-> "applied"]
    /\ UNCHANGED <<gateway, deployed, running, call>>

\* The command dies, or the database refuses its transaction.
ApplyFails ==
    /\ rotation.at = "applying"
    /\ rotation' = Idle
    /\ UNCHANGED <<stored, deployed, running, call>>

\* Nothing failed, so the versions before are no longer needed.
RetireKeys ==
    /\ rotation.at = "applied"
    /\ deployed' = Ring({deployed.current}, deployed.current)
    /\ rotation' = Idle
    /\ UNCHANGED <<stored, running, call>>

-----------------------------------------------------------------------------
(* Calls: managed_chat, managed_embeddings, managed_rerank, discover and     *)
(* probe                                                                     *)

Goes(p, c) ==
    /\ call' = [call EXCEPT ![p] = c]
    /\ UNCHANGED <<stored, deployed, running, rotation>>

Credentials(g) == {secret[s].credential : s \in gateway[g].secret}

\* The call remembers, as a history, what was stored with its address.
ReadGateway(p, g) ==
    /\ call[p] = Idle
    /\ Exists(g)
    /\ Goes(p, [at |-> "read", gateway |-> g, url |-> gateway[g].url,
                secret |-> gateway[g].secret, meant |-> Credentials(g)])

\* The gateway's credential of the moment would be decrypted.
M_Secrets(p) == IF Exists(call[p].gateway) THEN gateway[call[p].gateway].secret ELSE {}

\* The rows _decrypt_secret reads
Secrets(p) == call[p].secret

Decrypts(p, s) ==
    /\ secret[s].key \in running[p].keys
    /\ secret[s].gateway = call[p].gateway

Decrypt(p) ==
    /\ call[p].at = "read"
    /\ Goes(p, IF \A s \in Secrets(p) : Decrypts(p, s)
               THEN [at |-> "sent", url |-> call[p].url, meant |-> call[p].meant,
                     bearer |-> {secret[s].credential : s \in Secrets(p)}]
               ELSE Idle)

Index == 0..Inputs

\* Each item has the index of an input and its vector, in any order; an answer
\* may miss inputs, repeat one, or name one that was not sent.
Answers == UNION {[1..n -> Index] : n \in 0..Inputs + 1}

Complete(items) ==
    /\ Len(items) = Inputs
    /\ {items[i] : i \in 1..Inputs} = Index \ {Inputs}

\* Vectors are returned in the order of the inputs.
Aligned(items) == [n \in 1..Inputs |-> CHOOSE v \in {items[i] : i \in 1..Inputs} : v = n - 1]

Respond(p, items) ==
    /\ call[p].at = "sent"
    /\ Goes(p, IF Complete(items) THEN [at |-> "answered", vectors |-> Aligned(items)]
               ELSE Idle)

\* Scores of documents that were sent; an answer may repeat or leave out some.
RespondRerank(p, items) ==
    /\ call[p].at = "sent"
    /\ Goes(p, IF \A i \in DOMAIN items : items[i] < Inputs
               THEN [at |-> "ranked", ranks |-> Range(items)] ELSE Idle)

\* A chat answers at once, with choices,
RespondChat(p) ==
    /\ call[p].at = "sent"
    /\ Goes(p, [at |-> "replied"])

\* or in chunks, each passed on when it arrives, unless they exceed the limit.
BeginStream(p) ==
    /\ call[p].at = "sent"
    /\ Goes(p, [at |-> "streaming", passed |-> 0])

Chunk(p) ==
    /\ call[p].at = "streaming"
    /\ Goes(p, IF call[p].passed + 1 > MaxChunks THEN Idle
               ELSE [call[p] EXCEPT !.passed = @ + 1])

\* A refused, failed, redirected, oversized or late request ends the call.
Refuse(p) == call[p].at \in {"sent", "streaming"} /\ Goes(p, Idle)

Return(p) == call[p].at \in {"answered", "ranked", "replied"} /\ Goes(p, Idle)

-----------------------------------------------------------------------------
Administering ==
    \E g \in Gateway :
        \/ DeleteGateway(g)
        \/ \E u \in Url : UpdateGateway(g, u) \/ CreateOpenGateway(g, u)
        \/ \E p \in Process, s \in Secret, c \in Credential :
             \/ RotateSecret(p, g, s, c)
             \/ \E u \in Url : CreateGateway(p, g, u, s, c)

Rotating ==
    \/ AddKey \/ BeginApply \/ Applied \/ ApplyFails \/ RetireKeys
    \/ \E s \in Secret : ApplyTo(s)
    \/ \E p \in Process : Restart(p)

Calling ==
    \E p \in Process :
        \/ \E g \in Gateway : ReadGateway(p, g)
        \/ Decrypt(p) \/ Refuse(p) \/ Return(p)
        \/ RespondChat(p) \/ BeginStream(p) \/ Chunk(p)
        \/ /\ call[p].at = "sent"
           /\ \E items \in Answers : Respond(p, items) \/ RespondRerank(p, items)

Next == Administering \/ Rotating \/ Calling

Spec == Init /\ [][Next]_vars

-----------------------------------------------------------------------------
TypeOK ==
    /\ gateway \in [Gateway -> {Absent, Deleted} \cup
         [life : {"gateway"}, url : Url, secret : {{}} \cup {{s} : s \in Secret}]]
    /\ secret \in [Secret -> {NoSecret} \cup
         [of : {"gateway"}, gateway : Gateway, credential : Credential, key : 1..KeyCap]]
    /\ deployed.current \in deployed.keys /\ deployed.keys \subseteq 1..KeyCap
    /\ \A p \in Process : running[p].current \in running[p].keys

\* A call sends the credential that was stored together with the address it
\* goes to, although it reads the two in different transactions between which
\* the address and the credential may be replaced and encrypted anew, or sends
\* none; and the vectors it returns are those of its inputs, in their order, the
\* ranks those of its documents, and a stream no longer than the limit.
CallsSound ==
    \A p \in Process :
        /\ call[p].at = "sent" => call[p].bearer = call[p].meant
        /\ call[p].at = "answered" => call[p].vectors = [n \in 1..Inputs |-> n - 1]
        /\ call[p].at = "ranked" => call[p].ranks \subseteq 0..(Inputs - 1)
        /\ call[p].at = "streaming" => call[p].passed <= MaxChunks

\* Every credential in use can be decrypted with the deployed key ring, whatever
\* was created, replaced or deleted while it was rotated.
CredentialsReadable ==
    \A g \in Gateway : Exists(g) =>
        \A s \in gateway[g].secret : secret[s].key \in deployed.keys

\* A gateway is used as it was configured, and stays usable.
GatewaysSound == CallsSound /\ CredentialsReadable
=============================================================================
