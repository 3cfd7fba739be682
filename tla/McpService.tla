----------------------------- MODULE McpService ------------------------------
(***************************************************************************)
(* One service principal at the MCP endpoint: its credentials and the      *)
(* access tokens exchanged for them (application/oauth.py,                 *)
(* infrastructure/oauth.py), and the tool calls it makes with either       *)
(* (application/mcp.py), as many at a time as concurrency leases allow.    *)
(*                                                                         *)
(* Time passes in ticks, and only where leases count it.  Nothing bounds   *)
(* how long a call waits for locks and connections after it has read the   *)
(* lease clock; once its operation has begun, asyncio.timeout ends it at   *)
(* most Timeout later.  Everything else that expires may do so at any time. *)
(***************************************************************************)
EXTENDS Integers, FiniteSets

CONSTANTS
    Credential,
    Exchange,       \* exchanges of a credential, and the tokens they issue
    Rotation,       \* rotations that may overlap
    Call,           \* requests that may overlap
    Limit,          \* min(limit, mcp_service_principals.concurrency_limit)
    Ttl, Timeout,
    WaitCap         \* bound: the ticks a call may have waited since that clock

ASSUME LimitAssumption == Limit \in Nat \ {0}
ASSUME CallAssumption == IsFiniteSet(Call)
ASSUME TimeAssumption == Ttl \in Nat /\ Timeout \in Nat /\ WaitCap \in Nat

VARIABLES
    owner,          \* is_active of the principal's owner
    member,         \* the owner's role allows the tool in the knowledge base
    principal,      \* mcp_service_principals.state
    credential,     \* mcp_credentials
    rotating,       \* the credential a rotation has found
    exchanging,     \* the credential an exchange has checked
    token,          \* mcp_access_tokens, with the credential they came from
    at, bearer,     \* calls, and whose bearer they lease for
    age,            \* ticks since a call has read the lease clock
    left,           \* mcp_concurrency_leases: ticks until they expire
    anchors,        \* credentials with an anchor row in mcp_access_tokens
    budget          \* ticks until the operation of a call is cancelled

secrets == <<credential, rotating, exchanging, token>>
policy == <<owner, member, principal>>
leases == <<left, anchors>>
calls == <<at, bearer, age, leases, budget>>
mcpVars == <<policy, secrets, calls>>

None == "none"
NoLease == -WaitCap     \* no clock that is still in use counts it

McpInit ==
    /\ owner = "active" /\ member = TRUE
    /\ principal = "absent"
    /\ credential = [c \in Credential |-> "absent"]
    /\ rotating = [r \in Rotation |-> {}]
    /\ exchanging = [x \in Exchange |-> {}]
    /\ token = [x \in Exchange |-> "absent"]
    /\ at = [k \in Call |-> "idle"]
    /\ bearer = [k \in Call |-> {}]
    /\ age = [k \in Call |-> 0]
    /\ left = [k \in Call |-> NoLease]
    /\ anchors = {}
    /\ budget = [k \in Call |-> 0]

-----------------------------------------------------------------------------
(* The principal and its first credential, in two transactions *)

SetPrincipalState(from, to) ==
    /\ principal = from
    /\ principal' = to
    /\ UNCHANGED <<owner, member, secrets, calls>>

CreatePrincipal ==
    /\ owner = "active"
    /\ SetPrincipalState("absent", "active")

Unissued == {c \in Credential : credential[c] = "absent"}

CreateCredential(c) ==
    /\ principal = "active" /\ Unissued = Credential
    /\ credential' = [credential EXCEPT ![c] = "live"]
    /\ UNCHANGED <<policy, rotating, exchanging, token, calls>>

\* A principal whose credential was not created is revoked again.
FailCreation ==
    /\ Unissued = Credential
    /\ SetPrincipalState("active", "revoked")

RevokePrincipal ==
    /\ Unissued # Credential
    /\ SetPrincipalState("active", "revoked")

DisableOwner ==
    /\ owner' = IF owner = "active" THEN "disabled" ELSE "active"
    /\ UNCHANGED <<member, principal, secrets, calls>>

LoseMembership ==
    /\ member' = ~member
    /\ UNCHANGED <<owner, principal, secrets, calls>>

-----------------------------------------------------------------------------
(* Credentials *)

\* "overlap": replaced and still accepted; "over": that time has passed.
Found(c) == principal = "active" /\ credential[c] \in {"live", "overlap"}

FindToRotate(r, c) ==
    /\ rotating[r] = {} /\ Found(c)
    /\ rotating' = [rotating EXCEPT ![r] = {c}]
    /\ UNCHANGED <<policy, credential, exchanging, token, calls>>

\* rotate_credential asks again whether the credential is revoked, but not
\* whether it was replaced.
Rotate(r, keeps) ==
    \E c \in rotating[r], new \in Unissued :
        /\ credential[c] # "revoked" /\ principal = "active"
        /\ credential' = [credential EXCEPT
             ![c] = IF keeps THEN "overlap" ELSE "revoked", ![new] = "live"]
        /\ rotating' = [rotating EXCEPT ![r] = {}]
        /\ UNCHANGED <<policy, exchanging, token, calls>>

OverlapEnds(c) ==
    /\ credential[c] = "overlap"
    /\ credential' = [credential EXCEPT ![c] = "over"]
    /\ UNCHANGED <<policy, rotating, exchanging, token, calls>>

Revoked(c) == [credential EXCEPT ![c] = "revoked"]

RevokeCredential(c) ==
    /\ Found(c)
    /\ credential' = Revoked(c)
    /\ UNCHANGED <<policy, rotating, exchanging, token, calls>>

\* The condition of exchange_credential and of resolve_credential_bearer
Valid(c) == credential[c] \in {"live", "overlap"} /\ principal = "active" /\ owner = "active"

ExchangeCredential(x, c) ==
    /\ exchanging[x] = {} /\ token[x] = "absent"
    /\ Valid(c)
    /\ exchanging' = [exchanging EXCEPT ![x] = {c}]
    /\ UNCHANGED <<policy, credential, rotating, token, calls>>

\* Issued in a transaction of its own, which locks the principal and does not
\* look at the credential; the exchange remembers whose token it is.
CreateAccessToken(x) ==
    /\ exchanging[x] # {} /\ token[x] = "absent"
    /\ principal = "active"
    /\ token' = [token EXCEPT ![x] = "live"]
    /\ UNCHANGED <<policy, credential, rotating, exchanging, calls>>

RevokeToken(x) ==
    /\ token[x] = "live"
    /\ token' = [token EXCEPT ![x] = "revoked"]
    /\ UNCHANGED <<policy, credential, rotating, exchanging, calls>>

-----------------------------------------------------------------------------
(* Tool calls *)

Moves(k, from, to) == at[k] = from /\ at' = [at EXCEPT ![k] = to]

\* load_service_principal
Loaded == principal = "active"

\* resolve_credential_bearer: a credential may be presented itself.
Resolved(c) == c \in Credential /\ Valid(c)

\* authenticate_bearer: load_access_token first, then the credentials
BearerAccepted(b) ==
    \/ b \in Exchange /\ token[b] = "live" /\ Loaded /\ owner = "active"
    \/ Resolved(b)

\* AuthenticatedMcpApp: a request has one bearer, and reaches the tools as the
\* actor that stands for, or is refused before any of them is called.
Authenticate(k, b) ==
    /\ Moves(k, "idle", "authenticated")
    /\ BearerAccepted(b)
    /\ bearer' = [bearer EXCEPT ![k] = {b}]
    /\ UNCHANGED <<policy, secrets, age, leases, budget>>

\* authorize_tool: effective_user_id, then the owner's role
Authorize(k) ==
    /\ Moves(k, "authenticated", "authorized")
    /\ Loaded /\ member
    /\ UNCHANGED <<policy, secrets, bearer, age, leases, budget>>

\* _document: the tool names a document, and only the scope is asked for, which
\* the actor brought along; the operation finds the knowledge base, and ends when
\* that is refused.
AuthorizeDocument(k) ==
    /\ Moves(k, "authenticated", "authorized")
    /\ UNCHANGED <<policy, secrets, bearer, age, leases, budget>>

\* The row behind the bearer.  A credential has one once it was leased for, which
\* stays when it is revoked.
Anchored(b) ==
    \/ b \in Exchange /\ token[b] = "live"
    \/ b \in Credential /\ (b \in anchors \/ credential[b] \in {"live", "overlap", "over"})

\* acquire_concurrency_lease reads the clock, checks, and waits for its locks.
ReadClock(k) ==
    /\ Moves(k, "authorized", "waiting")
    /\ \A b \in bearer[k] : Anchored(b)
    /\ principal = "active"
    /\ age' = [age EXCEPT ![k] = 0]
    /\ UNCHANGED <<policy, secrets, bearer, leases, budget>>

M_Counted(k) == {c \in Call : left[c] > age[k]}

\* expires_at > now, at the clock of k
Counted(k) == {c \in Call : left[c] + age[k] > 0}

\* The leases that had expired by then are deleted.
Swept(k) == [c \in Call |-> IF c \in Counted(k) THEN left[c] ELSE NoLease]

Anchor(k) == anchors' = anchors \cup (bearer[k] \cap Credential)

Acquire(k) ==
    /\ Moves(k, "waiting", "leased")
    /\ Cardinality(Counted(k)) < Limit
    /\ left' = [Swept(k) EXCEPT ![k] = Ttl - age[k]]
    /\ Anchor(k)
    /\ bearer' = [bearer EXCEPT ![k] = {}]
    /\ UNCHANGED <<policy, secrets, age, budget>>

Deny(k) ==
    /\ Moves(k, "waiting", "idle")
    /\ Cardinality(Counted(k)) >= Limit
    /\ left' = Swept(k) /\ Anchor(k)
    /\ bearer' = [bearer EXCEPT ![k] = {}]
    /\ age' = [age EXCEPT ![k] = 0]
    /\ UNCHANGED <<policy, secrets, budget>>

M_CheckPrincipal(k) ==
    /\ Moves(k, "leased", "checked")
    /\ UNCHANGED <<policy, secrets, bearer, age, leases, budget>>

\* effective_user_id once more, on a connection of its own,
CheckPrincipal(k) ==
    /\ Moves(k, "leased", "checked")
    /\ Loaded
    /\ UNCHANGED <<policy, secrets, bearer, age, leases, budget>>

\* and the operation begins.
Begin(k) ==
    /\ Moves(k, "checked", "running")
    /\ budget' = [budget EXCEPT ![k] = Timeout]
    /\ UNCHANGED <<policy, secrets, bearer, age, leases>>

\* The operation answers, fails or is cancelled.
Finish(k) ==
    /\ Moves(k, "running", "ending")
    /\ budget' = [budget EXCEPT ![k] = 0]
    /\ age' = [age EXCEPT ![k] = 0]
    /\ UNCHANGED <<policy, secrets, bearer, leases>>

\* A check or a statement that fails, or a cancellation, ends the call; what it
\* holds is released in `finally'.
Refuse(k) ==
    /\ at[k] \in {"authenticated", "authorized", "waiting", "leased", "checked"}
    /\ at' = [at EXCEPT ![k] = IF @ \in {"leased", "checked"} THEN "ending" ELSE "idle"]
    /\ age' = [age EXCEPT ![k] = 0]
    /\ bearer' = [bearer EXCEPT ![k] = {}]
    /\ UNCHANGED <<policy, secrets, leases, budget>>

ReleaseLease(k) ==
    /\ Moves(k, "ending", "idle")
    /\ left' = [left EXCEPT ![k] = NoLease]
    /\ UNCHANGED <<policy, secrets, bearer, age, anchors, budget>>

\* The process dies, or the request is cancelled after its lease was written
\* and before it is known: the row stays.
Vanish(k) ==
    /\ at[k] \notin {"idle", "gone"}
    /\ at' = [at EXCEPT ![k] = "gone"]
    /\ age' = [age EXCEPT ![k] = 0]
    /\ budget' = [budget EXCEPT ![k] = 0]
    /\ bearer' = [bearer EXCEPT ![k] = {}]
    /\ UNCHANGED <<policy, secrets, leases>>

\* Another process takes its place when the lease is forgotten.
Return(k) ==
    /\ Moves(k, "gone", "idle")
    /\ left[k] = NoLease
    /\ UNCHANGED <<policy, secrets, bearer, age, leases, budget>>

Waiting == {"waiting", "leased", "checked"}

Tick ==
    /\ \A k \in Call : /\ at[k] \in Waiting => age[k] < WaitCap
                       /\ at[k] = "running" => budget[k] > 0
    /\ age' = [k \in Call |-> IF at[k] \in Waiting \cup {"running"} THEN age[k] + 1 ELSE 0]
    /\ left' = [k \in Call |-> IF left[k] > NoLease THEN left[k] - 1 ELSE NoLease]
    /\ budget' = [k \in Call |-> IF at[k] = "running" THEN budget[k] - 1 ELSE 0]
    /\ UNCHANGED <<policy, secrets, at, bearer, anchors>>

-----------------------------------------------------------------------------
Administration ==
    \/ CreatePrincipal \/ FailCreation \/ RevokePrincipal \/ DisableOwner \/ LoseMembership
    \/ \E c \in Credential :
         \/ CreateCredential(c) \/ OverlapEnds(c) \/ RevokeCredential(c)
         \/ \E r \in Rotation : FindToRotate(r, c)
         \/ \E x \in Exchange : ExchangeCredential(x, c)
    \/ \E r \in Rotation, keeps \in BOOLEAN : Rotate(r, keeps)
    \/ \E x \in Exchange : CreateAccessToken(x) \/ RevokeToken(x)

Calling ==
    \/ \E k \in Call :
         \/ \E b \in Credential \cup Exchange : Authenticate(k, b)
         \/ Authorize(k) \/ AuthorizeDocument(k)
         \/ ReadClock(k) \/ Acquire(k) \/ Deny(k) \/ CheckPrincipal(k) \/ Begin(k)
         \/ Finish(k) \/ Refuse(k) \/ ReleaseLease(k) \/ Vanish(k) \/ Return(k)
    \/ Tick

McpNext == Administration \/ Calling

McpSpec == McpInit /\ [][McpNext]_mcpVars

-----------------------------------------------------------------------------
McpTypeOK ==
    /\ owner \in {"active", "disabled"} /\ member \in BOOLEAN
    /\ principal \in {"absent", "active", "revoked"}
    /\ credential \in [Credential -> {"absent", "live", "overlap", "over", "revoked"}]
    /\ rotating \in [Rotation -> SUBSET Credential]
    /\ exchanging \in [Exchange -> SUBSET Credential]
    /\ token \in [Exchange -> {"absent", "live", "revoked"}]
    /\ at \in [Call -> {"idle", "authenticated", "authorized", "waiting", "leased",
                        "checked", "running", "ending", "gone"}]
    /\ bearer \in [Call -> SUBSET (Credential \cup Exchange)]
    /\ age \in [Call -> Nat]
    /\ left \in [Call -> Int] /\ anchors \subseteq Credential
    /\ budget \in [Call -> 0..Timeout]

Running == {k \in Call : at[k] = "running"}

\* The operation is over before the lease is, because the call did not wait long
\* for it.
InTime(k) == age[k] + budget[k] < Ttl

\* Of the calls whose operations asyncio.timeout ends before their leases expire,
\* no more than the limit run at a time, whatever the replicas, with clocks that
\* are old when they are used, calls that waited so long that their leases are
\* over and were deleted under them, and calls whose process died.
ConcurrencyBounded == Cardinality({k \in Running : InTime(k)}) <= Limit

Passed == {k \in Call : at[k] \in {"checked", "running"}}

\* Once the principal is revoked no call passes its last check: what still begins
\* had passed it, and no other call that had passed earlier checks begins.  And
\* nothing is let in, no token of an exchange and no credential of a rotation
\* that were under way.
RevokedPrincipalRests ==
    [][principal = "revoked" =>
         /\ principal' = "revoked"
         /\ Passed' \subseteq Passed
         /\ \A b \in Credential \cup Exchange : ~BearerAccepted(b)']_mcpVars

\* A lease is worth nothing when its call is over: as long as fewer calls than
\* the limit are under way or were lost within the time of a lease, the slots
\* that are counted leave room for another one.
Held == {k \in Call : at[k] \in {"leased", "checked", "running", "ending", "gone"}}

SlotsReturn ==
    \A k \in Call : at[k] = "waiting" => Counted(k) \subseteq Held

\* The slots are neither exceeded in time nor lost.
SlotsSound == ConcurrencyBounded /\ SlotsReturn

-----------------------------------------------------------------------------
\* The code does not keep this: no more calls run than the limit.  The wait for
\* locks and connections comes before the time limit that is to stay below the
\* lease (mcp.py).
NeverExceeded == Cardinality(Running) <= Limit

\* The code does not keep this either: a revocation starts nothing.
RevokedBeginsNothing ==
    [][principal = "revoked" => Running' \subseteq Running]_mcpVars

\* oauth-mcp-contracts.md: what was issued before an explicit revocation of the
\* credential is denied immediately after.
RevokedCredentialEnds ==
    \A x \in Exchange : \A c \in exchanging[x] :
        credential[c] = "revoked" => ~BearerAccepted(x)

\* rotate_credential: the old credential keeps an explicit overlap window and
\* is then revoked for good.
OverlapIsFinal ==
    [][\A c \in Credential : credential[c] = "over" => ~Valid(c)']_mcpVars
=============================================================================
