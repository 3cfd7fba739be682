----------------------------- MODULE OAuthGrants -----------------------------
(***************************************************************************)
(* Authorizations of one OAuth client (application/oauth.py,               *)
(* infrastructure/oauth.py): consent, authorization codes, access tokens,  *)
(* rotating refresh tokens, and their revocation, while the accounts they  *)
(* speak for change (Accounts).                                            *)
(*                                                                         *)
(* A flow is one authorization: it ends in at most one code, and the code  *)
(* in one family of refresh tokens, both named after it.  Generation n of  *)
(* a family has one refresh token and one access token.  Time-outs are     *)
(* left out: each of them refuses something that may be refused anyway.    *)
(***************************************************************************)
EXTENDS Accounts, Sequences, FiniteSets

CONSTANTS
    Flow,
    Exchange,       \* exchanges of a code that may overlap
    Scope,
    GrantCap,       \* bound: rows of mcp_grants
    TokenCap        \* bound: access tokens among which one may be rotated

ASSUME GrantAssumption == GrantCap \in Nat \ {0}
ASSUME TokenAssumption == TokenCap \in Nat \ {0}

VARIABLES
    pc, owner, asked,   \* flows: the user, and the scopes asked for
    prior,      \* AuthorizationContext.existing_grant, 0 if consent is required
    sees,       \* the stamp a flow has read, then that of its code
    client,     \* mcp_clients.is_enabled
    grants,     \* mcp_grants, oldest first
    via,        \* the grant a code is for
    exchange,   \* exchanges that hold a code and its grant
    family,     \* mcp_refresh_families with the newest of their tokens
    access,     \* mcp_access_tokens
    snapshot,   \* generations a revocation of the family has seen
    bundles,    \* history: exchanges a code has had
    replayed,   \* history: flows whose code or refresh token was used again
    ended       \* history: flows approved before their user was secured

flows == <<pc, owner, asked, prior, sees, via>>
tokens == <<family, access, snapshot, bundles>>
others == <<client, accounts>>
vars == <<flows, grants, exchange, tokens, others, replayed, ended>>

NoExchange == [flow |-> "none"]
NoFamily == [state |-> "none"]

Init ==
    /\ account = [u \in User |-> "active"]
    /\ stamp = [u \in User |-> 0]
    /\ pc = [f \in Flow |-> "idle"]
    /\ owner \in [Flow -> User]
    /\ asked \in [Flow -> (SUBSET Scope) \ {{}}]
    /\ prior = [f \in Flow |-> 0]
    /\ sees = [f \in Flow |-> 0]
    /\ via = [f \in Flow |-> 0]
    /\ client = TRUE
    /\ grants = <<>>
    /\ exchange = [x \in Exchange |-> NoExchange]
    /\ family = [f \in Flow |-> NoFamily]
    /\ access = {}
    /\ snapshot = [f \in Flow |-> 0]
    /\ bundles = [f \in Flow |-> 0]
    /\ replayed = {} /\ ended = {}

-----------------------------------------------------------------------------
(* Grants *)

Granted(g) == g \in DOMAIN grants /\ grants[g].state = "active"

\* find_active_grant: a user has one active grant at most.
ActiveGrants(u) == {g \in DOMAIN grants : grants[g].user = u /\ Granted(g)}

\* An exchange holds the row of its grant FOR UPDATE.
Unheld(g) == \A x \in Exchange : exchange[x] # NoExchange => via[exchange[x].flow] # g

Revoked(g) == [grants EXCEPT ![g].state = "revoked"]

RevokeGrant(g) ==
    /\ Granted(g) /\ Unheld(g)
    /\ grants' = Revoked(g)
    /\ UNCHANGED <<flows, exchange, tokens, others, replayed, ended>>

-----------------------------------------------------------------------------
(* The client; an operator may disable it in the database. *)

SwitchClient ==
    /\ client' = ~client
    /\ UNCHANGED <<flows, grants, exchange, tokens, accounts, replayed, ended>>

\* find_client_by_public_id finds no client that is disabled.
Registered == client

-----------------------------------------------------------------------------
(* An authorization: authorize_submit, in four transactions *)

Step(f, from, to) == pc[f] = from /\ pc' = [pc EXCEPT ![f] = to]

\* begin_authorization looks for a grant that covers what is asked for; one that
\* would expire before what is asked for needs a new consent all the same.
BeginAuthorization(f) ==
    /\ Step(f, "idle", "begun")
    /\ Active(owner[f]) /\ Registered
    /\ LET covering == {g \in ActiveGrants(owner[f]) : asked[f] \subseteq grants[g].scopes}
       IN  \E g \in covering \cup {0} : prior' = [prior EXCEPT ![f] = g]
    /\ UNCHANGED <<owner, asked, sees, via>>
    /\ UNCHANGED <<grants, exchange, tokens, others, replayed, ended>>

\* issue_authorization_code, once the user has approved
Approve(f) ==
    /\ Step(f, "begun", "approved")
    /\ Active(owner[f]) /\ Registered
    /\ sees' = [sees EXCEPT ![f] = stamp[owner[f]]]
    /\ UNCHANGED <<owner, asked, prior, via>>
    /\ UNCHANGED <<grants, exchange, tokens, others, replayed, ended>>

\* The user declines, or the client is disabled or the user: there is no code.
Decline(f) ==
    /\ Step(f, "begun", "declined")
    /\ UNCHANGED <<owner, asked, prior, sees, via>>
    /\ UNCHANGED <<grants, exchange, tokens, others, replayed, ended>>

Grant(u, scopes) == [user |-> u, scopes |-> scopes, state |-> "active"]

\* upsert_grant, one at a time: the active grant takes the new scopes.
Consent(f) ==
    LET u == owner[f]
    IN  /\ Step(f, "approved", "consented")
        /\ prior[f] = 0
        /\ \/ \E g \in ActiveGrants(u) :
                /\ Unheld(g)
                /\ grants' = [grants EXCEPT ![g] = Grant(u, asked[f])]
                /\ via' = [via EXCEPT ![f] = g]
           \/ /\ ActiveGrants(u) = {} /\ Len(grants) < GrantCap
              /\ grants' = Append(grants, Grant(u, asked[f]))
              /\ via' = [via EXCEPT ![f] = Len(grants')]
        /\ UNCHANGED <<owner, asked, prior, sees>>
        /\ UNCHANGED <<exchange, tokens, others, replayed, ended>>

\* Without a new consent the earlier one is looked up again.
Reuse(f) ==
    LET g == prior[f]
    IN  /\ Step(f, "approved", "consented")
        /\ Granted(g) /\ asked[f] \subseteq grants[g].scopes
        /\ via' = [via EXCEPT ![f] = g]
        /\ UNCHANGED <<owner, asked, prior, sees>>
        /\ UNCHANGED <<grants, exchange, tokens, others, replayed, ended>>

\* create_authorization_code, with the stamp of then
CreateCode(f) ==
    /\ Step(f, "consented", "code")
    /\ UNCHANGED <<owner, asked, prior, sees, via>>
    /\ UNCHANGED <<grants, exchange, tokens, others, replayed, ended>>

-----------------------------------------------------------------------------
(* Codes *)

M_FreeCode(f) == TRUE

\* SELECT ... FOR UPDATE OF c,g
FreeCode(f) == pc[f] = "code" /\ Unheld(via[f])

M_Approved(f) == Granted(via[f]) /\ Active(owner[f])

\* The grant, the account and its stamp, which is read and not locked.
Approved(f) ==
    /\ Granted(via[f]) /\ asked[f] \subseteq grants[via[f]].scopes
    /\ Holds(owner[f], sees[f])

BeginExchange(x, f) ==
    /\ exchange[x] = NoExchange
    /\ pc[f] \in {"code", "used"} /\ FreeCode(f)
    /\ Registered /\ Approved(f)
    /\ exchange' = [exchange EXCEPT ![x] = [flow |-> f, stamp |-> stamp[owner[f]]]]
    /\ UNCHANGED <<flows, grants, tokens, others, replayed, ended>>

Token(f, n, s, scopes) ==
    [flow |-> f, generation |-> n, stamp |-> s, scopes |-> scopes, live |-> TRUE]

FinishExchange(x) ==
    LET f == exchange[x].flow  s == exchange[x].stamp
    IN  /\ exchange[x] # NoExchange
        /\ pc' = [pc EXCEPT ![f] = "used"]
        /\ exchange' = [exchange EXCEPT ![x] = NoExchange]
        /\ family' = [family EXCEPT ![f] = [state |-> "live", stamp |-> s,
                        generation |-> 0, scopes |-> asked[f], live |-> TRUE]]
        /\ access' = access \cup {Token(f, 0, s, asked[f])}
        /\ bundles' = [bundles EXCEPT ![f] = @ + 1]
        /\ UNCHANGED <<owner, asked, prior, sees, via, snapshot>>
        /\ UNCHANGED <<grants, others, replayed, ended>>

\* The process dies: nothing was written.
DropExchange(x) ==
    /\ exchange[x] # NoExchange
    /\ exchange' = [exchange EXCEPT ![x] = NoExchange]
    /\ UNCHANGED <<flows, grants, tokens, others, replayed, ended>>

\* A code that is used already takes its grant with it.
ReplayCode(f) ==
    /\ pc[f] = "used" /\ Unheld(via[f]) /\ Registered
    /\ grants' = Revoked(via[f])
    /\ replayed' = replayed \cup {f}
    /\ UNCHANGED <<flows, exchange, tokens, others, ended>>

-----------------------------------------------------------------------------
(* Refresh tokens: one statement locks token, family, grant, user, client *)

M_FamilyLive(f) == family[f].state # "none" /\ family[f].live

FamilyLive(f) == family[f].state = "live" /\ family[f].live

M_Renewable(f) == FamilyLive(f) /\ Holds(owner[f], family[f].stamp)

Renewable(f) ==
    /\ FamilyLive(f)
    /\ Granted(via[f]) /\ family[f].scopes \subseteq grants[via[f]].scopes
    /\ Holds(owner[f], family[f].stamp)

\* refresh_access_token
Refreshes(f) == Registered /\ Renewable(f)

Rotate(f, scopes) ==
    LET n == family[f].generation + 1
    IN  /\ Refreshes(f) /\ Unheld(via[f]) /\ Cardinality(access) < TokenCap
        /\ scopes \subseteq family[f].scopes
        /\ family' = [family EXCEPT ![f].generation = n, ![f].scopes = scopes]
        /\ access' = access \cup {Token(f, n, stamp[owner[f]], scopes)}
        /\ UNCHANGED <<snapshot, bundles>>
        /\ UNCHANGED <<flows, grants, exchange, others, replayed, ended>>

\* A token that was replaced, of a family that was not revoked, is a replay.
ReplayRefresh(f) ==
    /\ family[f].state = "live" /\ family[f].generation > 0
    /\ Registered /\ Unheld(via[f])
    /\ family' = [family EXCEPT ![f].state = "revoked"]
    /\ grants' = Revoked(via[f])
    /\ replayed' = replayed \cup {f}
    /\ UNCHANGED <<access, snapshot, bundles>>
    /\ UNCHANGED <<flows, exchange, others, ended>>

\* revoke_refresh_token: the UPDATE of the tokens sees those of its snapshot,
\* and may then wait for a rotation; the family is revoked last.
RevokeRead(f) ==
    /\ family[f].state = "live" /\ snapshot[f] = 0 /\ Registered
    /\ snapshot' = [snapshot EXCEPT ![f] = family[f].generation + 1]
    /\ UNCHANGED <<family, access, bundles>>
    /\ UNCHANGED <<flows, grants, exchange, others, replayed, ended>>

RevokeWrite(f) ==
    /\ snapshot[f] # 0
    /\ family' = [family EXCEPT ![f].state = "revoked",
                    ![f].live = @ /\ family[f].generation >= snapshot[f]]
    /\ snapshot' = [snapshot EXCEPT ![f] = 0]
    /\ UNCHANGED <<access, bundles>>
    /\ UNCHANGED <<flows, grants, exchange, others, replayed, ended>>

-----------------------------------------------------------------------------
(* Access tokens *)

\* load_access_token
Accepted(t) ==
    LET f == t.flow
    IN  /\ t.live /\ client
        /\ Granted(via[f]) /\ t.scopes \subseteq grants[via[f]].scopes
        /\ Holds(owner[f], t.stamp)

RevokeAccess(t) ==
    /\ t \in access /\ t.live /\ Registered
    /\ access' = (access \ {t}) \cup {[t EXCEPT !.live = FALSE]}
    /\ UNCHANGED <<family, snapshot, bundles>>
    /\ UNCHANGED <<flows, grants, exchange, others, replayed, ended>>

-----------------------------------------------------------------------------
(* Accounts, as Identity changes them *)

\* Flows approved, and not just begun, before a change of the account.
Earlier(u) == {f \in Flow : owner[f] = u /\ pc[f] \notin {"idle", "begun", "declined"}}

Secure(u) ==
    /\ Restamp(u)
    /\ ended' = ended \cup Earlier(u)
    /\ UNCHANGED <<flows, client, grants, exchange, tokens, replayed>>

ChangePassword(u) ==
    /\ Exists(u)
    /\ Secure(u)
    /\ UNCHANGED account

DisableUser(u) ==
    /\ Active(u)
    /\ Becomes(u, "disabled")
    /\ Secure(u)

RestoreUser(u) ==
    /\ account[u] = "disabled"
    /\ Becomes(u, "active")
    /\ UNCHANGED <<flows, client, grants, exchange, tokens, stamp, replayed, ended>>

-----------------------------------------------------------------------------
\* POST /oauth/token, with a code or a refresh token that is live or was used
TokenRequest(f) ==
    \/ ReplayCode(f) \/ ReplayRefresh(f)
    \/ \E x \in Exchange : BeginExchange(x, f)
    \/ \E scopes \in (SUBSET Scope) \ {{}} : Rotate(f, scopes)

\* POST /oauth/revoke, with a token of either kind
RevokeRequest ==
    \/ \E f \in Flow : RevokeRead(f) \/ RevokeWrite(f)
    \/ \E t \in access : RevokeAccess(t)

Next ==
    \/ \E f \in Flow :
         \/ BeginAuthorization(f) \/ Approve(f) \/ Decline(f)
         \/ Consent(f) \/ Reuse(f) \/ CreateCode(f) \/ TokenRequest(f)
    \/ \E x \in Exchange : FinishExchange(x) \/ DropExchange(x)
    \/ RevokeRequest \/ SwitchClient
    \/ \E g \in DOMAIN grants : RevokeGrant(g)
    \/ \E u \in User : ChangePassword(u) \/ DisableUser(u) \/ RestoreUser(u)

Spec == Init /\ [][Next]_vars

-----------------------------------------------------------------------------
Scopes == SUBSET Scope

TypeOK ==
    /\ AccountsOK /\ client \in BOOLEAN
    /\ pc \in [Flow -> {"idle", "begun", "declined", "approved", "consented", "code", "used"}]
    /\ owner \in [Flow -> User] /\ asked \in [Flow -> Scopes]
    /\ prior \in [Flow -> 0..GrantCap] /\ via \in [Flow -> 0..GrantCap]
    /\ sees \in [Flow -> 0..StampCap]
    /\ grants \in Seq([user : User, scopes : Scopes, state : {"active", "revoked"}])
    /\ Len(grants) <= GrantCap
    /\ exchange \in [Exchange -> {NoExchange} \cup [flow : Flow, stamp : 0..StampCap]]
    /\ family \in [Flow -> {NoFamily} \cup
         [state : {"live", "revoked"}, stamp : 0..StampCap,
          generation : Nat, scopes : Scopes, live : BOOLEAN]]
    /\ access \subseteq [flow : Flow, generation : Nat,
                         stamp : 0..StampCap, scopes : Scopes, live : BOOLEAN]
    /\ snapshot \in [Flow -> Nat]
    /\ bundles \in [Flow -> Nat]
    /\ replayed \subseteq Flow /\ ended \subseteq Flow

\* Of the requests that present a code one gets tokens, also of two at once.
CodeExchangedOnce == \A f \in Flow : bundles[f] <= 1

Usable(f) ==
    \/ \E t \in access : t.flow = f /\ Accepted(t)
    \/ family[f] # NoFamily /\ Renewable(f)

\* Once a code or a refresh token was presented again, nothing that came from it
\* is accepted any more, whatever consents and rotations overlap.
ReplayEndsAll == \A f \in replayed : ~Usable(f)

\* What was approved before the user changed the password, or was disabled,
\* yields nothing afterwards: not its code, its family or its access tokens, nor
\* after the user is restored.
SecuredFlowsEnd == \A f \in ended : ~Usable(f)

\* A family that is revoked issues nothing more, not even by the token a
\* rotation added while it was being revoked.
RevokedFamilyRests ==
    [][\A f \in Flow : family[f].state = "revoked" =>
         /\ family'[f].state = "revoked"
         /\ family'[f].generation = family[f].generation]_vars
=============================================================================
