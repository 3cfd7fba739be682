--------------------------- MODULE ModelGovernance ---------------------------
(***************************************************************************)
(* application/model_governance.py: the models of a gateway, the managed   *)
(* profile of one workflow with its drafts and published versions, and the *)
(* workflow's scene default, as administrators change them at the same     *)
(* time, and the execution target every managed call resolves.             *)
(*                                                                         *)
(* A configuration is the model it names and the embedding dimension it    *)
(* expects.  Row versions of models and gateways refuse an edit that came  *)
(* too late and are left out: an edit here is one that came in time.       *)
(***************************************************************************)
EXTENDS Naturals, FiniteSets

CONSTANTS
    Model, Dimension,
    Profile,        \* ids the managed profile may have, one after the other
    Admin, Caller,
    VersionCap,     \* bound: versions of a profile, its draft included
    EditCap         \* bound: edits of one draft

ASSUME VersionAssumption == VersionCap \in Nat \ {0} /\ EditCap \in Nat \ {0}

VARIABLES
    serving,        \* model_gateways.enabled, and model_gateway_health healthy
    model,          \* governed_models
    deleting,       \* models delete_model has found unused
    profile,        \* capability_profiles
    version,        \* capability_profile_versions
    pointer,        \* scene_defaults: the profile of the workflow, if any
    admin,          \* what an administrator's request has read so far
    caller          \* what a managed call has resolved so far

registry == <<serving, model, deleting>>
profiles == <<profile, version>>
vars == <<registry, profiles, pointer, admin, caller>>

Absent == [life |-> "absent"]
Deleted == [life |-> "deleted"]
NoProfile == [life |-> "absent", current |-> 0]
NoVersion == [state |-> "absent"]
Idle == [at |-> "idle"]

Version == 1..VersionCap

Init ==
    /\ serving = FALSE
    /\ model = [m \in Model |-> Absent]
    /\ deleting = {}
    /\ profile = [p \in Profile |-> NoProfile]
    /\ version = [p \in Profile |-> [v \in Version |-> NoVersion]]
    /\ pointer = {}
    /\ admin = [a \in Admin |-> Idle]
    /\ caller = [c \in Caller |-> Idle]

-----------------------------------------------------------------------------
(* The gateway and its models *)

\* A gateway serves if it is enabled and its last health check succeeded.
Serves(ok) ==
    /\ serving' \in IF ok THEN BOOLEAN ELSE {FALSE}
    /\ UNCHANGED <<model, deleting, profiles, pointer, admin, caller>>

SetGatewayEnabled(enabled) == Serves(enabled)

\* The result is written whatever newer checks have found.
CheckGatewayHealth(ok) == Serves(ok)

Exists(m) == model[m].life = "model"

CreateModel(m, d) ==
    /\ model[m] = Absent
    /\ model' = [model EXCEPT ![m] =
         [life |-> "model", dimension |-> d, enabled |-> FALSE, validated |-> FALSE]]
    /\ UNCHANGED <<serving, deleting, profiles, pointer, admin, caller>>

\* What the probe found is written to whatever the model has become meanwhile.
ValidateModel(m, ok) ==
    /\ Exists(m)
    /\ model' = [model EXCEPT ![m].validated = ok]
    /\ serving' \in {serving, ok}
    /\ UNCHANGED <<deleting, profiles, pointer, admin, caller>>

SetModelEnabled(m, enabled) ==
    /\ Exists(m)
    /\ enabled => model[m].validated
    /\ model' = [model EXCEPT ![m].enabled = enabled]
    /\ UNCHANGED <<serving, deleting, profiles, pointer, admin, caller>>

UpdateModel(m, d) ==
    /\ Exists(m)
    /\ model' = [model EXCEPT ![m].dimension = d, ![m].validated = FALSE]
    /\ UNCHANGED <<serving, deleting, profiles, pointer, admin, caller>>

Published(p) == {v \in Version : version[p][v].state = "published"}
NamedBy(p, v) == version[p][v].config.model

\* delete_model looks for published versions, then deletes the row.
FindUnused(m) ==
    /\ Exists(m) /\ m \notin deleting
    /\ \A p \in Profile : \A v \in Published(p) : NamedBy(p, v) # m
    /\ deleting' = deleting \cup {m}
    /\ UNCHANGED <<serving, model, profiles, pointer, admin, caller>>

DeleteModel(m) ==
    /\ m \in deleting
    /\ deleting' = deleting \ {m}
    /\ model' = [model EXCEPT ![m] = Deleted]
    /\ UNCHANGED <<serving, profiles, pointer, admin, caller>>

-----------------------------------------------------------------------------
(* Profiles *)

Managed == {p \in Profile : profile[p].life \in {"active", "disabled"}}

M_Drafts(p) == {v \in Version : version[p][v].state # "absent"}

Drafts(p) == {v \in Version : version[p][v].state = "draft"}

\* What publish_profile and _execution_target ask of a model
Available(m) ==
    /\ Exists(m) /\ model[m].enabled /\ model[m].validated
    /\ serving

Fits(config) ==
    /\ Available(config.model)
    /\ model[config.model].dimension = config.dimension

Draft(config, n) == [state |-> "draft", config |-> config, edits |-> n]

Created(p, config) ==
    /\ profile[p] = NoProfile
    /\ profile' = [profile EXCEPT ![p].life = "active"]
    /\ version' = [version EXCEPT ![p][1] = Draft(config, 1)]

Patched(p, v, config) ==
    /\ version' = [version EXCEPT ![p][v].config = config, ![p][v].edits = @ + 1]
    /\ UNCHANGED profile

\* The draft becomes the published version, and its copy the next draft.
Publishable(p, v) == Fits(version[p][v].config) /\ profile[p].current + 2 \in Version

Promoted(p, v) ==
    LET now == profile[p].current + 1
    IN  /\ version' = [version EXCEPT ![p] = [@ EXCEPT
               ![v].state = "published", ![now + 1] = Draft(version[p][v].config, 1)]]
        /\ profile' = [profile EXCEPT ![p].current = now]

M_Unreferenced(p) == TRUE

\* scene_defaults.profile_id REFERENCES capability_profiles ON DELETE RESTRICT
Unreferenced(p) == p \notin pointer

Erased(p) ==
    /\ Unreferenced(p)
    /\ profile' = [profile EXCEPT ![p].life = "deleted"]
    /\ version' = [version EXCEPT ![p] = [v \in Version |-> NoVersion]]

SetProfileDisabled(p, disabled) ==
    /\ p \in Managed
    /\ profile' = [profile EXCEPT ![p].life = IF disabled THEN "disabled" ELSE "active"]
    /\ UNCHANGED <<version, registry, pointer, admin, caller>>

DeleteProfile(p) ==
    /\ profile[p].life = "disabled"
    /\ Erased(p)
    /\ UNCHANGED <<registry, pointer, admin, caller>>

-----------------------------------------------------------------------------
(* An administrator's request goes from one transaction to the next with    *)
(* what it has read: the profile and the number of edits of its draft.      *)

Goes(a, request) == admin' = [admin EXCEPT ![a] = request]

OpenDraft(a, p, v) ==
    /\ admin[a] = Idle
    /\ v \in Drafts(p)
    /\ Goes(a, [at |-> "editing", profile |-> p, edits |-> version[p][v].edits])
    /\ UNCHANGED <<registry, profiles, pointer, caller>>

\* The published version the workflow's pointer leads to
Target(p, v) == p \in pointer /\ v = profile[p].current /\ v \in Published(p)

\* set_scene_default reads the model, which is not the default's already.
ChooseModel(a, m) ==
    /\ admin[a] = Idle
    /\ Exists(m) /\ model[m].enabled
    /\ \A p \in Profile, v \in Version : Target(p, v) => NamedBy(p, v) # m
    /\ Goes(a, [at |-> "chosen", config |-> [model |-> m, dimension |-> model[m].dimension]])
    /\ UNCHANGED <<registry, profiles, pointer, caller>>

\* It finds the draft of the managed profile, its own or of whoever was first,
Revise(a, p, v) ==
    /\ admin[a].at = "chosen"
    /\ v \in Drafts(p)
    /\ Goes(a, [at |-> "revising", profile |-> p, edits |-> version[p][v].edits,
                config |-> admin[a].config])
    /\ UNCHANGED <<registry, profiles, pointer, caller>>

\* or there is no managed profile yet.
CreateScene(a, p) ==
    /\ admin[a].at = "chosen"
    /\ Managed = {}
    /\ Created(p, admin[a].config)
    /\ Goes(a, [at |-> "created", profile |-> p, edits |-> 1])
    /\ UNCHANGED <<registry, pointer, caller>>

\* The draft a request acts on: the one there is, with as many edits as it read.
Current(a, v) ==
    v \in Drafts(admin[a].profile) /\ version[admin[a].profile][v].edits = admin[a].edits

Patch(a, v, config) ==
    LET r == admin[a]
    IN  /\ r.at \in {"editing", "revising"}
        /\ Current(a, v)
        /\ r.at = "revising" => config = r.config
        /\ r.edits < EditCap
        /\ Patched(r.profile, v, config)
        /\ Goes(a, IF r.at = "editing" THEN Idle
                   ELSE [at |-> "patched", profile |-> r.profile, edits |-> r.edits + 1])
        /\ UNCHANGED <<registry, pointer, caller>>

Publish(a, v) ==
    LET r == admin[a]
    IN  /\ r.at \in {"editing", "created", "patched"}
        /\ Current(a, v) /\ Publishable(r.profile, v)
        /\ Promoted(r.profile, v)
        /\ Goes(a, IF r.at = "editing" THEN Idle ELSE [at |-> "published", profile |-> r.profile])
        /\ UNCHANGED <<registry, pointer, caller>>

\* A draft that changed, or a model that is not available, ends the request;
\* a profile that was just created has to go.
Fail(a) ==
    LET r == admin[a]
    IN  /\ r.at \in {"editing", "revising", "created", "patched"}
        /\ \A v \in Version : Current(a, v) => ~Publishable(r.profile, v)
        /\ Goes(a, IF r.at = "created" THEN [at |-> "failed", profile |-> r.profile] ELSE Idle)
        /\ UNCHANGED <<registry, profiles, pointer, caller>>

Discard(a) ==
    /\ admin[a].at = "failed"
    /\ Goes(a, Idle)
    /\ Erased(admin[a].profile)
    /\ UNCHANGED <<registry, pointer, caller>>

\* The database refuses the next transaction, or the process dies before it.
Abandon(a) ==
    /\ admin[a] # Idle
    /\ Goes(a, Idle)
    /\ UNCHANGED <<registry, profiles, pointer, caller>>

\* A call on its way remembers, as a history, that there was no pointer.
Points(p) ==
    /\ pointer' = p
    /\ caller' = [c \in Caller |-> IF caller[c].at = "missed" /\ p = {}
                                   THEN [caller[c] EXCEPT !.unset = TRUE] ELSE caller[c]]

\* The reference to a profile that is gone is refused.
SetPointer(a) ==
    /\ admin[a].at = "published"
    /\ admin[a].profile \in Managed
    /\ Points({admin[a].profile})
    /\ Goes(a, Idle)
    /\ UNCHANGED <<registry, profiles>>

ClearSceneDefault ==
    /\ pointer # {}
    /\ Points({})
    /\ UNCHANGED <<registry, profiles, admin>>

-----------------------------------------------------------------------------
(* _execution_target *)

\* The first query joins the target with its model and gateway, and the call
\* goes to it or is denied; a call that finds nothing has to ask again.
Resolve(c) ==
    /\ caller[c] = Idle
    /\ \A p \in Profile, v \in Version : Target(p, v) => ~Exists(NamedBy(p, v))
    /\ caller' = [caller EXCEPT ![c] = [at |-> "missed", unset |-> pointer = {}]]
    /\ UNCHANGED <<registry, profiles, pointer, admin>>

Configured == pointer # {}

\* The second query asks whether there is a pointer at all: UNAVAILABLE if so.
Explain(c) ==
    /\ caller[c].at = "missed"
    /\ caller' = [caller EXCEPT ![c] =
         IF Configured THEN Idle ELSE [@ EXCEPT !.at = "NO_ASSIGNMENT"]]
    /\ UNCHANGED <<registry, profiles, pointer, admin>>

Answer(c) ==
    /\ caller[c].at = "NO_ASSIGNMENT"
    /\ caller' = [caller EXCEPT ![c] = Idle]
    /\ UNCHANGED <<registry, profiles, pointer, admin>>

-----------------------------------------------------------------------------
Config == [model : Model, dimension : Dimension]

Registering ==
    \/ \E on \in BOOLEAN : SetGatewayEnabled(on) \/ CheckGatewayHealth(on)
    \/ \E m \in Model :
         \/ FindUnused(m) \/ DeleteModel(m)
         \/ \E on \in BOOLEAN : ValidateModel(m, on) \/ SetModelEnabled(m, on)
         \/ \E d \in Dimension : CreateModel(m, d) \/ UpdateModel(m, d)

Governing ==
    \/ \E p \in Profile :
         DeleteProfile(p) \/ \E off \in BOOLEAN : SetProfileDisabled(p, off)
    \/ \E a \in Admin :
         \/ Fail(a) \/ Discard(a) \/ Abandon(a) \/ SetPointer(a)
         \/ \E m \in Model : ChooseModel(a, m)
         \/ \E p \in Profile : CreateScene(a, p)
         \/ \E v \in Version :
              \/ Publish(a, v)
              \/ \E config \in Config : Patch(a, v, config)
              \/ \E p \in Profile : OpenDraft(a, p, v) \/ Revise(a, p, v)
    \/ ClearSceneDefault

Calling == \E c \in Caller : Resolve(c) \/ Explain(c) \/ Answer(c)

Next == Registering \/ Governing \/ Calling

Spec == Init /\ [][Next]_vars

-----------------------------------------------------------------------------
TypeOK ==
    /\ serving \in BOOLEAN
    /\ model \in [Model -> {Absent, Deleted} \cup [life : {"model"}, dimension : Dimension,
                                                   enabled : BOOLEAN, validated : BOOLEAN]]
    /\ deleting \subseteq Model
    /\ profile \in [Profile -> [life : {"absent", "active", "disabled", "deleted"},
                                current : 0..VersionCap]]
    /\ version \in [Profile -> [Version -> {NoVersion} \cup
         [state : {"draft", "published"}, config : Config, edits : 1..EditCap]]]
    /\ pointer \in SUBSET Profile /\ Cardinality(pointer) <= 1

\* A published version never changes as long as its profile exists.
PublishedImmutable ==
    [][\A p \in Profile : \A v \in Published(p) :
         p \in Managed' => version'[p][v] = version[p][v]]_vars

\* The workflow's pointer leads to a published version, whatever two
\* administrators who set the default at once, fail and discard, or delete; and
\* a call is told NO_ASSIGNMENT only if the workflow really had no pointer at
\* some time while it was resolved, never because a join missed.
RoutingSound ==
    /\ \A p \in pointer : p \in Managed /\ profile[p].current \in Published(p)
    /\ \A c \in Caller : caller[c].at = "NO_ASSIGNMENT" => caller[c].unset
=============================================================================
