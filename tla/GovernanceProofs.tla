-------------------------- MODULE GovernanceProofs --------------------------
(***************************************************************************)
(* Proofs about ModelGovernance, for any number of models, profiles,       *)
(* administrators and calls: types, that a published version never changes *)
(* and that the workflow's pointer leads to one.                           *)
(*                                                                         *)
(* Both rest on the shape of a profile: its versions up to the current one *)
(* are published, the next is its draft, and no more exist.                *)
(*                                                                         *)
(* The second part is about Gateways, as an instance: that its calls send  *)
(* what belongs together and its credentials can be read.                  *)
(***************************************************************************)
EXTENDS Governance, FiniteSetTheorems, TLAPS

VersionRow == [state : {"draft", "published"}, config : Config, edits : 1..EditCap]
ModelRow == [life : {"model"}, dimension : Dimension, enabled : BOOLEAN, validated : BOOLEAN]
ProfileRow == [life : {"absent", "active", "disabled", "deleted"}, current : 0..VersionCap]
CallerRow == [at : {"missed", "NO_ASSIGNMENT"}, unset : BOOLEAN]

StateOf(p, v) ==
  IF p \notin Managed THEN "absent"
  ELSE IF v <= profile[p].current THEN "published"
  ELSE IF v = profile[p].current + 1 THEN "draft"
  ELSE "absent"

Shaped ==
  \A p \in Profile :
    /\ profile[p].life = "absent" => profile[p].current = 0
    /\ \A v \in Version : version[p][v].state = StateOf(p, v)

\* What requests carry from one transaction to the next
Carried ==
  /\ DOMAIN admin = Admin
  /\ \A a \in Admin :
       /\ admin[a].at \in {"chosen", "revising"} => admin[a].config \in Config
       /\ admin[a].at \notin {"idle", "chosen"} => admin[a].profile \in Profile
       /\ admin[a].at = "published" => profile[admin[a].profile].current > 0

Pointed == \A p \in pointer : p \in Managed /\ profile[p].current > 0

Informed ==
  /\ caller \in [Caller -> {Idle} \cup CallerRow]
  /\ \A c \in Caller :
       /\ caller[c].at = "missed" /\ pointer = {} => caller[c].unset
       /\ caller[c].at = "NO_ASSIGNMENT" => caller[c].unset

GovInv == TypeOK /\ Shaped /\ Carried /\ Pointed /\ Informed

-----------------------------------------------------------------------------
LEMMA GovInitial == Init => GovInv
<1> SUFFICES ASSUME Init
             PROVE  GovInv
  OBVIOUS
<1> USE VersionAssumption
<1>1. TypeOK
  <2>1. NoProfile \in [life : {"absent", "active", "disabled", "deleted"},
                       current : 0..VersionCap]
    BY DEF NoProfile
  <2>2. Cardinality({}) = 0
    BY FS_EmptySet
  <2>3. Cardinality(pointer) <= 1 /\ pointer \in SUBSET Profile
    BY <2>2 DEF Init
  <2>4. QED
    BY <2>1, <2>3 DEF Init, TypeOK
<1>2. Shaped
  BY DEF Init, Shaped, StateOf, Managed, NoProfile, NoVersion
<1>3. Carried
  BY DEF Init, Carried, Idle
<1>4. Pointed /\ Informed
  BY DEF Init, Pointed, Informed, Idle
<1>5. QED
  BY <1>1, <1>2, <1>3, <1>4 DEF GovInv

-----------------------------------------------------------------------------
(* Profiles *)

\* What a step does to the profiles and versions
Rows(p, row, cells) ==
  /\ profile' = [profile EXCEPT ![p] = row]
  /\ version' = [version EXCEPT ![p] = cells]

LEMMA RowsTyped ==
  ASSUME TypeOK, NEW p \in Profile, NEW row \in ProfileRow,
         NEW cells \in [Version -> {NoVersion} \cup VersionRow], Rows(p, row, cells)
  PROVE  /\ profile' \in [Profile -> ProfileRow]
         /\ version' \in [Profile -> [Version -> {NoVersion} \cup VersionRow]]
         /\ \A q \in Profile : /\ profile'[q] = IF q = p THEN row ELSE profile[q]
                               /\ version'[q] = IF q = p THEN cells ELSE version[q]
BY DEF TypeOK, Rows, ProfileRow, VersionRow

LEMMA DraftIsNext ==
  ASSUME GovInv, NEW p \in Profile, NEW v \in Drafts(p)
  PROVE  /\ p \in Managed /\ v \in Version /\ v = profile[p].current + 1
         /\ version[p][v] \in VersionRow /\ version[p][v].state = "draft"
<1>1. v \in Version /\ version[p][v].state = "draft"
  BY DEF Drafts
<1>2. p \in Managed /\ v = profile[p].current + 1
  BY <1>1 DEF GovInv, Shaped, StateOf
<1>3. version[p][v] \in {NoVersion} \cup VersionRow
  BY <1>1 DEF GovInv, TypeOK, VersionRow
<1>4. QED
  BY <1>1, <1>2, <1>3 DEF NoVersion

LEMMA CreatedRows ==
  ASSUME GovInv, NEW p \in Profile, NEW config \in Config, Created(p, config)
  PROVE  \E row \in ProfileRow, cells \in [Version -> {NoVersion} \cup VersionRow] :
           /\ Rows(p, row, cells) /\ p \notin Managed
           /\ row.life = "active" /\ row.current = profile[p].current
           /\ \A v \in Version : cells[v].state = IF v = 1 THEN "draft" ELSE "absent"
           /\ row.current = 0
<1> DEFINE row == [profile[p] EXCEPT !.life = "active"]
           cells == [version[p] EXCEPT ![1] = Draft(config, 1)]
<1>1. profile[p].life = "absent" /\ profile[p].current = 0
  BY DEF Created, NoProfile
<1>2. p \notin Managed
  BY <1>1 DEF Managed
<1>3. row \in ProfileRow /\ row.life = "active" /\ row.current = 0
  BY <1>1 DEF GovInv, TypeOK, ProfileRow
<1>4. Draft(config, 1) \in VersionRow /\ Draft(config, 1).state = "draft"
  BY VersionAssumption DEF Draft, VersionRow
<1>5. version[p] \in [Version -> {NoVersion} \cup VersionRow]
  BY DEF GovInv, TypeOK, VersionRow
<1>6. \A v \in Version : version[p][v].state = "absent"
  BY <1>2 DEF GovInv, Shaped, StateOf
<1>7. cells \in [Version -> {NoVersion} \cup VersionRow]
  BY <1>4, <1>5
<1>8. \A v \in Version : cells[v].state = IF v = 1 THEN "draft" ELSE "absent"
  BY <1>4, <1>5, <1>6
<1>9. Rows(p, row, cells)
  BY DEF Created, Rows
<1> HIDE DEF row, cells
<1>10. QED
  BY <1>1, <1>2, <1>3, <1>7, <1>8, <1>9

LEMMA PatchedRows ==
  ASSUME GovInv, NEW p \in Profile, NEW v \in Drafts(p), NEW config \in Config,
         version[p][v].edits < EditCap, Patched(p, v, config)
  PROVE  \E cells \in [Version -> {NoVersion} \cup VersionRow] :
           /\ Rows(p, profile[p], cells)
           /\ \A w \in Version : /\ cells[w].state = version[p][w].state
                                 /\ w # v => cells[w] = version[p][w]
<1> DEFINE cell == [version[p][v] EXCEPT !.config = config, !.edits = version[p][v].edits + 1]
           cells == [version[p] EXCEPT ![v] = cell]
<1>1. v \in Version /\ version[p][v] \in VersionRow /\ version[p][v].state = "draft"
  BY DraftIsNext
<1>2. cell \in VersionRow /\ cell.state = "draft"
  <2>1. version[p][v].edits + 1 \in 1..EditCap
    BY <1>1, VersionAssumption DEF VersionRow
  <2>2. QED
    BY <1>1, <2>1 DEF VersionRow
<1>3. version[p] \in [Version -> {NoVersion} \cup VersionRow]
  BY DEF GovInv, TypeOK, VersionRow
<1>4. version' = [version EXCEPT ![p] = cells] /\ profile' = profile
  <2>1. version' = [version EXCEPT ![p][v] = cell]
    BY DEF Patched
  <2>2. profile' = profile
    BY DEF Patched
  <2> HIDE DEF cell
  <2>3. QED
    BY <2>1, <2>2
<1> HIDE DEF cell
<1>5. /\ cells \in [Version -> {NoVersion} \cup VersionRow]
      /\ \A w \in Version : /\ cells[w].state = version[p][w].state
                            /\ w # v => cells[w] = version[p][w]
  BY <1>1, <1>2, <1>3
<1> HIDE DEF cells
<1>6. Rows(p, profile[p], cells)
  BY <1>4 DEF Rows, GovInv, TypeOK
<1>7. QED
  BY <1>5, <1>6

LEMMA PromotedRows ==
  ASSUME GovInv, NEW p \in Profile, NEW v \in Drafts(p), Publishable(p, v), Promoted(p, v)
  PROVE  \E row \in ProfileRow, cells \in [Version -> {NoVersion} \cup VersionRow] :
           /\ Rows(p, row, cells)
           /\ row.life = profile[p].life /\ row.current = profile[p].current + 1
           /\ \A w \in Version :
                /\ cells[w].state = IF w <= row.current THEN "published"
                                    ELSE IF w = row.current + 1 THEN "draft" ELSE "absent"
                /\ w <= profile[p].current => cells[w] = version[p][w]
<1> DEFINE n == profile[p].current
           row == [profile[p] EXCEPT !.current = n + 1]
           cell == [version[p][v] EXCEPT !.state = "published"]
           next == Draft(version[p][v].config, 1)
           cells == [[version[p] EXCEPT ![v] = cell] EXCEPT ![n + 2] = next]
<1>1. /\ p \in Managed /\ v \in Version /\ v = n + 1
      /\ version[p][v] \in VersionRow /\ version[p][v].state = "draft"
  BY DraftIsNext
<1>2. n + 2 \in Version /\ n \in Nat
  BY DEF Publishable, GovInv, TypeOK
<1>3. row \in ProfileRow /\ row.life = profile[p].life /\ row.current = n + 1
  <2>1. n + 1 \in 0..VersionCap /\ profile[p] \in ProfileRow
    BY <1>2, VersionAssumption DEF GovInv, TypeOK, ProfileRow, Version
  <2> HIDE DEF n
  <2>2. QED
    BY <2>1 DEF ProfileRow
<1>4. cell \in VersionRow /\ cell.state = "published"
  BY <1>1 DEF VersionRow
<1>5. next \in VersionRow /\ next.state = "draft"
  BY <1>1, VersionAssumption DEF Draft, VersionRow
<1>6. version[p] \in [Version -> {NoVersion} \cup VersionRow]
  BY DEF GovInv, TypeOK, VersionRow
<1>7. \A w \in Version : version[p][w].state = IF w <= n THEN "published"
                           ELSE IF w = n + 1 THEN "draft" ELSE "absent"
  BY <1>1 DEF GovInv, Shaped, StateOf
<1>8. profile' = [profile EXCEPT ![p] = row]
  BY DEF Promoted
<1>9. version' = [version EXCEPT ![p] = cells]
  <2>1. version' = [version EXCEPT ![p] = [version[p] EXCEPT
            ![v].state = "published", ![n + 1 + 1] = next]]
    BY DEF Promoted
  <2>2. n + 1 + 1 = n + 2
    BY <1>2
  <2> HIDE DEF n, next
  <2>3. QED
    BY <2>1, <2>2
<1> HIDE DEF n, row, cell, next
<1>10. cells \in [Version -> {NoVersion} \cup VersionRow]
  BY <1>1, <1>2, <1>4, <1>5, <1>6
<1>11. \A w \in Version : cells[w] = IF w = n + 2 THEN next
                                     ELSE IF w = v THEN cell ELSE version[p][w]
  BY <1>1, <1>2, <1>6
<1> HIDE DEF cells
<1>12. \A w \in Version :
         /\ cells[w].state = IF w <= n + 1 THEN "published"
                             ELSE IF w = n + 2 THEN "draft" ELSE "absent"
         /\ w <= n => cells[w] = version[p][w]
  BY <1>1, <1>2, <1>4, <1>5, <1>7, <1>11 DEF Version
<1>13. n + 1 + 1 = n + 2
  BY <1>2
<1>14. Rows(p, row, cells)
  BY <1>8, <1>9 DEF Rows
<1>15. QED
  BY <1>3, <1>10, <1>12, <1>13, <1>14 DEF n

LEMMA ErasedRows ==
  ASSUME GovInv, NEW p \in Profile, Erased(p)
  PROVE  \E row \in ProfileRow, cells \in [Version -> {NoVersion} \cup VersionRow] :
           /\ Rows(p, row, cells) /\ p \notin pointer
           /\ row.life = "deleted" /\ row.current = profile[p].current
           /\ \A v \in Version : cells[v].state = "absent"
<1> DEFINE row == [profile[p] EXCEPT !.life = "deleted"]
           cells == [v \in Version |-> NoVersion]
<1>1. row \in ProfileRow /\ row.life = "deleted" /\ row.current = profile[p].current
  BY DEF GovInv, TypeOK, ProfileRow
<1>2. /\ cells \in [Version -> {NoVersion} \cup VersionRow]
      /\ \A v \in Version : cells[v].state = "absent"
  BY DEF NoVersion
<1>3. Rows(p, row, cells) /\ p \notin pointer
  BY DEF Erased, Rows, Unreferenced
<1> HIDE DEF row, cells
<1>4. QED
  BY <1>1, <1>2, <1>3
-----------------------------------------------------------------------------
(* Steps *)

Living == {"active", "disabled"}

\* What a step may not do to a published version
Kept == \A p \in Profile : \A v \in Published(p) :
          p \in Managed' => version'[p][v] = version[p][v]

\* The number of published versions never decreases.
Grows == \A p \in Profile : profile'[p].current >= profile[p].current

ProfilesOK ==
  /\ profile \in [Profile -> ProfileRow]
  /\ version \in [Profile -> [Version -> {NoVersion} \cup VersionRow]]
  /\ Shaped /\ Pointed

LEMMA RowsStep ==
  ASSUME GovInv, NEW p \in Profile, NEW row \in ProfileRow,
         NEW cells \in [Version -> {NoVersion} \cup VersionRow],
         Rows(p, row, cells), UNCHANGED pointer,
         row.life = "absent" => row.current = 0,
         row.current >= profile[p].current,
         p \in pointer => row.life \in Living,
         \A v \in Version : cells[v].state =
           IF row.life \notin Living THEN "absent"
           ELSE IF v <= row.current THEN "published"
           ELSE IF v = row.current + 1 THEN "draft"
           ELSE "absent",
         \A v \in Version : /\ version[p][v].state = "published" /\ row.life \in Living
                            => cells[v] = version[p][v]
  PROVE  ProfilesOK' /\ Kept /\ Grows
<1>1. /\ profile' \in [Profile -> ProfileRow]
      /\ version' \in [Profile -> [Version -> {NoVersion} \cup VersionRow]]
      /\ \A q \in Profile : /\ profile'[q] = IF q = p THEN row ELSE profile[q]
                            /\ version'[q] = IF q = p THEN cells ELSE version[q]
  BY RowsTyped DEF GovInv
<1>2. \A q \in Profile : profile[q].current \in Nat
  BY VersionAssumption DEF GovInv, TypeOK
<1>3. \A q \in Profile : /\ q \in Managed <=> profile[q].life \in Living
                         /\ q \in Managed' <=> profile'[q].life \in Living
  BY DEF Managed, Living
<1>4. Shaped'
  <2> SUFFICES ASSUME NEW q \in Profile
               PROVE  /\ profile'[q].life = "absent" => profile'[q].current = 0
                      /\ \A v \in Version : version'[q][v].state = StateOf(q, v)'
    BY DEF Shaped, Version
  <2>1. CASE q = p
    BY <1>1, <1>3, <2>1 DEF StateOf
  <2>2. CASE q # p
    BY <1>1, <1>3, <2>2 DEF GovInv, Shaped, StateOf
  <2>3. QED
    BY <2>1, <2>2
<1>5. Pointed'
  BY SMTT(60), <1>1, <1>2, <1>3, VersionAssumption DEF GovInv, TypeOK, Pointed, ProfileRow
<1>6. Kept
  <2> SUFFICES ASSUME NEW q \in Profile, NEW v \in Version,
                      version[q][v].state = "published", q \in Managed'
               PROVE  version'[q][v] = version[q][v]
    BY DEF Kept, Published
  <2>1. QED
    BY <1>1, <1>3
<1>7. Grows
  BY <1>1, <1>2 DEF Grows
<1>8. QED
  BY <1>1, <1>4, <1>5, <1>6, <1>7 DEF ProfilesOK

LEMMA RowsUnchanged ==
  ASSUME GovInv, UNCHANGED <<profile, version, pointer>>
  PROVE  ProfilesOK' /\ Kept /\ Grows
<1>1. ProfilesOK
  BY DEF GovInv, TypeOK, ProfilesOK, ProfileRow, VersionRow
<1>2. ProfilesOK'
  BY <1>1 DEF ProfilesOK, Shaped, StateOf, Pointed, Managed, Version
<1>3. \A p \in Profile : profile[p].current \in Nat
  BY VersionAssumption DEF GovInv, TypeOK
<1>4. QED
  BY <1>2, <1>3 DEF Kept, Grows, Published

\* A request goes on with what it carries.
LEMMA RequestGoes ==
  ASSUME GovInv, Grows, NEW a \in Admin, NEW request, Goes(a, request),
         request.at \in {"chosen", "revising"} => request.config \in Config,
         request.at \notin {"idle", "chosen"} => request.profile \in Profile,
         request.at = "published" => profile'[request.profile].current > 0,
         profile' \in [Profile -> ProfileRow]
  PROVE  Carried'
<1>1. /\ DOMAIN admin' = Admin
      /\ \A b \in Admin : admin'[b] = IF b = a THEN request ELSE admin[b]
  BY DEF Goes, GovInv, Carried
<1>2. \A p \in Profile : profile[p].current \in Nat /\ profile'[p].current \in Nat
  BY VersionAssumption DEF GovInv, TypeOK, ProfileRow
<1>3. QED
  BY <1>1, <1>2 DEF GovInv, Carried, Grows

LEMMA RequestsUnchanged ==
  ASSUME GovInv, Grows, UNCHANGED admin, profile' \in [Profile -> ProfileRow]
  PROVE  Carried'
<1>1. \A p \in Profile : profile[p].current \in Nat /\ profile'[p].current \in Nat
  BY VersionAssumption DEF GovInv, TypeOK, ProfileRow
<1>2. QED
  BY <1>1 DEF GovInv, Carried, Grows

\* What TypeOK says besides ProfilesOK
RegistryOK ==
  /\ serving \in BOOLEAN
  /\ model \in [Model -> {Absent, Deleted} \cup ModelRow]
  /\ deleting \subseteq Model
  /\ pointer \in SUBSET Profile /\ Cardinality(pointer) <= 1

LEMMA Together ==
  /\ GovInv <=> RegistryOK /\ ProfilesOK /\ Carried /\ Informed
  /\ GovInv' <=> RegistryOK' /\ ProfilesOK' /\ Carried' /\ Informed'
<1>1. GovInv <=> RegistryOK /\ ProfilesOK /\ Carried /\ Informed
  BY DEF GovInv, TypeOK, RegistryOK, ProfilesOK, ModelRow, ProfileRow, VersionRow
<1>2. GovInv' <=> RegistryOK' /\ ProfilesOK' /\ Carried' /\ Informed'
  BY DEF GovInv, TypeOK, RegistryOK, ProfilesOK, ModelRow, ProfileRow, VersionRow
<1>3. QED
  BY <1>1, <1>2

LEMMA OthersUnchanged ==
  ASSUME GovInv
  PROVE  /\ UNCHANGED <<registry, pointer>> => RegistryOK'
         /\ UNCHANGED <<pointer, caller>> => Informed'
BY Together DEF RegistryOK, Informed, registry

-----------------------------------------------------------------------------
(* The registry *)

LEMMA RegisteringStep == GovInv /\ Registering => GovInv' /\ Kept
<1> SUFFICES ASSUME GovInv, Registering
             PROVE  GovInv' /\ Kept
  OBVIOUS
<1>1. UNCHANGED <<profile, version, pointer, admin, caller>>
  BY DEF Registering, SetGatewayEnabled, CheckGatewayHealth, Serves, CreateModel,
         ValidateModel, SetModelEnabled, UpdateModel, FindUnused, DeleteModel, profiles
<1>2. ProfilesOK' /\ Kept /\ Grows
  BY <1>1, RowsUnchanged
<1>3. Carried' /\ Informed'
  BY <1>1, <1>2, RequestsUnchanged, OthersUnchanged DEF ProfilesOK
<1>4. serving' \in BOOLEAN /\ deleting' \subseteq Model
  BY DEF Registering, SetGatewayEnabled, CheckGatewayHealth, Serves, CreateModel,
         ValidateModel, SetModelEnabled, UpdateModel, FindUnused, DeleteModel, GovInv, TypeOK
<1>5. model' \in [Model -> {Absent, Deleted} \cup ModelRow]
  <2>1. model \in [Model -> {Absent, Deleted} \cup ModelRow]
    BY DEF GovInv, TypeOK, ModelRow
  <2>2. \A m \in Model : Exists(m) => model[m] \in ModelRow
    BY <2>1 DEF Exists, Absent, Deleted
  <2>3. CASE UNCHANGED model
    BY <2>1, <2>3
  <2>4. ASSUME NEW m \in Model, NEW row \in {Deleted} \cup ModelRow,
               model' = [model EXCEPT ![m] = row]
        PROVE  model' \in [Model -> {Absent, Deleted} \cup ModelRow]
    BY <2>1, <2>4
  <2>5. ASSUME NEW m \in Model, NEW d \in Dimension, CreateModel(m, d)
        PROVE  model' \in [Model -> {Absent, Deleted} \cup ModelRow]
    <3>1. [life |-> "model", dimension |-> d, enabled |-> FALSE, validated |-> FALSE]
            \in ModelRow
      BY DEF ModelRow
    <3>2. QED
      BY <2>4, <2>5, <3>1 DEF CreateModel
  <2>6. ASSUME NEW m \in Model, NEW on \in BOOLEAN, ValidateModel(m, on)
        PROVE  model' \in [Model -> {Absent, Deleted} \cup ModelRow]
    <3>1. [model[m] EXCEPT !.validated = on] \in ModelRow
      BY <2>2, <2>6 DEF ValidateModel, ModelRow
    <3>2. QED
      BY <2>4, <2>6, <3>1 DEF ValidateModel
  <2>7. ASSUME NEW m \in Model, NEW on \in BOOLEAN, SetModelEnabled(m, on)
        PROVE  model' \in [Model -> {Absent, Deleted} \cup ModelRow]
    <3>1. [model[m] EXCEPT !.enabled = on] \in ModelRow
      BY <2>2, <2>7 DEF SetModelEnabled, ModelRow
    <3>2. QED
      BY <2>4, <2>7, <3>1 DEF SetModelEnabled
  <2>8. ASSUME NEW m \in Model, NEW d \in Dimension, UpdateModel(m, d)
        PROVE  model' \in [Model -> {Absent, Deleted} \cup ModelRow]
    <3>1. [model[m] EXCEPT !.dimension = d] \in ModelRow
      BY <2>2, <2>8 DEF UpdateModel, ModelRow
    <3>2. [[model[m] EXCEPT !.dimension = d] EXCEPT !.validated = FALSE] \in ModelRow
      BY <3>1 DEF ModelRow
    <3>3. model' = [model EXCEPT
            ![m] = [[model[m] EXCEPT !.dimension = d] EXCEPT !.validated = FALSE]]
      BY <2>1, <2>8 DEF UpdateModel
    <3>4. QED
      BY <2>4, <3>2, <3>3
  <2>9. ASSUME NEW m \in Model, DeleteModel(m)
        PROVE  model' \in [Model -> {Absent, Deleted} \cup ModelRow]
    BY <2>4, <2>9 DEF DeleteModel
  <2>10. QED
    BY <2>3, <2>5, <2>6, <2>7, <2>8, <2>9
    DEF Registering, SetGatewayEnabled, CheckGatewayHealth, Serves, FindUnused
<1>6. RegistryOK'
  BY <1>1, <1>4, <1>5, Together DEF RegistryOK
<1>7. QED
  BY <1>2, <1>3, <1>6, Together

-----------------------------------------------------------------------------
(* Profiles and requests *)

\* A step of a request that leaves the pointer alone
LEMMA RequestStep ==
  ASSUME GovInv, ProfilesOK', Carried', Kept, UNCHANGED <<registry, pointer, caller>>
  PROVE  GovInv' /\ Kept
BY Together, OthersUnchanged

LEMMA GoverningStep == GovInv /\ Governing => GovInv' /\ Kept
<1> SUFFICES ASSUME GovInv, Governing
             PROVE  GovInv' /\ Kept
  OBVIOUS
<1> USE DEF profiles
<1>1. ASSUME NEW p \in Profile, NEW off \in BOOLEAN, SetProfileDisabled(p, off)
      PROVE  GovInv' /\ Kept
  <2>1. PICK life \in Living :
          /\ p \in Managed /\ profile' = [profile EXCEPT ![p].life = life]
          /\ UNCHANGED <<version, registry, pointer, admin, caller>>
    BY <1>1 DEF SetProfileDisabled, Living
  <2> DEFINE row == [profile[p] EXCEPT !.life = life]
  <2>2. /\ row \in ProfileRow /\ row.life \in Living
        /\ row.current = profile[p].current /\ row.current \in Nat
    BY <2>1, VersionAssumption DEF GovInv, TypeOK, ProfileRow, Living
  <2>3. /\ version[p] \in [Version -> {NoVersion} \cup VersionRow]
        /\ \A v \in Version : version[p][v].state = StateOf(p, v)
    BY DEF GovInv, TypeOK, VersionRow, Shaped
  <2>4. Rows(p, row, version[p])
    BY <2>1 DEF Rows, GovInv, TypeOK
  <2> HIDE DEF row
  <2>5. ProfilesOK' /\ Kept /\ Grows
    BY <2>1, <2>2, <2>3, <2>4, RowsStep DEF Living, StateOf
  <2>6. Carried'
    BY <2>1, <2>5, RequestsUnchanged DEF ProfilesOK
  <2>7. QED
    BY <2>1, <2>5, <2>6, RequestStep
<1>2. ASSUME NEW p \in Profile, Erased(p), UNCHANGED pointer
      PROVE  ProfilesOK' /\ Kept /\ Grows
  <2>1. PICK row \in ProfileRow, cells \in [Version -> {NoVersion} \cup VersionRow] :
           /\ Rows(p, row, cells) /\ p \notin pointer
           /\ row.life = "deleted" /\ row.current = profile[p].current
           /\ \A v \in Version : cells[v].state = "absent"
    BY <1>2, ErasedRows
  <2>2. row.current \in Nat
    BY VersionAssumption DEF ProfileRow
  <2>3. QED
    BY <1>2, <2>1, <2>2, RowsStep DEF Living
<1>3. ASSUME NEW p \in Profile, DeleteProfile(p)
      PROVE  GovInv' /\ Kept
  <2>1. Erased(p) /\ UNCHANGED <<registry, pointer, admin, caller>>
    BY <1>3 DEF DeleteProfile
  <2>2. ProfilesOK' /\ Kept /\ Grows
    BY <1>2, <2>1
  <2>3. Carried'
    BY <2>1, <2>2, RequestsUnchanged DEF ProfilesOK
  <2>4. QED
    BY <2>1, <2>2, <2>3, RequestStep
<1>4. ASSUME NEW a \in Admin, Discard(a)
      PROVE  GovInv' /\ Kept
  <2>1. /\ admin[a].at = "failed" /\ Goes(a, Idle) /\ Erased(admin[a].profile)
        /\ UNCHANGED <<registry, pointer, caller>>
    BY <1>4 DEF Discard
  <2>2. admin[a].profile \in Profile
    BY <2>1 DEF GovInv, Carried
  <2>3. ProfilesOK' /\ Kept /\ Grows
    BY <1>2, <2>1, <2>2
  <2>4. Carried'
    BY <2>1, <2>3, RequestGoes DEF ProfilesOK, Idle
  <2>5. QED
    BY <2>1, <2>3, <2>4, RequestStep
<1>5. ASSUME NEW a \in Admin, NEW p \in Profile, CreateScene(a, p)
      PROVE  GovInv' /\ Kept
  <2>1. /\ admin[a].at = "chosen" /\ Created(p, admin[a].config)
        /\ Goes(a, [at |-> "created", profile |-> p, edits |-> 1])
        /\ UNCHANGED <<registry, pointer, caller>>
    BY <1>5 DEF CreateScene
  <2>2. admin[a].config \in Config
    BY <2>1 DEF GovInv, Carried
  <2>3. PICK row \in ProfileRow, cells \in [Version -> {NoVersion} \cup VersionRow] :
           /\ Rows(p, row, cells) /\ p \notin Managed
           /\ row.life = "active" /\ row.current = profile[p].current
           /\ \A v \in Version : cells[v].state = IF v = 1 THEN "draft" ELSE "absent"
           /\ row.current = 0
    BY <2>1, <2>2, CreatedRows
  <2>4. /\ \A v \in Version : version[p][v].state = "absent"
        /\ p \notin pointer
    BY <2>3 DEF GovInv, Shaped, StateOf, Pointed
  <2>5. \A v \in Version : cells[v].state =
           IF v <= row.current THEN "published"
           ELSE IF v = row.current + 1 THEN "draft" ELSE "absent"
    BY <2>3 DEF Version
  <2>6. row.life \in Living /\ row.life # "absent" /\ row.current >= profile[p].current
    BY <2>3 DEF Living
  <2>7. \A v \in Version : version[p][v].state # "published"
    BY <2>4
  <2>8. \A v \in Version : cells[v].state =
           IF row.life \notin Living THEN "absent"
           ELSE IF v <= row.current THEN "published"
           ELSE IF v = row.current + 1 THEN "draft"
           ELSE "absent"
    BY <2>5, <2>6
  <2>9. ProfilesOK' /\ Kept /\ Grows
    BY ZenonT(60), <2>1, <2>3, <2>4, <2>6, <2>7, <2>8, RowsStep
  <2>10. Carried'
    BY <2>1, <2>9, RequestGoes DEF ProfilesOK
  <2>11. QED
    BY <2>1, <2>9, <2>10, RequestStep
<1>6. ASSUME NEW a \in Admin, NEW v \in Version, NEW config \in Config, Patch(a, v, config)
      PROVE  GovInv' /\ Kept
  <2> DEFINE p == admin[a].profile
  <2>1. /\ admin[a].at \in {"editing", "revising"} /\ v \in Drafts(p)
        /\ version[p][v].edits = admin[a].edits /\ admin[a].edits < EditCap
        /\ Patched(p, v, config) /\ UNCHANGED <<registry, pointer, caller>>
    BY <1>6 DEF Patch, Current
  <2>2. p \in Profile
    BY <2>1 DEF GovInv, Carried
  <2>3. PICK request :
          /\ Goes(a, request)
          /\ request = Idle \/ (request.at = "patched" /\ request.profile = p)
    BY <1>6 DEF Patch
  <2> HIDE DEF p
  <2>4. PICK cells \in [Version -> {NoVersion} \cup VersionRow] :
          /\ Rows(p, profile[p], cells)
          /\ \A w \in Version : /\ cells[w].state = version[p][w].state
                                /\ w # v => cells[w] = version[p][w]
    BY <2>1, <2>2, PatchedRows
  <2>5. p \in Managed /\ version[p][v].state = "draft"
    BY <2>1, <2>2, DraftIsNext
  <2>6. /\ profile[p] \in ProfileRow /\ profile[p].life \in Living
        /\ profile[p].current \in Nat
    BY <2>2, <2>5, VersionAssumption DEF GovInv, TypeOK, ProfileRow, Managed, Living
  <2>7. \A w \in Version : version[p][w].state = StateOf(p, w)
    BY <2>2 DEF GovInv, Shaped
  <2>8. ProfilesOK' /\ Kept /\ Grows
    BY <2>1, <2>2, <2>4, <2>5, <2>6, <2>7, RowsStep DEF Living, StateOf
  <2>9. Carried'
    BY <2>2, <2>3, <2>8, RequestGoes DEF ProfilesOK, Idle
  <2>10. QED
    BY <2>1, <2>8, <2>9, RequestStep
<1>7. ASSUME NEW a \in Admin, NEW v \in Version, Publish(a, v)
      PROVE  GovInv' /\ Kept
  <2> DEFINE p == admin[a].profile
  <2>1. /\ admin[a].at \in {"editing", "created", "patched"} /\ v \in Drafts(p)
        /\ Publishable(p, v) /\ Promoted(p, v) /\ UNCHANGED <<registry, pointer, caller>>
    BY <1>7 DEF Publish, Current
  <2>2. p \in Profile
    BY <2>1 DEF GovInv, Carried
  <2>3. PICK request :
          /\ Goes(a, request)
          /\ request = Idle \/ (request.at = "published" /\ request.profile = p)
    BY <1>7 DEF Publish
  <2> HIDE DEF p
  <2>4. PICK row \in ProfileRow, cells \in [Version -> {NoVersion} \cup VersionRow] :
           /\ Rows(p, row, cells)
           /\ row.life = profile[p].life /\ row.current = profile[p].current + 1
           /\ \A w \in Version :
                /\ cells[w].state = IF w <= row.current THEN "published"
                                    ELSE IF w = row.current + 1 THEN "draft" ELSE "absent"
                /\ w <= profile[p].current => cells[w] = version[p][w]
    BY <2>1, <2>2, PromotedRows
  <2>5. p \in Managed
    BY <2>1, <2>2, DraftIsNext
  <2>6. row.life \in Living /\ profile[p].current \in Nat
    BY <2>2, <2>4, <2>5, VersionAssumption DEF GovInv, TypeOK, Managed, Living
  <2>7. \A w \in Version : version[p][w].state = "published" => w <= profile[p].current
    BY <2>2 DEF GovInv, Shaped, StateOf
  <2>8. ProfilesOK' /\ Kept /\ Grows
    BY <2>1, <2>2, <2>4, <2>6, <2>7, RowsStep DEF Living
  <2>9. profile'[p].current > 0
    BY <2>2, <2>4, <2>6 DEF Rows, GovInv, TypeOK
  <2>10. Carried'
    BY <2>2, <2>3, <2>8, <2>9, RequestGoes DEF ProfilesOK, Idle
  <2>11. QED
    BY <2>1, <2>8, <2>10, RequestStep
<1>8. ASSUME NEW a \in Admin, NEW request, Goes(a, request),
             request.at \in {"chosen", "revising"} => request.config \in Config,
             request.at \notin {"idle", "chosen"} => request.profile \in Profile,
             request.at # "published",
             UNCHANGED <<registry, profiles, pointer, caller>>
      PROVE  GovInv' /\ Kept
  <2>1. ProfilesOK' /\ Kept /\ Grows
    BY <1>8, RowsUnchanged
  <2>2. Carried'
    BY <1>8, <2>1, RequestGoes DEF ProfilesOK
  <2>3. QED
    BY <1>8, <2>1, <2>2, RequestStep
<1>9. ASSUME NEW a \in Admin, NEW p \in Profile, NEW v \in Version,
             OpenDraft(a, p, v) \/ Revise(a, p, v)
      PROVE  GovInv' /\ Kept
  <2>1. CASE OpenDraft(a, p, v)
    BY <1>8, <2>1 DEF OpenDraft
  <2>2. CASE Revise(a, p, v)
    <3>1. admin[a].config \in Config
      BY <2>2 DEF Revise, GovInv, Carried
    <3>2. QED
      BY <1>8, <2>2, <3>1 DEF Revise
  <2>3. QED
    BY <1>9, <2>1, <2>2
<1>10. ASSUME NEW a \in Admin, NEW m \in Model, ChooseModel(a, m)
       PROVE  GovInv' /\ Kept
  <2>1. model[m] \in ModelRow
    BY <1>10 DEF ChooseModel, Exists, GovInv, TypeOK, ModelRow, Absent, Deleted
  <2>2. [model |-> m, dimension |-> model[m].dimension] \in Config
    BY <2>1 DEF Config, ModelRow
  <2>3. QED
    BY <1>8, <1>10, <2>2 DEF ChooseModel
<1>11. ASSUME NEW a \in Admin, Fail(a) \/ Abandon(a)
       PROVE  GovInv' /\ Kept
  <2>1. CASE Abandon(a)
    BY <1>8, <2>1 DEF Abandon, Idle
  <2>2. CASE Fail(a)
    <3>1. admin[a].profile \in Profile
      BY <2>2 DEF Fail, GovInv, Carried
    <3>2. /\ UNCHANGED <<registry, profiles, pointer, caller>>
          /\ \/ Goes(a, [at |-> "failed", profile |-> admin[a].profile])
             \/ Goes(a, Idle)
      BY <2>2 DEF Fail
    <3>3. QED
      BY <1>8, <3>1, <3>2 DEF Idle
  <2>3. QED
    BY <1>11, <2>1, <2>2
<1>12. ASSUME NEW points, Points(points), points = {} \/ (\E p \in Managed :
                points = {p} /\ profile[p].current > 0),
              UNCHANGED <<registry, profiles>>, Carried'
       PROVE  GovInv' /\ Kept
  <2>1. points \in SUBSET Profile /\ Cardinality(points) <= 1
    BY <1>12, FS_EmptySet, FS_Singleton DEF Managed
  <2>2. RegistryOK'
    BY <1>12, <2>1, Together DEF RegistryOK, Points, registry
  <2>3. Pointed'
    BY <1>12 DEF Points, Pointed, Managed
  <2>4. ProfilesOK' /\ Kept
    <3>1. ProfilesOK
      BY Together
    <3>2. Shaped' /\ Kept
      BY <1>12, <3>1 DEF ProfilesOK, Shaped, StateOf, Managed, Version, Kept, Published
    <3>3. QED
      BY <1>12, <2>3, <3>1, <3>2 DEF ProfilesOK, Version
  <2>5. Informed'
    <3>1. \A c \in Caller : caller[c].at = "missed" =>
            /\ caller[c] \in CallerRow
            /\ [caller[c] EXCEPT !.unset = TRUE] \in CallerRow
            /\ [caller[c] EXCEPT !.unset = TRUE].unset = TRUE
            /\ [caller[c] EXCEPT !.unset = TRUE].at = "missed"
      <4>1. ASSUME NEW c \in Caller, caller[c].at = "missed"
            PROVE  caller[c] \in CallerRow
        <5>1. caller[c] \in {Idle} \cup CallerRow
          BY DEF GovInv, Informed
        <5>2. Idle.at = "idle"
          BY DEF Idle
        <5>3. caller[c] # Idle
          BY <4>1, <5>2
        <5>4. QED
          BY <5>1, <5>3
      <4>2. ASSUME NEW r \in CallerRow
            PROVE  /\ [r EXCEPT !.unset = TRUE] \in CallerRow
                   /\ [r EXCEPT !.unset = TRUE].unset = TRUE
                   /\ [r EXCEPT !.unset = TRUE].at = r.at
        BY DEF CallerRow
      <4>3. QED
        BY <4>1, <4>2
    <3>2. /\ pointer' = points
          /\ caller' = [c \in Caller |-> IF caller[c].at = "missed" /\ points = {}
                          THEN [caller[c] EXCEPT !.unset = TRUE] ELSE caller[c]]
      BY <1>12 DEF Points
    <3>3. \A c \in Caller : /\ caller'[c] \in {Idle} \cup CallerRow
                            /\ caller'[c].at = caller[c].at
                            /\ caller'[c].unset = caller[c].unset \/ caller'[c].unset = TRUE
      BY <3>1, <3>2 DEF GovInv, Informed
    <3>4. QED
      BY <3>1, <3>2, <3>3 DEF GovInv, Informed
  <2>6. QED
    BY <1>12, <2>2, <2>4, <2>5, Together
<1>13. ASSUME NEW a \in Admin, SetPointer(a)
       PROVE  GovInv' /\ Kept
  <2>1. /\ admin[a].at = "published" /\ admin[a].profile \in Managed
        /\ Points({admin[a].profile}) /\ Goes(a, Idle) /\ UNCHANGED <<registry, profiles>>
    BY <1>13 DEF SetPointer
  <2>2. profile[admin[a].profile].current > 0
    BY <2>1 DEF GovInv, Carried
  <2>3. Carried'
    <3>1. \A p \in Profile : profile[p].current \in Nat
      BY VersionAssumption DEF GovInv, TypeOK
    <3>2. Grows /\ profile' \in [Profile -> ProfileRow]
      BY <2>1, <3>1, Together DEF Grows, ProfilesOK
    <3>3. QED
      BY <2>1, <3>2, RequestGoes DEF Idle
  <2>4. QED
    BY <1>12, <2>1, <2>2, <2>3
<1>14. ASSUME ClearSceneDefault
       PROVE  GovInv' /\ Kept
  <2>1. Points({}) /\ UNCHANGED <<registry, profiles, admin>>
    BY <1>14 DEF ClearSceneDefault
  <2>2. Carried'
    BY <2>1 DEF GovInv, Carried
  <2>3. QED
    BY <1>12, <2>1, <2>2
<1>15. QED
  BY <1>1, <1>3, <1>4, <1>5, <1>6, <1>7, <1>9, <1>10, <1>11, <1>13, <1>14 DEF Governing

-----------------------------------------------------------------------------
(* Calls *)

\* A call's row is replaced while the pointer stays.
LEMMA CallStep ==
  ASSUME GovInv, NEW c \in Caller, NEW row \in {Idle} \cup CallerRow,
         caller' = [caller EXCEPT ![c] = row], UNCHANGED pointer,
         row.at = "missed" /\ pointer = {} => row.unset,
         row.at = "NO_ASSIGNMENT" => row.unset
  PROVE  Informed'
<1>1. caller \in [Caller -> {Idle} \cup CallerRow]
  BY DEF GovInv, Informed
<1>2. \A d \in Caller : caller'[d] = IF d = c THEN row ELSE caller[d]
  BY <1>1
<1>3. caller' \in [Caller -> {Idle} \cup CallerRow]
  BY <1>1
<1>4. QED
  BY <1>2, <1>3 DEF GovInv, Informed

LEMMA CallingStep == GovInv /\ Calling => GovInv' /\ Kept
<1> SUFFICES ASSUME GovInv, Calling
             PROVE  GovInv' /\ Kept
  OBVIOUS
<1>1. UNCHANGED <<registry, profile, version, pointer, admin>>
  BY DEF Calling, Resolve, Explain, Answer, profiles
<1>2. ProfilesOK' /\ Kept /\ Grows
  BY <1>1, RowsUnchanged
<1>3. RegistryOK' /\ Carried'
  BY <1>1, <1>2, OthersUnchanged, RequestsUnchanged DEF ProfilesOK
<1>4. Informed'
  <2>1. ASSUME NEW c \in Caller, Resolve(c)
        PROVE  Informed'
    <3> DEFINE row == [at |-> "missed", unset |-> pointer = {}]
    <3>1. row \in CallerRow
      BY DEF CallerRow
    <3>2. row.at = "missed" /\ (pointer = {} => row.unset)
      OBVIOUS
    <3>3. caller' = [caller EXCEPT ![c] = row]
      BY <2>1 DEF Resolve
    <3> HIDE DEF row
    <3>4. QED
      BY <1>1, <3>1, <3>2, <3>3, CallStep
  <2>2. ASSUME NEW c \in Caller, caller' = [caller EXCEPT ![c] = Idle]
        PROVE  Informed'
    <3>1. Idle.at = "idle"
      BY DEF Idle
    <3>2. QED
      BY <1>1, <2>2, <3>1, CallStep
  <2>3. ASSUME NEW c \in Caller, Explain(c)
        PROVE  Informed'
    <3> DEFINE row == [caller[c] EXCEPT !.at = "NO_ASSIGNMENT"]
    <3>1. /\ caller[c].at = "missed"
          /\ caller' = [caller EXCEPT ![c] = IF Configured THEN Idle ELSE row]
      BY <2>3 DEF Explain
    <3>2. CASE Configured
      <4>1. caller' = [caller EXCEPT ![c] = Idle]
        BY <3>1, <3>2
      <4>2. QED
        BY <2>2, <4>1
    <3>3. CASE ~Configured
      <4>1. caller[c] \in CallerRow
        <5>1. caller[c] \in {Idle} \cup CallerRow
          BY DEF GovInv, Informed
        <5>2. Idle.at = "idle"
          BY DEF Idle
        <5>3. QED
          BY <3>1, <5>1, <5>2
      <4>2. row \in CallerRow /\ row.at = "NO_ASSIGNMENT" /\ row.unset = caller[c].unset
        BY <4>1 DEF CallerRow
      <4>3. caller[c].unset
        BY <3>1, <3>3 DEF GovInv, Informed, Configured
      <4>4. caller' = [caller EXCEPT ![c] = row]
        BY <3>1, <3>3
      <4> HIDE DEF row
      <4>5. row.unset
        BY <4>2, <4>3
      <4>6. QED
        BY <1>1, <4>2, <4>4, <4>5, CallStep
    <3>4. QED
      BY <3>2, <3>3
  <2>4. QED
    BY <2>1, <2>2, <2>3 DEF Calling, Answer
<1>5. QED
  BY <1>2, <1>3, <1>4, Together

-----------------------------------------------------------------------------
(* Theorems *)

LEMMA GovStep == GovInv /\ [Next]_vars => GovInv' /\ Kept
<1> SUFFICES ASSUME GovInv, [Next]_vars
             PROVE  GovInv' /\ Kept
  OBVIOUS
<1>1. CASE UNCHANGED vars
  <2>1. UNCHANGED <<registry, profile, version, pointer, admin, caller>>
    BY <1>1 DEF vars, profiles
  <2>2. ProfilesOK' /\ Kept /\ Grows
    BY <2>1, RowsUnchanged
  <2>3. Carried'
    BY <2>1, <2>2, RequestsUnchanged DEF ProfilesOK
  <2>4. QED
    BY <2>1, <2>2, <2>3, RequestStep
<1>2. QED
  BY <1>1, RegisteringStep, GoverningStep, CallingStep DEF Next

LEMMA GovAlways == Spec => []GovInv
<1>1. GovInv /\ [Next]_vars => GovInv'
  BY GovStep
<1>2. QED
  BY <1>1, GovInitial, PTL DEF Spec

\* Every variable keeps its type: a workflow has one pointer at most, and drafts
\* and published versions are of known models.
THEOREM TypeCorrect == Spec => []TypeOK
<1>1. GovInv => TypeOK
  BY DEF GovInv
<1>2. QED
  BY <1>1, GovAlways, PTL

\* The workflow's pointer leads to a published version of a profile that exists,
\* and NO_ASSIGNMENT is told only if there was no pointer (set_scene_default,
\* delete_profile, _execution_target).
THEOREM RoutesAreSound == Spec => []RoutingSound
<1>1. GovInv => RoutingSound
  <2> SUFFICES ASSUME GovInv
               PROVE  RoutingSound
    OBVIOUS
  <2>1. \A p \in pointer : p \in Managed /\ profile[p].current \in Published(p)
    <3> SUFFICES ASSUME NEW p \in pointer
                 PROVE  p \in Managed /\ profile[p].current \in Published(p)
      OBVIOUS
    <3>1. p \in Managed /\ p \in Profile /\ profile[p].current > 0
      BY DEF GovInv, Pointed, Managed
    <3>2. profile[p].current \in Version
      BY <3>1, VersionAssumption DEF GovInv, TypeOK, Version
    <3>3. version[p][profile[p].current].state = "published"
      BY <3>1, <3>2 DEF GovInv, Shaped, StateOf, Version
    <3>4. QED
      BY <3>1, <3>2, <3>3 DEF Published
  <2>2. QED
    BY <2>1 DEF RoutingSound, GovInv, Informed
<1>2. QED
  BY <1>1, GovAlways, PTL

\* A published version never changes while its profile exists, however edits and
\* publications of its drafts overlap (patch_draft, publish_profile).
THEOREM VersionsImmutable == Spec => PublishedImmutable
<1>1. GovInv /\ [Next]_vars => Kept
  BY GovStep
<1>2. QED
  BY <1>1, GovAlways, PTL DEF Spec, PublishedImmutable, Kept
-----------------------------------------------------------------------------
(***************************************************************************)
(* Gateways, for any number of gateways, credentials, processes, inputs and *)
(* key versions.                                                            *)
(*                                                                         *)
(* That a call sends the credential its address was stored with rests on   *)
(* rows of credentials being written once: what a call has read about them *)
(* stays true, whichever key they are encrypted with (CallsRemember).  That *)
(* no credential in use is locked out rests on the ring of every process   *)
(* being the deployed one while a rotation is applied (RingsAgree), so that *)
(* what is written meanwhile has the current key already (Reencrypting).   *)
(***************************************************************************)
KeyRing == [keys : SUBSET (1..KeyCap), current : 1..KeyCap]
GatewayRow == [life : {"gateway"}, url : Url, secret : {{}} \cup {{s} : s \in Secret}]
SecretRow ==
  [of : {"gateway"}, gateway : Gateway, credential : Credential, key : 1..KeyCap]

GatewaysTyped ==
  /\ gateway \in [Gateway -> {Gateways!Absent, Gateways!Deleted} \cup GatewayRow]
  /\ secret \in [Secret -> {Gateways!NoSecret} \cup SecretRow]

RingsAgree ==
  /\ deployed \in KeyRing /\ running \in [Process -> KeyRing]
  /\ deployed.current \in deployed.keys
  /\ \A p \in Process : /\ running[p].current \in running[p].keys
                        /\ running[p].current \in deployed.keys
  /\ rotation.at \in {"applying", "applied"} =>
       \A p \in Process : running[p] = deployed

Applying == [at : {"applying"}, todo : SUBSET Secret, done : SUBSET Secret]
InUse == {s \in Secret : Gateways!InUse(s)}

Reencrypting ==
  /\ rotation \in {Gateways!Idle, [at |-> "applied"]} \cup Applying
  /\ rotation.at = "applying" =>
       \A s \in rotation.done : secret[s] # Gateways!NoSecret
  /\ \A s \in InUse :
       /\ secret[s] # Gateways!NoSecret
       /\ secret[s].key \in deployed.keys
       /\ rotation.at = "applied" => secret[s].key = deployed.current
       /\ rotation.at = "applying" =>
            s \in rotation.todo \cup rotation.done \/ secret[s].key = deployed.current

CallsRemember ==
  /\ DOMAIN call = Process
  /\ \A p \in Process :
       /\ call[p].at = "read" =>
            /\ \A s \in call[p].secret : s \in Secret /\ secret[s] # Gateways!NoSecret
            /\ call[p].meant = {secret[s].credential : s \in call[p].secret}
       /\ call[p].at = "streaming" => call[p] \in [at : {"streaming"}, passed : Nat]

StoredInv == GatewaysTyped /\ RingsAgree /\ Reencrypting
GatesInv == StoredInv /\ CallsRemember /\ Gateways!CallsSound

\* A credential in use is a row of its gateway.
LEMMA InUseRow ==
  ASSUME GatewaysTyped, NEW s
  PROVE  s \in InUse <=> \E g \in Gateway : gateway[g] \in GatewayRow /\ s \in gateway[g].secret
<1>1. \A g \in Gateway : Gateways!Exists(g) <=> gateway[g] \in GatewayRow
  BY DEF GatewaysTyped, GatewayRow, Gateways!Exists, Gateways!Absent, Gateways!Deleted
<1>2. \A g \in Gateway : gateway[g] \in GatewayRow => gateway[g].secret \subseteq Secret
  BY DEF GatewayRow
<1>3. QED
  BY <1>1, <1>2 DEF InUse, Gateways!InUse

LEMMA GatesInitial ==
  ASSUME Gateways!Init
  PROVE  GatesInv
<1> USE GatewaysAssumption DEF Gateways!Init
<1>1. GatewaysTyped
  BY DEF GatewaysTyped
<1>2. InUse = {}
  BY DEF InUse, Gateways!InUse, Gateways!Exists, Gateways!Absent
<1>3. Gateways!First \in KeyRing /\ Gateways!First.current \in Gateways!First.keys
  BY DEF Gateways!First, Gateways!Ring, KeyRing
<1>4. RingsAgree /\ Reencrypting
  BY <1>2, <1>3 DEF RingsAgree, Reencrypting, Gateways!Idle
<1>5. CallsRemember /\ Gateways!CallsSound
  BY DEF CallsRemember, Gateways!CallsSound, Gateways!Idle
<1>6. QED
  BY <1>1, <1>4, <1>5 DEF GatesInv, StoredInv

\* A new envelope takes an unused row and has the current key of its process.
LEMMA EnvelopeRow ==
  ASSUME RingsAgree, NEW p \in Process, NEW g \in Gateway, NEW c \in Credential
  PROVE  /\ Gateways!Envelope(g, c, running[p]) \in SecretRow
         /\ Gateways!Envelope(g, c, running[p]) # Gateways!NoSecret
         /\ Gateways!Envelope(g, c, running[p]).key = running[p].current
BY DEF RingsAgree, KeyRing, Gateways!Envelope, SecretRow, Gateways!NoSecret

\* Storing a gateway with a new credential, or with those it has, keeps every
\* credential in use readable.
LEMMA StoreStep ==
  ASSUME StoredInv, NEW g \in Gateway, NEW row \in GatewayRow,
         gateway' = [gateway EXCEPT ![g] = row],
         UNCHANGED <<deployed, running, rotation>>,
         \/ row.secret \subseteq InUse /\ UNCHANGED secret
         \/ \E p \in Process, s \in Gateways!Unused, c \in Credential :
              /\ row.secret = {s}
              /\ secret' = [secret EXCEPT ![s] = Gateways!Envelope(g, c, running[p])]
  PROVE  StoredInv'
<1>1. GatewaysTyped' /\ RingsAgree'
  <2>1. RingsAgree'
    BY DEF StoredInv, RingsAgree
  <2>2. secret' \in [Secret -> {Gateways!NoSecret} \cup SecretRow]
    BY EnvelopeRow DEF StoredInv, GatewaysTyped, Gateways!Unused
  <2>3. QED
    BY <2>1, <2>2 DEF StoredInv, GatewaysTyped
<1>2. \A s \in InUse' : s \in InUse \/ s \in row.secret
  <2>1. \A h \in Gateway : gateway'[h] = IF h = g THEN row ELSE gateway[h]
    BY DEF StoredInv, GatewaysTyped
  <2>2. QED
    BY <2>1 DEF InUse, Gateways!InUse, Gateways!Exists
<1>3. \A s \in InUse : secret[s] # Gateways!NoSecret
  BY DEF StoredInv, Reencrypting
<1>4. ASSUME NEW s \in InUse'
      PROVE  \/ s \in InUse /\ secret'[s] = secret[s]
             \/ /\ secret'[s] # Gateways!NoSecret
                /\ \E p \in Process : secret'[s].key = running[p].current
  <2>1. CASE row.secret \subseteq InUse /\ UNCHANGED secret
    BY <1>2, <2>1
  <2>2. ASSUME NEW p \in Process, NEW t \in Gateways!Unused, NEW c \in Credential,
               row.secret = {t},
               secret' = [secret EXCEPT ![t] = Gateways!Envelope(g, c, running[p])]
        PROVE  \/ s \in InUse /\ secret'[s] = secret[s]
               \/ /\ secret'[s] # Gateways!NoSecret
                  /\ \E q \in Process : secret'[s].key = running[q].current
    <3>1. t \in Secret /\ secret[t] = Gateways!NoSecret /\ s \in Secret
      BY DEF Gateways!Unused, InUse
    <3>2. CASE s = t
      BY <2>2, <3>1, <3>2, EnvelopeRow DEF StoredInv, GatewaysTyped
    <3>3. CASE s # t
      BY <1>2, <2>2, <3>1, <3>3 DEF StoredInv, GatewaysTyped
    <3>4. QED
      BY <3>2, <3>3
  <2>3. QED
    BY <2>1, <2>2
<1>5. Reencrypting'
  <2>1. \A p \in Process : /\ running[p].current \in deployed.keys
                           /\ rotation.at \in {"applying", "applied"} =>
                                running[p].current = deployed.current
    BY DEF StoredInv, RingsAgree
  <2>2. ASSUME rotation.at = "applying", NEW s \in rotation.done
        PROVE  secret'[s] # Gateways!NoSecret
    <3>1. rotation \in Applying
      BY <2>2 DEF StoredInv, Reencrypting, Gateways!Idle
    <3>2. s \in Secret /\ secret[s] # Gateways!NoSecret
      BY <2>2, <3>1 DEF StoredInv, Reencrypting, Applying
    <3>3. QED
      BY <3>2, EnvelopeRow DEF StoredInv, GatewaysTyped, Gateways!Unused
  <2>3. QED
    BY <1>4, <2>1, <2>2 DEF StoredInv, Reencrypting
<1>6. QED
  BY <1>1, <1>5 DEF StoredInv

LEMMA AdministeringStep ==
  ASSUME StoredInv, Gateways!Administering
  PROVE  StoredInv'
<1>1. ASSUME NEW g \in Gateway, Gateways!DeleteGateway(g)
      PROVE  StoredInv'
  <2>1. GatewaysTyped' /\ RingsAgree'
    BY <1>1 DEF StoredInv, GatewaysTyped, RingsAgree, Gateways!DeleteGateway
  <2>2. \A s \in InUse' : s \in InUse
    <3>1. \A h \in Gateway : gateway'[h] = IF h = g THEN Gateways!Deleted ELSE gateway[h]
      BY <1>1 DEF StoredInv, GatewaysTyped, Gateways!DeleteGateway
    <3>2. QED
      BY <3>1 DEF InUse, Gateways!InUse, Gateways!Exists, Gateways!Deleted
  <2>3. Reencrypting'
    BY <1>1, <2>2 DEF StoredInv, Reencrypting, Gateways!DeleteGateway
  <2>4. QED
    BY <2>1, <2>3 DEF StoredInv
<1>2. ASSUME NEW g \in Gateway, NEW u \in Url, Gateways!UpdateGateway(g, u)
      PROVE  StoredInv'
  <2>1. gateway[g] \in GatewayRow
    BY <1>2 DEF StoredInv, GatewaysTyped, Gateways!UpdateGateway, Gateways!Unlocked,
                Gateways!Exists, Gateways!Absent, Gateways!Deleted
  <2>2. [gateway[g] EXCEPT !.url = u] \in GatewayRow
    BY <2>1 DEF GatewayRow
  <2>3. gateway[g].secret \subseteq InUse
    BY <2>1, InUseRow DEF StoredInv
  <2>4. [gateway[g] EXCEPT !.url = u].secret \subseteq InUse
    BY <2>1, <2>3 DEF GatewayRow
  <2>5. gateway' = [gateway EXCEPT ![g] = [gateway[g] EXCEPT !.url = u]]
    BY <1>2 DEF Gateways!UpdateGateway
  <2>6. UNCHANGED <<secret, deployed, running, rotation>>
    BY <1>2 DEF Gateways!UpdateGateway
  <2>7. QED
    BY <2>2, <2>4, <2>5, <2>6, StoreStep
<1>3. ASSUME NEW g \in Gateway, NEW u \in Url, Gateways!CreateOpenGateway(g, u)
      PROVE  StoredInv'
  <2>1. [life |-> "gateway", url |-> u, secret |-> {}] \in GatewayRow
    BY DEF GatewayRow
  <2>2. QED
    BY <1>3, <2>1, StoreStep DEF Gateways!CreateOpenGateway
<1>4. ASSUME NEW g \in Gateway, NEW p \in Process, NEW s \in Secret, NEW c \in Credential,
             Gateways!RotateSecret(p, g, s, c)
      PROVE  StoredInv'
  <2>1. gateway[g] \in GatewayRow
    BY <1>4 DEF StoredInv, GatewaysTyped, Gateways!RotateSecret, Gateways!Unlocked,
                Gateways!Exists, Gateways!Absent, Gateways!Deleted
  <2>2. /\ [gateway[g] EXCEPT !.secret = {s}] \in GatewayRow
        /\ [gateway[g] EXCEPT !.secret = {s}].secret = {s}
    BY <2>1 DEF GatewayRow
  <2>3. gateway' = [gateway EXCEPT ![g] = [gateway[g] EXCEPT !.secret = {s}]]
    BY <1>4 DEF Gateways!RotateSecret
  <2>4. QED
    BY <1>4, <2>2, <2>3, StoreStep DEF Gateways!RotateSecret
<1>5. ASSUME NEW g \in Gateway, NEW u \in Url, NEW p \in Process, NEW s \in Secret,
             NEW c \in Credential, Gateways!CreateGateway(p, g, u, s, c)
      PROVE  StoredInv'
  <2>1. [life |-> "gateway", url |-> u, secret |-> {s}] \in GatewayRow
    BY DEF GatewayRow
  <2>2. QED
    BY <1>5, <2>1, StoreStep DEF Gateways!CreateGateway
<1>6. QED
  BY <1>1, <1>2, <1>3, <1>4, <1>5 DEF Gateways!Administering

LEMMA RotatingStep ==
  ASSUME StoredInv, Gateways!Rotating
  PROVE  StoredInv'
<1>1. CASE Gateways!AddKey
  <2>1. /\ deployed.keys \subseteq deployed'.keys
        /\ deployed' \in KeyRing /\ deployed'.current \in deployed'.keys
    BY <1>1, GatewaysAssumption DEF StoredInv, RingsAgree, KeyRing, Gateways!AddKey, Gateways!Ring
  <2>2. rotation' = [at |-> "idle"] /\ UNCHANGED <<gateway, secret, running>>
    BY <1>1 DEF Gateways!AddKey, Gateways!Idle, Gateways!stored
  <2>3. InUse' = InUse
    BY <2>2 DEF InUse, Gateways!InUse, Gateways!Exists
  <2>4. GatewaysTyped' /\ RingsAgree'
    BY <2>1, <2>2 DEF StoredInv, GatewaysTyped, RingsAgree
  <2>5. Reencrypting'
    BY <2>1, <2>2, <2>3 DEF StoredInv, Reencrypting, Gateways!Idle
  <2>6. QED
    BY <2>4, <2>5 DEF StoredInv
<1>2. CASE Gateways!BeginApply
  <2>1. /\ rotation' = [at |-> "applying", todo |-> Secret \ Gateways!Unused, done |-> {}]
        /\ UNCHANGED <<gateway, secret, deployed, running>>
    BY <1>2 DEF Gateways!BeginApply, Gateways!stored
  <2>2. GatewaysTyped' /\ RingsAgree'
    BY <1>2, <2>1 DEF StoredInv, GatewaysTyped, RingsAgree, Gateways!BeginApply
  <2>3. InUse' = InUse
    BY <2>1 DEF InUse, Gateways!InUse, Gateways!Exists
  <2>4. rotation' \in Applying
    BY <2>1 DEF Applying
  <2>5. \A s \in InUse : s \in Secret \ Gateways!Unused
    BY DEF StoredInv, Reencrypting, InUse, Gateways!Unused
  <2>6. Reencrypting'
    BY <2>1, <2>3, <2>4, <2>5 DEF StoredInv, Reencrypting
  <2>7. QED
    BY <2>2, <2>6 DEF StoredInv
<1>3. ASSUME NEW s \in Secret, Gateways!ApplyTo(s)
      PROVE  StoredInv'
  <2>1. rotation \in Applying
    BY <1>3 DEF Gateways!ApplyTo, StoredInv, Reencrypting, Gateways!Idle
  <2>2. /\ rotation' \in Applying
        /\ rotation'.todo = rotation.todo \ {s}
        /\ rotation'.done = IF s \in InUse THEN rotation.done \cup {s} ELSE rotation.done
    BY <1>3, <2>1 DEF Applying, Gateways!ApplyTo, InUse
  <2>3. UNCHANGED <<gateway, secret, deployed, running>>
    BY <1>3 DEF Gateways!ApplyTo, Gateways!stored
  <2>4. InUse' = InUse
    BY <2>3 DEF InUse, Gateways!InUse, Gateways!Exists
  <2>5. rotation.at = "applying" /\ rotation'.at = "applying"
    BY <2>1, <2>2 DEF Applying
  <2>6. GatewaysTyped' /\ RingsAgree'
    BY <2>3, <2>5 DEF StoredInv, GatewaysTyped, RingsAgree
  <2>7. Reencrypting'
    BY <2>2, <2>3, <2>4, <2>5 DEF StoredInv, Reencrypting
  <2>8. QED
    BY <2>6, <2>7 DEF StoredInv
<1>4. CASE Gateways!Applied
  <2>1. rotation \in Applying /\ rotation.todo = {}
    BY <1>4 DEF Gateways!Applied, StoredInv, Reencrypting, Gateways!Idle
  <2>2. /\ rotation' = [at |-> "applied"]
        /\ UNCHANGED <<gateway, deployed, running>>
        /\ rotation.at = "applying"
    BY <1>4 DEF Gateways!Applied
  <2>3. \A s \in Secret :
          secret'[s] = IF s \in rotation.done
                       THEN [secret[s] EXCEPT !.key = deployed.current] ELSE secret[s]
    BY <1>4 DEF Gateways!Applied, Gateways!Reencrypted
  <2>4. \A s \in rotation.done :
          /\ s \in Secret
          /\ secret'[s] \in SecretRow /\ secret'[s].key = deployed.current
          /\ secret'[s] # Gateways!NoSecret
    <3> SUFFICES ASSUME NEW s \in rotation.done
                 PROVE  /\ s \in Secret
                        /\ secret'[s] \in SecretRow /\ secret'[s].key = deployed.current
                        /\ secret'[s] # Gateways!NoSecret
      OBVIOUS
    <3>1. s \in Secret /\ secret[s] \in SecretRow
      BY <2>1, <2>2 DEF Applying, StoredInv, Reencrypting, GatewaysTyped
    <3>2. secret'[s] = [secret[s] EXCEPT !.key = deployed.current]
      BY <2>3, <3>1
    <3>3. deployed.current \in 1..KeyCap
      BY DEF StoredInv, RingsAgree, KeyRing
    <3>4. secret'[s] \in SecretRow /\ secret'[s].key = deployed.current
      BY <3>1, <3>2, <3>3 DEF SecretRow
    <3>5. QED
      BY <3>1, <3>4 DEF SecretRow, Gateways!NoSecret
  <2>5. DOMAIN secret' = Secret /\ secret' = [s \in Secret |-> secret'[s]]
    BY <1>4 DEF Gateways!Applied
  <2>6. GatewaysTyped'
    BY <2>2, <2>3, <2>4, <2>5 DEF StoredInv, GatewaysTyped
  <2>7. RingsAgree'
    BY <2>2 DEF StoredInv, RingsAgree
  <2>8. InUse' = InUse
    BY <2>2 DEF InUse, Gateways!InUse, Gateways!Exists
  <2>9. \A s \in InUse : secret'[s] # Gateways!NoSecret /\ secret'[s].key = deployed.current
    BY <2>1, <2>2, <2>3, <2>4 DEF StoredInv, Reencrypting, InUse
  <2>10. Reencrypting'
    BY <2>2, <2>7, <2>8, <2>9 DEF Reencrypting, RingsAgree
  <2>11. QED
    BY <2>6, <2>7, <2>10 DEF StoredInv
<1>5. CASE Gateways!ApplyFails
  <2>1. rotation' = [at |-> "idle"] /\ UNCHANGED <<gateway, secret, deployed, running>>
    BY <1>5 DEF Gateways!ApplyFails, Gateways!Idle, Gateways!stored
  <2>2. InUse' = InUse
    BY <2>1 DEF InUse, Gateways!InUse, Gateways!Exists
  <2>3. QED
    BY <2>1, <2>2 DEF StoredInv, GatewaysTyped, RingsAgree, Reencrypting, Gateways!Idle
<1>6. CASE Gateways!RetireKeys
  <2>1. /\ deployed' \in KeyRing
        /\ deployed'.keys = {deployed.current} /\ deployed'.current = deployed.current
    BY <1>6 DEF StoredInv, RingsAgree, KeyRing, Gateways!RetireKeys, Gateways!Ring
  <2>2. /\ rotation' = [at |-> "idle"] /\ rotation.at = "applied"
        /\ UNCHANGED <<gateway, secret, running>>
    BY <1>6 DEF Gateways!RetireKeys, Gateways!Idle, Gateways!stored
  <2>3. InUse' = InUse
    BY <2>2 DEF InUse, Gateways!InUse, Gateways!Exists
  <2>4. GatewaysTyped' /\ RingsAgree'
    BY <2>1, <2>2 DEF StoredInv, GatewaysTyped, RingsAgree
  <2>5. Reencrypting'
    BY <2>1, <2>2, <2>3 DEF StoredInv, Reencrypting, Gateways!Idle
  <2>6. QED
    BY <2>4, <2>5 DEF StoredInv
<1>7. ASSUME NEW p \in Process, Gateways!Restart(p)
      PROVE  StoredInv'
  <2>1. /\ running' = [running EXCEPT ![p] = deployed]
        /\ UNCHANGED <<gateway, secret, deployed, rotation>>
    BY <1>7 DEF Gateways!Restart, Gateways!stored
  <2>2. InUse' = InUse
    BY <2>1 DEF InUse, Gateways!InUse, Gateways!Exists
  <2>3. GatewaysTyped' /\ RingsAgree'
    BY <2>1 DEF StoredInv, GatewaysTyped, RingsAgree
  <2>4. Reencrypting'
    BY <2>1, <2>2 DEF StoredInv, Reencrypting
  <2>5. QED
    BY <2>3, <2>4 DEF StoredInv
<1>8. QED
  BY <1>1, <1>2, <1>3, <1>4, <1>5, <1>6, <1>7 DEF Gateways!Rotating

\* Calls store nothing.
LEMMA CallingStored ==
  ASSUME StoredInv, UNCHANGED <<gateway, secret, deployed, running, rotation>>
  PROVE  StoredInv'
<1>1. InUse' = InUse
  BY DEF InUse, Gateways!InUse, Gateways!Exists
<1>2. QED
  BY <1>1 DEF StoredInv, GatewaysTyped, RingsAgree, Reencrypting

-----------------------------------------------------------------------------
\* A credential that is stored stays the credential of its row.
LEMMA CredentialsKept ==
  ASSUME StoredInv, Gateways!Administering \/ Gateways!Rotating,
         NEW s \in Secret, secret[s] # Gateways!NoSecret
  PROVE  secret'[s] # Gateways!NoSecret /\ secret'[s].credential = secret[s].credential
<1>1. secret[s] \in SecretRow
  BY DEF StoredInv, GatewaysTyped
<1>2. CASE Gateways!Administering
  <2>1. ASSUME NEW g \in Gateway, NEW p \in Process, NEW t \in Secret, NEW c \in Credential,
               t \in Gateways!Unused,
               secret' = [secret EXCEPT ![t] = Gateways!Envelope(g, c, running[p])]
        PROVE  secret'[s] = secret[s]
    BY <2>1 DEF Gateways!Unused, StoredInv, GatewaysTyped
  <2>2. secret'[s] = secret[s]
    BY <1>2, <2>1 DEF Gateways!Administering, Gateways!DeleteGateway, Gateways!UpdateGateway,
         Gateways!CreateOpenGateway, Gateways!RotateSecret, Gateways!CreateGateway
  <2>3. QED
    BY <2>2
<1>3. CASE Gateways!Applied
  <2>1. secret'[s] = secret[s] \/ secret'[s] = [secret[s] EXCEPT !.key = deployed.current]
    BY <1>3 DEF Gateways!Applied, Gateways!Reencrypted
  <2>2. QED
    BY <1>1, <2>1 DEF SecretRow, Gateways!NoSecret
<1>4. CASE Gateways!Rotating /\ ~Gateways!Applied
  BY <1>4 DEF Gateways!Rotating, Gateways!AddKey, Gateways!BeginApply, Gateways!ApplyTo, Gateways!ApplyFails,
              Gateways!RetireKeys, Gateways!Restart, Gateways!stored
<1>5. QED
  BY <1>2, <1>3, <1>4

\* The vectors of an answer that is complete are put in the order of the inputs.
LEMMA AlignedInOrder ==
  ASSUME NEW items \in Gateways!Answers, Gateways!Complete(items)
  PROVE  Gateways!Aligned(items) = [n \in 1..Inputs |-> n - 1]
<1>1. {items[i] : i \in 1..Inputs} = 0..(Inputs - 1)
  BY GatewaysAssumption DEF Gateways!Complete, Gateways!Index
<1>2. ASSUME NEW n \in 1..Inputs
      PROVE  (CHOOSE v \in 0..(Inputs - 1) : v = n - 1) = n - 1
  <2>1. n - 1 \in 0..(Inputs - 1)
    BY GatewaysAssumption
  <2>2. QED
    BY <2>1
<1>3. QED
  BY <1>1, <1>2 DEF Gateways!Aligned

\* What calls remember stays true when something else happens than a call.
LEMMA RememberedKept ==
  ASSUME GatesInv, Gateways!Administering \/ Gateways!Rotating
  PROVE  CallsRemember' /\ Gateways!CallsSound'
<1>1. \/ UNCHANGED call
      \/ \E p \in Process : call' = [call EXCEPT ![p] = Gateways!Idle]
  BY DEF Gateways!Administering, Gateways!DeleteGateway, Gateways!UpdateGateway,
         Gateways!CreateOpenGateway, Gateways!RotateSecret, Gateways!CreateGateway,
         Gateways!Rotating, Gateways!AddKey, Gateways!BeginApply, Gateways!Applied, Gateways!ApplyTo,
         Gateways!ApplyFails, Gateways!RetireKeys, Gateways!Restart
<1>2. /\ DOMAIN call' = Process
      /\ \A p \in Process : call'[p] = call[p] \/ call'[p] = [at |-> "idle"]
  BY <1>1 DEF GatesInv, CallsRemember, Gateways!Idle
<1>3. ASSUME NEW p \in Process, call'[p].at = "read"
      PROVE  /\ \A s \in call'[p].secret : s \in Secret /\ secret'[s] # Gateways!NoSecret
             /\ call'[p].meant = {secret'[s].credential : s \in call'[p].secret}
  <2>1. call'[p] = call[p] /\ call[p].at = "read"
    BY <1>2, <1>3
  <2>2. \A s \in call[p].secret : s \in Secret /\ secret[s] # Gateways!NoSecret
    BY <2>1 DEF GatesInv, CallsRemember
  <2>3. \A s \in call[p].secret :
          secret'[s] # Gateways!NoSecret /\ secret'[s].credential = secret[s].credential
    BY <2>2, CredentialsKept DEF GatesInv
  <2>4. call[p].meant = {secret[s].credential : s \in call[p].secret}
    BY <2>1 DEF GatesInv, CallsRemember
  <2>5. QED
    BY <2>1, <2>2, <2>3, <2>4
<1>4. CallsRemember'
  BY <1>2, <1>3 DEF GatesInv, CallsRemember
<1>5. Gateways!CallsSound'
  BY <1>2 DEF GatesInv, Gateways!CallsSound
<1>6. QED
  BY <1>4, <1>5

\* What one call does, once its new state is sound.
CallSound(c) ==
  /\ c.at = "read" =>
       /\ \A s \in c.secret : s \in Secret /\ secret[s] # Gateways!NoSecret
       /\ c.meant = {secret[s].credential : s \in c.secret}
  /\ c.at = "streaming" => c \in [at : {"streaming"}, passed : Nat] /\ c.passed <= MaxChunks
  /\ c.at = "sent" => c.bearer = c.meant
  /\ c.at = "answered" => c.vectors = [n \in 1..Inputs |-> n - 1]
  /\ c.at = "ranked" => c.ranks \subseteq 0..(Inputs - 1)

LEMMA GatewayCallStep ==
  ASSUME GatesInv, NEW p \in Process, NEW c, CallSound(c), Gateways!Goes(p, c)
  PROVE  GatesInv'
<1>1. /\ call' = [call EXCEPT ![p] = c]
      /\ UNCHANGED <<gateway, secret, deployed, running, rotation>>
  BY DEF Gateways!Goes, Gateways!stored
<1>2. StoredInv'
  BY <1>1, CallingStored DEF GatesInv
<1>3. CallsRemember' /\ Gateways!CallsSound'
  <2>1. DOMAIN call' = Process /\ call'[p] = c
    BY <1>1 DEF GatesInv, CallsRemember
  <2>2. \A q \in Process : q # p => call'[q] = call[q]
    BY <1>1 DEF GatesInv, CallsRemember
  <2>3. CallsRemember'
    BY <1>1, <2>1, <2>2 DEF GatesInv, CallsRemember, CallSound
  <2>4. Gateways!CallsSound'
    BY <2>1, <2>2 DEF GatesInv, Gateways!CallsSound, CallSound
  <2>5. QED
    BY <2>3, <2>4
<1>4. QED
  BY <1>2, <1>3 DEF GatesInv

LEMMA CallingSound ==
  ASSUME GatesInv, Gateways!Calling
  PROVE  GatesInv'
<1>1. PICK p \in Process :
        \/ \E g \in Gateway : Gateways!ReadGateway(p, g)
        \/ Gateways!Decrypt(p) \/ Gateways!Refuse(p) \/ Gateways!Return(p)
        \/ Gateways!RespondChat(p) \/ Gateways!BeginStream(p) \/ Gateways!Chunk(p)
        \/ /\ call[p].at = "sent"
           /\ \E items \in Gateways!Answers : Gateways!Respond(p, items) \/ Gateways!RespondRerank(p, items)
  BY DEF Gateways!Calling
<1>2. CallSound(Gateways!Idle)
  BY DEF CallSound, Gateways!Idle
<1>3. ASSUME NEW g \in Gateway, Gateways!ReadGateway(p, g)
      PROVE  GatesInv'
  <2> DEFINE c == [at |-> "read", gateway |-> g, url |-> gateway[g].url,
                   secret |-> gateway[g].secret, meant |-> Gateways!Credentials(g)]
  <2>1. \A s \in gateway[g].secret : s \in InUse
    <3>1. gateway[g] \in GatewayRow
      BY <1>3 DEF GatesInv, StoredInv, GatewaysTyped, Gateways!ReadGateway, Gateways!Exists,
                  Gateways!Absent, Gateways!Deleted
    <3>2. QED
      BY <3>1, InUseRow DEF GatesInv, StoredInv
  <2>2. \A s \in gateway[g].secret : s \in Secret /\ secret[s] # Gateways!NoSecret
    BY <2>1 DEF InUse, GatesInv, StoredInv, Reencrypting
  <2>3. CallSound(c)
    BY <2>2 DEF CallSound, Gateways!Credentials
  <2>4. QED
    BY <1>3, <2>3, GatewayCallStep DEF Gateways!ReadGateway
<1>4. CASE Gateways!Decrypt(p)
  <2> DEFINE c == [at |-> "sent", url |-> call[p].url, meant |-> call[p].meant,
                   bearer |-> {secret[s].credential : s \in Gateways!Secrets(p)}]
  <2>1. CallSound(c)
    BY <1>4 DEF CallSound, Gateways!Decrypt, Gateways!Secrets, GatesInv, CallsRemember
  <2>2. Gateways!Goes(p, c) \/ Gateways!Goes(p, Gateways!Idle)
    BY <1>4 DEF Gateways!Decrypt
  <2>3. QED
    BY <1>2, <2>1, <2>2, GatewayCallStep
<1>5. CASE Gateways!Refuse(p) \/ Gateways!Return(p)
  BY <1>2, <1>5, GatewayCallStep DEF Gateways!Refuse, Gateways!Return
<1>6. CASE Gateways!RespondChat(p)
  <2>1. CallSound([at |-> "replied"])
    BY DEF CallSound
  <2>2. QED
    BY <1>6, <2>1, GatewayCallStep DEF Gateways!RespondChat
<1>7. CASE Gateways!BeginStream(p)
  <2>1. CallSound([at |-> "streaming", passed |-> 0])
    BY GatewaysAssumption DEF CallSound
  <2>2. QED
    BY <1>7, <2>1, GatewayCallStep DEF Gateways!BeginStream
<1>8. CASE Gateways!Chunk(p)
  <2>1. call[p] \in [at : {"streaming"}, passed : Nat]
    BY <1>8 DEF Gateways!Chunk, GatesInv, CallsRemember
  <2>2. call[p].passed + 1 <= MaxChunks => CallSound([call[p] EXCEPT !.passed = @ + 1])
    BY <2>1 DEF CallSound
  <2>3. \/ Gateways!Goes(p, Gateways!Idle)
        \/ /\ ~(call[p].passed + 1 > MaxChunks)
           /\ Gateways!Goes(p, [call[p] EXCEPT !.passed = @ + 1])
    BY <1>8 DEF Gateways!Chunk
  <2>4. call[p].passed + 1 > MaxChunks \/ call[p].passed + 1 <= MaxChunks
    BY <2>1, GatewaysAssumption
  <2>5. QED
    BY <1>2, <2>2, <2>3, <2>4, GatewayCallStep
<1>9. ASSUME NEW items \in Gateways!Answers, Gateways!Respond(p, items)
      PROVE  GatesInv'
  <2>1. Gateways!Complete(items) => CallSound([at |-> "answered", vectors |-> Gateways!Aligned(items)])
    BY AlignedInOrder DEF CallSound
  <2>2. QED
    BY <1>2, <1>9, <2>1, GatewayCallStep DEF Gateways!Respond
<1>10. ASSUME NEW items \in Gateways!Answers, Gateways!RespondRerank(p, items)
       PROVE  GatesInv'
  <2>1. PICK n \in 0..Inputs + 1 : items \in [1..n -> 0..Inputs]
    BY DEF Gateways!Answers, Gateways!Index
  <2>2. (\A i \in DOMAIN items : items[i] < Inputs)
          => CallSound([at |-> "ranked", ranks |-> Gateways!Range(items)])
    BY <2>1, GatewaysAssumption DEF CallSound, Gateways!Range
  <2>3. QED
    BY <1>2, <1>10, <2>2, GatewayCallStep DEF Gateways!RespondRerank
<1>11. QED
  BY <1>1, <1>3, <1>4, <1>5, <1>6, <1>7, <1>8, <1>9, <1>10

LEMMA GatesStep ==
  ASSUME GatesInv, [Gateways!Next]_Gateways!vars
  PROVE  GatesInv'
<1>1. CASE Gateways!Administering \/ Gateways!Rotating
  BY <1>1, AdministeringStep, RotatingStep, RememberedKept DEF GatesInv
<1>2. CASE UNCHANGED Gateways!vars
  <2>1. UNCHANGED <<gateway, secret, deployed, running, rotation, call>>
    BY <1>2 DEF Gateways!vars, Gateways!stored
  <2>2. StoredInv'
    BY <2>1, CallingStored DEF GatesInv
  <2>3. QED
    BY <2>1, <2>2 DEF GatesInv, CallsRemember, Gateways!CallsSound
<1>3. QED
  BY <1>1, <1>2, CallingSound DEF Gateways!Next

\* A call sends the credential its address was stored with, or none, its vectors
\* and ranks are those of its inputs, and no rotation of the key ring locks a
\* credential in use out (_managed_call, discover, probe, rotate-model-secrets).
THEOREM GatewaysStaySound ==
  GovernanceSpec => []GatewaysSound
<1>1. GovernanceInit => GatesInv
  BY GatesInitial DEF GovernanceInit
<1>2. GatesInv /\ [GovernanceNext]_<<vars, gateways>> => GatesInv'
  <2>1. [GovernanceNext]_<<vars, gateways>> => [Gateways!Next]_Gateways!vars
    BY DEF GovernanceNext, gateways, Gateways!vars, Gateways!stored
  <2>2. QED
    BY <2>1, GatesStep
<1>3. GatesInv => GatewaysSound
  <2> SUFFICES ASSUME GatesInv, NEW g \in Gateway, Gateways!Exists(g),
                      NEW s \in gateway[g].secret
               PROVE  secret[s].key \in deployed.keys
    BY DEF GatewaysSound, Gateways!GatewaysSound, GatesInv, Gateways!CredentialsReadable
  <2>1. gateway[g] \in GatewayRow
    BY DEF GatesInv, StoredInv, GatewaysTyped, Gateways!Exists, Gateways!Absent, Gateways!Deleted
  <2>2. s \in InUse
    BY <2>1, InUseRow DEF GatesInv, StoredInv
  <2>3. QED
    BY <2>2 DEF GatesInv, StoredInv, Reencrypting
<1>4. QED
  BY <1>1, <1>2, <1>3, PTL DEF GovernanceSpec
=============================================================================
