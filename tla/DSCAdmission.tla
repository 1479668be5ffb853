---------------------------- MODULE DSCAdmission ----------------------------
(***************************************************************************)
(* How a DataScienceCluster gets into storage.  It is stored as v3 and     *)
(* served as v2 and v3; each version has its own defaulting and validating *)
(* webhook, called only for requests in that version, and a write through  *)
(* v2 is converted after it was admitted.  Settings one version has no     *)
(* field for travel as annotations ("markers") through the other.          *)
(*                                                                         *)
(* A client reads, edits and writes: with the resource version a write     *)
(* that is based on something old is refused, so that one step does it.    *)
(***************************************************************************)
EXTENDS Naturals, Sequences, FiniteSets

CONSTANT
    APIEvents       \* bound on the requests

VARIABLE api

State == {"Managed", "Removed"}
Absent == [is |-> "absent"]

\* What the schema fills in, in either version.
SchemaDefaults(o) == [o EXCEPT !.nim = IF @ = "" THEN "Managed" ELSE @]

-----------------------------------------------------------------------------
\* Conversion

\* "legacy-managed" is the only value there is; others are refused.
ReadMaaSV2State(annotation) == [ok |-> annotation \in {"none", "legacy-managed"}, managed |-> annotation = "legacy-managed"]

\* A mistake: what the client sends is believed.
IncomingBelieved(incoming, canonical, legacy) ==
    IF canonical # "Managed" /\ legacy = "Managed" THEN "legacy-managed" ELSE incoming

\* Derived from what is visible, never from the annotation that comes in.
PreserveMaaSV2State(incoming, canonical, legacy) ==
    IF canonical # "Managed" /\ legacy = "Managed" THEN "legacy-managed" ELSE "none"

NoKserveState == [is |-> "absent", conf |-> "none", audit |-> ""]

\* A mistake: the audit profile is thought to come with confidential containers.
ConfidentialOnly(m) == m.is = "state" /\ m.conf = "ok" /\ m.audit \in {"", "Removed", "Metadata"}

\* An empty payload, and a value the v3 schema would not take, are refused.
validate(m) ==
    /\ m.is = "state"
    /\ m.conf # "none" \/ m.audit # ""
    /\ m.audit \in {"", "Removed", "Metadata"}
    /\ m.conf \in {"none", "ok"}

modelRegistryToAIHub(r) == [state |-> r.state, namespace |-> r.namespace]
aiHubToModelRegistry(h) == [state |-> h.state, namespace |-> h.namespace]
dashboardV2ToV3(d) == [standard |-> d.state, portal |-> d.consumerPortal]
dashboardV3ToV2(d) == [state |-> d.standard, consumerPortal |-> d.portal]

\* v2 to v3.  The deprecated switch counts while KServe, its parent, is Managed.
ConvertTo(o) ==
    LET legacyOn == o.kserve = "Managed" /\ o.legacy = "Managed"
        mexp     == o.markers.modelExpress
        kserve   == o.markers.kserve
    IN  [ok  |-> mexp \in {"none", "managed"} /\ (kserve.is # "absent" => validate(kserve)),
         obj |-> [kserve |-> o.kserve, nim |-> o.nim, kueue |-> o.kueue,
                  maas   |-> IF o.maas = "Managed" \/ legacyOn THEN "Managed" ELSE "Removed",
                  aigw   |-> IF o.aigw = "" /\ legacyOn THEN "Managed" ELSE o.aigw,
                  hub    |-> modelRegistryToAIHub(o.registry),
                  dash   |-> dashboardV2ToV3(o.dash),
                  data   |-> [featureStore |-> o.feast.state, dataRegistry |-> o.feast.dataRegistry],
                  mexp   |-> IF mexp = "managed" THEN "Managed" ELSE "Removed",
                  conf   |-> kserve.conf,
                  audit  |-> IF kserve.audit = "" THEN "Removed" ELSE kserve.audit,
                  marker |-> PreserveMaaSV2State(o.markers.maas, o.maas, o.legacy)]]

\* A mistake: only confidential containers make the marker necessary.
MarkerForConfidential(s) ==
    IF s.conf # "none" THEN [is |-> "state", conf |-> s.conf, audit |-> IF s.audit = "Removed" THEN "" ELSE s.audit]
    ELSE NoKserveState

\* The settings v2 has no field for; defaults need no marker.
KserveMarker(s) ==
    LET audit == IF s.audit = "Removed" THEN "" ELSE s.audit
    IN  IF s.conf # "none" \/ audit # "" THEN [is |-> "state", conf |-> s.conf, audit |-> audit] ELSE NoKserveState

\* v3 to v2.  The components v3 no longer has are Removed; an object with a
\* marker that is not known cannot be read.
ConvertFrom(s) ==
    LET legacy == ReadMaaSV2State(s.marker).managed
    IN  [ok  |-> ReadMaaSV2State(s.marker).ok,
         obj |->
        [kserve |-> s.kserve, nim |-> s.nim, kueue |-> s.kueue, aigw |-> s.aigw,
         legacy |-> IF legacy THEN "Managed" ELSE "Removed",
         maas   |-> IF legacy THEN "Removed" ELSE s.maas,
         registry |-> aiHubToModelRegistry(s.hub),
         dash   |-> dashboardV3ToV2(s.dash),
         feast  |-> [state |-> s.data.featureStore, dataRegistry |-> s.data.dataRegistry],
         retired |-> [c \in {"trainingOperator", "llamaStack"} |-> "Removed"], wva |-> "Removed",
         markers |-> [maas |-> "none", modelExpress |-> IF s.mexp = "Managed" THEN "managed" ELSE "none",
                      kserve |-> KserveMarker(s)]]]

-----------------------------------------------------------------------------
\* Admission

\* Defaulting, by version: the part both have, and the provenance of v3.
applyDefaultsV2(o) ==
    [o EXCEPT !.registry.namespace = IF o.registry.state = "Managed" /\ @ = "" THEN "default" ELSE @,
              !.nim = IF o.kserve = "Managed" /\ @ = "" THEN "Managed" ELSE @]

\* A mistake: the namespace is filled in for v2 only.
HubForgotten(s) == [s EXCEPT !.nim = IF s.kserve = "Managed" /\ @ = "" THEN "Managed" ELSE @]

applyDefaultsV3(s) ==
    [s EXCEPT !.hub.namespace = IF s.hub.state = "Managed" /\ @ = "" THEN "default" ELSE @,
              !.nim = IF s.kserve = "Managed" /\ @ = "" THEN "Managed" ELSE @]

\* Old provenance survives what does not touch MaaS itself; one that is not
\* known is an error.
AdmitMaaSV2State(s, old) ==
    [ok  |-> old = Absent \/ ReadMaaSV2State(old.marker).ok,
     obj |-> [s EXCEPT !.marker =
        IF old # Absent /\ ReadMaaSV2State(old.marker).managed /\ old.maas = s.maas
        THEN PreserveMaaSV2State(@, "Removed", "Managed")
        ELSE PreserveMaaSV2State(@, s.maas, "Removed")]]

DefaultV3(s, old) == AdmitMaaSV2State(applyDefaultsV3(s), old)

denyKueueManagedState(o) == o.kueue # "Managed"

\* A retired component may stay, but the old object, read through the
\* conversion, never has one.
denyRetiredOperatorManagedState(o, old) ==
    \A c \in DOMAIN o.retired : o.retired[c] = "Managed" => old # Absent /\ old.retired[c] = "Managed"

WVAUnsupportedResponse(o) == o.wva # "Managed"

ValidateSingletonCreation(old) == old = Absent

HandleV2(o, old) ==
    denyKueueManagedState(o) /\ denyRetiredOperatorManagedState(o, old) /\ WVAUnsupportedResponse(o)

HandleV3(s) == denyKueueManagedState(s)

\* The rules of the schema that look at the old object: the deprecated switch is
\* not turned on again, and the registries of a Managed hub stay where they are.
TransitionRulesV2(o, old) ==
    old # Absent => /\ o.legacy = "Managed" => old.legacy = "Managed"
                    /\ o.registry.state = "Managed" /\ old.registry.state = "Managed" /\ old.registry.namespace # ""
                          => o.registry.namespace = old.registry.namespace

TransitionRulesV3(s, old) ==
    old # Absent => (s.hub.state = "Managed" /\ old.hub.state = "Managed" /\ old.hub.namespace # ""
                        => s.hub.namespace = old.hub.namespace)

\* A request in v2 from beginning to end: [ok, obj], obj what is stored.
WriteV2(o, stored) ==
    LET from == IF stored = Absent THEN [ok |-> TRUE, obj |-> Absent] ELSE ConvertFrom(stored)
        new  == applyDefaultsV2(SchemaDefaults(o))
        to   == ConvertTo(new)
    IN  [ok |-> from.ok /\ TransitionRulesV2(new, from.obj) /\ HandleV2(new, from.obj) /\ to.ok, obj |-> to.obj]

WriteV3(s, stored) ==
    LET to == DefaultV3(SchemaDefaults(s), stored)
    IN  [ok |-> to.ok /\ TransitionRulesV3(to.obj, stored) /\ HandleV3(to.obj), obj |-> to.obj]

-----------------------------------------------------------------------------
\* The DSCInitialization next to it

ValidateCustomCABundle(bundle) == bundle \in {"", "certificates"}

validateSpec(d) == d.caState = "Managed" /\ d.bundle # "" => ValidateCustomCABundle(d.bundle)

DenyCountGtZero(dsc) == dsc = Absent

-----------------------------------------------------------------------------
\* Clients

APIMay == api.events < APIEvents
Stored(s, legacyAsked) == [api EXCEPT !.dsc = s, !.events = @ + 1, !.asked = legacyAsked]

BlankV2 ==
    [kserve |-> "Removed", nim |-> "", kueue |-> "Removed", aigw |-> "", legacy |-> "Removed", maas |-> "Removed",
     registry |-> [state |-> "Removed", namespace |-> ""], dash |-> [state |-> "Removed", consumerPortal |-> "Removed"],
     feast |-> [state |-> "Removed", dataRegistry |-> "Removed"],
     retired |-> [c \in {"trainingOperator", "llamaStack"} |-> "Removed"], wva |-> "Removed",
     markers |-> [maas |-> "none", modelExpress |-> "none", kserve |-> NoKserveState]]

\* One thing at a time; annotations can be written like everything else.
EditsV2(o) ==
    {[o EXCEPT !.kserve = s] : s \in State} \cup {[o EXCEPT !.legacy = s] : s \in State}
    \cup {[o EXCEPT !.maas = s] : s \in State} \cup {[o EXCEPT !.aigw = s] : s \in State}
    \cup {[o EXCEPT !.kueue = s] : s \in State \cup {"Unmanaged"}} \cup {[o EXCEPT !.wva = "Managed"]}
    \cup {[o EXCEPT !.registry = [state |-> s, namespace |-> n]] : s \in State, n \in {"", "own"}}
    \cup {[o EXCEPT !.dash.consumerPortal = "Managed"], [o EXCEPT !.feast.dataRegistry = "Managed"],
          [o EXCEPT !.retired["trainingOperator"] = "Managed"], [o EXCEPT !.markers.maas = "legacy-managed"]}
    \cup {[o EXCEPT !.markers.kserve = [is |-> "state", conf |-> c, audit |-> "Metadata"]] : c \in {"none", "ok", "bad"}}
    \cup {[o EXCEPT !.markers.kserve = [is |-> "state", conf |-> "none", audit |-> ""]], [o EXCEPT !.markers.modelExpress = "bad"]}

EditsV3(s) ==
    {[s EXCEPT !.kserve = t] : t \in State} \cup {[s EXCEPT !.maas = t] : t \in State} \cup {[s EXCEPT !.aigw = t] : t \in State}
    \cup {[s EXCEPT !.kueue = t] : t \in State \cup {"Unmanaged"}} \cup {[s EXCEPT !.mexp = t] : t \in State}
    \cup {[s EXCEPT !.conf = c] : c \in {"none", "ok"}} \cup {[s EXCEPT !.audit = a] : a \in {"Removed", "Metadata"}}
    \cup {[s EXCEPT !.hub = [state |-> t, namespace |-> n]] : t \in State, n \in {"", "own"}}
    \cup {[s EXCEPT !.marker = m] : m \in {"none", "legacy-managed", "bad"}}
    \cup {[s EXCEPT !.dash.standard = "Managed"], [s EXCEPT !.data.featureStore = "Managed"]}

Asks(o) == o.legacy = "Managed" /\ o.maas # "Managed"

CreateV2 ==
    APIMay /\ \E o \in EditsV2(BlankV2) \cup {[BlankV2 EXCEPT !.kserve = "Managed", !.legacy = "Managed"]} :
      LET w == WriteV2(o, api.dsc)
      IN  ValidateSingletonCreation(api.dsc) /\ w.ok /\ api' = Stored(w.obj, Asks(o))

CreateV3 ==
    APIMay /\ \E s \in EditsV3(ConvertTo(BlankV2).obj) :
      LET w == WriteV3(s, Absent)
      IN  ValidateSingletonCreation(api.dsc) /\ w.ok /\ api' = Stored(w.obj, FALSE)

UpdateV2 ==
    APIMay /\ api.dsc # Absent /\ ConvertFrom(api.dsc).ok /\ \E o \in EditsV2(ConvertFrom(api.dsc).obj) :
      LET w == WriteV2(o, api.dsc)
      IN  w.ok /\ api' = Stored(w.obj, Asks(o))

UpdateV3 ==
    APIMay /\ api.dsc # Absent /\ \E s \in EditsV3(api.dsc) :
      LET w == WriteV3(s, api.dsc)
      IN  w.ok /\ api' = Stored(w.obj, api.asked /\ s.maas = api.dsc.maas)

DeleteDSC == APIMay /\ api.dsc # Absent /\ api' = Stored(Absent, FALSE)

\* Creation, change and removal of the DSCInitialization.
WriteDSCI ==
    APIMay /\ \E d \in [caState : State, bundle : {"", "certificates", "text"}] :
      validateSpec(d) /\ api' = [api EXCEPT !.dsci = d, !.events = @ + 1]

DeleteDSCI ==
    APIMay /\ api.dsci # Absent /\ DenyCountGtZero(api.dsc) /\ api' = [api EXCEPT !.dsci = Absent, !.events = @ + 1]

APIInit == api = [dsc |-> Absent, dsci |-> Absent, asked |-> FALSE, events |-> 0]

APINext == CreateV2 \/ CreateV3 \/ UpdateV2 \/ UpdateV3 \/ DeleteDSC \/ WriteDSCI \/ DeleteDSCI

-----------------------------------------------------------------------------
\* Properties

\* What is stored survives a client of the old version: reading it as v2 and
\* writing it back loses no setting, those v2 has no field for included.  MaaS
\* follows KServe when it is switched on by the deprecated field.
V2RoundTrip ==
    api.dsc # Absent =>
      LET back == ConvertTo(ConvertFrom(api.dsc).obj).obj
      IN  \A f \in DOMAIN api.dsc :
             back[f] = api.dsc[f] \/ (f \in {"maas", "aigw"} /\ api.dsc.marker = "legacy-managed")

\* Nobody is locked out: a client that reads the object in either version and
\* changes nothing is admitted, whatever was written before and by whom.
NobodyLockedOut ==
    api.dsc # Absent =>
        ConvertFrom(api.dsc).ok /\ WriteV2(ConvertFrom(api.dsc).obj, api.dsc).ok /\ WriteV3(api.dsc, api.dsc).ok

\* The stored object says that MaaS comes from the deprecated field exactly when
\* the last write through v2 asked for it there and MaaS was not changed since;
\* what clients write into the annotation itself has no influence.
ProvenanceTruthful == api.dsc # Absent => (api.dsc.marker = "legacy-managed" <=> api.asked)

\* Whichever way it was written, the stored object does not ask for what the
\* operator no longer supports, and a Managed hub has a namespace.
StoredIsServable ==
    api.dsc # Absent => /\ api.dsc.kueue # "Managed"
                        /\ api.dsc.hub.state = "Managed" => api.dsc.hub.namespace # ""
                        /\ api.dsc.kserve = "Managed" => api.dsc.nim # ""

=============================================================================
