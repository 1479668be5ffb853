----------------------------- MODULE HWPWebhook -----------------------------
(***************************************************************************)
(* The handler that carries a hardware profile into an inference workload: *)
(* resource requests and limits, node selector, tolerations and the Kueue  *)
(* queue.  It is served at /mutate-hardware-profile, but the platform      *)
(* installs no webhook configuration for it (the serving controllers have  *)
(* taken the task over), so that each write may come through it or not:    *)
(* the properties are about what the handler makes of the requests it gets.*)
(* It reads the profile as it is at that moment.                           *)
(***************************************************************************)
EXTENDS Naturals, Sequences, SequencesExt

CONSTANT
    HWEvents        \* bound on what users and administrators do

VARIABLE hw

NotThere == [is |-> "absent"]

\* Profiles by <<namespace, name>> and the contents one may have: node
\* scheduling or a queue, with or without a resource identifier.
ProfileKeys == {<<"own", "p">>, <<"apps", "p">>, <<"apps", "q">>}
NodeProfile(t, v) == [tolerations |-> <<t>>, pool |-> v, localQueueName |-> "", defaultCount |-> 2]
QueueProfile == [tolerations |-> <<>>, pool |-> "", localQueueName |-> "queue", defaultCount |-> 0]
SpecsOf(key) ==
    IF key = <<"apps", "q">> THEN {NotThere, QueueProfile, NodeProfile("q", "q")}
    ELSE {NotThere, NodeProfile(key[1], key[1]), NodeProfile(key[1], "newer")}

\* What nobody but a user puts on a workload.
UserToleration == "mine"

-----------------------------------------------------------------------------
\* The handler

isExpectedKind(kind) == kind \in {"InferenceService", "LLMInferenceService"}

ProfileRef(o) == <<IF o.namespace = "" THEN "own" ELSE o.namespace, o.name>>

fetchHardwareProfile(ref) == IF ref \in ProfileKeys THEN hw.profiles[ref] ELSE NotThere


\* Assigning a first profile is no change: what is there is kept.
detectProfileChange(op, o, old) == op = "UPDATE" /\ old.name # "" /\ ProfileRef(old) # ProfileRef(o)

\* An LLMInferenceService that has containers needs one named main.
validateContainerNames(o) == o.kind = "InferenceService" \/ o.containers \in {"none", "main"}

\* Where a count is put: the model of an InferenceService, the main container
\* of the other kind, which is created when there is no container at all.
llmInferenceServiceMainContainerIndices(o) == o.containers = "main"

applyIdentifiersToRequests(o, hwp) == [o EXCEPT !.requests = IF @ = 0 THEN hwp.defaultCount ELSE @]
applyIdentifiersToLimits(o) == [o EXCEPT !.limits = IF @ = 0 THEN o.requests ELSE @]
applyIdentifiersToContainer(o, hwp) == applyIdentifiersToLimits(applyIdentifiersToRequests(o, hwp))

applyResourceRequirementsToContainers(o, hwp) ==
    IF o.containers = "none" \/ llmInferenceServiceMainContainerIndices(o)
    THEN [applyIdentifiersToContainer(o, hwp) EXCEPT !.containers = "main"] ELSE o

applyResourceRequirementsToWorkload(o, hwp) ==
    IF o.kind = "InferenceService"
    THEN IF o.containers = "none" THEN o ELSE applyIdentifiersToContainer(o, hwp)
    ELSE applyResourceRequirementsToContainers(o, hwp)

\* The profile wins where both name the key.
mergeNodeSelector(o, hwp) == IF hwp.pool = "" THEN o.pool ELSE hwp.pool

\* A mistake: the profile's tolerations are appended without a look.
AppendTolerations(o, hwp) == hwp.tolerations \o o.tolerations

\* The profile's first, then those of the workload that are not the same.
mergeTolerations(o, hwp) ==
    hwp.tolerations \o SelectSeq(o.tolerations, LAMBDA t : ~Contains(hwp.tolerations, t))

applyNodeSchedulingConfiguration(o, hwp, changed) ==
    IF changed
    THEN [o EXCEPT !.pool = IF hwp.pool = "" THEN @ ELSE hwp.pool,
                   !.tolerations = IF hwp.tolerations = <<>> THEN @ ELSE hwp.tolerations]
    ELSE [o EXCEPT !.pool = mergeNodeSelector(o, hwp),
                   !.tolerations = IF hwp.tolerations = <<>> THEN @ ELSE mergeTolerations(o, hwp)]

\* A profile with a queue leaves node scheduling to Kueue.
applyHardwareProfileToWorkload(o, hwp, changed) ==
    LET cleared == IF changed THEN [o EXCEPT !.queue = "", !.pool = "", !.tolerations = <<>>] ELSE o
        sized   == IF hwp.defaultCount > 0 THEN applyResourceRequirementsToWorkload(cleared, hwp) ELSE cleared
    IN  IF hwp.localQueueName # "" THEN [sized EXCEPT !.queue = hwp.localQueueName]
        ELSE applyNodeSchedulingConfiguration(sized, hwp, changed)

removeHWPTolerations(o, hwp) == SelectSeq(o.tolerations, LAMBDA t : ~Contains(hwp.tolerations, t))
removeHWPNodeSelector(o, hwp) == IF o.pool = hwp.pool THEN "" ELSE o.pool

\* A mistake: everything goes, a user's own tolerations too.
RemoveAll(o, hwp) == [o EXCEPT !.tolerations = <<>>, !.pool = "", !.queue = ""]

removeHWPSettings(o, hwp) ==
    [o EXCEPT !.tolerations = removeHWPTolerations(o, hwp), !.pool = removeHWPNodeSelector(o, hwp),
              !.queue = IF hwp.localQueueName # "" THEN "" ELSE @]

\* The annotation was taken away: what it brought is looked up in the profile
\* as it is now; one that cannot be read leaves everything.
handleHWPRemoval(o, old) ==
    LET hwp == fetchHardwareProfile(ProfileRef(old))
    IN  [IF hwp = NotThere THEN o ELSE removeHWPSettings(o, hwp) EXCEPT !.namespace = ""]

Allowed(o) == [ok |-> TRUE, obj |-> o]
Denied(o) == [ok |-> FALSE, obj |-> o]

performHardwareProfileInjection(op, o, old) ==
    IF o.name = "" THEN Allowed(IF op = "UPDATE" /\ old.name # "" THEN handleHWPRemoval(o, old) ELSE o)
    ELSE LET hwp   == fetchHardwareProfile(ProfileRef(o))
             named == [o EXCEPT !.namespace = ProfileRef(o)[1]]
         IN  IF hwp = NotThere THEN Denied(o)
             ELSE IF ~validateContainerNames(named) THEN Allowed(named)
             ELSE Allowed(applyHardwareProfileToWorkload(named, hwp, detectProfileChange(op, named, old)))

\* An object that is being deleted passes as it is.
HandleWorkload(op, o, old) ==
    IF ~isExpectedKind(o.kind) THEN Denied(o)
    ELSE IF o.deleting THEN Allowed(o)
    ELSE performHardwareProfileInjection(op, o, old)

-----------------------------------------------------------------------------
\* Users and administrators

HWMay == hw.events < HWEvents
HWEvent(next) == hw' = [next EXCEPT !.events = @ + 1]

NewWorkload(kind, containers, tolerations) ==
    [kind |-> kind, containers |-> containers, name |-> "", namespace |-> "", pool |-> "", queue |-> "",
     tolerations |-> tolerations, requests |-> 0, limits |-> 0, deleting |-> FALSE]

Retouched(o) ==
    {[o EXCEPT !.name = n, !.namespace = s] : n \in {"", "p", "q"}, s \in {"", "own", "apps", o.namespace}}
    \cup {[o EXCEPT !.tolerations = Append(SelectSeq(@, LAMBDA t : t # UserToleration), UserToleration)]}
    \cup {[o EXCEPT !.pool = "mine"], [o EXCEPT !.queue = "mine"], [o EXCEPT !.requests = 1],
          [o EXCEPT !.containers = "main"], [o EXCEPT !.containers = "other"], [o EXCEPT !.deleting = TRUE], o}

\* What a write did, kept for the properties: what was sent, the profile it was
\* given and the one that was taken away.  Settings of a profile are stale after
\* the profile was edited under the workload, or not applied to it, or the
\* workload written without the handler, until a switch clears them.
Recorded(op, sent, old, new) ==
    LET applies  == new.name # "" /\ ~new.deleting
        removed  == op = "UPDATE" /\ new.name = "" /\ old.name # "" /\ ~new.deleting
        spec     == IF applies THEN fetchHardwareProfile(ProfileRef(new)) ELSE NotThere
        skipped  == applies /\ ~validateContainerNames(new)
        switched == applies /\ ~skipped /\ op = "UPDATE" /\ old.name # "" /\ ProfileRef(old) # ProfileRef(new)
    IN  [sent |-> sent, spec |-> spec, taken |-> IF removed THEN fetchHardwareProfile(ProfileRef(old)) ELSE NotThere,
         switched |-> switched,
         stale |-> ~switched /\ (hw.last.stale \/ skipped \/ (op = "UPDATE" /\ new.deleting))]

CreateWorkload ==
    HWMay /\ hw.work = NotThere
    /\ \E kind \in {"InferenceService", "LLMInferenceService"}, c \in {"none", "main", "other"} :
       \E o \in Retouched(NewWorkload(kind, c, <<UserToleration>>)) :
         LET r == HandleWorkload("CREATE", o, NotThere)
         IN  r.ok /\ ~o.deleting /\ HWEvent([hw EXCEPT !.work = r.obj, !.last = Recorded("CREATE", o, NotThere, r.obj)])

UpdateWorkload ==
    HWMay /\ hw.work # NotThere
    /\ \E o \in Retouched(hw.work) :
         LET r == HandleWorkload("UPDATE", o, hw.work)
         IN  r.ok /\ HWEvent([hw EXCEPT !.work = r.obj, !.last = Recorded("UPDATE", o, hw.work, r.obj)])

Unwritten == [sent |-> NotThere, spec |-> NotThere, taken |-> NotThere, switched |-> FALSE, stale |-> FALSE]

\* A write that the handler does not see.
WriteUnseen ==
    HWMay /\ hw.work # NotThere
    /\ \E o \in Retouched(hw.work) \ {hw.work} :
         HWEvent([hw EXCEPT !.work = o, !.last = [Unwritten EXCEPT !.stale = TRUE]])

EditProfile ==
    HWMay /\ \E key \in ProfileKeys : \E spec \in SpecsOf(key) \ {hw.profiles[key]} :
      LET used == hw.work # NotThere /\ hw.work.name # "" /\ ProfileRef(hw.work) = key
      IN  HWEvent([hw EXCEPT !.profiles[key] = spec, !.last.stale = @ \/ used])

HWStarts ==
    [profiles : {f \in [ProfileKeys -> UNION {SpecsOf(k) : k \in ProfileKeys}] : \A k \in ProfileKeys : f[k] \in SpecsOf(k)},
     work : {NotThere}, events : {0}, last : {Unwritten}]

HWInit == hw \in HWStarts

HWNext == CreateWorkload \/ UpdateWorkload \/ WriteUnseen \/ EditProfile

-----------------------------------------------------------------------------
\* Properties

\* Admission settles: writing the stored workload again, as its controllers do
\* all the time, changes nothing while its profile is the one it was given.
AdmissionSettles ==
    LET w == hw.work
    IN  w # NotThere /\ w.name # "" /\ ~hw.last.stale =>
          LET r == HandleWorkload("UPDATE", w, w) IN fetchHardwareProfile(ProfileRef(w)) # NotThere => r.ok /\ r.obj = w

\* A profile brings and takes only what is its own.  Resources that are set are
\* never changed.  Unless the user changes to another profile, the tolerations
\* they set stay; so does the node pool they set, unless the profile applied has
\* one, and the queue they set, unless the profile applied or removed has one.
UserSettingsKept ==
    LET l == hw.last
        has(profile, f) == profile # NotThere /\ profile[f] # ""
    IN  hw.work # NotThere /\ l.sent # NotThere =>
          /\ l.sent.requests # 0 => hw.work.requests = l.sent.requests
          /\ l.sent.limits # 0 => hw.work.limits = l.sent.limits
          /\ ~l.switched =>
                /\ Contains(l.sent.tolerations, UserToleration) => Contains(hw.work.tolerations, UserToleration)
                /\ l.sent.pool = "mine" => hw.work.pool = "mine" \/ has(l.spec, "pool")
                /\ l.sent.queue = "mine" =>
                      hw.work.queue = "mine" \/ has(l.spec, "localQueueName") \/ has(l.taken, "localQueueName")

\* Nothing of a former profile is left: every toleration, node pool and queue
\* that is not the user's belongs to the profile the workload names.
NoLeftovers ==
    LET w == hw.work
        of(f, none) == IF hw.last.spec = NotThere THEN none ELSE hw.last.spec[f]
    IN  w # NotThere /\ ~hw.last.stale =>
          /\ \A i \in DOMAIN w.tolerations :
               w.tolerations[i] = UserToleration \/ Contains(of("tolerations", <<>>), w.tolerations[i])
          /\ w.pool \in {"", "mine", of("pool", "")}
          /\ w.queue \in {"", "mine", of("localQueueName", "")}

=============================================================================
