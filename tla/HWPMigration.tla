---------------------------- MODULE HWPMigration ----------------------------
(***************************************************************************)
(* The upgrade tasks every leader runs when it starts: objects of earlier  *)
(* releases are removed, hardware profiles are created from accelerator    *)
(* profiles and container sizes, notebooks are pointed at them, and the    *)
(* ingress mode of an existing gateway is kept.                            *)
(*                                                                         *)
(* A run may fail in any task (the error is logged and the start goes on)  *)
(* and the process may die between two of them; the tasks are repeated at  *)
(* the next start, and users go on working meanwhile.                      *)
(***************************************************************************)
EXTENDS Integers, FiniteSets, FiniteSetsExt, Sequences, SequencesExt

CONSTANTS
    Notebooks,
    UpEvents        \* bound on what users do and on restarts

VARIABLE up

NoProfile == <<"none", "none">>
NoNotebook == [ap |-> "none", hint |-> "", size |-> "", queue |-> FALSE, hwp |-> NoProfile]
ProfileNamespaces == {"app", "user"}

\* Quantities are numbers; 0 is "not set".
defaultMinMemory == 1
defaultResourceLimits == [min |-> 8, max |-> 120]

\* A mistake: a larger request replaces the smallest one found so far.
KeepLargest(best, q) == IF best = 0 \/ q > best THEN q ELSE best

Smaller(best, q) == IF best = 0 \/ q < best THEN q ELSE best
Larger(best, q) == IF q # 0 /\ q > best THEN q ELSE best

\* Over the sizes in their order, for memory and for cpu alike.
FindCpuMemoryMinMaxCountFromContainerSizes(sizes) ==
    LET min == FoldLeft(LAMBDA best, s : Smaller(best, s.request), 0, sizes)
        max == FoldLeft(LAMBDA best, s : Larger(best, s.limit), 0, sizes)
    IN  [min |-> IF min = 0 THEN defaultMinMemory ELSE min, max |-> max]

FindContainerCpuMemoryMinMaxCount(sizes) ==
    IF sizes = <<>> THEN defaultResourceLimits ELSE FindCpuMemoryMinMaxCountFromContainerSizes(sizes)

\* The toleration for notebooks only counts if it is switched on twice and has
\* a key.
getNotebooksOnlyToleration(config) ==
    IF config.controller /\ config.tolerate /\ config.key # "" THEN {config.key} ELSE {}

generateHardwareProfileFromAcceleratorProfile(ap, type, limits, toleration) ==
    [visible |-> type, disabled |-> ~ap.enabled, min |-> limits.min,
     max |-> IF type = "notebooks" THEN limits.max ELSE 0,
     tolerations |-> ap.tolerations \cup (IF type = "notebooks" THEN toleration ELSE {})]

generateHardwareProfileFromContainerSize(size, type, toleration) ==
    [visible |-> type, disabled |-> FALSE, min |-> size.request, max |-> size.limit, tolerations |-> toleration]

\* The profiles made for an accelerator profile.
MigrateAcceleratorProfile(ap, config) ==
    [t \in {"notebooks", "serving"} |-> generateHardwareProfileFromAcceleratorProfile(ap, t,
        IF t = "notebooks" THEN FindContainerCpuMemoryMinMaxCount(config.sizes) ELSE [min |-> 1, max |-> 0],
        getNotebooksOnlyToleration(config))]

\* The profiles made for the sizes of notebooks.
MigrateContainerSizes(config) ==
    [k \in DOMAIN config.sizes |->
        generateHardwareProfileFromContainerSize(config.sizes[k], "notebooks", getNotebooksOnlyToleration(config))]

\* Unless some size asks for nothing at all (the smallest request is then lost,
\* depending on the order), a notebook that has one of the configured sizes fits
\* the profile made for an accelerator, whose minimum is not below the smallest
\* size either; a notebook that moves from the profile of its size to that of an
\* accelerator keeps its tolerations and gets those of the accelerator's nodes.
ProfileAdmitsSizes(ap, config) ==
    LET profile == MigrateAcceleratorProfile(ap, config)["notebooks"]
        sized == MigrateContainerSizes(config)
    IN  /\ \A k \in DOMAIN sized : sized[k].max <= profile.max /\ sized[k].tolerations \subseteq profile.tolerations
        /\ sized # <<>> /\ (\A k \in DOMAIN sized : config.sizes[k].request > 0) =>
              /\ \A k \in DOMAIN sized : profile.min <= sized[k].min
              /\ \E k \in DOMAIN sized : profile.min = sized[k].min
        /\ ap.tolerations \subseteq profile.tolerations

-----------------------------------------------------------------------------
\* The tasks

UpDone(u) == [u EXCEPT !.pc = "up", !.snap = [n \in Notebooks |-> NoNotebook], !.todo = {}, !.at = {}, !.clean = ~u.failed /\ u.began = u.events]

\* Without a DSCI there is nothing to do.
CleanupExistingResource ==
    /\ up.pc = "down"
    /\ up' = IF up.app THEN [up EXCEPT !.pc = "legacy", !.failed = FALSE, !.clean = FALSE, !.began = up.events] ELSE [up EXCEPT !.pc = "up"]

\* What an earlier release left; a Deployment or an OAuth client of the same
\* name that is not ours, or is current, stays.
Legacy == {"rolebinding", "deployment", "vapb", "oauth", "buildconfig", "imagestream"}

\* A mistake: the name decides.
LegacyByName(l) == [x \in Legacy |-> IF x = "imagestream" /\ l[x] # "none" THEN "deprecated" ELSE "none"]

RemoveLegacy(l) ==
    [x \in Legacy |-> CASE l[x] = "none" -> "none"
                        [] x = "imagestream" -> "deprecated"
                        [] x = "deployment" /\ l[x] = "current" -> "current"
                        [] x = "oauth" /\ l[x] = "foreign" -> "foreign"
                        [] OTHER -> "none"]

\* A part that fails is left as it was and the others are still done.
CleanupLegacy ==
    /\ up.pc = "legacy"
    /\ \E kept \in {{}} \cup {{x} : x \in IF up.faults > 0 THEN Legacy ELSE {}} :
         up' = [up EXCEPT !.legacy = [x \in Legacy |-> IF x \in kept THEN @[x] ELSE RemoveLegacy(@)[x]],
                          !.failed = @ \/ kept # {}, !.faults = @ - Cardinality(kept),
                          !.pc = IF up.crds THEN "profiles" ELSE "gateway"]

\* Creation leaves alone what exists.
CreateHardwareProfile(profiles, new) ==
    [k \in DOMAIN profiles |-> IF k \in new /\ profiles[k] = "none" THEN "made" ELSE profiles[k]]

\* One creation may fail; the serving profile of an accelerator comes after the
\* one for notebooks.
Create(new, then, next) ==
    \/ up' = [up EXCEPT !.profiles = CreateHardwareProfile(@, new), !.pc = next]
    \/ /\ up.faults > 0
       /\ \E k \in new : up' = [up EXCEPT !.profiles = CreateHardwareProfile(@, new \ ({k} \cup then[k])),
                                          !.pc = next, !.failed = TRUE, !.faults = @ - 1]

\* Whether the cluster, or else the manifests of the operator, have one.
GetOdhDashboardConfig(u) == u.config # "none"

\* "nospec" is a dashboard configuration that cannot be read: nothing can be
\* derived from it.
MigrateAcceleratorProfilesToHardwareProfiles ==
    LET new == {<<"a-notebooks", ns>> : ns \in up.aps} \cup {<<"a-serving", ns>> : ns \in up.aps}
    IN  /\ up.pc = "profiles"
        /\ IF ~GetOdhDashboardConfig(up) THEN up' = [up EXCEPT !.pc = "gateway"]
           ELSE IF up.config = "nospec" THEN up' = [up EXCEPT !.pc = "sizes", !.failed = TRUE]
           ELSE Create(new, [k \in new |-> {<<"a-serving", k[2]>>}], "sizes")

MigrateContainerSizesToHardwareProfiles ==
    LET new == {<<"s-notebooks", "app">>, <<"s-serving", "app">>}
    IN  /\ up.pc = "sizes"
        /\ IF up.config = "nospec" THEN up' = [up EXCEPT !.pc = "list", !.failed = TRUE]
           ELSE Create(new, [k \in new |-> {}], "list")

ListNotebooks ==
    /\ up.pc = "list"
    /\ up' = IF up.config = "nospec" THEN [up EXCEPT !.pc = "custom", !.failed = TRUE]
             ELSE [up EXCEPT !.pc = "attach", !.snap = up.nbs, !.todo = {n \in Notebooks : up.nbs[n] # NoNotebook}]

\* A mistake: the profile for the size is taken although an accelerator is named.
SizeFirst(nb) == IF nb.size = "s" THEN "s-notebooks" ELSE IF nb.ap # "" THEN "a-notebooks" ELSE ""

\* The size "s" is the one the dashboard configuration lists.
containerSizeExists(name) == name = "s"

\* The accelerator comes before the size, and a size has to be known.
SourceOf(nb) == IF nb.ap # "" THEN "a-notebooks" ELSE IF containerSizeExists(nb.size) THEN "s-notebooks" ELSE ""

\* Where the profile is looked for, in this order.
namespacesToCheck(nb) == (IF nb.hint # "" THEN <<nb.hint>> ELSE <<>>) \o <<"user", "app">>

FirstWith(u, nb, name) ==
    LET there == SelectSeq(namespacesToCheck(nb), LAMBDA ns : u.profiles[<<name, ns>>] # "none")
    IN  IF there = <<>> THEN NoProfile ELSE <<name, there[1]>>

isNamespaceManagedByKueue(u) == u.kueue

\* The webhook of the workbenches.
WebhookRejects(u, nb) == u.kueue /\ ~nb.queue

\* A mistake: the notebook is written whatever has become of it since the list.
OverwriteAlways(n) == FALSE
\* An Update of an object that is gone or has changed is refused.
Changed(n) == up.nbs[n] # up.snap[n]

\* A notebook that would be rejected is left out; if the namespace cannot be
\* read the notebook is written all the same.
CheckNotebook(n) ==
    LET nb == up.snap[n]
    IN  \/ up' = IF nb.hwp # NoProfile \/ SourceOf(nb) = "" \/ (isNamespaceManagedByKueue(up) /\ ~nb.queue)
                 THEN [up EXCEPT !.todo = @ \ {n}] ELSE [up EXCEPT !.at = {n}]
        \/ /\ nb.hwp = NoProfile /\ SourceOf(nb) # "" /\ up.faults > 0
           /\ up' = [up EXCEPT !.at = {n}, !.faults = @ - 1]

\* The namespace or the notebook may have changed since the check: a rejection
\* by the webhook is passed over, any other error is reported at the end.
SetHardwareProfileAnnotation(n) ==
    LET nb   == up.snap[n]
        next == [up EXCEPT !.todo = @ \ {n}, !.at = {}]
    IN  \/ Changed(n) /\ up' = [next EXCEPT !.failed = TRUE]
        \/ WebhookRejects(up, nb) /\ up' = next
        \/ /\ ~Changed(n) /\ ~WebhookRejects(up, nb)
           /\ up' = [next EXCEPT !.nbs[n] = [nb EXCEPT !.hwp = FirstWith(up, nb, SourceOf(nb))]]

AttachHardwareProfileToNotebooks ==
    /\ up.pc = "attach"
    /\ \/ up.at = {} /\ \E n \in up.todo : CheckNotebook(n)
       \/ \E n \in up.at : SetHardwareProfileAnnotation(n)
       \/ up.todo = {} /\ up' = [up EXCEPT !.pc = "custom"]

createCustomServingHardwareProfile ==
    /\ up.pc = "custom"
    /\ LET new == {<<"custom-serving", "app">>} IN Create(new, [k \in new |-> {}], "gateway")

\* The mode of a gateway that was set up with a load balancer is kept.  The
\* GatewayConfig and the Service are read first ...
ReadIngressMode ==
    /\ up.pc = "gateway"
    /\ \/ up' = IF up.mode = "" /\ up.service = "LoadBalancer" THEN [up EXCEPT !.pc = "patch"] ELSE UpDone(up)
       \/ up.faults > 0 /\ up' = UpDone([up EXCEPT !.failed = TRUE, !.faults = @ - 1])

\* ... and the patch does not look at them again: it replaces a mode that a user
\* has set in between.
MigrateGatewayConfigIngressMode ==
    /\ up.pc = "patch"
    /\ \/ up' = UpDone([up EXCEPT !.mode = "LoadBalancer"])
       \/ up.faults > 0 /\ up' = UpDone([up EXCEPT !.failed = TRUE, !.faults = @ - 1])

-----------------------------------------------------------------------------
\* Users, and the process

UpMay == up.events < UpEvents
UpEvent(u) == [u EXCEPT !.events = @ + 1, !.clean = FALSE]

Die == UpMay /\ up.pc # "down" /\ up' = UpEvent([UpDone(up) EXCEPT !.pc = "down"])

EditNotebook ==
    \E n \in Notebooks : UpMay /\ up.nbs[n] # NoNotebook /\
       \/ \E k \in {k \in DOMAIN up.profiles : up.profiles[k] # "none"} \ {up.nbs[n].hwp} :
            up' = UpEvent([up EXCEPT !.nbs[n].hwp = k, !.chosen = @ \cup {n}])
       \/ up' = UpEvent([up EXCEPT !.nbs[n] = NoNotebook, !.chosen = @ \ {n}])
       \/ ~up.nbs[n].queue /\ up' = UpEvent([up EXCEPT !.nbs[n].queue = TRUE])

EditProfiles ==
    UpMay /\ \E k \in {"a-notebooks", "s-notebooks"} \X {"app"}, to \in {"none", "edited"} :
       up.profiles[k] \notin {"none", to} /\ up' = UpEvent([up EXCEPT !.profiles[k] = to])

EditCluster ==
    UpMay /\ \/ up' = UpEvent([up EXCEPT !.kueue = ~@])
             \/ ~up.app /\ up' = UpEvent([up EXCEPT !.app = TRUE])
             \/ up.mode = "" /\ up' = UpEvent([up EXCEPT !.mode = "OcpRoute"])

NotebookInit ==
    {nb \in [ap : {"", "a"}, hint : {"", "app"}, size : {"s", "gone"}, queue : {FALSE}, hwp : {NoProfile}] :
        nb.hint # "" => nb.ap # ""}

\* The choices that do not depend on each other are made together.
UpStarts ==
    LET start(old, config, nbs) ==
            [pc |-> "down", app |-> config # "none", crds |-> config # "none", aps |-> IF old THEN {"app", "user"} ELSE {"app"}, config |-> config,
             legacy |-> [x \in Legacy |-> CASE x = "deployment" /\ ~old -> "current"
                                            [] x = "oauth" /\ ~old -> "foreign" [] OTHER -> "legacy"],
             profiles |-> [k \in {"a-notebooks", "a-serving", "s-notebooks", "s-serving", "custom-serving"}
                                 \X ProfileNamespaces |-> "none"],
             nbs |-> nbs, kueue |-> FALSE, chosen |-> {}, snap |-> [n \in Notebooks |-> NoNotebook], todo |-> {}, at |-> {},
             mode |-> IF ~old /\ config = "nospec" THEN "none" ELSE "", service |-> IF old THEN "LoadBalancer" ELSE "ClusterIP", failed |-> FALSE, clean |-> FALSE,
             began |-> 0, faults |-> 1, events |-> 0]
    IN  {start(old, config, nbs) : old \in BOOLEAN, config \in {"none", "ok", "nospec"},
                                   nbs \in [Notebooks -> NotebookInit]}

UpInit == up \in UpStarts

UpNext ==
    \/ CleanupExistingResource \/ CleanupLegacy \/ MigrateAcceleratorProfilesToHardwareProfiles
    \/ MigrateContainerSizesToHardwareProfiles \/ ListNotebooks \/ AttachHardwareProfileToNotebooks
    \/ createCustomServingHardwareProfile \/ ReadIngressMode \/ MigrateGatewayConfigIngressMode
    \/ Die \/ EditNotebook \/ EditProfiles \/ EditCluster

-----------------------------------------------------------------------------
\* Properties

\* Right after a run without an error and without interference, whatever
\* earlier runs left undone:
\* nothing of the earlier releases is left but what is not ours; every notebook
\* whose profile exists and that the webhook would accept has a profile that
\* was made for the accelerator it names, else for its size.
UpgradeComplete ==
    up.clean /\ up.app =>
    /\ \A x \in Legacy : up.legacy[x] \in {"none", "current", "foreign", "deprecated"}
    /\ up.service = "LoadBalancer" => up.mode # ""
    /\ up.crds /\ up.config = "ok" =>
         /\ \A ns \in up.aps : up.profiles[<<"a-notebooks", ns>>] # "none" /\ up.profiles[<<"a-serving", ns>>] # "none"
         /\ \A n \in Notebooks : up.nbs[n] # NoNotebook /\ n \notin up.chosen /\ (up.kueue => up.nbs[n].queue) =>
              /\ up.nbs[n].ap # "" /\ up.aps # {} => up.nbs[n].hwp[1] = "a-notebooks"
              /\ up.nbs[n].ap = "" /\ up.nbs[n].size = "s" => up.nbs[n].hwp[1] = "s-notebooks"

\* What users did is kept: a profile they edited and a choice they made for a
\* notebook are not undone by any run, however it interleaves with them.
UserChoicesKept ==
    [up'.events = up.events =>
         /\ \A k \in DOMAIN up.profiles : up.profiles[k] = "edited" => up'.profiles[k] = "edited"
         /\ \A n \in up.chosen : up'.nbs[n].hwp = up.nbs[n].hwp]_up

\* Objects that only share their name with those of an earlier release stay.
ForeignObjectsKept ==
    [\A x \in Legacy : up.legacy[x] \in {"current", "foreign"} => up'.legacy[x] = up.legacy[x]]_up

=============================================================================
