------------------------------ MODULE Teardown ------------------------------
(***************************************************************************)
(* The life of the shared Platform object: how the DSCI and DSC            *)
(* controllers create it, project their modules into it and add their      *)
(* owner references, and how it is torn down with its owners by the        *)
(* finalizers, the Kubernetes garbage collector and OperatorUninstall.     *)
(*                                                                         *)
(* The DSC and DSCI controllers run at API-call granularity.  The walk of  *)
(* the Platform controller (module Provisioning) is one step here.  The    *)
(* garbage collector is external; of its rules the model has the ones      *)
(* these objects meet: an object goes with its last solid owner, and a     *)
(* foreground deletion reaches the dependents while the owner still exists.*)
(***************************************************************************)
EXTENDS FiniteSets

CONSTANTS
    DSCModules,     \* modules configured by the DSC (ConfigFromDSC)
    DSCIModules,    \* modules configured by the DSCI (ConfigFromDSCI)
    Established,    \* owners that were created and reconciled before the first step
    Toggled,        \* modules that users enable and disable
    Policies,       \* per owner: deletion policies users may choose
    Uninstallable,  \* whether the addon may ask for an uninstall
    PlatformDeletable   \* whether users may delete the Platform

Owners == {"DSC", "DSCI"}
Objects == Owners \cup {"Platform"}
Modules == DSCModules \cup DSCIModules

ASSUME ModulesAssumption == DSCModules \cap DSCIModules = {}
ASSUME PoliciesAssumption == Policies \in [Owners -> SUBSET {"Background", "Foreground"}]
ASSUME SwitchesAssumption ==
    /\ Toggled \subseteq Modules
    /\ Established \in {{}, {"DSCI"}, Owners}
    /\ Uninstallable \in BOOLEAN /\ PlatformDeletable \in BOOLEAN

VARIABLES
    phase,          \* per object: absent, live, or deleting (it has a deletionTimestamp)
    fin,            \* objects with the finalizer of their controller
    fg,             \* objects with the foregroundDeletion finalizer
    owners,         \* owner references of the Platform
    managed,        \* modules the Platform's spec has as Managed
    spec,           \* modules the specs of the DSC and the DSCI have as Managed
    created,        \* owners ever created: each is created once (a bound)
    ctl,            \* per owner: the next API call of its reconcile
    desired,        \* per owner: its modules as read when the reconcile began
    copy,           \* per owner: the references EnsurePlatformOwnerReference will write
    valid,          \* owners whose copy is based on the latest Platform
    releasing,      \* the Platform finalizer has passed, its removal is next
    cr,             \* per module CR: absent, new, live (finalizer of its operator), deleting
    operator,       \* modules whose operator is deployed, by the Platform
    crds,           \* modules whose CRD is installed
    uninstalling,   \* owners marked Ready=False, UninstallInProgress
    setup           \* the next step of OperatorUninstall

ownerVars == <<spec, created, uninstalling, setup>>
ctlVars == <<ctl, desired, copy>>
crVars == <<cr, operator, crds>>
platformVars == <<owners, managed, valid>>
vars == <<phase, fin, fg, owners, managed, spec, created, ctl, desired, copy, valid,
          releasing, cr, operator, crds, uninstalling, setup>>

Of(o) == IF o = "DSC" THEN DSCModules ELSE DSCIModules
Source(m) == IF m \in DSCModules THEN "DSC" ELSE "DSCI"

TypeOK ==
    /\ phase \in [Objects -> {"absent", "live", "deleting"}]
    /\ fin \subseteq Objects /\ fg \subseteq Objects
    /\ owners \subseteq Owners
    /\ managed \subseteq Modules /\ spec \subseteq Modules
    /\ created \subseteq Owners
    /\ ctl \in [Owners -> {"idle", "apply", "owner", "update", "crs", "release"}]
    /\ desired \in [Owners -> SUBSET Modules]
    /\ copy \in [Owners -> SUBSET Owners]
    /\ valid \subseteq Owners
    /\ releasing \in BOOLEAN
    /\ cr \in [Modules -> {"absent", "new", "live", "deleting"}]
    /\ operator \subseteq Modules /\ crds \subseteq Modules
    /\ uninstalling \subseteq Owners
    /\ setup \in {"idle", "mark", "dsc", "wait", "dsci", "rest", "done"}

\* Removing the CSV at the end of the uninstall stops the operator process.
Running == setup # "done"

(***************************************************************************)
(* The API server                                                          *)
(***************************************************************************)

\* A deletion: an object without finalizers is gone at once.
Delete(x, policy) ==
    LET held == IF policy = "Foreground" THEN fg \cup {x} ELSE fg IN
    /\ fg' = held
    /\ phase' = [phase EXCEPT ![x] = IF x \in fin \cup held THEN "deleting" ELSE "absent"]
    /\ uninstalling' = IF x \in fin \cup held THEN uninstalling ELSE uninstalling \ {x}

\* A finalizer was removed: an object being deleted goes with its last one.
Release(x, fins, fgs) ==
    /\ fin' = fins /\ fg' = fgs
    /\ phase' = [phase EXCEPT ![x] = IF @ = "deleting" /\ x \notin fins \cup fgs THEN "absent" ELSE @]
    /\ uninstalling' = IF phase[x] = "deleting" /\ x \notin fins \cup fgs THEN uninstalling \ {x} ELSE uninstalling

DeletedCR(m) == IF cr[m] = "new" THEN "absent" ELSE IF cr[m] = "live" THEN "deleting" ELSE cr[m]

\* The Platform changed: a copy read before is stale.
PlatformChanges(refs, mods) ==
    /\ owners' = refs /\ managed' = mods /\ valid' = {}

PlatformFollows ==
    IF phase'["Platform"] = "absent" THEN PlatformChanges({}, {}) ELSE PlatformChanges(owners, managed)

\* Server-side apply of the module fields of one source, which creates a
\* missing Platform, without owner references.
ApplyPlatform(o, mods) ==
    LET projected == (managed \ Of(o)) \cup mods IN
    /\ phase' = [phase EXCEPT !["Platform"] = IF @ = "absent" THEN "live" ELSE @]
    /\ managed' = projected
    /\ valid' = IF phase["Platform"] = "absent" \/ projected # managed THEN {} ELSE valid
    /\ UNCHANGED owners

(***************************************************************************)
(* The DSC and DSCI controllers                                            *)
(***************************************************************************)

At(o, here) == ctl[o] = here /\ Running
Goto(o, there) == ctl' = [ctl EXCEPT ![o] = there]

\* The reconcile ends and its locals with it.
Return(o) ==
    /\ Goto(o, "idle")
    /\ desired' = [desired EXCEPT ![o] = {}]
    /\ copy' = [copy EXCEPT ![o] = {}]

\* checkPreConditions of the DSC; both stop on an uninstall in progress.
PreConditions(o) ==
    /\ o \notin uninstalling
    /\ o = "DSC" => phase["DSCI"] # "absent"

StartReconcile(o) ==
    /\ At(o, "idle") /\ phase[o] = "live"
    /\ fin' = fin \cup {o}
    /\ \/ /\ PreConditions(o)
          /\ desired' = [desired EXCEPT ![o] = spec \cap Of(o)]
          /\ Goto(o, "apply")
       \/ /\ ~PreConditions(o)
          /\ UNCHANGED <<ctl, desired>>
    /\ UNCHANGED <<phase, fg, ownerVars, platformVars, copy, releasing, crVars>>

\* syncPlatformCR and reconcileDSCIModules first apply the Platform ...
SyncPlatformCR(o) ==
    /\ At(o, "apply")
    /\ ApplyPlatform(o, desired[o])
    /\ Goto(o, "owner")
    /\ UNCHANGED <<fin, fg, ownerVars, desired, copy, releasing, crVars>>

\* ... then read it and merge the owner reference; a Platform not found is an error ...
EnsureOwnerReads(o) ==
    /\ At(o, "owner")
    /\ \/ /\ phase["Platform"] = "live" /\ o \notin owners
          /\ copy' = [copy EXCEPT ![o] = owners \cup {o}]
          /\ valid' = valid \cup {o}
          /\ Goto(o, "update") /\ UNCHANGED desired
       \/ /\ phase["Platform"] = "deleting" \/ o \in owners
          /\ Goto(o, "crs") /\ UNCHANGED <<desired, copy, valid>>
       \/ /\ phase["Platform"] = "absent"
          /\ Return(o) /\ UNCHANGED valid
    /\ UNCHANGED <<phase, fin, fg, ownerVars, owners, managed, releasing, crVars>>

EnsureOwnerUpdatesBlindly(o) ==
    /\ At(o, "update")
    /\ PlatformChanges(copy[o], managed)
    /\ copy' = [copy EXCEPT ![o] = {}]
    /\ Goto(o, "crs")
    /\ UNCHANGED <<phase, fin, fg, ownerVars, desired, releasing, crVars>>

\* ... and update it: a conflict makes it read again.
EnsureOwnerUpdates(o) ==
    /\ At(o, "update")
    /\ \/ /\ o \in valid
          /\ PlatformChanges(copy[o], managed)
          /\ Goto(o, "crs")
       \/ /\ o \notin valid
          /\ Goto(o, "owner")
          /\ UNCHANGED platformVars
    /\ copy' = [copy EXCEPT ![o] = {}]
    /\ UNCHANGED <<phase, fin, fg, ownerVars, desired, releasing, crVars>>

\* The CRs of disabled modules are deleted, those of enabled ones applied if
\* their CRD is there.
ProvisionModuleCRs(o) ==
    /\ At(o, "crs")
    /\ cr' = [m \in Modules |->
                 IF m \in Of(o) \ desired[o] THEN DeletedCR(m)
                 ELSE IF m \in desired[o] \cap crds /\ cr[m] = "absent" THEN "new"
                 ELSE cr[m]]
    /\ Return(o)
    /\ UNCHANGED <<phase, fin, fg, ownerVars, platformVars, releasing, operator, crds>>

\* The finalizer of the DSC marks its modules Removed; the DSCI has nothing to do.
Finalize(o) ==
    /\ At(o, "idle") /\ phase[o] = "deleting" /\ o \in fin
    /\ \/ o = "DSC" /\ ApplyPlatform(o, {})
       \/ o = "DSCI" /\ UNCHANGED <<phase, platformVars>>
    /\ Goto(o, "release")
    /\ UNCHANGED <<fin, fg, ownerVars, desired, copy, releasing, crVars>>

RemoveFinalizer(o) ==
    /\ At(o, "release")
    /\ Release(o, fin \ {o}, fg)
    /\ Goto(o, "idle")
    /\ UNCHANGED <<spec, created, setup, platformVars, desired, copy, releasing, crVars>>

\* An API error, or a restart of the process, ends a reconcile half way.
Interrupt(o) ==
    /\ ctl[o] # "idle" /\ Running
    /\ Return(o)
    /\ valid' = valid \ {o}
    /\ UNCHANGED <<phase, fin, fg, ownerVars, owners, managed, releasing, crVars>>

(***************************************************************************)
(* The Platform controller                                                 *)
(***************************************************************************)

WantedEnabled == managed

\* cleanupDisabledModules keeps the operator of a disabled module until its CR is gone.
Wanted == managed \cup {m \in Modules : cr[m] # "absent"}

\* The chain fails, finalizer added, when the namespaces cannot be resolved
\* (no DSCI) or any call fails.
ReconcilePlatform(succeeds) ==
    /\ Running /\ phase["Platform"] = "live"
    /\ succeeds => phase["DSCI"] # "absent"
    /\ fin' = fin \cup {"Platform"}
    /\ valid' = IF "Platform" \in fin THEN valid ELSE {}
    /\ operator' = IF succeeds THEN Wanted ELSE operator
    /\ crds' = IF succeeds THEN crds \cup Wanted ELSE crds
    /\ UNCHANGED <<phase, fg, owners, managed, ownerVars, ctlVars, releasing, cr>>

SkipWaitForModuleCRDeletion ==
    /\ Running /\ ~releasing /\ phase["Platform"] = "deleting" /\ "Platform" \in fin
    /\ cr' = [m \in Modules |-> DeletedCR(m)]
    /\ releasing' = TRUE
    /\ UNCHANGED <<phase, fin, fg, ownerVars, platformVars, ctlVars, operator, crds>>

WaitForOperatorDeletion ==
    /\ Running /\ ~releasing /\ phase["Platform"] = "deleting" /\ "Platform" \in fin
    /\ cr' = [m \in Modules |-> DeletedCR(m)]
    /\ releasing' = (operator = {})
    /\ UNCHANGED <<phase, fin, fg, ownerVars, platformVars, ctlVars, operator, crds>>

\* waitForModuleCRDeletion deletes the CRs that are alive and passes when there is none.
WaitForModuleCRDeletion ==
    /\ Running /\ ~releasing /\ phase["Platform"] = "deleting" /\ "Platform" \in fin
    /\ cr' = [m \in Modules |-> DeletedCR(m)]
    /\ releasing' = (\A m \in Modules : cr[m] = "absent")
    /\ UNCHANGED <<phase, fin, fg, ownerVars, platformVars, ctlVars, operator, crds>>

RemovePlatformFinalizer ==
    /\ Running /\ releasing
    /\ releasing' = FALSE
    /\ Release("Platform", fin \ {"Platform"}, fg)
    /\ PlatformFollows
    /\ UNCHANGED <<spec, created, setup, ctlVars, crVars>>

InterruptPlatform ==
    /\ Running /\ releasing
    /\ releasing' = FALSE
    /\ UNCHANGED <<phase, fin, fg, ownerVars, platformVars, ctlVars, crVars>>

(***************************************************************************)
(* Module operators (external): a CR gets a finalizer, served on deletion. *)
(***************************************************************************)

OperatorAdopts(m) ==
    /\ m \in operator /\ cr[m] = "new"
    /\ cr' = [cr EXCEPT ![m] = "live"]
    /\ UNCHANGED <<phase, fin, fg, ownerVars, platformVars, ctlVars, releasing, operator, crds>>

OperatorFinalizes(m) ==
    /\ m \in operator /\ cr[m] = "deleting"
    /\ cr' = [cr EXCEPT ![m] = "absent"]
    /\ UNCHANGED <<phase, fin, fg, ownerVars, platformVars, ctlVars, releasing, operator, crds>>

(***************************************************************************)
(* The Kubernetes garbage collector (external)                             *)
(***************************************************************************)

\* An owner waits for its dependents when it is deleted in the foreground.
Waiting(x) == phase[x] = "deleting" /\ x \in fg
Solid(x) == phase[x] # "absent" /\ ~Waiting(x)

CollectCR(m) ==
    /\ ~Solid(Source(m)) /\ cr[m] \in {"new", "live"}
    /\ cr' = [cr EXCEPT ![m] = DeletedCR(m)]
    /\ UNCHANGED <<phase, fin, fg, ownerVars, platformVars, ctlVars, releasing, operator, crds>>

CollectOperator(m) ==
    /\ ~Solid("Platform") /\ m \in operator
    /\ operator' = operator \ {m}
    /\ UNCHANGED <<phase, fin, fg, ownerVars, platformVars, ctlVars, releasing, cr, crds>>

\* With a solid owner the other references are dropped.
DropReferences ==
    /\ phase["Platform"] = "live"
    /\ \E o \in owners : Solid(o)
    /\ \E o \in owners : ~Solid(o)
    /\ PlatformChanges({o \in owners : Solid(o)}, managed)
    /\ UNCHANGED <<phase, fin, fg, ownerVars, ctlVars, releasing, crVars>>

\* Without one the Platform is deleted, in the foreground if it has dependents
\* and an owner waits for it; an object without references is never collected.
CollectPlatform ==
    /\ phase["Platform"] = "live"
    /\ owners # {} /\ \A o \in owners : ~Solid(o)
    /\ Delete("Platform", IF operator # {} /\ \E o \in owners : Waiting(o) THEN "Foreground" ELSE "Background")
    /\ PlatformFollows
    /\ UNCHANGED <<fin, spec, created, setup, ctlVars, releasing, crVars>>

\* The dependents that block: CRs (controller references) and operators, not
\* the Platform, whose references do not.
ForegroundDone(x) ==
    /\ Waiting(x)
    /\ Release(x, fin, fg \ {x})
    /\ \/ x \in Owners /\ (\A m \in Of(x) : cr[m] = "absent") /\ UNCHANGED platformVars
       \/ x = "Platform" /\ operator = {} /\ PlatformFollows
    /\ UNCHANGED <<spec, created, setup, ctlVars, releasing, crVars>>

(***************************************************************************)
(* Users, and the initialisation that creates the default objects          *)
(***************************************************************************)

Create(o) ==
    /\ phase[o] = "absent" /\ o \notin created
    /\ phase' = [phase EXCEPT ![o] = "live"]
    /\ created' = created \cup {o}
    /\ UNCHANGED <<fin, fg, spec, uninstalling, setup, platformVars, ctlVars, releasing, crVars>>

Toggle(m) ==
    /\ phase[Source(m)] = "live"
    /\ spec' = IF m \in spec THEN spec \ {m} ELSE spec \cup {m}
    /\ UNCHANGED <<phase, fin, fg, created, uninstalling, setup, platformVars, ctlVars, releasing, crVars>>

\* The validating webhook keeps the DSCI while a DSC exists.
DeleteAllowed(o) == o = "DSCI" => phase["DSC"] = "absent"

UserDeletes(o, policy) ==
    /\ phase[o] = "live" /\ DeleteAllowed(o)
    /\ Delete(o, policy)
    /\ UNCHANGED <<fin, spec, created, setup, platformVars, ctlVars, releasing, crVars>>

UserDeletesPlatform ==
    /\ PlatformDeletable /\ phase["Platform"] = "live"
    /\ Delete("Platform", "Background")
    /\ PlatformFollows
    /\ UNCHANGED <<fin, spec, created, setup, ctlVars, releasing, crVars>>

(***************************************************************************)
(* The setup controller: OperatorUninstall                                 *)
(***************************************************************************)

RequestUninstall ==
    /\ Uninstallable /\ setup = "idle" /\ setup' = "mark"
    /\ UNCHANGED <<phase, fin, fg, spec, created, uninstalling, platformVars, ctlVars, releasing, crVars>>

MarkUninstallInProgress ==
    /\ setup = "mark" /\ setup' = "dsc"
    /\ uninstalling' = {o \in Owners : phase[o] # "absent"}
    /\ UNCHANGED <<phase, fin, fg, spec, created, platformVars, ctlVars, releasing, crVars>>

DeleteAllOf(o) ==
    \/ phase[o] # "absent" /\ Delete(o, "Foreground")
    \/ phase[o] = "absent" /\ UNCHANGED <<phase, fg, uninstalling>>

RemoveDSC ==
    /\ setup = "dsc" /\ setup' = "wait"
    /\ DeleteAllOf("DSC")
    /\ UNCHANGED <<fin, spec, created, platformVars, ctlVars, releasing, crVars>>

\* The wait times out after seven steps; the reconcile is then retried.
WaitForDSC ==
    /\ setup = "wait"
    /\ setup' = IF phase["DSC"] = "absent" THEN "dsci" ELSE "mark"
    /\ UNCHANGED <<phase, fin, fg, spec, created, uninstalling, platformVars, ctlVars, releasing, crVars>>

\* Denied by the webhook when a DSC was created again; it is not waited for.
RemoveDSCI ==
    /\ setup = "dsci"
    /\ \/ DeleteAllowed("DSCI") /\ DeleteAllOf("DSCI") /\ setup' = "rest"
       \/ ~DeleteAllowed("DSCI") /\ setup' = "mark" /\ UNCHANGED <<phase, fg, uninstalling>>
    /\ UNCHANGED <<fin, spec, created, platformVars, ctlVars, releasing, crVars>>

\* Namespaces, Subscription, CSV and ClusterExtension.
RemoveOperator ==
    /\ setup = "rest" /\ setup' = "done"
    /\ UNCHANGED <<phase, fin, fg, spec, created, uninstalling, platformVars, ctlVars, releasing, crVars>>

Init ==
    LET before == Established \cup (IF Established = {} THEN {} ELSE {"Platform"})
        mods == UNION {Of(o) : o \in Established} IN
    /\ phase = [x \in Objects |-> IF x \in before THEN "live" ELSE "absent"]
    /\ fin = before /\ fg = {}
    /\ owners = Established /\ created = Established
    /\ managed = mods /\ operator = mods /\ crds = mods
    /\ cr = [m \in Modules |-> IF m \in mods THEN "live" ELSE "absent"]
    /\ spec = Modules
    /\ ctl = [o \in Owners |-> "idle"]
    /\ desired = [o \in Owners |-> {}]
    /\ copy = [o \in Owners |-> {}]
    /\ valid = {} /\ releasing = FALSE
    /\ uninstalling = {} /\ setup = "idle"

OwnerController(o) ==
    \/ SyncPlatformCR(o) \/ EnsureOwnerReads(o) \/ EnsureOwnerUpdates(o)
    \/ ProvisionModuleCRs(o) \/ Finalize(o) \/ RemoveFinalizer(o)

PlatformController ==
    \/ ReconcilePlatform(TRUE) \/ WaitForModuleCRDeletion \/ RemovePlatformFinalizer

GarbageCollector ==
    \/ \E m \in Modules : CollectCR(m) \/ CollectOperator(m)
    \/ DropReferences \/ CollectPlatform
    \/ \E x \in Objects : ForegroundDone(x)

ModuleOperator(m) == OperatorAdopts(m) \/ OperatorFinalizes(m)

Uninstall ==
    \/ MarkUninstallInProgress \/ RemoveDSC \/ WaitForDSC \/ RemoveDSCI \/ RemoveOperator

Users ==
    \/ \E o \in Owners : Create(o) \/ \E policy \in Policies[o] : UserDeletes(o, policy)
    \/ \E m \in Toggled : Toggle(m)
    \/ UserDeletesPlatform \/ RequestUninstall

Next ==
    \/ \E o \in Owners : StartReconcile(o) \/ OwnerController(o) \/ Interrupt(o)
    \/ PlatformController \/ ReconcilePlatform(FALSE) \/ InterruptPlatform
    \/ GarbageCollector
    \/ \E m \in Modules : ModuleOperator(m)
    \/ Uninstall \/ Users

Spec == Init /\ [][Next]_vars

\* A reconcile under way goes on; deletions are retried until they succeed; the
\* Platform controller watches everything it reads; the collector and the
\* deployed operators keep working.
Fairness ==
    /\ \A o \in Owners : WF_vars(OwnerController(o))
    /\ \A o \in Owners : SF_vars(RemoveFinalizer(o))
    /\ WF_vars(ReconcilePlatform(TRUE)) /\ WF_vars(WaitForModuleCRDeletion)
    /\ SF_vars(RemovePlatformFinalizer)
    /\ \A m \in Modules : WF_vars(CollectCR(m)) /\ WF_vars(CollectOperator(m)) /\ WF_vars(ModuleOperator(m))
    /\ WF_vars(CollectPlatform) /\ \A x \in Objects : WF_vars(ForegroundDone(x))
    /\ WF_vars(Uninstall)

FairSpec == Spec /\ Fairness

(***************************************************************************)
(* Properties                                                              *)
(***************************************************************************)

\* A reference to an owner that is not being deleted stays on the Platform as
\* long as the Platform does: the two controllers that merge their references
\* into the shared list never lose each other's
\* (EnsurePlatformOwnerReference).
OwnersKept ==
    [][\A o \in owners \ owners' : phase'["Platform"] = "absent" \/ phase[o] # "live"]_vars

\* While the Platform exists the operator of a module is not removed before
\* the module CR is gone, so that it can process the CR's finalizers
\* (waitForModuleCRDeletion and cleanupDisabledModules).
OperatorOutlivesCR ==
    [][\A m \in operator \ operator' : phase["Platform"] = "absent" \/ cr[m] = "absent"]_vars

\* Whatever the policies, and in an uninstall too: an operator goes before its
\* CR only if the Platform itself is deleted in the foreground, and then no
\* owner of the Platform is live.  A DSCI that is not being deleted keeps the
\* operators up until their CRs are gone (removeDSC deletes the DSC in the
\* foreground and relies on it).
AnchoredOperators ==
    [][\A m \in operator \ operator' : cr[m] # "absent" =>
          \/ phase["Platform"] = "absent"
          \/ Waiting("Platform") /\ \A o \in owners : phase[o] # "live"]_vars

\* A module CR that is being deleted goes: there is an operator to process its
\* finalizer, whichever of the DSC, the DSCI and the Platform go with it.  It is
\* about owners that are established: a DSC created while the DSCI goes may create
\* a CR after the Platform and its operators are gone.
FinalizersServed == \A m \in Modules : cr[m] = "deleting" ~> cr[m] # "deleting"

\* Once the DSC and the DSCI are gone the Platform they own goes too: the
\* finalizer that waits for the module CRs does not wait for ever.
TeardownCompletes ==
    (owners # {} /\ \A o \in Owners : phase[o] = "absent") ~> phase["Platform"] = "absent"

\* OperatorUninstall removes what it lists: when it has ended the DSC, the DSCI
\* and the Platform go (its doc comment and its closing log message).
UninstallIsComplete == (setup = "done") ~> \A x \in Objects : phase[x] = "absent"

=============================================================================
