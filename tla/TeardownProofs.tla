--------------------------- MODULE TeardownProofs ---------------------------
(***************************************************************************)
(* Proofs about Teardown, for any modules, deletion policies and switches. *)
(*                                                                         *)
(* Owner references: a copy that is still valid contains every reference   *)
(* the Platform has (ValidCopies), so an update that is not a conflict     *)
(* loses none.  Operators: the collector takes one from an existing        *)
(* Platform only if that is deleted in the foreground, which happens only  *)
(* once no owner of it is live (NoLiveOwner).  That stays so because the   *)
(* references of a Platform being deleted are left alone and an owner that *)
(* was there is not created again (OwnersWereCreated).                     *)
(*                                                                         *)
(* And about the Registries that order handlers for provisioning and for   *)
(* teardown, for any names, goroutines and number of registrations: what   *)
(* is cached is what the entries resolve to (CacheIsCurrent), and a        *)
(* registration that is under way has made a prefix of its calls           *)
(* (CallsInv).                                                             *)
(***************************************************************************)
EXTENDS Teardown, Registries, TLAPS

ForegroundIsDeleting == \A x \in fg : phase[x] = "deleting"

OwnersWereCreated ==
    /\ \A o \in Owners : phase[o] # "absent" => o \in created
    /\ \A o \in Owners : ctl[o] # "idle" => o \in created
    /\ owners \subseteq created
    /\ \A o \in Owners : copy[o] \subseteq created

ValidCopies ==
    \A o \in valid : ctl[o] = "update" /\ phase["Platform"] = "live" /\ owners \subseteq copy[o]

AbsentIsBare == phase["Platform"] = "absent" => owners = {}

NoLiveOwner == Waiting("Platform") => \A o \in owners : phase[o] # "live"

Inv ==
    /\ TypeOK
    /\ ForegroundIsDeleting
    /\ OwnersWereCreated
    /\ ValidCopies
    /\ AbsentIsBare
    /\ NoLiveOwner

\* The invariant holds initially.
LEMMA InitInv == Init => Inv
<1> SUFFICES ASSUME Init PROVE Inv
  OBVIOUS
<1> USE SwitchesAssumption DEF Init, Owners, Objects
<1>1. TypeOK
  BY Zenon DEF TypeOK, Modules, Of
<1>2. ForegroundIsDeleting
  BY DEF ForegroundIsDeleting
<1>3. OwnersWereCreated
  BY DEF OwnersWereCreated
<1>4. ValidCopies
  BY DEF ValidCopies
<1>5. AbsentIsBare
  BY DEF AbsentIsBare
<1>6. NoLiveOwner
  BY DEF NoLiveOwner, Waiting
<1> QED
  BY <1>1, <1>2, <1>3, <1>4, <1>5, <1>6 DEF Inv

\* Every step keeps the invariant.
LEMMA NextInv == Inv /\ [Next]_vars => Inv'
<1> SUFFICES ASSUME Inv, [Next]_vars PROVE Inv'
  OBVIOUS
<1> USE DEF Inv, TypeOK, ForegroundIsDeleting, OwnersWereCreated, ValidCopies, AbsentIsBare,
   NoLiveOwner, Waiting, Owners, Objects, ownerVars, platformVars, ctlVars, crVars
<1>a. UNCHANGED vars => Inv'
  BY DEF vars
<1>1. ASSUME NEW o \in Owners, StartReconcile(o) PROVE Inv'
  BY <1>1 DEF StartReconcile, At, Goto
<1>2. ASSUME NEW o \in Owners, SyncPlatformCR(o) PROVE Inv'
  BY <1>2, ZenonT(60) DEF SyncPlatformCR, ApplyPlatform, At, Goto
<1>3. ASSUME NEW o \in Owners, EnsureOwnerReads(o) PROVE Inv'
  <2>0. ctl[o] = "owner" /\ o \in created /\ o \notin valid
    BY <1>3 DEF EnsureOwnerReads, At
  <2>1. CASE phase["Platform"] = "live" /\ o \notin owners
    <3>0. /\ copy' = [copy EXCEPT ![o] = owners \cup {o}]
          /\ valid' = valid \cup {o}
          /\ ctl' = [ctl EXCEPT ![o] = "update"]
          /\ UNCHANGED <<phase, fin, fg, owners, managed, spec, created, uninstalling, setup,
                         desired, releasing, cr, operator, crds>>
      BY <1>3, <2>1 DEF EnsureOwnerReads, Goto
    <3>1. TypeOK'
      BY <2>0, <2>1, <3>0
    <3>2. ForegroundIsDeleting'
      BY <2>0, <2>1, <3>0
    <3>3. OwnersWereCreated'
      BY <2>0, <2>1, <3>0, ZenonT(60)
    <3>4. ValidCopies'
      BY <2>0, <2>1, <3>0
    <3>5. AbsentIsBare'
      BY <2>0, <2>1, <3>0
    <3>6. NoLiveOwner'
      BY <2>0, <2>1, <3>0
    <3> QED
      BY <3>1, <3>2, <3>3, <3>4, <3>5, <3>6 DEF Inv
  <2>2. CASE Goto(o, "crs") /\ UNCHANGED <<desired, copy, valid>>
    <3>0. UNCHANGED <<phase, fin, fg, owners, managed, spec, created, uninstalling, setup,
                      releasing, cr, operator, crds>>
      BY <1>3 DEF EnsureOwnerReads
    <3>1. TypeOK'
      BY <2>0, <2>2, <3>0 DEF Goto
    <3>2. ForegroundIsDeleting'
      BY <2>0, <2>2, <3>0 DEF Goto
    <3>3. OwnersWereCreated'
      BY <2>0, <2>2, <3>0 DEF Goto
    <3>4. ValidCopies'
      BY <2>0, <2>2, <3>0 DEF Goto
    <3>5. AbsentIsBare'
      BY <2>0, <2>2, <3>0 DEF Goto
    <3>6. NoLiveOwner'
      BY <2>0, <2>2, <3>0 DEF Goto
    <3> QED
      BY <3>1, <3>2, <3>3, <3>4, <3>5, <3>6 DEF Inv
  <2>3. CASE Return(o) /\ UNCHANGED valid
    <3>0. UNCHANGED <<phase, fin, fg, owners, managed, spec, created, uninstalling, setup,
                      releasing, cr, operator, crds>>
      BY <1>3 DEF EnsureOwnerReads
    <3>1. TypeOK'
      BY <2>0, <2>3, <3>0 DEF Goto, Return
    <3>2. ForegroundIsDeleting'
      BY <2>0, <2>3, <3>0 DEF Goto, Return
    <3>3. OwnersWereCreated'
      BY <2>0, <2>3, <3>0 DEF Goto, Return
    <3>4. ValidCopies'
      BY <2>0, <2>3, <3>0 DEF Goto, Return
    <3>5. AbsentIsBare'
      BY <2>0, <2>3, <3>0 DEF Goto, Return
    <3>6. NoLiveOwner'
      BY <2>0, <2>3, <3>0 DEF Goto, Return
    <3> QED
      BY <3>1, <3>2, <3>3, <3>4, <3>5, <3>6 DEF Inv
  <2> QED
    BY <1>3, <2>1, <2>2, <2>3, Zenon DEF EnsureOwnerReads
<1>4. ASSUME NEW o \in Owners, EnsureOwnerUpdates(o) PROVE Inv'
  <2>0. /\ ctl[o] = "update" /\ o \in created
        /\ copy' = [copy EXCEPT ![o] = {}]
        /\ UNCHANGED <<phase, fin, fg, spec, created, uninstalling, setup, desired, releasing,
                       cr, operator, crds>>
    BY <1>4 DEF EnsureOwnerUpdates, At
  <2>1. CASE /\ o \in valid /\ owners' = copy[o] /\ valid' = {} /\ managed' = managed
             /\ ctl' = [ctl EXCEPT ![o] = "crs"]
    <3>1. TypeOK'
      BY <2>0, <2>1
    <3>2. ForegroundIsDeleting'
      BY <2>0, <2>1
    <3>3. OwnersWereCreated'
      BY <2>0, <2>1
    <3>4. ValidCopies'
      BY <2>0, <2>1
    <3>5. AbsentIsBare'
      BY <2>0, <2>1
    <3>6. NoLiveOwner'
      BY <2>0, <2>1
    <3> QED
      BY <3>1, <3>2, <3>3, <3>4, <3>5, <3>6 DEF Inv
  <2>2. CASE /\ o \notin valid /\ UNCHANGED <<owners, managed, valid>>
             /\ ctl' = [ctl EXCEPT ![o] = "owner"]
    <3>1. TypeOK'
      BY <2>0, <2>2
    <3>2. ForegroundIsDeleting'
      BY <2>0, <2>2
    <3>3. OwnersWereCreated'
      BY <2>0, <2>2
    <3>4. ValidCopies'
      BY <2>0, <2>2
    <3>5. AbsentIsBare'
      BY <2>0, <2>2
    <3>6. NoLiveOwner'
      BY <2>0, <2>2
    <3> QED
      BY <3>1, <3>2, <3>3, <3>4, <3>5, <3>6 DEF Inv
  <2> QED
    BY <1>4, <2>1, <2>2, Zenon DEF EnsureOwnerUpdates, Goto, PlatformChanges
<1>5. ASSUME NEW o \in Owners, ProvisionModuleCRs(o) PROVE Inv'
  BY <1>5, Zenon DEF ProvisionModuleCRs, DeletedCR, At, Goto, Return
<1>6. ASSUME NEW o \in Owners, Finalize(o) PROVE Inv'
  <2>0. /\ ctl[o] = "idle" /\ o \in created /\ o \notin valid
        /\ ctl' = [ctl EXCEPT ![o] = "release"]
        /\ UNCHANGED <<fin, fg, spec, created, uninstalling, setup, desired, copy, releasing,
                       cr, operator, crds>>
    BY <1>6 DEF Finalize, At, Goto
  <2>1. CASE ApplyPlatform(o, {})
    <3>1. TypeOK'
      BY <2>0, <2>1, Zenon DEF ApplyPlatform
    <3>2. ForegroundIsDeleting'
      BY <2>0, <2>1 DEF ApplyPlatform
    <3>3. OwnersWereCreated'
      BY <2>0, <2>1 DEF ApplyPlatform
    <3>4. ValidCopies'
      BY <2>0, <2>1, Zenon DEF ApplyPlatform
    <3>5. AbsentIsBare'
      BY <2>0, <2>1 DEF ApplyPlatform
    <3>6. NoLiveOwner'
      BY <2>0, <2>1 DEF ApplyPlatform
    <3> QED
      BY <3>1, <3>2, <3>3, <3>4, <3>5, <3>6 DEF Inv
  <2>2. CASE UNCHANGED <<phase, owners, managed, valid>>
    <3>1. TypeOK'
      BY <2>0, <2>2, Zenon
    <3>2. ForegroundIsDeleting'
      BY <2>0, <2>2
    <3>3. OwnersWereCreated'
      BY <2>0, <2>2
    <3>4. ValidCopies'
      BY <2>0, <2>2
    <3>5. AbsentIsBare'
      BY <2>0, <2>2
    <3>6. NoLiveOwner'
      BY <2>0, <2>2
    <3> QED
      BY <3>1, <3>2, <3>3, <3>4, <3>5, <3>6 DEF Inv
  <2> QED
    BY <1>6, <2>1, <2>2, Zenon DEF Finalize
<1>7. ASSUME NEW o \in Owners, RemoveFinalizer(o) PROVE Inv'
  BY <1>7 DEF RemoveFinalizer, Release, At, Goto
<1>8. ASSUME NEW o \in Owners, Interrupt(o) PROVE Inv'
  BY <1>8 DEF Interrupt, Goto, Return
<1>9. ASSUME NEW s \in BOOLEAN, ReconcilePlatform(s) PROVE Inv'
  BY <1>9 DEF ReconcilePlatform, Wanted
<1>10. WaitForModuleCRDeletion => Inv'
  BY DEF WaitForModuleCRDeletion, DeletedCR
<1>11. ASSUME RemovePlatformFinalizer PROVE Inv'
  <2> USE <1>11 DEF RemovePlatformFinalizer, Release, PlatformFollows, PlatformChanges
  <2>1. TypeOK'
    BY Zenon
  <2>2. ForegroundIsDeleting'
    OBVIOUS
  <2>3. OwnersWereCreated'
    BY Zenon
  <2>4. ValidCopies'
    OBVIOUS
  <2>5. AbsentIsBare'
    OBVIOUS
  <2>6. NoLiveOwner'
    BY Zenon
  <2> QED
    BY <2>1, <2>2, <2>3, <2>4, <2>5, <2>6, Zenon DEF Inv
<1>12. ASSUME InterruptPlatform PROVE Inv'
  <2> USE <1>12 DEF InterruptPlatform
  <2>1. TypeOK'
    BY Zenon
  <2>2. ForegroundIsDeleting' /\ OwnersWereCreated' /\ ValidCopies'
    BY Zenon
  <2>3. AbsentIsBare' /\ NoLiveOwner'
    BY Zenon
  <2> QED
    BY <2>1, <2>2, <2>3, Zenon DEF Inv
<1>13. ASSUME NEW m \in Modules, OperatorAdopts(m) PROVE Inv'
  BY <1>13 DEF OperatorAdopts
<1>14. ASSUME NEW m \in Modules, OperatorFinalizes(m) PROVE Inv'
  BY <1>14 DEF OperatorFinalizes
<1>15. ASSUME NEW m \in Modules, CollectCR(m) PROVE Inv'
  BY <1>15 DEF CollectCR, DeletedCR
<1>16. ASSUME NEW m \in Modules, CollectOperator(m) PROVE Inv'
  BY <1>16 DEF CollectOperator
<1>17. ASSUME DropReferences PROVE Inv'
  <2> USE <1>17 DEF DropReferences, PlatformChanges
  <2>1. TypeOK'
    BY Zenon
  <2>2. ForegroundIsDeleting'
    OBVIOUS
  <2>3. OwnersWereCreated'
    BY Zenon
  <2>4. ValidCopies'
    BY Zenon
  <2>5. AbsentIsBare'
    OBVIOUS
  <2>6. NoLiveOwner'
    OBVIOUS
  <2> QED
    BY <2>1, <2>2, <2>3, <2>4, <2>5, <2>6, Zenon DEF Inv
<1>18. ASSUME CollectPlatform PROVE Inv'
  <2> USE <1>18 DEF CollectPlatform, Delete, Solid, PlatformFollows, PlatformChanges
  <2>1. TypeOK'
    BY Zenon
  <2>2. ForegroundIsDeleting'
    OBVIOUS
  <2>3. OwnersWereCreated'
    BY Zenon
  <2>4. ValidCopies'
    BY Zenon
  <2>5. AbsentIsBare'
    BY Zenon
  <2>6. NoLiveOwner'
    BY Zenon
  <2> QED
    BY <2>1, <2>2, <2>3, <2>4, <2>5, <2>6, Zenon DEF Inv
<1>19. ASSUME NEW x \in Objects, ForegroundDone(x) PROVE Inv'
  BY <1>19, ZenonT(60) DEF ForegroundDone, Release, PlatformFollows, PlatformChanges
<1>20. ASSUME NEW o \in Owners, Create(o) PROVE Inv'
  BY <1>20 DEF Create
<1>21. ASSUME NEW m \in Modules, Toggle(m) PROVE Inv'
  BY <1>21, Zenon DEF Toggle
<1>22. ASSUME NEW o \in Owners, NEW policy \in Policies[o], UserDeletes(o, policy) PROVE Inv'
  BY <1>22, Zenon DEF UserDeletes, Delete
<1>23. ASSUME UserDeletesPlatform PROVE Inv'
  <2> USE <1>23 DEF UserDeletesPlatform, Delete, PlatformFollows, PlatformChanges
  <2>1. TypeOK'
    BY Zenon
  <2>2. ForegroundIsDeleting'
    OBVIOUS
  <2>3. OwnersWereCreated'
    BY Zenon
  <2>4. ValidCopies'
    OBVIOUS
  <2>5. AbsentIsBare'
    OBVIOUS
  <2>6. NoLiveOwner'
    OBVIOUS
  <2> QED
    BY <2>1, <2>2, <2>3, <2>4, <2>5, <2>6, Zenon DEF Inv
<1>24. RequestUninstall => Inv'
  BY DEF RequestUninstall
<1>25. MarkUninstallInProgress => Inv'
  BY DEF MarkUninstallInProgress
<1>26. ASSUME RemoveDSC PROVE Inv'
  <2> USE <1>26 DEF RemoveDSC, DeleteAllOf
  <2>1. CASE UNCHANGED <<phase, fg, uninstalling>>
    BY <2>1, Zenon
  <2>2. CASE phase["DSC"] # "absent" /\ Delete("DSC", "Foreground")
    <3>1. fg' = fg \cup {"DSC"} /\ phase' = [phase EXCEPT !["DSC"] = "deleting"] /\ uninstalling' = uninstalling
      BY <2>2, Zenon DEF Delete
    <3> QED
      BY <2>2, <3>1, Zenon
  <2> QED
    BY <2>1, <2>2, Zenon
<1>27. WaitForDSC => Inv'
  BY DEF WaitForDSC
<1>28. ASSUME RemoveDSCI PROVE Inv'
  <2> USE <1>28 DEF RemoveDSCI, DeleteAllOf
  <2>1. CASE UNCHANGED <<phase, fg, uninstalling>>
    BY <2>1, Zenon
  <2>2. CASE phase["DSCI"] # "absent" /\ Delete("DSCI", "Foreground")
    <3>1. fg' = fg \cup {"DSCI"} /\ phase' = [phase EXCEPT !["DSCI"] = "deleting"] /\ uninstalling' = uninstalling
      BY <2>2, Zenon DEF Delete
    <3> QED
      BY <2>2, <3>1
  <2> QED
    BY <2>1, <2>2, Zenon
<1>29. RemoveOperator => Inv'
  BY DEF RemoveOperator
<1> QED
  BY SwitchesAssumption, <1>a, <1>1, <1>2, <1>3, <1>4, <1>5, <1>6, <1>7, <1>8, <1>9, <1>10, <1>11,
     <1>12, <1>13, <1>14, <1>15, <1>16, <1>17, <1>18, <1>19, <1>20, <1>21, <1>22, <1>23, <1>24,
     <1>25, <1>26, <1>27, <1>28, <1>29, ZenonT(60) DEF Next, OwnerController, PlatformController,
     GarbageCollector, ModuleOperator, Uninstall, Users

\* The invariant: valid copies keep every reference, and a Platform deleted in
\* the foreground has no live owner.
THEOREM Invariance == Spec => []Inv
  BY InitInv, NextInv, PTL DEF Spec

\* The types hold in every behaviour.
THEOREM TypeCorrect == Spec => []TypeOK
  BY Invariance, PTL DEF Inv

\* Only an update of the references, the collector or the end of the Platform
\* changes them.
LEMMA OwnersKeptStep ==
    ASSUME Inv, [Next]_vars
    PROVE  \A o \in owners \ owners' : phase'["Platform"] = "absent" \/ phase[o] # "live"
<1> USE DEF Inv, TypeOK, ValidCopies, ownerVars, ctlVars, crVars, platformVars
<1>1. CASE \E o \in Owners : EnsureOwnerUpdates(o)
  BY <1>1 DEF EnsureOwnerUpdates, PlatformChanges
<1>2. CASE DropReferences
  BY <1>2, Zenon DEF DropReferences, PlatformChanges, Solid, Waiting
<1>3. CASE RemovePlatformFinalizer \/ CollectPlatform \/ UserDeletesPlatform
  BY <1>3, Zenon DEF RemovePlatformFinalizer, CollectPlatform, UserDeletesPlatform, PlatformFollows, PlatformChanges
<1>4. CASE \E x \in Objects : ForegroundDone(x)
  BY <1>4, Zenon DEF ForegroundDone, PlatformFollows, PlatformChanges
<1>5. CASE UNCHANGED owners
  BY <1>5
<1> QED
  BY <1>1, <1>2, <1>3, <1>4, <1>5, Zenon DEF Next, OwnerController, PlatformController, GarbageCollector,
     ModuleOperator, Uninstall, Users, StartReconcile, SyncPlatformCR, ApplyPlatform, EnsureOwnerReads,
     ProvisionModuleCRs, Finalize, RemoveFinalizer, Interrupt, ReconcilePlatform,
     WaitForModuleCRDeletion, InterruptPlatform, OperatorAdopts, OperatorFinalizes, CollectCR,
     CollectOperator, Create, Toggle, UserDeletes, RequestUninstall, MarkUninstallInProgress,
     RemoveDSC, WaitForDSC, RemoveDSCI, RemoveOperator, vars

\* EnsurePlatformOwnerReference: neither controller loses the reference of the
\* other, however their reads and updates interleave.
THEOREM NoReferenceLost == Spec => OwnersKept
<1>1. Inv /\ [Next]_vars => [\A o \in owners \ owners' : phase'["Platform"] = "absent" \/ phase[o] # "live"]_vars
  BY OwnersKeptStep
<1> QED
  BY <1>1, Invariance, PTL DEF Spec, OwnersKept

\* Operators go by the chain of the Platform controller, which keeps the ones
\* whose CR exists, or by the collector.
LEMMA OperatorStep ==
    ASSUME Inv, [Next]_vars
    PROVE  \A m \in operator \ operator' : cr[m] = "absent" \/ ~Solid("Platform")
<1> USE DEF Inv, TypeOK, ownerVars, ctlVars, crVars, platformVars
<1>1. CASE \E s \in BOOLEAN : ReconcilePlatform(s)
  BY <1>1 DEF ReconcilePlatform, Wanted
<1>2. CASE \E m \in Modules : CollectOperator(m)
  BY <1>2 DEF CollectOperator
<1>3. CASE UNCHANGED operator
  BY <1>3
<1> QED
  BY <1>1, <1>2, <1>3, Zenon DEF Next, OwnerController, PlatformController, GarbageCollector,
     ModuleOperator, Uninstall, Users, StartReconcile, SyncPlatformCR, EnsureOwnerReads,
     EnsureOwnerUpdates, ProvisionModuleCRs, Finalize, RemoveFinalizer, Interrupt,
     WaitForModuleCRDeletion, RemovePlatformFinalizer, InterruptPlatform, OperatorAdopts,
     OperatorFinalizes, CollectCR, DropReferences, CollectPlatform, ForegroundDone, Create, Toggle,
     UserDeletes, UserDeletesPlatform, RequestUninstall, MarkUninstallInProgress, RemoveDSC,
     WaitForDSC, RemoveDSCI, RemoveOperator, vars

\* AnchoredByOwners: with any deletion policies, and in an uninstall, whose
\* deletions are in the foreground, an operator goes before its CR only with a
\* Platform that is deleted in the foreground and has no live owner.
THEOREM AnchoredByOwners == Spec => AnchoredOperators
<1>1. Inv /\ [Next]_vars =>
         [\A m \in operator \ operator' : cr[m] # "absent" =>
             \/ phase["Platform"] = "absent"
             \/ Waiting("Platform") /\ \A o \in owners : phase[o] # "live"]_vars
  BY OperatorStep DEF Inv, NoLiveOwner, Solid
<1> QED
  BY <1>1, Invariance, PTL DEF Spec, AnchoredOperators

-----------------------------------------------------------------------------
\* The registries

NamesIn(list) == IF list = "unified" THEN AllNames ELSE NamesOf(list)

RegEntries == {NotRegistered} \cup [is : {"entry"}, on : BOOLEAN, level : Runlevels]

\* The shape of a registry's state.
RegTyped(r) ==
  /\ r = [entries |-> r.entries, cache |-> r.cache, calls |-> r.calls, events |-> r.events,
          reader |-> r.reader, answer |-> r.answer]
  /\ r.entries = [l \in Lists |-> r.entries[l]]
  /\ \A l \in Lists : r.entries[l] \in [NamesIn(l) -> RegEntries]
  /\ r.cache = [l \in Lists |-> r.cache[l]]
  /\ r.reader \in [Readers -> Lists \cup {"idle"}]
  /\ r.answer = [g \in Readers |-> r.answer[g]]

\* What is cached is what the entries resolve to.
CacheIsCurrent ==
  \A l \in Lists : reg.cache[l] \in {NoBatches, BatchesOf(reg.entries[l], Enabled(reg.entries[l]))}

\* The calls of a registration that are still to be made, and what those made
\* before have left.
Made(kind, name, level, on) ==
  LET add(list) == [do |-> "add", list |-> list, name |-> name, level |-> level]
      disable(list) == [do |-> "disable", list |-> list, name |-> name]
  IN  \/ reg.calls = Calls(kind, name, level, on)
      \/ /\ reg.calls = IF on THEN <<add("unified")>> ELSE <<add("unified"), disable(kind), disable("unified")>>
         /\ reg.entries[kind][name] = Entry(level)
      \/ /\ ~on /\ reg.calls = <<disable(kind), disable("unified")>>
         /\ reg.entries[kind][name] = Entry(level) /\ reg.entries["unified"][name] = Entry(level)
      \/ /\ ~on /\ reg.calls = <<disable("unified")>>
         /\ reg.entries[kind][name] = [Entry(level) EXCEPT !.on = FALSE]
         /\ reg.entries["unified"][name] = Entry(level)

AgreeOn(kind, n) == reg.entries["unified"][n] = reg.entries[kind][n]

CallsInv ==
  /\ UnifiedAgrees
  /\ reg.calls # <<>> =>
       \E kind \in Kinds : \E name \in NamesOf(kind), level \in Runlevels, on \in BOOLEAN :
         /\ Made(kind, name, level, on)
         /\ \A k \in Kinds : \A n \in NamesOf(k) \ {name} : AgreeOn(k, n)

RegInv == RegTyped(reg) /\ CacheIsCurrent /\ CallsInv

\* A switch changes one entry, of one registry, and nothing that is cached of it
\* is left.
LEMMA SwitchResult ==
  ASSUME NEW r, RegTyped(r), NEW list \in Lists, NEW name \in NamesIn(list), NEW on \in BOOLEAN,
         NEW s, s = setEnabledLocked(r, list, name, on)
  PROVE  /\ RegTyped(s) /\ s.calls = r.calls /\ s.reader = r.reader /\ s.answer = r.answer
         /\ \A l \in Lists : s.cache[l] = NoBatches \/ (s.cache[l] = r.cache[l] /\ s.entries[l] = r.entries[l])
         /\ \A l \in Lists, n \in AllNames : (l # list \/ n # name) /\ n \in NamesIn(l) => s.entries[l][n] = r.entries[l][n]
         /\ r.entries[list][name] = NotRegistered => s.entries[list][name] = NotRegistered
         /\ r.entries[list][name] # NotRegistered => s.entries[list][name] = [r.entries[list][name] EXCEPT !.on = on]
<1>1. CASE r.entries[list][name] = NotRegistered
  BY <1>1 DEF setEnabledLocked
<1>2. CASE r.entries[list][name] # NotRegistered
  <2> DEFINE e == [r.entries[list][name] EXCEPT !.on = on]
             E == [l \in Lists |-> IF l = list THEN [r.entries[l] EXCEPT ![name] = e] ELSE r.entries[l]]
             C == [l \in Lists |-> IF l \in {list, "unified"} THEN NoBatches ELSE r.cache[l]]
  <2>1. e \in RegEntries
    BY <1>2 DEF RegTyped, RegEntries
  <2>2. s = [entries |-> E, cache |-> C, calls |-> r.calls, events |-> r.events,
             reader |-> r.reader, answer |-> r.answer]
    BY <1>2, Zenon DEF setEnabledLocked, InvalidateCache, RegTyped, Lists
  <2>3. \A l \in Lists : E[l] \in [NamesIn(l) -> RegEntries]
    BY <2>1 DEF RegTyped
  <2> QED
    BY <1>2, <2>2, <2>3, SMT, SMTT(60) DEF RegTyped
<1> QED
  BY <1>1, <1>2

\* An addition sets one entry, of one registry, and nothing that is cached of it is left.
LEMMA AddResult ==
  ASSUME NEW r, RegTyped(r), NEW list \in Lists, NEW name \in NamesIn(list), NEW level \in Runlevels,
         NEW s, s = AddToRegistry(r, list, name, level)
  PROVE  /\ RegTyped(s) /\ s.calls = r.calls /\ s.reader = r.reader /\ s.answer = r.answer
         /\ \A l \in Lists : s.cache[l] = NoBatches \/ (s.cache[l] = r.cache[l] /\ s.entries[l] = r.entries[l])
         /\ \A l \in Lists, n \in AllNames : (l # list \/ n # name) /\ n \in NamesIn(l) => s.entries[l][n] = r.entries[l][n]
         /\ s.entries[list][name] = Entry(level)
<1> DEFINE E == [l \in Lists |-> IF l = list THEN [r.entries[l] EXCEPT ![name] = Entry(level)] ELSE r.entries[l]]
           C == [l \in Lists |-> IF l \in {list, "unified"} THEN NoBatches ELSE r.cache[l]]
<1>1. Entry(level) \in RegEntries
  BY DEF Entry, RegEntries
<1>2. s = [entries |-> E, cache |-> C, calls |-> r.calls, events |-> r.events,
           reader |-> r.reader, answer |-> r.answer]
  BY Zenon DEF AddToRegistry, InvalidateCache, RegTyped, Lists
<1>3. \A l \in Lists : E[l] \in [NamesIn(l) -> RegEntries]
  BY <1>1, Zenon DEF RegTyped
<1> QED
  BY <1>2, <1>3, SMT, SMTT(60) DEF RegTyped

\* A cache that is dropped wherever its entries change stays current.
LEMMA CacheKept ==
  ASSUME RegInv,
         \A l \in Lists : \/ reg'.cache[l] = NoBatches
                          \/ reg'.cache[l] = reg.cache[l] /\ reg'.entries[l] = reg.entries[l]
  PROVE  CacheIsCurrent'
BY Zenon DEF RegInv, CacheIsCurrent

\* No component has the name of a module, so a name is of one kind.
LEMMA NamesApart ==
  /\ \A kind \in Kinds : kind \in Lists /\ kind # "unified" /\ NamesIn(kind) = NamesOf(kind)
  /\ \A kind \in Kinds : NamesOf(kind) \subseteq AllNames
  /\ "unified" \in Lists /\ NamesIn("unified") = AllNames
  /\ \A j, k \in Kinds : j # k => NamesOf(j) \cap NamesOf(k) = {}
BY NamesAssumption DEF Kinds, Lists, NamesIn, NamesOf, AllNames

\* A step that leaves the entries and the calls under way alone keeps what is known of them.
LEMMA CallsStay ==
  ASSUME CallsInv, reg'.entries = reg.entries, reg'.calls = reg.calls
  PROVE  CallsInv'
<1>1. UnifiedAgrees' /\ \A k \in Kinds, n \in AllNames : AgreeOn(k, n)' <=> AgreeOn(k, n)
  BY SMT, SMTT(60) DEF CallsInv, UnifiedAgrees, AgreeOn
<1>2. ASSUME NEW kind, NEW name, NEW level, NEW on, Made(kind, name, level, on)
      PROVE  Made(kind, name, level, on)'
  BY <1>2, Zenon DEF Made
<1>3. \A k \in Kinds : NamesOf(k) \subseteq AllNames
  BY NamesApart, Zenon
<1>4. ASSUME reg.calls # <<>>
      PROVE  \E kind \in Kinds : \E name \in NamesOf(kind), level \in Runlevels, on \in BOOLEAN :
               /\ Made(kind, name, level, on)'
               /\ \A k \in Kinds : \A n \in NamesOf(k) \ {name} : AgreeOn(k, n)'
  <2> PICK kind \in Kinds : \E name \in NamesOf(kind), level \in Runlevels, on \in BOOLEAN :
             /\ Made(kind, name, level, on)
             /\ \A k \in Kinds : \A n \in NamesOf(k) \ {name} : AgreeOn(k, n)
    BY <1>4, Zenon DEF CallsInv
  <2> PICK name \in NamesOf(kind), level \in Runlevels, on \in BOOLEAN :
             /\ Made(kind, name, level, on)
             /\ \A k \in Kinds : \A n \in NamesOf(k) \ {name} : AgreeOn(k, n)
    BY Zenon
  <2>1. Made(kind, name, level, on)'
    BY <1>2, Zenon
  <2>2. \A k \in Kinds : \A n \in NamesOf(k) \ {name} : AgreeOn(k, n)'
    BY <1>1, <1>3, Zenon
  <2> QED
    BY <2>1, <2>2
<1> QED
  BY <1>1, <1>4, Zenon DEF CallsInv

\* A goroutine that asks changes no entry, and is handed what the entries resolve to.
LEMMA ReadersKeep ==
  ASSUME RegInv, NEW g \in Readers,
         ForEach(g) \/ ResolvedBatches(g) \/ \E l \in Lists : AskHit(g, l) \/ AskMiss(g, l)
  PROVE  /\ RegInv'
         /\ \A h \in Readers : reg'.answer[h] # reg.answer[h] /\ reg'.answer[h].list # "none" =>
              reg'.answer[h].batches = BatchesOf(reg'.entries[reg'.answer[h].list],
                                                 Enabled(reg'.entries[reg'.answer[h].list]))
<1>0. RegTyped(reg) /\ CacheIsCurrent /\ CallsInv
  BY DEF RegInv
<1>1. ASSUME reg'.entries = reg.entries, reg'.calls = reg.calls PROVE CallsInv'
  BY <1>0, <1>1, CallsStay, Zenon
<1>2. CASE \E l \in Lists : AskHit(g, l)
  <2> PICK l \in Lists : AskHit(g, l)
    BY <1>2
  <2>1. reg' = [entries |-> reg.entries, cache |-> reg.cache, calls |-> reg.calls, events |-> reg.events,
                reader |-> reg.reader,
                answer |-> [h \in Readers |-> IF h = g THEN [list |-> l, batches |-> reg.cache[l]] ELSE reg.answer[h]]]
    BY <1>0, SMT, SMTT(60) DEF AskHit, RegTyped
  <2>2. RegTyped(reg')
    BY <1>0, <2>1, Zenon DEF RegTyped
  <2>3. CacheIsCurrent'
    BY <1>0, <2>1, Zenon DEF CacheIsCurrent
  <2>4. reg.cache[l] = BatchesOf(reg.entries[l], Enabled(reg.entries[l]))
    BY <1>0 DEF CacheIsCurrent, AskHit
  <2> QED
    BY <1>1, <2>1, <2>2, <2>3, <2>4, Zenon DEF RegInv, RegTyped
<1>3. CASE \E l \in Lists : AskMiss(g, l)
  <2> PICK l \in Lists : AskMiss(g, l)
    BY <1>3
  <2>1. reg' = [entries |-> reg.entries, cache |-> reg.cache, calls |-> reg.calls, events |-> reg.events,
                reader |-> [reg.reader EXCEPT ![g] = l],
                answer |-> [h \in Readers |-> IF h = g THEN [list |-> "none", batches |-> NoBatches] ELSE reg.answer[h]]]
    BY <1>0, Zenon DEF AskMiss, RegTyped
  <2>2. RegTyped(reg')
    BY <1>0, <2>1, Zenon DEF RegTyped
  <2>3. CacheIsCurrent'
    BY <1>0, <2>1, Zenon DEF CacheIsCurrent
  <2> QED
    BY <1>1, <2>1, <2>2, <2>3, Zenon DEF RegInv, RegTyped
<1>4. CASE ResolvedBatches(g)
  <2> DEFINE l == reg.reader[g]
             filled == resolvedBatchesLocked(reg, l)
  <2>1. l \in Lists
    BY <1>0, <1>4 DEF ResolvedBatches, RegTyped
  <2>2. /\ filled = [entries |-> reg.entries, cache |-> filled.cache, calls |-> reg.calls, events |-> reg.events,
                     reader |-> reg.reader, answer |-> reg.answer]
        /\ filled.cache = [k \in Lists |-> filled.cache[k]]
        /\ \A k \in Lists : filled.cache[k] \in {NoBatches, BatchesOf(reg.entries[k], Enabled(reg.entries[k]))}
        /\ filled.cache[l] = BatchesOf(reg.entries[l], Enabled(reg.entries[l]))
    BY <1>0, <2>1, Zenon DEF resolvedBatchesLocked, RegTyped, CacheIsCurrent
  <2>3. reg' = [filled EXCEPT !.reader[g] = "idle", !.answer[g] = [list |-> l, batches |-> filled.cache[l]]]
    BY <1>4 DEF ResolvedBatches
  <2> HIDE DEF filled
  <2>4. reg' = [entries |-> reg.entries, cache |-> filled.cache, calls |-> reg.calls, events |-> reg.events,
                reader |-> [reg.reader EXCEPT ![g] = "idle"],
                answer |-> [h \in Readers |-> IF h = g THEN [list |-> l, batches |-> filled.cache[l]] ELSE reg.answer[h]]]
    <3>1. /\ filled.entries = reg.entries /\ filled.calls = reg.calls /\ filled.events = reg.events
          /\ filled.reader = reg.reader /\ filled.answer = reg.answer
      BY <2>2
    <3>2. reg' = [entries |-> filled.entries, cache |-> filled.cache, calls |-> filled.calls, events |-> filled.events,
                  reader |-> [filled.reader EXCEPT ![g] = "idle"],
                  answer |-> [filled.answer EXCEPT ![g] = [list |-> l, batches |-> filled.cache[l]]]]
      BY <2>2, <2>3, Zenon
    <3>3. [reg.answer EXCEPT ![g] = [list |-> l, batches |-> filled.cache[l]]]
            = [h \in Readers |-> IF h = g THEN [list |-> l, batches |-> filled.cache[l]] ELSE reg.answer[h]]
      BY <1>0, Zenon DEF RegTyped
    <3> QED
      BY <3>1, <3>2, <3>3, Zenon
  <2>5. RegTyped(reg')
    BY <1>0, <2>2, <2>4, Zenon DEF RegTyped
  <2>6. CacheIsCurrent'
    BY <2>2, <2>4, Zenon DEF CacheIsCurrent
  <2> QED
    BY <1>1, <2>2, <2>4, <2>5, <2>6, Zenon DEF RegInv, RegTyped
<1>5. CASE ForEach(g)
  <2> DEFINE l == "component"
             filled == resolvedBatchesLocked(reg, l)
  <2>1. l \in Lists
    BY DEF Lists, Kinds
  <2>2. /\ filled = [entries |-> reg.entries, cache |-> filled.cache, calls |-> reg.calls, events |-> reg.events,
                     reader |-> reg.reader, answer |-> reg.answer]
        /\ filled.cache = [k \in Lists |-> filled.cache[k]]
        /\ \A k \in Lists : filled.cache[k] \in {NoBatches, BatchesOf(reg.entries[k], Enabled(reg.entries[k]))}
        /\ filled.cache[l] = BatchesOf(reg.entries[l], Enabled(reg.entries[l]))
    BY <1>0, <2>1, Zenon DEF resolvedBatchesLocked, RegTyped, CacheIsCurrent
  <2>3. reg' = [filled EXCEPT !.answer[g] = [list |-> l, batches |-> filled.cache[l]]]
    BY <1>5 DEF ForEach
  <2> HIDE DEF filled
  <2>4. reg' = [entries |-> reg.entries, cache |-> filled.cache, calls |-> reg.calls, events |-> reg.events,
                reader |-> reg.reader,
                answer |-> [h \in Readers |-> IF h = g THEN [list |-> l, batches |-> filled.cache[l]] ELSE reg.answer[h]]]
    <3>1. /\ filled.entries = reg.entries /\ filled.calls = reg.calls /\ filled.events = reg.events
          /\ filled.reader = reg.reader /\ filled.answer = reg.answer
      BY <2>2
    <3>2. reg' = [entries |-> filled.entries, cache |-> filled.cache, calls |-> filled.calls, events |-> filled.events,
                  reader |-> filled.reader,
                  answer |-> [filled.answer EXCEPT ![g] = [list |-> l, batches |-> filled.cache[l]]]]
      BY <2>2, <2>3, Zenon
    <3>3. [reg.answer EXCEPT ![g] = [list |-> l, batches |-> filled.cache[l]]]
            = [h \in Readers |-> IF h = g THEN [list |-> l, batches |-> filled.cache[l]] ELSE reg.answer[h]]
      BY <1>0, Zenon DEF RegTyped
    <3> QED
      BY <3>1, <3>2, <3>3, Zenon
  <2>5. RegTyped(reg')
    BY <1>0, <2>1, <2>2, <2>4, Zenon DEF RegTyped
  <2>6. CacheIsCurrent'
    BY <2>2, <2>4, Zenon DEF CacheIsCurrent
  <2> QED
    BY <1>1, <2>2, <2>4, <2>5, <2>6, Zenon DEF RegInv, RegTyped
<1> QED
  BY <1>2, <1>3, <1>4, <1>5, Zenon

\* A switch is made in both registries or, of a handler that is not there, in none.
LEMMA SwitchKeeps ==
  ASSUME RegInv, SwitchHandler
  PROVE  RegInv' /\ reg'.answer = reg.answer
<1>0. RegTyped(reg) /\ CacheIsCurrent /\ CallsInv
  BY DEF RegInv
<1> PICK kind \in Kinds : \E name \in NamesOf(kind), on \in BOOLEAN :
       reg' = [setEnabledLocked(setEnabledLocked(reg, kind, name, on), "unified", name, on) EXCEPT !.events = @ + 1]
  BY DEF SwitchHandler
<1> PICK name \in NamesOf(kind), on \in BOOLEAN :
       reg' = [setEnabledLocked(setEnabledLocked(reg, kind, name, on), "unified", name, on) EXCEPT !.events = @ + 1]
  OBVIOUS
<1> DEFINE a == setEnabledLocked(reg, kind, name, on)
           b == setEnabledLocked(a, "unified", name, on)
<1>1. /\ RegTyped(a) /\ a.calls = reg.calls /\ a.answer = reg.answer
      /\ \A l \in Lists : a.cache[l] = NoBatches \/ (a.cache[l] = reg.cache[l] /\ a.entries[l] = reg.entries[l])
      /\ \A l \in Lists, n \in AllNames :
           (l # kind \/ n # name) /\ n \in NamesIn(l) => a.entries[l][n] = reg.entries[l][n]
      /\ reg.entries[kind][name] = NotRegistered => a.entries[kind][name] = NotRegistered
      /\ reg.entries[kind][name] # NotRegistered =>
           a.entries[kind][name] = [reg.entries[kind][name] EXCEPT !.on = on]
  BY <1>0, NamesApart, SwitchResult
<1> HIDE DEF a
<1>2. /\ RegTyped(b) /\ b.calls = a.calls /\ b.answer = a.answer
      /\ \A l \in Lists : b.cache[l] = NoBatches \/ (b.cache[l] = a.cache[l] /\ b.entries[l] = a.entries[l])
      /\ \A l \in Lists, n \in AllNames :
           (l # "unified" \/ n # name) /\ n \in NamesIn(l) => b.entries[l][n] = a.entries[l][n]
      /\ a.entries["unified"][name] = NotRegistered => b.entries["unified"][name] = NotRegistered
      /\ a.entries["unified"][name] # NotRegistered =>
           b.entries["unified"][name] = [a.entries["unified"][name] EXCEPT !.on = on]
  BY <1>1, NamesApart, SwitchResult, SMT, SMTT(60)
<1> HIDE DEF b
<1>3. reg' = [b EXCEPT !.events = @ + 1]
  BY DEF a, b
<1>4. /\ RegTyped(reg') /\ reg'.calls = b.calls /\ reg'.answer = b.answer
      /\ reg'.cache = b.cache /\ reg'.entries = b.entries
  BY <1>2, <1>3, SMT, SMTT(60) DEF RegTyped
<1>5. CacheIsCurrent'
  BY <1>1, <1>2, <1>4, CacheKept
<1>6. reg.calls = <<>> /\ \A k \in Kinds : \A n \in NamesOf(k) : reg.entries["unified"][n] = reg.entries[k][n]
  BY <1>0 DEF SwitchHandler, CallsInv, UnifiedAgrees
<1>7. ASSUME NEW k \in Kinds, NEW n \in NamesOf(k) PROVE b.entries["unified"][n] = b.entries[k][n]
  <2>1. CASE n # name
    BY <1>1, <1>2, <1>6, <1>7, <2>1, NamesApart
  <2>2. CASE n = name
    <3>1. k = kind
      BY <2>2, NamesApart
    <3>2. b.entries[kind][name] = a.entries[kind][name] /\ a.entries["unified"][name] = reg.entries["unified"][name]
      BY <1>1, <1>2, NamesApart
    <3> QED
      BY <1>1, <1>2, <1>6, <2>2, <3>1, <3>2
  <2> QED
    BY <2>1, <2>2
<1>8. CallsInv'
  BY <1>1, <1>2, <1>4, <1>6, <1>7 DEF CallsInv, UnifiedAgrees
<1> QED
  BY <1>1, <1>2, <1>4, <1>5, <1>8, Zenon DEF RegInv

\* A registration starts with its list of calls, none made yet.
LEMMA RegisterKeeps ==
  ASSUME RegInv, RegisterHandler
  PROVE  RegInv' /\ reg'.answer = reg.answer
<1>0. RegTyped(reg) /\ CacheIsCurrent /\ CallsInv
  BY DEF RegInv
<1> PICK kind \in Kinds : \E name \in NamesOf(kind), level \in Runlevels, on \in BOOLEAN :
       reg' = [reg EXCEPT !.calls = registerModules(kind, name, level, on), !.events = @ + 1]
  BY Zenon DEF RegisterHandler
<1> PICK name \in NamesOf(kind), level \in Runlevels, on \in BOOLEAN :
       reg' = [reg EXCEPT !.calls = registerModules(kind, name, level, on), !.events = @ + 1]
  BY Zenon
<1>1. /\ RegTyped(reg') /\ reg'.calls = Calls(kind, name, level, on) /\ reg'.answer = reg.answer
      /\ reg'.cache = reg.cache /\ reg'.entries = reg.entries
  BY <1>0, Zenon DEF RegTyped, registerModules
<1>2. CacheIsCurrent'
  BY <1>1, CacheKept
<1>3. Calls(kind, name, level, on) # <<>>
  BY DEF Calls
<1>4. Made(kind, name, level, on)'
  BY <1>1 DEF Made
<1>5. \A k \in Kinds : \A n \in NamesOf(k) : AgreeOn(k, n)'
  BY <1>0, <1>1 DEF RegisterHandler, CallsInv, UnifiedAgrees, AgreeOn
<1>6. CallsInv'
  BY <1>1, <1>3, <1>4, <1>5 DEF CallsInv, UnifiedAgrees
<1> QED
  BY <1>1, <1>2, <1>6 DEF RegInv

\* One call of a registration, by what it does.
Call(list, name) ==
  /\ RegTyped(reg') /\ CacheIsCurrent' /\ reg'.answer = reg.answer /\ reg'.calls = Tail(reg.calls)
  /\ \A l \in Lists, n \in AllNames :
       (l # list \/ n # name) /\ n \in NamesIn(l) => reg'.entries[l][n] = reg.entries[l][n]

LEMMA AddCall ==
  ASSUME RegInv, NextCall, NEW list \in Lists, NEW name \in NamesIn(list), NEW level \in Runlevels,
         Head(reg.calls) = [do |-> "add", list |-> list, name |-> name, level |-> level]
  PROVE  Call(list, name) /\ reg'.entries[list][name] = Entry(level)
<1> DEFINE s == AddToRegistry(reg, list, name, level)
<1>1. reg' = [s EXCEPT !.calls = Tail(@)]
  <2> DEFINE c == Head(reg.calls)
             t == IF c.do = "add" THEN AddToRegistry(reg, c.list, c.name, c.level)
                  ELSE setEnabledLocked(reg, c.list, c.name, FALSE)
  <2>1. reg' = [t EXCEPT !.calls = Tail(@)]
    BY Zenon DEF NextCall
  <2>2. c.do = "add" /\ c.list = list /\ c.name = name /\ c.level = level
    OBVIOUS
  <2>3. t = s
    <3> HIDE DEF c
    <3> QED
      BY <2>2, SMT, SMTT(60)
  <2> HIDE DEF t, s
  <2> QED
    BY <2>1, <2>3, Zenon
<1>2. /\ RegTyped(s) /\ s.calls = reg.calls /\ s.reader = reg.reader /\ s.answer = reg.answer
      /\ \A l \in Lists : s.cache[l] = NoBatches \/ (s.cache[l] = reg.cache[l] /\ s.entries[l] = reg.entries[l])
      /\ \A l \in Lists, n \in AllNames :
           (l # list \/ n # name) /\ n \in NamesIn(l) => s.entries[l][n] = reg.entries[l][n]
      /\ s.entries[list][name] = Entry(level)
  BY AddResult, SMT, SMTT(60) DEF RegInv
<1> HIDE DEF s
<1>3. /\ RegTyped(reg') /\ reg'.calls = Tail(reg.calls) /\ reg'.answer = reg.answer
      /\ reg'.cache = s.cache /\ reg'.entries = s.entries
  BY <1>1, <1>2, Zenon DEF RegTyped
<1>4. CacheIsCurrent'
  BY <1>2, <1>3, CacheKept, Zenon
<1> QED
  BY <1>2, <1>3, <1>4, Zenon DEF Call

LEMMA DisableCall ==
  ASSUME RegInv, NextCall, NEW list \in Lists, NEW name \in NamesIn(list),
         Head(reg.calls) = [do |-> "disable", list |-> list, name |-> name]
  PROVE  /\ Call(list, name)
         /\ reg.entries[list][name] # NotRegistered =>
              reg'.entries[list][name] = [reg.entries[list][name] EXCEPT !.on = FALSE]
<1> DEFINE s == setEnabledLocked(reg, list, name, FALSE)
<1>1. reg' = [s EXCEPT !.calls = Tail(@)]
  <2> DEFINE c == Head(reg.calls)
             t == IF c.do = "add" THEN AddToRegistry(reg, c.list, c.name, c.level)
                  ELSE setEnabledLocked(reg, c.list, c.name, FALSE)
  <2>1. reg' = [t EXCEPT !.calls = Tail(@)]
    BY Zenon DEF NextCall
  <2>2. c.do # "add" /\ c.list = list /\ c.name = name
    OBVIOUS
  <2>3. t = s
    <3> HIDE DEF c
    <3> QED
      BY <2>2
  <2> HIDE DEF t, s
  <2> QED
    BY <2>1, <2>3, Zenon
<1>2. /\ RegTyped(s) /\ s.calls = reg.calls /\ s.reader = reg.reader /\ s.answer = reg.answer
      /\ \A l \in Lists : s.cache[l] = NoBatches \/ (s.cache[l] = reg.cache[l] /\ s.entries[l] = reg.entries[l])
      /\ \A l \in Lists, n \in AllNames :
           (l # list \/ n # name) /\ n \in NamesIn(l) => s.entries[l][n] = reg.entries[l][n]
      /\ reg.entries[list][name] # NotRegistered =>
           s.entries[list][name] = [reg.entries[list][name] EXCEPT !.on = FALSE]
  <2>1. RegTyped(reg) /\ FALSE \in BOOLEAN
    BY DEF RegInv
  <2> HIDE DEF s
  <2>2. s = setEnabledLocked(reg, list, name, FALSE)
    BY DEF s
  <2>3. ASSUME NEW on \in BOOLEAN, ~on, s = setEnabledLocked(reg, list, name, on)
        PROVE  /\ RegTyped(s) /\ s.calls = reg.calls /\ s.reader = reg.reader /\ s.answer = reg.answer
               /\ \A l \in Lists : s.cache[l] = NoBatches \/ (s.cache[l] = reg.cache[l] /\ s.entries[l] = reg.entries[l])
               /\ \A l \in Lists, n \in AllNames :
                    (l # list \/ n # name) /\ n \in NamesIn(l) => s.entries[l][n] = reg.entries[l][n]
               /\ reg.entries[list][name] # NotRegistered =>
                    s.entries[list][name] = [reg.entries[list][name] EXCEPT !.on = on]
    BY <2>1, <2>3, SwitchResult
  <2> QED
    BY <2>1, <2>2, <2>3, Zenon
<1> HIDE DEF s
<1>3. /\ RegTyped(reg') /\ reg'.calls = Tail(reg.calls) /\ reg'.answer = reg.answer
      /\ reg'.cache = s.cache /\ reg'.entries = s.entries
  BY <1>1, <1>2, Zenon DEF RegTyped
<1>4. CacheIsCurrent'
  BY <1>2, <1>3, CacheKept
<1> QED
  BY <1>2, <1>3, <1>4 DEF Call

\* Each call of a registration leads to the next case of Made, the last to agreement.
LEMMA NextCallKeeps ==
  ASSUME RegInv, NextCall
  PROVE  RegInv' /\ reg'.answer = reg.answer
<1>0. RegTyped(reg) /\ CallsInv /\ reg.calls # <<>>
  BY Zenon DEF RegInv, NextCall
<1> PICK kind \in Kinds : \E name \in NamesOf(kind), level \in Runlevels, on \in BOOLEAN :
         /\ Made(kind, name, level, on)
         /\ \A k \in Kinds : \A n \in NamesOf(k) \ {name} : AgreeOn(k, n)
  BY <1>0 DEF CallsInv
<1> PICK name \in NamesOf(kind), level \in Runlevels, on \in BOOLEAN :
         /\ Made(kind, name, level, on)
         /\ \A k \in Kinds : \A n \in NamesOf(k) \ {name} : AgreeOn(k, n)
  OBVIOUS
<1> DEFINE add(list) == [do |-> "add", list |-> list, name |-> name, level |-> level]
           disable(list) == [do |-> "disable", list |-> list, name |-> name]
           e == reg.entries
           f == reg'.entries
<1>1. /\ kind \in Lists /\ "unified" \in Lists /\ kind # "unified"
      /\ name \in NamesIn(kind) /\ name \in NamesIn("unified") /\ name \in AllNames
  BY NamesApart
<1>2. Entry(level) # NotRegistered
  BY Zenon DEF Entry, NotRegistered
<1>3. ASSUME NEW list \in {kind, "unified"}, Call(list, name)
      PROVE  \A k \in Kinds : \A n \in NamesOf(k) \ {name} : AgreeOn(k, n)'
  BY <1>3, NamesApart, SMT, SMTT(60) DEF Call, AgreeOn
<1>4. ASSUME NEW list \in {kind, "unified"}, Call(list, name),
             IF reg'.calls = <<>> THEN f["unified"][name] = f[kind][name]
             ELSE Made(kind, name, level, on)'
      PROVE  RegInv' /\ reg'.answer = reg.answer
  <2>1. \A k \in Kinds : \A n \in NamesOf(k) \ {name} : AgreeOn(k, n)'
    BY <1>3, <1>4, Zenon
  <2>2. \A k \in Kinds : name \in NamesOf(k) => k = kind
    BY NamesApart, Zenon
  <2>3. UnifiedAgrees'
    BY <1>4, <2>1, <2>2, Zenon DEF UnifiedAgrees, AgreeOn
  <2>4. CallsInv'
    BY <1>4, <2>1, <2>3, SMT, SMTT(60) DEF CallsInv
  <2> QED
    BY <1>4, <2>4, Zenon DEF RegInv, Call
<1>5. CASE reg.calls = Calls(kind, name, level, on)
  <2>1. /\ Head(reg.calls) = add(kind)
        /\ Tail(reg.calls) = IF on THEN <<add("unified")>> ELSE <<add("unified"), disable(kind), disable("unified")>>
    BY <1>5, SMT, SMTT(60) DEF Calls
  <2>2. Call(kind, name) /\ f[kind][name] = Entry(level)
    BY <1>1, <2>1, AddCall, Zenon
  <2>3. reg'.calls = (IF on THEN <<add("unified")>> ELSE <<add("unified"), disable(kind), disable("unified")>>)
    BY <2>1, <2>2, Zenon DEF Call
  <2>4. reg'.calls # <<>>
    BY <2>3, SMT, SMTT(60)
  <2>5. Made(kind, name, level, on)'
    BY <2>2, <2>3, Zenon DEF Made
  <2> QED
    BY <1>4, <2>2, <2>4, <2>5, Zenon
<1>6. CASE /\ reg.calls = IF on THEN <<add("unified")>> ELSE <<add("unified"), disable(kind), disable("unified")>>
           /\ e[kind][name] = Entry(level)
  <2>1. Head(reg.calls) = add("unified") /\ Tail(reg.calls) = IF on THEN <<>> ELSE <<disable(kind), disable("unified")>>
    BY <1>6, SMT, SMTT(60)
  <2>2. Call("unified", name) /\ f["unified"][name] = Entry(level)
    BY <1>1, <2>1, AddCall, Zenon
  <2>3. f[kind][name] = Entry(level)
    BY <1>1, <1>6, <2>2, Zenon DEF Call
  <2>4. reg'.calls = (IF on THEN <<>> ELSE <<disable(kind), disable("unified")>>)
    BY <2>1, <2>2, Zenon DEF Call
  <2>5. ~on => Made(kind, name, level, on)' /\ reg'.calls # <<>>
    BY <2>2, <2>3, <2>4 DEF Made
  <2> QED
    BY <1>4, <2>2, <2>3, <2>4, <2>5, Zenon
<1>7. CASE /\ ~on /\ reg.calls = <<disable(kind), disable("unified")>>
           /\ e[kind][name] = Entry(level) /\ e["unified"][name] = Entry(level)
  <2>1. Head(reg.calls) = disable(kind) /\ Tail(reg.calls) = <<disable("unified")>>
    BY <1>7, SMT, SMTT(60)
  <2>2. Call(kind, name) /\ f[kind][name] = [Entry(level) EXCEPT !.on = FALSE]
    BY <1>1, <1>2, <1>7, <2>1, DisableCall
  <2>3. f["unified"][name] = Entry(level)
    BY <1>1, <1>7, <2>2 DEF Call
  <2>4. reg'.calls = <<disable("unified")>> /\ reg'.calls # <<>>
    BY <2>1, <2>2 DEF Call
  <2>5. Made(kind, name, level, on)'
    BY <1>7, <2>2, <2>3, <2>4 DEF Made
  <2> QED
    BY <1>4, <2>2, <2>4, <2>5
<1>8. CASE /\ ~on /\ reg.calls = <<disable("unified")>>
           /\ e[kind][name] = [Entry(level) EXCEPT !.on = FALSE]
           /\ e["unified"][name] = Entry(level)
  <2>1. Head(reg.calls) = disable("unified") /\ Tail(reg.calls) = <<>>
    BY <1>8
  <2>2. Call("unified", name) /\ f["unified"][name] = [Entry(level) EXCEPT !.on = FALSE]
    BY <1>1, <1>2, <1>8, <2>1, DisableCall
  <2>3. f[kind][name] = [Entry(level) EXCEPT !.on = FALSE] /\ reg'.calls = <<>>
    BY <1>1, <1>8, <2>1, <2>2 DEF Call
  <2> QED
    BY <1>4, <2>2, <2>3
<1> QED
  BY <1>5, <1>6, <1>7, <1>8 DEF Made

LEMMA RegInitInv == RegInit => RegInv
<1> SUFFICES ASSUME RegInit PROVE RegInv
  OBVIOUS
<1>1. \A l \in Lists : \A n \in NamesIn(l) : reg.entries[l][n] = NotRegistered
  BY Zenon DEF RegInit, NamesIn
<1>2. RegTyped(reg)
  BY Zenon DEF RegInit, RegTyped, NamesIn, RegEntries
<1>3. CacheIsCurrent
  BY Zenon DEF RegInit, CacheIsCurrent
<1>4. CallsInv
  <2>1. reg.calls = <<>>
    BY Zenon DEF RegInit
  <2> QED
    BY <1>1, <2>1, NamesApart, Zenon DEF CallsInv, UnifiedAgrees
<1> QED
  BY <1>2, <1>3, <1>4 DEF RegInv

LEMMA RegStep ==
  ASSUME RegInv, [RegNext]_reg
  PROVE  /\ RegInv'
         /\ \A g \in Readers : reg'.answer[g] # reg.answer[g] /\ reg'.answer[g].list # "none" =>
              reg'.answer[g].batches = BatchesOf(reg'.entries[reg'.answer[g].list],
                                                 Enabled(reg'.entries[reg'.answer[g].list]))
<1>1. CASE reg' = reg
  <2>1. RegTyped(reg') /\ CacheIsCurrent'
    BY <1>1, Zenon DEF RegInv, CacheIsCurrent
  <2>2. CallsInv'
    BY <1>1, CallsStay, Zenon DEF RegInv
  <2> QED
    BY <1>1, <2>1, <2>2, Zenon DEF RegInv
<1>2. CASE RegisterHandler \/ NextCall \/ SwitchHandler
  BY <1>2, RegisterKeeps, NextCallKeeps, SwitchKeeps, Zenon
<1>3. CASE \E g \in Readers : ForEach(g) \/ ResolvedBatches(g) \/ \E l \in Lists : AskHit(g, l) \/ AskMiss(g, l)
  BY <1>3, ReadersKeep, Zenon
<1> QED
  BY <1>1, <1>2, <1>3, Zenon DEF RegNext

\* NoStaleAnswer: with any number of goroutines, components and modules, and
\* whatever entries resolve to, a goroutine that asks a registry for its batches
\* is handed those of the entries at that moment, also when registrations and
\* switches fall between the read lock and the write lock.
THEOREM NoStaleAnswer == RegSpec => AnswersAreCurrent
<1>1. RegInv /\ [RegNext]_reg => RegInv'
  BY RegStep, SMT, SMTT(60)
<1>2. RegInv /\ [RegNext]_reg =>
        [\A g \in Readers : reg'.answer[g] # reg.answer[g] /\ reg'.answer[g].list # "none" =>
           reg'.answer[g].batches = BatchesOf(reg'.entries[reg'.answer[g].list],
                                              Enabled(reg'.entries[reg'.answer[g].list]))]_reg
  BY RegStep, Zenon
<1> QED
  BY <1>1, <1>2, RegInitInv, PTL DEF RegSpec, AnswersAreCurrent

\* RegistriesAgree: once a registration's calls are made the unified registry
\* holds every entry of the component and the module registry, with the runlevel
\* and the flag it has there, also for a handler that is suppressed.
THEOREM RegistriesAgree == RegSpec => []UnifiedAgrees
<1>1. RegInv /\ [RegNext]_reg => RegInv'
  BY RegStep
<1>2. RegInv => UnifiedAgrees
  BY DEF RegInv, CallsInv
<1> QED
  BY <1>1, <1>2, RegInitInv, PTL DEF RegSpec

=============================================================================
