-------------------------- MODULE StorageMigration --------------------------
(***************************************************************************)
(* Storage version migration of one custom resource definition (CRD):      *)
(* pkg/storagemigration, started by pkg/bootstrap after leader election.   *)
(* The operator runs it for three CRDs, independently of each other.       *)
(*                                                                         *)
(* An attempt validates the CRD, discovers the migration API, creates or   *)
(* resumes a migration request, polls it, prunes status.storedVersions and *)
(* deletes the request.  Every call to the API server is a step of its     *)
(* own.  Attempts of two operator processes may overlap (an old leader     *)
(* that has not stopped yet), any call may fail, and a process may stop    *)
(* anywhere.  A call that took effect but whose answer was lost is the     *)
(* step followed by Fail.                                                  *)
(*                                                                         *)
(* The API server and the migrator are external.  A resourceVersion is     *)
(* modelled by what it decides: fresh[a] says that the CRD has not been    *)
(* written since attempt a read it.  A request's UID likewise: held[a]     *)
(* says that the request which attempt a created or resumed is still the   *)
(* one with that name.                                                     *)
(***************************************************************************)
EXTENDS Naturals, Sequences

CONSTANTS
    Attempts,      \* operator processes that may run an attempt
    Objects,       \* names of custom resources of the CRD
    Versions,      \* API versions of the CRD
    APIs,          \* groups serving StorageVersionMigration, preferred first
    MaxChanges,    \* bound on the changes of the CRD
    MaxFaults      \* bound on failures and on interventions of other users

ASSUME MigrationAssumption ==
    /\ MaxChanges \in Nat
    /\ MaxFaults \in Nat
    /\ APIs \in Seq(STRING)
    /\ APIs # <<>>
    /\ "none" \notin Versions

VARIABLES
    phase,         \* of the CRD: "live", "deleting" or "absent"
    id,            \* its UID, its generation and its storage version
    valid,         \* whether its storage version is served
    stored,        \* its status.storedVersions
    objects,       \* the version each object is stored at, or "none"
    pending,       \* requests the migrator works on
    succeeded,     \* requests with condition Succeeded
    failed,        \* requests with condition Failed
    foreign,       \* requests that lack this operator's marks or its spec
    behind,        \* <<request, object>>: not rewritten since its creation
    served,        \* API groups that are served
    pc,            \* next call of each attempt
    saw,           \* the CRD identity each attempt has validated
    api,           \* the API group each attempt has selected
    held,          \* its request has not been replaced
    fresh,         \* the CRD has not been written since its last read
    changes,       \* CRD changes so far
    faults         \* faults so far

crdVars == <<phase, id, valid, stored, changes>>
requestVars == <<pending, succeeded, failed, foreign>>
attemptVars == <<pc, saw, api, held>>
vars == <<crdVars, objects, requestVars, behind, served, attemptVars, fresh,
          faults>>

Identities == [uid : Nat, gen : Nat, storage : Versions]
APISet == {APIs[i] : i \in DOMAIN APIs}

\* The name of a request is a digest of the CRD's UID, its generation and the
\* storage version, and its annotations repeat them.
Keys == [api : APISet, crd : Identities]
Existing == pending \cup succeeded \cup failed

Active == {"validate", "discover", "create", "resume", "poll", "prune",
           "patch", "cleanup"}

(***************************************************************************)
(* One attempt.                                                            *)
(***************************************************************************)

\* RunStorageVersionMigration: once per process, after leader election.
Start(a) ==
    /\ pc[a] = "off"
    /\ pc' = [pc EXCEPT ![a] = "validate"]
    /\ UNCHANGED <<crdVars, objects, requestVars, behind, served, saw, api,
                   held, fresh, faults>>

GoTo(a, step) == pc' = [pc EXCEPT ![a] = step]

\* storageVersion: no answer for a CRD that is deleting or whose storage
\* version is not served.
HasStorageVersion == phase = "live" /\ valid

OnlyCurrent == stored = {id.storage}

Validate(a) ==
    /\ pc[a] = "validate"
    /\ GoTo(a, CASE phase = "absent" -> "done"
                 [] phase # "absent" /\ ~HasStorageVersion -> "failed"
                 [] HasStorageVersion /\ OnlyCurrent -> "done"
                 [] HasStorageVersion /\ ~OnlyCurrent -> "discover")
    /\ saw' = [saw EXCEPT ![a] = id]
    /\ held' = [held EXCEPT ![a] = FALSE]
    /\ UNCHANGED <<crdVars, objects, requestVars, behind, served, api, fresh,
                   faults>>

\* discoverMigrationAPI: the first supported API in order of preference.
Preferred(i) == APIs[i] \in served /\ \A j \in 1 .. i - 1 : APIs[j] \notin served

Discover(a) ==
    /\ pc[a] = "discover"
    /\ \/ \E i \in DOMAIN APIs :
          /\ Preferred(i)
          /\ api' = [api EXCEPT ![a] = APIs[i]]
          /\ GoTo(a, "create")
       \/ /\ served = {}
          /\ GoTo(a, "failed")
          /\ UNCHANGED api
    /\ UNCHANGED <<crdVars, objects, requestVars, behind, served, saw, held,
                   fresh, faults>>

\* A bug: requests are bound to the storage version only, so that one made
\* before a change of the storage version and a rollback is used again.
KeyWithoutGeneration(a) ==
    [api |-> api[a], crd |-> [uid |-> 0, gen |-> 0, storage |-> saw[a].storage]]

Key(a) == [api |-> api[a], crd |-> saw[a]]

LiveObjects == {o \in Objects : objects[o] # "none"}

\* The Create call of createOrGetMigrationRequest.  The migrator will have
\* every object rewritten that exists now.
CreateRequest(a) ==
    /\ pc[a] = "create"
    /\ \/ /\ Key(a) \notin Existing
          /\ pending' = pending \cup {Key(a)}
          /\ behind' = behind \cup {<<Key(a), o>> : o \in LiveObjects}
          /\ held' = [held EXCEPT ![a] = TRUE]
          /\ GoTo(a, "poll")
       \/ /\ Key(a) \in Existing
          /\ GoTo(a, "resume")
          /\ UNCHANGED <<pending, behind, held>>
    /\ UNCHANGED <<crdVars, objects, succeeded, failed, foreign, served, saw,
                   api, fresh, faults>>

\* A bug: a request with the right name is used whatever it says.
AdoptAny(a) == Key(a) \in Existing

\* validateRequest, without the comparison of UIDs.
Usable(a) == Key(a) \in Existing /\ Key(a) \notin foreign

\* A bug: a request that already exists is taken for an error.
NeverResume(a) ==
    /\ pc[a] = "resume"
    /\ GoTo(a, "failed")
    /\ UNCHANGED <<crdVars, objects, requestVars, behind, served, saw, api,
                   held, fresh, faults>>

\* The Get call of createOrGetMigrationRequest, and the checks of run before
\* it polls.
ResumeRequest(a) ==
    /\ pc[a] = "resume"
    /\ \/ /\ Usable(a)
          /\ Key(a) \notin failed
          /\ held' = [held EXCEPT ![a] = TRUE]
          /\ GoTo(a, "poll")
       \/ /\ ~Usable(a) \/ Key(a) \in failed
          /\ GoTo(a, "failed")
          /\ UNCHANGED held
    /\ UNCHANGED <<crdVars, objects, requestVars, behind, served, saw, api,
                   fresh, faults>>

\* One poll that ends the wait; while the request is pending run polls again.
Poll(a) ==
    /\ pc[a] = "poll"
    /\ \/ /\ Usable(a) /\ held[a]
          /\ Key(a) \in succeeded
          /\ GoTo(a, "prune")
       \/ /\ ~Usable(a) \/ ~held[a] \/ Key(a) \in failed
          /\ GoTo(a, "failed")
    /\ UNCHANGED <<crdVars, objects, requestVars, behind, served, saw, api,
                   held, fresh, faults>>

\* A bug: the CRD that is read again is not compared with the validated one.
RereadAnyCRD(a) ==
    /\ pc[a] = "prune"
    /\ GoTo(a, CASE ~HasStorageVersion -> "failed"
                 [] HasStorageVersion /\ OnlyCurrent -> "cleanup"
                 [] HasStorageVersion /\ ~OnlyCurrent -> "patch")
    /\ fresh' = [fresh EXCEPT ![a] = HasStorageVersion /\ ~OnlyCurrent]
    /\ UNCHANGED <<crdVars, objects, requestVars, behind, served, saw, api,
                   held, faults>>

\* The Get call of pruneStorageHistory and the checks on what it returns.
RereadCRD(a) ==
    /\ pc[a] = "prune"
    /\ \/ /\ HasStorageVersion /\ id = saw[a]
          /\ GoTo(a, IF OnlyCurrent THEN "cleanup" ELSE "patch")
          /\ fresh' = [fresh EXCEPT ![a] = ~OnlyCurrent]
       \/ /\ ~(HasStorageVersion /\ id = saw[a])
          /\ GoTo(a, "failed")
          /\ UNCHANGED fresh
    /\ UNCHANGED <<crdVars, objects, requestVars, behind, served, saw, api,
                   held, faults>>

\* Every write of the CRD gives it a new resourceVersion.
CRDWritten == fresh' = [a \in Attempts |-> FALSE]

\* A bug: the merge patch carries no resourceVersion.  The API server still
\* refuses a history without the storage version.
PatchUnguarded(a) ==
    /\ pc[a] = "patch"
    /\ \/ /\ phase # "absent" /\ id.storage = saw[a].storage
          /\ stored' = {saw[a].storage}
          /\ CRDWritten
          /\ GoTo(a, "cleanup")
       \/ /\ ~(phase # "absent" /\ id.storage = saw[a].storage)
          /\ GoTo(a, "failed")
          /\ UNCHANGED <<stored, fresh>>
    /\ UNCHANGED <<phase, id, valid, changes, objects, requestVars, behind,
                   served, saw, api, held, faults>>

\* A bug: a conflict of the patch is not reported.
PatchIgnoresConflict(a) ==
    /\ pc[a] = "patch"
    /\ GoTo(a, "cleanup")
    /\ IF fresh[a] THEN stored' = {saw[a].storage} /\ CRDWritten
                   ELSE UNCHANGED <<stored, fresh>>
    /\ UNCHANGED <<phase, id, valid, changes, objects, requestVars, behind,
                   served, saw, api, held, faults>>

\* The Patch call of pruneStorageHistory, guarded by the resourceVersion.
PatchHistory(a) ==
    /\ pc[a] = "patch"
    /\ \/ /\ fresh[a]
          /\ stored' = {saw[a].storage}
          /\ CRDWritten
          /\ GoTo(a, "cleanup")
       \/ /\ ~fresh[a]
          /\ GoTo(a, "failed")
          /\ UNCHANGED <<stored, fresh>>
    /\ UNCHANGED <<phase, id, valid, changes, objects, requestVars, behind,
                   served, saw, api, held, faults>>

\* A request disappears from the API server.
Delete(k) ==
    /\ pending' = pending \ {k}
    /\ succeeded' = succeeded \ {k}
    /\ failed' = failed \ {k}
    /\ foreign' = foreign \ {k}
    /\ behind' = {p \in behind : p[1] # k}
    /\ held' = [b \in Attempts |-> held[b] /\ Key(b) # k]

\* A bug: the request is deleted by name, without the UID precondition.
CleanupByName(a) ==
    /\ pc[a] = "cleanup"
    /\ Delete(Key(a))
    /\ GoTo(a, "done")
    /\ UNCHANGED <<crdVars, objects, served, saw, api, fresh, faults>>

\* cleanup: the UID precondition fails when the request has been replaced.
Cleanup(a) ==
    /\ pc[a] = "cleanup"
    /\ \/ /\ Key(a) \in Existing => held[a]
          /\ Delete(Key(a))
          /\ GoTo(a, "done")
       \/ /\ Key(a) \in Existing /\ ~held[a]
          /\ GoTo(a, "failed")
          /\ UNCHANGED <<requestVars, behind, held>>
    /\ UNCHANGED <<crdVars, objects, served, saw, api, fresh, faults>>

Step(a) ==
    \/ Validate(a)
    \/ Discover(a)
    \/ CreateRequest(a)
    \/ ResumeRequest(a)
    \/ Poll(a)
    \/ RereadCRD(a)
    \/ PatchHistory(a)
    \/ Cleanup(a)

\* A call fails, or the deadline of the attempt passes: execute reports the
\* failure and the attempt is over; the process runs on.
Fail(a) ==
    /\ pc[a] \in Active
    /\ faults < MaxFaults
    /\ faults' = faults + 1
    /\ GoTo(a, "failed")
    /\ UNCHANGED <<crdVars, objects, requestVars, behind, served, saw, api,
                   held, fresh>>

\* The process stops, in the middle of an attempt.
Crash(a) ==
    /\ pc[a] \in Active
    /\ faults < MaxFaults
    /\ faults' = faults + 1
    /\ GoTo(a, "off")
    /\ UNCHANGED <<crdVars, objects, requestVars, behind, served, saw, api,
                   held, fresh>>

\* The operator is restarted after its attempt has ended.
Restart(a) ==
    /\ pc[a] \in {"done", "failed"}
    /\ phase # "absent" /\ ~OnlyCurrent
    /\ GoTo(a, "off")
    /\ UNCHANGED <<crdVars, objects, requestVars, behind, served, saw, api,
                   held, fresh, faults>>

(***************************************************************************)
(* The API server, the migrator and the users of the cluster.              *)
(***************************************************************************)

\* An object is created, or written by a user, a controller or the migrator:
\* the API server stores it at the storage version of the moment.
WriteObject(o) ==
    /\ phase = "live" \/ (phase = "deleting" /\ objects[o] # "none")
    /\ objects' = [objects EXCEPT ![o] = id.storage]
    /\ behind' = {p \in behind : p[2] # o}
    /\ UNCHANGED <<crdVars, requestVars, served, attemptVars, fresh, faults>>

DeleteObject(o) ==
    /\ objects[o] # "none"
    /\ objects' = [objects EXCEPT ![o] = "none"]
    /\ behind' = {p \in behind : p[2] # o}
    /\ UNCHANGED <<crdVars, requestVars, served, attemptVars, fresh, faults>>

\* A request of this operator succeeds when every object it found has been
\* rewritten; what a foreign one asks for is unknown.
MigrationSucceeds(k) ==
    /\ k \in pending
    /\ k \in foreign \/ \A p \in behind : p[1] # k
    /\ pending' = pending \ {k}
    /\ succeeded' = succeeded \cup {k}
    /\ UNCHANGED <<crdVars, objects, failed, foreign, behind, served,
                   attemptVars, fresh, faults>>

MigrationFails(k) ==
    /\ k \in pending
    /\ faults < MaxFaults
    /\ faults' = faults + 1
    /\ pending' = pending \ {k}
    /\ failed' = failed \cup {k}
    /\ UNCHANGED <<crdVars, objects, succeeded, foreign, behind, served,
                   attemptVars, fresh>>

\* An update of the CRD's spec.  The API server increments the generation and
\* keeps the storage version among the stored versions.
ChangeCRD(v, ok) ==
    /\ phase # "absent"
    /\ changes < MaxChanges
    /\ changes' = changes + 1
    /\ id' = [id EXCEPT !.gen = @ + 1, !.storage = v]
    /\ valid' = ok
    /\ stored' = stored \cup {v}
    /\ CRDWritten
    /\ UNCHANGED <<phase, objects, requestVars, behind, served, attemptVars,
                   faults>>

DeleteCRD ==
    /\ phase = "live"
    /\ changes < MaxChanges
    /\ changes' = changes + 1
    /\ phase' = "deleting"
    /\ CRDWritten
    /\ UNCHANGED <<id, valid, stored, objects, requestVars, behind, served,
                   attemptVars, faults>>

\* The objects of the CRD are gone, and then the CRD.
CRDIsGone ==
    /\ phase = "deleting"
    /\ phase' = "absent"
    /\ objects' = [o \in Objects |-> "none"]
    /\ behind' = {}
    /\ CRDWritten
    /\ UNCHANGED <<id, valid, stored, changes, requestVars, served,
                   attemptVars, faults>>

CreateCRD(v) ==
    /\ phase = "absent"
    /\ phase' = "live"
    /\ id' = [uid |-> id.uid + 1, gen |-> 1, storage |-> v]
    /\ valid' = TRUE
    /\ stored' = {v}
    /\ CRDWritten
    /\ UNCHANGED <<changes, objects, requestVars, behind, served, attemptVars,
                   faults>>

\* After a failure: a failed or a mismatched request is reviewed and deleted.
ReviewRequest(k) ==
    /\ k \in failed \cup foreign
    /\ Delete(k)
    /\ UNCHANGED <<crdVars, objects, served, pc, saw, api, fresh, faults>>

\* Somebody deletes a request that is still of use.
DiscardRequest(k) ==
    /\ k \in Existing
    /\ faults < MaxFaults
    /\ faults' = faults + 1
    /\ Delete(k)
    /\ UNCHANGED <<crdVars, objects, served, pc, saw, api, fresh>>

\* A request that the operator has not made takes the name of one it may make.
CreateForeign(g) ==
    LET k == [api |-> g, crd |-> id]
    IN  /\ k \notin Existing
        /\ faults < MaxFaults
        /\ faults' = faults + 1
        /\ pending' = pending \cup {k}
        /\ foreign' = foreign \cup {k}
        /\ UNCHANGED <<crdVars, objects, succeeded, failed, behind, served,
                       attemptVars, fresh>>

\* The cluster starts or stops to serve a group.
ServeAPI(g) ==
    /\ faults < MaxFaults
    /\ faults' = faults + 1
    /\ served' = IF g \in served THEN served \ {g} ELSE served \cup {g}
    /\ UNCHANGED <<crdVars, objects, requestVars, behind, attemptVars, fresh>>

Init ==
    /\ phase = "live"
    /\ id \in [uid : {1}, gen : {1}, storage : Versions]
    /\ valid = TRUE
    /\ stored = {id.storage}
    /\ objects = [o \in Objects |-> "none"]
    /\ pending = {} /\ succeeded = {} /\ failed = {} /\ foreign = {}
    /\ behind = {}
    /\ served = APISet
    /\ pc = [a \in Attempts |-> "off"]
    /\ saw = [a \in Attempts |-> id]
    /\ api = [a \in Attempts |-> APIs[1]]
    /\ held = [a \in Attempts |-> FALSE]
    /\ fresh = [a \in Attempts |-> FALSE]
    /\ changes = 0
    /\ faults = 0

Operator(a) == Start(a) \/ Step(a) \/ Fail(a) \/ Crash(a) \/ Restart(a)

Requests(k) ==
    MigrationSucceeds(k) \/ MigrationFails(k) \/ ReviewRequest(k)
        \/ DiscardRequest(k)

Cluster ==
    \/ \E o \in Objects : WriteObject(o) \/ DeleteObject(o)
    \/ \E v \in Versions : \E ok \in BOOLEAN : ChangeCRD(v, ok)
    \/ \E v \in Versions : CreateCRD(v)
    \/ DeleteCRD
    \/ CRDIsGone
    \/ \E g \in APISet : CreateForeign(g) \/ ServeAPI(g)

Next ==
    \/ \E a \in Attempts : Operator(a)
    \/ \E k \in Existing : Requests(k)
    \/ Cluster

Spec == Init /\ [][Next]_vars

\* A running process takes its next call, the migrator works, and the
\* documented recovery is carried out: a failed or a mismatched request is
\* reviewed, and the operator restarted while the history needs it.
FairSpec ==
    /\ Spec
    /\ \A a \in Attempts : WF_vars(Start(a)) /\ WF_vars(Step(a))
    /\ \A a \in Attempts : WF_vars(Restart(a))
    /\ WF_vars(\E p \in behind : WriteObject(p[2]))
    /\ WF_vars(\E k \in pending : MigrationSucceeds(k))
    /\ WF_vars(\E k \in failed \cup foreign : ReviewRequest(k))
    /\ WF_vars(CRDIsGone)

(***************************************************************************)
(* Properties.                                                             *)
(***************************************************************************)

\* The variables have their types; a request is in one state, and an object is
\* awaited only by a request that exists.
TypeOK ==
    /\ phase \in {"live", "deleting", "absent"}
    /\ id \in Identities
    /\ valid \in BOOLEAN
    /\ stored \in SUBSET Versions
    /\ objects \in [Objects -> Versions \cup {"none"}]
    /\ pending \in SUBSET Keys /\ succeeded \in SUBSET Keys
    /\ failed \in SUBSET Keys /\ foreign \in SUBSET Existing
    /\ pending \cap succeeded = {} /\ failed \cap (pending \cup succeeded) = {}
    /\ behind \in SUBSET (Existing \X LiveObjects)
    /\ served \in SUBSET APISet
    /\ pc \in [Attempts -> Active \cup {"off", "done", "failed"}]
    /\ saw \in [Attempts -> Identities]
    /\ api \in [Attempts -> APISet]
    /\ held \in [Attempts -> BOOLEAN]
    /\ fresh \in [Attempts -> BOOLEAN]
    /\ changes \in 0 .. MaxChanges
    /\ faults \in 0 .. MaxFaults

\* No object is stored at a version that is missing from the storage history
\* of the CRD: pruning (pruneStorageHistory) never drops a version that is
\* still in use, whatever happens to the CRD and to the request between the
\* calls of an attempt, and whichever earlier request the attempt resumes.
HistoryCoversObjects ==
    \A o \in LiveObjects : objects[o] \in stored

\* The CRD and its objects, without attempts and requests.
Abstract == INSTANCE StorageHistory
    WITH exists <- phase # "absent", storage <- id.storage, history <- stored,
         at <- objects

\* The operator prunes as if in one step, and only while every object is stored
\* at the storage version: what the calls of overlapping attempts do to the
\* CRD's history, together with users, migrator and API server, is what
\* StorageHistory allows (pruneStorageHistory).
PruningIsAtomic == [][Abstract!Next]_(Abstract!vars)

\* An attempt that ends without an error has left the history with the storage
\* version alone, unless the CRD has been changed since it was validated.
DoneMeansPruned ==
    \A a \in Attempts :
        pc[a] = "done" /\ phase # "absent" /\ saw[a] = id => OnlyCurrent

\* A request that the operator deletes (cleanup) is its own, has succeeded, and
\* is of no more use: one that is pending or failed, or that somebody else
\* made, is never removed by an attempt that took it for another.
DeletesOnlySpent ==
    [][pc' # pc =>
         \A k \in Existing :
            k \notin Existing' =>
                /\ k \in succeeded /\ k \notin foreign
                /\ phase # "absent" /\ k.crd = id => OnlyCurrent]_vars

\* Restarting the operator always helps: as long as the migration API is
\* served, the storage version is served and the documented recovery is
\* carried out, no sequence of failures, crashes and changes of the CRD leaves
\* a request or an attempt behind that keeps the history from being pruned.
RestartRecovers ==
    <>[](served # {} /\ valid) => <>[](phase = "absent" \/ OnlyCurrent)
=============================================================================
