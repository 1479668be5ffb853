----------------------- MODULE StorageMigrationProofs -----------------------
(***************************************************************************)
(* Proofs about StorageMigration, for any number of operator processes,    *)
(* objects, versions and API groups.                                       *)
(*                                                                         *)
(* HistoryCoversObjects is not inductive.  The argument is that a request  *)
(* names one generation of one CRD: identities only grow (Known), so while *)
(* the CRD still has the identity of a request its storage version has not *)
(* changed since the request was made, and an object that the request is   *)
(* not waiting for is stored at that version (RequestCovers).  An attempt  *)
(* takes this over when it has seen the request succeed (AttemptCovers),   *)
(* and its patch takes effect only on the CRD it reread (FreshCurrent).    *)
(***************************************************************************)
EXTENDS StorageMigration, TLAPS

\* i is the identity of the CRD or one that the CRD has left for good.
Older(i) ==
    \/ i.uid < id.uid
    \/ i.uid = id.uid /\ i.gen < id.gen
    \/ i = id

Known ==
    /\ \A k \in Existing : Older(k.crd)
    /\ \A a \in Attempts : Older(saw[a])

RequestCovers ==
    \A k \in Existing :
        k \notin foreign =>
            /\ k.crd = id => \A o \in LiveObjects :
                                objects[o] = id.storage \/ <<k, o>> \in behind
            /\ k \in succeeded => \A o \in Objects : <<k, o>> \notin behind

AttemptCovers ==
    \A a \in Attempts :
        pc[a] \in {"prune", "patch"} /\ saw[a] = id =>
            \A o \in LiveObjects : objects[o] = id.storage

FreshCurrent ==
    \A a \in Attempts :
        pc[a] = "patch" /\ fresh[a] => phase = "live" /\ saw[a] = id

History ==
    /\ HistoryCoversObjects
    /\ id.storage \in stored
    /\ phase = "absent" => LiveObjects = {}

Pruned ==
    \A a \in Attempts :
        pc[a] \in {"cleanup", "done"} /\ phase # "absent" /\ saw[a] = id
            => OnlyCurrent

HeldSucceeded ==
    \A a \in Attempts :
        pc[a] \in {"prune", "patch", "cleanup"} /\ held[a] =>
            Key(a) \in succeeded /\ Key(a) \notin foreign

IInv ==
    /\ TypeOK
    /\ Known
    /\ RequestCovers
    /\ AttemptCovers
    /\ FreshCurrent
    /\ History
    /\ Pruned
    /\ HeldSucceeded

\* The CRD gets a new identity and leaves every earlier one for good, whether
\* its spec is changed or it is deleted and created again.
LEMMA IdentityIsLeft ==
    ASSUME TypeOK, Known,
           NEW v \in Versions, NEW ok \in BOOLEAN,
           ChangeCRD(v, ok) \/ CreateCRD(v)
    PROVE  /\ id' \in Identities
           /\ \A k \in Existing : k.crd # id' /\ Older(k.crd)'
           /\ \A a \in Attempts : saw[a] # id' /\ Older(saw[a])'
<1> DEFINE Left == \A i \in Identities : Older(i) => i # id' /\ Older(i)'
<1>1. /\ id.uid \in Nat /\ id.gen \in Nat
      /\ id \in Identities
    BY DEF TypeOK, Identities
<1>2. ASSUME ChangeCRD(v, ok)
      PROVE  id' \in Identities /\ Left
    <2>1. id' = [uid |-> id.uid, gen |-> id.gen + 1, storage |-> v]
        BY <1>1, <1>2, Zenon DEF ChangeCRD, Identities
    <2>2. id'.uid = id.uid /\ id'.gen = id.gen + 1 /\ id' \in Identities
        BY <1>1, <2>1 DEF Identities
    <2> QED
        BY <1>1, <2>2 DEF Older, Identities
<1>3. ASSUME CreateCRD(v)
      PROVE  id' \in Identities /\ Left
    <2>1. id'.uid = id.uid + 1 /\ id' \in Identities
        BY <1>1, <1>3 DEF CreateCRD, Identities
    <2> QED
        BY <1>1, <2>1 DEF Older, Identities
<1>4. /\ \A k \in Existing : k.crd \in Identities /\ Older(k.crd)
      /\ \A a \in Attempts : saw[a] \in Identities /\ Older(saw[a])
    BY DEF TypeOK, Existing, Keys, Known
<1> HIDE DEF Left
<1>5. id' \in Identities /\ Left
    BY <1>2, <1>3
<1>6. saw' = saw
    BY DEF ChangeCRD, CreateCRD, attemptVars
<1> QED
    BY <1>4, <1>5, <1>6 DEF Left, Older

\* Every step keeps the types.
LEMMA TypeStep ==
    ASSUME IInv, [Next]_vars
    PROVE  TypeOK'
<1> USE MigrationAssumption DEF IInv, TypeOK, vars, crdVars, requestVars,
        attemptVars, GoTo, CRDWritten, Existing, Key, Identities, Keys,
        APISet, Active, LiveObjects
<1>1. ASSUME NEW a \in Attempts, Start(a)
      PROVE  TypeOK'
    BY <1>1, SMT, SMTT(60) DEF Start
<1>2. ASSUME NEW a \in Attempts, Fail(a)
      PROVE  TypeOK'
    BY <1>2, SMT, SMTT(60) DEF Fail
<1>3. ASSUME NEW a \in Attempts, Crash(a)
      PROVE  TypeOK'
    BY <1>3, SMT, SMTT(60) DEF Crash
<1>4. ASSUME NEW a \in Attempts, Restart(a)
      PROVE  TypeOK'
    BY <1>4, SMT, SMTT(60) DEF Restart
<1>5. ASSUME NEW a \in Attempts, Validate(a)
      PROVE  TypeOK'
    BY <1>5, SMT, SMTT(60) DEF Validate
<1>6. ASSUME NEW a \in Attempts, Discover(a)
      PROVE  TypeOK'
    <2>1. \A i \in DOMAIN APIs : APIs[i] \in APISet
        OBVIOUS
    <2> HIDE DEF APISet
    <2> QED
        BY <1>6, <2>1, ZenonT(60) DEF Discover
<1>7. ASSUME NEW a \in Attempts, CreateRequest(a)
      PROVE  TypeOK'
    <2>1. Key(a) \in Keys
        OBVIOUS
    <2> HIDE DEF Key, Keys
    <2>2. CASE Key(a) \notin Existing
        <3>1. /\ pending' = pending \cup {Key(a)} /\ Key(a) \notin succeeded \cup failed
              /\ behind' = behind \cup {<<Key(a), o>> : o \in LiveObjects}
              /\ UNCHANGED <<succeeded, failed, foreign, objects>>
            BY <1>7, <2>2 DEF CreateRequest
        <3>2. behind' \in SUBSET (Existing' \X LiveObjects')
            BY <3>1
        <3>3. UNCHANGED <<phase, id, valid, stored, objects, changes, faults>>
            BY <1>7 DEF CreateRequest
        <3>4. UNCHANGED <<served, saw, api, fresh>>
            BY <1>7 DEF CreateRequest
        <3>5. /\ pc' \in [Attempts -> Active \cup {"off", "done", "failed"}]
              /\ held' \in [Attempts -> BOOLEAN]
            BY <1>7, ZenonT(60) DEF CreateRequest
        <3> QED
            BY <2>1, <3>1, <3>2, <3>3, <3>4, <3>5, SMT, SMTT(60)
    <2>3. CASE Key(a) \in Existing
        BY <1>7, <2>3, ZenonT(60) DEF CreateRequest
    <2> QED
        BY <2>2, <2>3, Zenon
<1>8. ASSUME NEW a \in Attempts, ResumeRequest(a)
      PROVE  TypeOK'
    BY <1>8, ZenonT(60) DEF ResumeRequest
<1>9. ASSUME NEW a \in Attempts, Poll(a)
      PROVE  TypeOK'
    BY <1>9, ZenonT(60) DEF Poll
<1>10. ASSUME NEW a \in Attempts, RereadCRD(a)
       PROVE  TypeOK'
    BY <1>10, ZenonT(60) DEF RereadCRD
<1>11. ASSUME NEW a \in Attempts, PatchHistory(a)
       PROVE  TypeOK'
    <2>1. saw[a].storage \in Versions
        OBVIOUS
    <2> HIDE DEF Identities, Keys
    <2> QED
        BY <1>11, <2>1, ZenonT(60) DEF PatchHistory
<1>12. ASSUME NEW a \in Attempts, Cleanup(a)
       PROVE  TypeOK'
    BY <1>12, ZenonT(60) DEF Cleanup, Delete
<1>13. ASSUME NEW k \in Existing, MigrationSucceeds(k)
       PROVE  TypeOK'
    BY <1>13, SMT, SMTT(60) DEF MigrationSucceeds
<1>14. ASSUME NEW k \in Existing, MigrationFails(k)
       PROVE  TypeOK'
    BY <1>14, SMT, SMTT(60) DEF MigrationFails
<1>15. ASSUME NEW k \in Existing, ReviewRequest(k)
       PROVE  TypeOK'
    BY <1>15, Zenon DEF ReviewRequest, Delete
<1>16. ASSUME NEW k \in Existing, DiscardRequest(k)
       PROVE  TypeOK'
    BY <1>16, SMT, SMTT(60) DEF DiscardRequest, Delete
<1>17. ASSUME NEW o \in Objects, WriteObject(o)
       PROVE  TypeOK'
    BY <1>17, Zenon DEF WriteObject
<1>18. ASSUME NEW o \in Objects, DeleteObject(o)
       PROVE  TypeOK'
    BY <1>18, Zenon DEF DeleteObject
<1>19. ASSUME NEW v \in Versions, NEW ok \in BOOLEAN, ChangeCRD(v, ok)
       PROVE  TypeOK'
    <2>1. id' \in Identities
        BY IdentityIsLeft, <1>19, SMT, SMTT(60)
    <2> HIDE DEF Identities, Keys
    <2> QED
        BY <1>19, <2>1 DEF ChangeCRD
<1>20. ASSUME DeleteCRD
       PROVE  TypeOK'
    BY <1>20, SMT, SMTT(60) DEF DeleteCRD
<1>21. ASSUME CRDIsGone
       PROVE  TypeOK'
    BY <1>21, Zenon DEF CRDIsGone
<1>22. ASSUME NEW v \in Versions, CreateCRD(v)
       PROVE  TypeOK'
    BY <1>22, SMT, SMTT(60) DEF CreateCRD
<1>23. ASSUME NEW g \in APISet, CreateForeign(g)
       PROVE  TypeOK'
    BY <1>23, SMT, SMTT(60) DEF CreateForeign
<1>24. ASSUME NEW g \in APISet, ServeAPI(g)
       PROVE  TypeOK'
    BY <1>24, SMT, SMTT(60) DEF ServeAPI
<1>25. CASE UNCHANGED vars
    BY <1>25, Zenon
<1> HIDE DEF IInv, TypeOK, vars, crdVars, requestVars, attemptVars, GoTo,
        CRDWritten, Existing, Key, Identities, Keys, APISet, Active,
        LiveObjects
<1> QED
    BY <1>1, <1>2, <1>3, <1>4, <1>5, <1>6, <1>7, <1>8, <1>9, <1>10, <1>11,
       <1>12, <1>13, <1>14, <1>15, <1>16, <1>17, <1>18, <1>19, <1>20, <1>21,
       <1>22, <1>23, <1>24, <1>25
    DEF Next, Operator, Step, Requests, Cluster

\* Requests and attempts are never ahead of the CRD.
LEMMA KnownStep ==
    ASSUME IInv, [Next]_vars
    PROVE  Known'
<1> USE MigrationAssumption DEF IInv, TypeOK, vars, crdVars, requestVars,
        attemptVars, GoTo, CRDWritten, Existing, Key
<1>1. ASSUME NEW a \in Attempts, Start(a) \/ Discover(a) \/ Fail(a)
                                 \/ Crash(a) \/ Restart(a)
      PROVE  Known'
    BY <1>1, Zenon DEF Start, Discover, Fail, Crash, Restart, Known, Older
<1>2. ASSUME NEW a \in Attempts, Validate(a)
      PROVE  Known'
    BY <1>2 DEF Validate, Known, Older
<1>3. ASSUME NEW a \in Attempts, CreateRequest(a)
      PROVE  Known'
    BY <1>3, SMT, SMTT(60) DEF CreateRequest, Known, Older
<1>4. ASSUME NEW a \in Attempts, ResumeRequest(a) \/ Poll(a)
      PROVE  Known'
    BY <1>4, SMT, SMTT(60) DEF ResumeRequest, Poll, Known, Older
<1>5. ASSUME NEW a \in Attempts, RereadCRD(a)
      PROVE  Known'
    BY <1>5, Zenon DEF RereadCRD, Known, Older
<1>6. ASSUME NEW a \in Attempts, PatchHistory(a)
      PROVE  Known'
    BY <1>6, Zenon DEF PatchHistory, Known, Older
<1>7. ASSUME NEW a \in Attempts, Cleanup(a)
      PROVE  Known'
    BY <1>7, Zenon DEF Cleanup, Known, Older, Delete
<1>8. ASSUME NEW k \in Existing, MigrationSucceeds(k) \/ MigrationFails(k)
      PROVE  Known'
    BY <1>8, Zenon DEF MigrationSucceeds, MigrationFails, Known, Older
<1>9. ASSUME NEW k \in Existing, ReviewRequest(k) \/ DiscardRequest(k)
      PROVE  Known'
    BY <1>9, Zenon DEF ReviewRequest, DiscardRequest, Known, Older, Delete
<1>10. ASSUME NEW o \in Objects, WriteObject(o) \/ DeleteObject(o)
       PROVE  Known'
    BY <1>10, Zenon DEF WriteObject, DeleteObject, Known, Older
<1>11. ASSUME NEW v \in Versions, NEW ok \in BOOLEAN, ChangeCRD(v, ok)
       PROVE  Known'
    BY IdentityIsLeft, <1>11, Zenon DEF ChangeCRD, Known
<1>12. ASSUME DeleteCRD \/ CRDIsGone
       PROVE  Known'
    BY <1>12, SMT, SMTT(60) DEF DeleteCRD, CRDIsGone, Known, Older
<1>13. ASSUME NEW v \in Versions, CreateCRD(v)
       PROVE  Known'
    BY IdentityIsLeft, <1>13, Zenon DEF CreateCRD, Known
<1>14. ASSUME NEW g \in APISet, CreateForeign(g) \/ ServeAPI(g)
       PROVE  Known'
    BY <1>14, SMT, SMTT(60) DEF CreateForeign, ServeAPI, Known, Older
<1>15. CASE UNCHANGED vars
    BY <1>15, SMT, SMTT(60) DEF Known, Older
<1> HIDE DEF IInv, TypeOK, vars, crdVars, requestVars, attemptVars, GoTo,
        CRDWritten, Existing, Key
<1> QED
    BY <1>1, <1>2, <1>3, <1>4, <1>5, <1>6, <1>7, <1>8, <1>9, <1>10, <1>11,
       <1>12, <1>13, <1>14, <1>15
    DEF Next, Operator, Step, Requests, Cluster

\* What a request is not waiting for is stored at its version.
LEMMA RequestStep ==
    ASSUME IInv, [Next]_vars
    PROVE  RequestCovers'
<1> USE MigrationAssumption DEF IInv, TypeOK, vars, crdVars, requestVars,
        attemptVars, GoTo, CRDWritten, Existing, Key, RequestCovers, History,
        LiveObjects
<1>1. ASSUME NEW a \in Attempts, Start(a) \/ Discover(a) \/ Fail(a)
                                 \/ Crash(a) \/ Restart(a)
      PROVE  RequestCovers'
    BY <1>1, Zenon DEF Start, Discover, Fail, Crash, Restart
<1>2. ASSUME NEW a \in Attempts, Validate(a)
      PROVE  RequestCovers'
    BY <1>2 DEF Validate
<1>3. ASSUME NEW a \in Attempts, CreateRequest(a)
      PROVE  RequestCovers'
    BY <1>3, SMT, SMTT(60) DEF CreateRequest
<1>4. ASSUME NEW a \in Attempts, ResumeRequest(a) \/ Poll(a)
      PROVE  RequestCovers'
    BY <1>4, Zenon DEF ResumeRequest, Poll
<1>5. ASSUME NEW a \in Attempts, RereadCRD(a)
      PROVE  RequestCovers'
    BY <1>5, Zenon DEF RereadCRD
<1>6. ASSUME NEW a \in Attempts, PatchHistory(a)
      PROVE  RequestCovers'
    BY <1>6, SMT, SMTT(60) DEF PatchHistory
<1>7. ASSUME NEW a \in Attempts, Cleanup(a)
      PROVE  RequestCovers'
    BY <1>7, Zenon DEF Cleanup, Delete
<1>8. ASSUME NEW k \in Existing, MigrationSucceeds(k) \/ MigrationFails(k)
      PROVE  RequestCovers'
    BY <1>8, SMT, SMTT(60) DEF MigrationSucceeds, MigrationFails
<1>9. ASSUME NEW k \in Existing, ReviewRequest(k) \/ DiscardRequest(k)
      PROVE  RequestCovers'
    BY <1>9, Zenon DEF ReviewRequest, DiscardRequest, Delete
<1>10. ASSUME NEW o \in Objects, WriteObject(o) \/ DeleteObject(o)
       PROVE  RequestCovers'
    BY <1>10, SMT, SMTT(60) DEF WriteObject, DeleteObject
<1>11. ASSUME NEW v \in Versions, NEW ok \in BOOLEAN, ChangeCRD(v, ok)
       PROVE  RequestCovers'
    BY IdentityIsLeft, <1>11, Zenon DEF ChangeCRD
<1>12. ASSUME DeleteCRD \/ CRDIsGone
       PROVE  RequestCovers'
    BY <1>12, Zenon DEF DeleteCRD, CRDIsGone
<1>13. ASSUME NEW v \in Versions, CreateCRD(v)
       PROVE  RequestCovers'
    BY IdentityIsLeft, <1>13, Zenon DEF CreateCRD
<1>14. ASSUME NEW g \in APISet, CreateForeign(g) \/ ServeAPI(g)
       PROVE  RequestCovers'
    BY <1>14, Zenon DEF CreateForeign, ServeAPI
<1>15. CASE UNCHANGED vars
    BY <1>15, SMT, SMTT(60)
<1> HIDE DEF IInv, TypeOK, vars, crdVars, requestVars, attemptVars, GoTo,
        CRDWritten, Existing, Key, RequestCovers, History, LiveObjects
<1> QED
    BY <1>1, <1>2, <1>3, <1>4, <1>5, <1>6, <1>7, <1>8, <1>9, <1>10, <1>11,
       <1>12, <1>13, <1>14, <1>15
    DEF Next, Operator, Step, Requests, Cluster

\* The success an attempt has seen holds until it patches.
LEMMA AttemptStep ==
    ASSUME IInv, [Next]_vars
    PROVE  AttemptCovers'
<1> USE MigrationAssumption DEF IInv, TypeOK, vars, crdVars, requestVars,
        attemptVars, GoTo, CRDWritten, Existing, Key, AttemptCovers,
        RequestCovers, LiveObjects, Usable
<1>1. ASSUME NEW a \in Attempts, Start(a) \/ Discover(a) \/ Fail(a)
                                 \/ Crash(a) \/ Restart(a)
      PROVE  AttemptCovers'
    BY <1>1, Zenon DEF Start, Discover, Fail, Crash, Restart
<1>2. ASSUME NEW a \in Attempts, Validate(a)
      PROVE  AttemptCovers'
    BY <1>2 DEF Validate
<1>3. ASSUME NEW a \in Attempts, CreateRequest(a)
      PROVE  AttemptCovers'
    BY <1>3 DEF CreateRequest
<1>4. ASSUME NEW a \in Attempts, ResumeRequest(a) \/ Poll(a)
      PROVE  AttemptCovers'
    BY <1>4, ZenonT(60) DEF ResumeRequest, Poll
<1>5. ASSUME NEW a \in Attempts, RereadCRD(a)
      PROVE  AttemptCovers'
    BY <1>5, Zenon DEF RereadCRD
<1>6. ASSUME NEW a \in Attempts, PatchHistory(a)
      PROVE  AttemptCovers'
    BY <1>6, Zenon DEF PatchHistory
<1>7. ASSUME NEW a \in Attempts, Cleanup(a)
      PROVE  AttemptCovers'
    BY <1>7, Zenon DEF Cleanup, Delete
<1>8. ASSUME NEW k \in Existing, MigrationSucceeds(k) \/ MigrationFails(k)
      PROVE  AttemptCovers'
    BY <1>8, Zenon DEF MigrationSucceeds, MigrationFails
<1>9. ASSUME NEW k \in Existing, ReviewRequest(k) \/ DiscardRequest(k)
      PROVE  AttemptCovers'
    BY <1>9, Zenon DEF ReviewRequest, DiscardRequest, Delete
<1>10. ASSUME NEW o \in Objects, WriteObject(o) \/ DeleteObject(o)
       PROVE  AttemptCovers'
    BY <1>10, SMT, SMTT(60) DEF WriteObject, DeleteObject
<1>11. ASSUME NEW v \in Versions, NEW ok \in BOOLEAN, ChangeCRD(v, ok)
       PROVE  AttemptCovers'
    BY IdentityIsLeft, <1>11, Zenon DEF ChangeCRD
<1>12. ASSUME DeleteCRD \/ CRDIsGone
       PROVE  AttemptCovers'
    BY <1>12, Zenon DEF DeleteCRD, CRDIsGone
<1>13. ASSUME NEW v \in Versions, CreateCRD(v)
       PROVE  AttemptCovers'
    BY IdentityIsLeft, <1>13, Zenon DEF CreateCRD
<1>14. ASSUME NEW g \in APISet, CreateForeign(g) \/ ServeAPI(g)
       PROVE  AttemptCovers'
    BY <1>14, Zenon DEF CreateForeign, ServeAPI
<1>15. CASE UNCHANGED vars
    BY <1>15, SMT, SMTT(60)
<1> HIDE DEF IInv, TypeOK, vars, crdVars, requestVars, attemptVars, GoTo,
        CRDWritten, Existing, Key, AttemptCovers, RequestCovers, LiveObjects,
        Usable
<1> QED
    BY <1>1, <1>2, <1>3, <1>4, <1>5, <1>6, <1>7, <1>8, <1>9, <1>10, <1>11,
       <1>12, <1>13, <1>14, <1>15
    DEF Next, Operator, Step, Requests, Cluster

\* A patch that the API server accepts meets the CRD that was reread.
LEMMA FreshStep ==
    ASSUME IInv, [Next]_vars
    PROVE  FreshCurrent'
<1> USE MigrationAssumption DEF IInv, TypeOK, vars, crdVars, requestVars,
        attemptVars, GoTo, CRDWritten, Existing, Key, FreshCurrent,
        HasStorageVersion
<1>1. ASSUME NEW a \in Attempts, Start(a) \/ Discover(a) \/ Fail(a)
                                 \/ Crash(a) \/ Restart(a)
      PROVE  FreshCurrent'
    BY <1>1, Zenon DEF Start, Discover, Fail, Crash, Restart
<1>2. ASSUME NEW a \in Attempts, Validate(a)
      PROVE  FreshCurrent'
    BY <1>2 DEF Validate
<1>3. ASSUME NEW a \in Attempts, CreateRequest(a)
      PROVE  FreshCurrent'
    BY <1>3, Zenon DEF CreateRequest
<1>4. ASSUME NEW a \in Attempts, ResumeRequest(a) \/ Poll(a)
      PROVE  FreshCurrent'
    BY <1>4, Zenon DEF ResumeRequest, Poll
<1>5. ASSUME NEW a \in Attempts, RereadCRD(a)
      PROVE  FreshCurrent'
    BY <1>5, SMT, SMTT(60) DEF RereadCRD
<1>6. ASSUME NEW a \in Attempts, PatchHistory(a)
      PROVE  FreshCurrent'
    BY <1>6, SMT, SMTT(60) DEF PatchHistory
<1>7. ASSUME NEW a \in Attempts, Cleanup(a)
      PROVE  FreshCurrent'
    BY <1>7, SMT, SMTT(60) DEF Cleanup, Delete
<1>8. ASSUME NEW k \in Existing, MigrationSucceeds(k) \/ MigrationFails(k)
      PROVE  FreshCurrent'
    BY <1>8 DEF MigrationSucceeds, MigrationFails
<1>9. ASSUME NEW k \in Existing, ReviewRequest(k) \/ DiscardRequest(k)
      PROVE  FreshCurrent'
    BY <1>9, Zenon DEF ReviewRequest, DiscardRequest, Delete
<1>10. ASSUME NEW o \in Objects, WriteObject(o) \/ DeleteObject(o)
       PROVE  FreshCurrent'
    BY <1>10, SMT, SMTT(60) DEF WriteObject, DeleteObject
<1>11. ASSUME NEW v \in Versions, NEW ok \in BOOLEAN, ChangeCRD(v, ok)
       PROVE  FreshCurrent'
    BY <1>11 DEF ChangeCRD
<1>12. ASSUME DeleteCRD \/ CRDIsGone
       PROVE  FreshCurrent'
    BY <1>12 DEF DeleteCRD, CRDIsGone
<1>13. ASSUME NEW v \in Versions, CreateCRD(v)
       PROVE  FreshCurrent'
    BY <1>13 DEF CreateCRD
<1>14. ASSUME NEW g \in APISet, CreateForeign(g) \/ ServeAPI(g)
       PROVE  FreshCurrent'
    BY <1>14, Zenon DEF CreateForeign, ServeAPI
<1>15. CASE UNCHANGED vars
    BY <1>15
<1> HIDE DEF IInv, TypeOK, vars, crdVars, requestVars, attemptVars, GoTo,
        CRDWritten, Existing, Key, FreshCurrent, HasStorageVersion
<1> QED
    BY <1>1, <1>2, <1>3, <1>4, <1>5, <1>6, <1>7, <1>8, <1>9, <1>10, <1>11,
       <1>12, <1>13, <1>14, <1>15
    DEF Next, Operator, Step, Requests, Cluster

\* Pruning keeps every version that is in use.
LEMMA HistoryStep ==
    ASSUME IInv, [Next]_vars
    PROVE  History'
<1> USE MigrationAssumption DEF IInv, TypeOK, vars, crdVars, requestVars,
        attemptVars, GoTo, CRDWritten, Existing, Key, History,
        HistoryCoversObjects, AttemptCovers, FreshCurrent, LiveObjects
<1>1. ASSUME NEW a \in Attempts, Start(a) \/ Discover(a) \/ Fail(a)
                                 \/ Crash(a) \/ Restart(a)
      PROVE  History'
    BY <1>1, Zenon DEF Start, Discover, Fail, Crash, Restart
<1>2. ASSUME NEW a \in Attempts, Validate(a)
      PROVE  History'
    BY <1>2 DEF Validate
<1>3. ASSUME NEW a \in Attempts, CreateRequest(a)
      PROVE  History'
    BY <1>3, Zenon DEF CreateRequest
<1>4. ASSUME NEW a \in Attempts, ResumeRequest(a) \/ Poll(a)
      PROVE  History'
    BY <1>4, Zenon DEF ResumeRequest, Poll
<1>5. ASSUME NEW a \in Attempts, RereadCRD(a)
      PROVE  History'
    BY <1>5 DEF RereadCRD
<1>6. ASSUME NEW a \in Attempts, PatchHistory(a)
      PROVE  History'
    BY <1>6, SMT, SMTT(60) DEF PatchHistory
<1>7. ASSUME NEW a \in Attempts, Cleanup(a)
      PROVE  History'
    BY <1>7, Zenon DEF Cleanup, Delete
<1>8. ASSUME NEW k \in Existing, MigrationSucceeds(k) \/ MigrationFails(k)
      PROVE  History'
    BY <1>8, SMT, SMTT(60) DEF MigrationSucceeds, MigrationFails
<1>9. ASSUME NEW k \in Existing, ReviewRequest(k) \/ DiscardRequest(k)
      PROVE  History'
    BY <1>9, Zenon DEF ReviewRequest, DiscardRequest, Delete
<1>10. ASSUME NEW o \in Objects, WriteObject(o) \/ DeleteObject(o)
       PROVE  History'
    BY <1>10, Zenon DEF WriteObject, DeleteObject
<1>11. ASSUME NEW v \in Versions, NEW ok \in BOOLEAN, ChangeCRD(v, ok)
       PROVE  History'
    BY <1>11 DEF ChangeCRD
<1>12. ASSUME DeleteCRD \/ CRDIsGone
       PROVE  History'
    BY <1>12 DEF DeleteCRD, CRDIsGone
<1>13. ASSUME NEW v \in Versions, CreateCRD(v)
       PROVE  History'
    BY <1>13, Zenon DEF CreateCRD
<1>14. ASSUME NEW g \in APISet, CreateForeign(g) \/ ServeAPI(g)
       PROVE  History'
    BY <1>14, Zenon DEF CreateForeign, ServeAPI
<1>15. CASE UNCHANGED vars
    BY <1>15
<1> HIDE DEF IInv, TypeOK, vars, crdVars, requestVars, attemptVars, GoTo,
        CRDWritten, Existing, Key, History, HistoryCoversObjects,
        AttemptCovers, FreshCurrent, LiveObjects
<1> QED
    BY <1>1, <1>2, <1>3, <1>4, <1>5, <1>6, <1>7, <1>8, <1>9, <1>10, <1>11,
       <1>12, <1>13, <1>14, <1>15
    DEF Next, Operator, Step, Requests, Cluster

\* The history stays pruned until the CRD is changed.
LEMMA PrunedStep ==
    ASSUME IInv, [Next]_vars
    PROVE  Pruned'
<1> USE MigrationAssumption DEF IInv, TypeOK, vars, crdVars, requestVars,
        attemptVars, GoTo, CRDWritten, Existing, Key, Pruned, FreshCurrent,
        HasStorageVersion, OnlyCurrent
<1>1. ASSUME NEW a \in Attempts, Start(a) \/ Discover(a) \/ Fail(a)
                                 \/ Crash(a) \/ Restart(a)
      PROVE  Pruned'
    BY <1>1, Zenon DEF Start, Discover, Fail, Crash, Restart
<1>2. ASSUME NEW a \in Attempts, Validate(a)
      PROVE  Pruned'
    BY <1>2 DEF Validate
<1>3. ASSUME NEW a \in Attempts, CreateRequest(a)
      PROVE  Pruned'
    BY <1>3, Zenon DEF CreateRequest
<1>4. ASSUME NEW a \in Attempts, ResumeRequest(a) \/ Poll(a)
      PROVE  Pruned'
    BY <1>4, Zenon DEF ResumeRequest, Poll
<1>5. ASSUME NEW a \in Attempts, RereadCRD(a)
      PROVE  Pruned'
    BY <1>5, SMT, SMTT(60) DEF RereadCRD
<1>6. ASSUME NEW a \in Attempts, PatchHistory(a)
      PROVE  Pruned'
    BY <1>6 DEF PatchHistory
<1>7. ASSUME NEW a \in Attempts, Cleanup(a)
      PROVE  Pruned'
    BY <1>7, Zenon DEF Cleanup, Delete
<1>8. ASSUME NEW k \in Existing, MigrationSucceeds(k) \/ MigrationFails(k)
      PROVE  Pruned'
    BY <1>8, Zenon DEF MigrationSucceeds, MigrationFails
<1>9. ASSUME NEW k \in Existing, ReviewRequest(k) \/ DiscardRequest(k)
      PROVE  Pruned'
    BY <1>9, Zenon DEF ReviewRequest, DiscardRequest, Delete
<1>10. ASSUME NEW o \in Objects, WriteObject(o) \/ DeleteObject(o)
       PROVE  Pruned'
    BY <1>10, Zenon DEF WriteObject, DeleteObject
<1>11. ASSUME NEW v \in Versions, NEW ok \in BOOLEAN, ChangeCRD(v, ok)
       PROVE  Pruned'
    BY IdentityIsLeft, <1>11, Zenon DEF ChangeCRD
<1>12. ASSUME DeleteCRD \/ CRDIsGone
       PROVE  Pruned'
    BY <1>12, Zenon DEF DeleteCRD, CRDIsGone
<1>13. ASSUME NEW v \in Versions, CreateCRD(v)
       PROVE  Pruned'
    BY IdentityIsLeft, <1>13, Zenon DEF CreateCRD
<1>14. ASSUME NEW g \in APISet, CreateForeign(g) \/ ServeAPI(g)
       PROVE  Pruned'
    BY <1>14, Zenon DEF CreateForeign, ServeAPI
<1>15. CASE UNCHANGED vars
    BY <1>15, SMT, SMTT(60)
<1> HIDE DEF IInv, TypeOK, vars, crdVars, requestVars, attemptVars, GoTo,
        CRDWritten, Existing, Key, Pruned, FreshCurrent, HasStorageVersion,
        OnlyCurrent
<1> QED
    BY <1>1, <1>2, <1>3, <1>4, <1>5, <1>6, <1>7, <1>8, <1>9, <1>10, <1>11,
       <1>12, <1>13, <1>14, <1>15
    DEF Next, Operator, Step, Requests, Cluster

\* The request of an attempt past its polls has succeeded, while it exists.
LEMMA HeldStep ==
    ASSUME IInv, [Next]_vars
    PROVE  HeldSucceeded'
<1> USE MigrationAssumption DEF IInv, TypeOK, vars, crdVars, requestVars,
        attemptVars, GoTo, CRDWritten, Existing, Key, HeldSucceeded, Usable
<1>1. ASSUME NEW a \in Attempts, Start(a) \/ Discover(a) \/ Fail(a)
                                 \/ Crash(a) \/ Restart(a)
      PROVE  HeldSucceeded'
    BY <1>1, SMT, SMTT(60) DEF Start, Discover, Fail, Crash, Restart
<1>2. ASSUME NEW a \in Attempts, Validate(a)
      PROVE  HeldSucceeded'
    BY <1>2 DEF Validate
<1>3. ASSUME NEW a \in Attempts, CreateRequest(a)
      PROVE  HeldSucceeded'
    BY <1>3, Zenon DEF CreateRequest
<1>4. ASSUME NEW a \in Attempts, ResumeRequest(a) \/ Poll(a)
      PROVE  HeldSucceeded'
    BY <1>4, SMT, SMTT(60) DEF ResumeRequest, Poll
<1>5. ASSUME NEW a \in Attempts, RereadCRD(a)
      PROVE  HeldSucceeded'
    BY <1>5, Zenon DEF RereadCRD
<1>6. ASSUME NEW a \in Attempts, PatchHistory(a)
      PROVE  HeldSucceeded'
    BY <1>6, Zenon DEF PatchHistory
<1>7. ASSUME NEW a \in Attempts, Cleanup(a)
      PROVE  HeldSucceeded'
    BY <1>7, ZenonT(60) DEF Cleanup, Delete
<1>8. ASSUME NEW k \in Existing, MigrationSucceeds(k) \/ MigrationFails(k)
      PROVE  HeldSucceeded'
    BY <1>8, Zenon DEF MigrationSucceeds, MigrationFails
<1>9. ASSUME NEW k \in Existing, ReviewRequest(k) \/ DiscardRequest(k)
      PROVE  HeldSucceeded'
    BY <1>9, Zenon DEF ReviewRequest, DiscardRequest, Delete
<1>10. ASSUME NEW o \in Objects, WriteObject(o) \/ DeleteObject(o)
       PROVE  HeldSucceeded'
    BY <1>10, Zenon DEF WriteObject, DeleteObject
<1>11. ASSUME NEW v \in Versions, NEW ok \in BOOLEAN, ChangeCRD(v, ok)
       PROVE  HeldSucceeded'
    BY <1>11 DEF ChangeCRD
<1>12. ASSUME DeleteCRD \/ CRDIsGone
       PROVE  HeldSucceeded'
    BY <1>12, Zenon DEF DeleteCRD, CRDIsGone
<1>13. ASSUME NEW v \in Versions, CreateCRD(v)
       PROVE  HeldSucceeded'
    BY <1>13, Zenon DEF CreateCRD
<1>14. ASSUME NEW g \in APISet, CreateForeign(g) \/ ServeAPI(g)
       PROVE  HeldSucceeded'
    BY <1>14, Zenon DEF CreateForeign, ServeAPI
<1>15. CASE UNCHANGED vars
    BY <1>15, Zenon
<1> HIDE DEF IInv, TypeOK, vars, crdVars, requestVars, attemptVars, GoTo,
        CRDWritten, Existing, Key, HeldSucceeded, Usable
<1> QED
    BY <1>1, <1>2, <1>3, <1>4, <1>5, <1>6, <1>7, <1>8, <1>9, <1>10, <1>11,
       <1>12, <1>13, <1>14, <1>15
    DEF Next, Operator, Step, Requests, Cluster

LEMMA InvInit == Init => IInv
<1> SUFFICES ASSUME Init PROVE IInv
    OBVIOUS
<1>1. APIs[1] \in APISet
    BY MigrationAssumption DEF APISet
<1>2. TypeOK
    BY <1>1, MigrationAssumption DEF Init, TypeOK, Identities, Keys, Existing,
        Active, LiveObjects
<1> QED
    BY <1>2, Zenon DEF Init, IInv, Known, Older, RequestCovers, AttemptCovers,
        FreshCurrent, History, HistoryCoversObjects, Pruned, HeldSucceeded,
        Existing, LiveObjects

\* The inductive invariant holds in every state.
THEOREM Invariance == Spec => []IInv
<1>1. IInv /\ [Next]_vars => IInv'
    <2> SUFFICES ASSUME IInv, [Next]_vars PROVE IInv'
        OBVIOUS
    <2>1. TypeOK' /\ Known' /\ RequestCovers' /\ AttemptCovers'
        BY TypeStep, KnownStep, RequestStep, AttemptStep
    <2>2. FreshCurrent' /\ History' /\ Pruned' /\ HeldSucceeded'
        BY FreshStep, HistoryStep, PrunedStep, HeldStep
    <2> QED
        BY <2>1, <2>2 DEF IInv
<1> QED
    BY <1>1, InvInit, PTL DEF Spec

\* The types of TypeOK, for every instance.
THEOREM TypeCorrect == Spec => []TypeOK
<1>1. IInv => TypeOK
    BY DEF IInv
<1> QED
    BY <1>1, Invariance, PTL

\* pruneStorageHistory never drops a version at which an object is stored, for
\* any number of processes, objects and versions and for any sequence of CRD
\* changes, failures and interventions.
THEOREM HistoryIsSafe == Spec => []HistoryCoversObjects
<1>1. IInv => HistoryCoversObjects
    BY DEF IInv, History
<1> QED
    BY <1>1, Invariance, PTL

\* An attempt that ended without an error has left the history with the storage
\* version alone, as long as the CRD has not been changed.
THEOREM SuccessIsHonest == Spec => []DoneMeansPruned
<1>1. IInv => DoneMeansPruned
    BY DEF IInv, Pruned, DoneMeansPruned
<1> QED
    BY <1>1, Invariance, PTL

\* cleanup deletes only the operator's own succeeded request, after the history
\* it stands for has been pruned.
THEOREM OnlySpentDeleted == Spec => DeletesOnlySpent
<1> DEFINE Spent ==
        pc' # pc =>
            \A k \in Existing :
                k \notin Existing' =>
                    /\ k \in succeeded /\ k \notin foreign
                    /\ phase # "absent" /\ k.crd = id => OnlyCurrent
<1>1. IInv /\ [Next]_vars => [Spent]_vars
    <2> SUFFICES ASSUME IInv, Next PROVE Spent
        BY DEF vars
    <2>1. ASSUME NEW a \in Attempts, Cleanup(a)
          PROVE  Spent
        <3> SUFFICES ASSUME NEW k \in Existing, k \notin Existing'
                     PROVE  /\ k \in succeeded /\ k \notin foreign
                            /\ phase # "absent" /\ k.crd = id => OnlyCurrent
            OBVIOUS
        <3>1. k = Key(a) /\ held[a] /\ pc[a] = "cleanup"
            BY <2>1, Zenon DEF Cleanup, Delete, Existing, requestVars
        <3> QED
            BY <3>1 DEF IInv, HeldSucceeded, Pruned, Key
    <2>2. ASSUME NEW a \in Attempts, Operator(a), ~Cleanup(a)
          PROVE  Existing \subseteq Existing'
        BY <2>2, Zenon DEF Operator, Step, Start, Validate, Discover, CreateRequest,
            ResumeRequest, Poll, RereadCRD, PatchHistory, Fail, Crash, Restart,
            Existing, requestVars
    <2>3. ASSUME NEW k \in Existing, Requests(k)
          PROVE  pc' = pc
        BY <2>3, Zenon DEF Requests, MigrationSucceeds, MigrationFails, ReviewRequest,
            DiscardRequest, attemptVars
    <2>4. ASSUME Cluster
          PROVE  pc' = pc
        BY <2>4, Zenon DEF Cluster, WriteObject, DeleteObject, ChangeCRD, DeleteCRD,
            CRDIsGone, CreateCRD, CreateForeign, ServeAPI, attemptVars
    <2> QED
        BY <2>1, <2>2, <2>3, <2>4 DEF Next
<1> QED
    BY <1>1, Invariance, PTL DEF Spec, DeletesOnlySpent

\* The calls of overlapping attempts, with all that happens between them, do to
\* the storage history what StorageHistory allows: it is pruned in one step,
\* and only while every object is stored at the storage version.
THEOREM ImplementsHistory == Spec => Abstract!Init /\ PruningIsAtomic
<1>1. Init => Abstract!Init
    <2>1. Init => id.storage \in Versions
        BY DEF Init
    <2> QED
        BY <2>1 DEF Init, Abstract!Init, Abstract!Nothing
<1>2. IInv /\ [Next]_vars => [Abstract!Next]_(Abstract!vars)
    <2> SUFFICES ASSUME IInv, [Next]_vars
                 PROVE  Abstract!Next \/ UNCHANGED Abstract!vars
        OBVIOUS
    <2> USE DEF Abstract!vars, crdVars
    <2>1. ASSUME NEW a \in Attempts, PatchHistory(a)
          PROVE  Abstract!Next \/ UNCHANGED Abstract!vars
        <3>1. CASE fresh[a]
            <4>1. /\ pc[a] = "patch" /\ stored' = {saw[a].storage}
                  /\ UNCHANGED <<phase, id, objects>>
                BY <2>1, <3>1, Zenon DEF PatchHistory
            <4>2. phase = "live" /\ saw[a] = id
                BY <3>1, <4>1 DEF IInv, FreshCurrent
            <4>3. \A o \in Objects : objects[o] \in {id.storage, "none"}
                BY <4>1, <4>2 DEF IInv, AttemptCovers, LiveObjects
            <4>4. Abstract!Prune
                BY <4>1, <4>2, <4>3 DEF Abstract!Prune
            <4> QED
                BY <4>4 DEF Abstract!Next
        <3>2. CASE ~fresh[a]
            BY <2>1, <3>2, SMT, SMTT(60) DEF PatchHistory
        <3> QED
            BY <3>1, <3>2, Zenon
    <2>2. ASSUME NEW a \in Attempts, Operator(a), ~PatchHistory(a)
          PROVE  UNCHANGED Abstract!vars
        BY <2>2, Zenon DEF Operator, Step, Start, Validate, Discover, CreateRequest,
            ResumeRequest, Poll, RereadCRD, Cleanup, Fail, Crash, Restart
    <2>3. ASSUME NEW k \in Existing, Requests(k)
          PROVE  UNCHANGED Abstract!vars
        BY <2>3, Zenon DEF Requests, MigrationSucceeds, MigrationFails, ReviewRequest,
            DiscardRequest
    <2>4. ASSUME NEW o \in Objects, WriteObject(o)
          PROVE  Abstract!Next
        <3>1. Abstract!Store(o)
            BY <2>4, SMT, SMTT(60) DEF WriteObject, Abstract!Store
        <3> QED
            BY <3>1 DEF Abstract!Next
    <2>5. ASSUME NEW o \in Objects, DeleteObject(o)
          PROVE  Abstract!Next
        <3>1. Abstract!Remove(o)
            BY <2>5 DEF DeleteObject, Abstract!Remove
        <3> QED
            BY <3>1 DEF Abstract!Next
    <2>6. ASSUME NEW v \in Versions, NEW ok \in BOOLEAN, ChangeCRD(v, ok)
          PROVE  Abstract!Next
        <3>1. id'.storage = v
            BY <2>6 DEF ChangeCRD, IInv, TypeOK, Identities
        <3>2. Abstract!Switch(v)
            BY <2>6, <3>1 DEF ChangeCRD, Abstract!Switch
        <3> QED
            BY <3>2 DEF Abstract!Next
    <2>7. ASSUME NEW v \in Versions, CreateCRD(v)
          PROVE  Abstract!Next
        <3>1. Abstract!Recreate(v)
            BY <2>7, SMT, SMTT(60) DEF CreateCRD, Abstract!Recreate
        <3> QED
            BY <3>1 DEF Abstract!Next
    <2>8. CASE CRDIsGone
        <3>1. Abstract!Drop
            BY <2>8 DEF CRDIsGone, Abstract!Drop, Abstract!Nothing
        <3> QED
            BY <3>1 DEF Abstract!Next
    <2>9. CASE DeleteCRD \/ (\E g \in APISet : CreateForeign(g) \/ ServeAPI(g)) \/ UNCHANGED vars
        BY <2>9, Zenon DEF DeleteCRD, CreateForeign, ServeAPI, vars
    <2> QED
        BY <2>1, <2>2, <2>3, <2>4, <2>5, <2>6, <2>7, <2>8, <2>9, Zenon DEF Next, Cluster
<1> QED
    BY <1>1, <1>2, Invariance, PTL DEF Spec, PruningIsAtomic

=============================================================================
