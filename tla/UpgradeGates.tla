---------------------------- MODULE UpgradeGates ----------------------------
(***************************************************************************)
(* The admin-ack gates: EnsureGates against the shared odh-upgrade-acks    *)
(* ConfigMap.                                                              *)
(*                                                                         *)
(* Provisioning checks the gates in one step; here every API call is one.  *)
(* Several operator processes (leader election is off by default, so an    *)
(* old and a new one may overlap) read the ConfigMap through their own     *)
(* informer caches, which lag behind the API server, and write it under    *)
(* optimistic concurrency, while an administrator edits or deletes it.     *)
(*                                                                         *)
(* A gate key ack-<version>-<description> is the sequence of its           *)
(* dash-separated words.  Instead of resourceVersions the model records    *)
(* which copies of the ConfigMap are still the server's latest, which is   *)
(* all that an Update compares.                                            *)
(***************************************************************************)
EXTENDS Sequences, Naturals

CONSTANTS
    Procs,          \* operator processes
    Version,        \* the version of each, as a sequence of words
    Keys,           \* gate keys
    Descriptions,   \* gate messages
    InTree,         \* per process: the gate map embedded in its binary
    Charts,         \* per process: the gate maps its module charts may carry
    LabelledKeys    \* keys that labelled ConfigMaps may carry

Missing == ""       \* what a Go map of strings gives for an absent key
Acked == "true"
Values == Descriptions \cup {Missing, Acked}
GateMaps == [Keys -> Descriptions \cup {Missing}]

ASSUME KeysAssumption ==
    /\ \A k \in Keys : Len(k) \in Nat
    /\ \A p \in Procs : Len(Version[p]) \in Nat
\* A message is neither empty nor the acknowledgement itself.
ASSUME DescriptionsAssumption == Missing \notin Descriptions /\ Acked \notin Descriptions
ASSUME SourcesAssumption ==
    /\ InTree \in [Procs -> GateMaps]
    /\ Charts \in [Procs -> SUBSET GateMaps]
    /\ LabelledKeys \subseteq Keys

VARIABLES
    server,         \* the ConfigMap at the API server: exists, data
    labelled,       \* the gates of the labelled ConfigMaps of the operator namespace
    cache,          \* per process: its informer's copy of the ConfigMap
    synced,         \* processes whose cache has the server's latest version
    pending,        \* processes with a queued Platform request
    pc,             \* per process: the API call EnsureGates makes next
    gates,          \* per process: "filtered", the gates of its version
    cm,             \* per process: the data it is about to write
    valid,          \* processes whose cm is based on the server's latest version
    outcome,        \* per process: what the last call returned
    approved        \* history: keys an administrator ever set to "true"

vars == <<server, labelled, cache, synced, pending, pc, gates, cm, valid, outcome, approved>>

NoData == [k \in Keys |-> Missing]
NoCM == [exists |-> FALSE, data |-> NoData]
ConfigMap == [exists: BOOLEAN, data: [Keys -> Values]]

TypeOK ==
    /\ server \in ConfigMap
    /\ labelled \in GateMaps
    /\ cache \in [Procs -> ConfigMap]
    /\ synced \subseteq Procs
    /\ pending \subseteq Procs
    /\ pc \in [Procs -> {"idle", "get", "create", "reget", "update"}]
    /\ gates \in [Procs -> GateMaps]
    /\ cm \in [Procs -> [Keys -> Values]]
    /\ valid \subseteq Procs
    /\ outcome \in [Procs -> {"none", "pass", "blocked", "error"}]
    /\ approved \subseteq Keys

(***************************************************************************)
(* The gates of a version                                                  *)
(***************************************************************************)

\* strings.HasPrefix(k, "ack-" + v + "-")
HasPrefix(k, v) == Len(k) > Len(v) /\ \A i \in 1..Len(v) : k[i] = v[i]

\* Later sources win: in-tree, labelled ConfigMaps, charts.
AllGates(p, charts) ==
    [k \in Keys |-> IF charts[k] # Missing THEN charts[k]
                    ELSE IF labelled[k] # Missing THEN labelled[k] ELSE InTree[p][k]]

Filtered(p, charts) ==
    [k \in Keys |-> IF HasPrefix(k, Version[p]) THEN AllGates(p, charts)[k] ELSE Missing]

Keyset(g) == {k \in Keys : g[k] # Missing}

Overwritten(data, g) == [k \in Keys |-> IF g[k] = Missing THEN data[k] ELSE g[k]]

\* The data with the descriptions of g, acknowledged keys left alone.
Merged(data, g) ==
    [k \in Keys |-> IF g[k] = Missing \/ data[k] = Acked THEN data[k] ELSE g[k]]

CollectUnacked(data, g) == {k \in Keyset(g) : data[k] # Acked}

(***************************************************************************)
(* EnsureGates                                                             *)
(***************************************************************************)

\* CheckUpgradeGates stops the chain without a retry while a gate is unacknowledged.
Conclude(p, data, g) ==
    /\ pc' = [pc EXCEPT ![p] = "idle"]
    /\ outcome' = [outcome EXCEPT ![p] = IF CollectUnacked(data, g) = {} THEN "pass" ELSE "blocked"]

\* An error is returned: the request is retried.
Fail(p) ==
    /\ pc' = [pc EXCEPT ![p] = "idle"]
    /\ outcome' = [outcome EXCEPT ![p] = "error"]
    /\ pending' = pending \cup {p}

\* A reconcile collects the gates of the three sources; with none there is no API call.
Collect(p, charts) ==
    /\ pc[p] = "idle" /\ p \in pending
    /\ pending' = pending \ {p}
    /\ gates' = [gates EXCEPT ![p] = Filtered(p, charts)]
    /\ \/ /\ Keyset(Filtered(p, charts)) = {}
          /\ Conclude(p, NoData, Filtered(p, charts))
       \/ /\ Keyset(Filtered(p, charts)) # {}
          /\ pc' = [pc EXCEPT ![p] = "get"]
          /\ outcome' = [outcome EXCEPT ![p] = "none"]
    /\ UNCHANGED <<server, labelled, cache, synced, cm, valid, approved>>

\* The ConfigMap was found: an Update follows when the merge changed it.
Merge(p) ==
    /\ cache[p].exists
    /\ LET data == Merged(cache[p].data, gates[p]) IN
          \/ /\ data = cache[p].data
             /\ Conclude(p, data, gates[p])
             /\ UNCHANGED <<cm, valid>>
          \/ /\ data # cache[p].data
             /\ pc' = [pc EXCEPT ![p] = "update"]
             /\ cm' = [cm EXCEPT ![p] = data]
             /\ valid' = IF p \in synced THEN valid \cup {p} ELSE valid \ {p}
             /\ UNCHANGED outcome
    /\ UNCHANGED <<server, labelled, cache, synced, pending, gates, approved>>

Get(p) ==
    /\ pc[p] = "get"
    /\ \/ Merge(p)
       \/ /\ ~cache[p].exists
          /\ pc' = [pc EXCEPT ![p] = "create"]
          /\ UNCHANGED <<server, labelled, cache, synced, pending, gates, cm, valid, outcome, approved>>

\* The server's ConfigMap changes: every copy of it is out of date.
Write(new) ==
    /\ server' = new
    /\ synced' = {}
    /\ valid' = {}

CreateRaceIgnored(p) ==
    /\ pc[p] = "create"
    /\ \/ /\ ~server.exists
          /\ Write([exists |-> TRUE, data |-> gates[p]])
          /\ Conclude(p, gates[p], gates[p])
       \/ /\ server.exists
          /\ pc' = [pc EXCEPT ![p] = "idle"]
          /\ outcome' = [outcome EXCEPT ![p] = "pass"]
          /\ UNCHANGED <<server, synced, valid>>
    /\ UNCHANGED <<labelled, cache, pending, gates, cm, approved>>

\* Losing the race to create the ConfigMap leads to another Get.
Create(p) ==
    /\ pc[p] = "create"
    /\ \/ /\ ~server.exists
          /\ Write([exists |-> TRUE, data |-> gates[p]])
          /\ Conclude(p, gates[p], gates[p])
       \/ /\ server.exists
          /\ pc' = [pc EXCEPT ![p] = "reget"]
          /\ UNCHANGED <<server, synced, valid, outcome>>
    /\ UNCHANGED <<labelled, cache, pending, gates, cm, approved>>

\* The Get after AlreadyExists; the cache may still not have the ConfigMap.
Reget(p) ==
    /\ pc[p] = "reget"
    /\ \/ Merge(p)
       \/ /\ ~cache[p].exists
          /\ Fail(p)
          /\ UNCHANGED <<server, labelled, cache, synced, gates, cm, valid, approved>>

\* A mistake: after a conflict the same copy is sent again.
UpdateAgain(p) ==
    /\ pc[p] = "update"
    /\ IF p \in valid
       THEN /\ Write([exists |-> TRUE, data |-> cm[p]])
            /\ Conclude(p, cm[p], gates[p])
            /\ cm' = [cm EXCEPT ![p] = NoData]
       ELSE UNCHANGED <<server, synced, valid, pc, outcome, cm>>
    /\ UNCHANGED <<labelled, cache, pending, gates, approved>>

\* Update succeeds only on the latest version; otherwise it is a conflict.
Update(p) ==
    /\ pc[p] = "update"
    /\ \/ /\ p \in valid
          /\ Write([exists |-> TRUE, data |-> cm[p]])
          /\ Conclude(p, cm[p], gates[p])
          /\ UNCHANGED pending
       \/ /\ p \notin valid
          /\ Fail(p)
          /\ UNCHANGED <<server, synced, valid>>
    /\ cm' = [cm EXCEPT ![p] = NoData]
    /\ UNCHANGED <<labelled, cache, gates, approved>>

\* Any of the calls may fail for other reasons, before it takes effect.
ApiError(p) ==
    /\ pc[p] # "idle"
    /\ Fail(p)
    /\ cm' = [cm EXCEPT ![p] = NoData]
    /\ valid' = valid \ {p}
    /\ UNCHANGED <<server, labelled, cache, synced, gates, approved>>

(***************************************************************************)
(* Watches, the administrator and restarts                                 *)
(***************************************************************************)

SyncQuietly(p) ==
    /\ p \notin synced
    /\ cache' = [cache EXCEPT ![p] = server]
    /\ synced' = synced \cup {p}
    /\ UNCHANGED <<server, labelled, pending, pc, gates, cm, valid, outcome, approved>>

\* The informer of p catches up; every event on the ConfigMap queues the Platform.
Sync(p) ==
    /\ p \notin synced
    /\ cache' = [cache EXCEPT ![p] = server]
    /\ synced' = synced \cup {p}
    /\ pending' = pending \cup {p}
    /\ UNCHANGED <<server, labelled, pc, gates, cm, valid, outcome, approved>>

\* kubectl patch of an existing ConfigMap, the key present or not.
Ack(k) ==
    /\ server.exists /\ server.data[k] # Acked
    /\ Write([exists |-> TRUE, data |-> [server.data EXCEPT ![k] = Acked]])
    /\ approved' = approved \cup {k}
    /\ UNCHANGED <<labelled, cache, pending, pc, gates, cm, outcome>>

Withdraw(k) ==
    /\ server.exists /\ server.data[k] = Acked
    /\ Write([exists |-> TRUE, data |-> [server.data EXCEPT ![k] = Missing]])
    /\ UNCHANGED <<labelled, cache, pending, pc, gates, cm, outcome, approved>>

DeleteCM ==
    /\ server.exists
    /\ Write(NoCM)
    /\ UNCHANGED <<labelled, cache, pending, pc, gates, cm, outcome, approved>>

\* A labelled gate ConfigMap is created, changed or deleted; it is watched too.
Label(k, d) ==
    /\ labelled[k] # d
    /\ labelled' = [labelled EXCEPT ![k] = d]
    /\ pending' = Procs
    /\ UNCHANGED <<server, cache, synced, pc, gates, cm, valid, outcome, approved>>

\* The process is restarted: it lists the ConfigMap and queues the Platform.
Restart(p) ==
    /\ pc' = [pc EXCEPT ![p] = "idle"]
    /\ outcome' = [outcome EXCEPT ![p] = "none"]
    /\ cache' = [cache EXCEPT ![p] = server]
    /\ synced' = synced \cup {p}
    /\ pending' = pending \cup {p}
    /\ cm' = [cm EXCEPT ![p] = NoData]
    /\ valid' = valid \ {p}
    /\ UNCHANGED <<server, labelled, gates, approved>>

Init ==
    /\ server = NoCM
    /\ labelled = NoData
    /\ cache = [p \in Procs |-> NoCM]
    /\ synced = Procs
    /\ pending = Procs
    /\ pc = [p \in Procs |-> "idle"]
    /\ gates = [p \in Procs |-> NoData]
    /\ cm = [p \in Procs |-> NoData]
    /\ valid = {}
    /\ outcome = [p \in Procs |-> "none"]
    /\ approved = {}

EnsureGates(p) ==
    \/ \E charts \in Charts[p] : Collect(p, charts)
    \/ Get(p)
    \/ Create(p)
    \/ Reget(p)
    \/ Update(p)
    \/ ApiError(p)

Environment ==
    \/ \E p \in Procs : Sync(p) \/ Restart(p)
    \/ \E k \in Keys : Ack(k) \/ Withdraw(k)
    \/ \E k \in LabelledKeys, d \in Descriptions \cup {Missing} : Label(k, d)
    \/ DeleteCM

Next == (\E p \in Procs : EnsureGates(p)) \/ Environment

Spec == Init /\ [][Next]_vars

\* A queued request is eventually worked on, an API call that is made again and again
\* eventually gets through, and the informers catch up.
Fairness ==
    \A p \in Procs :
        /\ WF_vars(\E charts \in Charts[p] : Collect(p, charts))
        /\ SF_vars(Get(p)) /\ SF_vars(Create(p)) /\ SF_vars(Reget(p)) /\ SF_vars(Update(p))
        /\ WF_vars(Sync(p))

FairSpec == Spec /\ Fairness

(***************************************************************************)
(* Properties                                                              *)
(***************************************************************************)

IsAcked(k) == server.data[k] = Acked

\* "Entries already set to true are never overwritten": only an administrator takes an
\* acknowledgement back.  EnsureGates works on a cached copy that may miss it.
AcksSurvive ==
    [][\A k \in Keys : IsAcked(k) /\ ~IsAcked(k)' => Withdraw(k) \/ DeleteCM]_vars

\* Provisioning goes on only over gates an administrator has acknowledged: EnsureGates
\* returns no unacknowledged gate only if each gate of the version was once set to "true".
PassMeansApproved ==
    \A p \in Procs : outcome[p] = "pass" => Keyset(gates[p]) \subseteq approved

\* No lost wakeup: an operator that rests with its informer up to date has the right
\* verdict on the ConfigMap as it is now, and the administrator finds every gate it
\* waits for described there.
RestIsJustified ==
    \A p \in Procs :
        pc[p] = "idle" /\ p \in synced \ pending =>
            /\ outcome[p] = "pass" <=> \A k \in Keyset(gates[p]) : IsAcked(k)
            /\ \A k \in Keyset(gates[p]) : server.data[k] \in {Acked, gates[p][k]}

\* "Provisioning resumes automatically once all gates are acknowledged": the watch on
\* odh-upgrade-acks is the only thing that wakes a blocked operator.
GatesOpenEventually ==
    \A p \in Procs : <>[](\A k \in Keys : IsAcked(k)) => []<>(outcome[p] = "pass")

=============================================================================
