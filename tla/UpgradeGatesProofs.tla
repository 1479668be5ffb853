------------------------ MODULE UpgradeGatesProofs --------------------------
(***************************************************************************)
(* Proofs about UpgradeGates, for any processes, versions, keys and gates. *)
(*                                                                         *)
(* The argument is optimistic concurrency: a copy marked as the latest is  *)
(* a copy of what the server holds (CopiesAgree), so a write that is not a *)
(* conflict keeps every acknowledgement (ValidKeeps), and a verdict on a   *)
(* cache that is up to date is a verdict on the server (RestIsJustified).  *)
(***************************************************************************)
EXTENDS UpgradeGates, TLAPS

AbsentIsEmpty == ~server.exists => server.data = NoData

CopiesAgree == \A p \in synced : cache[p] = server

ValidKeeps ==
    \A p \in valid : server.exists /\ \A k \in Keys : IsAcked(k) => cm[p][k] = Acked

AckedIsApproved ==
    /\ \A k \in Keys : server.data[k] = Acked => k \in approved
    /\ \A p \in Procs, k \in Keys : cache[p].data[k] = Acked => k \in approved
    /\ \A p \in Procs, k \in Keys : cm[p][k] = Acked => k \in approved

Inv ==
    /\ TypeOK
    /\ AbsentIsEmpty
    /\ CopiesAgree
    /\ ValidKeeps
    /\ AckedIsApproved
    /\ PassMeansApproved
    /\ RestIsJustified

(***************************************************************************)
(* The gate maps                                                           *)
(***************************************************************************)

\* The gates EnsureGates filters out of the three sources are a gate map.
LEMMA FilteredType ==
    ASSUME NEW p \in Procs, NEW charts \in Charts[p], labelled \in GateMaps
    PROVE  Filtered(p, charts) \in GateMaps
  BY SourcesAssumption DEF Filtered, AllGates, GateMaps

\* The merge yields ConfigMap data, keeps every acknowledgement and adds none.
LEMMA MergedFacts ==
    ASSUME NEW data \in [Keys -> Values], NEW g \in GateMaps
    PROVE  /\ Merged(data, g) \in [Keys -> Values]
           /\ \A k \in Keys : Merged(data, g)[k] = Acked <=> data[k] = Acked
           /\ \A k \in Keyset(g) : Merged(data, g)[k] \in {Acked, g[k]}
  BY DescriptionsAssumption DEF Merged, GateMaps, Values, Keyset

\* A gate map is ConfigMap data without an acknowledgement.
LEMMA GateMapFacts ==
    ASSUME NEW g \in GateMaps
    PROVE  g \in [Keys -> Values] /\ \A k \in Keys : g[k] # Acked
  BY DescriptionsAssumption, Zenon DEF GateMaps, Values, Acked, Missing

LEMMA NoDataFacts == NoData \in [Keys -> Values] /\ NoData \in GateMaps
  BY DEF NoData, Values, GateMaps

(***************************************************************************)
(* Types                                                                   *)
(***************************************************************************)

LEMMA MergeTypes ==
    ASSUME TypeOK, NEW p \in Procs, Merge(p)
    PROVE  TypeOK'
  <1> DEFINE data == Merged(cache[p].data, gates[p])
  <1>1. cache[p] \in ConfigMap /\ gates[p] \in GateMaps
    BY DEF TypeOK
  <1>2. data \in [Keys -> Values]
    BY <1>1, MergedFacts DEF ConfigMap
  <1> HIDE DEF data
  <1>3. /\ pc' \in [Procs -> {"idle", "get", "create", "reget", "update"}]
        /\ outcome' \in [Procs -> {"none", "pass", "blocked", "error"}]
        /\ cm' \in [Procs -> [Keys -> Values]]
        /\ valid' \subseteq Procs
    <2>1. CASE Conclude(p, data, gates[p]) /\ UNCHANGED <<cm, valid>>
      BY <2>1, SMT, SMTT(60) DEF TypeOK, Conclude
    <2>2. CASE /\ pc' = [pc EXCEPT ![p] = "update"] /\ cm' = [cm EXCEPT ![p] = data]
               /\ valid' = (IF p \in synced THEN valid \cup {p} ELSE valid \ {p})
               /\ UNCHANGED outcome
      BY <1>2, <2>2, SMT, SMTT(60) DEF TypeOK
    <2> QED
      BY <2>1, <2>2, Zenon DEF Merge, data
  <1> QED BY <1>3 DEF TypeOK, Merge

LEMMA NextTypes == TypeOK /\ [Next]_vars => TypeOK'
  <1> SUFFICES ASSUME TypeOK, [Next]_vars PROVE TypeOK'
    OBVIOUS
  <1>1. ASSUME NEW p \in Procs, NEW charts \in Charts[p], Collect(p, charts) PROVE TypeOK'
    <2>1. gates' \in [Procs -> GateMaps]
      BY <1>1, FilteredType DEF TypeOK, Collect
    <2> QED BY <1>1, <2>1, Zenon DEF TypeOK, Collect, Conclude
  <1>2. ASSUME NEW p \in Procs, Get(p) PROVE TypeOK'
    BY <1>2, MergeTypes DEF TypeOK, Get
  <1>3. ASSUME NEW p \in Procs, Create(p) PROVE TypeOK'
    <2>1. gates[p] \in [Keys -> Values]
      BY GateMapFacts DEF TypeOK
    <2>2. server' \in ConfigMap /\ synced' \subseteq Procs /\ valid' \subseteq Procs
      <3>1. [exists |-> TRUE, data |-> gates[p]] \in ConfigMap
        BY <2>1 DEF ConfigMap
      <3> QED BY <1>3, <3>1, Zenon DEF TypeOK, Create, Write
    <2> QED BY <1>3, <2>2, Zenon DEF TypeOK, Create, Conclude
  <1>4. ASSUME NEW p \in Procs, Reget(p) PROVE TypeOK'
    BY <1>4, MergeTypes, SMT, SMTT(60) DEF TypeOK, Reget, Fail
  <1>5. ASSUME NEW p \in Procs, Update(p) PROVE TypeOK'
    <2>1. server' \in ConfigMap /\ synced' \subseteq Procs /\ valid' \subseteq Procs
      <3>1. [exists |-> TRUE, data |-> cm[p]] \in ConfigMap
        BY DEF TypeOK, ConfigMap
      <3> QED BY <1>5, <3>1, Zenon DEF TypeOK, Update, Write
    <2>2. cm' \in [Procs -> [Keys -> Values]]
      BY <1>5, NoDataFacts DEF TypeOK, Update
    <2> QED BY <1>5, <2>1, <2>2, Zenon DEF TypeOK, Update, Conclude, Fail
  <1>6. ASSUME NEW p \in Procs, ApiError(p) PROVE TypeOK'
    BY <1>6, NoDataFacts DEF TypeOK, ApiError, Fail
  <1>7. ASSUME NEW p \in Procs, Sync(p) PROVE TypeOK'
    BY <1>7 DEF TypeOK, Sync
  <1>8. ASSUME NEW p \in Procs, Restart(p) PROVE TypeOK'
    BY <1>8, NoDataFacts DEF TypeOK, Restart
  <1>9. ASSUME NEW k \in Keys, Ack(k) PROVE TypeOK'
    BY <1>9 DEF TypeOK, Ack, Write, ConfigMap, Values
  <1>10. ASSUME NEW k \in Keys, Withdraw(k) PROVE TypeOK'
    BY <1>10 DEF TypeOK, Withdraw, Write, ConfigMap, Values
  <1>11. CASE DeleteCM
    BY <1>11, NoDataFacts DEF TypeOK, DeleteCM, Write, ConfigMap, NoCM
  <1>12. ASSUME NEW k \in LabelledKeys, NEW d \in Descriptions \cup {Missing}, Label(k, d)
         PROVE  TypeOK'
    BY <1>12, Zenon DEF TypeOK, Label, GateMaps
  <1>13. CASE UNCHANGED vars
    BY <1>13 DEF TypeOK, vars
  <1> QED
    BY <1>1, <1>2, <1>3, <1>4, <1>5, <1>6, <1>7, <1>8, <1>9, <1>10, <1>11, <1>12, <1>13
    DEF Next, EnsureGates, Environment

(***************************************************************************)
(* Copies of the ConfigMap                                                 *)
(***************************************************************************)

CopyInv == AbsentIsEmpty /\ CopiesAgree /\ ValidKeeps

\* A merge based on an up-to-date cache keeps every acknowledgement of the server.
LEMMA MergeCopies ==
    ASSUME TypeOK, CopyInv, NEW p \in Procs, Merge(p)
    PROVE  CopyInv'
  <1>1. cache[p].data \in [Keys -> Values] /\ gates[p] \in GateMaps
    BY DEF TypeOK, ConfigMap
  <1>2. AbsentIsEmpty' /\ CopiesAgree'
    BY DEF CopyInv, AbsentIsEmpty, CopiesAgree, Merge
  <1>3. ValidKeeps'
    <2> SUFFICES ASSUME NEW q \in valid' PROVE server.exists /\ \A k \in Keys : server.data[k] = Acked => cm'[q][k] = Acked
      BY DEF ValidKeeps, IsAcked, Merge
    <2>1. CASE cm' = cm /\ valid' = valid
      BY <2>1 DEF CopyInv, ValidKeeps, IsAcked
    <2>2. CASE /\ cm' = [cm EXCEPT ![p] = Merged(cache[p].data, gates[p])]
               /\ valid' = IF p \in synced THEN valid \cup {p} ELSE valid \ {p}
      <3>1. CASE q = p
        <4>1. p \in synced /\ cache[p] = server /\ cache[p].exists
          BY <2>2, <3>1 DEF CopyInv, CopiesAgree, Merge
        <4>2. cm'[q] = Merged(cache[p].data, gates[p])
          BY <2>2, <3>1 DEF TypeOK
        <4> QED BY <1>1, <4>1, <4>2, MergedFacts
      <3>2. CASE q # p
        BY <2>2, <3>2 DEF TypeOK, CopyInv, ValidKeeps, IsAcked
      <3> QED BY <3>1, <3>2
    <2> QED BY <2>1, <2>2 DEF Merge
  <1> QED BY <1>2, <1>3 DEF CopyInv

LEMMA NextCopies == TypeOK /\ CopyInv /\ [Next]_vars => CopyInv'
  <1> SUFFICES ASSUME TypeOK, CopyInv, [Next]_vars PROVE CopyInv'
    OBVIOUS
  <1> USE DEF CopyInv, AbsentIsEmpty, CopiesAgree, ValidKeeps, IsAcked
  <1>1. ASSUME NEW p \in Procs, NEW charts \in Charts[p], Collect(p, charts) PROVE CopyInv'
    BY <1>1 DEF Collect
  <1>2. ASSUME NEW p \in Procs, Get(p) PROVE CopyInv'
    BY <1>2, MergeCopies DEF Get
  <1>3. ASSUME NEW p \in Procs, Create(p) PROVE CopyInv'
    BY <1>3 DEF Create, Write
  <1>4. ASSUME NEW p \in Procs, Reget(p) PROVE CopyInv'
    BY <1>4, MergeCopies DEF Reget
  <1>5. ASSUME NEW p \in Procs, Update(p) PROVE CopyInv'
    BY <1>5 DEF Update, Write, TypeOK
  <1>6. ASSUME NEW p \in Procs, ApiError(p) PROVE CopyInv'
    BY <1>6 DEF ApiError, TypeOK
  <1>7. ASSUME NEW p \in Procs, Sync(p) PROVE CopyInv'
    BY <1>7 DEF Sync, TypeOK
  <1>8. ASSUME NEW p \in Procs, Restart(p) PROVE CopyInv'
    BY <1>8 DEF Restart, TypeOK
  <1>9. ASSUME NEW k \in Keys, Ack(k) \/ Withdraw(k) PROVE CopyInv'
    BY <1>9 DEF Ack, Withdraw, Write
  <1>10. CASE DeleteCM
    BY <1>10 DEF DeleteCM, Write, NoCM
  <1>11. ASSUME NEW k \in LabelledKeys, NEW d \in Descriptions \cup {Missing}, Label(k, d)
         PROVE  CopyInv'
    BY <1>11 DEF Label
  <1>12. CASE UNCHANGED vars
    BY <1>12 DEF vars
  <1> QED
    BY <1>1, <1>2, <1>3, <1>4, <1>5, <1>6, <1>7, <1>8, <1>9, <1>10, <1>11, <1>12
   , Zenon DEF Next, EnsureGates, Environment

(***************************************************************************)
(* Verdicts                                                                *)
(***************************************************************************)

LEMMA NextApproved == TypeOK /\ AckedIsApproved /\ [Next]_vars => AckedIsApproved'
  <1> SUFFICES ASSUME TypeOK, AckedIsApproved, [Next]_vars PROVE AckedIsApproved'
    OBVIOUS
  <1>a. \A k \in Keys : NoData[k] # Acked
    BY DEF NoData, Missing, Acked
  <1>b. ASSUME NEW p \in Procs, Merge(p) PROVE AckedIsApproved'
    <2>1. /\ cache[p].data \in [Keys -> Values] /\ gates[p] \in GateMaps
      BY DEF TypeOK, ConfigMap
    <2>2. \A k \in Keys : Merged(cache[p].data, gates[p])[k] = Acked => k \in approved
      BY <2>1, MergedFacts DEF AckedIsApproved
    <2>3. cm' = cm \/ cm' = [cm EXCEPT ![p] = Merged(cache[p].data, gates[p])]
      BY <1>b DEF Merge
    <2>4. \A q \in Procs, k \in Keys : cm'[q][k] = Acked => k \in approved
      BY <2>2, <2>3, Zenon DEF AckedIsApproved, TypeOK
    <2> QED BY <1>b, <2>4 DEF AckedIsApproved, Merge
  <1>1. ASSUME NEW p \in Procs, NEW charts \in Charts[p], Collect(p, charts) PROVE AckedIsApproved'
    BY <1>1 DEF AckedIsApproved, Collect
  <1>2. ASSUME NEW p \in Procs, Get(p) PROVE AckedIsApproved'
    BY <1>2, <1>b DEF AckedIsApproved, Get
  <1>3. ASSUME NEW p \in Procs, Create(p) PROVE AckedIsApproved'
    <2>1. \A k \in Keys : gates[p][k] # Acked
      BY GateMapFacts DEF TypeOK
    <2> QED BY <1>3, <2>1 DEF AckedIsApproved, Create, Write
  <1>4. ASSUME NEW p \in Procs, Reget(p) PROVE AckedIsApproved'
    BY <1>4, <1>b DEF AckedIsApproved, Reget
  <1>5. ASSUME NEW p \in Procs, Update(p) PROVE AckedIsApproved'
    <2>1. \A k \in Keys : server'.data[k] = Acked => k \in approved
      BY <1>5 DEF AckedIsApproved, Update, Write
    <2>2. \A q \in Procs, k \in Keys : cm'[q][k] = Acked => k \in approved
      BY <1>5, <1>a DEF AckedIsApproved, Update, TypeOK
    <2> QED BY <1>5, <2>1, <2>2 DEF AckedIsApproved, Update
  <1>6. ASSUME NEW p \in Procs, ApiError(p) PROVE AckedIsApproved'
    BY <1>6, <1>a DEF AckedIsApproved, ApiError, TypeOK
  <1>7. ASSUME NEW p \in Procs, Sync(p) PROVE AckedIsApproved'
    BY <1>7 DEF AckedIsApproved, Sync, TypeOK
  <1>8. ASSUME NEW p \in Procs, Restart(p) PROVE AckedIsApproved'
    BY <1>8, <1>a DEF AckedIsApproved, Restart, TypeOK
  <1>9. ASSUME NEW k \in Keys, Ack(k) PROVE AckedIsApproved'
    BY <1>9 DEF AckedIsApproved, Ack, Write, TypeOK, ConfigMap
  <1>10. ASSUME NEW k \in Keys, Withdraw(k) PROVE AckedIsApproved'
    BY <1>10 DEF AckedIsApproved, Withdraw, Write, TypeOK, ConfigMap
  <1>11. CASE DeleteCM
    BY <1>11, <1>a DEF AckedIsApproved, DeleteCM, Write, NoCM
  <1>12. ASSUME NEW k \in LabelledKeys, NEW d \in Descriptions \cup {Missing}, Label(k, d)
         PROVE  AckedIsApproved'
    BY <1>12 DEF AckedIsApproved, Label
  <1>13. CASE UNCHANGED vars
    BY <1>13 DEF AckedIsApproved, vars
  <1> QED
    BY <1>1, <1>2, <1>3, <1>4, <1>5, <1>6, <1>7, <1>8, <1>9, <1>10, <1>11, <1>12, <1>13
    DEF Next, EnsureGates, Environment

\* What a verdict reached now says of the data it was reached on.
LEMMA ConcludeFacts ==
    ASSUME TypeOK, NEW p \in Procs, NEW data, NEW g, Conclude(p, data, g)
    PROVE  /\ \A q \in Procs \ {p} : outcome'[q] = outcome[q] /\ pc'[q] = pc[q]
           /\ outcome'[p] = "pass" <=> \A k \in Keyset(g) : data[k] = Acked
  BY DEF TypeOK, Conclude, CollectUnacked

LEMMA MergePass ==
    ASSUME TypeOK, AckedIsApproved, PassMeansApproved, NEW p \in Procs, Merge(p)
    PROVE  PassMeansApproved'
  <1> DEFINE data == Merged(cache[p].data, gates[p])
  <1>1. cache[p].data \in [Keys -> Values] /\ gates[p] \in GateMaps
    BY DEF TypeOK, ConfigMap
  <1>2. \A k \in Keys : data[k] = Acked => k \in approved
    BY <1>1, MergedFacts DEF AckedIsApproved
  <1> HIDE DEF data
  <1>3. CASE Conclude(p, data, gates[p])
    <2>1. outcome'[p] = "pass" => Keyset(gates[p]) \subseteq approved
      BY <1>2, <1>3, ConcludeFacts DEF Keyset
    <2> QED BY <1>3, <2>1, ConcludeFacts DEF PassMeansApproved, Merge, Keyset
  <1>4. CASE UNCHANGED outcome
    BY <1>4 DEF PassMeansApproved, Merge, Keyset
  <1> QED BY <1>3, <1>4 DEF Merge, data

LEMMA NextPass ==
    TypeOK /\ AckedIsApproved /\ PassMeansApproved /\ [Next]_vars => PassMeansApproved'
  <1> SUFFICES ASSUME TypeOK, AckedIsApproved, PassMeansApproved, [Next]_vars
               PROVE  PassMeansApproved'
    OBVIOUS
  <1> USE DEF PassMeansApproved, Keyset
  <1>1. ASSUME NEW p \in Procs, NEW charts \in Charts[p], Collect(p, charts)
        PROVE  PassMeansApproved'
    <2>1. CASE Keyset(Filtered(p, charts)) = {}
      BY <1>1, <2>1, Zenon DEF Collect, Conclude, TypeOK
    <2>2. CASE outcome' = [outcome EXCEPT ![p] = "none"]
      BY <1>1, <2>2, Zenon DEF Collect, TypeOK
    <2> QED BY <1>1, <2>1, <2>2, SMT, SMTT(60) DEF Collect
  <1>2. ASSUME NEW p \in Procs, Get(p) PROVE PassMeansApproved'
    BY <1>2, MergePass DEF Get
  <1>3. ASSUME NEW p \in Procs, Create(p) PROVE PassMeansApproved'
    <2>1. \A k \in Keys : gates[p][k] # Acked
      BY GateMapFacts DEF TypeOK
    <2>2. CASE Conclude(p, gates[p], gates[p])
      BY <1>3, <2>1, <2>2, ConcludeFacts DEF Create
    <2>3. CASE UNCHANGED outcome
      BY <1>3, <2>3, Zenon DEF Create
    <2> QED BY <1>3, <2>2, <2>3 DEF Create
  <1>4. ASSUME NEW p \in Procs, Reget(p) PROVE PassMeansApproved'
    BY <1>4, MergePass DEF Reget, Fail, TypeOK
  <1>5. ASSUME NEW p \in Procs, Update(p) PROVE PassMeansApproved'
    <2>1. CASE Conclude(p, cm[p], gates[p])
      <3>1. outcome'[p] = "pass" => Keyset(gates[p]) \subseteq approved
        BY <2>1, ConcludeFacts DEF AckedIsApproved
      <3> QED BY <1>5, <2>1, <3>1, ConcludeFacts DEF Update
    <2>2. CASE Fail(p)
      BY <1>5, <2>2, Zenon DEF Update, Fail, TypeOK
    <2> QED BY <1>5, <2>1, <2>2 DEF Update
  <1>6. ASSUME NEW p \in Procs, ApiError(p) PROVE PassMeansApproved'
    BY <1>6 DEF ApiError, Fail, TypeOK
  <1>7. ASSUME NEW p \in Procs, Sync(p) \/ Restart(p) PROVE PassMeansApproved'
    BY <1>7 DEF Sync, Restart, TypeOK
  <1>8. ASSUME NEW k \in Keys, Ack(k) \/ Withdraw(k) PROVE PassMeansApproved'
    BY <1>8 DEF Ack, Withdraw
  <1>9. CASE DeleteCM
    BY <1>9 DEF DeleteCM
  <1>10. ASSUME NEW k \in LabelledKeys, NEW d \in Descriptions \cup {Missing}, Label(k, d)
         PROVE  PassMeansApproved'
    BY <1>10 DEF Label
  <1>11. CASE UNCHANGED vars
    BY <1>11 DEF vars
  <1> QED
    BY <1>1, <1>2, <1>3, <1>4, <1>5, <1>6, <1>7, <1>8, <1>9, <1>10, <1>11, Zenon
    DEF Next, EnsureGates, Environment

\* One process at rest, with the right verdict.
Justified(p) ==
    pc[p] = "idle" /\ p \in synced \ pending =>
        /\ outcome[p] = "pass" <=> \A k \in Keyset(gates[p]) : IsAcked(k)
        /\ \A k \in Keyset(gates[p]) : server.data[k] \in {Acked, gates[p][k]}

LEMMA MergeRest ==
    ASSUME TypeOK, CopiesAgree, RestIsJustified, NEW p \in Procs, Merge(p)
    PROVE  RestIsJustified'
  <1> DEFINE data == Merged(cache[p].data, gates[p])
  <1>1. cache[p].data \in [Keys -> Values] /\ gates[p] \in GateMaps
    BY DEF TypeOK, ConfigMap
  <1>2. \A k \in Keyset(gates[p]) : data[k] \in {Acked, gates[p][k]}
    BY <1>1, MergedFacts
  <1> HIDE DEF data
  <1> SUFFICES ASSUME NEW q \in Procs PROVE Justified(q)'
    BY DEF RestIsJustified, Justified
  <1>3. CASE data = cache[p].data /\ Conclude(p, data, gates[p])
    <2>1. CASE q = p
      <3>1. p \in synced => data = server.data
        BY <1>3 DEF CopiesAgree
      <3>2. outcome'[p] = "pass" <=> \A k \in Keyset(gates[p]) : data[k] = Acked
        BY <1>3, ConcludeFacts, SMT, SMTT(60)
      <3> QED BY <1>2, <2>1, <3>1, <3>2, SMT, SMTT(60) DEF Justified, Merge, IsAcked, Keyset
    <2>2. CASE q # p
      <3>1. outcome'[q] = outcome[q] /\ pc'[q] = pc[q]
        BY <1>3, <2>2, ConcludeFacts, SMT, SMTT(60)
      <3> QED BY <3>1, Zenon DEF RestIsJustified, Justified, Merge, IsAcked, Keyset
    <2> QED BY <2>1, <2>2
  <1>4. CASE pc' = [pc EXCEPT ![p] = "update"] /\ UNCHANGED outcome
    BY <1>4, Zenon DEF RestIsJustified, Justified, Merge, IsAcked, Keyset, TypeOK
  <1> QED BY <1>3, <1>4 DEF Merge, data

LEMMA NextRest ==
    TypeOK /\ CopiesAgree /\ RestIsJustified /\ [Next]_vars => RestIsJustified'
  <1> SUFFICES ASSUME TypeOK, CopiesAgree, RestIsJustified, [Next]_vars
               PROVE  RestIsJustified'
    OBVIOUS
  <1> USE DEF RestIsJustified, IsAcked, Keyset
  <1>1. ASSUME NEW p \in Procs, NEW charts \in Charts[p], Collect(p, charts)
        PROVE  RestIsJustified'
    <2> SUFFICES ASSUME NEW q \in Procs PROVE Justified(q)'
      BY Zenon DEF Justified
    <2>1. CASE q # p
      BY <1>1, <2>1, ZenonT(60) DEF Collect, Conclude, TypeOK, Justified
    <2>2. CASE q = p /\ Keyset(Filtered(p, charts)) = {}
      BY <1>1, <2>2, SMT, SMTT(60) DEF Collect, Conclude, CollectUnacked, TypeOK, Justified
    <2>3. CASE q = p /\ Keyset(Filtered(p, charts)) # {}
      <3>1. pc'[p] = "get"
        BY <1>1, <2>3, Zenon DEF Collect, TypeOK
      <3> QED BY <2>3, <3>1 DEF Justified
    <2> QED BY <2>1, <2>2, <2>3, SMT, SMTT(60)
  <1>2. ASSUME NEW p \in Procs, Get(p) PROVE RestIsJustified'
    BY <1>2, MergeRest, SMT, SMTT(60) DEF Get, TypeOK
  <1>3. ASSUME NEW p \in Procs, Create(p) PROVE RestIsJustified'
    BY <1>3 DEF Create, Write, TypeOK
  <1>4. ASSUME NEW p \in Procs, Reget(p) PROVE RestIsJustified'
    BY <1>4, MergeRest, SMT, SMTT(60) DEF Reget, Fail, TypeOK
  <1>5. ASSUME NEW p \in Procs, Update(p) PROVE RestIsJustified'
    BY <1>5, SMT, SMTT(60) DEF Update, Write, Fail, TypeOK
  <1>6. ASSUME NEW p \in Procs, ApiError(p) PROVE RestIsJustified'
    BY <1>6, Zenon DEF ApiError, Fail, TypeOK
  <1>7. ASSUME NEW p \in Procs, Sync(p) PROVE RestIsJustified'
    BY <1>7, Zenon DEF Sync, TypeOK
  <1>8. ASSUME NEW p \in Procs, Restart(p) PROVE RestIsJustified'
    BY <1>8, Zenon DEF Restart, TypeOK
  <1>9. ASSUME NEW k \in Keys, Ack(k) \/ Withdraw(k) PROVE RestIsJustified'
    BY <1>9, Zenon DEF Ack, Withdraw, Write
  <1>10. CASE DeleteCM
    BY <1>10, Zenon DEF DeleteCM, Write
  <1>11. ASSUME NEW k \in LabelledKeys, NEW d \in Descriptions \cup {Missing}, Label(k, d)
         PROVE  RestIsJustified'
    BY <1>11, Zenon DEF Label
  <1>12. CASE UNCHANGED vars
    BY <1>12, Zenon DEF vars
  <1> QED
    BY <1>1, <1>2, <1>3, <1>4, <1>5, <1>6, <1>7, <1>8, <1>9, <1>10, <1>11, <1>12, Zenon
    DEF Next, EnsureGates, Environment

(***************************************************************************)
(* Theorems                                                                *)
(***************************************************************************)

LEMMA InitInv == Init => Inv
  <1> SUFFICES ASSUME Init PROVE Inv
    OBVIOUS
  <1>1. TypeOK
    BY NoDataFacts DEF Init, TypeOK, NoCM, ConfigMap
  <1>2. AbsentIsEmpty /\ CopiesAgree /\ ValidKeeps
    BY DEF Init, AbsentIsEmpty, CopiesAgree, ValidKeeps, NoCM
  <1>3. AckedIsApproved
    BY Zenon DEF Init, AckedIsApproved, NoCM, NoData, Missing, Acked
  <1>4. PassMeansApproved /\ RestIsJustified
    BY DEF Init, PassMeansApproved, RestIsJustified
  <1> QED BY <1>1, <1>2, <1>3, <1>4 DEF Inv

\* The inductive invariant: it holds initially and every step of Next keeps it.
THEOREM Invariance == Spec => []Inv
  <1>1. Inv /\ [Next]_vars => Inv'
    BY NextTypes, NextCopies, NextApproved, NextPass, NextRest DEF Inv, CopyInv
  <1> QED BY InitInv, <1>1, PTL DEF Spec

\* The types of the model hold for all processes, versions, keys and gate sources.
THEOREM TypeCorrect == Spec => []TypeOK
  <1>1. Inv => TypeOK
    BY DEF Inv
  <1> QED BY <1>1, Invariance, PTL

\* However many operator versions share the ConfigMap, whatever their caches miss,
\* provisioning passes only gates that an administrator acknowledged.
THEOREM PassIsApproved == Spec => []PassMeansApproved
  <1>1. Inv => PassMeansApproved
    BY DEF Inv
  <1> QED BY <1>1, Invariance, PTL

\* An operator that has seen the latest ConfigMap and has nothing queued rests on the
\* right verdict: no acknowledgement is ever missed.
THEOREM NoLostWakeup == Spec => []RestIsJustified
  <1>1. Inv => RestIsJustified
    BY DEF Inv
  <1> QED BY <1>1, Invariance, PTL

\* No step of an operator takes an acknowledgement back.
THEOREM AcksAreKept == Spec => AcksSurvive
  <1>1. ASSUME Inv, [Next]_vars, NEW k \in Keys, IsAcked(k), ~IsAcked(k)'
        PROVE  Withdraw(k) \/ DeleteCM
    <2> USE <1>1 DEF IsAcked
    <2>1. server.exists
      BY Zenon DEF Inv, AbsentIsEmpty, NoData, Missing, Acked
    <2>2. ASSUME NEW p \in Procs, Update(p) PROVE FALSE
      BY <2>2, SMT, SMTT(60) DEF Update, Write, Inv, ValidKeeps
    <2>3. ASSUME NEW p \in Procs, Create(p) PROVE FALSE
      BY <2>1, <2>3 DEF Create
    <2>4. ASSUME NEW p \in Procs, EnsureGates(p) PROVE FALSE
      BY <2>2, <2>3, <2>4, Zenon DEF EnsureGates, Collect, Get, Reget, Merge, ApiError
    <2>5. ASSUME NEW l \in Keys, Ack(l) PROVE FALSE
      BY <2>5 DEF Ack, Write, Inv, TypeOK, ConfigMap
    <2>6. ASSUME NEW l \in Keys, Withdraw(l), l # k PROVE FALSE
      BY <2>6 DEF Withdraw, Write, Inv, TypeOK, ConfigMap
    <2>7. ASSUME NEW p \in Procs, Sync(p) \/ Restart(p) PROVE FALSE
      BY <2>7 DEF Sync, Restart
    <2>8. ASSUME NEW l \in LabelledKeys, NEW d \in Descriptions \cup {Missing}, Label(l, d)
          PROVE  FALSE
      BY <2>8 DEF Label
    <2>9. CASE UNCHANGED vars
      BY <2>9 DEF vars
    <2> QED
      BY <2>4, <2>5, <2>6, <2>7, <2>8, <2>9, Zenon DEF Next, Environment
  <1>2. Inv /\ [Next]_vars =>
            [\A k \in Keys : IsAcked(k) /\ ~IsAcked(k)' => Withdraw(k) \/ DeleteCM]_vars
    BY <1>1
  <1> QED BY <1>2, Invariance, PTL DEF Spec, AcksSurvive

=============================================================================
