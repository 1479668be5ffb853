--------------------------- MODULE Preconditions ---------------------------
(***************************************************************************)
(* Checks that run before a reconcile: whether the APIs a component needs  *)
(* are served, whether the operator it depends on is healthy, and how the  *)
(* results of several checks become conditions and a decision to stop.     *)
(*                                                                         *)
(* A check yields "True", "False", "Unknown" or "error" (it could not be   *)
(* carried out).                                                           *)
(***************************************************************************)
EXTENDS Naturals, FiniteSets, Sequences, SequencesExt

\* Results built by hand may contradict themselves; those are unknown.
ConditionStatus(r) ==
    CASE r.status = ""                   -> IF r.pass THEN "True" ELSE "False"
      [] r.status = "True"  /\ r.pass    -> "True"
      [] r.status = "False" /\ ~r.pass   -> "False"
      [] OTHER                           -> "Unknown"

Passed == [pass |-> TRUE, status |-> "True"]
Failed == [pass |-> FALSE, status |-> "False"]
Indeterminate == [pass |-> FALSE, status |-> "Unknown"]
ReadError == [pass |-> FALSE, status |-> "error"]

-----------------------------------------------------------------------------
\* Required APIs

\* A CRD as read by name: "none", "error" (the read fails), or its lifecycle
\* and the versions it declares with whether they are served.
servesVersion(crd, version) == version \in DOMAIN crd.versions /\ crd.versions[version]

checkRequiredAPI(crd, version) ==
    CASE crd.read = "error"   -> ReadError
      [] crd.read = "none"    -> Failed
      [] crd.terminating      -> Failed
      [] version # "" /\ ~servesVersion(crd, version) -> Failed
      [] ~crd.established     -> Indeterminate
      [] OTHER                -> Passed

\* A mistake: the first check that does not pass decides.
FirstFindingWins(results) ==
    LET open == SelectSeq(results, LAMBDA r : r # Passed)
    IN  IF results = <<>> THEN ReadError ELSE IF open = <<>> THEN Passed ELSE Head(open)

\* A definite failure wins over a read error, and that over what is not known.
CombineAPIs(results) ==
    CASE results = <<>> -> ReadError
      [] \E k \in DOMAIN results : results[k] = Failed        -> Failed
      [] \E k \in DOMAIN results : results[k] = ReadError     -> ReadError
      [] \E k \in DOMAIN results : results[k] = Indeterminate -> Indeterminate
      [] OTHER -> Passed

CheckRequiredAPIs(crds, version) ==
    CombineAPIs([k \in DOMAIN crds |-> checkRequiredAPI(crds[k], version)])

-----------------------------------------------------------------------------
\* Operator health

\* The entries of status.conditions; one without a type or a status is skipped,
\* a type that is repeated makes the whole list unreadable.
readConditions(entries) ==
    LET usable == SelectSeq(entries, LAMBDA e : e.type # "" /\ e.status # "")
        types  == {usable[k].type : k \in DOMAIN usable}
    IN  [readable |-> Cardinality(types) = Len(usable),
         status   |-> [t \in types |-> usable[CHOOSE k \in DOMAIN usable : usable[k].type = t].status]]

collectDegradedConditions(filter, conditions) ==
    {t \in DOMAIN conditions : <<t, conditions[t]>> \in filter}

\* A mistake: a condition that is missing or Unknown counts as met.
SilenceIsConsent(required, conditions) ==
    [unmet |-> {t \in DOMAIN required \cap DOMAIN conditions :
                   conditions[t] \in {"True", "False"} /\ conditions[t] # required[t]},
     indeterminate |-> {}]

evaluateRequiredConditions(required, conditions) ==
    [unmet |-> {t \in DOMAIN required \cap DOMAIN conditions :
                   conditions[t] \in {"True", "False"} /\ conditions[t] # required[t]},
     indeterminate |-> {t \in DOMAIN required :
                   t \notin DOMAIN conditions \/ conditions[t] \notin {"True", "False"}}]

\* "read" says how the CR was found: "nomatch" (its API is not known), "none",
\* "error" or "found".
CheckOperatorHealth(config, cr) ==
    LET conditions == readConditions(cr.conditions)
        degraded   == collectDegradedConditions(config.filter, conditions.status)
        verdict    == evaluateRequiredConditions(config.required, conditions.status)
    IN  CASE config.filter = {} /\ DOMAIN config.required = {} -> ReadError
          [] cr.read = "nomatch" -> IF config.noMatchAsUnknown THEN Indeterminate ELSE Passed
          [] cr.read = "none"    -> IF config.requireCR THEN Failed ELSE Passed
          [] cr.read = "error"   -> ReadError
          [] ~conditions.readable -> Indeterminate
          [] degraded # {} \/ verdict.unmet # {} -> Failed
          [] verdict.indeterminate # {} -> Indeterminate
          [] OTHER -> Passed

-----------------------------------------------------------------------------
\* Aggregation

\* The result of a check that applies; "skip" is one that does not, because of
\* the cluster type or its skip function, which may itself fail.
ResultOf(pc) ==
    CASE pc.skip = "skip"  -> "True"
      [] pc.skip = "error" \/ pc.result = ReadError -> "Unknown"
      [] OTHER -> ConditionStatus(pc.result)

NewAggregate == [status |-> "True", severity |-> "Info", stop |-> FALSE]

\* A mistake: what a later check finds replaces what an earlier one found.
LastResultWins(agg, pc) ==
    LET s == ResultOf(pc)
    IN  IF s = "True" THEN agg
        ELSE [status |-> s, severity |-> pc.severity, stop |-> agg.stop \/ pc.stop]

record(agg, pc) ==
    LET s == ResultOf(pc)
    IN  IF s = "True" THEN agg
        ELSE [status   |-> IF s = "False" \/ agg.status = "False" THEN "False" ELSE "Unknown",
              severity |-> IF pc.severity = "Error" THEN "Error" ELSE agg.severity,
              stop     |-> agg.stop \/ pc.stop]

\* One aggregate per condition type that a precondition names.
RunAll(pcs) ==
    [t \in {pcs[k].type : k \in DOMAIN pcs} |->
        FoldLeft(record, NewAggregate, SelectSeq(pcs, LAMBDA pc : pc.type = t))]

ShouldStop(results) == \E t \in DOMAIN results : results[t].stop

-----------------------------------------------------------------------------
\* Properties, for every input

\* An API set counts as there exactly when every API is established, stays and
\* serves the version, and as missing exactly when one certainly is not; what
\* could not be read never hides that, whatever the order (CheckRequiredAPIs).
APIsAreThere(crds, version) ==
    LET result == CheckRequiredAPIs(crds, version)
        there(crd) == crd.read = "found" /\ ~crd.terminating /\ (version = "" \/ servesVersion(crd, version))
    IN  /\ result = Passed => \A k \in DOMAIN crds : there(crds[k]) /\ crds[k].established
        /\ (result = Failed) <=> \E k \in DOMAIN crds : crds[k].read # "error" /\ ~there(crds[k])
        /\ result = CheckRequiredAPIs(Reverse(crds), version)

\* An operator whose CR was read is healthy only if each condition that is
\* required says so itself and none that is watched for is raised, and unhealthy
\* only if some condition says so (CheckOperatorHealth).
HealthIsReported(config, cr) ==
    LET result == CheckOperatorHealth(config, cr)
        says(t, s) == \E k \in DOMAIN cr.conditions : cr.conditions[k] = [type |-> t, status |-> s]
    IN  cr.read = "found" =>
          /\ result = Passed => /\ \A t \in DOMAIN config.required : says(t, config.required[t])
                                /\ \A f \in config.filter : ~says(f[1], f[2])
          /\ result = Failed => \/ \E f \in config.filter : says(f[1], f[2])
                                \/ \E t \in DOMAIN config.required : \E s \in {"True", "False"} \ {config.required[t]} : says(t, s)

\* What several checks report under one condition does not depend on the order
\* they run in: a definite failure wins over what is not known, nothing that did
\* not pass is lost, and the pass stops exactly when a check that may stop it did
\* not pass (RunAll, ShouldStop).
AggregateIsFair(pcs) ==
    LET results == RunAll(pcs)
        open(t) == {k \in DOMAIN pcs : pcs[k].type = t /\ ResultOf(pcs[k]) # "True"}
    IN  /\ results = RunAll(Reverse(pcs))
        /\ \A t \in DOMAIN results :
              /\ (results[t].status = "True") <=> (open(t) = {})
              /\ (results[t].status = "False") <=> \E k \in open(t) : ResultOf(pcs[k]) = "False"
              /\ (results[t].severity = "Error") <=> \E k \in open(t) : pcs[k].severity = "Error"
        /\ ShouldStop(results) <=> \E t \in DOMAIN results : \E k \in open(t) : pcs[k].stop

=============================================================================
