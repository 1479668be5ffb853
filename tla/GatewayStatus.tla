--------------------------- MODULE GatewayStatus ---------------------------
(***************************************************************************)
(* The readiness conditions of the GatewayConfig's additional ingresses    *)
(* and what is computed from them.  A condition is only worth something    *)
(* for the generation of the GatewayConfig it was observed at.             *)
(***************************************************************************)
EXTENDS Naturals, Sequences

ConditionTypes == {"GatewayReady", "RouteAdmitted", "AuthenticationReady"}

Statuses == {"True", "False", "Unknown"}

Condition(status, reason, gen) ==
    [status |-> status, reason |-> reason, gen |-> gen]

Pending(gen) == Condition("Unknown", "ReconciliationPending", gen)

\* An ingress that has no entry in the status.
NoStatus == [c \in ConditionTypes |-> Pending(0)]

\* Conditions of an older generation start again as pending.
currentAdditionalIngressConditions(conditions, gen) ==
    [c \in ConditionTypes |-> IF conditions[c].gen = gen THEN conditions[c] ELSE Pending(gen)]

buildAdditionalIngressStatuses(specs, previous, gen) ==
    [i \in DOMAIN previous |-> IF i \in specs
        THEN currentAdditionalIngressConditions(previous[i], gen) ELSE NoStatus]

\* A failure wins over what is pending, and what is pending over success.
updateAdditionalIngressReadyCondition(conditions, gen) ==
    LET current == {c \in ConditionTypes : conditions[c].gen = gen}
    IN  IF \E c \in current : conditions[c].status = "False" THEN "False"
        ELSE IF current = ConditionTypes /\ \A c \in current : conditions[c].status = "True"
        THEN "True" ELSE "Unknown"

updateAdditionalGatewaysReadyCondition(specs, statuses, gen) ==
    LET ready(i) == updateAdditionalIngressReadyCondition(statuses[i], gen)
    IN  IF \E i \in specs : ready(i) = "False" THEN "False"
        ELSE IF \E i \in specs : ready(i) # "True" THEN "Unknown" ELSE "True"

additionalIngressHasGatewayConflict(conditions, gen) ==
    LET c == conditions["GatewayReady"]
    IN  /\ c.gen = gen /\ c.status = "False"
        /\ c.reason \in {"OwnershipConflict", "HostnameConflict"}

\* The router's report on the bridge Route: of the target router's admissions a
\* True one counts, and the first one when there is none.
additionalIngressRouteCondition(entries, hostname, controller, gen) ==
    LET admissions == {n \in DOMAIN entries : entries[n].host = hostname /\ entries[n].type = "Admitted"}
        granted == {n \in admissions : entries[n].status = "True"}
        own == {n \in admissions : entries[n].router = controller}
        target == IF own = {} THEN "none"
                  ELSE IF own \cap granted # {} THEN "True"
                  ELSE entries[CHOOSE n \in own : \A m \in own : n <= m].status
        admitted == {entries[n].router : n \in granted} \ {""}
    IN  CASE target = "True"  -> Condition("True", IF \E a, b \in admitted : a # b
                                     THEN "MultipleIngressControllers" ELSE "Ready", gen)
          [] target \in {"none", "False"} -> Condition("False", "NotReady", gen)
          [] OTHER -> Pending(gen)

=============================================================================
