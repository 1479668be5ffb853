-------------------------- MODULE MCProvisioning ---------------------------
(***************************************************************************)
(* A small instance of Provisioning: two nodes suffice for every action.   *)
(***************************************************************************)
EXTENDS Provisioning, TLC

CONSTANTS m1, c1

\* A module below a component, with an in-tree gate and a chart gate for version 2.
TwoModules == {m1}
TwoOrder == (m1 :> 20) @@ (c1 :> 31)
TwoTimeout == (20 :> 1) @@ (31 :> 2)
TwoGateVersion == ("intree" :> 2) @@ ("chart" :> 2)
TwoChartGates == m1 :> {"chart"}

MCComponents == {c1}
=============================================================================
