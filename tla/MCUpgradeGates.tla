--------------------------- MODULE MCUpgradeGates ---------------------------
(***************************************************************************)
(* An instance of UpgradeGates: a release candidate and the release that   *)
(* replaces it.  The key of the candidate's gate also carries the prefix   *)
(* of the release, so the two operators share it; the release has the gate *)
(* only from a labelled ConfigMap.                                         *)
(***************************************************************************)
EXTENDS UpgradeGates, TLC

CONSTANTS old, new

CandidateKey == <<"2.20.0", "rc1", "api">>

MCKeys == {CandidateKey}
MCVersion == (old :> <<"2.20.0", "rc1">>) @@ (new :> <<"2.20.0">>)
MCInTree == (old :> [NoData EXCEPT ![CandidateKey] = "msg"]) @@ (new :> NoData)
MCCharts == (old :> {NoData}) @@ (new :> {NoData})
=============================================================================
