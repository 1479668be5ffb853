----------------------------- MODULE MCServices -----------------------------
(* Instances of Services for TLC: the DSCI controller alone, with the Auth     *)
(* controller, and with the trusted-CA controller, which also runs alone with  *)
(* users for neighbours.                                                       *)
EXTENDS Services

MCGroups == {"rhods-admins", "team", "system:authenticated"}

MCModes == {{"init"}, {"init", "auth"}, {"init", "ca"}, {"ca"}}

MCEdits == [m \in MCModes |-> CASE m = {"ca"} -> 2 [] m = {"init", "ca"} -> 0 [] OTHER -> 1]
=============================================================================
