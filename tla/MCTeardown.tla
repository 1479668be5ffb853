----------------------------- MODULE MCTeardown -----------------------------
EXTENDS Teardown
MCDSCModules == {"kserve"}
MCDSCIModules == {"monitoring"}

\* kubectl's default; a DSC may also be deleted in the foreground.
MCForegroundDSC == [o \in Owners |-> IF o = "DSC" THEN {"Background", "Foreground"} ELSE {"Background"}]
MCNone == [o \in Owners |-> {}]

=============================================================================
