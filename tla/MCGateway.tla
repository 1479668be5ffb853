----------------------------- MODULE MCGateway -----------------------------
EXTENDS Gateway, TLC

CONSTANTS i1, default, k1, k2

MCIngresses == {i1}
MCKeys == {k1, k2}
MCPlatforms == {"OpenShift", "Kubernetes"}

Symmetry == Permutations(MCKeys)

=============================================================================
