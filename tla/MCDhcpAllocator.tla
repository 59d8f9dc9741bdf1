--------------------------- MODULE MCDhcpAllocator ---------------------------
EXTENDS DhcpAllocator, TLC

Symmetry == Permutations(Pods) \cup Permutations(Macs) \cup Permutations(Subnets)
=============================================================================
