-------------------------------- MODULE MCNet --------------------------------
EXTENDS Net, TLC

Symmetry ==
  Permutations(Ips) \cup Permutations(Macs) \cup Permutations(Peers)
    \cup Permutations(Callers) \cup Permutations(MyIps)
=============================================================================
