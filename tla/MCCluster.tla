----------------------------- MODULE MCCluster -----------------------------
EXTENDS Cluster, TLC

Symmetry ==
    Permutations(Node) \cup Permutations(Client) \cup Permutations(OpId) \cup Permutations(Wish)
=============================================================================
