------------------------------ MODULE MCCluster ------------------------------
(* Small instances of Cluster for TLC. *)
EXTENDS Cluster, TLC

\* The daemons run the same program on the same machine.
NodeSymmetry == Permutations(Node)

=============================================================================
