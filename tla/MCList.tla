------------------------------- MODULE MCList -------------------------------
(* Small instances of List for TLC. *)
EXTENDS List, TLC

\* Nodes, items and iterators are only compared, and CHOOSE is applied only
\* where one value satisfies it.
ListSymmetry == Permutations(Node) \cup Permutations(Item) \cup Permutations(Iterator)

=============================================================================
