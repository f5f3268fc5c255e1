--------------------------- MODULE MCListTransfer ---------------------------
(* Small instances of ListTransfer for TLC. *)
EXTENDS ListTransfer

MCMaxima == {-1, 0, 1, 2}

=============================================================================
