------------------------------ MODULE MCStartup ------------------------------
(* Small instances of Startup for TLC. *)
EXTENDS Startup

MCTopology == {[sockets |-> 2, cores |-> 4], [sockets |-> 0, cores |-> 4]}

=============================================================================
