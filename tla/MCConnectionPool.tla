--------------------------- MODULE MCConnectionPool ---------------------------
(***************************************************************************)
(* An instance of ConnectionPool for TLC: four users of two connections.   *)
(***************************************************************************)
EXTENDS ConnectionPool

=============================================================================
