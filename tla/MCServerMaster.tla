--------------------------- MODULE MCServerMaster ---------------------------
(* Instances of ServerMaster for TLC. *)
EXTENDS ServerMaster, TLC

\* The server does not tell clients apart.
MCSymmetry == Permutations(Conn)
=============================================================================
