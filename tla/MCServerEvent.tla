---------------------------- MODULE MCServerEvent ----------------------------
(* ServerEvent on small instances.                                         *)
EXTENDS ServerEvent, TLC

(* Connections are interchangeable, and so are eventinfos.                 *)
Symmetry == Permutations(Conn) \cup Permutations(Info)

=============================================================================
