---------------------------- MODULE MCTcpService ----------------------------
(***************************************************************************)
(* TcpService for TLC: sockets are interchangeable.                        *)
(***************************************************************************)
EXTENDS TcpService, TLC

Symmetry == Permutations(Sockets)
=============================================================================
