----------------------------- MODULE MCTcpServer -----------------------------
(* The instances of TcpServer that TLC checks.                             *)
EXTENDS TcpServer

CONSTANTS c1, c2, c3

\* Peers are only compared.
Symmetric == Permutations({c1, c2, c3})
=============================================================================
