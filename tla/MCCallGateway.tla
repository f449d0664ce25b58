--------------------------- MODULE MCCallGateway ---------------------------
(* Instances of CallGateway for TLC. *)
EXTENDS CallGateway, TLC

SocketSymmetry == Permutations(Sockets)
=============================================================================
