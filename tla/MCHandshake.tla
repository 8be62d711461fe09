---------------------------- MODULE MCHandshake -----------------------------
(* Instances of Handshake for TLC.                                         *)
EXTENDS HandshakeInvariants, TLC

(* Clients are interchangeable; servers are not, their order counts.       *)
ClientSymmetry == Permutations(Clients)
=============================================================================
