----------------------------- MODULE MCTransfer -----------------------------
(* Transfer on instances small enough for TLC. *)
EXTENDS TransferInvariant

(* A late or repeated packet of the set-up may arrive in the transfer. *)
MCLeftovers == HandshakePackets
=============================================================================
