------------------------------ MODULE Packets ------------------------------
(***************************************************************************)
(* The datagrams of libsrj.h.  A packet is its header's flag and sequence  *)
(* number and its payload; the payload of a DATA packet is the number of   *)
(* the file block it carries and 0 stands for no data.  "CORRUPT" is a     *)
(* datagram whose checksum is wrong when it arrives, whatever it was.      *)
(***************************************************************************)
EXTENDS Integers

Packet(flag, seq, data) == [flag |-> flag, seq |-> seq, data |-> data]

Damaged == Packet("CORRUPT", 0, 0)

(* Packets of the connection set-up.  Both ends have sequence number 0     *)
(* until the end of the file, and create these with it.                    *)
HandshakePackets ==
  {Packet(flag, 0, 0) : flag \in {"FILE_NAME", "FILE_NAME_ACK", "FILE_BEGIN", "FILE_BEGIN_ACK"}}

(* The flags of the packets that only rcopy sends.                         *)
ToServer(p) == p.flag \in {"RR", "SREJ", "FILE_EOF_ACK", "FILE_NAME", "FILE_BEGIN"}

(* The flags of the packets that only the server sends.                    *)
ToRcopy(p) == p.flag \in {"DATA", "FILE_EOF", "FILE_NAME_ACK", "FILE_BEGIN_ACK"}
=============================================================================
