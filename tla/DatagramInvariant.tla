------------------------- MODULE DatagramInvariant -------------------------
(***************************************************************************)
(* The inductive invariant of Datagram, in named parts.  It is checked by  *)
(* TLC with the properties it is there for and proved in DatagramProofs.   *)
(***************************************************************************)
EXTENDS Datagram

Places == 1 .. HDR_LEN + Extent
Memory == [Places -> Words]

Givens ==
  {[flag |-> DATA, seq |-> seq, data |-> data] : seq \in Seqs, data \in Payloads}
    \cup {[flag |-> FILE_NAME, seq |-> 0, data |-> InitPayload(a)] : a \in InitArgs}

(* How long the datagram is that is created from g.                        *)
LenOf(g) == HDR_LEN + Len(g.data)

Pkts == [datagram : Memory, datagram_len : 0 .. HDR_LEN + Extent,
         Hdr : [seq : LongWords, flag : Words], room : 0 .. Extent]

(* Both pkts have their memory, and what the sender's was created from is  *)
(* something a packet is created from.                                     *)
DatagramTypeOK ==
  /\ spkt \in Pkts /\ rpkt \in Pkts
  /\ receiver \in {"main", "child", "rcopy"}
  /\ given \in Givens \cup {NotGiven}
  /\ wire \in Seq(Words)
  /\ damage \in {"none", "word", "zeros for ones"}
  /\ received \in {"nothing", "good", "bad"}
  /\ sends \in 0 .. MaxSends

(* Only a FILE_NAME can be longer than a pkt.                              *)
RoomHolds ==
  /\ receiver # "main" => rpkt.room = spkt.room
  /\ given.flag = DATA => Fits /\ Whole

-----------------------------------------------------------------------------
(* The first words of d are a header and n words of payload created from   *)
(* g, the checksum left aside.                                             *)
Carries(d, g, n) ==
  /\ Long(d[HDR_SEQ_OFFSET], d[HDR_SEQ_OFFSET + 1]) = g.seq
  /\ d[HDR_FLAG_OFFSET] = g.flag
  /\ \A i \in 1 .. n : d[HDR_LEN + i] = g.data[i]

(* Its words add up to nothing in ones' complement, as the receiver will   *)
(* find.                                                                   *)
Sealed(d, len) == in_cksum(d, len) = 0

SenderHolds ==
  given # NotGiven =>
    /\ spkt.datagram_len = LenOf(given)
    /\ Fits => /\ Carries(spkt.datagram, given, Len(given.data))
               /\ Sealed(spkt.datagram, LenOf(given))

(* How the datagram on the wire differs from the one in the sender's pkt:  *)
(* nowhere, or in one word.                                                *)
SameBut(d, e, len, bad) == \A i \in (1 .. len) \ bad : d[i] = e[i]

WireHolds ==
  wire # <<>> =>
    /\ received = "nothing"
    /\ given # NotGiven
    /\ Len(wire) = LenOf(given)
    /\ damage = "none" => SameBut(wire, spkt.datagram, Len(wire), {})
    /\ damage = "word" =>
         \E i \in 1 .. Len(wire) :
           /\ SameBut(wire, spkt.datagram, Len(wire), {i})
           /\ wire[i] # spkt.datagram[i] /\ {wire[i], spkt.datagram[i]} # {0, Ones}

(* How many words of payload recv_pkt takes.                               *)
Taken == IF Whole THEN Len(given.data) ELSE rpkt.room

(* The receiver believes the datagram only as it was created.              *)
ReceiverHolds ==
  /\ received = "good" /\ damage # "zeros for ones" /\ Fits /\ (damage = "word" => Whole) =>
       /\ given # NotGiven
       /\ rpkt.datagram_len = HDR_LEN + Taken
       /\ Carries(rpkt.datagram, given, Taken)
       /\ rpkt.Hdr = get_hdr(rpkt.datagram)
  /\ received = "bad" /\ damage = "none" => given # NotGiven /\ ~(Fits /\ Whole)

DatagramIInv == DatagramTypeOK /\ RoomHolds /\ SenderHolds /\ WireHolds /\ ReceiverHolds
=============================================================================
