------------------------------ MODULE Transfer ------------------------------
(***************************************************************************)
(* One server child and one rcopy in the middle of a transfer, over UDP.   *)
(*                                                                         *)
(* net is every datagram ever sent.  Any of them may arrive at any time,   *)
(* any number of times or never: loss, duplication, reordering and delay   *)
(* are all in the choice of the packet that a select wakes up for.  Both   *)
(* ends may also see a damaged datagram, and may run out of patience at    *)
(* any moment: real timers only forbid some of these behaviours, and what  *)
(* is true here is true with them.                                         *)
(***************************************************************************)
EXTENDS Sender, Receiver

CONSTANT Leftovers  \* packets of the connection set-up that are still about

ASSUME LeftoversAssumption == Leftovers \subseteq HandshakePackets

VARIABLE net

vars == <<sstate, swin, fpos, sseq, eofwait, rstate, rwin, rbuf, rseq, out, net>>

Init ==
  /\ SenderInit
  /\ ReceiverInit
  /\ net = Leftovers

-----------------------------------------------------------------------------
ServerComputes == ServerThinks /\ UNCHANGED <<rvars, net>>

ServerTransmits ==
  /\ ServerSends
  /\ net' = net \cup Outgoing
  /\ UNCHANGED rvars

ServerReceives ==
  /\ \E p \in net : ToServer(p) /\ ServerHears(p)
  /\ UNCHANGED <<rvars, net>>

(* A select that runs out, or one that wakes up for a damaged datagram: to *)
(* wait_on_response the two are the same, wait_on_ack goes on waiting.     *)
ServerIsDisappointed ==
  /\ ServerTimesOut \/ IgnoreOnAck(Damaged)
  /\ UNCHANGED <<rvars, net>>

RcopyComputes == RcopyThinks /\ UNCHANGED <<svars, net>>

RcopyTransmits ==
  /\ RcopySends
  /\ net' = net \cup {Reply}
  /\ UNCHANGED svars

RcopyReceives ==
  /\ \E p \in net : ToRcopy(p) /\ RcopyHears(p)
  /\ UNCHANGED <<svars, net>>

RcopyIsDisappointed ==
  /\ NoData \/ RecvCorrupt
  /\ UNCHANGED <<svars, net>>

(* Both programs have left the transfer. *)
Terminated == ServerLeft /\ RcopyLeft /\ UNCHANGED vars

Next ==
  \/ ServerComputes \/ ServerTransmits \/ ServerReceives \/ ServerIsDisappointed
  \/ RcopyComputes \/ RcopyTransmits \/ RcopyReceives \/ RcopyIsDisappointed
  \/ Terminated

Spec == Init /\ [][Next]_vars

-----------------------------------------------------------------------------
(* The values the variables range over.                                    *)
Blocks == 0 .. NumBlocks

PacketType ==
  [flag : {"DATA", "RR", "SREJ", "FILE_EOF", "FILE_EOF_ACK", "FILE_NAME",
           "FILE_NAME_ACK", "FILE_BEGIN", "FILE_BEGIN_ACK"},
   seq  : Nat,
   data : Blocks]

(* Every variable holds a value of the type its C variable has.            *)
TypeOK ==
  /\ sstate \in ServerStates
  /\ swin \in WindowType(PacketType)
  /\ fpos \in Blocks
  /\ sseq \in {0, 1}
  /\ eofwait \in 0 .. EOF_TRIES
  /\ rstate \in RcopyStates
  /\ rwin \in WindowType(Blocks)
  /\ rbuf \in Blocks
  /\ rseq \in {0, 1}
  /\ out \in Seq([data : Blocks, len : Blocks])
  /\ net \subseteq PacketType

-----------------------------------------------------------------------------
(* The properties of a transfer.                                           *)

(* However packets are lost, repeated or reordered, and although all of    *)
(* rcopy's frames share one datagram (pkt_fill_frame), the local file is   *)
(* at every moment a prefix of the remote one, block by block.             *)
OutputIsPrefix ==
  /\ Len(out) =< NumBlocks
  /\ \A i \in 1 .. Len(out) : out[i] = [data |-> i, len |-> i]

(* The end of the file cannot overtake its data: rcopy takes a FILE_EOF    *)
(* only when the local file lacks nothing, and the server announces the    *)
(* end only when rcopy has taken every block.  rcopy answers before it     *)
(* writes: at the announcement the file may lack the last one.             *)
EofMeansComplete ==
  /\ rseq # 0 => Len(out) = NumBlocks
  /\ (\E p \in net : p.flag = "FILE_EOF") =>
       NumBlocks =< Len(out) + (IF rstate \in {"S_SEND_RR", "S_WRITE_DATA"} THEN 1 ELSE 0)

(* adjust_window of server.c empties the frame of a block, after which it  *)
(* can never be sent again, only when rcopy has taken that block.  rcopy   *)
(* answers before it writes: the file may lack the last one.               *)
DiscardedIsTaken ==
  /\ swin.bottom =< rwin.rr
  /\ swin.bottom - 1 =< Len(out) + (IF rstate \in {"S_SEND_RR", "S_WRITE_DATA"} THEN 1 ELSE 0)

(* The two windows stay within one another's reach: when rcopy waits,      *)
(* whatever data arrives, however late, it has room for it or has it       *)
(* already.  Without this wait_on_data would drop data silently.           *)
DataFitsWindow ==
  rstate = "S_WAIT_ON_DATA" =>
    \A p \in net : p.flag = "DATA" => p.seq =< rwin.top

(* Sequence numbers are uint32_t, compared without regard to wrapping, and *)
(* both programs reckon ahead of the data: the top of a window, the number *)
(* after the last block.  None that is kept goes beyond this bound, and    *)
(* the loops of srej_window.c count one further: while the bound and one   *)
(* are below 2^32 nothing wraps, and the numbers here are those of the C.  *)
LargestSeq == NumBlocks + WindowSize

NumbersFit ==
  /\ swin.top =< LargestSeq /\ swin.rr =< LargestSeq /\ swin.srej =< LargestSeq
  /\ rwin.top =< LargestSeq /\ rwin.rr =< LargestSeq /\ rwin.srej =< LargestSeq
  /\ \A p \in net : p.flag \in {"DATA", "RR", "SREJ"} => p.seq =< LargestSeq

(* A transfer implements the abstract copy.                                *)
Copy == INSTANCE FileCopy WITH
  copy   <- out,
  status <- IF rseq # 0 THEN "complete"
            ELSE IF rstate \in {"S_TIMEOUT_ON_DATA", "S_FINISH"} THEN "gaveup"
            ELSE "copying"

(* Every step of the two programs is a step of the abstract copy or none:  *)
(* blocks are added one at a time and in order, nothing already written is *)
(* touched, nothing is added once rcopy has given up or finished.          *)
ImplementsFileCopy == Copy!Spec

(* A cumulative answer is never taken back: what the server believes has   *)
(* been received, and what rcopy has received, only grows, whatever old    *)
(* answers arrive late.                                                    *)
NeverTakenBack ==
  [][/\ swin'.bottom >= swin.bottom
     /\ Acked(swin') >= Acked(swin)
     /\ rwin'.rr >= rwin.rr]_vars
=============================================================================
