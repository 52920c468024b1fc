------------------------------ MODULE Receiver ------------------------------
(***************************************************************************)
(* rcopy's half of a transfer: file_transfer and file_eof of rcopy.c.      *)
(*                                                                         *)
(* pkt_fill_frame copies the pkt struct and so makes the frame share       *)
(* RecvPkt's datagram: no frame has payload bytes of its own, all show the *)
(* bytes received last, rbuf.  What a frame does own is data_len: its pkt  *)
(* field is the block whose length it holds.  A write is therefore a pair  *)
(* [data, len]: bytes of block data, as many as block len has.             *)
(***************************************************************************)
EXTENDS SrejWindow, Packets, Sequences

VARIABLES
  rstate,   \* the STATE of file_transfer, then of file_eof
  rwin,     \* Window
  rbuf,     \* the block whose bytes are in RecvPkt->data, 0 for garbage
  rseq,     \* Client->seq
  out       \* what has been written to the local file

rvars == <<rstate, rwin, rbuf, rseq, out>>

RcopyStates ==
  {"S_WAIT_ON_DATA", "S_SEND_RR", "S_SEND_SREJ", "S_WRITE_DATA", "S_ADJUST_WINDOW",
   "S_TIMEOUT_ON_DATA", "S_FILE_EOF", "S_FINISH"}

(* num_wait, top_sent and eof are never used on this side.                 *)
ReceiverInit ==
  /\ rstate = "S_WAIT_ON_DATA"
  /\ rwin = [window_alloc(0, 0, 0, 0) EXCEPT !.rr = 1]
  /\ rbuf = 0
  /\ rseq = 0
  /\ out = <<>>

-----------------------------------------------------------------------------
(* wait_on_data: one turn of its loop, in the order of its tests.          *)
HearsData(p) == rstate = "S_WAIT_ON_DATA" /\ p.flag # "CORRUPT"

(* The other packets are headers alone and do not reach the payload, but   *)
(* for the error number of a FILE_NAME_ERR_ACK.                            *)
Received(p) ==
  CASE p.flag = "DATA"              -> p.data
    [] p.flag = "FILE_NAME_ERR_ACK" -> 0
    [] OTHER                        -> rbuf

RecvEof(p) ==
  /\ HearsData(p)
  /\ p.flag = "FILE_EOF"
  /\ rstate' = "S_FILE_EOF"
  /\ rseq' = p.seq
  /\ UNCHANGED <<rwin, rbuf, out>>

RecvOld(p) ==
  /\ HearsData(p)
  /\ p.flag = "DATA" /\ p.seq < rwin.rr
  /\ rstate' = "S_SEND_RR"
  /\ rbuf' = Received(p)
  /\ UNCHANGED <<rwin, rseq, out>>

(* pkt_fill_frame: a frame that is not empty keeps the pkt it has.         *)
FillFrame(w, p) ==
  [w EXCEPT !.Frame[get_frame_num(p.seq)] =
     [state |-> "FRAME_FULL",
      pkt   |-> IF @.state = "FRAME_EMPTY" THEN p.data ELSE @.pkt]]

FreshData(p) == p.flag = "DATA" /\ p.seq >= rwin.rr /\ within_window(rwin, p.seq)

(* Mutant: rr moves past every block already buffered. *)
RecvRun(p) ==
  /\ HearsData(p)
  /\ FreshData(p) /\ p.seq = rwin.rr
  /\ rstate' = "S_SEND_RR"
  /\ \E next \in p.seq + 1 .. rwin.top + 1 :
       /\ \A seq \in p.seq + 1 .. next - 1 : seq \in SeqsIn(rwin, "FRAME_FULL")
       /\ next \notin SeqsIn(rwin, "FRAME_FULL")
       /\ rwin' = [FillFrame(rwin, p) EXCEPT !.rr = next]
  /\ rbuf' = Received(p)
  /\ UNCHANGED <<rseq, out>>

RecvNext(p) ==
  /\ HearsData(p)
  /\ FreshData(p) /\ p.seq = rwin.rr
  /\ rstate' = "S_SEND_RR"
  /\ rwin' = [FillFrame(rwin, p) EXCEPT !.rr = @ + 1]
  /\ rbuf' = Received(p)
  /\ UNCHANGED <<rseq, out>>

RecvAhead(p) ==
  /\ HearsData(p)
  /\ FreshData(p) /\ p.seq > rwin.rr
  /\ rstate' = "S_SEND_SREJ"
  /\ rwin' = FillFrame(rwin, p)
  /\ rbuf' = Received(p)
  /\ UNCHANGED <<rseq, out>>

IgnoreOnData(p) ==
  /\ HearsData(p)
  /\ p.flag # "FILE_EOF"
  /\ p.flag = "DATA" => p.seq >= rwin.rr /\ ~within_window(rwin, p.seq)
  /\ rbuf' = Received(p)
  /\ UNCHANGED <<rstate, rwin, rseq, out>>

(* recv_pkt reads the datagram into RecvPkt before it checks it.           *)
RecvCorrupt ==
  /\ rstate = "S_WAIT_ON_DATA"
  /\ rbuf' = 0
  /\ UNCHANGED <<rstate, rwin, rseq, out>>

NoData ==
  /\ rstate = "S_WAIT_ON_DATA"
  /\ rstate' = "S_TIMEOUT_ON_DATA"
  /\ UNCHANGED <<rwin, rbuf, rseq, out>>

(* Mutant: rcopy has no counter of tries, and waits again. *)
WaitForever ==
  /\ rstate = "S_TIMEOUT_ON_DATA"
  /\ rstate' = "S_WAIT_ON_DATA"
  /\ UNCHANGED <<rwin, rbuf, rseq, out>>

TimeoutOnData ==
  /\ rstate = "S_TIMEOUT_ON_DATA"
  /\ rstate' = "S_FINISH"
  /\ UNCHANGED <<rwin, rbuf, rseq, out>>

-----------------------------------------------------------------------------
SendRR ==
  /\ rstate = "S_SEND_RR"
  /\ rstate' = "S_WRITE_DATA"
  /\ UNCHANGED <<rwin, rbuf, rseq, out>>

SendSREJ ==
  /\ rstate = "S_SEND_SREJ"
  /\ rstate' = "S_WAIT_ON_DATA"
  /\ rwin' = [rwin EXCEPT !.srej = rwin.rr]
  /\ UNCHANGED <<rbuf, rseq, out>>

(* Mutant: whatever is buffered is written. *)
AllBuffered == SeqsIn(rwin, "FRAME_FULL")

(* write_data: the full frames below rr and srej, in order.                *)
Writable == {seq \in SeqsIn(rwin, "FRAME_FULL") : seq < Acked(rwin)}

Piece(seq) == [data |-> rbuf, len |-> rwin.Frame[get_frame_num(seq)].pkt]

WriteData ==
  /\ rstate = "S_WRITE_DATA"
  /\ rstate' = "S_ADJUST_WINDOW"
  /\ out' = out \o [i \in 1 .. Cardinality(Writable) |->
                      Piece(CHOOSE seq \in Writable : Rank(Writable, seq) = i)]
  /\ rwin' = SetFrames(rwin, Writable, "FRAME_WRITTEN")
  /\ UNCHANGED <<rbuf, rseq>>

(* Mutant: the top of the window stays where it is. *)
AdjustBottom ==
  /\ rstate = "S_ADJUST_WINDOW"
  /\ rstate' = "S_WAIT_ON_DATA"
  /\ rwin' = IF CanSlide(rwin) THEN [Slide(rwin) EXCEPT !.top = rwin.top] ELSE rwin
  /\ UNCHANGED <<rbuf, rseq, out>>

AdjustWindow ==
  /\ rstate = "S_ADJUST_WINDOW"
  /\ rstate' = "S_WAIT_ON_DATA"
  /\ rwin' = IF CanSlide(rwin) THEN Slide(rwin) ELSE rwin
  /\ UNCHANGED <<rbuf, rseq, out>>

(* file_eof: one FILE_EOF_ACK, and rcopy is done.                          *)
SendEofAck ==
  /\ rstate = "S_FILE_EOF"
  /\ rstate' = "S_FINISH"
  /\ UNCHANGED <<rwin, rbuf, rseq, out>>

-----------------------------------------------------------------------------
RcopySends == SendRR \/ SendSREJ \/ SendEofAck

(* The packet a RcopySends step puts on the wire.                          *)
Reply ==
  CASE rstate = "S_SEND_RR"   -> Packet("RR", rwin.rr, 0)
    [] rstate = "S_SEND_SREJ" -> Packet("SREJ", rwin.rr, 0)
    [] OTHER                  -> Packet("FILE_EOF_ACK", rseq, 0)

RcopyThinks == WriteData \/ AdjustWindow \/ TimeoutOnData

RcopySelects == rstate = "S_WAIT_ON_DATA"

RcopyHears(p) ==
  \/ RecvEof(p)
  \/ RecvOld(p)
  \/ RecvNext(p)
  \/ RecvAhead(p)
  \/ IgnoreOnData(p)

(* MAX_WINDOW_WAIT_TIME_S of rcopy.h.                                      *)
RcopyWindowWait == 10

RcopyLeft == rstate = "S_FINISH"
=============================================================================
