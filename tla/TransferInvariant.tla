------------------------- MODULE TransferInvariant -------------------------
(***************************************************************************)
(* The inductive invariant of Transfer, in named parts.  It is checked by  *)
(* TLC with the properties it is there for and proved in TransferProofs.   *)
(***************************************************************************)
EXTENDS Transfer

SFrame(seq) == swin.Frame[get_frame_num(seq)]
RFrame(seq) == rwin.Frame[get_frame_num(seq)]

Pieces == [data : Blocks, len : Blocks]

TransferStates ==
  {"S_FILL_WINDOW", "S_SEND_WINDOW", "S_WAIT_ON_RESPONSE", "S_TIMEOUT_ON_RESPONSE",
   "S_ADJUST_WINDOW"}

EofStates == {"S_FILE_EOF", "S_SEND", "S_WAIT_ON_ACK", "S_TIMEOUT_ON_ACK"}

(* The server's window: the blocks read so far and not slid past are in    *)
(* their frames, and the frames of the other sequence numbers are empty.   *)
SenderShape ==
  /\ swin.bottom >= 1
  /\ swin.top = swin.bottom + WindowSize - 1
  /\ swin.bottom - 1 =< fpos
  /\ fpos =< swin.top
  /\ swin.eof => fpos = NumBlocks
  /\ \A seq \in WindowSeqs(swin) :
       IF seq =< fpos
       THEN /\ SFrame(seq).state \in {"FRAME_FULL", "FRAME_SENT"}
            /\ SFrame(seq).pkt = Packet("DATA", seq, seq)
       ELSE SFrame(seq).state = "FRAME_EMPTY"

(* top_sent covers what has been sent.                                     *)
SenderSent ==
  /\ \A seq \in WindowSeqs(swin) : SFrame(seq).state = "FRAME_SENT" => seq =< swin.top_sent
  /\ sstate \in {"S_WAIT_ON_RESPONSE", "S_TIMEOUT_ON_RESPONSE", "S_ADJUST_WINDOW"}
       => fpos =< swin.top_sent

(* Server->seq is incremented by the first FILE_EOF.                       *)
SenderSeq ==
  /\ sstate \in TransferStates \cup {"S_FILE_NAME", "S_FILE_EOF"} => sseq = 0
  /\ sstate \in {"S_SEND", "S_WAIT_ON_ACK", "S_TIMEOUT_ON_ACK"} => sseq = 1

(* The server knows no more than rcopy has received, and rcopy has         *)
(* received no more than was sent.                                         *)
Knowledge ==
  /\ swin.rr =< rwin.rr
  /\ swin.srej =< rwin.rr
  /\ swin.bottom =< rwin.rr
  /\ rwin.rr =< fpos + 1
  /\ rwin.rr =< swin.top_sent + 1

NetShape ==
  \A p \in net :
    /\ p.flag = "DATA" => /\ p.data = p.seq
                          /\ 1 =< p.seq
                          /\ p.seq =< fpos
                          /\ p.seq =< swin.top_sent
    /\ p.flag \in {"RR", "SREJ"} => p.seq =< rwin.rr
    /\ p.flag = "FILE_EOF" => p.seq = 1 /\ rwin.rr = NumBlocks + 1

(* The end of the file is announced after everything has been received.    *)
EndOfFile ==
  /\ sstate \in EofStates => rwin.rr = NumBlocks + 1
  /\ rseq # 0 => rwin.rr = NumBlocks + 1 /\ rstate \in {"S_FILE_EOF", "S_FINISH"}
  /\ rstate = "S_FILE_EOF" => rseq # 0

(* rcopy's window: its first sequence number is the next expected, but     *)
(* from the answer to a block until the window is adjusted.                *)
ReceiverShape ==
  /\ rwin.bottom >= 1
  /\ rwin.top = rwin.bottom + WindowSize - 1
  /\ rwin.srej =< rwin.rr
  /\ \/ rwin.bottom = rwin.rr
     \/ /\ rwin.bottom = rwin.rr - 1
        /\ rstate \in {"S_SEND_RR", "S_WRITE_DATA", "S_ADJUST_WINDOW"}
  /\ \A seq \in WindowSeqs(rwin) :
       \/ RFrame(seq).state = "FRAME_EMPTY"
       \/ RFrame(seq).state = "FRAME_FULL" /\ RFrame(seq).pkt = seq
       \/ rstate = "S_ADJUST_WINDOW" /\ seq < rwin.rr

(* The block answered last is written from the buffer that still holds it. *)
ReceiverOutput ==
  /\ Len(out) = IF rstate = "S_ADJUST_WINDOW" THEN rwin.rr - 1 ELSE rwin.bottom - 1
  /\ rwin.bottom = rwin.rr - 1 /\ rstate \in {"S_SEND_RR", "S_WRITE_DATA"}
       => RFrame(rwin.bottom).state = "FRAME_FULL" /\ rbuf = rwin.bottom
  /\ \A i \in 1 .. Len(out) : out[i] = [data |-> i, len |-> i]

IInv ==
  /\ TypeOK
  /\ SenderShape
  /\ SenderSent
  /\ SenderSeq
  /\ Knowledge
  /\ NetShape
  /\ EndOfFile
  /\ ReceiverShape
  /\ ReceiverOutput
=============================================================================
