------------------------------- MODULE Sender -------------------------------
(***************************************************************************)
(* The server child's half of a transfer: file_transfer and file_eof of    *)
(* server.c, with the window functions of libsrj.c they call.  The module  *)
(* says nothing of the network: a step that sends is described by Outgoing *)
(* and a step that receives takes the packet as its parameter.             *)
(*                                                                         *)
(* sstate is the STATE variable of the two loops; the states of file_eof   *)
(* follow those of file_transfer, so one variable is enough.               *)
(***************************************************************************)
EXTENDS SrejWindow, Packets, Sequences

CONSTANTS
  NumBlocks,     \* reads of buffsize bytes that return something
  PartialLast,   \* is the last of them shorter than buffsize?
  MAX_TRIES,     \* MAX_TRIES of server.h
  EOF_TRIES,     \* the literal 10 of timeout_on_ack
  MallocWait,    \* what Window->num_wait may hold when window_alloc returns
  MallocTop      \* what Window->top_sent may hold when window_alloc returns

ASSUME SenderAssumption ==
  /\ NumBlocks \in Nat
  /\ PartialLast \in BOOLEAN
  /\ PartialLast => NumBlocks > 0
  /\ MAX_TRIES \in Nat
  /\ EOF_TRIES \in Nat
  /\ MallocWait \subseteq Nat
  /\ MallocTop \subseteq Nat

VARIABLES
  sstate,   \* the STATE of file_transfer, then of file_eof
  swin,     \* Window
  fpos,     \* blocks read from File->fp so far
  sseq,     \* Server->seq
  eofwait   \* num_wait of file_eof

svars == <<sstate, swin, fpos, sseq, eofwait>>

ServerStates ==
  {"S_FILL_WINDOW", "S_SEND_WINDOW", "S_WAIT_ON_RESPONSE", "S_TIMEOUT_ON_RESPONSE",
   "S_ADJUST_WINDOW", "S_FILE_NAME", "S_FILE_EOF", "S_SEND", "S_WAIT_ON_ACK",
   "S_TIMEOUT_ON_ACK", "S_FINISH"}

(* file_transfer up to its loop.  num_wait and top_sent stay as malloc     *)
(* left them.                                                              *)
SenderInit ==
  /\ sstate = "S_FILL_WINDOW"
  /\ \E num_wait \in MallocWait, top_sent \in MallocTop :
       swin = [window_alloc(0, Packet("DATA", 0, 0), num_wait, top_sent) EXCEPT !.rr = 0]
  /\ fpos = 0
  /\ sseq = 0
  /\ eofwait = 0

-----------------------------------------------------------------------------
(* fill_window: one s_fread for every empty frame of the window, in order  *)
(* of sequence number.  A read that returns nothing leaves the frame empty *)
(* and so do all later ones; a short or empty read sets the file's eof.    *)
Empties == SeqsIn(swin, "FRAME_EMPTY")

BlockFor(seq) == fpos + Rank(Empties, seq)

LastRead == fpos + Cardinality(Empties)

FilledFrame(i) ==
  IF \E seq \in Empties : get_frame_num(seq) = i /\ BlockFor(seq) =< NumBlocks
  THEN LET seq == CHOOSE q \in Empties : get_frame_num(q) = i
       IN  [state |-> "FRAME_FULL", pkt |-> Packet("DATA", seq, BlockFor(seq))]
  ELSE swin.Frame[i]

FillWindow ==
  /\ sstate = "S_FILL_WINDOW"
  /\ sstate' = "S_SEND_WINDOW"
  /\ swin' = [swin EXCEPT
                !.Frame = [i \in Slots |-> FilledFrame(i)],
                !.eof   = \/ @
                          \/ LastRead > NumBlocks
                          \/ PartialLast /\ LastRead = NumBlocks]
  /\ fpos' = IF LastRead > NumBlocks THEN NumBlocks ELSE LastRead
  /\ UNCHANGED <<sseq, eofwait>>

Fulls == SeqsIn(swin, "FRAME_FULL")

(* Mutant: top_sent is left behind. *)
SendWindowUncounted ==
  /\ sstate = "S_SEND_WINDOW"
  /\ sstate' = "S_WAIT_ON_RESPONSE"
  /\ swin' = SetFrames(swin, Fulls, "FRAME_SENT")
  /\ UNCHANGED <<fpos, sseq, eofwait>>

(* send_window: every full frame of the window is sent.  top_sent moves up *)
(* to the highest of them.                                                 *)
SendWindow ==
  /\ sstate = "S_SEND_WINDOW"
  /\ sstate' = "S_WAIT_ON_RESPONSE"
  /\ \E top_sent \in {swin.top_sent} \cup Fulls :
       /\ \A seq \in {swin.top_sent} \cup Fulls : seq =< top_sent
       /\ swin' = [SetFrames(swin, Fulls, "FRAME_SENT") EXCEPT !.top_sent = top_sent]
  /\ UNCHANGED <<fpos, sseq, eofwait>>

-----------------------------------------------------------------------------
(* wait_on_response: one select, then one packet.                          *)

(* A good packet, whatever its flag, clears num_wait.                      *)
HearsResponse(p) == sstate = "S_WAIT_ON_RESPONSE" /\ p.flag # "CORRUPT"

(* Mutant: an old answer is believed as well as a new one. *)
RecvAnyRR(p) ==
  /\ HearsResponse(p)
  /\ p.flag = "RR"
  /\ sstate' = "S_ADJUST_WINDOW"
  /\ swin' = [swin EXCEPT !.num_wait = 0, !.rr = p.seq]
  /\ UNCHANGED <<fpos, sseq, eofwait>>

RecvRR(p) ==
  /\ HearsResponse(p)
  /\ p.flag = "RR"
  /\ sstate' = "S_ADJUST_WINDOW"
  /\ swin' = [swin EXCEPT !.num_wait = 0,
                          !.rr = IF p.seq > @ THEN p.seq ELSE @]
  /\ UNCHANGED <<fpos, sseq, eofwait>>

(* Mutant: a SREJ is taken to acknowledge the number it rejects. *)
RecvSREJInclusive(p) ==
  /\ HearsResponse(p)
  /\ p.flag = "SREJ"
  /\ sstate' = "S_ADJUST_WINDOW"
  /\ swin' = [swin EXCEPT !.num_wait = 0,
                          !.srej = IF p.seq + 1 > @ THEN p.seq + 1 ELSE @]
  /\ UNCHANGED <<fpos, sseq, eofwait>>

RecvSREJ(p) ==
  /\ HearsResponse(p)
  /\ p.flag = "SREJ"
  /\ sstate' = "S_ADJUST_WINDOW"
  /\ swin' = [swin EXCEPT !.num_wait = 0,
                          !.srej = IF p.seq > @ THEN p.seq ELSE @]
  /\ UNCHANGED <<fpos, sseq, eofwait>>

(* FILE_NAME sends the child back to opening the file; anything else ends  *)
(* the transfer.                                                           *)
RecvOther(p) ==
  /\ HearsResponse(p)
  /\ p.flag \notin {"RR", "SREJ"}
  /\ sstate' = IF p.flag = "FILE_NAME" THEN "S_FILE_NAME" ELSE "S_FINISH"
  /\ swin' = [swin EXCEPT !.num_wait = 0]
  /\ UNCHANGED <<fpos, sseq, eofwait>>

(* Nothing in time, or a packet whose checksum is wrong.                   *)
NoResponse ==
  /\ sstate = "S_WAIT_ON_RESPONSE"
  /\ sstate' = "S_TIMEOUT_ON_RESPONSE"
  /\ UNCHANGED <<swin, fpos, sseq, eofwait>>

(* Mutant: the window is to be sent again but no frame is full again. *)
RetryNothing ==
  /\ sstate = "S_TIMEOUT_ON_RESPONSE"
  /\ swin.num_wait < MAX_TRIES
  /\ sstate' = "S_SEND_WINDOW"
  /\ swin' = [swin EXCEPT !.num_wait = @ + 1]
  /\ UNCHANGED <<fpos, sseq, eofwait>>

(* Mutant: one silence more than the tries allow. *)
RetryOnceMore ==
  /\ sstate = "S_TIMEOUT_ON_RESPONSE"
  /\ swin.num_wait =< MAX_TRIES
  /\ sstate' = "S_SEND_WINDOW"
  /\ swin' = [SetFrames(swin, SeqsIn(swin, "FRAME_SENT"), "FRAME_FULL")
                EXCEPT !.num_wait = @ + 1]
  /\ UNCHANGED <<fpos, sseq, eofwait>>

(* timeout_on_response: everything sent and not slid past is to be sent    *)
(* again, up to MAX_TRIES times without a good packet.                     *)
RetryWindow ==
  /\ sstate = "S_TIMEOUT_ON_RESPONSE"
  /\ swin.num_wait < MAX_TRIES
  /\ sstate' = "S_SEND_WINDOW"
  /\ swin' = [SetFrames(swin, SeqsIn(swin, "FRAME_SENT"), "FRAME_FULL")
                EXCEPT !.num_wait = @ + 1]
  /\ UNCHANGED <<fpos, sseq, eofwait>>

AbandonWindow ==
  /\ sstate = "S_TIMEOUT_ON_RESPONSE"
  /\ swin.num_wait >= MAX_TRIES
  /\ sstate' = "S_FINISH"
  /\ UNCHANGED <<swin, fpos, sseq, eofwait>>

-----------------------------------------------------------------------------
(* adjust_window *)

(* Mutant: the last packet sent is not waited for. *)
AllButOneAcked(w) == w.eof /\ w.rr >= w.top_sent

AllAcked(w) == w.eof /\ w.rr > w.top_sent

AdjustDone ==
  /\ sstate = "S_ADJUST_WINDOW"
  /\ AllAcked(swin)
  /\ sstate' = "S_FILE_EOF"
  /\ UNCHANGED <<swin, fpos, sseq, eofwait>>

AdjustSlide ==
  /\ sstate = "S_ADJUST_WINDOW"
  /\ ~AllAcked(swin)
  /\ CanSlide(swin)
  /\ sstate' = "S_FILL_WINDOW"
  /\ swin' = Slide(swin)
  /\ UNCHANGED <<fpos, sseq, eofwait>>

AdjustStay ==
  /\ sstate = "S_ADJUST_WINDOW"
  /\ ~AllAcked(swin)
  /\ ~CanSlide(swin)
  /\ sstate' = "S_SEND_WINDOW"
  /\ UNCHANGED <<swin, fpos, sseq, eofwait>>

-----------------------------------------------------------------------------
(* file_eof *)

(* create_file_eof; its static flag lets the first call alone increment.   *)
CreateFileEof ==
  /\ sstate = "S_FILE_EOF"
  /\ sstate' = "S_SEND"
  /\ sseq' = sseq + 1
  /\ UNCHANGED <<swin, fpos, eofwait>>

SendFileEof ==
  /\ sstate = "S_SEND"
  /\ sstate' = "S_WAIT_ON_ACK"
  /\ UNCHANGED <<swin, fpos, sseq, eofwait>>

(* Mutant: the first good packet is the answer. *)
RecvAnyAck(p) ==
  /\ sstate = "S_WAIT_ON_ACK"
  /\ p.flag # "CORRUPT"
  /\ sstate' = "S_FINISH"
  /\ UNCHANGED <<swin, fpos, sseq, eofwait>>

(* wait_on_ack: only the sequence number is compared, not the flag.        *)
RecvEofAck(p) ==
  /\ sstate = "S_WAIT_ON_ACK"
  /\ p.flag # "CORRUPT" /\ p.seq = sseq
  /\ sstate' = "S_FINISH"
  /\ UNCHANGED <<swin, fpos, sseq, eofwait>>

IgnoreOnAck(p) ==
  /\ sstate = "S_WAIT_ON_ACK"
  /\ p.flag = "CORRUPT" \/ p.seq # sseq
  /\ UNCHANGED svars

NoAck ==
  /\ sstate = "S_WAIT_ON_ACK"
  /\ sstate' = "S_TIMEOUT_ON_ACK"
  /\ UNCHANGED <<swin, fpos, sseq, eofwait>>

(* Mutant: the tries are not counted. *)
RetryEofForever ==
  /\ sstate = "S_TIMEOUT_ON_ACK"
  /\ sstate' = "S_SEND"
  /\ UNCHANGED <<swin, fpos, sseq, eofwait>>

(* timeout_on_ack: S_DONE after the last try, as if it had been answered.  *)
TimeoutOnAck ==
  /\ sstate = "S_TIMEOUT_ON_ACK"
  /\ IF eofwait >= EOF_TRIES
     THEN sstate' = "S_FINISH" /\ eofwait' = eofwait
     ELSE sstate' = "S_SEND" /\ eofwait' = eofwait + 1
  /\ UNCHANGED <<swin, fpos, sseq>>

-----------------------------------------------------------------------------
(* What the composing modules need: the steps grouped by their use of the  *)
(* network.                                                                *)
ServerSends == SendWindow \/ SendFileEof

(* The packets a ServerSends step puts on the wire.                        *)
Outgoing ==
  IF sstate = "S_SEND_WINDOW"
  THEN {swin.Frame[get_frame_num(seq)].pkt : seq \in Fulls}
  ELSE {Packet("FILE_EOF", sseq, 0)}

(* The same in the order send_window visits the window, upwards.           *)
FullSeqs == Ascending(Fulls)

(* Mutant: FILE_EOF is built before Server->seq is incremented. *)
BurstStale ==
  IF sstate = "S_SEND_WINDOW"
  THEN [i \in 1 .. Cardinality(Fulls) |-> swin.Frame[get_frame_num(FullSeqs[i])].pkt]
  ELSE <<Packet("FILE_EOF", sseq - 1, 0)>>

Burst ==
  IF sstate = "S_SEND_WINDOW"
  THEN [i \in 1 .. Cardinality(Fulls) |-> swin.Frame[get_frame_num(FullSeqs[i])].pkt]
  ELSE <<Packet("FILE_EOF", sseq, 0)>>

ServerThinks ==
  \/ FillWindow
  \/ RetryWindow
  \/ AbandonWindow
  \/ AdjustDone
  \/ AdjustSlide
  \/ AdjustStay
  \/ CreateFileEof
  \/ TimeoutOnAck

ServerSelects == sstate \in {"S_WAIT_ON_RESPONSE", "S_WAIT_ON_ACK"}

(* How long a select waits, in seconds: the timeouts of server.h.          *)
MAX_TRY_WAIT_TIME_S == 1
ServerWindowWait == 2

ServerPatience == IF sstate = "S_WAIT_ON_RESPONSE" THEN ServerWindowWait ELSE MAX_TRY_WAIT_TIME_S

ServerHears(p) ==
  \/ RecvRR(p)
  \/ RecvSREJ(p)
  \/ RecvOther(p)
  \/ RecvEofAck(p)
  \/ IgnoreOnAck(p)

(* A damaged datagram: to wait_on_response the same as none.               *)
ServerHearsDamaged == NoResponse \/ IgnoreOnAck(Damaged)

(* A select that runs out.                                                 *)
ServerTimesOut == NoResponse \/ NoAck

(* The child has left the transfer.                                        *)
ServerLeft == sstate \in {"S_FINISH", "S_FILE_NAME"}
=============================================================================
