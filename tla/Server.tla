------------------------------- MODULE Server -------------------------------
(***************************************************************************)
(* A child of the server, whole: process_client and file_name of server.c  *)
(* around the transfer of Sender.  The states of file_name follow those of *)
(* Sender in sstate; its S_SEND is split by the packet it sends.           *)
(***************************************************************************)
EXTENDS Sender

SetupStates == {"S_FILE_NAME", "S_SEND_NAME_ACK", "S_SEND_NAME_ERR_ACK", "S_FILE_BEGIN"}

(* Not forked yet, and gone.                                               *)
NoProcess == sstate = "NO_PROCESS"
Left == sstate = "S_FINISH"

(* What stands for Window outside file_transfer.                           *)
NoWindow == window_alloc(0, Packet("DATA", 0, 0), 0, 0)

ChildInit ==
  /\ sstate = "NO_PROCESS"
  /\ swin = NoWindow
  /\ fpos = 0 /\ sseq = 0 /\ eofwait = 0

-----------------------------------------------------------------------------
(* The fork of main, then process_client up to file_name.  What the child  *)
(* reads of the FILE_NAME is the same in all of them: one rcopy asks.      *)
Fork ==
  /\ NoProcess
  /\ sstate' = "S_FILE_NAME"
  /\ UNCHANGED <<swin, fpos, sseq, eofwait>>

(* open_file, then good_file or bad_file: opens is fopen's success.  A     *)
(* file opened again is read from its beginning, and the window of a       *)
(* transfer left behind is lost.                                           *)
OpenFile(opens) ==
  /\ sstate = "S_FILE_NAME"
  /\ sstate' = IF opens THEN "S_SEND_NAME_ACK" ELSE "S_SEND_NAME_ERR_ACK"
  /\ swin' = NoWindow
  /\ fpos' = 0
  /\ UNCHANGED <<sseq, eofwait>>

SendNameAck ==
  /\ sstate \in {"S_SEND_NAME_ACK", "S_SEND_NAME_ERR_ACK"}
  /\ sstate' = "S_FILE_BEGIN"
  /\ UNCHANGED <<swin, fpos, sseq, eofwait>>

-----------------------------------------------------------------------------
(* file_begin: the FILE_BEGIN_ACK is sent once, by the step that takes the *)
(* FILE_BEGIN, and the transfer starts without waiting for anything.       *)
BeginsTransfer(p) == sstate = "S_FILE_BEGIN" /\ p.flag = "FILE_BEGIN" /\ p.seq = sseq

RecvBegin(p) ==
  /\ BeginsTransfer(p)
  /\ sstate' = "S_FILL_WINDOW"
  /\ \E num_wait \in MallocWait, top_sent \in MallocTop :
       swin' = [window_alloc(sseq, Packet("DATA", 0, 0), num_wait, top_sent) EXCEPT !.rr = 0]
  /\ UNCHANGED <<fpos, sseq, eofwait>>

(* What is sent by the step that hears p.                                  *)
Answer(p) == IF BeginsTransfer(p) THEN <<Packet("FILE_BEGIN_ACK", sseq, 0)>> ELSE <<>>

(* Mutant: a repeated FILE_NAME is no reason to answer it again. *)
RecvInitIgnored(p) ==
  /\ sstate = "S_FILE_BEGIN"
  /\ p.flag = "FILE_NAME"
  /\ UNCHANGED svars

RecvInit(p) ==
  /\ sstate = "S_FILE_BEGIN"
  /\ p.flag = "FILE_NAME"
  /\ sstate' = "S_FILE_NAME"
  /\ UNCHANGED <<swin, fpos, sseq, eofwait>>

IgnoreInBegin(p) ==
  /\ sstate = "S_FILE_BEGIN"
  /\ ~BeginsTransfer(p) /\ p.flag # "FILE_NAME"
  /\ UNCHANGED svars

(* Mutant: a silence starts the transfer, as a FILE_BEGIN does. *)
BeginAnyway ==
  /\ sstate = "S_FILE_BEGIN"
  /\ sstate' = "S_FILL_WINDOW"
  /\ swin' = [window_alloc(sseq, Packet("DATA", 0, 0), 0, 0) EXCEPT !.rr = 0]
  /\ UNCHANGED <<fpos, sseq, eofwait>>

NoBegin ==
  /\ sstate = "S_FILE_BEGIN"
  /\ sstate' = "S_FINISH"
  /\ UNCHANGED <<swin, fpos, sseq, eofwait>>

-----------------------------------------------------------------------------
ChildSends == SendNameAck \/ ServerSends

(* The packets a ChildSends step puts on the wire, in order.               *)
Message ==
  CASE sstate = "S_SEND_NAME_ACK"     -> <<Packet("FILE_NAME_ACK", sseq, 0)>>
    [] sstate = "S_SEND_NAME_ERR_ACK" -> <<Packet("FILE_NAME_ERR_ACK", sseq, 0)>>
    [] OTHER                          -> Burst

ChildThinks(opens) == OpenFile(opens) \/ ServerThinks

ChildHears(p) == RecvBegin(p) \/ RecvInit(p) \/ IgnoreInBegin(p) \/ ServerHears(p)

ChildHearsDamaged == IgnoreInBegin(Damaged) \/ ServerHearsDamaged

ChildTimesOut == NoBegin \/ ServerTimesOut

(* MAX_RECV_WAIT_TIME_S of server.h.                                       *)
MAX_RECV_WAIT_TIME_S == 10

(* A signal ends the child, wherever it is.                                *)
ChildKilled ==
  /\ ~NoProcess /\ ~Left
  /\ sstate' = "S_FINISH"
  /\ UNCHANGED <<swin, fpos, sseq, eofwait>>

ChildSelects == sstate = "S_FILE_BEGIN" \/ ServerSelects

(* Mutant: the child waits for FILE_BEGIN no longer than for an answer. *)
ChildPatienceShort == ServerPatience

ChildPatience == IF sstate = "S_FILE_BEGIN" THEN MAX_RECV_WAIT_TIME_S ELSE ServerPatience

(* In file_transfer or file_eof.                                           *)
Transferring == ~NoProcess /\ ~Left /\ sstate \notin SetupStates
=============================================================================
