-------------------------------- MODULE Rcopy --------------------------------
(***************************************************************************)
(* rcopy, whole: process_server, file_name and file_begin of rcopy.c       *)
(* around the transfer of Receiver.  The states of the set-up precede      *)
(* those of Receiver in rstate; S_WAIT_ON_BEGIN is the select inside       *)
(* file_begin.  Where its packets go (Client->remote) is left to the       *)
(* composing module.                                                       *)
(***************************************************************************)
EXTENDS Receiver

CONSTANTS
  NameTries,       \* the literal 10 of timeout_on_ack
  BeginTries,      \* MAX_TRIES of rcopy.h
  ClientWait,      \* what Client->num_wait may hold when client_sock returns
  LocalFopenMay    \* does opening the local file succeed?  The answers possible.

ASSUME RcopyAssumption ==
  /\ NameTries \in Nat
  /\ BeginTries \in Nat
  /\ ClientWait \subseteq Nat
  /\ LocalFopenMay \subseteq BOOLEAN

VARIABLES
  namewait,   \* Client->num_wait
  beginwait,  \* num_wait of file_begin
  lfp         \* LocalFile->fp: what malloc left in it, what fopen returned

setupVars == <<namewait, beginwait, lfp>>

SettingUp ==
  rstate \in {"S_START", "S_WAIT_ON_ACK", "S_TIMEOUT_ON_ACK", "S_OPEN_FILE",
              "S_FILE_BEGIN", "S_WAIT_ON_BEGIN"}

(* The window is that of ReceiverInit, allocated on entering the transfer. *)
RcopyInit ==
  /\ rstate = "S_START"
  /\ rwin = [window_alloc(0, 0, 0, 0) EXCEPT !.rr = 1]
  /\ rbuf = 0
  /\ rseq = 0
  /\ out = <<>>
  /\ namewait \in ClientWait
  /\ beginwait = 0
  /\ lfp = "unset"

-----------------------------------------------------------------------------
SendInitPkt ==
  /\ rstate = "S_START"
  /\ rstate' = "S_WAIT_ON_ACK"
  /\ UNCHANGED <<rwin, rbuf, rseq, out, setupVars>>

(* wait_on_ack: anything but a FILE_NAME_ACK is dropped, the               *)
(* FILE_NAME_ERR_ACK too.                                                  *)
NameAcked(p) == p.flag = "FILE_NAME_ACK" /\ p.seq = rseq

RecvNameAck(p) ==
  /\ rstate = "S_WAIT_ON_ACK"
  /\ NameAcked(p)
  /\ rstate' = "S_OPEN_FILE"
  /\ UNCHANGED <<rwin, rbuf, rseq, out, setupVars>>

IgnoreOnNameAck(p) ==
  /\ rstate = "S_WAIT_ON_ACK"
  /\ ~NameAcked(p)
  /\ UNCHANGED <<rvars, setupVars>>

NoNameAck ==
  /\ rstate = "S_WAIT_ON_ACK"
  /\ rstate' = "S_TIMEOUT_ON_ACK"
  /\ UNCHANGED <<rwin, rbuf, rseq, out, setupVars>>

(* Mutant: the tries are not counted. *)
AskForever ==
  /\ rstate = "S_TIMEOUT_ON_ACK"
  /\ rstate' = "S_START"
  /\ UNCHANGED <<rwin, rbuf, rseq, out, setupVars>>

TimeoutOnNameAck ==
  /\ rstate = "S_TIMEOUT_ON_ACK"
  /\ IF namewait >= NameTries
     THEN rstate' = "S_FINISH" /\ namewait' = namewait
     ELSE rstate' = "S_START" /\ namewait' = namewait + 1
  /\ UNCHANGED <<rwin, rbuf, rseq, out, beginwait, lfp>>

(* open_file and good_file.  The local file is truncated; if it cannot be  *)
(* opened the program exits.                                               *)
OpenLocalFile ==
  /\ rstate = "S_OPEN_FILE"
  /\ \E opens \in LocalFopenMay :
       /\ rstate' = IF opens THEN "S_FILE_BEGIN" ELSE "S_FINISH"
       /\ lfp' = IF opens THEN "open" ELSE "NULL"
  /\ out' = <<>>
  /\ beginwait' = 0
  /\ UNCHANGED <<rwin, rbuf, rseq, namewait>>

-----------------------------------------------------------------------------
(* file_begin *)
SendBegin ==
  /\ rstate = "S_FILE_BEGIN"
  /\ beginwait < BeginTries
  /\ rstate' = "S_WAIT_ON_BEGIN"
  /\ UNCHANGED <<rwin, rbuf, rseq, out, setupVars>>

AbandonBegin ==
  /\ rstate = "S_FILE_BEGIN"
  /\ beginwait >= BeginTries
  /\ rstate' = "S_FINISH"
  /\ UNCHANGED <<rwin, rbuf, rseq, out, setupVars>>

BeginAcked(p) == p.flag = "FILE_BEGIN_ACK" /\ p.seq = rseq

RecvBeginAck(p) ==
  /\ rstate = "S_WAIT_ON_BEGIN"
  /\ BeginAcked(p)
  /\ rstate' = "S_WAIT_ON_DATA"
  /\ UNCHANGED <<rwin, rbuf, rseq, out, setupVars>>

(* Anything else, good or damaged, has FILE_BEGIN sent again at once and   *)
(* is not counted.                                                         *)
RecvNoBeginAck(p) ==
  /\ rstate = "S_WAIT_ON_BEGIN"
  /\ ~BeginAcked(p)
  /\ rstate' = "S_FILE_BEGIN"
  /\ UNCHANGED <<rwin, rbuf, rseq, out, setupVars>>

NoBeginAck ==
  /\ rstate = "S_WAIT_ON_BEGIN"
  /\ rstate' = "S_FILE_BEGIN"
  /\ beginwait' = beginwait + 1
  /\ UNCHANGED <<rwin, rbuf, rseq, out, namewait, lfp>>

-----------------------------------------------------------------------------
ClientThinks ==
  \/ TimeoutOnNameAck
  \/ OpenLocalFile
  \/ AbandonBegin
  \/ RcopyThinks /\ UNCHANGED setupVars

ClientSends ==
  \/ SendInitPkt
  \/ SendBegin
  \/ RcopySends /\ UNCHANGED setupVars

Request ==
  CASE rstate = "S_START"      -> Packet("FILE_NAME", rseq, 0)
    [] rstate = "S_FILE_BEGIN" -> Packet("FILE_BEGIN", rseq, 0)
    [] OTHER                   -> Reply

ClientHears(p) ==
  \/ RecvNameAck(p)
  \/ IgnoreOnNameAck(p)
  \/ RecvBeginAck(p)
  \/ RecvNoBeginAck(p)
  \/ RcopyHears(p) /\ UNCHANGED setupVars

ClientHearsDamaged ==
  \/ IgnoreOnNameAck(Damaged)
  \/ RecvNoBeginAck(Damaged)
  \/ RecvCorrupt /\ UNCHANGED setupVars

ClientTimesOut ==
  \/ NoNameAck
  \/ NoBeginAck
  \/ NoData /\ UNCHANGED setupVars

(* MAX_SEND_WAIT_TIME_S of rcopy.h.                                        *)
MAX_SEND_WAIT_TIME_S == 1

(* A signal ends rcopy, wherever it is.                                    *)
ClientKilled ==
  /\ ~RcopyLeft
  /\ rstate' = "S_FINISH"
  /\ UNCHANGED <<rwin, rbuf, rseq, out, setupVars>>

ClientSelects == rstate \in {"S_WAIT_ON_ACK", "S_WAIT_ON_BEGIN"} \/ RcopySelects

ClientPatience == IF rstate = "S_WAIT_ON_DATA" THEN RcopyWindowWait ELSE MAX_SEND_WAIT_TIME_S
=============================================================================
