--------------------------- MODULE TimedInvariant ---------------------------
(***************************************************************************)
(* The inductive invariant of TimedTransfer: that of Transfer, and what    *)
(* FIFO queues and timers add to it.  It is checked by TLC with the        *)
(* properties it is there for and proved in TimedProofs.                   *)
(***************************************************************************)
EXTENDS TimedTransfer, TransferInvariant

Datagrams == PacketType \cup {Damaged}

IsAnswer(p) == p.flag \in {"RR", "SREJ"}

(* What is on its way was sent by the other program, unless it has been    *)
(* damaged.                                                                *)
QueueShape ==
  /\ toServer \in Seq(Datagrams)
  /\ toClient \in Seq(Datagrams)
  /\ \A i \in 1 .. Len(toServer) :
       toServer[i] # Damaged => toServer[i] \in net /\ ToServer(toServer[i])
  /\ \A i \in 1 .. Len(toClient) :
       toClient[i] # Damaged => toClient[i] \in net /\ ToRcopy(toClient[i])

(* The numbers of RR and SREJ never go down along the queue, and the       *)
(* server has taken no RR with a greater one.                              *)
AnswersInOrder ==
  /\ \A i, j \in 1 .. Len(toServer) :
       i < j /\ IsAnswer(toServer[i]) /\ IsAnswer(toServer[j])
         => toServer[i].seq =< toServer[j].seq
  /\ \A i \in 1 .. Len(toServer) : IsAnswer(toServer[i]) => swin.rr =< toServer[i].seq

(* An RR is sent for a block: its number is 2 or more, and the server      *)
(* leaves the loop of file_transfer for FILE_EOF only after one.  What is  *)
(* left of the set-up has 0.                                               *)
AnswerNumbers ==
  /\ \A p \in net : p.flag \in {"FILE_NAME", "FILE_BEGIN"} => p.seq = 0
  /\ \A p \in net : p.flag = "RR" => p.seq >= 2
  /\ rstate = "S_SEND_RR" => rwin.rr >= 2
  /\ swin.rr = 0 \/ swin.rr >= 2
  /\ sstate \in EofStates => swin.rr >= 2

(* FILE_EOF comes before FILE_EOF_ACK.                                     *)
EofOrder ==
  /\ \A p \in net : p.flag = "FILE_EOF_ACK" => rseq # 0
  /\ \A p \in net : p.flag = "FILE_EOF" => sstate \in (EofStates \cup {"S_FINISH"}) \ {"S_FILE_EOF"}
  /\ rseq # 0 => sstate \in (EofStates \cup {"S_FINISH"}) \ {"S_FILE_EOF"}

(* The timers run in select alone, and not beyond their end.               *)
Clocks ==
  /\ selectS \in Nat /\ selectC \in Nat
  /\ selectS =< IF ServerSelects THEN ServerPatience ELSE 0
  /\ ~RcopyLeft => selectC =< IF RcopySelects THEN RcopyWindowWait ELSE 0

(* The seconds since rcopy could last have sent something.                 *)
Silence ==
  selectC + IF rseq = 0 /\ rstate \in {"S_TIMEOUT_ON_DATA", "S_FINISH"}
            THEN RcopyWindowWait ELSE 0

(* The seconds the server's counter of tries stands for, with the present  *)
(* select.                                                                 *)
WindowWaits(num_wait) ==
  CASE sstate = "S_WAIT_ON_RESPONSE"    -> ServerWindowWait * num_wait + selectS
    [] sstate = "S_TIMEOUT_ON_RESPONSE" -> ServerWindowWait * (num_wait + 1)
    [] sstate = "S_SEND_WINDOW"         -> ServerWindowWait * num_wait
    [] OTHER                            -> 0

EofWaits ==
  CASE sstate = "S_WAIT_ON_ACK"    -> eofwait + selectS
    [] sstate = "S_TIMEOUT_ON_ACK" -> eofwait + 1
    [] sstate = "S_SEND"           -> eofwait
    [] OTHER                       -> 0

(* The server is patient at its own expense: it waits for no longer than   *)
(* its tries count, and while something from rcopy is on its way no time   *)
(* passes.  A num_wait that was too high to begin with counts for nothing. *)
Silences ==
  /\ toServer # <<>> /\ ~ServerLeft => Silence = 0
  /\ sstate = "S_ADJUST_WINDOW" => swin.num_wait = 0
  /\ sstate \in TransferStates =>
       /\ Silence =< WindowWaits(swin.num_wait)
       /\ swin.num_wait > MAX_TRIES => Silence =< WindowWaits(0)
  /\ sstate \in EofStates => Silence =< EofWaits

TimedInv ==
  /\ IInv
  /\ QueueShape
  /\ AnswersInOrder
  /\ AnswerNumbers
  /\ EofOrder
  /\ Clocks
  /\ Silences
=============================================================================
