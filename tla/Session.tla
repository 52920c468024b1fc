------------------------------ MODULE Session ------------------------------
(***************************************************************************)
(* A session from the first FILE_NAME to the end: the dispatcher of the    *)
(* server (main of server.c), the children it forks and one rcopy.         *)
(*                                                                         *)
(* Every datagram carries its source, because recv_pkt stores it in        *)
(* remote, the address the next answer goes to, whether the checksum is    *)
(* right or not.  Each process reads its own FIFO queue.  The environment  *)
(* may lose or damage MaxFaults datagrams whose flag is in FaultFlags, and *)
(* may hold back MaxDelays datagrams as long as it likes; it may kill      *)
(* MaxKills of the processes.  Time passes as in TimedTransfer.            *)
(*                                                                         *)
(* Two children are modelled, each an instance of Server with variables of *)
(* its own; the environment does nothing that would call for a third.      *)
(***************************************************************************)
EXTENDS Rcopy

CONSTANTS
  NumBlocks, PartialLast, MAX_TRIES, EOF_TRIES, MallocWait, MallocTop,
  FopenMay,     \* can the server open the file?  The answers possible.
  MaxFaults,    \* datagrams lost or damaged, at most
  FaultFlags,   \* and their flags
  MaxDelays,    \* datagrams held back, at most
  MaxKills      \* processes killed, at most

ASSUME SessionAssumption ==
  /\ NumBlocks \in Nat
  /\ PartialLast \in BOOLEAN
  /\ PartialLast => NumBlocks > 0
  /\ MAX_TRIES \in Nat
  /\ EOF_TRIES \in Nat
  /\ MallocWait \subseteq Nat
  /\ MallocTop \subseteq Nat
  /\ FopenMay \subseteq BOOLEAN
  /\ MaxFaults \in Nat
  /\ MaxDelays \in Nat
  /\ MaxKills \in Nat

VARIABLES
  sstate1, swin1, fpos1, sseq1, eofwait1,   \* the first child
  sstate2, swin2, fpos2, sseq2, eofwait2,   \* the second child
  fopens,   \* can the server open the file?  The same throughout a session.
  peer,     \* Client->remote
  queue,    \* for each process, the datagrams it has not read yet
  waited,   \* for each process, the seconds spent in its present select
  serving,  \* does the dispatcher live?
  faults, delays, kills,
  late      \* the datagrams held back, with their destinations

child1 == <<sstate1, swin1, fpos1, sseq1, eofwait1>>
child2 == <<sstate2, swin2, fpos2, sseq2, eofwait2>>
client == <<rvars, setupVars, peer>>
environment == <<fopens, serving, faults, delays, kills, late>>

sessionVars == <<child1, child2, client, queue, waited, environment>>

C1 == INSTANCE Server WITH
        sstate <- sstate1, swin <- swin1, fpos <- fpos1, sseq <- sseq1, eofwait <- eofwait1
C2 == INSTANCE Server WITH
        sstate <- sstate2, swin <- swin2, fpos <- fpos2, sseq <- sseq2, eofwait <- eofwait2

Children == {"child1", "child2"}
Processes == Children \cup {"rcopy", "dispatcher"}

SessionInit ==
  /\ C1!ChildInit /\ C2!ChildInit
  /\ RcopyInit
  /\ fopens \in FopenMay
  /\ peer = "dispatcher"
  /\ queue = [me \in Processes |-> <<>>]
  /\ waited = [me \in Processes |-> 0]
  /\ serving = TRUE
  /\ faults = 0 /\ delays = 0 /\ kills = 0
  /\ late = {}

-----------------------------------------------------------------------------
(* Has the process a socket?                                               *)
Listens(me) ==
  CASE me = "child1" -> ~C1!NoProcess /\ ~C1!Left
    [] me = "child2" -> ~C2!NoProcess /\ ~C2!Left
    [] me = "rcopy"  -> ~RcopyLeft
    [] OTHER         -> serving

(* The queues q after src has sent pkts to dst.  What is sent to a process *)
(* without a socket is lost.                                               *)
Posted(q, src, dst, pkts) ==
  IF Listens(dst)
  THEN [q EXCEPT ![dst] = @ \o [i \in 1 .. Len(pkts) |-> [src |-> src, pkt |-> pkts[i]]]]
  ELSE q

Consumed(me) == [queue EXCEPT ![me] = Tail(@)]

Computes(me) ==
  /\ queue' = queue
  /\ waited' = [waited EXCEPT ![me] = 0]

Sends(me, dst, pkts) ==
  /\ queue' = Posted(queue, me, dst, pkts)
  /\ waited' = [waited EXCEPT ![me] = 0]

Reads(me, dst, answer) ==
  /\ queue' = Posted(Consumed(me), me, dst, answer)
  /\ waited' = [waited EXCEPT ![me] = 0]

Waiting(me) == queue[me] # <<>>
Arrived(me) == Head(queue[me]).pkt
Silence(me, patience) == ~Waiting(me) /\ waited[me] = patience

-----------------------------------------------------------------------------
(* The dispatcher: a child for every FILE_NAME it reads, anything else is  *)
(* read and forgotten.                                                     *)
Dispatch ==
  /\ serving
  /\ Waiting("dispatcher")
  /\ IF Arrived("dispatcher").flag = "FILE_NAME"
     THEN \/ C1!Fork /\ UNCHANGED child2
          \/ ~C1!NoProcess /\ C2!Fork /\ UNCHANGED child1
     ELSE UNCHANGED <<child1, child2>>
  /\ queue' = Consumed("dispatcher")
  /\ UNCHANGED <<client, waited, environment>>

Child1Step ==
  /\ \/ C1!ChildThinks(fopens) /\ Computes("child1")
     \/ C1!ChildSends /\ Sends("child1", "rcopy", C1!Message)
     \/ /\ Waiting("child1")
        /\ IF Arrived("child1") = Damaged THEN C1!ChildHearsDamaged
           ELSE C1!ChildHears(Arrived("child1"))
        /\ Reads("child1", "rcopy", C1!Answer(Arrived("child1")))
     \/ Silence("child1", C1!ChildPatience) /\ C1!ChildTimesOut /\ Computes("child1")
  /\ UNCHANGED <<child2, client, environment>>

Child2Step ==
  /\ \/ C2!ChildThinks(fopens) /\ Computes("child2")
     \/ C2!ChildSends /\ Sends("child2", "rcopy", C2!Message)
     \/ /\ Waiting("child2")
        /\ IF Arrived("child2") = Damaged THEN C2!ChildHearsDamaged
           ELSE C2!ChildHears(Arrived("child2"))
        /\ Reads("child2", "rcopy", C2!Answer(Arrived("child2")))
     \/ Silence("child2", C2!ChildPatience) /\ C2!ChildTimesOut /\ Computes("child2")
  /\ UNCHANGED <<child1, client, environment>>

(* recv_pkt on rcopy's side.                                               *)
RcopyReads ==
  /\ Waiting("rcopy")
  /\ IF Arrived("rcopy") = Damaged THEN ClientHearsDamaged ELSE ClientHears(Arrived("rcopy"))
  /\ peer' = Head(queue["rcopy"]).src
  /\ Reads("rcopy", peer, <<>>)

RcopyStep ==
  /\ \/ ClientThinks /\ Computes("rcopy") /\ UNCHANGED peer
     \/ ClientSends /\ Sends("rcopy", peer, <<Request>>) /\ UNCHANGED peer
     \/ RcopyReads
     \/ Silence("rcopy", ClientPatience) /\ ClientTimesOut /\ Computes("rcopy") /\ UNCHANGED peer
  /\ UNCHANGED <<child1, child2, environment>>

-----------------------------------------------------------------------------
(* The environment.                                                        *)
Idle(me) ==
  CASE me = "child1" ->
         ~Listens(me) \/ (C1!ChildSelects /\ ~Waiting(me) /\ waited[me] < C1!ChildPatience)
    [] me = "child2" ->
         ~Listens(me) \/ (C2!ChildSelects /\ ~Waiting(me) /\ waited[me] < C2!ChildPatience)
    [] me = "rcopy" ->
         RcopyLeft \/ (ClientSelects /\ ~Waiting(me) /\ waited[me] < ClientPatience)
    [] OTHER -> ~Listens(me) \/ ~Waiting(me)

AllGone == RcopyLeft /\ \A c \in Children : ~Listens(c)

Tick ==
  /\ \A me \in Processes : Idle(me)
  /\ ~AllGone
  /\ waited' = [me \in Processes |->
                  IF me # "dispatcher" /\ Listens(me) THEN waited[me] + 1 ELSE 0]
  /\ UNCHANGED <<child1, child2, client, queue, environment>>

(* The children forked and asked for.  rcopy asks for another one when an  *)
(* answer to FILE_NAME, or a FILE_NAME held back, does not come in time:   *)
(* the environment spares these, and a child that has yet to answer, when  *)
(* there are MaxChildren already.                                          *)
MaxChildren == Cardinality(Children)

Asked ==
  Cardinality({d \in late : d.dst = "dispatcher"})
    + Len(queue["dispatcher"])
    + (IF C1!NoProcess THEN 0 ELSE 1) + (IF C2!NoProcess THEN 0 ELSE 1)

Spared(p) ==
  /\ p.flag \in {"FILE_NAME", "FILE_NAME_ACK", "FILE_NAME_ERR_ACK", "CORRUPT"}
  /\ Asked >= MaxChildren

Fault ==
  /\ faults < MaxFaults
  /\ faults' = faults + 1
  /\ \E me \in Processes :
       /\ Waiting(me) /\ Arrived(me).flag \in FaultFlags
       /\ \/ ~Spared(Arrived(me)) /\ queue' = Consumed(me)
          \/ queue' = [queue EXCEPT ![me][1].pkt = Damaged]
  /\ UNCHANGED <<child1, child2, client, fopens, serving, waited, delays, kills, late>>

Delay ==
  /\ delays < MaxDelays
  /\ delays' = delays + 1
  /\ \E me \in Processes :
       /\ Waiting(me) /\ ~Spared(Arrived(me))
       /\ late' = late \cup {[dst |-> me, src |-> Head(queue[me]).src, pkt |-> Arrived(me)]}
       /\ queue' = Consumed(me)
  /\ UNCHANGED <<child1, child2, client, fopens, serving, waited, faults, kills>>

Arrive ==
  /\ \E d \in late :
       /\ late' = late \ {d}
       /\ queue' = Posted(queue, d.src, d.dst, <<d.pkt>>)
  /\ UNCHANGED <<child1, child2, client, fopens, serving, waited, faults, delays, kills>>

(* Has the child answered rcopy's FILE_NAME?  If it dies before, rcopy     *)
(* asks for another.                                                       *)
Answered(child) ==
  LET sstate == IF child = "child1" THEN sstate1 ELSE sstate2
  IN  sstate \notin {"S_FILE_NAME", "S_SEND_NAME_ACK", "S_SEND_NAME_ERR_ACK"}

(* One of the processes is killed, as testRandError.sh kills the server.   *)
(* Its socket goes with it; the others learn of it by no message.          *)
Kill ==
  /\ kills < MaxKills
  /\ kills' = kills + 1
  /\ \E me \in Processes :
       /\ Listens(me)
       /\ me \in Children /\ Asked >= MaxChildren => Answered(me)
       /\ CASE me = "child1" -> C1!ChildKilled /\ UNCHANGED <<child2, client, serving>>
            [] me = "child2" -> C2!ChildKilled /\ UNCHANGED <<child1, client, serving>>
            [] me = "rcopy"  -> ClientKilled /\ UNCHANGED <<peer, child1, child2, serving>>
            [] OTHER         -> serving' = FALSE /\ UNCHANGED <<child1, child2, client>>
       /\ queue' = [queue EXCEPT ![me] = <<>>]
       /\ waited' = [waited EXCEPT ![me] = 0]
  /\ UNCHANGED <<fopens, faults, delays, late>>

SessionOver == AllGone /\ UNCHANGED sessionVars

SessionNext ==
  \/ Dispatch \/ Child1Step \/ Child2Step \/ RcopyStep
  \/ Tick \/ Fault \/ Delay \/ Arrive \/ Kill
  \/ SessionOver

(* Every process runs, and time passes.                                    *)
SessionSpec ==
  /\ SessionInit
  /\ [][SessionNext]_sessionVars
  /\ WF_sessionVars(Dispatch) /\ WF_sessionVars(Child1Step) /\ WF_sessionVars(Child2Step)
  /\ WF_sessionVars(RcopyStep) /\ WF_sessionVars(Tick)

-----------------------------------------------------------------------------
(* What a session must do.                                                 *)
Copy == INSTANCE FileCopy WITH
  copy   <- out,
  status <- IF rseq # 0 THEN "complete"
            ELSE IF rstate \in {"S_TIMEOUT_ON_DATA", "S_FINISH"} THEN "gaveup"
            ELSE "copying"

(* Lost and damaged datagrams, and the second child that a lost answer     *)
(* calls for, never show in the local file: the set-up and the transfer    *)
(* together still implement the abstract copy.                             *)
SessionImplementsFileCopy == Copy!Spec

(* file_name and main together let one child alone serve the file: the     *)
(* children rcopy did not choose never get as far as file_transfer, and    *)
(* the one that does is rcopy's remote for as long as rcopy is there.      *)
OneChildServes ==
  /\ ~(C1!Transferring /\ C2!Transferring)
  /\ ~RcopyLeft /\ C1!Transferring => peer = "child1"
  /\ ~RcopyLeft /\ C2!Transferring => peer = "child2"

(* rcopy gives up before it has opened its file, and hands fclose what     *)
(* malloc left in LocalFile->fp, only for what happened to its datagrams:  *)
(* each FILE_NAME that it counted, or the answer to it, was lost, damaged  *)
(* or held back.  Ten are enough, because a child that hears nothing for   *)
(* ten seconds is gone and will not answer again.  Left aside are a file   *)
(* the server cannot open, whose FILE_NAME_ERR_ACK rcopy drops, and kills. *)
(* A local fopen that fails leaves NULL, which process_server knows.       *)
EveryTryWasLost ==
  RcopyLeft /\ lfp = "unset" /\ fopens /\ kills = 0 =>
    \/ faults + delays >= C1!MAX_RECV_WAIT_TIME_S
    \/ \E num_wait \in ClientWait :
         num_wait =< namewait /\ faults + delays >= namewait - num_wait + 1

(* No process of a session lives for ever, whatever is lost or late, and   *)
(* whether the file exists or not.                                         *)
AllLeave == <>AllGone

(* testRandError.sh:90 compares the two files after a session with lost    *)
(* and damaged datagrams ("diff -qs $FILE $FILEOUT") and returns the       *)
(* verdict as its own: the copy is to be equal to the file.                *)
FilesAgree ==
  <>(RcopyLeft /\ out = [i \in 1 .. NumBlocks |-> [data |-> i, len |-> i]])

(* The same comparison for sessions that rcopy considers complete.         *)
CompleteFilesAgree ==
  RcopyLeft /\ rseq # 0 => out = [i \in 1 .. NumBlocks |-> [data |-> i, len |-> i]]
=============================================================================
