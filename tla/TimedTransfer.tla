---------------------------- MODULE TimedTransfer ----------------------------
(***************************************************************************)
(* A transfer with its timers, for what must eventually happen.            *)
(*                                                                         *)
(* Each direction is a FIFO queue.  The environment may lose or damage     *)
(* MaxFaults datagrams, which is what sendtoErr of the cpe464 library does *)
(* on purpose.  Time is counted in seconds and passes only when both       *)
(* programs sit in select with nothing to read: computing and delivering   *)
(* take no time against timers of a second and more.  select_call arms its *)
(* timer anew at every call, so a wait is counted from the last datagram,  *)
(* good or bad.                                                            *)
(*                                                                         *)
(* net of Transfer is kept as the record of everything sent; the queues    *)
(* and timers only restrict the steps of Transfer.                         *)
(***************************************************************************)
EXTENDS Transfer

CONSTANT MaxFaults  \* datagrams lost or damaged, at most

ASSUME MaxFaultsAssumption == MaxFaults \in Nat

VARIABLES
  toServer, toClient,   \* datagrams on their way, first to arrive first
  selectS, selectC,     \* seconds since a program last computed, sent or read: those
                        \* of its present select call, or since it left
  faults                \* datagrams lost or damaged so far

timedVars == <<vars, toServer, toClient, selectS, selectC, faults>>

TimedInit ==
  /\ Init
  /\ toServer = <<>> /\ toClient = <<>>
  /\ selectS = 0 /\ selectC = 0
  /\ faults = 0

-----------------------------------------------------------------------------
(* The server's steps.  A datagram to a program that has left is lost.     *)
ServerThinking ==
  /\ ServerComputes
  /\ selectS' = 0
  /\ UNCHANGED <<toServer, toClient, selectC, faults>>

ServerSending ==
  /\ ServerTransmits
  /\ toClient' = IF RcopyLeft THEN toClient ELSE toClient \o Burst
  /\ selectS' = 0
  /\ UNCHANGED <<toServer, selectC, faults>>

ServerReading ==
  /\ toServer # <<>>
  /\ IF Head(toServer) = Damaged
     THEN ServerHearsDamaged
     ELSE ServerHears(Head(toServer))
  /\ toServer' = Tail(toServer)
  /\ selectS' = 0
  /\ UNCHANGED <<rvars, net, toClient, selectC, faults>>

ServerTimeout ==
  /\ toServer = <<>> /\ selectS = ServerPatience
  /\ ServerTimesOut
  /\ selectS' = 0
  /\ UNCHANGED <<rvars, net, toServer, toClient, selectC, faults>>

ServerStep == ServerThinking \/ ServerSending \/ ServerReading \/ ServerTimeout

-----------------------------------------------------------------------------
(* rcopy's steps.                                                          *)
RcopyThinking ==
  /\ RcopyComputes
  /\ selectC' = 0
  /\ UNCHANGED <<toServer, toClient, selectS, faults>>

RcopySending ==
  /\ RcopyTransmits
  /\ toServer' = IF ServerLeft THEN toServer ELSE Append(toServer, Reply)
  /\ selectC' = 0
  /\ UNCHANGED <<toClient, selectS, faults>>

RcopyReading ==
  /\ toClient # <<>>
  /\ IF Head(toClient) = Damaged THEN RecvCorrupt ELSE RcopyHears(Head(toClient))
  /\ toClient' = Tail(toClient)
  /\ selectC' = 0
  /\ UNCHANGED <<svars, net, toServer, selectS, faults>>

RcopyTimeout ==
  /\ toClient = <<>> /\ selectC = RcopyWindowWait
  /\ NoData
  /\ selectC' = 0
  /\ UNCHANGED <<svars, net, toServer, toClient, selectS, faults>>

RcopyStep == RcopyThinking \/ RcopySending \/ RcopyReading \/ RcopyTimeout

-----------------------------------------------------------------------------
(* The environment.                                                        *)
ServerIdle == ServerLeft \/ (ServerSelects /\ toServer = <<>> /\ selectS < ServerPatience)

RcopyIdle == RcopyLeft \/ (RcopySelects /\ toClient = <<>> /\ selectC < RcopyWindowWait)

Tick ==
  /\ ServerIdle /\ RcopyIdle
  /\ ~(ServerLeft /\ RcopyLeft)
  /\ selectS' = IF ServerLeft THEN 0 ELSE selectS + 1
  /\ selectC' = selectC + 1
  /\ UNCHANGED <<vars, toServer, toClient, faults>>

(* The datagram that would be next to arrive is lost, or arrives damaged.  *)
Fault ==
  /\ faults < MaxFaults
  /\ faults' = faults + 1
  /\ \/ /\ toServer # <<>>
        /\ toServer' \in {Tail(toServer), <<Damaged>> \o Tail(toServer)}
        /\ UNCHANGED toClient
     \/ /\ toClient # <<>>
        /\ toClient' \in {Tail(toClient), <<Damaged>> \o Tail(toClient)}
        /\ UNCHANGED toServer
  /\ UNCHANGED <<vars, selectS, selectC>>

TimedTerminated == ServerLeft /\ RcopyLeft /\ UNCHANGED timedVars

TimedNext == ServerStep \/ RcopyStep \/ Tick \/ Fault \/ TimedTerminated

(* Both programs run, and time passes: nothing is asked of the environment *)
(* but that its faults are finitely many.                                  *)
TimedSpec ==
  /\ TimedInit
  /\ [][TimedNext]_timedVars
  /\ WF_timedVars(ServerStep) /\ WF_timedVars(RcopyStep) /\ WF_timedVars(Tick)

-----------------------------------------------------------------------------
(* Queues and timers only restrict Transfer: what is proved of Transfer    *)
(* holds here.                                                             *)
ImplementsTransfer == Init /\ [][Next]_vars

(* The whole file arrives and rcopy is told so, whichever few datagrams    *)
(* are lost or damaged: the server's timers fire often enough while rcopy  *)
(* waits.                                                                  *)
Completes == <>(rstate = "S_FINISH" /\ rseq # 0 /\ Len(out) = NumBlocks)

(* Whatever happens both programs leave the transfer: no retry is for ever *)
(* and they never wait for one another without end.                        *)
BothLeave == <>(ServerLeft /\ RcopyLeft)

(* rcopy's going is never announced to the child, whose own tries must end *)
(* it.  An rcopy that gave up has used some of the child's waits for an    *)
(* answer to a window; to one that is done the child may repeat FILE_EOF   *)
(* as often as it likes, because the FILE_EOF_ACK is sent once.  In no     *)
(* case does a child outlive rcopy by more than these two allow.           *)
FollowsRcopy ==
  RcopyLeft /\ ~ServerLeft =>
    \/ selectC =< (MAX_TRIES + 1) * ServerWindowWait - RcopyWindowWait
    \/ selectC =< (EOF_TRIES + 1) * MAX_TRY_WAIT_TIME_S

(* testRandError.sh:53-67 gives the children ten seconds to end after      *)
(* rcopy has ("- Waiting for Server children to close", for i in {1..10}), *)
(* and reports those that are still there: "-- Children didn't close".     *)
ChildrenClose == RcopyLeft /\ selectC > 10 => ServerLeft

(* wait_on_ack compares sequence numbers alone, and RR and SREJ have them  *)
(* too.  On a network that keeps order the packet it takes is nevertheless *)
(* an answer to FILE_EOF.                                                  *)
AckAnswersEof ==
  [][sstate = "S_WAIT_ON_ACK" /\ sstate' = "S_FINISH" => rseq # 0]_timedVars

(* server.c:207: "renitialize window attributes -- one attribute to        *)
(* initialize is num_wait = 0".  Counted from 0, the server gives a window *)
(* up after MAX_TRIES silent waits in a row, and while rcopy is there to   *)
(* answer it takes as many faults to keep it silent so often.              *)
GivesUpAfterMaxTries ==
  [][sstate = "S_TIMEOUT_ON_RESPONSE" /\ sstate' = "S_FINISH"
       => faults >= MAX_TRIES \/ RcopyLeft]_timedVars

(* server.c:263: "make sure funciton can break out if eof and RR is above  *)
(* highest sent pkt": a server that has read the whole file, and whose RR  *)
(* is above every packet it has sent, gets to FILE_EOF.                    *)
BreaksOut ==
  (/\ sstate = "S_WAIT_ON_RESPONSE" /\ swin.eof
   /\ \A p \in net : p.flag = "DATA" => p.seq < swin.rr)
    ~> sstate = "S_FILE_EOF"
=============================================================================
