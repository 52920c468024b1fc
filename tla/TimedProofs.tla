---------------------------- MODULE TimedProofs ----------------------------
(***************************************************************************)
(* Proofs about TimedTransfer: it implements Transfer, so that all that is *)
(* proved of Transfer holds under FIFO queues and timers, and what order   *)
(* and time add to it.                                                     *)
(***************************************************************************)
EXTENDS TimedInvariant, TransferProofs, SequenceTheorems

-----------------------------------------------------------------------------
(* Queues.                                                                 *)

(* A damaged datagram is none that was sent.                               *)
LEMMA DamagedIs ==
  /\ Damaged \in Datagrams
  /\ Damaged \notin PacketType
  /\ Damaged.flag = "CORRUPT"
BY DEF Damaged, Packet, Datagrams, PacketType

(* The first datagram is taken off a queue.                                *)
LEMMA QueueTail ==
  ASSUME NEW q \in Seq(Datagrams), q # <<>>
  PROVE  /\ Head(q) \in Datagrams /\ Head(q) = q[1] /\ Len(q) \in Nat /\ 1 \in 1 .. Len(q)
         /\ Tail(q) \in Seq(Datagrams) /\ Len(Tail(q)) = Len(q) - 1
         /\ \A i \in 1 .. Len(Tail(q)) : Tail(q)[i] = q[i + 1] /\ i + 1 \in 1 .. Len(q)
<1>1. Len(q) \in Nat \ {0}
  BY EmptySeq
<1>2. Head(q) = q[1] /\ Head(q) \in Datagrams
  BY <1>1, HeadTailProperties
<1> QED BY <1>1, <1>2, HeadTailProperties

(* The first datagram is damaged on its way.                               *)
LEMMA QueueDamage ==
  ASSUME NEW q \in Seq(Datagrams), q # <<>>
  PROVE  LET d == <<Damaged>> \o Tail(q)
         IN  /\ d \in Seq(Datagrams) /\ Len(d) = Len(q) /\ Len(q) \in Nat
             /\ \A i \in 1 .. Len(q) : d[i] = IF i = 1 THEN Damaged ELSE q[i]
<1>1. <<Damaged>> \in Seq(Datagrams) /\ Len(<<Damaged>>) = 1 /\ <<Damaged>>[1] = Damaged
  BY DamagedIs
<1>2. /\ Tail(q) \in Seq(Datagrams) /\ Len(Tail(q)) = Len(q) - 1 /\ Len(q) \in Nat
      /\ \A i \in 1 .. Len(Tail(q)) : Tail(q)[i] = q[i + 1]
  BY QueueTail
<1> QED BY <1>1, <1>2, ConcatProperties

(* A datagram is put at the end of a queue.                                *)
LEMMA QueueAppend ==
  ASSUME NEW q \in Seq(Datagrams), NEW p \in Datagrams
  PROVE  /\ Append(q, p) \in Seq(Datagrams) /\ Len(q) \in Nat
         /\ Len(Append(q, p)) = Len(q) + 1
         /\ \A i \in 1 .. Len(q) : Append(q, p)[i] = q[i]
         /\ Append(q, p)[Len(q) + 1] = p
OBVIOUS

(* What send_window and file_eof send, one after the other: packets that   *)
(* Outgoing has too, for rcopy.                                            *)
LEMMA BurstIs ==
  ASSUME IInv, ServerSends
  PROVE  /\ Burst \in Seq(PacketType)
         /\ \A i \in 1 .. Len(Burst) : Burst[i] \in Outgoing /\ ToRcopy(Burst[i])
<1>1. CASE sstate = "S_SEND_WINDOW"
  <2>1. /\ swin \in WindowType(PacketType) /\ WellPlaced(swin)
        /\ swin.bottom \in Nat /\ swin.top \in Nat
    BY WindowFields DEF IInv, TypeOK, SenderShape, WellPlaced
  <2>2. WindowSeqs(swin) \in SUBSET Nat /\ IsFiniteSet(WindowSeqs(swin))
    <3>1. IsFiniteSet(swin.bottom .. swin.top)
      BY <2>1, FS_Interval
    <3>2. swin.bottom .. swin.top \in SUBSET Nat
      BY <2>1
    <3> QED BY <3>1, <3>2 DEF WindowSeqs
  <2>3. Fulls \in SUBSET Nat /\ IsFiniteSet(Fulls) /\ Fulls \subseteq WindowSeqs(swin)
    <3>1. Fulls \subseteq WindowSeqs(swin)
      BY DEF Fulls, SeqsIn
    <3> QED BY <2>2, <3>1, FS_Subset
  <2>4. FullSeqs \in [1 .. Cardinality(Fulls) -> Fulls] /\ Cardinality(Fulls) \in Nat
    BY <2>3, AscendingIs, FS_CardinalityType DEF FullSeqs
  <2>5. ASSUME NEW seq \in Fulls
        PROVE  LET p == swin.Frame[get_frame_num(seq)].pkt
               IN  p \in PacketType /\ p \in Outgoing /\ ToRcopy(p)
    <3>1. SFrame(seq).state = "FRAME_FULL" /\ seq \in WindowSeqs(swin)
      BY DEF Fulls, SeqsIn, SFrame
    <3>2. SFrame(seq).pkt = Packet("DATA", seq, seq)
      BY <3>1 DEF IInv, SenderShape
    <3>3. get_frame_num(seq) \in Slots
      BY <2>3, SlotType
    <3>4. SFrame(seq).pkt \in PacketType
      BY <2>1, <3>3, WindowFields DEF SFrame
    <3>5. SFrame(seq).pkt \in Outgoing
      BY <1>1 DEF Outgoing, SFrame
    <3> QED BY <3>2, <3>4, <3>5 DEF SFrame, ToRcopy, Packet
  <2>6. Burst = [i \in 1 .. Cardinality(Fulls) |-> swin.Frame[get_frame_num(FullSeqs[i])].pkt]
    BY <1>1 DEF Burst
  <2>7. \A i \in 1 .. Cardinality(Fulls) :
          Burst[i] \in PacketType /\ Burst[i] \in Outgoing /\ ToRcopy(Burst[i])
    BY <2>4, <2>5, <2>6
  <2>8. Burst \in [1 .. Cardinality(Fulls) -> PacketType]
    BY <2>6, <2>7
  <2>9. Burst \in Seq(PacketType) /\ Len(Burst) = Cardinality(Fulls)
    BY <2>4, <2>8
  <2> QED BY <2>7, <2>9
<1>2. CASE sstate # "S_SEND_WINDOW"
  <2>1. Burst = <<Packet("FILE_EOF", sseq, 0)>> /\ Outgoing = {Packet("FILE_EOF", sseq, 0)}
    BY <1>2 DEF Burst, Outgoing
  <2>2. Packet("FILE_EOF", sseq, 0) \in PacketType
    BY PacketIs, Parameters DEF IInv, TypeOK, Blocks
  <2>3. ToRcopy(Packet("FILE_EOF", sseq, 0))
    BY DEF ToRcopy, Packet
  <2> QED BY <2>1, <2>2, <2>3
<1> QED BY <1>1, <1>2

(* What rcopy sends is for the server.                                     *)
LEMMA ReplyIs ==
  ASSUME IInv, RcopySends
  PROVE  /\ Reply \in PacketType /\ ToServer(Reply)
         /\ Reply.flag = CASE rstate = "S_SEND_RR"   -> "RR"
                           [] rstate = "S_SEND_SREJ" -> "SREJ"
                           [] OTHER                  -> "FILE_EOF_ACK"
         /\ rstate \in {"S_SEND_RR", "S_SEND_SREJ"} => Reply.seq = rwin.rr
<1>1. rwin.rr \in Nat /\ rseq \in Nat /\ 0 \in Blocks
  BY ReceiverFields, Parameters DEF IInv, TypeOK, Blocks
<1>2. rstate \in {"S_SEND_RR", "S_SEND_SREJ", "S_FILE_EOF"}
  BY DEF RcopySends, SendRR, SendSREJ, SendEofAck
<1> QED BY <1>1, <1>2, PacketIs DEF Reply, ToServer, Packet

-----------------------------------------------------------------------------
(* Every step is one of Transfer.                                          *)
LEMMA TimedStepIs ==
  ASSUME QueueShape, [TimedNext]_timedVars
  PROVE  [Next]_vars
<1>1. CASE ServerReading
  <2>1. Head(toServer) = toServer[1] /\ 1 \in 1 .. Len(toServer)
    BY <1>1, QueueTail DEF ServerReading, QueueShape
  <2>2. CASE Head(toServer) = Damaged
    BY <1>1, <2>2 DEF ServerReading, ServerHearsDamaged, ServerIsDisappointed, ServerTimesOut, Next
  <2>3. CASE Head(toServer) # Damaged
    BY <1>1, <2>1, <2>3 DEF ServerReading, QueueShape, ServerReceives, Next
  <2> QED BY <2>2, <2>3
<1>2. CASE RcopyReading
  <2>1. Head(toClient) = toClient[1] /\ 1 \in 1 .. Len(toClient)
    BY <1>2, QueueTail DEF RcopyReading, QueueShape
  <2>2. CASE Head(toClient) = Damaged
    BY <1>2, <2>2 DEF RcopyReading, RcopyIsDisappointed, Next
  <2>3. CASE Head(toClient) # Damaged
    BY <1>2, <2>1, <2>3 DEF RcopyReading, QueueShape, RcopyReceives, Next
  <2> QED BY <2>2, <2>3
<1>3. CASE ServerThinking \/ ServerSending \/ ServerTimeout
  BY <1>3 DEF ServerThinking, ServerSending, ServerTimeout, ServerIsDisappointed, Next
<1>4. CASE RcopyThinking \/ RcopySending \/ RcopyTimeout
  BY <1>4 DEF RcopyThinking, RcopySending, RcopyTimeout, RcopyIsDisappointed, Next
<1>5. CASE Tick \/ Fault \/ TimedTerminated \/ UNCHANGED timedVars
  BY <1>5 DEF Tick, Fault, TimedTerminated, timedVars
<1> QED BY <1>1, <1>2, <1>3, <1>4, <1>5 DEF TimedNext, ServerStep, RcopyStep

-----------------------------------------------------------------------------
(* The queues.                                                             *)

(* The network forgets nothing.                                            *)
LEMMA NetGrows == ASSUME [TimedNext]_timedVars PROVE net \subseteq net'
BY DEF TimedNext, ServerStep, RcopyStep, ServerThinking, ServerSending, ServerReading,
       ServerTimeout, RcopyThinking, RcopySending, RcopyReading, RcopyTimeout, Tick, Fault,
       TimedTerminated, timedVars, vars, ServerComputes, ServerTransmits, RcopyComputes,
       RcopyTransmits

(* How a step changes the server's queue.                                  *)
LEMMA ToServerChanges ==
  ASSUME [TimedNext]_timedVars
  PROVE  \/ toServer' = toServer
         \/ toServer # <<>> /\ toServer' \in {Tail(toServer), <<Damaged>> \o Tail(toServer)}
         \/ /\ RcopySending /\ ~ServerLeft
            /\ toServer' = Append(toServer, Reply)
BY DEF TimedNext, ServerStep, RcopyStep, ServerThinking, ServerSending, ServerReading,
       ServerTimeout, RcopyThinking, RcopySending, RcopyReading, RcopyTimeout, Tick, Fault,
       TimedTerminated, timedVars

(* And rcopy's.                                                            *)
LEMMA ToClientChanges ==
  ASSUME [TimedNext]_timedVars
  PROVE  \/ toClient' = toClient
         \/ toClient # <<>> /\ toClient' \in {Tail(toClient), <<Damaged>> \o Tail(toClient)}
         \/ ServerSending /\ toClient' = toClient \o Burst
BY DEF TimedNext, ServerStep, RcopyStep, ServerThinking, ServerSending, ServerReading,
       ServerTimeout, RcopyThinking, RcopySending, RcopyReading, RcopyTimeout, Tick, Fault,
       TimedTerminated, timedVars

(* What is left of a queue are datagrams of it, in their order.            *)
LEMMA QueueShrinks ==
  ASSUME NEW q \in Seq(Datagrams), NEW r, q # <<>>,
         r \in {Tail(q), <<Damaged>> \o Tail(q)}
  PROVE  /\ r \in Seq(Datagrams)
         /\ \E c \in {0, 1} : \A i \in 1 .. Len(r) :
              r[i] # Damaged => i + c \in 1 .. Len(q) /\ r[i] = q[i + c]
<1>1. CASE r = Tail(q)
  <2>1. r \in Seq(Datagrams) /\ \A i \in 1 .. Len(r) : i + 1 \in 1 .. Len(q) /\ r[i] = q[i + 1]
    BY <1>1, QueueTail
  <2> QED BY <2>1
<1>2. CASE r = <<Damaged>> \o Tail(q)
  <2>1. /\ r \in Seq(Datagrams) /\ Len(r) = Len(q) /\ Len(q) \in Nat
        /\ \A i \in 1 .. Len(q) : r[i] = IF i = 1 THEN Damaged ELSE q[i]
    BY <1>2, QueueDamage
  <2>2. \A i \in 1 .. Len(r) : r[i] # Damaged => i + 0 \in 1 .. Len(q) /\ r[i] = q[i + 0]
    BY <2>1
  <2> QED BY <2>1, <2>2
<1> QED BY <1>1, <1>2

LEMMA QueueShapeStep ==
  ASSUME IInv, QueueShape, [TimedNext]_timedVars
  PROVE  QueueShape'
<1>1. net \subseteq net'
  BY NetGrows
<1>2. /\ toServer' \in Seq(Datagrams)
      /\ \A i \in 1 .. Len(toServer') :
           toServer'[i] # Damaged => toServer'[i] \in net' /\ ToServer(toServer'[i])
  <2>1. CASE toServer' = toServer
    BY <1>1, <2>1 DEF QueueShape
  <2>2. CASE toServer # <<>> /\ toServer' \in {Tail(toServer), <<Damaged>> \o Tail(toServer)}
    <3>1. toServer \in Seq(Datagrams)
      BY DEF QueueShape
    <3>2. toServer' \in Seq(Datagrams)
      BY <2>2, <3>1, QueueShrinks
    <3>3. PICK c \in {0, 1} : \A i \in 1 .. Len(toServer') :
            toServer'[i] # Damaged => i + c \in 1 .. Len(toServer) /\ toServer'[i] = toServer[i + c]
      BY <2>2, <3>1, QueueShrinks
    <3> QED BY <1>1, <3>2, <3>3 DEF QueueShape
  <2>3. CASE RcopySending /\ toServer' = Append(toServer, Reply)
    <3>1. Reply \in Datagrams /\ Reply \in net' /\ ToServer(Reply)
      BY <2>3, ReplyIs DEF RcopySending, RcopyTransmits, Datagrams
    <3>2. toServer \in Seq(Datagrams)
      BY DEF QueueShape
    <3>3. /\ toServer' \in Seq(Datagrams) /\ Len(toServer') = Len(toServer) + 1
          /\ Len(toServer) \in Nat
          /\ \A i \in 1 .. Len(toServer) : toServer'[i] = toServer[i]
          /\ toServer'[Len(toServer) + 1] = Reply
      BY <2>3, <3>1, <3>2, QueueAppend
    <3>4. ASSUME NEW i \in 1 .. Len(toServer')
          PROVE  i \in 1 .. Len(toServer) \/ i = Len(toServer) + 1
      BY <3>3
    <3> QED BY <1>1, <3>1, <3>3, <3>4 DEF QueueShape
  <2> QED BY <2>1, <2>2, <2>3, ToServerChanges
<1>3. /\ toClient' \in Seq(Datagrams)
      /\ \A i \in 1 .. Len(toClient') :
           toClient'[i] # Damaged => toClient'[i] \in net' /\ ToRcopy(toClient'[i])
  <2>1. CASE toClient' = toClient
    BY <1>1, <2>1 DEF QueueShape
  <2>2. CASE toClient # <<>> /\ toClient' \in {Tail(toClient), <<Damaged>> \o Tail(toClient)}
    <3>1. toClient \in Seq(Datagrams)
      BY DEF QueueShape
    <3>2. toClient' \in Seq(Datagrams)
      BY <2>2, <3>1, QueueShrinks
    <3>3. PICK c \in {0, 1} : \A i \in 1 .. Len(toClient') :
            toClient'[i] # Damaged => i + c \in 1 .. Len(toClient) /\ toClient'[i] = toClient[i + c]
      BY <2>2, <3>1, QueueShrinks
    <3> QED BY <1>1, <3>2, <3>3 DEF QueueShape
  <2>3. CASE ServerSending /\ toClient' = toClient \o Burst
    <3>1. /\ Burst \in Seq(PacketType)
          /\ \A i \in 1 .. Len(Burst) : Burst[i] \in net' /\ ToRcopy(Burst[i])
      BY <2>3, BurstIs DEF ServerSending, ServerTransmits
    <3>2. toClient \in Seq(Datagrams) /\ Burst \in Seq(Datagrams)
      BY <3>1, SeqMonotonic DEF QueueShape, Datagrams
    <3>3. Len(toClient) \in Nat /\ Len(Burst) \in Nat
      BY <3>2, LenProperties
    <3>4. /\ toClient' \in Seq(Datagrams) /\ Len(toClient') = Len(toClient) + Len(Burst)
          /\ \A i \in 1 .. Len(toClient) + Len(Burst) :
               toClient'[i] = IF i =< Len(toClient) THEN toClient[i] ELSE Burst[i - Len(toClient)]
      BY <2>3, <3>2, ConcatProperties
    <3>5. ASSUME NEW i \in 1 .. Len(toClient')
          PROVE  \/ i \in 1 .. Len(toClient) /\ toClient'[i] = toClient[i]
                 \/ \E k \in 1 .. Len(Burst) : toClient'[i] = Burst[k]
      <4>1. CASE i =< Len(toClient)
        BY <3>3, <3>4, <4>1
      <4>2. CASE i > Len(toClient)
        <5>1. i - Len(toClient) \in 1 .. Len(Burst)
          BY <3>3, <3>4, <4>2
        <5> QED BY <3>3, <3>4, <4>2, <5>1
      <4> QED BY <3>3, <3>4, <4>1, <4>2
    <3> QED BY <1>1, <3>1, <3>4, <3>5 DEF QueueShape
  <2> QED BY <2>1, <2>2, <2>3, ToClientChanges
<1> QED BY <1>2, <1>3 DEF QueueShape

-----------------------------------------------------------------------------
(* What the server's steps do to its state, its counters and rr.           *)

LEMMA SenderFields ==
  ASSUME IInv
  PROVE  /\ swin \in WindowType(PacketType) /\ WellPlaced(swin)
         /\ swin.rr \in Nat /\ swin.num_wait \in Nat /\ swin.top_sent \in Nat
         /\ eofwait \in Nat /\ eofwait =< EOF_TRIES /\ sseq \in {0, 1}
BY WindowFields, Parameters DEF IInv, TypeOK, SenderShape, WellPlaced

(* A step that computes: rr stays, and num_wait counts the tries.          *)
LEMMA ServerThinksIs ==
  ASSUME IInv, ServerThinks
  PROVE  /\ swin'.rr = swin.rr
         /\ swin'.num_wait = IF RetryWindow THEN swin.num_wait + 1 ELSE swin.num_wait
         /\ RetryWindow => /\ sstate = "S_TIMEOUT_ON_RESPONSE" /\ sstate' = "S_SEND_WINDOW"
                           /\ swin.num_wait < MAX_TRIES
         /\ ~RetryWindow =>
              \/ sstate = "S_FILL_WINDOW" /\ sstate' = "S_SEND_WINDOW"
              \/ sstate = "S_TIMEOUT_ON_RESPONSE" /\ sstate' = "S_FINISH"
              \/ /\ sstate = "S_ADJUST_WINDOW"
                 /\ sstate' \in {"S_FILL_WINDOW", "S_SEND_WINDOW", "S_FILE_EOF"}
                 /\ sstate' = "S_FILE_EOF" => swin.rr > swin.top_sent
              \/ sstate = "S_FILE_EOF" /\ sstate' = "S_SEND"
              \/ sstate = "S_TIMEOUT_ON_ACK" /\ sstate' \in {"S_SEND", "S_FINISH"}
         /\ eofwait' = IF sstate = "S_TIMEOUT_ON_ACK" /\ sstate' = "S_SEND"
                       THEN eofwait + 1 ELSE eofwait
<1>1. CASE RetryWindow
  <2> DEFINE v == SetFrames(swin, SeqsIn(swin, "FRAME_SENT"), "FRAME_FULL")
  <2>1. DOMAIN v = DOMAIN swin /\ v.rr = swin.rr /\ v.num_wait = swin.num_wait
    BY SenderFields, SetFramesKeeps DEF SetFrames
  <2>2. swin' = [v EXCEPT !.num_wait = v.num_wait + 1]
    BY <1>1 DEF RetryWindow
  <2> HIDE DEF v
  <2>3. swin'.rr = swin.rr /\ swin'.num_wait = swin.num_wait + 1
    BY <2>1, <2>2, SenderFields DEF WindowType
  <2> QED BY <1>1, <2>3 DEF RetryWindow
<1>2. CASE AdjustSlide
  <2>1. Acked(swin) =< swin.top + 1 /\ CanSlide(swin)
    BY <1>2, SenderFields, WindowFields, ReceiverFields
       DEF AdjustSlide, Acked, IInv, SenderShape, Knowledge
  <2>2. swin'.rr = swin.rr /\ swin'.num_wait = swin.num_wait
    BY <1>2, <2>1, SenderFields, SlideIs DEF AdjustSlide
  <2> QED BY <1>2, <2>2 DEF AdjustSlide, RetryWindow
<1>3. CASE FillWindow
  <2>1. swin'.rr = swin.rr /\ swin'.num_wait = swin.num_wait
    BY <1>3, SenderFields DEF FillWindow, WindowType
  <2> QED BY <1>3, <2>1 DEF FillWindow, RetryWindow
<1>4. CASE TimeoutOnAck
  BY <1>4, SenderFields DEF TimeoutOnAck, RetryWindow
<1>5. CASE AbandonWindow \/ AdjustDone \/ AdjustStay \/ CreateFileEof
  BY <1>5, SenderFields
     DEF AbandonWindow, AdjustDone, AdjustStay, CreateFileEof, RetryWindow, AllAcked
<1> QED BY <1>1, <1>2, <1>3, <1>4, <1>5 DEF ServerThinks

(* A step that sends.                                                      *)
LEMMA ServerSendsIs ==
  ASSUME IInv, ServerSends
  PROVE  /\ swin'.rr = swin.rr /\ swin'.num_wait = swin.num_wait /\ eofwait' = eofwait
         /\ \/ sstate = "S_SEND_WINDOW" /\ sstate' = "S_WAIT_ON_RESPONSE"
            \/ sstate = "S_SEND" /\ sstate' = "S_WAIT_ON_ACK"
<1>1. CASE SendWindow
  <2> DEFINE v == SetFrames(swin, Fulls, "FRAME_SENT")
  <2>1. DOMAIN v = DOMAIN swin /\ v.rr = swin.rr /\ v.num_wait = swin.num_wait
    BY SenderFields, SetFramesKeeps DEF SetFrames
  <2>2. \E top_sent : swin' = [v EXCEPT !.top_sent = top_sent]
    BY <1>1 DEF SendWindow
  <2> HIDE DEF v
  <2>3. swin'.rr = swin.rr /\ swin'.num_wait = swin.num_wait
    BY <2>1, <2>2, SenderFields DEF WindowType
  <2> QED BY <1>1, <2>3 DEF SendWindow
<1>2. CASE SendFileEof
  BY <1>2 DEF SendFileEof
<1> QED BY <1>1, <1>2 DEF ServerSends

(* A step that hears a good packet.                                        *)
LEMMA ServerHearsIs ==
  ASSUME IInv, NEW p, ServerHears(p), p.flag # "CORRUPT"
  PROVE  /\ eofwait' = eofwait
         /\ \/ /\ sstate = "S_WAIT_ON_RESPONSE"
               /\ sstate' \in {"S_ADJUST_WINDOW", "S_FILE_NAME", "S_FINISH"}
               /\ swin'.num_wait = 0
               /\ swin'.rr = IF p.flag = "RR" /\ p.seq > swin.rr THEN p.seq ELSE swin.rr
            \/ /\ sstate = "S_WAIT_ON_ACK"
               /\ swin' = swin
               /\ sstate' = IF p.seq = sseq THEN "S_FINISH" ELSE sstate
<1>1. CASE RecvRR(p)
  BY <1>1, SenderFields DEF RecvRR, HearsResponse, WindowType
<1>2. CASE RecvSREJ(p)
  BY <1>2, SenderFields DEF RecvSREJ, HearsResponse, WindowType
<1>3. CASE RecvOther(p)
  BY <1>3, SenderFields DEF RecvOther, HearsResponse, WindowType
<1>4. CASE RecvEofAck(p) \/ IgnoreOnAck(p)
  BY <1>4 DEF RecvEofAck, IgnoreOnAck, svars
<1> QED BY <1>1, <1>2, <1>3, <1>4 DEF ServerHears

(* A step that hears nothing, or something damaged.                        *)
LEMMA ServerDisappointedIs ==
  ASSUME ServerTimesOut \/ IgnoreOnAck(Damaged)
  PROVE  /\ swin' = swin /\ eofwait' = eofwait
         /\ \/ sstate = "S_WAIT_ON_RESPONSE" /\ sstate' = "S_TIMEOUT_ON_RESPONSE"
            \/ sstate = "S_WAIT_ON_ACK" /\ sstate' \in {"S_WAIT_ON_ACK", "S_TIMEOUT_ON_ACK"}
BY DEF ServerTimesOut, NoResponse, NoAck, IgnoreOnAck, svars

(* The server's part in a step.                                            *)
LEMMA ServerPart ==
  ASSUME [Next]_vars
  PROVE  \/ UNCHANGED svars
         \/ ServerThinks /\ UNCHANGED <<rvars, net>>
         \/ ServerSends /\ net' = net \cup Outgoing /\ UNCHANGED rvars
         \/ /\ \E p \in net : ToServer(p) /\ ServerHears(p)
            /\ UNCHANGED <<rvars, net>>
         \/ (ServerTimesOut \/ IgnoreOnAck(Damaged)) /\ UNCHANGED <<rvars, net>>
BY DEF Next, Terminated, vars, svars, ServerComputes, ServerTransmits, ServerReceives,
       ServerIsDisappointed, RcopyComputes, RcopyTransmits, RcopyReceives, RcopyIsDisappointed

(* rcopy's part in a step.                                                 *)
LEMMA RcopyPart ==
  ASSUME [Next]_vars
  PROVE  \/ UNCHANGED rvars
         \/ RcopyThinks /\ UNCHANGED <<svars, net>>
         \/ RcopySends /\ net' = net \cup {Reply} /\ UNCHANGED svars
         \/ /\ \E p \in net : ToRcopy(p) /\ RcopyHears(p)
            /\ UNCHANGED <<svars, net>>
         \/ (NoData \/ RecvCorrupt) /\ UNCHANGED <<svars, net>>
BY DEF Next, Terminated, vars, rvars, ServerComputes, ServerTransmits, ServerReceives,
       ServerIsDisappointed, RcopyComputes, RcopyTransmits, RcopyReceives, RcopyIsDisappointed

(* What a step adds to the network.                                        *)
LEMMA NetChanges ==
  ASSUME [Next]_vars
  PROVE  \/ net' = net
         \/ ServerSends /\ net' = net \cup Outgoing /\ UNCHANGED rvars
         \/ RcopySends /\ net' = net \cup {Reply} /\ UNCHANGED svars
BY DEF Next, Terminated, vars, ServerComputes, ServerTransmits, ServerReceives,
       ServerIsDisappointed, RcopyComputes, RcopyTransmits, RcopyReceives, RcopyIsDisappointed

(* The server sends data, or the end of the file.                          *)
LEMMA OutgoingIs ==
  ASSUME IInv, ServerSends, NEW p \in Outgoing
  PROVE  p.flag = IF sstate = "S_SEND_WINDOW" THEN "DATA" ELSE "FILE_EOF"
<1>1. CASE sstate = "S_SEND_WINDOW"
  <2>1. PICK seq \in Fulls : p = SFrame(seq).pkt
    BY <1>1 DEF Outgoing, SFrame
  <2>2. seq \in WindowSeqs(swin) /\ SFrame(seq).state = "FRAME_FULL"
    BY DEF Fulls, SeqsIn, SFrame
  <2>3. p = Packet("DATA", seq, seq)
    BY <2>1, <2>2 DEF IInv, SenderShape
  <2> QED BY <1>1, <2>3 DEF Packet
<1>2. CASE sstate # "S_SEND_WINDOW"
  BY <1>2 DEF Outgoing, Packet
<1> QED BY <1>1, <1>2

-----------------------------------------------------------------------------
(* The numbers of the answers and the order of the last two packets.       *)

(* What the server believes acknowledged changes with an RR alone.         *)
LEMMA RrChanges ==
  ASSUME IInv, [Next]_vars, swin'.rr # swin.rr
  PROVE  \E p \in net : p.flag = "RR" /\ swin'.rr = p.seq /\ p.seq > swin.rr
<1>1. CASE UNCHANGED svars
  BY <1>1 DEF svars
<1>2. CASE ServerThinks
  BY <1>2, ServerThinksIs
<1>3. CASE ServerSends
  BY <1>3, ServerSendsIs
<1>4. CASE \E p \in net : ToServer(p) /\ ServerHears(p)
  <2>1. PICK p \in net : ToServer(p) /\ ServerHears(p)
    BY <1>4
  <2>2. p.flag # "CORRUPT"
    BY <2>1 DEF ToServer
  <2>3. \/ swin' = swin
        \/ swin'.rr = IF p.flag = "RR" /\ p.seq > swin.rr THEN p.seq ELSE swin.rr
    BY <2>1, <2>2, ServerHearsIs
  <2> QED BY <2>3
<1>5. CASE ServerTimesOut \/ IgnoreOnAck(Damaged)
  BY <1>5, ServerDisappointedIs
<1> QED BY <1>1, <1>2, <1>3, <1>4, <1>5, ServerPart

(* The server comes to FILE_EOF from the loop, when all has been answered, *)
(* and then leaves.                                                        *)
LEMMA EofChanges ==
  ASSUME IInv, [Next]_vars
  PROVE  LET X == {"S_SEND", "S_WAIT_ON_ACK", "S_TIMEOUT_ON_ACK", "S_FINISH"}
         IN  /\ sstate \in X => sstate' \in X
             /\ sstate' \in EofStates /\ sstate \notin EofStates =>
                  swin.rr > swin.top_sent /\ swin'.rr = swin.rr
<1>1. CASE UNCHANGED svars
  BY <1>1 DEF svars
<1>2. CASE ServerThinks
  BY <1>2, ServerThinksIs DEF EofStates
<1>3. CASE ServerSends
  BY <1>3, ServerSendsIs DEF EofStates
<1>4. CASE \E p \in net : ToServer(p) /\ ServerHears(p)
  <2>1. PICK p \in net : ToServer(p) /\ ServerHears(p)
    BY <1>4
  <2>2. p.flag # "CORRUPT"
    BY <2>1 DEF ToServer
  <2> QED BY <2>1, <2>2, ServerHearsIs DEF EofStates
<1>5. CASE ServerTimesOut \/ IgnoreOnAck(Damaged)
  BY <1>5, ServerDisappointedIs DEF EofStates
<1> QED BY <1>1, <1>2, <1>3, <1>4, <1>5, ServerPart

(* An RR follows a block.                                                  *)
LEMMA SendRRIsNew ==
  ASSUME IInv, AnswerNumbers, [Next]_vars, rstate' = "S_SEND_RR"
  PROVE  rwin'.rr >= 2
<1>1. rwin.rr \in Nat /\ rwin.bottom \in Nat /\ rwin.bottom >= 1 /\ rwin.bottom =< rwin.rr
      /\ rwin \in WindowType(Blocks)
  BY ReceiverFields
<1>2. CASE UNCHANGED rvars
  BY <1>2 DEF rvars, AnswerNumbers
<1>3. CASE \E p \in net : ToRcopy(p) /\ RcopyHears(p)
  <2>1. PICK p \in net : RcopyHears(p)
    BY <1>3
  <2>2. CASE RecvNext(p)
    <3>1. rwin' = [FillFrame(rwin, p) EXCEPT !.rr = @ + 1]
      BY <2>2 DEF RecvNext
    <3>2. FillFrame(rwin, p) \in WindowType(Blocks) /\ FillFrame(rwin, p).rr = rwin.rr
      BY <2>2, FillFrameIs DEF RecvNext, HearsData
    <3>3. rwin'.rr = rwin.rr + 1
      BY <3>1, <3>2 DEF WindowType
    <3> QED BY <1>1, <3>3
  <2>3. CASE RecvOld(p)
    <3>1. p.flag = "DATA" /\ p.seq < rwin.rr /\ rwin' = rwin
      BY <2>3 DEF RecvOld
    <3>2. 1 =< p.seq /\ p.seq \in Nat
      BY <3>1 DEF IInv, NetShape, TypeOK, PacketType
    <3> QED BY <1>1, <3>1, <3>2
  <2>4. CASE RecvEof(p) \/ RecvAhead(p) \/ IgnoreOnData(p)
    BY <2>4 DEF RecvEof, RecvAhead, IgnoreOnData, HearsData
  <2> QED BY <2>1, <2>2, <2>3, <2>4 DEF RcopyHears
<1>4. CASE RcopyThinks \/ RcopySends \/ NoData \/ RecvCorrupt
  BY <1>4 DEF RcopyThinks, RcopySends, NoData, RecvCorrupt, WriteData, AdjustWindow,
              TimeoutOnData, SendRR, SendSREJ, SendEofAck
<1> QED BY <1>2, <1>3, <1>4, RcopyPart

LEMMA AnswerNumbersStep ==
  ASSUME IInv, AnswerNumbers, [Next]_vars
  PROVE  AnswerNumbers'
<1>1. /\ \A p \in net' : p.flag = "RR" => p.seq >= 2
      /\ \A p \in net' : p.flag \in {"FILE_NAME", "FILE_BEGIN"} => p.seq = 0
  <2>1. CASE net' = net
    BY <2>1 DEF AnswerNumbers
  <2>2. CASE ServerSends /\ net' = net \cup Outgoing
    BY <2>2, OutgoingIs DEF AnswerNumbers
  <2>3. CASE RcopySends /\ net' = net \cup {Reply}
    <3>1. /\ Reply.flag = "RR" => rstate = "S_SEND_RR" /\ Reply.seq = rwin.rr
          /\ Reply.flag \notin {"FILE_NAME", "FILE_BEGIN"}
      BY <2>3, ReplyIs
    <3> QED BY <2>3, <3>1 DEF AnswerNumbers
  <2> QED BY <2>1, <2>2, <2>3, NetChanges
<1>2. rstate' = "S_SEND_RR" => rwin'.rr >= 2
  BY SendRRIsNew
<1>3. swin'.rr = 0 \/ swin'.rr >= 2
  BY RrChanges DEF AnswerNumbers
<1>4. sstate' \in EofStates => swin'.rr >= 2
  <2> SUFFICES ASSUME sstate' \in EofStates PROVE swin'.rr >= 2
    OBVIOUS
  <2>1. CASE sstate \in EofStates
    <3>1. swin.rr >= 2 /\ swin.rr \in Nat
      BY <2>1, SenderFields DEF AnswerNumbers
    <3> QED BY <1>3, <3>1, RrChanges DEF AnswerNumbers
  <2>2. CASE sstate \notin EofStates
    <3>1. swin.rr > swin.top_sent /\ swin'.rr = swin.rr
      BY <2>2, EofChanges
    <3> QED BY <1>3, <3>1, SenderFields
  <2> QED BY <2>1, <2>2
<1> QED BY <1>1, <1>2, <1>3, <1>4 DEF AnswerNumbers

(* rcopy learns of the end of the file once.                               *)
LEMMA RseqChanges ==
  ASSUME IInv, [Next]_vars
  PROVE  /\ rseq # 0 => rseq' = rseq
         /\ rseq' # rseq => \E p \in net : p.flag = "FILE_EOF" /\ UNCHANGED <<svars, net>>
<1>1. CASE UNCHANGED rvars
  BY <1>1 DEF rvars
<1>2. CASE \E p \in net : ToRcopy(p) /\ RcopyHears(p)
  <2>1. PICK p \in net : RcopyHears(p)
    BY <1>2
  <2>2. CASE RecvEof(p)
    <3>1. rseq = 0 /\ rstate = "S_WAIT_ON_DATA" /\ rstate' = "S_FILE_EOF"
      BY <2>2 DEF RecvEof, HearsData, IInv, EndOfFile
    <3>2. UNCHANGED <<svars, net>>
      BY <3>1, RcopyPart
         DEF rvars, RcopyThinks, RcopySends, NoData, RecvCorrupt, WriteData, AdjustWindow,
             TimeoutOnData, SendRR, SendSREJ, SendEofAck
    <3> QED BY <2>2, <3>1, <3>2 DEF RecvEof
  <2>3. CASE RecvNext(p) \/ RecvOld(p) \/ RecvAhead(p) \/ IgnoreOnData(p)
    BY <2>3 DEF RecvNext, RecvOld, RecvAhead, IgnoreOnData
  <2> QED BY <2>1, <2>2, <2>3 DEF RcopyHears
<1>3. CASE RcopyThinks \/ RcopySends \/ NoData \/ RecvCorrupt
  BY <1>3 DEF RcopyThinks, RcopySends, NoData, RecvCorrupt, WriteData, AdjustWindow,
              TimeoutOnData, SendRR, SendSREJ, SendEofAck
<1> QED BY <1>1, <1>2, <1>3, RcopyPart

LEMMA EofOrderStep ==
  ASSUME IInv, EofOrder, [Next]_vars
  PROVE  EofOrder'
<1> DEFINE X == {"S_SEND", "S_WAIT_ON_ACK", "S_TIMEOUT_ON_ACK", "S_FINISH"}
<1>1. X = (EofStates \cup {"S_FINISH"}) \ {"S_FILE_EOF"}
  BY DEF EofStates
<1>2. sstate \in X => sstate' \in X
  BY EofChanges
<1>3. \A p \in net' : p.flag = "FILE_EOF_ACK" => rseq' # 0
  <2>1. CASE net' = net
    BY <2>1, RseqChanges DEF EofOrder
  <2>2. CASE ServerSends /\ net' = net \cup Outgoing
    BY <2>2, OutgoingIs, RseqChanges DEF EofOrder
  <2>3. CASE RcopySends /\ net' = net \cup {Reply}
    <3>1. Reply.flag = "FILE_EOF_ACK" => rstate = "S_FILE_EOF"
      BY <2>3, ReplyIs DEF RcopySends, SendRR, SendSREJ, SendEofAck
    <3>2. rstate = "S_FILE_EOF" => rseq # 0
      BY DEF IInv, EndOfFile
    <3> QED BY <2>3, <3>1, <3>2, RseqChanges DEF EofOrder
  <2> QED BY <2>1, <2>2, <2>3, NetChanges
<1>4. \A p \in net' : p.flag = "FILE_EOF" => sstate' \in X
  <2>1. CASE net' = net
    BY <1>1, <1>2, <2>1 DEF EofOrder
  <2>2. CASE ServerSends /\ net' = net \cup Outgoing
    <3>1. sstate # "S_SEND_WINDOW" => sstate' = "S_WAIT_ON_ACK"
      BY <2>2, ServerSendsIs
    <3> QED BY <1>1, <1>2, <2>2, <3>1, OutgoingIs DEF EofOrder
  <2>3. CASE RcopySends /\ net' = net \cup {Reply}
    <3>1. Reply.flag # "FILE_EOF"
      BY <2>3, ReplyIs
    <3> QED BY <1>1, <1>2, <2>3, <3>1 DEF EofOrder
  <2> QED BY <2>1, <2>2, <2>3, NetChanges
<1>5. rseq' # 0 => sstate' \in X
  <2>1. CASE rseq' = rseq
    BY <1>1, <1>2, <2>1 DEF EofOrder
  <2>2. CASE rseq' # rseq
    <3>1. \E p \in net : p.flag = "FILE_EOF"
      BY <2>2, RseqChanges
    <3> QED BY <1>1, <1>2, <3>1 DEF EofOrder
  <2> QED BY <2>1, <2>2
<1> HIDE DEF X
<1> QED BY <1>1, <1>3, <1>4, <1>5 DEF EofOrder

-----------------------------------------------------------------------------
(* Order.                                                                  *)

(* The server takes the first datagram of its queue, and it alone can      *)
(* change rr.                                                              *)
LEMMA TimedRrChanges ==
  ASSUME IInv, QueueShape, [TimedNext]_timedVars, swin'.rr # swin.rr
  PROVE  /\ toServer # <<>> /\ toServer' = Tail(toServer)
         /\ Head(toServer) # Damaged /\ Head(toServer).flag = "RR"
         /\ swin'.rr = Head(toServer).seq
<1>1. CASE ServerReading
  <2>1. CASE Head(toServer) = Damaged
    <3>1. swin' = swin
      BY <1>1, <2>1 DEF ServerReading, ServerHearsDamaged, NoResponse, IgnoreOnAck, svars
    <3> QED BY <3>1
  <2>2. CASE Head(toServer) # Damaged
    <3>1. Head(toServer) \in net /\ ToServer(Head(toServer))
      BY <1>1, <2>2, QueueTail DEF ServerReading, QueueShape
    <3>2. ServerHears(Head(toServer)) /\ Head(toServer).flag # "CORRUPT"
      BY <1>1, <2>2, <3>1 DEF ServerReading, ToServer
    <3>3. \/ swin' = swin
          \/ swin'.rr = IF Head(toServer).flag = "RR" /\ Head(toServer).seq > swin.rr
                        THEN Head(toServer).seq ELSE swin.rr
      BY <3>2, ServerHearsIs
    <3> QED BY <1>1, <2>2, <3>3 DEF ServerReading
  <2> QED BY <2>1, <2>2
<1>2. CASE ServerThinking
  BY <1>2, ServerThinksIs DEF ServerThinking, ServerComputes
<1>3. CASE ServerSending
  BY <1>3, ServerSendsIs DEF ServerSending, ServerTransmits
<1>4. CASE ServerTimeout
  BY <1>4, ServerDisappointedIs DEF ServerTimeout
<1>5. CASE RcopyThinking \/ RcopySending \/ RcopyReading \/ RcopyTimeout \/ Tick \/ Fault
           \/ TimedTerminated \/ UNCHANGED timedVars
  BY <1>5 DEF RcopyThinking, RcopySending, RcopyReading, RcopyTimeout, Tick, Fault,
              TimedTerminated, timedVars, vars, svars, RcopyComputes, RcopyTransmits
<1> QED BY <1>1, <1>2, <1>3, <1>4, <1>5 DEF TimedNext, ServerStep, RcopyStep

LEMMA AnswersInOrderStep ==
  ASSUME IInv, QueueShape, AnswersInOrder, [TimedNext]_timedVars
  PROVE  AnswersInOrder'
<1> DEFINE InOrder(q) == \A i, j \in 1 .. Len(q) :
                           i < j /\ IsAnswer(q[i]) /\ IsAnswer(q[j]) => q[i].seq =< q[j].seq
           Above(q, n) == \A i \in 1 .. Len(q) : IsAnswer(q[i]) => n =< q[i].seq
<1>1. InOrder(toServer) /\ Above(toServer, swin.rr) /\ toServer \in Seq(Datagrams)
  BY DEF AnswersInOrder, QueueShape
<1>2. ~IsAnswer(Damaged) /\ swin.rr \in Nat
  BY DamagedIs, SenderFields DEF IsAnswer
<1>3. CASE toServer' = toServer
  <2>1. swin'.rr = swin.rr
    <3>1. toServer # <<>> => Len(Tail(toServer)) = Len(toServer) - 1 /\ Len(toServer) \in Nat
      BY <1>1, QueueTail
    <3>2. toServer # <<>> => Tail(toServer) # toServer
      BY <3>1
    <3> QED BY <1>3, <3>2, TimedRrChanges
  <2> QED BY <1>1, <1>3, <2>1 DEF AnswersInOrder
<1>4. CASE toServer # <<>> /\ toServer' \in {Tail(toServer), <<Damaged>> \o Tail(toServer)}
  <2>1. PICK c \in {0, 1} : \A i \in 1 .. Len(toServer') :
          toServer'[i] # Damaged => i + c \in 1 .. Len(toServer) /\ toServer'[i] = toServer[i + c]
    BY <1>1, <1>4, QueueShrinks
  <2>2. InOrder(toServer')
    <3> SUFFICES ASSUME NEW i \in 1 .. Len(toServer'), NEW j \in 1 .. Len(toServer'), i < j,
                        IsAnswer(toServer'[i]), IsAnswer(toServer'[j])
                 PROVE  toServer'[i].seq =< toServer'[j].seq
      OBVIOUS
    <3>1. /\ i + c \in 1 .. Len(toServer) /\ toServer'[i] = toServer[i + c]
          /\ j + c \in 1 .. Len(toServer) /\ toServer'[j] = toServer[j + c]
      BY <1>2, <2>1
    <3>2. i + c < j + c
      BY DEF Datagrams
    <3> QED BY <1>1, <3>1, <3>2
  <2>3. Above(toServer', swin'.rr)
    <3> SUFFICES ASSUME NEW i \in 1 .. Len(toServer'), IsAnswer(toServer'[i])
                 PROVE  swin'.rr =< toServer'[i].seq
      OBVIOUS
    <3>1. i + c \in 1 .. Len(toServer) /\ toServer'[i] = toServer[i + c]
      BY <1>2, <2>1
    <3>2. CASE swin'.rr = swin.rr
      BY <1>1, <3>1, <3>2
    <3>3. CASE swin'.rr # swin.rr
      <4>1. /\ toServer' = Tail(toServer) /\ Head(toServer).flag = "RR"
            /\ swin'.rr = Head(toServer).seq
        BY <3>3, TimedRrChanges
      <4>2. /\ Head(toServer) = toServer[1] /\ 1 \in 1 .. Len(toServer)
            /\ toServer'[i] = toServer[i + 1] /\ i + 1 \in 1 .. Len(toServer) /\ 1 < i + 1
        BY <1>1, <1>4, <4>1, QueueTail
      <4>3. IsAnswer(toServer[1]) /\ IsAnswer(toServer[i + 1])
        BY <4>1, <4>2 DEF IsAnswer
      <4>4. toServer[1].seq =< toServer[i + 1].seq
        BY <1>1, <4>2, <4>3
      <4> QED BY <4>1, <4>2, <4>4
    <3> QED BY <3>2, <3>3
  <2> QED BY <2>2, <2>3 DEF AnswersInOrder
<1>5. CASE RcopySending /\ toServer' = Append(toServer, Reply)
  <2>1. Reply \in Datagrams /\ (IsAnswer(Reply) => Reply.seq = rwin.rr)
    <3>1. IInv /\ RcopySends
      BY <1>5 DEF RcopySending, RcopyTransmits
    <3>2. Reply \in PacketType
      BY <3>1, ReplyIs
    <3>3. rstate \in {"S_SEND_RR", "S_SEND_SREJ", "S_FILE_EOF"}
      BY <3>1 DEF RcopySends, SendRR, SendSREJ, SendEofAck
    <3>4. IsAnswer(Reply) => rstate \in {"S_SEND_RR", "S_SEND_SREJ"}
      BY <3>1, <3>3, ReplyIs DEF IsAnswer
    <3> QED BY <3>1, <3>2, <3>4, ReplyIs DEF Datagrams
  <2>2. /\ Len(toServer) \in Nat /\ Len(toServer') = Len(toServer) + 1
        /\ \A i \in 1 .. Len(toServer) : toServer'[i] = toServer[i]
        /\ toServer'[Len(toServer) + 1] = Reply
    BY <1>1, <1>5, <2>1, QueueAppend
  <2>3. \A i \in 1 .. Len(toServer) : IsAnswer(toServer[i]) => toServer[i].seq =< rwin.rr
    <3> SUFFICES ASSUME NEW i \in 1 .. Len(toServer), IsAnswer(toServer[i])
                 PROVE  toServer[i].seq =< rwin.rr
      OBVIOUS
    <3>1. toServer[i] \in net
      BY <1>2 DEF QueueShape
    <3> QED BY <3>1 DEF IsAnswer, IInv, NetShape
  <2>4. swin'.rr = swin.rr /\ swin.rr =< rwin.rr
    BY <1>5 DEF RcopySending, RcopyTransmits, svars, IInv, Knowledge
  <2>5. InOrder(toServer')
    <3> SUFFICES ASSUME NEW i \in 1 .. Len(toServer'), NEW j \in 1 .. Len(toServer'), i < j,
                        IsAnswer(toServer'[i]), IsAnswer(toServer'[j])
                 PROVE  toServer'[i].seq =< toServer'[j].seq
      OBVIOUS
    <3>1. i \in 1 .. Len(toServer) /\ toServer'[i] = toServer[i]
      BY <2>2
    <3>2. CASE j \in 1 .. Len(toServer)
      BY <1>1, <2>2, <3>1, <3>2
    <3>3. CASE j = Len(toServer) + 1
      BY <2>1, <2>2, <2>3, <3>1, <3>3
    <3> QED BY <2>2, <3>2, <3>3
  <2>6. Above(toServer', swin'.rr)
    <3> SUFFICES ASSUME NEW i \in 1 .. Len(toServer'), IsAnswer(toServer'[i])
                 PROVE  swin'.rr =< toServer'[i].seq
      OBVIOUS
    <3>1. CASE i \in 1 .. Len(toServer)
      BY <1>1, <2>2, <2>4, <3>1
    <3>2. CASE i = Len(toServer) + 1
      BY <2>1, <2>2, <2>4, <3>2
    <3> QED BY <2>2, <3>1, <3>2
  <2> QED BY <2>5, <2>6 DEF AnswersInOrder
<1> HIDE DEF InOrder, Above
<1> QED BY <1>3, <1>4, <1>5, ToServerChanges

-----------------------------------------------------------------------------
(* Time.                                                                   *)

(* A server that has left takes no step, and one in select has not left.   *)
LEMMA ServerLeftIs ==
  /\ ServerLeft => ~ServerSelects
  /\ ServerSelects => ServerPatience \in {1, 2}
  /\ ServerPatience \in {1, 2}
  /\ sstate = "S_WAIT_ON_RESPONSE" => ServerPatience = 2
  /\ sstate = "S_WAIT_ON_ACK" => ServerPatience = 1
BY DEF ServerLeft, ServerSelects, ServerPatience, ServerWindowWait, MAX_TRY_WAIT_TIME_S

LEMMA ClocksStep ==
  ASSUME IInv, Clocks, [TimedNext]_timedVars
  PROVE  Clocks'
<1> DEFINE S == /\ selectS \in Nat
                /\ selectS =< IF ServerSelects THEN ServerPatience ELSE 0
           C == /\ selectC \in Nat
                /\ ~RcopyLeft => selectC =< IF RcopySelects THEN RcopyWindowWait ELSE 0
<1>1. S /\ C
  BY DEF Clocks
<1>2. ASSUME selectS' = 0 PROVE S'
  BY <1>2 DEF ServerSelects, ServerPatience, ServerWindowWait, MAX_TRY_WAIT_TIME_S
<1>3. ASSUME selectC' = 0 PROVE C'
  BY <1>3 DEF RcopyLeft, RcopySelects, RcopyWindowWait
<1>4. ASSUME UNCHANGED svars, selectS' = selectS PROVE S'
  BY <1>1, <1>4 DEF svars, ServerSelects, ServerPatience, ServerWindowWait, MAX_TRY_WAIT_TIME_S
<1>5. ASSUME UNCHANGED rvars, selectC' = selectC PROVE C'
  BY <1>1, <1>5 DEF rvars, RcopyLeft, RcopySelects, RcopyWindowWait
<1>6. CASE ServerThinking \/ ServerSending \/ ServerReading \/ ServerTimeout
  <2>1. selectS' = 0 /\ selectC' = selectC /\ UNCHANGED rvars
    BY <1>6 DEF ServerThinking, ServerSending, ServerReading, ServerTimeout, ServerComputes,
                ServerTransmits
  <2> QED BY <1>2, <1>5, <2>1 DEF Clocks
<1>7. CASE RcopyThinking \/ RcopySending \/ RcopyReading \/ RcopyTimeout
  <2>1. selectC' = 0 /\ selectS' = selectS /\ UNCHANGED svars
    BY <1>7 DEF RcopyThinking, RcopySending, RcopyReading, RcopyTimeout, RcopyComputes,
                RcopyTransmits
  <2> QED BY <1>3, <1>4, <2>1 DEF Clocks
<1>8. CASE Tick
  <2>1. sstate' = sstate /\ rstate' = rstate
    BY <1>8 DEF Tick, vars
  <2>2. S'
    <3>1. CASE ServerLeft
      BY <1>2, <1>8, <3>1 DEF Tick
    <3>2. CASE ~ServerLeft
      <4>1. selectS' = selectS + 1 /\ ServerSelects /\ selectS < ServerPatience
        BY <1>8, <3>2 DEF Tick, ServerIdle
      <4>2. (ServerSelects <=> ServerSelects') /\ ServerPatience' = ServerPatience
        BY <2>1 DEF ServerSelects, ServerPatience, ServerWindowWait, MAX_TRY_WAIT_TIME_S
      <4> QED BY <1>1, <4>1, <4>2, ServerLeftIs
    <3> QED BY <3>1, <3>2
  <2>3. C'
    <3>1. selectC' = selectC + 1
      BY <1>8 DEF Tick
    <3>2. ~RcopyLeft => RcopySelects /\ selectC < RcopyWindowWait
      BY <1>8 DEF Tick, RcopyIdle
    <3> QED BY <1>1, <2>1, <3>1, <3>2 DEF RcopyLeft, RcopySelects, RcopyWindowWait
  <2> QED BY <2>2, <2>3 DEF Clocks
<1>9. CASE Fault \/ TimedTerminated \/ UNCHANGED timedVars
  <2>1. UNCHANGED <<svars, rvars, selectS, selectC>>
    BY <1>9 DEF Fault, TimedTerminated, timedVars, vars, svars, rvars
  <2> QED BY <1>4, <1>5, <2>1 DEF Clocks
<1> QED BY <1>6, <1>7, <1>8, <1>9 DEF TimedNext, ServerStep, RcopyStep

(* rcopy's silence grows with time alone, and ends when it sends.          *)
LEMMA SilenceChanges ==
  ASSUME IInv, Clocks, [TimedNext]_timedVars
  PROVE  /\ Silence \in Nat /\ Silence' \in Nat
         /\ ~Tick => Silence' =< Silence
         /\ Tick => Silence' = Silence + 1
         /\ RcopySending => Silence' = 0
<1>1. selectC \in Nat /\ selectC' \in Nat
  BY ClocksStep DEF Clocks
<1>2. Silence \in Nat /\ Silence' \in Nat
  <2>1. Silence \in Nat
    BY <1>1 DEF Silence, RcopyWindowWait
  <2>2. \A n \in Nat : n + 0 \in Nat /\ n + 10 \in Nat
    OBVIOUS
  <2>3. Silence' = selectC' + 10 \/ Silence' = selectC' + 0
    BY DEF Silence, RcopyWindowWait
  <2>4. Silence' \in Nat
    BY <1>1, <2>2, <2>3, Zenon
  <2> QED BY <2>1, <2>4
<1>3. CASE ServerThinking \/ ServerSending \/ ServerReading \/ ServerTimeout \/ Fault
           \/ TimedTerminated \/ UNCHANGED timedVars
  <2>1. UNCHANGED <<rvars, selectC>>
    BY <1>3 DEF ServerThinking, ServerSending, ServerReading, ServerTimeout, ServerComputes,
                ServerTransmits, Fault, TimedTerminated, timedVars, vars, rvars
  <2>2. Silence' = Silence
    BY <2>1 DEF Silence, RcopyWindowWait, rvars
  <2>3. ~Tick /\ ~RcopySending
    <3>1. ~RcopySending
      BY <2>1 DEF RcopySending, RcopyTransmits, RcopySends, SendRR, SendSREJ, SendEofAck, rvars
    <3>2. ~Tick
      BY <1>1, <2>1 DEF Tick
    <3> QED BY <3>1, <3>2
  <2> QED BY <1>2, <2>2, <2>3
<1>4. CASE RcopySending
  <2>1. selectC' = 0 /\ rseq' = rseq
        /\ (rseq = 0 => rstate' \notin {"S_TIMEOUT_ON_DATA", "S_FINISH"})
    BY <1>4 DEF RcopySending, RcopyTransmits, RcopySends, SendRR, SendSREJ, SendEofAck, IInv,
                EndOfFile
  <2>2. Silence' = 0
    BY <2>1 DEF Silence
  <2>3. ~Tick
    BY <1>1, <2>1 DEF Tick
  <2> QED BY <1>2, <2>2, <2>3
<1>5. CASE RcopyThinking
  <2>1. selectC' = 0 /\ rseq' = rseq
        /\ (rstate' \in {"S_TIMEOUT_ON_DATA", "S_FINISH"} => rstate = "S_TIMEOUT_ON_DATA")
    BY <1>5 DEF RcopyThinking, RcopyComputes, RcopyThinks, WriteData, AdjustWindow, TimeoutOnData
  <2>2. Silence' =< Silence
    BY <1>1, <2>1 DEF Silence, RcopyWindowWait
  <2>3. ~Tick /\ ~RcopySending
    BY <1>1, <1>5, <2>1 DEF Tick, RcopyThinking, RcopySending, RcopyComputes, RcopyTransmits,
       RcopyThinks, RcopySends, WriteData, AdjustWindow, TimeoutOnData, SendRR, SendSREJ, SendEofAck
  <2> QED BY <1>2, <2>2, <2>3
<1>6. CASE RcopyReading
  <2>1. selectC' = 0 /\ rstate = "S_WAIT_ON_DATA"
        /\ rstate' \notin {"S_TIMEOUT_ON_DATA", "S_FINISH"}
    BY <1>6 DEF RcopyReading, RecvCorrupt, RcopyHears, RecvEof, RecvOld, RecvNext, RecvAhead,
                IgnoreOnData, HearsData
  <2>2. Silence' = 0
    BY <2>1 DEF Silence
  <2>3. ~Tick /\ ~RcopySending
    BY <1>1, <2>1 DEF Tick, RcopySending, RcopyTransmits, RcopySends, SendRR, SendSREJ, SendEofAck
  <2> QED BY <1>2, <2>2, <2>3
<1>7. CASE RcopyTimeout
  <2>1. /\ selectC' = 0 /\ selectC = RcopyWindowWait /\ rstate = "S_WAIT_ON_DATA"
        /\ rseq' = rseq /\ rseq = 0
    BY <1>7 DEF RcopyTimeout, NoData, IInv, EndOfFile
  <2>2. Silence' =< Silence
    BY <2>1 DEF Silence, RcopyWindowWait
  <2>3. ~Tick /\ ~RcopySending
    BY <1>1, <2>1 DEF Tick, RcopySending, RcopyTransmits, RcopySends, SendRR, SendSREJ, SendEofAck
  <2> QED BY <1>2, <2>2, <2>3
<1>8. CASE Tick
  <2>1. selectC' = selectC + 1 /\ rseq' = rseq /\ rstate' = rstate
    BY <1>8 DEF Tick, vars
  <2>2. Silence' = Silence + 1
    BY <1>1, <2>1 DEF Silence, RcopyWindowWait
  <2>3. ~RcopySending
    BY <2>1 DEF RcopySending, RcopyTransmits, RcopySends, SendRR, SendSREJ, SendEofAck
  <2> QED BY <1>2, <1>8, <2>2, <2>3
<1> QED BY <1>3, <1>4, <1>5, <1>6, <1>7, <1>8 DEF TimedNext, ServerStep, RcopyStep

(* What the tries stand for is never negative.                             *)
LEMMA WaitsAre ==
  ASSUME IInv, Clocks
  PROVE  /\ selectS \in Nat
         /\ WindowWaits(swin.num_wait) \in Nat /\ WindowWaits(0) \in Nat /\ EofWaits \in Nat
BY SenderFields DEF Clocks, WindowWaits, EofWaits, ServerWindowWait

(* A server that reads had something to read: rcopy was not silent.        *)
LEMMA ServerReadingIs ==
  ASSUME IInv, QueueShape, Silences, ServerReading
  PROVE  /\ ~ServerLeft /\ Silence = 0
         /\ eofwait' = eofwait
         /\ \/ /\ sstate = "S_WAIT_ON_RESPONSE"
               /\ sstate' \in {"S_ADJUST_WINDOW", "S_FILE_NAME", "S_FINISH"}
               /\ swin'.num_wait = 0
            \/ /\ sstate = "S_WAIT_ON_RESPONSE" /\ sstate' = "S_TIMEOUT_ON_RESPONSE"
               /\ swin' = swin
            \/ /\ sstate = "S_WAIT_ON_ACK" /\ sstate' \in {"S_FINISH", "S_WAIT_ON_ACK"}
               /\ swin' = swin
<1>1. /\ eofwait' = eofwait
      /\ \/ /\ sstate = "S_WAIT_ON_RESPONSE"
            /\ sstate' \in {"S_ADJUST_WINDOW", "S_FILE_NAME", "S_FINISH"}
            /\ swin'.num_wait = 0
         \/ /\ sstate = "S_WAIT_ON_RESPONSE" /\ sstate' = "S_TIMEOUT_ON_RESPONSE"
            /\ swin' = swin
         \/ /\ sstate = "S_WAIT_ON_ACK" /\ sstate' \in {"S_FINISH", "S_WAIT_ON_ACK"}
            /\ swin' = swin
  <2>1. CASE Head(toServer) = Damaged
    BY <2>1 DEF ServerReading, ServerHearsDamaged, NoResponse, IgnoreOnAck, svars
  <2>2. CASE Head(toServer) # Damaged
    <3>1. ToServer(Head(toServer))
      BY <2>2, QueueTail DEF ServerReading, QueueShape
    <3>2. ServerHears(Head(toServer)) /\ Head(toServer).flag # "CORRUPT"
      BY <2>2, <3>1 DEF ServerReading, ToServer
    <3> QED BY <3>2, ServerHearsIs
  <2> QED BY <2>1, <2>2
<1>2. ~ServerLeft
  BY <1>1 DEF ServerLeft
<1> QED BY <1>1, <1>2 DEF ServerReading, Silences

(* A step of the server leaves rcopy as silent as it is, and lets the      *)
(* tries stand for no less than that.                                      *)
LEMMA ServerSilences ==
  ASSUME IInv, QueueShape, Clocks, Silences, ServerStep,
         Silence \in Nat, Silence' \in Nat, Silence' =< Silence
  PROVE  Silences'
<1>1. /\ swin.num_wait \in Nat /\ eofwait \in Nat /\ MAX_TRIES \in Nat
      /\ selectS \in Nat /\ selectS' = 0
  BY SenderFields, Parameters
     DEF Clocks, ServerStep, ServerThinking, ServerSending, ServerReading, ServerTimeout
<1>2. /\ sstate \in TransferStates =>
           /\ Silence =< WindowWaits(swin.num_wait)
           /\ swin.num_wait > MAX_TRIES => Silence =< WindowWaits(0)
      /\ sstate \in EofStates => Silence =< EofWaits
      /\ sstate = "S_ADJUST_WINDOW" => swin.num_wait = 0
      /\ toServer # <<>> /\ ~ServerLeft => Silence = 0
  BY DEF Silences
<1>3. ASSUME ~ServerLeft, toServer' = toServer \/ toServer # <<>>
      PROVE  toServer' # <<>> /\ ~ServerLeft' => Silence' = 0
  BY <1>2, <1>3
<1>4. CASE ServerThinking
  <2>1. ServerThinks /\ toServer' = toServer
    BY <1>4 DEF ServerThinking, ServerComputes
  <2>2. ~ServerLeft
    BY <2>1, ServerThinksIs DEF ServerLeft, RetryWindow
  <2>3. CASE RetryWindow
    <3>1. /\ sstate = "S_TIMEOUT_ON_RESPONSE" /\ sstate' = "S_SEND_WINDOW"
          /\ swin'.num_wait = swin.num_wait + 1 /\ swin.num_wait < MAX_TRIES
      BY <2>1, <2>3, ServerThinksIs
    <3>2. Silence =< 2 * (swin.num_wait + 1)
      BY <1>2, <3>1 DEF WindowWaits, TransferStates, ServerWindowWait
    <3>3. WindowWaits(swin.num_wait)' = 2 * (swin.num_wait + 1)
      BY <3>1 DEF WindowWaits, ServerWindowWait
    <3>4. ~(swin'.num_wait > MAX_TRIES)
      BY <1>1, <3>1
    <3>5. Silence' =< WindowWaits(swin.num_wait)'
      BY <1>1, <3>2, <3>3
    <3> QED BY <1>3, <2>1, <2>2, <3>1, <3>4, <3>5 DEF Silences, EofStates
  <2>4. CASE ~RetryWindow
    <3>1. CASE sstate \in {"S_FILL_WINDOW", "S_ADJUST_WINDOW"}
      <4>1. Silence = 0
        BY <1>2, <3>1 DEF WindowWaits, TransferStates
      <4>2. /\ swin'.num_wait = swin.num_wait
            /\ sstate' \in {"S_SEND_WINDOW", "S_FILL_WINDOW", "S_FILE_EOF"}
        BY <2>1, <2>4, <3>1, ServerThinksIs
      <4>3. WindowWaits(swin.num_wait)' >= 0 /\ WindowWaits(0)' >= 0
        BY <1>1, <4>2 DEF WindowWaits, ServerWindowWait
      <4>4. sstate' \in EofStates => EofWaits' = 0
        BY <4>2 DEF EofWaits, EofStates
      <4>5. Silence' = 0
        BY <4>1
      <4> QED BY <1>3, <2>1, <2>2, <4>2, <4>3, <4>4, <4>5 DEF Silences
    <3>2. CASE sstate = "S_FILE_EOF"
      <4>1. Silence = 0
        BY <1>2, <3>2 DEF EofWaits, EofStates
      <4>2. sstate' = "S_SEND" /\ eofwait' = eofwait
        BY <2>1, <2>4, <3>2, ServerThinksIs
      <4>3. EofWaits' = eofwait
        BY <4>2 DEF EofWaits
      <4> QED BY <1>1, <1>3, <2>1, <2>2, <4>1, <4>2, <4>3 DEF Silences, TransferStates
    <3>3. CASE sstate = "S_TIMEOUT_ON_ACK" /\ sstate' = "S_SEND"
      <4>1. Silence =< eofwait + 1
        BY <1>2, <3>3 DEF EofWaits, EofStates
      <4>2. eofwait' = eofwait + 1
        BY <2>1, <2>4, <3>3, ServerThinksIs
      <4>3. EofWaits' = eofwait + 1
        BY <3>3, <4>2 DEF EofWaits
      <4> QED BY <1>1, <1>3, <2>1, <2>2, <3>3, <4>1, <4>3 DEF Silences, TransferStates
    <3>4. CASE sstate' = "S_FINISH"
      BY <1>3, <2>1, <2>2, <3>4 DEF Silences, TransferStates, EofStates
    <3> QED BY <2>1, <2>4, <3>1, <3>2, <3>3, <3>4, ServerThinksIs
  <2> QED BY <2>3, <2>4
<1>5. CASE ServerSending
  <2>1. ServerSends /\ toServer' = toServer
    BY <1>5 DEF ServerSending, ServerTransmits
  <2>2. swin'.num_wait = swin.num_wait /\ eofwait' = eofwait
    BY <2>1, ServerSendsIs
  <2>3. CASE sstate = "S_SEND_WINDOW" /\ sstate' = "S_WAIT_ON_RESPONSE"
    <3>1. /\ WindowWaits(swin.num_wait) = 2 * swin.num_wait /\ WindowWaits(0) = 0
          /\ WindowWaits(swin.num_wait)' = 2 * swin.num_wait + 0 /\ WindowWaits(0)' = 0
      BY <1>1, <2>2, <2>3 DEF WindowWaits, ServerWindowWait
    <3>2. /\ Silence' =< WindowWaits(swin.num_wait)'
          /\ swin'.num_wait > MAX_TRIES => Silence' =< WindowWaits(0)'
      BY <1>1, <1>2, <2>2, <2>3, <3>1 DEF TransferStates
    <3>3. ~ServerLeft
      BY <2>3 DEF ServerLeft
    <3> QED BY <1>3, <2>1, <2>3, <3>2, <3>3 DEF Silences, EofStates
  <2>4. CASE sstate = "S_SEND" /\ sstate' = "S_WAIT_ON_ACK"
    <3>1. EofWaits = eofwait /\ EofWaits' = eofwait + 0
      BY <1>1, <2>2, <2>4 DEF EofWaits
    <3>2. Silence' =< EofWaits'
      BY <1>1, <1>2, <2>4, <3>1 DEF EofStates
    <3>3. ~ServerLeft
      BY <2>4 DEF ServerLeft
    <3> QED BY <1>3, <2>1, <2>4, <3>2, <3>3 DEF Silences, TransferStates
  <2> QED BY <2>1, <2>3, <2>4, ServerSendsIs
<1>6. CASE ServerReading
  <2>1. Silence' = 0 /\ ~ServerLeft
    BY <1>6, ServerReadingIs
  <2>2. sstate' = "S_ADJUST_WINDOW" => swin'.num_wait = 0
    BY <1>6, ServerReadingIs
  <2>3. /\ WindowWaits(swin.num_wait)' >= 0 /\ WindowWaits(0)' >= 0 /\ EofWaits' >= 0
    <3>1. swin'.num_wait \in Nat /\ eofwait' \in Nat
      BY <1>1, <1>6, ServerReadingIs
    <3> QED BY <1>1, <3>1 DEF WindowWaits, EofWaits, ServerWindowWait
  <2> QED BY <2>1, <2>2, <2>3 DEF Silences
<1>7. CASE ServerTimeout
  <2>1. toServer' = toServer /\ toServer = <<>> /\ selectS = ServerPatience /\ ServerTimesOut
    BY <1>7 DEF ServerTimeout
  <2>2. swin' = swin /\ eofwait' = eofwait
    BY <2>1, ServerDisappointedIs
  <2>3. CASE sstate = "S_WAIT_ON_RESPONSE" /\ sstate' = "S_TIMEOUT_ON_RESPONSE"
    <3>1. /\ WindowWaits(swin.num_wait) = 2 * swin.num_wait + 2 /\ WindowWaits(0) = 2
          /\ WindowWaits(swin.num_wait)' = 2 * (swin.num_wait + 1) /\ WindowWaits(0)' = 2
      BY <1>1, <2>1, <2>2, <2>3, ServerLeftIs DEF WindowWaits, ServerWindowWait
    <3>2. /\ Silence' =< WindowWaits(swin.num_wait)'
          /\ swin'.num_wait > MAX_TRIES => Silence' =< WindowWaits(0)'
      BY <1>1, <1>2, <2>2, <2>3, <3>1 DEF TransferStates
    <3> QED BY <2>1, <2>3, <3>2 DEF Silences, EofStates
  <2>4. CASE sstate = "S_WAIT_ON_ACK" /\ sstate' = "S_TIMEOUT_ON_ACK"
    <3>1. EofWaits = eofwait + 1 /\ EofWaits' = eofwait + 1
      BY <1>1, <2>1, <2>2, <2>4, ServerLeftIs DEF EofWaits
    <3>2. Silence' =< EofWaits'
      BY <1>1, <1>2, <2>4, <3>1 DEF EofStates
    <3> QED BY <2>1, <2>4, <3>2 DEF Silences, TransferStates
  <2> QED BY <2>1, <2>3, <2>4 DEF ServerTimesOut, NoResponse, NoAck
<1> QED BY <1>4, <1>5, <1>6, <1>7 DEF ServerStep

LEMMA SilencesStep ==
  ASSUME IInv, QueueShape, Clocks, Silences, [TimedNext]_timedVars
  PROVE  Silences'
<1>1. Silence \in Nat /\ Silence' \in Nat
  BY SilenceChanges
<1>2. /\ WindowWaits(swin.num_wait) \in Nat /\ WindowWaits(0) \in Nat /\ EofWaits \in Nat
      /\ selectS \in Nat
  BY WaitsAre
<1>3. ASSUME UNCHANGED <<svars, selectS>>, Silence' =< Silence,
             toServer' # <<>> /\ ~ServerLeft => Silence' = 0
      PROVE  Silences'
  <2>1. /\ WindowWaits(swin.num_wait)' = WindowWaits(swin.num_wait)
        /\ WindowWaits(0)' = WindowWaits(0) /\ EofWaits' = EofWaits
        /\ (ServerLeft' <=> ServerLeft) /\ sstate' = sstate /\ swin' = swin
    BY <1>3 DEF svars, WindowWaits, EofWaits, ServerLeft
  <2> QED BY <1>1, <1>2, <1>3, <2>1 DEF Silences
<1>4. CASE ServerStep
  <2>1. ~Tick
    <3>1. selectC' = selectC /\ selectC \in Nat
      BY <1>4 DEF ServerStep, ServerThinking, ServerSending, ServerReading, ServerTimeout, Clocks
    <3> QED BY <3>1 DEF Tick
  <2>2. Silence' =< Silence
    BY <2>1, SilenceChanges
  <2> QED BY <1>1, <1>4, <2>2, ServerSilences
<1>5. CASE RcopySending
  <2>1. Silence' = 0 /\ UNCHANGED <<svars, selectS>>
    BY <1>5, SilenceChanges DEF RcopySending, RcopyTransmits
  <2> QED BY <1>1, <1>3, <2>1
<1>6. CASE RcopyThinking \/ RcopyReading \/ RcopyTimeout
  <2>1. UNCHANGED <<svars, selectS>> /\ toServer' = toServer /\ selectC' = 0
    BY <1>6 DEF RcopyThinking, RcopyComputes, RcopyReading, RcopyTimeout
  <2>2. ~Tick
    <3>1. selectC \in Nat
      BY DEF Clocks
    <3> QED BY <2>1, <3>1 DEF Tick
  <2>3. Silence' =< Silence
    BY <2>2, SilenceChanges
  <2>4. toServer' # <<>> /\ ~ServerLeft => Silence' = 0
    BY <1>1, <2>1, <2>3 DEF Silences
  <2> QED BY <1>3, <2>1, <2>3, <2>4
<1>7. CASE Tick
  <2>1. /\ Silence' = Silence + 1 /\ sstate' = sstate /\ swin' = swin /\ eofwait' = eofwait
        /\ toServer' = toServer
    BY <1>7, SilenceChanges DEF Tick, vars
  <2>2. CASE ServerLeft
    BY <2>1, <2>2 DEF Silences, ServerLeft, TransferStates, EofStates
  <2>3. CASE ~ServerLeft
    <3>1. toServer = <<>> /\ selectS' = selectS + 1 /\ ServerSelects
      BY <1>7, <2>3 DEF Tick, ServerIdle
    <3>2. CASE sstate = "S_WAIT_ON_RESPONSE"
      <4>1. swin.num_wait \in Nat
        BY SenderFields
      <4>2. /\ WindowWaits(swin.num_wait)' = WindowWaits(swin.num_wait) + 1
            /\ WindowWaits(0)' = WindowWaits(0) + 1
        BY <1>2, <2>1, <3>1, <3>2, <4>1 DEF WindowWaits, ServerWindowWait
      <4>3. /\ Silence' =< WindowWaits(swin.num_wait)'
            /\ swin'.num_wait > MAX_TRIES => Silence' =< WindowWaits(0)'
        BY <1>1, <1>2, <2>1, <3>2, <4>2 DEF Silences, TransferStates
      <4> QED BY <2>1, <3>1, <3>2, <4>3 DEF Silences, EofStates
    <3>3. CASE sstate = "S_WAIT_ON_ACK"
      <4>1. eofwait \in Nat
        BY SenderFields
      <4>2. EofWaits' = EofWaits + 1
        BY <1>2, <2>1, <3>1, <3>3, <4>1 DEF EofWaits
      <4>3. Silence' =< EofWaits'
        BY <1>1, <1>2, <2>1, <3>3, <4>2 DEF Silences, EofStates
      <4> QED BY <2>1, <3>1, <3>3, <4>3 DEF Silences, TransferStates
    <3> QED BY <3>1, <3>2, <3>3 DEF ServerSelects
  <2> QED BY <2>2, <2>3
<1>8. CASE Fault \/ TimedTerminated \/ UNCHANGED timedVars
  <2>1. UNCHANGED <<svars, rvars, selectS, selectC>> /\ (toServer' = toServer \/ toServer # <<>>)
    BY <1>8 DEF Fault, TimedTerminated, timedVars, vars, svars, rvars
  <2>2. Silence' = Silence
    BY <2>1 DEF Silence, rvars
  <2>3. toServer' # <<>> /\ ~ServerLeft => Silence' = 0
    BY <2>1, <2>2 DEF Silences
  <2> QED BY <1>1, <1>3, <2>1, <2>2, <2>3
<1> QED BY <1>4, <1>5, <1>6, <1>7, <1>8 DEF TimedNext, RcopyStep

-----------------------------------------------------------------------------
LEMMA InitTimedInv == TimedInit => TimedInv
<1> SUFFICES ASSUME TimedInit PROVE TimedInv
  OBVIOUS
<1>1. IInv
  BY InitIInv DEF TimedInit
<1>2. /\ sstate = "S_FILL_WINDOW" /\ rstate = "S_WAIT_ON_DATA" /\ rseq = 0 /\ eofwait = 0
      /\ toServer = <<>> /\ toClient = <<>> /\ selectS = 0 /\ selectC = 0
      /\ net \subseteq HandshakePackets
  BY LeftoversAssumption DEF TimedInit, Init, SenderInit, ReceiverInit
<1>3. swin.rr = 0
  <2>1. PICK num_wait \in MallocWait, top_sent \in MallocTop :
          swin = [window_alloc(0, Packet("DATA", 0, 0), num_wait, top_sent) EXCEPT !.rr = 0]
    BY DEF TimedInit, Init, SenderInit
  <2> QED BY <2>1 DEF window_alloc
<1>4. QueueShape /\ AnswersInOrder
  BY <1>2 DEF QueueShape, AnswersInOrder
<1>5. \A p \in net :
        /\ p.flag \in {"FILE_NAME", "FILE_NAME_ACK", "FILE_BEGIN", "FILE_BEGIN_ACK"}
        /\ p.seq = 0
  BY <1>2 DEF HandshakePackets, Packet
<1>6. AnswerNumbers /\ EofOrder
  BY <1>2, <1>3, <1>5 DEF AnswerNumbers, EofOrder, EofStates
<1>7. Clocks
  BY <1>2 DEF Clocks, ServerSelects, RcopySelects, RcopyWindowWait
<1>8. Silence = 0
  BY <1>2 DEF Silence
<1>9. Silences
  <2>1. WindowWaits(swin.num_wait) = 0 /\ WindowWaits(0) = 0
    BY <1>2 DEF WindowWaits
  <2> QED BY <1>2, <1>8, <2>1 DEF Silences, EofStates
<1> QED BY <1>1, <1>4, <1>6, <1>7, <1>9 DEF TimedInv

LEMMA NextTimedInv == TimedInv /\ [TimedNext]_timedVars => TimedInv'
<1> SUFFICES ASSUME TimedInv, [TimedNext]_timedVars PROVE TimedInv'
  OBVIOUS
<1>1. /\ IInv /\ QueueShape /\ AnswersInOrder /\ AnswerNumbers /\ EofOrder /\ Clocks /\ Silences
  BY DEF TimedInv
<1>2. [Next]_vars
  BY <1>1, TimedStepIs
<1>3. IInv' /\ AnswerNumbers' /\ EofOrder'
  BY <1>1, <1>2, NextIInv, AnswerNumbersStep, EofOrderStep
<1>4. QueueShape' /\ AnswersInOrder' /\ Clocks' /\ Silences'
  BY <1>1, QueueShapeStep, AnswersInOrderStep, ClocksStep, SilencesStep
<1> QED BY <1>3, <1>4 DEF TimedInv

(* Order and time: the invariant of the transfer, and what FIFO queues and *)
(* timers add to it.                                                       *)
THEOREM TimedInvariance == TimedSpec => []TimedInv
<1> QED BY InitTimedInv, NextTimedInv, PTL DEF TimedSpec

(* With queues and timers the two programs do only what Transfer lets them *)
(* do.                                                                     *)
THEOREM TimedRefines == TimedSpec => ImplementsTransfer
<1>1. TimedInit => Init
  BY DEF TimedInit
<1>2. TimedInv /\ [TimedNext]_timedVars => [Next]_vars
  BY TimedStepIs DEF TimedInv
<1> QED BY <1>1, <1>2, TimedInvariance, PTL DEF TimedSpec, ImplementsTransfer

(* So the local file is a prefix of the remote one with them too.          *)
THEOREM TimedPrefixAlways == TimedSpec => []OutputIsPrefix
<1>1. ImplementsTransfer => Spec
  BY DEF ImplementsTransfer, Spec
<1> QED BY <1>1, TimedRefines, PrefixAlways, PTL

(* On a network that keeps order the packet that ends wait_on_ack is an    *)
(* answer to FILE_EOF, although only numbers are compared.                 *)
THEOREM AckAlwaysAnswersEof == TimedSpec => AckAnswersEof
<1> DEFINE Answers == sstate = "S_WAIT_ON_ACK" /\ sstate' = "S_FINISH" => rseq # 0
<1>1. TimedInv /\ [TimedNext]_timedVars => [Answers]_timedVars
  <2> SUFFICES ASSUME TimedInv, [TimedNext]_timedVars,
                      sstate = "S_WAIT_ON_ACK", sstate' = "S_FINISH"
               PROVE  rseq # 0
    OBVIOUS
  <2>1. IInv /\ QueueShape /\ AnswersInOrder /\ AnswerNumbers /\ EofOrder /\ Silences
    BY DEF TimedInv
  <2>2. ServerReading
    <3>1. sstate' # sstate
      OBVIOUS
    <3>2. ~ServerThinking
      BY <2>1, ServerThinksIs DEF ServerThinking, ServerComputes, RetryWindow
    <3>3. ~ServerSending
      BY <2>1, ServerSendsIs DEF ServerSending, ServerTransmits
    <3>4. ~ServerTimeout
      BY <2>1, ServerDisappointedIs DEF ServerTimeout
    <3>5. ~(RcopyThinking \/ RcopySending \/ RcopyReading \/ RcopyTimeout \/ Tick \/ Fault
            \/ TimedTerminated \/ UNCHANGED timedVars)
      BY <3>1 DEF RcopyThinking, RcopySending, RcopyReading, RcopyTimeout, Tick, Fault,
                  TimedTerminated, timedVars, vars, svars, RcopyComputes, RcopyTransmits
    <3> QED BY <3>2, <3>3, <3>4, <3>5 DEF TimedNext, ServerStep, RcopyStep
  <2> DEFINE p == Head(toServer)
  <2>3. p # Damaged
    BY <2>2 DEF ServerReading, ServerHearsDamaged, NoResponse, IgnoreOnAck, svars
  <2>4. p = toServer[1] /\ 1 \in 1 .. Len(toServer)
    BY <2>1, <2>2, QueueTail DEF ServerReading, QueueShape
  <2>5. p \in net /\ ToServer(p) /\ (IsAnswer(p) => swin.rr =< p.seq)
    BY <2>1, <2>3, <2>4 DEF QueueShape, AnswersInOrder
  <2>6. p.seq = sseq /\ sseq = 1
    <3>1. ServerHears(p) /\ p.flag # "CORRUPT"
      BY <2>2, <2>3, <2>5 DEF ServerReading, ToServer
    <3>2. p.seq = sseq
      BY <2>1, <3>1, ServerHearsIs
    <3> QED BY <2>1, <3>2 DEF IInv, SenderSeq
  <2>7. swin.rr >= 2 /\ swin.rr \in Nat
    BY <2>1, SenderFields DEF AnswerNumbers, EofStates
  <2>8. ~IsAnswer(p)
    BY <2>5, <2>6, <2>7
  <2>9. p.flag = "FILE_EOF_ACK"
    <3>1. p.flag \notin {"FILE_NAME", "FILE_BEGIN"}
      BY <2>1, <2>5, <2>6 DEF AnswerNumbers
    <3> QED BY <2>5, <2>8, <3>1 DEF ToServer, IsAnswer
  <2> QED BY <2>1, <2>5, <2>9 DEF EofOrder
<1> QED BY <1>1, TimedInvariance, PTL DEF TimedSpec, AckAnswersEof

(* A child outlives rcopy by no more seconds than its own tries allow.     *)
THEOREM AlwaysFollowsRcopy == TimedSpec => []FollowsRcopy
<1>1. TimedInv => FollowsRcopy
  <2> SUFFICES ASSUME TimedInv, RcopyLeft, ~ServerLeft
               PROVE  \/ selectC =< (MAX_TRIES + 1) * ServerWindowWait - RcopyWindowWait
                      \/ selectC =< (EOF_TRIES + 1) * MAX_TRY_WAIT_TIME_S
    BY DEF FollowsRcopy
  <2>1. IInv /\ EofOrder /\ Clocks /\ Silences
    BY DEF TimedInv
  <2>2. /\ selectC \in Nat /\ selectS \in Nat /\ swin.num_wait \in Nat
        /\ eofwait \in Nat /\ eofwait =< EOF_TRIES /\ MAX_TRIES \in Nat /\ EOF_TRIES \in Nat
    BY <2>1, SenderFields, Parameters DEF Clocks
  <2>3. sstate \in TransferStates \cup EofStates
    BY <2>1 DEF IInv, TypeOK, ServerStates, ServerLeft, TransferStates, EofStates
  <2>4. sstate \in EofStates => EofWaits =< EOF_TRIES + 1
    <3>1. sstate = "S_WAIT_ON_ACK" => selectS =< 1
      BY <2>1, ServerLeftIs DEF Clocks, ServerSelects
    <3> QED BY <2>2, <3>1 DEF EofWaits
  <2>5. CASE rseq # 0
    <3>1. sstate \in EofStates
      BY <2>1, <2>5 DEF EofOrder, ServerLeft
    <3>2. selectC =< EofWaits
      BY <2>1, <2>2, <2>5, <3>1 DEF Silences, Silence
    <3>3. EofWaits \in Nat
      BY <2>1, WaitsAre
    <3> QED BY <2>2, <2>4, <3>1, <3>2, <3>3 DEF MAX_TRY_WAIT_TIME_S
  <2>6. CASE rseq = 0
    <3>1. Silence = selectC + 10
      BY <2>6 DEF Silence, RcopyLeft, RcopyWindowWait
    <3>2. CASE sstate \in EofStates
      <4>1. selectC + 10 =< EofWaits /\ EofWaits \in Nat
        BY <2>1, <3>1, <3>2, WaitsAre DEF Silences
      <4> QED BY <2>2, <2>4, <3>2, <4>1 DEF MAX_TRY_WAIT_TIME_S
    <3>3. CASE sstate \in TransferStates
      <4>1. sstate = "S_WAIT_ON_RESPONSE" => selectS =< 2
        BY <2>1, ServerLeftIs DEF Clocks, ServerSelects
      <4>2. CASE swin.num_wait =< MAX_TRIES
        <5>1. WindowWaits(swin.num_wait) =< 2 * (MAX_TRIES + 1)
          BY <2>2, <4>1, <4>2 DEF WindowWaits, ServerWindowWait
        <5>2. selectC + 10 =< WindowWaits(swin.num_wait) /\ WindowWaits(swin.num_wait) \in Nat
          BY <2>1, <3>1, <3>3, WaitsAre DEF Silences
        <5>3. selectC =< 2 * (MAX_TRIES + 1) - 10
          BY <2>2, <5>1, <5>2
        <5> QED BY <2>2, <5>3 DEF ServerWindowWait, RcopyWindowWait
      <4>3. CASE swin.num_wait > MAX_TRIES
        <5>1. WindowWaits(0) =< 2
          BY <2>2, <4>1 DEF WindowWaits, ServerWindowWait
        <5>2. selectC + 10 =< WindowWaits(0) /\ WindowWaits(0) \in Nat
          BY <2>1, <3>1, <3>3, <4>3, WaitsAre DEF Silences
        <5> QED BY <2>2, <5>1, <5>2
      <4> QED BY <2>2, <4>2, <4>3
    <3> QED BY <2>3, <3>2, <3>3
  <2> QED BY <2>5, <2>6
<1> QED BY <1>1, TimedInvariance, PTL
=============================================================================
