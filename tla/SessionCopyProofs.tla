------------------------- MODULE SessionCopyProofs -------------------------
(***************************************************************************)
(* Proofs that a session copies the file, as long as no datagram is held   *)
(* back.  What rcopy and its peer do is a transfer as TransferProofs tells *)
(* it: every step of the session is a move of one end of that transfer, or *)
(* sets it up, or is none of its business.                                 *)
(***************************************************************************)
EXTENDS SessionProofs

P == INSTANCE TransferProofs WITH
       sstate <- PeerState, swin <- PeerWin, fpos <- PeerPos, sseq <- PeerSeq,
       eofwait <- PeerEofWait, rstate <- ClientState, net <- Underway, Leftovers <- {}

(* The invariant of the transfer, as checked and as proved.                *)
LEMMA SameWindows ==
  /\ \A w : T!WindowSeqs(w) = P!WindowSeqs(w)
  /\ \A type : T!WindowType(type) = P!WindowType(type)
  /\ \A seq : T!SFrame(seq) = P!SFrame(seq) /\ T!RFrame(seq) = P!RFrame(seq)
  /\ \A flag, seq, data : T!Packet(flag, seq, data) = P!Packet(flag, seq, data)
  /\ T!Blocks = P!Blocks /\ T!PacketType = P!PacketType
BY DEF T!WindowSeqs, P!WindowSeqs, T!WindowType, P!WindowType, T!Slots, P!Slots, T!FrameState,
       P!FrameState, T!SFrame, P!SFrame, T!RFrame, P!RFrame, T!get_frame_num, P!get_frame_num,
       T!Packet, P!Packet, T!Blocks, P!Blocks, T!PacketType, P!PacketType

LEMMA SameTransfer == T!IInv <=> P!IInv
<1>1. T!TypeOK <=> P!TypeOK
  BY SameWindows DEF T!TypeOK, P!TypeOK, T!ServerStates, P!ServerStates, T!RcopyStates, P!RcopyStates
<1>2. T!SenderShape <=> P!SenderShape
  BY SameWindows DEF T!SenderShape, P!SenderShape
<1>3. T!SenderSent <=> P!SenderSent
  BY SameWindows DEF T!SenderSent, P!SenderSent
<1>4. T!SenderSeq <=> P!SenderSeq
  BY DEF T!SenderSeq, P!SenderSeq, T!TransferStates, P!TransferStates
<1>5. T!Knowledge <=> P!Knowledge
  BY DEF T!Knowledge, P!Knowledge
<1>6. T!NetShape <=> P!NetShape
  BY DEF T!NetShape, P!NetShape
<1>7. T!EndOfFile <=> P!EndOfFile
  BY DEF T!EndOfFile, P!EndOfFile, T!EofStates, P!EofStates
<1>8. T!ReceiverShape <=> P!ReceiverShape
  BY SameWindows DEF T!ReceiverShape, P!ReceiverShape
<1>9. T!ReceiverOutput <=> P!ReceiverOutput
  BY SameWindows DEF T!ReceiverOutput, P!ReceiverOutput
<1> QED BY <1>1, <1>2, <1>3, <1>4, <1>5, <1>6, <1>7, <1>8, <1>9 DEF T!IInv, P!IInv

(* The operators of the transfer are those of the session's modules.       *)
LEMMA TransferOperators ==
  /\ \A S : P!Cardinality(S) = Cardinality(S)
  /\ \A S, seq : P!Rank(S, seq) = Rank(S, seq)
  /\ \A S : P!Ascending(S) = Ascending(S)
  /\ P!Slots = Slots /\ \A seq : P!get_frame_num(seq) = get_frame_num(seq)
  /\ \A w, S, st : P!SetFrames(w, S, st) = SetFrames(w, S, st)
  /\ \A w, st : P!SeqsIn(w, st) = SeqsIn(w, st)
  /\ \A w : P!Acked(w) = Acked(w) /\ P!Slide(w) = Slide(w) /\ (P!CanSlide(w) <=> CanSlide(w))
  /\ \A w, seq : P!within_window(w, seq) <=> within_window(w, seq)
  /\ \A seq, pkt, n, m : P!window_alloc(seq, pkt, n, m) = window_alloc(seq, pkt, n, m)
  /\ \A flag, seq, data : P!Packet(flag, seq, data) = Packet(flag, seq, data)
  /\ P!Damaged = Damaged
<1>1. \A S : P!Cardinality(S) = Cardinality(S)
  BY DEF P!Cardinality, Cardinality
<1>2. \A S, seq : P!Rank(S, seq) = Rank(S, seq)
  BY <1>1 DEF P!Rank, Rank
<1>3. \A S : P!Ascending(S) = Ascending(S)
  BY <1>1 DEF P!Ascending, Ascending
<1>4. P!Slots = Slots /\ \A seq : P!get_frame_num(seq) = get_frame_num(seq)
  BY DEF P!Slots, Slots, P!get_frame_num, get_frame_num
<1>5. \A w, S, st : P!SetFrames(w, S, st) = SetFrames(w, S, st)
  BY DEF P!SetFrames, SetFrames, P!Slots, Slots, P!get_frame_num, get_frame_num
<1>6. \A w, st : P!SeqsIn(w, st) = SeqsIn(w, st)
  BY DEF P!SeqsIn, SeqsIn, P!WindowSeqs, WindowSeqs, P!get_frame_num, get_frame_num
<1>7. \A w : P!Acked(w) = Acked(w) /\ (P!CanSlide(w) <=> CanSlide(w))
  BY DEF P!Acked, Acked, P!CanSlide, CanSlide
<1>8. \A w : P!Slide(w) = Slide(w)
  BY <1>5, <1>7 DEF P!Slide, Slide
<1>9. \A w, seq : P!within_window(w, seq) <=> within_window(w, seq)
  BY DEF P!within_window, within_window, P!WindowSeqs, WindowSeqs
<1>10. \A seq, pkt, n, m : P!window_alloc(seq, pkt, n, m) = window_alloc(seq, pkt, n, m)
  BY DEF P!window_alloc, window_alloc, P!Slots, Slots
<1>11. \A flag, seq, data : P!Packet(flag, seq, data) = Packet(flag, seq, data)
  BY DEF P!Packet, Packet
<1>12. P!Damaged = Damaged
  BY <1>11 DEF P!Damaged, Damaged
<1> QED BY <1>1, <1>2, <1>3, <1>4, <1>5, <1>6, <1>7, <1>8, <1>9, <1>10, <1>11, <1>12

-----------------------------------------------------------------------------
(* What is on the network.                                                 *)

(* Every packet in a queue was in it before, was damaged, or is new.       *)
Carries(new) ==
  \A me \in Processes : \A i \in 1 .. Len(queue'[me]) :
    \/ \E j \in 1 .. Len(queue[me]) : queue'[me][i].pkt = queue[me][j].pkt
    \/ queue'[me][i].pkt = Damaged
    \/ queue'[me][i].pkt \in new

Elements(pkts) == {pkts[i] : i \in 1 .. Len(pkts)}

LEMMA UnderwayIs ==
  ASSUME NEW new, Carries(new)
  PROVE  Underway' \subseteq Underway \cup {p \in new : p.flag \in TransferFlags}
<1>1. SUFFICES ASSUME NEW p \in Underway'
               PROVE  p \in Underway \cup new /\ p.flag \in TransferFlags
  BY DEF Underway
<1>2. p \in InQueues' /\ p.flag \in TransferFlags
  BY DEF Underway
<1>3. PICK me \in Processes : \E i \in 1 .. Len(queue'[me]) : p = queue'[me][i].pkt
  BY <1>2 DEF InQueues
<1>4. PICK i \in 1 .. Len(queue'[me]) : p = queue'[me][i].pkt
  BY <1>3
<1>5. p # Damaged
  BY <1>2 DEF Damaged, Packet, TransferFlags
<1>6. CASE \E j \in 1 .. Len(queue[me]) : p = queue[me][j].pkt
  BY <1>2, <1>6 DEF Underway, InQueues
<1> QED BY <1>2, <1>4, <1>5, <1>6 DEF Carries

LEMMA PostedCarries ==
  ASSUME NEW q \in Queues, NEW src, NEW dst \in Processes, NEW pkts,
         Extended(q, src, dst, pkts, queue'),
         \A me \in Processes : Within(queue[me], q[me])
  PROVE  Carries(Elements(pkts))
<1>1. SUFFICES ASSUME NEW me \in Processes, NEW i \in 1 .. Len(queue'[me])
               PROVE  \/ \E j \in 1 .. Len(queue[me]) : queue'[me][i].pkt = queue[me][j].pkt
                      \/ \E j \in 1 .. Len(pkts) : queue'[me][i].pkt = pkts[j]
  BY DEF Carries, Elements
<1>2. \/ \E j \in 1 .. Len(q[me]) : queue'[me][i] = q[me][j]
      \/ \E j \in 1 .. Len(pkts) : queue'[me][i] = [src |-> src, pkt |-> pkts[j]]
  BY DEF Extended
<1>3. CASE \E j \in 1 .. Len(q[me]) : queue'[me][i] = q[me][j]
  BY <1>3 DEF Within
<1>4. ASSUME NEW j \in 1 .. Len(pkts), queue'[me][i] = [src |-> src, pkt |-> pkts[j]]
      PROVE  queue'[me][i].pkt = pkts[j]
  <2> DEFINE e == queue'[me][i]
  <2>1. e = [src |-> src, pkt |-> pkts[j]]
    BY <1>4
  <2> HIDE DEF e
  <2>2. e.pkt = pkts[j]
    BY <2>1
  <2> QED BY <2>2 DEF e
<1> QED BY <1>2, <1>3, <1>4

(* What is sent when nothing, or only what me reads, leaves the queues.    *)
LEMMA SentCarries ==
  ASSUME queue \in Queues, NEW src \in Processes, NEW dst \in Processes, NEW pkts \in Seq(AnyPacket),
         \/ queue' = Posted(queue, src, dst, pkts)
         \/ \E me \in Processes : Waiting(me) /\ queue' = Posted(Consumed(me), src, dst, pkts)
  PROVE  queue' \in Queues /\ Carries(Elements(pkts))
<1>1. CASE queue' = Posted(queue, src, dst, pkts)
  <2>1. Extended(queue, src, dst, pkts, queue')
    BY <1>1, PostedIs
  <2>2. \A me \in Processes : Within(queue[me], queue[me])
    BY DEF Within
  <2>3. Carries(Elements(pkts))
    BY <2>1, <2>2, PostedCarries
  <2> QED BY <2>1, <2>3 DEF Extended
<1>2. ASSUME NEW me \in Processes, Waiting(me), queue' = Posted(Consumed(me), src, dst, pkts)
      PROVE  queue' \in Queues /\ Carries(Elements(pkts))
  <2>1. Consumed(me) \in Queues
    BY <1>2, ConsumedIs
  <2>2. \A you \in Processes : Within(queue[you], Consumed(me)[you])
    BY <1>2, ConsumedIs DEF Within
  <2>3. Extended(Consumed(me), src, dst, pkts, queue')
    BY <1>2, <2>1, PostedIs
  <2>4. Carries(Elements(pkts))
    BY <2>1, <2>2, <2>3, PostedCarries
  <2> QED BY <2>3, <2>4 DEF Extended
<1> QED BY <1>1, <1>2

-----------------------------------------------------------------------------
(* The peer of rcopy as the server of the transfer.                        *)

(* Where no transfer has begun, nothing has been read or numbered.         *)
PeerFit ==
  /\ ~Asking(peer)
  /\ NotBegun(SState(peer)) => PeerPos = 0 /\ PeerSeq = 0

LEMMA BegunIs ==
  /\ \A s \in TransferStates \cup {"S_FINISH"} : ~NotBegun(s)
  /\ \A s \in SetupStates : NotBegun(s)
BY DEF NotBegun, TransferStates, SetupStates

(* What TransferProofs assumes of the parameters.                          *)
LEMMA TransferParameters ==
  /\ {} \subseteq P!HandshakePackets
  /\ WindowSize \in Nat \ {0}
  /\ NumBlocks \in Nat
  /\ PartialLast \in BOOLEAN
  /\ PartialLast => NumBlocks > 0
  /\ MAX_TRIES \in Nat
  /\ EOF_TRIES \in Nat
  /\ MallocWait \subseteq Nat
  /\ MallocTop \subseteq Nat
BY WindowSizeAssumption, SessionAssumption

(* The invariant of the transfer, a step later.                            *)
LEMMA TransferNext ==
  /\ (T!IInv)' <=> P!IInv'
  /\ P!Fresh' => P!IInv'
<1>1. (T!IInv)' <=> P!IInv'
  BY SameTransfer, PTL
<1>2. P!Fresh => P!IInv
  BY TransferParameters, P!FreshIInv
<1>3. P!Fresh' => P!IInv'
  BY <1>2, PTL
<1> QED BY <1>1, <1>3

(* The window a child has before any transfer.                             *)
LEMMA NoWindowIs ==
  /\ C1!NoWindow = window_alloc(0, Packet("DATA", 0, 0), 0, 0)
  /\ C2!NoWindow = C1!NoWindow
BY Child1Operators, Child2Operators DEF C1!NoWindow, C2!NoWindow

(* rcopy knows nothing of what a child does.                               *)
LEMMA ClientKept ==
  ASSUME UNCHANGED client
  PROVE  UNCHANGED P!rvars
BY DEF client, rvars, P!rvars, ClientState, SettingUp

LEMMA UnderwayKept ==
  ASSUME queue' = queue
  PROVE  Underway' = Underway
BY DEF Underway, InQueues

(* Nothing of a transfer is sent.                                          *)
LEMMA NothingSent ==
  ASSUME NEW new, Carries(new), \A p \in new : p.flag \notin TransferFlags
  PROVE  Underway' \subseteq Underway
BY UnderwayIs

NoNameAsked == \A i \in 1 .. Len(queue[peer]) : queue[peer][i].pkt.flag # "FILE_NAME"

(* The first child's steps of a transfer are the server's.                 *)
Peer1Views ==
  /\ peer = "child1" /\ peer' = "child1"
  /\ SState(peer) = sstate1 /\ SState(peer)' = sstate1'
  /\ PeerState = (IF NotBegun(sstate1) THEN "S_FILL_WINDOW" ELSE sstate1)
  /\ PeerState' = (IF NotBegun(sstate1') THEN "S_FILL_WINDOW" ELSE sstate1')
  /\ PeerWin = swin1 /\ PeerWin' = swin1' /\ PeerPos = fpos1 /\ PeerPos' = fpos1'
  /\ PeerSeq = sseq1 /\ PeerSeq' = sseq1' /\ PeerEofWait = eofwait1 /\ PeerEofWait' = eofwait1'

LEMMA Peer1Is ==
  ASSUME peer = "child1", peer' = peer
  PROVE  Peer1Views
BY DEF Peer1Views, SState, PeerState, PeerWin, PeerPos, PeerSeq, PeerEofWait, NotBegun, SetupStates

LEMMA Peer1Thinks ==
  ASSUME Peer1Views, C1!ServerThinks
  PROVE  P!ServerThinks /\ ~NotBegun(sstate1')
<1> USE BegunIs DEF Peer1Views, TransferStates
<1>1. CASE C1!FillWindow
  <2>1. C1!LastRead = LastReadOf(swin1, fpos1) /\ P!LastRead = LastReadOf(swin1, fpos1)
    BY Child1Operators, TransferOperators
       DEF C1!LastRead, C1!Empties, P!LastRead, P!Empties, LastReadOf
  <2>2. \A i : C1!FilledFrame(i) = FilledOf(swin1, fpos1, i) /\ P!FilledFrame(i) = FilledOf(swin1, fpos1, i)
    BY Child1Operators, TransferOperators
       DEF C1!FilledFrame, C1!Empties, C1!BlockFor, P!FilledFrame, P!Empties, P!BlockFor, FilledOf
  <2>3. P!FillWindow /\ sstate1' = "S_SEND_WINDOW"
    BY <1>1, <2>1, <2>2, Child1Operators, TransferOperators DEF C1!FillWindow, P!FillWindow
  <2> QED BY <2>3 DEF P!ServerThinks
<1>2. CASE C1!RetryWindow
  <2>1. P!RetryWindow /\ sstate1' = "S_SEND_WINDOW"
    BY <1>2, Child1Operators, TransferOperators DEF C1!RetryWindow, P!RetryWindow
  <2> QED BY <2>1 DEF P!ServerThinks
<1>3. CASE C1!AbandonWindow
  <2>1. P!AbandonWindow /\ sstate1' = "S_FINISH"
    BY <1>3 DEF C1!AbandonWindow, P!AbandonWindow
  <2> QED BY <2>1 DEF P!ServerThinks
<1>4. CASE C1!AdjustDone
  <2>1. P!AdjustDone /\ sstate1' = "S_FILE_EOF"
    BY <1>4 DEF C1!AdjustDone, P!AdjustDone, C1!AllAcked, P!AllAcked
  <2> QED BY <2>1 DEF P!ServerThinks
<1>5. CASE C1!AdjustSlide
  <2>1. P!AdjustSlide /\ sstate1' = "S_FILL_WINDOW"
    BY <1>5, Child1Operators, TransferOperators
       DEF C1!AdjustSlide, P!AdjustSlide, C1!AllAcked, P!AllAcked, C1!CanSlide, P!CanSlide
  <2> QED BY <2>1 DEF P!ServerThinks
<1>6. CASE C1!AdjustStay
  <2>1. P!AdjustStay /\ sstate1' = "S_SEND_WINDOW"
    BY <1>6 DEF C1!AdjustStay, P!AdjustStay, C1!AllAcked, P!AllAcked, C1!CanSlide, P!CanSlide
  <2> QED BY <2>1 DEF P!ServerThinks
<1>7. CASE C1!CreateFileEof
  <2>1. P!CreateFileEof /\ sstate1' = "S_SEND"
    BY <1>7 DEF C1!CreateFileEof, P!CreateFileEof
  <2> QED BY <2>1 DEF P!ServerThinks
<1>8. CASE C1!TimeoutOnAck
  <2>1. P!TimeoutOnAck /\ sstate1' \in {"S_FINISH", "S_SEND"}
    BY <1>8 DEF C1!TimeoutOnAck, P!TimeoutOnAck
  <2> QED BY <2>1 DEF P!ServerThinks
<1> QED BY <1>1, <1>2, <1>3, <1>4, <1>5, <1>6, <1>7, <1>8 DEF C1!ServerThinks

LEMMA Peer1Sends ==
  ASSUME Peer1Views, Child1TypeOK, C1!ServerSends
  PROVE  /\ P!ServerSends /\ ~NotBegun(sstate1')
         /\ Elements(C1!Message) \subseteq P!Outgoing
<1> USE BegunIs DEF Peer1Views, TransferStates
<1>1. CASE C1!SendWindow
  <2> DEFINE fulls == SeqsIn(swin1, "FRAME_FULL")
  <2>1. C1!Fulls = fulls /\ P!Fulls = fulls
    BY Child1Operators, TransferOperators DEF C1!Fulls, P!Fulls
  <2>2. P!SendWindow /\ sstate1' = "S_WAIT_ON_RESPONSE" /\ sstate1 = "S_SEND_WINDOW"
    BY <1>1, <2>1, Child1Operators, TransferOperators DEF C1!SendWindow, P!SendWindow
  <2>3. C1!Message = BurstOf(swin1)
    BY <2>2, Child1Operators DEF C1!Message, C1!Burst, C1!Fulls, C1!FullSeqs, BurstOf
  <2>4. fulls \in SUBSET Nat /\ IsFiniteSet(fulls)
    BY SeqsInType DEF Child1TypeOK, ChildTypeOK
  <2>5. /\ Cardinality(fulls) \in Nat /\ Ascending(fulls) \in [1 .. Cardinality(fulls) -> fulls]
    BY <2>4, AscendingIs, FS_CardinalityType
  <2>6. P!Outgoing = {swin1.Frame[get_frame_num(seq)].pkt : seq \in fulls}
    BY <2>1, <2>2, TransferOperators DEF P!Outgoing
  <2> HIDE DEF fulls
  <2>7. /\ Len(BurstOf(swin1)) = Cardinality(fulls)
        /\ \A i \in 1 .. Cardinality(fulls) :
             BurstOf(swin1)[i] = swin1.Frame[get_frame_num(Ascending(fulls)[i])].pkt
    BY <2>5 DEF BurstOf, fulls
  <2>8. Elements(C1!Message) \subseteq P!Outgoing
    <3>1. \A i \in 1 .. Cardinality(fulls) : BurstOf(swin1)[i] \in P!Outgoing
      BY <2>5, <2>6, <2>7
    <3> QED BY <2>3, <2>7, <3>1 DEF Elements
  <2> QED BY <2>2, <2>8 DEF P!ServerSends
<1>2. CASE C1!SendFileEof
  <2>1. P!SendFileEof /\ sstate1' = "S_WAIT_ON_ACK" /\ sstate1 = "S_SEND"
    BY <1>2 DEF C1!SendFileEof, P!SendFileEof
  <2>2. C1!Message = <<Packet("FILE_EOF", sseq1, 0)>>
    BY <2>1, Child1Operators DEF C1!Message, C1!Burst
  <2>3. P!Outgoing = {Packet("FILE_EOF", sseq1, 0)}
    BY <2>1, TransferOperators DEF P!Outgoing
  <2> QED BY <2>1, <2>2, <2>3 DEF P!ServerSends, Elements
<1> QED BY <1>1, <1>2 DEF C1!ServerSends

LEMMA Peer1Hears ==
  ASSUME Peer1Views, NEW p, C1!ServerHears(p), p.flag # "FILE_NAME"
  PROVE  P!ServerHears(p) /\ ~NotBegun(sstate1')
<1> USE BegunIs DEF Peer1Views, TransferStates
<1>1. CASE C1!RecvRR(p)
  <2>1. P!RecvRR(p) /\ sstate1' = "S_ADJUST_WINDOW"
    BY <1>1 DEF C1!RecvRR, P!RecvRR, C1!HearsResponse, P!HearsResponse
  <2> QED BY <2>1 DEF P!ServerHears
<1>2. CASE C1!RecvSREJ(p)
  <2>1. P!RecvSREJ(p) /\ sstate1' = "S_ADJUST_WINDOW"
    BY <1>2 DEF C1!RecvSREJ, P!RecvSREJ, C1!HearsResponse, P!HearsResponse
  <2> QED BY <2>1 DEF P!ServerHears
<1>3. CASE C1!RecvOther(p)
  <2>1. P!RecvOther(p) /\ sstate1' = "S_FINISH"
    BY <1>3 DEF C1!RecvOther, P!RecvOther, C1!HearsResponse, P!HearsResponse
  <2> QED BY <2>1 DEF P!ServerHears
<1>4. CASE C1!RecvEofAck(p)
  <2>1. P!RecvEofAck(p) /\ sstate1' = "S_FINISH"
    BY <1>4 DEF C1!RecvEofAck, P!RecvEofAck
  <2> QED BY <2>1 DEF P!ServerHears
<1>5. CASE C1!IgnoreOnAck(p)
  <2>1. P!IgnoreOnAck(p) /\ sstate1' = "S_WAIT_ON_ACK"
    BY <1>5 DEF C1!IgnoreOnAck, P!IgnoreOnAck, C1!svars, P!svars
  <2> QED BY <2>1 DEF P!ServerHears
<1> QED BY <1>1, <1>2, <1>3, <1>4, <1>5 DEF C1!ServerHears

LEMMA Peer1Waits ==
  ASSUME Peer1Views, C1!ServerTimesOut \/ C1!ServerHearsDamaged
  PROVE  (P!ServerTimesOut \/ P!IgnoreOnAck(P!Damaged)) /\ ~NotBegun(sstate1')
<1> USE BegunIs DEF Peer1Views, TransferStates
<1>1. CASE C1!NoResponse
  <2>1. P!NoResponse /\ sstate1' = "S_TIMEOUT_ON_RESPONSE"
    BY <1>1 DEF C1!NoResponse, P!NoResponse
  <2> QED BY <2>1 DEF P!ServerTimesOut
<1>2. CASE C1!NoAck
  <2>1. P!NoAck /\ sstate1' = "S_TIMEOUT_ON_ACK"
    BY <1>2 DEF C1!NoAck, P!NoAck
  <2> QED BY <2>1 DEF P!ServerTimesOut
<1>3. CASE C1!IgnoreOnAck(C1!Damaged)
  <2>1. P!IgnoreOnAck(P!Damaged) /\ sstate1' = "S_WAIT_ON_ACK"
    BY <1>3, Child1Operators, TransferOperators DEF C1!IgnoreOnAck, P!IgnoreOnAck, C1!svars, P!svars
  <2> QED BY <2>1
<1> QED BY <1>1, <1>2, <1>3 DEF C1!ServerTimesOut, C1!ServerHearsDamaged

(* Whatever the first child does when it is rcopy's peer is a move of the  *)
(* server.                                                                 *)
LEMMA Peer1Moves ==
  ASSUME SessionTypeOK, Child1Step, peer = "child1", PeerFit, NoNameAsked
  PROVE  P!ServerMoves /\ UNCHANGED P!rvars /\ PeerFit'
<1>1. /\ Child1TypeOK /\ queue \in Queues /\ UNCHANGED client /\ peer' = peer
      /\ "child1" \in Processes /\ "rcopy" \in Processes
  BY TypeIs, ProcessesAre DEF Child1Step, client
<1>2. Peer1Views
  BY <1>1, Peer1Is
<1>3. UNCHANGED P!rvars
  BY <1>1, ClientKept
<1>4. /\ sstate1 \notin SetupStates \ {"S_FILE_BEGIN"}
      /\ sstate1 = "S_FILE_BEGIN" => fpos1 = 0 /\ sseq1 = 0
  BY <1>2, BegunIs, ProcessesAre DEF PeerFit, Asking, Peer1Views, SetupStates
<1>5. ~NotBegun(sstate1') => PeerFit'
  BY <1>2, BegunIs DEF PeerFit, Asking, Peer1Views
<1>6. CASE C1!ChildThinks(fopens) /\ Computes("child1")
  <2>1. C1!ServerThinks
    BY <1>4, <1>6 DEF C1!ChildThinks, C1!OpenFile, SetupStates
  <2>2. P!ServerThinks /\ ~NotBegun(sstate1')
    BY <1>2, <2>1, Peer1Thinks
  <2>3. Underway' = Underway
    BY <1>6, UnderwayKept DEF Computes
  <2> QED BY <1>3, <1>5, <2>2, <2>3 DEF P!ServerMoves
<1>7. CASE C1!ChildSends /\ Sends("child1", "rcopy", C1!Message)
  <2>1. C1!ServerSends
    BY <1>4, <1>7 DEF C1!ChildSends, C1!SendNameAck, SetupStates
  <2>2. P!ServerSends /\ ~NotBegun(sstate1') /\ Elements(C1!Message) \subseteq P!Outgoing
    BY <1>1, <1>2, <2>1, Peer1Sends
  <2>3. C1!Message \in Seq(AnyPacket)
    BY <1>1, <1>7, Child1Sends DEF Sent
  <2>4. Carries(Elements(C1!Message))
    BY <1>1, <1>7, <2>3, SentCarries DEF Sends
  <2>5. Underway' \subseteq Underway \cup P!Outgoing
    BY <2>2, <2>4, UnderwayIs
  <2> QED BY <1>3, <1>5, <2>2, <2>5 DEF P!ServerMoves
<1>8. CASE /\ Waiting("child1")
           /\ IF Arrived("child1") = Damaged THEN C1!ChildHearsDamaged
              ELSE C1!ChildHears(Arrived("child1"))
           /\ Reads("child1", "rcopy", C1!Answer(Arrived("child1")))
  <2> DEFINE p == Arrived("child1")
  <2>1. p \in AnyPacket /\ p = queue["child1"][1].pkt /\ 1 \in 1 .. Len(queue["child1"])
    BY <1>1, <1>8, ConsumedIs DEF Arrived
  <2>2. p.flag # "FILE_NAME"
    BY <2>1 DEF NoNameAsked
  <2>3. p.flag \in TransferFlags => p \in Underway
    BY <1>1, <2>1 DEF Underway, InQueues
  <2> HIDE DEF p
  <2>4. C1!Answer(p) \in Seq(AnyPacket)
    BY <1>1, <1>8, <2>1, Child1Hears DEF Heard, p
  <2>5. Carries(Elements(C1!Answer(p)))
    BY <1>1, <1>8, <2>4, SentCarries DEF Reads, p
  <2>6. \A q \in Elements(C1!Answer(p)) : q.flag \notin TransferFlags
    BY Child1Operators DEF C1!Answer, Elements, Packet, TransferFlags
  <2>7. Underway' \subseteq Underway
    BY <2>5, <2>6, NothingSent
  <2>8. CASE C1!RecvBegin(p)
    <3>1. PICK num_wait \in MallocWait, top_sent \in MallocTop :
            swin1' = [window_alloc(sseq1, Packet("DATA", 0, 0), num_wait, top_sent) EXCEPT !.rr = 0]
      BY <2>8, Child1Operators DEF C1!RecvBegin
    <3>2. sseq1 = 0 /\ fpos1 = 0 /\ num_wait \in Nat /\ top_sent \in Nat
      BY <1>4, <2>8, Parameters DEF C1!RecvBegin, C1!BeginsTransfer
    <3>3. \A rr \in {0, 1} : P!FreshWindow([P!window_alloc(0, P!Packet("DATA", 0, 0), num_wait, top_sent)
                                            EXCEPT !.rr = rr])
      BY <3>2, TransferParameters, P!AllocFresh
    <3>4. P!FreshWindow(swin1')
      BY <3>1, <3>2, <3>3, TransferOperators
    <3>5. ~NotBegun(sstate1')
      BY <2>8, BegunIs DEF C1!RecvBegin, TransferStates
    <3>6. P!Starts
      BY <1>2, <2>8, <3>2, <3>4, <3>5 DEF Peer1Views, P!Starts, C1!RecvBegin, P!FreshWindow
    <3> QED BY <1>3, <1>5, <2>7, <3>5, <3>6 DEF P!ServerMoves
  <2>9. ASSUME UNCHANGED C1!svars PROVE UNCHANGED P!svars /\ PeerFit'
    BY <1>2, <2>9 DEF Peer1Views, C1!svars, P!svars, PeerFit, Asking
  <2>10. CASE p = Damaged
    <3>1. CASE C1!IgnoreInBegin(C1!Damaged)
      BY <1>3, <2>7, <2>9, <3>1 DEF P!ServerMoves, C1!IgnoreInBegin
    <3>2. CASE C1!ServerHearsDamaged
      <4>1. (P!ServerTimesOut \/ P!IgnoreOnAck(P!Damaged)) /\ ~NotBegun(sstate1')
        BY <1>2, <3>2, Peer1Waits
      <4> QED BY <1>3, <1>5, <2>7, <4>1 DEF P!ServerMoves
    <3> QED BY <1>8, <2>10, <3>1, <3>2 DEF C1!ChildHearsDamaged, p
  <2>11. CASE p # Damaged
    <3>1. CASE C1!IgnoreInBegin(p)
      BY <1>3, <2>7, <2>9, <3>1 DEF P!ServerMoves, C1!IgnoreInBegin
    <3>2. CASE C1!ServerHears(p)
      <4>1. P!ServerHears(p) /\ ~NotBegun(sstate1')
        BY <1>2, <2>2, <3>2, Peer1Hears
      <4>2. p.flag \in {"RR", "SREJ"} => p \in Underway
        BY <2>3 DEF TransferFlags
      <4> QED BY <1>3, <1>5, <2>7, <4>1, <4>2 DEF P!ServerMoves
    <3>3. C1!ChildHears(p) /\ ~C1!RecvInit(p)
      BY <1>8, <2>2, <2>11 DEF C1!RecvInit, p
    <3> QED BY <2>8, <3>1, <3>2, <3>3 DEF C1!ChildHears
  <2> QED BY <2>10, <2>11
<1>9. CASE Silence("child1", C1!ChildPatience) /\ C1!ChildTimesOut /\ Computes("child1")
  <2>1. Underway' = Underway
    BY <1>9, UnderwayKept DEF Computes
  <2>2. CASE C1!NoBegin
    <3>1. ~NotBegun(sstate1')
      BY <2>2, BegunIs DEF C1!NoBegin
    <3>2. P!Leaves
      BY <1>2, <2>2, <3>1 DEF Peer1Views, C1!NoBegin, P!Leaves
    <3> QED BY <1>3, <1>5, <2>1, <3>1, <3>2 DEF P!ServerMoves
  <2>3. CASE C1!ServerTimesOut
    <3>1. (P!ServerTimesOut \/ P!IgnoreOnAck(P!Damaged)) /\ ~NotBegun(sstate1')
      BY <1>2, <2>3, Peer1Waits
    <3> QED BY <1>3, <1>5, <2>1, <3>1 DEF P!ServerMoves
  <2> QED BY <1>9, <2>2, <2>3 DEF C1!ChildTimesOut
<1> QED BY <1>6, <1>7, <1>8, <1>9 DEF Child1Step

(* A child that is out of reach of file_transfer has no part in it.        *)
LEMMA Child1Elsewhere ==
  ASSUME SessionTypeOK, Child1Step, Untouched("child1")
  PROVE  /\ Underway' \subseteq Underway
         /\ Unstarted(swin1, fpos1, sseq1, eofwait1) => Unstarted(swin1, fpos1, sseq1, eofwait1)'
<1>1. /\ Child1TypeOK /\ queue \in Queues /\ "child1" \in Processes /\ "rcopy" \in Processes
      /\ fopens \in BOOLEAN
  BY TypeIs, ProcessesAre DEF EnvironmentTypeOK
<1>2. sstate1 \in {"NO_PROCESS", "S_FINISH"} \cup SetupStates /\ sstate1 \notin TransferStates
  BY DEF Untouched, SState, SetupStates, TransferStates
<1> DEFINE Same == UNCHANGED <<swin1, fpos1, sseq1, eofwait1>>
<1>3. Same => (Unstarted(swin1, fpos1, sseq1, eofwait1) => Unstarted(swin1, fpos1, sseq1, eofwait1)')
  BY DEF Unstarted, C1!NoWindow, C1!window_alloc
<1>4. CASE C1!ChildThinks(fopens) /\ Computes("child1")
  <2>1. C1!OpenFile(fopens)
    BY <1>2, <1>4 DEF C1!ChildThinks, C1!ServerThinks, C1!FillWindow, C1!RetryWindow,
       C1!AbandonWindow, C1!AdjustDone, C1!AdjustSlide, C1!AdjustStay, C1!CreateFileEof,
       C1!TimeoutOnAck, TransferStates
  <2>2. swin1' = C1!NoWindow /\ fpos1' = 0 /\ sseq1' = sseq1 /\ eofwait1' = eofwait1
    BY <2>1, NoWindowIs DEF C1!OpenFile
  <2>3. C1!NoWindow' = C1!NoWindow
    BY DEF C1!NoWindow, C1!window_alloc
  <2> QED BY <1>4, <2>2, <2>3, UnderwayKept DEF Computes, Unstarted
<1>5. CASE C1!ChildSends /\ Sends("child1", "rcopy", C1!Message)
  <2>1. C1!SendNameAck
    BY <1>2, <1>5 DEF C1!ChildSends, C1!ServerSends, C1!SendWindow, C1!SendFileEof, TransferStates
  <2>2. C1!Message \in Seq(AnyPacket)
    BY <1>1, <1>5, Child1Sends DEF Sent
  <2>3. Carries(Elements(C1!Message))
    BY <1>1, <1>5, <2>2, SentCarries DEF Sends
  <2>4. \A q \in Elements(C1!Message) : q.flag \notin TransferFlags
    <3>1. \/ C1!Message = <<Packet("FILE_NAME_ACK", sseq1, 0)>>
          \/ C1!Message = <<Packet("FILE_NAME_ERR_ACK", sseq1, 0)>>
      BY <2>1, Child1Operators DEF C1!SendNameAck, C1!Message
    <3> QED BY <3>1 DEF Elements, Packet, TransferFlags
  <2>5. Underway' \subseteq Underway
    BY <2>3, <2>4, NothingSent
  <2> QED BY <1>3, <2>1, <2>5 DEF C1!SendNameAck
<1>6. CASE /\ Waiting("child1")
           /\ IF Arrived("child1") = Damaged THEN C1!ChildHearsDamaged
              ELSE C1!ChildHears(Arrived("child1"))
           /\ Reads("child1", "rcopy", C1!Answer(Arrived("child1")))
  <2> DEFINE p == Arrived("child1")
  <2>1. p \in AnyPacket /\ p = queue["child1"][1].pkt /\ 1 \in 1 .. Len(queue["child1"])
    BY <1>1, <1>6, ConsumedIs DEF Arrived
  <2>2. p.flag # "FILE_BEGIN"
    BY <2>1, ProcessesAre DEF Untouched
  <2> HIDE DEF p
  <2>3. C1!Answer(p) \in Seq(AnyPacket)
    BY <1>1, <1>6, <2>1, Child1Hears DEF Heard, p
  <2>4. Carries(Elements(C1!Answer(p)))
    BY <1>1, <1>6, <2>3, SentCarries DEF Reads, p
  <2>5. \A q \in Elements(C1!Answer(p)) : q.flag \notin TransferFlags
    BY Child1Operators DEF C1!Answer, Elements, Packet, TransferFlags
  <2>6. Underway' \subseteq Underway
    BY <2>4, <2>5, NothingSent
  <2>7. Same
    <3>1. ASSUME NEW q, C1!ServerHears(q) \/ C1!ServerHearsDamaged PROVE FALSE
      BY <1>2, <3>1 DEF C1!ServerHears, C1!ServerHearsDamaged, C1!RecvRR, C1!RecvSREJ, C1!RecvOther,
         C1!HearsResponse, C1!RecvEofAck, C1!IgnoreOnAck, C1!NoResponse, TransferStates
    <3>2. \/ C1!IgnoreInBegin(p) \/ C1!IgnoreInBegin(C1!Damaged) \/ C1!RecvInit(p)
      BY <1>6, <2>2, <3>1 DEF p, C1!ChildHears, C1!ChildHearsDamaged, C1!RecvBegin, C1!BeginsTransfer
    <3> QED BY <3>2 DEF C1!IgnoreInBegin, C1!RecvInit, C1!svars
  <2> QED BY <1>3, <2>6, <2>7
<1>7. CASE Silence("child1", C1!ChildPatience) /\ C1!ChildTimesOut /\ Computes("child1")
  <2>1. C1!NoBegin
    BY <1>2, <1>7 DEF C1!ChildTimesOut, C1!ServerTimesOut, C1!NoResponse, C1!NoAck, TransferStates
  <2> QED BY <1>3, <1>7, <2>1, UnderwayKept DEF Computes, C1!NoBegin
<1> QED BY <1>4, <1>5, <1>6, <1>7 DEF Child1Step

(* The second child's steps of a transfer are the server's.                 *)
Peer2Views ==
  /\ peer = "child2" /\ peer' = "child2"
  /\ SState(peer) = sstate2 /\ SState(peer)' = sstate2'
  /\ PeerState = (IF NotBegun(sstate2) THEN "S_FILL_WINDOW" ELSE sstate2)
  /\ PeerState' = (IF NotBegun(sstate2') THEN "S_FILL_WINDOW" ELSE sstate2')
  /\ PeerWin = swin2 /\ PeerWin' = swin2' /\ PeerPos = fpos2 /\ PeerPos' = fpos2'
  /\ PeerSeq = sseq2 /\ PeerSeq' = sseq2' /\ PeerEofWait = eofwait2 /\ PeerEofWait' = eofwait2'

LEMMA Peer2Is ==
  ASSUME peer = "child2", peer' = peer
  PROVE  Peer2Views
BY DEF Peer2Views, SState, PeerState, PeerWin, PeerPos, PeerSeq, PeerEofWait, NotBegun, SetupStates

LEMMA Peer2Thinks ==
  ASSUME Peer2Views, C2!ServerThinks
  PROVE  P!ServerThinks /\ ~NotBegun(sstate2')
<1> USE BegunIs DEF Peer2Views, TransferStates
<1>1. CASE C2!FillWindow
  <2>1. C2!LastRead = LastReadOf(swin2, fpos2) /\ P!LastRead = LastReadOf(swin2, fpos2)
    BY Child2Operators, TransferOperators
       DEF C2!LastRead, C2!Empties, P!LastRead, P!Empties, LastReadOf
  <2>2. \A i : C2!FilledFrame(i) = FilledOf(swin2, fpos2, i) /\ P!FilledFrame(i) = FilledOf(swin2, fpos2, i)
    BY Child2Operators, TransferOperators
       DEF C2!FilledFrame, C2!Empties, C2!BlockFor, P!FilledFrame, P!Empties, P!BlockFor, FilledOf
  <2>3. P!FillWindow /\ sstate2' = "S_SEND_WINDOW"
    BY <1>1, <2>1, <2>2, Child2Operators, TransferOperators DEF C2!FillWindow, P!FillWindow
  <2> QED BY <2>3 DEF P!ServerThinks
<1>2. CASE C2!RetryWindow
  <2>1. P!RetryWindow /\ sstate2' = "S_SEND_WINDOW"
    BY <1>2, Child2Operators, TransferOperators DEF C2!RetryWindow, P!RetryWindow
  <2> QED BY <2>1 DEF P!ServerThinks
<1>3. CASE C2!AbandonWindow
  <2>1. P!AbandonWindow /\ sstate2' = "S_FINISH"
    BY <1>3 DEF C2!AbandonWindow, P!AbandonWindow
  <2> QED BY <2>1 DEF P!ServerThinks
<1>4. CASE C2!AdjustDone
  <2>1. P!AdjustDone /\ sstate2' = "S_FILE_EOF"
    BY <1>4 DEF C2!AdjustDone, P!AdjustDone, C2!AllAcked, P!AllAcked
  <2> QED BY <2>1 DEF P!ServerThinks
<1>5. CASE C2!AdjustSlide
  <2>1. P!AdjustSlide /\ sstate2' = "S_FILL_WINDOW"
    BY <1>5, Child2Operators, TransferOperators
       DEF C2!AdjustSlide, P!AdjustSlide, C2!AllAcked, P!AllAcked, C2!CanSlide, P!CanSlide
  <2> QED BY <2>1 DEF P!ServerThinks
<1>6. CASE C2!AdjustStay
  <2>1. P!AdjustStay /\ sstate2' = "S_SEND_WINDOW"
    BY <1>6 DEF C2!AdjustStay, P!AdjustStay, C2!AllAcked, P!AllAcked, C2!CanSlide, P!CanSlide
  <2> QED BY <2>1 DEF P!ServerThinks
<1>7. CASE C2!CreateFileEof
  <2>1. P!CreateFileEof /\ sstate2' = "S_SEND"
    BY <1>7 DEF C2!CreateFileEof, P!CreateFileEof
  <2> QED BY <2>1 DEF P!ServerThinks
<1>8. CASE C2!TimeoutOnAck
  <2>1. P!TimeoutOnAck /\ sstate2' \in {"S_FINISH", "S_SEND"}
    BY <1>8 DEF C2!TimeoutOnAck, P!TimeoutOnAck
  <2> QED BY <2>1 DEF P!ServerThinks
<1> QED BY <1>1, <1>2, <1>3, <1>4, <1>5, <1>6, <1>7, <1>8 DEF C2!ServerThinks

LEMMA Peer2Sends ==
  ASSUME Peer2Views, Child2TypeOK, C2!ServerSends
  PROVE  /\ P!ServerSends /\ ~NotBegun(sstate2')
         /\ Elements(C2!Message) \subseteq P!Outgoing
<1> USE BegunIs DEF Peer2Views, TransferStates
<1>1. CASE C2!SendWindow
  <2> DEFINE fulls == SeqsIn(swin2, "FRAME_FULL")
  <2>1. C2!Fulls = fulls /\ P!Fulls = fulls
    BY Child2Operators, TransferOperators DEF C2!Fulls, P!Fulls
  <2>2. P!SendWindow /\ sstate2' = "S_WAIT_ON_RESPONSE" /\ sstate2 = "S_SEND_WINDOW"
    BY <1>1, <2>1, Child2Operators, TransferOperators DEF C2!SendWindow, P!SendWindow
  <2>3. C2!Message = BurstOf(swin2)
    BY <2>2, Child2Operators DEF C2!Message, C2!Burst, C2!Fulls, C2!FullSeqs, BurstOf
  <2>4. fulls \in SUBSET Nat /\ IsFiniteSet(fulls)
    BY SeqsInType DEF Child2TypeOK, ChildTypeOK
  <2>5. /\ Cardinality(fulls) \in Nat /\ Ascending(fulls) \in [1 .. Cardinality(fulls) -> fulls]
    BY <2>4, AscendingIs, FS_CardinalityType
  <2>6. P!Outgoing = {swin2.Frame[get_frame_num(seq)].pkt : seq \in fulls}
    BY <2>1, <2>2, TransferOperators DEF P!Outgoing
  <2> HIDE DEF fulls
  <2>7. /\ Len(BurstOf(swin2)) = Cardinality(fulls)
        /\ \A i \in 1 .. Cardinality(fulls) :
             BurstOf(swin2)[i] = swin2.Frame[get_frame_num(Ascending(fulls)[i])].pkt
    BY <2>5 DEF BurstOf, fulls
  <2>8. Elements(C2!Message) \subseteq P!Outgoing
    <3>1. \A i \in 1 .. Cardinality(fulls) : BurstOf(swin2)[i] \in P!Outgoing
      BY <2>5, <2>6, <2>7
    <3> QED BY <2>3, <2>7, <3>1 DEF Elements
  <2> QED BY <2>2, <2>8 DEF P!ServerSends
<1>2. CASE C2!SendFileEof
  <2>1. P!SendFileEof /\ sstate2' = "S_WAIT_ON_ACK" /\ sstate2 = "S_SEND"
    BY <1>2 DEF C2!SendFileEof, P!SendFileEof
  <2>2. C2!Message = <<Packet("FILE_EOF", sseq2, 0)>>
    BY <2>1, Child2Operators DEF C2!Message, C2!Burst
  <2>3. P!Outgoing = {Packet("FILE_EOF", sseq2, 0)}
    BY <2>1, TransferOperators DEF P!Outgoing
  <2> QED BY <2>1, <2>2, <2>3 DEF P!ServerSends, Elements
<1> QED BY <1>1, <1>2 DEF C2!ServerSends

LEMMA Peer2Hears ==
  ASSUME Peer2Views, NEW p, C2!ServerHears(p), p.flag # "FILE_NAME"
  PROVE  P!ServerHears(p) /\ ~NotBegun(sstate2')
<1> USE BegunIs DEF Peer2Views, TransferStates
<1>1. CASE C2!RecvRR(p)
  <2>1. P!RecvRR(p) /\ sstate2' = "S_ADJUST_WINDOW"
    BY <1>1 DEF C2!RecvRR, P!RecvRR, C2!HearsResponse, P!HearsResponse
  <2> QED BY <2>1 DEF P!ServerHears
<1>2. CASE C2!RecvSREJ(p)
  <2>1. P!RecvSREJ(p) /\ sstate2' = "S_ADJUST_WINDOW"
    BY <1>2 DEF C2!RecvSREJ, P!RecvSREJ, C2!HearsResponse, P!HearsResponse
  <2> QED BY <2>1 DEF P!ServerHears
<1>3. CASE C2!RecvOther(p)
  <2>1. P!RecvOther(p) /\ sstate2' = "S_FINISH"
    BY <1>3 DEF C2!RecvOther, P!RecvOther, C2!HearsResponse, P!HearsResponse
  <2> QED BY <2>1 DEF P!ServerHears
<1>4. CASE C2!RecvEofAck(p)
  <2>1. P!RecvEofAck(p) /\ sstate2' = "S_FINISH"
    BY <1>4 DEF C2!RecvEofAck, P!RecvEofAck
  <2> QED BY <2>1 DEF P!ServerHears
<1>5. CASE C2!IgnoreOnAck(p)
  <2>1. P!IgnoreOnAck(p) /\ sstate2' = "S_WAIT_ON_ACK"
    BY <1>5 DEF C2!IgnoreOnAck, P!IgnoreOnAck, C2!svars, P!svars
  <2> QED BY <2>1 DEF P!ServerHears
<1> QED BY <1>1, <1>2, <1>3, <1>4, <1>5 DEF C2!ServerHears

LEMMA Peer2Waits ==
  ASSUME Peer2Views, C2!ServerTimesOut \/ C2!ServerHearsDamaged
  PROVE  (P!ServerTimesOut \/ P!IgnoreOnAck(P!Damaged)) /\ ~NotBegun(sstate2')
<1> USE BegunIs DEF Peer2Views, TransferStates
<1>1. CASE C2!NoResponse
  <2>1. P!NoResponse /\ sstate2' = "S_TIMEOUT_ON_RESPONSE"
    BY <1>1 DEF C2!NoResponse, P!NoResponse
  <2> QED BY <2>1 DEF P!ServerTimesOut
<1>2. CASE C2!NoAck
  <2>1. P!NoAck /\ sstate2' = "S_TIMEOUT_ON_ACK"
    BY <1>2 DEF C2!NoAck, P!NoAck
  <2> QED BY <2>1 DEF P!ServerTimesOut
<1>3. CASE C2!IgnoreOnAck(C2!Damaged)
  <2>1. P!IgnoreOnAck(P!Damaged) /\ sstate2' = "S_WAIT_ON_ACK"
    BY <1>3, Child2Operators, TransferOperators DEF C2!IgnoreOnAck, P!IgnoreOnAck, C2!svars, P!svars
  <2> QED BY <2>1
<1> QED BY <1>1, <1>2, <1>3 DEF C2!ServerTimesOut, C2!ServerHearsDamaged

(* Whatever the second child does when it is rcopy's peer is a move of the  *)
(* server.                                                                 *)
LEMMA Peer2Moves ==
  ASSUME SessionTypeOK, Child2Step, peer = "child2", PeerFit, NoNameAsked
  PROVE  P!ServerMoves /\ UNCHANGED P!rvars /\ PeerFit'
<1>1. /\ Child2TypeOK /\ queue \in Queues /\ UNCHANGED client /\ peer' = peer
      /\ "child2" \in Processes /\ "rcopy" \in Processes
  BY TypeIs, ProcessesAre DEF Child2Step, client
<1>2. Peer2Views
  BY <1>1, Peer2Is
<1>3. UNCHANGED P!rvars
  BY <1>1, ClientKept
<1>4. /\ sstate2 \notin SetupStates \ {"S_FILE_BEGIN"}
      /\ sstate2 = "S_FILE_BEGIN" => fpos2 = 0 /\ sseq2 = 0
  BY <1>2, BegunIs, ProcessesAre DEF PeerFit, Asking, Peer2Views, SetupStates
<1>5. ~NotBegun(sstate2') => PeerFit'
  BY <1>2, BegunIs DEF PeerFit, Asking, Peer2Views
<1>6. CASE C2!ChildThinks(fopens) /\ Computes("child2")
  <2>1. C2!ServerThinks
    BY <1>4, <1>6 DEF C2!ChildThinks, C2!OpenFile, SetupStates
  <2>2. P!ServerThinks /\ ~NotBegun(sstate2')
    BY <1>2, <2>1, Peer2Thinks
  <2>3. Underway' = Underway
    BY <1>6, UnderwayKept DEF Computes
  <2> QED BY <1>3, <1>5, <2>2, <2>3 DEF P!ServerMoves
<1>7. CASE C2!ChildSends /\ Sends("child2", "rcopy", C2!Message)
  <2>1. C2!ServerSends
    BY <1>4, <1>7 DEF C2!ChildSends, C2!SendNameAck, SetupStates
  <2>2. P!ServerSends /\ ~NotBegun(sstate2') /\ Elements(C2!Message) \subseteq P!Outgoing
    BY <1>1, <1>2, <2>1, Peer2Sends
  <2>3. C2!Message \in Seq(AnyPacket)
    BY <1>1, <1>7, Child2Sends DEF Sent
  <2>4. Carries(Elements(C2!Message))
    BY <1>1, <1>7, <2>3, SentCarries DEF Sends
  <2>5. Underway' \subseteq Underway \cup P!Outgoing
    BY <2>2, <2>4, UnderwayIs
  <2> QED BY <1>3, <1>5, <2>2, <2>5 DEF P!ServerMoves
<1>8. CASE /\ Waiting("child2")
           /\ IF Arrived("child2") = Damaged THEN C2!ChildHearsDamaged
              ELSE C2!ChildHears(Arrived("child2"))
           /\ Reads("child2", "rcopy", C2!Answer(Arrived("child2")))
  <2> DEFINE p == Arrived("child2")
  <2>1. p \in AnyPacket /\ p = queue["child2"][1].pkt /\ 1 \in 1 .. Len(queue["child2"])
    BY <1>1, <1>8, ConsumedIs DEF Arrived
  <2>2. p.flag # "FILE_NAME"
    BY <2>1 DEF NoNameAsked
  <2>3. p.flag \in TransferFlags => p \in Underway
    BY <1>1, <2>1 DEF Underway, InQueues
  <2> HIDE DEF p
  <2>4. C2!Answer(p) \in Seq(AnyPacket)
    BY <1>1, <1>8, <2>1, Child2Hears DEF Heard, p
  <2>5. Carries(Elements(C2!Answer(p)))
    BY <1>1, <1>8, <2>4, SentCarries DEF Reads, p
  <2>6. \A q \in Elements(C2!Answer(p)) : q.flag \notin TransferFlags
    BY Child2Operators DEF C2!Answer, Elements, Packet, TransferFlags
  <2>7. Underway' \subseteq Underway
    BY <2>5, <2>6, NothingSent
  <2>8. CASE C2!RecvBegin(p)
    <3>1. PICK num_wait \in MallocWait, top_sent \in MallocTop :
            swin2' = [window_alloc(sseq2, Packet("DATA", 0, 0), num_wait, top_sent) EXCEPT !.rr = 0]
      BY <2>8, Child2Operators DEF C2!RecvBegin
    <3>2. sseq2 = 0 /\ fpos2 = 0 /\ num_wait \in Nat /\ top_sent \in Nat
      BY <1>4, <2>8, Parameters DEF C2!RecvBegin, C2!BeginsTransfer
    <3>3. \A rr \in {0, 1} : P!FreshWindow([P!window_alloc(0, P!Packet("DATA", 0, 0), num_wait, top_sent)
                                            EXCEPT !.rr = rr])
      BY <3>2, TransferParameters, P!AllocFresh
    <3>4. P!FreshWindow(swin2')
      BY <3>1, <3>2, <3>3, TransferOperators
    <3>5. ~NotBegun(sstate2')
      BY <2>8, BegunIs DEF C2!RecvBegin, TransferStates
    <3>6. P!Starts
      BY <1>2, <2>8, <3>2, <3>4, <3>5 DEF Peer2Views, P!Starts, C2!RecvBegin, P!FreshWindow
    <3> QED BY <1>3, <1>5, <2>7, <3>5, <3>6 DEF P!ServerMoves
  <2>9. ASSUME UNCHANGED C2!svars PROVE UNCHANGED P!svars /\ PeerFit'
    BY <1>2, <2>9 DEF Peer2Views, C2!svars, P!svars, PeerFit, Asking
  <2>10. CASE p = Damaged
    <3>1. CASE C2!IgnoreInBegin(C2!Damaged)
      BY <1>3, <2>7, <2>9, <3>1 DEF P!ServerMoves, C2!IgnoreInBegin
    <3>2. CASE C2!ServerHearsDamaged
      <4>1. (P!ServerTimesOut \/ P!IgnoreOnAck(P!Damaged)) /\ ~NotBegun(sstate2')
        BY <1>2, <3>2, Peer2Waits
      <4> QED BY <1>3, <1>5, <2>7, <4>1 DEF P!ServerMoves
    <3> QED BY <1>8, <2>10, <3>1, <3>2 DEF C2!ChildHearsDamaged, p
  <2>11. CASE p # Damaged
    <3>1. CASE C2!IgnoreInBegin(p)
      BY <1>3, <2>7, <2>9, <3>1 DEF P!ServerMoves, C2!IgnoreInBegin
    <3>2. CASE C2!ServerHears(p)
      <4>1. P!ServerHears(p) /\ ~NotBegun(sstate2')
        BY <1>2, <2>2, <3>2, Peer2Hears
      <4>2. p.flag \in {"RR", "SREJ"} => p \in Underway
        BY <2>3 DEF TransferFlags
      <4> QED BY <1>3, <1>5, <2>7, <4>1, <4>2 DEF P!ServerMoves
    <3>3. C2!ChildHears(p) /\ ~C2!RecvInit(p)
      BY <1>8, <2>2, <2>11 DEF C2!RecvInit, p
    <3> QED BY <2>8, <3>1, <3>2, <3>3 DEF C2!ChildHears
  <2> QED BY <2>10, <2>11
<1>9. CASE Silence("child2", C2!ChildPatience) /\ C2!ChildTimesOut /\ Computes("child2")
  <2>1. Underway' = Underway
    BY <1>9, UnderwayKept DEF Computes
  <2>2. CASE C2!NoBegin
    <3>1. ~NotBegun(sstate2')
      BY <2>2, BegunIs DEF C2!NoBegin
    <3>2. P!Leaves
      BY <1>2, <2>2, <3>1 DEF Peer2Views, C2!NoBegin, P!Leaves
    <3> QED BY <1>3, <1>5, <2>1, <3>1, <3>2 DEF P!ServerMoves
  <2>3. CASE C2!ServerTimesOut
    <3>1. (P!ServerTimesOut \/ P!IgnoreOnAck(P!Damaged)) /\ ~NotBegun(sstate2')
      BY <1>2, <2>3, Peer2Waits
    <3> QED BY <1>3, <1>5, <2>1, <3>1 DEF P!ServerMoves
  <2> QED BY <1>9, <2>2, <2>3 DEF C2!ChildTimesOut
<1> QED BY <1>6, <1>7, <1>8, <1>9 DEF Child2Step

(* A child that is out of reach of file_transfer has no part in it.        *)
LEMMA Child2Elsewhere ==
  ASSUME SessionTypeOK, Child2Step, Untouched("child2")
  PROVE  /\ Underway' \subseteq Underway
         /\ Unstarted(swin2, fpos2, sseq2, eofwait2) => Unstarted(swin2, fpos2, sseq2, eofwait2)'
<1>1. /\ Child2TypeOK /\ queue \in Queues /\ "child2" \in Processes /\ "rcopy" \in Processes
      /\ fopens \in BOOLEAN
  BY TypeIs, ProcessesAre DEF EnvironmentTypeOK
<1>2. sstate2 \in {"NO_PROCESS", "S_FINISH"} \cup SetupStates /\ sstate2 \notin TransferStates
  BY DEF Untouched, SState, SetupStates, TransferStates
<1> DEFINE Same == UNCHANGED <<swin2, fpos2, sseq2, eofwait2>>
<1>3. Same => (Unstarted(swin2, fpos2, sseq2, eofwait2) => Unstarted(swin2, fpos2, sseq2, eofwait2)')
  BY DEF Unstarted, C1!NoWindow, C1!window_alloc
<1>4. CASE C2!ChildThinks(fopens) /\ Computes("child2")
  <2>1. C2!OpenFile(fopens)
    BY <1>2, <1>4 DEF C2!ChildThinks, C2!ServerThinks, C2!FillWindow, C2!RetryWindow,
       C2!AbandonWindow, C2!AdjustDone, C2!AdjustSlide, C2!AdjustStay, C2!CreateFileEof,
       C2!TimeoutOnAck, TransferStates
  <2>2. swin2' = C1!NoWindow /\ fpos2' = 0 /\ sseq2' = sseq2 /\ eofwait2' = eofwait2
    BY <2>1, NoWindowIs DEF C2!OpenFile
  <2>3. C1!NoWindow' = C1!NoWindow
    BY DEF C1!NoWindow, C1!window_alloc
  <2> QED BY <1>4, <2>2, <2>3, UnderwayKept DEF Computes, Unstarted
<1>5. CASE C2!ChildSends /\ Sends("child2", "rcopy", C2!Message)
  <2>1. C2!SendNameAck
    BY <1>2, <1>5 DEF C2!ChildSends, C2!ServerSends, C2!SendWindow, C2!SendFileEof, TransferStates
  <2>2. C2!Message \in Seq(AnyPacket)
    BY <1>1, <1>5, Child2Sends DEF Sent
  <2>3. Carries(Elements(C2!Message))
    BY <1>1, <1>5, <2>2, SentCarries DEF Sends
  <2>4. \A q \in Elements(C2!Message) : q.flag \notin TransferFlags
    <3>1. \/ C2!Message = <<Packet("FILE_NAME_ACK", sseq2, 0)>>
          \/ C2!Message = <<Packet("FILE_NAME_ERR_ACK", sseq2, 0)>>
      BY <2>1, Child2Operators DEF C2!SendNameAck, C2!Message
    <3> QED BY <3>1 DEF Elements, Packet, TransferFlags
  <2>5. Underway' \subseteq Underway
    BY <2>3, <2>4, NothingSent
  <2> QED BY <1>3, <2>1, <2>5 DEF C2!SendNameAck
<1>6. CASE /\ Waiting("child2")
           /\ IF Arrived("child2") = Damaged THEN C2!ChildHearsDamaged
              ELSE C2!ChildHears(Arrived("child2"))
           /\ Reads("child2", "rcopy", C2!Answer(Arrived("child2")))
  <2> DEFINE p == Arrived("child2")
  <2>1. p \in AnyPacket /\ p = queue["child2"][1].pkt /\ 1 \in 1 .. Len(queue["child2"])
    BY <1>1, <1>6, ConsumedIs DEF Arrived
  <2>2. p.flag # "FILE_BEGIN"
    BY <2>1, ProcessesAre DEF Untouched
  <2> HIDE DEF p
  <2>3. C2!Answer(p) \in Seq(AnyPacket)
    BY <1>1, <1>6, <2>1, Child2Hears DEF Heard, p
  <2>4. Carries(Elements(C2!Answer(p)))
    BY <1>1, <1>6, <2>3, SentCarries DEF Reads, p
  <2>5. \A q \in Elements(C2!Answer(p)) : q.flag \notin TransferFlags
    BY Child2Operators DEF C2!Answer, Elements, Packet, TransferFlags
  <2>6. Underway' \subseteq Underway
    BY <2>4, <2>5, NothingSent
  <2>7. Same
    <3>1. ASSUME NEW q, C2!ServerHears(q) \/ C2!ServerHearsDamaged PROVE FALSE
      BY <1>2, <3>1 DEF C2!ServerHears, C2!ServerHearsDamaged, C2!RecvRR, C2!RecvSREJ, C2!RecvOther,
         C2!HearsResponse, C2!RecvEofAck, C2!IgnoreOnAck, C2!NoResponse, TransferStates
    <3>2. \/ C2!IgnoreInBegin(p) \/ C2!IgnoreInBegin(C2!Damaged) \/ C2!RecvInit(p)
      BY <1>6, <2>2, <3>1 DEF p, C2!ChildHears, C2!ChildHearsDamaged, C2!RecvBegin, C2!BeginsTransfer
    <3> QED BY <3>2 DEF C2!IgnoreInBegin, C2!RecvInit, C2!svars
  <2> QED BY <1>3, <2>6, <2>7
<1>7. CASE Silence("child2", C2!ChildPatience) /\ C2!ChildTimesOut /\ Computes("child2")
  <2>1. C2!NoBegin
    BY <1>2, <1>7 DEF C2!ChildTimesOut, C2!ServerTimesOut, C2!NoResponse, C2!NoAck, TransferStates
  <2> QED BY <1>3, <1>7, <2>1, UnderwayKept DEF Computes, C2!NoBegin
<1> QED BY <1>4, <1>5, <1>6, <1>7 DEF Child2Step

-----------------------------------------------------------------------------
(* rcopy as the other end of the transfer.                                 *)
LEMMA ClientStates ==
  /\ rstate \in RcopyStates => ClientState = rstate
  /\ rstate' \in RcopyStates => ClientState' = rstate'
BY DEF ClientState, SettingUp, RcopyStates

LEMMA ClientThinksMoves ==
  ASSUME RcopyThinks
  PROVE  P!RcopyThinks
<1>1. CASE WriteData
  <2>1. P!Writable = Writable
    BY TransferOperators DEF P!Writable, Writable
  <2>2. [i \in 1 .. P!Cardinality(P!Writable) |->
           P!Piece(CHOOSE seq \in P!Writable : P!Rank(P!Writable, seq) = i)]
        = [i \in 1 .. Cardinality(Writable) |->
             Piece(CHOOSE seq \in Writable : Rank(Writable, seq) = i)]
    BY DEF P!Cardinality, Cardinality, P!Rank, Rank, P!Piece, Piece, P!Writable, Writable, P!SeqsIn,
       SeqsIn, P!WindowSeqs, WindowSeqs, P!get_frame_num, get_frame_num, P!Acked, Acked
  <2>3. P!WriteData
    <3> DEFINE more == [i \in 1 .. Cardinality(Writable) |->
                          Piece(CHOOSE seq \in Writable : Rank(Writable, seq) = i)]
    <3>1. /\ rstate = "S_WRITE_DATA" /\ rstate' = "S_ADJUST_WINDOW" /\ out' = out \o more
          /\ rwin' = SetFrames(rwin, Writable, "FRAME_WRITTEN") /\ UNCHANGED <<rbuf, rseq>>
      BY <1>1 DEF WriteData
    <3> HIDE DEF more
    <3>2. rwin' = P!SetFrames(rwin, P!Writable, "FRAME_WRITTEN")
      BY <2>1, <3>1, TransferOperators
    <3>3. ClientState = "S_WRITE_DATA" /\ ClientState' = "S_ADJUST_WINDOW"
      BY <3>1, ClientStates DEF RcopyStates
    <3> QED BY <2>2, <3>1, <3>2, <3>3 DEF P!WriteData, more
  <2> QED BY <2>3 DEF P!RcopyThinks
<1>2. CASE AdjustWindow
  <2>1. P!AdjustWindow
    BY <1>2, TransferOperators, ClientStates DEF AdjustWindow, P!AdjustWindow, RcopyStates
  <2> QED BY <2>1 DEF P!RcopyThinks
<1>3. CASE TimeoutOnData
  <2>1. P!TimeoutOnData
    BY <1>3, ClientStates DEF TimeoutOnData, P!TimeoutOnData, RcopyStates
  <2> QED BY <2>1 DEF P!RcopyThinks
<1> QED BY <1>1, <1>2, <1>3 DEF RcopyThinks

LEMMA ClientSendsMoves ==
  ASSUME RcopySends
  PROVE  P!RcopySends /\ Request = P!Reply
<1>1. rstate \in {"S_SEND_RR", "S_SEND_SREJ", "S_FILE_EOF"} /\ ClientState = rstate
  BY ClientStates DEF RcopySends, SendRR, SendSREJ, SendEofAck, RcopyStates
<1>2. Request = P!Reply
  <2>1. Request = Reply
    BY <1>1 DEF Request
  <2> QED BY <1>1, <2>1, TransferOperators DEF Reply, P!Reply
<1>3. CASE SendRR
  BY <1>2, <1>3, ClientStates DEF SendRR, P!SendRR, P!RcopySends, RcopyStates
<1>4. CASE SendSREJ
  BY <1>2, <1>4, ClientStates DEF SendSREJ, P!SendSREJ, P!RcopySends, RcopyStates
<1>5. CASE SendEofAck
  BY <1>2, <1>5, ClientStates DEF SendEofAck, P!SendEofAck, P!RcopySends, RcopyStates
<1> QED BY <1>3, <1>4, <1>5 DEF RcopySends

LEMMA ClientHearsMoves ==
  ASSUME NEW p, RcopyHears(p)
  PROVE  P!RcopyHears(p)
<1>1. P!Received(p) = Received(p)
  BY DEF P!Received, Received
<1>2. P!FillFrame(rwin, p) = FillFrame(rwin, p)
  BY TransferOperators DEF P!FillFrame, FillFrame
<1>3. P!FreshData(p) <=> FreshData(p)
  BY TransferOperators DEF P!FreshData, FreshData
<1>4. HearsData(p) => P!HearsData(p)
  BY ClientStates DEF HearsData, P!HearsData, RcopyStates
<1>5. CASE RecvEof(p)
  <2>1. P!RecvEof(p)
    BY <1>4, <1>5, ClientStates DEF RecvEof, P!RecvEof, RcopyStates
  <2> QED BY <2>1 DEF P!RcopyHears
<1>6. CASE RecvOld(p)
  <2>1. P!RecvOld(p)
    BY <1>1, <1>4, <1>6, ClientStates DEF RecvOld, P!RecvOld, RcopyStates
  <2> QED BY <2>1 DEF P!RcopyHears
<1>7. CASE RecvNext(p)
  <2>1. P!RecvNext(p)
    BY <1>1, <1>2, <1>3, <1>4, <1>7, ClientStates DEF RecvNext, P!RecvNext, RcopyStates
  <2> QED BY <2>1 DEF P!RcopyHears
<1>8. CASE RecvAhead(p)
  <2>1. P!RecvAhead(p)
    BY <1>1, <1>2, <1>3, <1>4, <1>8, ClientStates DEF RecvAhead, P!RecvAhead, RcopyStates
  <2> QED BY <2>1 DEF P!RcopyHears
<1>9. CASE IgnoreOnData(p)
  <2>1. P!IgnoreOnData(p)
    BY <1>1, <1>4, <1>9, ClientStates, TransferOperators
       DEF IgnoreOnData, P!IgnoreOnData, HearsData, RcopyStates
  <2> QED BY <2>1 DEF P!RcopyHears
<1> QED BY <1>5, <1>6, <1>7, <1>8, <1>9 DEF RcopyHears

LEMMA ClientWaitsMoves ==
  /\ NoData => P!NoData
  /\ RecvCorrupt => P!RecvCorrupt
BY ClientStates DEF NoData, P!NoData, RecvCorrupt, P!RecvCorrupt, RcopyStates

(* Two states of the children and of rcopy's choice that are the same.     *)
LEMMA PeerKept ==
  ASSUME UNCHANGED <<child1, child2>>, peer' = peer
  PROVE  UNCHANGED P!svars /\ (PeerFit => PeerFit')
BY DEF child1, child2, P!svars, PeerState, PeerWin, PeerPos, PeerSeq, PeerEofWait, PeerFit, Asking,
       SState, NotBegun

(* Nothing but a FILE_NAME_ACK's addressee asks for a file.                *)
LEMMA NoNameKept ==
  ASSUME NoNameAsked, peer \in Processes, peer' = peer, NEW new, Carries(new),
         \A p \in new : p.flag # "FILE_NAME"
  PROVE  NoNameAsked'
<1>1. Damaged.flag # "FILE_NAME"
  BY DEF Damaged, Packet
<1> QED BY <1>1 DEF NoNameAsked, Carries

(* What rcopy does beyond its FILE_NAME is a move of its end, none of the  *)
(* transfer's business, or its departure before the transfer.              *)
LEMMA ClientMoves ==
  ASSUME SessionTypeOK, RcopyStep, rstate \notin NameStates, peer \in Children, peer' = peer,
         SettingUp => ClientUnstarted, NoNameAsked
  PROVE  /\ UNCHANGED P!svars /\ NoNameAsked' /\ (SettingUp' => SettingUp /\ ClientUnstarted')
         /\ \/ P!RcopyMoves
            \/ RcopyLeft' /\ rseq = 0 /\ rseq' = 0 /\ out' = out
<1>1. /\ queue \in Queues /\ UNCHANGED <<child1, child2>> /\ peer \in Processes /\ "rcopy" \in Processes
      /\ peer # "rcopy"
  BY RcopyStepIs, TypeIs, ProcessesAre
<1>2. UNCHANGED P!svars
  BY <1>1, PeerKept
<1> DEFINE Kept == UNCHANGED <<rwin, rbuf, rseq, out>>
<1>3. ASSUME SettingUp, SettingUp', Kept PROVE UNCHANGED P!rvars /\ ClientUnstarted'
  BY <1>3 DEF P!rvars, ClientState, ClientUnstarted, window_alloc, Slots
<1>4. ASSUME queue' = queue PROVE Underway' \subseteq Underway /\ NoNameAsked'
  BY <1>4, UnderwayKept DEF NoNameAsked
<1>5. CASE ClientThinks /\ Computes("rcopy") /\ UNCHANGED peer
  <2>1. Underway' \subseteq Underway /\ NoNameAsked'
    BY <1>4, <1>5 DEF Computes
  <2>2. CASE OpenLocalFile
    <3>1. SettingUp /\ Kept /\ (SettingUp' \/ RcopyLeft') /\ (RcopyLeft' => ~SettingUp') /\ rseq = 0
      BY <2>2 DEF OpenLocalFile, SettingUp, ClientUnstarted, RcopyLeft
    <3> QED BY <1>2, <1>3, <2>1, <3>1 DEF P!RcopyMoves
  <2>3. CASE AbandonBegin
    <3>1. SettingUp /\ Kept /\ RcopyLeft' /\ ~SettingUp' /\ rseq = 0
      BY <2>3 DEF AbandonBegin, SettingUp, ClientUnstarted, RcopyLeft
    <3> QED BY <1>2, <2>1, <3>1
  <2>4. CASE RcopyThinks
    <3>1. ~SettingUp'
      BY <2>4 DEF RcopyThinks, WriteData, AdjustWindow, TimeoutOnData, SettingUp
    <3> QED BY <1>2, <2>1, <2>4, <3>1, ClientThinksMoves DEF P!RcopyMoves
  <2> QED BY <1>5, <2>2, <2>3, <2>4 DEF ClientThinks, TimeoutOnNameAck, NameStates
<1>6. CASE ClientSends /\ Sends("rcopy", peer, <<Request>>) /\ UNCHANGED peer
  <2>1. Request \in AnyPacket
    BY <1>6, ClientSendsIs DEF SessionTypeOK
  <2> DEFINE pkts == <<Request>>
  <2>2. pkts \in Seq(AnyPacket) /\ Elements(pkts) = {Request}
    BY <2>1 DEF Elements
  <2>3. queue' = Posted(queue, "rcopy", peer, pkts)
    BY <1>6 DEF Sends
  <2> HIDE DEF pkts
  <2>4. Carries({Request})
    BY <1>1, <2>2, <2>3, SentCarries
  <2>5. Request.flag # "FILE_NAME"
    BY <1>6 DEF ClientSends, SendInitPkt, SendBegin, RcopySends, SendRR, SendSREJ, SendEofAck,
       NameStates, Request, Reply, Packet
  <2>6. NoNameAsked'
    BY <1>1, <2>4, <2>5, NoNameKept
  <2>7. CASE SendBegin
    <3>1. Request.flag \notin TransferFlags
      BY <2>7 DEF SendBegin, Request, Packet, TransferFlags
    <3>2. Underway' \subseteq Underway
      BY <2>4, <3>1, NothingSent
    <3>3. SettingUp /\ SettingUp' /\ Kept
      BY <2>7 DEF SendBegin, SettingUp
    <3> QED BY <1>2, <1>3, <2>6, <3>2, <3>3 DEF P!RcopyMoves
  <2>8. CASE RcopySends
    <3>1. Underway' \subseteq Underway \cup {P!Reply} /\ P!RcopySends
      BY <2>4, <2>8, UnderwayIs, ClientSendsMoves
    <3>2. ~SettingUp'
      BY <2>8 DEF RcopySends, SendRR, SendSREJ, SendEofAck, SettingUp
    <3> QED BY <1>2, <2>6, <3>1, <3>2 DEF P!RcopyMoves
  <2> QED BY <1>6, <2>7, <2>8 DEF ClientSends, SendInitPkt, NameStates
<1>7. CASE RcopyReads
  <2> DEFINE p == Arrived("rcopy")
  <2> DEFINE none == <<>>
  <2>0. none \in Seq(AnyPacket) /\ Len(none) = 0
    OBVIOUS
  <2>1. Waiting("rcopy") /\ queue' = Posted(Consumed("rcopy"), "rcopy", peer, none)
    BY <1>7 DEF RcopyReads, Reads
  <2>2. p = queue["rcopy"][1].pkt /\ 1 \in 1 .. Len(queue["rcopy"])
    BY <1>1, <2>1, ConsumedIs DEF Arrived
  <2> HIDE DEF none
  <2>3. Carries({})
    <3>1. Elements(none) = {}
      BY <2>0 DEF Elements
    <3> QED BY <1>1, <2>0, <2>1, <3>1, SentCarries
  <2>4. Underway' \subseteq Underway /\ NoNameAsked'
    BY <1>1, <2>3, NothingSent, NoNameKept
  <2>5. p.flag \in TransferFlags => p \in Underway
    BY <1>1, <2>2 DEF Underway, InQueues
  <2> HIDE DEF p
  <2>6. ASSUME NEW q, RecvBeginAck(q) \/ RecvNoBeginAck(q)
        PROVE  UNCHANGED P!rvars /\ (SettingUp' => SettingUp /\ ClientUnstarted')
    <3>1. SettingUp /\ Kept /\ rstate' \in {"S_WAIT_ON_DATA", "S_FILE_BEGIN"}
      BY <2>6 DEF RecvBeginAck, RecvNoBeginAck, SettingUp
    <3>2. ClientState = "S_WAIT_ON_DATA" /\ ClientState' = "S_WAIT_ON_DATA"
      BY <3>1 DEF ClientState, SettingUp
    <3> QED BY <1>3, <3>1, <3>2 DEF P!rvars
  <2>7. CASE \E q : RecvBeginAck(q) \/ RecvNoBeginAck(q)
    BY <1>2, <2>4, <2>6, <2>7 DEF P!RcopyMoves
  <2>8. CASE RcopyHears(p)
    <3>1. P!RcopyHears(p) /\ (p.flag \in {"DATA", "FILE_EOF"} => p \in Underway)
      BY <2>5, <2>8, ClientHearsMoves DEF TransferFlags
    <3>2. ~SettingUp'
      BY <2>8 DEF RcopyHears, RecvEof, RecvOld, RecvNext, RecvAhead, IgnoreOnData, HearsData, SettingUp
    <3> QED BY <1>2, <2>4, <3>1, <3>2 DEF P!RcopyMoves
  <2>9. CASE RecvCorrupt
    <3>1. ~SettingUp'
      BY <2>9 DEF RecvCorrupt, SettingUp
    <3> QED BY <1>2, <2>4, <2>9, <3>1, ClientWaitsMoves DEF P!RcopyMoves
  <2>10. \A q : ~RecvNameAck(q) /\ ~IgnoreOnNameAck(q)
    BY DEF RecvNameAck, IgnoreOnNameAck, NameStates
  <2> QED BY <1>7, <2>7, <2>8, <2>9, <2>10 DEF RcopyReads, ClientHears, ClientHearsDamaged, p
<1>8. CASE Silence("rcopy", ClientPatience) /\ ClientTimesOut /\ Computes("rcopy") /\ UNCHANGED peer
  <2>1. Underway' \subseteq Underway /\ NoNameAsked'
    BY <1>4, <1>8 DEF Computes
  <2>2. CASE NoBeginAck
    <3>1. SettingUp /\ SettingUp' /\ Kept
      BY <2>2 DEF NoBeginAck, SettingUp
    <3> QED BY <1>2, <1>3, <2>1, <3>1 DEF P!RcopyMoves
  <2>3. CASE NoData
    <3>1. ~SettingUp'
      BY <2>3 DEF NoData, SettingUp
    <3> QED BY <1>2, <2>1, <2>3, <3>1, ClientWaitsMoves DEF P!RcopyMoves
  <2> QED BY <1>8, <2>2, <2>3 DEF ClientTimesOut, NoNameAck, NameStates
<1> QED BY <1>5, <1>6, <1>7, <1>8 DEF RcopyStep

-----------------------------------------------------------------------------
(* Every action keeps the transfer.                                        *)

(* A copy that rcopy takes for whole.                                      *)
Whole == rseq # 0 => out = [i \in 1 .. NumBlocks |-> [data |-> i, len |-> i]]

LEMMA WholeIs ==
  /\ P!IInv => Whole
  /\ P!IInv' => Whole'
<1>1. P!IInv => Whole
  BY TransferParameters, P!WholeFile DEF Whole
<1>2. P!IInv' => Whole'
  BY <1>1, PTL
<1> QED BY <1>1, <1>2

LEMMA OneTransferIs ==
  /\ OneTransfer <=> (rstate \notin NameStates /\ ~RcopyLeft => P!IInv /\ PeerFit /\ NoNameAsked)
  /\ OneTransfer' <=> (rstate' \notin NameStates /\ ~RcopyLeft' => P!IInv' /\ PeerFit' /\ NoNameAsked')
<1>1. OneTransfer <=> (rstate \notin NameStates /\ ~RcopyLeft => P!IInv /\ PeerFit /\ NoNameAsked)
  BY SameTransfer DEF OneTransfer, PeerFit, NoNameAsked
<1>2. OneTransfer' <=> (rstate' \notin NameStates /\ ~RcopyLeft' => P!IInv' /\ PeerFit' /\ NoNameAsked')
  BY TransferNext DEF OneTransfer, PeerFit, NoNameAsked
<1> QED BY <1>1, <1>2

(* A move of one end of the transfer.                                      *)
LEMMA TransferKept ==
  ASSUME P!IInv, PeerFit', NoNameAsked',
         (P!ServerMoves /\ UNCHANGED P!rvars) \/ (P!RcopyMoves /\ UNCHANGED P!svars)
  PROVE  OneTransfer' /\ Whole'
<1>1. P!IInv'
  BY TransferParameters, P!ServerMovesStep, P!RcopyMovesStep
<1> QED BY <1>1, OneTransferIs, WholeIs

(* A step in which rcopy has no part.                                      *)
LEMMA ClientIdle ==
  ASSUME UNCHANGED client, Transferral
  PROVE  /\ UNCHANGED P!rvars /\ P!Copied /\ rstate' = rstate /\ (RcopyLeft' <=> RcopyLeft)
         /\ NothingBegun' /\ OneTransfer' => Transferral'
<1>1. UNCHANGED <<rstate, rwin, rbuf, rseq, out>>
  BY DEF client, rvars
<1>2. UNCHANGED P!rvars
  BY ClientKept
<1>3. P!Copied
  BY <1>2 DEF P!Copied, P!Verdict, P!rvars
<1>4. RcopyLeft' <=> RcopyLeft
  BY <1>1 DEF RcopyLeft
<1>5. (SettingUp => ClientUnstarted)'
  BY <1>1 DEF Transferral, SettingUp, ClientUnstarted, window_alloc, Slots
<1>6. CompleteFilesAgree'
  BY <1>1, <1>4 DEF Transferral, CompleteFilesAgree
<1> QED BY <1>1, <1>2, <1>3, <1>4, <1>5, <1>6 DEF Transferral

(* A child's step, whichever child it is.                                  *)
LEMMA ChildKeepsTransferral ==
  ASSUME SessionIInv, delays = 0, Transferral, NEW c \in Children, ChildDoes(c),
         rstate \in NameStates /\ Untouched(c) => NothingBegun',
         Untouched(c) => Underway' \subseteq Underway,
         peer = c /\ PeerFit /\ NoNameAsked => P!ServerMoves /\ PeerFit',
         peer \in Children /\ peer # c => UNCHANGED P!svars /\ (PeerFit => PeerFit')
  PROVE  Transferral' /\ P!Copied
<1>1. /\ SessionTypeOK /\ Conversation /\ UNCHANGED client /\ peer' = peer
      /\ c \in Processes /\ c # "rcopy" /\ queue \in Queues
  BY TypeIs, ProcessesAre DEF SessionIInv, OneConversation, ChildDoes, client
<1>2. /\ UNCHANGED P!rvars /\ P!Copied /\ rstate' = rstate /\ (RcopyLeft' <=> RcopyLeft)
      /\ NothingBegun' /\ OneTransfer' => Transferral'
  BY <1>1, ClientIdle
<1>3. CASE rstate \in NameStates
  <2>1. Untouched(c)
    BY <1>1, <1>3 DEF Conversation, OneRequest
  <2> QED BY <1>2, <1>3, <2>1, OneTransferIs
<1>4. CASE rstate \notin NameStates /\ RcopyLeft
  BY <1>2, <1>4, OneTransferIs DEF NothingBegun
<1>5. CASE rstate \notin NameStates /\ ~RcopyLeft
  <2>1. P!IInv /\ PeerFit /\ NoNameAsked /\ NothingBegun'
    BY <1>2, <1>5, OneTransferIs DEF Transferral, NothingBegun
  <2>2. /\ peer \in Children /\ peer \in Processes /\ peer # "rcopy"
        /\ SState(Other(peer)) \in {"NO_PROCESS", "S_FILE_BEGIN", "S_FINISH"}
        /\ queue[Other(peer)] = <<>>
    BY <1>1, <1>5, ProcessesAre DEF Conversation, OnePeer
  <2>3. NoNameAsked'
    <3>1. peer = c => Within(queue[peer], queue'[peer])
      BY <1>1, ChildQueues
    <3>2. peer # c => queue'[peer] = queue[peer]
      BY <1>1, <2>2, ChildQueues
    <3> QED BY <1>1, <2>1, <3>1, <3>2 DEF NoNameAsked, Within
  <2>4. P!ServerMoves /\ PeerFit'
    <3>1. CASE peer = c
      BY <2>1, <3>1
    <3>2. CASE peer # c
      <4>1. Other(peer) = c
        BY <2>2, <3>2 DEF Children, Other
      <4>2. Len(queue[c]) = 0
        BY <1>1, <2>2, <4>1, EmptyIs
      <4>3. Untouched(c)
        BY <2>2, <4>1, <4>2 DEF Untouched, SetupStates
      <4> QED BY <2>1, <2>2, <3>2, <4>3 DEF P!ServerMoves
    <3> QED BY <3>1, <3>2
  <2> QED BY <1>2, <2>1, <2>3, <2>4, TransferKept
<1> QED BY <1>3, <1>4, <1>5

LEMMA UnstartedKept ==
  /\ UNCHANGED <<swin1, fpos1, sseq1, eofwait1>> /\ Unstarted(swin1, fpos1, sseq1, eofwait1)
       => Unstarted(swin1, fpos1, sseq1, eofwait1)'
  /\ UNCHANGED <<swin2, fpos2, sseq2, eofwait2>> /\ Unstarted(swin2, fpos2, sseq2, eofwait2)
       => Unstarted(swin2, fpos2, sseq2, eofwait2)'
BY DEF Unstarted, C1!NoWindow, C1!window_alloc, C1!Packet, C1!Slots

LEMMA ChildrenKeepTransferral ==
  ASSUME SessionIInv, delays = 0, Transferral, Child1Step \/ Child2Step
  PROVE  Transferral' /\ P!Copied
<1>1. SessionTypeOK /\ peer \in Processes
  BY TypeIs DEF SessionIInv, ClientTypeOK
<1>2. CASE Child1Step
  <2>1. ChildDoes("child1") /\ UNCHANGED child2 /\ UNCHANGED client /\ peer' = peer
    BY <1>1, <1>2, Child1StepIs DEF Child1Step, client
  <2>2. ASSUME Untouched("child1")
        PROVE  /\ Underway' \subseteq Underway
               /\ rstate \in NameStates => NothingBegun'
    <3>1. /\ Underway' \subseteq Underway
          /\ Unstarted(swin1, fpos1, sseq1, eofwait1) => Unstarted(swin1, fpos1, sseq1, eofwait1)'
      BY <1>1, <1>2, <2>2, Child1Elsewhere
    <3>2. Unstarted(swin2, fpos2, sseq2, eofwait2) => Unstarted(swin2, fpos2, sseq2, eofwait2)'
      BY <2>1, UnstartedKept DEF child2
    <3> QED BY <3>1, <3>2 DEF Transferral, NothingBegun
  <2>3. peer = "child1" /\ PeerFit /\ NoNameAsked => P!ServerMoves /\ PeerFit'
    BY <1>1, <1>2, Peer1Moves
  <2>4. peer \in Children /\ peer # "child1" => UNCHANGED P!svars /\ (PeerFit => PeerFit')
    BY <2>1 DEF child2, P!svars, PeerState, PeerWin, PeerPos, PeerSeq, PeerEofWait, PeerFit, Asking,
                SState, NotBegun
  <2> QED BY <2>1, <2>2, <2>3, <2>4, ChildKeepsTransferral, ProcessesAre
<1>3. CASE Child2Step
  <2>1. ChildDoes("child2") /\ UNCHANGED child1 /\ UNCHANGED client /\ peer' = peer
    BY <1>1, <1>3, Child2StepIs DEF Child2Step, client
  <2>2. ASSUME Untouched("child2")
        PROVE  /\ Underway' \subseteq Underway
               /\ rstate \in NameStates => NothingBegun'
    <3>1. /\ Underway' \subseteq Underway
          /\ Unstarted(swin2, fpos2, sseq2, eofwait2) => Unstarted(swin2, fpos2, sseq2, eofwait2)'
      BY <1>1, <1>3, <2>2, Child2Elsewhere
    <3>2. Unstarted(swin1, fpos1, sseq1, eofwait1) => Unstarted(swin1, fpos1, sseq1, eofwait1)'
      BY <2>1, UnstartedKept DEF child1
    <3> QED BY <3>1, <3>2 DEF Transferral, NothingBegun
  <2>3. peer = "child2" /\ PeerFit /\ NoNameAsked => P!ServerMoves /\ PeerFit'
    BY <1>1, <1>3, Peer2Moves
  <2>4. peer \in Children /\ peer # "child2" => UNCHANGED P!svars /\ (PeerFit => PeerFit')
    BY <2>1 DEF child1, P!svars, PeerState, PeerWin, PeerPos, PeerSeq, PeerEofWait, PeerFit, Asking,
                SState, NotBegun, Children
  <2> QED BY <2>1, <2>2, <2>3, <2>4, ChildKeepsTransferral, ProcessesAre
<1> QED BY <1>2, <1>3

(* rcopy asks for the file: until it is answered nothing is transferred,   *)
(* and when it is the transfer starts from the beginning.                  *)
LEMMA NameStepIs ==
  ASSUME SessionTypeOK, RcopyStep, rstate \in NameStates, rseq = 0
  PROVE  /\ UNCHANGED <<rwin, rbuf, rseq, out>>
         /\ Underway' \subseteq Underway
         /\ \/ rstate' \in NameStates
            \/ rstate' = "S_FINISH"
            \/ /\ rstate' = "S_OPEN_FILE" /\ Waiting("rcopy")
               /\ \A me \in Processes : me # "rcopy" => queue'[me] = queue[me]
<1>1. /\ queue \in Queues /\ peer \in Processes /\ "rcopy" \in Processes
  BY TypeIs, ProcessesAre DEF ClientTypeOK
<1>2. rstate \notin RcopyStates
  BY DEF NameStates, RcopyStates
<1>3. CASE ClientThinks /\ Computes("rcopy") /\ UNCHANGED peer
  <2>1. TimeoutOnNameAck
    BY <1>2, <1>3 DEF ClientThinks, OpenLocalFile, AbandonBegin, RcopyThinks, WriteData,
       AdjustWindow, TimeoutOnData, NameStates, RcopyStates
  <2> QED BY <1>3, <2>1, UnderwayKept DEF TimeoutOnNameAck, Computes, NameStates
<1>4. CASE ClientSends /\ Sends("rcopy", peer, <<Request>>) /\ UNCHANGED peer
  <2>1. SendInitPkt
    BY <1>2, <1>4 DEF ClientSends, SendBegin, RcopySends, SendRR, SendSREJ, SendEofAck, NameStates,
       RcopyStates
  <2>2. Request = Packet("FILE_NAME", 0, 0)
    BY <2>1 DEF SendInitPkt, Request
  <2>3. Request \in AnyPacket /\ Request.flag \notin TransferFlags
    BY <2>2, PacketIs DEF Flags, TransferFlags, Packet
  <2> DEFINE pkts == <<Request>>
  <2>4. pkts \in Seq(AnyPacket) /\ Elements(pkts) = {Request}
    BY <2>3 DEF Elements
  <2>5. queue' = Posted(queue, "rcopy", peer, pkts)
    BY <1>4 DEF Sends
  <2> HIDE DEF pkts
  <2>6. Carries({Request})
    BY <1>1, <2>4, <2>5, SentCarries
  <2>7. Underway' \subseteq Underway
    BY <2>3, <2>6, NothingSent
  <2> QED BY <2>1, <2>7 DEF SendInitPkt, NameStates
<1>5. CASE RcopyReads
  <2>1. queue' = Consumed("rcopy")
    <3> DEFINE none == <<>>
    <3>1. none \in Seq(AnyPacket) /\ queue' = Posted(Consumed("rcopy"), "rcopy", peer, none)
      BY <1>5 DEF RcopyReads, Reads
    <3>2. Consumed("rcopy") \in Queues /\ none = <<>>
      BY <1>1, <1>5, ConsumedIs DEF RcopyReads
    <3> HIDE DEF none
    <3>3. Extended(Consumed("rcopy"), "rcopy", peer, none, queue')
      BY <1>1, <3>1, <3>2, PostedIs
    <3> QED BY <3>2, <3>3 DEF Extended
  <2>2. /\ queue' = Consumed("rcopy") /\ Waiting("rcopy")
        /\ \A me \in Processes : me # "rcopy" => queue'[me] = queue[me]
    BY <1>1, <1>5, <2>1, ConsumedIs DEF RcopyReads
  <2>3. Within(queue["rcopy"], queue'["rcopy"])
    BY <1>1, <2>2, ConsumedIs DEF Within
  <2>4. Carries({})
    <3>1. ASSUME NEW me \in Processes PROVE Within(queue[me], queue'[me])
      <4>1. CASE me = "rcopy"
        BY <2>3, <4>1
      <4>2. CASE me # "rcopy"
        BY <2>2, <4>2 DEF Within
      <4> QED BY <4>1, <4>2
    <3> QED BY <3>1 DEF Carries, Within
  <2>5. Underway' \subseteq Underway
    BY <2>4, NothingSent
  <2>6. \E p : RecvNameAck(p) \/ IgnoreOnNameAck(p)
    BY <1>2, <1>5 DEF RcopyReads, ClientHears, ClientHearsDamaged, RecvBeginAck, RecvNoBeginAck,
       RcopyHears, RecvEof, RecvOld, RecvNext, RecvAhead, IgnoreOnData, HearsData, RecvCorrupt,
       NameStates, RcopyStates
  <2> QED BY <2>2, <2>5, <2>6 DEF RecvNameAck, IgnoreOnNameAck, NameStates, rvars
<1>6. CASE Silence("rcopy", ClientPatience) /\ ClientTimesOut /\ Computes("rcopy") /\ UNCHANGED peer
  <2>1. NoNameAck
    BY <1>2, <1>6 DEF ClientTimesOut, NoBeginAck, NoData, NameStates, RcopyStates
  <2> QED BY <1>6, <2>1, UnderwayKept DEF NoNameAck, Computes, NameStates
<1> QED BY <1>3, <1>4, <1>5, <1>6 DEF RcopyStep

LEMMA AnswerStartsTransfer ==
  ASSUME SessionIInv, SessionIInv', delays = 0, Transferral, RcopyStep,
         rstate \in NameStates, rstate' = "S_OPEN_FILE"
  PROVE  P!IInv' /\ PeerFit' /\ NoNameAsked'
<1>1. /\ SessionTypeOK /\ UNCHANGED <<child1, child2>> /\ delays' = 0 /\ SettingUp /\ SettingUp'
      /\ queue \in Queues
  BY TypeIs DEF SessionIInv, RcopyStep, environment, SettingUp, NameStates
<1>2. /\ ClientUnstarted /\ rseq = 0 /\ Underway = {}
      /\ Unstarted(swin1, fpos1, sseq1, eofwait1) /\ Unstarted(swin2, fpos2, sseq2, eofwait2)
  BY <1>1 DEF Transferral, ClientUnstarted, NothingBegun
<1>3. /\ UNCHANGED <<rwin, rbuf, rseq, out>> /\ Underway' = {}
      /\ Waiting("rcopy") /\ \A me \in Processes : me # "rcopy" => queue'[me] = queue[me]
  BY <1>1, <1>2, NameStepIs DEF NameStates
<1>4. peer' \in Children /\ peer' \in Processes /\ peer' # "rcopy"
  <2>1. OnePeer'
    BY <1>1 DEF SessionIInv, OneConversation, Conversation
  <2> QED BY <2>1, ProcessesAre DEF OnePeer, NameStates, RcopyLeft
<1>5. /\ Untouched(peer') /\ ~Waiting(peer') /\ ~Asking(peer')
  BY <1>1, <1>3, <1>4, ProcessesAre DEF SessionIInv, OneConversation, Conversation, OneRequest, Stirs
<1>6. SState(peer') \in {"NO_PROCESS", "S_FINISH", "S_FILE_BEGIN"}
  BY <1>4, <1>5 DEF Untouched, Asking
<1>7. SState(peer)' = SState(peer')
  BY <1>1 DEF SState, child1, child2
<1>8. ~Asking(peer)' /\ PeerState' \in {"S_FILL_WINDOW", "S_FINISH"}
  BY <1>6, <1>7 DEF Asking, PeerState, NotBegun, SetupStates
<1>9. PeerWin' = C1!NoWindow /\ PeerPos' = 0 /\ PeerSeq' = 0 /\ PeerEofWait' = 0
  BY <1>1, <1>2 DEF PeerWin, PeerPos, PeerSeq, PeerEofWait, Unstarted, child1, child2
<1>10. NoNameAsked'
  <2>1. queue'[peer'] = <<>>
    BY <1>3, <1>4, <1>5 DEF Waiting
  <2>2. queue[peer'] = <<>>
    BY <1>5 DEF Waiting
  <2>3. Len(queue'[peer']) = 0
    BY <1>1, <1>4, <2>1, <2>2, EmptyIs
  <2> QED BY <2>3 DEF NoNameAsked
<1>11. P!FreshWindow(C1!NoWindow)
  <2> DEFINE w == window_alloc(0, Packet("DATA", 0, 0), 0, 0)
  <2>1. P!FreshWindow([P!window_alloc(0, P!Packet("DATA", 0, 0), 0, 0) EXCEPT !.rr = 1])
    BY TransferParameters, P!AllocFresh
  <2>2. P!window_alloc(0, P!Packet("DATA", 0, 0), 0, 0) = w
    BY TransferOperators
  <2>3. [w EXCEPT !.rr = 1] = w
    <3> DEFINE frames == [i \in Slots |-> [state |-> "FRAME_EMPTY", pkt |-> Packet("DATA", 0, 0)]]
    <3>1. w = [bottom |-> 1, top |-> 0 + WindowSize, rr |-> 1, srej |-> 1, eof |-> FALSE,
               num_wait |-> 0, top_sent |-> 0, Frame |-> frames]
      BY DEF window_alloc
    <3> HIDE DEF frames, w
    <3>2. w \in [{"bottom", "top", "rr", "srej", "eof", "num_wait", "top_sent", "Frame"}
                 -> {w.bottom, w.top, w.rr, w.srej, w.eof, w.num_wait, w.top_sent, w.Frame}]
      BY <3>1
    <3>3. w.rr = 1
      BY <3>1
    <3> QED BY <3>2, <3>3
  <2> HIDE DEF w
  <2> QED BY <2>1, <2>2, <2>3, NoWindowIs DEF w
<1>12. P!FreshWindow(PeerWin')
  BY <1>9, <1>11
<1>13. P!ReceiverInit'
  <2>1. ClientState' = "S_WAIT_ON_DATA"
    BY <1>1 DEF ClientState
  <2>2. /\ rwin' = [window_alloc(0, 0, 0, 0) EXCEPT !.rr = 1] /\ rbuf' = 0 /\ rseq' = 0
        /\ out' = <<>>
    BY <1>2, <1>3 DEF ClientUnstarted
  <2>3. P!window_alloc(0, 0, 0, 0) = window_alloc(0, 0, 0, 0)
    BY TransferOperators
  <2> QED BY <2>1, <2>2, <2>3 DEF P!ReceiverInit
<1>14. P!Fresh'
  BY <1>3, <1>8, <1>9, <1>12, <1>13 DEF P!Fresh, P!HandshakePackets
<1>15. PeerFit'
  BY <1>8, <1>9 DEF PeerFit
<1> QED BY <1>10, <1>14, <1>15, TransferNext

LEMMA RcopyKeepsTransferral ==
  ASSUME SessionIInv, SessionIInv', delays = 0, Transferral, RcopyStep
  PROVE  Transferral' /\ P!Copied
<1>1. /\ SessionTypeOK /\ Conversation /\ ~RcopyLeft /\ UNCHANGED <<child1, child2>>
      /\ SettingUp => ClientUnstarted /\ rseq = 0
      /\ RcopyThinksOf \/ RcopySendsTo \/ RcopyReadsFrom \/ RcopyLosesPatience
  BY RcopyStepIs DEF SessionIInv, OneConversation, Transferral, ClientUnstarted
<1>2. CASE rstate \in NameStates
  <2>1. SettingUp /\ ClientUnstarted /\ rseq = 0 /\ Underway = {}
    BY <1>1, <1>2 DEF SettingUp, NameStates, Transferral, NothingBegun
  <2>2. /\ UNCHANGED <<rwin, rbuf, rseq, out>> /\ Underway' = {}
        /\ rstate' \in NameStates \/ rstate' = "S_FINISH" \/ rstate' = "S_OPEN_FILE"
    BY <1>1, <1>2, <2>1, NameStepIs
  <2>3. ClientUnstarted' /\ rseq' = 0
    BY <2>1, <2>2 DEF ClientUnstarted, window_alloc, Slots
  <2>4. NothingBegun'
    BY <1>1, <1>2, <2>2, UnstartedKept DEF Transferral, NothingBegun, child1, child2
  <2>5. OneTransfer'
    <3>1. rstate' = "S_OPEN_FILE" => P!IInv' /\ PeerFit' /\ NoNameAsked'
      BY <1>2, AnswerStartsTransfer
    <3> QED BY <2>2, <3>1, OneTransferIs DEF RcopyLeft
  <2>6. CompleteFilesAgree'
    BY <2>3 DEF CompleteFilesAgree
  <2>7. P!Copied
    <3>1. P!Verdict = "copying"
      BY <2>1 DEF P!Verdict, ClientState
    <3>2. P!Verdict' \in {"copying", "gaveup"}
      BY <2>3 DEF P!Verdict
    <3> QED BY <2>2, <3>1, <3>2 DEF P!Copied
  <2> QED BY <2>3, <2>4, <2>5, <2>6, <2>7 DEF Transferral
<1>3. CASE rstate \notin NameStates
  <2>1. /\ P!IInv /\ PeerFit /\ NoNameAsked /\ peer \in Children
        /\ \A i \in 1 .. Len(queue["rcopy"]) : queue["rcopy"][i].src = peer
    BY <1>1, <1>3, OneTransferIs DEF Transferral, Conversation, OnePeer
  <2>2. rstate' \notin NameStates /\ peer' = peer
    <3>1. rstate' \notin NameStates
      BY <1>1, <1>3 DEF RcopyThinksOf, RcopySendsTo, RcopyReadsFrom, RcopyLosesPatience,
         BeyondName, NameStates
    <3>2. Waiting("rcopy") => 1 \in 1 .. Len(queue["rcopy"])
      BY <1>1, ConsumedIs, TypeIs, ProcessesAre
    <3> QED BY <1>1, <2>1, <3>1, <3>2
            DEF RcopyThinksOf, RcopySendsTo, RcopyReadsFrom, RcopyLosesPatience
  <2>3. /\ UNCHANGED P!svars /\ NoNameAsked' /\ (SettingUp' => SettingUp /\ ClientUnstarted')
        /\ \/ P!RcopyMoves
           \/ RcopyLeft' /\ rseq = 0 /\ rseq' = 0 /\ out' = out
    BY <1>1, <1>3, <2>1, <2>2, ClientMoves
  <2>4. PeerFit'
    BY <1>1, <2>1, <2>2, PeerKept
  <2>5. NothingBegun'
    BY <2>2 DEF NothingBegun
  <2>6. CASE P!RcopyMoves
    <3>1. OneTransfer' /\ Whole'
      BY <2>1, <2>3, <2>4, <2>6, TransferKept
    <3>2. P!Copied
      BY <2>1, <2>6, TransferParameters, P!RcopyMovesCopy
    <3> QED BY <2>3, <2>5, <3>1, <3>2 DEF Transferral, CompleteFilesAgree, Whole
  <2>7. CASE RcopyLeft' /\ rseq = 0 /\ rseq' = 0 /\ out' = out
    <3>1. OneTransfer' /\ CompleteFilesAgree'
      BY <2>7, OneTransferIs DEF CompleteFilesAgree
    <3>2. P!Copied
      <4>1. ClientState' = "S_FINISH"
        BY <2>7 DEF ClientState, RcopyLeft, SettingUp
      <4>2. P!Verdict' = "gaveup" /\ P!Verdict \in {"copying", "gaveup"}
        BY <2>7, <4>1 DEF P!Verdict
      <4> QED BY <2>7, <4>2 DEF P!Copied
    <3> QED BY <2>3, <2>5, <3>1, <3>2 DEF Transferral
  <2> QED BY <2>3, <2>6, <2>7
<1> QED BY <1>2, <1>3

(* Nothing is sent and rcopy does nothing: datagrams may go or be damaged, *)
(* a child may be killed or, when rcopy asks, be forked.                   *)
LEMMA QuietKeepsTransferral ==
  ASSUME SessionIInv, delays = 0, Transferral, UNCHANGED client, Carries({}),
         UNCHANGED <<swin1, fpos1, sseq1, eofwait1, swin2, fpos2, sseq2, eofwait2>>,
         \A child \in Children : \/ SState(child)' \in {SState(child), "S_FINISH"}
                                 \/ rstate \in NameStates \/ RcopyLeft
  PROVE  Transferral' /\ P!Copied
<1>1. /\ UNCHANGED P!rvars /\ P!Copied /\ rstate' = rstate /\ (RcopyLeft' <=> RcopyLeft)
      /\ NothingBegun' /\ OneTransfer' => Transferral'
  BY ClientIdle
<1>2. Conversation /\ peer' = peer /\ Underway' \subseteq Underway
  BY NothingSent DEF SessionIInv, OneConversation, client
<1>3. NothingBegun'
  BY <1>1, <1>2, UnstartedKept DEF Transferral, NothingBegun
<1>4. CASE rstate \in NameStates \/ RcopyLeft
  BY <1>1, <1>3, <1>4, OneTransferIs
<1>5. CASE rstate \notin NameStates /\ ~RcopyLeft
  <2>1. P!IInv /\ PeerFit /\ NoNameAsked /\ peer \in Children /\ peer \in Processes
    BY <1>2, <1>5, OneTransferIs, ProcessesAre DEF Transferral, Conversation, OnePeer
  <2>2. /\ UNCHANGED <<PeerWin, PeerPos, PeerSeq, PeerEofWait>>
        /\ SState(peer)' \in {SState(peer), "S_FINISH"}
    <3>1. UNCHANGED <<PeerWin, PeerPos, PeerSeq, PeerEofWait>>
      BY <1>2 DEF PeerWin, PeerPos, PeerSeq, PeerEofWait
    <3>2. \A child \in Children : child = peer => SState(child)' = SState(peer)'
      BY <1>2 DEF SState
    <3> QED BY <1>5, <2>1, <3>1, <3>2
  <2>3. NoNameAsked'
    BY <1>2, <2>1, NoNameKept
  <2>4. PeerFit'
    BY <2>1, <2>2, BegunIs DEF PeerFit, Asking, SetupStates
  <2>5. UNCHANGED P!svars \/ P!Leaves
    BY <2>2, BegunIs DEF P!svars, P!Leaves, PeerState
  <2>6. P!ServerMoves
    BY <1>2, <2>5 DEF P!ServerMoves
  <2> QED BY <1>1, <1>3, <2>1, <2>3, <2>4, <2>6, TransferKept
<1> QED BY <1>4, <1>5

(* A queue from which datagrams are lost carries nothing new.              *)
LEMMA DampedCarries ==
  ASSUME \A me \in Processes : Damped(queue[me], queue'[me])
  PROVE  Carries({})
BY DEF Damped, Carries

LEMMA IdleKeepsTransferral ==
  ASSUME SessionIInv, delays = 0, Transferral, Tick \/ Fault \/ Delay \/ UNCHANGED sessionVars
  PROVE  Transferral' /\ P!Copied
<1>1. queue \in Queues
  BY TypeIs DEF SessionIInv
<1>2. UNCHANGED <<child1, child2, client>>
  BY DEF Tick, Fault, Delay, sessionVars
<1>3. \A child \in Children : SState(child)' = SState(child)
  BY <1>2, Unmoved
<1>4. \A me \in Processes : Damped(queue[me], queue'[me])
  <2>1. CASE queue' = queue
    BY <1>1, <2>1 DEF Damped, Queues
  <2>2. CASE \E me \in Processes :
               Waiting(me) /\ (queue' = Consumed(me) \/ queue' = [queue EXCEPT ![me][1].pkt = Damaged])
    BY <1>1, <2>2, DampedQueues
  <2> QED BY <2>1, <2>2 DEF Tick, Fault, Delay, sessionVars
<1>5. Carries({})
  BY <1>4, DampedCarries
<1> QED BY <1>2, <1>3, <1>5, QuietKeepsTransferral DEF child1, child2

LEMMA DispatchKeepsTransferral ==
  ASSUME SessionIInv, delays = 0, Transferral, Dispatch
  PROVE  Transferral' /\ P!Copied
<1>1. /\ queue \in Queues /\ SessionTypeOK /\ Conversation
      /\ "dispatcher" \in Processes
  BY TypeIs, ProcessesAre DEF SessionIInv, OneConversation
<1>2. UNCHANGED client /\ Waiting("dispatcher") /\ queue' = Consumed("dispatcher")
  BY <1>1, DispatchIs
<1>3. UNCHANGED <<swin1, fpos1, sseq1, eofwait1, swin2, fpos2, sseq2, eofwait2>>
  BY DEF Dispatch, C1!Fork, C2!Fork, child1, child2
<1>4. rstate \in NameStates \/ RcopyLeft
  BY <1>1, <1>2 DEF Conversation, OnePeer, Waiting
<1>5. Carries({})
  <2>1. \A me \in Processes : Damped(queue[me], queue'[me])
    BY <1>1, <1>2, DampedQueues
  <2> QED BY <2>1, DampedCarries
<1> QED BY <1>2, <1>3, <1>4, <1>5, QuietKeepsTransferral

LEMMA KillKeepsTransferral ==
  ASSUME SessionIInv, delays = 0, Transferral, Kill
  PROVE  Transferral' /\ P!Copied
<1>1. queue \in Queues /\ queue' \in Queues /\ Conversation
  BY KillIs, TypeIs DEF SessionIInv, OneConversation
<1>2. PICK me \in Processes :
        /\ CASE me = "child1" -> C1!ChildKilled /\ UNCHANGED <<child2, client, serving>>
             [] me = "child2" -> C2!ChildKilled /\ UNCHANGED <<child1, client, serving>>
             [] me = "rcopy"  -> ClientKilled /\ UNCHANGED <<peer, child1, child2, serving>>
             [] OTHER         -> serving' = FALSE /\ UNCHANGED <<child1, child2, client>>
        /\ queue' = [queue EXCEPT ![me] = <<>>]
  BY DEF Kill
<1>3. Carries({})
  <2>1. queue'[me] = <<>> /\ \A you \in Processes : you # me => queue'[you] = queue[you]
    BY <1>1, <1>2 DEF Queues
  <2>2. Len(queue'[me]) = 0
    BY <1>1, <2>1, EmptyIs
  <2>3. \A you \in Processes : Within(queue[you], queue'[you])
    <3>1. Within(queue[me], queue'[me])
      BY <2>2 DEF Within
    <3> QED BY <2>1, <3>1 DEF Within
  <2> QED BY <2>3 DEF Carries, Within
<1> DEFINE Windows == <<swin1, fpos1, sseq1, eofwait1, swin2, fpos2, sseq2, eofwait2>>
<1>4. CASE me # "rcopy"
  <2>1. UNCHANGED client /\ UNCHANGED Windows
    BY <1>2, <1>4, ProcessesAre DEF C1!ChildKilled, C2!ChildKilled, child1, child2
  <2>2. \A child \in Children : SState(child)' \in {SState(child), "S_FINISH"}
    BY <1>2, <1>4, ProcessesAre DEF C1!ChildKilled, C2!ChildKilled, child1, child2, SState
  <2> QED BY <1>3, <2>1, <2>2, QuietKeepsTransferral
<1>5. CASE me = "rcopy"
  <2>1. ~RcopyLeft /\ rstate' = "S_FINISH" /\ UNCHANGED <<rwin, rbuf, rseq, out>>
    BY <1>2, <1>5 DEF ClientKilled
  <2>2. ~SettingUp' /\ NothingBegun' /\ OneTransfer'
    BY <2>1, OneTransferIs DEF SettingUp, NothingBegun, NameStates, RcopyLeft
  <2>3. Whole
    <3>1. CASE rstate \in NameStates
      BY <3>1 DEF Transferral, SettingUp, NameStates, ClientUnstarted, Whole
    <3>2. CASE rstate \notin NameStates
      BY <2>1, <3>2, OneTransferIs, WholeIs DEF Transferral
    <3> QED BY <3>1, <3>2
  <2>4. CompleteFilesAgree'
    BY <2>1, <2>3 DEF Whole, CompleteFilesAgree
  <2>5. P!Copied
    <3>1. ClientState' = "S_FINISH"
      BY <2>1 DEF ClientState, SettingUp
    <3>2. P!Verdict' = IF rseq # 0 THEN "complete" ELSE "gaveup"
      BY <2>1, <3>1 DEF P!Verdict
    <3>3. rseq = 0 => P!Verdict \in {"copying", "gaveup"}
      BY DEF P!Verdict
    <3>4. rseq # 0 => P!Verdict = "complete"
      BY DEF P!Verdict
    <3> QED BY <2>1, <3>2, <3>3, <3>4 DEF P!Copied
  <2> QED BY <2>2, <2>4, <2>5 DEF Transferral
<1> QED BY <1>4, <1>5

LEMMA ArriveIsLate ==
  ASSUME SessionIInv, delays = 0
  PROVE  ~Arrive
BY DEF SessionIInv, NothingLate, Arrive

LEMMA TransferralStep ==
  ASSUME SessionIInv, SessionIInv', delays = 0, Transferral, [SessionNext]_sessionVars
  PROVE  Transferral' /\ P!Copied
BY ChildrenKeepTransferral, RcopyKeepsTransferral, IdleKeepsTransferral, DispatchKeepsTransferral,
   KillKeepsTransferral, ArriveIsLate
   DEF SessionNext, SessionOver

LEMMA DelaysCount ==
  ASSUME SessionIInv, [SessionNext]_sessionVars, delays # 0
  PROVE  delays' # 0
<1>1. delays \in Nat
  BY Parameters DEF SessionIInv, SessionTypeOK
<1>2. delays' = delays \/ delays' = delays + 1
  BY DEF SessionNext, Dispatch, Child1Step, Child2Step, RcopyStep, Tick, Fault, Delay, Arrive, Kill,
     SessionOver, environment, sessionVars
<1> QED BY <1>1, <1>2

LEMMA TransferralInit == SessionInit => Transferral
<1> SUFFICES ASSUME SessionInit PROVE Transferral
  OBVIOUS
<1>1. SettingUp /\ ClientUnstarted /\ ~RcopyLeft /\ rstate \in NameStates
  BY DEF SessionInit, RcopyInit, SettingUp, ClientUnstarted, RcopyLeft, NameStates
<1>2. Unstarted(swin1, fpos1, sseq1, eofwait1) /\ Unstarted(swin2, fpos2, sseq2, eofwait2)
  BY NoWindowIs DEF SessionInit, C1!ChildInit, C2!ChildInit, Unstarted
<1>3. Underway = {}
  <2>1. \A me \in Processes : queue[me] = <<>>
    BY DEF SessionInit
  <2>2. queue \in Queues
    BY InvariantInit, TypeIs DEF SessionIInv
  <2>3. \A me \in Processes : Len(queue[me]) = 0
    BY <2>1, <2>2, EmptyIs
  <2> QED BY <2>3 DEF Underway, InQueues
<1> QED BY <1>1, <1>2, <1>3 DEF Transferral, NothingBegun, OneTransfer, CompleteFilesAgree

-----------------------------------------------------------------------------
(* The theorems.                                                           *)

(* While no datagram has been held back, what rcopy and its peer do is a   *)
(* transfer with the invariant of Transfer, wherever the set-up, the other *)
(* child and the environment interfere.                                    *)
THEOREM SessionOneFile == SessionSpec => []OneFile
<1>1. SessionInit => OneFile
  BY TransferralInit DEF OneFile
<1>2. SessionIInv /\ SessionIInv' /\ OneFile /\ [SessionNext]_sessionVars => OneFile'
  BY TransferralStep, DelaysCount DEF OneFile
<1> QED BY <1>1, <1>2, SessionInvariance, PTL DEF SessionSpec

(* testRandError.sh's comparison of the two files succeeds after every     *)
(* session that rcopy takes for complete, as long as no datagram was held  *)
(* back: whatever is lost, damaged or killed.                              *)
THEOREM SessionFilesAgree == SessionSpec => [](delays = 0 => CompleteFilesAgree)
<1>1. OneFile => (delays = 0 => CompleteFilesAgree)
  BY DEF OneFile, Transferral
<1> QED BY <1>1, SessionOneFile, PTL

(* Every step of a session in which nothing is held back is a step of the  *)
(* abstract copy or leaves the file and the verdict on it alone: set-up,   *)
(* second child, losses, damage and kills never show in the local file.    *)
THEOREM SessionCopies == SessionSpec /\ [](delays = 0) => SessionImplementsFileCopy
<1> DEFINE status == IF rseq # 0 THEN "complete"
                     ELSE IF rstate \in {"S_TIMEOUT_ON_DATA", "S_FINISH"} THEN "gaveup"
                     ELSE "copying"
<1>1. SessionInit => Copy!Init
  BY DEF SessionInit, RcopyInit, Copy!Init
<1>2. SessionIInv /\ SessionIInv' /\ delays = 0 /\ OneFile /\ [SessionNext]_sessionVars
        => [Copy!Next]_<<out, status>>
  <2> SUFFICES ASSUME SessionIInv, SessionIInv', delays = 0, OneFile, [SessionNext]_sessionVars
               PROVE  [Copy!Next]_<<out, status>>
    OBVIOUS
  <2>1. P!Copied
    BY TransferralStep DEF OneFile
  <2>2. P!Verdict = status /\ P!Verdict' = status'
    BY DEF P!Verdict, ClientState, SettingUp
  <2> QED BY <2>1, <2>2 DEF P!Copied, Copy!Next, Copy!CopyBlock, Copy!Complete, Copy!GiveUp, Copy!Block
<1> QED BY <1>1, <1>2, SessionInvariance, SessionOneFile, PTL
        DEF SessionSpec, SessionImplementsFileCopy, Copy!Spec

(* A network that delays nothing beyond what is read before it: the set-up *)
(* and the transfer together implement the abstract copy.                  *)
COROLLARY SessionAlwaysCopies ==
  ASSUME MaxDelays = 0
  PROVE  SessionSpec => SessionImplementsFileCopy
<1>1. SessionTypeOK => delays = 0
  BY DEF SessionTypeOK
<1> QED BY <1>1, SessionTypeCorrect, SessionCopies, PTL
=============================================================================
