---------------------------- MODULE SessionProofs ----------------------------
(***************************************************************************)
(* Proofs about Session, for every window size, file, patience and number  *)
(* of faults and kills.  The two children are instances of Server; what is *)
(* said of one is said of the other, and the conversation they and rcopy   *)
(* have is then reasoned about without regard to which child it is.        *)
(***************************************************************************)
EXTENDS SessionInvariant, SrejWindowProofs, SequenceTheorems

LEMMA Parameters ==
  /\ WindowSize \in Nat /\ WindowSize > 0
  /\ NumBlocks \in Nat /\ PartialLast \in BOOLEAN
  /\ MallocWait \subseteq Nat /\ MallocTop \subseteq Nat /\ ClientWait \subseteq Nat
  /\ FopenMay \subseteq BOOLEAN
  /\ MaxFaults \in Nat /\ MaxDelays \in Nat /\ MaxKills \in Nat
  /\ NameTries \in Nat
BY WindowSizeAssumption, RcopyAssumption, SessionAssumption

-----------------------------------------------------------------------------
(* Windows keep their type, whatever their counters are.                   *)

LEMMA SetFramesType ==
  ASSUME NEW P, NEW w \in WindowType(P), NEW S, NEW st \in FrameState
  PROVE  SetFrames(w, S, st) \in WindowType(P)
<1> DEFINE F == [i \in Slots |-> IF \E seq \in S : get_frame_num(seq) = i
                                 THEN [state |-> st, pkt |-> w.Frame[i].pkt]
                                 ELSE w.Frame[i]]
<1>1. w.Frame \in [Slots -> [state : FrameState, pkt : P]]
  BY DEF WindowType
<1>2. F \in [Slots -> [state : FrameState, pkt : P]]
  BY <1>1
<1>3. SetFrames(w, S, st) = [w EXCEPT !.Frame = F]
  BY DEF SetFrames
<1> HIDE DEF F
<1> QED BY <1>2, <1>3 DEF WindowType

LEMMA SlideType ==
  ASSUME NEW P, NEW w \in WindowType(P)
  PROVE  Slide(w) \in WindowType(P)
<1> DEFINE v == SetFrames(w, w.bottom .. Acked(w) - 1, "FRAME_EMPTY")
<1>1. v \in WindowType(P)
  BY SetFramesType DEF FrameState
<1>2. Acked(w) \in Nat /\ Acked(w) + WindowSize - 1 \in Nat
  BY Parameters DEF Acked, WindowType
<1>3. Slide(w) = [v EXCEPT !.bottom = Acked(w), !.top = Acked(w) + WindowSize - 1]
  BY DEF Slide
<1> HIDE DEF v
<1> QED BY <1>1, <1>2, <1>3 DEF WindowType

LEMMA AllocType ==
  ASSUME NEW P, NEW seq \in Nat, NEW pkt \in P, NEW num_wait \in Nat, NEW top_sent \in Nat
  PROVE  /\ window_alloc(seq, pkt, num_wait, top_sent) \in WindowType(P)
         /\ \A rr \in Nat :
              [window_alloc(seq, pkt, num_wait, top_sent) EXCEPT !.rr = rr] \in WindowType(P)
<1> DEFINE F == [i \in Slots |-> [state |-> "FRAME_EMPTY", pkt |-> pkt]]
           w == window_alloc(seq, pkt, num_wait, top_sent)
<1>1. F \in [Slots -> [state : FrameState, pkt : P]]
  BY DEF FrameState
<1>2. w = [bottom |-> seq + 1, top |-> seq + WindowSize, rr |-> seq + 1, srej |-> seq + 1,
           eof |-> FALSE, num_wait |-> num_wait, top_sent |-> top_sent, Frame |-> F]
  BY DEF window_alloc
<1>3. seq + 1 \in Nat /\ seq + WindowSize \in Nat
  BY Parameters
<1> HIDE DEF F, w
<1>4. w \in WindowType(P)
  BY <1>1, <1>2, <1>3 DEF WindowType
<1>5. \A rr \in Nat : [w EXCEPT !.rr = rr] \in WindowType(P)
  BY <1>4 DEF WindowType
<1> QED BY <1>4, <1>5 DEF w

(* The numbers of a window in some state are finitely many naturals.       *)
LEMMA SeqsInType ==
  ASSUME NEW P, NEW w \in WindowType(P), NEW st
  PROVE  SeqsIn(w, st) \in SUBSET Nat /\ IsFiniteSet(SeqsIn(w, st))
<1>1. w.bottom \in Nat /\ w.top \in Nat
  BY DEF WindowType
<1>2. IsFiniteSet(w.bottom .. w.top)
  BY <1>1, FS_Interval
<1>3. w.bottom .. w.top \in SUBSET Nat
  BY <1>1
<1>4. SeqsIn(w, st) \subseteq w.bottom .. w.top
  BY DEF SeqsIn, WindowSeqs
<1> QED BY <1>2, <1>3, <1>4, FS_Subset

LEMMA PlaceType ==
  ASSUME NEW S, IsFiniteSet(S), NEW seq
  PROVE  Rank(S, seq) \in Nat /\ Cardinality(S) \in Nat
<1>1. IsFiniteSet({s \in S : s =< seq})
  BY FS_Subset
<1> QED BY <1>1, FS_CardinalityType DEF Rank

-----------------------------------------------------------------------------
(* The windows of the children.  What fill_window and send_window do, with *)
(* the child's window and position as parameters: the definitions of both  *)
(* instances are these.                                                    *)
FilledOf(w, pos, i) ==
  LET empties == SeqsIn(w, "FRAME_EMPTY")
  IN  IF \E seq \in empties : get_frame_num(seq) = i /\ pos + Rank(empties, seq) =< NumBlocks
      THEN LET seq == CHOOSE q \in empties : get_frame_num(q) = i
           IN  [state |-> "FRAME_FULL", pkt |-> Packet("DATA", seq, pos + Rank(empties, seq))]
      ELSE w.Frame[i]

LastReadOf(w, pos) == pos + Cardinality(SeqsIn(w, "FRAME_EMPTY"))

BurstOf(w) ==
  LET fulls == SeqsIn(w, "FRAME_FULL")
  IN  [i \in 1 .. Cardinality(fulls) |-> w.Frame[get_frame_num(Ascending(fulls)[i])].pkt]

LEMMA FilledType ==
  ASSUME NEW w \in WindowType(AnyPacket), NEW pos \in Nat, NEW eof \in BOOLEAN
  PROVE  /\ LastReadOf(w, pos) \in Nat
         /\ [w EXCEPT !.Frame = [i \in Slots |-> FilledOf(w, pos, i)], !.eof = eof]
              \in WindowType(AnyPacket)
<1> DEFINE empties == SeqsIn(w, "FRAME_EMPTY")
           F == [i \in Slots |-> FilledOf(w, pos, i)]
<1>1. empties \in SUBSET Nat /\ IsFiniteSet(empties)
  BY SeqsInType
<1>2. \A seq : Rank(empties, seq) \in Nat /\ Cardinality(empties) \in Nat
  BY <1>1, PlaceType
<1>3. ASSUME NEW i \in Slots PROVE FilledOf(w, pos, i) \in [state : FrameState, pkt : AnyPacket]
  <2>1. w.Frame[i] \in [state : FrameState, pkt : AnyPacket]
    BY DEF WindowType
  <2> DEFINE q == CHOOSE q \in empties : get_frame_num(q) = i
  <2>2. ASSUME \E seq \in empties : get_frame_num(seq) = i PROVE q \in Nat
    BY <1>1, <2>2
  <2> HIDE DEF q
  <2>3. ASSUME q \in Nat
        PROVE  [state |-> "FRAME_FULL", pkt |-> Packet("DATA", q, pos + Rank(empties, q))]
                 \in [state : FrameState, pkt : AnyPacket]
    <3> DEFINE r == Rank(empties, q)
    <3>1. r \in Nat
      BY <1>2
    <3> HIDE DEF r
    <3>2. Packet("DATA", q, pos + r) \in AnyPacket
      BY <2>3, <3>1 DEF Packet, AnyPacket, Flags
    <3> QED BY <3>2 DEF r, FrameState
  <2> HIDE DEF empties
  <2> QED BY <2>1, <2>2, <2>3 DEF FilledOf, q, empties
<1>4. F \in [Slots -> [state : FrameState, pkt : AnyPacket]]
  BY <1>3
<1>5. LastReadOf(w, pos) \in Nat
  BY <1>2 DEF LastReadOf
<1> HIDE DEF F
<1>6. [w EXCEPT !.Frame = F, !.eof = eof] \in WindowType(AnyPacket)
  BY <1>4 DEF WindowType
<1> QED BY <1>5, <1>6 DEF F

LEMMA BurstType ==
  ASSUME NEW w \in WindowType(AnyPacket)
  PROVE  BurstOf(w) \in Seq(AnyPacket)
<1> DEFINE fulls == SeqsIn(w, "FRAME_FULL")
<1>1. fulls \in SUBSET Nat /\ IsFiniteSet(fulls)
  BY SeqsInType
<1>2. Ascending(fulls) \in [1 .. Cardinality(fulls) -> fulls] /\ Cardinality(fulls) \in Nat
  BY <1>1, AscendingIs, FS_CardinalityType
<1>3. \A seq \in fulls : w.Frame[get_frame_num(seq)].pkt \in AnyPacket
  <2>1. \A i \in Slots : w.Frame[i].pkt \in AnyPacket
    BY DEF WindowType
  <2>2. \A seq \in fulls : get_frame_num(seq) \in Slots
    BY <1>1, SlotType
  <2> QED BY <2>1, <2>2
<1> HIDE DEF fulls
<1>4. BurstOf(w) \in [1 .. Cardinality(fulls) -> AnyPacket]
  BY <1>2, <1>3 DEF BurstOf, fulls
<1> QED BY <1>2, <1>4
-----------------------------------------------------------------------------
(* What a step of a child is to the conversation: from state s to t, in    *)
(* silence, with the packets it sends, or with the packet it reads.        *)
Thought(s, t) ==
  \/ s = "S_FILE_NAME" /\ t \in {"S_SEND_NAME_ACK", "S_SEND_NAME_ERR_ACK"}
  \/ s \in TransferStates

Sent(s, t, pkts) ==
  /\ pkts \in Seq(AnyPacket)
  /\ \/ /\ s \in {"S_SEND_NAME_ACK", "S_SEND_NAME_ERR_ACK"} /\ t = "S_FILE_BEGIN"
        /\ Len(pkts) = 1 /\ pkts[1].flag # "FILE_BEGIN"
     \/ s \in TransferStates

Heard(s, t, p, answer) ==
  /\ answer \in Seq(AnyPacket)
  /\ \/ /\ s = "S_FILE_BEGIN"
        /\ p.flag # "FILE_BEGIN" => t \in {"S_FILE_BEGIN", "S_FILE_NAME"} /\ answer = <<>>
     \/ s \in TransferStates

TimedOut(s, t) ==
  \/ s = "S_FILE_BEGIN" /\ t = "S_FINISH"
  \/ s \in TransferStates

LEMMA PacketIs ==
  ASSUME NEW flag \in Flags, NEW seq \in Nat, NEW data \in Nat
  PROVE  Packet(flag, seq, data) \in AnyPacket
BY DEF Packet, AnyPacket

(* A counter set or a frame's state: the window is one still.              *)
LEMMA CountersType ==
  ASSUME NEW w \in WindowType(AnyPacket), NEW n \in Nat
  PROVE  /\ [w EXCEPT !.num_wait = 0, !.rr = n] \in WindowType(AnyPacket)
         /\ [w EXCEPT !.num_wait = 0, !.srej = n] \in WindowType(AnyPacket)
         /\ [w EXCEPT !.num_wait = n] \in WindowType(AnyPacket)
         /\ [w EXCEPT !.top_sent = n] \in WindowType(AnyPacket)
BY DEF WindowType

-----------------------------------------------------------------------------
(* The first child.                                                        *)
LEMMA Child1Operators ==
  /\ \A S, seq : C1!Rank(S, seq) = Rank(S, seq)
  /\ \A S : C1!Ascending(S) = Ascending(S) /\ C1!Cardinality(S) = Cardinality(S)
  /\ \A w, S, st : C1!SetFrames(w, S, st) = SetFrames(w, S, st)
  /\ \A w, st : C1!SeqsIn(w, st) = SeqsIn(w, st)
  /\ \A w : C1!Slide(w) = Slide(w)
  /\ \A seq, pkt, n, m : C1!window_alloc(seq, pkt, n, m) = window_alloc(seq, pkt, n, m)
  /\ \A flag, seq, data : C1!Packet(flag, seq, data) = Packet(flag, seq, data)
  /\ C1!Slots = Slots /\ \A seq : C1!get_frame_num(seq) = get_frame_num(seq)
  /\ C1!Damaged = Damaged
<1>1. \A S : C1!Cardinality(S) = Cardinality(S)
  BY DEF C1!Cardinality, Cardinality
<1>2. \A S, seq : C1!Rank(S, seq) = Rank(S, seq)
  BY <1>1 DEF C1!Rank, Rank
<1>3. \A S : C1!Ascending(S) = Ascending(S)
  BY <1>1 DEF C1!Ascending, Ascending
<1>4. C1!Slots = Slots /\ \A seq : C1!get_frame_num(seq) = get_frame_num(seq)
  BY DEF C1!Slots, Slots, C1!get_frame_num, get_frame_num
<1>5. \A w, S, st : C1!SetFrames(w, S, st) = SetFrames(w, S, st)
  BY DEF C1!SetFrames, SetFrames, C1!Slots, Slots, C1!get_frame_num, get_frame_num
<1>6. \A w, st : C1!SeqsIn(w, st) = SeqsIn(w, st)
  BY DEF C1!SeqsIn, SeqsIn, C1!WindowSeqs, WindowSeqs, C1!get_frame_num, get_frame_num
<1>7. \A w : C1!Slide(w) = Slide(w)
  BY DEF C1!Slide, Slide, C1!Acked, Acked, C1!SetFrames, SetFrames, C1!Slots, Slots,
         C1!get_frame_num, get_frame_num
<1>8. \A seq, pkt, n, m : C1!window_alloc(seq, pkt, n, m) = window_alloc(seq, pkt, n, m)
  BY DEF C1!window_alloc, window_alloc, C1!Slots, Slots
<1>9. \A flag, seq, data : C1!Packet(flag, seq, data) = Packet(flag, seq, data)
  BY DEF C1!Packet, Packet
<1>10. C1!Damaged = Damaged
  BY DEF C1!Damaged, Damaged, C1!Packet, Packet
<1> QED BY <1>1, <1>2, <1>3, <1>4, <1>5, <1>6, <1>7, <1>8, <1>9, <1>10

Child1TypeOK == ChildTypeOK(sstate1, swin1, fpos1, sseq1, eofwait1)

LEMMA Child1NoWindow == C1!NoWindow \in WindowType(AnyPacket)
<1>1. Packet("DATA", 0, 0) \in AnyPacket
  BY PacketIs DEF Flags
<1> QED BY <1>1, AllocType, Child1Operators DEF C1!NoWindow

LEMMA Child1Thinks ==
  ASSUME Child1TypeOK, NEW opens \in BOOLEAN, C1!ChildThinks(opens)
  PROVE  Child1TypeOK' /\ Thought(sstate1, sstate1')
<1> USE Parameters DEF Child1TypeOK, ChildTypeOK, SetupStates, TransferStates, Thought
<1>1. CASE C1!OpenFile(opens)
  BY <1>1, Child1NoWindow DEF C1!OpenFile
<1>2. CASE C1!FillWindow
  <2>1. C1!LastRead = LastReadOf(swin1, fpos1)
    BY Child1Operators DEF C1!LastRead, C1!Empties, LastReadOf
  <2>2. \A i : C1!FilledFrame(i) = FilledOf(swin1, fpos1, i)
    BY Child1Operators DEF C1!FilledFrame, C1!Empties, C1!BlockFor, FilledOf
  <2>3. PICK eof \in BOOLEAN :
          swin1' = [swin1 EXCEPT !.Frame = [i \in Slots |-> FilledOf(swin1, fpos1, i)], !.eof = eof]
    <3>1. swin1.eof \in BOOLEAN
      BY DEF WindowType
    <3> QED BY <1>2, <2>1, <2>2, <3>1, Child1Operators DEF C1!FillWindow
  <2>4. swin1' \in WindowType(AnyPacket) /\ LastReadOf(swin1, fpos1) \in Nat
    BY <2>3, FilledType
  <2>5. fpos1' \in Nat
    BY <1>2, <2>1, <2>4 DEF C1!FillWindow
  <2> QED BY <1>2, <2>4, <2>5 DEF C1!FillWindow
<1>3. CASE C1!RetryWindow
  <2> DEFINE w == SetFrames(swin1, SeqsIn(swin1, "FRAME_SENT"), "FRAME_FULL")
  <2>1. w \in WindowType(AnyPacket)
    BY SetFramesType DEF FrameState
  <2>2. w.num_wait + 1 \in Nat
    BY <2>1 DEF WindowType
  <2>3. swin1' = [w EXCEPT !.num_wait = w.num_wait + 1]
    BY <1>3, Child1Operators DEF C1!RetryWindow
  <2> HIDE DEF w
  <2>4. swin1' \in WindowType(AnyPacket)
    BY <2>1, <2>2, <2>3, CountersType
  <2> QED BY <1>3, <2>4 DEF C1!RetryWindow
<1>4. CASE C1!AbandonWindow \/ C1!AdjustDone \/ C1!AdjustStay
  BY <1>4 DEF C1!AbandonWindow, C1!AdjustDone, C1!AdjustStay
<1>5. CASE C1!AdjustSlide
  BY <1>5, SlideType, Child1Operators DEF C1!AdjustSlide
<1>6. CASE C1!CreateFileEof
  BY <1>6 DEF C1!CreateFileEof
<1>7. CASE C1!TimeoutOnAck
  BY <1>7 DEF C1!TimeoutOnAck
<1> QED BY <1>1, <1>2, <1>3, <1>4, <1>5, <1>6, <1>7 DEF C1!ChildThinks, C1!ServerThinks

LEMMA Child1Sends ==
  ASSUME Child1TypeOK, C1!ChildSends
  PROVE  Child1TypeOK' /\ Sent(sstate1, sstate1', C1!Message)
<1> USE DEF Child1TypeOK, ChildTypeOK
<1>1. CASE C1!SendNameAck
  <2>1. /\ Packet("FILE_NAME_ACK", sseq1, 0) \in AnyPacket
        /\ Packet("FILE_NAME_ERR_ACK", sseq1, 0) \in AnyPacket
    BY PacketIs DEF Flags
  <2>2. PICK p \in AnyPacket : p.flag # "FILE_BEGIN" /\ C1!Message = <<p>>
    <3>1. CASE sstate1 = "S_SEND_NAME_ACK"
      <4>1. C1!Message = <<Packet("FILE_NAME_ACK", sseq1, 0)>>
        BY <3>1, Child1Operators DEF C1!Message
      <4> QED BY <2>1, <4>1 DEF Packet
    <3>2. CASE sstate1 = "S_SEND_NAME_ERR_ACK"
      <4>1. C1!Message = <<Packet("FILE_NAME_ERR_ACK", sseq1, 0)>>
        BY <3>2, Child1Operators DEF C1!Message
      <4> QED BY <2>1, <4>1 DEF Packet
    <3> QED BY <1>1, <3>1, <3>2 DEF C1!SendNameAck
  <2>3. /\ C1!Message \in Seq(AnyPacket) /\ Len(C1!Message) = 1
        /\ C1!Message[1].flag # "FILE_BEGIN"
    BY <2>2
  <2>4. Sent(sstate1, sstate1', C1!Message)
    BY <1>1, <2>3 DEF Sent, C1!SendNameAck
  <2> QED BY <1>1, <2>4 DEF C1!SendNameAck, SetupStates
<1>2. CASE C1!SendWindow
  <2>1. C1!Message = BurstOf(swin1)
    BY <1>2, Child1Operators
       DEF C1!SendWindow, C1!Message, C1!Burst, C1!Fulls, C1!FullSeqs, BurstOf
  <2>2. C1!Message \in Seq(AnyPacket)
    BY <2>1, BurstType
  <2> DEFINE w == SetFrames(swin1, SeqsIn(swin1, "FRAME_FULL"), "FRAME_SENT")
  <2>3. w \in WindowType(AnyPacket)
    BY SetFramesType DEF FrameState
  <2>4. PICK top_sent \in {swin1.top_sent} \cup SeqsIn(swin1, "FRAME_FULL") :
          swin1' = [w EXCEPT !.top_sent = top_sent]
    BY <1>2, Child1Operators DEF C1!SendWindow, C1!Fulls
  <2>5. top_sent \in Nat
    BY SeqsInType DEF WindowType
  <2> HIDE DEF w
  <2>6. swin1' \in WindowType(AnyPacket)
    BY <2>3, <2>4, <2>5, CountersType
  <2> QED BY <1>2, <2>2, <2>6 DEF C1!SendWindow, Sent, TransferStates
<1>3. CASE C1!SendFileEof
  <2>1. C1!Message = <<Packet("FILE_EOF", sseq1, 0)>>
    BY <1>3, Child1Operators DEF C1!SendFileEof, C1!Message, C1!Burst
  <2>2. Packet("FILE_EOF", sseq1, 0) \in AnyPacket
    BY PacketIs DEF Flags
  <2>3. C1!Message \in Seq(AnyPacket)
    BY <2>1, <2>2
  <2> QED BY <1>3, <2>3 DEF C1!SendFileEof, Sent, TransferStates
<1> QED BY <1>1, <1>2, <1>3 DEF C1!ChildSends, C1!ServerSends

LEMMA Child1Hears ==
  ASSUME Child1TypeOK, NEW p \in AnyPacket,
         IF p = Damaged THEN C1!ChildHearsDamaged ELSE C1!ChildHears(p)
  PROVE  Child1TypeOK' /\ Heard(sstate1, sstate1', p, C1!Answer(p))
<1> USE DEF Child1TypeOK, ChildTypeOK
<1>1. p.flag \in Flags /\ p.seq \in Nat /\ Damaged.flag = "CORRUPT"
  BY DEF AnyPacket, Damaged, Packet
<1>2. C1!Answer(p) \in Seq(AnyPacket) /\ (p.flag # "FILE_BEGIN" => C1!Answer(p) = <<>>)
  <2>1. Packet("FILE_BEGIN_ACK", sseq1, 0) \in AnyPacket
    BY PacketIs DEF Flags
  <2> QED BY <2>1, Child1Operators DEF C1!Answer, C1!BeginsTransfer
<1>3. CASE C1!RecvBegin(p)
  <2>1. PICK n \in Nat, m \in Nat :
          swin1' = [window_alloc(sseq1, Packet("DATA", 0, 0), n, m) EXCEPT !.rr = 0]
    BY <1>3, Child1Operators, Parameters DEF C1!RecvBegin
  <2>2. Packet("DATA", 0, 0) \in AnyPacket
    BY PacketIs DEF Flags
  <2>3. swin1' \in WindowType(AnyPacket)
    BY <2>1, <2>2, AllocType
  <2> QED BY <1>2, <1>3, <2>3 DEF C1!RecvBegin, C1!BeginsTransfer, Heard, TransferStates
<1>4. CASE C1!RecvInit(p)
  BY <1>2, <1>4 DEF C1!RecvInit, Heard, SetupStates
<1>5. CASE C1!IgnoreInBegin(p) \/ (p = Damaged /\ C1!IgnoreInBegin(C1!Damaged))
  BY <1>2, <1>5 DEF C1!IgnoreInBegin, C1!svars, Heard
<1>6. CASE C1!RecvRR(p) \/ C1!RecvSREJ(p) \/ C1!RecvOther(p)
  <2>1. swin1.rr \in Nat /\ swin1.srej \in Nat
    BY DEF WindowType
  <2>2. swin1' \in WindowType(AnyPacket)
    <3>1. CASE C1!RecvRR(p)
      <4>1. PICK n \in Nat : swin1' = [swin1 EXCEPT !.num_wait = 0, !.rr = n]
        BY <1>1, <2>1, <3>1 DEF C1!RecvRR
      <4> QED BY <4>1, CountersType
    <3>2. CASE C1!RecvSREJ(p)
      <4>1. PICK n \in Nat : swin1' = [swin1 EXCEPT !.num_wait = 0, !.srej = n]
        BY <1>1, <2>1, <3>2 DEF C1!RecvSREJ
      <4> QED BY <4>1, CountersType
    <3>3. CASE C1!RecvOther(p)
      <4>1. swin1' = [swin1 EXCEPT !.num_wait = 0] /\ 0 \in Nat
        BY <3>3 DEF C1!RecvOther
      <4> QED BY <4>1, CountersType
    <3> QED BY <1>6, <3>1, <3>2, <3>3
  <2> QED BY <1>2, <1>6, <2>2
         DEF C1!RecvRR, C1!RecvSREJ, C1!RecvOther, C1!HearsResponse, Heard, TransferStates, SetupStates
<1>7. CASE C1!RecvEofAck(p)
  BY <1>2, <1>7 DEF C1!RecvEofAck, Heard, TransferStates
<1>8. CASE C1!IgnoreOnAck(p) \/ C1!IgnoreOnAck(C1!Damaged)
  BY <1>2, <1>8 DEF C1!IgnoreOnAck, C1!svars, Heard, TransferStates
<1>9. CASE C1!NoResponse
  BY <1>2, <1>9 DEF C1!NoResponse, Heard, TransferStates
<1> QED BY <1>3, <1>4, <1>5, <1>6, <1>7, <1>8, <1>9
       DEF C1!ChildHears, C1!ServerHears, C1!ChildHearsDamaged, C1!ServerHearsDamaged

LEMMA Child1TimesOut ==
  ASSUME Child1TypeOK, C1!ChildTimesOut
  PROVE  Child1TypeOK' /\ TimedOut(sstate1, sstate1')
BY DEF Child1TypeOK, ChildTypeOK, TimedOut, C1!ChildTimesOut, C1!ServerTimesOut, C1!NoBegin,
       C1!NoResponse, C1!NoAck, TransferStates

-----------------------------------------------------------------------------
(* The second child.                                                        *)
LEMMA Child2Operators ==
  /\ \A S, seq : C2!Rank(S, seq) = Rank(S, seq)
  /\ \A S : C2!Ascending(S) = Ascending(S) /\ C2!Cardinality(S) = Cardinality(S)
  /\ \A w, S, st : C2!SetFrames(w, S, st) = SetFrames(w, S, st)
  /\ \A w, st : C2!SeqsIn(w, st) = SeqsIn(w, st)
  /\ \A w : C2!Slide(w) = Slide(w)
  /\ \A seq, pkt, n, m : C2!window_alloc(seq, pkt, n, m) = window_alloc(seq, pkt, n, m)
  /\ \A flag, seq, data : C2!Packet(flag, seq, data) = Packet(flag, seq, data)
  /\ C2!Slots = Slots /\ \A seq : C2!get_frame_num(seq) = get_frame_num(seq)
  /\ C2!Damaged = Damaged
<1>1. \A S : C2!Cardinality(S) = Cardinality(S)
  BY DEF C2!Cardinality, Cardinality
<1>2. \A S, seq : C2!Rank(S, seq) = Rank(S, seq)
  BY <1>1 DEF C2!Rank, Rank
<1>3. \A S : C2!Ascending(S) = Ascending(S)
  BY <1>1 DEF C2!Ascending, Ascending
<1>4. C2!Slots = Slots /\ \A seq : C2!get_frame_num(seq) = get_frame_num(seq)
  BY DEF C2!Slots, Slots, C2!get_frame_num, get_frame_num
<1>5. \A w, S, st : C2!SetFrames(w, S, st) = SetFrames(w, S, st)
  BY DEF C2!SetFrames, SetFrames, C2!Slots, Slots, C2!get_frame_num, get_frame_num
<1>6. \A w, st : C2!SeqsIn(w, st) = SeqsIn(w, st)
  BY DEF C2!SeqsIn, SeqsIn, C2!WindowSeqs, WindowSeqs, C2!get_frame_num, get_frame_num
<1>7. \A w : C2!Slide(w) = Slide(w)
  BY DEF C2!Slide, Slide, C2!Acked, Acked, C2!SetFrames, SetFrames, C2!Slots, Slots,
         C2!get_frame_num, get_frame_num
<1>8. \A seq, pkt, n, m : C2!window_alloc(seq, pkt, n, m) = window_alloc(seq, pkt, n, m)
  BY DEF C2!window_alloc, window_alloc, C2!Slots, Slots
<1>9. \A flag, seq, data : C2!Packet(flag, seq, data) = Packet(flag, seq, data)
  BY DEF C2!Packet, Packet
<1>10. C2!Damaged = Damaged
  BY DEF C2!Damaged, Damaged, C2!Packet, Packet
<1> QED BY <1>1, <1>2, <1>3, <1>4, <1>5, <1>6, <1>7, <1>8, <1>9, <1>10

Child2TypeOK == ChildTypeOK(sstate2, swin2, fpos2, sseq2, eofwait2)

LEMMA Child2NoWindow == C2!NoWindow \in WindowType(AnyPacket)
<1>1. Packet("DATA", 0, 0) \in AnyPacket
  BY PacketIs DEF Flags
<1> QED BY <1>1, AllocType, Child2Operators DEF C2!NoWindow

LEMMA Child2Thinks ==
  ASSUME Child2TypeOK, NEW opens \in BOOLEAN, C2!ChildThinks(opens)
  PROVE  Child2TypeOK' /\ Thought(sstate2, sstate2')
<1> USE Parameters DEF Child2TypeOK, ChildTypeOK, SetupStates, TransferStates, Thought
<1>1. CASE C2!OpenFile(opens)
  BY <1>1, Child2NoWindow DEF C2!OpenFile
<1>2. CASE C2!FillWindow
  <2>1. C2!LastRead = LastReadOf(swin2, fpos2)
    BY Child2Operators DEF C2!LastRead, C2!Empties, LastReadOf
  <2>2. \A i : C2!FilledFrame(i) = FilledOf(swin2, fpos2, i)
    BY Child2Operators DEF C2!FilledFrame, C2!Empties, C2!BlockFor, FilledOf
  <2>3. PICK eof \in BOOLEAN :
          swin2' = [swin2 EXCEPT !.Frame = [i \in Slots |-> FilledOf(swin2, fpos2, i)], !.eof = eof]
    <3>1. swin2.eof \in BOOLEAN
      BY DEF WindowType
    <3> QED BY <1>2, <2>1, <2>2, <3>1, Child2Operators DEF C2!FillWindow
  <2>4. swin2' \in WindowType(AnyPacket) /\ LastReadOf(swin2, fpos2) \in Nat
    BY <2>3, FilledType
  <2>5. fpos2' \in Nat
    BY <1>2, <2>1, <2>4 DEF C2!FillWindow
  <2> QED BY <1>2, <2>4, <2>5 DEF C2!FillWindow
<1>3. CASE C2!RetryWindow
  <2> DEFINE w == SetFrames(swin2, SeqsIn(swin2, "FRAME_SENT"), "FRAME_FULL")
  <2>1. w \in WindowType(AnyPacket)
    BY SetFramesType DEF FrameState
  <2>2. w.num_wait + 1 \in Nat
    BY <2>1 DEF WindowType
  <2>3. swin2' = [w EXCEPT !.num_wait = w.num_wait + 1]
    BY <1>3, Child2Operators DEF C2!RetryWindow
  <2> HIDE DEF w
  <2>4. swin2' \in WindowType(AnyPacket)
    BY <2>1, <2>2, <2>3, CountersType
  <2> QED BY <1>3, <2>4 DEF C2!RetryWindow
<1>4. CASE C2!AbandonWindow \/ C2!AdjustDone \/ C2!AdjustStay
  BY <1>4 DEF C2!AbandonWindow, C2!AdjustDone, C2!AdjustStay
<1>5. CASE C2!AdjustSlide
  BY <1>5, SlideType, Child2Operators DEF C2!AdjustSlide
<1>6. CASE C2!CreateFileEof
  BY <1>6 DEF C2!CreateFileEof
<1>7. CASE C2!TimeoutOnAck
  BY <1>7 DEF C2!TimeoutOnAck
<1> QED BY <1>1, <1>2, <1>3, <1>4, <1>5, <1>6, <1>7 DEF C2!ChildThinks, C2!ServerThinks

LEMMA Child2Sends ==
  ASSUME Child2TypeOK, C2!ChildSends
  PROVE  Child2TypeOK' /\ Sent(sstate2, sstate2', C2!Message)
<1> USE DEF Child2TypeOK, ChildTypeOK
<1>1. CASE C2!SendNameAck
  <2>1. /\ Packet("FILE_NAME_ACK", sseq2, 0) \in AnyPacket
        /\ Packet("FILE_NAME_ERR_ACK", sseq2, 0) \in AnyPacket
    BY PacketIs DEF Flags
  <2>2. PICK p \in AnyPacket : p.flag # "FILE_BEGIN" /\ C2!Message = <<p>>
    <3>1. CASE sstate2 = "S_SEND_NAME_ACK"
      <4>1. C2!Message = <<Packet("FILE_NAME_ACK", sseq2, 0)>>
        BY <3>1, Child2Operators DEF C2!Message
      <4> QED BY <2>1, <4>1 DEF Packet
    <3>2. CASE sstate2 = "S_SEND_NAME_ERR_ACK"
      <4>1. C2!Message = <<Packet("FILE_NAME_ERR_ACK", sseq2, 0)>>
        BY <3>2, Child2Operators DEF C2!Message
      <4> QED BY <2>1, <4>1 DEF Packet
    <3> QED BY <1>1, <3>1, <3>2 DEF C2!SendNameAck
  <2>3. /\ C2!Message \in Seq(AnyPacket) /\ Len(C2!Message) = 1
        /\ C2!Message[1].flag # "FILE_BEGIN"
    BY <2>2
  <2>4. Sent(sstate2, sstate2', C2!Message)
    BY <1>1, <2>3 DEF Sent, C2!SendNameAck
  <2> QED BY <1>1, <2>4 DEF C2!SendNameAck, SetupStates
<1>2. CASE C2!SendWindow
  <2>1. C2!Message = BurstOf(swin2)
    BY <1>2, Child2Operators
       DEF C2!SendWindow, C2!Message, C2!Burst, C2!Fulls, C2!FullSeqs, BurstOf
  <2>2. C2!Message \in Seq(AnyPacket)
    BY <2>1, BurstType
  <2> DEFINE w == SetFrames(swin2, SeqsIn(swin2, "FRAME_FULL"), "FRAME_SENT")
  <2>3. w \in WindowType(AnyPacket)
    BY SetFramesType DEF FrameState
  <2>4. PICK top_sent \in {swin2.top_sent} \cup SeqsIn(swin2, "FRAME_FULL") :
          swin2' = [w EXCEPT !.top_sent = top_sent]
    BY <1>2, Child2Operators DEF C2!SendWindow, C2!Fulls
  <2>5. top_sent \in Nat
    BY SeqsInType DEF WindowType
  <2> HIDE DEF w
  <2>6. swin2' \in WindowType(AnyPacket)
    BY <2>3, <2>4, <2>5, CountersType
  <2> QED BY <1>2, <2>2, <2>6 DEF C2!SendWindow, Sent, TransferStates
<1>3. CASE C2!SendFileEof
  <2>1. C2!Message = <<Packet("FILE_EOF", sseq2, 0)>>
    BY <1>3, Child2Operators DEF C2!SendFileEof, C2!Message, C2!Burst
  <2>2. Packet("FILE_EOF", sseq2, 0) \in AnyPacket
    BY PacketIs DEF Flags
  <2>3. C2!Message \in Seq(AnyPacket)
    BY <2>1, <2>2
  <2> QED BY <1>3, <2>3 DEF C2!SendFileEof, Sent, TransferStates
<1> QED BY <1>1, <1>2, <1>3 DEF C2!ChildSends, C2!ServerSends

LEMMA Child2Hears ==
  ASSUME Child2TypeOK, NEW p \in AnyPacket,
         IF p = Damaged THEN C2!ChildHearsDamaged ELSE C2!ChildHears(p)
  PROVE  Child2TypeOK' /\ Heard(sstate2, sstate2', p, C2!Answer(p))
<1> USE DEF Child2TypeOK, ChildTypeOK
<1>1. p.flag \in Flags /\ p.seq \in Nat /\ Damaged.flag = "CORRUPT"
  BY DEF AnyPacket, Damaged, Packet
<1>2. C2!Answer(p) \in Seq(AnyPacket) /\ (p.flag # "FILE_BEGIN" => C2!Answer(p) = <<>>)
  <2>1. Packet("FILE_BEGIN_ACK", sseq2, 0) \in AnyPacket
    BY PacketIs DEF Flags
  <2> QED BY <2>1, Child2Operators DEF C2!Answer, C2!BeginsTransfer
<1>3. CASE C2!RecvBegin(p)
  <2>1. PICK n \in Nat, m \in Nat :
          swin2' = [window_alloc(sseq2, Packet("DATA", 0, 0), n, m) EXCEPT !.rr = 0]
    BY <1>3, Child2Operators, Parameters DEF C2!RecvBegin
  <2>2. Packet("DATA", 0, 0) \in AnyPacket
    BY PacketIs DEF Flags
  <2>3. swin2' \in WindowType(AnyPacket)
    BY <2>1, <2>2, AllocType
  <2> QED BY <1>2, <1>3, <2>3 DEF C2!RecvBegin, C2!BeginsTransfer, Heard, TransferStates
<1>4. CASE C2!RecvInit(p)
  BY <1>2, <1>4 DEF C2!RecvInit, Heard, SetupStates
<1>5. CASE C2!IgnoreInBegin(p) \/ (p = Damaged /\ C2!IgnoreInBegin(C2!Damaged))
  BY <1>2, <1>5 DEF C2!IgnoreInBegin, C2!svars, Heard
<1>6. CASE C2!RecvRR(p) \/ C2!RecvSREJ(p) \/ C2!RecvOther(p)
  <2>1. swin2.rr \in Nat /\ swin2.srej \in Nat
    BY DEF WindowType
  <2>2. swin2' \in WindowType(AnyPacket)
    <3>1. CASE C2!RecvRR(p)
      <4>1. PICK n \in Nat : swin2' = [swin2 EXCEPT !.num_wait = 0, !.rr = n]
        BY <1>1, <2>1, <3>1 DEF C2!RecvRR
      <4> QED BY <4>1, CountersType
    <3>2. CASE C2!RecvSREJ(p)
      <4>1. PICK n \in Nat : swin2' = [swin2 EXCEPT !.num_wait = 0, !.srej = n]
        BY <1>1, <2>1, <3>2 DEF C2!RecvSREJ
      <4> QED BY <4>1, CountersType
    <3>3. CASE C2!RecvOther(p)
      <4>1. swin2' = [swin2 EXCEPT !.num_wait = 0] /\ 0 \in Nat
        BY <3>3 DEF C2!RecvOther
      <4> QED BY <4>1, CountersType
    <3> QED BY <1>6, <3>1, <3>2, <3>3
  <2> QED BY <1>2, <1>6, <2>2
         DEF C2!RecvRR, C2!RecvSREJ, C2!RecvOther, C2!HearsResponse, Heard, TransferStates, SetupStates
<1>7. CASE C2!RecvEofAck(p)
  BY <1>2, <1>7 DEF C2!RecvEofAck, Heard, TransferStates
<1>8. CASE C2!IgnoreOnAck(p) \/ C2!IgnoreOnAck(C2!Damaged)
  BY <1>2, <1>8 DEF C2!IgnoreOnAck, C2!svars, Heard, TransferStates
<1>9. CASE C2!NoResponse
  BY <1>2, <1>9 DEF C2!NoResponse, Heard, TransferStates
<1> QED BY <1>3, <1>4, <1>5, <1>6, <1>7, <1>8, <1>9
       DEF C2!ChildHears, C2!ServerHears, C2!ChildHearsDamaged, C2!ServerHearsDamaged

LEMMA Child2TimesOut ==
  ASSUME Child2TypeOK, C2!ChildTimesOut
  PROVE  Child2TypeOK' /\ TimedOut(sstate2, sstate2')
BY DEF Child2TypeOK, ChildTypeOK, TimedOut, C2!ChildTimesOut, C2!ServerTimesOut, C2!NoBegin,
       C2!NoResponse, C2!NoAck, TransferStates
-----------------------------------------------------------------------------
(* rcopy.                                                                  *)
BeyondName(state) == state \notin NameStates

LEMMA WriteDataType ==
  ASSUME ClientTypeOK, WriteData
  PROVE  out' \in Seq([data : Nat, len : Nat]) /\ rwin' \in WindowType(Nat)
<1> DEFINE n == Cardinality(Writable)
           piece(i) == Piece(CHOOSE seq \in Writable : Rank(Writable, seq) = i)
           more == [i \in 1 .. n |-> piece(i)]
<1>1. Writable \in SUBSET Nat /\ IsFiniteSet(Writable)
  <2>1. SeqsIn(rwin, "FRAME_FULL") \in SUBSET Nat /\ IsFiniteSet(SeqsIn(rwin, "FRAME_FULL"))
    BY SeqsInType DEF ClientTypeOK
  <2> QED BY <2>1, FS_Subset DEF Writable
<1>2. n \in Nat
  BY <1>1, FS_CardinalityType
<1>3. \A i \in 1 .. n : piece(i) \in [data : Nat, len : Nat]
  <2>1. \A seq \in Writable : Piece(seq) \in [data : Nat, len : Nat]
    <3>1. \A i \in Slots : rwin.Frame[i].pkt \in Nat
      BY DEF ClientTypeOK, WindowType
    <3>2. \A seq \in Writable : get_frame_num(seq) \in Slots
      BY <1>1, SlotType
    <3> QED BY <3>1, <3>2 DEF Piece, ClientTypeOK
  <2>2. \A i \in 1 .. n : (CHOOSE seq \in Writable : Rank(Writable, seq) = i) \in Writable
    BY <1>1, RankOnto
  <2> QED BY <2>1, <2>2
<1>4. out' = out \o more
  BY DEF WriteData
<1> HIDE DEF n, piece
<1>5. more \in Seq([data : Nat, len : Nat])
  BY <1>2, <1>3
<1> HIDE DEF more
<1>6. out' \in Seq([data : Nat, len : Nat])
  BY <1>4, <1>5, ConcatProperties DEF ClientTypeOK
<1>7. rwin' \in WindowType(Nat)
  BY SetFramesType DEF WriteData, FrameState, ClientTypeOK
<1> QED BY <1>6, <1>7

LEMMA FillFrameType ==
  ASSUME NEW w \in WindowType(Nat), NEW p \in AnyPacket, NEW rr \in Nat
  PROVE  /\ FillFrame(w, p) \in WindowType(Nat)
         /\ [FillFrame(w, p) EXCEPT !.rr = rr] \in WindowType(Nat)
         /\ FillFrame(w, p).rr = w.rr
<1> DEFINE slot == get_frame_num(p.seq)
           frame == [state |-> "FRAME_FULL",
                     pkt   |-> IF w.Frame[slot].state = "FRAME_EMPTY" THEN p.data ELSE w.Frame[slot].pkt]
           F == [w.Frame EXCEPT ![slot] = frame]
<1>1. slot \in Slots /\ p.data \in Nat
  BY SlotType DEF AnyPacket
<1>2. w.Frame \in [Slots -> [state : FrameState, pkt : Nat]]
  BY DEF WindowType
<1>3. frame \in [state : FrameState, pkt : Nat]
  BY <1>1, <1>2 DEF FrameState
<1>4. FillFrame(w, p) = [w EXCEPT !.Frame = F]
  BY DEF FillFrame
<1> HIDE DEF frame, slot
<1>5. F \in [Slots -> [state : FrameState, pkt : Nat]]
  BY <1>1, <1>2, <1>3
<1> HIDE DEF F
<1> QED BY <1>4, <1>5 DEF WindowType

LEMMA ClientThinksIs ==
  ASSUME ClientTypeOK, ClientThinks, UNCHANGED peer
  PROVE  /\ ClientTypeOK' /\ ~RcopyLeft
         /\ \/ rstate = "S_TIMEOUT_ON_ACK" /\ rstate' \in {"S_START", "S_FINISH"}
            \/ BeyondName(rstate) /\ BeyondName(rstate')
         /\ Opened => Opened'
<1> USE DEF NameStates, BeyondName, Opened, RcopyLeft
<1>1. CASE TimeoutOnNameAck
  BY <1>1 DEF TimeoutOnNameAck, ClientTypeOK, RcopyStates
<1>2. CASE OpenLocalFile
  <2>1. out' \in Seq([data : Nat, len : Nat])
    BY <1>2 DEF OpenLocalFile
  <2> QED BY <1>2, <2>1 DEF OpenLocalFile, ClientTypeOK, RcopyStates
<1>3. CASE AbandonBegin
  BY <1>3 DEF AbandonBegin, ClientTypeOK, RcopyStates, setupVars
<1>4. CASE WriteData /\ UNCHANGED setupVars
  BY <1>4, WriteDataType DEF WriteData, ClientTypeOK, RcopyStates, setupVars
<1>5. CASE AdjustWindow /\ UNCHANGED setupVars
  <2>1. rwin' \in WindowType(Nat)
    BY <1>5, SlideType DEF AdjustWindow, ClientTypeOK
  <2> QED BY <1>5, <2>1 DEF AdjustWindow, ClientTypeOK, RcopyStates, setupVars
<1>6. CASE TimeoutOnData /\ UNCHANGED setupVars
  BY <1>6 DEF TimeoutOnData, ClientTypeOK, RcopyStates, setupVars
<1> QED BY <1>1, <1>2, <1>3, <1>4, <1>5, <1>6 DEF ClientThinks, RcopyThinks

LEMMA ClientSendsIs ==
  ASSUME ClientTypeOK, ClientSends, UNCHANGED peer
  PROVE  /\ ClientTypeOK' /\ ~RcopyLeft
         /\ \/ rstate = "S_START" /\ rstate' = "S_WAIT_ON_ACK" /\ Request.flag = "FILE_NAME"
            \/ BeyondName(rstate) /\ BeyondName(rstate')
         /\ Request \in AnyPacket
         /\ Opened => Opened'
<1> USE DEF NameStates, BeyondName, Opened, RcopyLeft
<1>1. rwin.rr \in Nat /\ rwin.srej \in Nat
  BY DEF ClientTypeOK, WindowType
<1>2. Request \in AnyPacket /\ (rstate = "S_START" => Request.flag = "FILE_NAME")
  BY <1>1, PacketIs DEF Request, Reply, Flags, Packet, ClientTypeOK
<1>3. CASE SendInitPkt
  BY <1>2, <1>3 DEF SendInitPkt, ClientTypeOK, RcopyStates, setupVars
<1>4. CASE SendBegin
  BY <1>2, <1>4 DEF SendBegin, ClientTypeOK, RcopyStates, setupVars
<1>5. CASE SendRR /\ UNCHANGED setupVars
  BY <1>2, <1>5 DEF SendRR, ClientTypeOK, RcopyStates, setupVars
<1>6. CASE SendSREJ /\ UNCHANGED setupVars
  <2>1. rwin' \in WindowType(Nat)
    BY <1>1, <1>6 DEF SendSREJ, ClientTypeOK, WindowType
  <2> QED BY <1>2, <1>6, <2>1 DEF SendSREJ, ClientTypeOK, RcopyStates, setupVars
<1>7. CASE SendEofAck /\ UNCHANGED setupVars
  BY <1>2, <1>7 DEF SendEofAck, ClientTypeOK, RcopyStates, setupVars
<1> QED BY <1>3, <1>4, <1>5, <1>6, <1>7 DEF ClientSends, RcopySends

LEMMA ClientHearsIs ==
  ASSUME ClientTypeOK, NEW p \in AnyPacket, peer' \in Processes,
         IF p = Damaged THEN ClientHearsDamaged ELSE ClientHears(p)
  PROVE  /\ ClientTypeOK' /\ ~RcopyLeft
         /\ \/ rstate = "S_WAIT_ON_ACK" /\ rstate' \in {"S_WAIT_ON_ACK", "S_OPEN_FILE"}
            \/ BeyondName(rstate) /\ BeyondName(rstate') /\ rstate' # "S_FINISH"
         /\ Opened => Opened'
<1> USE DEF NameStates, BeyondName, Opened, RcopyLeft
<1>1. p.seq \in Nat /\ p.data \in Nat
  BY DEF AnyPacket
<1>2. Received(p) \in Nat
  BY <1>1 DEF Received, ClientTypeOK
<1>3. rwin.rr + 1 \in Nat
  BY DEF ClientTypeOK, WindowType
<1>4. CASE RecvNameAck(p)
  BY <1>4 DEF RecvNameAck, ClientTypeOK, RcopyStates, setupVars
<1>5. CASE IgnoreOnNameAck(p) \/ IgnoreOnNameAck(Damaged)
  BY <1>5 DEF IgnoreOnNameAck, ClientTypeOK, RcopyStates, rvars, setupVars
<1>6. CASE RecvBeginAck(p)
  BY <1>6 DEF RecvBeginAck, ClientTypeOK, RcopyStates, setupVars
<1>7. CASE RecvNoBeginAck(p) \/ RecvNoBeginAck(Damaged)
  BY <1>7 DEF RecvNoBeginAck, ClientTypeOK, RcopyStates, setupVars
<1>8. CASE RecvEof(p) /\ UNCHANGED setupVars
  BY <1>1, <1>8 DEF RecvEof, HearsData, ClientTypeOK, RcopyStates, setupVars
<1>9. CASE RecvOld(p) /\ UNCHANGED setupVars
  BY <1>2, <1>9 DEF RecvOld, HearsData, ClientTypeOK, RcopyStates, setupVars
<1>10. CASE (RecvNext(p) \/ RecvAhead(p)) /\ UNCHANGED setupVars
  <2>1. CASE RecvNext(p)
    <3>1. rwin \in WindowType(Nat) /\ FillFrame(rwin, p).rr + 1 = rwin.rr + 1
      BY <1>3, FillFrameType DEF ClientTypeOK
    <3>2. rwin' = [FillFrame(rwin, p) EXCEPT !.rr = FillFrame(rwin, p).rr + 1]
      BY <2>1 DEF RecvNext
    <3>3. rwin' = [FillFrame(rwin, p) EXCEPT !.rr = rwin.rr + 1]
      BY <3>1, <3>2
    <3>4. rwin' \in WindowType(Nat)
      BY <1>3, <3>1, <3>3, FillFrameType
    <3> QED BY <1>2, <1>10, <2>1, <3>4 DEF RecvNext, HearsData, ClientTypeOK, RcopyStates, setupVars
  <2>2. CASE RecvAhead(p)
    <3>1. rwin \in WindowType(Nat) /\ rwin' = FillFrame(rwin, p)
      BY <2>2 DEF ClientTypeOK, RecvAhead
    <3>2. rwin' \in WindowType(Nat)
      BY <1>3, <3>1, FillFrameType
    <3> QED BY <1>2, <1>10, <2>2, <3>2 DEF RecvAhead, HearsData, ClientTypeOK, RcopyStates, setupVars
  <2> QED BY <1>10, <2>1, <2>2
<1>11. CASE IgnoreOnData(p) /\ UNCHANGED setupVars
  BY <1>2, <1>11 DEF IgnoreOnData, HearsData, ClientTypeOK, RcopyStates, setupVars
<1>12. CASE RecvCorrupt /\ UNCHANGED setupVars
  BY <1>12 DEF RecvCorrupt, ClientTypeOK, RcopyStates, setupVars
<1> QED BY <1>4, <1>5, <1>6, <1>7, <1>8, <1>9, <1>10, <1>11, <1>12
       DEF ClientHears, RcopyHears, ClientHearsDamaged

LEMMA ClientTimesOutIs ==
  ASSUME ClientTypeOK, ClientTimesOut, UNCHANGED peer
  PROVE  /\ ClientTypeOK' /\ ~RcopyLeft
         /\ \/ rstate = "S_WAIT_ON_ACK" /\ rstate' = "S_TIMEOUT_ON_ACK"
            \/ BeyondName(rstate) /\ BeyondName(rstate') /\ rstate' # "S_FINISH"
         /\ Opened => Opened'
<1> USE DEF NameStates, BeyondName, Opened, RcopyLeft
<1>1. CASE NoNameAck
  BY <1>1 DEF NoNameAck, ClientTypeOK, RcopyStates, setupVars
<1>2. CASE NoBeginAck
  BY <1>2 DEF NoBeginAck, ClientTypeOK, RcopyStates, setupVars
<1>3. CASE NoData /\ UNCHANGED setupVars
  BY <1>3 DEF NoData, ClientTypeOK, RcopyStates, setupVars
<1> QED BY <1>1, <1>2, <1>3 DEF ClientTimesOut
-----------------------------------------------------------------------------
(* Processes and their queues.                                             *)
Queues == [Processes -> Seq(Envelopes)]

LEMMA ProcessesAre ==
  /\ Children = {"child1", "child2"}
  /\ Processes = {"child1", "child2", "rcopy", "dispatcher"}
  /\ Children \subseteq Processes /\ "rcopy" \notin Children /\ "dispatcher" \notin Children
  /\ \A child \in Children : Other(child) \in Children /\ Other(child) # child
BY DEF Processes, Children, Other

Gone == {"NO_PROCESS", "S_FINISH"}

(* Who has a socket, before a step and after it.                           *)
LEMMA ListensIs ==
  /\ \A child \in Children : Listens(child) <=> SState(child) \notin Gone
  /\ \A child \in Children : Listens(child)' <=> SState(child)' \notin Gone
  /\ Listens("rcopy") <=> ~RcopyLeft
  /\ Listens("rcopy")' <=> ~RcopyLeft'
  /\ Listens("dispatcher") <=> serving
  /\ Listens("dispatcher")' <=> serving'
<1>1. /\ Listens("child1") <=> sstate1 \notin Gone
      /\ Listens("child1")' <=> sstate1' \notin Gone
  BY DEF Listens, C1!NoProcess, C1!Left, Gone
<1>2. /\ Listens("child2") <=> sstate2 \notin Gone
      /\ Listens("child2")' <=> sstate2' \notin Gone
  BY DEF Listens, C2!NoProcess, C2!Left, Gone
<1>3. /\ Listens("rcopy") <=> ~RcopyLeft
      /\ Listens("rcopy")' <=> ~RcopyLeft'
      /\ Listens("dispatcher") <=> serving
      /\ Listens("dispatcher")' <=> serving'
  BY DEF Listens
<1> QED BY <1>1, <1>2, <1>3 DEF Children, SState

(* r are the queues q with pkts from src at the end of dst's, or q.        *)
Extended(q, src, dst, pkts, r) ==
  /\ r \in Queues
  /\ \A me \in Processes : me # dst => r[me] = q[me]
  /\ pkts = <<>> => r = q
  /\ Len(q[dst]) \in Nat /\ Len(pkts) \in Nat
  /\ Len(r[dst]) =< Len(q[dst]) + Len(pkts)
  /\ \A i \in 1 .. Len(r[dst]) :
       \/ \E j \in 1 .. Len(q[dst]) : r[dst][i] = q[dst][j]
       \/ \E j \in 1 .. Len(pkts) : r[dst][i] = [src |-> src, pkt |-> pkts[j]]
  /\ r # q => Listens(dst)

LEMMA PostedIs ==
  ASSUME NEW q \in Queues, NEW src \in Processes, NEW dst \in Processes,
         NEW pkts \in Seq(AnyPacket)
  PROVE  Extended(q, src, dst, pkts, Posted(q, src, dst, pkts))
<1> DEFINE more == [i \in 1 .. Len(pkts) |-> [src |-> src, pkt |-> pkts[i]]]
           r == Posted(q, src, dst, pkts)
<1>1. q[dst] \in Seq(Envelopes) /\ Len(q[dst]) \in Nat /\ Len(pkts) \in Nat
  BY DEF Queues
<1>2. more \in Seq(Envelopes) /\ Len(more) = Len(pkts)
      /\ \A i \in 1 .. Len(pkts) : more[i] = [src |-> src, pkt |-> pkts[i]]
  <2>1. \A i \in 1 .. Len(pkts) : [src |-> src, pkt |-> pkts[i]] \in Envelopes
    BY DEF Envelopes
  <2> QED BY <1>1, <2>1
<1>3. pkts = <<>> => more = <<>>
  BY <1>1
<1>4. r = IF Listens(dst) THEN [q EXCEPT ![dst] = q[dst] \o more] ELSE q
  BY DEF Posted
<1> HIDE DEF more, r
<1>5. /\ q[dst] \o more \in Seq(Envelopes)
      /\ Len(q[dst] \o more) = Len(q[dst]) + Len(pkts)
      /\ \A i \in 1 .. Len(q[dst]) + Len(pkts) :
           (q[dst] \o more)[i] = IF i =< Len(q[dst]) THEN q[dst][i] ELSE more[i - Len(q[dst])]
  <2> DEFINE old == q[dst]
  <2>1. old \in Seq(Envelopes)
    BY <1>1
  <2> HIDE DEF old
  <2>2. /\ old \o more \in Seq(Envelopes)
        /\ Len(old \o more) = Len(old) + Len(more)
        /\ \A i \in 1 .. Len(old) + Len(more) :
             (old \o more)[i] = IF i =< Len(old) THEN old[i] ELSE more[i - Len(old)]
    <3>1. more \in Seq(Envelopes)
      BY <1>2
    <3> QED BY <2>1, <3>1, ConcatProperties, Zenon
  <2> QED BY <1>2, <2>2 DEF old
<1>6. pkts = <<>> => q[dst] \o more = q[dst]
  BY <1>1, <1>3, ConcatEmptySeq
<1>7. CASE ~Listens(dst)
  <2>1. r = q
    BY <1>4, <1>7
  <2> QED BY <1>1, <2>1 DEF Extended, r
<1>8. CASE Listens(dst)
  <2>1. r = [q EXCEPT ![dst] = q[dst] \o more]
    BY <1>4, <1>8
  <2>2. r \in Queues /\ r[dst] = q[dst] \o more /\ \A me \in Processes : me # dst => r[me] = q[me]
    BY <1>5, <2>1 DEF Queues
  <2>3. pkts = <<>> => r = q
    BY <1>6, <2>1 DEF Queues
  <2>4. ASSUME NEW i \in 1 .. Len(r[dst])
        PROVE  \/ \E j \in 1 .. Len(q[dst]) : r[dst][i] = q[dst][j]
               \/ \E j \in 1 .. Len(pkts) : r[dst][i] = [src |-> src, pkt |-> pkts[j]]
    <3>1. /\ i \in 1 .. Len(q[dst]) + Len(pkts)
          /\ r[dst][i] = IF i =< Len(q[dst]) THEN q[dst][i] ELSE more[i - Len(q[dst])]
      BY <1>1, <1>5, <2>2
    <3>2. CASE i =< Len(q[dst])
      BY <1>1, <3>1, <3>2
    <3>3. CASE ~(i =< Len(q[dst]))
      <4>1. i - Len(q[dst]) \in 1 .. Len(pkts)
        BY <1>1, <3>1, <3>3
      <4> QED BY <1>2, <3>1, <3>3, <4>1
    <3> QED BY <3>2, <3>3
  <2>5. Len(r[dst]) =< Len(q[dst]) + Len(pkts)
    BY <1>1, <1>5, <2>2
  <2> HIDE DEF r
  <2>6. Extended(q, src, dst, pkts, r)
    BY <1>1, <1>8, <2>2, <2>3, <2>4, <2>5 DEF Extended
  <2> QED BY <2>6 DEF r
<1> QED BY <1>7, <1>8

LEMMA ConsumedIs ==
  ASSUME queue \in Queues, NEW me \in Processes, Waiting(me)
  PROVE  /\ Consumed(me) \in Queues
         /\ \A you \in Processes : you # me => Consumed(me)[you] = queue[you]
         /\ Len(queue[me]) \in Nat \ {0} /\ Len(Consumed(me)[me]) = Len(queue[me]) - 1
         /\ \A i \in 1 .. Len(Consumed(me)[me]) :
              i + 1 \in 1 .. Len(queue[me]) /\ Consumed(me)[me][i] = queue[me][i + 1]
         /\ Head(queue[me]) = queue[me][1] /\ 1 \in 1 .. Len(queue[me])
         /\ Head(queue[me]) \in Envelopes /\ Arrived(me) \in AnyPacket
<1>1. queue[me] \in Seq(Envelopes) /\ queue[me] # <<>>
  BY DEF Queues, Waiting
<1>2. Len(queue[me]) \in Nat \ {0}
  BY <1>1, EmptySeq
<1>3. /\ Head(queue[me]) \in Envelopes /\ Tail(queue[me]) \in Seq(Envelopes)
      /\ Len(Tail(queue[me])) = Len(queue[me]) - 1
      /\ \A i \in 1 .. Len(Tail(queue[me])) : Tail(queue[me])[i] = queue[me][i + 1]
  BY <1>1, HeadTailProperties
<1>4. Head(queue[me]) = queue[me][1] /\ Head(queue[me]).pkt \in AnyPacket
  BY <1>2, <1>3 DEF Envelopes
<1>5. Consumed(me) \in Queues /\ Consumed(me)[me] = Tail(queue[me])
      /\ \A you \in Processes : you # me => Consumed(me)[you] = queue[you]
  BY <1>3 DEF Consumed, Queues
<1> QED BY <1>2, <1>3, <1>4, <1>5 DEF Arrived

(* A queue of at most one datagram is empty when it has been read.         *)
LEMMA EmptyIs ==
  ASSUME NEW q \in Queues, NEW me \in Processes
  PROVE  /\ Len(q[me]) \in Nat
         /\ q[me] = <<>> <=> Len(q[me]) = 0
<1>1. q[me] \in Seq(Envelopes)
  BY DEF Queues
<1> QED BY <1>1, EmptySeq
-----------------------------------------------------------------------------
(* A child's step as the conversation sees it, whichever child it is.      *)
ChildDoes(c) ==
  /\ UNCHANGED <<client, environment>>
  /\ SState(Other(c))' = SState(Other(c))
  /\ waited' = [waited EXCEPT ![c] = 0]
  /\ \/ queue' = queue /\ Thought(SState(c), SState(c)')
     \/ queue' = queue /\ queue[c] = <<>> /\ TimedOut(SState(c), SState(c)')
     \/ \E pkts : queue' = Posted(queue, c, "rcopy", pkts) /\ Sent(SState(c), SState(c)', pkts)
     \/ /\ Waiting(c)
        /\ \E answer : /\ queue' = Posted(Consumed(c), c, "rcopy", answer)
                       /\ Heard(SState(c), SState(c)', Arrived(c), answer)

LEMMA Child1StepIs ==
  ASSUME SessionTypeOK, Child1Step
  PROVE  Child1TypeOK' /\ Child2TypeOK' /\ ChildDoes("child1")
<1>1. /\ Child1TypeOK /\ queue \in Queues /\ fopens \in BOOLEAN
      /\ UNCHANGED <<child2, client, environment>>
  BY DEF SessionTypeOK, Child1TypeOK, Queues, Child1Step
<1>2. Child2TypeOK'
  BY <1>1 DEF SessionTypeOK, Child2TypeOK, ChildTypeOK, child2
<1>3. /\ SState("child1") = sstate1 /\ SState("child1")' = sstate1' /\ Other("child1") = "child2"
      /\ SState(Other("child1"))' = SState(Other("child1"))
  BY <1>1 DEF SState, Other, child2
<1>4. CASE C1!ChildThinks(fopens) /\ Computes("child1")
  BY <1>1, <1>2, <1>3, <1>4, Child1Thinks DEF ChildDoes, Computes
<1>5. CASE C1!ChildSends /\ Sends("child1", "rcopy", C1!Message)
  BY <1>1, <1>2, <1>3, <1>5, Child1Sends DEF ChildDoes, Sends
<1>6. CASE /\ Waiting("child1")
           /\ IF Arrived("child1") = Damaged THEN C1!ChildHearsDamaged
              ELSE C1!ChildHears(Arrived("child1"))
           /\ Reads("child1", "rcopy", C1!Answer(Arrived("child1")))
  <2>1. Arrived("child1") \in AnyPacket
    BY <1>1, <1>6, ConsumedIs, ProcessesAre
  <2>2. Child1TypeOK' /\ Heard(sstate1, sstate1', Arrived("child1"), C1!Answer(Arrived("child1")))
    BY <1>1, <1>6, <2>1, Child1Hears
  <2> QED BY <1>1, <1>2, <1>3, <1>6, <2>2 DEF ChildDoes, Reads
<1>7. CASE Silence("child1", C1!ChildPatience) /\ C1!ChildTimesOut /\ Computes("child1")
  BY <1>1, <1>2, <1>3, <1>7, Child1TimesOut DEF ChildDoes, Computes, Silence, Waiting
<1> QED BY <1>4, <1>5, <1>6, <1>7 DEF Child1Step

LEMMA Child2StepIs ==
  ASSUME SessionTypeOK, Child2Step
  PROVE  Child2TypeOK' /\ Child1TypeOK' /\ ChildDoes("child2")
<1>1. /\ Child2TypeOK /\ queue \in Queues /\ fopens \in BOOLEAN
      /\ UNCHANGED <<child1, client, environment>>
  BY DEF SessionTypeOK, Child2TypeOK, Queues, Child2Step
<1>2. Child1TypeOK'
  BY <1>1 DEF SessionTypeOK, Child1TypeOK, ChildTypeOK, child1
<1>3. /\ SState("child2") = sstate2 /\ SState("child2")' = sstate2' /\ Other("child2") = "child1"
      /\ SState(Other("child2"))' = SState(Other("child2"))
  BY <1>1 DEF SState, Other, child1
<1>4. CASE C2!ChildThinks(fopens) /\ Computes("child2")
  BY <1>1, <1>2, <1>3, <1>4, Child2Thinks DEF ChildDoes, Computes
<1>5. CASE C2!ChildSends /\ Sends("child2", "rcopy", C2!Message)
  BY <1>1, <1>2, <1>3, <1>5, Child2Sends DEF ChildDoes, Sends
<1>6. CASE /\ Waiting("child2")
           /\ IF Arrived("child2") = Damaged THEN C2!ChildHearsDamaged
              ELSE C2!ChildHears(Arrived("child2"))
           /\ Reads("child2", "rcopy", C2!Answer(Arrived("child2")))
  <2>1. Arrived("child2") \in AnyPacket
    BY <1>1, <1>6, ConsumedIs, ProcessesAre
  <2>2. Child2TypeOK' /\ Heard(sstate2, sstate2', Arrived("child2"), C2!Answer(Arrived("child2")))
    BY <1>1, <1>6, <2>1, Child2Hears
  <2> QED BY <1>1, <1>2, <1>3, <1>6, <2>2 DEF ChildDoes, Reads
<1>7. CASE Silence("child2", C2!ChildPatience) /\ C2!ChildTimesOut /\ Computes("child2")
  BY <1>1, <1>2, <1>3, <1>7, Child2TimesOut DEF ChildDoes, Computes, Silence, Waiting
<1> QED BY <1>4, <1>5, <1>6, <1>7 DEF Child2Step

(* What may be in a queue q1 of a process that was in its queue q0 before, *)
(* or else was sent by src.                                                *)
From(q0, q1, src) ==
  \A i \in 1 .. Len(q1) : q1[i].src = src \/ \E j \in 1 .. Len(q0) : q1[i] = q0[j]

Within(q0, q1) ==
  \A i \in 1 .. Len(q1) : \E j \in 1 .. Len(q0) : q1[i] = q0[j]

(* What a child's step does to the queues and the clocks.                  *)
LEMMA ChildQueues ==
  ASSUME SessionTypeOK, NEW c \in Children, ChildDoes(c)
  PROVE  /\ queue' \in Queues /\ waited' \in [Processes -> Nat]
         /\ \A me \in Processes : me \notin {c, "rcopy"} => queue'[me] = queue[me]
         /\ Within(queue[c], queue'[c])
         /\ From(queue["rcopy"], queue'["rcopy"], c)
         /\ queue'["rcopy"] # queue["rcopy"] => Listens("rcopy")
<1>1. /\ queue \in Queues /\ waited \in [Processes -> Nat] /\ c \in Processes /\ "rcopy" \in Processes
      /\ c # "rcopy"
  BY ProcessesAre DEF SessionTypeOK, Queues
<1>2. waited' \in [Processes -> Nat]
  BY <1>1 DEF ChildDoes
<1> DEFINE Goal == /\ queue' \in Queues
                   /\ \A me \in Processes : me \notin {c, "rcopy"} => queue'[me] = queue[me]
                   /\ Within(queue[c], queue'[c])
                   /\ From(queue["rcopy"], queue'["rcopy"], c)
                   /\ queue'["rcopy"] # queue["rcopy"] => Listens("rcopy")
<1>3. ASSUME queue' = queue PROVE Goal
  <2>1. /\ Within(queue[c], queue'[c])
        /\ From(queue["rcopy"], queue'["rcopy"], c)
    BY <1>3 DEF Within, From
  <2> QED BY <1>1, <1>3, <2>1
<1>4. ASSUME NEW q \in Queues, NEW pkts, Extended(q, c, "rcopy", pkts, queue'),
             \A me \in Processes : me # c => q[me] = queue[me], Within(queue[c], q[c])
      PROVE  Goal
  <2>1. /\ queue' \in Queues
        /\ \A me \in Processes : me # "rcopy" => queue'[me] = q[me]
        /\ queue' # q => Listens("rcopy")
    BY <1>4 DEF Extended
  <2>2. From(q["rcopy"], queue'["rcopy"], c)
    <3>1. ASSUME NEW i \in 1 .. Len(queue'["rcopy"])
          PROVE  \/ queue'["rcopy"][i].src = c
                 \/ \E j \in 1 .. Len(q["rcopy"]) : queue'["rcopy"][i] = q["rcopy"][j]
      <4>1. \/ \E j \in 1 .. Len(q["rcopy"]) : queue'["rcopy"][i] = q["rcopy"][j]
            \/ \E j \in 1 .. Len(pkts) : queue'["rcopy"][i] = [src |-> c, pkt |-> pkts[j]]
        BY <1>4, <3>1 DEF Extended
      <4>2. ASSUME NEW e, NEW x, e = [src |-> c, pkt |-> x] PROVE e.src = c
        BY <4>2
      <4> DEFINE e == queue'["rcopy"][i]
      <4> HIDE DEF e
      <4>3. CASE \E j \in 1 .. Len(pkts) : e = [src |-> c, pkt |-> pkts[j]]
        BY <4>2, <4>3, Zenon DEF e
      <4> QED BY <4>1, <4>3 DEF e
    <3> QED BY <3>1 DEF From
  <2> QED BY <1>1, <1>4, <2>1, <2>2
<1>5. ASSUME NEW pkts, queue' = Posted(queue, c, "rcopy", pkts), Sent(SState(c), SState(c)', pkts)
      PROVE  Goal
  <2>1. pkts \in Seq(AnyPacket)
    BY <1>5 DEF Sent
  <2>2. Extended(queue, c, "rcopy", pkts, queue')
    BY <1>1, <1>5, <2>1, PostedIs
  <2>3. Within(queue[c], queue[c])
    BY DEF Within
  <2> QED BY <1>1, <1>4, <2>2, <2>3
<1>6. ASSUME NEW answer, Waiting(c), queue' = Posted(Consumed(c), c, "rcopy", answer),
             Heard(SState(c), SState(c)', Arrived(c), answer)
      PROVE  Goal
  <2>1. answer \in Seq(AnyPacket)
    BY <1>6 DEF Heard
  <2>2. /\ Consumed(c) \in Queues
        /\ \A me \in Processes : me # c => Consumed(c)[me] = queue[me]
        /\ Within(queue[c], Consumed(c)[c])
    BY <1>1, <1>6, ConsumedIs DEF Within
  <2>3. Extended(Consumed(c), c, "rcopy", answer, queue')
    BY <1>1, <1>6, <2>1, <2>2, PostedIs
  <2> QED BY <1>4, <2>2, <2>3
<1> QED BY <1>2, <1>3, <1>5, <1>6 DEF ChildDoes

(* A child does something while rcopy waits for its FILE_NAME_ACK: the     *)
(* request has come to it, or it has lost patience with rcopy.             *)
LEMMA ChildKeepsRequest ==
  ASSUME SessionTypeOK, OneRequest, rstate \in NameStates, NEW c \in Children, ChildDoes(c)
  PROVE  OneRequest'
<1>1. /\ queue \in Queues /\ queue' \in Queues /\ c \in Processes /\ "rcopy" \in Processes
      /\ c # "rcopy" /\ rstate' = rstate /\ peer' = peer /\ serving' = serving
      /\ waited \in [Processes -> Nat]
  BY ChildQueues, ProcessesAre DEF ChildDoes, client, rvars, environment, SessionTypeOK, Queues
<1>2. waited'["rcopy"] = waited["rcopy"]
  BY <1>1 DEF ChildDoes
<1>3. /\ \A child \in Children : Untouched(child)
      /\ \A me \in Processes :
           /\ Len(queue[me]) =< 1
           /\ Waiting(me) => Listens(me) /\ ~Asking(me)
           /\ Stirs(me) => rstate = "S_WAIT_ON_ACK" /\ waited["rcopy"] = 0
      /\ \A me, you \in Processes : Stirs(me) /\ Stirs(you) => me = you
      /\ peer # "rcopy" /\ \A i \in 1 .. Len(queue["rcopy"]) : queue["rcopy"][i].src \in Children
  BY DEF OneRequest
<1>4. SState(c) \notin TransferStates /\ SState(c) \in Gone \cup SetupStates
  BY <1>3 DEF Untouched, TransferStates, SetupStates, Gone
<1>5. /\ \A child \in Children : child # c => SState(child)' = SState(child)
      /\ \A me \in Processes : me # c => (Asking(me)' <=> Asking(me)) /\ (Listens(me)' <=> Listens(me))
  <2>1. \A child \in Children : child # c => child = Other(c)
    BY DEF Children, Other
  <2>2. \A child \in Children : child # c => SState(child)' = SState(child)
    BY <2>1 DEF ChildDoes
  <2>3. (Listens("rcopy")' <=> Listens("rcopy")) /\ (Listens("dispatcher")' <=> Listens("dispatcher"))
    BY <1>1, ListensIs DEF RcopyLeft
  <2> QED BY <2>2, <2>3, ListensIs, ProcessesAre DEF Asking
<1>6. CASE queue' = queue /\ Thought(SState(c), SState(c)')
  <2>1. Asking(c) /\ Asking(c)' /\ SState(c)' \in SetupStates
    BY <1>4, <1>6 DEF Thought, Asking, SetupStates
  <2> QED
    BY <1>1, <1>2, <1>3, <1>5, <1>6, <2>1, ProcessesAre DEF OneRequest, Untouched, Stirs, Waiting
<1>7. CASE queue' = queue /\ queue[c] = <<>> /\ TimedOut(SState(c), SState(c)')
  <2>1. ~Asking(c)' /\ ~Waiting(c)' /\ SState(c)' = "S_FINISH"
    BY <1>4, <1>7 DEF TimedOut, Asking, SetupStates, Waiting
  <2> QED
    BY <1>1, <1>2, <1>3, <1>5, <1>7, <2>1, ProcessesAre DEF OneRequest, Untouched, Stirs, Waiting
<1>8. ASSUME NEW pkts, queue' = Posted(queue, c, "rcopy", pkts), Sent(SState(c), SState(c)', pkts)
      PROVE  OneRequest'
  <2>1. /\ Asking(c) /\ SState(c)' = "S_FILE_BEGIN" /\ ~Asking(c)'
        /\ pkts \in Seq(AnyPacket) /\ Len(pkts) = 1
    BY <1>4, <1>8 DEF Sent, Asking, SetupStates
  <2>2. /\ \A me \in Processes : me # c => ~Stirs(me)
        /\ rstate = "S_WAIT_ON_ACK" /\ waited["rcopy"] = 0 /\ ~Waiting(c)
    BY <1>1, <1>3, <2>1 DEF Stirs
  <2>3. /\ \A me \in Processes : me # "rcopy" => queue'[me] = queue[me]
        /\ Len(queue'["rcopy"]) =< Len(queue["rcopy"]) + Len(pkts)
        /\ \A i \in 1 .. Len(queue'["rcopy"]) :
             \/ \E j \in 1 .. Len(queue["rcopy"]) : queue'["rcopy"][i] = queue["rcopy"][j]
             \/ \E j \in 1 .. Len(pkts) : queue'["rcopy"][i] = [src |-> c, pkt |-> pkts[j]]
    <3>1. Extended(queue, c, "rcopy", pkts, queue')
      BY <1>1, <1>8, <2>1, PostedIs
    <3> QED BY <3>1 DEF Extended
  <2>4. \A me \in Processes : queue[me] = <<>>
    BY <2>2 DEF Stirs, Waiting
  <2>5. Len(queue["rcopy"]) = 0
    BY <1>1, <2>4, EmptyIs
  <2>6. /\ Len(queue'["rcopy"]) =< 1
        /\ \A i \in 1 .. Len(queue'["rcopy"]) : queue'["rcopy"][i].src = c
    <3>1. 1 .. Len(queue["rcopy"]) = {}
      BY <2>5
    <3> QED BY <2>1, <2>3, <2>5, <3>1
  <2>7. \A me \in Processes : Stirs(me)' => me = "rcopy"
    BY <1>5, <2>1, <2>2, <2>3, <2>4 DEF Stirs, Waiting
  <2>8. Listens("rcopy")' /\ ~Asking("rcopy")'
    BY <1>1, ListensIs, ProcessesAre DEF RcopyLeft, NameStates, Asking
  <2>9. \A child \in Children : Untouched(child)'
    BY <1>3, <1>5, <2>1, <2>3, ProcessesAre DEF Untouched, SetupStates
  <2>10. \A me \in Processes : Len(queue'[me]) =< 1
    BY <1>3, <2>3, <2>6
  <2> QED
    BY <1>1, <1>2, <2>2, <2>6, <2>7, <2>8, <2>9, <2>10 DEF OneRequest, Stirs
<1>9. ASSUME NEW answer, Waiting(c), queue' = Posted(Consumed(c), c, "rcopy", answer),
             Heard(SState(c), SState(c)', Arrived(c), answer)
      PROVE  OneRequest'
  <2>1. /\ \A me \in Processes : me # c => ~Stirs(me)
        /\ rstate = "S_WAIT_ON_ACK" /\ waited["rcopy"] = 0
    BY <1>1, <1>3, <1>9 DEF Stirs
  <2>2. /\ Consumed(c) \in Queues /\ Len(queue[c]) \in Nat \ {0}
        /\ Len(Consumed(c)[c]) = Len(queue[c]) - 1
        /\ \A me \in Processes : me # c => Consumed(c)[me] = queue[me]
        /\ Arrived(c) = queue[c][1].pkt /\ 1 \in 1 .. Len(queue[c])
    BY <1>1, <1>9, ConsumedIs DEF Arrived
  <2>3. Arrived(c).flag # "FILE_BEGIN"
    BY <1>3, <2>2 DEF Untouched
  <2>4. SState(c)' \in {"S_FILE_BEGIN", "S_FILE_NAME"} /\ answer = <<>> /\ answer \in Seq(AnyPacket)
    BY <1>4, <1>9, <2>3 DEF Heard, TransferStates
  <2>5. queue' = Consumed(c)
    <3>1. Extended(Consumed(c), c, "rcopy", answer, queue')
      BY <1>1, <1>9, <2>2, <2>4, PostedIs
    <3> QED BY <2>4, <3>1 DEF Extended
  <2>6. queue'[c] = <<>>
    <3>1. Len(queue[c]) =< 1
      BY <1>1, <1>3
    <3>2. Len(queue'[c]) = 0
      BY <2>2, <2>5, <3>1
    <3> QED BY <1>1, <3>2, EmptyIs
  <2>7. \A me \in Processes : ~Waiting(me)'
    BY <2>1, <2>2, <2>5, <2>6 DEF Stirs, Waiting
  <2>8. \A me \in Processes : Stirs(me)' => me = c
    BY <1>5, <2>1, <2>7 DEF Stirs
  <2>9. \A me \in Processes : queue'[me] = <<>>
    BY <2>7 DEF Waiting
  <2>10. \A me \in Processes : Len(queue'[me]) = 0
    BY <1>1, <2>9, EmptyIs
  <2>11. \A child \in Children : Untouched(child)'
    BY <1>3, <1>5, <2>4, <2>10, ProcessesAre DEF Untouched, SetupStates
  <2> QED BY <1>1, <1>2, <1>3, <2>1, <2>7, <2>8, <2>10, <2>11 DEF OneRequest
<1> QED BY <1>6, <1>7, <1>8, <1>9 DEF ChildDoes

(* A child does something while rcopy speaks with its peer.                *)
LEMMA ChildKeepsPeer ==
  ASSUME SessionTypeOK, OnePeer, rstate \notin NameStates, ~RcopyLeft,
         NEW c \in Children, ChildDoes(c)
  PROVE  OnePeer'
<1>1. /\ rstate' = rstate /\ peer' = peer
      /\ peer \in Children
      /\ SState(Other(peer)) \in {"NO_PROCESS", "S_FILE_BEGIN", "S_FINISH"}
      /\ queue[Other(peer)] = <<>> /\ queue["dispatcher"] = <<>>
      /\ \A i \in 1 .. Len(queue["rcopy"]) : queue["rcopy"][i].src = peer
  BY DEF OnePeer, ChildDoes, client, rvars
<1>2. /\ Other(peer) \in Children /\ Other(peer) # peer
      /\ Other(peer) \in Processes /\ Other(peer) # "rcopy" /\ "dispatcher" \in Processes
      /\ c # "dispatcher" /\ (c = peer \/ c = Other(peer))
  BY <1>1, ProcessesAre DEF Other, Children
<1>3. /\ \A me \in Processes : me \notin {c, "rcopy"} => queue'[me] = queue[me]
      /\ From(queue["rcopy"], queue'["rcopy"], c)
  BY ChildQueues
<1>4. queue'["dispatcher"] = <<>>
  BY <1>1, <1>2, <1>3
<1>5. CASE c = peer
  <2>1. SState(Other(c))' = SState(Other(c)) /\ queue'[Other(c)] = <<>>
    BY <1>1, <1>2, <1>3, <1>5 DEF ChildDoes
  <2>2. \A i \in 1 .. Len(queue'["rcopy"]) : queue'["rcopy"][i].src = peer
    BY <1>1, <1>3, <1>5 DEF From
  <2>3. SState(Other(peer))' = SState(Other(c))' /\ queue'[Other(peer')] = <<>>
    BY <1>1, <1>5, <2>1 DEF SState, Other
  <2> QED BY <1>1, <1>4, <1>5, <2>1, <2>2, <2>3 DEF OnePeer
<1>6. CASE c = Other(peer)
  <2>1. queue' = queue /\ TimedOut(SState(c), SState(c)')
    BY <1>1, <1>6 DEF ChildDoes, Thought, Sent, TransferStates, Waiting
  <2>2. SState(c)' = "S_FINISH"
    BY <1>1, <1>6, <2>1 DEF TimedOut, TransferStates
  <2>3. SState(Other(peer))' = "S_FINISH" /\ queue'[Other(peer')] = <<>>
    BY <1>1, <1>2, <1>6, <2>1, <2>2 DEF SState, Other
  <2> QED BY <1>1, <2>1, <2>3 DEF OnePeer
<1> QED BY <1>2, <1>5, <1>6

(* A child does something when rcopy has gone: one that is out of reach of *)
(* file_transfer stays so.                                                 *)
LEMMA ChildKeepsForgotten ==
  ASSUME SessionTypeOK, OneForgotten, RcopyLeft, NEW c \in Children, ChildDoes(c)
  PROVE  OneForgotten'
<1>1. PICK d \in Children : Untouched(d)
  BY DEF OneForgotten
<1>2. /\ queue \in Queues /\ d \in Processes /\ d # "rcopy"
  BY ProcessesAre DEF SessionTypeOK, Queues
<1>3. /\ \A me \in Processes : me \notin {c, "rcopy"} => queue'[me] = queue[me]
      /\ Within(queue[c], queue'[c])
  BY ChildQueues
<1>4. \A i \in 1 .. Len(queue'[d]) : queue'[d][i].pkt.flag # "FILE_BEGIN"
  <2>1. CASE d = c
    BY <1>1, <1>3, <2>1 DEF Untouched, Within
  <2>2. CASE d # c
    BY <1>1, <1>2, <1>3, <2>2 DEF Untouched
  <2> QED BY <2>1, <2>2
<1>5. SState(d)' \in Gone \cup SetupStates
  <2>1. CASE d # c
    <3>1. d = Other(c)
      BY <2>1 DEF Children, Other
    <3> QED BY <1>1, <3>1 DEF ChildDoes, Untouched, Gone
  <2>2. CASE d = c
    <3>1. SState(c) \in Gone \cup SetupStates /\ SState(c) \notin TransferStates
      BY <1>1, <2>2 DEF Untouched, Gone, SetupStates, TransferStates
    <3>2. ASSUME Waiting(c) PROVE Arrived(c).flag # "FILE_BEGIN"
      BY <1>1, <1>2, <2>2, <3>2, ConsumedIs DEF Untouched, Arrived
    <3> QED BY <2>2, <3>1, <3>2 DEF ChildDoes, Thought, TimedOut, Sent, Heard, Gone, SetupStates
  <2> QED BY <2>1, <2>2
<1> QED BY <1>4, <1>5 DEF OneForgotten, Untouched, Gone

-----------------------------------------------------------------------------
(* rcopy's step as the conversation sees it.                               *)
LEMMA Unmoved ==
  ASSUME UNCHANGED <<child1, child2>>
  PROVE  /\ \A child \in Children : SState(child)' = SState(child)
         /\ \A child \in Children : Listens(child)' <=> Listens(child)
         /\ \A me \in Processes : Asking(me)' <=> Asking(me)
<1>1. \A child \in Children : SState(child)' = SState(child)
  BY DEF SState, child1, child2
<1> QED BY <1>1, ListensIs DEF Asking

RcopyThinksOf ==
  /\ queue' = queue /\ peer' = peer
  /\ \/ rstate = "S_TIMEOUT_ON_ACK" /\ rstate' \in {"S_START", "S_FINISH"}
     \/ BeyondName(rstate) /\ BeyondName(rstate')

RcopySendsTo ==
  /\ peer' = peer
  /\ \E pkts : /\ pkts \in Seq(AnyPacket) /\ Len(pkts) = 1
               /\ Extended(queue, "rcopy", peer, pkts, queue')
               /\ \/ /\ rstate = "S_START" /\ rstate' = "S_WAIT_ON_ACK"
                     /\ pkts[1].flag = "FILE_NAME"
                  \/ BeyondName(rstate) /\ BeyondName(rstate')

RcopyReadsFrom ==
  /\ Waiting("rcopy")
  /\ queue' = Consumed("rcopy") /\ peer' = queue["rcopy"][1].src
  /\ \/ rstate = "S_WAIT_ON_ACK" /\ rstate' \in {"S_WAIT_ON_ACK", "S_OPEN_FILE"}
     \/ BeyondName(rstate) /\ BeyondName(rstate') /\ rstate' # "S_FINISH"

RcopyLosesPatience ==
  /\ queue["rcopy"] = <<>> /\ queue' = queue /\ peer' = peer
  /\ \/ /\ rstate = "S_WAIT_ON_ACK" /\ rstate' = "S_TIMEOUT_ON_ACK"
        /\ waited["rcopy"] # 0
     \/ BeyondName(rstate) /\ BeyondName(rstate') /\ rstate' # "S_FINISH"

LEMMA RcopyStepIs ==
  ASSUME SessionTypeOK, RcopyStep
  PROVE  /\ ClientTypeOK' /\ ~RcopyLeft /\ (Opened => Opened')
         /\ queue' \in Queues /\ waited' = [waited EXCEPT !["rcopy"] = 0]
         /\ waited' \in [Processes -> Nat]
         /\ UNCHANGED <<child1, child2, environment>>
         /\ RcopyThinksOf \/ RcopySendsTo \/ RcopyReadsFrom \/ RcopyLosesPatience
<1>1. /\ ClientTypeOK /\ queue \in Queues /\ waited \in [Processes -> Nat]
      /\ peer \in Processes /\ "rcopy" \in Processes
      /\ UNCHANGED <<child1, child2, environment>>
  BY ProcessesAre DEF SessionTypeOK, ClientTypeOK, Queues, RcopyStep
<1>2. waited' = [waited EXCEPT !["rcopy"] = 0]
  BY DEF RcopyStep, RcopyReads, Computes, Sends, Reads
<1>3. waited' \in [Processes -> Nat]
  BY <1>1, <1>2
<1>4. CASE ClientThinks /\ Computes("rcopy") /\ UNCHANGED peer
  BY <1>1, <1>2, <1>3, <1>4, ClientThinksIs DEF Computes, RcopyThinksOf
<1>5. CASE ClientSends /\ Sends("rcopy", peer, <<Request>>) /\ UNCHANGED peer
  <2>1. /\ ClientTypeOK' /\ ~RcopyLeft /\ (Opened => Opened')
        /\ Request \in AnyPacket
        /\ \/ rstate = "S_START" /\ rstate' = "S_WAIT_ON_ACK" /\ Request.flag = "FILE_NAME"
           \/ BeyondName(rstate) /\ BeyondName(rstate')
    BY <1>1, <1>5, ClientSendsIs
  <2> DEFINE pkts == <<Request>>
  <2>2. pkts \in Seq(AnyPacket) /\ Len(pkts) = 1 /\ pkts[1] = Request
    BY <2>1
  <2>3. queue' = Posted(queue, "rcopy", peer, pkts)
    BY <1>5 DEF Sends
  <2> HIDE DEF pkts
  <2>4. Extended(queue, "rcopy", peer, pkts, queue')
    BY <1>1, <2>2, <2>3, PostedIs
  <2>5. queue' \in Queues
    BY <2>4 DEF Extended
  <2>6. RcopySendsTo
    BY <1>5, <2>1, <2>2, <2>4 DEF RcopySendsTo
  <2> QED BY <1>1, <1>2, <1>3, <2>1, <2>5, <2>6
<1>6. CASE RcopyReads
  <2>1. /\ Arrived("rcopy") \in AnyPacket /\ Head(queue["rcopy"]) \in Envelopes
        /\ Head(queue["rcopy"]) = queue["rcopy"][1] /\ Consumed("rcopy") \in Queues
    BY <1>1, <1>6, ConsumedIs DEF RcopyReads
  <2>2. peer' \in Processes /\ peer' = queue["rcopy"][1].src
    BY <1>6, <2>1 DEF RcopyReads, Envelopes
  <2>3. /\ ClientTypeOK' /\ ~RcopyLeft /\ (Opened => Opened')
        /\ \/ rstate = "S_WAIT_ON_ACK" /\ rstate' \in {"S_WAIT_ON_ACK", "S_OPEN_FILE"}
           \/ BeyondName(rstate) /\ BeyondName(rstate') /\ rstate' # "S_FINISH"
    BY <1>1, <1>6, <2>1, <2>2, ClientHearsIs DEF RcopyReads
  <2>4. queue' = Consumed("rcopy")
    <3> DEFINE none == <<>>
    <3>1. none \in Seq(AnyPacket) /\ queue' = Posted(Consumed("rcopy"), "rcopy", peer, none)
      BY <1>6 DEF RcopyReads, Reads
    <3>2. none = <<>>
      OBVIOUS
    <3> HIDE DEF none
    <3>3. Extended(Consumed("rcopy"), "rcopy", peer, none, queue')
      BY <1>1, <2>1, <3>1, PostedIs
    <3> QED BY <3>2, <3>3 DEF Extended
  <2> QED BY <1>1, <1>2, <1>3, <1>6, <2>1, <2>2, <2>3, <2>4 DEF RcopyReads, RcopyReadsFrom
<1>7. CASE Silence("rcopy", ClientPatience) /\ ClientTimesOut /\ Computes("rcopy") /\ UNCHANGED peer
  <2>1. rstate = "S_WAIT_ON_ACK" => ClientPatience = 1
    BY DEF ClientPatience, MAX_SEND_WAIT_TIME_S
  <2> QED BY <1>1, <1>2, <1>3, <1>7, <2>1, ClientTimesOutIs
         DEF Computes, Silence, Waiting, RcopyLosesPatience
<1> QED BY <1>4, <1>5, <1>6, <1>7 DEF RcopyStep

(* rcopy does something while it waits for its FILE_NAME_ACK.              *)
LEMMA RcopyKeepsRequest ==
  ASSUME SessionTypeOK, OneRequest, rstate \in NameStates, RcopyStep
  PROVE  Conversation'
<1>1. /\ queue \in Queues /\ queue' \in Queues /\ waited' = [waited EXCEPT !["rcopy"] = 0]
      /\ waited \in [Processes -> Nat] /\ waited'["rcopy"] = 0
      /\ serving' = serving /\ ~RcopyLeft /\ "rcopy" \in Processes
      /\ peer \in Processes
  BY RcopyStepIs, ProcessesAre DEF SessionTypeOK, ClientTypeOK, Queues, environment
<1>2. /\ \A child \in Children : SState(child)' = SState(child)
      /\ \A child \in Children : Listens(child)' <=> Listens(child)
      /\ \A me \in Processes : Asking(me)' <=> Asking(me)
      /\ Listens("dispatcher")' <=> Listens("dispatcher")
  BY <1>1, RcopyStepIs, Unmoved, ListensIs
<1>3. /\ \A child \in Children : Untouched(child)
      /\ \A me \in Processes :
           /\ Len(queue[me]) =< 1
           /\ Waiting(me) => Listens(me) /\ ~Asking(me)
           /\ Stirs(me) => rstate = "S_WAIT_ON_ACK" /\ waited["rcopy"] = 0
      /\ \A me, you \in Processes : Stirs(me) /\ Stirs(you) => me = you
      /\ peer # "rcopy" /\ \A i \in 1 .. Len(queue["rcopy"]) : queue["rcopy"][i].src \in Children
  BY DEF OneRequest
<1>4. \A child \in Children : queue'[child] = queue[child] => Untouched(child)'
  BY <1>2, <1>3 DEF Untouched
<1>5. \A me \in Processes : me # "rcopy" /\ ~RcopyLeft' => (Listens(me)' <=> Listens(me))
  BY <1>2, ProcessesAre
<1>6. ~RcopyLeft' => Listens("rcopy")'
  BY ListensIs
<1>7. ~BeyondName(rstate)
  BY DEF BeyondName
<1>8. ASSUME RcopyThinksOf PROVE Conversation'
  <2>1. /\ queue' = queue /\ peer' = peer /\ rstate' \in {"S_START", "S_FINISH"}
        /\ rstate # "S_WAIT_ON_ACK"
    BY <1>7, <1>8 DEF RcopyThinksOf
  <2>2. \A me \in Processes : ~Stirs(me)
    BY <1>3, <2>1
  <2>3. \A me \in Processes : ~Stirs(me)' /\ ~Waiting(me)'
    BY <1>2, <2>1, <2>2 DEF Stirs, Waiting
  <2>4. OneRequest'
    BY <1>1, <1>3, <1>4, <2>1, <2>3, ProcessesAre DEF OneRequest
  <2>5. OnePeer' /\ OneForgotten'
    BY <1>1, <1>4, <2>1, ProcessesAre DEF OnePeer, OneForgotten, RcopyLeft, NameStates
  <2> QED BY <2>4, <2>5 DEF Conversation
<1>9. ASSUME RcopySendsTo PROVE Conversation'
  <2>1. PICK pkts : /\ pkts \in Seq(AnyPacket) /\ Len(pkts) = 1
                    /\ Extended(queue, "rcopy", peer, pkts, queue')
                    /\ rstate = "S_START" /\ rstate' = "S_WAIT_ON_ACK" /\ peer' = peer
                    /\ pkts[1].flag = "FILE_NAME"
    BY <1>7, <1>9 DEF RcopySendsTo
  <2>2. \A me \in Processes : ~Stirs(me) /\ ~Waiting(me)
    BY <1>3, <2>1 DEF Stirs
  <2>3. \A me \in Processes : queue[me] = <<>> /\ Len(queue[me]) = 0
    BY <1>1, <2>2, EmptyIs DEF Waiting
  <2>4. /\ \A me \in Processes : me # peer => queue'[me] = queue[me]
        /\ Len(queue'[peer]) =< 1
        /\ \A i \in 1 .. Len(queue'[peer]) : queue'[peer][i] = [src |-> "rcopy", pkt |-> pkts[1]]
        /\ queue' # queue => Listens(peer)
    <3>1. 1 .. Len(queue[peer]) = {}
      BY <1>1, <2>3
    <3> QED BY <1>1, <2>1, <2>3, <3>1 DEF Extended
  <2>5. \A me \in Processes : Stirs(me)' => me = peer /\ Listens(peer)
    BY <1>2, <2>2, <2>3, <2>4 DEF Stirs, Waiting
  <2>6. \A me \in Processes : Waiting(me)' => Listens(me)' /\ ~Asking(me)'
    <3>1. ASSUME NEW me \in Processes, Waiting(me)' PROVE Listens(me)' /\ ~Asking(me)'
      <4>1. me = peer /\ Listens(me)
        BY <2>5, <3>1 DEF Stirs
      <4>2. ~RcopyLeft'
        BY <2>1 DEF RcopyLeft
      <4> QED BY <1>2, <1>3, <1>5, <2>2, <4>1, <4>2 DEF Stirs
    <3> QED BY <3>1
  <2>7. \A child \in Children : Untouched(child)'
    <3>1. ASSUME NEW child \in Children PROVE Untouched(child)'
      <4>1. CASE child # peer
        BY <1>4, <2>4, <4>1, ProcessesAre
      <4>2. CASE child = peer
        <5>1. \A i \in 1 .. Len(queue'[child]) : queue'[child][i].pkt.flag # "FILE_BEGIN"
          BY <2>1, <2>4, <4>2
        <5> QED BY <1>2, <1>3, <5>1 DEF Untouched
      <4> QED BY <4>1, <4>2
    <3> QED BY <3>1
  <2>8. \A me \in Processes : Len(queue'[me]) =< 1
    BY <1>3, <2>4
  <2>9. queue'["rcopy"] = queue["rcopy"]
    BY <1>1, <1>3, <2>4
  <2>10. OneRequest'
    BY <1>1, <1>3, <2>1, <2>5, <2>6, <2>7, <2>8, <2>9 DEF OneRequest
  <2> QED BY <2>1, <2>10 DEF Conversation, OnePeer, OneForgotten, RcopyLeft, NameStates
<1>10. ASSUME RcopyReadsFrom PROVE Conversation'
  <2>1. /\ Waiting("rcopy") /\ queue' = Consumed("rcopy") /\ peer' = queue["rcopy"][1].src
        /\ rstate = "S_WAIT_ON_ACK" /\ rstate' \in {"S_WAIT_ON_ACK", "S_OPEN_FILE"}
    BY <1>7, <1>10 DEF RcopyReadsFrom
  <2>2. /\ \A me \in Processes : me # "rcopy" => queue'[me] = queue[me]
        /\ Len(queue'["rcopy"]) = Len(queue["rcopy"]) - 1 /\ Len(queue["rcopy"]) \in Nat \ {0}
        /\ 1 \in 1 .. Len(queue["rcopy"])
    BY <1>1, <2>1, ConsumedIs
  <2>3. peer' \in Children /\ Stirs("rcopy")
    BY <1>3, <2>1, <2>2 DEF Stirs
  <2>4. \A me \in Processes : ~Asking(me) /\ (me # "rcopy" => ~Waiting(me))
    BY <1>1, <1>3, <2>3, ProcessesAre DEF Stirs, Asking
  <2>5. Len(queue'["rcopy"]) = 0 /\ queue'["rcopy"] = <<>>
    <3>1. Len(queue["rcopy"]) =< 1
      BY <1>1, <1>3
    <3> DEFINE n == Len(queue["rcopy"])
               m == Len(queue'["rcopy"])
    <3>2. n \in Nat \ {0} /\ n =< 1 /\ m = n - 1
      BY <2>2, <3>1
    <3> HIDE DEF n, m
    <3>3. m = 0
      BY <3>2
    <3>4. Len(queue'["rcopy"]) = 0
      BY <3>3 DEF m
    <3> QED BY <1>1, <3>4, EmptyIs
  <2>6. \A me \in Processes : queue'[me] = <<>> /\ Len(queue'[me]) = 0 /\ ~Waiting(me)' /\ ~Stirs(me)'
    <3>1. \A me \in Processes : queue'[me] = <<>>
      BY <2>2, <2>4, <2>5 DEF Waiting
    <3> QED BY <1>1, <1>2, <2>4, <3>1, EmptyIs DEF Stirs, Waiting
  <2>7. \A child \in Children : Untouched(child)'
    BY <1>4, <2>2, ProcessesAre
  <2>8. OneRequest'
    BY <1>1, <2>1, <2>3, <2>6, <2>7, ProcessesAre DEF OneRequest
  <2>9. \A child \in Children : SState(child)' \in {"NO_PROCESS", "S_FILE_BEGIN", "S_FINISH"}
    BY <1>2, <1>3, <2>4, ProcessesAre DEF Untouched, Asking, SetupStates
  <2>10. OnePeer'
    <3>1. SState(Other(peer))' \in {"NO_PROCESS", "S_FILE_BEGIN", "S_FINISH"}
      BY <2>3, <2>9 DEF SState, Other, Children
    <3>2. queue'[Other(peer')] = <<>> /\ queue'["dispatcher"] = <<>>
      BY <2>3, <2>6, ProcessesAre
    <3>3. 1 .. Len(queue'["rcopy"]) = {}
      BY <2>5
    <3> QED BY <2>3, <3>1, <3>2, <3>3 DEF OnePeer
  <2> QED BY <2>1, <2>8, <2>10 DEF Conversation, OneForgotten, RcopyLeft
<1>11. ASSUME RcopyLosesPatience PROVE Conversation'
  <2>1. /\ queue' = queue /\ peer' = peer /\ rstate' = "S_TIMEOUT_ON_ACK" /\ waited["rcopy"] # 0
    BY <1>7, <1>11 DEF RcopyLosesPatience
  <2>2. \A me \in Processes : ~Stirs(me)
    BY <1>3, <2>1
  <2>3. \A me \in Processes : ~Stirs(me)' /\ ~Waiting(me)'
    BY <1>2, <2>1, <2>2 DEF Stirs, Waiting
  <2>4. OneRequest'
    BY <1>1, <1>3, <1>4, <2>1, <2>3, ProcessesAre DEF OneRequest
  <2> QED BY <2>1, <2>4 DEF Conversation, OnePeer, OneForgotten, RcopyLeft, NameStates
<1> QED BY <1>8, <1>9, <1>10, <1>11, RcopyStepIs

(* rcopy does something in conversation with its peer.                     *)
LEMMA RcopyKeepsPeer ==
  ASSUME SessionTypeOK, OnePeer, rstate \notin NameStates, RcopyStep
  PROVE  Conversation'
<1>1. /\ queue \in Queues /\ queue' \in Queues /\ ~RcopyLeft /\ "rcopy" \in Processes
      /\ rstate' \notin NameStates
  BY RcopyStepIs, ProcessesAre
     DEF SessionTypeOK, Queues, RcopyThinksOf, RcopySendsTo, RcopyReadsFrom, RcopyLosesPatience,
         BeyondName, NameStates
<1>2. \A child \in Children : SState(child)' = SState(child)
  BY RcopyStepIs, Unmoved
<1>3. /\ peer \in Children
      /\ SState(Other(peer)) \in {"NO_PROCESS", "S_FILE_BEGIN", "S_FINISH"}
      /\ queue[Other(peer)] = <<>> /\ queue["dispatcher"] = <<>>
      /\ \A i \in 1 .. Len(queue["rcopy"]) : queue["rcopy"][i].src = peer
  BY <1>1 DEF OnePeer
<1>4. /\ Other(peer) \in Children /\ Other(peer) # peer /\ peer \in Processes
      /\ Other(peer) \in Processes /\ Other(peer) # "rcopy" /\ "dispatcher" \in Processes
      /\ peer # "dispatcher" /\ peer # "rcopy"
  BY <1>3, ProcessesAre
<1>5. /\ peer' = peer
      /\ queue'[Other(peer)] = <<>> /\ queue'["dispatcher"] = <<>>
      /\ Within(queue["rcopy"], queue'["rcopy"])
  <2>1. CASE queue' = queue /\ peer' = peer
    BY <1>3, <2>1 DEF Within
  <2>2. CASE RcopySendsTo
    <3>1. peer' = peer /\ \A me \in Processes : me # peer => queue'[me] = queue[me]
      BY <2>2 DEF RcopySendsTo, Extended
    <3> QED BY <1>1, <1>3, <1>4, <3>1 DEF Within
  <2>3. CASE RcopyReadsFrom
    <3>1. /\ \A me \in Processes : me # "rcopy" => queue'[me] = queue[me]
          /\ Within(queue["rcopy"], queue'["rcopy"])
          /\ 1 \in 1 .. Len(queue["rcopy"]) /\ peer' = queue["rcopy"][1].src
      BY <1>1, <2>3, ConsumedIs DEF RcopyReadsFrom, Within
    <3> QED BY <1>3, <1>4, <3>1
  <2> QED BY <2>1, <2>2, <2>3, RcopyStepIs DEF RcopyThinksOf, RcopyLosesPatience
<1>6. \A i \in 1 .. Len(queue'["rcopy"]) : queue'["rcopy"][i].src = peer
  BY <1>3, <1>5 DEF Within
<1>7. SState(Other(peer))' \in {"NO_PROCESS", "S_FILE_BEGIN", "S_FINISH"}
  BY <1>2, <1>3, <1>4, <1>5 DEF SState, Other, Children
<1>8. OnePeer'
  BY <1>3, <1>5, <1>6, <1>7 DEF OnePeer
<1>9. OneForgotten'
  <2>1. Len(queue'[Other(peer)]) = 0
    BY <1>1, <1>4, <1>5, EmptyIs
  <2>2. SState(Other(peer))' = SState(Other(peer)) /\ Other(peer)' = Other(peer)
    BY <1>2, <1>4, <1>5 DEF SState, Other, Children
  <2>3. \E child \in Children : SState(child)' \in {"NO_PROCESS", "S_FILE_BEGIN", "S_FINISH"}
                                /\ Len(queue'[child]) = 0
    BY <1>2, <1>3, <1>4, <2>1
  <2> QED BY <2>3 DEF OneForgotten, Untouched, SetupStates
<1> QED BY <1>1, <1>8, <1>9 DEF Conversation, OneRequest

-----------------------------------------------------------------------------
(* The environment and the dispatcher.                                     *)

(* A queue from which datagrams are lost and in which they are damaged.    *)
Damped(q0, q1) ==
  /\ Len(q1) =< Len(q0)
  /\ \A i \in 1 .. Len(q1) : \E j \in 1 .. Len(q0) :
       /\ q1[i].src = q0[j].src
       /\ q1[i].pkt = q0[j].pkt \/ q1[i].pkt = Damaged

LEMMA DampedIs ==
  ASSUME queue \in Queues, queue' \in Queues, NEW me \in Processes, Damped(queue[me], queue'[me])
  PROVE  /\ queue[me] = <<>> => queue'[me] = <<>>
         /\ \A i \in 1 .. Len(queue'[me]) :
              queue'[me][i].pkt.flag = "FILE_BEGIN" =>
                \E j \in 1 .. Len(queue[me]) : queue[me][j].pkt.flag = "FILE_BEGIN"
<1>1. queue[me] = <<>> => queue'[me] = <<>>
  <2> DEFINE n == Len(queue[me])
             m == Len(queue'[me])
  <2>1. n \in Nat /\ m \in Nat /\ m =< n
    BY EmptyIs DEF Damped
  <2>2. (queue[me] = <<>> => n = 0) /\ (m = 0 => queue'[me] = <<>>)
    BY EmptyIs
  <2> HIDE DEF n, m
  <2> QED BY <2>1, <2>2
<1>2. Damaged.flag # "FILE_BEGIN"
  BY DEF Damaged, Packet
<1> QED BY <1>1, <1>2 DEF Damped

(* Nothing is sent, read or thought of: datagrams may go, processes may be *)
(* killed, rcopy excepted, and time may pass when nobody stirs.            *)
LEMMA QuietKeepsConversation ==
  ASSUME SessionTypeOK, Conversation, queue' \in Queues,
         \A me \in Processes : Damped(queue[me], queue'[me]),
         \A child \in Children : \/ SState(child)' = SState(child)
                                 \/ SState(child)' = "S_FINISH" /\ queue'[child] = <<>>,
         serving' = serving \/ queue'["dispatcher"] = <<>>,
         rstate' = rstate, peer' = peer,
         waited'["rcopy"] = waited["rcopy"] \/ \A me \in Processes : ~Stirs(me)
  PROVE  Conversation'
<1>1. /\ queue \in Queues /\ Children \subseteq Processes
      /\ "rcopy" \in Processes /\ "dispatcher" \in Processes
  BY ProcessesAre DEF SessionTypeOK, Queues
<1>2. \A me \in Processes : queue[me] = <<>> => queue'[me] = <<>>
  BY <1>1, DampedIs
<1>3. \A me \in Processes : queue'[me] # <<>> => queue[me] # <<>> /\ (Listens(me) => Listens(me)')
  <2>1. ASSUME NEW me \in Processes, queue'[me] # <<>>, Listens(me) PROVE Listens(me)'
    <3>1. CASE me \in Children
      BY <2>1, <3>1, ListensIs
    <3>2. CASE me = "rcopy"
      BY <2>1, <3>2, ListensIs DEF RcopyLeft
    <3>3. CASE me = "dispatcher"
      BY <2>1, <3>3, ListensIs
    <3> QED BY <3>1, <3>2, <3>3, ProcessesAre
  <2> QED BY <1>2, <2>1
<1>4. \A me \in Processes : Asking(me)' => Asking(me)
  BY DEF Asking, SetupStates
<1>5. \A me \in Processes : Stirs(me)' => Stirs(me)
  BY <1>3, <1>4 DEF Stirs, Waiting
<1>6. \A child \in Children : Untouched(child) => Untouched(child)'
  <2>1. ASSUME NEW child \in Children, Untouched(child) PROVE Untouched(child)'
    <3>1. \A i \in 1 .. Len(queue'[child]) : queue'[child][i].pkt.flag # "FILE_BEGIN"
      BY <1>1, <2>1, DampedIs DEF Untouched
    <3> QED BY <2>1, <3>1 DEF Untouched
  <2> QED BY <2>1
<1>7. ASSUME rstate \in NameStates PROVE OneRequest'
  <2>1. /\ \A child \in Children : Untouched(child)
        /\ \A me \in Processes :
             /\ Len(queue[me]) =< 1
             /\ Waiting(me) => Listens(me) /\ ~Asking(me)
             /\ Stirs(me) => rstate = "S_WAIT_ON_ACK" /\ waited["rcopy"] = 0
        /\ \A me, you \in Processes : Stirs(me) /\ Stirs(you) => me = you
        /\ peer # "rcopy" /\ \A i \in 1 .. Len(queue["rcopy"]) : queue["rcopy"][i].src \in Children
    BY <1>7 DEF Conversation, OneRequest
  <2>2. \A me \in Processes : Len(queue'[me]) =< 1
    <3>1. ASSUME NEW me \in Processes PROVE Len(queue'[me]) =< 1
      <4> DEFINE n == Len(queue[me])
                 m == Len(queue'[me])
      <4>1. n \in Nat /\ m \in Nat /\ m =< n /\ n =< 1
        BY <1>1, <2>1, EmptyIs DEF Damped
      <4> HIDE DEF n, m
      <4>2. m =< 1
        BY <4>1
      <4> QED BY <4>2 DEF m
    <3> QED BY <3>1
  <2>3. \A me \in Processes : Waiting(me)' => Listens(me)' /\ ~Asking(me)'
    BY <1>3, <1>4, <2>1 DEF Waiting
  <2>4. \A me \in Processes : Stirs(me)' => rstate' = "S_WAIT_ON_ACK" /\ waited'["rcopy"] = 0
    BY <1>5, <2>1
  <2>5. \A i \in 1 .. Len(queue'["rcopy"]) : queue'["rcopy"][i].src \in Children
    BY <1>1, <2>1 DEF Damped
  <2> QED BY <1>5, <1>6, <2>1, <2>2, <2>3, <2>4, <2>5 DEF OneRequest
<1>8. OnePeer'
  <2>1. SUFFICES ASSUME rstate \notin NameStates, ~RcopyLeft PROVE OnePeer'
    BY DEF OnePeer, RcopyLeft
  <2>2. /\ peer \in Children
        /\ SState(Other(peer)) \in {"NO_PROCESS", "S_FILE_BEGIN", "S_FINISH"}
        /\ queue[Other(peer)] = <<>> /\ queue["dispatcher"] = <<>>
        /\ \A i \in 1 .. Len(queue["rcopy"]) : queue["rcopy"][i].src = peer
    BY <2>1 DEF Conversation, OnePeer
  <2>3. Other(peer) \in Children
    BY <2>2, ProcessesAre
  <2>4. queue'[Other(peer)] = <<>> /\ queue'["dispatcher"] = <<>>
    BY <1>1, <1>2, <2>2, <2>3
  <2>5. \A i \in 1 .. Len(queue'["rcopy"]) : queue'["rcopy"][i].src = peer
    BY <1>1, <2>2 DEF Damped
  <2>6. SState(Other(peer))' \in {"NO_PROCESS", "S_FILE_BEGIN", "S_FINISH"}
    BY <2>2, <2>3 DEF SState, Other, Children
  <2> QED BY <2>2, <2>4, <2>5, <2>6 DEF OnePeer
<1>9. OneForgotten'
  BY <1>6 DEF Conversation, OneForgotten, RcopyLeft
<1> QED BY <1>7, <1>8, <1>9 DEF Conversation, OneRequest

(* A queue as it is, without its first datagram, or with that one damaged. *)
LEMMA DampedQueues ==
  ASSUME queue \in Queues, NEW me \in Processes, Waiting(me)
  PROVE  /\ \A you \in Processes : Damped(queue[you], queue[you])
         /\ \A you \in Processes : Damped(queue[you], Consumed(me)[you])
         /\ LET hit == [queue EXCEPT ![me][1].pkt = Damaged]
            IN  hit \in Queues /\ \A you \in Processes : Damped(queue[you], hit[you])
<1>1. \A you \in Processes : queue[you] \in Seq(Envelopes) /\ Len(queue[you]) \in Nat
  BY DEF Queues
<1>2. \A you \in Processes : Damped(queue[you], queue[you])
  BY <1>1 DEF Damped
<1>3. /\ \A you \in Processes : you # me => Consumed(me)[you] = queue[you]
      /\ Len(queue[me]) \in Nat \ {0} /\ Len(Consumed(me)[me]) = Len(queue[me]) - 1
      /\ \A i \in 1 .. Len(Consumed(me)[me]) :
           i + 1 \in 1 .. Len(queue[me]) /\ Consumed(me)[me][i] = queue[me][i + 1]
      /\ 1 \in 1 .. Len(queue[me])
  BY ConsumedIs
<1>4. \A you \in Processes : Damped(queue[you], Consumed(me)[you])
  <2> DEFINE q0 == queue[me]
             q1 == Consumed(me)[me]
  <2>1. /\ Len(q0) \in Nat \ {0} /\ Len(q1) = Len(q0) - 1
        /\ \A i \in 1 .. Len(q1) : i + 1 \in 1 .. Len(q0) /\ q1[i] = q0[i + 1]
    BY <1>3
  <2> HIDE DEF q0, q1
  <2>2. Len(q1) =< Len(q0)
    BY <2>1
  <2>3. \A i \in 1 .. Len(q1) : \E j \in 1 .. Len(q0) : q1[i] = q0[j]
    BY <2>1
  <2>4. Damped(q0, q1)
    BY <2>2, <2>3 DEF Damped
  <2> QED BY <1>2, <1>3, <2>4 DEF q0, q1
<1> DEFINE hit == [queue EXCEPT ![me][1].pkt = Damaged]
           one == [queue[me] EXCEPT ![1].pkt = Damaged]
<1>5. one \in Seq(Envelopes) /\ Len(one) = Len(queue[me])
      /\ \A i \in 1 .. Len(queue[me]) :
           one[i].src = queue[me][i].src /\ (one[i].pkt = queue[me][i].pkt \/ one[i].pkt = Damaged)
  <2>1. Damaged \in AnyPacket
    BY PacketIs DEF Damaged, Flags
  <2> DEFINE q == queue[me]
             head == [q[1] EXCEPT !.pkt = Damaged]
  <2>2. one = [q EXCEPT ![1] = head]
    OBVIOUS
  <2>3. q \in Seq(Envelopes) /\ 1 \in 1 .. Len(q)
    BY <1>1, <1>3
  <2> HIDE DEF q, one
  <2>4. q \in [1 .. Len(q) -> Envelopes] /\ Len(q) \in Nat
    BY <2>3, LenProperties
  <2>5. head \in Envelopes /\ head.src = q[1].src /\ head.pkt = Damaged
    BY <2>1, <2>3, <2>4 DEF Envelopes
  <2> HIDE DEF head
  <2>6. one \in [1 .. Len(q) -> Envelopes]
    BY <2>2, <2>3, <2>4, <2>5
  <2>7. one \in Seq(Envelopes) /\ Len(one) = Len(q)
    BY <2>4, <2>6, SeqDef, LenProperties
  <2>8. \A i \in 1 .. Len(q) :
           one[i].src = q[i].src /\ (one[i].pkt = q[i].pkt \/ one[i].pkt = Damaged)
    BY <2>2, <2>3, <2>4, <2>5
  <2> QED BY <2>7, <2>8 DEF q
<1>6. hit = [queue EXCEPT ![me] = one]
  BY DEF Queues
<1> HIDE DEF hit, one
<1>7. hit \in Queues /\ hit[me] = one /\ \A you \in Processes : you # me => hit[you] = queue[you]
  BY <1>5, <1>6 DEF Queues
<1>8. Damped(queue[me], one)
  BY <1>1, <1>5 DEF Damped
<1>9. \A you \in Processes : Damped(queue[you], hit[you])
  BY <1>2, <1>7, <1>8
<1> QED BY <1>2, <1>4, <1>7, <1>9 DEF hit

-----------------------------------------------------------------------------
(* Every action keeps the invariant.                                       *)
EnvironmentTypeOK ==
  /\ fopens \in BOOLEAN /\ serving \in BOOLEAN
  /\ faults \in 0 .. MaxFaults /\ delays \in 0 .. MaxDelays /\ kills \in 0 .. MaxKills
  /\ late \subseteq [dst : Processes, src : Processes, pkt : AnyPacket]

LEMMA TypeIs ==
  /\ SessionTypeOK <=> /\ Child1TypeOK /\ Child2TypeOK /\ ClientTypeOK /\ EnvironmentTypeOK
                       /\ queue \in Queues /\ waited \in [Processes -> Nat]
  /\ SessionTypeOK' <=> /\ Child1TypeOK' /\ Child2TypeOK' /\ ClientTypeOK' /\ EnvironmentTypeOK'
                        /\ queue' \in Queues /\ waited' \in [Processes -> Nat]
BY DEF SessionTypeOK, Child1TypeOK, Child2TypeOK, EnvironmentTypeOK, Queues

LEMMA UnchangedTypes ==
  /\ Child1TypeOK /\ UNCHANGED child1 => Child1TypeOK'
  /\ Child2TypeOK /\ UNCHANGED child2 => Child2TypeOK'
  /\ ClientTypeOK /\ UNCHANGED client => ClientTypeOK'
  /\ EnvironmentTypeOK /\ UNCHANGED environment => EnvironmentTypeOK'
<1>1. Child1TypeOK /\ UNCHANGED child1 => Child1TypeOK'
  BY DEF Child1TypeOK, ChildTypeOK, child1
<1>2. Child2TypeOK /\ UNCHANGED child2 => Child2TypeOK'
  BY DEF Child2TypeOK, ChildTypeOK, child2
<1>3. ClientTypeOK /\ UNCHANGED client => ClientTypeOK'
  BY DEF ClientTypeOK, client, rvars, setupVars
<1>4. EnvironmentTypeOK /\ UNCHANGED environment => EnvironmentTypeOK'
  BY DEF EnvironmentTypeOK, environment
<1> QED BY <1>1, <1>2, <1>3, <1>4

LEMMA ChildKeepsInvariant ==
  ASSUME SessionIInv, Child1Step \/ Child2Step
  PROVE  SessionIInv'
<1>1. PICK c \in Children : Child1TypeOK' /\ Child2TypeOK' /\ ChildDoes(c)
  BY Child1StepIs, Child2StepIs, ProcessesAre DEF SessionIInv
<1>2. UNCHANGED <<client, environment>> /\ SessionTypeOK
  BY <1>1 DEF ChildDoes, SessionIInv
<1>3. SessionTypeOK'
  BY <1>1, <1>2, ChildQueues, TypeIs, UnchangedTypes
<1>4. ASSUME Conversation PROVE Conversation'
  <2>1. rstate' = rstate
    BY <1>2 DEF client, rvars
  <2>2. rstate \in NameStates => OneRequest'
    BY <1>1, <1>2, <1>4, ChildKeepsRequest DEF Conversation
  <2>3. rstate \notin NameStates /\ ~RcopyLeft => OnePeer'
    BY <1>1, <1>2, <1>4, ChildKeepsPeer DEF Conversation
  <2>4. RcopyLeft => OneForgotten'
    BY <1>1, <1>2, <1>4, ChildKeepsForgotten DEF Conversation
  <2> QED BY <2>1, <2>2, <2>3, <2>4
         DEF Conversation, OneRequest, OnePeer, OneForgotten, RcopyLeft, NameStates
<1>5. NothingLate' /\ OneConversation'
  BY <1>2, <1>4 DEF SessionIInv, NothingLate, OneConversation, environment
<1> QED BY <1>3, <1>5 DEF SessionIInv

LEMMA RcopyKeepsInvariant ==
  ASSUME SessionIInv, RcopyStep
  PROVE  SessionIInv'
<1>1. /\ SessionTypeOK /\ ClientTypeOK' /\ ~RcopyLeft /\ (Opened => Opened')
      /\ queue' \in Queues /\ waited' \in [Processes -> Nat]
      /\ UNCHANGED <<child1, child2, environment>>
  BY RcopyStepIs DEF SessionIInv
<1>2. SessionTypeOK'
  BY <1>1, TypeIs, UnchangedTypes
<1>3. Conversation => Conversation'
  BY <1>1, RcopyKeepsRequest, RcopyKeepsPeer DEF Conversation
<1>4. NothingLate' /\ OneConversation'
  BY <1>1, <1>3 DEF SessionIInv, NothingLate, OneConversation, environment
<1> QED BY <1>2, <1>4 DEF SessionIInv

(* Nothing changes, or only the time.                                      *)
LEMMA TickKeepsInvariant ==
  ASSUME SessionIInv, Tick \/ UNCHANGED sessionVars
  PROVE  SessionIInv'
<1>1. /\ SessionTypeOK /\ queue \in Queues /\ waited \in [Processes -> Nat]
      /\ UNCHANGED <<child1, child2, client, environment>> /\ queue' = queue
      /\ "rcopy" \in Processes
  BY TypeIs, ProcessesAre DEF SessionIInv, Tick, sessionVars
<1>2. waited' \in [Processes -> Nat]
  BY <1>1 DEF Tick, sessionVars
<1>3. SessionTypeOK'
  BY <1>1, <1>2, TypeIs, UnchangedTypes
<1>4. ASSUME Conversation PROVE Conversation'
  <2>1. CASE rstate \in NameStates
    <3>1. ASSUME Tick, NEW me \in Processes PROVE ~Stirs(me)
      <4>1. Waiting(me) => Listens(me)
        BY <1>4, <2>1, <3>1 DEF Conversation, OneRequest
      <4>2. Idle(me)
        BY <3>1 DEF Tick
      <4>3. CASE me = "rcopy" \/ me = "dispatcher"
        BY <4>1, <4>2, <4>3, ListensIs, ProcessesAre DEF Idle, Stirs, Asking
      <4>4. CASE me = "child1"
        <5>1. ~Listens(me) \/ (C1!ChildSelects /\ ~Waiting(me))
          BY <4>2, <4>4 DEF Idle
        <5>2. C1!ChildSelects => SState(me) \notin SetupStates \ {"S_FILE_BEGIN"}
          BY <4>4 DEF C1!ChildSelects, C1!ServerSelects, SState, SetupStates
        <5>3. ~Listens(me) => SState(me) \in Gone
          BY <4>4, ListensIs, ProcessesAre
        <5> QED BY <4>1, <5>1, <5>2, <5>3 DEF Stirs, Asking, Gone, SetupStates
      <4>5. CASE me = "child2"
        <5>1. ~Listens(me) \/ (C2!ChildSelects /\ ~Waiting(me))
          BY <4>2, <4>5 DEF Idle
        <5>2. C2!ChildSelects => SState(me) \notin SetupStates \ {"S_FILE_BEGIN"}
          BY <4>5 DEF C2!ChildSelects, C2!ServerSelects, SState, SetupStates
        <5>3. ~Listens(me) => SState(me) \in Gone
          BY <4>5, ListensIs, ProcessesAre
        <5> QED BY <4>1, <5>1, <5>2, <5>3 DEF Stirs, Asking, Gone, SetupStates
      <4> QED BY <4>3, <4>4, <4>5, ProcessesAre
    <3>2. waited'["rcopy"] = waited["rcopy"] \/ \A me \in Processes : ~Stirs(me)
      BY <3>1 DEF sessionVars
    <3>3. \A me \in Processes : Damped(queue[me], queue'[me])
      BY <1>1 DEF Damped, Queues
    <3>4. \A child \in Children : SState(child)' = SState(child)
      BY <1>1, Unmoved
    <3>5. serving' = serving /\ rstate' = rstate /\ peer' = peer
      BY <1>1 DEF client, rvars, environment
    <3> QED BY <1>1, <1>4, <3>2, <3>3, <3>4, <3>5, QuietKeepsConversation
  <2>2. CASE rstate \notin NameStates
    <3>1. rstate' = rstate /\ peer' = peer /\ \A child \in Children : SState(child)' = SState(child)
      BY <1>1, Unmoved DEF client, rvars
    <3>2. OnePeer'
      <4>1. peer \in Children => SState(Other(peer))' = SState(Other(peer))
        BY <3>1 DEF SState, Other, Children
      <4> QED BY <1>1, <1>4, <3>1, <4>1 DEF Conversation, OnePeer, RcopyLeft, Other
    <3>3. OneForgotten'
      BY <1>1, <1>4, <3>1 DEF Conversation, OneForgotten, RcopyLeft, Untouched
    <3> QED BY <2>2, <3>1, <3>2, <3>3 DEF Conversation, OneRequest
  <2> QED BY <2>1, <2>2
<1>5. NothingLate' /\ OneConversation'
  BY <1>1, <1>4 DEF SessionIInv, NothingLate, OneConversation, environment
<1> QED BY <1>3, <1>5 DEF SessionIInv

(* The dispatcher forks a child, or reads something and forgets it.        *)
LEMMA DispatchIs ==
  ASSUME SessionTypeOK, Dispatch
  PROVE  /\ SessionTypeOK' /\ UNCHANGED <<client, waited, environment>>
         /\ Waiting("dispatcher") /\ queue' = Consumed("dispatcher")
         /\ \/ \A child \in Children : SState(child)' = SState(child)
            \/ \E c \in Children :
                 /\ SState(c) = "NO_PROCESS" /\ SState(c)' = "S_FILE_NAME"
                 /\ SState(Other(c))' = SState(Other(c))
<1>1. /\ Child1TypeOK /\ Child2TypeOK /\ queue \in Queues /\ "dispatcher" \in Processes
      /\ waited \in [Processes -> Nat]
  BY TypeIs, ProcessesAre
<1>2. /\ UNCHANGED <<client, waited, environment>>
      /\ Waiting("dispatcher") /\ queue' = Consumed("dispatcher")
  BY DEF Dispatch
<1>3. queue' \in Queues
  BY <1>1, <1>2, ConsumedIs
<1>4. CASE C1!Fork /\ UNCHANGED child2
  <2>1. Child1TypeOK' /\ Child2TypeOK'
    BY <1>1, <1>4, UnchangedTypes DEF C1!Fork, Child1TypeOK, ChildTypeOK, SetupStates
  <2>2. /\ SState("child1") = "NO_PROCESS" /\ SState("child1")' = "S_FILE_NAME"
        /\ SState(Other("child1"))' = SState(Other("child1"))
    BY <1>4 DEF SState, Other, C1!Fork, C1!NoProcess, child2
  <2> QED BY <1>1, <1>2, <1>3, <2>1, <2>2, TypeIs, UnchangedTypes, ProcessesAre
<1>5. CASE C2!Fork /\ UNCHANGED child1
  <2>1. Child1TypeOK' /\ Child2TypeOK'
    BY <1>1, <1>5, UnchangedTypes DEF C2!Fork, Child2TypeOK, ChildTypeOK, SetupStates
  <2>2. /\ SState("child2") = "NO_PROCESS" /\ SState("child2")' = "S_FILE_NAME"
        /\ SState(Other("child2"))' = SState(Other("child2"))
    BY <1>5 DEF SState, Other, C2!Fork, C2!NoProcess, child1
  <2> QED BY <1>1, <1>2, <1>3, <2>1, <2>2, TypeIs, UnchangedTypes, ProcessesAre
<1>6. CASE UNCHANGED <<child1, child2>>
  BY <1>1, <1>2, <1>3, <1>6, TypeIs, UnchangedTypes, Unmoved
<1> QED BY <1>4, <1>5, <1>6 DEF Dispatch

LEMMA DispatchKeepsConversation ==
  ASSUME SessionTypeOK, Conversation, Dispatch
  PROVE  Conversation'
<1>1. /\ queue \in Queues /\ queue' \in Queues /\ waited' = waited /\ rstate' = rstate
      /\ peer' = peer /\ serving' = serving
      /\ Waiting("dispatcher") /\ queue' = Consumed("dispatcher")
      /\ "dispatcher" \in Processes /\ "dispatcher" \notin Children /\ "rcopy" \in Processes
      /\ Children \subseteq Processes /\ "rcopy" \notin Children
  BY DispatchIs, TypeIs, ProcessesAre DEF client, rvars, environment
<1>2. /\ \A me \in Processes : me # "dispatcher" => queue'[me] = queue[me]
      /\ Len(queue["dispatcher"]) \in Nat \ {0}
      /\ Len(queue'["dispatcher"]) = Len(queue["dispatcher"]) - 1
  BY <1>1, ConsumedIs
<1>3. \A child \in Children : \/ SState(child)' = SState(child)
                              \/ SState(child)' = "S_FILE_NAME"
  <2>1. \A c, child \in Children : child = c \/ child = Other(c)
    BY DEF Children, Other
  <2> QED BY <2>1, DispatchIs
<1>4. \A child \in Children : Untouched(child) => Untouched(child)'
  BY <1>1, <1>2, <1>3 DEF Untouched, SetupStates
<1>5. CASE rstate \in NameStates
  <2>1. /\ \A child \in Children : Untouched(child)
        /\ \A me \in Processes :
             /\ Len(queue[me]) =< 1
             /\ Waiting(me) => Listens(me) /\ ~Asking(me)
             /\ Stirs(me) => rstate = "S_WAIT_ON_ACK" /\ waited["rcopy"] = 0
        /\ \A me, you \in Processes : Stirs(me) /\ Stirs(you) => me = you
        /\ peer # "rcopy" /\ \A i \in 1 .. Len(queue["rcopy"]) : queue["rcopy"][i].src \in Children
    BY <1>5 DEF Conversation, OneRequest
  <2>2. /\ rstate = "S_WAIT_ON_ACK" /\ waited["rcopy"] = 0
        /\ \A me \in Processes : me # "dispatcher" => ~Waiting(me) /\ ~Asking(me)
    BY <1>1, <2>1 DEF Stirs
  <2>3. queue'["dispatcher"] = <<>>
    <3>1. Len(queue["dispatcher"]) =< 1
      BY <1>1, <2>1
    <3> DEFINE n == Len(queue["dispatcher"])
               m == Len(queue'["dispatcher"])
    <3>2. n \in Nat \ {0} /\ n =< 1 /\ m = n - 1
      BY <1>2, <3>1
    <3> HIDE DEF n, m
    <3>3. m = 0
      BY <3>2
    <3>4. Len(queue'["dispatcher"]) = 0
      BY <3>3 DEF m
    <3> QED BY <1>1, <3>4, EmptyIs
  <2>4. \A me \in Processes : queue'[me] = <<>>
    BY <1>2, <2>2, <2>3 DEF Waiting
  <2>5. \A me \in Processes : ~Waiting(me)' /\ Len(queue'[me]) = 0
    BY <1>1, <2>4, EmptyIs DEF Waiting
  <2>6. \A me, you \in Processes : Stirs(me)' /\ Stirs(you)' => me = you
    <3>1. \A child \in Children : SState(child) \notin SetupStates \ {"S_FILE_BEGIN"}
      BY <1>1, <2>2 DEF Asking
    <3>2. CASE \A child \in Children : SState(child)' = SState(child)
      BY <2>5, <3>1, <3>2 DEF Stirs, Asking
    <3>3. ASSUME NEW c \in Children, SState(Other(c))' = SState(Other(c))
          PROVE  \A me, you \in Processes : Stirs(me)' /\ Stirs(you)' => me = you
      <4>1. \A me \in Processes : Stirs(me)' => me = c
        <5>1. \A child \in Children : child = c \/ child = Other(c)
          BY <3>3 DEF Children, Other
        <5> QED BY <2>5, <3>1, <3>3, <5>1 DEF Stirs, Asking
      <4> QED BY <4>1
    <3> QED BY <3>2, <3>3, DispatchIs
  <2>7. OneRequest'
    BY <1>1, <1>2, <1>4, <2>1, <2>2, <2>5, <2>6 DEF OneRequest
  <2> QED BY <1>1, <1>5, <2>7 DEF Conversation, OnePeer, OneForgotten, RcopyLeft, NameStates
<1>6. CASE rstate \notin NameStates
  <2>1. RcopyLeft
    BY <1>1, <1>6 DEF Conversation, OnePeer, Waiting
  <2>2. OneForgotten'
    BY <1>4, <2>1 DEF Conversation, OneForgotten
  <2> QED BY <1>1, <1>6, <2>1, <2>2 DEF Conversation, OneRequest, OnePeer, RcopyLeft
<1> QED BY <1>5, <1>6

LEMMA DispatchKeepsInvariant ==
  ASSUME SessionIInv, Dispatch
  PROVE  SessionIInv'
<1>1. SessionTypeOK /\ SessionTypeOK' /\ UNCHANGED <<client, environment>>
  BY DispatchIs DEF SessionIInv
<1>2. Conversation => Conversation'
  BY <1>1, DispatchKeepsConversation
<1> QED BY <1>1, <1>2 DEF SessionIInv, NothingLate, OneConversation, environment

(* A datagram is lost, damaged or held back.                               *)
LEMMA LossKeepsInvariant ==
  ASSUME SessionIInv, Fault \/ Delay
  PROVE  SessionIInv'
<1>1. /\ Child1TypeOK /\ Child2TypeOK /\ ClientTypeOK /\ EnvironmentTypeOK
      /\ queue \in Queues /\ waited \in [Processes -> Nat] /\ SessionTypeOK
  BY TypeIs DEF SessionIInv
<1>2. UNCHANGED <<child1, child2, client, fopens, serving, waited, kills>>
  BY DEF Fault, Delay
<1>3. PICK me \in Processes :
        /\ Waiting(me)
        /\ queue' = Consumed(me) \/ queue' = [queue EXCEPT ![me][1].pkt = Damaged]
        /\ late' \subseteq late \cup {[dst |-> me, src |-> Head(queue[me]).src, pkt |-> Arrived(me)]}
  BY DEF Fault, Delay
<1>4. /\ Head(queue[me]) \in Envelopes /\ Arrived(me) \in AnyPacket /\ Consumed(me) \in Queues
  BY <1>1, <1>3, ConsumedIs
<1>5. queue' \in Queues /\ \A you \in Processes : Damped(queue[you], queue'[you])
  BY <1>1, <1>3, <1>4, DampedQueues
<1>6. late' \subseteq [dst : Processes, src : Processes, pkt : AnyPacket]
  BY <1>1, <1>3, <1>4 DEF EnvironmentTypeOK, Envelopes
<1>7. faults' \in 0 .. MaxFaults /\ delays' \in 0 .. MaxDelays /\ (delays' = 0 => delays = 0 /\ late' = late)
  BY <1>1, Parameters DEF Fault, Delay, EnvironmentTypeOK
<1>8. EnvironmentTypeOK'
  BY <1>1, <1>2, <1>6, <1>7 DEF EnvironmentTypeOK
<1>9. SessionTypeOK'
  BY <1>1, <1>2, <1>5, <1>8, TypeIs, UnchangedTypes
<1>10. ASSUME Conversation PROVE Conversation'
  <2>1. \A child \in Children : SState(child)' = SState(child)
    BY <1>2, Unmoved
  <2>2. serving' = serving /\ rstate' = rstate /\ peer' = peer /\ waited'["rcopy"] = waited["rcopy"]
    BY <1>2 DEF client, rvars
  <2> QED BY <1>1, <1>5, <1>10, <2>1, <2>2, QuietKeepsConversation
<1>11. NothingLate' /\ OneConversation'
  BY <1>7, <1>10 DEF SessionIInv, NothingLate, OneConversation
<1> QED BY <1>9, <1>11 DEF SessionIInv

(* What was held back arrives.                                             *)
LEMMA ArriveKeepsInvariant ==
  ASSUME SessionIInv, Arrive
  PROVE  SessionIInv'
<1>1. /\ Child1TypeOK /\ Child2TypeOK /\ ClientTypeOK /\ EnvironmentTypeOK
      /\ queue \in Queues /\ waited \in [Processes -> Nat]
  BY TypeIs DEF SessionIInv
<1>2. UNCHANGED <<child1, child2, client, fopens, serving, waited, faults, delays, kills>>
  BY DEF Arrive
<1>3. PICK d \in late : late' = late \ {d} /\ queue' = Posted(queue, d.src, d.dst, <<d.pkt>>)
  BY DEF Arrive
<1>4. d.src \in Processes /\ d.dst \in Processes /\ d.pkt \in AnyPacket
  BY <1>1 DEF EnvironmentTypeOK
<1>5. queue' \in Queues
  <2> DEFINE pkts == <<d.pkt>>
  <2>1. pkts \in Seq(AnyPacket)
    BY <1>4
  <2>2. queue' = Posted(queue, d.src, d.dst, pkts)
    BY <1>3
  <2> HIDE DEF pkts
  <2>3. Extended(queue, d.src, d.dst, pkts, queue')
    BY <1>1, <1>4, <2>1, <2>2, PostedIs
  <2> QED BY <2>3 DEF Extended
<1>6. EnvironmentTypeOK'
  BY <1>1, <1>2, <1>3 DEF EnvironmentTypeOK
<1>7. SessionTypeOK'
  BY <1>1, <1>2, <1>5, <1>6, TypeIs, UnchangedTypes
<1>8. delays' # 0
  BY <1>2, <1>3 DEF SessionIInv, NothingLate
<1> QED BY <1>7, <1>8 DEF SessionIInv, NothingLate, OneConversation

(* A process is killed: a child or the dispatcher goes, or rcopy does and  *)
(* leaves a child behind that it will never send a FILE_BEGIN to.          *)
LEMMA KillIs ==
  ASSUME SessionTypeOK, Kill
  PROVE  /\ SessionTypeOK' /\ kills' # 0 /\ UNCHANGED <<delays, late>>
         /\ \E me \in Processes :
              /\ queue' = [queue EXCEPT ![me] = <<>>] /\ waited' = [waited EXCEPT ![me] = 0]
              /\ peer' = peer
              /\ \A child \in Children : \/ SState(child)' = SState(child)
                                         \/ child = me /\ SState(child)' = "S_FINISH"
              /\ serving' = serving \/ me = "dispatcher"
              /\ \/ rstate' = rstate /\ me # "rcopy"
                 \/ ~RcopyLeft /\ rstate' = "S_FINISH" /\ me = "rcopy"
<1>1. /\ Child1TypeOK /\ Child2TypeOK /\ ClientTypeOK /\ EnvironmentTypeOK
      /\ queue \in Queues /\ waited \in [Processes -> Nat]
  BY TypeIs
<1>2. PICK me \in Processes :
        /\ CASE me = "child1" -> C1!ChildKilled /\ UNCHANGED <<child2, client, serving>>
             [] me = "child2" -> C2!ChildKilled /\ UNCHANGED <<child1, client, serving>>
             [] me = "rcopy"  -> ClientKilled /\ UNCHANGED <<peer, child1, child2, serving>>
             [] OTHER         -> serving' = FALSE /\ UNCHANGED <<child1, child2, client>>
        /\ queue' = [queue EXCEPT ![me] = <<>>]
        /\ waited' = [waited EXCEPT ![me] = 0]
  BY DEF Kill
<1>3. UNCHANGED <<fopens, faults, delays, late>>
  BY DEF Kill
<1>4. kills' # 0 /\ kills' \in 0 .. MaxKills
  BY <1>1, Parameters DEF Kill, EnvironmentTypeOK
<1>5. queue' \in Queues /\ waited' \in [Processes -> Nat]
  BY <1>1, <1>2 DEF Queues
<1>6. CASE me = "child1"
  <2>1. /\ C1!ChildKilled /\ UNCHANGED <<child2, client, serving>>
        /\ peer' = peer /\ rstate' = rstate
    BY <1>2, <1>6 DEF client, rvars
  <2>2. Child1TypeOK' /\ Child2TypeOK' /\ ClientTypeOK'
    BY <1>1, <2>1, UnchangedTypes DEF Child1TypeOK, ChildTypeOK, C1!ChildKilled
  <2>3. SState("child1")' = "S_FINISH" /\ SState("child2")' = SState("child2")
    BY <2>1 DEF SState, C1!ChildKilled, child2
  <2>4. EnvironmentTypeOK'
    BY <1>1, <1>3, <1>4, <2>1 DEF EnvironmentTypeOK
  <2> QED BY <1>2, <1>3, <1>4, <1>5, <1>6, <2>1, <2>2, <2>3, <2>4, TypeIs, ProcessesAre
<1>7. CASE me = "child2"
  <2>1. /\ C2!ChildKilled /\ UNCHANGED <<child1, client, serving>>
        /\ peer' = peer /\ rstate' = rstate
    BY <1>2, <1>7 DEF client, rvars
  <2>2. Child1TypeOK' /\ Child2TypeOK' /\ ClientTypeOK'
    BY <1>1, <2>1, UnchangedTypes DEF Child2TypeOK, ChildTypeOK, C2!ChildKilled
  <2>3. SState("child2")' = "S_FINISH" /\ SState("child1")' = SState("child1")
    BY <2>1 DEF SState, C2!ChildKilled, child1
  <2>4. EnvironmentTypeOK'
    BY <1>1, <1>3, <1>4, <2>1 DEF EnvironmentTypeOK
  <2> QED BY <1>2, <1>3, <1>4, <1>5, <1>7, <2>1, <2>2, <2>3, <2>4, TypeIs, ProcessesAre
<1>8. CASE me = "rcopy"
  <2>1. ClientKilled /\ UNCHANGED <<peer, child1, child2, serving>>
    BY <1>2, <1>8
  <2>2. Child1TypeOK' /\ Child2TypeOK' /\ ClientTypeOK'
    BY <1>1, <2>1, UnchangedTypes DEF ClientTypeOK, ClientKilled, RcopyStates, setupVars
  <2>3. \A child \in Children : SState(child)' = SState(child)
    BY <2>1, Unmoved
  <2>4. EnvironmentTypeOK'
    BY <1>1, <1>3, <1>4, <2>1 DEF EnvironmentTypeOK
  <2> QED BY <1>2, <1>3, <1>4, <1>5, <1>8, <2>1, <2>2, <2>3, <2>4, TypeIs DEF ClientKilled
<1>9. CASE me = "dispatcher"
  <2>1. /\ serving' = FALSE /\ UNCHANGED <<child1, child2, client>>
        /\ peer' = peer /\ rstate' = rstate
    BY <1>2, <1>9 DEF client, rvars
  <2>2. \A child \in Children : SState(child)' = SState(child)
    BY <2>1, Unmoved
  <2>3. EnvironmentTypeOK'
    BY <1>1, <1>3, <1>4, <2>1 DEF EnvironmentTypeOK
  <2> QED BY <1>1, <1>2, <1>3, <1>4, <1>5, <1>9, <2>1, <2>2, <2>3, TypeIs, UnchangedTypes
<1> QED BY <1>6, <1>7, <1>8, <1>9, ProcessesAre

LEMMA KillKeepsConversation ==
  ASSUME SessionTypeOK, Conversation, Kill
  PROVE  Conversation'
<1>1. queue \in Queues /\ queue' \in Queues /\ waited \in [Processes -> Nat]
  BY KillIs, TypeIs
<1>2. PICK me \in Processes :
              /\ queue' = [queue EXCEPT ![me] = <<>>] /\ waited' = [waited EXCEPT ![me] = 0]
              /\ peer' = peer
              /\ \A child \in Children : \/ SState(child)' = SState(child)
                                         \/ child = me /\ SState(child)' = "S_FINISH"
              /\ serving' = serving \/ me = "dispatcher"
              /\ \/ rstate' = rstate /\ me # "rcopy"
                 \/ ~RcopyLeft /\ rstate' = "S_FINISH" /\ me = "rcopy"
  BY KillIs
<1>3. queue'[me] = <<>> /\ \A you \in Processes : you # me => queue'[you] = queue[you]
  BY <1>1, <1>2 DEF Queues
<1>4. CASE rstate' = rstate /\ me # "rcopy"
  <2>1. Len(queue'[me]) = 0
    BY <1>1, <1>3, EmptyIs
  <2>2. \A you \in Processes : Len(queue[you]) \in Nat
    BY <1>1, EmptyIs
  <2>3. Damped(queue[me], queue'[me])
    <3>1. 1 .. Len(queue'[me]) = {} /\ 0 =< Len(queue[me])
      BY <2>1, <2>2
    <3> QED BY <2>1, <3>1 DEF Damped
  <2>4. \A you \in Processes : Damped(queue[you], queue'[you])
    BY <1>3, <2>2, <2>3 DEF Damped
  <2>5. waited'["rcopy"] = waited["rcopy"]
    BY <1>1, <1>2, <1>4, ProcessesAre
  <2>6. \A child \in Children : \/ SState(child)' = SState(child)
                                \/ SState(child)' = "S_FINISH" /\ queue'[child] = <<>>
    BY <1>2, <1>3
  <2>7. serving' = serving \/ queue'["dispatcher"] = <<>>
    BY <1>2, <1>3
  <2> QED BY <1>1, <1>2, <1>4, <2>4, <2>5, <2>6, <2>7, QuietKeepsConversation
<1>5. CASE ~RcopyLeft /\ rstate' = "S_FINISH" /\ me = "rcopy"
  <2>1. \A child \in Children : SState(child)' = SState(child) /\ queue'[child] = queue[child]
    BY <1>2, <1>3, <1>5, ProcessesAre
  <2>2. \A child \in Children : Untouched(child) => Untouched(child)'
    BY <2>1 DEF Untouched
  <2>3. \E child \in Children : Untouched(child)
    <3>1. CASE rstate \in NameStates
      BY <3>1, ProcessesAre DEF Conversation, OneRequest
    <3>2. CASE rstate \notin NameStates
      <4>1. /\ Other(peer) \in Children /\ Other(peer) \in Processes /\ queue[Other(peer)] = <<>>
            /\ SState(Other(peer)) \in {"NO_PROCESS", "S_FILE_BEGIN", "S_FINISH"}
        BY <1>5, <3>2, ProcessesAre DEF Conversation, OnePeer
      <4>2. Len(queue[Other(peer)]) = 0
        BY <1>1, <4>1, EmptyIs
      <4> QED BY <4>1, <4>2 DEF Untouched, SetupStates
    <3> QED BY <3>1, <3>2
  <2> QED BY <1>5, <2>2, <2>3
         DEF Conversation, OneRequest, OnePeer, OneForgotten, RcopyLeft, NameStates
<1> QED BY <1>2, <1>4, <1>5

LEMMA KillKeepsInvariant ==
  ASSUME SessionIInv, Kill
  PROVE  SessionIInv'
<1>1. SessionTypeOK /\ SessionTypeOK' /\ kills' # 0 /\ UNCHANGED <<delays, late>>
  BY KillIs DEF SessionIInv
<1>2. Conversation => Conversation'
  BY <1>1, KillKeepsConversation
<1> QED BY <1>1, <1>2 DEF SessionIInv, NothingLate, OneConversation

-----------------------------------------------------------------------------
(* The theorems.                                                           *)
LEMMA InvariantInit == SessionInit => SessionIInv
<1> SUFFICES ASSUME SessionInit PROVE SessionIInv
  OBVIOUS
<1>1. Child1TypeOK /\ Child2TypeOK
  BY Child1NoWindow, Child2NoWindow
     DEF SessionInit, C1!ChildInit, C2!ChildInit, Child1TypeOK, Child2TypeOK, ChildTypeOK
<1>2. ClientTypeOK
  <2>1. rwin \in WindowType(Nat)
    BY AllocType DEF SessionInit, RcopyInit
  <2>2. out \in Seq([data : Nat, len : Nat])
    BY DEF SessionInit, RcopyInit
  <2> QED BY <2>1, <2>2, Parameters
         DEF SessionInit, RcopyInit, ClientTypeOK, NameStates, Processes
<1>3. queue = [me \in Processes |-> <<>>] /\ waited = [me \in Processes |-> 0]
  BY DEF SessionInit
<1>4. queue \in Queues /\ waited \in [Processes -> Nat]
  BY <1>3 DEF Queues
<1>5. EnvironmentTypeOK
  BY Parameters DEF SessionInit, EnvironmentTypeOK
<1>6. SessionTypeOK
  BY <1>1, <1>2, <1>4, <1>5, TypeIs
<1>7. \A child \in Children : SState(child) = "NO_PROCESS"
  BY DEF SessionInit, C1!ChildInit, C2!ChildInit, SState
<1>8. \A me \in Processes : queue[me] = <<>> /\ Len(queue[me]) = 0 /\ ~Stirs(me) /\ ~Waiting(me)
  <2>1. \A me \in Processes : queue[me] = <<>>
    BY <1>3
  <2> QED BY <1>4, <1>7, <2>1, EmptyIs DEF Stirs, Waiting, Asking, SetupStates
<1>9. OneRequest
  <2>1. \A child \in Children : Untouched(child)
    BY <1>7, <1>8, ProcessesAre DEF Untouched
  <2>2. "rcopy" \in Processes /\ peer # "rcopy"
    BY ProcessesAre DEF SessionInit
  <2> QED BY <1>8, <2>1, <2>2 DEF OneRequest
<1> QED BY <1>6, <1>9
       DEF SessionInit, RcopyInit, SessionIInv, NothingLate, OneConversation, Conversation, OnePeer,
           OneForgotten, RcopyLeft, NameStates

LEMMA InvariantStep == SessionIInv /\ [SessionNext]_sessionVars => SessionIInv'
BY ChildKeepsInvariant, RcopyKeepsInvariant, TickKeepsInvariant, DispatchKeepsInvariant,
   LossKeepsInvariant, ArriveKeepsInvariant, KillKeepsInvariant
   DEF SessionNext, SessionOver

(* The inductive invariant: the types, and who can be in conversation with *)
(* whom as long as no datagram is held back.                               *)
THEOREM SessionInvariance == SessionSpec => []SessionIInv
BY InvariantInit, InvariantStep, PTL DEF SessionSpec

(* Every variable of the session keeps to its type.                        *)
THEOREM SessionTypeCorrect == SessionSpec => []SessionTypeOK
<1>1. SessionIInv => SessionTypeOK
  BY DEF SessionIInv
<1> QED BY <1>1, SessionInvariance, PTL

(* While no datagram has been held back, one child alone ever serves the   *)
(* file, however many datagrams are lost or damaged and whoever is killed: *)
(* the children rcopy did not choose never reach file_transfer.            *)
THEOREM SessionOneChildServes == SessionSpec => [](delays = 0 => OneChildServes)
<1>1. SessionIInv => (delays = 0 => OneChildServes)
  <2> SUFFICES ASSUME SessionIInv, delays = 0 PROVE OneChildServes
    OBVIOUS
  <2>1. Conversation
    BY DEF SessionIInv, OneConversation
  <2>2. PICK child \in Children :
          SState(child) \in {"NO_PROCESS", "S_FINISH"} \cup SetupStates
    <3>1. CASE rstate \in NameStates
      BY <2>1, <3>1, ProcessesAre DEF Conversation, OneRequest, Untouched
    <3>2. CASE RcopyLeft
      BY <2>1, <3>2 DEF Conversation, OneForgotten, Untouched
    <3>3. CASE rstate \notin NameStates /\ ~RcopyLeft
      BY <2>1, <3>3, ProcessesAre DEF Conversation, OnePeer, SetupStates
    <3> QED BY <3>1, <3>2, <3>3
  <2>3. ~(C1!Transferring /\ C2!Transferring)
    BY <2>2 DEF Children, SState, SetupStates, C1!Transferring, C1!NoProcess, C1!Left, C1!SetupStates,
                C2!Transferring, C2!NoProcess, C2!Left, C2!SetupStates
  <2>4. ASSUME NEW c \in Children, ~RcopyLeft, peer # c
        PROVE  SState(c) \in {"NO_PROCESS", "S_FINISH"} \cup SetupStates
    <3>1. CASE rstate \in NameStates
      BY <2>1, <3>1 DEF Conversation, OneRequest, Untouched
    <3>2. CASE rstate \notin NameStates
      BY <2>1, <2>4, <3>2 DEF Conversation, OnePeer, Other, Children, SetupStates
    <3> QED BY <3>1, <3>2
  <2>5. ~RcopyLeft /\ C1!Transferring => peer = "child1"
    BY <2>4 DEF Children, SState, SetupStates, C1!Transferring, C1!NoProcess, C1!Left, C1!SetupStates
  <2>6. ~RcopyLeft /\ C2!Transferring => peer = "child2"
    BY <2>4 DEF Children, SState, SetupStates, C2!Transferring, C2!NoProcess, C2!Left, C2!SetupStates
  <2> QED BY <2>3, <2>5, <2>6 DEF OneChildServes
<1> QED BY <1>1, SessionInvariance, PTL

(* A network that delays nothing beyond what is read before it lets one    *)
(* child alone serve the file.                                             *)
COROLLARY OneChildAlwaysServes ==
  ASSUME MaxDelays = 0
  PROVE  SessionSpec => []OneChildServes
<1>1. SessionTypeOK => delays = 0
  BY DEF SessionTypeOK
<1> QED BY <1>1, SessionTypeCorrect, SessionOneChildServes, PTL
=============================================================================
