--------------------------- MODULE TransferProofs ---------------------------
(***************************************************************************)
(* Proofs about Transfer, for every window size, every file length, every  *)
(* number of retries and whatever the window's uninitialised fields hold.  *)
(*                                                                         *)
(* IInv of TransferInvariant is inductive: one lemma per action, or per    *)
(* group of actions that disturb the same conjuncts, says that a step      *)
(* preserves it.  The properties follow from it.                           *)
(***************************************************************************)
EXTENDS TransferInvariant, SrejWindowProofs

-----------------------------------------------------------------------------
(* Types that every proof needs.                                           *)

(* The parameters are numbers.                                             *)
LEMMA Parameters ==
  /\ WindowSize \in Nat /\ WindowSize > 0
  /\ NumBlocks \in Nat
  /\ MAX_TRIES \in Nat
  /\ EOF_TRIES \in Nat
BY WindowSizeAssumption, SenderAssumption

(* The packets both ends create are packets.                               *)
LEMMA PacketIs ==
  ASSUME NEW flag \in {"DATA", "RR", "SREJ", "FILE_EOF", "FILE_EOF_ACK"},
         NEW seq \in Nat, NEW data \in Blocks
  PROVE  Packet(flag, seq, data) \in PacketType
BY DEF Packet, PacketType

(* The fields of the two windows.                                          *)
LEMMA WindowFields ==
  ASSUME NEW P, NEW w \in WindowType(P)
  PROVE  /\ w.bottom \in Nat /\ w.top \in Nat /\ w.rr \in Nat /\ w.srej \in Nat
         /\ w.eof \in BOOLEAN /\ w.num_wait \in Nat /\ w.top_sent \in Nat
         /\ w.Frame \in [Slots -> [state : FrameState, pkt : P]]
BY DEF WindowType

-----------------------------------------------------------------------------
(* fill_window.                                                            *)

(* The empty frames are those of the blocks not read yet, and each gets    *)
(* the block of its own number while there is one.                         *)
LEMMA FillIs ==
  ASSUME TypeOK, SenderShape
  PROVE  /\ Empties = fpos + 1 .. swin.top
         /\ LastRead = swin.top
         /\ \A i \in Slots : FilledFrame(i) \in [state : FrameState, pkt : PacketType]
         /\ \A seq \in WindowSeqs(swin) :
              FilledFrame(get_frame_num(seq)) =
                IF seq > fpos /\ seq =< NumBlocks
                THEN [state |-> "FRAME_FULL", pkt |-> Packet("DATA", seq, seq)]
                ELSE SFrame(seq)
<1>1. /\ swin \in WindowType(PacketType) /\ WellPlaced(swin)
      /\ fpos \in Nat /\ swin.bottom \in Nat /\ swin.top \in Nat
      /\ swin.bottom - 1 =< fpos /\ fpos =< swin.top
  BY Parameters, WindowFields DEF TypeOK, SenderShape, WellPlaced, Blocks
<1>2. Empties = fpos + 1 .. swin.top
  <2>1. ASSUME NEW seq \in WindowSeqs(swin)
        PROVE  swin.Frame[get_frame_num(seq)].state = "FRAME_EMPTY" <=> seq > fpos
    BY <1>1, SeqType DEF SenderShape, SFrame
  <2>2. \A seq : seq \in WindowSeqs(swin) /\ seq > fpos <=> seq \in fpos + 1 .. swin.top
    BY <1>1 DEF WindowSeqs
  <2> QED BY <2>1, <2>2 DEF Empties, SeqsIn
<1>3. \A seq \in Empties : BlockFor(seq) = seq /\ seq \in WindowSeqs(swin) /\ seq \in Nat
  <2> SUFFICES ASSUME NEW seq \in fpos + 1 .. swin.top
               PROVE  BlockFor(seq) = seq /\ seq \in WindowSeqs(swin) /\ seq \in Nat
    BY <1>2
  <2>1. fpos + 1 \in Int /\ swin.top \in Int
    BY <1>1
  <2>2. Rank(fpos + 1 .. swin.top, seq) = seq - (fpos + 1) + 1
    BY <2>1, RankInInterval
  <2>3. BlockFor(seq) = fpos + (seq - (fpos + 1) + 1)
    BY <1>2, <2>2 DEF BlockFor
  <2> QED BY <1>1, <2>3 DEF WindowSeqs
<1>4. LastRead = swin.top
  <2>1. fpos + 1 \in Int /\ swin.top \in Int
    BY <1>1
  <2>2. Cardinality(fpos + 1 .. swin.top) =
          IF fpos + 1 > swin.top THEN 0 ELSE swin.top - (fpos + 1) + 1
    BY <2>1, FS_Interval
  <2>3. Cardinality(fpos + 1 .. swin.top) = swin.top - fpos
    BY <1>1, <2>2
  <2> QED BY <1>1, <1>2, <2>3 DEF LastRead
<1>5. ASSUME NEW seq \in Empties
      PROVE  (CHOOSE q \in Empties : get_frame_num(q) = get_frame_num(seq)) = seq
  BY <1>1, <1>3, SlotsOfWindow
<1>6. ASSUME NEW seq \in Empties
      PROVE  FilledFrame(get_frame_num(seq)) =
               IF seq =< NumBlocks
               THEN [state |-> "FRAME_FULL", pkt |-> Packet("DATA", seq, seq)]
               ELSE swin.Frame[get_frame_num(seq)]
  <2>1. (\E q \in Empties : get_frame_num(q) = get_frame_num(seq) /\ BlockFor(q) =< NumBlocks)
           <=> seq =< NumBlocks
    BY <1>1, <1>3, SlotsOfWindow
  <2> QED BY <1>3, <1>5, <2>1 DEF FilledFrame
<1>7. ASSUME NEW i \in Slots
      PROVE  FilledFrame(i) \in [state : FrameState, pkt : PacketType]
  <2>1. swin.Frame[i] \in [state : FrameState, pkt : PacketType]
    BY <1>1, WindowFields
  <2>2. CASE \E seq \in Empties : get_frame_num(seq) = i /\ seq =< NumBlocks
    <3>1. PICK seq \in Empties : get_frame_num(seq) = i /\ seq =< NumBlocks
      BY <2>2
    <3>2. FilledFrame(i) = [state |-> "FRAME_FULL", pkt |-> Packet("DATA", seq, seq)]
      BY <1>6, <3>1
    <3>3. Packet("DATA", seq, seq) \in PacketType
      BY <1>3, <3>1, Parameters, PacketIs DEF Blocks
    <3> QED BY <3>2, <3>3 DEF FrameState
  <2>3. CASE ~ \E seq \in Empties : get_frame_num(seq) = i /\ seq =< NumBlocks
    <3>1. FilledFrame(i) = swin.Frame[i]
      BY <1>3, <2>3 DEF FilledFrame
    <3> QED BY <2>1, <3>1
  <2> QED BY <2>2, <2>3
<1>8. ASSUME NEW seq \in WindowSeqs(swin)
      PROVE  FilledFrame(get_frame_num(seq)) =
               IF seq > fpos /\ seq =< NumBlocks
               THEN [state |-> "FRAME_FULL", pkt |-> Packet("DATA", seq, seq)]
               ELSE SFrame(seq)
  <2>1. CASE seq \in Empties
    BY <1>1, <1>2, <1>6, <2>1 DEF SFrame
  <2>2. CASE seq \notin Empties
    <3>1. ~(seq > fpos)
      BY <1>1, <1>2, <2>2 DEF WindowSeqs
    <3>2. \A q \in Empties : get_frame_num(q) # get_frame_num(seq)
      BY <1>1, <1>3, <2>2, SlotsOfWindow
    <3> QED BY <3>1, <3>2 DEF FilledFrame, SFrame
  <2> QED BY <2>1, <2>2
<1> QED BY <1>2, <1>4, <1>7, <1>8

-----------------------------------------------------------------------------
(* One side's conjuncts do not mind the other side's steps.                *)

(* A step that leaves rcopy alone preserves what is said of rcopy alone.   *)
LEMMA ReceiverKept ==
  ASSUME ReceiverShape, ReceiverOutput, UNCHANGED rvars
  PROVE  ReceiverShape' /\ ReceiverOutput'
BY DEF ReceiverShape, ReceiverOutput, rvars, RFrame

(* A step that leaves the server alone preserves what is said of it alone. *)
LEMMA SenderKept ==
  ASSUME SenderShape, SenderSent, SenderSeq, UNCHANGED svars
  PROVE  SenderShape' /\ SenderSent' /\ SenderSeq'
BY DEF SenderShape, SenderSent, SenderSeq, svars, SFrame

-----------------------------------------------------------------------------
(* The server's steps.                                                     *)

(* fill_window: the frames read are those of the blocks between the old    *)
(* and the new file position.                                              *)
LEMMA FillWindowStep ==
  ASSUME IInv, FillWindow, UNCHANGED rvars, net' \subseteq net
  PROVE  IInv'
<1> DEFINE F == [i \in Slots |-> FilledFrame(i)]
           eof == \/ swin.eof
                  \/ LastRead > NumBlocks
                  \/ PartialLast /\ LastRead = NumBlocks
<1>1. /\ swin \in WindowType(PacketType) /\ fpos \in Nat /\ fpos =< NumBlocks
      /\ swin.bottom \in Nat /\ swin.top \in Nat
      /\ swin.bottom - 1 =< fpos /\ fpos =< swin.top
      /\ swin.top = swin.bottom + WindowSize - 1
  BY Parameters, WindowFields DEF IInv, TypeOK, SenderShape, Blocks
<1>2. /\ LastRead = swin.top
      /\ F \in [Slots -> [state : FrameState, pkt : PacketType]]
      /\ \A seq \in WindowSeqs(swin) :
           F[get_frame_num(seq)] =
             IF seq > fpos /\ seq =< NumBlocks
             THEN [state |-> "FRAME_FULL", pkt |-> Packet("DATA", seq, seq)]
             ELSE SFrame(seq)
  <2>1. \A seq \in WindowSeqs(swin) : get_frame_num(seq) \in Slots
    BY <1>1, SeqType
  <2> QED BY <2>1, FillIs DEF IInv
<1>3. swin' = [swin EXCEPT !.Frame = F, !.eof = eof]
  BY DEF FillWindow
<1>4. eof \in BOOLEAN /\ (eof => fpos' = NumBlocks)
  <2>1. eof \in BOOLEAN
    BY <1>1, WindowFields, SenderAssumption
  <2>2. swin.eof => fpos = NumBlocks
    BY DEF IInv, SenderShape
  <2>3. fpos' = IF swin.top > NumBlocks THEN NumBlocks ELSE swin.top
    BY <1>2 DEF FillWindow
  <2> QED BY <1>1, <1>2, <2>1, <2>2, <2>3, Parameters
<1> HIDE DEF F, eof
<1>5. /\ swin' \in WindowType(PacketType)
      /\ swin'.bottom = swin.bottom /\ swin'.top = swin.top
      /\ swin'.rr = swin.rr /\ swin'.srej = swin.srej
      /\ swin'.top_sent = swin.top_sent
      /\ swin'.eof = eof /\ swin'.Frame = F
  BY <1>1, <1>2, <1>3, <1>4 DEF WindowType
<1>6. /\ fpos' \in Nat /\ fpos' =< NumBlocks /\ fpos' =< swin.top /\ fpos =< fpos'
      /\ fpos' = swin.top \/ fpos' = NumBlocks
  BY <1>1, <1>2, Parameters DEF FillWindow
<1>7. TypeOK'
  BY <1>5, <1>6 DEF IInv, TypeOK, FillWindow, rvars, Blocks, ServerStates
<1>8. SenderShape'
  <2>1. ASSUME NEW seq \in WindowSeqs(swin')
        PROVE  IF seq =< fpos'
               THEN /\ SFrame(seq)'.state \in {"FRAME_FULL", "FRAME_SENT"}
                    /\ SFrame(seq)'.pkt = Packet("DATA", seq, seq)
               ELSE SFrame(seq)'.state = "FRAME_EMPTY"
    <3>1. seq \in WindowSeqs(swin) /\ seq \in Nat /\ seq =< swin.top
      BY <1>1, <1>5 DEF WindowSeqs
    <3>2. SFrame(seq)' = F[get_frame_num(seq)]
      BY <1>5 DEF SFrame
    <3>3. CASE seq > fpos /\ seq =< NumBlocks
      <4>1. SFrame(seq)' = [state |-> "FRAME_FULL", pkt |-> Packet("DATA", seq, seq)]
        BY <1>2, <3>1, <3>2, <3>3
      <4>2. SFrame(seq)'.state = "FRAME_FULL" /\ SFrame(seq)'.pkt = Packet("DATA", seq, seq)
        BY <4>1
      <4>3. seq =< fpos'
        BY <1>1, <1>6, <3>1, <3>3, Parameters
      <4> QED BY <4>2, <4>3
    <3>4. CASE ~(seq > fpos /\ seq =< NumBlocks)
      <4>1. SFrame(seq)' = SFrame(seq)
        BY <1>2, <3>1, <3>2, <3>4
      <4>2. seq =< fpos' <=> seq =< fpos
        BY <1>1, <1>6, <3>1, <3>4, Parameters
      <4> QED BY <3>1, <4>1, <4>2 DEF IInv, SenderShape
    <3> QED BY <3>3, <3>4
  <2> QED BY <1>1, <1>4, <1>5, <1>6, <2>1 DEF IInv, SenderShape
<1>9. SenderSent'
  <2>1. ASSUME NEW seq \in WindowSeqs(swin'), SFrame(seq)'.state = "FRAME_SENT"
        PROVE  seq =< swin'.top_sent
    <3>1. seq \in WindowSeqs(swin)
      BY <1>5 DEF WindowSeqs
    <3>2. SFrame(seq)' = IF seq > fpos /\ seq =< NumBlocks
                          THEN [state |-> "FRAME_FULL", pkt |-> Packet("DATA", seq, seq)]
                          ELSE SFrame(seq)
      BY <1>2, <1>5, <3>1 DEF SFrame
    <3>3. SFrame(seq)' = SFrame(seq)
      BY <2>1, <3>2
    <3> QED BY <1>5, <2>1, <3>1, <3>3 DEF IInv, SenderSent
  <2> QED BY <2>1 DEF SenderSent, FillWindow
<1>10. SenderSeq'
  BY DEF IInv, SenderSeq, FillWindow, TransferStates
<1>11. Knowledge'
  <2>1. swin.bottom \in Nat /\ swin.rr \in Nat /\ swin.srej \in Nat /\ swin.top_sent \in Nat
    BY WindowFields DEF IInv, TypeOK
  <2>2. rwin.rr \in Nat /\ rwin' = rwin
    BY WindowFields DEF IInv, TypeOK, rvars
  <2>3. /\ swin.rr =< rwin.rr /\ swin.srej =< rwin.rr /\ swin.bottom =< rwin.rr
        /\ rwin.rr =< fpos + 1 /\ rwin.rr =< swin.top_sent + 1
    BY DEF IInv, Knowledge
  <2> QED BY <1>1, <1>5, <1>6, <2>1, <2>2, <2>3 DEF Knowledge
<1>12. NetShape'
  <2>1. net' \subseteq net /\ rwin' = rwin
    BY DEF rvars
  <2>2. ASSUME NEW p \in net
        PROVE  p.seq \in Nat /\ (p.seq =< fpos => p.seq =< fpos')
    BY <1>1, <1>6 DEF IInv, TypeOK, PacketType
  <2> QED BY <1>5, <2>1, <2>2 DEF IInv, NetShape
<1>13. EndOfFile'
  BY DEF IInv, EndOfFile, FillWindow, rvars, EofStates
<1> QED BY <1>7, <1>8, <1>9, <1>10, <1>11, <1>12, <1>13, ReceiverKept DEF IInv

(* send_window: what goes on the wire is full frames, and top_sent covers  *)
(* them.                                                                   *)
LEMMA SendWindowStep ==
  ASSUME IInv, SendWindow, UNCHANGED rvars, net' \subseteq net \cup Outgoing
  PROVE  IInv'
<1> DEFINE v == SetFrames(swin, Fulls, "FRAME_SENT")
<1>1. /\ swin \in WindowType(PacketType) /\ WellPlaced(swin) /\ fpos \in Nat
      /\ swin.bottom \in Nat /\ swin.top \in Nat /\ swin.top_sent \in Nat
      /\ swin.bottom >= 1 /\ swin.bottom - 1 =< fpos /\ fpos =< swin.top
  BY Parameters, WindowFields DEF IInv, TypeOK, SenderShape, Blocks, WellPlaced
<1>2. /\ Fulls \in SUBSET WindowSeqs(swin)
      /\ \A seq \in WindowSeqs(swin) : seq \in Fulls <=> SFrame(seq).state = "FRAME_FULL"
  BY DEF Fulls, SeqsIn, SFrame
<1>3. /\ v \in WindowType(PacketType)
      /\ v.bottom = swin.bottom /\ v.top = swin.top
      /\ v.rr = swin.rr /\ v.srej = swin.srej /\ v.eof = swin.eof
      /\ \A seq \in WindowSeqs(swin) :
           v.Frame[get_frame_num(seq)] =
             IF seq \in Fulls
             THEN [state |-> "FRAME_SENT", pkt |-> SFrame(seq).pkt]
             ELSE SFrame(seq)
  <2>1. "FRAME_SENT" \in FrameState
    BY DEF FrameState
  <2> QED BY <1>1, <1>2, <2>1, SetFramesIs DEF SFrame
<1>4. PICK top_sent \in {swin.top_sent} \cup Fulls :
        /\ \A seq \in {swin.top_sent} \cup Fulls : seq =< top_sent
        /\ swin' = [v EXCEPT !.top_sent = top_sent]
  BY DEF SendWindow
<1> HIDE DEF v
<1>5. top_sent \in Nat /\ swin.top_sent =< top_sent
  BY <1>1, <1>2, <1>4, SeqType
<1>6. /\ swin' \in WindowType(PacketType)
      /\ swin'.bottom = swin.bottom /\ swin'.top = swin.top
      /\ swin'.rr = swin.rr /\ swin'.srej = swin.srej /\ swin'.eof = swin.eof
      /\ swin'.top_sent = top_sent /\ swin'.Frame = v.Frame
  BY <1>3, <1>4, <1>5 DEF WindowType
<1>7. ASSUME NEW seq \in WindowSeqs(swin)
      PROVE  /\ SFrame(seq)'.pkt = SFrame(seq).pkt
             /\ seq \in Fulls => SFrame(seq)'.state = "FRAME_SENT"
             /\ seq \notin Fulls => SFrame(seq)'.state = SFrame(seq).state
  <2>1. SFrame(seq)' = IF seq \in Fulls
                       THEN [state |-> "FRAME_SENT", pkt |-> SFrame(seq).pkt]
                       ELSE SFrame(seq)
    BY <1>3, <1>6 DEF SFrame
  <2>2. CASE seq \in Fulls
    <3>1. SFrame(seq)' = [state |-> "FRAME_SENT", pkt |-> SFrame(seq).pkt]
      BY <2>1, <2>2
    <3> QED BY <2>2, <3>1
  <2> QED BY <2>1, <2>2
<1>8. ASSUME NEW seq \in Fulls
      PROVE  /\ seq \in Nat /\ 1 =< seq /\ seq =< fpos /\ seq =< NumBlocks /\ seq =< top_sent
             /\ SFrame(seq).pkt = Packet("DATA", seq, seq)
  <2>1. seq \in WindowSeqs(swin) /\ seq \in Nat /\ seq >= swin.bottom
    BY <1>1, <1>2, SeqType DEF WindowSeqs
  <2>2. seq =< fpos /\ SFrame(seq).pkt = Packet("DATA", seq, seq)
    BY <1>2, <2>1 DEF IInv, SenderShape
  <2> QED BY <1>1, <1>4, <2>1, <2>2, Parameters DEF IInv, TypeOK, Blocks
<1>9. TypeOK'
  <2>1. Outgoing \subseteq PacketType
    <3> SUFFICES ASSUME NEW seq \in Fulls
                 PROVE  swin.Frame[get_frame_num(seq)].pkt \in PacketType
      BY DEF Outgoing, SendWindow
    <3>1. Packet("DATA", seq, seq) \in PacketType
      BY <1>8, PacketIs, Parameters DEF Blocks
    <3> QED BY <1>8, <3>1 DEF SFrame
  <2> QED BY <1>6, <2>1 DEF IInv, TypeOK, SendWindow, rvars, ServerStates
<1>10. SenderShape'
  <2>1. WindowSeqs(swin') = WindowSeqs(swin) /\ fpos' = fpos
    BY <1>6 DEF WindowSeqs, SendWindow
  <2>2. ASSUME NEW seq \in WindowSeqs(swin)
        PROVE  IF seq =< fpos
               THEN /\ SFrame(seq)'.state \in {"FRAME_FULL", "FRAME_SENT"}
                    /\ SFrame(seq)'.pkt = Packet("DATA", seq, seq)
               ELSE SFrame(seq)'.state = "FRAME_EMPTY"
    BY <1>2, <1>7 DEF IInv, SenderShape
  <2> QED BY <1>6, <2>1, <2>2 DEF IInv, SenderShape
<1>11. SenderSent'
  <2>1. ASSUME NEW seq \in WindowSeqs(swin'), SFrame(seq)'.state = "FRAME_SENT"
        PROVE  seq =< swin'.top_sent
    <3>1. seq \in WindowSeqs(swin) /\ seq \in Nat
      BY <1>1, <1>6, SeqType DEF WindowSeqs
    <3>2. CASE seq \in Fulls
      BY <1>6, <1>8, <3>2
    <3>3. CASE seq \notin Fulls
      <4>1. seq =< swin.top_sent
        BY <1>7, <2>1, <3>1, <3>3 DEF IInv, SenderSent
      <4> QED BY <1>1, <1>5, <1>6, <3>1, <4>1
    <3> QED BY <3>2, <3>3
  <2>2. fpos =< top_sent
    <3>1. CASE fpos \in WindowSeqs(swin)
      <4>1. fpos \in Fulls \/ SFrame(fpos).state = "FRAME_SENT"
        BY <1>1, <1>2, <3>1 DEF IInv, SenderShape
      <4>2. SFrame(fpos).state = "FRAME_SENT" => fpos =< swin.top_sent
        BY <3>1 DEF IInv, SenderSent
      <4> QED BY <1>1, <1>5, <1>8, <4>1, <4>2
    <3>2. CASE fpos \notin WindowSeqs(swin)
      <4>1. fpos = swin.bottom - 1
        BY <1>1, <3>2 DEF WindowSeqs
      <4>2. rwin.rr \in Nat /\ swin.bottom =< rwin.rr /\ rwin.rr =< swin.top_sent + 1
        BY WindowFields DEF IInv, TypeOK, Knowledge
      <4> QED BY <1>1, <1>5, <4>1, <4>2
    <3> QED BY <3>1, <3>2
  <2>3. fpos' = fpos
    BY DEF SendWindow
  <2> QED BY <1>6, <2>1, <2>2, <2>3 DEF SenderSent
<1>12. SenderSeq'
  BY DEF IInv, SenderSeq, SendWindow, TransferStates
<1>13. Knowledge'
  <2>1. rwin.rr \in Nat
    BY WindowFields DEF IInv, TypeOK
  <2> QED BY <1>1, <1>5, <1>6, <2>1 DEF IInv, Knowledge, rvars, SendWindow
<1>14. NetShape'
  <2>1. rwin' = rwin /\ fpos' = fpos
    BY DEF rvars, SendWindow
  <2>2. ASSUME NEW p \in net
        PROVE  p.seq \in Nat /\ (p.seq =< swin.top_sent => p.seq =< top_sent)
    BY <1>1, <1>5 DEF IInv, TypeOK, PacketType
  <2>3. ASSUME NEW p \in Outgoing
        PROVE  \E seq \in Fulls : p = Packet("DATA", seq, seq)
    BY <1>8, <2>3 DEF Outgoing, SendWindow, SFrame
  <2>4. ASSUME NEW p \in Outgoing
        PROVE  /\ p.flag = "DATA" /\ p.data = p.seq /\ 1 =< p.seq
               /\ p.seq =< fpos /\ p.seq =< top_sent
    BY <1>8, <2>3 DEF Packet
  <2>5. ASSUME NEW p \in net'
        PROVE  /\ p.flag = "DATA" => /\ p.data = p.seq
                                     /\ 1 =< p.seq
                                     /\ p.seq =< fpos
                                     /\ p.seq =< top_sent
               /\ p.flag \in {"RR", "SREJ"} => p.seq =< rwin.rr
               /\ p.flag = "FILE_EOF" => p.seq = 1 /\ rwin.rr = NumBlocks + 1
    <3>1. CASE p \in net
      BY <2>2, <3>1 DEF IInv, NetShape
    <3>2. CASE p \in Outgoing
      BY <2>4, <3>2
    <3> QED BY <3>1, <3>2
  <2> QED BY <1>6, <2>1, <2>5 DEF NetShape
<1>15. EndOfFile'
  BY DEF IInv, EndOfFile, SendWindow, rvars, EofStates
<1> QED BY <1>9, <1>10, <1>11, <1>12, <1>13, <1>14, <1>15, ReceiverKept DEF IInv

(* A step that keeps the frames, the window's place and the file position  *)
(* preserves all but what it says of the state it goes to.                 *)
LEMMA FramesKept ==
  ASSUME IInv, UNCHANGED <<rvars, fpos>>, net' \subseteq net,
         swin' \in WindowType(PacketType),
         swin'.bottom = swin.bottom, swin'.top = swin.top, swin'.eof = swin.eof,
         swin'.top_sent = swin.top_sent, swin'.Frame = swin.Frame,
         swin'.rr =< rwin.rr, swin'.srej =< rwin.rr,
         sstate' \in ServerStates, sseq' \in {0, 1}, eofwait' \in 0 .. EOF_TRIES,
         sstate' \in {"S_WAIT_ON_RESPONSE", "S_TIMEOUT_ON_RESPONSE", "S_ADJUST_WINDOW"}
           => sstate \in {"S_WAIT_ON_RESPONSE", "S_TIMEOUT_ON_RESPONSE", "S_ADJUST_WINDOW"},
         sstate' \in EofStates => rwin.rr = NumBlocks + 1,
         SenderSeq'
  PROVE  IInv'
<1>1. TypeOK'
  BY DEF IInv, TypeOK, rvars
<1>2. SenderShape'
  BY DEF IInv, SenderShape, SFrame, WindowSeqs
<1>3. SenderSent'
  BY DEF IInv, SenderSent, SFrame, WindowSeqs
<1>4. Knowledge' /\ NetShape' /\ EndOfFile'
  BY DEF IInv, Knowledge, NetShape, EndOfFile, rvars
<1> QED BY <1>1, <1>2, <1>3, <1>4, ReceiverKept DEF IInv

(* wait_on_response: an answer tells the server something rcopy knew.      *)
LEMMA HearsResponseStep ==
  ASSUME IInv, UNCHANGED rvars, net' \subseteq net,
         NEW p, p.flag \in {"RR", "SREJ"} => p \in net,
         RecvRR(p) \/ RecvSREJ(p) \/ RecvOther(p)
  PROVE  IInv'
<1>1. /\ swin \in WindowType(PacketType) /\ rwin.rr \in Nat
      /\ swin.rr \in Nat /\ swin.srej \in Nat
      /\ swin.rr =< rwin.rr /\ swin.srej =< rwin.rr
      /\ p.flag \in {"RR", "SREJ"} => p.seq \in Nat /\ p.seq =< rwin.rr
  BY WindowFields DEF IInv, TypeOK, Knowledge, NetShape, PacketType
<1>2. PICK rr \in Nat, srej \in Nat :
        /\ swin' = [swin EXCEPT !.num_wait = 0, !.rr = rr, !.srej = srej]
        /\ rr =< rwin.rr /\ srej =< rwin.rr
  <2>1. CASE RecvRR(p)
    <3> DEFINE rr == IF p.seq > swin.rr THEN p.seq ELSE swin.rr
    <3>1. swin' = [swin EXCEPT !.num_wait = 0, !.rr = rr, !.srej = swin.srej]
      BY <1>1, <2>1 DEF RecvRR, WindowType
    <3>2. rr \in Nat /\ rr =< rwin.rr
      BY <1>1, <2>1 DEF RecvRR
    <3> QED BY <1>1, <3>1, <3>2
  <2>2. CASE RecvSREJ(p)
    <3> DEFINE srej == IF p.seq > swin.srej THEN p.seq ELSE swin.srej
    <3>1. swin' = [swin EXCEPT !.num_wait = 0, !.rr = swin.rr, !.srej = srej]
      BY <1>1, <2>2 DEF RecvSREJ, WindowType
    <3>2. srej \in Nat /\ srej =< rwin.rr
      BY <1>1, <2>2 DEF RecvSREJ
    <3> QED BY <1>1, <3>1, <3>2
  <2>3. CASE RecvOther(p)
    <3>1. swin' = [swin EXCEPT !.num_wait = 0, !.rr = swin.rr, !.srej = swin.srej]
      BY <1>1, <2>3 DEF RecvOther, WindowType
    <3> QED BY <1>1, <3>1
  <2> QED BY <2>1, <2>2, <2>3
<1>3. /\ swin' \in WindowType(PacketType)
      /\ swin'.bottom = swin.bottom /\ swin'.top = swin.top /\ swin'.eof = swin.eof
      /\ swin'.top_sent = swin.top_sent /\ swin'.Frame = swin.Frame
      /\ swin'.rr = rr /\ swin'.srej = srej
  BY <1>1, <1>2 DEF WindowType
<1>4. /\ sstate = "S_WAIT_ON_RESPONSE"
      /\ sstate' \in {"S_ADJUST_WINDOW", "S_FILE_NAME", "S_FINISH"}
      /\ UNCHANGED <<fpos, sseq, eofwait>>
  BY DEF RecvRR, RecvSREJ, RecvOther, HearsResponse
<1>5. SenderSeq'
  BY <1>4 DEF IInv, SenderSeq, TransferStates
<1>6. sseq \in {0, 1} /\ eofwait \in 0 .. EOF_TRIES
  BY DEF IInv, TypeOK
<1> QED BY <1>2, <1>3, <1>4, <1>5, <1>6, FramesKept DEF ServerStates, EofStates

(* The steps that change nothing but the state and the counters of         *)
(* file_eof.  AdjustDone is where the end of the file is decided: rr is    *)
(* beyond everything sent, and everything was.                             *)
LEMMA QuietServerStep ==
  ASSUME IInv, UNCHANGED rvars, net' \subseteq net,
         \/ NoResponse \/ AbandonWindow \/ AdjustDone \/ AdjustStay
         \/ CreateFileEof \/ NoAck \/ TimeoutOnAck
         \/ \E p : RecvEofAck(p) \/ IgnoreOnAck(p)
  PROVE  IInv'
<1>1. /\ swin \in WindowType(PacketType) /\ rwin.rr \in Nat /\ fpos \in Nat
      /\ swin.rr \in Nat /\ swin.srej \in Nat /\ swin.top_sent \in Nat
      /\ swin.rr =< rwin.rr /\ swin.srej =< rwin.rr /\ rwin.rr =< fpos + 1
      /\ sstate \in ServerStates /\ sseq \in {0, 1} /\ eofwait \in 0 .. EOF_TRIES
  BY WindowFields DEF IInv, TypeOK, Knowledge, Blocks
<1>2. swin' = swin /\ fpos' = fpos
  BY DEF NoResponse, AbandonWindow, AdjustDone, AdjustStay, CreateFileEof, NoAck,
         TimeoutOnAck, RecvEofAck, IgnoreOnAck, svars
<1>3. sstate' \in ServerStates /\ sseq' \in {0, 1} /\ eofwait' \in 0 .. EOF_TRIES
  <2>1. CASE CreateFileEof
    BY <1>1, <2>1 DEF CreateFileEof, IInv, SenderSeq, ServerStates
  <2>2. CASE TimeoutOnAck
    BY <1>1, <2>2, Parameters DEF TimeoutOnAck, ServerStates
  <2> QED
    BY <1>1, <2>1, <2>2 DEF NoResponse, AbandonWindow, AdjustDone, AdjustStay, NoAck,
         RecvEofAck, IgnoreOnAck, svars, ServerStates
<1>4. SenderSeq'
  <2>1. CASE CreateFileEof
    BY <2>1 DEF CreateFileEof, IInv, SenderSeq, TransferStates
  <2> QED
    BY <2>1 DEF NoResponse, AbandonWindow, AdjustDone, AdjustStay, NoAck, TimeoutOnAck,
         RecvEofAck, IgnoreOnAck, svars, IInv, SenderSeq, TransferStates
<1>5. sstate' \in EofStates => rwin.rr = NumBlocks + 1
  <2>1. CASE AdjustDone
    <3>1. swin.eof /\ swin.rr > swin.top_sent /\ sstate = "S_ADJUST_WINDOW"
      BY <2>1 DEF AdjustDone, AllAcked
    <3>2. fpos = NumBlocks /\ fpos =< swin.top_sent
      BY <3>1 DEF IInv, SenderShape, SenderSent
    <3> QED BY <1>1, <3>1, <3>2
  <2> QED
    BY <2>1 DEF NoResponse, AbandonWindow, AdjustStay, CreateFileEof, NoAck, TimeoutOnAck,
         RecvEofAck, IgnoreOnAck, svars, IInv, EndOfFile, EofStates
<1>6. sstate' \in {"S_WAIT_ON_RESPONSE", "S_TIMEOUT_ON_RESPONSE", "S_ADJUST_WINDOW"}
        => sstate \in {"S_WAIT_ON_RESPONSE", "S_TIMEOUT_ON_RESPONSE", "S_ADJUST_WINDOW"}
  BY DEF NoResponse, AbandonWindow, AdjustDone, AdjustStay, CreateFileEof, NoAck, TimeoutOnAck,
         RecvEofAck, IgnoreOnAck, svars
<1> QED BY <1>1, <1>2, <1>3, <1>4, <1>5, <1>6, FramesKept

(* The FILE_EOF on the wire says that rcopy has received everything.       *)
LEMMA SendFileEofStep ==
  ASSUME IInv, SendFileEof, UNCHANGED rvars, net' \subseteq net \cup Outgoing
  PROVE  IInv'
<1>1. net' \subseteq net \cup {Packet("FILE_EOF", 1, 0)}
  BY DEF SendFileEof, Outgoing, IInv, SenderSeq
<1>2. Packet("FILE_EOF", 1, 0) \in PacketType
  BY PacketIs, Parameters DEF Blocks
<1>3. rwin.rr = NumBlocks + 1
  BY DEF IInv, EndOfFile, EofStates, SendFileEof
<1>4. TypeOK'
  BY <1>1, <1>2 DEF IInv, TypeOK, SendFileEof, rvars, ServerStates
<1>5. SenderShape' /\ SenderSent' /\ SenderSeq'
  BY DEF IInv, SenderShape, SenderSent, SenderSeq, SendFileEof, SFrame, TransferStates
<1>6. Knowledge' /\ EndOfFile'
  BY DEF IInv, Knowledge, EndOfFile, EofStates, SendFileEof, rvars
<1>7. NetShape'
  <2>1. \A p \in net' \ net : p.flag = "FILE_EOF" /\ p.seq = 1
    BY <1>1 DEF Packet
  <2>2. UNCHANGED <<fpos, swin, rwin>>
    BY DEF SendFileEof, rvars
  <2>3. ASSUME NEW p \in net'
        PROVE  /\ p.flag = "DATA" => /\ p.data = p.seq
                                     /\ 1 =< p.seq
                                     /\ p.seq =< fpos
                                     /\ p.seq =< swin.top_sent
               /\ p.flag \in {"RR", "SREJ"} => p.seq =< rwin.rr
               /\ p.flag = "FILE_EOF" => p.seq = 1 /\ rwin.rr = NumBlocks + 1
    <3>1. CASE p \in net
      BY <3>1 DEF IInv, NetShape
    <3>2. CASE p \notin net
      BY <1>3, <2>1, <3>2
    <3> QED BY <3>1, <3>2
  <2> QED BY <2>2, <2>3 DEF NetShape
<1> QED BY <1>4, <1>5, <1>6, <1>7, ReceiverKept DEF IInv

(* timeout_on_response: the frames sent are full again, with the same      *)
(* packets in them.                                                        *)
LEMMA RetryWindowStep ==
  ASSUME IInv, RetryWindow, UNCHANGED rvars, net' \subseteq net
  PROVE  IInv'
<1> DEFINE S == SeqsIn(swin, "FRAME_SENT")
           v == SetFrames(swin, S, "FRAME_FULL")
<1>1. swin \in WindowType(PacketType) /\ WellPlaced(swin)
  BY DEF IInv, TypeOK, SenderShape, WellPlaced
<1>2. /\ S \in SUBSET WindowSeqs(swin)
      /\ \A seq \in WindowSeqs(swin) : seq \in S <=> SFrame(seq).state = "FRAME_SENT"
  BY DEF SeqsIn, SFrame
<1> HIDE DEF S
<1>3. /\ v \in WindowType(PacketType)
      /\ v.bottom = swin.bottom /\ v.top = swin.top
      /\ v.rr = swin.rr /\ v.srej = swin.srej /\ v.eof = swin.eof
      /\ v.num_wait = swin.num_wait /\ v.top_sent = swin.top_sent
      /\ \A seq \in WindowSeqs(swin) :
           v.Frame[get_frame_num(seq)] =
             IF seq \in S
             THEN [state |-> "FRAME_FULL", pkt |-> SFrame(seq).pkt]
             ELSE SFrame(seq)
  <2>1. "FRAME_FULL" \in FrameState
    BY DEF FrameState
  <2>2. /\ v \in WindowType(PacketType)
        /\ v.bottom = swin.bottom /\ v.top = swin.top
        /\ v.rr = swin.rr /\ v.srej = swin.srej /\ v.eof = swin.eof
        /\ v.num_wait = swin.num_wait /\ v.top_sent = swin.top_sent
    BY <1>1, <1>2, <2>1, SetFramesIs
  <2>3. \A seq \in WindowSeqs(swin) :
          v.Frame[get_frame_num(seq)] =
            IF seq \in S
            THEN [state |-> "FRAME_FULL", pkt |-> swin.Frame[get_frame_num(seq)].pkt]
            ELSE swin.Frame[get_frame_num(seq)]
    BY <1>1, <1>2, <2>1, SetFramesIs
  <2> QED BY <2>2, <2>3 DEF SFrame
<1>4. swin' = [v EXCEPT !.num_wait = v.num_wait + 1]
  BY DEF RetryWindow, S
<1> HIDE DEF v
<1>5. /\ swin' \in WindowType(PacketType)
      /\ swin'.bottom = swin.bottom /\ swin'.top = swin.top
      /\ swin'.rr = swin.rr /\ swin'.srej = swin.srej /\ swin'.eof = swin.eof
      /\ swin'.top_sent = swin.top_sent /\ swin'.Frame = v.Frame
  BY <1>3, <1>4 DEF WindowType
<1>6. ASSUME NEW seq \in WindowSeqs(swin)
      PROVE  /\ SFrame(seq)'.pkt = SFrame(seq).pkt
             /\ SFrame(seq)'.state = IF SFrame(seq).state = "FRAME_SENT"
                                     THEN "FRAME_FULL" ELSE SFrame(seq).state
  <2>1. SFrame(seq)' = IF seq \in S
                       THEN [state |-> "FRAME_FULL", pkt |-> SFrame(seq).pkt]
                       ELSE SFrame(seq)
    BY <1>3, <1>5 DEF SFrame
  <2>2. CASE seq \in S
    <3>1. SFrame(seq)' = [state |-> "FRAME_FULL", pkt |-> SFrame(seq).pkt]
      BY <2>1, <2>2
    <3> QED BY <1>2, <2>2, <3>1
  <2> QED BY <1>2, <2>1, <2>2
<1>7. WindowSeqs(swin') = WindowSeqs(swin) /\ fpos' = fpos
  BY <1>5 DEF WindowSeqs, RetryWindow
<1>8. TypeOK'
  BY <1>5 DEF IInv, TypeOK, RetryWindow, rvars, ServerStates
<1>9. SenderShape'
  <2>1. ASSUME NEW seq \in WindowSeqs(swin)
        PROVE  IF seq =< fpos
               THEN /\ SFrame(seq)'.state \in {"FRAME_FULL", "FRAME_SENT"}
                    /\ SFrame(seq)'.pkt = Packet("DATA", seq, seq)
               ELSE SFrame(seq)'.state = "FRAME_EMPTY"
    BY <1>6 DEF IInv, SenderShape
  <2> QED BY <1>5, <1>7, <2>1 DEF IInv, SenderShape
<1>10. SenderSent'
  <2>1. \A seq \in WindowSeqs(swin) : SFrame(seq)'.state # "FRAME_SENT"
    BY <1>6
  <2> QED BY <1>7, <2>1 DEF SenderSent, RetryWindow
<1>11. SenderSeq' /\ Knowledge' /\ NetShape' /\ EndOfFile'
  BY <1>5 DEF IInv, SenderSeq, Knowledge, NetShape, EndOfFile, RetryWindow, rvars,
              TransferStates, EofStates
<1> QED BY <1>8, <1>9, <1>10, <1>11, ReceiverKept DEF IInv

(* adjust_window: the window slides over what rcopy has received.          *)
LEMMA AdjustSlideStep ==
  ASSUME IInv, AdjustSlide, UNCHANGED rvars, net' \subseteq net
  PROVE  IInv'
<1>1. /\ swin \in WindowType(PacketType) /\ WellPlaced(swin) /\ CanSlide(swin)
      /\ fpos \in Nat /\ rwin.rr \in Nat /\ swin.bottom \in Nat /\ swin.top \in Nat
      /\ swin.rr \in Nat /\ swin.srej \in Nat
      /\ swin.bottom >= 1 /\ fpos =< swin.top
      /\ swin.rr =< rwin.rr /\ swin.srej =< rwin.rr /\ rwin.rr =< fpos + 1
      /\ swin' = Slide(swin)
  BY WindowFields DEF IInv, TypeOK, SenderShape, Knowledge, WellPlaced, AdjustSlide, Blocks
<1>2. Acked(swin) \in Nat /\ Acked(swin) =< rwin.rr /\ Acked(swin) =< swin.top + 1
  BY <1>1 DEF Acked
<1>3. /\ swin' \in WindowType(PacketType)
      /\ swin'.bottom = Acked(swin) /\ swin'.bottom > swin.bottom /\ WellPlaced(swin')
      /\ swin'.rr = swin.rr /\ swin'.srej = swin.srej
      /\ swin'.eof = swin.eof /\ swin'.top_sent = swin.top_sent
      /\ \A seq \in WindowSeqs(swin') :
           IF seq =< swin.top
           THEN swin'.Frame[get_frame_num(seq)] = swin.Frame[get_frame_num(seq)]
           ELSE swin'.Frame[get_frame_num(seq)].state = "FRAME_EMPTY"
  BY <1>1, <1>2, SlideIs
<1>4. /\ sstate' = "S_FILL_WINDOW" /\ sstate = "S_ADJUST_WINDOW"
      /\ UNCHANGED <<fpos, sseq, eofwait>>
  BY DEF AdjustSlide
<1>5. ASSUME NEW seq \in WindowSeqs(swin')
      PROVE  /\ seq \in Nat
             /\ seq =< swin.top => seq \in WindowSeqs(swin) /\ SFrame(seq)' = SFrame(seq)
             /\ ~(seq =< swin.top) => SFrame(seq)'.state = "FRAME_EMPTY"
  <2>1. seq \in Nat
    BY <1>3, SeqType
  <2> QED BY <1>1, <1>2, <1>3, <2>1 DEF WindowSeqs, SFrame
<1>6. TypeOK'
  BY <1>3, <1>4 DEF IInv, TypeOK, rvars, ServerStates
<1>7. SenderShape'
  <2>1. swin'.bottom >= 1 /\ swin'.bottom - 1 =< fpos /\ fpos =< swin'.top
    BY <1>1, <1>2, <1>3, Parameters DEF WellPlaced
  <2>2. ASSUME NEW seq \in WindowSeqs(swin')
        PROVE  IF seq =< fpos
               THEN /\ SFrame(seq)'.state \in {"FRAME_FULL", "FRAME_SENT"}
                    /\ SFrame(seq)'.pkt = Packet("DATA", seq, seq)
               ELSE SFrame(seq)'.state = "FRAME_EMPTY"
    <3>1. CASE seq =< swin.top
      BY <1>5, <3>1 DEF IInv, SenderShape
    <3>2. CASE ~(seq =< swin.top)
      BY <1>1, <1>5, <3>2
    <3> QED BY <3>1, <3>2
  <2> QED BY <1>3, <1>4, <2>1, <2>2 DEF IInv, SenderShape, WellPlaced
<1>8. SenderSent'
  BY <1>3, <1>4, <1>5 DEF IInv, SenderSent
<1>9. SenderSeq' /\ Knowledge' /\ NetShape' /\ EndOfFile'
  BY <1>1, <1>2, <1>3, <1>4 DEF IInv, SenderSeq, Knowledge, NetShape, EndOfFile, rvars,
                                TransferStates, EofStates
<1> QED BY <1>6, <1>7, <1>8, <1>9, ReceiverKept DEF IInv

-----------------------------------------------------------------------------
(* rcopy's steps.                                                          *)

(* The fields of rcopy's window and what it knows.                         *)
LEMMA ReceiverFields ==
  ASSUME IInv
  PROVE  /\ rwin \in WindowType(Blocks) /\ WellPlaced(rwin)
         /\ rwin.bottom \in Nat /\ rwin.top \in Nat /\ rwin.rr \in Nat /\ rwin.srej \in Nat
         /\ rwin.bottom >= 1 /\ rwin.srej =< rwin.rr /\ rwin.bottom =< rwin.rr
         /\ fpos \in Nat /\ fpos =< NumBlocks /\ rwin.rr =< fpos + 1
         /\ rwin.rr - 1 \in Blocks
<1>1. rwin \in WindowType(Blocks) /\ fpos \in Blocks
  BY DEF IInv, TypeOK
<1>2. rwin.bottom \in Nat /\ rwin.top \in Nat /\ rwin.rr \in Nat /\ rwin.srej \in Nat
  BY <1>1, WindowFields
<1>3. fpos \in Nat /\ fpos =< NumBlocks
  BY <1>1, Parameters DEF Blocks
<1>4. /\ WellPlaced(rwin) /\ rwin.bottom >= 1 /\ rwin.srej =< rwin.rr
      /\ rwin.bottom = rwin.rr \/ rwin.bottom = rwin.rr - 1
  BY DEF IInv, ReceiverShape, WellPlaced
<1>5. rwin.rr =< fpos + 1
  BY DEF IInv, Knowledge
<1>6. rwin.bottom =< rwin.rr /\ rwin.rr - 1 \in Blocks
  BY <1>2, <1>3, <1>4, <1>5, Parameters DEF Blocks
<1> QED BY <1>1, <1>2, <1>3, <1>4, <1>5, <1>6

(* A step of rcopy that moves rr up at most, and to a number that was      *)
(* sent, preserves what is said of both ends together.                     *)
LEMMA KnowledgeKept ==
  ASSUME IInv, UNCHANGED svars, rwin' \in WindowType(Blocks),
         rwin'.rr >= rwin.rr, rwin'.rr =< fpos + 1, rwin'.rr =< swin.top_sent + 1
  PROVE  Knowledge'
BY WindowFields DEF IInv, TypeOK, Knowledge, svars

(* The steps that leave the window and the file alone.  A FILE_EOF is      *)
(* believed: it was sent after everything had been received.               *)
LEMMA QuietRcopyStep ==
  ASSUME IInv, UNCHANGED svars, net' \subseteq net,
         \/ RecvCorrupt \/ NoData \/ TimeoutOnData
         \/ \E p : /\ p.flag \in {"DATA", "FILE_EOF"} => p \in net
                   /\ RecvEof(p) \/ RecvOld(p) \/ IgnoreOnData(p)
  PROVE  IInv'
<1>1. /\ UNCHANGED <<rwin, out>>
      /\ rstate \in {"S_WAIT_ON_DATA", "S_TIMEOUT_ON_DATA"}
      /\ rstate' \in RcopyStates \ {"S_ADJUST_WINDOW", "S_WRITE_DATA"}
  BY DEF RecvCorrupt, NoData, TimeoutOnData, RecvEof, RecvOld, IgnoreOnData, HearsData, RcopyStates
<1>2. rwin.bottom = rwin.rr
  BY <1>1 DEF IInv, ReceiverShape
<1>3. rbuf' \in Blocks
  BY Parameters DEF RecvCorrupt, NoData, TimeoutOnData, RecvEof, RecvOld, IgnoreOnData, Received,
                    IInv, TypeOK, PacketType, Blocks
<1>4. \/ rseq' = rseq /\ rseq = 0 /\ rstate' # "S_FILE_EOF"
      \/ rseq' = 1 /\ rwin.rr = NumBlocks + 1 /\ rstate' = "S_FILE_EOF"
  BY <1>1 DEF RecvCorrupt, NoData, TimeoutOnData, RecvEof, RecvOld, IgnoreOnData,
              IInv, TypeOK, NetShape, EndOfFile
<1>5. TypeOK'
  BY <1>1, <1>3, <1>4 DEF IInv, TypeOK, svars
<1>6. SenderShape' /\ SenderSent' /\ SenderSeq'
  BY SenderKept DEF IInv
<1>7. Knowledge' /\ NetShape' /\ EndOfFile'
  BY <1>1, <1>4 DEF IInv, Knowledge, NetShape, EndOfFile, svars
<1>8. ReceiverShape'
  BY <1>1, <1>2 DEF IInv, ReceiverShape, RFrame
<1>9. ReceiverOutput'
  BY <1>1, <1>2, ReceiverFields DEF IInv, ReceiverOutput, RFrame
<1> QED BY <1>5, <1>6, <1>7, <1>8, <1>9 DEF IInv

(* pkt_fill_frame: the frame of the packet is full, the others are kept.   *)
LEMMA FillFrameIs ==
  ASSUME IInv, NEW p \in net, FreshData(p), rstate = "S_WAIT_ON_DATA"
  PROVE  LET v == FillFrame(rwin, p)
         IN  /\ v \in WindowType(Blocks)
             /\ v.bottom = rwin.bottom /\ v.top = rwin.top
             /\ v.rr = rwin.rr /\ v.srej = rwin.srej
             /\ \A seq \in WindowSeqs(rwin) :
                  v.Frame[get_frame_num(seq)] =
                    IF seq = p.seq THEN [state |-> "FRAME_FULL", pkt |-> seq] ELSE RFrame(seq)
<1> DEFINE v == FillFrame(rwin, p)
           i == get_frame_num(p.seq)
           f == [state |-> "FRAME_FULL",
                 pkt   |-> IF rwin.Frame[i].state = "FRAME_EMPTY" THEN p.data ELSE rwin.Frame[i].pkt]
<1>1. /\ rwin \in WindowType(Blocks) /\ WellPlaced(rwin)
      /\ p.seq \in WindowSeqs(rwin) /\ p.seq \in Nat /\ i \in Slots
      /\ p.data = p.seq /\ p.data \in Blocks
  <2>1. p.flag = "DATA" /\ p.seq \in WindowSeqs(rwin)
    BY DEF FreshData, within_window
  <2>2. p.data = p.seq /\ p.data \in Blocks
    BY <2>1 DEF IInv, NetShape, TypeOK, PacketType
  <2> QED BY <2>1, <2>2, ReceiverFields, SeqType
<1>2. f = [state |-> "FRAME_FULL", pkt |-> p.seq]
  <2>1. \/ RFrame(p.seq).state = "FRAME_EMPTY"
        \/ RFrame(p.seq).state = "FRAME_FULL" /\ RFrame(p.seq).pkt = p.seq
    BY <1>1 DEF IInv, ReceiverShape
  <2>2. f.pkt = p.seq
    BY <1>1, <2>1 DEF RFrame
  <2> QED BY <2>2
<1>3. v = [rwin EXCEPT !.Frame = [rwin.Frame EXCEPT ![i] = f]]
  BY DEF FillFrame
<1>4. [rwin.Frame EXCEPT ![i] = f] \in [Slots -> [state : FrameState, pkt : Blocks]]
  <2>1. f \in [state : FrameState, pkt : Blocks]
    BY <1>1, <1>2 DEF FrameState
  <2> HIDE DEF f, i
  <2> QED BY <1>1, <2>1, WindowFields
<1> HIDE DEF v, f
<1>5. /\ v \in WindowType(Blocks)
      /\ v.bottom = rwin.bottom /\ v.top = rwin.top
      /\ v.rr = rwin.rr /\ v.srej = rwin.srej
      /\ v.Frame = [rwin.Frame EXCEPT ![i] = f]
  BY <1>1, <1>3, <1>4 DEF WindowType
<1>6. ASSUME NEW seq \in WindowSeqs(rwin)
      PROVE  v.Frame[get_frame_num(seq)] =
               IF seq = p.seq THEN [state |-> "FRAME_FULL", pkt |-> seq] ELSE RFrame(seq)
  <2>1. get_frame_num(seq) \in Slots
    BY <1>1, SeqType
  <2>2. rwin.Frame \in [Slots -> [state : FrameState, pkt : Blocks]]
    BY <1>1, WindowFields
  <2>3. CASE seq = p.seq
    BY <1>2, <1>5, <2>1, <2>2, <2>3
  <2>4. CASE seq # p.seq
    <3>1. get_frame_num(seq) # i
      BY <1>1, <2>4, SlotsOfWindow
    <3> QED BY <1>5, <2>1, <2>2, <2>4, <3>1 DEF RFrame
  <2> QED BY <2>3, <2>4
<1> QED BY <1>5, <1>6 DEF v

(* wait_on_data takes a block of its window.  When it is the next one, the *)
(* buffer holds its bytes.                                                 *)
LEMMA RecvFreshStep ==
  ASSUME IInv, UNCHANGED svars, net' \subseteq net, NEW p \in net, RecvNext(p) \/ RecvAhead(p)
  PROVE  IInv'
<1> DEFINE v == FillFrame(rwin, p)
<1>1. /\ rstate = "S_WAIT_ON_DATA" /\ FreshData(p) /\ p.flag = "DATA"
      /\ UNCHANGED <<rseq, out>> /\ rbuf' = p.data
  BY DEF RecvNext, RecvAhead, HearsData, FreshData, Received
<1>2. /\ p.seq \in WindowSeqs(rwin) /\ p.data = p.seq /\ p.data \in Blocks
      /\ p.seq =< fpos /\ p.seq =< swin.top_sent /\ p.seq \in Nat /\ swin.top_sent \in Nat
  BY <1>1, WindowFields DEF FreshData, within_window, IInv, NetShape, TypeOK, PacketType
<1>3. /\ rwin \in WindowType(Blocks)
      /\ rwin.bottom \in Nat /\ rwin.top \in Nat /\ rwin.rr \in Nat /\ rwin.srej \in Nat
      /\ rwin.bottom >= 1 /\ rwin.srej =< rwin.rr /\ rwin.rr =< fpos + 1 /\ fpos \in Nat
      /\ fpos =< NumBlocks
  BY ReceiverFields
<1>4. rwin.bottom = rwin.rr /\ rseq = 0
  BY <1>1 DEF IInv, ReceiverShape, EndOfFile
<1>5. /\ v \in WindowType(Blocks)
      /\ v.bottom = rwin.bottom /\ v.top = rwin.top
      /\ v.rr = rwin.rr /\ v.srej = rwin.srej
      /\ \A seq \in WindowSeqs(rwin) :
           v.Frame[get_frame_num(seq)] =
             IF seq = p.seq THEN [state |-> "FRAME_FULL", pkt |-> seq] ELSE RFrame(seq)
  BY <1>1, FillFrameIs
<1>6. /\ rwin' \in WindowType(Blocks)
      /\ rwin'.bottom = rwin.bottom /\ rwin'.top = rwin.top /\ rwin'.srej = rwin.srej
      /\ rwin'.Frame = v.Frame
      /\ \/ rwin'.rr = rwin.rr /\ rstate' = "S_SEND_SREJ"
         \/ rwin'.rr = rwin.rr + 1 /\ rstate' = "S_SEND_RR" /\ p.seq = rwin.rr
  <2> HIDE DEF v
  <2>1. CASE RecvNext(p)
    <3>1. rwin' = [v EXCEPT !.rr = v.rr + 1] /\ p.seq = rwin.rr /\ rstate' = "S_SEND_RR"
      BY <2>1 DEF RecvNext, v
    <3> QED BY <1>3, <1>5, <3>1 DEF WindowType
  <2>2. CASE RecvAhead(p)
    <3>1. rwin' = v /\ rstate' = "S_SEND_SREJ"
      BY <2>2 DEF RecvAhead, v
    <3> QED BY <1>5, <3>1
  <2> QED BY <2>1, <2>2
<1> HIDE DEF v
<1>7. ASSUME NEW seq \in WindowSeqs(rwin)
      PROVE  RFrame(seq)' = IF seq = p.seq THEN [state |-> "FRAME_FULL", pkt |-> seq] ELSE RFrame(seq)
  BY <1>5, <1>6 DEF RFrame
<1>8. WindowSeqs(rwin') = WindowSeqs(rwin)
  BY <1>6 DEF WindowSeqs
<1>9. TypeOK'
  BY <1>1, <1>2, <1>6 DEF IInv, TypeOK, svars, RcopyStates
<1>10. SenderShape' /\ SenderSent' /\ SenderSeq'
  BY SenderKept DEF IInv
<1>11. Knowledge'
  <2>1. rwin'.rr >= rwin.rr /\ rwin'.rr =< fpos + 1 /\ rwin'.rr =< swin.top_sent + 1
    BY <1>2, <1>3, <1>6 DEF IInv, Knowledge
  <2> QED BY <1>6, <2>1, KnowledgeKept
<1>12. NetShape' /\ EndOfFile'
  <2>1. ASSUME NEW q \in net, q.flag \in {"RR", "SREJ"}
        PROVE  q.seq =< rwin'.rr
    BY <1>3, <1>6, <2>1 DEF IInv, NetShape, TypeOK, PacketType
  <2>2. rwin.rr = NumBlocks + 1 => rwin'.rr = NumBlocks + 1
    BY <1>2, <1>3, <1>6, Parameters
  <2>3. rstate' # "S_FILE_EOF"
    BY <1>6
  <2> QED BY <1>1, <1>4, <2>1, <2>2, <2>3 DEF IInv, NetShape, EndOfFile, svars
<1>13. ReceiverShape'
  <2>1. ASSUME NEW seq \in WindowSeqs(rwin)
        PROVE  \/ RFrame(seq)'.state = "FRAME_EMPTY"
               \/ RFrame(seq)'.state = "FRAME_FULL" /\ RFrame(seq)'.pkt = seq
    <3>1. CASE seq = p.seq
      <4>1. RFrame(seq)' = [state |-> "FRAME_FULL", pkt |-> seq]
        BY <1>7, <3>1
      <4> QED BY <4>1
    <3>2. CASE seq # p.seq
      BY <1>1, <1>7, <3>2 DEF IInv, ReceiverShape
    <3> QED BY <3>1, <3>2
  <2>2. rwin'.srej =< rwin'.rr
    BY <1>3, <1>6
  <2>3. \/ rwin'.bottom = rwin'.rr
        \/ rwin'.bottom = rwin'.rr - 1 /\ rstate' = "S_SEND_RR"
    BY <1>3, <1>4, <1>6
  <2> QED BY <1>6, <1>8, <2>1, <2>2, <2>3 DEF IInv, ReceiverShape
<1>14. ReceiverOutput'
  <2>1. Len(out') = rwin'.bottom - 1
    BY <1>1, <1>6 DEF IInv, ReceiverOutput
  <2>2. ASSUME rwin'.bottom = rwin'.rr - 1
        PROVE  RFrame(rwin.bottom)'.state = "FRAME_FULL" /\ rbuf' = rwin.bottom
    <3>1. p.seq = rwin.bottom
      BY <1>3, <1>4, <1>6, <2>2
    <3>2. RFrame(rwin.bottom)' = [state |-> "FRAME_FULL", pkt |-> rwin.bottom]
      BY <1>2, <1>6, <1>7, <3>1
    <3> QED BY <1>1, <1>2, <3>1, <3>2
  <2> QED BY <1>1, <1>6, <2>1, <2>2 DEF IInv, ReceiverOutput, RFrame
<1> QED BY <1>9, <1>10, <1>11, <1>12, <1>13, <1>14 DEF IInv

(* write_data: the one frame below rr, if there is one, is written from    *)
(* the shared buffer, which still holds its bytes.                         *)
LEMMA WriteDataIs ==
  ASSUME IInv, rstate = "S_WRITE_DATA"
  PROVE  /\ Writable = IF rwin.bottom = rwin.rr THEN {} ELSE {rwin.bottom}
         /\ rwin.bottom # rwin.rr
              => Piece(rwin.bottom) = [data |-> rwin.bottom, len |-> rwin.bottom]
<1>1. /\ rwin.bottom \in Nat /\ rwin.top \in Nat /\ rwin.rr \in Nat /\ rwin.srej \in Nat
      /\ rwin.srej =< rwin.rr /\ rwin.top = rwin.bottom + WindowSize - 1
      /\ WindowSize \in Nat /\ WindowSize > 0
  BY ReceiverFields, Parameters DEF WellPlaced
<1>2. rwin.bottom = rwin.rr \/ rwin.bottom = rwin.rr - 1
  BY DEF IInv, ReceiverShape
<1>3. Acked(rwin) = rwin.rr
  BY <1>1 DEF Acked
<1>4. CASE rwin.bottom = rwin.rr
  <2>1. \A seq \in WindowSeqs(rwin) : ~(seq < Acked(rwin))
    BY <1>1, <1>3, <1>4 DEF WindowSeqs
  <2> QED BY <1>4, <2>1 DEF Writable, SeqsIn
<1>5. CASE rwin.bottom = rwin.rr - 1
  <2>1. \A seq \in WindowSeqs(rwin) : seq < Acked(rwin) <=> seq = rwin.bottom
    BY <1>1, <1>3, <1>5 DEF WindowSeqs
  <2>2. rwin.bottom \in WindowSeqs(rwin)
    BY <1>1 DEF WindowSeqs
  <2>3. RFrame(rwin.bottom).state = "FRAME_FULL" /\ rbuf = rwin.bottom
    BY <1>5 DEF IInv, ReceiverOutput
  <2>4. RFrame(rwin.bottom).pkt = rwin.bottom
    BY <1>1, <1>5, <2>2, <2>3 DEF IInv, ReceiverShape
  <2>5. Writable = {rwin.bottom}
    BY <2>1, <2>2, <2>3 DEF Writable, SeqsIn, RFrame
  <2>6. rwin.bottom # rwin.rr
    BY <1>1, <1>5
  <2> QED BY <2>3, <2>4, <2>5, <2>6 DEF Piece, RFrame
<1> QED BY <1>2, <1>4, <1>5

(* What write_data appends: nothing, or the block after the last.          *)
LEMMA WriteDataAppends ==
  ASSUME IInv, WriteData
  PROVE  IF rwin.bottom = rwin.rr
         THEN out' = out
         ELSE out' = Append(out, [data |-> rwin.bottom, len |-> rwin.bottom])
<1> DEFINE more == [i \in 1 .. Cardinality(Writable) |->
                      Piece(CHOOSE seq \in Writable : Rank(Writable, seq) = i)]
<1>1. rstate = "S_WRITE_DATA" /\ out' = out \o more
  BY DEF WriteData
<1>2. out \in Seq(Pieces)
  BY DEF IInv, TypeOK, Pieces
<1>3. CASE rwin.bottom = rwin.rr
  <2>1. Writable = {}
    BY <1>1, <1>3, WriteDataIs
  <2>2. Cardinality(Writable) = 0
    BY <2>1, FS_EmptySet
  <2>3. more = << >>
    BY <2>2
  <2> HIDE DEF more
  <2> QED BY <1>1, <1>2, <1>3, <2>3
<1>4. CASE rwin.bottom # rwin.rr
  <2> DEFINE b == rwin.bottom
             piece == [data |-> b, len |-> b]
  <2>1. Writable = {b} /\ Piece(b) = piece
    BY <1>1, <1>4, WriteDataIs
  <2>2. Cardinality(Writable) = 1
    BY <2>1, FS_Singleton
  <2>3. b \in Nat
    BY ReceiverFields
  <2> HIDE DEF b
  <2>4. {s \in {b} : s =< b} = {b}
    BY <2>3
  <2>5. Rank(Writable, b) = 1
    BY <2>1, <2>2, <2>4 DEF Rank
  <2>6. (CHOOSE seq \in Writable : Rank(Writable, seq) = 1) = b
    BY <2>1, <2>5
  <2>7. more = [i \in 1 .. 1 |-> piece]
    <3> DEFINE written(i) == Piece(CHOOSE seq \in Writable : Rank(Writable, seq) = i)
    <3>1. written(1) = piece
      BY <2>1, <2>6
    <3>2. \A i \in 1 .. 1 : i = 1
      OBVIOUS
    <3> HIDE DEF written, piece
    <3>3. [i \in 1 .. 1 |-> written(i)] = [i \in 1 .. 1 |-> piece]
      BY <3>1, <3>2
    <3> QED BY <2>2, <3>3 DEF written
  <2>8. more = <<piece>>
    BY <2>7
  <2> HIDE DEF more, piece
  <2>9. out' = Append(out, piece)
    BY <1>1, <1>2, <2>8
  <2> QED BY <1>4, <2>9 DEF piece, b
<1> QED BY <1>3, <1>4

(* write_data: the file grows by the next block or not at all.             *)
LEMMA WriteDataStep ==
  ASSUME IInv, WriteData, UNCHANGED svars, net' \subseteq net
  PROVE  IInv'
<1>1. /\ rwin \in WindowType(Blocks) /\ WellPlaced(rwin)
      /\ rwin.bottom \in Nat /\ rwin.rr \in Nat /\ rwin.bottom >= 1
      /\ rwin.rr - 1 \in Blocks /\ rwin.bottom =< rwin.rr
  BY ReceiverFields
<1>2. /\ rstate = "S_WRITE_DATA" /\ rstate' = "S_ADJUST_WINDOW"
      /\ rwin' = SetFrames(rwin, Writable, "FRAME_WRITTEN")
      /\ UNCHANGED <<rbuf, rseq>>
  BY DEF WriteData
<1>3. rwin.bottom = rwin.rr \/ rwin.bottom = rwin.rr - 1
  BY DEF IInv, ReceiverShape
<1>4. /\ Writable \in SUBSET WindowSeqs(rwin)
      /\ \A seq \in Writable : seq < rwin.rr
  <2>1. Writable \in SUBSET WindowSeqs(rwin)
    BY DEF Writable, SeqsIn
  <2>2. CASE rwin.bottom = rwin.rr
    BY <1>2, <2>1, <2>2, WriteDataIs
  <2>3. CASE rwin.bottom = rwin.rr - 1
    <3>1. rwin.bottom # rwin.rr
      BY <1>1, <2>3
    <3>2. Writable = {rwin.bottom}
      BY <1>2, <3>1, WriteDataIs
    <3> QED BY <1>1, <2>1, <2>3, <3>2
  <2> QED BY <1>3, <2>2, <2>3
<1>5. /\ rwin' \in WindowType(Blocks)
      /\ rwin'.bottom = rwin.bottom /\ rwin'.top = rwin.top
      /\ rwin'.rr = rwin.rr /\ rwin'.srej = rwin.srej
      /\ \A seq \in WindowSeqs(rwin) : seq \notin Writable => RFrame(seq)' = RFrame(seq)
  <2>1. /\ "FRAME_WRITTEN" \in FrameState
        /\ rwin \in WindowType(Blocks) /\ WellPlaced(rwin)
        /\ Writable \in SUBSET WindowSeqs(rwin)
    BY <1>1, <1>4 DEF FrameState
  <2> DEFINE v == SetFrames(rwin, Writable, "FRAME_WRITTEN")
  <2>2. /\ v \in WindowType(Blocks)
        /\ v.bottom = rwin.bottom /\ v.top = rwin.top
        /\ v.rr = rwin.rr /\ v.srej = rwin.srej
        /\ \A seq \in WindowSeqs(rwin) :
             v.Frame[get_frame_num(seq)] =
               IF seq \in Writable
               THEN [state |-> "FRAME_WRITTEN", pkt |-> rwin.Frame[get_frame_num(seq)].pkt]
               ELSE rwin.Frame[get_frame_num(seq)]
    BY <2>1, SetFramesIs
  <2>3. rwin' = v
    BY <1>2
  <2> HIDE DEF v
  <2> QED BY <2>2, <2>3 DEF RFrame
<1>6. /\ out \in Seq(Pieces) /\ Len(out) = rwin.bottom - 1
      /\ \A i \in 1 .. Len(out) : out[i] = [data |-> i, len |-> i]
  BY <1>2 DEF IInv, TypeOK, Pieces, ReceiverOutput
<1>7. /\ out' \in Seq(Pieces)
      /\ Len(out') = rwin.rr - 1
      /\ \A i \in 1 .. Len(out') : out'[i] = [data |-> i, len |-> i]
  <2>1. CASE rwin.bottom = rwin.rr
    <3>1. out' = out
      BY <2>1, WriteDataAppends
    <3> QED BY <1>6, <2>1, <3>1
  <2>2. CASE rwin.bottom = rwin.rr - 1
    <3> DEFINE piece == [data |-> rwin.bottom, len |-> rwin.bottom]
    <3>1. piece \in Pieces
      BY <1>1, <2>2 DEF Pieces
    <3>2. rwin.bottom # rwin.rr
      BY <1>1, <2>2
    <3>3. out' = Append(out, piece)
      BY <3>2, WriteDataAppends
    <3>4. piece = [data |-> Len(out) + 1, len |-> Len(out) + 1] /\ Len(out) + 1 = rwin.rr - 1
      BY <1>1, <1>6, <2>2
    <3> HIDE DEF piece
    <3>5. out' \in Seq(Pieces) /\ Len(out') = Len(out) + 1 /\ out'[Len(out) + 1] = piece
      BY <1>6, <3>1, <3>3
    <3>6. \A i \in 1 .. Len(out) : out'[i] = out[i]
      BY <1>6, <3>1, <3>3
    <3> QED BY <1>6, <3>4, <3>5, <3>6
  <2> QED BY <1>3, <2>1, <2>2
<1>8. TypeOK'
  BY <1>2, <1>5, <1>7 DEF IInv, TypeOK, svars, Pieces, Blocks, RcopyStates
<1>9. SenderShape' /\ SenderSent' /\ SenderSeq'
  BY SenderKept DEF IInv
<1>10. Knowledge' /\ NetShape' /\ EndOfFile'
  BY <1>2, <1>5 DEF IInv, Knowledge, NetShape, EndOfFile, svars
<1>11. ReceiverShape'
  <2>1. ASSUME NEW seq \in WindowSeqs(rwin)
        PROVE  \/ RFrame(seq)'.state = "FRAME_EMPTY"
               \/ RFrame(seq)'.state = "FRAME_FULL" /\ RFrame(seq)'.pkt = seq
               \/ seq < rwin.rr
    <3>1. CASE seq \in Writable
      BY <1>4, <3>1
    <3>2. CASE seq \notin Writable
      BY <1>2, <1>5, <3>2 DEF IInv, ReceiverShape
    <3> QED BY <3>1, <3>2
  <2>2. WindowSeqs(rwin') = WindowSeqs(rwin)
    BY <1>5 DEF WindowSeqs
  <2> QED BY <1>2, <1>3, <1>5, <2>1, <2>2 DEF IInv, ReceiverShape
<1>12. ReceiverOutput'
  BY <1>2, <1>5, <1>7 DEF ReceiverOutput
<1> QED BY <1>8, <1>9, <1>10, <1>11, <1>12 DEF IInv

(* adjust_window of rcopy: its window starts at rr again.                  *)
LEMMA AdjustWindowStep ==
  ASSUME IInv, AdjustWindow, UNCHANGED svars, net' \subseteq net
  PROVE  IInv'
<1>1. /\ rwin \in WindowType(Blocks) /\ WellPlaced(rwin)
      /\ rwin.bottom \in Nat /\ rwin.top \in Nat /\ rwin.rr \in Nat /\ rwin.srej \in Nat
      /\ rwin.bottom >= 1 /\ rwin.srej =< rwin.rr
      /\ WindowSize \in Nat /\ WindowSize > 0
  BY ReceiverFields, Parameters
<1>2. /\ rstate = "S_ADJUST_WINDOW" /\ rstate' = "S_WAIT_ON_DATA"
      /\ rwin' = IF CanSlide(rwin) THEN Slide(rwin) ELSE rwin
      /\ UNCHANGED <<rbuf, rseq, out>>
  BY DEF AdjustWindow
<1>3. rwin.bottom = rwin.rr \/ rwin.bottom = rwin.rr - 1
  BY DEF IInv, ReceiverShape
<1>4. /\ rwin' \in WindowType(Blocks) /\ WellPlaced(rwin')
      /\ rwin'.bottom = rwin.rr /\ rwin'.rr = rwin.rr /\ rwin'.srej = rwin.srej
      /\ \A seq \in WindowSeqs(rwin') :
           IF seq =< rwin.top
           THEN RFrame(seq)' = RFrame(seq)
           ELSE RFrame(seq)'.state = "FRAME_EMPTY"
  <2>1. CASE rwin.bottom = rwin.rr
    <3>1. rwin' = rwin
      BY <1>1, <1>2, <2>1 DEF CanSlide
    <3>2. \A seq \in WindowSeqs(rwin) : seq =< rwin.top
      BY <1>1 DEF WindowSeqs
    <3> QED BY <1>1, <2>1, <3>1, <3>2 DEF RFrame
  <2>2. CASE rwin.bottom = rwin.rr - 1
    <3>1. CanSlide(rwin) /\ Acked(rwin) = rwin.rr /\ Acked(rwin) =< rwin.top + 1
      BY <1>1, <2>2 DEF CanSlide, Acked, WellPlaced
    <3>2. LET v == Slide(rwin)
          IN  /\ v \in WindowType(Blocks)
              /\ v.bottom = Acked(rwin) /\ WellPlaced(v)
              /\ v.rr = rwin.rr /\ v.srej = rwin.srej
              /\ \A seq \in WindowSeqs(v) :
                   IF seq =< rwin.top
                   THEN v.Frame[get_frame_num(seq)] = rwin.Frame[get_frame_num(seq)]
                   ELSE v.Frame[get_frame_num(seq)].state = "FRAME_EMPTY"
      BY <1>1, <3>1, SlideIs
    <3> QED BY <1>2, <3>1, <3>2 DEF RFrame
  <2> QED BY <1>3, <2>1, <2>2
<1>5. TypeOK'
  BY <1>2, <1>4 DEF IInv, TypeOK, svars, RcopyStates
<1>6. SenderShape' /\ SenderSent' /\ SenderSeq'
  BY SenderKept DEF IInv
<1>7. Knowledge' /\ NetShape' /\ EndOfFile'
  BY <1>2, <1>4 DEF IInv, Knowledge, NetShape, EndOfFile, svars
<1>8. ReceiverShape'
  <2>1. ASSUME NEW seq \in WindowSeqs(rwin')
        PROVE  \/ RFrame(seq)'.state = "FRAME_EMPTY"
               \/ RFrame(seq)'.state = "FRAME_FULL" /\ RFrame(seq)'.pkt = seq
    <3>1. seq \in Nat /\ seq >= rwin.rr /\ (seq =< rwin.top => seq \in WindowSeqs(rwin))
      <4>1. rwin'.top \in Nat
        BY <1>4, WindowFields
      <4> QED BY <1>1, <1>3, <1>4, <4>1 DEF WindowSeqs
    <3>2. CASE seq =< rwin.top
      <4>1. ~(seq < rwin.rr)
        BY <1>1, <3>1
      <4> QED BY <1>4, <3>1, <3>2, <4>1 DEF IInv, ReceiverShape
    <3>3. CASE ~(seq =< rwin.top)
      BY <1>4, <3>3
    <3> QED BY <3>2, <3>3
  <2> QED BY <1>1, <1>3, <1>4, <2>1 DEF ReceiverShape, WellPlaced
<1>9. ReceiverOutput'
  <2>1. Len(out) = rwin.rr - 1 /\ rwin'.bottom # rwin'.rr - 1
    BY <1>1, <1>2, <1>4 DEF IInv, ReceiverOutput
  <2> QED BY <1>2, <1>4, <2>1 DEF IInv, ReceiverOutput
<1> QED BY <1>5, <1>6, <1>7, <1>8, <1>9 DEF IInv

(* What rcopy sends: RR and SREJ carry rr, and nothing is written yet.     *)
LEMMA RcopyTransmitsStep ==
  ASSUME IInv, RcopySends, UNCHANGED svars, net' \subseteq net \cup {Reply}
  PROVE  IInv'
<1>1. /\ rwin \in WindowType(Blocks)
      /\ rwin.bottom \in Nat /\ rwin.top \in Nat /\ rwin.rr \in Nat /\ rwin.srej \in Nat
      /\ rseq \in {0, 1}
  BY ReceiverFields DEF IInv, TypeOK
<1>2. /\ rstate \in {"S_SEND_RR", "S_SEND_SREJ", "S_FILE_EOF"}
      /\ rstate' = CASE rstate = "S_SEND_RR"   -> "S_WRITE_DATA"
                     [] rstate = "S_SEND_SREJ" -> "S_WAIT_ON_DATA"
                     [] OTHER                  -> "S_FINISH"
      /\ UNCHANGED <<rbuf, rseq, out>>
  BY DEF RcopySends, SendRR, SendSREJ, SendEofAck
<1>3. /\ rwin' \in WindowType(Blocks)
      /\ rwin'.bottom = rwin.bottom /\ rwin'.top = rwin.top /\ rwin'.rr = rwin.rr
      /\ rwin'.Frame = rwin.Frame
      /\ rwin'.srej \in {rwin.srej, rwin.rr}
  <2>1. CASE SendSREJ
    <3>1. rwin' = [rwin EXCEPT !.srej = rwin.rr]
      BY <2>1 DEF SendSREJ
    <3> QED BY <1>1, <3>1 DEF WindowType
  <2>2. CASE SendRR \/ SendEofAck
    <3>1. rwin' = rwin
      BY <2>2 DEF SendRR, SendEofAck
    <3> QED BY <1>1, <3>1
  <2> QED BY <2>1, <2>2 DEF RcopySends
<1>4. \E flag \in {"RR", "SREJ", "FILE_EOF_ACK"}, seq \in Nat :
        /\ Reply = Packet(flag, seq, 0)
        /\ flag # "FILE_EOF_ACK" => seq = rwin.rr
  BY <1>1 DEF Reply
<1>5. Reply \in PacketType
  <2>1. 0 \in Blocks
    BY Parameters DEF Blocks
  <2> QED BY <1>4, <2>1, PacketIs
<1>6. TypeOK'
  BY <1>2, <1>3, <1>5 DEF IInv, TypeOK, svars, RcopyStates
<1>7. SenderShape' /\ SenderSent' /\ SenderSeq'
  BY SenderKept DEF IInv
<1>8. Knowledge' /\ EndOfFile'
  BY <1>2, <1>3 DEF IInv, Knowledge, EndOfFile, svars
<1>9. NetShape'
  <2>1. Reply.flag \in {"RR", "SREJ", "FILE_EOF_ACK"}
    BY <1>4 DEF Packet
  <2>2. Reply.flag \in {"RR", "SREJ"} => Reply.seq =< rwin.rr
    BY <1>1, <1>4 DEF Packet
  <2> QED BY <1>3, <2>1, <2>2 DEF IInv, NetShape, svars
<1>10. ReceiverShape'
  <2>1. rwin'.srej =< rwin'.rr
    BY <1>1, <1>3, ReceiverFields
  <2>2. WindowSeqs(rwin') = WindowSeqs(rwin)
    BY <1>3 DEF WindowSeqs
  <2>3. \A seq \in WindowSeqs(rwin) : RFrame(seq)' = RFrame(seq)
    BY <1>3 DEF RFrame
  <2>4. rwin.bottom = rwin.rr - 1 => rstate' = "S_WRITE_DATA"
    BY <1>1, <1>2 DEF IInv, ReceiverShape
  <2> QED BY <1>2, <1>3, <2>1, <2>2, <2>3, <2>4 DEF IInv, ReceiverShape
<1>11. ReceiverOutput'
  <2>1. rwin.bottom = rwin.rr - 1 => rstate = "S_SEND_RR"
    BY <1>1, <1>2 DEF IInv, ReceiverShape
  <2> QED BY <1>2, <1>3, <2>1 DEF IInv, ReceiverOutput, RFrame
<1> QED BY <1>6, <1>7, <1>8, <1>9, <1>10, <1>11 DEF IInv

-----------------------------------------------------------------------------
(* The invariant.                                                          *)

(* The window of libsrj.c as it is allocated is a window.                  *)
LEMMA AllocIs ==
  ASSUME NEW P, NEW pkt \in P, NEW num_wait \in Nat, NEW top_sent \in Nat
  PROVE  LET w == window_alloc(0, pkt, num_wait, top_sent)
         IN  /\ w \in WindowType(P)
             /\ w.bottom = 1 /\ w.top = WindowSize /\ w.rr = 1 /\ w.srej = 1
             /\ ~w.eof /\ w.top_sent = top_sent
             /\ \A i \in Slots : w.Frame[i] = [state |-> "FRAME_EMPTY", pkt |-> pkt]
<1> DEFINE w == window_alloc(0, pkt, num_wait, top_sent)
           F == [i \in Slots |-> [state |-> "FRAME_EMPTY", pkt |-> pkt]]
<1>1. F \in [Slots -> [state : FrameState, pkt : P]]
  BY DEF FrameState
<1>2. \A i \in Slots : F[i] = [state |-> "FRAME_EMPTY", pkt |-> pkt]
  OBVIOUS
<1>3. w = [bottom |-> 1, top |-> WindowSize, rr |-> 1, srej |-> 1, eof |-> FALSE,
           num_wait |-> num_wait, top_sent |-> top_sent, Frame |-> F]
  BY Parameters DEF window_alloc
<1> HIDE DEF w, F
<1>4. /\ w.bottom = 1 /\ w.top = WindowSize /\ w.rr = 1 /\ w.srej = 1
      /\ ~w.eof /\ w.top_sent = top_sent /\ w.Frame = F
  BY <1>3
<1>5. w \in WindowType(P)
  BY <1>1, <1>3, Parameters DEF WindowType
<1> QED BY <1>2, <1>4, <1>5 DEF w

(* A window of the server's as window_alloc returns it.                    *)
FreshWindow(w) ==
  /\ w \in WindowType(PacketType)
  /\ w.bottom = 1 /\ w.top = WindowSize /\ w.rr =< 1 /\ w.srej = 1 /\ ~w.eof
  /\ \A i \in Slots : w.Frame[i].state = "FRAME_EMPTY"

(* Nothing has been sent, received or written; the server may be gone.     *)
Fresh ==
  /\ sstate \in {"S_FILL_WINDOW", "S_FINISH"}
  /\ FreshWindow(swin) /\ fpos = 0 /\ sseq = 0 /\ eofwait = 0
  /\ ReceiverInit
  /\ net \subseteq HandshakePackets

LEMMA FreshIInv == Fresh => IInv
<1> SUFFICES ASSUME Fresh PROVE IInv
  OBVIOUS
<1>1. 0 \in Blocks
  BY Parameters DEF Blocks
<1>2. /\ swin \in WindowType(PacketType)
      /\ swin.bottom = 1 /\ swin.top = WindowSize /\ swin.rr =< 1 /\ swin.srej = 1
      /\ ~swin.eof /\ swin.top_sent \in Nat /\ swin.rr \in Nat
      /\ \A i \in Slots : swin.Frame[i].state = "FRAME_EMPTY"
  BY WindowFields DEF Fresh, FreshWindow
<1>3. /\ rwin \in WindowType(Blocks)
      /\ rwin.bottom = 1 /\ rwin.top = WindowSize /\ rwin.rr = 1 /\ rwin.srej = 1
      /\ \A i \in Slots : rwin.Frame[i].state = "FRAME_EMPTY"
  <2> DEFINE w == window_alloc(0, 0, 0, 0)
  <2>1. /\ w \in WindowType(Blocks)
        /\ w.bottom = 1 /\ w.top = WindowSize /\ w.srej = 1
        /\ \A i \in Slots : w.Frame[i] = [state |-> "FRAME_EMPTY", pkt |-> 0]
    BY <1>1, AllocIs
  <2>2. \A i \in Slots : w.Frame[i].state = "FRAME_EMPTY"
    BY <2>1
  <2>3. rwin = [w EXCEPT !.rr = 1]
    BY DEF Fresh, ReceiverInit
  <2> HIDE DEF w
  <2> QED BY <2>1, <2>2, <2>3 DEF WindowType
<1>4. /\ sstate \in {"S_FILL_WINDOW", "S_FINISH"} /\ fpos = 0 /\ sseq = 0 /\ eofwait = 0
      /\ rstate = "S_WAIT_ON_DATA" /\ rbuf = 0 /\ rseq = 0 /\ out = << >>
  BY DEF Fresh, ReceiverInit
<1>5. /\ net \subseteq PacketType
      /\ \A p \in net : p.flag \notin {"DATA", "RR", "SREJ", "FILE_EOF"}
  <2>1. ASSUME NEW p \in HandshakePackets
        PROVE  p \in PacketType /\ p.flag \notin {"DATA", "RR", "SREJ", "FILE_EOF"}
    BY Parameters DEF HandshakePackets, Packet, PacketType, Blocks
  <2> QED BY <2>1 DEF Fresh
<1>6. TypeOK
  BY <1>1, <1>2, <1>3, <1>4, <1>5, Parameters DEF TypeOK, ServerStates, RcopyStates
<1>7. SenderShape /\ SenderSent /\ SenderSeq
  <2>1. \A seq \in WindowSeqs(swin) : seq >= 1 /\ SFrame(seq).state = "FRAME_EMPTY"
    BY <1>2, SeqType DEF SFrame, WindowSeqs
  <2>2. \A seq \in WindowSeqs(swin) : ~(seq =< fpos)
    BY <1>2, <1>4, <2>1, Parameters DEF WindowSeqs
  <2>3. SenderShape
    BY <1>2, <1>4, <2>1, <2>2, Parameters DEF SenderShape
  <2> QED BY <1>2, <1>4, <2>1, <2>3 DEF SenderSent, SenderSeq
<1>8. Knowledge /\ NetShape /\ EndOfFile
  BY <1>2, <1>3, <1>4, <1>5 DEF Knowledge, NetShape, EndOfFile, EofStates
<1>9. ReceiverShape /\ ReceiverOutput
  <2>1. \A seq \in WindowSeqs(rwin) : RFrame(seq).state = "FRAME_EMPTY"
    BY <1>3, SeqType DEF RFrame
  <2> QED BY <1>3, <1>4, <2>1, Parameters DEF ReceiverShape, ReceiverOutput
<1> QED BY <1>6, <1>7, <1>8, <1>9 DEF IInv

(* A window of the server's as it is when file_transfer enters its loop.   *)
LEMMA AllocFresh ==
  ASSUME NEW num_wait \in Nat, NEW top_sent \in Nat, NEW rr \in {0, 1}
  PROVE  FreshWindow([window_alloc(0, Packet("DATA", 0, 0), num_wait, top_sent) EXCEPT !.rr = rr])
<1> DEFINE w == window_alloc(0, Packet("DATA", 0, 0), num_wait, top_sent)
<1>1. Packet("DATA", 0, 0) \in PacketType
  BY PacketIs, Parameters DEF Blocks
<1>2. /\ w \in WindowType(PacketType)
      /\ w.bottom = 1 /\ w.top = WindowSize /\ w.srej = 1
      /\ ~w.eof /\ \A i \in Slots : w.Frame[i] = [state |-> "FRAME_EMPTY", pkt |-> Packet("DATA", 0, 0)]
  BY <1>1, AllocIs
<1>3. \A i \in Slots : w.Frame[i].state = "FRAME_EMPTY"
  BY <1>2
<1> HIDE DEF w
<1>4. FreshWindow([w EXCEPT !.rr = rr])
  BY <1>2, <1>3 DEF FreshWindow, WindowType
<1> QED BY <1>4 DEF w

LEMMA InitIInv == Init => IInv
<1> SUFFICES ASSUME Init PROVE Fresh
  BY FreshIInv
<1>1. PICK num_wait \in MallocWait, top_sent \in MallocTop :
        swin = [window_alloc(0, Packet("DATA", 0, 0), num_wait, top_sent) EXCEPT !.rr = 0]
  BY DEF Init, SenderInit
<1>2. num_wait \in Nat /\ top_sent \in Nat
  BY SenderAssumption
<1>3. FreshWindow(swin)
  BY <1>1, <1>2, AllocFresh
<1> QED BY <1>3, LeftoversAssumption DEF Init, SenderInit, Fresh

-----------------------------------------------------------------------------
(* What each end does, told so that it can be said of a session too, where *)
(* the datagrams are in queues, are consumed and may be lost: net is what  *)
(* is still about.                                                         *)

(* The transfer begins, with a window just allocated.                      *)
Starts ==
  /\ sstate' = "S_FILL_WINDOW"
  /\ FreshWindow(swin)'
  /\ fpos = 0 /\ fpos' = 0 /\ sseq' = 0 /\ eofwait' = eofwait

(* The server goes, for a reason of its own.                               *)
Leaves == sstate' = "S_FINISH" /\ UNCHANGED <<swin, fpos, sseq, eofwait>>

ServerMoves ==
  \/ /\ net' \subseteq net
     /\ \/ ServerThinks \/ ServerTimesOut \/ IgnoreOnAck(Damaged) \/ Starts \/ Leaves
        \/ UNCHANGED svars
        \/ \E p : ServerHears(p) /\ (p.flag \in {"RR", "SREJ"} => p \in net)
  \/ ServerSends /\ net' \subseteq net \cup Outgoing

RcopyMoves ==
  \/ /\ net' \subseteq net
     /\ \/ RcopyThinks \/ NoData \/ RecvCorrupt
        \/ UNCHANGED rvars
        \/ \E p : RcopyHears(p) /\ (p.flag \in {"DATA", "FILE_EOF"} => p \in net)
  \/ RcopySends /\ net' \subseteq net \cup {Reply}

(* Packets are lost, and nothing else happens.                             *)
LEMMA LossStep ==
  ASSUME IInv, UNCHANGED <<svars, rvars>>, net' \subseteq net
  PROVE  IInv'
<1>1. TypeOK'
  BY DEF IInv, TypeOK, svars, rvars
<1>2. Knowledge' /\ NetShape' /\ EndOfFile'
  BY DEF IInv, Knowledge, NetShape, EndOfFile, svars, rvars
<1> QED BY <1>1, <1>2, SenderKept, ReceiverKept DEF IInv

(* Where nothing has been read nothing can have been received.             *)
LEMMA StartStep ==
  ASSUME IInv, Starts, UNCHANGED rvars, net' \subseteq net
  PROVE  IInv'
<1>1. /\ swin' \in WindowType(PacketType)
      /\ swin'.bottom = 1 /\ swin'.top = WindowSize /\ swin'.rr =< 1 /\ swin'.srej = 1
      /\ ~swin'.eof /\ swin'.top_sent \in Nat /\ swin'.rr \in Nat
      /\ \A i \in Slots : swin'.Frame[i].state = "FRAME_EMPTY"
  BY WindowFields DEF Starts, FreshWindow
<1>2. fpos = 0 /\ fpos' = 0 /\ sseq' = 0 /\ eofwait' = eofwait /\ sstate' = "S_FILL_WINDOW"
  BY DEF Starts
<1>3. rwin.rr = 1 /\ rwin' = rwin
  BY <1>2, ReceiverFields DEF rvars
<1>4. TypeOK'
  BY <1>1, <1>2, Parameters DEF IInv, TypeOK, rvars, Blocks, ServerStates
<1>5. SenderShape' /\ SenderSent' /\ SenderSeq'
  <2>1. \A seq \in WindowSeqs(swin') : seq >= 1 /\ SFrame(seq)'.state = "FRAME_EMPTY"
    BY <1>1, SeqType DEF SFrame, WindowSeqs
  <2>2. \A seq \in WindowSeqs(swin') : ~(seq =< fpos')
    BY <1>1, <1>2, <2>1, Parameters DEF WindowSeqs
  <2>3. SenderShape'
    BY <1>1, <1>2, <2>1, <2>2, Parameters DEF SenderShape
  <2> QED BY <1>1, <1>2, <2>1, <2>3 DEF SenderSent, SenderSeq
<1>6. Knowledge' /\ EndOfFile'
  BY <1>1, <1>2, <1>3 DEF IInv, Knowledge, EndOfFile, EofStates, rvars
<1>7. NetShape'
  <2>1. ASSUME NEW p \in net PROVE p.flag # "DATA"
    <3>1. p.seq \in Nat
      BY DEF IInv, TypeOK, PacketType
    <3> QED BY <1>2, <3>1 DEF IInv, NetShape
  <2> QED BY <1>3, <2>1 DEF IInv, NetShape
<1> QED BY <1>4, <1>5, <1>6, <1>7, ReceiverKept DEF IInv

LEMMA LeaveStep ==
  ASSUME IInv, Leaves, UNCHANGED rvars, net' \subseteq net
  PROVE  IInv'
<1>1. /\ swin \in WindowType(PacketType) /\ swin.rr =< rwin.rr /\ swin.srej =< rwin.rr
      /\ sseq \in {0, 1} /\ eofwait \in 0 .. EOF_TRIES
  BY DEF IInv, TypeOK, Knowledge
<1>2. SenderSeq'
  BY DEF Leaves, SenderSeq, TransferStates
<1> QED BY <1>1, <1>2, FramesKept DEF Leaves, ServerStates, EofStates

LEMMA ServerMovesStep ==
  ASSUME IInv, UNCHANGED rvars, ServerMoves
  PROVE  IInv'
<1>1. ASSUME net' \subseteq net, ServerThinks PROVE IInv'
  BY <1>1, FillWindowStep, RetryWindowStep, AdjustSlideStep, QuietServerStep DEF ServerThinks
<1>2. ASSUME net' \subseteq net, ServerTimesOut \/ IgnoreOnAck(Damaged) PROVE IInv'
  BY <1>2, QuietServerStep DEF ServerTimesOut
<1>3. ASSUME net' \subseteq net, NEW p, ServerHears(p), p.flag \in {"RR", "SREJ"} => p \in net
      PROVE  IInv'
  BY <1>3, HearsResponseStep, QuietServerStep DEF ServerHears
<1>4. ASSUME net' \subseteq net, Starts \/ Leaves \/ UNCHANGED svars PROVE IInv'
  BY <1>4, StartStep, LeaveStep, LossStep
<1>5. ASSUME ServerSends, net' \subseteq net \cup Outgoing PROVE IInv'
  BY <1>5, SendWindowStep, SendFileEofStep DEF ServerSends
<1> QED BY <1>1, <1>2, <1>3, <1>4, <1>5 DEF ServerMoves

LEMMA RcopyMovesStep ==
  ASSUME IInv, UNCHANGED svars, RcopyMoves
  PROVE  IInv'
<1>1. ASSUME net' \subseteq net, RcopyThinks PROVE IInv'
  BY <1>1, WriteDataStep, AdjustWindowStep, QuietRcopyStep DEF RcopyThinks
<1>2. ASSUME net' \subseteq net, NoData \/ RecvCorrupt PROVE IInv'
  BY <1>2, QuietRcopyStep
<1>3. ASSUME net' \subseteq net, NEW p, RcopyHears(p), p.flag \in {"DATA", "FILE_EOF"} => p \in net
      PROVE  IInv'
  BY <1>3, RecvFreshStep, QuietRcopyStep DEF RcopyHears, RecvNext, RecvAhead, FreshData
<1>4. ASSUME net' \subseteq net, UNCHANGED rvars PROVE IInv'
  BY <1>4, LossStep
<1>5. ASSUME RcopySends, net' \subseteq net \cup {Reply} PROVE IInv'
  BY <1>5, RcopyTransmitsStep
<1> QED BY <1>1, <1>2, <1>3, <1>4, <1>5 DEF RcopyMoves

(* A step of the transfer is a move of one of them.                        *)
LEMMA NextMoves ==
  ASSUME [Next]_vars
  PROVE  (ServerMoves /\ UNCHANGED rvars) \/ (RcopyMoves /\ UNCHANGED svars)
<1>1. CASE ServerComputes \/ ServerTransmits \/ ServerReceives \/ ServerIsDisappointed
  BY <1>1 DEF ServerComputes, ServerTransmits, ServerReceives, ServerIsDisappointed, ServerMoves
<1>2. CASE RcopyComputes \/ RcopyTransmits \/ RcopyReceives \/ RcopyIsDisappointed
  BY <1>2 DEF RcopyComputes, RcopyTransmits, RcopyReceives, RcopyIsDisappointed, RcopyMoves
<1>3. CASE UNCHANGED vars
  BY <1>3 DEF vars, svars, rvars, ServerMoves
<1> QED BY <1>1, <1>2, <1>3 DEF Next, Terminated

LEMMA NextIInv == IInv /\ [Next]_vars => IInv'
BY NextMoves, ServerMovesStep, RcopyMovesStep

(* The two windows, the network and the file stay in agreement.            *)
THEOREM Invariance == Spec => []IInv
<1> QED BY InitIInv, NextIInv, PTL DEF Spec

-----------------------------------------------------------------------------
(* The properties that TLC checks on small instances, for all of them.     *)

(* Every variable keeps its type.                                          *)
THEOREM TypeCorrect == Spec => []TypeOK
<1>1. IInv => TypeOK
  BY DEF IInv
<1> QED BY <1>1, Invariance, PTL

(* However packets are lost, repeated or reordered, the local file is a    *)
(* prefix of the remote one.                                               *)
THEOREM PrefixAlways == Spec => []OutputIsPrefix
<1>1. IInv => OutputIsPrefix
  <2> SUFFICES ASSUME IInv PROVE Len(out) =< NumBlocks
    BY DEF IInv, ReceiverOutput, OutputIsPrefix
  <2>1. Len(out) = rwin.rr - 1 \/ Len(out) = rwin.bottom - 1
    BY DEF IInv, ReceiverOutput
  <2> QED BY <2>1, ReceiverFields, Parameters
<1> QED BY <1>1, Invariance, PTL

(* When rcopy has taken the FILE_EOF, the local file is the remote one.    *)
LEMMA WholeFile ==
  ASSUME IInv, rseq # 0
  PROVE  Len(out) = NumBlocks /\ out = [i \in 1 .. NumBlocks |-> [data |-> i, len |-> i]]
<1>1. rwin.rr = NumBlocks + 1 /\ rstate \in {"S_FILE_EOF", "S_FINISH"}
  BY DEF IInv, EndOfFile
<1>2. Len(out) = rwin.bottom - 1 /\ rwin.bottom = rwin.rr
  BY <1>1 DEF IInv, ReceiverShape, ReceiverOutput
<1>3. Len(out) = NumBlocks
  BY <1>1, <1>2, Parameters
<1>4. out \in Seq(Pieces) /\ \A i \in 1 .. Len(out) : out[i] = [data |-> i, len |-> i]
  BY DEF IInv, TypeOK, ReceiverOutput, Pieces
<1>5. out = [i \in 1 .. Len(out) |-> out[i]]
  BY <1>4
<1>6. [i \in 1 .. Len(out) |-> out[i]] = [i \in 1 .. Len(out) |-> [data |-> i, len |-> i]]
  BY <1>4
<1> QED BY <1>3, <1>5, <1>6

(* A FILE_EOF that rcopy takes finds the whole file there, and one that    *)
(* the server sends finds it all with rcopy: NetShape has every FILE_EOF   *)
(* ever sent after the answer to the last block.                           *)
THEOREM EofAlwaysComplete == Spec => []EofMeansComplete
<1>1. IInv => EofMeansComplete
  <2> SUFFICES ASSUME IInv PROVE EofMeansComplete
    OBVIOUS
  <2>1. rseq # 0 => Len(out) = NumBlocks
    BY WholeFile
  <2>2. ASSUME NEW p \in net, p.flag = "FILE_EOF"
        PROVE  NumBlocks =< Len(out) + (IF rstate \in {"S_SEND_RR", "S_WRITE_DATA"} THEN 1 ELSE 0)
    <3>1. rwin.rr = NumBlocks + 1 /\ rwin.bottom \in {rwin.rr, rwin.rr - 1}
      BY <2>2 DEF IInv, NetShape, ReceiverShape
    <3>2. CASE rstate \in {"S_SEND_RR", "S_WRITE_DATA"}
      <4>1. Len(out) = rwin.bottom - 1
        BY <3>2 DEF IInv, ReceiverOutput
      <4> QED BY <3>1, <3>2, <4>1, ReceiverFields, Parameters
    <3>3. CASE rstate \notin {"S_SEND_RR", "S_WRITE_DATA"}
      <4>1. Len(out) = rwin.rr - 1
        BY <3>3 DEF IInv, ReceiverShape, ReceiverOutput
      <4> QED BY <3>1, <3>3, <4>1, Parameters
    <3> QED BY <3>2, <3>3
  <2> QED BY <2>1, <2>2 DEF EofMeansComplete
<1> QED BY <1>1, Invariance, PTL

(* The server drops only what rcopy has taken, and at most the block being *)
(* written at that moment is not in the file yet.                          *)
THEOREM DiscardedAlwaysTaken == Spec => []DiscardedIsTaken
<1>1. IInv => DiscardedIsTaken
  <2> SUFFICES ASSUME IInv PROVE DiscardedIsTaken
    OBVIOUS
  <2>1. swin.bottom \in Nat /\ swin.bottom =< rwin.rr
    BY WindowFields DEF IInv, TypeOK, Knowledge
  <2>2. CASE rstate \in {"S_SEND_RR", "S_WRITE_DATA"}
    <3>1. Len(out) = rwin.bottom - 1 /\ rwin.bottom \in {rwin.rr, rwin.rr - 1}
      BY <2>2 DEF IInv, ReceiverShape, ReceiverOutput
    <3>2. rwin.bottom \in Nat /\ rwin.rr \in Nat
      BY ReceiverFields
    <3>3. swin.bottom - 1 =< Len(out) + 1
      BY <2>1, <3>1, <3>2
    <3> QED BY <2>1, <2>2, <3>3 DEF DiscardedIsTaken
  <2>3. CASE rstate \notin {"S_SEND_RR", "S_WRITE_DATA"}
    <3>1. Len(out) = rwin.rr - 1
      BY <2>3 DEF IInv, ReceiverShape, ReceiverOutput
    <3> QED BY <2>1, <2>3, <3>1, ReceiverFields DEF DiscardedIsTaken
  <2> QED BY <2>2, <2>3
<1> QED BY <1>1, Invariance, PTL

(* A waiting rcopy has room for whatever data may arrive.                  *)
THEOREM DataAlwaysFits == Spec => []DataFitsWindow
<1>1. IInv => DataFitsWindow
  <2> SUFFICES ASSUME IInv, rstate = "S_WAIT_ON_DATA", NEW p \in net, p.flag = "DATA"
               PROVE  p.seq =< rwin.top
    BY DEF DataFitsWindow
  <2>1. p.seq \in Nat /\ p.seq =< fpos
    BY DEF IInv, TypeOK, PacketType, NetShape
  <2>2. /\ fpos \in Nat /\ swin.bottom \in Nat
        /\ fpos =< swin.bottom + WindowSize - 1 /\ swin.bottom =< rwin.rr
    BY WindowFields, Parameters DEF IInv, TypeOK, SenderShape, Knowledge, Blocks
  <2>3. rwin.rr \in Nat /\ rwin.top = rwin.rr + WindowSize - 1
    BY ReceiverFields DEF IInv, ReceiverShape
  <2> QED BY <2>1, <2>2, <2>3, Parameters
<1> QED BY <1>1, Invariance, PTL

(* No number goes beyond the block after the last and a window's width.    *)
THEOREM NumbersAlwaysFit == Spec => []NumbersFit
<1>1. IInv => NumbersFit
  <2> SUFFICES ASSUME IInv PROVE NumbersFit
    OBVIOUS
  <2>1. /\ fpos \in Nat /\ fpos =< NumBlocks
        /\ swin.top \in Nat /\ swin.bottom \in Nat /\ swin.rr \in Nat /\ swin.srej \in Nat
        /\ rwin.top \in Nat /\ rwin.bottom \in Nat /\ rwin.rr \in Nat /\ rwin.srej \in Nat
    BY WindowFields, ReceiverFields, Parameters DEF IInv, TypeOK, Blocks
  <2>2. /\ swin.rr =< rwin.rr /\ swin.srej =< rwin.rr /\ swin.bottom =< rwin.rr
        /\ rwin.rr =< fpos + 1 /\ swin.top = swin.bottom + WindowSize - 1
    BY DEF IInv, Knowledge, SenderShape
  <2>3. /\ rwin.srej =< rwin.rr /\ rwin.bottom \in {rwin.rr, rwin.rr - 1}
        /\ rwin.top = rwin.bottom + WindowSize - 1
    BY DEF IInv, ReceiverShape
  <2>4. \A p \in net : p.flag \in {"DATA", "RR", "SREJ"} => p.seq =< LargestSeq
    <3> TAKE p \in net
    <3>1. p.seq \in Nat
      BY DEF IInv, TypeOK, PacketType
    <3>2. p.flag \in {"DATA", "RR", "SREJ"} => p.seq =< fpos \/ p.seq =< rwin.rr
      BY DEF IInv, NetShape
    <3> QED BY <2>1, <2>2, <3>1, <3>2, Parameters DEF LargestSeq
  <2> QED BY <2>1, <2>2, <2>3, <2>4, Parameters DEF NumbersFit, LargestSeq
<1> QED BY <1>1, Invariance, PTL

(* What rcopy claims of the local file.                                    *)
Verdict ==
  IF rseq # 0 THEN "complete"
  ELSE IF rstate \in {"S_TIMEOUT_ON_DATA", "S_FINISH"} THEN "gaveup"
  ELSE "copying"

(* The file and what is claimed of it stay as they are or take one of the  *)
(* steps of FileCopy.                                                      *)
Copied ==
  \/ out' = out /\ Verdict' = Verdict
  \/ /\ Verdict = "copying" /\ Verdict' = "copying" /\ Len(out) < NumBlocks
     /\ out' = Append(out, [data |-> Len(out) + 1, len |-> Len(out) + 1])
  \/ Verdict = "copying" /\ Verdict' = "complete" /\ Len(out) = NumBlocks /\ out' = out
  \/ Verdict = "copying" /\ Verdict' = "gaveup" /\ out' = out

LEMMA RcopyMovesCopy ==
  ASSUME IInv, RcopyMoves
  PROVE  Copied
<1>1. CASE UNCHANGED rvars
  BY <1>1 DEF rvars, Copied, Verdict
<1>2. CASE RcopySends
  <2>1. out' = out /\ rseq' = rseq
    BY <1>2 DEF RcopySends, SendRR, SendSREJ, SendEofAck
  <2>2. rseq = 0 => /\ rstate \notin {"S_TIMEOUT_ON_DATA", "S_FINISH"}
                    /\ rstate' \notin {"S_TIMEOUT_ON_DATA", "S_FINISH"}
    BY <1>2 DEF RcopySends, SendRR, SendSREJ, SendEofAck, IInv, EndOfFile
  <2> QED BY <2>1, <2>2 DEF Copied, Verdict
<1>3. ASSUME NEW p, RcopyHears(p), p.flag \in {"DATA", "FILE_EOF"} => p \in net
      PROVE  Copied
  <2>1. rstate = "S_WAIT_ON_DATA" /\ out' = out /\ rseq = 0 /\ Verdict = "copying"
    BY <1>3 DEF RcopyHears, RecvEof, RecvOld, RecvNext, RecvAhead, IgnoreOnData, HearsData,
                IInv, EndOfFile, Verdict
  <2>2. CASE RecvEof(p)
    <3>1. rseq' = 1 /\ rwin.rr = NumBlocks + 1
      BY <1>3, <2>2 DEF RecvEof, IInv, NetShape
    <3>2. Len(out) = NumBlocks
      BY <2>1, <3>1, ReceiverFields, Parameters DEF IInv, ReceiverShape, ReceiverOutput
    <3>3. Verdict' = "complete"
      BY <3>1 DEF Verdict
    <3> QED BY <2>1, <3>2, <3>3 DEF Copied
  <2>3. CASE ~RecvEof(p)
    <3>1. rseq' = rseq /\ rstate' \notin {"S_TIMEOUT_ON_DATA", "S_FINISH"}
      BY <1>3, <2>3 DEF RcopyHears, RecvOld, RecvNext, RecvAhead, IgnoreOnData, HearsData
    <3> QED BY <2>1, <3>1 DEF Copied, Verdict
  <2> QED BY <2>2, <2>3
<1>4. CASE NoData \/ RecvCorrupt
  <2>1. rstate = "S_WAIT_ON_DATA" /\ out' = out /\ rseq = 0 /\ rseq' = 0
    BY <1>4 DEF NoData, RecvCorrupt, IInv, EndOfFile
  <2>2. rstate' \in {"S_WAIT_ON_DATA", "S_TIMEOUT_ON_DATA"}
    BY <1>4 DEF NoData, RecvCorrupt
  <2> QED BY <2>1, <2>2 DEF Copied, Verdict
<1>5. CASE WriteData
  <2>1. Verdict = "copying" /\ Verdict' = "copying"
    BY <1>5 DEF WriteData, IInv, EndOfFile, Verdict
  <2>2. CASE rwin.bottom = rwin.rr
    BY <1>5, <2>1, <2>2, WriteDataAppends DEF Copied
  <2>3. CASE rwin.bottom # rwin.rr
    <3>1. Len(out) = rwin.bottom - 1 /\ rwin.bottom = rwin.rr - 1
      BY <1>5, <2>3 DEF WriteData, IInv, ReceiverShape, ReceiverOutput
    <3>2. rwin.bottom = Len(out) + 1 /\ Len(out) < NumBlocks
      BY <3>1, ReceiverFields, Parameters
    <3>3. out' = Append(out, [data |-> Len(out) + 1, len |-> Len(out) + 1])
      BY <1>5, <2>3, <3>2, WriteDataAppends
    <3> QED BY <2>1, <3>2, <3>3 DEF Copied
  <2> QED BY <2>2, <2>3
<1>6. CASE AdjustWindow \/ TimeoutOnData
  BY <1>6 DEF AdjustWindow, TimeoutOnData, IInv, EndOfFile, Copied, Verdict
<1> QED BY <1>1, <1>2, <1>3, <1>4, <1>5, <1>6 DEF RcopyMoves, RcopyThinks

(* The file and what is claimed of it change as FileCopy lets them.        *)
THEOREM Refinement == Spec => ImplementsFileCopy
<1> DEFINE status == IF rseq # 0 THEN "complete"
                     ELSE IF rstate \in {"S_TIMEOUT_ON_DATA", "S_FINISH"} THEN "gaveup"
                     ELSE "copying"
<1>1. Init => Copy!Init
  BY DEF Init, ReceiverInit, Copy!Init
<1>2. IInv /\ [Next]_vars => [Copy!Next]_<<out, status>>
  <2> SUFFICES ASSUME IInv, [Next]_vars PROVE [Copy!Next]_<<out, status>>
    OBVIOUS
  <2>1. Copied
    BY NextMoves, RcopyMovesCopy DEF Copied, Verdict, rvars
  <2>2. Verdict = status /\ Verdict' = status'
    BY DEF Verdict
  <2> HIDE DEF status
  <2> QED BY <2>1, <2>2
         DEF Copied, status, Copy!Next, Copy!CopyBlock, Copy!Complete, Copy!GiveUp, Copy!Block
<1> QED BY <1>1, <1>2, Invariance, PTL DEF ImplementsFileCopy, Copy!Spec, Spec

(* No answer is ever taken back, whatever arrives late.                    *)
THEOREM NothingTakenBack == Spec => NeverTakenBack
<1> DEFINE Grows == /\ swin'.bottom >= swin.bottom
                    /\ Acked(swin') >= Acked(swin)
                    /\ rwin'.rr >= rwin.rr
<1>1. IInv /\ [Next]_vars => [Grows]_vars
  <2> SUFFICES ASSUME IInv, Next PROVE Grows
    BY DEF vars
  <2>1. /\ swin \in WindowType(PacketType) /\ WellPlaced(swin)
        /\ swin.bottom \in Nat /\ swin.rr \in Nat /\ swin.srej \in Nat /\ Acked(swin) \in Nat
        /\ rwin \in WindowType(Blocks) /\ rwin.rr \in Nat
    BY ReceiverFields, WindowFields DEF IInv, TypeOK, SenderShape, WellPlaced, Acked
  <2>2. CASE swin' = swin /\ rwin' = rwin
    BY <2>1, <2>2
  <2>3. ASSUME swin'.bottom = swin.bottom, swin'.rr \in Nat, swin'.srej \in Nat,
               swin'.rr >= swin.rr, swin'.srej >= swin.srej, rwin' = rwin
        PROVE  Grows
    BY <2>1, <2>3 DEF Acked
  <2>4. CASE ServerComputes
    <3>1. rwin' = rwin
      BY <2>4 DEF ServerComputes, rvars
    <3>2. CASE AdjustSlide
      <4>1. Acked(swin) =< swin.top + 1 /\ CanSlide(swin)
        BY <2>1, <3>2, WindowFields, ReceiverFields
           DEF AdjustSlide, Acked, IInv, SenderShape, Knowledge
      <4>2. /\ swin'.bottom > swin.bottom /\ swin'.bottom = Acked(swin)
            /\ swin'.rr = swin.rr /\ swin'.srej = swin.srej
        BY <2>1, <3>2, <4>1, SlideIs DEF AdjustSlide
      <4> QED BY <2>1, <3>1, <4>2 DEF Acked
    <3>3. CASE RetryWindow
      <4> DEFINE v == SetFrames(swin, SeqsIn(swin, "FRAME_SENT"), "FRAME_FULL")
      <4>1. v.bottom = swin.bottom /\ v.rr = swin.rr /\ v.srej = swin.srej
        BY <2>1, SetFramesKeeps
      <4>2. swin' = [v EXCEPT !.num_wait = v.num_wait + 1]
        BY <3>3 DEF RetryWindow
      <4>3. DOMAIN v = DOMAIN swin
        BY DEF SetFrames
      <4> HIDE DEF v
      <4>4. swin'.bottom = swin.bottom /\ swin'.rr = swin.rr /\ swin'.srej = swin.srej
        BY <2>1, <4>1, <4>2, <4>3 DEF WindowType
      <4> QED BY <2>1, <2>3, <3>1, <4>4
    <3>4. CASE FillWindow
      <4>1. swin'.bottom = swin.bottom /\ swin'.rr = swin.rr /\ swin'.srej = swin.srej
        BY <2>1, <3>4 DEF FillWindow, WindowType
      <4> QED BY <2>1, <2>3, <3>1, <4>1
    <3> QED
      BY <2>2, <2>4, <3>1, <3>2, <3>3, <3>4
         DEF ServerComputes, ServerThinks, AbandonWindow, AdjustDone, AdjustStay, CreateFileEof,
             TimeoutOnAck
  <2>5. CASE ServerTransmits
    <3>1. rwin' = rwin
      BY <2>5 DEF ServerTransmits, rvars
    <3>2. CASE SendWindow
      <4> DEFINE v == SetFrames(swin, Fulls, "FRAME_SENT")
      <4>1. v.bottom = swin.bottom /\ v.rr = swin.rr /\ v.srej = swin.srej
        BY <2>1, SetFramesKeeps
      <4>2. \E top_sent : swin' = [v EXCEPT !.top_sent = top_sent]
        BY <3>2 DEF SendWindow
      <4>3. DOMAIN v = DOMAIN swin
        BY DEF SetFrames
      <4> HIDE DEF v
      <4>4. swin'.bottom = swin.bottom /\ swin'.rr = swin.rr /\ swin'.srej = swin.srej
        BY <2>1, <4>1, <4>2, <4>3 DEF WindowType
      <4> QED BY <2>1, <2>3, <3>1, <4>4
    <3> QED
      BY <2>2, <2>5, <3>1, <3>2 DEF ServerTransmits, ServerSends, SendFileEof
  <2>6. CASE ServerReceives
    <3>1. rwin' = rwin
      BY <2>6 DEF ServerReceives, rvars
    <3>2. PICK p \in net : ServerHears(p)
      BY <2>6 DEF ServerReceives
    <3>3. p.seq \in Nat
      BY DEF IInv, TypeOK, PacketType
    <3>4. CASE RecvRR(p) \/ RecvSREJ(p) \/ RecvOther(p)
      <4>1. CASE RecvRR(p)
        <5>1. /\ swin'.bottom = swin.bottom /\ swin'.srej = swin.srej
              /\ swin'.rr = IF p.seq > swin.rr THEN p.seq ELSE swin.rr
          BY <2>1, <4>1 DEF RecvRR, WindowType
        <5> QED BY <2>1, <2>3, <3>1, <3>3, <5>1
      <4>2. CASE RecvSREJ(p)
        <5>1. /\ swin'.bottom = swin.bottom /\ swin'.rr = swin.rr
              /\ swin'.srej = IF p.seq > swin.srej THEN p.seq ELSE swin.srej
          BY <2>1, <4>2 DEF RecvSREJ, WindowType
        <5> QED BY <2>1, <2>3, <3>1, <3>3, <5>1
      <4>3. CASE RecvOther(p)
        <5>1. swin'.bottom = swin.bottom /\ swin'.rr = swin.rr /\ swin'.srej = swin.srej
          BY <2>1, <4>3 DEF RecvOther, WindowType
        <5> QED BY <2>1, <2>3, <3>1, <5>1
      <4> QED BY <3>4, <4>1, <4>2, <4>3
    <3> QED
      BY <2>2, <3>1, <3>2, <3>4 DEF ServerHears, RecvEofAck, IgnoreOnAck, svars
  <2>7. CASE RcopyReceives
    <3>1. swin' = swin
      BY <2>7 DEF RcopyReceives, svars
    <3>2. PICK p \in net : RcopyHears(p)
      BY <2>7 DEF RcopyReceives
    <3>3. CASE RecvNext(p) \/ RecvAhead(p)
      <4> DEFINE v == FillFrame(rwin, p)
      <4>1. v \in WindowType(Blocks) /\ v.rr = rwin.rr
        BY <3>3, FillFrameIs DEF RecvNext, RecvAhead, HearsData
      <4>2. rwin' = v \/ rwin' = [v EXCEPT !.rr = v.rr + 1]
        BY <3>3 DEF RecvNext, RecvAhead
      <4> HIDE DEF v
      <4>3. rwin'.rr = rwin.rr \/ rwin'.rr = rwin.rr + 1
        BY <4>1, <4>2 DEF WindowType
      <4> QED BY <2>1, <3>1, <4>3
    <3> QED
      BY <2>2, <3>1, <3>2, <3>3 DEF RcopyHears, RecvEof, RecvOld, IgnoreOnData
  <2>8. CASE RcopyComputes
    <3>1. swin' = swin
      BY <2>8 DEF RcopyComputes, svars
    <3>2. CASE WriteData
      <4>1. SetFrames(rwin, Writable, "FRAME_WRITTEN").rr = rwin.rr
        BY <2>1, SetFramesKeeps
      <4> QED BY <2>1, <3>1, <3>2, <4>1 DEF WriteData
    <3>3. CASE AdjustWindow
      <4>1. rwin'.rr = rwin.rr
        BY <2>1, <3>3 DEF AdjustWindow, Slide, SetFrames, WindowType
      <4> QED BY <2>1, <3>1, <4>1
    <3> QED
      BY <2>2, <2>8, <3>1, <3>2, <3>3 DEF RcopyComputes, RcopyThinks, TimeoutOnData
  <2>9. CASE RcopyTransmits
    <3>1. swin' = swin /\ rwin'.rr = rwin.rr
      BY <2>1, <2>9 DEF RcopyTransmits, RcopySends, SendRR, SendSREJ, SendEofAck, svars, WindowType
    <3> QED BY <2>1, <3>1
  <2> QED
    BY <2>2, <2>4, <2>5, <2>6, <2>7, <2>8, <2>9
       DEF Next, ServerIsDisappointed, ServerTimesOut, NoResponse, NoAck, IgnoreOnAck,
           RcopyIsDisappointed, NoData, RecvCorrupt, Terminated, vars, svars, rvars
<1> QED BY <1>1, Invariance, PTL DEF NeverTakenBack, Spec
=============================================================================
