------------------------- MODULE SessionTriesProofs -------------------------
(***************************************************************************)
(* Proofs that rcopy never gives up asking for nothing: as long as no      *)
(* datagram is held back, no process is killed and the server can open the *)
(* file, every FILE_NAME that rcopy counts in vain has cost a datagram.    *)
(***************************************************************************)
EXTENDS SessionCopyProofs

Trying == TriesCounted /\ PeerStays /\ JustAnswered

(* What is known of a session in which rcopy is still asking.              *)
Asks ==
  /\ SessionTypeOK /\ OneRequest /\ rstate \in NameStates
  /\ faults < 10 /\ serving /\ Trying
  /\ sseq1 = 0 /\ sseq2 = 0 /\ rseq = 0
  /\ \A child \in Children : SState(child) # "S_SEND_NAME_ERR_ACK"

LEMMA TypesAre ==
  ASSUME SessionTypeOK
  PROVE  /\ queue \in Queues /\ waited \in [Processes -> Nat] /\ namewait \in Nat /\ faults \in Nat
         /\ peer \in Processes /\ "rcopy" \in Processes /\ "dispatcher" \in Processes
         /\ Children \subseteq Processes /\ "rcopy" \notin Children /\ "dispatcher" \notin Children
         /\ "rcopy" # "dispatcher" /\ ClientWait \subseteq Nat
BY TypeIs, ProcessesAre, Parameters DEF ClientTypeOK, EnvironmentTypeOK

LEMMA AsksIs ==
  ASSUME SessionIInv, OneFile, delays = 0, kills = 0, fopens, Naming, rstate \in NameStates,
         faults < 10
  PROVE  Asks
<1>1. SessionTypeOK /\ OneRequest /\ serving /\ Trying
      /\ \A child \in Children : SState(child) # "S_SEND_NAME_ERR_ACK"
  BY DEF SessionIInv, OneConversation, Conversation, Naming, Trying, C1!MAX_RECV_WAIT_TIME_S
<1>2. sseq1 = 0 /\ sseq2 = 0 /\ rseq = 0
  BY DEF OneFile, Transferral, SettingUp, NameStates, ClientUnstarted, NothingBegun, Unstarted
<1> QED BY <1>1, <1>2 DEF Asks

(* Who has the request or the answer has it alone.                         *)
LEMMA AloneIs ==
  ASSUME Asks, NEW me \in Processes, Stirs(me)
  PROVE  /\ rstate = "S_WAIT_ON_ACK" /\ waited["rcopy"] = 0
         /\ \A you \in Processes : you # me => ~Stirs(you) /\ queue[you] = <<>>
         /\ Asking(me) => queue[me] = <<>>
         /\ Answerable => \/ me = "dispatcher" /\ Coming(me, "FILE_NAME")
                          \/ me \in Children /\ (Coming(me, "FILE_NAME") \/ Asking(me))
                          \/ me = "rcopy" /\ Waiting(me) /\ NameAcked(Arrived(me))
<1>1. rstate = "S_WAIT_ON_ACK" /\ waited["rcopy"] = 0
      /\ \A you \in Processes : you # me => ~Stirs(you)
  BY DEF Asks, OneRequest
<1>2. \A you \in Processes : ~Waiting(you) => queue[you] = <<>>
  BY DEF Waiting
<1>3. Asking(me) => ~Waiting(me)
  BY DEF Asks, OneRequest
<1> QED BY <1>1, <1>2, <1>3, TypesAre DEF Asks, Stirs, Answerable, Coming

LEMMA QuietIs ==
  ASSUME Asks, \A me \in Processes : ~Stirs(me)
  PROVE  ~Answerable /\ \A me \in Processes : queue[me] = <<>>
BY TypesAre DEF Asks, Stirs, Answerable, Coming, Waiting

(* The count stands as long as no try fails, and a loss pays for one.      *)
LEMMA CountKept ==
  ASSUME Asks, faults' \in Nat, namewait' = namewait, rstate' = rstate,
         \/ faults' >= faults /\ (WaitsInVain' => WaitsInVain)
         \/ faults' >= faults + 1
  PROVE  TriesCounted'
<1>1. namewait \in Nat /\ faults \in Nat /\ ClientWait \subseteq Nat
  BY TypesAre DEF Asks
<1>2. PICK num_wait \in ClientWait :
        /\ num_wait =< namewait
        /\ faults >= namewait - num_wait
                       + (IF WaitsInVain \/ rstate = "S_TIMEOUT_ON_ACK" THEN 1 ELSE 0)
  BY DEF Asks, Trying, TriesCounted
<1>3. num_wait \in Nat
  BY <1>1
<1>4. faults' >= namewait - num_wait
                   + (IF WaitsInVain' \/ rstate' = "S_TIMEOUT_ON_ACK" THEN 1 ELSE 0)
  <2>1. CASE faults' >= faults + 1
    BY <1>1, <1>2, <1>3, <2>1
  <2>2. CASE faults' >= faults /\ (WaitsInVain' => WaitsInVain)
    <3>1. CASE WaitsInVain \/ rstate = "S_TIMEOUT_ON_ACK"
      BY <1>1, <1>2, <1>3, <2>2, <3>1
    <3>2. CASE ~(WaitsInVain \/ rstate = "S_TIMEOUT_ON_ACK")
      <4>1. ~(WaitsInVain' \/ rstate' = "S_TIMEOUT_ON_ACK")
        BY <2>2, <3>2
      <4> QED BY <1>1, <1>2, <1>3, <2>2, <3>2, <4>1
    <3> QED BY <3>1, <3>2
  <2> QED BY <2>1, <2>2
<1> QED BY <1>1, <1>2, <1>4 DEF TriesCounted

LEMMA PeerStaysNext ==
  ASSUME \A d \in Children : peer' = d =>
           /\ SState(d)' \in SetupStates
           /\ SState(d)' = "S_FILE_BEGIN" =>
                faults' >= waited'[d] + (IF WaitsInVain' /\ waited'["rcopy"] = 0 THEN 1 ELSE 0)
  PROVE  PeerStays'
BY DEF PeerStays, SState

LEMMA JustAnsweredNext ==
  ASSUME \A i \in 1 .. Len(queue'["rcopy"]) :
           \E d \in Children : /\ queue'["rcopy"][i].src = d
                              /\ SState(d)' = "S_FILE_BEGIN" /\ waited'[d] = 0
  PROVE  JustAnswered'
BY DEF JustAnswered, SState

(* One packet sent to a process that has nothing to read and a socket.     *)
LEMMA PostedAlone ==
  ASSUME NEW q \in Queues, NEW src \in Processes, NEW dst \in Processes, NEW p \in AnyPacket,
         q[dst] = <<>>, Listens(dst)
  PROVE  LET r == Posted(q, src, dst, <<p>>)
         IN  /\ r \in Queues /\ \A me \in Processes : me # dst => r[me] = q[me]
             /\ r[dst] # <<>> /\ Len(r[dst]) = 1
             /\ Head(r[dst]) = [src |-> src, pkt |-> p] /\ r[dst][1] = [src |-> src, pkt |-> p]
<1> DEFINE more == [i \in 1 .. Len(<<p>>) |-> [src |-> src, pkt |-> <<p>>[i]]]
           r == Posted(q, src, dst, <<p>>)
<1>1. more \in Seq(Envelopes) /\ Len(more) = 1 /\ more[1] = [src |-> src, pkt |-> p]
  BY DEF Envelopes
<1>2. r = [q EXCEPT ![dst] = q[dst] \o more]
  BY DEF Posted
<1> HIDE DEF more, r
<1>3. q[dst] \o more = more
  BY <1>1, ConcatEmptySeq
<1>4. r \in Queues /\ r[dst] = more /\ \A me \in Processes : me # dst => r[me] = q[me]
  BY <1>1, <1>2, <1>3 DEF Queues
<1>5. more # <<>>
  BY <1>1, <1>4, EmptyIs
<1>6. Head(more) = more[1]
  BY <1>1
<1> QED BY <1>1, <1>4, <1>5, <1>6 DEF r

-----------------------------------------------------------------------------
(* What a child does while rcopy is asking: it opens the file, answers,    *)
(* hears another FILE_NAME or something else, or loses patience.           *)
NameTurn(c) ==
  \/ /\ SState(c) = "S_FILE_NAME" /\ SState(c)' = "S_SEND_NAME_ACK"
     /\ queue' = queue
  \/ /\ SState(c) = "S_SEND_NAME_ACK" /\ SState(c)' = "S_FILE_BEGIN"
     /\ queue' = Posted(queue, c, "rcopy", <<Packet("FILE_NAME_ACK", 0, 0)>>)
  \/ /\ SState(c) = "S_FILE_BEGIN" /\ Waiting(c) /\ queue' = Consumed(c)
     /\ \/ Coming(c, "FILE_NAME") /\ SState(c)' = "S_FILE_NAME"
        \/ ~Coming(c, "FILE_NAME") /\ SState(c)' = "S_FILE_BEGIN"
  \/ /\ SState(c) = "S_FILE_BEGIN" /\ SState(c)' = "S_FINISH"
     /\ queue' = queue /\ queue[c] = <<>> /\ waited[c] = 10

LEMMA Child1NameTurn ==
  ASSUME SessionTypeOK, Child1Step, fopens, sseq1 = 0, Untouched("child1"),
         SState("child1") # "S_SEND_NAME_ERR_ACK"
  PROVE  NameTurn("child1")
<1>1. /\ queue \in Queues /\ "child1" \in Processes
      /\ SState("child1") = sstate1 /\ SState("child1")' = sstate1'
  BY TypesAre, ProcessesAre DEF SState
<1>2. sstate1 \notin TransferStates /\ sstate1 # "S_SEND_NAME_ERR_ACK"
  BY <1>1 DEF Untouched, SetupStates, TransferStates
<1>3. CASE C1!ChildThinks(fopens) /\ Computes("child1")
  <2>1. C1!OpenFile(fopens)
    BY <1>2, <1>3 DEF C1!ChildThinks, C1!ServerThinks, C1!FillWindow, C1!RetryWindow,
       C1!AbandonWindow, C1!AdjustDone, C1!AdjustSlide, C1!AdjustStay, C1!CreateFileEof,
       C1!TimeoutOnAck, TransferStates
  <2> QED BY <1>1, <1>3, <2>1 DEF C1!OpenFile, Computes, NameTurn
<1>4. CASE C1!ChildSends /\ Sends("child1", "rcopy", C1!Message)
  <2>1. C1!SendNameAck /\ sstate1 = "S_SEND_NAME_ACK"
    BY <1>2, <1>4 DEF C1!ChildSends, C1!ServerSends, C1!SendWindow, C1!SendFileEof,
       C1!SendNameAck, TransferStates
  <2>2. C1!Message = <<Packet("FILE_NAME_ACK", 0, 0)>>
    BY <2>1, Child1Operators DEF C1!Message
  <2> QED BY <1>1, <1>4, <2>1, <2>2 DEF C1!SendNameAck, Sends, NameTurn
<1>5. CASE /\ Waiting("child1")
           /\ IF Arrived("child1") = Damaged THEN C1!ChildHearsDamaged
              ELSE C1!ChildHears(Arrived("child1"))
           /\ Reads("child1", "rcopy", C1!Answer(Arrived("child1")))
  <2> DEFINE p == Arrived("child1")
  <2>1. /\ Consumed("child1") \in Queues /\ p = queue["child1"][1].pkt
        /\ 1 \in 1 .. Len(queue["child1"])
    BY <1>1, <1>5, ConsumedIs DEF Arrived
  <2>2. p.flag # "FILE_BEGIN"
    BY <2>1 DEF Untouched
  <2>3. p = Damaged => p.flag = "CORRUPT"
    BY DEF Damaged, Packet
  <2>4. C1!RecvInit(p) \/ C1!IgnoreInBegin(p)
    BY <1>2, <1>5, <2>2, Child1Operators
       DEF C1!ChildHears, C1!ChildHearsDamaged, C1!ServerHears, C1!ServerHearsDamaged,
       C1!RecvBegin, C1!BeginsTransfer, C1!RecvRR, C1!RecvSREJ, C1!RecvOther, C1!HearsResponse,
       C1!NoResponse, C1!RecvEofAck, C1!IgnoreOnAck, TransferStates
  <2>5. C1!Answer(p) = <<>>
    BY <2>2 DEF C1!Answer, C1!BeginsTransfer
  <2>6. queue' = Consumed("child1")
    <3> DEFINE none == <<>>
    <3>1. none \in Seq(AnyPacket) /\ queue' = Posted(Consumed("child1"), "child1", "rcopy", none)
      BY <1>5, <2>5 DEF Reads
    <3>2. none = <<>>
      OBVIOUS
    <3> HIDE DEF none
    <3>3. Extended(Consumed("child1"), "child1", "rcopy", none, queue')
      BY <1>1, <2>1, <3>1, PostedIs, ProcessesAre
    <3> QED BY <3>2, <3>3 DEF Extended
  <2> QED BY <1>1, <1>5, <2>4, <2>6
         DEF C1!RecvInit, C1!IgnoreInBegin, C1!svars, NameTurn, Coming
<1>6. CASE Silence("child1", C1!ChildPatience) /\ C1!ChildTimesOut /\ Computes("child1")
  <2>1. C1!NoBegin
    BY <1>2, <1>6 DEF C1!ChildTimesOut, C1!ServerTimesOut, C1!NoResponse, C1!NoAck, TransferStates
  <2>2. waited["child1"] = 10
    BY <1>6, <2>1 DEF Silence, C1!NoBegin, C1!ChildPatience, C1!MAX_RECV_WAIT_TIME_S
  <2> QED BY <1>1, <1>6, <2>1, <2>2 DEF C1!NoBegin, Computes, Silence, Waiting, NameTurn
<1> QED BY <1>3, <1>4, <1>5, <1>6 DEF Child1Step

(* A file that can be opened is not refused.                               *)
LEMMA Child1NoRefusal ==
  ASSUME Child1Step, fopens, SState("child1") # "S_SEND_NAME_ERR_ACK"
  PROVE  SState("child1")' # "S_SEND_NAME_ERR_ACK"
<1>1. sstate1' # "S_SEND_NAME_ERR_ACK"
  BY DEF Child1Step, SState, C1!svars,
     C1!ChildThinks, C1!OpenFile, C1!ServerThinks, C1!FillWindow, C1!RetryWindow,
     C1!AbandonWindow, C1!AdjustDone, C1!AdjustSlide, C1!AdjustStay, C1!CreateFileEof,
     C1!TimeoutOnAck,
     C1!ChildSends, C1!SendNameAck, C1!ServerSends, C1!SendWindow, C1!SendFileEof,
     C1!ChildHears, C1!ChildHearsDamaged, C1!ServerHears, C1!ServerHearsDamaged, C1!RecvBegin,
     C1!RecvInit, C1!IgnoreInBegin, C1!RecvRR, C1!RecvSREJ, C1!RecvOther, C1!NoResponse,
     C1!RecvEofAck, C1!IgnoreOnAck,
     C1!ChildTimesOut, C1!ServerTimesOut, C1!NoBegin, C1!NoAck
<1> QED BY <1>1 DEF SState

LEMMA Child2NameTurn ==
  ASSUME SessionTypeOK, Child2Step, fopens, sseq2 = 0, Untouched("child2"),
         SState("child2") # "S_SEND_NAME_ERR_ACK"
  PROVE  NameTurn("child2")
<1>1. /\ queue \in Queues /\ "child2" \in Processes
      /\ SState("child2") = sstate2 /\ SState("child2")' = sstate2'
  BY TypesAre, ProcessesAre DEF SState
<1>2. sstate2 \notin TransferStates /\ sstate2 # "S_SEND_NAME_ERR_ACK"
  BY <1>1 DEF Untouched, SetupStates, TransferStates
<1>3. CASE C2!ChildThinks(fopens) /\ Computes("child2")
  <2>1. C2!OpenFile(fopens)
    BY <1>2, <1>3 DEF C2!ChildThinks, C2!ServerThinks, C2!FillWindow, C2!RetryWindow,
       C2!AbandonWindow, C2!AdjustDone, C2!AdjustSlide, C2!AdjustStay, C2!CreateFileEof,
       C2!TimeoutOnAck, TransferStates
  <2> QED BY <1>1, <1>3, <2>1 DEF C2!OpenFile, Computes, NameTurn
<1>4. CASE C2!ChildSends /\ Sends("child2", "rcopy", C2!Message)
  <2>1. C2!SendNameAck /\ sstate2 = "S_SEND_NAME_ACK"
    BY <1>2, <1>4 DEF C2!ChildSends, C2!ServerSends, C2!SendWindow, C2!SendFileEof,
       C2!SendNameAck, TransferStates
  <2>2. C2!Message = <<Packet("FILE_NAME_ACK", 0, 0)>>
    BY <2>1, Child2Operators DEF C2!Message
  <2> QED BY <1>1, <1>4, <2>1, <2>2 DEF C2!SendNameAck, Sends, NameTurn
<1>5. CASE /\ Waiting("child2")
           /\ IF Arrived("child2") = Damaged THEN C2!ChildHearsDamaged
              ELSE C2!ChildHears(Arrived("child2"))
           /\ Reads("child2", "rcopy", C2!Answer(Arrived("child2")))
  <2> DEFINE p == Arrived("child2")
  <2>1. /\ Consumed("child2") \in Queues /\ p = queue["child2"][1].pkt
        /\ 1 \in 1 .. Len(queue["child2"])
    BY <1>1, <1>5, ConsumedIs DEF Arrived
  <2>2. p.flag # "FILE_BEGIN"
    BY <2>1 DEF Untouched
  <2>3. p = Damaged => p.flag = "CORRUPT"
    BY DEF Damaged, Packet
  <2>4. C2!RecvInit(p) \/ C2!IgnoreInBegin(p)
    BY <1>2, <1>5, <2>2, Child2Operators
       DEF C2!ChildHears, C2!ChildHearsDamaged, C2!ServerHears, C2!ServerHearsDamaged,
       C2!RecvBegin, C2!BeginsTransfer, C2!RecvRR, C2!RecvSREJ, C2!RecvOther, C2!HearsResponse,
       C2!NoResponse, C2!RecvEofAck, C2!IgnoreOnAck, TransferStates
  <2>5. C2!Answer(p) = <<>>
    BY <2>2 DEF C2!Answer, C2!BeginsTransfer
  <2>6. queue' = Consumed("child2")
    <3> DEFINE none == <<>>
    <3>1. none \in Seq(AnyPacket) /\ queue' = Posted(Consumed("child2"), "child2", "rcopy", none)
      BY <1>5, <2>5 DEF Reads
    <3>2. none = <<>>
      OBVIOUS
    <3> HIDE DEF none
    <3>3. Extended(Consumed("child2"), "child2", "rcopy", none, queue')
      BY <1>1, <2>1, <3>1, PostedIs, ProcessesAre
    <3> QED BY <3>2, <3>3 DEF Extended
  <2> QED BY <1>1, <1>5, <2>4, <2>6
         DEF C2!RecvInit, C2!IgnoreInBegin, C2!svars, NameTurn, Coming
<1>6. CASE Silence("child2", C2!ChildPatience) /\ C2!ChildTimesOut /\ Computes("child2")
  <2>1. C2!NoBegin
    BY <1>2, <1>6 DEF C2!ChildTimesOut, C2!ServerTimesOut, C2!NoResponse, C2!NoAck, TransferStates
  <2>2. waited["child2"] = 10
    BY <1>6, <2>1 DEF Silence, C2!NoBegin, C2!ChildPatience, C2!MAX_RECV_WAIT_TIME_S
  <2> QED BY <1>1, <1>6, <2>1, <2>2 DEF C2!NoBegin, Computes, Silence, Waiting, NameTurn
<1> QED BY <1>3, <1>4, <1>5, <1>6 DEF Child2Step

(* A file that can be opened is not refused.                               *)
LEMMA Child2NoRefusal ==
  ASSUME Child2Step, fopens, SState("child2") # "S_SEND_NAME_ERR_ACK"
  PROVE  SState("child2")' # "S_SEND_NAME_ERR_ACK"
<1>1. sstate2' # "S_SEND_NAME_ERR_ACK"
  BY DEF Child2Step, SState, C2!svars,
     C2!ChildThinks, C2!OpenFile, C2!ServerThinks, C2!FillWindow, C2!RetryWindow,
     C2!AbandonWindow, C2!AdjustDone, C2!AdjustSlide, C2!AdjustStay, C2!CreateFileEof,
     C2!TimeoutOnAck,
     C2!ChildSends, C2!SendNameAck, C2!ServerSends, C2!SendWindow, C2!SendFileEof,
     C2!ChildHears, C2!ChildHearsDamaged, C2!ServerHears, C2!ServerHearsDamaged, C2!RecvBegin,
     C2!RecvInit, C2!IgnoreInBegin, C2!RecvRR, C2!RecvSREJ, C2!RecvOther, C2!NoResponse,
     C2!RecvEofAck, C2!IgnoreOnAck,
     C2!ChildTimesOut, C2!ServerTimesOut, C2!NoBegin, C2!NoAck
<1> QED BY <1>1 DEF SState

(* The count is not disturbed by what a child does.                        *)
LEMMA TurnKeepsTries ==
  ASSUME Asks, NEW c \in Children, NameTurn(c), UNCHANGED <<client, environment>>,
         SState(Other(c))' = SState(Other(c)), waited' = [waited EXCEPT ![c] = 0]
  PROVE  Trying'
<1>1. /\ queue \in Queues /\ waited \in [Processes -> Nat] /\ namewait \in Nat /\ faults \in Nat
      /\ peer \in Processes /\ c \in Processes /\ c # "rcopy" /\ c # "dispatcher"
      /\ "rcopy" \in Processes /\ "dispatcher" \in Processes /\ Children \subseteq Processes
      /\ OneRequest /\ SessionTypeOK
  BY TypesAre DEF Asks
<1>2. /\ rstate' = rstate /\ peer' = peer /\ namewait' = namewait /\ faults' = faults /\ rseq' = rseq
  BY DEF client, rvars, setupVars, environment
<1>3. /\ \A child \in Children : child # c => SState(child)' = SState(child)
      /\ \A me \in Processes : me # c => waited'[me] = waited[me]
      /\ waited'[c] = 0
  <2>1. \A child \in Children : child # c => child = Other(c)
    BY DEF Children, Other
  <2> QED BY <1>1, <2>1
<1>4. /\ PeerStays /\ JustAnswered /\ TriesCounted
  BY DEF Asks, Trying
<1>5. ASSUME WaitsInVain' => WaitsInVain PROVE TriesCounted'
  BY <1>1, <1>2, <1>5, CountKept
(* Only the child's own patience is to be looked at.                       *)
<1>6. ASSUME SState(c)' \in SetupStates, WaitsInVain' => WaitsInVain
      PROVE  PeerStays'
  <2>1. ASSUME NEW d \in Children, peer' = d
        PROVE  /\ SState(d)' \in SetupStates
               /\ SState(d)' = "S_FILE_BEGIN" =>
                    faults' >= waited'[d] + (IF WaitsInVain' /\ waited'["rcopy"] = 0 THEN 1 ELSE 0)
    <3>1. peer = d
      BY <1>2, <2>1
    <3>2. CASE d # c
      <4>1. /\ SState(d) \in SetupStates
            /\ SState(d) = "S_FILE_BEGIN" =>
                 faults >= waited[d] + (IF WaitsInVain /\ waited["rcopy"] = 0 THEN 1 ELSE 0)
        BY <1>4, <3>1 DEF PeerStays
      <4>2. /\ SState(d)' = SState(d) /\ waited'[d] = waited[d] /\ waited[d] \in Nat
            /\ waited'["rcopy"] = waited["rcopy"]
        BY <1>1, <1>3, <3>2
      <4> QED BY <1>1, <1>2, <1>6, <4>1, <4>2
    <3>3. CASE d = c
      <4>1. CASE WaitsInVain'
        <5>1. PICK num_wait \in ClientWait :
                num_wait =< namewait /\ faults >= namewait - num_wait + 1
          BY <1>4, <1>6, <4>1 DEF TriesCounted
        <5>2. num_wait \in Nat
          BY <1>1, TypesAre
        <5>3. faults >= 1
          BY <1>1, <5>1, <5>2
        <5> QED BY <1>1, <1>2, <1>3, <1>6, <3>3, <5>3
      <4>2. CASE ~WaitsInVain'
        <5>1. SState(d)' \in SetupStates /\ waited'[d] = 0 /\ faults' >= 0
          BY <1>1, <1>2, <1>3, <1>6, <3>3
        <5> QED BY <1>1, <1>2, <4>2, <5>1
      <4> QED BY <4>1, <4>2
    <3> QED BY <3>2, <3>3
  <2> QED BY <2>1, PeerStaysNext
<1>7. CASE SState(c) = "S_FILE_NAME" /\ SState(c)' = "S_SEND_NAME_ACK" /\ queue' = queue
  <2>1. Asking(c) /\ Asking(c)' /\ SState(c)' \in SetupStates
    BY <1>7 DEF Asking, SetupStates
  <2>2. Answerable'
    BY <2>1 DEF Answerable
  <2>3. ~WaitsInVain' /\ Len(queue["rcopy"]) = 0
    <3>1. queue["rcopy"] = <<>>
      BY <1>1, <2>1, AloneIs DEF Stirs
    <3> QED BY <1>1, <2>2, <3>1, EmptyIs DEF WaitsInVain
  <2>4. JustAnswered'
    BY <1>7, <2>3 DEF JustAnswered
  <2> QED BY <1>5, <1>6, <2>1, <2>3, <2>4 DEF Trying
<1>8. CASE /\ SState(c) = "S_SEND_NAME_ACK" /\ SState(c)' = "S_FILE_BEGIN"
           /\ queue' = Posted(queue, c, "rcopy", <<Packet("FILE_NAME_ACK", 0, 0)>>)
  <2> DEFINE ack == Packet("FILE_NAME_ACK", 0, 0)
  <2>1. Asking(c) /\ SState(c)' \in SetupStates
    BY <1>8 DEF Asking, SetupStates
  <2>2. queue["rcopy"] = <<>> /\ rstate = "S_WAIT_ON_ACK" /\ Listens("rcopy")
    BY <1>1, <2>1, AloneIs, ListensIs DEF Stirs, RcopyLeft
  <2>3. ack \in AnyPacket /\ ack.flag = "FILE_NAME_ACK" /\ ack.seq = 0
    BY PacketIs DEF Flags, Packet
  <2>4. queue' = Posted(queue, c, "rcopy", <<ack>>)
    BY <1>8
  <2> HIDE DEF ack
  <2>5. /\ queue'["rcopy"] # <<>> /\ Len(queue'["rcopy"]) = 1
        /\ Head(queue'["rcopy"]) = [src |-> c, pkt |-> ack]
        /\ queue'["rcopy"][1] = [src |-> c, pkt |-> ack]
    BY <1>1, <2>2, <2>3, <2>4, PostedAlone
  <2>6. Answerable'
    BY <1>2, <2>3, <2>5 DEF Answerable, Waiting, Arrived, NameAcked, Asks
  <2>7. ~WaitsInVain'
    BY <2>6 DEF WaitsInVain
  <2>8. JustAnswered'
    <3>1. \A i \in 1 .. Len(queue'["rcopy"]) : queue'["rcopy"][i].src = c
      BY <2>5
    <3>2. c \in Children /\ SState(c)' = "S_FILE_BEGIN" /\ waited'[c] = 0
      BY <1>3, <1>8
    <3>3. \A child : child = c => SState(child)' = SState(c)'
      BY DEF SState
    <3> QED BY <3>1, <3>2, <3>3 DEF JustAnswered
  <2> QED BY <1>5, <1>6, <2>1, <2>7, <2>8 DEF Trying
<1>9. CASE /\ SState(c) = "S_FILE_BEGIN" /\ Waiting(c) /\ queue' = Consumed(c)
           /\ \/ Coming(c, "FILE_NAME") /\ SState(c)' = "S_FILE_NAME"
              \/ ~Coming(c, "FILE_NAME") /\ SState(c)' = "S_FILE_BEGIN"
  <2>1. Stirs(c) /\ ~Asking(c) /\ SState(c)' \in SetupStates
    BY <1>9 DEF Stirs, Asking, SetupStates
  <2>2. queue["rcopy"] = <<>> /\ queue'["rcopy"] = queue["rcopy"] /\ Len(queue'["rcopy"]) = 0
    BY <1>1, <1>9, <2>1, AloneIs, ConsumedIs, EmptyIs
  <2>3. JustAnswered'
    BY <2>2 DEF JustAnswered
  <2>4. WaitsInVain' => WaitsInVain
    <3>1. CASE Coming(c, "FILE_NAME") /\ SState(c)' = "S_FILE_NAME"
      <4>1. Asking(c)'
        BY <3>1 DEF Asking, SetupStates
      <4> QED BY <4>1 DEF WaitsInVain, Answerable
    <3>2. CASE ~Coming(c, "FILE_NAME")
      <4>1. ~Answerable
        BY <1>1, <2>1, <3>2, AloneIs
      <4> QED BY <1>2, <4>1 DEF WaitsInVain
    <3> QED BY <1>9, <3>1, <3>2
  <2> QED BY <1>5, <1>6, <2>1, <2>3, <2>4 DEF Trying
<1>10. CASE /\ SState(c) = "S_FILE_BEGIN" /\ SState(c)' = "S_FINISH"
            /\ queue' = queue /\ queue[c] = <<>> /\ waited[c] = 10
  <2>1. peer # c
    <3>1. ASSUME peer = c PROVE FALSE
      <4>1. faults >= waited[c] + (IF WaitsInVain /\ waited["rcopy"] = 0 THEN 1 ELSE 0)
        BY <1>4, <1>10, <3>1 DEF PeerStays
      <4> QED BY <1>1, <1>10, <4>1 DEF Asks
    <3> QED BY <3>1
  <2>2. WaitsInVain' => WaitsInVain
    <3>1. ~Coming(c, "FILE_NAME") /\ ~Asking(c)
      BY <1>10 DEF Coming, Waiting, Asking, SetupStates
    <3>2. \A child \in Children : child # c =>
            /\ Coming(child, "FILE_NAME")' <=> Coming(child, "FILE_NAME")
            /\ Asking(child)' <=> Asking(child)
      BY <1>3, <1>10 DEF Coming, Waiting, Arrived, Asking
    <3>3. Answerable => Answerable'
      BY <1>2, <1>10, <3>1, <3>2 DEF Answerable, Coming, Waiting, Arrived, NameAcked
    <3> QED BY <1>2, <3>3 DEF WaitsInVain
  <2>3. PeerStays'
    <3>1. ASSUME NEW d \in Children, peer' = d
          PROVE  /\ SState(d)' \in SetupStates
                 /\ SState(d)' = "S_FILE_BEGIN" =>
                      faults' >= waited'[d] + (IF WaitsInVain' /\ waited'["rcopy"] = 0 THEN 1 ELSE 0)
      <4>1. peer = d /\ d # c
        BY <1>2, <2>1, <3>1
      <4>2. /\ SState(d) \in SetupStates
            /\ SState(d) = "S_FILE_BEGIN" =>
                 faults >= waited[d] + (IF WaitsInVain /\ waited["rcopy"] = 0 THEN 1 ELSE 0)
        BY <1>4, <4>1 DEF PeerStays
      <4>3. /\ SState(d)' = SState(d) /\ waited'[d] = waited[d] /\ waited[d] \in Nat
            /\ waited'["rcopy"] = waited["rcopy"]
        BY <1>1, <1>3, <4>1
      <4> QED BY <1>1, <1>2, <2>2, <4>2, <4>3
    <3> QED BY <3>1, PeerStaysNext
  <2>4. JustAnswered'
    <3>1. ASSUME NEW i \in 1 .. Len(queue["rcopy"])
          PROVE  \E d \in Children : /\ queue["rcopy"][i].src = d
                                    /\ SState(d)' = "S_FILE_BEGIN" /\ waited'[d] = 0
      <4>1. PICK d \in Children :
              queue["rcopy"][i].src = d /\ SState(d) = "S_FILE_BEGIN" /\ waited[d] = 0
        BY <1>4, <3>1 DEF JustAnswered
      <4>2. d # c
        BY <1>10, <4>1
      <4>3. SState(d)' = SState(d) /\ waited'[d] = waited[d]
        BY <1>1, <1>3, <4>2
      <4> QED BY <4>1, <4>3
    <3> QED BY <1>10, <3>1, JustAnsweredNext
  <2> QED BY <1>5, <2>2, <2>3, <2>4 DEF Trying
<1> QED BY <1>7, <1>8, <1>9, <1>10 DEF NameTurn

-----------------------------------------------------------------------------
(* What rcopy does while it asks.                                          *)
AsksAgain ==
  /\ rstate = "S_TIMEOUT_ON_ACK" /\ queue' = queue /\ peer' = peer
  /\ \/ rstate' = "S_FINISH" /\ namewait' = namewait
     \/ rstate' = "S_START" /\ namewait' = namewait + 1

SendsName ==
  /\ rstate = "S_START" /\ rstate' = "S_WAIT_ON_ACK" /\ namewait' = namewait
  /\ queue' = Posted(queue, "rcopy", peer, <<Packet("FILE_NAME", 0, 0)>>) /\ peer' = peer

HearsAnswer ==
  /\ rstate = "S_WAIT_ON_ACK" /\ namewait' = namewait
  /\ Waiting("rcopy") /\ queue' = Consumed("rcopy") /\ peer' = queue["rcopy"][1].src
  /\ \/ rstate' = "S_OPEN_FILE"
     \/ rstate' = "S_WAIT_ON_ACK" /\ ~NameAcked(Arrived("rcopy"))

HearsNothing ==
  /\ rstate = "S_WAIT_ON_ACK" /\ rstate' = "S_TIMEOUT_ON_ACK" /\ namewait' = namewait
  /\ queue["rcopy"] = <<>> /\ waited["rcopy"] = 1 /\ queue' = queue /\ peer' = peer

LEMMA AskIs ==
  ASSUME SessionTypeOK, RcopyStep, rstate \in NameStates, rseq = 0
  PROVE  /\ AsksAgain \/ SendsName \/ HearsAnswer \/ HearsNothing
         /\ rseq' = rseq /\ lfp' = lfp
<1>1. queue \in Queues /\ peer \in Processes /\ "rcopy" \in Processes
  BY TypesAre
<1>2. rstate \notin RcopyStates
  BY DEF NameStates, RcopyStates
<1>3. CASE ClientThinks /\ Computes("rcopy") /\ UNCHANGED peer
  <2>1. TimeoutOnNameAck
    BY <1>2, <1>3 DEF ClientThinks, OpenLocalFile, AbandonBegin, RcopyThinks, WriteData,
       AdjustWindow, TimeoutOnData, NameStates, RcopyStates
  <2> QED BY <1>3, <2>1 DEF TimeoutOnNameAck, Computes, AsksAgain
<1>4. CASE ClientSends /\ Sends("rcopy", peer, <<Request>>) /\ UNCHANGED peer
  <2>1. SendInitPkt
    BY <1>2, <1>4 DEF ClientSends, SendBegin, RcopySends, SendRR, SendSREJ, SendEofAck, NameStates,
       RcopyStates
  <2>2. Request = Packet("FILE_NAME", 0, 0)
    BY <2>1 DEF SendInitPkt, Request
  <2> QED BY <1>4, <2>1, <2>2 DEF SendInitPkt, Sends, SendsName, setupVars
<1>5. CASE RcopyReads
  <2>1. queue' = Consumed("rcopy")
    <3> DEFINE none == <<>>
    <3>1. none \in Seq(AnyPacket) /\ queue' = Posted(Consumed("rcopy"), "rcopy", peer, none)
      BY <1>5 DEF RcopyReads, Reads
    <3>2. Consumed("rcopy") \in Queues /\ none = <<>>
      BY <1>1, <1>5, ConsumedIs DEF RcopyReads
    <3> HIDE DEF none
    <3>3. Extended(Consumed("rcopy"), "rcopy", peer, none, queue')
      BY <1>1, <3>1, <3>2, PostedIs
    <3> QED BY <3>2, <3>3 DEF Extended
  <2>2. peer' = queue["rcopy"][1].src /\ Waiting("rcopy")
    BY <1>1, <1>5, ConsumedIs DEF RcopyReads
  <2>3. ~NameAcked(Damaged)
    BY DEF NameAcked, Damaged, Packet
  <2>4. \/ RecvNameAck(Arrived("rcopy"))
        \/ IgnoreOnNameAck(Arrived("rcopy")) /\ ~NameAcked(Arrived("rcopy"))
    BY <1>2, <1>5, <2>3 DEF RcopyReads, ClientHears, ClientHearsDamaged, RecvBeginAck, RecvNoBeginAck,
       RcopyHears, RecvEof, RecvOld, RecvNext, RecvAhead, IgnoreOnData, HearsData, RecvCorrupt,
       NameStates, RcopyStates, IgnoreOnNameAck
  <2> QED BY <2>1, <2>2, <2>4 DEF RecvNameAck, IgnoreOnNameAck, rvars, setupVars, HearsAnswer
<1>6. CASE Silence("rcopy", ClientPatience) /\ ClientTimesOut /\ Computes("rcopy") /\ UNCHANGED peer
  <2>1. NoNameAck
    BY <1>2, <1>6 DEF ClientTimesOut, NoBeginAck, NoData, NameStates, RcopyStates
  <2>2. waited["rcopy"] = 1
    BY <1>6, <2>1 DEF Silence, NoNameAck, ClientPatience, MAX_SEND_WAIT_TIME_S
  <2> QED BY <1>6, <2>1, <2>2 DEF NoNameAck, Computes, Silence, Waiting, HearsNothing, setupVars
<1> QED BY <1>3, <1>4, <1>5, <1>6 DEF RcopyStep

(* Once rcopy has its answer it opens its file before anything else.       *)
LEMMA FileIsOpened ==
  ASSUME RcopyStep, rstate \notin NameStates, Opened
  PROVE  lfp' # "unset"
<1>1. ~RcopyLeft
  BY DEF RcopyStep, RcopyReads, RcopyLeft,
     ClientThinks, TimeoutOnNameAck, OpenLocalFile, AbandonBegin, RcopyThinks, WriteData, AdjustWindow,
     TimeoutOnData, ClientSends, SendInitPkt, SendBegin, RcopySends, SendRR, SendSREJ, SendEofAck,
     ClientHears, ClientHearsDamaged, RecvNameAck, IgnoreOnNameAck, RecvBeginAck, RecvNoBeginAck,
     RcopyHears, RecvEof, RecvOld, RecvNext, RecvAhead, IgnoreOnData, HearsData, RecvCorrupt,
     ClientTimesOut, NoNameAck, NoBeginAck, NoData
<1>2. OpenLocalFile \/ (rstate # "S_OPEN_FILE" /\ lfp' = lfp)
  BY DEF RcopyStep, RcopyReads, NameStates, rvars, setupVars,
     ClientThinks, TimeoutOnNameAck, AbandonBegin, RcopyThinks, WriteData, AdjustWindow,
     TimeoutOnData, ClientSends, SendInitPkt, SendBegin, RcopySends, SendRR, SendSREJ, SendEofAck,
     ClientHears, ClientHearsDamaged, RecvNameAck, IgnoreOnNameAck, RecvBeginAck, RecvNoBeginAck,
     RcopyHears, RecvEof, RecvOld, RecvNext, RecvAhead, IgnoreOnData, HearsData, RecvCorrupt,
     ClientTimesOut, NoNameAck, NoBeginAck, NoData
<1> QED BY <1>1, <1>2 DEF OpenLocalFile, Opened

(* A try that fails is counted when its second has passed, and has cost a  *)
(* datagram already.                                                       *)
LEMMA AskKeepsTries ==
  ASSUME Asks, UNCHANGED <<child1, child2, environment>>, rseq' = rseq,
         waited' = [waited EXCEPT !["rcopy"] = 0],
         AsksAgain \/ SendsName \/ HearsAnswer \/ HearsNothing, rstate' \in NameStates
  PROVE  Trying'
<1>1. /\ queue \in Queues /\ waited \in [Processes -> Nat] /\ namewait \in Nat /\ faults \in Nat
      /\ peer \in Processes /\ ClientWait \subseteq Nat
      /\ "rcopy" \in Processes /\ "dispatcher" \in Processes /\ Children \subseteq Processes
      /\ "rcopy" \notin Children /\ "dispatcher" \notin Children /\ "dispatcher" # "rcopy"
      /\ OneRequest /\ SessionTypeOK
  BY TypesAre DEF Asks
<1>2. /\ faults' = faults /\ serving' = serving /\ \A child \in Children : SState(child)' = SState(child)
      /\ \A child \in Children : waited'[child] = waited[child]
      /\ waited'["rcopy"] = 0
  BY <1>1, Unmoved DEF environment
<1>3. PeerStays /\ JustAnswered /\ TriesCounted
  BY DEF Asks, Trying
<1>4. ASSUME Len(queue'["rcopy"]) = 0 PROVE JustAnswered'
  BY <1>4 DEF JustAnswered
(* As long as rcopy does not wait in vain its peer stays as it was.        *)
<1>5. ASSUME peer' = peer, ~WaitsInVain' PROVE PeerStays'
  <2>1. ASSUME NEW d \in Children, peer' = d
        PROVE  /\ SState(d)' \in SetupStates
               /\ SState(d)' = "S_FILE_BEGIN" =>
                    faults' >= waited'[d] + (IF WaitsInVain' /\ waited'["rcopy"] = 0 THEN 1 ELSE 0)
    <3>1. /\ SState(d) \in SetupStates
          /\ SState(d) = "S_FILE_BEGIN" =>
               faults >= waited[d] + (IF WaitsInVain /\ waited["rcopy"] = 0 THEN 1 ELSE 0)
      BY <1>3, <1>5, <2>1 DEF PeerStays
    <3>2. SState(d)' = SState(d) /\ waited'[d] = waited[d] /\ waited[d] \in Nat
      BY <1>1, <1>2
    <3> QED BY <1>1, <1>2, <1>5, <3>1, <3>2
  <2> QED BY <2>1, PeerStaysNext
<1>6. CASE AsksAgain
  <2>1. /\ rstate = "S_TIMEOUT_ON_ACK" /\ rstate' = "S_START" /\ namewait' = namewait + 1
        /\ queue' = queue /\ peer' = peer
    BY <1>6 DEF AsksAgain, NameStates
  <2>2. ~WaitsInVain'
    BY <2>1 DEF WaitsInVain
  <2>3. TriesCounted'
    <3>1. PICK num_wait \in ClientWait :
            num_wait =< namewait /\ faults >= namewait - num_wait + 1
      BY <1>3, <2>1 DEF TriesCounted
    <3>2. num_wait \in Nat
      BY <1>1
    <3>3. num_wait =< namewait' /\ faults' >= namewait' - num_wait + 0
      BY <1>1, <1>2, <2>1, <3>1, <3>2
    <3> QED BY <2>1, <2>2, <3>3 DEF TriesCounted
  <2>4. Len(queue'["rcopy"]) = 0
    <3>1. ~Stirs("rcopy")
      BY <1>1, <2>1, AloneIs
    <3> QED BY <1>1, <2>1, <3>1, EmptyIs DEF Stirs, Waiting
  <2> QED BY <1>4, <1>5, <2>1, <2>2, <2>3, <2>4 DEF Trying
<1>7. CASE SendsName
  <2> DEFINE name == Packet("FILE_NAME", 0, 0)
  <2>1. /\ rstate = "S_START" /\ rstate' = "S_WAIT_ON_ACK" /\ namewait' = namewait /\ peer' = peer
        /\ queue' = Posted(queue, "rcopy", peer, <<name>>)
    BY <1>7 DEF SendsName
  <2>2. \A me \in Processes : queue[me] = <<>>
    BY <2>1, AloneIs, QuietIs
  <2>3. name \in AnyPacket /\ name.flag = "FILE_NAME"
    BY PacketIs DEF Flags, Packet
  <2>4. peer # "rcopy" /\ Listens(peer) /\ (peer = "dispatcher" \/ peer \in Children)
    <3>1. peer # "rcopy"
      BY <1>1 DEF OneRequest, Asks
    <3>2. peer = "dispatcher" \/ peer \in Children
      BY <1>1, <3>1, ProcessesAre
    <3>3. peer \in Children => SState(peer) \in SetupStates
      BY <1>3 DEF PeerStays
    <3> QED BY <3>1, <3>2, <3>3, ListensIs DEF Asks, SetupStates, Gone
  <2> HIDE DEF name
  <2>5. /\ queue'[peer] # <<>> /\ Head(queue'[peer]) = [src |-> "rcopy", pkt |-> name]
        /\ \A me \in Processes : me # peer => queue'[me] = queue[me]
    BY <1>1, <2>1, <2>2, <2>3, <2>4, PostedAlone
  <2>6. ~WaitsInVain'
    <3>1. queue'[peer] # <<>> /\ Head(queue'[peer]).pkt.flag = "FILE_NAME"
      BY <2>3, <2>5
    <3>2. Answerable'
      BY <2>4, <3>1 DEF Answerable, Coming, Waiting, Arrived
    <3> QED BY <3>2 DEF WaitsInVain
  <2>7. TriesCounted'
    <3>1. PICK num_wait \in ClientWait :
            /\ num_wait =< namewait
            /\ faults >= namewait - num_wait
                           + (IF WaitsInVain \/ rstate = "S_TIMEOUT_ON_ACK" THEN 1 ELSE 0)
      BY <1>3 DEF TriesCounted
    <3>2. num_wait \in Nat /\ ~WaitsInVain /\ rstate # "S_TIMEOUT_ON_ACK"
      BY <1>1, <2>1 DEF WaitsInVain
    <3>3. num_wait =< namewait' /\ faults' >= namewait' - num_wait + 0
      BY <1>1, <1>2, <2>1, <3>1, <3>2
    <3> QED BY <2>1, <2>6, <3>3 DEF TriesCounted
  <2>8. Len(queue'["rcopy"]) = 0
    BY <1>1, <2>2, <2>4, <2>5, EmptyIs
  <2> QED BY <1>4, <1>5, <2>1, <2>6, <2>7, <2>8 DEF Trying
<1>8. CASE HearsAnswer
  <2> DEFINE c == queue["rcopy"][1].src
  <2>1. /\ rstate = "S_WAIT_ON_ACK" /\ rstate' = "S_WAIT_ON_ACK" /\ namewait' = namewait
        /\ Waiting("rcopy") /\ queue' = Consumed("rcopy") /\ peer' = c
        /\ ~NameAcked(Arrived("rcopy"))
    BY <1>8 DEF HearsAnswer, NameStates
  <2>2. WaitsInVain
    <3>1. Stirs("rcopy")
      BY <2>1 DEF Stirs
    <3>2. ~Answerable
      BY <1>1, <2>1, <3>1, AloneIs
    <3> QED BY <2>1, <3>2 DEF WaitsInVain
  <2>3. TriesCounted'
    BY <1>1, <1>2, <2>1, <2>2, CountKept
  <2>4. faults >= 1
    <3>1. PICK num_wait \in ClientWait :
            num_wait =< namewait /\ faults >= namewait - num_wait + 1
      BY <1>3, <2>2 DEF TriesCounted
    <3>2. num_wait \in Nat
      BY <1>1
    <3> QED BY <1>1, <3>1, <3>2
  <2>5. c \in Children /\ SState(c) = "S_FILE_BEGIN" /\ waited[c] = 0
    <3>1. 1 \in 1 .. Len(queue["rcopy"])
      BY <1>1, <2>1, ConsumedIs
    <3> QED BY <1>3, <3>1 DEF JustAnswered
  <2> HIDE DEF c
  <2>6. PeerStays'
    <3>1. ASSUME NEW d \in Children, peer' = d
          PROVE  /\ SState(d)' \in SetupStates
                 /\ SState(d)' = "S_FILE_BEGIN" =>
                      faults' >= waited'[d] + (IF WaitsInVain' /\ waited'["rcopy"] = 0 THEN 1 ELSE 0)
      <4>1. d = c
        BY <2>1, <3>1
      <4>2. SState(d) = "S_FILE_BEGIN" /\ waited[d] = 0
        BY <2>5, <4>1
      <4>3. SState(d)' = "S_FILE_BEGIN" /\ waited'[d] = 0
        BY <1>2, <4>2
      <4> QED BY <1>1, <1>2, <2>4, <4>3 DEF SetupStates
    <3> QED BY <3>1, PeerStaysNext
  <2>7. Len(queue'["rcopy"]) = 0
    <3>1. Len(queue["rcopy"]) =< 1
      BY <1>1 DEF OneRequest, Asks
    <3>2. Len(queue["rcopy"]) \in Nat \ {0} /\ Len(Consumed("rcopy")["rcopy"]) = Len(queue["rcopy"]) - 1
      BY <1>1, <2>1, ConsumedIs
    <3> QED BY <2>1, <3>1, <3>2
  <2> QED BY <1>4, <2>3, <2>6, <2>7 DEF Trying
<1>9. CASE HearsNothing
  <2>1. /\ rstate = "S_WAIT_ON_ACK" /\ rstate' = "S_TIMEOUT_ON_ACK" /\ namewait' = namewait
        /\ queue["rcopy"] = <<>> /\ waited["rcopy"] = 1 /\ queue' = queue /\ peer' = peer
    BY <1>9 DEF HearsNothing
  <2>2. ~WaitsInVain' /\ WaitsInVain
    <3>1. ~Answerable
      BY <2>1, AloneIs, QuietIs
    <3> QED BY <2>1, <3>1 DEF WaitsInVain
  <2>3. TriesCounted'
    <3>1. PICK num_wait \in ClientWait :
            num_wait =< namewait /\ faults >= namewait - num_wait + 1
      BY <1>3, <2>2 DEF TriesCounted
    <3> QED BY <1>2, <2>1, <3>1 DEF TriesCounted
  <2>4. Len(queue'["rcopy"]) = 0
    BY <1>1, <2>1, EmptyIs
  <2> QED BY <1>4, <1>5, <2>1, <2>2, <2>3, <2>4 DEF Trying
<1> QED BY <1>6, <1>7, <1>8, <1>9

-----------------------------------------------------------------------------
(* What the dispatcher and the environment do to the count.                *)
LEMMA DispatchKeepsTries ==
  ASSUME Asks, Dispatch
  PROVE  Trying'
<1>1. /\ queue \in Queues /\ waited \in [Processes -> Nat] /\ namewait \in Nat /\ faults \in Nat
      /\ "rcopy" \in Processes /\ "dispatcher" \in Processes /\ Children \subseteq Processes
      /\ "rcopy" \notin Children /\ "dispatcher" \notin Children /\ "dispatcher" # "rcopy"
      /\ OneRequest /\ SessionTypeOK /\ PeerStays
  BY TypesAre DEF Asks, Trying
<1>2. /\ UNCHANGED <<client, waited, environment>>
      /\ Waiting("dispatcher") /\ queue' = Consumed("dispatcher")
  BY <1>1, DispatchIs
<1>3. /\ rstate' = rstate /\ peer' = peer /\ namewait' = namewait /\ faults' = faults /\ rseq' = rseq
      /\ waited' = waited
  BY <1>2 DEF client, rvars, setupVars, environment
<1>4. Stirs("dispatcher")
  BY <1>2 DEF Stirs
<1>5. queue["rcopy"] = <<>> /\ \A child \in Children : queue[child] = <<>> /\ ~Asking(child)
  BY <1>1, <1>4, AloneIs DEF Stirs
<1>6. queue'["rcopy"] = <<>> /\ Len(queue'["rcopy"]) = 0
  BY <1>1, <1>2, <1>5, ConsumedIs, EmptyIs
<1>7. \A child \in Children : SState(child)' = SState(child) \/ SState(child) = "NO_PROCESS"
  <2>1. \A c, child \in Children : child = c \/ child = Other(c)
    BY DEF Children, Other
  <2> QED BY <1>1, <2>1, DispatchIs
<1>8. WaitsInVain' => WaitsInVain
  <2>1. CASE Arrived("dispatcher").flag = "FILE_NAME"
    <3>1. C1!Fork \/ C2!Fork
      BY <2>1 DEF Dispatch
    <3>2. Asking("child1")' \/ Asking("child2")'
      BY <3>1 DEF C1!Fork, C2!Fork, Asking, SState, Children, SetupStates
    <3>3. Answerable'
      BY <3>2 DEF Answerable, Children
    <3> QED BY <3>3 DEF WaitsInVain
  <2>2. CASE Arrived("dispatcher").flag # "FILE_NAME"
    <3>1. ~Answerable
      BY <1>1, <1>4, <2>2, AloneIs DEF Coming
    <3> QED BY <1>3, <3>1 DEF WaitsInVain
  <2> QED BY <2>1, <2>2
<1>9. TriesCounted'
  BY <1>1, <1>3, <1>8, CountKept
<1>10. JustAnswered'
  BY <1>6 DEF JustAnswered
<1>11. PeerStays'
  <2>1. ASSUME NEW d \in Children, peer' = d
        PROVE  /\ SState(d)' \in SetupStates
               /\ SState(d)' = "S_FILE_BEGIN" =>
                    faults' >= waited'[d] + (IF WaitsInVain' /\ waited'["rcopy"] = 0 THEN 1 ELSE 0)
    <3>1. /\ SState(d) \in SetupStates
          /\ SState(d) = "S_FILE_BEGIN" =>
               faults >= waited[d] + (IF WaitsInVain /\ waited["rcopy"] = 0 THEN 1 ELSE 0)
      BY <1>1, <1>3, <2>1 DEF PeerStays
    <3>2. SState(d)' = SState(d) /\ waited[d] \in Nat
      BY <1>1, <1>7, <3>1 DEF SetupStates
    <3> QED BY <1>1, <1>3, <1>8, <3>1, <3>2
  <2> QED BY <2>1, PeerStaysNext
<1> QED BY <1>9, <1>10, <1>11 DEF Trying

(* A second passes only when nobody has the request or the answer.         *)
LEMMA TickIs ==
  ASSUME Asks, Tick
  PROVE  /\ \A me \in Processes : ~Stirs(me)
         /\ rstate = "S_WAIT_ON_ACK" /\ waited["rcopy"] = 0 /\ waited'["rcopy"] = 1
         /\ \A child \in Children : SState(child) \in SetupStates => waited'[child] = waited[child] + 1
<1>1. /\ "rcopy" \in Processes /\ "rcopy" # "dispatcher" /\ Children \subseteq Processes
      /\ "dispatcher" \notin Children /\ waited \in [Processes -> Nat]
      /\ OneRequest /\ rstate \in NameStates /\ SessionTypeOK
  BY TypesAre DEF Asks
<1>2. \A me \in Processes : Idle(me) /\ (Waiting(me) => Listens(me) /\ ~Asking(me))
  BY <1>1 DEF Tick, OneRequest
<1>3. ASSUME NEW me \in Processes PROVE ~Stirs(me)
  <2>1. Idle(me) /\ (Waiting(me) => Listens(me) /\ ~Asking(me))
    BY <1>2
  <2>2. CASE me = "rcopy" \/ me = "dispatcher"
    BY <2>1, <2>2, ListensIs, ProcessesAre DEF Idle, Stirs, Asking
  <2>3. CASE me = "child1"
    <3>1. ~Listens(me) \/ (C1!ChildSelects /\ ~Waiting(me))
      BY <2>1, <2>3 DEF Idle
    <3>2. C1!ChildSelects => SState(me) \notin SetupStates \ {"S_FILE_BEGIN"}
      BY <2>3 DEF C1!ChildSelects, C1!ServerSelects, SState, SetupStates
    <3>3. ~Listens(me) => SState(me) \in Gone
      BY <2>3, ListensIs, ProcessesAre
    <3> QED BY <2>1, <3>1, <3>2, <3>3 DEF Stirs, Asking, Gone, SetupStates
  <2>4. CASE me = "child2"
    <3>1. ~Listens(me) \/ (C2!ChildSelects /\ ~Waiting(me))
      BY <2>1, <2>4 DEF Idle
    <3>2. C2!ChildSelects => SState(me) \notin SetupStates \ {"S_FILE_BEGIN"}
      BY <2>4 DEF C2!ChildSelects, C2!ServerSelects, SState, SetupStates
    <3>3. ~Listens(me) => SState(me) \in Gone
      BY <2>4, ListensIs, ProcessesAre
    <3> QED BY <2>1, <3>1, <3>2, <3>3 DEF Stirs, Asking, Gone, SetupStates
  <2> QED BY <2>2, <2>3, <2>4, ProcessesAre
<1>4. rstate = "S_WAIT_ON_ACK" /\ waited["rcopy"] < 1
  <2>1. Idle("rcopy") /\ ~RcopyLeft
    BY <1>1, <1>2 DEF RcopyLeft, NameStates
  <2>2. ClientSelects /\ waited["rcopy"] < ClientPatience
    BY <2>1 DEF Idle
  <2> QED BY <1>1, <2>2 DEF ClientSelects, RcopySelects, ClientPatience, MAX_SEND_WAIT_TIME_S, NameStates
<1>5. /\ waited["rcopy"] = 0
      /\ waited' = [me \in Processes |->
                      IF me # "dispatcher" /\ Listens(me) THEN waited[me] + 1 ELSE 0]
  BY <1>1, <1>4 DEF Tick
<1>6. Listens("rcopy")
  BY <1>1, ListensIs DEF RcopyLeft, NameStates
<1>7. \A child \in Children : SState(child) \in SetupStates => Listens(child)
  BY ListensIs DEF SetupStates, Gone
<1>8. waited'["rcopy"] = 1
  BY <1>1, <1>5, <1>6
<1>9. \A child \in Children : SState(child) \in SetupStates => waited'[child] = waited[child] + 1
  BY <1>1, <1>5, <1>7
<1> QED BY <1>3, <1>4, <1>5, <1>8, <1>9

LEMMA TickKeepsTries ==
  ASSUME Asks, Tick
  PROVE  Trying'
<1>1. /\ queue \in Queues /\ waited \in [Processes -> Nat] /\ namewait \in Nat /\ faults \in Nat
      /\ "rcopy" \in Processes /\ SessionTypeOK /\ PeerStays /\ Children \subseteq Processes
  BY TypesAre DEF Asks, Trying
<1>2. /\ rstate' = rstate /\ peer' = peer /\ namewait' = namewait /\ faults' = faults
      /\ queue' = queue /\ \A child \in Children : SState(child)' = SState(child)
  BY Unmoved DEF Tick, client, rvars, setupVars, environment
<1>3. WaitsInVain /\ queue["rcopy"] = <<>> /\ Len(queue'["rcopy"]) = 0
  <2>1. ~Answerable /\ queue["rcopy"] = <<>>
    BY <1>1, TickIs, QuietIs
  <2> QED BY <1>1, <1>2, <2>1, TickIs, EmptyIs DEF WaitsInVain
<1>4. TriesCounted'
  BY <1>1, <1>2, <1>3, CountKept
<1>5. JustAnswered'
  BY <1>3 DEF JustAnswered
<1>6. PeerStays'
  <2>1. ASSUME NEW d \in Children, peer' = d
        PROVE  /\ SState(d)' \in SetupStates
               /\ SState(d)' = "S_FILE_BEGIN" =>
                    faults' >= waited'[d] + (IF WaitsInVain' /\ waited'["rcopy"] = 0 THEN 1 ELSE 0)
    <3>1. /\ SState(d) \in SetupStates
          /\ SState(d) = "S_FILE_BEGIN" => faults >= waited[d] + 1
      BY <1>1, <1>2, <1>3, <2>1, TickIs DEF PeerStays
    <3>2. /\ SState(d)' = SState(d) /\ waited'[d] = waited[d] + 1 /\ waited'["rcopy"] # 0
          /\ waited[d] \in Nat
      BY <1>1, <1>2, <3>1, TickIs
    <3> QED BY <1>1, <1>2, <3>1, <3>2
  <2> QED BY <2>1, PeerStaysNext
<1> QED BY <1>4, <1>5, <1>6 DEF Trying

(* A datagram is lost or damaged: that pays for a try.                     *)
LEMMA FaultKeepsTries ==
  ASSUME Asks, Fault
  PROVE  Trying'
<1>1. /\ queue \in Queues /\ waited \in [Processes -> Nat] /\ namewait \in Nat /\ faults \in Nat
      /\ "rcopy" \in Processes /\ SessionTypeOK /\ PeerStays /\ JustAnswered
      /\ Children \subseteq Processes
  BY TypesAre DEF Asks, Trying
<1>2. /\ rstate' = rstate /\ peer' = peer /\ namewait' = namewait /\ faults' = faults + 1
      /\ waited' = waited /\ \A child \in Children : SState(child)' = SState(child)
  BY Unmoved DEF Fault, client, rvars, setupVars
<1>3. Damped(queue["rcopy"], queue'["rcopy"])
  <2>1. PICK me \in Processes :
          /\ Waiting(me)
          /\ queue' = Consumed(me) \/ queue' = [queue EXCEPT ![me][1].pkt = Damaged]
    BY DEF Fault
  <2> QED BY <1>1, <2>1, DampedQueues
<1>4. TriesCounted'
  BY <1>1, <1>2, CountKept
<1>5. JustAnswered'
  <2>1. ASSUME NEW i \in 1 .. Len(queue'["rcopy"])
        PROVE  \E d \in Children : /\ queue'["rcopy"][i].src = d
                                  /\ SState(d)' = "S_FILE_BEGIN" /\ waited'[d] = 0
    <3>1. PICK j \in 1 .. Len(queue["rcopy"]) : queue'["rcopy"][i].src = queue["rcopy"][j].src
      BY <1>3 DEF Damped
    <3>2. PICK d \in Children :
            queue["rcopy"][j].src = d /\ SState(d) = "S_FILE_BEGIN" /\ waited[d] = 0
      BY <1>1 DEF JustAnswered
    <3> QED BY <1>2, <3>1, <3>2
  <2> QED BY <2>1, JustAnsweredNext
<1>6. PeerStays'
  <2>1. ASSUME NEW d \in Children, peer' = d
        PROVE  /\ SState(d)' \in SetupStates
               /\ SState(d)' = "S_FILE_BEGIN" =>
                    faults' >= waited'[d] + (IF WaitsInVain' /\ waited'["rcopy"] = 0 THEN 1 ELSE 0)
    <3>1. /\ SState(d) \in SetupStates
          /\ SState(d) = "S_FILE_BEGIN" =>
               faults >= waited[d] + (IF WaitsInVain /\ waited["rcopy"] = 0 THEN 1 ELSE 0)
      BY <1>1, <1>2, <2>1 DEF PeerStays
    <3>2. SState(d)' = SState(d) /\ waited[d] \in Nat
      BY <1>1, <1>2
    <3> QED BY <1>1, <1>2, <3>1, <3>2
  <2> QED BY <2>1, PeerStaysNext
<1> QED BY <1>4, <1>5, <1>6 DEF Trying

LEMMA NothingKeepsTries ==
  ASSUME Asks, UNCHANGED sessionVars
  PROVE  Trying'
<1>1. /\ namewait \in Nat /\ faults \in Nat /\ PeerStays /\ JustAnswered
  BY TypesAre DEF Asks, Trying
<1>2. /\ rstate' = rstate /\ peer' = peer /\ namewait' = namewait /\ faults' = faults /\ rseq' = rseq
      /\ waited' = waited /\ queue' = queue /\ \A child \in Children : SState(child)' = SState(child)
  BY Unmoved DEF sessionVars, client, rvars, setupVars, environment
<1>3. WaitsInVain' <=> WaitsInVain
  <2>1. \A child \in Children : Asking(child)' <=> Asking(child)
    BY <1>2 DEF Asking
  <2> QED BY <1>2, <2>1 DEF WaitsInVain, Answerable, Coming, Waiting, Arrived, NameAcked
<1>4. TriesCounted'
  BY <1>1, <1>2, <1>3, CountKept
<1>5. JustAnswered'
  BY <1>1, <1>2, JustAnsweredNext DEF JustAnswered
<1>6. PeerStays'
  BY <1>1, <1>2, <1>3, PeerStaysNext DEF PeerStays
<1> QED BY <1>4, <1>5, <1>6 DEF Trying

-----------------------------------------------------------------------------
(* The step, whole.                                                        *)
LEMMA RcopyKeepsNaming ==
  ASSUME SessionIInv, OneFile, delays = 0, kills = 0, fopens, Naming, RcopyStep
  PROVE  Naming'
<1>1. /\ SessionTypeOK /\ UNCHANGED <<child1, child2, environment>>
      /\ waited' = [waited EXCEPT !["rcopy"] = 0]
      /\ serving' = serving /\ faults' = faults
      /\ rstate \notin NameStates => rstate' \notin NameStates
  BY RcopyStepIs DEF SessionIInv, environment, RcopyThinksOf, RcopySendsTo, RcopyReadsFrom,
     RcopyLosesPatience, BeyondName, NameStates
<1>2. serving' /\ \A child \in Children : SState(child)' # "S_SEND_NAME_ERR_ACK"
  BY <1>1, Unmoved DEF Naming
<1>3. namewait \in Nat /\ faults \in Nat /\ ClientWait \subseteq Nat
  BY <1>1, TypesAre
<1>4. CASE rstate \in NameStates
  <2>1. rseq = 0
    BY <1>4 DEF OneFile, Transferral, SettingUp, NameStates, ClientUnstarted
  <2>2. (AsksAgain \/ SendsName \/ HearsAnswer \/ HearsNothing) /\ rseq' = rseq /\ lfp' = lfp
    BY <1>1, <1>4, <2>1, AskIs
  <2>3. rstate' \in NameStates \cup {"S_OPEN_FILE"} \/ RcopyLeft'
    BY <2>2 DEF AsksAgain, SendsName, HearsAnswer, HearsNothing, NameStates, RcopyLeft
  <2>4. ASSUME faults < 10 PROVE Asks
    BY <1>4, <2>4, AsksIs
  <2>5. ASSUME faults < 10, rstate' \in NameStates PROVE Trying'
    BY <1>1, <2>2, <2>4, <2>5, AskKeepsTries
  <2>6. EveryTryWasLost'
    <3>1. ASSUME RcopyLeft', faults < 10
          PROVE  \E num_wait \in ClientWait :
                   num_wait =< namewait' /\ faults' + delays >= namewait' - num_wait + 1
      <4>1. rstate = "S_TIMEOUT_ON_ACK" /\ namewait' = namewait
        BY <2>2, <3>1 DEF AsksAgain, SendsName, HearsAnswer, HearsNothing, RcopyLeft
      <4>2. TriesCounted
        BY <2>4, <3>1 DEF Asks, Trying
      <4>3. PICK num_wait \in ClientWait :
              num_wait =< namewait /\ faults >= namewait - num_wait + 1
        BY <4>1, <4>2 DEF TriesCounted
      <4>4. num_wait \in Nat
        BY <1>3
      <4> QED BY <1>1, <1>3, <4>1, <4>3, <4>4
    <3>2. delays' = delays /\ (faults < 10 \/ faults' + delays >= 10)
      BY <1>1, <1>3 DEF environment
    <3> QED BY <3>1, <3>2 DEF EveryTryWasLost, C1!MAX_RECV_WAIT_TIME_S
  <2>7. Opened'
    BY <2>3 DEF Opened
  <2> QED BY <1>1, <1>2, <2>5, <2>6, <2>7 DEF Naming, Trying, C1!MAX_RECV_WAIT_TIME_S
<1>5. CASE rstate \notin NameStates
  <2>1. lfp' # "unset"
    BY <1>5, FileIsOpened DEF Naming
  <2> QED BY <1>1, <1>2, <1>5, <2>1 DEF Naming, Opened, EveryTryWasLost
<1> QED BY <1>4, <1>5

(* All the others leave rcopy's variables alone.                           *)
LEMMA OthersKeepNaming ==
  ASSUME SessionIInv, OneFile, delays = 0, kills = 0, fopens, Naming,
         UNCHANGED client, serving' = serving, faults' \in Nat, faults' >= faults, delays' \in Nat,
         \A child \in Children : SState(child)' # "S_SEND_NAME_ERR_ACK",
         Asks => Trying'
  PROVE  Naming'
<1>1. faults \in Nat /\ namewait \in Nat /\ ClientWait \subseteq Nat
  BY TypesAre DEF SessionIInv
<1>2. /\ rstate' = rstate /\ lfp' = lfp /\ namewait' = namewait /\ (RcopyLeft' <=> RcopyLeft)
  BY DEF client, rvars, setupVars, RcopyLeft
<1>3. Opened'
  BY <1>2 DEF Naming, Opened
<1>4. EveryTryWasLost'
  <2>1. SUFFICES ASSUME RcopyLeft, lfp = "unset"
                 PROVE  \/ faults' + delays' >= 10
                        \/ \E num_wait \in ClientWait :
                             num_wait =< namewait /\ faults' + delays' >= namewait - num_wait + 1
    BY <1>2 DEF EveryTryWasLost, C1!MAX_RECV_WAIT_TIME_S
  <2>2. \/ faults >= 10
        \/ \E num_wait \in ClientWait : num_wait =< namewait /\ faults >= namewait - num_wait + 1
    BY <1>1, <2>1 DEF Naming, EveryTryWasLost, C1!MAX_RECV_WAIT_TIME_S
  <2> DEFINE lost == faults' + delays'
  <2>3. lost \in Nat /\ lost >= faults
    <3>1. \A m, n, k \in Nat : n >= k => n + m \in Nat /\ n + m >= k
      OBVIOUS
    <3> QED BY <1>1, <3>1
  <2> HIDE DEF lost
  <2>4. CASE faults >= 10
    <3>1. lost >= 10
      BY <1>1, <2>4, <2>3
    <3> QED BY <3>1 DEF lost
  <2>5. ASSUME NEW num_wait \in ClientWait,
               num_wait =< namewait, faults >= namewait - num_wait + 1
        PROVE  faults' + delays' >= namewait - num_wait + 1
    <3>1. num_wait \in Nat
      BY <1>1
    <3>2. lost >= namewait - num_wait + 1
      BY <1>1, <2>5, <2>3, <3>1
    <3> QED BY <3>2 DEF lost
  <2> QED BY <2>2, <2>4, <2>5
<1>5. ASSUME rstate' \in NameStates, faults' < 10 PROVE Trying'
  <2>1. rstate \in NameStates /\ faults < 10
    BY <1>1, <1>2, <1>5
  <2> QED BY <2>1, AsksIs
<1> QED BY <1>3, <1>4, <1>5 DEF Naming, Trying, C1!MAX_RECV_WAIT_TIME_S

LEMMA NamingStep ==
  ASSUME SessionIInv, OneFile, delays = 0, kills = 0, fopens, Naming, [SessionNext]_sessionVars,
         delays' = 0, kills' = 0
  PROVE  Naming'
<1>1. SessionTypeOK /\ faults \in Nat
  BY TypesAre DEF SessionIInv
<1>2. \A child \in Children : SState(child) # "S_SEND_NAME_ERR_ACK"
  BY DEF Naming
<1>3. CASE RcopyStep
  BY <1>3, RcopyKeepsNaming
<1>4. CASE Child1Step
  <2>1. ChildDoes("child1") /\ "child1" \in Children /\ Other("child1") = "child2"
    BY <1>1, <1>4, Child1StepIs, ProcessesAre DEF Other
  <2>2. \A child \in Children : SState(child)' # "S_SEND_NAME_ERR_ACK"
    BY <1>2, <1>4, <2>1, Child1NoRefusal DEF ChildDoes, Children
  <2>3. ASSUME Asks PROVE Trying'
    <3>1. NameTurn("child1")
      BY <1>2, <1>4, <2>1, <2>3, Child1NameTurn DEF Asks, OneRequest
    <3> QED BY <2>1, <2>3, <3>1, TurnKeepsTries DEF ChildDoes
  <2> QED BY <1>1, <2>1, <2>2, <2>3, OthersKeepNaming DEF ChildDoes, environment
<1>5. CASE Child2Step
  <2>1. ChildDoes("child2") /\ "child2" \in Children /\ Other("child2") = "child1"
    BY <1>1, <1>5, Child2StepIs, ProcessesAre DEF Other
  <2>2. \A child \in Children : SState(child)' # "S_SEND_NAME_ERR_ACK"
    BY <1>2, <1>5, <2>1, Child2NoRefusal DEF ChildDoes, Children
  <2>3. ASSUME Asks PROVE Trying'
    <3>1. NameTurn("child2")
      BY <1>2, <1>5, <2>1, <2>3, Child2NameTurn DEF Asks, OneRequest
    <3> QED BY <2>1, <2>3, <3>1, TurnKeepsTries DEF ChildDoes
  <2> QED BY <1>1, <2>1, <2>2, <2>3, OthersKeepNaming DEF ChildDoes, environment
<1>6. CASE Dispatch
  <2>1. UNCHANGED <<client, environment>>
    BY <1>6 DEF Dispatch
  <2>2. \A child \in Children : SState(child)' # "S_SEND_NAME_ERR_ACK"
    <3>1. \A c, child \in Children : child = c \/ child = Other(c)
      BY DEF Children, Other
    <3> QED BY <1>1, <1>2, <1>6, <3>1, DispatchIs
  <2> QED BY <1>1, <1>6, <2>1, <2>2, DispatchKeepsTries, OthersKeepNaming DEF environment
<1>7. CASE Tick \/ UNCHANGED sessionVars
  <2>1. UNCHANGED <<child1, child2, client, environment>>
    BY <1>7 DEF Tick, sessionVars
  <2>2. \A child \in Children : SState(child)' # "S_SEND_NAME_ERR_ACK"
    BY <1>2, <2>1, Unmoved
  <2> QED BY <1>1, <1>7, <2>1, <2>2, TickKeepsTries, NothingKeepsTries, OthersKeepNaming DEF environment
<1>8. CASE Fault
  <2>1. UNCHANGED <<child1, child2, client, serving>> /\ faults' = faults + 1
    BY <1>8 DEF Fault
  <2>2. \A child \in Children : SState(child)' # "S_SEND_NAME_ERR_ACK"
    BY <1>2, <2>1, Unmoved
  <2> QED BY <1>1, <1>8, <2>1, <2>2, FaultKeepsTries, OthersKeepNaming
<1>9. CASE Delay \/ Arrive \/ Kill
  <2>1. ~Arrive
    BY ArriveIsLate
  <2>2. ~Kill
    BY <1>1, KillIs
  <2>3. ~Delay
    BY DEF Delay
  <2> QED BY <1>9, <2>1, <2>2, <2>3
<1> QED BY <1>3, <1>4, <1>5, <1>6, <1>7, <1>8, <1>9 DEF SessionNext, SessionOver

LEMMA NamingInit == SessionInit => Naming
<1> SUFFICES ASSUME SessionInit PROVE Naming
  OBVIOUS
<1>1. rstate = "S_START" /\ lfp = "unset" /\ serving /\ peer = "dispatcher" /\ faults = 0
  BY DEF SessionInit, RcopyInit
<1>2. \A child \in Children : SState(child) = "NO_PROCESS"
  BY DEF SessionInit, C1!ChildInit, C2!ChildInit, SState
<1>3. SessionTypeOK
  BY InvariantInit DEF SessionIInv
<1>4. /\ "rcopy" \in Processes /\ queue \in Queues /\ namewait \in ClientWait
      /\ namewait \in Nat /\ "dispatcher" \notin Children
  BY <1>3, TypesAre DEF SessionInit, RcopyInit
<1>5. Len(queue["rcopy"]) = 0
  BY <1>4, EmptyIs DEF SessionInit
<1>6. TriesCounted
  BY <1>1, <1>4 DEF TriesCounted, WaitsInVain
<1>7. PeerStays /\ JustAnswered
  BY <1>1, <1>4, <1>5 DEF PeerStays, JustAnswered
<1>8. Opened /\ EveryTryWasLost
  BY <1>1 DEF Opened, EveryTryWasLost, NameStates, RcopyLeft
<1> QED BY <1>1, <1>2, <1>6, <1>7, <1>8 DEF Naming

LEMMA KillsCount ==
  ASSUME SessionIInv, [SessionNext]_sessionVars, kills # 0
  PROVE  kills' # 0
<1>1. kills \in Nat
  BY Parameters DEF SessionIInv, SessionTypeOK
<1>2. kills' = kills \/ kills' = kills + 1
  BY DEF SessionNext, Dispatch, Child1Step, Child2Step, RcopyStep, Tick, Fault, Delay, Arrive, Kill,
     SessionOver, environment, sessionVars
<1> QED BY <1>1, <1>2

-----------------------------------------------------------------------------
(* The theorems.                                                           *)

(* While no datagram has been held back and nobody killed, each try of     *)
(* rcopy that fails has cost a datagram, as long as the server can open    *)
(* the file: what num_wait counts, who waits for whom and for how long.    *)
THEOREM SessionTriesCounted == SessionSpec => []NoTryForNothing
<1>1. SessionInit => NoTryForNothing
  BY NamingInit DEF NoTryForNothing
<1>2. ASSUME SessionIInv, OneFile, NoTryForNothing, [SessionNext]_sessionVars
      PROVE  NoTryForNothing'
  <2>1. fopens' = fopens
    BY <1>2 DEF SessionNext, Dispatch, Child1Step, Child2Step, RcopyStep, Tick, Fault, Delay, Arrive,
       Kill, SessionOver, environment, sessionVars
  <2> QED BY <1>2, <2>1, DelaysCount, KillsCount, NamingStep DEF NoTryForNothing
<1> QED BY <1>1, <1>2, SessionInvariance, SessionOneFile, PTL DEF SessionSpec

(* rcopy closes a file it has not opened only after the losses that the    *)
(* FILE_NAMEs it counted take, as long as no datagram has been held back.  *)
THEOREM SessionEveryTryWasLost == SessionSpec => [](delays = 0 => EveryTryWasLost)
<1>1. NoTryForNothing => (delays = 0 => EveryTryWasLost)
  BY DEF NoTryForNothing, Naming, EveryTryWasLost
<1> QED BY <1>1, SessionTriesCounted, PTL

(* On a network that delivers in order or not at all that holds always.    *)
COROLLARY EveryTryIsLost ==
  ASSUME MaxDelays = 0
  PROVE  SessionSpec => []EveryTryWasLost
<1>1. SessionTypeOK => delays = 0
  BY DEF SessionTypeOK
<1> QED BY <1>1, SessionTypeCorrect, SessionEveryTryWasLost, PTL
=============================================================================
