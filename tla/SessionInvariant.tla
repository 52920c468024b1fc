-------------------------- MODULE SessionInvariant --------------------------
(***************************************************************************)
(* The inductive invariant of Session, in named parts.  It is checked by   *)
(* TLC with the properties it is there for and proved in SessionProofs.    *)
(***************************************************************************)
EXTENDS Session

SState(child) == IF child = "child1" THEN sstate1 ELSE sstate2
Other(child) == IF child = "child1" THEN "child2" ELSE "child1"

-----------------------------------------------------------------------------
(* The values the variables range over.                                    *)
Flags ==
  {"DATA", "RR", "SREJ", "FILE_EOF", "FILE_EOF_ACK", "FILE_NAME", "FILE_NAME_ACK",
   "FILE_NAME_ERR_ACK", "FILE_BEGIN", "FILE_BEGIN_ACK", "CORRUPT"}

AnyPacket == [flag : Flags, seq : Nat, data : Nat]
Envelopes == [src : Processes, pkt : AnyPacket]

SetupStates == {"S_FILE_NAME", "S_SEND_NAME_ACK", "S_SEND_NAME_ERR_ACK", "S_FILE_BEGIN"}

TransferStates ==
  {"S_FILL_WINDOW", "S_SEND_WINDOW", "S_WAIT_ON_RESPONSE", "S_TIMEOUT_ON_RESPONSE",
   "S_ADJUST_WINDOW", "S_FILE_EOF", "S_SEND", "S_WAIT_ON_ACK", "S_TIMEOUT_ON_ACK"}

NameStates == {"S_START", "S_WAIT_ON_ACK", "S_TIMEOUT_ON_ACK"}

ChildTypeOK(state, win, pos, seq, eofwait) ==
  /\ state \in {"NO_PROCESS", "S_FINISH"} \cup SetupStates \cup TransferStates
  /\ win \in WindowType(AnyPacket)
  /\ pos \in Nat /\ seq \in Nat /\ eofwait \in Nat

ClientTypeOK ==
  /\ rstate \in NameStates \cup {"S_OPEN_FILE", "S_FILE_BEGIN", "S_WAIT_ON_BEGIN"} \cup RcopyStates
  /\ rwin \in WindowType(Nat)
  /\ rbuf \in Nat /\ rseq \in Nat
  /\ out \in Seq([data : Nat, len : Nat])
  /\ namewait \in Nat /\ beginwait \in Nat
  /\ lfp \in {"unset", "open", "NULL"}
  /\ peer \in Processes

(* Every variable holds a value of the type its C variable has.            *)
SessionTypeOK ==
  /\ ChildTypeOK(sstate1, swin1, fpos1, sseq1, eofwait1)
  /\ ChildTypeOK(sstate2, swin2, fpos2, sseq2, eofwait2)
  /\ ClientTypeOK
  /\ fopens \in BOOLEAN /\ serving \in BOOLEAN
  /\ queue \in [Processes -> Seq(Envelopes)]
  /\ waited \in [Processes -> Nat]
  /\ faults \in 0 .. MaxFaults /\ delays \in 0 .. MaxDelays /\ kills \in 0 .. MaxKills
  /\ late \subseteq [dst : Processes, src : Processes, pkt : AnyPacket]

-----------------------------------------------------------------------------
(* Why one child alone serves, as long as no datagram is held back.        *)

(* A process that has something to read or, a child, to answer.            *)
Asking(me) == me \in Children /\ SState(me) \in SetupStates \ {"S_FILE_BEGIN"}
Stirs(me) == Waiting(me) \/ Asking(me)

(* A child that file_transfer is out of reach for, unless rcopy asks.      *)
Untouched(child) ==
  /\ SState(child) \in {"NO_PROCESS", "S_FINISH"} \cup SetupStates
  /\ \A i \in 1 .. Len(queue[child]) : queue[child][i].pkt.flag # "FILE_BEGIN"

(* Until rcopy has its FILE_NAME_ACK, its request and the answer are one   *)
(* and the same thing going round: while rcopy waits at most one process   *)
(* has it, and when a second of silence has passed nobody has.             *)
OneRequest ==
  rstate \in NameStates =>
    /\ \A child \in Children : Untouched(child)
    /\ \A me \in Processes :
         /\ Len(queue[me]) =< 1
         /\ Waiting(me) => Listens(me) /\ ~Asking(me)
         /\ Stirs(me) => rstate = "S_WAIT_ON_ACK" /\ waited["rcopy"] = 0
    /\ \A me, you \in Processes : Stirs(me) /\ Stirs(you) => me = you
    /\ peer # "rcopy" /\ \A i \in 1 .. Len(queue["rcopy"]) : queue["rcopy"][i].src \in Children

(* From then on rcopy speaks with its peer alone.  The other child, if it  *)
(* was ever forked, hears nothing more.                                    *)
OnePeer ==
  rstate \notin NameStates /\ ~RcopyLeft =>
    /\ peer \in Children
    /\ SState(Other(peer)) \in {"NO_PROCESS", "S_FILE_BEGIN", "S_FINISH"}
    /\ queue[Other(peer)] = <<>> /\ queue["dispatcher"] = <<>>
    /\ \A i \in 1 .. Len(queue["rcopy"]) : queue["rcopy"][i].src = peer

(* When rcopy is gone, no FILE_BEGIN will ever be sent to that child.      *)
OneForgotten == RcopyLeft => \E child \in Children : Untouched(child)

NothingLate == delays = 0 => late = {}

Conversation == OneRequest /\ OnePeer /\ OneForgotten
OneConversation == delays = 0 => Conversation

SessionIInv ==
  /\ SessionTypeOK
  /\ NothingLate
  /\ OneConversation

-----------------------------------------------------------------------------
(* Why each try of rcopy that fails has cost a datagram, as long as none   *)
(* is held back, no process is killed and the server can open the file.    *)

(* The FILE_NAME or the answer to it is on its way, whole.                 *)
Coming(me, flag) == Waiting(me) /\ Arrived(me).flag = flag

Answerable ==
  \/ Coming("dispatcher", "FILE_NAME")
  \/ \E child \in Children : Coming(child, "FILE_NAME") \/ Asking(child)
  \/ Waiting("rcopy") /\ NameAcked(Arrived("rcopy"))

WaitsInVain == rstate = "S_WAIT_ON_ACK" /\ ~Answerable

(* What num_wait has counted, and the try that has failed already.         *)
TriesCounted ==
  \E num_wait \in ClientWait :
    /\ num_wait =< namewait
    /\ faults >= namewait - num_wait
                   + (IF WaitsInVain \/ rstate = "S_TIMEOUT_ON_ACK" THEN 1 ELSE 0)

(* The child rcopy sends its next FILE_NAME to is still there: it grows    *)
(* impatient by no more than the seconds of the tries that failed.         *)
PeerStays ==
  peer \in Children =>
    /\ SState(peer) \in SetupStates
    /\ SState(peer) = "S_FILE_BEGIN" =>
         faults >= waited[peer] + (IF WaitsInVain /\ waited["rcopy"] = 0 THEN 1 ELSE 0)

(* Who has answered has only just begun to wait.                           *)
JustAnswered ==
  \A i \in 1 .. Len(queue["rcopy"]) :
    LET child == queue["rcopy"][i].src
    IN  child \in Children /\ SState(child) = "S_FILE_BEGIN" /\ waited[child] = 0

(* The local file is opened on a FILE_NAME_ACK.                            *)
Opened == lfp = "unset" => rstate \in NameStates \cup {"S_OPEN_FILE"} \/ RcopyLeft

Naming ==
  /\ serving
  /\ \A child \in Children : SState(child) # "S_SEND_NAME_ERR_ACK"
  /\ Opened
  /\ rstate \in NameStates /\ faults < C1!MAX_RECV_WAIT_TIME_S
       => TriesCounted /\ PeerStays /\ JustAnswered
  /\ EveryTryWasLost

NoTryForNothing == delays = 0 /\ kills = 0 /\ fopens => Naming

-----------------------------------------------------------------------------
(* Why the file is copied, as long as no datagram is held back.  What      *)
(* rcopy and its peer do is a transfer of Transfer, in which the one that  *)
(* is still setting up has not begun, and the packets of the transfer that *)
(* are in some queue are all there is on the network.                      *)
TransferFlags == {"DATA", "RR", "SREJ", "FILE_EOF", "FILE_EOF_ACK"}

InQueues == UNION {{queue[me][i].pkt : i \in 1 .. Len(queue[me])} : me \in Processes}
Underway == {p \in InQueues : p.flag \in TransferFlags}

NotBegun(state) == state \in {"NO_PROCESS"} \cup SetupStates

PeerState == IF NotBegun(SState(peer)) THEN "S_FILL_WINDOW" ELSE SState(peer)
PeerWin == IF peer = "child1" THEN swin1 ELSE swin2
PeerPos == IF peer = "child1" THEN fpos1 ELSE fpos2
PeerSeq == IF peer = "child1" THEN sseq1 ELSE sseq2
PeerEofWait == IF peer = "child1" THEN eofwait1 ELSE eofwait2

ClientState == IF SettingUp THEN "S_WAIT_ON_DATA" ELSE rstate

T == INSTANCE TransferInvariant WITH
       sstate <- PeerState, swin <- PeerWin, fpos <- PeerPos, sseq <- PeerSeq,
       eofwait <- PeerEofWait, rstate <- ClientState, net <- Underway, Leftovers <- {}

(* The part of rcopy and of a child that is as it was in the beginning.    *)
ClientUnstarted ==
  rwin = [window_alloc(0, 0, 0, 0) EXCEPT !.rr = 1] /\ rbuf = 0 /\ rseq = 0 /\ out = <<>>

Unstarted(win, pos, seq, eofwait) == win = C1!NoWindow /\ pos = 0 /\ seq = 0 /\ eofwait = 0

NothingBegun ==
  rstate \in NameStates =>
    /\ Unstarted(swin1, fpos1, sseq1, eofwait1)
    /\ Unstarted(swin2, fpos2, sseq2, eofwait2)
    /\ Underway = {}

OneTransfer ==
  rstate \notin NameStates /\ ~RcopyLeft =>
    /\ T!IInv
    /\ NotBegun(SState(peer)) => PeerPos = 0 /\ PeerSeq = 0
    /\ ~Asking(peer)
    /\ \A i \in 1 .. Len(queue[peer]) : queue[peer][i].pkt.flag # "FILE_NAME"

Transferral ==
  /\ SettingUp => ClientUnstarted
  /\ NothingBegun
  /\ OneTransfer
  /\ CompleteFilesAgree

OneFile == delays = 0 => Transferral
=============================================================================
