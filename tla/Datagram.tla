------------------------------ MODULE Datagram ------------------------------
(***************************************************************************)
(* The datagrams of libsrj.c word by word: one program builds a packet in  *)
(* its pkt and sends it, perhaps more than once; the network may damage a  *)
(* word of it; the other program receives it into its own pkt and believes *)
(* it if the checksum is good.  Both pkts are used again and again, and    *)
(* memory that is not written keeps what it held.                          *)
(*                                                                         *)
(* A pkt has room for one block of the size rcopy asks for, but main's has *)
(* MAX_BUFF_SIZE.  DATA fits; nothing sees to it that a FILE_NAME does:    *)
(* rcopy writes it over the end of a pkt that is too small for it, and     *)
(* recv_pkt reads no more of it than the receiver has room for.            *)
(*                                                                         *)
(* The unit is the word in_cksum adds, of 16 bits there and of WordValues  *)
(* values here.  The header is two words of sequence number, high word     *)
(* first, one of checksum, and one that holds the flag and the byte the C  *)
(* compiler pads struct hdr with: HDR_LEN is sizeof(hdr).                  *)
(***************************************************************************)
EXTENDS Integers, Sequences

CONSTANTS
  WordValues, \* values of a word
  MAX_BUFF_SIZE, \* words of payload the pkt of main has room for
  Extent,     \* words of memory after a header that the model shows
  Seqs,       \* sequence numbers packets are created with
  Payloads,   \* payloads of DATA packets; <<>> is that of a bare header
  InitArgs,   \* what rcopy may ask for: [buffsize, window_size, name]
  Memories,   \* what memory may hold that is not, or no longer, written
  MaxSends    \* datagrams sent, at most

Ones == WordValues - 1
Words == 0 .. Ones
LongWords == 0 .. WordValues * WordValues - 1     \* uint32_t: two words

HDR_LEN == 4
HDR_SEQ_OFFSET == 1
HDR_CHECKSUM_OFFSET == 3
HDR_FLAG_OFFSET == 4
DATA_BUFF_SIZE_OFF == 1
DATA_WINDOW_SIZE_OFF == 3
DATA_FILENAME_OFF == 5

DATA == 1
FILE_NAME == 2

(* A name ends with the first 0.                                           *)
ASSUME DatagramAssumption ==
  /\ WordValues \in Nat /\ WordValues > FILE_NAME
  /\ Extent \in Nat /\ MAX_BUFF_SIZE \in 0 .. Extent
  /\ Seqs \subseteq LongWords
  /\ \A data \in Payloads : data \in Seq(Words) /\ Len(data) =< Extent
  /\ InitArgs \subseteq [buffsize : LongWords, window_size : LongWords, name : Seq(Words \ {0})]
  /\ \A a \in InitArgs : a.buffsize =< Extent /\ Len(a.name) + DATA_FILENAME_OFF =< Extent
  /\ Memories \subseteq [1 .. HDR_LEN + Extent -> Words]
  /\ MaxSends \in Nat

VARIABLES
  spkt,      \* the sender's pkt: datagram, datagram_len, Hdr, and what it has room for
  rpkt,      \* the receiver's pkt
  receiver,  \* who receives: main, the child, or rcopy
  given,     \* what the sender's pkt was last created from
  wire,      \* the datagram on its way, <<>> when there is none
  damage,    \* what has happened to the datagram sent last
  received,  \* what recv_pkt last said of it
  sends      \* datagrams sent so far

datagramVars == <<spkt, rpkt, receiver, given, wire, damage, received, sends>>

-----------------------------------------------------------------------------
(* htonl and ntohl *)
HighLow(long) == <<long \div WordValues, long % WordValues>>

Long(high, low) == high * WordValues + low

(* What in_cksum has added after each of the first len words of d.         *)
Sums(d, len) ==
  LET sum[i \in 0 .. len] == IF i = 0 THEN 0 ELSE sum[i - 1] + d[i]
  IN  sum

(* The carries added in again: the ones' complement number sum stands for. *)
Carried(sum) == IF sum = 0 THEN 0 ELSE ((sum - 1) % Ones) + 1

(* The Internet checksum of the first len words of d.                      *)
in_cksum(d, len) == Ones - Carried(Sums(d, len)[len])

(* s_memcpy(d + offset, words): offset is the place of the first word.     *)
Overwrite(d, offset, words) ==
  [i \in DOMAIN d |-> IF i \in offset .. offset + Len(words) - 1
                      THEN words[i - offset + 1] ELSE d[i]]

Clear(d, len) == [i \in DOMAIN d |-> IF i =< len THEN 0 ELSE d[i]]

(* Mutant: the sum is taken before the flag is there. *)
create_hdr_early(d, len, seq, flag) ==
  LET h == Overwrite(Clear(d, HDR_LEN), HDR_SEQ_OFFSET, HighLow(seq))
      c == Overwrite(h, HDR_CHECKSUM_OFFSET, <<in_cksum(h, len)>>)
  IN  Overwrite(c, HDR_FLAG_OFFSET, <<flag>>)

create_hdr(d, len, seq, flag) ==
  LET h == Overwrite(Overwrite(Clear(d, HDR_LEN), HDR_SEQ_OFFSET, HighLow(seq)),
                     HDR_FLAG_OFFSET, <<flag>>)
  IN  Overwrite(h, HDR_CHECKSUM_OFFSET, <<in_cksum(h, len)>>)

(* Mutant: the sequence number is left in network order. *)
get_hdr_raw(d) ==
  [seq  |-> Long(d[HDR_SEQ_OFFSET + 1], d[HDR_SEQ_OFFSET]),
   flag |-> d[HDR_FLAG_OFFSET]]

get_hdr(d) ==
  [seq  |-> Long(d[HDR_SEQ_OFFSET], d[HDR_SEQ_OFFSET + 1]),
   flag |-> d[HDR_FLAG_OFFSET]]

create_pkt(pkt, flag, seq, data) ==
  LET len == HDR_LEN + Len(data)
      d   == create_hdr(Overwrite(Clear(pkt.datagram, len), HDR_LEN + 1, data), len, seq, flag)
  IN  [pkt EXCEPT !.datagram = d, !.datagram_len = len, !.Hdr = get_hdr(d)]

pkt_checksum(pkt) == in_cksum(pkt.datagram, pkt.datagram_len)

(* The payload, which starts at Pkt->data.                                 *)
Payload(pkt) == SubSeq(pkt.datagram, HDR_LEN + 1, pkt.datagram_len)

-----------------------------------------------------------------------------
(* create_init_pkt of rcopy.c and what process_init_syn of server.c reads. *)
InitPayload(a) == HighLow(a.buffsize) \o HighLow(a.window_size) \o a.name \o <<0>>

LongAt(pkt, offset) == Long(pkt.datagram[HDR_LEN + offset], pkt.datagram[HDR_LEN + offset + 1])

get_buffsize(pkt) == LongAt(pkt, DATA_BUFF_SIZE_OFF)

(* Mutant: the window is read where the block size is. *)
get_window_size_at_0(pkt) == LongAt(pkt, DATA_BUFF_SIZE_OFF)

get_window_size(pkt) == LongAt(pkt, DATA_WINDOW_SIZE_OFF)

(* strlen stops at the first 0, wherever the datagram ends.                *)
get_filename(pkt) ==
  LET first == HDR_LEN + DATA_FILENAME_OFF
      end   == CHOOSE i \in first .. Len(pkt.datagram) :
                 /\ pkt.datagram[i] = 0
                 /\ \A j \in first .. i - 1 : pkt.datagram[j] # 0
  IN  SubSeq(pkt.datagram, first, end - 1)

process_init_syn(pkt) ==
  [buffsize    |-> get_buffsize(pkt),
   window_size |-> get_window_size(pkt),
   name        |-> get_filename(pkt)]

-----------------------------------------------------------------------------
(* pkt_alloc: the datagram is what malloc returned.                        *)
Allocated(buffsize) ==
  {[datagram |-> memory, datagram_len |-> 0, Hdr |-> [seq |-> 0, flag |-> 0], room |-> buffsize] :
     memory \in Memories}

NotGiven == [flag |-> 0, seq |-> 0, data |-> <<>>]

(* rcopy and its child allocate for the block size of the request.         *)
DatagramInit ==
  /\ receiver \in {"main", "child", "rcopy"}
  /\ \E a \in InitArgs :
       /\ spkt \in Allocated(a.buffsize)
       /\ rpkt \in Allocated(IF receiver = "main" THEN MAX_BUFF_SIZE ELSE a.buffsize)
  /\ given = NotGiven
  /\ wire = <<>>
  /\ damage = "none"
  /\ received = "nothing"
  /\ sends = 0

(* A block at most, from the child; from rcopy to its child, a header.     *)
Create ==
  /\ wire = <<>> /\ sends < MaxSends
  /\ receiver # "main"
  /\ \E seq \in Seqs, data \in Payloads :
       /\ Len(data) =< spkt.room
       /\ receiver = "child" => data = <<>>
       /\ given' = [flag |-> DATA, seq |-> seq, data |-> data]
       /\ spkt' = create_pkt(spkt, DATA, seq, data)
  /\ received' = "nothing"
  /\ UNCHANGED <<rpkt, receiver, wire, damage, sends>>

(* The memory after the room of pkt is not its own: memory is what others  *)
(* put there.                                                              *)
TailLost(pkt, memory) ==
  [pkt EXCEPT !.datagram =
     [i \in DOMAIN @ |-> IF i =< HDR_LEN + pkt.room THEN @[i] ELSE memory[i]]]

(* create_pkt over the end of pkt: data may lie behind it, so that memset  *)
(* clears the first k words before they are copied, and what is past the   *)
(* end may be lost again before it is sent.                                *)
Overrun(pkt, data) ==
  LET made == {create_pkt(pkt, FILE_NAME, 0, Clear(data, k)) : k \in 0 .. Len(data)}
  IN  made \cup {TailLost(p, memory) : p \in made, memory \in Memories}

(* send_init_pkt allocates a pkt of one block for every FILE_NAME.  After  *)
(* an overrun the program may also abort, and then nothing is sent.        *)
CreateRequest ==
  /\ wire = <<>> /\ sends < MaxSends
  /\ receiver # "rcopy"
  /\ \E a \in InitArgs, pkt \in Allocated(spkt.room) :
       /\ a.buffsize = spkt.room
       /\ given' = [flag |-> FILE_NAME, seq |-> 0, data |-> InitPayload(a)]
       /\ spkt' \in IF Len(InitPayload(a)) =< spkt.room
                    THEN {create_pkt(pkt, FILE_NAME, 0, InitPayload(a))}
                    ELSE Overrun(pkt, InitPayload(a))
  /\ received' = "nothing"
  /\ UNCHANGED <<rpkt, receiver, wire, damage, sends>>

(* send_pkt: a frame is sent again from the datagram it was created in.    *)
Send ==
  /\ wire = <<>> /\ given # NotGiven /\ sends < MaxSends
  /\ wire' = SubSeq(spkt.datagram, 1, spkt.datagram_len)
  /\ damage' = "none"
  /\ received' = "nothing"
  /\ sends' = sends + 1
  /\ UNCHANGED <<spkt, rpkt, receiver, given>>

(* One word arrives as another.  All zeros and all ones are the same       *)
(* number in ones' complement: no sum can tell them apart.                 *)
Damage ==
  /\ damage = "none"
  /\ \E i \in DOMAIN wire, word \in Words :
       /\ word # wire[i]
       /\ wire' = [wire EXCEPT ![i] = word]
       /\ damage' = IF {word, wire[i]} = {0, Ones} THEN "zeros for ones" ELSE "word"
  /\ UNCHANGED <<spkt, rpkt, receiver, given, received, sends>>

(* Mutant: the limit of recvfrom forgets the header. *)
BuffsizeAlone == rpkt.room

(* The most recvfrom is let read: every caller of recv_pkt gives it the    *)
(* size its pkt was allocated with.                                        *)
Limit == rpkt.room + HDR_LEN

Arrived == SubSeq(wire, 1, IF Len(wire) =< Limit THEN Len(wire) ELSE Limit)

(* recv_pkt: the bytes are in the buffer before anything is known of them, *)
(* and Hdr is left as it was when the checksum is bad.                     *)
Recv ==
  /\ wire # <<>>
  /\ LET pkt == [rpkt EXCEPT !.datagram = Overwrite(@, 1, Arrived), !.datagram_len = Len(Arrived)]
     IN  IF pkt_checksum(pkt) = 0
         THEN rpkt' = [pkt EXCEPT !.Hdr = get_hdr(pkt.datagram)] /\ received' = "good"
         ELSE rpkt' = pkt /\ received' = "bad"
  /\ wire' = <<>>
  /\ UNCHANGED <<spkt, receiver, given, damage, sends>>

DatagramNext == Create \/ CreateRequest \/ Send \/ Damage \/ Recv

DatagramSpec == DatagramInit /\ [][DatagramNext]_datagramVars

-----------------------------------------------------------------------------
(* create_pkt had room for what it was given, and recv_pkt for all of it.  *)
Fits == Len(given.data) =< spkt.room
Whole == Len(given.data) =< rpkt.room

(* What recv_pkt believes is what create_pkt was given, header and         *)
(* payload, whatever the two buffers held before and however often the     *)
(* datagram is sent: no damage to one word passes the checksum, but all    *)
(* zeros for all ones.  Of a FILE_NAME it reads only the beginning of, it  *)
(* may believe that much.  Nothing is said of a FILE_NAME that was written *)
(* over the end of rcopy's pkt, or of one that is both damaged and cut.    *)
GoodIsAsCreated ==
  received = "good" /\ damage # "zeros for ones" /\ Fits /\ (damage = "word" => Whole) =>
    /\ rpkt.Hdr.flag = given.flag /\ rpkt.Hdr.seq = given.seq
    /\ Payload(rpkt) = IF Whole THEN given.data ELSE SubSeq(given.data, 1, rpkt.room)

(* recv_pkt refuses a datagram that arrives as it was sent only when it is *)
(* a FILE_NAME longer than rcopy's pkt or its own: it never refuses DATA   *)
(* or an answer, and a request that fits is never repeated in vain.        *)
WholeIsGood ==
  received = "bad" /\ damage = "none" => given.flag = FILE_NAME /\ ~(Fits /\ Whole)

(* The child transfers the file rcopy asked for, in blocks of the size and *)
(* with the window that rcopy uses, if the request fits the block size it  *)
(* asks for and the pkt that takes it.                                     *)
RequestArrives ==
  received = "good" /\ damage # "zeros for ones" /\ rpkt.Hdr.flag = FILE_NAME /\ Fits /\ Whole =>
    \E a \in InitArgs : process_init_syn(rpkt) = a /\ given.data = InitPayload(a)
=============================================================================
