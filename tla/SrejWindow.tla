----------------------------- MODULE SrejWindow -----------------------------
(***************************************************************************)
(* The sliding window of libsrj.c, shared by both programs: a ring of      *)
(* WindowSize frames addressed by sequence number modulo the size, and the *)
(* counters that say which sequence numbers it currently covers.           *)
(*                                                                         *)
(* A window is a record with the fields of the C struct: bottom, top, rr,  *)
(* srej, eof, num_wait, top_sent and Frame.  A frame is [state, pkt]; what *)
(* pkt holds differs in the two programs and is left to them.              *)
(***************************************************************************)
EXTENDS Integers, FiniteSets

CONSTANT WindowSize     \* Conn->window_size, from rcopy's command line

ASSUME WindowSizeAssumption == WindowSize \in Nat \ {0}

FrameState == {"FRAME_EMPTY", "FRAME_FULL", "FRAME_SENT", "FRAME_WRITTEN"}

Slots == 0 .. WindowSize - 1

(* The windows whose frames hold values of Pkt.                            *)
WindowType(Pkt) ==
  [bottom : Nat, top : Nat, rr : Nat, srej : Nat, eof : BOOLEAN,
   num_wait : Nat, top_sent : Nat,
   Frame : [Slots -> [state : FrameState, pkt : Pkt]]]

get_frame_num(seq) == seq % WindowSize

WindowSeqs(w) == w.bottom .. w.top

within_window(w, seq) == seq \in WindowSeqs(w)

(* The sequence numbers of the window whose frame is in state st: what     *)
(* empty_frame, full_frame and sent_frame answer, over the whole window.   *)
SeqsIn(w, st) == {seq \in WindowSeqs(w) : w.Frame[get_frame_num(seq)].state = st}

(* The frames of the sequence numbers seqs put in state st.                *)
SetFrames(w, seqs, st) ==
  [w EXCEPT !.Frame =
     [i \in Slots |-> IF \E seq \in seqs : get_frame_num(seq) = i
                      THEN [state |-> st, pkt |-> w.Frame[i].pkt]
                      ELSE w.Frame[i]]]

(* The window of a connection whose sequence number is seq.  num_wait and  *)
(* top_sent are not assigned by window_alloc: the caller says what the     *)
(* allocated memory happened to hold.                                      *)
window_alloc(seq, pkt, num_wait, top_sent) ==
  [bottom   |-> seq + 1,
   top      |-> seq + WindowSize,
   rr       |-> seq + 1,
   srej     |-> seq + 1,
   eof      |-> FALSE,
   num_wait |-> num_wait,
   top_sent |-> top_sent,
   Frame    |-> [i \in Slots |-> [state |-> "FRAME_EMPTY", pkt |-> pkt]]]

(* The first sequence number not covered by an acknowledgement, taking a   *)
(* SREJ of seq as an acknowledgement of everything before seq.             *)
Acked(w) == IF w.rr > w.srej THEN w.rr ELSE w.srej

CanSlide(w) == w.rr > w.bottom \/ w.srej > w.bottom

(* Mutant: the window covers one number too many. *)
SlideWide(w) ==
  [SetFrames(w, w.bottom .. Acked(w) - 1, "FRAME_EMPTY")
     EXCEPT !.bottom = Acked(w), !.top = Acked(w) + WindowSize]

(* The sliding half of adjust_window, the same in server.c and rcopy.c.    *)
Slide(w) ==
  [SetFrames(w, w.bottom .. Acked(w) - 1, "FRAME_EMPTY")
     EXCEPT !.bottom = Acked(w), !.top = Acked(w) + WindowSize - 1]

(* The place of seq in S in increasing order, as a for loop visits it.     *)
Rank(S, seq) == Cardinality({s \in S : s =< seq})

(* The numbers of S in increasing order.                                   *)
Ascending(S) ==
  CHOOSE s \in [1 .. Cardinality(S) -> S] :
    \A i, j \in 1 .. Cardinality(S) : i < j => s[i] < s[j]
=============================================================================
