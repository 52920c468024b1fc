-------------------------- MODULE SrejWindowProofs --------------------------
(***************************************************************************)
(* What the operators of SrejWindow do, for every window size: the ring    *)
(* gives the sequence numbers of one window different frames, and setting  *)
(* frames and sliding touch the frames they should and no other.           *)
(***************************************************************************)
EXTENDS SrejWindow, TLAPS, FiniteSetTheorems, WellFoundedInduction

-----------------------------------------------------------------------------
(* Remainders by the window size.                                          *)

(* A frame number is an index of the ring.                                 *)
LEMMA SlotType == ASSUME NEW seq \in Nat PROVE get_frame_num(seq) \in Slots
BY WindowSizeAssumption DEF get_frame_num, Slots

(* Quotient and remainder by the window size.                              *)
LEMMA Division ==
  ASSUME NEW a \in Nat
  PROVE  /\ a = WindowSize * (a \div WindowSize) + (a % WindowSize)
         /\ a \div WindowSize \in Nat
         /\ a % WindowSize \in 0 .. WindowSize - 1
BY WindowSizeAssumption

(* A positive multiple of the window size is at least the window size.     *)
LEMMA Multiple == ASSUME NEW x \in Int, x >= 1 PROVE WindowSize * x >= WindowSize
BY WindowSizeAssumption

(* Numbers less than a window size apart and with the same remainder have  *)
(* the same quotient.                                                      *)
LEMMA CloseQuotients ==
  ASSUME NEW q \in Nat, NEW p \in Nat, NEW d \in 0 .. WindowSize - 1,
         WindowSize * p = WindowSize * q + d
  PROVE  d = 0 /\ p = q
<1>1. WindowSize * p - WindowSize * q = WindowSize * (p - q)
  BY WindowSizeAssumption
<1>2. WindowSize * q - WindowSize * p = WindowSize * (q - p)
  BY WindowSizeAssumption
<1> DEFINE y == WindowSize * q
           z == WindowSize * p
<1>3. y \in Int /\ z \in Int /\ z = y + d
  BY WindowSizeAssumption
<1>4. CASE p > q
  <2>1. z - y >= WindowSize
    BY <1>1, <1>4, Multiple
  <2> HIDE DEF y, z
  <2> QED BY <1>3, <2>1, WindowSizeAssumption
<1>5. CASE q > p
  <2>1. y - z >= WindowSize
    BY <1>2, <1>5, Multiple
  <2> HIDE DEF y, z
  <2> QED BY <1>3, <2>1, WindowSizeAssumption
<1>6. CASE p = q
  <2>1. y = z
    BY <1>6
  <2> HIDE DEF y, z
  <2> QED BY <1>3, <2>1, <1>6, WindowSizeAssumption
<1> QED BY <1>4, <1>5, <1>6

(* Two sequence numbers of one window never share a frame.                 *)
LEMMA SlotInjective ==
  ASSUME NEW a \in Nat, NEW b \in Nat, a =< b, b < a + WindowSize,
         get_frame_num(a) = get_frame_num(b)
  PROVE  a = b
<1> DEFINE q == a \div WindowSize
           p == b \div WindowSize
           r == a % WindowSize
<1>1. a = WindowSize * q + r /\ b = WindowSize * p + r
  BY Division DEF get_frame_num
<1>2. q \in Nat /\ p \in Nat /\ r \in Nat
  BY Division
<1>3. b - a \in 0 .. WindowSize - 1
  BY WindowSizeAssumption
<1>4. WindowSize * p = WindowSize * q + (b - a)
  <2> DEFINE y == WindowSize * q
             z == WindowSize * p
  <2>1. y \in Int /\ z \in Int
    BY <1>2, WindowSizeAssumption
  <2>2. a = y + r /\ b = z + r
    BY <1>1
  <2> HIDE DEF y, z, q, p, r
  <2>3. z = y + (b - a)
    BY <2>1, <2>2, <1>2
  <2> QED BY <2>3 DEF y, z
<1> HIDE DEF q, p, r
<1>5. b - a = 0
  BY <1>2, <1>3, <1>4, CloseQuotients
<1> QED BY <1>5

(* Sliding by a window size comes back to the same frame.                  *)
LEMMA SlotPeriod ==
  ASSUME NEW a \in Nat
  PROVE  get_frame_num(a + WindowSize) = get_frame_num(a)
<1> DEFINE b == a + WindowSize
           q == a \div WindowSize
           p == b \div WindowSize
           r == a % WindowSize
           s == b % WindowSize
<1>1. b \in Nat
  BY WindowSizeAssumption
<1>2. a = WindowSize * q + r /\ q \in Nat /\ r \in 0 .. WindowSize - 1
  BY Division
<1>3. b = WindowSize * p + s /\ p \in Nat /\ s \in 0 .. WindowSize - 1
  BY <1>1, Division
<1>4. WindowSize * (q + 1) = WindowSize * q + WindowSize
  BY <1>2, WindowSizeAssumption
<1> DEFINE y == WindowSize * (q + 1)
           z == WindowSize * p
<1>5. y \in Int /\ z \in Int
  BY <1>2, <1>3, WindowSizeAssumption
<1>6. y + r = z + s
  <2> DEFINE x == WindowSize * q
  <2>1. x \in Int /\ a = x + r /\ y = x + WindowSize /\ b = z + s /\ b = a + WindowSize
    BY <1>2, <1>3, <1>4, WindowSizeAssumption
  <2> HIDE DEF x, y, z, q, p, r, s, b
  <2> QED BY <2>1, <1>2, <1>3, <1>5, WindowSizeAssumption
<1>7. CASE r >= s
  <2>1. r - s \in 0 .. WindowSize - 1 /\ z = y + (r - s)
    <3> HIDE DEF y, z, r, s, q, p
    <3> QED BY <1>2, <1>3, <1>5, <1>6, <1>7, WindowSizeAssumption
  <2> HIDE DEF r, s, q, p, b
  <2>2. r - s = 0
    BY <1>2, <1>3, <2>1, CloseQuotients
  <2>3. r = s
    BY <1>2, <1>3, <2>2, WindowSizeAssumption
  <2> QED BY <2>3 DEF r, s, b, get_frame_num
<1>8. CASE s >= r
  <2>1. s - r \in 0 .. WindowSize - 1 /\ y = z + (s - r)
    <3> HIDE DEF y, z, r, s, q, p
    <3> QED BY <1>2, <1>3, <1>5, <1>6, <1>8, WindowSizeAssumption
  <2> HIDE DEF r, s, q, p, b
  <2>2. s - r = 0
    BY <1>2, <1>3, <2>1, CloseQuotients
  <2>3. r = s
    BY <1>2, <1>3, <2>2, WindowSizeAssumption
  <2> QED BY <2>3 DEF r, s, b, get_frame_num
<1> QED BY <1>2, <1>3, <1>7, <1>8, WindowSizeAssumption

-----------------------------------------------------------------------------
(* Frames and windows.                                                     *)

(* A window's frames, as a well-formed window covers them.                 *)
WellPlaced(w) == w.top = w.bottom + WindowSize - 1

(* Different sequence numbers of a window have different frames, whichever *)
(* is the larger.                                                          *)
LEMMA SlotsOfWindow ==
  ASSUME NEW P, NEW w \in WindowType(P), WellPlaced(w),
         NEW a \in WindowSeqs(w), NEW b \in WindowSeqs(w),
         get_frame_num(a) = get_frame_num(b)
  PROVE  a = b
<1>1. a \in Nat /\ b \in Nat /\ a < b + WindowSize /\ b < a + WindowSize
  BY WindowSizeAssumption DEF WindowType, WellPlaced, WindowSeqs
<1>2. a =< b \/ b =< a
  BY <1>1
<1> QED BY <1>1, <1>2, SlotInjective

(* The frame numbers of a window are indices of the ring.                  *)
LEMMA SeqType ==
  ASSUME NEW P, NEW w \in WindowType(P), NEW seq \in WindowSeqs(w)
  PROVE  seq \in Nat /\ get_frame_num(seq) \in Slots
<1>1. seq \in Nat
  BY DEF WindowType, WindowSeqs
<1> QED BY <1>1, SlotType

(* SetFrames changes the state of the frames it is told to, and nothing    *)
(* else.                                                                   *)
LEMMA SetFramesIs ==
  ASSUME NEW P, NEW w \in WindowType(P), WellPlaced(w),
         NEW S \in SUBSET WindowSeqs(w), NEW st \in FrameState
  PROVE  LET v == SetFrames(w, S, st)
         IN  /\ v \in WindowType(P)
             /\ v.bottom = w.bottom /\ v.top = w.top
             /\ v.rr = w.rr /\ v.srej = w.srej
             /\ v.eof = w.eof /\ v.num_wait = w.num_wait /\ v.top_sent = w.top_sent
             /\ \A seq \in WindowSeqs(w) :
                  v.Frame[get_frame_num(seq)] =
                    IF seq \in S
                    THEN [state |-> st, pkt |-> w.Frame[get_frame_num(seq)].pkt]
                    ELSE w.Frame[get_frame_num(seq)]
<1> DEFINE F == [i \in Slots |-> IF \E seq \in S : get_frame_num(seq) = i
                                 THEN [state |-> st, pkt |-> w.Frame[i].pkt]
                                 ELSE w.Frame[i]]
           v == SetFrames(w, S, st)
<1>1. v = [w EXCEPT !.Frame = F]
  BY DEF SetFrames
<1>2. w.Frame \in [Slots -> [state : FrameState, pkt : P]]
  BY DEF WindowType
<1>3. F \in [Slots -> [state : FrameState, pkt : P]]
  BY <1>2
<1>4. /\ v \in WindowType(P)
      /\ v.bottom = w.bottom /\ v.top = w.top
      /\ v.rr = w.rr /\ v.srej = w.srej
      /\ v.eof = w.eof /\ v.num_wait = w.num_wait /\ v.top_sent = w.top_sent
      /\ v.Frame = F
  <2> HIDE DEF F
  <2> QED BY <1>1, <1>3 DEF WindowType
<1>5. ASSUME NEW seq \in WindowSeqs(w)
      PROVE  F[get_frame_num(seq)] =
               IF seq \in S
               THEN [state |-> st, pkt |-> w.Frame[get_frame_num(seq)].pkt]
               ELSE w.Frame[get_frame_num(seq)]
  <2>1. get_frame_num(seq) \in Slots
    BY SeqType
  <2>2. (\E s \in S : get_frame_num(s) = get_frame_num(seq)) <=> seq \in S
    BY SlotsOfWindow
  <2> QED BY <2>1, <2>2
<1> HIDE DEF F, v
<1>6. QED BY <1>4, <1>5 DEF v

(* Whatever the frames, the counters stay.                                 *)
LEMMA SetFramesKeeps ==
  ASSUME NEW P, NEW w \in WindowType(P), NEW S, NEW st
  PROVE  LET v == SetFrames(w, S, st)
         IN  /\ v.bottom = w.bottom /\ v.top = w.top /\ v.rr = w.rr /\ v.srej = w.srej
<1> DEFINE F == [i \in Slots |-> IF \E seq \in S : get_frame_num(seq) = i
                                 THEN [state |-> st, pkt |-> w.Frame[i].pkt]
                                 ELSE w.Frame[i]]
           v == SetFrames(w, S, st)
<1>1. v = [w EXCEPT !.Frame = F]
  BY DEF SetFrames
<1> HIDE DEF F, v
<1>2. v.bottom = w.bottom /\ v.top = w.top /\ v.rr = w.rr /\ v.srej = w.srej
  BY <1>1 DEF WindowType
<1> QED BY <1>2 DEF v

(* Sliding moves the window up to the first sequence number that is not    *)
(* acknowledged: the frames of those that stay are kept, and those of the  *)
(* new ones are empty.                                                     *)
LEMMA SlideIs ==
  ASSUME NEW P, NEW w \in WindowType(P), WellPlaced(w),
         CanSlide(w), Acked(w) =< w.top + 1
  PROVE  LET v == Slide(w)
         IN  /\ v \in WindowType(P)
             /\ v.bottom = Acked(w) /\ v.bottom > w.bottom /\ WellPlaced(v)
             /\ v.rr = w.rr /\ v.srej = w.srej
             /\ v.eof = w.eof /\ v.num_wait = w.num_wait /\ v.top_sent = w.top_sent
             /\ \A seq \in WindowSeqs(v) :
                  IF seq =< w.top
                  THEN v.Frame[get_frame_num(seq)] = w.Frame[get_frame_num(seq)]
                  ELSE v.Frame[get_frame_num(seq)].state = "FRAME_EMPTY"
<1> DEFINE S == w.bottom .. Acked(w) - 1
           u == SetFrames(w, S, "FRAME_EMPTY")
           v == Slide(w)
<1>1. /\ w.bottom \in Nat /\ w.top \in Nat /\ Acked(w) \in Nat
      /\ Acked(w) > w.bottom /\ Acked(w) =< w.bottom + WindowSize
      /\ WindowSize \in Nat /\ WindowSize > 0
      /\ w.top = w.bottom + WindowSize - 1
  BY WindowSizeAssumption DEF WindowType, Acked, CanSlide, WellPlaced
<1>2. S \in SUBSET WindowSeqs(w)
  BY <1>1 DEF WindowSeqs
<1>3. /\ u \in WindowType(P)
      /\ u.rr = w.rr /\ u.srej = w.srej
      /\ u.eof = w.eof /\ u.num_wait = w.num_wait /\ u.top_sent = w.top_sent
      /\ \A seq \in WindowSeqs(w) :
           u.Frame[get_frame_num(seq)] =
             IF seq \in S
             THEN [state |-> "FRAME_EMPTY", pkt |-> w.Frame[get_frame_num(seq)].pkt]
             ELSE w.Frame[get_frame_num(seq)]
  <2>1. "FRAME_EMPTY" \in FrameState
    BY DEF FrameState
  <2> HIDE DEF S
  <2> QED BY <1>2, <2>1, SetFramesIs
<1>4. v = [u EXCEPT !.bottom = Acked(w), !.top = Acked(w) + WindowSize - 1]
  BY DEF Slide
<1> HIDE DEF u, v
<1>5. Acked(w) + WindowSize - 1 \in Nat
  BY <1>1
<1>6. /\ v \in WindowType(P)
      /\ v.bottom = Acked(w) /\ v.top = Acked(w) + WindowSize - 1
      /\ v.rr = w.rr /\ v.srej = w.srej
      /\ v.eof = w.eof /\ v.num_wait = w.num_wait /\ v.top_sent = w.top_sent
      /\ v.Frame = u.Frame
  BY <1>1, <1>3, <1>4, <1>5 DEF WindowType
<1>7. WellPlaced(v) /\ v.bottom > w.bottom
  BY <1>1, <1>6 DEF WellPlaced
<1>8. ASSUME NEW seq \in WindowSeqs(v)
      PROVE  IF seq =< w.top
             THEN v.Frame[get_frame_num(seq)] = w.Frame[get_frame_num(seq)]
             ELSE v.Frame[get_frame_num(seq)].state = "FRAME_EMPTY"
  <2>1. seq \in Nat /\ seq >= Acked(w) /\ seq =< Acked(w) + WindowSize - 1
    BY <1>1, <1>6 DEF WindowSeqs
  <2>2. CASE seq =< w.top
    <3>1. seq \in WindowSeqs(w) /\ seq \notin S
      BY <1>1, <2>1, <2>2 DEF WindowSeqs
    <3> QED BY <1>3, <1>6, <2>2, <3>1
  <2>3. CASE seq > w.top
    <3> DEFINE old == seq - WindowSize
    <3>1. old \in Nat /\ old \in S /\ old \in WindowSeqs(w) /\ old + WindowSize = seq
      BY <1>1, <2>1, <2>3 DEF WindowSeqs
    <3> HIDE DEF old, S
    <3>2. get_frame_num(seq) = get_frame_num(old)
      BY <3>1, SlotPeriod
    <3>3. u.Frame[get_frame_num(old)].state = "FRAME_EMPTY"
      <4>1. u.Frame[get_frame_num(old)] =
              [state |-> "FRAME_EMPTY", pkt |-> w.Frame[get_frame_num(old)].pkt]
        BY <1>3, <3>1
      <4> QED BY <4>1
    <3>4. ~(seq =< w.top)
      BY <1>1, <2>1, <2>3
    <3> QED BY <1>6, <3>2, <3>3, <3>4
  <2> QED BY <1>1, <2>1, <2>2, <2>3
<1> QED BY <1>6, <1>7, <1>8 DEF v

-----------------------------------------------------------------------------
(* Places in the order of a loop.                                          *)

(* In an interval a sequence number's place is its distance from the start *)
LEMMA RankInInterval ==
  ASSUME NEW a \in Int, NEW b \in Int, NEW seq \in a .. b
  PROVE  Rank(a .. b, seq) = seq - a + 1
<1>1. {s \in a .. b : s =< seq} = a .. seq
  OBVIOUS
<1>2. Cardinality(a .. seq) = seq - a + 1
  BY FS_Interval
<1> QED BY <1>1, <1>2 DEF Rank

-----------------------------------------------------------------------------
(* The order in which a loop visits a window.                              *)

(* A set of naturals that is not empty has a least element.                *)
LEMMA LeastNatural ==
  ASSUME NEW S \in SUBSET Nat, S # {}
  PROVE  \E x \in S : \A y \in S : x =< y
<1> DEFINE Less == {pair \in Nat \X Nat : pair[1] < pair[2]}
<1>1. IsWellFoundedOn(Less, Nat)
  BY NatLessThanWellFounded DEF OpToRel
<1> HIDE DEF Less
<1>2. PICK x \in S : \A y \in S : ~ (<<y, x>> \in Less)
  BY <1>1, WFMin
<1>3. ASSUME NEW y \in S PROVE x =< y
  <2>1. <<y, x>> \in Nat \X Nat /\ <<y, x>>[1] = y /\ <<y, x>>[2] = x
    OBVIOUS
  <2>2. ~(y < x)
    BY <1>2, <2>1 DEF Less
  <2> QED BY <2>2
<1> QED BY <1>3

(* Every finite set of naturals can be put in increasing order: a least    *)
(* counterexample would owe its order to that of its greater elements.     *)
LEMMA AscendingIs ==
  ASSUME NEW S \in SUBSET Nat, IsFiniteSet(S)
  PROVE  /\ Ascending(S) \in [1 .. Cardinality(S) -> S]
         /\ \A i, j \in 1 .. Cardinality(S) : i < j => Ascending(S)[i] < Ascending(S)[j]
<1> DEFINE Orders(T, s) == \A i, j \in 1 .. Cardinality(T) : i < j => s[i] < s[j]
           Orderable(T) == \E s \in [1 .. Cardinality(T) -> T] : Orders(T, s)
           Bad == {n \in Nat : \E T \in SUBSET Nat :
                                  IsFiniteSet(T) /\ Cardinality(T) = n /\ ~Orderable(T)}
<1>1. ASSUME Bad # {} PROVE FALSE
  <2>1. PICK n \in Bad : \A m \in Bad : n =< m
    BY <1>1, LeastNatural
  <2>2. PICK T \in SUBSET Nat : IsFiniteSet(T) /\ Cardinality(T) = n /\ ~Orderable(T)
    OBVIOUS
  <2>3. CASE T = {}
    <3>1. n = 0
      BY <2>2, <2>3, FS_EmptySet
    <3>2. [i \in 1 .. 0 |-> 0] \in [1 .. Cardinality(T) -> T]
      BY <2>2, <3>1
    <3>3. Orders(T, [i \in 1 .. 0 |-> 0])
      BY <2>2, <3>1
    <3> QED BY <2>2, <3>2, <3>3
  <2>4. CASE T # {}
    <3>1. PICK x \in T : \A y \in T : x =< y
      BY <2>4, LeastNatural
    <3>2. /\ IsFiniteSet(T \ {x}) /\ T \ {x} \in SUBSET Nat
          /\ Cardinality(T \ {x}) = n - 1 /\ n - 1 \in Nat /\ n \in Nat
      BY <2>2, FS_RemoveElement, FS_CardinalityType, FS_EmptySet
    <3>3. Orderable(T \ {x})
      <4>1. n - 1 \notin Bad
        BY <2>1, <3>2
      <4> QED BY <3>2, <4>1
    <3> HIDE DEF Bad, Orderable
    <3>4. PICK s \in [1 .. n - 1 -> T \ {x}] : \A i, j \in 1 .. n - 1 : i < j => s[i] < s[j]
      BY <3>2, <3>3 DEF Orderable
    <3> DEFINE r == [i \in 1 .. n |-> IF i = 1 THEN x ELSE s[i - 1]]
    <3>5. r \in [1 .. n -> T]
      BY <3>2, <3>4
    <3>6. ASSUME NEW i \in 1 .. n, NEW j \in 1 .. n, i < j PROVE r[i] < r[j]
      <4>1. j - 1 \in 1 .. n - 1 /\ r[j] = s[j - 1] /\ s[j - 1] \in T \ {x}
        BY <3>2, <3>4, <3>6
      <4>2. CASE i = 1
        <5>1. r[i] = x
          BY <4>2
        <5>2. x =< s[j - 1] /\ s[j - 1] # x /\ x \in Nat /\ s[j - 1] \in Nat
          BY <3>1, <4>1
        <5> HIDE DEF r
        <5> QED BY <4>1, <5>1, <5>2
      <4>3. CASE i # 1
        BY <3>2, <3>4, <3>6, <4>1, <4>3
      <4> QED BY <4>2, <4>3
    <3>7. Orderable(T)
      BY <2>2, <3>5, <3>6 DEF Orderable
    <3> QED BY <2>2, <3>7
  <2> QED BY <2>3, <2>4
<1>2. Orderable(S)
  BY <1>1, FS_CardinalityType
<1> QED BY <1>2 DEF Ascending
(* Every place in the order of a loop is some number's.                    *)
LEMMA RankOnto ==
  ASSUME NEW S \in SUBSET Nat, IsFiniteSet(S), NEW k \in 1 .. Cardinality(S)
  PROVE  \E seq \in S : Rank(S, seq) = k
<1> DEFINE n == Cardinality(S)
           s == Ascending(S)
           first(m) == {s[j] : j \in 1 .. m}
<1>1. n \in Nat
  BY FS_CardinalityType
<1>2. s \in [1 .. n -> S] /\ \A i, j \in 1 .. n : i < j => s[i] < s[j]
  BY AscendingIs
<1> HIDE DEF n, s
<1>3. ASSUME NEW m \in 1 .. n
      PROVE  Cardinality(first(m)) = m /\ first(m) \in SUBSET S
  <2> DEFINE f == [j \in 1 .. m |-> s[j]]
  <2>1. m \in Nat /\ 1 .. m \subseteq 1 .. n
    BY <1>1
  <2>2. IsFiniteSet(1 .. m) /\ Cardinality(1 .. m) = m
    BY <2>1, FS_Interval
  <2>3. f \in [1 .. m -> first(m)] /\ \A y \in first(m) : \E j \in 1 .. m : f[j] = y
    OBVIOUS
  <2>4. ASSUME NEW i \in 1 .. m, NEW j \in 1 .. m, f[i] = f[j] PROVE i = j
    <3>1. f[i] = s[i] /\ f[j] = s[j] /\ s[i] \in Nat /\ i \in 1 .. n /\ j \in 1 .. n
      BY <1>2, <2>1
    <3> HIDE DEF f
    <3>2. ~(s[i] < s[j]) /\ ~(s[j] < s[i])
      <4>1. s[i] = s[j]
        BY <2>4, <3>1
      <4> QED BY <3>1, <4>1
    <3>3. ~(i < j) /\ ~(j < i)
      BY <1>2, <3>1, <3>2
    <3> QED BY <2>1, <3>3
  <2> HIDE DEF f
  <2>5. f \in Bijection(1 .. m, first(m))
    BY <2>3, <2>4 DEF Bijection, Injection, Surjection, IsInjective
  <2>6. Cardinality(first(m)) = m
    BY <2>2, <2>5, FS_Bijection DEF ExistsBijection
  <2>7. first(m) \in SUBSET S
    BY <1>2, <2>1
  <2> QED BY <2>6, <2>7
<1>4. ASSUME NEW y \in S PROVE \E j \in 1 .. n : s[j] = y
  <2>1. n \in 1 .. n
    BY <1>1 DEF n
  <2>2. first(n) = S
    BY <1>3, <2>1, FS_Subset DEF n
  <2> QED BY <2>2
<1>5. k \in 1 .. n /\ s[k] \in S
  BY <1>2 DEF n
<1>6. {y \in S : y =< s[k]} = first(k)
  <2>1. ASSUME NEW y \in S, y =< s[k] PROVE y \in first(k)
    <3>1. PICK j \in 1 .. n : s[j] = y
      BY <1>4
    <3>2. y \in Nat /\ s[k] \in Nat
      BY <1>5
    <3>3. ~(s[k] < y)
      BY <2>1, <3>2
    <3>4. ~(k < j)
      BY <1>2, <1>5, <3>1, <3>3
    <3>5. j \in 1 .. k
      BY <1>1, <1>5, <3>1, <3>4
    <3> QED BY <3>1, <3>5
  <2>2. ASSUME NEW j \in 1 .. k PROVE s[j] \in S /\ s[j] =< s[k]
    <3>1. j \in 1 .. n /\ (j < k \/ j = k)
      BY <1>1, <1>5
    <3>2. s[j] \in Nat /\ s[k] \in Nat
      BY <1>2, <1>5, <3>1
    <3> QED BY <1>2, <1>5, <3>1, <3>2
  <2> QED BY <2>1, <2>2
<1>7. Rank(S, s[k]) = k
  BY <1>3, <1>5, <1>6 DEF Rank
<1> QED BY <1>5, <1>7
=============================================================================
