--------------------------- MODULE DatagramProofs ---------------------------
(***************************************************************************)
(* Proofs about Datagram, for every size of word and buffer, whatever the  *)
(* packets are created from, and whatever malloc returns.                  *)
(*                                                                         *)
(* What a recursive function computes is proved by a least counterexample. *)
(***************************************************************************)
EXTENDS DatagramInvariant, TLAPS, SequenceTheorems, WellFoundedInduction

LEMMA Parameters ==
  /\ WordValues \in Nat /\ WordValues > 2 /\ Ones \in Nat /\ Ones > 1 /\ Ones = WordValues - 1
  /\ Extent \in Nat /\ MaxSends \in Nat /\ MAX_BUFF_SIZE \in 0 .. Extent
  /\ HDR_LEN = 4 /\ HDR_LEN + Extent \in Nat
BY DatagramAssumption DEF Ones, FILE_NAME, HDR_LEN

LEMMA LeastOf ==
  ASSUME NEW S \in SUBSET Nat, S # {}
  PROVE  \E x \in S : \A y \in S : x =< y
<1> DEFINE Less == {pair \in Nat \X Nat : pair[1] < pair[2]}
<1>1. IsWellFoundedOn(Less, Nat)
  BY NatLessThanWellFounded DEF OpToRel
<1> HIDE DEF Less
<1>2. PICK x \in S : \A y \in S : ~ (<<y, x>> \in Less)
  BY <1>1, WFMin
<1>3. ASSUME NEW y \in S PROVE x =< y
  <2>1. <<y, x>> \in Nat \X Nat /\ <<y, x>>[1] = y /\ <<y, x>>[2] = x
    OBVIOUS
  <2>2. ~(y < x)
    BY <1>2, <2>1 DEF Less
  <2> QED BY <2>2
<1> QED BY <1>3

-----------------------------------------------------------------------------
(* The sums in_cksum makes.                                                *)
WordsUpTo(d, len) == \A i \in 1 .. len : d[i] \in Nat

SumsOf(f, d, len) ==
  /\ f \in [0 .. len -> Nat]
  /\ f[0] = 0
  /\ \A i \in 1 .. len : f[i] = f[i - 1] + d[i]

(* There are such sums: the least number of words that has none would have *)
(* those of one word less.                                                 *)
LEMMA SumsExist ==
  ASSUME NEW len \in Nat, NEW d, WordsUpTo(d, len)
  PROVE  \E f : SumsOf(f, d, len)
<1> DEFINE Bad == {n \in 0 .. len : ~ \E f : SumsOf(f, d, n)}
<1>1. SUFFICES ASSUME Bad # {} PROVE FALSE
  BY DEF Bad
<1>2. PICK n \in Bad : \A m \in Bad : n =< m
  <2>1. Bad \in SUBSET Nat
    OBVIOUS
  <2> HIDE DEF Bad
  <2> QED BY <1>1, <2>1, LeastOf
<1>3. n \in 0 .. len /\ ~ \E f : SumsOf(f, d, n)
  BY <1>2
<1>4. CASE n = 0
  <2>1. SumsOf([i \in 0 .. 0 |-> 0], d, 0)
    BY DEF SumsOf
  <2> QED BY <1>3, <1>4, <2>1
<1>5. CASE n # 0
  <2>1. n - 1 \in 0 .. len /\ n \in Nat /\ n \in 1 .. len /\ n - 1 \notin Bad
    BY <1>2, <1>3, <1>5
  <2>2. PICK f : SumsOf(f, d, n - 1)
    BY <2>1
  <2> DEFINE g == [i \in 0 .. n |-> IF i = n THEN f[n - 1] + d[n] ELSE f[i]]
  <2>3. d[n] \in Nat /\ f[n - 1] \in Nat
    BY <2>1, <2>2 DEF WordsUpTo, SumsOf
  <2>4. g \in [0 .. n -> Nat]
    BY <2>1, <2>2, <2>3 DEF SumsOf
  <2>5. g[0] = 0 /\ \A i \in 1 .. n : g[i] = g[i - 1] + d[i]
    BY <2>1, <2>2 DEF SumsOf
  <2>6. SumsOf(g, d, n)
    BY <2>4, <2>5 DEF SumsOf
  <2> QED BY <1>3, <2>6
<1> QED BY <1>4, <1>5

LEMMA SumsAre ==
  ASSUME NEW len \in Nat, NEW d, WordsUpTo(d, len)
  PROVE  SumsOf(Sums(d, len), d, len)
<1> DEFINE R(sum) == sum = [i \in 0 .. len |-> IF i = 0 THEN 0 ELSE sum[i - 1] + d[i]]
           s == Sums(d, len)
<1>1. PICK f : SumsOf(f, d, len)
  BY SumsExist
<1>2. f = [i \in 0 .. len |-> IF i = 0 THEN 0 ELSE f[i - 1] + d[i]]
  BY <1>1 DEF SumsOf
<1>3. s = CHOOSE sum : R(sum)
  BY DEF Sums
<1>4. R(s)
  <2>1. R(f)
    BY <1>2
  <2> HIDE DEF R, s
  <2> QED BY <1>3, <2>1
<1> HIDE DEF s
<1>5. \A i \in 0 .. len : s[i] = IF i = 0 THEN 0 ELSE s[i - 1] + d[i]
  BY <1>4
<1> DEFINE Bad == {i \in 0 .. len : s[i] # f[i]}
<1>6. Bad = {}
  <2>1. SUFFICES ASSUME Bad # {} PROVE FALSE
    OBVIOUS
  <2>2. PICK n \in Bad : \A m \in Bad : n =< m
    <3>1. Bad \in SUBSET Nat
      OBVIOUS
    <3> HIDE DEF Bad
    <3> QED BY <2>1, <3>1, LeastOf
  <2>3. n # 0
    BY <1>1, <1>5, <2>2 DEF SumsOf
  <2>4. n \in 1 .. len /\ n - 1 \in 0 .. len /\ n - 1 \notin Bad
    BY <2>2, <2>3
  <2> QED BY <1>1, <1>5, <2>2, <2>3, <2>4 DEF SumsOf
<1>7. \A i \in 0 .. len : s[i] \in Nat
  BY <1>1, <1>6 DEF SumsOf
<1>8. s \in [0 .. len -> Nat]
  BY <1>4, <1>7
<1> QED BY <1>5, <1>8 DEF SumsOf, s

(* A word more or less at one place shows in the sum as it is.             *)
LEMMA SumsDiffer ==
  ASSUME NEW len \in Nat, NEW d, NEW e, WordsUpTo(d, len), WordsUpTo(e, len),
         NEW p \in 1 .. len, SameBut(d, e, len, {p})
  PROVE  /\ Sums(d, len)[len] = Sums(e, len)[len] + (d[p] - e[p])
         /\ Sums(d, len)[len] \in Nat /\ Sums(e, len)[len] \in Nat
<1> DEFINE s == Sums(d, len)
           t == Sums(e, len)
<1>1. SumsOf(s, d, len) /\ SumsOf(t, e, len)
  BY SumsAre
<1> HIDE DEF s, t
<1>2. d[p] \in Nat /\ e[p] \in Nat
  BY DEF WordsUpTo
<1> DEFINE more(i) == IF i >= p THEN d[p] - e[p] ELSE 0
           Bad == {i \in 0 .. len : s[i] # t[i] + more(i)}
<1>3. Bad = {}
  <2>1. SUFFICES ASSUME Bad # {} PROVE FALSE
    OBVIOUS
  <2>2. PICK n \in Bad : \A m \in Bad : n =< m
    <3>1. Bad \in SUBSET Nat
      OBVIOUS
    <3> HIDE DEF Bad
    <3> QED BY <2>1, <3>1, LeastOf
  <2>3. n # 0
    BY <1>1, <2>2 DEF SumsOf
  <2>4. n \in 1 .. len /\ n - 1 \in 0 .. len /\ n - 1 \notin Bad /\ n \in Nat
    BY <2>2, <2>3
  <2>5. s[n - 1] = t[n - 1] + more(n - 1) /\ s[n - 1] \in Nat /\ t[n - 1] \in Nat
    BY <1>1, <2>4 DEF SumsOf
  <2>6. s[n] = s[n - 1] + d[n] /\ t[n] = t[n - 1] + e[n] /\ d[n] \in Nat /\ e[n] \in Nat
    BY <1>1, <2>4 DEF SumsOf, WordsUpTo
  <2>7. n # p => d[n] = e[n]
    BY <2>4 DEF SameBut
  <2>8. s[n] = t[n] + more(n)
    BY <1>2, <2>4, <2>5, <2>6, <2>7
  <2> QED BY <2>2, <2>8
<1>4. len \in 0 .. len /\ len >= p /\ s[len] \in Nat /\ t[len] \in Nat
  BY <1>1 DEF SumsOf
<1> QED BY <1>3, <1>4 DEF s, t

-----------------------------------------------------------------------------
(* Ones' complement.                                                       *)

(* The positive numbers that are nothing in ones' complement.              *)
Nothing(s) == \E k \in Nat : s = (k + 1) * Ones

LEMMA SmallMultiple ==
  ASSUME NEW j \in Int, j * Ones =< Ones, j * Ones >= -Ones
  PROVE  j \in {-1, 0, 1}
<1>1. ASSUME j >= 2 PROVE j * Ones >= 2 * Ones
  <2>1. (j - 2) * Ones >= 0
    BY <1>1, Parameters
  <2> QED BY <2>1, Parameters
<1>2. ASSUME j =< -2 PROVE j * Ones =< -2 * Ones
  <2>1. (-2 - j) * Ones >= 0
    BY <1>2, Parameters
  <2> QED BY <2>1, Parameters
<1> QED BY <1>1, <1>2, Parameters

(* Adding what in_cksum returns makes a sum nothing, and in_cksum returns  *)
(* 0 for those sums that are.                                              *)
LEMMA CarriedIs ==
  ASSUME NEW s \in Nat
  PROVE  /\ Carried(s) \in 0 .. Ones
         /\ Nothing(s + (Ones - Carried(s)))
         /\ Carried(s) = Ones <=> Nothing(s)
<1>1. CASE s = 0
  <2>1. Carried(s) = 0
    BY <1>1 DEF Carried
  <2>2. Ones = (0 + 1) * Ones
    BY Parameters
  <2>3. ~Nothing(s)
    <3>1. \A k \in Nat : (k + 1) * Ones > 0
      BY Parameters
    <3> QED BY <1>1, <3>1 DEF Nothing
  <2> QED BY <1>1, <2>1, <2>2, <2>3, Parameters DEF Nothing
<1>2. CASE s # 0
  <2> DEFINE q == (s - 1) \div Ones
             r == (s - 1) % Ones
  <2>1. s - 1 \in Nat
    BY <1>2
  <2>2. s - 1 = Ones * q + r /\ r \in 0 .. Ones - 1 /\ q \in Nat
    BY <2>1, Parameters
  <2>3. Carried(s) = r + 1
    BY <1>2 DEF Carried
  <2> HIDE DEF q, r
  <2>4. Carried(s) \in 0 .. Ones
    BY <2>2, <2>3, Parameters
  <2>5. s + (Ones - Carried(s)) = (q + 1) * Ones
    BY <2>2, <2>3, Parameters
  <2>6. Carried(s) = Ones => s = (q + 1) * Ones
    BY <2>2, <2>3, Parameters
  <2>7. ASSUME NEW k \in Nat, s = (k + 1) * Ones PROVE Carried(s) = Ones
    <3>1. (k - q) * Ones = r + 1 - Ones
      BY <2>2, <2>7, Parameters
    <3>2. k - q \in {-1, 0, 1}
      BY <2>2, <3>1, Parameters, SmallMultiple
    <3>3. k - q = 0
      BY <2>2, <3>1, <3>2, Parameters
    <3> QED BY <2>2, <2>3, <3>1, <3>3, Parameters
  <2> QED BY <2>2, <2>4, <2>5, <2>6, <2>7 DEF Nothing
<1> QED BY <1>1, <1>2

(* Two sums that are nothing and differ in one word: it is 0 in one and    *)
(* all ones in the other.                                                  *)
LEMMA NothingBetween ==
  ASSUME NEW s \in Nat, NEW t \in Nat, Nothing(s), Nothing(t),
         NEW a \in Words, NEW b \in Words, s = t + (a - b), a # b
  PROVE  {a, b} = {0, Ones}
<1>1. PICK k \in Nat, m \in Nat : s = (k + 1) * Ones /\ t = (m + 1) * Ones
  BY DEF Nothing
<1>2. (k - m) * Ones = a - b
  BY <1>1, Parameters DEF Words
<1>3. k - m \in {-1, 0, 1}
  BY <1>2, Parameters, SmallMultiple DEF Words
<1>4. a - b \in {-Ones, Ones}
  BY <1>2, <1>3, Parameters DEF Words
<1> QED BY <1>4, Parameters DEF Words

-----------------------------------------------------------------------------
(* What a packet is created from.                                          *)
LEMMA HighLowIs ==
  ASSUME NEW long \in LongWords
  PROVE  /\ HighLow(long) \in Seq(Words) /\ Len(HighLow(long)) = 2
         /\ HighLow(long)[1] \in Words /\ HighLow(long)[2] \in Words
         /\ Long(HighLow(long)[1], HighLow(long)[2]) = long
<1> DEFINE q == long \div WordValues
           r == long % WordValues
<1>1. long \in Nat /\ long =< WordValues * WordValues - 1
  BY Parameters DEF LongWords
<1>2. long = WordValues * q + r /\ r \in 0 .. WordValues - 1 /\ q \in Nat
  BY <1>1, Parameters
<1>3. HighLow(long) = <<q, r>>
  BY DEF HighLow
<1> HIDE DEF q, r
<1>4. q =< WordValues - 1
  <2>1. ASSUME q >= WordValues PROVE WordValues * q >= WordValues * WordValues
    <3>1. (q - WordValues) * WordValues >= 0
      BY <1>2, <2>1, Parameters
    <3> QED BY <1>2, <3>1, Parameters
  <2> QED BY <1>1, <1>2, <2>1, Parameters
<1>5. q \in Words /\ r \in Words
  BY <1>2, <1>4, Parameters DEF Words
<1>6. q * WordValues + r = long
  BY <1>2, Parameters
<1> QED BY <1>3, <1>5, <1>6 DEF Long

(* The request of rcopy, word by word.                                     *)
LEMMA InitPayloadIs ==
  ASSUME NEW a \in InitArgs
  PROVE  /\ InitPayload(a) \in Seq(Words)
         /\ Len(a.name) \in Nat /\ Len(InitPayload(a)) = Len(a.name) + 5
         /\ Len(InitPayload(a)) =< Extent
         /\ InitPayload(a)[1] = HighLow(a.buffsize)[1] /\ InitPayload(a)[2] = HighLow(a.buffsize)[2]
         /\ InitPayload(a)[3] = HighLow(a.window_size)[1]
         /\ InitPayload(a)[4] = HighLow(a.window_size)[2]
         /\ \A i \in 1 .. Len(a.name) : /\ InitPayload(a)[4 + i] = a.name[i]
                                        /\ a.name[i] \in Words \ {0}
         /\ InitPayload(a)[Len(a.name) + 5] = 0
<1> DEFINE x == HighLow(a.buffsize)
           y == HighLow(a.window_size)
           z == a.name
<1>1. /\ a.buffsize \in LongWords /\ a.window_size \in LongWords
      /\ z \in Seq(Words \ {0}) /\ Len(z) + 5 =< Extent
  BY DatagramAssumption DEF DATA_FILENAME_OFF
<1>2. /\ x \in Seq(Words) /\ Len(x) = 2 /\ y \in Seq(Words) /\ Len(y) = 2
  BY <1>1, HighLowIs
<1>3. z \in Seq(Words) /\ Len(z) \in Nat /\ \A i \in 1 .. Len(z) : z[i] \in Words \ {0}
  BY <1>1
<1>4. <<0>> \in Seq(Words) /\ Len(<<0>>) = 1 /\ <<0>>[1] = 0
  BY Parameters DEF Words
<1>5. InitPayload(a) = ((x \o y) \o z) \o <<0>>
  BY DEF InitPayload
<1> HIDE DEF x, y, z
<1> DEFINE o == <<0>>
<1>6. o \in Seq(Words) /\ Len(o) = 1 /\ o[1] = 0
  BY <1>4
<1> HIDE DEF o
<1> DEFINE u == x \o y
<1>7. /\ u \in Seq(Words) /\ Len(u) = 4
      /\ u[1] = x[1] /\ u[2] = x[2] /\ u[3] = y[1] /\ u[4] = y[2]
  <2>1. u \in Seq(Words) /\ Len(u) = 4
        /\ \A i \in 1 .. 4 : u[i] = IF i =< 2 THEN x[i] ELSE y[i - 2]
    BY <1>2, ConcatProperties
  <2> QED BY <2>1
<1> HIDE DEF u
<1> DEFINE v == u \o z
<1>8. /\ v \in Seq(Words) /\ Len(v) = Len(z) + 4
      /\ \A i \in 1 .. Len(z) + 4 : v[i] = IF i =< 4 THEN u[i] ELSE z[i - 4]
  <2>1. z \in Seq(Words) /\ u \in Seq(Words)
    BY <1>3, <1>7
  <2>2. /\ v \in Seq(Words) /\ Len(v) = Len(u) + Len(z)
        /\ \A i \in 1 .. Len(u) + Len(z) : v[i] = IF i =< Len(u) THEN u[i] ELSE z[i - Len(u)]
    BY <2>1, ConcatProperties
  <2> QED BY <1>3, <1>7, <2>2
<1> HIDE DEF v
<1> DEFINE w == v \o o
<1>9. /\ w \in Seq(Words) /\ Len(w) = Len(z) + 5
      /\ \A i \in 1 .. Len(z) + 5 : w[i] = IF i =< Len(z) + 4 THEN v[i] ELSE o[i - (Len(z) + 4)]
  <2>1. /\ w \in Seq(Words) /\ Len(w) = Len(v) + Len(o)
        /\ \A i \in 1 .. Len(v) + Len(o) : w[i] = IF i =< Len(v) THEN v[i] ELSE o[i - Len(v)]
    BY <1>6, <1>8, ConcatProperties
  <2> QED BY <1>3, <1>6, <1>8, <2>1
<1> HIDE DEF w
<1>10. w[1] = x[1] /\ w[2] = x[2] /\ w[3] = y[1] /\ w[4] = y[2]
  BY <1>3, <1>7, <1>8, <1>9
<1>11. \A i \in 1 .. Len(z) : w[4 + i] = z[i]
  BY <1>3, <1>8, <1>9
<1>12. w[Len(z) + 5] = 0
  BY <1>3, <1>6, <1>9
<1>13. InitPayload(a) = w
  BY <1>5 DEF u, v, w, o
<1> QED BY <1>1, <1>3, <1>9, <1>10, <1>11, <1>12, <1>13 DEF x, y, z

LEMMA GivenIs ==
  ASSUME NEW g \in Givens
  PROVE  /\ g # NotGiven
         /\ g.flag \in Words /\ g.seq \in LongWords
         /\ g.data \in Seq(Words) /\ Len(g.data) \in Nat /\ Len(g.data) =< Extent
         /\ LenOf(g) \in 4 .. HDR_LEN + Extent
         /\ g.flag \in {DATA, FILE_NAME}
         /\ g.flag = FILE_NAME => \E a \in InitArgs : g.data = InitPayload(a)
<1>1. 0 \in LongWords /\ DATA \in Words /\ FILE_NAME \in Words
  <2>1. WordValues * WordValues - 1 >= 0
    BY Parameters
  <2> QED BY <2>1, Parameters DEF LongWords, Words, DATA, FILE_NAME
<1>2. CASE g \in {[flag |-> DATA, seq |-> seq, data |-> data] : seq \in Seqs, data \in Payloads}
  <2>1. PICK seq \in Seqs, data \in Payloads : g = [flag |-> DATA, seq |-> seq, data |-> data]
    BY <1>2
  <2>2. seq \in LongWords /\ data \in Seq(Words) /\ Len(data) =< Extent
    BY DatagramAssumption
  <2>3. g.flag = DATA /\ g.seq = seq /\ g.data = data
    BY <2>1
  <2>4. g.flag # 0 /\ g.flag # FILE_NAME
    BY <2>3 DEF DATA, FILE_NAME
  <2>5. NotGiven.flag = 0
    BY DEF NotGiven
  <2> QED BY <1>1, <2>2, <2>3, <2>4, <2>5, Parameters DEF LenOf
<1>3. CASE g \in {[flag |-> FILE_NAME, seq |-> 0, data |-> InitPayload(a)] : a \in InitArgs}
  <2>1. PICK a \in InitArgs : g = [flag |-> FILE_NAME, seq |-> 0, data |-> InitPayload(a)]
    BY <1>3
  <2>2. InitPayload(a) \in Seq(Words) /\ Len(InitPayload(a)) =< Extent
    BY InitPayloadIs
  <2>3. g.flag = FILE_NAME /\ g.seq = 0 /\ g.data = InitPayload(a)
    BY <2>1
  <2>4. g.flag # 0
    BY <2>3 DEF FILE_NAME
  <2>5. NotGiven.flag = 0
    BY DEF NotGiven
  <2> QED BY <1>1, <2>2, <2>3, <2>4, <2>5, Parameters DEF LenOf
<1> QED BY <1>2, <1>3 DEF Givens

-----------------------------------------------------------------------------
(* Writing into memory.                                                    *)
Overwritten(d, offset, words, r) ==
  /\ r \in Memory
  /\ \A i \in Places : r[i] = IF i \in offset .. offset + Len(words) - 1
                             THEN words[i - offset + 1] ELSE d[i]

Cleared(d, len, r) ==
  /\ r \in Memory
  /\ \A i \in Places : r[i] = IF i =< len THEN 0 ELSE d[i]

LEMMA OverwriteIs ==
  ASSUME NEW d \in Memory, NEW words \in Seq(Words), NEW offset \in Nat
  PROVE  Overwritten(d, offset, words, Overwrite(d, offset, words))
<1>1. DOMAIN d = Places /\ \A i \in Places : d[i] \in Words /\ i \in Nat
  BY Parameters DEF Memory, Places
<1>2. Len(words) \in Nat /\ \A j \in 1 .. Len(words) : words[j] \in Words
  OBVIOUS
<1>3. \A i \in offset .. offset + Len(words) - 1 : i - offset + 1 \in 1 .. Len(words)
  BY <1>2
<1>4. \A i \in Places : (IF i \in offset .. offset + Len(words) - 1
                         THEN words[i - offset + 1] ELSE d[i]) \in Words
  BY <1>1, <1>2, <1>3
<1> QED BY <1>1, <1>4 DEF Overwrite, Overwritten, Memory

LEMMA ClearIs ==
  ASSUME NEW d \in Memory, NEW len \in Nat
  PROVE  Cleared(d, len, Clear(d, len))
<1>1. DOMAIN d = Places /\ \A i \in Places : d[i] \in Words
  BY DEF Memory
<1>2. 0 \in Words
  BY Parameters DEF Words
<1> QED BY <1>1, <1>2 DEF Clear, Cleared, Memory

(* The words of a datagram are numbers.                                    *)
LEMMA MemoryWords ==
  ASSUME NEW d \in Memory, NEW len \in 4 .. HDR_LEN + Extent
  PROVE  WordsUpTo(d, len) /\ len \in Nat /\ 1 .. len \subseteq Places
<1>1. len \in Nat /\ 1 .. len \subseteq Places
  BY Parameters DEF Places
<1> QED BY <1>1, Parameters DEF WordsUpTo, Memory, Words

(* A datagram is sealed when its words add up to nothing.                  *)
LEMMA SealedIs ==
  ASSUME NEW len \in Nat, NEW d, WordsUpTo(d, len)
  PROVE  /\ Sums(d, len)[len] \in Nat
         /\ in_cksum(d, len) \in Words
         /\ Sealed(d, len) <=> Nothing(Sums(d, len)[len])
         /\ Nothing(Sums(d, len)[len] + in_cksum(d, len))
<1> DEFINE s == Sums(d, len)[len]
<1>1. s \in Nat
  BY SumsAre DEF SumsOf
<1>2. in_cksum(d, len) = Ones - Carried(s)
  BY DEF in_cksum
<1> HIDE DEF s
<1>3. /\ Carried(s) \in 0 .. Ones
      /\ Nothing(s + (Ones - Carried(s)))
      /\ Carried(s) = Ones <=> Nothing(s)
  BY <1>1, CarriedIs
<1>4. Ones - Carried(s) = 0 <=> Carried(s) = Ones
  BY <1>3, Parameters
<1> QED BY <1>1, <1>2, <1>3, <1>4, Parameters DEF s, Sealed, Words

(* Datagrams that agree have the same sum.                                 *)
LEMMA SameSums ==
  ASSUME NEW len \in Nat, len > 0, NEW d, NEW e, WordsUpTo(d, len), WordsUpTo(e, len),
         SameBut(d, e, len, {})
  PROVE  Sums(d, len)[len] = Sums(e, len)[len]
<1>1. 1 \in 1 .. len
  OBVIOUS
<1>2. SameBut(d, e, len, {1}) /\ d[1] = e[1]
  BY <1>1 DEF SameBut
<1>3. e[1] \in Nat
  BY <1>1 DEF WordsUpTo
<1>4. Sums(d, len)[len] = Sums(e, len)[len] + (d[1] - e[1]) /\ Sums(e, len)[len] \in Nat
  BY <1>1, <1>2, SumsDiffer
<1> QED BY <1>2, <1>3, <1>4

-----------------------------------------------------------------------------
(* get_hdr reads a header in range from any memory.                        *)
LEMMA HdrIs ==
  ASSUME NEW d \in Memory
  PROVE  get_hdr(d) \in [seq : LongWords, flag : Words]
<1>1. {1, 2, 4} \subseteq Places
  BY Parameters DEF Places
<1>2. d[1] \in Words /\ d[2] \in Words /\ d[4] \in Words
  BY <1>1 DEF Memory
<1>3. Long(d[1], d[2]) \in LongWords
  <2> DEFINE high == d[1]
             low == d[2]
  <2>1. high \in 0 .. WordValues - 1 /\ low \in 0 .. WordValues - 1
    BY <1>2, Parameters DEF Words
  <2> HIDE DEF high, low
  <2>2. (WordValues - 1 - high) * WordValues >= 0 /\ high * WordValues >= 0
    BY <2>1, Parameters
  <2>3. high * WordValues + low \in 0 .. WordValues * WordValues - 1
    BY <2>1, <2>2, Parameters
  <2> QED BY <2>3 DEF Long, LongWords, high, low
<1> QED BY <1>2, <1>3 DEF get_hdr, HDR_SEQ_OFFSET, HDR_FLAG_OFFSET

(* create_pkt makes a datagram that carries what it was given and is       *)
(* sealed, whatever was in the memory.                                     *)
LEMMA CreatedIs ==
  ASSUME NEW pkt \in Pkts, NEW g, g.flag \in Words, g.seq \in LongWords, g.data \in Seq(Words),
         Len(g.data) =< Extent,
         NEW made, made = create_pkt(pkt, g.flag, g.seq, g.data)
  PROVE  /\ made \in Pkts /\ made.room = pkt.room
         /\ made.datagram_len = LenOf(g)
         /\ Carries(made.datagram, g, Len(g.data))
         /\ Sealed(made.datagram, LenOf(g))
<1> DEFINE len == LenOf(g)
           data == g.data
           d0 == Clear(pkt.datagram, len)
           d1 == Overwrite(d0, HDR_LEN + 1, data)
           d2 == Clear(d1, HDR_LEN)
           d3 == Overwrite(d2, HDR_SEQ_OFFSET, HighLow(g.seq))
           flags == <<g.flag>>
           h == Overwrite(d3, HDR_FLAG_OFFSET, flags)
           sums == <<in_cksum(h, len)>>
           d == Overwrite(h, HDR_CHECKSUM_OFFSET, sums)
<1>1. /\ g.flag \in Words /\ g.seq \in LongWords
      /\ data \in Seq(Words) /\ Len(data) \in Nat /\ Len(data) =< Extent
      /\ len = HDR_LEN + Len(data) /\ len \in Nat /\ len \in 4 .. HDR_LEN + Extent /\ HDR_LEN = 4
  BY Parameters DEF LenOf
<1>2. /\ made.datagram = d /\ made.datagram_len = len /\ made.room = pkt.room
      /\ d \in Memory => made \in Pkts
  <2>1. made = [pkt EXCEPT !.datagram = d, !.datagram_len = len, !.Hdr = get_hdr(d)]
    BY DEF create_pkt, create_hdr, LenOf
  <2>2. d \in Memory => get_hdr(d) \in [seq : LongWords, flag : Words]
    BY HdrIs
  <2>3. len \in 0 .. HDR_LEN + Extent
    BY <1>1
  <2> HIDE DEF d, len
  <2> QED BY <2>1, <2>2, <2>3 DEF Pkts
<1>3. Places = 1 .. HDR_LEN + Extent /\ 1 .. len \subseteq Places /\ {1, 2, 3, 4} \subseteq Places
  BY <1>1, Parameters DEF Places
<1> DEFINE high == HighLow(g.seq)[1]
           low == HighLow(g.seq)[2]
<1>4. /\ HighLow(g.seq) \in Seq(Words) /\ Len(HighLow(g.seq)) = 2
      /\ high \in Words /\ low \in Words /\ Long(high, low) = g.seq
  BY <1>1, HighLowIs
<1>5. d0 \in Memory
  <2>1. pkt.datagram \in Memory /\ len \in Nat
    BY <1>1 DEF Pkts
  <2> HIDE DEF len
  <2> QED BY <2>1, ClearIs DEF Cleared
<1> HIDE DEF d0
<1>6. /\ d1 \in Memory
      /\ \A i \in Places : d1[i] = IF i \in 5 .. len THEN data[i - 4] ELSE d0[i]
  <2>1. HDR_LEN + 1 \in Nat
    BY <1>1
  <2>2. Overwritten(d0, HDR_LEN + 1, data, d1)
    BY <1>1, <1>5, <2>1, OverwriteIs
  <2> HIDE DEF d1
  <2>3. \A i \in Places : i \in Nat
    BY <1>3
  <2> QED BY <1>1, <2>2, <2>3 DEF Overwritten
<1> HIDE DEF d1
<1>7. d2 \in Memory /\ \A i \in Places : d2[i] = IF i =< 4 THEN 0 ELSE d1[i]
  <2>1. HDR_LEN \in Nat
    BY <1>1
  <2>2. Cleared(d1, HDR_LEN, d2)
    BY <1>6, <2>1, ClearIs
  <2> HIDE DEF d2
  <2> QED BY <1>1, <2>2 DEF Cleared
<1> HIDE DEF d2
<1>8. d3 \in Memory /\ d3[1] = high /\ d3[2] = low /\ d3[3] = 0
      /\ \A i \in Places : i > 4 => d3[i] = d1[i]
  <2>1. HDR_SEQ_OFFSET \in Nat /\ HDR_SEQ_OFFSET = 1
    BY DEF HDR_SEQ_OFFSET
  <2>2. Overwritten(d2, HDR_SEQ_OFFSET, HighLow(g.seq), d3)
    BY <1>4, <1>7, <2>1, OverwriteIs
  <2> HIDE DEF d3
  <2>3. \A i \in Places : i \in Nat
    BY <1>3
  <2> QED BY <1>3, <1>4, <1>7, <2>1, <2>2, <2>3 DEF Overwritten
<1>9. flags \in Seq(Words) /\ Len(flags) = 1 /\ flags[1] = g.flag
  BY <1>1
<1> HIDE DEF d3, high, low, flags
<1>10. h \in Memory /\ h[1] = high /\ h[2] = low /\ h[3] = 0 /\ h[4] = g.flag
       /\ \A i \in Places : i > 4 => h[i] = d1[i]
  <2>1. HDR_FLAG_OFFSET \in Nat /\ HDR_FLAG_OFFSET = 4
    BY DEF HDR_FLAG_OFFSET
  <2>2. Overwritten(d3, HDR_FLAG_OFFSET, flags, h)
    BY <1>8, <1>9, <2>1, OverwriteIs
  <2> HIDE DEF h
  <2>3. \A i \in Places : i \in Nat
    BY <1>3
  <2> QED BY <1>3, <1>8, <1>9, <2>1, <2>2, <2>3 DEF Overwritten
<1> HIDE DEF h
<1> DEFINE c == in_cksum(h, len)
<1>11. WordsUpTo(h, len)
  BY <1>1, <1>10, MemoryWords
<1>12. c \in Words /\ Sums(h, len)[len] \in Nat /\ Nothing(Sums(h, len)[len] + c)
  BY <1>1, <1>11, SealedIs
<1>13. sums \in Seq(Words) /\ Len(sums) = 1 /\ sums[1] = c
  BY <1>12
<1> HIDE DEF c, sums
<1>14. d \in Memory /\ d[3] = c /\ \A i \in Places : i # 3 => d[i] = h[i]
  <2>1. HDR_CHECKSUM_OFFSET \in Nat /\ HDR_CHECKSUM_OFFSET = 3
    BY DEF HDR_CHECKSUM_OFFSET
  <2>2. Overwritten(h, HDR_CHECKSUM_OFFSET, sums, d)
    BY <1>10, <1>13, <2>1, OverwriteIs
  <2> HIDE DEF d
  <2>3. \A i \in Places : i \in Nat
    BY <1>3
  <2> QED BY <1>3, <1>13, <2>1, <2>2, <2>3 DEF Overwritten
<1> HIDE DEF d
<1>15. WordsUpTo(d, len)
  BY <1>1, <1>14, MemoryWords
<1>16. Sums(d, len)[len] = Sums(h, len)[len] + c
  <2>1. SameBut(d, h, len, {3}) /\ 3 \in 1 .. len
    BY <1>1, <1>3, <1>14 DEF SameBut
  <2>2. Sums(d, len)[len] = Sums(h, len)[len] + (d[3] - h[3])
    BY <1>1, <1>11, <1>15, <2>1, SumsDiffer
  <2>3. c \in Int
    BY <1>12, Parameters DEF Words
  <2> QED BY <1>10, <1>12, <1>14, <2>2, <2>3
<1>17. Sealed(d, len)
  BY <1>1, <1>12, <1>15, <1>16, SealedIs
<1>18. Carries(d, g, Len(data))
  <2>1. d[1] = high /\ d[2] = low /\ d[4] = g.flag
    BY <1>3, <1>10, <1>14
  <2>2. ASSUME NEW i \in 1 .. Len(data) PROVE d[HDR_LEN + i] = data[i]
    <3>1. 4 + i \in Places /\ 4 + i \in 5 .. len /\ 4 + i > 4 /\ 4 + i # 3 /\ (4 + i) - 4 = i
      BY <1>1, <1>3
    <3>2. d[4 + i] = data[(4 + i) - 4]
      BY <1>6, <1>10, <1>14, <3>1
    <3> QED BY <1>1, <3>1, <3>2
  <2> QED BY <1>4, <2>1, <2>2 DEF Carries, HDR_SEQ_OFFSET, HDR_FLAG_OFFSET
<1> QED BY <1>2, <1>14, <1>17, <1>18

-----------------------------------------------------------------------------
(* What malloc returns is memory.                                          *)
LEMMA AllocatedIs ==
  ASSUME NEW room \in 0 .. Extent, NEW pkt \in Allocated(room)
  PROVE  pkt \in Pkts /\ pkt.room = room
<1>1. PICK memory \in Memories :
        pkt = [datagram |-> memory, datagram_len |-> 0, Hdr |-> [seq |-> 0, flag |-> 0],
               room |-> room]
  BY DEF Allocated
<1>2. memory \in Memory
  BY DatagramAssumption DEF Memory, Places
<1>3. 0 \in LongWords /\ 0 \in Words /\ 0 \in 0 .. HDR_LEN + Extent
  <2>1. WordValues * WordValues - 1 >= 0
    BY Parameters
  <2> QED BY <2>1, Parameters DEF LongWords, Words
<1> QED BY <1>1, <1>2, <1>3 DEF Pkts

(* The block sizes rcopy may ask for are in view.                          *)
LEMMA RoomIs ==
  ASSUME NEW a \in InitArgs
  PROVE  a.buffsize \in 0 .. Extent
<1>1. a.buffsize \in LongWords /\ a.buffsize =< Extent
  BY DatagramAssumption
<1> QED BY <1>1, Parameters DEF LongWords

LEMMA InitHolds ==
  ASSUME DatagramInit
  PROVE  DatagramIInv
<1>1. PICK a \in InitArgs :
        /\ spkt \in Allocated(a.buffsize)
        /\ rpkt \in Allocated(IF receiver = "main" THEN MAX_BUFF_SIZE ELSE a.buffsize)
  BY DEF DatagramInit
<1>2. a.buffsize \in 0 .. Extent
  BY RoomIs
<1>3. spkt \in Pkts /\ spkt.room = a.buffsize
  BY <1>1, <1>2, AllocatedIs
<1>4. rpkt \in Pkts /\ (receiver # "main" => rpkt.room = a.buffsize)
  <2>1. CASE receiver = "main"
    BY <1>1, <2>1, Parameters, AllocatedIs
  <2>2. CASE receiver # "main"
    BY <1>1, <1>2, <2>2, AllocatedIs
  <2> QED BY <2>1, <2>2
<1>5. /\ given = NotGiven /\ wire = <<>> /\ damage = "none" /\ received = "nothing" /\ sends = 0
      /\ receiver \in {"main", "child", "rcopy"}
  BY DEF DatagramInit
<1>6. wire \in Seq(Words) /\ sends \in 0 .. MaxSends /\ given.flag # DATA
  BY <1>5, Parameters DEF NotGiven, DATA
<1>7. DatagramTypeOK
  BY <1>3, <1>4, <1>5, <1>6 DEF DatagramTypeOK
<1>8. RoomHolds
  BY <1>3, <1>4, <1>6 DEF RoomHolds
<1> QED BY <1>5, <1>7, <1>8 DEF DatagramIInv, SenderHolds, WireHolds, ReceiverHolds

(* What the sender's pkt held is gone, and nothing is on the wire.  DATA   *)
(* is a block at most and goes to rcopy, whose pkt has room for one too.   *)
LEMMA CreateHolds ==
  ASSUME DatagramIInv, Create
  PROVE  DatagramIInv'
<1>1. PICK seq \in Seqs, data \in Payloads :
        /\ Len(data) =< spkt.room
        /\ receiver = "child" => data = <<>>
        /\ given' = [flag |-> DATA, seq |-> seq, data |-> data]
        /\ spkt' = create_pkt(spkt, DATA, seq, data)
  BY DEF Create
<1>2. /\ UNCHANGED <<rpkt, receiver, wire, damage, sends>> /\ wire = <<>>
      /\ received' = "nothing" /\ receiver # "main"
  BY DEF Create
<1>3. given' \in Givens /\ given'.flag = DATA /\ given'.seq = seq /\ given'.data = data
  BY <1>1 DEF Givens
<1>4. given'.flag \in Words /\ given'.seq \in LongWords /\ given'.data \in Seq(Words)
      /\ Len(given'.data) =< Extent
  BY <1>3, GivenIs
<1>5. spkt \in Pkts
  BY DEF DatagramIInv, DatagramTypeOK
<1>6. spkt' = create_pkt(spkt, given'.flag, given'.seq, given'.data)
  BY <1>1, <1>3
<1>7. /\ spkt' \in Pkts /\ spkt'.room = spkt.room /\ spkt'.datagram_len = LenOf(given')
      /\ Carries(spkt'.datagram, given', Len(given'.data))
      /\ Sealed(spkt'.datagram, LenOf(given'))
  BY <1>4, <1>5, <1>6, CreatedIs
<1>8. DatagramTypeOK'
  BY <1>2, <1>3, <1>7 DEF DatagramIInv, DatagramTypeOK
<1>9. SenderHolds'
  BY <1>7 DEF SenderHolds
<1>10. RoomHolds'
  <2>1. rpkt.room = spkt.room /\ spkt'.room = spkt.room
    BY <1>2, <1>7 DEF DatagramIInv, RoomHolds
  <2> QED BY <1>1, <1>2, <1>3, <2>1 DEF RoomHolds, Fits, Whole
<1> QED BY <1>2, <1>8, <1>9, <1>10 DEF DatagramIInv, WireHolds, ReceiverHolds

(* What an overrun leaves is still memory, as long as the request.         *)
LEMMA OverrunIs ==
  ASSUME NEW pkt \in Pkts, NEW data \in Seq(Words), Len(data) =< Extent,
         NEW left \in Overrun(pkt, data)
  PROVE  left \in Pkts /\ left.room = pkt.room /\ left.datagram_len = HDR_LEN + Len(data)
<1> DEFINE made == {create_pkt(pkt, FILE_NAME, 0, Clear(data, k)) : k \in 0 .. Len(data)}
<1>1. ASSUME NEW p \in made
      PROVE  p \in Pkts /\ p.room = pkt.room /\ p.datagram_len = HDR_LEN + Len(data)
  <2>1. PICK k \in 0 .. Len(data) : p = create_pkt(pkt, FILE_NAME, 0, Clear(data, k))
    OBVIOUS
  <2> DEFINE cleared == Clear(data, k)
             g == [flag |-> FILE_NAME, seq |-> 0, data |-> cleared]
  <2>2. cleared \in Seq(Words) /\ Len(cleared) = Len(data)
    <3> DEFINE n == Len(data)
    <3>1. n \in Nat /\ data \in [1 .. n -> Words] /\ 0 \in Words
      BY Parameters DEF Words
    <3> HIDE DEF n
    <3>2. cleared \in [1 .. n -> Words]
      BY <3>1 DEF Clear
    <3> HIDE DEF cleared
    <3> QED BY <3>1, <3>2 DEF n
  <2>3. 0 \in LongWords /\ FILE_NAME \in Words
    <3>1. WordValues * WordValues - 1 >= 0
      BY Parameters
    <3> QED BY <3>1, Parameters DEF LongWords, Words, FILE_NAME
  <2> HIDE DEF cleared
  <2>4. g.flag = FILE_NAME /\ g.seq = 0 /\ g.data = cleared
    OBVIOUS
  <2> HIDE DEF g
  <2>5. p = create_pkt(pkt, g.flag, g.seq, g.data)
    BY <2>1, <2>4 DEF cleared
  <2>6. p \in Pkts /\ p.room = pkt.room /\ p.datagram_len = LenOf(g)
    BY <2>2, <2>3, <2>4, <2>5, CreatedIs
  <2> QED BY <2>2, <2>4, <2>6 DEF LenOf
<1>2. CASE left \in made
  BY <1>1, <1>2
<1>3. CASE left \in {TailLost(p, memory) : p \in made, memory \in Memories}
  <2> HIDE DEF made
  <2>1. PICK p \in made, memory \in Memories : left = TailLost(p, memory)
    BY <1>3
  <2>2. p \in Pkts /\ p.room = pkt.room /\ p.datagram_len = HDR_LEN + Len(data)
    BY <1>1
  <2>3. p.datagram \in [Places -> Words] /\ memory \in [Places -> Words]
    BY <2>2, DatagramAssumption DEF Pkts, Memory, Places
  <2> DEFINE d == [i \in DOMAIN p.datagram |->
                     IF i =< HDR_LEN + p.room THEN p.datagram[i] ELSE memory[i]]
  <2>4. d \in Memory
    BY <2>3 DEF Memory
  <2>5. left = [p EXCEPT !.datagram = d]
    BY <2>1 DEF TailLost
  <2> HIDE DEF d
  <2> QED BY <2>2, <2>4, <2>5 DEF Pkts
<1> QED BY <1>2, <1>3 DEF Overrun

(* A request that fits its pkt is created as it is; of one that does not,  *)
(* the invariant says no more than its length.                             *)
LEMMA CreateRequestHolds ==
  ASSUME DatagramIInv, CreateRequest
  PROVE  DatagramIInv'
<1>1. PICK a \in InitArgs, pkt \in Allocated(spkt.room) :
        /\ given' = [flag |-> FILE_NAME, seq |-> 0, data |-> InitPayload(a)]
        /\ spkt' \in IF Len(InitPayload(a)) =< spkt.room
                     THEN {create_pkt(pkt, FILE_NAME, 0, InitPayload(a))}
                     ELSE Overrun(pkt, InitPayload(a))
  BY DEF CreateRequest
<1>2. /\ UNCHANGED <<rpkt, receiver, wire, damage, sends>> /\ wire = <<>>
      /\ received' = "nothing"
  BY DEF CreateRequest
<1>3. given' \in Givens /\ given'.flag = FILE_NAME /\ given'.seq = 0 /\ given'.data = InitPayload(a)
  BY <1>1 DEF Givens
<1>4. given'.flag \in Words /\ given'.seq \in LongWords /\ given'.data \in Seq(Words)
      /\ Len(given'.data) =< Extent
  BY <1>3, GivenIs
<1>5. spkt.room \in 0 .. Extent
  BY DEF DatagramIInv, DatagramTypeOK, Pkts
<1>6. pkt \in Pkts /\ pkt.room = spkt.room
  BY <1>5, AllocatedIs
<1>7. /\ spkt' \in Pkts /\ spkt'.room = spkt.room /\ spkt'.datagram_len = LenOf(given')
      /\ Len(given'.data) =< spkt.room =>
           /\ Carries(spkt'.datagram, given', Len(given'.data))
           /\ Sealed(spkt'.datagram, LenOf(given'))
  <2>1. CASE Len(given'.data) =< spkt.room
    <3>1. spkt' = create_pkt(pkt, given'.flag, given'.seq, given'.data)
      BY <1>1, <1>3, <2>1
    <3> QED BY <1>4, <1>5, <1>6, <3>1, CreatedIs
  <2>2. CASE ~(Len(given'.data) =< spkt.room)
    <3>1. spkt' \in Overrun(pkt, given'.data)
      BY <1>1, <1>3, <2>2
    <3> QED BY <1>4, <1>5, <1>6, <2>2, <3>1, OverrunIs DEF LenOf
  <2> QED BY <2>1, <2>2
<1>8. DatagramTypeOK'
  BY <1>2, <1>3, <1>7 DEF DatagramIInv, DatagramTypeOK
<1>9. SenderHolds'
  BY <1>7 DEF SenderHolds, Fits
<1>10. RoomHolds'
  <2>1. given'.flag # DATA
    BY <1>3 DEF FILE_NAME, DATA
  <2> QED BY <1>2, <1>7, <2>1 DEF DatagramIInv, RoomHolds
<1> QED BY <1>2, <1>8, <1>9, <1>10 DEF DatagramIInv, WireHolds, ReceiverHolds

LEMMA SendHolds ==
  ASSUME DatagramIInv, Send
  PROVE  DatagramIInv'
<1>1. /\ given \in Givens /\ given # NotGiven /\ spkt.datagram \in Memory
      /\ spkt.datagram_len = LenOf(given)
  BY DEF DatagramIInv, DatagramTypeOK, SenderHolds, Send, Pkts
<1> DEFINE len == LenOf(given)
           d == spkt.datagram
<1>2. len \in 4 .. HDR_LEN + Extent
  BY <1>1, GivenIs
<1>3. 1 .. len \subseteq Places /\ len \in Nat
  BY <1>1, <1>2, MemoryWords
<1>4. wire' = SubSeq(d, 1, len) /\ d \in Memory
  BY <1>1 DEF Send
<1> HIDE DEF len, d
<1>5. wire' = [i \in 1 .. len |-> d[i]]
  BY <1>3, <1>4
<1>6. wire' \in Seq(Words) /\ Len(wire') = len /\ \A i \in 1 .. len : wire'[i] = d[i]
  BY <1>3, <1>4, <1>5 DEF Memory
<1>7. /\ UNCHANGED <<spkt, rpkt, receiver, given>> /\ damage' = "none" /\ received' = "nothing"
      /\ sends' \in 0 .. MaxSends
  <2>1. sends \in 0 .. MaxSends /\ sends < MaxSends /\ sends' = sends + 1
    BY DEF Send, DatagramIInv, DatagramTypeOK
  <2> QED BY <2>1, Parameters DEF Send
<1>8. DatagramTypeOK'
  BY <1>6, <1>7 DEF DatagramIInv, DatagramTypeOK
<1>9. SenderHolds' /\ RoomHolds'
  BY <1>7 DEF DatagramIInv, SenderHolds, RoomHolds, Fits, Whole
<1>10. WireHolds'
  BY <1>1, <1>6, <1>7 DEF WireHolds, SameBut, len, d
<1> QED BY <1>7, <1>8, <1>9, <1>10 DEF DatagramIInv, ReceiverHolds

(* The datagram on the wire is as it was sent, so it differs from that in  *)
(* the sender's pkt in the one word that is damaged.                       *)
LEMMA DamageHolds ==
  ASSUME DatagramIInv, Damage
  PROVE  DatagramIInv'
<1>1. PICK i \in DOMAIN wire, word \in Words :
        /\ word # wire[i]
        /\ wire' = [wire EXCEPT ![i] = word]
        /\ damage' = IF {word, wire[i]} = {0, Ones} THEN "zeros for ones" ELSE "word"
  BY DEF Damage
<1>2. damage = "none" /\ UNCHANGED <<spkt, rpkt, receiver, given, received, sends>>
  BY DEF Damage
<1>3. wire \in Seq(Words)
  BY DEF DatagramIInv, DatagramTypeOK
<1>4. /\ i \in 1 .. Len(wire) /\ wire # <<>> /\ wire' \in Seq(Words) /\ Len(wire') = Len(wire)
      /\ wire'[i] = word /\ \A j \in 1 .. Len(wire) : j # i => wire'[j] = wire[j]
  <2> DEFINE n == Len(wire)
  <2>1. n \in Nat /\ DOMAIN wire = 1 .. n /\ wire \in [1 .. n -> Words]
    BY <1>3
  <2>2. wire # <<>>
    <3>1. SUFFICES ASSUME wire = <<>> PROVE FALSE
      OBVIOUS
    <3>2. n = 0
      BY <3>1
    <3> HIDE DEF n
    <3>3. i \in DOMAIN wire
      OBVIOUS
    <3>4. i \in 1 .. n
      BY <2>1, <3>3
    <3> QED BY <3>2, <3>4
  <2> HIDE DEF n
  <2>3. /\ DOMAIN wire' = 1 .. n /\ wire' \in [1 .. n -> Words]
        /\ wire'[i] = word /\ \A j \in 1 .. n : j # i => wire'[j] = wire[j]
    BY <1>1, <2>1
  <2>4. wire' \in Seq(Words) /\ Len(wire') = n
    <3>1. i \in 1 .. Len(wire)
      BY <1>1, <2>1 DEF n
    <3>2. /\ [wire EXCEPT ![i] = word] \in Seq(Words)
          /\ Len([wire EXCEPT ![i] = word]) = Len(wire)
      BY <1>3, <3>1, ExceptSeq
    <3> QED BY <1>1, <3>2 DEF n
  <2> QED BY <1>1, <2>1, <2>2, <2>3, <2>4 DEF n
<1>5. /\ received = "nothing" /\ given # NotGiven /\ Len(wire) = LenOf(given)
      /\ SameBut(wire, spkt.datagram, Len(wire), {})
  BY <1>2, <1>4 DEF DatagramIInv, WireHolds
<1>6. SameBut(wire', spkt.datagram, Len(wire), {i}) /\ wire[i] = spkt.datagram[i]
  BY <1>4, <1>5 DEF SameBut
<1>7. DatagramTypeOK'
  BY <1>1, <1>2, <1>4 DEF DatagramIInv, DatagramTypeOK
<1>8. SenderHolds' /\ RoomHolds'
  BY <1>2 DEF DatagramIInv, SenderHolds, RoomHolds, Fits, Whole
<1>9. WireHolds'
  <2>1. damage' # "none"
    BY <1>1
  <2>2. damage' = "word" => {wire'[i], spkt.datagram[i]} # {0, Ones} /\ wire'[i] # spkt.datagram[i]
    BY <1>1, <1>4, <1>6
  <2> QED BY <1>2, <1>4, <1>5, <1>6, <2>1, <2>2 DEF WireHolds
<1>10. ReceiverHolds'
  BY <1>1, <1>2, <1>5 DEF ReceiverHolds
<1> QED BY <1>7, <1>8, <1>9, <1>10 DEF DatagramIInv

(* The buffer of recv_pkt holds what has arrived.                          *)
LEMMA ArrivedIs ==
  ASSUME NEW d \in Memory, NEW w \in Seq(Words), Len(w) \in 4 .. HDR_LEN + Extent
  PROVE  Overwrite(d, 1, w) \in Memory /\ SameBut(Overwrite(d, 1, w), w, Len(w), {})
<1> DEFINE r == Overwrite(d, 1, w)
           len == Len(w)
<1>1. Overwritten(d, 1, w, r)
  BY OverwriteIs
<1>2. 1 .. len \subseteq Places /\ len \in Nat
  BY Parameters DEF Places
<1> HIDE DEF r
<1>3. \A i \in Places : r[i] = IF i \in 1 .. 1 + len - 1 THEN w[i - 1 + 1] ELSE d[i]
  BY <1>1 DEF Overwritten
<1> HIDE DEF len
<1>4. \A i \in 1 .. len : r[i] = w[i]
  BY <1>2, <1>3
<1> QED BY <1>1, <1>4 DEF Overwritten, SameBut, r, len

(* What recvfrom gives recv_pkt is the beginning of the datagram, or all.  *)
LEMMA TakenIs ==
  ASSUME DatagramIInv, wire # <<>>
  PROVE  /\ Arrived \in Seq(Words)
         /\ Len(Arrived) = HDR_LEN + Taken /\ Len(Arrived) \in 4 .. HDR_LEN + Extent
         /\ Taken \in 0 .. Len(given.data)
         /\ Whole => Len(Arrived) = Len(wire)
         /\ \A i \in 1 .. Len(Arrived) : i \in 1 .. Len(wire) /\ Arrived[i] = wire[i]
<1> DEFINE n == Len(wire)
           most == IF n =< Limit THEN n ELSE Limit
           m == Len(given.data)
<1>1. /\ wire \in Seq(Words) /\ given \in Givens /\ n = LenOf(given)
      /\ rpkt.room \in 0 .. Extent
  BY DEF DatagramIInv, DatagramTypeOK, WireHolds, Pkts
<1>2. /\ m \in 0 .. Extent /\ n = 4 + m /\ rpkt.room \in Nat /\ Limit = rpkt.room + 4
      /\ n \in Nat
  BY <1>1, GivenIs, Parameters DEF LenOf, Limit
<1>3. (Whole <=> m =< rpkt.room) /\ Taken = IF Whole THEN m ELSE rpkt.room
  BY DEF Whole, Taken
<1>4. Arrived = SubSeq(wire, 1, most)
  BY DEF Arrived
<1>5. \A i \in 1 .. n : wire[i] \in Words
  BY <1>1
<1> HIDE DEF n, m
<1>6. most \in Nat /\ most =< n /\ most = 4 + Taken /\ Taken \in 0 .. m /\ (Whole => most = n)
      /\ most \in 4 .. 4 + Extent
  BY <1>2, <1>3, Parameters
<1> HIDE DEF most
<1>7. /\ Arrived \in Seq(Words) /\ Len(Arrived) = most
      /\ \A i \in 1 .. most : Arrived[i] = wire[i]
  <2>1. \A i \in 1 .. most : wire[i] \in Words
    BY <1>2, <1>5, <1>6
  <2>2. /\ SubSeq(wire, 1, most) \in Seq(Words)
        /\ Len(SubSeq(wire, 1, most)) = IF 1 =< most THEN most - 1 + 1 ELSE 0
        /\ \A i \in 1 .. most - 1 + 1 : SubSeq(wire, 1, most)[i] = wire[1 + i - 1]
    BY <1>6, <2>1, SubSeqProperties
  <2> QED BY <1>4, <1>6, <2>2
<1>8. 1 .. most \subseteq 1 .. n
  BY <1>2, <1>6
<1> QED BY <1>6, <1>7, <1>8, Parameters DEF n, m

(* A datagram that arrives whole and as it was sent adds up to nothing,    *)
(* and one that has another word in one place does not.                    *)
LEMMA SumTells ==
  ASSUME DatagramIInv, wire # <<>>, Fits, Whole,
         NEW d \in Memory, SameBut(d, wire, Len(wire), {})
  PROVE  /\ damage = "none" => in_cksum(d, Len(wire)) = 0
         /\ damage = "word" => in_cksum(d, Len(wire)) # 0
<1> DEFINE len == Len(wire)
           e == spkt.datagram
<1>1. wire \in Seq(Words) /\ e \in Memory
  BY DEF DatagramIInv, DatagramTypeOK, Pkts
<1>2. len = LenOf(given) /\ given \in Givens /\ Sealed(e, len)
  BY DEF DatagramIInv, DatagramTypeOK, WireHolds, SenderHolds
<1>3. len \in 4 .. HDR_LEN + Extent /\ len \in Nat /\ len > 0
  <2>1. len \in 4 .. HDR_LEN + Extent
    BY <1>2, GivenIs
  <2> QED BY <2>1, Parameters
<1> HIDE DEF len, e
<1>4. WordsUpTo(d, len) /\ WordsUpTo(e, len) /\ 1 .. len \subseteq Places
  BY <1>1, <1>3, MemoryWords
<1>5. ASSUME damage = "none" PROVE Sealed(d, len)
  <2>1. SameBut(wire, e, len, {})
    BY <1>5 DEF DatagramIInv, WireHolds, len, e
  <2>2. SameBut(d, e, len, {})
    BY <2>1 DEF SameBut, len
  <2>3. Sums(d, len)[len] = Sums(e, len)[len]
    BY <1>3, <1>4, <2>2, SameSums
  <2>4. Nothing(Sums(e, len)[len])
    BY <1>2, <1>3, <1>4, SealedIs
  <2> QED BY <1>3, <1>4, <2>3, <2>4, SealedIs
<1>6. ASSUME damage = "word", Sealed(d, len) PROVE FALSE
  <2>1. PICK i \in 1 .. len : /\ SameBut(wire, e, len, {i})
                             /\ wire[i] # e[i] /\ {wire[i], e[i]} # {0, Ones}
    BY <1>6 DEF DatagramIInv, WireHolds, len, e
  <2>2. SameBut(d, e, len, {i}) /\ d[i] # e[i] /\ {d[i], e[i]} # {0, Ones}
    BY <2>1 DEF SameBut, len
  <2> DEFINE s == Sums(d, len)[len]
             t == Sums(e, len)[len]
             a == d[i]
             b == e[i]
  <2>3. s = t + (a - b) /\ s \in Nat /\ t \in Nat
    BY <1>3, <1>4, <2>2, SumsDiffer
  <2>4. Nothing(s) /\ Nothing(t)
    BY <1>2, <1>3, <1>4, <1>6, SealedIs
  <2>5. a \in Words /\ b \in Words
    BY <1>1, <1>4 DEF Memory
  <2> HIDE DEF s, t
  <2>6. a # b /\ {a, b} # {0, Ones}
    BY <2>2
  <2> HIDE DEF a, b
  <2> QED BY <2>3, <2>4, <2>5, <2>6, NothingBetween
<1> QED BY <1>5, <1>6 DEF Sealed, len

LEMMA RecvHolds ==
  ASSUME DatagramIInv, Recv
  PROVE  DatagramIInv'
<1> DEFINE d == Overwrite(rpkt.datagram, 1, Arrived)
           len == Len(Arrived)
           e == spkt.datagram
           pkt == [rpkt EXCEPT !.datagram = d, !.datagram_len = len]
<1>1. /\ wire # <<>> /\ wire' = <<>> /\ UNCHANGED <<spkt, receiver, given, damage, sends>>
      /\ \/ /\ in_cksum(pkt.datagram, pkt.datagram_len) = 0
            /\ rpkt' = [pkt EXCEPT !.Hdr = get_hdr(pkt.datagram)] /\ received' = "good"
         \/ /\ in_cksum(pkt.datagram, pkt.datagram_len) # 0
            /\ rpkt' = pkt /\ received' = "bad"
  BY DEF Recv, pkt_checksum
<1>2. /\ e \in Memory /\ rpkt \in Pkts /\ rpkt.datagram \in Memory
      /\ damage \in {"none", "word", "zeros for ones"}
  BY DEF DatagramIInv, DatagramTypeOK, Pkts
<1>3. /\ given # NotGiven /\ Len(wire) = LenOf(given) /\ given \in Givens
      /\ Fits => Carries(e, given, Len(given.data))
  BY <1>1 DEF DatagramIInv, DatagramTypeOK, WireHolds, SenderHolds
<1>4. /\ Arrived \in Seq(Words) /\ len = HDR_LEN + Taken /\ len \in 4 .. HDR_LEN + Extent
      /\ Taken \in 0 .. Len(given.data) /\ (Whole => len = Len(wire))
      /\ \A i \in 1 .. len : i \in 1 .. Len(wire) /\ Arrived[i] = wire[i]
  BY <1>1, TakenIs
<1>5. d \in Memory /\ \A i \in 1 .. len : d[i] = wire[i]
  <2>1. d \in Memory /\ SameBut(d, Arrived, len, {})
    BY <1>2, <1>4, ArrivedIs
  <2> QED BY <1>4, <2>1 DEF SameBut
<1>6. pkt.datagram = d /\ pkt.datagram_len = len
  BY <1>2 DEF Pkts
<1> HIDE DEF d, len, e
<1>7. pkt \in Pkts
  <2>1. len \in 0 .. HDR_LEN + Extent
    BY <1>4, Parameters
  <2> QED BY <1>2, <1>5, <2>1 DEF Pkts
<1>8. pkt.room = rpkt.room
  BY <1>2 DEF Pkts
<1> HIDE DEF pkt
<1>9. get_hdr(d) \in [seq : LongWords, flag : Words]
  BY <1>5, HdrIs
<1>10. /\ rpkt' \in Pkts /\ rpkt'.room = rpkt.room
       /\ rpkt'.datagram = d /\ rpkt'.datagram_len = len
       /\ received' = "good" => in_cksum(d, len) = 0 /\ rpkt'.Hdr = get_hdr(d)
       /\ received' = "bad" => in_cksum(d, len) # 0
       /\ received' \in {"good", "bad"}
  BY <1>1, <1>6, <1>7, <1>8, <1>9 DEF Pkts
<1>11. DatagramTypeOK'
  <2>1. wire' \in Seq(Words)
    BY <1>1
  <2> QED BY <1>1, <1>10, <2>1 DEF DatagramIInv, DatagramTypeOK
<1>12. (Fits' <=> Fits) /\ (Whole' <=> Whole) /\ Taken' = Taken
  BY <1>1, <1>10 DEF Fits, Whole, Taken
<1>13. SenderHolds' /\ RoomHolds'
  BY <1>1, <1>10, <1>12 DEF DatagramIInv, SenderHolds, RoomHolds
<1>14. WireHolds'
  BY <1>1 DEF WireHolds
<1>15. Whole => SameBut(d, wire, Len(wire), {})
  BY <1>4, <1>5 DEF SameBut
<1>16. ASSUME received' = "good", damage # "zeros for ones", Fits, damage = "word" => Whole
       PROVE  Carries(d, given, Taken)
  <2>1. damage = "none"
    BY <1>1, <1>2, <1>4, <1>5, <1>10, <1>15, <1>16, SumTells
  <2>2. SameBut(wire, e, Len(wire), {})
    BY <1>1, <2>1 DEF DatagramIInv, WireHolds, e
  <2>3. \A i \in 1 .. len : d[i] = e[i]
    BY <1>4, <1>5, <2>2 DEF SameBut
  <2>4. /\ len = 4 + Taken /\ Taken \in Nat /\ Len(given.data) \in Nat
        /\ \A i \in 1 .. Taken : HDR_LEN + i \in 1 .. len /\ i \in 1 .. Len(given.data)
    BY <1>3, <1>4, GivenIs, Parameters
  <2>5. d[1] = e[1] /\ d[2] = e[2] /\ d[4] = e[4]
    BY <2>3, <2>4
  <2>6. Carries(e, given, Len(given.data))
    BY <1>3, <1>16
  <2>7. \A i \in 1 .. Taken : d[HDR_LEN + i] = given.data[i]
    BY <2>3, <2>4, <2>6 DEF Carries
  <2>8. Long(d[1], d[1 + 1]) = given.seq /\ d[4] = given.flag
    <3>1. Long(e[1], e[2]) = given.seq /\ e[4] = given.flag
      BY <2>6 DEF Carries, HDR_SEQ_OFFSET, HDR_FLAG_OFFSET
    <3> QED BY <2>5, <3>1
  <2> QED BY <2>7, <2>8 DEF Carries, HDR_SEQ_OFFSET, HDR_FLAG_OFFSET
<1>17. ASSUME received' = "bad", damage = "none" PROVE ~(Fits /\ Whole)
  BY <1>1, <1>4, <1>5, <1>10, <1>15, <1>17, SumTells
<1>18. ReceiverHolds'
  BY <1>1, <1>3, <1>4, <1>10, <1>12, <1>16, <1>17 DEF ReceiverHolds
<1> QED BY <1>11, <1>13, <1>14, <1>18 DEF DatagramIInv

(* What the datagram in memory says, the receiver reads.                   *)
LEMMA PayloadIs ==
  ASSUME NEW g \in Givens, NEW n \in 0 .. Len(g.data),
         NEW pkt, pkt.datagram \in Memory, pkt.datagram_len = HDR_LEN + n,
         Carries(pkt.datagram, g, n)
  PROVE  /\ Payload(pkt) = SubSeq(g.data, 1, n)
         /\ n = Len(g.data) => Payload(pkt) = g.data
<1> DEFINE d == pkt.datagram
           len == pkt.datagram_len
           data == g.data
           p == SubSeq(d, 5, len)
           q == SubSeq(data, 1, n)
<1>1. /\ data \in Seq(Words) /\ n \in Nat /\ len = 4 + n /\ len \in 4 .. HDR_LEN + Extent
      /\ HDR_LEN = 4 /\ Len(data) \in Nat /\ n =< Len(data)
  BY GivenIs, Parameters
<1>2. 1 .. len \subseteq Places /\ len \in Nat
  BY <1>1, MemoryWords
<1>3. d \in Memory /\ \A i \in 1 .. n : d[4 + i] = data[i]
  BY <1>1 DEF Carries
<1>4. Payload(pkt) = p
  BY <1>1 DEF Payload
<1> HIDE DEF d, len
<1>5. \A i \in 5 .. len : d[i] \in Words
  BY <1>2, <1>3 DEF Memory
<1>6. /\ p \in Seq(Words)
      /\ Len(p) = IF 5 =< len THEN len - 5 + 1 ELSE 0
      /\ \A i \in 1 .. len - 5 + 1 : p[i] = d[5 + i - 1]
  BY <1>2, <1>5, SubSeqProperties
<1> HIDE DEF p, data
<1>7. Len(p) = n /\ \A i \in 1 .. n : p[i] = data[i]
  BY <1>1, <1>3, <1>6
<1>8. /\ q \in Seq(Words) /\ Len(q) = n /\ \A i \in 1 .. n : q[i] = data[i]
  <2>1. \A i \in 1 .. n : data[i] \in Words
    BY <1>1
  <2>2. /\ q \in Seq(Words)
        /\ Len(q) = IF 1 =< n THEN n - 1 + 1 ELSE 0
        /\ \A i \in 1 .. n - 1 + 1 : q[i] = data[1 + i - 1]
    BY <1>1, <2>1, SubSeqProperties
  <2> QED BY <1>1, <2>2
<1> HIDE DEF q
<1>9. Len(p) = Len(q) /\ \A i \in 1 .. Len(p) : p[i] = q[i]
  BY <1>7, <1>8
<1>10. p = q
  BY <1>6, <1>8, <1>9, SeqEqual
<1>11. ASSUME n = Len(data) PROVE p = data
  <2>1. Len(p) = Len(data) /\ \A i \in 1 .. Len(p) : p[i] = data[i]
    BY <1>7, <1>11
  <2> QED BY <1>1, <1>6, <2>1, SeqEqual
<1> QED BY <1>4, <1>10, <1>11 DEF data, q

(* The numbers and the name of the request are read where they were put,   *)
(* and strlen finds the 0 that rcopy put after the name.                   *)
LEMMA RequestIs ==
  ASSUME NEW g \in Givens, NEW a \in InitArgs, g.data = InitPayload(a),
         NEW pkt, pkt.datagram \in Memory, Carries(pkt.datagram, g, Len(g.data))
  PROVE  process_init_syn(pkt) = a
<1> DEFINE d == pkt.datagram
           z == a.name
           n == Len(z)
           data == InitPayload(a)
<1>1. /\ a = [buffsize |-> a.buffsize, window_size |-> a.window_size, name |-> z]
      /\ a.buffsize \in LongWords /\ a.window_size \in LongWords /\ z \in Seq(Words \ {0})
  BY DatagramAssumption
<1>2. /\ n \in Nat /\ Len(data) = n + 5 /\ n + 5 =< Extent
      /\ data[1] = HighLow(a.buffsize)[1] /\ data[2] = HighLow(a.buffsize)[2]
      /\ data[3] = HighLow(a.window_size)[1] /\ data[4] = HighLow(a.window_size)[2]
      /\ \A i \in 1 .. n : data[4 + i] = z[i] /\ z[i] \in Words \ {0}
      /\ data[n + 5] = 0
  BY InitPayloadIs
<1>3. \A i \in 1 .. Len(data) : d[HDR_LEN + i] = data[i]
  BY DEF Carries
<1>4. d \in Memory /\ HDR_LEN = 4
  BY Parameters
<1> HIDE DEF d, n, data
<1>5. \A i \in 1 .. n + 5 : d[4 + i] = data[i]
  BY <1>2, <1>3, <1>4
<1>6. get_buffsize(pkt) = a.buffsize
  <2>1. d[5] = data[1] /\ d[6] = data[2]
    BY <1>2, <1>5
  <2>2. get_buffsize(pkt) = Long(d[5], d[6])
    BY <1>4 DEF get_buffsize, LongAt, DATA_BUFF_SIZE_OFF, d
  <2> QED BY <1>1, <1>2, <2>1, <2>2, HighLowIs
<1>7. get_window_size(pkt) = a.window_size
  <2>1. d[7] = data[3] /\ d[8] = data[4]
    BY <1>2, <1>5
  <2>2. get_window_size(pkt) = Long(d[7], d[8])
    BY <1>4 DEF get_window_size, LongAt, DATA_WINDOW_SIZE_OFF, d
  <2> QED BY <1>1, <1>2, <2>1, <2>2, HighLowIs
<1>8. DOMAIN d = 1 .. 4 + Extent /\ Len(d) = 4 + Extent /\ 4 + Extent \in Nat
  <2>1. DOMAIN d = 1 .. 4 + Extent /\ 4 + Extent \in Nat
    BY <1>4, Parameters DEF Memory, Places
  <2>2. d \in [1 .. 4 + Extent -> Words]
    BY <1>4 DEF Memory, Places
  <2> QED BY <2>1, <2>2
<1> DEFINE IsEnd(i) == d[i] = 0 /\ \A j \in 9 .. i - 1 : d[j] # 0
           end == CHOOSE i \in 9 .. 4 + Extent : IsEnd(i)
           e == n + 9
<1>9. e \in 9 .. 4 + Extent /\ e \in Nat
  BY <1>2, Parameters
<1>10. d[e] = 0 /\ \A j \in 9 .. e - 1 : d[j] = z[j - 8] /\ z[j - 8] \in Words \ {0}
  <2>1. d[e] = 0
    <3>1. n + 5 \in 1 .. n + 5 /\ 4 + (n + 5) = e
      BY <1>2
    <3>2. d[4 + (n + 5)] = data[n + 5]
      BY <1>5, <3>1
    <3> QED BY <1>2, <3>1, <3>2
  <2>2. ASSUME NEW j \in 9 .. e - 1 PROVE d[j] = z[j - 8] /\ z[j - 8] \in Words \ {0}
    <3> DEFINE k == j - 8
    <3>1. k \in 1 .. n /\ 4 + k \in 1 .. n + 5 /\ 4 + (4 + k) = j
      BY <1>2
    <3> HIDE DEF k
    <3>2. d[4 + (4 + k)] = data[4 + k] /\ data[4 + k] = z[k] /\ z[k] \in Words \ {0}
      BY <1>2, <1>5, <3>1
    <3> QED BY <3>1, <3>2 DEF k
  <2> QED BY <2>1, <2>2
<1> HIDE DEF e
<1>11. IsEnd(e)
  BY <1>10
<1>12. ASSUME NEW i \in 9 .. 4 + Extent, IsEnd(i) PROVE i = e
  <2>1. i \in Nat
    BY Parameters
  <2>2. CASE i < e
    <3>1. i \in 9 .. e - 1
      BY <1>9, <2>1, <2>2
    <3> QED BY <1>10, <1>12, <3>1
  <2>3. CASE i > e
    <3>1. e \in 9 .. i - 1
      BY <1>9, <2>1, <2>3
    <3> QED BY <1>10, <1>12, <3>1
  <2> QED BY <1>9, <2>1, <2>2, <2>3
<1>13. end = e
  <2> HIDE DEF IsEnd
  <2>1. \E i \in 9 .. 4 + Extent : IsEnd(i)
    BY <1>9, <1>11
  <2>2. end \in 9 .. 4 + Extent /\ IsEnd(end)
    BY <2>1
  <2> QED BY <1>12, <2>2
<1>14. get_filename(pkt) = SubSeq(d, 9, end - 1)
  BY <1>4, <1>8 DEF get_filename, DATA_FILENAME_OFF, d
<1> HIDE DEF end, IsEnd
<1> DEFINE s == SubSeq(d, 9, e - 1)
<1>15. s = z
  <2>1. \A i \in 9 .. e - 1 : d[i] \in Words \ {0}
    BY <1>10
  <2>2. e - 1 \in Int
    BY <1>9
  <2>3. /\ s \in Seq(Words \ {0})
        /\ Len(s) = IF 9 =< e - 1 THEN e - 1 - 9 + 1 ELSE 0
        /\ \A i \in 1 .. e - 1 - 9 + 1 : s[i] = d[9 + i - 1]
    BY <2>1, <2>2, SubSeqProperties
  <2> HIDE DEF s
  <2>4. Len(s) = n
    BY <1>2, <1>9, <2>3 DEF e
  <2>5. ASSUME NEW i \in 1 .. n PROVE s[i] = z[i]
    <3> DEFINE k == 9 + i - 1
    <3>1. i \in 1 .. e - 1 - 9 + 1 /\ k \in 9 .. e - 1 /\ k - 8 = i
      BY <1>2 DEF e
    <3> HIDE DEF k
    <3>2. s[i] = d[k]
      BY <2>3, <3>1 DEF k
    <3> QED BY <1>10, <3>1, <3>2
  <2>6. Len(s) = Len(z) /\ \A i \in 1 .. Len(s) : s[i] = z[i]
    BY <2>4, <2>5 DEF n
  <2> QED BY <1>1, <2>3, <2>6, SeqEqual
<1> QED BY <1>1, <1>6, <1>7, <1>13, <1>14, <1>15 DEF process_init_syn

-----------------------------------------------------------------------------
(* The inductive invariant: the datagram in the sender's pkt adds up to    *)
(* nothing and carries what it was created from, that on the wire differs  *)
(* from it in what the network damaged, and the receiver believes nothing  *)
(* else.  TLC checks it for one size of word and buffer.                   *)
THEOREM DatagramInvariance == DatagramSpec => []DatagramIInv
<1>1. DatagramInit => DatagramIInv
  BY InitHolds
<1>2. DatagramIInv /\ [DatagramNext]_datagramVars => DatagramIInv'
  <2>1. SUFFICES ASSUME DatagramIInv, [DatagramNext]_datagramVars PROVE DatagramIInv'
    OBVIOUS
  <2>2. CASE Create
    BY <2>1, <2>2, CreateHolds
  <2>3. CASE CreateRequest
    BY <2>1, <2>3, CreateRequestHolds
  <2>4. CASE Send
    BY <2>1, <2>4, SendHolds
  <2>5. CASE Damage
    BY <2>1, <2>5, DamageHolds
  <2>6. CASE Recv
    BY <2>1, <2>6, RecvHolds
  <2>7. CASE UNCHANGED datagramVars
    BY <2>1, <2>7 DEF datagramVars, DatagramIInv, DatagramTypeOK, RoomHolds, SenderHolds,
                      WireHolds, ReceiverHolds, Fits, Whole, Taken
  <2> QED BY <2>1, <2>2, <2>3, <2>4, <2>5, <2>6, <2>7 DEF DatagramNext
<1> QED BY <1>1, <1>2, PTL DEF DatagramSpec

(* What recv_pkt believes, header and payload, is what create_pkt was      *)
(* given, or the beginning of it when recv_pkt has no room for more, for   *)
(* every size of word and of the two pkts and everything they may hold.    *)
THEOREM DatagramGoodIsAsCreated == DatagramSpec => []GoodIsAsCreated
<1>1. DatagramIInv => GoodIsAsCreated
  <2>1. SUFFICES ASSUME DatagramIInv, received = "good", damage # "zeros for ones", Fits,
                        damage = "word" => Whole
                 PROVE  /\ rpkt.Hdr.flag = given.flag /\ rpkt.Hdr.seq = given.seq
                        /\ Payload(rpkt) = IF Whole THEN given.data
                                           ELSE SubSeq(given.data, 1, rpkt.room)
    BY DEF GoodIsAsCreated
  <2>2. /\ given \in Givens /\ rpkt.datagram_len = HDR_LEN + Taken
        /\ Carries(rpkt.datagram, given, Taken)
        /\ rpkt.Hdr = get_hdr(rpkt.datagram) /\ rpkt.datagram \in Memory
        /\ rpkt.room \in 0 .. Extent
    BY <2>1 DEF DatagramIInv, DatagramTypeOK, ReceiverHolds, Pkts
  <2>3. rpkt.Hdr.flag = given.flag /\ rpkt.Hdr.seq = given.seq
    BY <2>2 DEF get_hdr, Carries
  <2>4. Len(given.data) \in Nat
    BY <2>2, GivenIs
  <2>5. Taken \in 0 .. Len(given.data) /\ Taken = IF Whole THEN Len(given.data) ELSE rpkt.room
    BY <2>2, <2>4, Parameters DEF Taken, Whole
  <2>6. /\ Payload(rpkt) = SubSeq(given.data, 1, Taken)
        /\ Taken = Len(given.data) => Payload(rpkt) = given.data
    BY <2>2, <2>5, PayloadIs
  <2> QED BY <2>3, <2>5, <2>6
<1> QED BY <1>1, DatagramInvariance, PTL

(* recv_pkt refuses no datagram that arrives as it was sent, but for a     *)
(* FILE_NAME that is longer than rcopy's pkt or its own.                   *)
THEOREM DatagramWholeIsGood == DatagramSpec => []WholeIsGood
<1>1. DatagramIInv => WholeIsGood
  <2>1. SUFFICES ASSUME DatagramIInv, received = "bad", damage = "none"
                 PROVE  given.flag = FILE_NAME /\ ~(Fits /\ Whole)
    BY DEF WholeIsGood
  <2>2. given \in Givens /\ ~(Fits /\ Whole) /\ given.flag # DATA
    BY <2>1 DEF DatagramIInv, DatagramTypeOK, RoomHolds, ReceiverHolds
  <2> QED BY <2>2, GivenIs
<1> QED BY <1>1, DatagramInvariance, PTL

(* The block size, the window and the name the child takes from a request  *)
(* it believes are those rcopy asked for, when the request fits one block  *)
(* and the pkt it is received in.                                          *)
THEOREM DatagramRequestArrives == DatagramSpec => []RequestArrives
<1>1. DatagramIInv => RequestArrives
  <2>1. SUFFICES ASSUME DatagramIInv, received = "good", damage # "zeros for ones",
                        rpkt.Hdr.flag = FILE_NAME, Fits, Whole
                 PROVE  \E a \in InitArgs : /\ process_init_syn(rpkt) = a
                                           /\ given.data = InitPayload(a)
    BY DEF RequestArrives
  <2>2. /\ given \in Givens /\ Carries(rpkt.datagram, given, Len(given.data))
        /\ rpkt.Hdr = get_hdr(rpkt.datagram) /\ rpkt.datagram \in Memory
    BY <2>1 DEF DatagramIInv, DatagramTypeOK, ReceiverHolds, Pkts, Taken
  <2>3. rpkt.Hdr.flag = given.flag
    BY <2>2 DEF get_hdr, Carries
  <2>4. PICK a \in InitArgs : given.data = InitPayload(a)
    BY <2>1, <2>2, <2>3, GivenIs
  <2>5. process_init_syn(rpkt) = a
    BY <2>2, <2>4, RequestIs
  <2> QED BY <2>4, <2>5
<1> QED BY <1>1, DatagramInvariance, PTL
=============================================================================
