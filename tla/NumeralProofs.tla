--------------------------- MODULE NumeralProofs ---------------------------
(***************************************************************************)
(* Proofs about Numerals, for fields of every width: the number that a     *)
(* field of display digits, of binary, of packed or of zoned digits is     *)
(* written with is read back, of the first two as far as an i64 holds it,  *)
(* and the bytes of a binary field are written back as they were read.     *)
(*                                                                         *)
(* All of it rests on one fact (DigitsReturn): digits taken off a number   *)
(* one after the other and put behind what is left of it make the number   *)
(* again.                                                                  *)
(***************************************************************************)
EXTENDS Numerals, Induction

-----------------------------------------------------------------------------
(* What is left of a number, and the number that digits stand for *)

Bases == {10, 256}

LEMMA ByTen ==
    ASSUME NEW x \in Int
    PROVE  10 * (x \div 10) + (x % 10) = x /\ x % 10 \in 0 .. 9 /\ x \div 10 \in Int
  OBVIOUS

LEMMA ByByte ==
    ASSUME NEW x \in Int
    PROVE  256 * (x \div 256) + (x % 256) = x /\ x % 256 \in 0 .. 255 /\ x \div 256 \in Int
  OBVIOUS

LEMMA OfTen ==
    ASSUME NEW q \in Int, NEW r \in 0 .. 9
    PROVE  (10 * q + r) \div 10 = q /\ (10 * q + r) % 10 = r
  OBVIOUS

LEMMA OfByte ==
    ASSUME NEW q \in Int, NEW r \in 0 .. 255
    PROVE  (256 * q + r) \div 256 = q /\ (256 * q + r) % 256 = r
  OBVIOUS

LEMMA OfBase ==
    ASSUME NEW base \in Bases, NEW q \in Int, NEW r \in 0 .. base - 1
    PROVE  (base * q + r) \div base = q /\ (base * q + r) % base = r
<1>1. CASE base = 10
  <2>1. r \in 0 .. 9
    BY <1>1
  <2> QED
    BY <1>1, <2>1, OfTen
<1>2. CASE base = 256
  <2>1. r \in 0 .. 255
    BY <1>2
  <2> QED
    BY <1>2, <2>1, OfByte
<1> QED
  BY <1>1, <1>2 DEF Bases

LEMMA ByBase ==
    ASSUME NEW x \in Int, NEW base \in Bases
    PROVE  base * (x \div base) + (x % base) = x /\ x % base \in 0 .. base - 1
<1>1. CASE base = 10
  BY <1>1, ByTen
<1>2. CASE base = 256
  BY <1>2, ByByte
<1> QED
  BY <1>1, <1>2 DEF Bases

(* From one number to the next. *)
LEMMA Chain ==
    ASSUME NEW K \in Nat, NEW x \in Int, NEW step \in [(1 .. K) \X Int -> Int]
    PROVE  \E g \in [0 .. K -> Int] : g[0] = x /\ \A i \in 1 .. K : g[i] = step[<<i, g[i - 1]>>]
<1> DEFINE D == 0 .. K
           stop == {0}
           rank == [i \in D |-> i]
           next == [i \in D |-> IF i = 0 THEN 0 ELSE i - 1]
           base == [i \in D |-> x]
           turn == [p \in D \X Int |-> IF p[1] = 0 THEN x ELSE step[p]]
<1>1. Descends(D, Int, K, rank, next, base, turn, stop)
  <2>1. rank \in [D -> 0 .. K] /\ next \in [D -> D] /\ base \in [D -> Int]
    OBVIOUS
  <2>2. turn \in [D \X Int -> Int]
    <3> SUFFICES ASSUME NEW p \in D \X Int, p[1] # 0 PROVE step[p] \in Int
      OBVIOUS
    <3>1. p \in (1 .. K) \X Int
      OBVIOUS
    <3> QED
      BY <3>1
  <2>3. \A i \in D \ stop : rank[next[i]] < rank[i]
    OBVIOUS
  <2> QED
    BY <2>1, <2>2, <2>3 DEF Descends
<1>2. PICK g \in [D -> Int] : \A i \in D : Told(g, i, next, base, turn, stop)
  <2> HIDE DEF D, rank, next, base, turn, stop
  <2> QED
    BY <1>1, Recursion
<1>3. g[0] = x
  <2>1. 0 \in D /\ 0 \in stop /\ base[0] = x
    OBVIOUS
  <2> QED
    BY <1>2, <2>1 DEF Told
<1>4. ASSUME NEW i \in 1 .. K PROVE g[i] = step[<<i, g[i - 1]>>]
  <2>1. i \in D /\ i # 0 /\ i - 1 \in D
    OBVIOUS
  <2>2. <<i, g[i - 1]>> \in D \X Int
    BY <1>2, <2>1
  <2>3. g[i] = turn[<<i, g[i - 1]>>]
    BY <1>2, <2>1 DEF Told
  <2> QED
    BY <2>1, <2>2, <2>3
<1> QED
  BY <1>2, <1>3, <1>4

LEMMA ShiftedChain ==
    ASSUME NEW n \in Int, NEW base \in Bases, NEW K \in Nat
    PROVE  \E g \in [0 .. K -> Int] :
              /\ g[0] = n /\ \A i \in 1 .. K : g[i] = g[i - 1] \div base
              /\ Shifted(n, base, K) = g[K]
<1> DEFINE D == 0 .. K
           Turn(h) == [i \in D |-> IF i = 0 THEN n ELSE h[i - 1] \div base]
           f == CHOOSE h : h = Turn(h)
           step == [p \in (1 .. K) \X Int |-> p[2] \div base]
<1>0. \A x \in Int : x \div base \in Int
  BY DEF Bases
<1>1. step \in [(1 .. K) \X Int -> Int]
  BY <1>0
<1>2. PICK g \in [D -> Int] : g[0] = n /\ \A i \in 1 .. K : g[i] = step[<<i, g[i - 1]>>]
  <2> HIDE DEF step
  <2> QED
    BY <1>1, Chain
<1>3. \A i \in 1 .. K : g[i] = g[i - 1] \div base
  <2> SUFFICES ASSUME NEW i \in 1 .. K PROVE g[i] = g[i - 1] \div base
    OBVIOUS
  <2>1. <<i, g[i - 1]>> \in (1 .. K) \X Int
    BY <1>2
  <2> QED
    BY <1>2, <2>1
<1>4. g = Turn(g)
  BY <1>2, <1>3
<1>5. f = Turn(f)
  <2> HIDE DEF Turn
  <2> QED
    BY <1>4
<1>6. Shifted(n, base, K) = f[K]
  BY DEF Shifted
<1> HIDE DEF f
<1>7. f[0] = n /\ \A i \in 1 .. K : f[i] = f[i - 1] \div base
  <2>1. \A i \in D : f[i] = IF i = 0 THEN n ELSE f[i - 1] \div base
    BY <1>5, Zenon
  <2>2. 0 \in D /\ \A i \in 1 .. K : i \in D /\ i # 0
    OBVIOUS
  <2> QED
    BY <2>1, <2>2, Zenon
<1>8. \A i \in 0 .. K : f[i] = g[i]
  <2> DEFINE Good == {i \in Nat : i =< K => f[i] = g[i]}
  <2>1. 0 \in Good
    BY <1>2, <1>7
  <2>2. ASSUME NEW i \in Nat, i \in Good PROVE i + 1 \in Good
    <3> SUFFICES ASSUME i + 1 =< K PROVE f[i + 1] = g[i + 1]
      OBVIOUS
    <3>1. i + 1 \in 1 .. K /\ i + 1 \in 1 .. K + 1 /\ (i + 1) - 1 = i /\ f[i] = g[i]
      BY <2>2
    <3> QED
      BY <1>3, <1>7, <3>1
  <2>3. Nat \subseteq Good
    <3> HIDE DEF Good
    <3> QED
      BY <2>1, <2>2, SetInduction
  <2> QED
    BY <2>3
<1> QED
  BY <1>2, <1>3, <1>6, <1>8

LEMMA ShiftedIs ==
    ASSUME NEW n \in Int, NEW base \in Bases, NEW K \in Nat
    PROVE  /\ Shifted(n, base, K) \in Int
           /\ Shifted(n, base, 0) = n
           /\ Shifted(n, base, K + 1) = Shifted(n, base, K) \div base
<1>1. PICK g \in [0 .. K -> Int] :
         /\ g[0] = n /\ \A i \in 1 .. K : g[i] = g[i - 1] \div base
         /\ Shifted(n, base, K) = g[K]
  BY ShiftedChain
<1>2. PICK h \in [0 .. K + 1 -> Int] :
         /\ h[0] = n /\ \A i \in 1 .. K + 1 : h[i] = h[i - 1] \div base
         /\ Shifted(n, base, K + 1) = h[K + 1]
  <2> DEFINE m == K + 1
  <2>1. m \in Nat
    OBVIOUS
  <2> HIDE DEF m
  <2>2. \E h \in [0 .. m -> Int] :
           /\ h[0] = n /\ \A i \in 1 .. m : h[i] = h[i - 1] \div base
           /\ Shifted(n, base, m) = h[m]
    BY <2>1, ShiftedChain
  <2> QED
    BY <2>2 DEF m
<1>3. Shifted(n, base, 0) = n
  <2> DEFINE m == 0
  <2>1. m \in Nat
    OBVIOUS
  <2> HIDE DEF m
  <2>2. \E e \in [0 .. m -> Int] :
           /\ e[0] = n /\ \A i \in 1 .. m : e[i] = e[i - 1] \div base
           /\ Shifted(n, base, m) = e[m]
    BY <2>1, ShiftedChain
  <2> QED
    BY <2>2 DEF m
<1>4. h[K] = g[K]
  <2> DEFINE Good == {i \in Nat : i =< K => h[i] = g[i]}
  <2>1. 0 \in Good
    BY <1>1, <1>2
  <2>2. ASSUME NEW i \in Nat, i \in Good PROVE i + 1 \in Good
    <3> SUFFICES ASSUME i + 1 =< K PROVE h[i + 1] = g[i + 1]
      OBVIOUS
    <3>1. i + 1 \in 1 .. K /\ i + 1 \in 1 .. K + 1 /\ (i + 1) - 1 = i /\ h[i] = g[i]
      BY <2>2
    <3> QED
      BY <1>1, <1>2, <3>1
  <2>3. Nat \subseteq Good
    <3> HIDE DEF Good
    <3> QED
      BY <2>1, <2>2, SetInduction
  <2> QED
    BY <2>3
<1>5. h[K + 1] = h[K] \div base
  <2>1. K + 1 \in 1 .. K + 1 /\ (K + 1) - 1 = K
    OBVIOUS
  <2> QED
    BY <1>2, <2>1
<1> QED
  BY <1>1, <1>2, <1>3, <1>4, <1>5

(* What the digits come to, one after the other. *)
LEMMA HornerChain ==
    ASSUME NEW start \in Int, NEW base \in Bases, NEW d \in Seq(Int)
    PROVE  \E g \in [0 .. Len(d) -> Int] :
              /\ g[0] = start /\ \A i \in 1 .. Len(d) : g[i] = base * g[i - 1] + d[i]
              /\ Horner(start, base, d) = g[Len(d)]
<1> DEFINE K == Len(d)
           D == 0 .. K
           Turn(h) == [i \in D |-> IF i = 0 THEN start ELSE base * h[i - 1] + d[i]]
           f == CHOOSE h : h = Turn(h)
           step == [p \in (1 .. K) \X Int |-> base * p[2] + d[p[1]]]
<1>0. /\ K \in Nat /\ \A i \in 1 .. K : d[i] \in Int
      /\ \A x, y \in Int : base * x + y \in Int
  <2>1. K \in Nat /\ \A i \in 1 .. K : d[i] \in Int
    BY LenProperties, ElementOfSeq
  <2>2. \A x, y \in Int : base * x + y \in Int
    BY DEF Bases
  <2> QED
    BY <2>1, <2>2
<1>6. Horner(start, base, d) = f[K]
  BY DEF Horner
<1> HIDE DEF K
<1>1. step \in [(1 .. K) \X Int -> Int]
  BY <1>0
<1>2. PICK g \in [D -> Int] : g[0] = start /\ \A i \in 1 .. K : g[i] = step[<<i, g[i - 1]>>]
  <2> HIDE DEF step
  <2> QED
    BY <1>0, <1>1, Chain
<1>3. \A i \in 1 .. K : g[i] = base * g[i - 1] + d[i]
  <2> SUFFICES ASSUME NEW i \in 1 .. K PROVE g[i] = base * g[i - 1] + d[i]
    OBVIOUS
  <2>1. i - 1 \in D
    BY <1>0
  <2>2. g[i - 1] \in Int
    BY <1>2, <2>1
  <2>3. <<i, g[i - 1]>> \in (1 .. K) \X Int
    BY <2>2
  <2> QED
    BY <1>2, <2>3
<1>4. g = Turn(g)
  <2>1. \A i \in D : g[i] = IF i = 0 THEN start ELSE base * g[i - 1] + d[i]
    <3>1. \A i \in D : i = 0 \/ i \in 1 .. K
      BY <1>0
    <3> HIDE DEF D
    <3> QED
      BY <1>2, <1>3, <3>1
  <2>2. g = [i \in D |-> g[i]]
    BY <1>2
  <2> HIDE DEF D
  <2> QED
    BY <2>1, <2>2
<1>5. f = Turn(f)
  <2> HIDE DEF Turn
  <2> QED
    BY <1>4
<1> HIDE DEF f
<1>7. f[0] = start /\ \A i \in 1 .. K : f[i] = base * f[i - 1] + d[i]
  <2>1. \A i \in D : f[i] = IF i = 0 THEN start ELSE base * f[i - 1] + d[i]
    BY <1>5, Zenon
  <2>2. 0 \in D /\ \A i \in 1 .. K : i \in D /\ i # 0
    BY <1>0
  <2> QED
    BY <2>1, <2>2, Zenon
<1>8. f[K] = g[K]
  <2> DEFINE Good == {i \in Nat : i =< K => f[i] = g[i]}
  <2>1. 0 \in Good
    BY <1>2, <1>7
  <2>2. ASSUME NEW i \in Nat, i \in Good PROVE i + 1 \in Good
    <3> SUFFICES ASSUME i + 1 =< K PROVE f[i + 1] = g[i + 1]
      OBVIOUS
    <3>1. i + 1 \in 1 .. K /\ (i + 1) - 1 = i /\ f[i] = g[i]
      BY <1>0, <2>2
    <3> QED
      BY <1>3, <1>7, <3>1
  <2>3. Nat \subseteq Good
    <3> HIDE DEF Good
    <3> QED
      BY <2>1, <2>2, SetInduction
  <2>4. K \in Good /\ K =< K
    <3> HIDE DEF Good
    <3> QED
      BY <1>0, <2>3
  <2> QED
    BY <2>4
<1> QED
  BY <1>2, <1>3, <1>6, <1>8 DEF K

(* Digits taken off a number, put behind what is left of it, make the      *)
(* number again.                                                           *)
LEMMA DigitsReturn ==
    ASSUME NEW n \in Int, NEW base \in Bases, NEW d \in Seq(Int),
           \A i \in 1 .. Len(d) : d[i] = Shifted(n, base, Len(d) - i) % base
    PROVE  Horner(Shifted(n, base, Len(d)), base, d) = n
<1> DEFINE K == Len(d)
           left(i) == Shifted(n, base, K - i)
<1>1. K \in Nat
  BY LenProperties
<1>2. Shifted(n, base, K) \in Int
  BY <1>1, ShiftedIs
<1>3. PICK g \in [0 .. K -> Int] :
         /\ g[0] = Shifted(n, base, K) /\ \A i \in 1 .. K : g[i] = base * g[i - 1] + d[i]
         /\ Horner(Shifted(n, base, K), base, d) = g[K]
  BY <1>2, HornerChain
<1> HIDE DEF K
<1>4. ASSUME NEW i \in 1 .. K PROVE left(i - 1) \in Int /\ left(i) \in Int /\ left(i - 1) = left(i) \div base
  <2> DEFINE k == K - i
  <2>1. k \in Nat /\ k + 1 = K - (i - 1) /\ k + 1 \in Nat
    BY <1>1
  <2> HIDE DEF k
  <2>2. Shifted(n, base, k) \in Int /\ Shifted(n, base, k + 1) = Shifted(n, base, k) \div base
    BY <2>1, ShiftedIs
  <2>3. Shifted(n, base, k + 1) \in Int
    BY <2>1, ShiftedIs
  <2> QED
    BY <2>1, <2>2, <2>3 DEF k
<1>6. g[K] = Shifted(n, base, 0)
  <2> DEFINE Good == {i \in Nat : i =< K => g[i] = left(i)}
  <2>1. 0 \in Good
    BY <1>1, <1>3
  <2>2. ASSUME NEW i \in Nat, i \in Good PROVE i + 1 \in Good
    <3> SUFFICES ASSUME i + 1 =< K PROVE g[i + 1] = left(i + 1)
      OBVIOUS
    <3> DEFINE j == i + 1
    <3>1. j \in 1 .. K /\ j - 1 = i /\ g[i] = left(i)
      BY <1>1, <2>2
    <3> HIDE DEF j
    <3>2. g[j] = base * g[j - 1] + d[j] /\ d[j] = left(j) % base
      BY <1>3, <3>1 DEF K
    <3>3. left(j) \in Int /\ g[j - 1] = left(j) \div base
      BY <1>4, <3>1
    <3>4. g[j] = left(j)
      <4> DEFINE x == left(j)
      <4>1. x \in Int /\ g[j] = base * (x \div base) + (x % base)
        BY <3>2, <3>3
      <4> HIDE DEF x
      <4>2. g[j] = x
        BY <4>1, ByBase
      <4> QED
        BY <4>2 DEF x
    <3> QED
      BY <3>4 DEF j
  <2>3. Nat \subseteq Good
    <3> HIDE DEF Good
    <3> QED
      BY <2>1, <2>2, SetInduction
  <2>4. K - K = 0
    BY <1>1
  <2>5. g[K] = left(K)
    BY <1>1, <2>3
  <2> QED
    BY <2>4, <2>5
<1>7. Shifted(n, base, 0) = n
  BY <1>1, ShiftedIs
<1> QED
  BY <1>3, <1>6, <1>7 DEF K

(* The digits of a number that digits make are those digits. *)
LEMMA DigitsOfHorner ==
    ASSUME NEW start \in Int, NEW base \in Bases, NEW d \in Seq(0 .. base - 1)
    PROVE  /\ Horner(start, base, d) \in Int
           /\ \A i \in 1 .. Len(d) :
                 Shifted(Horner(start, base, d), base, Len(d) - i) % base = d[i]
           /\ Shifted(Horner(start, base, d), base, Len(d)) = start
<1> DEFINE K == Len(d)
           n == Horner(start, base, d)
<1>1. K \in Nat /\ d \in Seq(Int) /\ \A i \in 1 .. K : d[i] \in 0 .. base - 1
  <2>1. K \in Nat /\ d \in [1 .. K -> 0 .. base - 1]
    BY LenProperties, SeqDef
  <2>2. d \in [1 .. K -> Int]
    BY <2>1
  <2> QED
    BY <2>1, <2>2, SeqDef
<1>2. PICK g \in [0 .. K -> Int] :
         /\ g[0] = start /\ \A i \in 1 .. K : g[i] = base * g[i - 1] + d[i]
         /\ n = g[K]
  BY <1>1, HornerChain
<1> HIDE DEF K, n
<1>3. n \in Int
  BY <1>1, <1>2
<1>4. ASSUME NEW i \in 1 .. K PROVE g[i] \div base = g[i - 1] /\ g[i] % base = d[i]
  <2>1. g[i - 1] \in Int /\ d[i] \in 0 .. base - 1 /\ g[i] = base * g[i - 1] + d[i]
    <3>1. i - 1 \in 0 .. K
      BY <1>1
    <3> QED
      BY <1>1, <1>2, <3>1
  <2> DEFINE q == g[i - 1]
             r == d[i]
  <2>2. q \in Int /\ r \in 0 .. base - 1 /\ g[i] = base * q + r
    BY <2>1
  <2> HIDE DEF q, r
  <2>3. g[i] \div base = q /\ g[i] % base = r
    BY <2>2, OfBase
  <2> QED
    BY <2>3 DEF q, r
<1>5. \A j \in Nat : j =< K => Shifted(n, base, j) = g[K - j]
  <2> DEFINE Good == {j \in Nat : j =< K => Shifted(n, base, j) = g[K - j]}
  <2>1. 0 \in Good
    <3>1. K - 0 = K /\ Shifted(n, base, 0) = n
      BY <1>1, <1>3, ShiftedIs
    <3> QED
      BY <1>2, <3>1
  <2>2. ASSUME NEW j \in Nat, j \in Good PROVE j + 1 \in Good
    <3> SUFFICES ASSUME j + 1 =< K PROVE Shifted(n, base, j + 1) = g[K - (j + 1)]
      OBVIOUS
    <3> DEFINE i == K - j
    <3>1. i \in 1 .. K /\ i - 1 = K - (j + 1)
      BY <1>1
    <3>2. Shifted(n, base, j) = g[i]
      BY <1>1, <2>2
    <3> HIDE DEF i
    <3>3. Shifted(n, base, j + 1) = Shifted(n, base, j) \div base
      BY <1>3, ShiftedIs
    <3>4. g[i] \div base = g[i - 1]
      BY <1>4, <3>1
    <3> QED
      BY <3>1, <3>2, <3>3, <3>4
  <2>3. Nat \subseteq Good
    <3> HIDE DEF Good
    <3> QED
      BY <2>1, <2>2, SetInduction
  <2> QED
    BY <2>3
<1>6. ASSUME NEW i \in 1 .. K PROVE Shifted(n, base, K - i) % base = d[i]
  <2>1. K - i \in Nat /\ K - i =< K /\ K - (K - i) = i
    BY <1>1
  <2>2. Shifted(n, base, K - i) = g[i]
    BY <1>5, <2>1
  <2> QED
    BY <1>4, <2>2
<1>7. Shifted(n, base, K) = start
  <2>1. K - K = 0 /\ K =< K
    BY <1>1
  <2> QED
    BY <1>1, <1>2, <1>5, <2>1
<1> QED
  BY <1>3, <1>6, <1>7 DEF K, n

-----------------------------------------------------------------------------
(* Binary *)

Byte == 0 .. 255

(* A number is all in its low bytes: what is left from the first byte on   *)
(* is that byte's value, as a signed number where the field has a sign.    *)
(* Eight bytes are read as an i64, and hold no more than that does.        *)
FitsBytes(n, width, signed) ==
    Shifted(n, 256, width - 1) \in IF signed THEN -128 .. 127
                                   ELSE 0 .. IF width = 8 THEN 127 ELSE 255

(* Whether the first byte, the most significant one, is read as a signed   *)
(* number.                                                                 *)
Negative(first, width, signed) == first >= 128 /\ (signed \/ width = 8)

LEMMA ReverseTwice ==
    ASSUME NEW S, NEW s \in Seq(S)
    PROVE  Reverse(s) \in Seq(S) /\ Len(Reverse(s)) = Len(s) /\ Reverse(Reverse(s)) = s
<1> DEFINE K == Len(s)
           t == Reverse(s)
<1>1. K \in Nat /\ s \in [1 .. K -> S]
  BY LenProperties, SeqDef
<1>2. t = [i \in 1 .. K |-> s[(K - i) + 1]]
  BY DEF Reverse
<1>3. Reverse(t) = [i \in 1 .. Len(t) |-> t[(Len(t) - i) + 1]]
  BY DEF Reverse
<1> HIDE DEF K, t
<1>4. t \in [1 .. K -> S]
  BY <1>1, <1>2
<1>5. t \in Seq(S) /\ Len(t) = K
  BY <1>1, <1>4, SeqDef, LenProperties
<1>6. \A i \in 1 .. K : t[(K - i) + 1] = s[i]
  BY <1>1, <1>2
<1>7. Reverse(t) = s
  BY <1>1, <1>3, <1>5, <1>6
<1> QED
  BY <1>5, <1>7 DEF K, t

LEMMA OrderTwice ==
    ASSUME NEW S, NEW s \in Seq(S), NEW endian
    PROVE  /\ InOrderOf(s, endian) \in Seq(S) /\ Len(InOrderOf(s, endian)) = Len(s)
           /\ InOrderOf(InOrderOf(s, endian), endian) = s
  BY ReverseTwice DEF InOrderOf

Low(n, width) == [i \in 1 .. width |-> Above(n, width - i) % 256]

LEMMA LowBytes ==
    ASSUME NEW n \in Int, NEW width \in 1 .. 8
    PROVE  /\ Low(n, width) \in Seq(Byte) /\ Len(Low(n, width)) = width
           /\ Low(n, width)[1] = Shifted(n, 256, width - 1) % 256
           /\ Horner(Shifted(n, 256, width), 256, Low(n, width)) = n
<1> DEFINE d == Low(n, width)
           base == 256
<1>1. base \in Bases
  BY DEF Bases
<1>2. /\ \A i \in 1 .. width : d[i] = Shifted(n, base, width - i) % base
      /\ d = [i \in 1 .. width |-> d[i]]
  BY DEF Low, Above
<1> HIDE DEF d
<1>3. ASSUME NEW i \in 1 .. width PROVE d[i] \in Byte
  <2> DEFINE k == width - i
  <2>1. k \in Nat
    OBVIOUS
  <2> HIDE DEF k, base
  <2>2. Shifted(n, base, k) \in Int
    BY <1>1, <2>1, ShiftedIs
  <2>3. d[i] = Shifted(n, base, k) % base
    BY <1>2 DEF k
  <2> QED
    BY <2>2, <2>3, ByByte DEF Byte, base
<1>4. d \in Seq(Byte) /\ d \in Seq(Int) /\ Len(d) = width
  <2>1. width \in Nat
    OBVIOUS
  <2>2. d \in [1 .. width -> Byte]
    BY <1>2, <1>3
  <2>3. d \in [1 .. width -> Int]
    <3>1. \A i \in 1 .. width : d[i] \in Int
      BY <1>3 DEF Byte
    <3> QED
      BY <1>2, <3>1
  <2> QED
    BY <2>1, <2>2, <2>3, SeqDef, LenProperties
<1> HIDE DEF base
<1>5. Horner(Shifted(n, base, Len(d)), base, d) = n
  <2>1. \A i \in 1 .. Len(d) : d[i] = Shifted(n, base, Len(d) - i) % base
    BY <1>2, <1>4
  <2> QED
    BY <1>1, <1>4, <2>1, DigitsReturn
<1>6. d[1] = Shifted(n, base, width - 1) % base
  <2>1. 1 \in 1 .. width
    OBVIOUS
  <2> QED
    BY <1>2, <2>1
<1> QED
  BY <1>4, <1>5, <1>6 DEF d, base

(* A number that fits in a binary field is written into as many bytes as   *)
(* the field has, and read back from them, in either order and with or     *)
(* without a sign (encode_binary_int, parse_binary_int).  One that does    *)
(* not fit loses what is above its low bytes, and an unsigned one of eight *)
(* bytes from 2^63 on is read back below zero: it fits no i64.             *)
THEOREM BinaryReturns ==
    ASSUME NEW n \in Int, NEW width \in 1 .. 8, NEW endian, NEW signed \in BOOLEAN,
           FitsBytes(n, width, signed)
    PROVE  \E bytes \in Seq(Byte) : /\ EncodeBinary(n, width, endian) = Ok(bytes)
                                    /\ Len(bytes) = width
                                    /\ DecodeBinary(bytes, endian, signed) = Ok(n)
<1> DEFINE d == Low(n, width)
           bytes == InOrderOf(d, endian)
<1>1. /\ d \in Seq(Byte) /\ Len(d) = width
      /\ d[1] = Shifted(n, 256, width - 1) % 256
      /\ Horner(Shifted(n, 256, width), 256, d) = n
  BY LowBytes
<1>2. EncodeBinary(n, width, endian) = Ok(bytes)
  BY DEF EncodeBinary, Low
<1> HIDE DEF d
<1>3. bytes \in Seq(Byte) /\ Len(bytes) = width /\ InOrderOf(bytes, endian) = d
  BY <1>1, OrderTwice
<1> HIDE DEF bytes
<1>4. DecodeBinary(bytes, endian, signed) = Ok(FromBytes(d, Negative(d[1], width, signed)))
  BY <1>3 DEF DecodeBinary, Negative
<1>5. (IF Negative(d[1], width, signed) THEN -1 ELSE 0) = Shifted(n, 256, width)
  <2> DEFINE top == Shifted(n, 256, width - 1)
             k == width - 1
           base == 256
  <2>1. k \in Nat /\ base \in Bases /\ k + 1 = width
    BY DEF Bases
  <2> HIDE DEF k, base
  <2>2. Shifted(n, base, k) \in Int /\ Shifted(n, base, k + 1) = Shifted(n, base, k) \div base
    BY <2>1, ShiftedIs
  <2>3. top \in Int /\ Shifted(n, 256, width) = top \div 256 /\ d[1] = top % 256
    BY <1>1, <2>1, <2>2 DEF k, base
  <2>4. signed => top \in -128 .. 127
    BY DEF FitsBytes
  <2>5. ~signed => top \in 0 .. IF width = 8 THEN 127 ELSE 255
    BY DEF FitsBytes
  <2> HIDE DEF top
  <2>6. CASE ~signed
    <3>1. top \in 0 .. 255 /\ (width = 8 => top < 128)
      BY <2>5, <2>6
    <3>2. top % 256 = top /\ top \div 256 = 0
      BY <3>1
    <3> QED
      BY <2>3, <2>6, <3>1, <3>2 DEF Negative
  <2>7. CASE signed /\ top >= 0
    <3>1. top \in 0 .. 127
      BY <2>4, <2>7
    <3>2. top % 256 = top /\ top \div 256 = 0
      BY <3>1
    <3> QED
      BY <2>3, <3>1, <3>2 DEF Negative
  <2>8. CASE signed /\ top < 0
    <3>1. top \in -128 .. -1
      BY <2>4, <2>8
    <3>2. top % 256 = top + 256 /\ top \div 256 = -1
      BY <3>1
    <3> QED
      BY <2>3, <2>8, <3>1, <3>2 DEF Negative
  <2> QED
    BY <2>3, <2>6, <2>7, <2>8
<1>6. FromBytes(d, Negative(d[1], width, signed)) = n
  BY <1>1, <1>5 DEF FromBytes
<1> QED
  BY <1>2, <1>3, <1>4, <1>6

(* Whatever the bytes of a binary field are, the number they are read as   *)
(* is written as those bytes: no record is changed by reading it and       *)
(* writing it back.                                                        *)
THEOREM BytesReturn ==
    ASSUME NEW bytes \in Seq(Byte), Len(bytes) \in 1 .. 8, NEW endian, NEW signed \in BOOLEAN
    PROVE  \E n \in Int : /\ DecodeBinary(bytes, endian, signed) = Ok(n)
                          /\ EncodeBinary(n, Len(bytes), endian) = Ok(bytes)
<1> DEFINE big == InOrderOf(bytes, endian)
           start == IF Negative(big[1], Len(bytes), signed) THEN -1 ELSE 0
           n == Horner(start, 256, big)
           width == Len(bytes)
<1>1. big \in Seq(Byte) /\ Len(big) = width /\ InOrderOf(big, endian) = bytes
  BY OrderTwice
<1>2. DecodeBinary(bytes, endian, signed) = Ok(n)
  BY DEF DecodeBinary, FromBytes, Negative
<1> HIDE DEF big
<1>3. start \in Int
  OBVIOUS
<1> HIDE DEF start
<1>4. n \in Int /\ \A i \in 1 .. width : Above(n, width - i) % 256 = big[i]
  <2> DEFINE base == 256
  <2>1. base \in Bases /\ big \in Seq(0 .. base - 1)
    <3>1. 256 - 1 = 255
      OBVIOUS
    <3> QED
      BY <1>1, <3>1 DEF Bases, Byte
  <2> HIDE DEF base
  <2>2. /\ Horner(start, base, big) \in Int
        /\ \A i \in 1 .. Len(big) : Shifted(Horner(start, base, big), base, Len(big) - i) % base = big[i]
    BY <1>3, <2>1, DigitsOfHorner
  <2> QED
    BY <1>1, <2>2 DEF base, Above
<1> HIDE DEF n, width
<1>5. [i \in 1 .. width |-> Above(n, width - i) % 256] = big
  <2>1. big \in [1 .. width -> Byte]
    BY <1>1, SeqDef, LenProperties
  <2> QED
    BY <1>4, <2>1
<1>6. EncodeBinary(n, width, endian) = Ok(bytes)
  BY <1>1, <1>5 DEF EncodeBinary, width
<1> QED
  BY <1>2, <1>4, <1>6 DEF width

-----------------------------------------------------------------------------
(* Packed decimal *)

LEMMA DecimalDigits ==
    ASSUME NEW m \in Int, NEW w \in Nat
    PROVE  /\ DigitsOf(m, w) \in Seq(0 .. 9) /\ Len(DigitsOf(m, w)) = w
           /\ FitsDigits(m, w) => ValueOf(DigitsOf(m, w)) = m
<1> DEFINE d == DigitsOf(m, w)
           base == 10
<1>1. base \in Bases
  BY DEF Bases
<1>2. /\ \A i \in 1 .. w : d[i] = Shifted(m, base, w - i) % base
      /\ d = [i \in 1 .. w |-> d[i]]
  BY DEF DigitsOf
<1> HIDE DEF d
<1>3. ASSUME NEW i \in 1 .. w PROVE d[i] \in 0 .. 9
  <2> DEFINE k == w - i
  <2>1. k \in Nat
    OBVIOUS
  <2> HIDE DEF k, base
  <2>2. Shifted(m, base, k) \in Int
    BY <1>1, <2>1, ShiftedIs
  <2>3. d[i] = Shifted(m, base, k) % base
    BY <1>2 DEF k
  <2> QED
    BY <2>2, <2>3, ByTen DEF base
<1>4. d \in Seq(0 .. 9) /\ d \in Seq(Int) /\ Len(d) = w
  <2>1. d \in [1 .. w -> 0 .. 9]
    BY <1>2, <1>3
  <2>2. d \in [1 .. w -> Int]
    <3>1. \A i \in 1 .. w : d[i] \in Int
      BY <1>3
    <3> QED
      BY <1>2, <3>1
  <2> QED
    BY <2>1, <2>2, SeqDef, LenProperties
<1> HIDE DEF base
<1>5. Horner(Shifted(m, base, Len(d)), base, d) = m
  <2>1. \A i \in 1 .. Len(d) : d[i] = Shifted(m, base, Len(d) - i) % base
    BY <1>2, <1>4
  <2> QED
    BY <1>1, <1>4, <2>1, DigitsReturn
<1>6. FitsDigits(m, w) => Shifted(m, base, w) = 0
  BY DEF FitsDigits, base
<1>7. FitsDigits(m, w) => Horner(0, base, d) = m
  BY <1>4, <1>5, <1>6
<1> QED
  BY <1>4, <1>7 DEF d, base, ValueOf

LEMMA DigitByte ==
    ASSUME NEW x \in 0 .. 9
    PROVE  /\ IsDigit(Zero + x) /\ Zero + x \in Byte /\ Zero + x > Space
           /\ (Zero + x) - Zero = x /\ Zero + x \notin {Plus, Minus}
  BY DEF IsDigit, Zero, Nine, Byte, Plus, Minus, Space

LEMMA MagnitudeIs ==
    ASSUME NEW n \in Int
    PROVE  Magnitude(n) \in Nat /\ Signed(n < 0, Magnitude(n)) = n
           /\ Signed(FALSE, Magnitude(n)) = Magnitude(n)
  BY DEF Magnitude, Signed

(* Two nibbles a byte, and the nibbles of those bytes. *)
Pairs(nib, width) == [i \in 1 .. width |-> 16 * nib[2 * i - 1] + nib[2 * i]]
NibblesOf(bytes)  == [i \in 1 .. 2 * Len(bytes) |->
                         IF i % 2 = 1 THEN bytes[(i + 1) \div 2] \div 16 ELSE bytes[i \div 2] % 16]

LEMMA OfNibble ==
    ASSUME NEW a \in 0 .. 15, NEW b \in 0 .. 15
    PROVE  16 * a + b \in 0 .. 255 /\ (16 * a + b) \div 16 = a /\ (16 * a + b) % 16 = b
  OBVIOUS

LEMMA Halves ==
    ASSUME NEW width \in Nat, NEW i \in 1 .. 2 * width
    PROVE  /\ i % 2 = 1 => (i + 1) \div 2 \in 1 .. width /\ 2 * ((i + 1) \div 2) - 1 = i
           /\ i % 2 # 1 => i \div 2 \in 1 .. width /\ 2 * (i \div 2) = i
  OBVIOUS

LEMMA NibblesReturn ==
    ASSUME NEW width \in Nat, NEW nib \in [1 .. 2 * width -> 0 .. 15]
    PROVE  /\ Pairs(nib, width) \in Seq(Byte) /\ Len(Pairs(nib, width)) = width
           /\ NibblesOf(Pairs(nib, width)) = nib
<1> DEFINE bytes == Pairs(nib, width)
<1>1. /\ \A i \in 1 .. width : bytes[i] = 16 * nib[2 * i - 1] + nib[2 * i]
      /\ bytes = [i \in 1 .. width |-> bytes[i]]
  BY DEF Pairs
<1> HIDE DEF bytes
<1>2. ASSUME NEW i \in 1 .. width
      PROVE  /\ bytes[i] \in Byte
             /\ bytes[i] \div 16 = nib[2 * i - 1] /\ bytes[i] % 16 = nib[2 * i]
  <2> DEFINE a == nib[2 * i - 1]
             b == nib[2 * i]
  <2>1. 2 * i - 1 \in 1 .. 2 * width /\ 2 * i \in 1 .. 2 * width
    OBVIOUS
  <2>2. a \in 0 .. 15 /\ b \in 0 .. 15 /\ bytes[i] = 16 * a + b
    BY <1>1, <2>1
  <2> HIDE DEF a, b
  <2>3. bytes[i] \in 0 .. 255 /\ bytes[i] \div 16 = a /\ bytes[i] % 16 = b
    BY <2>2, OfNibble
  <2> QED
    BY <2>3 DEF a, b, Byte
<1>3. bytes \in Seq(Byte) /\ Len(bytes) = width
  <2>1. bytes \in [1 .. width -> Byte]
    BY <1>1, <1>2
  <2> QED
    BY <2>1, SeqDef, LenProperties
<1>4. ASSUME NEW i \in 1 .. 2 * width
      PROVE  nib[i] = IF i % 2 = 1 THEN bytes[(i + 1) \div 2] \div 16 ELSE bytes[i \div 2] % 16
  <2>1. CASE i % 2 = 1
    <3> DEFINE j == (i + 1) \div 2
    <3>1. j \in 1 .. width /\ 2 * j - 1 = i
      BY <2>1, Halves
    <3> HIDE DEF j
    <3>2. bytes[j] \div 16 = nib[i]
      BY <1>2, <3>1
    <3> QED
      BY <2>1, <3>2 DEF j
  <2>2. CASE i % 2 # 1
    <3> DEFINE j == i \div 2
    <3>1. j \in 1 .. width /\ 2 * j = i
      BY <2>2, Halves
    <3> HIDE DEF j
    <3>2. bytes[j] % 16 = nib[i]
      BY <1>2, <3>1
    <3> QED
      BY <2>2, <3>2 DEF j
  <2> QED
    BY <2>1, <2>2
<1>5. NibblesOf(bytes) = nib
  <2>1. /\ \A i \in 1 .. 2 * width : NibblesOf(bytes)[i] = nib[i]
        /\ NibblesOf(bytes) = [i \in 1 .. 2 * width |-> NibblesOf(bytes)[i]]
    BY <1>3, <1>4 DEF NibblesOf
  <2> QED
    BY <2>1
<1> QED
  BY <1>3, <1>5 DEF bytes

SignNibble(n, signed) == IF ~signed THEN 15 ELSE IF n < 0 THEN 13 ELSE 12

(* Every number that a packed field takes is read back from its bytes.  A  *)
(* field without a sign takes a number below zero, too, and gives back its *)
(* magnitude (encode and decode of packed.rs).                             *)
THEOREM PackedReturns ==
    ASSUME NEW n \in Int, NEW width \in Nat, NEW signed \in BOOLEAN,
           IsOk(EncodePacked(n, width, signed))
    PROVE  \E bytes \in Seq(Byte) :
              /\ EncodePacked(n, width, signed) = Ok(bytes) /\ Len(bytes) = width
              /\ DecodePacked(bytes) = Ok(IF signed THEN n ELSE Magnitude(n))
<1> DEFINE m == Magnitude(n)
           w == 2 * width - 1
           d == DigitsOf(m, w)
           s == SignNibble(n, signed)
           nib == Append(d, s)
           bytes == Pairs(nib, width)
<1>1. width # 0 /\ FitsDigits(m, w) /\ EncodePacked(n, width, signed) = Ok(bytes)
  <2>1. ~(width = 0 \/ ~FitsDigits(m, w))
    <3> SUFFICES ASSUME width = 0 \/ ~FitsDigits(m, w) PROVE FALSE
      OBVIOUS
    <3>1. EncodePacked(n, width, signed) = Err
      BY DEF EncodePacked
    <3> QED
      BY <3>1 DEF IsOk, Err
  <2> QED
    BY <2>1 DEF EncodePacked, Pairs, SignNibble
<1>2. m \in Nat /\ w \in Nat /\ s \in 12 .. 15 /\ w + 1 = 2 * width
  <2>1. m \in Nat
    BY MagnitudeIs
  <2>2. w \in Nat /\ w + 1 = 2 * width
    BY <1>1
  <2>3. s \in 12 .. 15
    BY DEF SignNibble
  <2> QED
    BY <2>1, <2>2, <2>3
<1> HIDE DEF s, m, w
<1>3. d \in Seq(0 .. 9) /\ Len(d) = w /\ ValueOf(d) = m
  BY <1>1, <1>2, DecimalDigits
<1> HIDE DEF d
<1>4. /\ nib \in Seq(0 .. 15) /\ Len(nib) = 2 * width /\ nib[2 * width] = s
      /\ Front(nib) = d
  <2>1. d \in Seq(0 .. 15)
    <3>1. d \in [1 .. w -> 0 .. 15]
      <4>1. d \in [1 .. w -> 0 .. 9]
        BY <1>2, <1>3, SeqDef, LenProperties
      <4> QED
        BY <4>1
    <3> QED
      BY <1>2, <3>1, SeqDef
  <2>2. s \in 0 .. 15
    BY <1>2
  <2>3. nib \in Seq(0 .. 15) /\ Len(nib) = w + 1 /\ nib[w + 1] = s
    BY <1>3, <2>1, <2>2, AppendProperties
  <2>4. SubSeq(nib, 1, Len(d)) = d
    BY <2>1, <2>2, AppendProperties
  <2> QED
    BY <1>2, <1>3, <2>3, <2>4 DEF Front
<1>5. \A i \in 1 .. 2 * width - 1 : nib[i] =< 9
  <2> SUFFICES ASSUME NEW i \in 1 .. w PROVE nib[i] =< 9
    BY DEF w
  <2>1. nib[i] = d[i] /\ d[i] \in 0 .. 9
    BY <1>2, <1>3, AppendProperties, ElementOfSeq
  <2> QED
    BY <2>1
<1> HIDE DEF nib
<1>6. bytes \in Seq(Byte) /\ Len(bytes) = width /\ NibblesOf(bytes) = nib
  <2>1. nib \in [1 .. 2 * width -> 0 .. 15]
    BY <1>4, SeqDef, LenProperties
  <2> QED
    BY <2>1, NibblesReturn
<1> HIDE DEF bytes
<1>7. bytes # <<>>
  BY <1>1, <1>6, EmptySeq
<1>8. Last(nib) = s
  BY <1>4 DEF Last
<1>9. DecodePacked(bytes) = Ok(Signed(s \in {11, 13}, ValueOf(d)))
  <2>1. ~(bytes = <<>> \/ (\E i \in 1 .. Len(nib) - 1 : nib[i] > 9) \/ Last(nib) < 10)
    <3>1. \A i \in 1 .. Len(nib) - 1 : ~(nib[i] > 9)
      BY <1>4, <1>5, ElementOfSeq
    <3> QED
      BY <1>2, <1>7, <1>8, <3>1
  <2>2. DecodePacked(bytes) =
           IF bytes = <<>> \/ (\E i \in 1 .. Len(nib) - 1 : nib[i] > 9) \/ Last(nib) < 10
           THEN Err ELSE Ok(Signed(Last(nib) \in {11, 13}, ValueOf(Front(nib))))
    BY <1>6 DEF DecodePacked, NibblesOf
  <2> QED
    BY <1>4, <1>8, <2>1, <2>2
<1>10. Signed(s \in {11, 13}, m) = IF signed THEN n ELSE m
  <2>1. CASE signed /\ n < 0
    <3>1. s \in {11, 13}
      BY <2>1 DEF s, SignNibble
    <3> QED
      BY <2>1, <3>1, MagnitudeIs DEF m
  <2>2. CASE signed /\ ~(n < 0)
    <3>1. s \notin {11, 13} /\ m = n
      BY <2>2 DEF s, m, SignNibble, Magnitude
    <3> QED
      BY <2>2, <3>1 DEF Signed
  <2>3. CASE ~signed
    <3>1. s \notin {11, 13}
      BY <2>3 DEF s, SignNibble
    <3> QED
      BY <2>3, <3>1 DEF Signed
  <2> QED
    BY <2>1, <2>2, <2>3
<1> QED
  BY <1>1, <1>3, <1>6, <1>9, <1>10 DEF m

-----------------------------------------------------------------------------
(* Zoned decimal *)

(* Every last byte stands for one digit and one sign, with the punches and *)
(* without.                                                                *)
LEMMA OnePunch ==
    ASSUME NEW x \in 0 .. 9, NEW negative \in BOOLEAN, NEW y \in 0 .. 9, NEW other \in BOOLEAN
    PROVE  /\ Overpunch(x, negative) = Overpunch(y, other) => x = y /\ negative = other
           /\ Overpunch(x, negative) # Zero + y
           /\ Overpunch(x, negative) \in Byte /\ Zero + x \in Byte
  BY SMTT(60) DEF Overpunch, Zero, Byte

LastByte(x, negative, signed) == IF signed THEN Overpunch(x, negative) ELSE Zero + x

LEMMA ReadBack ==
    ASSUME NEW x \in 0 .. 9, NEW negative \in BOOLEAN, NEW signed \in BOOLEAN,
           NEW b, b = LastByte(x, negative, signed)
    PROVE  {p \in Punches : ~p[2] /\ b = Zero + p[1]} \cup {p \in Punches : b = Overpunch(p[1], p[2])}
           = {<<x, signed /\ negative>>}
<1> DEFINE plain   == {p \in Punches : ~p[2] /\ b = Zero + p[1]}
           punched == {p \in Punches : b = Overpunch(p[1], p[2])}
           read    == <<x, signed /\ negative>>
<1>1. read \in Punches /\ read[1] = x /\ read[2] = (signed /\ negative)
  BY DEF Punches
<1>2. CASE signed
  <2>1. b = Overpunch(x, negative)
    BY <1>2 DEF LastByte
  <2>2. read \in punched
    BY <1>1, <1>2, <2>1
  <2>3. ASSUME NEW p \in Punches PROVE ~(b = Zero + p[1]) /\ (b = Overpunch(p[1], p[2]) => p = read)
    <3>1. p[1] \in 0 .. 9 /\ p[2] \in BOOLEAN /\ p = <<p[1], p[2]>>
      BY DEF Punches
    <3> DEFINE y == p[1]
               other == p[2]
    <3>4. y \in 0 .. 9 /\ other \in BOOLEAN
      BY <3>1
    <3> HIDE DEF y, other
    <3>5. Overpunch(x, negative) # Zero + y
          /\ (Overpunch(x, negative) = Overpunch(y, other) => x = y /\ negative = other)
      BY <3>4, OnePunch
    <3> USE DEF y, other
    <3>2. b # Zero + p[1]
      BY <2>1, <3>5
    <3>3. b = Overpunch(p[1], p[2]) => x = p[1] /\ negative = p[2]
      BY <2>1, <3>5
    <3> QED
      BY <1>2, <3>1, <3>2, <3>3
  <2> QED
    BY <2>2, <2>3
<1>3. CASE ~signed
  <2>1. b = Zero + x
    BY <1>3 DEF LastByte
  <2>2. read \in plain
    BY <1>1, <1>3, <2>1
  <2>3. ASSUME NEW p \in Punches
        PROVE b # Overpunch(p[1], p[2]) /\ (~p[2] /\ b = Zero + p[1] => p = read)
    <3>1. p[1] \in 0 .. 9 /\ p[2] \in BOOLEAN /\ p = <<p[1], p[2]>>
      BY DEF Punches
    <3>2. b # Overpunch(p[1], p[2])
      <4> DEFINE y == p[1]
                 other == p[2]
      <4>1. y \in 0 .. 9 /\ other \in BOOLEAN
        BY <3>1
      <4> HIDE DEF y, other
      <4>2. Overpunch(y, other) # Zero + x
        BY <4>1, OnePunch
      <4> QED
        BY <2>1, <4>2 DEF y, other
    <3>3. b = Zero + p[1] => x = p[1]
      BY <2>1, <3>1 DEF Zero
    <3>4. ~p[2] => p[2] = FALSE
      BY <3>1
    <3> QED
      BY <1>3, <3>1, <3>2, <3>3, <3>4
  <2> QED
    BY <2>2, <2>3
<1> QED
  BY <1>2, <1>3

(* Every number that a zoned field takes is read back from its bytes, and  *)
(* its magnitude from a field without a sign (encode and decode of         *)
(* zoned.rs).                                                              *)
THEOREM ZonedReturns ==
    ASSUME NEW n \in Int, NEW width \in Nat, NEW signed \in BOOLEAN,
           IsOk(EncodeZoned(n, width, signed))
    PROVE  \E bytes \in Seq(Byte) :
              /\ EncodeZoned(n, width, signed) = Ok(bytes) /\ Len(bytes) = width
              /\ DecodeZoned(bytes) = Ok(IF signed THEN n ELSE Magnitude(n))
<1> DEFINE m == Magnitude(n)
           d == DigitsOf(m, width)
           bytes == [i \in 1 .. width |-> IF i = width /\ signed THEN Overpunch(d[i], n < 0)
                                          ELSE Zero + d[i]]
           read == <<d[width], signed /\ n < 0>>
<1>1. width # 0 /\ FitsDigits(m, width) /\ EncodeZoned(n, width, signed) = Ok(bytes)
  <2>1. ~(width = 0 \/ ~FitsDigits(m, width))
    <3> SUFFICES ASSUME width = 0 \/ ~FitsDigits(m, width) PROVE FALSE
      OBVIOUS
    <3>1. EncodeZoned(n, width, signed) = Err
      BY DEF EncodeZoned
    <3> QED
      BY <3>1 DEF IsOk, Err
  <2> QED
    BY <2>1 DEF EncodeZoned
<1>2. m \in Nat
  BY MagnitudeIs
<1> HIDE DEF m
<1>3. d \in Seq(0 .. 9) /\ Len(d) = width /\ ValueOf(d) = m
  BY <1>1, <1>2, DecimalDigits
<1> HIDE DEF d
<1>4. \A i \in 1 .. width : d[i] \in 0 .. 9
  BY <1>3, ElementOfSeq
<1>5. /\ bytes = [i \in 1 .. width |-> bytes[i]]
      /\ bytes[width] = LastByte(d[width], n < 0, signed)
      /\ \A i \in 1 .. width - 1 : bytes[i] = Zero + d[i]
  BY <1>1 DEF LastByte
<1> HIDE DEF bytes
<1>6. bytes \in Seq(Byte) /\ Len(bytes) = width /\ bytes # <<>>
  <2>1. ASSUME NEW i \in 1 .. width PROVE bytes[i] \in Byte
    <3>1. d[i] \in 0 .. 9
      BY <1>4
    <3>2. Zero + d[i] \in Byte
      BY <3>1 DEF Zero, Byte
    <3>3. Overpunch(d[i], n < 0) \in Byte
      <4> DEFINE x == d[i]
                 negative == n < 0
      <4>1. x \in 0 .. 9 /\ negative \in BOOLEAN
        BY <3>1
      <4> HIDE DEF x, negative
      <4>2. Overpunch(x, negative) \in Byte
        BY <4>1, OnePunch
      <4> QED
        BY <4>2 DEF x, negative
    <3>4. CASE i = width
      BY <1>5, <3>2, <3>3, <3>4 DEF LastByte
    <3>5. CASE i # width
      <4>1. i \in 1 .. width - 1
        BY <3>5
      <4> QED
        BY <1>5, <3>2, <4>1
    <3> QED
      BY <3>4, <3>5
  <2>2. bytes \in [1 .. width -> Byte]
    BY <1>5, <2>1
  <2>3. bytes \in Seq(Byte) /\ Len(bytes) = width
    BY <2>2, SeqDef, LenProperties
  <2> QED
    BY <1>1, <2>3, EmptySeq
<1>7. Last(bytes) = LastByte(d[width], n < 0, signed)
  BY <1>5, <1>6 DEF Last
<1>8. {p \in Punches : ~p[2] /\ Last(bytes) = Zero + p[1]}
         \cup {p \in Punches : Last(bytes) = Overpunch(p[1], p[2])} = {read}
  <2> DEFINE x == d[width]
             negative == n < 0
             b == Last(bytes)
  <2>1. x \in 0 .. 9 /\ negative \in BOOLEAN /\ b = LastByte(x, negative, signed)
    BY <1>1, <1>4, <1>7
  <2> HIDE DEF x, negative, b
  <2>2. {p \in Punches : ~p[2] /\ b = Zero + p[1]} \cup {p \in Punches : b = Overpunch(p[1], p[2])}
           = {<<x, signed /\ negative>>}
    BY <2>1, ReadBack
  <2> QED
    BY <2>2 DEF x, negative, b
<1>9. Append([i \in 1 .. width - 1 |-> bytes[i] - Zero], read[1]) = d
  <2> DEFINE e == [i \in 1 .. width - 1 |-> bytes[i] - Zero]
  <2>1. \A i \in 1 .. width - 1 : e[i] = d[i]
    <3>1. ASSUME NEW i \in 1 .. width - 1 PROVE (Zero + d[i]) - Zero = d[i]
      BY <1>4 DEF Zero
    <3> QED
      BY <1>5, <3>1
  <2>2. e = [i \in 1 .. width - 1 |-> e[i]]
    OBVIOUS
  <2> HIDE DEF e
  <2>3. e \in Seq(0 .. 9) /\ Len(e) = width - 1
    <3>1. e \in [1 .. width - 1 -> 0 .. 9]
      BY <1>4, <2>1, <2>2
    <3>2. width - 1 \in Nat
      BY <1>1
    <3> QED
      BY <3>1, <3>2, SeqDef, LenProperties
  <2>4. read[1] = d[width] /\ d[width] \in 0 .. 9
    BY <1>1, <1>4
  <2> DEFINE a == Append(e, read[1])
  <2>5. /\ a \in Seq(0 .. 9) /\ Len(a) = width
        /\ \A i \in 1 .. width - 1 : a[i] = d[i]
        /\ a[width] = d[width]
    BY <2>1, <2>3, <2>4, AppendProperties
  <2> HIDE DEF a
  <2>6. \A i \in 1 .. width : a[i] = d[i]
    BY <2>5
  <2>7. a = d
    BY <1>3, <2>5, <2>6, SeqEqual
  <2> QED
    BY <2>7 DEF a, e
<1>10. DecodeZoned(bytes) = Ok(Signed(read[2], ValueOf(d)))
  <2> DEFINE both == {p \in Punches : ~p[2] /\ Last(bytes) = Zero + p[1]}
                        \cup {p \in Punches : Last(bytes) = Overpunch(p[1], p[2])}
  <2>1. ~(bytes = <<>> \/ (\E i \in 1 .. Len(bytes) - 1 : ~IsDigit(bytes[i])) \/ both = {})
    <3>1. ASSUME NEW i \in 1 .. Len(bytes) - 1 PROVE IsDigit(bytes[i])
      <4>1. i \in 1 .. width - 1 /\ i \in 1 .. width
        BY <1>6
      <4>2. bytes[i] = Zero + d[i] /\ d[i] \in 0 .. 9
        BY <1>4, <1>5, <4>1
      <4> QED
        BY <4>2, DigitByte
    <3> QED
      BY <1>6, <1>8, <3>1
  <2>2. (CHOOSE q \in both : TRUE) = read
    BY <1>8
  <2>3. DecodeZoned(bytes) =
           IF bytes = <<>> \/ (\E i \in 1 .. Len(bytes) - 1 : ~IsDigit(bytes[i])) \/ both = {} THEN Err
           ELSE LET p == CHOOSE q \in both : TRUE
                IN  Ok(Signed(p[2], ValueOf(Append([i \in 1 .. Len(bytes) - 1 |-> bytes[i] - Zero], p[1]))))
    BY DEF DecodeZoned
  <2> HIDE DEF both
  <2> QED
    BY <1>6, <1>9, <2>1, <2>2, <2>3
<1>11. Signed(read[2], m) = IF signed THEN n ELSE m
  <2>1. read[2] = (signed /\ n < 0)
    OBVIOUS
  <2>2. CASE signed /\ n < 0
    BY <2>1, <2>2, MagnitudeIs DEF m
  <2>3. CASE signed /\ ~(n < 0)
    <3>1. m = n
      BY <2>3 DEF m, Magnitude
    <3> QED
      BY <2>1, <2>3, <3>1 DEF Signed
  <2>4. CASE ~signed
    BY <2>1, <2>4 DEF Signed
  <2> QED
    BY <2>2, <2>3, <2>4
<1> QED
  BY <1>1, <1>3, <1>6, <1>10, <1>11 DEF m

-----------------------------------------------------------------------------
(* Display digits *)

(* Bytes with no white space among them. *)
Inks == {b \in Byte : b > Space}

LEMMA TrimInked ==
    ASSUME NEW s \in Seq(Inks)
    PROVE  Trim(s) = s
<1> DEFINE K == Len(s)
           T == 1 .. K
<1>1. K \in Nat
  BY LenProperties
<1>2. Inked(s) = T
  <2>1. \A i \in 1 .. Len(s) : s[i] \notin (9 .. 13) \cup {Space}
    BY ElementOfSeq DEF Inks, Space
  <2> QED
    BY <2>1 DEF Inked
<1>3. CASE K = 0
  <2>1. s = <<>> /\ Inked(s) = {}
    BY <1>1, <1>2, <1>3, EmptySeq
  <2> QED
    BY <2>1 DEF Trim
<1>4. CASE K # 0
  <2>1. 1 \in T /\ K \in T /\ T # {} /\ T \in SUBSET Nat /\ T \in SUBSET Int
    <3>1. 1 \in T /\ K \in T
      BY <1>1, <1>4
    <3>2. \A k \in T : k \in Nat /\ k \in Int
      BY <1>1
    <3> HIDE DEF T
    <3> QED
      BY <3>1, <3>2
  <2>2. \A k \in T : 1 =< k /\ k =< K
    BY <1>1
  <2> HIDE DEF T
  <2>3. Min(T) = 1
    <3>1. Min(T) \in T /\ \A k \in T : Min(T) =< k
      BY <2>1, MinOf
    <3>2. Min(T) \in Int /\ Min(T) =< 1 /\ 1 =< Min(T)
      BY <2>1, <2>2, <3>1
    <3> QED
      BY <3>2
  <2>4. Max(T) = K
    BY <2>1, <2>2, MaxIs
  <2>5. SubSeq(s, 1, K) = s
    BY SubSeqFull
  <2> QED
    BY <1>2, <2>1, <2>3, <2>4, <2>5 DEF Trim
<1> QED
  BY <1>3, <1>4

(* What is left of a number that is no greater is no greater. *)
LEMMA ShiftedMonotone ==
    ASSUME NEW a \in Int, NEW b \in Int, a =< b, NEW base \in Bases
    PROVE  \A k \in Nat : Shifted(a, base, k) =< Shifted(b, base, k)
<1> DEFINE Good == {k \in Nat : Shifted(a, base, k) =< Shifted(b, base, k)}
<1>1. 0 \in Good
  BY ShiftedIs
<1>2. ASSUME NEW k \in Nat, k \in Good PROVE k + 1 \in Good
  <2> DEFINE x == Shifted(a, base, k)
             y == Shifted(b, base, k)
  <2>1. /\ x \in Int /\ y \in Int /\ x =< y
        /\ Shifted(a, base, k + 1) = x \div base /\ Shifted(b, base, k + 1) = y \div base
    BY <1>2, ShiftedIs
  <2> HIDE DEF x, y
  <2>2. x \div base =< y \div base
    <3>1. CASE base = 10
      BY <2>1, <3>1
    <3>2. CASE base = 256
      BY <2>1, <3>2
    <3> QED
      BY <3>1, <3>2 DEF Bases
  <2> QED
    BY <2>1, <2>2
<1>3. Nat \subseteq Good
  <2> HIDE DEF Good
  <2> QED
    BY <1>1, <1>2, SetInduction
<1> QED
  BY <1>3

(* The digits at the places of a numeral are those of its number, and      *)
(* nothing is left above them.                                             *)
LEMMA DigitsAt ==
    ASSUME NEW d \in Seq(0 .. 9)
    PROVE  /\ ValueOf(d) \in Int
           /\ \A j \in Nat : Shifted(ValueOf(d), 10, Len(d) + j) = 0
           /\ \A k \in Nat : DigitAt(d, k) = Shifted(ValueOf(d), 10, k) % 10
<1> DEFINE base == 10
           v == Horner(0, base, d)
           K == Len(d)
<1>1. base \in Bases /\ d \in Seq(0 .. base - 1) /\ K \in Nat
  <2>1. 10 - 1 = 9
    OBVIOUS
  <2> QED
    BY <2>1, LenProperties DEF Bases
<1>2. v = ValueOf(d)
  BY DEF ValueOf
<1> HIDE DEF base
<1>3. /\ v \in Int /\ Shifted(v, base, K) = 0
      /\ \A i \in 1 .. K : Shifted(v, base, K - i) % base = d[i]
  BY <1>1, DigitsOfHorner
<1> HIDE DEF v
<1>4. \A j \in Nat : Shifted(v, base, K + j) = 0
  <2> DEFINE Good == {j \in Nat : Shifted(v, base, K + j) = 0}
  <2>1. 0 \in Good
    BY <1>1, <1>3
  <2>2. ASSUME NEW j \in Nat, j \in Good PROVE j + 1 \in Good
    <3>1. Shifted(v, base, (K + j) + 1) = 0 \div base
      BY <1>1, <1>3, <2>2, ShiftedIs
    <3>2. 0 \div base = 0
      BY DEF base
    <3>3. (K + j) + 1 = K + (j + 1)
      BY <1>1
    <3> QED
      BY <3>1, <3>2, <3>3
  <2>3. Nat \subseteq Good
    <3> HIDE DEF Good
    <3> QED
      BY <2>1, <2>2, SetInduction
  <2> QED
    BY <2>3
<1>5. ASSUME NEW k \in Nat PROVE DigitAt(d, k) = Shifted(v, base, k) % base
  <2>1. CASE k < K
    <3>1. K - k \in 1 .. K /\ K - (K - k) = k
      BY <1>1, <2>1
    <3>2. DigitAt(d, k) = d[K - k]
      BY <2>1 DEF DigitAt
    <3> QED
      BY <1>3, <3>1, <3>2
  <2>2. CASE ~(k < K)
    <3>1. k - K \in Nat /\ K + (k - K) = k
      BY <1>1, <2>2
    <3>2. Shifted(v, base, k) = 0
      BY <1>4, <3>1
    <3>3. 0 % base = 0
      BY DEF base
    <3> QED
      BY <2>2, <3>2, <3>3 DEF DigitAt
  <2> QED
    BY <2>1, <2>2
<1> QED
  BY <1>2, <1>3, <1>4, <1>5 DEF base, K

(* A numeral whose number is within the limit's does not exceed it: at the *)
(* first place where they differ it has the smaller digit.                 *)
LEMMA WithinLimit ==
    ASSUME NEW d \in Seq(0 .. 9), NEW limit \in Seq(0 .. 9), ValueOf(d) =< ValueOf(limit)
    PROVE  ~Exceeds(d, limit)
<1> SUFFICES ASSUME NEW k \in 0 .. Len(d) - 1,
                    DigitAt(d, k) > DigitAt(limit, k),
                    \A j \in k + 1 .. Len(d) + Len(limit) : DigitAt(d, j) = DigitAt(limit, j)
             PROVE  FALSE
  BY DEF Exceeds
<1> DEFINE v == ValueOf(d)
           w == ValueOf(limit)
           base == 10
           top == Len(d) + Len(limit)
           left(j) == Shifted(v, base, j)
           most(j) == Shifted(w, base, j)
<1>1. /\ base \in Bases /\ v \in Int /\ w \in Int /\ v =< w /\ k \in Nat
      /\ Len(d) \in Nat /\ Len(limit) \in Nat /\ top \in Nat /\ k < Len(d)
  BY DigitsAt, LenProperties DEF Bases
<1>2. \A j \in Nat : /\ DigitAt(d, j) = left(j) % base
                     /\ DigitAt(limit, j) = most(j) % base
  BY DigitsAt
<1>3. left(top + 1) = 0 /\ most(top + 1) = 0
  <2>1. /\ \A j \in Nat : Shifted(v, base, Len(d) + j) = 0
        /\ \A j \in Nat : Shifted(w, base, Len(limit) + j) = 0
    BY DigitsAt
  <2>2. /\ Len(limit) + 1 \in Nat /\ Len(d) + (Len(limit) + 1) = top + 1
        /\ Len(d) + 1 \in Nat /\ Len(limit) + (Len(d) + 1) = top + 1
    BY <1>1
  <2> QED
    BY <2>1, <2>2
<1> HIDE DEF v, w, base
<1>4. \A j \in Nat : /\ left(j) \in Int /\ left(j + 1) = left(j) \div base
                     /\ most(j) \in Int /\ most(j + 1) = most(j) \div base
                     /\ left(j) =< most(j)
  BY <1>1, ShiftedIs, ShiftedMonotone
<1> HIDE DEF left, most, top
<1>5. ASSUME NEW j \in Nat
      PROVE  left(j) = 10 * left(j + 1) + DigitAt(d, j) /\ most(j) = 10 * most(j + 1) + DigitAt(limit, j)
  BY <1>2, <1>4, ByTen DEF base
<1>6. left(k + 1) = most(k + 1)
  <2> DEFINE Good == {i \in Nat : i =< top - k => left((top + 1) - i) = most((top + 1) - i)}
  <2>1. 0 \in Good
    <3>1. (top + 1) - 0 = top + 1
      BY <1>1
    <3> QED
      BY <1>3, <3>1
  <2>2. ASSUME NEW i \in Nat, i \in Good PROVE i + 1 \in Good
    <3> SUFFICES ASSUME i + 1 =< top - k
                 PROVE  left((top + 1) - (i + 1)) = most((top + 1) - (i + 1))
      OBVIOUS
    <3> DEFINE j == top - i
    <3>1. j \in Nat /\ j \in k + 1 .. top /\ j + 1 = (top + 1) - i /\ j = (top + 1) - (i + 1)
      BY <1>1
    <3>2. left((top + 1) - i) = most((top + 1) - i)
      BY <1>1, <2>2
    <3> HIDE DEF j
    <3>3. left(j + 1) = most(j + 1)
      BY <3>1, <3>2
    <3>4. DigitAt(d, j) = DigitAt(limit, j)
      BY <3>1 DEF top
    <3>5. left(j) = most(j)
      BY <1>5, <3>1, <3>3, <3>4
    <3> QED
      BY <3>1, <3>5
  <2>3. Nat \subseteq Good
    <3> HIDE DEF Good
    <3> QED
      BY <2>1, <2>2, SetInduction
  <2>4. top - k \in Nat /\ (top + 1) - (top - k) = k + 1
    BY <1>1 DEF top
  <2> DEFINE i == top - k
  <2> HIDE DEF i
  <2>5. i \in Nat /\ i =< top - k /\ (top + 1) - i = k + 1
    BY <1>1, <2>4 DEF i
  <2> QED
    BY <2>3, <2>5
<1>7. left(k) =< most(k) /\ left(k) \in Int /\ most(k) \in Int /\ left(k + 1) \in Int
  <2>1. k \in Nat /\ k + 1 \in Nat
    BY <1>1
  <2> QED
    BY <1>4, <2>1
<1>8. /\ left(k) = 10 * left(k + 1) + DigitAt(d, k)
      /\ most(k) = 10 * most(k + 1) + DigitAt(limit, k)
  BY <1>1, <1>5
<1>9. DigitAt(d, k) \in Int /\ DigitAt(limit, k) \in Int
  <2>1. DigitAt(d, k) = left(k) % 10 /\ DigitAt(limit, k) = most(k) % 10
    BY <1>1, <1>2 DEF base
  <2> DEFINE a == left(k)
             b == most(k)
  <2>2. a \in Int /\ b \in Int
    BY <1>7
  <2> HIDE DEF a, b
  <2>3. a % 10 \in Int /\ b % 10 \in Int
    BY <2>2
  <2> QED
    BY <2>1, <2>3 DEF a, b
<1> QED
  BY <1>6, <1>7, <1>8, <1>9

(* The bytes of a number's digits. *)
Shown(d) == [i \in 1 .. Len(d) |-> Zero + d[i]]

LEMMA ShownIs ==
    ASSUME NEW d \in Seq(0 .. 9), d # <<>>
    PROVE  /\ Shown(d) \in Seq(Inks) /\ Len(Shown(d)) = Len(d) /\ Shown(d) # <<>>
           /\ ValueOf(d) =< ValueOf(MaxI64) => ParseI64(Shown(d)) = Ok(ValueOf(d))
<1> DEFINE K == Len(d)
           s == Shown(d)
<1>1. K \in Nat /\ K # 0 /\ \A i \in 1 .. K : d[i] \in 0 .. 9
  BY EmptySeq, ElementOfSeq
<1>2. s = [i \in 1 .. K |-> s[i]] /\ \A i \in 1 .. K : s[i] = Zero + d[i]
  BY DEF Shown
<1>3. d = [i \in 1 .. K |-> d[i]]
  BY LenProperties
<1> HIDE DEF K, s
<1>4. \A i \in 1 .. K : /\ s[i] \in Inks /\ IsDigit(s[i])
                        /\ s[i] \notin {Plus, Minus} /\ s[i] - Zero = d[i]
  BY <1>1, <1>2, DigitByte DEF Inks
<1>5. s \in Seq(Inks) /\ Len(s) = K /\ s # <<>>
  <2>1. s \in [1 .. K -> Inks]
    BY <1>2, <1>4
  <2>2. s \in Seq(Inks) /\ Len(s) = K
    BY <1>1, <2>1, SeqDef, LenProperties
  <2> QED
    BY <1>1, <2>2, EmptySeq
<1>6. DigitValues(s) = d
  BY <1>3, <1>4, <1>5 DEF DigitValues
<1>7. Parse(s) = Ok(Signed(FALSE, ValueOf(d)))
  <2>1. s[1] \notin {Plus, Minus}
    BY <1>1, <1>4
  <2>2. ~(s = <<>> \/ \E i \in 1 .. Len(s) : ~IsDigit(s[i]))
    BY <1>4, <1>5
  <2>3. (s[1] = Minus) = FALSE
    BY <2>1
  <2> QED
    BY <1>6, <2>1, <2>2, <2>3, Zenon DEF Parse
<1>8. Signed(FALSE, ValueOf(d)) = ValueOf(d)
  BY DEF Signed
<1>9. ASSUME ValueOf(d) =< ValueOf(MaxI64) PROVE ParseI64(s) = Parse(s)
  <2>1. s[1] \notin {Plus, Minus}
    BY <1>1, <1>4
  <2>2. MaxI64 \in Seq(0 .. 9)
    BY DEF MaxI64
  <2>3. ~Exceeds(d, MaxI64)
    BY <1>9, <2>2, WithinLimit
  <2> QED
    BY <1>6, <2>1, <2>3, Zenon DEF ParseI64
<1> QED
  BY <1>5, <1>7, <1>8, <1>9 DEF s, K

LEMMA Padded ==
    ASSUME NEW m \in Nat, NEW w \in Int, IsOk(ZeroPad(m, w))
    PROVE  \E d \in Seq(0 .. 9) :
              /\ d # <<>> /\ Len(d) = w /\ ValueOf(d) = m
              /\ ZeroPad(m, w) = Ok(Shown(d))
<1> DEFINE d == DigitsOf(m, w)
<1>1. w > 0 /\ FitsDigits(m, w)
  <2> SUFFICES ASSUME ~(w > 0 /\ FitsDigits(m, w)) PROVE FALSE
    OBVIOUS
  <2>1. ZeroPad(m, w) = Err
    BY DEF ZeroPad
  <2> QED
    BY <2>1 DEF IsOk, Err
<1>2. w \in Nat
  BY <1>1
<1>3. d \in Seq(0 .. 9) /\ Len(d) = w /\ ValueOf(d) = m
  BY <1>1, <1>2, DecimalDigits
<1>4. ZeroPad(m, w) = Ok(Shown(d))
  BY <1>1, <1>3 DEF ZeroPad, Shown
<1>5. d # <<>>
  BY <1>1, <1>3, EmptySeq
<1> QED
  BY <1>3, <1>4, <1>5

(* What stands beside the digits. *)
Mark(n) == IF n < 0 THEN Minus ELSE Plus

Marked(n, sign, s) == CASE sign = "leading"  -> <<Mark(n)>> \o s
                        [] sign = "trailing" -> s \o <<Mark(n)>>
                        [] OTHER             -> s

LEMMA Unmarked ==
    ASSUME NEW n \in Int, NEW sign \in SignKinds, NEW s \in Seq(Inks), s # <<>>,
           \A i \in 1 .. Len(s) : s[i] \notin {Plus, Minus}
    PROVE  /\ Marked(n, sign, s) \in Seq(Inks)
           /\ Len(Marked(n, sign, s)) = Len(s) + IF sign \in {"leading", "trailing"} THEN 1 ELSE 0
           /\ StripSign(Marked(n, sign, s), sign)
              = [rest |-> s, negative |-> sign \in {"leading", "trailing"} /\ n < 0]
<1> DEFINE t == Marked(n, sign, s)
           mark == <<Mark(n)>>
           K == Len(s)
<1>1. K \in Nat /\ K # 0
  BY EmptySeq
<1>2. mark \in Seq(Inks) /\ Len(mark) = 1 /\ mark[1] = Mark(n) /\ Mark(n) \in Inks
  BY DEF Mark, Inks, Plus, Minus, Space, Byte
<1>3. Mark(n) \in {Plus, Minus} /\ (Mark(n) = Minus) = (n < 0)
  BY DEF Mark, Plus, Minus
<1> HIDE DEF mark, K
<1>4. CASE sign = "leading"
  <2>1. t = mark \o s
    BY <1>4 DEF Marked, mark
  <2>2. /\ t \in Seq(Inks) /\ Len(t) = K + 1
        /\ t[1] = Mark(n) /\ \A i \in 1 .. K : t[i + 1] = s[i]
    <3>1. /\ t \in Seq(Inks) /\ Len(t) = 1 + K
          /\ \A i \in 1 .. 1 + K : t[i] = IF i <= 1 THEN mark[i] ELSE s[i - 1]
      <4>1. /\ mark \o s \in Seq(Inks) /\ Len(mark \o s) = Len(mark) + Len(s)
            /\ \A i \in 1 .. Len(mark) + Len(s) :
                  (mark \o s)[i] = IF i <= Len(mark) THEN mark[i] ELSE s[i - Len(mark)]
        BY <1>2, ConcatProperties
      <4> HIDE DEF t
      <4> QED
        BY <1>2, <2>1, <4>1, Zenon DEF K
    <3> HIDE DEF t
    <3>2. t[1] = Mark(n)
      BY <1>1, <1>2, <3>1
    <3>3. ASSUME NEW i \in 1 .. K PROVE t[i + 1] = s[i]
      <4>1. i + 1 \in 1 .. 1 + K /\ ~(i + 1 <= 1) /\ (i + 1) - 1 = i
        BY <1>1
      <4> QED
        BY <3>1, <4>1
    <3> QED
      BY <1>1, <3>1, <3>2, <3>3
  <2> HIDE DEF t
  <2>3. t # <<>>
    BY <1>1, <2>2, EmptySeq
  <2>4. Head(t) = Mark(n)
    BY <2>2
  <2>5. Tail(t) = s
    <3>1. Tail(t) \in Seq(Inks) /\ Len(Tail(t)) = K /\ \A i \in 1 .. K : Tail(t)[i] = t[i + 1]
      BY <1>1, <2>2, <2>3, HeadTailProperties
    <3> QED
      BY <2>2, <3>1, SeqEqual DEF K
  <2>6. StripSign(t, sign) = [rest |-> Tail(t), negative |-> Head(t) = Minus]
    BY <1>3, <1>4, <2>3, <2>4 DEF StripSign
  <2>7. StripSign(t, sign) = [rest |-> s, negative |-> sign \in {"leading", "trailing"} /\ n < 0]
    BY <1>3, <1>4, <2>4, <2>5, <2>6
  <2> QED
    BY <1>4, <2>2, <2>7 DEF t, K
<1>5. CASE sign = "trailing"
  <2>1. t = s \o mark
    BY <1>5 DEF Marked, mark
  <2>2. /\ t \in Seq(Inks) /\ Len(t) = K + 1
        /\ t[K + 1] = Mark(n) /\ \A i \in 1 .. K : t[i] = s[i]
    <3>1. /\ t \in Seq(Inks) /\ Len(t) = K + 1
          /\ \A i \in 1 .. K + 1 : t[i] = IF i <= K THEN s[i] ELSE mark[i - K]
      <4>1. /\ s \o mark \in Seq(Inks) /\ Len(s \o mark) = Len(s) + Len(mark)
            /\ \A i \in 1 .. Len(s) + Len(mark) :
                  (s \o mark)[i] = IF i <= Len(s) THEN s[i] ELSE mark[i - Len(s)]
        BY <1>2, ConcatProperties
      <4> HIDE DEF t
      <4> QED
        BY <1>2, <2>1, <4>1, Zenon DEF K
    <3> HIDE DEF t
    <3>2. t[K + 1] = Mark(n)
      <4>1. K + 1 \in 1 .. K + 1 /\ ~(K + 1 <= K) /\ (K + 1) - K = 1
        BY <1>1
      <4> QED
        BY <1>2, <3>1, <4>1
    <3>3. \A i \in 1 .. K : t[i] = s[i]
      BY <1>1, <3>1
    <3> QED
      BY <3>1, <3>2, <3>3
  <2> HIDE DEF t
  <2>3. t # <<>>
    BY <1>1, <2>2, EmptySeq
  <2>4. Last(t) = Mark(n)
    BY <2>2 DEF Last
  <2>5. Front(t) = s
    <3>1. Front(t) = SubSeq(t, 1, K)
      BY <1>1, <2>2 DEF Front
    <3>2. \A i \in 1 .. K : t[i] \in Inks
      BY <2>2, ElementOfSeq DEF K
    <3>3. /\ SubSeq(t, 1, K) \in Seq(Inks) /\ Len(SubSeq(t, 1, K)) = K
          /\ \A i \in 1 .. K : SubSeq(t, 1, K)[i] = t[i]
      BY <1>1, <3>2, SubSeqProperties
    <3> QED
      BY <2>2, <3>1, <3>3, SeqEqual DEF K
  <2>6. StripSign(t, sign) = [rest |-> Front(t), negative |-> Last(t) = Minus]
    BY <1>3, <1>5, <2>3, <2>4 DEF StripSign
  <2>7. StripSign(t, sign) = [rest |-> s, negative |-> sign \in {"leading", "trailing"} /\ n < 0]
    BY <1>3, <1>5, <2>4, <2>5, <2>6
  <2> QED
    BY <1>5, <2>2, <2>7 DEF t, K
<1>6. CASE sign \notin {"leading", "trailing"}
  <2>1. t = s
    BY <1>6 DEF Marked
  <2>2. StripSign(t, sign) = [rest |-> s, negative |-> FALSE]
    BY <1>6, <2>1 DEF StripSign
  <2>3. Len(s) + 0 = Len(s)
    BY <1>1 DEF K
  <2> QED
    BY <1>6, <2>1, <2>2, <2>3
<1> QED
  BY <1>4, <1>5, <1>6

(* Every number that a field of display digits takes, and that an i64      *)
(* holds, is read back from its bytes when its sign stands beside the      *)
(* digits.  Where it does not, only the magnitude of the number is there   *)
(* to be read (encode_display_int, parse_display_int).  Wider fields take  *)
(* numbers that are refused when they are read.                            *)
THEOREM DisplayReturns ==
    ASSUME NEW n \in Int, NEW width \in Nat, NEW signed \in BOOLEAN, NEW sign \in SignKinds,
           Magnitude(n) =< ValueOf(MaxI64), IsOk(EncodeDisplay(n, width, signed, sign))
    PROVE  \E bytes \in Seq(Byte) :
              /\ EncodeDisplay(n, width, signed, sign) = Ok(bytes) /\ Len(bytes) = width
              /\ DecodeDisplay(bytes, sign)
                 = Ok(IF sign \in {"leading", "trailing"} THEN n ELSE Magnitude(n))
<1> DEFINE separate == sign \in {"leading", "trailing"}
           m == Magnitude(n)
           w == IF separate THEN width - 1 ELSE width
           padded == ZeroPad(m, w)
<1>1. EncodeDisplay(n, width, signed, sign)
      = IF ~separate /\ n < 0 /\ ~signed THEN Err
        ELSE IF IsOk(padded) THEN Ok(Marked(n, sign, padded.ok)) ELSE Err
  BY DEF EncodeDisplay, Then, Marked, Mark
<1>2. IsOk(padded) /\ EncodeDisplay(n, width, signed, sign) = Ok(Marked(n, sign, padded.ok))
  <2>1. ~IsOk(Err)
    BY DEF IsOk, Err
  <2> QED
    BY <1>1, <2>1
<1>3. m \in Nat /\ w \in Int
  <2>1. w \in Int
    OBVIOUS
  <2> QED
    BY <2>1, MagnitudeIs
<1> HIDE DEF m, w
<1>4. PICK d \in Seq(0 .. 9) : /\ d # <<>> /\ Len(d) = w /\ ValueOf(d) = m
                               /\ padded = Ok(Shown(d))
  BY <1>2, <1>3, Padded
<1> DEFINE s == Shown(d)
           bytes == Marked(n, sign, s)
<1>5. EncodeDisplay(n, width, signed, sign) = Ok(bytes)
  <2>1. padded.ok = s
    BY <1>4 DEF Ok
  <2> QED
    BY <1>2, <2>1
<1>6. s \in Seq(Inks) /\ Len(s) = w /\ s # <<>> /\ ParseI64(s) = Ok(m)
  <2>1. ValueOf(d) =< ValueOf(MaxI64)
    BY <1>4 DEF m
  <2> QED
    BY <1>4, <2>1, ShownIs
<1>7. \A i \in 1 .. Len(s) : s[i] \notin {Plus, Minus}
  <2>1. \A i \in 1 .. Len(d) : d[i] \in 0 .. 9
    BY ElementOfSeq
  <2> QED
    BY <1>4, <1>6, <2>1, DigitByte DEF Shown
<1> HIDE DEF s
<1>8. /\ bytes \in Seq(Inks) /\ Len(bytes) = Len(s) + IF separate THEN 1 ELSE 0
      /\ StripSign(bytes, sign) = [rest |-> s, negative |-> separate /\ n < 0]
  BY <1>6, <1>7, Unmarked
<1> HIDE DEF bytes
<1>9. Len(bytes) = width
  BY <1>3, <1>6, <1>8 DEF w
<1>10. bytes \in Seq(Byte)
  <2>1. bytes \in [1 .. Len(bytes) -> Inks] /\ Len(bytes) \in Nat
    BY <1>8, LenProperties
  <2>2. bytes \in [1 .. Len(bytes) -> Byte]
    BY <2>1 DEF Inks
  <2> QED
    BY <2>1, <2>2, SeqDef
<1>11. DecodeDisplay(bytes, sign) = Ok(Signed(separate /\ n < 0, m))
  <2>1. Trim(bytes) = bytes /\ Trim(s) = s
    BY <1>6, <1>8, TrimInked
  <2>2. IsOk(Ok(m)) /\ Ok(m).ok = m
    BY DEF IsOk, Ok
  <2> QED
    BY <1>6, <1>8, <2>1, <2>2 DEF DecodeDisplay, Then
<1>12. Signed(separate /\ n < 0, m) = IF separate THEN n ELSE m
  <2>1. CASE separate /\ n < 0
    BY <2>1, MagnitudeIs DEF m
  <2>2. CASE separate /\ ~(n < 0)
    <3>1. m = n
      BY <2>2 DEF m, Magnitude
    <3> QED
      BY <2>2, <3>1 DEF Signed
  <2>3. CASE ~separate
    BY <2>3 DEF Signed
  <2> QED
    BY <2>1, <2>2, <2>3
<1> QED
  BY <1>5, <1>9, <1>10, <1>11, <1>12 DEF m
=============================================================================
