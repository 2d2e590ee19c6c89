----------------------------- MODULE Induction -----------------------------
(***************************************************************************)
(* Induction over numbers and recursion over finite ranks, stated for sets *)
(* and functions: a lemma about every n is used by way of the set of those *)
(* n it holds for, a recursive function by way of one that solves its      *)
(* equation.  On them rest the lemmas about FlattenSeq, which the writers  *)
(* and the framers are defined with.                                       *)
(***************************************************************************)
EXTENDS Integers, SequencesExt, SequenceTheorems, WellFoundedInduction, TLAPS

-----------------------------------------------------------------------------
(* Induction *)

LEMMA Smallest ==
    ASSUME NEW T \in SUBSET Nat, T # {}
    PROVE  \E m \in T : \A k \in T : m =< k
<1> DEFINE R == OpToRel(<, Nat)
<1>1. IsWellFoundedOn(R, Nat)
  BY NatLessThanWellFounded
<1>2. \A x, y \in Nat : x < y => <<x, y>> \in R
  BY DEF OpToRel
<1> HIDE DEF R
<1>3. PICK x \in T : \A y \in T : ~ (<<y, x>> \in R)
  BY <1>1, WFMin
<1>4. ASSUME NEW k \in T PROVE x =< k
  <2>1. ~(k < x)
    BY <1>2, <1>3
  <2> QED
    BY <2>1
<1> QED
  BY <1>4

LEMMA SetInduction ==
    ASSUME NEW S, 0 \in S, \A n \in Nat : n \in S => n + 1 \in S
    PROVE  Nat \subseteq S
<1> SUFFICES ASSUME ~(Nat \subseteq S) PROVE FALSE
  OBVIOUS
<1> DEFINE T == Nat \ S
<1>1. PICK m \in T : \A k \in T : m =< k
  <2>1. T \in SUBSET Nat /\ T # {}
    OBVIOUS
  <2> HIDE DEF T
  <2> QED
    BY <2>1, Smallest
<1>2. m # 0 /\ m - 1 \in Nat /\ m - 1 \notin T
  BY <1>1
<1> QED
  BY <1>2

(* From the first of some numbers to the last. *)
LEMMA UpTo ==
    ASSUME NEW a \in Int, NEW b \in Int, NEW S, a \in S,
           \A n \in a .. b - 1 : n \in S => n + 1 \in S
    PROVE  a .. b \subseteq S
<1> DEFINE T == {n \in Nat : a + n > b \/ a + n \in S}
<1>1. 0 \in T /\ \A n \in Nat : n \in T => n + 1 \in T
  <2>1. 0 \in T
    OBVIOUS
  <2>2. ASSUME NEW n \in Nat, n \in T PROVE n + 1 \in T
    <3>1. CASE a + n >= b
      BY <3>1
    <3>2. CASE a + n < b
      <4>1. a + n \in S /\ a + n \in a .. b - 1
        BY <2>2, <3>2
      <4>2. (a + n) + 1 \in S
        BY <4>1
      <4> QED
        BY <4>2
    <3> QED
      BY <3>1, <3>2
  <2> QED
    BY <2>1, <2>2
<1>2. Nat \subseteq T
  <2> HIDE DEF T
  <2> QED
    BY <1>1, SetInduction
<1>3. ASSUME NEW k \in a .. b PROVE k \in S
  <2>1. k - a \in T /\ a + (k - a) = k
    BY <1>2
  <2> QED
    BY <2>1
<1> QED
  BY <1>3

-----------------------------------------------------------------------------
(* The smallest and the largest of some numbers *)

LEMMA MinOf ==
    ASSUME NEW T \in SUBSET Nat, T # {}
    PROVE  Min(T) \in T /\ \A k \in T : Min(T) =< k
<1> DEFINE P(x) == \A k \in T : x =< k
<1>1. \E x \in T : P(x)
  BY Smallest
<1>2. Min(T) = CHOOSE x \in T : P(x)
  BY DEF Min
<1> HIDE DEF P
<1>3. Min(T) \in T /\ P(Min(T))
  BY <1>1, <1>2
<1> QED
  BY <1>3 DEF P

LEMMA MaxOf ==
    ASSUME NEW n \in Nat, NEW T \in SUBSET (0 .. n), T # {}
    PROVE  Max(T) \in T /\ \A k \in T : k =< Max(T)
<1> DEFINE P(x) == \A k \in T : x >= k
           U == {n - k : k \in T}
<1>1. \E x \in T : P(x)
  <2>1. U \in SUBSET Nat /\ U # {}
    <3>1. \A k \in T : n - k \in Nat
      OBVIOUS
    <3>2. PICK k \in T : TRUE
      OBVIOUS
    <3>3. n - k \in U
      OBVIOUS
    <3> QED
      BY <3>1, <3>3
  <2> HIDE DEF U
  <2>2. PICK m \in U : \A k \in U : m =< k
    BY <2>1, Smallest
  <2> USE DEF U
  <2>3. PICK x \in T : m = n - x
    BY <2>2
  <2>4. ASSUME NEW k \in T PROVE x >= k
    <3>1. n - x =< n - k
      BY <2>2, <2>3
    <3> QED
      BY <3>1
  <2> QED
    BY <2>4
<1>2. Max(T) = CHOOSE x \in T : P(x)
  BY DEF Max
<1> HIDE DEF P
<1>3. Max(T) \in T /\ P(Max(T))
  BY <1>1, <1>2
<1>4. \A k \in T : Max(T) >= k
  BY <1>3 DEF P
<1> QED
  BY <1>3, <1>4

(* A number that is told to be the largest is. *)
LEMMA MaxIs ==
    ASSUME NEW T \in SUBSET Int, NEW x \in T, \A k \in T : k =< x
    PROVE  Max(T) = x
<1> DEFINE P(y) == \A k \in T : y >= k
<1>1. Max(T) = CHOOSE y \in T : P(y)
  BY DEF Max
<1>2. P(x)
  OBVIOUS
<1>3. \A y \in T : P(y) => y = x
  OBVIOUS
<1> HIDE DEF P
<1> QED
  BY <1>1, <1>2, <1>3

LEMMA MaxOfPair ==
    ASSUME NEW a \in Nat, NEW b \in Nat
    PROVE  Max({a, b}) \in Nat /\ a =< Max({a, b}) /\ b =< Max({a, b})
           /\ Max({a, b}) \in {a, b}
<1>1. CASE a =< b
  <2>1. Max({a, b}) = b
    BY <1>1, MaxIs
  <2> QED
    BY <1>1, <2>1
<1>2. CASE b =< a
  <2>1. Max({a, b}) = a
    BY <1>2, MaxIs
  <2> QED
    BY <1>2, <2>1
<1> QED
  BY <1>1, <1>2

-----------------------------------------------------------------------------
(* Recursion *)

(* A function over D is told by base where it stops, and elsewhere by step *)
(* from its value at next, which is of a lower rank.                       *)
Descends(D, V, N, rank, next, base, step, stop) ==
    /\ N \in Nat /\ rank \in [D -> 0 .. N] /\ next \in [D -> D]
    /\ base \in [D -> V] /\ step \in [D \X V -> V]
    /\ \A d \in D \ stop : rank[next[d]] < rank[d]

Told(g, d, next, base, step, stop) ==
    g[d] = IF d \in stop THEN base[d] ELSE step[<<d, g[next[d]]>>]

LEMMA Recursion ==
    ASSUME NEW D, NEW V, NEW N, NEW rank, NEW next, NEW base, NEW step, NEW stop,
           Descends(D, V, N, rank, next, base, step, stop)
    PROVE  \E g \in [D -> V] : \A d \in D : Told(g, d, next, base, step, stop)
<1> USE DEF Descends, Told
<1> DEFINE Below(n)  == {d \in D : rank[d] < n}
           Solves(g, n) == \A d \in Below(n) :
                              g[d] = IF d \in stop THEN base[d] ELSE step[<<d, g[next[d]]>>]
           Good == {n \in Nat : \E g \in [Below(n) -> V] : Solves(g, n)}
<1>1. 0 \in Good
  <2>1. Below(0) = {}
    OBVIOUS
  <2>2. [d \in Below(0) |-> base[d]] \in [Below(0) -> V]
    BY <2>1
  <2> QED
    BY <2>1, <2>2
<1>2. ASSUME NEW n \in Nat, n \in Good PROVE n + 1 \in Good
  <2>1. PICK g \in [Below(n) -> V] : Solves(g, n)
    BY <1>2
  <2> DEFINE h == [d \in Below(n + 1) |-> IF d \in stop THEN base[d] ELSE step[<<d, g[next[d]]>>]]
  <2>2. \A d \in Below(n) : d \in Below(n + 1)
    OBVIOUS
  <2>3. \A d \in Below(n + 1) : d \notin stop => next[d] \in Below(n)
    OBVIOUS
  <2>4. \A d \in Below(n) : h[d] = g[d]
    BY <2>1, <2>2
  <2>5. h \in [Below(n + 1) -> V]
    <3>1. ASSUME NEW d \in Below(n + 1) PROVE h[d] \in V
      <4>1. CASE d \in stop
        BY <4>1
      <4>2. CASE d \notin stop
        <5>1. g[next[d]] \in V
          BY <2>3, <4>2
        <5> QED
          BY <4>2, <5>1
      <4> QED
        BY <4>1, <4>2
    <3> QED
      BY <3>1
  <2>6. Solves(h, n + 1)
    <3> SUFFICES ASSUME NEW d \in Below(n + 1)
                 PROVE  h[d] = IF d \in stop THEN base[d] ELSE step[<<d, h[next[d]]>>]
      OBVIOUS
    <3>1. d \notin stop => h[next[d]] = g[next[d]]
      BY <2>3, <2>4
    <3> QED
      BY <3>1
  <2> HIDE DEF Below, Solves, h
  <2> QED
    BY <2>5, <2>6
<1>3. N + 1 \in Good
  <2> HIDE DEF Good
  <2> QED
    BY <1>1, <1>2, SetInduction
<1>4. PICK g \in [Below(N + 1) -> V] : Solves(g, N + 1)
  BY <1>3
<1>5. Below(N + 1) = D
  OBVIOUS
<1> QED
  BY <1>4, <1>5

(* Whatever else solves the equation has the same values. *)
LEMMA RecursionUnique ==
    ASSUME NEW D, NEW V, NEW N, NEW rank, NEW next, NEW base, NEW step, NEW stop, NEW g, NEW h,
           Descends(D, V, N, rank, next, base, step, stop),
           g \in [D -> V],
           \A d \in D : Told(g, d, next, base, step, stop),
           \A d \in D : (d \in stop \/ h[next[d]] \in V) => Told(h, d, next, base, step, stop)
    PROVE  \A d \in D : h[d] = g[d]
<1> USE DEF Descends, Told
<1> DEFINE Good == {n \in Nat : \A d \in D : rank[d] < n => h[d] = g[d]}
<1>1. 0 \in Good
  OBVIOUS
<1>2. ASSUME NEW n \in Nat, n \in Good PROVE n + 1 \in Good
  <2> SUFFICES ASSUME NEW d \in D, rank[d] < n + 1 PROVE h[d] = g[d]
    OBVIOUS
  <2>1. CASE d \in stop
    BY <2>1
  <2>2. CASE d \notin stop
    <3>1. next[d] \in D /\ rank[next[d]] < n
      BY <2>2
    <3>2. h[next[d]] = g[next[d]] /\ g[next[d]] \in V
      BY <1>2, <3>1
    <3> QED
      BY <2>2, <3>2
  <2> QED
    BY <2>1, <2>2
<1>3. N + 1 \in Good
  <2> HIDE DEF Good
  <2> QED
    BY <1>1, <1>2, SetInduction
<1> QED
  BY <1>3

-----------------------------------------------------------------------------
(* Concatenation of the members of a sequence *)

(* Concatenation under a name of its own.  A step that cites CatAssociative
   leaves Cat unexpanded, so that the provers regroup a term and do not look
   into the sequences. *)
Cat(x, y) == x \o y

LEMMA CatAssociative ==
    ASSUME NEW S, NEW x \in Seq(S), NEW y \in Seq(S), NEW z \in Seq(S)
    PROVE  Cat(Cat(x, y), z) = Cat(x, Cat(y, z))
<1>1. (x \o y) \o z = x \o (y \o z)
  BY ConcatAssociative, SMTT(60)
<1> QED
  BY <1>1, Zenon DEF Cat

LEMMA FlattenSolves ==
    ASSUME NEW S, NEW s \in Seq(Seq(S)), Len(s) > 0
    PROVE  \E g \in [1 .. Len(s) -> Seq(S)] :
              /\ \A i \in 1 .. Len(s) : g[i] = IF i = 1 THEN s[i] ELSE g[i - 1] \o s[i]
              /\ FlattenSeq(s) = g[Len(s)]
<1> DEFINE D == 1 .. Len(s)
           Turn(g) == [i \in D |-> IF i = 1 THEN s[i] ELSE g[i - 1] \o s[i]]
           f == CHOOSE g : g = Turn(g)
<1>0. Len(s) \in Nat /\ \A i \in D : s[i] \in Seq(S)
  BY LenProperties, ElementOfSeq
<1>1. PICK g \in [D -> Seq(S)] : \A i \in D : g[i] = IF i = 1 THEN s[i] ELSE g[i - 1] \o s[i]
  <2> DEFINE rank == [i \in D |-> i]
             next == [i \in D |-> IF i = 1 THEN i ELSE i - 1]
             base == [i \in D |-> s[i]]
             step == [p \in D \X Seq(S) |-> p[2] \o s[p[1]]]
  <2>1. rank \in [D -> 0 .. Len(s)] /\ next \in [D -> D] /\ base \in [D -> Seq(S)]
    BY <1>0
  <2>2. step \in [D \X Seq(S) -> Seq(S)]
    <3>1. ASSUME NEW p \in D \X Seq(S) PROVE step[p] \in Seq(S)
      BY <1>0, ConcatProperties
    <3> QED
      BY <3>1
  <2>3. \A i \in D \ {1} : rank[next[i]] < rank[i]
    BY <1>0
  <2> HIDE DEF rank, next, base, step
  <2>4. PICK g \in [D -> Seq(S)] :
           \A i \in D : g[i] = IF i \in {1} THEN base[i] ELSE step[<<i, g[next[i]]>>]
    <3>1. Descends(D, Seq(S), Len(s), rank, next, base, step, {1})
      BY <1>0, <2>1, <2>2, <2>3 DEF Descends
    <3>2. PICK g \in [D -> Seq(S)] : \A i \in D : Told(g, i, next, base, step, {1})
      BY <3>1, Recursion
    <3> QED
      BY <3>2 DEF Told
  <2>5. ASSUME NEW i \in D PROVE g[i] = IF i = 1 THEN s[i] ELSE g[i - 1] \o s[i]
    <3>1. CASE i = 1
      BY <2>4, <3>1 DEF base
    <3>2. CASE i # 1
      <4>1. i - 1 \in D /\ next[i] = i - 1
        BY <1>0, <3>2 DEF next
      <4>2. g[i] = step[<<i, g[i - 1]>>] /\ <<i, g[i - 1]>> \in D \X Seq(S)
        BY <2>4, <3>2, <4>1
      <4> QED
        BY <3>2, <4>2 DEF step
    <3> QED
      BY <3>1, <3>2
  <2> QED
    BY <2>5
<1>2. g = Turn(g)
  BY <1>1
<1>3. f = Turn(f)
  <2> HIDE DEF Turn
  <2> QED
    BY <1>2
<1>5. FlattenSeq(s) = f[Len(s)]
  BY <1>0 DEF FlattenSeq
<1> HIDE DEF f
<1>6. \A i \in D : f[i] = IF i = 1 THEN s[i] ELSE f[i - 1] \o s[i]
  BY <1>3, Zenon
<1> HIDE DEF Turn
<1>4. \A i \in D : f[i] = g[i]
  <2> DEFINE Same == {i \in D : f[i] = g[i]}
  <2>1. 1 \in Same
    <3>1. 1 \in D
      BY <1>0
    <3> QED
      BY <3>1, <1>1, <1>6
  <2>2. ASSUME NEW n \in 1 .. Len(s) - 1, n \in Same PROVE n + 1 \in Same
    <3>1. n + 1 \in D /\ n + 1 # 1 /\ (n + 1) - 1 = n
      BY <1>0
    <3>2. f[n + 1] = f[n] \o s[n + 1] /\ g[n + 1] = g[n] \o s[n + 1]
      BY <3>1, <1>1, <1>6
    <3> QED
      BY <2>2, <3>1, <3>2
  <2>3. 1 .. Len(s) \subseteq Same
    <3> HIDE DEF Same
    <3>1. 1 \in Int /\ Len(s) \in Int
      BY <1>0
    <3> QED
      BY <3>1, <2>1, <2>2, UpTo
  <2> QED
    BY <2>3
<1>7. Len(s) \in D
  BY <1>0
<1> QED
  BY <1>1, <1>4, <1>5, <1>7

LEMMA FlattenType ==
    ASSUME NEW S, NEW s \in Seq(Seq(S))
    PROVE  FlattenSeq(s) \in Seq(S) /\ (s = <<>> => FlattenSeq(s) = <<>>)
<1>1. Len(s) \in Nat /\ (Len(s) = 0 => s = <<>>) /\ (s = <<>> => Len(s) = 0)
  BY EmptySeq, LenProperties
<1>2. CASE Len(s) = 0
  BY <1>1, <1>2, EmptySeq DEF FlattenSeq
<1>3. CASE Len(s) > 0
  BY <1>1, <1>3, FlattenSolves, SMTT(40)
<1> QED
  BY <1>1, <1>2, <1>3

LEMMA FlattenAppend ==
    ASSUME NEW S, NEW s \in Seq(Seq(S)), NEW e \in Seq(S)
    PROVE  FlattenSeq(Append(s, e)) = FlattenSeq(s) \o e
<1> DEFINE t == Append(s, e)
           n == Len(s)
<1>1. /\ t \in Seq(Seq(S)) /\ n \in Nat /\ Len(t) = n + 1
      /\ \A i \in 1 .. n : t[i] = s[i]
      /\ t[n + 1] = e
  BY AppendProperties, LenProperties
<1> HIDE DEF t, n
<1>2. PICK g \in [1 .. Len(t) -> Seq(S)] :
         /\ \A i \in 1 .. Len(t) : g[i] = IF i = 1 THEN t[i] ELSE g[i - 1] \o t[i]
         /\ FlattenSeq(t) = g[Len(t)]
  <2>1. Len(t) > 0
    BY <1>1
  <2> QED
    BY <1>1, <2>1, FlattenSolves
<1>3. CASE n = 0
  <2>1. s = <<>>
    BY <1>3, EmptySeq DEF n
  <2>2. FlattenSeq(s) = <<>> /\ <<>> \o e = e
    BY <2>1, FlattenType, ConcatEmptySeq
  <2>3. 1 \in 1 .. Len(t) /\ Len(t) = 1 /\ t[1] = e
    BY <1>1, <1>3
  <2>4. FlattenSeq(t) = e
    BY <1>2, <2>3
  <2> QED
    BY <2>2, <2>4 DEF t
<1>4. CASE n > 0
  <2>1. PICK h \in [1 .. n -> Seq(S)] :
           /\ \A i \in 1 .. n : h[i] = IF i = 1 THEN s[i] ELSE h[i - 1] \o s[i]
           /\ FlattenSeq(s) = h[n]
    BY <1>4, FlattenSolves DEF n
  <2> DEFINE Same == {i \in 1 .. n : g[i] = h[i]}
  <2>2. 1 \in Same
    <3>1. 1 \in 1 .. n /\ 1 \in 1 .. Len(t)
      BY <1>1, <1>4
    <3> QED
      BY <3>1, <1>1, <1>2, <2>1
  <2>3. ASSUME NEW i \in 1 .. n - 1, i \in Same PROVE i + 1 \in Same
    <3>1. i + 1 \in 1 .. n /\ i + 1 \in 1 .. Len(t) /\ i + 1 # 1 /\ (i + 1) - 1 = i
      BY <1>1
    <3>2. g[i + 1] = g[i] \o t[i + 1] /\ h[i + 1] = h[i] \o s[i + 1]
      BY <3>1, <1>2, <2>1
    <3> QED
      BY <2>3, <3>1, <3>2, <1>1
  <2>4. 1 .. n \subseteq Same
    <3> HIDE DEF Same
    <3>1. 1 \in Int /\ n \in Int
      BY <1>1
    <3> QED
      BY <3>1, <2>2, <2>3, UpTo
  <2>5. n \in 1 .. n /\ n + 1 \in 1 .. Len(t) /\ n + 1 # 1 /\ (n + 1) - 1 = n
    BY <1>1, <1>4
  <2>6. g[n + 1] = g[n] \o t[n + 1]
    BY <1>2, <2>5
  <2> QED
    BY <1>1, <1>2, <2>1, <2>4, <2>5, <2>6 DEF t
<1> QED
  BY <1>1, <1>3, <1>4

LEMMA FlattenConcat ==
    ASSUME NEW S, NEW s \in Seq(Seq(S)), NEW t \in Seq(Seq(S))
    PROVE  FlattenSeq(s \o t) = FlattenSeq(s) \o FlattenSeq(t)
<1> DEFINE first == [n \in 0 .. Len(t) |-> SubSeq(t, 1, n)]
           Good == {n \in 0 .. Len(t) : FlattenSeq(s \o first[n]) = FlattenSeq(s) \o FlattenSeq(first[n])}
<1>1. Len(t) \in Nat /\ \A i \in 1 .. Len(t) : t[i] \in Seq(S)
  BY LenProperties, ElementOfSeq
<1>2. \A n \in 0 .. Len(t) : first[n] \in Seq(Seq(S))
  <2> TAKE n \in 0 .. Len(t)
  <2>1. 1 \in Int /\ n \in Int /\ \A i \in 1 .. n : t[i] \in Seq(S)
    BY <1>1
  <2> QED
    BY <2>1, SubSeqProperties
<1>3. 0 \in Good
  <2>1. first[0] = <<>> /\ 0 \in 0 .. Len(t)
    BY <1>1, SubSeqEmpty
  <2>2. FlattenSeq(s) \in Seq(S) /\ FlattenSeq(first[0]) = <<>>
    BY <2>1, FlattenType, EmptySeq
  <2> HIDE DEF first
  <2>3. s \o first[0] = s /\ FlattenSeq(s) \o FlattenSeq(first[0]) = FlattenSeq(s)
    BY <2>1, <2>2, ConcatEmptySeq
  <2> QED
    BY <2>1, <2>3
<1>4. ASSUME NEW n \in 0 .. Len(t) - 1, n \in Good PROVE n + 1 \in Good
  <2>1. n + 1 \in 1 .. Len(t) /\ n + 1 \in 0 .. Len(t) /\ (n + 1) - 1 = n
    BY <1>1
  <2> DEFINE e == t[n + 1]
  <2>2. e \in Seq(S) /\ first[n] \in Seq(Seq(S))
    BY <1>1, <1>2, <2>1
  <2>3. first[n + 1] = first[n] \o <<e>>
    <3>1. 1 \in 1 .. Len(t) /\ n + 1 \in 1 .. Len(t)
      BY <1>1, <2>1
    <3> QED
      BY <2>1, <3>1, SubSeqRecursiveSecond
  <2> HIDE DEF first, e
  <2>4. first[n + 1] = Append(first[n], e) /\ <<e>> \in Seq(Seq(S))
    BY <2>2, <2>3, AppendIsConcat
  <2>5. s \o first[n] \in Seq(Seq(S))
    BY <2>2, ConcatProperties
  <2>6. s \o first[n + 1] = Append(s \o first[n], e)
    <3>1. (s \o first[n]) \o <<e>> = s \o (first[n] \o <<e>>)
      <4> DEFINE u == first[n]
                 v == <<e>>
      <4>1. s \in Seq(Seq(S)) /\ u \in Seq(Seq(S)) /\ v \in Seq(Seq(S))
        BY <2>2, <2>4
      <4> HIDE DEF u, v
      <4>2. Cat(Cat(s, u), v) = Cat(s, Cat(u, v))
        BY <4>1, CatAssociative
      <4>3. (s \o u) \o v = s \o (u \o v)
        BY <4>2, Zenon DEF Cat
      <4> QED
        BY <4>3 DEF u, v
    <3>2. Append(s \o first[n], e) = (s \o first[n]) \o <<e>>
      BY <2>2, <2>5, AppendIsConcat
    <3> QED
      BY <2>3, <3>1, <3>2
  <2>7. FlattenSeq(s \o first[n + 1]) = FlattenSeq(s \o first[n]) \o e
    BY <2>2, <2>5, <2>6, FlattenAppend
  <2>8. FlattenSeq(first[n + 1]) = FlattenSeq(first[n]) \o e
    BY <2>2, <2>4, FlattenAppend
  <2>9. FlattenSeq(s) \in Seq(S) /\ FlattenSeq(first[n]) \in Seq(S)
    BY <2>2, FlattenType
  <2>10. (FlattenSeq(s) \o FlattenSeq(first[n])) \o e = FlattenSeq(s) \o (FlattenSeq(first[n]) \o e)
    <3> DEFINE u == FlattenSeq(s)
               v == FlattenSeq(first[n])
    <3>1. u \in Seq(S) /\ v \in Seq(S) /\ e \in Seq(S)
      BY <2>2, <2>9
    <3> HIDE DEF u, v
    <3>2. Cat(Cat(u, v), e) = Cat(u, Cat(v, e))
      BY <3>1, CatAssociative
    <3>3. (u \o v) \o e = u \o (v \o e)
      BY <3>2, Zenon DEF Cat
    <3> QED
      BY <3>3 DEF u, v
  <2> QED
    BY <1>4, <2>1, <2>7, <2>8, <2>10
<1>5. 0 .. Len(t) \subseteq Good
  <2> HIDE DEF Good
  <2>1. 0 \in Int /\ Len(t) \in Int
    BY <1>1
  <2> QED
    BY <1>3, <1>4, <2>1, UpTo
<1>6. Len(t) \in Good /\ first[Len(t)] = t
  <2>1. Len(t) \in 0 .. Len(t) /\ SubSeq(t, 1, Len(t)) = t
    BY <1>1, SubSeqFull
  <2> QED
    BY <1>5, <2>1
<1> QED
  BY <1>6

LEMMA HeadThenTail ==
    ASSUME NEW S, NEW s \in Seq(S), s # <<>>
    PROVE  Head(s) \in S /\ Tail(s) \in Seq(S) /\ s = <<Head(s)>> \o Tail(s)
<1>1. Len(s) \in Nat /\ Len(s) # 0
  BY EmptySeq
<1>2. 1 \in 1 .. Len(s) /\ Len(s) \in 1 .. Len(s)
  BY <1>1
<1>3. SubSeq(s, 1, Len(s)) = <<s[1]>> \o SubSeq(s, 1 + 1, Len(s))
  BY <1>2, SubSeqRecursiveFirst
<1>4. Tail(s) = SubSeq(s, 2, Len(s)) /\ SubSeq(s, 1, Len(s)) = s
  BY TailIsSubSeq, SubSeqFull
<1> QED
  BY <1>3, <1>4, HeadTailProperties DEF Head

LEMMA Regroup ==
    ASSUME NEW S, NEW a \in Seq(S), NEW b \in Seq(S), NEW c \in Seq(S), NEW d \in Seq(S)
    PROVE  /\ a \o ((b \o c) \o d) = (a \o b) \o (c \o d)
           /\ a \o ((b \o c) \o d) = (a \o (b \o c)) \o d
<1>1. Cat(b, c) \in Seq(S) /\ Cat(c, d) \in Seq(S)
  BY ConcatProperties DEF Cat
<1>2. Cat(Cat(b, c), d) = Cat(b, Cat(c, d))
  BY CatAssociative
<1>3. Cat(Cat(a, b), Cat(c, d)) = Cat(a, Cat(b, Cat(c, d)))
  BY <1>1, CatAssociative
<1>4. Cat(Cat(a, Cat(b, c)), d) = Cat(a, Cat(Cat(b, c), d))
  BY <1>1, CatAssociative
<1>5. /\ Cat(a, Cat(Cat(b, c), d)) = Cat(Cat(a, b), Cat(c, d))
      /\ Cat(a, Cat(Cat(b, c), d)) = Cat(Cat(a, Cat(b, c)), d)
  BY <1>2, <1>3, <1>4
<1> QED
  BY <1>5, Zenon DEF Cat

LEMMA FlattenCons ==
    ASSUME NEW S, NEW s \in Seq(Seq(S)), s # <<>>
    PROVE  /\ Head(s) \in Seq(S) /\ Tail(s) \in Seq(Seq(S))
           /\ FlattenSeq(s) = Head(s) \o FlattenSeq(Tail(s))
<1>1. Head(s) \in Seq(S) /\ Tail(s) \in Seq(Seq(S))
  BY HeadTailProperties
<1>2. s = <<Head(s)>> \o Tail(s)
  BY HeadThenTail
<1>3. ASSUME NEW e \in Seq(S) PROVE <<e>> \in Seq(Seq(S)) /\ FlattenSeq(<<e>>) = e
  <2>1. <<>> \in Seq(Seq(S)) /\ <<e>> \in Seq(Seq(S)) /\ Append(<<>>, e) = <<e>>
    OBVIOUS
  <2>2. FlattenSeq(<<>>) = <<>>
    BY <2>1, FlattenType
  <2>3. <<>> \o e = e
    BY ConcatEmptySeq
  <2>4. FlattenSeq(Append(<<>>, e)) = FlattenSeq(<<>>) \o e
    BY <2>1, FlattenAppend
  <2>5. FlattenSeq(<<e>>) = <<>> \o e
    BY <2>1, <2>2, <2>4, Zenon
  <2> QED
    BY <2>1, <2>3, <2>5, Zenon
<1> DEFINE h == <<Head(s)>>
           t == Tail(s)
<1>4. h \in Seq(Seq(S)) /\ t \in Seq(Seq(S)) /\ FlattenSeq(h) = Head(s)
  BY <1>1, <1>3
<1> HIDE DEF h, t
<1>5. FlattenSeq(h \o t) = FlattenSeq(h) \o FlattenSeq(t)
  BY <1>4, FlattenConcat
<1> QED
  BY <1>1, <1>2, <1>4, <1>5 DEF h, t

(* The middle of three sequences. *)
LEMMA Middle ==
    ASSUME NEW S, NEW p \in Seq(S), NEW r \in Seq(S), NEW q \in Seq(S)
    PROVE  /\ p \o (r \o q) \in Seq(S)
           /\ Len(p \o (r \o q)) = Len(p) + Len(r) + Len(q)
           /\ \A i \in 1 .. Len(r) : (p \o (r \o q))[Len(p) + i] = r[i]
           /\ SubSeq(p \o (r \o q), Len(p) + 1, Len(p) + Len(r)) = r
<1> DEFINE t == r \o q
           u == p \o t
<1>1. /\ Len(p) \in Nat /\ Len(r) \in Nat /\ Len(q) \in Nat
      /\ \A i \in 1 .. Len(r) : r[i] \in S
  BY LenProperties, ElementOfSeq
<1>2. /\ t \in Seq(S) /\ Len(t) = Len(r) + Len(q)
      /\ \A i \in 1 .. Len(r) + Len(q) : t[i] = IF i <= Len(r) THEN r[i] ELSE q[i - Len(r)]
  BY ConcatProperties
<1> HIDE DEF t
<1>3. /\ u \in Seq(S) /\ Len(u) = Len(p) + Len(t)
      /\ \A i \in 1 .. Len(p) + Len(t) : u[i] = IF i <= Len(p) THEN p[i] ELSE t[i - Len(p)]
  <2>1. t \in Seq(S)
    BY <1>2
  <2> QED
    BY <2>1, ConcatProperties
<1> HIDE DEF u
<1>4. ASSUME NEW i \in 1 .. Len(r) PROVE u[Len(p) + i] = r[i]
  <2>1. /\ Len(p) + i \in 1 .. Len(p) + Len(t) /\ ~(Len(p) + i <= Len(p))
        /\ (Len(p) + i) - Len(p) = i /\ i \in 1 .. Len(r) + Len(q) /\ i <= Len(r)
    BY <1>1, <1>2
  <2> QED
    BY <2>1, <1>2, <1>3
<1> DEFINE m == Len(p) + 1
           n == Len(p) + Len(r)
           v == SubSeq(u, m, n)
<1>5. m \in Int /\ n \in Int /\ n - m + 1 = Len(r) /\ (m <= n => n - m + 1 = Len(r)) /\ (~(m <= n) => Len(r) = 0)
  BY <1>1
<1>6. \A i \in 1 .. Len(r) : u[m + i - 1] = r[i]
  <2>1. \A i \in 1 .. Len(r) : m + i - 1 = Len(p) + i
    BY <1>1
  <2> QED
    BY <1>4, <2>1
<1>7. \A i \in m .. n : u[i] \in S
  <2>1. \A i \in m .. n : i - Len(p) \in 1 .. Len(r) /\ Len(p) + (i - Len(p)) = i
    BY <1>1
  <2> QED
    BY <1>1, <1>4, <2>1
<1> HIDE DEF m, n
<1>8. /\ v \in Seq(S) /\ Len(v) = IF m <= n THEN n - m + 1 ELSE 0
      /\ \A i \in 1 .. n - m + 1 : v[i] = u[m + i - 1]
  BY <1>5, <1>7, SubSeqProperties
<1> HIDE DEF v
<1>9. Len(v) = Len(r) /\ \A i \in 1 .. Len(v) : v[i] = r[i]
  BY <1>5, <1>6, <1>8
<1>10. v = r
  BY <1>8, <1>9, SeqEqual
<1> QED
  BY <1>1, <1>2, <1>3, <1>4, <1>10 DEF t, u, v, m, n
=============================================================================
