--------------------------- MODULE FramingProofs ---------------------------
(***************************************************************************)
(* Lemmas about the framers and the writer of Framing: what assemble makes *)
(* of some records, and that the slice framers get the records back, for   *)
(* any records the framing can hold and any number of values a byte has.   *)
(***************************************************************************)
EXTENDS Framing, Induction

-----------------------------------------------------------------------------
(* Types *)

LEMMA Constants == /\ Base \in Nat /\ Base > 1 /\ CR \in Bytes /\ LF \in Bytes
                   /\ 0 \in Bytes /\ Base * Base \in Nat /\ Base * Base > 0
<1>1. Base \in Nat /\ Base > 1 /\ CR \in Bytes /\ LF \in Bytes /\ 0 \in Bytes
  BY BaseAssumption DEF Bytes
<1> QED
  BY <1>1

(* The two digits of a length below Base * Base. *)
LEMMA Digits ==
    ASSUME NEW n \in Nat
    PROVE  /\ n % Base \in Bytes
           /\ (n % (Base * Base)) \div Base \in Bytes
           /\ n < Base * Base => Base * ((n % (Base * Base)) \div Base) + (n % Base) = n
<1> DEFINE W == Base * Base
           m == n % W
           q == m \div Base
<1>0. Base \in Nat /\ Base > 0 /\ W \in Nat /\ W > 0
  BY Constants
<1>1. n % Base \in 0 .. Base - 1
  BY <1>0
<1>2. m \in 0 .. W - 1 /\ (n < W => m = n)
  <2> HIDE DEF W
  <2> QED
    BY <1>0
<1> HIDE DEF m
<1>3. q \in Int /\ Base * q =< m /\ m < Base * q + Base /\ m = Base * q + (m % Base)
  BY <1>0, <1>2
<1> HIDE DEF q
<1>4. q < Base
  <2> SUFFICES ASSUME q >= Base PROVE FALSE
    BY <1>0, <1>3
  <2>1. Base * q >= Base * Base
    BY <1>0, <1>3
  <2> QED
    BY <1>0, <1>2, <1>3, <2>1 DEF W
<1>5. q >= 0
  <2> SUFFICES ASSUME q < 0 PROVE FALSE
    BY <1>3
  <2>1. q + 1 =< 0 /\ Base * (q + 1) = Base * q + Base
    BY <1>0, <1>3
  <2>2. Base * (q + 1) =< 0
    BY <1>0, <1>3, <2>1
  <2> QED
    BY <1>0, <1>2, <1>3, <2>1, <2>2
<1> QED
  BY <1>0, <1>1, <1>2, <1>3, <1>4, <1>5 DEF Bytes, q, m, W

LEMMA DescriptorType ==
    ASSUME NEW n \in Nat
    PROVE  /\ Descriptor(n) \in Seq(Bytes) /\ Len(Descriptor(n)) = 4
           /\ n < Base * Base => Base * Descriptor(n)[1] + Descriptor(n)[2] = n
<1> DEFINE a == (n % (Base * Base)) \div Base
           b == n % Base
<1>1. a \in Bytes /\ b \in Bytes /\ (n < Base * Base => Base * a + b = n)
  BY Digits
<1>2. 0 \in Bytes
  BY Constants
<1>3. Descriptor(n) = <<a, b, 0, 0>>
  BY DEF Descriptor
<1> HIDE DEF a, b
<1>4. <<a, b, 0, 0>> \in Seq(Bytes)
  BY <1>1, <1>2
<1>5. Len(<<a, b, 0, 0>>) = 4 /\ <<a, b, 0, 0>>[1] = a /\ <<a, b, 0, 0>>[2] = b
  OBVIOUS
<1> QED
  BY <1>1, <1>3, <1>4, <1>5

LEMMA FrameType ==
    ASSUME NEW r \in Seq(Bytes), NEW framing \in Framings
    PROVE  Frame(r, framing) \in Seq(Bytes)
<1>1. Len(r) \in Nat /\ Len(r) + 4 \in Nat
  BY LenProperties
<1>2. Append(r, LF) \in Seq(Bytes)
  BY Constants, AppendProperties
<1>3. WithRdw(r) \in Seq(Bytes)
  BY <1>1, DescriptorType, ConcatProperties DEF WithRdw
<1> QED
  BY <1>2, <1>3 DEF Frame, Framings

LEMMA FramesType ==
    ASSUME NEW recs \in Seq(Seq(Bytes)), NEW framing \in Framings
    PROVE  /\ [i \in 1 .. Len(recs) |-> Frame(recs[i], framing)] \in Seq(Seq(Bytes))
           /\ Len([i \in 1 .. Len(recs) |-> Frame(recs[i], framing)]) = Len(recs)
           /\ Frames(recs, framing) \in Seq(Bytes)
<1>1. \A i \in 1 .. Len(recs) : recs[i] \in Seq(Bytes)
  BY ElementOfSeq
<1>2. \A i \in 1 .. Len(recs) : Frame(recs[i], framing) \in Seq(Bytes)
  BY <1>1, FrameType
<1>3. Len(recs) \in Nat
  BY LenProperties
<1>4. [i \in 1 .. Len(recs) |-> Frame(recs[i], framing)] \in Seq(Seq(Bytes))
  BY <1>2, <1>3
<1>5. Len([i \in 1 .. Len(recs) |-> Frame(recs[i], framing)]) = Len(recs)
  BY <1>3
<1> QED
  BY <1>4, <1>5, FlattenType DEF Frames

LEMMA AssembleType ==
    ASSUME NEW recs \in Seq(Seq(Bytes)), NEW framing \in Framings
    PROVE  Assemble(recs, framing) \in Seq(Bytes)
<1>1. Frames(recs, framing) \in Seq(Bytes)
  BY FramesType
<1>2. Len(Frames(recs, framing)) + 4 \in Nat
  BY <1>1, LenProperties
<1>3. Descriptor(Len(Frames(recs, framing)) + 4) \in Seq(Bytes)
  BY <1>2, DescriptorType
<1> QED
  BY <1>1, <1>3, ConcatProperties DEF Assemble
-----------------------------------------------------------------------------
(* The framers' recursions have solutions. *)

Found == [ok : BOOLEAN, recs : Seq(Seq(Bytes))]

LEMMA BeforeType ==
    ASSUME NEW r \in Seq(Seq(Bytes)), NEW rest \in Found
    PROVE  Before(r, rest) \in Found
<1>1. rest.recs \in Seq(Seq(Bytes)) /\ <<>> \in Seq(Seq(Bytes))
  BY EmptySeq DEF Found
<1>2. r \o rest.recs \in Seq(Seq(Bytes))
  BY <1>1, ConcatProperties
<1> QED
  BY <1>1, <1>2 DEF Before, Found, Split, Malformed

LEMMA EndsFound == Split(<<>>) \in Found /\ Malformed \in Found
<1>1. <<>> \in Seq(Seq(Bytes))
  BY EmptySeq
<1> QED
  BY <1>1 DEF Found, Split, Malformed

LEMMA DescriptorLenType ==
    ASSUME NEW data \in Seq(Bytes), NEW p \in Nat \ {0}
    PROVE  /\ DescriptorLen(data, p) \in Nat
           /\ DescriptorLen(data, p) # 0 => DescriptorLen(data, p) >= 4 /\ p + 3 =< Len(data)
<1>1. Len(data) \in Nat
  BY LenProperties
<1>2. CASE p + 3 > Len(data)
  BY <1>2 DEF DescriptorLen
<1>3. CASE ~(p + 3 > Len(data))
  <2>1. p \in 1 .. Len(data) /\ p + 1 \in 1 .. Len(data)
    BY <1>1, <1>3
  <2>2. data[p] \in Bytes /\ data[p + 1] \in Bytes
    BY <2>1, ElementOfSeq
  <2>3. Base \in Nat /\ data[p] \in Nat /\ data[p + 1] \in Nat
    BY <2>2, Constants DEF Bytes
  <2>4. Base * data[p] + data[p + 1] \in Nat
    BY <2>3
  <2> QED
    BY <1>1, <1>3, <2>4 DEF DescriptorLen
<1> QED
  BY <1>2, <1>3

(* One turn of RdwWithin, with what the turns after it find. *)
RdwTurn(data, last, p, found) ==
    LET n == DescriptorLen(data, p)
    IN  IF p > last THEN Split(<<>>)
        ELSE IF n = 0 \/ p + n - 1 > last THEN Malformed
        ELSE Before(<<SubSeq(data, p + 4, p + n - 1)>>, found[p + n])

LEMMA RdwSolves ==
    ASSUME NEW data \in Seq(Bytes), NEW last \in 0 .. Len(data)
    PROVE  \E g \in [1 .. last + 1 -> Found] :
              /\ \A p \in 1 .. last + 1 : g[p] = RdwTurn(data, last, p, g)
              /\ \A p \in 1 .. last + 1 : RdwWithin(data, p, last) = g[p]
<1> DEFINE D == 1 .. last + 1
           n == [p \in D |-> DescriptorLen(data, p)]
           stop == {p \in D : p > last \/ n[p] = 0 \/ p + n[p] - 1 > last}
           piece(p) == SubSeq(data, p + 4, p + n[p] - 1)
           rank == [p \in D |-> last + 1 - p]
           next == [p \in D |-> IF p \in stop THEN p ELSE p + n[p]]
           base == [p \in D |-> IF p > last THEN Split(<<>>) ELSE Malformed]
           step == [x \in D \X Found |-> IF x[1] \in stop THEN Malformed
                                         ELSE Before(<<piece(x[1])>>, x[2])]
<1>1. Len(data) \in Nat /\ last \in Nat /\ last =< Len(data)
  BY LenProperties
<1>2. \A p \in D : n[p] = DescriptorLen(data, p) /\ n[p] \in Nat /\ (n[p] # 0 => n[p] >= 4)
  BY DescriptorLenType
<1> HIDE DEF n
<1>3. ASSUME NEW p \in D \ stop
      PROVE  p + n[p] \in D /\ n[p] >= 4 /\ p + n[p] - 1 =< last /\ p =< last /\ n[p] # 0
  BY <1>1, <1>2
<1>4. ASSUME NEW p \in D \ stop PROVE <<piece(p)>> \in Seq(Seq(Bytes))
  <2> DEFINE a == p + 4
             b == p + n[p] - 1
  <2>1. a \in Int /\ b \in Int /\ \A i \in a .. b : i \in 1 .. Len(data)
    BY <1>1, <1>2, <1>3
  <2>2. \A i \in a .. b : data[i] \in Bytes
    BY <2>1, ElementOfSeq
  <2> HIDE DEF a, b
  <2>3. SubSeq(data, a, b) \in Seq(Bytes)
    BY <2>1, <2>2, SubSeqProperties
  <2> QED
    BY <2>3 DEF a, b
<1>5. rank \in [D -> 0 .. last] /\ next \in [D -> D]
  BY <1>1, <1>3
<1>6. base \in [D -> Found]
  BY EndsFound
<1>7. step \in [D \X Found -> Found]
  <2> SUFFICES ASSUME NEW x \in D \X Found PROVE step[x] \in Found
    OBVIOUS
  <2>1. x[1] \in D /\ x[2] \in Found
    OBVIOUS
  <2>2. CASE x[1] \in stop
    BY <2>2, EndsFound
  <2>3. CASE x[1] \notin stop
    <3>1. <<piece(x[1])>> \in Seq(Seq(Bytes))
      BY <1>4, <2>1, <2>3
    <3> HIDE DEF piece, stop
    <3>2. Before(<<piece(x[1])>>, x[2]) \in Found
      BY <2>1, <3>1, BeforeType
    <3> QED
      BY <2>3, <3>2
  <2> QED
    BY <2>2, <2>3
<1>8. ASSUME NEW p \in D \ stop PROVE rank[next[p]] < rank[p]
  <2>1. next[p] = p + n[p] /\ p + n[p] \in D /\ p \in D /\ p + n[p] > p
    BY <1>1, <1>2, <1>3
  <2>2. rank[p + n[p]] = last + 1 - (p + n[p]) /\ rank[p] = last + 1 - p
    BY <2>1
  <2> QED
    BY <1>1, <1>2, <2>1, <2>2
<1>9. Descends(D, Found, last, rank, next, base, step, stop)
  BY <1>1, <1>5, <1>6, <1>7, <1>8 DEF Descends
<1>10. PICK g \in [D -> Found] : \A p \in D : Told(g, p, next, base, step, stop)
  <2> HIDE DEF D, rank, next, base, step, stop
  <2> QED
    BY <1>9, Recursion
(* What solves the equation in the form of Recursion is told by turns. *)
<1>11. ASSUME NEW h, NEW p \in D, p \in stop \/ h[next[p]] \in Found
       PROVE  Told(h, p, next, base, step, stop) <=> h[p] = RdwTurn(data, last, p, h)
  <2>1. CASE p \in stop
    BY <1>2, <2>1 DEF Told, RdwTurn
  <2>2. CASE p \notin stop
    <3>1. next[p] = p + n[p] /\ <<p, h[next[p]]>> \in D \X Found
      BY <1>11, <2>2
    <3>2. step[<<p, h[next[p]]>>] = Before(<<piece(p)>>, h[p + n[p]])
      BY <2>2, <3>1
    <3>3. RdwTurn(data, last, p, h) = Before(<<piece(p)>>, h[p + n[p]])
      BY <1>2, <1>3, <2>2 DEF RdwTurn
    <3> HIDE DEF step, next, base, piece, stop
    <3> QED
      BY <2>2, <3>2, <3>3 DEF Told
  <2> QED
    BY <2>1, <2>2
<1>12. \A p \in D : g[p] = RdwTurn(data, last, p, g)
  <2>1. \A p \in D : g[next[p]] \in Found
    BY <1>5, <1>10
  <2> HIDE DEF D, next, base, step, stop
  <2> QED
    BY <1>10, <1>11, <2>1
<1> DEFINE Turn(h) == [p \in D |-> RdwTurn(data, last, p, h)]
           f == CHOOSE h : h = Turn(h)
<1>13. f = Turn(f)
  <2>1. g = Turn(g)
    BY <1>12
  <2> HIDE DEF Turn
  <2> QED
    BY <2>1
<1>14. \A p \in D : RdwWithin(data, p, last) = f[p]
  BY DEF RdwWithin, RdwTurn
<1> HIDE DEF f
<1>15. \A p \in D : f[p] = RdwTurn(data, last, p, f)
  <2> HIDE DEF D
  <2> QED
    BY <1>13
<1>16. \A p \in D : f[p] = g[p]
  <2>1. \A p \in D : (p \in stop \/ f[next[p]] \in Found) => Told(f, p, next, base, step, stop)
    <3> HIDE DEF D, next, base, step, stop
    <3> QED
      BY <1>11, <1>15
  <2> HIDE DEF D, rank, next, base, step, stop
  <2> QED
    BY <1>9, <1>10, <2>1, RecursionUnique
<1> QED
  BY <1>12, <1>14, <1>16
(* One turn of RdwBlockedRecords. *)
BlockTurn(data, p, found) ==
    LET n     == DescriptorLen(data, p)
        block == RdwWithin(data, p + 4, p + n - 1)
    IN  IF p > Len(data) THEN Split(<<>>)
        ELSE IF n = 0 \/ p + n - 1 > Len(data) \/ ~block.ok THEN Malformed
        ELSE Before(block.recs, found[p + n])

LEMMA BlockedSolves ==
    ASSUME NEW data \in Seq(Bytes)
    PROVE  \E g \in [1 .. Len(data) + 1 -> Found] :
              /\ \A p \in 1 .. Len(data) + 1 : g[p] = BlockTurn(data, p, g)
              /\ RdwBlockedRecords(data) = g[1]
<1> DEFINE L == Len(data)
           D == 1 .. L + 1
           n == [p \in D |-> DescriptorLen(data, p)]
           block(p) == RdwWithin(data, p + 4, p + n[p] - 1)
           stop == {p \in D : p > L \/ n[p] = 0 \/ p + n[p] - 1 > L \/ ~block(p).ok}
           rank == [p \in D |-> L + 1 - p]
           next == [p \in D |-> IF p \in stop THEN p ELSE p + n[p]]
           base == [p \in D |-> IF p > L THEN Split(<<>>) ELSE Malformed]
           step == [x \in D \X Found |-> IF x[1] \in stop THEN Malformed
                                         ELSE Before(block(x[1]).recs, x[2])]
<1>1. L \in Nat
  BY LenProperties
<1> HIDE DEF L
<1>2. \A p \in D : n[p] = DescriptorLen(data, p) /\ n[p] \in Nat /\ (n[p] # 0 => n[p] >= 4)
  BY DescriptorLenType
<1> HIDE DEF n
<1>3. ASSUME NEW p \in D \ stop
      PROVE  p + n[p] \in D /\ n[p] >= 4 /\ p + n[p] - 1 =< L /\ p =< L /\ n[p] # 0
  <2> HIDE DEF block
  <2> QED
    BY <1>1, <1>2
<1>4. ASSUME NEW p \in D \ stop PROVE block(p).recs \in Seq(Seq(Bytes))
  <2> DEFINE a == p + 4
             b == p + n[p] - 1
  <2>1. b \in 0 .. Len(data) /\ a \in 1 .. b + 1
    BY <1>1, <1>2, <1>3 DEF L
  <2> HIDE DEF a, b
  <2>2. RdwWithin(data, a, b) \in Found
    BY <2>1, RdwSolves
  <2> QED
    BY <2>2 DEF a, b, Found
<1> HIDE DEF block
<1>5. rank \in [D -> 0 .. L] /\ next \in [D -> D]
  BY <1>1, <1>3
<1>6. base \in [D -> Found]
  BY EndsFound
<1>7. step \in [D \X Found -> Found]
  <2> SUFFICES ASSUME NEW x \in D \X Found PROVE step[x] \in Found
    OBVIOUS
  <2>1. x[1] \in D /\ x[2] \in Found
    OBVIOUS
  <2>2. CASE x[1] \in stop
    BY <2>2, EndsFound
  <2>3. CASE x[1] \notin stop
    <3>1. block(x[1]).recs \in Seq(Seq(Bytes))
      BY <1>4, <2>1, <2>3
    <3> HIDE DEF stop
    <3>2. Before(block(x[1]).recs, x[2]) \in Found
      BY <2>1, <3>1, BeforeType
    <3> QED
      BY <2>3, <3>2
  <2> QED
    BY <2>2, <2>3
<1>8. ASSUME NEW p \in D \ stop PROVE rank[next[p]] < rank[p]
  <2>1. next[p] = p + n[p] /\ p + n[p] \in D /\ p \in D /\ p + n[p] > p
    BY <1>1, <1>2, <1>3
  <2>2. rank[p + n[p]] = L + 1 - (p + n[p]) /\ rank[p] = L + 1 - p
    BY <2>1
  <2> QED
    BY <1>1, <1>2, <2>1, <2>2
<1>9. Descends(D, Found, L, rank, next, base, step, stop)
  BY <1>1, <1>5, <1>6, <1>7, <1>8 DEF Descends
<1>10. PICK g \in [D -> Found] : \A p \in D : Told(g, p, next, base, step, stop)
  <2> HIDE DEF D, rank, next, base, step, stop
  <2> QED
    BY <1>9, Recursion
<1>11. ASSUME NEW h, NEW p \in D, p \in stop \/ h[next[p]] \in Found
       PROVE  Told(h, p, next, base, step, stop) <=> h[p] = BlockTurn(data, p, h)
  <2>1. CASE p \in stop
    BY <1>2, <2>1 DEF Told, BlockTurn, L, block
  <2>2. CASE p \notin stop
    <3>1. next[p] = p + n[p] /\ <<p, h[p + n[p]]>> \in D \X Found
      BY <1>3, <1>11, <2>2
    <3>2. step[<<p, h[p + n[p]]>>] = Before(block(p).recs, h[p + n[p]])
      BY <2>2, <3>1
    <3>3. BlockTurn(data, p, h) = Before(block(p).recs, h[p + n[p]])
      BY <1>2, <1>3, <2>2 DEF BlockTurn, block, L
    <3> HIDE DEF step, next, base, stop
    <3> QED
      BY <2>2, <3>1, <3>2, <3>3 DEF Told
  <2> QED
    BY <2>1, <2>2
<1>12. \A p \in D : g[p] = BlockTurn(data, p, g)
  <2>1. \A p \in D : g[next[p]] \in Found
    BY <1>5, <1>10
  <2> HIDE DEF D, next, base, step, stop
  <2> QED
    BY <1>10, <1>11, <2>1
<1> DEFINE Turn(h) == [p \in D |-> BlockTurn(data, p, h)]
           f == CHOOSE h : h = Turn(h)
<1>13. f = Turn(f)
  <2>1. g = Turn(g)
    BY <1>12
  <2> HIDE DEF Turn
  <2> QED
    BY <2>1
<1>14. RdwBlockedRecords(data) = f[1]
  BY DEF RdwBlockedRecords, BlockTurn, L
<1> HIDE DEF f
<1>15. \A p \in D : f[p] = BlockTurn(data, p, f)
  <2> HIDE DEF D
  <2> QED
    BY <1>13
<1>16. \A p \in D : f[p] = g[p]
  <2>1. \A p \in D : (p \in stop \/ f[next[p]] \in Found) => Told(f, p, next, base, step, stop)
    <3> HIDE DEF D, next, base, step, stop
    <3> QED
      BY <1>11, <1>15
  <2> HIDE DEF D, rank, next, base, step, stop
  <2> QED
    BY <1>9, <1>10, <2>1, RecursionUnique
<1>17. 1 \in D
  BY <1>1
<1> QED
  BY <1>12, <1>14, <1>16, <1>17 DEF L

LEMMA StripType ==
    ASSUME NEW line \in Seq(Bytes)
    PROVE  StripCR(line) \in Seq(Bytes)
<1>1. Len(line) \in Nat /\ 1 \in Int /\ Len(line) - 1 \in Int
  BY LenProperties
<1>2. \A i \in 1 .. Len(line) - 1 : i \in 1 .. Len(line)
  BY <1>1
<1>3. \A i \in 1 .. Len(line) - 1 : line[i] \in Bytes
  BY <1>2, ElementOfSeq
<1>4. SubSeq(line, 1, Len(line) - 1) \in Seq(Bytes)
  BY <1>1, <1>3, SubSeqProperties
<1> QED
  BY <1>4 DEF StripCR, Front

(* One turn of NewlineRecords. *)
LineTurn(data, s, found) ==
    LET ends == {i \in s .. Len(data) : data[i] = LF}
    IN  IF s > Len(data) THEN <<>>
        ELSE IF ends = {} THEN <<SubSeq(data, s, Len(data))>>
        ELSE <<StripCR(SubSeq(data, s, Min(ends) - 1))>> \o found[Min(ends) + 1]

LEMMA NewlineSolves ==
    ASSUME NEW data \in Seq(Bytes)
    PROVE  \E g \in [1 .. Len(data) + 1 -> Seq(Seq(Bytes))] :
              /\ \A s \in 1 .. Len(data) + 1 : g[s] = LineTurn(data, s, g)
              /\ NewlineRecords(data) = Split(g[1])
<1> DEFINE L == Len(data)
           D == 1 .. L + 1
           V == Seq(Seq(Bytes))
           ends(s) == {i \in s .. L : data[i] = LF}
           stop == {s \in D : s > L \/ ends(s) = {}}
           e == [s \in D |-> IF s \in stop THEN 0 ELSE Min(ends(s))]
           line(s) == <<StripCR(SubSeq(data, s, e[s] - 1))>>
           rank == [s \in D |-> L + 1 - s]
           next == [s \in D |-> IF s \in stop THEN s ELSE e[s] + 1]
           base == [s \in D |-> IF s > L THEN <<>> ELSE <<SubSeq(data, s, L)>>]
           step == [x \in D \X V |-> IF x[1] \in stop THEN <<>> ELSE line(x[1]) \o x[2]]
<1>1. L \in Nat
  BY LenProperties
<1>2. ASSUME NEW a \in D, NEW b \in 0 .. L PROVE SubSeq(data, a, b) \in Seq(Bytes)
  <2>1. a \in Int /\ b \in Int /\ \A i \in a .. b : i \in 1 .. Len(data)
    BY <1>1
  <2>2. \A i \in a .. b : data[i] \in Bytes
    BY <2>1, ElementOfSeq
  <2> QED
    BY <2>1, <2>2, SubSeqProperties
<1> HIDE DEF L
<1>3. ASSUME NEW s \in D \ stop
      PROVE  e[s] = Min(ends(s)) /\ e[s] \in s .. L /\ e[s] + 1 \in D /\ e[s] - 1 \in 0 .. L
  <2>1. e[s] = Min(ends(s)) /\ ends(s) # {} /\ ends(s) \in SUBSET Nat
    BY <1>1
  <2>2. e[s] \in ends(s)
    BY <2>1, MinOf
  <2>3. e[s] \in s .. L
    BY <2>2
  <2> QED
    BY <1>1, <2>1, <2>3
<1>3a. \A s \in D \ stop : e[s] \in s .. L /\ e[s] + 1 \in D
  <2> HIDE DEF e, stop
  <2> QED
    BY <1>3, Zenon
<1> HIDE DEF e
<1>4. ASSUME NEW s \in D \ stop PROVE line(s) \in V
  <2>1. SubSeq(data, s, e[s] - 1) \in Seq(Bytes)
    BY <1>2, <1>3
  <2>2. StripCR(SubSeq(data, s, e[s] - 1)) \in Seq(Bytes)
    BY <2>1, StripType
  <2> QED
    BY <2>2
<1> HIDE DEF line
<1>5. rank \in [D -> 0 .. L] /\ next \in [D -> D]
  <2> HIDE DEF stop
  <2>1. \A s \in D : (IF s \in stop THEN s ELSE e[s] + 1) \in D
    BY <1>3a
  <2> QED
    BY <1>1, <2>1
<1>6. base \in [D -> V]
  <2>1. ASSUME NEW s \in D PROVE base[s] \in V
    <3>1. CASE s > L
      BY <3>1, EmptySeq
    <3>2. CASE ~(s > L)
      <4>1. L \in 0 .. L
        BY <1>1
      <4>2. SubSeq(data, s, L) \in Seq(Bytes)
        BY <1>2, <4>1
      <4> QED
        BY <3>2, <4>2
    <3> QED
      BY <3>1, <3>2
  <2> QED
    BY <2>1
<1>7. step \in [D \X V -> V]
  <2> SUFFICES ASSUME NEW x \in D \X V PROVE step[x] \in V
    OBVIOUS
  <2>1. x[1] \in D /\ x[2] \in V
    OBVIOUS
  <2> HIDE DEF stop
  <2>2. CASE x[1] \in stop
    BY <2>2, EmptySeq
  <2>3. CASE x[1] \notin stop
    <3>1. line(x[1]) \in V
      BY <1>4, <2>1, <2>3
    <3>2. line(x[1]) \o x[2] \in V
      BY <2>1, <3>1, ConcatProperties
    <3> QED
      BY <2>3, <3>2
  <2> QED
    BY <2>2, <2>3
<1>8. ASSUME NEW s \in D \ stop PROVE rank[next[s]] < rank[s]
  <2> HIDE DEF stop
  <2>1. next[s] = e[s] + 1 /\ e[s] + 1 \in D /\ s \in D /\ e[s] + 1 > s /\ e[s] \in Int
    BY <1>1, <1>3a
  <2>2. rank[e[s] + 1] = L + 1 - (e[s] + 1) /\ rank[s] = L + 1 - s
    BY <2>1
  <2> QED
    BY <1>1, <2>1, <2>2
<1>9. Descends(D, V, L, rank, next, base, step, stop)
  <2> HIDE DEF rank, next, base, step, stop
  <2> QED
    BY <1>1, <1>5, <1>6, <1>7, <1>8 DEF Descends
<1>10. PICK g \in [D -> V] : \A s \in D : Told(g, s, next, base, step, stop)
  <2> HIDE DEF D, V, rank, next, base, step, stop
  <2> QED
    BY <1>9, Recursion
(* What solves the equation in the form of Recursion is told by turns. *)
<1>11. ASSUME NEW h, NEW s \in D, s \in stop \/ h[next[s]] \in V
       PROVE  Told(h, s, next, base, step, stop) <=> h[s] = LineTurn(data, s, h)
  <2>1. CASE s \in stop
    BY <2>1 DEF Told, LineTurn, L
  <2>2. CASE s \notin stop
    <3>1. next[s] = e[s] + 1 /\ <<s, h[e[s] + 1]>> \in D \X V
      BY <1>3, <1>11, <2>2
    <3>2. step[<<s, h[e[s] + 1]>>] = line(s) \o h[e[s] + 1]
      BY <2>2, <3>1
    <3>3. LineTurn(data, s, h) = line(s) \o h[e[s] + 1]
      BY <1>3, <2>2 DEF LineTurn, line, L
    <3> HIDE DEF step, next, base, stop
    <3> QED
      BY <2>2, <3>1, <3>2, <3>3 DEF Told
  <2> QED
    BY <2>1, <2>2
<1>12. \A s \in D : g[s] = LineTurn(data, s, g)
  <2>1. \A s \in D : g[next[s]] \in V
    BY <1>5, <1>10
  <2> HIDE DEF D, V, next, base, step, stop
  <2> QED
    BY <1>10, <1>11, <2>1
<1> DEFINE Turn(h) == [s \in D |-> LineTurn(data, s, h)]
           f == CHOOSE h : h = Turn(h)
<1>13. f = Turn(f)
  <2>1. g = Turn(g)
    BY <1>12
  <2> HIDE DEF Turn
  <2> QED
    BY <2>1
<1>14. NewlineRecords(data) = Split(f[1])
  BY DEF NewlineRecords, LineTurn, L
<1> HIDE DEF f
<1>15. \A s \in D : f[s] = LineTurn(data, s, f)
  <2> HIDE DEF D
  <2> QED
    BY <1>13
<1>16. \A s \in D : f[s] = g[s]
  <2>1. \A s \in D : (s \in stop \/ f[next[s]] \in V) => Told(f, s, next, base, step, stop)
    <3> HIDE DEF D, V, next, base, step, stop
    <3> QED
      BY <1>11, <1>15
  <2> HIDE DEF D, V, rank, next, base, step, stop
  <2> QED
    BY <1>9, <1>10, <2>1, RecursionUnique
<1>17. 1 \in D
  BY <1>1
<1> QED
  BY <1>12, <1>14, <1>16, <1>17 DEF L
(* Data of whole records. *)
LEMMA WholeRecords ==
    ASSUME NEW n \in Nat, NEW len \in Nat, len > 0
    PROVE  n % len = 0 => n \div len \in Nat /\ n = (n \div len) * len
<1> DEFINE q == n \div len
           r == n % len
<1>1. q \in Int /\ r \in 0 .. len - 1 /\ n = len * q + r
  OBVIOUS
<1> HIDE DEF q, r
<1>2. q >= 0
  <2> SUFFICES ASSUME q =< -1 PROVE FALSE
    BY <1>1
  <2>1. len * q =< -len
    BY <1>1
  <2> QED
    BY <1>1, <2>1
<1>3. len * q = q * len
  BY <1>1
<1> QED
  BY <1>1, <1>2, <1>3 DEF q, r

(* The lines of some data, from each place on. *)
LinesOf(data) ==
    CHOOSE f \in [1 .. Len(data) + 1 -> Seq(Seq(Bytes))] :
       /\ \A s \in 1 .. Len(data) + 1 : f[s] = LineTurn(data, s, f)
       /\ NewlineRecords(data) = Split(f[1])

LEMMA LinesSolve ==
    ASSUME NEW data \in Seq(Bytes)
    PROVE  /\ LinesOf(data) \in [1 .. Len(data) + 1 -> Seq(Seq(Bytes))]
           /\ \A s \in 1 .. Len(data) + 1 : LinesOf(data)[s] = LineTurn(data, s, LinesOf(data))
           /\ NewlineRecords(data) = Split(LinesOf(data)[1])
<1> DEFINE P(f) == /\ \A s \in 1 .. Len(data) + 1 : f[s] = LineTurn(data, s, f)
                   /\ NewlineRecords(data) = Split(f[1])
           F == [1 .. Len(data) + 1 -> Seq(Seq(Bytes))]
<1>1. \E f \in F : P(f)
  BY NewlineSolves
<1>2. LinesOf(data) = CHOOSE f \in F : P(f)
  BY DEF LinesOf
<1> HIDE DEF P, F
<1>3. LinesOf(data) \in F /\ P(LinesOf(data))
  BY <1>1, <1>2
<1> QED
  BY <1>3 DEF P, F

LEMMA RecordsType ==
    ASSUME NEW data \in Seq(Bytes), NEW framing \in Framings, NEW len \in Nat
    PROVE  Records(data, framing, len) \in Found
<1>1. Len(data) \in Nat /\ 1 \in 1 .. Len(data) + 1
  BY LenProperties
<1>2. CASE framing = "newline"
  <2>1. LinesOf(data)[1] \in Seq(Seq(Bytes)) /\ NewlineRecords(data) = Split(LinesOf(data)[1])
    BY <1>1, LinesSolve
  <2> QED
    BY <1>2, <2>1 DEF Records, Split, Found
<1>3. CASE framing = "fixed"
  <2>1. CASE len = 0 \/ Len(data) % len # 0
    BY <1>3, <2>1, EndsFound DEF Records, FixedRecords
  <2>2. CASE ~(len = 0 \/ Len(data) % len # 0)
    <3> DEFINE m == Len(data) \div len
               cut == [i \in 1 .. m |-> SubSeq(data, (i - 1) * len + 1, i * len)]
    <3>1. m \in Nat /\ Len(data) = m * len
      BY <1>1, <2>2, WholeRecords
    <3> HIDE DEF m
    <3>2. ASSUME NEW i \in 1 .. m PROVE SubSeq(data, (i - 1) * len + 1, i * len) \in Seq(Bytes)
      <4>1. (i - 1) * len >= 0 /\ i * len =< m * len
        BY <3>1
      <4> DEFINE a == (i - 1) * len + 1
                 b == i * len
      <4>2. a \in Int /\ b \in Int /\ \A k \in a .. b : k \in 1 .. Len(data)
        BY <1>1, <3>1, <4>1
      <4> HIDE DEF a, b
      <4>3. \A k \in a .. b : data[k] \in Bytes
        BY <4>2, ElementOfSeq
      <4>4. SubSeq(data, a, b) \in Seq(Bytes)
        BY <4>2, <4>3, SubSeqProperties
      <4> QED
        BY <4>4 DEF a, b
    <3>3. cut \in Seq(Seq(Bytes))
      BY <3>1, <3>2
    <3>4. Records(data, framing, len) = Split(cut)
      BY <1>3, <2>2, Zenon DEF Records, FixedRecords, m
    <3> HIDE DEF cut
    <3> QED
      BY <3>3, <3>4 DEF Split, Found
  <2> QED
    BY <2>1, <2>2
<1>4. CASE framing = "rdw"
  <2>1. Len(data) \in 0 .. Len(data)
    BY <1>1
  <2>2. RdwWithin(data, 1, Len(data)) \in Found
    BY <1>1, <2>1, RdwSolves
  <2> QED
    BY <1>4, <2>2 DEF Records, RdwRecords
<1>5. CASE framing = "rdw_blocked"
  <2>1. RdwBlockedRecords(data) \in Found
    BY <1>1, BlockedSolves
  <2> QED
    BY <1>5, <2>1 DEF Records
<1> QED
  BY <1>2, <1>3, <1>4, <1>5 DEF Framings

-----------------------------------------------------------------------------
(* What is written is read back. *)

LEMMA FramesCons ==
    ASSUME NEW recs \in Seq(Seq(Bytes)), NEW framing \in Framings, recs # <<>>
    PROVE  /\ Head(recs) \in Seq(Bytes) /\ Tail(recs) \in Seq(Seq(Bytes))
           /\ Len(Tail(recs)) = Len(recs) - 1 /\ Len(recs) \in Nat \ {0}
           /\ recs = <<Head(recs)>> \o Tail(recs)
           /\ Head(recs) = recs[1]
           /\ \A i \in 1 .. Len(Tail(recs)) : Tail(recs)[i] = recs[i + 1]
           /\ Frames(recs, framing) = Frame(Head(recs), framing) \o Frames(Tail(recs), framing)
<1> DEFINE q == Tail(recs)
           s == [i \in 1 .. Len(recs) |-> Frame(recs[i], framing)]
           t == [i \in 1 .. Len(q) |-> Frame(q[i], framing)]
<1>1. /\ Head(recs) \in Seq(Bytes) /\ q \in Seq(Seq(Bytes)) /\ Len(q) = Len(recs) - 1
      /\ Len(recs) \in Nat \ {0} /\ recs = <<Head(recs)>> \o q /\ Head(recs) = recs[1]
      /\ \A i \in 1 .. Len(q) : q[i] = recs[i + 1]
  BY HeadThenTail, HeadTailProperties, EmptySeq DEF Head
<1> HIDE DEF q
<1>2. s \in Seq(Seq(Bytes)) /\ Len(s) = Len(recs) /\ t \in Seq(Seq(Bytes)) /\ Len(t) = Len(q)
  BY <1>1, FramesType
<1>3. s # <<>>
  BY <1>1, <1>2, EmptySeq
<1>4. /\ FlattenSeq(s) = Head(s) \o FlattenSeq(Tail(s))
      /\ Tail(s) \in Seq(Seq(Bytes)) /\ Len(Tail(s)) = Len(s) - 1
      /\ \A i \in 1 .. Len(Tail(s)) : Tail(s)[i] = s[i + 1]
  <2> HIDE DEF s
  <2> QED
    BY <1>2, <1>3, FlattenCons, HeadTailProperties
<1>5. Head(s) = Frame(Head(recs), framing)
  <2>1. s[1] = Frame(recs[1], framing)
    BY <1>1
  <2>2. Head(s) = s[1]
    BY DEF Head
  <2> HIDE DEF s
  <2> QED
    BY <1>1, <2>1, <2>2
<1>6. Tail(s) = t
  <2> DEFINE u == Tail(s)
  <2>1. u \in Seq(Seq(Bytes)) /\ Len(u) = Len(t)
    <3> HIDE DEF s, t
    <3> QED
      BY <1>1, <1>2, <1>4
  <2>2. ASSUME NEW i \in 1 .. Len(u) PROVE u[i] = t[i]
    <3>1. i \in 1 .. Len(q) /\ i + 1 \in 1 .. Len(recs) /\ i \in 1 .. Len(Tail(s))
      BY <1>1, <1>2, <2>1
    <3>2. s[i + 1] = Frame(recs[i + 1], framing) /\ t[i] = Frame(q[i], framing)
      BY <3>1
    <3>3. u[i] = s[i + 1] /\ q[i] = recs[i + 1]
      <4> HIDE DEF s
      <4> QED
        BY <1>1, <1>4, <3>1
    <3> QED
      BY <3>2, <3>3
  <2> HIDE DEF u, t
  <2>3. u = t
    BY <1>2, <2>1, <2>2, SeqEqual
  <2> QED
    BY <2>3 DEF u
<1>7. Frames(recs, framing) = Head(s) \o FlattenSeq(Tail(s)) /\ Frames(q, framing) = FlattenSeq(t)
  BY <1>4 DEF Frames
<1> HIDE DEF s, t
<1>8. Frames(recs, framing) = Frame(Head(recs), framing) \o Frames(q, framing)
  BY <1>5, <1>6, <1>7
<1> QED
  BY <1>1, <1>8 DEF q

LEMMA FramesEmpty ==
    ASSUME NEW framing \in Framings
    PROVE  Frames(<<>>, framing) = <<>>
<1>1. <<>> \in Seq(Seq(Bytes)) /\ Len(<<>>) = 0
  BY EmptySeq
<1>2. [i \in 1 .. Len(<<>>) |-> Frame(<<>>[i], framing)] = <<>>
  BY <1>1
<1> QED
  BY <1>1, <1>2, FlattenType DEF Frames

(* A descriptor word and what stands behind it, within a stream. *)
LEMMA ReadFrame ==
    ASSUME NEW pre \in Seq(Bytes), NEW r \in Seq(Bytes), NEW rest \in Seq(Bytes),
           Len(r) + 4 < Word
    PROVE  LET data == pre \o (WithRdw(r) \o rest)
               p    == Len(pre) + 1
           IN  /\ WithRdw(r) \in Seq(Bytes) /\ Len(WithRdw(r)) = Len(r) + 4
               /\ data \in Seq(Bytes) /\ Len(data) = Len(pre) + (Len(r) + 4) + Len(rest)
               /\ data = (pre \o WithRdw(r)) \o rest
               /\ DescriptorLen(data, p) = Len(r) + 4
               /\ SubSeq(data, p + 4, p + (Len(r) + 4) - 1) = r
<1> DEFINE d == Descriptor(Len(r) + 4)
           w == d \o r
           data == pre \o (w \o rest)
           head == pre \o d
           p == Len(pre) + 1
<1>1. Len(pre) \in Nat /\ Len(r) \in Nat /\ Len(rest) \in Nat /\ Len(r) + 4 \in Nat
  BY LenProperties
<1>2. d \in Seq(Bytes) /\ Len(d) = 4 /\ Base * d[1] + d[2] = Len(r) + 4
  BY <1>1, DescriptorType DEF Word
<1> HIDE DEF d
<1>3. /\ w \in Seq(Bytes) /\ Len(w) = Len(r) + 4
      /\ w[1] = d[1] /\ w[2] = d[2]
  <2>1. /\ w \in Seq(Bytes) /\ Len(w) = Len(d) + Len(r)
        /\ \A i \in 1 .. Len(d) + Len(r) : w[i] = IF i <= Len(d) THEN d[i] ELSE r[i - Len(d)]
    BY <1>2, ConcatProperties
  <2> HIDE DEF w
  <2> QED
    BY <1>1, <1>2, <2>1
<1>4. data = head \o (r \o rest) /\ data = (pre \o w) \o rest
  <2>1. d \in Seq(Bytes)
    BY <1>2
  <2>2. pre \o ((d \o r) \o rest) = (pre \o d) \o (r \o rest)
    BY <2>1, Regroup, SMTT(40)
  <2>3. pre \o ((d \o r) \o rest) = (pre \o (d \o r)) \o rest
    BY <2>1, Regroup, SMTT(40)
  <2> QED
    BY <2>2, <2>3, Zenon
<1> HIDE DEF w
<1>5. /\ data \in Seq(Bytes) /\ Len(data) = Len(pre) + Len(w) + Len(rest)
      /\ \A i \in 1 .. Len(w) : data[Len(pre) + i] = w[i]
  <2>1. w \in Seq(Bytes)
    BY <1>3
  <2> QED
    BY <2>1, Middle
<1>6. head \in Seq(Bytes) /\ Len(head) = Len(pre) + 4
  <2>1. d \in Seq(Bytes)
    BY <1>2
  <2>2. head \in Seq(Bytes) /\ Len(head) = Len(pre) + Len(d)
    BY <2>1, ConcatProperties
  <2> QED
    BY <1>2, <2>2
<1> HIDE DEF head
<1>7. SubSeq(head \o (r \o rest), Len(head) + 1, Len(head) + Len(r)) = r
  BY <1>6, Middle
<1> HIDE DEF data
<1>8. SubSeq(data, p + 4, p + (Len(r) + 4) - 1) = r
  <2>1. p + 4 = Len(head) + 1 /\ p + (Len(r) + 4) - 1 = Len(head) + Len(r)
    BY <1>1, <1>6
  <2> QED
    BY <1>4, <1>7, <2>1
<1>9. DescriptorLen(data, p) = Len(r) + 4
  <2>1. data[p] = d[1] /\ data[p + 1] = d[2]
    <3>1. data[Len(pre) + 1] = w[1] /\ data[Len(pre) + 2] = w[2]
      BY <1>1, <1>3, <1>5
    <3>2. p + 1 = Len(pre) + 2
      BY <1>1
    <3> QED
      BY <1>3, <3>1, <3>2
  <2>2. ~(p + 3 > Len(data))
    BY <1>1, <1>3, <1>5
  <2>3. Base * data[p] + data[p + 1] = Len(r) + 4
    BY <1>2, <2>1
  <2> QED
    BY <1>1, <2>2, <2>3 DEF DescriptorLen
<1> QED
  BY <1>3, <1>4, <1>5, <1>8, <1>9 DEF WithRdw, w, d, data
(* Records whose lengths a descriptor word can count. *)
Countable(recs, framing) ==
    \/ \A i \in 1 .. Len(recs) : Len(recs[i]) + 4 < Word
    \/ Len(Frames(recs, framing)) < Word

RdwReadable(m, framing) ==
    \A pre, recs : pre \in Seq(Bytes) /\ recs \in Seq(Seq(Bytes)) /\ Len(recs) = m
                      /\ Countable(recs, framing) =>
        LET data == pre \o Frames(recs, framing)
        IN  RdwWithin(data, Len(pre) + 1, Len(data)) = Split(recs)

LEMMA RdwReads ==
    ASSUME NEW framing \in {"rdw", "rdw_blocked"}, NEW m \in Nat
    PROVE  RdwReadable(m, framing)
<1>0. framing \in Framings
  BY DEF Framings
<1> DEFINE Good == {n \in Nat : RdwReadable(n, framing)}
(* The recursion of RdwWithin, at a place within the data. *)
<1>1. ASSUME NEW data \in Seq(Bytes), NEW p \in 1 .. Len(data) + 1
      PROVE  /\ p = Len(data) + 1 => RdwWithin(data, p, Len(data)) = Split(<<>>)
             /\ \A n \in Nat :
                   (p =< Len(data) /\ n = DescriptorLen(data, p) /\ n >= 4 /\ p + n =< Len(data) + 1)
                   => RdwWithin(data, p, Len(data)) =
                         Before(<<SubSeq(data, p + 4, p + n - 1)>>, RdwWithin(data, p + n, Len(data)))
  <2>1. Len(data) \in Nat /\ Len(data) \in 0 .. Len(data)
    BY LenProperties
  <2>2. PICK g \in [1 .. Len(data) + 1 -> Found] :
           /\ \A q \in 1 .. Len(data) + 1 : g[q] = RdwTurn(data, Len(data), q, g)
           /\ \A q \in 1 .. Len(data) + 1 : RdwWithin(data, q, Len(data)) = g[q]
    BY <2>1, RdwSolves
  <2>3. p = Len(data) + 1 => RdwWithin(data, p, Len(data)) = Split(<<>>)
    <3>1. p = Len(data) + 1 => p > Len(data)
      BY <2>1
    <3>2. p > Len(data) => RdwTurn(data, Len(data), p, g) = Split(<<>>)
      BY DEF RdwTurn
    <3>3. RdwWithin(data, p, Len(data)) = RdwTurn(data, Len(data), p, g)
      BY <2>2
    <3> QED
      BY <3>1, <3>2, <3>3
  <2>4. ASSUME NEW n \in Nat, p =< Len(data), n = DescriptorLen(data, p),
               n >= 4, p + n =< Len(data) + 1
        PROVE  RdwWithin(data, p, Len(data)) =
                  Before(<<SubSeq(data, p + 4, p + n - 1)>>, RdwWithin(data, p + n, Len(data)))
    <3>1. p + n \in 1 .. Len(data) + 1 /\ ~(p > Len(data)) /\ n # 0 /\ ~(p + n - 1 > Len(data))
      BY <2>1, <2>4
    <3>2. g[p] = Before(<<SubSeq(data, p + 4, p + n - 1)>>, g[p + n])
      BY <2>2, <2>4, <3>1 DEF RdwTurn
    <3> QED
      BY <2>2, <3>1, <3>2
  <2> QED
    BY <2>3, <2>4
<1>2. 0 \in Good
  <2> SUFFICES ASSUME NEW pre \in Seq(Bytes), NEW recs \in Seq(Seq(Bytes)), Len(recs) = 0
               PROVE  LET data == pre \o Frames(recs, framing)
                      IN  RdwWithin(data, Len(pre) + 1, Len(data)) = Split(recs)
    BY DEF RdwReadable
  <2>1. recs = <<>>
    BY EmptySeq
  <2>2. pre \o Frames(recs, framing) = pre
    BY <1>0, <2>1, FramesEmpty, ConcatEmptySeq
  <2>3. Len(pre) \in Nat
    BY LenProperties
  <2>4. RdwWithin(pre, Len(pre) + 1, Len(pre)) = Split(<<>>)
    BY <1>1, <2>3
  <2> QED
    BY <2>1, <2>2, <2>4
<1>3. ASSUME NEW n \in Nat, n \in Good PROVE n + 1 \in Good
  <2> SUFFICES ASSUME NEW pre \in Seq(Bytes), NEW recs \in Seq(Seq(Bytes)), Len(recs) = n + 1,
                      Countable(recs, framing)
               PROVE  LET data == pre \o Frames(recs, framing)
                      IN  RdwWithin(data, Len(pre) + 1, Len(data)) = Split(recs)
    BY DEF RdwReadable
  <2> DEFINE r == Head(recs)
             q == Tail(recs)
             rest == Frames(q, framing)
             w == WithRdw(r)
             data == pre \o (w \o rest)
             front == pre \o w
  <2>1. recs # <<>>
    BY EmptySeq
  <2>2. /\ r \in Seq(Bytes) /\ q \in Seq(Seq(Bytes))
        /\ Len(q) = n /\ recs = <<r>> \o q /\ r = recs[1]
        /\ \A i \in 1 .. Len(q) : q[i] = recs[i + 1]
        /\ Frames(recs, framing) = Frame(r, framing) \o rest
    <3>1. /\ r \in Seq(Bytes) /\ q \in Seq(Seq(Bytes)) /\ Len(q) = Len(recs) - 1
          /\ recs = <<r>> \o q /\ r = recs[1]
          /\ \A i \in 1 .. Len(q) : q[i] = recs[i + 1]
      BY <1>0, <2>1, FramesCons
    <3>2. Frames(recs, framing) = Frame(r, framing) \o rest
      BY <1>0, <2>1, FramesCons
    <3>3. Len(q) = n
      BY <3>1
    <3> QED
      BY <3>1, <3>2, <3>3
  <2>3. Frames(recs, framing) = w \o rest
    BY <2>2 DEF Frame
  <2> HIDE DEF r, q
  <2>4. rest \in Seq(Bytes) /\ w \in Seq(Bytes)
    <3>1. Len(r) + 4 \in Nat
      BY <2>2, LenProperties
    <3>2. Descriptor(Len(r) + 4) \in Seq(Bytes)
      BY <3>1, DescriptorType
    <3> QED
      BY <1>0, <2>2, <3>2, FramesType, ConcatProperties DEF WithRdw
  <2> HIDE DEF rest
  <2>5. Len(r) \in Nat /\ Len(rest) \in Nat /\ Len(w) = Len(r) + 4 /\ Len(w \o rest) = Len(r) + 4 + Len(rest)
    <3>1. Len(r) \in Nat /\ Len(rest) \in Nat /\ Len(r) + 4 \in Nat
      BY <2>2, <2>4, LenProperties
    <3>2. Descriptor(Len(r) + 4) \in Seq(Bytes) /\ Len(Descriptor(Len(r) + 4)) = 4
      BY <3>1, DescriptorType
    <3>3. Len(w) = 4 + Len(r)
      <4> DEFINE d == Descriptor(Len(r) + 4)
      <4>1. w = d \o r
        BY DEF WithRdw
      <4>2. d \in Seq(Bytes)
        BY <3>2
      <4> HIDE DEF d, w
      <4>3. Len(d \o r) = Len(d) + Len(r)
        BY <2>2, <4>2, ConcatProperties
      <4> QED
        BY <3>2, <4>1, <4>3 DEF d
    <3>4. Len(w \o rest) = Len(w) + Len(rest)
      BY <2>4, ConcatProperties
    <3> QED
      BY <3>1, <3>3, <3>4
  <2>6. Len(r) + 4 < Word /\ Countable(q, framing)
    <3>1. Word \in Nat
      BY Constants DEF Word
    <3>2. CASE \A i \in 1 .. Len(recs) : Len(recs[i]) + 4 < Word
      <4>1. 1 \in 1 .. Len(recs) /\ \A i \in 1 .. Len(q) : i + 1 \in 1 .. Len(recs)
        BY <2>2
      <4> QED
        BY <2>2, <3>2, <4>1 DEF Countable
    <3>3. CASE Len(Frames(recs, framing)) < Word
      <4>1. Len(r) + 4 + Len(rest) < Word
        BY <2>3, <2>5, <3>3
      <4>2. Len(r) + 4 < Word /\ Len(rest) < Word
        BY <2>5, <3>1, <4>1
      <4> QED
        BY <4>2 DEF Countable, rest
    <3> QED
      BY <3>2, <3>3 DEF Countable
  <2>7. /\ data \in Seq(Bytes) /\ Len(data) = Len(pre) + (Len(r) + 4) + Len(rest)
        /\ data = front \o rest
        /\ DescriptorLen(data, Len(pre) + 1) = Len(r) + 4
        /\ SubSeq(data, (Len(pre) + 1) + 4, (Len(pre) + 1) + (Len(r) + 4) - 1) = r
    <3>1. Len(r) + 4 < Word /\ r \in Seq(Bytes) /\ rest \in Seq(Bytes)
      BY <2>2, <2>4, <2>6
    <3> QED
      BY <3>1, ReadFrame
  <2>8. front \in Seq(Bytes) /\ Len(front) = Len(pre) + Len(w) /\ Len(pre) \in Nat
    BY <2>4, ConcatProperties, LenProperties
  <2> HIDE DEF w, front, data
  <2>9. RdwWithin(data, Len(front) + 1, Len(data)) = Split(q)
    <3>1. RdwReadable(n, framing)
      BY <1>3
    <3>2. front \o Frames(q, framing) = data
      BY <2>7 DEF rest
    <3> QED
      BY <2>2, <2>6, <2>8, <3>1, <3>2 DEF RdwReadable
  <2>10. RdwWithin(data, Len(pre) + 1, Len(data)) =
            Before(<<r>>, RdwWithin(data, (Len(pre) + 1) + (Len(r) + 4), Len(data)))
    <3> DEFINE p == Len(pre) + 1
               k == Len(r) + 4
    <3>1. /\ p \in 1 .. Len(data) + 1 /\ p =< Len(data)
          /\ k \in Nat /\ k >= 4 /\ p + k =< Len(data) + 1
      BY <2>5, <2>7, <2>8
    <3>2. k = DescriptorLen(data, p) /\ SubSeq(data, p + 4, p + k - 1) = r
      BY <2>7
    <3> HIDE DEF p, k
    <3>3. RdwWithin(data, p, Len(data)) =
             Before(<<SubSeq(data, p + 4, p + k - 1)>>, RdwWithin(data, p + k, Len(data)))
      BY <1>1, <2>7, <3>1, <3>2
    <3> QED
      BY <3>2, <3>3 DEF p, k
  <2>11. (Len(pre) + 1) + (Len(r) + 4) = Len(front) + 1
    BY <2>5, <2>8
  <2>12. RdwWithin(data, Len(pre) + 1, Len(data)) = Split(<<r>> \o q)
    <3>1. Before(<<r>>, Split(q)) = Split(<<r>> \o q)
      BY DEF Before, Split
    <3> QED
      BY <2>9, <2>10, <2>11, <3>1
  <2> QED
    BY <2>2, <2>3, <2>12 DEF data
<1>4. Nat \subseteq Good
  <2> HIDE DEF Good
  <2> QED
    BY <1>2, <1>3, SetInduction
<1> QED
  BY <1>4
(* One block of length-prefixed records. *)
LEMMA BlockReads ==
    ASSUME NEW recs \in Seq(Seq(Bytes)), Len(Frames(recs, "rdw_blocked")) + 4 < Word
    PROVE  RdwBlockedRecords(Assemble(recs, "rdw_blocked")) = Split(recs)
<1> DEFINE body == Frames(recs, "rdw_blocked")
           n == Len(body) + 4
           d == Descriptor(n)
           data == d \o body
<1>1. body \in Seq(Bytes) /\ n \in Nat /\ n >= 4 /\ n < Word
  <2>1. body \in Seq(Bytes)
    BY FramesType DEF Framings
  <2> QED
    BY <2>1, LenProperties
<1>2. d \in Seq(Bytes) /\ Len(d) = 4 /\ Base * d[1] + d[2] = n
  BY <1>1, DescriptorType DEF Word
<1>3. /\ data \in Seq(Bytes) /\ Len(data) = n
      /\ data[1] = d[1] /\ data[2] = d[2]
  <2>1. d \in Seq(Bytes) /\ body \in Seq(Bytes)
    BY <1>1, <1>2
  <2> HIDE DEF d, body
  <2>2. /\ data \in Seq(Bytes) /\ Len(data) = Len(d) + Len(body)
        /\ \A i \in 1 .. Len(d) + Len(body) : data[i] = IF i <= Len(d) THEN d[i] ELSE body[i - Len(d)]
    BY <2>1, ConcatProperties
  <2>3. Len(body) \in Nat
    BY <2>1, LenProperties
  <2> HIDE DEF data
  <2> QED
    BY <1>2, <2>2, <2>3
<1>4. RdwWithin(data, 5, n) = Split(recs)
  <2>1. Len(recs) \in Nat
    BY LenProperties
  <2>2. RdwReadable(Len(recs), "rdw_blocked")
    BY <2>1, RdwReads
  <2>3. Countable(recs, "rdw_blocked")
    <3>1. Len(body) \in Nat /\ Word \in Nat
      BY <1>1, Constants, LenProperties DEF Word
    <3> QED
      BY <3>1 DEF Countable
  <2>4. RdwWithin(data, Len(d) + 1, Len(data)) = Split(recs)
    <3>1. d \in Seq(Bytes) /\ Len(recs) = Len(recs)
      BY <1>2
    <3> HIDE DEF d
    <3> QED
      BY <2>2, <2>3, <3>1 DEF RdwReadable
  <2>5. Len(d) + 1 = 5
    <3> HIDE DEF d
    <3> QED
      BY <1>2
  <2> QED
    BY <1>3, <2>4, <2>5
<1> HIDE DEF data, d, n, body
<1>5. PICK f : /\ \A p \in 1 .. Len(data) + 1 : f[p] = BlockTurn(data, p, f)
               /\ RdwBlockedRecords(data) = f[1]
  BY <1>3, BlockedSolves
<1>6. f[n + 1] = Split(<<>>)
  <2>1. n + 1 \in 1 .. Len(data) + 1 /\ n + 1 > Len(data)
    BY <1>1, <1>3
  <2> QED
    BY <1>5, <2>1 DEF BlockTurn
<1>7. DescriptorLen(data, 1) = n
  <2>1. ~(1 + 3 > Len(data)) /\ ~(n < 4) /\ 1 + 1 = 2
    BY <1>1, <1>3
  <2>2. Base * data[1] + data[1 + 1] = n
    BY <1>2, <1>3, <2>1
  <2> QED
    BY <2>1, <2>2 DEF DescriptorLen
<1>8. f[1] = Before(recs, f[n + 1])
  <2>1. 1 \in 1 .. Len(data) + 1 /\ ~(1 > Len(data)) /\ n # 0 /\ 1 + n - 1 = n /\ ~(n > Len(data))
        /\ 1 + 4 = 5 /\ 1 + n = n + 1
    BY <1>1, <1>3
  <2>2. RdwWithin(data, 1 + 4, 1 + n - 1) = Split(recs)
    BY <1>4, <2>1
  <2>3. f[1] = BlockTurn(data, 1, f)
    BY <1>5, <2>1
  <2> QED
    BY <1>7, <2>1, <2>2, <2>3 DEF BlockTurn, Split
<1>9. f[1] = Split(recs)
  <2>1. recs \o <<>> = recs
    BY ConcatEmptySeq
  <2> QED
    BY <1>6, <1>8, <2>1 DEF Before, Split
<1> QED
  BY <1>5, <1>9 DEF Assemble, data, d, n, body

(* Records that hold no line feed and do not end in a carriage return. *)
Plain(recs) == \A i \in 1 .. Len(recs) :
                  ~Contains(recs[i], LF) /\ (recs[i] # <<>> => Last(recs[i]) # CR)

(* The line r stands in the data between pre, up to and with front, its    *)
(* line feed at z, and rest.                                               *)
LineBetween(data, pre, r, front, rest, z) ==
    /\ Len(data) = z + Len(rest) /\ data = front \o rest
    /\ front \in Seq(Bytes) /\ Len(front) = z
    /\ \A i \in 1 .. Len(r) : data[Len(pre) + i] = r[i]
    /\ data[z] = LF
    /\ SubSeq(data, Len(pre) + 1, z - 1) = r

LEMMA ReadLine ==
    ASSUME NEW pre \in Seq(Bytes), NEW r \in Seq(Bytes), NEW rest \in Seq(Bytes)
    PROVE  LineBetween(pre \o (Append(r, LF) \o rest), pre, r, pre \o Append(r, LF), rest,
                       Len(pre) + Len(r) + 1)
<1> DEFINE w == Append(r, LF)
           front == pre \o w
           data == pre \o (w \o rest)
           z == Len(pre) + Len(r) + 1
           eol == <<LF>>
           after == eol \o rest
<1>1. LF \in Bytes /\ eol \in Seq(Bytes) /\ Len(eol) = 1 /\ eol[1] = LF
  BY Constants
<1>2. w = r \o eol /\ w \in Seq(Bytes) /\ Len(w) = Len(r) + 1 /\ w[Len(r) + 1] = LF
      /\ \A i \in 1 .. Len(r) : w[i] = r[i]
  BY <1>1, AppendProperties, AppendIsConcat
<1>3. Len(pre) \in Nat /\ Len(r) \in Nat /\ Len(rest) \in Nat
  BY LenProperties
<1> HIDE DEF eol, w
<1>4. w \in Seq(Bytes) /\ eol \in Seq(Bytes)
  BY <1>1, <1>2
<1>5. (pre \o w) \o rest = pre \o (w \o rest)
  <2>1. Cat(Cat(pre, w), rest) = Cat(pre, Cat(w, rest))
    BY <1>4, CatAssociative
  <2> QED
    BY <2>1, Zenon DEF Cat
<1>6. (r \o eol) \o rest = r \o (eol \o rest)
  <2>1. Cat(Cat(r, eol), rest) = Cat(r, Cat(eol, rest))
    BY <1>4, CatAssociative
  <2> QED
    BY <2>1, Zenon DEF Cat
<1>7. /\ Len(data) = Len(pre) + Len(w) + Len(rest)
      /\ \A i \in 1 .. Len(w) : data[Len(pre) + i] = w[i]
  BY <1>4, Middle
<1>8. front \in Seq(Bytes) /\ Len(front) = Len(pre) + Len(w)
  BY <1>4, ConcatProperties
<1>9. after \in Seq(Bytes)
  BY <1>4, ConcatProperties
<1>10. data = pre \o (r \o after) /\ data = front \o rest
  BY <1>2, <1>5, <1>6, Zenon
<1> HIDE DEF after
<1>11. SubSeq(pre \o (r \o after), Len(pre) + 1, Len(pre) + Len(r)) = r
  BY <1>9, Middle
<1> HIDE DEF data, front
<1>12. data[z] = LF /\ \A i \in 1 .. Len(r) : data[Len(pre) + i] = r[i]
  <2>1. Len(r) + 1 \in 1 .. Len(w) /\ z = Len(pre) + (Len(r) + 1)
        /\ \A i \in 1 .. Len(r) : i \in 1 .. Len(w)
    BY <1>2, <1>3
  <2> QED
    BY <1>2, <1>7, <2>1
<1>13. SubSeq(data, Len(pre) + 1, z - 1) = r
  <2>1. z - 1 = Len(pre) + Len(r)
    BY <1>3
  <2> QED
    BY <1>10, <1>11, <2>1
<1>14. Len(data) = z + Len(rest) /\ Len(front) = z
  BY <1>2, <1>3, <1>7, <1>8
<1> QED
  BY <1>8, <1>10, <1>12, <1>13, <1>14 DEF LineBetween, data, front, w

LineReadable(data, f, m) ==
    \A pre, recs : pre \in Seq(Bytes) /\ recs \in Seq(Seq(Bytes)) /\ Len(recs) = m
                      /\ Plain(recs) /\ data = pre \o Frames(recs, "newline") =>
        f[Len(pre) + 1] = recs

LEMMA LinesRead ==
    ASSUME NEW data \in Seq(Bytes), NEW f, NEW m \in Nat,
           \A s \in 1 .. Len(data) + 1 : f[s] = LineTurn(data, s, f)
    PROVE  LineReadable(data, f, m)
<1> DEFINE Good == {n \in Nat : LineReadable(data, f, n)}
<1>0. "newline" \in Framings /\ Len(data) \in Nat
  BY LenProperties DEF Framings
<1>1. 0 \in Good
  <2> SUFFICES ASSUME NEW pre \in Seq(Bytes), NEW recs \in Seq(Seq(Bytes)), Len(recs) = 0,
                      data = pre \o Frames(recs, "newline")
               PROVE  f[Len(pre) + 1] = recs
    BY DEF LineReadable
  <2>1. recs = <<>>
    BY EmptySeq
  <2>2. data = pre
    BY <1>0, <2>1, FramesEmpty, ConcatEmptySeq
  <2>3. Len(data) + 1 \in 1 .. Len(data) + 1 /\ Len(data) + 1 > Len(data)
    BY <1>0
  <2> QED
    BY <2>1, <2>2, <2>3 DEF LineTurn
<1>2. ASSUME NEW n \in Nat, n \in Good PROVE n + 1 \in Good
  <2> SUFFICES ASSUME NEW pre \in Seq(Bytes), NEW recs \in Seq(Seq(Bytes)), Len(recs) = n + 1,
                      Plain(recs), data = pre \o Frames(recs, "newline")
               PROVE  f[Len(pre) + 1] = recs
    BY DEF LineReadable
  <2> DEFINE r == Head(recs)
             q == Tail(recs)
             rest == Frames(q, "newline")
             w == Append(r, LF)
             front == pre \o w
             s == Len(pre) + 1
             z == Len(pre) + Len(r) + 1
             ends == {i \in s .. Len(data) : data[i] = LF}
  <2>1. recs # <<>>
    BY EmptySeq
  <2>2. /\ r \in Seq(Bytes) /\ q \in Seq(Seq(Bytes)) /\ Len(q) = n
        /\ recs = <<r>> \o q /\ r = recs[1]
        /\ \A i \in 1 .. Len(q) : q[i] = recs[i + 1]
    <3>1. /\ r \in Seq(Bytes) /\ q \in Seq(Seq(Bytes)) /\ Len(q) = Len(recs) - 1
          /\ recs = <<r>> \o q /\ r = recs[1]
          /\ \A i \in 1 .. Len(q) : q[i] = recs[i + 1]
      BY <1>0, <2>1, FramesCons
    <3>2. Len(q) = n
      BY <3>1
    <3> QED
      BY <3>1, <3>2
  <2>3. Frames(recs, "newline") = w \o rest
    <3>1. Frames(recs, "newline") = Frame(r, "newline") \o rest
      BY <1>0, <2>1, FramesCons
    <3> QED
      BY <3>1 DEF Frame
  <2> HIDE DEF r, q
  <2>4. r \in Seq(Bytes) /\ rest \in Seq(Bytes)
    BY <1>0, <2>2, FramesType
  <2> HIDE DEF rest
  <2>5. Len(pre) \in Nat /\ Len(r) \in Nat /\ Len(rest) \in Nat
    BY <2>4, LenProperties
  <2>6. data = pre \o (w \o rest)
    BY <2>3
  <2>7. /\ Len(data) = z + Len(rest)
        /\ data = front \o rest
        /\ front \in Seq(Bytes) /\ Len(front) = z
        /\ \A i \in 1 .. Len(r) : data[Len(pre) + i] = r[i]
        /\ data[z] = LF
        /\ SubSeq(data, s, z - 1) = r
    <3>1. LineBetween(pre \o (w \o rest), pre, r, front, rest, z)
      BY <2>4, ReadLine
    <3> HIDE DEF front, z, w
    <3> QED
      BY <2>6, <3>1 DEF LineBetween
  <2> HIDE DEF front, w
  <2>8. z \in Nat /\ z \in s .. Len(data) /\ s \in 1 .. Len(data)
    BY <2>5, <2>7
  <2>9. ~Contains(r, LF) /\ (r # <<>> => Last(r) # CR) /\ Plain(q)
    <3>1. 1 \in 1 .. Len(recs) /\ \A i \in 1 .. Len(q) : i + 1 \in 1 .. Len(recs)
      BY <2>2
    <3> QED
      BY <2>2, <3>1 DEF Plain
  <2>10. ends # {} /\ Min(ends) = z
    <3>1. z \in ends /\ ends \in SUBSET Nat
      BY <1>0, <2>5, <2>7, <2>8
    <3>2. Min(ends) \in ends /\ Min(ends) =< z
      BY <3>1, MinOf
    <3>3. ASSUME NEW i \in s .. Len(data), i < z PROVE data[i] # LF
      <4>1. i - Len(pre) \in 1 .. Len(r) /\ Len(pre) + (i - Len(pre)) = i
        BY <2>5, <2>8, <3>3
      <4>2. data[i] = r[i - Len(pre)]
        BY <2>7, <4>1
      <4> QED
        BY <2>9, <4>1, <4>2 DEF Contains
    <3>4. Min(ends) \in s .. Len(data) /\ data[Min(ends)] = LF
      BY <3>2
    <3> HIDE DEF ends, z, s
    <3>5. ~(Min(ends) < z)
      BY <3>3, <3>4
    <3>6. Min(ends) \in Int
      BY <3>4
    <3> QED
      BY <2>8, <3>1, <3>2, <3>5, <3>6
  <2>11. f[s] = <<StripCR(SubSeq(data, s, z - 1))>> \o f[z + 1]
    <3>1. s \in 1 .. Len(data) + 1 /\ ~(s > Len(data))
      BY <1>0, <2>8
    <3> HIDE DEF s, z
    <3>2. f[s] = LineTurn(data, s, f)
      BY <3>1
    <3> QED
      BY <2>10, <3>1, <3>2 DEF LineTurn
  <2>12. StripCR(SubSeq(data, s, z - 1)) = r
    BY <2>7, <2>9 DEF StripCR
  <2>13. f[z + 1] = q
    <3>1. LineReadable(data, f, n)
      BY <1>2
    <3>2. data = front \o Frames(q, "newline")
      BY <2>7 DEF rest
    <3>3. f[Len(front) + 1] = q
      BY <2>2, <2>7, <2>9, <3>1, <3>2 DEF LineReadable
    <3> QED
      BY <2>7, <3>3
  <2> QED
    BY <2>2, <2>11, <2>12, <2>13, Zenon
<1>3. Nat \subseteq Good
  <2> HIDE DEF Good
  <2> QED
    BY <1>1, <1>2, SetInduction
<1> QED
  BY <1>3
LEMMA NewlineReads ==
    ASSUME NEW recs \in Seq(Seq(Bytes)), Plain(recs)
    PROVE  NewlineRecords(Frames(recs, "newline")) = Split(recs)
<1> DEFINE data == Frames(recs, "newline")
<1>1. data \in Seq(Bytes) /\ <<>> \in Seq(Bytes) /\ Len(recs) \in Nat
  BY FramesType, LenProperties DEF Framings
<1>2. data = <<>> \o data /\ Len(<<>>) + 1 = 1
  BY <1>1, ConcatEmptySeq
<1> HIDE DEF data
<1>3. PICK f : /\ \A s \in 1 .. Len(data) + 1 : f[s] = LineTurn(data, s, f)
               /\ NewlineRecords(data) = Split(f[1])
  BY <1>1, NewlineSolves
<1>4. LineReadable(data, f, Len(recs))
  BY <1>1, <1>3, LinesRead
<1>5. f[Len(<<>>) + 1] = recs
  BY <1>1, <1>2, <1>4 DEF LineReadable, data
<1> QED
  BY <1>2, <1>3, <1>5 DEF data

(* Records of one length, wherever they stand. *)
FixedWithin(data, pre, recs, m, len) ==
    /\ Len(data) = Len(pre) + m * len
    /\ \A i \in 1 .. m :
          SubSeq(data, Len(pre) + (i - 1) * len + 1, Len(pre) + i * len) = recs[i]

FixedReadable(m, len) ==
    \A pre, recs : pre \in Seq(Bytes) /\ recs \in Seq(Seq(Bytes)) /\ Len(recs) = m
                      /\ (\A i \in 1 .. m : Len(recs[i]) = len) =>
        FixedWithin(pre \o Frames(recs, "fixed"), pre, recs, m, len)

LEMMA FixedReads ==
    ASSUME NEW len \in Nat, NEW m \in Nat
    PROVE  FixedReadable(m, len)
<1> DEFINE Good == {n \in Nat : FixedReadable(n, len)}
<1>0. "fixed" \in Framings
  BY DEF Framings
<1>1. 0 \in Good
  <2> SUFFICES ASSUME NEW pre \in Seq(Bytes), NEW recs \in Seq(Seq(Bytes)), Len(recs) = 0
               PROVE  Len(pre \o Frames(recs, "fixed")) = Len(pre) + 0 * len
    BY DEF FixedReadable, FixedWithin
  <2>1. recs = <<>>
    BY EmptySeq
  <2>2. pre \o Frames(recs, "fixed") = pre
    BY <1>0, <2>1, FramesEmpty, ConcatEmptySeq
  <2>3. Len(pre) \in Nat /\ 0 * len = 0
    BY LenProperties
  <2> QED
    BY <2>2, <2>3
<1>2. ASSUME NEW n \in Nat, n \in Good PROVE n + 1 \in Good
  <2> SUFFICES ASSUME NEW pre \in Seq(Bytes), NEW recs \in Seq(Seq(Bytes)), Len(recs) = n + 1,
                      \A i \in 1 .. n + 1 : Len(recs[i]) = len
               PROVE  FixedWithin(pre \o Frames(recs, "fixed"), pre, recs, n + 1, len)
    BY DEF FixedReadable
  <2> DEFINE r == Head(recs)
             q == Tail(recs)
             rest == Frames(q, "fixed")
             front == pre \o r
             data == pre \o (r \o rest)
  <2>1. recs # <<>>
    BY EmptySeq
  <2>2. /\ r \in Seq(Bytes) /\ q \in Seq(Seq(Bytes)) /\ Len(q) = n /\ r = recs[1]
        /\ \A i \in 1 .. Len(q) : q[i] = recs[i + 1]
    <3>1. /\ r \in Seq(Bytes) /\ q \in Seq(Seq(Bytes)) /\ Len(q) = Len(recs) - 1 /\ r = recs[1]
          /\ \A i \in 1 .. Len(q) : q[i] = recs[i + 1]
      BY <1>0, <2>1, FramesCons
    <3>2. Len(q) = n
      BY <3>1
    <3> QED
      BY <3>1, <3>2
  <2>3. Frames(recs, "fixed") = r \o rest
    <3>1. Frames(recs, "fixed") = Frame(r, "fixed") \o rest
      BY <1>0, <2>1, FramesCons
    <3> QED
      BY <3>1 DEF Frame
  <2> HIDE DEF r, q
  <2>4. r \in Seq(Bytes) /\ rest \in Seq(Bytes) /\ Len(r) = len /\ Len(pre) \in Nat
    <3>1. 1 \in 1 .. n + 1
      OBVIOUS
    <3> QED
      BY <1>0, <2>2, <3>1, FramesType, LenProperties
  <2> HIDE DEF rest
  <2>5. r \in Seq(Bytes) /\ rest \in Seq(Bytes)
    BY <2>4
  <2>6. (pre \o r) \o rest = pre \o (r \o rest)
    <3>1. Cat(Cat(pre, r), rest) = Cat(pre, Cat(r, rest))
      BY <2>5, CatAssociative
    <3> QED
      BY <3>1, Zenon DEF Cat
  <2>7. front \in Seq(Bytes) /\ Len(front) = Len(pre) + Len(r)
    BY <2>5, ConcatProperties
  <2>8. SubSeq(data, Len(pre) + 1, Len(pre) + Len(r)) = r
    BY <2>5, Middle
  <2> HIDE DEF front, data
  <2>9. /\ Len(data) = Len(front) + n * len
        /\ \A i \in 1 .. n :
              SubSeq(data, Len(front) + (i - 1) * len + 1, Len(front) + i * len) = q[i]
    <3>1. FixedReadable(n, len)
      BY <1>2
    <3>2. front \o Frames(q, "fixed") = data
      BY <2>6 DEF rest, front, data
    <3>3. \A i \in 1 .. n : Len(q[i]) = len
      <4>1. \A i \in 1 .. n : i + 1 \in 1 .. n + 1
        OBVIOUS
      <4> QED
        BY <2>2, <4>1
    <3>4. FixedWithin(data, front, q, n, len)
      BY <2>2, <2>7, <3>1, <3>2, <3>3 DEF FixedReadable
    <3> QED
      BY <3>4 DEF FixedWithin
  <2>10. Len(data) = Len(pre) + (n + 1) * len
    <3>1. (n + 1) * len = len + n * len
      OBVIOUS
    <3> QED
      BY <2>4, <2>7, <2>9, <3>1
  <2>11. ASSUME NEW i \in 1 .. n + 1
         PROVE  SubSeq(data, Len(pre) + (i - 1) * len + 1, Len(pre) + i * len) = recs[i]
    <3>1. CASE i = 1
      <4>1. Len(pre) + (i - 1) * len + 1 = Len(pre) + 1 /\ Len(pre) + i * len = Len(pre) + len
        BY <2>4, <3>1
      <4> QED
        BY <2>2, <2>4, <2>8, <3>1, <4>1
    <3>2. CASE i # 1
      <4>1. i - 1 \in 1 .. n /\ (i - 1) + 1 = i
        BY <3>2
      <4>2. SubSeq(data, Len(front) + ((i - 1) - 1) * len + 1, Len(front) + (i - 1) * len) = recs[i]
        BY <2>2, <2>9, <4>1
      <4>3. (i - 1) * len = ((i - 1) - 1) * len + len /\ i * len = (i - 1) * len + len
        OBVIOUS
      <4>4. /\ Len(front) + ((i - 1) - 1) * len + 1 = Len(pre) + (i - 1) * len + 1
            /\ Len(front) + (i - 1) * len = Len(pre) + i * len
        BY <2>4, <2>7, <4>3
      <4> QED
        BY <4>2, <4>4
    <3> QED
      BY <3>1, <3>2
  <2> QED
    BY <2>3, <2>10, <2>11 DEF FixedWithin, data
<1>3. Nat \subseteq Good
  <2> HIDE DEF Good
  <2> QED
    BY <1>1, <1>2, SetInduction
<1> QED
  BY <1>3

LEMMA Multiples ==
    ASSUME NEW m \in Nat, NEW len \in Nat, len > 0
    PROVE  (m * len) % len = 0 /\ (m * len) \div len = m
<1> DEFINE x == m * len
           q == x \div len
           r == x % len
<1>1. x \in Nat
  OBVIOUS
<1>2. q \in Int /\ r \in 0 .. len - 1 /\ x = len * q + r
  <2> HIDE DEF x
  <2> QED
    BY <1>1
<1> HIDE DEF q, r
<1>3. len * (m - q) = r
  BY <1>2
<1>4. m = q
  <2>1. ASSUME m - q >= 1 PROVE FALSE
    <3>1. len * (m - q) >= len
      BY <1>2, <2>1
    <3> QED
      BY <1>2, <1>3, <3>1
  <2>2. ASSUME m - q =< -1 PROVE FALSE
    <3>1. len * (m - q) =< -len
      BY <1>2, <2>2
    <3> QED
      BY <1>2, <1>3, <3>1
  <2> QED
    BY <1>2, <2>1, <2>2
<1>5. r = 0
  BY <1>2, <1>3, <1>4
<1> QED
  BY <1>4, <1>5 DEF q, r, x

LEMMA FixedReadsAll ==
    ASSUME NEW len \in Nat, len > 0, NEW recs \in Seq(Seq(Bytes)),
           \A i \in 1 .. Len(recs) : Len(recs[i]) = len
    PROVE  FixedRecords(Frames(recs, "fixed"), len) = Split(recs)
<1> DEFINE data == Frames(recs, "fixed")
           m == Len(recs)
           cut == [i \in 1 .. m |-> SubSeq(data, (i - 1) * len + 1, i * len)]
<1>1. data \in Seq(Bytes) /\ <<>> \in Seq(Bytes) /\ m \in Nat
  BY FramesType, LenProperties DEF Framings
<1>2. data = <<>> \o data /\ Len(<<>>) = 0
  BY <1>1, ConcatEmptySeq
<1>3. /\ Len(data) = 0 + m * len
      /\ \A i \in 1 .. m : SubSeq(data, 0 + (i - 1) * len + 1, 0 + i * len) = recs[i]
  <2>1. FixedReadable(m, len)
    BY <1>1, FixedReads
  <2>2. <<>> \o Frames(recs, "fixed") = data
    BY <1>2
  <2> HIDE DEF data
  <2>3. FixedWithin(data, <<>>, recs, m, len)
    BY <1>1, <2>1, <2>2 DEF FixedReadable
  <2> QED
    BY <1>2, <2>3 DEF FixedWithin
<1> HIDE DEF data
<1>4. Len(data) % len = 0 /\ Len(data) \div len = m
  <2>1. Len(data) = m * len
    BY <1>1, <1>3
  <2> QED
    BY <1>1, <2>1, Multiples
<1>5. cut = recs
  <2>1. ASSUME NEW i \in 1 .. m PROVE cut[i] = recs[i]
    <3>1. 0 + (i - 1) * len + 1 = (i - 1) * len + 1 /\ 0 + i * len = i * len
      BY <1>1
    <3> QED
      BY <1>3, <3>1
  <2>2. \A i \in 1 .. m : recs[i] \in Seq(Bytes)
    BY ElementOfSeq
  <2>3. cut \in Seq(Seq(Bytes)) /\ Len(cut) = m
    BY <1>1, <2>1, <2>2
  <2> HIDE DEF cut
  <2> QED
    BY <2>1, <2>3, SeqEqual
<1>6. FixedRecords(data, len) = Split(cut)
  <2>1. ~(len = 0 \/ Len(data) % len # 0)
    BY <1>4
  <2> HIDE DEF m
  <2> QED
    BY <1>4, <2>1, Zenon DEF FixedRecords
<1> QED
  BY <1>5, <1>6 DEF data

(* The slice framer is an inverse of assemble, for records that fit. *)
LEMMA AssembleReads ==
    ASSUME NEW recs \in Seq(Seq(Bytes)), NEW framing \in Framings, NEW len \in Nat,
           Fits(recs, framing, len)
    PROVE  Records(Assemble(recs, framing), framing, len) = Split(recs)
<1>1. CASE framing = "newline"
  <2>1. Plain(recs)
    BY <1>1 DEF Fits, Plain
  <2>2. Assemble(recs, framing) = Frames(recs, "newline")
    BY <1>1 DEF Assemble
  <2> QED
    BY <1>1, <2>1, <2>2, NewlineReads DEF Records
<1>2. CASE framing = "fixed"
  <2>1. len > 0 /\ \A i \in 1 .. Len(recs) : Len(recs[i]) = len
    BY <1>2 DEF Fits
  <2>2. Assemble(recs, framing) = Frames(recs, "fixed")
    BY <1>2 DEF Assemble
  <2> QED
    BY <1>2, <2>1, <2>2, FixedReadsAll DEF Records
<1>3. CASE framing = "rdw"
  <2> DEFINE data == Frames(recs, "rdw")
  <2>1. Countable(recs, "rdw")
    BY <1>3 DEF Fits, Countable
  <2>2. data \in Seq(Bytes) /\ <<>> \in Seq(Bytes) /\ Len(recs) \in Nat
    BY <1>3, FramesType, LenProperties
  <2>3. <<>> \o data = data /\ Len(<<>>) + 1 = 1
    BY <2>2, ConcatEmptySeq
  <2>4. RdwReadable(Len(recs), "rdw")
    BY <2>2, RdwReads
  <2>5. RdwWithin(<<>> \o data, Len(<<>>) + 1, Len(<<>> \o data)) = Split(recs)
    BY <2>1, <2>2, <2>4 DEF RdwReadable
  <2>6. RdwRecords(data) = Split(recs)
    BY <2>3, <2>5 DEF RdwRecords
  <2>7. Assemble(recs, framing) = data
    BY <1>3 DEF Assemble
  <2> QED
    BY <1>3, <2>6, <2>7 DEF Records
<1>4. CASE framing = "rdw_blocked"
  <2>1. Frames(recs, "rdw") = Frames(recs, "rdw_blocked")
    BY DEF Frames, Frame
  <2>2. Len(Frames(recs, "rdw_blocked")) + 4 < Word
    BY <1>4, <2>1 DEF Fits, Assemble
  <2> QED
    BY <1>4, <2>2, BlockReads DEF Records
<1> QED
  BY <1>1, <1>2, <1>3, <1>4 DEF Framings
=============================================================================
