------------------------- MODULE RecordStreamProofs -------------------------
(***************************************************************************)
(* RecordStream, for every input, buffer size and limit: the two resource  *)
(* limits hold, what is yielded is what the slice framer makes of the      *)
(* input, however the input is cut into pieces, and a stream is refused    *)
(* only for cause.                                                         *)
(***************************************************************************)
EXTENDS RecordStream, FramingProofs

(* Positions: what is consumed was fed, a buffer at a time. *)
FedInv == /\ fed \in Nat /\ at \in Nat
          /\ at =< fed /\ fed =< Len(input)
          /\ fed - at =< BufSize

(* A LimitReader lets no more than its limit through. *)
LimitInv == compressed => fed =< MaxPlain

(* A stream ends where its input does. *)
EndInv == status = "ended" => at = Len(input)

(* A line goes on growing only below the limit. *)
LineInv == /\ rec \in Seq(Bytes)
           /\ framing = "newline" =>
                 /\ status # "slurping"
                 /\ status = "within" => Len(rec) =< MaxRecord
                 /\ Len(rec) =< MaxRecord + BufSize

(* A fixed record never takes more than is missing. *)
FixedInv == /\ recordLen \in Nat
            /\ framing = "fixed" /\ status = "ready" => recordLen > 0
            /\ framing = "fixed" /\ status = "within" => Len(rec) < recordLen

IInv == input \in Seq(Bytes) /\ FedInv /\ LimitInv /\ EndInv /\ LineInv /\ FixedInv

LEMMA MinOfPair ==
    ASSUME NEW a \in Nat, NEW b \in Nat
    PROVE  Min({a, b}) \in Nat /\ Min({a, b}) =< a /\ Min({a, b}) =< b
           /\ Min({a, b}) \in {a, b}
<1>1. \E x \in {a, b} : \A y \in {a, b} : x =< y
  <2>1. CASE a =< b
    BY <2>1
  <2>2. CASE b =< a
    BY <2>2
  <2> QED
    BY <2>1, <2>2
<1>2. Min({a, b}) \in {a, b} /\ \A y \in {a, b} : Min({a, b}) =< y
  BY <1>1 DEF Min
<1> QED
  BY <1>2

LEMMA InitInv == Init => IInv
<1> SUFFICES ASSUME Init PROVE IInv
  OBVIOUS
<1>1. input \in Seq(Bytes)
  BY InputsAssumption DEF Init
<1>2. Len(input) \in Nat
  BY <1>1, LenProperties
<1>3. rec = <<>> /\ rec \in Seq(Bytes) /\ Len(rec) = 0
  BY EmptySeq DEF Init
<1>4. fed = 0 /\ at = 0 /\ status = "new"
  BY DEF Init
<1> QED
  BY <1>1, <1>2, <1>3, <1>4, LimitsAssumption, LensAssumption DEF Init, IInv, FedInv, LimitInv, EndInv, LineInv, FixedInv

(* What is fed but not consumed, appended to a record. *)
LEMMA Taken ==
    ASSUME IInv
    PROVE  /\ Available \in Seq(Bytes)
           /\ Len(Available) = fed - at
           /\ rec \o Available \in Seq(Bytes)
           /\ Len(rec \o Available) = Len(rec) + (fed - at)
           /\ Len(rec) \in Nat /\ Len(input) \in Nat
<1>1. /\ input \in Seq(Bytes) /\ rec \in Seq(Bytes)
      /\ fed \in Nat /\ at \in Nat /\ at =< fed /\ fed =< Len(input)
  BY DEF IInv, FedInv, LineInv
<1>2. Len(input) \in Nat /\ Len(rec) \in Nat
      /\ \A i \in 1 .. Len(input) : input[i] \in Bytes
  BY <1>1, LenProperties, ElementOfSeq
<1>3. /\ at + 1 \in Int /\ fed \in Int
      /\ \A i \in at + 1 .. fed : input[i] \in Bytes
  BY <1>1, <1>2
<1>4. /\ SubSeq(input, at + 1, fed) \in Seq(Bytes)
      /\ Len(SubSeq(input, at + 1, fed)) = IF at + 1 =< fed THEN fed - (at + 1) + 1 ELSE 0
  BY <1>3, SubSeqProperties
<1>5. Available \in Seq(Bytes) /\ Len(Available) = fed - at
  BY <1>1, <1>4 DEF Available
<1> HIDE DEF Available
<1>6. /\ rec \o Available \in Seq(Bytes)
      /\ Len(rec \o Available) = Len(rec) + Len(Available)
  BY <1>1, <1>5, ConcatProperties
<1> HIDE DEF Bytes
<1> QED
  BY <1>2, <1>5, <1>6

LEMMA NextInv == IInv /\ [Next]_vars => IInv'
<1> SUFFICES ASSUME IInv, [Next]_vars PROVE IInv'
  OBVIOUS
<1>0. /\ Len(rec) \in Nat /\ Len(input) \in Nat
      /\ input \in Seq(Bytes) /\ rec \in Seq(Bytes)
      /\ fed \in Nat /\ at \in Nat /\ at =< fed /\ fed =< Len(input) /\ fed - at =< BufSize
      /\ BufSize \in Nat \ {0} /\ MaxRecord \in Nat /\ MaxPlain \in Nat
  BY Taken, LimitsAssumption DEF IInv, FedInv, LineInv
<1>1. CASE New
  BY <1>1 DEF New, RefusedLength, IInv, FedInv, LimitInv, EndInv, LineInv, FixedInv, source
<1>2. CASE Feed
  <2>1. /\ UNCHANGED <<source, at, rec, out, faults>>
        /\ at = fed /\ Reading
    BY <1>2 DEF Feed
  <2>2. PICK k \in 1 .. Min({BufSize, Len(input) - fed}) :
           IF compressed /\ fed + k > MaxPlain
           THEN status' = "error" /\ UNCHANGED fed
           ELSE fed' = fed + k /\ UNCHANGED status
    BY <1>2 DEF Feed
  <2>3. k \in Nat /\ k =< BufSize /\ k =< Len(input) - fed
    <3>1. at < Len(input)
      BY <1>2, <2>1, <1>0 DEF Feed, Exhausted
    <3>2. BufSize \in Nat /\ Len(input) - fed \in Nat
      BY <3>1, <2>1, <1>0
    <3>3. /\ Min({BufSize, Len(input) - fed}) \in Nat
          /\ Min({BufSize, Len(input) - fed}) =< BufSize
          /\ Min({BufSize, Len(input) - fed}) =< Len(input) - fed
      BY <3>2, MinOfPair
    <3> QED
      BY <2>2, <3>2, <3>3
  <2>4. CASE compressed /\ fed + k > MaxPlain
    BY <2>1, <2>2, <2>4 DEF IInv, FedInv, LimitInv, EndInv, LineInv, FixedInv, source
  <2>5. CASE ~(compressed /\ fed + k > MaxPlain)
    <3>1. fed' = fed + k /\ status' = status
      BY <2>2, <2>5
    <3>2. FedInv'
      BY <3>1, <2>1, <2>3, <1>0 DEF FedInv, source
    <3>3. LimitInv'
      BY <3>1, <2>1, <2>3, <2>5, <1>0 DEF LimitInv, source
    <3> QED
      BY <3>1, <3>2, <3>3, <2>1 DEF IInv, EndInv, LineInv, FixedInv, source
  <2> QED
    BY <2>4, <2>5
<1>3. CASE ReadError
  BY <1>3 DEF ReadError, IInv, FedInv, LimitInv, EndInv, LineInv, FixedInv, source
<1>4. CASE NextRecord
  <2>1. <<>> \in Seq(Bytes) /\ Len(<<>>) = 0
    BY EmptySeq
  <2>2. rec' = <<>> /\ status' = "within" /\ UNCHANGED <<source, fed, at, out, faults>>
    BY <1>4 DEF NextRecord
  <2>3. LineInv' /\ FixedInv'
    BY <2>1, <2>2, <1>4, <1>0 DEF NextRecord, IInv, LineInv, FixedInv, source
  <2> QED
    BY <2>2, <2>3 DEF IInv, FedInv, LimitInv, EndInv, source
<1>5. CASE LineEnd
  <2>1. /\ UNCHANGED <<source, fed, rec, faults>> /\ status' = "ready"
        /\ framing = "newline"
    BY <1>5 DEF LineEnd
  <2>2. PICK n \in Delimiters : at' = at + n
    BY <1>5 DEF LineEnd
  <2>3. n \in 1 .. fed - at
    BY Taken DEF Delimiters
  <2>4. FedInv'
    BY <2>1, <2>2, <2>3, <1>0 DEF FedInv, source
  <2> QED
    BY <2>1, <2>4 DEF IInv, LimitInv, EndInv, LineInv, FixedInv, source
<1>6. CASE LinePart
  <2>1. /\ UNCHANGED <<source, fed, out, faults>>
        /\ rec' = rec \o Available /\ at' = fed
        /\ status = "within" /\ framing = "newline"
        /\ status' = IF Len(rec') > MaxRecord THEN "error" ELSE status
    BY <1>6 DEF LinePart
  <2>2. rec' \in Seq(Bytes) /\ Len(rec') = Len(rec) + (fed - at)
    BY <2>1, Taken
  <2>3. LineInv'
    BY <2>1, <2>2, <1>0 DEF IInv, LineInv, FixedInv, source
  <2>4. FedInv'
    BY <2>1, <1>0 DEF FedInv, source
  <2> QED
    BY <2>1, <2>3, <2>4 DEF IInv, LimitInv, EndInv, FixedInv, source
<1>7. CASE LastLine
  BY <1>7 DEF LastLine, IInv, FedInv, LimitInv, EndInv, LineInv, FixedInv, source, Exhausted
<1>8. CASE FixedPart
  <2> DEFINE n    == Min({Len(Available), recordLen - Len(rec)})
             full == rec \o SubSeq(Available, 1, n)
  <2>1. /\ UNCHANGED <<source, fed, faults>>
        /\ status = "within" /\ framing = "fixed"
        /\ at' = at + n /\ rec' = full
        /\ IF Len(full) = recordLen
           THEN out' = Append(out, full) /\ status' = "ready"
           ELSE UNCHANGED <<out, status>>
    BY <1>8 DEF FixedPart
  <2>2. /\ n \in Nat /\ n =< fed - at /\ n =< recordLen - Len(rec)
        /\ recordLen \in Nat /\ Len(rec) < recordLen
    <3>1. recordLen \in Nat /\ Len(rec) < recordLen
      BY <2>1 DEF IInv, FixedInv
    <3>2. Len(Available) = fed - at
      BY Taken
    <3>3. Len(Available) \in Nat /\ recordLen - Len(rec) \in Nat
      BY <3>1, <3>2, <1>0
    <3>4. n \in Nat /\ n =< Len(Available) /\ n =< recordLen - Len(rec)
      BY <3>3, MinOfPair
    <3> QED
      BY <3>1, <3>2, <3>4
  <2> HIDE DEF n
  <2>3. full \in Seq(Bytes) /\ Len(full) = Len(rec) + n
    <3>1. /\ Available \in Seq(Bytes) /\ Len(Available) = fed - at
      BY Taken
    <3>2. \A i \in 1 .. n : Available[i] \in Bytes
      BY <3>1, <2>2, <1>0, ElementOfSeq
    <3>3. /\ SubSeq(Available, 1, n) \in Seq(Bytes)
          /\ Len(SubSeq(Available, 1, n)) = IF 1 =< n THEN n - 1 + 1 ELSE 0
      BY <3>2, <2>2, SubSeqProperties
    <3>4. Len(SubSeq(Available, 1, n)) = n
      BY <3>3, <2>2
    <3> QED
      BY <3>3, <3>4, <1>0, ConcatProperties
  <2> HIDE DEF full
  <2>4. FedInv'
    BY <2>1, <2>2, <1>0 DEF FedInv, source
  <2>5. LineInv' /\ FixedInv'
    <3>1. CASE Len(full) = recordLen
      BY <3>1, <2>1, <2>2, <2>3 DEF LineInv, FixedInv, source
    <3>2. CASE Len(full) # recordLen
      BY <3>2, <2>1, <2>2, <2>3, <1>0 DEF LineInv, FixedInv, source
    <3> QED
      BY <3>1, <3>2
  <2>6. LimitInv' /\ EndInv' /\ input' = input
    BY <2>1 DEF LimitInv, EndInv, IInv, source
  <2> QED
    BY <2>4, <2>5, <2>6 DEF IInv
<1>9. CASE FixedEnd
  BY <1>9 DEF FixedEnd, IInv, FedInv, LimitInv, EndInv, LineInv, FixedInv, source, Exhausted
<1>10. CASE Slurp
  <2>1. /\ UNCHANGED <<source, fed, out, status, faults>>
        /\ rec' = rec \o Available /\ at' = fed
        /\ status = "slurping"
    BY <1>10 DEF Slurp
  <2>2. rec' \in Seq(Bytes)
    BY <2>1, Taken
  <2>3. LineInv'
    BY <2>1, <2>2 DEF IInv, LineInv, FixedInv, source
  <2>4. FedInv'
    BY <2>1, <1>0 DEF FedInv, source
  <2> QED
    BY <2>1, <2>3, <2>4 DEF IInv, LimitInv, EndInv, FixedInv, source
<1>11. CASE SlurpEnd
  BY <1>11 DEF SlurpEnd, IInv, FedInv, LimitInv, EndInv, LineInv, FixedInv, source, Exhausted
<1>12. CASE UNCHANGED vars
  BY <1>12 DEF vars, source, IInv, FedInv, LimitInv, EndInv, LineInv, FixedInv
<1> QED
  BY <1>1, <1>2, <1>3, <1>4, <1>5, <1>6, <1>7, <1>8, <1>9, <1>10, <1>11, <1>12
  DEF Next, Run, Newline, Fixed, Buffered, Over

LEMMA Invariance == Spec => []IInv
<1> QED
  BY InitInv, NextInv, PTL DEF Spec

-----------------------------------------------------------------------------
(* A stream read to its end has not passed the decompression limit.        *)
THEOREM DecompressionIsLimited == Spec => []LimitHolds
<1>1. IInv => LimitHolds
  <2>1. IInv => Len(input) \in Nat
    BY LenProperties DEF IInv
  <2> QED
    BY <2>1, LimitsAssumption DEF IInv, FedInv, LimitInv, EndInv, LimitHolds
<1> QED
  BY <1>1, Invariance, PTL

(* The line under construction never exceeds the record limit by more than *)
(* a buffer.                                                               *)
THEOREM LinesAreBounded == Spec => []BoundedLine
<1>1. IInv => BoundedLine
  BY DEF IInv, LineInv, BoundedLine
<1> QED
  BY <1>1, Invariance, PTL
-----------------------------------------------------------------------------
(* Every variable stays in its domain; what is yielded is records of bytes *)
(* also where the slice framer does the work.                              *)
THEOREM TypeCorrect == Spec => []TypeOK
<1>1. Init => TypeOK
  <2> SUFFICES ASSUME Init PROVE TypeOK
    OBVIOUS
  <2>1. IInv
    BY InitInv
  <2>2. <<>> \in Seq(Seq(Bytes)) /\ out = <<>>
    BY EmptySeq DEF Init
  <2> QED
    BY <2>1, <2>2, LimitsAssumption
    DEF Init, IInv, FedInv, LineInv, FixedInv, TypeOK, Statuses
<1>2. IInv /\ IInv' /\ TypeOK /\ [Next]_vars => TypeOK'
  <2> SUFFICES ASSUME IInv, IInv', TypeOK, [Next]_vars PROVE TypeOK'
    OBVIOUS
  <2>1. source' = source
    BY DEF Next, Run, Newline, Fixed, Buffered, Over, New, Feed, ReadError, NextRecord, LineEnd,
           LinePart, LastLine, FixedPart, FixedEnd, Slurp, SlurpEnd, vars
  <2>2. status' \in Statuses
    BY DEF Next, Run, Newline, Fixed, Buffered, Over, New, Feed, ReadError, NextRecord, LineEnd,
           LinePart, LastLine, FixedPart, FixedEnd, Slurp, SlurpEnd, vars, TypeOK, Statuses
  <2>3. faults' \in 0 .. MaxFaults
    <3>1. CASE ReadError
      BY <3>1, LimitsAssumption DEF ReadError, TypeOK
    <3>2. CASE ~ReadError
      BY <3>2
      DEF Next, Run, Newline, Fixed, Buffered, Over, New, Feed, NextRecord, LineEnd,
          LinePart, LastLine, FixedPart, FixedEnd, Slurp, SlurpEnd, vars, TypeOK
    <3> QED
      BY <3>1, <3>2
  <2>4. out' \in Seq(Seq(Bytes))
    <3>1. CASE LineEnd
      <4>1. PICK n \in Delimiters : out' = Append(out, StripCR(rec \o SubSeq(Available, 1, n - 1)))
        BY <3>1 DEF LineEnd
      <4>2. n - 1 \in 0 .. Len(Available) /\ Available \in Seq(Bytes) /\ Len(Available) \in Nat
        BY <4>1, Taken, LenProperties DEF Delimiters
      <4>3. SubSeq(Available, 1, n - 1) \in Seq(Bytes)
        <5>1. 1 \in Int /\ n - 1 \in Int /\ \A i \in 1 .. n - 1 : i \in 1 .. Len(Available)
          BY <4>2
        <5>2. \A i \in 1 .. n - 1 : Available[i] \in Bytes
          BY <4>2, <5>1, ElementOfSeq
        <5> QED
          BY <5>1, <5>2, SubSeqProperties
      <4>4. rec \o SubSeq(Available, 1, n - 1) \in Seq(Bytes)
        BY <4>3, ConcatProperties DEF TypeOK
      <4>5. StripCR(rec \o SubSeq(Available, 1, n - 1)) \in Seq(Bytes)
        BY <4>4, StripType
      <4> QED
        BY <4>1, <4>5, AppendProperties DEF TypeOK
    <3>2. CASE LastLine
      BY <3>2, AppendProperties DEF LastLine, TypeOK
    <3>3. CASE FixedPart
      <4>1. out' = Append(out, rec') \/ out' = out
        BY <3>3 DEF FixedPart
      <4>2. rec' \in Seq(Bytes)
        BY DEF IInv, LineInv
      <4>3. out \in Seq(Seq(Bytes))
        BY DEF TypeOK
      <4>4. Append(out, rec') \in Seq(Seq(Bytes))
        BY <4>2, <4>3, AppendProperties
      <4> QED
        BY <4>1, <4>3, <4>4
    <3>4. CASE SlurpEnd
      <4>1. Records(rec, framing, recordLen) \in Found
        BY RecordsType DEF TypeOK
      <4> QED
        BY <3>4, <4>1 DEF SlurpEnd, Found
    <3>5. CASE ~(LineEnd \/ LastLine \/ FixedPart \/ SlurpEnd)
      BY <3>5
      DEF Next, Run, Newline, Fixed, Buffered, Over, New, Feed, ReadError, NextRecord, LinePart,
          FixedEnd, Slurp, vars, TypeOK
    <3> QED
      BY <3>1, <3>2, <3>3, <3>4, <3>5
  <2>5. Len(input) \in Nat
    BY LenProperties DEF TypeOK
  <2> QED
    BY <2>1, <2>2, <2>3, <2>4, <2>5 DEF IInv, FedInv, LineInv, TypeOK, source
<1> QED
  BY <1>1, <1>2, Invariance, PTL DEF Spec
-----------------------------------------------------------------------------
(* What is yielded, and what is left to be *)

(* Where the record being read starts. *)
From == IF status = "within" THEN at - Len(rec) + 1 ELSE at + 1

NewInv == status = "new" => at = 0 /\ rec = <<>> /\ out = <<>>

(* The records yielded and the lines from the present one on are the lines *)
(* of the input; no line feed is in what was read of the present one.      *)
LineYield ==
    framing = "newline" =>
        /\ status \in {"ready", "within"} =>
              From \in 1 .. at + 1 /\ out \o LinesOf(input)[From] = LinesOf(input)[1]
        /\ status = "within" => /\ rec = SubSeq(input, From, at)
                                /\ \A i \in From .. at : input[i] # LF
        /\ status = "ended" => out = LinesOf(input)[1]
        /\ \E rest \in Seq(Seq(Bytes)) : out \o rest = LinesOf(input)[1]

(* The records yielded and the part of the present one are what is         *)
(* consumed.                                                               *)
FixedYield ==
    framing = "fixed" =>
        /\ status # "slurping"
        /\ \A i \in 1 .. Len(out) :
              out[i] = SubSeq(input, (i - 1) * recordLen + 1, i * recordLen)
        /\ status \in {"ready", "within", "ended"} => recordLen > 0
        /\ status \in {"ready", "ended"} => at = Len(out) * recordLen
        /\ status = "within" => /\ From = Len(out) * recordLen + 1
                                /\ rec = SubSeq(input, From, at)

(* Nothing is yielded before all is read. *)
WholeYield ==
    framing \in {"rdw", "rdw_blocked"} =>
        /\ status \in {"new", "slurping", "ended", "error"}
        /\ status = "slurping" => rec = SubSeq(input, 1, at)
        /\ status \in {"new", "slurping"} => out = <<>>
        /\ status = "ended" => Sliced.ok /\ out = Sliced.recs
        /\ out = <<>> \/ out = Sliced.recs

YieldInv == NewInv /\ LineYield /\ FixedYield /\ WholeYield

(* A piece of the buffer continues what was read before it. *)
LEMMA Piece ==
    ASSUME IInv, NEW s \in 1 .. at + 1, rec = SubSeq(input, s, at), NEW n \in 0 .. fed - at
    PROVE  /\ rec \o SubSeq(Available, 1, n) = SubSeq(input, s, at + n)
           /\ Len(SubSeq(input, s, at + n)) = at + n - s + 1
           /\ n = fed - at => rec \o Available = SubSeq(input, s, at + n)
           /\ \A i \in 1 .. fed - at : Available[i] = input[at + i]
<1>1. /\ input \in Seq(Bytes) /\ Len(input) \in Nat
      /\ fed \in Nat /\ at \in Nat /\ at =< fed /\ fed =< Len(input)
  BY Taken DEF IInv, FedInv
<1>2. \A i \in 1 .. Len(input) : input[i] \in Bytes
  BY <1>1, ElementOfSeq
<1>3. \A i \in 1 .. fed - at : Available[i] = input[at + i]
  <2>1. /\ at + 1 \in Int /\ fed \in Int
        /\ \A i \in at + 1 .. fed : input[i] \in Bytes
    BY <1>1, <1>2
  <2>2. \A i \in 1 .. fed - (at + 1) + 1 : SubSeq(input, at + 1, fed)[i] = input[at + 1 + i - 1]
    BY <2>1, SubSeqProperties
  <2>3. \A i \in 1 .. fed - at : i \in 1 .. fed - (at + 1) + 1 /\ at + 1 + i - 1 = at + i
    BY <1>1
  <2> QED
    BY <2>2, <2>3 DEF Available
<1>4. SubSeq(Available, 1, n) = SubSeq(input, at + 1, at + n)
  <2>1. CASE n = 0
    <3>1. n < 1 /\ at + n < at + 1 /\ 1 \in Int /\ n \in Int /\ at + 1 \in Int /\ at + n \in Int
      BY <1>1, <2>1
    <3>2. SubSeq(Available, 1, n) = <<>>
      BY <3>1, SubSeqEmpty
    <3>3. SubSeq(input, at + 1, at + n) = <<>>
      BY <3>1, SubSeqEmpty
    <3> QED
      BY <3>2, <3>3
  <2>2. CASE n # 0
    <3> DEFINE a == at + 1
    <3>1. /\ a \in 1 .. Len(input) /\ fed \in 1 .. Len(input)
          /\ 1 \in 1 .. fed - a + 1 /\ n \in 1 .. fed - a + 1
          /\ a + 1 - 1 = at + 1 /\ a + n - 1 = at + n
      BY <1>1, <2>2
    <3> HIDE DEF a
    <3>2. SubSeq(SubSeq(input, a, fed), 1, n) = SubSeq(input, a + 1 - 1, a + n - 1)
      BY <1>1, <3>1, SubSeqOfSubSeq
    <3> QED
      BY <3>1, <3>2 DEF Available, a
  <2> QED
    BY <2>1, <2>2
<1>5. /\ s \in 1 .. Len(input) + 1 /\ at \in s - 1 .. Len(input)
      /\ at + n \in at .. Len(input) /\ fed \in at .. Len(input)
  BY <1>1
<1>6. SubSeq(input, s, at) \o SubSeq(input, at + 1, at + n) = SubSeq(input, s, at + n)
  BY <1>1, <1>5, ConcatAdjacentSubSeq
<1>7. SubSeq(input, s, at) \o SubSeq(input, at + 1, fed) = SubSeq(input, s, fed)
  BY <1>1, <1>5, ConcatAdjacentSubSeq
<1>8. Len(SubSeq(input, s, at + n)) = at + n - s + 1
  <2> DEFINE b == at + n
  <2>1. /\ s \in Int /\ b \in Int /\ s =< b + 1
        /\ \A i \in s .. b : i \in 1 .. Len(input)
    BY <1>1
  <2> HIDE DEF b
  <2>2. \A i \in s .. b : input[i] \in Bytes
    BY <1>2, <2>1
  <2>3. Len(SubSeq(input, s, b)) = IF s =< b THEN b - s + 1 ELSE 0
    BY <2>1, <2>2, SubSeqProperties
  <2>4. Len(SubSeq(input, s, b)) = b - s + 1
    BY <2>1, <2>3
  <2> QED
    BY <1>1, <2>4 DEF b
<1>9. n = fed - at => at + n = fed
  BY <1>1
<1> QED
  BY <1>3, <1>4, <1>6, <1>7, <1>8, <1>9 DEF Available
(* Appending the first of some records to those before it. *)
LEMMA Moves ==
    ASSUME NEW s \in Seq(Seq(Bytes)), NEW x \in Seq(Bytes), NEW rest \in Seq(Seq(Bytes))
    PROVE  /\ Append(s, x) \o rest = s \o (<<x>> \o rest)
           /\ Append(s, x) = s \o <<x>>
<1>1. <<x>> \in Seq(Seq(Bytes)) /\ Append(s, x) = s \o <<x>>
  BY AppendIsConcat
<1>2. (s \o <<x>>) \o rest = s \o (<<x>> \o rest)
  <2> DEFINE y == <<x>>
  <2>1. y \in Seq(Seq(Bytes))
    BY <1>1
  <2> HIDE DEF y
  <2>2. (s \o y) \o rest = s \o (y \o rest)
    <3>1. Cat(Cat(s, y), rest) = Cat(s, Cat(y, rest))
      BY <2>1, CatAssociative
    <3> QED
      BY <3>1, Zenon DEF Cat
  <2> QED
    BY <2>2 DEF y
<1> QED
  BY <1>1, <1>2

LEMMA LineEndYields ==
    ASSUME IInv, TypeOK, LineYield, LineEnd
    PROVE  LineYield'
<1> DEFINE L == LinesOf(input)
<1>1. /\ status = "within" /\ framing = "newline" /\ status' = "ready"
      /\ UNCHANGED <<source, fed, rec, faults>>
  BY DEF LineEnd
<1>2. PICK n \in Delimiters :
         /\ \A m \in Delimiters : n =< m
         /\ out' = Append(out, StripCR(rec \o SubSeq(Available, 1, n - 1)))
         /\ at' = at + n
  BY DEF LineEnd
<1> DEFINE s == From
           e == at + n
           x == StripCR(SubSeq(input, s, e - 1))
<1>3. /\ s \in 1 .. at + 1 /\ rec = SubSeq(input, s, at)
      /\ \A i \in s .. at : input[i] # LF
      /\ out \o L[s] = L[1]
  BY <1>1 DEF LineYield
<1> HIDE DEF s
<1>4. /\ input \in Seq(Bytes) /\ Len(input) \in Nat /\ at \in Nat /\ fed \in Nat
      /\ fed =< Len(input) /\ Len(Available) = fed - at
  BY Taken DEF IInv, FedInv
<1>5. n \in 1 .. fed - at /\ Available[n] = LF
      /\ \A i \in 1 .. fed - at : Available[i] = LF => n =< i
  BY <1>2, <1>4 DEF Delimiters
<1>6. n - 1 \in 0 .. fed - at /\ at + (n - 1) = e - 1 /\ e \in 1 .. Len(input)
  BY <1>4, <1>5
<1>7. /\ rec \o SubSeq(Available, 1, n - 1) = SubSeq(input, s, e - 1)
      /\ \A i \in 1 .. fed - at : Available[i] = input[at + i]
  <2>1. /\ rec \o SubSeq(Available, 1, n - 1) = SubSeq(input, s, at + (n - 1))
        /\ \A i \in 1 .. fed - at : Available[i] = input[at + i]
    BY <1>3, <1>6, Piece
  <2> QED
    BY <1>6, <2>1
<1>8. input[e] = LF /\ \A i \in s .. Len(input) : input[i] = LF => e =< i
  <2>1. input[e] = LF
    BY <1>5, <1>7
  <2>2. ASSUME NEW i \in s .. Len(input), input[i] = LF, i < e PROVE FALSE
    <3>1. i > at
      BY <1>3, <1>4, <2>2
    <3>2. i - at \in 1 .. fed - at /\ at + (i - at) = i /\ ~(n =< i - at)
      BY <1>3, <1>4, <1>5, <2>2, <3>1
    <3>3. Available[i - at] = LF
      BY <1>7, <2>2, <3>2
    <3> QED
      BY <1>5, <3>2, <3>3
  <2>3. \A i \in s .. Len(input) : i < e \/ e =< i
    BY <1>3, <1>4, <1>6
  <2> QED
    BY <2>1, <2>2, <2>3
<1>9. L[s] = <<x>> \o L[e + 1] /\ e + 1 \in 1 .. Len(input) + 1 /\ L[e + 1] \in Seq(Seq(Bytes))
  <2> DEFINE ends == {i \in s .. Len(input) : input[i] = LF}
  <2>1. e \in ends /\ ends \in SUBSET Nat /\ \A i \in ends : e =< i
    BY <1>3, <1>4, <1>5, <1>6, <1>8
  <2>2. Min(ends) = e
    <3>1. ends # {}
      BY <2>1
    <3> HIDE DEF ends
    <3>2. Min(ends) \in ends /\ \A i \in ends : Min(ends) =< i
      BY <2>1, <3>1, MinOf
    <3>3. Min(ends) =< e /\ e =< Min(ends) /\ e \in Nat /\ Min(ends) \in Nat
      BY <2>1, <3>2
    <3> HIDE DEF e
    <3> QED
      BY <3>3
  <2>3. s \in 1 .. Len(input) + 1 /\ ~(s > Len(input)) /\ ends # {} /\ e + 1 \in 1 .. Len(input) + 1
    <3>1. ends # {} /\ e \in s .. Len(input) /\ s \in Nat \ {0} /\ Len(input) \in Nat
      BY <1>3, <1>4, <2>1
    <3> HIDE DEF e, ends
    <3> QED
      BY <3>1
  <2>4. L[s] = LineTurn(input, s, L) /\ L[e + 1] \in Seq(Seq(Bytes))
    BY <1>4, <2>3, LinesSolve
  <2> HIDE DEF L, e
  <2> QED
    BY <2>2, <2>3, <2>4 DEF LineTurn
<1>10. x \in Seq(Bytes)
  <2>1. rec \o SubSeq(Available, 1, n - 1) \in Seq(Bytes)
    <3>1. 1 \in Int /\ n - 1 \in Int /\ \A i \in 1 .. n - 1 : i \in 1 .. Len(Available)
      BY <1>4, <1>5
    <3>2. \A i \in 1 .. n - 1 : Available[i] \in Bytes
      BY <3>1, Taken, ElementOfSeq
    <3>3. SubSeq(Available, 1, n - 1) \in Seq(Bytes)
      BY <3>1, <3>2, SubSeqProperties
    <3> QED
      BY <3>3, ConcatProperties DEF TypeOK
  <2> QED
    BY <1>7, <2>1, StripType
<1>11. out' = Append(out, x)
  BY <1>2, <1>7
<1>12. From' = e + 1 /\ at' + 1 = e + 1
  BY <1>1, <1>2 DEF From
<1> HIDE DEF L, x, e
<1>13. out' \o L[e + 1] = L[1]
  <2>1. out \in Seq(Seq(Bytes))
    BY DEF TypeOK
  <2> DEFINE rest == L[e + 1]
  <2>2. rest \in Seq(Seq(Bytes))
    BY <1>9
  <2> HIDE DEF rest
  <2>3. Append(out, x) \o rest = out \o (<<x>> \o rest)
    BY <1>10, <2>1, <2>2, Moves
  <2>4. out' \o L[e + 1] = out \o (<<x>> \o L[e + 1])
    BY <1>11, <2>3, Zenon DEF rest
  <2>5. L[s] = <<x>> \o L[e + 1] /\ out \o L[s] = L[1]
    BY <1>3, <1>9
  <2> QED
    BY <2>4, <2>5
<1>14. L' = L
  BY <1>1 DEF L, source
<1>15. From' \in 1 .. at' + 1 /\ out' \o L[From'] = L[1]
  BY <1>6, <1>9, <1>12, <1>13
<1>16. \E rest \in Seq(Seq(Bytes)) : out' \o rest = L[1]
  BY <1>9, <1>13
<1> QED
  BY <1>1, <1>14, <1>15, <1>16 DEF LineYield, L
LEMMA LinePartYields ==
    ASSUME IInv, LineYield, LinePart
    PROVE  /\ LineYield'
           /\ Len(rec') > MaxRecord => OversizeLine
<1>1. /\ status = "within" /\ framing = "newline" /\ Delimiters = {}
      /\ rec' = rec \o Available /\ at' = fed
      /\ status' = IF Len(rec') > MaxRecord THEN "error" ELSE status
      /\ UNCHANGED <<source, fed, out, faults>>
  BY DEF LinePart
<1> DEFINE s == From
<1>2. /\ s \in 1 .. at + 1 /\ rec = SubSeq(input, s, at)
      /\ \A i \in s .. at : input[i] # LF
      /\ s = at - Len(rec) + 1
  BY <1>1 DEF LineYield, From
<1>3. out \o LinesOf(input)[s] = LinesOf(input)[1]
  BY <1>1 DEF LineYield
<1> HIDE DEF s
<1>4. /\ Len(input) \in Nat /\ at \in Nat /\ fed \in Nat /\ at =< fed /\ Len(rec) \in Nat
      /\ fed =< Len(input) /\ Len(Available) = fed - at
      /\ Len(rec \o Available) = Len(rec) + (fed - at)
  BY Taken DEF IInv, FedInv
<1>5. /\ rec' = SubSeq(input, s, fed)
      /\ \A i \in 1 .. fed - at : Available[i] = input[at + i]
  <2> DEFINE n == fed - at
  <2>1. n \in 0 .. fed - at /\ at + n = fed
    BY <1>4
  <2> HIDE DEF n
  <2>2. rec \o Available = SubSeq(input, s, at + n)
    BY <1>2, <2>1, Piece DEF n
  <2>3. \A i \in 1 .. fed - at : Available[i] = input[at + i]
    BY <1>2, <2>1, Piece
  <2> QED
    BY <1>1, <2>1, <2>2, <2>3
<1>6. \A i \in s .. fed : input[i] # LF
  <2> SUFFICES ASSUME NEW i \in s .. fed, input[i] = LF, i > at PROVE FALSE
    BY <1>2, <1>4
  <2>1. i - at \in 1 .. fed - at /\ at + (i - at) = i
    BY <1>2, <1>4
  <2>2. Available[i - at] = LF
    BY <1>5, <2>1
  <2> QED
    BY <1>1, <1>4, <2>1, <2>2 DEF Delimiters
<1>7. Len(rec') = fed - s + 1
  BY <1>1, <1>2, <1>4
<1>8. Len(rec') > MaxRecord => OversizeLine
  <2> SUFFICES ASSUME Len(rec') > MaxRecord PROVE OversizeLine
    OBVIOUS
  <2>1. fed - s + 1 > MaxRecord /\ MaxRecord \in Nat
    BY <1>7, LimitsAssumption
  <2>2. s \in 1 .. Len(input) /\ fed \in s .. Len(input)
    BY <1>2, <1>4, <2>1
  <2> QED
    BY <1>6, <2>1, <2>2 DEF OversizeLine
<1>9. status' = "within" => From' = s
  <2>1. status' = "within" => From' = at' - Len(rec') + 1
    BY DEF From
  <2>2. at' = fed /\ Len(rec') = fed - s + 1 /\ fed \in Int /\ s \in Int
    BY <1>1, <1>2, <1>4, <1>7
  <2>3. fed - (fed - s + 1) + 1 = s
    BY <2>2
  <2> QED
    BY <2>1, <2>2, <2>3
<1>10. s \in 1 .. at' + 1
  BY <1>1, <1>2, <1>4
<1>11. \E rest \in Seq(Seq(Bytes)) : out \o rest = LinesOf(input)[1]
  BY <1>1 DEF LineYield
<1>12. LinesOf(input)' = LinesOf(input) /\ input' = input /\ out' = out /\ framing' = framing
  BY <1>1 DEF source
<1>13. CASE status' = "within"
  BY <1>1, <1>3, <1>5, <1>6, <1>8, <1>9, <1>10, <1>11, <1>12, <1>13 DEF LineYield
<1>14. CASE status' = "error"
  BY <1>8, <1>11, <1>12, <1>14 DEF LineYield
<1> QED
  BY <1>1, <1>13, <1>14

LEMMA LastLineYields ==
    ASSUME IInv, TypeOK, LineYield, LastLine
    PROVE  LineYield'
<1> DEFINE L == LinesOf(input)
<1>1. /\ status = "within" /\ framing = "newline" /\ at = Len(input)
      /\ out' = IF rec = <<>> THEN out ELSE Append(out, rec)
      /\ status' = "ended"
      /\ UNCHANGED <<source, fed, at, rec, faults>>
  BY DEF LastLine, Exhausted
<1> DEFINE s == From
<1>2. /\ s \in 1 .. at + 1 /\ rec = SubSeq(input, s, at)
      /\ \A i \in s .. at : input[i] # LF
      /\ s = at - Len(rec) + 1
      /\ out \o L[s] = L[1]
  BY <1>1 DEF LineYield, From
<1> HIDE DEF s
<1>3. /\ input \in Seq(Bytes) /\ Len(input) \in Nat /\ Len(rec) \in Nat
      /\ rec \in Seq(Bytes) /\ out \in Seq(Seq(Bytes))
  BY Taken DEF IInv, TypeOK
<1>4. s \in 1 .. Len(input) + 1
  BY <1>1, <1>2
<1>5. L[s] = LineTurn(input, s, L)
  BY <1>3, <1>4, LinesSolve
<1>6. out' = L[1]
  <2>1. CASE rec = <<>>
    <3>1. s > Len(input)
      BY <1>1, <1>2, <1>3, <2>1
    <3>2. L[s] = <<>>
      BY <1>5, <3>1 DEF LineTurn
    <3>3. out \o <<>> = out
      BY <1>3, ConcatEmptySeq
    <3> QED
      BY <1>1, <1>2, <2>1, <3>2, <3>3
  <2>2. CASE rec # <<>>
    <3>1. ~(s > Len(input))
      <4>1. Len(rec) > 0
        BY <1>3, <2>2, EmptySeq
      <4>2. s = Len(input) - Len(rec) + 1
        BY <1>1, <1>2
      <4> QED
        BY <1>3, <4>1, <4>2
    <3>2. {i \in s .. Len(input) : input[i] = LF} = {}
      BY <1>1, <1>2
    <3>3. L[s] = <<rec>>
      <4>1. LineTurn(input, s, L) = <<SubSeq(input, s, Len(input))>>
        BY <3>1, <3>2 DEF LineTurn
      <4> QED
        BY <1>1, <1>2, <1>5, <4>1
    <3>4. Append(out, rec) = out \o <<rec>>
      BY <1>3, Moves
    <3> HIDE DEF L
    <3> QED
      BY <1>1, <1>2, <2>2, <3>3, <3>4
  <2> QED
    BY <2>1, <2>2
<1>7. out' \in Seq(Seq(Bytes)) /\ out' \o <<>> = out' /\ <<>> \in Seq(Seq(Bytes))
  <2>1. 1 \in 1 .. Len(input) + 1
    BY <1>3
  <2>2. out' \in Seq(Seq(Bytes))
    BY <1>3, <1>6, <2>1, LinesSolve
  <2> QED
    BY <2>2, ConcatEmptySeq, EmptySeq
<1>8. \E rest \in Seq(Seq(Bytes)) : out' \o rest = L[1]
  BY <1>6, <1>7
<1>9. L' = L
  BY <1>1 DEF source
<1> QED
  BY <1>1, <1>6, <1>8, <1>9 DEF LineYield, L
LEMMA FixedPartYields ==
    ASSUME IInv, TypeOK, TypeOK', FixedYield, FixedPart
    PROVE  FixedYield'
<1> DEFINE n    == Min({Len(Available), recordLen - Len(rec)})
           full == rec \o SubSeq(Available, 1, n)
           c    == Len(out)
           s    == From
<1>1. /\ status = "within" /\ framing = "fixed"
      /\ at' = at + n /\ rec' = full
      /\ IF Len(full) = recordLen
         THEN out' = Append(out, full) /\ status' = "ready"
         ELSE UNCHANGED <<out, status>>
      /\ UNCHANGED <<source, fed, faults>>
  BY DEF FixedPart
<1>2. /\ s = c * recordLen + 1 /\ rec = SubSeq(input, s, at) /\ s = at - Len(rec) + 1
      /\ \A i \in 1 .. c : out[i] = SubSeq(input, (i - 1) * recordLen + 1, i * recordLen)
      /\ recordLen > 0
  BY <1>1 DEF FixedYield, From
<1> HIDE DEF s
<1>3. /\ input \in Seq(Bytes) /\ Len(input) \in Nat /\ Len(rec) \in Nat
      /\ at \in Nat /\ fed \in Nat /\ at =< fed /\ fed =< Len(input)
      /\ Len(Available) = fed - at /\ recordLen \in Nat /\ Len(rec) < recordLen
      /\ rec \in Seq(Bytes) /\ out \in Seq(Seq(Bytes)) /\ c \in Nat
  BY <1>1, Taken, LenProperties DEF IInv, FedInv, FixedInv, TypeOK
<1> HIDE DEF c
<1>4. c * recordLen \in Nat
  BY <1>3
<1>5. n \in 0 .. fed - at /\ n =< recordLen - Len(rec)
  <2>1. Len(Available) \in Nat /\ recordLen - Len(rec) \in Nat
    BY <1>3
  <2>2. n \in Nat /\ n =< Len(Available) /\ n =< recordLen - Len(rec)
    BY <2>1, MinOfPair
  <2> HIDE DEF n
  <2> QED
    BY <1>3, <2>1, <2>2
<1> HIDE DEF n
<1>6. full = SubSeq(input, s, at + n) /\ Len(full) = at + n - s + 1
  <2>1. s \in 1 .. at + 1
    BY <1>2, <1>3, <1>4
  <2> QED
    BY <1>2, <1>5, <2>1, Piece
<1>7. full \in Seq(Bytes)
  BY <1>1 DEF TypeOK
<1> HIDE DEF full
<1>8. framing' = framing /\ input' = input /\ recordLen' = recordLen
  BY <1>1 DEF source
<1>9. CASE Len(full) = recordLen
  <2>1. out' = Append(out, full) /\ status' = "ready"
    BY <1>1, <1>9
  <2>2. /\ Len(out') = c + 1 /\ out'[c + 1] = full
        /\ \A i \in 1 .. c : out'[i] = out[i]
    BY <1>3, <1>7, <2>1, AppendProperties DEF c
  <2>3. (c + 1) * recordLen = c * recordLen + recordLen
    BY <1>3
  <2>4. at' = (c + 1) * recordLen
    <3>1. at' = at + n /\ at + n - s + 1 = recordLen /\ s = c * recordLen + 1
          /\ n \in Int /\ s \in Int
      BY <1>1, <1>2, <1>3, <1>4, <1>5, <1>6, <1>9
    <3> DEFINE x == c * recordLen
    <3>2. x \in Nat /\ s = x + 1 /\ (c + 1) * recordLen = x + recordLen
      BY <1>4, <2>3, <3>1
    <3> HIDE DEF x
    <3> QED
      BY <1>3, <3>1, <3>2
  <2>5. \A i \in 1 .. Len(out') :
           out'[i] = SubSeq(input, (i - 1) * recordLen + 1, i * recordLen)
    <3> TAKE i \in 1 .. Len(out')
    <3>1. CASE i = c + 1
      <4>1. i - 1 = c /\ at + n = i * recordLen
        <5>1. at + n = (c + 1) * recordLen
          BY <1>1, <2>4, Zenon
        <5> QED
          BY <1>3, <3>1, <5>1
      <4>2. full = SubSeq(input, c * recordLen + 1, at + n)
        BY <1>2, <1>6
      <4> QED
        BY <2>2, <3>1, <4>1, <4>2
    <3>2. CASE i # c + 1
      <4>1. i \in 1 .. c
        BY <1>3, <2>2, <3>2
      <4> QED
        BY <1>2, <2>2, <4>1
    <3> QED
      BY <3>1, <3>2
  <2>6. at' = Len(out') * recordLen
    BY <2>2, <2>4
  <2> QED
    BY <1>2, <1>8, <2>1, <2>5, <2>6 DEF FixedYield
<1>10. CASE Len(full) # recordLen
  <2>1. UNCHANGED <<out, status>> /\ rec' = full /\ at' = at + n
    BY <1>1, <1>10
  <2>2. From' = s
    <3>1. From' = at' - Len(rec') + 1
      BY <1>1, <2>1 DEF From
    <3>2. Len(rec') = at' - s + 1 /\ at' \in Int /\ s \in Int
      <4>1. at + n - s + 1 = (at + n) - s + 1 /\ n \in Int /\ s \in Int
        BY <1>2, <1>3, <1>4, <1>5
      <4> QED
        BY <1>3, <1>6, <2>1, <4>1
    <3>3. \A x, y \in Int : x - (x - y + 1) + 1 = y
      OBVIOUS
    <3>4. at' - (at' - s + 1) + 1 = s
      BY <3>2, <3>3, Zenon
    <3> QED
      BY <3>1, <3>2, <3>4, Zenon
  <2>3. rec' = SubSeq(input, s, at')
    BY <1>6, <2>1
  <2> QED
    BY <1>1, <1>2, <1>8, <2>1, <2>2, <2>3 DEF FixedYield, c
<1> QED
  BY <1>9, <1>10
LEMMA SlurpYields ==
    ASSUME IInv, WholeYield, Slurp
    PROVE  WholeYield'
<1>1. /\ status = "slurping" /\ rec' = rec \o Available /\ at' = fed
      /\ UNCHANGED <<source, fed, out, status, faults>>
  BY DEF Slurp
<1>2. /\ at \in Nat /\ fed \in Nat /\ at =< fed
  BY DEF IInv, FedInv
<1>3. CASE framing \in {"rdw", "rdw_blocked"}
  <2>1. rec = SubSeq(input, 1, at) /\ 1 \in 1 .. at + 1
    BY <1>1, <1>2, <1>3 DEF WholeYield
  <2> DEFINE n == fed - at
  <2>2. n \in 0 .. fed - at /\ n = fed - at /\ at + n = fed
    BY <1>2
  <2> HIDE DEF n
  <2>3. rec \o Available = SubSeq(input, 1, at + n)
    BY <2>1, <2>2, Piece
  <2>4. rec' = SubSeq(input, 1, at')
    BY <1>1, <2>2, <2>3
  <2>5. out' = out /\ status' = status /\ framing' = framing /\ input' = input /\ Sliced' = Sliced
    BY <1>1 DEF source, Sliced
  <2> QED
    BY <1>1, <1>3, <2>4, <2>5 DEF WholeYield
<1>4. CASE framing \notin {"rdw", "rdw_blocked"}
  BY <1>1, <1>4 DEF WholeYield, source
<1> QED
  BY <1>3, <1>4

(* All of the input has been read. *)
LEMMA SlurpedAll ==
    ASSUME IInv, TypeOK, LineYield, FixedYield, WholeYield, SlurpEnd
    PROVE  /\ framing \in {"rdw", "rdw_blocked"}
           /\ Records(rec, framing, recordLen) = Sliced
<1>1. status = "slurping" /\ at = Len(input)
  BY DEF SlurpEnd, Exhausted
<1>2. framing \in {"rdw", "rdw_blocked"}
  BY <1>1 DEF IInv, LineInv, FixedYield, TypeOK, Framings
<1>3. rec = input
  <2>1. rec = SubSeq(input, 1, Len(input))
    BY <1>1, <1>2 DEF WholeYield
  <2> QED
    BY <2>1, SubSeqFull DEF TypeOK
<1> QED
  BY <1>2, <1>3 DEF Sliced

LEMMA NextYield == IInv /\ TypeOK /\ TypeOK' /\ YieldInv /\ [Next]_vars => YieldInv'
<1> SUFFICES ASSUME IInv, TypeOK, TypeOK', YieldInv, [Next]_vars PROVE YieldInv'
  OBVIOUS
<1> USE DEF YieldInv
<1>0. /\ at \in Nat /\ Len(rec) \in Nat /\ recordLen \in Nat
      /\ <<>> \in Seq(Seq(Bytes)) /\ Len(<<>>) = 0
      /\ input \in Seq(Bytes) /\ Len(input) \in Nat
      /\ SubSeq(input, at + 1, at) = <<>>
  <2>1. at + 1 \in Int /\ at \in Int /\ at < at + 1
    BY DEF TypeOK, IInv, FedInv
  <2>2. SubSeq(input, at + 1, at) = <<>>
    BY <2>1, SubSeqEmpty
  <2> QED
    BY <2>2, EmptySeq, LenProperties DEF TypeOK, IInv, FedInv
<1>1. source' = source
  BY DEF Next, Run, Newline, Fixed, Buffered, Over, New, Feed, ReadError, NextRecord, LineEnd,
         LinePart, LastLine, FixedPart, FixedEnd, Slurp, SlurpEnd, vars
<1>2. /\ input' = input /\ framing' = framing /\ recordLen' = recordLen
      /\ Sliced' = Sliced /\ LinesOf(input)' = LinesOf(input)
  BY <1>1 DEF source, Sliced
<1>3. CASE New
  <2>1. /\ status = "new" /\ at' = 0 /\ rec' = <<>> /\ out' = <<>>
        /\ status' = IF RefusedLength THEN "error"
                     ELSE IF framing \in {"newline", "fixed"} THEN "ready" ELSE "slurping"
    BY <1>3 DEF New, NewInv
  <2>2. LineYield'
    <3> DEFINE L == LinesOf(input)
    <3>1. From' = 1 /\ at' + 1 = 1
      BY <2>1 DEF From
    <3>2. L[1] \in Seq(Seq(Bytes)) /\ 1 \in 1 .. 1
      <4>1. 1 \in 1 .. Len(input) + 1
        BY <1>0
      <4> QED
        BY <1>0, <4>1, LinesSolve
    <3>3. <<>> \o L[1] = L[1]
      BY <3>2, ConcatEmptySeq
    <3> HIDE DEF L
    <3>4. framing = "newline" => status' \in {"ready", "error"}
      BY <2>1
    <3>5. /\ From' \in 1 .. at' + 1
          /\ out' \o L[From'] = L[1]
          /\ \E rest \in Seq(Seq(Bytes)) : out' \o rest = L[1]
      BY <2>1, <3>1, <3>2, <3>3
    <3> QED
      BY <1>2, <3>4, <3>5 DEF LineYield, L
  <2>3. FixedYield'
    <3>1. framing = "fixed" => status' \in {"ready", "error"}
      BY <2>1
    <3>2. status' = "ready" /\ framing = "fixed" => recordLen > 0
      BY <1>0, <2>1 DEF RefusedLength
    <3>3. Len(out') * recordLen = 0
      BY <1>0, <2>1
    <3> QED
      BY <1>0, <1>2, <2>1, <3>1, <3>2, <3>3 DEF FixedYield
  <2>4. WholeYield'
    <3>1. framing \in {"rdw", "rdw_blocked"} => status' \in {"slurping", "error"}
      BY <2>1
    <3>2. SubSeq(input, 1, at') = <<>>
      BY <2>1, SubSeqEmpty
    <3> QED
      BY <1>2, <2>1, <3>1, <3>2 DEF WholeYield
  <2>5. NewInv'
    BY <2>1 DEF NewInv
  <2> QED
    BY <2>2, <2>3, <2>4, <2>5
<1>4. CASE Feed
  <2>1. /\ UNCHANGED <<at, rec, out>>
        /\ status' = status \/ status' = "error"
        /\ status # "new"
    BY <1>4 DEF Feed, Reading
  <2>2. status' # "error" => From' = From
    BY <2>1 DEF From
  <2> QED
    BY <1>2, <2>1, <2>2 DEF NewInv, LineYield, FixedYield, WholeYield
<1>5. CASE ReadError
  <2>1. UNCHANGED <<at, rec, out>> /\ status' = "error"
    BY <1>5 DEF ReadError
  <2> QED
    BY <1>2, <2>1 DEF NewInv, LineYield, FixedYield, WholeYield
<1>6. CASE NextRecord
  <2>1. /\ status = "ready" /\ status' = "within" /\ rec' = <<>>
        /\ at' = at /\ out' = out
    BY <1>6 DEF NextRecord
  <2>2. From' = at + 1 /\ From = at + 1
    BY <1>0, <2>1 DEF From
  <2>3. LineYield'
    <3>1. \A i \in From' .. at' : input[i] # LF
      BY <1>0, <2>1, <2>2
    <3> QED
      BY <1>0, <1>2, <2>1, <2>2, <3>1 DEF LineYield
  <2>4. FixedYield'
    BY <1>0, <1>2, <2>1, <2>2 DEF FixedYield
  <2> QED
    BY <1>2, <2>1, <2>3, <2>4 DEF NewInv, WholeYield
<1>7. CASE LineEnd \/ LinePart \/ LastLine
  <2>1. LineYield'
    BY <1>7, LineEndYields, LinePartYields, LastLineYields
  <2>2. framing = "newline" /\ status' # "new"
    BY <1>7 DEF LineEnd, LinePart, LastLine
  <2> QED
    BY <1>2, <2>1, <2>2 DEF NewInv, FixedYield, WholeYield
<1>8. CASE FixedPart
  <2>1. FixedYield'
    BY <1>8, FixedPartYields
  <2>2. framing = "fixed" /\ status' # "new"
    BY <1>8 DEF FixedPart
  <2> QED
    BY <1>2, <2>1, <2>2 DEF NewInv, LineYield, WholeYield
<1>9. CASE FixedEnd
  <2>1. /\ status = "within" /\ framing = "fixed" /\ UNCHANGED <<at, rec, out>>
        /\ status' = IF rec = <<>> THEN "ended" ELSE "error"
    BY <1>9 DEF FixedEnd
  <2>2. rec = <<>> => at = Len(out) * recordLen
    <3>1. From = at - Len(rec) + 1 /\ From = Len(out) * recordLen + 1
      BY <2>1 DEF FixedYield, From
    <3>2. Len(out) * recordLen \in Nat
      <4>1. Len(out) \in Nat
        BY LenProperties DEF TypeOK
      <4> QED
        BY <1>0, <4>1
    <3> QED
      BY <1>0, <3>1, <3>2
  <2>3. FixedYield'
    BY <1>2, <2>1, <2>2 DEF FixedYield
  <2> QED
    BY <1>2, <2>1, <2>3 DEF NewInv, LineYield, WholeYield
<1>10. CASE Slurp
  <2>1. WholeYield'
    BY <1>10, SlurpYields
  <2>2. status = "slurping" /\ status' = status /\ out' = out
    BY <1>10 DEF Slurp
  <2>3. framing # "newline" /\ framing # "fixed"
    BY <2>2 DEF FixedYield, IInv, LineInv
  <2> QED
    BY <1>2, <2>1, <2>2, <2>3 DEF NewInv, LineYield, FixedYield
<1>11. CASE SlurpEnd
  <2>1. framing \in {"rdw", "rdw_blocked"} /\ Records(rec, framing, recordLen) = Sliced
    BY <1>11, SlurpedAll
  <2>2. out' = Sliced.recs /\ status' = IF Sliced.ok THEN "ended" ELSE "error"
    BY <1>11, <2>1 DEF SlurpEnd
  <2> QED
    BY <1>2, <2>1, <2>2 DEF NewInv, LineYield, FixedYield, WholeYield
<1>12. CASE UNCHANGED vars
  BY <1>2, <1>12 DEF vars, NewInv, LineYield, FixedYield, WholeYield, From
<1> QED
  BY <1>3, <1>4, <1>5, <1>6, <1>7, <1>8, <1>9, <1>10, <1>11, <1>12
  DEF Next, Run, Newline, Fixed, Buffered, Over
LEMMA InitYield == Init => YieldInv
<1> SUFFICES ASSUME Init PROVE YieldInv
  OBVIOUS
<1>1. status = "new" /\ at = 0 /\ rec = <<>> /\ out = <<>> /\ input \in Seq(Bytes)
  BY InputsAssumption DEF Init
<1>2. 1 \in 1 .. Len(input) + 1
  <2>1. Len(input) \in Nat
    BY <1>1, LenProperties
  <2> QED
    BY <2>1
<1>3. LinesOf(input)[1] \in Seq(Seq(Bytes)) /\ Len(<<>>) = 0
  BY <1>1, <1>2, LinesSolve, EmptySeq
<1>4. <<>> \o LinesOf(input)[1] = LinesOf(input)[1]
  BY <1>3, ConcatEmptySeq
<1> QED
  BY <1>1, <1>3, <1>4 DEF YieldInv, NewInv, LineYield, FixedYield, WholeYield

LEMMA Yields == Spec => []YieldInv
<1> QED
  BY InitYield, NextYield, Invariance, TypeCorrect, PTL DEF Spec

(* What is appended to is a prefix. *)
LEMMA Prefix ==
    ASSUME NEW S, NEW s \in Seq(S), NEW rest \in Seq(S)
    PROVE  IsPrefix(s, s \o rest)
<1>1. Len(s) \in Nat /\ Len(rest) \in Nat
  BY LenProperties
<1> DEFINE t == s \o rest
<1>2. t \in Seq(S) /\ Len(t) = Len(s) + Len(rest)
      /\ \A i \in 1 .. Len(s) : t[i] = s[i]
  <2>1. \A i \in 1 .. Len(s) : i \in 1 .. Len(s) + Len(rest)
    BY <1>1
  <2> QED
    BY <2>1, ConcatProperties
<1> HIDE DEF t
<1>3. SubSeq(s, 1, Len(s)) = s
  BY SubSeqFull
<1>4. SubSeq(t, 1, Len(s)) = s
  <2> DEFINE n == Len(s)
             u == SubSeq(t, 1, n)
  <2>1. 1 \in Int /\ n \in Int /\ n >= 0 /\ \A i \in 1 .. n : t[i] \in S
    <3>1. \A i \in 1 .. n : s[i] \in S
      BY ElementOfSeq
    <3> QED
      BY <1>1, <1>2, <3>1
  <2>2. /\ u \in Seq(S) /\ Len(u) = IF 1 =< n THEN n - 1 + 1 ELSE 0
        /\ \A i \in 1 .. n - 1 + 1 : u[i] = t[1 + i - 1]
    <3> HIDE DEF n
    <3> QED
      BY <2>1, SubSeqProperties
  <2> HIDE DEF u
  <2>3. Len(u) = n /\ \A i \in 1 .. n : u[i] = s[i]
    BY <1>2, <2>1, <2>2
  <2> QED
    BY <2>2, <2>3, SeqEqual DEF u
<1> QED
  BY <1>1, <1>2, <1>3, <1>4 DEF IsPrefix, t

(* A fixed stream that ends between two records is the slice framer's. *)
LEMMA FixedEnds ==
    ASSUME TypeOK, FixedYield, framing = "fixed", status = "ended", at = Len(input)
    PROVE  Sliced = Split(out)
<1> DEFINE c   == Len(out)
           m   == Len(input) \div recordLen
           cut == [i \in 1 .. m |-> SubSeq(input, (i - 1) * recordLen + 1, i * recordLen)]
<1>1. c \in Nat /\ recordLen \in Nat /\ recordLen > 0 /\ Len(input) = c * recordLen
      /\ out \in Seq(Seq(Bytes))
  BY LenProperties DEF TypeOK, FixedYield
<1>2. Len(input) % recordLen = 0 /\ m = c
  <2> HIDE DEF c
  <2> QED
    BY <1>1, Multiples
<1> HIDE DEF m
<1>3. \A i \in 1 .. c : cut[i] = out[i]
  BY <1>2 DEF FixedYield
<1>4. \A i \in 1 .. c : out[i] \in Seq(Bytes)
  BY <1>1, ElementOfSeq
<1>5. cut \in Seq(Seq(Bytes)) /\ Len(cut) = c
  <2> HIDE DEF c
  <2>1. \A i \in 1 .. c : SubSeq(input, (i - 1) * recordLen + 1, i * recordLen) \in Seq(Bytes)
    BY <1>4 DEF FixedYield, c
  <2>2. m \in Nat /\ \A i \in 1 .. m : SubSeq(input, (i - 1) * recordLen + 1, i * recordLen) \in Seq(Bytes)
    BY <1>1, <1>2, <2>1
  <2>3. cut \in Seq(Seq(Bytes)) /\ Len(cut) = m
    BY <2>2
  <2> QED
    BY <1>2, <2>3
<1>6. cut = out
  <2> HIDE DEF cut
  <2> QED
    BY <1>1, <1>3, <1>5, SeqEqual
<1>7. Sliced = Split(cut)
  <2>1. ~(recordLen = 0 \/ Len(input) % recordLen # 0)
    BY <1>1, <1>2
  <2> QED
    BY <2>1, Zenon DEF Sliced, Records, FixedRecords, m
<1> QED
  BY <1>6, <1>7

(* However the input is cut into pieces, the records yielded are the ones  *)
(* the slice framer makes of all of it, or the first of them as long as    *)
(* there is more to come.                                                  *)
THEOREM YieldsTheRecords == Spec => []SameRecords
<1>1. IInv /\ TypeOK /\ YieldInv => SameRecords
  <2> SUFFICES ASSUME IInv, TypeOK, YieldInv PROVE SameRecords
    OBVIOUS
  <2> USE DEF YieldInv
  <2>1. input \in Seq(Bytes) /\ out \in Seq(Seq(Bytes)) /\ framing \in Framings
    BY DEF TypeOK
  <2>2. CASE framing = "newline"
    <3>1. Sliced = Split(LinesOf(input)[1])
      BY <2>1, <2>2, LinesSolve DEF Sliced, Records
    <3>2. Sliced.ok /\ Sliced.recs = LinesOf(input)[1]
      BY <3>1 DEF Split
    <3>3. PICK rest \in Seq(Seq(Bytes)) : out \o rest = LinesOf(input)[1]
      BY <2>2 DEF LineYield
    <3>4. IsPrefix(out, out \o rest)
      BY <2>1, Prefix
    <3> QED
      BY <2>2, <3>2, <3>3, <3>4 DEF SameRecords, LineYield
  <2>3. CASE framing = "fixed"
    <3>1. status = "ended" => Sliced.ok /\ out = Sliced.recs
      <4> SUFFICES ASSUME status = "ended" PROVE Sliced.ok /\ out = Sliced.recs
        OBVIOUS
      <4>1. Sliced = Split(out)
        BY <2>3, FixedEnds DEF IInv, EndInv
      <4> QED
        BY <4>1 DEF Split
    <3> QED
      BY <2>3, <3>1 DEF SameRecords, FixedYield
  <2>4. CASE framing \in {"rdw", "rdw_blocked"}
    BY <2>4 DEF SameRecords, WholeYield
  <2> QED
    BY <2>1, <2>2, <2>3, <2>4 DEF Framings
<1> QED
  BY <1>1, Invariance, TypeCorrect, Yields, PTL

-----------------------------------------------------------------------------
(* Refusals *)

(* What ends within a record is not made of whole ones. *)
LEMMA NotWhole ==
    ASSUME NEW n \in Nat, NEW c \in Nat, NEW len \in Nat, NEW r \in Nat,
           n = c * len + r, 0 < r, r < len
    PROVE  n % len # 0
<1> SUFFICES ASSUME n % len = 0 PROVE FALSE
  OBVIOUS
<1> DEFINE q == n \div len
<1>1. q \in Nat /\ n = q * len
  BY WholeRecords
<1> HIDE DEF q
<1>2. (q - c) * len = r
  BY <1>1
<1>3. CASE q - c >= 1
  <2>1. (q - c) * len >= len
    BY <1>1, <1>3
  <2> QED
    BY <1>1, <1>2, <2>1
<1>4. CASE q - c =< 0
  <2>1. (q - c) * len =< 0
    BY <1>1, <1>4
  <2> QED
    BY <1>1, <1>2, <2>1
<1> QED
  BY <1>1, <1>3, <1>4

(* A stream is refused for a read error, for one of the limits or for what *)
(* the slice framer refuses too, and for nothing else.                     *)
THEOREM RefusedWithCause == Spec => []RefusedForCause
<1>1. Init => RefusedForCause
  BY DEF Init, RefusedForCause
<1>2. IInv /\ TypeOK /\ YieldInv /\ RefusedForCause /\ [Next]_vars => RefusedForCause'
  <2> SUFFICES ASSUME IInv, TypeOK, YieldInv, RefusedForCause, [Next]_vars, status' = "error"
               PROVE  RefusedForCause'
    BY DEF RefusedForCause
  <2> USE DEF YieldInv
  <2> DEFINE Cause == \/ faults' > 0
                      \/ ~Sliced.ok
                      \/ RefusedLength
                      \/ framing = "newline" /\ OversizeLine
                      \/ compressed /\ Len(input) > MaxPlain
  <2>1. source' = source
    BY DEF Next, Run, Newline, Fixed, Buffered, Over, New, Feed, ReadError, NextRecord, LineEnd,
           LinePart, LastLine, FixedPart, FixedEnd, Slurp, SlurpEnd, vars
  <2>2. Cause => RefusedForCause'
    BY <2>1 DEF source, RefusedForCause, Sliced, RefusedLength, OversizeLine
  <2>3. CASE New
    BY <2>2, <2>3 DEF New
  <2>4. CASE Feed
    <3>1. at = fed /\ status # "error"
      BY <2>4 DEF Feed, Reading
    <3>2. PICK k \in 1 .. Min({BufSize, Len(input) - fed}) :
             IF compressed /\ fed + k > MaxPlain
             THEN status' = "error" /\ UNCHANGED fed
             ELSE fed' = fed + k /\ UNCHANGED status
      BY <2>4 DEF Feed
    <3>3. compressed /\ fed + k > MaxPlain
      BY <3>1, <3>2
    <3>4. fed + k =< Len(input)
      <4>1. fed \in Nat /\ Len(input) \in Nat /\ fed =< Len(input) /\ BufSize \in Nat
        BY LimitsAssumption, LenProperties DEF IInv, FedInv
      <4>2. Len(input) - fed \in Nat
        BY <4>1
      <4>3. /\ Min({BufSize, Len(input) - fed}) \in Nat
            /\ Min({BufSize, Len(input) - fed}) =< Len(input) - fed
        BY <4>1, <4>2, MinOfPair
      <4> DEFINE top == Min({BufSize, Len(input) - fed})
      <4>4. k \in 1 .. top /\ top \in Nat /\ top =< Len(input) - fed
        BY <3>2, <4>3
      <4> HIDE DEF top
      <4> QED
        BY <4>1, <4>4
    <3>5. Len(input) > MaxPlain
      <4>1. fed \in Nat /\ k \in Nat /\ Len(input) \in Nat /\ MaxPlain \in Nat
        BY LimitsAssumption, LenProperties DEF IInv, FedInv
      <4> QED
        BY <3>3, <3>4, <4>1
    <3> QED
      BY <2>2, <3>3, <3>5
  <2>5. CASE ReadError
    <3>1. faults' > 0
      BY <2>5 DEF ReadError, TypeOK
    <3> QED
      BY <2>2, <3>1
  <2>6. CASE NextRecord \/ LineEnd \/ LastLine
    BY <2>6 DEF NextRecord, LineEnd, LastLine
  <2>7. CASE LinePart
    <3>1. Len(rec') > MaxRecord /\ framing = "newline"
      BY <2>7 DEF LinePart
    <3>2. OversizeLine
      BY <2>7, <3>1, LinePartYields
    <3> QED
      BY <2>2, <3>1, <3>2
  <2>8. CASE FixedPart
    BY <2>8 DEF FixedPart
  <2>9. CASE FixedEnd
    <3>1. status = "within" /\ framing = "fixed" /\ at = Len(input) /\ rec # <<>>
      BY <2>9 DEF FixedEnd, Exhausted
    <3>2. /\ Len(rec) < recordLen /\ recordLen \in Nat
          /\ Len(out) * recordLen + 1 = at - Len(rec) + 1
      BY <3>1 DEF IInv, FixedInv, FixedYield, From
    <3>3. Len(rec) \in Nat /\ Len(rec) > 0 /\ Len(out) \in Nat /\ Len(input) \in Nat
      BY <3>1, EmptySeq, LenProperties DEF TypeOK
    <3>4. Len(input) = Len(out) * recordLen + Len(rec)
      <4> DEFINE x == Len(out) * recordLen
      <4>1. x \in Nat
        BY <3>2, <3>3
      <4> HIDE DEF x
      <4>2. x + 1 = Len(input) - Len(rec) + 1
        BY <3>1, <3>2 DEF x
      <4>3. Len(input) = x + Len(rec)
        BY <3>3, <4>1, <4>2
      <4> QED
        BY <4>3 DEF x
    <3>5. Len(input) % recordLen # 0
      BY <3>2, <3>3, <3>4, NotWhole
    <3>6. Sliced = Malformed
      BY <3>1, <3>5 DEF Sliced, Records, FixedRecords
    <3> QED
      BY <2>2, <3>6 DEF Malformed
  <2>10. CASE Slurp
    BY <2>10 DEF Slurp
  <2>11. CASE SlurpEnd
    <3>1. Records(rec, framing, recordLen) = Sliced
      BY <2>11, SlurpedAll
    <3>2. ~Sliced.ok
      BY <2>11, <3>1 DEF SlurpEnd
    <3> QED
      BY <2>2, <3>2
  <2>12. CASE Over \/ UNCHANGED vars
    <3>1. status = "error" /\ faults' = faults
      BY <2>12 DEF Over, vars
    <3> QED
      BY <2>2, <3>1 DEF RefusedForCause
  <2> QED
    BY <2>3, <2>4, <2>5, <2>6, <2>7, <2>8, <2>9, <2>10, <2>11, <2>12
    DEF Next, Run, Newline, Fixed, Buffered
<1> QED
  BY <1>1, <1>2, Invariance, TypeCorrect, Yields, PTL DEF Spec
=============================================================================
