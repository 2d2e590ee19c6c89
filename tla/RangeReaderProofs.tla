------------------------- MODULE RangeReaderProofs -------------------------
(***************************************************************************)
(* Proofs about RangeReader for objects of any length, any chunk size and  *)
(* any number of faults and replacements.                                  *)
(*                                                                         *)
(* The inductive invariant says where the chunk in hand lies in the object *)
(* (it ends at pos), that what was returned is all that precedes it and    *)
(* its consumed part, and which version the known size belongs to.  None   *)
(* of the properties is inductive alone: read appends what off points at,  *)
(* and stops on what pos and size say.                                     *)
(***************************************************************************)
EXTENDS RangeReader, SequenceTheorems, TLAPS

GotInv == /\ Len(got) = pos - Len(buf) + off
          /\ \A i \in 1 .. Len(got) : got[i].at = i - 1

BufInv == \A j \in 1 .. Len(buf) :
             /\ buf[j].at = pos - Len(buf) + j - 1
             /\ buf[j].ver \in 1 .. Len(lens)

(* While reading, the size known is that of the version the chunk was     *)
(* read from.                                                              *)
SizeInv == /\ size = Unknown => pos = 0 /\ buf = <<>>
           /\ size # Unknown /\ phase = "reading" =>
                 pos =< size /\ buf # <<>> /\ size = lens[buf[Len(buf)].ver]

(* The last byte returned is the last one consumed. *)
LastInv == off > 0 => got # <<>> /\ got[Len(got)] = buf[off]

ProbeInv == phase = "probing" => size = Unknown

EndInv == EndsWithAVersion /\ WholeObject

CauseInv == /\ FailsForCause
            /\ phase = "probing" => faults > 0 \/ Len(lens) > 1 \/ Current = 0

IInv == TypeOK /\ GotInv /\ BufInv /\ SizeInv /\ LastInv /\ ProbeInv /\ EndInv
        /\ CauseInv

-----------------------------------------------------------------------------
(* A stretch of a sequence, joined to another. *)
LEMMA Joined ==
    ASSUME NEW T, NEW s \in Seq(T), NEW b \in Seq(T),
           NEW o \in Nat, NEW k \in Nat \ {0}, o + k =< Len(b)
    PROVE  /\ s \o SubSeq(b, o + 1, o + k) \in Seq(T)
           /\ Len(s \o SubSeq(b, o + 1, o + k)) = Len(s) + k
           /\ \A i \in 1 .. Len(s) : (s \o SubSeq(b, o + 1, o + k))[i] = s[i]
           /\ \A i \in 1 .. k : (s \o SubSeq(b, o + 1, o + k))[Len(s) + i] = b[o + i]
<1> DEFINE p == SubSeq(b, o + 1, o + k)
<1>1. /\ p \in Seq(T)
      /\ Len(p) = k
      /\ \A i \in 1 .. k : p[i] = b[o + i]
  <2>1. Len(b) \in Nat /\ \A i \in 1 .. Len(b) : b[i] \in T
    BY LenProperties, ElementOfSeq
  <2>2. /\ o + 1 \in Int /\ o + k \in Int
        /\ \A i \in o + 1 .. o + k : b[i] \in T
    BY <2>1
  <2>3. /\ p \in Seq(T)
        /\ Len(p) = IF o + 1 =< o + k THEN (o + k) - (o + 1) + 1 ELSE 0
        /\ \A i \in 1 .. (o + k) - (o + 1) + 1 : p[i] = b[(o + 1) + i - 1]
    BY <2>2, SubSeqProperties
  <2> HIDE DEF p
  <2>4. (o + k) - (o + 1) + 1 = k /\ o + 1 =< o + k
    OBVIOUS
  <2>5. \A i \in 1 .. k : (o + 1) + i - 1 = o + i
    OBVIOUS
  <2> QED
    BY <2>3, <2>4, <2>5
<1> HIDE DEF p
<1>2. /\ s \o p \in Seq(T)
      /\ Len(s \o p) = Len(s) + Len(p)
      /\ \A i \in 1 .. Len(s) + Len(p) :
            (s \o p)[i] = IF i =< Len(s) THEN s[i] ELSE p[i - Len(s)]
      /\ Len(s) \in Nat
  BY <1>1, ConcatProperties, LenProperties
<1>3. /\ \A i \in 1 .. Len(s) : (s \o p)[i] = s[i]
      /\ \A i \in 1 .. k : (s \o p)[Len(s) + i] = b[o + i]
  BY <1>1, <1>2
<1> QED
  BY <1>1, <1>2, <1>3 DEF p

(* A body of k bytes from the place asked for is a chunk. *)
LEMMA BodyIsChunk ==
    ASSUME NEW k \in Nat, pos \in Nat, lens \in Seq(Lengths), Len(lens) > 0
    PROVE  /\ Body(pos, k) \in Seq(Byte)
           /\ Len(Body(pos, k)) = k
           /\ \A j \in 1 .. k : /\ Body(pos, k)[j].at = pos + j - 1
                                /\ Body(pos, k)[j].ver = Len(lens)
<1>1. Len(lens) \in Nat \ {0}
  BY LenProperties
<1>2. \A j \in 1 .. k : [at |-> pos + j - 1, ver |-> Len(lens)] \in Byte
  BY <1>1 DEF Byte
<1> DEFINE b == Body(pos, k)
<1>3. b \in [1 .. k -> Byte]
  BY <1>2 DEF Body, Version
<1>4. \A j \in 1 .. k : b[j].at = pos + j - 1 /\ b[j].ver = Len(lens)
  BY DEF Body, Version
<1> HIDE DEF b
<1>5. b \in Seq(Byte)
  BY <1>3, SeqDef
<1>6. Len(b) = k
  <2>1. DOMAIN b = 1 .. k /\ DOMAIN b = 1 .. Len(b) /\ Len(b) \in Nat
    BY <1>3, <1>5, LenProperties
  <2> QED
    BY <2>1
<1> QED
  BY <1>4, <1>5, <1>6 DEF b

LEMMA InitInv == Init => IInv
<1> SUFFICES ASSUME Init PROVE IInv
  OBVIOUS
<1>1. PICK n \in Lengths : lens = <<n>>
  BY DEF Init
<1>2. lens \in Seq(Lengths) /\ Len(lens) = 1
  BY <1>1
<1>3. TypeOK
  BY <1>2, BoundsAssumption DEF Init, TypeOK, Unknown
<1>4. /\ size = Unknown /\ pos = 0 /\ buf = <<>> /\ off = 0 /\ got = <<>>
      /\ phase = "reading"
      /\ Len(buf) = 0 /\ Len(got) = 0
  BY EmptySeq DEF Init
<1>5. GotInv /\ BufInv
  <2>1. 1 .. Len(got) = {} /\ 1 .. Len(buf) = {}
    BY <1>4
  <2>2. Len(got) = pos - Len(buf) + off
    <3>1. Len(got) = 0 /\ pos = 0 /\ Len(buf) = 0 /\ off = 0
      BY <1>4
    <3> QED
      BY <3>1
  <2> QED
    BY <2>1, <2>2 DEF GotInv, BufInv
<1>6. SizeInv /\ LastInv /\ ProbeInv /\ EndInv /\ CauseInv
  BY <1>4 DEF SizeInv, LastInv, ProbeInv, EndInv, EndsWithAVersion, WholeObject,
              CauseInv, FailsForCause
<1> QED
  BY <1>3, <1>5, <1>6 DEF IInv

LEMMA NextInv == IInv /\ [Next]_vars => IInv'
<1> SUFFICES ASSUME TypeOK, GotInv, BufInv, SizeInv, LastInv, ProbeInv, EndInv,
                    CauseInv, [Next]_vars
             PROVE  TypeOK' /\ GotInv' /\ BufInv' /\ SizeInv' /\ LastInv'
                    /\ ProbeInv' /\ EndInv' /\ CauseInv'
  BY DEF IInv
<1>0. /\ Len(lens) \in Nat \ {0}
      /\ \A v \in 1 .. Len(lens) : lens[v] \in Nat
      /\ Len(buf) \in Nat /\ Len(got) \in Nat /\ pos \in Nat /\ off \in Nat
      /\ Current \in Nat
  <2>1. \A v \in 1 .. Len(lens) : lens[v] \in Lengths
    BY ElementOfSeq DEF TypeOK
  <2>2. Len(lens) \in Nat \ {0}
    BY BoundsAssumption DEF TypeOK
  <2>3. Len(buf) \in Nat /\ Len(got) \in Nat
    BY LenProperties DEF TypeOK
  <2>4. Len(lens) \in 1 .. Len(lens)
    BY <2>2
  <2> QED
    BY <2>1, <2>2, <2>3, <2>4, LengthAssumption DEF TypeOK, Current, Version
<1>1. CASE Consume
  <2>1. PICK n \in OutSizes : LET k == Least(n, Len(buf) - off)
                              IN  /\ got' = got \o SubSeq(buf, off + 1, off + k)
                                  /\ off' = off + k
    BY <1>1 DEF Consume
  <2>2. PICK k \in Nat \ {0} : /\ off + k =< Len(buf)
                               /\ got' = got \o SubSeq(buf, off + 1, off + k)
                               /\ off' = off + k
    <3>1. Len(buf) - off \in Nat \ {0}
      BY <1>0, <1>1 DEF Consume, Spent
    <3>2. n \in Nat \ {0}
      BY OutAssumption
    <3>3. Least(n, Len(buf) - off) \in Nat \ {0} /\ off + Least(n, Len(buf) - off) =< Len(buf)
      BY <1>0, <3>1, <3>2 DEF Least
    <3> QED
      BY <2>1, <3>3
  <2>3. /\ got' \in Seq(Byte)
        /\ Len(got') = Len(got) + k
        /\ \A i \in 1 .. Len(got) : got'[i] = got[i]
        /\ \A i \in 1 .. k : got'[Len(got) + i] = buf[off + i]
    <3>1. got \in Seq(Byte) /\ buf \in Seq(Byte) /\ off \in Nat
      BY DEF TypeOK
    <3> DEFINE g == got \o SubSeq(buf, off + 1, off + k)
    <3>2. /\ g \in Seq(Byte)
          /\ Len(g) = Len(got) + k
          /\ \A i \in 1 .. Len(got) : g[i] = got[i]
          /\ \A i \in 1 .. k : g[Len(got) + i] = buf[off + i]
      BY ONLY <2>2, <3>1, Joined
    <3> HIDE DEF g
    <3>3. got' = g
      BY <2>2 DEF g
    <3> QED
      BY <3>2, <3>3
  <2>4. UNCHANGED <<lens, size, pos, buf, phase, faults>> /\ phase = "reading"
    BY <1>1 DEF Consume
  <2>5. TypeOK'
    <3>1. off' \in Nat /\ off' =< Len(buf')
      <4>1. off' = off + k /\ off + k =< Len(buf) /\ buf' = buf
        BY <2>2, <2>4
      <4> QED
        BY <4>1, <1>0
    <3> QED
      BY <2>3, <2>4, <3>1 DEF TypeOK
  <2>6. GotInv'
    <3>1. Len(got') = pos' - Len(buf') + off'
      <4>1. Len(got) = pos - Len(buf) + off
        BY DEF GotInv
      <4>2. Len(got') = Len(got) + k /\ off' = off + k /\ pos' = pos /\ buf' = buf
        BY <2>2, <2>3, <2>4
      <4> QED
        BY <4>1, <4>2, <1>0
    <3>2. ASSUME NEW i \in 1 .. Len(got')
          PROVE  got'[i].at = i - 1
      <4>1. CASE i =< Len(got)
        BY <4>1, <2>3, <1>0 DEF GotInv
      <4>2. CASE i > Len(got)
        <5>1. PICK j \in 1 .. k : i = Len(got) + j
          <6>1. i \in 1 .. Len(got) + k /\ Len(got) \in Nat
            BY <2>3, <1>0
          <6>2. i - Len(got) \in 1 .. k /\ i = Len(got) + (i - Len(got))
            BY <6>1, <4>2
          <6> QED
            BY <6>2
        <5>2. got'[i] = buf[off + j] /\ off + j \in 1 .. Len(buf)
          <6>1. got'[Len(got) + j] = buf[off + j]
            BY <5>1, <2>3
          <6>2. off + k =< Len(buf)
            BY <2>2
          <6>3. off + j \in 1 .. Len(buf)
            BY <6>2, <1>0
          <6> QED
            BY <5>1, <6>1, <6>3
        <5>3. buf[off + j].at = pos - Len(buf) + (off + j) - 1
          BY <5>2 DEF BufInv
        <5>4. Len(got) = pos - Len(buf) + off
          BY DEF GotInv
        <5> QED
          BY <5>1, <5>2, <5>3, <5>4, <1>0
      <4> QED
        BY <4>1, <4>2, <1>0
    <3> QED
      BY <3>1, <3>2 DEF GotInv
  <2>7. LastInv'
    <3>1. got'[Len(got')] = buf[off + k]
      BY <2>3, <1>0
    <3>2. got' # <<>>
      BY <2>3, <1>0
    <3> QED
      BY <3>1, <3>2, <2>2, <2>4 DEF LastInv
  <2>8. BufInv' /\ SizeInv' /\ ProbeInv' /\ EndInv' /\ CauseInv'
    BY <2>4 DEF BufInv, SizeInv, ProbeInv, EndInv, EndsWithAVersion, WholeObject,
                CauseInv, FailsForCause, Current, Version
  <2> QED
    BY <2>5, <2>6, <2>7, <2>8
<1>2. CASE AtEnd
  <2>1. /\ off = Len(buf) /\ pos = size /\ buf # <<>> /\ size = lens[buf[Len(buf)].ver]
        /\ UNCHANGED <<lens, size, pos, buf, off, got, faults>>
        /\ phase = "reading" /\ phase' = "eof"
    BY <1>0, <1>2 DEF AtEnd, Spent, KnownEnd, TypeOK, SizeInv, reader
  <2>2. EndInv'
    <3>1. Len(buf) \in 1 .. Len(buf) /\ Len(buf) > 0
      BY <2>1, <1>0, EmptySeq DEF TypeOK
    <3>2. buf[Len(buf)].ver \in 1 .. Len(lens)
      BY <3>1 DEF BufInv
    <3>3. Len(got) = lens[buf[Len(buf)].ver] /\ Last(got) = buf[Len(buf)]
      BY <2>1, <3>1, <1>0 DEF GotInv, LastInv, Last
    <3>4. \E v \in Last(got).ver .. Len(lens) : lens[v] =< Len(got)
      BY <3>2, <3>3, <1>0
    <3>5. Len(lens) = 1 => Len(got) = lens[1]
      BY <3>2, <3>3
    <3> QED
      BY <2>1, <3>4, <3>5 DEF EndInv, EndsWithAVersion, WholeObject
  <2>3. TypeOK' /\ GotInv' /\ BufInv' /\ SizeInv' /\ LastInv' /\ ProbeInv' /\ CauseInv'
    BY <2>1 DEF TypeOK, GotInv, BufInv, SizeInv, LastInv, ProbeInv, CauseInv,
                FailsForCause
  <2> QED
    BY <2>2, <2>3
<1>3. CASE Fetch
  <2>1. PICK k \in 1 .. Least(RangeEnd, Current) - pos :
            buf' = Body(pos, k) /\ pos' = pos + k
    BY <1>3 DEF Fetch
  <2>2. /\ pos < Current /\ off = Len(buf) /\ phase = "reading"
        /\ UNCHANGED <<lens, got, phase, faults>>
        /\ off' = 0 /\ size' = Current
    BY <1>3, <1>0 DEF Fetch, Asking, Spent, TypeOK
  <2>3. RangeEnd \in Int
    BY <1>0, ChunkAssumption DEF RangeEnd, Least, TypeOK, Unknown
  <2>4. k \in Nat \ {0} /\ pos + k =< Current
    BY <2>3, <1>0 DEF Least
  <2>5. /\ buf' \in Seq(Byte) /\ Len(buf') = k /\ buf' # <<>>
        /\ \A j \in 1 .. k : buf'[j].at = pos + j - 1 /\ buf'[j].ver = Len(lens)
    <3>1. k \in Nat /\ pos \in Nat /\ lens \in Seq(Lengths) /\ Len(lens) > 0
      BY <2>4, <1>0 DEF TypeOK
    <3>2. /\ Body(pos, k) \in Seq(Byte) /\ Len(Body(pos, k)) = k
          /\ \A j \in 1 .. k : /\ Body(pos, k)[j].at = pos + j - 1
                               /\ Body(pos, k)[j].ver = Len(lens)
      BY <3>1, BodyIsChunk
    <3>3. Len(Body(pos, k)) # 0 /\ Len(<<>>) = 0
      BY <3>2, <2>4, EmptySeq
    <3> QED
      BY <2>1, <3>2, <3>3
  <2>6. TypeOK'
    BY <2>1, <2>2, <2>4, <2>5, <1>0 DEF TypeOK
  <2>7. GotInv'
    BY <2>1, <2>2, <2>4, <2>5, <1>0 DEF GotInv
  <2>8. BufInv'
    BY <2>1, <2>2, <2>4, <2>5, <1>0 DEF BufInv
  <2>9. SizeInv'
    <3>1. Current # Unknown
      BY <1>0 DEF Unknown
    <3>2. size' = lens'[buf'[Len(buf')].ver]
      BY <2>2, <2>4, <2>5 DEF Current, Version
    <3> QED
      BY <3>1, <3>2, <2>1, <2>2, <2>4, <2>5 DEF SizeInv
  <2>10. LastInv' /\ ProbeInv' /\ EndInv' /\ CauseInv'
    BY <2>2 DEF LastInv, ProbeInv, EndInv, EndsWithAVersion, WholeObject, CauseInv,
                FailsForCause
  <2> QED
    BY <2>6, <2>7, <2>8, <2>9, <2>10
<1>4. CASE FetchEmpty
  <2>1. /\ pos >= Current /\ off = Len(buf) /\ off' = 0 /\ size' = Current
        /\ buf' = <<>> /\ phase = "reading" /\ phase' = "eof"
        /\ UNCHANGED <<lens, pos, got, faults>>
        /\ size = Unknown \/ pos < size
    BY <1>4, <1>0 DEF FetchEmpty, Asking, Spent, KnownEnd, TypeOK
  <2>2. Len(got) = pos
    BY <2>1, <1>0 DEF GotInv
  <2>3. EndsWithAVersion'
    <3> SUFFICES ASSUME got # <<>>
                 PROVE  \E v \in Last(got).ver .. Len(lens) : lens[v] =< Len(got)
      BY <2>1 DEF EndsWithAVersion
    <3>1. pos > 0
      BY <2>2, <1>0, EmptySeq DEF TypeOK
    <3>2. buf # <<>>
      BY <3>1, <2>1 DEF SizeInv
    <3>3. off \in 1 .. Len(buf)
      BY <3>2, <2>1, <1>0, EmptySeq DEF TypeOK
    <3>4. Last(got) = buf[off] /\ buf[off].ver \in 1 .. Len(lens)
      BY <3>3 DEF LastInv, BufInv, Last
    <3>5. Len(lens) \in Last(got).ver .. Len(lens) /\ lens[Len(lens)] =< Len(got)
      BY <3>4, <2>1, <2>2, <1>0 DEF Current, Version
    <3> QED
      BY <3>5
  <2>4. WholeObject'
    <3> SUFFICES ASSUME Len(lens) = 1 PROVE Len(got) = lens[1]
      BY <2>1 DEF WholeObject
    <3>1. Current = lens[1]
      BY DEF Current, Version
    <3>2. CASE size = Unknown
      BY <3>1, <3>2, <2>1, <2>2, <1>0 DEF SizeInv
    <3>3. CASE size # Unknown
      <4>1. pos < size /\ buf # <<>> /\ size = lens[buf[Len(buf)].ver]
        BY <3>3, <2>1 DEF SizeInv
      <4>2. Len(buf) \in 1 .. Len(buf)
        BY <4>1, <1>0, EmptySeq DEF TypeOK
      <4>3. buf[Len(buf)].ver = 1
        BY <4>2 DEF BufInv
      <4> QED
        BY <4>1, <4>3, <3>1, <2>1, <1>0
    <3> QED
      BY <3>2, <3>3
  <2>5. TypeOK' /\ CauseInv'
    <3>1. size' \in Nat
      BY <2>1, <1>0
    <3>2. buf' \in Seq(Byte) /\ off' =< Len(buf')
      BY <2>1, EmptySeq
    <3> QED
      BY <2>1, <3>1, <3>2 DEF TypeOK, CauseInv, FailsForCause
  <2>6. GotInv' /\ BufInv' /\ LastInv'
    <3>1. Len(buf') = 0
      BY <2>1, EmptySeq
    <3> QED
      BY <2>1, <2>2, <3>1, <1>0 DEF GotInv, BufInv, LastInv
  <2>7. SizeInv' /\ ProbeInv'
    BY <2>1, <1>0 DEF SizeInv, ProbeInv, Unknown
  <2> QED
    BY <2>3, <2>4, <2>5, <2>6, <2>7 DEF EndInv
<1>5. CASE FetchFails
  <2>1. UNCHANGED <<lens, size, pos, buf, off, got>> /\ phase = "reading"
    BY <1>5 DEF FetchFails, Asking, reader
  <2>2. phase' = IF size = Unknown THEN "probing" ELSE "failed"
    BY <1>5 DEF FetchFails
  <2>3. faults' \in 0 .. MaxFaults
        /\ (faults' > 0 \/ (pos >= Current /\ faults' = faults))
    BY <1>5, BoundsAssumption DEF FetchFails, TypeOK
  <2>4. TypeOK'
    BY <2>1, <2>2, <2>3 DEF TypeOK
  <2>5. GotInv' /\ BufInv' /\ LastInv'
    BY <2>1 DEF GotInv, BufInv, LastInv
  <2>6. SizeInv' /\ ProbeInv' /\ EndInv'
    BY <2>1, <2>2 DEF SizeInv, ProbeInv, EndInv, EndsWithAVersion, WholeObject
  <2>7. CauseInv'
    <3>1. CASE faults' > 0
      BY <3>1 DEF CauseInv, FailsForCause
    <3>2. CASE pos >= Current /\ Len(lens) > 1
      BY <3>2, <2>1 DEF CauseInv, FailsForCause
    <3>3. CASE pos >= Current /\ Len(lens) = 1
      <4>1. CASE size = Unknown
        <5>1. Current = 0
          BY <4>1, <3>3, <1>0 DEF SizeInv
        <5> QED
          BY <4>1, <5>1, <2>1, <2>2 DEF CauseInv, FailsForCause, Current, Version
      <4>2. CASE size # Unknown
        <5>1. pos < size /\ size = lens[buf[Len(buf)].ver] /\ buf # <<>>
          BY <4>2, <1>5, <2>1, <1>0 DEF FetchFails, Asking, KnownEnd, SizeInv, TypeOK
        <5>2. Len(buf) \in 1 .. Len(buf)
          BY <5>1, <1>0, EmptySeq DEF TypeOK
        <5>3. buf[Len(buf)].ver = 1
          BY <5>2, <3>3 DEF BufInv
        <5> QED
          BY <5>1, <5>3, <3>3, <1>0 DEF Current, Version
      <4> QED
        BY <4>1, <4>2
    <3>4. faults' > 0 \/ (pos >= Current /\ (Len(lens) > 1 \/ Len(lens) = 1))
      <4>1. \A n \in Nat \ {0} : n > 1 \/ n = 1
        OBVIOUS
      <4>2. Len(lens) > 1 \/ Len(lens) = 1
        BY <1>0, <4>1, Zenon
      <4> QED
        BY <2>3, <4>2, Zenon
    <3> QED
      BY <3>1, <3>2, <3>3, <3>4
  <2> QED
    BY <2>4, <2>5, <2>6, <2>7
<1>6. CASE ProbeEmpty
  <2>1. /\ UNCHANGED <<lens, pos, buf, off, got, faults>>
        /\ Current = 0 /\ size' = 0 /\ phase' = "eof"
        /\ pos = 0 /\ buf = <<>> /\ off = 0
    BY <1>6, <1>0 DEF ProbeEmpty, ProbeInv, SizeInv, TypeOK
  <2>2. TypeOK' /\ CauseInv'
    BY <2>1 DEF TypeOK, CauseInv, FailsForCause
  <2>3. GotInv' /\ BufInv' /\ LastInv'
    BY <2>1 DEF GotInv, BufInv, LastInv
  <2>4. SizeInv' /\ ProbeInv'
    BY <2>1 DEF SizeInv, ProbeInv, Unknown
  <2>5. EndInv'
    <3>1. Len(got) = 0
      <4>1. Len(buf) = 0
        BY <2>1, EmptySeq
      <4>2. pos = 0 /\ off = 0
        BY <2>1
      <4>3. Len(got) = pos - Len(buf) + off
        BY DEF GotInv
      <4> QED
        BY <4>1, <4>2, <4>3
    <3>2. got = <<>>
      BY <3>1, EmptySeq DEF TypeOK
    <3> QED
      BY <2>1, <3>1, <3>2 DEF EndInv, EndsWithAVersion, WholeObject, Current, Version
  <2> QED
    BY <2>2, <2>3, <2>4, <2>5
<1>7. CASE ProbeFails
  <2>1. UNCHANGED <<lens, size, pos, buf, off, got>> /\ phase' = "failed"
    BY <1>7 DEF ProbeFails, reader
  <2>2. faults' \in 0 .. MaxFaults /\ (faults' > 0 \/ (Current > 0 /\ faults' = faults))
    BY <1>7, BoundsAssumption DEF ProbeFails, TypeOK
  <2>3. CauseInv'
    BY <1>7, <2>1, <2>2, <1>0 DEF CauseInv, FailsForCause, ProbeFails
  <2>4. GotInv' /\ BufInv' /\ LastInv'
    BY <2>1 DEF GotInv, BufInv, LastInv
  <2>5. SizeInv'
    BY <2>1, <1>7 DEF SizeInv, ProbeFails, ProbeInv
  <2>6. TypeOK' /\ ProbeInv' /\ EndInv'
    BY <2>1, <2>2 DEF TypeOK, ProbeInv, EndInv, EndsWithAVersion, WholeObject
  <2> QED
    BY <2>3, <2>4, <2>5, <2>6
<1>8. CASE Replace
  <2>1. PICK n \in Lengths : lens' = Append(lens, n)
    BY <1>8 DEF Replace
  <2>2. /\ lens' \in Seq(Lengths) /\ Len(lens') = Len(lens) + 1
        /\ \A v \in 1 .. Len(lens) : lens'[v] = lens[v]
    BY <2>1, AppendProperties DEF TypeOK
  <2>3. /\ UNCHANGED <<size, pos, buf, off, got, phase, faults>>
        /\ phase \in {"reading", "probing"}
        /\ Len(lens) =< MaxReplaced
    BY <1>8 DEF Replace, reader
  <2>4. TypeOK'
    BY <2>2, <2>3, <1>0, BoundsAssumption DEF TypeOK
  <2>5. GotInv' /\ LastInv' /\ ProbeInv' /\ EndInv'
    BY <2>3 DEF GotInv, LastInv, ProbeInv, EndInv, EndsWithAVersion, WholeObject
  <2>6. BufInv'
    <3> SUFFICES ASSUME NEW j \in 1 .. Len(buf)
                 PROVE  /\ buf[j].at = pos - Len(buf) + j - 1
                        /\ buf[j].ver \in 1 .. Len(lens')
      BY <2>3 DEF BufInv
    <3>1. buf[j].at = pos - Len(buf) + j - 1 /\ buf[j].ver \in 1 .. Len(lens)
      BY DEF BufInv
    <3> QED
      BY <3>1, <2>2, <1>0
  <2>7. SizeInv'
    <3>1. CASE buf = <<>>
      BY <3>1, <2>3 DEF SizeInv
    <3>2. CASE buf # <<>>
      <4>1. Len(buf) \in 1 .. Len(buf)
        BY <3>2, <1>0, EmptySeq DEF TypeOK
      <4>2. buf[Len(buf)].ver \in 1 .. Len(lens)
        BY <4>1 DEF BufInv
      <4> QED
        BY <3>2, <4>2, <2>2, <2>3 DEF SizeInv
    <3> QED
      BY <3>1, <3>2
  <2>8. CauseInv'
    BY <2>2, <2>3, <1>0 DEF CauseInv, FailsForCause
  <2> QED
    BY <2>4, <2>5, <2>6, <2>7, <2>8
<1>9. CASE UNCHANGED vars
  BY <1>9 DEF vars, reader, TypeOK, GotInv, BufInv, SizeInv, LastInv, ProbeInv,
              EndInv, EndsWithAVersion, WholeObject, CauseInv, FailsForCause,
              Current, Version
<1> QED
  BY <1>1, <1>2, <1>3, <1>4, <1>5, <1>6, <1>7, <1>8, <1>9 DEF Next, Read, Over

LEMMA Invariance == Spec => []IInv
<1> QED
  BY InitInv, NextInv, PTL DEF Spec

-----------------------------------------------------------------------------
(* Every state of the reader is well typed: in particular the place in the *)
(* chunk never runs past its end.                                          *)
THEOREM TypeCorrect == Spec => []TypeOK
<1>1. IInv => TypeOK
  BY DEF IInv
<1> QED
  BY <1>1, Invariance, PTL

(* `read` returns the bytes of successive offsets, whatever the bodies and *)
(* the callers' buffers.                                                   *)
THEOREM BytesInOrder == Spec => []Contiguous
<1>1. IInv => Contiguous
  <2> SUFFICES ASSUME IInv, NEW i \in 1 .. Len(got \o Ahead)
               PROVE  (got \o Ahead)[i].at = i - 1
    BY DEF Contiguous
  <2>1. /\ got \in Seq(Byte) /\ buf \in Seq(Byte) /\ Len(got) \in Nat /\ Len(buf) \in Nat
        /\ off \in Nat /\ off =< Len(buf) /\ pos \in Nat
    BY LenProperties DEF IInv, TypeOK
  <2>2. CASE off = Len(buf)
    <3>1. Ahead = <<>>
      BY <2>1, <2>2, SubSeqProperties DEF Ahead
    <3>2. got \o Ahead = got
      BY <3>1, <2>1, ConcatEmptySeq
    <3> QED
      BY <3>2 DEF IInv, GotInv
  <2>3. CASE off < Len(buf)
    <3> DEFINE k == Len(buf) - off
    <3>1. k \in Nat \ {0} /\ off + k = Len(buf)
      BY <2>1, <2>3
    <3>2. Ahead = SubSeq(buf, off + 1, off + k)
      BY <3>1 DEF Ahead
    <3> HIDE DEF k
    <3>3. /\ Len(got \o Ahead) = Len(got) + k
          /\ \A j \in 1 .. Len(got) : (got \o Ahead)[j] = got[j]
          /\ \A j \in 1 .. k : (got \o Ahead)[Len(got) + j] = buf[off + j]
      <4>1. /\ got \in Seq(Byte) /\ buf \in Seq(Byte) /\ off \in Nat
            /\ k \in Nat \ {0} /\ off + k =< Len(buf)
        BY <3>1, <2>1
      <4>2. /\ Len(got \o SubSeq(buf, off + 1, off + k)) = Len(got) + k
            /\ \A j \in 1 .. Len(got) : (got \o SubSeq(buf, off + 1, off + k))[j] = got[j]
            /\ \A j \in 1 .. k :
                  (got \o SubSeq(buf, off + 1, off + k))[Len(got) + j] = buf[off + j]
        BY <4>1, Joined
      <4> QED
        BY <3>2, <4>2
    <3>4. CASE i =< Len(got)
      BY <3>4, <3>3, <2>1 DEF IInv, GotInv
    <3>5. CASE i > Len(got)
      <4>1. PICK j \in 1 .. k : i = Len(got) + j
        <5>1. i \in 1 .. Len(got) + k
          BY <3>3
        <5>2. i - Len(got) \in 1 .. k /\ i = Len(got) + (i - Len(got))
          BY <5>1, <3>5, <3>1, <2>1
        <5> QED
          BY <5>2
      <4>2. (got \o Ahead)[i] = buf[off + j] /\ off + j \in 1 .. Len(buf)
        BY <4>1, <3>3, <3>1, <2>1
      <4> QED
        BY <4>1, <4>2, <2>1 DEF IInv, BufInv, GotInv
    <3> QED
      BY <3>4, <3>5, <3>3, <3>1, <2>1
  <2> QED
    BY <2>1, <2>2, <2>3
<1> QED
  BY <1>1, Invariance, PTL

(* An end of file is reported only where a version ends: the one that      *)
(* served the last byte, or a later one that is no longer than what was    *)
(* read.                                                                   *)
THEOREM NeverCut == Spec => []EndsWithAVersion
<1>1. IInv => EndsWithAVersion
  BY DEF IInv, EndInv
<1> QED
  BY <1>1, Invariance, PTL

(* An object that is not replaced has been returned whole at its end of    *)
(* file.                                                                   *)
THEOREM ObjectIsWhole == Spec => []WholeObject
<1>1. IInv => WholeObject
  BY DEF IInv, EndInv
<1> QED
  BY <1>1, Invariance, PTL

(* A stable object in a store that serves every request is read without an *)
(* error.                                                                  *)
THEOREM NoSpuriousFailure == Spec => []FailsForCause
<1>1. IInv => FailsForCause
  BY DEF IInv, CauseInv
<1> QED
  BY <1>1, Invariance, PTL
=============================================================================
