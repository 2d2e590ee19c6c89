------------------------ MODULE StreamingScanProofs ------------------------
(***************************************************************************)
(* Proofs about StreamingScan, for every set of objects, every listing,    *)
(* every batch size and every number of changes, faults and lost pages:    *)
(* first its invariants, then that it implements ScanSpec.                 *)
(*                                                                         *)
(* The inductive invariant relates the two positions of the system to the  *)
(* rows: (idx, seen) is where Out ends while a producer is live, and the   *)
(* token is where delivered ends.  Order, absence of gaps and completeness *)
(* all follow from that; none of them is inductive without it, since a     *)
(* step appends at the position and not at the end of the sequence.        *)
(***************************************************************************)
EXTENDS StreamingScan, Induction

Live == phase \in {"idle", "batching"}

(* The rows of s run up to record k of source i and end with it. *)
EndsAt(s, i, k) ==
    /\ \A n \in 1 .. Len(s) :
          s[n].src < i \/ (s[n].src = i /\ s[n].rec =< k)
    /\ k > 0 => /\ Len(s) > 0
                /\ s[Len(s)].src = i
                /\ s[Len(s)].rec = k
    /\ \A m \in 1 .. k : Has(s, i, m)

Whole(l, s, j) ==
    /\ j < Len(l)
    /\ Intact(l[j + 1])
    /\ \A m \in 1 .. Records[l[j + 1]] : Has(s, j, m)

(* The rows s hold all of the sources of listing l before i, and what      *)
(* precedes record k + 1 of source i is free of defects.                   *)
Covers(l, s, i, k) ==
    /\ \A j \in 0 .. i - 1 : Whole(l, s, j)
    /\ k > 0 => i < Len(l) /\ l[i + 1] \notin Unreadable
    /\ \A m \in 1 .. k : m \notin Undecodable[l[i + 1]]

Resumable == phase \in {"idle", "batching", "down"}

RowsInv     == Ordered(Out) /\ Gapless(Out)
PositionInv == Live => EndsAt(Out, idx, seen)
StreamInv   == Live /\ open => at = seen /\ Source \notin Unreadable
TokenInv    == Resumable => EndsAt(delivered, token.idx, token.seen)
EmptyInv    == /\ ~Live => page = <<>> /\ rows = <<>>
               /\ phase = "idle" => rows = <<>>
CoverInv    == Undisturbed =>
                  /\ Live => Covers(sources, Out, idx, seen)
                  /\ Resumable => Covers(sources, delivered, token.idx, token.seen)
                  /\ phase = "done" =>
                        \A j \in 0 .. Len(sources) - 1 : Whole(sources, delivered, j)

IInv == RowsInv /\ PositionInv /\ StreamInv /\ TokenInv /\ EmptyInv /\ CoverInv

-----------------------------------------------------------------------------
(* Sequences of rows. *)

LEMMA RowFields ==
    ASSUME NEW s \in Seq(Row), NEW n \in 1 .. Len(s)
    PROVE  s[n] \in Row /\ s[n].src \in Nat /\ s[n].rec \in Nat \ {0}
<1>1. s[n] \in Row
  BY ElementOfSeq
<1> QED
  BY <1>1 DEF Row

(* An initial segment of ordered, gapless rows is ordered and gapless.     *)
LEMMA PrefixOfRows ==
    ASSUME NEW s \in Seq(Row), NEW t \in Seq(Row)
    PROVE  /\ Ordered(s \o t) => Ordered(s)
           /\ Gapless(s \o t) => Gapless(s)
<1> DEFINE u == s \o t
<1>1. /\ Len(u) = Len(s) + Len(t)
      /\ \A i \in 1 .. Len(s) : u[i] = s[i]
      /\ Len(s) \in Nat /\ Len(t) \in Nat
  BY ConcatProperties, LenProperties
<1> HIDE DEF u
<1>2. ASSUME Ordered(u) PROVE Ordered(s)
  BY <1>1, <1>2 DEF Ordered
<1>3. ASSUME Gapless(u) PROVE Gapless(s)
  <2>1. ASSUME NEW n \in 1 .. Len(s), s[n].rec > 1
        PROVE  n > 1 /\ s[n - 1].src = s[n].src /\ s[n - 1].rec = s[n].rec - 1
    <3>1. n \in 1 .. Len(u) /\ u[n] = s[n]
      BY <1>1
    <3>2. n > 1 /\ u[n - 1].src = u[n].src /\ u[n - 1].rec = u[n].rec - 1
      BY <1>3, <2>1, <3>1 DEF Gapless
    <3>3. n - 1 \in 1 .. Len(s)
      BY <3>2, <1>1
    <3> QED
      BY <3>1, <3>2, <3>3, <1>1
  <2> QED
    BY <2>1 DEF Gapless
<1> QED
  BY <1>2, <1>3 DEF u

(* Appending the record after the one the rows end at keeps the order and  *)
(* leaves no gap, and the rows then end at that record.                    *)
LEMMA NextRow ==
    ASSUME NEW s \in Seq(Row), NEW i \in Nat, NEW k \in Nat, NEW o \in Objects,
           Ordered(s), Gapless(s), EndsAt(s, i, k)
    PROVE  LET t == Append(s, [src |-> i, rec |-> k + 1, obj |-> o])
           IN  /\ Ordered(t) /\ Gapless(t)
               /\ EndsAt(t, i, k + 1)
               /\ \A j, m : Has(s, j, m) => Has(t, j, m)
<1> DEFINE r == [src |-> i, rec |-> k + 1, obj |-> o]
           t == Append(s, r)
<1>1. /\ Len(s) \in Nat /\ Len(t) = Len(s) + 1
      /\ \A n \in 1 .. Len(s) : t[n] = s[n]
      /\ t[Len(s) + 1] = r
  BY LenProperties, AppendProperties DEF Row
<1>2. r.src = i /\ r.rec = k + 1
  OBVIOUS
<1>3. \A n \in 1 .. Len(s) : s[n].src \in Nat /\ s[n].rec \in Nat
  BY RowFields
<1> HIDE DEF t, r
<1>4. Ordered(t)
  <2> SUFFICES ASSUME NEW m \in 1 .. Len(t), NEW n \in 1 .. Len(t), m < n
               PROVE  Precedes(t[m], t[n])
    BY DEF Ordered
  <2>1. CASE n =< Len(s)
    BY <2>1, <1>1 DEF Ordered
  <2>2. CASE n = Len(s) + 1
    <3>1. m \in 1 .. Len(s)
      BY <2>2, <1>1
    <3>2. s[m].src < i \/ (s[m].src = i /\ s[m].rec =< k)
      BY <3>1 DEF EndsAt
    <3> QED
      BY <2>2, <3>1, <3>2, <1>1, <1>2, <1>3 DEF Precedes
  <2> QED
    BY <2>1, <2>2, <1>1
<1>5. Gapless(t)
  <2> SUFFICES ASSUME NEW n \in 1 .. Len(t), t[n].rec > 1
               PROVE  n > 1 /\ t[n - 1].src = t[n].src /\ t[n - 1].rec = t[n].rec - 1
    BY DEF Gapless
  <2>1. CASE n =< Len(s)
    <3>1. n \in 1 .. Len(s) /\ t[n] = s[n]
      BY <2>1, <1>1
    <3>2. n > 1 /\ s[n - 1].src = s[n].src /\ s[n - 1].rec = s[n].rec - 1
      BY <3>1 DEF Gapless
    <3>3. t[n - 1] = s[n - 1]
      BY <3>1, <3>2, <1>1
    <3> QED
      BY <3>1, <3>2, <3>3
  <2>2. CASE n = Len(s) + 1
    <3>1. k > 0
      BY <2>2, <1>1, <1>2
    <3>2. Len(s) > 0 /\ s[Len(s)].src = i /\ s[Len(s)].rec = k
      BY <3>1 DEF EndsAt
    <3>3. n - 1 = Len(s) /\ t[n - 1] = s[Len(s)]
      BY <2>2, <3>2, <1>1
    <3> QED
      BY <2>2, <3>2, <3>3, <1>1, <1>2
  <2> QED
    BY <2>1, <2>2, <1>1
<1>6. \A j, m : Has(s, j, m) => Has(t, j, m)
  BY <1>1 DEF Has
<1>7. EndsAt(t, i, k + 1)
  <2>1. \A n \in 1 .. Len(t) : t[n].src < i \/ (t[n].src = i /\ t[n].rec =< k + 1)
    <3> SUFFICES ASSUME NEW n \in 1 .. Len(t)
                 PROVE  t[n].src < i \/ (t[n].src = i /\ t[n].rec =< k + 1)
      OBVIOUS
    <3>1. CASE n \in 1 .. Len(s)
      BY <3>1, <1>1, <1>3 DEF EndsAt
    <3>2. CASE n = Len(s) + 1
      BY <3>2, <1>1, <1>2
    <3> QED
      BY <3>1, <3>2, <1>1
  <2>2. Len(t) > 0 /\ t[Len(t)].src = i /\ t[Len(t)].rec = k + 1
    BY <1>1, <1>2
  <2>3. ASSUME NEW m \in 1 .. k + 1 PROVE Has(t, i, m)
    <3>1. CASE m =< k
      BY <3>1, <1>6 DEF EndsAt
    <3>2. CASE m = k + 1
      BY <3>2, <1>1, <1>2 DEF Has
    <3> QED
      BY <3>1, <3>2
  <2> QED
    BY <2>1, <2>2, <2>3 DEF EndsAt
<1> QED
  BY <1>4, <1>5, <1>6, <1>7 DEF t, r

(* Rows that end at record k of source i end just before source i + 1.     *)
LEMMA NextSource ==
    ASSUME NEW s \in Seq(Row), NEW i \in Nat, NEW k \in Nat, EndsAt(s, i, k)
    PROVE  EndsAt(s, i + 1, 0)
<1>1. \A n \in 1 .. Len(s) : s[n].src \in Nat /\ s[n].rec \in Nat
  BY RowFields
<1> QED
  BY <1>1 DEF EndsAt

-----------------------------------------------------------------------------
(* Type correctness. *)

(* An open stream reads a source of the listing. *)
OpenInListing == Live /\ open => idx < Len(sources)

LEMMA TypeAndRange == Spec => [](TypeOK /\ OpenInListing)
<1> USE ListingsAssumption, BoundsAssumption
<1>1. Init => TypeOK /\ OpenInListing
  <2>1. <<>> \in Seq(Row)
    BY EmptySeq
  <2>2. Init => sources \in Seq(Objects)
    BY DEF Init
  <2>3. Init => OpenInListing
    BY DEF Init, OpenInListing
  <2>4. Init => open \in BOOLEAN
    BY DEF Init
  <2> QED
    BY <2>1, <2>2, <2>3, <2>4 DEF Init, TypeOK, Phases, Token
<1>2. TypeOK /\ OpenInListing /\ [Next]_vars => (TypeOK /\ OpenInListing)'
  <2> SUFFICES ASSUME TypeOK, OpenInListing, [Next]_vars
               PROVE  TypeOK' /\ OpenInListing'
    OBVIOUS
  <2> USE DEF TypeOK, OpenInListing, Live, Phases, Token, producer, client, budget
  <2>1. /\ page \o rows \in Seq(Row)
        /\ delivered \o page \in Seq(Row)
        /\ <<>> \in Seq(Row)
    BY ConcatProperties, EmptySeq
  <2>0. Fail => /\ rows' \in Seq(Row) /\ page' \in Seq(Row)
                /\ delivered' \in Seq(Row)
                /\ phase' = "failed" /\ token' = token
    BY <2>1 DEF Fail
  <2>2. CASE NextBatch
    BY <2>1, <2>2 DEF NextBatch
  <2>3. CASE OpenSource
    BY <2>3 DEF OpenSource, Room
  <2>4. CASE OpenFails
    BY <2>0, <2>4 DEF OpenFails, Room
  <2>5. CASE TakeRecord
    <3>1. idx + 1 \in 1 .. Len(sources)
      BY <2>5, LenProperties DEF TakeRecord, Room
    <3>2. Source \in Objects
      BY <3>1, ElementOfSeq DEF Source
    <3>3. [src |-> idx, rec |-> at + 1, obj |-> Source] \in Row
      BY <3>2 DEF Row
    <3>4. rows' \in Seq(Row)
      BY <2>5, <3>3, AppendProperties DEF TakeRecord
    <3> QED
      BY <2>5, <3>4 DEF TakeRecord, Room
  <2>6. CASE TakeFails
    BY <2>0, <2>6 DEF TakeFails, Room
  <2>7. CASE Drained
    <3>1. OpenInListing' /\ open' \in BOOLEAN
      BY <2>7 DEF Drained
    <3> QED
      BY <2>7, <3>1 DEF Drained, Room
  <2>8. CASE EmitBatch
    BY <2>1, <2>8 DEF EmitBatch, LeaveLoop
  <2>9. CASE EndOfScan
    BY <2>1, <2>9 DEF EndOfScan, LeaveLoop
  <2>10. CASE SendPage
    BY <2>1, <2>10 DEF SendPage
  <2>11. CASE Resume
    BY <2>11 DEF Resume
  <2>12. CASE LosePage
    BY <2>1, <2>12 DEF LosePage
  <2>13. CASE IoFault
    BY <2>0, <2>13 DEF IoFault, Room
  <2>18. CASE ResolveFails
    BY <2>0, <2>18 DEF ResolveFails
  <2>14. CASE Overwrite
    <3>1. PICK i \in 1 .. Len(sources), o \in Objects :
             sources' = [sources EXCEPT ![i] = o]
      BY <2>14 DEF Overwrite
    <3>2. sources' \in Seq(Objects) /\ Len(sources') = Len(sources)
      BY <3>1, ExceptSeq
    <3> QED
      BY <2>14, <3>2 DEF Overwrite
  <2>15. CASE Relist
    BY <2>15 DEF Relist
  <2>16. CASE Over
    BY <2>16 DEF Over, vars
  <2>17. CASE UNCHANGED vars
    BY <2>17 DEF vars
  <2> QED
    BY <2>2, <2>3, <2>4, <2>5, <2>6, <2>7, <2>8, <2>9, <2>10, <2>11, <2>12,
       <2>13, <2>14, <2>15, <2>16, <2>17, <2>18
       DEF Next, Scan, Transport, Environment
<1> QED
  BY <1>1, <1>2, PTL DEF Spec

(* Every variable of the scan keeps its type. *)
THEOREM TypeCorrect == Spec => []TypeOK
BY TypeAndRange, PTL

-----------------------------------------------------------------------------
(* How the rows and what they cover change in a step. *)

LEMMA Pieces ==
    ASSUME NEW d \in Seq(Row), NEW p \in Seq(Row), NEW r \in Seq(Row)
    PROVE  /\ d \o p \o r \in Seq(Row)
           /\ d \o p \o r = d \o (p \o r)
           /\ d \o p \o <<>> = d \o p
           /\ d \o <<>> \o <<>> = d
           /\ d \o p \in Seq(Row) /\ p \o r \in Seq(Row)
<1>1. d \o p \in Seq(Row) /\ p \o r \in Seq(Row)
  BY ConcatProperties
<1>2. (d \o p) \o r \in Seq(Row)
  BY <1>1, ConcatProperties
<1>3. (d \o p) \o r = d \o (p \o r)
  <2>1. Cat(Cat(d, p), r) = Cat(d, Cat(p, r))
    BY CatAssociative
  <2> QED
    BY <2>1, Zenon DEF Cat
<1>4. (d \o p) \o <<>> = d \o p /\ d \o <<>> = d
  BY <1>1, ConcatEmptySeq
<1> QED
  BY <1>1, <1>2, <1>3, <1>4

(* The rows a client may be left with are an initial segment of Out.       *)
LEMMA ClientRows ==
    ASSUME TypeOK, RowsInv
    PROVE  /\ Ordered(delivered) /\ Gapless(delivered)
           /\ Ordered(delivered \o page) /\ Gapless(delivered \o page)
<1>1. delivered \in Seq(Row) /\ page \in Seq(Row) /\ rows \in Seq(Row)
  BY DEF TypeOK
<1>2. page \o rows \in Seq(Row) /\ delivered \o page \in Seq(Row)
  BY <1>1, Pieces
<1>3. Ordered((delivered \o page) \o rows) /\ Gapless((delivered \o page) \o rows)
  BY DEF RowsInv, Out
<1>4. Ordered(delivered \o (page \o rows)) /\ Gapless(delivered \o (page \o rows))
  <2>1. (delivered \o page) \o rows = delivered \o (page \o rows)
    BY <1>1, Pieces
  <2> QED
    BY <1>3, <2>1
<1>5. Ordered(delivered \o page) /\ Gapless(delivered \o page)
  BY <1>1, <1>2, <1>3, PrefixOfRows
<1>6. Ordered(delivered) /\ Gapless(delivered)
  BY <1>1, <1>2, <1>4, PrefixOfRows
<1> QED
  BY <1>5, <1>6

(* After an error the client is left with an initial segment of Out. *)
LEMMA AfterFailure ==
    ASSUME TypeOK, TypeOK', IInv, Fail
    PROVE  IInv'
<1>1. phase' = "failed" /\ rows' = <<>> /\ page' = <<>>
  BY DEF Fail
<1>2. delivered' = delivered \/ delivered' = delivered \o page
  BY DEF Fail
<1>3. Out' = delivered'
  BY <1>1, Pieces DEF Out, TypeOK
<1>4. Ordered(delivered') /\ Gapless(delivered')
  BY <1>2, ClientRows DEF IInv
<1>5. RowsInv'
  BY <1>3, <1>4 DEF RowsInv, Ordered, Gapless
<1> QED
  BY <1>1, <1>5 DEF IInv, PositionInv, StreamInv, TokenInv, EmptyInv, CoverInv,
                    Live, Resumable

(* Rows that cover up to a record of a source cover up to the next one, if *)
(* that one decodes; at the end of an intact source they cover all of it.  *)
LEMMA CoverNext ==
    ASSUME NEW l, NEW s, NEW t, NEW i \in Nat, NEW k \in Nat,
           Covers(l, s, i, k), \A j, m : Has(s, j, m) => Has(t, j, m),
           i < Len(l), l[i + 1] \notin Unreadable,
           k + 1 \notin Undecodable[l[i + 1]]
    PROVE  Covers(l, t, i, k + 1)
<1>1. \A j \in 0 .. i - 1 : Whole(l, t, j)
  BY DEF Covers, Whole
<1>2. \A m \in 1 .. k + 1 : m \notin Undecodable[l[i + 1]]
  BY DEF Covers
<1> QED
  BY <1>1, <1>2 DEF Covers

LEMMA CoverSource ==
    ASSUME NEW l, NEW s, NEW i \in Nat, NEW k \in Nat,
           Covers(l, s, i, k), EndsAt(s, i, k), i < Len(l),
           k = Records[l[i + 1]],
           l[i + 1] \notin Ragged, l[i + 1] \notin Unreadable
    PROVE  Covers(l, s, i + 1, 0)
<1>1. Intact(l[i + 1])
  BY DEF Intact, Covers
<1>2. Whole(l, s, i)
  BY <1>1 DEF Whole, EndsAt
<1>3. ASSUME NEW j \in 0 .. i PROVE Whole(l, s, j)
  BY <1>2 DEF Covers
<1> QED
  BY <1>3 DEF Covers

-----------------------------------------------------------------------------
(* The inductive invariant. *)

LEMMA InitInv == Init => IInv
<1> SUFFICES ASSUME Init PROVE IInv
  OBVIOUS
<1>1. /\ Out = <<>> /\ delivered = <<>> /\ idx = 0 /\ seen = 0 /\ ~open
      /\ token.idx = 0 /\ token.seen = 0 /\ phase = "idle"
      /\ page = <<>> /\ rows = <<>>
  BY EmptySeq, ConcatEmptySeq DEF Init, Out
<1>2. Len(<<>>) = 0
  BY EmptySeq
<1>3. Ordered(<<>>) /\ Gapless(<<>>) /\ EndsAt(<<>>, 0, 0) /\ Covers(sources, <<>>, 0, 0)
  BY <1>2 DEF Ordered, Gapless, EndsAt, Covers
<1> QED
  BY <1>1, <1>3 DEF IInv, RowsInv, PositionInv, StreamInv, TokenInv, EmptyInv,
                    CoverInv, Live, Resumable

(* A step that leaves rows, positions and token alone. *)
LEMMA Quiet ==
    ASSUME IInv, UNCHANGED <<idx, seen, rows, page, token, delivered>>,
           sources' = sources, Undisturbed' => Undisturbed,
           Live' /\ Live, phase' = "batching",
           open' => at' = seen' /\ Source \notin Unreadable
    PROVE  IInv'
<1>1. Out' = Out
  BY DEF Out
<1> QED
  BY <1>1 DEF IInv, RowsInv, PositionInv, StreamInv, TokenInv, EmptyInv,
              CoverInv, Live, Resumable, Source

(* A record taken is the one after the position, put at the end. *)
LEMMA RowTaken ==
    ASSUME TypeOK, OpenInListing, IInv, TakeRecord
    PROVE  /\ Live /\ Live' /\ phase' = phase /\ phase = "batching" /\ open /\ open'
           /\ at = seen /\ Source \notin Unreadable
           /\ idx < Len(sources) /\ Source \in Objects
           /\ seen' = seen + 1 /\ at' = at + 1 /\ idx' = idx
           /\ UNCHANGED <<sources, page, token, delivered, relists, overwrites>>
           /\ seen + 1 \notin Undecodable[Source]
           /\ Out' = Append(Out, [src |-> idx, rec |-> seen + 1, obj |-> Source])
<1> USE DEF producer, client, budget
<1>0. /\ delivered \in Seq(Row) /\ page \in Seq(Row) /\ rows \in Seq(Row)
      /\ Out \in Seq(Row) /\ idx \in Nat /\ seen \in Nat
  BY Pieces DEF TypeOK, Out
<1> DEFINE r == [src |-> idx, rec |-> seen + 1, obj |-> Source]
<1>1. /\ Live /\ Live' /\ phase' = phase /\ phase = "batching" /\ open /\ open'
      /\ at = seen /\ Source \notin Unreadable
      /\ idx < Len(sources) /\ Source \in Objects
  <2>1. Live /\ phase = "batching" /\ phase' = phase /\ open /\ open' = open
    BY DEF TakeRecord, Room, Live
  <2>2. idx < Len(sources) /\ at = seen /\ Source \notin Unreadable
    BY <2>1 DEF OpenInListing, IInv, StreamInv
  <2>3. idx + 1 \in 1 .. Len(sources) /\ sources \in Seq(Objects)
    BY <2>2, <1>0, LenProperties DEF TypeOK
  <2>4. Source \in Objects
    BY <2>3, ElementOfSeq DEF Source
  <2> QED
    BY <2>1, <2>2, <2>4 DEF Live
<1>2. rows' = Append(rows, r) /\ seen' = seen + 1 /\ at' = at + 1 /\ idx' = idx
      /\ UNCHANGED <<sources, page, token, delivered, relists, overwrites>>
      /\ seen + 1 \notin Undecodable[Source]
  BY <1>1 DEF TakeRecord
<1>3. Out' = Append(Out, r)
  <2>1. r \in Row
    BY <1>0, <1>1 DEF Row
  <2>2. delivered \o page \in Seq(Row)
    BY <1>0, Pieces
  <2>3. Append(rows, r) = rows \o <<r>> /\ Append(Out, r) = Out \o <<r>>
        /\ <<r>> \in Seq(Row)
    BY <1>0, <2>1, AppendIsConcat
  <2>4. ((delivered \o page) \o rows) \o <<r>> = (delivered \o page) \o (rows \o <<r>>)
    <3> DEFINE dp == delivered \o page
               u  == <<r>>
    <3>1. dp \in Seq(Row) /\ rows \in Seq(Row) /\ u \in Seq(Row)
      BY <1>0, <2>2, <2>3
    <3> HIDE DEF dp, u
    <3>2. (dp \o rows) \o u = dp \o (rows \o u)
      <4>1. Cat(Cat(dp, rows), u) = Cat(dp, Cat(rows, u))
        BY <3>1, CatAssociative
      <4> QED
        BY <4>1, Zenon DEF Cat
    <3> QED
      BY <3>2 DEF dp, u
  <2>5. Out' = (delivered \o page) \o Append(rows, r)
    BY <1>2 DEF Out
  <2> QED
    BY <2>3, <2>4, <2>5 DEF Out
<1> QED
  BY <1>1, <1>2, <1>3

LEMMA NextInv == TypeOK /\ TypeOK' /\ OpenInListing /\ IInv /\ [Next]_vars => IInv'
<1> SUFFICES ASSUME TypeOK, TypeOK', OpenInListing, IInv, [Next]_vars
             PROVE  IInv'
  OBVIOUS
<1> USE DEF producer, client, budget
<1>0. /\ delivered \in Seq(Row) /\ page \in Seq(Row) /\ rows \in Seq(Row)
      /\ Out \in Seq(Row) /\ idx \in Nat /\ seen \in Nat
  BY Pieces DEF TypeOK, Out
<1>1. CASE NextBatch
  BY <1>1, Quiet DEF NextBatch, Live, IInv, StreamInv, EmptyInv, Undisturbed, Source
<1>2. CASE OpenSource
  BY <1>2, Quiet DEF OpenSource, Room, Live, Undisturbed
<1>3. CASE OpenFails
  BY <1>3, AfterFailure DEF OpenFails
<1>4. CASE TakeRecord
  <2>1. /\ Live /\ Live' /\ phase' = phase /\ phase = "batching" /\ open /\ open'
        /\ at = seen /\ Source \notin Unreadable
        /\ idx < Len(sources) /\ Source \in Objects
    BY <1>4, RowTaken
  <2>2. /\ seen' = seen + 1 /\ at' = at + 1 /\ idx' = idx
        /\ UNCHANGED <<sources, page, token, delivered, relists, overwrites>>
        /\ seen + 1 \notin Undecodable[Source]
    BY <1>4, RowTaken
  <2>3. Out' = Append(Out, [src |-> idx, rec |-> seen + 1, obj |-> Source])
    BY <1>4, RowTaken
  <2>4. Ordered(Out) /\ Gapless(Out) /\ EndsAt(Out, idx, seen)
    BY <2>1 DEF IInv, RowsInv, PositionInv
  <2>5. /\ Ordered(Out') /\ Gapless(Out') /\ EndsAt(Out', idx, seen + 1)
        /\ \A j, m : Has(Out, j, m) => Has(Out', j, m)
    BY <1>0, <2>1, <2>3, <2>4, NextRow
  <2>6. Undisturbed => Covers(sources, Out', idx, seen + 1)
    <3>1. Undisturbed => Covers(sources, Out, idx, seen)
      BY <2>1 DEF IInv, CoverInv
    <3>2. sources[idx + 1] \notin Unreadable /\ seen + 1 \notin Undecodable[sources[idx + 1]]
      BY <2>1, <2>2 DEF Source
    <3> QED
      BY <1>0, <2>1, <2>5, <3>1, <3>2, CoverNext
  <2>7. Source' = Source /\ (Undisturbed' <=> Undisturbed)
    BY <2>2 DEF Source, Undisturbed
  <2>8. RowsInv' /\ PositionInv'
    BY <2>2, <2>5 DEF RowsInv, PositionInv
  <2>9. StreamInv' /\ EmptyInv' /\ TokenInv'
    BY <2>1, <2>2, <2>7 DEF StreamInv, EmptyInv, TokenInv, Live, Resumable, IInv
  <2>10. CoverInv'
    BY <2>1, <2>2, <2>6, <2>7 DEF CoverInv, Live, Resumable, IInv
  <2> QED
    BY <2>8, <2>9, <2>10 DEF IInv
<1>5. CASE TakeFails
  BY <1>5, AfterFailure DEF TakeFails
<1>6. CASE Drained
  <2>1. /\ Live /\ Live' /\ phase' = phase /\ phase = "batching" /\ open
        /\ at = Records[Source] /\ Source \notin Ragged
    BY <1>6 DEF Drained, Room, Live
  <2>2. /\ idx' = idx + 1 /\ seen' = 0 /\ ~open'
        /\ UNCHANGED <<sources, rows, page, token, delivered, relists, overwrites>>
    BY <1>6 DEF Drained
  <2>3. Out' = Out /\ (Undisturbed' <=> Undisturbed)
    BY <2>2 DEF Out, Undisturbed
  <2>4. EndsAt(Out, idx, seen)
    BY <2>1 DEF IInv, PositionInv
  <2>5. EndsAt(Out, idx + 1, 0)
    BY <1>0, <2>4, NextSource
  <2>6. Undisturbed => Covers(sources, Out, idx + 1, 0)
    <3>1. Undisturbed => Covers(sources, Out, idx, seen)
      BY <2>1 DEF IInv, CoverInv
    <3>2. /\ at = seen /\ idx < Len(sources)
          /\ seen = Records[sources[idx + 1]]
          /\ sources[idx + 1] \notin Ragged /\ sources[idx + 1] \notin Unreadable
      BY <2>1 DEF OpenInListing, IInv, StreamInv, Source
    <3> QED
      BY <1>0, <2>4, <3>1, <3>2, CoverSource
  <2>7. RowsInv' /\ PositionInv' /\ StreamInv' /\ EmptyInv' /\ TokenInv'
    BY <2>1, <2>2, <2>3, <2>5
       DEF RowsInv, PositionInv, StreamInv, EmptyInv, TokenInv, Live, Resumable, IInv
  <2>8. CoverInv'
    BY <2>1, <2>2, <2>3, <2>6 DEF CoverInv, Live, Resumable, IInv
  <2> QED
    BY <2>7, <2>8 DEF IInv
<1>7. CASE EmitBatch
  <2>1. Live /\ Live' /\ phase = "batching" /\ phase' = "idle"
    BY <1>7 DEF EmitBatch, LeaveLoop, Live
  <2>2. /\ page' = page \o rows /\ rows' = <<>>
        /\ UNCHANGED <<sources, idx, seen, open, at, token, delivered, relists, overwrites>>
    BY <1>7 DEF EmitBatch
  <2>3. Out' = Out
    BY <1>0, <2>2, Pieces DEF Out
  <2>4. Source' = Source /\ (Undisturbed' <=> Undisturbed)
    BY <2>2 DEF Source, Undisturbed
  <2>5. RowsInv' /\ PositionInv' /\ StreamInv' /\ EmptyInv' /\ TokenInv'
    BY <2>1, <2>2, <2>3, <2>4
       DEF RowsInv, PositionInv, StreamInv, EmptyInv, TokenInv, Live, Resumable, IInv
  <2>6. CoverInv'
    BY <2>1, <2>2, <2>3, <2>4 DEF CoverInv, Live, Resumable, IInv
  <2> QED
    BY <2>5, <2>6 DEF IInv
<1>8. CASE EndOfScan
  <2>1. /\ Live /\ ~Live' /\ phase' = "done" /\ rows = <<>>
        /\ delivered' = delivered \o page /\ page' = <<>> /\ rows' = <<>>
        /\ UNCHANGED <<sources, relists, overwrites>>
    BY <1>8 DEF EndOfScan, LeaveLoop, Live
  <2>2. ~open /\ idx >= Len(sources)
    <3>1. Len(rows) = 0
      BY <2>1, EmptySeq
    <3> QED
      BY <3>1, <1>8, BatchRowsAssumption DEF EndOfScan, LeaveLoop
  <2>3. Out = delivered' /\ Out' = delivered'
    <3>1. delivered \o page \o <<>> = delivered \o page
      BY <1>0, Pieces
    <3>2. delivered' \o <<>> \o <<>> = delivered'
      BY Pieces DEF TypeOK
    <3> QED
      BY <2>1, <3>1, <3>2 DEF Out
  <2>4. RowsInv'
    BY <2>3 DEF RowsInv, IInv
  <2>5. ASSUME Undisturbed', NEW j \in 0 .. Len(sources) - 1
        PROVE  Whole(sources, Out, j)
    <3>1. Covers(sources, Out, idx, seen)
      BY <2>1, <2>5 DEF IInv, CoverInv, Undisturbed
    <3>2. Len(sources) \in Nat
      BY LenProperties DEF TypeOK
    <3>3. j \in 0 .. idx - 1
      BY <1>0, <2>2, <3>2
    <3> QED
      BY <3>1, <3>3 DEF Covers
  <2>6. CoverInv'
    BY <2>1, <2>3, <2>5 DEF CoverInv, Resumable, Live
  <2>7. PositionInv' /\ StreamInv' /\ EmptyInv' /\ TokenInv'
    BY <2>1 DEF PositionInv, StreamInv, EmptyInv, TokenInv, Live, Resumable
  <2> QED
    BY <2>4, <2>6, <2>7 DEF IInv
<1>9. CASE SendPage
  <2>1. /\ Live /\ ~Live' /\ phase = "idle" /\ phase' = "down"
        /\ delivered' = delivered \o page /\ page' = <<>>
        /\ token'.idx = idx /\ token'.seen = seen
        /\ UNCHANGED <<sources, idx, seen, rows, relists, overwrites>>
    BY <1>9 DEF SendPage, Live
  <2>2. rows = <<>> /\ rows' = <<>>
    BY <2>1 DEF IInv, EmptyInv
  <2>3. Out = delivered' /\ Out' = delivered'
    <3>1. delivered \o page \o <<>> = delivered \o page
      BY <1>0, Pieces
    <3>2. delivered' \o <<>> \o <<>> = delivered'
      BY Pieces DEF TypeOK
    <3> QED
      BY <2>1, <2>2, <3>1, <3>2 DEF Out
  <2>4. RowsInv' /\ TokenInv'
    BY <2>1, <2>3 DEF RowsInv, PositionInv, TokenInv, IInv
  <2>5. CoverInv'
    BY <2>1, <2>3 DEF CoverInv, Undisturbed, Resumable, Live, IInv
  <2>6. PositionInv' /\ StreamInv' /\ EmptyInv'
    BY <2>1, <2>2 DEF PositionInv, StreamInv, EmptyInv, Live
  <2> QED
    BY <2>4, <2>5, <2>6 DEF IInv
<1>10. CASE Resume
  <2>1. /\ ~Live /\ Live' /\ Resumable /\ phase' = "idle"
        /\ idx' = token.idx /\ seen' = token.seen /\ ~open'
        /\ UNCHANGED <<sources, rows, page, token, delivered, relists, overwrites>>
    BY <1>10 DEF Resume, Live, Resumable
  <2>2. page = <<>> /\ rows = <<>>
    BY <2>1 DEF IInv, EmptyInv
  <2>3. Out = delivered /\ Out' = delivered
    BY <1>0, <2>1, <2>2, Pieces DEF Out
  <2>4. RowsInv' /\ PositionInv' /\ StreamInv' /\ EmptyInv' /\ TokenInv'
    BY <2>1, <2>2, <2>3
       DEF RowsInv, PositionInv, StreamInv, EmptyInv, TokenInv, Resumable, IInv
  <2>5. CoverInv'
    BY <2>1, <2>3 DEF CoverInv, Undisturbed, Resumable, IInv
  <2> QED
    BY <2>4, <2>5 DEF IInv
<1>11. CASE LosePage
  <2>1. /\ Live /\ ~Live' /\ Resumable /\ phase' = "down"
        /\ rows' = <<>> /\ page' = <<>>
        /\ UNCHANGED <<sources, idx, seen, token, delivered, relists, overwrites>>
    BY <1>11 DEF LosePage, Live, Resumable
  <2>2. Out' = delivered
    BY <1>0, <2>1, Pieces DEF Out
  <2>3. RowsInv'
    BY <2>2, ClientRows DEF RowsInv, IInv
  <2>4. PositionInv' /\ StreamInv' /\ EmptyInv' /\ TokenInv'
    BY <2>1 DEF PositionInv, StreamInv, EmptyInv, TokenInv, Live, IInv
  <2>5. CoverInv'
    BY <2>1 DEF CoverInv, Undisturbed, Live, IInv
  <2> QED
    BY <2>3, <2>4, <2>5 DEF IInv
<1>12. CASE IoFault
  BY <1>12, AfterFailure DEF IoFault
<1>16. CASE ResolveFails
  BY <1>16, AfterFailure DEF ResolveFails
<1>13. CASE Overwrite
  <2>1. /\ overwrites' = overwrites + 1 /\ phase' = phase /\ phase # "done"
        /\ UNCHANGED <<idx, seen, open, at, rows, page, token, delivered>>
    BY <1>13 DEF Overwrite
  <2>2. ~Undisturbed'
    BY <2>1 DEF Undisturbed, TypeOK
  <2>3. Live /\ open => Source' = Source
    <3>1. PICK i \in 1 .. Len(sources), o \in Objects :
             /\ ~(open /\ phase # "down" /\ i = idx + 1)
             /\ sources' = [sources EXCEPT ![i] = o]
      BY <1>13 DEF Overwrite
    <3>2. ASSUME Live, open PROVE sources'[idx + 1] = sources[idx + 1]
      <4>0. idx < Len(sources) /\ Len(sources) \in Nat
        BY <3>2, LenProperties DEF OpenInListing, TypeOK
      <4>1. idx + 1 \in 1 .. Len(sources) /\ i # idx + 1
        BY <1>0, <3>1, <3>2, <4>0 DEF Live
      <4> QED
        BY <3>1, <4>1, ExceptSeq DEF TypeOK
    <3> QED
      BY <2>1, <3>2 DEF Source
  <2>4. Out' = Out
    BY <2>1 DEF Out
  <2>5. RowsInv' /\ PositionInv' /\ EmptyInv' /\ TokenInv' /\ CoverInv'
    BY <2>1, <2>2, <2>4
       DEF RowsInv, PositionInv, EmptyInv, TokenInv, CoverInv, Live, Resumable, IInv
  <2>6. StreamInv'
    BY <2>1, <2>3 DEF StreamInv, Live, IInv
  <2> QED
    BY <2>5, <2>6 DEF IInv
<1>14. CASE Relist
  <2>1. /\ relists' = relists + 1 /\ phase' = "down" /\ phase = "down"
        /\ UNCHANGED <<idx, seen, open, at, rows, page, token, delivered>>
    BY <1>14 DEF Relist
  <2>2. ~Undisturbed'
    BY <2>1 DEF Undisturbed, TypeOK
  <2>3. Out' = Out
    BY <2>1 DEF Out
  <2> QED
    BY <2>1, <2>2, <2>3
       DEF RowsInv, PositionInv, StreamInv, EmptyInv, TokenInv, CoverInv, Live,
           Resumable, IInv
<1>15. CASE UNCHANGED vars
  <2>1. Out' = Out /\ Source' = Source /\ (Undisturbed' <=> Undisturbed)
    BY <1>15 DEF vars, Out, Source, Undisturbed
  <2> QED
    BY <1>15, <2>1
       DEF vars, RowsInv, PositionInv, StreamInv, EmptyInv, TokenInv, CoverInv, Live,
           Resumable, IInv
<1> QED
  BY <1>1, <1>2, <1>3, <1>4, <1>5, <1>6, <1>7, <1>8, <1>9, <1>10, <1>11,
     <1>12, <1>13, <1>14, <1>15, <1>16
     DEF Next, Scan, Transport, Environment, Over

-----------------------------------------------------------------------------
(* The results. *)

LEMMA Invariance == Spec => []IInv
<1>1. Init => IInv
  BY InitInv
<1>2. TypeOK /\ TypeOK' /\ OpenInListing /\ IInv /\ [Next]_vars => IInv'
  BY NextInv
<1> QED
  BY <1>1, <1>2, TypeAndRange, PTL DEF Spec

(* However pages are cut, lost and resumed and whatever happens to the     *)
(* sources, rows leave the scan in the order of their positions in the     *)
(* listing and of their records, and no record of a position twice.        *)
THEOREM RowsInOrder == Spec => []InOrder
<1>1. IInv => InOrder
  BY DEF IInv, RowsInv, InOrder
<1> QED
  BY <1>1, Invariance, PTL

(* At no position of the listing is a record stepped over on the way. *)
THEOREM RowsWithoutGap == Spec => []NoGap
<1>1. IInv => NoGap
  BY DEF IInv, RowsInv, NoGap
<1> QED
  BY <1>1, Invariance, PTL

(* The token a client holds counts exactly the rows it has received.       *)
THEOREM TokenIsExact == Spec => []TokenCovers
<1>1. TypeOK /\ IInv => TokenCovers
  BY DEF IInv, TokenInv, TokenCovers, EndsAt, Received, Resumable, TypeOK, Phases
<1> QED
  BY <1>1, Invariance, TypeCorrect, PTL

(* A scan of unchanging sources that ends without an error has delivered   *)
(* every record of every source.                                           *)
THEOREM ScanIsComplete == Spec => []CompleteWhenDone
<1>1. IInv => CompleteWhenDone
  BY DEF IInv, CoverInv, CompleteWhenDone, Whole, Received
<1> QED
  BY <1>1, Invariance, PTL

-----------------------------------------------------------------------------
(* Why a scan fails. *)

Within(l, i, k) == k > 0 => k =< Records[l[i + 1]]

(* A position that was reached is still there when a scan resumes at it.   *)
CauseInv ==
    /\ Undisturbed => /\ Live => Within(sources, idx, seen)
                      /\ Resumable => Within(sources, token.idx, token.seen)
    /\ FailsForCause

LEMMA UndisturbedStep ==
    ASSUME TypeOK, [Next]_vars, Undisturbed'
    PROVE  Undisturbed /\ sources' = sources
<1> USE DEF producer, client, budget, Undisturbed, TypeOK
<1>1. CASE Scan
  BY <1>1 DEF Scan, NextBatch, OpenSource, OpenFails, TakeRecord, TakeFails, Drained,
              EmitBatch, EndOfScan
<1>2. CASE Transport
  BY <1>2 DEF Transport, SendPage, Resume
<1>3. CASE Environment
  <2>1. CASE LosePage
    BY <2>1 DEF LosePage
  <2>2. CASE IoFault
    BY <2>2 DEF IoFault
  <2>3. CASE ResolveFails
    BY <2>3 DEF ResolveFails
  <2>4. CASE Overwrite
    BY <2>4 DEF Overwrite
  <2>5. CASE Relist
    BY <2>5 DEF Relist
  <2> QED
    BY <1>3, <2>1, <2>2, <2>3, <2>4, <2>5 DEF Environment
<1>4. CASE Over \/ UNCHANGED vars
  BY <1>4 DEF Over, vars
<1> QED
  BY <1>1, <1>2, <1>3, <1>4 DEF Next

(* The source being read, or about to be, is one of the objects. *)
LEMMA SourceType ==
    ASSUME TypeOK, idx < Len(sources)
    PROVE  Source \in Objects /\ Records[Source] \in Nat
<1>1. idx + 1 \in 1 .. Len(sources)
  BY LenProperties DEF TypeOK
<1>2. Source \in Objects
  BY <1>1, ElementOfSeq DEF Source, TypeOK
<1> QED
  BY <1>2, RecordsAssumption

LEMMA CauseNext ==
    ASSUME TypeOK, TypeOK', OpenInListing, IInv, CauseInv, [Next]_vars
    PROVE  CauseInv'
<1> USE DEF producer, client, budget
<1>1. Undisturbed' => Undisturbed /\ sources' = sources
  BY UndisturbedStep
<1>2. /\ idx \in Nat /\ seen \in Nat /\ at \in Nat /\ faults \in Nat
      /\ Live /\ open => idx < Len(sources) /\ at = seen
      /\ Undisturbed => /\ Live => Within(sources, idx, seen)
                        /\ Resumable => Within(sources, token.idx, token.seen)
  BY DEF TypeOK, OpenInListing, IInv, StreamInv, CauseInv
<1> USE DEF Within, Live, Resumable
<1>3. ASSUME Fail, faults' = faults, sources' = sources, idx' = idx,
             Undisturbed => idx < Len(sources) /\ ~Intact(Source)
      PROVE  CauseInv'
  <2>1. phase' = "failed" /\ Source' = Source
    BY <1>3 DEF Fail, Source
  <2> QED
    BY <1>1, <1>3, <2>1 DEF CauseInv, FailsForCause
<1>4. ASSUME Fail, faults' = faults + 1 PROVE CauseInv'
  BY <1>2, <1>4 DEF Fail, CauseInv, FailsForCause
<1>5. CASE NextBatch \/ OpenSource \/ EmitBatch
  BY <1>1, <1>2, <1>5 DEF NextBatch, OpenSource, EmitBatch, LeaveLoop, Room, CauseInv,
                          FailsForCause
<1>6. CASE OpenFails
  <2>1. Live /\ Fail /\ UNCHANGED <<sources, idx, faults>> /\ idx < Len(sources)
    BY <1>6 DEF OpenFails, Room
  <2>2. ASSUME Undisturbed PROVE ~Intact(Source)
    <3>1. CASE Source \in Unreadable
      BY <3>1 DEF Intact
    <3>2. CASE seen > Records[Source]
      BY <1>2, <2>1, <2>2, <3>2, SourceType DEF Source
    <3> QED
      BY <1>6, <3>1, <3>2 DEF OpenFails
  <2> QED
    BY <1>3, <2>1, <2>2
<1>7. CASE TakeRecord
  <2>1. /\ phase' = phase /\ phase = "batching" /\ open /\ at < Records[Source]
        /\ seen' = seen + 1 /\ UNCHANGED <<sources, idx, token>>
    BY <1>7 DEF TakeRecord, Room
  <2>2. seen + 1 =< Records[Source]
    BY <1>2, <2>1, SourceType
  <2> QED
    BY <1>1, <1>2, <2>1, <2>2 DEF CauseInv, FailsForCause, Source
<1>8. CASE TakeFails
  <2>1. Live /\ open /\ Fail /\ UNCHANGED <<sources, idx, faults>>
    BY <1>8 DEF TakeFails, Room
  <2>2. ~Intact(Source)
    <3>1. CASE at < Records[Source] /\ at + 1 \in Undecodable[Source]
      <4>1. at + 1 \in 1 .. Records[Source]
        BY <1>2, <2>1, <3>1, SourceType
      <4> QED
        BY <3>1, <4>1 DEF Intact
    <3>2. CASE Source \in Ragged
      BY <3>2 DEF Intact
    <3> QED
      BY <1>8, <3>1, <3>2 DEF TakeFails
  <2> QED
    BY <1>2, <1>3, <2>1, <2>2
<1>9. CASE Drained
  BY <1>1, <1>2, <1>9 DEF Drained, Room, CauseInv, FailsForCause
<1>10. CASE EndOfScan \/ LosePage
  BY <1>1, <1>2, <1>10 DEF EndOfScan, LeaveLoop, LosePage, CauseInv, FailsForCause
<1>11. CASE SendPage
  <2>1. token'.idx = idx /\ token'.seen = seen
    BY <1>11 DEF SendPage
  <2> QED
    BY <1>1, <1>2, <1>11, <2>1 DEF SendPage, CauseInv, FailsForCause
<1>12. CASE Resume
  BY <1>1, <1>2, <1>12 DEF Resume, CauseInv, FailsForCause
<1>13. CASE IoFault \/ ResolveFails
  BY <1>4, <1>13 DEF IoFault, ResolveFails
<1>14. CASE Overwrite \/ Relist
  <2>1. ~Undisturbed'
    BY <1>14 DEF Overwrite, Relist, Undisturbed, TypeOK
  <2> QED
    BY <2>1 DEF CauseInv, FailsForCause
<1>15. CASE Over \/ UNCHANGED vars
  <2>1. UNCHANGED vars
    BY <1>15 DEF Over
  <2> QED
    BY <2>1, <1>1 DEF vars, CauseInv, FailsForCause, Undisturbed, Source
<1> QED
  BY <1>5, <1>6, <1>7, <1>8, <1>9, <1>10, <1>11, <1>12, <1>13, <1>14, <1>15
     DEF Next, Scan, Transport, Environment

LEMMA CauseInvariance == Spec => []CauseInv
<1>1. Init => CauseInv
  BY DEF Init, CauseInv, Within, Live, Resumable, FailsForCause
<1>2. TypeOK /\ TypeOK' /\ OpenInListing /\ IInv /\ CauseInv /\ [Next]_vars => CauseInv'
  BY CauseNext
<1> QED
  BY <1>1, <1>2, TypeAndRange, Invariance, PTL DEF Spec

(* A scan of unchanging sources that meets no fault fails only at a source *)
(* with a defect: a resumed producer finds the position it left.           *)
THEOREM FailureHasCause == Spec => []FailsForCause
<1>1. CauseInv => FailsForCause
  BY DEF CauseInv
<1> QED
  BY <1>1, CauseInvariance, PTL

-----------------------------------------------------------------------------
(***************************************************************************)
(* The scan implements ScanSpec, as long as the sources stay as they are.  *)
(*                                                                         *)
(* The invariant GoalInv says what a position means: the rows that led to  *)
(* (idx, seen) are those of the sources before idx and the first seen of   *)
(* the next one.  With the defects that CoverInv excludes and the bounds   *)
(* that CauseInv gives, these rows begin the rows of the listing (Reach,   *)
(* TakenBegins), and what a client receives grows along them.              *)
(***************************************************************************)

-----------------------------------------------------------------------------
(* The rows of a listing, and how far a position reaches into them. *)

Before(l, i)   == FlattenSeq([j \in 1 .. i |-> Part(l, j)])
First(l, i, k) == [m \in 1 .. k |-> [src |-> i, rec |-> m, obj |-> l[i + 1]]]
Taken(l, i, k) == Before(l, i) \o First(l, i, k)

Begins(s, g) == \E w \in Seq(Row) : g = s \o w

LEMMA GoodRecordsRange ==
    ASSUME NEW o \in Objects
    PROVE  /\ GoodRecords(o) \in Nat /\ GoodRecords(o) =< Records[o]
           /\ o \notin Unreadable =>
                 /\ \A k \in 1 .. GoodRecords(o) : k \notin Undecodable[o]
                 /\ GoodRecords(o) = Records[o] \/ GoodRecords(o) + 1 \in Undecodable[o]
<1> DEFINE T == {n \in Nat : n = Records[o] \/ n + 1 \in Undecodable[o]}
<1>1. Records[o] \in Nat /\ Records[o] \in T
  BY RecordsAssumption
<1>2. PICK m \in T : \A n \in T : m =< n
  <2>1. T \in SUBSET Nat /\ T # {}
    BY <1>1
  <2> HIDE DEF T
  <2> QED
    BY <2>1, Smallest
<1>3. m \in 0 .. Records[o] /\ (m = Records[o] \/ m + 1 \in Undecodable[o])
  BY <1>1, <1>2
<1>4. ASSUME NEW k \in 1 .. m PROVE k \notin Undecodable[o]
  <2>1. k - 1 \in Nat /\ k - 1 \notin T /\ (k - 1) + 1 = k
    BY <1>2
  <2> QED
    BY <2>1
<1>5. CASE o \in Unreadable
  BY <1>1, <1>5 DEF GoodRecords
<1>6. CASE o \notin Unreadable
  <2> HIDE DEF T
  <2> DEFINE D == 0 .. Records[o]
             P(n) == /\ \A k \in 1 .. n : k \notin Undecodable[o]
                     /\ n = Records[o] \/ n + 1 \in Undecodable[o]
  <2>1. \E n \in D : P(n)
    BY <1>3, <1>4
  <2>3. GoodRecords(o) = CHOOSE n \in D : P(n)
    BY <1>6 DEF GoodRecords
  <2> HIDE DEF P, D
  <2>4. GoodRecords(o) \in D /\ P(GoodRecords(o))
    BY <2>1, <2>3, Zenon
  <2>2. /\ GoodRecords(o) \in 0 .. Records[o]
        /\ \A k \in 1 .. GoodRecords(o) : k \notin Undecodable[o]
        /\ GoodRecords(o) = Records[o] \/ GoodRecords(o) + 1 \in Undecodable[o]
    BY <2>4 DEF P, D
  <2> QED
    BY <1>1, <2>2
<1> QED
  BY <1>5, <1>6

LEMMA FirstType ==
    ASSUME NEW l \in Seq(Objects), NEW i \in 0 .. Len(l) - 1, NEW k \in Nat
    PROVE  First(l, i, k) \in Seq(Row) /\ Len(First(l, i, k)) = k
<1>1. i + 1 \in 1 .. Len(l) /\ i \in Nat
  BY LenProperties
<1>2. l[i + 1] \in Objects
  BY <1>1, ElementOfSeq
<1>3. \A m \in 1 .. k : [src |-> i, rec |-> m, obj |-> l[i + 1]] \in Row
  BY <1>1, <1>2 DEF Row
<1> QED
  BY <1>3 DEF First

LEMMA RowsType ==
    ASSUME NEW l \in Seq(Objects), NEW i \in 0 .. Len(l) - 1
    PROVE  /\ l[i + 1] \in Objects
           /\ RowsOf(l, i + 1) = First(l, i, GoodRecords(l[i + 1]))
           /\ Part(l, i + 1) \in Seq(Row)
<1>1. i + 1 \in 1 .. Len(l) /\ (i + 1) - 1 = i
  BY LenProperties
<1>2. l[i + 1] \in Objects
  BY <1>1, ElementOfSeq
<1>3. GoodRecords(l[i + 1]) \in Nat
  BY <1>2, GoodRecordsRange
<1>4. RowsOf(l, i + 1) = First(l, i, GoodRecords(l[i + 1]))
  BY <1>1 DEF RowsOf, First
<1>5. First(l, i, GoodRecords(l[i + 1])) \in Seq(Row)
  BY <1>3, FirstType
<1> QED
  BY <1>2, <1>4, <1>5, EmptySeq DEF Part

LEMMA Parts ==
    ASSUME NEW l \in Seq(Objects), NEW i \in 0 .. Len(l)
    PROVE  /\ [j \in 1 .. i |-> Part(l, j)] \in Seq(Seq(Row))
           /\ Len([j \in 1 .. i |-> Part(l, j)]) = i
           /\ Before(l, i) \in Seq(Row)
<1>1. Len(l) \in Nat /\ i \in Nat
  BY LenProperties
<1>3. ASSUME NEW j \in 1 .. i PROVE Part(l, j) \in Seq(Row)
  <2>1. j - 1 \in 0 .. Len(l) - 1
    BY <1>1
  <2>2. Part(l, (j - 1) + 1) \in Seq(Row)
    BY <2>1, RowsType
  <2>3. (j - 1) + 1 = j
    OBVIOUS
  <2> QED
    BY <2>2, <2>3
<1>4. [j \in 1 .. i |-> Part(l, j)] \in Seq(Seq(Row)) /\ Len([j \in 1 .. i |-> Part(l, j)]) = i
  BY <1>1, <1>3
<1> QED
  BY <1>4, FlattenType DEF Before

LEMMA BeforeNext ==
    ASSUME NEW l \in Seq(Objects), NEW i \in 0 .. Len(l) - 1
    PROVE  Before(l, i + 1) = Before(l, i) \o Part(l, i + 1)
<1> DEFINE ps == [j \in 1 .. i |-> Part(l, j)]
           qs == [j \in 1 .. i + 1 |-> Part(l, j)]
           p  == Part(l, i + 1)
<1>1. Len(l) \in Nat /\ i \in 0 .. Len(l) /\ i + 1 \in 0 .. Len(l) /\ i + 1 \in 1 .. Len(l)
  BY LenProperties
<1>2. /\ ps \in Seq(Seq(Row)) /\ Len(ps) = i
      /\ qs \in Seq(Seq(Row)) /\ Len(qs) = i + 1
      /\ p \in Seq(Row)
  BY <1>1, Parts, RowsType
<1>3. \A j \in 1 .. i : ps[j] = qs[j]
  BY <1>1
<1>4. qs[i + 1] = p
  BY <1>1
<1> HIDE DEF ps, qs, p
<1>5. qs = Append(ps, p)
  <2>1. /\ Append(ps, p) \in Seq(Seq(Row)) /\ Len(Append(ps, p)) = i + 1
        /\ \A j \in 1 .. i : Append(ps, p)[j] = ps[j]
        /\ Append(ps, p)[i + 1] = p
    BY <1>2, AppendProperties
  <2> DEFINE t == Append(ps, p)
  <2> HIDE DEF t
  <2>2. t \in Seq(Seq(Row)) /\ Len(qs) = Len(t) /\ \A j \in 1 .. Len(qs) : qs[j] = t[j]
    BY <1>1, <1>2, <1>3, <1>4, <2>1 DEF t
  <2>3. qs = t
    BY <1>2, <2>2, SeqEqual
  <2> QED
    BY <2>3 DEF t
<1>6. FlattenSeq(qs) = FlattenSeq(ps) \o p
  BY <1>2, <1>5, FlattenAppend
<1> QED
  BY <1>6 DEF Before, ps, qs, p

(* A sequence of rows in pieces. *)
LEMMA Assoc ==
    ASSUME NEW a \in Seq(Row), NEW b \in Seq(Row), NEW c \in Seq(Row)
    PROVE  /\ (a \o b) \o c = a \o (b \o c)
           /\ a \o b \in Seq(Row) /\ b \o c \in Seq(Row)
           /\ a \o <<>> = a
<1>1. Cat(Cat(a, b), c) = Cat(a, Cat(b, c))
  BY CatAssociative
<1>2. (a \o b) \o c = a \o (b \o c)
  BY <1>1, Zenon DEF Cat
<1> QED
  BY <1>2, ConcatProperties, ConcatEmptySeq

LEMMA BeforeBegins ==
    ASSUME NEW l \in Seq(Objects), NEW i \in 0 .. Len(l)
    PROVE  Begins(Before(l, i), Goal(l))
<1> DEFINE N == Len(l)
           Good == {n \in i .. N : Begins(Before(l, i), Before(l, n))}
<1>1. N \in Nat /\ i \in Nat /\ i \in i .. N
  BY LenProperties
<1>2. i \in Good
  <2>1. Before(l, i) \in Seq(Row) /\ <<>> \in Seq(Row)
    BY Parts, EmptySeq
  <2>2. Before(l, i) = Before(l, i) \o <<>>
    BY <2>1, ConcatEmptySeq
  <2>3. Begins(Before(l, i), Before(l, i))
    BY <2>1, <2>2 DEF Begins
  <2> QED
    BY <1>1, <2>3
<1>3. ASSUME NEW n \in i .. N - 1, n \in Good PROVE n + 1 \in Good
  <2>1. n \in 0 .. Len(l) - 1 /\ n + 1 \in i .. N /\ n + 1 \in 1 .. Len(l)
    BY <1>1
  <2>2. PICK w \in Seq(Row) : Before(l, n) = Before(l, i) \o w
    BY <1>3 DEF Begins
  <2> DEFINE b == Before(l, i)
             p == Part(l, n + 1)
  <2>3. b \in Seq(Row) /\ p \in Seq(Row)
    <3>1. n \in 0 .. Len(l) - 1 /\ i \in 0 .. Len(l)
      BY <2>1
    <3> QED
      BY <3>1, Parts, RowsType
  <2>4. Before(l, n + 1) = (b \o w) \o p
    BY <2>1, <2>2, BeforeNext
  <2> HIDE DEF b, p
  <2>5. (b \o w) \o p = b \o (w \o p) /\ w \o p \in Seq(Row)
    BY <2>3, Assoc
  <2>6. Begins(Before(l, i), Before(l, n + 1))
    BY <2>4, <2>5 DEF Begins, b
  <2> QED
    BY <2>1, <2>6
<1>4. i .. N \subseteq Good
  <2> HIDE DEF Good
  <2>1. i \in Int /\ N \in Int
    BY <1>1
  <2> QED
    BY <1>2, <1>3, <2>1, UpTo
<1>5. N \in Good
  BY <1>1, <1>4
<1> QED
  BY <1>5 DEF Before, Goal

(* What lies before a position that was reached is an initial segment of   *)
(* the rows of the listing.                                                *)
LEMMA Reach ==
    ASSUME NEW l \in Seq(Objects), NEW s, NEW i \in Nat, NEW k \in Nat,
           Covers(l, s, i, k), Within(l, i, k)
    PROVE  /\ i =< Len(l) /\ i \in 0 .. Len(l) /\ (i = Len(l) => k = 0)
           /\ i < Len(l) => /\ Reached(l, i + 1)
                            /\ k > 0 => k =< GoodRecords(l[i + 1])
<1>1. Len(l) \in Nat
  BY LenProperties
<1>2. i =< Len(l)
  <2>1. i > 0 => i - 1 \in 0 .. i - 1
    OBVIOUS
  <2> QED
    BY <1>1, <2>1 DEF Covers, Whole
<1>3. ASSUME NEW j \in 1 .. i PROVE Intact(l[j])
  <2>1. j - 1 \in 0 .. i - 1 /\ (j - 1) + 1 = j
    OBVIOUS
  <2> QED
    BY <2>1 DEF Covers, Whole
<1>4. ASSUME i < Len(l), k > 0 PROVE k =< GoodRecords(l[i + 1])
  <2>1. l[i + 1] \in Objects
    <3>1. i + 1 \in 1 .. Len(l)
      BY <1>1, <1>4
    <3> QED
      BY <3>1, ElementOfSeq
  <2> DEFINE o == l[i + 1]
  <2>2. /\ k =< Records[o] /\ Records[o] \in Nat /\ o \notin Unreadable
        /\ \A m \in 1 .. k : m \notin Undecodable[o]
    BY <1>4, <2>1, RecordsAssumption DEF Covers, Within
  <2>3. /\ GoodRecords(o) \in Nat
        /\ GoodRecords(o) = Records[o] \/ GoodRecords(o) + 1 \in Undecodable[o]
    BY <2>1, <2>2, GoodRecordsRange
  <2> HIDE DEF o
  <2>4. GoodRecords(o) < k => GoodRecords(o) + 1 \in 1 .. k
    BY <2>3
  <2>5. k =< GoodRecords(o)
    BY <2>2, <2>3, <2>4
  <2> QED
    BY <2>5 DEF o
<1> QED
  BY <1>1, <1>2, <1>3, <1>4 DEF Reached, Covers

LEMMA FirstLess ==
    ASSUME NEW l \in Seq(Objects), NEW i \in 0 .. Len(l) - 1, NEW n \in Nat, NEW k \in 0 .. n
    PROVE  \E w \in Seq(Row) : First(l, i, n) = First(l, i, k) \o w
<1> DEFINE t == First(l, i, n)
           u == First(l, i, k)
           w == SubSeq(t, k + 1, n)
<1>1. i + 1 \in 1 .. Len(l) /\ (i + 1) - 1 = i /\ k \in Nat /\ Len(l) \in Nat
  BY LenProperties
<1>2. t \in Seq(Row) /\ Len(t) = n /\ u \in Seq(Row) /\ Len(u) = k
  BY <1>1, FirstType
<1>3. \A m \in 1 .. k : u[m] = t[m]
  BY <1>1 DEF First
<1> HIDE DEF t, u
<1>4. w \in Seq(Row)
  <2>1. \A m \in k + 1 .. n : t[m] \in Row
    <3>1. \A m \in k + 1 .. n : m \in 1 .. Len(t)
      BY <1>1, <1>2
    <3> QED
      BY <1>2, <3>1, ElementOfSeq
  <2>2. k + 1 \in Int /\ n \in Int
    BY <1>1
  <2> QED
    BY <2>1, <2>2, SubSeqProperties
<1>5. u = SubSeq(t, 1, k)
  <2> DEFINE v == SubSeq(t, 1, k)
  <2>1. \A m \in 1 .. k : t[m] \in Row
    <3>1. \A m \in 1 .. k : m \in 1 .. Len(t)
      BY <1>1, <1>2
    <3> QED
      BY <1>2, <3>1, ElementOfSeq
  <2>2. 1 \in Int /\ k \in Int
    BY <1>1
  <2>3. /\ v \in Seq(Row) /\ Len(v) = IF 1 =< k THEN k - 1 + 1 ELSE 0
        /\ \A m \in 1 .. k - 1 + 1 : v[m] = t[1 + m - 1]
    BY <2>1, <2>2, SubSeqProperties
  <2> HIDE DEF v
  <2>4. Len(v) = k /\ \A m \in 1 .. k : v[m] = t[m]
    <3>1. \A m \in 1 .. k : m \in 1 .. k - 1 + 1 /\ 1 + m - 1 = m
      BY <1>1
    <3> QED
      BY <1>1, <2>3, <3>1
  <2>5. u = v
    BY <1>2, <1>3, <2>3, <2>4, SeqEqual
  <2> QED
    BY <2>5 DEF v
<1>6. SubSeq(t, 1, k) \o SubSeq(t, k + 1, n) = SubSeq(t, 1, n) /\ SubSeq(t, 1, n) = t
  <2>1. 1 \in 1 .. Len(t) + 1 /\ k \in 1 - 1 .. Len(t) /\ n \in k .. Len(t)
    BY <1>1, <1>2
  <2> QED
    BY <1>2, <2>1, ConcatAdjacentSubSeq, SubSeqFull
<1>7. t = u \o w
  BY <1>5, <1>6
<1> QED
  BY <1>4, <1>7 DEF t, u

LEMMA TakenBegins ==
    ASSUME NEW l \in Seq(Objects), NEW s, NEW i \in Nat, NEW k \in Nat,
           Covers(l, s, i, k), Within(l, i, k)
    PROVE  Taken(l, i, k) \in Seq(Row) /\ Begins(Taken(l, i, k), Goal(l))
<1>1. /\ i =< Len(l) /\ i \in 0 .. Len(l) /\ (i = Len(l) => k = 0) /\ Len(l) \in Nat
      /\ i < Len(l) => /\ Reached(l, i + 1)
                       /\ k > 0 => k =< GoodRecords(l[i + 1])
  BY Reach, LenProperties
<1> DEFINE b == Before(l, i)
           f == First(l, i, k)
<1>2. b \in Seq(Row)
  BY <1>1, Parts
<1>3. CASE i = Len(l)
  <2>1. f = <<>> /\ k = 0
    BY <1>1, <1>3 DEF First
  <2>2. Taken(l, i, k) = b
    BY <1>2, <2>1, ConcatEmptySeq DEF Taken
  <2> QED
    BY <1>1, <1>2, <2>2, BeforeBegins
<1>4. CASE i < Len(l)
  <2> DEFINE n == GoodRecords(l[i + 1])
             g == First(l, i, n)
  <2>1. i + 1 \in 1 .. Len(l) /\ (i + 1) - 1 = i /\ i \in 0 .. Len(l) - 1 /\ i + 1 \in 0 .. Len(l)
    BY <1>1, <1>4
  <2>2. l[i + 1] \in Objects
    BY <2>1, ElementOfSeq
  <2>3. n \in Nat /\ k \in 0 .. n
    BY <1>1, <1>4, <2>2, GoodRecordsRange
  <2>4. Part(l, i + 1) = g /\ f \in Seq(Row) /\ g \in Seq(Row)
    <3>1. RowsOf(l, i + 1) = g
      BY <2>1, RowsType
    <3>2. k \in Nat /\ n \in Nat
      BY <2>3
    <3> HIDE DEF n
    <3>3. f \in Seq(Row) /\ g \in Seq(Row)
      BY <2>1, <3>2, FirstType
    <3> QED
      BY <1>1, <1>4, <3>1, <3>3 DEF Part
  <2> HIDE DEF n
  <2>5. PICK v \in Seq(Row) : g = f \o v
    BY <2>1, <2>3, FirstLess
  <2>6. PICK w \in Seq(Row) : Goal(l) = Before(l, i + 1) \o w
    BY <2>1, BeforeBegins DEF Begins
  <2>7. Before(l, i + 1) = b \o g
    BY <2>1, <2>4, BeforeNext
  <2> HIDE DEF b, f, g
  <2>8. Goal(l) = (b \o (f \o v)) \o w
    BY <2>5, <2>6, <2>7
  <2>9. b \o f \in Seq(Row) /\ (b \o f) \o v = b \o (f \o v)
    <3>1. b \in Seq(Row) /\ f \in Seq(Row) /\ v \in Seq(Row)
      BY <1>2, <2>4
    <3>2. (b \o f) \o v = b \o (f \o v)
      BY <3>1, Assoc
    <3>3. b \o f \in Seq(Row)
      BY <3>1, Assoc
    <3> QED
      BY <3>2, <3>3
  <2> DEFINE t == b \o f
  <2>10. t \in Seq(Row) /\ Goal(l) = (t \o v) \o w
    BY <2>8, <2>9
  <2> HIDE DEF t
  <2>11. Goal(l) = t \o (v \o w) /\ v \o w \in Seq(Row)
    BY <2>10, Assoc
  <2>12. Begins(t, Goal(l))
    BY <2>11 DEF Begins
  <2> QED
    BY <2>10, <2>12 DEF t, b, f, Taken
<1> QED
  BY <1>1, <1>3, <1>4

(* The next record of a source, and the end of an intact one. *)
LEMMA TakenNext ==
    ASSUME NEW l \in Seq(Objects), NEW i \in 0 .. Len(l) - 1, NEW k \in Nat
    PROVE  LET r == [src |-> i, rec |-> k + 1, obj |-> l[i + 1]]
           IN  Taken(l, i, k + 1) = Append(Taken(l, i, k), r)
<1> DEFINE r == [src |-> i, rec |-> k + 1, obj |-> l[i + 1]]
           b == Before(l, i)
           f == First(l, i, k)
           g == First(l, i, k + 1)
<1>1. i + 1 \in 1 .. Len(l) /\ (i + 1) - 1 = i /\ i \in 0 .. Len(l) /\ i \in Nat /\ k + 1 \in Nat
  BY LenProperties
<1>2. b \in Seq(Row) /\ f \in Seq(Row) /\ Len(f) = k /\ g \in Seq(Row) /\ Len(g) = k + 1
  BY <1>1, Parts, FirstType
<1>3. r \in Row
  <2>1. l[i + 1] \in Objects
    BY RowsType
  <2> QED
    BY <1>1, <2>1 DEF Row
<1>4. (\A m \in 1 .. k : g[m] = f[m]) /\ g[k + 1] = r
  BY DEF First
<1> HIDE DEF r, b, f, g
<1>5. g = Append(f, r)
  <2> DEFINE t == Append(f, r)
  <2>1. /\ t \in Seq(Row) /\ Len(t) = k + 1
        /\ \A m \in 1 .. k : t[m] = f[m]
        /\ t[k + 1] = r
    BY <1>2, <1>3, AppendProperties
  <2> HIDE DEF t
  <2>2. \A m \in 1 .. Len(g) : g[m] = t[m]
    BY <1>2, <1>4, <2>1
  <2>3. g = t
    BY <1>2, <2>1, <2>2, SeqEqual
  <2> QED
    BY <2>3 DEF t
<1>6. Append(f, r) = f \o <<r>> /\ <<r>> \in Seq(Row)
  BY <1>2, <1>3, AppendIsConcat
<1>7. b \o (f \o <<r>>) = (b \o f) \o <<r>> /\ b \o f \in Seq(Row)
  <2> DEFINE u == <<r>>
  <2>1. u \in Seq(Row)
    BY <1>6
  <2> HIDE DEF u
  <2>2. b \in Seq(Row) /\ f \in Seq(Row)
    BY <1>2
  <2>3. (b \o f) \o u = b \o (f \o u)
    BY <2>1, <2>2, Assoc
  <2>4. b \o f \in Seq(Row)
    BY <2>1, <2>2, Assoc
  <2> QED
    BY <2>3, <2>4 DEF u
<1> DEFINE t == b \o f
<1>8. t \in Seq(Row) /\ b \o g = t \o <<r>>
  BY <1>5, <1>6, <1>7
<1> HIDE DEF t
<1>9. b \o g = Append(t, r)
  BY <1>3, <1>8, AppendIsConcat
<1> QED
  BY <1>9 DEF Taken, t, b, f, g, r

LEMMA TakenSource ==
    ASSUME NEW l \in Seq(Objects), NEW i \in 0 .. Len(l) - 1,
           Reached(l, i + 1), Intact(l[i + 1])
    PROVE  Taken(l, i + 1, 0) = Taken(l, i, Records[l[i + 1]])
<1>1. i + 1 \in 1 .. Len(l) /\ (i + 1) - 1 = i /\ i + 1 \in 0 .. Len(l)
  BY LenProperties
<1>2. l[i + 1] \in Objects
  BY <1>1, ElementOfSeq
<1>3. GoodRecords(l[i + 1]) = Records[l[i + 1]]
  <2> DEFINE o == l[i + 1]
  <2>1. /\ GoodRecords(o) \in Nat /\ GoodRecords(o) =< Records[o] /\ Records[o] \in Nat
        /\ GoodRecords(o) = Records[o] \/ GoodRecords(o) + 1 \in Undecodable[o]
    BY <1>2, GoodRecordsRange, RecordsAssumption DEF Intact
  <2>2. \A m \in 1 .. Records[o] : m \notin Undecodable[o]
    BY DEF Intact
  <2> HIDE DEF o
  <2>3. GoodRecords(o) # Records[o] => GoodRecords(o) + 1 \in 1 .. Records[o]
    BY <2>1
  <2>4. GoodRecords(o) = Records[o]
    BY <2>1, <2>2, <2>3
  <2> QED
    BY <2>4 DEF o
<1>4. Part(l, i + 1) = First(l, i, Records[l[i + 1]])
  <2>1. GoodRecords(l[i + 1]) \in Nat
    BY <1>2, GoodRecordsRange
  <2>2. RowsOf(l, i + 1) = First(l, i, GoodRecords(l[i + 1]))
    BY <1>1, <2>1, RowsType
  <2> QED
    BY <1>3, <2>2 DEF Part
<1>5. Before(l, i + 1) = Taken(l, i, Records[l[i + 1]])
  BY <1>4, BeforeNext DEF Taken
<1>6. First(l, i + 1, 0) = <<>>
  BY DEF First
<1>7. Before(l, i + 1) \in Seq(Row)
  BY <1>1, Parts
<1>8. Before(l, i + 1) \o <<>> = Before(l, i + 1)
  BY <1>7, ConcatEmptySeq
<1> QED
  BY <1>5, <1>6, <1>8 DEF Taken

-----------------------------------------------------------------------------
(* The scan implements the abstract one. *)

(* While the listing is what it was, a position says which rows were taken *)
(* to get there.                                                           *)
GoalInv ==
    Undisturbed =>
       /\ Live => Out = Taken(sources, idx, seen)
       /\ Resumable => delivered = Taken(sources, token.idx, token.seen)
       /\ phase = "done" => delivered = Goal(sources)
       /\ phase = "failed" => Begins(delivered, Goal(sources))

LEMMA BeginsLess ==
    ASSUME NEW a \in Seq(Row), NEW b \in Seq(Row), NEW g, Begins(a \o b, g)
    PROVE  Begins(a, g)
<1>1. PICK w \in Seq(Row) : g = (a \o b) \o w
  BY DEF Begins
<1>2. (a \o b) \o w = a \o (b \o w)
  BY Assoc
<1>3. b \o w \in Seq(Row)
  BY Assoc
<1> QED
  BY <1>1, <1>2, <1>3 DEF Begins

(* What the client has, and would have with the page, begins the goal. *)
LEMMA ClientBegins ==
    ASSUME TypeOK, IInv, CauseInv, GoalInv, Undisturbed, Resumable
    PROVE  /\ Begins(delivered, Goal(sources))
           /\ Begins(delivered \o page, Goal(sources))
<1>1. /\ delivered \in Seq(Row) /\ page \in Seq(Row) /\ rows \in Seq(Row)
      /\ delivered \o page \in Seq(Row)
      /\ idx \in Nat /\ seen \in Nat /\ sources \in Seq(Objects)
      /\ token.idx \in Nat /\ token.seen \in Nat
  BY Pieces DEF TypeOK, Token
<1>2. Begins(delivered, Goal(sources))
  <2>1. /\ Covers(sources, delivered, token.idx, token.seen)
        /\ Within(sources, token.idx, token.seen)
        /\ delivered = Taken(sources, token.idx, token.seen)
    BY DEF IInv, CoverInv, CauseInv, GoalInv
  <2>2. Begins(Taken(sources, token.idx, token.seen), Goal(sources))
    BY <1>1, <2>1, TakenBegins
  <2> QED
    BY <2>1, <2>2
<1>3. CASE Live
  <2>1. /\ Covers(sources, Out, idx, seen) /\ Within(sources, idx, seen)
        /\ Out = Taken(sources, idx, seen)
    BY <1>3 DEF IInv, CoverInv, CauseInv, GoalInv
  <2>2. Begins(Out, Goal(sources))
    <3>1. Begins(Taken(sources, idx, seen), Goal(sources))
      BY <1>1, <2>1, TakenBegins
    <3> QED
      BY <2>1, <3>1
  <2> DEFINE a == delivered \o page
  <2>3. Begins(a \o rows, Goal(sources)) /\ a \in Seq(Row)
    BY <1>1, <2>2 DEF Out
  <2> HIDE DEF a
  <2>4. Begins(a, Goal(sources))
    BY <1>1, <2>3, BeginsLess
  <2> QED
    BY <1>2, <2>4 DEF a
<1>4. CASE ~Live
  <2>1. page = <<>> /\ delivered \o <<>> = delivered
    BY <1>1, <1>4, ConcatEmptySeq DEF IInv, EmptyInv
  <2> QED
    BY <1>2, <2>1
<1> QED
  BY <1>3, <1>4

LEMMA GoalNext ==
    ASSUME TypeOK, TypeOK', OpenInListing, IInv, CauseInv, GoalInv, [Next]_vars
    PROVE  GoalInv'
<1> USE DEF producer, client, budget
<1> SUFFICES ASSUME Undisturbed' PROVE GoalInv'
  BY DEF GoalInv
<1>1. Undisturbed /\ sources' = sources
  BY UndisturbedStep
<1>2. /\ delivered \in Seq(Row) /\ page \in Seq(Row) /\ rows \in Seq(Row)
      /\ Out \in Seq(Row) /\ idx \in Nat /\ seen \in Nat /\ sources \in Seq(Objects)
      /\ Len(sources) \in Nat
  BY Pieces, LenProperties DEF TypeOK, Out
<1>3. /\ Live => /\ Out = Taken(sources, idx, seen)
                 /\ Covers(sources, Out, idx, seen) /\ Within(sources, idx, seen)
      /\ Resumable => delivered = Taken(sources, token.idx, token.seen)
  BY <1>1 DEF GoalInv, IInv, CoverInv, CauseInv
<1>4. ASSUME Fail, Resumable PROVE GoalInv'
  <2>1. Begins(delivered, Goal(sources)) /\ Begins(delivered \o page, Goal(sources))
    BY <1>1, <1>4, ClientBegins
  <2>2. Begins(delivered', Goal(sources))
    BY <1>4, <2>1 DEF Fail
  <2>3. phase' = "failed"
    BY <1>4 DEF Fail
  <2> QED
    BY <1>1, <2>2, <2>3 DEF GoalInv, Live, Resumable
<1>5. ASSUME Live', Live, UNCHANGED <<idx, seen, token, delivered>>, Out' = Out
      PROVE  GoalInv'
  BY <1>1, <1>3, <1>5 DEF GoalInv, Live, Resumable
<1>6. CASE NextBatch
  <2>1. Out' = Out
    BY <1>6 DEF NextBatch, IInv, EmptyInv, Out
  <2> QED
    BY <1>5, <1>6, <2>1 DEF NextBatch, Live
<1>7. CASE OpenSource
  BY <1>5, <1>7 DEF OpenSource, Room, Live, Out
<1>8. CASE OpenFails \/ TakeFails \/ IoFault \/ ResolveFails
  BY <1>4, <1>8 DEF OpenFails, TakeFails, IoFault, ResolveFails, Room, Resumable
<1>9. CASE TakeRecord
  <2>1. /\ Live /\ Live' /\ phase' = phase /\ idx < Len(sources)
        /\ seen' = seen + 1 /\ idx' = idx
        /\ UNCHANGED <<token, delivered>>
        /\ Out' = Append(Out, [src |-> idx, rec |-> seen + 1, obj |-> Source])
    BY <1>9, RowTaken
  <2>2. idx \in 0 .. Len(sources) - 1
    BY <1>2, <2>1
  <2>3. Taken(sources, idx, seen + 1)
           = Append(Taken(sources, idx, seen),
                    [src |-> idx, rec |-> seen + 1, obj |-> sources[idx + 1]])
    BY <1>2, <2>2, TakenNext
  <2>4. Out' = Taken(sources', idx', seen')
    BY <1>1, <1>3, <2>1, <2>3 DEF Source
  <2> QED
    BY <1>1, <1>3, <2>1, <2>4 DEF GoalInv, Live, Resumable
<1>10. CASE Drained
  <2>1. /\ Live /\ Live' /\ phase' = phase /\ open
        /\ at = Records[Source] /\ Source \notin Ragged
        /\ idx' = idx + 1 /\ seen' = 0
        /\ UNCHANGED <<token, delivered, page, rows>>
    BY <1>10 DEF Drained, Room, Live
  <2>2. /\ at = seen /\ idx < Len(sources) /\ Source \notin Unreadable
        /\ idx \in 0 .. Len(sources) - 1
    BY <1>2, <2>1 DEF OpenInListing, IInv, StreamInv
  <2>3. Intact(sources[idx + 1])
    BY <1>3, <2>1, <2>2 DEF Covers, Intact, Source
  <2>4. Reached(sources, idx + 1)
    BY <1>2, <1>3, <2>1, <2>2, Reach
  <2>5. Taken(sources, idx + 1, 0) = Taken(sources, idx, seen)
    BY <1>2, <2>1, <2>2, <2>3, <2>4, TakenSource DEF Source
  <2>6. Out' = Taken(sources', idx', seen')
    BY <1>1, <1>3, <2>1, <2>5 DEF Out
  <2> QED
    BY <1>1, <1>3, <2>1, <2>6 DEF GoalInv, Live, Resumable
<1>11. CASE EmitBatch
  <2>1. Out' = Out
    BY <1>2, <1>11, Pieces DEF EmitBatch, Out
  <2> QED
    BY <1>5, <1>11, <2>1 DEF EmitBatch, LeaveLoop, Live
<1>12. CASE EndOfScan
  <2>1. /\ Live /\ phase' = "done" /\ rows = <<>> /\ delivered' = delivered \o page
    BY <1>12 DEF EndOfScan, LeaveLoop, Live
  <2>2. idx >= Len(sources)
    <3>1. Len(rows) = 0
      BY <2>1, EmptySeq
    <3> QED
      BY <3>1, <1>12, BatchRowsAssumption DEF EndOfScan, LeaveLoop
  <2>3. idx = Len(sources) /\ seen = 0
    <3>1. /\ idx =< Len(sources) /\ (idx = Len(sources) => seen = 0)
      BY <1>2, <1>3, <2>1, Reach
    <3> QED
      BY <1>2, <2>2, <3>1
  <2>4. Taken(sources, idx, 0) = Goal(sources)
    <3>1. Before(sources, idx) = Goal(sources)
      BY <2>3 DEF Before, Goal
    <3>2. Before(sources, idx) \in Seq(Row)
      <4>1. idx \in 0 .. Len(sources)
        BY <1>2, <2>3
      <4> QED
        BY <1>2, <4>1, Parts
    <3>3. First(sources, idx, 0) = <<>>
      BY DEF First
    <3>4. Before(sources, idx) \o <<>> = Before(sources, idx)
      BY <3>2, ConcatEmptySeq
    <3> QED
      BY <3>1, <3>3, <3>4 DEF Taken
  <2>5. Out = delivered'
    <3>1. delivered \o page \o <<>> = delivered \o page
      BY <1>2, Pieces
    <3> QED
      BY <2>1, <3>1 DEF Out
  <2> QED
    BY <1>1, <1>3, <2>1, <2>3, <2>4, <2>5 DEF GoalInv, Live, Resumable
<1>13. CASE SendPage
  <2>1. /\ Live /\ phase = "idle" /\ phase' = "down"
        /\ delivered' = delivered \o page
        /\ token'.idx = idx /\ token'.seen = seen
    BY <1>13 DEF SendPage, Live
  <2>2. Out = delivered'
    <3>1. delivered \o page \o <<>> = delivered \o page
      BY <1>2, Pieces
    <3> QED
      BY <2>1, <3>1 DEF Out, IInv, EmptyInv
  <2> QED
    BY <1>1, <1>3, <2>1, <2>2 DEF GoalInv, Live, Resumable
<1>14. CASE Resume
  <2>1. /\ ~Live /\ Resumable /\ phase' = "idle"
        /\ idx' = token.idx /\ seen' = token.seen
        /\ UNCHANGED <<rows, page, token, delivered>>
    BY <1>14 DEF Resume, Live, Resumable
  <2>2. Out' = delivered
    <3>1. page = <<>> /\ rows = <<>>
      BY <2>1 DEF IInv, EmptyInv
    <3> QED
      BY <1>2, <2>1, <3>1, Pieces DEF Out
  <2> QED
    BY <1>1, <1>3, <2>1, <2>2 DEF GoalInv, Live, Resumable
<1>15. CASE LosePage
  BY <1>1, <1>3, <1>15 DEF LosePage, GoalInv, Live, Resumable
<1>16. CASE Overwrite \/ Relist
  BY <1>16 DEF Overwrite, Relist, Undisturbed, TypeOK
<1>17. CASE Over \/ UNCHANGED vars
  <2>1. UNCHANGED vars
    BY <1>17 DEF Over
  <2> QED
    BY <1>1, <2>1 DEF vars, GoalInv, Live, Resumable, Out
<1> QED
  BY <1>6, <1>7, <1>8, <1>9, <1>10, <1>11, <1>12, <1>13, <1>14, <1>15, <1>16, <1>17
     DEF Next, Scan, Transport, Environment

LEMMA GoalInvariance == Spec => []GoalInv
<1>1. Init => GoalInv
  <2> SUFFICES ASSUME Init PROVE GoalInv
    OBVIOUS
  <2>1. /\ idx = 0 /\ seen = 0 /\ token.idx = 0 /\ token.seen = 0 /\ phase = "idle"
        /\ delivered = <<>> /\ page = <<>> /\ rows = <<>> /\ sources \in Seq(Objects)
    BY ListingsAssumption DEF Init
  <2>2. Out = <<>>
    BY <2>1, ConcatEmptySeq, EmptySeq DEF Out
  <2>3. Taken(sources, 0, 0) = <<>>
    <3>1. [j \in 1 .. 0 |-> Part(sources, j)] = <<>> /\ First(sources, 0, 0) = <<>>
      BY DEF First
    <3>2. <<>> \in Seq(Seq(Row)) /\ <<>> \in Seq(Row)
      BY EmptySeq
    <3>3. Before(sources, 0) = <<>>
      BY <3>1, <3>2, FlattenType DEF Before
    <3> QED
      BY <3>1, <3>2, <3>3, ConcatEmptySeq DEF Taken
  <2> QED
    BY <2>1, <2>2, <2>3 DEF GoalInv
<1>2. TypeOK /\ TypeOK' /\ OpenInListing /\ IInv /\ CauseInv /\ GoalInv /\ [Next]_vars => GoalInv'
  BY GoalNext
<1> QED
  BY <1>1, <1>2, TypeAndRange, Invariance, CauseInvariance, PTL DEF Spec

(* What a client has of a goal grows along it. *)
LEMMA GrowsAlong ==
    ASSUME NEW a \in Seq(Row), NEW b \in Seq(Row), NEW g \in Seq(Row), Begins(a \o b, g)
    PROVE  a \o b \in {SubSeq(g, 1, n) : n \in Len(a) .. Len(g)}
<1> DEFINE c == a \o b
<1>1. c \in Seq(Row) /\ Len(c) = Len(a) + Len(b) /\ Len(a) \in Nat /\ Len(b) \in Nat
  BY ConcatProperties, LenProperties
<1>2. PICK w \in Seq(Row) : g = c \o w
  BY DEF Begins
<1> HIDE DEF c
<1>3. /\ Len(g) = Len(c) + Len(w) /\ Len(w) \in Nat /\ Len(c) \in Nat
      /\ \A i \in 1 .. Len(c) : g[i] = c[i]
  <2>1. c \in Seq(Row) /\ w \in Seq(Row) /\ Len(c) \in Nat /\ Len(w) \in Nat
    BY <1>1, LenProperties
  <2>2. /\ Len(c \o w) = Len(c) + Len(w)
        /\ \A i \in 1 .. Len(c) + Len(w) :
              (c \o w)[i] = IF i <= Len(c) THEN c[i] ELSE w[i - Len(c)]
    BY <2>1, ConcatProperties
  <2> QED
    BY <1>2, <2>1, <2>2
<1>4. SubSeq(g, 1, Len(c)) = c
  <2> DEFINE v == SubSeq(g, 1, Len(c))
  <2>1. \A i \in 1 .. Len(c) : g[i] \in Row
    BY <1>1, <1>3, ElementOfSeq
  <2>2. 1 \in Int /\ Len(c) \in Int
    BY <1>3
  <2>3. /\ v \in Seq(Row) /\ Len(v) = IF 1 =< Len(c) THEN Len(c) - 1 + 1 ELSE 0
        /\ \A m \in 1 .. Len(c) - 1 + 1 : v[m] = g[1 + m - 1]
    BY <2>1, <2>2, SubSeqProperties
  <2> HIDE DEF v
  <2>4. Len(v) = Len(c) /\ \A m \in 1 .. Len(v) : v[m] = c[m]
    <3>1. \A m \in 1 .. Len(c) : m \in 1 .. Len(c) - 1 + 1 /\ 1 + m - 1 = m
      BY <1>3
    <3> QED
      BY <1>3, <2>3, <3>1
  <2>5. v = c
    BY <1>1, <2>3, <2>4, SeqEqual
  <2> QED
    BY <2>5 DEF v
<1>5. Len(c) \in Len(a) .. Len(g)
  BY <1>1, <1>3
<1>6. c \in {SubSeq(g, 1, n) : n \in Len(a) .. Len(g)}
  BY <1>4, <1>5
<1> QED
  BY <1>6 DEF c

(* Every step of the scan is one of the abstract scan, or none.            *)
LEMMA StepImplements ==
    ASSUME TypeOK, TypeOK', IInv, CauseInv, GoalInv, GoalInv', CompleteWhenDone',
           Undisturbed', [Next]_vars
    PROVE  [Abstract!Next]_(Abstract!vars)
<1> USE DEF producer, client, budget
<1> DEFINE goal   == Goal(sources)
           defect == \E i \in 1 .. Len(sources) : ~Intact(sources[i])
<1>1. Undisturbed /\ sources' = sources /\ goal' = goal /\ defect' = defect
  BY UndisturbedStep
<1>2. goal \in Seq(Row)
  <2>1. sources \in Seq(Objects) /\ Len(sources) \in 0 .. Len(sources)
    BY LenProperties DEF TypeOK
  <2>2. Before(sources, Len(sources)) \in Seq(Row)
    BY <2>1, Parts
  <2> QED
    BY <2>2 DEF Before, Goal
<1>3. ASSUME Resumable
      PROVE  /\ delivered \in Abstract!Prefixes
             /\ delivered \o page \in Abstract!Prefixes
  <2>1. /\ delivered \in Seq(Row) /\ page \in Seq(Row) /\ <<>> \in Seq(Row)
        /\ delivered \o <<>> = delivered
    BY EmptySeq, ConcatEmptySeq DEF TypeOK
  <2>2. Begins(delivered, goal) /\ Begins(delivered \o page, goal)
    BY <1>1, <1>3, ClientBegins
  <2> HIDE DEF goal
  <2>3. delivered \o page \in {SubSeq(goal, 1, n) : n \in Len(delivered) .. Len(goal)}
    BY <1>2, <2>1, <2>2, GrowsAlong
  <2>4. delivered \o <<>> \in {SubSeq(goal, 1, n) : n \in Len(delivered) .. Len(goal)}
    BY <1>2, <2>1, <2>2, GrowsAlong
  <2> QED
    BY <2>1, <2>3, <2>4 DEF Abstract!Prefixes, goal
<1>4. ASSUME delivered' = delivered, Status' = Status
      PROVE  [Abstract!Next]_(Abstract!vars)
  BY <1>1, <1>4 DEF Abstract!vars
<1>5. ASSUME Fail, Resumable PROVE Abstract!Next
  <2>1. delivered' \in Abstract!Prefixes
    BY <1>3, <1>5 DEF Fail
  <2>2. Status = "running" /\ Status' = "failed"
    BY <1>5 DEF Fail, Resumable, Status
  <2> QED
    BY <1>1, <2>1, <2>2 DEF Abstract!Next, Abstract!Fail
<1>6. CASE SendPage
  <2>1. Resumable /\ delivered' = delivered \o page /\ Status = "running" /\ Status' = Status
    BY <1>6 DEF SendPage, Resumable, Status
  <2>2. delivered' \in Abstract!Prefixes
    BY <1>3, <2>1
  <2> QED
    BY <1>1, <2>1, <2>2 DEF Abstract!Next, Abstract!Deliver
<1>7. CASE EndOfScan
  <2>1. phase' = "done" /\ Status = "running" /\ Status' = "done"
    BY <1>7 DEF EndOfScan, LeaveLoop, Status
  <2>2. delivered' = goal
    BY <1>1, <2>1 DEF GoalInv
  <2>3. ~defect
    <3>1. ASSUME NEW i \in 1 .. Len(sources) PROVE Intact(sources[i])
      <4>1. i - 1 \in 0 .. Len(sources) - 1 /\ (i - 1) + 1 = i
        BY LenProperties DEF TypeOK
      <4>2. Intact(sources[(i - 1) + 1])
        BY <1>1, <2>1, <4>1 DEF CompleteWhenDone
      <4> QED
        BY <4>1, <4>2
    <3> QED
      BY <3>1
  <2> QED
    BY <1>1, <2>1, <2>2, <2>3 DEF Abstract!Next, Abstract!Finish
<1>8. CASE OpenFails \/ TakeFails \/ IoFault \/ ResolveFails
  BY <1>5, <1>8 DEF OpenFails, TakeFails, IoFault, ResolveFails, Room, Resumable
<1>9. CASE NextBatch \/ OpenSource \/ TakeRecord \/ Drained \/ EmitBatch
  BY <1>4, <1>9 DEF NextBatch, OpenSource, TakeRecord, Drained, EmitBatch, Room, LeaveLoop, Status
<1>10. CASE Resume \/ LosePage
  BY <1>4, <1>10 DEF Resume, LosePage, Status
<1>11. CASE Overwrite \/ Relist
  BY <1>4, <1>11 DEF Overwrite, Relist, Status
<1>12. CASE Over \/ UNCHANGED vars
  BY <1>4, <1>12 DEF Over, vars, Status
<1> QED
  BY <1>6, <1>7, <1>8, <1>9, <1>10, <1>11, <1>12
     DEF Next, Scan, Transport, Environment

(* While the sources stay as they are, the producers that are dropped and  *)
(* rebuilt between the pages are together one scan: the client receives    *)
(* longer and longer initial segments of the rows before the first defect, *)
(* all of them when the scan ends well, and then there was no defect.      *)
THEOREM ScanImplements == Spec /\ []Undisturbed => ImplementsScan
<1>1. Init => Abstract!Init
  BY DEF Init, Abstract!Init, Status
<1>2. TypeOK /\ TypeOK' /\ IInv /\ CauseInv /\ GoalInv /\ GoalInv' /\ CompleteWhenDone'
         /\ Undisturbed' /\ [Next]_vars => [Abstract!Next]_(Abstract!vars)
  BY StepImplements
<1> QED
  BY <1>1, <1>2, TypeCorrect, Invariance, CauseInvariance, GoalInvariance, ScanIsComplete, PTL
     DEF Spec, ImplementsScan, Abstract!Spec
=============================================================================
