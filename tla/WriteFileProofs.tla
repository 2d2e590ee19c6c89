-------------------------- MODULE WriteFileProofs --------------------------
(***************************************************************************)
(* What the writers promise, proved for any threads, batches, page size    *)
(* and number of faults: a row that does not encode leaves the destination *)
(* as it was (BadRowWritesNothing), and a statement that ends well has     *)
(* written every row once, in each thread's order (RowsWrittenOnce); what  *)
(* it wrote can be read back (WrittenReadsBack), and all of it implements  *)
(* the abstract sink (SinkImplemented).                                    *)
(*                                                                         *)
(* The last rests on RecInv, by which the rows encoded so far are those of *)
(* the batches up to afterId wherever the pages fall, and on FileInv, by   *)
(* which a local file is at every moment a beginning of the body.          *)
(***************************************************************************)
EXTENDS WriteFile, FramingProofs

Batches == Seq(Seq(Bytes) \cup {NoRecord})
Entries == [by : Threads, batch : Batches]

Encodes(batch) == \A k \in 1 .. Len(batch) : batch[k] # NoRecord

LogTyped == /\ work \in [Threads -> Seq(Batches)]
            /\ sent \in [Threads -> Nat]
            /\ log \in Seq(Entries)
            /\ afterId \in Int /\ afterId =< Len(log)

(* What was handed to process is in the log. *)
Kept == \A t \in Threads :
           /\ sent[t] =< Len(work[t])
           /\ \A k \in 1 .. sent[t] :
                 \E i \in 1 .. Len(log) : log[i].batch = work[t][k]

(* The finalizer starts when nothing is left to hand over, and what it has *)
(* scanned has been encoded.                                               *)
ScanInv == phase = "scan" =>
              /\ \A t \in Threads : sent[t] = Len(work[t])
              /\ \A i \in 1 .. Len(log) : i =< afterId => Encodes(log[i].batch)

(* Nothing is written before every row of the relation was encoded. *)
PutInv == /\ phase \in {"assemble", "write", "writing", "reply", "done"} => AllEncode
          /\ file # Old => AllEncode

IInv == LogTyped /\ Kept /\ ScanInv /\ PutInv

LEMMA InitInv == Init => IInv
<1> SUFFICES ASSUME Init PROVE IInv
  OBVIOUS
<1>1. log = <<>> /\ log \in Seq(Entries) /\ Len(log) = 0
  BY EmptySeq DEF Init
<1>2. LogTyped
  BY <1>1, RowsAssumption DEF Init, LogTyped, Batches
<1>3. \A t \in Threads : sent[t] = 0 /\ work[t] \in Seq(Batches) /\ Len(work[t]) \in Nat
  BY <1>2, LenProperties DEF Init, LogTyped
<1>4. Kept
  BY <1>3 DEF Kept
<1>5. ScanInv /\ PutInv
  BY DEF Init, ScanInv, PutInv
<1> QED
  BY <1>2, <1>4, <1>5 DEF IInv

(* Lengths in states of the invariant. *)
LEMMA Lengths ==
    ASSUME IInv
    PROVE  /\ Len(log) \in Nat
           /\ \A t \in Threads : work[t] \in Seq(Batches) /\ Len(work[t]) \in Nat
                                 /\ sent[t] \in Nat /\ sent[t] =< Len(work[t])
  BY LenProperties DEF IInv, LogTyped, Kept

(* What one process call does to the log. *)
LEMMA ProcessInv ==
    ASSUME IInv, NEW t \in Threads, Process(t)
    PROVE  IInv'
<1> DEFINE entry == [by |-> t, batch |-> work[t][sent[t] + 1]]
<1>1. /\ Len(log) \in Nat /\ log \in Seq(Entries)
      /\ \A u \in Threads : work[u] \in Seq(Batches) /\ Len(work[u]) \in Nat
                            /\ sent[u] \in Nat /\ sent[u] =< Len(work[u])
  BY Lengths DEF IInv, LogTyped
<1>2. /\ phase = "process" /\ phase' = "process" /\ sent[t] < Len(work[t])
      /\ log' = Append(log, entry)
      /\ sent' = [sent EXCEPT ![t] = @ + 1]
      /\ work' = work /\ file' = file /\ afterId' = afterId
  BY DEF Process, statement
<1>3. sent[t] + 1 \in 1 .. Len(work[t])
  BY <1>1, <1>2
<1>4. entry \in Entries
  BY <1>1, <1>3, ElementOfSeq DEF Entries
<1> HIDE DEF entry
<1>5. /\ log' \in Seq(Entries) /\ Len(log') = Len(log) + 1
      /\ \A i \in 1 .. Len(log) : log'[i] = log[i]
      /\ log'[Len(log) + 1] = entry
  BY <1>1, <1>2, <1>4, AppendProperties
<1>6. LogTyped'
  BY <1>1, <1>2, <1>5 DEF IInv, LogTyped
<1>7. entry.batch = work[t][sent[t] + 1]
  BY DEF entry
<1>8. Kept'
  <2> SUFFICES ASSUME NEW u \in Threads
               PROVE  /\ sent'[u] =< Len(work[u])
                      /\ \A k \in 1 .. sent'[u] :
                            \E i \in 1 .. Len(log') : log'[i].batch = work[u][k]
    BY <1>2 DEF Kept
  <2>1. sent'[u] = IF u = t THEN sent[t] + 1 ELSE sent[u]
    BY <1>2 DEF IInv, LogTyped
  <2>2. sent'[u] =< Len(work[u])
    BY <2>1, <1>1, <1>2
  <2>3. ASSUME NEW k \in 1 .. sent'[u]
        PROVE  \E i \in 1 .. Len(log') : log'[i].batch = work[u][k]
    <3>1. CASE k =< sent[u]
      <4>1. k \in 1 .. sent[u]
        BY <3>1, <1>1, <2>1
      <4>2. PICK i \in 1 .. Len(log) : log[i].batch = work[u][k]
        BY <4>1 DEF IInv, Kept
      <4>3. i \in 1 .. Len(log') /\ log'[i].batch = work[u][k]
        BY <4>2, <1>5, <1>1
      <4> QED
        BY <4>3
    <3>2. CASE ~(k =< sent[u])
      <4>1. u = t /\ k = sent[t] + 1
        BY <3>2, <2>1, <1>1
      <4>2. Len(log) + 1 \in 1 .. Len(log')
        BY <1>1, <1>5
      <4> QED
        BY <4>1, <4>2, <1>5, <1>7
    <3> QED
      BY <3>1, <3>2
  <2> QED
    BY <2>2, <2>3
<1>9. ScanInv' /\ PutInv'
  BY <1>2 DEF IInv, ScanInv, PutInv, AllEncode
<1> QED
  BY <1>6, <1>8, <1>9 DEF IInv

(* The page of a scan: the batches from Scanned + 1 to PageEnd. *)
LEMMA PageBatches ==
    ASSUME IInv
    PROVE  /\ Scanned \in Nat /\ PageEnd \in Nat /\ Scanned =< Len(log) /\ PageEnd =< Len(log)
           /\ Scanned < Len(log) => Scanned < PageEnd
           /\ call # "write" => PageEnd = Len(log)
           /\ Scanned =< PageEnd
           /\ Len(Page) = PageEnd - Scanned
           /\ \A i \in 1 .. PageEnd - Scanned : Page[i] = log[Scanned + i]
<1>1. /\ Len(log) \in Nat /\ log \in Seq(Entries)
      /\ afterId \in Int /\ afterId =< Len(log) /\ PageSize \in Nat \ {0}
  BY Lengths, PageAssumption DEF IInv, LogTyped
<1>2. /\ Scanned \in Nat /\ Scanned =< Len(log)
      /\ PageEnd \in Nat /\ PageEnd =< Len(log) /\ Scanned =< PageEnd
      /\ Scanned < Len(log) => Scanned < PageEnd
      /\ call # "write" => PageEnd = Len(log)
  BY <1>1 DEF Scanned, PageEnd
<1> HIDE DEF Scanned, PageEnd
<1>3. /\ Scanned + 1 \in Int /\ PageEnd \in Int
      /\ \A i \in Scanned + 1 .. PageEnd : log[i] \in Entries
  <2>1. \A i \in Scanned + 1 .. PageEnd : i \in 1 .. Len(log)
    BY <1>1, <1>2
  <2> QED
    BY <1>1, <1>2, <2>1, ElementOfSeq
<1>4. /\ Len(Page) = IF Scanned + 1 =< PageEnd THEN PageEnd - (Scanned + 1) + 1 ELSE 0
      /\ \A i \in 1 .. PageEnd - (Scanned + 1) + 1 : Page[i] = log[Scanned + 1 + i - 1]
  BY <1>1, <1>3, SubSeqProperties DEF Page
<1> HIDE DEF Page
<1>5. Len(Page) = PageEnd - Scanned
  BY <1>2, <1>4
<1>6. ASSUME NEW i \in 1 .. PageEnd - Scanned PROVE Page[i] = log[Scanned + i]
  <2>1. i \in 1 .. PageEnd - (Scanned + 1) + 1 /\ Scanned + 1 + i - 1 = Scanned + i
    BY <1>2
  <2> QED
    BY <2>1, <1>4
<1> QED
  BY <1>2, <1>5, <1>6

LEMMA ScanInvariant ==
    ASSUME IInv, ScanPage
    PROVE  IInv'
<1>1. /\ Len(log) \in Nat
      /\ \A t \in Threads : sent[t] = Len(work[t]) /\ Len(work[t]) \in Nat
      /\ \A i \in 1 .. Len(log) : i =< afterId => Encodes(log[i].batch)
      /\ afterId \in Int
  BY Lengths DEF IInv, LogTyped, ScanInv, ScanPage
<1>2. phase = "scan" /\ UNCHANGED <<work, call, sent, log, file>>
  BY DEF ScanPage, statement
<1>3. CASE ~Encodable(Page)
  BY <1>2, <1>3 DEF ScanPage, IInv, LogTyped, Kept, ScanInv, PutInv, AllEncode
<1>4. CASE Encodable(Page)
  <2>1. /\ phase' = IF LastPage THEN "assemble" ELSE "scan"
        /\ afterId' = Scanned + Len(Page)
    BY <1>4 DEF ScanPage
  <2>2. /\ Scanned \in Nat /\ PageEnd \in Nat /\ PageEnd =< Len(log) /\ Scanned =< PageEnd
        /\ Scanned < Len(log) => Scanned < PageEnd
        /\ call # "write" => PageEnd = Len(log)
        /\ Len(Page) = PageEnd - Scanned
        /\ \A i \in 1 .. PageEnd - Scanned : Page[i] = log[Scanned + i]
    BY PageBatches
  <2>3. afterId' = PageEnd
    BY <2>1, <2>2
  <2>4. \A i \in 1 .. Len(log) : i =< PageEnd => Encodes(log[i].batch)
    <3> SUFFICES ASSUME NEW i \in 1 .. Len(log), i =< PageEnd PROVE Encodes(log[i].batch)
      OBVIOUS
    <3>1. CASE i =< Scanned
      <4>1. i =< afterId
        BY <3>1, <1>1 DEF Scanned
      <4> QED
        BY <4>1, <1>1
    <3>2. CASE ~(i =< Scanned)
      <4>1. i - Scanned \in 1 .. PageEnd - Scanned /\ Scanned + (i - Scanned) = i
        BY <3>2, <2>2
      <4>2. Page[i - Scanned] = log[i]
        BY <4>1, <2>2
      <4>3. \A k \in 1 .. Len(Page[i - Scanned].batch) : Page[i - Scanned].batch[k] # NoRecord
        BY <4>1, <2>2, <1>4 DEF Encodable
      <4> QED
        BY <4>2, <4>3 DEF Encodes
    <3> QED
      BY <3>1, <3>2
  <2>5. LogTyped' /\ Kept'
    BY <1>2, <2>2, <2>3 DEF IInv, LogTyped, Kept
  <2>6. ScanInv'
    BY <1>1, <1>2, <2>3, <2>4 DEF ScanInv
  <2>7. CASE LastPage
    <3>1. PageEnd = Len(log)
      <4>1. CASE call # "write"
        BY <4>1, <2>2
      <4>2. CASE Page = <<>> /\ call = "write"
        <5>1. Len(Page) = 0
          BY <4>2, EmptySeq
        <5> QED
          BY <5>1, <2>2, <1>1
      <4> QED
        BY <4>1, <4>2, <2>7 DEF LastPage
    <3>2. \A i \in 1 .. Len(log) : Encodes(log[i].batch)
      BY <3>1, <2>4, <1>1
    <3>3. AllEncode
      <4> SUFFICES ASSUME NEW t \in Threads, NEW j \in 1 .. Len(work[t])
                   PROVE  Encodes(work[t][j])
        BY DEF AllEncode, Encodes
      <4>1. PICK i \in 1 .. Len(log) : log[i].batch = work[t][j]
        BY <1>1 DEF IInv, Kept
      <4> QED
        BY <4>1, <3>2
    <3>4. AllEncode'
      BY <3>3, <1>2 DEF AllEncode
    <3> QED
      BY <3>4, <2>5, <2>6 DEF IInv, PutInv
  <2>8. CASE ~LastPage
    <3>1. phase' = "scan"
      BY <2>1, <2>8
    <3>2. PutInv'
      BY <3>1, <1>2 DEF IInv, PutInv, AllEncode
    <3> QED
      BY <3>2, <2>5, <2>6 DEF IInv
  <2> QED
    BY <2>7, <2>8
<1> QED
  BY <1>3, <1>4

LEMMA NextInv == IInv /\ [Next]_vars => IInv'
<1> SUFFICES ASSUME IInv, [Next]_vars PROVE IInv'
  OBVIOUS
<1> USE DEF statement
<1>1. CASE ProcessAny
  BY <1>1, ProcessInv DEF ProcessAny
<1>2. CASE Combine
  <2>1. afterId' \in Int /\ afterId' =< 0
    BY <1>2 DEF Combine
  <2>2. /\ \A t \in Threads : sent[t] = Len(work[t])
        /\ UNCHANGED <<work, sent, log, file>>
        /\ phase = "process" /\ phase' = "scan"
    BY <1>2 DEF Combine
  <2>3. Len(log) \in Nat
    BY Lengths
  <2>4. LogTyped' /\ Kept'
    BY <2>1, <2>2, <2>3 DEF IInv, LogTyped, Kept
  <2>5. ScanInv'
    <3>1. \A i \in 1 .. Len(log) : ~(i =< afterId')
      BY <2>1, <2>3
    <3> QED
      BY <2>2, <3>1 DEF ScanInv
  <2>6. PutInv'
    BY <2>2 DEF IInv, PutInv, AllEncode
  <2> QED
    BY <2>4, <2>5, <2>6 DEF IInv
<1>3. CASE ScanPage
  BY <1>3, ScanInvariant
<1> USE DEF IInv, LogTyped, Kept, ScanInv, PutInv, AllEncode
<1>4. CASE AssembleBody
  BY <1>4 DEF AssembleBody
<1>5. CASE RefuseWeb
  BY <1>5 DEF RefuseWeb
<1>6. CASE Put
  BY <1>6 DEF Put
<1>7. CASE PutFails
  BY <1>7 DEF PutFails
<1>8. CASE Local
  <2>1. CASE Truncate
    BY <2>1 DEF Truncate
  <2>2. CASE WriteSome
    <3>1. UNCHANGED <<work, sent, log, afterId, phase>> /\ phase = "writing"
      BY <2>2 DEF WriteSome
    <3> QED
      BY <3>1
  <2>3. CASE WriteDone
    BY <2>3 DEF WriteDone
  <2> QED
    BY <1>8, <2>1, <2>2, <2>3 DEF Local
<1>9. CASE LocalFails
  BY <1>9 DEF LocalFails
<1>10. CASE Reply
  BY <1>10 DEF Reply
<1>11. CASE Crash
  BY <1>11 DEF Crash
<1>12. CASE UNCHANGED vars
  BY <1>12 DEF vars
<1> QED
  BY <1>1, <1>2, <1>3, <1>4, <1>5, <1>6, <1>7, <1>8, <1>9, <1>10, <1>11, <1>12
     DEF Next, Run, Ended

(* A relation with a row that does not encode leaves the destination as it *)
(* was and is never reported as written: the finalizer encodes every batch *)
(* of every thread before it opens the file (write_fixed.rs, copy_to.rs).  *)
THEOREM BadRowWritesNothing == Spec => []BadRowKeepsFile
<1>1. IInv => BadRowKeepsFile
  BY DEF IInv, PutInv, BadRowKeepsFile
<1> QED
  BY <1>1, InitInv, NextInv, PTL DEF Spec

-----------------------------------------------------------------------------
(* The rows of the log. *)

LEMMA EntryFields ==
    ASSUME NEW e \in Seq(Entries), NEW i \in 1 .. Len(e)
    PROVE  e[i].by \in Threads /\ e[i].batch \in Batches
<1>1. e[i] \in Entries
  BY ElementOfSeq
<1> QED
  BY <1>1 DEF Entries

LEMMA RowsType ==
    ASSUME NEW e \in Seq(Entries)
    PROVE  /\ [i \in 1 .. Len(e) |-> e[i].batch] \in Seq(Batches)
           /\ AllRows(e) \in Batches
           /\ Encodable(e) => AllRows(e) \in Seq(Seq(Bytes))
           /\ e = <<>> => AllRows(e) = <<>>
<1> DEFINE bs == [i \in 1 .. Len(e) |-> e[i].batch]
<1>1. Len(e) \in Nat /\ \A i \in 1 .. Len(e) : e[i].batch \in Batches
  BY EntryFields, LenProperties
<1>2. bs \in Seq(Batches)
  BY <1>1
<1>3. ASSUME Encodable(e) PROVE bs \in Seq(Seq(Seq(Bytes)))
  <2>1. ASSUME NEW i \in 1 .. Len(e) PROVE e[i].batch \in Seq(Seq(Bytes))
    <3> DEFINE q == e[i].batch
    <3>1. q \in Seq(Seq(Bytes) \cup {NoRecord})
      BY <1>1 DEF Batches
    <3>2. \A k \in 1 .. Len(q) : q[k] # NoRecord
      BY <1>3 DEF Encodable
    <3> HIDE DEF q
    <3>3. Len(q) \in Nat /\ q = [k \in 1 .. Len(q) |-> q[k]]
      BY <3>1, LenProperties
    <3>4. \A k \in 1 .. Len(q) : q[k] \in Seq(Bytes)
      BY <3>1, <3>2, ElementOfSeq
    <3>5. q \in Seq(Seq(Bytes))
      BY <3>3, <3>4
    <3> QED
      BY <3>5 DEF q
  <2> QED
    BY <1>1, <2>1
<1>4. FlattenSeq(bs) \in Batches
  BY <1>2, FlattenType DEF Batches
<1>5. Encodable(e) => FlattenSeq(bs) \in Seq(Seq(Bytes))
  BY <1>3, FlattenType
<1>6. e = <<>> => FlattenSeq(bs) = <<>>
  <2>1. e = <<>> => bs = <<>>
    BY EmptySeq
  <2> QED
    BY <1>2, <2>1, FlattenType DEF Batches
<1> QED
  BY <1>2, <1>4, <1>5, <1>6 DEF AllRows

LEMMA RowsConcat ==
    ASSUME NEW d \in Seq(Entries), NEW e \in Seq(Entries)
    PROVE  AllRows(d \o e) = AllRows(d) \o AllRows(e)
<1> DEFINE f  == d \o e
           ds == [i \in 1 .. Len(d) |-> d[i].batch]
           es == [i \in 1 .. Len(e) |-> e[i].batch]
           fs == [i \in 1 .. Len(f) |-> f[i].batch]
<1>1. /\ Len(d) \in Nat /\ Len(e) \in Nat
      /\ f \in Seq(Entries) /\ Len(f) = Len(d) + Len(e)
      /\ \A i \in 1 .. Len(d) + Len(e) : f[i] = IF i <= Len(d) THEN d[i] ELSE e[i - Len(d)]
  BY ConcatProperties, LenProperties
<1> HIDE DEF f
<1>2. ds \in Seq(Batches) /\ es \in Seq(Batches) /\ fs \in Seq(Batches)
  BY <1>1, RowsType
<1>3. Len(ds) = Len(d) /\ Len(es) = Len(e) /\ Len(fs) = Len(f)
  BY <1>1
<1>4. ASSUME NEW i \in 1 .. Len(fs)
      PROVE  fs[i] = IF i <= Len(ds) THEN ds[i] ELSE es[i - Len(ds)]
  <2>1. CASE i <= Len(d)
    BY <1>1, <1>3, <2>1
  <2>2. CASE ~(i <= Len(d))
    <3>1. i - Len(d) \in 1 .. Len(e)
      BY <1>1, <1>3, <2>2
    <3> QED
      BY <1>1, <1>3, <2>2, <3>1
  <2> QED
    BY <2>1, <2>2
<1> DEFINE g == ds \o es
<1> HIDE DEF ds, es, fs
<1>5. /\ g \in Seq(Batches) /\ Len(g) = Len(ds) + Len(es)
      /\ \A i \in 1 .. Len(ds) + Len(es) : g[i] = IF i <= Len(ds) THEN ds[i] ELSE es[i - Len(ds)]
  BY <1>2, ConcatProperties
<1> HIDE DEF g
<1>6. fs = g
  <2>1. Len(fs) = Len(g) /\ \A i \in 1 .. Len(fs) : fs[i] = g[i]
    BY <1>1, <1>3, <1>4, <1>5
  <2> QED
    BY <1>2, <1>5, <2>1, SeqEqual
<1>7. FlattenSeq(ds \o es) = FlattenSeq(ds) \o FlattenSeq(es)
  BY <1>2, FlattenConcat DEF Batches
<1> QED
  BY <1>6, <1>7 DEF AllRows, f, g, ds, es, fs

-----------------------------------------------------------------------------
(* Every row once. *)

(* The statement, and what the log holds of it. *)
LogInv ==
    /\ work \in Works /\ call \in Calls /\ framing \in WrittenWith /\ dest \in Dests
    /\ \A i \in 1 .. Len(log) : \E t \in Threads : \E k \in 1 .. sent[t] :
          log[i] = [by |-> t, batch |-> work[t][k]]
    /\ \A t \in Threads : SentBy(t) = SubSeq(work[t], 1, sent[t])
    /\ phase \in Phases /\ afterId >= -1
    /\ faults \in 0 .. MaxFaults

AfterScan == {"assemble", "write", "writing", "reply", "done"}

(* The rows encoded so far. *)
RecInv ==
    /\ records \in Seq(Seq(Bytes))
    /\ phase = "process" => records = <<>>
    /\ phase = "scan" => records = AllRows(SubSeq(log, 1, Scanned))
    /\ phase \in AfterScan => /\ records = AllRows(log) /\ Encodable(log)
                             /\ \A t \in Threads : sent[t] = Len(work[t])

(* The destination. *)
FileInv ==
    /\ body \in Seq(Bytes) /\ file \in Seq(Bytes) /\ written \in 0 .. Len(body)
    /\ phase \in {"process", "scan", "assemble", "write"} => file = Old /\ written = 0
    /\ phase \in {"write", "writing", "reply", "done"} => body = Assemble(records, framing)
    /\ phase = "writing" => dest = "local" /\ file = SubSeq(body, 1, written)
    /\ phase \in {"reply", "done"} => file = body
    /\ file = Old \/ IsPrefix(file, body)
    /\ answer.rows \in Int /\ answer.bytes \in Int
    /\ phase = "done" => answer = [rows |-> Len(records), bytes |-> Len(body)]

RowsInv == LogInv /\ RecInv /\ FileInv

LEMMA InitRows ==
    ASSUME Init
    PROVE  RowsInv
<1>1. log = <<>> /\ Len(log) = 0 /\ records = <<>> /\ body = <<>> /\ Len(body) = 0
  BY EmptySeq DEF Init
<1>2. LogInv
  <2>1. ASSUME NEW t \in Threads PROVE SentBy(t) = SubSeq(work[t], 1, sent[t])
    <3>1. [i \in 1 .. Len(log) |-> IF log[i].by = t THEN <<log[i].batch>> ELSE <<>>] = <<>>
      BY <1>1
    <3>2. <<>> \in Seq(Seq(Batches))
      BY EmptySeq
    <3>3. SentBy(t) = <<>>
      BY <3>1, <3>2, FlattenType DEF SentBy
    <3>4. SubSeq(work[t], 1, 0) = <<>>
      BY SubSeqEmpty
    <3>5. sent[t] = 0
      BY DEF Init
    <3> QED
      BY <3>3, <3>4, <3>5
  <2> QED
    BY <1>1, <2>1, PageAssumption DEF Init, LogInv, Phases
<1>3. <<>> \in Seq(Seq(Bytes)) /\ <<>> \in Seq(Bytes) /\ file = Old /\ Old \in Seq(Bytes)
  BY EmptySeq, DestAssumption DEF Init
<1>4. RecInv
  BY <1>1, <1>3 DEF Init, RecInv, AfterScan
<1>5. FileInv
  BY <1>1, <1>3 DEF Init, FileInv, NoAnswer
<1> QED
  BY <1>2, <1>4, <1>5 DEF RowsInv

LEMMA ProcessRows ==
    ASSUME IInv, IInv', RowsInv, NEW t \in Threads, Process(t)
    PROVE  RowsInv'
<1> DEFINE entry == [by |-> t, batch |-> work[t][sent[t] + 1]]
<1>1. /\ Len(log) \in Nat /\ log \in Seq(Entries)
      /\ \A u \in Threads : work[u] \in Seq(Batches) /\ Len(work[u]) \in Nat
                            /\ sent[u] \in Nat /\ sent[u] =< Len(work[u])
  BY Lengths DEF IInv, LogTyped
<1>2. /\ phase = "process" /\ phase' = "process" /\ sent[t] < Len(work[t])
      /\ log' = Append(log, entry)
      /\ sent' = [sent EXCEPT ![t] = @ + 1]
      /\ UNCHANGED <<work, call, framing, dest, file, afterId, records, body, written, answer, faults>>
  BY DEF Process, statement
<1>3. sent[t] + 1 \in 1 .. Len(work[t])
  BY <1>1, <1>2
<1>4. entry \in Entries
  BY <1>1, <1>3, ElementOfSeq DEF Entries
<1>5. entry.by = t /\ entry.batch = work[t][sent[t] + 1] /\ entry.batch \in Batches
  BY <1>1, <1>3, ElementOfSeq
<1> HIDE DEF entry
<1>6. /\ log' \in Seq(Entries) /\ Len(log') = Len(log) + 1
      /\ \A i \in 1 .. Len(log) : log'[i] = log[i]
      /\ log'[Len(log) + 1] = entry
  BY <1>1, <1>2, <1>4, AppendProperties
<1>7. \A u \in Threads : sent'[u] = IF u = t THEN sent[t] + 1 ELSE sent[u]
  BY <1>2 DEF IInv, LogTyped
<1>8. ASSUME NEW i \in 1 .. Len(log')
      PROVE  \E u \in Threads : \E k \in 1 .. sent'[u] : log'[i] = [by |-> u, batch |-> work[u][k]]
  <2>1. CASE i \in 1 .. Len(log)
    <3>1. PICK u \in Threads : \E k \in 1 .. sent[u] : log[i] = [by |-> u, batch |-> work[u][k]]
      BY <2>1 DEF RowsInv, LogInv
    <3>2. \A k \in 1 .. sent[u] : k \in 1 .. sent'[u]
      BY <1>1, <1>7
    <3> QED
      BY <2>1, <1>6, <3>1, <3>2
  <2>2. CASE i = Len(log) + 1
    <3>1. sent[t] + 1 \in 1 .. sent'[t]
      BY <1>1, <1>7
    <3>2. log'[i] = [by |-> t, batch |-> work[t][sent[t] + 1]]
      BY <2>2, <1>6 DEF entry
    <3> QED
      BY <3>1, <3>2
  <2> QED
    BY <2>1, <2>2, <1>1, <1>6
<1>9. ASSUME NEW u \in Threads PROVE SentBy(u)' = SubSeq(work[u], 1, sent'[u])
  <2> DEFINE ps == [i \in 1 .. Len(log) |-> IF log[i].by = u THEN <<log[i].batch>> ELSE <<>>]
             qs == [i \in 1 .. Len(log') |-> IF log'[i].by = u THEN <<log'[i].batch>> ELSE <<>>]
             p  == IF entry.by = u THEN <<entry.batch>> ELSE <<>>
  <2>1. ASSUME NEW e \in Entries
        PROVE  (IF e.by = u THEN <<e.batch>> ELSE <<>>) \in Seq(Batches)
    BY <2>1, EmptySeq DEF Entries
  <2>2. p \in Seq(Batches)
    BY <1>4, <2>1
  <2>3. ps \in Seq(Seq(Batches)) /\ Len(ps) = Len(log)
    <3>1. \A i \in 1 .. Len(log) : (IF log[i].by = u THEN <<log[i].batch>> ELSE <<>>) \in Seq(Batches)
      BY <1>1, <2>1, ElementOfSeq
    <3> QED
      BY <1>1, <3>1
  <2>4. qs \in Seq(Seq(Batches)) /\ Len(qs) = Len(log) + 1
    <3>1. \A i \in 1 .. Len(log') : (IF log'[i].by = u THEN <<log'[i].batch>> ELSE <<>>) \in Seq(Batches)
      BY <1>6, <2>1, ElementOfSeq
    <3> QED
      BY <1>1, <1>6, <3>1
  <2>5. (\A i \in 1 .. Len(log) : qs[i] = ps[i]) /\ qs[Len(log) + 1] = p
    BY <1>1, <1>6
  <2> DEFINE r == Append(ps, p)
  <2> HIDE DEF ps, qs, p
  <2>6. /\ r \in Seq(Seq(Batches)) /\ Len(r) = Len(log) + 1
        /\ \A i \in 1 .. Len(log) : r[i] = ps[i]
        /\ r[Len(log) + 1] = p
    BY <2>2, <2>3, AppendProperties
  <2> HIDE DEF r
  <2>7. qs = r
    <3>1. ASSUME NEW i \in 1 .. Len(qs) PROVE qs[i] = r[i]
      <4>1. i \in 1 .. Len(log) \/ i = Len(log) + 1
        BY <1>1, <2>4
      <4>2. CASE i \in 1 .. Len(log)
        BY <4>2, <2>5, <2>6
      <4>3. CASE i = Len(log) + 1
        BY <4>3, <2>5, <2>6
      <4> QED
        BY <4>1, <4>2, <4>3
    <3>2. Len(qs) = Len(r)
      BY <2>4, <2>6
    <3> QED
      BY <2>4, <2>6, <3>1, <3>2, SeqEqual
  <2>8. FlattenSeq(qs) = FlattenSeq(ps) \o p
    BY <2>2, <2>3, <2>7, FlattenAppend DEF r
  <2>9. SentBy(u)' = SentBy(u) \o p
    BY <2>8 DEF SentBy, ps, qs
  <2>10. SentBy(u) = SubSeq(work[u], 1, sent[u])
    BY DEF RowsInv, LogInv
  <2>11. CASE u = t
    <3>1. p = <<work[t][sent[t] + 1]>>
      BY <2>11, <1>5 DEF p
    <3>2. 1 \in 1 .. Len(work[t]) /\ sent[t] + 1 \in 1 .. Len(work[t]) /\ (sent[t] + 1) - 1 = sent[t]
      BY <1>1, <1>3
    <3>3. SubSeq(work[t], 1, sent[t] + 1) = SubSeq(work[t], 1, (sent[t] + 1) - 1) \o <<work[t][sent[t] + 1]>>
      BY <1>1, <3>2, SubSeqRecursiveSecond
    <3> QED
      BY <2>9, <2>10, <2>11, <3>1, <3>2, <3>3, <1>7
  <2>12. CASE u # t
    <3>1. p = <<>> /\ sent'[u] = sent[u]
      BY <2>12, <1>5, <1>7 DEF p
    <3>2. \A i \in 1 .. sent[u] : work[u][i] \in Batches
      <4>1. \A i \in 1 .. sent[u] : i \in 1 .. Len(work[u])
        BY <1>1
      <4> QED
        BY <1>1, <4>1, ElementOfSeq
    <3>3. SubSeq(work[u], 1, sent[u]) \in Seq(Batches)
      <4>1. 1 \in Int /\ sent[u] \in Int
        BY <1>1
      <4> QED
        BY <3>2, <4>1, SubSeqProperties
    <3>4. SubSeq(work[u], 1, sent[u]) \o <<>> = SubSeq(work[u], 1, sent[u])
      BY <3>3, ConcatEmptySeq
    <3> QED
      BY <2>9, <2>10, <3>1, <3>4
  <2> QED
    BY <2>11, <2>12
<1>10. LogInv'
  BY <1>2, <1>8, <1>9 DEF RowsInv, LogInv
<1>11. RecInv' /\ FileInv'
  BY <1>2 DEF RowsInv, RecInv, FileInv, AfterScan
<1> QED
  BY <1>10, <1>11 DEF RowsInv

(* A page adds the rows of its batches to those of the batches before it.  *)
LEMMA PageRows ==
    ASSUME IInv
    PROVE  /\ SubSeq(log, 1, Scanned) \in Seq(Entries) /\ Page \in Seq(Entries)
           /\ SubSeq(log, 1, PageEnd) = SubSeq(log, 1, Scanned) \o Page
<1>1. /\ Scanned \in Nat /\ PageEnd \in Nat /\ PageEnd =< Len(log) /\ Scanned =< PageEnd
      /\ Len(log) \in Nat /\ log \in Seq(Entries)
  BY PageBatches, Lengths DEF IInv, LogTyped
<1> HIDE DEF Scanned, PageEnd
<1>2. ASSUME NEW m \in 1 .. Len(log) + 1, NEW n \in 0 .. Len(log)
      PROVE  SubSeq(log, m, n) \in Seq(Entries)
  <2>1. \A i \in m .. n : i \in 1 .. Len(log)
    BY <1>1
  <2>2. m \in Int /\ n \in Int /\ \A i \in m .. n : log[i] \in Entries
    BY <1>1, <2>1, ElementOfSeq
  <2> QED
    BY <2>2, SubSeqProperties
<1>3. /\ 1 \in 1 .. Len(log) + 1 /\ Scanned + 1 \in 1 .. Len(log) + 1
      /\ Scanned \in 1 - 1 .. Len(log) /\ PageEnd \in Scanned .. Len(log)
      /\ Scanned \in 0 .. Len(log) /\ PageEnd \in 0 .. Len(log)
  BY <1>1
<1>4. SubSeq(log, 1, Scanned) \o SubSeq(log, Scanned + 1, PageEnd) = SubSeq(log, 1, PageEnd)
  BY <1>1, <1>3, ConcatAdjacentSubSeq
<1> QED
  BY <1>2, <1>3, <1>4 DEF Page

LEMMA ScanRows ==
    ASSUME IInv, IInv', RowsInv, ScanPage
    PROVE  RowsInv'
<1>1. /\ phase = "scan"
      /\ UNCHANGED <<work, call, framing, dest, sent, log, body, file, written, answer, faults>>
      /\ \A t \in Threads : sent[t] = Len(work[t])
  BY DEF ScanPage, statement, IInv, ScanInv
<1>2. /\ Scanned \in Nat /\ PageEnd \in Nat /\ PageEnd =< Len(log)
      /\ Scanned < Len(log) => Scanned < PageEnd
      /\ call # "write" => PageEnd = Len(log)
      /\ Len(Page) = PageEnd - Scanned
      /\ Len(log) \in Nat /\ log \in Seq(Entries)
  BY PageBatches, Lengths DEF IInv, LogTyped
<1>3. \A u \in Threads : SentBy(u)' = SentBy(u)
  BY <1>1 DEF SentBy
<1>4. /\ records \in Seq(Seq(Bytes)) /\ records = AllRows(SubSeq(log, 1, Scanned))
      /\ afterId >= -1
  BY <1>1 DEF RowsInv, RecInv, LogInv
<1>5. CASE ~Encodable(Page)
  <2>1. phase' = "failed" /\ UNCHANGED <<afterId, records>>
    BY <1>5 DEF ScanPage
  <2>2. LogInv'
    BY <1>1, <1>3, <2>1 DEF RowsInv, LogInv, Phases
  <2>3. RecInv' /\ FileInv'
    BY <1>1, <2>1 DEF RowsInv, RecInv, FileInv, AfterScan
  <2> QED
    BY <2>2, <2>3 DEF RowsInv
<1>6. CASE Encodable(Page)
  <2>1. /\ phase' = IF LastPage THEN "assemble" ELSE "scan"
        /\ records' = records \o AllRows(Page)
        /\ afterId' = PageEnd
    BY <1>2, <1>6 DEF ScanPage
  <2>2. Page \in Seq(Entries) /\ AllRows(Page) \in Seq(Seq(Bytes))
    BY <1>6, PageRows, RowsType
  <2>3. records' \in Seq(Seq(Bytes))
    BY <1>4, <2>1, <2>2, ConcatProperties
  <2>4. records' = AllRows(SubSeq(log, 1, PageEnd))
    <3>1. SubSeq(log, 1, Scanned) \in Seq(Entries)
      BY PageRows
    <3>2. AllRows(SubSeq(log, 1, Scanned) \o Page) = AllRows(SubSeq(log, 1, Scanned)) \o AllRows(Page)
      BY <2>2, <3>1, RowsConcat
    <3>3. SubSeq(log, 1, PageEnd) = SubSeq(log, 1, Scanned) \o Page
      BY PageRows
    <3> QED
      BY <1>4, <2>1, <3>2, <3>3
  <2>5. afterId' >= -1 /\ Scanned' = PageEnd
    BY <1>2, <2>1 DEF Scanned
  <2>6. LogInv'
    BY <1>1, <1>3, <2>1, <2>5 DEF RowsInv, LogInv, Phases
  <2>7. FileInv'
    BY <1>1, <2>1 DEF RowsInv, FileInv
  <2>8. RecInv'
    <3>1. CASE ~LastPage
      <4>1. phase' = "scan"
        BY <2>1, <3>1
      <4> QED
        BY <1>1, <2>3, <2>4, <2>5, <4>1 DEF RecInv, AfterScan
    <3>2. CASE LastPage
      <4>1. phase' = "assemble"
        BY <2>1, <3>2
      <4>2. PageEnd = Len(log)
        <5>1. CASE call # "write"
          BY <1>2, <5>1
        <5>2. CASE Page = <<>> /\ call = "write"
          <6>1. Len(Page) = 0
            BY <5>2, EmptySeq
          <6> QED
            BY <6>1, <1>2
        <5> QED
          BY <5>1, <5>2, <3>2 DEF LastPage
      <4>3. records' = AllRows(log)
        BY <1>2, <2>4, <4>2, SubSeqFull
      <4>4. Encodable(log)
        <5>1. AllEncode
          BY <1>1, <4>1 DEF IInv, PutInv, AllEncode
        <5>2. ASSUME NEW i \in 1 .. Len(log) PROVE Encodes(log[i].batch)
          <6>1. PICK t \in Threads : \E k \in 1 .. sent[t] : log[i] = [by |-> t, batch |-> work[t][k]]
            BY DEF RowsInv, LogInv
          <6>2. PICK k \in 1 .. Len(work[t]) : log[i].batch = work[t][k]
            BY <1>1, <6>1
          <6> QED
            BY <5>1, <6>2 DEF AllEncode, Encodes
        <5> QED
          BY <5>2 DEF Encodable, Encodes
      <4> QED
        BY <1>1, <2>3, <4>1, <4>3, <4>4 DEF RecInv, AfterScan, Encodable
    <3> QED
      BY <3>1, <3>2
  <2> QED
    BY <2>6, <2>7, <2>8 DEF RowsInv
<1> QED
  BY <1>5, <1>6

(* The beginnings of the body. *)
LEMMA FirstBytes ==
    ASSUME NEW b \in Seq(Bytes), NEW n \in 0 .. Len(b)
    PROVE  /\ SubSeq(b, 1, n) \in Seq(Bytes) /\ Len(SubSeq(b, 1, n)) = n
           /\ IsPrefix(SubSeq(b, 1, n), b)
<1> DEFINE t == SubSeq(b, 1, n)
<1>1. Len(b) \in Nat /\ n \in Nat /\ 1 \in Int /\ n \in Int
  BY LenProperties
<1>2. \A i \in 1 .. n : b[i] \in Bytes
  <2>1. \A i \in 1 .. n : i \in 1 .. Len(b)
    BY <1>1
  <2> QED
    BY <2>1, ElementOfSeq
<1>3. t \in Seq(Bytes) /\ Len(t) = IF 1 <= n THEN n - 1 + 1 ELSE 0
  BY <1>1, <1>2, SubSeqProperties
<1>4. Len(t) = n
  BY <1>1, <1>3
<1> HIDE DEF t
<1>5. SubSeq(t, 1, Len(t)) = t
  BY <1>3, SubSeqFull
<1>6. SubSeq(b, 1, Len(t)) = t
  BY <1>4 DEF t
<1>7. IsPrefix(t, b)
  BY <1>1, <1>4, <1>5, <1>6 DEF IsPrefix
<1> QED
  BY <1>3, <1>4, <1>7 DEF t

LEMMA WholePrefix ==
    ASSUME NEW b \in Seq(Bytes)
    PROVE  IsPrefix(b, b) /\ IsPrefix(<<>>, b) /\ SubSeq(b, 1, 0) = <<>>
<1>1. Len(b) \in Nat /\ Len(b) \in 0 .. Len(b) /\ 0 \in 0 .. Len(b)
  BY LenProperties
<1>2. SubSeq(b, 1, Len(b)) = b /\ SubSeq(b, 1, 0) = <<>>
  BY SubSeqFull, SubSeqEmpty
<1> QED
  BY <1>1, <1>2, FirstBytes

(* A write call takes the file further into the body. *)
LEMMA WriteFurther ==
    ASSUME FileInv, WriteSome
    PROVE  FileInv'
<1>1. PICK n \in written + 1 .. Len(body) :
         /\ written' = n
         /\ file' = SubSeq(body, 1, n) \o SubSeq(file, n + 1, Len(file))
  BY DEF WriteSome
<1>2. /\ phase = "writing" /\ body \in Seq(Bytes) /\ written \in 0 .. Len(body)
      /\ file = SubSeq(body, 1, written) /\ dest = "local"
      /\ UNCHANGED <<phase, body, records, framing, answer, dest>>
  BY DEF FileInv, WriteSome, statement
<1>3. Len(body) \in Nat /\ n \in 0 .. Len(body)
  BY <1>2, LenProperties
<1>4. Len(file) = written
  BY <1>2, FirstBytes
<1>5. SubSeq(file, n + 1, Len(file)) = <<>>
  <2>1. n + 1 \in Int /\ written \in Int /\ written < n + 1
    BY <1>2, <1>3
  <2> QED
    BY <1>4, <2>1, SubSeqEmpty
<1>6. SubSeq(body, 1, n) \in Seq(Bytes) /\ IsPrefix(SubSeq(body, 1, n), body)
  BY <1>2, <1>3, FirstBytes
<1>7. file' = SubSeq(body, 1, n)
  <2>1. SubSeq(body, 1, n) \o <<>> = SubSeq(body, 1, n)
    BY <1>6, ConcatEmptySeq
  <2> QED
    BY <1>1, <1>5, <2>1
<1> QED
  BY <1>1, <1>2, <1>3, <1>6, <1>7 DEF FileInv

LEMMA NextRows ==
    ASSUME IInv, IInv', RowsInv, [Next]_vars
    PROVE  RowsInv'
<1> USE DEF statement
<1>0. UNCHANGED <<work, call, framing, dest, sent, log, afterId, faults>> /\ phase' \in Phases => LogInv'
  BY DEF RowsInv, LogInv, SentBy
<1>1. CASE ProcessAny
  BY <1>1, ProcessRows DEF ProcessAny
<1>2. CASE Combine
  <2>1. /\ phase = "process" /\ phase' = "scan" /\ afterId' \in {0, -1}
        /\ UNCHANGED <<work, call, framing, dest, sent, log, records, body, file, written, answer, faults>>
    BY <1>2 DEF Combine
  <2>2. Scanned' = 0
    BY <2>1 DEF Scanned
  <2>3. records = AllRows(SubSeq(log, 1, 0))
    <3>1. SubSeq(log, 1, 0) = <<>> /\ <<>> \in Seq(Entries)
      BY SubSeqEmpty, EmptySeq
    <3> QED
      BY <2>1, <3>1, RowsType DEF RowsInv, RecInv
  <2>4. LogInv'
    BY <2>1 DEF RowsInv, LogInv, SentBy, Phases
  <2>5. RecInv' /\ FileInv'
    BY <2>1, <2>2, <2>3 DEF RowsInv, RecInv, FileInv, AfterScan
  <2> QED
    BY <2>4, <2>5 DEF RowsInv
<1>3. CASE ScanPage
  BY <1>3, ScanRows
<1>4. CASE AssembleBody
  <2>1. /\ phase = "assemble" /\ phase' = "write" /\ body' = Assemble(records, framing)
        /\ UNCHANGED <<work, call, framing, dest, sent, log, afterId, records, file, written, answer, faults>>
    BY <1>4 DEF AssembleBody
  <2>2. body' \in Seq(Bytes)
    <3>1. framing \in Framings /\ records \in Seq(Seq(Bytes))
      BY DestAssumption DEF RowsInv, LogInv, RecInv
    <3> QED
      BY <2>1, <3>1, AssembleType
  <2>3. file' = Old /\ written' = 0 /\ written' \in 0 .. Len(body')
    BY <2>1, <2>2, LenProperties DEF RowsInv, FileInv
  <2>4. LogInv'
    BY <1>0, <2>1 DEF Phases
  <2>5. RecInv'
    BY <2>1 DEF RowsInv, RecInv, AfterScan, Encodable
  <2>6. FileInv'
    BY <2>1, <2>2, <2>3 DEF RowsInv, FileInv
  <2> QED
    BY <2>4, <2>5, <2>6 DEF RowsInv
<1> DEFINE quiet == UNCHANGED <<work, call, framing, dest, sent, log, afterId, records, body>>
<1>5. ASSUME quiet, phase \in AfterScan \/ phase' \notin AfterScan,
             phase' \in Phases \ {"process", "scan"}, faults' \in 0 .. MaxFaults, FileInv'
      PROVE  RowsInv'
  <2>1. LogInv'
    BY <1>5 DEF RowsInv, LogInv, SentBy
  <2>2. RecInv'
    BY <1>5 DEF RowsInv, RecInv, AfterScan, Encodable
  <2> QED
    BY <1>5, <2>1, <2>2 DEF RowsInv
<1>6. faults \in 0 .. MaxFaults /\ MaxFaults \in Nat /\ phase \in Phases
  BY PageAssumption DEF RowsInv, LogInv
<1> USE DEF AfterScan, Phases
<1>7. ASSUME phase' = "failed" \/ phase' = "crashed", UNCHANGED <<body, file, written, answer>>
      PROVE  FileInv'
  BY <1>7 DEF RowsInv, FileInv
<1>8. CASE RefuseWeb
  BY <1>5, <1>6, <1>7, <1>8 DEF RefuseWeb
<1>9. CASE Put \/ PutFails
  <2>1. /\ phase = "write" /\ dest = "object" /\ file' \in {file, body} /\ quiet
        /\ UNCHANGED <<written, answer>> /\ faults' \in 0 .. MaxFaults
        /\ phase' = "failed" \/ (phase' = "reply" /\ file' = body)
    BY <1>6, <1>9 DEF Put, PutFails
  <2>2. IsPrefix(body, body) /\ body \in Seq(Bytes)
    BY WholePrefix DEF RowsInv, FileInv
  <2>3. FileInv'
    BY <2>1, <2>2 DEF RowsInv, FileInv
  <2> QED
    BY <1>5, <2>1, <2>3
<1>10. CASE Truncate
  <2>1. /\ phase = "write" /\ phase' = "writing" /\ dest = "local" /\ file' = <<>> /\ quiet
        /\ UNCHANGED <<written, answer, faults>>
    BY <1>10 DEF Truncate
  <2>2. /\ IsPrefix(<<>>, body) /\ <<>> \in Seq(Bytes) /\ written = 0
        /\ SubSeq(body, 1, 0) = <<>>
    BY <2>1, WholePrefix, EmptySeq DEF RowsInv, FileInv
  <2>3. FileInv'
    BY <2>1, <2>2 DEF RowsInv, FileInv
  <2> QED
    BY <1>5, <1>6, <2>1, <2>3
<1>11. CASE WriteSome
  <2>1. phase = "writing" /\ phase' = phase /\ quiet /\ faults' = faults
    BY <1>11 DEF WriteSome
  <2>2. FileInv'
    BY <1>11, WriteFurther DEF RowsInv
  <2> QED
    BY <1>5, <1>6, <2>1, <2>2
<1>12. CASE WriteDone
  <2>1. /\ phase = "writing" /\ phase' = "reply" /\ written = Len(body) /\ quiet
        /\ UNCHANGED <<file, written, answer, faults>>
    BY <1>12 DEF WriteDone
  <2>2. body \in Seq(Bytes) /\ file = SubSeq(body, 1, written)
    BY <2>1 DEF RowsInv, FileInv
  <2>3. file = body
    BY <2>1, <2>2, SubSeqFull
  <2>4. FileInv'
    BY <2>1, <2>3 DEF RowsInv, FileInv
  <2> QED
    BY <1>5, <1>6, <2>1, <2>4
<1>13. CASE LocalFails
  BY <1>5, <1>6, <1>7, <1>13 DEF LocalFails
<1>14. CASE Reply
  <2>1. /\ phase = "reply" /\ phase' = "done" /\ quiet /\ UNCHANGED <<file, written, faults>>
        /\ answer' = [rows |-> Len(records), bytes |-> Len(body)]
    BY <1>14 DEF Reply
  <2>2. Len(records) \in Int /\ Len(body) \in Int
    BY LenProperties DEF RowsInv, RecInv, FileInv
  <2>3. FileInv'
    BY <2>1, <2>2 DEF RowsInv, FileInv
  <2> QED
    BY <1>5, <1>6, <2>1, <2>3
<1>15. CASE Crash
  BY <1>5, <1>6, <1>7, <1>15 DEF Crash, Over
<1>16. CASE UNCHANGED vars
  <2>1. LogInv'
    BY <1>0, <1>6, <1>16 DEF vars
  <2>2. RecInv' /\ FileInv'
    BY <1>16 DEF vars, RowsInv, RecInv, FileInv, Encodable, Scanned
  <2> QED
    BY <2>1, <2>2 DEF RowsInv
<1> QED
  BY <1>1, <1>2, <1>3, <1>4, <1>8, <1>9, <1>10, <1>11, <1>12, <1>13, <1>14, <1>15, <1>16
     DEF Next, Run, Local, Ended

LEMMA Invariance == Spec => [](IInv /\ RowsInv)
<1>1. Init => IInv /\ RowsInv
  BY InitInv, InitRows
<1>2. IInv /\ RowsInv /\ [Next]_vars => IInv' /\ RowsInv'
  BY NextInv, NextRows
<1> QED
  BY <1>1, <1>2, PTL DEF Spec

(* Every variable of the writers keeps its type, and the log holds nothing *)
(* but batches that were handed to process.                                *)
THEOREM TypeCorrect == Spec => []TypeOK
<1>1. IInv /\ RowsInv => TypeOK
  <2> SUFFICES ASSUME IInv, RowsInv PROVE TypeOK
    OBVIOUS
  <2>1. afterId \in -1 .. Len(log)
    BY Lengths DEF IInv, LogTyped, RowsInv, LogInv
  <2>2. /\ work \in Works /\ call \in Calls /\ framing \in WrittenWith /\ dest \in Dests
        /\ phase \in Phases /\ faults \in 0 .. MaxFaults
        /\ \A i \in 1 .. Len(log) : \E t \in Threads : \E k \in 1 .. sent[t] :
              log[i] = [by |-> t, batch |-> work[t][k]]
    BY DEF RowsInv, LogInv
  <2>3. sent \in [Threads -> Nat] /\ \A t \in Threads : sent[t] =< Len(work[t])
    BY DEF IInv, LogTyped, Kept
  <2>4. /\ records \in Seq(Seq(Bytes)) /\ body \in Seq(Bytes) /\ file \in Seq(Bytes)
        /\ written \in 0 .. Len(body)
        /\ answer.rows \in Int /\ answer.bytes \in Int
    BY DEF RowsInv, RecInv, FileInv
  <2> QED
    BY <2>1, <2>2, <2>3, <2>4 DEF TypeOK
<1> QED
  BY <1>1, Invariance, PTL

(* A statement that succeeds has written every row once, the rows of one   *)
(* thread in its order, wherever the pages of the log fall; what an error  *)
(* or a crash leaves is the old content or a beginning of the new one.     *)
THEOREM RowsWrittenOnce == Spec => []EveryRowOnce
<1>1. IInv /\ RowsInv => EveryRowOnce
  <2> SUFFICES ASSUME IInv, RowsInv PROVE EveryRowOnce
    OBVIOUS
  <2>1. file = Old \/ IsPrefix(file, body)
    BY DEF RowsInv, FileInv
  <2>2. ASSUME phase = "done"
        PROVE  /\ file = Assemble(AllRows(log), framing)
               /\ answer = [rows |-> Len(AllRows(log)), bytes |-> Len(file)]
               /\ \A t \in Threads : SentBy(t) = work[t]
    <3>1. file = body /\ body = Assemble(records, framing) /\ records = AllRows(log)
      BY <2>2 DEF RowsInv, FileInv, RecInv, AfterScan
    <3>2. answer = [rows |-> Len(records), bytes |-> Len(body)]
      BY <2>2 DEF RowsInv, FileInv
    <3>3. ASSUME NEW t \in Threads PROVE SentBy(t) = work[t]
      <4>1. SentBy(t) = SubSeq(work[t], 1, Len(work[t])) /\ work[t] \in Seq(Batches)
        BY <2>2, Lengths DEF RowsInv, RecInv, LogInv, AfterScan
      <4> QED
        BY <4>1, SubSeqFull
    <3> QED
      BY <3>1, <3>2, <3>3
  <2> QED
    BY <2>1, <2>2 DEF EveryRowOnce
<1> QED
  BY <1>1, Invariance, PTL
(* What a statement has written is read back by the framer: for records    *)
(* the framing can hold, the slice framer undoes assemble (framing.rs and  *)
(* record_writer.rs), whatever the number of records and their bytes.      *)
THEOREM WrittenReadsBack == Spec => []ReadsBack
<1>1. RowsInv => ReadsBack
  <2> SUFFICES ASSUME RowsInv, phase = "done", Fits(records, framing, RecordLen)
               PROVE  Records(file, framing, RecordLen) = Split(records)
    BY DEF ReadsBack
  <2>1. file = Assemble(records, framing) /\ records \in Seq(Seq(Bytes))
    BY DEF RowsInv, FileInv, RecInv
  <2>2. framing \in Framings /\ RecordLen \in Nat
    BY DestAssumption, PageAssumption DEF RowsInv, LogInv
  <2> QED
    BY <2>1, <2>2, AssembleReads
<1> QED
  BY <1>1, Invariance, PTL

-----------------------------------------------------------------------------
(* The abstract sink. *)

(* What the abstract sink shows in each phase. *)
Shows ==
    /\ phase \in {"process", "scan", "assemble", "write"} => Outcome = "open" /\ Stored = Old
    /\ phase = "writing" /\ written # Len(body) => Outcome = "open" /\ Stored = Old
    /\ phase = "writing" /\ written = Len(body) => Outcome = "stored" /\ Stored = body
    /\ phase = "reply" => Outcome = "stored" /\ Stored = body
    /\ phase = "done" => Outcome = "done"
    /\ phase \in {"failed", "crashed"} => Outcome = "failed"

LEMMA Shown == FileInv => Shows
<1> SUFFICES ASSUME FileInv PROVE Shows
  OBVIOUS
<1> USE DEF Shows
<1>1. Outcome = IF Placed THEN "stored" ELSE IF phase = "done" THEN "done"
                ELSE IF phase \in {"failed", "crashed"} THEN "failed" ELSE "open"
  BY DEF Outcome, Placed
<1>2. CASE phase \in {"process", "scan", "assemble", "write"}
  BY <1>1, <1>2 DEF FileInv, Placed, Stored
<1>3. CASE phase = "writing" /\ written # Len(body)
  <2>1. file = SubSeq(body, 1, written) /\ dest = "local"
    BY <1>3 DEF FileInv
  <2>2. Len(file) = written
    BY <2>1, FirstBytes DEF FileInv
  <2>3. file # body
    BY <1>3, <2>2
  <2> QED
    BY <1>1, <1>3, <2>1, <2>3 DEF Placed, Stored
<1>4. CASE phase = "writing" /\ written = Len(body)
  <2>1. file = SubSeq(body, 1, Len(body)) /\ body \in Seq(Bytes)
    BY <1>4 DEF FileInv
  <2>2. file = body
    BY <2>1, SubSeqFull
  <2> QED
    BY <1>1, <1>4, <2>2 DEF Placed, Stored
<1>5. CASE phase = "reply"
  BY <1>1, <1>5 DEF FileInv, Placed, Stored
<1>6. CASE phase \in {"done", "failed", "crashed"}
  BY <1>1, <1>6 DEF Placed
<1> QED
  BY <1>2, <1>3, <1>4, <1>5, <1>6 DEF Shows

(* A step of the writer is one of the sink, or none. *)
LEMMA StepSink ==
    ASSUME RowsInv, RowsInv', [Next]_vars
    PROVE  [Sink!Next]_(Sink!vars)
<1> USE DEF statement
<1> DEFINE kept == UNCHANGED <<log, framing, dest>>
<1>1. /\ phase \in {"write", "writing", "reply"} => body = LogBody
      /\ phase' \in {"write", "writing", "reply"} => body' = LogBody'
  BY DEF RowsInv, RecInv, FileInv, AfterScan, LogBody, Encodable
<1>2. kept => LogBody' = LogBody
  BY DEF LogBody, Encodable, AllRows
<1> DEFINE early(p) == p \in {"process", "scan", "assemble", "write"}
<1>3. Shows /\ Shows'
  <2>1. FileInv' => Shows'
    BY Shown, PTL
  <2> QED
    BY <2>1, Shown DEF RowsInv
<1> USE DEF Shows
<1>5. phase \in Phases
  BY DEF RowsInv, LogInv
<1>6. UNCHANGED <<file, body, dest>> => Stored' = Stored
  BY DEF Stored
<1> HIDE DEF LogBody, Stored, Outcome
<1>7. ASSUME early(phase), early(phase'), kept PROVE UNCHANGED <<LogBody, Stored, Outcome>>
  BY <1>2, <1>3, <1>7
<1>8. ASSUME ~Over, UNCHANGED <<file, body>>, kept, phase' \in {"failed", "crashed"} PROVE Sink!Fail
  <2>1. Outcome \in {"open", "stored"}
    BY <1>3, <1>5, <1>8 DEF Over, Phases
  <2> QED
    BY <1>2, <1>3, <1>6, <1>8, <2>1 DEF Sink!Fail
<1>9. ASSUME kept, body' = body, phase \in {"write", "writing"}, phase' \in {"writing", "reply"},
             Outcome = "open", Outcome' = "stored"
      PROVE  Sink!Store
  BY <1>1, <1>2, <1>3, <1>9 DEF Sink!Store
<1> USE DEF Sink!vars, Sink!Next
<1>10. CASE ProcessAny
  <2>1. phase = "process" /\ phase' = "process"
    BY <1>10 DEF ProcessAny, Process
  <2> QED
    BY <1>3, <2>1 DEF Sink!Accept
<1>11. CASE Combine \/ AssembleBody
  <2>1. early(phase) /\ early(phase') /\ kept
    BY <1>11 DEF Combine, AssembleBody
  <2> QED
    BY <1>7, <2>1
<1>12. CASE ScanPage
  <2>1. /\ phase = "scan" /\ kept /\ UNCHANGED <<file, body>>
        /\ phase' \in {"failed", "scan", "assemble"}
    BY <1>12 DEF ScanPage
  <2>2. CASE phase' = "failed"
    BY <1>8, <2>1, <2>2 DEF Over
  <2>3. CASE phase' # "failed"
    BY <1>7, <2>1, <2>3
  <2> QED
    BY <2>2, <2>3
<1>13. CASE RefuseWeb \/ LocalFails \/ Crash
  <2>1. /\ ~Over /\ UNCHANGED <<file, body>> /\ kept /\ phase' \in {"failed", "crashed"}
    BY <1>13 DEF RefuseWeb, LocalFails, Crash, Over
  <2> QED
    BY <1>8, <2>1
<1>14. CASE Put
  <2>1. phase = "write" /\ phase' = "reply" /\ body' = body /\ kept
    BY <1>14 DEF Put
  <2> QED
    BY <1>3, <1>9, <2>1
<1>15. CASE PutFails
  <2>1. /\ phase = "write" /\ phase' = "failed" /\ dest = "object" /\ kept
        /\ file' \in {file, body}
    BY <1>15 DEF PutFails
  <2>2. Stored = file /\ Stored' = file'
    BY <2>1 DEF Stored
  <2> QED
    BY <1>1, <1>2, <1>3, <2>1, <2>2 DEF Sink!Fail
<1>16. CASE Truncate
  <2>1. phase = "write" /\ phase' = "writing" /\ UNCHANGED <<body, written>> /\ kept
    BY <1>16 DEF Truncate
  <2>2. CASE written' = Len(body')
    BY <1>3, <1>9, <2>1, <2>2
  <2>3. CASE written' # Len(body')
    BY <1>2, <1>3, <2>1, <2>3
  <2> QED
    BY <2>2, <2>3
<1>17. CASE WriteSome
  <2>1. phase = "writing" /\ phase' = "writing" /\ body' = body /\ kept /\ written # Len(body)
    <3>1. Len(body) \in Nat /\ written \in 0 .. Len(body)
      BY LenProperties DEF RowsInv, FileInv
    <3>2. \E n \in written + 1 .. Len(body) : TRUE
      BY <1>17 DEF WriteSome
    <3> QED
      BY <1>17, <3>1, <3>2 DEF WriteSome
  <2>2. CASE written' = Len(body')
    BY <1>3, <1>9, <2>1, <2>2
  <2>3. CASE written' # Len(body')
    BY <1>2, <1>3, <2>1, <2>3
  <2> QED
    BY <2>2, <2>3
<1>18. CASE WriteDone
  <2>1. phase = "writing" /\ phase' = "reply" /\ written = Len(body) /\ body' = body /\ kept
    BY <1>18 DEF WriteDone
  <2> QED
    BY <1>2, <1>3, <2>1
<1>19. CASE Reply
  <2>1. phase = "reply" /\ phase' = "done" /\ UNCHANGED <<file, body>> /\ kept
    BY <1>19 DEF Reply
  <2> QED
    BY <1>2, <1>3, <1>6, <2>1 DEF Sink!Succeed
<1>20. CASE UNCHANGED vars
  <2>1. UNCHANGED <<file, body, phase, written>> /\ kept
    BY <1>20 DEF vars
  <2>2. Outcome' = Outcome
    BY <2>1 DEF Outcome, Placed
  <2> QED
    BY <1>2, <1>6, <2>1, <2>2
<1> QED
  BY <1>10, <1>11, <1>12, <1>13, <1>14, <1>15, <1>16, <1>17, <1>18, <1>19, <1>20
     DEF Next, Run, Local, Ended

(* The writers implement the abstract sink: whatever is interleaved, fails *)
(* or crashes, the destination is replaced once, as a whole, by the body   *)
(* of all the batches, or it is not replaced; a local file counts as       *)
(* replaced when the last byte is in it.                                   *)
THEOREM SinkImplemented == Spec => ImplementsSink
<1>1. Init => Sink!Init
  <2> SUFFICES ASSUME Init PROVE Sink!Init
    OBVIOUS
  <2>1. RowsInv /\ phase = "process"
    BY InitRows DEF Init
  <2> QED
    BY <2>1, Shown DEF RowsInv, Shows, Sink!Init
<1>2. RowsInv /\ RowsInv' /\ [Next]_vars => [Sink!Next]_(Sink!vars)
  BY StepSink
<1> QED
  BY <1>1, <1>2, Invariance, PTL DEF Spec, ImplementsSink, Sink!Spec
=============================================================================
