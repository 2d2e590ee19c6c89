----------------------------- MODULE WriteFile -----------------------------
(***************************************************************************)
(* Writing a relation to a file: the table-buffering sinks `write_fixed`   *)
(* and `write_multi` and the `COPY ... TO` writer `copy_to`, all in        *)
(* fixedformat-worker/src.  Threads append their batches to a log of the   *)
(* execution; when all are done one finalizer reads the log page by page,  *)
(* encodes every row, frames the records into one body and puts it where   *)
(* the path says: a local file, an object of a store, or a web address,    *)
(* which is refused.  The body is not compressed here.                     *)
(*                                                                         *)
(* A row is the record its values encode to, or NoRecord when a value does *)
(* not fit its field.                                                      *)
(***************************************************************************)
EXTENDS Framing

CONSTANTS
    Threads,
    Works,       \* the rows that may be written: for every thread its batches
    Dests,       \* destinations, among "local", "object" and "web"
    Calls,       \* functions, among "write" and "copy"
    WrittenWith, \* framings in use
    NoRecord,
    Old,         \* the bytes at the destination before
    RecordLen,   \* the layout's record length
    PageSize,    \* batches per scan of the log (256 in the code)
    MaxFaults    \* bound: crashes and failed writes

ASSUME RowsAssumption ==
    /\ NoRecord \notin Seq(Bytes)
    /\ Works \subseteq [Threads -> Seq(Seq(Seq(Bytes) \cup {NoRecord}))]
ASSUME DestAssumption ==
    /\ Dests \subseteq {"local", "object", "web"}
    /\ Calls \subseteq {"write", "copy"}
    /\ WrittenWith \subseteq Framings
    /\ Old \in Seq(Bytes)
ASSUME PageAssumption ==
    /\ PageSize \in Nat \ {0}
    /\ RecordLen \in Nat
    /\ MaxFaults \in Nat

VARIABLES
    work, call, framing, dest,  \* the statement
    sent,     \* batches each thread has handed to process
    log,      \* the execution's storage; a batch's id is its position
    phase,
    afterId,  \* id of the last batch read by the finalizer
    records,  \* the records encoded so far
    body,
    file,     \* what is at the destination
    written,  \* bytes of the body written to a local file
    answer,   \* rows_written and bytes_written
    faults

statement == <<work, call, framing, dest>>
vars == <<statement, sent, log, phase, afterId, records, body, file, written, answer, faults>>

Phases == {"process", "scan", "assemble", "write", "writing", "reply",
           "done", "failed", "crashed"}
Over   == phase \in {"done", "failed", "crashed"}

NoAnswer == [rows |-> -1, bytes |-> -1]

TypeOK ==
    /\ work \in Works /\ call \in Calls /\ framing \in WrittenWith /\ dest \in Dests
    /\ sent \in [Threads -> Nat]
    /\ \A t \in Threads : sent[t] =< Len(work[t])
    /\ \A i \in 1 .. Len(log) : \E t \in Threads : \E k \in 1 .. sent[t] :
          log[i] = [by |-> t, batch |-> work[t][k]]
    /\ phase \in Phases
    /\ afterId \in -1 .. Len(log)
    /\ records \in Seq(Seq(Bytes))
    /\ body \in Seq(Bytes) /\ file \in Seq(Bytes)
    /\ written \in 0 .. Len(body)
    /\ answer.rows \in Int /\ answer.bytes \in Int
    /\ faults \in 0 .. MaxFaults

Init ==
    /\ work \in Works /\ call \in Calls /\ framing \in WrittenWith /\ dest \in Dests
    /\ sent = [t \in Threads |-> 0]
    /\ log = <<>>
    /\ phase = "process"
    /\ afterId = 0
    /\ records = <<>> /\ body = <<>>
    /\ file = Old /\ written = 0
    /\ answer = NoAnswer
    /\ faults = 0

-----------------------------------------------------------------------------
(* process and combine: the threads of the query *)

(* Slip of Process: read, then write back, so a thread that read the log   *)
(* early overwrites what another appended.                                 *)
ProcessOverwrites(t) ==
    /\ phase = "process"
    /\ sent[t] < Len(work[t])
    /\ LET entry == [by |-> t, batch |-> work[t][sent[t] + 1]]
       IN  log' = [i \in 1 .. sent[t] + 1 |->
                     IF i =< sent[t] /\ i =< Len(log) THEN log[i] ELSE entry]
    /\ sent' = [sent EXCEPT ![t] = @ + 1]
    /\ UNCHANGED <<statement, phase, afterId, records, body, file, written, answer, faults>>

(* The append to the storage is atomic, whatever thread or worker does it. *)
Process(t) ==
    /\ phase = "process"
    /\ sent[t] < Len(work[t])
    /\ log' = Append(log, [by |-> t, batch |-> work[t][sent[t] + 1]])
    /\ sent' = [sent EXCEPT ![t] = @ + 1]
    /\ UNCHANGED <<statement, phase, afterId, records, body, file, written, answer, faults>>

(* The engine calls combine, and then for the one state it returns         *)
(* finalize, when no process call is left.                                 *)
Combine ==
    /\ phase = "process"
    /\ \A t \in Threads : sent[t] = Len(work[t])
    /\ phase' = "scan"
    /\ afterId' = IF call = "write" THEN 0 ELSE -1
    /\ UNCHANGED <<statement, sent, log, records, body, file, written, answer, faults>>

-----------------------------------------------------------------------------
(* finalize_producer and close *)

(* The batches a scan of the storage answers: those after afterId. *)
Scanned == IF afterId < 0 THEN 0 ELSE afterId
PageEnd == IF call = "write" /\ Scanned + PageSize < Len(log)
           THEN Scanned + PageSize ELSE Len(log)
Page    == SubSeq(log, Scanned + 1, PageEnd)

AllRows(entries) == FlattenSeq([i \in 1 .. Len(entries) |-> entries[i].batch])

Encodable(entries) ==
    \A i \in 1 .. Len(entries) : \A k \in 1 .. Len(entries[i].batch) :
        entries[i].batch[k] # NoRecord

LastPage == Page = <<>> \/ call = "copy"

(* Slip of ScanPage: one page is thought to be all. *)
ScanFirstPage ==
    /\ phase = "scan"
    /\ IF ~Encodable(Page)
       THEN /\ phase' = "failed"
            /\ UNCHANGED <<afterId, records>>
       ELSE /\ phase' = "assemble"
            /\ records' = records \o AllRows(Page)
            /\ afterId' = Scanned + Len(Page)
    /\ UNCHANGED <<statement, sent, log, body, file, written, answer, faults>>

(* Slip of ScanPage: the first page is read again and again. *)
ScanSamePage ==
    /\ phase = "scan"
    /\ IF ~Encodable(Page)
       THEN /\ phase' = "failed"
            /\ UNCHANGED <<afterId, records>>
       ELSE /\ phase' = IF LastPage THEN "assemble" ELSE "scan"
            /\ records' = AllRows(Page)
            /\ UNCHANGED afterId
    /\ UNCHANGED <<statement, sent, log, body, file, written, answer, faults>>

(* Slip of ScanPage: every page is taken to be full. *)
ScanFullPages ==
    /\ phase = "scan"
    /\ IF ~Encodable(Page)
       THEN /\ phase' = "failed"
            /\ UNCHANGED <<afterId, records>>
       ELSE /\ phase' = IF LastPage THEN "assemble" ELSE "scan"
            /\ records' = records \o AllRows(Page)
            /\ afterId' = Scanned + PageSize
    /\ UNCHANGED <<statement, sent, log, body, file, written, answer, faults>>

(* Slip of ScanPage: a row that does not encode is left out. *)
ScanSkipsBad ==
    /\ phase = "scan"
    /\ phase' = IF LastPage THEN "assemble" ELSE "scan"
    /\ records' = records \o SelectSeq(AllRows(Page), LAMBDA r : r # NoRecord)
    /\ afterId' = Scanned + Len(Page)
    /\ UNCHANGED <<statement, sent, log, body, file, written, answer, faults>>

(* One scan and the encoding of the batches it returns.  write_* loops     *)
(* until a page is empty; copy_to scans once, without a limit.             *)
ScanPage ==
    /\ phase = "scan"
    /\ IF ~Encodable(Page)
       THEN /\ phase' = "failed"
            /\ UNCHANGED <<afterId, records>>
       ELSE /\ phase' = IF LastPage THEN "assemble" ELSE "scan"
            /\ records' = records \o AllRows(Page)
            /\ afterId' = Scanned + Len(Page)
    /\ UNCHANGED <<statement, sent, log, body, file, written, answer, faults>>

AssembleBody ==
    /\ phase = "assemble"
    /\ body' = Assemble(records, framing)
    /\ phase' = "write"
    /\ UNCHANGED <<statement, sent, log, afterId, records, file, written, answer, faults>>

(* write_object *)

RefuseWeb ==
    /\ phase = "write" /\ dest = "web"
    /\ phase' = "failed"
    /\ UNCHANGED <<statement, sent, log, afterId, records, body, file, written, answer, faults>>

(* The store replaces an object as a whole. *)
Put ==
    /\ phase = "write" /\ dest = "object"
    /\ file' = body
    /\ phase' = "reply"
    /\ UNCHANGED <<statement, sent, log, afterId, records, body, written, answer, faults>>

(* The request fails, before or after the store has taken the object. *)
PutFails ==
    /\ phase = "write" /\ dest = "object"
    /\ faults < MaxFaults
    /\ faults' = faults + 1
    /\ file' \in {file, body}
    /\ phase' = "failed"
    /\ UNCHANGED <<statement, sent, log, afterId, records, body, written, answer>>

(* fs::write: open and truncate, write all *)

(* Slip of Truncate: the file is opened without emptying it. *)
OpenOnly ==
    /\ phase = "write" /\ dest = "local"
    /\ phase' = "writing"
    /\ UNCHANGED <<statement, sent, log, afterId, records, body, file, written, answer, faults>>

Truncate ==
    /\ phase = "write" /\ dest = "local"
    /\ file' = <<>>
    /\ phase' = "writing"
    /\ UNCHANGED <<statement, sent, log, afterId, records, body, written, answer, faults>>

(* One write call takes some of what is left. *)
WriteSome ==
    /\ phase = "writing"
    /\ \E n \in written + 1 .. Len(body) :
          /\ written' = n
          /\ file' = SubSeq(body, 1, n) \o SubSeq(file, n + 1, Len(file))
    /\ UNCHANGED <<statement, sent, log, phase, afterId, records, body, answer, faults>>

WriteDone ==
    /\ phase = "writing" /\ written = Len(body)
    /\ phase' = "reply"
    /\ UNCHANGED <<statement, sent, log, afterId, records, body, file, written, answer, faults>>

(* The file cannot be opened, or the disk is full. *)
LocalFails ==
    /\ dest = "local"
    /\ phase = "write" \/ (phase = "writing" /\ written < Len(body))
    /\ faults < MaxFaults
    /\ faults' = faults + 1
    /\ phase' = "failed"
    /\ UNCHANGED <<statement, sent, log, afterId, records, body, file, written, answer>>

Reply ==
    /\ phase = "reply"
    /\ answer' = [rows |-> Len(records), bytes |-> Len(body)]
    /\ phase' = "done"
    /\ UNCHANGED <<statement, sent, log, afterId, records, body, file, written, faults>>

(* The worker dies. *)
Crash ==
    /\ ~Over
    /\ faults < MaxFaults
    /\ faults' = faults + 1
    /\ phase' = "crashed"
    /\ UNCHANGED <<statement, sent, log, afterId, records, body, file, written, answer>>

Ended == Over /\ UNCHANGED vars

ProcessAny == \E t \in Threads : Process(t)
Local == Truncate \/ WriteSome \/ WriteDone
Run == ProcessAny \/ Combine \/ ScanPage \/ AssembleBody \/ RefuseWeb \/ Put \/ Local \/ Reply

Next == Run \/ PutFails \/ LocalFails \/ Crash \/ Ended

Spec == Init /\ [][Next]_vars

(* The engine keeps its threads running and the finalizer does not stop. *)
FairSpec == Spec /\ WF_vars(Run)

-----------------------------------------------------------------------------
(* Correctness *)

(* The batches of thread t in the log. *)
SentBy(t) == FlattenSeq([i \in 1 .. Len(log) |->
                            IF log[i].by = t THEN <<log[i].batch>> ELSE <<>>])

(* A statement that succeeds has written the records of every row exactly  *)
(* once, the rows of one thread in the thread's order, however the threads *)
(* interleave and wherever the pages of the log fall, and answers with     *)
(* their number and the size of the file they became.  Until then the file *)
(* has its old content, or the first bytes of the new one: what a crash or *)
(* a full disk may leave is never a mixture of the two.                    *)
EveryRowOnce ==
    /\ file = Old \/ IsPrefix(file, body)
    /\ phase = "done" =>
           /\ file = Assemble(AllRows(log), framing)
           /\ answer = [rows |-> Len(AllRows(log)), bytes |-> Len(file)]
           /\ \A t \in Threads : SentBy(t) = work[t]

(* What was written can be read back with the same framing, for records    *)
(* the framing can hold.                                                   *)
ReadsBack ==
    phase = "done" /\ Fits(records, framing, RecordLen) =>
        Records(file, framing, RecordLen) = Split(records)

(* A row that does not encode leaves the destination as it was: everything *)
(* is encoded before anything is written.                                  *)
AllEncode ==
    \A t \in Threads : \A i \in 1 .. Len(work[t]) : \A k \in 1 .. Len(work[t][i]) :
        work[t][i][k] # NoRecord

BadRowKeepsFile == ~AllEncode => file = Old /\ phase # "done"

(* Every statement comes to an answer, a failure or a crash. *)
Terminates == <>Over

(* The abstract sink's body is what the log would make. *)
LogBody == IF Encodable(log) THEN Assemble(AllRows(log), framing) ELSE Old

Placed == phase = "reply" \/ (phase = "writing" /\ written = Len(body))

Outcome == CASE Placed -> "stored"
             [] phase = "done" -> "done"
             [] phase \in {"failed", "crashed"} -> "failed"
             [] OTHER -> "open"

(* A local file counts as replaced once all of the body is in it; what it *)
(* is before that, EveryRowOnce says.                                      *)
Stored == IF dest = "local" /\ file # body THEN Old ELSE file

Sink == INSTANCE SinkSpec WITH body <- LogBody, file <- Stored, outcome <- Outcome

(* The writers implement the abstract sink: the destination is replaced as *)
(* a whole, by the body of all the batches, or not at all.                 *)
ImplementsSink == Sink!Spec

(* The documentation calls writing `the inverse of read_fixed`: whatever   *)
(* was written is read back.                                               *)
InverseOfRead ==
    phase = "done" => Records(file, framing, RecordLen) = Split(records)
=============================================================================
