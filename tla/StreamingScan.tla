--------------------------- MODULE StreamingScan ---------------------------
(***************************************************************************)
(* The streaming producer of read_fixed and read_multi (`next_batch` in    *)
(* fixedformat-worker/src/reader.rs and table/read_multi.rs) together with *)
(* the paged HTTP transport that drives it.                                *)
(*                                                                         *)
(* A scan resolves a path or glob to a list of sources, reads the records  *)
(* of each source in turn and hands them out in batches.  Over HTTP a      *)
(* response carries a page of batches; the producer is dropped when the    *)
(* page is sent and a new one is built for the next request, from the      *)
(* continuation token (idx, seen) alone.  The new producer resolves the    *)
(* listing again, reopens source idx and skips seen records.               *)
(*                                                                         *)
(* Bytes are abstracted: a source is an object that frames into Records[o] *)
(* records, some of which do not decode.                                   *)
(***************************************************************************)
EXTENDS Integers, SequencesExt

CONSTANTS
    Objects,      \* the files / cloud objects there may be
    Records,      \* Records[o]: whole records o frames into
    Undecodable,  \* Undecodable[o]: record numbers of o that fail to decode
    Ragged,       \* objects whose stream ends in a framing error
    Unreadable,   \* objects that open_stream refuses
    Listings,     \* the lists of objects the path argument may resolve to
    BatchRows,    \* BATCH_ROWS (2048 in the code)
    MaxRelists,   \* bound: changes of the listing between two requests
    MaxOverwrites,\* bound: objects replaced under an unchanged listing
    MaxFaults,    \* bound: transient I/O errors
    MaxCrashes    \* bound: pages lost with the worker that computed them

ASSUME RecordsAssumption   == Records \in [Objects -> Nat]
ASSUME BadAssumption       == /\ Undecodable \in [Objects -> SUBSET (Nat \ {0})]
                              /\ Ragged \subseteq Objects
                              /\ Unreadable \subseteq Objects
ASSUME ListingsAssumption  == Listings \subseteq Seq(Objects)
ASSUME BatchRowsAssumption == BatchRows \in Nat \ {0}
ASSUME BoundsAssumption    == /\ MaxRelists \in Nat
                              /\ MaxOverwrites \in Nat
                              /\ MaxFaults \in Nat
                              /\ MaxCrashes \in Nat

VARIABLES
    sources,    \* producer: the resolved listing
    idx,        \* producer: number of sources drained (index of the next)
    seen,       \* producer: records taken from the source at idx
    open,       \* producer: `current.is_some()`
    at,         \* position of the open record stream
    rows,       \* next_batch's local batch under construction
    page,       \* transport: rows of the batches of the page being built
    token,      \* client: the continuation token it holds
    delivered,  \* client: the rows it has received
    phase,      \* where the scan stands
    relists, overwrites, faults, crashes   \* environment events so far

producer == <<sources, idx, seen, open, at>>
client   == <<token, delivered>>
budget   == <<relists, overwrites, faults, crashes>>
vars     == <<producer, rows, page, client, phase, budget>>

Phases == {"idle", "batching", "down", "done", "failed"}

Token == [idx : Nat, seen : Nat]

(* A row is identified by the place it was read from: the position of its  *)
(* source in the listing, its record number there, and the object read.    *)
Row == [src : Nat, rec : Nat \ {0}, obj : Objects]

Source == sources[idx + 1]

TypeOK ==
    /\ sources \in Seq(Objects)
    /\ idx \in Nat /\ seen \in Nat /\ at \in Nat
    /\ open \in BOOLEAN
    /\ rows \in Seq(Row) /\ page \in Seq(Row) /\ delivered \in Seq(Row)
    /\ token \in Token
    /\ phase \in Phases
    /\ relists \in 0 .. MaxRelists
    /\ overwrites \in 0 .. MaxOverwrites
    /\ faults \in 0 .. MaxFaults
    /\ crashes \in 0 .. MaxCrashes

Init ==
    /\ sources \in Listings
    /\ idx = 0 /\ seen = 0 /\ open = FALSE /\ at = 0
    /\ rows = <<>> /\ page = <<>> /\ delivered = <<>>
    /\ token = [idx |-> 0, seen |-> 0]
    /\ phase = "idle"
    /\ relists = 0 /\ overwrites = 0 /\ faults = 0 /\ crashes = 0

-----------------------------------------------------------------------------
(* next_batch *)

(* The transport asks for another batch. *)
NextBatch ==
    /\ phase = "idle"
    /\ phase' = "batching"
    /\ rows' = <<>>
    /\ UNCHANGED <<producer, page, client, budget>>

(* The loop goes round while the batch has room. *)
Room == phase = "batching" /\ Len(rows) < BatchRows

(* An error ends the query.  The rows of the unfinished batch are lost;    *)
(* the batches of the page before it may or may not have been sent.        *)
Fail ==
    /\ phase' = "failed"
    /\ rows' = <<>> /\ page' = <<>>
    /\ delivered' \in {delivered, delivered \o page}
    /\ UNCHANGED token

(* Slips of OpenSource: the records already taken are not skipped; one     *)
(* record too many is skipped.                                             *)
OpenWithoutSkip ==
    /\ Room /\ ~open /\ idx < Len(sources)
    /\ Source \notin Unreadable
    /\ open' = TRUE
    /\ at' = 0
    /\ UNCHANGED <<sources, idx, seen, rows, page, client, phase, budget>>

OpenSkipsOneMore ==
    /\ Room /\ ~open /\ idx < Len(sources)
    /\ Source \notin Unreadable
    /\ seen < Records[Source]
    /\ open' = TRUE
    /\ at' = IF seen = 0 THEN 0 ELSE seen + 1
    /\ UNCHANGED <<sources, idx, seen, rows, page, client, phase, budget>>

(* Open the source at idx and skip the records already taken from it.  The *)
(* skipped records are framed but not decoded.                             *)
OpenSource ==
    /\ Room /\ ~open /\ idx < Len(sources)
    /\ Source \notin Unreadable
    /\ seen =< Records[Source]
    /\ open' = TRUE
    /\ at' = seen
    /\ UNCHANGED <<sources, idx, seen, rows, page, client, phase, budget>>

(* Slip of OpenFails: a position at the very end counts as beyond it. *)
OpenFailsAtEnd ==
    /\ Room /\ ~open /\ idx < Len(sources)
    /\ Source \in Unreadable \/ seen >= Records[Source]
    /\ Fail
    /\ UNCHANGED <<producer, budget>>

(* Slip of TakeRecord: records are numbered from zero. *)
TakeRecordFromZero ==
    /\ Room /\ open /\ at < Records[Source]
    /\ at + 1 \notin Undecodable[Source]
    /\ at' = at + 1
    /\ seen' = seen + 1
    /\ rows' = Append(rows, [src |-> idx, rec |-> at, obj |-> Source])
    /\ UNCHANGED <<sources, idx, open, page, client, phase, budget>>

(* The source cannot be opened, or ends, cleanly or in a framing error,    *)
(* before the position to resume from.                                     *)
OpenFails ==
    /\ Room /\ ~open /\ idx < Len(sources)
    /\ \/ Source \in Unreadable
       \/ Source \notin Unreadable /\ seen > Records[Source]
    /\ Fail
    /\ UNCHANGED <<producer, budget>>

TakeRecord ==
    /\ Room /\ open /\ at < Records[Source]
    /\ at + 1 \notin Undecodable[Source]
    /\ at' = at + 1
    /\ seen' = seen + 1
    /\ rows' = Append(rows, [src |-> idx, rec |-> at + 1, obj |-> Source])
    /\ UNCHANGED <<sources, idx, open, page, client, phase, budget>>

(* The record does not decode (or matches no record type, in read_multi),  *)
(* or the stream ends in a framing error.  seen has been advanced already. *)
TakeFails ==
    /\ Room /\ open
    /\ \/ at < Records[Source] /\ at + 1 \in Undecodable[Source]
       \/ at = Records[Source] /\ Source \in Ragged
    /\ at' = at + 1
    /\ seen' = seen + 1
    /\ Fail
    /\ UNCHANGED <<sources, idx, open, budget>>

(* Slips of Drained: the count of the drained source is kept for the next; *)
(* the drained source stays the current one.                               *)
DrainedKeepsSeen ==
    /\ Room /\ open
    /\ at = Records[Source] /\ Source \notin Ragged
    /\ open' = FALSE
    /\ idx' = idx + 1
    /\ at' = 0
    /\ UNCHANGED <<sources, seen, rows, page, client, phase, budget>>

DrainedStays ==
    /\ Room /\ open
    /\ at = Records[Source] /\ Source \notin Ragged
    /\ open' = FALSE
    /\ at' = 0
    /\ UNCHANGED <<sources, idx, seen, rows, page, client, phase, budget>>

(* The source is drained: move on to the next. *)
Drained ==
    /\ Room /\ open
    /\ at = Records[Source] /\ Source \notin Ragged
    /\ open' = FALSE
    /\ idx' = idx + 1
    /\ seen' = 0
    /\ at' = 0
    /\ UNCHANGED <<sources, rows, page, client, phase, budget>>

(* The loop is left with the batch full, or with no source left. *)
LeaveLoop ==
    /\ phase = "batching"
    /\ Len(rows) >= BatchRows \/ (~open /\ idx >= Len(sources))

EmitBatch ==
    /\ LeaveLoop /\ rows # <<>>
    /\ page' = page \o rows
    /\ rows' = <<>>
    /\ phase' = "idle"
    /\ UNCHANGED <<producer, client, budget>>

(* Slip of EndOfScan: None as soon as a drained source left no row. *)
EndAfterEmptySource ==
    /\ phase = "batching" /\ ~open /\ rows = <<>>
    /\ idx > 0 \/ idx >= Len(sources)
    /\ delivered' = delivered \o page
    /\ page' = <<>>
    /\ phase' = "done"
    /\ UNCHANGED <<producer, rows, token, budget>>

(* next_batch returns None: the last page goes out and the scan is over. *)
EndOfScan ==
    /\ LeaveLoop /\ rows = <<>>
    /\ delivered' = delivered \o page
    /\ page' = <<>>
    /\ phase' = "done"
    /\ UNCHANGED <<producer, rows, token, budget>>

(* Slip of SendPage: the token carries idx only. *)
SendPageWithIdxOnly ==
    /\ phase = "idle" /\ page # <<>>
    /\ delivered' = delivered \o page
    /\ token' = [idx |-> idx, seen |-> 0]
    /\ page' = <<>>
    /\ phase' = "down"
    /\ UNCHANGED <<producer, rows, budget>>

-----------------------------------------------------------------------------
(* The transport (external): pages, continuation tokens, lost pages. *)

SendPage ==
    /\ phase = "idle" /\ page # <<>>
    /\ delivered' = delivered \o page
    /\ token' = [idx |-> idx, seen |-> seen]
    /\ page' = <<>>
    /\ phase' = "down"
    /\ UNCHANGED <<producer, rows, budget>>

(* A producer for the next request: `new` plus the resume fields. *)
Resume ==
    /\ phase = "down"
    /\ idx' = token.idx
    /\ seen' = token.seen
    /\ open' = FALSE
    /\ at' = 0
    /\ phase' = "idle"
    /\ UNCHANGED <<sources, rows, page, client, budget>>

(* The worker dies, or its response is lost; the client asks again. *)
LosePage ==
    /\ phase \in {"idle", "batching"}
    /\ crashes < MaxCrashes
    /\ crashes' = crashes + 1
    /\ rows' = <<>> /\ page' = <<>>
    /\ phase' = "down"
    /\ UNCHANGED <<producer, client, relists, overwrites, faults>>

-----------------------------------------------------------------------------
(* The environment. *)

(* An I/O error while a source is opened or read. *)
IoFault ==
    /\ Room /\ (open \/ idx < Len(sources))
    /\ faults < MaxFaults
    /\ faults' = faults + 1
    /\ seen' = IF open THEN seen + 1 ELSE seen
    /\ Fail
    /\ UNCHANGED <<sources, idx, open, at, relists, overwrites, crashes>>

(* The next producer cannot be built: the listing fails, or a file named   *)
(* literally is gone.                                                      *)
ResolveFails ==
    /\ phase = "down"
    /\ faults < MaxFaults
    /\ faults' = faults + 1
    /\ Fail
    /\ UNCHANGED <<producer, relists, overwrites, crashes>>

(* An object that is not being read is replaced by another. *)
Overwrite ==
    /\ overwrites < MaxOverwrites
    /\ overwrites' = overwrites + 1
    /\ phase \in {"idle", "batching", "down"}
    /\ \E i \in 1 .. Len(sources), o \in Objects :
          /\ ~(open /\ phase # "down" /\ i = idx + 1)
          /\ sources' = [sources EXCEPT ![i] = o]
    /\ UNCHANGED <<idx, seen, open, at, rows, page, client, phase, relists, faults, crashes>>

(* Objects come and go between two requests, so the next producer resolves *)
(* the same glob to another listing.                                       *)
Relist ==
    /\ relists < MaxRelists
    /\ relists' = relists + 1
    /\ phase = "down"
    /\ sources' \in Listings
    /\ UNCHANGED <<idx, seen, open, at, rows, page, client, phase, overwrites, faults, crashes>>

-----------------------------------------------------------------------------
(* The query is over; every other state without a successor is a deadlock. *)
Over == phase \in {"done", "failed"} /\ UNCHANGED vars

Scan ==
    \/ NextBatch \/ OpenSource \/ OpenFails \/ TakeRecord \/ TakeFails
    \/ Drained \/ EmitBatch \/ EndOfScan
Transport == SendPage \/ Resume
Environment == LosePage \/ IoFault \/ ResolveFails \/ Overwrite \/ Relist

Next == Scan \/ Transport \/ Environment \/ Over

Spec == Init /\ [][Next]_vars

(* The worker runs next_batch to its end and the client asks for the next  *)
(* page; nothing is assumed of the environment.                            *)
FairSpec == Spec /\ WF_vars(Scan) /\ WF_vars(Resume)

-----------------------------------------------------------------------------
(* Correctness *)

Out == delivered \o page \o rows

Precedes(r, s) == r.src < s.src \/ (r.src = s.src /\ r.rec < s.rec)

Ordered(s) == \A m, n \in 1 .. Len(s) : m < n => Precedes(s[m], s[n])

Gapless(s) ==
    \A n \in 1 .. Len(s) : s[n].rec > 1 =>
        /\ n > 1
        /\ s[n - 1].src = s[n].src
        /\ s[n - 1].rec = s[n].rec - 1

Has(s, i, k) == \E n \in 1 .. Len(s) : s[n].src = i /\ s[n].rec = k

(* Rows leave the scan in the order of the positions in the listing and of *)
(* the records at each, and no record of a position twice, however the     *)
(* pages are cut, lost and resumed and whatever happens to the sources     *)
(* meanwhile.  An object that moves to another position is NoObjectTwice's *)
(* matter.                                                                 *)
InOrder == Ordered(Out)

(* At a position of the listing no record is stepped over: a row that is   *)
(* not its first directly follows the one with the number before.          *)
NoGap == Gapless(Out)

Undisturbed == relists = 0 /\ overwrites = 0

Intact(o) == o \notin Ragged \cup Unreadable
             /\ \A k \in 1 .. Records[o] : k \notin Undecodable[o]

Received(i, k) == Has(delivered, i, k)

(* While the sources stay as they are, a scan that ends well has delivered *)
(* every record of every source, and there was nothing wrong with any.     *)
CompleteWhenDone ==
    phase = "done" /\ Undisturbed =>
        \A i \in 0 .. Len(sources) - 1 :
            /\ Intact(sources[i + 1])
            /\ \A k \in 1 .. Records[sources[i + 1]] : Received(i, k)

(* What the client holds and what its token says agree: the token counts   *)
(* exactly the records of the source it points into that were delivered.   *)
TokenCovers ==
    phase \notin {"done", "failed"} =>
        /\ \A n \in 1 .. Len(delivered) :
              \/ delivered[n].src < token.idx
              \/ delivered[n].src = token.idx /\ delivered[n].rec =< token.seen
        /\ \A k \in 1 .. token.seen : Received(token.idx, k)

(* No record of an object is delivered twice, even when the listing        *)
(* changes between two pages.                                              *)
NoObjectTwice ==
    \A m, n \in 1 .. Len(delivered) :
        m # n => ~ /\ delivered[m].obj = delivered[n].obj
                   /\ delivered[m].rec = delivered[n].rec

(* A scan of intact sources that meets no fault does not fail. *)
FailsForCause ==
    phase = "failed" /\ Undisturbed /\ faults = 0 =>
        /\ idx < Len(sources)
        /\ ~Intact(Source)

(* Every scan comes to an end. *)
Terminates == <>(phase \in {"done", "failed"})

-----------------------------------------------------------------------------
(* The scan a client expects of a listing that does not change: the rows   *)
(* before the first defect, in order.                                      *)

GoodRecords(o) ==
    IF o \in Unreadable THEN 0
    ELSE CHOOSE n \in 0 .. Records[o] :
            /\ \A k \in 1 .. n : k \notin Undecodable[o]
            /\ n = Records[o] \/ n + 1 \in Undecodable[o]

RowsOf(l, i) ==
    [k \in 1 .. GoodRecords(l[i]) |-> [src |-> i - 1, rec |-> k, obj |-> l[i]]]

(* Source i of listing l is reached when every source before it is intact. *)
Reached(l, i) == \A j \in 1 .. i - 1 : Intact(l[j])

Part(l, i) == IF Reached(l, i) THEN RowsOf(l, i) ELSE <<>>

Goal(l) == FlattenSeq([i \in 1 .. Len(l) |-> Part(l, i)])

Status == IF phase \in {"done", "failed"} THEN phase ELSE "running"

Abstract == INSTANCE ScanSpec WITH
    goal   <- Goal(sources),
    defect <- \E i \in 1 .. Len(sources) : ~Intact(sources[i]),
    got    <- delivered,
    status <- Status

(* The paged, resumable producer implements the scan a client expects.     *)
ImplementsScan == Abstract!Spec
============================================================================
