---------------------------- MODULE RangeReader ----------------------------
(***************************************************************************)
(* The remote byte source (`RangeReader` in fixedformat-worker/src/        *)
(* cloud.rs): a reader that fetches an object in ranges on demand, learns  *)
(* the object's size from the first response, and asks with a HEAD only    *)
(* when that first request fails.                                          *)
(*                                                                         *)
(* The object lives in a store that may fail a request, serve fewer bytes  *)
(* than it was asked for, and replace the object between two requests.     *)
(* Bytes are abstracted: a byte is its offset and the version of the       *)
(* object it was read from.                                                *)
(***************************************************************************)
EXTENDS Integers, Sequences, SequencesExt

CONSTANTS
    Chunk,        \* REMOTE_CHUNK (8 MiB in the code)
    Lengths,      \* the lengths an object may have
    OutSizes,     \* the sizes of the buffers `read` is called with
    MaxReplaced,  \* bound: times the object is replaced
    MaxFaults     \* bound: requests that fail though they could be served

ASSUME ChunkAssumption  == Chunk \in Nat \ {0}
ASSUME LengthAssumption == Lengths \subseteq Nat
ASSUME OutAssumption    == OutSizes \subseteq Nat \ {0}
ASSUME BoundsAssumption == MaxReplaced \in Nat /\ MaxFaults \in Nat

VARIABLES
    lens,    \* lens[v]: length of version v of the object; the last is current
    size,    \* reader: total size, Unknown until a response reports it
    pos,     \* reader: next offset to fetch
    buf,     \* reader: the current chunk
    off,     \* reader: how much of buf is consumed
    got,     \* the bytes `read` has returned
    phase,   \* "reading", "probing" (HEAD after a failed GET), "eof", "failed"
    faults   \* requests failed so far

reader == <<size, pos, buf, off>>
vars   == <<lens, reader, got, phase, faults>>

Unknown == -1

Byte == [at : Nat, ver : Nat \ {0}]

TypeOK ==
    /\ lens \in Seq(Lengths) /\ Len(lens) \in 1 .. MaxReplaced + 1
    /\ size \in Nat \cup {Unknown}
    /\ pos \in Nat /\ off \in Nat
    /\ buf \in Seq(Byte) /\ off =< Len(buf)
    /\ got \in Seq(Byte)
    /\ phase \in {"reading", "probing", "eof", "failed"}
    /\ faults \in 0 .. MaxFaults

Init ==
    /\ lens \in {<<n>> : n \in Lengths}
    /\ size = Unknown /\ pos = 0 /\ buf = <<>> /\ off = 0
    /\ got = <<>>
    /\ phase = "reading"
    /\ faults = 0

Version == Len(lens)
Current == lens[Version]

Least(a, b) == IF a =< b THEN a ELSE b

(* k bytes of the current version from offset `from`. *)
Body(from, k) == [i \in 1 .. k |-> [at |-> from + i - 1, ver |-> Version]]

-----------------------------------------------------------------------------
(* read *)

Spent == off >= Len(buf)

(* Slip of Consume: the copied bytes are not marked consumed when the      *)
(* caller's buffer is smaller than the chunk.                              *)
ConsumeOnlyWhole ==
    /\ phase = "reading" /\ ~Spent
    /\ \E n \in OutSizes :
          LET k == Least(n, Len(buf) - off)
          IN  /\ got' = got \o SubSeq(buf, off + 1, off + k)
              /\ off' = IF k < Len(buf) - off THEN off ELSE off + k
    /\ UNCHANGED <<lens, size, pos, buf, phase, faults>>

(* Copy what is buffered into the caller's buffer. *)
Consume ==
    /\ phase = "reading" /\ ~Spent
    /\ \E n \in OutSizes :
          LET k == Least(n, Len(buf) - off)
          IN  /\ got' = got \o SubSeq(buf, off + 1, off + k)
              /\ off' = off + k
    /\ UNCHANGED <<lens, size, pos, buf, phase, faults>>

(* Slip of KnownEnd: the end is not recognised at the size itself. *)
KnownEndPast == size # Unknown /\ pos > size

(* Once the size is known, stop at the end without another request. *)
KnownEnd == size # Unknown /\ pos >= size

AtEnd ==
    /\ phase = "reading" /\ Spent /\ KnownEnd
    /\ phase' = "eof"
    /\ UNCHANGED <<lens, reader, got, faults>>

Asking == phase = "reading" /\ Spent /\ ~KnownEnd

RangeEnd == IF size = Unknown THEN pos + Chunk ELSE Least(pos + Chunk, size)

(* Slips of Fetch: keep the first size; keep the old place in the chunk. *)
FetchKeepsSize ==
    /\ Asking /\ pos < Current
    /\ \E k \in 1 .. Least(RangeEnd, Current) - pos :
          /\ buf' = Body(pos, k)
          /\ pos' = pos + k
    /\ size' = IF size = Unknown THEN Current ELSE size
    /\ off' = 0
    /\ UNCHANGED <<lens, got, phase, faults>>

FetchKeepsOffset ==
    /\ Asking /\ pos < Current
    /\ \E k \in 1 .. Least(RangeEnd, Current) - pos :
          /\ buf' = Body(pos, k)
          /\ pos' = pos + k
    /\ size' = Current
    /\ off' = IF size = Unknown THEN 0 ELSE off
    /\ UNCHANGED <<lens, got, phase, faults>>

(* A range request is served, wholly or in part, by the current version;   *)
(* its response also reports the version's size.                           *)
Fetch ==
    /\ Asking /\ pos < Current
    /\ \E k \in 1 .. Least(RangeEnd, Current) - pos :
          /\ buf' = Body(pos, k)
          /\ pos' = pos + k
    /\ size' = Current
    /\ off' = 0
    /\ UNCHANGED <<lens, got, phase, faults>>

(* A store that answers a range beyond the object's end with an empty      *)
(* body: an end of file at any place, also where a replacement left less   *)
(* than was read already.                                                  *)
FetchEmpty ==
    /\ Asking /\ pos >= Current
    /\ size' = Current
    /\ buf' = <<>> /\ off' = 0
    /\ phase' = "eof"
    /\ UNCHANGED <<lens, pos, got, faults>>

(* The request fails: because no byte of the range exists (HTTP 416), or   *)
(* for a reason of its own.  With no size known yet, a HEAD follows.       *)
FetchFails ==
    /\ Asking
    /\ \/ pos >= Current /\ UNCHANGED faults
       \/ pos < Current /\ faults < MaxFaults /\ faults' = faults + 1
    /\ phase' = IF size = Unknown THEN "probing" ELSE "failed"
    /\ UNCHANGED <<lens, reader, got>>

(* Slips of ProbeEmpty: any answer to the HEAD counts as an empty object;  *)
(* the request is made again instead of ending the file.                   *)
ProbeAnswered ==
    /\ phase = "probing"
    /\ size' = 0
    /\ phase' = "eof"
    /\ UNCHANGED <<lens, pos, buf, off, got, faults>>

ProbeAgain ==
    /\ phase = "probing" /\ Current = 0
    /\ phase' = "reading"
    /\ UNCHANGED <<lens, reader, got, faults>>

(* The HEAD says the object is empty: an end of file, not an error. *)
ProbeEmpty ==
    /\ phase = "probing" /\ Current = 0
    /\ size' = 0
    /\ phase' = "eof"
    /\ UNCHANGED <<lens, pos, buf, off, got, faults>>

(* The HEAD reports bytes, or fails as well: the first error stands. *)
ProbeFails ==
    /\ phase = "probing"
    /\ \/ Current > 0 /\ UNCHANGED faults
       \/ faults < MaxFaults /\ faults' = faults + 1
    /\ phase' = "failed"
    /\ UNCHANGED <<lens, reader, got>>

-----------------------------------------------------------------------------
(* The store (external): the object is replaced between two requests. *)
Replace ==
    /\ Len(lens) =< MaxReplaced
    /\ phase \in {"reading", "probing"}
    /\ \E n \in Lengths : lens' = Append(lens, n)
    /\ UNCHANGED <<reader, got, phase, faults>>

Over == phase \in {"eof", "failed"} /\ UNCHANGED vars

Read == Consume \/ AtEnd \/ Fetch \/ FetchEmpty \/ FetchFails
        \/ ProbeEmpty \/ ProbeFails

Next == Read \/ Replace \/ Over

Spec == Init /\ [][Next]_vars

(* The framer above keeps calling `read` until it returns 0 or an error. *)
FairSpec == Spec /\ WF_vars(Read)

-----------------------------------------------------------------------------
(* Correctness *)

Ahead == SubSeq(buf, off + 1, Len(buf))

(* The bytes returned, and those buffered behind them, are at successive   *)
(* offsets from zero: no chunk boundary, short body or small caller buffer *)
(* loses or repeats a byte.                                                *)
Contiguous == \A i \in 1 .. Len(got \o Ahead) : (got \o Ahead)[i].at = i - 1

(* While the object stays as it is, an end of file means that every byte   *)
(* of it was returned.                                                     *)
WholeObject == phase = "eof" /\ Len(lens) = 1 => Len(got) = lens[1]

(* However the object was replaced, an end of file is reported only where  *)
(* a version ends: the one that served the last byte, or one that took its *)
(* place and is no longer than what was read.  A read is never cut at a    *)
(* chunk boundary by the size of a version that is gone.                   *)
EndsWithAVersion ==
    phase = "eof" /\ got # <<>> =>
       \E v \in Last(got).ver .. Len(lens) : lens[v] =< Len(got)

(* Without a store fault and without a replacement no read fails: asking   *)
(* beyond the end of the object would be refused, and an empty object      *)
(* refuses every range.                                                    *)
FailsForCause == phase = "failed" => faults > 0 \/ Len(lens) > 1

(* Reading comes to an end. *)
Terminates == <>(phase \in {"eof", "failed"})
=============================================================================
