---------------------------- MODULE RecordStream ----------------------------
(***************************************************************************)
(* The streaming framer (`RecordStream` in fixedformat-core/src/stream.rs) *)
(* over a buffered reader that hands out the input in pieces of any size,  *)
(* with the two limits on what is buffered: the longest record and the     *)
(* most decompressed bytes (`LimitReader`).                                *)
(*                                                                         *)
(* `input` is the plain text; where it comes from a decoder, compressed is *)
(* TRUE and the limit on its length applies.                               *)
(***************************************************************************)
EXTENDS Framing

CONSTANTS
    Inputs,      \* the byte sequences that may be read
    RecordLens,  \* the record lengths that fixed framing may be asked for
    BufSize,     \* capacity of the buffered reader
    MaxRecord,   \* max_record_bytes
    MaxPlain,    \* max_decompressed_bytes
    MaxFaults    \* bound: read errors

ASSUME InputsAssumption == Inputs \subseteq Seq(Bytes)
ASSUME LensAssumption   == RecordLens \subseteq Nat
ASSUME LimitsAssumption == /\ BufSize \in Nat \ {0}
                           /\ MaxRecord \in Nat
                           /\ MaxPlain \in Nat
                           /\ MaxFaults \in Nat

VARIABLES
    input,       \* the stream
    compressed,  \* whether it passes a LimitReader
    framing, recordLen,
    fed,         \* bytes the source has put into the reader's buffer so far
    at,          \* bytes consumed from it
    rec,         \* the record, or the whole stream, being accumulated
    out,         \* the records yielded
    status,
    faults

source == <<input, compressed, framing, recordLen>>
vars   == <<source, fed, at, rec, out, status, faults>>

Statuses == {"new", "slurping", "ready", "within", "ended", "error"}

TypeOK ==
    /\ input \in Seq(Bytes)
    /\ compressed \in BOOLEAN
    /\ framing \in Framings /\ recordLen \in Nat
    /\ fed \in 0 .. Len(input)
    /\ at \in 0 .. fed
    /\ rec \in Seq(Bytes)
    /\ out \in Seq(Seq(Bytes))
    /\ status \in Statuses
    /\ faults \in 0 .. MaxFaults

Init ==
    /\ input \in Inputs
    /\ compressed \in BOOLEAN
    /\ framing \in Framings
    /\ recordLen \in IF framing = "fixed" THEN RecordLens ELSE {0}
    /\ fed = 0 /\ at = 0
    /\ rec = <<>> /\ out = <<>>
    /\ status = "new"
    /\ faults = 0

Available == SubSeq(input, at + 1, fed)
Exhausted == at = Len(input)

(* A record is being read, or the whole stream is. *)
Reading == status \in {"slurping", "within"}

-----------------------------------------------------------------------------
(* RecordStream::new *)

RefusedLength == framing = "fixed" /\ (recordLen = 0 \/ recordLen > MaxRecord)

New ==
    /\ status = "new"
    /\ status' = IF RefusedLength THEN "error"
                 ELSE IF framing \in {"newline", "fixed"} THEN "ready"
                 ELSE "slurping"
    /\ UNCHANGED <<source, fed, at, rec, out, faults>>

-----------------------------------------------------------------------------
(* The reader below (external): each read yields some of what is left.     *)

(* Slips of Feed: the limit itself is refused; the count restarts with     *)
(* every read.                                                             *)
FeedBelowLimit ==
    /\ Reading /\ at = fed /\ ~Exhausted
    /\ \E k \in 1 .. Min({BufSize, Len(input) - fed}) :
          IF compressed /\ fed + k >= MaxPlain
          THEN status' = "error" /\ UNCHANGED fed
          ELSE fed' = fed + k /\ UNCHANGED status
    /\ UNCHANGED <<source, at, rec, out, faults>>

FeedPerRead ==
    /\ Reading /\ at = fed /\ ~Exhausted
    /\ \E k \in 1 .. Min({BufSize, Len(input) - fed}) :
          IF compressed /\ k > MaxPlain
          THEN status' = "error" /\ UNCHANGED fed
          ELSE fed' = fed + k /\ UNCHANGED status
    /\ UNCHANGED <<source, at, rec, out, faults>>

(* The buffer is empty and is filled again.  A LimitReader in between      *)
(* counts, and fails the read that takes the total over the limit.         *)
Feed ==
    /\ Reading /\ at = fed /\ ~Exhausted
    /\ \E k \in 1 .. Min({BufSize, Len(input) - fed}) :
          IF compressed /\ fed + k > MaxPlain
          THEN status' = "error" /\ UNCHANGED fed
          ELSE fed' = fed + k /\ UNCHANGED status
    /\ UNCHANGED <<source, at, rec, out, faults>>

ReadError ==
    /\ Reading /\ at = fed
    /\ faults < MaxFaults
    /\ faults' = faults + 1
    /\ status' = "error"
    /\ UNCHANGED <<source, fed, at, rec, out>>

-----------------------------------------------------------------------------
(* next *)

NextRecord ==
    /\ status = "ready"
    /\ status' = "within"
    /\ rec' = <<>>
    /\ UNCHANGED <<source, fed, at, out, faults>>

(* Newline: read_until_capped *)

Delimiters == {i \in 1 .. Len(Available) : Available[i] = LF}

(* Slip of LineEnd: the bytes of the line that came in earlier pieces are  *)
(* forgotten.                                                              *)
LineEndOfPiece ==
    /\ status = "within" /\ framing = "newline"
    /\ \E n \in Delimiters :
          /\ \A m \in Delimiters : n =< m
          /\ out' = Append(out, StripCR(SubSeq(Available, 1, n - 1)))
          /\ at' = at + n
    /\ status' = "ready"
    /\ UNCHANGED <<source, fed, rec, faults>>

(* The delimiter is in the buffer: the line is yielded whatever its        *)
(* length, without its terminator.                                         *)
LineEnd ==
    /\ status = "within" /\ framing = "newline"
    /\ \E n \in Delimiters :
          /\ \A m \in Delimiters : n =< m
          /\ out' = Append(out, StripCR(rec \o SubSeq(Available, 1, n - 1)))
          /\ at' = at + n
    /\ status' = "ready"
    /\ UNCHANGED <<source, fed, rec, faults>>

(* Slip of LinePart: no limit. *)
LinePartUncapped ==
    /\ status = "within" /\ framing = "newline"
    /\ Available # <<>> /\ Delimiters = {}
    /\ rec' = rec \o Available
    /\ at' = fed
    /\ UNCHANGED <<source, fed, out, status, faults>>

(* It is not: take all there is, and give up once that is too much.        *)
LinePart ==
    /\ status = "within" /\ framing = "newline"
    /\ Available # <<>> /\ Delimiters = {}
    /\ rec' = rec \o Available
    /\ at' = fed
    /\ status' = IF Len(rec') > MaxRecord THEN "error" ELSE status
    /\ UNCHANGED <<source, fed, out, faults>>

(* Slip of LastLine: a last line without a terminator is dropped. *)
LastLineDropped ==
    /\ status = "within" /\ framing = "newline" /\ Exhausted
    /\ status' = "ended"
    /\ UNCHANGED <<source, fed, at, rec, out, faults>>

(* The end of the stream: what is left is the last line, verbatim. *)
LastLine ==
    /\ status = "within" /\ framing = "newline" /\ Exhausted
    /\ out' = IF rec = <<>> THEN out ELSE Append(out, rec)
    /\ status' = "ended"
    /\ UNCHANGED <<source, fed, at, rec, faults>>

(* Fixed: read_full *)

FixedPart ==
    /\ status = "within" /\ framing = "fixed" /\ Available # <<>>
    /\ LET n    == Min({Len(Available), recordLen - Len(rec)})
           full == rec \o SubSeq(Available, 1, n)
       IN  /\ at' = at + n
           /\ rec' = full
           /\ IF Len(full) = recordLen
              THEN out' = Append(out, full) /\ status' = "ready"
              ELSE UNCHANGED <<out, status>>
    /\ UNCHANGED <<source, fed, faults>>

(* Slip of FixedEnd: a read of nothing is taken for an empty record. *)
FixedEndAgain ==
    /\ status = "within" /\ framing = "fixed" /\ Exhausted
    /\ status' = IF rec = <<>> THEN "ready" ELSE "error"
    /\ UNCHANGED <<source, fed, at, rec, out, faults>>

(* The end of the stream: an error unless it falls between two records. *)
FixedEnd ==
    /\ status = "within" /\ framing = "fixed" /\ Exhausted
    /\ status' = IF rec = <<>> THEN "ended" ELSE "error"
    /\ UNCHANGED <<source, fed, at, rec, out, faults>>

(* The RDW family: read_to_end, then the slice framer *)

(* Slip of Slurp: the buffer is always taken to be full. *)
SlurpBuffer ==
    /\ status = "slurping" /\ Available # <<>>
    /\ rec' = rec \o Available
    /\ at' = at + BufSize
    /\ UNCHANGED <<source, fed, out, status, faults>>

Slurp ==
    /\ status = "slurping" /\ Available # <<>>
    /\ rec' = rec \o Available
    /\ at' = fed
    /\ UNCHANGED <<source, fed, out, status, faults>>

SlurpEnd ==
    /\ status = "slurping" /\ Exhausted
    /\ LET split == Records(rec, framing, recordLen)
       IN  /\ out' = split.recs
           /\ status' = IF split.ok THEN "ended" ELSE "error"
    /\ UNCHANGED <<source, fed, at, rec, faults>>

Over == status \in {"ended", "error"} /\ UNCHANGED vars

Newline  == LineEnd \/ LinePart \/ LastLine
Fixed    == FixedPart \/ FixedEnd
Buffered == Slurp \/ SlurpEnd

Run == New \/ Feed \/ NextRecord \/ Newline \/ Fixed \/ Buffered

Next == Run \/ ReadError \/ Over

Spec == Init /\ [][Next]_vars

(* The caller keeps asking for records until there is none. *)
FairSpec == Spec /\ WF_vars(Run)

-----------------------------------------------------------------------------
(* Correctness *)

Sliced == Records(input, framing, recordLen)

OversizeLine ==
    \E i \in 1 .. Len(input) : \E j \in i .. Len(input) :
        /\ \A k \in i .. j : input[k] # LF
        /\ j - i + 1 > MaxRecord

(* Whatever the pieces the input arrives in, a stream that is read to its  *)
(* end yields the records of the slice framer.  Before its end, and also   *)
(* when it ends in an error, it has yielded the first of them and nothing  *)
(* else; a fixed stream the whole records before a partial one, where the  *)
(* slice framer yields none.                                               *)
SameRecords ==
    /\ status = "ended" => Sliced.ok /\ out = Sliced.recs
    /\ CASE framing = "newline" -> IsPrefix(out, Sliced.recs)
         [] framing = "fixed"   -> \A i \in 1 .. Len(out) :
               out[i] = SubSeq(input, (i - 1) * recordLen + 1, i * recordLen)
         [] OTHER               -> out = <<>> \/ out = Sliced.recs

(* A stream is refused only for a read error, for what the slice framer    *)
(* refuses too, or for one of the limits.                                  *)
RefusedForCause ==
    status = "error" =>
        \/ faults > 0
        \/ ~Sliced.ok
        \/ RefusedLength
        \/ framing = "newline" /\ OversizeLine
        \/ compressed /\ Len(input) > MaxPlain

(* A stream of blocks is read just when it consists of whole blocks and    *)
(* each of them of whole records, of lengths that count their own          *)
(* descriptor word: a record does not reach into the next block, however   *)
(* much of the stream is left (rdw_blocked).  The places of words that      *)
(* follow one another from first to last are a chain.                      *)
WordAt(p) == Base * input[p] + input[p + 1]

Chains(first, last) ==
    {K \in SUBSET {p \in first .. last : p + 3 =< Len(input) /\ WordAt(p) >= 4} :
        /\ first \in K \cup {last + 1}
        /\ \A p \in K : /\ p + WordAt(p) \in K \cup {last + 1}
                        /\ p # first => \E q \in K : q + WordAt(q) = p}

BlocksAreWhole ==
    LET blocks    == UNION Chains(1, Len(input))
        inside(b) == Chains(b + 4, b + WordAt(b) - 1)
        starts    == SetToSortSeq(UNION {UNION inside(b) : b \in blocks}, <)
    IN  framing = "rdw_blocked" /\ (status = "ended" \/ (status = "error" /\ fed = Len(input) /\ faults = 0)) =>
            IF Chains(1, Len(input)) # {} /\ \A b \in blocks : inside(b) # {}
            THEN status = "ended" /\ out = [i \in 1 .. Len(starts) |->
                                             SubSeq(input, starts[i] + 4, starts[i] + WordAt(starts[i]) - 1)]
            ELSE status = "error"

(* A decoder's output over the limit is never accepted. *)
LimitHolds == status = "ended" /\ compressed => Len(input) =< MaxPlain

(* A line under construction outgrows the limit by at most one buffer, so  *)
(* a stream without delimiters cannot fill the memory.                     *)
BoundedLine == framing = "newline" => Len(rec) =< MaxRecord + BufSize

(* Every stream comes to its end or to an error. *)
Terminates == <>(status \in {"ended", "error"})
=============================================================================
