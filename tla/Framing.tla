------------------------------ MODULE Framing ------------------------------
(***************************************************************************)
(* How a file is cut into records and put together from them: the slice    *)
(* framer `records` (fixedformat-core/src/framing.rs) and the writer's     *)
(* `assemble` (fixedformat-worker/src/record_writer.rs).                   *)
(*                                                                         *)
(* A byte is a digit in base Base, so that a descriptor word's length      *)
(* field, two big-endian bytes, counts modulo Base^2 (65536 in the code).  *)
(***************************************************************************)
EXTENDS Integers, Sequences, SequencesExt, FiniteSetsExt

CONSTANTS
    Base,   \* values a byte has (256 in the code)
    CR, LF  \* two of them

ASSUME BaseAssumption == /\ Base \in Nat \ {0}
                         /\ {CR, LF} \subseteq 0 .. Base - 1
                         /\ CR # LF

Bytes == 0 .. Base - 1

Framings == {"newline", "fixed", "rdw", "rdw_blocked"}

(* What a framer returns: an error, or the records. *)
Malformed   == [ok |-> FALSE, recs |-> <<>>]
Split(recs) == [ok |-> TRUE, recs |-> recs]

(* The records r followed by those of `rest`, unless that is an error. *)
Before(r, rest) == IF rest.ok THEN Split(r \o rest.recs) ELSE Malformed

-----------------------------------------------------------------------------
(* records *)

(* Slip of StripCR: every trailing CR goes. *)
StripAllCR(line) ==
    SubSeq(line, 1, Max({0} \cup {i \in 1 .. Len(line) : line[i] # CR}))

StripCR(line) == IF line # <<>> /\ Last(line) = CR THEN Front(line) ELSE line

NewlineRecords(data) ==
    LET from[s \in 1 .. Len(data) + 1] ==
          LET ends == {i \in s .. Len(data) : data[i] = LF}
          IN  IF s > Len(data) THEN <<>>
              ELSE IF ends = {} THEN <<SubSeq(data, s, Len(data))>>
              ELSE <<StripCR(SubSeq(data, s, Min(ends) - 1))>> \o from[Min(ends) + 1]
    IN  Split(from[1])

FixedRecords(data, len) ==
    IF len = 0 \/ Len(data) % len # 0 THEN Malformed
    ELSE Split([i \in 1 .. Len(data) \div len |->
                   SubSeq(data, (i - 1) * len + 1, i * len)])

(* The length a descriptor word at p announces, itself included; 0 when    *)
(* there is no valid one.                                                  *)
DescriptorLen(data, p) ==
    IF p + 3 > Len(data) THEN 0
    ELSE LET n == Base * data[p] + data[p + 1] IN IF n < 4 THEN 0 ELSE n

(* Slip of RdwWithin: a record may end anywhere in the stream. *)
RdwWithinStream(data, first, last) ==
    LET from[p \in 1 .. Len(data) + 1] ==
          LET n == DescriptorLen(data, p)
          IN  IF p > last THEN Split(<<>>)
              ELSE IF n = 0 \/ p + n - 1 > Len(data) THEN Malformed
              ELSE Before(<<SubSeq(data, p + 4, p + n - 1)>>, from[p + n])
    IN  from[first]

(* The records behind the descriptor words from first to last. *)
RdwWithin(data, first, last) ==
    LET from[p \in 1 .. last + 1] ==
          LET n == DescriptorLen(data, p)
          IN  IF p > last THEN Split(<<>>)
              ELSE IF n = 0 \/ p + n - 1 > last THEN Malformed
              ELSE Before(<<SubSeq(data, p + 4, p + n - 1)>>, from[p + n])
    IN  from[first]

RdwRecords(data) == RdwWithin(data, 1, Len(data))

RdwBlockedRecords(data) ==
    LET from[p \in 1 .. Len(data) + 1] ==
          LET n     == DescriptorLen(data, p)
              block == RdwWithin(data, p + 4, p + n - 1)
          IN  IF p > Len(data) THEN Split(<<>>)
              ELSE IF n = 0 \/ p + n - 1 > Len(data) \/ ~block.ok THEN Malformed
              ELSE Before(block.recs, from[p + n])
    IN  from[1]

Records(data, framing, len) ==
    CASE framing = "newline"     -> NewlineRecords(data)
      [] framing = "fixed"       -> FixedRecords(data, len)
      [] framing = "rdw"         -> RdwRecords(data)
      [] framing = "rdw_blocked" -> RdwBlockedRecords(data)

-----------------------------------------------------------------------------
(* assemble *)

(* The length is cast to 16 bits (`len as u16`). *)
Descriptor(n) == <<(n % (Base * Base)) \div Base, n % Base, 0, 0>>

(* Slip of WithRdw: the descriptor does not count itself. *)
WithBareRdw(rec) == Descriptor(Len(rec)) \o rec

WithRdw(rec) == Descriptor(Len(rec) + 4) \o rec

(* A record as it goes into the body, delimited or behind its length. *)
Frame(rec, framing) ==
    CASE framing = "newline" -> Append(rec, LF)
      [] framing = "fixed"   -> rec
      [] framing \in {"rdw", "rdw_blocked"} -> WithRdw(rec)

Frames(recs, framing) == FlattenSeq([i \in 1 .. Len(recs) |-> Frame(recs[i], framing)])

Assemble(recs, framing) ==
    IF framing = "rdw_blocked"
    THEN Descriptor(Len(Frames(recs, framing)) + 4) \o Frames(recs, framing)
    ELSE Frames(recs, framing)

-----------------------------------------------------------------------------
(* When what is assembled can be read back. *)

Word == Base * Base

Fits(recs, framing, len) ==
    CASE framing = "newline" ->
            \A i \in 1 .. Len(recs) :
               ~Contains(recs[i], LF) /\ (recs[i] # <<>> => Last(recs[i]) # CR)
      [] framing = "fixed" ->
            len > 0 /\ \A i \in 1 .. Len(recs) : Len(recs[i]) = len
      [] framing = "rdw" ->
            \A i \in 1 .. Len(recs) : Len(recs[i]) + 4 < Word
      [] framing = "rdw_blocked" ->
            Len(Assemble(recs, "rdw")) + 4 < Word
=============================================================================
