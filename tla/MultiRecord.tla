---------------------------- MODULE MultiRecord ----------------------------
(***************************************************************************)
(* A row's way into a record and back: `pack_fixed` and `write_multi`      *)
(* encode it, `unpack_fixed`, `unpack_multi` and `read_multi` decode it    *)
(* into columns, by one layout or, for records of several types, by the    *)
(* one its discriminator selects (fixedformat-core/src/multirecord.rs,     *)
(* encode_multi_batch in fixedformat-worker/src/buffering/write_multi.rs). *)
(*                                                                         *)
(* A specification of records has the offset and width of a discriminator, *)
(* the variants, each a tag and a layout, the number of the default one or *)
(* zero, and an encoding, "ascii" or "ebcdic".  A single layout is a       *)
(* variant with no discriminator: its width is zero.  A row is             *)
(* [tag, pairs].                                                           *)
(***************************************************************************)
EXTENDS Describe

CONSTANTS
    Rows,    \* what may be packed: a specification and a row
    Records  \* what may be unpacked: a specification and bytes

MaxRecs == 2 \* bound: records on the way of a row

VARIABLES
    spec,
    rows, recs,  \* the rows and the records in turn
    phase        \* "row": the last row is next; "record": the last record

vars == <<spec, rows, recs, phase>>

TypeOK ==
    /\ phase \in {"row", "record", "refused"}
    /\ Len(rows) \in 0 .. MaxRecs + 1 /\ Len(recs) \in 0 .. MaxRecs
    /\ \A i \in 1 .. Len(recs) : Range(recs[i]) \subseteq 0 .. 255

Init ==
    \/ \E r \in Rows :
          spec = r.spec /\ rows = <<r.row>> /\ recs = <<>> /\ phase = "row"
    \/ \E r \in Records :
          spec = r.spec /\ rows = <<>> /\ recs = <<r.bytes>> /\ phase = "record"

-----------------------------------------------------------------------------
(* MultiLayout *)

Multi(sp) == sp.width > 0

Variant(sp, tag) == {i \in 1 .. Len(sp.variants) : sp.variants[i].tag = tag}

(* Slip of EncodeDiscriminator: filled up with zero bytes. *)
EncodeDiscriminatorZero(sp, tag) ==
    FromAscii([i \in 1 .. sp.width |-> IF i =< Len(tag) THEN tag[i] ELSE 0], sp.enc)

(* Left-justified, filled with spaces or cut to the width. *)
EncodeDiscriminator(sp, tag) ==
    FromAscii([i \in 1 .. sp.width |-> IF i =< Len(tag) THEN tag[i] ELSE Space], sp.enc)

Select(sp, bytes) ==
    LET tag == Trim(ToAscii(SubSeq(bytes, sp.offset + 1, sp.offset + sp.width), sp.enc))
    IN  IF Len(bytes) < sp.offset + sp.width THEN Err
        ELSE IF Variant(sp, tag) # {} THEN Ok(Min(Variant(sp, tag)))
        ELSE IF sp.default # 0 THEN Ok(sp.default)
        ELSE Err

(* encode_multi_batch: the fields by the tag's variant, and the            *)
(* discriminator stamped over them.                                        *)
EncodeRow(sp, row) ==
    IF Variant(sp, row.tag) = {} THEN Err
    ELSE Then(EncodeRecord(sp.variants[Min(Variant(sp, row.tag))].layout, row.pairs, sp.enc),
              LAMBDA b : Ok(IF Multi(sp) THEN Put(b, sp.offset, EncodeDiscriminator(sp, row.tag))
                            ELSE b))

DecodeRow(sp, bytes) ==
    Then(IF Multi(sp) THEN Select(sp, bytes) ELSE Ok(1),
         LAMBDA which : Then(DecodeRecord(sp.variants[which].layout, bytes, sp.enc),
                             LAMBDA d : Ok([which |-> which, value |-> StructVal(d)])))

(* A decoded row is the last of a batch of three: before it come a NULL,    *)
(* which unpack_multi gives the first variant, and the row itself.          *)
Batch(row) == <<[which |-> 1, value |-> Null], row, row>>

(* The row as the columns of the batch have it, a struct or a union.        *)
AsColumns(sp, row) ==
    IF Multi(sp)
    THEN Then(UnionFields(sp.variants),
              LAMBDA uf : Then(BuildUnion(uf, Batch(row)), LAMBDA u : Ok(UnionAt(u, 3))))
    ELSE Then(StructType(sp.variants[1].layout),
              LAMBDA ty : Then(BuildArray(ty, [i \in 1 .. 3 |-> Batch(row)[i].value]),
                               LAMBDA a : Ok([tag |-> sp.variants[1].tag, pairs |-> ValueAt(a, 3).struct])))

-----------------------------------------------------------------------------

Pack ==
    /\ phase = "row" /\ Len(recs) < MaxRecs
    /\ \E r \in {EncodeRow(spec, Last(rows))} :
          IF IsOk(r) THEN recs' = Append(recs, r.ok) /\ phase' = "record"
                     ELSE UNCHANGED recs /\ phase' = "refused"
    /\ UNCHANGED <<spec, rows>>

Unpack ==
    /\ phase = "record"
    /\ \E r \in {Then(DecodeRow(spec, Last(recs)), LAMBDA row : AsColumns(spec, row))} :
          IF IsOk(r) THEN rows' = Append(rows, r.ok) /\ phase' = "row"
                     ELSE UNCHANGED rows /\ phase' = "refused"
    /\ UNCHANGED <<spec, recs>>

Next == Pack \/ Unpack

Spec == Init /\ [][Next]_vars

-----------------------------------------------------------------------------
(* Which rows a layout can hold, said without the encoder. *)

Separate(sign) == sign \in {"leading", "trailing"}

HeldDigits(n, sign, width) ==
    LET digits == IF Separate(sign) THEN width - 1 ELSE width
    IN  digits > 0 /\ (digits > 8 \/ Magnitude(n) < 10 ^ digits) /\ (n < 0 => Separate(sign))

HeldPunched(n, sign, digits) ==
    (digits > 8 \/ Magnitude(n) < 10 ^ digits) /\ (n < 0 => sign # "unsigned")

HeldBinary(n, width, signed) ==
    /\ n >= 0 \/ signed
    /\ width > 3 \/ n \in IF signed THEN -(128 * 256 ^ (width - 1)) .. 128 * 256 ^ (width - 1) - 1
                          ELSE 0 .. 256 ^ width - 1

HeldDecimal(n, kind, width) ==
    /\ kind.precision =< 38
    /\ CASE kind.repr = "packed"  -> HeldPunched(n, kind.sign, 2 * width - 1)
         [] kind.repr = "zoned"   -> HeldPunched(n, kind.sign, width)
         [] kind.repr = "display" -> HeldDigits(n, kind.sign, width) /\ kind.precision =< width

HeldText(kind, width, s) ==
    /\ Len(s) =< width /\ 0 \notin Range(s)
    /\ s # <<>> => (IF kind.justify = "left" THEN Last(s) ELSE Head(s)) # kind.pad

(* Half precision has ten bits for the fraction and five for the exponent. *)
HeldFloat(f, bits) ==
    bits = 16 => CASE f.class = "finite" -> f.exp \in -14 .. 15 /\ f.frac % 8192 = 0
                   [] f.class = "nan" -> FALSE
                   [] OTHER -> TRUE

(* A picture gives back what it shows: a digit for a digit, a sign at one   *)
(* of its ends.  An inserted zero counts as a digit of the number.          *)
HeldEdited(n, kind) ==
    LET mask   == kind.mask
        places == Cardinality({i \in 1 .. Len(mask) : mask[i] \in {"9", "Z", "*"}})
    IN  /\ places > 0 /\ Magnitude(n) < 10 ^ places /\ "0" \notin Range(mask)
        /\ \A c \in {"$", "+", "-"} : \A i, j \in 1 .. Len(mask) : mask[i] = c /\ mask[j] = c => i = j
        /\ n < 0 => kind.signed /\ (Head(mask) \in {"+", "-"} \/ Last(mask) \in {"+", "-", "CR", "DB"})

(* The year is written in full or is one of 1970 to 2068, nothing but the   *)
(* seconds of a minute is left out, and no space at an end is part of it.   *)
HeldDateTime(v, kind, width) ==
    LET format == kind.format
        used   == {format[i].of : i \in {j \in 1 .. Len(format) : "of" \in DOMAIN format[j]}}
        length == FoldLeft(LAMBDA n, p : n + IF p = [of |-> "Y"] THEN 4 ELSE IF "of" \in DOMAIN p THEN 2 ELSE 1,
                           0, format)
        date(d) == {"m", "d"} \subseteq used /\ ("Y" \in used \/ ("y" \in used /\ d.year \in 1970 .. 2068))
        time(t) == {"H", "M"} \subseteq used /\ t < 86400 /\ ("S" \in used \/ t % 60 = 0)
    IN  /\ length =< width
        /\ [byte |-> Space] \notin {Head(format), Last(format)}
        /\ CASE kind.is = "date" -> Is(v, "date") /\ date(v.date) /\ used \subseteq {"Y", "y", "m", "d"}
             [] kind.is = "time" -> Is(v, "time") /\ time(v.time) /\ used \subseteq {"H", "M", "S"}
             [] kind.is = "timestamp" -> Is(v, "stamp") /\ date(v.stamp) /\ time(v.clock)

HeldLeaf(f, v) ==
    LET kind == f.kind
    IN  CASE kind.k = "text"  -> Is(v, "text") /\ HeldText(kind, f.width, v.text)
          [] kind.k = "hex"   -> Is(v, "text") /\ Len(v.text) = 2 * f.width
                                 /\ Range(v.text) \subseteq (48 .. 57) \cup (97 .. 102)
          [] kind.k = "int"    -> Is(v, "int") /\ HeldDigits(v.int, kind.sign, f.width)
          [] kind.k = "binary" -> Is(v, "int") /\ HeldBinary(v.int, f.width, kind.signed)
          [] kind.k = "float"  -> Is(v, "float") /\ HeldFloat(v.float, kind.bits)
          [] kind.k = "bool"   -> Is(v, "bool")
          [] kind.k = "decimal"  -> Is(v, "dec") /\ v.scale = kind.scale /\ HeldDecimal(v.dec, kind, f.width)
          [] kind.k = "edited"   -> Is(v, "dec") /\ v.scale = kind.scale /\ HeldEdited(v.dec, kind)
          [] kind.k = "datetime" -> HeldDateTime(v, kind, f.width)

(* What a number says in tenths, hundredths and so on, if it can. *)
InUnits(n, from, to) ==
    IF from =< to THEN n * 10 ^ (to - from)
    ELSE CHOOSE m \in -1000 .. 1000 : m * 10 ^ (from - to) = n

Exact(n, from, to) == from > to => n % (10 ^ (from - to)) = 0

(* The floats of five bits or fewer that are the number n / 10^scale. *)
ShortFloats(n, scale) ==
    {Finite(n < 0, exp, k * 2 ^ 19) :
        <<exp, k>> \in {x \in (-4 .. 10) \X (0 .. 15) :
                          (16 + x[2]) * 2 ^ (x[1] + 4) * 10 ^ scale = Magnitude(n) * 2 ^ 8}}

(* The value of the field's own kind that another stands for: an integer    *)
(* for a number of any kind, a decimal for one of fewer places, a float for *)
(* one that is a sum of halves, nothing for zero or no text.                *)
Own(f, v) ==
    CASE f.kind.k \in {"decimal", "edited"} /\ Is(v, "int") -> DecVal(InUnits(v.int, 0, f.kind.scale), f.kind.scale)
      [] f.kind.k \in {"decimal", "edited"} /\ Is(v, "dec") /\ Exact(v.dec, v.scale, f.kind.scale) ->
            DecVal(InUnits(v.dec, v.scale, f.kind.scale), f.kind.scale)
      [] f.kind.k \in {"decimal", "edited"} /\ v = Null -> DecVal(0, f.kind.scale)
      [] f.kind.k \in {"int", "binary"} /\ Is(v, "dec") /\ v.scale = 0 -> IntVal(v.dec)
      [] f.kind.k \in {"int", "binary"} /\ v = Null -> IntVal(0)
      [] f.kind.k = "float" /\ v \in {Null, IntVal(0)} -> FloatVal(Float("zero", FALSE, 0, 0))
      [] f.kind.k = "float" /\ Is(v, "int") /\ ShortFloats(v.int, 0) # {} ->
            FloatVal(CHOOSE x \in ShortFloats(v.int, 0) : TRUE)
      [] f.kind.k = "float" /\ Is(v, "dec") /\ ShortFloats(v.dec, v.scale) # {} ->
            FloatVal(CHOOSE x \in ShortFloats(v.dec, v.scale) : TRUE)
      [] f.kind.k = "text" /\ v = Null -> TextVal(<<>>)
      [] f.kind.k = "bool" /\ v = IntVal(1) -> BoolVal(TRUE)
      [] OTHER -> v

(* The value of the field of that name nearest before, Null without one. *)
Nearest(known, name) == Lookup(Reverse(known), name)

IsList(f) == f.occurs # Once \/ IsTable(f)

(* No table is longer than it was declared, if it was. *)
Declared(f, n) == f.occurs = Once \/ n =< f.occurs

RECURSIVE OwnFields(_, _), HeldFields(_, _, _), Bytes(_, _), InSequence(_)

OwnFields(fields, pairs) ==
    LET cols == Columns(fields)
        one(f, v) == IF ~IsGroup(f) THEN Own(f, v)
                     ELSE IF Is(v, "struct") THEN StructVal(OwnFields(f.kind.fields, v.struct)) ELSE v
        all(f, v) == IF ~IsList(f) THEN one(f, v)
                     ELSE IF Is(v, "list") THEN ListVal([j \in 1 .. Len(v.list) |-> one(f, v.list[j])]) ELSE v
    IN  IF Len(pairs) # Len(cols) THEN pairs
        ELSE [i \in 1 .. Len(cols) |-> <<pairs[i][1], all(cols[i], pairs[i][2])>>]

(* Every column has a value of its own that fits, and a list is as long as *)
(* its controller says.                                                    *)
HeldFields(fields, pairs, outer) ==
    LET cols     == Columns(fields)
        known(i) == outer \o SubSeq(pairs, 1, i - 1)
        one(i, v) == IF IsGroup(cols[i])
                     THEN Is(v, "struct") /\ HeldFields(cols[i].kind.fields, v.struct, known(i))
                     ELSE HeldLeaf(cols[i], v)
        all(i, v) == /\ Is(v, "list") /\ \A j \in 1 .. Len(v.list) : one(i, v.list[j])
                     /\ IF ~IsTable(cols[i]) THEN Len(v.list) = cols[i].occurs
                        ELSE /\ Declared(cols[i], Len(v.list))
                             /\ Nearest(known(i), cols[i].controller) = IntVal(Len(v.list))
    IN  /\ Len(pairs) = Len(cols)
        /\ \A i \in 1 .. Len(cols) :
               /\ pairs[i][1] = cols[i].name
               /\ IF IsList(cols[i]) THEN all(i, pairs[i][2]) ELSE one(i, pairs[i][2])

(* The bytes that the values of a held row take, one after another. *)
Bytes(fields, pairs) ==
    LET one(f, v) == IF IsGroup(f) THEN Bytes(f.kind.fields, v.struct) ELSE f.width
        all(f, v) == IF IsList(f) THEN FoldLeft(LAMBDA n, x : n + one(f, x), 0, v.list)
                     ELSE one(f, v)
    IN  FoldLeft(LAMBDA n, f : n + IF IsPad(f) THEN f.width ELSE all(f, Lookup(pairs, f.name)),
                 0, fields)

(* No field shares its place with another, as those of REDEFINES do. *)
InSequence(fields) ==
    \A i \in 1 .. Len(fields) :
        /\ fields[i].offset = FoldLeft(LAMBDA n, f : n + ReservedWidth(f), 0, SubSeq(fields, 1, i - 1))
        /\ IsGroup(fields[i]) => InSequence(fields[i].kind.fields)

(* A tag that fits the discriminator. *)
HeldTag(sp, tag) ==
    /\ Variant(sp, tag) # {}
    /\ Multi(sp) => Len(tag) =< sp.width /\ Trim(tag) = tag

LayoutOf(sp, tag) == sp.variants[Min(Variant(sp, tag))].layout

(* The discriminator lies on filler, whatever the length of the record. *)
FreeOfTag(sp, layout) ==
    Multi(sp) => \A i \in 1 .. Len(layout) :
        \/ IsPad(layout[i])
        \/ layout[i].offset >= sp.offset + sp.width
        \/ ~IsTable(layout[i]) /\ layout[i].offset + ReservedWidth(layout[i]) =< sp.offset

(* The pairs a row comes back with. *)
OwnPairs(row) == OwnFields(LayoutOf(spec, row.tag), row.pairs)

Held(sp, row) ==
    /\ HeldTag(sp, row.tag)
    /\ LET layout == LayoutOf(sp, row.tag)
       IN  /\ InSequence(layout) /\ FreeOfTag(sp, layout)
           /\ HeldFields(layout, OwnPairs(row), <<>>)

-----------------------------------------------------------------------------
(* Correctness *)

(* A row that its layout can hold is packed, and comes back from its       *)
(* record as it was, or as the values of the fields' own kinds that it     *)
(* stood for, whether it was given or was itself unpacked: encode and      *)
(* decode agree on every position, count, sign and encoding, and a column  *)
(* on its rows (encode.rs, decode.rs, arrow_map.rs, value_in.rs).  Its     *)
(* record has exactly the bytes of its values: no gap is left where a      *)
(* table ends and no value is written over another.  The tag stamped on    *)
(* any record is the one it is read with.  Of any bytes at all, a table    *)
(* that was unpacked is as long as the controller before it says, and      *)
(* never longer than it was declared (decode_field).                       *)
HeldRowsReturn ==
    /\ \A i \in 1 .. Len(rows) - 1 : HeldTag(spec, rows[i].tag) => rows[i + 1].tag = rows[i].tag
    /\ \A i \in 1 .. Len(rows) - 1 : Held(spec, rows[i]) => rows[i + 1].pairs = OwnPairs(rows[i])
    /\ rows # <<>> /\ Held(spec, Last(rows)) =>
          /\ phase # "refused"
          /\ phase = "record" /\ ~Multi(spec) =>
                Len(Last(recs)) = Bytes(LayoutOf(spec, Last(rows).tag), OwnPairs(Last(rows)))
    /\ phase = "row" /\ recs # <<>> =>
          LET pairs  == Last(rows).pairs
              fields == LayoutOf(spec, Last(rows).tag)
          IN  \A i \in {j \in 1 .. Len(fields) : IsTable(fields[j])} :
                 LET n == Len(Lookup(pairs, fields[i].name).list)
                 IN  Declared(fields[i], n) /\ Lookup(pairs, fields[i].controller) = IntVal(n)

(* The value and the column that a path leads to. *)
ValueOfPath(pairs, path) == FoldLeft(LAMBDA v, name : Lookup(v.struct, name), StructVal(pairs), path)

ItemType(t) == IF t.t = "list" THEN t.item ELSE t
TypeOfPath(layout, path) == FoldLeft(LAMBDA t, name : Lookup(ItemType(t).fields, name), StructType(layout).ok, path)

(* Structs are listed without their fields. *)
Brief(t) == CASE t.t = "list"   -> ListOf(Scalar(IF t.item.t = "struct" THEN "struct" ELSE t.item.t))
              [] t.t = "struct" -> Scalar("struct")
              [] OTHER -> Scalar(t.t)

(* What is listed of a layout is what its records are read by: a column of *)
(* the type that is listed, and, where the places are fixed, the value     *)
(* that the bytes at the listed place stand for, at as many places as the  *)
(* field is said to repeat (describe.rs, arrow_map.rs, decode.rs).         *)
Described ==
    phase = "row" /\ recs # <<>> =>
        LET layout == LayoutOf(spec, Last(rows).tag)
            all    == DescribeMulti(spec.variants)
            mine   == SelectSeq(all, LAMBDA d : d.tag = Last(rows).tag)
            listed == [i \in 1 .. Len(mine) |-> mine[i].row]
            repeats(d) == d.occurs # Once \/ d.controller # NoField
            within(d)  == {listed[j] : j \in {k \in 1 .. Len(listed) : IsStrictPrefix(listed[k].path, d.path)}}
            read(d, n) == DecodeLeaf(d.kind, SubSeq(Last(recs), d.offset + n * d.width + 1, d.offset + (n + 1) * d.width),
                                     spec.enc).ok
        IN  \A i \in 1 .. Len(listed) :
                LET d == listed[i]
                IN  /\ Brief(TypeOfPath(layout, d.path)) = Brief(d.type)
                    /\ ~Variable(layout) /\ d.kind.k # "group" /\ (\A g \in within(d) : ~repeats(g)) =>
                          ValueOfPath(Last(rows).pairs, d.path) =
                              IF repeats(d) THEN ListVal([n \in 1 .. d.occurs |-> read(d, n - 1)]) ELSE read(d, 0)

(* The README: `pack_fixed(unpack_fixed(rec, s), s) = rec`. *)
PackInverse ==
    phase = "record" /\ Len(recs) = 2 /\ Len(rows) = 1 => recs[2] = recs[1]
=============================================================================
