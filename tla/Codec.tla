------------------------------- MODULE Codec -------------------------------
(***************************************************************************)
(* Decoding and encoding of one record by a layout: decode_record          *)
(* (fixedformat-core/src/decode.rs), encode_record (encode.rs) and the     *)
(* layout's own arithmetic (layout.rs).  A layout is a sequence of fields;  *)
(* positions are counted from zero, as in the code.                        *)
(*                                                                         *)
(* A field is a record [name, offset, width, kind, occurs, controller]:    *)
(* occurs is Once without an OCCURS clause, controller is NoField without  *)
(* DEPENDING ON.  Names are taken to differ in more than their case.       *)
(***************************************************************************)
EXTENDS Conversions

CONSTANT NoField

(* The kinds of field. *)
DisplayInt(signed, sign)  == [k |-> "int", signed |-> signed, sign |-> sign]
Binary(endian, signed)    == [k |-> "binary", endian |-> endian, signed |-> signed]
Decimal(repr, precision, scale, sign) ==
    [k |-> "decimal", repr |-> repr, precision |-> precision, scale |-> scale, sign |-> sign]
Edited(precision, scale, signed, mask) ==
    [k |-> "edited", precision |-> precision, scale |-> scale, signed |-> signed, mask |-> mask]
Chars(justify, pad)       == [k |-> "text", justify |-> justify, pad |-> pad]
Hex(order)                == [k |-> "hex", order |-> order]
Real(bits, endian)        == [k |-> "float", bits |-> bits, endian |-> endian]
Bool                      == [k |-> "bool"]
DateTime(kind, format)    == [k |-> "datetime", is |-> kind, format |-> format]
Pad(byte)                 == [k |-> "pad", pad |-> byte]
Group(fields)             == [k |-> "group", fields |-> fields]

IsPad(f)   == f.kind.k = "pad"
IsGroup(f) == f.kind.k = "group"
IsTable(f) == f.controller # NoField

-----------------------------------------------------------------------------
(* Layout *)

Times(f) == IF f.occurs = Once THEN 1 ELSE f.occurs

(* A table that depends on a field reserves no place. *)
ReservedWidth(f) == IF IsTable(f) THEN 0 ELSE f.width * Times(f)

RECURSIVE HasTable(_)
HasTable(f) == IsTable(f) \/ (IsGroup(f) /\ \E i \in 1 .. Len(f.kind.fields) : HasTable(f.kind.fields[i]))

RecordLen(layout) ==
    Max({0} \cup {layout[i].offset + ReservedWidth(layout[i]) : i \in 1 .. Len(layout)})

Variable(layout) == \E i \in 1 .. Len(layout) : HasTable(layout[i])

(* How far a field that took `used` bytes pushes its later siblings.  Slip *)
(* of Excess: by all of them, the reserved place included.                 *)
ExcessWhole(f, used) == used

Excess(f, used) == Max({0, used - ReservedWidth(f)})

-----------------------------------------------------------------------------
(* Decoding *)

(* A byte that no UTF-8 text has is read as U+FFFD, three bytes long.  The  *)
(* other bytes over 127 are taken to stand in characters.                  *)
Lossy(s) ==
    FlattenSeq([i \in 1 .. Len(s) |->
                   IF s[i] \in {192, 193} \cup (245 .. 255) THEN <<239, 191, 189>> ELSE <<s[i]>>])

(* trim_pad, and what follows a first NUL is dropped. *)
Unpadded(s, justify, pad) ==
    LET kept == {i \in 1 .. Len(s) : s[i] # pad}
        cut  == IF justify = "left" THEN SubSeq(s, 1, Max({0} \cup kept))
                ELSE SubSeq(s, Min({Len(s) + 1} \cup kept), Len(s))
        nuls == {i \in 1 .. Len(cut) : cut[i] = 0}
    IN  SubSeq(cut, 1, Min({Len(cut) + 1} \cup nuls) - 1)

(* The value of a field's bytes; only characters are transcoded. *)
DecodeLeaf(kind, bytes, enc) ==
    LET s == ToAscii(bytes, enc)
        number(r)  == Then(r, LAMBDA n : Ok(IntVal(n)))
        decimal(r) == Then(r, LAMBDA n : Ok(DecVal(n, kind.scale)))
    IN  CASE kind.k = "int"    -> number(DecodeDisplay(s, kind.sign))
          [] kind.k = "binary" -> number(DecodeBinary(bytes, kind.endian, kind.signed))
          [] kind.k = "text"   -> Ok(TextVal(Unpadded(Lossy(s), kind.justify, kind.pad)))
          [] kind.k = "hex"    -> Ok(TextVal(ToHex(bytes, kind.order)))
          [] kind.k = "float"  -> Then(DecodeFloat(bytes, kind.bits, kind.endian),
                                       LAMBDA f : Ok(FloatVal(f)))
          [] kind.k = "bool"   -> Ok(BoolVal(\E i \in 1 .. Len(bytes) : bytes[i] \notin {0, Zero}))
          [] kind.k = "datetime" -> ParseDateTime(kind.is, kind.format, s)
          [] kind.k = "edited" -> decimal(DecodeEdited(s, kind.signed))
          [] kind.k = "pad"    -> Ok(Null)
          [] kind.k = "decimal" ->
                decimal(CASE kind.repr = "packed"  -> DecodePacked(bytes)
                          [] kind.repr = "zoned"   -> DecodeZoned(s)
                          [] kind.repr = "display" -> DecodeDisplayDecimal(s, kind.sign))

(* The scope holds the display and binary integers decoded so far.         *)
InScope(f) == f.kind.k \in {"int", "binary"} /\ f.occurs = Once /\ ~IsTable(f)

(* The number of elements of a field, Once for a field that is no list.    *)
(* Slip of Count: the declared maximum is not looked at.                   *)
CountUnlimited(f, scope) ==
    IF ~IsTable(f) THEN Ok(f.occurs)
    ELSE IF f.controller \notin DOMAIN scope THEN Err
    ELSE IF scope[f.controller] < 0 THEN Err
    ELSE Ok(scope[f.controller])

Count(f, scope) ==
    IF ~IsTable(f) THEN Ok(f.occurs)
    ELSE IF f.controller \notin DOMAIN scope THEN Err
    ELSE IF scope[f.controller] < 0 \/ (f.occurs # Once /\ scope[f.controller] > f.occurs) THEN Err
    ELSE Ok(scope[f.controller])

Start(scope) == [pairs |-> <<>>, shift |-> 0, used |-> 0, scope |-> scope]

(* What a decoded field adds to those before it.  Slip of After: the room  *)
(* a table took is forgotten.                                              *)
AfterUnshifted(st, f, value, used, scope) ==
    [pairs |-> IF IsPad(f) THEN st.pairs ELSE Append(st.pairs, <<f.name, value>>),
     shift |-> st.shift,
     used  |-> Max({st.used, f.offset + st.shift + used}),
     scope |-> IF InScope(f) THEN [n \in DOMAIN scope \cup {f.name} |->
                                     IF n = f.name THEN value.int ELSE scope[n]]
               ELSE scope]

After(st, f, value, used, scope) ==
    [pairs |-> IF IsPad(f) THEN st.pairs ELSE Append(st.pairs, <<f.name, value>>),
     shift |-> st.shift + Excess(f, used),
     used  |-> Max({st.used, f.offset + st.shift + used}),
     scope |-> IF InScope(f) THEN [n \in DOMAIN scope \cup {f.name} |->
                                     IF n = f.name THEN value.int ELSE scope[n]]
               ELSE scope]

RECURSIVE DecodeSeq(_, _, _, _, _), DecodeTimes(_, _, _, _, _, _), DecodeOne(_, _, _, _, _)

(* One occurrence of a field at a position: its value, its bytes, and the  *)
(* scope, which a group leaves its fields in.                              *)
DecodeOne(f, at, bytes, enc, scope) ==
    IF IsGroup(f)
    THEN Then(DecodeSeq(f.kind.fields, at, bytes, enc, Start(scope)),
              LAMBDA g : Ok([value |-> StructVal(g.pairs), used |-> g.used, scope |-> g.scope]))
    ELSE IF at + f.width > Len(bytes) THEN Err
    ELSE Then(DecodeLeaf(f.kind, SubSeq(bytes, at + 1, at + f.width), enc),
              LAMBDA v : Ok([value |-> v, used |-> f.width, scope |-> scope]))

(* n more elements after those in `list`; one of no bytes would never end  *)
(* and is refused.                                                         *)
DecodeTimes(f, n, at, bytes, enc, list) ==
    IF n = 0 THEN Ok(list)
    ELSE Then(DecodeOne(f, at + list.used, bytes, enc, list.scope),
              LAMBDA e : IF e.used = 0 THEN Err
                         ELSE DecodeTimes(f, n - 1, at, bytes, enc,
                                          [value |-> ListVal(Append(list.value.list, e.value)),
                                           used  |-> list.used + e.used,
                                           scope |-> e.scope]))

DecodeField(f, at, bytes, enc, scope) ==
    Then(Count(f, scope),
         LAMBDA n : IF n = Once THEN DecodeOne(f, at, bytes, enc, scope)
                    ELSE DecodeTimes(f, n, at, bytes, enc,
                                     [value |-> ListVal(<<>>), used |-> 0, scope |-> scope]))

DecodeSeq(fields, base, bytes, enc, st) ==
    IF fields = <<>> THEN Ok(st)
    ELSE Then(DecodeField(Head(fields), base + Head(fields).offset + st.shift, bytes, enc, st.scope),
              LAMBDA d : DecodeSeq(Tail(fields), base, bytes, enc,
                                   After(st, Head(fields), d.value, d.used, d.scope)))

NoScope == [n \in {} |-> 0]

(* The values by name, or an error. *)
DecodeRecord(layout, bytes, enc) ==
    IF ~Variable(layout) /\ Len(bytes) < RecordLen(layout) THEN Err
    ELSE Then(DecodeSeq(layout, 0, bytes, enc, Start(NoScope)), LAMBDA d : Ok(d.pairs))

-----------------------------------------------------------------------------
(* Encoding *)

Lookup(pairs, name) ==
    LET at == {i \in 1 .. Len(pairs) : pairs[i][1] = name}
    IN  IF at = {} THEN Null ELSE pairs[Min(at)][2]

(* put: the buffer grows with zeros where it is too short. *)
Put(buf, at, bytes) ==
    [i \in 1 .. Max({Len(buf), at + Len(bytes)}) |->
        IF i \in at + 1 .. at + Len(bytes) THEN bytes[i - at]
        ELSE IF i =< Len(buf) THEN buf[i] ELSE 0]

Padded(s, width, justify, pad) ==
    LET fill == [i \in 1 .. width - Len(s) |-> pad]
    IN  IF Len(s) > width THEN Err
        ELSE Ok(IF justify = "left" THEN s \o fill ELSE fill \o s)

EncodeDecimal(n, f) ==
    CASE f.kind.repr = "packed"  -> EncodePacked(n, f.width, f.kind.sign # "unsigned")
      [] f.kind.repr = "zoned"   -> EncodeZoned(n, f.width, f.kind.sign # "unsigned")
      [] f.kind.repr = "display" -> EncodeDisplayDecimal(n, f.kind.precision, f.width, f.kind.sign)

(* The bytes of a field before they are transcoded.  A boolean is one byte *)
(* and true for TRUE and 1 only.                                           *)
EncodeAscii(f, v) ==
    LET kind == f.kind
    IN  CASE kind.k = "int"    -> Then(AsInteger(v), LAMBDA n : EncodeDisplay(n, f.width, kind.signed, kind.sign))
          [] kind.k = "binary" -> Then(AsInteger(v), LAMBDA n : EncodeBinary(n, f.width, kind.endian))
          [] kind.k = "text"   -> Padded(DisplayScalar(v), f.width, kind.justify, kind.pad)
          [] kind.k = "hex"    -> IF Is(v, "text") \/ v = Null
                                  THEN EncodeHex(DisplayScalar(v), f.width, kind.order) ELSE Err
          [] kind.k = "float"  -> Then(AsFloat(v), LAMBDA x : EncodeFloat(x, kind.bits, kind.endian))
          [] kind.k = "bool"   -> Ok(<<IF v \in {BoolVal(TRUE), IntVal(1)} THEN 1 ELSE 0>>)
          [] kind.k = "datetime" -> FormatDateTime(v, kind.format, f.width)
          [] kind.k = "edited" -> Then(AsDecimal(v, kind.scale), LAMBDA n : EncodeEdited(n, kind.mask))
          [] kind.k = "pad"    -> Ok([i \in 1 .. f.width |-> kind.pad])
          [] kind.k = "decimal" -> Then(AsDecimal(v, kind.scale), LAMBDA n : EncodeDecimal(n, f))

Characters(kind) ==
    kind.k \in {"int", "text", "datetime", "edited", "pad"} \/ (kind.k = "decimal" /\ kind.repr # "packed")

(* Slip of EncodeLeaf: numbers in binary are transcoded, too. *)
EncodeLeafEverything(f, v, enc) == Then(EncodeAscii(f, v), LAMBDA b : Ok(FromAscii(b, enc)))

EncodeLeaf(f, v, enc) ==
    Then(EncodeAscii(f, v), LAMBDA b : Ok(IF Characters(f.kind) THEN FromAscii(b, enc) ELSE b))

RECURSIVE EncodeSeq(_, _, _, _, _), EncodeTimes(_, _, _, _, _, _), EncodeOne(_, _, _, _, _)

EncodeOne(f, at, buf, v, enc) ==
    IF ~IsGroup(f)
    THEN Then(EncodeLeaf(f, v, enc), LAMBDA b : Ok([buf |-> Put(buf, at, b), used |-> f.width]))
    ELSE IF Is(v, "struct") \/ v = Null
    THEN EncodeSeq(f.kind.fields, at, IF Is(v, "struct") THEN v.struct ELSE <<>>,
                   enc, [buf |-> buf, used |-> 0, shift |-> 0])
    ELSE Err

(* n more elements: items beyond the list are NULL, and those beyond n are *)
(* left out.                                                               *)
EncodeTimes(f, n, at, items, enc, st) ==
    IF n = 0 THEN Ok(st)
    ELSE Then(EncodeOne(f, at + st.used, st.buf, IF items = <<>> THEN Null ELSE Head(items), enc),
              LAMBDA e : EncodeTimes(f, n - 1, at, SubSeq(items, 2, Len(items)), enc,
                                     [buf |-> e.buf, used |-> st.used + e.used]))

(* A table that depends on a field is as long as the list supplied. *)
EncodeField(f, at, buf, v, enc) ==
    LET items == IF Is(v, "list") THEN v.list ELSE <<>>
    IN  IF f.occurs = Once /\ ~IsTable(f) THEN EncodeOne(f, at, buf, v, enc)
        ELSE IF ~Is(v, "list") /\ v # Null THEN Err
        ELSE EncodeTimes(f, IF IsTable(f) THEN Len(items) ELSE f.occurs, at, items, enc,
                         [buf |-> buf, used |-> 0])

EncodeSeq(fields, base, pairs, enc, st) ==
    IF fields = <<>> THEN Ok(st)
    ELSE LET f  == Head(fields)
             at == f.offset + st.shift
         IN  Then(EncodeField(f, base + at, st.buf, Lookup(pairs, f.name), enc),
                  LAMBDA e : EncodeSeq(Tail(fields), base, pairs, enc,
                                       [buf   |-> e.buf,
                                        used  |-> Max({st.used, at + e.used}),
                                        shift |-> st.shift + Excess(f, e.used)]))

Supplied(layout, pairs) ==
    \A i \in 1 .. Len(layout) :
        IsPad(layout[i]) \/ \E j \in 1 .. Len(pairs) : pairs[j][1] = layout[i].name

(* The bytes of the record, or an error. *)
EncodeRecord(layout, pairs, enc) ==
    IF ~Supplied(layout, pairs) THEN Err
    ELSE Then(EncodeSeq(layout, 0, pairs, enc,
                        [buf |-> [i \in 1 .. RecordLen(layout) |-> 0], used |-> 0, shift |-> 0]),
              LAMBDA e : Ok(e.buf))
=============================================================================
