------------------------------ MODULE JsonSpec ------------------------------
(***************************************************************************)
(* From a JSON specification to a layout (fixedformat-core/src/            *)
(* jsonspec.rs) or to the layouts of several record types                  *)
(* (MultiLayout::parse, multirecord.rs), whose parts may be templates.     *)
(*                                                                         *)
(* A JSON field is a record [name, ty, width, digits, signed, endian,      *)
(* scale, format, occurs, justify, pad, sign, of]: a member that the       *)
(* object lacks is Absent, `ty` is one name for each kind, `pad` is the    *)
(* byte meant and `of` is what its "fields" holds.                         *)
(***************************************************************************)
EXTENDS Template

CONSTANT MaxDepth  \* MAX_NESTING_DEPTH

Absent == Once

Or(member, default) == IF member = Absent THEN default ELSE member

(* req_width, req_digits: each stands in for the other, a width as an u8.  *)
WidthOf(jf)  == Or(jf.width, jf.digits)
DigitsIn(jf) == IF jf.digits # Absent \/ jf.width = Absent THEN jf.digits ELSE jf.width % 256

IsSigned(jf) == Or(jf.signed, FALSE)
EndianOf(jf) == Or(jf.endian, "big")
SignOf(jf)   == Or(jf.sign, IF IsSigned(jf) THEN "embedded" ELSE "unsigned")

(* The place of a sign that stands for itself.  Slip: it has none. *)
SignPlaceNone(jf) == 0

SignPlace(jf) == IF SignOf(jf) \in {"leading", "trailing"} THEN 1 ELSE 0

(* A number of digits takes them and its sign, two digits a byte if packed.*)
Numeric(jf, digits) ==
    CASE jf.ty = "int"     -> [kind  |-> DisplayInt(IsSigned(jf), SignOf(jf)),
                               width |-> digits + SignPlace(jf)]
      [] jf.ty = "decimal" -> [kind  |-> Decimal("display", digits, Or(jf.scale, 0), SignOf(jf)),
                               width |-> digits + SignPlace(jf)]
      [] jf.ty = "comp3"   -> [kind  |-> Decimal("packed", digits, Or(jf.scale, 0), "embedded"),
                               width |-> digits \div 2 + 1]
      [] jf.ty = "zoned"   -> [kind  |-> Decimal("zoned", digits, Or(jf.scale, 0), "embedded"),
                               width |-> digits]

Temporal == {"date", "time", "timestamp"}

Plain(jf, width) ==
    LET of(kind) == [kind |-> kind, width |-> width]
    IN  CASE jf.ty = "str"    -> of(Chars(Or(jf.justify, "left"), Or(jf.pad, Space)))
          [] jf.ty = "binary" -> of(Binary(EndianOf(jf), IsSigned(jf)))
          [] jf.ty = "hex"    -> of(Hex(EndianOf(jf)))
          [] jf.ty = "pad"    -> of(Pad(Or(jf.pad, Space)))
          [] jf.ty \in Temporal -> of(DateTime(jf.ty, jf.format))

(* Those that say themselves how long they are. *)
Sized(jf) ==
    CASE jf.ty = "half"   -> [kind |-> Real(16, EndianOf(jf)), width |-> 2]
      [] jf.ty = "float"  -> [kind |-> Real(32, EndianOf(jf)), width |-> 4]
      [] jf.ty = "double" -> [kind |-> Real(64, EndianOf(jf)), width |-> 8]
      [] jf.ty = "bool"   -> [kind |-> Bool, width |-> 1]

FieldKind(jf) ==
    CASE jf.ty \in {"int", "decimal", "comp3", "zoned"} ->
            IF DigitsIn(jf) = Absent THEN Err ELSE Ok(Numeric(jf, DigitsIn(jf)))
      [] jf.ty \in {"str", "binary", "hex", "pad"} ->
            IF WidthOf(jf) = Absent THEN Err ELSE Ok(Plain(jf, WidthOf(jf)))
      [] jf.ty \in Temporal ->
            IF WidthOf(jf) = Absent \/ jf.format \in {Absent, <<>>} THEN Err ELSE Ok(Plain(jf, WidthOf(jf)))
      [] jf.ty \in {"half", "float", "double", "bool"} -> Ok(Sized(jf))
      [] OTHER -> Err

(* The fields of a group are named and placed before the group is: the     *)
(* count of names given out goes on through it, the offsets begin anew.    *)
RECURSIVE LayoutFields(_, _, _)
LayoutFields(raw, st, depth) ==
    IF depth > MaxDepth THEN Err
    ELSE IF raw = <<>> THEN Ok(st)
    ELSE LET jf    == Head(raw)
             name  == NameFor(jf, st)
             named == Named(jf, st)
             kind  == IF jf.of = Absent THEN FieldKind(jf)
                      ELSE Then(LayoutFields(jf.of, [Fresh EXCEPT !.auto = named.auto], depth + 1),
                                LAMBDA g : Ok([kind |-> Group(g.fields), width |-> g.offset, auto |-> g.auto]))
         IN  Then(kind,
                  LAMBDA k : LayoutFields(
                      Tail(raw),
                      Add([named EXCEPT !.auto = IF jf.of = Absent THEN @ ELSE k.auto],
                          name, k.width, k.kind, jf.occurs, NoField),
                      depth))

ParseJson(raw) == Then(LayoutFields(raw, Fresh, 0), LAMBDA st : Ok(st.fields))

-----------------------------------------------------------------------------
(* Several record types *)

(* parse_spec, of a text that has said which language it is in. *)
ParseSpec(text) == IF "json" \in DOMAIN text THEN ParseJson(text.json) ELSE ParseTemplate(text.template)

(* The number of the record type that others fall back to. *)
DefaultOf(records, default) == {i \in 1 .. Len(records) : records[i].tag = default}

ParseMulti(disc, records, default) ==
    LET layout(i) == ParseSpec(records[i].spec)
    IN  IF \/ disc.width = 0 \/ records = <<>>
           \/ \E i \in 1 .. Len(records) : ~IsOk(layout(i))
           \/ default # Absent /\ DefaultOf(records, default) = {}
        THEN Err
        ELSE Ok([offset   |-> disc.offset, width |-> disc.width,
                 variants |-> [i \in 1 .. Len(records) |-> [tag |-> records[i].tag, layout |-> layout(i).ok]],
                 default  |-> IF default = Absent THEN 0 ELSE Min(DefaultOf(records, default))])
=============================================================================
