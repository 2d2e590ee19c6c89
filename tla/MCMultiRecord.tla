---------------------------- MODULE MCMultiRecord ----------------------------
(* Instances of MultiRecord: rows at the limits of every numeric field,     *)
(* tables of every length, records of two types, and all short records over *)
(* a few bytes.                                                             *)
EXTENDS MultiRecord, JsonSpec

Leaf(name, offset, width, kind) ==
    [name |-> name, offset |-> offset, width |-> width, kind |-> kind,
     occurs |-> Once, controller |-> NoField]

Repeated(f, times) == [f EXCEPT !.occurs = times]
Table(f, most, controller) == [f EXCEPT !.occurs = most, !.controller = controller]

(* A specification of one record type, and one of several. *)
SingleIn(layout, enc) ==
    [offset |-> 0, width |-> 0, variants |-> <<[tag |-> <<>>, layout |-> layout]>>, default |-> 0,
     enc |-> enc]
Single(layout) == SingleIn(layout, "ascii")

Row(pairs) == [tag |-> <<>>, pairs |-> pairs]

Digits == DisplayInt(FALSE, "unsigned")
Word   == Chars("left", Space)

IntKinds ==
    {Digits, DisplayInt(TRUE, "embedded")}
    \cup {DisplayInt(TRUE, sign) : sign \in {"leading", "trailing"}}
    \cup {Binary(endian, signed) : endian \in {"big", "little"}, signed \in BOOLEAN}

DecimalKinds ==
    {Decimal(repr, 2, 1, sign) : repr \in {"packed", "zoned"}, sign \in {"unsigned", "embedded"}}
    \cup {Decimal("display", 2, 1, sign) : sign \in SignKinds}

(* Around the limits of one to three digits or bytes. *)
Numbers ==
    {-32769, -32768, -1000, -256, -129, -128, -100, -99, -13, -10, -1,
     0, 1, 9, 10, 99, 100, 127, 128, 255, 256, 999, 1000, 65535, 65536}

(* A field and a text after it. *)
Before(f, enc, v) ==
    [spec |-> SingleIn(<<f, Leaf("Z", f.width, 1, Word)>>, enc),
     row |-> Row(<<<<"A", v>>, <<"Z", TextVal(<<97>>)>>>>)]

Codes(w) == IF w = 2 THEN {"ascii", "ebcdic"} ELSE {"ascii"}

NumberRows ==
    UNION {{Before(Leaf("A", 0, w, kind), enc, IntVal(n)) : kind \in IntKinds, n \in Numbers, enc \in Codes(w)}
           \cup {Before(Leaf("A", 0, w, kind), enc, DecVal(n, 1)) :
                    kind \in DecimalKinds, n \in Numbers, enc \in Codes(w)} : w \in 1 .. 3}

Words == {<<>>, <<97>>, <<97, 98>>, <<97, 0>>, <<Space, 97>>, <<97, Space>>, <<Zero>>, <<97, 98, 99>>}

TextRows ==
    {[spec |-> SingleIn(<<Leaf("P", 0, 1, Pad(Space)), Leaf("A", 1, 2, kind), Leaf("B", 3, 1, Word)>>, enc),
      row |-> Row(<<<<"A", TextVal(s)>>, <<"B", v>>>>)] :
        kind \in {Word, Chars("right", Space), Chars("right", Zero)}, s \in Words,
        v \in {TextVal(<<98>>), Null}, enc \in {"ascii", "ebcdic"}}

Lists(item(_), most) == {ListVal([i \in 1 .. n |-> item(i)]) : n \in 0 .. most}
Letter(i) == TextVal(<<96 + i>>)

(* A table between its controller and a text. *)
TableLayout ==
    <<Leaf("N", 0, 1, Digits), Table(Leaf("T", 1, 1, Word), 2, "N"), Leaf("Z", 1, 2, Word)>>

TableRows ==
    {[spec |-> Single(TableLayout),
      row |-> Row(<<<<"N", IntVal(n)>>, <<"T", list>>, <<"Z", TextVal(s)>>>>)] :
        n \in 0 .. 3, list \in Lists(Letter, 3) \cup {Null}, s \in {<<>>, <<97>>, <<97, 98>>}}

(* Two groups with a table each, and a text. *)
GroupLayout ==
    <<Repeated(Leaf("G", 0, 1, Group(<<Leaf("N", 0, 1, Digits),
                                       Table(Leaf("T", 1, 1, Word), 2, "N")>>)), 2),
      Leaf("Z", 2, 1, Word)>>

Groups == {StructVal(<<<<"N", IntVal(n)>>, <<"T", list>>>>) : n \in 0 .. 2, list \in Lists(Letter, 2)}

GroupRows ==
    {[spec |-> Single(GroupLayout),
      row |-> Row(<<<<"G", ListVal(<<g, h>>)>>, <<"Z", TextVal(<<97>>)>>>>)] :
        g \in Groups, h \in Groups}

(* A group in a group, neither at the start. *)
NestedLayout ==
    <<Leaf("A", 0, 1, Word),
      Leaf("G", 1, 4, Group(<<Leaf("B", 0, 1, Binary("big", FALSE)),
                              Leaf("H", 1, 3, Group(<<Leaf("C", 0, 1, Word),
                                                      Repeated(Leaf("D", 1, 1, Digits), 2)>>))>>))>>

NestedRows ==
    {[spec |-> Single(NestedLayout),
      row |-> Row(<<<<"A", Letter(1)>>,
                    <<"G", StructVal(<<<<"B", IntVal(n)>>,
                                       <<"H", StructVal(<<<<"C", Letter(2)>>, <<"D", list>>>>)>>>>)>>>>)] :
        n \in {0, 7, 255}, list \in Lists(IntVal, 2)}

(* A table of groups, and a repeated number. *)
ItemsLayout ==
    <<Leaf("N", 0, 1, Binary("big", FALSE)),
      Table(Leaf("G", 1, 2, Group(<<Leaf("A", 0, 1, Word),
                                    Leaf("B", 1, 1, Binary("big", TRUE))>>)), 2, "N"),
      Repeated(Leaf("C", 1, 1, Digits), 2)>>

Item(i)   == StructVal(<<<<"A", Letter(i)>>, <<"B", IntVal(-i)>>>>)
Nth(i)    == IntVal(i)

ItemsRows ==
    {[spec |-> Single(ItemsLayout),
      row |-> Row(<<<<"N", IntVal(n)>>, <<"G", list>>, <<"C", c>>>>)] :
        n \in 0 .. 2, list \in Lists(Item, 3), c \in Lists(Nth, 3)}

(* A text read as a number as well. *)
UnionLayout == <<Leaf("X", 0, 2, Word), Leaf("Y", 0, 2, Digits)>>

UnionRows ==
    {[spec |-> Single(UnionLayout), row |-> Row(<<<<"X", TextVal(s)>>, <<"Y", IntVal(n)>>>>)] :
        s \in {<<Zero, Nine>>, <<97>>}, n \in {0, 9, 42}}

(* Floats at the limits of half precision, and of 32 bits. *)
SomeFloats ==
    {Float(class, neg, 0, 0) : class \in {"zero", "inf"}, neg \in BOOLEAN} \cup {Float("nan", FALSE, 0, 0)}
    \cup {Finite(neg, exp, frac) : neg \in BOOLEAN, exp \in {-126, -15, -14, 0, 15, 16, 127},
                                   frac \in {0, 1, 8191, 8192, 2 ^ 22}}

FloatRows ==
    {Before(Leaf("A", 0, bits \div 8, Real(bits, endian)), "ascii", FloatVal(f)) :
        bits \in {16, 32, 64}, endian \in {"big", "little"}, f \in SomeFloats}

(* Numbers that stand for floats.  Of doubles those are left out here that *)
(* are no singles.                                                         *)
ShortNumbers == {Null} \cup {IntVal(n) : n \in {-5, 0, 1, 31, 96}}
                \cup {DecVal(n, 1) : n \in {-15, 0, 5, 30}} \cup {DecVal(n, 2) : n \in {-25, 125, 1050}}
LongNumbers  == {DecVal(n, 1) : n \in {-1, 3, 7, 33}} \cup {DecVal(n, 2) : n \in {1, 99, -314}}

FloatNumberRows ==
    {Before(Leaf("A", 0, b \div 8, Real(b, endian)), "ascii", v) :
        b \in {16, 32, 64}, endian \in {"big", "little"}, v \in ShortNumbers}
    \cup {Before(Leaf("A", 0, b \div 8, Real(b, "big")), "ascii", v) : b \in {16, 32}, v \in LongNumbers}

(* Fields of more digits or bytes than an i64 has. *)
WideRows ==
    {Before(Leaf("A", 0, w, DisplayInt(TRUE, sign)), enc, IntVal(n)) :
        w \in {18, 19, 20, 25}, sign \in SignKinds, enc \in {"ascii", "ebcdic"}, n \in {-65536, -1, 0, 42, 1000}}
    \cup {Before(Leaf("A", 0, 8, Binary(endian, signed)), "ascii", IntVal(n)) :
            endian \in {"big", "little"}, signed \in BOOLEAN, n \in {-65536, -1, 0, 255, 65536}}

(* Pictures, and how many bytes each shows. *)
Pictures ==
    {<<<<"Z", "Z", "9">>, 3>>, <<<<"Z", "Z">>, 2>>, <<<<"Z", ",", "Z", "Z", "9">>, 5>>,
     <<<<"*", "*", ",", "*", ".", "9">>, 6>>, <<<<"$", "Z", ".", "9", "9">>, 5>>,
     <<<<"9", "9", "CR">>, 4>>, <<<<"Z", "Z", "DB">>, 4>>, <<<<"-", "Z", "9">>, 3>>,
     <<<<"+", "9", "9">>, 3>>, <<<<"Z", "9", "-">>, 3>>, <<<<"9", "B", "9">>, 3>>,
     <<<<"9", "/", "9">>, 3>>, <<<<"9", "0", "9">>, 3>>, <<<<"Z", "Z", "0">>, 3>>,
     <<<<"$", "$", "9">>, 3>>, <<<<".", "Z", "9">>, 3>>}

EditedKind(p, signed) == Edited(Occurs(p[1], DigitPlaces), 1, signed, p[1])

EditedRows ==
    {Before(Leaf("A", 0, p[2], EditedKind(p, signed)), enc, DecVal(n, 1)) :
        p \in Pictures, signed \in BOOLEAN, enc \in {"ascii", "ebcdic"},
        n \in {-1000, -999, -90, -7, 0, 3, 10, 20, 99, 100, 305, 999, 1234}}

(* Dates and times, and formats with what a record needs for them. *)
Byte(b) == [byte |-> b]
Of(p)   == [of |-> p]
Colon   == Byte(58)

Formats ==
    {<<<<Of("Y"), Of("m"), Of("d")>>, 8>>, <<<<Of("Y"), Byte(Minus), Of("m"), Byte(Minus), Of("d")>>, 10>>,
     <<<<Of("d"), Byte(Space), Of("m"), Byte(Space), Of("y")>>, 8>>, <<<<Of("m"), Of("d")>>, 4>>,
     <<<<Of("H"), Colon, Of("M"), Colon, Of("S")>>, 8>>, <<<<Of("H"), Of("M")>>, 4>>,
     <<<<Of("H"), Of("S")>>, 4>>, <<<<Of("Y"), Of("m"), Of("d"), Of("H"), Of("M"), Of("S")>>, 14>>,
     <<<<Of("y"), Of("m"), Of("d"), Byte(Space), Of("H"), Of("M")>>, 11>>,
     <<<<Byte(Space), Of("H"), Of("M"), Of("S")>>, 7>>}

Day(y, mo, d) == [year |-> y, month |-> mo, day |-> d]
Days  == {Day(2024, 2, 29), Day(1999, 12, 31), Day(1968, 1, 1), Day(2068, 1, 2), Day(2001, 10, 5)}
Clocks == {0, 45296, 86340, 86399, 86400}

Moments == {DateVal(d) : d \in Days} \cup {TimeVal(t) : t \in Clocks} \cup {StampVal(d, t) : d \in {Day(1999, 12, 31), Day(2024, 2, 28)}, t \in Clocks}
           \cup {Null}

MomentRows ==
    {Before(Leaf("A", 0, f[2] + w[1], DateTime(is, f[1])), w[2], v) :
        f \in Formats, w \in {<<-1, "ascii">>, <<0, "ascii">>, <<0, "ebcdic">>, <<1, "ascii">>},
        is \in {"date", "time", "timestamp"}, v \in Moments}

HexWords == {<<>>, <<97>>, <<49, 70>>, <<97, Zero, 50, 102>>, <<97, Space, 98>>, <<103, 103>>,
             <<49, 50, 51, 52, 53, 54>>}

OtherRows ==
    {Before(Leaf("A", 0, 2, Hex(order)), "ascii", v) :
        order \in {"big", "little"}, v \in {TextVal(s) : s \in HexWords} \cup {Null, IntVal(12)}}
    \cup {Before(Leaf("A", 0, 1, Bool), enc, v) :
            enc \in {"ascii", "ebcdic"}, v \in {BoolVal(TRUE), BoolVal(FALSE), Null, IntVal(1), IntVal(2)}}

(* The widest decimal that a column can have, and a wider one. *)
PrecisionRows ==
    {Before(Leaf("A", 0, 20, Decimal(repr, p, 0, "embedded")), "ascii", DecVal(n, 0)) :
        repr \in {"packed", "zoned"}, p \in {38, 39}, n \in {-123456789, 0, 42}}

(* Every kind of value in every kind of field. *)
AnyKinds ==
    {<<4, kind>> : kind \in {Word, Digits, DisplayInt(TRUE, "leading"), Binary("big", TRUE), Hex("big"),
                             Decimal("packed", 7, 1, "embedded"), Decimal("display", 4, 0, "trailing"),
                             Edited(3, 1, TRUE, <<"Z", "9", ".", "9">>),
                             DateTime("date", <<Of("m"), Of("d")>>)}}
    \cup {<<1, Bool>>, <<4, Real(32, "big")>>, <<2, Real(16, "little")>>}

AnyValues ==
    {Null, TextVal(<<>>), TextVal(<<49, 50>>), TextVal(<<Space, Minus, 52>>), TextVal(<<97>>),
     BoolVal(TRUE), FloatVal(Finite(FALSE, 0, 2 ^ 22)), FloatVal(Finite(TRUE, 4, 2 ^ 21)),
     FloatVal(Finite(FALSE, -4, 0)), DateVal(Day(2024, 2, 29)), TimeVal(0), ListVal(<<>>),
     StructVal(<<>>)}
    \cup {IntVal(n) : n \in {-4, 0, 1, 3, 123}}
    \cup {DecVal(n, s) : n \in {-40, 0, 15, 70, 1250}, s \in 0 .. 2}

AnyRows == {Before(Leaf("A", 0, k[1], k[2]), "ascii", v) : k \in AnyKinds, v \in AnyValues}

-----------------------------------------------------------------------------
(* Templates, and rows for the layouts they become. *)

Code(name, code, count) ==
    [t |-> "code", name |-> name, code |-> code, count |-> count, order |-> Inherit]
InOrder(tk, order) == [tk EXCEPT !.order = order]
Order(order) == [t |-> "order", order |-> order]
Parens(name, of, count) == [t |-> "group", name |-> name, of |-> of, count |-> count]
Counted(name, code, of) ==
    [t |-> "counted", name |-> name, code |-> code, count |-> Once, order |-> Inherit,
     of |-> of, times |-> Once]

TemplateSpec(tokens) ==
    [offset |-> 0, width |-> 0, default |-> 0, enc |-> "ascii", template |-> tokens,
     variants |-> <<[tag |-> <<>>, layout |-> ParseTemplate(tokens).ok]>>]

(* A value for a code, its digits or its name. *)
Sample(code, n) ==
    CASE code \in IntegerCodes -> IntVal(n)
      [] code \in {"e", "f", "d"} -> FloatVal(Finite(n < 0, 1, 2 ^ 22))
      [] code = "?" -> BoolVal(n = 3)
      [] code \in {"H", "h"} -> TextVal(<<49, 102>>)

(* Every code of a number, in every order, after a text.  A negative number *)
(* in four bytes without a sign is beyond what can be computed here.        *)
CodeRows ==
    {r \in {[spec |-> TemplateSpec(<<Code("a", text, 2), Order(o), InOrder(Code("b", code, count), p), Code("x", "x", 1),
                              Code("c", "9", 2)>>),
      row |-> Row(<<<<"a", TextVal(<<97>>)>>,
                    <<"b", IF count = Once \/ code \in {"H", "h"} THEN Sample(code, n)
                           ELSE ListVal(<<Sample(code, n), Sample(code, 3)>>)>>,
                    <<"c", IntVal(42)>>>>)] :
        text \in {"A", "a", "Z", "X"}, o \in {"big", "little"}, p \in {Inherit, "big", "little"},
        code \in IntegerCodes \cup {"e", "f", "d", "?", "H", "h"}, count \in {Once, 2}, n \in {-2, 3, 300}} :
        r.spec.template[3].code \in {"I", "L", "N", "V", "Q"} => r.row.pairs[2][2] \in
            {IntVal(3), IntVal(300)} \cup {ListVal(<<IntVal(n), IntVal(3)>>) : n \in {3, 300}}}

(* Names given out, a repeated group, and an order for what follows it. *)
NamelessTemplate ==
    <<Code(Unnamed, "S9", 2), Parens(Unnamed, <<Code(Unnamed, "n", Once), Code("b", "x", 2), Code(Unnamed, "A", Once)>>, 2),
      Order("little"), Code(Unnamed, "s", Once), Code("z", "v", Once)>>

NamelessRows ==
    {[spec |-> TemplateSpec(NamelessTemplate),
      row |-> Row(<<<<"field_1", DecVal(n, 0)>>,
                    <<"field_2", ListVal([i \in 1 .. 2 |->
                        StructVal(<<<<"field_1", IntVal(256 + i)>>, <<"field_2", Letter(i)>>>>)])>>,
                    <<"field_3", IntVal(n)>>, <<"z", IntVal(258)>>>>)] : n \in {-12, 0, 1}}

(* Groups with a count before them, one in the other. *)
CountedTemplate(code) ==
    <<Counted("o", code, <<Code("k", "A", Once), Counted(Unnamed, "n", <<Code("v", "s", Once)>>)>>),
      Code("z", "A", 2)>>

Inner(k) == ListVal([i \in 1 .. k |-> StructVal(<<<<"v", IntVal(-i)>>>>)])
Outer(k) == StructVal(<<<<"k", Letter(k + 1)>>, <<"field_1_count", IntVal(k)>>, <<"field_1", Inner(k)>>>>)

CountedRows ==
    {[spec |-> TemplateSpec(CountedTemplate(code)),
      row |-> Row(<<<<"o_count", IntVal(Len(ks))>>, <<"o", ListVal([i \in 1 .. Len(ks) |-> Outer(ks[i])])>>,
                    <<"z", TextVal(<<97>>)>>>>)] :
        code \in {"C", "v", "9"}, ks \in {<<>>, <<0>>, <<2>>, <<1, 0>>, <<0, 2>>}}

(* An order before a group, and one in it, which ends with it.  A group     *)
(* that says nothing of its order is big-endian whatever is outside, so a   *)
(* little-endian one always says so here.                                   *)
OrderRows ==
    {[spec |-> TemplateSpec(<<Order(o), Code("a", "s", Once), Parens("g", inner \o <<Code("b", "s", Once)>>, Once),
                              Code("c", "s", Once)>>),
      row |-> Row(<<<<"a", IntVal(n)>>, <<"g", StructVal(<<<<"b", IntVal(n)>>>>)>>, <<"c", IntVal(n)>>>>)] :
        o \in {"big", "little"}, inner \in {<<Order("big")>>, <<Order("little")>>}, n \in {1, 257, -2}}
    \cup
    {[spec |-> TemplateSpec(<<Order("big"), Parens("g", <<Code("b", "s", Once)>>, Once), Code("c", "s", Once)>>),
      row |-> Row(<<<<"g", StructVal(<<<<"b", IntVal(n)>>>>)>>, <<"c", IntVal(n)>>>>)] : n \in {1, 257, -2}}

TemplateRows == CodeRows \cup NamelessRows \cup CountedRows \cup OrderRows

(* The same in JSON. *)
Blank ==
    [m \in {"name", "ty", "width", "digits", "signed", "endian", "scale", "format", "occurs", "justify", "pad",
             "sign", "of"} |->
        IF m = "name" THEN Unnamed ELSE Absent]
Json(ty, members) == members @@ [ty |-> ty] @@ Blank

JsonTemplate(order) ==
    <<Code("a", "A", 2),
      Parens("g", <<InOrder(Code("b", "s", Once), order), Code("p", "x", 2), Code("c", "9", 1)>>, 2),
      InOrder(Code("d", "S", 2), order), Code("z", "a", 2)>>

JsonTwin(order) ==
    <<Json("str", [name |-> "a", width |-> 2]),
      Json(Absent, [occurs |-> 2, of |-> <<Json("binary", [width |-> 2, signed |-> TRUE, endian |-> order]),
                                           Json("pad", [digits |-> 2, pad |-> 0]), Json("int", [width |-> 1])>>]),
      Json("binary", [digits |-> 2, occurs |-> 2, endian |-> order]),
      Json("str", [name |-> "z", width |-> 2, pad |-> 0])>>

(* Names are given out to the group, the fields in it and what follows. *)
JsonRows ==
    {[spec |-> [TemplateSpec(JsonTemplate(order)) EXCEPT !.variants[1].layout = ParseJson(JsonTwin(order)).ok],
      row |-> Row(<<<<"a", TextVal(s)>>,
                    <<"field_1", ListVal([i \in 1 .. 2 |->
                        StructVal(<<<<"field_2", IntVal(n + i)>>, <<"field_4", IntVal(i)>>>>)])>>,
                    <<"field_5", ListVal(<<IntVal(m), IntVal(258)>>)>>, <<"z", TextVal(s)>>>>)] :
        order \in {"big", "little"}, s \in {<<97>>, <<97, 98>>}, n \in {-2, 255}, m \in {1, 65535}}

(* One number of so many digits, and a text. *)
DigitsSpec(jf) ==
    [offset |-> 0, width |-> 0, default |-> 0, enc |-> "ascii", digits |-> jf,
     variants |-> <<[tag |-> <<>>,
                     layout |-> ParseJson(<<jf, Json("str", [name |-> "z", width |-> 1])>>).ok]>>]

DigitsRows ==
    {[spec |-> DigitsSpec(Json(ty, [name |-> "a", signed |-> signed, sign |-> sign, digits |-> d])),
      row |-> Row(<<<<"a", IF ty = "int" THEN IntVal(n) ELSE DecVal(n, 0)>>, <<"z", TextVal(<<97>>)>>>>)] :
        ty \in {"int", "decimal", "comp3", "zoned"}, d \in 1 .. 3, signed \in {Absent, TRUE},
        sign \in {Absent, "leading", "trailing", "embedded"},
        n \in {-100, -99, -10, -9, -1, 0, 9, 10, 99, 100, 999, 1000}}

(* Headers and details; a tag longer than the discriminator.  One type has *)
(* a template, the others are in JSON.                                     *)
H    == <<72>>
D    == <<68>>
Long == <<72, 68, 72>>

TypesSpec(default, enc) ==
    [enc |-> enc] @@
    ParseMulti([offset |-> 0, width |-> 2],
               <<[tag |-> H, spec |-> [template |-> <<Code("P", "x", 2), Code("A", "9", 1)>>]],
                 [tag |-> D, spec |-> [json |-> <<Json("int", [name |-> "A", digits |-> 1])>>]],
                 [tag |-> Long, spec |-> [json |-> <<Json("str", [name |-> "A", width |-> 2])>>]]>>,
               default).ok

TypesRows ==
    {[spec |-> TypesSpec(default, enc), row |-> [tag |-> tag, pairs |-> <<<<"A", v>>>>]] :
        default \in {Absent, Long}, enc \in {"ascii", "ebcdic"}, tag \in {H, D, Long, <<>>},
        v \in {IntVal(0), IntVal(7), IntVal(10), TextVal(<<97>>)}}

(* What the codes of a template make of values, one after another, as the   *)
(* README describes them: a sign of order holds for everything after it.    *)
TwosComplement(n, width, order) ==
    LET place(i) == IF order = "little" THEN i - 1 ELSE width - i
    IN  [i \in 1 .. width |-> IF place(i) < 3 THEN (n \div 256 ^ place(i)) % 256
                              ELSE IF n < 0 THEN 255 ELSE 0]

Filled(s, width, byte) == [i \in 1 .. width |-> IF i =< Len(s) THEN s[i] ELSE byte]

(* 3, or -3: 1.5 * 2 with the exponent biased by 15, 127 and 1023. *)
Three(negative, size) ==
    Filled(<<(CASE size = 2 -> 66 [] OTHER -> 64) + IF negative THEN 128 ELSE 0,
             CASE size = 2 -> 0 [] size = 4 -> 64 [] size = 8 -> 8>>, size, 0)

Decimals(n, width) == [i \in 1 .. width |-> Zero + ((n \div 10 ^ (width - i)) % 10)]

InForce(tk, order) == IF tk.order = Inherit THEN order ELSE tk.order

OneOf(tk, order, v) ==
    CASE tk.code \in IntegerCodes ->
            TwosComplement(v.int, Size(tk.code),
                           CASE tk.code \in {"n", "N"} -> "big" [] tk.code \in {"v", "V"} -> "little"
                             [] OTHER -> InForce(tk, order))
      [] tk.code \in {"e", "f", "d"} ->
            IF InForce(tk, order) = "big" THEN Three(v.float.neg, Size(tk.code))
            ELSE Reverse(Three(v.float.neg, Size(tk.code)))
      [] tk.code = "?" -> <<IF v.bool THEN 1 ELSE 0>>
      [] tk.code = "H" -> Filled(<<31>>, IF tk.count = Once THEN 1 ELSE tk.count, 0)
      [] tk.code = "h" -> Filled(<<241>>, IF tk.count = Once THEN 1 ELSE tk.count, 0)
      [] tk.code \in {"A", "X"} -> Filled(v.text, IF tk.count = Once THEN 1 ELSE tk.count, Space)
      [] tk.code \in {"a", "Z"} -> Filled(v.text, IF tk.count = Once THEN 1 ELSE tk.count, 0)
      [] tk.code = "9" -> Decimals(v.int, IF tk.count = Once THEN 1 ELSE tk.count)
      [] tk.code = "S9" -> EncodeZoned(v.dec, tk.count, TRUE).ok

Each(v) == IF Is(v, "list") THEN v.list ELSE <<v>>

RECURSIVE Written(_, _, _)
Written(tokens, order, pairs) ==
    IF tokens = <<>> THEN <<>>
    ELSE LET tk == Head(tokens)
             codes(v) == FlattenSeq([i \in 1 .. Len(Each(v)) |-> OneOf(tk, order, Each(v)[i])])
             groups(v) == FlattenSeq([i \in 1 .. Len(Each(v)) |-> Written(tk.of, order, Each(v)[i].struct)])
             from(n) == Written(Tail(tokens), order, SubSeq(pairs, n, Len(pairs)))
         IN  CASE tk.t = "order" -> Written(Tail(tokens), tk.order, pairs)
               [] tk.t = "code" /\ tk.code = "x" -> Filled(<<>>, tk.count, 0) \o from(1)
               [] tk.t = "code" /\ tk.code # "x" -> codes(pairs[1][2]) \o from(2)
               [] tk.t = "group" -> groups(pairs[1][2]) \o from(2)
               [] tk.t = "counted" -> codes(pairs[1][2]) \o groups(pairs[2][2]) \o from(3)

(* A row packed by a template becomes the bytes of its values in the order  *)
(* of the codes, with no place left between them, tables and groups         *)
(* included: the offsets that the parser gives out and the shifts of the    *)
(* encoder agree (parse_tokens, encode_seq).                                *)
PackedByCode ==
    "template" \in DOMAIN spec /\ phase = "record" /\ Len(rows) = 1
        /\ HeldFields(LayoutOf(spec, <<>>), rows[1].pairs, <<>>)
        => recs[1] = Written(spec.template, "big", rows[1].pairs)

(* A field declared with so many digits holds all numbers of that length,  *)
(* negative ones where it has a place for the sign or an overpunched digit, *)
(* and refuses longer ones, but for the spare digit of a packed field: the *)
(* width given to a field (field_kind) and the digits that the encoder and *)
(* the decoder make of the width agree.                                    *)
DigitsHold ==
    "digits" \in DOMAIN spec =>
        LET v == rows[1].pairs[1][2]
            n == IF Is(v, "int") THEN v.int ELSE v.dec
            jf == spec.digits
            short == Magnitude(n) < 10 ^ jf.digits
            sign == n >= 0 \/ jf.ty \in {"comp3", "zoned"} \/ jf.sign \in {"leading", "trailing"}
        IN  /\ short /\ sign => phase # "refused" /\ \A i \in 1 .. Len(rows) : rows[i] = rows[1]
            /\ ~short /\ jf.ty # "comp3" => recs = <<>>

-----------------------------------------------------------------------------
MCRows == NumberRows \cup TextRows \cup TableRows \cup GroupRows \cup NestedRows \cup ItemsRows \cup
          UnionRows \cup TemplateRows \cup FloatRows \cup FloatNumberRows \cup WideRows \cup EditedRows \cup MomentRows \cup OtherRows \cup PrecisionRows \cup AnyRows \cup JsonRows \cup DigitsRows \cup
          {r \in TypesRows : Is(r.row.pairs[1][2], "text") <=> r.row.tag = Long}

(* Digits, signs, an overpunched digit, a letter, a space and control bytes. *)
SomeBytes == {0, 1, 12, 29, 32, 43, 45, 48, 50, 57, 72, 125, 255}

Sequences(lengths) == UNION {[1 .. n -> SomeBytes] : n \in lengths}

(* Some of them a day or a time, a leap second among them, and some not. *)
Two(n) == Decimals(n, 2)
MomentBytes ==
    {Two(20) \o Two(24) \o Two(m) \o Two(d) : m \in {0, 2, 4, 13}, d \in {0, 29, 30, 31}}
    \cup {Two(h) \o <<58>> \o Two(m) \o <<58>> \o Two(x) :
             h \in {0, 23, 24}, m \in {0, 59, 60}, x \in {0, 59, 60, 61}}
    \cup {Two(d) \o <<Space>> \o Two(m) \o <<Space>> \o Two(y) :
             d \in {1, 29}, m \in {2, 12}, y \in {0, 68, 70, 99}}
    \cup {<<Space, 49, Space, Space, 50, Space, 50, 52>>, <<49, Space, 50, Space, 51, Space, Space, Space>>,
          <<49, 58, 50, 58, 51, Space, Space, Space>>, [i \in 1 .. 8 |-> Space]}

MCRecords ==
    {[spec |-> Single(<<Leaf("A", 0, 2, kind)>>), bytes |-> b] :
        kind \in IntKinds \cup DecimalKinds \cup {Word, Chars("right", Zero)}, b \in Sequences(1 .. 2)}
    \cup
    {[spec |-> Single(layout), bytes |-> b] :
        layout \in {TableLayout, GroupLayout, ItemsLayout, UnionLayout},
        b \in UNION {[1 .. n -> {1, 2, 32, 48, 49, 51}] : n \in 0 .. 4}}
    \cup
    {[spec |-> TypesSpec(default, enc), bytes |-> FromAscii(b, enc)] :
        default \in {Absent, Long}, enc \in {"ascii", "ebcdic"},
        b \in UNION {[1 .. n -> {32, 48, 68, 72}] : n \in 0 .. 4}}
    \cup
    {[spec |-> Single(<<Leaf("A", 0, 2, kind)>>), bytes |-> b] :
        kind \in {Real(16, "big"), Real(16, "little"), Hex("big"), Hex("little")},
        b \in [1 .. 2 -> {0, 1, 60, 124, 125, 128, 131, 252, 255}]}
    \cup
    {[spec |-> Single(<<Leaf("A", 0, 3, EditedKind(p, TRUE))>>), bytes |-> b] :
        p \in {<<<<"Z", "Z", "9">>, 3>>, <<<<"9", "CR">>, 3>>},
        b \in [1 .. 3 -> {32, 45, 46, 48, 53, 67, 82, 98, 100}]}
    \cup
    {[spec |-> SingleIn(<<Leaf("A", 0, f[2], DateTime(is, f[1]))>>, enc), bytes |-> FromAscii(b, enc)] :
        is \in {"date", "time", "timestamp"}, f \in {g \in Formats : g[2] = 8}, enc \in {"ascii", "ebcdic"},
        b \in MomentBytes}
    \cup
    {[spec |-> Single(<<Leaf("A", 0, w, DisplayInt(TRUE, "embedded"))>>), bytes |-> [i \in 1 .. w |-> b]] :
        w \in 19 .. 20, b \in {Zero, Nine}}
    \cup
    {[spec |-> Single(<<Leaf("A", 0, 8, Binary("big", signed))>>), bytes |-> [i \in 1 .. 8 |-> 255]] :
        signed \in BOOLEAN}

(* What a JSON specification makes of an integer that is signed. *)
SignedRecords ==
    {[spec |-> Single(<<Leaf("A", 0, 2, DisplayInt(TRUE, "embedded"))>>), bytes |-> b] :
        b \in {<<x, y>> : x \in {Minus, Zero}, y \in Zero .. Nine}}

NoRows    == {}
NoRecords == {}
=============================================================================
