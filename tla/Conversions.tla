---------------------------- MODULE Conversions ----------------------------
(***************************************************************************)
(* The values of fields that are more than a number or a text, and how     *)
(* they become bytes and are read back: EBCDIC (ebcdic.rs in               *)
(* fixedformat-core), hexadecimal digits and floats (encode.rs, decode.rs),*)
(* pictures with editing characters (edited.rs) and dates (datetime.rs).   *)
(* Also what becomes of a value of one kind in a field of another.         *)
(***************************************************************************)
EXTENDS Numerals, TLC

CONSTANT Once   \* the number of occurrences of a field without OCCURS

Null         == [null |-> TRUE]
IntVal(n)    == [int |-> n]
DecVal(n, s) == [dec |-> n, scale |-> s]     \* n / 10^s
TextVal(s)   == [text |-> s]
BoolVal(b)   == [bool |-> b]
FloatVal(f)  == [float |-> f]
DateVal(d)   == [date |-> d]                 \* [year, month, day]
TimeVal(t)   == [time |-> t]                 \* seconds since midnight
ListVal(s)   == [list |-> s]
StructVal(s) == [struct |-> s]               \* a sequence of <<name, value>>
Is(v, tag)   == tag \in DOMAIN v

-----------------------------------------------------------------------------
(* EBCDIC, code page 037 *)

EbcdicToAscii ==
    << 0, 1, 2, 3, 156, 9, 134, 127, 151, 141, 142, 11, 12, 13, 14, 15,
      16, 17, 18, 19, 157, 133, 8, 135, 24, 25, 146, 143, 28, 29, 30, 31,
      128, 129, 130, 131, 132, 10, 23, 27, 136, 137, 138, 139, 140, 5, 6, 7,
      144, 145, 22, 147, 148, 149, 150, 4, 152, 153, 154, 155, 20, 21, 158, 26,
      32, 160, 226, 228, 224, 225, 227, 229, 231, 241, 162, 46, 60, 40, 43, 124,
      38, 233, 234, 235, 232, 237, 238, 239, 236, 223, 33, 36, 42, 41, 59, 172,
      45, 47, 194, 196, 192, 193, 195, 197, 199, 209, 166, 44, 37, 95, 62, 63,
      248, 201, 202, 203, 200, 205, 206, 207, 204, 96, 58, 35, 64, 39, 61, 34,
      216, 97, 98, 99, 100, 101, 102, 103, 104, 105, 171, 187, 240, 253, 254, 177,
      176, 106, 107, 108, 109, 110, 111, 112, 113, 114, 170, 186, 230, 184, 198, 164,
      181, 126, 115, 116, 117, 118, 119, 120, 121, 122, 161, 191, 208, 221, 222, 174,
      94, 163, 165, 183, 169, 167, 182, 188, 189, 190, 91, 93, 175, 168, 180, 215,
      123, 65, 66, 67, 68, 69, 70, 71, 72, 73, 173, 244, 246, 242, 243, 245,
      125, 74, 75, 76, 77, 78, 79, 80, 81, 82, 185, 251, 252, 249, 250, 255,
      92, 247, 83, 84, 85, 86, 87, 88, 89, 90, 178, 212, 214, 210, 211, 213,
      48, 49, 50, 51, 52, 53, 54, 55, 56, 57, 179, 219, 220, 217, 218, 159 >>

AsciiToEbcdic ==
    << 0, 1, 2, 3, 55, 45, 46, 47, 22, 5, 37, 11, 12, 13, 14, 15,
      16, 17, 18, 19, 60, 61, 50, 38, 24, 25, 63, 39, 28, 29, 30, 31,
      64, 90, 127, 123, 91, 108, 80, 125, 77, 93, 92, 78, 107, 96, 75, 97,
      240, 241, 242, 243, 244, 245, 246, 247, 248, 249, 122, 94, 76, 126, 110, 111,
      124, 193, 194, 195, 196, 197, 198, 199, 200, 201, 209, 210, 211, 212, 213, 214,
      215, 216, 217, 226, 227, 228, 229, 230, 231, 232, 233, 186, 224, 187, 176, 109,
      121, 129, 130, 131, 132, 133, 134, 135, 136, 137, 145, 146, 147, 148, 149, 150,
      151, 152, 153, 162, 163, 164, 165, 166, 167, 168, 169, 192, 79, 208, 161, 7,
      32, 33, 34, 35, 36, 21, 6, 23, 40, 41, 42, 43, 44, 9, 10, 27,
      48, 49, 26, 51, 52, 53, 54, 8, 56, 57, 58, 59, 4, 20, 62, 255,
      65, 170, 74, 177, 159, 178, 106, 181, 189, 180, 154, 138, 95, 202, 175, 188,
      144, 143, 234, 250, 190, 160, 182, 179, 157, 218, 155, 139, 183, 184, 185, 171,
      100, 101, 98, 102, 99, 103, 158, 104, 116, 113, 114, 115, 120, 117, 118, 119,
      172, 105, 237, 238, 235, 239, 236, 191, 128, 253, 254, 251, 252, 173, 174, 89,
      68, 69, 66, 70, 67, 71, 156, 72, 84, 81, 82, 83, 88, 85, 86, 87,
      140, 73, 205, 206, 203, 207, 204, 225, 112, 221, 222, 219, 220, 141, 142, 223 >>

(* Bytes of a record as ASCII, and of ASCII as the record has them.        *)
ToAscii(s, enc)   == IF enc = "ascii" THEN s ELSE [i \in 1 .. Len(s) |-> EbcdicToAscii[s[i] + 1]]
FromAscii(s, enc) == IF enc = "ascii" THEN s ELSE [i \in 1 .. Len(s) |-> AsciiToEbcdic[s[i] + 1]]

-----------------------------------------------------------------------------
(* Hexadecimal digits *)

HexDigits == <<48, 49, 50, 51, 52, 53, 54, 55, 56, 57, 97, 98, 99, 100, 101, 102>>

Nibble(b) ==
    CASE b \in 48 .. 57  -> Ok(b - 48)
      [] b \in 97 .. 102 -> Ok(b - 87)
      [] b \in 65 .. 70  -> Ok(b - 55)
      [] OTHER -> Err

(* The two digits of a byte; a low nibble first is little-endian. *)
ToHex(s, order) ==
    [i \in 1 .. 2 * Len(s) |->
        LET b == s[(i + 1) \div 2]
        IN  HexDigits[1 + IF (i % 2 = 1) = (order = "big") THEN b \div 16 ELSE b % 16]]

(* White space is left out, and zero bytes fill the field. *)
EncodeHex(s, width, order) ==
    LET ink     == SelectSeq(s, LAMBDA b : b \notin (9 .. 13) \cup {Space})
        digit(i) == Nibble(ink[i]).ok
        byte(i) == IF order = "big" THEN 16 * digit(2 * i - 1) + digit(2 * i)
                   ELSE 16 * digit(2 * i) + digit(2 * i - 1)
    IN  IF Len(ink) % 2 = 1 \/ (\E i \in 1 .. Len(ink) : ~IsOk(Nibble(ink[i]))) \/ Len(ink) > 2 * width
        THEN Err
        ELSE Ok([i \in 1 .. width |-> IF 2 * i =< Len(ink) THEN byte(i) ELSE 0])

-----------------------------------------------------------------------------
(* Floats.  A finite one that is not zero is (1 + frac / 2^23) * 2^exp: all *)
(* that 32 bits hold, the subnormal ones left out.                          *)

Float(class, neg, exp, frac) == [class |-> class, neg |-> neg, exp |-> exp, frac |-> frac]
Finite(neg, exp, frac) == Float("finite", neg, exp, frac)

TopBit(n) == Max({i \in 0 .. 30 : 2 ^ i =< n})

(* Slip of FloatOf: what is left of the division is cut off. *)
FloatOfCut(n, den) ==
    LET p == TopBit(Magnitude(n) \div den)
    IN  IF Magnitude(n) < den THEN Float("zero", FALSE, 0, 0)
        ELSE Finite(n < 0, p, (Magnitude(n) \div den - 2 ^ p) * 2 ^ (23 - p))

(* The float nearest to n / den, of two as near the even one: what a double *)
(* that is the quotient of integers below 2^30 becomes in 32 bits.          *)
FloatOf(n, den) ==
    LET m    == Magnitude(n)
        exp  == IF m >= den THEN TopBit(m \div den) ELSE -Min({k \in 1 .. 30 : 2 ^ k >= (den + m - 1) \div m})
        num  == m * 2 ^ Max({0, -exp})
        unit == den * 2 ^ Max({0, exp})
        digit(st, i) == LET bit == IF 2 * st.left >= unit THEN 1 ELSE 0
                        IN  [frac |-> 2 * st.frac + bit, left |-> 2 * st.left - bit * unit]
        st   == FoldLeft(digit, [frac |-> 0, left |-> num - unit], [i \in 1 .. 23 |-> i])
        up   == 2 * st.left > unit \/ (2 * st.left = unit /\ st.frac % 2 = 1)
        frac == st.frac + IF up THEN 1 ELSE 0
    IN  IF n = 0 THEN Float("zero", FALSE, 0, 0)
        ELSE IF frac = 2 ^ 23 THEN Finite(n < 0, exp + 1, 0)
        ELSE Finite(n < 0, exp, frac)

FloatOfInt(n) == FloatOf(n, 1)

BitsOf(n, w) == [i \in 1 .. w |-> (n \div 2 ^ (w - i)) % 2]
OfBits(b)    == FoldLeft(LAMBDA acc, x : 2 * acc + x, 0, b)

ExpBits(bits) == CASE bits = 16 -> 5 [] bits = 32 -> 8 [] bits = 64 -> 11
Bias(bits)    == 2 ^ (ExpBits(bits) - 1) - 1
TopExp(bits)  == 2 ^ ExpBits(bits) - 1

(* The sign, the biased exponent and the fraction, as far as there is room. *)
Pack754(bits, neg, exp, frac) ==
    LET room == bits - 1 - ExpBits(bits)
        all  == BitsOf(frac, 23) \o [i \in 1 .. 29 |-> 0]
        b    == <<IF neg THEN 1 ELSE 0>> \o BitsOf(exp, ExpBits(bits)) \o SubSeq(all, 1, room)
    IN  [i \in 1 .. bits \div 8 |-> OfBits(SubSeq(b, 8 * i - 7, 8 * i))]

(* Slip of EncodeFloat: a number too small for half precision keeps what is *)
(* left of its fraction, and one too large all of it.                       *)
EncodeFloatUnchecked(f, bits, endian) ==
    Ok(InOrderOf(Pack754(bits, f.neg, IF f.class = "zero" THEN 0 ELSE (f.exp + Bias(bits)) % 2 ^ ExpBits(bits),
                         f.frac), endian))

(* Half precision: numbers too small for it become zero, those too large,  *)
(* and what is no number, infinite.                                        *)
EncodeFloat(f, bits, endian) ==
    LET biased == CASE f.class = "zero" -> 0
                    [] f.class = "finite" -> f.exp + Bias(bits)
                    [] OTHER -> TopExp(bits)
        exp  == Max({0, Min({TopExp(bits), biased})})
        keep == exp = biased /\ exp # 0 /\ (f.class = "nan" => bits # 16)
    IN  Ok(InOrderOf(Pack754(bits, f.neg, exp, IF f.class = "nan" /\ keep THEN 2 ^ 22
                                               ELSE IF keep /\ exp # TopExp(bits) THEN f.frac ELSE 0),
                     endian))

(* An exponent of zero is a zero or a small number without the leading one. *)
DecodeFloat(bytes, bits, endian) ==
    LET big  == InOrderOf(bytes, endian)
        b    == FlattenSeq([i \in 1 .. Len(big) |-> BitsOf(big[i], 8)])
        neg  == b[1] = 1
        exp  == OfBits(SubSeq(b, 2, 1 + ExpBits(bits)))
        room == bits - 1 - ExpBits(bits)
        frac == OfBits(SubSeq(b \o [i \in 1 .. 23 |-> 0], 2 + ExpBits(bits), 24 + ExpBits(bits)))
        p    == TopBit(frac)
    IN  IF Len(bytes) # bits \div 8 THEN Err
        ELSE Ok(CASE exp = TopExp(bits) -> Float(IF frac = 0 THEN "inf" ELSE "nan", neg, 0, 0)
                  [] exp = 0 /\ frac = 0 -> Float("zero", neg, 0, 0)
                  [] exp = 0 /\ frac # 0 ->
                        Finite(neg, p - 22 - Bias(bits), (frac - 2 ^ p) * 2 ^ (23 - p))
                  [] OTHER -> Finite(neg, exp - Bias(bits), frac))
-----------------------------------------------------------------------------
(* Pictures with editing characters.  A mask is the sequence of the symbols *)
(* of the picture, CR and DB being one symbol of two bytes.                 *)

DigitPlaces == {"9", "Z", "*"}

Occurs(mask, symbols) == Cardinality({i \in 1 .. Len(mask) : mask[i] \in symbols})

(* A currency symbol or a sign that is written more than once floats. *)
Floats(mask) == \E c \in {"$", "+", "-"} : Occurs(mask, {c}) >= 2

(* What stands for a symbol, given the next digit and whether leading zeros *)
(* are still being suppressed.                                              *)
Insertion(symbol, digit, blank, negative, filler) ==
    CASE symbol = "9" -> <<Zero + digit>>
      [] symbol = "Z" -> <<IF blank /\ digit = 0 THEN Space ELSE Zero + digit>>
      [] symbol = "*" -> <<IF blank /\ digit = 0 THEN 42 ELSE Zero + digit>>
      [] symbol = "," -> <<IF blank THEN filler ELSE 44>>
      [] symbol = "." -> <<46>>
      [] symbol = "/" -> <<47>>
      [] symbol = "B" -> <<Space>>
      [] symbol = "0" -> <<Zero>>
      [] symbol = "$" -> <<36>>
      [] symbol = "+" -> <<IF negative THEN Minus ELSE Plus>>
      [] symbol = "-" -> <<IF negative THEN Minus ELSE Space>>
      [] symbol = "CR" -> IF negative THEN <<67, 82>> ELSE <<Space, Space>>
      [] symbol = "DB" -> IF negative THEN <<68, 66>> ELSE <<Space, Space>>

(* Whether zeros are suppressed after a symbol.  Slip of EncodeEdited: they *)
(* are up to the point.                                                     *)
StillBlankToPoint(symbol, digit, blank) == blank /\ symbol # "."
StillBlank(symbol, digit, blank) ==
    blank /\ symbol \notin {"9", "."} /\ (symbol \in {"Z", "*"} => digit = 0)

EncodeEdited(n, mask) ==
    LET places == Occurs(mask, DigitPlaces)
        digits == DigitsOf(Magnitude(n), places)
        filler == IF Occurs(mask, {"*"}) > 0 THEN 42 ELSE Space
        step(st, symbol) ==
            LET d == IF symbol \in DigitPlaces THEN digits[st.used + 1] ELSE 0
            IN  [out   |-> st.out \o Insertion(symbol, d, st.blank, n < 0, filler),
                 used  |-> st.used + (IF symbol \in DigitPlaces THEN 1 ELSE 0),
                 blank |-> StillBlank(symbol, d, st.blank)]
    IN  IF Floats(mask) \/ ~FitsDigits(Magnitude(n), Max({1, places})) \/ places = 0 THEN Err
        ELSE Ok(FoldLeft(step, [out |-> <<>>, used |-> 0, blank |-> TRUE], mask).out)

(* The letters of a mark are looked for in either case. *)
Marks == {<<x, y>> : x \in {67, 99}, y \in {82, 114}} \cup {<<x, y>> : x \in {68, 100}, y \in {66, 98}}

IsNegative(s) ==
    LET t == Trim(s)
    IN  t # <<>> /\ \/ Len(t) > 1 /\ SubSeq(t, Len(t) - 1, Len(t)) \in Marks
                    \/ Head(t) = Minus
                    \/ Last(t) = Minus

(* Every digit counts, wherever it stands and whatever wrote it. *)
DecodeEdited(s, signed) ==
    LET d == SelectSeq(s, IsDigit)
    IN  Ok(Signed(signed /\ IsNegative(s), ValueOf([i \in 1 .. Len(d) |-> d[i] - Zero])))

-----------------------------------------------------------------------------
(* Dates.  A format is a sequence of parts, [of |-> "Y"] being %Y, and of   *)
(* bytes that stand for themselves, [byte |-> b].  What chrono makes of a   *)
(* format is modelled for the parts Y y m d H M S.  Years have four digits. *)

DaysIn(month, year) ==
    CASE month \in {4, 6, 9, 11} -> 30
      [] month = 2 -> IF year % 4 = 0 /\ (year % 100 # 0 \/ year % 400 = 0) THEN 29 ELSE 28
      [] OTHER -> 31

DayAfter(d) ==
    IF d.day < DaysIn(d.month, d.year) THEN [d EXCEPT !.day = @ + 1]
    ELSE IF d.month < 12 THEN [d EXCEPT !.month = @ + 1, !.day = 1]
    ELSE [year |-> d.year + 1, month |-> 1, day |-> 1]

(* What runs over midnight belongs to the next day. *)
StampVal(d, t) == [stamp |-> IF t < 86400 THEN d ELSE DayAfter(d), clock |-> t % 86400]

(* The numbers a value has for the parts of a format. *)
DateParts(d) == "Y" :> d.year @@ "y" :> d.year % 100 @@ "m" :> d.month @@ "d" :> d.day
TimeParts(t) == "H" :> t \div 3600 @@ "M" :> (t \div 60) % 60 @@ "S" :> t % 60

PlacesOf(part) == IF part = "Y" THEN 4 ELSE 2

(* format: a time of day beyond its last second is out of range.  To format *)
(* a part that the value does not have is a panic.  NULL is blank.          *)
FormatDateTime(v, format, width) ==
    LET parts == CASE Is(v, "date") -> DateParts(v.date)
                   [] Is(v, "time") -> TimeParts(v.time)
                   [] Is(v, "stamp") -> DateParts(v.stamp) @@ TimeParts(v.clock)
                   [] OTHER -> << >>
        shown(p) == IF "byte" \in DOMAIN p THEN <<p.byte>>
                    ELSE ZeroPad(parts[p.of], PlacesOf(p.of)).ok
        text  == IF v = Null THEN <<>> ELSE FlattenSeq([i \in 1 .. Len(format) |-> shown(format[i])])
    IN  IF \/ v # Null /\ parts = << >>
           \/ Is(v, "time") /\ v.time >= 86400
           \/ v # Null /\ \E i \in 1 .. Len(format) :
                  "of" \in DOMAIN format[i] /\ format[i].of \notin DOMAIN parts
           \/ Len(text) > width
        THEN Err
        ELSE Ok(text \o [i \in 1 .. width - Len(text) |-> Space])

(* A number of at least one digit and as many as the part may have; white   *)
(* space before it is skipped.                                              *)
ReadPart(st, part) ==
    LET from   == Min({Len(st.rest) + 1} \cup Inked(st.rest))
        to     == Max({i \in from - 1 .. Min({Len(st.rest), from + PlacesOf(part) - 1}) :
                          \A j \in from .. i : IsDigit(st.rest[j])})
        digits == SubSeq(st.rest, from, to)
    IN  IF digits = <<>> THEN Err
        ELSE Ok([rest |-> SubSeq(st.rest, to + 1, Len(st.rest)),
                 got  |-> part :> Parse(digits).ok @@ st.got])

ReadFormat(s, format) ==
    LET step(r, p) ==
            Then(r, LAMBDA st :
                IF "of" \in DOMAIN p THEN ReadPart(st, p.of)
                ELSE IF st.rest # <<>> /\ Head(st.rest) = p.byte THEN Ok([st EXCEPT !.rest = Tail(@)])
                ELSE Err)
    IN  Then(FoldLeft(step, Ok([rest |-> s, got |-> << >>]), format),
             LAMBDA st : IF st.rest = <<>> THEN Ok(st.got) ELSE Err)

(* Two digits of a year are those of 1970 to 2068; 69 is not used. *)
YearOf(got) == IF "Y" \in DOMAIN got THEN got["Y"]
               ELSE IF got["y"] < 69 THEN 2000 + got["y"] ELSE 1900 + got["y"]

DateOf(got) ==
    IF ~({"m", "d"} \subseteq DOMAIN got /\ {"Y", "y"} \cap DOMAIN got # {}) THEN Err
    ELSE IF got["m"] \notin 1 .. 12 \/ got["d"] \notin 1 .. DaysIn(got["m"], YearOf(got)) THEN Err
    ELSE Ok([year |-> YearOf(got), month |-> got["m"], day |-> got["d"]])

(* A leap second counts, as the first one of the next minute. *)
TimeOf(got) ==
    LET s == IF "S" \in DOMAIN got THEN got["S"] ELSE 0
    IN  IF ~({"H", "M"} \subseteq DOMAIN got) THEN Err
        ELSE IF got["H"] > 23 \/ got["M"] > 59 \/ s > 60 THEN Err
        ELSE Ok(3600 * got["H"] + 60 * got["M"] + s)

ParseDateTime(kind, format, s) ==
    Then(ReadFormat(Trim(s), format), LAMBDA got :
        CASE kind = "date" -> Then(DateOf(got), LAMBDA d : Ok(DateVal(d)))
          [] kind = "time" -> Then(TimeOf(got), LAMBDA t : Ok(TimeVal(t)))
          [] kind = "timestamp" ->
                Then(DateOf(got), LAMBDA d : Then(TimeOf(got), LAMBDA t : Ok(StampVal(d, t)))))

-----------------------------------------------------------------------------
(* A value in a field of another kind *)

(* The shortest numeral of a number. *)
Numeral(n) ==
    LET w == Min({i \in 1 .. 10 : i = 10 \/ FitsDigits(Magnitude(n), i)})
    IN  (IF n < 0 THEN <<Minus>> ELSE <<>>) \o ZeroPad(Magnitude(n), w).ok

DecimalString(n, scale) ==
    LET d == Numeral(Magnitude(n))
        padded == [i \in 1 .. Max({0, scale + 1 - Len(d)}) |-> Zero] \o d
        point  == Len(padded) - scale
    IN  IF scale = 0 THEN Numeral(n)
        ELSE (IF n < 0 THEN <<Minus>> ELSE <<>>) \o SubSeq(padded, 1, point) \o <<46>>
             \o SubSeq(padded, point + 1, Len(padded))

(* Values of the other kinds have no text, nor is there one for floats here.*)
DisplayScalar(v) ==
    CASE Is(v, "text") -> v.text
      [] Is(v, "int")  -> Numeral(v.int)
      [] Is(v, "bool") -> IF v.bool THEN <<116, 114, 117, 101>> ELSE <<102, 97, 108, 115, 101>>
      [] Is(v, "dec")  -> DecimalString(v.dec, v.scale)
      [] OTHER -> <<>>

AsInteger(v) ==
    CASE Is(v, "int") -> Ok(v.int)
      [] Is(v, "dec") /\ v.scale = 0 -> Ok(v.dec)
      [] v = Null -> Ok(0)
      [] Is(v, "text") -> IF Trim(v.text) = <<>> THEN Err ELSE Parse(Trim(v.text))
      [] OTHER -> Err

(* Toward zero, as the division of integers is. *)
Rescale(n, from, to) ==
    IF from =< to THEN n * 10 ^ (to - from)
    ELSE Signed(n < 0, Magnitude(n) \div 10 ^ (from - to))

(* Half away from zero, for floats of less than a hundred. *)
RoundedFloat(f, scale) ==
    LET unit == 2 ^ (23 - f.exp)
        n    == (2 ^ 23 + f.frac) * 10 ^ scale
    IN  IF f.class = "zero" THEN 0 ELSE Signed(f.neg, (n + unit \div 2) \div unit)

AsDecimal(v, scale) ==
    CASE Is(v, "dec") -> Ok(Rescale(v.dec, v.scale, scale))
      [] Is(v, "int") -> Ok(Rescale(v.int, 0, scale))
      [] v = Null -> Ok(0)
      [] Is(v, "float") -> Ok(RoundedFloat(v.float, scale))
      [] OTHER -> Err

AsFloat(v) ==
    CASE Is(v, "float") -> Ok(v.float)
      [] Is(v, "int") -> Ok(FloatOfInt(v.int))
      [] Is(v, "dec") -> Ok(FloatOf(v.dec, 10 ^ v.scale))
      [] v = Null -> Ok(FloatOfInt(0))
      [] OTHER -> Err
=============================================================================
