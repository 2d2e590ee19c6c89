------------------------------ MODULE Numerals ------------------------------
(***************************************************************************)
(* How a number is written into the bytes of a field and read back: signed *)
(* and unsigned display digits and two's-complement binary (encode.rs and  *)
(* decode.rs in fixedformat-core), packed decimal (packed.rs) and zoned    *)
(* decimal (zoned.rs).  Bytes are ASCII codes; a number is an integer of   *)
(* the unscaled value.                                                     *)
(***************************************************************************)
EXTENDS Integers, Sequences, SequencesExt, FiniteSetsExt

(* A result is an error or a value. *)
Err       == [err |-> TRUE]
Ok(x)     == [ok |-> x]
IsOk(r)   == "ok" \in DOMAIN r

(* The code's `?`: go on with the value, or hand the error up. *)
Then(r, Step(_)) == IF IsOk(r) THEN Step(r.ok) ELSE Err

Zero  == 48
Nine  == 57
Plus  == 43
Minus == 45
Space == 32

IsDigit(b) == b \in Zero .. Nine

Magnitude(n) == IF n < 0 THEN -n ELSE n
Signed(negative, n) == IF negative THEN -n ELSE n

(* What is left of n when its k last digits to a base are taken off.  The  *)
(* quotient is rounded down, so that of a number below zero -1 is left.    *)
Shifted(n, base, k) ==
    LET s[i \in 0 .. k] == IF i = 0 THEN n ELSE s[i - 1] \div base
    IN  s[k]

(* The digits d to a base behind a number, most significant first. *)
Horner(start, base, d) ==
    LET v[i \in 0 .. Len(d)] == IF i = 0 THEN start ELSE base * v[i - 1] + d[i]
    IN  v[Len(d)]

ValueOf(d) == Horner(0, 10, d)

(* The w low decimal digits of n, and whether that is all of n. *)
DigitsOf(n, w)   == [i \in 1 .. w |-> Shifted(n, 10, w - i) % 10]
FitsDigits(n, w) == Shifted(n, 10, w) = 0

SignKinds == {"unsigned", "embedded", "leading", "trailing"}

-----------------------------------------------------------------------------
(* Display: encode_display_int, parse_display_int *)

(* zero_pad: the shortest numeral, 0 itself included, has one digit. *)
ZeroPad(n, w) ==
    IF w > 0 /\ FitsDigits(n, w)
    THEN Ok([i \in 1 .. w |-> Zero + DigitsOf(n, w)[i]])
    ELSE Err

EncodeDisplay(n, width, signed, sign) ==
    LET mark      == <<IF n < 0 THEN Minus ELSE Plus>>
        separate  == sign \in {"leading", "trailing"}
        marked(d) == CASE sign = "leading"  -> mark \o d
                        [] sign = "trailing" -> d \o mark
                        [] OTHER             -> d
    IN  IF ~separate /\ n < 0 /\ ~signed THEN Err
        ELSE Then(ZeroPad(Magnitude(n), IF separate THEN width - 1 ELSE width),
                  LAMBDA d : Ok(marked(d)))

EncodeDisplayDecimal(n, precision, width, sign) ==
    Then(EncodeDisplay(n, Max({width, precision}), sign # "unsigned", sign),
         LAMBDA b : IF Len(b) > width THEN Err ELSE Ok(b))

(* `str::trim`: tabs, line ends and form feeds are white space, too. *)
Inked(s) == {i \in 1 .. Len(s) : s[i] \notin (9 .. 13) \cup {Space}}
Trim(s)  == IF Inked(s) = {} THEN <<>> ELSE SubSeq(s, Min(Inked(s)), Max(Inked(s)))

(* strip_separate_sign of trimmed bytes: the digits and the sign. *)
StripSign(s, sign) ==
    CASE sign = "leading" /\ s # <<>> /\ Head(s) \in {Plus, Minus} ->
            [rest |-> Tail(s), negative |-> Head(s) = Minus]
      [] sign = "trailing" /\ s # <<>> /\ Last(s) \in {Plus, Minus} ->
            [rest |-> Front(s), negative |-> Last(s) = Minus]
      [] OTHER -> [rest |-> s, negative |-> FALSE]

DigitValues(s) == [i \in 1 .. Len(s) |-> s[i] - Zero]

(* `str::parse`: a sign is allowed in front, and at least one digit asked  *)
(* for.                                                                    *)
Parse(s) ==
    LET negative == s[1] = Minus
        d        == IF s[1] \in {Plus, Minus} THEN Tail(s) ELSE s
    IN  IF d = <<>> \/ \E i \in 1 .. Len(d) : ~IsDigit(d[i]) THEN Err
        ELSE Ok(Signed(negative, ValueOf(DigitValues(d))))

(* The digit at the k-th place of a numeral, counted from its last.  Two   *)
(* numerals are compared place by place, however long they are.            *)
DigitAt(d, k) == IF k < Len(d) THEN d[Len(d) - k] ELSE 0

Exceeds(d, limit) ==
    \E k \in 0 .. Len(d) - 1 :
        /\ DigitAt(d, k) > DigitAt(limit, k)
        /\ \A j \in k + 1 .. Len(d) + Len(limit) : DigitAt(d, j) = DigitAt(limit, j)

(* What an i64 and an i128 hold. *)
MaxI64  == <<9, 2, 2, 3, 3, 7, 2, 0, 3, 6, 8, 5, 4, 7, 7, 5, 8, 0, 7>>
MinI64  == <<9, 2, 2, 3, 3, 7, 2, 0, 3, 6, 8, 5, 4, 7, 7, 5, 8, 0, 8>>
MaxI128 == <<1, 7, 0, 1, 4, 1, 1, 8, 3, 4, 6, 0, 4, 6, 9, 2, 3, 1, 7, 3, 1, 6, 8, 7, 3, 0, 3, 7,
             1, 5, 8, 8, 4, 1, 0, 5, 7, 2, 7>>

(* Parsed as an i64: more than that holds is an error. *)
ParseI64(s) ==
    IF Exceeds(DigitValues(IF s[1] \in {Plus, Minus} THEN Tail(s) ELSE s),
               IF s[1] = Minus THEN MinI64 ELSE MaxI64)
    THEN Err
    ELSE Parse(s)

DecodeDisplay(bytes, sign) ==
    LET s == StripSign(Trim(bytes), sign)
        d == Trim(s.rest)
    IN  Then(IF d = <<>> THEN Ok(0) ELSE ParseI64(d), LAMBDA n : Ok(Signed(s.negative, n)))

(* A display decimal takes the digits wherever they stand, up to an i128. *)
DecodeDisplayDecimal(bytes, sign) ==
    LET s == StripSign(Trim(bytes), sign)
        d == DigitValues(SelectSeq(s.rest, IsDigit))
    IN  IF Exceeds(d, MaxI128) THEN Err ELSE Ok(Signed(s.negative, ValueOf(d)))

-----------------------------------------------------------------------------
(* Binary: encode_binary_int, parse_binary_int *)

InOrderOf(bytes, endian) == IF endian = "big" THEN bytes ELSE Reverse(bytes)

(* What is left of a number above its k low bytes. *)
Above(n, k) == Shifted(n, 256, k)

(* The low bytes of the number, whether or not they are all of it.  Slip   *)
(* of EncodeBinary: the first byte keeps what is left of the number.       *)
EncodeBinaryWide(n, width, endian) ==
    IF width \notin 1 .. 8 THEN Err
    ELSE Ok(InOrderOf([i \in 1 .. width |->
                          IF i = 1 THEN Above(n, width - 1) ELSE Above(n, width - i) % 256], endian))

EncodeBinary(n, width, endian) ==
    IF width \notin 1 .. 8 THEN Err
    ELSE Ok(InOrderOf([i \in 1 .. width |-> Above(n, width - i) % 256], endian))

(* Two's complement, most significant byte first: the first bit set stands *)
(* for a number one less, in the units of the byte before.                 *)
FromBytes(big, negative) == Horner(IF negative THEN -1 ELSE 0, 256, big)

(* Slip of DecodeBinary: the sign bit is looked for in the first byte as   *)
(* it stands in the record.                                                *)
DecodeBinaryFirstByte(bytes, endian, signed) ==
    IF Len(bytes) \notin 1 .. 8 THEN Err
    ELSE Ok(FromBytes(InOrderOf(bytes, endian),
                      bytes[1] >= 128 /\ (signed \/ Len(bytes) = 8)))

(* The number is cast to an i64: one of eight bytes is a signed number,    *)
(* whatever the field says.                                                *)
DecodeBinary(bytes, endian, signed) ==
    LET big == InOrderOf(bytes, endian)
    IN  IF Len(bytes) \notin 1 .. 8 THEN Err
        ELSE Ok(FromBytes(big, big[1] >= 128 /\ (signed \/ Len(bytes) = 8)))

-----------------------------------------------------------------------------
(* Packed decimal: two digits a byte, the sign in the last nibble *)

EncodePacked(n, width, signed) ==
    LET d    == DigitsOf(Magnitude(n), 2 * width - 1)
        sign == IF ~signed THEN 15 ELSE IF n < 0 THEN 13 ELSE 12
        nib  == Append(d, sign)
    IN  IF width = 0 \/ ~FitsDigits(Magnitude(n), 2 * width - 1) THEN Err
        ELSE Ok([i \in 1 .. width |-> 16 * nib[2 * i - 1] + nib[2 * i]])

DecodePacked(bytes) ==
    LET nib  == [i \in 1 .. 2 * Len(bytes) |->
                    IF i % 2 = 1 THEN bytes[(i + 1) \div 2] \div 16
                    ELSE bytes[i \div 2] % 16]
    IN  IF bytes = <<>> \/ (\E i \in 1 .. Len(nib) - 1 : nib[i] > 9) \/ Last(nib) < 10
        THEN Err
        ELSE Ok(Signed(Last(nib) \in {11, 13}, ValueOf(Front(nib))))

-----------------------------------------------------------------------------
(* Zoned decimal: the sign punched over the last digit *)

Overpunch(d, negative) ==
    IF d = 0 THEN IF negative THEN 125 ELSE 123
    ELSE (IF negative THEN 74 ELSE 65) + d - 1

EncodeZoned(n, width, signed) ==
    LET d == DigitsOf(Magnitude(n), width)
    IN  IF width = 0 \/ ~FitsDigits(Magnitude(n), width) THEN Err
        ELSE Ok([i \in 1 .. width |-> IF i = width /\ signed THEN Overpunch(d[i], n < 0)
                                      ELSE Zero + d[i]])

Punches == (0 .. 9) \X BOOLEAN

DecodeZoned(bytes) ==
    LET plain   == {p \in Punches : ~p[2] /\ Last(bytes) = Zero + p[1]}
        punched == {p \in Punches : Last(bytes) = Overpunch(p[1], p[2])}
    IN  IF bytes = <<>> \/ (\E i \in 1 .. Len(bytes) - 1 : ~IsDigit(bytes[i]))
           \/ plain \cup punched = {}
        THEN Err
        ELSE LET p == CHOOSE q \in plain \cup punched : TRUE
             IN  Ok(Signed(p[2], ValueOf(Append([i \in 1 .. Len(bytes) - 1 |-> bytes[i] - Zero],
                                                p[1]))))
=============================================================================
