------------------------------ MODULE Template ------------------------------
(***************************************************************************)
(* From an unpack template to a layout (fixedformat-core/src/template.rs). *)
(* A template is a sequence of tokens, split already:                      *)
(*   [t |-> "order", order]                    < > ! = @                   *)
(*   [t |-> "code", name, code, count, order]  a code, or 9(n), S9(n), X(n)*)
(*   [t |-> "group", name, of, count]          ( ... )n                    *)
(*   [t |-> "counted", name, code, count, order, of, times]   code/( ... ) *)
(* where `of` is a template, Unnamed stands for no name, Once for no count *)
(* and Inherit for no `<` or `>` at the end.                               *)
(***************************************************************************)
EXTENDS Codec

Unnamed == ""
Inherit == "inherit"

(* The bytes of one element. *)
Size(code) ==
    CASE code \in {"c", "C", "?"} -> 1
      [] code \in {"s", "S", "n", "v", "e"} -> 2
      [] code \in {"l", "L", "i", "I", "N", "V", "f"} -> 4
      [] code \in {"q", "Q", "d"} -> 8

IntegerCodes == {"c", "C", "s", "S", "n", "v", "l", "L", "i", "I", "N", "V", "q", "Q"}

(* The byte order of a binary code: its own, that of its last sign, or   *)
(* the one in force.                                                       *)
OrderOf(tk, order) ==
    CASE tk.code \in {"n", "N"} -> "big"
      [] tk.code \in {"v", "V"} -> "little"
      [] OTHER -> IF tk.order = Inherit THEN order ELSE tk.order

(* parse_body: a count is the width of a text and the number of other      *)
(* values.                                                                 *)
Coded(tk, order) ==
    LET width == IF tk.count = Once THEN 1 ELSE tk.count
        one(kind) == Ok([kind |-> kind, width |-> width, occurs |-> Once])
        each(kind) == Ok([kind |-> kind, width |-> Size(tk.code), occurs |-> tk.count])
        endian == OrderOf(tk, order)
    IN  CASE tk.code \in {"A", "X"} -> one(Chars("left", Space))
          [] tk.code \in {"a", "Z"} -> one(Chars("left", 0))
          [] tk.code = "x"  -> one(Pad(0))
          [] tk.code = "9"  -> one(DisplayInt(FALSE, "unsigned"))
          [] tk.code = "S9" -> one(Decimal("zoned", width, 0, "embedded"))
          [] tk.code = "H"  -> one(Hex("big"))
          [] tk.code = "h"  -> one(Hex("little"))
          [] tk.code = "?"  -> each(Bool)
          [] tk.code \in {"e", "f", "d"} -> each(Real(8 * Size(tk.code), endian))
          [] tk.code \in IntegerCodes -> each(Binary(endian, tk.code \in {"c", "s", "l", "i", "q"}))
          [] OTHER -> Err

(* The fields so far, where the next begins, the byte order in force and   *)
(* the names given out.  A group starts anew with all of them.             *)
Fresh == [fields |-> <<>>, offset |-> 0, order |-> "big", auto |-> 0]

(* A name for a token without one. *)
NameFor(tk, st) == IF tk.name # Unnamed THEN tk.name ELSE "field_" \o ToString(st.auto + 1)
Named(tk, st)   == IF tk.name # Unnamed THEN st ELSE [st EXCEPT !.auto = @ + 1]

(* One more field; a table reserves no place.  Slip: it reserves that of   *)
(* one element.                                                            *)
AddReserving(st, name, width, kind, occurs, controller) ==
    [st EXCEPT !.fields = Append(@, [name |-> name, offset |-> st.offset, width |-> width,
                                     kind |-> kind, occurs |-> occurs, controller |-> controller]),
               !.offset = @ + width * (IF occurs = Once THEN 1 ELSE occurs)]

Add(st, name, width, kind, occurs, controller) ==
    LET f == [name |-> name, offset |-> st.offset, width |-> width, kind |-> kind,
              occurs |-> occurs, controller |-> controller]
    IN  [st EXCEPT !.fields = Append(@, f), !.offset = @ + ReservedWidth(f)]

(* A count before a group is one integer, and the group has no other.      *)
Counts(c, tk) == c.occurs = Once /\ c.kind.k \in {"binary", "int"} /\ tk.times = Once

(* The count, a field of its own, and the table it counts. *)
AddTable(st, name, c, g) ==
    LET count == name \o "_count"
    IN  Add(Add(st, count, c.width, c.kind, Once, NoField),
            name, g.offset, Group(g.fields), Once, count)

RECURSIVE ParseTokens(_, _), ParseToken(_, _)

ParseToken(tk, st) ==
    CASE tk.t = "order" -> Ok([st EXCEPT !.order = tk.order])
      [] tk.t = "code" ->
            Then(Coded(tk, st.order),
                 LAMBDA c : Ok(Add(Named(tk, st), NameFor(tk, st), c.width, c.kind, c.occurs, NoField)))
      [] tk.t = "group" ->
            Then(ParseTokens(tk.of, Fresh),
                 LAMBDA g : Ok(Add(Named(tk, st), NameFor(tk, st), g.offset, Group(g.fields),
                                   tk.count, NoField)))
      [] tk.t = "counted" ->
            Then(Coded(tk, st.order),
                 LAMBDA c : IF ~Counts(c, tk) THEN Err
                            ELSE Then(ParseTokens(tk.of, Fresh),
                                      LAMBDA g : Ok(AddTable(Named(tk, st), NameFor(tk, st), c, g))))

ParseTokens(tokens, st) ==
    IF tokens = <<>> THEN Ok(st)
    ELSE Then(ParseToken(Head(tokens), st), LAMBDA s : ParseTokens(Tail(tokens), s))

ParseTemplate(tokens) == Then(ParseTokens(tokens, Fresh), LAMBDA st : Ok(st.fields))
=============================================================================
