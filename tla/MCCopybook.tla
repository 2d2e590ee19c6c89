----------------------------- MODULE MCCopybook -----------------------------
(* Instances of Copybook: all texts of up to three statements with levels   *)
(* that go up and down, longer ones of two levels, and pictures of every    *)
(* kind with every usage and sign.                                          *)
EXTENDS Copybook

Clause(is, what)   == <<[is |-> is, what |-> what]>>
Stmt(level, name, clauses) == [level |-> level, name |-> name, clauses |-> clauses]

Names == <<"A", "B", "C", "D">>
Byte  == Clause("pic", <<"X">>)
Word3 == Clause("pic", <<"X", "X", "X">>)
Half  == Clause("pic", <<"S", "9">>) \o Clause("usage", "comp") \o Clause("sync", TRUE)
Valued == Clause("pic", <<"9">>) \o Clause("value", 0) \o Clause("usage", "comp")
Times2 == Clause("occurs", 2)
Vary   == Times2 \o Clause("depending", "A")
Over(name) == Clause("redefines", name)

(* What may be written of a statement with items of these names before it. *)
Clauses(before) ==
    {<<>>, Byte, Half, Valued, Times2, Byte \o Times2, Byte \o Vary}
    \cup {Over(name) \o c : name \in before, c \in {<<>>, Word3}}

Statements(n, levels, clauses) == {Stmt(l, Names[n], c) : l \in levels, c \in clauses}

Before(n) == {Names[i] : i \in 1 .. n - 1}

ShortTexts ==
    LET S(n) == Statements(n, {5, 10, 15}, Clauses(Before(n)))
    IN  {<<>>} \cup {<<a>> : a \in S(1)} \cup {<<a, b>> : a \in S(1), b \in S(2)}
        \cup {<<a, b, c>> : a \in Statements(1, {10}, Clauses({})), b \in S(2), c \in S(3)}

LongTexts ==
    {<<a, b, c, d>> :
        a \in Statements(1, {5}, {<<>>, Byte}),
        b \in Statements(2, {5, 10}, {<<>>, Word3, Times2, Over("A") \o Word3}),
        c \in Statements(3, {5, 10, 15}, {<<>>, Half, Byte \o Times2, Over("A"), Over("B") \o Word3}),
        d \in Statements(4, {5, 10, 15, 88}, {Byte, Half, Over("B") \o Byte, Over("C") \o Word3, Over("Z")})}

Pictures ==
    {<<>>, <<"X", "9">>, <<"X", "A">>, <<"9", "Q">>, <<"S", "9", "9", "9">>, <<"9", "9", "V", "9">>,
     <<"S", "9", "V", "9">>, <<"9", "P", "P">>, <<"Z", ",", "Z", "9", ".", "9">>, <<"$", "$", "$", "9">>,
     <<"+", "9">>, <<"9", "9", "CR">>, [i \in 1 .. 5 |-> "9"], [i \in 1 .. 10 |-> "9"]}

PictureTexts ==
    {<<Stmt(1, "A", Clause("pic", p) \o Clause("usage", u) \o Clause("sign", s)), Stmt(1, "B", Byte)>> :
        p \in Pictures, u \in {"display", "comp", "comp3"}, s \in {"embedded", "leading", "trailing"}}

(* Names that occur more than once: among siblings, or in a group of that name. *)
TwinTexts ==
    {<<Stmt(5, "A", a), Stmt(l, m, b), Stmt(k, n, c), Stmt(5, "C", d)>> :
        a \in {<<>>, Word3}, b \in {Byte, Word3}, c \in {Byte, Over("A") \o Word3},
        d \in {Byte, Over("A") \o Byte, Over("B") \o Byte},
        l \in {5, 10}, k \in {5, 10}, m \in {"A", "B"}, n \in {"A", "B"}}

AllTexts == ShortTexts \cup LongTexts \cup PictureTexts \cup TwinTexts
=============================================================================
