----------------------------- MODULE MCVsprintf -----------------------------
(***************************************************************************)
(* Small instances of Vsprintf.tla: every combination of flags, width,     *)
(* precision and conversion between a character and a %n, with words of    *)
(* six bits; every text of at most four characters as a format; and the    *)
(* directives that the comments of the code promise more of.               *)
(***************************************************************************)
EXTENDS Vsprintf

Copied(c) == [text |-> <<c>>, conv |-> "copy", flags |-> {}, width |-> -1, prec |-> -1]

\* A directive as it is written, with the values its writer means.
Written1(f, w, p, q, c) ==
    [text  |-> <<"%">> \o f \o w.text \o p.text \o q \o <<c>>, conv |-> c,
     flags |-> {FlagOf[f[i]] : i \in DOMAIN f}, width |-> w.value, prec |-> p.value]

Value(t, v) == [text |-> t, value |-> v]
Nothing     == Value(<<>>, -1)

SomeFlags  == {<<>>, <<"-">>, <<"0">>, <<"+">>, <<"SP">>, <<"#">>, <<"-", "0">>,
               <<"+", "SP">>, <<"#", "0">>, <<"#", "-", "+">>}
SomeWidths == {Nothing, Value(<<"4">>, 4), Value(<<"1", "2">>, 12)}
SomePrecs  == {Nothing, Value(<<".">>, 0), Value(<<".", "3">>, 3)}
Count      == Written1(<<>>, Nothing, Nothing, <<>>, "n")

\* The boundaries of the signed and the unsigned words and of the digits.
SomeWords == {0, 7, 8, 10, 31, 32, 63}

FieldCalls ==
    {[pieces |-> <<Copied("a"), Written1(f, w, p, q, c), Count>>, args |-> <<n, 1>>] :
        f \in SomeFlags, w \in SomeWidths, p \in SomePrecs,
        q \in {<<>>}, n \in SomeWords,
        c \in {"c", "s", "o", "x", "X", "p", "d", "u"}}
    \cup
    {[pieces |-> <<Copied("a"), Written1(<<>>, w, Nothing, q, c), Count>>,
      args   |-> <<n, 1>>] :
        w \in SomeWidths, q \in {<<"h">>, <<"l">>, <<"L">>}, n \in SomeWords,
        c \in {"i", "u"}}
    \cup
    {[pieces |-> <<Copied("a"), Written1(<<>>, w, Nothing, <<>>, "%"), Count>>,
      args   |-> <<1>>] : w \in SomeWidths}

\* Texts that are formats by chance: their pieces are single characters.
SomeChars == {"%", "-", "1", ".", "*", "l", "d", "a"}
AnyCalls ==
    {[pieces |-> [i \in DOMAIN t |-> [Copied(t[i]) EXCEPT !.conv = "chance"]],
      args   |-> <<n, 3, 2, 1, 0>>] :
        t \in UNION {[1..k -> SomeChars] : k \in 0..4}, n \in {2, 62}}

FormatCalls == FieldCalls \cup AnyCalls

StarCalls ==
    {[pieces |-> <<Copied("a"), Written1(<<>>, w, p, <<>>, "d"), Count>>,
      args   |-> <<n, 5, 1>>] :
        n \in SomeWords, w \in {Value(<<"*">>, -1), Nothing}, p \in SomePrecs}

StringCalls ==
    {[pieces |-> <<Written1(f, Nothing, Nothing, <<>>, "s"), Copied("LF")>>,
      args   |-> <<n>>] : n \in SomeWords, f \in {<<>>, <<"-">>}}

\* Three strings of different lengths.
SomeMemory ==
    [w \in Word |->
        CASE w % 3 = 0 -> <<"NUL", "z", "z">>
          [] w % 3 = 1 -> <<"s", "NUL", "z">>
          [] w % 3 = 2 -> <<"s", "t", "u", "v", "NUL">>]
=============================================================================
