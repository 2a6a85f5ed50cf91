------------------------------ MODULE Vsprintf ------------------------------
(***************************************************************************)
(* vsprintf of kernel/vsprintf.c, one iteration of its loop over the       *)
(* format at a time, with the strlen of lib/string.asm that it calls.      *)
(*                                                                         *)
(* A character is a one-letter string, or "SP", "LF" or "NUL".  A format   *)
(* is a sequence of pieces, records with a field text: the code sees only  *)
(* the texts one after the other, the other fields say what the writer of  *)
(* the format meant and are used by the properties alone.  An argument is  *)
(* a word; a word that is a pointer points at Memory[word].                *)
(***************************************************************************)
EXTENDS Integers, Sequences, FiniteSets, SequencesExt, FiniteSetsExt

CONSTANTS WordSize,     \* how many words there are, 2^32 in the code
          CharSize,     \* how many characters, 2^8 in the code
          Calls,        \* the calls, [pieces |-> ..., args |-> ...]
          Memory,       \* the characters from an address on, NUL included
          FrameLengths  \* what strlen returns: see strlen

Word == 0..(WordSize - 1)
Char == STRING \ {"NUL"}

ASSUME Widths == /\ WordSize \in Nat \ {0} /\ WordSize % 2 = 0
                 /\ CharSize \in 1..WordSize
                 /\ FrameLengths \subseteq 0..3

VARIABLES call,    \* the call in progress
          fmt,     \* index of the character fmt points at
          args,    \* index of the next argument va_arg returns
          str,     \* what has been written to buf, up to str
          stored,  \* what %n has stored last
          ret,     \* what vsprintf has returned, or Running
          passes   \* history: iterations of the loop so far

vars == <<call, fmt, args, str, stored, ret, passes>>

Running == -1

Format == FlattenSeq([i \in DOMAIN call.pieces |-> call.pieces[i].text])

\* The character at index i; the NUL ends the format.
At(i) == IF i <= Len(Format) THEN Format[i] ELSE "NUL"

Numerals  == <<"0", "1", "2", "3", "4", "5", "6", "7", "8", "9">>
DigitsOf(small) ==
    Numerals \o IF small THEN <<"a", "b", "c", "d", "e", "f">>
                         ELSE <<"A", "B", "C", "D", "E", "F">>

Index(s, c) == SelectInSeq(s, LAMBDA e : e = c)

is_digit(c) == c \in ToSet(Numerals)

\* The first index from i on whose character is not one of C.
Skip(C, i) == Min({j \in i..(Len(Format) + 1) : At(j) \notin C})

\* The number that the numerals s make.
Atoi(s) == FoldLeft(LAMBDA n, c : n * 10 + Index(Numerals, c) - 1, 0, s)

\* The word w as an int.
Signed(w) == IF w < WordSize \div 2 THEN w ELSE w - WordSize

\* skip_atoi returns the number that starts at i, or what its int i holds of it,
\* and leaves fmt behind it.
skip_atoi(i) ==
    [value |-> Signed(Atoi(SubSeq(Format, i, Skip(ToSet(Numerals), i) - 1)) % WordSize),
     at    |-> Skip(ToSet(Numerals), i)]

va_arg(i) == call.args[i]

-----------------------------------------------------------------------------
(* The directive that starts at fmt, read from left to right.              *)

FlagOf == [c \in {"-", "+", "SP", "#", "0"} |->
              CASE c = "-" -> "LEFT" [] c = "+" -> "PLUS" [] c = "SP" -> "SPACE"
                [] c = "#" -> "SPECIAL" [] c = "0" -> "ZEROPAD"]
FlagNames == {"LEFT", "PLUS", "SPACE", "SPECIAL", "ZEROPAD"}

GetFlags ==
    LET end == Skip(DOMAIN FlagOf, fmt + 1) IN
    [at |-> end, args |-> args, field_width |-> -1, precision |-> -1,
     flags |-> {FlagOf[At(i)] : i \in (fmt + 1)..(end - 1)}]

\* -w as an int: the least int is its own negation.
Negated(w) == IF w = -(WordSize \div 2) THEN w ELSE -w

\* (Slip: the digits are not skipped.)
GetWidthKeeps(d) ==
    IF is_digit(At(d.at)) THEN [d EXCEPT !.field_width = skip_atoi(d.at).value] ELSE d

\* A '*' takes an argument, and fmt stays on it.
GetWidth(d) ==
    CASE is_digit(At(d.at)) ->
            [d EXCEPT !.field_width = skip_atoi(d.at).value, !.at = skip_atoi(@).at]
      [] At(d.at) = "*" ->
            LET w == Signed(va_arg(d.args)) IN
            [d EXCEPT !.field_width = IF w < 0 THEN Negated(w) ELSE w,
                      !.flags = IF w < 0 THEN @ \cup {"LEFT"} ELSE @,
                      !.args = @ + 1]
      [] OTHER -> d

\* The same behind a '.', where a missing or negative number counts as 0.
GetPrecision(d) ==
    LET i == d.at + 1 IN
    CASE At(d.at) # "." -> d
      [] At(d.at) = "." /\ is_digit(At(i)) ->
            [d EXCEPT !.precision = Max({0, skip_atoi(i).value}), !.at = skip_atoi(i).at]
      [] At(d.at) = "." /\ At(i) = "*" ->
            [d EXCEPT !.precision = Max({0, Signed(va_arg(d.args))}),
                      !.args = @ + 1, !.at = i]
      [] OTHER -> [d EXCEPT !.precision = 0, !.at = i]

\* The qualifier is read and never used.
GetQualifier(d) == IF At(d.at) \in {"h", "l", "L"} THEN [d EXCEPT !.at = @ + 1] ELSE d

Directive == GetQualifier(GetPrecision(GetWidth(GetFlags)))

-----------------------------------------------------------------------------
(* The conversions.  Their loops count a width or a precision down in an   *)
(* int; here they count in integers.  The two differ only when a counter   *)
(* passes the least int, which takes a width or a precision of about 2^31. *)

Pad(c, n) == [i \in 1..n |-> c]

\* The digits that repeated divl by base leaves for the word n > 0, most
\* significant first: divl is unsigned whatever the type of num.
DivideDown(n, base) ==
    LET digits[k \in 0..n] ==
            IF k = 0 THEN <<>> ELSE Append(digits[k \div base], k % base)
    IN  digits[n]

\* (Slips: every number is taken for a signed one; the sign takes no place of
\* the field.)
NegativeAny(num, type) == Signed(num) < 0
RoomWide(size, sign, prefix, precision, tmp) ==
    size - Len(prefix) - Max({precision, Len(tmp)})

Negative(num, type) == "SIGN" \in type /\ Signed(num) < 0
Room(size, sign, prefix, precision, tmp) ==
    size - Len(sign) - Len(prefix) - Max({precision, Len(tmp)})

\* number(str, num, base, size, precision, type): what it writes at str.
\* digits[33] is the X of the prefix, in the case of the digits.  The negation
\* of the least int is that int again, which divl takes for its absolute value.
number(num, base, size, precision, type) ==
    LET flags  == IF "LEFT" \in type THEN type \ {"ZEROPAD"} ELSE type
        small  == "SMALL" \in flags
        sign   == IF Negative(num, flags) THEN <<"-">>
                  ELSE IF "PLUS" \in flags THEN <<"+">>
                  ELSE IF "SPACE" \in flags THEN <<"SP">> ELSE <<>>
        prefix == CASE "SPECIAL" \in flags /\ base = 16 ->
                          <<"0", IF small THEN "x" ELSE "X">>
                    [] "SPECIAL" \in flags /\ base = 8 -> <<"0">>
                    [] OTHER -> <<>>
        n      == IF Negative(num, flags) THEN -Signed(num) ELSE num
        tmp    == IF n = 0 THEN <<"0">>
                  ELSE [i \in DOMAIN DivideDown(n, base) |->
                            DigitsOf(small)[DivideDown(n, base)[i] + 1]]
        zeros  == Pad("0", precision - Len(tmp))
        room   == Room(size, sign, prefix, precision, tmp)
    IN  CASE "LEFT" \in flags ->
                sign \o prefix \o zeros \o tmp \o Pad("SP", room)
          [] "ZEROPAD" \in flags ->
                sign \o prefix \o Pad("0", room) \o zeros \o tmp
          [] OTHER ->
                Pad("SP", room) \o sign \o prefix \o zeros \o tmp

\* strlen(s) as lib/string.asm has it: it scans from [ebp], its caller's frame,
\* where it would find s at [ebp+8].  There lies the frame pointer that
\* vsprintf saved, an address below 16 MB: at most three bytes before a zero.
strlen(s) == FrameLengths

\* (unsigned char) of a word: the model tells only the NUL from the rest.
CharOf(w) == IF w % CharSize = 0 THEN "NUL" ELSE "char"

Field(d, text) ==
    IF "LEFT" \in d.flags THEN text \o Pad("SP", d.field_width - Len(text))
                          ELSE Pad("SP", d.field_width - Len(text)) \o text

-----------------------------------------------------------------------------
(* What the writer of the format meant by a piece: [text, conv, flags,     *)
(* width, prec], with conv = "copy" for a piece that is copied.  The       *)
(* pieces of a text that nobody meant as a format are its characters, with *)
(* conv = "chance".                                                        *)

Pieces == [text : Seq(Char), conv : STRING, flags : SUBSET FlagNames,
           width : Int, prec : Int]

Conversions == {"c", "s", "o", "p", "x", "X", "d", "i", "u", "n", "%"}

\* The greatest width and precision that an int can count down: after the sign,
\* the prefix, the digits and the tests of three loops it is still an int.
MostCounted == WordSize \div 2 - 8

\* The numerals of s from i on, up to j, say that the number is v.
Says(s, i, j, v) == /\ \A k \in i..j : is_digit(s[k])
                    /\ v = Atoi(SubSeq(s, i, j)) /\ v \in 0..MostCounted

\* A directive is a '%', flags up to a, a width up to b, a precision up to e,
\* and a qualifier before the conversion; and it is written as it is meant.
IsDirective(piece) ==
    LET t == piece.text
        n == Len(t)
    IN  /\ n >= 2 /\ t[1] = "%" /\ t[n] = piece.conv /\ piece.conv \in Conversions
        /\ \E a \in 2..n, b \in 2..n, e \in 2..n :
            /\ a <= b /\ b <= e /\ n - 1 <= e
            /\ \A k \in 2..(a - 1) : t[k] \in DOMAIN FlagOf
            /\ "*" \in ToSet(t) \/ piece.flags = {FlagOf[t[k]] : k \in 2..(a - 1)}
            /\ \/ a = b /\ piece.width = -1
               \/ a < b /\ t[a] # "0" /\ Says(t, a, b - 1, piece.width)
               \/ b = a + 1 /\ t[a] = "*"
            /\ \/ b = e /\ piece.prec = -1
               \/ b < e /\ t[b] = "." /\ Says(t, b + 1, e - 1, piece.prec)
               \/ e = b + 2 /\ t[b] = "." /\ t[b + 1] = "*"
            /\ e = n - 1 => t[e] \in {"h", "l", "L"}

IsCopied(piece) == /\ piece.conv = "copy" /\ Len(piece.text) = 1
                   /\ piece.text[1] # "%" /\ piece.width = -1

Taken(piece) == (IF piece.conv \in {"copy", "%"} THEN 0 ELSE 1)
                + (IF "*" \in ToSet(piece.text) THEN 1 ELSE 0)

Total(s) == FoldLeft(LAMBDA n, k : n + k, 0, s)

IsMeant(c) == \A i \in DOMAIN c.pieces : c.pieces[i].conv # "chance"

\* Who means a format writes it well and passes the arguments it asks for.
ASSUME CallsWritten ==
    \A c \in Calls :
        /\ c.pieces \in Seq(Pieces) /\ c.args \in Seq(Word)
        /\ IsMeant(c) =>
            /\ \A i \in DOMAIN c.pieces :
                   IsDirective(c.pieces[i]) \/ IsCopied(c.pieces[i])
            /\ Total([i \in DOMAIN c.pieces |-> Taken(c.pieces[i])]) <= Len(c.args)

Meant == IsMeant(call)

-----------------------------------------------------------------------------
Init == /\ call \in Calls
        /\ fmt = 1
        /\ args = 1
        /\ str = <<>>
        /\ stored = Running
        /\ ret = Running
        /\ passes = 0

Pass == /\ ret = Running
        /\ passes' = passes + 1
        /\ UNCHANGED <<call, ret>>

Literal ==
    /\ Pass
    /\ At(fmt) \notin {"%", "NUL"}
    /\ str' = Append(str, At(fmt))
    /\ fmt' = fmt + 1
    /\ UNCHANGED <<args, stored>>

\* A conversion that takes one argument and writes text.
Converts(d, text) ==
    /\ str' = str \o text
    /\ args' = d.args + 1
    /\ fmt' = d.at + 1
    /\ UNCHANGED stored

ConvertChar ==
    LET d == Directive IN
    /\ Pass
    /\ At(fmt) = "%" /\ At(d.at) = "c"
    /\ Converts(d, Field(d, <<CharOf(va_arg(d.args))>>))

ConvertString ==
    LET d == Directive
        s == va_arg(d.args)
    IN  /\ Pass
        /\ At(fmt) = "%" /\ At(d.at) = "s"
        /\ \E n \in strlen(s) :
            LET len == IF d.precision < 0 THEN n ELSE Min({n, d.precision})
            IN  Converts(d, Field(d, SubSeq(Memory[s], 1, len)))

ConvertNumber ==
    LET d == Directive
        c == At(d.at)
        width == IF c = "p" /\ d.field_width = -1 THEN 8 ELSE d.field_width
        type == d.flags \cup CASE c = "x" -> {"SMALL"}
                               [] c \in {"d", "i"} -> {"SIGN"}
                               [] c = "p" /\ d.field_width = -1 -> {"ZEROPAD"}
                               [] OTHER -> {}
        base == CASE c = "o" -> 8 [] c \in {"p", "x", "X"} -> 16 [] OTHER -> 10
    IN  /\ Pass
        /\ At(fmt) = "%" /\ c \in {"o", "p", "x", "X", "d", "i", "u"}
        /\ Converts(d, number(va_arg(d.args), base, width, d.precision, type))

\* %n stores the length so far where its argument points.
StoreCount ==
    LET d == Directive IN
    /\ Pass
    /\ At(fmt) = "%" /\ At(d.at) = "n"
    /\ stored' = Len(str)
    /\ args' = d.args + 1
    /\ fmt' = d.at + 1
    /\ UNCHANGED str

\* (Slip: the NUL that ends the format is stepped over.)
UnknownPassesEnd ==
    LET d == Directive IN
    /\ Pass
    /\ At(fmt) = "%"
    /\ At(d.at) \notin {"c", "s", "o", "p", "x", "X", "d", "i", "u", "n"}
    /\ str' = str \o <<"%", At(d.at)>>
    /\ args' = d.args
    /\ fmt' = d.at + 1
    /\ UNCHANGED stored

\* %%, a directive that is none, or the end of the format within one: there
\* --fmt and the loop's ++fmt meet.
Unknown ==
    LET d == Directive
        c == At(d.at)
    IN  /\ Pass
        /\ At(fmt) = "%"
        /\ c \notin {"c", "s", "o", "p", "x", "X", "d", "i", "u", "n"}
        /\ str' = str \o (IF c = "%" THEN <<>> ELSE <<"%">>)
                      \o (IF c = "NUL" THEN <<>> ELSE <<c>>)
        /\ fmt' = IF c = "NUL" THEN d.at ELSE d.at + 1
        /\ args' = d.args
        /\ UNCHANGED stored

Return ==
    /\ ret = Running
    /\ At(fmt) = "NUL"
    /\ ret' = Len(str)
    /\ UNCHANGED <<call, fmt, args, str, stored, passes>>

Next == \/ Literal
        \/ ConvertChar
        \/ ConvertString
        \/ ConvertNumber
        \/ StoreCount
        \/ Unknown
        \/ Return

Spec == Init /\ [][Next]_vars

-----------------------------------------------------------------------------
\* Whatever the format, even one that ends inside a directive, vsprintf reads
\* no character behind its NUL, and it needs at most one pass for a character:
\* no format makes it loop.
StaysInFormat == /\ fmt <= Len(Format) + 1
                 /\ passes <= Len(Format)

\* Each pass of the loop deals with one piece of the format and with the
\* arguments that belong to it, so no directive reads another one's argument.
\* A '*' is one of those arguments ("it's the next argument").
OnePieceAPass ==
    Meant =>
    /\ fmt = 1 + Len(FlattenSeq([i \in 1..passes |-> call.pieces[i].text]))
    /\ args = 1 + Total([i \in 1..passes |-> Taken(call.pieces[i])])

\* The piece of the next pass, and what that pass writes.
Piece   == call.pieces[passes + 1]
Written == SubSeq(str', Len(str) + 1, Len(str'))
Passing == passes' = passes + 1 /\ Meant

DigitValue(c) == CHOOSE v \in 0..15 : c \in {DigitsOf(TRUE)[v + 1], DigitsOf(FALSE)[v + 1]}
IsDigit(c)    == c \in ToSet(DigitsOf(TRUE)) \cup ToSet(DigitsOf(FALSE))
BaseOf(conv)  == CASE conv = "o" -> 8 [] conv \in {"x", "X", "p"} -> 16 [] OTHER -> 10
Unspaced(s)   == SelectSeq(s, LAMBDA c : c # "SP")

\* The number that a reader of the text s in base b finds there: whatever is no
\* digit, the X of the prefix too, is passed over.
ReadNumber(s, b) ==
    LET value[k \in 0..Len(s)] ==
            IF k = 0 THEN 0
            ELSE IF IsDigit(s[k]) THEN value[k - 1] * b + DigitValue(s[k])
            ELSE value[k - 1]
    IN  IF "-" \in ToSet(s) THEN -value[Len(s)] ELSE value[Len(s)]

\* What a numeric conversion writes is the argument when it is read back,
\* signed for d and i, unsigned for the others, whatever the padding, the
\* sign, the prefix and the precision, the most negative number included.
ReadsBack ==
    [][ Passing /\ Piece.conv \in {"o", "x", "X", "p", "d", "i", "u"} =>
          ReadNumber(Written, BaseOf(Piece.conv)) =
            (IF Piece.conv \in {"d", "i"} THEN Signed(va_arg(args)) ELSE va_arg(args)) ]_vars

\* A conversion fills its field: it is never narrower than the width, wider
\* only by what the value needs, and blanks stand on one side only, on the right
\* with '-'.  A blank for the sign is the first character.  The precision is the
\* least number of digits of an integer and the greatest number of characters of
\* a string (vsprintf.c:103), which is shown from its start.
FieldsFilled ==
    [][ LET n      == Len(Written)
            blank  == {i \in 1..n : Written[i] = "SP"}
            signed == IF Piece.conv # "c" /\ "SPACE" \in Piece.flags THEN {1} ELSE {}
            shown  == Memory[va_arg(args)]
            left   == "LEFT" \in Piece.flags
        IN  /\ Passing /\ Piece.conv \in {"o", "x", "X", "d", "i", "u", "c"} =>
                /\ n >= Piece.width
                /\ n > Piece.width => blank \subseteq signed
                /\ left => \A i \in blank \ signed : i..n \subseteq blank
                /\ ~left => \A i \in blank : 1..i \subseteq blank
                /\ Piece.conv # "c" =>
                      Cardinality({i \in 1..n : IsDigit(Written[i])}) >= Piece.prec
            /\ Passing /\ Piece.conv = "s" =>
                \E k \in 0..n :
                    /\ n = Max({k, Piece.width})
                    /\ Piece.prec >= 0 => k <= Piece.prec
                    /\ Written = IF left THEN SubSeq(shown, 1, k) \o Pad("SP", n - k)
                                         ELSE Pad("SP", n - k) \o SubSeq(shown, 1, k) ]_vars

Power(b, k) ==
    LET power[i \in 0..k] == IF i = 0 THEN 1 ELSE b * power[i - 1] IN power[k]

\* The most digits that a word has in base b.
DigitsIn(b) == CHOOSE k \in 1..WordSize : Power(b, k - 1) < WordSize /\ WordSize <= Power(b, k)

\* The most characters that a piece can stand for, as its writer can tell
\* without the arguments.  The signs and the prefixes count in the field.
MostOf(piece) ==
    LET c      == piece.conv
        prefix == IF "SPECIAL" \notin piece.flags THEN 0
                  ELSE CASE BaseOf(c) = 16 -> 2 [] BaseOf(c) = 8 -> 1 [] OTHER -> 0
        sign   == IF c \in {"d", "i"} \/ piece.flags \cap {"PLUS", "SPACE"} # {}
                  THEN 1 ELSE 0
        digits == Max({piece.prec, DigitsIn(BaseOf(c))})
    IN  CASE c = "n" -> 0
          [] c = "s" -> Max({piece.width, IF piece.prec < 0 THEN 3 ELSE piece.prec})
          [] c \in {"copy", "%", "c"} -> Max({piece.width, 1})
          [] c = "p" -> Max({8, piece.width, sign + prefix + digits})
          [] OTHER -> Max({piece.width, sign + prefix + digits})

\* vsprintf knows nothing of the 1024 characters of printk's buf; what keeps it
\* inside is the format: after each pass it has written no more than the pieces
\* so far can stand for, whatever the arguments are (printk.c, number).
OutputBounded ==
    Meant => Len(str) <= Total([i \in 1..passes |-> MostOf(call.pieces[i])])

\* strlen(const char *s) is declared to be the length of s, and so %s shows s up
\* to its NUL, as printk("%s\n", "now we are in the main function") in main
\* expects.
StringsShown ==
    [][ Passing /\ Piece.conv = "s" /\ Piece.prec < 0 =>
          Unspaced(Written) =
            SubSeq(Memory[va_arg(args)], 1, Index(Memory[va_arg(args)], "NUL") - 1) ]_vars
=============================================================================
