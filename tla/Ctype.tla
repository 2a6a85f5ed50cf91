------------------------------- MODULE Ctype -------------------------------
(***************************************************************************)
(* lib/ctype.c and ctype.h: the table of character classes and the macros  *)
(* that look into it.  A class is a bit of a table entry in the code and a *)
(* member of a set here; characters are their codes.                       *)
(***************************************************************************)
EXTENDS Integers

\* The characters whose entry has a bit.
Marked == [U  |-> 65..90,
           L  |-> 97..122,
           D  |-> 48..57,
           C  |-> (0..31) \cup {127},
           P  |-> (33..47) \cup (58..64) \cup (91..96) \cup (123..126),
           S  |-> (9..13) \cup {32},
           X  |-> (65..70) \cup (97..102),
           SP |-> {32}]

\* (_ctype + 1)[c]: the first entry of the table is that of EOF, -1.
_ctype == [c \in -1..255 |-> {bit \in DOMAIN Marked : c \in Marked[bit]}]

Has(c, bits) == \E bit \in bits : bit \in _ctype[c]

isalnum(c)  == Has(c, {"U", "L", "D"})
isalpha(c)  == Has(c, {"U", "L"})
iscntrl(c)  == Has(c, {"C"})
isdigit(c)  == Has(c, {"D"})
isgraph(c)  == Has(c, {"P", "U", "L", "D"})
islower(c)  == Has(c, {"L"})
isprint(c)  == Has(c, {"P", "U", "L", "D", "SP"})
ispunct(c)  == Has(c, {"P"})
isspace(c)  == Has(c, {"S"})
isupper(c)  == Has(c, {"U"})
isxdigit(c) == Has(c, {"D", "X"})

\* _ctmp = c: a char is signed and has eight bits.
_ctmp(c) == ((c + 128) % 256) - 128

tolower(c) == IF isupper(_ctmp(c)) THEN _ctmp(c) + 32 ELSE _ctmp(c)
toupper(c) == IF islower(_ctmp(c)) THEN _ctmp(c) - 32 ELSE _ctmp(c)
=============================================================================
