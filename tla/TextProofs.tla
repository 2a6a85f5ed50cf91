----------------------------- MODULE TextProofs -----------------------------
(***************************************************************************)
(* Theorems about Vsprintf.tla and Ctype.tla, for words and characters of  *)
(* every size and all calls with a well-written format: no format makes    *)
(* vsprintf read behind its end or loop (FormatInv); each pass of the loop *)
(* deals with the piece that its writer meant and with the arguments of    *)
(* that piece (PieceInv); what has been written never exceeds what the     *)
(* pieces of the format allow (OutputInv); and a conversion fills its      *)
(* field, with a text in which a reader finds the argument again.  The     *)
(* last section is about the character classes.                            *)
(***************************************************************************)
EXTENDS Vsprintf, Ctype, ArithmeticLemmas

-----------------------------------------------------------------------------
(* The format and the directives in it.                                    *)

\* The least number of a set of natural numbers.
LEMMA MinIs ==
    ASSUME NEW T \in SUBSET Nat, T # {}
    PROVE  Min(T) \in T /\ \A n \in T : Min(T) <= n
  <1>1. \E m \in T : \A n \in T : m <= n
    BY LeastElement
  <1> QED
    BY <1>1 DEF Min

\* The greater of two numbers.
LEMMA MaxPair ==
    ASSUME NEW a \in Int, NEW b \in Int
    PROVE  Max({a, b}) = IF a <= b THEN b ELSE a
  <1>1. \E x \in {a, b} : \A y \in {a, b} : x >= y
    OBVIOUS
  <1>2. Max({a, b}) \in {a, b} /\ \A y \in {a, b} : Max({a, b}) >= y
    BY <1>1 DEF Max
  <1> QED
    BY <1>2

\* The lesser of two numbers.
LEMMA MinPair ==
    ASSUME NEW a \in Int, NEW b \in Int
    PROVE  Min({a, b}) = IF a <= b THEN a ELSE b
  <1>1. \E x \in {a, b} : \A y \in {a, b} : x <= y
    OBVIOUS
  <1>2. Min({a, b}) \in {a, b} /\ \A y \in {a, b} : Min({a, b}) <= y
    BY <1>1 DEF Min
  <1> QED
    BY <1>2

\* The texts of the first k pieces, one after the other.
Texts(k)  == [i \in 1..k |-> call.pieces[i].text]
Before(k) == FlattenSeq(Texts(k))

\* The texts of the first pieces of a call are a sequence of sequences.
LEMMA TextsAre ==
    ASSUME call \in Calls
    PROVE  /\ Len(call.pieces) \in Nat
           /\ Format = Before(Len(call.pieces))
           /\ \A i \in 1..Len(call.pieces) :
                call.pieces[i] \in Pieces /\ call.pieces[i].text \in Seq(Char)
           /\ \A k \in 0..Len(call.pieces) : Texts(k) \in Seq(Seq(Char))
  <1> DEFINE n == Len(call.pieces)
  <1>1. call.pieces \in Seq(Pieces)
    BY CallsWritten
  <1>2. n \in Nat /\ DOMAIN call.pieces = 1..n /\ \A i \in 1..n : call.pieces[i] \in Pieces
    BY <1>1
  <1>3. Format = Before(n)
    BY <1>2 DEF Format, Before, Texts
  <1>4. \A i \in 1..n : call.pieces[i].text \in Seq(Char)
    BY <1>2 DEF Pieces
  <1>5. ASSUME NEW k \in 0..n PROVE Texts(k) \in Seq(Seq(Char))
    <2>1. \A i \in 1..k : call.pieces[i].text \in Seq(Char)
      BY <1>2, <1>4
    <2> HIDE DEF n
    <2> QED
      BY <1>2, <2>1, IsASeq DEF Texts
  <1> QED
    BY <1>2, <1>3, <1>4, <1>5

\* A format is a sequence of characters, and only its end is a NUL.
LEMMA FormatIs ==
    ASSUME call \in Calls
    PROVE  /\ Format \in Seq(Char) /\ Len(Format) \in Nat
           /\ \A i \in 1..(Len(Format) + 1) : At(i) = "NUL" <=> i = Len(Format) + 1
  <1>1. Texts(Len(call.pieces)) \in Seq(Seq(Char)) /\ <<>> \in Seq(Char)
    BY TextsAre
  <1>2. FlattenSeq(Texts(Len(call.pieces))) \in Seq(Char)
    BY <1>1, FlattenAppend
  <1>3. Format \in Seq(Char)
    BY <1>2, TextsAre DEF Before
  <1> DEFINE f == Format
             l == Len(f)
  <1>4. l \in Nat /\ \A i \in 1..l : f[i] \in Char
    BY <1>3
  <1>5. \A i : At(i) = IF i <= l THEN f[i] ELSE "NUL"
    BY DEF At
  <1> HIDE DEF f
  <1>6. \A i \in 1..l : f[i] # "NUL"
    BY <1>4 DEF Char
  <1> HIDE DEF l
  <1>7. \A i \in 1..(l + 1) : At(i) = "NUL" <=> i = l + 1
    BY <1>4, <1>5, <1>6
  <1> QED
    BY <1>3, <1>4, <1>7 DEF l, f

\* Skip goes to the first character that is none of C, at the end at the latest.
LEMMA SkipIs ==
    ASSUME call \in Calls, NEW C, "NUL" \notin C, NEW i \in 1..(Len(Format) + 1)
    PROVE  /\ Skip(C, i) \in i..(Len(Format) + 1)
           /\ At(Skip(C, i)) \notin C
           /\ \A j \in i..(Skip(C, i) - 1) : At(j) \in C
  <1> DEFINE l == Len(Format)
             T == {j \in i..(l + 1) : At(j) \notin C}
  <1>1. l \in Nat /\ At(l + 1) = "NUL"
    BY FormatIs
  <1>2. Skip(C, i) = Min(T)
    BY DEF Skip
  <1>3. i \in 1..(l + 1)
    OBVIOUS
  <1> HIDE DEF l
  <1>4. T \in SUBSET Nat /\ l + 1 \in T
    BY <1>1, <1>3
  <1>5. Min(T) \in T /\ \A n \in T : Min(T) <= n
    BY <1>4, MinIs
  <1> DEFINE m == Min(T)
  <1> HIDE DEF m
  <1>6. m \in i..(l + 1) /\ At(m) \notin C /\ \A n \in T : m <= n
    BY <1>5 DEF m
  <1>7. \A j \in i..(m - 1) : At(j) \in C
    BY <1>1, <1>3, <1>6
  <1> QED
    BY <1>2, <1>6, <1>7 DEF m, l

\* The numerals and the flags, one by one.
LEMMA CharacterSets ==
    /\ ToSet(Numerals) = {"0", "1", "2", "3", "4", "5", "6", "7", "8", "9"}
    /\ DOMAIN FlagOf = {"-", "+", "SP", "#", "0"}
  <1>1. ToSet(Numerals) = {Numerals[i] : i \in 1..10}
    BY DEF ToSet, Numerals
  <1>2. {Numerals[i] : i \in 1..10} = {Numerals[1], Numerals[2], Numerals[3], Numerals[4],
            Numerals[5], Numerals[6], Numerals[7], Numerals[8], Numerals[9], Numerals[10]}
    OBVIOUS
  <1>3. {Numerals[1], Numerals[2], Numerals[3], Numerals[4],
            Numerals[5], Numerals[6], Numerals[7], Numerals[8], Numerals[9], Numerals[10]}
        = {"0", "1", "2", "3", "4", "5", "6", "7", "8", "9"}
    BY DEF Numerals
  <1>4. DOMAIN FlagOf = {"-", "+", "SP", "#", "0"}
    BY DEF FlagOf
  <1> QED
    BY <1>1, <1>2, <1>3, <1>4

\* A directive read so far.
IsRead(d) == d = [at |-> d.at, args |-> d.args, field_width |-> d.field_width,
                  precision |-> d.precision, flags |-> d.flags]

\* Reading a directive goes on by a character at least, and never beyond the end.
LEMMA DirectiveAt ==
    ASSUME call \in Calls, fmt \in 1..Len(Format), fmt \in Nat
    PROVE  Directive.at \in (fmt + 1)..(Len(Format) + 1)
  <1> DEFINE l == Len(Format)
             E == (fmt + 1)..(l + 1)
             d1 == GetFlags
             d2 == GetWidth(d1)
             d3 == GetPrecision(d2)
             d4 == GetQualifier(d3)
  <1>1. l \in Nat /\ fmt \in 1..l /\ \A i \in 1..(l + 1) : At(i) = "NUL" <=> i = l + 1
    BY FormatIs
  <1>2. /\ \A i \in 1..(l + 1) : Skip(ToSet(Numerals), i) \in i..(l + 1)
        /\ \A i \in 1..(l + 1) : Skip(DOMAIN FlagOf, i) \in i..(l + 1)
    <2>1. "NUL" \notin ToSet(Numerals) /\ "NUL" \notin DOMAIN FlagOf
      BY CharacterSets
    <2> QED
      BY <2>1, SkipIs
  <1>3. ASSUME NEW i PROVE skip_atoi(i).at = Skip(ToSet(Numerals), i)
    BY DEF skip_atoi
  <1>4. Directive = d4
    BY DEF Directive
  <1> HIDE DEF l
  <1>5. ASSUME NEW i \in E PROVE skip_atoi(i).at \in E
    <2>1. i \in 1..(l + 1) /\ i \in Int /\ fmt + 1 <= i
      BY <1>1
    <2>2. Skip(ToSet(Numerals), i) \in i..(l + 1)
      BY <1>2, <2>1
    <2>3. Skip(ToSet(Numerals), i) \in E
      BY <1>1, <2>1, <2>2
    <2> QED
      BY <1>3, <2>3
  <1>6. \A i \in E : At(i) # "NUL" => i + 1 \in E
    BY <1>1
  <1>7. IsRead(d1) /\ d1.at \in E
    <2>1. fmt + 1 \in 1..(l + 1)
      BY <1>1
    <2>2. Skip(DOMAIN FlagOf, fmt + 1) \in E
      BY <1>2, <2>1
    <2> QED
      BY <2>2 DEF GetFlags, IsRead
  <1> HIDE DEF d1, E
  <1>8. IsRead(d2) /\ d2.at \in E
    <2>1. CASE is_digit(At(d1.at))
      BY <1>5, <1>7, <2>1 DEF GetWidth, IsRead
    <2>2. CASE ~is_digit(At(d1.at)) /\ At(d1.at) = "*"
      BY <1>5, <1>7, <2>2 DEF GetWidth, IsRead
    <2>3. CASE ~is_digit(At(d1.at)) /\ At(d1.at) # "*"
      BY <1>7, <2>3 DEF GetWidth
    <2> QED
      BY <2>1, <2>2, <2>3
  <1> HIDE DEF d2
  <1>9. IsRead(d3) /\ d3.at \in E
    <2>1. CASE At(d2.at) # "."
      BY <1>8, <2>1 DEF GetPrecision
    <2>2. CASE At(d2.at) = "."
      <3>1. d2.at + 1 \in E
        BY <1>6, <1>8, <2>2
      <3>2. skip_atoi(d2.at + 1).at \in E
        BY <1>5, <3>1
      <3> QED
        BY <1>8, <2>2, <3>1, <3>2 DEF GetPrecision, IsRead
    <2> QED
      BY <2>1, <2>2
  <1> HIDE DEF d3
  <1>10. d4.at \in E
    <2>1. CASE At(d3.at) \in {"h", "l", "L"}
      <3>1. d3.at + 1 \in E
        <4>1. At(d3.at) # "NUL"
          BY <2>1
        <4> QED
          BY <1>6, <1>9, <4>1
      <3> QED
        BY <1>9, <2>1, <3>1 DEF GetQualifier, IsRead
    <2>2. CASE At(d3.at) \notin {"h", "l", "L"}
      BY <1>9, <2>2 DEF GetQualifier
    <2> QED
      BY <2>1, <2>2
  <1> QED
    BY <1>4, <1>10 DEF l, E

-----------------------------------------------------------------------------
(* Every format ends.                                                      *)

FormatInv == /\ call \in Calls
             /\ fmt \in 1..(Len(Format) + 1)
             /\ passes \in Nat /\ passes < fmt

\* The format has not been read in the initial states.
LEMMA FormatInvInit == Init => FormatInv
  <1> SUFFICES ASSUME Init PROVE FormatInv
    OBVIOUS
  <1>1. call \in Calls /\ fmt = 1 /\ passes = 0
    BY DEF Init
  <1> QED
    BY <1>1, FormatIs DEF FormatInv

\* A pass goes on in the format, and leaves it at its NUL.
LEMMA PassAdvances ==
    ASSUME FormatInv, Pass, At(fmt) # "NUL"
    PROVE  /\ fmt \in 1..Len(Format)
           /\ Directive.at \in (fmt + 1)..(Len(Format) + 1)
           /\ At(Directive.at) # "NUL" => Directive.at + 1 \in (fmt + 1)..(Len(Format) + 1)
           /\ fmt' \in (fmt + 1)..(Len(Format) + 1) => FormatInv'
  <1> DEFINE l == Len(Format)
             a == Directive.at
  <1>1. /\ l \in Nat /\ fmt \in 1..(l + 1)
        /\ \A i \in 1..(l + 1) : At(i) = "NUL" <=> i = l + 1
    BY FormatIs DEF FormatInv
  <1>2. fmt \in 1..l
    <2> HIDE DEF l
    <2> QED
      BY <1>1
  <1>3. a \in (fmt + 1)..(l + 1)
    BY <1>2, DirectiveAt DEF FormatInv
  <1>4. ASSUME fmt' \in (fmt + 1)..(l + 1) PROVE FormatInv'
    <2>1. call' = call /\ passes' = passes + 1
      BY DEF Pass
    <2>2. Format' = Format
      BY <2>1 DEF Format
    <2>3. passes \in Nat /\ passes < fmt /\ call \in Calls
      BY DEF FormatInv
    <2>4. Len(Format)' = l
      BY <2>2
    <2> HIDE DEF l
    <2>5. fmt' \in 1..(l + 1) /\ passes' \in Nat /\ passes' < fmt'
      BY <1>1, <1>2, <1>4, <2>1, <2>3
    <2> QED
      BY <2>1, <2>3, <2>4, <2>5 DEF FormatInv
  <1>5. ASSUME At(a) # "NUL" PROVE a + 1 \in (fmt + 1)..(l + 1)
    <2> HIDE DEF l, a
    <2> QED
      BY <1>1, <1>2, <1>3, <1>5
  <1> QED
    BY <1>2, <1>3, <1>4, <1>5

\* Every pass stays inside the format.
LEMMA FormatInvNext == FormatInv /\ [Next]_vars => FormatInv'
  <1> SUFFICES ASSUME FormatInv, [Next]_vars PROVE FormatInv'
    OBVIOUS
  <1> DEFINE l == Len(Format)
             a == Directive.at
  <1>1. CASE Literal
    <2>1. Pass /\ At(fmt) # "NUL" /\ fmt' = fmt + 1
      BY <1>1 DEF Literal
    <2>2. fmt \in 1..l
      BY <2>1, PassAdvances
    <2>3. l \in Nat
      BY FormatIs DEF FormatInv
    <2>4. fmt' \in (fmt + 1)..(l + 1)
      <3> HIDE DEF l
      <3> QED
        BY <2>1, <2>2, <2>3
    <2> QED
      BY <2>1, <2>4, PassAdvances
  <1>2. CASE ConvertChar \/ ConvertString \/ ConvertNumber \/ StoreCount
    <2>1. Pass /\ At(fmt) = "%" /\ At(a) # "NUL" /\ fmt' = a + 1
      <3>1. CASE ConvertChar
        BY <3>1 DEF ConvertChar, Converts
      <3>2. CASE ConvertString
        BY <3>2 DEF ConvertString, Converts
      <3>3. CASE ConvertNumber
        BY <3>3 DEF ConvertNumber, Converts
      <3>4. CASE StoreCount
        BY <3>4 DEF StoreCount
      <3> QED
        BY <1>2, <3>1, <3>2, <3>3, <3>4
    <2> QED
      BY <2>1, PassAdvances
  <1>3. CASE Unknown
    <2>1. Pass /\ At(fmt) = "%" /\ fmt' = IF At(a) = "NUL" THEN a ELSE a + 1
      BY <1>3 DEF Unknown
    <2>2. fmt' \in (fmt + 1)..(l + 1)
      BY <2>1, PassAdvances
    <2> QED
      BY <2>1, <2>2, PassAdvances
  <1>4. CASE Return \/ UNCHANGED vars
    <2>1. UNCHANGED <<call, fmt, passes>>
      BY <1>4 DEF Return, vars
    <2> QED
      BY <2>1 DEF FormatInv, Format
  <1> QED
    BY <1>1, <1>2, <1>3, <1>4 DEF Next

\* FormatInv holds in every state.
LEMMA FormatInvAlways == Spec => []FormatInv
  BY FormatInvInit, FormatInvNext, PTL DEF Spec

\* vsprintf.c:107, 227: no format, whatever its characters, is read behind its
\* NUL, and none makes vsprintf loop for longer than it has characters.
THEOREM FormatsEnd == Spec => []StaysInFormat
  <1>1. FormatInv => StaysInFormat
    <2> SUFFICES ASSUME FormatInv PROVE StaysInFormat
      OBVIOUS
    <2>1. Len(Format) \in Nat
      BY FormatIs DEF FormatInv
    <2> QED
      BY <2>1 DEF FormatInv, StaysInFormat
  <1> QED
    BY <1>1, FormatInvAlways, PTL

-----------------------------------------------------------------------------
(* Totals.                                                                 *)

\* A non-empty set of numbers from 1 to n has a greatest one.
LEMMA MaxOf ==
    ASSUME NEW n \in Nat, NEW u \in SUBSET (1..n), u # {}
    PROVE  Max(u) \in u /\ \A y \in u : y <= Max(u)
  <1> DEFINE T == {n - y : y \in u}
  <1>1. T \in SUBSET Nat /\ T # {}
    <2>1. \A y \in u : n - y \in Nat
      OBVIOUS
    <2> QED
      BY <2>1
  <1>2. PICK m \in T : \A y \in T : m <= y
    BY <1>1, LeastElement
  <1>3. PICK x \in u : m = n - x
    BY <1>2
  <1>4. ASSUME NEW y \in u PROVE x >= y
    <2>1. n - x <= n - y
      BY <1>2, <1>3
    <2> QED
      BY <2>1
  <1>5. Max(u) \in u /\ \A y \in u : Max(u) >= y
    BY <1>4 DEF Max
  <1> QED
    BY <1>5

\* The greatest number of 1..k, and what is left without it.
LEMMA MaxOfRange ==
    ASSUME NEW k \in Nat \ {0}
    PROVE  Max(1..k) = k /\ (1..k) \ {k} = 1..(k - 1)
  <1>1. 1..k \in SUBSET (1..k) /\ 1..k # {} /\ k \in Nat /\ k \in 1..k
    OBVIOUS
  <1>2. Max(1..k) \in 1..k /\ k <= Max(1..k)
    BY <1>1, MaxOf
  <1> QED
    BY <1>2

\* f is the function that the fold of Total computes the sums of s with.
Sums(f, s, n) ==
    f = [u \in SUBSET (1..n) |-> IF u = {} THEN 0 ELSE f[u \ {Max(u)}] + s[Max(u)]]

\* There is one for every n,
LEMMA SumsExist ==
    ASSUME NEW s, NEW n \in Nat
    PROVE  \E f : Sums(f, s, n)
  <1> DEFINE T == {k \in Nat : \E f : Sums(f, s, k)}
  <1>1. 0 \in T
    <2> DEFINE g == [u \in SUBSET (1..0) |-> 0]
    <2>1. ASSUME NEW u \in SUBSET (1..0)
          PROVE  g[u] = IF u = {} THEN 0 ELSE g[u \ {Max(u)}] + s[Max(u)]
      <3>1. u = {}
        OBVIOUS
      <3> QED
        BY <3>1
    <2>2. Sums(g, s, 0)
      BY <2>1 DEF Sums
    <2> QED
      BY <2>2
  <1>2. ASSUME NEW k \in Nat, k \in T PROVE k + 1 \in T
    <2>1. PICK f : Sums(f, s, k)
      BY <1>2
    <2> DEFINE g == [u \in SUBSET (1..(k + 1)) |->
                       IF u \in SUBSET (1..k) THEN f[u]
                       ELSE IF u = {} THEN 0 ELSE f[u \ {Max(u)}] + s[Max(u)]]
    <2>2. ASSUME NEW u \in SUBSET (1..(k + 1))
          PROVE  g[u] = IF u = {} THEN 0 ELSE g[u \ {Max(u)}] + s[Max(u)]
      <3>1. u # {} => u \ {Max(u)} \in SUBSET (1..k)
        <4>1. SUFFICES ASSUME u # {} PROVE u \ {Max(u)} \in SUBSET (1..k)
          OBVIOUS
        <4>2. Max(u) \in u /\ \A y \in u : y <= Max(u)
          BY <4>1, k + 1 \in Nat, MaxOf
        <4> DEFINE x == Max(u)
        <4> HIDE DEF x
        <4>3. x \in 1..(k + 1) /\ \A y \in u : y \in 1..(k + 1) /\ y <= x
          BY <4>2 DEF x
        <4>4. ASSUME NEW y \in u, y # x PROVE y \in 1..k
          BY <4>3, <4>4
        <4> QED
          BY <4>4 DEF x
      <3>2. u # {} => g[u \ {Max(u)}] = f[u \ {Max(u)}]
        BY <3>1
      <3>3. u \in SUBSET (1..k) =>
              f[u] = IF u = {} THEN 0 ELSE f[u \ {Max(u)}] + s[Max(u)]
        BY <2>1 DEF Sums
      <3> QED
        BY <3>2, <3>3
    <2> HIDE DEF g
    <2>3. Sums(g, s, k + 1)
      <3>1. g = [u \in SUBSET (1..(k + 1)) |-> g[u]]
        BY DEF g
      <3> QED
        BY <2>2, <3>1 DEF Sums
    <2> QED
      BY <2>3
  <1> HIDE DEF T
  <1>3. Nat \subseteq T
    BY <1>1, <1>2, SetInduction
  <1> QED
    BY <1>3 DEF T

\* its values at the initial segments are integers, and do not depend on how far
\* it goes.
LEMMA SumsAgree ==
    ASSUME NEW s, NEW n \in Nat, \A i \in 1..n : s[i] \in Int,
           NEW t, NEW m \in Nat, n <= m, \A i \in 1..n : t[i] = s[i],
           NEW f, Sums(f, s, n), NEW g, Sums(g, t, m)
    PROVE  f[1..n] = g[1..n] /\ f[1..n] \in Int
  <1> DEFINE T == {k \in Nat : k <= n => f[1..k] = g[1..k] /\ f[1..k] \in Int}
  <1>1. ASSUME NEW k \in Nat, k + 1 <= n
        PROVE  f[1..(k + 1)] = f[1..k] + s[k + 1] /\ g[1..(k + 1)] = g[1..k] + s[k + 1]
    <2>1. /\ 1..(k + 1) \in SUBSET (1..n) /\ 1..(k + 1) \in SUBSET (1..m) /\ 1..(k + 1) # {}
          /\ k + 1 \in Nat \ {0} /\ (k + 1) - 1 = k /\ t[k + 1] = s[k + 1]
      BY <1>1
    <2>2. Max(1..(k + 1)) = k + 1 /\ (1..(k + 1)) \ {k + 1} = 1..k
      BY <2>1, MaxOfRange
    <2>3. f[1..(k + 1)] = f[(1..(k + 1)) \ {Max(1..(k + 1))}] + s[Max(1..(k + 1))]
      BY <2>1 DEF Sums
    <2>4. g[1..(k + 1)] = g[(1..(k + 1)) \ {Max(1..(k + 1))}] + t[Max(1..(k + 1))]
      BY <2>1 DEF Sums
    <2> QED
      BY <2>1, <2>2, <2>3, <2>4
  <1>2. 0 \in T
    <2>1. 1..0 \in SUBSET (1..n) /\ 1..0 \in SUBSET (1..m) /\ 1..0 = {}
      OBVIOUS
    <2>2. f[1..0] = 0 /\ g[1..0] = 0
      BY <2>1 DEF Sums
    <2> QED
      BY <2>2
  <1>3. ASSUME NEW k \in Nat, k \in T PROVE k + 1 \in T
    BY <1>1, <1>3
  <1> HIDE DEF T
  <1>4. Nat \subseteq T
    BY <1>2, <1>3, SetInduction
  <1>5. n \in T
    BY <1>4
  <1> QED
    BY <1>5 DEF T

\* Total is its last value.
LEMMA TotalIs ==
    ASSUME NEW s \in Seq(Int)
    PROVE  \E f : Sums(f, s, Len(s)) /\ Total(s) = f[1..Len(s)]
  <1> DEFINE n == Len(s)
             fs == CHOOSE f : f = [u \in SUBSET (1..n) |->
                                     IF u = {} THEN 0 ELSE f[u \ {Max(u)}] + s[Max(u)]]
  <1>1. n \in Nat /\ DOMAIN s = 1..n
    OBVIOUS
  <1>2. Sums(fs, s, n)
    <2>1. PICK f : Sums(f, s, n)
      BY <1>1, SumsExist
    <2> QED
      BY <2>1 DEF Sums
  <1>3. Total(s) = fs[1..n]
    BY <1>1 DEF Total, FoldLeft, MapThenFoldSet
  <1> QED
    BY <1>2, <1>3

\* One more piece adds its share to the total.
LEMMA TotalNext ==
    ASSUME NEW s \in Seq(Int), NEW x \in Int
    PROVE  Total(s) \in Int /\ Total(Append(s, x)) = Total(s) + x
  <1> DEFINE t == Append(s, x)
             n == Len(s)
  <1>1. /\ n \in Nat /\ t \in Seq(Int) /\ Len(t) = n + 1
        /\ t[n + 1] = x /\ \A i \in 1..n : t[i] = s[i] /\ s[i] \in Int
    BY AppendProperties, ElementOfSeq
  <1>2. PICK f : Sums(f, s, n) /\ Total(s) = f[1..n]
    BY TotalIs
  <1>3. PICK g : Sums(g, t, n + 1) /\ Total(t) = g[1..(n + 1)]
    BY <1>1, TotalIs
  <1> HIDE DEF t, n
  <1>4. f[1..n] = g[1..n] /\ f[1..n] \in Int
    <2>1. n + 1 \in Nat /\ n <= n + 1
      BY <1>1
    <2> QED
      BY <1>1, <1>2, <1>3, <2>1, SumsAgree
  <1>5. g[1..(n + 1)] = g[1..n] + x
    <2>1. 1..(n + 1) \in SUBSET (1..(n + 1)) /\ 1..(n + 1) # {}
      <3>1. 1 \in 1..(n + 1)
        BY <1>1
      <3> QED
        BY <3>1
    <2>2. Max(1..(n + 1)) = n + 1 /\ (1..(n + 1)) \ {n + 1} = 1..n
      <3>1. n + 1 \in Nat \ {0} /\ (n + 1) - 1 = n
        BY <1>1
      <3> QED
        BY <3>1, MaxOfRange
    <2>3. g[1..(n + 1)] = g[(1..(n + 1)) \ {Max(1..(n + 1))}] + t[Max(1..(n + 1))]
      BY <1>3, <2>1 DEF Sums
    <2> QED
      BY <1>1, <2>2, <2>3
  <1> QED
    BY <1>2, <1>3, <1>4, <1>5 DEF t

-----------------------------------------------------------------------------
(* The pieces of a format that is meant as one.                            *)

\* One more piece: its text follows.
LEMMA BeforeNext ==
    ASSUME call \in Calls, NEW k \in 0..(Len(call.pieces) - 1)
    PROVE  /\ Before(k) \in Seq(Char)
           /\ Before(k + 1) = Before(k) \o call.pieces[k + 1].text
  <1> DEFINE n == Len(call.pieces)
             x == call.pieces[k + 1].text
  <1>1. n \in Nat /\ \A i \in 1..n : call.pieces[i].text \in Seq(Char)
    BY TextsAre
  <1>2. k \in 0..(n - 1)
    OBVIOUS
  <1>3. \A m \in 0..n : Texts(m) \in Seq(Seq(Char))
    BY TextsAre
  <1> HIDE DEF n
  <1>4. k \in 0..n /\ k + 1 \in 0..n /\ k + 1 \in 1..n /\ k \in Nat
    BY <1>1, <1>2
  <1>5. Texts(k) \in Seq(Seq(Char)) /\ Texts(k + 1) \in Seq(Seq(Char)) /\ x \in Seq(Char)
    BY <1>1, <1>3, <1>4
  <1>6. Texts(k + 1) = Append(Texts(k), x)
    <2>1. Len(Texts(k)) = k /\ Len(Texts(k + 1)) = k + 1
      BY <1>4, <1>5 DEF Texts
    <2>2. /\ Append(Texts(k), x) \in Seq(Seq(Char)) /\ Len(Append(Texts(k), x)) = k + 1
          /\ Append(Texts(k), x)[k + 1] = x
          /\ \A i \in 1..k : Append(Texts(k), x)[i] = Texts(k)[i]
      BY <1>5, <2>1, AppendProperties
    <2>3. ASSUME NEW i \in 1..(k + 1) PROVE Texts(k + 1)[i] = Append(Texts(k), x)[i]
      <3>1. CASE i = k + 1
        BY <2>2, <3>1 DEF Texts
      <3>2. CASE i # k + 1
        <4>1. i \in 1..k
          BY <1>4, <3>2
        <4>2. Texts(k + 1)[i] = Texts(k)[i]
          BY <4>1 DEF Texts
        <4> QED
          BY <2>2, <4>1, <4>2
      <3> QED
        BY <3>1, <3>2
    <2> HIDE DEF x
    <2> QED
      BY <1>5, <2>1, <2>2, <2>3, SeqEqual
  <1> HIDE DEF x
  <1>7. /\ FlattenSeq(Texts(k)) \in Seq(Char)
        /\ FlattenSeq(Append(Texts(k), x)) = FlattenSeq(Texts(k)) \o x
    BY <1>5, FlattenAppend
  <1> QED
    BY <1>6, <1>7 DEF Before, x

\* What stands before a piece is a text.
LEMMA BeforeIs ==
    ASSUME call \in Calls, NEW k \in 0..Len(call.pieces)
    PROVE  Before(k) \in Seq(Char) /\ Len(Before(k)) \in Nat
  <1>1. Texts(k) \in Seq(Seq(Char)) /\ <<>> \in Seq(Char)
    BY TextsAre
  <1>2. FlattenSeq(Texts(k)) \in Seq(Char)
    BY <1>1, FlattenAppend
  <1> QED
    BY <1>2 DEF Before

\* What precedes a piece stays where it is.
LEMMA BeforeStays ==
    ASSUME call \in Calls, NEW k \in 0..Len(call.pieces)
    PROVE  /\ Len(Before(k)) <= Len(Format)
           /\ \A i \in 1..Len(Before(k)) : At(i) = Before(k)[i]
  <1> DEFINE n == Len(call.pieces)
             b == Before(k)
             l == Len(b)
             Stays(m) == l <= Len(Before(m)) /\ \A i \in 1..l : Before(m)[i] = b[i]
             T == {j \in Nat : k + j <= n => Stays(k + j)}
  <1>1. n \in Nat /\ k \in 0..n /\ Format = Before(n)
    BY TextsAre
  <1>2. b \in Seq(Char) /\ l \in Nat
    BY BeforeIs
  <1>3. 0 \in T
    BY <1>1, <1>2
  <1>4. ASSUME NEW j \in Nat, j \in T PROVE j + 1 \in T
    <2> SUFFICES ASSUME k + (j + 1) <= n PROVE Stays(k + (j + 1))
      OBVIOUS
    <2> DEFINE m == k + j
               x == call.pieces[m + 1].text
    <2>1. m \in 0..(n - 1) /\ m + 1 \in 1..n /\ k + (j + 1) = m + 1 /\ m <= n
      <3> HIDE DEF n
      <3> QED
        BY <1>1
    <2>2. Stays(m)
      BY <1>4, <2>1
    <2>3. Before(m) \in Seq(Char) /\ Before(m + 1) = Before(m) \o x
      BY <2>1, BeforeNext
    <2>4. x \in Seq(Char)
      BY <2>1, TextsAre
    <2> DEFINE bm == Before(m)
               lm == Len(bm)
               lx == Len(x)
    <2> HIDE DEF m, x, b
    <2>5. lm \in Nat /\ lx \in Nat /\ Len(bm \o x) = lm + lx
          /\ \A i \in 1..lm : (bm \o x)[i] = bm[i]
      BY <2>3, <2>4, ConcatProperties
    <2>6. l <= lm /\ \A i \in 1..l : bm[i] = b[i]
      BY <2>2
    <2>7. Before(m + 1) = bm \o x
      BY <2>3
    <2>8. l <= Len(Before(m + 1))
      <3>1. Len(Before(m + 1)) = lm + lx
        BY <2>5, <2>7
      <3> HIDE DEF lm, lx, l
      <3> QED
        BY <1>2, <2>5, <2>6, <3>1
    <2>9. ASSUME NEW i \in 1..l PROVE Before(m + 1)[i] = b[i]
      <3>1. i \in 1..lm
        <4> HIDE DEF lm, l
        <4> QED
          BY <1>2, <2>5, <2>6
      <3> QED
        BY <2>5, <2>6, <2>7, <3>1
    <2>10. Stays(m + 1)
      BY <2>8, <2>9
    <2> HIDE DEF Stays
    <2> QED
      BY <2>1, <2>10
  <1> HIDE DEF T
  <1>5. Nat \subseteq T
    BY <1>3, <1>4, SetInduction
  <1>6. Stays(n)
    <2>1. n - k \in T /\ k + (n - k) = n /\ n <= n
      <3> HIDE DEF n
      <3> QED
        BY <1>1, <1>5
    <2> QED
      BY <2>1 DEF T
  <1>7. Len(Format) \in Nat
    BY FormatIs
  <1>8. ASSUME NEW i \in 1..l PROVE At(i) = b[i]
    <2>1. i <= Len(Format)
      BY <1>1, <1>2, <1>6, <1>7
    <2> QED
      BY <1>1, <1>6, <2>1 DEF At
  <1> QED
    BY <1>1, <1>6, <1>8

\* Where the next piece stands.
LEMMA PieceStands ==
    ASSUME call \in Calls, NEW k \in 0..(Len(call.pieces) - 1)
    PROVE  LET b == Len(Before(k))
               t == call.pieces[k + 1].text
           IN  /\ b \in Nat /\ t \in Seq(Char) /\ Len(t) \in Nat
               /\ Len(Before(k + 1)) = b + Len(t)
               /\ b + Len(t) <= Len(Format)
               /\ \A j \in 1..Len(t) : At(b + j) = t[j]
  <1> DEFINE n == Len(call.pieces)
             f == Before(k)
             g == Before(k + 1)
             b == Len(f)
             t == call.pieces[k + 1].text
             c == Len(t)
  <1>1. n \in Nat /\ k \in 0..(n - 1)
    BY TextsAre
  <1>2. k + 1 \in 1..n /\ k + 1 \in 0..n
    <2> HIDE DEF n
    <2> QED
      BY <1>1
  <1>3. f \in Seq(Char) /\ g = f \o t
    BY BeforeNext
  <1>4. t \in Seq(Char)
    BY <1>2, TextsAre
  <1>5. Len(g) <= Len(Format) /\ \A i \in 1..Len(g) : At(i) = g[i]
    BY <1>2, BeforeStays
  <1> HIDE DEF f, g, t
  <1>6. /\ b \in Nat /\ c \in Nat /\ Len(f \o t) = b + c
        /\ \A i \in 1..c : (f \o t)[b + i] = t[i]
    <2>1. b \in Nat /\ c \in Nat /\ Len(f \o t) = b + c
      BY <1>3, <1>4, ConcatProperties
    <2>2. ASSUME NEW i \in 1..c PROVE (f \o t)[b + i] = t[i]
      <3>1. b + i \in (b + 1)..(b + c) /\ (b + i) - b = i
        <4> HIDE DEF b, c
        <4> QED
          BY <2>1
      <3>2. (f \o t)[b + i] = t[(b + i) - b]
        <4>1. \A j \in (Len(f) + 1)..(Len(f) + Len(t)) : (f \o t)[j] = t[j - Len(f)]
          BY <1>3, <1>4
        <4> QED
          BY <3>1, <4>1
      <3> QED
        BY <3>1, <3>2
    <2> QED
      BY <2>1, <2>2
  <1>7. ASSUME NEW j \in 1..c PROVE At(b + j) = t[j]
    <2>1. b + j \in 1..(b + c)
      <3> HIDE DEF b, c
      <3> QED
        BY <1>6
    <2> QED
      BY <1>3, <1>5, <1>6, <2>1
  <1>8. b \in Nat /\ t \in Seq(Char) /\ c \in Nat /\ Len(g) = b + c /\ b + c <= Len(Format)
    BY <1>3, <1>4, <1>5, <1>6
  <1> QED
    BY <1>7, <1>8 DEF f, g, t

\* Skip ends at the first character that is not of C.
LEMMA SkipTo ==
    ASSUME call \in Calls, NEW C, "NUL" \notin C, NEW i \in 1..(Len(Format) + 1),
           NEW m \in i..(Len(Format) + 1), At(m) \notin C, \A j \in i..(m - 1) : At(j) \in C
    PROVE  Skip(C, i) = m
  <1> DEFINE l == Len(Format)
             p == Skip(C, i)
  <1>1. p \in i..(l + 1) /\ At(p) \notin C /\ \A j \in i..(p - 1) : At(j) \in C
    BY SkipIs
  <1>2. l \in Nat /\ i \in 1..(l + 1) /\ m \in i..(l + 1)
    BY FormatIs
  <1> HIDE DEF l, p
  <1>3. p \in Int /\ m \in Int /\ ~(p < m) /\ ~(m < p)
    <2>1. p \in Int /\ m \in Int
      BY <1>1, <1>2
    <2>2. ASSUME p < m PROVE FALSE
      <3>1. p \in i..(m - 1)
        BY <1>1, <1>2, <2>2
      <3> QED
        BY <1>1, <3>1
    <2>3. ASSUME m < p PROVE FALSE
      <3>1. m \in i..(p - 1)
        BY <1>1, <1>2, <2>3
      <3> QED
        BY <1>1, <3>1
    <2> QED
      BY <2>1, <2>2, <2>3
  <1>4. p = m
    BY <1>3
  <1> QED
    BY <1>4 DEF p

\* The text t stands behind the first b characters of the format.
Stands(t, b) == /\ b \in Nat /\ t \in Seq(Char) /\ Len(t) \in Nat
                /\ b + Len(t) <= Len(Format)
                /\ \A j \in 1..Len(t) : At(b + j) = t[j]

\* A part of the format within a piece is that part of its text.
LEMMA SubText ==
    ASSUME call \in Calls, NEW t, NEW b, Stands(t, b),
           NEW i \in 1..Len(t), NEW j \in (i - 1)..Len(t)
    PROVE  SubSeq(Format, b + i, b + j) = SubSeq(t, i, j)
  <1> DEFINE f == Format
             l == Len(f)
             n == Len(t)
             u == SubSeq(f, b + i, b + j)
             v == SubSeq(t, i, j)
             d == j - i + 1
  <1>1. f \in Seq(Char) /\ l \in Nat
    BY FormatIs
  <1>2. /\ b \in Nat /\ t \in Seq(Char) /\ n \in Nat /\ b + n <= l
        /\ \A k \in 1..n : At(b + k) = t[k]
    BY DEF Stands
  <1>3. i \in 1..n /\ j \in (i - 1)..n
    OBVIOUS
  <1> HIDE DEF l, n
  <1>4. /\ b + i \in 1..(l + 1) /\ b + j \in (b + i - 1)..l /\ (b + j) - (b + i) + 1 = d
        /\ i \in 1..(n + 1) /\ d \in Nat
    BY <1>1, <1>2, <1>3
  <1>5. /\ v \in Seq(Char) /\ Len(v) = d /\ \A k \in 1..d : v[k] = t[i + k - 1]
    <2>1. i \in 1..(Len(t) + 1) /\ j \in (i - 1)..Len(t)
      BY <1>3, <1>4 DEF n
    <2> QED
      BY <1>2, <2>1, SubSeqProperties
  <1>6. /\ u \in Seq(Char) /\ Len(u) = d /\ \A k \in 1..d : u[k] = f[(b + i) + k - 1]
    <2>1. b + i \in 1..(Len(f) + 1) /\ b + j \in ((b + i) - 1)..Len(f)
      BY <1>4 DEF l
    <2> DEFINE x == b + i
               y == b + j
    <2>2. x \in 1..(Len(f) + 1) /\ y \in (x - 1)..Len(f)
      BY <2>1
    <2> HIDE DEF x, y
    <2>3. /\ SubSeq(f, x, y) \in Seq(Char) /\ Len(SubSeq(f, x, y)) = y - x + 1
          /\ \A k \in 1..(y - x + 1) : SubSeq(f, x, y)[k] = f[x + k - 1]
      BY <1>1, <2>2, SubSeqProperties
    <2>4. y - x + 1 = d
      BY <1>4 DEF x, y
    <2> QED
      BY <2>3, <2>4 DEF x, y
  <1>7. ASSUME NEW k \in 1..d PROVE u[k] = v[k]
    <2>1. i + k - 1 \in 1..n /\ b + (i + k - 1) = (b + i) + k - 1 /\ b + (i + k - 1) <= l
      BY <1>1, <1>2, <1>3, <1>4
    <2>2. At(b + (i + k - 1)) = f[b + (i + k - 1)]
      BY <2>1 DEF At, l
    <2> QED
      BY <1>2, <1>5, <1>6, <2>1, <2>2
  <1> HIDE DEF u, v, d
  <1>8. u = v
    BY <1>5, <1>6, <1>7, SeqEqual
  <1> QED
    BY <1>8 DEF u, v

\* The characters that end the parts of a directive.
LEMMA Ends ==
    /\ \A c \in {"h", "l", "L", "."} \cup Conversions :
          c # "NUL" /\ c # "*" /\ c \notin DOMAIN FlagOf /\ c \notin ToSet(Numerals)
    /\ \A c \in {"h", "l", "L"} \cup Conversions : c # "."
    /\ \A c \in Conversions : c \notin {"h", "l", "L"}
    /\ \A c \in ToSet(Numerals) : c # "*" /\ (c # "0" => c \notin DOMAIN FlagOf)
  BY CharacterSets DEF Conversions

\* No numerals make 0.
LEMMA AtoiEmpty == Atoi(<<>>) = 0
  <1> DEFINE it == CHOOSE f : f = [u \in SUBSET {} |->
                      IF u = {} THEN 0
                      ELSE f[u \ {Max(u)}] * 10 + Index(Numerals, <<>>[Max(u)]) - 1]
  <1>1. it = [u \in SUBSET {} |->
                IF u = {} THEN 0
                ELSE it[u \ {Max(u)}] * 10 + Index(Numerals, <<>>[Max(u)]) - 1]
    <2> DEFINE g == [u \in SUBSET {} |-> 0]
    <2>1. g = [u \in SUBSET {} |->
                IF u = {} THEN 0
                ELSE g[u \ {Max(u)}] * 10 + Index(Numerals, <<>>[Max(u)]) - 1]
      OBVIOUS
    <2> QED
      BY <2>1
  <1>2. DOMAIN <<>> = {}
    OBVIOUS
  <1>3. Atoi(<<>>) = it[{}]
    BY <1>2 DEF Atoi, FoldLeft, MapThenFoldSet
  <1> HIDE DEF it
  <1> QED
    BY <1>1, <1>3

\* A directive that is written as it is meant is read as it is meant.
LEMMA DirectiveIs ==
    ASSUME call \in Calls, NEW piece, IsDirective(piece), "*" \notin ToSet(piece.text),
           fmt \in Nat \ {0}, Stands(piece.text, fmt - 1)
    PROVE  /\ At(fmt) = "%"
           /\ At(fmt + Len(piece.text) - 1) = piece.conv
           /\ Directive = [at |-> fmt + Len(piece.text) - 1, args |-> args,
                           field_width |-> piece.width, precision |-> piece.prec,
                           flags |-> piece.flags]
  <1> DEFINE l == Len(Format)
             t == piece.text
             n == Len(t)
             q == fmt - 1
             N == ToSet(Numerals)
             F == DOMAIN FlagOf
  <1>1. /\ q \in Nat /\ n \in Nat /\ q + n <= l /\ l \in Nat /\ t \in Seq(Char)
        /\ \A j \in 1..n : At(q + j) = t[j]
    BY FormatIs DEF Stands
  <1>2. /\ n >= 2 /\ t[1] = "%" /\ t[n] = piece.conv /\ piece.conv \in Conversions
    BY DEF IsDirective
  <1>3. PICK a \in 2..n, b \in 2..n, e \in 2..n :
            /\ a <= b /\ b <= e /\ n - 1 <= e
            /\ \A k \in 2..(a - 1) : t[k] \in F
            /\ "*" \in ToSet(t) \/ piece.flags = {FlagOf[t[k]] : k \in 2..(a - 1)}
            /\ \/ a = b /\ piece.width = -1
               \/ a < b /\ t[a] # "0" /\ Says(t, a, b - 1, piece.width)
               \/ b = a + 1 /\ t[a] = "*"
            /\ \/ b = e /\ piece.prec = -1
               \/ b < e /\ t[b] = "." /\ Says(t, b + 1, e - 1, piece.prec)
               \/ e = b + 2 /\ t[b] = "." /\ t[b + 1] = "*"
            /\ e = n - 1 => t[e] \in {"h", "l", "L"}
    BY DEF IsDirective
  <1>4. \A k \in 1..n : t[k] # "*" /\ t[k] # "NUL"
    <2>1. \A k \in 1..n : t[k] \in ToSet(t) /\ t[k] \in Char
      BY <1>1 DEF ToSet
    <2> QED
      BY <2>1 DEF Char
  <1>5. \A i \in 1..n, j \in 0..n : i <= j + 1 =>
          SubSeq(Format, q + i, q + j) = SubSeq(t, i, j)
    <2>1. ASSUME NEW i \in 1..n, NEW j \in 0..n, i <= j + 1
          PROVE  SubSeq(Format, q + i, q + j) = SubSeq(t, i, j)
      <3>1. j \in (i - 1)..n
        BY <1>1, <2>1
      <3> QED
        BY <3>1, SubText
    <2> QED
      BY <2>1
  <1>6. "NUL" \notin N /\ "NUL" \notin F
    BY CharacterSets
  \* Where a run of characters that starts in the directive ends.
  <1>7. ASSUME NEW C \in {N, F}, NEW i \in 1..n, NEW m \in i..n, t[m] \notin C,
               \A k \in i..(m - 1) : t[k] \in C
        PROVE  Skip(C, q + i) = q + m
    <2>1. q + i \in 1..(l + 1) /\ q + m \in (q + i)..(l + 1) /\ m \in 1..n
      <3> HIDE DEF l, n, q
      <3> QED
        BY <1>1, <1>7
    <2>2. At(q + m) \notin C
      BY <1>1, <1>7, <2>1
    <2>3. ASSUME NEW j \in (q + i)..((q + m) - 1) PROVE At(j) \in C
      <3>1. j - q \in i..(m - 1) /\ j - q \in 1..n /\ q + (j - q) = j
        <4> HIDE DEF n, q
        <4> QED
          BY <1>1, <1>7
      <3> QED
        BY <1>1, <1>7, <3>1
    <2>4. "NUL" \notin C
      BY <1>6, <1>7
    <2> HIDE DEF q, F, N
    <2> QED
      BY <2>1, <2>2, <2>3, <2>4, SkipTo
  <1> HIDE DEF l, n, q, N, F, t
  <1>8. t[e] \in {"h", "l", "L"} \cup Conversions /\ (e = n \/ e = n - 1)
    <2>1. e = n \/ e = n - 1
      BY <1>1, <1>3
    <2>2. e = n - 1 => t[e] \in {"h", "l", "L"}
      BY <1>3
    <2>3. e = n => t[e] \in Conversions
      BY <1>2
    <2> QED
      BY <2>1, <2>2, <2>3
  <1>9. /\ t[e] \notin F /\ t[e] \notin N /\ t[e] # "."
    BY <1>8, Ends DEF F, N
  <1>10. t[b] = "." \/ (b = e /\ piece.prec = -1)
    BY <1>3
  <1>11. t[b] \notin F /\ t[b] \notin N
    <2>1. "." \notin F /\ "." \notin N
      BY Ends DEF F, N
    <2> QED
      BY <1>9, <1>10, <2>1
  <1>12. \/ a = b /\ piece.width = -1
         \/ a < b /\ t[a] # "0" /\ Says(t, a, b - 1, piece.width)
    BY <1>3, <1>4
  <1>13. \/ b = e /\ piece.prec = -1
         \/ b < e /\ t[b] = "." /\ Says(t, b + 1, e - 1, piece.prec)
    <2>1. ASSUME e = b + 2, t[b + 1] = "*" PROVE FALSE
      <3>1. b + 1 \in 1..n
        BY <1>1, <2>1
      <3> QED
        BY <1>4, <2>1, <3>1
    <2> QED
      BY <1>3, <2>1
  <1>14. t[a] \notin F
    <2>1. CASE a = b
      BY <1>11, <2>1
    <2>2. CASE a < b /\ t[a] # "0" /\ Says(t, a, b - 1, piece.width)
      <3>1. a \in a..(b - 1)
        BY <1>1, <2>2
      <3>2. t[a] \in N
        BY <2>2, <3>1 DEF Says, is_digit, N
      <3> QED
        BY <2>2, <3>2, Ends DEF N, F
    <2> QED
      BY <1>12, <2>1, <2>2
  \* skip_atoi at a number of the directive.
  <1>15. ASSUME NEW i \in 1..n, NEW m \in i..n, t[m] \notin N, NEW v, Says(t, i, m - 1, v)
         PROVE  skip_atoi(q + i) = [value |-> v, at |-> q + m]
    <2>1. Skip(N, q + i) = q + m
      BY <1>7, <1>15 DEF Says, is_digit, N
    <2>2. m - 1 \in 0..n /\ i <= (m - 1) + 1 /\ (q + m) - 1 = q + (m - 1)
      BY <1>1, <1>15
    <2>3. SubSeq(Format, q + i, (q + m) - 1) = SubSeq(t, i, m - 1)
      BY <1>5, <2>2
    <2>4. v = Atoi(SubSeq(t, i, m - 1)) /\ v \in 0..MostCounted
      BY <1>15 DEF Says
    <2>5. v \in 0..(WordSize \div 2 - 1) /\ v \in 0..(WordSize - 1)
      BY <2>4, Widths DEF MostCounted
    <2>6. v % WordSize = v
      BY <2>5, Widths
    <2>7. Signed(v % WordSize) = v
      BY <2>5, <2>6, Widths DEF Signed
    <2>8. skip_atoi(q + i) = [value |-> Signed(Atoi(SubSeq(t, i, m - 1)) % WordSize),
                              at    |-> q + m]
      BY <2>1, <2>3 DEF skip_atoi, N
    <2> QED
      BY <2>4, <2>7, <2>8
  <1>16. GetFlags = [at |-> q + a, args |-> args, field_width |-> -1, precision |-> -1,
                     flags |-> piece.flags]
    <2>1. /\ 2 \in 1..n /\ a \in 2..n /\ fmt + 1 = q + 2 /\ fmt = q + 1
      BY <1>1, <1>2 DEF q
    <2>2. Skip(F, q + 2) = q + a
      BY <1>3, <1>7, <1>14, <2>1
    <2>3. {FlagOf[At(i)] : i \in (q + 2)..((q + a) - 1)} = {FlagOf[t[k]] : k \in 2..(a - 1)}
      <3>1. ASSUME NEW i \in (q + 2)..((q + a) - 1)
            PROVE  i - q \in 2..(a - 1) /\ At(i) = t[i - q]
        <4>1. i - q \in 2..(a - 1) /\ i - q \in 1..n /\ q + (i - q) = i
          BY <1>1, <2>1
        <4> QED
          BY <1>1, <4>1
      <3>2. ASSUME NEW k \in 2..(a - 1)
            PROVE  q + k \in (q + 2)..((q + a) - 1) /\ At(q + k) = t[k]
        <4>1. q + k \in (q + 2)..((q + a) - 1) /\ k \in 1..n
          BY <1>1, <2>1
        <4> QED
          BY <1>1, <4>1
      <3> DEFINE G == (q + 2)..((q + a) - 1)
                 H == 2..(a - 1)
      <3>3. /\ \A i \in G : \E k \in H : At(i) = t[k]
            /\ \A k \in H : \E i \in G : At(i) = t[k]
        BY <3>1, <3>2
      <3> HIDE DEF G, H
      <3>4. {FlagOf[At(i)] : i \in G} = {FlagOf[t[k]] : k \in H}
        BY <3>3
      <3> QED
        BY <3>4 DEF G, H
    <2>4. piece.flags = {FlagOf[t[k]] : k \in 2..(a - 1)}
      BY <1>3 DEF t
    <2> QED
      BY <2>1, <2>2, <2>3, <2>4 DEF GetFlags, F
  <1> DEFINE d1 == GetFlags
             d2 == GetWidth(d1)
             d3 == GetPrecision(d2)
  <1>17. \A j \in 2..n : q + j \in Nat /\ At(q + j) = t[j]
    BY <1>1
  <1> HIDE DEF d1
  <1>18. d2 = [at |-> q + b, args |-> args, field_width |-> piece.width,
               precision |-> -1, flags |-> piece.flags]
    <2>1. d1.at = q + a /\ At(q + a) = t[a] /\ t[a] # "*"
      <3>1. a \in 1..n
        BY <1>1
      <3> QED
        BY <1>4, <1>16, <1>17, <3>1 DEF d1
    <2>2. CASE a = b
      <3>1. piece.width = -1
        BY <1>1, <1>12, <2>2
      <3>2. ~is_digit(At(d1.at))
        BY <1>11, <2>1, <2>2 DEF is_digit, N
      <3>3. d2 = d1
        BY <2>1, <3>2 DEF GetWidth
      <3> QED
        BY <1>16, <2>2, <3>1, <3>3 DEF d1
    <2>3. CASE a < b /\ Says(t, a, b - 1, piece.width)
      <3>1. is_digit(At(d1.at))
        <4>1. a \in a..(b - 1)
          BY <1>1, <2>3
        <4> QED
          BY <2>1, <2>3, <4>1 DEF Says
      <3>2. a \in 1..n /\ b \in a..n
        BY <1>1, <1>3
      <3>3. skip_atoi(q + a) = [value |-> piece.width, at |-> q + b]
        BY <1>11, <1>15, <2>3, <3>2
      <3>4. d2 = [d1 EXCEPT !.field_width = skip_atoi(d1.at).value,
                            !.at = skip_atoi(d1.at).at]
        BY <2>1, <3>1 DEF GetWidth
      <3>5. skip_atoi(d1.at).value = piece.width /\ skip_atoi(d1.at).at = q + b
        BY <2>1, <3>3
      <3>6. d2 = [d1 EXCEPT !.field_width = piece.width, !.at = q + b]
        BY <3>4, <3>5
      <3> QED
        BY <1>16, <3>6 DEF d1
    <2> QED
      BY <1>12, <2>2, <2>3
  <1> HIDE DEF d2
  <1>19. d3 = [at |-> q + e, args |-> args, field_width |-> piece.width,
               precision |-> piece.prec, flags |-> piece.flags]
    <2>1. d2.at = q + b /\ At(q + b) = t[b]
      BY <1>17, <1>18
    <2>2. CASE b = e /\ piece.prec = -1
      <3>1. d3 = d2
        BY <1>9, <2>1, <2>2 DEF GetPrecision
      <3> QED
        BY <1>18, <2>2, <3>1
    <2>3. CASE b < e /\ t[b] = "." /\ Says(t, b + 1, e - 1, piece.prec)
      <3>1. b + 1 \in 2..n /\ b + 1 \in 1..n /\ e \in (b + 1)..n
        BY <1>1, <2>3
      <3>2. skip_atoi(q + (b + 1)) = [value |-> piece.prec, at |-> q + e]
        BY <1>9, <1>15, <2>3, <3>1
      <3>3. (q + b) + 1 = q + (b + 1) /\ At(q + (b + 1)) = t[b + 1]
        BY <1>1, <1>17, <3>1
      <3>4. CASE b + 1 < e
        <4>1. b + 1 \in (b + 1)..(e - 1)
          BY <1>1, <3>4
        <4>2. is_digit(t[b + 1])
          BY <2>3, <4>1 DEF Says
        <4>3. At(d2.at) = "." /\ is_digit(At(d2.at + 1)) /\ At(d2.at + 1) # "*"
          BY <1>4, <2>1, <2>3, <3>1, <3>3, <4>2
        <4>4. d3 = [d2 EXCEPT !.precision = Max({0, skip_atoi(d2.at + 1).value}),
                              !.at = skip_atoi(d2.at + 1).at]
          BY <4>3 DEF GetPrecision
        <4>5. skip_atoi(d2.at + 1).value = piece.prec /\ skip_atoi(d2.at + 1).at = q + e
          BY <2>1, <3>2, <3>3
        <4>6. Max({0, piece.prec}) = piece.prec
          <5>1. piece.prec \in Nat
            BY <2>3 DEF Says
          <5> QED
            BY <5>1, MaxPair
        <4>7. d3 = [d2 EXCEPT !.precision = piece.prec, !.at = q + e]
          BY <4>4, <4>5, <4>6
        <4> QED
          BY <1>18, <4>7
      <3>5. CASE b + 1 = e
        <4>1. ~is_digit(t[b + 1])
          BY <1>9, <3>5 DEF is_digit, N
        <4>2. t[b + 1] # "*"
          BY <1>4, <3>1
        <4>3. piece.prec = 0
          <5>1. piece.prec = Atoi(SubSeq(t, b + 1, e - 1))
            BY <2>3 DEF Says
          <5>2. SubSeq(t, b + 1, e - 1) = <<>>
            BY <1>1, <3>5, SubSeqEmpty
          <5> QED
            BY <5>1, <5>2, AtoiEmpty
        <4>4. d3 = [d2 EXCEPT !.precision = 0, !.at = q + e]
          BY <2>1, <2>3, <3>3, <3>5, <4>1, <4>2 DEF GetPrecision
        <4> QED
          BY <1>18, <4>3, <4>4
      <3> QED
        BY <3>1, <3>4, <3>5
    <2> QED
      BY <1>13, <2>2, <2>3
  <1> HIDE DEF d3
  <1>20. GetQualifier(d3) = [at |-> q + n, args |-> args, field_width |-> piece.width,
                             precision |-> piece.prec, flags |-> piece.flags]
    <2>1. d3.at = q + e /\ At(q + e) = t[e]
      BY <1>17, <1>19
    <2>2. CASE e = n
      <3>1. t[e] \notin {"h", "l", "L"}
        BY <1>2, <2>2, Ends
      <3>2. GetQualifier(d3) = d3
        BY <2>1, <3>1 DEF GetQualifier
      <3> QED
        BY <1>19, <2>2, <3>2
    <2>3. CASE e = n - 1
      <3>1. t[e] \in {"h", "l", "L"}
        BY <1>3, <2>3
      <3>2. GetQualifier(d3) = [d3 EXCEPT !.at = @ + 1]
        BY <2>1, <3>1 DEF GetQualifier
      <3>3. (q + e) + 1 = q + n
        BY <1>1, <2>3
      <3> QED
        BY <1>19, <3>2, <3>3
    <2> QED
      BY <1>8, <2>2, <2>3
  <1>21. fmt + n - 1 = q + n /\ q + 1 = fmt /\ n \in 2..n /\ 1 \in 1..n
    BY <1>1, <1>2 DEF q
  <1>22. At(fmt) = "%" /\ At(q + n) = piece.conv
    <2>1. At(q + 1) = t[1] /\ At(q + n) = t[n]
      BY <1>1, <1>21
    <2> QED
      BY <1>2, <1>21, <2>1
  <1> QED
    BY <1>20, <1>21, <1>22 DEF Directive, d1, d2, d3, n, t

-----------------------------------------------------------------------------
(* The pass and its piece.                                                 *)

\* TotalNext, for the first values of a function.
LEMMA TotalTo ==
    ASSUME NEW F, NEW k \in Nat, \A i \in 1..(k + 1) : F[i] \in Int
    PROVE  /\ Total([i \in 1..k |-> F[i]]) \in Int
           /\ Total([i \in 1..(k + 1) |-> F[i]]) = Total([i \in 1..k |-> F[i]]) + F[k + 1]
  <1> DEFINE s == [i \in 1..k |-> F[i]]
             t == [i \in 1..(k + 1) |-> F[i]]
             x == F[k + 1]
  <1>1. k + 1 \in 1..(k + 1) /\ k + 1 \in Nat /\ \A i \in 1..k : i \in 1..(k + 1)
    OBVIOUS
  <1>2. s \in Seq(Int) /\ Len(s) = k /\ t \in Seq(Int) /\ Len(t) = k + 1 /\ x \in Int
    BY <1>1, IsASeq
  <1>3. /\ \A i \in 1..k : s[i] = F[i]
        /\ \A i \in 1..(k + 1) : t[i] = F[i]
    BY <1>1
  <1> HIDE DEF s, t
  <1>4. /\ Append(s, x) \in Seq(Int) /\ Len(Append(s, x)) = k + 1
        /\ Append(s, x)[k + 1] = x /\ \A i \in 1..k : Append(s, x)[i] = s[i]
    BY <1>2, AppendProperties
  <1>5. ASSUME NEW i \in 1..(k + 1) PROVE t[i] = Append(s, x)[i]
    <2>1. CASE i = k + 1
      BY <1>3, <1>4, <2>1
    <2>2. CASE i # k + 1
      <3>1. i \in 1..k
        BY <2>2
      <3> QED
        BY <1>3, <1>4, <3>1
    <2> QED
      BY <2>1, <2>2
  <1>6. t = Append(s, x)
    BY <1>2, <1>4, <1>5, SeqEqual
  <1>7. Total(s) \in Int /\ Total(Append(s, x)) = Total(s) + x
    BY <1>2, TotalNext
  <1> QED
    BY <1>6, <1>7 DEF s, t

StarFree == \A i \in DOMAIN call.pieces : "*" \notin ToSet(call.pieces[i].text)
Takes(k) == [i \in 1..k |-> Taken(call.pieces[i])]

\* The arguments that one more piece takes.
LEMMA TakesNext ==
    ASSUME call \in Calls, NEW k \in 0..(Len(call.pieces) - 1)
    PROVE  /\ Total(Takes(k)) \in Int
           /\ Total(Takes(k + 1)) = Total(Takes(k)) + Taken(call.pieces[k + 1])
  <1> DEFINE F == [i \in 1..(k + 1) |-> Taken(call.pieces[i])]
  <1>1. k \in Nat /\ \A i \in 1..k : i \in 1..(k + 1)
    BY TextsAre
  <1>2. \A i \in 1..(k + 1) : F[i] = Taken(call.pieces[i]) /\ F[i] \in Int
    BY DEF Taken
  <1>3. [i \in 1..k |-> F[i]] = Takes(k) /\ [i \in 1..(k + 1) |-> F[i]] = Takes(k + 1)
    BY <1>1, <1>2 DEF Takes
  <1>4. k + 1 \in 1..(k + 1)
    BY <1>1
  <1> HIDE DEF F
  <1>5. /\ Total([i \in 1..k |-> F[i]]) \in Int
        /\ Total([i \in 1..(k + 1) |-> F[i]]) = Total([i \in 1..k |-> F[i]]) + F[k + 1]
    BY <1>1, <1>2, TotalTo
  <1> QED
    BY <1>2, <1>3, <1>4, <1>5

\* The pieces dealt with are those before fmt, and their arguments those before
\* args.
PieceInv == (Meant /\ StarFree) =>
              /\ passes \in 0..Len(call.pieces)
              /\ fmt = 1 + Len(Before(passes))
              /\ args = 1 + Total(Takes(passes))

\* What stands at fmt.
LEMMA CurrentPiece ==
    ASSUME FormatInv, PieceInv, Meant, StarFree, At(fmt) # "NUL"
    PROVE  LET p == call.pieces[passes + 1]
               t == p.text
           IN  /\ passes \in 0..(Len(call.pieces) - 1)
               /\ passes + 1 \in 1..Len(call.pieces)
               /\ p \in Pieces /\ Len(t) \in Nat /\ "*" \notin ToSet(t)
               /\ Len(Before(passes + 1)) = (fmt - 1) + Len(t)
               /\ \/ /\ IsCopied(p)
                     /\ At(fmt) # "%"
                  \/ /\ IsDirective(p)
                     /\ At(fmt) = "%"
                     /\ At(Directive.at) = p.conv
                     /\ Directive = [at |-> fmt + Len(t) - 1, args |-> args,
                                     field_width |-> p.width, precision |-> p.prec,
                                     flags |-> p.flags]
  <1> DEFINE n == Len(call.pieces)
             p == call.pieces[passes + 1]
             t == p.text
             l == Len(Format)
  <1>1. call \in Calls /\ fmt \in 1..(l + 1) /\ passes \in Nat
    BY DEF FormatInv
  <1>2. passes \in 0..n /\ fmt = 1 + Len(Before(passes))
    BY DEF PieceInv
  <1>3. n \in Nat /\ Format = Before(n) /\ l \in Nat
    BY <1>1, TextsAre, FormatIs
  <1>4. passes # n
    <2> SUFFICES ASSUME passes = n PROVE FALSE
      OBVIOUS
    <2>1. fmt = l + 1
      BY <1>2, <1>3
    <2> QED
      BY <1>1, <2>1, FormatIs
  <1>5. passes \in 0..(n - 1) /\ passes + 1 \in 1..n
    <2> HIDE DEF n
    <2> QED
      BY <1>2, <1>3, <1>4
  <1>6. p \in Pieces
    BY <1>1, <1>5, TextsAre
  <1>7. DOMAIN call.pieces = 1..n
    BY <1>1, CallsWritten
  <1>8. "*" \notin ToSet(t)
    BY <1>5, <1>7 DEF StarFree
  <1>9. IsDirective(p) \/ IsCopied(p)
    BY <1>1, <1>5, <1>7, CallsWritten DEF Meant
  <1> DEFINE b == Len(Before(passes))
  <1>10. /\ b \in Nat /\ t \in Seq(Char) /\ Len(t) \in Nat
         /\ Len(Before(passes + 1)) = b + Len(t)
         /\ b + Len(t) <= l
         /\ \A j \in 1..Len(t) : At(b + j) = t[j]
    BY <1>1, <1>5, PieceStands
  <1> HIDE DEF n, b, l, p
  <1>11. fmt - 1 = b /\ fmt = b + 1 /\ fmt \in Nat \ {0}
    BY <1>2, <1>10 DEF b
  <1>12. Stands(t, fmt - 1)
    BY <1>10, <1>11 DEF Stands, l
  <1>13. CASE IsDirective(p)
    <2>1. /\ At(fmt) = "%"
          /\ At(fmt + Len(t) - 1) = p.conv
          /\ Directive = [at |-> fmt + Len(t) - 1, args |-> args,
                          field_width |-> p.width, precision |-> p.prec, flags |-> p.flags]
      BY <1>1, <1>8, <1>11, <1>12, <1>13, DirectiveIs
    <2>2. At(Directive.at) = p.conv
      BY <2>1
    <2> QED
      BY <1>5, <1>6, <1>8, <1>10, <1>11, <1>13, <2>1, <2>2 DEF n, p
  <1>14. CASE IsCopied(p)
    <2>1. Len(t) = 1 /\ t[1] # "%"
      BY <1>14 DEF IsCopied
    <2>2. At(fmt) = t[1]
      BY <1>10, <1>11, <2>1
    <2> QED
      BY <1>5, <1>6, <1>8, <1>10, <1>11, <1>14, <2>1, <2>2 DEF n, p
  <1> QED
    BY <1>9, <1>13, <1>14

\* A pass moves on to the next piece and to its arguments.
LEMMA PassDeals ==
    ASSUME FormatInv, PieceInv, Meant, StarFree, Next, ~Return
    PROVE  LET p == call.pieces[passes + 1] IN
           /\ Pass /\ At(fmt) # "NUL"
           /\ fmt' = fmt + Len(p.text)
           /\ args' = args + Taken(p)
  <1> DEFINE p == call.pieces[passes + 1]
             t == p.text
             d == Directive
  <1>1. Pass /\ At(fmt) # "NUL"
    BY DEF Next, Literal, ConvertChar, ConvertString, ConvertNumber, StoreCount, Unknown
  <1>2. CASE Literal
    <2>1. At(fmt) # "%" /\ fmt' = fmt + 1 /\ args' = args
      BY <1>2 DEF Literal
    <2>2. IsCopied(p) /\ "*" \notin ToSet(t)
      BY <1>1, <2>1, CurrentPiece
    <2>3. Len(t) = 1 /\ p.conv = "copy"
      BY <2>2 DEF IsCopied
    <2>4. Taken(p) = 0
      BY <2>2, <2>3 DEF Taken
    <2>5. args \in Int
      BY <1>1, CurrentPiece, TakesNext DEF PieceInv, FormatInv
    <2> HIDE DEF p
    <2> QED
      BY <1>1, <2>1, <2>3, <2>4, <2>5 DEF p
  <1>3. CASE ~Literal
    <2>1. At(fmt) = "%" /\ fmt' = (IF At(d.at) = "NUL" THEN d.at ELSE d.at + 1)
          /\ args' = (IF At(d.at) \in {"c", "s", "o", "p", "x", "X", "d", "i", "u", "n"}
                      THEN d.args + 1 ELSE d.args)
      <3>1. CASE ConvertChar
        BY <3>1 DEF ConvertChar, Converts
      <3>2. CASE ConvertString
        BY <3>2 DEF ConvertString, Converts
      <3>3. CASE ConvertNumber
        BY <3>3 DEF ConvertNumber, Converts
      <3>4. CASE StoreCount
        BY <3>4 DEF StoreCount
      <3>5. CASE Unknown
        BY <3>5 DEF Unknown
      <3> QED
        BY <1>3, <3>1, <3>2, <3>3, <3>4, <3>5 DEF Next
    <2>2. /\ IsDirective(p) /\ "*" \notin ToSet(t) /\ Len(t) \in Nat
          /\ d.at = fmt + Len(t) - 1 /\ d.args = args /\ At(d.at) = p.conv
      BY <1>1, <2>1, CurrentPiece
    <2>3. p.conv \in Conversions
      BY <2>2 DEF IsDirective
    <2>4. args \in Int /\ fmt \in Int
      BY <1>1, CurrentPiece, TakesNext, FormatIs DEF PieceInv, FormatInv
    <2> HIDE DEF p, d
    <2>5. p.conv # "NUL" /\ p.conv # "copy"
      BY <2>3 DEF Conversions
    <2>6. fmt' = fmt + Len(t)
      BY <2>1, <2>2, <2>4, <2>5
    <2>7. CASE p.conv = "%"
      <3>1. Taken(p) = 0 /\ args' = args
        BY <2>1, <2>2, <2>7 DEF Taken
      <3> QED
        BY <1>1, <2>4, <2>6, <3>1 DEF p
    <2>8. CASE p.conv # "%"
      <3>1. Taken(p) = 1
        BY <2>2, <2>5, <2>8 DEF Taken
      <3>2. args' = args + 1
        BY <2>1, <2>2, <2>3, <2>8 DEF Conversions
      <3> QED
        BY <1>1, <2>6, <3>1, <3>2 DEF p
    <2> QED
      BY <2>7, <2>8
  <1> QED
    BY <1>2, <1>3

\* No piece has been dealt with in the initial states.
LEMMA PieceInvInit == Init => PieceInv
  <1> SUFFICES ASSUME Init PROVE PieceInv
    OBVIOUS
  <1>1. call \in Calls /\ fmt = 1 /\ args = 1 /\ passes = 0
    BY DEF Init
  <1>2. 0 \in 0..Len(call.pieces)
    BY <1>1, TextsAre
  <1>3. Len(Before(0)) = 0
    <2>1. Texts(0) = <<>>
      BY DEF Texts
    <2> QED
      BY <2>1 DEF Before, FlattenSeq
  <1>4. Total(Takes(0)) = 0
    <2>1. Takes(0) = <<>> /\ <<>> \in Seq(Int) /\ Len(<<>>) = 0
      BY DEF Takes
    <2>2. PICK f : Sums(f, <<>>, 0) /\ Total(<<>>) = f[1..0]
      BY <2>1, TotalIs
    <2>3. 1..0 = {} /\ 1..0 \in SUBSET (1..0)
      OBVIOUS
    <2>4. f[1..0] = 0
      BY <2>2, <2>3 DEF Sums
    <2> QED
      BY <2>1, <2>2, <2>4
  <1> QED
    BY <1>1, <1>2, <1>3, <1>4 DEF PieceInv

\* Every pass deals with one piece.
LEMMA PieceInvNext == FormatInv /\ PieceInv /\ [Next]_vars => PieceInv'
  <1> SUFFICES ASSUME FormatInv, PieceInv, [Next]_vars, (Meant /\ StarFree)'
               PROVE  /\ passes' \in 0..Len(call'.pieces)
                      /\ fmt' = 1 + Len(Before(passes))'
                      /\ args' = 1 + Total(Takes(passes))'
    BY DEF PieceInv
  <1> DEFINE n == Len(call.pieces)
             p == call.pieces[passes + 1]
             t == p.text
  <1>1. call' = call
    BY DEF Next, Literal, ConvertChar, ConvertString, ConvertNumber, StoreCount, Unknown,
           Return, Pass, vars
  <1>2. /\ Meant /\ StarFree
        /\ Before(passes)' = Before(passes') /\ Takes(passes)' = Takes(passes')
    BY <1>1 DEF Meant, StarFree, Before, Texts, Takes
  <1>3. CASE Return \/ UNCHANGED vars
    <2>1. UNCHANGED <<call, fmt, args, passes>>
      BY <1>3 DEF Return, vars
    <2> QED
      BY <1>2, <2>1 DEF PieceInv
  <1>4. CASE Next /\ ~Return
    <2>1. /\ Pass /\ At(fmt) # "NUL" /\ fmt' = fmt + Len(t) /\ args' = args + Taken(p)
      BY <1>2, <1>4, PassDeals
    <2>2. /\ passes \in 0..(n - 1) /\ passes + 1 \in 1..n /\ Len(t) \in Nat
          /\ Len(Before(passes + 1)) = (fmt - 1) + Len(t)
      BY <1>2, <2>1, CurrentPiece
    <2>3. /\ Total(Takes(passes)) \in Int
          /\ Total(Takes(passes + 1)) = Total(Takes(passes)) + Taken(p)
      BY <2>2, TakesNext DEF FormatInv
    <2>4. passes' = passes + 1 /\ fmt \in Int /\ args = 1 + Total(Takes(passes))
      BY <1>2, <2>1, FormatIs DEF Pass, PieceInv, FormatInv
    <2>5. Taken(p) \in Int
      BY DEF Taken
    <2>6. n \in Nat
      BY TextsAre DEF FormatInv
    <2> HIDE DEF p, n
    <2>7. passes' \in 0..n
      BY <2>2, <2>4, <2>6
    <2>8. fmt' = 1 + Len(Before(passes'))
      BY <2>1, <2>2, <2>4
    <2>9. args' = 1 + Total(Takes(passes'))
      BY <2>1, <2>3, <2>4, <2>5
    <2> QED
      BY <1>1, <1>2, <2>7, <2>8, <2>9 DEF n
  <1> QED
    BY <1>3, <1>4

\* FormatInv and PieceInv hold in every state.
LEMMA PieceInvAlways == Spec => [](FormatInv /\ PieceInv)
  <1>1. Init => PieceInv
    BY PieceInvInit
  <1>2. FormatInv /\ PieceInv /\ [Next]_vars => PieceInv'
    BY PieceInvNext
  <1> QED
    BY <1>1, <1>2, FormatInvAlways, PTL DEF Spec

\* vsprintf.c:107, 113-228: in a format without '*', each pass deals with one
\* piece of the format and takes the arguments of that piece.  With a '*' it does
\* not: the run VsprintfStar shows one.
THEOREM PieceAPass == Spec => [](StarFree => OnePieceAPass)
  <1>1. PieceInv => (StarFree => OnePieceAPass)
    BY DEF PieceInv, OnePieceAPass, Before, Texts, Takes
  <1> QED
    BY <1>1, PieceInvAlways, PTL

-----------------------------------------------------------------------------
(* The digits of a number.                                                 *)

\* f is the function that Power, or DivideDown, is a value of.
Powers(f, b, n) == f = [i \in 0..n |-> IF i = 0 THEN 1 ELSE b * f[i - 1]]
Divides(f, base, n) ==
    f = [k \in 0..n |-> IF k = 0 THEN <<>> ELSE Append(f[k \div base], k % base)]

\* A quotient by at least two is smaller.
LEMMA DivLess ==
    ASSUME NEW k \in Nat \ {0}, NEW base \in Nat \ {0, 1}
    PROVE  k \div base \in 0..(k - 1) /\ k % base \in 0..(base - 1)
  <1> DEFINE q == k \div base
  <1>1. q \in Nat /\ q * base <= k /\ k % base \in 0..(base - 1)
    BY DivTimes, DivMod
  <1> HIDE DEF q
  <1>2. 2 * q <= base * q /\ q * base = base * q
    BY <1>1, MulMono
  <1>3. q <= k - 1
    <2> SUFFICES ASSUME k <= q PROVE FALSE
      BY <1>1
    <2>1. 2 * q <= k
      BY <1>1, <1>2
    <2> QED
      BY <1>1, <2>1
  <1> QED
    BY <1>1, <1>3 DEF q

\* There is a function that has the powers of b up to n.
LEMMA PowersExist ==
    ASSUME NEW b, NEW n \in Nat
    PROVE  \E f : Powers(f, b, n)
  <1> DEFINE T == {k \in Nat : \E f : Powers(f, b, k)}
  <1>1. 0 \in T
    <2> DEFINE g == [i \in 0..0 |-> 1]
    <2>1. Powers(g, b, 0)
      <3>1. ASSUME NEW i \in 0..0 PROVE g[i] = IF i = 0 THEN 1 ELSE b * g[i - 1]
        OBVIOUS
      <3> QED
        BY <3>1 DEF Powers
    <2> QED
      BY <2>1
  <1>2. ASSUME NEW k \in Nat, k \in T PROVE k + 1 \in T
    <2>1. PICK f : Powers(f, b, k)
      BY <1>2
    <2> DEFINE g == [i \in 0..(k + 1) |-> IF i \in 0..k THEN f[i] ELSE b * f[k]]
    <2>2. ASSUME NEW i \in 0..(k + 1) PROVE g[i] = IF i = 0 THEN 1 ELSE b * g[i - 1]
      <3>1. CASE i \in 0..k
        <4>1. g[i] = f[i] /\ f[i] = IF i = 0 THEN 1 ELSE b * f[i - 1]
          BY <2>1, <3>1 DEF Powers
        <4>2. i # 0 => i - 1 \in 0..k /\ i - 1 \in 0..(k + 1)
          BY <3>1
        <4> QED
          BY <4>1, <4>2
      <3>2. CASE i \notin 0..k
        <4>1. i = k + 1 /\ i # 0 /\ i - 1 = k /\ k \in 0..k /\ k \in 0..(k + 1)
          BY <3>2
        <4> QED
          BY <4>1
      <3> QED
        BY <3>1, <3>2
    <2>3. Powers(g, b, k + 1)
      BY <2>2 DEF Powers
    <2> QED
      BY <2>3
  <1> HIDE DEF T
  <1>3. Nat \subseteq T
    BY <1>1, <1>2, SetInduction
  <1> QED
    BY <1>3 DEF T

\* Power is that function: it multiplies by b at each step.
LEMMA PowerIs ==
    ASSUME NEW b \in Nat \ {0}, NEW n \in Nat
    PROVE  /\ Power(b, 0) = 1
           /\ Power(b, n) \in Nat \ {0}
           /\ Power(b, n + 1) = b * Power(b, n)
  <1>1. ASSUME NEW k \in Nat
        PROVE  \E f : Powers(f, b, k) /\ Power(b, k) = f[k]
    <2> DEFINE p == CHOOSE f : f = [i \in 0..k |-> IF i = 0 THEN 1 ELSE b * f[i - 1]]
    <2>1. PICK f : Powers(f, b, k)
      BY <1>1, PowersExist
    <2>2. Powers(p, b, k)
      BY <2>1 DEF Powers
    <2>3. Power(b, k) = p[k]
      BY DEF Power
    <2> QED
      BY <2>2, <2>3
  <1>2. ASSUME NEW k \in Nat, NEW m \in Nat, k <= m, NEW f, Powers(f, b, k), NEW g, Powers(g, b, m)
        PROVE  f[k] = g[k] /\ f[k] \in Nat \ {0}
    <2> DEFINE T == {i \in Nat : i <= k => f[i] = g[i] /\ f[i] \in Nat \ {0}}
    <2>1. 0 \in T
      <3>1. 0 \in 0..k /\ 0 \in 0..m
        OBVIOUS
      <3>2. f[0] = 1 /\ g[0] = 1
        BY <1>2, <3>1 DEF Powers
      <3> QED
        BY <3>2
    <2>2. ASSUME NEW i \in Nat, i \in T PROVE i + 1 \in T
      <3> SUFFICES ASSUME i + 1 <= k PROVE f[i + 1] = g[i + 1] /\ f[i + 1] \in Nat \ {0}
        OBVIOUS
      <3>1. i + 1 \in 0..k /\ i + 1 \in 0..m /\ i + 1 # 0 /\ (i + 1) - 1 = i /\ i <= k
        BY <1>2
      <3>2. f[i + 1] = b * f[i] /\ g[i + 1] = b * g[i]
        BY <1>2, <3>1 DEF Powers
      <3>3. f[i] = g[i] /\ f[i] \in Nat \ {0}
        BY <2>2, <3>1
      <3> DEFINE x == f[i]
      <3> HIDE DEF x
      <3>4. x \in Nat \ {0}
        BY <3>3 DEF x
      <3>5. b * x \in Nat \ {0}
        BY <3>4
      <3> QED
        BY <3>2, <3>3, <3>5 DEF x
    <2> HIDE DEF T
    <2>3. Nat \subseteq T
      BY <2>1, <2>2, SetInduction
    <2>4. k \in T
      BY <2>3
    <2> QED
      BY <2>4 DEF T
  <1>3. PICK f : Powers(f, b, n) /\ Power(b, n) = f[n]
    BY <1>1
  <1>4. PICK g : Powers(g, b, n + 1) /\ Power(b, n + 1) = g[n + 1]
    BY <1>1
  <1>5. PICK h : Powers(h, b, 0) /\ Power(b, 0) = h[0]
    BY <1>1
  <1>6. h[0] = 1
    <2>1. 0 \in 0..0
      OBVIOUS
    <2> QED
      BY <1>5, <2>1 DEF Powers
  <1>7. f[n] = g[n] /\ f[n] \in Nat \ {0}
    <2>1. n + 1 \in Nat /\ n <= n + 1
      OBVIOUS
    <2> QED
      BY <1>2, <1>3, <1>4, <2>1
  <1>8. g[n + 1] = b * g[n]
    <2>1. n + 1 \in 0..(n + 1) /\ n + 1 # 0 /\ (n + 1) - 1 = n
      OBVIOUS
    <2> QED
      BY <1>4, <2>1 DEF Powers
  <1> QED
    BY <1>3, <1>4, <1>5, <1>6, <1>7, <1>8

\* There is a function that has the digits of every number up to n.
LEMMA DividesExist ==
    ASSUME NEW base \in Nat \ {0, 1}, NEW n \in Nat
    PROVE  \E f : Divides(f, base, n)
  <1> DEFINE T == {k \in Nat : \E f : Divides(f, base, k)}
  <1>1. 0 \in T
    <2> DEFINE g == [k \in 0..0 |-> <<>>]
    <2>1. ASSUME NEW k \in 0..0
          PROVE  g[k] = IF k = 0 THEN <<>> ELSE Append(g[k \div base], k % base)
      OBVIOUS
    <2>2. Divides(g, base, 0)
      BY <2>1 DEF Divides
    <2> QED
      BY <2>2
  <1>2. ASSUME NEW m \in Nat, m \in T PROVE m + 1 \in T
    <2>1. PICK f : Divides(f, base, m)
      BY <1>2
    <2> DEFINE g == [k \in 0..(m + 1) |->
                       IF k \in 0..m THEN f[k]
                       ELSE Append(f[k \div base], k % base)]
    <2>2. ASSUME NEW k \in 0..(m + 1)
          PROVE  g[k] = IF k = 0 THEN <<>> ELSE Append(g[k \div base], k % base)
      <3>1. k # 0 => k \div base \in 0..m /\ k \div base \in 0..(m + 1)
        <4> SUFFICES ASSUME k # 0 PROVE k \div base \in 0..m /\ k \div base \in 0..(m + 1)
          OBVIOUS
        <4>1. k \div base \in 0..(k - 1)
          <5>1. k \in Nat \ {0}
            OBVIOUS
          <5> QED
            BY <5>1, DivLess
        <4> QED
          BY <4>1
      <3>2. k \in 0..m =>
              f[k] = IF k = 0 THEN <<>> ELSE Append(f[k \div base], k % base)
        BY <2>1 DEF Divides
      <3>3. k # 0 => g[k \div base] = f[k \div base]
        BY <3>1
      <3>4. k \notin 0..m => k # 0
        OBVIOUS
      <3> QED
        BY <3>2, <3>3, <3>4
    <2> HIDE DEF g
    <2>3. g = [k \in 0..(m + 1) |-> g[k]]
      BY DEF g
    <2>4. Divides(g, base, m + 1)
      BY <2>2, <2>3 DEF Divides
    <2> QED
      BY <2>4
  <1> HIDE DEF T
  <1>3. Nat \subseteq T
    BY <1>1, <1>2, SetInduction
  <1> QED
    BY <1>3 DEF T

\* d has the digits of every number up to n, most significant first.
Digital(d, base, n) ==
    /\ d[0] = <<>>
    /\ \A k \in 1..n : /\ k \div base \in 0..(k - 1) /\ k % base \in 0..(base - 1)
                        /\ d[k \div base] \in Seq(0..(base - 1))
                        /\ d[k] = Append(d[k \div base], k % base)

\* DivideDown is the last value of such a function.
LEMMA DivideDownIs ==
    ASSUME NEW base \in Nat \ {0, 1}, NEW n \in Nat
    PROVE  \E d : Digital(d, base, n) /\ DivideDown(n, base) = d[n] /\ d[n] \in Seq(0..(base - 1))
  <1> DEFINE Digits == 0..(base - 1)
  <1> DEFINE d == CHOOSE f : f = [k \in 0..n |->
                     IF k = 0 THEN <<>> ELSE Append(f[k \div base], k % base)]
  <1>1. Divides(d, base, n)
    <2>1. PICK f : Divides(f, base, n)
      BY DividesExist
    <2> QED
      BY <2>1 DEF Divides
  <1>2. DivideDown(n, base) = d[n]
    BY DEF DivideDown
  <1> HIDE DEF d
  <1>3. d[0] = <<>> /\ \A k \in 1..n : d[k] = Append(d[k \div base], k % base)
    <2>1. 0 \in 0..n /\ \A k \in 1..n : k \in 0..n /\ k # 0
      OBVIOUS
    <2> QED
      BY <1>1, <2>1 DEF Divides
  <1>4. ASSUME NEW k \in 1..n
        PROVE  k \div base \in 0..(k - 1) /\ k % base \in Digits
    <2>1. k \in Nat \ {0}
      OBVIOUS
    <2> QED
      BY <2>1, DivLess
  <1>5. \A k \in 0..n : d[k] \in Seq(Digits)
    <2> DEFINE T == {m \in Nat : \A k \in 0..m : k <= n => d[k] \in Seq(Digits)}
    <2>1. 0 \in T
      <3>1. \A k \in 0..0 : k = 0
        OBVIOUS
      <3>2. d[0] \in Seq(Digits)
        BY <1>3
      <3> QED
        BY <3>1, <3>2
    <2>2. ASSUME NEW m \in Nat, m \in T PROVE m + 1 \in T
      <3> SUFFICES ASSUME NEW k \in 0..(m + 1), k <= n PROVE d[k] \in Seq(Digits)
        OBVIOUS
      <3>1. CASE k \in 0..m
        BY <2>2, <3>1
      <3>2. CASE k \notin 0..m
        <4>1. k \in 1..n /\ k - 1 = m
          BY <3>2
        <4>2. k \div base \in 0..m /\ k \div base <= n /\ k % base \in Digits
          <5> DEFINE z == k \div base
          <5>1. z \in 0..(k - 1) /\ k % base \in Digits
            BY <1>4, <4>1
          <5> HIDE DEF z
          <5>2. z \in 0..m /\ z <= n
            BY <4>1, <5>1
          <5> QED
            BY <5>1, <5>2 DEF z
        <4>3. d[k \div base] \in Seq(Digits)
          BY <2>2, <4>2
        <4>4. d[k] = Append(d[k \div base], k % base)
          BY <1>3, <4>1
        <4> DEFINE x == d[k \div base]
                   y == k % base
        <4> HIDE DEF x, y
        <4>5. x \in Seq(Digits) /\ y \in Digits
          BY <4>2, <4>3 DEF x, y
        <4>6. Append(x, y) \in Seq(Digits)
          BY <4>5, AppendProperties
        <4> QED
          BY <4>4, <4>6 DEF x, y
      <3> QED
        BY <3>1, <3>2
    <2> HIDE DEF T
    <2>3. Nat \subseteq T
      BY <2>1, <2>2, SetInduction
    <2>4. n \in T
      BY <2>3
    <2> QED
      BY <2>4 DEF T
  <1>6. ASSUME NEW k \in 1..n
        PROVE  d[k \div base] \in Seq(Digits)
    <2> DEFINE z == k \div base
    <2>1. z \in 0..(k - 1)
      BY <1>4
    <2> HIDE DEF z
    <2>2. z \in 0..n
      BY <2>1
    <2> QED
      BY <1>5, <2>2 DEF z
  <1>7. Digital(d, base, n)
    BY <1>3, <1>4, <1>6 DEF Digital
  <1>8. n \in 0..n
    OBVIOUS
  <1>9. d[n] \in Seq(Digits)
    BY <1>5, <1>8
  <1> HIDE DEF Digits
  <1> QED
    BY <1>2, <1>7, <1>9 DEF Digits

\* The number of digits of a number, and of those below a power of the base.
LEMMA DigitsBounded ==
    ASSUME NEW base \in Nat \ {0, 1}, NEW n \in Nat \ {0}
    PROVE  /\ DivideDown(n, base) \in Seq(0..(base - 1)) /\ Len(DivideDown(n, base)) \in Nat \ {0}
           /\ \A m \in Nat : n < Power(base, m) => Len(DivideDown(n, base)) <= m
  <1> DEFINE Digits == 0..(base - 1)
  <1>1. PICK d : Digital(d, base, n) /\ DivideDown(n, base) = d[n] /\ d[n] \in Seq(Digits)
    BY DivideDownIs
  <1> HIDE DEF Digits
  <1>6. ASSUME NEW k \in 1..n
        PROVE  /\ k \div base \in 0..n /\ Len(d[k \div base]) \in Nat
               /\ Len(d[k]) = Len(d[k \div base]) + 1
    <2> DEFINE x == d[k \div base]
               y == k % base
               z == k \div base
    <2>1. z \in 0..(k - 1) /\ y \in Digits /\ x \in Seq(Digits) /\ d[k] = Append(x, y)
      BY <1>1 DEF Digital, Digits
    <2> HIDE DEF x, y, z
    <2>2. z \in 0..n
      BY <2>1
    <2>3. Len(x) \in Nat /\ Len(Append(x, y)) = Len(x) + 1
      BY <2>1, AppendProperties
    <2> QED
      BY <2>1, <2>2, <2>3 DEF x, y, z
  <1>7. \A m \in Nat : \A k \in 0..n : k < Power(base, m) => Len(d[k]) <= m
    <2> DEFINE T == {m \in Nat : \A k \in 0..n : k < Power(base, m) => Len(d[k]) <= m}
    <2>1. Len(d[0]) = 0
      BY <1>1 DEF Digital
    <2>2. 0 \in T
      <3>1. Power(base, 0) = 1
        BY PowerIs
      <3> QED
        BY <2>1, <3>1
    <2>3. ASSUME NEW m \in Nat, m \in T PROVE m + 1 \in T
      <3> SUFFICES ASSUME NEW k \in 0..n, k < Power(base, m + 1) PROVE Len(d[k]) <= m + 1
        OBVIOUS
      <3>1. CASE k = 0
        BY <2>1, <3>1
      <3>2. CASE k # 0
        <4>1. k \in 1..n /\ k \in Nat
          BY <3>2
        <4> DEFINE w == Power(base, m)
                   q == k \div base
        <4>2. w \in Nat \ {0} /\ k < base * w
          BY PowerIs
        <4>3. q < w
          <5>1. q \in Nat /\ q * base <= k
            BY <4>1, DivTimes, DivMod
          <5> SUFFICES ASSUME w <= q PROVE FALSE
            <6> HIDE DEF w, q
            <6> QED
              BY <4>2, <5>1
          <5> HIDE DEF w, q
          <5>2. w * base <= q * base /\ w * base = base * w
            BY <4>2, <5>1, MulMono
          <5>3. w * base \in Nat /\ q * base \in Nat
            BY <4>2, <5>1, MulNat
          <5> QED
            BY <4>2, <5>1, <5>2, <5>3
        <4>4. q \in 0..n /\ Len(d[q]) \in Nat /\ Len(d[k]) = Len(d[q]) + 1
          BY <1>6, <4>1
        <4>5. Len(d[q]) <= m
          BY <2>3, <4>3, <4>4
        <4> HIDE DEF q
        <4> QED
          BY <4>4, <4>5
      <3> QED
        BY <3>1, <3>2
    <2> HIDE DEF T
    <2>4. Nat \subseteq T
      BY <2>2, <2>3, SetInduction
    <2> QED
      BY <2>4 DEF T
  <1>8. n \in 1..n /\ n \in 0..n
    OBVIOUS
  <1>9. d[n] \in Seq(Digits) /\ Len(d[n]) \in Nat \ {0}
    <2>1. Len(d[n \div base]) \in Nat /\ Len(d[n]) = Len(d[n \div base]) + 1
      BY <1>6, <1>8
    <2> QED
      BY <1>1, <2>1
  <1> QED
    BY <1>1, <1>7, <1>8, <1>9 DEF Digits

\* DigitsIn is the number of digits that the greatest word has at most.
LEMMA DigitsInIs ==
    ASSUME NEW base \in Nat \ {0, 1}
    PROVE  DigitsIn(base) \in Nat \ {0} /\ WordSize <= Power(base, DigitsIn(base))
  <1> DEFINE W == WordSize
             T == {k \in Nat \ {0} : W <= Power(base, k)}
  <1>1. W \in Nat /\ W >= 2
    BY Widths
  <1>2. \A k \in Nat : k < Power(base, k)
    <2> DEFINE S == {k \in Nat : k < Power(base, k)}
    <2>1. 0 \in S
      BY PowerIs
    <2>2. ASSUME NEW k \in Nat, k \in S PROVE k + 1 \in S
      <3> DEFINE w == Power(base, k)
      <3>1. w \in Nat \ {0} /\ Power(base, k + 1) = base * w /\ k < w
        BY <2>2, PowerIs
      <3> HIDE DEF w
      <3>2. 2 * w <= base * w
        BY <3>1, MulMono
      <3> QED
        BY <3>1, <3>2
    <2> HIDE DEF S
    <2>3. Nat \subseteq S
      BY <2>1, <2>2, SetInduction
    <2> QED
      BY <2>3 DEF S
  <1>3. W \in T /\ T \in SUBSET Nat
    <2>1. W < Power(base, W) /\ Power(base, W) \in Nat
      BY <1>1, <1>2, PowerIs
    <2> QED
      BY <1>1, <2>1
  <1>4. PICK k \in T : \A j \in T : k <= j
    BY <1>3, LeastElement
  <1>5. k \in 1..W /\ k \in Nat /\ k - 1 \in Nat
    BY <1>1, <1>3, <1>4
  <1>6. Power(base, k - 1) < W
    <2>1. CASE k = 1
      <3>1. Power(base, 0) = 1
        BY PowerIs
      <3> QED
        BY <1>1, <2>1, <3>1
    <2>2. CASE k # 1
      <3>1. k - 1 \notin T /\ k - 1 \in Nat \ {0}
        BY <1>4, <1>5, <2>2
      <3>2. Power(base, k - 1) \in Nat
        BY <1>5, PowerIs
      <3> QED
        BY <1>1, <3>1, <3>2
    <2> QED
      BY <2>1, <2>2
  <1>7. \E j \in 1..W : Power(base, j - 1) < W /\ W <= Power(base, j)
    BY <1>4, <1>5, <1>6
  <1>8. DigitsIn(base) \in 1..W /\ W <= Power(base, DigitsIn(base))
    BY <1>7 DEF DigitsIn
  <1> QED
    BY <1>1, <1>8

-----------------------------------------------------------------------------
(* The length of what a conversion writes.                                 *)

\* s is a sequence, of whatever.
List(s) == s \in Seq(ToSet(s)) /\ Len(s) \in Nat

\* A sequence is a list of its own elements.
LEMMA ListIs ==
    ASSUME NEW S, NEW s \in Seq(S)
    PROVE  List(s)
  <1>1. Len(s) \in Nat /\ \A i \in 1..Len(s) : s[i] \in ToSet(s)
    BY DEF ToSet
  <1>2. s \in Seq(ToSet(s))
    BY <1>1
  <1> QED
    BY <1>1, <1>2 DEF List

\* So is a sequence that is made element by element.
LEMMA ListMade ==
    ASSUME NEW n \in Nat, NEW F
    PROVE  List([i \in 1..n |-> F[i]]) /\ Len([i \in 1..n |-> F[i]]) = n
  <1> DEFINE s == [i \in 1..n |-> F[i]]
             S == {F[i] : i \in 1..n}
  <1>1. s \in Seq(S) /\ Len(s) = n
    BY IsASeq
  <1> HIDE DEF s, S
  <1>2. List(s)
    BY <1>1, ListIs
  <1> QED
    BY <1>1, <1>2 DEF s

\* Two lists make a list that is as long as both.
LEMMA ListJoin ==
    ASSUME NEW s, NEW t, List(s), List(t)
    PROVE  List(s \o t) /\ Len(s \o t) = Len(s) + Len(t)
  <1> DEFINE S == ToSet(s) \cup ToSet(t)
  <1>1. s \in Seq(S) /\ t \in Seq(S)
    <2>1. s \in Seq(ToSet(s)) /\ t \in Seq(ToSet(t))
      BY DEF List
    <2>2. ToSet(s) \subseteq S /\ ToSet(t) \subseteq S
      OBVIOUS
    <2> HIDE DEF S
    <2> QED
      BY <2>1, <2>2
  <1> HIDE DEF S
  <1>2. s \o t \in Seq(S) /\ Len(s \o t) = Len(s) + Len(t)
    BY <1>1, ConcatProperties
  <1> QED
    BY <1>2, ListIs

\* The lists of no, one and two elements.
LEMMA ListShort ==
    ASSUME NEW x, NEW y
    PROVE  /\ List(<<>>) /\ Len(<<>>) = 0
           /\ List(<<x>>) /\ Len(<<x>>) = 1
           /\ List(<<x, y>>) /\ Len(<<x, y>>) = 2
  <1>1. <<>> \in Seq({x}) /\ <<x>> \in Seq({x}) /\ <<x, y>> \in Seq({x, y})
    OBVIOUS
  <1> QED
    BY <1>1, ListIs

\* Padding is a list, empty when nothing is left to fill.
LEMMA PadIs ==
    ASSUME NEW c, NEW n \in Int
    PROVE  List(Pad(c, n)) /\ Len(Pad(c, n)) = IF n <= 0 THEN 0 ELSE n
  <1> DEFINE F == [i \in 1..n |-> c]
  <1>1. Pad(c, n) = F
    BY DEF Pad
  <1>2. CASE n <= 0
    <2>1. F = <<>>
      BY <1>2
    <2> QED
      BY <1>1, <1>2, <2>1, ListShort
  <1>3. CASE n > 0
    <2>1. F = [i \in 1..n |-> F[i]] /\ n \in Nat
      BY <1>3
    <2> HIDE DEF F
    <2>2. List([i \in 1..n |-> F[i]]) /\ Len([i \in 1..n |-> F[i]]) = n
      BY <2>1, ListMade
    <2> QED
      BY <1>1, <1>3, <2>1, <2>2
  <1> QED
    BY <1>2, <1>3

Bases == {8, 10, 16}

\* The room that a type leaves for a sign, and for a prefix.
SignRoom(type)         == IF type \cap {"SIGN", "PLUS", "SPACE"} # {} THEN 1 ELSE 0
PrefixRoom(type, base) == IF "SPECIAL" \notin type THEN 0
                          ELSE CASE base = 16 -> 2 [] base = 8 -> 1 [] OTHER -> 0

\* The text fills a field of the size, or is as much longer as the sign, the prefix
\* and the digits need.
Fits(text, base, size, precision, type) ==
    /\ List(text)
    /\ \E sign \in 0..SignRoom(type), digits \in 1..DigitsIn(base) :
         Len(text) = Max({size, (sign + PrefixRoom(type, base)) + Max({precision, digits})})

\* The characters of two lists that are joined.
LEMMA JoinAt ==
    ASSUME NEW s, NEW t, List(s), List(t)
    PROVE  /\ List(s \o t) /\ Len(s \o t) = Len(s) + Len(t)
           /\ \A i \in 1..Len(s) : (s \o t)[i] = s[i]
           /\ \A i \in 1..Len(t) : (s \o t)[Len(s) + i] = t[i]
  <1> DEFINE S == ToSet(s) \cup ToSet(t)
             u == s \o t
             l == Len(s)
             m == Len(t)
  <1>1. s \in Seq(S) /\ t \in Seq(S)
    <2>1. s \in Seq(ToSet(s)) /\ t \in Seq(ToSet(t))
      BY DEF List
    <2>2. ToSet(s) \subseteq S /\ ToSet(t) \subseteq S
      OBVIOUS
    <2> HIDE DEF S
    <2> QED
      BY <2>1, <2>2
  <1>2. l \in Nat /\ m \in Nat
    BY DEF List
  <1> HIDE DEF S
  <1>3. Len(u) = l + m /\ \A i \in 1..(l + m) : u[i] = IF i <= l THEN s[i] ELSE t[i - l]
    BY <1>1, ConcatProperties
  <1> HIDE DEF u, l, m
  <1>4. \A i \in 1..l : u[i] = s[i]
    BY <1>2, <1>3
  <1>5. \A i \in 1..m : l + i \in 1..(l + m) /\ ~(l + i <= l) /\ (l + i) - l = i
    BY <1>2
  <1>6. \A i \in 1..m : u[l + i] = t[i]
    BY <1>3, <1>5
  <1> QED
    BY <1>3, <1>4, <1>6, ListJoin DEF u, l, m

\* What every place of a padding has, and that two paddings make one.
LEMMA PadAt ==
    ASSUME NEW c, NEW n \in Nat
    PROVE  /\ List(Pad(c, n)) /\ Len(Pad(c, n)) = n
           /\ \A i \in 1..n : Pad(c, n)[i] = c
           /\ \A m \in Nat : Pad(c, m) \o Pad(c, n) = Pad(c, m + n)
  <1>1. List(Pad(c, n)) /\ Len(Pad(c, n)) = n
    BY PadIs
  <1>2. \A i \in 1..n : Pad(c, n)[i] = c
    BY DEF Pad
  <1>3. ASSUME NEW m \in Nat PROVE Pad(c, m) \o Pad(c, n) = Pad(c, m + n)
    <2> DEFINE s == Pad(c, m)
               t == Pad(c, n)
               u == Pad(c, m + n)
    <2>1. s \in Seq({c}) /\ t \in Seq({c}) /\ u \in Seq({c}) /\ Len(s) = m /\ Len(t) = n
          /\ Len(u) = m + n /\ \A i \in 1..(m + n) : u[i] = c
      BY DEF Pad
    <2> HIDE DEF s, t, u
    <2>2. s \o t \in Seq({c}) /\ Len(s \o t) = m + n
      BY <2>1, ConcatProperties
    <2>3. ASSUME NEW i \in 1..(m + n) PROVE (s \o t)[i] = u[i]
      <3>1. (s \o t)[i] \in {c}
        BY <2>2
      <3> QED
        BY <2>1, <3>1
    <2>4. s \o t = u
      BY <2>1, <2>2, <2>3, SeqEqual
    <2> QED
      BY <2>4 DEF s, t, u
  <1> QED
    BY <1>1, <1>2, <1>3

\* A number in its field: blanks, sign, prefix, zeros, digits and blanks.
Shape(text, f, sign, prefix, z, tmp, e) ==
    text = ((((Pad("SP", f) \o sign) \o prefix) \o Pad("0", z)) \o tmp) \o Pad("SP", e)

\* Where these parts lie in the text.
Placed(text, f, sign, prefix, z, tmp, e) ==
    LET a == f + Len(sign)
        p == a + Len(prefix)
        m == p + z
        b == m + Len(tmp)
    IN  /\ List(text) /\ Len(text) = b + e
        /\ \A i \in 1..f : text[i] = "SP"
        /\ \A i \in 1..Len(sign) : text[f + i] = sign[i]
        /\ \A i \in 1..Len(prefix) : text[a + i] = prefix[i]
        /\ \A i \in 1..z : text[p + i] = "0"
        /\ \A i \in 1..Len(tmp) : text[m + i] = tmp[i]
        /\ \A i \in 1..e : text[b + i] = "SP"

\* Where these stand.
LEMMA ShapeAt ==
    ASSUME NEW f \in Nat, NEW z \in Nat, NEW e \in Nat, NEW sign, NEW prefix, NEW tmp,
           List(sign), List(prefix), List(tmp), NEW text, Shape(text, f, sign, prefix, z, tmp, e)
    PROVE  Placed(text, f, sign, prefix, z, tmp, e)
  <1> DEFINE a == f + Len(sign)
             p == a + Len(prefix)
             m == p + z
             b == m + Len(tmp)
             ls == Len(sign)
             lp == Len(prefix)
             lt == Len(tmp)
             s1 == Pad("SP", f)
             s2 == s1 \o sign
             s3 == s2 \o prefix
             s4 == s3 \o Pad("0", z)
             s5 == s4 \o tmp
             s6 == s5 \o Pad("SP", e)
  <1>1. /\ ls \in Nat /\ lp \in Nat /\ lt \in Nat
        /\ a \in Nat /\ p \in Nat /\ m \in Nat /\ b \in Nat
    BY DEF List
  <1>2. List(s1) /\ Len(s1) = f /\ \A i \in 1..f : s1[i] = "SP"
    BY PadAt
  <1>3. List(Pad("0", z)) /\ Len(Pad("0", z)) = z /\ \A i \in 1..z : Pad("0", z)[i] = "0"
    BY PadAt
  <1>4. List(Pad("SP", e)) /\ Len(Pad("SP", e)) = e /\ \A i \in 1..e : Pad("SP", e)[i] = "SP"
    BY PadAt
  <1>5. text = s6
    BY DEF Shape
  <1> HIDE DEF s1
  <1>6. /\ List(s2) /\ Len(s2) = a /\ \A i \in 1..f : s2[i] = s1[i]
        /\ \A i \in 1..ls : s2[f + i] = sign[i]
    BY <1>2, JoinAt
  <1> HIDE DEF s2, a
  <1>7. /\ List(s3) /\ Len(s3) = p /\ \A i \in 1..a : s3[i] = s2[i]
        /\ \A i \in 1..lp : s3[a + i] = prefix[i]
    BY <1>6, JoinAt
  <1> HIDE DEF s3, p
  <1>8. /\ List(s4) /\ Len(s4) = m /\ \A i \in 1..p : s4[i] = s3[i]
        /\ \A i \in 1..z : s4[p + i] = "0"
    <2> DEFINE q == Pad("0", z)
    <2>1. /\ List(s3 \o q) /\ Len(s3 \o q) = Len(s3) + Len(q)
          /\ \A i \in 1..Len(s3) : (s3 \o q)[i] = s3[i]
          /\ \A i \in 1..Len(q) : (s3 \o q)[Len(s3) + i] = q[i]
      <3>1. List(s3) /\ List(q)
        BY <1>3, <1>7
      <3> HIDE DEF q
      <3> QED
        BY ONLY <3>1, JoinAt
    <2> HIDE DEF q
    <2> QED
      BY <1>3, <1>7, <2>1 DEF q
  <1> HIDE DEF s4, m
  <1>9. /\ List(s5) /\ Len(s5) = b /\ \A i \in 1..m : s5[i] = s4[i]
        /\ \A i \in 1..lt : s5[m + i] = tmp[i]
    <2>1. /\ List(s4) /\ List(tmp) /\ Len(s4) = m
      BY <1>8
    <2>2. /\ List(s4 \o tmp) /\ Len(s4 \o tmp) = Len(s4) + Len(tmp)
          /\ \A i \in 1..Len(s4) : (s4 \o tmp)[i] = s4[i]
          /\ \A i \in 1..Len(tmp) : (s4 \o tmp)[Len(s4) + i] = tmp[i]
      BY ONLY <2>1, JoinAt
    <2> QED
      BY <2>1, <2>2
  <1> HIDE DEF s5, b
  <1>10. /\ List(s6) /\ Len(s6) = b + e /\ \A i \in 1..b : s6[i] = s5[i]
         /\ \A i \in 1..e : s6[b + i] = "SP"
    <2> DEFINE q == Pad("SP", e)
    <2>1. /\ List(s5 \o q) /\ Len(s5 \o q) = Len(s5) + Len(q)
          /\ \A i \in 1..Len(s5) : (s5 \o q)[i] = s5[i]
          /\ \A i \in 1..Len(q) : (s5 \o q)[Len(s5) + i] = q[i]
      <3>1. List(s5) /\ List(q)
        BY <1>4, <1>9
      <3> HIDE DEF q
      <3> QED
        BY ONLY <3>1, JoinAt
    <2> HIDE DEF q
    <2> QED
      BY <1>4, <1>9, <2>1 DEF q
  <1> HIDE DEF s6, ls, lp, lt
  <1>11. a = f + ls /\ p = a + lp /\ m = p + z /\ b = m + lt
    BY DEF a, p, m, b, ls, lp, lt
  <1>12. \A i \in 1..f : s6[i] = "SP"
    <2>1. \A i \in 1..f : i \in 1..a /\ i \in 1..p /\ i \in 1..m /\ i \in 1..b
      BY <1>1, <1>11
    <2> QED
      BY <1>2, <1>6, <1>7, <1>8, <1>9, <1>10, <2>1
  <1>13. \A i \in 1..ls : s6[f + i] = sign[i]
    <2>1. \A i \in 1..ls : f + i \in 1..a /\ f + i \in 1..p /\ f + i \in 1..m /\ f + i \in 1..b
      BY <1>1, <1>11
    <2> QED
      BY <1>6, <1>7, <1>8, <1>9, <1>10, <2>1
  <1>14. \A i \in 1..lp : s6[a + i] = prefix[i]
    <2>1. \A i \in 1..lp : a + i \in 1..p /\ a + i \in 1..m /\ a + i \in 1..b
      BY <1>1, <1>11
    <2> QED
      BY <1>7, <1>8, <1>9, <1>10, <2>1
  <1>15. \A i \in 1..z : s6[p + i] = "0"
    <2>1. \A i \in 1..z : p + i \in 1..m /\ p + i \in 1..b
      BY <1>1, <1>11
    <2> QED
      BY <1>8, <1>9, <1>10, <2>1
  <1>16. \A i \in 1..lt : s6[m + i] = tmp[i]
    <2>1. \A i \in 1..lt : m + i \in 1..b
      BY <1>1, <1>11
    <2> QED
      BY <1>9, <1>10, <2>1
  <1> QED
    BY <1>5, <1>10, <1>12, <1>13, <1>14, <1>15, <1>16 DEF Placed, a, p, m, b, ls, lp, lt

\* The parts that number puts together.
SignText(num, type) ==
    IF Negative(num, type) THEN <<"-">>
    ELSE IF "PLUS" \in type THEN <<"+">>
    ELSE IF "SPACE" \in type THEN <<"SP">> ELSE <<>>

PrefixText(base, type) ==
    CASE "SPECIAL" \in type /\ base = 16 -> <<"0", IF "SMALL" \in type THEN "x" ELSE "X">>
      [] "SPECIAL" \in type /\ base = 8 -> <<"0">>
      [] OTHER -> <<>>

Absolute(num, type) == IF Negative(num, type) THEN -Signed(num) ELSE num

DigitText(num, base, type) ==
    LET n == Absolute(num, type) IN
    IF n = 0 THEN <<"0">>
    ELSE [i \in DOMAIN DivideDown(n, base) |->
              DigitsOf("SMALL" \in type)[DivideDown(n, base)[i] + 1]]

\* The zeros that the precision asks for, and the room that is left in the field.
Zeros(precision, tmp) == IF precision <= Len(tmp) THEN 0 ELSE precision - Len(tmp)
Spare(size, sign, prefix, precision, tmp) ==
    LET room == Room(size, sign, prefix, precision, tmp) IN IF room <= 0 THEN 0 ELSE room

\* What the parts are.
LEMMA PartsAre ==
    ASSUME NEW num \in Word, NEW base \in Bases, NEW type
    PROVE  /\ List(SignText(num, type)) /\ Len(SignText(num, type)) \in 0..SignRoom(type)
           /\ List(PrefixText(base, type))
           /\ Len(PrefixText(base, type)) = PrefixRoom(type, base)
           /\ Absolute(num, type) \in 0..(WordSize - 1)
           /\ List(DigitText(num, base, type))
           /\ Len(DigitText(num, base, type)) \in 1..DigitsIn(base)
  <1> DEFINE small  == "SMALL" \in type
             sign   == SignText(num, type)
             prefix == PrefixText(base, type)
             n      == Absolute(num, type)
             tmp    == DigitText(num, base, type)
             plen   == PrefixRoom(type, base)
             signs  == SignRoom(type)
  <1> USE DEF Bases
  <1>1. List(sign) /\ Len(sign) \in 0..signs
    <2>1. Negative(num, type) => "SIGN" \in type
      BY DEF Negative
    <2>2. CASE sign = <<>>
      <3>1. 0 \in 0..signs
        BY DEF SignRoom
      <3>2. List(<<>>) /\ Len(<<>>) = 0
        BY ListShort
      <3> HIDE DEF sign, signs
      <3> QED
        BY <2>2, <3>1, <3>2
    <2>3. CASE sign # <<>>
      <3>1. type \cap {"SIGN", "PLUS", "SPACE"} # {}
        BY <2>1, <2>3 DEF SignText
      <3>2. List(sign) /\ Len(sign) = 1
        <4>1. sign = <<"-">> \/ sign = <<"+">> \/ sign = <<"SP">>
          BY <2>3 DEF SignText
        <4> HIDE DEF sign
        <4> QED
          BY <4>1, ListShort
      <3>3. signs = 1
        BY <3>1 DEF SignRoom
      <3> HIDE DEF sign, signs
      <3> QED
        BY <3>2, <3>3
    <2> QED
      BY <2>2, <2>3
  <1>2. List(prefix) /\ Len(prefix) = plen
    <2>1. CASE "SPECIAL" \notin type \/ base = 10
      <3>1. prefix = <<>> /\ plen = 0
        BY <2>1 DEF PrefixText, PrefixRoom
      <3> QED
        BY <3>1, ListShort
    <2>2. CASE "SPECIAL" \in type /\ base = 16
      <3>1. prefix = <<"0", IF small THEN "x" ELSE "X">> /\ plen = 2
        BY <2>2 DEF PrefixText, PrefixRoom
      <3> QED
        BY <3>1, ListShort
    <2>3. CASE "SPECIAL" \in type /\ base = 8
      <3>1. prefix = <<"0">> /\ plen = 1
        BY <2>3 DEF PrefixText, PrefixRoom
      <3> QED
        BY <3>1, ListShort
    <2> QED
      BY <2>1, <2>2, <2>3
  <1> HIDE DEF sign, prefix
  <1>3. n \in 0..(WordSize - 1)
    <2>1. WordSize \in Nat \ {0} /\ num \in 0..(WordSize - 1)
      BY Widths DEF Word
    <2>2. Signed(num) = IF num < WordSize \div 2 THEN num ELSE num - WordSize
      BY DEF Signed
    <2>3. WordSize \div 2 \in Nat /\ (num = 0 => num < WordSize \div 2)
      <3>1. WordSize % 2 = 0
        BY Widths
      <3> QED
        BY <2>1, <3>1
    <2>4. CASE Negative(num, type)
      <3>1. Signed(num) < 0 /\ n = -Signed(num)
        BY <2>4 DEF Negative, Absolute
      <3> QED
        BY <2>1, <2>2, <2>3, <3>1
    <2>5. CASE ~Negative(num, type)
      BY <2>1, <2>5 DEF Absolute
    <2> QED
      BY <2>4, <2>5
  <1>4. List(tmp) /\ Len(tmp) \in 1..DigitsIn(base)
    <2>1. base \in Nat \ {0, 1}
      OBVIOUS
    <2>2. DigitsIn(base) \in Nat \ {0} /\ WordSize <= Power(base, DigitsIn(base))
          /\ Power(base, DigitsIn(base)) \in Nat \ {0}
      BY <2>1, DigitsInIs, PowerIs
    <2>3. CASE n = 0
      <3>1. 1 \in 1..DigitsIn(base)
        BY <2>2
      <3>2. tmp = <<"0">>
        BY <2>3 DEF DigitText
      <3> HIDE DEF tmp
      <3>3. List(tmp) /\ Len(tmp) = 1
        BY <3>2, ListShort
      <3> QED
        BY <3>1, <3>3
    <2>4. CASE n # 0
      <3> DEFINE d == DivideDown(n, base)
                 F == [i \in DOMAIN d |-> DigitsOf(small)[d[i] + 1]]
      <3> HIDE DEF n
      <3>1. n \in Nat \ {0} /\ n < Power(base, DigitsIn(base))
        BY <1>3, <2>2, <2>4, Widths
      <3>2. d \in Seq(0..(base - 1)) /\ Len(d) \in Nat \ {0} /\ Len(d) <= DigitsIn(base)
        BY <2>1, <2>2, <3>1, DigitsBounded
      <3>3. tmp = [i \in 1..Len(d) |-> F[i]]
        BY <2>4, <3>2 DEF DigitText, n
      <3> HIDE DEF d, F, tmp
      <3>4. List(tmp) /\ Len(tmp) = Len(d)
        BY <3>2, <3>3, ListMade
      <3> QED
        BY <2>2, <3>2, <3>4
    <2> QED
      BY <2>3, <2>4
  <1> QED
    BY <1>1, <1>2, <1>3, <1>4 DEF sign, prefix

\* How number lays the parts out.
Laid(text, num, base, size, precision, type, f, z, e) ==
    LET sign   == SignText(num, type)
        prefix == PrefixText(base, type)
        tmp    == DigitText(num, base, type)
        y      == Zeros(precision, tmp)
        r      == Spare(size, sign, prefix, precision, tmp)
    IN  /\ Shape(text, f, sign, prefix, z, tmp, e)
        /\ y <= z /\ (f + z) + e = r + y
        /\ "LEFT" \in type => f = 0
        /\ "LEFT" \notin type => e = 0

\* A list between two paddings of no length.
LEMMA Unpadded ==
    ASSUME NEW s, List(s), NEW c
    PROVE  s \o Pad(c, 0) = s /\ Pad(c, 0) \o s = s
  <1>1. Pad(c, 0) = <<>>
    BY DEF Pad
  <1>2. s \in Seq(ToSet(s))
    BY DEF List
  <1> QED
    BY <1>1, <1>2, ConcatEmptySeq

\* number, as a text with these parts.
LEMMA NumberIs ==
    ASSUME NEW num \in Word, NEW base \in Bases, NEW size \in Int,
           NEW precision \in Int, NEW type
    PROVE  \E f \in Nat, z \in Nat, e \in Nat :
               Laid(number(num, base, size, precision, type),
                    num, base, size, precision, type, f, z, e)
  <1> DEFINE flags  == IF "LEFT" \in type THEN type \ {"ZEROPAD"} ELSE type
             sign   == SignText(num, type)
             prefix == PrefixText(base, type)
             tmp    == DigitText(num, base, type)
             zeros  == Pad("0", precision - Len(tmp))
             room   == Room(size, sign, prefix, precision, tmp)
             text   == number(num, base, size, precision, type)
             y      == Zeros(precision, tmp)
             r      == Spare(size, sign, prefix, precision, tmp)
  <1>1. /\ "SIGN" \in flags <=> "SIGN" \in type
        /\ "PLUS" \in flags <=> "PLUS" \in type
        /\ "SPACE" \in flags <=> "SPACE" \in type
        /\ "SPECIAL" \in flags <=> "SPECIAL" \in type
        /\ "SMALL" \in flags <=> "SMALL" \in type
        /\ "LEFT" \in flags <=> "LEFT" \in type
        /\ "LEFT" \in flags => "ZEROPAD" \notin flags
    OBVIOUS
  <1>2. /\ SignText(num, flags) = sign /\ PrefixText(base, flags) = prefix
        /\ DigitText(num, base, flags) = tmp
    <2>1. Negative(num, flags) <=> Negative(num, type)
      BY <1>1 DEF Negative
    <2>2. Absolute(num, flags) = Absolute(num, type)
      BY <2>1 DEF Absolute
    <2>3. ("SMALL" \in flags) = ("SMALL" \in type)
      BY <1>1
    <2> HIDE DEF flags
    <2>4. SignText(num, flags) = SignText(num, type)
      BY <1>1, <2>1 DEF SignText
    <2>5. PrefixText(base, flags) = PrefixText(base, type)
      BY <1>1 DEF PrefixText
    <2>6. DigitText(num, base, flags) = DigitText(num, base, type)
      BY <2>2, <2>3 DEF DigitText
    <2> QED
      BY <2>4, <2>5, <2>6
  <1>3. text = CASE "LEFT" \in flags ->
                        sign \o prefix \o zeros \o tmp \o Pad("SP", room)
                 [] "ZEROPAD" \in flags ->
                        sign \o prefix \o Pad("0", room) \o zeros \o tmp
                 [] OTHER ->
                        Pad("SP", room) \o sign \o prefix \o zeros \o tmp
    <2>1. text = LET s == SignText(num, flags)
                     p == PrefixText(base, flags)
                     t == DigitText(num, base, flags)
                     w == Room(size, s, p, precision, t)
                     v == Pad("0", precision - Len(t))
                 IN  CASE "LEFT" \in flags -> s \o p \o v \o t \o Pad("SP", w)
                       [] "ZEROPAD" \in flags -> s \o p \o Pad("0", w) \o v \o t
                       [] OTHER -> Pad("SP", w) \o s \o p \o v \o t
      BY DEF number, SignText, PrefixText, DigitText, Absolute
    <2> HIDE DEF flags
    <2> QED
      BY <1>2, <2>1
  <1> HIDE DEF flags
  <1>4. List(sign) /\ List(prefix) /\ List(tmp)
    BY PartsAre
  <1>5. y \in Nat /\ zeros = Pad("0", y)
    <2>1. Len(tmp) \in Nat
      BY <1>4 DEF List
    <2>2. precision <= Len(tmp) => zeros = <<>> /\ Pad("0", 0) = <<>>
      BY <2>1 DEF Pad
    <2> QED
      BY <2>1, <2>2 DEF Zeros
  <1>6. room \in Int
    <2>1. Len(sign) \in Nat /\ Len(prefix) \in Nat /\ Len(tmp) \in Nat
      BY <1>4 DEF List
    <2>2. Max({precision, Len(tmp)}) \in Int
      BY <2>1, MaxPair
    <2> QED
      BY <2>1, <2>2 DEF Room
  <1>7. r \in Nat /\ \A c : Pad(c, room) = Pad(c, r)
    <2>1. room <= 0 => \A c : Pad(c, room) = <<>> /\ Pad(c, 0) = <<>>
      BY <1>6 DEF Pad
    <2>2. r = IF room <= 0 THEN 0 ELSE room
      BY DEF Spare
    <2> QED
      BY <1>6, <2>1, <2>2
  <1>8. List(Pad("SP", 0)) /\ List(Pad("0", 0)) /\ 0 \in Nat
    BY PadAt
  <1> HIDE DEF zeros, room, text, y, r
  <1>9. ASSUME NEW f \in Nat, NEW z \in Nat, NEW e \in Nat, Shape(text, f, sign, prefix, z, tmp, e),
               y <= z, (f + z) + e = r + y, "LEFT" \in type => f = 0, "LEFT" \notin type => e = 0
        PROVE  Laid(text, num, base, size, precision, type, f, z, e)
    BY <1>9 DEF Laid, y, r
  <1> HIDE DEF sign, prefix, tmp
  <1>10. CASE "LEFT" \in flags
    <2>1. text = (((sign \o prefix) \o Pad("0", y)) \o tmp) \o Pad("SP", r)
      BY <1>1, <1>3, <1>5, <1>7, <1>10
    <2>2. Pad("SP", 0) \o sign = sign
      BY <1>4, Unpadded
    <2>3. Shape(text, 0, sign, prefix, y, tmp, r)
      BY <2>1, <2>2 DEF Shape
    <2>4. y <= y /\ (0 + y) + r = r + y
      BY <1>5, <1>7
    <2>5. Laid(text, num, base, size, precision, type, 0, y, r)
      BY <1>1, <1>5, <1>7, <1>8, <1>9, <1>10, <2>3, <2>4
    <2> QED
      BY <1>5, <1>7, <1>8, <2>5 DEF text
  <1>11. CASE "LEFT" \notin flags /\ "ZEROPAD" \in flags
    <2>1. text = (((sign \o prefix) \o Pad("0", r)) \o Pad("0", y)) \o tmp
      BY <1>3, <1>5, <1>7, <1>11
    <2>2. Pad("SP", 0) \o sign = sign
      BY <1>4, Unpadded
    <2>3. ((sign \o prefix) \o Pad("0", r)) \o Pad("0", y) = (sign \o prefix) \o Pad("0", r + y)
      <3>1. List(sign \o prefix) /\ List(Pad("0", r)) /\ List(Pad("0", y))
        BY <1>4, <1>5, <1>7, ListJoin, PadAt
      <3>2. Pad("0", r) \o Pad("0", y) = Pad("0", r + y)
        BY <1>5, <1>7, PadAt
      <3> DEFINE a == sign \o prefix
                 b == Pad("0", r)
                 c == Pad("0", y)
                 S == (ToSet(a) \cup ToSet(b)) \cup ToSet(c)
      <3>3. a \in Seq(ToSet(a)) /\ b \in Seq(ToSet(b)) /\ c \in Seq(ToSet(c))
        BY <3>1 DEF List
      <3>4. ToSet(a) \subseteq S /\ ToSet(b) \subseteq S /\ ToSet(c) \subseteq S
        OBVIOUS
      <3> HIDE DEF a, b, c, S
      <3>5. a \in Seq(S) /\ b \in Seq(S) /\ c \in Seq(S)
        BY <3>3, <3>4
      <3>6. (a \o b) \o c = a \o (b \o c)
        BY <3>5, ConcatAssociative
      <3> QED
        BY <3>2, <3>6 DEF a, b, c
    <2>4. text \o Pad("SP", 0) = text
      <3>1. List(sign \o prefix) /\ List(Pad("0", r + y))
        <4>1. r + y \in Nat
          BY <1>5, <1>7
        <4> QED
          BY <1>4, <4>1, ListJoin, PadAt
      <3>2. List((sign \o prefix) \o Pad("0", r + y))
        BY <3>1, ListJoin
      <3>3. List(((sign \o prefix) \o Pad("0", r + y)) \o tmp)
        BY <1>4, <3>2, ListJoin
      <3>4. List(text)
        BY <2>1, <2>3, <3>3
      <3> QED
        BY <3>4, Unpadded
    <2>5. Shape(text, 0, sign, prefix, r + y, tmp, 0)
      BY <2>1, <2>2, <2>3, <2>4 DEF Shape
    <2>6. r + y \in Nat /\ y <= r + y /\ (0 + (r + y)) + 0 = r + y
      BY <1>5, <1>7
    <2>7. Laid(text, num, base, size, precision, type, 0, r + y, 0)
      BY <1>1, <1>8, <1>9, <1>11, <2>5, <2>6
    <2> QED
      BY <1>8, <2>6, <2>7 DEF text
  <1>12. CASE "LEFT" \notin flags /\ "ZEROPAD" \notin flags
    <2>1. text = (((Pad("SP", r) \o sign) \o prefix) \o Pad("0", y)) \o tmp
      BY <1>3, <1>5, <1>7, <1>12
    <2>2. text \o Pad("SP", 0) = text
      <3>1. List(Pad("SP", r) \o sign) /\ List(Pad("0", y))
        BY <1>4, <1>5, <1>7, ListJoin, PadAt
      <3>2. List((Pad("SP", r) \o sign) \o prefix)
        BY <1>4, <3>1, ListJoin
      <3>3. List(((Pad("SP", r) \o sign) \o prefix) \o Pad("0", y))
        BY <3>1, <3>2, ListJoin
      <3>4. List(text)
        BY <1>4, <2>1, <3>3, ListJoin
      <3> QED
        BY <3>4, Unpadded
    <2>3. Shape(text, r, sign, prefix, y, tmp, 0)
      BY <2>1, <2>2 DEF Shape
    <2>4. y <= y /\ (r + y) + 0 = r + y
      BY <1>5, <1>7
    <2>5. Laid(text, num, base, size, precision, type, r, y, 0)
      BY <1>1, <1>5, <1>7, <1>8, <1>9, <1>12, <2>3, <2>4
    <2> QED
      BY <1>5, <1>7, <1>8, <2>5 DEF text
  <1> QED
    BY <1>10, <1>11, <1>12

\* What number writes does.
LEMMA NumberLength ==
    ASSUME NEW num \in Word, NEW base \in Bases, NEW size \in Int,
           NEW precision \in Int, NEW type
    PROVE  Fits(number(num, base, size, precision, type), base, size, precision, type)
  <1> DEFINE sign   == SignText(num, type)
             prefix == PrefixText(base, type)
             tmp    == DigitText(num, base, type)
             text   == number(num, base, size, precision, type)
             y      == Zeros(precision, tmp)
             r      == Spare(size, sign, prefix, precision, tmp)
             a      == Len(sign)
             b      == Len(tmp)
             plen   == PrefixRoom(type, base)
             m      == Max({precision, b})
             l      == Len(text)
  <1>1. /\ List(sign) /\ a \in 0..SignRoom(type) /\ List(prefix) /\ Len(prefix) = plen
        /\ List(tmp) /\ b \in 1..DigitsIn(base)
    BY PartsAre
  <1>2. PICK f \in Nat, z \in Nat, e \in Nat :
            Laid(text, num, base, size, precision, type, f, z, e)
    BY NumberIs
  <1>3. Shape(text, f, sign, prefix, z, tmp, e) /\ (f + z) + e = r + y
    BY <1>2 DEF Laid
  <1>4. List(text) /\ l = (((f + a) + Len(prefix)) + z + b) + e
    <2>1. List(sign) /\ List(prefix) /\ List(tmp) /\ Shape(text, f, sign, prefix, z, tmp, e)
      BY <1>1, <1>3
    <2>2. f \in Nat /\ z \in Nat /\ e \in Nat
      OBVIOUS
    <2> HIDE DEF sign, prefix, tmp, text
    <2>3. Placed(text, f, sign, prefix, z, tmp, e)
      BY ONLY <2>1, <2>2, ShapeAt
    <2> QED
      BY <2>3 DEF Placed
  <1>5. a \in Nat /\ b \in Nat /\ plen \in Nat
    BY <1>1 DEF List, PrefixRoom
  <1>6. m = (IF precision <= b THEN b ELSE precision)
    BY <1>5, MaxPair
  <1>7. y = (IF precision <= b THEN 0 ELSE precision - b)
    BY DEF Zeros
  <1>8. r = IF ((size - a) - plen) - m <= 0 THEN 0 ELSE ((size - a) - plen) - m
    BY <1>1 DEF Spare, Room
  <1>9. Max({size, (a + plen) + m}) = IF size <= (a + plen) + m THEN (a + plen) + m ELSE size
    <2> DEFINE u == (a + plen) + m
    <2>1. u \in Int
      <3> HIDE DEF a, b, plen, m
      <3> QED
        BY <1>5, <1>6
    <2> HIDE DEF u
    <2>2. Max({size, u}) = IF size <= u THEN u ELSE size
      BY <2>1, MaxPair
    <2> QED
      BY <2>2 DEF u
  <1>10. l = (((f + a) + plen) + z + b) + e
    BY <1>1, <1>4
  <1> HIDE DEF a, b, plen, m, l, y, r
  <1>11. l = Max({size, (a + plen) + m})
    BY <1>3, <1>5, <1>6, <1>7, <1>8, <1>9, <1>10
  <1> QED
    BY <1>1, <1>4, <1>11 DEF Fits, a, b, plen, m, l

-----------------------------------------------------------------------------
(* What a format can make vsprintf write.                                  *)

\* The arguments of the first pieces are no more than those of all.
LEMMA TakesGrow ==
    ASSUME call \in Calls, NEW k \in Nat, NEW m \in k..Len(call.pieces)
    PROVE  Total(Takes(k)) \in Int /\ Total(Takes(m)) \in Int
           /\ Total(Takes(k)) <= Total(Takes(m))
  <1> DEFINE n == Len(call.pieces)
             S == {j \in Nat : k + j <= n =>
                     /\ Total(Takes(k)) \in Int /\ Total(Takes(k + j)) \in Int
                     /\ Total(Takes(k)) <= Total(Takes(k + j))}
  <1>1. n \in Nat
    BY TextsAre
  <1>2. ASSUME NEW i \in 0..n PROVE Total(Takes(i)) \in Int
    <2> DEFINE F == [j \in 1..(i + 1) |-> IF j <= i THEN Taken(call.pieces[j]) ELSE 0]
    <2>1. i \in Nat /\ \A j \in 1..i : j \in 1..(i + 1) /\ j <= i
      BY <1>1
    <2>2. \A j \in 1..(i + 1) : F[j] \in Int
      BY DEF Taken
    <2>3. [j \in 1..i |-> F[j]] = Takes(i)
      BY <2>1 DEF Takes
    <2> HIDE DEF F
    <2>4. Total([j \in 1..i |-> F[j]]) \in Int
      BY <2>1, <2>2, TotalTo
    <2> QED
      BY <2>3, <2>4
  <1>3. 0 \in S
    <2>1. k \in 0..n /\ k + 0 = k
      BY <1>1
    <2>2. Total(Takes(k)) \in Int
      BY <1>2, <2>1
    <2> QED
      BY <2>1, <2>2
  <1>4. ASSUME NEW j \in Nat, j \in S PROVE j + 1 \in S
    <2> SUFFICES ASSUME k + (j + 1) <= n
                 PROVE  /\ Total(Takes(k)) \in Int /\ Total(Takes(k + (j + 1))) \in Int
                        /\ Total(Takes(k)) <= Total(Takes(k + (j + 1)))
      OBVIOUS
    <2>1. k + j \in 0..(n - 1) /\ k + (j + 1) = (k + j) + 1 /\ k + j <= n
      BY <1>1
    <2>2. /\ Total(Takes(k)) \in Int /\ Total(Takes(k + j)) \in Int
          /\ Total(Takes(k)) <= Total(Takes(k + j))
      BY <1>4, <2>1
    <2>3. Total(Takes((k + j) + 1)) = Total(Takes(k + j)) + Taken(call.pieces[(k + j) + 1])
      BY <2>1, TakesNext
    <2>4. Taken(call.pieces[(k + j) + 1]) \in Nat
      BY DEF Taken
    <2> DEFINE x == Total(Takes(k))
               y == Total(Takes(k + j))
               z == Taken(call.pieces[(k + j) + 1])
    <2>5. x \in Int /\ y \in Int /\ x <= y /\ z \in Nat
      BY <2>2, <2>4
    <2>6. Total(Takes(k + (j + 1))) = y + z
      BY <2>1, <2>3
    <2> HIDE DEF x, y, z
    <2>7. y + z \in Int /\ x <= y + z
      BY <2>5
    <2> QED
      BY <2>5, <2>6, <2>7 DEF x
  <1> HIDE DEF S
  <1>5. Nat \subseteq S
    BY <1>3, <1>4, SetInduction
  <1>6. m - k \in S /\ k + (m - k) = m /\ m <= n
    BY <1>1, <1>5
  <1> QED
    BY <1>6 DEF S

\* A pass that takes an argument finds one.
LEMMA ArgumentThere ==
    ASSUME FormatInv, PieceInv, Meant, StarFree, At(fmt) # "NUL",
           Taken(call.pieces[passes + 1]) = 1
    PROVE  va_arg(args) \in Word
  <1> DEFINE n == Len(call.pieces)
  <1>1. call \in Calls /\ n \in Nat
    BY TextsAre DEF FormatInv
  <1>2. passes \in 0..(n - 1) /\ args = 1 + Total(Takes(passes))
    BY CurrentPiece DEF PieceInv
  <1>3. Total(Takes(passes + 1)) = Total(Takes(passes)) + 1
    BY <1>1, <1>2, TakesNext
  <1>4. call.args \in Seq(Word) /\ Total(Takes(n)) <= Len(call.args)
    <2>1. DOMAIN call.pieces = 1..n
      BY <1>1, CallsWritten
    <2>2. [i \in DOMAIN call.pieces |-> Taken(call.pieces[i])] = Takes(n)
      BY <2>1 DEF Takes
    <2> QED
      BY <1>1, <2>2, CallsWritten DEF Meant
  <1>5. 0 <= Total(Takes(passes)) /\ Total(Takes(passes)) \in Int
    <2>1. Total(Takes(0)) = 0
      <3>1. Takes(0) = <<>> /\ <<>> \in Seq(Int) /\ Len(<<>>) = 0
        BY DEF Takes
      <3>2. PICK f : Sums(f, <<>>, 0) /\ Total(<<>>) = f[1..0]
        BY <3>1, TotalIs
      <3>3. 1..0 = {} /\ 1..0 \in SUBSET (1..0)
        OBVIOUS
      <3>4. f[1..0] = 0
        BY <3>2, <3>3 DEF Sums
      <3> QED
        BY <3>1, <3>2, <3>4
    <2>2. 0 \in Nat /\ passes \in 0..n
      BY <1>1, <1>2
    <2>3. Total(Takes(passes)) \in Int /\ Total(Takes(0)) <= Total(Takes(passes))
      BY <1>1, <2>2, TakesGrow
    <2> QED
      BY <2>1, <2>3
  <1>6. Total(Takes(passes + 1)) <= Total(Takes(n)) /\ Total(Takes(n)) \in Int
    <2>1. passes + 1 \in Nat /\ n \in (passes + 1)..n
      BY <1>1, <1>2
    <2> QED
      BY <1>1, <2>1, TakesGrow
  <1> DEFINE a == call.args
             l == Len(a)
             x == Total(Takes(passes))
             y == Total(Takes(n))
  <1>7. l \in Nat /\ \A i \in 1..l : a[i] \in Word
    BY <1>4
  <1> HIDE DEF a, l, x, y
  <1>8. args \in 1..l
    <2>1. args = 1 + x /\ x + 1 <= y /\ y <= l /\ 0 <= x /\ x \in Int /\ y \in Int
      BY <1>2, <1>3, <1>4, <1>5, <1>6 DEF l, x, y, a
    <2> QED
      BY <1>7, <2>1
  <1> QED
    BY <1>7, <1>8 DEF va_arg, a

\* The greatest of three numbers.
LEMMA MaxThree ==
    ASSUME NEW a \in Int, NEW b \in Int, NEW c \in Int
    PROVE  /\ Max({a, b, c}) \in Int
           /\ a <= Max({a, b, c}) /\ b <= Max({a, b, c}) /\ c <= Max({a, b, c})
  <1>1. \E x \in {a, b, c} : \A y \in {a, b, c} : x >= y
    OBVIOUS
  <1>2. Max({a, b, c}) \in {a, b, c} /\ \A y \in {a, b, c} : Max({a, b, c}) >= y
    BY <1>1 DEF Max
  <1> QED
    BY <1>2

Numeric == {"o", "p", "x", "X", "d", "i", "u"}

SignOf(p)   == IF p.conv \in {"d", "i"} \/ p.flags \cap {"PLUS", "SPACE"} # {} THEN 1 ELSE 0
PrefixOf(p) == IF "SPECIAL" \notin p.flags THEN 0
               ELSE CASE BaseOf(p.conv) = 16 -> 2 [] BaseOf(p.conv) = 8 -> 1 [] OTHER -> 0

\* MostOf, conversion by conversion.
LEMMA MostOfIs ==
    ASSUME NEW p \in Pieces, p.conv \in Conversions \cup {"copy"}
    PROVE  /\ p.width \in Int /\ p.prec \in Int /\ MostOf(p) \in Int
           /\ p.conv = "n" => MostOf(p) = 0
           /\ p.conv = "s" =>
                MostOf(p) = Max({p.width, IF p.prec < 0 THEN 3 ELSE p.prec})
           /\ p.conv \in {"copy", "%", "c"} => MostOf(p) = Max({p.width, 1})
           /\ p.conv \in Numeric =>
                /\ DigitsIn(BaseOf(p.conv)) \in Nat \ {0} /\ BaseOf(p.conv) \in {8, 10, 16}
                /\ p.width <= MostOf(p)
                /\ (SignOf(p) + PrefixOf(p)) + Max({p.prec, DigitsIn(BaseOf(p.conv))})
                     <= MostOf(p)
                /\ p.conv = "p" => 8 <= MostOf(p)
  <1>1. p.width \in Int /\ p.prec \in Int
    BY DEF Pieces
  <1>2. p.conv = "n" => MostOf(p) = 0
    BY DEF MostOf
  <1>3. ASSUME p.conv = "s"
        PROVE  /\ MostOf(p) = Max({p.width, IF p.prec < 0 THEN 3 ELSE p.prec})
               /\ MostOf(p) \in Int
    <2>1. MostOf(p) = Max({p.width, IF p.prec < 0 THEN 3 ELSE p.prec})
      BY <1>3 DEF MostOf
    <2> QED
      BY <1>1, <2>1, MaxPair
  <1>4. ASSUME p.conv \in {"copy", "%", "c"}
        PROVE  MostOf(p) = Max({p.width, 1}) /\ MostOf(p) \in Int
    <2>1. MostOf(p) = Max({p.width, 1})
      BY <1>4 DEF MostOf
    <2> QED
      BY <1>1, <2>1, MaxPair
  <1>5. ASSUME p.conv \in Numeric
        PROVE  /\ DigitsIn(BaseOf(p.conv)) \in Nat \ {0} /\ BaseOf(p.conv) \in {8, 10, 16}
               /\ MostOf(p) \in Int /\ p.width <= MostOf(p)
               /\ (SignOf(p) + PrefixOf(p)) + Max({p.prec, DigitsIn(BaseOf(p.conv))})
                    <= MostOf(p)
               /\ p.conv = "p" => 8 <= MostOf(p)
    <2> DEFINE g == DigitsIn(BaseOf(p.conv))
               e == Max({p.prec, g})
               z == (SignOf(p) + PrefixOf(p)) + e
    <2>1. BaseOf(p.conv) \in {8, 10, 16}
      BY DEF BaseOf
    <2>2. g \in Nat \ {0}
      <3>1. BaseOf(p.conv) \in Nat \ {0, 1}
        BY <2>1
      <3> QED
        BY <3>1, DigitsInIs
    <2>3. MostOf(p) = IF p.conv = "p" THEN Max({8, p.width, z}) ELSE Max({p.width, z})
      BY <1>5 DEF MostOf, SignOf, PrefixOf, Numeric
    <2>4. z \in Int
      <3>1. SignOf(p) \in Int /\ PrefixOf(p) \in Int
        BY DEF SignOf, PrefixOf
      <3>2. e \in Int
        <4> HIDE DEF g
        <4> QED
          BY <1>1, <2>2, MaxPair
      <3> HIDE DEF e
      <3> QED
        BY <3>1, <3>2
    <2> HIDE DEF z
    <2>5. CASE p.conv = "p"
      <3>1. /\ Max({8, p.width, z}) \in Int /\ 8 <= Max({8, p.width, z})
            /\ p.width <= Max({8, p.width, z}) /\ z <= Max({8, p.width, z})
        <4> DEFINE w == p.width
                   x == 8
        <4>1. w \in Int /\ x \in Int
          BY <1>1
        <4> HIDE DEF w, x
        <4>2. /\ Max({x, w, z}) \in Int /\ x <= Max({x, w, z})
              /\ w <= Max({x, w, z}) /\ z <= Max({x, w, z})
          BY <2>4, <4>1, MaxThree
        <4> QED
          BY <4>2 DEF w, x
      <3> QED
        BY <2>1, <2>2, <2>3, <2>5, <3>1 DEF z
    <2>6. CASE p.conv # "p"
      <3>1. Max({p.width, z}) = IF p.width <= z THEN z ELSE p.width
        BY <1>1, <2>4, MaxPair
      <3>2. MostOf(p) \in Int /\ p.width <= MostOf(p) /\ z <= MostOf(p)
        BY <1>1, <2>3, <2>4, <2>6, <3>1
      <3> QED
        BY <2>1, <2>2, <2>6, <3>2 DEF z
    <2> QED
      BY <2>5, <2>6
  <1>6. MostOf(p) \in Int
    <2>1. p.conv \in {"n", "s", "copy", "%", "c"} \cup Numeric
      BY DEF Conversions, Numeric
    <2> QED
      BY <1>2, <1>3, <1>4, <1>5, <2>1
  <1> QED
    BY <1>1, <1>2, <1>3, <1>4, <1>5, <1>6

\* A field of at least so many characters.
LEMMA FieldLength ==
    ASSUME NEW d, NEW text, List(text), d.field_width \in Int
    PROVE  List(Field(d, text)) /\ Len(Field(d, text)) = Max({d.field_width, Len(text)})
  <1> DEFINE w == d.field_width
             n == Len(text)
             v == Pad("SP", w - n)
  <1>1. n \in Nat /\ w \in Int /\ w - n \in Int
    BY DEF List
  <1>2. List(v) /\ Len(v) = IF w - n <= 0 THEN 0 ELSE w - n
    BY <1>1, PadIs
  <1>3. Field(d, text) = IF "LEFT" \in d.flags THEN text \o v ELSE v \o text
    BY DEF Field
  <1> HIDE DEF v
  <1>4. /\ List(text \o v) /\ Len(text \o v) = n + Len(v)
        /\ List(v \o text) /\ Len(v \o text) = Len(v) + n
    BY <1>2, ListJoin
  <1>5. Max({w, n}) = IF w <= n THEN n ELSE w
    BY <1>1, MaxPair
  <1> DEFINE lv == Len(v)
             mx == Max({w, n})
  <1> HIDE DEF lv, mx
  <1>6. n + lv = mx /\ lv + n = mx
    <2>1. lv = IF w - n <= 0 THEN 0 ELSE w - n
      BY <1>2 DEF lv
    <2>2. mx = IF w <= n THEN n ELSE w
      BY <1>5 DEF mx
    <2> HIDE DEF w, n
    <2> QED
      BY <1>1, <2>1, <2>2
  <1> QED
    BY <1>3, <1>4, <1>6 DEF lv, mx

Mosts(k) == [i \in 1..k |-> MostOf(call.pieces[i])]

\* The most characters that one more piece can stand for.
LEMMA MostsNext ==
    ASSUME FormatInv, Meant, NEW k \in 0..(Len(call.pieces) - 1)
    PROVE  /\ Total(Mosts(k)) \in Int
           /\ Total(Mosts(k + 1)) = Total(Mosts(k)) + MostOf(call.pieces[k + 1])
  <1> DEFINE F == [i \in 1..(k + 1) |-> MostOf(call.pieces[i])]
             n == Len(call.pieces)
  <1>1. n \in Nat /\ k \in 0..(n - 1) /\ \A i \in 1..n : call.pieces[i] \in Pieces
    BY TextsAre DEF FormatInv
  <1>2. DOMAIN call.pieces = 1..n
    BY CallsWritten DEF FormatInv
  <1>3. \A i \in 1..n : IsDirective(call.pieces[i]) \/ IsCopied(call.pieces[i])
    BY <1>2, CallsWritten DEF FormatInv, Meant
  <1> HIDE DEF n
  <1>4. ASSUME NEW i \in 1..(k + 1) PROVE F[i] = MostOf(call.pieces[i]) /\ F[i] \in Int
    <2>1. i \in 1..n
      BY <1>1
    <2>2. call.pieces[i].conv \in Conversions \cup {"copy"}
      BY <1>3, <2>1 DEF IsDirective, IsCopied
    <2>3. MostOf(call.pieces[i]) \in Int
      BY <1>1, <2>1, <2>2, MostOfIs
    <2> QED
      BY <2>3
  <1>5. k \in Nat /\ k + 1 \in 1..(k + 1) /\ \A i \in 1..k : i \in 1..(k + 1)
    BY <1>1
  <1>6. [i \in 1..k |-> F[i]] = Mosts(k) /\ [i \in 1..(k + 1) |-> F[i]] = Mosts(k + 1)
    BY <1>4, <1>5 DEF Mosts
  <1> HIDE DEF F
  <1>7. /\ Total([i \in 1..k |-> F[i]]) \in Int
        /\ Total([i \in 1..(k + 1) |-> F[i]]) = Total([i \in 1..k |-> F[i]]) + F[k + 1]
    BY <1>4, <1>5, TotalTo
  <1> QED
    BY <1>4, <1>5, <1>6, <1>7

\* A text goes behind what has been written.
LEMMA WriteAppends ==
    ASSUME List(str), NEW text, List(text), NEW m \in Int, Len(text) <= m, str' = str \o text
    PROVE  List(str') /\ Len(str') \in Nat /\ Len(str') <= Len(str) + m
  <1>1. List(str \o text) /\ Len(str \o text) = Len(str) + Len(text)
    BY ListJoin
  <1> DEFINE a == Len(str)
             b == Len(text)
             c == Len(str')
  <1>2. a \in Nat /\ b \in Nat /\ b <= m /\ c = a + b
    BY <1>1 DEF List
  <1> HIDE DEF a, b, c
  <1>3. c \in Nat /\ c <= a + m
    BY <1>2
  <1> QED
    BY <1>1, <1>3 DEF a, c

\* No pass writes more than its piece can stand for.
LEMMA PassWrites ==
    ASSUME FormatInv, PieceInv, Meant, StarFree, List(str), Next, ~Return
    PROVE  LET p == call.pieces[passes + 1] IN
           /\ List(str') /\ Len(str') \in Nat
           /\ Len(str') <= Len(str) + MostOf(p)
  <1> DEFINE p == call.pieces[passes + 1]
             d == Directive
  <1>1. At(fmt) # "NUL"
    BY PassDeals
  <1>2. p \in Pieces /\ (IsDirective(p) \/ IsCopied(p))
    BY <1>1, CurrentPiece
  <1>3. At(fmt) = "%" =>
          /\ IsDirective(p) /\ "*" \notin ToSet(p.text) /\ At(d.at) = p.conv
          /\ d.args = args /\ d.field_width = p.width /\ d.precision = p.prec
          /\ d.flags = p.flags
    BY <1>1, CurrentPiece
  <1>4. p.conv \in Conversions \cup {"copy"} /\ p.flags \subseteq FlagNames
    BY <1>2 DEF IsDirective, IsCopied, Pieces
  <1>5. (At(fmt) = "%" /\ p.conv # "%") => va_arg(d.args) \in Word
    <2> SUFFICES ASSUME At(fmt) = "%", p.conv # "%" PROVE va_arg(d.args) \in Word
      OBVIOUS
    <2>1. p.conv \in Conversions
      BY <1>3 DEF IsDirective
    <2>2. p.conv # "copy"
      BY <2>1 DEF Conversions
    <2>3. Taken(p) = 1
      BY <1>3, <2>2 DEF Taken
    <2>4. va_arg(args) \in Word
      BY <1>1, <2>3, ArgumentThere
    <2> QED
      BY <1>3, <2>4
  <1> HIDE DEF p, d
  <1>6. /\ p.width \in Int /\ p.prec \in Int /\ MostOf(p) \in Int
        /\ p.conv = "n" => MostOf(p) = 0
        /\ p.conv = "s" => MostOf(p) = Max({p.width, IF p.prec < 0 THEN 3 ELSE p.prec})
        /\ p.conv \in {"copy", "%", "c"} => MostOf(p) = Max({p.width, 1})
        /\ p.conv \in Numeric =>
             /\ DigitsIn(BaseOf(p.conv)) \in Nat \ {0} /\ BaseOf(p.conv) \in {8, 10, 16}
             /\ p.width <= MostOf(p)
             /\ (SignOf(p) + PrefixOf(p)) + Max({p.prec, DigitsIn(BaseOf(p.conv))})
                  <= MostOf(p)
             /\ p.conv = "p" => 8 <= MostOf(p)
    BY <1>2, <1>4, MostOfIs
  <1>7. p.conv \in {"copy", "%", "c"} => 1 <= MostOf(p)
    <2>1. Max({p.width, 1}) = IF p.width <= 1 THEN 1 ELSE p.width
      <3>1. p.width \in Int /\ 1 \in Int
        BY <1>6
      <3> QED
        BY <3>1, MaxPair
    <2> QED
      BY <1>6, <2>1
  <1>8. ASSUME NEW text, List(text), Len(text) <= MostOf(p), str' = str \o text
        PROVE  List(str') /\ Len(str') \in Nat /\ Len(str') <= Len(str) + MostOf(p)
    BY <1>6, <1>8, WriteAppends
  <1>9. CASE Literal
    <2>1. At(fmt) # "%" /\ str' = Append(str, At(fmt))
      BY <1>9 DEF Literal
    <2>2. p.conv = "copy"
      <3>1. IsCopied(p)
        BY <1>1, <2>1, CurrentPiece DEF p
      <3> QED
        BY <3>1 DEF IsCopied
    <2>3. Append(str, At(fmt)) = str \o <<At(fmt)>>
      <3> DEFINE S == ToSet(str) \cup {At(fmt)}
      <3>1. ToSet(str) \subseteq S /\ str \in Seq(ToSet(str)) /\ At(fmt) \in S
        BY DEF List
      <3>2. str \in Seq(S)
        BY <3>1
      <3> HIDE DEF S
      <3> QED
        BY <3>1, <3>2, AppendIsConcat
    <2>4. List(<<At(fmt)>>) /\ Len(<<At(fmt)>>) = 1
      BY ListShort
    <2>5. Len(<<At(fmt)>>) <= MostOf(p)
      BY <1>6, <1>7, <2>2, <2>4
    <2> QED
      BY <1>8, <2>1, <2>3, <2>4, <2>5 DEF p
  <1>10. CASE ConvertChar
    <2>1. At(fmt) = "%" /\ At(d.at) = "c"
          /\ str' = str \o Field(d, <<CharOf(va_arg(d.args))>>)
      BY <1>10 DEF ConvertChar, Converts, d
    <2>2. List(<<CharOf(va_arg(d.args))>>) /\ Len(<<CharOf(va_arg(d.args))>>) = 1
      BY ListShort
    <2>3. p.conv = "c" /\ d.field_width = p.width /\ d.field_width \in Int
      BY <1>3, <1>6, <2>1
    <2>4. List(Field(d, <<CharOf(va_arg(d.args))>>))
          /\ Len(Field(d, <<CharOf(va_arg(d.args))>>)) = Max({p.width, 1})
      BY <2>2, <2>3, FieldLength
    <2>5. Len(Field(d, <<CharOf(va_arg(d.args))>>)) <= MostOf(p)
      BY <1>6, <2>3, <2>4
    <2> QED
      BY <1>8, <2>1, <2>4, <2>5 DEF p
  <1>11. CASE ConvertString
    <2> DEFINE m == Memory[va_arg(d.args)]
    <2>1. PICK k \in FrameLengths :
            LET len == IF d.precision < 0 THEN k ELSE Min({k, d.precision})
            IN  str' = str \o Field(d, SubSeq(m, 1, len))
      BY <1>11 DEF ConvertString, Converts, d, strlen
    <2>2. At(fmt) = "%" /\ At(d.at) = "s"
      BY <1>11 DEF ConvertString, d
    <2>3. p.conv = "s" /\ d.field_width = p.width /\ d.precision = p.prec
          /\ p.width \in Int /\ p.prec \in Int /\ k \in 0..3
      BY <1>3, <1>6, <2>2, Widths
    <2> DEFINE len  == IF p.prec < 0 THEN k ELSE Min({k, p.prec})
               most == IF p.prec < 0 THEN 3 ELSE p.prec
               text == SubSeq(m, 1, len)
               fld  == Field(d, text)
    <2>4. str' = str \o fld
      BY <2>1, <2>3
    <2>5. len \in Nat /\ len <= most /\ most \in Nat
      <3>1. Min({k, p.prec}) = IF k <= p.prec THEN k ELSE p.prec
        BY <2>3, MinPair
      <3> QED
        BY <2>3, <3>1
    <2> HIDE DEF len, most
    <2>6. List(text) /\ Len(text) = len
      <3> DEFINE S == {m[i] : i \in 1..len}
      <3>1. \A i \in 1..len : m[i] \in S
        OBVIOUS
      <3> HIDE DEF S, m
      <3>2. text \in Seq(S) /\ Len(text) = IF 1 <= len THEN len - 1 + 1 ELSE 0
        BY <2>5, <3>1, SubSeqProperties
      <3>3. Len(text) = len
        BY <2>5, <3>2
      <3> HIDE DEF text
      <3> QED
        BY <3>2, <3>3, ListIs
    <2> HIDE DEF text
    <2>7. List(fld) /\ Len(fld) = Max({p.width, len})
      BY <2>3, <2>6, FieldLength
    <2> HIDE DEF fld
    <2>8. Len(fld) <= MostOf(p)
      <3>1. MostOf(p) = Max({p.width, most})
        BY <1>6, <2>3 DEF most
      <3>2. /\ Max({p.width, len}) = IF p.width <= len THEN len ELSE p.width
            /\ Max({p.width, most}) = IF p.width <= most THEN most ELSE p.width
        BY <2>3, <2>5, MaxPair
      <3> QED
        BY <2>3, <2>5, <2>7, <3>1, <3>2
    <2> QED
      BY <1>8, <2>4, <2>7, <2>8 DEF p
  <1>12. CASE ConvertNumber
    <2> DEFINE c == At(d.at)
               width == IF c = "p" /\ d.field_width = -1 THEN 8 ELSE d.field_width
               type == d.flags \cup CASE c = "x" -> {"SMALL"}
                                      [] c \in {"d", "i"} -> {"SIGN"}
                                      [] c = "p" /\ d.field_width = -1 -> {"ZEROPAD"}
                                      [] OTHER -> {}
               base == CASE c = "o" -> 8 [] c \in {"p", "x", "X"} -> 16 [] OTHER -> 10
               text == number(va_arg(d.args), base, width, d.precision, type)
    <2>1. At(fmt) = "%" /\ c \in Numeric /\ str' = str \o text
      BY <1>12 DEF ConvertNumber, Converts, d, Numeric
    <2>2. /\ p.conv = c /\ d.field_width = p.width /\ d.precision = p.prec /\ d.flags = p.flags
          /\ p.conv \in Numeric
      BY <1>3, <2>1
    <2>3. va_arg(d.args) \in Word
      <3>1. p.conv # "%"
        BY <2>2 DEF Numeric
      <3> QED
        BY <1>5, <2>1, <3>1
    <2>4. base = BaseOf(p.conv) /\ base \in {8, 10, 16}
      BY <2>2 DEF BaseOf
    <2>5. width \in Int /\ p.prec \in Int /\ width <= MostOf(p)
      BY <1>6, <2>2
    <2>6. "SPECIAL" \in type <=> "SPECIAL" \in p.flags
      BY <2>2
    <2>7. (type \cap {"SIGN", "PLUS", "SPACE"} # {}) => SignOf(p) = 1
      <3>1. "SIGN" \notin p.flags
        BY <1>4 DEF FlagNames
      <3>2. "SIGN" \in type => c \in {"d", "i"}
        BY <2>2, <3>1
      <3>3. "PLUS" \in type => "PLUS" \in p.flags
        BY <2>2
      <3>4. "SPACE" \in type => "SPACE" \in p.flags
        BY <2>2
      <3> HIDE DEF type, c
      <3> QED
        BY <2>2, <3>2, <3>3, <3>4 DEF SignOf
    <2> DEFINE plen  == PrefixRoom(type, base)
               signs == SignRoom(type)
               most  == DigitsIn(base)
    <2> HIDE DEF type, base, width, c
    <2>8. plen = PrefixOf(p) /\ plen \in Nat
      BY <2>4, <2>6 DEF PrefixOf, PrefixRoom
    <2>9. signs <= SignOf(p) /\ signs \in Nat /\ SignOf(p) \in Nat
      <3>1. SignOf(p) \in {0, 1}
        BY DEF SignOf
      <3> QED
        BY <2>7, <3>1 DEF SignRoom
    <2>10. List(text) /\ \E sign \in 0..signs, digits \in 1..most :
              Len(text) = Max({width, (sign + plen) + Max({p.prec, digits})})
      <3>1. text = number(va_arg(d.args), base, width, p.prec, type)
        BY <2>2
      <3> DEFINE w == va_arg(d.args)
                 x == p.prec
                 y == number(w, base, width, x, type)
      <3>2. text = y
        BY <3>1
      <3>3. w \in Word /\ x \in Int /\ width \in Int /\ base \in Bases
        BY <2>3, <2>4, <2>5 DEF Bases
      <3> HIDE DEF w, x, text
      <3>4. Fits(y, base, width, x, type)
        BY <3>3, NumberLength
      <3> HIDE DEF y
      <3> QED
        BY <3>2, <3>4 DEF x, Fits
    <2> HIDE DEF plen, signs, text
    <2>11. most \in Nat \ {0} /\ (SignOf(p) + PrefixOf(p)) + Max({p.prec, most}) <= MostOf(p)
      BY <1>6, <2>2, <2>4
    <2> HIDE DEF most
    <2>12. PICK sign \in 0..signs, digits \in 1..most :
              Len(text) = Max({width, (sign + plen) + Max({p.prec, digits})})
      BY <2>10
    <2>13. Len(text) <= MostOf(p)
      <3> DEFINE x == p.prec
                 s0 == SignOf(p)
                 mo == MostOf(p)
                 u == Max({x, digits})
                 v == Max({x, most})
                 z == (sign + plen) + u
      <3>1. /\ u = (IF x <= digits THEN digits ELSE x)
            /\ v = (IF x <= most THEN most ELSE x)
        BY <2>5, <2>11, MaxPair
      <3>2. Len(text) = Max({width, z})
        BY <2>12
      <3>3. /\ x \in Int /\ s0 \in Nat /\ mo \in Int /\ sign <= s0 /\ (s0 + plen) + v <= mo
            /\ digits \in 1..most /\ most \in Nat /\ sign \in Nat /\ plen \in Nat
        BY <1>6, <2>5, <2>8, <2>9, <2>11
      <3> HIDE DEF x, s0, u, v
      <3>4. u \in Int /\ v \in Int /\ u <= v
        BY <3>1, <3>3
      <3>5. z \in Int /\ z <= mo
        <4> HIDE DEF mo
        <4> QED
          BY <3>3, <3>4
      <3> HIDE DEF z
      <3>6. Max({width, z}) = IF width <= z THEN z ELSE width
        BY <2>5, <3>5, MaxPair
      <3> QED
        BY <2>5, <3>2, <3>5, <3>6
    <2> QED
      BY <1>8, <2>1, <2>10, <2>13 DEF p
  <1>13. CASE StoreCount
    <2>1. At(fmt) = "%" /\ At(d.at) = "n" /\ str' = str
      BY <1>13 DEF StoreCount, d
    <2>2. MostOf(p) = 0
      BY <1>3, <1>6, <2>1
    <2>3. List(str') /\ Len(str') \in Nat /\ Len(str') = Len(str)
      BY <2>1 DEF List
    <2> QED
      BY <2>2, <2>3 DEF p
  <1>14. CASE Unknown
    <2> DEFINE c == At(d.at)
    <2>1. /\ At(fmt) = "%" /\ c \notin {"c", "s", "o", "p", "x", "X", "d", "i", "u", "n"}
          /\ str' = (str \o (IF c = "%" THEN <<>> ELSE <<"%">>))
                         \o (IF c = "NUL" THEN <<>> ELSE <<c>>)
      BY <1>14 DEF Unknown, d
    <2>2. p.conv = "%" /\ c = "%"
      <3>1. p.conv \in Conversions
        BY <1>3, <2>1 DEF IsDirective
      <3>2. p.conv = c
        BY <1>3, <2>1
      <3> QED
        BY <2>1, <3>1, <3>2 DEF Conversions
    <2>3. str' = str \o <<"%">>
      <3>1. str \o <<>> = str
        BY ConcatEmptySeq DEF List
      <3> QED
        BY <2>1, <2>2, <3>1
    <2>4. List(<<"%">>) /\ Len(<<"%">>) = 1
      BY ListShort
    <2>5. Len(<<"%">>) <= MostOf(p)
      BY <1>6, <1>7, <2>2, <2>4
    <2> QED
      BY <1>8, <2>3, <2>4, <2>5 DEF p
  <1> QED
    BY <1>9, <1>10, <1>11, <1>12, <1>13, <1>14 DEF Next, p

\* What has been written is within what the pieces so far can stand for.
OutputInv == (Meant /\ StarFree) => List(str) /\ Len(str) <= Total(Mosts(passes))

\* Every pass keeps inside what its piece can stand for.
LEMMA OutputInvNext == FormatInv /\ PieceInv /\ OutputInv /\ [Next]_vars => OutputInv'
  <1> SUFFICES ASSUME FormatInv, PieceInv, OutputInv, [Next]_vars, (Meant /\ StarFree)'
               PROVE  List(str') /\ Len(str') <= Total(Mosts(passes))'
    BY DEF OutputInv, List
  <1> DEFINE p == call.pieces[passes + 1]
  <1>1. call' = call
    BY DEF Next, Literal, ConvertChar, ConvertString, ConvertNumber, StoreCount, Unknown,
           Return, Pass, vars
  <1>2. Meant /\ StarFree /\ Mosts(passes)' = Mosts(passes')
    BY <1>1 DEF Meant, StarFree, Mosts
  <1>3. List(str) /\ Len(str) <= Total(Mosts(passes)) /\ Len(str) \in Nat
    BY <1>2 DEF OutputInv, List
  <1>4. CASE Return \/ UNCHANGED vars
    <2>1. UNCHANGED <<str, passes>>
      BY <1>4 DEF Return, vars
    <2> QED
      BY <1>2, <1>3, <2>1
  <1>5. CASE Next /\ ~Return
    <2>1. Pass /\ At(fmt) # "NUL"
      BY <1>2, <1>5, PassDeals
    <2>2. List(str') /\ Len(str') \in Nat /\ Len(str') <= Len(str) + MostOf(p)
      BY <1>2, <1>3, <1>5, PassWrites
    <2>3. passes \in 0..(Len(call.pieces) - 1) /\ p \in Pieces
          /\ (IsDirective(p) \/ IsCopied(p))
      BY <1>2, <2>1, CurrentPiece
    <2>4. /\ Total(Mosts(passes)) \in Int
          /\ Total(Mosts(passes + 1)) = Total(Mosts(passes)) + MostOf(p)
      BY <1>2, <2>3, MostsNext
    <2>5. MostOf(p) \in Int
      <3>1. p.conv \in Conversions \cup {"copy"}
        BY <2>3 DEF IsDirective, IsCopied
      <3> QED
        BY <2>3, <3>1, MostOfIs
    <2>6. passes' = passes + 1
      BY <2>1 DEF Pass
    <2> DEFINE a == Len(str)
               b == Len(str')
               m == MostOf(p)
               x == Total(Mosts(passes))
    <2>7. a \in Nat /\ b \in Nat /\ m \in Int /\ x \in Int /\ a <= x /\ b <= a + m
      BY <1>3, <2>2, <2>4, <2>5
    <2> HIDE DEF a, b, m, x
    <2>8. b <= x + m
      BY <2>7
    <2> QED
      BY <1>2, <2>2, <2>4, <2>6, <2>8 DEF b, x, m
  <1> QED
    BY <1>4, <1>5

\* Nothing has been written in the initial states.
LEMMA OutputInvInit == Init => OutputInv
  <1> SUFFICES ASSUME Init PROVE List(str) /\ Len(str) <= Total(Mosts(passes))
    BY DEF OutputInv
  <1>1. str = <<>> /\ passes = 0
    BY DEF Init
  <1>2. Total(Mosts(0)) = 0
    <2>1. Mosts(0) = <<>> /\ <<>> \in Seq(Int) /\ Len(<<>>) = 0
      BY DEF Mosts
    <2>2. PICK f : Sums(f, <<>>, 0) /\ Total(<<>>) = f[1..0]
      BY <2>1, TotalIs
    <2>3. 1..0 = {} /\ 1..0 \in SUBSET (1..0)
      OBVIOUS
    <2>4. f[1..0] = 0
      BY <2>2, <2>3 DEF Sums
    <2> QED
      BY <2>1, <2>2, <2>4
  <1>3. List(<<>>) /\ Len(<<>>) = 0
    BY ListShort
  <1>4. List(str) /\ Len(str) = 0
    BY <1>1, <1>3
  <1>5. Total(Mosts(passes)) = 0
    BY <1>1, <1>2
  <1> QED
    BY <1>4, <1>5

\* printk.c:14, vsprintf.c:92-232: the length of what a format without '*' makes
\* vsprintf write is bounded by the format, whatever the arguments are: the sizes,
\* signs, prefixes and digits of number never add up to more than its field or
\* the digits of the greatest word.
THEOREM FormatBoundsOutput == Spec => [](StarFree => OutputBounded)
  <1>1. OutputInv => (StarFree => OutputBounded)
    BY DEF OutputInv, OutputBounded, Mosts
  <1>2. Init => OutputInv
    BY OutputInvInit
  <1>3. FormatInv /\ PieceInv /\ OutputInv /\ [Next]_vars => OutputInv'
    BY OutputInvNext
  <1> QED
    BY <1>1, <1>2, <1>3, PieceInvAlways, PTL DEF Spec

-----------------------------------------------------------------------------
(* What the conversions write: a number that reads back as the argument,   *)
(* in a field that is filled.                                              *)

\* The digits that DivideDown leaves make the number again.
LEMMA DigitsMake ==
    ASSUME NEW base \in Nat \ {0, 1}, NEW n \in Nat, NEW v, v[0] = 0,
           \A j \in 1..Len(DivideDown(n, base)) :
               v[j] = v[j - 1] * base + DivideDown(n, base)[j]
    PROVE  v[Len(DivideDown(n, base))] = n
  <1> DEFINE Digits == 0..(base - 1)
  <1>1. PICK d : Digital(d, base, n) /\ DivideDown(n, base) = d[n] /\ d[n] \in Seq(Digits)
    BY DivideDownIs
  <1> DEFINE Makes(s, k) == (\A j \in 1..Len(s) : v[j] = v[j - 1] * base + s[j]) => v[Len(s)] = k
             T == {m \in Nat : \A k \in 0..m : k <= n => Makes(d[k], k)}
  <1>2. 0 \in T
    <2>1. d[0] = <<>> /\ Len(<<>>) = 0
      BY <1>1 DEF Digital
    <2>2. Makes(d[0], 0)
      BY <2>1
    <2>3. \A k \in 0..0 : k = 0
      OBVIOUS
    <2> QED
      BY <2>2, <2>3
  <1>3. ASSUME NEW m \in Nat, m \in T PROVE m + 1 \in T
    <2> SUFFICES ASSUME NEW k \in 0..(m + 1), k <= n PROVE Makes(d[k], k)
      OBVIOUS
    <2>1. CASE k \in 0..m
      BY <1>3, <2>1
    <2>2. CASE k \notin 0..m
      <3> DEFINE q == k \div base
                 r == k % base
                 x == d[q]
                 l == Len(x)
      <3>1. k \in 1..n /\ k - 1 = m
        BY <2>2
      <3>2. q \in 0..(k - 1) /\ r \in Digits /\ x \in Seq(Digits) /\ d[k] = Append(x, r)
        BY <1>1, <3>1 DEF Digital
      <3>3. k = q * base + r
        BY DivMod
      <3>4. q \in 0..m /\ q <= n
        <4> HIDE DEF q
        <4> QED
          BY <3>1, <3>2
      <3>5. Makes(x, q)
        BY <1>3, <3>4
      <3> HIDE DEF q, r, x
      <3>6. /\ l \in Nat /\ Len(d[k]) = l + 1 /\ d[k][l + 1] = r
            /\ \A j \in 1..l : d[k][j] = x[j]
        BY <3>2, AppendProperties
      <3> HIDE DEF Digits
      <3> SUFFICES ASSUME \A j \in 1..(l + 1) : v[j] = v[j - 1] * base + d[k][j]
                   PROVE  v[l + 1] = k
        BY <3>6
      <3> HIDE DEF l
      <3>7. \A j \in 1..l : v[j] = v[j - 1] * base + x[j]
        <4> SUFFICES ASSUME NEW j \in 1..l PROVE v[j] = v[j - 1] * base + x[j]
          OBVIOUS
        <4>1. j \in 1..(l + 1) /\ d[k][j] = x[j]
          BY <3>6
        <4> QED
          BY <4>1
      <3>8. v[l] = q
        BY <3>5, <3>7 DEF l
      <3>9. v[l + 1] = v[l] * base + r
        <4>1. l + 1 \in 1..(l + 1) /\ (l + 1) - 1 = l
          BY <3>6
        <4> QED
          BY <3>6, <4>1
      <3> QED
        BY <3>3, <3>8, <3>9
    <2> QED
      BY <2>1, <2>2
  <1> HIDE DEF T
  <1>4. Nat \subseteq T
    BY <1>2, <1>3, SetInduction
  <1>5. n \in T /\ n \in 0..n
    BY <1>4
  <1>6. Makes(d[n], n)
    BY <1>5 DEF T
  <1> QED
    BY <1>1, <1>6

\* v has the number in every beginning of the text s.
Reads(v, s, b, n) ==
    v = [k \in 0..n |-> IF k = 0 THEN 0
                        ELSE IF IsDigit(s[k]) THEN v[k - 1] * b + DigitValue(s[k])
                        ELSE v[k - 1]]

\* There is such a function.
LEMMA ReadsExist ==
    ASSUME NEW s, NEW b, NEW n \in Nat
    PROVE  \E v : Reads(v, s, b, n)
  <1> DEFINE T == {k \in Nat : \E v : Reads(v, s, b, k)}
             Next1(k, x) == IF IsDigit(s[k]) THEN x * b + DigitValue(s[k]) ELSE x
  <1>1. 0 \in T
    <2> DEFINE g == [k \in 0..0 |-> 0]
    <2>1. Reads(g, s, b, 0)
      <3>1. ASSUME NEW i \in 0..0 PROVE g[i] = IF i = 0 THEN 0 ELSE Next1(i, g[i - 1])
        OBVIOUS
      <3> QED
        BY <3>1 DEF Reads
    <2> QED
      BY <2>1
  <1>2. ASSUME NEW k \in Nat, k \in T PROVE k + 1 \in T
    <2>1. PICK v : Reads(v, s, b, k)
      BY <1>2
    <2> DEFINE g == [i \in 0..(k + 1) |-> IF i \in 0..k THEN v[i] ELSE Next1(k + 1, v[k])]
    <2>2. ASSUME NEW i \in 0..(k + 1) PROVE g[i] = IF i = 0 THEN 0 ELSE Next1(i, g[i - 1])
      <3>1. CASE i \in 0..k
        <4>1. g[i] = v[i] /\ v[i] = IF i = 0 THEN 0 ELSE Next1(i, v[i - 1])
          BY <2>1, <3>1 DEF Reads
        <4>2. i # 0 => i - 1 \in 0..k /\ i - 1 \in 0..(k + 1)
          BY <3>1
        <4>3. i # 0 => g[i - 1] = v[i - 1]
          BY <4>2
        <4> HIDE DEF Next1, g
        <4> QED
          BY <4>1, <4>3
      <3>2. CASE i \notin 0..k
        <4>1. i = k + 1 /\ i # 0 /\ i - 1 = k /\ k \in 0..k /\ k \in 0..(k + 1)
          BY <3>2
        <4>2. g[i] = Next1(k + 1, v[k]) /\ g[i - 1] = v[k]
          BY <3>2, <4>1
        <4> HIDE DEF Next1, g
        <4> QED
          BY <4>1, <4>2
      <3> QED
        BY <3>1, <3>2
    <2> HIDE DEF g
    <2>3. g = [i \in 0..(k + 1) |-> g[i]]
      BY DEF g
    <2>4. Reads(g, s, b, k + 1)
      BY <2>2, <2>3 DEF Reads
    <2> QED
      BY <2>4
  <1> HIDE DEF T
  <1>3. Nat \subseteq T
    BY <1>1, <1>2, SetInduction
  <1> QED
    BY <1>3 DEF T

\* ReadNumber is its last value.
LEMMA ReadNumberIs ==
    ASSUME NEW s, List(s), NEW b
    PROVE  \E v : /\ Reads(v, s, b, Len(s))
                  /\ ReadNumber(s, b) = IF "-" \in ToSet(s) THEN -v[Len(s)] ELSE v[Len(s)]
  <1> DEFINE n == Len(s)
             w == CHOOSE v : v = [k \in 0..n |->
                      IF k = 0 THEN 0
                      ELSE IF IsDigit(s[k]) THEN v[k - 1] * b + DigitValue(s[k])
                      ELSE v[k - 1]]
  <1>1. n \in Nat
    BY DEF List
  <1>2. Reads(w, s, b, n)
    <2>1. PICK v : Reads(v, s, b, n)
      BY <1>1, ReadsExist
    <2> QED
      BY <2>1 DEF Reads
  <1>3. ReadNumber(s, b) = IF "-" \in ToSet(s) THEN -w[n] ELSE w[n]
    BY DEF ReadNumber
  <1> QED
    BY <1>2, <1>3

\* The characters that number writes, for a reader.
LEMMA DigitChars ==
    /\ \A c \in {"SP", "-", "+", "x", "X"} : ~IsDigit(c)
    /\ IsDigit("0") /\ DigitValue("0") = 0
    /\ \A k \in 0..15, small \in BOOLEAN :
          LET c == DigitsOf(small)[k + 1] IN
          IsDigit(c) /\ DigitValue(c) = k /\ c # "SP" /\ c # "-"
  <1> DEFINE D(small) == DigitsOf(small)
             Letters(small) == IF small THEN <<"a", "b", "c", "d", "e", "f">>
                                        ELSE <<"A", "B", "C", "D", "E", "F">>
             Rank(c) == IF c = "0" THEN 0
                        ELSE IF c = "1" THEN 1
                        ELSE IF c = "2" THEN 2
                        ELSE IF c = "3" THEN 3
                        ELSE IF c = "4" THEN 4
                        ELSE IF c = "5" THEN 5
                        ELSE IF c = "6" THEN 6
                        ELSE IF c = "7" THEN 7
                        ELSE IF c = "8" THEN 8
                        ELSE IF c = "9" THEN 9
                        ELSE IF c = "a" \/ c = "A" THEN 10
                        ELSE IF c = "b" \/ c = "B" THEN 11
                        ELSE IF c = "c" \/ c = "C" THEN 12
                        ELSE IF c = "d" \/ c = "D" THEN 13
                        ELSE IF c = "e" \/ c = "E" THEN 14
                        ELSE IF c = "f" \/ c = "F" THEN 15
                        ELSE 16
  <1>1. ASSUME NEW small \in BOOLEAN
        PROVE  /\ Len(D(small)) = 16 /\ List(D(small))
               /\ D(small)[1] = "0" /\ D(small)[2] = "1" /\ D(small)[3] = "2"
               /\ D(small)[4] = "3" /\ D(small)[5] = "4" /\ D(small)[6] = "5"
               /\ D(small)[7] = "6" /\ D(small)[8] = "7" /\ D(small)[9] = "8"
               /\ D(small)[10] = "9"
               /\ D(small)[11] = IF small THEN "a" ELSE "A"
               /\ D(small)[12] = IF small THEN "b" ELSE "B"
               /\ D(small)[13] = IF small THEN "c" ELSE "C"
               /\ D(small)[14] = IF small THEN "d" ELSE "D"
               /\ D(small)[15] = IF small THEN "e" ELSE "E"
               /\ D(small)[16] = IF small THEN "f" ELSE "F"
    <2> DEFINE s == Numerals
               t == Letters(small)
               S == ToSet(s) \cup ToSet(t)
    <2>1. D(small) = s \o t
      BY DEF DigitsOf
    <2>2. /\ Len(s) = 10 /\ DOMAIN s = 1..10 /\ s[1] = "0" /\ s[2] = "1" /\ s[3] = "2" /\ s[4] = "3"
          /\ s[5] = "4" /\ s[6] = "5" /\ s[7] = "6" /\ s[8] = "7" /\ s[9] = "8" /\ s[10] = "9"
      BY DEF Numerals
    <2>3. /\ Len(t) = 6 /\ DOMAIN t = 1..6
          /\ t[1] = (IF small THEN "a" ELSE "A") /\ t[2] = (IF small THEN "b" ELSE "B")
          /\ t[3] = (IF small THEN "c" ELSE "C") /\ t[4] = (IF small THEN "d" ELSE "D")
          /\ t[5] = (IF small THEN "e" ELSE "E") /\ t[6] = (IF small THEN "f" ELSE "F")
      OBVIOUS
    <2>4. s \in Seq(S) /\ t \in Seq(S)
      <3>1. s \in Seq(ToSet(s))
        BY DEF Numerals, ToSet
      <3>2. t \in Seq(ToSet(t))
        <4>1. t = IF small THEN <<"a", "b", "c", "d", "e", "f">>
                           ELSE <<"A", "B", "C", "D", "E", "F">>
          OBVIOUS
        <4>2. /\ List(<<"a", "b", "c", "d", "e", "f">>)
              /\ List(<<"A", "B", "C", "D", "E", "F">>)
          BY DEF List, ToSet
        <4> HIDE DEF t
        <4>3. List(t)
          BY <4>1, <4>2
        <4> QED
          BY <4>3 DEF List
      <3>3. ToSet(s) \subseteq S /\ ToSet(t) \subseteq S
        OBVIOUS
      <3> HIDE DEF s, t, S
      <3> QED
        BY <3>1, <3>2, <3>3
    <2> HIDE DEF s, t, S, D
    <2> DEFINE u == s \o t
    <2>5. u \in Seq(S) /\ Len(u) = 16
          /\ \A i \in 1..(10 + 6) : u[i] = IF i <= 10 THEN s[i] ELSE t[i - 10]
      <3> DEFINE l == Len(s)
                 m == Len(t)
      <3>1. u \in Seq(S) /\ Len(u) = l + m
            /\ \A i \in 1..(l + m) : u[i] = IF i <= l THEN s[i] ELSE t[i - l]
        BY <2>4, ConcatProperties
      <3>2. l = 10 /\ m = 6
        BY <2>2, <2>3
      <3> HIDE DEF l, m, u
      <3> QED
        BY <3>1, <3>2
    <2> HIDE DEF u
    <2>6. List(u)
      BY <2>5, ListIs
    <2>7. \A i \in 1..10 : u[i] = s[i]
      BY <2>5
    <2>8. \A i \in 11..16 : u[i] = t[i - 10]
      BY <2>5
    <2>9. /\ u[1] = s[1] /\ u[2] = s[2] /\ u[3] = s[3] /\ u[4] = s[4] /\ u[5] = s[5]
          /\ u[6] = s[6] /\ u[7] = s[7] /\ u[8] = s[8] /\ u[9] = s[9] /\ u[10] = s[10]
      BY <2>7
    <2>10. /\ u[11] = t[1] /\ u[12] = t[2] /\ u[13] = t[3] /\ u[14] = t[4] /\ u[15] = t[5]
           /\ u[16] = t[6]
      BY <2>8
    <2>11. D(small) = u
      BY <2>1 DEF u
    <2> QED
      BY <2>2, <2>3, <2>5, <2>6, <2>9, <2>10, <2>11
  <1>2. ASSUME NEW k \in 0..15, NEW small \in BOOLEAN
        PROVE  Rank(D(small)[k + 1]) = k /\ D(small)[k + 1] # "SP" /\ D(small)[k + 1] # "-"
    <2>1. \/ k = 0 \/ k = 1 \/ k = 2 \/ k = 3 \/ k = 4 \/ k = 5 \/ k = 6 \/ k = 7
          \/ k = 8 \/ k = 9 \/ k = 10 \/ k = 11 \/ k = 12 \/ k = 13 \/ k = 14 \/ k = 15
      OBVIOUS
    <2>2. small = TRUE \/ small = FALSE
      OBVIOUS
    <2> HIDE DEF D
    <2>3. CASE small = TRUE
      <3> DEFINE u == D(TRUE)
      <3>1. /\ u[1] = "0" /\ u[2] = "1" /\ u[3] = "2" /\ u[4] = "3" /\ u[5] = "4" /\ u[6] = "5"
            /\ u[7] = "6" /\ u[8] = "7" /\ u[9] = "8" /\ u[10] = "9" /\ u[11] = "a" /\ u[12] = "b"
            /\ u[13] = "c" /\ u[14] = "d" /\ u[15] = "e" /\ u[16] = "f"
        BY <1>1, <2>3
      <3> HIDE DEF u
      <3>2. Rank(u[k + 1]) = k /\ u[k + 1] # "SP" /\ u[k + 1] # "-"
        BY <2>1, <3>1
      <3> QED
        BY <2>3, <3>2 DEF u
    <2>4. CASE small = FALSE
      BY <1>1, <2>1, <2>4
    <2> QED
      BY <2>2, <2>3, <2>4
  <1>3. ASSUME NEW small \in BOOLEAN
        PROVE  ToSet(D(small)) = {D(small)[k + 1] : k \in 0..15}
    <2> DEFINE s == D(small)
    <2>1. Len(s) = 16 /\ s \in Seq(ToSet(s))
      <3>1. List(s) /\ Len(s) = 16
        BY <1>1
      <3> QED
        BY <3>1 DEF List
    <2> HIDE DEF D
    <2>2. DOMAIN s = 1..16
      <3> HIDE DEF s
      <3> QED
        BY <2>1
    <2>3. ToSet(s) = {s[i] : i \in 1..16}
      BY <2>2 DEF ToSet
    <2>4. ASSUME NEW i \in 1..16 PROVE \E k \in 0..15 : s[i] = s[k + 1]
      <3>1. i - 1 \in 0..15 /\ (i - 1) + 1 = i
        OBVIOUS
      <3> QED
        BY <3>1
    <2>5. ASSUME NEW k \in 0..15 PROVE \E i \in 1..16 : s[k + 1] = s[i]
      <3>1. k + 1 \in 1..16
        OBVIOUS
      <3> QED
        BY <3>1
    <2> HIDE DEF s
    <2>6. ToSet(s) = {s[k + 1] : k \in 0..15}
      BY <2>3, <2>4, <2>5
    <2> QED
      BY <2>6 DEF s
  <1> HIDE DEF D
  <1>4. ASSUME NEW k \in 0..15, NEW small \in BOOLEAN
        PROVE  IsDigit(D(small)[k + 1]) /\ DigitValue(D(small)[k + 1]) = k
    <2> DEFINE c == D(small)[k + 1]
    <2>1. c \in {D(TRUE)[k + 1], D(FALSE)[k + 1]}
      OBVIOUS
    <2>2. \A v \in 0..15 : c \in {D(TRUE)[v + 1], D(FALSE)[v + 1]} => v = k
      <3> HIDE DEF Rank
      <3> QED
        BY <1>2
    <2>3. DigitValue(c) = k
      <3>1. DigitValue(c) = CHOOSE v \in 0..15 : c \in {D(TRUE)[v + 1], D(FALSE)[v + 1]}
        BY DEF DigitValue, D
      <3> QED
        BY <2>1, <2>2, <3>1
    <2>4. IsDigit(c)
      <3>1. c \in ToSet(D(small))
        BY <1>3
      <3> QED
        BY <3>1 DEF IsDigit, D
    <2> QED
      BY <2>3, <2>4
  <1>5. ASSUME NEW c \in {"SP", "-", "+", "x", "X"} PROVE ~IsDigit(c)
    <2> SUFFICES ASSUME IsDigit(c) PROVE FALSE
      OBVIOUS
    <2>1. c \in ToSet(D(TRUE)) \/ c \in ToSet(D(FALSE))
      BY DEF IsDigit, D
    <2>2. PICK small \in BOOLEAN : c \in ToSet(D(small))
      BY <2>1
    <2>3. PICK k \in 0..15 : c = D(small)[k + 1]
      BY <1>3, <2>2
    <2>4. Rank(c) = k
      BY <1>2, <2>3
    <2>5. Rank(c) = 16
      OBVIOUS
    <2> HIDE DEF Rank
    <2> QED
      BY <2>4, <2>5
  <1>6. IsDigit("0") /\ DigitValue("0") = 0
    <2>1. 0 \in 0..15 /\ TRUE \in BOOLEAN /\ 0 + 1 = 1
      OBVIOUS
    <2>2. D(TRUE)[1] = "0"
      BY <1>1, <2>1
    <2>3. IsDigit(D(TRUE)[0 + 1]) /\ DigitValue(D(TRUE)[0 + 1]) = 0
      BY <1>4, <2>1
    <2> QED
      BY <2>1, <2>2, <2>3
  <1> QED
    BY <1>2, <1>4, <1>5, <1>6 DEF D

\* The characters of the parts.
LEMMA PartChars ==
    ASSUME NEW num \in Word, NEW base \in Bases, NEW type
    PROVE  LET sign   == SignText(num, type)
               prefix == PrefixText(base, type)
               tmp    == DigitText(num, base, type)
           IN  /\ \A i \in 1..Len(sign) :
                      sign[i] = IF Negative(num, type) THEN "-"
                                ELSE IF "PLUS" \in type THEN "+" ELSE "SP"
               /\ Len(sign) = 1 <=> (Negative(num, type) \/ "PLUS" \in type \/ "SPACE" \in type)
               /\ Len(sign) \in {0, 1}
               /\ \A i \in 1..Len(prefix) : prefix[i] \in {"0", "x", "X"}
               /\ \A i \in 1..Len(tmp) : IsDigit(tmp[i]) /\ tmp[i] # "SP" /\ tmp[i] # "-"
  <1> DEFINE sign   == SignText(num, type)
             prefix == PrefixText(base, type)
             n      == Absolute(num, type)
             tmp    == DigitText(num, base, type)
             small  == "SMALL" \in type
  <1>1. /\ \A i \in 1..Len(sign) :
               sign[i] = IF Negative(num, type) THEN "-"
                         ELSE IF "PLUS" \in type THEN "+" ELSE "SP"
        /\ Len(sign) = 1 <=> (Negative(num, type) \/ "PLUS" \in type \/ "SPACE" \in type)
        /\ Len(sign) \in {0, 1}
    BY DEF SignText
  <1>2. \A i \in 1..Len(prefix) : prefix[i] \in {"0", "x", "X"}
    BY DEF PrefixText
  <1>3. \A i \in 1..Len(tmp) : IsDigit(tmp[i]) /\ tmp[i] # "SP" /\ tmp[i] # "-"
    <2>1. CASE n = 0
      <3>1. tmp = <<"0">>
        BY <2>1 DEF DigitText
      <3>2. IsDigit("0")
        BY DigitChars
      <3> QED
        BY <3>1, <3>2
    <2>2. CASE n # 0
      <3> DEFINE d == DivideDown(n, base)
      <3>1. n \in Nat \ {0} /\ base \in Nat \ {0, 1} /\ base <= 16
        <4>1. n \in 0..(WordSize - 1)
          BY PartsAre
        <4> HIDE DEF n
        <4> QED
          BY <2>2, <4>1, Widths DEF Bases
      <3>2. d \in Seq(0..(base - 1)) /\ Len(d) \in Nat
        <4> HIDE DEF n
        <4> QED
          BY <3>1, DigitsBounded
      <3>3. tmp = [i \in 1..Len(d) |-> DigitsOf(small)[d[i] + 1]]
        BY <2>2, <3>2 DEF DigitText
      <3> HIDE DEF d, tmp
      <3>4. ASSUME NEW i \in 1..Len(d)
            PROVE  IsDigit(tmp[i]) /\ tmp[i] # "SP" /\ tmp[i] # "-"
        <4> DEFINE k == d[i]
        <4>1. k \in 0..15
          <5> DEFINE S == 0..(base - 1)
          <5>1. d \in Seq(S) /\ i \in 1..Len(d)
            BY <3>2
          <5> HIDE DEF S, k
          <5>2. k \in S
            BY <5>1, ElementOfSeq DEF k
          <5>3. k \in 0..(base - 1)
            BY <5>2 DEF S
          <5> HIDE DEF k
          <5> QED
            BY <3>1, <5>3
        <4>2. small \in BOOLEAN
          OBVIOUS
        <4> HIDE DEF k, small
        <4>3. LET c == DigitsOf(small)[k + 1] IN IsDigit(c) /\ c # "SP" /\ c # "-"
          BY <4>1, <4>2, DigitChars
        <4>4. tmp[i] = DigitsOf(small)[k + 1]
          BY <3>3 DEF k
        <4> QED
          BY <4>3, <4>4
      <3>5. Len(tmp) = Len(d)
        BY <3>2, <3>3
      <3> QED
        BY <3>4, <3>5
    <2> QED
      BY <2>1, <2>2
  <1> QED
    BY <1>1, <1>2, <1>3

\* v, with digits where w has them, makes the number w makes.
LEMMA DigitsRead ==
    ASSUME NEW num \in Word, NEW base \in Bases, NEW type,
           NEW w, w[0] = 0,
           \A j \in 1..Len(DigitText(num, base, type)) :
               w[j] = w[j - 1] * base + DigitValue(DigitText(num, base, type)[j])
    PROVE  w[Len(DigitText(num, base, type))] = Absolute(num, type)
  <1> DEFINE n     == Absolute(num, type)
             tmp   == DigitText(num, base, type)
             small == "SMALL" \in type
  <1>1. base \in Nat \ {0, 1} /\ base <= 16
    BY DEF Bases
  <1>2. CASE n = 0
    <2>1. tmp = <<"0">>
      BY <1>2 DEF DigitText
    <2>2. Len(tmp) = 1 /\ tmp[1] = "0" /\ DigitValue("0") = 0 /\ 1 - 1 = 0 /\ 1 \in 1..1
      BY <2>1, DigitChars
    <2>3. w[1] = w[0] * base + 0
      BY <2>2
    <2>4. 0 * base + 0 = 0
      BY <1>1
    <2> QED
      BY <1>2, <2>2, <2>3, <2>4
  <1>3. CASE n # 0
    <2> DEFINE d == DivideDown(n, base)
    <2>1. n \in Nat \ {0}
      <3>1. n \in 0..(WordSize - 1)
        BY PartsAre
      <3> HIDE DEF n
      <3> QED
        BY <1>3, <3>1, Widths
    <2>2. d \in Seq(0..(base - 1)) /\ Len(d) \in Nat
      <3> HIDE DEF n
      <3> QED
        BY <1>1, <2>1, DigitsBounded
    <2>3. tmp = [i \in 1..Len(d) |-> DigitsOf(small)[d[i] + 1]]
      BY <1>3, <2>2 DEF DigitText
    <2>4. Len(tmp) = Len(d)
      <3> HIDE DEF d, tmp
      <3> QED
        BY <2>2, <2>3
    <2> HIDE DEF d
    <2>5. \A j \in 1..Len(d) : w[j] = w[j - 1] * base + d[j]
      <3> SUFFICES ASSUME NEW j \in 1..Len(d) PROVE w[j] = w[j - 1] * base + d[j]
        OBVIOUS
      <3> DEFINE k == d[j]
      <3>1. k \in 0..15
        <4> DEFINE S == 0..(base - 1)
        <4>1. d \in Seq(S) /\ j \in 1..Len(d)
          BY <2>2
        <4> HIDE DEF S, k
        <4>2. k \in S
          BY <4>1, ElementOfSeq DEF k
        <4>3. k \in 0..(base - 1)
          BY <4>2 DEF S
        <4> QED
          BY <1>1, <4>3
      <3>2. small \in BOOLEAN
        OBVIOUS
      <3> HIDE DEF k, small
      <3>3. DigitValue(DigitsOf(small)[k + 1]) = k
        BY <3>1, <3>2, DigitChars
      <3>4. tmp[j] = DigitsOf(small)[k + 1]
        BY <2>3 DEF k
      <3>5. w[j] = w[j - 1] * base + DigitValue(tmp[j])
        BY <2>4
      <3> QED
        BY <3>3, <3>4, <3>5 DEF k
    <2>6. w[Len(d)] = n
      <3> HIDE DEF n
      <3>1. n \in Nat
        BY <2>1
      <3> QED
        BY <1>1, <2>5, <3>1, DigitsMake DEF d
    <2> QED
      BY <2>4, <2>6
  <1> QED
    BY <1>2, <1>3

\* Reading one more character.
LEMMA ReadsStep ==
    ASSUME NEW n \in Nat, NEW v, NEW s, NEW b, Reads(v, s, b, n)
    PROVE  /\ v[0] = 0
           /\ \A i \in 1..n : /\ IsDigit(s[i]) => v[i] = v[i - 1] * b + DigitValue(s[i])
                              /\ ~IsDigit(s[i]) => v[i] = v[i - 1]
  <1>1. ASSUME NEW i \in 0..n
        PROVE  v[i] = IF i = 0 THEN 0
                      ELSE IF IsDigit(s[i]) THEN v[i - 1] * b + DigitValue(s[i]) ELSE v[i - 1]
    BY DEF Reads
  <1>2. 0 \in 0..n /\ \A i \in 1..n : i \in 0..n /\ i # 0
    OBVIOUS
  <1> QED
    BY <1>1, <1>2

\* Blanks, signs, the X of a prefix and zeros before the digits make no number.
LEMMA LeadReads ==
    ASSUME NEW n \in Nat, NEW v, NEW s, NEW b \in Nat, Reads(v, s, b, n), NEW m \in 0..n,
           \A i \in 1..m : ~IsDigit(s[i]) \/ s[i] = "0"
    PROVE  v[m] = 0
  <1> DEFINE T == {k \in Nat : k <= m => v[k] = 0}
  <1>1. 0 \in T
    BY ReadsStep
  <1>2. ASSUME NEW k \in Nat, k \in T PROVE k + 1 \in T
    <2> SUFFICES ASSUME k + 1 <= m PROVE v[k + 1] = 0
      OBVIOUS
    <2>1. v[k] = 0 /\ k + 1 \in 1..m /\ k + 1 \in 1..n /\ (k + 1) - 1 = k
      BY <1>2
    <2>2. CASE ~IsDigit(s[k + 1])
      BY <2>1, <2>2, ReadsStep
    <2>3. CASE s[k + 1] = "0"
      <3>1. IsDigit(s[k + 1]) /\ DigitValue(s[k + 1]) = 0
        BY <2>3, DigitChars
      <3>2. v[k + 1] = v[k] * b + 0
        BY <2>1, <3>1, ReadsStep
      <3>3. 0 * b + 0 = 0
        OBVIOUS
      <3> QED
        BY <2>1, <3>2, <3>3
    <2> QED
      BY <2>1, <2>2, <2>3
  <1> HIDE DEF T
  <1>3. Nat \subseteq T
    BY <1>1, <1>2, SetInduction
  <1>4. m \in T
    BY <1>3
  <1> QED
    BY <1>4 DEF T

\* Blanks behind the digits leave the number alone.
LEMMA TrailReads ==
    ASSUME NEW n \in Nat, NEW v, NEW s, NEW b, Reads(v, s, b, n), NEW m \in Nat, NEW e \in Nat,
           n = m + e, \A i \in 1..e : ~IsDigit(s[m + i])
    PROVE  v[n] = v[m]
  <1> DEFINE T == {k \in Nat : k <= e => v[m + k] = v[m]}
  <1>1. 0 \in T
    OBVIOUS
  <1>2. ASSUME NEW k \in Nat, k \in T PROVE k + 1 \in T
    <2> SUFFICES ASSUME k + 1 <= e PROVE v[m + (k + 1)] = v[m]
      OBVIOUS
    <2>1. v[m + k] = v[m] /\ k + 1 \in 1..e /\ m + (k + 1) \in 1..n /\ (m + (k + 1)) - 1 = m + k
      BY <1>2
    <2>2. ~IsDigit(s[m + (k + 1)])
      BY <2>1
    <2> QED
      BY <2>1, <2>2, ReadsStep
  <1> HIDE DEF T
  <1>3. Nat \subseteq T
    BY <1>1, <1>2, SetInduction
  <1>4. e \in T
    BY <1>3
  <1> QED
    BY <1>4 DEF T

\* Every place of such a text is one of its parts'.
LEMMA PlaceOf ==
    ASSUME NEW f \in Nat, NEW ls \in Nat, NEW lp \in Nat, NEW z \in Nat, NEW lt \in Nat,
           NEW e \in Nat, NEW a, NEW p, NEW m, NEW b,
           a = f + ls, p = a + lp, m = p + z, b = m + lt, NEW i \in 1..(b + e)
    PROVE  \/ i \in 1..f
           \/ \E j \in 1..ls : i = f + j
           \/ \E j \in 1..lp : i = a + j
           \/ \E j \in 1..z : i = p + j
           \/ \E j \in 1..lt : i = m + j
           \/ \E j \in 1..e : i = b + j
  <1>1. a \in Nat /\ p \in Nat /\ m \in Nat /\ b \in Nat
    OBVIOUS
  <1>2. CASE f < i /\ i <= a
    <2>1. i - f \in 1..ls /\ i = f + (i - f)
      BY <1>2
    <2> QED
      BY <2>1
  <1>3. CASE a < i /\ i <= p
    <2>1. i - a \in 1..lp /\ i = a + (i - a)
      BY <1>1, <1>3
    <2> QED
      BY <2>1
  <1>4. CASE p < i /\ i <= m
    <2>1. i - p \in 1..z /\ i = p + (i - p)
      BY <1>1, <1>4
    <2> QED
      BY <2>1
  <1>5. CASE m < i /\ i <= b
    <2>1. i - m \in 1..lt /\ i = m + (i - m)
      BY <1>1, <1>5
    <2> QED
      BY <2>1
  <1>6. CASE b < i
    <2>1. i - b \in 1..e /\ i = b + (i - b)
      BY <1>1, <1>6
    <2> QED
      BY <2>1
  <1>7. CASE i <= f
    BY <1>7
  <1> QED
    BY <1>1, <1>2, <1>3, <1>4, <1>5, <1>6, <1>7

\* Where the parts of such a text lie.
LEMMA LaidAt ==
    ASSUME NEW num \in Word, NEW base \in Bases, NEW size, NEW precision, NEW type, NEW text,
           NEW f \in Nat, NEW z \in Nat, NEW e \in Nat,
           Laid(text, num, base, size, precision, type, f, z, e)
    PROVE  Placed(text, f, SignText(num, type), PrefixText(base, type), z,
                  DigitText(num, base, type), e)
  <1> DEFINE sign   == SignText(num, type)
             prefix == PrefixText(base, type)
             tmp    == DigitText(num, base, type)
  <1>1. List(sign) /\ List(prefix) /\ List(tmp)
    BY PartsAre
  <1>2. Shape(text, f, sign, prefix, z, tmp, e)
    BY DEF Laid
  <1>3. f \in Nat /\ z \in Nat /\ e \in Nat
    OBVIOUS
  <1> HIDE DEF sign, prefix, tmp
  <1> QED
    BY ONLY <1>1, <1>2, <1>3, ShapeAt DEF sign, prefix, tmp

\* What number writes is read as the number.
LEMMA NumberReads ==
    ASSUME NEW num \in Word, NEW base \in Bases, NEW size \in Int,
           NEW precision \in Int, NEW type
    PROVE  ReadNumber(number(num, base, size, precision, type), base) =
             IF Negative(num, type) THEN Signed(num) ELSE num
  <1> DEFINE sign   == SignText(num, type)
             prefix == PrefixText(base, type)
             tmp    == DigitText(num, base, type)
             text   == number(num, base, size, precision, type)
             n      == Absolute(num, type)
             ls     == Len(sign)
             lp     == Len(prefix)
             lt     == Len(tmp)
  <1>1. PICK f \in Nat, z \in Nat, e \in Nat :
            Laid(text, num, base, size, precision, type, f, z, e)
    BY NumberIs
  <1> DEFINE a == f + ls
             p == a + lp
             m == p + z
             b == m + lt
  <1>2. ls \in Nat /\ lp \in Nat /\ lt \in Nat /\ base \in Nat /\ n \in Nat
    <2>1. List(sign) /\ List(prefix) /\ List(tmp) /\ n \in 0..(WordSize - 1)
      BY PartsAre
    <2>2. base \in Nat
      BY DEF Bases
    <2> HIDE DEF n, sign, prefix, tmp
    <2> QED
      BY <2>1, <2>2 DEF List
  <1> HIDE DEF text
  <1>3. /\ List(text) /\ Len(text) = b + e
        /\ \A i \in 1..f : text[i] = "SP"
        /\ \A i \in 1..ls : text[f + i] = sign[i]
        /\ \A i \in 1..lp : text[a + i] = prefix[i]
        /\ \A i \in 1..z : text[p + i] = "0"
        /\ \A i \in 1..lt : text[m + i] = tmp[i]
        /\ \A i \in 1..e : text[b + i] = "SP"
    <2>1. num \in Word /\ base \in Bases /\ f \in Nat /\ z \in Nat /\ e \in Nat
      OBVIOUS
    <2>2. Placed(text, f, sign, prefix, z, tmp, e)
      BY ONLY <1>1, <2>1, LaidAt
    <2> HIDE DEF sign, prefix, tmp
    <2> QED
      BY <2>2 DEF Placed
  <1>4. /\ \A i \in 1..ls : sign[i] = IF Negative(num, type) THEN "-"
                                      ELSE IF "PLUS" \in type THEN "+" ELSE "SP"
        /\ ls = 1 <=> (Negative(num, type) \/ "PLUS" \in type \/ "SPACE" \in type)
        /\ ls \in {0, 1}
        /\ \A i \in 1..lp : prefix[i] \in {"0", "x", "X"}
        /\ \A i \in 1..lt : IsDigit(tmp[i]) /\ tmp[i] # "SP" /\ tmp[i] # "-"
    BY PartChars
  <1>5. PICK v : /\ Reads(v, text, base, Len(text))
                 /\ ReadNumber(text, base) =
                      IF "-" \in ToSet(text) THEN -v[Len(text)] ELSE v[Len(text)]
    BY <1>3, ReadNumberIs
  <1> DEFINE DigitsOnly(w) == \A j \in 1..lt : w[j] = w[j - 1] * base + DigitValue(tmp[j])
  <1>6. ASSUME NEW w, w[0] = 0, DigitsOnly(w)
        PROVE  w[lt] = n
    BY <1>6, DigitsRead
  <1>7. (IF Negative(num, type) THEN Signed(num) ELSE num) = IF Negative(num, type) THEN -n ELSE n
    <2>1. Negative(num, type) => n = -Signed(num) /\ Signed(num) \in Int
      <3>1. num \in Int /\ WordSize \in Int
        BY Widths DEF Word
      <3>2. Signed(num) \in Int
        BY <3>1 DEF Signed
      <3> QED
        BY <3>2 DEF Absolute
    <2>2. ~Negative(num, type) => n = num
      BY DEF Absolute
    <2> QED
      BY <2>1, <2>2
  <1> HIDE DEF ls, lp, lt, sign, prefix, tmp, n
  <1>8. /\ a \in Nat /\ p \in Nat /\ m \in Nat /\ b \in Nat
        /\ a = f + ls /\ p = a + lp /\ m = p + z /\ b = m + lt
    BY <1>2
  <1> HIDE DEF a, p, m, b
  <1>9. ASSUME NEW i \in 1..Len(text)
        PROVE  \/ i \in 1..f
               \/ \E j \in 1..ls : i = f + j
               \/ \E j \in 1..lp : i = a + j
               \/ \E j \in 1..z : i = p + j
               \/ \E j \in 1..lt : i = m + j
               \/ \E j \in 1..e : i = b + j
    <2>1. i \in 1..(b + e)
      BY <1>3
    <2> QED
      BY <1>2, <1>8, <2>1, PlaceOf
  <1>10. v[m] = 0
    <2>1. ASSUME NEW i \in 1..m PROVE ~IsDigit(text[i]) \/ text[i] = "0"
      <3>1. i \in 1..Len(text) /\ i <= m
        BY <1>2, <1>3, <1>8
      <3>2. CASE i \in 1..f
        BY <1>3, <3>2, DigitChars
      <3>3. CASE \E j \in 1..ls : i = f + j
        <4>1. PICK j \in 1..ls : i = f + j
          BY <3>3
        <4>2. text[i] \in {"-", "+", "SP"}
          BY <1>3, <1>4, <4>1
        <4> QED
          BY <4>2, DigitChars
      <3>4. CASE \E j \in 1..lp : i = a + j
        <4>1. PICK j \in 1..lp : i = a + j
          BY <3>4
        <4>2. text[i] \in {"0", "x", "X"}
          BY <1>3, <1>4, <4>1
        <4> QED
          BY <4>2, DigitChars
      <3>5. CASE \E j \in 1..z : i = p + j
        BY <1>3, <3>5
      <3>6. ~\E j \in 1..lt : i = m + j
        BY <1>2, <1>8, <3>1
      <3>7. ~\E j \in 1..e : i = b + j
        BY <1>2, <1>8, <3>1
      <3> QED
        BY <1>9, <3>1, <3>2, <3>3, <3>4, <3>5, <3>6, <3>7
    <2>2. Len(text) \in Nat /\ m \in 0..Len(text)
      BY <1>2, <1>3, <1>8
    <2> QED
      BY <1>2, <1>5, <2>1, <2>2, LeadReads
  <1>11. v[b] = n
    <2> DEFINE w == [j \in 0..lt |-> v[m + j]]
    <2>1. w[0] = 0
      <3>1. 0 \in 0..lt /\ m + 0 = m
        BY <1>2, <1>8
      <3> QED
        BY <1>10, <3>1
    <2>2. ASSUME NEW j \in 1..lt
          PROVE  w[j] = w[j - 1] * base + DigitValue(tmp[j])
      <3>1. j \in 0..lt /\ j - 1 \in 0..lt /\ m + j \in 1..Len(text) /\ (m + j) - 1 = m + (j - 1)
        BY <1>2, <1>3, <1>8
      <3>2. text[m + j] = tmp[j] /\ IsDigit(tmp[j])
        BY <1>3, <1>4
      <3>3. v[m + j] = v[(m + j) - 1] * base + DigitValue(text[m + j])
        <4>1. Len(text) \in Nat
          BY <1>3 DEF List
        <4> QED
          BY <1>5, <3>1, <3>2, <4>1, ReadsStep
      <3>4. w[j] = v[m + j] /\ w[j - 1] = v[m + (j - 1)]
        BY <3>1
      <3> QED
        BY <3>1, <3>2, <3>3, <3>4
    <2>3. w[lt] = v[b]
      BY <1>2, <1>8
    <2> HIDE DEF w
    <2>4. DigitsOnly(w)
      BY <2>2
    <2> HIDE DEF DigitsOnly
    <2>5. w[lt] = n
      BY <1>6, <2>1, <2>4
    <2> QED
      BY <2>3, <2>5
  <1>12. v[Len(text)] = n
    <2>1. \A i \in 1..e : ~IsDigit(text[b + i])
      BY <1>3, DigitChars
    <2>2. Len(text) \in Nat /\ Len(text) = b + e
      BY <1>3, <1>8
    <2> DEFINE l == Len(text)
    <2>3. Reads(v, text, base, l) /\ l \in Nat /\ b \in Nat /\ e \in Nat /\ l = b + e
      BY <1>5, <1>8, <2>2
    <2> HIDE DEF l
    <2>4. v[l] = v[b]
      BY ONLY <2>1, <2>3, TrailReads
    <2> QED
      BY <1>11, <2>4 DEF l
  <1>13. "-" \in ToSet(text) <=> Negative(num, type)
    <2>1. ToSet(text) = {text[i] : i \in 1..Len(text)}
      BY <1>3 DEF List, ToSet
    <2>2. ASSUME Negative(num, type) PROVE "-" \in ToSet(text)
      <3>1. 1 \in 1..ls /\ f + 1 \in 1..Len(text)
        BY <1>2, <1>3, <1>4, <1>8, <2>2
      <3>2. text[f + 1] = "-"
        BY <1>3, <1>4, <2>2, <3>1
      <3> QED
        BY <2>1, <3>1, <3>2
    <2>3. ASSUME "-" \in ToSet(text) PROVE Negative(num, type)
      <3>1. PICK i \in 1..Len(text) : text[i] = "-"
        BY <2>1, <2>3
      <3>2. CASE \E j \in 1..ls : i = f + j
        <4>1. PICK j \in 1..ls : i = f + j
          BY <3>2
        <4>2. sign[j] = "-"
          BY <1>3, <3>1, <4>1
        <4> QED
          BY <1>4, <4>2
      <3>3. ~(i \in 1..f)
        BY <1>3, <3>1
      <3>4. ~\E j \in 1..lp : i = a + j
        <4> SUFFICES ASSUME NEW j \in 1..lp, i = a + j PROVE FALSE
          OBVIOUS
        <4>1. text[i] \in {"0", "x", "X"}
          BY <1>3, <1>4
        <4> QED
          BY <3>1, <4>1
      <3>5. ~\E j \in 1..z : i = p + j
        BY <1>3, <3>1
      <3>6. ~\E j \in 1..lt : i = m + j
        BY <1>3, <1>4, <3>1
      <3>7. ~\E j \in 1..e : i = b + j
        BY <1>3, <3>1
      <3> QED
        BY <1>9, <3>2, <3>3, <3>4, <3>5, <3>6, <3>7
    <2> QED
      BY <2>2, <2>3
  <1> QED
    BY <1>5, <1>7, <1>12, <1>13 DEF text

\* Written is what a pass has appended.
LEMMA WrittenIs ==
    ASSUME List(str), NEW text, List(text), str' = str \o text
    PROVE  Written = text
  <1> DEFINE a == Len(str)
             b == Len(text)
             n == Len(str')
             w == SubSeq(str', a + 1, n)
             S == ToSet(str')
  <1>1. a \in Nat /\ b \in Nat /\ str' \in Seq(S) /\ n = a + b
        /\ \A i \in 1..b : str'[a + i] = text[i]
    <2>1. List(str \o text) /\ Len(str \o text) = a + b
          /\ \A i \in 1..b : (str \o text)[a + i] = text[i]
      BY JoinAt
    <2> QED
      BY <2>1 DEF List
  <1>2. text = [i \in 1..b |-> text[i]]
    BY DEF List
  <1> HIDE DEF a, b, n, S
  <1>3. w = [i \in 1..b |-> str'[a + i]]
    <2>1. \A i \in (a + 1)..n : str'[i] \in S
      <3>1. \A i \in (a + 1)..n : i \in 1..n
        BY <1>1
      <3> QED
        BY <1>1, <3>1, ElementOfSeq DEF n
    <2>2. a + 1 \in Int /\ n \in Int
      BY <1>1
    <2> DEFINE x == a + 1
               s == str'
    <2> HIDE DEF w, x, s
    <2>3. \A i \in x..n : s[i] \in S
      BY <2>1 DEF x, s
    <2>4. x \in Int /\ n \in Int
      BY <2>2 DEF x
    <2>5. /\ SubSeq(s, x, n) \in Seq(S)
          /\ Len(SubSeq(s, x, n)) = IF x <= n THEN n - x + 1 ELSE 0
          /\ \A i \in 1..(n - x + 1) : SubSeq(s, x, n)[i] = s[x + i - 1]
      BY ONLY <2>3, <2>4, SubSeqProperties
    <2>6. w = SubSeq(s, x, n)
      BY DEF w, s, x
    <2>7. n - x + 1 = b /\ (IF x <= n THEN n - x + 1 ELSE 0) = b
          /\ \A i \in 1..b : x + i - 1 = a + i
      BY <1>1 DEF x
    <2>8. w \in Seq(S) /\ Len(w) = b /\ \A i \in 1..b : w[i] = s[a + i]
      BY <2>5, <2>6, <2>7
    <2>9. w = [i \in 1..b |-> w[i]]
      BY <2>8
    <2> QED
      BY <2>8, <2>9 DEF s
  <1>4. \A i \in 1..b : str'[a + i] = text[i]
    BY <1>1
  <1> QED
    BY <1>2, <1>3, <1>4 DEF Written, a, n

\* The directive of a pass that converts an argument.
LEMMA ConversionNow ==
    ASSUME FormatInv, PieceInv, Passing, StarFree, [Next]_vars,
           Piece.conv \in Numeric \cup {"c", "s"}
    PROVE  /\ ConvertChar \/ ConvertString \/ ConvertNumber
           /\ Piece \in Pieces /\ At(Directive.at) = Piece.conv
           /\ Directive.args = args /\ Directive.field_width = Piece.width
           /\ Directive.precision = Piece.prec /\ Directive.flags = Piece.flags
           /\ va_arg(args) \in Word
  <1> DEFINE p == call.pieces[passes + 1]
             d == Directive
  <1>1. Next /\ ~Return /\ Meant
    <2>1. passes' # passes /\ Meant
      <3>1. passes \in Nat /\ passes' = passes + 1 /\ Meant
        BY DEF FormatInv, Passing
      <3> QED
        BY <3>1
    <2> QED
      BY <2>1 DEF Return, vars
  <1>2. At(fmt) # "NUL"
    BY <1>1, PassDeals
  <1>3. p \in Pieces /\ (IsCopied(p) \/ (IsDirective(p) /\ At(fmt) = "%"))
        /\ (IsDirective(p) /\ At(fmt) = "%" =>
              /\ At(d.at) = p.conv /\ d.args = args /\ d.field_width = p.width
              /\ d.precision = p.prec /\ d.flags = p.flags)
    BY <1>1, <1>2, CurrentPiece DEF IsCopied
  <1>4. p = Piece
    BY DEF Piece
  <1> HIDE DEF p, d
  <1>5. p.conv \in {"o", "p", "x", "X", "d", "i", "u", "c", "s"}
    BY <1>4 DEF Numeric
  <1>6. IsDirective(p) /\ At(fmt) = "%"
    BY <1>3, <1>5 DEF IsCopied
  <1>7. va_arg(args) \in Word
    <2>1. "*" \notin ToSet(p.text)
      BY <1>1, <1>2, CurrentPiece DEF p
    <2>2. Taken(p) = 1
      BY <1>5, <2>1 DEF Taken
    <2> QED
      BY <1>1, <1>2, <2>2, ArgumentThere DEF p
  <1>8. ConvertChar \/ ConvertString \/ ConvertNumber
    <2>1. ~Literal
      BY <1>6 DEF Literal
    <2>2. ~StoreCount /\ ~Unknown
      BY <1>3, <1>5, <1>6 DEF StoreCount, Unknown, d
    <2> QED
      BY <1>1, <2>1, <2>2 DEF Next
  <1> QED
    BY <1>3, <1>4, <1>6, <1>7, <1>8 DEF d

\* The field that number is asked for.
WidthOf(p) == IF p.conv = "p" /\ p.width = -1 THEN 8 ELSE p.width

\* What a numeric conversion writes, as the piece says it.
LEMMA NumberWritten ==
    ASSUME FormatInv, PieceInv, OutputInv, Passing, StarFree, [Next]_vars,
           Piece.conv \in Numeric
    PROVE  /\ va_arg(args) \in Word /\ BaseOf(Piece.conv) \in Bases
           /\ WidthOf(Piece) \in Int /\ Piece.prec \in Int
           /\ \E type :
                /\ Written = number(va_arg(args), BaseOf(Piece.conv), WidthOf(Piece),
                                    Piece.prec, type)
                /\ "SIGN" \in type <=> Piece.conv \in {"d", "i"}
                /\ \A flag \in {"LEFT", "PLUS", "SPACE"} : flag \in type <=> flag \in Piece.flags
  <1> DEFINE p == Piece
             d == Directive
             c == At(d.at)
             width == IF c = "p" /\ d.field_width = -1 THEN 8 ELSE d.field_width
             type == d.flags \cup CASE c = "x" -> {"SMALL"}
                                    [] c \in {"d", "i"} -> {"SIGN"}
                                    [] c = "p" /\ d.field_width = -1 -> {"ZEROPAD"}
                                    [] OTHER -> {}
             base == CASE c = "o" -> 8 [] c \in {"p", "x", "X"} -> 16 [] OTHER -> 10
             num  == va_arg(args)
             text == number(num, base, width, p.prec, type)
  <1>1. /\ ConvertChar \/ ConvertString \/ ConvertNumber
        /\ p \in Pieces /\ c = p.conv /\ d.args = args /\ d.field_width = p.width
        /\ d.precision = p.prec /\ d.flags = p.flags /\ num \in Word
    BY ConversionNow
  <1>2. ConvertNumber
    <2>1. c # "c" /\ c # "s"
      BY <1>1 DEF Numeric
    <2>2. ~ConvertChar /\ ~ConvertString
      BY <2>1 DEF ConvertChar, ConvertString
    <2> QED
      BY <1>1, <2>2
  <1>3. str' = str \o text
    <2>1. str' = str \o number(va_arg(d.args), base, width, d.precision, type)
      BY <1>2 DEF ConvertNumber, Converts
    <2> QED
      BY <1>1, <2>1
  <1>4. base = BaseOf(p.conv) /\ base \in Bases
    BY <1>1 DEF BaseOf, Bases, Numeric
  <1>5. width = WidthOf(p) /\ width \in Int /\ p.prec \in Int /\ p.flags \subseteq FlagNames
    BY <1>1 DEF WidthOf, Pieces
  <1>6. "SIGN" \in type <=> p.conv \in {"d", "i"}
    <2>1. "SIGN" \notin p.flags
      BY <1>5 DEF FlagNames
    <2> QED
      BY <1>1, <2>1
  <1>7. \A flag \in {"LEFT", "PLUS", "SPACE"} : flag \in type <=> flag \in p.flags
    BY <1>1
  <1> HIDE DEF type, width, base, num, p
  <1>8. List(text)
    <2> DEFINE x == p.prec
    <2>1. num \in Word /\ base \in Bases /\ width \in Int /\ x \in Int
      BY <1>1, <1>4, <1>5
    <2> HIDE DEF x
    <2>2. Fits(number(num, base, width, x, type), base, width, x, type)
      BY <2>1, NumberLength
    <2> QED
      BY <2>2 DEF Fits, x
  <1> HIDE DEF text
  <1>9. List(str)
    BY DEF OutputInv, Passing
  <1>10. Written = text
    BY <1>3, <1>8, <1>9, WrittenIs
  <1>11. Written = number(num, BaseOf(p.conv), WidthOf(p), p.prec, type)
    BY <1>4, <1>5, <1>10 DEF text
  <1>12. num \in Word /\ BaseOf(p.conv) \in Bases /\ WidthOf(p) \in Int /\ p.prec \in Int
    BY <1>1, <1>4, <1>5
  <1> HIDE DEF d, c
  <1> QED
    BY <1>6, <1>7, <1>11, <1>12 DEF p, num

\* The call, and so its format, stays.
LEMMA StarFreeStays == StarFree /\ [Next]_vars => StarFree'
  <1> SUFFICES ASSUME StarFree, [Next]_vars PROVE StarFree'
    OBVIOUS
  <1>1. call' = call
    BY DEF Next, Literal, ConvertChar, ConvertString, ConvertNumber, StoreCount, Unknown,
           Return, Pass, vars
  <1> QED
    BY <1>1 DEF StarFree

\* The bound on what has been written holds always.
LEMMA OutputInvAlways == Spec => []OutputInv
  <1>1. FormatInv /\ PieceInv /\ OutputInv /\ [Next]_vars => OutputInv'
    BY OutputInvNext
  <1> QED
    BY <1>1, OutputInvInit, PieceInvAlways, PTL DEF Spec

\* vsprintf.c:185-232, number: whatever the width, the precision and the flags of
\* a directive are, a reader of what it wrote finds the argument there, the most
\* negative number included, whose negation divl takes for its absolute value.
THEOREM NumbersReadBack == Spec /\ StarFree => ReadsBack
  <1> DEFINE A == Passing /\ Piece.conv \in {"o", "x", "X", "p", "d", "i", "u"} =>
                    ReadNumber(Written, BaseOf(Piece.conv)) =
                      (IF Piece.conv \in {"d", "i"} THEN Signed(va_arg(args)) ELSE va_arg(args))
  <1>1. FormatInv /\ PieceInv /\ OutputInv /\ StarFree /\ [Next]_vars => A
    <2> SUFFICES ASSUME FormatInv, PieceInv, OutputInv, StarFree, [Next]_vars, Passing,
                        Piece.conv \in Numeric
                 PROVE  ReadNumber(Written, BaseOf(Piece.conv)) =
                          (IF Piece.conv \in {"d", "i"} THEN Signed(va_arg(args))
                                                        ELSE va_arg(args))
      BY DEF Numeric
    <2> DEFINE num   == va_arg(args)
               base  == BaseOf(Piece.conv)
               width == WidthOf(Piece)
               prec  == Piece.prec
    <2>1. num \in Word /\ base \in Bases /\ width \in Int /\ prec \in Int
      BY NumberWritten
    <2>2. PICK type : /\ Written = number(num, base, width, prec, type)
                      /\ "SIGN" \in type <=> Piece.conv \in {"d", "i"}
      BY NumberWritten
    <2> HIDE DEF num, base, width, prec
    <2>3. ReadNumber(Written, base) = IF Negative(num, type) THEN Signed(num) ELSE num
      BY <2>1, <2>2, NumberReads
    <2>4. Signed(num) < 0 \/ Signed(num) = num
      BY <2>1, Widths DEF Signed, Word
    <2> QED
      BY <2>2, <2>3, <2>4 DEF Negative, num, base
  <1>2. StarFree /\ [Next]_vars => StarFree'
    BY StarFreeStays
  <1>3. Spec => []OutputInv
    BY OutputInvAlways
  <1> QED
    BY <1>1, <1>2, <1>3, PieceInvAlways, PTL DEF Spec, ReadsBack

Blanks(text) == {i \in 1..Len(text) : text[i] = "SP"}

\* The text fills its field, blanks on the right if left, else on the left; one
\* for the sign may come first.
FillsField(text, size, left, signed) ==
    /\ Len(text) >= size
    /\ Len(text) > size => Blanks(text) \subseteq signed
    /\ left => \A i \in Blanks(text) \ signed : i..Len(text) \subseteq Blanks(text)
    /\ ~left => \A i \in Blanks(text) : 1..i \subseteq Blanks(text)

\* What number writes fills its field, and has as many digits as it should.
LEMMA NumberFills ==
    ASSUME NEW num \in Word, NEW base \in Bases, NEW size \in Int,
           NEW precision \in Int, NEW type
    PROVE  LET text == number(num, base, size, precision, type) IN
           /\ FillsField(text, size, "LEFT" \in type, IF "SPACE" \in type THEN {1} ELSE {})
           /\ Cardinality({i \in 1..Len(text) : IsDigit(text[i])}) >= precision
  <1> DEFINE sign   == SignText(num, type)
             prefix == PrefixText(base, type)
             tmp    == DigitText(num, base, type)
             text   == number(num, base, size, precision, type)
             ls     == Len(sign)
             lp     == Len(prefix)
             lt     == Len(tmp)
             y      == Zeros(precision, tmp)
             r      == Spare(size, sign, prefix, precision, tmp)
             n      == Len(text)
             signed == IF "SPACE" \in type THEN {1} ELSE {}
             mx     == Max({precision, lt})
             room   == size - ls - lp - mx
  <1>1. PICK f \in Nat, z \in Nat, e \in Nat :
            Laid(text, num, base, size, precision, type, f, z, e)
    BY NumberIs
  <1> DEFINE a == f + ls
             p == a + lp
             m == p + z
             b == m + lt
  <1>2. ls \in Nat /\ lp \in Nat /\ lt \in Nat
    <2>1. List(sign) /\ List(prefix) /\ List(tmp)
      BY PartsAre
    <2> HIDE DEF sign, prefix, tmp
    <2> QED
      BY <2>1 DEF List
  <1>3. /\ y <= z /\ (f + z) + e = r + y
        /\ "LEFT" \in type => f = 0
        /\ "LEFT" \notin type => e = 0
    BY <1>1 DEF Laid
  <1>4. /\ y = IF precision <= lt THEN 0 ELSE precision - lt
        /\ r = IF room <= 0 THEN 0 ELSE room
        /\ mx = IF precision <= lt THEN lt ELSE precision
    <2>1. mx = IF precision <= lt THEN lt ELSE precision
      BY <1>2, MaxPair
    <2> QED
      BY <2>1 DEF Zeros, Spare, Room
  <1> HIDE DEF text, y, r, mx
  <1>5. /\ List(text) /\ n = b + e
        /\ \A i \in 1..f : text[i] = "SP"
        /\ \A i \in 1..ls : text[f + i] = sign[i]
        /\ \A i \in 1..lp : text[a + i] = prefix[i]
        /\ \A i \in 1..z : text[p + i] = "0"
        /\ \A i \in 1..lt : text[m + i] = tmp[i]
        /\ \A i \in 1..e : text[b + i] = "SP"
    <2>1. num \in Word /\ base \in Bases /\ f \in Nat /\ z \in Nat /\ e \in Nat
      OBVIOUS
    <2>2. Placed(text, f, sign, prefix, z, tmp, e)
      BY ONLY <1>1, <2>1, LaidAt
    <2> HIDE DEF sign, prefix, tmp
    <2> QED
      BY <2>2 DEF Placed
  <1>6. /\ \A i \in 1..ls : sign[i] = IF Negative(num, type) THEN "-"
                                      ELSE IF "PLUS" \in type THEN "+" ELSE "SP"
        /\ ls = 1 <=> (Negative(num, type) \/ "PLUS" \in type \/ "SPACE" \in type)
        /\ ls \in {0, 1}
        /\ \A i \in 1..lp : prefix[i] \in {"0", "x", "X"}
        /\ \A i \in 1..lt : IsDigit(tmp[i]) /\ tmp[i] # "SP" /\ tmp[i] # "-"
    BY PartChars
  <1> HIDE DEF ls, lp, lt, sign, prefix, tmp, n
  <1>7. /\ a \in Nat /\ p \in Nat /\ m \in Nat /\ b \in Nat /\ n \in Nat
        /\ a = f + ls /\ p = a + lp /\ m = p + z /\ b = m + lt
    BY <1>2, <1>5
  <1> HIDE DEF a, p, m, b
  <1>8. mx \in Int /\ room \in Int /\ y \in Nat /\ r \in Nat /\ mx = y + lt
    BY <1>2, <1>4
  <1>9. n >= size /\ (n > size => f = 0 /\ e = 0)
    <2>1. n = (((ls + lp) + lt) + r) + y
      BY <1>2, <1>3, <1>5, <1>7, <1>8
    <2>2. room = size - ls - lp - (y + lt)
      BY <1>8
    <2>3. n - size = r - room
      BY <1>2, <1>7, <1>8, <2>1, <2>2
    <2>4. r >= room /\ (r > room => r = 0)
      BY <1>4, <1>8
    <2>5. r = 0 => f = 0 /\ e = 0
      BY <1>3, <1>8
    <2> HIDE DEF room
    <2> QED
      BY <1>7, <1>8, <2>3, <2>4, <2>5
  \* The blanks are those of the paddings and the one for the sign.
  <1>10. ASSUME NEW i \in Blanks(text)
         PROVE  i \in 1..n /\ (i \in 1..f \/ (i = f + 1 /\ "SPACE" \in type) \/ i \in (b + 1)..n)
    <2>1. i \in 1..n /\ i \in 1..(b + e) /\ text[i] = "SP"
      BY <1>5 DEF Blanks, n
    <2>2. CASE \E j \in 1..ls : i = f + j
      <3>1. PICK j \in 1..ls : i = f + j
        BY <2>2
      <3>2. j = 1 /\ ls = 1
        BY <1>2, <1>6, <3>1
      <3>3. sign[1] = "SP"
        BY <1>5, <2>1, <3>1, <3>2
      <3>4. "SPACE" \in type
        BY <1>6, <3>1, <3>2, <3>3
      <3> QED
        BY <2>1, <3>1, <3>2, <3>4
    <2>3. ~\E j \in 1..lp : i = a + j
      <3> SUFFICES ASSUME NEW j \in 1..lp, i = a + j PROVE FALSE
        OBVIOUS
      <3>1. text[i] \in {"0", "x", "X"}
        BY <1>5, <1>6
      <3> QED
        BY <2>1, <3>1
    <2>4. ~\E j \in 1..z : i = p + j
      BY <1>5, <2>1
    <2>5. ~\E j \in 1..lt : i = m + j
      BY <1>5, <1>6, <2>1
    <2>6. (\E j \in 1..e : i = b + j) => i \in (b + 1)..n
      BY <1>5, <1>7
    <2>7. \/ i \in 1..f
          \/ \E j \in 1..ls : i = f + j
          \/ \E j \in 1..lp : i = a + j
          \/ \E j \in 1..z : i = p + j
          \/ \E j \in 1..lt : i = m + j
          \/ \E j \in 1..e : i = b + j
      BY <1>2, <1>7, <2>1, PlaceOf
    <2> QED
      BY <2>1, <2>2, <2>3, <2>4, <2>5, <2>6, <2>7
  <1>11. 1..f \subseteq Blanks(text)
    BY <1>2, <1>5, <1>7 DEF Blanks, n
  <1>12. (b + 1)..n \subseteq Blanks(text)
    <2> SUFFICES ASSUME NEW i \in (b + 1)..n PROVE i \in Blanks(text)
      OBVIOUS
    <2>1. i - b \in 1..e /\ b + (i - b) = i /\ i \in 1..n
      BY <1>5, <1>7
    <2>2. text[i] = "SP"
      BY <1>5, <2>1
    <2> QED
      BY <2>1, <2>2 DEF Blanks, n
  <1>13. FillsField(text, size, "LEFT" \in type, signed)
    <2>1. ASSUME n > size PROVE Blanks(text) \subseteq signed
      <3> SUFFICES ASSUME NEW i \in Blanks(text) PROVE i \in signed
        OBVIOUS
      <3>1. f = 0 /\ e = 0
        BY <1>9, <2>1
      <3>2. i = 1 /\ "SPACE" \in type
        BY <1>5, <1>7, <1>10, <3>1
      <3> QED
        BY <3>2
    <2>2. ASSUME "LEFT" \in type, NEW i \in Blanks(text) \ signed
          PROVE  i..n \subseteq Blanks(text)
      <3>1. f = 0
        BY <1>3, <2>2
      <3>2. i \in (b + 1)..n
        <4>1. ~(i = f + 1 /\ "SPACE" \in type)
          BY <2>2, <3>1
        <4> QED
          BY <1>10, <3>1, <4>1
      <3>3. i..n \subseteq (b + 1)..n
        BY <1>7, <3>2
      <3> QED
        BY <1>12, <3>3
    <2>3. ASSUME "LEFT" \notin type, NEW i \in Blanks(text)
          PROVE  1..i \subseteq Blanks(text)
      <3>1. n = b
        BY <1>3, <1>5, <1>7, <2>3
      <3>2. i \in 1..n /\ (i \in 1..f \/ i = f + 1)
        BY <1>7, <1>10, <3>1
      <3>3. 1..i \subseteq (1..f) \cup {i}
        BY <3>2
      <3> QED
        BY <1>11, <3>3
    <2> HIDE DEF signed
    <2> QED
      BY <1>9, <2>1, <2>2, <2>3 DEF FillsField, n
  <1>14. Cardinality({i \in 1..n : IsDigit(text[i])}) >= precision
    <2> DEFINE D == {i \in 1..n : IsDigit(text[i])}
               I == (p + 1)..b
    <2>1. I \subseteq D
      <3> SUFFICES ASSUME NEW i \in I PROVE i \in D
        OBVIOUS
      <3>1. i \in 1..n
        BY <1>5, <1>7
      <3>2. CASE i <= m
        <4>1. i - p \in 1..z /\ p + (i - p) = i
          BY <1>7, <3>2
        <4>2. text[i] = "0"
          BY <1>5, <4>1
        <4> QED
          BY <3>1, <4>2, DigitChars
      <3>3. CASE m < i
        <4>1. i - m \in 1..lt /\ m + (i - m) = i
          BY <1>2, <1>7, <3>3
        <4>2. IsDigit(text[i])
          BY <1>5, <1>6, <4>1
        <4> QED
          BY <3>1, <4>2
      <3> QED
        BY <1>7, <3>2, <3>3
    <2>2. IsFiniteSet(1..n)
      BY <1>7, FS_Interval
    <2>3. IsFiniteSet(D)
      BY <2>2, FS_Subset
    <2>4. Cardinality(I) = z + lt
      <3>1. p + 1 \in Int /\ b \in Int /\ lt \in Nat /\ b = (p + z) + lt
        BY <1>2, <1>7
      <3>2. Cardinality(I) = IF p + 1 > b THEN 0 ELSE b - (p + 1) + 1
        BY <3>1, FS_Interval
      <3>3. (IF p + 1 > b THEN 0 ELSE b - (p + 1) + 1) = z + lt
        BY <1>7, <3>1
      <3> HIDE DEF I
      <3> QED
        BY <3>2, <3>3
    <2> HIDE DEF D, I
    <2>5. Cardinality(I) <= Cardinality(D) /\ Cardinality(D) \in Nat
      BY <2>1, <2>3, FS_Subset, FS_CardinalityType
    <2>6. z + lt >= precision
      BY <1>2, <1>3, <1>4, <1>8
    <2> DEFINE c == Cardinality(D)
    <2>7. c \in Nat /\ z + lt <= c
      BY <2>4, <2>5
    <2> HIDE DEF c
    <2>8. c >= precision
      BY <1>2, <2>6, <2>7
    <2> QED
      BY <2>8 DEF c, D
  <1> QED
    BY <1>13, <1>14 DEF text, n

\* A text in a field: itself, and blanks on one side.
LEMMA FieldIs ==
    ASSUME NEW d, NEW text, List(text), d.field_width \in Int
    PROVE  LET n == Max({d.field_width, Len(text)}) IN
           /\ n \in Nat /\ Len(text) \in 0..n /\ n >= d.field_width
           /\ n > d.field_width => n = Len(text)
           /\ Field(d, text) = IF "LEFT" \in d.flags THEN text \o Pad("SP", n - Len(text))
                                                      ELSE Pad("SP", n - Len(text)) \o text
  <1> DEFINE w == d.field_width
             l == Len(text)
             n == Max({w, l})
  <1>1. l \in Nat /\ w \in Int
    BY DEF List
  <1>2. n = IF w <= l THEN l ELSE w
    <2> HIDE DEF w, l
    <2> QED
      BY <1>1, MaxPair
  <1>3. Pad("SP", w - l) = Pad("SP", n - l)
    <2>1. CASE w <= l
      <3>1. n - l = 0 /\ 1..(w - l) = {} /\ 1..0 = {}
        <4> HIDE DEF w, l
        <4> QED
          BY <1>1, <1>2, <2>1
      <3> QED
        BY <3>1 DEF Pad
    <2>2. CASE ~(w <= l)
      BY <1>2, <2>2
    <2> QED
      BY <2>1, <2>2
  <1>4. n \in Nat /\ l \in 0..n /\ n >= w /\ (n > w => n = l)
    <2> HIDE DEF w, l, n
    <2> QED
      BY <1>1, <1>2
  <1> HIDE DEF n
  <1> QED
    BY <1>3, <1>4 DEF Field, n

\* A character in a field fills it.
LEMMA CharFills ==
    ASSUME NEW d, NEW c, c # "SP", d.field_width \in Int
    PROVE  FillsField(Field(d, <<c>>), d.field_width, "LEFT" \in d.flags, {})
  <1> DEFINE w == d.field_width
             one == <<c>>
             n == Max({w, 1})
             pad == Pad("SP", n - 1)
             text == Field(d, one)
  <1>1. List(one) /\ Len(one) = 1 /\ one[1] = c
    BY ListShort
  <1> HIDE DEF one
  <1>2. /\ n \in Nat /\ 1 \in 0..n /\ n >= w /\ (n > w => n = 1)
        /\ text = IF "LEFT" \in d.flags THEN one \o pad ELSE pad \o one
    BY <1>1, FieldIs
  <1>3. List(pad) /\ Len(pad) = n - 1 /\ \A i \in 1..(n - 1) : pad[i] = "SP"
    <2> DEFINE x == n - 1
    <2>1. x \in Nat
      BY <1>2
    <2> HIDE DEF x
    <2> QED
      BY <2>1, PadAt DEF x
  <1> HIDE DEF n, pad, w, text
  <1>4. ASSUME "LEFT" \in d.flags PROVE FillsField(text, w, "LEFT" \in d.flags, {})
    <2>1. text = one \o pad
      BY <1>2, <1>4
    <2>2. /\ Len(text) = 1 + (n - 1) /\ text[1] = c
          /\ \A i \in 1..(n - 1) : text[1 + i] = "SP"
      <3>1. /\ Len(one \o pad) = Len(one) + Len(pad)
            /\ \A i \in 1..Len(one) : (one \o pad)[i] = one[i]
            /\ \A i \in 1..Len(pad) : (one \o pad)[Len(one) + i] = pad[i]
        <4>1. List(one) /\ List(pad)
          BY <1>1, <1>3
        <4> QED
          BY ONLY <4>1, JoinAt
      <3> QED
        BY <1>1, <1>3, <2>1, <3>1
    <2>3. Len(text) = n
      BY <1>2, <2>2
    <2>4. Blanks(text) = 2..n
      <3>1. ASSUME NEW i \in 2..n PROVE text[i] = "SP" /\ i \in 1..n
        <4>1. i - 1 \in 1..(n - 1) /\ 1 + (i - 1) = i
          BY <1>2
        <4>2. text[1 + (i - 1)] = "SP"
          BY <2>2, <4>1
        <4>3. text[i] = "SP"
          BY <4>1, <4>2, Zenon
        <4>4. i \in 1..n
          BY <1>2
        <4> QED
          BY <4>3, <4>4
      <3>2. \A i \in 1..n : i = 1 \/ i \in 2..n
        BY <1>2
      <3>3. \A i \in 1..n : text[i] = "SP" => i \in 2..n
        BY <2>2, <3>2
      <3> QED
        BY <2>3, <3>1, <3>3 DEF Blanks
    <2> QED
      BY <1>2, <1>4, <2>3, <2>4 DEF FillsField
  <1>5. ASSUME "LEFT" \notin d.flags PROVE FillsField(text, w, "LEFT" \in d.flags, {})
    <2>1. text = pad \o one
      BY <1>2, <1>5
    <2>2. /\ Len(text) = (n - 1) + 1 /\ text[(n - 1) + 1] = c
          /\ \A i \in 1..(n - 1) : text[i] = "SP"
      <3>1. /\ Len(pad \o one) = Len(pad) + Len(one)
            /\ \A i \in 1..Len(pad) : (pad \o one)[i] = pad[i]
            /\ \A i \in 1..Len(one) : (pad \o one)[Len(pad) + i] = one[i]
        <4>1. List(one) /\ List(pad)
          BY <1>1, <1>3
        <4> QED
          BY ONLY <4>1, JoinAt
      <3> QED
        BY <1>1, <1>3, <2>1, <3>1
    <2>3. Len(text) = n /\ (n - 1) + 1 = n
      BY <1>2, <2>2
    <2>4. Blanks(text) = 1..(n - 1)
      <3>1. \A i \in 1..n : i = n \/ i \in 1..(n - 1)
        BY <1>2
      <3>2. \A i \in 1..n : text[i] = "SP" => i \in 1..(n - 1)
        BY <2>2, <2>3, <3>1
      <3>3. \A i \in 1..(n - 1) : i \in 1..n
        BY <1>2
      <3> QED
        BY <2>2, <2>3, <3>2, <3>3 DEF Blanks
    <2> QED
      BY <1>2, <1>5, <2>3, <2>4 DEF FillsField
  <1>6. FillsField(text, w, "LEFT" \in d.flags, {})
    BY <1>4, <1>5
  <1> QED
    BY <1>6 DEF w, text, one

\* What %c writes.
LEMMA CharWritten ==
    ASSUME FormatInv, PieceInv, OutputInv, Passing, StarFree, [Next]_vars, Piece.conv = "c"
    PROVE  FillsField(Written, Piece.width, "LEFT" \in Piece.flags, {})
  <1> DEFINE d == Directive
             c == CharOf(va_arg(d.args))
             text == Field(d, <<c>>)
  <1>1. /\ ConvertChar \/ ConvertString \/ ConvertNumber
        /\ Piece \in Pieces /\ At(d.at) = "c" /\ d.field_width = Piece.width
        /\ d.flags = Piece.flags
    BY ConversionNow
  <1>2. ConvertChar
    BY <1>1 DEF ConvertString, ConvertNumber
  <1>3. str' = str \o text
    BY <1>2 DEF ConvertChar, Converts
  <1>4. d.field_width \in Int
    BY <1>1 DEF Pieces
  <1>5. c # "SP"
    BY DEF CharOf
  <1> HIDE DEF d, c
  <1>6. List(text)
    <2>1. List(<<c>>)
      BY ListShort
    <2> QED
      BY <1>4, <2>1, FieldLength
  <1>7. FillsField(text, d.field_width, "LEFT" \in d.flags, {})
    BY <1>4, <1>5, CharFills
  <1> HIDE DEF text
  <1>8. List(str)
    BY DEF OutputInv, Passing
  <1>9. Written = text
    BY <1>3, <1>6, <1>8, WrittenIs
  <1> QED
    BY <1>1, <1>7, <1>9

\* What %s writes.
LEMMA StringWritten ==
    ASSUME FormatInv, PieceInv, OutputInv, Passing, StarFree, [Next]_vars, Piece.conv = "s"
    PROVE  LET n     == Len(Written)
               shown == Memory[va_arg(args)]
           IN  \E k \in 0..n :
                 /\ n = Max({k, Piece.width})
                 /\ Piece.prec >= 0 => k <= Piece.prec
                 /\ Written = IF "LEFT" \in Piece.flags
                              THEN SubSeq(shown, 1, k) \o Pad("SP", n - k)
                              ELSE Pad("SP", n - k) \o SubSeq(shown, 1, k)
  <1> DEFINE d == Directive
             shown == Memory[va_arg(args)]
             w == Piece.width
             prec == Piece.prec
  <1>1. /\ ConvertChar \/ ConvertString \/ ConvertNumber
        /\ Piece \in Pieces /\ At(d.at) = "s" /\ d.args = args /\ d.field_width = w
        /\ d.precision = prec /\ d.flags = Piece.flags
    BY ConversionNow
  <1>2. ConvertString
    BY <1>1 DEF ConvertChar, ConvertNumber
  <1>3. PICK h \in FrameLengths :
            str' = str \o Field(d, SubSeq(shown, 1,
                                     IF d.precision < 0 THEN h ELSE Min({h, d.precision})))
    BY <1>1, <1>2 DEF ConvertString, Converts, strlen
  <1> DEFINE k == IF prec < 0 THEN h ELSE Min({h, prec})
             s == SubSeq(shown, 1, k)
             text == Field(d, s)
             n == Max({w, k})
  <1>4. w \in Int /\ prec \in Int /\ h \in Nat
    BY <1>1, Widths DEF Pieces
  <1> HIDE DEF d, w, prec, shown
  <1>5. k \in Nat /\ (prec >= 0 => k <= prec)
    <2>1. Min({h, prec}) = IF h <= prec THEN h ELSE prec
      BY <1>4, MinPair
    <2> QED
      BY <1>4, <2>1
  <1>6. str' = str \o text
    BY <1>1, <1>3
  <1> HIDE DEF k
  <1>7. List(s) /\ Len(s) = k
    <2> DEFINE S == {shown[i] : i \in 1..k}
    <2>1. \A i \in 1..k : shown[i] \in S
      OBVIOUS
    <2> HIDE DEF S
    <2>2. s \in Seq(S) /\ Len(s) = IF 1 <= k THEN k - 1 + 1 ELSE 0
      BY <1>5, <2>1, SubSeqProperties
    <2>3. Len(s) = k
      BY <1>5, <2>2
    <2> HIDE DEF s
    <2> QED
      BY <2>2, <2>3, ListIs
  <1> HIDE DEF s
  <1>8. /\ n \in Nat /\ k \in 0..n
        /\ text = IF "LEFT" \in d.flags THEN s \o Pad("SP", n - k) ELSE Pad("SP", n - k) \o s
    <2>1. d.field_width \in Int /\ d.field_width = w /\ Len(s) = k
      BY <1>1, <1>4, <1>7
    <2> QED
      BY <1>7, <2>1, FieldIs
  <1>9. List(text) /\ Len(text) = n
    BY <1>1, <1>4, <1>7, FieldLength
  <1> HIDE DEF text
  <1>10. Written = text
    <2>1. List(str)
      BY DEF OutputInv, Passing
    <2> QED
      BY <1>6, <1>9, <2>1, WrittenIs
  <1>11. n = Max({k, w})
    <2>1. {w, k} = {k, w}
      OBVIOUS
    <2> QED
      BY <2>1
  <1> HIDE DEF n
  <1>12. /\ Len(Written) = n /\ k \in 0..n /\ n = Max({k, w}) /\ (prec >= 0 => k <= prec)
         /\ Written = IF "LEFT" \in Piece.flags THEN s \o Pad("SP", n - k)
                                                ELSE Pad("SP", n - k) \o s
    BY <1>1, <1>5, <1>8, <1>9, <1>10, <1>11
  <1> QED
    BY <1>12 DEF s, w, prec, shown

\* vsprintf.c:92-232: every conversion of a format without '*' fills its field,
\* with blanks on the side that the flags choose and nowhere else, a number has
\* the digits that the precision asks for, and a string no more characters than
\* it allows.
THEOREM ConversionsFill == Spec /\ StarFree => FieldsFilled
  <1> DEFINE n      == Len(Written)
             blank  == {i \in 1..n : Written[i] = "SP"}
             signed == IF Piece.conv # "c" /\ "SPACE" \in Piece.flags THEN {1} ELSE {}
             shown  == Memory[va_arg(args)]
             left   == "LEFT" \in Piece.flags
             OfNumber == Passing /\ Piece.conv \in {"o", "x", "X", "d", "i", "u", "c"} =>
                            /\ n >= Piece.width
                            /\ n > Piece.width => blank \subseteq signed
                            /\ left => \A i \in blank \ signed : i..n \subseteq blank
                            /\ ~left => \A i \in blank : 1..i \subseteq blank
                            /\ Piece.conv # "c" =>
                                  Cardinality({i \in 1..n : IsDigit(Written[i])}) >= Piece.prec
             OfString == Passing /\ Piece.conv = "s" =>
                            \E k \in 0..n :
                                /\ n = Max({k, Piece.width})
                                /\ Piece.prec >= 0 => k <= Piece.prec
                                /\ Written = IF left THEN SubSeq(shown, 1, k) \o Pad("SP", n - k)
                                                     ELSE Pad("SP", n - k) \o SubSeq(shown, 1, k)
  <1>1. FormatInv /\ PieceInv /\ OutputInv /\ StarFree /\ [Next]_vars => OfNumber /\ OfString
    <2> SUFFICES ASSUME FormatInv, PieceInv, OutputInv, StarFree, [Next]_vars
                 PROVE  OfNumber /\ OfString
      OBVIOUS
    <2>1. ASSUME Passing, Piece.conv = "c" PROVE OfNumber
      BY <2>1, CharWritten DEF FillsField, Blanks
    <2>2. ASSUME Passing, Piece.conv \in {"o", "x", "X", "d", "i", "u"} PROVE OfNumber
      <3> DEFINE num   == va_arg(args)
                 base  == BaseOf(Piece.conv)
                 width == WidthOf(Piece)
                 prec  == Piece.prec
      <3>1. Piece.conv \in Numeric
        BY <2>2 DEF Numeric
      <3>2. num \in Word /\ base \in Bases /\ width \in Int /\ prec \in Int
        BY <2>2, <3>1, NumberWritten
      <3>3. PICK type :
              /\ Written = number(num, base, width, prec, type)
              /\ \A flag \in {"LEFT", "PLUS", "SPACE"} : flag \in type <=> flag \in Piece.flags
        BY <2>2, <3>1, NumberWritten
      <3>4. width = Piece.width
        BY <2>2 DEF WidthOf
      <3> HIDE DEF num, base, width, prec
      <3>5. /\ FillsField(Written, width, "LEFT" \in type, IF "SPACE" \in type THEN {1} ELSE {})
            /\ Cardinality({i \in 1..n : IsDigit(Written[i])}) >= prec
        BY <3>2, <3>3, NumberFills
      <3>6. FillsField(Written, Piece.width, left, signed)
        <4>1. ("LEFT" \in type) = left
          BY <3>3
        <4>2. (IF "SPACE" \in type THEN {1} ELSE {}) = signed
          BY <2>2, <3>3
        <4> HIDE DEF left, signed
        <4> QED
          BY <3>4, <3>5, <4>1, <4>2
      <3> QED
        BY <3>5, <3>6 DEF FillsField, Blanks, prec
    <2>3. OfString
      BY StringWritten
    <2> QED
      BY <2>1, <2>2, <2>3
  <1>2. Spec => []OutputInv
    BY OutputInvAlways
  <1>3. StarFree /\ [Next]_vars => StarFree'
    BY StarFreeStays
  <1> QED
    BY <1>1, <1>2, <1>3, PieceInvAlways, PTL DEF Spec, FieldsFilled

-----------------------------------------------------------------------------
(* The character classes: those of the C standard for the characters of    *)
(* ASCII, and these are all that the macros are good for.                   *)

\* The macros as the ranges that the table gives them.
LEMMA Ranges ==
    ASSUME NEW c \in -1..127
    PROVE  /\ isupper(c) <=> c \in 65..90
           /\ islower(c) <=> c \in 97..122
           /\ isdigit(c) <=> c \in 48..57
           /\ iscntrl(c) <=> c \in 0..31 \/ c = 127
           /\ isspace(c) <=> c \in 9..13 \/ c = 32
           /\ ispunct(c) <=> c \in 33..47 \/ c \in 58..64 \/ c \in 91..96 \/ c \in 123..126
           /\ isxdigit(c) <=> c \in 48..57 \/ c \in 65..70 \/ c \in 97..102
           /\ isalpha(c) <=> isupper(c) \/ islower(c)
           /\ isalnum(c) <=> isalpha(c) \/ isdigit(c)
           /\ isgraph(c) <=> isalnum(c) \/ ispunct(c)
           /\ isprint(c) <=> isgraph(c) \/ c = 32
  <1>1. \A bit \in DOMAIN Marked : bit \in _ctype[c] <=> c \in Marked[bit]
    <2>1. c \in -1..255
      OBVIOUS
    <2>2. _ctype[c] = {bit \in DOMAIN Marked : c \in Marked[bit]}
      BY <2>1, Zenon DEF _ctype
    <2> QED
      BY <2>2
  <1>2. DOMAIN Marked = {"U", "L", "D", "C", "P", "S", "X", "SP"}
    BY DEF Marked
  <1>3. /\ Has(c, {"U"}) <=> c \in 65..90
        /\ Has(c, {"L"}) <=> c \in 97..122
        /\ Has(c, {"D"}) <=> c \in 48..57
        /\ Has(c, {"C"}) <=> c \in 0..31 \/ c = 127
        /\ Has(c, {"S"}) <=> c \in 9..13 \/ c = 32
        /\ Has(c, {"X"}) <=> c \in 65..70 \/ c \in 97..102
        /\ Has(c, {"SP"}) <=> c = 32
    BY <1>1, <1>2 DEF Has, Marked
  <1>4. Has(c, {"P"}) <=> c \in 33..47 \/ c \in 58..64 \/ c \in 91..96 \/ c \in 123..126
    BY <1>1, <1>2 DEF Has, Marked
  <1>5. ASSUME NEW A, NEW B PROVE Has(c, A \cup B) <=> Has(c, A) \/ Has(c, B)
    BY DEF Has
  <1>6. /\ Has(c, {"U", "L"}) <=> Has(c, {"U"}) \/ Has(c, {"L"})
        /\ Has(c, {"U", "L", "D"}) <=> Has(c, {"U", "L"}) \/ Has(c, {"D"})
        /\ Has(c, {"P", "U", "L", "D"}) <=> Has(c, {"U", "L", "D"}) \/ Has(c, {"P"})
        /\ Has(c, {"P", "U", "L", "D", "SP"}) <=> Has(c, {"P", "U", "L", "D"}) \/ Has(c, {"SP"})
        /\ Has(c, {"D", "X"}) <=> Has(c, {"D"}) \/ Has(c, {"X"})
    BY DEF Has
  <1> QED
    BY <1>3, <1>4, <1>6
    DEF isupper, islower, isdigit, iscntrl, isspace, ispunct, isxdigit,
        isalpha, isalnum, isgraph, isprint

\* The classes divide the characters as the standard says: every character is
\* either printed or a control character, and every one that leaves ink is in
\* one of letters, digits and punctuation only; EOF is in none.
THEOREM ClassesDivide ==
    ASSUME NEW c \in 0..127
    PROVE  /\ isprint(c) <=> ~iscntrl(c)
           /\ isgraph(c) <=> isprint(c) /\ c # 32
           /\ ispunct(c) <=> isgraph(c) /\ ~isalnum(c)
           /\ ~(isupper(c) /\ islower(c)) /\ ~(isalpha(c) /\ isdigit(c))
           /\ isxdigit(c) => isalnum(c)
           /\ ~isprint(-1) /\ ~iscntrl(-1) /\ ~isspace(-1)
  <1>1. c \in -1..127 /\ -1 \in -1..127
    OBVIOUS
  <1>2. ~isprint(-1) /\ ~iscntrl(-1) /\ ~isspace(-1)
    BY <1>1, Ranges
  <1>3. isprint(c) <=> c \in 32..126
    BY <1>1, Ranges
  <1> QED
    BY <1>1, <1>2, <1>3, Ranges

\* toupper undoes tolower for letters and both leave everything else alone, EOF
\* included.
THEOREM CaseRoundTrip ==
    ASSUME NEW c \in -1..127
    PROVE  /\ isupper(c) => islower(tolower(c)) /\ toupper(tolower(c)) = c
           /\ islower(c) => isupper(toupper(c)) /\ tolower(toupper(c)) = c
           /\ ~isalpha(c) => tolower(c) = c /\ toupper(c) = c
  <1>1. ASSUME NEW a \in -1..127 PROVE _ctmp(a) = a
    BY DEF _ctmp
  <1>2. ASSUME NEW a \in -1..127
        PROVE  /\ tolower(a) = IF a \in 65..90 THEN a + 32 ELSE a
               /\ toupper(a) = IF a \in 97..122 THEN a - 32 ELSE a
    BY <1>1, Ranges DEF tolower, toupper
  <1>3. tolower(c) \in -1..127 /\ toupper(c) \in -1..127
    BY <1>2
  <1>4. /\ toupper(tolower(c)) = IF tolower(c) \in 97..122 THEN tolower(c) - 32 ELSE tolower(c)
        /\ tolower(toupper(c)) = IF toupper(c) \in 65..90 THEN toupper(c) + 32 ELSE toupper(c)
    BY <1>2, <1>3
  <1>5. /\ islower(tolower(c)) <=> tolower(c) \in 97..122
        /\ isupper(toupper(c)) <=> toupper(c) \in 65..90
    BY <1>3, Ranges
  <1> QED
    BY <1>2, <1>4, <1>5, Ranges

\* The table has an entry for every unsigned character, but tolower and toupper
\* keep their argument in a signed one: from 128 to 254 they look in front of the
\* table, and 255 they take for EOF.
THEOREM CaseNeedsAscii ==
    ASSUME NEW c \in 128..255
    PROVE  /\ c \in DOMAIN _ctype
           /\ _ctmp(c) \in DOMAIN _ctype <=> c = 255
  <1>1. _ctmp(c) = c - 256
    BY DEF _ctmp
  <1> QED
    BY <1>1 DEF _ctype
=============================================================================
