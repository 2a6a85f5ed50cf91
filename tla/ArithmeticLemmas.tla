-------------------------- MODULE ArithmeticLemmas --------------------------
(***************************************************************************)
(* Facts about products, integer division, induction and the sequence of   *)
(* the members of a sequence of sequences that the proofs cite.            *)
(***************************************************************************)
EXTENDS Integers, SequencesExt, SequenceTheorems, FiniteSetTheorems, TLAPS

\* Quotient and remainder of a division by a positive number.
LEMMA DivMod ==
    ASSUME NEW n \in Nat, NEW d \in Nat \ {0}
    PROVE  /\ n \div d \in Nat
           /\ n % d \in 0..(d - 1)
           /\ n = (n \div d) * d + (n % d)
  <1>1. n \div d \in Nat OBVIOUS
  <1>2. n % d \in 0..(d - 1) OBVIOUS
  <1>3. n = (n \div d) * d + (n % d) OBVIOUS
  <1> QED BY <1>1, <1>2, <1>3

\* A product of naturals is a natural.
LEMMA MulNat ==
    ASSUME NEW a \in Nat, NEW b \in Nat
    PROVE  a * b \in Nat
  OBVIOUS

\* Multiplication by a natural keeps the order.
LEMMA MulMono ==
    ASSUME NEW a \in Nat, NEW b \in Nat, NEW d \in Nat, a <= b
    PROVE  a * d <= b * d
  OBVIOUS

\* One more row of d.
LEMMA MulNext ==
    ASSUME NEW a \in Nat, NEW d \in Nat
    PROVE  (a + 1) * d = a * d + d
  OBVIOUS

\* The quotient is the largest q with q * d <= n.
LEMMA DivAtLeast ==
    ASSUME NEW n \in Nat, NEW d \in Nat \ {0}, NEW q \in Nat, q * d <= n
    PROVE  q <= n \div d
  <1> DEFINE p == n \div d
  <1>1. p \in Nat /\ n < p * d + d
    BY DivMod
  <1>2. SUFFICES ASSUME p < q PROVE FALSE
    BY <1>1
  <1> HIDE DEF p
  <1>3. p + 1 \in Nat /\ p + 1 <= q
    BY <1>1, <1>2
  <1>4. (p + 1) * d <= q * d
    BY <1>3, MulMono
  <1>5. (p + 1) * d = p * d + d
    BY <1>1, MulNext
  <1>6. p * d \in Nat /\ q * d \in Nat
    BY <1>1, MulNat
  <1> QED
    BY <1>1, <1>4, <1>5, <1>6

\* A number below d squared is given back by its two digits to the base d.
LEMMA TwoDigits ==
    ASSUME NEW n \in Nat, NEW d \in Nat \ {0}, n < d * d
    PROVE  ((n \div d) % d) * d + (n % d) = n
  <1> DEFINE p == n \div d
  <1>1. p \in Nat /\ n = p * d + (n % d) /\ n % d \in Nat
    BY DivMod
  <1>2. p < d
    <2>1. SUFFICES ASSUME d <= p PROVE FALSE
      BY <1>1
    <2> HIDE DEF p
    <2>2. d * d <= p * d
      BY <1>1, <2>1, MulMono
    <2>3. p * d \in Nat /\ d * d \in Nat
      BY <1>1, MulNat
    <2> QED
      BY <1>1, <2>2, <2>3
  <1> HIDE DEF p
  <1>3. p % d = p
    BY <1>1, <1>2
  <1> QED
    BY <1>1, <1>3 DEF p

\* Quotient and remainder are the only numbers of their kind.
LEMMA DivUnique ==
    ASSUME NEW q \in Nat, NEW d \in Nat \ {0}, NEW r \in 0..(d - 1)
    PROVE  (q * d + r) \div d = q /\ (q * d + r) % d = r
  <1> DEFINE n == q * d + r
             p == n \div d
  <1>1. n \in Nat
    BY MulNat
  <1>2. p \in Nat /\ n = p * d + (n % d) /\ n % d \in 0..(d - 1)
    BY <1>1, DivMod
  <1>3. q <= p
    BY <1>1, DivAtLeast, MulNat
  <1>4. p <= q
    <2>1. SUFFICES ASSUME q + 1 <= p PROVE FALSE
      BY <1>2
    <2> HIDE DEF p
    <2>2. (q + 1) * d <= p * d
      BY <1>2, <2>1, MulMono
    <2>3. (q + 1) * d = q * d + d /\ q * d \in Nat /\ p * d \in Nat
      BY <1>2, MulNext, MulNat
    <2> QED
      BY <1>2, <2>2, <2>3
  <1> HIDE DEF p
  <1>5. p = q
    BY <1>2, <1>3, <1>4
  <1> QED
    BY <1>2, <1>5, MulNat DEF p

\* Dividing twice is dividing by the product.
LEMMA DivDiv ==
    ASSUME NEW n \in Nat, NEW a \in Nat \ {0}, NEW b \in Nat \ {0}
    PROVE  n \div (a * b) = (n \div a) \div b
  <1> DEFINE p == n \div a
             q == p \div b
             r == (p % b) * a + (n % a)
  <1>1. p \in Nat /\ n = p * a + (n % a) /\ n % a \in 0..(a - 1)
    BY DivMod
  <1> HIDE DEF p
  <1>2. q \in Nat /\ p = q * b + (p % b) /\ p % b \in 0..(b - 1)
    BY <1>1, DivMod
  <1> HIDE DEF q
  <1>3. (p % b) * a <= (b - 1) * a /\ (b - 1) * a + a = b * a
    BY <1>2, MulMono, MulNext
  <1>4. a * b \in Nat \ {0} /\ b * a = a * b
    OBVIOUS
  <1>5. r \in 0..(a * b - 1)
    <2>1. (p % b) * a \in Nat /\ (b - 1) * a \in Nat
      BY <1>2, MulNat
    <2> QED
      BY <1>1, <1>3, <1>4, <2>1
  <1>6. n = q * (a * b) + r
    <2>1. p * a = q * b * a + (p % b) * a
      BY <1>2
    <2>2. q * b * a = q * (a * b)
      BY <1>2
    <2>3. q * (a * b) \in Nat /\ (p % b) * a \in Nat
      BY <1>2, <1>4, MulNat
    <2> QED
      BY <1>1, <2>1, <2>2, <2>3
  <1> HIDE DEF r
  <1>7. n \div (a * b) = q
    BY <1>2, <1>4, <1>5, <1>6, DivUnique
  <1> QED
    BY <1>7 DEF q, p

\* Dividing and multiplying again gives no more.
LEMMA DivTimes ==
    ASSUME NEW n \in Nat, NEW d \in Nat \ {0}
    PROVE  (n \div d) * d <= n
  <1> DEFINE p == n \div d
             r == n % d
  <1>1. p \in Nat /\ n = p * d + r /\ r \in 0..(d - 1)
    BY DivMod
  <1> HIDE DEF p, r
  <1>2. p * d \in Nat
    BY <1>1, MulNat
  <1>3. p * d <= n
    BY <1>1, <1>2
  <1> QED
    BY <1>3 DEF p

\* The remainder of a number that is at most one divisor off.
LEMMA ModNear ==
    ASSUME NEW d \in Nat \ {0}, NEW x \in Int
    PROVE  /\ x \in 0..(d - 1) => x % d = x
           /\ x \in d..(2 * d - 1) => x % d = x - d
           /\ x \in (-d)..(-1) => x % d = x + d
  <1>1. ASSUME x \in 0..(d - 1) PROVE x % d = x
    BY <1>1
  <1>2. ASSUME x \in d..(2 * d - 1) PROVE x % d = x - d
    <2>1. x = 1 * d + (x - d) /\ x - d \in 0..(d - 1)
      BY <1>2
    <2> QED
      BY <2>1, DivUnique
  <1>3. ASSUME x \in (-d)..(-1) PROVE x % d = x + d
    BY <1>3
  <1> QED
    BY <1>1, <1>2, <1>3

\* Counting up, the remainder starts again at zero.
LEMMA ModNext ==
    ASSUME NEW n \in Nat, NEW d \in Nat \ {0}
    PROVE  (n + 1) % d = IF n % d = d - 1 THEN 0 ELSE (n % d) + 1
  <1> DEFINE q == n \div d
             r == n % d
  <1>1. q \in Nat /\ r \in 0..(d - 1) /\ n = q * d + r
    BY DivMod
  <1> HIDE DEF q, r
  <1>2. CASE r = d - 1
    <2>1. n + 1 = (q + 1) * d + 0 /\ q + 1 \in Nat /\ 0 \in 0..(d - 1)
      BY <1>1, <1>2, MulNext, MulNat
    <2> QED
      BY <1>2, <2>1, DivUnique DEF r
  <1>3. CASE r # d - 1
    <2>1. n + 1 = q * d + (r + 1) /\ r + 1 \in 0..(d - 1)
      BY <1>1, <1>3, MulNat
    <2>2. (n + 1) % d = r + 1
      BY <1>1, <2>1, DivUnique
    <2> QED
      BY <1>3, <2>2 DEF r
  <1> QED
    BY <1>2, <1>3

-----------------------------------------------------------------------------
\* A set of naturals that is not empty has a least element.
LEMMA LeastElement ==
    ASSUME NEW T \in SUBSET Nat, T # {}
    PROVE  \E m \in T : \A n \in T : m <= n
  <1> DEFINE F == {0..n : n \in T}
             R == StrictSubsetOrdering(Nat)
  <1>1. IsWellFoundedOn(R, FiniteSubsetsOf(Nat))
    BY FS_StrictSubsetOrderingWellFounded
  <1>2. F \subseteq FiniteSubsetsOf(Nat)
    <2>1. ASSUME NEW n \in T PROVE 0..n \in FiniteSubsetsOf(Nat)
      <3>1. n \in Int /\ 0 \in Int /\ 0..n \subseteq Nat
        OBVIOUS
      <3>2. IsFiniteSet(0..n)
        BY <3>1, FS_Interval
      <3> QED
        BY <3>1, <3>2 DEF FiniteSubsetsOf
    <2> QED
      BY <2>1
  <1>3. F # {} OBVIOUS
  <1>4. PICK x \in F : \A y \in F : <<y, x>> \notin R
    <2> HIDE DEF F, R
    <2> QED BY <1>1, <1>2, <1>3, WFMin
  <1>5. PICK m \in T : x = 0..m OBVIOUS
  <1>6. ASSUME NEW n \in T, n < m PROVE FALSE
    <2>1. <<0..n, 0..m>> \in R
      BY <1>6 DEF StrictSubsetOrdering
    <2> QED BY <1>4, <1>5, <2>1
  <1> QED BY <1>6

\* Induction, with the numbers a statement holds of as a set: the library's
\* induction theorems take an operator.
LEMMA SetInduction ==
    ASSUME NEW S, 0 \in S, \A n \in Nat : n \in S => n + 1 \in S
    PROVE  Nat \subseteq S
  <1> DEFINE T == Nat \ S
  <1> SUFFICES ASSUME T # {} PROVE FALSE OBVIOUS
  <1>1. PICK m \in T : \A n \in T : m <= n BY LeastElement
  <1>2. m # 0 OBVIOUS
  <1>3. m - 1 \in Nat /\ m - 1 \notin T BY <1>1, <1>2
  <1> QED BY <1>3

-----------------------------------------------------------------------------
\* f is the function FlattenSeq computes the first n members of ss with.
Flattens(f, ss, n) ==
    f = [i \in 1..n |-> IF i = 1 THEN ss[i] ELSE f[i - 1] \o ss[i]]

\* There is one for every n,
LEMMA FlattenExists ==
    ASSUME NEW ss, NEW n \in Nat
    PROVE  \E f : Flattens(f, ss, n)
  <1> DEFINE T == {k \in Nat : \E f : Flattens(f, ss, k)}
  <1>1. 0 \in T
    <2>1. Flattens([i \in 1..0 |-> 0], ss, 0)
      BY DEF Flattens
    <2> QED
      BY <2>1
  <1>2. ASSUME NEW k \in Nat, k \in T PROVE k + 1 \in T
    <2>1. PICK f : Flattens(f, ss, k)
      BY <1>2
    <2> DEFINE g == [i \in 1..(k + 1) |->
                       IF i \in 1..k THEN f[i]
                       ELSE IF i = 1 THEN ss[i] ELSE f[i - 1] \o ss[i]]
    <2>2. ASSUME NEW i \in 1..(k + 1)
          PROVE  g[i] = IF i = 1 THEN ss[i] ELSE g[i - 1] \o ss[i]
      <3>1. i # 1 => i - 1 \in 1..k
        BY <1>2
      <3>2. i # 1 => g[i - 1] = f[i - 1]
        BY <1>2, <3>1
      <3>3. i \in 1..k => f[i] = IF i = 1 THEN ss[i] ELSE f[i - 1] \o ss[i]
        BY <2>1 DEF Flattens
      <3> QED
        BY <3>2, <3>3
    <2>3. Flattens(g, ss, k + 1)
      BY <2>2 DEF Flattens
    <2> QED
      BY <2>3
  <1> HIDE DEF T
  <1>3. Nat \subseteq T
    BY <1>1, <1>2, SetInduction
  <1> QED
    BY <1>3 DEF T

\* its values are sequences, and do not depend on how far it goes.
LEMMA FlattenAgree ==
    ASSUME NEW S, NEW ss, NEW n \in Nat, \A i \in 1..n : ss[i] \in Seq(S),
           NEW tt, NEW m \in Nat, n <= m, \A i \in 1..n : tt[i] = ss[i],
           NEW f, Flattens(f, ss, n), NEW g, Flattens(g, tt, m)
    PROVE  \A i \in 1..n : f[i] = g[i] /\ f[i] \in Seq(S)
  <1> DEFINE T == {k \in Nat : k \in 1..n => f[k] = g[k] /\ f[k] \in Seq(S)}
  <1>1. 0 \in T
    OBVIOUS
  <1>2. ASSUME NEW k \in Nat, k \in T PROVE k + 1 \in T
    <2> SUFFICES ASSUME k + 1 \in 1..n
                 PROVE  f[k + 1] = g[k + 1] /\ f[k + 1] \in Seq(S)
      OBVIOUS
    <2>1. /\ f[k + 1] = IF k + 1 = 1 THEN ss[k + 1] ELSE f[k + 1 - 1] \o ss[k + 1]
          /\ g[k + 1] = IF k + 1 = 1 THEN tt[k + 1] ELSE g[k + 1 - 1] \o tt[k + 1]
      <3>1. \A i \in 1..n : f[i] = IF i = 1 THEN ss[i] ELSE f[i - 1] \o ss[i]
        BY DEF Flattens
      <3>2. \A i \in 1..m : g[i] = IF i = 1 THEN tt[i] ELSE g[i - 1] \o tt[i]
        BY DEF Flattens
      <3>3. k + 1 \in 1..m
        OBVIOUS
      <3> QED
        BY <3>1, <3>2, <3>3
    <2>2. tt[k + 1] = ss[k + 1] /\ ss[k + 1] \in Seq(S) /\ k + 1 - 1 = k
      OBVIOUS
    <2>3. CASE k = 0
      BY <2>1, <2>2, <2>3
    <2>4. CASE k # 0
      <3>1. f[k] = g[k] /\ f[k] \in Seq(S) /\ k + 1 # 1
        BY <1>2, <2>4
      <3>2. f[k + 1] = f[k] \o ss[k + 1] /\ g[k + 1] = f[k] \o ss[k + 1]
        BY <2>1, <2>2, <3>1
      <3> QED
        BY <2>2, <3>1, <3>2, ConcatProperties
    <2> QED
      BY <2>3, <2>4
  <1> HIDE DEF T
  <1>3. Nat \subseteq T
    BY <1>1, <1>2, SetInduction
  <1> QED
    BY <1>3 DEF T

\* FlattenSeq is its last value.
LEMMA FlattenIs ==
    ASSUME NEW S, NEW ss \in Seq(Seq(S)), ss # <<>>
    PROVE  \E f : Flattens(f, ss, Len(ss)) /\ FlattenSeq(ss) = f[Len(ss)]
  <1> DEFINE n == Len(ss)
             fl == CHOOSE f : f = [i \in 1..n |-> IF i = 1 THEN ss[i] ELSE f[i - 1] \o ss[i]]
  <1>1. n \in Nat \ {0}
    BY EmptySeq
  <1>2. Flattens(fl, ss, n)
    <2>1. PICK f : Flattens(f, ss, n)
      BY <1>1, FlattenExists
    <2> QED
      BY <2>1 DEF Flattens
  <1>3. FlattenSeq(ss) = fl[n]
    BY <1>1 DEF FlattenSeq
  <1> QED
    BY <1>2, <1>3

\* So a further member is appended.
LEMMA FlattenAppend ==
    ASSUME NEW S, NEW ss \in Seq(Seq(S)), NEW x \in Seq(S)
    PROVE  /\ FlattenSeq(ss) \in Seq(S)
           /\ FlattenSeq(Append(ss, x)) = FlattenSeq(ss) \o x
  <1> DEFINE tt == Append(ss, x)
             n == Len(ss)
  <1>1. /\ n \in Nat /\ tt \in Seq(Seq(S)) /\ tt # <<>> /\ Len(tt) = n + 1
        /\ tt[n + 1] = x /\ \A i \in 1..n : tt[i] = ss[i] /\ ss[i] \in Seq(S)
    BY AppendProperties, ElementOfSeq
  <1>2. PICK g : Flattens(g, tt, n + 1) /\ FlattenSeq(tt) = g[n + 1]
    BY <1>1, FlattenIs
  <1>3. g[n + 1] = IF n + 1 = 1 THEN x ELSE g[n] \o x
    <2>1. n + 1 \in 1..(n + 1) /\ (n + 1) - 1 = n
      BY <1>1
    <2>2. g[n + 1] = IF n + 1 = 1 THEN tt[n + 1] ELSE g[(n + 1) - 1] \o tt[n + 1]
      BY <1>2, <2>1 DEF Flattens
    <2> QED
      BY <1>1, <2>1, <2>2
  <1>4. CASE ss = <<>>
    <2>1. n = 0 /\ FlattenSeq(ss) = <<>>
      BY <1>4 DEF FlattenSeq
    <2>2. <<>> \o x = x /\ <<>> \in Seq(S)
      BY ConcatEmptySeq
    <2> QED
      BY <1>2, <1>3, <2>1, <2>2
  <1>5. CASE ss # <<>>
    <2>1. PICK f : Flattens(f, ss, n) /\ FlattenSeq(ss) = f[n]
      BY <1>5, FlattenIs
    <2>2. n \in 1..n /\ n + 1 # 1
      BY <1>1, <1>5, EmptySeq
    <2> HIDE DEF tt, n
    <2>3. f[n] = g[n] /\ f[n] \in Seq(S)
      <3>1. n + 1 \in Nat /\ n <= n + 1 /\ Flattens(g, tt, n + 1)
        BY <1>1, <1>2
      <3>2. \A i \in 1..n : f[i] = g[i] /\ f[i] \in Seq(S)
        BY <1>1, <2>1, <3>1, FlattenAgree
      <3> QED
        BY <2>2, <3>2
    <2> QED
      BY <1>2, <1>3, <2>1, <2>2, <2>3 DEF tt
  <1> QED
    BY <1>4, <1>5
=============================================================================
