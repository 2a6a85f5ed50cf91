-------------------------- MODULE DescriptorProofs --------------------------
(***************************************************************************)
(* Theorems about Descriptors.tla, for every task, address and limit, on   *)
(* bytes of eight bits as in the code and on the smaller ones of the run.  *)
(***************************************************************************)
EXTENDS Descriptors, ArithmeticLemmas

DescriptorType ==
    [lim0 : Bytes, lim1 : Bytes, base0 : Bytes, base1 : Bytes,
     base2 : Bytes, type : Types, lim2 : Bytes, base3 : Bytes]

Longs  == 0..(Long - 1)
Limits == 0..(Nibble * Half - 1)

\* The sizes as multiples of each other.
LEMMA Sizes ==
    /\ Nibble \in Nat \ {0} /\ Byte \in Nat \ {0} /\ Half \in Nat \ {0}
    /\ Long \in Nat \ {0} /\ Page \in Nat \ {0} /\ Half * Byte \in Nat \ {0}
    /\ Long = Byte * (Half * Byte)
    /\ Long = (Nibble * Half) * Page
    /\ Nibble * Half \in Nat \ {0}
<1>1. Nibble \in Nat \ {0} /\ Byte \in Nat \ {0} /\ Page \in Nat \ {0}
  BY SizesAssumption DEF Byte, Page
<1>2. Half \in Nat \ {0} BY <1>1 DEF Half
<1>3. Long \in Nat \ {0} BY <1>2 DEF Long
<1>4. Half * Byte \in Nat \ {0} /\ Nibble * Half \in Nat \ {0} BY <1>1, <1>2
<1>5. Long = Byte * (Half * Byte)
  <2>1. Byte * (Half * Byte) = Half * (Byte * Byte) BY <1>1, <1>2
  <2> QED BY <2>1 DEF Half, Long
<1>6. Long = (Nibble * Half) * Page
  <2>1. (Nibble * Half) * Page = Half * (Nibble * Page) BY <1>1, <1>2
  <2>2. Nibble * Page = (Nibble * Nibble) * (Nibble * Nibble) BY <1>1 DEF Page
  <2> QED BY <2>1, <2>2 DEF Byte, Half, Long
<1> QED BY <1>1, <1>2, <1>3, <1>4, <1>5, <1>6

-----------------------------------------------------------------------------
(* The selectors.                                                          *)

\* "4-TSS0, 5-LDT0, 6-TSS1 etc ..." (sched.h): every task has two entries of its
\* own, none of them the kernel's, and all in the 256 entries of gdt.
THEOREM TasksApart ==
    ASSUME NEW m \in 0..(NR_TASKS - 1), NEW n \in 0..(NR_TASKS - 1)
    PROVE  /\ _TSS(m) % 8 = 0 /\ _LDT(m) % 8 = 0
           /\ _TSS(m) \div 8 \in 4..255 /\ _LDT(m) \div 8 \in 4..255
           /\ Gdt(_TSS(m)) # Gdt(_LDT(n))
           /\ m # n => Gdt(_TSS(m)) # Gdt(_TSS(n)) /\ Gdt(_LDT(m)) # Gdt(_LDT(n))
<1>1. /\ _TSS(m) \div 8 = 2 * m + 4 /\ _LDT(m) \div 8 = 2 * m + 5
      /\ _TSS(n) \div 8 = 2 * n + 4 /\ _LDT(n) \div 8 = 2 * n + 5
      /\ _TSS(m) % 8 = 0 /\ _LDT(m) % 8 = 0
  BY DEF NR_TASKS, _TSS, _LDT, FIRST_TSS_ENTRY, FIRST_LDT_ENTRY
<1> QED BY <1>1 DEF NR_TASKS, Gdt

\* str finds the number of the task whose selector ltr has loaded.
THEOREM StrFindsTask == ASSUME NEW n \in 0..(NR_TASKS - 1) PROVE str(_TSS(n)) = n
BY DEF NR_TASKS, str, _TSS, FIRST_TSS_ENTRY

-----------------------------------------------------------------------------
(* The macros.                                                             *)

\* The four bytes of a base make up that base.
LEMMA BaseParts ==
    ASSUME NEW b \in Longs
    PROVE  /\ b % Byte \in Bytes /\ (b \div Byte) % Byte \in Bytes
           /\ (b \div Half) % Byte \in Bytes /\ b \div (Half * Byte) \in Bytes
           /\ b = (b % Byte) + Byte * ((b \div Byte) % Byte)
                  + Half * ((b \div Half) % Byte) + Half * Byte * (b \div (Half * Byte))
<1> DEFINE q1 == b \div Byte
           q2 == b \div Half
           q3 == b \div (Half * Byte)
<1>1. b \in Nat BY Sizes DEF Longs
<1>2. q1 \in Nat /\ b % Byte \in Bytes /\ b = q1 * Byte + (b % Byte)
  BY <1>1, Sizes, DivMod DEF Bytes
<1>3. q2 = q1 \div Byte BY <1>1, Sizes, DivDiv DEF Half
<1>4. q2 \in Nat /\ q1 % Byte \in Bytes /\ q1 = q2 * Byte + (q1 % Byte)
  BY <1>2, <1>3, Sizes, DivMod DEF Bytes
<1>5. q3 = q2 \div Byte BY <1>1, Sizes, DivDiv
<1>6. q3 \in Nat /\ q2 % Byte \in Bytes /\ q2 = q3 * Byte + (q2 % Byte)
  BY <1>4, <1>5, Sizes, DivMod DEF Bytes
<1>7. q3 < Byte
  <2>1. SUFFICES ASSUME Byte <= q3 PROVE FALSE BY <1>6, Sizes
  <2>2. q3 * (Half * Byte) <= b BY <1>1, Sizes, DivTimes
  <2>3. Byte * (Half * Byte) <= q3 * (Half * Byte) BY <1>6, <2>1, Sizes, MulMono
  <2>4. q3 * (Half * Byte) \in Nat BY <1>6, Sizes, MulNat
  <2> QED BY <2>2, <2>3, <2>4, Sizes DEF Longs
<1> HIDE DEF q1, q2, q3
<1>8. b = (b % Byte) + Byte * (q1 % Byte) + Half * (q2 % Byte) + Half * Byte * q3
  <2>1. q1 * Byte = Byte * (q1 % Byte) + q2 * (Byte * Byte)
    BY <1>2, <1>4, Sizes DEF Bytes
  <2>2. q2 * Half = Half * (q2 % Byte) + Half * Byte * q3
    <3> DEFINE r == q2 % Byte
    <3>1. r \in Nat /\ q2 = q3 * Byte + r BY <1>6, Sizes DEF Bytes
    <3> HIDE DEF r
    <3>2. q2 * Half = (q3 * Byte) * Half + r * Half BY <1>6, <3>1, Sizes
    <3>3. (q3 * Byte) * Half = Half * Byte * q3 BY <1>6, Sizes
    <3>4. r * Half = Half * r BY <3>1, Sizes
    <3>5. Half * r \in Nat /\ Half * Byte * q3 \in Nat BY <1>6, <3>1, Sizes, MulNat
    <3> QED BY <3>2, <3>3, <3>4, <3>5 DEF r
  <2>3. q1 * Byte = Byte * (q1 % Byte) + q2 * Half BY <2>1 DEF Half
  <2>4. /\ Byte * (q1 % Byte) \in Nat /\ Half * (q2 % Byte) \in Nat
        /\ Half * Byte * q3 \in Nat
    BY <1>4, <1>6, Sizes, MulNat DEF Bytes
  <2>5. b % Byte \in Nat BY <1>2, Sizes DEF Bytes
  <2>6. b = q1 * Byte + (b % Byte) BY <1>2
  <2> QED BY <2>2, <2>3, <2>4, <2>5, <2>6
<1>9. q3 \in Bytes BY <1>6, <1>7, Sizes DEF Bytes
<1> QED BY <1>2, <1>4, <1>6, <1>8, <1>9 DEF q1, q2, q3

\* So do the two bytes and the half of a limit; the upper half of byte 6 stays.
LEMMA LimitParts ==
    ASSUME NEW l \in Limits, NEW x \in Bytes
    PROVE  LET f == (x - (x % Nibble)) + l \div Half
           IN  /\ l % Byte \in Bytes /\ (l \div Byte) % Byte \in Bytes /\ f \in Bytes
               /\ f % Nibble = l \div Half /\ f \div Nibble = x \div Nibble
               /\ l = (l % Byte) + Byte * ((l \div Byte) % Byte) + Half * (l \div Half)
<1> DEFINE q1 == l \div Byte
           q2 == l \div Half
           h  == x \div Nibble
<1>1. l \in Nat /\ x \in Nat BY Sizes DEF Limits, Bytes
<1>2. q1 \in Nat /\ l % Byte \in Bytes /\ l = q1 * Byte + (l % Byte)
  BY <1>1, Sizes, DivMod DEF Bytes
<1>3. q2 = q1 \div Byte BY <1>1, Sizes, DivDiv DEF Half
<1>4. q2 \in Nat /\ q1 % Byte \in Bytes /\ q1 = q2 * Byte + (q1 % Byte)
  BY <1>2, <1>3, Sizes, DivMod DEF Bytes
<1>5. q2 < Nibble
  <2>1. SUFFICES ASSUME Nibble <= q2 PROVE FALSE BY <1>4, Sizes
  <2>2. q2 * Half <= l BY <1>1, Sizes, DivTimes
  <2>3. Nibble * Half <= q2 * Half BY <1>4, <2>1, Sizes, MulMono
  <2>4. q2 * Half \in Nat BY <1>4, Sizes, MulNat
  <2> QED BY <2>2, <2>3, <2>4, Sizes DEF Limits
<1>6. h \in Nat /\ x = h * Nibble + (x % Nibble) /\ x % Nibble \in 0..(Nibble - 1)
  BY <1>1, Sizes, DivMod
<1>7. h < Nibble
  <2>1. SUFFICES ASSUME Nibble <= h PROVE FALSE BY <1>6, Sizes
  <2>2. Nibble * Nibble <= h * Nibble BY <1>6, <2>1, Sizes, MulMono
  <2>3. h * Nibble \in Nat /\ h * Nibble <= x BY <1>1, <1>6, Sizes, MulNat
  <2> QED BY <2>2, <2>3, Sizes DEF Bytes, Byte
<1> HIDE DEF q1, q2, h
<1>8. l = (l % Byte) + Byte * (q1 % Byte) + Half * q2
  <2>1. q1 * Byte = Byte * (q1 % Byte) + q2 * (Byte * Byte)
    BY <1>2, <1>4, Sizes DEF Bytes
  <2>2. Byte * (q1 % Byte) \in Nat /\ Half * q2 \in Nat /\ q2 * Half = Half * q2
    BY <1>4, Sizes, MulNat DEF Bytes
  <2> QED BY <1>2, <2>1, <2>2 DEF Half, Bytes
<1> DEFINE f == (x - (x % Nibble)) + q2
<1>9. f = h * Nibble + q2
  <2>1. h * Nibble \in Nat BY <1>6, Sizes, MulNat
  <2>2. x - (x % Nibble) = h * Nibble BY <1>1, <1>6, <2>1, Sizes
  <2> QED BY <2>2
<1>10. f % Nibble = q2 /\ f \div Nibble = h
  <2>1. q2 \in 0..(Nibble - 1) BY <1>4, <1>5, Sizes
  <2> HIDE DEF f
  <2> QED BY <1>6, <1>9, <2>1, Sizes, DivUnique
<1>11. f \in Bytes
  <2>1. (h + 1) * Nibble <= Nibble * Nibble BY <1>6, <1>7, Sizes, MulMono
  <2>2. (h + 1) * Nibble = h * Nibble + Nibble /\ h * Nibble \in Nat
    BY <1>6, Sizes, MulNext, MulNat
  <2> QED BY <1>4, <1>5, <1>9, <2>1, <2>2, Sizes DEF Bytes, Byte
<1> QED BY <1>2, <1>4, <1>8, <1>10, <1>11 DEF q1, q2, h

\* _get_base reads what _set_base has written; everything else is kept.
LEMMA SetBaseGetBase ==
    ASSUME NEW d \in DescriptorType, NEW b \in Longs
    PROVE  /\ _set_base(d, b) \in DescriptorType
           /\ _get_base(_set_base(d, b)) = b
           /\ get_limit(_set_base(d, b)) = get_limit(d)
           /\ Granular(_set_base(d, b)) = Granular(d)
           /\ _set_base(d, b).type = d.type
<1> DEFINE e == _set_base(d, b)
<1>1. e \in DescriptorType BY BaseParts DEF _set_base, DescriptorType
<1>2. _get_base(e) = b BY BaseParts DEF _get_base, Base, _set_base, DescriptorType
<1>3. e.lim0 = d.lim0 /\ e.lim1 = d.lim1 /\ e.lim2 = d.lim2 /\ e.type = d.type
  BY DEF _set_base, DescriptorType
<1>4. Limit(e) = Limit(d) /\ Granular(e) = Granular(d) BY <1>3 DEF Limit, Granular
<1>5. get_limit(e) = get_limit(d) BY <1>4 DEF get_limit
<1> QED BY <1>1, <1>2, <1>3, <1>4, <1>5

\* The CPU reads the limit that _set_limit has written; the flags in the same
\* byte are kept.
LEMMA SetLimitLimit ==
    ASSUME NEW d \in DescriptorType, NEW l \in Limits
    PROVE  /\ _set_limit(d, l) \in DescriptorType
           /\ Limit(_set_limit(d, l)) = l
           /\ Granular(_set_limit(d, l)) = Granular(d)
           /\ _get_base(_set_limit(d, l)) = _get_base(d)
           /\ _set_limit(d, l).type = d.type
<1> DEFINE e == _set_limit(d, l)
           f == (d.lim2 - (d.lim2 % Nibble)) + l \div Half
<1>1. /\ e.lim0 = l % Byte /\ e.lim1 = (l \div Byte) % Byte /\ e.lim2 = f
      /\ e.base0 = d.base0 /\ e.base1 = d.base1 /\ e.base2 = d.base2
      /\ e.base3 = d.base3 /\ e.type = d.type
  BY DEF _set_limit, DescriptorType
<1>2. /\ l % Byte \in Bytes /\ (l \div Byte) % Byte \in Bytes /\ f \in Bytes
      /\ f % Nibble = l \div Half /\ f \div Nibble = d.lim2 \div Nibble
      /\ l = (l % Byte) + Byte * ((l \div Byte) % Byte) + Half * (l \div Half)
  BY LimitParts DEF DescriptorType
<1>3. e \in DescriptorType BY <1>1, <1>2 DEF _set_limit, DescriptorType
<1>4. Limit(e) = l BY <1>1, <1>2 DEF Limit
<1>5. Granular(e) = Granular(d) BY <1>1, <1>2 DEF Granular
<1>6. _get_base(e) = _get_base(d) BY <1>1 DEF _get_base, Base
<1> QED BY <1>1, <1>3, <1>4, <1>5, <1>6

\* A size in whole pages: set_limit stores one page less, lsl and incl add it
\* again, and the ends of the longs meet.
LEMMA PagesBack ==
    ASSUME NEW l \in Longs
    PROVE  /\ ((l - 1) % Long) \div Page \in Limits
           /\ ((((l - 1) % Long) \div Page) * Page + (Page - 1) + 1) % Long = PAGE_ALIGN(l)
           /\ PAGE_ALIGN(l) \in Longs
<1> DEFINE k == (l - 1) % Long
           q == k \div Page
           m == (l + Page - 1) % Long
<1>1. k \in Longs BY Sizes DEF Longs
<1>2. m = (k + Page) % Long
  <2>1. CASE l = 0
    <3>1. k = Long - 1 BY <2>1, Sizes
    <3>2. k + Page = Page - 1 + Long BY <3>1, Sizes
    <3> QED BY <2>1, <3>2, Sizes
  <2>2. CASE l # 0
    <3>1. k = l - 1 BY <2>2, Sizes DEF Longs
    <3> QED BY <3>1, Sizes DEF Longs
  <2> QED BY <2>1, <2>2
<1> HIDE DEF k
<1>3. q \in Nat /\ k = q * Page + (k % Page) /\ k % Page \in 0..(Page - 1)
  <2>1. k \in Nat BY <1>1, Sizes DEF Longs
  <2> QED BY <2>1, Sizes, DivMod
<1>4. q + 1 <= Nibble * Half
  <2>1. SUFFICES ASSUME Nibble * Half <= q PROVE FALSE BY <1>3, Sizes
  <2>2. (Nibble * Half) * Page <= q * Page BY <1>3, <2>1, Sizes, MulMono
  <2>3. q * Page \in Nat BY <1>3, Sizes, MulNat
  <2>4. k \in Nat /\ q * Page <= k BY <1>1, Sizes, DivTimes DEF Longs
  <2> QED BY <1>1, <2>2, <2>3, <2>4, Sizes DEF Longs
<1> HIDE DEF q
<1> DEFINE n == (q + 1) * Page
<1>5. n = q * Page + Page /\ n \in Nat /\ q * Page \in Nat
  BY <1>3, Sizes, MulNext, MulNat
<1>6. n <= Long BY <1>3, <1>4, Sizes, MulMono
<1> HIDE DEF n
<1>7. n % Long = m - (m % Page)
  <2>1. m = (n + (k % Page)) % Long
    <3>1. k + Page = n + (k % Page) BY <1>1, <1>3, <1>5, Sizes DEF Longs
    <3> QED BY <1>2, <3>1
  <2>2. CASE n = Long
    <3>1. Page <= Long BY <1>5, <2>2, Sizes
    <3>2. m = k % Page BY <1>3, <2>1, <2>2, <3>1, Sizes
    <3>3. m % Page = m BY <1>3, <3>2, Sizes
    <3>4. n % Long = 0 BY <2>2, Sizes
    <3> QED BY <1>3, <3>2, <3>3, <3>4, Sizes
  <2>3. CASE n < Long
    <3>1. n + Page <= Long
      <4>1. q + 1 < Nibble * Half
        BY <1>3, <1>4, <1>5, <2>3, Sizes DEF n
      <4>2. (q + 2) * Page <= (Nibble * Half) * Page BY <1>3, <4>1, Sizes, MulMono
      <4>3. (q + 2) * Page = n + Page BY <1>3, Sizes, MulNext DEF n
      <4> QED BY <4>2, <4>3, Sizes
    <3>2. m = n + (k % Page) BY <1>3, <1>5, <2>1, <3>1, Sizes
    <3>3. m % Page = k % Page
      <4>1. m = (q + 1) * Page + (k % Page) BY <3>2 DEF n
      <4>2. q + 1 \in Nat BY <1>3
      <4> HIDE DEF m
      <4> QED BY <1>3, <4>1, <4>2, Sizes, DivUnique
    <3>4. n % Long = n BY <1>5, <2>3, Sizes
    <3> QED BY <1>3, <1>5, <3>2, <3>3, <3>4, Sizes
  <2> QED BY <1>5, <1>6, <2>2, <2>3, Sizes
<1>8. q * Page + (Page - 1) + 1 = n BY <1>5, Sizes
<1>9. n % Long \in Longs BY <1>5, Sizes DEF Longs
<1> QED BY <1>3, <1>4, <1>7, <1>8, <1>9, Sizes DEF k, q, m, PAGE_ALIGN, Limits

\* get_limit of a granular segment is what set_limit was given, in whole pages.
THEOREM SetLimitGetLimit ==
    ASSUME NEW d \in DescriptorType, NEW l \in Longs, Granular(d)
    PROVE  get_limit(set_limit(d, l)) = PAGE_ALIGN(l)
<1> DEFINE p == ((l - 1) % Long) \div Page
<1>1. p \in Limits BY PagesBack
<1>2. Limit(set_limit(d, l)) = p /\ Granular(set_limit(d, l))
  BY <1>1, SetLimitLimit DEF set_limit
<1> QED BY <1>2, PagesBack DEF get_limit

-----------------------------------------------------------------------------
(* The tables.                                                             *)

\* set_limit scales with pages, so the segments of a task must stay granular.
IInv == /\ TypeOK
        /\ SegmentsAsSet
        /\ \A e \in LdtEntries : Granular(table[e])

\* What a macro has to do to one entry, for the invariant to go on.
LEMMA EntryStep ==
    ASSUME IInv, NEW e \in Entries, NEW d \in DescriptorType, NEW seg,
           seg \in [base : Longs, size : Longs, type : Types],
           Decoded(d) = seg, e \in LdtEntries => Granular(d),
           table' = [table EXCEPT ![e] = d], meant' = [meant EXCEPT ![e] = seg]
    PROVE  IInv'
<1>1. TypeOK' BY DEF IInv, TypeOK, DescriptorType, Longs
<1>2. SegmentsAsSet' BY DEF IInv, TypeOK, SegmentsAsSet
<1>3. (\A f \in LdtEntries : Granular(table[f]))'
  BY DEF IInv, TypeOK, Entries
<1> QED BY <1>1, <1>2, <1>3 DEF IInv

\* A TSS or LDT descriptor is written whole: its size and its scale with it.
LEMMA SetDescStep ==
    ASSUME IInv, NEW selector, Gdt(selector) \in TaskEntries, NEW type \in {"tss", "ldt"},
           NEW a \in Addresses, SetDesc(selector, type, a)
    PROVE  IInv'
<1> DEFINE e == Gdt(selector)
           d == _set_tssldt_desc(table[e], a, type)
           s == Segment(a, 105, type)
<1>1. a \in Longs BY SizesAssumption DEF Longs
<1>2. e \in Entries /\ e \notin LdtEntries
  BY DEF Entries, TaskEntries, LdtEntries, Gdt, Ldt
<1>3. table[e] \in DescriptorType BY <1>2 DEF IInv, TypeOK, DescriptorType
<1> DEFINE b == _set_base(table[e], a)
<1>4. b \in DescriptorType /\ _get_base(b) = a BY <1>1, <1>3, SetBaseGetBase
<1>5. /\ 104 % Byte \in Bytes /\ 104 \div Byte \in Bytes
      /\ (104 % Byte) + Byte * (104 \div Byte) = 104
      /\ 105 % Long = 105 /\ 105 \in Longs
  <2>1. Long > 105 BY Sizes, SizesAssumption DEF Byte, Half, Long
  <2>2. CASE Nibble = 4 BY <2>1, <2>2, Sizes DEF Byte, Bytes, Longs
  <2>3. CASE Nibble = 16 BY <2>1, <2>3, Sizes DEF Byte, Bytes, Longs
  <2> QED BY <2>2, <2>3, SizesAssumption
<1> HIDE DEF b
<1>6. d = [b EXCEPT !.lim0 = 104 % Byte, !.lim1 = 104 \div Byte,
                    !.type = type, !.lim2 = 0]
  BY DEF b, _set_tssldt_desc
<1> HIDE DEF d
<1>7. 0 \in Bytes /\ type \in Types BY Sizes DEF Bytes, Types
<1>8. d \in DescriptorType BY <1>4, <1>5, <1>6, <1>7 DEF DescriptorType
<1>9. /\ d.lim0 = 104 % Byte /\ d.lim1 = 104 \div Byte /\ d.lim2 = 0 /\ d.type = type
      /\ d.base0 = b.base0 /\ d.base1 = b.base1 /\ d.base2 = b.base2 /\ d.base3 = b.base3
  BY <1>4, <1>6 DEF DescriptorType
<1>10. _get_base(d) = a BY <1>4, <1>9 DEF _get_base, Base
<1>11. Limit(d) = 104
  <2>1. d.lim2 % Nibble = 0 /\ Half * 0 = 0 BY <1>9, Sizes
  <2> QED BY <1>5, <1>9, <2>1 DEF Limit
<1>12. ~Granular(d)
  <2>1. d.lim2 \div Nibble = 0 /\ Nibble \div 2 > 0 BY <1>9, SizesAssumption
  <2> QED BY <2>1, SizesAssumption DEF Granular
<1>13. get_limit(d) = 105 BY <1>5, <1>11, <1>12 DEF get_limit
<1>14. Decoded(d) = s BY <1>9, <1>10, <1>13 DEF Decoded, Segment
<1>15. s \in [base : Longs, size : Longs, type : Types]
  BY <1>1, <1>5 DEF Segment, Types
<1> HIDE DEF s
<1>16. table' = [table EXCEPT ![e] = d] /\ meant' = [meant EXCEPT ![e] = s]
  BY DEF SetDesc, d, s
<1> QED BY <1>2, <1>8, <1>14, <1>15, <1>16, EntryStep

\* The macros on the segments of a task.
LEMMA SetSegmentStep ==
    ASSUME IInv, NEW e \in LdtEntries, NEW a \in Addresses,
           SetBase(e, a) \/ SetLimit(e, a)
    PROVE  IInv'
<1>1. a \in Longs BY SizesAssumption DEF Longs
<1>2. e \in Entries /\ Granular(table[e]) BY DEF Entries, IInv
<1>3. /\ table[e] \in DescriptorType /\ Decoded(table[e]) = meant[e]
      /\ meant[e] \in [base : Longs, size : Longs, type : Types]
      /\ meant \in [Entries -> [base : Longs, size : Longs, type : Types]]
  BY <1>2 DEF IInv, TypeOK, SegmentsAsSet, DescriptorType, Longs
<1>4. CASE SetBase(e, a)
  <2> DEFINE d == _set_base(table[e], a)
             s == [meant[e] EXCEPT !.base = a]
  <2>1. /\ d \in DescriptorType /\ Granular(d) /\ d.type = table[e].type
        /\ _get_base(d) = a /\ get_limit(d) = get_limit(table[e])
    BY <1>1, <1>2, <1>3, SetBaseGetBase
  <2> HIDE DEF d
  <2>4. Decoded(d) = s BY <1>3, <2>1 DEF Decoded, Segment
  <2>2. s \in [base : Longs, size : Longs, type : Types] BY <1>1, <1>3
  <2>3. table' = [table EXCEPT ![e] = d] /\ meant' = [meant EXCEPT ![e] = s]
    BY <1>2, <1>3, <1>4 DEF SetBase, d
  <2> QED BY <1>2, <2>1, <2>2, <2>3, <2>4, EntryStep
<1>5. CASE SetLimit(e, a)
  <2> DEFINE d == set_limit(table[e], a)
             s == [meant[e] EXCEPT !.size = PAGE_ALIGN(a)]
  <2>1. ((a - 1) % Long) \div Page \in Limits /\ PAGE_ALIGN(a) \in Longs
    BY <1>1, PagesBack
  <2>2. /\ d \in DescriptorType /\ Granular(d)
        /\ _get_base(d) = _get_base(table[e]) /\ d.type = table[e].type
    BY <1>2, <1>3, <2>1, SetLimitLimit DEF set_limit
  <2>3. get_limit(d) = PAGE_ALIGN(a) BY <1>1, <1>2, <1>3, SetLimitGetLimit
  <2>4. Decoded(d) = s BY <1>3, <2>2, <2>3 DEF Decoded, Segment
  <2>5. s \in [base : Longs, size : Longs, type : Types] BY <1>3, <2>1
  <2>6. table' = [table EXCEPT ![e] = d] /\ meant' = [meant EXCEPT ![e] = s]
    BY <1>2, <1>3, <1>5 DEF SetLimit
  <2> QED BY <1>2, <2>2, <2>4, <2>5, <2>6, EntryStep
<1> QED BY <1>4, <1>5

\* The tables of head.asm and INIT_TASK.
LEMMA InitialEntry ==
    ASSUME NEW limit \in Limits, NEW flags \in 0..(Nibble - 1), NEW type \in Types
    PROVE  LET d == Descriptor(limit, flags, type)
           IN  /\ d \in DescriptorType /\ Limit(d) = limit /\ _get_base(d) = 0
               /\ d.type = type /\ (Granular(d) <=> flags >= Nibble \div 2)
<1> DEFINE x == flags * Nibble
           d == Descriptor(limit, flags, type)
<1>1. /\ x \in Bytes /\ x % Nibble = 0 /\ x \div Nibble = flags
  <2>1. (flags + 1) * Nibble <= Nibble * Nibble BY Sizes, MulMono
  <2>2. (flags + 1) * Nibble = x + Nibble /\ x \in Nat BY Sizes, MulNext, MulNat
  <2>3. 0 \in 0..(Nibble - 1) /\ x + 0 = x BY <2>2, Sizes
  <2>4. x % Nibble = 0 /\ x \div Nibble = flags BY <2>3, Sizes, DivUnique
  <2> QED BY <2>1, <2>2, <2>4, Sizes DEF Byte, Bytes
<1>2. /\ limit % Byte \in Bytes /\ (limit \div Byte) % Byte \in Bytes
      /\ x + limit \div Half \in Bytes
      /\ (x + limit \div Half) % Nibble = limit \div Half
      /\ (x + limit \div Half) \div Nibble = flags
      /\ limit = (limit % Byte) + Byte * ((limit \div Byte) % Byte) + Half * (limit \div Half)
  <2>1. x - (x % Nibble) = x BY <1>1, Sizes DEF Bytes
  <2> HIDE DEF x
  <2> QED BY <1>1, <2>1, LimitParts
<1>3. 0 \in Bytes /\ Byte * 0 = 0 /\ Half * 0 = 0 /\ Half * Byte * 0 = 0
  BY Sizes DEF Bytes
<1>4. d \in DescriptorType BY <1>2, <1>3 DEF Descriptor, DescriptorType
<1>5. Limit(d) = limit BY <1>2 DEF Limit, Descriptor
<1>6. _get_base(d) = 0 BY <1>3 DEF _get_base, Base, Descriptor
<1>7. Granular(d) <=> flags >= Nibble \div 2 BY <1>2 DEF Granular, Descriptor
<1> QED BY <1>4, <1>5, <1>6, <1>7 DEF Descriptor

LEMMA InitHolds == Init => IInv
<1> SUFFICES ASSUME Init PROVE IInv OBVIOUS
<1> DEFINE Seg == [base : Longs, size : Longs, type : Types]
<1>1. /\ Flat \in Limits /\ 159 \in Limits /\ 0 \in Limits
      /\ FlagsGD \in 0..(Nibble - 1) /\ 0 \in 0..(Nibble - 1)
      /\ FlagsGD >= Nibble \div 2 /\ ~(0 >= Nibble \div 2)
      /\ Long > 256 /\ 160 * Page \in Longs
  <2>1. Nibble * Half >= 1024 /\ Long > 256
    BY SizesAssumption, Sizes DEF Byte, Half, Long
  <2>2. 161 * Page <= (Nibble * Half) * Page BY <2>1, Sizes, MulMono
  <2>3. 161 * Page = 160 * Page + Page BY Sizes
  <2> QED BY <2>1, <2>2, <2>3, Sizes, SizesAssumption DEF Flat, FlagsGD, Limits, Longs
<1>2. ASSUME NEW type \in Types
      PROVE  LET d == Descriptor(Flat, FlagsGD, type)
             IN  /\ d \in DescriptorType /\ Granular(d)
                 /\ Decoded(d) = Segment(0, 0, type) /\ Segment(0, 0, type) \in Seg
  <2> DEFINE d == Descriptor(Flat, FlagsGD, type)
  <2>1. /\ d \in DescriptorType /\ Limit(d) = Flat /\ _get_base(d) = 0
        /\ d.type = type /\ Granular(d)
    BY <1>1, InitialEntry
  <2>2. Flat * Page + (Page - 1) + 1 = Long
    <3>1. Flat \in Nat /\ Flat + 1 = Nibble * Half BY Sizes DEF Flat
    <3>2. (Flat + 1) * Page = Flat * Page + Page /\ Flat * Page \in Nat
      BY <3>1, Sizes, MulNext, MulNat
    <3> QED BY <3>1, <3>2, Sizes
  <2>3. Long % Long = 0 /\ 0 \in Longs BY Sizes DEF Longs
  <2> HIDE DEF d
  <2>4. get_limit(d) = 0 BY <2>1, <2>2, <2>3 DEF get_limit
  <2> QED BY <2>1, <2>3, <2>4 DEF Decoded, Segment, d
<1>3. ASSUME NEW type \in Types
      PROVE  LET d == Descriptor(159, FlagsGD, type)
             IN  /\ d \in DescriptorType /\ Granular(d)
                 /\ Decoded(d) = Segment(0, 160 * Page, type)
                 /\ Segment(0, 160 * Page, type) \in Seg
  <2> DEFINE d == Descriptor(159, FlagsGD, type)
  <2>1. /\ d \in DescriptorType /\ Limit(d) = 159 /\ _get_base(d) = 0
        /\ d.type = type /\ Granular(d)
    BY <1>1, InitialEntry
  <2>2. 159 * Page + (Page - 1) + 1 = 160 * Page BY Sizes
  <2>3. (160 * Page) % Long = 160 * Page /\ 0 \in Longs BY <1>1, Sizes DEF Longs
  <2> HIDE DEF d
  <2>4. get_limit(d) = 160 * Page BY <2>1, <2>2, <2>3 DEF get_limit
  <2> QED BY <1>1, <2>1, <2>3, <2>4 DEF Decoded, Segment, d
<1>4. LET d == Descriptor(0, 0, "none")
      IN  /\ d \in DescriptorType
          /\ Decoded(d) = Segment(0, 1, "none") /\ Segment(0, 1, "none") \in Seg
  <2> DEFINE d == Descriptor(0, 0, "none")
  <2>1. /\ d \in DescriptorType /\ Limit(d) = 0 /\ _get_base(d) = 0
        /\ d.type = "none" /\ ~Granular(d)
    BY <1>1, InitialEntry DEF Types
  <2>2. (0 + 1) % Long = 1 /\ 0 \in Longs /\ 1 \in Longs BY <1>1, Sizes DEF Longs
  <2> HIDE DEF d
  <2>3. get_limit(d) = 1 BY <2>1, <2>2 DEF get_limit
  <2> QED BY <2>1, <2>2, <2>3 DEF Decoded, Segment, d, Types
<1>5. "code" \in Types /\ "data" \in Types BY DEF Types
<1>6. ASSUME NEW e \in Entries
      PROVE  /\ table[e] \in DescriptorType /\ meant[e] \in Seg
             /\ Decoded(table[e]) = meant[e]
             /\ e \in LdtEntries => Granular(table[e])
  <2>a. /\ Gdt(8) # Gdt(16) /\ Gdt(8) # Ldt(1) /\ Gdt(8) # Ldt(2)
        /\ Gdt(16) # Ldt(1) /\ Gdt(16) # Ldt(2) /\ Ldt(1) # Ldt(2)
    BY DEF Gdt, Ldt
  <2>1. CASE e = Gdt(8)
    <3>1. table[e] = Descriptor(Flat, FlagsGD, "code") /\ meant[e] = Segment(0, 0, "code")
      BY <2>1, <2>a DEF Init
    <3> QED BY <1>2, <1>5, <3>1
  <2>2. CASE e = Gdt(16)
    <3>1. table[e] = Descriptor(Flat, FlagsGD, "data") /\ meant[e] = Segment(0, 0, "data")
      BY <2>2, <2>a DEF Init
    <3> QED BY <1>2, <1>5, <3>1
  <2>3. CASE e = Ldt(1)
    <3>1. /\ table[e] = Descriptor(159, FlagsGD, "code")
          /\ meant[e] = Segment(0, 160 * Page, "code")
      BY <2>3 DEF Init, Gdt, Ldt, InitLimit
    <3> QED BY <1>3, <1>5, <3>1
  <2>4. CASE e = Ldt(2)
    <3>1. /\ table[e] = Descriptor(159, FlagsGD, "data")
          /\ meant[e] = Segment(0, 160 * Page, "data")
      BY <2>4 DEF Init, Gdt, Ldt, InitLimit
    <3> QED BY <1>3, <1>5, <3>1
  <2>5. CASE e \notin KernelEntries \cup LdtEntries
    <3>1. table[e] = Descriptor(0, 0, "none") /\ meant[e] = Segment(0, 1, "none")
      BY <2>5 DEF Init, KernelEntries, LdtEntries
    <3> QED BY <1>4, <2>5, <3>1
  <2> QED BY <2>1, <2>2, <2>3, <2>4, <2>5 DEF KernelEntries, LdtEntries
<1>7. table = [e \in Entries |-> table[e]] /\ meant = [e \in Entries |-> meant[e]]
  BY DEF Init
<1>8. TypeOK BY <1>6, <1>7 DEF TypeOK, DescriptorType, Longs
<1>9. SegmentsAsSet BY <1>6 DEF SegmentsAsSet
<1> QED BY <1>6, <1>8, <1>9 DEF IInv, Entries

LEMMA Inductive == IInv /\ [Next]_vars => IInv'
<1> SUFFICES ASSUME IInv, [Next]_vars PROVE IInv' OBVIOUS
<1>1. CASE \E n \in Tasks, a \in Addresses : SetTss(n, a) \/ SetLdt(n, a)
  <2>1. PICK n \in Tasks, a \in Addresses : SetTss(n, a) \/ SetLdt(n, a) BY <1>1
  <2>2. Gdt(_TSS(n)) \in TaskEntries /\ Gdt(_LDT(n)) \in TaskEntries
    BY DEF TaskEntries
  <2>3. CASE SetTss(n, a) BY <2>2, <2>3, SetDescStep DEF SetTss
  <2>4. CASE SetLdt(n, a) BY <2>2, <2>4, SetDescStep DEF SetLdt
  <2> QED BY <2>1, <2>3, <2>4
<1>2. CASE \E e \in LdtEntries, a \in Addresses : SetBase(e, a) \/ SetLimit(e, a)
  BY <1>2, SetSegmentStep
<1>3. CASE UNCHANGED vars
  BY <1>3 DEF vars, IInv, TypeOK, SegmentsAsSet
<1> QED BY <1>1, <1>2, <1>3 DEF Next

LEMMA Invariant == Spec => []IInv
BY InitHolds, Inductive, PTL DEF Spec

\* Every byte that the macros write is one, for all addresses and sizes.
THEOREM TypeCorrect == Spec => []TypeOK
<1>1. IInv => TypeOK BY DEF IInv
<1> QED BY <1>1, Invariant, PTL

\* Whatever the macros are used for, and in whatever order, the CPU finds every
\* segment where it was put last and with the size that was asked for.
THEOREM SegmentsCorrect == Spec => []SegmentsAsSet
<1>1. IInv => SegmentsAsSet BY DEF IInv
<1> QED BY <1>1, Invariant, PTL
=============================================================================
