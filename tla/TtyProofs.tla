------------------------------ MODULE TtyProofs ------------------------------
(***************************************************************************)
(* Theorems about Tty.tla, for every size of the queues and of the screen, *)
(* every channel and every buffer.                                         *)
(***************************************************************************)
EXTENDS Tty, ConsoleProofs, SequenceTheorems

-----------------------------------------------------------------------------
(***************************************************************************)
(* The ring of tty.h is a queue: what PUTCH and GETCH do to its contents.  *)
(***************************************************************************)
LEMMA RingSize == TTY_BUF_SIZE \in Nat \ {0, 1}
  BY BufSizeIsPowerOfTwo

\* The number of characters, and FULL and EMPTY in terms of it.
LEMMA RingCount ==
    ASSUME NEW C, NEW q \in QueueOf(C)
    PROVE  /\ q.head \in Slots /\ q.tail \in Slots /\ q.buf \in [Slots -> C]
           /\ CHARS(q) \in Slots
           /\ CHARS(q) = IF q.tail <= q.head THEN q.head - q.tail
                         ELSE q.head - q.tail + TTY_BUF_SIZE
           /\ EMPTY(q) <=> CHARS(q) = 0
           /\ FULL(q) <=> CHARS(q) = TTY_BUF_SIZE - 1
  <1> DEFINE N == TTY_BUF_SIZE
             d == q.head - q.tail
             e == q.tail - q.head - 1
  <1>1. /\ q.head \in 0..(N - 1) /\ q.tail \in 0..(N - 1) /\ N \in Nat \ {0, 1}
        /\ q.buf \in [Slots -> C]
    BY RingSize DEF QueueOf, Slots
  <1>2. d \in Int /\ e \in Int
    BY <1>1
  <1>3. d % N = IF q.tail <= q.head THEN d ELSE d + N
    BY <1>1, <1>2, ModNear
  <1>4. e % N = IF q.tail <= q.head THEN e + N ELSE e
    BY <1>1, <1>2, ModNear
  <1>5. CHARS(q) = d % N /\ LEFT(q) = e % N
    BY DEF CHARS, LEFT
  <1>6. /\ CHARS(q) = IF q.tail <= q.head THEN d ELSE d + N
        /\ LEFT(q) = IF q.tail <= q.head THEN e + N ELSE e
    BY <1>3, <1>4, <1>5
  <1>7. CHARS(q) \in Slots
    BY <1>1, <1>6 DEF Slots
  <1>8. EMPTY(q) <=> CHARS(q) = 0
    BY <1>1, <1>6 DEF EMPTY
  <1>9. FULL(q) <=> CHARS(q) = N - 1
    BY <1>1, <1>6 DEF FULL
  <1> QED
    BY <1>1, <1>6, <1>7, <1>8, <1>9 DEF Slots

\* Advancing an index stays in the buffer.
LEMMA RingIndex ==
    ASSUME NEW i \in Slots
    PROVE  INC(i) \in Slots /\ INC(i) = IF i = TTY_BUF_SIZE - 1 THEN 0 ELSE i + 1
  <1>1. i \in 0..(TTY_BUF_SIZE - 1) /\ i + 1 \in Int
    BY RingSize DEF Slots
  <1>2. ASSUME i # TTY_BUF_SIZE - 1 PROVE (i + 1) % TTY_BUF_SIZE = i + 1
    <2>1. i + 1 \in 0..(TTY_BUF_SIZE - 1)
      BY <1>1, <1>2, RingSize
    <2> QED
      BY <1>1, <2>1, RingSize, ModNear
  <1>3. i = TTY_BUF_SIZE - 1 => (i + 1) % TTY_BUF_SIZE = 0
    BY <1>1, RingSize, ModNear
  <1> QED
    BY <1>1, <1>2, <1>3, RingSize DEF INC, Slots

\* The place of the i-th character.
LEMMA RingPlace ==
    ASSUME NEW C, NEW q \in QueueOf(C), NEW i \in 1..TTY_BUF_SIZE
    PROVE  /\ (q.tail + i - 1) % TTY_BUF_SIZE \in Slots
           /\ (q.tail + i - 1) % TTY_BUF_SIZE =
                 IF q.tail + i - 1 < TTY_BUF_SIZE THEN q.tail + i - 1
                 ELSE q.tail + i - 1 - TTY_BUF_SIZE
  <1> DEFINE N == TTY_BUF_SIZE
             x == q.tail + i - 1
  <1>1. q.tail \in 0..(N - 1) /\ N \in Nat \ {0, 1}
    BY RingSize DEF QueueOf, Slots
  <1>2. x \in Int /\ x \in 0..(2 * N - 1)
    BY <1>1
  <1>3. CASE x < N
    <2>1. x % N = x
      BY <1>1, <1>2, <1>3, ModNear
    <2> QED
      BY <1>1, <1>2, <1>3, <2>1 DEF Slots
  <1>4. CASE ~(x < N)
    <2>1. x % N = x - N
      BY <1>1, <1>2, <1>4, ModNear
    <2> QED
      BY <1>1, <1>2, <1>4, <2>1 DEF Slots
  <1> QED
    BY <1>3, <1>4

\* Contents is a sequence of CHARS characters.
LEMMA RingContents ==
    ASSUME NEW C, NEW q \in QueueOf(C)
    PROVE  /\ Contents(q) \in Seq(C)
           /\ Len(Contents(q)) = CHARS(q)
           /\ \A i \in 1..CHARS(q) :
                 Contents(q)[i] = q.buf[(q.tail + i - 1) % TTY_BUF_SIZE]
  <1>1. CHARS(q) \in Nat /\ CHARS(q) <= TTY_BUF_SIZE
    BY RingCount, RingSize DEF Slots
  <1>2. ASSUME NEW i \in 1..CHARS(q)
        PROVE  q.buf[(q.tail + i - 1) % TTY_BUF_SIZE] \in C
    <2>1. i \in 1..TTY_BUF_SIZE
      BY <1>1, RingSize
    <2> QED
      BY <2>1, RingPlace, RingCount
  <1> QED
    BY <1>1, <1>2 DEF Contents

\* PUTCH appends to the contents; on the last place, which FULL would have kept
\* free, it empties the queue instead.
LEMMA PutAppends ==
    ASSUME NEW C, NEW q \in QueueOf(C), NEW ch \in C
    PROVE  /\ PUTCH(ch, q) \in QueueOf(C)
           /\ CHARS(q) # TTY_BUF_SIZE - 1 =>
                 Contents(PUTCH(ch, q)) = Append(Contents(q), ch)
           /\ CHARS(q) = TTY_BUF_SIZE - 1 => Contents(PUTCH(ch, q)) = <<>>
  <1> DEFINE N == TTY_BUF_SIZE
             r == PUTCH(ch, q)
  <1>1. /\ q.head \in 0..(N - 1) /\ q.tail \in 0..(N - 1) /\ N \in Nat \ {0, 1}
        /\ q.buf \in [Slots -> C] /\ Slots = 0..(N - 1)
    BY RingSize DEF QueueOf, Slots
  <1>2. /\ r.head \in Slots /\ r.tail = q.tail /\ r.buf = [q.buf EXCEPT ![q.head] = ch]
        /\ r.head = IF q.head = N - 1 THEN 0 ELSE q.head + 1
    BY <1>1, RingIndex DEF PUTCH
  <1>3. r \in QueueOf(C)
    BY <1>1, <1>2 DEF PUTCH, QueueOf
  <1> HIDE DEF r
  <1>4. CHARS(r) = IF CHARS(q) = N - 1 THEN 0 ELSE CHARS(q) + 1
    <2>1. CHARS(q) = IF q.tail <= q.head THEN q.head - q.tail ELSE q.head - q.tail + N
      BY RingCount
    <2>2. CHARS(r) = IF q.tail <= r.head THEN r.head - q.tail ELSE r.head - q.tail + N
      BY <1>2, <1>3, RingCount
    <2> DEFINE h == q.head
               l == q.tail
               g == r.head
    <2>3. /\ h \in 0..(N - 1) /\ l \in 0..(N - 1) /\ N \in Nat \ {0, 1}
          /\ g = IF h = N - 1 THEN 0 ELSE h + 1
      BY <1>1, <1>2
    <2>4. /\ CHARS(q) = IF l <= h THEN h - l ELSE h - l + N
          /\ CHARS(r) = IF l <= g THEN g - l ELSE g - l + N
      BY <2>1, <2>2
    <2> HIDE DEF h, l, g
    <2> QED
      BY <2>3, <2>4
  <1>5. CASE CHARS(q) = N - 1
    <2>1. Len(Contents(r)) = 0 /\ Contents(r) \in Seq(C)
      BY <1>3, <1>4, <1>5, RingContents
    <2> QED
      BY <1>3, <1>5, <2>1, EmptySeq DEF r
  <1>6. CASE CHARS(q) # N - 1
    <2> DEFINE n == CHARS(q)
    <2>1. n \in 0..(N - 2) /\ CHARS(r) = n + 1
      BY <1>1, <1>4, <1>6, RingCount
    <2> HIDE DEF n
    <2>2. /\ Contents(q) \in Seq(C) /\ Len(Contents(q)) = n
          /\ Contents(r) \in Seq(C) /\ Len(Contents(r)) = n + 1
      BY <1>3, <2>1, RingContents DEF n
    <2>3. ASSUME NEW i \in 1..(n + 1)
          PROVE  Contents(r)[i] = Append(Contents(q), ch)[i]
      <3> DEFINE p == (q.tail + i - 1) % N
      <3>1. i \in 1..N
        BY <1>1, <2>1
      <3>2. p \in Slots /\ p = IF q.tail + i - 1 < N THEN q.tail + i - 1
                                ELSE q.tail + i - 1 - N
        BY <3>1, RingPlace
      <3>3. Contents(r)[i] = r.buf[p]
        <4>1. i \in 1..CHARS(r)
          BY <2>1
        <4>2. Contents(r)[i] = r.buf[(r.tail + i - 1) % N]
          BY <1>3, <4>1, RingContents
        <4> QED
          BY <1>2, <4>2
      <3>4. n = IF q.tail <= q.head THEN q.head - q.tail ELSE q.head - q.tail + N
        BY RingCount DEF n
      <3> HIDE DEF p
      <3> DEFINE t == q.tail
                 h == q.head
      <3>5. /\ t \in 0..(N - 1) /\ h \in 0..(N - 1) /\ N \in Nat \ {0, 1} /\ i \in Int
            /\ p = IF t + i - 1 < N THEN t + i - 1 ELSE t + i - 1 - N
            /\ n = IF t <= h THEN h - t ELSE h - t + N
        BY <1>1, <2>1, <3>2, <3>4
      <3> HIDE DEF t, h
      <3>6. CASE i = n + 1
        <4>1. p = h
          BY <2>1, <3>6, <3>5
        <4>2. r.buf[p] = ch
          BY <1>1, <1>2, <4>1 DEF h
        <4> QED
          BY <2>2, <3>3, <3>6, <4>2, AppendProperties
      <3>7. CASE i # n + 1
        <4>1. p # h /\ i \in 1..n
          BY <2>1, <3>7, <3>5
        <4>2. r.buf[p] = q.buf[p]
          BY <1>1, <1>2, <3>2, <4>1 DEF h
        <4>3. Contents(q)[i] = q.buf[p]
          BY <4>1, RingContents DEF n, p
        <4> QED
          BY <2>2, <3>3, <4>1, <4>2, <4>3, AppendProperties
      <3> QED
        BY <3>6, <3>7
    <2>4. Append(Contents(q), ch) \in Seq(C) /\ Len(Append(Contents(q), ch)) = n + 1
      BY <2>2, AppendProperties
    <2>5. Contents(r) = Append(Contents(q), ch)
      BY <2>2, <2>3, <2>4, SeqEqual
    <2> QED
      BY <1>3, <1>6, <2>5 DEF r
  <1> QED
    BY <1>5, <1>6

\* GETCH takes the oldest character.
LEMMA GetTakes ==
    ASSUME NEW C, NEW q \in QueueOf(C), CHARS(q) > 0
    PROVE  /\ GETCH(q) \in QueueOf(C)
           /\ CHARS(GETCH(q)) = CHARS(q) - 1
           /\ Contents(q) # <<>>
           /\ NextChar(q) = Head(Contents(q))
           /\ Contents(GETCH(q)) = Tail(Contents(q))
  <1> DEFINE N == TTY_BUF_SIZE
             n == CHARS(q)
             r == GETCH(q)
  <1>1. /\ q.head \in 0..(N - 1) /\ q.tail \in 0..(N - 1) /\ N \in Nat \ {0, 1}
        /\ q.buf \in [Slots -> C] /\ Slots = 0..(N - 1)
    BY RingSize DEF QueueOf, Slots
  <1>2. /\ r.head = q.head /\ r.tail \in Slots /\ r.buf = q.buf
        /\ r.tail = IF q.tail = N - 1 THEN 0 ELSE q.tail + 1
    BY <1>1, RingIndex DEF GETCH, QueueOf
  <1>3. r \in QueueOf(C)
    BY <1>1, <1>2 DEF GETCH, QueueOf
  <1> HIDE DEF r
  <1>4. /\ n \in 1..(N - 1) /\ CHARS(r) = n - 1
        /\ n = IF q.tail <= q.head THEN q.head - q.tail ELSE q.head - q.tail + N
    <2>1. /\ n = IF q.tail <= q.head THEN q.head - q.tail ELSE q.head - q.tail + N
          /\ n \in Slots
      BY RingCount
    <2>2. CHARS(r) = IF r.tail <= q.head THEN q.head - r.tail ELSE q.head - r.tail + N
      BY <1>2, <1>3, RingCount
    <2> DEFINE h == q.head
               l == q.tail
               g == r.tail
    <2>3. /\ h \in 0..(N - 1) /\ l \in 0..(N - 1) /\ N \in Nat \ {0, 1}
          /\ g = IF l = N - 1 THEN 0 ELSE l + 1
      BY <1>1, <1>2
    <2>4. /\ n = IF l <= h THEN h - l ELSE h - l + N
          /\ CHARS(r) = IF g <= h THEN h - g ELSE h - g + N
          /\ n > 0
      BY <2>1, <2>2
    <2> HIDE DEF h, l, g, n
    <2>5. n \in 1..(N - 1) /\ CHARS(r) = n - 1
      BY <2>3, <2>4
    <2> QED
      BY <2>1, <2>5
  <1>5. /\ Contents(q) \in Seq(C) /\ Len(Contents(q)) = n
        /\ Contents(r) \in Seq(C) /\ Len(Contents(r)) = n - 1
    BY <1>3, <1>4, RingContents
  <1>6. Contents(q) # <<>>
    BY <1>4, <1>5
  <1>7. NextChar(q) = Head(Contents(q))
    <2>1. 1 \in 1..N /\ 1 \in 1..n
      BY <1>1, <1>4
    <2>2. (q.tail + 1 - 1) % N = q.tail
      <3>1. (q.tail + 1 - 1) % N =
              IF q.tail + 1 - 1 < N THEN q.tail + 1 - 1 ELSE q.tail + 1 - 1 - N
        BY <2>1, RingPlace
      <3> QED
        BY <1>1, <3>1
    <2>3. Contents(q)[1] = q.buf[q.tail]
      BY <2>1, <2>2, RingContents
    <2> QED
      BY <1>5, <1>6, <2>3 DEF NextChar
  <1>8. /\ Tail(Contents(q)) \in Seq(C) /\ Len(Tail(Contents(q))) = n - 1
        /\ \A i \in 1..(n - 1) : Tail(Contents(q))[i] = Contents(q)[i + 1]
    BY <1>5, <1>6, HeadTailProperties
  <1>9. ASSUME NEW i \in 1..(n - 1)
        PROVE  Contents(r)[i] = Tail(Contents(q))[i]
    <2> DEFINE p == (q.tail + (i + 1) - 1) % N
               s == (r.tail + i - 1) % N
    <2> HIDE DEF n
    <2>1. i \in 1..N /\ i + 1 \in 1..N /\ i + 1 \in 1..n
      BY <1>1, <1>4
    <2>2. p = IF q.tail + (i + 1) - 1 < N THEN q.tail + (i + 1) - 1
              ELSE q.tail + (i + 1) - 1 - N
      BY <2>1, RingPlace
    <2>3. s = IF r.tail + i - 1 < N THEN r.tail + i - 1 ELSE r.tail + i - 1 - N
      BY <1>3, <2>1, RingPlace
    <2>4. Contents(q)[i + 1] = q.buf[p]
      BY <2>1, RingContents DEF n
    <2>5. Contents(r)[i] = q.buf[s]
      BY <1>2, <1>3, <1>4, RingContents
    <2> HIDE DEF p, s
    <2>6. p = s
      <3> DEFINE t == q.tail
                 u == r.tail
      <3>1. /\ t \in 0..(N - 1) /\ u = (IF t = N - 1 THEN 0 ELSE t + 1)
            /\ N \in Nat \ {0, 1} /\ i \in 1..(N - 1)
        BY <1>1, <1>2, <2>1
      <3> HIDE DEF t, u
      <3>2. p = IF t + (i + 1) - 1 < N THEN t + (i + 1) - 1 ELSE t + (i + 1) - 1 - N
        BY <2>2 DEF t
      <3>3. s = IF u + i - 1 < N THEN u + i - 1 ELSE u + i - 1 - N
        BY <2>3 DEF u
      <3> QED
        BY <3>1, <3>2, <3>3
    <2> QED
      BY <1>8, <2>4, <2>5, <2>6
  <1>10. Contents(r) = Tail(Contents(q))
    BY <1>5, <1>8, <1>9, SeqEqual
  <1> QED
    BY <1>3, <1>4, <1>6, <1>7, <1>10 DEF r

-----------------------------------------------------------------------------
(***************************************************************************)
(* The histories: what the queue keeps, and the expansion of a buffer.     *)
(***************************************************************************)
\* Kept follows the ring: one more character, or none at all.
LEMMA KeptNext ==
    ASSUME NEW C, NEW s \in Seq(C), NEW ch \in C
    PROVE  /\ Kept(s) \in Seq(C)
           /\ Len(Kept(s)) = Len(s) % TTY_BUF_SIZE
           /\ Len(s) % TTY_BUF_SIZE # TTY_BUF_SIZE - 1 =>
                 Kept(Append(s, ch)) = Append(Kept(s), ch)
           /\ Len(s) % TTY_BUF_SIZE = TTY_BUF_SIZE - 1 => Kept(Append(s, ch)) = <<>>
  <1> DEFINE N == TTY_BUF_SIZE
             t == Append(s, ch)
             n == Len(s)
             r == n % N
             u == (n + 1) % N
  <1>1. n \in Nat /\ t \in Seq(C) /\ Len(t) = n + 1 /\ N \in Nat \ {0}
        /\ t[n + 1] = ch /\ \A i \in 1..n : t[i] = s[i] /\ s[i] \in C
    BY RingSize, AppendProperties, ElementOfSeq
  <1>2. r \in 0..(N - 1) /\ r <= n
    <2>1. r \in 0..(N - 1) /\ n \div N \in Nat /\ n = (n \div N) * N + r
      BY <1>1, DivMod
    <2>2. (n \div N) * N \in Nat
      BY <1>1, <2>1, MulNat
    <2> HIDE DEF n, r
    <2> QED
      BY <1>1, <2>1, <2>2
  <1>3. u = IF r = N - 1 THEN 0 ELSE r + 1
    BY <1>1, ModNext
  <1>4. Kept(s) = SubSeq(s, n - r + 1, n) /\ Kept(t) = SubSeq(t, n + 1 - u + 1, n + 1)
    <2> HIDE DEF t
    <2>1. Kept(t) = SubSeq(t, Len(t) - (Len(t) % N) + 1, Len(t))
      BY DEF Kept
    <2>2. Len(t) = n + 1
      BY <1>1
    <2>3. Kept(t) = SubSeq(t, n + 1 - u + 1, n + 1)
      <3>1. u = Len(t) % N /\ u \in Int /\ n \in Int
        BY <1>1, <1>2, <1>3, <2>2
      <3> HIDE DEF u, n
      <3>2. Len(t) - (Len(t) % N) + 1 = n + 1 - u + 1
        BY <2>2, <3>1
      <3> QED
        BY <2>1, <2>2, <3>2, Zenon
    <2>4. Kept(s) = SubSeq(s, n - r + 1, n)
      BY DEF Kept
    <2> QED
      BY <2>3, <2>4, Zenon
  <1> HIDE DEF n, r, u, t
  <1>5. /\ Kept(s) \in Seq(C) /\ Len(Kept(s)) = r
        /\ \A i \in 1..r : Kept(s)[i] = s[n - r + i]
    <2>1. n - r + 1 \in Int /\ n \in Int /\ \A i \in (n - r + 1)..n : s[i] \in C
      BY <1>1, <1>2
    <2>2. /\ Kept(s) \in Seq(C)
          /\ Len(Kept(s)) = IF n - r + 1 <= n THEN n - (n - r + 1) + 1 ELSE 0
          /\ \A i \in 1..(n - (n - r + 1) + 1) : Kept(s)[i] = s[(n - r + 1) + i - 1]
      BY <1>4, <2>1, SubSeqProperties
    <2>3. n - (n - r + 1) + 1 = r
      BY <1>1, <1>2
    <2>4. \A i \in 1..r : (n - r + 1) + i - 1 = n - r + i
      BY <1>1, <1>2
    <2> QED
      BY <1>1, <1>2, <2>2, <2>3, <2>4
  <1>6. CASE r = N - 1
    <2>1. Kept(t) = SubSeq(t, n + 2, n + 1) /\ n + 2 \in Int /\ n + 1 \in Int
      BY <1>1, <1>3, <1>4, <1>6
    <2>2. Kept(t) = <<>>
      BY <1>1, <2>1, SubSeqEmpty
    <2> QED
      BY <1>5, <1>6, <2>2 DEF n, r, t
  <1>7. CASE r # N - 1
    <2>1. Kept(t) = SubSeq(t, n - r + 1, n + 1)
      BY <1>1, <1>2, <1>3, <1>4, <1>7
    <2>2. n - r + 1 \in Int /\ n + 1 \in Int /\ \A i \in (n - r + 1)..(n + 1) : t[i] \in C
      BY <1>1, <1>2
    <2>3. /\ Kept(t) \in Seq(C) /\ Len(Kept(t)) = r + 1
          /\ \A i \in 1..(r + 1) : Kept(t)[i] = t[n - r + i]
      <3> DEFINE a == n - r + 1
                 b == n + 1
      <3>1. a \in Int /\ b \in Int /\ \A i \in a..b : t[i] \in C
        BY <2>2
      <3>2. a <= b /\ b - a + 1 = r + 1 /\ \A i \in 1..(r + 1) : a + i - 1 = n - r + i
        BY <1>1, <1>2
      <3>3. Kept(t) = SubSeq(t, a, b)
        BY <2>1
      <3> HIDE DEF a, b
      <3>4. /\ SubSeq(t, a, b) \in Seq(C)
            /\ Len(SubSeq(t, a, b)) = IF a <= b THEN b - a + 1 ELSE 0
            /\ \A i \in 1..(b - a + 1) : SubSeq(t, a, b)[i] = t[a + i - 1]
        BY <3>1, SubSeqProperties
      <3> QED
        BY <3>2, <3>3, <3>4
    <2>4. /\ Append(Kept(s), ch) \in Seq(C) /\ Len(Append(Kept(s), ch)) = r + 1
          /\ Append(Kept(s), ch)[r + 1] = ch
          /\ \A i \in 1..r : Append(Kept(s), ch)[i] = Kept(s)[i]
      BY <1>5, AppendProperties
    <2>5. ASSUME NEW i \in 1..(r + 1) PROVE Kept(t)[i] = Append(Kept(s), ch)[i]
      <3>1. CASE i = r + 1
        BY <1>1, <1>2, <2>3, <2>4, <3>1
      <3>2. CASE i # r + 1
        <4>1. i \in 1..r /\ n - r + i \in 1..n
          BY <1>1, <1>2, <3>2
        <4>2. Append(Kept(s), ch)[i] = s[n - r + i]
          BY <1>5, <2>4, <4>1
        <4>3. Kept(t)[i] = s[n - r + i]
          BY <1>1, <2>3, <4>1
        <4> QED
          BY <4>2, <4>3
      <3> QED
        BY <3>1, <3>2
    <2>6. Kept(t) = Append(Kept(s), ch)
      BY <2>3, <2>4, <2>5, SeqEqual
    <2> QED
      BY <1>5, <1>7, <2>6 DEF n, r, t
  <1> QED
    BY <1>6, <1>7

\* The expansion of one character more.
LEMMA ExpandNext ==
    ASSUME NEW s \in Seq(Codes), NEW ch \in Codes
    PROVE  /\ Put(ch) \in Seq(Codes) /\ Put(ch) # <<>>
           /\ Expand(s) \in Seq(Codes)
           /\ Expand(Append(s, ch)) = Expand(s) \o Put(ch)
  <1> DEFINE t == Append(s, ch)
             ss == [i \in DOMAIN s |-> Put(s[i])]
             tt == [i \in DOMAIN t |-> Put(t[i])]
             n == Len(s)
  <1>1. \A x \in Codes : Put(x) \in Seq(Codes) /\ Put(x) # <<>>
    BY CallInputs DEF Put
  <1>2. /\ n \in Nat /\ t \in Seq(Codes) /\ Len(t) = n + 1
        /\ DOMAIN s = 1..n /\ DOMAIN t = 1..(n + 1)
        /\ t[n + 1] = ch /\ \A i \in 1..n : t[i] = s[i] /\ s[i] \in Codes
    BY AppendProperties, ElementOfSeq, LenProperties
  <1>3. /\ ss \in Seq(Seq(Codes)) /\ Len(ss) = n
        /\ tt \in Seq(Seq(Codes)) /\ Len(tt) = n + 1
    BY <1>1, <1>2
  <1>4. tt = Append(ss, Put(ch))
    <2>1. /\ Append(ss, Put(ch)) \in Seq(Seq(Codes)) /\ Len(Append(ss, Put(ch))) = n + 1
          /\ Append(ss, Put(ch))[n + 1] = Put(ch)
          /\ \A i \in 1..n : Append(ss, Put(ch))[i] = ss[i]
      BY <1>1, <1>3, AppendProperties
    <2>2. ASSUME NEW i \in 1..(n + 1) PROVE tt[i] = Append(ss, Put(ch))[i]
      <3>1. CASE i = n + 1
        BY <1>2, <2>1, <3>1
      <3>2. CASE i # n + 1
        <4>1. i \in 1..n
          BY <1>2, <3>2
        <4> QED
          BY <1>2, <2>1, <4>1
      <3> QED
        BY <3>1, <3>2
    <2> QED
      BY <1>3, <2>1, <2>2, SeqEqual
  <1>5. Expand(s) = FlattenSeq(ss) /\ Expand(t) = FlattenSeq(tt)
    BY DEF Expand
  <1> HIDE DEF ss, tt
  <1> QED
    BY <1>1, <1>3, <1>4, <1>5, FlattenAppend

\* A character that tty_write accepts goes to the end of what the queue keeps.
LEMMA FillKeeps ==
    ASSUME NEW q \in QueueOf(QueueCodes), NEW s \in Seq(Codes), NEW ch \in Codes,
           ~FULL(q), Contents(q) = Kept(s)
    PROVE  /\ PutAll(q, ch) \in QueueOf(QueueCodes)
           /\ Contents(PutAll(q, ch)) = Kept(s \o Put(ch))
  <1> DEFINE N == TTY_BUF_SIZE
  <1>1. Codes \subseteq QueueCodes /\ "CR" \in Codes
    BY CallInputs DEF QueueCodes
  <1>2. ASSUME NEW p \in QueueOf(QueueCodes), NEW t \in Seq(Codes), NEW x \in Codes,
               Contents(p) = Kept(t)
        PROVE  /\ PUTCH(x, p) \in QueueOf(QueueCodes) /\ Append(t, x) \in Seq(Codes)
               /\ Contents(PUTCH(x, p)) = Kept(Append(t, x))
    <2>1. CHARS(p) = Len(t) % N
      BY <1>2, KeptNext, RingContents
    <2>2. x \in QueueCodes
      BY <1>1
    <2>3. /\ PUTCH(x, p) \in QueueOf(QueueCodes)
          /\ CHARS(p) # N - 1 => Contents(PUTCH(x, p)) = Append(Contents(p), x)
          /\ CHARS(p) = N - 1 => Contents(PUTCH(x, p)) = <<>>
      BY <2>2, PutAppends
    <2>4. /\ Len(t) % N # N - 1 => Kept(Append(t, x)) = Append(Kept(t), x)
          /\ Len(t) % N = N - 1 => Kept(Append(t, x)) = <<>>
      BY KeptNext
    <2>5. Append(t, x) \in Seq(Codes)
      OBVIOUS
    <2> QED
      BY <1>2, <2>1, <2>3, <2>4, <2>5, Zenon
  <1>3. CASE ch = "LF"
    <2> DEFINE p == PUTCH("CR", q)
               t == Append(s, "CR")
    <2>1. p \in QueueOf(QueueCodes) /\ t \in Seq(Codes) /\ Contents(p) = Kept(t)
      BY <1>1, <1>2
    <2>2. PutAll(q, ch) = PUTCH(ch, p)
      BY <1>3 DEF PutAll
    <2>3. s \o Put(ch) = Append(t, ch)
      <3>1. Put(ch) = <<"CR", ch>>
        BY <1>3 DEF Put
      <3> QED
        BY <1>1, <3>1
    <2> HIDE DEF p, t
    <2> QED
      BY <1>2, <2>1, <2>2, <2>3
  <1>4. CASE ch # "LF"
    <2>1. PutAll(q, ch) = PUTCH(ch, q)
      BY <1>4 DEF PutAll
    <2>2. s \o Put(ch) = Append(s, ch)
      BY <1>4 DEF Put
    <2> QED
      BY <1>2, <2>1, <2>2
  <1> QED
    BY <1>3, <1>4

\* Nothing in the queue, nothing kept, nothing owed.
LEMMA NothingYet ==
    /\ \A q \in QueueOf(QueueCodes) : EMPTY(q) <=> Contents(q) = <<>>
    /\ Kept(<<>>) = <<>>
    /\ \A s : Expand(SubSeq(s, 1, 0)) = <<>>
  <1>1. ASSUME NEW q \in QueueOf(QueueCodes) PROVE EMPTY(q) <=> Contents(q) = <<>>
    <2>1. Contents(q) \in Seq(QueueCodes) /\ Len(Contents(q)) = CHARS(q)
      BY RingContents
    <2>2. EMPTY(q) <=> CHARS(q) = 0
      BY RingCount
    <2> QED
      BY <2>1, <2>2, EmptySeq
  <1>2. Kept(<<>>) = <<>>
    <2>1. Len(<<>>) = 0 /\ 0 % TTY_BUF_SIZE = 0
      BY RingSize
    <2>2. Kept(<<>>) = SubSeq(<<>>, 0 - 0 + 1, 0)
      BY <2>1 DEF Kept
    <2> QED
      BY <2>2, SubSeqEmpty
  <1>3. ASSUME NEW s PROVE Expand(SubSeq(s, 1, 0)) = <<>>
    <2>1. SubSeq(s, 1, 0) = <<>>
      BY SubSeqEmpty
    <2>2. Expand(<<>>) = FlattenSeq(<<>>)
      BY DEF Expand
    <2>3. FlattenSeq(<<>>) = <<>>
      BY DEF FlattenSeq
    <2> QED
      BY <2>1, <2>2, <2>3
  <1> QED
    BY <1>1, <1>2, <1>3

-----------------------------------------------------------------------------
(***************************************************************************)
(* The invariant.                                                          *)
(*                                                                         *)
(* FifoOrder speaks of the queue of the call in progress; that the queue   *)
(* is empty when the next call starts takes the count of con_write, and    *)
(* what the call reports takes the reason for which its loop was left.     *)
(***************************************************************************)
\* The driver is called when the terminal layer says so, and for its console.
DriverInStep ==
    busy = CASE pc \in {"idle", "tty_write"} -> Idle
             [] pc = "con_write"             -> [op |-> "write", con |-> call.con]
             [] pc = "console_print"         -> [op |-> "print", con |-> fg_console]

\* Only the queue of the call in progress holds anything.
OthersEmpty ==
    \A c \in Consoles :
        (pc \in {"tty_write", "con_write"} => c # call.con) => EMPTY(write_q[c])

\* Between its start and its end a call of tty_write has accepted the expansion
\* of the first b characters, and shows nothing before the loop is left.
Accepted ==
    /\ pc \in {"tty_write", "con_write"} =>
          /\ accepted = Expand(SubSeq(call.buf, 1, call.b))
          /\ call.b = 0 => accepted = <<>>
    /\ pc = "tty_write" => shown = <<>>
    /\ pc = "console_print" => accepted = <<>>

\* The count of con_write is the number of characters in the queue, and the loop
\* of tty_write was left with characters of the buffer only on a full queue.
Counted ==
    pc = "con_write" =>
        /\ call.chars = CHARS(write_q[call.con])
        /\ nr > 0 => call.b > 0 /\ Len(accepted) % TTY_BUF_SIZE = TTY_BUF_SIZE - 1

CallInv ==
    /\ TtyTypeOK
    /\ accepted \in Seq(Codes)
    /\ call.b <= Len(call.buf)
    /\ DriverInStep
    /\ OthersEmpty
    /\ Accepted
    /\ Counted
    /\ FifoOrder
    /\ WriteReport

TtyIInv == ConIInv /\ CallInv

LEMMA TtyInitGood == TtyInit => TtyIInv
  <1> SUFFICES ASSUME TtyInit PROVE TtyIInv
    OBVIOUS
  <1>1. ConIInv
    BY InitGood DEF TtyInit
  <1>2. EmptyQueue("NUL") \in QueueOf(QueueCodes) /\ EMPTY(EmptyQueue("NUL"))
    BY RingSize DEF EmptyQueue, QueueOf, QueueCodes, Slots, EMPTY
  <1>3. TtyTypeOK /\ call.b <= Len(call.buf)
    <2>1. NoCall \in CallRecord
      BY Layout, RingSize DEF NoCall, CallRecord
    <2> QED
      BY <1>2, <2>1 DEF TtyInit, TtyTypeOK, NoCall
  <1>4. OthersEmpty
    BY <1>2 DEF TtyInit, OthersEmpty
  <1>5. DriverInStep
    BY DEF TtyInit, ConInit, DriverInStep
  <1>6. Accepted /\ Counted /\ FifoOrder /\ WriteReport
    BY DEF TtyInit, Accepted, Counted, FifoOrder, WriteReport
  <1>7. accepted \in Seq(Codes)
    BY DEF TtyInit
  <1> QED
    BY <1>1, <1>3, <1>4, <1>5, <1>6, <1>7 DEF TtyIInv, CallInv

\* tty_write is entered.
LEMMA TtyWriteGood ==
    ASSUME CallInv, NEW channel \in Channels, NEW buf \in UserBuffers,
           TtyWrite(channel, buf)
    PROVE  CallInv' /\ UNCHANGED conVars
  <1> DEFINE c == channel - 1
  <1>1. /\ buf \in Seq(Codes) /\ pc = "idle" /\ busy = Idle
        /\ accepted' = <<>> /\ shown' = <<>> /\ UNCHANGED <<conVars, write_q>>
        /\ \A d \in Consoles : EMPTY(write_q[d])
    BY CallInputs DEF TtyWrite, CallInv, DriverInStep, OthersEmpty
  <1>2. write_q \in [Consoles -> QueueOf(QueueCodes)]
    BY DEF CallInv, TtyTypeOK
  <1>3. busy' = Idle /\ \A d \in Consoles : EMPTY(write_q'[d])
    BY <1>1 DEF conVars
  <1>4. /\ fg_console \in Consoles /\ 0 \in 0..TTY_BUF_SIZE /\ <<>> \in Seq(Codes)
        /\ <<>> \in Seq(QueueCodes)
    BY Layout, RingSize
  <1>5. CASE UNCHANGED pc /\ call' = [NoCall EXCEPT !.buf = buf, !.ret = -EIO]
    <2>1. call' \in CallRecord /\ call'.b = 0 /\ call'.buf = buf
      <3>1. call' = [con |-> fg_console, buf |-> buf, b |-> 0, chars |-> 0, ret |-> -5]
        BY <1>5 DEF NoCall, EIO
      <3>2. -5 \in Int /\ 0 \in Nat
        OBVIOUS
      <3> QED
        BY <1>1, <1>4, <3>1, <3>2 DEF CallRecord
    <2>2. TtyTypeOK' /\ accepted' \in Seq(Codes) /\ call'.b <= Len(call'.buf)
      BY <1>1, <1>2, <1>4, <1>5, <2>1 DEF TtyTypeOK
    <2>3. DriverInStep' /\ OthersEmpty' /\ Accepted' /\ Counted' /\ FifoOrder' /\ WriteReport'
      BY <1>1, <1>3, <1>5
      DEF DriverInStep, OthersEmpty, Accepted, Counted, FifoOrder, WriteReport
    <2> QED
      BY <1>1, <2>2, <2>3 DEF CallInv
  <1>6. CASE /\ c \in Consoles /\ pc' = "tty_write"
             /\ call' = [NoCall EXCEPT !.con = c, !.buf = buf]
    <2>1. call' \in CallRecord /\ call'.con = c /\ call'.b = 0 /\ call'.buf = buf
      <3>1. call' = [con |-> c, buf |-> buf, b |-> 0, chars |-> 0, ret |-> 0]
        BY <1>6 DEF NoCall
      <3>2. 0 \in Int /\ 0 \in Nat
        OBVIOUS
      <3>3. c \in Consoles
        BY <1>6
      <3> HIDE DEF c
      <3> QED
        BY <1>1, <1>4, <3>1, <3>2, <3>3 DEF CallRecord
    <2>2. TtyTypeOK' /\ accepted' \in Seq(Codes) /\ call'.b <= Len(call'.buf)
      BY <1>1, <1>2, <1>4, <1>6, <2>1 DEF TtyTypeOK
    <2>3. DriverInStep' /\ OthersEmpty' /\ Counted' /\ WriteReport'
      BY <1>1, <1>3, <1>6 DEF DriverInStep, OthersEmpty, Counted, WriteReport
    <2>4. Accepted'
      BY <1>1, <1>6, <2>1, NothingYet DEF Accepted
    <2>5. FifoOrder'
      <3>1. Contents(write_q'[c]) = <<>>
        BY <1>1, <1>2, <1>3, <1>6, NothingYet
      <3>2. shown' \o Contents(write_q'[c]) = Kept(accepted')
        BY <1>1, <3>1, NothingYet
      <3> QED
        BY <2>1, <3>2 DEF FifoOrder
    <2> QED
      BY <1>1, <2>2, <2>3, <2>4, <2>5 DEF CallInv
  <1> QED
    BY <1>1, <1>5, <1>6 DEF TtyWrite

\* One character more of a buffer.
LEMMA PrefixNext ==
    ASSUME NEW s \in Seq(Codes), NEW b \in Nat, b < Len(s)
    PROVE  /\ s[b + 1] \in Codes
           /\ SubSeq(s, 1, b) \in Seq(Codes)
           /\ SubSeq(s, 1, b + 1) = Append(SubSeq(s, 1, b), s[b + 1])
  <1>1. Len(s) \in Nat /\ b + 1 \in 1..Len(s) /\ 1 \in 1..Len(s) /\ b + 1 - 1 = b
    OBVIOUS
  <1>2. s[b + 1] \in Codes /\ \A i \in 1..b : s[i] \in Codes
    BY <1>1
  <1>3. SubSeq(s, 1, b) \in Seq(Codes)
    BY <1>2, SubSeqProperties
  <1>4. SubSeq(s, 1, b + 1) = SubSeq(s, 1, b + 1 - 1) \o <<s[b + 1]>>
    BY <1>1, SubSeqRecursiveSecond
  <1> QED
    BY <1>1, <1>2, <1>3, <1>4, AppendIsConcat

\* A call record with a field replaced is a call record.
LEMMA CallUpdate ==
    ASSUME NEW k \in CallRecord, NEW b \in Nat, NEW n \in 0..TTY_BUF_SIZE, NEW r \in Int
    PROVE  /\ [k EXCEPT !.b = b] \in CallRecord
           /\ [k EXCEPT !.chars = n] \in CallRecord
           /\ [k EXCEPT !.ret = r] \in CallRecord
  BY DEF CallRecord

\* The queue of the call, and what FifoOrder says of it.
LEMMA CallQueue ==
    ASSUME CallInv, pc \in {"tty_write", "con_write"}
    PROVE  /\ call.con \in Consoles
           /\ write_q[call.con] \in QueueOf(QueueCodes)
           /\ Contents(write_q[call.con]) \in Seq(QueueCodes)
           /\ Len(Contents(write_q[call.con])) = CHARS(write_q[call.con])
           /\ shown \o Contents(write_q[call.con]) = Kept(accepted)
           /\ Kept(accepted) \in Seq(Codes)
           /\ Len(Kept(accepted)) = Len(accepted) % TTY_BUF_SIZE
  <1>1. call.con \in Consoles /\ write_q[call.con] \in QueueOf(QueueCodes)
    BY DEF CallInv, TtyTypeOK, CallRecord
  <1>2. shown \o Contents(write_q[call.con]) = Kept(accepted)
    BY DEF CallInv, FifoOrder
  <1>3. accepted \in Seq(Codes) /\ "CR" \in Codes
    BY CallInputs DEF CallInv
  <1> QED
    BY <1>1, <1>2, <1>3, RingContents, KeptNext

\* One iteration of tty_write's loop.
LEMMA FillGood ==
    ASSUME CallInv, Fill
    PROVE  CallInv' /\ UNCHANGED conVars
  <1> DEFINE c  == call.con
             q  == write_q[c]
             b  == call.b
             ch == call.buf[b + 1]
             r  == PutAll(q, ch)
  <1>1. /\ pc = "tty_write" /\ pc' = "tty_write" /\ ~FULL(q)
        /\ write_q' = [write_q EXCEPT ![c] = r]
        /\ call' = [call EXCEPT !.b = b + 1]
        /\ accepted' = accepted \o Put(ch)
        /\ UNCHANGED <<conVars, shown>>
        /\ nr > 0
    BY DEF Fill
  <1>2. /\ write_q \in [Consoles -> QueueOf(QueueCodes)] /\ call \in CallRecord
        /\ accepted \in Seq(Codes) /\ shown = <<>>
        /\ accepted = Expand(SubSeq(call.buf, 1, b))
        /\ busy = Idle /\ OthersEmpty
    BY <1>1 DEF CallInv, TtyTypeOK, Accepted, DriverInStep
  <1>3. /\ c \in Consoles /\ q \in QueueOf(QueueCodes) /\ call.buf \in Seq(Codes)
        /\ b \in Nat /\ b < Len(call.buf) /\ Len(call.buf) \in Nat
    <2>1. /\ c \in Consoles /\ q \in QueueOf(QueueCodes)
          /\ call.buf \in Seq(Codes) /\ b \in Nat
      BY <1>2 DEF CallRecord
    <2>2. Len(call.buf) \in Nat
      BY <2>1
    <2>3. Len(call.buf) - b > 0
      BY <1>1 DEF nr
    <2> HIDE DEF b, c, q
    <2> QED
      BY <2>1, <2>2, <2>3
  <1>4. ch \in Codes
    BY <1>3, PrefixNext
  <1>5. Contents(q) = Kept(accepted)
    BY <1>1, <1>2, CallQueue, ConcatEmptySeq
  <1>6. r \in QueueOf(QueueCodes) /\ Contents(r) = Kept(accepted')
    BY <1>1, <1>2, <1>3, <1>4, <1>5, FillKeeps
  <1>7. /\ SubSeq(call.buf, 1, b) \in Seq(Codes)
        /\ SubSeq(call.buf, 1, b + 1) = Append(SubSeq(call.buf, 1, b), ch)
    BY <1>3, PrefixNext
  <1>8. /\ accepted' = Expand(SubSeq(call.buf, 1, b + 1))
        /\ accepted' \in Seq(Codes)
    BY <1>1, <1>2, <1>4, <1>7, ExpandNext, ConcatProperties
  <1>9. /\ call' \in CallRecord /\ call'.b = b + 1 /\ call'.con = c
        /\ call'.buf = call.buf
    <2>1. b + 1 \in Nat
      BY <1>3
    <2> QED
      BY <1>1, <1>2, <2>1, CallUpdate DEF CallRecord
  <1>10. write_q' \in [Consoles -> QueueOf(QueueCodes)] /\ write_q'[c] = r
         /\ \A d \in Consoles : d # c => write_q'[d] = write_q[d]
    BY <1>1, <1>2, <1>3, <1>6
  <1> HIDE DEF b, c, q, r, ch
  <1>11. TtyTypeOK'
    <2>1. shown' \in Seq(QueueCodes) /\ accepted' \in Seq(QueueCodes)
      BY <1>1, <1>2, <1>8, SeqMonotonic DEF QueueCodes
    <2> QED
      BY <1>1, <1>9, <1>10, <2>1 DEF TtyTypeOK
  <1>12. call'.b <= Len(call'.buf)
    BY <1>3, <1>9
  <1>13. DriverInStep'
    BY <1>1, <1>2 DEF DriverInStep, conVars
  <1>14. OthersEmpty'
    BY <1>1, <1>2, <1>9, <1>10 DEF OthersEmpty, c
  <1>15. Accepted'
    <2>1. b + 1 # 0
      BY <1>3
    <2>2. accepted' = Expand(SubSeq(call'.buf, 1, call'.b))
      BY <1>8, <1>9
    <2> QED
      BY <1>1, <1>2, <1>9, <2>1, <2>2 DEF Accepted
  <1>16. FifoOrder'
    <2>1. shown' \o Contents(write_q'[c]) = Kept(accepted')
      <3>1. Contents(r) \in Seq(QueueCodes)
        BY <1>6, RingContents
      <3> QED
        BY <1>1, <1>2, <1>6, <1>10, <3>1, ConcatEmptySeq
    <2> QED
      BY <1>9, <2>1 DEF FifoOrder
  <1>17. Counted' /\ WriteReport'
    BY <1>1 DEF Counted, WriteReport
  <1> QED
    BY <1>1, <1>8, <1>11, <1>12, <1>13, <1>14, <1>15, <1>16, <1>17 DEF CallInv

\* The loop is left and con_write called.
LEMMA CallConWriteGood ==
    ASSUME CallInv, CallConWrite
    PROVE  CallInv' /\ BeginWrite(call.con) /\ call.con \in Consoles
  <1> DEFINE c == call.con
             q == write_q[c]
             n == CHARS(q)
  <1>1. /\ pc = "tty_write" /\ pc' = "con_write" /\ BeginWrite(c)
        /\ nr = 0 \/ FULL(q)
        /\ call' = [call EXCEPT !.chars = n]
        /\ UNCHANGED <<write_q, accepted, shown>>
    BY DEF CallConWrite
  <1>2. /\ write_q \in [Consoles -> QueueOf(QueueCodes)] /\ call \in CallRecord
        /\ accepted \in Seq(Codes) /\ accepted \in Seq(QueueCodes) /\ shown = <<>>
        /\ call.b <= Len(call.buf)
        /\ OthersEmpty /\ Accepted /\ FifoOrder
    BY <1>1 DEF CallInv, TtyTypeOK, Accepted
  <1>3. /\ c \in Consoles /\ q \in QueueOf(QueueCodes) /\ n \in Slots
        /\ FULL(q) <=> n = TTY_BUF_SIZE - 1
    <2>1. c \in Consoles /\ q \in QueueOf(QueueCodes)
      BY <1>2 DEF CallRecord
    <2> HIDE DEF c, q
    <2> QED
      BY <2>1, RingCount
  <1>4. n \in 0..TTY_BUF_SIZE
    BY <1>3, RingSize DEF Slots
  <1>5. Contents(q) = Kept(accepted) /\ n = Len(accepted) % TTY_BUF_SIZE
    BY <1>1, <1>2, CallQueue, ConcatEmptySeq
  <1> HIDE DEF n
  <1>6. /\ call' \in CallRecord /\ call'.con = c /\ call'.b = call.b
        /\ call'.buf = call.buf /\ call'.chars = n
    BY <1>1, <1>2, <1>4, CallUpdate DEF CallRecord
  <1>7. nr' = nr
    BY <1>6 DEF nr
  <1>8. ASSUME nr > 0
        PROVE  call.b > 0 /\ Len(accepted) % TTY_BUF_SIZE = TTY_BUF_SIZE - 1
    <2>1. FULL(q)
      BY <1>1, <1>8
    <2>2. n = TTY_BUF_SIZE - 1 /\ n # 0
      BY <1>3, <2>1, RingSize
    <2>3. call.b = 0 => n = 0
      BY <1>1, <1>2, <1>5, EmptySeq, NothingYet, KeptNext DEF Accepted
    <2>4. call.b \in Nat
      BY <1>2 DEF CallRecord
    <2> QED
      BY <1>5, <2>2, <2>3, <2>4
  <1>9. TtyTypeOK'
    BY <1>1, <1>2, <1>6 DEF TtyTypeOK
  <1>10. DriverInStep'
    BY <1>1, <1>6 DEF DriverInStep, BeginWrite
  <1>11. OthersEmpty'
    BY <1>1, <1>2, <1>6 DEF OthersEmpty
  <1>12. Accepted'
    BY <1>1, <1>2, <1>6 DEF Accepted
  <1>13. Counted'
    BY <1>1, <1>6, <1>7, <1>8 DEF Counted, n
  <1>14. FifoOrder'
    BY <1>1, <1>2, <1>6 DEF FifoOrder
  <1>15. WriteReport'
    BY <1>1 DEF WriteReport
  <1> QED
    BY <1>1, <1>2, <1>3, <1>6, <1>9, <1>10, <1>11, <1>12, <1>13, <1>14, <1>15 DEF CallInv

\* What moves from the queue to the screen keeps its place in the order.
LEMMA DrainOrder ==
    ASSUME NEW S, NEW s \in Seq(S), NEW t \in Seq(S), t # <<>>
    PROVE  Append(s, Head(t)) \o Tail(t) = s \o t
  <1>1. Head(t) \in S /\ Tail(t) \in Seq(S) /\ <<Head(t)>> \in Seq(S)
    BY HeadTailProperties
  <1>2. Append(s, Head(t)) = s \o <<Head(t)>>
    BY <1>1, AppendIsConcat
  <1>3. (s \o <<Head(t)>>) \o Tail(t) = s \o (<<Head(t)>> \o Tail(t))
    BY <1>1, ConcatAssociative
  <1>4. <<Head(t)>> \o Tail(t) = t
    <2> DEFINE u == <<Head(t)>>
    <2>1. u \in Seq(S) /\ Len(u) = 1 /\ u[1] = Head(t) /\ Head(t) = t[1]
      BY <1>1
    <2>2. /\ Len(t) \in Nat \ {0} /\ Len(Tail(t)) = Len(t) - 1
          /\ \A i \in 1..Len(Tail(t)) : Tail(t)[i] = t[i + 1]
      BY HeadTailProperties, EmptySeq
    <2> HIDE DEF u
    <2>3. /\ u \o Tail(t) \in Seq(S) /\ Len(u \o Tail(t)) = Len(t)
          /\ \A i \in 1..Len(t) :
               (u \o Tail(t))[i] = IF i <= 1 THEN u[i] ELSE Tail(t)[i - 1]
      <3>1. 1 + Len(Tail(t)) = Len(t)
        BY <2>2
      <3>2. /\ u \o Tail(t) \in Seq(S) /\ Len(u \o Tail(t)) = Len(u) + Len(Tail(t))
            /\ \A i \in 1..(Len(u) + Len(Tail(t))) :
                 (u \o Tail(t))[i] = IF i <= Len(u) THEN u[i] ELSE Tail(t)[i - Len(u)]
        BY <1>1, <2>1, ConcatProperties
      <3> QED
        BY <2>1, <3>1, <3>2
    <2>4. ASSUME NEW i \in 1..Len(t) PROVE (u \o Tail(t))[i] = t[i]
      <3>1. CASE i = 1
        BY <2>1, <2>3, <3>1
      <3>2. CASE i # 1
        <4>1. i - 1 \in 1..Len(Tail(t)) /\ i - 1 + 1 = i
          BY <2>2, <3>2
        <4> QED
          BY <2>2, <2>3, <3>2, <4>1
      <3> QED
        BY <3>1, <3>2
    <2>5. u \o Tail(t) = t
      BY <2>2, <2>3, <2>4, SeqEqual
    <2> QED
      BY <2>5 DEF u
  <1> QED
    BY <1>2, <1>3, <1>4

\* One iteration of con_write's loop: what it takes out is one of Codes.
LEMMA DrainGood ==
    ASSUME CallInv, Drain
    PROVE  /\ CallInv'
           /\ \E c \in Consoles, ch \in Codes : WriteChar(c, ch)
  <1> DEFINE c  == call.con
             q  == write_q[c]
             r  == GETCH(q)
             ch == NextChar(q)
  <1>1. /\ pc = "con_write" /\ pc' = "con_write" /\ call.chars > 0
        /\ write_q' = [write_q EXCEPT ![c] = r]
        /\ call' = [call EXCEPT !.chars = call.chars - 1]
        /\ shown' = Append(shown, ch)
        /\ WriteChar(c, ch)
        /\ UNCHANGED accepted
    BY DEF Drain, CallInv, TtyTypeOK, CallRecord
  <1>2. /\ write_q \in [Consoles -> QueueOf(QueueCodes)] /\ call \in CallRecord
        /\ accepted \in Seq(Codes) /\ accepted \in Seq(QueueCodes)
        /\ shown \in Seq(QueueCodes) /\ call.b <= Len(call.buf)
        /\ call.chars = CHARS(q)
        /\ nr > 0 => call.b > 0 /\ Len(accepted) % TTY_BUF_SIZE = TTY_BUF_SIZE - 1
        /\ OthersEmpty /\ Accepted
        /\ busy = [op |-> "write", con |-> c]
    BY <1>1 DEF CallInv, TtyTypeOK, Counted, DriverInStep
  <1>3. /\ c \in Consoles /\ q \in QueueOf(QueueCodes)
        /\ Contents(q) \in Seq(QueueCodes)
        /\ shown \o Contents(q) = Kept(accepted) /\ Kept(accepted) \in Seq(Codes)
    BY <1>1, CallQueue
  <1>4. /\ r \in QueueOf(QueueCodes) /\ CHARS(r) = call.chars - 1
        /\ Contents(q) # <<>> /\ ch = Head(Contents(q)) /\ Contents(r) = Tail(Contents(q))
    BY <1>1, <1>2, <1>3, GetTakes
  <1> HIDE DEF c, q, r, ch
  <1>5. shown' \o Contents(r) = Kept(accepted)
    BY <1>1, <1>2, <1>3, <1>4, DrainOrder
  <1>6. ch \in Codes /\ ch \in QueueCodes
    <2> DEFINE n == Len(shown)
    <2>1. n \in Nat /\ Len(Contents(q)) \in Nat \ {0} /\ ch = Contents(q)[1]
      BY <1>2, <1>3, <1>4, EmptySeq
    <2>2. /\ Len(Kept(accepted)) = n + Len(Contents(q))
          /\ \A i \in 1..(n + Len(Contents(q))) :
               Kept(accepted)[i] = IF i <= n THEN shown[i] ELSE Contents(q)[i - n]
      BY <1>2, <1>3, ConcatProperties
    <2> HIDE DEF n
    <2>3. n + 1 \in 1..(n + Len(Contents(q))) /\ ~(n + 1 <= n) /\ n + 1 - n = 1
      BY <2>1
    <2>4. Kept(accepted)[n + 1] = ch
      BY <2>1, <2>2, <2>3
    <2>5. Kept(accepted)[n + 1] \in Codes
      BY <1>3, <2>2, <2>3, ElementOfSeq
    <2> QED
      BY <2>4, <2>5 DEF QueueCodes
  <1>7. /\ call' \in CallRecord /\ call'.con = c /\ call'.b = call.b
        /\ call'.buf = call.buf /\ call'.chars = call.chars - 1
    <2>1. call.chars - 1 \in 0..TTY_BUF_SIZE
      <3>1. call.chars \in 0..TTY_BUF_SIZE
        BY <1>2 DEF CallRecord
      <3> QED
        BY <1>1, <3>1, RingSize
    <2> QED
      BY <1>1, <1>2, <2>1, CallUpdate DEF CallRecord, c
  <1>8. write_q' \in [Consoles -> QueueOf(QueueCodes)] /\ write_q'[c] = r
        /\ \A d \in Consoles : d # c => write_q'[d] = write_q[d]
    BY <1>1, <1>2, <1>3, <1>4
  <1>9. nr' = nr
    BY <1>7 DEF nr
  <1>10. TtyTypeOK'
    BY <1>1, <1>2, <1>6, <1>7, <1>8, AppendProperties DEF TtyTypeOK
  <1>11. DriverInStep'
    BY <1>1, <1>2, <1>7 DEF DriverInStep, WriteChar, Become
  <1>12. OthersEmpty'
    BY <1>1, <1>2, <1>7, <1>8 DEF OthersEmpty, c
  <1>13. Accepted'
    BY <1>1, <1>2, <1>7 DEF Accepted
  <1>14. Counted'
    BY <1>1, <1>2, <1>4, <1>7, <1>8, <1>9 DEF Counted
  <1>15. FifoOrder'
    BY <1>1, <1>5, <1>7, <1>8 DEF FifoOrder
  <1>16. WriteReport'
    BY <1>1 DEF WriteReport
  <1> QED
    BY <1>1, <1>2, <1>3, <1>6, <1>7, <1>10, <1>11, <1>12, <1>13, <1>14, <1>15, <1>16
    DEF CallInv

\* con_write and tty_write return: the queue is empty again, and what was shown
\* is what it kept.
LEMMA WriteReturnsGood ==
    ASSUME CallInv, WriteReturns
    PROVE  CallInv' /\ SetCursor
  <1> DEFINE c == call.con
             q == write_q[c]
             N == TTY_BUF_SIZE
  <1>1. /\ pc = "con_write" /\ pc' = "idle" /\ call.chars = 0
        /\ call' = [call EXCEPT !.ret = call.b]
        /\ SetCursor /\ UNCHANGED <<write_q, accepted, shown>>
    BY DEF WriteReturns, CallInv, TtyTypeOK, CallRecord
  <1>2. /\ write_q \in [Consoles -> QueueOf(QueueCodes)] /\ call \in CallRecord
        /\ accepted \in Seq(Codes) /\ accepted \in Seq(QueueCodes)
        /\ shown \in Seq(QueueCodes) /\ call.b <= Len(call.buf)
        /\ call.b \in Nat /\ call.buf \in Seq(Codes)
        /\ CHARS(q) = 0
        /\ nr > 0 => Len(accepted) % N = N - 1
        /\ accepted = Expand(SubSeq(call.buf, 1, call.b))
        /\ OthersEmpty
    BY <1>1 DEF CallInv, TtyTypeOK, Counted, Accepted, CallRecord
  <1>3. q \in QueueOf(QueueCodes)
    BY <1>1, CallQueue
  <1>4. EMPTY(q) /\ Contents(q) = <<>>
    BY <1>2, <1>3, RingCount, NothingYet
  <1>5. shown = Kept(accepted) /\ Len(shown) = Len(accepted) % N
    BY <1>1, <1>2, <1>4, CallQueue, ConcatEmptySeq
  <1>6. /\ call' \in CallRecord /\ call'.ret = call.b /\ call'.b = call.b
        /\ call'.buf = call.buf
    <2>1. call.b \in Int
      BY <1>2
    <2> QED
      BY <1>1, <1>2, <2>1, CallUpdate DEF CallRecord
  <1>7. ASSUME call.b < Len(call.buf) PROVE Len(shown) = N - 1
    <2>1. nr > 0
      BY <1>2, <1>7 DEF nr
    <2> QED
      BY <1>2, <1>5, <2>1
  <1>8. TtyTypeOK'
    BY <1>1, <1>2, <1>6 DEF TtyTypeOK
  <1>9. DriverInStep'
    BY <1>1 DEF DriverInStep, SetCursor
  <1>10. OthersEmpty'
    BY <1>1, <1>2, <1>4 DEF OthersEmpty
  <1>11. Accepted' /\ Counted' /\ FifoOrder'
    BY <1>1 DEF Accepted, Counted, FifoOrder
  <1>12. WriteReport'
    BY <1>1, <1>2, <1>5, <1>6, <1>7 DEF WriteReport
  <1> QED
    BY <1>1, <1>2, <1>6, <1>8, <1>9, <1>10, <1>11, <1>12 DEF CallInv

\* console_print is entered, draws a character, returns.
LEMMA PrintkGood ==
    ASSUME CallInv, NEW msg \in Messages, Printk(msg)
    PROVE  CallInv' /\ BeginPrint
  <1>1. /\ pc = "idle" /\ pc' = "console_print" /\ BeginPrint /\ UNCHANGED write_q
        /\ accepted' = <<>> /\ shown' = <<>>
        /\ call' = [con |-> fg_console, buf |-> msg, b |-> 0, chars |-> 0, ret |-> 0]
    BY DEF Printk, NoCall
  <1>2. msg \in Seq(Codes) /\ Len(msg) \in Nat
    BY CallInputs
  <1>3. call' \in CallRecord /\ call'.b = 0 /\ call'.buf = msg
    BY <1>1, <1>2, Layout, RingSize DEF CallRecord
  <1>4. TtyTypeOK' /\ accepted' \in Seq(Codes)
    BY <1>1, <1>3 DEF CallInv, TtyTypeOK
  <1>5. DriverInStep'
    BY <1>1 DEF DriverInStep, BeginPrint
  <1>6. OthersEmpty'
    BY <1>1 DEF CallInv, OthersEmpty
  <1>7. Accepted' /\ Counted' /\ FifoOrder' /\ WriteReport'
    BY <1>1 DEF Accepted, Counted, FifoOrder, WriteReport
  <1> QED
    BY <1>1, <1>2, <1>3, <1>4, <1>5, <1>6, <1>7 DEF CallInv

LEMMA PrintNextGood ==
    ASSUME CallInv, PrintNext
    PROVE  CallInv' /\ \E ch \in Codes : PrintChar(ch)
  <1> DEFINE b == call.b
             ch == call.buf[b + 1]
  <1>1. /\ pc = "console_print" /\ pc' = "console_print" /\ nr > 0 /\ PrintChar(ch)
        /\ call' = [call EXCEPT !.b = b + 1] /\ UNCHANGED <<write_q, accepted, shown>>
    BY DEF PrintNext
  <1>2. call \in CallRecord /\ call.buf \in Seq(Codes) /\ b \in Nat
    BY DEF CallInv, TtyTypeOK, CallRecord
  <1>3. Len(call.buf) \in Nat /\ b + 1 <= Len(call.buf)
    BY <1>1, <1>2 DEF nr
  <1>4. ch \in Codes
    BY <1>2, <1>3, PrefixNext
  <1>5. call' \in CallRecord /\ call'.b = b + 1 /\ call'.buf = call.buf
    <2>1. b + 1 \in Nat
      BY <1>2
    <2> QED
      BY <1>1, <1>2, <2>1, CallUpdate DEF CallRecord
  <1> HIDE DEF b, ch
  <1>6. TtyTypeOK' /\ accepted' \in Seq(Codes)
    BY <1>1, <1>5 DEF CallInv, TtyTypeOK
  <1>7. DriverInStep'
    BY <1>1 DEF CallInv, DriverInStep, PrintChar, Become
  <1>8. OthersEmpty'
    BY <1>1 DEF CallInv, OthersEmpty
  <1>9. Accepted' /\ Counted' /\ FifoOrder' /\ WriteReport'
    BY <1>1 DEF CallInv, Accepted, Counted, FifoOrder, WriteReport
  <1> QED
    BY <1>1, <1>3, <1>4, <1>5, <1>6, <1>7, <1>8, <1>9 DEF CallInv

LEMMA PrintReturnsGood ==
    ASSUME CallInv, PrintReturns
    PROVE  CallInv' /\ SetCursor
  <1>1. /\ pc = "console_print" /\ pc' = "idle" /\ SetCursor
        /\ call' = [call EXCEPT !.ret = call.b] /\ UNCHANGED <<write_q, accepted, shown>>
    BY DEF PrintReturns, CallInv, TtyTypeOK, CallRecord
  <1>2. call \in CallRecord /\ call.b \in Int
    BY DEF CallInv, TtyTypeOK, CallRecord
  <1>3. call' \in CallRecord /\ call'.b = call.b /\ call'.buf = call.buf
    BY <1>1, <1>2, CallUpdate DEF CallRecord
  <1>4. TtyTypeOK' /\ accepted' \in Seq(Codes)
    BY <1>1, <1>3 DEF CallInv, TtyTypeOK
  <1>5. DriverInStep'
    BY <1>1 DEF DriverInStep, SetCursor
  <1>6. OthersEmpty'
    BY <1>1 DEF CallInv, OthersEmpty
  <1>7. Accepted' /\ Counted' /\ FifoOrder' /\ WriteReport'
    BY <1>1 DEF CallInv, Accepted, Counted, FifoOrder, WriteReport
  <1> QED
    BY <1>1, <1>3, <1>4, <1>5, <1>6, <1>7 DEF CallInv

\* Every step keeps the terminal layer's part, and is a step of the driver or
\* leaves the driver alone.
LEMMA CallStep ==
    CallInv /\ [TtyNext]_ttyVars => CallInv' /\ [ConNext]_conVars
  <1> SUFFICES ASSUME CallInv, [TtyNext]_ttyVars PROVE CallInv' /\ [ConNext]_conVars
    OBVIOUS
  <1>1. CASE \E channel \in Channels, buf \in UserBuffers : TtyWrite(channel, buf)
    BY <1>1, TtyWriteGood
  <1>2. CASE \E msg \in Messages : Printk(msg)
    BY <1>2, PrintkGood DEF ConNext
  <1>3. CASE Fill
    BY <1>3, FillGood
  <1>4. CASE CallConWrite
    BY <1>4, CallConWriteGood DEF ConNext
  <1>5. CASE Drain
    BY <1>5, DrainGood DEF ConNext
  <1>6. CASE WriteReturns
    BY <1>6, WriteReturnsGood DEF ConNext
  <1>7. CASE PrintNext
    BY <1>7, PrintNextGood DEF ConNext
  <1>8. CASE PrintReturns
    BY <1>8, PrintReturnsGood DEF ConNext
  <1>9. CASE UNCHANGED ttyVars
    BY <1>9
    DEF ttyVars, conVars, CallInv, TtyTypeOK, DriverInStep, OthersEmpty, Accepted,
        Counted, FifoOrder, WriteReport, nr
  <1> QED
    BY <1>1, <1>2, <1>3, <1>4, <1>5, <1>6, <1>7, <1>8, <1>9 DEF TtyNext, Step

-----------------------------------------------------------------------------
\* The invariant of the terminal layer and the driver together.
THEOREM TtyInvariant == TtySpec => []TtyIInv
  <1>1. TtyInit => TtyIInv
    BY TtyInitGood
  <1>2. TtyIInv /\ [TtyNext]_ttyVars => TtyIInv'
    BY CallStep, StepGood DEF TtyIInv
  <1> QED
    BY <1>1, <1>2, PTL DEF TtySpec

\* The terminal layer uses the driver as ConSpec says and in no other way: one
\* call at a time, a character at a time, each a code the driver knows.
THEOREM UsesDriver == TtySpec => ConSpec
  <1>1. TtyInit => ConInit
    BY DEF TtyInit
  <1>2. TtyIInv /\ [TtyNext]_ttyVars => [ConNext]_conVars
    BY CallStep DEF TtyIInv
  <1> QED
    BY <1>1, <1>2, TtyInvariant, PTL DEF TtySpec, ConSpec

\* Types of the terminal layer's variables.
THEOREM TtyTypeCorrect == TtySpec => []TtyTypeOK
  <1>1. TtyIInv => TtyTypeOK
    BY DEF TtyIInv, CallInv
  <1> QED
    BY <1>1, TtyInvariant, PTL

\* Between calls every write queue is empty.
THEOREM QueuesDrainedAlways == TtySpec => []QueuesDrained
  <1>1. TtyIInv => QueuesDrained
    BY DEF TtyIInv, CallInv, OthersEmpty, QueuesDrained
  <1> QED
    BY <1>1, TtyInvariant, PTL

\* During a call the queue and the screen have what was kept, in order.
THEOREM FifoOrderAlways == TtySpec => []FifoOrder
  <1>1. TtyIInv => FifoOrder
    BY DEF TtyIInv, CallInv
  <1> QED
    BY <1>1, TtyInvariant, PTL

\* What tty_write reports.
THEOREM WriteReportAlways == TtySpec => []WriteReport
  <1>1. TtyIInv => WriteReport
    BY DEF TtyIInv, CallInv
  <1> QED
    BY <1>1, TtyInvariant, PTL

\* A call with a buffer that is not empty takes at least one character of it,
\* however large the buffer and wherever the queue stands.
THEOREM ProgressAlways == TtySpec => WriteProgress
  <1>1. TtyIInv /\ [TtyNext]_ttyVars =>
          [(pc = "con_write" /\ pc' = "idle" /\ call.buf # <<>>) => call'.ret > 0]_ttyVars
    <2> SUFFICES ASSUME TtyIInv, [TtyNext]_ttyVars,
                        pc = "con_write", pc' = "idle", call.buf # <<>>
                 PROVE  call'.ret > 0
      OBVIOUS
    <2>1. WriteReturns
      BY DEF TtyNext, Step, TtyWrite, Fill, CallConWrite, Drain, Printk, PrintNext,
             PrintReturns, ttyVars
    <2>2. call \in CallRecord /\ (nr > 0 => call.b > 0) /\ call.b <= Len(call.buf)
      BY DEF TtyIInv, CallInv, TtyTypeOK, Counted
    <2>3. call'.ret = call.b
      BY <2>1, <2>2 DEF WriteReturns, CallRecord
    <2>4. call.b \in Nat /\ Len(call.buf) \in Nat \ {0}
      BY <2>2, EmptySeq DEF CallRecord
    <2> QED
      BY <2>2, <2>3, <2>4 DEF nr
  <1> QED
    BY <1>1, TtyInvariant, PTL DEF TtySpec, WriteProgress

\* What holds of the driver holds under the terminal layer: output through
\* tty_write and printk stays in its console's window.
THEOREM TtyStoresConfined == TtySpec => StoresStayInWindow
  BY UsesDriver, StoresConfined, PTL

\* And the CRT controller follows the foreground console, whichever one
\* tty_write writes to.
THEOREM TtyHardwareCorrect == TtySpec => []HardwareInSync
  BY UsesDriver, HardwareCorrect, PTL

\* Each console shows what a terminal would that is given the output of
\* tty_write and printk (Screen.tla).
THEOREM TtyShowsTerminal == TtySpec => ImplementsScreen
  BY UsesDriver, ImplementsTerminal, PTL
=============================================================================
