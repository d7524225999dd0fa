--------------------------- MODULE TranslatorProofs ----------------------------
(******************************************************************************)
(* The parts of rvgen that translate one form of a program into another,      *)
(* proved about side by side as MCTranslators checks them: they have no       *)
(* state in common.                                                           *)
(*                                                                            *)
(* Constants.  load_imm32 and load_imm_fixed load the value they are given,   *)
(* for words, immediates and chunks of any width (Immediates).                *)
(*                                                                            *)
(* Instructions.  Target::emit refuses nothing the generator makes itself     *)
(* and no compressed encoding overflows its sixteen bits (Encoding).  What a  *)
(* packed word has in each of its fields is here as well; what a hart makes   *)
(* of the word is in DecodingProofs.                                          *)
(*                                                                            *)
(* Files.  A reader of the file finds the image and its symbols, for images   *)
(* of any number of sections and symbols, of any size and at any place        *)
(* (ElfFile).  That invariant has three parts.  What finish has made (Bare,   *)
(* Tabled and Listed): the sections are the image's, then the two tables,     *)
(* and the rows of the symbols name their strings.  What the first pass has   *)
(* planned (Placed): each offset is aligned, and what is before it ends there *)
(* at the latest.  And what the second pass has written (Headed, Segmented,   *)
(* Filled, Described): the pieces a reader will look for, at the places where *)
(* it will, and the end of the file, which the next piece begins at.          *)
(******************************************************************************)
EXTENDS Encoding, Immediates, ElfFile, FiniteSetTheorems, SequenceTheorems, TLAPS

Positive == Nat \ {0}

--------------------------------------------------------------------------------
(* Division and two's complement.                                            *)

LEMMA DivMod ==
    ASSUME NEW n \in Int, NEW a \in Positive
    PROVE  /\ n \div a \in Int /\ n % a \in 0 .. a - 1
           /\ n = a * (n \div a) + (n % a)
  BY DEF Positive

LEMMA Monotone ==
    ASSUME NEW a \in Positive, NEW p \in Int, NEW q \in Int, p <= q
    PROVE  a * p <= a * q
  BY DEF Positive

LEMMA Unique ==
    ASSUME NEW a \in Positive, NEW q \in Int, NEW r \in 0 .. a - 1,
           NEW n \in Int, n = a * q + r
    PROVE  n \div a = q /\ n % a = r
<1> DEFINE p == n \div a
<1>1. /\ p \in Int /\ n % a \in 0 .. a - 1
      /\ n = a * p + (n % a)
  BY DivMod
<1>0. SUFFICES p = q
  BY <1>1 DEF Positive
<1> HIDE DEF p
<1>2. CASE p >= q + 1
  <2>1. a * (q + 1) <= a * p
    BY <1>1, <1>2, Monotone
  <2>2. a * (q + 1) = a * q + a
    BY DEF Positive
  <2>3. QED
    BY <1>1, <2>1, <2>2 DEF Positive
<1>3. CASE p + 1 <= q
  <2>1. a * (p + 1) <= a * q
    BY <1>1, <1>3, Monotone
  <2>2. a * (p + 1) = a * p + a
    BY <1>1 DEF Positive
  <2>3. QED
    BY <1>1, <2>1, <2>2 DEF Positive
<1>4. QED
  BY <1>1, <1>2, <1>3

LEMMA DivDiv ==
    ASSUME NEW n \in Int, NEW a \in Positive, NEW b \in Positive
    PROVE  (n \div a) \div b = n \div (a * b)
<1> DEFINE q == n \div a
           r == n % a
           p == q \div b
           s == q % b
<1>1. q \in Int /\ r \in 0 .. a - 1 /\ n = a * q + r
  BY DivMod
<1> HIDE DEF q, r
<1>2. p \in Int /\ s \in 0 .. b - 1 /\ q = b * p + s
  BY <1>1, DivMod
<1> HIDE DEF p, s
<1>3. a * s >= 0 /\ a * s <= a * (b - 1)
  BY <1>2, Monotone DEF Positive
<1>4. a * (b - 1) = a * b - a
  BY DEF Positive
<1>5. a * b \in Positive
  BY DEF Positive
<1>6. a * s + r \in 0 .. a * b - 1
  <2>1. a * s \in Int /\ a * b \in Int /\ a \in Int /\ r \in Int
    BY <1>1, <1>2 DEF Positive
  <2>2. 0 <= r /\ r <= a - 1
    BY <1>1, <2>1
  <2>3. 0 <= a * s + r /\ a * s + r <= a * b - 1
    BY <1>3, <1>4, <2>1, <2>2
  <2>4. QED
    BY <2>1, <2>3
<1>7. n = (a * b) * p + (a * s + r)
  <2>1. a * (b * p + s) = (a * b) * p + a * s
    BY <1>2 DEF Positive
  <2>2. QED
    BY <1>1, <1>2, <2>1 DEF Positive
<1>8. n \div (a * b) = p
  BY <1>2, <1>5, <1>6, <1>7, Unique
<1>9. QED
  BY <1>8 DEF p, q

LEMMA ModShift ==
    ASSUME NEW n \in Int, NEW k \in Int, NEW m \in Positive
    PROVE  (n + m * k) % m = n % m
<1>1. n \div m \in Int /\ n % m \in 0 .. m - 1 /\ n = m * (n \div m) + (n % m)
  BY DivMod
<1> DEFINE q == n \div m
           r == n % m
<1> HIDE DEF q, r
<1>2. n + m * k = m * (q + k) + r
  BY <1>1 DEF Positive, q, r
<1>3. q + k \in Int /\ n + m * k \in Int /\ r \in 0 .. m - 1
  BY <1>1 DEF Positive, q, r
<1>4. (n + m * k) % m = r
  BY <1>2, <1>3, Unique
<1>5. QED
  BY <1>4 DEF r

\* Halves of a modulus.
LEMMA Halved ==
    ASSUME NEW m \in Positive
    PROVE  m \div 2 \in Nat /\ 2 * (m \div 2) <= m /\ m <= 2 * (m \div 2) + 1
  BY DEF Positive

\* Signed chooses one of the numbers that are n modulo m.
LEMMA SignedIs ==
    ASSUME NEW n \in Int, NEW m \in Positive
    PROVE  \E k \in Int : Signed(n, m) = n + m * k
<1> DEFINE h == m \div 2
           t == n + h
<1>1. h \in Int /\ t \in Int
  BY Halved
<1> HIDE DEF h
<1>2. /\ t \div m \in Int
      /\ t = m * (t \div m) + (t % m) /\ t % m \in Int
  BY <1>1, DivMod
<1>3. Signed(n, m) = (t % m) - h
  BY DEF Signed, h
<1> HIDE DEF t
<1> DEFINE q == t \div m
<1>4. m * (- q) = - (m * q) /\ m * q \in Int
  BY <1>2 DEF Positive
<1>5. Signed(n, m) = n + m * (- q)
  BY <1>1, <1>2, <1>3, <1>4 DEF t
<1>6. QED
  BY <1>2, <1>5

LEMMA SignedShift ==
    ASSUME NEW n \in Int, NEW k \in Int, NEW m \in Positive
    PROVE  Signed(n + m * k, m) = Signed(n, m)
<1> DEFINE h == m \div 2
<1>1. h \in Int
  BY Halved
<1> HIDE DEF h
<1>2. m * k \in Int
  BY DEF Positive
<1>3. (n + m * k) + h = (n + h) + m * k
  BY <1>1, <1>2
<1>4. ((n + h) + m * k) % m = (n + h) % m
  BY <1>1, ModShift
<1>5. Signed(n + m * k, m) = (((n + m * k) + h) % m) - h
  BY DEF Signed, h
<1>6. Signed(n, m) = ((n + h) % m) - h
  BY DEF Signed, h
<1>7. QED
  BY <1>3, <1>4, <1>5, <1>6

LEMMA SignedSame ==
    ASSUME NEW m \in Positive, NEW n \in Int,
           - (m \div 2) <= n, n <= (m \div 2) - 1
    PROVE  Signed(n, m) = n
<1> DEFINE h == m \div 2
<1>1. h \in Nat /\ 2 * h <= m
  BY Halved
<1>2. - h <= n /\ n <= h - 1
  OBVIOUS
<1>3. Signed(n, m) = ((n + h) % m) - h
  BY DEF Signed
<1> HIDE DEF h
<1>4. n + h \in 0 .. m - 1 /\ n + h = m * 0 + (n + h)
  BY <1>1, <1>2 DEF Positive
<1>5. (n + h) % m = n + h
  BY <1>4, Unique
<1>6. QED
  BY <1>1, <1>3, <1>5

--------------------------------------------------------------------------------
(* The widths.                                                               *)

LEMMA Widths ==
    /\ Chunk \in Positive /\ Half \in Positive /\ Low \in Positive /\ Full \in Positive
    /\ Chunk * Chunk \in Positive
    /\ 2 * Half = (Chunk * Chunk) * Chunk
    /\ Half \div Low \in Positive /\ Half = Low * (Half \div Low)
<1>1. Chunk \in Positive /\ Half \in Positive
  BY ImmediatesAssumption DEF Positive
<1>2. Low \in Positive /\ Full \in Positive /\ Chunk * Chunk \in Positive
  BY <1>1 DEF Low, Full, Positive
<1>3. 2 * Half = (Chunk * Chunk) * Chunk
  BY ImmediatesAssumption
<1> DEFINE Ratio == Half \div Low
<1>4. Ratio \in Int /\ Half = Low * Ratio
  <2>1. /\ Ratio \in Int /\ Half % Low \in 0 .. Low - 1
        /\ Half = Low * Ratio + (Half % Low)
    BY <1>1, <1>2, DivMod DEF Positive
  <2>2. Half % Low = 0
    BY ImmediatesAssumption
  <2> HIDE DEF Ratio
  <2>3. Low * Ratio \in Int
    BY <1>2, <2>1 DEF Positive
  <2>4. QED
    BY <2>1, <2>2, <2>3
<1>5. Ratio > 0
  <2> HIDE DEF Ratio
  <2>1. SUFFICES ASSUME Ratio <= 0 PROVE FALSE
    BY <1>4
  <2>2. Low * Ratio <= Low * 0
    BY <1>2, <1>4, <2>1, Monotone
  <2>3. QED
    BY <1>1, <1>2, <1>4, <2>2 DEF Positive
<1>6. QED
  BY <1>1, <1>2, <1>3, <1>4, <1>5 DEF Positive

\* The largest number's half is a multiple of Chunk.
LEMMA HalfFull ==
    /\ Half \div 2 \in Nat /\ 2 * (Half \div 2) = Half
    /\ Full \div 2 \in Nat /\ 2 * (Full \div 2) = Full
    /\ \E m \in Nat : Full \div 2 = Chunk * m
<1>1. Chunk \in Positive /\ Half \in Positive /\ 2 * Half = (Chunk * Chunk) * Chunk
  BY Widths
<1>2. PICK c \in Nat : Chunk = 2 * c
  <2> DEFINE half == Chunk \div 2
             odd == Chunk % 2
  <2>0. half \in Nat /\ odd \in 0 .. 1 /\ Chunk = 2 * half + odd
    BY <1>1 DEF Positive
  <2>1. PICK c \in Nat, r \in 0 .. 1 : Chunk = 2 * c + r
    BY <2>0
  <2>2. SUFFICES ASSUME r = 1 PROVE FALSE
    BY <2>1
  <2>3. PICK d \in Nat : Chunk * Chunk = 2 * d + 1
    <3>1. Chunk * Chunk = 2 * (2 * (c * c) + 2 * c) + 1
      BY <2>1, <2>2
    <3>2. c * c \in Nat
      OBVIOUS
    <3>3. 2 * (c * c) + 2 * c \in Nat
      BY <3>2
    <3>4. QED
      BY <3>1, <3>3
  <2>4. (Chunk * Chunk) * Chunk = 2 * (2 * (c * d) + c + d) + 1
    <3>1. (2 * d + 1) * (2 * c + 1) = 2 * (2 * (c * d) + c + d) + 1
      BY <2>3
    <3>2. QED
      BY <2>1, <2>2, <2>3, <3>1
  <2>5. c * d \in Nat
    BY <2>3
  <2>6. QED
    BY <1>1, <2>3, <2>4, <2>5 DEF Positive
<1>3. Half = Chunk * (Chunk * c)
  <2>1. (Chunk * Chunk) * Chunk = 2 * (Chunk * (Chunk * c))
    BY <1>1, <1>2 DEF Positive
  <2>2. Chunk * (Chunk * c) \in Int
    BY <1>1, <1>2 DEF Positive
  <2>3. QED
    BY <1>1, <2>1, <2>2 DEF Positive
<1>4. Full = 2 * (Chunk * (c * (c * Half)))
  <2>3. Half * Half = (Chunk * (Chunk * c)) * Half
    BY <1>3
  <2>4. (Chunk * (Chunk * c)) * Half = Chunk * ((2 * c) * (c * Half))
    BY <1>1, <1>2 DEF Positive
  <2>5. Chunk * ((2 * c) * (c * Half)) = 2 * (Chunk * (c * (c * Half)))
    BY <1>1, <1>2 DEF Positive
  <2>6. QED
    BY <2>3, <2>4, <2>5 DEF Full
<1>5. c * (c * Half) \in Nat
  BY <1>1, <1>2 DEF Positive
<1>6. Chunk * (c * (c * Half)) \in Nat
  BY <1>1, <1>5 DEF Positive
<1>7. Half = 2 * (Chunk * (c * c)) /\ Chunk * (c * c) \in Nat
  <2>1. (2 * c) * (Chunk * c) = 2 * (Chunk * (c * c))
    BY <1>1, <1>2 DEF Positive
  <2>2. Chunk * (Chunk * c) = (2 * c) * (Chunk * c)
    BY <1>2
  <2>3. QED
    BY <1>1, <1>2, <1>3, <2>1, <2>2 DEF Positive
<1>8. QED
  BY <1>4, <1>5, <1>6, <1>7

--------------------------------------------------------------------------------
(* What the instructions of a sequence compute.                              *)

\* LUI and the low immediate are together the 32 bits they were split from.
LEMMA SplitAddsUp ==
    ASSUME NEW v \in Int
    PROVE  /\ SplitImm32(v).upper \in Int /\ SplitImm32(v).lower \in Int
           /\ \E k \in Int :
                 SplitImm32(v).upper * Low + SplitImm32(v).lower = v + Half * k
<1> DEFINE bits == v % Half
           carry == (bits \div Chunk) % 2
           Ratio == Half \div Low
           high == bits \div Low
           sum == high + carry
<1>1. /\ Half \in Positive /\ Low \in Positive /\ Chunk \in Positive
      /\ Ratio \in Positive /\ Half = Low * Ratio
  BY Widths
<1>2. /\ v \div Half \in Int /\ bits \in Int
      /\ v = Half * (v \div Half) + bits
  BY <1>1, DivMod DEF Positive
<1>3. /\ high \in Int /\ bits % Low \in Int
      /\ bits = Low * high + (bits % Low)
  BY <1>1, <1>2, DivMod DEF Positive
<1>4. carry \in Int
  BY <1>1, <1>2, DivMod DEF Positive
<1>5. /\ sum \div Ratio \in Int /\ sum % Ratio \in Int
      /\ sum = Ratio * (sum \div Ratio) + (sum % Ratio)
  <2>1. sum \in Int /\ Ratio \in Positive
    BY <1>1, <1>3, <1>4
  <2> HIDE DEF sum, Ratio
  <2>2. /\ sum \div Ratio \in Int /\ sum % Ratio \in 0 .. Ratio - 1
        /\ sum = Ratio * (sum \div Ratio) + (sum % Ratio)
    BY <2>1, DivMod
  <2>3. QED
    BY <2>1, <2>2 DEF Positive
<1>6. /\ SplitImm32(v).upper = sum % Ratio
      /\ SplitImm32(v).lower = (bits % Low) - carry * Low
  BY DEF SplitImm32
<1> DEFINE q == v \div Half
           s == sum \div Ratio
           u == sum % Ratio
           l == bits % Low
<1>7. /\ q \in Int /\ s \in Int /\ u \in Int /\ l \in Int
      /\ Low \in Int /\ Ratio \in Int
  BY <1>1, <1>2, <1>3, <1>5 DEF Positive
<1>8. /\ v = Half * q + bits /\ bits = Low * high + l
      /\ high + carry = Ratio * s + u
      /\ SplitImm32(v).upper = u /\ SplitImm32(v).lower = l - carry * Low
  BY <1>2, <1>3, <1>5, <1>6
<1> HIDE DEF bits, carry, Ratio, high, sum, q, s, u, l
<1>9. u * Low = Low * (high + carry) - (Low * Ratio) * s
  <2>1. u = (high + carry) - Ratio * s
    BY <1>3, <1>4, <1>7, <1>8
  <2>2. ((high + carry) - Ratio * s) * Low = Low * (high + carry) - (Low * Ratio) * s
    BY <1>3, <1>4, <1>7
  <2>3. QED
    BY <2>1, <2>2
<1>10. u * Low + (l - carry * Low) = v + Half * (- q - s)
  <2>1. Low * (high + carry) = Low * high + carry * Low
    BY <1>3, <1>4, <1>7
  <2>2. Half * (- q - s) = - (Half * q) - Half * s
    BY <1>1, <1>7 DEF Positive
  <2>3. /\ Low * high \in Int /\ carry * Low \in Int /\ Half * q \in Int
        /\ Half * s \in Int
    BY <1>1, <1>3, <1>4, <1>7 DEF Positive
  <2>4. (Low * Ratio) * s = Half * s
    BY <1>1
  <2>5. QED
    BY <1>2, <1>3, <1>7, <1>8, <1>9, <2>1, <2>2, <2>3, <2>4
<1>11. QED
  BY <1>4, <1>7, <1>8, <1>10

\* The two instructions of load_imm32, with an ADDI or an ADDIW.
LEMMA TwoInstructions ==
    ASSUME NEW v \in Int,
           NEW r, r = Signed(SplitImm32(v).upper * Low, Half)
    PROVE  /\ r \in Int
           /\ Signed(r + SplitImm32(v).lower, Half) = Signed(v, Half)
           /\ Signed(Signed(r, Half) + SplitImm32(v).lower, Half) = Signed(v, Half)
<1> DEFINE u == SplitImm32(v).upper * Low
           l == SplitImm32(v).lower
<1>1. Half \in Positive /\ Low \in Int
  BY Widths DEF Positive
<1>2. u \in Int /\ l \in Int
  BY <1>1, SplitAddsUp
<1>3. PICK k \in Int : u + l = v + Half * k
  BY SplitAddsUp
<1>4. r = Signed(u, Half)
  OBVIOUS
<1> HIDE DEF u, l
<1>5. PICK i \in Int : r = u + Half * i
  BY <1>1, <1>2, <1>4, SignedIs
<1>6. r \in Int
  BY <1>1, <1>2, <1>5 DEF Positive
<1>7. PICK j \in Int : Signed(r, Half) = r + Half * j
  BY <1>1, <1>6, SignedIs
<1>8. Signed(r + l, Half) = Signed(v, Half)
  <2>1. r + l = v + Half * (k + i)
    <3>1. Half * (k + i) = Half * k + Half * i
      BY <1>1, <1>3, <1>5 DEF Positive
    <3>2. Half * k \in Int /\ Half * i \in Int
      BY <1>1, <1>3, <1>5 DEF Positive
    <3>3. QED
      BY <1>1, <1>2, <1>3, <1>5, <3>1, <3>2 DEF Positive
  <2>2. QED
    BY <1>1, <2>1, SignedShift
<1>9. Signed(Signed(r, Half) + l, Half) = Signed(v, Half)
  <2>1. Signed(r, Half) + l = v + Half * (k + i + j)
    <3>1. Half * (k + i + j) = Half * k + Half * i + Half * j
      BY <1>1, <1>3, <1>5, <1>7 DEF Positive
    <3>2. Half * k \in Int /\ Half * i \in Int /\ Half * j \in Int
      BY <1>1, <1>3, <1>5, <1>7 DEF Positive
    <3>3. QED
      BY <1>1, <1>2, <1>3, <1>5, <1>6, <1>7, <3>1, <3>2 DEF Positive
  <2>2. QED
    BY <1>1, <2>1, SignedShift
<1>10. QED
  BY <1>6, <1>8, <1>9 DEF l

\* A quotient of a 64-bit number is one.
LEMMA QuotientFits ==
    ASSUME NEW v \in Int64, NEW d \in Positive
    PROVE  v \div d \in Int64
<1> DEFINE K == Full \div 2
           q == v \div d
<1>1. K \in Nat /\ 2 * K = Full
  BY HalfFull
<1>2. v \in Int /\ - K <= v /\ v <= K - 1
  BY <1>1 DEF Int64
<1>3. q \in Int /\ v % d \in 0 .. d - 1 /\ v = d * q + (v % d)
  BY <1>2, DivMod
<1>4. Int64 = - K .. K - 1
  BY DEF Int64
<1> DEFINE r == v % d
<1>5. r \in Int /\ 0 <= r /\ r <= d - 1 /\ v = d * q + r
  BY <1>3 DEF Positive
<1> HIDE DEF K, q, r
<1>6. q <= K - 1
  <2>1. SUFFICES ASSUME q >= K PROVE FALSE
    BY <1>1, <1>3
  <2>2. d * K <= d * q
    BY <1>1, <1>3, <2>1, Monotone
  <2>3. K * 1 <= K * d /\ K * d = d * K
    BY <1>1 DEF Positive
  <2>4. d * K \in Int /\ d * q \in Int
    BY <1>1, <1>3 DEF Positive
  <2>5. QED
    BY <1>1, <1>2, <1>5, <2>2, <2>3, <2>4
<1>7. q >= - K
  <2>1. SUFFICES ASSUME q <= - K - 1 PROVE FALSE
    BY <1>1, <1>3
  <2>2. d * q <= d * (- K - 1)
    BY <1>1, <1>3, <2>1, Monotone
  <2>3. d * (- K - 1) = - (d * K) - d /\ d * K \in Int /\ d \in Int
    BY <1>1 DEF Positive
  <2>4. K * 1 <= K * d /\ K * d = d * K
    BY <1>1 DEF Positive
  <2>5. d * q \in Int
    BY <1>3 DEF Positive
  <2>6. QED
    BY <1>1, <1>2, <1>5, <2>2, <2>3, <2>4, <2>5
<1>8. QED
  BY <1>3, <1>4, <1>6, <1>7 DEF q

\* The upper 31 bits are a number of 31 bits.
LEMMA TopFits ==
    ASSUME NEW v \in Int64
    PROVE  Signed(v \div (2 * Half), Half) = v \div (2 * Half)
<1> DEFINE h == Half \div 2
           d == 2 * Half
           q == v \div d
           K == Full \div 2
<1>1. /\ Half \in Positive /\ d \in Positive /\ h \in Nat
      /\ 2 * h <= Half /\ Half <= 2 * h + 1
  BY Widths DEF Positive
<1>2. K \in Nat /\ 2 * K = Full /\ v \in Int /\ - K <= v /\ v <= K - 1
  BY HalfFull DEF Int64
<1>3. q \in Int /\ v % d \in 0 .. d - 1 /\ v = d * q + (v % d)
  BY <1>1, <1>2, DivMod
<1>4. - h <= q /\ q <= h - 1
  <2> DEFINE r == v % d
  <2>1. r \in Int /\ 0 <= r /\ r <= d - 1 /\ v = d * q + r
    BY <1>1, <1>3 DEF Positive
  <2>2. 2 * h = Half
    BY HalfFull
  <2>3. d * h = 2 * K
    <3>1. Half * (2 * h) = (2 * Half) * h
      BY <1>1 DEF Positive
    <3>2. QED
      BY <1>2, <2>2, <3>1 DEF Full
  <2> HIDE DEF d, h, q, r, K
  <2>4. d * q \in Int /\ d \in Int /\ d * h \in Int
    BY <1>1, <1>3 DEF Positive
  <2>5. CASE q >= h
    <3>1. d * h <= d * q
      BY <1>1, <1>3, <2>5, Monotone
    <3>2. QED
      BY <1>2, <2>1, <2>3, <2>4, <3>1
  <2>6. CASE q <= - h - 1
    <3>1. d * q <= d * (- h - 1)
      BY <1>1, <1>3, <2>6, Monotone
    <3>2. d * (- h - 1) = - (d * h) - d
      BY <1>1, <2>4
    <3>3. QED
      BY <1>2, <2>1, <2>3, <2>4, <3>1, <3>2
  <2>7. QED
    BY <1>1, <1>3, <2>5, <2>6
<1>5. QED
  BY <1>1, <1>3, <1>4, SignedSame

\* Shifting a quotient left and adding the next chunk is the next quotient: no
\* bit is lost on the left and no carry leaves the chunk.
LEMMA NextChunk ==
    ASSUME NEW v \in Int64, NEW w \in Int64, NEW r, w = v \div Chunk, r = Chunk * w
    PROVE  /\ Signed(w * Chunk, Full) = r
           /\ Signed(r + (v % Chunk), Full) = v
<1> DEFINE K == Full \div 2
<1>1. /\ K \in Nat /\ 2 * K = Full /\ Full \in Positive /\ Chunk \in Positive
  BY HalfFull, Widths
<1>2. PICK m \in Nat : K = Chunk * m
  BY HalfFull
<1>3. v \in Int /\ - K <= v /\ v <= K - 1 /\ w \in Int
  BY <1>1 DEF Int64
<1> DEFINE c == v % Chunk
<1>4. c \in 0 .. Chunk - 1 /\ v = Chunk * w + c
  BY <1>1, <1>3, DivMod
<1>5. c \in Int /\ 0 <= c /\ c <= Chunk - 1 /\ Chunk \in Int /\ Chunk * w \in Int
  BY <1>1, <1>3, <1>4 DEF Positive
<1> HIDE DEF c
<1>6. - K <= Chunk * w
  <2>1. SUFFICES ASSUME Chunk * w < - K PROVE FALSE
    BY <1>1, <1>5
  <2>2. w < - m
    <3>1. SUFFICES ASSUME - m <= w PROVE FALSE
      BY <1>2, <1>3
    <3>2. Chunk * (- m) <= Chunk * w
      BY <1>1, <1>3, <3>1, Monotone
    <3>3. Chunk * (- m) = - (Chunk * m)
      BY <1>5
    <3>4. QED
      BY <1>1, <1>2, <1>5, <2>1, <3>2, <3>3
  <2>3. Chunk * w <= Chunk * (- m - 1)
    BY <1>1, <1>3, <2>2, Monotone
  <2>4. Chunk * (- m - 1) = - (Chunk * m) - Chunk
    BY <1>5
  <2>5. QED
    BY <1>1, <1>2, <1>3, <1>4, <1>5, <2>3, <2>4
<1>7. Chunk * w <= K - 1
  BY <1>1, <1>3, <1>4, <1>5
<1> HIDE DEF K
<1>8. r \in Int /\ - K <= r /\ r <= K - 1
  BY <1>5, <1>6, <1>7
<1>9. w * Chunk = r /\ r + c = v
  BY <1>3, <1>4, <1>5
<1>10. Signed(r, Full) = r
  BY <1>1, <1>8, SignedSame DEF K
<1>11. Signed(v, Full) = v
  BY <1>1, <1>3, SignedSame DEF K
<1>12. QED
  BY <1>9, <1>10, <1>11 DEF c

--------------------------------------------------------------------------------
(* The invariant: what the register holds at every place of a sequence.      *)

Patchable == loader = "load_imm_fixed"
Long == Patchable /\ xlen = "X64"

\* What the first two instructions load.
Top == IF Long THEN value \div (2 * Half) ELSE value

\* What has been shifted in when 22, 11 and 0 bits are still missing.
Quarter == value \div (Chunk * Chunk)
Middle == value \div Chunk

Reached ==
    /\ pc = 2 => rd = Signed(SplitImm32(Top).upper * Low, Half)
    /\ pc = 3 => rd = Signed(Top, IF Long THEN Half ELSE Modulus)
    /\ pc = 4 => rd = Chunk * (Quarter \div Chunk)
    /\ pc = 5 => rd = Quarter
    /\ pc = 6 => rd = Chunk * (Middle \div Chunk)
    /\ pc = 7 => rd = Middle
    /\ pc = 8 => rd = Chunk * Middle
    /\ pc = 9 => rd = value

Whole == Append(Sequence(loader, value, xlen), Stop)

ImmediatesIInv ==
    /\ ImmediatesTypeOK
    /\ patched \/ Patchable
    /\ loader # "load_imm" =>
          /\ code = Whole
          /\ pc \in 1 .. IF Long THEN 9 ELSE 3
          /\ ~ Patchable => value = Signed(value, Half)
          /\ Reached

\* A long sequence, instruction by instruction.
LEMMA EightOf ==
    ASSUME NEW a, NEW b, NEW c, NEW d, NEW e, NEW f, NEW g, NEW h, NEW S,
           S = {a, b, c, d, e, f, g, h},
           NEW w, w = <<a, b>> \o <<c, d, e, f, g, h>>
    PROVE  /\ w \in Seq(S) /\ Len(w) = 8 /\ w[1] = a /\ w[2] = b /\ w[3] = c
           /\ w[4] = d /\ w[5] = e /\ w[6] = f /\ w[7] = g /\ w[8] = h
<1> DEFINE p == <<a, b>>
           q == <<c, d, e, f, g, h>>
<1>1. p \in Seq(S) /\ Len(p) = 2 /\ p[1] = a /\ p[2] = b
  OBVIOUS
<1>2. /\ q \in Seq(S) /\ Len(q) = 6 /\ q[1] = c /\ q[2] = d /\ q[3] = e
      /\ q[4] = f /\ q[5] = g /\ q[6] = h
  OBVIOUS
<1>3. w = p \o q
  OBVIOUS
<1> HIDE DEF p, q
<1>4. /\ w \in Seq(S) /\ Len(w) = 8
      /\ \A i \in 1 .. 8 : w[i] = IF i <= 2 THEN p[i] ELSE q[i - 2]
  BY <1>1, <1>2, <1>3, ConcatProperties
<1>5. /\ w[1] = p[1] /\ w[2] = p[2] /\ w[3] = q[1] /\ w[4] = q[2]
      /\ w[5] = q[3] /\ w[6] = q[4] /\ w[7] = q[5] /\ w[8] = q[6]
  BY <1>4
<1>6. QED
  BY <1>1, <1>2, <1>4, <1>5

\* A sequence with Stop behind it.
LEMMA Stopped ==
    ASSUME NEW s, NEW S, s \in Seq(S)
    PROVE  LET t == Append(s, Stop)
           IN  /\ DOMAIN s = 1 .. Len(s) /\ Len(s) \in Nat
               /\ DOMAIN t = 1 .. Len(s) + 1
               /\ t = [i \in 1 .. Len(s) + 1 |-> IF i \in 1 .. Len(s) THEN s[i] ELSE Stop]
<1> DEFINE T == S \cup {Stop}
           t == Append(s, Stop)
<1>1. s \in Seq(T)
  OBVIOUS
<1>2. Stop \in T
  OBVIOUS
<1> HIDE DEF T
<1>3. /\ t \in Seq(T) /\ Len(t) = Len(s) + 1 /\ t[Len(s) + 1] = Stop
      /\ \A i \in 1 .. Len(s) : t[i] = s[i]
  BY <1>1, <1>2, AppendProperties
<1> HIDE DEF t
<1>4. /\ Len(s) \in Nat /\ DOMAIN s = 1 .. Len(s) /\ DOMAIN t = 1 .. Len(s) + 1
      /\ t = [i \in 1 .. Len(s) + 1 |-> t[i]]
  BY <1>1, <1>3
<1>5. \A i \in 1 .. Len(s) + 1 : t[i] = IF i \in 1 .. Len(s) THEN s[i] ELSE Stop
  <2> DEFINE n == Len(s)
  <2>1. n \in Nat /\ t[n + 1] = Stop /\ \A i \in 1 .. n : t[i] = s[i]
    BY <1>3, <1>4
  <2> HIDE DEF n
  <2>2. \A i \in 1 .. n + 1 : t[i] = IF i \in 1 .. n THEN s[i] ELSE Stop
    <3>1. TAKE i \in 1 .. n + 1
    <3>2. CASE i \in 1 .. n
      BY <2>1, <3>2
    <3>3. CASE i \notin 1 .. n
      <4>1. i = n + 1
        BY <2>1, <3>3
      <4>2. QED
        BY <2>1, <3>3, <4>1
    <3>4. QED
      BY <3>2, <3>3
  <2>3. QED
    BY <2>2 DEF n
<1>6. t = [i \in 1 .. Len(s) + 1 |-> IF i \in 1 .. Len(s) THEN s[i] ELSE Stop]
  BY <1>4, <1>5
<1>7. QED
  BY <1>4, <1>6 DEF t

LEMMA ShortSequence ==
    ASSUME NEW v, NEW xl, NEW l \in {"load_imm32", "load_imm_fixed"},
           xl \in {"X32", "X64"}, ~ (l = "load_imm_fixed" /\ xl = "X64")
    PROVE  LET s == Sequence(l, v, xl)
           IN  /\ \E S : s \in Seq(S)
               /\ Len(s) = 2 /\ s[1] = Lui(SplitImm32(v).upper)
               /\ s[2] = IF xl = "X32" THEN Addi(SplitImm32(v).lower)
                         ELSE Addiw(SplitImm32(v).lower)
<1> DEFINE a == Lui(SplitImm32(v).upper)
           b == IF xl = "X32" THEN Addi(SplitImm32(v).lower)
                ELSE Addiw(SplitImm32(v).lower)
<1>1. Sequence(l, v, xl) = <<a, b>>
  BY DEF Sequence, LoadImmFixed, LoadImm32
<1> HIDE DEF a, b
<1> DEFINE s == <<a, b>>
<1>2. s \in Seq({a, b}) /\ Len(s) = 2 /\ s[1] = a /\ s[2] = b
  OBVIOUS
<1> HIDE DEF s
<1>3. (\E S : s \in Seq(S)) /\ Sequence(l, v, xl) = s
  BY <1>1, <1>2 DEF s
<1>4. QED
  BY <1>2, <1>3 DEF a, b

LEMMA LongSequence ==
    ASSUME NEW v
    PROVE  LET s == Sequence("load_imm_fixed", v, "X64")
               top == SplitImm32(v \div (2 * Half))
           IN  /\ \E S : s \in Seq(S)
               /\ Len(s) = 8 /\ s[1] = Lui(top.upper) /\ s[2] = Addiw(top.lower)
               /\ s[3] = Slli(Chunk) /\ s[4] = Addi((v \div (Chunk * Chunk)) % Chunk)
               /\ s[5] = Slli(Chunk) /\ s[6] = Addi((v \div Chunk) % Chunk)
               /\ s[7] = Slli(Chunk) /\ s[8] = Addi(v % Chunk)
<1> DEFINE top == SplitImm32(v \div (2 * Half))
           s == Sequence("load_imm_fixed", v, "X64")
           a == Lui(top.upper)
           b == Addiw(top.lower)
           c == Slli(Chunk)
           d == Addi((v \div (Chunk * Chunk)) % Chunk)
           e == Addi((v \div Chunk) % Chunk)
           f == Addi(v % Chunk)
           S == {a, b, c, d, c, e, c, f}
<1>1. s = <<a, b>> \o <<c, d, c, e, c, f>>
  BY DEF Sequence, LoadImmFixed, LoadImm32
<1> HIDE DEF a, b, c, d, e, f, s
<1>2. /\ s \in Seq(S) /\ Len(s) = 8 /\ s[1] = a /\ s[2] = b /\ s[3] = c /\ s[4] = d
      /\ s[5] = c /\ s[6] = e /\ s[7] = c /\ s[8] = f
  <2>1. S = {a, b, c, d, c, e, c, f}
    OBVIOUS
  <2> HIDE DEF S
  <2>2. QED
    BY <1>1, <2>1, EightOf
<1>3. QED
  BY <1>2 DEF a, b, c, d, e, f, s

LEMMA CodeOf ==
    ASSUME NEW s, NEW S, s \in Seq(S), NEW c, c = Append(s, Stop)
    PROVE  /\ Len(s) \in Nat /\ DOMAIN c = 1 .. Len(s) + 1 /\ c[Len(s) + 1] = Stop
           /\ \A i \in 1 .. Len(s) : c[i] = s[i]
<1> DEFINE n == Len(s)
<1>1. /\ n \in Nat /\ DOMAIN c = 1 .. n + 1
      /\ c = [i \in 1 .. n + 1 |-> IF i \in 1 .. n THEN s[i] ELSE Stop]
  BY Stopped
<1> HIDE DEF n
<1>2. n + 1 \in 1 .. n + 1 /\ n + 1 \notin 1 .. n /\ 1 .. n \subseteq 1 .. n + 1
  BY <1>1
<1>3. c[n + 1] = Stop /\ \A i \in 1 .. n : c[i] = s[i]
  BY <1>1, <1>2
<1>4. QED
  BY <1>1, <1>3 DEF n

\* Every sequence of a kind has the same length: overwriting one with another
\* leaves the instruction behind it where it is.
LEMMA Replaced ==
    ASSUME NEW s, NEW S, s \in Seq(S), NEW t, NEW T, t \in Seq(T), Len(s) = Len(t)
    PROVE  Overwritten(Append(s, Stop), t) = Append(t, Stop)
<1> DEFINE n == Len(s)
<1>1. /\ n \in Nat /\ DOMAIN t = 1 .. n /\ DOMAIN Append(s, Stop) = 1 .. n + 1
      /\ Append(s, Stop) = [i \in 1 .. n + 1 |-> IF i \in 1 .. n THEN s[i] ELSE Stop]
      /\ Append(t, Stop) = [i \in 1 .. n + 1 |-> IF i \in 1 .. n THEN t[i] ELSE Stop]
  BY Stopped
<1> HIDE DEF n
<1>2. DOMAIN Append(s, Stop) \cup DOMAIN t = 1 .. n + 1
  BY <1>1
<1>3. \A i \in 1 .. n + 1 : i \notin 1 .. n => Append(s, Stop)[i] = Stop
  BY <1>1
<1>4. QED
  BY <1>1, <1>2, <1>3 DEF Overwritten

--------------------------------------------------------------------------------
(* The invariant is inductive.                                               *)

LEMMA InitIInv == ImmediatesInit => ImmediatesIInv
<1> SUFFICES ASSUME ImmediatesInit PROVE ImmediatesIInv
  OBVIOUS
<1>1. value \in Int64
  BY ImmediatesAssumption DEF ImmediatesInit
<1>2. ImmediatesTypeOK
  BY <1>1 DEF ImmediatesInit, ImmediatesTypeOK
<1>3. code = Whole /\ pc = 1
  BY DEF ImmediatesInit, Whole
<1>4. /\ loader # "load_imm" /\ ~ Patchable => value = Signed(value, Half)
      /\ patched \/ Patchable
  BY DEF ImmediatesInit, Patchable
<1>5. QED
  BY <1>2, <1>3, <1>4 DEF ImmediatesIInv, Reached

\* Every instruction takes the register to what it holds at the next place.
LEMMA StepIInv == ImmediatesIInv /\ Step => ImmediatesIInv'
<1> SUFFICES ASSUME ImmediatesIInv, Step PROVE ImmediatesIInv'
  OBVIOUS
<1>1. /\ UNCHANGED <<xlen, loader, value, code, patched>> /\ code[pc] # Stop
      /\ rd' = Executed(code[pc], rd) /\ pc' = pc + 1
  BY DEF Step
<1>2. ImmediatesTypeOK'
  BY <1>1 DEF ImmediatesIInv, ImmediatesTypeOK
<1>3. SUFFICES ASSUME loader # "load_imm"
               PROVE  pc' \in 1 .. (IF Long THEN 9 ELSE 3) /\ Reached'
  BY <1>1, <1>2 DEF ImmediatesIInv, Long, Patchable, Whole
<1>4. /\ value \in Int64 /\ value \in Int /\ xlen \in {"X32", "X64"}
      /\ loader \in {"load_imm32", "load_imm_fixed"} /\ code = Whole
      /\ ~ Patchable => value = Signed(value, Half)
      /\ pc \in 1 .. (IF Long THEN 9 ELSE 3) /\ Reached
  BY <1>3 DEF ImmediatesIInv, ImmediatesTypeOK, Int64
<1>5. /\ Half \in Positive /\ Full \in Positive /\ Chunk \in Positive
      /\ Chunk * Chunk \in Positive /\ 2 * Half = (Chunk * Chunk) * Chunk
  BY Widths
<1>6. Top \in Int
  <2>1. 2 * Half \in Positive
    BY <1>5 DEF Positive
  <2>2. value \div (2 * Half) \in Int
    BY <1>4, <2>1, DivMod
  <2>3. QED
    BY <1>4, <2>2 DEF Top
<1>7. Top' = Top /\ Modulus' = Modulus /\ Quarter' = Quarter /\ Middle' = Middle
      /\ (Long <=> Long')
  BY <1>1 DEF Top, Modulus, Quarter, Middle, Long, Patchable
<1>8. CASE ~ Long
  <2>1. /\ code[1] = Lui(SplitImm32(Top).upper)
        /\ code[2] = IF xlen = "X32" THEN Addi(SplitImm32(Top).lower)
                     ELSE Addiw(SplitImm32(Top).lower)
        /\ code[3] = Stop
    <3> DEFINE s == Sequence(loader, value, xlen)
    <3>1. /\ \E S : s \in Seq(S)
          /\ Len(s) = 2 /\ s[1] = Lui(SplitImm32(Top).upper)
          /\ s[2] = IF xlen = "X32" THEN Addi(SplitImm32(Top).lower)
                    ELSE Addiw(SplitImm32(Top).lower)
      BY <1>4, <1>8, ShortSequence DEF Long, Patchable, Top
    <3>2. code = Append(s, Stop)
      BY <1>4 DEF Whole
    <3> HIDE DEF s
    <3>3. code[3] = Stop /\ \A i \in 1 .. 2 : code[i] = s[i]
      BY <3>1, <3>2, CodeOf
    <3>4. QED
      BY <3>1, <3>3
  <2>2. pc \in {1, 2}
    BY <1>1, <1>4, <1>8, <2>1
  <2>3. CASE pc = 1
    <3>1. rd' = Signed(SplitImm32(Top).upper * Low, Half) /\ pc' = 2
      BY <1>1, <2>1, <2>3 DEF Executed, Lui
    <3>2. QED
      BY <1>1, <1>7, <1>8, <3>1 DEF Reached
  <2>4. CASE pc = 2
    <3>1. rd = Signed(SplitImm32(Top).upper * Low, Half) /\ pc' = 3
      BY <1>1, <1>4, <2>4 DEF Reached
    <3>2. CASE xlen = "X32"
      <4>1. rd' = Signed(rd + SplitImm32(Top).lower, Half) /\ Modulus = Half
        BY <1>1, <2>1, <2>4, <3>2 DEF Executed, Addi, Modulus
      <4>2. rd' = Signed(Top, Modulus)
        BY <1>6, <3>1, <4>1, TwoInstructions
      <4>3. QED
        BY <1>1, <1>7, <1>8, <3>1, <4>2 DEF Reached
    <3>3. CASE xlen = "X64"
      <4>1. /\ rd' = Signed(Signed(rd, Half) + SplitImm32(Top).lower, Half)
            /\ Modulus = Full
        BY <1>1, <2>1, <2>4, <3>3 DEF Executed, Addiw, Modulus
      <4>2. rd' = Signed(Top, Half)
        BY <1>6, <3>1, <4>1, TwoInstructions
      <4>3. Top = value /\ value = Signed(value, Half)
        BY <1>4, <1>8, <3>3 DEF Top, Long
      <4>4. Signed(value, Full) = value
        BY <1>4, <1>5, SignedSame, HalfFull DEF Int64
      <4>5. QED
        BY <1>1, <1>7, <1>8, <3>1, <4>1, <4>2, <4>3, <4>4 DEF Reached
    <3>4. QED
      BY <1>4, <3>2, <3>3
  <2>5. QED
    BY <2>2, <2>3, <2>4
<1>9. CASE Long
  <2> DEFINE top == SplitImm32(Top)
  <2>1. /\ code[1] = Lui(top.upper) /\ code[2] = Addiw(top.lower)
        /\ code[3] = Slli(Chunk) /\ code[4] = Addi(Quarter % Chunk)
        /\ code[5] = Slli(Chunk) /\ code[6] = Addi(Middle % Chunk)
        /\ code[7] = Slli(Chunk) /\ code[8] = Addi(value % Chunk) /\ code[9] = Stop
    <3> DEFINE s == Sequence(loader, value, xlen)
    <3>1. s = Sequence("load_imm_fixed", value, "X64") /\ Top = value \div (2 * Half)
      BY <1>9 DEF Long, Patchable, Top
    <3>2. /\ \E S : s \in Seq(S)
          /\ Len(s) = 8 /\ s[1] = Lui(top.upper) /\ s[2] = Addiw(top.lower)
          /\ s[3] = Slli(Chunk) /\ s[4] = Addi(Quarter % Chunk)
          /\ s[5] = Slli(Chunk) /\ s[6] = Addi(Middle % Chunk)
          /\ s[7] = Slli(Chunk) /\ s[8] = Addi(value % Chunk)
      <4> DEFINE u == Sequence("load_imm_fixed", value, "X64")
      <4>1. /\ \E S : u \in Seq(S)
            /\ Len(u) = 8 /\ u[1] = Lui(SplitImm32(value \div (2 * Half)).upper)
            /\ u[2] = Addiw(SplitImm32(value \div (2 * Half)).lower)
            /\ u[3] = Slli(Chunk) /\ u[4] = Addi((value \div (Chunk * Chunk)) % Chunk)
            /\ u[5] = Slli(Chunk) /\ u[6] = Addi((value \div Chunk) % Chunk)
            /\ u[7] = Slli(Chunk) /\ u[8] = Addi(value % Chunk)
        BY LongSequence
      <4> HIDE DEF u
      <4>2. s = u
        BY <3>1 DEF u
      <4> HIDE DEF s
      <4>3. QED
        BY <3>1, <4>1, <4>2 DEF Quarter, Middle
    <3>3. code = Append(s, Stop)
      BY <1>4 DEF Whole
    <3> HIDE DEF s, top
    <3>4. code[9] = Stop /\ \A i \in 1 .. 8 : code[i] = s[i]
      <4>1. (\E S : s \in Seq(S)) /\ Len(s) = 8
        BY <3>2
      <4>2. code[Len(s) + 1] = Stop /\ \A i \in 1 .. Len(s) : code[i] = s[i]
        BY <3>3, <4>1, CodeOf
      <4>3. QED
        BY <4>1, <4>2
    <3>5. /\ code[1] = s[1] /\ code[2] = s[2] /\ code[3] = s[3] /\ code[4] = s[4]
          /\ code[5] = s[5] /\ code[6] = s[6] /\ code[7] = s[7] /\ code[8] = s[8]
      BY <3>4
    <3>6. QED
      BY <3>2, <3>4, <3>5
  <2>2. pc \in 1 .. 8 /\ Modulus = Full
    BY <1>1, <1>4, <1>9, <2>1 DEF Long, Modulus
  <2>3. /\ Quarter \in Int64 /\ Middle \in Int64 /\ Top \in Int64
        /\ Quarter \div Chunk = Top /\ Middle \div Chunk = Quarter
    <3>1. 2 * Half \in Positive
      BY <1>5 DEF Positive
    <3>2. Quarter \in Int64 /\ Middle \in Int64 /\ Top \in Int64
      BY <1>4, <1>5, <1>9, <3>1, QuotientFits DEF Quarter, Middle, Top
    <3>3. Quarter \div Chunk = value \div ((Chunk * Chunk) * Chunk)
      BY <1>4, <1>5, DivDiv DEF Quarter
    <3>4. Middle \div Chunk = value \div (Chunk * Chunk)
      BY <1>4, <1>5, DivDiv DEF Middle
    <3>5. QED
      BY <1>5, <1>9, <3>2, <3>3, <3>4 DEF Top, Quarter
  <2>4. Signed(Top, Half) = Top
    BY <1>9, <1>4, TopFits DEF Top
  <2>5. CASE pc = 1
    <3>1. rd' = Signed(top.upper * Low, Half) /\ pc' = 2
      BY <1>1, <2>1, <2>5 DEF Executed, Lui
    <3>2. QED
      BY <1>1, <1>7, <1>9, <3>1 DEF Reached
  <2>6. CASE pc = 2
    <3>1. rd = Signed(top.upper * Low, Half) /\ pc' = 3
      BY <1>1, <1>4, <2>6 DEF Reached
    <3>2. rd' = Signed(Signed(rd, Half) + top.lower, Half)
      BY <1>1, <2>1, <2>6 DEF Executed, Addiw
    <3>3. rd' = Signed(Top, Half)
      BY <1>6, <3>1, <3>2, TwoInstructions
    <3>4. QED
      BY <1>1, <1>7, <1>9, <3>1, <3>3 DEF Reached
  <2>7. CASE pc \in {3, 5, 7}
    <3>1. rd' = Signed(rd * Chunk, Full) /\ pc' = pc + 1
      BY <1>1, <2>1, <2>2, <2>7 DEF Executed, Slli
    <3>2. CASE pc = 3
      <4>1. rd = Top
        BY <1>4, <1>9, <2>4, <3>2 DEF Reached
      <4>2. rd' = Chunk * Top
        BY <2>3, <3>1, <4>1, NextChunk
      <4>3. QED
        BY <1>7, <1>9, <2>3, <3>1, <3>2, <4>2 DEF Reached
    <3>3. CASE pc = 5
      <4>1. rd = Quarter
        BY <1>4, <3>3 DEF Reached
      <4>2. rd' = Chunk * Quarter
        BY <2>3, <3>1, <4>1, NextChunk
      <4>3. QED
        BY <1>7, <1>9, <2>3, <3>1, <3>3, <4>2 DEF Reached
    <3>4. CASE pc = 7
      <4>1. rd = Middle
        BY <1>4, <3>4 DEF Reached
      <4>2. rd' = Chunk * Middle
        BY <1>4, <2>3, <3>1, <4>1, NextChunk DEF Middle
      <4>3. QED
        BY <1>7, <1>9, <2>3, <3>1, <3>4, <4>2 DEF Reached
    <3>5. QED
      BY <2>7, <3>2, <3>3, <3>4
  <2>8. CASE pc = 4
    <3>1. rd = Chunk * Top /\ rd' = Signed(rd + (Quarter % Chunk), Full) /\ pc' = 5
      BY <1>1, <1>4, <2>1, <2>2, <2>3, <2>8 DEF Executed, Addi, Reached
    <3>2. rd' = Quarter
      BY <2>3, <3>1, NextChunk
    <3>3. QED
      BY <1>7, <1>9, <3>1, <3>2 DEF Reached
  <2>9. CASE pc = 6
    <3>1. rd = Chunk * Quarter /\ rd' = Signed(rd + (Middle % Chunk), Full) /\ pc' = 7
      BY <1>1, <1>4, <2>1, <2>2, <2>3, <2>9 DEF Executed, Addi, Reached
    <3>2. rd' = Middle
      BY <2>3, <3>1, NextChunk
    <3>3. QED
      BY <1>7, <1>9, <3>1, <3>2 DEF Reached
  <2>10. CASE pc = 8
    <3>1. rd = Chunk * Middle /\ rd' = Signed(rd + (value % Chunk), Full) /\ pc' = 9
      BY <1>1, <1>4, <2>1, <2>2, <2>10 DEF Executed, Addi, Reached
    <3>2. rd' = value
      BY <1>4, <2>3, <3>1, NextChunk DEF Middle
    <3>3. QED
      BY <1>1, <1>7, <1>9, <3>1, <3>2 DEF Reached
  <2>11. QED
    BY <2>2, <2>5, <2>6, <2>7, <2>8, <2>9, <2>10
<1>10. QED
  BY <1>8, <1>9

\* The sequence for the final value has the length of the draft's.
LEMMA PatchIInv == ImmediatesIInv /\ Patch => ImmediatesIInv'
<1> SUFFICES ASSUME ImmediatesIInv, Patch PROVE ImmediatesIInv'
  OBVIOUS
<1>1. /\ UNCHANGED <<xlen, loader>> /\ value' \in Int64 /\ pc' = 1 /\ patched' = TRUE
      /\ code' = Overwritten(code, Sequence(loader, value', xlen))
  BY DEF Patch
<1>2. ImmediatesTypeOK'
  BY <1>1 DEF ImmediatesIInv, ImmediatesTypeOK
<1>3. Patchable /\ Patchable' /\ patched'
  BY <1>1 DEF ImmediatesIInv, Patch, Patchable
<1>4. code' = Whole'
  <2> DEFINE s == Sequence(loader, value, xlen)
             t == Sequence(loader, value', xlen)
  <2>1. code = Append(s, Stop)
    BY <1>3 DEF ImmediatesIInv, Whole, Patchable
  <2>2. xlen \in {"X32", "X64"} /\ loader = "load_imm_fixed"
    BY <1>3 DEF ImmediatesIInv, ImmediatesTypeOK, Patchable
  <2>3. (\E S : s \in Seq(S)) /\ (\E T : t \in Seq(T)) /\ Len(s) = Len(t)
    <3>1. CASE xlen = "X64"
      BY <2>2, <3>1, LongSequence
    <3>2. CASE xlen = "X32"
      BY <2>2, <3>2, ShortSequence
    <3>3. QED
      BY <2>2, <3>1, <3>2
  <2>4. Whole' = Append(t, Stop)
    BY <1>1 DEF Whole
  <2> HIDE DEF s, t
  <2>5. Overwritten(Append(s, Stop), t) = Append(t, Stop)
    BY <2>3, Replaced
  <2>6. QED
    BY <1>1, <2>1, <2>4, <2>5 DEF t
<1>5. Reached'
  BY <1>1 DEF Reached
<1>6. QED
  BY <1>1, <1>2, <1>3, <1>4, <1>5 DEF ImmediatesIInv

LEMMA NextIInv == ImmediatesIInv /\ [ImmediatesNext]_immediatesVars => ImmediatesIInv'
<1> SUFFICES ASSUME ImmediatesIInv, [ImmediatesNext]_immediatesVars PROVE ImmediatesIInv'
  OBVIOUS
<1>1. CASE Step
  BY <1>1, StepIInv
<1>2. CASE Patch
  BY <1>2, PatchIInv
<1>3. CASE UNCHANGED immediatesVars
  BY <1>3 DEF immediatesVars, ImmediatesIInv, ImmediatesTypeOK, Patchable, Long, Top, Quarter,
              Middle, Reached, Whole, Modulus
<1>4. QED
  BY <1>1, <1>2, <1>3 DEF ImmediatesNext

LEMMA IInvLoads ==
    ImmediatesIInv => (loader # "load_imm" => LoadsTheValue)
<1> SUFFICES ASSUME ImmediatesIInv, loader # "load_imm" PROVE LoadsTheValue
  OBVIOUS
<1> DEFINE s == Sequence(loader, value, xlen)
           n == IF Long THEN 8 ELSE 2
<1>1. /\ value \in Int64 /\ xlen \in {"X32", "X64"} /\ pc \in 1 .. n + 1
      /\ loader \in {"load_imm32", "load_imm_fixed"} /\ code = Append(s, Stop)
      /\ ~ Patchable => value = Signed(value, Half)
      /\ Reached
  BY DEF ImmediatesIInv, ImmediatesTypeOK, Whole
<1>2. /\ \E S : s \in Seq(S)
      /\ Len(s) = n /\ \A i \in 1 .. n : s[i].op # "stop"
  <2>1. CASE Long
    <3>1. s = Sequence("load_imm_fixed", value, "X64") /\ n = 8
      BY <2>1 DEF Long, Patchable
    <3>2. /\ \E S : s \in Seq(S)
          /\ Len(s) = 8 /\ s[1].op # "stop" /\ s[2].op # "stop" /\ s[3].op # "stop"
          /\ s[4].op # "stop" /\ s[5].op # "stop" /\ s[6].op # "stop"
          /\ s[7].op # "stop" /\ s[8].op # "stop"
      <4> DEFINE u == Sequence("load_imm_fixed", value, "X64")
                 top == SplitImm32(value \div (2 * Half))
      <4>1. /\ \E S : u \in Seq(S)
            /\ Len(u) = 8 /\ u[1] = Lui(top.upper) /\ u[2] = Addiw(top.lower)
            /\ u[3] = Slli(Chunk) /\ u[4] = Addi((value \div (Chunk * Chunk)) % Chunk)
            /\ u[5] = Slli(Chunk) /\ u[6] = Addi((value \div Chunk) % Chunk)
            /\ u[7] = Slli(Chunk) /\ u[8] = Addi(value % Chunk)
        BY LongSequence
      <4>2. s = u
        BY <3>1
      <4> HIDE DEF s, u, top
      <4>3. QED
        BY <4>1, <4>2 DEF Lui, Addiw, Slli, Addi
    <3> HIDE DEF s, n
    <3>3. QED
      BY <3>1, <3>2
  <2>2. CASE ~ Long
    <3>1. n = 2
      BY <2>2
    <3>2. /\ \E S : s \in Seq(S)
          /\ Len(s) = 2 /\ s[1].op # "stop" /\ s[2].op # "stop"
      <4> DEFINE top == SplitImm32(value)
      <4>1. /\ \E S : s \in Seq(S)
            /\ Len(s) = 2 /\ s[1] = Lui(top.upper)
            /\ s[2] = IF xlen = "X32" THEN Addi(top.lower) ELSE Addiw(top.lower)
        BY <1>1, <2>2, ShortSequence DEF Long, Patchable
      <4> HIDE DEF s, top
      <4>2. QED
        BY <4>1 DEF Lui, Addiw, Addi
    <3> HIDE DEF s, n
    <3>3. QED
      BY <3>1, <3>2
  <2>3. QED
    BY <2>1, <2>2
<1>3. n \in Nat
  OBVIOUS
<1> HIDE DEF s
<1>4. DOMAIN code = 1 .. n + 1 /\ \A i \in 1 .. n : code[i] = s[i]
  <2> HIDE DEF n
  <2>1. QED
    BY <1>1, <1>2, CodeOf
<1>5. code[pc] = Stop => pc = n + 1
  <2> HIDE DEF n
  <2>1. QED
    BY <1>1, <1>2, <1>3, <1>4 DEF Stop
<1>6. ASSUME pc = n + 1
      PROVE  rd = Signed(value, Modulus)
  <2>1. CASE Long
    <3>1. rd = value /\ Modulus = Full
      BY <1>1, <1>6, <2>1 DEF Reached, Long, Modulus
    <3>2. Signed(value, Full) = value
      BY <1>1, Widths, SignedSame, HalfFull DEF Int64
    <3>3. QED
      BY <3>1, <3>2
  <2>2. CASE ~ Long
    BY <1>1, <1>6, <2>2 DEF Reached, Top
  <2>3. QED
    BY <2>1, <2>2
<1>7. QED
  BY <1>1, <1>4, <1>5, <1>6 DEF LoadsTheValue

\* Whatever the widths, the values and the constant a sequence was first
\* rendered with, load_imm32 and load_imm_fixed load the value they are given.
THEOREM FixedSequencesLoad ==
    ImmediatesSpec => [](loader # "load_imm" => LoadsTheValue)
<1>1. ImmediatesSpec => []ImmediatesIInv
  BY InitIInv, NextIInv, PTL DEF ImmediatesSpec
<1>2. QED
  BY <1>1, IInvLoads, PTL

--------------------------------------------------------------------------------
(* Bits.                                                                     *)

ParcelBits == 0 .. 15
ParcelValues == {n \in Nat : n <= 65535}

\* Is bit i of n a one?
Odd(n, i) == (n \div 2^i) % 2 = 1

LEMMA Above ==
  ASSUME NEW m \in Nat, NEW n \in Nat, n < m
  PROVE  n \div m = 0
  OBVIOUS

LEMMA BitsAreOdd ==
  ASSUME NEW n \in Nat, NEW i \in BitsOf(n)
  PROVE  i \in 0 .. 30 /\ Odd(n, i)
  BY DEF BitsOf, Odd

LEMMA BitsOfParcel ==
  ASSUME NEW n \in ParcelValues
  PROVE  BitsOf(n) \subseteq ParcelBits
<1>0. n \in Nat /\ n <= 65535
  BY DEF ParcelValues
<1>1. /\ n \div 65536 = 0 /\ n \div 131072 = 0 /\ n \div 262144 = 0
      /\ n \div 524288 = 0 /\ n \div 1048576 = 0 /\ n \div 2097152 = 0
      /\ n \div 4194304 = 0 /\ n \div 8388608 = 0 /\ n \div 16777216 = 0
      /\ n \div 33554432 = 0 /\ n \div 67108864 = 0 /\ n \div 134217728 = 0
      /\ n \div 268435456 = 0 /\ n \div 536870912 = 0
      /\ n \div 1073741824 = 0
  BY <1>0, Above
<1>2. /\ ~Odd(n, 16) /\ ~Odd(n, 17) /\ ~Odd(n, 18) /\ ~Odd(n, 19)
      /\ ~Odd(n, 20) /\ ~Odd(n, 21) /\ ~Odd(n, 22) /\ ~Odd(n, 23)
      /\ ~Odd(n, 24) /\ ~Odd(n, 25) /\ ~Odd(n, 26) /\ ~Odd(n, 27)
      /\ ~Odd(n, 28) /\ ~Odd(n, 29) /\ ~Odd(n, 30)
  BY <1>1 DEF Odd
<1>3. ASSUME NEW i \in BitsOf(n)
      PROVE  i \in ParcelBits
  <2>1. i \in 0 .. 30 /\ Odd(n, i)
    BY <1>0, BitsAreOdd
  <2>2. \/ i = 16 \/ i = 17 \/ i = 18 \/ i = 19 \/ i = 20 \/ i = 21 \/ i = 22
        \/ i = 23 \/ i = 24 \/ i = 25 \/ i = 26 \/ i = 27 \/ i = 28 \/ i = 29
        \/ i = 30
        \/ i \in ParcelBits
    BY <2>1 DEF ParcelBits
  <2>3. QED
    BY <1>2, <2>1, <2>2
<1>4. QED
  BY <1>3

\* The number of a register has five bits.
LEMMA BitsOfRegister ==
  ASSUME NEW r \in 0 .. 31
  PROVE  BitsOf(r) \subseteq 0 .. 4
<1>1. /\ r \div 32 = 0 /\ r \div 64 = 0 /\ r \div 128 = 0 /\ r \div 256 = 0
      /\ r \div 512 = 0 /\ r \div 1024 = 0 /\ r \div 2048 = 0
      /\ r \div 4096 = 0 /\ r \div 8192 = 0 /\ r \div 16384 = 0
      /\ r \div 32768 = 0
  BY Above
<1>2. /\ ~Odd(r, 5) /\ ~Odd(r, 6) /\ ~Odd(r, 7) /\ ~Odd(r, 8) /\ ~Odd(r, 9)
      /\ ~Odd(r, 10) /\ ~Odd(r, 11) /\ ~Odd(r, 12) /\ ~Odd(r, 13)
      /\ ~Odd(r, 14) /\ ~Odd(r, 15)
  BY <1>1 DEF Odd
<1>3. ASSUME NEW i \in BitsOf(r)
      PROVE  i \in 0 .. 4
  <2>1. r \in Nat /\ BitsOf(r) \subseteq ParcelBits
    <3>1. r \in Nat /\ r \in ParcelValues
      BY DEF ParcelValues
    <3>2. QED
      BY <3>1, BitsOfParcel
  <2>2. i \in 0 .. 15 /\ Odd(r, i)
    BY <2>1, BitsAreOdd DEF ParcelBits
  <2>3. \/ i = 5 \/ i = 6 \/ i = 7 \/ i = 8 \/ i = 9 \/ i = 10 \/ i = 11
        \/ i = 12 \/ i = 13 \/ i = 14 \/ i = 15
        \/ i \in 0 .. 4
    BY <2>2
  <2>4. QED
    BY <1>2, <2>2, <2>3
<1>4. QED
  BY <1>3

\* Bits moved by at most so much are in a parcel.
LEMMA RunInParcel ==
  ASSUME NEW word, NEW hi \in Int, NEW lo \in Int, NEW n \in Int, hi + n <= 15
  PROVE  Run(word, hi, lo, n) \subseteq ParcelBits
  BY DEF Run, ParcelBits

LEMMA RegisterInParcel ==
  ASSUME NEW r \in 0 .. 31, NEW lo \in 0 .. 11
  PROVE  At(r, lo) \subseteq ParcelBits
<1>1. BitsOf(r) \subseteq 0 .. 4
  BY BitsOfRegister
<1> DEFINE b == BitsOf(r)
<1>2. At(r, lo) = Run(b, 31, 0, lo)
  BY DEF At
<1> HIDE DEF b
<1>3. QED
  BY <1>1, <1>2 DEF Run, ParcelBits, b

LEMMA CompactInParcel ==
  ASSUME NEW r \in 8 .. 15, NEW lo \in 0 .. 11
  PROVE  At(r - 8, lo) \subseteq ParcelBits
  BY RegisterInParcel

--------------------------------------------------------------------------------
(* The catalog.                                                              *)

CompressedNames ==
    {"CMv", "CAdd", "CJr", "CJalr", "CAnd", "COr", "CXor", "CSub", "CAddw", "CSubw",
     "CLui", "CAddi", "CLi", "CAddiw", "CSlli", "CLwsp", "CLdsp", "CAndi", "CSrli",
     "CSrai", "CBeqz", "CBnez", "CJal", "CJ", "CSwsp", "CSdsp", "CLw", "CLd", "CSw",
     "CSd", "CAddi16sp", "CAddi4spn", "CEbreak"}

\* The names in each table of the catalog.
LEMMA OpcodeTables ==
  /\ DOMAIN UType = {"Lui", "Auipc"} /\ DOMAIN JType = {"Jal"} /\ DOMAIN JalrType = {"Jalr"}
  /\ DOMAIN BType = {"Beq", "Bne", "Blt", "Bge", "Bltu", "Bgeu"}
  /\ DOMAIN LoadType = {"Lb", "Lh", "Lw", "Lbu", "Lhu", "Lwu", "Ld"}
  /\ DOMAIN StoreType = {"Sb", "Sh", "Sw", "Sd"}
  BY DEF UType, JType, JalrType, BType, LoadType, StoreType

LEMMA ArithmeticTables ==
  /\ DOMAIN ImmType = {"Addi", "Slti", "Sltiu", "Xori", "Ori", "Andi", "Addiw"}
  /\ DOMAIN ShiftType = {"Slli", "Srli", "Srai"}
  /\ DOMAIN ShiftWType = {"Slliw", "Srliw", "Sraiw"}
  /\ DOMAIN OpType = {"Add", "Sub", "Sll", "Slt", "Sltu", "Xor", "Srl", "Sra", "Or", "And"}
  /\ DOMAIN OpWType = {"Addw", "Subw", "Sllw", "Srlw", "Sraw"}
  /\ DOMAIN MulType = {"Mul", "Mulh", "Mulhsu", "Mulhu", "Div", "Divu", "Rem", "Remu"}
  /\ DOMAIN MulWType = {"Mulw", "Divw", "Divuw", "Remw", "Remuw"}
  BY DEF ImmType, ShiftType, ShiftWType, OpType, OpWType, MulType, MulWType

LEMMA AmoTables ==
  /\ DOMAIN AmoType = {"LrW", "ScW", "AmoswapW", "AmoaddW", "AmoandW", "AmoorW", "AmoxorW",
                       "AmomaxW", "AmomaxuW", "AmominW", "AmominuW"}
  /\ DOMAIN AmoDType = {"LrD", "ScD", "AmoswapD", "AmoaddD", "AmoandD", "AmoorD", "AmoxorD",
                       "AmomaxD", "AmomaxuD", "AmominD", "AmominuD"}
  BY DEF AmoType, AmoDType

LEMMA SystemTables ==
  /\ DOMAIN PlainType = {"Ecall", "Ebreak", "FenceI", "Sret", "Mret", "Wfi", "SfenceWInval",
                         "SfenceInvalIr"}
  /\ DOMAIN VmaType = {"SfenceVma", "SinvalVma"} /\ DOMAIN FenceType = {"Fence"}
  /\ DOMAIN FloatLoadType = {"Flw", "Fld"} /\ DOMAIN FloatStoreType = {"Fsw", "Fsd"}
  /\ DOMAIN CsrType = {"Csrrw", "Csrrs", "Csrrc"}
  /\ DOMAIN CsrImmType = {"Csrrwi", "Csrrsi", "Csrrci"}
  BY DEF PlainType, VmaType, FloatLoadType, FloatStoreType, FenceType, CsrType, CsrImmType

LEMMA FloatTables ==
  /\ DOMAIN FloatTernaryType = {"FmaddS", "FmsubS", "FnmsubS", "FnmaddS", "FmaddD", "FmsubD",
                                "FnmsubD", "FnmaddD"}
  /\ DOMAIN FloatBinaryType = {"FaddS", "FsubS", "FmulS", "FdivS", "FaddD", "FsubD", "FmulD",
                               "FdivD"}
  /\ DOMAIN FloatUnaryType = {"FsqrtS", "FsqrtD", "FcvtSD", "FcvtDS"}
  /\ DOMAIN FloatSelectType = {"FsgnjS", "FsgnjnS", "FsgnjxS", "FminS", "FmaxS", "FsgnjD",
                               "FsgnjnD", "FsgnjxD", "FminD", "FmaxD"}
  /\ DOMAIN FloatCompareType = {"FeqS", "FltS", "FleS", "FeqD", "FltD", "FleD"}
  /\ DOMAIN FloatToIntType = {"FcvtWS", "FcvtWuS", "FcvtLS", "FcvtLuS", "FcvtWD", "FcvtWuD",
                              "FcvtLD", "FcvtLuD"}
  /\ DOMAIN IntToFloatType = {"FcvtSW", "FcvtSWu", "FcvtSL", "FcvtSLu", "FcvtDW", "FcvtDWu",
                              "FcvtDL", "FcvtDLu"}
  /\ DOMAIN FloatToBitsType = {"FmvXW", "FclassS", "FclassD", "FmvXD"}
  /\ DOMAIN BitsToFloatType = {"FmvWX", "FmvDX"}
  BY DEF FloatTernaryType, FloatBinaryType, FloatUnaryType, FloatSelectType,
         FloatCompareType, FloatToIntType, IntToFloatType, FloatToBitsType, BitsToFloatType

LEMMA CompressedTables ==
  /\ DOMAIN CRType = {"CMv", "CAdd"} /\ DOMAIN CJrType = {"CJr", "CJalr"}
  /\ DOMAIN CAType = {"CAnd", "COr", "CXor", "CSub", "CAddw", "CSubw"}
  /\ DOMAIN CIType = {"CLui", "CAddi", "CLi", "CAddiw"} /\ DOMAIN CShiftType = {"CSlli"}
  /\ DOMAIN CSpType = {"CLwsp", "CLdsp"} /\ DOMAIN CBAluType = {"CAndi"}
  /\ DOMAIN CBShiftType = {"CSrli", "CSrai"} /\ DOMAIN CBType = {"CBeqz", "CBnez"}
  /\ DOMAIN CJType = {"CJal", "CJ"} /\ DOMAIN CSSType = {"CSwsp", "CSdsp"}
  /\ DOMAIN CLType = {"CLw", "CLd"} /\ DOMAIN CSType = {"CSw", "CSd"}
  BY DEF CRType, CJrType, CAType, CIType, CShiftType, CSpType, CBAluType, CBShiftType,
         CBType, CJType, CSSType, CLType, CSType

LEMMA CompressedIs == Compressed = CompressedNames
  BY CompressedTables DEF Compressed, Names, CompressedNames

\* The fixed bits of a compressed instruction are sixteen.
LEMMA CompressedBits ==
  /\ \A op \in DOMAIN CRType : CRType[op] \in ParcelValues
  /\ \A op \in DOMAIN CJrType : CJrType[op] \in ParcelValues
  /\ \A op \in DOMAIN CAType : CAType[op] \in ParcelValues
  /\ \A op \in DOMAIN CIType : CIType[op] \in ParcelValues
  /\ \A op \in DOMAIN CShiftType : CShiftType[op] \in ParcelValues
  /\ \A op \in DOMAIN CSpType : CSpType[op] \in ParcelValues
  /\ \A op \in DOMAIN CBAluType : CBAluType[op] \in ParcelValues
  /\ \A op \in DOMAIN CBShiftType : CBShiftType[op] \in ParcelValues
  /\ \A op \in DOMAIN CBType : CBType[op] \in ParcelValues
  /\ \A op \in DOMAIN CJType : CJType[op] \in ParcelValues
  /\ \A op \in DOMAIN CSSType : CSSType[op] \in ParcelValues
  /\ \A op \in DOMAIN CLType : CLType[op] \in ParcelValues
  /\ \A op \in DOMAIN CSType : CSType[op] \in ParcelValues
<1>1. \A op \in DOMAIN CRType : CRType[op] \in ParcelValues
  BY DEF CRType, ParcelValues
<1>2. \A op \in DOMAIN CJrType : CJrType[op] \in ParcelValues
  BY DEF CJrType, ParcelValues
<1>3. \A op \in DOMAIN CAType : CAType[op] \in ParcelValues
  BY DEF CAType, ParcelValues
<1>4. \A op \in DOMAIN CIType : CIType[op] \in ParcelValues
  BY DEF CIType, ParcelValues
<1>5. \A op \in DOMAIN CShiftType : CShiftType[op] \in ParcelValues
  BY DEF CShiftType, ParcelValues
<1>6. \A op \in DOMAIN CSpType : CSpType[op] \in ParcelValues
  BY DEF CSpType, ParcelValues
<1>7. \A op \in DOMAIN CBAluType : CBAluType[op] \in ParcelValues
  BY DEF CBAluType, ParcelValues
<1>8. \A op \in DOMAIN CBShiftType : CBShiftType[op] \in ParcelValues
  BY DEF CBShiftType, ParcelValues
<1>9. \A op \in DOMAIN CBType : CBType[op] \in ParcelValues
  BY DEF CBType, ParcelValues
<1>10. \A op \in DOMAIN CJType : CJType[op] \in ParcelValues
  BY DEF CJType, ParcelValues
<1>11. \A op \in DOMAIN CSSType : CSSType[op] \in ParcelValues
  BY DEF CSSType, ParcelValues
<1>12. \A op \in DOMAIN CLType : CLType[op] \in ParcelValues
  BY DEF CLType, ParcelValues
<1>13. \A op \in DOMAIN CSType : CSType[op] \in ParcelValues
  BY DEF CSType, ParcelValues
<1>14. QED
  BY <1>1, <1>2, <1>3, <1>4, <1>5, <1>6, <1>7, <1>8, <1>9, <1>10, <1>11, <1>12, <1>13

\* No other format has one of their names.
NoOtherFormat(op) ==
    /\ op \notin DOMAIN UType /\ op \notin DOMAIN JType /\ op \notin DOMAIN BType
    /\ op \notin DOMAIN JalrType /\ op \notin DOMAIN LoadType
    /\ op \notin DOMAIN FloatLoadType /\ op \notin DOMAIN ImmType
    /\ op \notin DOMAIN ShiftType /\ op \notin DOMAIN ShiftWType
    /\ op \notin DOMAIN StoreType /\ op \notin DOMAIN FloatStoreType
    /\ op \notin DOMAIN OpType /\ op \notin DOMAIN OpWType
    /\ op \notin DOMAIN MulType /\ op \notin DOMAIN MulWType
    /\ op \notin DOMAIN AmoType /\ op \notin DOMAIN AmoDType
    /\ op \notin DOMAIN FloatTernaryType /\ op \notin DOMAIN FloatBinaryType
    /\ op \notin DOMAIN FloatUnaryType /\ op \notin DOMAIN FloatSelectType
    /\ op \notin DOMAIN FloatCompareType /\ op \notin DOMAIN FloatToIntType
    /\ op \notin DOMAIN IntToFloatType /\ op \notin DOMAIN FloatToBitsType
    /\ op \notin DOMAIN BitsToFloatType /\ op \notin DOMAIN CsrType
    /\ op \notin DOMAIN CsrImmType /\ op \notin DOMAIN FenceType
    /\ op \notin DOMAIN VmaType /\ op \notin DOMAIN PlainType

LEMMA OtherFormats ==
  ASSUME NEW op \in CompressedNames
  PROVE  NoOtherFormat(op)
  BY OpcodeTables, ArithmeticTables, AmoTables, SystemTables, FloatTables
     DEF NoOtherFormat, CompressedNames

LEMMA PackedCompressed ==
  ASSUME NEW x, x.op \in CompressedNames
  PROVE  Packed(x) = PackedC(x, BitsOf(x.imm))
<1> DEFINE op == x.op
<1>1. NoOtherFormat(op)
  BY OtherFormats
<1>2. op \notin DOMAIN IForm /\ op \notin DOMAIN SForm
  BY <1>1 DEF NoOtherFormat, IForm, SForm, Joined, Names
<1>3. op \notin DOMAIN RForm /\ op \notin DOMAIN AmoForm
  BY <1>1 DEF NoOtherFormat, RForm, AmoForm, Joined, Names
<1>4. op \notin DOMAIN FloatForm
  BY <1>1 DEF NoOtherFormat, FloatForm, FloatTypes, Joined, Names
<1>5. op \notin DOMAIN UType /\ op \notin DOMAIN JType /\ op \notin DOMAIN BType
  BY <1>1 DEF NoOtherFormat
<1>6. op \in Compressed
  BY CompressedIs
<1>7. QED
  BY <1>2, <1>3, <1>4, <1>5, <1>6 DEF Packed

--------------------------------------------------------------------------------
(* Compressed instructions have sixteen bits.                                *)

LEMMA PackCRFits ==
  ASSUME NEW base \in ParcelValues, NEW d \in 0 .. 31, NEW rs2 \in 0 .. 31
  PROVE  PackCR(base, d, rs2) \subseteq ParcelBits
  BY BitsOfParcel, RegisterInParcel DEF PackCR

LEMMA PackCIFits ==
  ASSUME NEW base \in ParcelValues, NEW d \in 0 .. 31, NEW imm
  PROVE  PackCI(base, d, imm) \subseteq ParcelBits
  BY BitsOfParcel, RegisterInParcel, RunInParcel DEF PackCI

LEMMA PackCSSFits ==
  ASSUME NEW base \in ParcelValues, NEW rs2 \in 0 .. 31, NEW imm \in SUBSET (0 .. 8)
  PROVE  PackCSS(base, rs2, imm) \subseteq ParcelBits
<1>1. Run(imm, 31, 0, 7) \subseteq ParcelBits
  BY DEF Run, ParcelBits
<1>2. QED
  BY <1>1, BitsOfParcel, RegisterInParcel DEF PackCSS

LEMMA PackCLFits ==
  ASSUME NEW base \in ParcelValues, NEW d \in 8 .. 15, NEW rs1 \in 8 .. 15, NEW imm
  PROVE  PackCL(base, d, rs1, imm) \subseteq ParcelBits
  BY BitsOfParcel, CompactInParcel, RunInParcel DEF PackCL

LEMMA PackCIWFits ==
  ASSUME NEW d \in 8 .. 15, NEW imm
  PROVE  PackCIW(d, imm) \subseteq ParcelBits
  BY CompactInParcel, RunInParcel DEF PackCIW

LEMMA PackCBFits ==
  ASSUME NEW base \in ParcelValues, NEW rs1 \in 8 .. 15, NEW imm
  PROVE  PackCB(base, rs1, imm) \subseteq ParcelBits
<1>1. /\ Run(imm, 8, 8, 4) \subseteq ParcelBits /\ Run(imm, 4, 3, 7) \subseteq ParcelBits
      /\ Run(imm, 7, 6, -1) \subseteq ParcelBits /\ Run(imm, 2, 1, 2) \subseteq ParcelBits
      /\ Run(imm, 5, 5, -3) \subseteq ParcelBits
  BY RunInParcel
<1>2. BitsOf(base) \subseteq ParcelBits /\ At(rs1 - 8, 7) \subseteq ParcelBits
  BY BitsOfParcel, CompactInParcel
<1>3. QED
  BY <1>1, <1>2 DEF PackCB

LEMMA PackCJFits ==
  ASSUME NEW base \in ParcelValues, NEW imm
  PROVE  PackCJ(base, imm) \subseteq ParcelBits
<1>1. /\ Run(imm, 11, 11, 1) \subseteq ParcelBits /\ Run(imm, 4, 4, 7) \subseteq ParcelBits
      /\ Run(imm, 9, 8, 1) \subseteq ParcelBits /\ Run(imm, 10, 10, -2) \subseteq ParcelBits
      /\ Run(imm, 6, 6, 1) \subseteq ParcelBits /\ Run(imm, 7, 7, -1) \subseteq ParcelBits
      /\ Run(imm, 3, 1, 2) \subseteq ParcelBits /\ Run(imm, 5, 5, -3) \subseteq ParcelBits
  BY RunInParcel
<1>2. QED
  BY <1>1, BitsOfParcel DEF PackCJ

\* The scaled offsets from the stack pointer.
LEMMA StackOffsets ==
  ASSUME NEW imm
  PROVE  WordSpImm(imm) \in SUBSET (0 .. 8) /\ DoubleSpImm(imm) \in SUBSET (0 .. 8)
  BY DEF WordSpImm, DoubleSpImm, Run

\* Registers are five-bit numbers; those a compact format has are among its eight.
Registers(x) == x.rd \in 0 .. 31 /\ x.rs1 \in 0 .. 31 /\ x.rs2 \in 0 .. 31

CompactFields ==
    [op \in Compact |->
        CASE op \in DOMAIN CAType -> {"rd", "rs2"}
          [] op \in DOMAIN CLType -> {"rd", "rs1"}
          [] op \in DOMAIN CSType -> {"rs1", "rs2"}
          [] op = "CAddi4spn" -> {"rd"}
          [] OTHER -> {"rs1"}]

LEMMA CompactIs ==
  /\ Compact = {"CAnd", "COr", "CXor", "CSub", "CAddw", "CSubw", "CAndi", "CSrli", "CSrai",
                "CBeqz", "CBnez", "CLw", "CLd", "CSw", "CSd", "CAddi4spn"}
  /\ Compact \subseteq CompressedNames
  BY CompressedTables DEF Compact, Names, CompressedNames

LEMMA CompressedAreOpcodes == CompressedNames \subseteq Opcodes
<1>1. OfExtension["C"] = CompressedNames /\ "C" \in DOMAIN OfExtension
  BY CompressedIs DEF OfExtension
<1>2. QED
  BY <1>1 DEF Opcodes

LEMMA FieldsOfCompact ==
  ASSUME NEW op \in Compact
  PROVE  CompactFields[op] = RegisterFields[op] \ OtherFields[op]
<1>1. op \in CompressedNames /\ op \in Opcodes /\ NoOtherFormat(op)
  BY CompactIs, CompressedAreOpcodes, OtherFormats
<1>2. OtherFields[op] = {}
  BY <1>1 DEF OtherFields, NoOtherFormat, Names
<1>3. RegisterFields[op] = CompactFields[op]
  <2>1. CASE op \in DOMAIN CAType
    BY <1>1, <2>1, CompactIs, CompressedTables
    DEF RegisterFields, CompactFields, NoOtherFormat, Names
  <2>2. CASE op \in DOMAIN CLType
    BY <1>1, <2>2, CompactIs, CompressedTables
    DEF RegisterFields, CompactFields, NoOtherFormat, Names
  <2>3. CASE op \in DOMAIN CSType
    BY <1>1, <2>3, CompactIs, CompressedTables
    DEF RegisterFields, CompactFields, NoOtherFormat, Names
  <2>4. CASE op = "CAddi4spn"
    BY <1>1, <2>4, CompactIs, CompressedTables
    DEF RegisterFields, CompactFields, NoOtherFormat, Names
  <2>5. CASE op \in DOMAIN CBAluType \cup DOMAIN CBShiftType \cup DOMAIN CBType
    BY <1>1, <2>5, CompactIs, CompressedTables
    DEF RegisterFields, CompactFields, NoOtherFormat, Names
  <2>6. QED
    BY <2>1, <2>2, <2>3, <2>4, <2>5, CompactIs, CompressedTables
<1>4. QED
  BY <1>2, <1>3

LEMMA CompactRegisters ==
  ASSUME NEW x, NEW width, Valid(x, width), x.op \in Compact, NEW f \in CompactFields[x.op]
  PROVE  x[f] \in 8 .. 15
<1>1. f \in RegisterFields[x.op] \ OtherFields[x.op]
  BY FieldsOfCompact
<1>2. ValidRegister(x.op, x[f])
  BY <1>1 DEF Valid
<1>3. QED
  BY <1>2 DEF ValidRegister

LEMMA CompressedFits ==
  ASSUME NEW x, NEW width, Valid(x, width), Registers(x), x.op \in Compressed
  PROVE  Packed(x) \subseteq ParcelBits
<1> DEFINE op == x.op
           imm == BitsOf(x.imm)
<1>1. op \in CompressedNames
  BY CompressedIs
<1>2. Packed(x) = PackedC(x, imm)
  BY <1>1, PackedCompressed
<1>3. x.rd \in 0 .. 31 /\ x.rs1 \in 0 .. 31 /\ x.rs2 \in 0 .. 31
  BY DEF Registers
<1> HIDE DEF imm
<1> USE CompressedTables
<1>4. CASE op \in DOMAIN CRType
  <2>1. PackedC(x, imm) = PackCR(CRType[op], x.rd, x.rs2)
    BY <1>4 DEF PackedC
  <2>2. CRType[op] \in ParcelValues
    BY <1>4, CompressedBits
  <2>3. PackCR(CRType[op], x.rd, x.rs2) \subseteq ParcelBits
    BY <1>3, <2>2, PackCRFits
  <2>4. QED
    BY <1>2, <2>1, <2>3
<1>5. CASE op \in DOMAIN CJrType
  <2>1. PackedC(x, imm) = PackCR(CJrType[op], x.rs1, 0)
    BY <1>5 DEF PackedC
  <2>2. CJrType[op] \in ParcelValues
    BY <1>5, CompressedBits
  <2>3. PackCR(CJrType[op], x.rs1, 0) \subseteq ParcelBits
    BY <1>3, <2>2, PackCRFits
  <2>4. QED
    BY <1>2, <2>1, <2>3
<1>6. CASE op \in DOMAIN CAType
  <2>1. op \in Compact /\ CompactFields[op] = {"rd", "rs2"}
    BY <1>6, CompactIs DEF CompactFields
  <2>2. x.rd \in 8 .. 15 /\ x.rs2 \in 8 .. 15
    BY <2>1, CompactRegisters
  <2>3. PackedC(x, imm) = PackCR(CAType[op], x.rd - 8, x.rs2 - 8)
    BY <1>6 DEF PackedC
  <2>4. x.rd - 8 \in 0 .. 31 /\ x.rs2 - 8 \in 0 .. 31
    BY <2>2
  <2>5. CAType[op] \in ParcelValues
    BY <1>6, CompressedBits
  <2>6. PackCR(CAType[op], x.rd - 8, x.rs2 - 8) \subseteq ParcelBits
    BY <2>4, <2>5, PackCRFits
  <2>7. QED
    BY <1>2, <2>3, <2>6
<1>7. CASE op \in DOMAIN CIType
  <2>1. PackedC(x, imm) = PackCI(CIType[op], x.rd, imm)
    BY <1>7 DEF PackedC
  <2>2. QED
    BY <1>2, <1>3, <1>7, <2>1, CompressedBits, PackCIFits
<1>8. CASE op \in DOMAIN CShiftType
  <2>1. PackedC(x, imm) = PackCI(CShiftType[op], x.rd, imm)
    BY <1>8 DEF PackedC
  <2>2. QED
    BY <1>2, <1>3, <1>8, <2>1, CompressedBits, PackCIFits
<1>9. CASE op = "CAddi16sp"
  <2>1. PackedC(x, imm) = PackCI(\h6001, 2, Addi16spImm(imm))
    BY <1>9 DEF PackedC
  <2>2. \h6001 \in ParcelValues /\ 2 \in 0 .. 31
    BY DEF ParcelValues
  <2>3. QED
    BY <1>2, <2>1, <2>2, PackCIFits
<1>10. CASE op \in DOMAIN CSpType
  <2>1. PackedC(x, imm) \in {PackCI(CSpType[op], x.rd, WordSpImm(imm)),
                             PackCI(CSpType[op], x.rd, DoubleSpImm(imm))}
    BY <1>10 DEF PackedC
  <2>2. QED
    BY <1>2, <1>3, <1>10, <2>1, CompressedBits, PackCIFits
<1>11. CASE op \in DOMAIN CBAluType \cup DOMAIN CBShiftType \cup DOMAIN CBType
  <2>1. op \in Compact /\ CompactFields[op] = {"rs1"}
    BY <1>11, CompactIs DEF CompactFields
  <2>2. x.rs1 \in 8 .. 15
    BY <2>1, CompactRegisters
  <2>3. x.rs1 - 8 \in 0 .. 31
    BY <2>2
  <2>4. CASE op \in DOMAIN CBAluType
    <3>1. PackedC(x, imm) = PackCI(CBAluType[op], x.rs1 - 8, imm)
      BY <2>4 DEF PackedC
    <3>2. QED
      BY <1>2, <2>3, <2>4, <3>1, CompressedBits, PackCIFits
  <2>5. CASE op \in DOMAIN CBShiftType
    <3>1. PackedC(x, imm) = PackCI(CBShiftType[op], x.rs1 - 8, imm)
      BY <2>5 DEF PackedC
    <3>2. QED
      BY <1>2, <2>3, <2>5, <3>1, CompressedBits, PackCIFits
  <2>6. CASE op \in DOMAIN CBType
    <3>1. PackedC(x, imm) = PackCB(CBType[op], x.rs1, imm)
      BY <2>6 DEF PackedC
    <3>2. QED
      BY <1>2, <2>2, <2>6, <3>1, CompressedBits, PackCBFits
  <2>7. QED
    BY <1>11, <2>4, <2>5, <2>6
<1>12. CASE op \in DOMAIN CJType
  <2>1. PackedC(x, imm) = PackCJ(CJType[op], imm)
    BY <1>12 DEF PackedC
  <2>2. QED
    BY <1>2, <1>12, <2>1, CompressedBits, PackCJFits
<1>13. CASE op \in DOMAIN CSSType
  <2>1. PackedC(x, imm) \in {PackCSS(CSSType[op], x.rs2, WordSpImm(imm)),
                             PackCSS(CSSType[op], x.rs2, DoubleSpImm(imm))}
    BY <1>13 DEF PackedC
  <2>2. QED
    BY <1>2, <1>3, <1>13, <2>1, CompressedBits, StackOffsets, PackCSSFits
<1>14. CASE op \in DOMAIN CLType
  <2>1. op \in Compact /\ CompactFields[op] = {"rd", "rs1"}
    BY <1>14, CompactIs DEF CompactFields
  <2>2. x.rd \in 8 .. 15 /\ x.rs1 \in 8 .. 15
    BY <2>1, CompactRegisters
  <2>3. PackedC(x, imm) \in {PackCL(CLType[op], x.rd, x.rs1, WordImm(imm)),
                             PackCL(CLType[op], x.rd, x.rs1, DoubleImm(imm))}
    BY <1>14 DEF PackedC
  <2>4. QED
    BY <1>2, <1>14, <2>2, <2>3, CompressedBits, PackCLFits
<1>15. CASE op \in DOMAIN CSType
  <2>1. op \in Compact /\ CompactFields[op] = {"rs1", "rs2"}
    BY <1>15, CompactIs DEF CompactFields
  <2>2. x.rs2 \in 8 .. 15 /\ x.rs1 \in 8 .. 15
    BY <2>1, CompactRegisters
  <2>3. PackedC(x, imm) \in {PackCL(CSType[op], x.rs2, x.rs1, WordImm(imm)),
                             PackCL(CSType[op], x.rs2, x.rs1, DoubleImm(imm))}
    BY <1>15 DEF PackedC
  <2>4. QED
    BY <1>2, <1>15, <2>2, <2>3, CompressedBits, PackCLFits
<1>16. CASE op = "CAddi4spn"
  <2>1. op \in Compact /\ CompactFields[op] = {"rd"}
    BY <1>16, CompactIs DEF CompactFields
  <2>2. x.rd \in 8 .. 15
    BY <2>1, CompactRegisters
  <2>3. PackedC(x, imm) = PackCIW(x.rd, imm)
    BY <1>16 DEF PackedC
  <2>4. QED
    BY <1>2, <2>2, <2>3, PackCIWFits
<1>17. CASE op = "CEbreak"
  <2>1. PackedC(x, imm) = BitsOf(\h9002)
    BY <1>17 DEF PackedC
  <2>2. \h9002 \in ParcelValues
    BY DEF ParcelValues
  <2>3. QED
    BY <1>2, <2>1, <2>2, BitsOfParcel
<1>18. QED
  BY <1>1, <1>4, <1>5, <1>6, <1>7, <1>8, <1>9, <1>10, <1>11, <1>12, <1>13, <1>14, <1>15,
     <1>16, <1>17 DEF CompressedNames

--------------------------------------------------------------------------------
(* What is drawn passes the checks.                                          *)

\* A range of multiples with its first one among them.
Sound(b) ==
    /\ b.min \in Int /\ b.max \in Int /\ b.alignment \in Nat \ {0}
    /\ b.min % b.alignment = 0
    /\ b.min \div b.alignment <= b.max \div b.alignment

LEMMA BoundsAre ==
  ASSUME NEW op \in Opcodes, NEW width \in {32, 64}
  PROVE  Sound(Bounds(op, width))
<1>1. Sound(Limits(1, width - 1, 1))
  BY SMT DEF Sound, Limits
<1>2. Sound(Limits(0, 31, 1))
  BY SMT DEF Sound, Limits
<1>3. Sound(Limits(0, width - 1, 1))
  BY SMT DEF Sound, Limits
<1>4. Sound(Limits(-524288, 1048575, 1))
  BY SMT DEF Sound, Limits
<1>5. Sound(Limits(-32, 31, 1))
  BY SMT DEF Sound, Limits
<1>6. Sound(Limits(-2048, 2047, 1))
  BY SMT DEF Sound, Limits
<1>7. Sound(Limits(-1048576, 1048574, 2))
  BY SMT DEF Sound, Limits
<1>8. Sound(Limits(-4096, 4094, 2))
  BY SMT DEF Sound, Limits
<1>9. Sound(Limits(-2048, 2046, 2))
  BY SMT DEF Sound, Limits
<1>10. Sound(Limits(-256, 254, 2))
  BY SMT DEF Sound, Limits
<1>11. Sound(Limits(-512, 496, 16))
  BY SMT DEF Sound, Limits
<1>12. Sound(Limits(4, 1020, 4))
  BY SMT DEF Sound, Limits
<1>13. Sound(Limits(0, 252, 4))
  BY SMT DEF Sound, Limits
<1>14. Sound(Limits(0, 124, 4))
  BY SMT DEF Sound, Limits
<1>15. Sound(Limits(0, 504, 8))
  BY SMT DEF Sound, Limits
<1>16. Sound(Limits(0, 248, 8))
  BY SMT DEF Sound, Limits
<1>17. QED
  BY <1>1, <1>2, <1>3, <1>4, <1>5, <1>6, <1>7, <1>8, <1>9, <1>10, <1>11, <1>12, <1>13,
     <1>14, <1>15, <1>16, SMTT(30) DEF Bounds

LEMMA DrawnImmediate ==
  ASSUME NEW op \in Opcodes, NEW t, t.xlen \in {32, 64}, NEW imm \in SampledImmediates(op, t)
  PROVE  ValidImmediate(op, t.xlen, imm)
<1> DEFINE b == Bounds(op, t.xlen)
           quotients == b.min \div b.alignment .. b.max \div b.alignment
           drawn == (GivenImmediates \cap quotients)
                    \cup {b.min \div b.alignment, b.max \div b.alignment}
<1>1. CASE ImmKind[op] \in {"i32", "shift"}
  <2>1. imm \in {q * b.alignment : q \in drawn} \ (IF op \in NonzeroImmediate THEN {0} ELSE {})
    BY <1>1 DEF SampledImmediates
  <2>2. PICK min \in Int, max \in Int, a \in Nat \ {0} :
            /\ b.min = min /\ b.max = max /\ b.alignment = a
            /\ min % a = 0 /\ min \div a <= max \div a
    <3>1. Sound(b)
      BY BoundsAre
    <3> HIDE DEF b
    <3>2. QED
      BY <3>1 DEF Sound
  <2> HIDE DEF b
  <2>3. b.min = min /\ b.max = max /\ b.alignment = a
    BY <2>2
  <2>4. PICK q \in drawn : imm = q * a
    BY <2>1, <2>3
  <2>5. q \in min \div a .. max \div a /\ min \div a \in Int /\ max \div a \in Int
    <3>1. min \div a \in Int /\ max \div a \in Int
      BY DivMod DEF Positive
    <3>2. QED
      BY <2>2, <2>3, <3>1
  <2>6. a * (min \div a) <= a * q /\ a * q <= a * (max \div a)
    BY <2>5, Monotone DEF Positive
  <2>7. a * (min \div a) = min /\ a * (max \div a) <= max
    <3>a. min = a * (min \div a) + (min % a)
      BY DivMod DEF Positive
    <3>b. max = a * (max \div a) + (max % a)
      BY DivMod DEF Positive
    <3>c. max % a >= 0
      BY DivMod DEF Positive
    <3>1. /\ min = a * (min \div a) + (min % a) /\ max = a * (max \div a) + (max % a)
          /\ max % a >= 0
      BY <3>a, <3>b, <3>c, Zenon
    <3> DEFINE x == a * (min \div a)
               y == a * (max \div a)
    <3>2. x \in Int /\ y \in Int /\ max % a \in Int
      BY <2>5, DivMod
    <3> HIDE DEF x, y
    <3>3. min = x + (min % a) /\ max = y + (max % a)
      BY <3>1 DEF x, y
    <3>4. min = x /\ y <= max
      BY <2>2, <3>1, <3>2, <3>3
    <3>5. QED
      BY <3>4 DEF x, y
  <2>8. imm \in min .. max /\ imm % a = 0
    <3>1. imm = a * q /\ imm \in Int
      BY <2>4, <2>5
    <3>2. (a * q) % a = 0
      BY <2>5
    <3>3. QED
      BY <2>6, <2>7, <3>1, <3>2
  <2>9. op \in NonzeroImmediate => imm # 0
    BY <2>1
  <2>10. imm \in b.min .. b.max /\ imm % b.alignment = 0
    BY <2>3, <2>8
  <2>11. QED
    BY <1>1, <2>9, <2>10 DEF ValidImmediate, b
<1>2. CASE ImmKind[op] = "fence"
  <2>1. imm \in 0 .. 255
    BY <1>2 DEF SampledImmediates
  <2>2. QED
    BY <1>2, <2>1 DEF ValidImmediate
<1>3. CASE ImmKind[op] \notin {"i32", "shift", "fence"}
  BY <1>3 DEF ValidImmediate
<1>4. QED
  BY <1>1, <1>2, <1>3

\* Every opcode is in the catalog, so it has its registers there.
LongFormats ==
    Names({BType, StoreType, FloatStoreType, VmaType})
    \cup Names({OpType, OpWType, MulType, MulWType})
    \cup Names({AmoType, AmoDType})
    \cup Names({JalrType, LoadType, FloatLoadType, ImmType, ShiftType, ShiftWType,
                CsrType, CsrImmType})
    \cup Names({FenceType, PlainType}) \cup Names({UType, JType}) \cup Names(FloatTypes)

LEMMA OpcodesAre == Opcodes \subseteq LongFormats \cup CompressedNames
<1> SUFFICES ASSUME NEW op \in Opcodes
             PROVE  op \in LongFormats \/ op \in CompressedNames
  OBVIOUS
<1>1. PICK e \in DOMAIN OfExtension : op \in OfExtension[e]
  BY DEF Opcodes
<1>2. CASE e = "I"
  BY <1>1, <1>2, SystemTables DEF OfExtension, LongFormats, Names
<1>3. CASE e = "M"
  BY <1>1, <1>3 DEF OfExtension, LongFormats, Names
<1>4. CASE e = "A"
  BY <1>1, <1>4 DEF OfExtension, LongFormats, Names
<1>5. Doubles \subseteq Names(FloatTypes)
  BY FloatTables DEF Doubles, Names, FloatTypes
<1>6. CASE e = "F"
  BY <1>1, <1>6, SystemTables DEF OfExtension, LongFormats, Names
<1>7. CASE e = "D"
  BY <1>1, <1>5, <1>7, SystemTables DEF OfExtension, LongFormats, Names
<1>8. CASE e = "C"
  BY <1>1, <1>8, CompressedIs DEF OfExtension
<1>9. CASE e = "Zicsr"
  BY <1>1, <1>9 DEF OfExtension, LongFormats, Names
<1>10. CASE e \in {"Zifencei", "Privileged", "Svinval"}
  BY <1>1, <1>10, SystemTables DEF OfExtension, LongFormats, Names
<1>11. DOMAIN OfExtension = {"I", "M", "A", "F", "D", "C", "Zicsr", "Zifencei", "Privileged",
                             "Svinval"}
  BY DEF OfExtension
<1>12. QED
  BY <1>1, <1>2, <1>3, <1>4, <1>6, <1>7, <1>8, <1>9, <1>10, <1>11

FieldNames == {"rd", "rs1", "rs2", "rs3"}

LEMMA FieldsAre ==
  ASSUME NEW op \in Opcodes
  PROVE  RegisterFields[op] \subseteq FieldNames
<1>1. op \in LongFormats \/ op \in CompressedNames
  BY OpcodesAre
<1>2. \/ op \in Names({BType, StoreType, FloatStoreType, VmaType, CSType})
      \/ op \in Names({OpType, OpWType, MulType, MulWType, FloatBinaryType,
                       FloatSelectType, FloatCompareType})
      \/ op \in DOMAIN FloatTernaryType
      \/ op \in Names({AmoType, AmoDType})
      \/ op \in Names({JalrType, LoadType, FloatLoadType, ImmType, ShiftType, ShiftWType,
                       FloatUnaryType, FloatToIntType, IntToFloatType, FloatToBitsType,
                       BitsToFloatType, CsrType, CsrImmType, CLType})
      \/ op \in Names({CRType, CAType})
      \/ op \in Names({CJrType, CBAluType, CBShiftType, CBType})
      \/ op \in DOMAIN CSSType
      \/ op \in Names({CJType, FenceType, PlainType}) \cup {"CAddi16sp", "CEbreak"}
      \/ op \in Names({UType, JType, CIType, CShiftType, CSpType}) \cup {"CAddi4spn"}
  <2>1. CASE op \in LongFormats
    BY <2>1 DEF LongFormats, Names, FloatTypes
  <2>2. CASE op \in CompressedNames
    BY <2>2, CompressedTables DEF CompressedNames, Names
  <2>3. QED
    BY <1>1, <2>1, <2>2
<1>3. QED
  BY <1>2, SMTT(30) DEF RegisterFields, FieldNames

\* The instructions of an opcode with operands from two sets.
LEMMA WithIs ==
  ASSUME NEW op \in Opcodes, NEW registers, NEW immediates,
         NEW x \in With(op, registers, immediates)
  PROVE  /\ x.op = op /\ x.imm \in immediates
         /\ x.rd \in registers \cup {0} /\ x.rs1 \in registers \cup {0}
         /\ x.rs2 \in registers \cup {0}
         /\ \A f \in RegisterFields[op] : x[f] \in registers
<1> DEFINE in(f) == IF f \in RegisterFields[op] THEN registers ELSE {0}
<1>1. PICK d \in in("rd"), r1 \in in("rs1"), r2 \in in("rs2"), r3 \in in("rs3"),
           i \in immediates : x = [Instr(op, d, r1, r2, i) EXCEPT !.rs3 = r3]
  BY DEF With
<1>2. /\ x.op = op /\ x.imm = i /\ x.rd = d /\ x.rs1 = r1 /\ x.rs2 = r2 /\ x.rs3 = r3
  BY <1>1 DEF Instr
<1>3. ASSUME NEW f \in RegisterFields[op]
      PROVE  x[f] \in registers
  <2>1. f \in FieldNames
    BY FieldsAre
  <2>2. QED
    BY <1>1, <1>2, <1>3, <2>1 DEF FieldNames
<1>4. QED
  BY <1>1, <1>2, <1>3

LEMMA NoCompactIsNonzero ==
  ASSUME NEW op \in Compact
  PROVE  op \notin Nonzero /\ op # "CLui"
  BY CompactIs, CompressedTables DEF Nonzero, Names

LEMMA SampledRegistersFit ==
  ASSUME NEW op
  PROVE  /\ SampledRegisters(op) \subseteq 3 .. 31
         /\ \A r \in SampledRegisters(op) : ValidRegister(op, r)
<1>1. CASE op \in Compact
  BY <1>1, NoCompactIsNonzero DEF SampledRegisters, ValidRegister
<1>2. CASE op \notin Compact
  <2>1. SampledRegisters(op) \subseteq 3 .. 31
    BY <1>2, EncodingAssumption DEF SampledRegisters
  <2>2. QED
    BY <1>2, <2>1 DEF ValidRegister
<1>3. QED
  BY <1>1, <1>2

LEMMA DrawnIsValid ==
  ASSUME NEW t, t.xlen \in {32, 64}, NEW op \in Workload(t),
         NEW x \in With(op, SampledRegisters(op), SampledImmediates(op, t))
  PROVE  Registers(x) /\ Supports(t, x.op) /\ Valid(x, t.xlen)
<1>1. op \in Opcodes /\ Supports(t, op)
  BY DEF Workload
<1>2. /\ x.op = op /\ x.imm \in SampledImmediates(op, t)
      /\ x.rd \in SampledRegisters(op) \cup {0} /\ x.rs1 \in SampledRegisters(op) \cup {0}
      /\ x.rs2 \in SampledRegisters(op) \cup {0}
      /\ \A f \in RegisterFields[op] : x[f] \in SampledRegisters(op)
  BY <1>1, WithIs
<1>3. Registers(x)
  BY <1>2, SampledRegistersFit DEF Registers
<1>4. ValidImmediate(op, t.xlen, x.imm)
  BY <1>1, <1>2, DrawnImmediate
<1>5. \A f \in RegisterFields[op] : ValidRegister(op, x[f])
  BY <1>2, SampledRegistersFit
<1>6. Valid(x, t.xlen)
  BY <1>2, <1>4, <1>5 DEF Valid
<1>7. QED
  BY <1>1, <1>2, <1>3, <1>6

\* The instructions the generator writes down itself.
OwnNames == {"Lui", "Addi", "Addiw", "Jal"}

LEMMA OwnSupported ==
  ASSUME NEW t \in [xlen : {32, 64}, extensions : Extensions], NEW op \in OwnNames,
         op = "Addiw" => t.xlen = 64
  PROVE  op \in Opcodes /\ Supports(t, op)
<1>1. op \in OfExtension["I"] /\ "I" \in DOMAIN OfExtension
  BY OpcodeTables, ArithmeticTables, SystemTables DEF OfExtension, Names, OwnNames
<1>2. "I" \in t.extensions
  BY EncodingAssumption
<1>3. op \in Rv64 => t.xlen = 64
  BY OpcodeTables, ArithmeticTables, SystemTables, AmoTables DEF Rv64, Names, OwnNames
<1>4. op # "CJal"
  BY DEF OwnNames
<1>5. QED
  BY <1>1, <1>2, <1>3, <1>4 DEF Opcodes, Supports, SupportsXlen

LEMMA OwnRegisters ==
  ASSUME NEW op \in OwnNames, NEW r
  PROVE  ValidRegister(op, r)
<1>1. op \notin CompressedNames
  BY DEF OwnNames, CompressedNames
<1>2. op \notin Compact
  BY <1>1, CompactIs
<1>3. op \notin Nonzero
  BY <1>1, CompressedTables DEF CompressedNames, Nonzero, Names
<1>4. op # "CLui"
  BY DEF OwnNames
<1>5. QED
  BY <1>2, <1>3, <1>4 DEF ValidRegister

LEMMA OwnBounds ==
  ASSUME NEW width
  PROVE  /\ Bounds("Lui", width) = Limits(-524288, 1048575, 1)
         /\ Bounds("Jal", width) = Limits(-1048576, 1048574, 2)
         /\ Bounds("Addi", width) = Limits(-2048, 2047, 1)
         /\ Bounds("Addiw", width) = Limits(-2048, 2047, 1)
<1>1. Bounds("Lui", width) = Limits(-524288, 1048575, 1)
  BY OpcodeTables, ArithmeticTables, SystemTables, CompressedTables DEF Bounds, Names
<1>2. Bounds("Jal", width) = Limits(-1048576, 1048574, 2)
  BY OpcodeTables, ArithmeticTables, SystemTables, CompressedTables DEF Bounds, Names
<1>3. Bounds("Addi", width) = Limits(-2048, 2047, 1)
  BY OpcodeTables, ArithmeticTables, SystemTables, CompressedTables DEF Bounds, Names
<1>4. Bounds("Addiw", width) = Limits(-2048, 2047, 1)
  BY OpcodeTables, ArithmeticTables, SystemTables, CompressedTables DEF Bounds, Names
<1>5. QED
  BY <1>1, <1>2, <1>3, <1>4

LEMMA OwnIsValid ==
  ASSUME NEW width, NEW op \in OwnNames, op \in Opcodes, NEW imm \in Int,
         Bounds(op, width).min \in Int, Bounds(op, width).min <= imm,
         Bounds(op, width).max \in Int, imm <= Bounds(op, width).max,
         imm % Bounds(op, width).alignment = 0,
         NEW d, NEW s
  PROVE  Valid(Instr(op, d, s, 0, imm), width)
<1> DEFINE x == Instr(op, d, s, 0, imm)
<1>1. x.op = op /\ x.imm = imm
  BY DEF Instr
<1>2. ImmKind[op] # "fence"
  BY OpcodeTables, ArithmeticTables, SystemTables, AmoTables, SMTT(30) DEF ImmKind, OwnNames, Names
<1>3. op \notin NonzeroImmediate
  BY DEF OwnNames, NonzeroImmediate
<1>4. ValidImmediate(op, width, imm)
  BY <1>2, <1>3 DEF ValidImmediate
<1> HIDE DEF x
<1>5. \A f \in RegisterFields[op] : ValidRegister(op, x[f])
  BY OwnRegisters
<1>6. Valid(x, width)
  BY <1>1, <1>4, <1>5 DEF Valid
<1>7. QED
  BY <1>6 DEF x

--------------------------------------------------------------------------------
(* The invariant.                                                            *)

\* The instruction is one of the catalog.  One that waits to be emitted has
\* five-bit registers and, unless somebody gave it, passes the checks of its
\* target already.
EncodingIInv ==
    /\ target \in [xlen : {32, 64}, extensions : Extensions]
    /\ stage # "idle" => instr.op \in Opcodes
    /\ stage = "made" =>
          /\ Registers(instr)
          /\ source # "given" => Supports(target, instr.op) /\ Valid(instr, target.xlen)
    /\ NothingMadeIsRefused

LEMMA InitEncoding == Init => EncodingIInv
<1> SUFFICES ASSUME Init
             PROVE  EncodingIInv
  OBVIOUS
<1>1. target \in [xlen : {32, 64}, extensions : Extensions]
  BY DEF Init
<1>2. QED
  BY <1>1 DEF Init, EncodingIInv, NothingMadeIsRefused

LEMMA MadeKeeps ==
  ASSUME EncodingIInv, NEW who, NEW x, Make(who, x), x.op \in Opcodes, Registers(x),
         who # "given" => Supports(target, x.op) /\ Valid(x, target.xlen)
  PROVE  EncodingIInv'
  BY DEF EncodingIInv, Make, NothingMadeIsRefused

LEMMA DrawKeeps == EncodingIInv /\ Draw => EncodingIInv'
<1> SUFFICES ASSUME EncodingIInv, Draw
             PROVE  EncodingIInv'
  OBVIOUS
<1>1. PICK op \in Workload(target) :
          \E x \in With(op, SampledRegisters(op), SampledImmediates(op, target)) :
              Make("draw", x)
  BY DEF Draw
<1>2. PICK x \in With(op, SampledRegisters(op), SampledImmediates(op, target)) :
          Make("draw", x)
  BY <1>1
<1>3. target.xlen \in {32, 64}
  BY DEF EncodingIInv
<1>4. x.op \in Opcodes
  BY WithIs DEF Workload
<1>5. Registers(x) /\ Supports(target, x.op) /\ Valid(x, target.xlen)
  BY <1>3, DrawnIsValid
<1>6. QED
  BY <1>2, <1>4, <1>5, MadeKeeps

\* A constant of 32 bits is split into 20 and 12.
LEMMA UpperPart ==
  ASSUME NEW v \in Int
  PROVE  Upper(v) \in Int /\ 0 <= Upper(v) /\ Upper(v) <= 1048575
<1>1. PICK n \in Int : n = (v \div 4096) + Carry(v)
  BY DEF Carry
<1>2. n % 1048576 \in Int /\ 0 <= n % 1048576 /\ n % 1048576 <= 1048576 - 1
  BY DivMod DEF Positive
<1>3. Upper(v) = n % 1048576
  BY <1>1 DEF Upper
<1>4. QED
  BY <1>2, <1>3

LEMMA LowerPart ==
  ASSUME NEW v \in Int
  PROVE  Lower(v) \in Int /\ -2048 <= Lower(v) /\ Lower(v) <= 2047
<1>1. PICK low \in Int, carry \in {0, 1} :
          /\ low = v % 4096 /\ carry = Carry(v)
          /\ 2048 * carry <= low /\ low <= 2048 * carry + 2047
  <2>1. /\ v % 4096 = (v % 2048) + 2048 * ((v \div 2048) % 2)
        /\ v % 2048 \in 0 .. 2047 /\ (v \div 2048) % 2 \in {0, 1}
    OBVIOUS
  <2>2. QED
    BY <2>1 DEF Carry
<1>2. Lower(v) = low - 4096 * carry
  BY <1>1 DEF Lower
<1>3. 2048 * carry <= low /\ low <= 2048 * carry + 2047
  BY <1>1
<1>4. CASE carry = 0
  <2>1. Lower(v) = low /\ 0 <= low /\ low <= 2047
    BY <1>2, <1>3, <1>4
  <2>2. QED
    BY <2>1
<1>5. CASE carry = 1
  <2>1. Lower(v) = low - 4096 /\ 2048 <= low /\ low <= 4095
    BY <1>2, <1>3, <1>5
  <2>2. QED
    BY <2>1
<1>6. QED
  BY <1>4, <1>5

LEMMA LoadKeeps == EncodingIInv /\ Load => EncodingIInv'
<1> SUFFICES ASSUME EncodingIInv, Load
             PROVE  EncodingIInv'
  OBVIOUS
<1>1. target \in [xlen : {32, 64}, extensions : Extensions] /\ target.xlen \in {32, 64}
  BY DEF EncodingIInv
<1>2. PICK v \in LoadValues, r \in IntRegisters, second \in {"Addi", "Addiw"} :
          /\ second = "Addiw" => target.xlen = 64
          /\ \/ Make("load", Instr("Lui", r, 0, 0, Upper(v)))
             \/ Make("load", Instr(second, r, r, 0, Lower(v)))
  BY <1>1 DEF Load
<1>3. v \in Int /\ r \in 0 .. 31
  <2>1. LoadValues \subseteq Int /\ IntRegisters \subseteq 3 .. 31
    BY EncodingAssumption
  <2>2. QED
    BY <2>1
<1>4. second \in OwnNames /\ "Lui" \in OwnNames
  BY DEF OwnNames
<1>5. /\ second \in Opcodes /\ Supports(target, second)
      /\ "Lui" \in Opcodes /\ Supports(target, "Lui")
  BY <1>1, <1>2, <1>4, OwnSupported
<1>6. CASE Make("load", Instr("Lui", r, 0, 0, Upper(v)))
  <2>1. Bounds("Lui", target.xlen) = Limits(-524288, 1048575, 1)
    BY OwnBounds
  <2>2. Upper(v) \in Int /\ 0 <= Upper(v) /\ Upper(v) <= 1048575
    BY <1>3, UpperPart
  <2>3. /\ Bounds("Lui", target.xlen).min \in Int
        /\ Bounds("Lui", target.xlen).min <= Upper(v)
        /\ Bounds("Lui", target.xlen).max \in Int
        /\ Upper(v) <= Bounds("Lui", target.xlen).max
        /\ Upper(v) % Bounds("Lui", target.xlen).alignment = 0
    BY <2>1, <2>2 DEF Limits
  <2>4. Valid(Instr("Lui", r, 0, 0, Upper(v)), target.xlen)
    BY <1>4, <1>5, <2>2, <2>3, OwnIsValid
  <2>5. /\ Registers(Instr("Lui", r, 0, 0, Upper(v)))
        /\ Instr("Lui", r, 0, 0, Upper(v)).op = "Lui"
    BY <1>3 DEF Registers, Instr
  <2>6. QED
    BY <1>5, <1>6, <2>4, <2>5, MadeKeeps
<1>7. CASE Make("load", Instr(second, r, r, 0, Lower(v)))
  <2>1. Bounds(second, target.xlen) = Limits(-2048, 2047, 1)
    BY OwnBounds
  <2>2. Lower(v) \in Int /\ -2048 <= Lower(v) /\ Lower(v) <= 2047
    BY <1>3, LowerPart
  <2>3. /\ Bounds(second, target.xlen).min \in Int
        /\ Bounds(second, target.xlen).min <= Lower(v)
        /\ Bounds(second, target.xlen).max \in Int
        /\ Lower(v) <= Bounds(second, target.xlen).max
        /\ Lower(v) % Bounds(second, target.xlen).alignment = 0
    BY <2>1, <2>2 DEF Limits
  <2>4. Valid(Instr(second, r, r, 0, Lower(v)), target.xlen)
    BY <1>4, <1>5, <2>2, <2>3, OwnIsValid
  <2>5. /\ Registers(Instr(second, r, r, 0, Lower(v)))
        /\ Instr(second, r, r, 0, Lower(v)).op = second
    BY <1>3 DEF Registers, Instr
  <2>6. QED
    BY <1>5, <1>7, <2>4, <2>5, MadeKeeps
<1>8. QED
  BY <1>2, <1>6, <1>7

\* The greatest even distance of the range is the end of the operand's.
LEMMA LinkKeeps == EncodingIInv /\ Link => EncodingIInv'
<1> SUFFICES ASSUME EncodingIInv, Link
             PROVE  EncodingIInv'
  OBVIOUS
<1>1. PICK d \in LinkOffsets : InJalRange(d) /\ Make("link", Instr("Jal", 0, 0, 0, d))
  BY DEF Link
<1>2. target \in [xlen : {32, 64}, extensions : Extensions]
  BY DEF EncodingIInv
<1>3. d \in Int /\ -1048576 <= d /\ d <= 1048574 /\ d % 2 = 0
  <2>1. d \in Int /\ d % 2 = 0
    BY EncodingAssumption
  <2>2. -1048576 <= d /\ d <= 1048575
    BY <1>1, <2>1 DEF InJalRange
  <2>3. d # 1048575
    BY <2>1
  <2>4. QED
    BY <2>1, <2>2, <2>3
<1>4. "Jal" \in OwnNames
  BY DEF OwnNames
<1>5. "Jal" \in Opcodes /\ Supports(target, "Jal")
  BY <1>2, <1>4, OwnSupported
<1>6. Valid(Instr("Jal", 0, 0, 0, d), target.xlen)
  <2>1. Bounds("Jal", target.xlen) = Limits(-1048576, 1048574, 2)
    BY OwnBounds
  <2>2. /\ Bounds("Jal", target.xlen).min \in Int /\ Bounds("Jal", target.xlen).min <= d
        /\ Bounds("Jal", target.xlen).max \in Int /\ d <= Bounds("Jal", target.xlen).max
        /\ d % Bounds("Jal", target.xlen).alignment = 0
    BY <1>3, <2>1 DEF Limits
  <2>3. QED
    BY <1>3, <1>4, <1>5, <2>2, OwnIsValid
<1>7. Registers(Instr("Jal", 0, 0, 0, d)) /\ Instr("Jal", 0, 0, 0, d).op = "Jal"
  BY DEF Registers, Instr
<1>8. QED
  BY <1>1, <1>5, <1>6, <1>7, MadeKeeps

LEMMA ConstructKeeps == EncodingIInv /\ Construct => EncodingIInv'
<1> SUFFICES ASSUME EncodingIInv, Construct
             PROVE  EncodingIInv'
  OBVIOUS
<1>1. PICK op \in Opcodes : \E x \in With(op, GivenRegisters, GivenFor(op)) :
          Make("given", x)
  BY DEF Construct
<1>2. PICK x \in With(op, GivenRegisters, GivenFor(op)) : Make("given", x)
  BY <1>1
<1>3. /\ x.op = op
      /\ x.rd \in GivenRegisters \cup {0} /\ x.rs1 \in GivenRegisters \cup {0}
      /\ x.rs2 \in GivenRegisters \cup {0}
  BY WithIs
<1>4. Registers(x)
  <2>1. GivenRegisters \subseteq 0 .. 31
    BY EncodingAssumption
  <2>2. \A r \in GivenRegisters \cup {0} : r \in 0 .. 31
    BY <2>1
  <2>3. QED
    BY <1>3, <2>2, Zenon DEF Registers
<1>5. QED
  BY <1>2, <1>3, <1>4, MadeKeeps

LEMMA EmitKeeps == EncodingIInv /\ Emit => EncodingIInv'
<1> SUFFICES ASSUME EncodingIInv, Emit
             PROVE  EncodingIInv'
  OBVIOUS
<1> DEFINE accepted == Supports(target, instr.op) /\ Valid(instr, target.xlen)
           fits == instr.op \in Compressed => Packed(instr) \subseteq 0 .. 15
<1>1. stage = "made" /\ UNCHANGED <<target, source, instr>>
  BY DEF Emit
<1>2. Registers(instr) /\ (source # "given" => accepted)
  BY <1>1 DEF EncodingIInv
<1>3. accepted => fits
  BY <1>2, CompressedFits DEF ParcelBits
<1>4. \/ ~accepted /\ stage' = "refused"
      \/ accepted /\ ~fits /\ stage' = "overflow"
      \/ stage' = "stored"
  BY DEF Emit
<1> HIDE DEF accepted, fits
<1>5. (source # "given" => stage' # "refused") /\ stage' # "overflow" /\ stage' # "made"
  BY <1>2, <1>3, <1>4
<1>6. QED
  BY <1>1, <1>5 DEF EncodingIInv, NothingMadeIsRefused

LEMMA FetchKeeps == EncodingIInv /\ Fetch => EncodingIInv'
  BY DEF EncodingIInv, Fetch, NothingMadeIsRefused

LEMMA NextEncoding == EncodingIInv /\ [Next]_vars => EncodingIInv'
<1> SUFFICES ASSUME EncodingIInv, [Next]_vars
             PROVE  EncodingIInv'
  OBVIOUS
<1>1. CASE UNCHANGED vars
  BY <1>1 DEF vars, EncodingIInv, NothingMadeIsRefused
<1>2. QED
  BY <1>1, DrawKeeps, LoadKeeps, LinkKeeps, ConstructKeeps, EmitKeeps, FetchKeeps DEF Next

\* Whatever the target, the registers and immediates that are drawn, the
\* constants that are loaded and the distances that are linked: emit refuses no
\* instruction the generator made itself, and no compressed encoding it accepts,
\* whoever made the instruction, has more than sixteen bits (Target::emit with
\* operand.rs, encoding.rs and the catalog).
THEOREM NothingRefused == Spec => []NothingMadeIsRefused
<1>1. EncodingIInv => NothingMadeIsRefused
  BY DEF EncodingIInv
<1>2. QED
  BY InitEncoding, NextEncoding, <1>1, PTL DEF Spec

--------------------------------------------------------------------------------
(* Bits of a packed word.                                                    *)

LEMMA PowersAre ==
  /\ 2^0 = 1 /\ 2^1 = 2 /\ 2^2 = 4 /\ 2^3 = 8 /\ 2^4 = 16 /\ 2^5 = 32 /\ 2^6 = 64
  /\ 2^7 = 128 /\ 2^8 = 256 /\ 2^9 = 512 /\ 2^10 = 1024 /\ 2^11 = 2048 /\ 2^12 = 4096
  /\ 2^13 = 8192 /\ 2^14 = 16384 /\ 2^15 = 32768 /\ 2^16 = 65536 /\ 2^17 = 131072
  /\ 2^18 = 262144 /\ 2^19 = 524288 /\ 2^20 = 1048576 /\ 2^21 = 2097152
  /\ 2^22 = 4194304 /\ 2^23 = 8388608 /\ 2^24 = 16777216 /\ 2^25 = 33554432
  /\ 2^26 = 67108864 /\ 2^27 = 134217728 /\ 2^28 = 268435456 /\ 2^29 = 536870912
  /\ 2^30 = 1073741824
  OBVIOUS

\* The k-th bit of a number doubles its remainder's modulus.
LEMMA NextBit ==
  ASSUME NEW n \in Int, NEW a \in Positive
  PROVE  n % (2 * a) = (n % a) + (IF (n \div a) % 2 = 1 THEN a ELSE 0)
<2>1. PICK q, r : q = n \div a /\ r = n % a
  OBVIOUS
<2>2. q \in Int /\ r \in 0 .. a - 1 /\ n = a * q + r
  BY <2>1, DivMod
<2>3. q = 2 * (q \div 2) + (q % 2) /\ q % 2 \in 0 .. 1 /\ q \div 2 \in Int
  BY <2>2
<2>4. PICK h, b : h = q \div 2 /\ b = q % 2
  OBVIOUS
<2>5. h \in Int /\ b \in {0, 1} /\ q = 2 * h + b
  BY <2>3, <2>4
<2>6. a \in Nat /\ a > 0 /\ 2 * a \in Positive
  BY DEF Positive
<2>7. CASE b = 0
  <3>1. n = (2 * a) * h + r /\ r \in 0 .. (2 * a) - 1
    BY <2>2, <2>5, <2>6, <2>7
  <3>2. n % (2 * a) = r
    BY <2>5, <2>6, <3>1, Unique
  <3>3. QED
    BY <2>1, <2>4, <2>7, <3>2
<2>8. CASE b = 1
  <3>1. PICK t : t = r + a
    OBVIOUS
  <3>2. n = (2 * a) * h + t /\ t \in 0 .. (2 * a) - 1
    BY <2>2, <2>5, <2>6, <2>8, <3>1
  <3>3. n % (2 * a) = t
    BY <2>5, <2>6, <3>2, Unique
  <3>4. QED
    BY <2>1, <2>4, <2>8, <3>1, <3>3
<2>9. QED
  BY <2>5, <2>7, <2>8

\* What Number adds for a bit.
Weight(b, w) == IF b THEN w ELSE 0

\* A number below 2^21 is the sum of its bits.
LEMMA SumOfBits ==
  ASSUME NEW n \in Int, 0 <= n, n < 2097152
  PROVE  n = Weight(Odd(n, 0), 1) + Weight(Odd(n, 1), 2) + Weight(Odd(n, 2), 4)
             + Weight(Odd(n, 3), 8) + Weight(Odd(n, 4), 16) + Weight(Odd(n, 5), 32)
             + Weight(Odd(n, 6), 64) + Weight(Odd(n, 7), 128) + Weight(Odd(n, 8), 256)
             + Weight(Odd(n, 9), 512) + Weight(Odd(n, 10), 1024) + Weight(Odd(n, 11), 2048)
             + Weight(Odd(n, 12), 4096) + Weight(Odd(n, 13), 8192) + Weight(Odd(n, 14), 16384)
             + Weight(Odd(n, 15), 32768) + Weight(Odd(n, 16), 65536)
             + Weight(Odd(n, 17), 131072) + Weight(Odd(n, 18), 262144)
             + Weight(Odd(n, 19), 524288) + Weight(Odd(n, 20), 1048576)
<1>1. /\ n % 2 = (n % 1) + Weight(Odd(n, 0), 1)
      /\ n % 4 = (n % 2) + Weight(Odd(n, 1), 2)
      /\ n % 8 = (n % 4) + Weight(Odd(n, 2), 4)
      /\ n % 16 = (n % 8) + Weight(Odd(n, 3), 8)
      /\ n % 32 = (n % 16) + Weight(Odd(n, 4), 16)
      /\ n % 64 = (n % 32) + Weight(Odd(n, 5), 32)
      /\ n % 128 = (n % 64) + Weight(Odd(n, 6), 64)
      /\ n % 256 = (n % 128) + Weight(Odd(n, 7), 128)
      /\ n % 512 = (n % 256) + Weight(Odd(n, 8), 256)
      /\ n % 1024 = (n % 512) + Weight(Odd(n, 9), 512)
      /\ n % 2048 = (n % 1024) + Weight(Odd(n, 10), 1024)
  BY NextBit, PowersAre, SMT DEF Odd, Positive, Weight
<1>2. /\ n % 4096 = (n % 2048) + Weight(Odd(n, 11), 2048)
      /\ n % 8192 = (n % 4096) + Weight(Odd(n, 12), 4096)
      /\ n % 16384 = (n % 8192) + Weight(Odd(n, 13), 8192)
      /\ n % 32768 = (n % 16384) + Weight(Odd(n, 14), 16384)
      /\ n % 65536 = (n % 32768) + Weight(Odd(n, 15), 32768)
      /\ n % 131072 = (n % 65536) + Weight(Odd(n, 16), 65536)
      /\ n % 262144 = (n % 131072) + Weight(Odd(n, 17), 131072)
      /\ n % 524288 = (n % 262144) + Weight(Odd(n, 18), 262144)
      /\ n % 1048576 = (n % 524288) + Weight(Odd(n, 19), 524288)
      /\ n % 2097152 = (n % 1048576) + Weight(Odd(n, 20), 1048576)
  BY NextBit, PowersAre, SMT DEF Odd, Positive, Weight
<1>3. n % 1 = 0 /\ n % 2097152 = n
  BY SMT
<1>4. QED
  BY <1>1, <1>2, <1>3, SMT DEF Weight

\* The positions of the one bits of a word's number.
LEMMA BitIsOdd ==
  ASSUME NEW n \in Int, NEW k \in 0 .. 30
  PROVE  k \in BitsOf(n) <=> Odd(n, k)
<1>1. CASE n >= 0
  BY <1>1 DEF BitsOf, Odd
<1>2. CASE n < 0
  <2>1. PICK m \in Int : m = - n - 1
    OBVIOUS
  <2>2. k \in BitsOf(n) <=> ~Odd(m, k)
    BY <1>2, <2>1 DEF BitsOf, Odd
  <2>3. ASSUME NEW a \in Positive
        PROVE  (n \div a) % 2 = 1 <=> ~((m \div a) % 2 = 1)
    <3>1. PICK q \in Int, r \in 0 .. a - 1 : q = m \div a /\ m = a * q + r
      BY DivMod
    <3>2. PICK p \in Int, s \in 0 .. a - 1 : p = - q - 1 /\ s = a - 1 - r
      BY <3>1 DEF Positive
    <3>3. n = a * p + s
      <4>1. a * p = - (a * q) - a /\ a * q \in Int /\ a \in Int
        BY <3>2 DEF Positive
      <4>2. QED
        BY <2>1, <3>1, <3>2, <4>1
    <3>4. n \div a = p
      BY <3>3, Unique
    <3>5. p % 2 = 1 <=> ~(q % 2 = 1)
      BY <3>2
    <3>6. QED
      BY <3>1, <3>4, <3>5
  <2>4. 2^k \in Positive
    <3>1. \/ k = 0 \/ k = 1 \/ k = 2 \/ k = 3 \/ k = 4 \/ k = 5 \/ k = 6 \/ k = 7
          \/ k = 8 \/ k = 9 \/ k = 10 \/ k = 11 \/ k = 12 \/ k = 13 \/ k = 14
          \/ k = 15 \/ k = 16 \/ k = 17 \/ k = 18 \/ k = 19 \/ k = 20 \/ k = 21
          \/ k = 22 \/ k = 23 \/ k = 24 \/ k = 25 \/ k = 26 \/ k = 27 \/ k = 28
          \/ k = 29 \/ k = 30
      OBVIOUS
    <3>2. /\ 2^0 \in Positive /\ 2^1 \in Positive /\ 2^2 \in Positive /\ 2^3 \in Positive
          /\ 2^4 \in Positive /\ 2^5 \in Positive /\ 2^6 \in Positive /\ 2^7 \in Positive
          /\ 2^8 \in Positive /\ 2^9 \in Positive /\ 2^10 \in Positive
          /\ 2^11 \in Positive /\ 2^12 \in Positive /\ 2^13 \in Positive
          /\ 2^14 \in Positive /\ 2^15 \in Positive /\ 2^16 \in Positive
          /\ 2^17 \in Positive /\ 2^18 \in Positive /\ 2^19 \in Positive
          /\ 2^20 \in Positive /\ 2^21 \in Positive /\ 2^22 \in Positive
          /\ 2^23 \in Positive /\ 2^24 \in Positive /\ 2^25 \in Positive
          /\ 2^26 \in Positive /\ 2^27 \in Positive /\ 2^28 \in Positive
          /\ 2^29 \in Positive /\ 2^30 \in Positive
      BY PowersAre DEF Positive
    <3>3. QED
      BY <3>1, <3>2, Zenon
  <2>5. QED
    BY <2>2, <2>3, <2>4 DEF Odd
<1>3. QED
  BY <1>1, <1>2

LEMMA TopBit ==
  ASSUME NEW n \in Int
  PROVE  31 \in BitsOf(n) <=> n < 0
  BY DEF BitsOf

LEMMA BitsAre ==
  ASSUME NEW n \in Int
  PROVE  BitsOf(n) \subseteq 0 .. 31
  BY DEF BitsOf

\* A number below 2^21 is the one with its bits.
LEMMA NumberIs ==
  ASSUME NEW bits, NEW n \in Int, 0 <= n, n < 2097152,
         \A k \in 0 .. 20 : k \in bits <=> k \in BitsOf(n)
  PROVE  Number(bits) = n
<1>1. ASSUME NEW k \in 0 .. 20
      PROVE  Weight(k \in bits, 2^k) = Weight(Odd(n, k), 2^k)
  BY BitIsOdd DEF Weight
<1>2. Number(bits) = Weight(0 \in bits, 2^0) + Weight(1 \in bits, 2^1)
                     + Weight(2 \in bits, 2^2) + Weight(3 \in bits, 2^3)
                     + Weight(4 \in bits, 2^4) + Weight(5 \in bits, 2^5)
                     + Weight(6 \in bits, 2^6) + Weight(7 \in bits, 2^7)
                     + Weight(8 \in bits, 2^8) + Weight(9 \in bits, 2^9)
                     + Weight(10 \in bits, 2^10) + Weight(11 \in bits, 2^11)
                     + Weight(12 \in bits, 2^12) + Weight(13 \in bits, 2^13)
                     + Weight(14 \in bits, 2^14) + Weight(15 \in bits, 2^15)
                     + Weight(16 \in bits, 2^16) + Weight(17 \in bits, 2^17)
                     + Weight(18 \in bits, 2^18) + Weight(19 \in bits, 2^19)
                     + Weight(20 \in bits, 2^20)
  BY DEF Number, Weight
<1>3. n = Weight(Odd(n, 0), 1) + Weight(Odd(n, 1), 2) + Weight(Odd(n, 2), 4)
          + Weight(Odd(n, 3), 8) + Weight(Odd(n, 4), 16) + Weight(Odd(n, 5), 32)
          + Weight(Odd(n, 6), 64) + Weight(Odd(n, 7), 128) + Weight(Odd(n, 8), 256)
          + Weight(Odd(n, 9), 512) + Weight(Odd(n, 10), 1024) + Weight(Odd(n, 11), 2048)
          + Weight(Odd(n, 12), 4096) + Weight(Odd(n, 13), 8192) + Weight(Odd(n, 14), 16384)
          + Weight(Odd(n, 15), 32768) + Weight(Odd(n, 16), 65536) + Weight(Odd(n, 17), 131072)
          + Weight(Odd(n, 18), 262144) + Weight(Odd(n, 19), 524288)
          + Weight(Odd(n, 20), 1048576)
  BY SumOfBits, SMT
<1>4. QED
  BY <1>1, <1>2, <1>3, PowersAre, SMT

\* The bits of a number of few bits.
LEMMA FewBits ==
  ASSUME NEW n \in Nat
  PROVE  /\ n < 4 => BitsOf(n) \subseteq 0 .. 1
         /\ n < 8 => BitsOf(n) \subseteq 0 .. 2
         /\ n < 32 => BitsOf(n) \subseteq 0 .. 4
         /\ n < 64 => BitsOf(n) \subseteq 0 .. 5
         /\ n < 128 => BitsOf(n) \subseteq 0 .. 6
<1>1. SUFFICES ASSUME n < 128
               PROVE  /\ n < 4 => BitsOf(n) \subseteq 0 .. 1
                      /\ n < 8 => BitsOf(n) \subseteq 0 .. 2
                      /\ n < 32 => BitsOf(n) \subseteq 0 .. 4
                      /\ n < 64 => BitsOf(n) \subseteq 0 .. 5
                      /\ n < 128 => BitsOf(n) \subseteq 0 .. 6
  OBVIOUS
<1>2. BitsOf(n) \subseteq 0 .. 15
  BY <1>1, BitsOfParcel DEF ParcelBits, ParcelValues
<1>3. /\ ~Odd(n, 7) /\ ~Odd(n, 8) /\ ~Odd(n, 9) /\ ~Odd(n, 10) /\ ~Odd(n, 11) /\ ~Odd(n, 12)
/\ ~Odd(n, 13) /\ ~Odd(n, 14) /\ ~Odd(n, 15)
  BY <1>1, PowersAre DEF Odd
<1>4. /\ n < 4 => ~Odd(n, 2)
      /\ n < 8 => ~Odd(n, 3)
      /\ n < 16 => ~Odd(n, 4)
      /\ n < 32 => ~Odd(n, 5)
      /\ n < 64 => ~Odd(n, 6)
  BY PowersAre DEF Odd
<1>5. ASSUME NEW k \in BitsOf(n)
      PROVE  k \in 0 .. 15 /\ Odd(n, k)
  BY <1>2, BitIsOdd
<1>6. QED
  BY <1>3, <1>4, <1>5

\* The numbers a field or an immediate may hold.
Small == {n \in Nat : n < 2097152}

\* A field that holds a number.
LEMMA FieldIs ==
  ASSUME NEW w, NEW lo \in 0 .. 31, NEW hi \in 0 .. 31, NEW n \in Small,
         BitsOf(n) \subseteq 0 .. hi - lo,
         \A k \in 0 .. hi - lo : lo + k \in w <=> k \in BitsOf(n)
  PROVE  Field(w, hi, lo) = n
<1> DEFINE bits == Run(w, hi, lo, - lo)
<1>1. ASSUME NEW k \in 0 .. 20
      PROVE  k \in bits <=> k \in BitsOf(n)
  <2>1. k \in bits <=> lo + k \in w /\ lo + k <= hi
    BY DEF Run
  <2>2. QED
    BY <2>1
<1> HIDE DEF bits
<1>2. Number(bits) = n
  BY <1>1, NumberIs, SMT DEF Small
<1>3. QED
  BY <1>2 DEF Field, bits

LEMMA InAt ==
  ASSUME NEW n \in Int, NEW lo \in 0 .. 31, NEW p
  PROVE  p \in At(n, lo) <=> p \in lo .. 31 /\ p - lo \in BitsOf(n)
  BY BitsAre DEF At, Run

\* The fixed bits of an instruction by the places of the decoder's fields.
Base(major, f3, rs2, f7) ==
    major + 4096 * f3 + 1048576 * rs2 + 33554432 * (IF f7 < 64 THEN f7 ELSE f7 - 128)

LEMMA BaseBits ==
  ASSUME NEW major \in Nat, major < 128, NEW f3 \in Nat, f3 < 8,
         NEW rs2 \in Nat, rs2 < 32, NEW f7 \in Nat, f7 < 128
  PROVE  BitsOf(Base(major, f3, rs2, f7))
             = At(major, 0) \cup At(f3, 12) \cup At(rs2, 20) \cup At(f7, 25)
<1> DEFINE n == Base(major, f3, rs2, f7)
<1>1. PICK g \in Int : g = (IF f7 < 64 THEN f7 ELSE f7 - 128)
  OBVIOUS
<1>2. n = major + 4096 * f3 + 1048576 * rs2 + 33554432 * g /\ n \in Int
  BY <1>1 DEF Base
<1> HIDE DEF n
<1>3. /\ Odd(n, 0) <=> Odd(major, 0)
      /\ Odd(n, 1) <=> Odd(major, 1)
      /\ Odd(n, 2) <=> Odd(major, 2)
      /\ Odd(n, 3) <=> Odd(major, 3)
      /\ Odd(n, 4) <=> Odd(major, 4)
      /\ Odd(n, 5) <=> Odd(major, 5)
      /\ Odd(n, 6) <=> Odd(major, 6)
  BY <1>2, PowersAre, SMT DEF Odd
<1>4. ~Odd(n, 7) /\ ~Odd(n, 8) /\ ~Odd(n, 9) /\ ~Odd(n, 10) /\ ~Odd(n, 11)
  BY <1>2, PowersAre, SMT DEF Odd
<1>5. /\ Odd(n, 12) <=> Odd(f3, 0)
      /\ Odd(n, 13) <=> Odd(f3, 1)
      /\ Odd(n, 14) <=> Odd(f3, 2)
  BY <1>2, PowersAre, SMT DEF Odd
<1>6. ~Odd(n, 15) /\ ~Odd(n, 16) /\ ~Odd(n, 17) /\ ~Odd(n, 18) /\ ~Odd(n, 19)
  BY <1>2, PowersAre, SMT DEF Odd
<1>7. /\ Odd(n, 20) <=> Odd(rs2, 0)
      /\ Odd(n, 21) <=> Odd(rs2, 1)
      /\ Odd(n, 22) <=> Odd(rs2, 2)
      /\ Odd(n, 23) <=> Odd(rs2, 3)
      /\ Odd(n, 24) <=> Odd(rs2, 4)
  <2>1. PICK low \in Int : low = major + 4096 * f3 /\ 0 <= low /\ low < 1048576
    BY SMT
  <2>2. n = low + 1048576 * rs2 + 33554432 * g
    BY <1>2, <2>1, SMT
  <2>3. n \div 1048576 = rs2 + 32 * g
    BY <2>1, <2>2, SMT
  <2>4. Odd(n, 20) <=> Odd(rs2, 0)
    BY <2>3, PowersAre, SMT DEF Odd
  <2>5. Odd(n, 21) <=> Odd(rs2, 1)
    <3>1. n \div 2097152 = (n \div 1048576) \div 2
      BY <1>2, SMT
    <3>2. QED
      BY <2>3, <3>1, PowersAre, SMT DEF Odd
  <2>6. Odd(n, 22) <=> Odd(rs2, 2)
    <3>1. n \div 4194304 = (n \div 1048576) \div 4
      BY <1>2, SMT
    <3>2. QED
      BY <2>3, <3>1, PowersAre, SMT DEF Odd
  <2>7. Odd(n, 23) <=> Odd(rs2, 3)
    <3>1. n \div 8388608 = (n \div 1048576) \div 8
      BY <1>2, SMT
    <3>2. QED
      BY <2>3, <3>1, PowersAre, SMT DEF Odd
  <2>8. Odd(n, 24) <=> Odd(rs2, 4)
    <3>1. n \div 16777216 = (n \div 1048576) \div 16
      BY <1>2, SMT
    <3>2. QED
      BY <2>3, <3>1, PowersAre, SMT DEF Odd
  <2>9. QED
    BY <2>4, <2>5, <2>6, <2>7, <2>8
<1>8. /\ Odd(n, 25) <=> Odd(f7, 0)
      /\ Odd(n, 26) <=> Odd(f7, 1)
      /\ Odd(n, 27) <=> Odd(f7, 2)
      /\ Odd(n, 28) <=> Odd(f7, 3)
      /\ Odd(n, 29) <=> Odd(f7, 4)
      /\ Odd(n, 30) <=> Odd(f7, 5)
  BY <1>1, <1>2, PowersAre, SMT DEF Odd
<1>9. n < 0 <=> Odd(f7, 6)
  BY <1>1, <1>2, PowersAre, SMT DEF Odd
<1>10. /\ BitsOf(major) \subseteq 0 .. 6 /\ BitsOf(f3) \subseteq 0 .. 2
       /\ BitsOf(rs2) \subseteq 0 .. 4 /\ BitsOf(f7) \subseteq 0 .. 6
  BY FewBits
<1>11. ASSUME NEW p \in 0 .. 30
       PROVE  p \in BitsOf(n) <=> Odd(n, p)
  BY <1>2, BitIsOdd
<1>12. 31 \in BitsOf(n) <=> Odd(f7, 6)
  BY <1>2, <1>9, TopBit
<1>13. ASSUME NEW p \in 0 .. 31
       PROVE  p \in BitsOf(n)
                  <=> p \in At(major, 0) \cup At(f3, 12) \cup At(rs2, 20) \cup At(f7, 25)
  <2>1. CASE p \in 0 .. 6
    BY <1>3, <1>10, <1>11, <2>1, BitIsOdd, InAt
  <2>2. CASE p \in 7 .. 11
    BY <1>4, <1>10, <1>11, <2>2, InAt
  <2>3. CASE p \in 12 .. 14
    BY <1>5, <1>10, <1>11, <2>3, BitIsOdd, InAt
  <2>4. CASE p \in 15 .. 19
    BY <1>6, <1>10, <1>11, <2>4, InAt
  <2>5. CASE p \in 20 .. 24
    BY <1>7, <1>10, <1>11, <2>5, BitIsOdd, InAt
  <2>6. CASE p \in 25 .. 30
    BY <1>8, <1>10, <1>11, <2>6, BitIsOdd, InAt
  <2>7. CASE p = 31
    BY <1>10, <1>12, <2>7, BitIsOdd, InAt
  <2>8. QED
    BY <2>1, <2>2, <2>3, <2>4, <2>5, <2>6, <2>7
<1>14. BitsOf(n) \subseteq 0 .. 31
  BY <1>2, BitsAre
<1>15. QED
  BY <1>13, <1>14, InAt DEF n

\* Sign extension: a number between -2^s and 2^s from its bits 0 .. s.
LEMMA ExtendedIs ==
  ASSUME NEW s \in {5, 8, 9, 11, 12, 19, 20}, NEW n \in Int, - 2^s <= n, n < 2^s,
         NEW bits, \A k \in 0 .. 20 : k \in bits <=> k <= s /\ k \in BitsOf(n)
  PROVE  SignExtended(bits, s) = n
<1>1. \A k \in 0 .. 20 : k \in BitsOf(n) <=> Odd(n, k)
  BY BitIsOdd
<1>2. CASE s = 5
  <2>1. - 32 <= n /\ n < 32
    BY <1>2, PowersAre
  <2>2. PICK m \in Nat : m = (IF n < 0 THEN n + 32 ELSE n) /\ m < 32
    BY <2>1, SMT
  <2>3. /\ ~Odd(m, 5) /\ ~Odd(m, 6) /\ ~Odd(m, 7) /\ ~Odd(m, 8) /\ ~Odd(m, 9) /\ ~Odd(m, 10)
           /\ ~Odd(m, 11) /\ ~Odd(m, 12) /\ ~Odd(m, 13) /\ ~Odd(m, 14) /\ ~Odd(m, 15)
           /\ ~Odd(m, 16) /\ ~Odd(m, 17) /\ ~Odd(m, 18) /\ ~Odd(m, 19) /\ ~Odd(m, 20)
    BY <2>2, PowersAre, SMT DEF Odd
  <2>4. /\ Odd(m, 0) <=> Odd(n, 0)
        /\ Odd(m, 1) <=> Odd(n, 1)
        /\ Odd(m, 2) <=> Odd(n, 2)
        /\ Odd(m, 3) <=> Odd(n, 3)
        /\ Odd(m, 4) <=> Odd(n, 4)
    BY <2>2, PowersAre, SMT DEF Odd
  <2>5. Odd(n, 5) <=> n < 0
    BY <2>1, PowersAre, SMT DEF Odd
  <2>6. ASSUME NEW k \in 0 .. 20
        PROVE  k \in bits \ {s} <=> k \in BitsOf(m)
    BY <1>1, <1>2, <2>2, <2>3, <2>4, BitIsOdd, SMT
  <2>7. Number(bits \ {s}) = m
    BY <2>2, <2>6, NumberIs, SMT
  <2>8. QED
    BY <1>1, <1>2, <2>2, <2>5, <2>7, PowersAre, SMT DEF SignExtended
<1>3. CASE s = 8
  <2>1. - 256 <= n /\ n < 256
    BY <1>3, PowersAre
  <2>2. PICK m \in Nat : m = (IF n < 0 THEN n + 256 ELSE n) /\ m < 256
    BY <2>1, SMT
  <2>3. /\ ~Odd(m, 8) /\ ~Odd(m, 9) /\ ~Odd(m, 10) /\ ~Odd(m, 11) /\ ~Odd(m, 12)
           /\ ~Odd(m, 13) /\ ~Odd(m, 14) /\ ~Odd(m, 15) /\ ~Odd(m, 16) /\ ~Odd(m, 17)
           /\ ~Odd(m, 18) /\ ~Odd(m, 19) /\ ~Odd(m, 20)
    BY <2>2, PowersAre, SMT DEF Odd
  <2>4. /\ Odd(m, 0) <=> Odd(n, 0)
        /\ Odd(m, 1) <=> Odd(n, 1)
        /\ Odd(m, 2) <=> Odd(n, 2)
        /\ Odd(m, 3) <=> Odd(n, 3)
        /\ Odd(m, 4) <=> Odd(n, 4)
        /\ Odd(m, 5) <=> Odd(n, 5)
        /\ Odd(m, 6) <=> Odd(n, 6)
        /\ Odd(m, 7) <=> Odd(n, 7)
    BY <2>2, PowersAre, SMT DEF Odd
  <2>5. Odd(n, 8) <=> n < 0
    BY <2>1, PowersAre, SMT DEF Odd
  <2>6. ASSUME NEW k \in 0 .. 20
        PROVE  k \in bits \ {s} <=> k \in BitsOf(m)
    BY <1>1, <1>3, <2>2, <2>3, <2>4, BitIsOdd, SMT
  <2>7. Number(bits \ {s}) = m
    BY <2>2, <2>6, NumberIs, SMT
  <2>8. QED
    BY <1>1, <1>3, <2>2, <2>5, <2>7, PowersAre, SMT DEF SignExtended
<1>4. CASE s = 9
  <2>1. - 512 <= n /\ n < 512
    BY <1>4, PowersAre
  <2>2. PICK m \in Nat : m = (IF n < 0 THEN n + 512 ELSE n) /\ m < 512
    BY <2>1, SMT
  <2>3. /\ ~Odd(m, 9) /\ ~Odd(m, 10) /\ ~Odd(m, 11) /\ ~Odd(m, 12) /\ ~Odd(m, 13)
           /\ ~Odd(m, 14) /\ ~Odd(m, 15) /\ ~Odd(m, 16) /\ ~Odd(m, 17) /\ ~Odd(m, 18)
           /\ ~Odd(m, 19) /\ ~Odd(m, 20)
    BY <2>2, PowersAre, SMT DEF Odd
  <2>4. /\ Odd(m, 0) <=> Odd(n, 0)
        /\ Odd(m, 1) <=> Odd(n, 1)
        /\ Odd(m, 2) <=> Odd(n, 2)
        /\ Odd(m, 3) <=> Odd(n, 3)
        /\ Odd(m, 4) <=> Odd(n, 4)
        /\ Odd(m, 5) <=> Odd(n, 5)
        /\ Odd(m, 6) <=> Odd(n, 6)
        /\ Odd(m, 7) <=> Odd(n, 7)
        /\ Odd(m, 8) <=> Odd(n, 8)
    BY <2>2, PowersAre, SMT DEF Odd
  <2>5. Odd(n, 9) <=> n < 0
    BY <2>1, PowersAre, SMT DEF Odd
  <2>6. ASSUME NEW k \in 0 .. 20
        PROVE  k \in bits \ {s} <=> k \in BitsOf(m)
    BY <1>1, <1>4, <2>2, <2>3, <2>4, BitIsOdd, SMT
  <2>7. Number(bits \ {s}) = m
    BY <2>2, <2>6, NumberIs, SMT
  <2>8. QED
    BY <1>1, <1>4, <2>2, <2>5, <2>7, PowersAre, SMT DEF SignExtended
<1>5. CASE s = 11
  <2>1. - 2048 <= n /\ n < 2048
    BY <1>5, PowersAre
  <2>2. PICK m \in Nat : m = (IF n < 0 THEN n + 2048 ELSE n) /\ m < 2048
    BY <2>1, SMT
  <2>3. /\ ~Odd(m, 11) /\ ~Odd(m, 12) /\ ~Odd(m, 13) /\ ~Odd(m, 14) /\ ~Odd(m, 15)
           /\ ~Odd(m, 16) /\ ~Odd(m, 17) /\ ~Odd(m, 18) /\ ~Odd(m, 19) /\ ~Odd(m, 20)
    BY <2>2, PowersAre, SMT DEF Odd
  <2>4. /\ Odd(m, 0) <=> Odd(n, 0)
        /\ Odd(m, 1) <=> Odd(n, 1)
        /\ Odd(m, 2) <=> Odd(n, 2)
        /\ Odd(m, 3) <=> Odd(n, 3)
        /\ Odd(m, 4) <=> Odd(n, 4)
        /\ Odd(m, 5) <=> Odd(n, 5)
        /\ Odd(m, 6) <=> Odd(n, 6)
        /\ Odd(m, 7) <=> Odd(n, 7)
        /\ Odd(m, 8) <=> Odd(n, 8)
        /\ Odd(m, 9) <=> Odd(n, 9)
        /\ Odd(m, 10) <=> Odd(n, 10)
    BY <2>2, PowersAre, SMT DEF Odd
  <2>5. Odd(n, 11) <=> n < 0
    BY <2>1, PowersAre, SMT DEF Odd
  <2>6. ASSUME NEW k \in 0 .. 20
        PROVE  k \in bits \ {s} <=> k \in BitsOf(m)
    BY <1>1, <1>5, <2>2, <2>3, <2>4, BitIsOdd, SMT
  <2>7. Number(bits \ {s}) = m
    BY <2>2, <2>6, NumberIs, SMT
  <2>8. QED
    BY <1>1, <1>5, <2>2, <2>5, <2>7, PowersAre, SMT DEF SignExtended
<1>6. CASE s = 12
  <2>1. - 4096 <= n /\ n < 4096
    BY <1>6, PowersAre
  <2>2. PICK m \in Nat : m = (IF n < 0 THEN n + 4096 ELSE n) /\ m < 4096
    BY <2>1, SMT
  <2>3. /\ ~Odd(m, 12) /\ ~Odd(m, 13) /\ ~Odd(m, 14) /\ ~Odd(m, 15) /\ ~Odd(m, 16)
           /\ ~Odd(m, 17) /\ ~Odd(m, 18) /\ ~Odd(m, 19) /\ ~Odd(m, 20)
    BY <2>2, PowersAre, SMT DEF Odd
  <2>4. /\ Odd(m, 0) <=> Odd(n, 0)
        /\ Odd(m, 1) <=> Odd(n, 1)
        /\ Odd(m, 2) <=> Odd(n, 2)
        /\ Odd(m, 3) <=> Odd(n, 3)
        /\ Odd(m, 4) <=> Odd(n, 4)
        /\ Odd(m, 5) <=> Odd(n, 5)
        /\ Odd(m, 6) <=> Odd(n, 6)
        /\ Odd(m, 7) <=> Odd(n, 7)
        /\ Odd(m, 8) <=> Odd(n, 8)
        /\ Odd(m, 9) <=> Odd(n, 9)
        /\ Odd(m, 10) <=> Odd(n, 10)
        /\ Odd(m, 11) <=> Odd(n, 11)
    BY <2>2, PowersAre, SMT DEF Odd
  <2>5. Odd(n, 12) <=> n < 0
    BY <2>1, PowersAre, SMT DEF Odd
  <2>6. ASSUME NEW k \in 0 .. 20
        PROVE  k \in bits \ {s} <=> k \in BitsOf(m)
    BY <1>1, <1>6, <2>2, <2>3, <2>4, BitIsOdd, SMT
  <2>7. Number(bits \ {s}) = m
    BY <2>2, <2>6, NumberIs, SMT
  <2>8. QED
    BY <1>1, <1>6, <2>2, <2>5, <2>7, PowersAre, SMT DEF SignExtended
<1>7. CASE s = 19
  <2>1. - 524288 <= n /\ n < 524288
    BY <1>7, PowersAre
  <2>2. PICK m \in Nat : m = (IF n < 0 THEN n + 524288 ELSE n) /\ m < 524288
    BY <2>1, SMT
  <2>3. /\ ~Odd(m, 19) /\ ~Odd(m, 20)
    BY <2>2, PowersAre, SMT DEF Odd
  <2>4. /\ Odd(m, 0) <=> Odd(n, 0)
        /\ Odd(m, 1) <=> Odd(n, 1)
        /\ Odd(m, 2) <=> Odd(n, 2)
        /\ Odd(m, 3) <=> Odd(n, 3)
        /\ Odd(m, 4) <=> Odd(n, 4)
        /\ Odd(m, 5) <=> Odd(n, 5)
        /\ Odd(m, 6) <=> Odd(n, 6)
        /\ Odd(m, 7) <=> Odd(n, 7)
        /\ Odd(m, 8) <=> Odd(n, 8)
        /\ Odd(m, 9) <=> Odd(n, 9)
        /\ Odd(m, 10) <=> Odd(n, 10)
        /\ Odd(m, 11) <=> Odd(n, 11)
        /\ Odd(m, 12) <=> Odd(n, 12)
        /\ Odd(m, 13) <=> Odd(n, 13)
        /\ Odd(m, 14) <=> Odd(n, 14)
        /\ Odd(m, 15) <=> Odd(n, 15)
        /\ Odd(m, 16) <=> Odd(n, 16)
        /\ Odd(m, 17) <=> Odd(n, 17)
        /\ Odd(m, 18) <=> Odd(n, 18)
    BY <2>2, PowersAre, SMT DEF Odd
  <2>5. Odd(n, 19) <=> n < 0
    BY <2>1, PowersAre, SMT DEF Odd
  <2>6. ASSUME NEW k \in 0 .. 20
        PROVE  k \in bits \ {s} <=> k \in BitsOf(m)
    BY <1>1, <1>7, <2>2, <2>3, <2>4, BitIsOdd, SMT
  <2>7. Number(bits \ {s}) = m
    BY <2>2, <2>6, NumberIs, SMT
  <2>8. QED
    BY <1>1, <1>7, <2>2, <2>5, <2>7, PowersAre, SMT DEF SignExtended
<1>8. CASE s = 20
  <2>1. - 1048576 <= n /\ n < 1048576
    BY <1>8, PowersAre
  <2>2. PICK m \in Nat : m = (IF n < 0 THEN n + 1048576 ELSE n) /\ m < 1048576
    BY <2>1, SMT
  <2>3. /\ ~Odd(m, 20)
    BY <2>2, PowersAre, SMT DEF Odd
  <2>4. /\ Odd(m, 0) <=> Odd(n, 0)
        /\ Odd(m, 1) <=> Odd(n, 1)
        /\ Odd(m, 2) <=> Odd(n, 2)
        /\ Odd(m, 3) <=> Odd(n, 3)
        /\ Odd(m, 4) <=> Odd(n, 4)
        /\ Odd(m, 5) <=> Odd(n, 5)
        /\ Odd(m, 6) <=> Odd(n, 6)
        /\ Odd(m, 7) <=> Odd(n, 7)
        /\ Odd(m, 8) <=> Odd(n, 8)
        /\ Odd(m, 9) <=> Odd(n, 9)
        /\ Odd(m, 10) <=> Odd(n, 10)
        /\ Odd(m, 11) <=> Odd(n, 11)
        /\ Odd(m, 12) <=> Odd(n, 12)
        /\ Odd(m, 13) <=> Odd(n, 13)
        /\ Odd(m, 14) <=> Odd(n, 14)
        /\ Odd(m, 15) <=> Odd(n, 15)
        /\ Odd(m, 16) <=> Odd(n, 16)
        /\ Odd(m, 17) <=> Odd(n, 17)
        /\ Odd(m, 18) <=> Odd(n, 18)
        /\ Odd(m, 19) <=> Odd(n, 19)
    BY <2>2, PowersAre, SMT DEF Odd
  <2>5. Odd(n, 20) <=> n < 0
    BY <2>1, PowersAre, SMT DEF Odd
  <2>6. ASSUME NEW k \in 0 .. 20
        PROVE  k \in bits \ {s} <=> k \in BitsOf(m)
    BY <1>1, <1>8, <2>2, <2>3, <2>4, BitIsOdd, SMT
  <2>7. Number(bits \ {s}) = m
    BY <2>2, <2>6, NumberIs, SMT
  <2>8. QED
    BY <1>1, <1>8, <2>2, <2>5, <2>7, PowersAre, SMT DEF SignExtended
<1>9. QED
  BY <1>2, <1>3, <1>4, <1>5, <1>6, <1>7, <1>8

LEMMA SmallAre ==
  /\ \A n \in Small : n \in Nat
  /\ \A n \in Nat : n < 128 => n \in Small
  BY SMT DEF Small

LEMMA FieldAt ==
  ASSUME NEW w, NEW lo \in 0 .. 31, NEW hi \in 0 .. 31, NEW n \in Small,
         BitsOf(n) \subseteq 0 .. hi - lo,
         \A p \in lo .. hi : p \in w <=> p \in At(n, lo)
  PROVE  Field(w, hi, lo) = n
<1>1. ASSUME NEW k \in 0 .. hi - lo
      PROVE  lo + k \in w <=> k \in BitsOf(n)
  <2>1. PICK p \in lo .. hi : p = lo + k /\ p \in lo .. 31 /\ p - lo = k
    OBVIOUS
  <2>2. p \in At(n, lo) <=> k \in BitsOf(n)
    <3>1. n \in Int
      BY SmallAre
    <3>2. p \in At(n, lo) <=> p \in lo .. 31 /\ p - lo \in BitsOf(n)
      BY <3>1, InAt
    <3>3. QED
      BY <2>1, <3>2
  <2>3. QED
    BY <2>1, <2>2
<1>2. QED
  BY <1>1, FieldIs

\* The fields of a 32-bit instruction.
LEMMA MajorIs ==
  ASSUME NEW w, NEW n \in Nat, n < 128, \A p \in 0 .. 6 : p \in w <=> p \in At(n, 0)
  PROVE  Major(w) = n
<1>1. BitsOf(n) \subseteq 0 .. 6 - 0 /\ n \in Small
  BY FewBits, SmallAre
<1>2. QED
  BY <1>1, FieldAt DEF Major

LEMMA RdIs ==
  ASSUME NEW w, NEW n \in Nat, n < 32, \A p \in 7 .. 11 : p \in w <=> p \in At(n, 7)
  PROVE  Rd(w) = n
<1>1. BitsOf(n) \subseteq 0 .. 11 - 7 /\ n \in Small
  BY FewBits, SmallAre
<1>2. QED
  BY <1>1, FieldAt DEF Rd

LEMMA Funct3Is ==
  ASSUME NEW w, NEW n \in Nat, n < 8, \A p \in 12 .. 14 : p \in w <=> p \in At(n, 12)
  PROVE  Funct3(w) = n
<1>1. BitsOf(n) \subseteq 0 .. 14 - 12 /\ n \in Small
  BY FewBits, SmallAre
<1>2. QED
  BY <1>1, FieldAt DEF Funct3

LEMMA Rs1Is ==
  ASSUME NEW w, NEW n \in Nat, n < 32, \A p \in 15 .. 19 : p \in w <=> p \in At(n, 15)
  PROVE  Rs1(w) = n
<1>1. BitsOf(n) \subseteq 0 .. 19 - 15 /\ n \in Small
  BY FewBits, SmallAre
<1>2. QED
  BY <1>1, FieldAt DEF Rs1

LEMMA Rs2Is ==
  ASSUME NEW w, NEW n \in Nat, n < 32, \A p \in 20 .. 24 : p \in w <=> p \in At(n, 20)
  PROVE  Rs2(w) = n
<1>1. BitsOf(n) \subseteq 0 .. 24 - 20 /\ n \in Small
  BY FewBits, SmallAre
<1>2. QED
  BY <1>1, FieldAt DEF Rs2

LEMMA Funct7Is ==
  ASSUME NEW w, NEW n \in Nat, n < 128, \A p \in 25 .. 31 : p \in w <=> p \in At(n, 25)
  PROVE  Funct7(w) = n
<1>1. BitsOf(n) \subseteq 0 .. 31 - 25 /\ n \in Small
  BY FewBits, SmallAre
<1>2. QED
  BY <1>1, FieldAt DEF Funct7

LEMMA Funct5Is ==
  ASSUME NEW w, NEW n \in Nat, n < 32, \A p \in 27 .. 31 : p \in w <=> p \in At(n, 27)
  PROVE  Funct5(w) = n
<1>1. BitsOf(n) \subseteq 0 .. 31 - 27 /\ n \in Small
  BY FewBits, SmallAre
<1>2. QED
  BY <1>1, FieldAt DEF Funct5

LEMMA FmtIs ==
  ASSUME NEW w, NEW n \in Nat, n < 4, \A p \in 25 .. 26 : p \in w <=> p \in At(n, 25)
  PROVE  Fmt(w) = n
<1>1. BitsOf(n) \subseteq 0 .. 26 - 25 /\ n \in Small
  BY FewBits, SmallAre
<1>2. QED
  BY <1>1, FieldAt DEF Fmt

LEMMA Places ==
  ASSUME NEW lo \in 0 .. 31, NEW n \in Nat
  PROVE  /\ n < 4 => At(n, lo) \subseteq lo .. lo + 1
         /\ n < 8 => At(n, lo) \subseteq lo .. lo + 2
         /\ n < 32 => At(n, lo) \subseteq lo .. lo + 4
         /\ n < 64 => At(n, lo) \subseteq lo .. lo + 5
         /\ n < 128 => At(n, lo) \subseteq lo .. lo + 6
<1>1. ASSUME NEW p \in At(n, lo)
      PROVE  p \in lo .. 31 /\ p - lo \in BitsOf(n)
  BY InAt DEF At, Run
<1>2. QED
  BY <1>1, FewBits

\* A word with a number in each field.
RWord(major, d, f3, s1, s2, f7) ==
    At(major, 0) \cup At(d, 7) \cup At(f3, 12) \cup At(s1, 15) \cup At(s2, 20) \cup At(f7, 25)

LEMMA RFields ==
  ASSUME NEW major, NEW d, NEW f3, NEW s1, NEW s2, NEW f7, NEW w,
         major \in Nat, major < 128, d \in Nat, d < 32, f3 \in Nat, f3 < 8,
         s1 \in Nat, s1 < 32, s2 \in Nat, s2 < 32, f7 \in Nat, f7 < 128,
         w = RWord(major, d, f3, s1, s2, f7)
  PROVE  /\ Major(w) = major /\ Rd(w) = d /\ Funct3(w) = f3 /\ Rs1(w) = s1 /\ Rs2(w) = s2
         /\ Funct7(w) = f7 /\ Both(w) = f3 + 8 * f7
<1>1. /\ At(major, 0) \subseteq 0 .. 6 /\ At(d, 7) \subseteq 7 .. 11
      /\ At(f3, 12) \subseteq 12 .. 14 /\ At(s1, 15) \subseteq 15 .. 19
      /\ At(s2, 20) \subseteq 20 .. 24 /\ At(f7, 25) \subseteq 25 .. 31
  BY Places
<1>2. /\ \A p \in 0 .. 6 : p \in w <=> p \in At(major, 0)
      /\ \A p \in 7 .. 11 : p \in w <=> p \in At(d, 7)
      /\ \A p \in 12 .. 14 : p \in w <=> p \in At(f3, 12)
      /\ \A p \in 15 .. 19 : p \in w <=> p \in At(s1, 15)
      /\ \A p \in 20 .. 24 : p \in w <=> p \in At(s2, 20)
      /\ \A p \in 25 .. 31 : p \in w <=> p \in At(f7, 25)
  BY <1>1 DEF RWord
<1>3. /\ Major(w) = major /\ Rd(w) = d /\ Funct3(w) = f3 /\ Rs1(w) = s1 /\ Rs2(w) = s2
      /\ Funct7(w) = f7
  BY <1>2, MajorIs, RdIs, Funct3Is, Rs1Is, Rs2Is, Funct7Is
<1>4. QED
  BY <1>3 DEF Both

--------------------------------------------------------------------------------
(* Immediates of packed words.                                               *)

LEMMA ImmIIs ==
  ASSUME NEW w, NEW n \in Int, - 2048 <= n, n < 2048,
         \A p \in 20 .. 31 : p \in w <=> p - 20 \in BitsOf(n)
  PROVE  ImmI(w) = n
<1> DEFINE bits == Laid(w, 31, <<11, 10, 9, 8, 7, 6, 5, 4, 3, 2, 1, 0>>)
<1>2. ASSUME NEW k \in 0 .. 20
      PROVE  k \in bits <=> k <= 11 /\ k \in BitsOf(n)
  BY SMT DEF Laid
<1> HIDE DEF bits
<1>3. - 2^11 <= n /\ n < 2^11
  BY PowersAre, SMT
<1>4. SignExtended(bits, 11) = n
  BY <1>2, <1>3, ExtendedIs
<1>5. QED
  BY <1>4 DEF ImmI, bits

LEMMA ImmSIs ==
  ASSUME NEW w, NEW n \in Int, - 2048 <= n, n < 2048,
         /\ \A p \in 25 .. 31 : p \in w <=> p - 20 \in BitsOf(n)
         /\ \A p \in 7 .. 11 : p \in w <=> p - 7 \in BitsOf(n)
  PROVE  ImmS(w) = n
<1> DEFINE bits == Laid(w, 31, <<11, 10, 9, 8, 7, 6, 5>>) \cup Laid(w, 11, <<4, 3, 2, 1, 0>>)
<1>2. ASSUME NEW k \in 0 .. 20
      PROVE  k \in bits <=> k <= 11 /\ k \in BitsOf(n)
  BY SMT DEF Laid
<1> HIDE DEF bits
<1>3. - 2^11 <= n /\ n < 2^11
  BY PowersAre, SMT
<1>4. SignExtended(bits, 11) = n
  BY <1>2, <1>3, ExtendedIs
<1>5. QED
  BY <1>4 DEF ImmS, bits

LEMMA ImmBIs ==
  ASSUME NEW w, NEW n \in Int, - 4096 <= n, n < 4096, n % 2 = 0,
         /\ 31 \in w <=> 12 \in BitsOf(n)
         /\ \A p \in 25 .. 30 : p \in w <=> p - 20 \in BitsOf(n)
         /\ \A p \in 8 .. 11 : p \in w <=> p - 7 \in BitsOf(n)
         /\ 7 \in w <=> 11 \in BitsOf(n)
  PROVE  ImmB(w) = n
<1> DEFINE bits == Laid(w, 31, <<12, 10, 9, 8, 7, 6, 5>>) \cup Laid(w, 11, <<4, 3, 2, 1, 11>>)
<1>1. 0 \notin BitsOf(n)
  BY BitIsOdd, PowersAre DEF Odd
<1>2. ASSUME NEW k \in 0 .. 20
      PROVE  k \in bits <=> k <= 12 /\ k \in BitsOf(n)
  BY <1>1, SMT DEF Laid
<1> HIDE DEF bits
<1>3. - 2^12 <= n /\ n < 2^12
  BY PowersAre, SMT
<1>4. SignExtended(bits, 12) = n
  BY <1>2, <1>3, ExtendedIs
<1>5. QED
  BY <1>4 DEF ImmB, bits

LEMMA ImmUIs ==
  ASSUME NEW w, NEW n \in Int, - 524288 <= n, n < 524288,
         \A p \in 12 .. 31 : p \in w <=> p - 12 \in BitsOf(n)
  PROVE  ImmU(w) = n
<1> DEFINE bits == Laid(w, 31, <<19, 18, 17, 16, 15, 14, 13, 12, 11, 10, 9, 8, 7, 6, 5, 4, 3, 2, 1, 0>>)
<1>2. ASSUME NEW k \in 0 .. 20
      PROVE  k \in bits <=> k <= 19 /\ k \in BitsOf(n)
  BY SMT DEF Laid
<1> HIDE DEF bits
<1>3. - 2^19 <= n /\ n < 2^19
  BY PowersAre, SMT
<1>4. SignExtended(bits, 19) = n
  BY <1>2, <1>3, ExtendedIs
<1>5. QED
  BY <1>4 DEF ImmU, bits

LEMMA ImmJIs ==
  ASSUME NEW w, NEW n \in Int, - 1048576 <= n, n < 1048576, n % 2 = 0,
         /\ 31 \in w <=> 20 \in BitsOf(n)
         /\ \A p \in 21 .. 30 : p \in w <=> p - 20 \in BitsOf(n)
         /\ 20 \in w <=> 11 \in BitsOf(n)
         /\ \A p \in 12 .. 19 : p \in w <=> p \in BitsOf(n)
  PROVE  ImmJ(w) = n
<1> DEFINE bits == Laid(w, 31, <<20, 10, 9, 8, 7, 6, 5, 4, 3, 2, 1, 11, 19, 18, 17, 16, 15, 14, 13, 12>>)
<1>1. 0 \notin BitsOf(n)
  BY BitIsOdd, PowersAre DEF Odd
<1>2. ASSUME NEW k \in 0 .. 20
      PROVE  k \in bits <=> k <= 20 /\ k \in BitsOf(n)
  BY <1>1, SMT DEF Laid
<1> HIDE DEF bits
<1>3. - 2^20 <= n /\ n < 2^20
  BY PowersAre, SMT
<1>4. SignExtended(bits, 20) = n
  BY <1>2, <1>3, ExtendedIs
<1>5. QED
  BY <1>4 DEF ImmJ, bits

LEMMA QuadrantIs ==
  ASSUME NEW w, NEW n \in Nat, n < 4, \A p \in 0 .. 1 : p \in w <=> p \in At(n, 0)
  PROVE  Quadrant(w) = n
<1>1. BitsOf(n) \subseteq 0 .. 1 - 0 /\ n \in Small
  BY FewBits, SmallAre
<1>2. QED
  BY <1>1, FieldAt DEF Quadrant

LEMMA Funct3CIs ==
  ASSUME NEW w, NEW n \in Nat, n < 8, \A p \in 13 .. 15 : p \in w <=> p \in At(n, 13)
  PROVE  Funct3C(w) = n
<1>1. BitsOf(n) \subseteq 0 .. 15 - 13 /\ n \in Small
  BY FewBits, SmallAre
<1>2. QED
  BY <1>1, FieldAt DEF Funct3C

LEMMA Rs2CIs ==
  ASSUME NEW w, NEW n \in Nat, n < 32, \A p \in 2 .. 6 : p \in w <=> p \in At(n, 2)
  PROVE  Rs2C(w) = n
<1>1. BitsOf(n) \subseteq 0 .. 6 - 2 /\ n \in Small
  BY FewBits, SmallAre
<1>2. QED
  BY <1>1, FieldAt DEF Rs2C

LEMMA RdShortIs ==
  ASSUME NEW w, NEW n \in Nat, n < 8, \A p \in 2 .. 4 : p \in w <=> p \in At(n, 2)
  PROVE  RdShort(w) = 8 + n
<1>1. BitsOf(n) \subseteq 0 .. 4 - 2 /\ n \in Small
  BY FewBits, SmallAre
<1>2. Field(w, 4, 2) = n
  BY <1>1, FieldAt
<1>3. QED
  BY <1>2 DEF RdShort

LEMMA Rs1ShortIs ==
  ASSUME NEW w, NEW n \in Nat, n < 8, \A p \in 7 .. 9 : p \in w <=> p \in At(n, 7)
  PROVE  Rs1Short(w) = 8 + n
<1>1. BitsOf(n) \subseteq 0 .. 9 - 7 /\ n \in Small
  BY FewBits, SmallAre
<1>2. Field(w, 9, 7) = n
  BY <1>1, FieldAt
<1>3. QED
  BY <1>2 DEF Rs1Short

LEMMA AluIs ==
  ASSUME NEW w, NEW n \in Nat, n < 4, \A p \in 10 .. 11 : p \in w <=> p \in At(n, 10)
  PROVE  Field(w, 11, 10) = n
<1>1. BitsOf(n) \subseteq 0 .. 11 - 10 /\ n \in Small
  BY FewBits, SmallAre
<1>2. QED
  BY <1>1, FieldAt

LEMMA AluOpIs ==
  ASSUME NEW w, NEW n \in Nat, n < 4, \A p \in 5 .. 6 : p \in w <=> p \in At(n, 5)
  PROVE  Field(w, 6, 5) = n
<1>1. BitsOf(n) \subseteq 0 .. 6 - 5 /\ n \in Small
  BY FewBits, SmallAre
<1>2. QED
  BY <1>1, FieldAt

LEMMA ImmCIIs ==
  ASSUME NEW w, NEW n \in Int, - 32 <= n, n < 32,
         /\ 12 \in w <=> 5 \in BitsOf(n)
         /\ \A p \in 2 .. 6 : p \in w <=> p - 2 \in BitsOf(n)
  PROVE  ImmCI(w) = n
<1> DEFINE bits == Laid(w, 12, <<5>>) \cup Laid(w, 6, <<4, 3, 2, 1, 0>>)
<1>1. ASSUME NEW k \in 0 .. 20
      PROVE  k \in bits <=> k <= 5 /\ k \in BitsOf(n)
  BY SMT DEF Laid
<1> HIDE DEF bits
<1>2. - 2^5 <= n /\ n < 2^5
  BY PowersAre, SMT
<1>3. SignExtended(bits, 5) = n
  BY <1>1, <1>2, ExtendedIs
<1>4. QED
  BY <1>3 DEF ImmCI, Bits6, bits

LEMMA Bits6Is ==
  ASSUME NEW w, NEW n \in Nat, n < 64,
         /\ 12 \in w <=> 5 \in BitsOf(n)
         /\ \A p \in 2 .. 6 : p \in w <=> p - 2 \in BitsOf(n)
  PROVE  Number(Bits6(w)) = n
<1> DEFINE bits == Laid(w, 12, <<5>>) \cup Laid(w, 6, <<4, 3, 2, 1, 0>>)
<1>1. /\ 6 \notin BitsOf(n) /\ 7 \notin BitsOf(n) /\ 8 \notin BitsOf(n) /\ 9 \notin BitsOf(n)
         /\ 10 \notin BitsOf(n) /\ 11 \notin BitsOf(n) /\ 12 \notin BitsOf(n)
         /\ 13 \notin BitsOf(n) /\ 14 \notin BitsOf(n) /\ 15 \notin BitsOf(n)
         /\ 16 \notin BitsOf(n) /\ 17 \notin BitsOf(n) /\ 18 \notin BitsOf(n)
         /\ 19 \notin BitsOf(n) /\ 20 \notin BitsOf(n)
  BY BitIsOdd, PowersAre, SMT DEF Odd
<1>2. ASSUME NEW k \in 0 .. 20
      PROVE  k \in bits <=> k \in BitsOf(n)
  BY <1>1, SMT DEF Laid
<1> HIDE DEF bits
<1>3. Number(bits) = n
  BY <1>2, NumberIs, SMT
<1>4. QED
  BY <1>3 DEF Bits6, bits

LEMMA ImmSpIs ==
  ASSUME NEW w, NEW n \in Int, - 512 <= n, n < 512, n % 16 = 0,
         /\ 12 \in w <=> 9 \in BitsOf(n)
         /\ 6 \in w <=> 4 \in BitsOf(n)
         /\ 5 \in w <=> 6 \in BitsOf(n)
         /\ \A p \in 3 .. 4 : p \in w <=> p + 4 \in BitsOf(n)
         /\ 2 \in w <=> 5 \in BitsOf(n)
  PROVE  ImmSp(w) = n
<1> DEFINE bits == Laid(w, 12, <<9>>) \cup Laid(w, 6, <<4, 6, 8, 7, 5>>)
<1>1. 0 \notin BitsOf(n) /\ 1 \notin BitsOf(n) /\ 2 \notin BitsOf(n) /\ 3 \notin BitsOf(n)
  BY BitIsOdd, PowersAre DEF Odd
<1>2. ASSUME NEW k \in 0 .. 20
      PROVE  k \in bits <=> k <= 9 /\ k \in BitsOf(n)
  BY <1>1, SMT DEF Laid
<1> HIDE DEF bits
<1>3. - 2^9 <= n /\ n < 2^9
  BY PowersAre, SMT
<1>4. SignExtended(bits, 9) = n
  BY <1>2, <1>3, ExtendedIs
<1>5. QED
  BY <1>4 DEF ImmSp, bits

LEMMA ImmCBIs ==
  ASSUME NEW w, NEW n \in Int, - 256 <= n, n < 256, n % 2 = 0,
         /\ 12 \in w <=> 8 \in BitsOf(n)
         /\ \A p \in 10 .. 11 : p \in w <=> p - 7 \in BitsOf(n)
         /\ \A p \in 5 .. 6 : p \in w <=> p + 1 \in BitsOf(n)
         /\ \A p \in 3 .. 4 : p \in w <=> p - 2 \in BitsOf(n)
         /\ 2 \in w <=> 5 \in BitsOf(n)
  PROVE  ImmCB(w) = n
<1> DEFINE bits == Laid(w, 12, <<8, 4, 3>>) \cup Laid(w, 6, <<7, 6, 2, 1, 5>>)
<1>1. 0 \notin BitsOf(n)
  BY BitIsOdd, PowersAre DEF Odd
<1>2. ASSUME NEW k \in 0 .. 20
      PROVE  k \in bits <=> k <= 8 /\ k \in BitsOf(n)
  BY <1>1, SMT DEF Laid
<1> HIDE DEF bits
<1>3. - 2^8 <= n /\ n < 2^8
  BY PowersAre, SMT
<1>4. SignExtended(bits, 8) = n
  BY <1>2, <1>3, ExtendedIs
<1>5. QED
  BY <1>4 DEF ImmCB, bits

LEMMA ImmCJIs ==
  ASSUME NEW w, NEW n \in Int, - 2048 <= n, n < 2048, n % 2 = 0,
         /\ 12 \in w <=> 11 \in BitsOf(n)
         /\ 11 \in w <=> 4 \in BitsOf(n)
         /\ \A p \in 9 .. 10 : p \in w <=> p - 1 \in BitsOf(n)
         /\ 8 \in w <=> 10 \in BitsOf(n)
         /\ 7 \in w <=> 6 \in BitsOf(n)
         /\ 6 \in w <=> 7 \in BitsOf(n)
         /\ \A p \in 3 .. 5 : p \in w <=> p - 2 \in BitsOf(n)
         /\ 2 \in w <=> 5 \in BitsOf(n)
  PROVE  ImmCJ(w) = n
<1> DEFINE bits == Laid(w, 12, <<11, 4, 9, 8, 10, 6, 7, 3, 2, 1, 5>>)
<1>1. 0 \notin BitsOf(n)
  BY BitIsOdd, PowersAre DEF Odd
<1>2. ASSUME NEW k \in 0 .. 20
      PROVE  k \in bits <=> k <= 11 /\ k \in BitsOf(n)
  BY <1>1, SMT DEF Laid
<1> HIDE DEF bits
<1>3. - 2^11 <= n /\ n < 2^11
  BY PowersAre, SMT
<1>4. SignExtended(bits, 11) = n
  BY <1>2, <1>3, ExtendedIs
<1>5. QED
  BY <1>4 DEF ImmCJ, bits

LEMMA ImmWIs ==
  ASSUME NEW w, NEW n \in Nat, n < 128, n % 4 = 0,
         /\ \A p \in 10 .. 12 : p \in w <=> p - 7 \in BitsOf(n)
         /\ 6 \in w <=> 2 \in BitsOf(n)
         /\ 5 \in w <=> 6 \in BitsOf(n)
  PROVE  ImmW(w) = n
<1> DEFINE bits == Laid(w, 12, <<5, 4, 3>>) \cup Laid(w, 6, <<2, 6>>)
<1>1. 0 \notin BitsOf(n) /\ 1 \notin BitsOf(n)
  BY BitIsOdd, PowersAre DEF Odd
<1>2. /\ 7 \notin BitsOf(n) /\ 8 \notin BitsOf(n) /\ 9 \notin BitsOf(n) /\ 10 \notin BitsOf(n)
         /\ 11 \notin BitsOf(n) /\ 12 \notin BitsOf(n) /\ 13 \notin BitsOf(n)
         /\ 14 \notin BitsOf(n) /\ 15 \notin BitsOf(n) /\ 16 \notin BitsOf(n)
         /\ 17 \notin BitsOf(n) /\ 18 \notin BitsOf(n) /\ 19 \notin BitsOf(n)
         /\ 20 \notin BitsOf(n)
  BY BitIsOdd, PowersAre, SMT DEF Odd
<1>3. ASSUME NEW k \in 0 .. 20
      PROVE  k \in bits <=> k \in BitsOf(n)
  BY <1>1, <1>2, SMT DEF Laid
<1> HIDE DEF bits
<1>4. Number(bits) = n
  BY <1>3, NumberIs, SMT
<1>5. QED
  BY <1>4 DEF ImmW, bits

LEMMA ImmDIs ==
  ASSUME NEW w, NEW n \in Nat, n < 256, n % 8 = 0,
         /\ \A p \in 10 .. 12 : p \in w <=> p - 7 \in BitsOf(n)
         /\ \A p \in 5 .. 6 : p \in w <=> p + 1 \in BitsOf(n)
  PROVE  ImmD(w) = n
<1> DEFINE bits == Laid(w, 12, <<5, 4, 3>>) \cup Laid(w, 6, <<7, 6>>)
<1>1. 0 \notin BitsOf(n) /\ 1 \notin BitsOf(n) /\ 2 \notin BitsOf(n)
  BY BitIsOdd, PowersAre DEF Odd
<1>2. /\ 8 \notin BitsOf(n) /\ 9 \notin BitsOf(n) /\ 10 \notin BitsOf(n)
         /\ 11 \notin BitsOf(n) /\ 12 \notin BitsOf(n) /\ 13 \notin BitsOf(n)
         /\ 14 \notin BitsOf(n) /\ 15 \notin BitsOf(n) /\ 16 \notin BitsOf(n)
         /\ 17 \notin BitsOf(n) /\ 18 \notin BitsOf(n) /\ 19 \notin BitsOf(n)
         /\ 20 \notin BitsOf(n)
  BY BitIsOdd, PowersAre, SMT DEF Odd
<1>3. ASSUME NEW k \in 0 .. 20
      PROVE  k \in bits <=> k \in BitsOf(n)
  BY <1>1, <1>2, SMT DEF Laid
<1> HIDE DEF bits
<1>4. Number(bits) = n
  BY <1>3, NumberIs, SMT
<1>5. QED
  BY <1>4 DEF ImmD, bits

LEMMA ImmCIWIs ==
  ASSUME NEW w, NEW n \in Nat, n < 1024, n % 4 = 0,
         /\ \A p \in 11 .. 12 : p \in w <=> p - 7 \in BitsOf(n)
         /\ \A p \in 7 .. 10 : p \in w <=> p - 1 \in BitsOf(n)
         /\ 6 \in w <=> 2 \in BitsOf(n)
         /\ 5 \in w <=> 3 \in BitsOf(n)
  PROVE  ImmCIW(w) = n
<1> DEFINE bits == Laid(w, 12, <<5, 4, 9, 8, 7, 6, 2, 3>>)
<1>1. 0 \notin BitsOf(n) /\ 1 \notin BitsOf(n)
  BY BitIsOdd, PowersAre DEF Odd
<1>2. /\ 10 \notin BitsOf(n) /\ 11 \notin BitsOf(n) /\ 12 \notin BitsOf(n)
         /\ 13 \notin BitsOf(n) /\ 14 \notin BitsOf(n) /\ 15 \notin BitsOf(n)
         /\ 16 \notin BitsOf(n) /\ 17 \notin BitsOf(n) /\ 18 \notin BitsOf(n)
         /\ 19 \notin BitsOf(n) /\ 20 \notin BitsOf(n)
  BY BitIsOdd, PowersAre, SMT DEF Odd
<1>3. ASSUME NEW k \in 0 .. 20
      PROVE  k \in bits <=> k \in BitsOf(n)
  BY <1>1, <1>2, SMT DEF Laid
<1> HIDE DEF bits
<1>4. Number(bits) = n
  BY <1>3, NumberIs, SMT
<1>5. QED
  BY <1>4 DEF ImmCIW, bits

LEMMA ImmLwspIs ==
  ASSUME NEW w, NEW n \in Nat, n < 256, n % 4 = 0,
         /\ 12 \in w <=> 5 \in BitsOf(n)
         /\ \A p \in 4 .. 6 : p \in w <=> p - 2 \in BitsOf(n)
         /\ \A p \in 2 .. 3 : p \in w <=> p + 4 \in BitsOf(n)
  PROVE  ImmLwsp(w) = n
<1> DEFINE bits == Laid(w, 12, <<5>>) \cup Laid(w, 6, <<4, 3, 2, 7, 6>>)
<1>1. 0 \notin BitsOf(n) /\ 1 \notin BitsOf(n)
  BY BitIsOdd, PowersAre DEF Odd
<1>2. /\ 8 \notin BitsOf(n) /\ 9 \notin BitsOf(n) /\ 10 \notin BitsOf(n)
         /\ 11 \notin BitsOf(n) /\ 12 \notin BitsOf(n) /\ 13 \notin BitsOf(n)
         /\ 14 \notin BitsOf(n) /\ 15 \notin BitsOf(n) /\ 16 \notin BitsOf(n)
         /\ 17 \notin BitsOf(n) /\ 18 \notin BitsOf(n) /\ 19 \notin BitsOf(n)
         /\ 20 \notin BitsOf(n)
  BY BitIsOdd, PowersAre, SMT DEF Odd
<1>3. ASSUME NEW k \in 0 .. 20
      PROVE  k \in bits <=> k \in BitsOf(n)
  BY <1>1, <1>2, SMT DEF Laid
<1> HIDE DEF bits
<1>4. Number(bits) = n
  BY <1>3, NumberIs, SMT
<1>5. QED
  BY <1>4 DEF ImmLwsp, bits

LEMMA ImmLdspIs ==
  ASSUME NEW w, NEW n \in Nat, n < 512, n % 8 = 0,
         /\ 12 \in w <=> 5 \in BitsOf(n)
         /\ \A p \in 5 .. 6 : p \in w <=> p - 2 \in BitsOf(n)
         /\ \A p \in 2 .. 4 : p \in w <=> p + 4 \in BitsOf(n)
  PROVE  ImmLdsp(w) = n
<1> DEFINE bits == Laid(w, 12, <<5>>) \cup Laid(w, 6, <<4, 3, 8, 7, 6>>)
<1>1. 0 \notin BitsOf(n) /\ 1 \notin BitsOf(n) /\ 2 \notin BitsOf(n)
  BY BitIsOdd, PowersAre DEF Odd
<1>2. /\ 9 \notin BitsOf(n) /\ 10 \notin BitsOf(n) /\ 11 \notin BitsOf(n)
         /\ 12 \notin BitsOf(n) /\ 13 \notin BitsOf(n) /\ 14 \notin BitsOf(n)
         /\ 15 \notin BitsOf(n) /\ 16 \notin BitsOf(n) /\ 17 \notin BitsOf(n)
         /\ 18 \notin BitsOf(n) /\ 19 \notin BitsOf(n) /\ 20 \notin BitsOf(n)
  BY BitIsOdd, PowersAre, SMT DEF Odd
<1>3. ASSUME NEW k \in 0 .. 20
      PROVE  k \in bits <=> k \in BitsOf(n)
  BY <1>1, <1>2, SMT DEF Laid
<1> HIDE DEF bits
<1>4. Number(bits) = n
  BY <1>3, NumberIs, SMT
<1>5. QED
  BY <1>4 DEF ImmLdsp, bits

LEMMA ImmSwspIs ==
  ASSUME NEW w, NEW n \in Nat, n < 256, n % 4 = 0,
         /\ \A p \in 9 .. 12 : p \in w <=> p - 7 \in BitsOf(n)
         /\ \A p \in 7 .. 8 : p \in w <=> p - 1 \in BitsOf(n)
  PROVE  ImmSwsp(w) = n
<1> DEFINE bits == Laid(w, 12, <<5, 4, 3, 2, 7, 6>>)
<1>1. 0 \notin BitsOf(n) /\ 1 \notin BitsOf(n)
  BY BitIsOdd, PowersAre DEF Odd
<1>2. /\ 8 \notin BitsOf(n) /\ 9 \notin BitsOf(n) /\ 10 \notin BitsOf(n)
         /\ 11 \notin BitsOf(n) /\ 12 \notin BitsOf(n) /\ 13 \notin BitsOf(n)
         /\ 14 \notin BitsOf(n) /\ 15 \notin BitsOf(n) /\ 16 \notin BitsOf(n)
         /\ 17 \notin BitsOf(n) /\ 18 \notin BitsOf(n) /\ 19 \notin BitsOf(n)
         /\ 20 \notin BitsOf(n)
  BY BitIsOdd, PowersAre, SMT DEF Odd
<1>3. ASSUME NEW k \in 0 .. 20
      PROVE  k \in bits <=> k \in BitsOf(n)
  BY <1>1, <1>2, SMT DEF Laid
<1> HIDE DEF bits
<1>4. Number(bits) = n
  BY <1>3, NumberIs, SMT
<1>5. QED
  BY <1>4 DEF ImmSwsp, bits

LEMMA ImmSdspIs ==
  ASSUME NEW w, NEW n \in Nat, n < 512, n % 8 = 0,
         /\ \A p \in 10 .. 12 : p \in w <=> p - 7 \in BitsOf(n)
         /\ \A p \in 7 .. 9 : p \in w <=> p - 1 \in BitsOf(n)
  PROVE  ImmSdsp(w) = n
<1> DEFINE bits == Laid(w, 12, <<5, 4, 3, 8, 7, 6>>)
<1>1. 0 \notin BitsOf(n) /\ 1 \notin BitsOf(n) /\ 2 \notin BitsOf(n)
  BY BitIsOdd, PowersAre DEF Odd
<1>2. /\ 9 \notin BitsOf(n) /\ 10 \notin BitsOf(n) /\ 11 \notin BitsOf(n)
         /\ 12 \notin BitsOf(n) /\ 13 \notin BitsOf(n) /\ 14 \notin BitsOf(n)
         /\ 15 \notin BitsOf(n) /\ 16 \notin BitsOf(n) /\ 17 \notin BitsOf(n)
         /\ 18 \notin BitsOf(n) /\ 19 \notin BitsOf(n) /\ 20 \notin BitsOf(n)
  BY BitIsOdd, PowersAre, SMT DEF Odd
<1>3. ASSUME NEW k \in 0 .. 20
      PROVE  k \in bits <=> k \in BitsOf(n)
  BY <1>1, <1>2, SMT DEF Laid
<1> HIDE DEF bits
<1>4. Number(bits) = n
  BY <1>3, NumberIs, SMT
<1>5. QED
  BY <1>4 DEF ImmSdsp, bits

--------------------------------------------------------------------------------
(* How the formats are packed.                                               *)

\* No opcode is in two of the groups that are packed alike.
LEMMA Apart ==
  ASSUME NEW op
  PROVE  /\ op \in DOMAIN JType \cup DOMAIN BType => op \notin DOMAIN UType
         /\ op \in DOMAIN BType => op \notin DOMAIN JType
         /\ op \in DOMAIN IForm =>
               op \notin DOMAIN UType /\ op \notin DOMAIN JType /\ op \notin DOMAIN BType
         /\ op \in DOMAIN SForm =>
               /\ op \notin DOMAIN UType /\ op \notin DOMAIN JType /\ op \notin DOMAIN BType
               /\ op \notin DOMAIN IForm
         /\ op \in DOMAIN RForm =>
               /\ op \notin DOMAIN UType /\ op \notin DOMAIN JType /\ op \notin DOMAIN BType
               /\ op \notin DOMAIN IForm /\ op \notin DOMAIN SForm
         /\ op \in DOMAIN AmoForm =>
               /\ op \notin DOMAIN UType /\ op \notin DOMAIN JType /\ op \notin DOMAIN BType
               /\ op \notin DOMAIN IForm /\ op \notin DOMAIN SForm /\ op \notin DOMAIN RForm
         /\ op \in DOMAIN FloatForm =>
               /\ op \notin DOMAIN UType /\ op \notin DOMAIN JType /\ op \notin DOMAIN BType
               /\ op \notin DOMAIN IForm /\ op \notin DOMAIN SForm /\ op \notin DOMAIN RForm
               /\ op \notin DOMAIN AmoForm
         /\ op \in Compressed =>
               /\ op \notin DOMAIN UType /\ op \notin DOMAIN JType /\ op \notin DOMAIN BType
               /\ op \notin DOMAIN IForm /\ op \notin DOMAIN SForm /\ op \notin DOMAIN RForm
               /\ op \notin DOMAIN AmoForm /\ op \notin DOMAIN FloatForm
<1>1. /\ op \in DOMAIN JType \cup DOMAIN BType => op \notin DOMAIN UType
      /\ op \in DOMAIN BType => op \notin DOMAIN JType
  BY OpcodeTables
<1>2. ASSUME op \in DOMAIN IForm
      PROVE  /\ op \notin DOMAIN UType /\ op \notin DOMAIN JType /\ op \notin DOMAIN BType
  BY <1>2, OpcodeTables, ArithmeticTables, SystemTables, SMTT(30)
  DEF IForm, Joined, Names
<1>3. ASSUME op \in DOMAIN SForm
      PROVE  /\ op \notin DOMAIN UType /\ op \notin DOMAIN JType /\ op \notin DOMAIN BType
             /\ op \notin DOMAIN IForm
  BY <1>3, OpcodeTables, ArithmeticTables, SystemTables, SMTT(30)
  DEF IForm, SForm, Joined, Names
<1>4. ASSUME op \in DOMAIN RForm
      PROVE  /\ op \notin DOMAIN UType /\ op \notin DOMAIN JType /\ op \notin DOMAIN BType
             /\ op \notin DOMAIN IForm /\ op \notin DOMAIN SForm
  BY <1>4, OpcodeTables, ArithmeticTables, SystemTables, SMTT(30)
  DEF IForm, SForm, RForm, Joined, Names
<1>5. ASSUME op \in DOMAIN AmoForm
      PROVE  /\ op \notin DOMAIN UType /\ op \notin DOMAIN JType /\ op \notin DOMAIN BType
             /\ op \notin DOMAIN IForm /\ op \notin DOMAIN SForm /\ op \notin DOMAIN RForm
  BY <1>5, OpcodeTables, ArithmeticTables, SystemTables, AmoTables, SMTT(30)
  DEF IForm, SForm, RForm, AmoForm, Joined, Names
<1>6. ASSUME op \in DOMAIN FloatForm
      PROVE  /\ op \notin DOMAIN UType /\ op \notin DOMAIN JType /\ op \notin DOMAIN BType
             /\ op \notin DOMAIN IForm /\ op \notin DOMAIN SForm /\ op \notin DOMAIN RForm
             /\ op \notin DOMAIN AmoForm
  BY <1>6, OpcodeTables, ArithmeticTables, SystemTables, AmoTables, FloatTables, SMTT(30)
  DEF IForm, SForm, RForm, AmoForm, FloatForm, FloatTypes, Joined, Names
<1>7. ASSUME op \in Compressed
      PROVE  /\ op \notin DOMAIN UType /\ op \notin DOMAIN JType /\ op \notin DOMAIN BType
             /\ op \notin DOMAIN IForm /\ op \notin DOMAIN SForm /\ op \notin DOMAIN RForm
             /\ op \notin DOMAIN AmoForm /\ op \notin DOMAIN FloatForm
  <2>1. NoOtherFormat(op)
    BY <1>7, CompressedIs, OtherFormats
  <2>2. op \notin DOMAIN IForm /\ op \notin DOMAIN SForm
    BY <2>1 DEF NoOtherFormat, IForm, SForm, Joined, Names
  <2>3. op \notin DOMAIN RForm /\ op \notin DOMAIN AmoForm
    BY <2>1 DEF NoOtherFormat, RForm, AmoForm, Joined, Names
  <2>4. op \notin DOMAIN FloatForm
    BY <2>1 DEF NoOtherFormat, FloatForm, FloatTypes, Joined, Names
  <2>5. QED
    BY <2>1, <2>2, <2>3, <2>4 DEF NoOtherFormat
<1>8. QED
  BY <1>1, <1>2, <1>3, <1>4, <1>5, <1>6, <1>7

LEMMA PackedU ==
  ASSUME NEW x, x.op \in DOMAIN UType
  PROVE  Packed(x) = PackU(UType[x.op], x.rd, BitsOf(x.imm))
  BY Apart DEF Packed

LEMMA PackedJ ==
  ASSUME NEW x, x.op \in DOMAIN JType
  PROVE  Packed(x) = PackJ(JType[x.op], x.rd, BitsOf(x.imm))
  BY Apart DEF Packed

LEMMA PackedB ==
  ASSUME NEW x, x.op \in DOMAIN BType
  PROVE  Packed(x) = PackB(BType[x.op], x.rs1, x.rs2, BitsOf(x.imm))
  BY Apart DEF Packed

LEMMA PackedI ==
  ASSUME NEW x, x.op \in DOMAIN IForm
  PROVE  Packed(x) = PackI(IForm[x.op], x.rd, x.rs1, BitsOf(x.imm))
  BY Apart DEF Packed

LEMMA PackedS ==
  ASSUME NEW x, x.op \in DOMAIN SForm
  PROVE  Packed(x) = PackS(SForm[x.op], x.rs1, x.rs2, BitsOf(x.imm))
  BY Apart DEF Packed

LEMMA PackedR ==
  ASSUME NEW x, x.op \in DOMAIN RForm
  PROVE  Packed(x) = R(RForm[x.op], x.rd, x.rs1, x.rs2)
  BY Apart DEF Packed

LEMMA PackedAmo ==
  ASSUME NEW x, x.op \in DOMAIN AmoForm
  PROVE  Packed(x) = R(AmoForm[x.op], x.rd, x.rs1, x.rs2) \cup Run(BitsOf(x.imm), 31, 0, 25)
  BY Apart DEF Packed

LEMMA PackedFloat ==
  ASSUME NEW x, x.op \in DOMAIN FloatForm
  PROVE  Packed(x) = R4(FloatForm[x.op], x.rd, x.rs1, x.rs2, x.rs3)
                     \cup Run(BitsOf(x.imm), 31, 0, 12)
  BY Apart DEF Packed

LEMMA Nothing == \A lo : At(0, lo) = {}
<1>1. BitsOf(0) = {}
  <2>1. ASSUME NEW k \in BitsOf(0)
        PROVE  FALSE
    <3>1. k \in 0 .. 4
      BY FewBits
    <3>2. Odd(0, k)
      BY <3>1, BitIsOdd
    <3>3. ~Odd(0, 0) /\ ~Odd(0, 1) /\ ~Odd(0, 2) /\ ~Odd(0, 3) /\ ~Odd(0, 4)
      BY PowersAre DEF Odd
    <3>4. k = 0 \/ k = 1 \/ k = 2 \/ k = 3 \/ k = 4
      BY <3>1
    <3>5. QED
      BY <3>2, <3>3, <3>4
  <2>2. QED
    BY <2>1
<1>2. QED
  BY <1>1 DEF At, Run

LEMMA InRun ==
  ASSUME NEW w, NEW hi \in Int, NEW lo \in Int, NEW n \in Int, NEW p \in 0 .. 31
  PROVE  p \in Run(w, hi, lo, n) <=> lo <= p - n /\ p - n <= hi /\ p - n \in w
  BY DEF Run

\* Bits lo..hi of a word are those of a number n places lower.
HasRun(w, lo, hi, n, imm) == \A p \in lo .. hi : p \in w <=> p - n \in BitsOf(imm)
HasBit(w, p, k, imm) == p \in w <=> k \in BitsOf(imm)

\* The fields around an immediate.
LEMMA IFields ==
  ASSUME NEW major \in Nat, major < 128, NEW d \in Nat, d < 32, NEW f3 \in Nat, f3 < 8,
         NEW s1 \in Nat, s1 < 32, NEW imm \in Int,
         NEW w, w = PackI(Base(major, f3, 0, 0), d, s1, BitsOf(imm))
  PROVE  /\ Major(w) = major /\ Rd(w) = d /\ Funct3(w) = f3 /\ Rs1(w) = s1
         /\ HasRun(w, 20, 31, 20, imm)
<1>1. /\ At(major, 0) \subseteq 0 .. 6
      /\ At(d, 7) \subseteq 7 .. 11
      /\ At(f3, 12) \subseteq 12 .. 14
      /\ At(s1, 15) \subseteq 15 .. 19
  BY Places
<1> DEFINE bits == BitsOf(imm)
           run1 == Run(bits, 11, 0, 20)
<1>2. w = At(major, 0) \cup At(d, 7) \cup At(f3, 12) \cup At(s1, 15) \cup run1
  BY BaseBits, Nothing DEF PackI, R
<1> HIDE DEF bits
<1>3. /\ \A p \in 0 .. 31 : p \in run1 <=> 20 <= p /\ p <= 31 /\ p - 20 \in bits
  BY DEF Run
<1> HIDE DEF run1
<1>4. /\ \A p \in 0 .. 6 : p \in w <=> p \in At(major, 0)
      /\ \A p \in 7 .. 11 : p \in w <=> p \in At(d, 7)
      /\ \A p \in 12 .. 14 : p \in w <=> p \in At(f3, 12)
      /\ \A p \in 15 .. 19 : p \in w <=> p \in At(s1, 15)
      /\ \A p \in 20 .. 31 : p \in w <=> p - 20 \in bits
  BY <1>1, <1>2, <1>3
<1>5. QED
  BY <1>4, MajorIs, RdIs, Funct3Is, Rs1Is DEF bits, HasRun

LEMMA SFields ==
  ASSUME NEW major \in Nat, major < 128, NEW f3 \in Nat, f3 < 8, NEW s1 \in Nat, s1 < 32,
         NEW s2 \in Nat, s2 < 32, NEW imm \in Int,
         NEW w, w = PackS(Base(major, f3, 0, 0), s1, s2, BitsOf(imm))
  PROVE  /\ Major(w) = major /\ Funct3(w) = f3 /\ Rs1(w) = s1 /\ Rs2(w) = s2
         /\ HasRun(w, 7, 11, 7, imm)
         /\ HasRun(w, 25, 31, 20, imm)
<1>1. /\ At(major, 0) \subseteq 0 .. 6
      /\ At(f3, 12) \subseteq 12 .. 14
      /\ At(s1, 15) \subseteq 15 .. 19
      /\ At(s2, 20) \subseteq 20 .. 24
  BY Places
<1> DEFINE bits == BitsOf(imm)
           run1 == Run(bits, 4, 0, 7)
           run2 == Run(bits, 11, 5, 20)
<1>2. w = At(major, 0) \cup At(f3, 12) \cup At(s1, 15) \cup At(s2, 20) \cup run1 \cup run2
  BY BaseBits, Nothing DEF PackS, R
<1> HIDE DEF bits
<1>3. /\ \A p \in 0 .. 31 : p \in run1 <=> 7 <= p /\ p <= 11 /\ p - 7 \in bits
      /\ \A p \in 0 .. 31 : p \in run2 <=> 25 <= p /\ p <= 31 /\ p - 20 \in bits
  BY DEF Run
<1> HIDE DEF run1, run2
<1>4. /\ \A p \in 0 .. 6 : p \in w <=> p \in At(major, 0)
      /\ \A p \in 12 .. 14 : p \in w <=> p \in At(f3, 12)
      /\ \A p \in 15 .. 19 : p \in w <=> p \in At(s1, 15)
      /\ \A p \in 20 .. 24 : p \in w <=> p \in At(s2, 20)
      /\ \A p \in 7 .. 11 : p \in w <=> p - 7 \in bits
      /\ \A p \in 25 .. 31 : p \in w <=> p - 20 \in bits
  BY <1>1, <1>2, <1>3
<1>5. QED
  BY <1>4, MajorIs, Funct3Is, Rs1Is, Rs2Is DEF bits, HasRun, HasBit

BranchFields(w, major, f3, s1, s2, imm) ==
    /\ Major(w) = major /\ Funct3(w) = f3 /\ Rs1(w) = s1 /\ Rs2(w) = s2
    /\ HasBit(w, 7, 11, imm) /\ HasRun(w, 8, 11, 7, imm)
    /\ HasRun(w, 25, 30, 20, imm) /\ HasBit(w, 31, 12, imm)

LEMMA BFields ==
  ASSUME NEW major \in Nat, major < 128, NEW f3 \in Nat, f3 < 8, NEW s1 \in Nat, s1 < 32,
         NEW s2 \in Nat, s2 < 32, NEW imm \in Int,
         NEW w, w = PackB(Base(major, f3, 0, 0), s1, s2, BitsOf(imm))
  PROVE  BranchFields(w, major, f3, s1, s2, imm)
<1>1. /\ At(major, 0) \subseteq 0 .. 6
      /\ At(f3, 12) \subseteq 12 .. 14
      /\ At(s1, 15) \subseteq 15 .. 19
      /\ At(s2, 20) \subseteq 20 .. 24
  BY Places
<1> DEFINE bits == BitsOf(imm)
           run1 == Run(bits, 11, 11, -4)
           run2 == Run(bits, 4, 1, 7)
           run3 == Run(bits, 10, 5, 20)
           run4 == Run(bits, 12, 12, 19)
<1>2. w = At(major, 0) \cup At(f3, 12) \cup At(s1, 15) \cup At(s2, 20) \cup run1 \cup run2
          \cup run3 \cup run4
  <2>1. R(Base(major, f3, 0, 0), 0, s1, s2)
            = At(major, 0) \cup At(f3, 12) \cup At(s1, 15) \cup At(s2, 20)
    BY BaseBits, Nothing DEF R
  <2>2. QED
    BY <2>1, Zenon DEF PackB
<1> HIDE DEF bits
<1>3. /\ \A p \in 0 .. 31 : p \in run1 <=> p = 7 /\ 11 \in bits
      /\ \A p \in 0 .. 31 : p \in run2 <=> 8 <= p /\ p <= 11 /\ p - 7 \in bits
      /\ \A p \in 0 .. 31 : p \in run3 <=> 25 <= p /\ p <= 30 /\ p - 20 \in bits
      /\ \A p \in 0 .. 31 : p \in run4 <=> p = 31 /\ 12 \in bits
  BY DEF Run
<1> HIDE DEF run1, run2, run3, run4
<1>4. /\ \A p \in 0 .. 6 : p \in w <=> p \in At(major, 0)
      /\ \A p \in 12 .. 14 : p \in w <=> p \in At(f3, 12)
      /\ \A p \in 15 .. 19 : p \in w <=> p \in At(s1, 15)
      /\ \A p \in 20 .. 24 : p \in w <=> p \in At(s2, 20)
      /\ 7 \in w <=> 11 \in bits
      /\ \A p \in 8 .. 11 : p \in w <=> p - 7 \in bits
      /\ \A p \in 25 .. 30 : p \in w <=> p - 20 \in bits
      /\ 31 \in w <=> 12 \in bits
  BY <1>1, <1>2, <1>3
<1>5. QED
  BY <1>4, MajorIs, Funct3Is, Rs1Is, Rs2Is DEF bits, HasRun, HasBit, BranchFields

LEMMA UFields ==
  ASSUME NEW major \in Nat, major < 128, NEW d \in Nat, d < 32, NEW imm \in Int,
         NEW w, w = PackU(Base(major, 0, 0, 0), d, BitsOf(imm))
  PROVE  /\ Major(w) = major /\ Rd(w) = d
         /\ HasRun(w, 12, 31, 12, imm)
<1>1. /\ At(major, 0) \subseteq 0 .. 6
      /\ At(d, 7) \subseteq 7 .. 11
  BY Places
<1> DEFINE bits == BitsOf(imm)
           run1 == Run(bits, 19, 0, 12)
<1>2. w = At(major, 0) \cup At(d, 7) \cup run1
  BY BaseBits, Nothing DEF PackU
<1> HIDE DEF bits
<1>3. /\ \A p \in 0 .. 31 : p \in run1 <=> 12 <= p /\ p <= 31 /\ p - 12 \in bits
  BY InRun
<1> HIDE DEF run1
<1>4. /\ \A p \in 0 .. 6 : p \in w <=> p \in At(major, 0)
      /\ \A p \in 7 .. 11 : p \in w <=> p \in At(d, 7)
      /\ \A p \in 12 .. 31 : p \in w <=> p - 12 \in bits
  BY <1>1, <1>2, <1>3
<1>5. QED
  BY <1>4, MajorIs, RdIs DEF bits, HasRun

LEMMA JFields ==
  ASSUME NEW major \in Nat, major < 128, NEW d \in Nat, d < 32, NEW imm \in Int,
         NEW w, w = PackJ(Base(major, 0, 0, 0), d, BitsOf(imm))
  PROVE  /\ Major(w) = major /\ Rd(w) = d
         /\ HasRun(w, 12, 19, 0, imm)
         /\ 20 \in w <=> 11 \in BitsOf(imm)
         /\ HasRun(w, 21, 30, 20, imm)
         /\ 31 \in w <=> 20 \in BitsOf(imm)
<1>1. /\ At(major, 0) \subseteq 0 .. 6
      /\ At(d, 7) \subseteq 7 .. 11
  BY Places
<1> DEFINE bits == BitsOf(imm)
           run1 == Run(bits, 19, 12, 0)
           run2 == Run(bits, 11, 11, 9)
           run3 == Run(bits, 10, 1, 20)
           run4 == Run(bits, 20, 20, 11)
<1>2. w = At(major, 0) \cup At(d, 7) \cup run1 \cup run2 \cup run3 \cup run4
  BY BaseBits, Nothing DEF PackJ
<1> HIDE DEF bits
<1>3. /\ \A p \in 0 .. 31 : p \in run1 <=> 12 <= p /\ p <= 19 /\ p \in bits
      /\ \A p \in 0 .. 31 : p \in run2 <=> p = 20 /\ 11 \in bits
      /\ \A p \in 0 .. 31 : p \in run3 <=> 21 <= p /\ p <= 30 /\ p - 20 \in bits
      /\ \A p \in 0 .. 31 : p \in run4 <=> p = 31 /\ 20 \in bits
  BY DEF Run
<1> HIDE DEF run1, run2, run3, run4
<1>4. /\ \A p \in 0 .. 6 : p \in w <=> p \in At(major, 0)
      /\ \A p \in 7 .. 11 : p \in w <=> p \in At(d, 7)
      /\ \A p \in 12 .. 19 : p \in w <=> p \in bits
      /\ 20 \in w <=> 11 \in bits
      /\ \A p \in 21 .. 30 : p \in w <=> p - 20 \in bits
      /\ 31 \in w <=> 20 \in bits
  BY <1>1, <1>2, <1>3
<1>5. QED
  BY <1>4, MajorIs, RdIs DEF bits, HasRun

\* Seven bits are five and two.
LEMMA FiveAndTwo ==
  ASSUME NEW a \in Nat, a < 32, NEW b \in Nat, b < 4
  PROVE  At(4 * a + b, 25) = At(a, 27) \cup At(b, 25)
<1>1. PICK n \in Nat : n = 4 * a + b /\ n < 128
  OBVIOUS
<1>2. /\ Odd(n, 0) <=> Odd(b, 0)
      /\ Odd(n, 1) <=> Odd(b, 1)
      /\ Odd(n, 2) <=> Odd(a, 0)
      /\ Odd(n, 3) <=> Odd(a, 1)
      /\ Odd(n, 4) <=> Odd(a, 2)
      /\ Odd(n, 5) <=> Odd(a, 3)
      /\ Odd(n, 6) <=> Odd(a, 4)
  BY <1>1, PowersAre, SMT DEF Odd
<1>3. BitsOf(n) \subseteq 0 .. 6 /\ BitsOf(a) \subseteq 0 .. 4 /\ BitsOf(b) \subseteq 0 .. 1
  BY <1>1, FewBits
<1>4. ASSUME NEW p \in 25 .. 31
      PROVE  p \in At(n, 25) <=> p \in At(a, 27) \cup At(b, 25)
  <2>1. CASE p \in 25 .. 26
    BY <1>2, <1>3, <2>1, BitIsOdd, InAt
  <2>2. CASE p \in 27 .. 31
    BY <1>2, <1>3, <2>2, BitIsOdd, InAt
  <2>3. QED
    BY <2>1, <2>2
<1>5. At(n, 25) \subseteq 25 .. 31 /\ At(a, 27) \subseteq 25 .. 31 /\ At(b, 25) \subseteq 25 .. 31
  BY <1>1, Places
<1>6. QED
  BY <1>1, <1>4, <1>5

\* Shift amounts are five bits and one, of which the fixed bits have none.
LEMMA OneAndFive ==
  ASSUME NEW g \in Nat, g < 64, NEW n \in Nat, n < 64
  PROVE  At(n, 20) \cup At(2 * g, 25) = At(n % 32, 20) \cup At(2 * g + n \div 32, 25)
<1>1. PICK h \in Nat, low \in Nat : /\ h = n \div 32 /\ h < 2 /\ low = n % 32 /\ low < 32
                                    /\ n = 32 * h + low
  OBVIOUS
<1>2. PICK e \in Nat, s \in Nat : e = 2 * g /\ s = 2 * g + h /\ e < 128 /\ s < 128
  BY <1>1
<1>3. /\ Odd(n, 0) <=> Odd(low, 0)
      /\ Odd(n, 1) <=> Odd(low, 1)
      /\ Odd(n, 2) <=> Odd(low, 2)
      /\ Odd(n, 3) <=> Odd(low, 3)
      /\ Odd(n, 4) <=> Odd(low, 4)
      /\ Odd(n, 5) <=> Odd(s, 0)
  BY <1>1, <1>2, PowersAre, SMT DEF Odd
<1>4. /\ ~Odd(e, 0)
      /\ Odd(e, 1) <=> Odd(s, 1)
      /\ Odd(e, 2) <=> Odd(s, 2)
      /\ Odd(e, 3) <=> Odd(s, 3)
      /\ Odd(e, 4) <=> Odd(s, 4)
      /\ Odd(e, 5) <=> Odd(s, 5)
      /\ Odd(e, 6) <=> Odd(s, 6)
  BY <1>1, <1>2, PowersAre, SMT DEF Odd
<1>5. /\ BitsOf(n) \subseteq 0 .. 5 /\ BitsOf(low) \subseteq 0 .. 4
      /\ BitsOf(e) \subseteq 0 .. 6 /\ BitsOf(s) \subseteq 0 .. 6
  BY <1>1, <1>2, FewBits
<1>6. ASSUME NEW p \in 20 .. 31
      PROVE  p \in At(n, 20) \cup At(e, 25) <=> p \in At(low, 20) \cup At(s, 25)
  <2>1. CASE p \in 20 .. 24
    BY <1>3, <1>5, <2>1, BitIsOdd, InAt
  <2>2. CASE p = 25
    BY <1>3, <1>4, <1>5, <2>2, BitIsOdd, InAt
  <2>3. CASE p \in 26 .. 31
    BY <1>4, <1>5, <2>3, BitIsOdd, InAt
  <2>4. QED
    BY <2>1, <2>2, <2>3
<1>7. /\ At(n, 20) \subseteq 20 .. 31 /\ At(low, 20) \subseteq 20 .. 31
      /\ At(e, 25) \subseteq 20 .. 31 /\ At(s, 25) \subseteq 20 .. 31
  <2>1. At(n, 20) \subseteq 20 .. 25 /\ At(low, 20) \subseteq 20 .. 24
    BY <1>1, Places
  <2>2. At(e, 25) \subseteq 25 .. 31 /\ At(s, 25) \subseteq 25 .. 31
    BY <1>1, <1>2, Places
  <2>3. QED
    BY <2>1, <2>2
<1>8. At(n, 20) \cup At(e, 25) = At(low, 20) \cup At(s, 25)
  BY <1>6, <1>7
<1>9. QED
  BY <1>1, <1>2, <1>8

\* How a number in a field is put together.
Quarters(n, high, low) == n = 4 * high + low
Halves(n, high, low) == n = 2 * high + low
Split(n, high, low) == n = 32 * high + low /\ low < 32
Sum(n, a, b) == n = a + b

\* Words with a number in each field.
LEMMA RIsWord ==
  ASSUME NEW major, NEW d, NEW f3, NEW s1, NEW s2, NEW r2, NEW f7,
         major \in Nat, major < 128, d \in Nat, d < 32, f3 \in Nat, f3 < 8,
         s1 \in Nat, s1 < 32, s2 \in Nat, s2 < 32, f7 \in Nat, f7 < 128,
         r2 \in Nat, r2 < 32, r2 = 0 \/ s2 = 0
  PROVE  R(Base(major, f3, r2, f7), d, s1, s2) = RWord(major, d, f3, s1, r2 + s2, f7)
<1>1. At(r2, 20) \cup At(s2, 20) = At(r2 + s2, 20)
  BY Nothing
<1>2. BitsOf(Base(major, f3, r2, f7))
          = At(major, 0) \cup At(f3, 12) \cup At(r2, 20) \cup At(f7, 25)
  BY BaseBits
<1>3. QED
  BY <1>1, <1>2 DEF R, RWord

PackAmo(base, d, s1, s2, imm) == R(base, d, s1, s2) \cup Run(BitsOf(imm), 31, 0, 25)

LEMMA AmoIsWord ==
  ASSUME NEW major, NEW d, NEW f3, NEW s1, NEW s2, NEW f5, NEW imm, NEW e, NEW f7,
         major \in Nat, major < 128, d \in Nat, d < 32, f3 \in Nat, f3 < 8,
         s1 \in Nat, s1 < 32, s2 \in Nat, s2 < 32, f5 \in Nat, f5 < 32,
         imm \in Nat, imm < 4, Quarters(e, f5, 0), Quarters(f7, f5, imm)
  PROVE  PackAmo(Base(major, f3, 0, e), d, s1, s2, imm) = RWord(major, d, f3, s1, s2, f7)
<1>1. e \in Nat /\ e < 128 /\ e = 4 * f5 /\ f7 = 4 * f5 + imm
  BY DEF Quarters
<1>2. R(Base(major, f3, 0, e), d, s1, s2) = RWord(major, d, f3, s1, 0 + s2, e)
  BY <1>1, RIsWord
<1>3. At(4 * f5 + imm, 25) = At(f5, 27) \cup At(imm, 25)
  BY FiveAndTwo
<1>4. At(4 * f5 + 0, 25) = At(f5, 27) \cup At(0, 25)
  BY FiveAndTwo
<1>5. At(f7, 25) = At(e, 25) \cup At(imm, 25)
  <2>1. 4 * f5 + 0 = e
    BY <1>1
  <2>2. At(e, 25) = At(f5, 27)
    BY <1>4, <2>1, Nothing
  <2>3. QED
    BY <1>1, <1>3, <2>2
<1>6. Run(BitsOf(imm), 31, 0, 25) = At(imm, 25)
  BY DEF At
<1>7. QED
  BY <1>2, <1>5, <1>6 DEF RWord, PackAmo

LEMMA ShiftIsWord ==
  ASSUME NEW major, NEW d, NEW f3, NEW s1, NEW g, NEW imm, NEW e, NEW f7, NEW h, NEW low,
         major \in Nat, major < 128, d \in Nat, d < 32, f3 \in Nat, f3 < 8,
         s1 \in Nat, s1 < 32, g \in Nat, g < 64, imm \in Nat, imm < 64,
         h \in Nat, low \in Nat, Split(imm, h, low), Halves(e, g, 0), Halves(f7, g, h)
  PROVE  PackI(Base(major, f3, 0, e), d, s1, BitsOf(imm)) = RWord(major, d, f3, s1, low, f7)
<1>1. e \in Nat /\ e < 128 /\ e = 2 * g /\ f7 = 2 * g + imm \div 32 /\ low = imm % 32
  BY DEF Halves, Split
<1>2. R(Base(major, f3, 0, e), d, s1, 0) = RWord(major, d, f3, s1, 0 + 0, e)
  BY <1>1, RIsWord
<1>3. Run(BitsOf(imm), 11, 0, 20) = At(imm, 20)
  <2>1. BitsOf(imm) \subseteq 0 .. 5
    BY FewBits
  <2> DEFINE bits == BitsOf(imm)
  <2> HIDE DEF bits
  <2>2. Run(bits, 11, 0, 20) = Run(bits, 31, 0, 20)
    BY <2>1 DEF Run, bits
  <2>3. QED
    BY <2>2 DEF At, bits
<1>4. At(imm, 20) \cup At(e, 25) = At(low, 20) \cup At(f7, 25)
  <2>1. At(imm, 20) \cup At(2 * g, 25) = At(imm % 32, 20) \cup At(2 * g + imm \div 32, 25)
    BY OneAndFive
  <2>2. QED
    BY <1>1, <2>1
<1>5. QED
  BY <1>2, <1>3, <1>4, Nothing DEF PackI, RWord

\* A rounding mode and a third register are where another instruction has zeros.
PackFloat(base, d, s1, s2, s3, imm) ==
    R4(base, d, s1, s2, s3) \cup Run(BitsOf(imm), 31, 0, 12)

LEMMA FloatIsWord ==
  ASSUME NEW major, NEW d, NEW f3, NEW s1, NEW s2, NEW r2, NEW f7, NEW s3, NEW imm,
         NEW mode, NEW second, NEW top,
         major \in Nat, major < 128, d \in Nat, d < 32, f3 \in Nat, f3 < 8,
         s1 \in Nat, s1 < 32, s2 \in Nat, s2 < 32, r2 \in Nat, r2 < 32,
         r2 = 0 \/ s2 = 0, f7 \in Nat, f7 < 128, s3 \in Nat, s3 < 32,
         s3 = 0 \/ f7 < 4, imm \in Nat, imm < 8, f3 = 0 \/ imm = 0,
         Sum(mode, f3, imm), Sum(second, r2, s2), Quarters(top, s3, f7)
  PROVE  PackFloat(Base(major, f3, r2, f7), d, s1, s2, s3, imm)
             = RWord(major, d, mode, s1, second, top)
<1>1. mode = f3 + imm /\ second = r2 + s2 /\ top = 4 * s3 + f7
  BY DEF Sum, Quarters
<1>2. R(Base(major, f3, r2, f7), d, s1, s2) = RWord(major, d, f3, s1, r2 + s2, f7)
  BY RIsWord
<1>3. At(f3, 12) \cup At(imm, 12) = At(mode, 12)
  BY <1>1, Nothing
<1>4. At(f7, 25) \cup At(s3, 27) = At(top, 25)
  <2>1. CASE s3 = 0
    BY <1>1, <2>1, Nothing
  <2>2. CASE f7 < 4
    <3>1. At(4 * s3 + f7, 25) = At(s3, 27) \cup At(f7, 25)
      BY <2>2, FiveAndTwo
    <3>2. QED
      BY <1>1, <3>1
  <2>3. QED
    BY <2>1, <2>2
<1>5. Run(BitsOf(imm), 31, 0, 12) = At(imm, 12)
  BY DEF At
<1>6. QED
  BY <1>1, <1>2, <1>3, <1>4, <1>5 DEF R4, RWord, PackFloat

LEMMA UpperFields ==
  ASSUME NEW major, NEW d, NEW f3, NEW s1, NEW s2, NEW a, NEW b, NEW f7, NEW w,
         major \in Nat, major < 128, d \in Nat, d < 32, f3 \in Nat, f3 < 8,
         s1 \in Nat, s1 < 32, s2 \in Nat, s2 < 32, a \in Nat, a < 32, b \in Nat, b < 4,
         Quarters(f7, a, b), w = RWord(major, d, f3, s1, s2, f7)
  PROVE  Funct5(w) = a /\ Fmt(w) = b
<1>1. /\ At(major, 0) \subseteq 0 .. 6 /\ At(d, 7) \subseteq 7 .. 11
      /\ At(f3, 12) \subseteq 12 .. 14 /\ At(s1, 15) \subseteq 15 .. 19
      /\ At(s2, 20) \subseteq 20 .. 24 /\ At(a, 27) \subseteq 27 .. 31
      /\ At(b, 25) \subseteq 25 .. 26
  BY Places
<1>2. w = At(major, 0) \cup At(d, 7) \cup At(f3, 12) \cup At(s1, 15) \cup At(s2, 20)
              \cup (At(a, 27) \cup At(b, 25))
  BY FiveAndTwo, Zenon DEF RWord, Quarters
<1>3. /\ \A p \in 27 .. 31 : p \in w <=> p \in At(a, 27)
      /\ \A p \in 25 .. 26 : p \in w <=> p \in At(b, 25)
  BY <1>1, <1>2
<1>4. QED
  BY <1>3, Funct5Is, FmtIs

\* A shift amount of six bits.
LEMMA SixIs ==
  ASSUME NEW w, NEW n \in Nat, n < 64, \A p \in 20 .. 25 : p \in w <=> p \in At(n, 20)
  PROVE  Field(w, 25, 20) = n
<1>1. BitsOf(n) \subseteq 0 .. 25 - 20 /\ n \in Small
  BY FewBits, SmallAre
<1>2. QED
  BY <1>1, FieldAt

LEMMA ShamtIs ==
  ASSUME NEW major, NEW d, NEW f3, NEW s1, NEW g, NEW imm, NEW f7, NEW h, NEW low, NEW w,
         major \in Nat, major < 128, d \in Nat, d < 32, f3 \in Nat, f3 < 8,
         s1 \in Nat, s1 < 32, g \in Nat, g < 64, imm \in Nat, imm < 64,
         h \in Nat, low \in Nat, Split(imm, h, low), Halves(f7, g, h),
         w = RWord(major, d, f3, s1, low, f7)
  PROVE  Field(w, 25, 20) = imm
<1>1. low = imm % 32 /\ low < 32 /\ h = imm \div 32 /\ h < 2
  BY DEF Split
<1>2. PICK e \in Nat, s \in Nat : e = 2 * g /\ e < 128 /\ s = 2 * g + h /\ s < 128 /\ s = f7
  BY <1>1 DEF Halves
<1>3. /\ At(major, 0) \subseteq 0 .. 6 /\ At(d, 7) \subseteq 7 .. 11
      /\ At(f3, 12) \subseteq 12 .. 14 /\ At(s1, 15) \subseteq 15 .. 19
  BY Places
<1>4. w = At(major, 0) \cup At(d, 7) \cup At(f3, 12) \cup At(s1, 15)
              \cup (At(imm, 20) \cup At(e, 25))
  <2>1. At(imm, 20) \cup At(e, 25) = At(low, 20) \cup At(s, 25)
    BY <1>1, <1>2, OneAndFive
  <2>2. w = At(major, 0) \cup At(d, 7) \cup At(f3, 12) \cup At(s1, 15)
                \cup At(low, 20) \cup At(s, 25)
    BY <1>1, <1>2, Zenon DEF RWord
  <2>3. QED
    BY <2>1, <2>2
<1>5. BitsOf(e) \subseteq 1 .. 6
  <2>1. BitsOf(e) \subseteq 0 .. 6
    BY <1>2, FewBits
  <2>2. ~Odd(e, 0)
    BY <1>2, PowersAre, SMT DEF Odd
  <2>3. QED
    BY <1>2, <2>1, <2>2, BitIsOdd
<1>6. At(e, 25) \subseteq 26 .. 31
  <2>1. ASSUME NEW p, p \in At(e, 25)
        PROVE  p \in 26 .. 31
    <3>1. p \in 25 .. 31 /\ p - 25 \in BitsOf(e)
      BY <1>2, <2>1, InAt
    <3>2. QED
      BY <1>5, <3>1
  <2>2. QED
    BY <2>1
<1>7. ASSUME NEW p \in 20 .. 25
      PROVE  p \in w <=> p \in At(imm, 20)
  <2>1. p \notin At(major, 0) /\ p \notin At(d, 7) /\ p \notin At(f3, 12)
        /\ p \notin At(s1, 15) /\ p \notin At(e, 25)
    BY <1>3, <1>6
  <2>2. QED
    BY <1>4, <2>1, Zenon
<1>8. \A p \in 20 .. 25 : p \in w <=> p \in At(imm, 20)
  BY <1>7
<1>9. QED
  BY <1>8, SixIs

--------------------------------------------------------------------------------
(* Alignment.                                                                *)

LEMMA Quotient ==
  ASSUME NEW n \in Nat, NEW a \in Nat \ {0}
  PROVE  /\ n \div a \in Nat /\ n % a \in 0 .. a - 1
         /\ n = a * (n \div a) + (n % a)
  OBVIOUS

LEMMA Multiple ==
  ASSUME NEW q \in Nat, NEW a \in Nat \ {0}
  PROVE  (a * q) % a = 0
  OBVIOUS

\* align_up: the next multiple, which for a positive number is not below the
\* alignment itself.
LEMMA AlignedUp ==
  ASSUME NEW n \in Nat, NEW a \in Nat \ {0}
  PROVE  /\ AlignUp(n, a) \in Nat /\ n <= AlignUp(n, a)
         /\ AlignUp(n, a) % a = 0
         /\ n # 0 => a <= AlignUp(n, a)
<1>1. PICK q \in Nat : n = a * q + (n % a)
  BY Quotient
<1>2. n % a \in 0 .. a - 1
  BY Quotient
<1>3. CASE n % a = 0
  <2>1. (a * 1) % a = 0
    BY Multiple
  <2>2. AlignUp(n, a) = n
    BY <1>3, <2>1 DEF AlignUp
  <2>3. n # 0 => a <= n
    <3>1. q = 0 \/ a <= a * q
      OBVIOUS
    <3>2. QED
      BY <1>1, <1>3, <3>1
  <2>4. QED
    BY <1>3, <2>2, <2>3
<1>4. CASE n % a # 0
  <2>1. (a - (n % a)) % a = a - (n % a)
    <3>1. a - (n % a) \in 1 .. a - 1
      BY <1>2, <1>4
    <3>2. QED
      BY <3>1
  <2>2. AlignUp(n, a) = n + (a - (n % a))
    BY <2>1 DEF AlignUp
  <2>3. a * (q + 1) = a * q + a /\ a * q \in Nat
    OBVIOUS
  <2>4. AlignUp(n, a) = a * (q + 1)
    BY <1>1, <1>2, <2>2, <2>3
  <2>5. AlignUp(n, a) % a = 0
    BY <2>4, Multiple
  <2>6. QED
    BY <1>1, <1>2, <2>2, <2>3, <2>5
<1>5. QED
  BY <1>3, <1>4

--------------------------------------------------------------------------------
(* Files and string tables grow at the end.                                  *)

IsSeq(s) == s \in Seq(Range(s))

LEMMA Appended ==
  ASSUME NEW s, IsSeq(s), NEW e
  PROVE  /\ IsSeq(Append(s, e)) /\ Len(Append(s, e)) = Len(s) + 1
         /\ Append(s, e)[Len(s) + 1] = e
         /\ \A i \in 1 .. Len(s) : Append(s, e)[i] = s[i]
         /\ Range(Append(s, e)) = Range(s) \cup {e}
         /\ Append(s, e) # <<>>
<1> DEFINE S == Range(s) \cup {e}
<1>1. s \in Seq(S) /\ e \in S
  BY DEF IsSeq
<1> HIDE DEF S
<1>2. /\ Append(s, e) \in Seq(S) /\ Len(Append(s, e)) = Len(s) + 1
      /\ Append(s, e)[Len(s) + 1] = e
      /\ \A i \in 1 .. Len(s) : Append(s, e)[i] = s[i]
  BY <1>1
<1>3. Range(Append(s, e)) = Range(s) \cup {e}
  <2>1. /\ DOMAIN s = 1 .. Len(s) /\ Len(s) \in Nat
        /\ DOMAIN Append(s, e) = 1 .. Len(s) + 1
    BY <1>1, <1>2
  <2>2. DOMAIN Append(s, e) = DOMAIN s \cup {Len(s) + 1}
    BY <2>1
  <2>3. \A i \in DOMAIN s : Append(s, e)[i] = s[i]
    BY <1>2, <2>1
  <2> HIDE DEF S
  <2>4. QED
    BY <1>2, <2>2, <2>3 DEF Range
<1>4. Append(s, e) \in Seq(Range(Append(s, e)))
  BY <1>2, <1>3 DEF S
<1>5. Append(s, e) # <<>>
  BY <1>1, <1>2
<1>6. QED
  BY <1>2, <1>3, <1>4, <1>5 DEF IsSeq

LEMMA NothingYet == IsSeq(<<>>) /\ Len(<<>>) = 0
<1>1. \A S : <<>> \in Seq(S)
  OBVIOUS
<1>2. QED
  BY <1>1 DEF IsSeq

IsFile(f) == IsSeq(f) /\ End(f) \in Nat

Piece(at, len, kind, holds) == [at |-> at, len |-> len, kind |-> kind, holds |-> holds]

\* A file that continues another one.
Extends(g, f) ==
    /\ IsFile(g) /\ Range(f) \subseteq Range(g)
    /\ f # <<>> => g # <<>> /\ g[1] = f[1]

LEMMA Transitive ==
  ASSUME NEW f, NEW g, NEW h, Extends(g, f), Extends(h, g)
  PROVE  Extends(h, f)
  BY DEF Extends

LEMMA PutExtends ==
  ASSUME NEW f, IsFile(f), NEW kind, NEW len \in Nat, NEW holds
  PROVE  /\ Extends(Put(f, kind, len, holds), f)
         /\ End(Put(f, kind, len, holds)) = End(f) + len
         /\ Piece(End(f), len, kind, holds) \in Range(Put(f, kind, len, holds))
<1> DEFINE p == Piece(End(f), len, kind, holds)
<1>1. Put(f, kind, len, holds) = Append(f, p)
  BY DEF Put, Piece
<1>2. p.at = End(f) /\ p.len = len
  BY DEF Piece
<1> HIDE DEF p
<1>3. /\ IsSeq(Append(f, p)) /\ Len(Append(f, p)) = Len(f) + 1
      /\ Append(f, p)[Len(f) + 1] = p
      /\ \A i \in 1 .. Len(f) : Append(f, p)[i] = f[i]
      /\ Range(Append(f, p)) = Range(f) \cup {p}
      /\ Append(f, p) # <<>>
  BY Appended DEF IsFile
<1>4. End(Append(f, p)) = End(f) + len
  BY <1>2, <1>3 DEF End
<1>5. f # <<>> => Append(f, p)[1] = f[1]
  <2>1. f # <<>> => Len(f) \in Nat /\ Len(f) >= 1
    BY DEF IsFile, IsSeq
  <2>2. QED
    BY <1>3, <2>1
<1>6. QED
  BY <1>1, <1>3, <1>4, <1>5 DEF Extends, IsFile, p

LEMMA FirstPiece ==
  ASSUME NEW kind, NEW len \in Nat, NEW holds
  PROVE  /\ IsFile(Put(<<>>, kind, len, holds))
         /\ Put(<<>>, kind, len, holds) # <<>>
         /\ Put(<<>>, kind, len, holds)[1] = Piece(0, len, kind, holds)
         /\ End(Put(<<>>, kind, len, holds)) = len
<1>1. IsFile(<<>>) /\ End(<<>>) = 0
  BY NothingYet DEF IsFile, End
<1>2. Put(<<>>, kind, len, holds) = <<Piece(0, len, kind, holds)>>
  BY <1>1 DEF Put, Piece
<1>3. QED
  BY <1>1, <1>2, PutExtends DEF Extends

\* It never shortens, and ends there when it has to add something.
LEMMA PadExtends ==
  ASSUME NEW f, IsFile(f), NEW n \in Nat
  PROVE  /\ Extends(Pad(f, n), f)
         /\ End(f) <= n => End(Pad(f, n)) = n
<1>1. CASE End(f) < n
  <2>1. n - End(f) \in Nat
    BY <1>1 DEF IsFile
  <2>2. Pad(f, n) = Put(f, "zero", n - End(f), <<>>)
    BY <1>1 DEF Pad
  <2>3. QED
    BY <2>1, <2>2, PutExtends DEF IsFile
<1>2. CASE ~(End(f) < n)
  BY <1>2 DEF Pad, Extends, IsFile
<1>3. QED
  BY <1>1, <1>2

StringType == [at : Nat, name : ElfNames]

LEMMA EndsInNat ==
  ASSUME NEW t \in Seq(StringType)
  PROVE  StringsEnd(t) \in Nat \ {0}
<1>1. CASE t = <<>>
  BY <1>1 DEF StringsEnd
<1>2. CASE t # <<>>
  <2>1. t[Len(t)] \in StringType
    BY <1>2
  <2>2. NameBytes[t[Len(t)].name] \in Nat
    BY <2>1, ElfFileAssumption DEF StringType
  <2>3. QED
    BY <1>2, <2>1, <2>2 DEF StringsEnd, StringType
<1>3. QED
  BY <1>1, <1>2

LEMMA StringAdded ==
  ASSUME NEW t \in Seq(StringType), NEW name \in ElfNames
  PROVE  /\ AddString(t, name) \in Seq(StringType) /\ Len(AddString(t, name)) = Len(t) + 1
         /\ \A i \in 1 .. Len(t) : AddString(t, name)[i] = t[i]
         /\ AddString(t, name)[Len(t) + 1] = [at |-> StringsEnd(t), name |-> name]
<1>1. [at |-> StringsEnd(t), name |-> name] \in StringType
  BY EndsInNat DEF StringType
<1>2. QED
  BY <1>1 DEF AddString

--------------------------------------------------------------------------------
(* The invariant.                                                            *)

Count == Len(image.sections)

\* What finish has made.
Loadables == [i \in DOMAIN image.sections |-> Loadable(image.sections[i])]
Bare == sections = Loadables
Table ==
    [Metadata(".symtab", Holding(".symtab", <<>>, rows),
              EntrySize + Len(rows) * (8 + 2 * Word), "SYMTAB", Word)
        EXCEPT !.link = Count + 1, !.entsize = EntrySize]
Tabled == sections = Loadables \o <<StringSection, Table>>

RowType == [name : Nat, value : Nat, size : Nat, section : Nat]
Row(s, at) ==
    [name |-> at, value |-> image.sections[s.section + 1].addr + s.offset,
     size |-> s.size, section |-> SectionIndex(s.section)]
Listed(m) ==
    /\ Len(strings) = m /\ Len(rows) = m
    /\ \A j \in 1 .. m : /\ strings[j].name = image.symbols[j].name
                         /\ rows[j] = Row(image.symbols[j], strings[j].at)

\* What is planned for m sections.
HeadersEnd == EhSize + Count * PhSize
PlacedAt(i) ==
    /\ offsets[i] % sections[i].align = 0 /\ sections[i].align <= offsets[i]
    /\ HeadersEnd <= offsets[i]
    /\ names[i].name = sections[i].name
    /\ image.class = 32 => sections[i].addr < Limit
Before(i, j) == i < j => offsets[i] + sections[i].size <= offsets[j]
Placed(m) ==
    /\ \A i \in 1 .. m : PlacedAt(i)
    /\ \A i \in 1 .. m : \A j \in 1 .. Len(offsets) : Before(i, j)

\* What is written.
Written(at, len, kind, holds) == Piece(at, len, kind, holds) \in Range(file)
FileHeader ==
    [entry |-> EntryPoint, phoff |-> EhSize, shoff |-> Shoff, phentsize |-> PhSize,
     phnum |-> Count, shentsize |-> ShSize, shnum |-> Count + 4, shstrndx |-> Count + 3]
Headed == file # <<>> /\ file[1] = Piece(0, EhSize, "header", FileHeader)
Segmented(m) ==
    \A i \in 1 .. m :
        Written(EhSize + (i - 1) * PhSize, PhSize, "segment", ProgramHeader(i))
Filled(m) ==
    \A i \in 1 .. m : Written(offsets[i], sections[i].size, "content", sections[i].holds)
Named == Written(offsets[Count + 3], NamesSection.size, "content", NamesSection.holds)
Described(m) ==
    \A i \in 1 .. m : Written(Shoff + i * ShSize, ShSize, "section", SectionHeader(i))

ElfTyped ==
    /\ image \in Images /\ index \in Nat \ {0}
    /\ strings \in Seq(StringType) /\ names \in Seq(StringType)
    /\ rows \in Seq(RowType) /\ offsets \in Seq(Nat)
    /\ IsFile(file)

AtStart == names = <<>> /\ offsets = <<>> /\ file = <<>>
AtSymbols ==
    /\ phase = "symbols" /\ index <= Len(image.symbols)
    /\ Bare /\ Listed(index - 1) /\ AtStart
AtTables ==
    /\ phase = "tables" /\ index = 1
    /\ Bare /\ Listed(Len(image.symbols)) /\ AtStart

Finished == Tabled /\ Listed(Len(image.symbols))
PlannedFor(m) == Len(offsets) = m /\ Len(names) = m /\ Placed(m)
AtPlan ==
    /\ phase = "plan" /\ index <= Count + 2
    /\ Finished /\ PlannedFor(index - 1) /\ file = <<>>
AtLayout ==
    /\ phase = "layout" /\ index = 1
    /\ Finished /\ PlannedFor(Count + 2) /\ file = <<>>

LaidOut ==
    /\ Finished
    /\ Len(offsets) = Count + 3 /\ Len(names) = Count + 3 /\ Placed(Count + 2)
    /\ offsets[Count + 3] = offsets[Count + 2] + sections[Count + 2].size
    /\ Fits(FileSize) /\ Fits(EntryPoint)
AtHeader == phase = "header" /\ index = 1 /\ LaidOut /\ file = <<>>
AtSegments(m) ==
    /\ phase = "segments" /\ index <= Count + 2 /\ LaidOut
    /\ Headed /\ m \in {index - 1, Count} /\ m < index /\ m <= Count /\ Segmented(m)
    /\ End(file) = EhSize + m * PhSize
Begun == LaidOut /\ Headed /\ Segmented(Count)
AtContents ==
    /\ phase = "contents" /\ index <= Count + 2
    /\ Begun /\ Filled(index - 1) /\ End(file) <= offsets[index]
AtNames ==
    /\ phase = "names" /\ index = 1
    /\ Begun /\ Filled(Count + 2) /\ End(file) = offsets[Count + 3]
AllFilled == Begun /\ Filled(Count + 2) /\ Named
AtHeaders ==
    /\ phase = "headers" /\ index <= Count + 3
    /\ AllFilled /\ Described(index - 1) /\ End(file) = Shoff + index * ShSize
AtEnd == phase = "done" /\ AllFilled /\ Described(Count + 3) /\ End(file) = FileSize
AtFailure == phase = "failed" /\ file = <<>>

ElfIInv ==
    /\ ElfTyped
    /\ \/ AtSymbols \/ AtTables \/ AtPlan \/ AtLayout \/ AtHeader
       \/ \E m \in Nat : AtSegments(m)
       \/ AtContents \/ AtNames \/ AtHeaders \/ AtEnd \/ AtFailure

--------------------------------------------------------------------------------
(* What the assumptions and the invariant say of images and sections.        *)

LEMMA ImageFacts ==
  ASSUME image \in Images
  PROVE  /\ image.class \in {32, 64} /\ Count \in Nat /\ Len(image.symbols) \in Nat
         /\ DOMAIN image.sections = 1 .. Count
         /\ \A k \in 1 .. Count : /\ image.sections[k] \in SectionType
                                  /\ image.sections[k].addr % image.sections[k].align = 0
         /\ \A j \in 1 .. Len(image.symbols) : image.symbols[j] \in SymbolType
<1>1. image \in ImageType /\ \A s \in Range(image.sections) : s.addr % s.align = 0
  BY ElfFileAssumption
<1>2. /\ image.class \in {32, 64} /\ image.sections \in Seq(SectionType)
      /\ image.symbols \in Seq(SymbolType)
  BY <1>1 DEF ImageType
<1>3. DOMAIN image.sections = 1 .. Count /\ Count \in Nat
  BY <1>2 DEF Count
<1>4. \A k \in 1 .. Count : image.sections[k] \in Range(image.sections)
  BY <1>3 DEF Range
<1>5. \A k \in 1 .. Count : image.sections[k] \in SectionType
  BY <1>2 DEF Count
<1>6. QED
  BY <1>1, <1>2, <1>3, <1>4, <1>5

LEMMA SymbolsInside ==
  ASSUME image \in Images, NEW j \in 1 .. Len(image.symbols)
  PROVE  /\ image.symbols[j].section + 1 \in 1 .. Count
         /\ image.symbols[j].offset + image.symbols[j].size
                <= image.sections[image.symbols[j].section + 1].size
<1>1. Buildable(image)
  BY ElfFileAssumption
<1>2. image.symbols[j] \in Range(image.symbols)
  BY ImageFacts, ElfFileAssumption DEF Range, ImageType
<1>3. QED
  BY <1>1, <1>2, ImageFacts DEF Buildable

\* A header and its parts have the sizes the first pass counts with.
LEMMA Sizes ==
  ASSUME image \in Images
  PROVE  /\ EhSize \in Nat \ {0} /\ PhSize \in Nat \ {0} /\ ShSize \in Nat \ {0}
         /\ Word \in {4, 8} /\ EntrySize = 8 + 2 * Word
         /\ 16 + 8 + 3 * Word + 4 + 12 = EhSize
         /\ 8 + 6 * Word = PhSize /\ 16 + 6 * Word = ShSize
         /\ \A m \in Nat : /\ m * PhSize \in Nat /\ (m + 1) * PhSize = m * PhSize + PhSize
                           /\ m * ShSize \in Nat /\ (m + 1) * ShSize = m * ShSize + ShSize
                           /\ EntrySize + m * (8 + 2 * Word) = EntrySize * (m + 1)
<1>1. image.class \in {32, 64}
  BY ImageFacts
<1>2. CASE image.class = 32
  <2>1. Word = 4 /\ EhSize = 52 /\ PhSize = 32 /\ ShSize = 40 /\ EntrySize = 16
    BY <1>2 DEF Word, EhSize, PhSize, ShSize, EntrySize
  <2>2. QED
    BY <2>1
<1>3. CASE image.class = 64
  <2>1. Word = 8 /\ EhSize = 64 /\ PhSize = 56 /\ ShSize = 64 /\ EntrySize = 24
    BY <1>3 DEF Word, EhSize, PhSize, ShSize, EntrySize
  <2>2. QED
    BY <2>1
<1>4. QED
  BY <1>1, <1>2, <1>3

LEMMA BareFacts ==
  ASSUME image \in Images, Bare
  PROVE  /\ Len(sections) = Count /\ DOMAIN sections = 1 .. Count
         /\ \A i \in 1 .. Count : sections[i] = Loadable(image.sections[i])
  BY ImageFacts DEF Bare, Loadables

LEMMA TableIs ==
  /\ Table.name = ".symtab" /\ Table.holds = Holding(".symtab", <<>>, rows)
  /\ Table.size = EntrySize + Len(rows) * (8 + 2 * Word) /\ Table.addr = 0
  /\ Table.align = Word /\ Table.flags = {} /\ Table.kind = "SYMTAB"
  /\ Table.link = Count + 1 /\ Table.entsize = EntrySize
  BY DEF Table, Metadata

LEMMA TabledFacts ==
  ASSUME image \in Images, Tabled
  PROVE  /\ Len(sections) = Count + 2 /\ DOMAIN sections = 1 .. Count + 2
         /\ \A i \in 1 .. Count : sections[i] = Loadable(image.sections[i])
         /\ sections[Count + 1] = StringSection /\ sections[Count + 2] = Table
<1> DEFINE S == {Loadables[i] : i \in 1 .. Count} \cup {StringSection, Table}
<1>1. Loadables \in Seq(S) /\ Len(Loadables) = Count
  BY ImageFacts DEF Loadables
<1> DEFINE t == <<StringSection, Table>>
<1>2. t \in Seq(S) /\ Len(t) = 2 /\ t[1] = StringSection /\ t[2] = Table
  OBVIOUS
<1>3. sections = Loadables \o t
  BY DEF Tabled
<1> HIDE DEF S, t
<1>4. Count \in Nat
  BY ImageFacts
<1>5. /\ Len(sections) = Count + 2 /\ DOMAIN sections = 1 .. Count + 2
      /\ \A i \in 1 .. Count : sections[i] = Loadables[i]
      /\ sections[Count + 1] = StringSection /\ sections[Count + 2] = Table
  <2> DEFINE c == Loadables \o t
  <2>1. /\ c \in Seq(S) /\ Len(c) = Len(Loadables) + Len(t)
        /\ \A i \in 1 .. Len(Loadables) + Len(t) :
               c[i] = IF i <= Len(Loadables) THEN Loadables[i] ELSE t[i - Len(Loadables)]
    BY <1>1, <1>2, ConcatProperties
  <2>2. Len(c) = Count + 2
    BY <1>1, <1>2, <2>1
  <2>3. \A i \in 1 .. Count + 2 :
               c[i] = IF i <= Count THEN Loadables[i] ELSE t[i - Count]
    BY <1>1, <1>2, <2>1
  <2>4. DOMAIN c = 1 .. Count + 2
    BY <2>1, <2>2
  <2> HIDE DEF c
  <2>5. /\ Len(Loadables \o t) = Count + 2 /\ DOMAIN (Loadables \o t) = 1 .. Count + 2
        /\ \A i \in 1 .. Count + 2 :
               (Loadables \o t)[i] = IF i <= Count THEN Loadables[i] ELSE t[i - Count]
    BY <2>2, <2>3, <2>4 DEF c
  <2>6. Count + 1 - Count = 1 /\ Count + 2 - Count = 2
    BY <1>4
  <2>7. QED
    BY <1>2, <1>3, <1>4, <2>5, <2>6
<1>6. \A i \in 1 .. Count : Loadables[i] = Loadable(image.sections[i])
  BY ImageFacts DEF Loadables
<1>7. QED
  BY <1>5, <1>6

\* Sizes, places and alignments are numbers, and the image's sections are
\* loaded, the tables are not.
SectionOK(i) ==
    /\ sections[i].size \in Nat /\ sections[i].addr \in Nat
    /\ sections[i].align \in Nat \ {0} /\ sections[i].entsize \in 0 .. 24
    /\ (Alloc(sections[i]) <=> i <= Count)

LEMMA SectionsAre ==
  ASSUME ElfTyped, Tabled
  PROVE  \A i \in 1 .. Count + 2 : SectionOK(i)
<1> USE DEF ElfTyped
<1>1. Count \in Nat
  BY ImageFacts
<1>2. \A i \in 1 .. Count : SectionOK(i)
  <2> SUFFICES ASSUME NEW i \in 1 .. Count PROVE SectionOK(i)
    OBVIOUS
  <2>1. sections[i] = Loadable(image.sections[i]) /\ image.sections[i] \in SectionType
    BY TabledFacts, ImageFacts
  <2>2. "A" \in Loadable(image.sections[i]).flags
    BY DEF Loadable
  <2>3. (Alloc(sections[i]) <=> i <= Count)
    BY <1>1, <2>1, <2>2 DEF Alloc
  <2>4. QED
    BY <2>1, <2>3 DEF SectionOK, Loadable, SectionType
<1>3. SectionOK(Count + 1)
  <2>1. sections[Count + 1] = StringSection
    BY TabledFacts
  <2>2. "A" \notin StringSection.flags
    BY DEF StringSection, Metadata
  <2>3. (Alloc(sections[Count + 1]) <=> Count + 1 <= Count)
    BY <1>1, <2>1, <2>2 DEF Alloc
  <2>4. StringSection.size \in Nat
    BY EndsInNat DEF StringSection, Metadata
  <2>5. QED
    BY <2>1, <2>3, <2>4 DEF SectionOK, StringSection, Metadata
<1>4. SectionOK(Count + 2)
  <2>1. sections[Count + 2] = Table
    BY TabledFacts
  <2>2. (Alloc(sections[Count + 2]) <=> Count + 2 <= Count)
    BY <1>1, <2>1, TableIs DEF Alloc
  <2>3. Len(rows) \in Nat /\ EntrySize \in {16, 24} /\ Word \in {4, 8}
    BY Sizes DEF EntrySize
  <2>4. EntrySize + Len(rows) * (8 + 2 * Word) \in Nat
    BY <2>3
  <2>5. Table.entsize \in 0 .. 24
    BY <2>3, TableIs
  <2>6. QED
    BY <2>1, <2>2, <2>3, <2>4, <2>5, TableIs DEF SectionOK
<1>5. QED
  <2>1. \A i \in 1 .. Count + 2 : i \in 1 .. Count \/ i = Count + 1 \/ i = Count + 2
    BY <1>1
  <2>2. QED
    BY <1>2, <1>3, <1>4, <2>1

LEMMA CountOfSegments ==
  ASSUME ElfTyped, Tabled
  PROVE  SegmentCount = Count
<1>1. Count \in Nat /\ DOMAIN sections = 1 .. Count + 2
  BY ImageFacts, TabledFacts DEF ElfTyped
<1>2. \A i \in 1 .. Count + 2 : (Alloc(sections[i]) <=> i <= Count)
  BY SectionsAre DEF SectionOK
<1>3. {i \in DOMAIN sections : Alloc(sections[i])} = 1 .. Count
  <2>1. \A i : i \in DOMAIN sections /\ i <= Count <=> i \in 1 .. Count
    BY <1>1
  <2>2. QED
    BY <1>1, <1>2, <2>1, Zenon
<1>4. Cardinality(1 .. Count) = Count
  BY <1>1, FS_Interval
<1>5. QED
  BY <1>3, <1>4 DEF SegmentCount

--------------------------------------------------------------------------------
(* finish.                                                                   *)

LEMMA ElfInitIInv == ElfInit => ElfIInv
<1> SUFFICES ASSUME ElfInit PROVE ElfIInv
  OBVIOUS
<1>1. ElfTyped
  <2>1. IsFile(<<>>)
    BY NothingYet DEF IsFile, End
  <2>2. QED
    BY <2>1 DEF ElfInit, ElfTyped
<1>2. Bare /\ AtStart /\ Listed(0)
  BY DEF ElfInit, Bare, Loadables, AtStart, Listed
<1>3. CASE image.symbols = <<>>
  BY <1>1, <1>2, <1>3 DEF ElfInit, AtTables, ElfIInv
<1>4. CASE image.symbols # <<>>
  <2>1. image.symbols \in Seq(SymbolType)
    BY ElfFileAssumption DEF ElfInit, ImageType
  <2>2. Len(image.symbols) \in Nat /\ 1 <= Len(image.symbols)
    BY <1>4, <2>1
  <2>3. QED
    BY <1>1, <1>2, <1>4, <2>2 DEF ElfInit, AtSymbols, ElfIInv
<1>5. QED
  BY <1>3, <1>4

LEMMA FailIInv == ElfTyped /\ file = <<>> /\ Fail => ElfIInv'
  BY DEF ElfTyped, Fail, ElfIInv, AtFailure

\* A string and its row are added together.
LEMMA OneMoreSymbol ==
  ASSUME NEW n, n = index,
         ElfTyped, index <= Len(image.symbols), Bare, Listed(index - 1), UNCHANGED image,
         strings' = AddString(strings, image.symbols[index].name),
         rows' = Append(rows, [name |-> StringsEnd(strings),
                               value |-> SymbolValue(image.symbols[index]),
                               size |-> image.symbols[index].size,
                               section |-> SectionIndex(image.symbols[index].section)])
  PROVE  /\ strings' \in Seq(StringType) /\ rows' \in Seq(RowType)
         /\ Listed(n)'
<1> DEFINE s == image.symbols[index]
           k == s.section + 1
           r == Row(s, StringsEnd(strings))
<1>1. s \in SymbolType /\ k \in 1 .. Count /\ index \in 1 .. Len(image.symbols)
  BY ImageFacts, SymbolsInside DEF ElfTyped
<1>2. sections[k] = Loadable(image.sections[k]) /\ image.sections[k] \in SectionType
  BY <1>1, BareFacts, ImageFacts DEF ElfTyped
<1>3. SymbolValue(s) = image.sections[k].addr + s.offset
  BY <1>2 DEF SymbolValue, Loadable
<1>4. rows' = Append(rows, r)
  BY <1>3 DEF Row
<1>5. r \in RowType
  <2>1. s.section \in Nat /\ s.offset \in Nat /\ s.size \in Nat
    BY <1>1 DEF SymbolType
  <2>2. image.sections[k].addr \in Nat
    BY <1>2 DEF SectionType
  <2>3. StringsEnd(strings) \in Nat
    BY EndsInNat DEF ElfTyped
  <2> DEFINE a == image.sections[k].addr
             v == a + s.offset
  <2>4. v \in Nat /\ s.section + 1 \in Nat
    <3>1. a \in Nat
      BY <2>2
    <3> HIDE DEF a, s
    <3>2. QED
      BY <2>1, <3>1
  <2>5. r = [name |-> StringsEnd(strings), value |-> v,
             size |-> s.size, section |-> s.section + 1]
    BY DEF Row, SectionIndex
  <2> HIDE DEF s, v
  <2>6. QED
    BY <2>1, <2>3, <2>4, <2>5 DEF RowType
<1>6. r.name = StringsEnd(strings)
  BY DEF Row
<1> HIDE DEF r
<1>7. /\ rows' \in Seq(RowType) /\ Len(rows') = index /\ rows'[index] = r
      /\ \A j \in 1 .. index - 1 : rows'[j] = rows[j]
  BY <1>1, <1>4, <1>5 DEF ElfTyped, Listed
<1>8. s.name \in ElfNames
  BY <1>1 DEF SymbolType
<1>9. /\ strings' \in Seq(StringType) /\ Len(strings') = Len(strings) + 1
      /\ \A j \in 1 .. Len(strings) : strings'[j] = strings[j]
      /\ strings'[Len(strings) + 1] = [at |-> StringsEnd(strings), name |-> s.name]
  BY <1>8, StringAdded DEF ElfTyped
<1>10. Len(strings) = index - 1
  BY DEF Listed
<1>11. \A j \in 1 .. index :
          /\ strings'[j].name = image.symbols[j].name
          /\ rows'[j] = Row(image.symbols[j], strings'[j].at)
  <2> SUFFICES ASSUME NEW j \in 1 .. index
               PROVE  /\ strings'[j].name = image.symbols[j].name
                      /\ rows'[j] = Row(image.symbols[j], strings'[j].at)
    OBVIOUS
  <2>1. CASE j < index
    <3>1. j \in 1 .. index - 1
      BY <1>1, <2>1
    <3>2. rows'[j] = rows[j] /\ strings'[j] = strings[j]
      BY <1>7, <1>9, <1>10, <3>1
    <3>3. QED
      BY <3>1, <3>2 DEF Listed
  <2>2. CASE j = index
    <3>1. strings'[j] = [at |-> StringsEnd(strings), name |-> s.name]
      BY <1>1, <1>9, <1>10, <2>2
    <3>2. strings'[j].at = StringsEnd(strings) /\ strings'[j].name = s.name
      BY <3>1
    <3>3. QED
      BY <1>7, <2>2, <3>2 DEF r
  <2>3. j < index \/ j = index
    BY <1>1
  <2>4. QED
    BY <2>1, <2>2, <2>3
<1>12. Len(strings') = index /\ Len(rows') = index
  BY <1>1, <1>7, <1>9, <1>10
<1>13. \A x, a : Row(x, a)' = Row(x, a)
  BY DEF Row
<1>14. Listed(n)'
  BY <1>11, <1>12, <1>13 DEF Listed
<1>15. QED
  BY <1>7, <1>9, <1>14

LEMMA SymbolIInv == ElfTyped /\ AtSymbols /\ AddSymbol => ElfIInv'
<1> SUFFICES ASSUME ElfTyped, AtSymbols, AddSymbol PROVE ElfIInv'
  OBVIOUS
<1>1. CASE Fail
  BY <1>1, FailIInv DEF AtSymbols, AtStart
<1> PICK n : n = index
  OBVIOUS
<1>2. CASE ~Fail
  <2>1. /\ Turn(Len(image.symbols), "tables")
        /\ strings' = AddString(strings, image.symbols[index].name)
        /\ rows' = Append(rows, [name |-> StringsEnd(strings),
                                 value |-> SymbolValue(image.symbols[index]),
                                 size |-> image.symbols[index].size,
                                 section |-> SectionIndex(image.symbols[index].section)])
        /\ UNCHANGED <<sections, names, offsets, file>>
    BY <1>2 DEF AddSymbol
  <2>2. /\ strings' \in Seq(StringType) /\ rows' \in Seq(RowType)
        /\ Listed(n)'
    BY <2>1, OneMoreSymbol DEF AtSymbols, Turn
  <2>3. AtStart' /\ Bare'
    BY <2>1 DEF AtSymbols, AtStart, Bare, Loadables, Turn
  <2>4. index \in Nat \ {0} /\ Len(image.symbols) \in Nat /\ image \in Images
    BY ImageFacts DEF ElfTyped
  <2>5. CASE index < Len(image.symbols)
    <3>1. index' = index + 1 /\ phase' = "symbols" /\ image' = image
      BY <2>1, <2>5 DEF Turn, AtSymbols
    <3>2. ElfTyped'
      BY <2>1, <2>2, <2>4, <3>1 DEF ElfTyped
    <3>3. Listed(index - 1)'
      <4>1. index' - 1 = n
        BY <2>4, <3>1
      <4>2. QED
        BY <2>2, <4>1
    <3>4. AtSymbols'
      BY <2>3, <2>4, <2>5, <3>1, <3>3 DEF AtSymbols
    <3>5. QED
      BY <3>2, <3>4 DEF ElfIInv
  <2>6. CASE ~(index < Len(image.symbols))
    <3>1. index' = 1 /\ phase' = "tables" /\ image' = image
      BY <2>1, <2>6 DEF Turn
    <3>2. ElfTyped'
      BY <2>1, <2>2, <2>4, <3>1 DEF ElfTyped
    <3>3. n = Len(image'.symbols)
      BY <2>4, <2>6, <3>1 DEF AtSymbols
    <3>4. AtTables'
      BY <2>2, <2>3, <3>1, <3>3 DEF AtTables
    <3>5. QED
      BY <3>2, <3>4 DEF ElfIInv
  <2>7. QED
    BY <2>5, <2>6
<1>3. QED
  BY <1>1, <1>2

LEMMA TablesIInv == ElfTyped /\ AtTables /\ AddTables => ElfIInv'
<1> SUFFICES ASSUME ElfTyped, AtTables, AddTables PROVE ElfIInv'
  OBVIOUS
<1>1. CASE Fail
  BY <1>1, FailIInv DEF AtTables, AtStart
<1>2. CASE ~Fail
  <2>1. /\ phase' = "plan" /\ UNCHANGED <<image, index, strings, rows, names, offsets, file>>
        /\ sections' = sections \o <<StringSection, SymbolSection>>
    BY <1>2 DEF AddTables, Advance
  <2>2. ElfTyped'
    BY <2>1 DEF ElfTyped
  <2>3. Loadables' = Loadables /\ StringSection' = StringSection /\ Count' = Count
    BY <2>1 DEF Loadables, StringSection, Count
  <2>4. SymbolSection = Table
    <3>1. Len(sections) = Count
      BY BareFacts DEF ElfTyped, AtTables
    <3>2. QED
      BY <3>1, Zenon DEF Table, SymbolSection
  <2>5. Table' = Table
    <3>1. EntrySize' = EntrySize /\ Word' = Word
      BY <2>1 DEF EntrySize, Word
    <3>2. QED
      BY <2>1, <2>3, <3>1, Zenon DEF Table, Metadata, Holding
  <2>6. Tabled'
    BY <2>1, <2>3, <2>4, <2>5 DEF AtTables, Bare, Tabled
  <2>7. Listed(Len(image.symbols))'
    BY <2>1 DEF AtTables, Listed, Row
  <2>8. PlannedFor(index - 1)' /\ index' <= (Count + 2)' /\ file' = <<>>
    BY <2>1, <2>3, ImageFacts DEF AtTables, AtStart, PlannedFor, Placed, ElfTyped
  <2>9. AtPlan'
    BY <2>1, <2>6, <2>7, <2>8 DEF AtPlan, Finished
  <2>10. QED
    BY <2>2, <2>9 DEF ElfIInv
<1>3. QED
  BY <1>1, <1>2

--------------------------------------------------------------------------------
(* The first pass.                                                           *)

\* What is planned begins after the program headers, and ends last.
LEMMA PlannedIsLast ==
  ASSUME NEW n \in Nat, ElfTyped, Tabled, PlannedFor(n), n <= Count + 2
  PROVE  /\ Planned \in Nat \ {0} /\ HeadersEnd <= Planned
         /\ \A i \in 1 .. n : offsets[i] + sections[i].size <= Planned
<1>1. /\ Count \in Nat /\ EhSize \in Nat \ {0} /\ Count * PhSize \in Nat
      /\ SegmentCount = Count
  BY ImageFacts, Sizes, CountOfSegments DEF ElfTyped
<1>2. Len(offsets) = n /\ offsets \in Seq(Nat)
  BY DEF PlannedFor, ElfTyped
<1>3. CASE n = 0
  <2>1. offsets = <<>>
    BY <1>2, <1>3
  <2>2. Planned = HeadersEnd
    BY <1>1, <2>1 DEF Planned, HeadersEnd
  <2> DEFINE h == Count * PhSize
  <2>3. HeadersEnd = EhSize + h /\ h \in Nat
    BY <1>1 DEF HeadersEnd
  <2> HIDE DEF h
  <2>4. HeadersEnd \in Nat \ {0}
    BY <1>1, <2>3
  <2>5. QED
    BY <1>3, <2>2, <2>4
<1>4. CASE n # 0
  <2>1. offsets # <<>> /\ n \in 1 .. n
    BY <1>2, <1>4
  <2>2. Planned = offsets[n] + sections[n].size
    BY <1>2, <2>1 DEF Planned
  <2>3. n \in 1 .. Count + 2
    BY <1>1, <1>4
  <2>4. sections[n].size \in Nat /\ sections[n].align \in Nat \ {0}
    BY <2>3, SectionsAre DEF SectionOK
  <2>5. /\ offsets[n] \in Nat /\ sections[n].align <= offsets[n]
        /\ HeadersEnd <= offsets[n]
    BY <1>2, <2>1 DEF PlannedFor, Placed, PlacedAt
  <2>6. HeadersEnd \in Nat
    <3> DEFINE h == Count * PhSize
    <3>1. HeadersEnd = EhSize + h /\ h \in Nat
      BY <1>1 DEF HeadersEnd
    <3> HIDE DEF h
    <3>2. QED
      BY <1>1, <3>1
  <2>7. \A i \in 1 .. n : offsets[i] + sections[i].size <= Planned
    <3> SUFFICES ASSUME NEW i \in 1 .. n
                 PROVE  offsets[i] + sections[i].size <= Planned
      OBVIOUS
    <3>1. CASE i = n
      BY <2>2, <2>4, <2>5, <3>1
    <3>2. CASE i < n
      <4>1. offsets[i] + sections[i].size <= offsets[n]
        BY <1>2, <2>1, <3>2 DEF PlannedFor, Placed, Before
      <4>2. i \in 1 .. Count + 2 /\ offsets[i] \in Nat
        BY <1>1, <1>2
      <4>3. sections[i].size \in Nat
        BY <4>2, SectionsAre DEF SectionOK
      <4>4. QED
        BY <2>2, <2>4, <2>5, <4>1, <4>2, <4>3
    <3>3. i = n \/ i < n
      OBVIOUS
    <3>4. QED
      BY <3>1, <3>2, <3>3
  <2>8. QED
    BY <2>2, <2>4, <2>5, <2>6, <2>7
<1>5. QED
  BY <1>3, <1>4

\* A place from there on is after those that are planned.
LEMMA OneMorePlace ==
  ASSUME NEW n \in Nat, ElfTyped, Tabled, PlannedFor(n), n <= Count + 2,
         UNCHANGED <<image, sections>>,
         NEW place \in Nat, Planned <= place, NEW name \in ElfNames,
         offsets' = Append(offsets, place), names' = AddString(names, name)
  PROVE  /\ offsets' \in Seq(Nat) /\ Len(offsets') = n + 1
         /\ names' \in Seq(StringType) /\ Len(names') = n + 1
         /\ Placed(n)'
         /\ offsets'[n + 1] = place /\ names'[n + 1].name = name
         /\ \A i \in 1 .. n : offsets'[i] = offsets[i]
<1>1. /\ Len(offsets) = n /\ offsets \in Seq(Nat)
      /\ Len(names) = n /\ names \in Seq(StringType)
  BY DEF PlannedFor, ElfTyped
<1>2. /\ offsets' \in Seq(Nat) /\ Len(offsets') = n + 1 /\ offsets'[n + 1] = place
      /\ \A i \in 1 .. n : offsets'[i] = offsets[i]
  BY <1>1
<1>3. /\ names' \in Seq(StringType) /\ Len(names') = n + 1
      /\ names'[n + 1] = [at |-> StringsEnd(names), name |-> name]
      /\ \A i \in 1 .. n : names'[i] = names[i]
  <2>1. PICK t : t = names
    OBVIOUS
  <2>2. t \in Seq(StringType) /\ Len(t) = n /\ names' = AddString(t, name)
    BY <1>1, <2>1
  <2>3. /\ AddString(t, name) \in Seq(StringType) /\ Len(AddString(t, name)) = Len(t) + 1
        /\ \A i \in 1 .. Len(t) : AddString(t, name)[i] = t[i]
        /\ AddString(t, name)[Len(t) + 1] = [at |-> StringsEnd(t), name |-> name]
    BY <2>2, StringAdded, Zenon
  <2>4. /\ names' \in Seq(StringType) /\ Len(names') = n + 1
        /\ names'[n + 1] = [at |-> StringsEnd(t), name |-> name]
        /\ \A i \in 1 .. n : names'[i] = t[i]
    BY <2>2, <2>3, Zenon
  <2>5. QED
    BY <2>1, <2>4, Zenon
<1>4. names'[n + 1].name = name
  BY <1>3
<1>5. \A i \in 1 .. n : PlacedAt(i)'
  <2>1. HeadersEnd' = HeadersEnd
    BY DEF HeadersEnd, EhSize, PhSize, Count
  <2>2. QED
    BY <1>2, <1>3, <2>1 DEF PlannedFor, Placed, PlacedAt
<1>6. \A i \in 1 .. n : \A j \in 1 .. n + 1 : Before(i, j)'
  <2> SUFFICES ASSUME NEW i \in 1 .. n, NEW j \in 1 .. n + 1, i < j
               PROVE  offsets'[i] + sections[i].size <= offsets'[j]
    BY DEF Before
  <2>1. CASE j = n + 1
    <3>1. offsets[i] + sections[i].size <= Planned /\ Planned \in Nat
      BY PlannedIsLast
    <3>2. offsets[i] \in Nat /\ offsets'[i] = offsets[i] /\ offsets'[j] = place
      BY <1>1, <1>2, <2>1
    <3>3. i \in 1 .. Count + 2
      BY ImageFacts DEF ElfTyped
    <3>4. sections[i].size \in Nat
      BY <3>3, SectionsAre DEF SectionOK
    <3>5. QED
      BY <3>1, <3>2, <3>4
  <2>2. CASE j \in 1 .. n
    <3>1. offsets[i] + sections[i].size <= offsets[j]
      BY <1>1, <2>2 DEF PlannedFor, Placed, Before
    <3>2. QED
      BY <1>2, <2>2, <3>1
  <2>3. j = n + 1 \/ j \in 1 .. n
    OBVIOUS
  <2>4. QED
    BY <2>1, <2>2, <2>3
<1>7. Placed(n)'
  BY <1>2, <1>5, <1>6 DEF Placed
<1>8. QED
  BY <1>2, <1>3, <1>4, <1>7

\* What the first pass leaves alone.
LEMMA FinishedKept ==
  ASSUME Finished, UNCHANGED <<image, sections, strings, rows>>
  PROVE  Finished'
<1>1. Tabled'
  <2>1. /\ Loadables' = Loadables /\ StringSection' = StringSection /\ Count' = Count
        /\ EntrySize' = EntrySize /\ Word' = Word
    BY DEF Loadables, Count, StringSection, EntrySize, Word
  <2>2. Table' = Table
    BY <2>1, Zenon DEF Table, Metadata, Holding
  <2>3. QED
    BY <2>1, <2>2 DEF Finished, Tabled
<1>2. Listed(Len(image.symbols))'
  BY DEF Finished, Listed, Row
<1>3. QED
  BY <1>1, <1>2 DEF Finished

LEMMA SectionNames ==
  ASSUME ElfTyped, Tabled, NEW i \in 1 .. Count + 2
  PROVE  sections[i].name \in ElfNames
<1>1. Count \in Nat /\ image \in Images
  BY ImageFacts DEF ElfTyped
<1>2. i \in 1 .. Count \/ i = Count + 1 \/ i = Count + 2
  BY <1>1
<1>3. CASE i \in 1 .. Count
  <2>1. sections[i] = Loadable(image.sections[i]) /\ image.sections[i] \in SectionType
    BY <1>1, <1>3, TabledFacts, ImageFacts
  <2>2. QED
    BY <2>1 DEF Loadable, SectionType
<1>4. CASE i = Count + 1
  <2>1. sections[i] = StringSection
    BY <1>1, <1>4, TabledFacts
  <2>2. sections[i].name = ".strtab"
    BY <2>1 DEF StringSection, Metadata
  <2>3. QED
    BY <2>2, ElfFileAssumption DEF ReservedNames
<1>5. CASE i = Count + 2
  <2>1. sections[i].name = ".symtab"
    BY <1>1, <1>5, TabledFacts, TableIs
  <2>2. QED
    BY <2>1, ElfFileAssumption DEF ReservedNames
<1>6. QED
  BY <1>2, <1>3, <1>4, <1>5

LEMMA PlanIInv == ElfTyped /\ AtPlan /\ PlanSection => ElfIInv'
<1> SUFFICES ASSUME ElfTyped, AtPlan, PlanSection PROVE ElfIInv'
  OBVIOUS
<1>1. CASE Fail
  BY <1>1, FailIInv DEF AtPlan
<1>2. CASE ~Fail
  <2> PICK n, s : n = index - 1 /\ s = sections[index]
    OBVIOUS
  <2>1. /\ image.class = 32 => s.addr < Limit /\ s.addr + s.size <= Limit
        /\ Turn(Len(sections), "layout")
        /\ names' = AddString(names, s.name)
        /\ offsets' = Append(offsets, PlaceFor(s))
        /\ UNCHANGED <<sections, strings, rows, file>>
    BY <1>2 DEF PlanSection
  <2>2. /\ image' = image /\ Count \in Nat /\ index \in 1 .. Count + 2
        /\ n \in Nat /\ n <= Count + 2 /\ n + 1 = index
    BY <2>1, ImageFacts DEF Turn, AtPlan, ElfTyped
  <2>3. Tabled /\ PlannedFor(n) /\ Finished
    BY DEF AtPlan, Finished
  <2>4. /\ Planned \in Nat \ {0} /\ HeadersEnd <= Planned /\ HeadersEnd \in Nat
    <3>1. EhSize \in Nat /\ Count * PhSize \in Nat
      BY <2>2, Sizes DEF ElfTyped
    <3> DEFINE h == Count * PhSize
    <3>2. HeadersEnd = EhSize + h /\ h \in Nat
      BY <3>1 DEF HeadersEnd
    <3> HIDE DEF h
    <3>3. HeadersEnd \in Nat
      BY <3>1, <3>2
    <3>4. QED
      BY <2>2, <2>3, <3>3, PlannedIsLast
  <2>5. s.align \in Nat \ {0} /\ s.name \in ElfNames
    BY <2>2, <2>3, SectionsAre, SectionNames DEF SectionOK
  <2>6. /\ PlaceFor(s) \in Nat /\ Planned <= PlaceFor(s)
        /\ PlaceFor(s) % s.align = 0 /\ s.align <= PlaceFor(s)
    BY <2>4, <2>5, AlignedUp DEF PlaceFor
  <2>7. /\ offsets' \in Seq(Nat) /\ Len(offsets') = n + 1
        /\ names' \in Seq(StringType) /\ Len(names') = n + 1
        /\ Placed(n)'
        /\ offsets'[n + 1] = PlaceFor(s) /\ names'[n + 1].name = s.name
    <3>1. image' = image /\ sections' = sections /\ PlaceFor(s) \in Nat
      BY <2>1, <2>2, <2>6
    <3>2. QED
      BY <2>1, <2>2, <2>3, <2>5, <2>6, <3>1, OneMorePlace
  <2>8. PlacedAt(n + 1)'
    <3>1. HeadersEnd' = HeadersEnd
      BY <2>2 DEF HeadersEnd, EhSize, PhSize, Count
    <3>2. HeadersEnd <= PlaceFor(s)
      BY <2>4, <2>6
    <3>3. sections'[n + 1] = s
      BY <2>1, <2>2
    <3>4. image.class = 32 => s.addr < Limit
      BY <2>1
    <3>5. QED
      BY <2>2, <2>6, <2>7, <3>1, <3>2, <3>3, <3>4 DEF PlacedAt
  <2>9. Placed(n + 1)'
    <3>1. \A i \in 1 .. n + 1 : i \in 1 .. n \/ i = n + 1
      BY <2>2
    <3>2. \A j \in 1 .. n + 1 : Before(n + 1, j)'
      BY <2>2 DEF Before
    <3>3. QED
      BY <2>7, <2>8, <3>1, <3>2 DEF Placed
  <2>10. PICK m : m = n + 1
    OBVIOUS
  <2>11. PlannedFor(m)'
    BY <2>7, <2>9, <2>10 DEF PlannedFor
  <2>12. Finished' /\ file' = <<>>
    BY <2>1, <2>2, <2>3, FinishedKept DEF AtPlan
  <2>13. Len(sections) = Count + 2 /\ Count' = Count
    BY <2>2, <2>3, TabledFacts DEF ElfTyped, Count
  <2>14. index' \in Nat \ {0} => ElfTyped'
    BY <2>1, <2>2, <2>7 DEF ElfTyped
  <2>15. CASE index < Count + 2
    <3>1. index' = index + 1 /\ phase' = "plan"
      BY <2>1, <2>13, <2>15 DEF Turn, AtPlan
    <3>2. index' - 1 = m
      BY <2>2, <2>10, <3>1
    <3>3. AtPlan'
      BY <2>2, <2>11, <2>12, <2>13, <2>15, <3>1, <3>2 DEF AtPlan
    <3>4. QED
      BY <2>2, <2>14, <3>1, <3>3 DEF ElfIInv
  <2>16. CASE ~(index < Count + 2)
    <3>1. index' = 1 /\ phase' = "layout"
      BY <2>1, <2>13, <2>16 DEF Turn
    <3>2. m = (Count + 2)'
      BY <2>2, <2>10, <2>13, <2>16
    <3>3. AtLayout'
      BY <2>11, <2>12, <3>1, <3>2 DEF AtLayout
    <3>4. QED
      BY <2>14, <3>1, <3>3 DEF ElfIInv
  <2>17. QED
    BY <2>15, <2>16
<1>3. QED
  BY <1>1, <1>2

LEMMA LayoutIInv == ElfTyped /\ AtLayout /\ PlanRest => ElfIInv'
<1> SUFFICES ASSUME ElfTyped, AtLayout, PlanRest PROVE ElfIInv'
  OBVIOUS
<1>1. /\ UNCHANGED <<image, index, sections, strings, rows, file>>
      /\ names' = AddString(names, ".shstrtab") /\ offsets' = Append(offsets, Planned)
      /\ phase' = IF Fits(FileSize') /\ Fits(EntryPoint) /\ FileSize' <= MaxElfSize
                  THEN "header" ELSE "failed"
  BY DEF PlanRest
<1> PICK n : n = Count + 2
  OBVIOUS
<1>2. /\ n \in Nat /\ n <= Count + 2 /\ Finished /\ Tabled /\ PlannedFor(n)
      /\ ".shstrtab" \in ElfNames /\ Count \in Nat
  BY ImageFacts, ElfFileAssumption DEF ElfTyped, AtLayout, Finished, ReservedNames
<1>3. Planned \in Nat
  BY <1>2, PlannedIsLast
<1>4. /\ offsets' \in Seq(Nat) /\ Len(offsets') = n + 1
      /\ names' \in Seq(StringType) /\ Len(names') = n + 1
      /\ Placed(n)' /\ offsets'[n + 1] = Planned
      /\ \A i \in 1 .. n : offsets'[i] = offsets[i]
  BY <1>1, <1>2, <1>3, OneMorePlace
<1>5. ElfTyped'
  BY <1>1, <1>4 DEF ElfTyped
<1>6. CASE phase' = "failed"
  BY <1>1, <1>5, <1>6 DEF AtLayout, AtFailure, ElfIInv
<1>7. CASE phase' = "header"
  <2>1. Fits(FileSize') /\ Fits(EntryPoint)
    BY <1>1, <1>7
  <2>2. Fits(FileSize)' /\ Fits(EntryPoint)'
    BY <1>1, <2>1 DEF Fits, EntryPoint
  <2>3. Finished' /\ Count' = Count
    BY <1>1, <1>2, FinishedKept DEF Count
  <2>4. Len(offsets') = Count + 3 /\ Len(names') = Count + 3
    BY <1>2, <1>4
  <2>5. Placed(Count + 2)'
    <3>1. (Count + 2)' = n
      BY <2>3
    <3>2. QED
      BY <1>4, <3>1
  <2>6. offsets'[Count + 3] = offsets'[Count + 2] + sections'[Count + 2].size
    <3>1. Len(offsets) = Count + 2
      BY DEF AtLayout, PlannedFor
    <3>2. offsets # <<>>
      BY <1>2, <3>1
    <3>3. Planned = offsets[Count + 2] + sections[Count + 2].size
      BY <3>1, <3>2 DEF Planned
    <3>4. offsets'[Count + 2] = offsets[Count + 2] /\ offsets'[Count + 3] = Planned
      BY <1>2, <1>4
    <3>5. QED
      BY <1>1, <3>3, <3>4
  <2>7. LaidOut'
    BY <2>2, <2>3, <2>4, <2>5, <2>6 DEF LaidOut
  <2>8. QED
    BY <1>1, <1>5, <1>7, <2>7 DEF AtLayout, AtHeader, ElfIInv
<1>8. QED
  BY <1>1, <1>6, <1>7

--------------------------------------------------------------------------------
(* The second pass.                                                          *)

\* The places that are planned, one after the other.
LEMMA ElfPlaces ==
  ASSUME ElfTyped, LaidOut
  PROVE  /\ Count \in Nat /\ Tabled /\ Len(sections) = Count + 2
         /\ \A i \in 1 .. Count + 3 : offsets[i] \in Nat
         /\ HeadersEnd <= offsets[1]
         /\ \A i \in 1 .. Count + 2 : /\ sections[i].size \in Nat
                                      /\ offsets[i] + sections[i].size <= offsets[i + 1]
                                      /\ offsets[i] + sections[i].size <= offsets[Count + 3]
         /\ NamesSection.size = StringsEnd(names) /\ StringsEnd(names) \in Nat
         /\ Shoff \in Nat /\ offsets[Count + 3] + StringsEnd(names) <= Shoff
         /\ FileSize = Shoff + (Count + 4) * ShSize
<1>1. /\ Count \in Nat /\ Tabled /\ Len(sections) = Count + 2
      /\ offsets \in Seq(Nat) /\ Len(offsets) = Count + 3
  BY ImageFacts, TabledFacts DEF ElfTyped, LaidOut, Finished
<1>2. \A i \in 1 .. Count + 3 : offsets[i] \in Nat
  BY <1>1
<1>3. HeadersEnd <= offsets[1]
  <2>1. 1 \in 1 .. Count + 2
    BY <1>1
  <2>2. QED
    BY <2>1 DEF LaidOut, Placed, PlacedAt
<1>4. \A i \in 1 .. Count + 2 : /\ sections[i].size \in Nat
                                /\ offsets[i] + sections[i].size <= offsets[i + 1]
                                /\ offsets[i] + sections[i].size <= offsets[Count + 3]
  <2> SUFFICES ASSUME NEW i \in 1 .. Count + 2
               PROVE  /\ sections[i].size \in Nat
                      /\ offsets[i] + sections[i].size <= offsets[i + 1]
                      /\ offsets[i] + sections[i].size <= offsets[Count + 3]
    OBVIOUS
  <2>1. /\ i + 1 \in 1 .. Count + 3 /\ i < i + 1
        /\ Count + 3 \in 1 .. Count + 3 /\ i < Count + 3
    BY <1>1
  <2>2. Before(i, i + 1) /\ Before(i, Count + 3)
    BY <1>1, <2>1 DEF LaidOut, Placed
  <2>3. QED
    BY <1>1, <2>1, <2>2, SectionsAre DEF Before, SectionOK
<1>5. NamesSection.size = StringsEnd(names) /\ StringsEnd(names) \in Nat
  BY EndsInNat DEF NamesSection, Metadata, ElfTyped
<1>6. Shoff \in Nat /\ offsets[Count + 3] + StringsEnd(names) <= Shoff
  <2> DEFINE e == offsets[Count + 3] + StringsEnd(names)
  <2>1. Count + 3 \in 1 .. Count + 3
    BY <1>1
  <2>2. e \in Nat
    BY <1>2, <1>5, <2>1
  <2>3. Shoff = AlignUp(e, 8)
    BY <1>1 DEF Shoff
  <2> HIDE DEF e
  <2>4. Shoff \in Nat /\ e <= Shoff
    BY <2>2, <2>3, AlignedUp
  <2>5. QED
    BY <2>4 DEF e
<1>7. FileSize = Shoff + (Count + 4) * ShSize
  <2>1. Len(sections) + 2 = Count + 4
    BY <1>1
  <2>2. QED
    BY <2>1 DEF FileSize
<1>8. QED
  BY <1>1, <1>2, <1>3, <1>4, <1>5, <1>6, <1>7

\* In a file of less than 2^32 bytes, so are the places and the sizes.
LEMMA WordsFit ==
  ASSUME ElfTyped, LaidOut
  PROVE  /\ Fits(Shoff) /\ Fits(offsets[Count + 3]) /\ Fits(NamesSection.size)
         /\ Fits(0) /\ Fits(1)
         /\ \A i \in 1 .. Count + 2 :
                /\ Fits(offsets[i]) /\ Fits(sections[i].addr) /\ Fits(sections[i].size)
                /\ Fits(sections[i].align) /\ Fits(sections[i].entsize)
<1>1. CASE image.class # 32
  BY <1>1 DEF Fits
<1>2. CASE image.class = 32
  <2> DEFINE h == (Count + 4) * ShSize
  <2>1. FileSize < Limit /\ ShSize = 40
    BY <1>2 DEF LaidOut, Fits, ShSize
  <2>2. h \in Nat /\ 160 <= h /\ Limit \in Nat
    BY <2>1, ElfPlaces, ElfFileAssumption
  <2> HIDE DEF h
  <2>3. FileSize = Shoff + h
    BY ElfPlaces DEF h
  <2>4. Shoff \in Nat /\ Shoff + 160 < Limit
    BY <2>1, <2>2, <2>3, ElfPlaces
  <2>5. /\ offsets[Count + 3] \in Nat /\ StringsEnd(names) \in Nat
        /\ offsets[Count + 3] + StringsEnd(names) <= Shoff
    <3>1. Count + 3 \in 1 .. Count + 3
      BY ElfPlaces
    <3>2. QED
      BY <3>1, ElfPlaces
  <2>6. Fits(Shoff) /\ Fits(offsets[Count + 3]) /\ Fits(NamesSection.size) /\ Fits(0) /\ Fits(1)
    BY <2>2, <2>4, <2>5, ElfPlaces DEF Fits
  <2>7. ASSUME NEW i \in 1 .. Count + 2
        PROVE  /\ Fits(offsets[i]) /\ Fits(sections[i].addr) /\ Fits(sections[i].size)
               /\ Fits(sections[i].align) /\ Fits(sections[i].entsize)
    <3>1. i \in 1 .. Count + 3
      BY ElfPlaces
    <3>2. /\ offsets[i] \in Nat /\ sections[i].size \in Nat
          /\ offsets[i] + sections[i].size <= offsets[Count + 3]
      BY <3>1, ElfPlaces
    <3>3. /\ sections[i].align \in Nat /\ sections[i].align <= offsets[i]
          /\ sections[i].addr < Limit
      <4>1. PlacedAt(i)
        BY DEF LaidOut, Placed
      <4>2. SectionOK(i)
        BY ElfPlaces, SectionsAre
      <4>3. QED
        BY <1>2, <4>1, <4>2 DEF PlacedAt, SectionOK
    <3>4. sections[i].entsize \in 0 .. 24
      BY ElfPlaces, SectionsAre DEF SectionOK
    <3>5. QED
      BY <2>2, <2>4, <2>5, <3>2, <3>3, <3>4 DEF Fits
  <2>8. QED
    BY <2>6, <2>7
<1>3. QED
  BY <1>1, <1>2

\* Writing leaves the plan alone, and what was written where it is.
Writes ==
    /\ UNCHANGED <<image, sections, strings, rows, names, offsets>>
    /\ Extends(file', file)

LEMMA WrittenKept ==
  ASSUME Writes, NEW at, NEW len, NEW kind, NEW holds, Written(at, len, kind, holds)
  PROVE  Written(at, len, kind, holds)'
  BY DEF Writes, Extends, Written, Piece

LEMMA SameNumbers ==
  ASSUME UNCHANGED <<image, sections, strings, rows, names, offsets>>
  PROVE  /\ Count' = Count /\ EhSize' = EhSize /\ PhSize' = PhSize /\ ShSize' = ShSize
         /\ Shoff' = Shoff /\ FileSize' = FileSize /\ EntryPoint' = EntryPoint
         /\ FileHeader' = FileHeader /\ NamesSection' = NamesSection
         /\ \A i : ProgramHeader(i)' = ProgramHeader(i)
         /\ \A i : SectionHeader(i)' = SectionHeader(i)
<1>1. /\ Count' = Count /\ EhSize' = EhSize /\ PhSize' = PhSize /\ ShSize' = ShSize
      /\ Shoff' = Shoff /\ EntryPoint' = EntryPoint
  BY DEF Count, EhSize, PhSize, ShSize, Shoff, EntryPoint
<1>2. FileSize' = FileSize
  BY <1>1 DEF FileSize
<1>3. FileHeader' = FileHeader /\ NamesSection' = NamesSection
  BY <1>1 DEF FileHeader, NamesSection
<1>4. \A i : ProgramHeader(i)' = ProgramHeader(i)
  BY DEF ProgramHeader
<1>5. \A i : SectionHeader(i)' = SectionHeader(i)
  BY <1>3 DEF SectionHeader
<1>6. QED
  BY <1>1, <1>2, <1>3, <1>4, <1>5

LEMMA LaidOutKept ==
  ASSUME LaidOut, UNCHANGED <<image, sections, strings, rows, names, offsets>>
  PROVE  LaidOut'
<1>1. Finished'
  BY FinishedKept DEF LaidOut
<1>2. Placed(Count + 2)'
  <2>1. /\ Count' = Count /\ HeadersEnd' = HeadersEnd
    BY SameNumbers DEF HeadersEnd
  <2>2. \A i : PlacedAt(i) => PlacedAt(i)'
    BY <2>1 DEF PlacedAt
  <2>3. \A i, j : Before(i, j) => Before(i, j)'
    BY DEF Before
  <2>4. QED
    BY <2>1, <2>2, <2>3 DEF LaidOut, Placed
<1>3. Fits(FileSize)' /\ Fits(EntryPoint)'
  BY SameNumbers DEF LaidOut, Fits
<1>4. QED
  BY <1>1, <1>2, <1>3, SameNumbers DEF LaidOut

LEMMA HeadedKept ==
  ASSUME Writes, Headed
  PROVE  Headed'
  BY SameNumbers DEF Writes, Extends, Headed

LEMMA SegmentedKept ==
  ASSUME Writes, NEW m, Segmented(m)
  PROVE  Segmented(m)'
<1>1. EhSize' = EhSize /\ PhSize' = PhSize /\ \A i : ProgramHeader(i)' = ProgramHeader(i)
  BY SameNumbers DEF Writes
<1>2. SUFFICES ASSUME NEW i \in 1 .. m
               PROVE  Written(EhSize + (i - 1) * PhSize, PhSize, "segment", ProgramHeader(i))'
  BY DEF Segmented
<1>3. PICK at, len, h : at = EhSize + (i - 1) * PhSize /\ len = PhSize /\ h = ProgramHeader(i)
  OBVIOUS
<1>4. Written(at, len, "segment", h)'
  BY <1>3, WrittenKept DEF Segmented
<1>5. QED
  BY <1>1, <1>3, <1>4

LEMMA FilledKept ==
  ASSUME Writes, NEW m, Filled(m)
  PROVE  Filled(m)'
<1>1. SUFFICES ASSUME NEW i \in 1 .. m
               PROVE  Written(offsets[i], sections[i].size, "content", sections[i].holds)'
  BY DEF Filled
<1>2. PICK at, len, h : at = offsets[i] /\ len = sections[i].size /\ h = sections[i].holds
  OBVIOUS
<1>3. Written(at, len, "content", h)'
  BY <1>2, WrittenKept DEF Filled
<1>4. QED
  BY <1>2, <1>3 DEF Writes

LEMMA NamedKept ==
  ASSUME Writes, Named
  PROVE  Named'
<1>1. Count' = Count /\ NamesSection' = NamesSection /\ offsets' = offsets
  BY SameNumbers DEF Writes
<1>2. PICK at, len, h :
          at = offsets[Count + 3] /\ len = NamesSection.size /\ h = NamesSection.holds
  OBVIOUS
<1>3. Written(at, len, "content", h)'
  BY <1>2, WrittenKept DEF Named
<1>4. QED
  BY <1>1, <1>2, <1>3 DEF Named

LEMMA DescribedKept ==
  ASSUME Writes, NEW m, Described(m)
  PROVE  Described(m)'
<1>1. ShSize' = ShSize /\ Shoff' = Shoff /\ \A i : SectionHeader(i)' = SectionHeader(i)
  BY SameNumbers DEF Writes
<1>2. SUFFICES ASSUME NEW i \in 1 .. m
               PROVE  Written(Shoff + i * ShSize, ShSize, "section", SectionHeader(i))'
  BY DEF Described
<1>3. PICK at, len, h : at = Shoff + i * ShSize /\ len = ShSize /\ h = SectionHeader(i)
  OBVIOUS
<1>4. Written(at, len, "section", h)'
  BY <1>3, WrittenKept DEF Described
<1>5. QED
  BY <1>1, <1>3, <1>4

LEMMA HeaderIInv == ElfTyped /\ AtHeader /\ WriteHeader => ElfIInv'
<1> SUFFICES ASSUME ElfTyped, AtHeader, WriteHeader PROVE ElfIInv'
  OBVIOUS
<1>1. CASE Fail
  BY <1>1, FailIInv DEF AtHeader
<1>2. CASE ~Fail
  <2> DEFINE h == [entry |-> EntryPoint, phoff |-> EhSize, shoff |-> Shoff,
                   phentsize |-> PhSize, phnum |-> SegmentCount,
                   shentsize |-> ShSize, shnum |-> Len(sections) + 2,
                   shstrndx |-> Len(sections) + 1]
  <2>1. /\ phase' = "segments" /\ index' = 1
        /\ UNCHANGED <<image, sections, strings, rows, names, offsets>>
        /\ file' = Put(<<>>, "header", 16 + 8 + 3 * Word + 4 + 12, h)
    BY <1>2 DEF WriteHeader, Advance, AtHeader
  <2>2. /\ Count \in Nat /\ SegmentCount = Count /\ Len(sections) + 2 = Count + 4
        /\ Len(sections) + 1 = Count + 3 /\ image \in Images
    BY ElfPlaces, CountOfSegments DEF ElfTyped, AtHeader
  <2>3. h = FileHeader
    BY <2>2 DEF FileHeader
  <2> HIDE DEF h
  <2>4. EhSize \in Nat /\ 16 + 8 + 3 * Word + 4 + 12 = EhSize
    BY <2>2, Sizes
  <2>5. /\ IsFile(file') /\ file' # <<>> /\ End(file') = EhSize
        /\ file'[1] = Piece(0, EhSize, "header", FileHeader)
    BY <2>1, <2>3, <2>4, FirstPiece
  <2>6. ElfTyped'
    BY <2>1, <2>5 DEF ElfTyped
  <2>7. LaidOut' /\ Headed'
    <3>1. LaidOut'
      BY <2>1, LaidOutKept DEF AtHeader
    <3>2. EhSize' = EhSize /\ FileHeader' = FileHeader
      BY <2>1, SameNumbers
    <3>3. QED
      BY <2>5, <3>1, <3>2, Zenon DEF Headed
  <2>8. Segmented(0)'
    BY DEF Segmented
  <2>9. Count' = Count /\ EhSize' = EhSize /\ PhSize' = PhSize
    BY <2>1, SameNumbers
  <2>10. EhSize + 0 * PhSize = EhSize
    <3>1. EhSize \in Nat /\ PhSize \in Nat
      BY <2>2, Sizes, Zenon
    <3>2. QED
      BY <3>1
  <2>11. AtSegments(0)'
    BY <2>1, <2>2, <2>5, <2>7, <2>8, <2>9, <2>10 DEF AtSegments
  <2>12. QED
    BY <2>6, <2>11 DEF ElfIInv
<1>3. QED
  BY <1>1, <1>2

\* One more program header, unless the section is not loaded.
LEMMA OneMoreSegment ==
  ASSUME NEW m \in Nat, ElfTyped, AtSegments(m), WriteSegment
  PROVE  /\ Turn(Len(sections), "contents") /\ ElfTyped' /\ Writes
         /\ \E k \in Nat : /\ k \in {index, Count} /\ k <= index /\ k <= Count
                           /\ Segmented(k)' /\ End(file') = EhSize + k * PhSize
<1> DEFINE s == sections[index]
<1>1. /\ Count \in Nat /\ index \in 1 .. Count + 2 /\ LaidOut /\ Tabled
      /\ image \in Images /\ IsFile(file)
  BY ElfPlaces DEF ElfTyped, AtSegments
<1>2. Alloc(s) => \A v \in {offsets[index], s.addr, s.size, s.align} : Fits(v)
  BY <1>1, WordsFit
<1>3. /\ Turn(Len(sections), "contents")
      /\ UNCHANGED <<sections, strings, rows, names, offsets>>
      /\ file' = IF Alloc(s) THEN Put(file, "segment", 8 + 6 * Word, ProgramHeader(index))
                             ELSE file
  BY <1>2 DEF WriteSegment
<1>4. PhSize \in Nat /\ 8 + 6 * Word = PhSize
  BY <1>1, Sizes
<1>5. Extends(file', file)
  <2>1. CASE Alloc(s)
    BY <1>1, <1>3, <1>4, <2>1, PutExtends
  <2>2. CASE ~Alloc(s)
    BY <1>1, <1>3, <2>2 DEF Extends
  <2>3. QED
    BY <2>1, <2>2
<1>6. Writes
  BY <1>3, <1>5 DEF Writes, Turn
<1>7. index' \in Nat \ {0}
  BY <1>1, <1>3 DEF Turn
<1>8. ElfTyped'
  BY <1>5, <1>6, <1>7 DEF ElfTyped, Writes, Extends
<1>9. Alloc(s) <=> index <= Count
  BY <1>1, SectionsAre DEF SectionOK
<1>10. m \in {index - 1, Count} /\ m < index /\ m <= Count /\ End(file) = EhSize + m * PhSize
  BY DEF AtSegments
<1>11. Segmented(m)'
  BY <1>6, SegmentedKept DEF AtSegments
<1>12. CASE Alloc(s)
  <2>1. m + 1 = index /\ m + 1 <= Count /\ m + 1 \in Nat
    BY <1>1, <1>9, <1>10, <1>12
  <2>2. End(file') = End(file) + PhSize
    BY <1>1, <1>3, <1>4, <1>12, PutExtends
  <2>3. PICK at, len, h :
            at = EhSize + m * PhSize /\ len = PhSize /\ h = ProgramHeader(index)
    OBVIOUS
  <2>4. at = EhSize' + (m + 1 - 1) * PhSize' /\ len = PhSize' /\ h = ProgramHeader(m + 1)'
    <3>1. m + 1 - 1 = m
      OBVIOUS
    <3>2. EhSize' = EhSize /\ PhSize' = PhSize /\ \A i : ProgramHeader(i)' = ProgramHeader(i)
      BY <1>6, SameNumbers DEF Writes
    <3>3. QED
      BY <2>1, <2>3, <3>1, <3>2
  <2>5. Written(at, len, "segment", h)'
    <3>1. at = End(file)
      BY <1>10, <2>3
    <3>2. file' = Put(file, "segment", len, h)
      BY <1>3, <1>4, <1>12, <2>3
    <3>3. Piece(End(file), len, "segment", h) \in Range(file')
      BY <1>1, <1>4, <2>3, <3>2, PutExtends
    <3>4. QED
      BY <3>1, <3>3 DEF Written
  <2>6. Written(EhSize + (m + 1 - 1) * PhSize, PhSize, "segment", ProgramHeader(m + 1))'
    BY <2>4, <2>5
  <2>7. \A i \in 1 .. m + 1 : i \in 1 .. m \/ i = m + 1
    OBVIOUS
  <2>8. Segmented(m + 1)'
    BY <1>11, <2>6, <2>7 DEF Segmented
  <2>9. End(file') = EhSize + (m + 1) * PhSize
    <3> DEFINE x == m * PhSize
               y == (m + 1) * PhSize
    <3>1. x \in Nat /\ y = x + PhSize /\ EhSize \in Nat
      BY <1>1, Sizes
    <3>2. End(file') = (EhSize + x) + PhSize
      BY <1>10, <2>2
    <3> HIDE DEF x, y
    <3>3. End(file') = EhSize + y
      BY <1>4, <3>1, <3>2
    <3>4. QED
      BY <3>3 DEF y
  <2>10. m + 1 \in {index, Count} /\ m + 1 <= index
    BY <2>1
  <2>11. QED
    BY <1>3, <1>6, <1>8, <2>1, <2>8, <2>9, <2>10
<1>13. CASE ~Alloc(s)
  <2>1. m = Count
    BY <1>1, <1>9, <1>10, <1>13
  <2>2. file' = file
    BY <1>3, <1>13
  <2>3. m \in {index, Count} /\ m <= index /\ m <= Count
    BY <1>1, <1>10, <2>1
  <2>4. End(file') = EhSize + m * PhSize
    BY <1>10, <2>2
  <2>5. QED
    BY <1>3, <1>6, <1>8, <1>11, <2>3, <2>4
<1>14. QED
  BY <1>12, <1>13

LEMMA SegmentIInv ==
  ASSUME NEW m \in Nat
  PROVE  ElfTyped /\ AtSegments(m) /\ WriteSegment => ElfIInv'
<1> SUFFICES ASSUME ElfTyped, AtSegments(m), WriteSegment PROVE ElfIInv'
  OBVIOUS
<1>1. Turn(Len(sections), "contents") /\ ElfTyped' /\ Writes
  BY OneMoreSegment
<1>2. PICK k \in Nat : /\ k \in {index, Count} /\ k <= index /\ k <= Count
                       /\ Segmented(k)' /\ End(file') = EhSize + k * PhSize
  BY OneMoreSegment
<1>3. /\ Count \in Nat /\ index \in 1 .. Count + 2 /\ Len(sections) = Count + 2
      /\ LaidOut /\ image \in Images
  BY ElfPlaces DEF ElfTyped, AtSegments
<1>4. LaidOut' /\ Headed' /\ Count' = Count /\ EhSize' = EhSize /\ PhSize' = PhSize
  BY <1>1, <1>3, LaidOutKept, HeadedKept, SameNumbers DEF Writes, AtSegments
<1>5. CASE index < Count + 2
  <2>1. index' = index + 1 /\ phase' = "segments"
    BY <1>1, <1>3, <1>5 DEF Turn, AtSegments
  <2>2. k \in {index' - 1, Count} /\ k < index' /\ index' <= Count + 2
    BY <1>2, <1>3, <1>5, <2>1
  <2>3. AtSegments(k)'
    BY <1>2, <1>4, <2>1, <2>2 DEF AtSegments
  <2>4. QED
    BY <1>1, <2>3 DEF ElfIInv
<1>6. CASE ~(index < Count + 2)
  <2>1. index' = 1 /\ phase' = "contents"
    BY <1>1, <1>3, <1>6 DEF Turn
  <2>2. k = Count /\ 1 <= Count + 2
    BY <1>2, <1>3, <1>6
  <2>3. Segmented(Count)'
    <3>1. k = Count'
      BY <1>4, <2>2
    <3>2. QED
      BY <1>2, <3>1
  <2>4. Filled(0)'
    BY DEF Filled
  <2>5. End(file') <= offsets'[1]
    <3>1. End(file') = HeadersEnd
      BY <1>2, <2>2 DEF HeadersEnd
    <3>2. QED
      BY <1>1, <1>3, <3>1, ElfPlaces DEF Writes
  <2>6. AtContents'
    BY <1>4, <2>1, <2>2, <2>3, <2>4, <2>5 DEF AtContents, Begun
  <2>7. QED
    BY <1>1, <2>6 DEF ElfIInv
<1>7. QED
  BY <1>5, <1>6

LEMMA ContentIInv == ElfTyped /\ AtContents /\ WriteContent => ElfIInv'
<1> SUFFICES ASSUME ElfTyped, AtContents, WriteContent PROVE ElfIInv'
  OBVIOUS
<1>1. /\ Count \in Nat /\ index \in 1 .. Count + 2 /\ LaidOut /\ Tabled
      /\ Len(sections) = Count + 2 /\ IsFile(file) /\ image \in Images
  BY ElfPlaces DEF ElfTyped, AtContents, Begun
<1> PICK n, at, len, h : /\ n = index /\ at = offsets[index]
                         /\ len = sections[index].size /\ h = sections[index].holds
  OBVIOUS
<1>2. /\ Turn(Count + 2, "names") /\ UNCHANGED <<sections, strings, rows, names, offsets>>
      /\ file' = Put(Pad(file, at), "content", len, h)
  BY <1>1 DEF WriteContent
<1>3. at \in Nat /\ len \in Nat /\ at + len <= offsets[n + 1] /\ n \in 1 .. Count + 2
  <2>1. index \in 1 .. Count + 3
    BY <1>1
  <2>2. QED
    BY <1>1, <2>1, ElfPlaces
<1>4. Extends(Pad(file, at), file) /\ End(Pad(file, at)) = at
  BY <1>1, <1>3, PadExtends DEF AtContents
<1>5. /\ Extends(file', Pad(file, at)) /\ End(file') = at + len
      /\ Piece(at, len, "content", h) \in Range(file')
  <2>1. IsFile(Pad(file, at))
    BY <1>4 DEF Extends
  <2>2. QED
    BY <1>2, <1>3, <1>4, <2>1, PutExtends
<1>6. Writes
  BY <1>2, <1>4, <1>5, Transitive DEF Writes, Turn
<1>7. index' \in Nat \ {0}
  BY <1>1, <1>2 DEF Turn
<1>8. ElfTyped'
  BY <1>5, <1>6, <1>7 DEF ElfTyped, Writes, Extends
<1>9. Begun' /\ Count' = Count
  BY <1>6, LaidOutKept, HeadedKept, SegmentedKept, SameNumbers
    DEF Writes, AtContents, Begun
<1>10. Filled(n)'
  <2>1. Filled(n - 1)'
    BY <1>6, FilledKept DEF AtContents
  <2>2. Written(offsets[n], sections[n].size, "content", sections[n].holds)'
    <3>1. offsets' = offsets /\ sections' = sections
      BY <1>2
    <3>2. n' = n /\ at = offsets[n] /\ len = sections[n].size /\ h = sections[n].holds
      OBVIOUS
    <3>3. QED
      BY <1>5, <3>1, <3>2, Zenon DEF Written
  <2>3. \A i \in 1 .. n : i \in 1 .. n - 1 \/ i = n
    BY <1>1, <1>3
  <2>4. QED
    BY <2>1, <2>2, <2>3 DEF Filled
<1>11. CASE index < Count + 2
  <2>1. index' = n + 1 /\ phase' = "contents"
    BY <1>2, <1>11 DEF Turn, AtContents
  <2>2. index' - 1 = n /\ index' <= Count + 2
    BY <1>1, <1>11, <2>1
  <2>3. End(file') <= offsets'[index']
    BY <1>2, <1>3, <1>5, <2>1
  <2>4. AtContents'
    BY <1>9, <1>10, <2>1, <2>2, <2>3 DEF AtContents
  <2>5. QED
    BY <1>8, <2>4 DEF ElfIInv
<1>12. CASE ~(index < Count + 2)
  <2>1. index' = 1 /\ phase' = "names" /\ n = Count + 2
    BY <1>1, <1>2, <1>12 DEF Turn
  <2>2. End(file') = offsets'[Count + 3]
    BY <1>1, <1>2, <1>5, <2>1 DEF LaidOut
  <2>3. Filled(Count + 2)'
    <3>1. n = (Count + 2)'
      BY <1>9, <2>1
    <3>2. QED
      BY <1>10, <3>1
  <2>4. AtNames'
    BY <1>9, <2>1, <2>2, <2>3 DEF AtNames
  <2>5. QED
    BY <1>8, <2>4 DEF ElfIInv
<1>13. QED
  BY <1>11, <1>12

LEMMA NamesIInv == ElfTyped /\ AtNames /\ WriteNames => ElfIInv'
<1> SUFFICES ASSUME ElfTyped, AtNames, WriteNames PROVE ElfIInv'
  OBVIOUS
<1>1. /\ Count \in Nat /\ LaidOut /\ Tabled /\ IsFile(file) /\ image \in Images
      /\ Shoff \in Nat /\ ShSize \in Nat
  BY ElfPlaces, Sizes DEF ElfTyped, AtNames, Begun
<1> PICK at, len, h : /\ at = offsets[Count + 3] /\ len = NamesSection.size
                      /\ h = NamesSection.holds
  OBVIOUS
<1> DEFINE f == Put(file, "content", len, h)
<1>2. /\ phase' = "headers" /\ index' = 1
      /\ UNCHANGED <<image, sections, strings, rows, names, offsets>>
      /\ file' = Pad(f, Shoff + ShSize)
  BY DEF WriteNames, Advance, AtNames
<1>3. len \in Nat /\ at \in Nat /\ at + len <= Shoff
  <2>1. Count + 3 \in 1 .. Count + 3
    BY <1>1
  <2>2. QED
    BY <1>1, <2>1, ElfPlaces
<1>4. End(file) = at
  BY DEF AtNames
<1>5. /\ Extends(f, file) /\ End(f) = at + len /\ Piece(at, len, "content", h) \in Range(f)
  BY <1>1, <1>3, <1>4, PutExtends
<1> HIDE DEF f
<1>6. Extends(file', f) /\ End(file') = Shoff + ShSize
  <2>1. IsFile(f)
    BY <1>5 DEF Extends
  <2>2. Shoff + ShSize \in Nat /\ End(f) <= Shoff + ShSize
    BY <1>1, <1>3, <1>5
  <2>3. QED
    BY <1>2, <2>1, <2>2, PadExtends
<1>7. Writes
  BY <1>2, <1>5, <1>6, Transitive DEF Writes
<1>8. ElfTyped'
  BY <1>2, <1>6 DEF ElfTyped, Extends
<1>9. /\ Begun' /\ Count' = Count /\ Shoff' = Shoff /\ ShSize' = ShSize
      /\ NamesSection' = NamesSection
  BY <1>7, LaidOutKept, HeadedKept, SegmentedKept, SameNumbers
    DEF Writes, AtNames, Begun
<1>10. Filled(Count + 2)'
  <2>1. PICK m : m = Count + 2
    OBVIOUS
  <2>2. Filled(m)'
    BY <1>7, <2>1, FilledKept DEF AtNames
  <2>3. m = (Count + 2)'
    BY <1>9, <2>1
  <2>4. QED
    BY <2>2, <2>3
<1>11. Named'
  <2>1. Written(at, len, "content", h)'
    BY <1>5, <1>6 DEF Written, Extends
  <2>2. at = offsets'[Count' + 3] /\ len = NamesSection'.size /\ h = NamesSection'.holds
    BY <1>2, <1>9
  <2>3. QED
    BY <2>1, <2>2 DEF Named
<1>12. Described(0)'
  BY DEF Described
<1>13. Shoff + 1 * ShSize = Shoff + ShSize
  BY <1>1
<1>14. AtHeaders'
  BY <1>1, <1>2, <1>6, <1>9, <1>10, <1>11, <1>12, <1>13 DEF AtHeaders, AllFilled
<1>15. QED
  BY <1>8, <1>14 DEF ElfIInv

LEMMA HeadersIInv == ElfTyped /\ AtHeaders /\ WriteSectionHeader => ElfIInv'
<1> SUFFICES ASSUME ElfTyped, AtHeaders, WriteSectionHeader PROVE ElfIInv'
  OBVIOUS
<1>1. /\ Count \in Nat /\ LaidOut /\ Tabled /\ IsFile(file) /\ image \in Images
      /\ Len(sections) = Count + 2 /\ Shoff \in Nat /\ ShSize \in Nat
      /\ index \in 1 .. Count + 3
  BY ElfPlaces, Sizes DEF ElfTyped, AtHeaders, AllFilled, Begun
<1> PICK n, at, len, h : /\ n = index /\ at = Shoff + index * ShSize
                         /\ len = ShSize /\ h = SectionHeader(index)
  OBVIOUS
<1>2. \A v \in {h.addr, h.offset, h.size, h.align, h.entsize} : Fits(v)
  <2> DEFINE s == Append(sections, NamesSection)[index]
  <2>1. CASE index \in 1 .. Count + 2
    <3>1. s = sections[index]
      <4>1. sections = Loadables \o <<StringSection, Table>>
        BY <1>1 DEF Tabled
      <4>2. QED
        BY <1>1, <2>1, <4>1
    <3>2. QED
      BY <1>1, <2>1, <3>1, WordsFit DEF SectionHeader
  <2>2. CASE index = Count + 3
    <3>1. s = NamesSection
      BY <1>1, <2>2
    <3>2. NamesSection.addr = 0 /\ NamesSection.align = 1 /\ NamesSection.entsize = 0
      BY DEF NamesSection, Metadata
    <3>3. /\ h.addr = 0 /\ h.align = 1 /\ h.entsize = 0 /\ h.size = NamesSection.size
          /\ h.offset = offsets[Count + 3]
      BY <2>2, <3>1, <3>2 DEF SectionHeader
    <3>4. QED
      BY <1>1, <3>3, WordsFit
  <2>3. QED
    BY <1>1, <2>1, <2>2
<1>3. /\ Turn(Count + 3, "done") /\ UNCHANGED <<sections, strings, rows, names, offsets>>
      /\ file' = Put(file, "section", 16 + 6 * Word, h)
  <2>1. Len(sections) + 1 = Count + 3
    BY <1>1
  <2>2. QED
    BY <1>2, <2>1 DEF WriteSectionHeader
<1>4. 16 + 6 * Word = len /\ len \in Nat
  BY <1>1, Sizes
<1>5. End(file) = at
  BY DEF AtHeaders
<1>6. /\ Extends(file', file) /\ End(file') = at + len
      /\ Piece(at, len, "section", h) \in Range(file')
  BY <1>1, <1>3, <1>4, <1>5, PutExtends
<1>7. Writes
  BY <1>3, <1>6 DEF Writes, Turn
<1>8. index' \in Nat \ {0}
  BY <1>1, <1>3 DEF Turn
<1>9. ElfTyped'
  BY <1>6, <1>7, <1>8 DEF ElfTyped, Writes, Extends
<1>10. /\ Begun' /\ Count' = Count /\ Shoff' = Shoff /\ ShSize' = ShSize /\ FileSize' = FileSize
       /\ \A i : SectionHeader(i)' = SectionHeader(i)
  BY <1>7, LaidOutKept, HeadedKept, SegmentedKept, SameNumbers
    DEF Writes, AtHeaders, AllFilled, Begun
<1>11. AllFilled'
  <2>1. PICK m : m = Count + 2
    OBVIOUS
  <2>2. Filled(m)' /\ Named'
    BY <1>7, <2>1, FilledKept, NamedKept DEF AtHeaders, AllFilled
  <2>3. m = (Count + 2)'
    BY <1>10, <2>1
  <2>4. QED
    BY <1>10, <2>2, <2>3 DEF AllFilled
<1>12. Described(n)'
  <2>1. Described(n - 1)'
    BY <1>7, DescribedKept DEF AtHeaders
  <2>2. at = Shoff' + n * ShSize' /\ len = ShSize' /\ h = SectionHeader(n)'
    BY <1>10
  <2>3. Written(at, len, "section", h)'
    BY <1>6 DEF Written
  <2>4. Written(Shoff + n * ShSize, ShSize, "section", SectionHeader(n))'
    BY <2>2, <2>3
  <2>5. \A i \in 1 .. n : i \in 1 .. n - 1 \/ i = n
    BY <1>1
  <2>6. QED
    BY <2>1, <2>4, <2>5 DEF Described
<1>13. End(file') = Shoff + (n + 1) * ShSize
  <2> DEFINE x == n * ShSize
             y == (n + 1) * ShSize
  <2>1. x \in Nat /\ y = x + ShSize
    BY <1>1, Sizes
  <2>2. End(file') = (Shoff + x) + ShSize
    BY <1>6
  <2> HIDE DEF x, y
  <2>3. End(file') = Shoff + y
    BY <1>1, <2>1, <2>2
  <2>4. QED
    BY <2>3 DEF y
<1>14. CASE index < Count + 3
  <2>1. index' = n + 1 /\ phase' = "headers"
    BY <1>3, <1>14 DEF Turn, AtHeaders
  <2>2. index' - 1 = n /\ index' <= Count + 3
    BY <1>1, <1>14, <2>1
  <2>3. AtHeaders'
    BY <1>10, <1>11, <1>12, <1>13, <2>1, <2>2 DEF AtHeaders
  <2>4. QED
    BY <1>9, <2>3 DEF ElfIInv
<1>15. CASE ~(index < Count + 3)
  <2>1. phase' = "done" /\ n = Count + 3 /\ n + 1 = Count + 4
    BY <1>1, <1>3, <1>15 DEF Turn
  <2>2. End(file') = FileSize
    BY <1>1, <1>13, <2>1, ElfPlaces
  <2>3. Described(Count + 3)'
    <3>1. n = (Count + 3)'
      BY <1>10, <2>1
    <3>2. QED
      BY <1>12, <3>1
  <2>4. AtEnd'
    BY <1>10, <1>11, <2>1, <2>2, <2>3 DEF AtEnd
  <2>5. QED
    BY <1>9, <2>4 DEF ElfIInv
<1>16. QED
  BY <1>14, <1>15

--------------------------------------------------------------------------------
(* The invariant holds.                                                      *)

LEMMA Phases ==
  ElfIInv => /\ ElfTyped
             /\ phase = "symbols" => AtSymbols
             /\ phase = "tables" => AtTables
             /\ phase = "plan" => AtPlan
             /\ phase = "layout" => AtLayout
             /\ phase = "header" => AtHeader
             /\ phase = "segments" => \E m \in Nat : AtSegments(m)
             /\ phase = "contents" => AtContents
             /\ phase = "names" => AtNames
             /\ phase = "headers" => AtHeaders
             /\ phase = "done" => AtEnd
             /\ phase = "failed" => AtFailure
  BY DEF ElfIInv, AtSymbols, AtTables, AtPlan, AtLayout, AtHeader, AtSegments,
         AtContents, AtNames, AtHeaders, AtEnd, AtFailure

LEMMA StutterIInv == ElfIInv /\ UNCHANGED elfVars => ElfIInv'
<1> SUFFICES ASSUME ElfIInv, UNCHANGED elfVars PROVE ElfIInv'
  OBVIOUS
<1> USE DEF elfVars
<1>1. ElfTyped'
  BY DEF ElfIInv, ElfTyped
<1>2. Writes
  BY DEF ElfIInv, ElfTyped, Writes, Extends
<1>3. /\ Count' = Count /\ EhSize' = EhSize /\ PhSize' = PhSize /\ ShSize' = ShSize
      /\ Shoff' = Shoff /\ FileSize' = FileSize
  BY <1>2, SameNumbers DEF Writes
<1>4. Bare => Bare'
  BY DEF Bare, Loadables
<1>5. \A m : Listed(m) => Listed(m)'
  BY DEF Listed, Row
<1>6. Finished => Finished'
  BY FinishedKept
<1>7. LaidOut => LaidOut'
  BY LaidOutKept
<1>8. \A m : PlannedFor(m) => PlannedFor(m)'
  BY <1>3 DEF PlannedFor, Placed, PlacedAt, Before, HeadersEnd
<1>9. \A m : Segmented(m) => Segmented(m)'
  BY <1>2, SegmentedKept
<1>10. \A m : Filled(m) => Filled(m)'
  BY <1>2, FilledKept
<1>11. \A m : Described(m) => Described(m)'
  BY <1>2, DescribedKept
<1>12. (Named => Named') /\ (Headed => Headed')
  BY <1>2, NamedKept, HeadedKept
<1>13. CASE AtSymbols
  BY <1>1, <1>4, <1>5, <1>13 DEF ElfIInv, AtSymbols, AtStart
<1>14. CASE AtTables
  BY <1>1, <1>4, <1>5, <1>14 DEF ElfIInv, AtTables, AtStart
<1>15. CASE AtPlan
  BY <1>1, <1>3, <1>6, <1>8, <1>15 DEF ElfIInv, AtPlan
<1>16. CASE AtLayout
  BY <1>1, <1>3, <1>6, <1>8, <1>16 DEF ElfIInv, AtLayout
<1>17. CASE AtHeader
  BY <1>1, <1>7, <1>17 DEF ElfIInv, AtHeader
<1>18. CASE \E m \in Nat : AtSegments(m)
  BY <1>1, <1>3, <1>7, <1>9, <1>12, <1>18 DEF ElfIInv, AtSegments
<1>19. Begun => Begun'
  BY <1>3, <1>7, <1>9, <1>12 DEF Begun
<1>20. AllFilled => AllFilled'
  BY <1>3, <1>10, <1>12, <1>19 DEF AllFilled
<1>21. CASE AtContents
  BY <1>1, <1>3, <1>10, <1>19, <1>21 DEF ElfIInv, AtContents
<1>22. CASE AtNames
  BY <1>1, <1>3, <1>10, <1>19, <1>22 DEF ElfIInv, AtNames
<1>23. CASE AtHeaders
  BY <1>1, <1>3, <1>11, <1>20, <1>23 DEF ElfIInv, AtHeaders
<1>24. CASE AtEnd
  BY <1>1, <1>3, <1>11, <1>20, <1>24 DEF ElfIInv, AtEnd
<1>25. CASE AtFailure
  BY <1>1, <1>25 DEF ElfIInv, AtFailure
<1>26. QED
  BY <1>13, <1>14, <1>15, <1>16, <1>17, <1>18, <1>21, <1>22, <1>23, <1>24, <1>25 DEF ElfIInv

LEMMA ElfNextIInv == ElfIInv /\ [ElfNext]_elfVars => ElfIInv'
<1> SUFFICES ASSUME ElfIInv, [ElfNext]_elfVars PROVE ElfIInv'
  OBVIOUS
<1>1. CASE AddSymbol
  BY <1>1, Phases, SymbolIInv DEF AddSymbol
<1>2. CASE AddTables
  BY <1>2, Phases, TablesIInv DEF AddTables
<1>3. CASE PlanSection
  BY <1>3, Phases, PlanIInv DEF PlanSection
<1>4. CASE PlanRest
  BY <1>4, Phases, LayoutIInv DEF PlanRest
<1>5. CASE WriteHeader
  BY <1>5, Phases, HeaderIInv DEF WriteHeader
<1>6. CASE WriteSegment
  <2>1. PICK m \in Nat : AtSegments(m)
    BY <1>6, Phases DEF WriteSegment
  <2>2. QED
    BY <1>6, <2>1, Phases, SegmentIInv
<1>7. CASE WriteContent
  BY <1>7, Phases, ContentIInv DEF WriteContent
<1>8. CASE WriteNames
  BY <1>8, Phases, NamesIInv DEF WriteNames
<1>9. CASE WriteSectionHeader
  BY <1>9, Phases, HeadersIInv DEF WriteSectionHeader
<1>10. CASE UNCHANGED elfVars
  BY <1>10, StutterIInv
<1>11. QED
  BY <1>1, <1>2, <1>3, <1>4, <1>5, <1>6, <1>7, <1>8, <1>9, <1>10 DEF ElfNext

\* Whatever image is written, and after any number of steps, the invariant
\* above relates the image, the plan and what of the file there is (all of
\* Elf::finish and serialize).
THEOREM ElfInvariance == ElfSpec => []ElfIInv
<1>1. ElfInit => ElfIInv
  BY ElfInitIInv
<1>2. ElfIInv /\ [ElfNext]_elfVars => ElfIInv'
  BY ElfNextIInv
<1>3. QED
  BY <1>1, <1>2, PTL DEF ElfSpec

--------------------------------------------------------------------------------
(* What a reader finds.                                                      *)

LEMMA PieceFound ==
  ASSUME NEW at, NEW len, NEW kind, NEW holds, Written(at, len, kind, holds)
  PROVE  holds \in Pieces(kind, at, len)
<1> DEFINE p == Piece(at, len, kind, holds)
<1>1. p \in Range(file)
  BY DEF Written
<1>2. p.at = at /\ p.len = len /\ p.kind = kind /\ p.holds = holds
  BY DEF Piece
<1> HIDE DEF p
<1>3. QED
  BY <1>1, <1>2 DEF Pieces

LEMMA StringFound ==
  ASSUME NEW t \in Seq(StringType), NEW j \in 1 .. Len(t)
  PROVE  [at |-> t[j].at, name |-> t[j].name] \in Range(t)
<1>1. t[j] \in StringType /\ j \in DOMAIN t
  OBVIOUS
<1>2. t[j] = [at |-> t[j].at, name |-> t[j].name]
  BY <1>1 DEF StringType
<1>3. QED
  BY <1>1, <1>2 DEF Range

\* The header leads to the table of section headers, and each of them to what
\* its section holds.
LEMMA HeadersFound ==
  ASSUME ElfTyped, AtEnd
  PROVE  /\ Header = FileHeader
         /\ \A i \in 1 .. Count + 3 : SectionHeader(i) \in SectionAt(i)
<1>1. Header = FileHeader
  BY DEF AtEnd, AllFilled, Begun, Headed, Header, Piece
<1>2. Header.shoff = Shoff /\ Header.shentsize = ShSize
  BY <1>1 DEF FileHeader
<1>3. \A i \in 1 .. Count + 3 :
          Written(Shoff + i * ShSize, ShSize, "section", SectionHeader(i))
  BY DEF AtEnd, Described
<1>4. QED
  BY <1>1, <1>2, <1>3, PieceFound DEF SectionAt

LEMMA SectionFound ==
  ASSUME ElfTyped, AtEnd, NEW i \in 1 .. Count + 2
  PROVE  /\ SectionHeader(i) =
                [name |-> names[i].at, kind |-> sections[i].kind, flags |-> sections[i].flags,
                 addr |-> sections[i].addr, offset |-> offsets[i], size |-> sections[i].size,
                 link |-> sections[i].link, align |-> sections[i].align,
                 entsize |-> sections[i].entsize]
         /\ sections[i].holds \in Content(offsets[i], sections[i].size)
<1>1. Count \in Nat /\ Tabled /\ Len(sections) = Count + 2
  BY ElfPlaces DEF AtEnd, AllFilled, Begun
<1>2. sections = Loadables \o <<StringSection, Table>>
  BY <1>1 DEF Tabled
<1>3. Append(sections, NamesSection)[i] = sections[i]
  BY <1>1, <1>2
<1>4. Written(offsets[i], sections[i].size, "content", sections[i].holds)
  BY DEF AtEnd, AllFilled, Filled
<1>5. QED
  BY <1>3, <1>4, PieceFound DEF SectionHeader, Content

\* The names of the sections are found under the index the header gives.
LEMMA NameFound ==
  ASSUME ElfTyped, AtEnd, NEW i \in 1 .. Count + 2
  PROVE  IsStringOf(Header.shstrndx, names[i].at, sections[i].name)
<1>1. /\ Count \in Nat /\ Tabled /\ Len(sections) = Count + 2
      /\ Len(names) = Count + 3 /\ names \in Seq(StringType) /\ names[i].name = sections[i].name
  BY ElfPlaces DEF AtEnd, AllFilled, Begun, LaidOut, Placed, PlacedAt, ElfTyped
<1> DEFINE n == Count + 3
           h == SectionHeader(n)
           c == NamesSection.holds
<1>2. n \in 1 .. Count + 3 /\ i \in 1 .. Len(names)
  BY <1>1
<1>3. Header.shstrndx = n
  BY HeadersFound DEF FileHeader
<1>4. h \in SectionAt(n)
  BY <1>2, HeadersFound
<1>5. Append(sections, NamesSection)[n] = NamesSection
  <2>1. sections = Loadables \o <<StringSection, Table>>
    BY <1>1 DEF Tabled
  <2>2. n = Len(sections) + 1
    BY <1>1
  <2>3. QED
    BY <1>1, <2>1, <2>2
<1>6. /\ h.kind = NamesSection.kind /\ h.offset = offsets[n] /\ h.size = NamesSection.size
  BY <1>5 DEF SectionHeader
<1>7. NamesSection.kind = "STRTAB" /\ c.strings = names
  BY DEF NamesSection, Metadata, Holding
<1>8. Written(offsets[n], NamesSection.size, "content", c)
  BY DEF AtEnd, AllFilled, Named
<1>9. c \in Content(h.offset, h.size)
  BY <1>6, <1>8, PieceFound DEF Content
<1>10. [at |-> names[i].at, name |-> sections[i].name] \in Range(c.strings)
  BY <1>1, <1>2, <1>7, StringFound
<1> HIDE DEF n, h, c
<1>11. QED
  BY <1>3, <1>4, <1>6, <1>7, <1>9, <1>10 DEF IsStringOf

LEMMA Permissions ==
  ASSUME NEW perms \in SUBSET {"R", "W", "X"}
  PROVE  ProgramFlags({"A"} \cup (perms \cap {"W", "X"})) = {"R"} \cup perms
  BY DEF ProgramFlags

LEMMA DoneHoldsTheImage == ElfTyped /\ AtEnd => FileHoldsTheImage
<1> SUFFICES ASSUME ElfTyped, AtEnd PROVE FileHoldsTheImage
  OBVIOUS
<1>1. /\ Count \in Nat /\ Tabled /\ LaidOut /\ image \in Images
      /\ DOMAIN image.sections = 1 .. Count
  BY ElfPlaces, ImageFacts DEF ElfTyped, AtEnd, AllFilled, Begun
<1>2. Header = FileHeader
  BY HeadersFound
<1>3. /\ Header.entry = EntryPoint /\ Header.phnum = Len(image.sections)
      /\ Header.phoff = EhSize /\ Header.phentsize = PhSize
  BY <1>2 DEF FileHeader, Count
<1>4. ASSUME NEW k \in 1 .. Count
      PROVE  \E p \in SegmentAt(k - 1) :
                 /\ p.addr = image.sections[k].addr /\ p.size = image.sections[k].size
                 /\ p.flags = {"R"} \cup image.sections[k].perms
                 /\ p.offset % p.align = p.addr % p.align
                 /\ \E c \in Content(p.offset, p.size) : c.owner = image.sections[k].name
  <2> DEFINE s == image.sections[k]
             p == ProgramHeader(k)
  <2>1. /\ sections[k] = Loadable(s) /\ s \in SectionType /\ s.addr % s.align = 0
        /\ k \in 1 .. Count + 2
    BY <1>1, TabledFacts, ImageFacts
  <2>2. p \in SegmentAt(k - 1)
    <3>1. Written(EhSize + (k - 1) * PhSize, PhSize, "segment", p)
      BY DEF AtEnd, AllFilled, Begun, Segmented
    <3>2. QED
      BY <1>3, <3>1, PieceFound DEF SegmentAt
  <2>3. /\ sections[k].addr = s.addr /\ sections[k].size = s.size
        /\ sections[k].align = s.align
        /\ sections[k].flags = {"A"} \cup (s.perms \cap {"W", "X"})
        /\ sections[k].holds.owner = s.name
    BY <2>1 DEF Loadable, Holding
  <2>4. /\ p.offset = offsets[k] /\ p.addr = s.addr /\ p.size = s.size /\ p.align = s.align
        /\ p.flags = ProgramFlags(sections[k].flags)
    BY <2>3 DEF ProgramHeader
  <2>5. p.flags = {"R"} \cup s.perms
    BY <2>1, <2>3, <2>4, Permissions DEF SectionType
  <2>6. offsets[k] % s.align = 0
    BY <1>1, <2>1, <2>3 DEF LaidOut, Placed, PlacedAt
  <2>7. sections[k].holds \in Content(p.offset, p.size)
    BY <2>1, <2>3, <2>4, SectionFound
  <2> HIDE DEF p
  <2>8. QED
    BY <2>1, <2>2, <2>3, <2>4, <2>5, <2>6, <2>7
<1>5. QED
  BY <1>1, <1>3, <1>4 DEF FileHoldsTheImage

\* One symbol, found: what SymbolsResolve asks for it.
Resolved(s) ==
    \E t \in 1 .. Header.shnum - 1 : \E table \in SectionAt(t) :
        /\ table.kind = "SYMTAB"
        /\ table.size = table.entsize * (Len(image.symbols) + 1)
        /\ \E c \in Content(table.offset, table.size) :
               \E r \in Range(c.rows) :
                   /\ IsStringOf(table.link, r.name, s.name)
                   /\ r.value = image.sections[s.section + 1].addr + s.offset
                   /\ r.size = s.size
                   /\ \E h \in SectionAt(r.section) :
                          /\ IsStringOf(Header.shstrndx, h.name,
                                        image.sections[s.section + 1].name)
                          /\ r.value \in h.addr .. h.addr + h.size

LEMMA SymbolNameFound ==
  ASSUME ElfTyped, AtEnd, NEW j \in 1 .. Len(image.symbols)
  PROVE  IsStringOf(Count + 1, strings[j].at, image.symbols[j].name)
<1>1. /\ Count \in Nat /\ Tabled /\ Listed(Len(image.symbols)) /\ image \in Images
      /\ strings \in Seq(StringType)
  BY ElfPlaces DEF ElfTyped, AtEnd, AllFilled, Begun, LaidOut, Finished
<1> DEFINE n == Count + 1
           h == SectionHeader(n)
           c == StringSection.holds
<1>2. n \in 1 .. Count + 2 /\ n \in 1 .. Count + 3 /\ j \in 1 .. Len(strings)
  BY <1>1 DEF Listed
<1>3. sections[n] = StringSection
  BY <1>1, TabledFacts
<1>4. /\ h.kind = sections[n].kind /\ h.offset = offsets[n] /\ h.size = sections[n].size
      /\ sections[n].holds \in Content(offsets[n], sections[n].size)
  BY <1>2, SectionFound
<1>5. h \in SectionAt(n)
  BY <1>2, HeadersFound
<1>6. StringSection.kind = "STRTAB" /\ c.strings = strings
  BY DEF StringSection, Metadata, Holding
<1>7. c \in Content(h.offset, h.size) /\ h.kind = "STRTAB"
  BY <1>3, <1>4, <1>6
<1>8. strings[j].name = image.symbols[j].name
  BY <1>1 DEF Listed
<1>9. [at |-> strings[j].at, name |-> image.symbols[j].name] \in Range(c.strings)
  BY <1>1, <1>2, <1>6, <1>8, StringFound
<1> HIDE DEF h, c
<1>10. QED
  BY <1>5, <1>7, <1>9 DEF IsStringOf

LEMMA SymbolFound ==
  ASSUME ElfTyped, AtEnd, NEW j \in 1 .. Len(image.symbols)
  PROVE  Resolved(image.symbols[j])
<1> DEFINE s == image.symbols[j]
           k == s.section + 1
           t == Count + 2
           table == SectionHeader(t)
           c == Table.holds
           r == rows[j]
           h == SectionHeader(k)
<1>1. /\ Count \in Nat /\ Tabled /\ Listed(Len(image.symbols)) /\ image \in Images
      /\ rows \in Seq(RowType) /\ Len(image.symbols) \in Nat
  BY ElfPlaces, ImageFacts DEF ElfTyped, AtEnd, AllFilled, Begun, LaidOut, Finished
<1>2. t \in 1 .. Count + 2 /\ t \in 1 .. Count + 3 /\ Header.shnum - 1 = Count + 3
  BY <1>1, HeadersFound DEF FileHeader
<1>3. sections[t] = Table
  BY <1>1, TabledFacts
<1>4. table \in SectionAt(t)
  BY <1>2, HeadersFound
<1>5. /\ table.kind = "SYMTAB" /\ table.link = Count + 1 /\ table.entsize = EntrySize
      /\ table.size = EntrySize + Len(rows) * (8 + 2 * Word)
      /\ c \in Content(table.offset, table.size)
  <2>1. /\ table.kind = sections[t].kind /\ table.link = sections[t].link
        /\ table.entsize = sections[t].entsize /\ table.size = sections[t].size
        /\ table.offset = offsets[t]
        /\ sections[t].holds \in Content(offsets[t], sections[t].size)
    BY <1>2, SectionFound
  <2>2. QED
    BY <1>3, <2>1, TableIs
<1>6. Len(rows) = Len(image.symbols)
  BY <1>1 DEF Listed
<1>7. table.size = table.entsize * (Len(image.symbols) + 1)
  <2> DEFINE e == EntrySize * (Len(image.symbols) + 1)
  <2>1. EntrySize + Len(rows) * (8 + 2 * Word) = e
    BY <1>1, <1>6, Sizes
  <2> HIDE DEF e, table
  <2>2. table.size = e
    BY <1>5, <2>1
  <2>3. QED
    BY <1>5, <2>2 DEF e
<1>8. c.rows = rows
  BY TableIs DEF Holding
<1>9. r \in Range(c.rows)
  BY <1>1, <1>6, <1>8 DEF Range
<1>10. /\ r.name = strings[j].at /\ r.size = s.size /\ r.section = k
       /\ r.value = image.sections[k].addr + s.offset
  <2>1. r = Row(s, strings[j].at)
    BY <1>1 DEF Listed
  <2>2. ASSUME NEW x, NEW at
        PROVE  /\ Row(x, at).name = at /\ Row(x, at).size = x.size
               /\ Row(x, at).section = x.section + 1
               /\ Row(x, at).value = image.sections[x.section + 1].addr + x.offset
    BY DEF Row, SectionIndex
  <2>3. QED
    BY <2>1, <2>2
<1>11. IsStringOf(table.link, r.name, s.name)
  BY <1>5, <1>10, SymbolNameFound
<1>12. /\ k \in 1 .. Count /\ s \in SymbolType
       /\ s.offset + s.size <= image.sections[k].size
  BY <1>1, SymbolsInside, ImageFacts
<1>13. /\ k \in 1 .. Count + 2 /\ k \in 1 .. Count + 3
  BY <1>1, <1>12
<1>14. sections[k] = Loadable(image.sections[k]) /\ image.sections[k] \in SectionType
  BY <1>1, <1>12, TabledFacts, ImageFacts
<1>15. h \in SectionAt(r.section)
  BY <1>10, <1>13, HeadersFound
<1>16. /\ h.name = names[k].at /\ h.addr = image.sections[k].addr
       /\ h.size = image.sections[k].size /\ sections[k].name = image.sections[k].name
  BY <1>13, <1>14, SectionFound DEF Loadable
<1>17. IsStringOf(Header.shstrndx, h.name, image.sections[k].name)
  BY <1>13, <1>16, NameFound
<1>18. r.value \in h.addr .. h.addr + h.size
  <2> DEFINE a == image.sections[k].addr
             z == image.sections[k].size
             o == s.offset
  <2>1. a \in Nat /\ z \in Nat
    BY <1>14 DEF SectionType
  <2>2. o \in Nat /\ s.size \in Nat /\ o + s.size <= z
    BY <1>12 DEF SymbolType
  <2>3. r.value = a + o /\ h.addr = a /\ h.size = z
    BY <1>10, <1>16
  <2> HIDE DEF a, z, o, h, r, s
  <2>4. a + o \in a .. a + z
    BY <2>1, <2>2
  <2>5. QED
    BY <2>3, <2>4
<1> HIDE DEF table, c, r, h, t
<1>19. t \in 1 .. Header.shnum - 1
  BY <1>2
<1>20. QED
  BY <1>4, <1>5, <1>7, <1>9, <1>10, <1>11, <1>15, <1>17, <1>18, <1>19 DEF Resolved

LEMMA DoneResolves == ElfTyped /\ AtEnd => SymbolsResolve
<1> SUFFICES ASSUME ElfTyped, AtEnd PROVE SymbolsResolve
  OBVIOUS
<1>1. \A j \in 1 .. Len(image.symbols) : Resolved(image.symbols[j])
  BY SymbolFound
<1>2. DOMAIN image.symbols = 1 .. Len(image.symbols)
  BY ElfFileAssumption DEF ElfTyped, ImageType
<1>3. \A s \in Range(image.symbols) : Resolved(s)
  BY <1>1, <1>2 DEF Range
<1>4. QED
  BY <1>3 DEF Resolved, SymbolsResolve

LEMMA KeepsToThePlan == ElfIInv => FileIsAsPlanned
<1> SUFFICES ASSUME ElfIInv PROVE FileIsAsPlanned
  OBVIOUS
<1>1. phase = "contents" => End(file) <= offsets[index]
  BY Phases DEF AtContents
<1>2. phase = "names" => End(file) = offsets[Len(offsets)]
  BY Phases DEF AtNames, Begun, LaidOut
<1>3. phase = "headers" => End(file) = Shoff + index * ShSize
  BY Phases DEF AtHeaders
<1>4. phase = "done" => End(file) = FileSize
  BY Phases DEF AtEnd
<1>5. phase = "failed" => file = <<>>
  BY Phases DEF AtFailure
<1>6. QED
  BY <1>1, <1>2, <1>3, <1>4, <1>5 DEF FileIsAsPlanned

\* In every file that serialize finishes, a loader that follows the program
\* headers finds each section of the image, whole, at its address and with its
\* permissions, at an offset it can map from.
THEOREM FileIsRight == ElfSpec => []FileHoldsTheImage
<1>1. ElfIInv => FileHoldsTheImage
  BY Phases, DoneHoldsTheImage DEF FileHoldsTheImage
<1>2. QED
  BY <1>1, ElfInvariance, PTL

\* And a harness that looks a symbol up by its name finds its address, its size
\* and the section it is in, through the three tables finish and serialize build.
THEOREM SymbolsAreFound == ElfSpec => []SymbolsResolve
<1>1. ElfIInv => SymbolsResolve
  BY Phases, DoneResolves DEF SymbolsResolve
<1>2. QED
  BY <1>1, ElfInvariance, PTL

\* The debug assertions of serialize's second pass hold: it is never past a
\* place of the plan, it ends where planned, and a file that does not fit its
\* class is refused before anything is written.
THEOREM PlanIsKept == ElfSpec => []FileIsAsPlanned
<1>1. QED
  BY KeepsToThePlan, ElfInvariance, PTL
================================================================================
