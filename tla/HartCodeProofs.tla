----------------------------- MODULE HartCodeProofs -----------------------------
(***************************************************************************)
(* The code Hart::run generates does what it says, for every number of       *)
(* registers, every word length, every workload, every draw and every fault  *)
(* of the device, if the code is loaded at a multiple of four bytes: the     *)
(* workload starts from what was drawn, the self-check is exact although it  *)
(* computes in the registers it compares, and the exit code tells why the    *)
(* run ended.                                                                *)
(*                                                                         *)
(* First the layout: where every slot of the code is (Places, InitSlots,     *)
(* WorkSlots, CheckSlots, EndSlots), and that mtvec, whose two low bits are  *)
(* ignored, leads to the handler because the padding makes its offset a      *)
(* multiple of four (TrapsGoToTheHandler).  Then the inductive invariant     *)
(* HInv: slot by slot, what the registers hold on the way from _start to     *)
(* _exit, in _fail and in the handler.  Last, that every action keeps it,    *)
(* and what it shows.                                                        *)
(***************************************************************************)
EXTENDS HartCode, FiniteSetTheorems, TLAPS

--------------------------------------------------------------------------------
(* Sequences of slots.                                                       *)

IsSeq(s) == \E T : s \in Seq(T)

\* The slots of t are in s, from slot n + 1 on.
Part(s, n, t) == n + Len(t) <= Len(s) /\ \A i \in 1 .. Len(t) : s[n + i] = t[i]

\* A sequence is a function on 1 .. Len.
LEMMA SeqIs ==
  ASSUME NEW s, IsSeq(s)
  PROVE  Len(s) \in Nat /\ DOMAIN s = 1 .. Len(s)
<1>1. PICK T : s \in Seq(T)
  BY DEF IsSeq
<1> QED  BY <1>1

\* A function on 1 .. n is a sequence of length n.
LEMMA FunctionIsSeq ==
  ASSUME NEW m \in Nat, NEW s, s = [i \in 1 .. m |-> s[i]]
  PROVE  IsSeq(s) /\ Len(s) = m
<1> DEFINE T == {s[i] : i \in 1 .. m}
<1>1. \A i \in 1 .. m : s[i] \in T
  OBVIOUS
<1> HIDE DEF T
<1>2. s \in [1 .. m -> T]
  BY <1>1
<1>3. s \in Seq(T) /\ Len(s) = m
  BY <1>2
<1> QED  BY <1>3 DEF IsSeq

\* The length and the elements of a concatenation.
LEMMA Cat ==
  ASSUME NEW s, NEW t, IsSeq(s), IsSeq(t)
  PROVE  /\ IsSeq(s \o t) /\ Len(s \o t) = Len(s) + Len(t)
         /\ \A i \in 1 .. Len(s) : (s \o t)[i] = s[i]
         /\ \A i \in 1 .. Len(t) : (s \o t)[Len(s) + i] = t[i]
<1>1. PICK T : s \in Seq(T)
  BY DEF IsSeq
<1>2. PICK U : t \in Seq(U)
  BY DEF IsSeq
<1>3. s \in Seq(T \cup U) /\ t \in Seq(T \cup U)
  BY <1>1, <1>2
<1>4. /\ s \o t \in Seq(T \cup U) /\ Len(s \o t) = Len(s) + Len(t)
      /\ Len(s) \in Nat /\ Len(t) \in Nat
  BY <1>3
<1>5. \A i \in 1 .. Len(s) : (s \o t)[i] = s[i]
  BY <1>3
<1>6. ASSUME NEW i \in 1 .. Len(t) PROVE (s \o t)[Len(s) + i] = t[i]
  BY <1>3, <1>4
<1> QED  BY <1>4, <1>5, <1>6 DEF IsSeq

\* A part of the left half of a concatenation.
LEMMA PartLeft ==
  ASSUME NEW s, NEW t, IsSeq(s), IsSeq(t), NEW u, IsSeq(u), NEW n \in Nat, Part(s, n, u)
  PROVE  Part(s \o t, n, u)
<1>1. /\ Len(s \o t) = Len(s) + Len(t) /\ Len(s) \in Nat /\ Len(t) \in Nat /\ Len(u) \in Nat
      /\ \A i \in 1 .. Len(s) : (s \o t)[i] = s[i]
  BY Cat, SeqIs
<1>2. \A i \in 1 .. Len(u) : n + i \in 1 .. Len(s)
  BY <1>1 DEF Part
<1> QED  BY <1>1, <1>2 DEF Part

\* A part of the right half, further on.
LEMMA PartRight ==
  ASSUME NEW s, NEW t, IsSeq(s), IsSeq(t)
  PROVE  Part(s \o t, Len(s), t)
<1>1. Len(s) \in Nat /\ Len(t) \in Nat
  BY SeqIs
<1> QED  BY <1>1, Cat DEF Part

\* A part of a part.
LEMMA PartOf ==
  ASSUME NEW s, NEW t, NEW u, IsSeq(s), IsSeq(t), IsSeq(u),
         NEW n \in Nat, NEW m \in Nat, Part(s, n, t), Part(t, m, u)
  PROVE  Part(s, n + m, u)
<1>1. Len(s) \in Nat /\ Len(t) \in Nat /\ Len(u) \in Nat
  BY SeqIs
<1>2. n + m + Len(u) <= Len(s)
  BY <1>1 DEF Part
<1>3. ASSUME NEW i \in 1 .. Len(u) PROVE s[n + m + i] = u[i]
  <2>1. m + i \in 1 .. Len(t) /\ n + (m + i) = n + m + i
    BY <1>1 DEF Part
  <2>2. s[n + (m + i)] = t[m + i] /\ t[m + i] = u[i]
    BY <2>1 DEF Part
  <2> QED  BY <2>1, <2>2
<1> QED  BY <1>2, <1>3 DEF Part

\* Join has k slots of each part, in their order.
LEMMA JoinIs ==
  ASSUME NEW k \in {2, 3, 4}, NEW parts, IsSeq(parts),
         \A i \in 1 .. Len(parts) : IsSeq(parts[i]) /\ Len(parts[i]) = k
  PROVE  /\ IsSeq(Join(k, parts)) /\ Len(Join(k, parts)) = k * Len(parts)
         /\ \A i \in 1 .. Len(parts) : Part(Join(k, parts), k * (i - 1), parts[i])
<1> DEFINE n == Len(parts)
           s == Join(k, parts)
<1>1. n \in Nat /\ k \in Nat \ {0}
  BY SeqIs
<1>2. k * n \in Nat
  BY <1>1
<1>3. s = [i \in 1 .. k * n |-> parts[(i - 1) \div k + 1][((i - 1) % k) + 1]]
  BY DEF Join
<1>4. IsSeq(s) /\ Len(s) = k * n
  <2>1. s = [i \in 1 .. k * n |-> s[i]]
    BY <1>3
  <2> HIDE DEF s
  <2> QED  BY <1>2, <2>1, FunctionIsSeq
<1>5. ASSUME NEW i \in 1 .. n PROVE Part(s, k * (i - 1), parts[i])
  <2>1. Len(parts[i]) = k
    OBVIOUS
  <2>2. k * (i - 1) + k <= k * n
    BY <1>1
  <2>3. ASSUME NEW j \in 1 .. k PROVE s[k * (i - 1) + j] = parts[i][j]
    <3> DEFINE l == k * (i - 1) + j
    <3>1. l \in 1 .. k * n
      BY <1>1
    <3>2. (l - 1) \div k = i - 1 /\ (l - 1) % k = j - 1
      <4>1. CASE k = 2
        BY <1>1, <4>1
      <4>2. CASE k = 3
        BY <1>1, <4>2
      <4>3. CASE k = 4
        BY <1>1, <4>3
      <4> QED  BY <4>1, <4>2, <4>3
    <3>3. s[l] = parts[(l - 1) \div k + 1][((l - 1) % k) + 1]
      <4> HIDE DEF l, s
      <4> QED  BY <1>3, <3>1
    <3>4. i - 1 + 1 = i /\ j - 1 + 1 = j
      BY <1>1
    <3> HIDE DEF l, s
    <3>5. s[l] = parts[i][j]
      BY <3>2, <3>3, <3>4
    <3> QED  BY <3>5 DEF l
  <2> QED  BY <1>4, <2>1, <2>2, <2>3 DEF Part
<1> QED  BY <1>4, <1>5

\* Every part of u is a part of s.
Keeps(u, s) == \A k \in Nat : \A p : IsSeq(p) /\ Part(u, k, p) => Part(s, k, p)

\* s is u, of n slots, followed by t, of m.
Followed(s, u, n, t, m) ==
    IsSeq(s) /\ Len(s) = n + m /\ Part(s, n, t) /\ Keeps(u, s)

\* What a concatenation is, in terms of its two halves.
LEMMA Then ==
  ASSUME NEW u, NEW t, IsSeq(u), IsSeq(t), NEW n \in Nat, Len(u) = n,
         NEW m \in Nat, Len(t) = m, NEW s, s = u \o t
  PROVE  Followed(s, u, n, t, m)
<1>1. Part(s, n, t)
  BY PartRight
<1>2. ASSUME NEW k \in Nat, NEW p, IsSeq(p), Part(u, k, p) PROVE Part(s, k, p)
  BY <1>2, PartLeft
<1>3. IsSeq(s) /\ Len(s) = n + m
  BY Cat
<1>4. Keeps(u, s)
  BY <1>2 DEF Keeps
<1> QED  BY <1>1, <1>3, <1>4 DEF Followed

LEMMA Whole == ASSUME NEW s, IsSeq(s) PROVE Part(s, 0, s)
<1>1. Len(s) \in Nat
  BY SeqIs
<1> QED  BY <1>1 DEF Part

\* The sequences of up to five slots the code is written with.
LEMMA Tuple0 == IsSeq(<<>>) /\ Len(<<>>) = 0
BY DEF IsSeq

LEMMA Tuple1 ==
  ASSUME NEW a
  PROVE  IsSeq(<<a>>) /\ Len(<<a>>) = 1
<1>1. <<a>> \in Seq({a})
  OBVIOUS
<1> QED  BY <1>1 DEF IsSeq

LEMMA Tuple2 ==
  ASSUME NEW a, NEW b
  PROVE  IsSeq(<<a, b>>) /\ Len(<<a, b>>) = 2
<1>1. <<a, b>> \in Seq({a, b})
  OBVIOUS
<1> QED  BY <1>1 DEF IsSeq

LEMMA Tuple3 ==
  ASSUME NEW a, NEW b, NEW c
  PROVE  IsSeq(<<a, b, c>>) /\ Len(<<a, b, c>>) = 3
<1>1. <<a, b, c>> \in Seq({a, b, c})
  OBVIOUS
<1> QED  BY <1>1 DEF IsSeq

LEMMA Tuple5 ==
  ASSUME NEW a, NEW b, NEW c, NEW d, NEW e
  PROVE  IsSeq(<<a, b, c, d, e>>) /\ Len(<<a, b, c, d, e>>) = 5
<1>1. <<a, b, c, d, e>> \in Seq({a, b, c, d, e})
  OBVIOUS
<1> QED  BY <1>1 DEF IsSeq

\* A slot of a part is a slot of the whole.
LEMMA At ==
  ASSUME NEW s, NEW n, NEW t, Part(s, n, t), NEW i \in 1 .. Len(t), NEW j, j = n + i
  PROVE  s[j] = t[i]
BY DEF Part

\* In s, after n slots, the parts of k slots each.
Blocks(s, n, k, parts) ==
    \A i \in 1 .. Len(parts) : \A j \in 1 .. k : s[n + k * (i - 1) + j] = parts[i][j]

\* The slots of a joined part are slots of the whole.
LEMMA JoinAt ==
  ASSUME NEW s, IsSeq(s), NEW n \in Nat, NEW k \in {2, 3, 4}, NEW parts, IsSeq(parts),
         \A i \in 1 .. Len(parts) : IsSeq(parts[i]) /\ Len(parts[i]) = k,
         Part(s, n, Join(k, parts))
  PROVE  Blocks(s, n, k, parts)
<1> SUFFICES ASSUME NEW i \in 1 .. Len(parts), NEW j \in 1 .. k
             PROVE  s[n + k * (i - 1) + j] = parts[i][j]
  BY DEF Blocks
<1>1. Len(parts) \in Nat
  BY SeqIs
<1>2. k * (i - 1) \in Nat
  <2>1. k = 2 \/ k = 3 \/ k = 4
    OBVIOUS
  <2> QED  BY <1>1, <2>1
<1>3. /\ IsSeq(Join(k, parts)) /\ IsSeq(parts[i]) /\ Len(parts[i]) = k
      /\ Part(Join(k, parts), k * (i - 1), parts[i])
  BY JoinIs
<1>4. Part(s, n + k * (i - 1), parts[i])
  BY <1>2, <1>3, PartOf
<1> QED  BY <1>3, <1>4 DEF Part

\* What HartAssumption says of the registers.
LEMMA Constants ==
  /\ NumX \in Nat /\ NumX >= 5 /\ NumF \in Nat
  /\ X5 \in 3 .. NumX - 1 /\ X6 \in 3 .. NumX - 1 /\ X5 # X6
  /\ X1 \in 1 .. NumX /\ X2 \in 1 .. NumX /\ TMP \in 1 .. NumX
  /\ X5 \in 1 .. NumX /\ X6 \in 1 .. NumX /\ ACC \in 1 .. NumX
  /\ IsSeq(Csrs) /\ Len(Csrs) \in Nat /\ DOMAIN Csrs = 1 .. Len(Csrs)
<1>1. /\ NumX \in Nat /\ NumF \in Nat
      /\ X5 \in 3 .. NumX - 1 /\ X6 \in 3 .. NumX - 1 /\ X5 # X6
  BY HartAssumption
<1>2. IsSeq(Csrs)
  BY HartAssumption DEF IsSeq
<1>3. Len(Csrs) \in Nat /\ DOMAIN Csrs = 1 .. Len(Csrs)
  BY <1>2, SeqIs
<1> QED  BY <1>1, <1>2, <1>3 DEF X1, X2, TMP, ACC

NumCsrs == Len(Csrs)

\* The slots of the parts of InitRegisters, and of the self-check block.
CsrsPart(d) ==
    [i \in 1 .. Len(Csrs) |-> <<LoadImm(X5, d.csr[i]), WriteCsr(Csrs[i], X5)>>]
FpPart(d) == [i \in 1 .. NumF |-> <<LoadImm(X5, d.f[i]), Instr("fmvfx", i, X5)>>]
IntCheckPart(e) == [i \in 1 .. NumX - 2 |-> FoldInto(i + 1, TMP, e.x[i + 1])]
FpCheckPart(t, e) ==
    [i \in 1 .. NumF |->
        <<Instr("fmvxf", TMP, i)>> \o FoldInto(TMP, X2, FpConstant(t, e.f[i]))]

\* Two slots for each CSR.
LEMMA LoadCsrsIs ==
  ASSUME NEW d
  PROVE  /\ IsSeq(LoadCsrs(d)) /\ Len(LoadCsrs(d)) = 2 * NumCsrs
         /\ \A s : \A n \in Nat : IsSeq(s) /\ Part(s, n, LoadCsrs(d)) =>
               \A i \in 1 .. NumCsrs :
                   /\ s[n + 2 * (i - 1) + 1] = LoadImm(X5, d.csr[i])
                   /\ s[n + 2 * (i - 1) + 2] = WriteCsr(Csrs[i], X5)
<1> DEFINE parts == CsrsPart(d)
<1>1. IsSeq(parts) /\ Len(parts) = NumCsrs
  <2>1. parts = [i \in 1 .. NumCsrs |-> parts[i]]
    BY DEF CsrsPart, NumCsrs
  <2> HIDE DEF parts
  <2> QED  BY <2>1, Constants, FunctionIsSeq DEF NumCsrs
<1>2. \A i \in 1 .. NumCsrs :
         parts[i] = <<LoadImm(X5, d.csr[i]), WriteCsr(Csrs[i], X5)>>
  BY DEF CsrsPart, NumCsrs
<1>3. \A i \in 1 .. Len(parts) : IsSeq(parts[i]) /\ Len(parts[i]) = 2
  <2>1. ASSUME NEW p, NEW q PROVE IsSeq(<<p, q>>) /\ Len(<<p, q>>) = 2
    BY Tuple2
  <2> HIDE DEF parts
  <2> QED  BY <1>1, <1>2, <2>1
<1>4. LoadCsrs(d) = Join(2, parts)
  BY DEF LoadCsrs, CsrsPart
<1> HIDE DEF parts
<1>5. IsSeq(LoadCsrs(d)) /\ Len(LoadCsrs(d)) = 2 * NumCsrs
  BY <1>1, <1>3, <1>4, JoinIs
<1>6. ASSUME NEW s, NEW n \in Nat, IsSeq(s), Part(s, n, LoadCsrs(d)),
             NEW i \in 1 .. NumCsrs
      PROVE  /\ s[n + 2 * (i - 1) + 1] = LoadImm(X5, d.csr[i])
             /\ s[n + 2 * (i - 1) + 2] = WriteCsr(Csrs[i], X5)
  <2>1a. Blocks(s, n, 2, parts)
    BY <1>1, <1>3, <1>4, <1>6, JoinAt
  <2>1. \A j \in 1 .. 2 : s[n + 2 * (i - 1) + j] = parts[i][j]
    BY <1>1, <2>1a DEF Blocks
  <2>2. s[n + 2 * (i - 1) + 1] = parts[i][1] /\ s[n + 2 * (i - 1) + 2] = parts[i][2]
    BY <2>1
  <2>3. parts[i][1] = LoadImm(X5, d.csr[i]) /\ parts[i][2] = WriteCsr(Csrs[i], X5)
    BY <1>2
  <2> QED  BY <2>2, <2>3
<1> QED  BY <1>5, <1>6

\* The slots the floating-point registers take in the initialisation.
FpSlots(t) == IF t.f THEN 1 + 2 * NumF ELSE 0

\* One slot to turn the FPU on, then two for each floating-point register.
LEMMA LoadFIs ==
  ASSUME NEW t, NEW d
  PROVE  /\ IsSeq(LoadF(t, d)) /\ Len(LoadF(t, d)) = FpSlots(t)
         /\ \A s : \A n \in Nat : IsSeq(s) /\ Part(s, n, LoadF(t, d)) /\ t.f =>
               /\ s[n + 1] = Instr("fson", X5, NONE)
               /\ \A i \in 1 .. NumF :
                   /\ s[n + 1 + 2 * (i - 1) + 1] = LoadImm(X5, d.f[i])
                   /\ s[n + 1 + 2 * (i - 1) + 2] = Instr("fmvfx", i, X5)
<1> DEFINE parts == FpPart(d)
<1>0. NumF \in Nat
  BY Constants
<1>1. IsSeq(parts) /\ Len(parts) = NumF
  <2>1. parts = [i \in 1 .. NumF |-> parts[i]]
    BY DEF FpPart
  <2> HIDE DEF parts
  <2> QED  BY <2>1, <1>0, FunctionIsSeq
<1>2. \A i \in 1 .. NumF : parts[i] = <<LoadImm(X5, d.f[i]), Instr("fmvfx", i, X5)>>
  BY DEF FpPart
<1>3. \A i \in 1 .. Len(parts) : IsSeq(parts[i]) /\ Len(parts[i]) = 2
  <2>1. ASSUME NEW p, NEW q PROVE IsSeq(<<p, q>>) /\ Len(<<p, q>>) = 2
    BY Tuple2
  <2> HIDE DEF parts
  <2> QED  BY <1>1, <1>2, <2>1
<1> DEFINE on == <<Instr("fson", X5, NONE)>>
           all == Join(2, parts)
<1>4. LoadF(t, d) = IF t.f THEN on \o all ELSE <<>>
  BY DEF LoadF, FpPart
<1>5. IsSeq(on) /\ Len(on) = 1 /\ on[1] = Instr("fson", X5, NONE)
  BY Tuple1
<1> HIDE DEF parts, on
<1>6. IsSeq(all) /\ Len(all) = 2 * NumF /\ 2 * NumF \in Nat
  <2>1. IsSeq(all) /\ Len(all) = 2 * Len(parts)
    BY <1>1, <1>3, JoinIs
  <2> QED  BY <1>0, <1>1, <2>1
<1> DEFINE both == on \o all
<1> HIDE DEF all
<1>7. /\ IsSeq(both) /\ Len(both) = 1 + 2 * NumF /\ Part(both, 1, all)
      /\ both[1] = Instr("fson", X5, NONE)
  <2> DEFINE m == 2 * NumF
  <2>0. both = on \o all /\ m \in Nat /\ Len(all) = m
    BY <1>6
  <2> HIDE DEF m, both
  <2>f. Followed(both, on, 1, all, m)
    BY <1>5, <1>6, <2>0, Then
  <2>1. IsSeq(both) /\ Len(both) = 1 + m /\ Part(both, 1, all) /\ Keeps(on, both)
    BY <2>f DEF Followed
  <2>2. Part(both, 0, on)
    <3>1. Part(on, 0, on)
      BY <1>5, Whole
    <3> QED  BY <1>5, <2>1, <3>1 DEF Keeps
  <2>3. both[1] = on[1]
    BY <1>5, <2>2 DEF Part
  <2> QED  BY <1>5, <2>1, <2>3 DEF m
<1> HIDE DEF both
<1>8. IsSeq(LoadF(t, d)) /\ Len(LoadF(t, d)) = FpSlots(t)
  <2>1. CASE t.f
    BY <1>4, <1>7, <2>1 DEF both, FpSlots
  <2>2. CASE ~ t.f
    BY <1>4, <2>2, Tuple0 DEF FpSlots
  <2> QED  BY <2>1, <2>2
<1>9. ASSUME NEW s, NEW n \in Nat, IsSeq(s), Part(s, n, LoadF(t, d)), t.f
      PROVE  /\ s[n + 1] = Instr("fson", X5, NONE)
             /\ \A i \in 1 .. NumF :
                   /\ s[n + 1 + 2 * (i - 1) + 1] = LoadImm(X5, d.f[i])
                   /\ s[n + 1 + 2 * (i - 1) + 2] = Instr("fmvfx", i, X5)
  <2>1. LoadF(t, d) = both
    BY <1>4, <1>9 DEF both
  <2>2. Part(s, n, both)
    BY <1>9, <2>1
  <2>3. s[n + 1] = both[1]
    <3>1. 1 \in 1 .. Len(both)
      BY <1>0, <1>7
    <3> QED  BY <2>2, <3>1 DEF Part
  <2>4. Part(s, n + 1, all) /\ n + 1 \in Nat
    BY <1>6, <1>7, <1>9, <2>2, PartOf
  <2>5. ASSUME NEW i \in 1 .. NumF
        PROVE  /\ s[n + 1 + 2 * (i - 1) + 1] = LoadImm(X5, d.f[i])
               /\ s[n + 1 + 2 * (i - 1) + 2] = Instr("fmvfx", i, X5)
    <3> DEFINE m == n + 1
    <3>0. m \in Nat /\ Part(s, m, Join(2, parts))
      BY <2>4 DEF all
    <3> HIDE DEF m
    <3>1a. Blocks(s, m, 2, parts)
      BY <1>1, <1>3, <1>9, <3>0, JoinAt
    <3>1. \A j \in 1 .. 2 : s[m + 2 * (i - 1) + j] = parts[i][j]
      BY <1>1, <3>1a DEF Blocks
    <3>2. s[m + 2 * (i - 1) + 1] = parts[i][1] /\ s[m + 2 * (i - 1) + 2] = parts[i][2]
      BY <3>1
    <3>3. parts[i][1] = LoadImm(X5, d.f[i]) /\ parts[i][2] = Instr("fmvfx", i, X5)
      BY <1>2
    <3> QED  BY <3>2, <3>3 DEF m
  <2> QED  BY <1>7, <2>3, <2>5
<1> QED  BY <1>8, <1>9

\* One slot for each integer register.
LEMMA LoadXIs ==
  ASSUME NEW d
  PROVE  /\ IsSeq(LoadX(d)) /\ Len(LoadX(d)) = NumX
         /\ \A r \in 1 .. NumX : LoadX(d)[r] = LoadImm(r, d.x[r])
<1>1. LoadX(d) = [r \in 1 .. NumX |-> LoadX(d)[r]]
  BY DEF LoadX
<1>2. IsSeq(LoadX(d)) /\ Len(LoadX(d)) = NumX
  BY <1>1, Constants, FunctionIsSeq
<1> QED  BY <1>2 DEF LoadX

\* InitRegisters: the CSRs, the FPU, the integer registers.
LEMMA InitIs ==
  ASSUME NEW t, NEW d
  PROVE  /\ IsSeq(InitRegisters(t, d))
         /\ Len(InitRegisters(t, d)) = 2 * NumCsrs + FpSlots(t) + NumX
         /\ 2 * NumCsrs \in Nat /\ FpSlots(t) \in Nat
         /\ Part(InitRegisters(t, d), 0, LoadCsrs(d))
         /\ Part(InitRegisters(t, d), 2 * NumCsrs, LoadF(t, d))
         /\ Part(InitRegisters(t, d), 2 * NumCsrs + FpSlots(t), LoadX(d))
<1> DEFINE a == LoadCsrs(d)
           b == LoadF(t, d)
           c == LoadX(d)
           n == 2 * NumCsrs
           m == FpSlots(t)
<1>1. IsSeq(a) /\ IsSeq(b) /\ IsSeq(c) /\ Len(a) = n /\ Len(b) = m /\ Len(c) = NumX
  BY LoadCsrsIs, LoadFIs, LoadXIs
<1>2. n \in Nat /\ m \in Nat /\ NumX \in Nat /\ n + m \in Nat
  BY Constants DEF NumCsrs, FpSlots
<1> DEFINE u == a \o b
           v == u \o c
<1>3. InitRegisters(t, d) = v
  BY DEF InitRegisters
<1> HIDE DEF a, b, c, n, m, u
<1>4. /\ IsSeq(u) /\ Len(u) = n + m /\ Part(u, n, b)
      /\ Keeps(a, u)
  <2>1. Followed(u, a, n, b, m)
    BY <1>1, <1>2, Then DEF u
  <2> QED  BY <2>1 DEF Followed
<1>5. Part(u, 0, a)
  <2>1. Part(a, 0, a)
    BY <1>1, Whole
  <2> QED  BY <1>1, <1>4, <2>1 DEF Keeps
<1> HIDE DEF v
<1>6. /\ IsSeq(v) /\ Len(v) = n + m + NumX /\ Part(v, n + m, c)
      /\ Keeps(u, v)
  <2>1. Followed(v, u, n + m, c, NumX)
    BY <1>1, <1>2, <1>4, Then DEF v
  <2> QED  BY <2>1 DEF Followed
<1>7. Part(v, 0, a) /\ Part(v, n, b)
  BY <1>1, <1>2, <1>4, <1>5, <1>6 DEF Keeps
<1> QED  BY <1>2, <1>3, <1>6, <1>7 DEF a, b, c, n, m

\* The three slots of a comparison.
LEMMA FoldIntoIs ==
  ASSUME NEW v, NEW scratch, NEW k
  PROVE  /\ IsSeq(FoldInto(v, scratch, k)) /\ Len(FoldInto(v, scratch, k)) = 3
         /\ FoldInto(v, scratch, k)[1] = LoadImm(scratch, k)
         /\ FoldInto(v, scratch, k)[2] = Instr("xor", scratch, v)
         /\ FoldInto(v, scratch, k)[3] = Instr("or", ACC, scratch)
<1> DEFINE a == LoadImm(scratch, k)
           b == Instr("xor", scratch, v)
           c == Instr("or", ACC, scratch)
<1>1. FoldInto(v, scratch, k) = <<a, b, c>>
  BY DEF FoldInto
<1> HIDE DEF a, b, c
<1>2. IsSeq(<<a, b, c>>) /\ Len(<<a, b, c>>) = 3
  BY Tuple3
<1>3. FoldInto(v, scratch, k)[1] = a /\ FoldInto(v, scratch, k)[2] = b
      /\ FoldInto(v, scratch, k)[3] = c
  BY <1>1
<1> QED  BY <1>1, <1>2, <1>3 DEF a, b, c

\* The comparison of a floating-point register, and what follows it.
FpFold(t, e, i) ==
    <<Instr("fmvxf", TMP, i)>> \o FoldInto(TMP, X2, FpConstant(t, e.f[i]))

\* The four slots of a floating-point comparison.
LEMMA FpFoldIs ==
  ASSUME NEW t, NEW e, NEW i
  PROVE  /\ IsSeq(FpFold(t, e, i)) /\ Len(FpFold(t, e, i)) = 4
         /\ FpFold(t, e, i)[1] = Instr("fmvxf", TMP, i)
         /\ FpFold(t, e, i)[2] = LoadImm(X2, FpConstant(t, e.f[i]))
         /\ FpFold(t, e, i)[3] = Instr("xor", X2, TMP)
         /\ FpFold(t, e, i)[4] = Instr("or", ACC, X2)
<1> DEFINE a == Instr("fmvxf", TMP, i)
           b == FoldInto(TMP, X2, FpConstant(t, e.f[i]))
           u == <<a>>
           s == u \o b
<1>1. FpFold(t, e, i) = s
  BY DEF FpFold
<1>2. /\ IsSeq(b) /\ Len(b) = 3
      /\ b[1] = LoadImm(X2, FpConstant(t, e.f[i]))
      /\ b[2] = Instr("xor", X2, TMP) /\ b[3] = Instr("or", ACC, X2)
  BY FoldIntoIs
<1> HIDE DEF a, b
<1>3. IsSeq(u) /\ Len(u) = 1 /\ u[1] = a
  BY Tuple1
<1> HIDE DEF u
<1>4. s = u \o b
  OBVIOUS
<1> HIDE DEF s
<1>5. Followed(s, u, 1, b, 3)
  BY <1>2, <1>3, <1>4, Then
<1>6. IsSeq(s) /\ Len(s) = 1 + 3 /\ Part(s, 1, b) /\ Keeps(u, s)
  BY <1>5 DEF Followed
<1>7. Part(s, 0, u)
  <2>1. Part(u, 0, u)
    BY <1>3, Whole
  <2> QED  BY <1>3, <1>6, <2>1 DEF Keeps
<1>8. s[1] = a
  BY <1>3, <1>7 DEF Part
<1>9. s[1 + 1] = b[1] /\ s[1 + 2] = b[2] /\ s[1 + 3] = b[3]
  BY <1>2, <1>6 DEF Part
<1>10. s[2] = b[1] /\ s[3] = b[2] /\ s[4] = b[3]
  BY <1>9
<1> QED  BY <1>1, <1>2, <1>6, <1>8, <1>10 DEF a

\* The slots that compare the floating-point registers.
FpChecks(t) == IF t.f THEN 4 * NumF ELSE 0

FpBlock(t, e) == IF t.f THEN Join(4, FpCheckPart(t, e)) ELSE <<>>

IntBlock(e) == Join(3, IntCheckPart(e))

\* The comparisons of x2 to x30 in the code.
LEMMA IntBlockIs ==
  ASSUME NEW e
  PROVE  /\ IsSeq(IntBlock(e)) /\ Len(IntBlock(e)) = 3 * (NumX - 2)
         /\ \A s : \A n \in Nat : IsSeq(s) /\ Part(s, n, IntBlock(e)) =>
               \A r \in 2 .. NumX - 1 :
                   /\ s[n + 3 * (r - 2) + 1] = LoadImm(TMP, e.x[r])
                   /\ s[n + 3 * (r - 2) + 2] = Instr("xor", TMP, r)
                   /\ s[n + 3 * (r - 2) + 3] = Instr("or", ACC, TMP)
<1> DEFINE parts == IntCheckPart(e)
           m == NumX - 2
<1>0. m \in Nat /\ NumX \in Nat
  BY Constants
<1>1. IsSeq(parts) /\ Len(parts) = m
  <2>1. parts = [i \in 1 .. m |-> parts[i]]
    BY DEF IntCheckPart
  <2> HIDE DEF parts, m
  <2> QED  BY <2>1, <1>0, FunctionIsSeq
<1>2. \A i \in 1 .. m : parts[i] = FoldInto(i + 1, TMP, e.x[i + 1])
  BY DEF IntCheckPart
<1>3. \A i \in 1 .. Len(parts) : IsSeq(parts[i]) /\ Len(parts[i]) = 3
  <2>1. \A v, sc, k : IsSeq(FoldInto(v, sc, k)) /\ Len(FoldInto(v, sc, k)) = 3
    BY FoldIntoIs
  <2> HIDE DEF parts, m
  <2> QED  BY <1>1, <1>2, <2>1
<1>4. IntBlock(e) = Join(3, parts)
  BY DEF IntBlock
<1> HIDE DEF parts
<1>5. IsSeq(IntBlock(e)) /\ Len(IntBlock(e)) = 3 * (NumX - 2)
  <2>1. IsSeq(IntBlock(e)) /\ Len(IntBlock(e)) = 3 * Len(parts)
    BY <1>1, <1>3, <1>4, JoinIs
  <2> QED  BY <1>1, <2>1
<1>6. ASSUME NEW s, NEW n \in Nat, IsSeq(s), Part(s, n, IntBlock(e)),
             NEW r \in 2 .. NumX - 1
      PROVE  /\ s[n + 3 * (r - 2) + 1] = LoadImm(TMP, e.x[r])
             /\ s[n + 3 * (r - 2) + 2] = Instr("xor", TMP, r)
             /\ s[n + 3 * (r - 2) + 3] = Instr("or", ACC, TMP)
  <2> DEFINE i == r - 1
  <2>1. i \in 1 .. m /\ i - 1 = r - 2 /\ i + 1 = r
    BY <1>0
  <2>2. Blocks(s, n, 3, parts)
    BY <1>1, <1>3, <1>4, <1>6, JoinAt
  <2>3. \A j \in 1 .. 3 : s[n + 3 * (i - 1) + j] = parts[i][j]
    <3> HIDE DEF i, m
    <3> QED  BY <1>1, <2>1, <2>2 DEF Blocks
  <2>4. /\ s[n + 3 * (i - 1) + 1] = parts[i][1]
        /\ s[n + 3 * (i - 1) + 2] = parts[i][2]
        /\ s[n + 3 * (i - 1) + 3] = parts[i][3]
    BY <2>3
  <2>5. parts[i] = FoldInto(r, TMP, e.x[r])
    <3> HIDE DEF i, m
    <3> QED  BY <1>2, <2>1
  <2>6. /\ parts[i][1] = LoadImm(TMP, e.x[r])
        /\ parts[i][2] = Instr("xor", TMP, r) /\ parts[i][3] = Instr("or", ACC, TMP)
    BY <2>5, FoldIntoIs
  <2> HIDE DEF i
  <2> QED  BY <2>1, <2>4, <2>6
<1> QED  BY <1>5, <1>6

\* The comparisons of the floating-point registers in the code.
LEMMA FpBlockIs ==
  ASSUME NEW t, NEW e
  PROVE  /\ IsSeq(FpBlock(t, e)) /\ Len(FpBlock(t, e)) = FpChecks(t)
         /\ \A s : \A n \in Nat : IsSeq(s) /\ Part(s, n, FpBlock(t, e)) /\ t.f =>
               \A i \in 1 .. NumF :
                   /\ s[n + 4 * (i - 1) + 1] = Instr("fmvxf", TMP, i)
                   /\ s[n + 4 * (i - 1) + 2] = LoadImm(X2, FpConstant(t, e.f[i]))
                   /\ s[n + 4 * (i - 1) + 3] = Instr("xor", X2, TMP)
                   /\ s[n + 4 * (i - 1) + 4] = Instr("or", ACC, X2)
<1> DEFINE parts == FpCheckPart(t, e)
<1>0. NumF \in Nat
  BY Constants
<1>1. IsSeq(parts) /\ Len(parts) = NumF
  <2>1. parts = [i \in 1 .. NumF |-> parts[i]]
    BY DEF FpCheckPart
  <2> HIDE DEF parts
  <2> QED  BY <2>1, <1>0, FunctionIsSeq
<1>2. \A i \in 1 .. NumF : parts[i] = FpFold(t, e, i)
  BY DEF FpCheckPart, FpFold
<1>3. \A i \in 1 .. Len(parts) : IsSeq(parts[i]) /\ Len(parts[i]) = 4
  <2>1. \A i : IsSeq(FpFold(t, e, i)) /\ Len(FpFold(t, e, i)) = 4
    BY FpFoldIs
  <2> HIDE DEF parts
  <2> QED  BY <1>1, <1>2, <2>1
<1> HIDE DEF parts
<1>4. FpBlock(t, e) = IF t.f THEN Join(4, parts) ELSE <<>>
  BY DEF FpBlock, parts
<1>5. IsSeq(FpBlock(t, e)) /\ Len(FpBlock(t, e)) = FpChecks(t)
  <2>1. IsSeq(Join(4, parts)) /\ Len(Join(4, parts)) = 4 * Len(parts)
    BY <1>1, <1>3, JoinIs
  <2>2. CASE t.f
    BY <1>1, <1>4, <2>1, <2>2 DEF FpChecks
  <2>3. CASE ~ t.f
    BY <1>4, <2>3, Tuple0 DEF FpChecks
  <2> QED  BY <2>2, <2>3
<1>6. ASSUME NEW s, NEW n \in Nat, IsSeq(s), Part(s, n, FpBlock(t, e)), t.f,
             NEW i \in 1 .. NumF
      PROVE  /\ s[n + 4 * (i - 1) + 1] = Instr("fmvxf", TMP, i)
             /\ s[n + 4 * (i - 1) + 2] = LoadImm(X2, FpConstant(t, e.f[i]))
             /\ s[n + 4 * (i - 1) + 3] = Instr("xor", X2, TMP)
             /\ s[n + 4 * (i - 1) + 4] = Instr("or", ACC, X2)
  <2>1. Part(s, n, Join(4, parts))
    BY <1>4, <1>6
  <2>2. Blocks(s, n, 4, parts)
    BY <1>1, <1>3, <1>6, <2>1, JoinAt
  <2>3. \A j \in 1 .. 4 : s[n + 4 * (i - 1) + j] = parts[i][j]
    BY <1>1, <2>2 DEF Blocks
  <2>4. /\ s[n + 4 * (i - 1) + 1] = parts[i][1]
        /\ s[n + 4 * (i - 1) + 2] = parts[i][2]
        /\ s[n + 4 * (i - 1) + 3] = parts[i][3]
        /\ s[n + 4 * (i - 1) + 4] = parts[i][4]
    BY <2>3
  <2>5. parts[i] = FpFold(t, e, i)
    BY <1>2
  <2> QED  BY <2>4, <2>5, FpFoldIs
<1> QED  BY <1>5, <1>6

\* The self-check block: its five parts but the registers' are named here.
CheckStart(e) ==
    <<WriteCsr(MSCRATCH, TMP), LoadImm(TMP, e.x[X1]), Instr("xor", ACC, TMP)>>
CheckSwap == <<SwapZero(TMP, MSCRATCH)>>
CheckEnd == <<Instr("sltu", X5, ACC), Instr("neg", X5, X5), Instr("andi", X5, MISMATCH)>>

\* Where the parts start, counted from the start of the block.
ToClear == 3 * (NumX - 1)
ToVerdict(t) == ToClear + 4 + FpChecks(t)

\* The slots that save the scratch register and compare x1.
LEMMA CheckStartIs ==
  ASSUME NEW e
  PROVE  /\ IsSeq(CheckStart(e)) /\ Len(CheckStart(e)) = 3
         /\ CheckStart(e)[1] = WriteCsr(MSCRATCH, TMP)
         /\ CheckStart(e)[2] = LoadImm(TMP, e.x[X1])
         /\ CheckStart(e)[3] = Instr("xor", ACC, TMP)
<1> DEFINE a == WriteCsr(MSCRATCH, TMP)
           b == LoadImm(TMP, e.x[X1])
           c == Instr("xor", ACC, TMP)
<1>1. CheckStart(e) = <<a, b, c>>
  BY DEF CheckStart
<1> HIDE DEF a, b, c
<1>2. IsSeq(<<a, b, c>>) /\ Len(<<a, b, c>>) = 3
  BY Tuple3
<1>3. CheckStart(e)[1] = a /\ CheckStart(e)[2] = b /\ CheckStart(e)[3] = c
  BY <1>1
<1> QED  BY <1>1, <1>2, <1>3 DEF a, b, c

\* The slots of the verdict.
LEMMA CheckEndIs ==
  /\ IsSeq(CheckEnd) /\ Len(CheckEnd) = 3
  /\ CheckEnd[1] = Instr("sltu", X5, ACC)
  /\ CheckEnd[2] = Instr("neg", X5, X5)
  /\ CheckEnd[3] = Instr("andi", X5, MISMATCH)
<1> DEFINE a == Instr("sltu", X5, ACC)
           b == Instr("neg", X5, X5)
           c == Instr("andi", X5, MISMATCH)
<1>1. CheckEnd = <<a, b, c>>
  BY DEF CheckEnd
<1> HIDE DEF a, b, c
<1>2. IsSeq(<<a, b, c>>) /\ Len(<<a, b, c>>) = 3
  BY Tuple3
<1>3. CheckEnd[1] = a /\ CheckEnd[2] = b /\ CheckEnd[3] = c
  BY <1>1
<1> QED  BY <1>1, <1>2, <1>3 DEF a, b, c

\* The slot that takes the scratch register back.
LEMMA CheckSwapIs ==
  /\ IsSeq(CheckSwap) /\ Len(CheckSwap) = 1 /\ CheckSwap[1] = SwapZero(TMP, MSCRATCH)
<1> DEFINE a == SwapZero(TMP, MSCRATCH)
<1>1. CheckSwap = <<a>>
  BY DEF CheckSwap
<1> HIDE DEF a
<1>2. IsSeq(<<a>>) /\ Len(<<a>>) = 1
  BY Tuple1
<1>3. CheckSwap[1] = a
  BY <1>1
<1> QED  BY <1>1, <1>2, <1>3 DEF a

\* Where each part of the self-check block is in it.
LEMMA BlockParts ==
  ASSUME NEW t, NEW e
  PROVE  /\ IsSeq(SelfCheckBlock(t, e)) /\ Len(SelfCheckBlock(t, e)) = ToVerdict(t) + 3
         /\ ToClear \in Nat /\ ToClear >= 3 /\ FpChecks(t) \in Nat
         /\ Part(SelfCheckBlock(t, e), 0, CheckStart(e))
         /\ Part(SelfCheckBlock(t, e), 3, IntBlock(e))
         /\ Part(SelfCheckBlock(t, e), ToClear, CheckSwap)
         /\ Part(SelfCheckBlock(t, e), ToClear + 1, FoldInto(TMP, X2, e.x[TMP]))
         /\ Part(SelfCheckBlock(t, e), ToClear + 4, FpBlock(t, e))
         /\ Part(SelfCheckBlock(t, e), ToVerdict(t), CheckEnd)
<1> DEFINE a == CheckStart(e)
           b == IntBlock(e)
           c == CheckSwap
           d == FoldInto(TMP, X2, e.x[TMP])
           g == FpBlock(t, e)
           z == CheckEnd
           m == 3 * (NumX - 2)
           k == FpChecks(t)
           n == ToClear
           s1 == a \o b
           s2 == s1 \o c
           s3 == s2 \o d
           s4 == s3 \o g
           s5 == s4 \o z
<1>0. SelfCheckBlock(t, e) = s5
  BY DEF SelfCheckBlock, CheckStart, IntBlock, IntCheckPart, CheckSwap, FpBlock,
         FpCheckPart, CheckEnd
<1>1. /\ NumX \in Nat /\ m \in Nat /\ k \in Nat /\ n \in Nat /\ n = 3 + m /\ n >= 3
      /\ n + 1 \in Nat /\ n + 4 \in Nat /\ n + 4 + k \in Nat
  BY Constants DEF FpChecks, ToClear
<1>2. /\ IsSeq(a) /\ Len(a) = 3 /\ IsSeq(b) /\ Len(b) = m /\ IsSeq(c) /\ Len(c) = 1
      /\ IsSeq(d) /\ Len(d) = 3 /\ IsSeq(g) /\ Len(g) = k /\ IsSeq(z) /\ Len(z) = 3
  <2>1. IsSeq(a) /\ Len(a) = 3
    BY CheckStartIs
  <2>2. IsSeq(b) /\ Len(b) = m
    BY IntBlockIs
  <2>3. IsSeq(c) /\ Len(c) = 1
    BY CheckSwapIs
  <2>4. IsSeq(d) /\ Len(d) = 3
    BY FoldIntoIs
  <2>5. IsSeq(g) /\ Len(g) = k
    BY FpBlockIs
  <2>6. IsSeq(z) /\ Len(z) = 3
    BY CheckEndIs
  <2> QED  BY <2>1, <2>2, <2>3, <2>4, <2>5, <2>6
<1> HIDE DEF a, b, c, d, g, z, m, k, n
<1>3. s1 = a \o b /\ s2 = s1 \o c /\ s3 = s2 \o d /\ s4 = s3 \o g /\ s5 = s4 \o z
  OBVIOUS
<1> HIDE DEF s1, s2, s3, s4, s5
<1>4. IsSeq(s1) /\ Len(s1) = n /\ Part(s1, 0, a) /\ Part(s1, 3, b)
  <2>1. Followed(s1, a, 3, b, m)
    BY <1>1, <1>2, <1>3, Then
  <2>2. IsSeq(s1) /\ Len(s1) = 3 + m /\ Part(s1, 3, b) /\ Keeps(a, s1)
    BY <2>1 DEF Followed
  <2>3. Part(a, 0, a)
    BY <1>2, Whole
  <2> QED  BY <1>1, <1>2, <2>2, <2>3 DEF Keeps
<1>5. /\ IsSeq(s2) /\ Len(s2) = n + 1
      /\ Part(s2, 0, a) /\ Part(s2, 3, b) /\ Part(s2, n, c)
  <2>1. Followed(s2, s1, n, c, 1)
    BY <1>1, <1>2, <1>3, <1>4, Then
  <2>2. IsSeq(s2) /\ Len(s2) = n + 1 /\ Part(s2, n, c) /\ Keeps(s1, s2)
    BY <2>1 DEF Followed
  <2> QED  BY <1>1, <1>2, <1>4, <2>2 DEF Keeps
<1>6. /\ IsSeq(s3) /\ Len(s3) = n + 4
      /\ Part(s3, 0, a) /\ Part(s3, 3, b) /\ Part(s3, n, c) /\ Part(s3, n + 1, d)
  <2>1. Followed(s3, s2, n + 1, d, 3)
    BY <1>1, <1>2, <1>3, <1>5, Then
  <2>2. IsSeq(s3) /\ Len(s3) = n + 1 + 3 /\ Part(s3, n + 1, d) /\ Keeps(s2, s3)
    BY <2>1 DEF Followed
  <2>3. n + 1 + 3 = n + 4
    BY <1>1
  <2> QED  BY <1>1, <1>2, <1>5, <2>2, <2>3 DEF Keeps
<1>7. /\ IsSeq(s4) /\ Len(s4) = n + 4 + k
      /\ Part(s4, 0, a) /\ Part(s4, 3, b) /\ Part(s4, n, c) /\ Part(s4, n + 1, d)
      /\ Part(s4, n + 4, g)
  <2>1. Followed(s4, s3, n + 4, g, k)
    BY <1>1, <1>2, <1>3, <1>6, Then
  <2>2. IsSeq(s4) /\ Len(s4) = n + 4 + k /\ Part(s4, n + 4, g) /\ Keeps(s3, s4)
    BY <2>1 DEF Followed
  <2> QED  BY <1>1, <1>2, <1>6, <2>2 DEF Keeps
<1>8. /\ IsSeq(s5) /\ Len(s5) = n + 4 + k + 3
      /\ Part(s5, 0, a) /\ Part(s5, 3, b) /\ Part(s5, n, c) /\ Part(s5, n + 1, d)
      /\ Part(s5, n + 4, g) /\ Part(s5, n + 4 + k, z)
  <2>1. Followed(s5, s4, n + 4 + k, z, 3)
    BY <1>1, <1>2, <1>3, <1>7, Then
  <2>2. IsSeq(s5) /\ Len(s5) = n + 4 + k + 3 /\ Part(s5, n + 4 + k, z) /\ Keeps(s4, s5)
    BY <2>1 DEF Followed
  <2> QED  BY <1>1, <1>2, <1>7, <2>2 DEF Keeps
<1> QED  BY <1>0, <1>1, <1>8 DEF a, b, c, d, g, z, n, k, ToVerdict

--------------------------------------------------------------------------------
(* The code.                                                                 *)

HartType == [target : Targets, work : Workloads, draw : Draws, base : CodeBases]

\* What a hart that may be chosen is made of.
LEMMA HartIs ==
  ASSUME NEW h \in HartType
  PROVE  /\ h.target.f \in BOOLEAN /\ h.target.wide \in BOOLEAN
         /\ h.target.selfCheck \in BOOLEAN /\ h.target.entangled \in BOOLEAN
         /\ IsSeq(h.work) /\ Len(h.work) \in Nat
         /\ \A i \in 1 .. Len(h.work) : WorkSlot(h.work[i])
         /\ h.base \in Nat
         /\ h.draw.x = [r \in 1 .. NumX |-> h.draw.x[r]]
         /\ DOMAIN h.draw.csr = DOMAIN Csrs
<1>1. h.target \in Targets /\ h.work \in Workloads /\ h.base \in CodeBases /\ h.draw \in Draws
  BY DEF HartType
<1>2. h.target \in [f : BOOLEAN, wide : BOOLEAN, selfCheck : BOOLEAN, entangled : BOOLEAN]
  BY <1>1, HartAssumption
<1>3. h.base \in Nat
  BY <1>1, HartAssumption
<1>4. /\ h.work \in Seq({h.work[i] : i \in DOMAIN h.work})
      /\ \A i \in DOMAIN h.work : WorkSlot(h.work[i])
  BY <1>1, HartAssumption
<1>5. IsSeq(h.work)
  BY <1>4 DEF IsSeq
<1>6. Len(h.work) \in Nat /\ DOMAIN h.work = 1 .. Len(h.work)
  BY <1>5, SeqIs
<1>7. h.draw.x \in [1 .. NumX -> Word] /\ h.draw.csr \in [DOMAIN Csrs -> Word]
  BY <1>1, HartAssumption
<1> QED  BY <1>2, <1>3, <1>4, <1>5, <1>6, <1>7

\* The five slots of a report.
LEMMA ReportIs ==
  ASSUME NEW a
  PROVE  /\ IsSeq(Report(a)) /\ Len(Report(a)) = 5
         /\ Report(a)[1] = a /\ Report(a)[2] = Instr("ori1", X5, X5)
         /\ Report(a)[3] = LoadImm(X6, Tohost) /\ Report(a)[4] = Instr("store", X6, X5)
         /\ Report(a)[5] = Instr("spin", X6, X6)
<1> DEFINE b == Instr("ori1", X5, X5)
           c == LoadImm(X6, Tohost)
           d == Instr("store", X6, X5)
           e == Instr("spin", X6, X6)
<1>1. Report(a) = <<a, b, c, d, e>>
  BY DEF Report
<1> HIDE DEF b, c, d, e
<1>2. IsSeq(<<a, b, c, d, e>>) /\ Len(<<a, b, c, d, e>>) = 5
  BY Tuple5
<1>3. /\ Report(a)[1] = a /\ Report(a)[2] = b /\ Report(a)[3] = c
      /\ Report(a)[4] = d /\ Report(a)[5] = e
  BY <1>1
<1> QED  BY <1>1, <1>2, <1>3 DEF b, c, d, e

\* The seven slots of the handler.
LEMMA TrapHandlerIs ==
  /\ IsSeq(TrapHandler) /\ Len(TrapHandler) = 7
  /\ TrapHandler[1] = ReadCsr(X5, "mcause")
  /\ TrapHandler[2] = Instr("addi1", X5, X5)
  /\ Part(TrapHandler, 2, Report(Instr("slli1", X5, X5)))
<1> DEFINE a == ReadCsr(X5, "mcause")
           b == Instr("addi1", X5, X5)
           r == Report(Instr("slli1", X5, X5))
           u == <<a, b>>
           s == u \o r
<1>1. TrapHandler = s
  BY DEF TrapHandler
<1>2. IsSeq(r) /\ Len(r) = 5
  BY ReportIs
<1> HIDE DEF a, b, r
<1>3. IsSeq(u) /\ Len(u) = 2
  BY Tuple2
<1>4. u[1] = a /\ u[2] = b
  OBVIOUS
<1> HIDE DEF u
<1>5. s = u \o r
  OBVIOUS
<1> HIDE DEF s
<1>6. Followed(s, u, 2, r, 5)
  BY <1>2, <1>3, <1>5, Then
<1>7. IsSeq(s) /\ Len(s) = 2 + 5 /\ Part(s, 2, r) /\ Keeps(u, s)
  BY <1>6 DEF Followed
<1>8. Part(s, 0, u)
  <2>1. Part(u, 0, u)
    BY <1>3, Whole
  <2> QED  BY <1>3, <1>7, <2>1 DEF Keeps
<1>9. s[0 + 1] = u[1] /\ s[0 + 2] = u[2]
  BY <1>3, <1>8 DEF Part
<1> QED  BY <1>1, <1>4, <1>7, <1>9 DEF a, b, r

Body(h, e) ==
    InitRegisters(h.target, h.draw) \o h.work \o Check(h.target, e)
    \o Exit(h.target) \o Fail(h.target)

Before(h, e) == Bytes(<<SetMtvec(0)>> \o Body(h, e))

Offset(h, e) == Before(h, e) + Bytes(Padding(Before(h, e)))

\* First slots, as numbers.
FpAt == 2 + 2 * NumCsrs
XAt(h) == FpAt + FpSlots(h.target)
ClearAt(h) == CheckAt(h) + ToClear
FpCheckAt(h) == ClearAt(h) + 4
VerdictAt(h) == FpCheckAt(h) + FpChecks(h.target)
PadAt(h) == FailAt(h) + (IF h.target.entangled THEN 5 ELSE 0)
HandlerAt(h, e) == PadAt(h) + Len(Padding(Before(h, e)))

\* The first slots of the parts of the code are as far apart as the parts are long.
LEMMA Places ==
  ASSUME NEW h \in HartType
  PROVE  /\ NumCsrs \in Nat /\ FpAt \in Nat /\ FpSlots(h.target) \in Nat
         /\ XAt(h) \in Nat /\ StimulusAt(h) \in Nat
         /\ StimulusAt(h) = XAt(h) + NumX /\ CheckAt(h) \in Nat
         /\ CheckAt(h) = StimulusAt(h) + Len(h.work)
         /\ ToClear \in Nat /\ ToClear >= 3 /\ FpChecks(h.target) \in Nat
         /\ ClearAt(h) \in Nat /\ FpCheckAt(h) \in Nat /\ VerdictAt(h) \in Nat
         /\ ExitAt(h) \in Nat
         /\ ExitAt(h) = (IF h.target.selfCheck THEN VerdictAt(h) + 3 ELSE CheckAt(h))
         /\ FailAt(h) \in Nat /\ FailAt(h) = ExitAt(h) + 5 /\ PadAt(h) \in Nat
         /\ \A e : Len(Check(h.target, e)) = ExitAt(h) - CheckAt(h) /\ IsSeq(Check(h.target, e))
         /\ IsSeq(Exit(h.target)) /\ Len(Exit(h.target)) = 5
         /\ IsSeq(Fail(h.target)) /\ Len(Fail(h.target)) = PadAt(h) - FailAt(h)
<1>1. /\ NumX \in Nat /\ NumF \in Nat /\ NumCsrs \in Nat
      /\ FpSlots(h.target) \in Nat /\ FpChecks(h.target) \in Nat
  BY Constants DEF NumCsrs, FpSlots, FpChecks
<1>2. FpAt \in Nat /\ XAt(h) \in Nat
  BY <1>1 DEF FpAt, XAt
<1>3. /\ StimulusAt(h) = XAt(h) + NumX /\ StimulusAt(h) \in Nat
  <2>1. StimulusAt(h) = 2 + (2 * NumCsrs + FpSlots(h.target) + NumX)
    BY InitIs DEF StimulusAt
  <2> QED  BY <1>1, <2>1 DEF XAt, FpAt
<1>4. CheckAt(h) \in Nat /\ CheckAt(h) = StimulusAt(h) + Len(h.work)
  BY <1>3, HartIs DEF CheckAt
<1>5. ToClear \in Nat /\ ToClear >= 3
  BY Constants DEF ToClear
<1>6. ClearAt(h) \in Nat /\ FpCheckAt(h) \in Nat /\ VerdictAt(h) \in Nat
  BY <1>1, <1>4, <1>5 DEF ClearAt, FpCheckAt, VerdictAt
<1> DEFINE n == IF h.target.selfCheck THEN ToVerdict(h.target) + 3 ELSE 0
<1>7. n \in Nat
  BY <1>1, <1>5 DEF ToVerdict
<1>8. ASSUME NEW e PROVE IsSeq(Check(h.target, e)) /\ Len(Check(h.target, e)) = n
  <2>1. CASE h.target.selfCheck
    <3>1. Check(h.target, e) = SelfCheckBlock(h.target, e) /\ n = ToVerdict(h.target) + 3
      BY <2>1 DEF Check
    <3> QED  BY <3>1, BlockParts
  <2>2. CASE ~ h.target.selfCheck
    <3>1. Check(h.target, e) = <<>> /\ n = 0
      BY <2>2 DEF Check
    <3> QED  BY <3>1, Tuple0
  <2> QED  BY <2>1, <2>2
<1>9. ExitAt(h) = CheckAt(h) + n
  BY <1>8 DEF ExitAt
<1>10. /\ ExitAt(h) \in Nat
       /\ ExitAt(h) = (IF h.target.selfCheck THEN VerdictAt(h) + 3 ELSE CheckAt(h))
  BY <1>1, <1>4, <1>5, <1>7, <1>9 DEF ToVerdict, ClearAt, FpCheckAt, VerdictAt
<1>11. IsSeq(Exit(h.target)) /\ Len(Exit(h.target)) = 5
  BY ReportIs DEF Exit
<1>12. FailAt(h) \in Nat /\ FailAt(h) = ExitAt(h) + 5
  BY <1>10, <1>11 DEF FailAt
<1>13. PadAt(h) \in Nat
  BY <1>12 DEF PadAt
<1>14. IsSeq(Fail(h.target)) /\ Len(Fail(h.target)) = PadAt(h) - FailAt(h)
  <2>1. CASE h.target.entangled
    <3>1. Fail(h.target) = Report(LoadImm(X5, ShiftLeft(DIVERGENCE)))
      BY <2>1 DEF Fail
    <3>2. IsSeq(Fail(h.target)) /\ Len(Fail(h.target)) = 5
      BY <3>1, ReportIs
    <3> QED  BY <1>12, <2>1, <3>2 DEF PadAt
  <2>2. CASE ~ h.target.entangled
    <3>1. Fail(h.target) = <<>>
      BY <2>2 DEF Fail
    <3>2. IsSeq(Fail(h.target)) /\ Len(Fail(h.target)) = 0
      BY <3>1, Tuple0
    <3> QED  BY <1>12, <2>2, <3>2 DEF PadAt
  <2> QED  BY <2>1, <2>2
<1>15. \A e : Len(Check(h.target, e)) = ExitAt(h) - CheckAt(h) /\ IsSeq(Check(h.target, e))
  <2> HIDE DEF n
  <2> QED  BY <1>4, <1>7, <1>8, <1>9
<1> QED
  BY <1>1, <1>2, <1>3, <1>4, <1>5, <1>6, <1>10, <1>11, <1>12, <1>13, <1>14, <1>15

\* The parts of the code between set_mtvec and the padding.
LEMMA BodyIs ==
  ASSUME NEW h \in HartType, NEW e
  PROVE  /\ IsSeq(Body(h, e)) /\ Len(Body(h, e)) = PadAt(h) - 2
         /\ Part(Body(h, e), 0, InitRegisters(h.target, h.draw))
         /\ Part(Body(h, e), StimulusAt(h) - 2, h.work)
         /\ Part(Body(h, e), CheckAt(h) - 2, Check(h.target, e))
         /\ Part(Body(h, e), ExitAt(h) - 2, Exit(h.target))
         /\ Part(Body(h, e), FailAt(h) - 2, Fail(h.target))
<1> DEFINE a == InitRegisters(h.target, h.draw)
           b == h.work
           c == Check(h.target, e)
           d == Exit(h.target)
           g == Fail(h.target)
           p == StimulusAt(h) - 2
           q == CheckAt(h) - 2
           r == ExitAt(h) - 2
           v == FailAt(h) - 2
           w == PadAt(h) - 2
           s1 == a \o b
           s2 == s1 \o c
           s3 == s2 \o d
           s4 == s3 \o g
<1>0. Body(h, e) = s4
  BY DEF Body
<1>1. IsSeq(a) /\ Len(a) = p
  <2>1. Len(a) \in Nat /\ IsSeq(a)
    BY InitIs, SeqIs
  <2> QED  BY <2>1 DEF StimulusAt
<1>2. IsSeq(b) /\ Len(b) = q - p
  <2>1. StimulusAt(h) \in Nat /\ CheckAt(h) = StimulusAt(h) + Len(h.work)
    BY Places
  <2>2. IsSeq(b) /\ Len(b) \in Nat /\ Len(b) = Len(h.work)
    BY HartIs
  <2> HIDE DEF b
  <2> QED  BY <2>1, <2>2
<1>3. IsSeq(c) /\ Len(c) = r - q
  <2>1. Len(c) = ExitAt(h) - CheckAt(h) /\ IsSeq(c) /\ ExitAt(h) \in Nat /\ CheckAt(h) \in Nat
    BY Places
  <2> QED  BY <2>1
<1>4. IsSeq(d) /\ Len(d) = 5 /\ v = r + 5
  <2>1. IsSeq(d) /\ Len(d) = 5 /\ FailAt(h) = ExitAt(h) + 5 /\ ExitAt(h) \in Nat
    BY Places
  <2> QED  BY <2>1
<1>5. IsSeq(g) /\ Len(g) = w - v
  <2>1. IsSeq(g) /\ Len(g) = PadAt(h) - FailAt(h) /\ PadAt(h) \in Nat /\ FailAt(h) \in Nat
    BY Places
  <2> QED  BY <2>1
<1>6. p \in Nat /\ q - p \in Nat /\ r - q \in Nat /\ w - v \in Nat
  <2>1. Len(a) \in Nat /\ Len(b) \in Nat /\ Len(c) \in Nat /\ Len(g) \in Nat
    BY <1>1, <1>2, <1>3, <1>5, SeqIs
  <2> QED  BY <1>1, <1>2, <1>3, <1>5, <2>1
<1>7. q \in Int /\ r \in Int /\ v \in Int /\ w \in Int
  <2>1. /\ StimulusAt(h) \in Nat /\ CheckAt(h) \in Nat /\ ExitAt(h) \in Nat
        /\ FailAt(h) \in Nat /\ PadAt(h) \in Nat
    BY Places
  <2> QED  BY <2>1
<1> HIDE DEF a, b, c, d, g, p, q, r, v, w
<1>8. q \in Nat /\ r \in Nat /\ v \in Nat /\ w \in Nat
      /\ p + (q - p) = q /\ q + (r - q) = r /\ v + (w - v) = w
  BY <1>4, <1>6, <1>7
<1>9. s1 = a \o b /\ s2 = s1 \o c /\ s3 = s2 \o d /\ s4 = s3 \o g
  OBVIOUS
<1> HIDE DEF s1, s2, s3, s4
<1>10. IsSeq(s1) /\ Len(s1) = q /\ Part(s1, 0, a) /\ Part(s1, p, b)
  <2>1. Followed(s1, a, p, b, q - p)
    BY <1>1, <1>2, <1>6, <1>9, Then
  <2>2. IsSeq(s1) /\ Len(s1) = p + (q - p) /\ Part(s1, p, b) /\ Keeps(a, s1)
    BY <2>1 DEF Followed
  <2>3. Part(a, 0, a)
    BY <1>1, Whole
  <2> QED  BY <1>1, <1>8, <2>2, <2>3 DEF Keeps
<1>11. IsSeq(s2) /\ Len(s2) = r /\ Part(s2, 0, a) /\ Part(s2, p, b) /\ Part(s2, q, c)
  <2>1. Followed(s2, s1, q, c, r - q)
    BY <1>3, <1>6, <1>8, <1>9, <1>10, Then
  <2>2. IsSeq(s2) /\ Len(s2) = q + (r - q) /\ Part(s2, q, c) /\ Keeps(s1, s2)
    BY <2>1 DEF Followed
  <2> QED  BY <1>1, <1>2, <1>6, <1>8, <1>10, <2>2 DEF Keeps
<1>12. /\ IsSeq(s3) /\ Len(s3) = v /\ Part(s3, 0, a) /\ Part(s3, p, b) /\ Part(s3, q, c)
       /\ Part(s3, r, d)
  <2>1. Followed(s3, s2, r, d, 5)
    BY <1>4, <1>8, <1>9, <1>11, Then
  <2>2. IsSeq(s3) /\ Len(s3) = r + 5 /\ Part(s3, r, d) /\ Keeps(s2, s3)
    BY <2>1 DEF Followed
  <2> QED  BY <1>1, <1>2, <1>3, <1>4, <1>6, <1>8, <1>11, <2>2 DEF Keeps
<1>13. /\ IsSeq(s4) /\ Len(s4) = w /\ Part(s4, 0, a) /\ Part(s4, p, b) /\ Part(s4, q, c)
       /\ Part(s4, r, d) /\ Part(s4, v, g)
  <2>1. Followed(s4, s3, v, g, w - v)
    BY <1>5, <1>6, <1>8, <1>9, <1>12, Then
  <2>2. IsSeq(s4) /\ Len(s4) = v + (w - v) /\ Part(s4, v, g) /\ Keeps(s3, s4)
    BY <2>1 DEF Followed
  <2> QED  BY <1>1, <1>2, <1>3, <1>4, <1>6, <1>8, <1>12, <2>2 DEF Keeps
<1> QED  BY <1>0, <1>13 DEF a, b, c, d, g, p, q, r, v, w

\* Where every part is in the code, whatever the expected registers are.
LEMMA CodeIs ==
  ASSUME NEW h \in HartType, NEW e
  PROVE  /\ IsSeq(Code(h, e)) /\ Len(Code(h, e)) = HandlerAt(h, e) + 6
         /\ HandlerAt(h, e) \in Nat /\ HandlerAt(h, e) >= PadAt(h)
         /\ Code(h, e)[1] = SetMtvec(Offset(h, e))
         /\ Part(Code(h, e), 1, InitRegisters(h.target, h.draw))
         /\ Part(Code(h, e), StimulusAt(h) - 1, h.work)
         /\ Part(Code(h, e), CheckAt(h) - 1, Check(h.target, e))
         /\ Part(Code(h, e), ExitAt(h) - 1, Exit(h.target))
         /\ Part(Code(h, e), FailAt(h) - 1, Fail(h.target))
         /\ Part(Code(h, e), 1, Body(h, e))
         /\ Part(Code(h, e), PadAt(h) - 1, Padding(Before(h, e)))
         /\ Part(Code(h, e), HandlerAt(h, e) - 1, TrapHandler)
<1> DEFINE m == SetMtvec(Offset(h, e))
           a == <<m>>
           b == Body(h, e)
           c == Padding(Before(h, e))
           d == TrapHandler
           n == PadAt(h) - 1
           l == Len(c)
           s1 == a \o b
           s2 == s1 \o c
           s3 == s2 \o d
<1>0. Code(h, e) = s3
  BY DEF Code, Body, Offset, Before
<1>1. IsSeq(a) /\ Len(a) = 1 /\ a[1] = m
  <2> HIDE DEF m
  <2> QED  BY Tuple1
<1>2. IsSeq(b) /\ Len(b) = n - 1 /\ n \in Nat /\ n - 1 \in Nat /\ 1 + (n - 1) = n
  <2>1. IsSeq(b) /\ Len(b) = PadAt(h) - 2
    BY BodyIs
  <2>2. Len(b) \in Nat
    BY <2>1, SeqIs
  <2>3. PadAt(h) \in Nat
    BY Places
  <2> HIDE DEF b
  <2> QED  BY <2>1, <2>2, <2>3
<1>3. IsSeq(c) /\ l \in Nat
  <2>1. IsSeq(c)
    <3>1. IsSeq(<<>>) /\ IsSeq(<<Cnop>>)
      BY Tuple0, Tuple1
    <3> QED  BY <3>1 DEF Padding
  <2> QED  BY <2>1, SeqIs
<1>4. IsSeq(d) /\ Len(d) = 7
  BY TrapHandlerIs
<1>5. HandlerAt(h, e) = n + l + 1 /\ PadAt(h) = n + 1
  <2>1. PadAt(h) \in Nat
    BY Places
  <2> HIDE DEF c
  <2> QED  BY <1>3, <2>1 DEF HandlerAt, c
<1> HIDE DEF m, a, b, c, d, n, l
<1>6. s1 = a \o b /\ s2 = s1 \o c /\ s3 = s2 \o d /\ n + l \in Nat /\ Len(c) = l
  BY <1>2, <1>3 DEF l
<1> HIDE DEF s1, s2, s3
<1>7. IsSeq(s1) /\ Len(s1) = n /\ Part(s1, 0, a) /\ Part(s1, 1, b)
  <2>1. Followed(s1, a, 1, b, n - 1)
    BY <1>1, <1>2, <1>6, Then
  <2>2. IsSeq(s1) /\ Len(s1) = 1 + (n - 1) /\ Part(s1, 1, b) /\ Keeps(a, s1)
    BY <2>1 DEF Followed
  <2>3. Part(a, 0, a)
    BY <1>1, Whole
  <2> QED  BY <1>1, <1>2, <2>2, <2>3 DEF Keeps
<1>8. IsSeq(s2) /\ Len(s2) = n + l /\ Part(s2, 0, a) /\ Part(s2, 1, b) /\ Part(s2, n, c)
  <2>1. Followed(s2, s1, n, c, l)
    BY <1>2, <1>3, <1>6, <1>7, Then
  <2>2. IsSeq(s2) /\ Len(s2) = n + l /\ Part(s2, n, c) /\ Keeps(s1, s2)
    BY <2>1 DEF Followed
  <2> QED  BY <1>1, <1>2, <1>7, <2>2 DEF Keeps
<1>9. /\ IsSeq(s3) /\ Len(s3) = n + l + 7 /\ Part(s3, 0, a) /\ Part(s3, 1, b)
      /\ Part(s3, n, c) /\ Part(s3, n + l, d)
  <2>1. Followed(s3, s2, n + l, d, 7)
    BY <1>4, <1>6, <1>8, Then
  <2>2. IsSeq(s3) /\ Len(s3) = n + l + 7 /\ Part(s3, n + l, d) /\ Keeps(s2, s3)
    BY <2>1 DEF Followed
  <2> QED  BY <1>1, <1>2, <1>3, <1>8, <2>2 DEF Keeps
<1>10. s3[1] = m
  <2>1. s3[0 + 1] = a[1]
    BY <1>1, <1>9 DEF Part
  <2> QED  BY <1>1, <2>1
<1>11. /\ HandlerAt(h, e) \in Nat /\ HandlerAt(h, e) >= PadAt(h)
       /\ HandlerAt(h, e) - 1 = n + l /\ PadAt(h) - 1 = n
       /\ HandlerAt(h, e) + 6 = n + l + 7
  BY <1>2, <1>3, <1>5
<1>12. ASSUME NEW k \in Nat, NEW t, IsSeq(t), Part(b, k, t) PROVE Part(s3, 1 + k, t)
  BY <1>2, <1>9, <1>12, PartOf
<1> DEFINE Has(k, t) == k \in Nat /\ IsSeq(t) /\ Part(b, k, t)
<1>13. /\ Has(0, InitRegisters(h.target, h.draw)) /\ Has(StimulusAt(h) - 2, h.work)
       /\ Has(CheckAt(h) - 2, Check(h.target, e)) /\ Has(ExitAt(h) - 2, Exit(h.target))
       /\ Has(FailAt(h) - 2, Fail(h.target))
  <2>1. IsSeq(InitRegisters(h.target, h.draw)) /\ IsSeq(h.work) /\ IsSeq(Check(h.target, e))
        /\ IsSeq(Exit(h.target)) /\ IsSeq(Fail(h.target))
    BY InitIs, HartIs, Places
  <2>2. /\ StimulusAt(h) \in Nat /\ StimulusAt(h) >= 2 /\ CheckAt(h) \in Nat
        /\ CheckAt(h) >= 2 /\ ExitAt(h) \in Nat /\ ExitAt(h) >= 2
        /\ FailAt(h) \in Nat /\ FailAt(h) >= 2
    <3>1. StimulusAt(h) \in Nat /\ StimulusAt(h) >= 2
      <4>1. Len(InitRegisters(h.target, h.draw)) \in Nat
        BY <2>1, SeqIs
      <4> QED  BY <4>1 DEF StimulusAt
    <3>2. /\ CheckAt(h) \in Nat /\ ExitAt(h) \in Nat /\ FailAt(h) \in Nat
          /\ CheckAt(h) = StimulusAt(h) + Len(h.work) /\ Len(h.work) \in Nat
          /\ FailAt(h) = ExitAt(h) + 5
      BY Places, HartIs
    <3>3. Len(Check(h.target, e)) \in Nat /\ Len(Check(h.target, e)) = ExitAt(h) - CheckAt(h)
      BY <2>1, Places, SeqIs
    <3> QED  BY <3>1, <3>2, <3>3
  <2>3. /\ StimulusAt(h) - 2 \in Nat /\ CheckAt(h) - 2 \in Nat
        /\ ExitAt(h) - 2 \in Nat /\ FailAt(h) - 2 \in Nat
    BY <2>2
  <2> QED  BY <2>1, <2>3, BodyIs DEF b
<1> HIDE DEF Has
<1>14. \A k, t : Has(k, t) => Part(s3, 1 + k, t)
  BY <1>12 DEF Has
<1>15. /\ Part(s3, 1 + 0, InitRegisters(h.target, h.draw))
       /\ Part(s3, 1 + (StimulusAt(h) - 2), h.work)
       /\ Part(s3, 1 + (CheckAt(h) - 2), Check(h.target, e))
       /\ Part(s3, 1 + (ExitAt(h) - 2), Exit(h.target))
       /\ Part(s3, 1 + (FailAt(h) - 2), Fail(h.target))
  BY <1>13, <1>14
<1>16. /\ 1 + 0 = 1 /\ 1 + (StimulusAt(h) - 2) = StimulusAt(h) - 1
       /\ 1 + (CheckAt(h) - 2) = CheckAt(h) - 1 /\ 1 + (ExitAt(h) - 2) = ExitAt(h) - 1
       /\ 1 + (FailAt(h) - 2) = FailAt(h) - 1
  <2>1. /\ StimulusAt(h) \in Nat /\ CheckAt(h) \in Nat /\ ExitAt(h) \in Nat
        /\ FailAt(h) \in Nat
    BY Places
  <2> QED  BY <2>1
<1>17. /\ Part(s3, 1, b) /\ Part(s3, PadAt(h) - 1, c) /\ Part(s3, HandlerAt(h, e) - 1, d)
       /\ IsSeq(s3) /\ Len(s3) = HandlerAt(h, e) + 6
  BY <1>9, <1>11
<1> QED  BY <1>0, <1>10, <1>11, <1>15, <1>16, <1>17 DEF b, c, d, m

--------------------------------------------------------------------------------
(* Addresses.                                                                *)

\* The two-byte slots among the first n of s.
Shorts(s, n) == {i \in 1 .. n : s[i].size = 2}

\* There are at most n two-byte slots among the first n.
LEMMA ShortsAre ==
  ASSUME NEW s, NEW n \in Nat
  PROVE  /\ IsFiniteSet(Shorts(s, n)) /\ Cardinality(Shorts(s, n)) \in Nat
         /\ Cardinality(Shorts(s, n)) <= n
<1>1. IsFiniteSet(1 .. n) /\ Cardinality(1 .. n) = n
  <2>1. IsFiniteSet(1 .. n)
    BY FS_Interval
  <2>2. Cardinality(1 .. n) = IF 1 > n THEN 0 ELSE n - 1 + 1
    BY FS_Interval
  <2> QED  BY <2>1, <2>2
<1>2. Shorts(s, n) \subseteq 1 .. n
  BY DEF Shorts
<1>3. IsFiniteSet(Shorts(s, n)) /\ Cardinality(Shorts(s, n)) <= Cardinality(1 .. n)
  BY <1>1, <1>2, FS_Subset
<1>4. Cardinality(Shorts(s, n)) \in Nat
  BY <1>3, FS_CardinalityType
<1> QED  BY <1>1, <1>3, <1>4

\* Further slots add at most as many two-byte slots.
LEMMA ShortsGrow ==
  ASSUME NEW s, NEW m \in Nat, NEW n \in Nat, m <= n
  PROVE  Cardinality(Shorts(s, n)) <= Cardinality(Shorts(s, m)) + (n - m)
<1> DEFINE a == Shorts(s, m)
           b == m + 1 .. n
           c == Shorts(s, n)
<1>1. IsFiniteSet(b) /\ Cardinality(b) = n - m
  <2>1. IsFiniteSet(b)
    BY FS_Interval
  <2>2. Cardinality(b) = IF m + 1 > n THEN 0 ELSE n - (m + 1) + 1
    BY FS_Interval
  <2> QED  BY <2>1, <2>2
<1>2. IsFiniteSet(a) /\ Cardinality(a) \in Nat
  BY ShortsAre
<1>3. c \subseteq a \cup b
  BY DEF Shorts
<1> HIDE DEF a, b, c
<1>4. IsFiniteSet(a \cup b)
  BY <1>1, <1>2, FS_Union
<1>5. Cardinality(a \cup b) = Cardinality(a) + Cardinality(b) - Cardinality(a \cap b)
  BY <1>1, <1>2, FS_Union
<1>6. Cardinality(a \cap b) \in Nat
  <2>1. IsFiniteSet(a \cap b)
    BY <1>2, FS_Intersection
  <2> QED  BY <2>1, FS_CardinalityType
<1>7. Cardinality(c) <= Cardinality(a \cup b) /\ Cardinality(c) \in Nat
  <2>1. IsFiniteSet(c) /\ Cardinality(c) <= Cardinality(a \cup b)
    BY <1>3, <1>4, FS_Subset
  <2> QED  BY <2>1, FS_CardinalityType
<1>8. Cardinality(c) <= Cardinality(a) + (n - m)
  BY <1>1, <1>2, <1>5, <1>6, <1>7
<1> QED  BY <1>8 DEF a, c

\* One more two-byte slot.
LEMMA ShortsPlus ==
  ASSUME NEW s, NEW n \in Nat, s[n + 1].size = 2
  PROVE  Cardinality(Shorts(s, n + 1)) = Cardinality(Shorts(s, n)) + 1
<1>1. Shorts(s, n + 1) = Shorts(s, n) \cup {n + 1}
  BY DEF Shorts
<1>2. n + 1 \notin Shorts(s, n)
  BY DEF Shorts
<1>3. IsFiniteSet(Shorts(s, n))
  BY ShortsAre
<1>4. Cardinality(Shorts(s, n) \cup {n + 1}) = Cardinality(Shorts(s, n)) + 1
  BY <1>2, <1>3, FS_AddElement
<1> QED  BY <1>1, <1>4

\* Four bytes a slot, less two for every short one.
LEMMA BytesAre ==
  ASSUME NEW s, IsSeq(s)
  PROVE  Bytes(s) = 4 * Len(s) - 2 * Cardinality(Shorts(s, Len(s)))
<1>1. DOMAIN s = 1 .. Len(s)
  BY SeqIs
<1>2. {i \in DOMAIN s : s[i].size = 2} = Shorts(s, Len(s))
  BY <1>1 DEF Shorts
<1> QED  BY <1>2 DEF Bytes

\* The bytes of the first n slots.
LEMMA PrefixBytes ==
  ASSUME NEW s, IsSeq(s), NEW n \in 0 .. Len(s)
  PROVE  Bytes(SubSeq(s, 1, n)) = 4 * n - 2 * Cardinality(Shorts(s, n))
<1> DEFINE t == SubSeq(s, 1, n)
<1>0. Len(s) \in Nat
  BY SeqIs
<1>1. PICK T : s \in Seq(T)
  BY DEF IsSeq
<1>2. t \in Seq(T) /\ Len(t) = n /\ \A i \in 1 .. n : t[i] = s[i]
  BY <1>0, <1>1
<1> HIDE DEF t
<1>3. IsSeq(t)
  BY <1>2 DEF IsSeq
<1>4. Shorts(t, n) = Shorts(s, n)
  BY <1>2 DEF Shorts
<1>5. Bytes(t) = 4 * n - 2 * Cardinality(Shorts(s, n))
  BY <1>2, <1>3, <1>4, BytesAre
<1> QED  BY <1>5 DEF t

\* mtvec is given the address of the handler, a multiple of four bytes from the
\* first instruction.
LEMMA HandlerOffset ==
  ASSUME NEW h \in HartType, NEW e
  PROVE  /\ Offset(h, e) \in Nat /\ Offset(h, e) % 4 = 0
         /\ Bytes(SubSeq(Code(h, e), 1, HandlerAt(h, e) - 1)) = Offset(h, e)
<1> DEFINE c == Code(h, e)
           b == Body(h, e)
           a == <<SetMtvec(0)>>
           s == a \o b
           n == PadAt(h) - 1
           k == Cardinality(Shorts(c, n))
           before == Before(h, e)
           H == HandlerAt(h, e)
<1>1. /\ IsSeq(c) /\ Len(c) = H + 6 /\ H \in Nat /\ H >= PadAt(h)
      /\ c[1] = SetMtvec(Offset(h, e)) /\ Part(c, 1, b)
      /\ Part(c, n, Padding(before))
  BY CodeIs
<1>2. IsSeq(b) /\ Len(b) = PadAt(h) - 2
  BY BodyIs
<1>2a. Len(b) \in Nat
  BY <1>2, SeqIs
<1>3. PadAt(h) \in Nat /\ n \in Nat /\ Len(b) = n - 1 /\ 1 + Len(b) = n /\ n >= 1
  <2>1. PadAt(h) \in Nat
    BY Places
  <2> HIDE DEF b
  <2> QED  BY <1>2, <1>2a, <2>1
<1>4. k \in Nat /\ k <= n
  <2> HIDE DEF n, c
  <2> QED  BY <1>3, ShortsAre
<1>5. IsSeq(s) /\ Len(s) = n /\ Shorts(s, n) = Shorts(c, n)
  <2>1. IsSeq(a) /\ Len(a) = 1 /\ a[1] = SetMtvec(0)
    BY Tuple1
  <2> HIDE DEF a, b, c
  <2>a. s = a \o b
    OBVIOUS
  <2>b. IsSeq(s) /\ Len(s) = Len(a) + Len(b)
    BY <1>2, <2>1, Cat
  <2>c. \A i \in 1 .. Len(a) : s[i] = a[i]
    BY <1>2, <2>1, Cat
  <2>d. \A i \in 1 .. Len(b) : s[1 + i] = b[i]
    <3> DEFINE l == Len(b)
    <3>1. l \in Nat
      BY <1>2a
    <3> HIDE DEF l, s
    <3>2. Followed(s, a, 1, b, l)
      BY <1>2, <2>1, <2>a, <3>1, Then DEF l
    <3> QED  BY <3>2 DEF Followed, Part
  <2>2. /\ IsSeq(s) /\ Len(s) = Len(a) + Len(b)
        /\ \A i \in 1 .. Len(a) : s[i] = a[i]
        /\ \A i \in 1 .. Len(b) : s[1 + i] = b[i]
    BY <2>b, <2>c, <2>d
  <2> HIDE DEF s, n
  <2>3. Len(s) = n
    BY <1>3, <2>1, <2>2
  <2>4. s[1] = SetMtvec(0)
    BY <2>1, <2>2
  <2>5. ASSUME NEW i \in 2 .. n PROVE s[i] = c[i]
    <3>1. i - 1 \in 1 .. Len(b) /\ 1 + (i - 1) = i
      BY <1>3
    <3>2. s[1 + (i - 1)] = b[i - 1]
      BY <2>1, <2>2, <3>1
    <3>3. c[1 + (i - 1)] = b[i - 1]
      BY <1>1, <3>1 DEF Part
    <3> QED  BY <3>1, <3>2, <3>3
  <2>6. s[1].size = 4 /\ c[1].size = 4
    BY <1>1, <2>4 DEF SetMtvec, Instr
  <2>7. \A i \in 1 .. n : s[i].size = 2 <=> c[i].size = 2
    <3>1. \A i \in 1 .. n : i = 1 \/ i \in 2 .. n
      BY <1>3
    <3> QED  BY <2>5, <2>6, <3>1
  <2>8. Shorts(s, n) = Shorts(c, n)
    BY <2>7 DEF Shorts
  <2> QED  BY <2>2, <2>3, <2>8
<1>6. before = 4 * n - 2 * k
  <2>1. before = Bytes(s)
    BY DEF Before
  <2> HIDE DEF s, c, n, before
  <2>2. Bytes(s) = 4 * Len(s) - 2 * Cardinality(Shorts(s, Len(s)))
    BY <1>5, BytesAre
  <2> QED  BY <1>5, <2>1, <2>2
<1>7. Offset(h, e) = before + Bytes(Padding(before)) /\ H = PadAt(h) + Len(Padding(before))
  BY DEF Offset, HandlerAt
<1>8. ASSUME before % 4 = 0
      PROVE  Offset(h, e) = before /\ H = n + 1
  <2>1. Padding(before) = <<>>
    BY <1>8 DEF Padding
  <2>2. Bytes(<<>>) = 0
    <3>1. {i \in DOMAIN <<>> : <<>>[i].size = 2} = {}
      OBVIOUS
    <3>2. Cardinality({}) = 0
      BY FS_EmptySet
    <3> QED  BY <3>1, <3>2 DEF Bytes
  <2> HIDE DEF before, H
  <2>3. before \in Int
    BY <1>3, <1>4, <1>6
  <2>4. Len(<<>>) = 0
    OBVIOUS
  <2> QED  BY <1>3, <1>7, <2>1, <2>2, <2>3, <2>4
<1>9. ASSUME before % 4 # 0
      PROVE  Offset(h, e) = before + 2 /\ H = n + 2 /\ c[n + 1].size = 2
  <2>1. Padding(before) = <<Cnop>>
    BY <1>9 DEF Padding
  <2>2. IsSeq(<<Cnop>>) /\ Len(<<Cnop>>) = 1
    BY Tuple1
  <2>3. <<Cnop>>[1].size = 2
    BY DEF Cnop
  <2> DEFINE p == <<Cnop>>
  <2> HIDE DEF p
  <2>4. Bytes(p) = 2
    <3>1. IsSeq(p) /\ Len(p) = 1 /\ p[1].size = 2
      BY <2>2, <2>3 DEF p
    <3>2. Shorts(p, 1) = {1}
      BY <3>1 DEF Shorts
    <3>3. Cardinality({1}) = 1
      BY FS_Singleton
    <3>4. Bytes(p) = 4 * Len(p) - 2 * Cardinality(Shorts(p, Len(p)))
      BY <3>1, BytesAre
    <3>5. Cardinality(Shorts(p, Len(p))) = 1
      BY <3>1, <3>2, <3>3
    <3> QED  BY <3>1, <3>4, <3>5
  <2>5. Padding(before) = p /\ Len(p) = 1 /\ p[1].size = 2
    BY <2>1, <2>2, <2>3 DEF p
  <2>6. c[n + 1] = p[1]
    <3> HIDE DEF n, c, before
    <3> QED  BY <1>1, <2>5 DEF Part
  <2> HIDE DEF before, H, c, n
  <2>7. before \in Int
    BY <1>3, <1>4, <1>6
  <2>8. H = n + 2
    BY <1>3, <1>7, <2>5 DEF n
  <2> QED  BY <1>7, <2>4, <2>5, <2>6, <2>7, <2>8
<1> HIDE DEF before, H, c, n, k
<1>10. H - 1 \in 0 .. Len(c)
  BY <1>1, <1>3, <1>8, <1>9
<1>11. Bytes(SubSeq(c, 1, H - 1)) = 4 * (H - 1) - 2 * Cardinality(Shorts(c, H - 1))
  BY <1>1, <1>10, PrefixBytes
<1>12. CASE before % 4 = 0
  <2>1. H - 1 = n /\ Offset(h, e) = before
    BY <1>3, <1>8, <1>12
  <2>2. Bytes(SubSeq(c, 1, H - 1)) = Offset(h, e)
    BY <1>6, <1>11, <2>1 DEF k
  <2>3. before \in Nat
    BY <1>3, <1>4, <1>6
  <2> QED  BY <1>12, <2>1, <2>2, <2>3 DEF c, H
<1>13. CASE before % 4 # 0
  <2>1. H - 1 = n + 1 /\ Offset(h, e) = before + 2 /\ c[n + 1].size = 2
    BY <1>3, <1>9, <1>13
  <2>2. Cardinality(Shorts(c, n + 1)) = k + 1
    BY <1>3, <2>1, ShortsPlus DEF k
  <2>3. Bytes(SubSeq(c, 1, H - 1)) = 4 * (n + 1) - 2 * (k + 1)
    BY <1>11, <2>1, <2>2
  <2>4. before \in Nat /\ Offset(h, e) \in Nat /\ (before + 2) % 4 = 0
    BY <1>3, <1>4, <1>6, <1>13, <2>1
  <2>5. Bytes(SubSeq(c, 1, H - 1)) = Offset(h, e)
    BY <1>3, <1>4, <1>6, <2>1, <2>3
  <2> QED  BY <2>1, <2>4, <2>5 DEF c, H
<1> QED  BY <1>12, <1>13

\* The code of every hart is loaded at a multiple of four bytes.
Aligned == \A b \in CodeBases : b % 4 = 0

\* The handler is where mtvec points, if the code starts at a multiple of four.
LEMMA TrapsGoToTheHandler ==
  ASSUME Aligned, hart \in HartType, code = Code(hart, expected)
  PROVE  SlotAt(TrapVector(hart.base + Offset(hart, expected))) = HandlerAt(hart, expected)
<1> DEFINE off == Offset(hart, expected)
           H == HandlerAt(hart, expected)
           a == hart.base + off
<1>1. /\ IsSeq(code) /\ Len(code) = H + 6 /\ H \in Nat /\ H >= PadAt(hart)
  BY CodeIs
<1>2. off \in Nat /\ off % 4 = 0 /\ Bytes(SubSeq(code, 1, H - 1)) = off
  BY HandlerOffset
<1>3. hart.base \in Nat /\ hart.base % 4 = 0
  <2>1. hart.base \in CodeBases
    BY DEF HartType
  <2> QED  BY <2>1, HartIs DEF Aligned
<1>4. PadAt(hart) >= 1
  <2>1. /\ FailAt(hart) = ExitAt(hart) + 5 /\ ExitAt(hart) \in Nat
    BY Places
  <2> QED  BY <2>1 DEF PadAt
<1>4a. DOMAIN code = 1 .. Len(code)
  BY <1>1, SeqIs
<1> HIDE DEF off, H
<1>5. TrapVector(a) = a
  <2>1. a \in Nat /\ a % 4 = 0
    BY <1>2, <1>3
  <2> HIDE DEF a
  <2> QED  BY <2>1 DEF TrapVector
<1>6. DOMAIN code = 1 .. H + 6 /\ H >= 1
  <2>1. PadAt(hart) \in Nat
    BY Places
  <2> QED  BY <1>1, <1>4, <1>4a, <2>1
<1>7. AddressOf(H) = a
  BY <1>2, <1>3 DEF AddressOf
<1>8. ASSUME NEW i \in DOMAIN code, NEW j \in DOMAIN code, i < j
      PROVE  AddressOf(i) # AddressOf(j)
  <2> DEFINE p == Cardinality(Shorts(code, i - 1))
             q == Cardinality(Shorts(code, j - 1))
  <2>1. i - 1 \in Nat /\ j - 1 \in Nat /\ i - 1 <= j - 1
        /\ i - 1 \in 0 .. Len(code) /\ j - 1 \in 0 .. Len(code) /\ i \in Int /\ j \in Int
    BY <1>1, <1>6, <1>8
  <2>2. Bytes(SubSeq(code, 1, i - 1)) = 4 * (i - 1) - 2 * p
    BY <1>1, <2>1, PrefixBytes
  <2>3. Bytes(SubSeq(code, 1, j - 1)) = 4 * (j - 1) - 2 * q
    BY <1>1, <2>1, PrefixBytes
  <2>4. q <= p + ((j - 1) - (i - 1))
    BY <2>1, ShortsGrow
  <2>5. p \in Nat /\ q \in Nat
    BY <2>1, ShortsAre
  <2> HIDE DEF p, q
  <2>a. i \in Int /\ j \in Int /\ i < j
    BY <1>8, <2>1
  <2> HIDE <1>8
  <2>6. 4 * (i - 1) - 2 * p < 4 * (j - 1) - 2 * q
    BY <2>a, <2>4, <2>5
  <2>7. AddressOf(i) = hart.base + (4 * (i - 1) - 2 * p)
        /\ AddressOf(j) = hart.base + (4 * (j - 1) - 2 * q)
    BY <2>2, <2>3 DEF AddressOf
  <2>8. AddressOf(i) < AddressOf(j)
    BY <1>3, <2>a, <2>5, <2>6, <2>7
  <2>9. AddressOf(i) \in Int /\ AddressOf(j) \in Int
    BY <1>3, <2>a, <2>5, <2>7
  <2> QED  BY <2>8, <2>9
<1>9. H \in DOMAIN code
  BY <1>1, <1>6
<1>10. \A i \in DOMAIN code : AddressOf(i) = a => i = H
  <2> SUFFICES ASSUME NEW i \in DOMAIN code, AddressOf(i) = a, i # H PROVE FALSE
    OBVIOUS
  <2>1. i < H \/ H < i
    BY <1>1, <1>6
  <2> QED  BY <1>7, <1>8, <1>9, <2>1
<1>11. {i \in DOMAIN code : AddressOf(i) = a} = {H}
  BY <1>7, <1>9, <1>10
<1>12. (CHOOSE i \in {H} : TRUE) = H
  OBVIOUS
<1>13. SlotAt(a) = H
  BY <1>11, <1>12 DEF SlotAt
<1> QED  BY <1>5, <1>13 DEF off, H

--------------------------------------------------------------------------------
(* The inductive invariant.  Everything but where a wrong turn or a trap     *)
(* leads is on the line from _start to _exit.                                *)

\* A function on S.
Over(g, S) == g = [i \in S |-> g[i]]

CsrNames == {Csrs[i] : i \in DOMAIN Csrs} \cup {"mtvec", "mcause"}

\* On the line: nothing has gone wrong but a result.
Onward == fault \in {NONE, "flip"}

Typed == Over(x, 1 .. NumX) /\ Over(f, 1 .. NumF) /\ Over(csr, CsrNames)

Typing ==
    /\ hart \in HartType
    /\ \A i \in DOMAIN hart.work :
          /\ hart.work[i].op = "site" => hart.target.entangled
          /\ hart.work[i].op = "fneg" => hart.target.f
    /\ hart.target.entangled => hart.target.selfCheck
    /\ code = Code(hart, expected)
    /\ Typed
    /\ Over(expected.x, 1 .. NumX)
    /\ stage \in {"draft", "final", "device", "done", "failed"}
    /\ fault \in {NONE, "flip", "turn", "trap"}
    /\ stage \in {"draft", "final", "failed"} => fault = NONE

\* Where the machine is: on the line, in _fail or in the handler.
Where ==
    /\ Onward => pc \in 1 .. ExitAt(hart) + 4
    /\ fault = "turn" => /\ hart.target.entangled
                         /\ pc \in FailAt(hart) .. FailAt(hart) + 4
    /\ fault = "trap" => pc \in HandlerAt(hart, expected) .. HandlerAt(hart, expected) + 6
    /\ stage = "draft" => pc <= CheckAt(hart) /\ entry = NONE
    /\ tohost # NONE =>
          /\ stage # "draft"
          /\ IF fault = "trap" THEN pc = HandlerAt(hart, expected) + 6
             ELSE IF fault = "turn" THEN pc = FailAt(hart) + 4
             ELSE pc = ExitAt(hart) + 4
    /\ Onward /\ pc <= CheckAt(hart) => entry = NONE

\* What stays as the initialisation leaves it.
Settled ==
    /\ fs = (hart.target.f /\ pc > FpAt)
    /\ pc > 1 => csr["mtvec"] = TrapVector(hart.base + Offset(hart, expected))

\* What a load of v leaves in a floating-point register.
Loaded(v) == IF hart.target.wide THEN v ELSE Box(v)

\* What has been loaded so far.
InitCsrs ==
    \A i \in 1 .. NumCsrs :
        /\ pc = 2 * i + 1 => x[X5] = hart.draw.csr[i]
        /\ pc > 2 * i + 1 => csr[Csrs[i]] = hart.draw.csr[i]

InitF ==
    hart.target.f =>
      \A i \in 1 .. NumF :
          /\ pc = FpAt + 2 * i => x[X5] = hart.draw.f[i]
          /\ pc > FpAt + 2 * i => f[i] = Loaded(hart.draw.f[i])

InitX == \A r \in 1 .. NumX : pc >= XAt(hart) + r => x[r] = hart.draw.x[r]

Initialising == InitCsrs /\ InitF /\ InitX

\* The first n registers are as expected: e is what they are, q what is expected.
SameX(e, q, n) == \A r \in 1 .. n : e.x[r] = q.x[r]
Const(h, v) == FpConstant(h.target, v)
SameF(h, e, q, n) == \A i \in 1 .. n : Const(h, e.f[i]) = Const(h, q.f[i])
AllSame(h, e, q) == SameX(e, q, NumX) /\ (h.target.f => SameF(h, e, q, NumF))

\* What the check has not changed yet when it clears mscratch.
Kept(e, xs, c) ==
    c[MSCRATCH] = e.x[TMP] /\ \A r \in 2 .. NumX - 1 : xs[r] = e.x[r]

\* What the accumulator and the scratch register hold before slot j of each
\* comparison: of x1, of x2 to x30, of x31, of a floating-point register; and
\* before slot j of the verdict.
EnterX(e, q, xs, j) == xs[ACC] = e.x[ACC] /\ (j = 1 => xs[TMP] = q.x[X1])

FoldX(e, q, xs, r, j) ==
    /\ xs[ACC] = {} <=> SameX(e, q, r - 1)
    /\ j = 1 => xs[TMP] = q.x[r]
    /\ j = 2 => xs[TMP] = Xor(q.x[r], e.x[r])

FoldTmp(e, q, xs, j) ==
    /\ xs[ACC] = {} <=> SameX(e, q, NumX - 1)
    /\ j \in {1, 2} => xs[TMP] = e.x[TMP]
    /\ j = 2 => xs[X2] = q.x[TMP]
    /\ j = 3 => xs[X2] = Xor(q.x[TMP], e.x[TMP])

FoldF(h, e, q, xs, i, j) ==
    /\ xs[ACC] = {} <=> SameX(e, q, NumX) /\ SameF(h, e, q, i - 1)
    /\ j \in {1, 2} => xs[TMP] = Const(h, e.f[i])
    /\ j = 2 => xs[X2] = Const(h, q.f[i])
    /\ j = 3 => xs[X2] = Xor(Const(h, q.f[i]), Const(h, e.f[i]))

Judge(h, e, q, xs, j) ==
    /\ j = 0 => (xs[ACC] = {} <=> AllSame(h, e, q))
    /\ j = 1 => xs[X5] = IF AllSame(h, e, q) THEN {} ELSE {0}
    /\ j = 2 => xs[X5] = IF AllSame(h, e, q) THEN {} ELSE Bits
    /\ j = 3 => xs[X5] = IF AllSame(h, e, q) THEN {} ELSE MISMATCH

\* All of it, at slot p, with the registers xs and the CSRs c.
CheckingAt(h, e, q, p, xs, c) ==
    /\ p <= ClearAt(h) => Kept(e, xs, c)
    /\ \A j \in 0 .. 1 : p = CheckAt(h) + 1 + j => EnterX(e, q, xs, j)
    /\ \A r \in 2 .. NumX - 1 : \A j \in 0 .. 2 :
          p = CheckAt(h) + 3 * (r - 1) + j => FoldX(e, q, xs, r, j)
    /\ \A j \in 0 .. 3 : p = ClearAt(h) + j => FoldTmp(e, q, xs, j)
    /\ h.target.f =>
          \A i \in 1 .. NumF : \A j \in 0 .. 3 :
             p = FpCheckAt(h) + 4 * (i - 1) + j => FoldF(h, e, q, xs, i, j)
    /\ \A j \in 0 .. 3 : p = VerdictAt(h) + j => Judge(h, e, q, xs, j)

Checking ==
    /\ Over(entry.x, 1 .. NumX)
    /\ f = entry.f
    /\ CheckingAt(hart, entry, expected, pc, x, csr)

\* The report of v from slot n on.
Reporting(n, v) ==
    /\ pc = n + 1 => x[X5] \cup {0} = {0} \cup ShiftLeft(v)
    /\ pc \in n + 2 .. n + 4 => x[X5] = {0} \cup ShiftLeft(v)
    /\ pc = n + 3 => x[X6] = Tohost
    /\ tohost # NONE => tohost = {0} \cup ShiftLeft(v)

\* The exit code of a run that ends at _exit.
Verdict == IF hart.target.selfCheck /\ Seen(entry) # Seen(expected) THEN MISMATCH ELSE {}

\* In the handler.
Trapping ==
    /\ pc = HandlerAt(hart, expected) + 1 => x[X5] = csr["mcause"]
    /\ pc = HandlerAt(hart, expected) + 2 => x[X5] = Successor(csr["mcause"])
    /\ Reporting(HandlerAt(hart, expected) + 2, Successor(csr["mcause"]))

\* The inductive invariant.
HInv ==
    /\ Typing
    /\ Where
    /\ Onward => Settled
    /\ Onward /\ pc <= StimulusAt(hart) => Initialising
    /\ Onward /\ hart.target.selfCheck /\ pc > CheckAt(hart) /\ pc <= ExitAt(hart) => Checking
    /\ Onward /\ pc > ExitAt(hart) => Reporting(ExitAt(hart), Verdict)
    /\ fault = "turn" => Reporting(FailAt(hart), DIVERGENCE)
    /\ fault = "trap" => Trapping

--------------------------------------------------------------------------------
(* What each instruction does.                                               *)

OnlyX(r, v) ==
    /\ x'[r] = v /\ Over(x', 1 .. NumX)
    /\ \A q \in 1 .. NumX : q # r => x'[q] = x[q]
    /\ UNCHANGED <<f, csr, fs, tohost>>

OnlyF(r, v) ==
    /\ f'[r] = v /\ Over(f', 1 .. NumF)
    /\ \A q \in 1 .. NumF : q # r => f'[q] = f[q]
    /\ UNCHANGED <<x, csr, fs, tohost>>

OnlyCsr(c, v) ==
    /\ csr'[c] = v /\ Over(csr', CsrNames)
    /\ \A q \in CsrNames : q # c => csr'[q] = csr[q]
    /\ UNCHANGED <<x, f, fs, tohost>>

\* h is g, over S, but for what it holds at r.
But(h, g, S, r, v) == h[r] = v /\ Over(h, S) /\ \A q \in S : q # r => h[q] = g[q]

\* Assigning one element changes that one only.
LEMMA OverExcept ==
  ASSUME NEW S, NEW g, Over(g, S), NEW r \in S, NEW v
  PROVE  But([g EXCEPT ![r] = v], g, S, r, v)
<1> DEFINE h == [g EXCEPT ![r] = v]
<1>1. DOMAIN g = S
  BY DEF Over
<1>2. DOMAIN h = S /\ h[r] = v /\ \A q \in S : q # r => h[q] = g[q]
  BY <1>1
<1>3. h = [q \in S |-> h[q]]
  BY <1>1, <1>2
<1> QED  BY <1>2, <1>3 DEF Over, But

\* The CSRs are distinct, mscratch is one of them, mtvec and mcause are not.
LEMMA CsrsAre ==
  /\ \A i \in 1 .. NumCsrs : Csrs[i] \in CsrNames /\ Csrs[i] \notin {"mtvec", "mcause"}
  /\ \A i, j \in 1 .. NumCsrs : Csrs[i] = Csrs[j] => i = j
  /\ \A c \in {Csrs[i] : i \in DOMAIN Csrs} : c \notin {"mtvec", "mcause"} /\ c \in CsrNames
  /\ MSCRATCH \in {Csrs[i] : i \in DOMAIN Csrs}
  /\ "mtvec" \in CsrNames /\ "mcause" \in CsrNames
<1>1. DOMAIN Csrs = 1 .. NumCsrs
  BY Constants DEF NumCsrs
<1> DEFINE T == {Csrs[i] : i \in DOMAIN Csrs}
<1>2. Csrs \in Seq(T \ {"mtvec", "mcause"})
  BY HartAssumption
<1>3. \A i \in DOMAIN Csrs : Csrs[i] \in T \ {"mtvec", "mcause"}
  <2> HIDE DEF T
  <2> QED  BY <1>2
<1>4. \A c \in T : c \notin {"mtvec", "mcause"}
  BY <1>3
<1>5. \A i \in DOMAIN Csrs : Csrs[i] \in T
  OBVIOUS
<1>6. MSCRATCH \in T
  BY HartAssumption
<1>7. \A i, j \in 1 .. NumCsrs : Csrs[i] = Csrs[j] => i = j
  BY <1>1, HartAssumption
<1> QED  BY <1>1, <1>3, <1>4, <1>5, <1>6, <1>7 DEF CsrNames

\* A write of an integer register, of a floating-point register, of a CSR.
LEMMA SetXIs ==
  ASSUME Over(x, 1 .. NumX), NEW r \in 1 .. NumX, NEW v, SetX(r, v)
  PROVE  OnlyX(r, v)
<1>1. x' = [x EXCEPT ![r] = v] /\ UNCHANGED <<f, csr, fs, tohost>>
  BY DEF SetX
<1>a. But([x EXCEPT ![r] = v], x, 1 .. NumX, r, v)
  BY OverExcept
<1>2. x'[r] = v /\ Over(x', 1 .. NumX) /\ \A q \in 1 .. NumX : q # r => x'[q] = x[q]
  BY <1>1, <1>a DEF But
<1> QED  BY <1>1, <1>2 DEF OnlyX

LEMMA SetFIs ==
  ASSUME Over(f, 1 .. NumF), NEW r \in 1 .. NumF, NEW v, SetF(r, v)
  PROVE  OnlyF(r, v)
<1>1. f' = [f EXCEPT ![r] = v] /\ UNCHANGED <<x, csr, fs, tohost>>
  BY DEF SetF
<1>a. But([f EXCEPT ![r] = v], f, 1 .. NumF, r, v)
  BY OverExcept
<1>2. f'[r] = v /\ Over(f', 1 .. NumF) /\ \A q \in 1 .. NumF : q # r => f'[q] = f[q]
  BY <1>1, <1>a DEF But
<1> QED  BY <1>1, <1>2 DEF OnlyF

LEMMA SetCsrIs ==
  ASSUME Over(csr, CsrNames), NEW c \in CsrNames, NEW v, SetCsr(c, v)
  PROVE  OnlyCsr(c, v)
<1>1. csr' = [csr EXCEPT ![c] = v] /\ UNCHANGED <<x, f, fs, tohost>>
  BY DEF SetCsr
<1>a. But([csr EXCEPT ![c] = v], csr, CsrNames, c, v)
  BY OverExcept
<1>2. csr'[c] = v /\ Over(csr', CsrNames) /\ \A q \in CsrNames : q # c => csr'[q] = csr[q]
  BY <1>1, <1>a DEF But
<1> QED  BY <1>1, <1>2 DEF OnlyCsr

\* An instruction that does not trap is performed.
LEMMA StepIs ==
  ASSUME Step, pc \in Nat \ {0}, code[pc].op \in FpOps => fs
  PROVE  Perform(code[pc]) /\ pc' = IF code[pc].op = "spin" THEN pc ELSE pc + 1
BY DEF Step, MID

\* Each instruction of the code, one lemma each.
LEMMA RunLi ==
  ASSUME Step, pc \in Nat \ {0}, Over(x, 1 .. NumX), NEW r \in 1 .. NumX, NEW v,
         code[pc] = LoadImm(r, v)
  PROVE  pc' = pc + 1 /\ OnlyX(r, v)
<1>1. Perform(LoadImm(r, v)) /\ pc' = pc + 1
  BY StepIs DEF LoadImm, Instr, FpOps
<1>2. SetX(r, v)
  BY <1>1 DEF Perform, LoadImm, Instr
<1> QED  BY <1>1, <1>2, SetXIs

LEMMA RunXor ==
  ASSUME Step, pc \in Nat \ {0}, Over(x, 1 .. NumX), NEW r \in 1 .. NumX, NEW q,
         code[pc] = Instr("xor", r, q)
  PROVE  pc' = pc + 1 /\ OnlyX(r, Xor(x[r], x[q]))
<1>1. Perform(Instr("xor", r, q)) /\ pc' = pc + 1
  BY StepIs DEF Instr, FpOps
<1>2. SetX(r, Xor(x[r], x[q]))
  BY <1>1 DEF Perform, Instr
<1> QED  BY <1>1, <1>2, SetXIs

LEMMA RunOr ==
  ASSUME Step, pc \in Nat \ {0}, Over(x, 1 .. NumX), NEW r \in 1 .. NumX, NEW q,
         code[pc] = Instr("or", r, q)
  PROVE  pc' = pc + 1 /\ OnlyX(r, x[r] \cup x[q])
<1>1. Perform(Instr("or", r, q)) /\ pc' = pc + 1
  BY StepIs DEF Instr, FpOps
<1>2. SetX(r, x[r] \cup x[q])
  BY <1>1 DEF Perform, Instr
<1> QED  BY <1>1, <1>2, SetXIs

LEMMA RunSltu ==
  ASSUME Step, pc \in Nat \ {0}, Over(x, 1 .. NumX), NEW r \in 1 .. NumX, NEW q,
         code[pc] = Instr("sltu", r, q)
  PROVE  pc' = pc + 1 /\ OnlyX(r, IF x[q] = {} THEN {} ELSE {0})
<1>1. Perform(Instr("sltu", r, q)) /\ pc' = pc + 1
  BY StepIs DEF Instr, FpOps
<1>2. SetX(r, IF x[q] = {} THEN {} ELSE {0})
  BY <1>1 DEF Perform, Instr
<1> QED  BY <1>1, <1>2, SetXIs

LEMMA RunNeg ==
  ASSUME Step, pc \in Nat \ {0}, Over(x, 1 .. NumX), NEW r \in 1 .. NumX, NEW q,
         code[pc] = Instr("neg", r, q)
  PROVE  pc' = pc + 1 /\ OnlyX(r, Negative(x[q]))
<1>1. Perform(Instr("neg", r, q)) /\ pc' = pc + 1
  BY StepIs DEF Instr, FpOps
<1>2. SetX(r, Negative(x[q]))
  BY <1>1 DEF Perform, Instr
<1> QED  BY <1>1, <1>2, SetXIs

LEMMA RunAndi ==
  ASSUME Step, pc \in Nat \ {0}, Over(x, 1 .. NumX), NEW r \in 1 .. NumX, NEW v,
         code[pc] = Instr("andi", r, v)
  PROVE  pc' = pc + 1 /\ OnlyX(r, x[r] \cap v)
<1>1. Perform(Instr("andi", r, v)) /\ pc' = pc + 1
  BY StepIs DEF Instr, FpOps
<1>2. SetX(r, x[r] \cap v)
  BY <1>1 DEF Perform, Instr
<1> QED  BY <1>1, <1>2, SetXIs

LEMMA RunSlli ==
  ASSUME Step, pc \in Nat \ {0}, Over(x, 1 .. NumX), NEW r \in 1 .. NumX, NEW q,
         code[pc] = Instr("slli1", r, q)
  PROVE  pc' = pc + 1 /\ OnlyX(r, ShiftLeft(x[q]))
<1>1. Perform(Instr("slli1", r, q)) /\ pc' = pc + 1
  BY StepIs DEF Instr, FpOps
<1>2. SetX(r, ShiftLeft(x[q]))
  BY <1>1 DEF Perform, Instr
<1> QED  BY <1>1, <1>2, SetXIs

LEMMA RunOri ==
  ASSUME Step, pc \in Nat \ {0}, Over(x, 1 .. NumX), NEW r \in 1 .. NumX, NEW q,
         code[pc] = Instr("ori1", r, q)
  PROVE  pc' = pc + 1 /\ OnlyX(r, x[q] \cup {0})
<1>1. Perform(Instr("ori1", r, q)) /\ pc' = pc + 1
  BY StepIs DEF Instr, FpOps
<1>2. SetX(r, x[q] \cup {0})
  BY <1>1 DEF Perform, Instr
<1> QED  BY <1>1, <1>2, SetXIs

LEMMA RunAddi ==
  ASSUME Step, pc \in Nat \ {0}, Over(x, 1 .. NumX), NEW r \in 1 .. NumX, NEW q,
         code[pc] = Instr("addi1", r, q)
  PROVE  pc' = pc + 1 /\ OnlyX(r, Successor(x[q]))
<1>1. Perform(Instr("addi1", r, q)) /\ pc' = pc + 1
  BY StepIs DEF Instr, FpOps
<1>2. SetX(r, Successor(x[q]))
  BY <1>1 DEF Perform, Instr
<1> QED  BY <1>1, <1>2, SetXIs

LEMMA RunReadCsr ==
  ASSUME Step, pc \in Nat \ {0}, Over(x, 1 .. NumX), NEW r \in 1 .. NumX, NEW c,
         code[pc] = ReadCsr(r, c)
  PROVE  pc' = pc + 1 /\ OnlyX(r, csr[c])
<1>1. Perform(ReadCsr(r, c)) /\ pc' = pc + 1
  BY StepIs DEF ReadCsr, Instr, FpOps
<1>2. SetX(r, csr[c])
  BY <1>1 DEF Perform, ReadCsr, Instr
<1> QED  BY <1>1, <1>2, SetXIs

LEMMA RunWriteCsr ==
  ASSUME Step, pc \in Nat \ {0}, Over(csr, CsrNames), NEW c \in CsrNames, NEW q,
         code[pc] = WriteCsr(c, q)
  PROVE  pc' = pc + 1 /\ OnlyCsr(c, x[q])
<1>1. Perform(WriteCsr(c, q)) /\ pc' = pc + 1
  BY StepIs DEF WriteCsr, Instr, FpOps
<1>2. SetCsr(c, x[q])
  BY <1>1 DEF Perform, WriteCsr, Instr
<1> QED  BY <1>1, <1>2, SetCsrIs

LEMMA RunMtvec ==
  ASSUME Step, pc \in Nat \ {0}, Over(csr, CsrNames), NEW o,
         code[pc] = SetMtvec(o)
  PROVE  pc' = pc + 1 /\ OnlyCsr("mtvec", TrapVector(hart.base + o))
<1>1. Perform(SetMtvec(o)) /\ pc' = pc + 1
  BY StepIs DEF SetMtvec, Instr, FpOps
<1>2. SetCsr("mtvec", TrapVector(hart.base + o))
  BY <1>1 DEF Perform, SetMtvec, Instr
<1>3. "mtvec" \in CsrNames
  BY DEF CsrNames
<1> QED  BY <1>1, <1>2, <1>3, SetCsrIs

LEMMA RunToF ==
  ASSUME Step, pc \in Nat \ {0}, Over(f, 1 .. NumF), NEW i \in 1 .. NumF, NEW q,
         code[pc] = Instr("fmvfx", i, q), fs
  PROVE  pc' = pc + 1 /\ OnlyF(i, Loaded(x[q]))
<1>1. Perform(Instr("fmvfx", i, q)) /\ pc' = pc + 1
  BY StepIs DEF Instr, FpOps
<1>2. SetF(i, Loaded(x[q]))
  BY <1>1 DEF Perform, Instr, Loaded
<1> QED  BY <1>1, <1>2, SetFIs

LEMMA RunFromF ==
  ASSUME Step, pc \in Nat \ {0}, Over(x, 1 .. NumX), NEW r \in 1 .. NumX, NEW i,
         code[pc] = Instr("fmvxf", r, i), fs
  PROVE  pc' = pc + 1 /\ OnlyX(r, Const(hart, f[i]))
<1>1. Perform(Instr("fmvxf", r, i)) /\ pc' = pc + 1
  BY StepIs DEF Instr, FpOps
<1>2. SetX(r, Const(hart, f[i]))
  BY <1>1 DEF Perform, Instr, Const, FpConstant
<1> QED  BY <1>1, <1>2, SetXIs

LEMMA RunSwap ==
  ASSUME Step, pc \in Nat \ {0}, Over(x, 1 .. NumX), Over(csr, CsrNames),
         NEW r \in 1 .. NumX, NEW c \in CsrNames, code[pc] = SwapZero(r, c)
  PROVE  /\ pc' = pc + 1
         /\ x'[r] = csr[c] /\ Over(x', 1 .. NumX)
         /\ \A q \in 1 .. NumX : q # r => x'[q] = x[q]
         /\ Over(csr', CsrNames) /\ \A q \in CsrNames : q # c => csr'[q] = csr[q]
         /\ UNCHANGED <<f, fs, tohost>>
<1>1. Perform(SwapZero(r, c)) /\ pc' = pc + 1
  BY StepIs DEF SwapZero, Instr, FpOps
<1>2. /\ x' = [x EXCEPT ![r] = csr[c]] /\ csr' = [csr EXCEPT ![c] = {}]
      /\ UNCHANGED <<f, fs, tohost>>
  BY <1>1 DEF Perform, SwapZero, Instr
<1>a. But([x EXCEPT ![r] = csr[c]], x, 1 .. NumX, r, csr[c])
  BY OverExcept
<1>b. But([csr EXCEPT ![c] = {}], csr, CsrNames, c, {})
  BY OverExcept
<1>3. x'[r] = csr[c] /\ Over(x', 1 .. NumX) /\ \A q \in 1 .. NumX : q # r => x'[q] = x[q]
  BY <1>2, <1>a DEF But
<1>4. Over(csr', CsrNames) /\ \A q \in CsrNames : q # c => csr'[q] = csr[q]
  BY <1>2, <1>b DEF But
<1> QED  BY <1>1, <1>2, <1>3, <1>4

LEMMA RunFsOn ==
  ASSUME Step, pc \in Nat \ {0}, Over(x, 1 .. NumX), NEW r \in 1 .. NumX,
         code[pc] = Instr("fson", r, NONE)
  PROVE  /\ pc' = pc + 1 /\ fs' = TRUE
         /\ Over(x', 1 .. NumX) /\ \A q \in 1 .. NumX : q # r => x'[q] = x[q]
         /\ UNCHANGED <<f, csr, tohost>>
<1>1. Perform(Instr("fson", r, NONE)) /\ pc' = pc + 1
  BY StepIs DEF Instr, FpOps
<1>2. fs' = TRUE /\ x' = [x EXCEPT ![r] = Bits] /\ UNCHANGED <<f, csr, tohost>>
  BY <1>1 DEF Perform, Instr
<1>a. But([x EXCEPT ![r] = Bits], x, 1 .. NumX, r, Bits)
  BY OverExcept
<1>3. Over(x', 1 .. NumX) /\ \A q \in 1 .. NumX : q # r => x'[q] = x[q]
  BY <1>2, <1>a DEF But
<1> QED  BY <1>1, <1>2, <1>3

LEMMA RunStore ==
  ASSUME Step, pc \in Nat \ {0}, NEW r, NEW q, code[pc] = Instr("store", r, q),
         x[r] = Tohost
  PROVE  pc' = pc + 1 /\ tohost' = x[q] /\ UNCHANGED <<x, f, csr, fs>>
<1>1. Perform(Instr("store", r, q)) /\ pc' = pc + 1
  BY StepIs DEF Instr, FpOps
<1> QED  BY <1>1 DEF Perform, Instr

LEMMA RunSpin ==
  ASSUME Step, pc \in Nat \ {0}, NEW r, NEW q, code[pc] = Instr("spin", r, q)
  PROVE  UNCHANGED <<pc, x, f, csr, fs, tohost>>
<1>1. Perform(Instr("spin", r, q)) /\ pc' = pc
  BY StepIs DEF Instr, FpOps
<1> QED  BY <1>1 DEF Perform, Instr

\* A slot of the workload leaves the FPU, mtvec and the mailbox alone.
LEMMA RunWork ==
  ASSUME Step, pc \in Nat \ {0}, Over(x, 1 .. NumX), Over(f, 1 .. NumF), Over(csr, CsrNames),
         NEW s, code[pc] = s, WorkSlot(s), s.op = "fneg" => fs
  PROVE  /\ pc' = pc + 1
         /\ Over(x', 1 .. NumX) /\ Over(f', 1 .. NumF) /\ Over(csr', CsrNames)
         /\ csr'["mtvec"] = csr["mtvec"] /\ UNCHANGED <<fs, tohost>>
<1>1. Perform(s) /\ pc' = pc + 1
  BY StepIs DEF WorkSlot, FpOps
<1>2. CASE s.op \in {"nop", "site"}
  <2>1. UNCHANGED <<x, f, csr, fs, tohost>>
    BY <1>1, <1>2 DEF Perform
  <2> QED  BY <1>1, <2>1
<1>3. CASE s.op = "inc"
  <2>1. SetX(s.rd, Successor(x[s.rd])) /\ s.rd \in 1 .. NumX
    BY <1>1, <1>3 DEF Perform, WorkSlot
  <2>2. OnlyX(s.rd, Successor(x[s.rd]))
    BY <2>1, SetXIs
  <2> QED  BY <1>1, <2>2 DEF OnlyX
<1>4. CASE s.op = "fneg"
  <2>1. SetF(s.rd, Bits \ f[s.rd]) /\ s.rd \in 1 .. NumF
    BY <1>1, <1>4 DEF Perform, WorkSlot
  <2>2. OnlyF(s.rd, Bits \ f[s.rd])
    BY <2>1, SetFIs
  <2> QED  BY <1>1, <2>2 DEF OnlyF
<1>5. CASE s.op = "csrw"
  <2>1. SetCsr(s.rd, x[s.rs]) /\ s.rd \in {Csrs[i] : i \in DOMAIN Csrs}
    BY <1>1, <1>5 DEF Perform, WorkSlot
  <2>2. s.rd \in CsrNames /\ "mtvec" \in CsrNames
    BY <2>1 DEF CsrNames
  <2>3. OnlyCsr(s.rd, x[s.rs])
    BY <2>1, <2>2, SetCsrIs
  <2>4. s.rd # "mtvec"
    BY <2>1, CsrsAre
  <2> QED  BY <1>1, <2>2, <2>3, <2>4 DEF OnlyCsr
<1> QED  BY <1>2, <1>3, <1>4, <1>5 DEF WorkSlot

--------------------------------------------------------------------------------
(* The slots of the code, by what they are for.                              *)

Built == hart \in HartType /\ code = Code(hart, expected)

\* The places of the initialisation and the workload in the code as it is now.
LEMMA PlacesNow ==
  ASSUME Built
  PROVE  /\ NumX \in Nat /\ NumX >= 5 /\ NumF \in Nat /\ NumCsrs \in Nat
         /\ FpAt = 2 + 2 * NumCsrs /\ XAt(hart) = FpAt + FpSlots(hart.target)
         /\ FpSlots(hart.target) = (IF hart.target.f THEN 1 + 2 * NumF ELSE 0)
         /\ XAt(hart) \in Nat /\ StimulusAt(hart) = XAt(hart) + NumX
         /\ StimulusAt(hart) \in Nat /\ CheckAt(hart) \in Nat
         /\ CheckAt(hart) = StimulusAt(hart) + Len(hart.work) /\ Len(hart.work) \in Nat
<1>1. hart \in HartType
  BY DEF Built
<1>2. NumX \in Nat /\ NumX >= 5 /\ NumF \in Nat
  BY Constants
<1>3. /\ NumCsrs \in Nat /\ XAt(hart) \in Nat /\ StimulusAt(hart) = XAt(hart) + NumX
      /\ StimulusAt(hart) \in Nat /\ CheckAt(hart) \in Nat
      /\ CheckAt(hart) = StimulusAt(hart) + Len(hart.work)
  BY <1>1, Places
<1>4. Len(hart.work) \in Nat
  BY <1>1, HartIs
<1> QED  BY <1>2, <1>3, <1>4 DEF FpAt, XAt, FpSlots

\* The places of what follows the workload.
LEMMA PlacesLater ==
  ASSUME Built
  PROVE  /\ CheckAt(hart) \in Nat
         /\ ClearAt(hart) = CheckAt(hart) + 3 * (NumX - 1)
         /\ FpCheckAt(hart) = ClearAt(hart) + 4
         /\ VerdictAt(hart) = FpCheckAt(hart) + (IF hart.target.f THEN 4 * NumF ELSE 0)
         /\ ExitAt(hart) = (IF hart.target.selfCheck THEN VerdictAt(hart) + 3
                            ELSE CheckAt(hart))
         /\ FailAt(hart) = ExitAt(hart) + 5 /\ ExitAt(hart) \in Nat
         /\ PadAt(hart) = FailAt(hart) + (IF hart.target.entangled THEN 5 ELSE 0)
         /\ HandlerAt(hart, expected) \in Nat /\ HandlerAt(hart, expected) >= PadAt(hart)
<1>1. hart \in HartType
  BY DEF Built
<1>2. /\ CheckAt(hart) \in Nat /\ FailAt(hart) = ExitAt(hart) + 5 /\ ExitAt(hart) \in Nat
      /\ ExitAt(hart) = (IF hart.target.selfCheck THEN VerdictAt(hart) + 3
                         ELSE CheckAt(hart))
  BY <1>1, Places
<1>3. HandlerAt(hart, expected) \in Nat /\ HandlerAt(hart, expected) >= PadAt(hart)
  BY <1>1, CodeIs
<1> QED  BY <1>2, <1>3 DEF ClearAt, FpCheckAt, VerdictAt, PadAt, ToClear, FpChecks

\* The code starts by pointing mtvec at the handler.
LEMMA FirstSlot ==
  ASSUME Built
  PROVE  code[1] = SetMtvec(Offset(hart, expected))
BY CodeIs DEF Built

\* The slots of the initialisation, one by one.
LEMMA InitSlots ==
  ASSUME Built
  PROVE  /\ \A i \in 1 .. NumCsrs :
               /\ code[2 * i] = LoadImm(X5, hart.draw.csr[i])
               /\ code[2 * i + 1] = WriteCsr(Csrs[i], X5)
         /\ hart.target.f =>
               /\ code[FpAt] = Instr("fson", X5, NONE)
               /\ \A i \in 1 .. NumF :
                     /\ code[FpAt + 2 * i - 1] = LoadImm(X5, hart.draw.f[i])
                     /\ code[FpAt + 2 * i] = Instr("fmvfx", i, X5)
         /\ \A r \in 1 .. NumX : code[XAt(hart) + r - 1] = LoadImm(r, hart.draw.x[r])
<1> DEFINE t == hart.target
           d == hart.draw
           I == InitRegisters(t, d)
           n == 2 * NumCsrs
           m == FpSlots(t)
<1>1. IsSeq(code) /\ Part(code, 1, I)
  <2>1. IsSeq(Code(hart, expected)) /\ Part(Code(hart, expected), 1, I)
    BY CodeIs DEF Built
  <2> QED  BY <2>1 DEF Built
<1>2. /\ IsSeq(I) /\ n \in Nat /\ m \in Nat
      /\ Part(I, 0, LoadCsrs(d)) /\ Part(I, n, LoadF(t, d)) /\ Part(I, n + m, LoadX(d))
  BY InitIs
<1>3. IsSeq(LoadCsrs(d)) /\ IsSeq(LoadF(t, d)) /\ IsSeq(LoadX(d)) /\ Len(LoadX(d)) = NumX
  BY LoadCsrsIs, LoadFIs, LoadXIs
<1>n. NumCsrs \in Nat /\ NumX \in Nat /\ NumF \in Nat
  BY Constants DEF NumCsrs
<1> HIDE DEF I
<1>4. Part(code, 1, LoadCsrs(d)) /\ Part(code, 1 + n, LoadF(t, d))
      /\ Part(code, 1 + (n + m), LoadX(d))
  <2> HIDE DEF n, m, t, d
  <2>1. n + m \in Nat
    BY <1>2
  <2>2. Part(code, 1 + 0, LoadCsrs(d))
    BY <1>1, <1>2, <1>3, PartOf
  <2>3. Part(code, 1 + n, LoadF(t, d))
    BY <1>1, <1>2, <1>3, PartOf
  <2>4. Part(code, 1 + (n + m), LoadX(d))
    BY <1>1, <1>2, <1>3, <2>1, PartOf
  <2> QED  BY <2>2, <2>3, <2>4
<1>5. ASSUME NEW i \in 1 .. NumCsrs
      PROVE  /\ code[2 * i] = LoadImm(X5, d.csr[i])
             /\ code[2 * i + 1] = WriteCsr(Csrs[i], X5)
  <2>1. /\ code[1 + 2 * (i - 1) + 1] = LoadImm(X5, d.csr[i])
        /\ code[1 + 2 * (i - 1) + 2] = WriteCsr(Csrs[i], X5)
    BY <1>1, <1>4, LoadCsrsIs
  <2>2. 1 + 2 * (i - 1) + 1 = 2 * i /\ 1 + 2 * (i - 1) + 2 = 2 * i + 1
    BY <1>n
  <2> QED  BY <2>1, <2>2
<1>6. ASSUME t.f
      PROVE  /\ code[FpAt] = Instr("fson", X5, NONE)
             /\ \A i \in 1 .. NumF :
                   /\ code[FpAt + 2 * i - 1] = LoadImm(X5, d.f[i])
                   /\ code[FpAt + 2 * i] = Instr("fmvfx", i, X5)
  <2> DEFINE k == 1 + n
  <2>0. k \in Nat /\ Part(code, k, LoadF(t, d)) /\ k + 1 = FpAt
    BY <1>2, <1>4 DEF FpAt
  <2> HIDE DEF k
  <2>1. /\ code[k + 1] = Instr("fson", X5, NONE)
        /\ \A i \in 1 .. NumF :
              /\ code[k + 1 + 2 * (i - 1) + 1] = LoadImm(X5, d.f[i])
              /\ code[k + 1 + 2 * (i - 1) + 2] = Instr("fmvfx", i, X5)
    BY <1>1, <1>6, <2>0, LoadFIs
  <2>2. \A i \in 1 .. NumF : /\ k + 1 + 2 * (i - 1) + 1 = FpAt + 2 * i - 1
                             /\ k + 1 + 2 * (i - 1) + 2 = FpAt + 2 * i
    BY <1>n, <2>0
  <2> QED  BY <2>0, <2>1, <2>2
<1>7. ASSUME NEW r \in 1 .. NumX
      PROVE  code[XAt(hart) + r - 1] = LoadImm(r, d.x[r])
  <2>1. XAt(hart) + r - 1 = 1 + (n + m) + r
    BY <1>2, <1>n DEF XAt, FpAt
  <2>2. code[1 + (n + m) + r] = LoadX(d)[r]
    <3> HIDE DEF n, m
    <3> QED  BY <1>3, <1>4 DEF Part
  <2>3. LoadX(d)[r] = LoadImm(r, d.x[r])
    BY LoadXIs
  <2> QED  BY <2>1, <2>2, <2>3
<1> QED  BY <1>5, <1>6, <1>7

\* A slot of the workload is what the workload says.
LEMMA WorkSlots ==
  ASSUME Built, NEW p \in StimulusAt(hart) .. CheckAt(hart) - 1
  PROVE  /\ p - StimulusAt(hart) + 1 \in 1 .. Len(hart.work)
         /\ code[p] = hart.work[p - StimulusAt(hart) + 1]
         /\ WorkSlot(code[p])
<1> DEFINE i == p - StimulusAt(hart) + 1
<1>1. Part(code, StimulusAt(hart) - 1, hart.work)
  BY CodeIs DEF Built
<1>2. /\ StimulusAt(hart) \in Nat /\ CheckAt(hart) = StimulusAt(hart) + Len(hart.work)
      /\ Len(hart.work) \in Nat /\ CheckAt(hart) \in Nat
  BY PlacesNow
<1>3. i \in 1 .. Len(hart.work) /\ StimulusAt(hart) - 1 + i = p
  BY <1>2
<1> HIDE DEF i
<1>4. code[StimulusAt(hart) - 1 + i] = hart.work[i]
  BY <1>1, <1>3 DEF Part
<1>5. code[p] = hart.work[i]
  BY <1>3, <1>4
<1>6. WorkSlot(hart.work[i])
  BY <1>3, HartIs DEF Built
<1> QED  BY <1>3, <1>5, <1>6 DEF i

\* The slots of the self-check, one by one.
LEMMA CheckSlots ==
  ASSUME Built, hart.target.selfCheck
  PROVE  /\ code[CheckAt(hart)] = WriteCsr(MSCRATCH, TMP)
         /\ code[CheckAt(hart) + 1] = LoadImm(TMP, expected.x[X1])
         /\ code[CheckAt(hart) + 2] = Instr("xor", ACC, TMP)
         /\ \A r \in 2 .. NumX - 1 :
               /\ code[CheckAt(hart) + 3 * (r - 1)] = LoadImm(TMP, expected.x[r])
               /\ code[CheckAt(hart) + 3 * (r - 1) + 1] = Instr("xor", TMP, r)
               /\ code[CheckAt(hart) + 3 * (r - 1) + 2] = Instr("or", ACC, TMP)
         /\ code[ClearAt(hart)] = SwapZero(TMP, MSCRATCH)
         /\ code[ClearAt(hart) + 1] = LoadImm(X2, expected.x[TMP])
         /\ code[ClearAt(hart) + 2] = Instr("xor", X2, TMP)
         /\ code[ClearAt(hart) + 3] = Instr("or", ACC, X2)
         /\ hart.target.f =>
               \A i \in 1 .. NumF :
                  /\ code[FpCheckAt(hart) + 4 * (i - 1)] = Instr("fmvxf", TMP, i)
                  /\ code[FpCheckAt(hart) + 4 * (i - 1) + 1] = LoadImm(X2, Const(hart, expected.f[i]))
                  /\ code[FpCheckAt(hart) + 4 * (i - 1) + 2] = Instr("xor", X2, TMP)
                  /\ code[FpCheckAt(hart) + 4 * (i - 1) + 3] = Instr("or", ACC, X2)
         /\ code[VerdictAt(hart)] = Instr("sltu", X5, ACC)
         /\ code[VerdictAt(hart) + 1] = Instr("neg", X5, X5)
         /\ code[VerdictAt(hart) + 2] = Instr("andi", X5, MISMATCH)
<1> DEFINE t == hart.target
           B == SelfCheckBlock(t, expected)
           k == CheckAt(hart) - 1
           c == ToClear
           v == ToVerdict(t)
           n == NumX
<1>1. IsSeq(code) /\ Part(code, k, B)
  <2>1. IsSeq(Code(hart, expected))
        /\ Part(Code(hart, expected), CheckAt(hart) - 1, Check(t, expected))
    BY CodeIs DEF Built
  <2>2. Check(t, expected) = B
    BY DEF Check
  <2> QED  BY <2>1, <2>2 DEF Built
<1>2. k \in Nat /\ CheckAt(hart) \in Nat /\ CheckAt(hart) = k + 1 /\ n \in Nat /\ n >= 5
  <2>1. /\ NumX \in Nat /\ NumX >= 5 /\ XAt(hart) \in Nat
        /\ StimulusAt(hart) = XAt(hart) + NumX
        /\ CheckAt(hart) = StimulusAt(hart) + Len(hart.work) /\ Len(hart.work) \in Nat
    BY PlacesNow
  <2> QED  BY <2>1
<1>3. /\ IsSeq(B) /\ c \in Nat
      /\ Part(B, 0, CheckStart(expected)) /\ Part(B, 3, IntBlock(expected))
      /\ Part(B, c, CheckSwap) /\ Part(B, c + 1, FoldInto(TMP, X2, expected.x[TMP]))
      /\ Part(B, c + 4, FpBlock(t, expected)) /\ Part(B, v, CheckEnd)
      /\ FpChecks(t) \in Nat
  BY BlockParts
<1>4. v = c + 4 + FpChecks(t) /\ v \in Nat
  BY <1>3 DEF ToVerdict
<1>5. ClearAt(hart) = k + c + 1 /\ FpCheckAt(hart) = k + c + 5 /\ VerdictAt(hart) = k + v + 1
      /\ c = 3 * (n - 1)
  BY <1>2, <1>3, <1>4 DEF ClearAt, FpCheckAt, VerdictAt, ToClear
<1> HIDE DEF B, k, c, v, n
<1>6. ASSUME NEW m \in Nat, NEW s, IsSeq(s), Part(B, m, s)
      PROVE  Part(code, k + m, s)
  BY <1>1, <1>2, <1>3, <1>6, PartOf
<1>7. /\ code[k + 1] = WriteCsr(MSCRATCH, TMP)
      /\ code[k + 2] = LoadImm(TMP, expected.x[X1])
      /\ code[k + 3] = Instr("xor", ACC, TMP)
  <2> DEFINE s == CheckStart(expected)
  <2>1. IsSeq(s) /\ Len(s) = 3 /\ s[1] = WriteCsr(MSCRATCH, TMP)
        /\ s[2] = LoadImm(TMP, expected.x[X1]) /\ s[3] = Instr("xor", ACC, TMP)
    BY CheckStartIs
  <2>2. Part(code, k + 0, s)
    BY <1>3, <1>6, <2>1
  <2> HIDE DEF s
  <2>3. code[k + 0 + 1] = s[1] /\ code[k + 0 + 2] = s[2] /\ code[k + 0 + 3] = s[3]
    BY <2>1, <2>2 DEF Part
  <2>4. k + 0 + 1 = k + 1 /\ k + 0 + 2 = k + 2 /\ k + 0 + 3 = k + 3
    BY <1>2
  <2> QED  BY <2>1, <2>3, <2>4
<1>8. ASSUME NEW r \in 2 .. NumX - 1
      PROVE  /\ code[k + 1 + 3 * (r - 1)] = LoadImm(TMP, expected.x[r])
             /\ code[k + 1 + 3 * (r - 1) + 1] = Instr("xor", TMP, r)
             /\ code[k + 1 + 3 * (r - 1) + 2] = Instr("or", ACC, TMP)
  <2>1. Part(code, k + 3, IntBlock(expected)) /\ k + 3 \in Nat
    <3>1. IsSeq(IntBlock(expected))
      BY IntBlockIs
    <3> QED  BY <1>2, <1>3, <1>6, <3>1
  <2> DEFINE m == k + 3
  <2> HIDE DEF m
  <2>2. m \in Nat /\ Part(code, m, IntBlock(expected)) /\ m = k + 3
    BY <2>1 DEF m
  <2>3. /\ code[m + 3 * (r - 2) + 1] = LoadImm(TMP, expected.x[r])
        /\ code[m + 3 * (r - 2) + 2] = Instr("xor", TMP, r)
        /\ code[m + 3 * (r - 2) + 3] = Instr("or", ACC, TMP)
    BY <1>1, <2>2, IntBlockIs
  <2>4. /\ m + 3 * (r - 2) + 1 = k + 1 + 3 * (r - 1)
        /\ m + 3 * (r - 2) + 2 = k + 1 + 3 * (r - 1) + 1
        /\ m + 3 * (r - 2) + 3 = k + 1 + 3 * (r - 1) + 2
    BY <1>2, <2>2
  <2> QED  BY <2>3, <2>4
<1>9. code[k + c + 1] = SwapZero(TMP, MSCRATCH)
  <2>1. Part(code, k + c, CheckSwap)
    BY <1>3, <1>6, CheckSwapIs
  <2>2. 1 \in 1 .. Len(CheckSwap)
    BY CheckSwapIs
  <2> QED  BY <2>1, <2>2, CheckSwapIs DEF Part
<1>10. /\ code[k + c + 1 + 1] = LoadImm(X2, expected.x[TMP])
       /\ code[k + c + 1 + 2] = Instr("xor", X2, TMP)
       /\ code[k + c + 1 + 3] = Instr("or", ACC, X2)
  <2> DEFINE s == FoldInto(TMP, X2, expected.x[TMP])
  <2>1. IsSeq(s) /\ Len(s) = 3 /\ s[1] = LoadImm(X2, expected.x[TMP])
        /\ s[2] = Instr("xor", X2, TMP) /\ s[3] = Instr("or", ACC, X2)
    BY FoldIntoIs
  <2>2. Part(code, k + (c + 1), s)
    BY <1>3, <1>6, <2>1
  <2> HIDE DEF s
  <2>3. /\ code[k + (c + 1) + 1] = s[1] /\ code[k + (c + 1) + 2] = s[2]
        /\ code[k + (c + 1) + 3] = s[3]
    BY <2>1, <2>2 DEF Part
  <2>4. k + (c + 1) = k + c + 1
    BY <1>2, <1>3
  <2> QED  BY <2>1, <2>3, <2>4
<1>11. ASSUME t.f, NEW i \in 1 .. NumF
       PROVE  /\ code[k + c + 5 + 4 * (i - 1)] = Instr("fmvxf", TMP, i)
              /\ code[k + c + 5 + 4 * (i - 1) + 1] = LoadImm(X2, Const(hart, expected.f[i]))
              /\ code[k + c + 5 + 4 * (i - 1) + 2] = Instr("xor", X2, TMP)
              /\ code[k + c + 5 + 4 * (i - 1) + 3] = Instr("or", ACC, X2)
  <2> DEFINE m == k + (c + 4)
  <2>1. IsSeq(FpBlock(t, expected))
    BY FpBlockIs
  <2>2. m \in Nat /\ Part(code, m, FpBlock(t, expected))
    BY <1>2, <1>3, <1>6, <2>1
  <2>a. NumF \in Nat
    BY PlacesNow
  <2>3. m = k + c + 4 /\ i \in Nat
    BY <1>2, <1>3, <2>a
  <2> HIDE DEF m
  <2>4. /\ code[m + 4 * (i - 1) + 1] = Instr("fmvxf", TMP, i)
        /\ code[m + 4 * (i - 1) + 2] = LoadImm(X2, FpConstant(t, expected.f[i]))
        /\ code[m + 4 * (i - 1) + 3] = Instr("xor", X2, TMP)
        /\ code[m + 4 * (i - 1) + 4] = Instr("or", ACC, X2)
    BY <1>1, <1>11, <2>2, FpBlockIs
  <2>5. /\ m + 4 * (i - 1) + 1 = k + c + 5 + 4 * (i - 1)
        /\ m + 4 * (i - 1) + 2 = k + c + 5 + 4 * (i - 1) + 1
        /\ m + 4 * (i - 1) + 3 = k + c + 5 + 4 * (i - 1) + 2
        /\ m + 4 * (i - 1) + 4 = k + c + 5 + 4 * (i - 1) + 3
    BY <1>2, <1>3, <2>3
  <2> QED  BY <2>4, <2>5 DEF Const
<1>12. /\ code[k + v + 1] = Instr("sltu", X5, ACC)
       /\ code[k + v + 2] = Instr("neg", X5, X5)
       /\ code[k + v + 3] = Instr("andi", X5, MISMATCH)
  <2>1. Part(code, k + v, CheckEnd)
    BY <1>3, <1>4, <1>6, CheckEndIs
  <2>2. code[k + v + 1] = CheckEnd[1] /\ code[k + v + 2] = CheckEnd[2]
        /\ code[k + v + 3] = CheckEnd[3]
    BY <2>1, CheckEndIs DEF Part
  <2> QED  BY <2>2, CheckEndIs
<1>13. /\ k + 1 + 1 = k + 2 /\ k + 1 + 2 = k + 3
       /\ k + v + 1 + 1 = k + v + 2 /\ k + v + 1 + 2 = k + v + 3
  BY <1>2, <1>4
<1> QED
  BY <1>2, <1>5, <1>7, <1>8, <1>9, <1>10, <1>11, <1>12, <1>13

\* In the code from slot n on: a report of a.
ReportsAt(n, a) ==
    /\ code[n] = a /\ code[n + 1] = Instr("ori1", X5, X5)
    /\ code[n + 2] = LoadImm(X6, Tohost) /\ code[n + 3] = Instr("store", X6, X5)
    /\ code[n + 4] = Instr("spin", X6, X6)

\* The slots of a report, one by one.
LEMMA ReportSlots ==
  ASSUME Built, NEW n \in Nat, NEW a, Part(code, n - 1, Report(a))
  PROVE  ReportsAt(n, a)
<1>1. \A i \in 1 .. 5 : code[n - 1 + i] = Report(a)[i]
  BY ReportIs DEF Part
<1>2. /\ n - 1 + 1 = n /\ n - 1 + 2 = n + 1 /\ n - 1 + 3 = n + 2
      /\ n - 1 + 4 = n + 3 /\ n - 1 + 5 = n + 4
  OBVIOUS
<1>3. /\ code[n] = Report(a)[1] /\ code[n + 1] = Report(a)[2] /\ code[n + 2] = Report(a)[3]
      /\ code[n + 3] = Report(a)[4] /\ code[n + 4] = Report(a)[5]
  BY <1>1, <1>2
<1> QED  BY <1>3, ReportIs DEF ReportsAt

\* The reports of _exit, of _fail and of the handler.
LEMMA EndSlots ==
  ASSUME Built
  PROVE  /\ ReportsAt(ExitAt(hart), IF hart.target.selfCheck THEN Instr("slli1", X5, X5)
                                    ELSE LoadImm(X5, {0}))
         /\ hart.target.entangled =>
               ReportsAt(FailAt(hart), LoadImm(X5, ShiftLeft(DIVERGENCE)))
         /\ code[HandlerAt(hart, expected)] = ReadCsr(X5, "mcause")
         /\ code[HandlerAt(hart, expected) + 1] = Instr("addi1", X5, X5)
         /\ ReportsAt(HandlerAt(hart, expected) + 2, Instr("slli1", X5, X5))
<1> DEFINE H == HandlerAt(hart, expected)
<1>1. /\ IsSeq(code) /\ H \in Nat /\ H >= PadAt(hart)
      /\ Part(code, ExitAt(hart) - 1, Exit(hart.target))
      /\ Part(code, FailAt(hart) - 1, Fail(hart.target))
      /\ Part(code, H - 1, TrapHandler)
  BY CodeIs DEF Built
<1>2. /\ ExitAt(hart) \in Nat /\ FailAt(hart) = ExitAt(hart) + 5
      /\ PadAt(hart) = FailAt(hart) + (IF hart.target.entangled THEN 5 ELSE 0)
  BY PlacesLater
<1>3. ReportsAt(ExitAt(hart), IF hart.target.selfCheck THEN Instr("slli1", X5, X5)
                              ELSE LoadImm(X5, {0}))
  BY <1>1, <1>2, ReportSlots DEF Exit
<1>4. ASSUME hart.target.entangled
      PROVE  ReportsAt(FailAt(hart), LoadImm(X5, ShiftLeft(DIVERGENCE)))
  <2>1. Fail(hart.target) = Report(LoadImm(X5, ShiftLeft(DIVERGENCE)))
    BY <1>4 DEF Fail
  <2>2. FailAt(hart) \in Nat
    BY <1>2
  <2> QED  BY <1>1, <2>1, <2>2, ReportSlots
<1> HIDE DEF H
<1>5. H - 1 \in Nat
  BY <1>1, <1>2
<1>6. code[H - 1 + 1] = TrapHandler[1] /\ code[H - 1 + 2] = TrapHandler[2]
  BY <1>1, TrapHandlerIs DEF Part
<1>7. H - 1 + 1 = H /\ H - 1 + 2 = H + 1
  BY <1>1
<1>8. ReportsAt(H + 2, Instr("slli1", X5, X5))
  <2> DEFINE r == Report(Instr("slli1", X5, X5))
  <2>1. IsSeq(r) /\ Part(TrapHandler, 2, r) /\ IsSeq(TrapHandler)
    BY ReportIs, TrapHandlerIs
  <2> HIDE DEF r
  <2>2. Part(code, H - 1 + 2, r)
    BY <1>1, <1>5, <2>1, PartOf
  <2>3. H - 1 + 2 = H + 2 - 1 /\ H + 2 \in Nat
    BY <1>1
  <2> DEFINE n == H + 2
             m == H - 1 + 2
  <2>a. n \in Nat /\ n - 1 = m
    BY <1>1
  <2>b. Part(code, m, r)
    BY <2>2
  <2> HIDE DEF n, m
  <2>4. n \in Nat /\ Part(code, n - 1, r)
    BY <2>a, <2>b
  <2>5. ReportsAt(n, Instr("slli1", X5, X5))
    BY <2>4, ReportSlots DEF r
  <2> QED  BY <2>5 DEF n
<1> QED  BY <1>3, <1>4, <1>6, <1>7, <1>8, TrapHandlerIs DEF H

--------------------------------------------------------------------------------
(* The initialisation.                                                       *)

Went ==
    /\ pc' = pc + 1 /\ Typed' /\ UNCHANGED tohost
    /\ Settled' /\ Initialising'

\* The slots before the workload are the ones InitSlots names.
LEMMA InitCases ==
  ASSUME Built, pc \in 1 .. StimulusAt(hart) - 1
  PROVE  \/ pc = 1
         \/ \E i \in 1 .. NumCsrs : pc = 2 * i \/ pc = 2 * i + 1
         \/ hart.target.f /\ pc = FpAt
         \/ hart.target.f /\ \E i \in 1 .. NumF : pc = FpAt + 2 * i - 1 \/ pc = FpAt + 2 * i
         \/ \E r \in 1 .. NumX : pc = XAt(hart) + r - 1
<1> DEFINE t == hart.target.f
           n == XAt(hart)
           s == StimulusAt(hart)
           k == NumCsrs
<1>1. /\ NumX \in Nat /\ NumX >= 5 /\ NumF \in Nat /\ k \in Nat /\ FpAt = 2 + 2 * k
      /\ n = FpAt + (IF t THEN 1 + 2 * NumF ELSE 0) /\ s = n + NumX
  BY PlacesNow
<1>0. pc \in 1 .. s - 1
  OBVIOUS
<1> HIDE DEF t, n, s, k
<1>2. CASE pc < FpAt
  <2>1. CASE pc = 1
    BY <2>1
  <2>2. CASE pc # 1
    <3> DEFINE i == pc \div 2
    <3>1. i \in 1 .. k /\ (pc = 2 * i \/ pc = 2 * i + 1)
      BY <1>0, <1>1, <1>2, <2>2
    <3> HIDE DEF i
    <3> QED  BY <3>1 DEF k
  <2> QED  BY <2>1, <2>2
<1>3. CASE pc >= n
  <2>1. pc - n + 1 \in 1 .. NumX /\ pc = n + (pc - n + 1) - 1
    BY <1>0, <1>1, <1>3
  <2> QED  BY <2>1 DEF n
<1>4. CASE pc >= FpAt /\ pc < n
  <2>1. t
    BY <1>0, <1>1, <1>4
  <2>2. CASE pc = FpAt
    BY <2>1, <2>2 DEF t
  <2>3. CASE pc # FpAt
    <3> DEFINE i == (pc - FpAt + 1) \div 2
    <3>1. i \in 1 .. NumF /\ (pc = FpAt + 2 * i - 1 \/ pc = FpAt + 2 * i)
      BY <1>0, <1>1, <1>4, <2>1, <2>3
    <3> HIDE DEF i
    <3> QED  BY <2>1, <3>1 DEF t
  <2> QED  BY <2>2, <2>3
<1> QED  BY <1>0, <1>1, <1>2, <1>3, <1>4

\* A slot of the initialisation leaves what the next one needs.
LEMMA InitStep ==
  ASSUME Built, Typed, Settled, Initialising, pc \in 1 .. StimulusAt(hart) - 1,
         Step, UNCHANGED <<hart, code, expected>>
  PROVE  Went
<1>b. Built /\ Step
  OBVIOUS
<1>u. hart' = hart /\ code' = code /\ expected' = expected
  OBVIOUS
<1>step. Step
  OBVIOUS
<1>t. Typed /\ Over(x, 1 .. NumX) /\ Over(f, 1 .. NumF) /\ Over(csr, CsrNames)
  BY DEF Typed
<1>s. Settled
  OBVIOUS
<1>i. InitCsrs /\ InitF /\ InitX
  BY DEF Initialising
<1>p. /\ NumX \in Nat /\ NumX >= 5 /\ NumF \in Nat /\ NumCsrs \in Nat
      /\ FpAt = 2 + 2 * NumCsrs
      /\ XAt(hart) = FpAt + (IF hart.target.f THEN 1 + 2 * NumF ELSE 0)
  BY PlacesNow
<1>n. pc \in Nat \ {0} /\ X5 \in 1 .. NumX
  <2>1. pc \in Nat \ {0}
    BY PlacesNow
  <2> QED  BY <2>1, Constants
<1>1. ASSUME pc = 1
      PROVE  Went
  <2>1. pc' = pc + 1 /\ OnlyCsr("mtvec", TrapVector(hart.base + Offset(hart, expected)))
    BY <1>1, <1>b, <1>n, <1>t, <1>step, FirstSlot, RunMtvec
  <2>2. Typed' /\ UNCHANGED tohost
    BY <1>t, <2>1 DEF Typed, OnlyCsr
  <2>3. Settled'
    BY <1>1, <1>u, <1>p, <1>n, <1>s, <2>1 DEF Settled, OnlyCsr
  <2>4. InitCsrs'
    <3>1. ASSUME NEW j \in 1 .. NumCsrs, pc' = 2 * j + 1
          PROVE  x'[X5] = hart.draw.csr[j]
      BY <1>1, <1>p, <1>n, <2>1, <3>1 DEF OnlyX
    <3>2. ASSUME NEW j \in 1 .. NumCsrs, pc' > 2 * j + 1
          PROVE  csr'[Csrs[j]] = hart.draw.csr[j]
      BY <1>1, <1>p, <1>n, <1>i, <2>1, <3>2 DEF InitCsrs, OnlyCsr
    <3> QED  BY <1>u, <3>1, <3>2 DEF InitCsrs
  <2>5. InitF'
    <3>1. ASSUME hart.target.f, NEW j \in 1 .. NumF, pc' = FpAt + 2 * j
          PROVE  x'[X5] = hart.draw.f[j]
      BY <1>1, <1>p, <1>n, <2>1, <3>1 DEF OnlyX
    <3>2. ASSUME hart.target.f, NEW j \in 1 .. NumF, pc' > FpAt + 2 * j
          PROVE  f'[j] = Loaded(hart.draw.f[j])
      BY <1>1, <1>p, <1>n, <1>i, <2>1, <3>2 DEF InitF, OnlyCsr
    <3> QED  BY <1>u, <3>1, <3>2 DEF InitF, Loaded
  <2>6. InitX'
    <3>1. ASSUME NEW q \in 1 .. NumX, pc' >= XAt(hart) + q
          PROVE  x'[q] = hart.draw.x[q]
      BY <1>1, <1>p, <1>n, <1>i, <2>1, <3>1 DEF InitX, OnlyCsr
    <3> QED  BY <1>u, <3>1 DEF InitX
  <2> QED  BY <2>1, <2>2, <2>3, <2>4, <2>5, <2>6 DEF Went, Initialising
<1>2. ASSUME NEW i \in 1 .. NumCsrs, pc = 2 * i
      PROVE  Went
  <2>1. pc' = pc + 1 /\ OnlyX(X5, hart.draw.csr[i])
    BY <1>2, <1>b, <1>n, <1>t, <1>step, InitSlots, RunLi
  <2>2. Typed' /\ UNCHANGED tohost
    BY <1>t, <2>1 DEF Typed, OnlyX
  <2>3. Settled'
    BY <1>2, <1>u, <1>p, <1>n, <1>s, <2>1 DEF Settled, OnlyX
  <2>4. InitCsrs'
    <3>1. ASSUME NEW j \in 1 .. NumCsrs, pc' = 2 * j + 1
          PROVE  x'[X5] = hart.draw.csr[j]
      BY <1>2, <1>p, <1>n, <2>1, <3>1 DEF OnlyX
    <3>2. ASSUME NEW j \in 1 .. NumCsrs, pc' > 2 * j + 1
          PROVE  csr'[Csrs[j]] = hart.draw.csr[j]
      BY <1>2, <1>p, <1>n, <1>i, <2>1, <3>2 DEF InitCsrs, OnlyX
    <3> QED  BY <1>u, <3>1, <3>2 DEF InitCsrs
  <2>5. InitF'
    <3>1. ASSUME hart.target.f, NEW j \in 1 .. NumF, pc' = FpAt + 2 * j
          PROVE  x'[X5] = hart.draw.f[j]
      BY <1>2, <1>p, <1>n, <2>1, <3>1 DEF OnlyX
    <3>2. ASSUME hart.target.f, NEW j \in 1 .. NumF, pc' > FpAt + 2 * j
          PROVE  f'[j] = Loaded(hart.draw.f[j])
      BY <1>2, <1>p, <1>n, <1>i, <2>1, <3>2 DEF InitF, OnlyX
    <3> QED  BY <1>u, <3>1, <3>2 DEF InitF, Loaded
  <2>6. InitX'
    <3>1. ASSUME NEW q \in 1 .. NumX, pc' >= XAt(hart) + q
          PROVE  x'[q] = hart.draw.x[q]
      BY <1>2, <1>p, <1>n, <1>i, <2>1, <3>1 DEF InitX, OnlyX
    <3> QED  BY <1>u, <3>1 DEF InitX
  <2> QED  BY <2>1, <2>2, <2>3, <2>4, <2>5, <2>6 DEF Went, Initialising
<1>3. ASSUME NEW i \in 1 .. NumCsrs, pc = 2 * i + 1
      PROVE  Went
  <2>1. pc' = pc + 1 /\ OnlyCsr(Csrs[i], x[X5])
    BY <1>3, <1>b, <1>n, <1>t, <1>step, InitSlots, RunWriteCsr, CsrsAre
  <2>2. Typed' /\ UNCHANGED tohost
    BY <1>t, <2>1 DEF Typed, OnlyCsr
  <2>3. Settled'
    BY <1>3, <1>u, <1>p, <1>n, <1>s, CsrsAre, <2>1 DEF Settled, OnlyCsr
  <2>4. InitCsrs'
    <3>1. ASSUME NEW j \in 1 .. NumCsrs, pc' = 2 * j + 1
          PROVE  x'[X5] = hart.draw.csr[j]
      BY <1>3, <1>p, <1>n, <2>1, <3>1 DEF OnlyX
    <3>2. ASSUME NEW j \in 1 .. NumCsrs, pc' > 2 * j + 1
          PROVE  csr'[Csrs[j]] = hart.draw.csr[j]
      BY <1>3, <1>p, <1>n, <1>i, <2>1, <3>2, CsrsAre DEF InitCsrs, OnlyCsr
    <3> QED  BY <1>u, <3>1, <3>2 DEF InitCsrs
  <2>5. InitF'
    <3>1. ASSUME hart.target.f, NEW j \in 1 .. NumF, pc' = FpAt + 2 * j
          PROVE  x'[X5] = hart.draw.f[j]
      BY <1>3, <1>p, <1>n, <2>1, <3>1 DEF OnlyX
    <3>2. ASSUME hart.target.f, NEW j \in 1 .. NumF, pc' > FpAt + 2 * j
          PROVE  f'[j] = Loaded(hart.draw.f[j])
      BY <1>3, <1>p, <1>n, <1>i, <2>1, <3>2 DEF InitF, OnlyCsr
    <3> QED  BY <1>u, <3>1, <3>2 DEF InitF, Loaded
  <2>6. InitX'
    <3>1. ASSUME NEW q \in 1 .. NumX, pc' >= XAt(hart) + q
          PROVE  x'[q] = hart.draw.x[q]
      BY <1>3, <1>p, <1>n, <1>i, <2>1, <3>1 DEF InitX, OnlyCsr
    <3> QED  BY <1>u, <3>1 DEF InitX
  <2> QED  BY <2>1, <2>2, <2>3, <2>4, <2>5, <2>6 DEF Went, Initialising
<1>4. ASSUME hart.target.f, pc = FpAt
      PROVE  Went
  <2>1. pc' = pc + 1 /\ fs' = TRUE /\ Over(x', 1 .. NumX)
        /\ (\A q \in 1 .. NumX : q # X5 => x'[q] = x[q]) /\ UNCHANGED <<f, csr, tohost>>
    BY <1>4, <1>b, <1>n, <1>t, <1>step, InitSlots, RunFsOn
  <2>2. Typed' /\ UNCHANGED tohost
    BY <1>t, <2>1 DEF Typed
  <2>3. Settled'
    <3>1. hart.target.f = TRUE
      BY <1>4, <1>b, HartIs DEF Built
    <3>2. pc' > FpAt /\ fs' = TRUE
      BY <1>4, <1>p, <2>1
    <3>3. fs' = (hart'.target.f /\ pc' > FpAt)
      BY <1>u, <3>1, <3>2
    <3>4. csr'["mtvec"] = TrapVector(hart.base + Offset(hart, expected))
      BY <1>4, <1>p, <1>s, <2>1 DEF Settled
    <3> QED  BY <1>u, <3>3, <3>4 DEF Settled
  <2>4. InitCsrs'
    <3>1. ASSUME NEW j \in 1 .. NumCsrs, pc' = 2 * j + 1
          PROVE  x'[X5] = hart.draw.csr[j]
      BY <1>4, <1>p, <1>n, <2>1, <3>1 DEF OnlyX
    <3>2. ASSUME NEW j \in 1 .. NumCsrs, pc' > 2 * j + 1
          PROVE  csr'[Csrs[j]] = hart.draw.csr[j]
      BY <1>4, <1>p, <1>n, <1>i, <2>1, <3>2 DEF InitCsrs
    <3> QED  BY <1>u, <3>1, <3>2 DEF InitCsrs
  <2>5. InitF'
    <3>1. ASSUME hart.target.f, NEW j \in 1 .. NumF, pc' = FpAt + 2 * j
          PROVE  x'[X5] = hart.draw.f[j]
      BY <1>4, <1>p, <1>n, <2>1, <3>1 DEF OnlyX
    <3>2. ASSUME hart.target.f, NEW j \in 1 .. NumF, pc' > FpAt + 2 * j
          PROVE  f'[j] = Loaded(hart.draw.f[j])
      BY <1>4, <1>p, <1>n, <1>i, <2>1, <3>2 DEF InitF
    <3> QED  BY <1>u, <3>1, <3>2 DEF InitF, Loaded
  <2>6. InitX'
    <3>1. ASSUME NEW q \in 1 .. NumX, pc' >= XAt(hart) + q
          PROVE  x'[q] = hart.draw.x[q]
      BY <1>4, <1>p, <1>n, <1>i, <2>1, <3>1 DEF InitX
    <3> QED  BY <1>u, <3>1 DEF InitX
  <2> QED  BY <2>1, <2>2, <2>3, <2>4, <2>5, <2>6 DEF Went, Initialising
<1>5. ASSUME hart.target.f, NEW i \in 1 .. NumF, pc = FpAt + 2 * i - 1
      PROVE  Went
  <2>1. pc' = pc + 1 /\ OnlyX(X5, hart.draw.f[i])
    BY <1>5, <1>b, <1>n, <1>t, <1>step, InitSlots, RunLi
  <2>2. Typed' /\ UNCHANGED tohost
    BY <1>t, <2>1 DEF Typed, OnlyX
  <2>3. Settled'
    BY <1>5, <1>u, <1>p, <1>n, <1>s, <2>1 DEF Settled, OnlyX
  <2>4. InitCsrs'
    <3>1. ASSUME NEW j \in 1 .. NumCsrs, pc' = 2 * j + 1
          PROVE  x'[X5] = hart.draw.csr[j]
      BY <1>5, <1>p, <1>n, <2>1, <3>1 DEF OnlyX
    <3>2. ASSUME NEW j \in 1 .. NumCsrs, pc' > 2 * j + 1
          PROVE  csr'[Csrs[j]] = hart.draw.csr[j]
      BY <1>5, <1>p, <1>n, <1>i, <2>1, <3>2 DEF InitCsrs, OnlyX
    <3> QED  BY <1>u, <3>1, <3>2 DEF InitCsrs
  <2>5. InitF'
    <3>1. ASSUME hart.target.f, NEW j \in 1 .. NumF, pc' = FpAt + 2 * j
          PROVE  x'[X5] = hart.draw.f[j]
      BY <1>5, <1>p, <1>n, <2>1, <3>1 DEF OnlyX
    <3>2. ASSUME hart.target.f, NEW j \in 1 .. NumF, pc' > FpAt + 2 * j
          PROVE  f'[j] = Loaded(hart.draw.f[j])
      BY <1>5, <1>p, <1>n, <1>i, <2>1, <3>2 DEF InitF, OnlyX
    <3> QED  BY <1>u, <3>1, <3>2 DEF InitF, Loaded
  <2>6. InitX'
    <3>1. ASSUME NEW q \in 1 .. NumX, pc' >= XAt(hart) + q
          PROVE  x'[q] = hart.draw.x[q]
      BY <1>5, <1>p, <1>n, <1>i, <2>1, <3>1 DEF InitX, OnlyX
    <3> QED  BY <1>u, <3>1 DEF InitX
  <2> QED  BY <2>1, <2>2, <2>3, <2>4, <2>5, <2>6 DEF Went, Initialising
<1>fs. ASSUME hart.target.f, pc > FpAt PROVE fs
  BY <1>fs, <1>s DEF Settled
<1>6. ASSUME hart.target.f, NEW i \in 1 .. NumF, pc = FpAt + 2 * i
      PROVE  Went
  <2>1. pc' = pc + 1 /\ OnlyF(i, Loaded(x[X5]))
    <3>1. code[pc] = Instr("fmvfx", i, X5)
      BY <1>6, <1>b, InitSlots
    <3>2. fs
      BY <1>6, <1>p, <1>fs
    <3> QED  BY <1>6, <1>n, <1>t, <1>step, <3>1, <3>2, RunToF
  <2>2. Typed' /\ UNCHANGED tohost
    BY <1>t, <2>1 DEF Typed, OnlyF
  <2>3. Settled'
    BY <1>6, <1>u, <1>p, <1>n, <1>s, <2>1 DEF Settled, OnlyF
  <2>4. InitCsrs'
    <3>1. ASSUME NEW j \in 1 .. NumCsrs, pc' = 2 * j + 1
          PROVE  x'[X5] = hart.draw.csr[j]
      BY <1>6, <1>p, <1>n, <2>1, <3>1 DEF OnlyX
    <3>2. ASSUME NEW j \in 1 .. NumCsrs, pc' > 2 * j + 1
          PROVE  csr'[Csrs[j]] = hart.draw.csr[j]
      BY <1>6, <1>p, <1>n, <1>i, <2>1, <3>2 DEF InitCsrs, OnlyF
    <3> QED  BY <1>u, <3>1, <3>2 DEF InitCsrs
  <2>5. InitF'
    <3>1. ASSUME hart.target.f, NEW j \in 1 .. NumF, pc' = FpAt + 2 * j
          PROVE  x'[X5] = hart.draw.f[j]
      BY <1>6, <1>p, <1>n, <2>1, <3>1 DEF OnlyX
    <3>2. ASSUME hart.target.f, NEW j \in 1 .. NumF, pc' > FpAt + 2 * j
          PROVE  f'[j] = Loaded(hart.draw.f[j])
      <4>1. CASE j = i
        <5>1. x[X5] = hart.draw.f[i]
          BY <1>6, <1>i DEF InitF
        <5>2. f'[i] = Loaded(x[X5])
          BY <2>1 DEF OnlyF
        <5> QED  BY <4>1, <5>1, <5>2
      <4>2. CASE j # i
        <5>1. pc > FpAt + 2 * j
          BY <1>6, <1>p, <2>1, <3>2, <4>2
        <5>2. f[j] = Loaded(hart.draw.f[j])
          BY <1>i, <3>2, <5>1 DEF InitF
        <5>3. f'[j] = f[j]
          BY <2>1, <4>2 DEF OnlyF
        <5> QED  BY <5>2, <5>3
      <4> QED  BY <4>1, <4>2
    <3> QED  BY <1>u, <3>1, <3>2 DEF InitF, Loaded
  <2>6. InitX'
    <3>1. ASSUME NEW q \in 1 .. NumX, pc' >= XAt(hart) + q
          PROVE  x'[q] = hart.draw.x[q]
      BY <1>6, <1>p, <1>n, <1>i, <2>1, <3>1 DEF InitX, OnlyF
    <3> QED  BY <1>u, <3>1 DEF InitX
  <2> QED  BY <2>1, <2>2, <2>3, <2>4, <2>5, <2>6 DEF Went, Initialising
<1>7. ASSUME NEW i \in 1 .. NumX, pc = XAt(hart) + i - 1
      PROVE  Went
  <2>1. pc' = pc + 1 /\ OnlyX(i, hart.draw.x[i])
    BY <1>7, <1>b, <1>n, <1>t, <1>step, InitSlots, RunLi
  <2>2. Typed' /\ UNCHANGED tohost
    BY <1>t, <2>1 DEF Typed, OnlyX
  <2>3. Settled'
    BY <1>7, <1>u, <1>p, <1>n, <1>s, <2>1 DEF Settled, OnlyX
  <2>4. InitCsrs'
    <3>1. ASSUME NEW j \in 1 .. NumCsrs, pc' = 2 * j + 1
          PROVE  x'[X5] = hart.draw.csr[j]
      BY <1>7, <1>p, <1>n, <2>1, <3>1 DEF OnlyX
    <3>2. ASSUME NEW j \in 1 .. NumCsrs, pc' > 2 * j + 1
          PROVE  csr'[Csrs[j]] = hart.draw.csr[j]
      BY <1>7, <1>p, <1>n, <1>i, <2>1, <3>2 DEF InitCsrs, OnlyX
    <3> QED  BY <1>u, <3>1, <3>2 DEF InitCsrs
  <2>5. InitF'
    <3>1. ASSUME hart.target.f, NEW j \in 1 .. NumF, pc' = FpAt + 2 * j
          PROVE  x'[X5] = hart.draw.f[j]
      BY <1>7, <1>p, <1>n, <2>1, <3>1 DEF OnlyX
    <3>2. ASSUME hart.target.f, NEW j \in 1 .. NumF, pc' > FpAt + 2 * j
          PROVE  f'[j] = Loaded(hart.draw.f[j])
      BY <1>7, <1>p, <1>n, <1>i, <2>1, <3>2 DEF InitF, OnlyX
    <3> QED  BY <1>u, <3>1, <3>2 DEF InitF, Loaded
  <2>6. InitX'
    <3>1. ASSUME NEW q \in 1 .. NumX, pc' >= XAt(hart) + q
          PROVE  x'[q] = hart.draw.x[q]
      BY <1>7, <1>p, <1>n, <1>i, <2>1, <3>1 DEF InitX, OnlyX
    <3> QED  BY <1>u, <3>1 DEF InitX
  <2> QED  BY <2>1, <2>2, <2>3, <2>4, <2>5, <2>6 DEF Went, Initialising
<1> QED
  BY InitCases, <1>1, <1>2, <1>3, <1>4, <1>5, <1>6, <1>7

--------------------------------------------------------------------------------
(* The self-check.                                                           *)

\* The exclusive or of equal words only is zero: what the check rests on.
LEMMA XorIsEmpty == \A a, b : Xor(a, b) = {} <=> a = b
<1> SUFFICES ASSUME NEW a, NEW b PROVE Xor(a, b) = {} <=> a = b
  OBVIOUS
<1>1. ASSUME Xor(a, b) = {} PROVE a = b
  <2>1. \A i : i \in a <=> i \in b
    BY <1>1 DEF Xor
  <2> QED  BY <2>1
<1>2. ASSUME a = b PROVE Xor(a, b) = {}
  BY <1>2 DEF Xor
<1> QED  BY <1>1, <1>2

\* The accumulator is zero when all that was or-ed into it is.
LEMMA UnionIsEmpty == \A a, b : a \cup b = {} <=> a = {} /\ b = {}
OBVIOUS

\* sltu leaves 0 or 1, and neg makes it no bit or every bit.
LEMMA Negatives == Negative({}) = {} /\ Negative({0}) = Bits
<1>1. ASSUME NEW i \in Negative({}) PROVE FALSE
  <2>1. (i \in {}) # (\E j \in {} : j < i)
    BY DEF Negative
  <2>2. \A j : ~ j \in {}
    OBVIOUS
  <2>3. (i \in {}) = FALSE
    OBVIOUS
  <2>4. (\E j \in {} : j < i) = FALSE
    BY <2>2, Zenon
  <2> QED  BY <2>1, <2>3, <2>4, Zenon
<1>2. ASSUME NEW i \in Bits PROVE i \in Negative({0})
  <2>1. i \in Int /\ 0 <= i
    BY XlenAssumption DEF Bits
  <2>2. (\E j \in {0} : j < i) <=> 0 < i
    OBVIOUS
  <2>3. CASE i = 0
    <3>1. ~ \E j \in {0} : j < i
      BY <2>2, <2>3
    <3>2. i \in {0}
      BY <2>3
    <3> QED  BY <3>1, <3>2, Zenon DEF Negative
  <2>4. CASE i # 0
    <3>1. \E j \in {0} : j < i
      BY <2>1, <2>2, <2>4
    <3>2. ~ i \in {0}
      BY <2>4
    <3> QED  BY <3>1, <3>2, Zenon DEF Negative
  <2> QED  BY <2>3, <2>4
<1>3. Negative({0}) \subseteq Bits
  BY DEF Negative
<1> QED  BY <1>1, <1>2, <1>3

\* What the check compares, register by register, is all it can see.
LEMMA AllSameIs ==
  ASSUME Over(entry.x, 1 .. NumX), Over(expected.x, 1 .. NumX), hart \in HartType
  PROVE  Seen(entry) = Seen(expected) <=> AllSame(hart, entry, expected)
<1> DEFINE t == hart.target
           a == [i \in 1 .. NumF |-> FpConstant(t, entry.f[i])]
           b == [i \in 1 .. NumF |-> FpConstant(t, expected.f[i])]
           u == IF t.f THEN a ELSE <<>>
           v == IF t.f THEN b ELSE <<>>
<1>1. Seen(entry) = <<entry.x, u>> /\ Seen(expected) = <<expected.x, v>>
  BY DEF Seen
<1>2. Seen(entry) = Seen(expected) <=> entry.x = expected.x /\ u = v
  <2> HIDE DEF u, v
  <2> QED  BY <1>1
<1>3. entry.x = expected.x <=> SameX(entry, expected, NumX)
  BY DEF Over, SameX
<1>4. a = b <=> SameF(hart, entry, expected, NumF)
  <2>1. ASSUME a = b, NEW i \in 1 .. NumF
        PROVE  Const(hart, entry.f[i]) = Const(hart, expected.f[i])
    <3>1. a[i] = b[i]
      BY <2>1
    <3> QED  BY <3>1 DEF Const
  <2>2. ASSUME SameF(hart, entry, expected, NumF) PROVE a = b
    BY <2>2 DEF SameF, Const
  <2> QED  BY <2>1, <2>2 DEF SameF
<1>5. u = v <=> (t.f => SameF(hart, entry, expected, NumF))
  <2> HIDE DEF a, b
  <2> QED  BY <1>4
<1> QED  BY <1>2, <1>3, <1>5 DEF AllSame

\* One more register is compared.
LEMMA SameXGrows ==
  ASSUME NEW e, NEW q, NEW r \in 1 .. NumX
  PROVE  SameX(e, q, r) <=> SameX(e, q, r - 1) /\ e.x[r] = q.x[r]
<1>1. \A i : i \in 1 .. r <=> i \in 1 .. r - 1 \/ i = r
  BY Constants
<1> QED  BY <1>1 DEF SameX

\* One more floating-point register is compared.
LEMMA SameFGrows ==
  ASSUME NEW h, NEW e, NEW q, NEW r \in 1 .. NumF
  PROVE  SameF(h, e, q, r) <=> SameF(h, e, q, r - 1) /\ Const(h, e.f[r]) = Const(h, q.f[r])
<1>1. \A i : i \in 1 .. r <=> i \in 1 .. r - 1 \/ i = r
  BY Constants
<1> QED  BY <1>1 DEF SameF

\* Where the parts of the check start.
CheckPlaces(h) ==
    /\ NumX \in Nat /\ NumX >= 5 /\ NumF \in Nat /\ CheckAt(h) \in Nat
    /\ ClearAt(h) = CheckAt(h) + 3 * (NumX - 1)
    /\ FpCheckAt(h) = ClearAt(h) + 4
    /\ VerdictAt(h) = FpCheckAt(h) + (IF h.target.f THEN 4 * NumF ELSE 0)

\* The places of the check, for the lemmas below.
LEMMA CheckPlacesAre == ASSUME Built PROVE CheckPlaces(hart)
<1>1. NumX \in Nat /\ NumX >= 5 /\ NumF \in Nat /\ CheckAt(hart) \in Nat
  BY PlacesNow
<1>2. /\ ClearAt(hart) = CheckAt(hart) + 3 * (NumX - 1)
      /\ FpCheckAt(hart) = ClearAt(hart) + 4
      /\ VerdictAt(hart) = FpCheckAt(hart) + (IF hart.target.f THEN 4 * NumF ELSE 0)
  BY PlacesLater
<1> QED  BY <1>1, <1>2 DEF CheckPlaces

\* In each part of the check, only what that part says is to be shown.
LEMMA AtEnterX ==
  ASSUME NEW h, CheckPlaces(h), NEW e, NEW q, NEW p, NEW xs, NEW c,
         NEW j \in 0 .. 1, p = CheckAt(h) + 1 + j, Kept(e, xs, c), EnterX(e, q, xs, j)
  PROVE  CheckingAt(h, e, q, p, xs, c)
<1> DEFINE K == CheckAt(h)
<1>0. /\ NumX \in Nat /\ NumX >= 5 /\ NumF \in Nat /\ K \in Nat
      /\ ClearAt(h) = K + 3 * (NumX - 1) /\ FpCheckAt(h) = ClearAt(h) + 4
      /\ VerdictAt(h) = FpCheckAt(h) + (IF h.target.f THEN 4 * NumF ELSE 0)
      /\ p = K + 1 + j
  BY DEF CheckPlaces
<1> HIDE DEF K
<1>1. \A i \in 0 .. 1 : p = K + 1 + i => i = j
  BY <1>0
<1>2. ASSUME NEW r \in 2 .. NumX - 1, NEW i \in 0 .. 2 PROVE p # K + 3 * (r - 1) + i
  BY <1>0
<1>3. \A i \in 0 .. 3 : p # ClearAt(h) + i
  BY <1>0
<1>4. ASSUME NEW r \in 1 .. NumF, NEW i \in 0 .. 3 PROVE p # FpCheckAt(h) + 4 * (r - 1) + i
  BY <1>0
<1>5. \A i \in 0 .. 3 : p # VerdictAt(h) + i
  BY <1>0
<1> QED  BY <1>1, <1>2, <1>3, <1>4, <1>5 DEF CheckingAt, K

LEMMA AtFoldX ==
  ASSUME NEW h, CheckPlaces(h), NEW e, NEW q, NEW p, NEW xs, NEW c,
         NEW r \in 2 .. NumX - 1, NEW j \in 0 .. 2, p = CheckAt(h) + 3 * (r - 1) + j,
         Kept(e, xs, c), FoldX(e, q, xs, r, j)
  PROVE  CheckingAt(h, e, q, p, xs, c)
<1> DEFINE K == CheckAt(h)
<1>0. /\ NumX \in Nat /\ NumX >= 5 /\ NumF \in Nat /\ K \in Nat
      /\ ClearAt(h) = K + 3 * (NumX - 1) /\ FpCheckAt(h) = ClearAt(h) + 4
      /\ VerdictAt(h) = FpCheckAt(h) + (IF h.target.f THEN 4 * NumF ELSE 0)
      /\ p = K + 3 * (r - 1) + j
  BY DEF CheckPlaces
<1> HIDE DEF K
<1>1. \A i \in 0 .. 1 : p # K + 1 + i
  BY <1>0
<1>2. ASSUME NEW s \in 2 .. NumX - 1, NEW i \in 0 .. 2, p = K + 3 * (s - 1) + i
      PROVE  s = r /\ i = j
  BY <1>0, <1>2
<1>3. \A i \in 0 .. 3 : p # ClearAt(h) + i
  BY <1>0
<1>4. ASSUME NEW s \in 1 .. NumF, NEW i \in 0 .. 3 PROVE p # FpCheckAt(h) + 4 * (s - 1) + i
  BY <1>0
<1>5. \A i \in 0 .. 3 : p # VerdictAt(h) + i
  BY <1>0
<1> QED  BY <1>1, <1>2, <1>3, <1>4, <1>5 DEF CheckingAt, K

LEMMA AtFoldTmp ==
  ASSUME NEW h, CheckPlaces(h), NEW e, NEW q, NEW p, NEW xs, NEW c,
         NEW j \in 0 .. 3, p = ClearAt(h) + j, j = 0 => Kept(e, xs, c), FoldTmp(e, q, xs, j)
  PROVE  CheckingAt(h, e, q, p, xs, c)
<1> DEFINE K == CheckAt(h)
<1>0. /\ NumX \in Nat /\ NumX >= 5 /\ NumF \in Nat /\ K \in Nat
      /\ ClearAt(h) = K + 3 * (NumX - 1) /\ FpCheckAt(h) = ClearAt(h) + 4
      /\ VerdictAt(h) = FpCheckAt(h) + (IF h.target.f THEN 4 * NumF ELSE 0)
      /\ p = ClearAt(h) + j
  BY DEF CheckPlaces
<1> HIDE DEF K
<1>1. \A i \in 0 .. 1 : p # K + 1 + i
  BY <1>0
<1>2. ASSUME NEW s \in 2 .. NumX - 1, NEW i \in 0 .. 2 PROVE p # K + 3 * (s - 1) + i
  BY <1>0
<1>3. \A i \in 0 .. 3 : p = ClearAt(h) + i => i = j
  BY <1>0
<1>4. ASSUME NEW s \in 1 .. NumF, NEW i \in 0 .. 3 PROVE p # FpCheckAt(h) + 4 * (s - 1) + i
  BY <1>0
<1>5. \A i \in 0 .. 3 : p # VerdictAt(h) + i
  BY <1>0
<1>6. p <= ClearAt(h) => j = 0
  BY <1>0
<1> QED  BY <1>1, <1>2, <1>3, <1>4, <1>5, <1>6 DEF CheckingAt, K

LEMMA AtFoldF ==
  ASSUME NEW h, CheckPlaces(h), NEW e, NEW q, NEW p, NEW xs, NEW c, h.target.f,
         NEW r \in 1 .. NumF, NEW j \in 0 .. 3, p = FpCheckAt(h) + 4 * (r - 1) + j,
         FoldF(h, e, q, xs, r, j)
  PROVE  CheckingAt(h, e, q, p, xs, c)
<1> DEFINE K == CheckAt(h)
<1>0. /\ NumX \in Nat /\ NumX >= 5 /\ NumF \in Nat /\ K \in Nat
      /\ ClearAt(h) = K + 3 * (NumX - 1) /\ FpCheckAt(h) = ClearAt(h) + 4
      /\ VerdictAt(h) = FpCheckAt(h) + 4 * NumF
      /\ p = FpCheckAt(h) + 4 * (r - 1) + j
  BY DEF CheckPlaces
<1> HIDE DEF K
<1>1. \A i \in 0 .. 1 : p # K + 1 + i
  BY <1>0
<1>2. ASSUME NEW s \in 2 .. NumX - 1, NEW i \in 0 .. 2 PROVE p # K + 3 * (s - 1) + i
  BY <1>0
<1>3. \A i \in 0 .. 3 : p # ClearAt(h) + i
  BY <1>0
<1>4. ASSUME NEW s \in 1 .. NumF, NEW i \in 0 .. 3, p = FpCheckAt(h) + 4 * (s - 1) + i
      PROVE  s = r /\ i = j
  BY <1>0, <1>4
<1>5. \A i \in 0 .. 3 : p # VerdictAt(h) + i
  BY <1>0
<1>6. ~ p <= ClearAt(h)
  BY <1>0
<1> QED  BY <1>1, <1>2, <1>3, <1>4, <1>5, <1>6 DEF CheckingAt, K

LEMMA AtJudge ==
  ASSUME NEW h, CheckPlaces(h), NEW e, NEW q, NEW p, NEW xs, NEW c,
         NEW j \in 0 .. 3, p = VerdictAt(h) + j, Judge(h, e, q, xs, j)
  PROVE  CheckingAt(h, e, q, p, xs, c)
<1> DEFINE K == CheckAt(h)
<1>0. /\ NumX \in Nat /\ NumX >= 5 /\ NumF \in Nat /\ K \in Nat
      /\ ClearAt(h) = K + 3 * (NumX - 1) /\ FpCheckAt(h) = ClearAt(h) + 4
      /\ VerdictAt(h) = FpCheckAt(h) + (IF h.target.f THEN 4 * NumF ELSE 0)
      /\ p = VerdictAt(h) + j
  BY DEF CheckPlaces
<1> HIDE DEF K
<1>1. \A i \in 0 .. 1 : p # K + 1 + i
  BY <1>0
<1>2. ASSUME NEW s \in 2 .. NumX - 1, NEW i \in 0 .. 2 PROVE p # K + 3 * (s - 1) + i
  BY <1>0
<1>3. \A i \in 0 .. 3 : p # ClearAt(h) + i
  BY <1>0
<1>4. ASSUME h.target.f, NEW s \in 1 .. NumF, NEW i \in 0 .. 3
      PROVE  p # FpCheckAt(h) + 4 * (s - 1) + i
  BY <1>0, <1>4
<1>5. \A i \in 0 .. 3 : p = VerdictAt(h) + i => i = j
  BY <1>0
<1>6. ~ p <= ClearAt(h)
  BY <1>0
<1> QED  BY <1>1, <1>2, <1>3, <1>4, <1>5, <1>6 DEF CheckingAt, K

Checked ==
    /\ pc' = pc + 1 /\ Typed' /\ UNCHANGED <<tohost, fs>>
    /\ csr'["mtvec"] = csr["mtvec"]
    /\ Checking'

\* The slots of the check are the ones CheckSlots names.
LEMMA CheckCases ==
  ASSUME Built, hart.target.selfCheck, pc \in CheckAt(hart) + 1 .. ExitAt(hart) - 1
  PROVE  \/ pc = CheckAt(hart) + 1 \/ pc = CheckAt(hart) + 2
         \/ \E r \in 2 .. NumX - 1 :
               \/ pc = CheckAt(hart) + 3 * (r - 1) \/ pc = CheckAt(hart) + 3 * (r - 1) + 1
               \/ pc = CheckAt(hart) + 3 * (r - 1) + 2
         \/ pc = ClearAt(hart) \/ pc = ClearAt(hart) + 1
         \/ pc = ClearAt(hart) + 2 \/ pc = ClearAt(hart) + 3
         \/ hart.target.f /\ \E i \in 1 .. NumF :
               \/ pc = FpCheckAt(hart) + 4 * (i - 1) \/ pc = FpCheckAt(hart) + 4 * (i - 1) + 1
               \/ pc = FpCheckAt(hart) + 4 * (i - 1) + 2
               \/ pc = FpCheckAt(hart) + 4 * (i - 1) + 3
         \/ pc = VerdictAt(hart) \/ pc = VerdictAt(hart) + 1 \/ pc = VerdictAt(hart) + 2
<1> DEFINE t == hart.target.f
           k == CheckAt(hart)
           c == ClearAt(hart)
           g == FpCheckAt(hart)
           v == VerdictAt(hart)
<1>1. /\ NumX \in Nat /\ NumX >= 5 /\ NumF \in Nat /\ k \in Nat
      /\ c = k + 3 * (NumX - 1) /\ g = c + 4 /\ v = g + (IF t THEN 4 * NumF ELSE 0)
  BY PlacesNow, PlacesLater
<1>2. pc \in k + 1 .. v + 2
  <2> DEFINE w == ExitAt(hart)
  <2>1. w = v + 3
    BY PlacesLater
  <2>2. pc \in k + 1 .. w - 1
    OBVIOUS
  <2> HIDE DEF t, k, c, g, v, w
  <2> QED  BY <1>1, <2>1, <2>2
<1> HIDE DEF t, k, c, g, v
<1>3. CASE pc \in k + 3 .. c - 1
  <2> DEFINE r == (pc - k) \div 3 + 1
  <2>1. r \in 2 .. NumX - 1
    BY <1>1, <1>3
  <2>2. pc = k + 3 * (r - 1) \/ pc = k + 3 * (r - 1) + 1 \/ pc = k + 3 * (r - 1) + 2
    BY <1>1, <1>3
  <2> HIDE DEF r
  <2> QED  BY <2>1, <2>2 DEF k
<1>4. CASE pc \in g .. v - 1
  <2>0. t
    BY <1>1, <1>4
  <2> DEFINE i == (pc - g) \div 4 + 1
  <2>1. i \in 1 .. NumF
    BY <1>1, <1>4, <2>0
  <2>2. \/ pc = g + 4 * (i - 1) \/ pc = g + 4 * (i - 1) + 1
        \/ pc = g + 4 * (i - 1) + 2 \/ pc = g + 4 * (i - 1) + 3
    BY <1>1, <1>4
  <2> HIDE DEF i
  <2> QED  BY <2>0, <2>1, <2>2 DEF g, t
<1>5. CASE pc \in k + 1 .. k + 2
  BY <1>1, <1>5 DEF k
<1>6. CASE pc \in c .. c + 3
  BY <1>1, <1>6 DEF c
<1>7. CASE pc \in v .. v + 2
  BY <1>1, <1>7 DEF v
<1>8. \/ pc \in k + 1 .. k + 2 \/ pc \in k + 3 .. c - 1 \/ pc \in c .. c + 3
      \/ pc \in g .. v - 1 \/ pc \in v .. v + 2
  BY <1>1, <1>2
<1> QED  BY <1>3, <1>4, <1>5, <1>6, <1>7, <1>8


\* What each part of the check finds.
LEMMA OfEnterX ==
  ASSUME NEW h, CheckPlaces(h), NEW e, NEW q, NEW p, NEW xs, NEW c,
         CheckingAt(h, e, q, p, xs, c), NEW j \in 0 .. 1, p = CheckAt(h) + 1 + j
  PROVE  Kept(e, xs, c) /\ EnterX(e, q, xs, j)
<1>1. p <= ClearAt(h)
  <2> DEFINE k == CheckAt(h)
  <2>1. k \in Nat /\ NumX \in Nat /\ NumX >= 5 /\ ClearAt(h) = k + 3 * (NumX - 1)
        /\ p = k + 1 + j
    BY DEF CheckPlaces
  <2> HIDE DEF k
  <2> QED  BY <2>1
<1> QED  BY <1>1 DEF CheckingAt

LEMMA OfFoldX ==
  ASSUME NEW h, CheckPlaces(h), NEW e, NEW q, NEW p, NEW xs, NEW c,
         CheckingAt(h, e, q, p, xs, c), NEW r \in 2 .. NumX - 1, NEW j \in 0 .. 2,
         p = CheckAt(h) + 3 * (r - 1) + j
  PROVE  Kept(e, xs, c) /\ FoldX(e, q, xs, r, j)
<1>1. p <= ClearAt(h)
  <2> DEFINE k == CheckAt(h)
  <2>1. k \in Nat /\ NumX \in Nat /\ NumX >= 5 /\ ClearAt(h) = k + 3 * (NumX - 1)
        /\ p = k + 3 * (r - 1) + j
    BY DEF CheckPlaces
  <2> HIDE DEF k
  <2> QED  BY <2>1
<1> QED  BY <1>1 DEF CheckingAt

LEMMA OfFoldTmp ==
  ASSUME NEW h, CheckPlaces(h), NEW e, NEW q, NEW p, NEW xs, NEW c,
         CheckingAt(h, e, q, p, xs, c), NEW j \in 0 .. 3, p = ClearAt(h) + j
  PROVE  FoldTmp(e, q, xs, j) /\ (j = 0 => Kept(e, xs, c))
<1>1. j = 0 => p <= ClearAt(h)
  <2>1. ClearAt(h) \in Int
    BY DEF CheckPlaces
  <2> QED  BY <2>1
<1> QED  BY <1>1 DEF CheckingAt

LEMMA OfFoldF ==
  ASSUME NEW h, h.target.f, NEW e, NEW q, NEW p, NEW xs, NEW c,
         CheckingAt(h, e, q, p, xs, c), NEW r \in 1 .. NumF, NEW j \in 0 .. 3,
         p = FpCheckAt(h) + 4 * (r - 1) + j
  PROVE  FoldF(h, e, q, xs, r, j)
BY DEF CheckingAt

LEMMA OfJudge ==
  ASSUME NEW h, NEW e, NEW q, NEW p, NEW xs, NEW c, CheckingAt(h, e, q, p, xs, c),
         NEW j \in 0 .. 3, p = VerdictAt(h) + j
  PROVE  Judge(h, e, q, xs, j)
BY DEF CheckingAt

\* A slot that writes one register.
LEMMA CheckedX ==
  ASSUME Typed, Checking, UNCHANGED <<hart, expected, entry>>, pc' = pc + 1,
         NEW r \in 1 .. NumX, NEW v, OnlyX(r, v),
         CheckingAt(hart, entry, expected, pc', x', csr)
  PROVE  Checked
<1>1. f' = f /\ csr' = csr /\ Over(x', 1 .. NumX) /\ UNCHANGED <<tohost, fs>>
  BY DEF OnlyX
<1>2. Typed'
  BY <1>1 DEF Typed
<1>3. hart' = hart /\ expected' = expected /\ entry' = entry
  OBVIOUS
<1>4. Checking'
  BY <1>1, <1>3 DEF Checking
<1> QED  BY <1>1, <1>2, <1>4 DEF Checked

\* A slot of the check leaves what the next one needs.
LEMMA CheckStep ==
  ASSUME Built, Typed, Over(expected.x, 1 .. NumX), hart.target.selfCheck, Checking,
         hart.target.f => fs, pc \in CheckAt(hart) + 1 .. ExitAt(hart) - 1,
         Step, UNCHANGED <<hart, code, expected, entry>>
  PROVE  Checked
<1>b. Built /\ Step /\ hart.target.selfCheck
  OBVIOUS
<1>u. UNCHANGED <<hart, expected, entry>> /\ hart' = hart /\ expected' = expected /\ entry' = entry
  OBVIOUS
<1>t. Typed /\ Over(x, 1 .. NumX) /\ Over(f, 1 .. NumF) /\ Over(csr, CsrNames)
  BY DEF Typed
<1>e. CheckPlaces(hart)
  BY CheckPlacesAre
<1>c. Checking /\ f = entry.f /\ CheckingAt(hart, entry, expected, pc, x, csr)
  BY DEF Checking
<1>k. /\ NumX \in Nat /\ NumX >= 5 /\ NumF \in Nat /\ X5 \in 3 .. NumX - 1
      /\ X1 = 1 /\ X2 = 2 /\ ACC = 1 /\ TMP = NumX
  BY Constants DEF X1, X2, ACC, TMP
<1>r. {X1, X2, X5, ACC, TMP} \subseteq 1 .. NumX /\ ACC # TMP /\ ACC # X2 /\ X2 # TMP /\ X5 # ACC
  BY <1>k
<1>p. /\ CheckAt(hart) \in Nat /\ ClearAt(hart) = CheckAt(hart) + 3 * (NumX - 1)
      /\ FpCheckAt(hart) = ClearAt(hart) + 4
      /\ VerdictAt(hart) = FpCheckAt(hart) + (IF hart.target.f THEN 4 * NumF ELSE 0)
  BY <1>e DEF CheckPlaces
<1>n. pc \in Nat \ {0}
  BY <1>p, PlacesLater
<1>1. ASSUME pc = CheckAt(hart) + 1
      PROVE  Checked
  <2>1. pc' = pc + 1 /\ OnlyX(TMP, expected.x[X1])
    BY <1>1, <1>b, <1>n, <1>t, <1>r, CheckSlots, RunLi
  <2>2. pc = CheckAt(hart) + 1 + 0
    BY <1>1, <1>n, <1>k, <1>p
  <2>3. Kept(entry, x, csr) /\ EnterX(entry, expected, x, 0)
    BY <1>1, <1>e, <1>c, <2>2, OfEnterX
  <2>5. Kept(entry, x', csr)
    BY <1>k, <2>1, <2>3 DEF Kept, OnlyX
  <2>6. EnterX(entry, expected, x', 1)
    BY <1>r, <2>1, <2>3 DEF EnterX, OnlyX
  <2>8. pc' = CheckAt(hart) + 1 + 1
    BY <1>1, <1>n, <1>k, <1>p, <2>1
  <2>9. CheckingAt(hart, entry, expected, pc', x', csr)
    BY <1>1, <1>e, <1>k, <2>5, <2>6, <2>8, AtEnterX
  <2> QED  BY <1>t, <1>c, <1>u, <1>r, <2>1, <2>9, CheckedX
<1>2. ASSUME pc = CheckAt(hart) + 2
      PROVE  Checked
  <2>1. pc' = pc + 1 /\ OnlyX(ACC, Xor(x[ACC], x[TMP]))
    BY <1>2, <1>b, <1>n, <1>t, <1>r, CheckSlots, RunXor
  <2>2. pc = CheckAt(hart) + 1 + 1
    BY <1>2, <1>n, <1>k, <1>p
  <2>3. Kept(entry, x, csr) /\ EnterX(entry, expected, x, 1)
    BY <1>2, <1>e, <1>c, <2>2, OfEnterX
  <2>5. Kept(entry, x', csr)
    BY <1>k, <2>1, <2>3 DEF Kept, OnlyX
  <2>4. x'[ACC] = Xor(entry.x[1], expected.x[1])
    BY <1>k, <2>1, <2>3 DEF EnterX, OnlyX
  <2>a. SameX(entry, expected, 2 - 1) <=> entry.x[1] = expected.x[1]
    BY DEF SameX
  <2>6. FoldX(entry, expected, x', 2, 0)
    BY <2>4, <2>a, XorIsEmpty DEF FoldX
  <2>8. pc' = CheckAt(hart) + 3 * (2 - 1) + 0
    BY <1>2, <1>n, <1>k, <1>p, <2>1
  <2>9. CheckingAt(hart, entry, expected, pc', x', csr)
    BY <1>2, <1>e, <1>k, <2>5, <2>6, <2>8, AtFoldX
  <2> QED  BY <1>t, <1>c, <1>u, <1>r, <2>1, <2>9, CheckedX
<1>3. ASSUME NEW r \in 2 .. NumX - 1, pc = CheckAt(hart) + 3 * (r - 1)
      PROVE  Checked
  <2>1. pc' = pc + 1 /\ OnlyX(TMP, expected.x[r])
    BY <1>3, <1>b, <1>n, <1>t, <1>r, CheckSlots, RunLi
  <2>2. pc = CheckAt(hart) + 3 * (r - 1) + 0
    BY <1>3, <1>n, <1>k, <1>p
  <2>3. Kept(entry, x, csr) /\ FoldX(entry, expected, x, r, 0)
    BY <1>3, <1>e, <1>c, <2>2, OfFoldX
  <2>5. Kept(entry, x', csr)
    BY <1>k, <2>1, <2>3 DEF Kept, OnlyX
  <2>6. FoldX(entry, expected, x', r, 1)
    BY <1>r, <2>1, <2>3 DEF FoldX, OnlyX
  <2>8. pc' = CheckAt(hart) + 3 * (r - 1) + 1
    BY <1>3, <1>n, <1>k, <1>p, <2>1
  <2>9. CheckingAt(hart, entry, expected, pc', x', csr)
    BY <1>3, <1>e, <1>k, <2>5, <2>6, <2>8, AtFoldX, SMTT(30)
  <2> QED  BY <1>t, <1>c, <1>u, <1>r, <2>1, <2>9, CheckedX
<1>4. ASSUME NEW r \in 2 .. NumX - 1, pc = CheckAt(hart) + 3 * (r - 1) + 1
      PROVE  Checked
  <2>1. pc' = pc + 1 /\ OnlyX(TMP, Xor(x[TMP], x[r]))
    BY <1>4, <1>b, <1>n, <1>t, <1>r, CheckSlots, RunXor
  <2>2. pc = CheckAt(hart) + 3 * (r - 1) + 1
    BY <1>4, <1>n, <1>k, <1>p
  <2>3. Kept(entry, x, csr) /\ FoldX(entry, expected, x, r, 1)
    BY <1>4, <1>e, <1>c, <2>2, OfFoldX
  <2>5. Kept(entry, x', csr)
    BY <1>k, <2>1, <2>3 DEF Kept, OnlyX
  <2>4. x[r] = entry.x[r]
    BY <2>3 DEF Kept
  <2>6. FoldX(entry, expected, x', r, 2)
    BY <1>r, <2>1, <2>3, <2>4 DEF FoldX, OnlyX
  <2>8. pc' = CheckAt(hart) + 3 * (r - 1) + 2
    BY <1>4, <1>n, <1>k, <1>p, <2>1
  <2>9. CheckingAt(hart, entry, expected, pc', x', csr)
    BY <1>4, <1>e, <1>k, <2>5, <2>6, <2>8, AtFoldX
  <2> QED  BY <1>t, <1>c, <1>u, <1>r, <2>1, <2>9, CheckedX
<1>5. ASSUME NEW r \in 2 .. NumX - 1, pc = CheckAt(hart) + 3 * (r - 1) + 2
      PROVE  Checked
  <2>1. pc' = pc + 1 /\ OnlyX(ACC, x[ACC] \cup x[TMP])
    BY <1>5, <1>b, <1>n, <1>t, <1>r, CheckSlots, RunOr
  <2>3. Kept(entry, x, csr) /\ FoldX(entry, expected, x, r, 2)
    BY <1>5, <1>e, <1>c, OfFoldX
  <2>4. Kept(entry, x', csr)
    BY <1>k, <2>1, <2>3 DEF Kept, OnlyX
  <2>5. x'[ACC] = {} <=> SameX(entry, expected, r)
    <3>1. x'[ACC] = x[ACC] \cup Xor(expected.x[r], entry.x[r])
      BY <2>1, <2>3 DEF FoldX, OnlyX
    <3>2. x[ACC] = {} <=> SameX(entry, expected, r - 1)
      BY <2>3 DEF FoldX
    <3>3. r \in 1 .. NumX
      BY <1>k
    <3> QED  BY <3>1, <3>2, <3>3, XorIsEmpty, UnionIsEmpty, SameXGrows
  <2>6. CASE r < NumX - 1
    <3>1. r + 1 \in 2 .. NumX - 1 /\ pc' = CheckAt(hart) + 3 * ((r + 1) - 1) + 0 /\ (r + 1) - 1 = r
      BY <1>5, <1>n, <1>k, <1>p, <2>1, <2>6
    <3>2. FoldX(entry, expected, x', r + 1, 0)
      BY <2>5, <3>1 DEF FoldX
    <3>3. CheckingAt(hart, entry, expected, pc', x', csr)
      BY <1>e, <2>4, <3>1, <3>2, AtFoldX
    <3> QED  BY <1>t, <1>c, <1>u, <1>r, <2>1, <3>3, CheckedX
  <2>7. CASE r = NumX - 1
    <3>1. pc' = ClearAt(hart) + 0
      BY <1>5, <1>n, <1>k, <1>p, <2>1, <2>7
    <3>2. FoldTmp(entry, expected, x', 0)
      BY <2>5, <2>7 DEF FoldTmp
    <3>3. CheckingAt(hart, entry, expected, pc', x', csr)
      BY <1>e, <2>4, <3>1, <3>2, AtFoldTmp
    <3> QED  BY <1>t, <1>c, <1>u, <1>r, <2>1, <3>3, CheckedX
  <2>8. r < NumX - 1 \/ r = NumX - 1
    BY <1>k
  <2> QED  BY <2>6, <2>7, <2>8
<1>6. ASSUME pc = ClearAt(hart)
      PROVE  Checked
  <2>s. MSCRATCH \in CsrNames /\ MSCRATCH # "mtvec" /\ "mtvec" \in CsrNames
    BY CsrsAre
  <2>0. code[pc] = SwapZero(TMP, MSCRATCH)
    BY <1>6, <1>b, CheckSlots
  <2>1. /\ pc' = pc + 1 /\ x'[TMP] = csr[MSCRATCH] /\ Over(x', 1 .. NumX)
        /\ \A q \in 1 .. NumX : q # TMP => x'[q] = x[q]
        /\ Over(csr', CsrNames) /\ \A q \in CsrNames : q # MSCRATCH => csr'[q] = csr[q]
        /\ UNCHANGED <<f, fs, tohost>>
    BY <1>b, <1>n, <1>t, <1>r, <2>s, <2>0, RunSwap
  <2>2. pc = ClearAt(hart) + 0 /\ pc' = ClearAt(hart) + 1
    BY <1>6, <1>k, <1>p, <2>1
  <2>3. FoldTmp(entry, expected, x, 0) /\ Kept(entry, x, csr)
    <3>1. FoldTmp(entry, expected, x, 0) /\ (0 = 0 => Kept(entry, x, csr))
      BY <1>e, <1>c, <2>2, OfFoldTmp
    <3> QED  BY <3>1
  <2>4. FoldTmp(entry, expected, x', 1)
    BY <1>r, <2>1, <2>3 DEF FoldTmp, Kept
  <2>5. CheckingAt(hart, entry, expected, pc', x', csr')
    BY <1>e, <2>2, <2>4, AtFoldTmp
  <2>6. Checking'
    BY <1>u, <1>c, <2>1, <2>5 DEF Checking
  <2>7. Typed' /\ csr'["mtvec"] = csr["mtvec"]
    BY <1>t, <2>1, <2>s DEF Typed
  <2> QED  BY <2>1, <2>6, <2>7 DEF Checked
<1>7. ASSUME pc = ClearAt(hart) + 1
      PROVE  Checked
  <2>1. pc' = pc + 1 /\ OnlyX(X2, expected.x[TMP])
    BY <1>7, <1>b, <1>n, <1>t, <1>r, CheckSlots, RunLi
  <2>2. pc = ClearAt(hart) + 1
    BY <1>7, <1>n, <1>k, <1>p
  <2>3. FoldTmp(entry, expected, x, 1)
    BY <1>7, <1>e, <1>c, <2>2, OfFoldTmp
  <2>5. 2 = 0 => Kept(entry, x', csr)
    OBVIOUS
  <2>6. FoldTmp(entry, expected, x', 2)
    BY <1>r, <2>1, <2>3 DEF FoldTmp, OnlyX
  <2>8. pc' = ClearAt(hart) + 2
    BY <1>7, <1>n, <1>k, <1>p, <2>1
  <2>9. CheckingAt(hart, entry, expected, pc', x', csr)
    BY <1>7, <1>e, <1>k, <2>5, <2>6, <2>8, AtFoldTmp
  <2> QED  BY <1>t, <1>c, <1>u, <1>r, <2>1, <2>9, CheckedX
<1>8. ASSUME pc = ClearAt(hart) + 2
      PROVE  Checked
  <2>1. pc' = pc + 1 /\ OnlyX(X2, Xor(x[X2], x[TMP]))
    BY <1>8, <1>b, <1>n, <1>t, <1>r, CheckSlots, RunXor
  <2>2. pc = ClearAt(hart) + 2
    BY <1>8, <1>n, <1>k, <1>p
  <2>3. FoldTmp(entry, expected, x, 2)
    BY <1>8, <1>e, <1>c, <2>2, OfFoldTmp
  <2>5. 3 = 0 => Kept(entry, x', csr)
    OBVIOUS
  <2>6. FoldTmp(entry, expected, x', 3)
    BY <1>r, <2>1, <2>3 DEF FoldTmp, OnlyX
  <2>8. pc' = ClearAt(hart) + 3
    BY <1>8, <1>n, <1>k, <1>p, <2>1
  <2>9. CheckingAt(hart, entry, expected, pc', x', csr)
    BY <1>8, <1>e, <1>k, <2>5, <2>6, <2>8, AtFoldTmp
  <2> QED  BY <1>t, <1>c, <1>u, <1>r, <2>1, <2>9, CheckedX
<1>9. ASSUME pc = ClearAt(hart) + 3
      PROVE  Checked
  <2>1. pc' = pc + 1 /\ OnlyX(ACC, x[ACC] \cup x[X2])
    BY <1>9, <1>b, <1>n, <1>t, <1>r, CheckSlots, RunOr
  <2>3. FoldTmp(entry, expected, x, 3)
    BY <1>9, <1>e, <1>c, OfFoldTmp
  <2>4. x'[ACC] = {} <=> SameX(entry, expected, NumX)
    <3>1. x'[ACC] = x[ACC] \cup Xor(expected.x[NumX], entry.x[NumX])
      BY <1>k, <2>1, <2>3 DEF FoldTmp, OnlyX
    <3>2. x[ACC] = {} <=> SameX(entry, expected, NumX - 1)
      BY <2>3 DEF FoldTmp
    <3>3. NumX \in 1 .. NumX
      BY <1>k
    <3> QED  BY <3>1, <3>2, <3>3, XorIsEmpty, UnionIsEmpty, SameXGrows, SMTT(30)
  <2>5. CASE hart.target.f /\ NumF >= 1
    <3>1. 1 \in 1 .. NumF /\ pc' = FpCheckAt(hart) + 4 * (1 - 1) + 0
      BY <1>9, <1>n, <1>k, <1>p, <2>1, <2>5
    <3>2. SameF(hart, entry, expected, 1 - 1)
      BY DEF SameF
    <3>3. FoldF(hart, entry, expected, x', 1, 0)
      BY <2>4, <3>2 DEF FoldF
    <3>4. CheckingAt(hart, entry, expected, pc', x', csr)
      BY <1>e, <2>5, <3>1, <3>3, AtFoldF
    <3> QED  BY <1>t, <1>c, <1>u, <1>r, <2>1, <3>4, CheckedX
  <2>6. CASE ~ (hart.target.f /\ NumF >= 1)
    <3>1. pc' = VerdictAt(hart) + 0
      BY <1>9, <1>n, <1>k, <1>p, <2>1, <2>6
    <3>2. hart.target.f => NumF = 0
      BY <1>k, <2>6
    <3>3. hart.target.f => SameF(hart, entry, expected, NumF)
      BY <3>2 DEF SameF
    <3>4. AllSame(hart, entry, expected) <=> SameX(entry, expected, NumX)
      BY <3>3 DEF AllSame
    <3>5. Judge(hart, entry, expected, x', 0)
      BY <2>4, <3>4 DEF Judge
    <3>6. CheckingAt(hart, entry, expected, pc', x', csr)
      BY <1>e, <3>1, <3>5, AtJudge
    <3> QED  BY <1>t, <1>c, <1>u, <1>r, <2>1, <3>6, CheckedX
  <2> QED  BY <2>5, <2>6
<1>10. ASSUME hart.target.f, NEW i \in 1 .. NumF, pc = FpCheckAt(hart) + 4 * (i - 1)
      PROVE  Checked
  <2>1. pc' = pc + 1 /\ OnlyX(TMP, Const(hart, f[i]))
    BY <1>10, <1>b, <1>n, <1>t, <1>r, CheckSlots, RunFromF
  <2>2. pc = FpCheckAt(hart) + 4 * (i - 1) + 0
    BY <1>10, <1>n, <1>k, <1>p
  <2>3. FoldF(hart, entry, expected, x, i, 0)
    BY <1>10, <1>e, <1>c, <2>2, OfFoldF
  <2>6. FoldF(hart, entry, expected, x', i, 1)
    BY <1>c, <1>r, <2>1, <2>3 DEF FoldF, OnlyX
  <2>8. pc' = FpCheckAt(hart) + 4 * (i - 1) + 1
    BY <1>10, <1>n, <1>k, <1>p, <2>1
  <2>9. CheckingAt(hart, entry, expected, pc', x', csr)
    BY <1>10, <1>e, <1>k, <2>6, <2>8, AtFoldF
  <2> QED  BY <1>t, <1>c, <1>u, <1>r, <2>1, <2>9, CheckedX
<1>11. ASSUME hart.target.f, NEW i \in 1 .. NumF, pc = FpCheckAt(hart) + 4 * (i - 1) + 1
      PROVE  Checked
  <2>1. pc' = pc + 1 /\ OnlyX(X2, Const(hart, expected.f[i]))
    BY <1>11, <1>b, <1>n, <1>t, <1>r, CheckSlots, RunLi
  <2>2. pc = FpCheckAt(hart) + 4 * (i - 1) + 1
    BY <1>11, <1>n, <1>k, <1>p
  <2>3. FoldF(hart, entry, expected, x, i, 1)
    BY <1>11, <1>e, <1>c, <2>2, OfFoldF
  <2>6. FoldF(hart, entry, expected, x', i, 2)
    BY <1>r, <2>1, <2>3 DEF FoldF, OnlyX
  <2>8. pc' = FpCheckAt(hart) + 4 * (i - 1) + 2
    BY <1>11, <1>n, <1>k, <1>p, <2>1
  <2>9. CheckingAt(hart, entry, expected, pc', x', csr)
    BY <1>11, <1>e, <1>k, <2>6, <2>8, AtFoldF
  <2> QED  BY <1>t, <1>c, <1>u, <1>r, <2>1, <2>9, CheckedX
<1>12. ASSUME hart.target.f, NEW i \in 1 .. NumF, pc = FpCheckAt(hart) + 4 * (i - 1) + 2
      PROVE  Checked
  <2>1. pc' = pc + 1 /\ OnlyX(X2, Xor(x[X2], x[TMP]))
    BY <1>12, <1>b, <1>n, <1>t, <1>r, CheckSlots, RunXor
  <2>2. pc = FpCheckAt(hart) + 4 * (i - 1) + 2
    BY <1>12, <1>n, <1>k, <1>p
  <2>3. FoldF(hart, entry, expected, x, i, 2)
    BY <1>12, <1>e, <1>c, <2>2, OfFoldF
  <2>6. FoldF(hart, entry, expected, x', i, 3)
    BY <1>r, <2>1, <2>3 DEF FoldF, OnlyX
  <2>8. pc' = FpCheckAt(hart) + 4 * (i - 1) + 3
    BY <1>12, <1>n, <1>k, <1>p, <2>1
  <2>9. CheckingAt(hart, entry, expected, pc', x', csr)
    BY <1>12, <1>e, <1>k, <2>6, <2>8, AtFoldF
  <2> QED  BY <1>t, <1>c, <1>u, <1>r, <2>1, <2>9, CheckedX
<1>13. ASSUME hart.target.f, NEW i \in 1 .. NumF, pc = FpCheckAt(hart) + 4 * (i - 1) + 3
      PROVE  Checked
  <2>1. pc' = pc + 1 /\ OnlyX(ACC, x[ACC] \cup x[X2])
    BY <1>13, <1>b, <1>n, <1>t, <1>r, CheckSlots, RunOr
  <2>3. FoldF(hart, entry, expected, x, i, 3)
    BY <1>13, <1>c, OfFoldF
  <2>4. x'[ACC] = {} <=> SameX(entry, expected, NumX) /\ SameF(hart, entry, expected, i)
    <3>1. x'[ACC] = x[ACC] \cup Xor(Const(hart, expected.f[i]), Const(hart, entry.f[i]))
      BY <2>1, <2>3 DEF FoldF, OnlyX
    <3>2. x[ACC] = {} <=> SameX(entry, expected, NumX) /\ SameF(hart, entry, expected, i - 1)
      BY <2>3 DEF FoldF
    <3>3. SameF(hart, entry, expected, i) <=>
             SameF(hart, entry, expected, i - 1)
             /\ Const(hart, entry.f[i]) = Const(hart, expected.f[i])
      BY <1>13, SameFGrows
    <3> QED  BY <3>1, <3>2, <3>3, XorIsEmpty, UnionIsEmpty
  <2>5. CASE i < NumF
    <3>1. i + 1 \in 1 .. NumF /\ pc' = FpCheckAt(hart) + 4 * ((i + 1) - 1) + 0 /\ (i + 1) - 1 = i
      BY <1>13, <1>n, <1>k, <1>p, <2>1, <2>5
    <3>2. FoldF(hart, entry, expected, x', i + 1, 0)
      BY <2>4, <3>1 DEF FoldF
    <3>3. CheckingAt(hart, entry, expected, pc', x', csr)
      BY <1>13, <1>e, <3>1, <3>2, AtFoldF
    <3> QED  BY <1>t, <1>c, <1>u, <1>r, <2>1, <3>3, CheckedX
  <2>6. CASE i = NumF
    <3>1. pc' = VerdictAt(hart) + 0
      BY <1>13, <1>n, <1>k, <1>p, <2>1, <2>6
    <3>2. AllSame(hart, entry, expected) <=>
             SameX(entry, expected, NumX) /\ SameF(hart, entry, expected, i)
      BY <1>13, <2>6 DEF AllSame
    <3>3. Judge(hart, entry, expected, x', 0)
      BY <2>4, <3>2 DEF Judge
    <3>4. CheckingAt(hart, entry, expected, pc', x', csr)
      BY <1>e, <3>1, <3>3, AtJudge
    <3> QED  BY <1>t, <1>c, <1>u, <1>r, <2>1, <3>4, CheckedX
  <2>7. i < NumF \/ i = NumF
    BY <1>k
  <2> QED  BY <2>5, <2>6, <2>7
<1>14. ASSUME pc = VerdictAt(hart)
      PROVE  Checked
  <2>1. pc' = pc + 1 /\ OnlyX(X5, IF x[ACC] = {} THEN {} ELSE {0})
    BY <1>14, <1>b, <1>n, <1>t, <1>r, CheckSlots, RunSltu
  <2>2. pc = VerdictAt(hart) + 0
    BY <1>14, <1>n, <1>k, <1>p
  <2>3. Judge(hart, entry, expected, x, 0)
    BY <1>14, <1>e, <1>c, <2>2, OfJudge
  <2>6. Judge(hart, entry, expected, x', 1)
    BY <2>1, <2>3 DEF Judge, OnlyX
  <2>8. pc' = VerdictAt(hart) + 1
    BY <1>14, <1>n, <1>k, <1>p, <2>1
  <2>9. CheckingAt(hart, entry, expected, pc', x', csr)
    BY <1>14, <1>e, <1>k, <2>6, <2>8, AtJudge
  <2> QED  BY <1>t, <1>c, <1>u, <1>r, <2>1, <2>9, CheckedX
<1>15. ASSUME pc = VerdictAt(hart) + 1
      PROVE  Checked
  <2>1. pc' = pc + 1 /\ OnlyX(X5, Negative(x[X5]))
    BY <1>15, <1>b, <1>n, <1>t, <1>r, CheckSlots, RunNeg
  <2>2. pc = VerdictAt(hart) + 1
    BY <1>15, <1>n, <1>k, <1>p
  <2>3. Judge(hart, entry, expected, x, 1)
    BY <1>15, <1>e, <1>c, <2>2, OfJudge
  <2>4. x[X5] = (IF AllSame(hart, entry, expected) THEN {} ELSE {0}) /\ x'[X5] = Negative(x[X5])
    BY <2>1, <2>3 DEF Judge, OnlyX
  <2>5. x'[X5] = IF AllSame(hart, entry, expected) THEN {} ELSE Bits
    BY <2>4, Negatives
  <2>6. Judge(hart, entry, expected, x', 2)
    BY <2>5 DEF Judge
  <2>8. pc' = VerdictAt(hart) + 2
    BY <1>15, <1>n, <1>k, <1>p, <2>1
  <2>9. CheckingAt(hart, entry, expected, pc', x', csr)
    BY <1>15, <1>e, <1>k, <2>5, <2>6, <2>8, AtJudge
  <2> QED  BY <1>t, <1>c, <1>u, <1>r, <2>1, <2>9, CheckedX
<1>16. ASSUME pc = VerdictAt(hart) + 2
      PROVE  Checked
  <2>1. pc' = pc + 1 /\ OnlyX(X5, x[X5] \cap MISMATCH)
    BY <1>16, <1>b, <1>n, <1>t, <1>r, CheckSlots, RunAndi
  <2>2. pc = VerdictAt(hart) + 2
    BY <1>16, <1>n, <1>k, <1>p
  <2>3. Judge(hart, entry, expected, x, 2)
    BY <1>16, <1>e, <1>c, <2>2, OfJudge
  <2>4. {} \cap MISMATCH = {} /\ Bits \cap MISMATCH = MISMATCH
    <3>1. MISMATCH \subseteq Bits
      BY HartAssumption DEF Word
    <3> QED  BY <3>1
  <2>6. Judge(hart, entry, expected, x', 3)
    BY <2>1, <2>3, <2>4 DEF Judge, OnlyX
  <2>8. pc' = VerdictAt(hart) + 3
    BY <1>16, <1>n, <1>k, <1>p, <2>1
  <2>9. CheckingAt(hart, entry, expected, pc', x', csr)
    BY <1>16, <1>e, <1>k, <2>6, <2>8, AtJudge
  <2> QED  BY <1>t, <1>c, <1>u, <1>r, <2>1, <2>9, CheckedX
<1> QED
  BY CheckCases, <1>1, <1>2, <1>3, <1>4, <1>5, <1>6, <1>7, <1>8, <1>9, <1>10, <1>11, <1>12,
     <1>13, <1>14, <1>15, <1>16

\* Reaching the check, it finds the registers as they are.
LEMMA CheckEnter ==
  ASSUME Built, Typed, hart.target.selfCheck, pc = CheckAt(hart), Step,
         UNCHANGED <<hart, code, expected>>, entry' = Registers
  PROVE  Checked
<1>t. Over(x, 1 .. NumX) /\ Over(f, 1 .. NumF) /\ Over(csr, CsrNames)
  BY DEF Typed
<1>k. /\ NumX \in Nat /\ NumX >= 5 /\ ACC = 1 /\ TMP = NumX
  BY Constants DEF ACC, TMP, X1
<1>s. MSCRATCH \in CsrNames /\ MSCRATCH # "mtvec" /\ "mtvec" \in CsrNames
  BY CsrsAre
<1>n. pc \in Nat \ {0}
  <2>1. /\ NumX \in Nat /\ NumX >= 5 /\ XAt(hart) \in Nat
        /\ StimulusAt(hart) = XAt(hart) + NumX
        /\ CheckAt(hart) = StimulusAt(hart) + Len(hart.work) /\ Len(hart.work) \in Nat
    BY PlacesNow
  <2> QED  BY <2>1
<1>1. pc' = pc + 1 /\ OnlyCsr(MSCRATCH, x[TMP])
  BY <1>n, <1>s, <1>t, CheckSlots, RunWriteCsr
<1>2. x' = x /\ f' = f /\ csr'[MSCRATCH] = x[TMP] /\ Over(csr', CsrNames)
      /\ UNCHANGED <<tohost, fs>> /\ csr'["mtvec"] = csr["mtvec"]
  BY <1>1, <1>s DEF OnlyCsr
<1>3. entry'.x = x /\ entry'.f = f
  BY DEF Registers
<1>4. Kept(entry', x', csr')
  BY <1>k, <1>2, <1>3 DEF Kept
<1>5. EnterX(entry', expected, x', 0)
  BY <1>k, <1>2, <1>3 DEF EnterX
<1>6. pc' = CheckAt(hart) + 1 + 0
  BY <1>n, <1>1
<1>7. CheckPlaces(hart)
  BY CheckPlacesAre
<1>8. CheckingAt(hart, entry', expected, pc', x', csr')
  BY <1>4, <1>5, <1>6, <1>7, AtEnterX
<1>9. hart' = hart /\ expected' = expected
  OBVIOUS
<1>10. Checking'
  BY <1>t, <1>2, <1>3, <1>8, <1>9 DEF Checking
<1>11. Typed'
  BY <1>t, <1>2 DEF Typed
<1> QED  BY <1>1, <1>2, <1>10, <1>11 DEF Checked

--------------------------------------------------------------------------------
(* The workload and the reports.                                             *)

Worked ==
    /\ pc' = pc + 1 /\ Typed' /\ UNCHANGED <<tohost, fs>>
    /\ csr'["mtvec"] = csr["mtvec"]

\* The workload, whatever it computes, leaves the FPU, mtvec and the mailbox alone.
LEMMA WorkStep ==
  ASSUME Built, Typing, Settled, pc \in StimulusAt(hart) .. CheckAt(hart) - 1, Step
  PROVE  Worked
<1>t. Over(x, 1 .. NumX) /\ Over(f, 1 .. NumF) /\ Over(csr, CsrNames)
  BY DEF Typing, Typed
<1>1. /\ NumX \in Nat /\ NumX >= 5 /\ XAt(hart) \in Nat /\ StimulusAt(hart) = XAt(hart) + NumX
      /\ NumCsrs \in Nat /\ FpAt = 2 + 2 * NumCsrs /\ CheckAt(hart) \in Nat
      /\ XAt(hart) = FpAt + (IF hart.target.f THEN 1 + 2 * NumF ELSE 0) /\ NumF \in Nat
  BY PlacesNow
<1>2. pc \in Nat \ {0} /\ pc > FpAt
  BY <1>1
<1>3. /\ pc - StimulusAt(hart) + 1 \in 1 .. Len(hart.work)
      /\ code[pc] = hart.work[pc - StimulusAt(hart) + 1]
      /\ WorkSlot(code[pc])
  BY WorkSlots
<1>4. DOMAIN hart.work = 1 .. Len(hart.work)
  BY HartIs DEF Built, IsSeq
<1>5. code[pc].op = "fneg" => fs
  <2>1. code[pc].op = "fneg" => hart.target.f
    BY <1>3, <1>4 DEF Typing
  <2>2. hart.target.f = TRUE => fs
    BY <1>2 DEF Settled
  <2>3. hart.target.f \in BOOLEAN
    BY HartIs DEF Built
  <2> QED  BY <2>1, <2>2, <2>3
<1>6. /\ pc' = pc + 1
      /\ Over(x', 1 .. NumX) /\ Over(f', 1 .. NumF) /\ Over(csr', CsrNames)
      /\ csr'["mtvec"] = csr["mtvec"] /\ UNCHANGED <<fs, tohost>>
  BY <1>t, <1>2, <1>3, <1>5, RunWork
<1> QED  BY <1>6 DEF Worked, Typed

\* A slot of a report of v that starts at n.
Reported(n, v) ==
    /\ pc' \in n .. n + 4
    /\ pc' = IF pc = n + 4 THEN pc ELSE pc + 1
    /\ Typed' /\ UNCHANGED <<f, csr, fs>>
    /\ tohost' # NONE => pc' = n + 4
    /\ pc' > n /\ Reporting(n, v)'

\* A report of v puts the command that tells v in the mailbox.
LEMMA ReportStep ==
  ASSUME Typed, NEW n \in Nat \ {0}, NEW a, ReportsAt(n, a), NEW v,
         pc \in n .. n + 4,
         \/ a = Instr("slli1", X5, X5) /\ (pc = n => x[X5] = v)
         \/ \E w : a = LoadImm(X5, w) /\ w \cup {0} = {0} \cup ShiftLeft(v),
         pc > n => Reporting(n, v), tohost # NONE => pc = n + 4, Step
  PROVE  Reported(n, v)
<1>t. Over(x, 1 .. NumX) /\ Over(f, 1 .. NumF) /\ Over(csr, CsrNames)
  BY DEF Typed
<1>r. X5 \in 1 .. NumX /\ X6 \in 1 .. NumX /\ X5 # X6
  BY Constants
<1>n. pc \in Nat \ {0}
  OBVIOUS
<1>1. ASSUME pc = n PROVE Reported(n, v)
  <2>1. pc' = pc + 1 /\ Typed' /\ UNCHANGED <<f, csr, fs, tohost>>
        /\ x'[X5] \cup {0} = {0} \cup ShiftLeft(v)
    <3>1. CASE a = Instr("slli1", X5, X5) /\ x[X5] = v
      <4>1. pc' = pc + 1 /\ OnlyX(X5, ShiftLeft(x[X5]))
        BY <1>1, <1>n, <1>r, <1>t, <3>1, RunSlli DEF ReportsAt
      <4> QED  BY <1>t, <3>1, <4>1 DEF Typed, OnlyX
    <3>2. ASSUME NEW w, a = LoadImm(X5, w), w \cup {0} = {0} \cup ShiftLeft(v)
          PROVE  pc' = pc + 1 /\ Typed' /\ UNCHANGED <<f, csr, fs, tohost>>
                 /\ x'[X5] \cup {0} = {0} \cup ShiftLeft(v)
      <4>1. pc' = pc + 1 /\ OnlyX(X5, w)
        BY <1>1, <1>n, <1>r, <1>t, <3>2, RunLi DEF ReportsAt
      <4> QED  BY <1>t, <3>2, <4>1 DEF Typed, OnlyX
    <3> QED  BY <1>1, <3>1, <3>2
  <2>2. tohost = NONE
    BY <1>1
  <2>3. pc' = n + 1 /\ pc' # n + 3 /\ pc' \notin n + 2 .. n + 4
    BY <1>1, <2>1
  <2>4. Reporting(n, v)'
    BY <2>1, <2>2, <2>3 DEF Reporting
  <2> QED  BY <1>1, <2>1, <2>2, <2>3, <2>4 DEF Reported
<1>2. ASSUME pc = n + 1 PROVE Reported(n, v)
  <2>1. pc' = pc + 1 /\ OnlyX(X5, x[X5] \cup {0})
    BY <1>2, <1>n, <1>r, <1>t, RunOri DEF ReportsAt
  <2>2. tohost = NONE
    BY <1>2
  <2>3. pc' = n + 2 /\ pc' # n + 3 /\ pc' # n + 1
    BY <1>2, <2>1
  <2>4. x'[X5] = {0} \cup ShiftLeft(v)
    BY <1>2, <2>1 DEF Reporting, OnlyX
  <2>5. Typed' /\ UNCHANGED <<f, csr, fs, tohost>>
    BY <1>t, <2>1 DEF Typed, OnlyX
  <2>6. Reporting(n, v)'
    BY <2>2, <2>3, <2>4, <2>5 DEF Reporting
  <2> QED  BY <1>2, <2>2, <2>3, <2>5, <2>6 DEF Reported
<1>3. ASSUME pc = n + 2 PROVE Reported(n, v)
  <2>1. pc' = pc + 1 /\ OnlyX(X6, Tohost)
    BY <1>3, <1>n, <1>r, <1>t, RunLi DEF ReportsAt
  <2>2. tohost = NONE
    BY <1>3
  <2>3. pc' = n + 3 /\ pc' # n + 1
    BY <1>3, <2>1
  <2>4. x'[X5] = {0} \cup ShiftLeft(v) /\ x'[X6] = Tohost
    BY <1>3, <1>r, <2>1 DEF Reporting, OnlyX
  <2>5. Typed' /\ UNCHANGED <<f, csr, fs, tohost>>
    BY <1>t, <2>1 DEF Typed, OnlyX
  <2>6. Reporting(n, v)'
    BY <2>2, <2>3, <2>4, <2>5 DEF Reporting
  <2> QED  BY <1>3, <2>2, <2>3, <2>5, <2>6 DEF Reported
<1>4. ASSUME pc = n + 3 PROVE Reported(n, v)
  <2>0. x[X6] = Tohost /\ x[X5] = {0} \cup ShiftLeft(v)
    BY <1>4 DEF Reporting
  <2>1. pc' = pc + 1 /\ tohost' = x[X5] /\ UNCHANGED <<x, f, csr, fs>>
    BY <1>4, <1>n, <2>0, RunStore DEF ReportsAt
  <2>3. pc' = n + 4 /\ pc' # n + 1 /\ pc' # n + 3
    BY <1>4, <2>1
  <2>5. Typed'
    BY <1>t, <2>1 DEF Typed
  <2>6. Reporting(n, v)'
    BY <2>0, <2>1, <2>3 DEF Reporting
  <2> QED  BY <1>4, <2>1, <2>3, <2>5, <2>6 DEF Reported
<1>5. ASSUME pc = n + 4 PROVE Reported(n, v)
  <2>1. UNCHANGED <<pc, x, f, csr, fs, tohost>>
    BY <1>5, <1>n, RunSpin DEF ReportsAt
  <2>5. Typed'
    BY <1>t, <2>1 DEF Typed
  <2>6. Reporting(n, v)'
    BY <1>5, <2>1 DEF Reporting
  <2> QED  BY <1>5, <2>1, <2>5, <2>6 DEF Reported
<1> QED  BY <1>1, <1>2, <1>3, <1>4, <1>5

--------------------------------------------------------------------------------
(* The actions.                                                              *)

\* The parts in their order.
InOrder ==
    /\ FpAt \in Nat /\ StimulusAt(hart) \in Nat /\ CheckAt(hart) \in Nat /\ ExitAt(hart) \in Nat
    /\ 1 < FpAt /\ FpAt < StimulusAt(hart) /\ StimulusAt(hart) <= CheckAt(hart)
    /\ IF hart.target.selfCheck THEN CheckAt(hart) < ExitAt(hart) ELSE ExitAt(hart) = CheckAt(hart)
    /\ FailAt(hart) = ExitAt(hart) + 5
    /\ HandlerAt(hart, expected) \in Nat /\ FailAt(hart) <= HandlerAt(hart, expected)

\* The first slots of the parts are in this order.
LEMMA PartsInOrder == ASSUME Built PROVE InOrder
<1>1. /\ FpAt \in Nat /\ StimulusAt(hart) \in Nat /\ CheckAt(hart) \in Nat
      /\ 1 < FpAt /\ FpAt < StimulusAt(hart) /\ StimulusAt(hart) <= CheckAt(hart)
  <2>1. /\ NumX \in Nat /\ NumX >= 5 /\ NumF \in Nat /\ NumCsrs \in Nat
        /\ FpAt = 2 + 2 * NumCsrs /\ XAt(hart) \in Nat
        /\ XAt(hart) = FpAt + (IF hart.target.f THEN 1 + 2 * NumF ELSE 0)
        /\ StimulusAt(hart) = XAt(hart) + NumX /\ Len(hart.work) \in Nat
        /\ CheckAt(hart) = StimulusAt(hart) + Len(hart.work)
    BY PlacesNow
  <2> DEFINE s == StimulusAt(hart)
             c == CheckAt(hart)
             n == XAt(hart)
             t == hart.target.f
             w == Len(hart.work)
  <2> HIDE DEF s, c, n, t, w
  <2>2. /\ NumX \in Nat /\ NumX >= 5 /\ NumF \in Nat /\ NumCsrs \in Nat
        /\ FpAt = 2 + 2 * NumCsrs /\ n = FpAt + (IF t THEN 1 + 2 * NumF ELSE 0)
        /\ s = n + NumX /\ w \in Nat /\ c = s + w
    BY <2>1 DEF s, c, n, t, w
  <2>3. FpAt \in Nat /\ 1 < FpAt
    BY <2>2
  <2>4. n \in Nat /\ FpAt <= n
    BY <2>2, <2>3
  <2>5. s \in Nat /\ c \in Nat /\ FpAt < s /\ s <= c
    BY <2>2, <2>3, <2>4
  <2> QED  BY <2>3, <2>5 DEF s, c
<1>2. /\ CheckAt(hart) \in Nat /\ ExitAt(hart) \in Nat /\ NumX \in Nat /\ NumX >= 5 /\ NumF \in Nat
      /\ ClearAt(hart) = CheckAt(hart) + 3 * (NumX - 1)
      /\ FpCheckAt(hart) = ClearAt(hart) + 4
      /\ VerdictAt(hart) = FpCheckAt(hart) + (IF hart.target.f THEN 4 * NumF ELSE 0)
      /\ ExitAt(hart) = (IF hart.target.selfCheck THEN VerdictAt(hart) + 3 ELSE CheckAt(hart))
  BY PlacesLater, Constants
<1>3. IF hart.target.selfCheck THEN CheckAt(hart) < ExitAt(hart) ELSE ExitAt(hart) = CheckAt(hart)
  BY <1>2
<1>4. /\ ExitAt(hart) \in Nat /\ FailAt(hart) = ExitAt(hart) + 5
      /\ PadAt(hart) = FailAt(hart) + (IF hart.target.entangled THEN 5 ELSE 0)
      /\ HandlerAt(hart, expected) \in Nat /\ HandlerAt(hart, expected) >= PadAt(hart)
  BY PlacesLater
<1>5. FailAt(hart) <= HandlerAt(hart, expected)
  BY <1>4
<1> QED  BY <1>1, <1>3, <1>4, <1>5 DEF InOrder

\* A run starts.
Start == Typing /\ pc = 1 /\ entry = NONE /\ tohost = NONE /\ fs = FALSE /\ fault = NONE

\* The invariant holds where a run starts.
LEMMA AtStart == Start => HInv
<1> SUFFICES ASSUME Start PROVE HInv
  OBVIOUS
<1>1. Typing /\ pc = 1 /\ entry = NONE /\ tohost = NONE /\ fs = FALSE /\ fault = NONE /\ Built
  BY DEF Start, Typing, Built
<1>2. Onward /\ fault \notin {"turn", "trap"}
  BY <1>1, HartAssumption DEF Onward
<1>3. /\ FpAt \in Nat /\ StimulusAt(hart) \in Nat /\ CheckAt(hart) \in Nat /\ ExitAt(hart) \in Nat
      /\ 1 < FpAt /\ FpAt < StimulusAt(hart) /\ StimulusAt(hart) <= CheckAt(hart)
      /\ CheckAt(hart) <= ExitAt(hart)
  <2>1. InOrder
    BY <1>1, PartsInOrder
  <2> QED  BY <2>1 DEF InOrder
<1>4. Where
  BY <1>1, <1>2, <1>3 DEF Where
<1>5. Settled
  <2>1. ~ pc > FpAt /\ ~ pc > 1
    BY <1>1, <1>3
  <2>2. fs = (hart.target.f /\ pc > FpAt)
    BY <1>1, <2>1
  <2> QED  BY <2>1, <2>2 DEF Settled
<1>6. Initialising
  <2>1. NumCsrs \in Nat /\ NumF \in Nat /\ NumX \in Nat /\ XAt(hart) \in Nat
    BY <1>1, PlacesNow
  <2>2. InitCsrs
    BY <1>1, <2>1 DEF InitCsrs
  <2>3. InitF
    BY <1>1, <1>3, <2>1 DEF InitF
  <2>4. InitX
    <3>1. XAt(hart) >= FpAt
      <4>1. /\ XAt(hart) = FpAt + (IF hart.target.f THEN 1 + 2 * NumF ELSE 0) /\ NumF \in Nat
        BY <1>1, PlacesNow
      <4> QED  BY <1>3, <4>1
    <3> QED  BY <1>1, <1>3, <2>1, <3>1 DEF InitX
  <2> QED  BY <2>2, <2>3, <2>4 DEF Initialising
<1>7. ~ pc > CheckAt(hart) /\ ~ pc > ExitAt(hart)
  BY <1>1, <1>3
<1> QED  BY <1>1, <1>2, <1>4, <1>5, <1>6, <1>7 DEF HInv

\* It holds when the hart is chosen,
LEMMA InitHolds == HartInit => HInv
<1> SUFFICES ASSUME HartInit PROVE HInv
  OBVIOUS
<1>1. Start
  <2>1. hart \in HartType /\ (hart.target.entangled => hart.target.selfCheck)
        /\ \A i \in DOMAIN hart.work :
              /\ hart.work[i].op = "site" => hart.target.entangled
              /\ hart.work[i].op = "fneg" => hart.target.f
    BY DEF HartInit, HartType
  <2>2. /\ pc = 1 /\ entry = NONE /\ tohost = NONE /\ fs = FALSE /\ fault = NONE
        /\ stage \in {"draft", "device"} /\ code = Code(hart, expected)
    BY DEF HartInit
  <2>3. Over(x, 1 .. NumX) /\ Over(f, 1 .. NumF) /\ Over(expected.x, 1 .. NumX)
    BY DEF HartInit, Placeholder, Over
  <2>4. Over(csr, CsrNames)
    BY DEF HartInit, CsrNames, Over
  <2>5. Typing
    BY <2>1, <2>2, <2>3, <2>4 DEF Typing, Typed
  <2> QED  BY <2>2, <2>5 DEF Start
<1> QED  BY <1>1, AtStart

\* and wherever a step starts a run again.
LEMMA StartNext == Start' => HInv'
BY AtStart, PTL

\* Reset starts a run of the same hart, whatever is expected of it.
LEMMA ResetIs ==
  ASSUME Typing, Reset, fault = NONE, UNCHANGED <<hart, fault>>,
         code' = Code(hart, expected'), Over(expected'.x, 1 .. NumX),
         stage' \in {"draft", "final", "device", "done", "failed"}
  PROVE  HInv'
<1>1. /\ pc' = 1 /\ entry' = NONE /\ tohost' = NONE /\ fs' = FALSE
      /\ Over(x', 1 .. NumX) /\ Over(f', 1 .. NumF)
  BY DEF Reset, Over
<1>2. Over(csr', CsrNames)
  <2>1. DOMAIN csr = CsrNames
    BY DEF Typing, Typed, Over
  <2> QED  BY <2>1 DEF Reset, Over
<1>3. hart' = hart /\ fault' = NONE
  OBVIOUS
<1>4. Typing'
  BY <1>1, <1>2, <1>3 DEF Typing, Typed
<1>5. Start'
  BY <1>1, <1>3, <1>4 DEF Start
<1> QED  BY <1>5, StartNext

\* Patching the expected registers in.
LEMMA PatchKeeps == HInv /\ Patch => HInv'
<1> SUFFICES ASSUME HInv, Patch PROVE HInv'
  OBVIOUS
<1>1. Typing /\ Over(x, 1 .. NumX)
  BY DEF HInv, Typing, Typed
<1>2. fault = NONE
  BY <1>1 DEF Patch, Typing
<1>3. /\ Reset /\ UNCHANGED <<hart, fault>> /\ code' = Code(hart, expected')
      /\ expected'.x = x /\ stage' = "final"
  BY DEF Patch, Registers
<1> QED  BY <1>1, <1>2, <1>3, ResetIs

\* Spike has run the final code.
LEMMA VerifyKeeps == HInv /\ Verify => HInv'
<1> SUFFICES ASSUME HInv, Verify PROVE HInv'
  OBVIOUS
<1>1. Typing /\ Over(expected.x, 1 .. NumX) /\ code = Code(hart, expected)
  BY DEF HInv, Typing
<1>2. fault = NONE
  BY <1>1 DEF Verify, Typing
<1>3. /\ Reset /\ UNCHANGED <<hart, fault, code, expected>> /\ stage' \in {"device", "failed"}
  BY DEF Verify
<1>4. code' = Code(hart, expected') /\ Over(expected'.x, 1 .. NumX)
  BY <1>1, <1>3
<1> QED  BY <1>1, <1>2, <1>3, <1>4, ResetIs

\* A step that chooses nothing keeps the types.
LEMMA TypingKept ==
  ASSUME Typing, Typed', UNCHANGED <<hart, code, expected, stage, fault>>
  PROVE  Typing'
BY DEF Typing

\* One step along the line, as far as _exit.
LEMMA OnTheLine ==
  ASSUME HInv, Onward, tohost = NONE, stage = "draft" => pc < CheckAt(hart), pc < ExitAt(hart),
         Enter, UNCHANGED <<hart, code, stage, expected, tohost>>, pc' = pc + 1,
         Typing', Onward', Settled', pc' <= StimulusAt(hart) => Initialising',
         hart.target.selfCheck /\ pc' > CheckAt(hart) => Checking'
  PROVE  HInv'
<1>1. Built /\ Where
  BY DEF HInv, Typing, Built
<1>2. InOrder
  BY <1>1, PartsInOrder
<1>3. pc \in 1 .. ExitAt(hart) + 4
  BY <1>1 DEF Where
<1>4. /\ StimulusAt(hart)' = StimulusAt(hart) /\ CheckAt(hart)' = CheckAt(hart)
      /\ ExitAt(hart)' = ExitAt(hart) /\ hart' = hart /\ tohost' = NONE /\ stage' = stage
  OBVIOUS
<1>5. pc' \in 1 .. ExitAt(hart) + 4 /\ pc' <= ExitAt(hart)
      /\ (pc' <= CheckAt(hart) => pc < CheckAt(hart)) /\ (pc < CheckAt(hart) => pc' <= CheckAt(hart))
  BY <1>2, <1>3 DEF InOrder
<1>6. pc < CheckAt(hart) => entry' = NONE
  <2>1. ASSUME pc < CheckAt(hart) PROVE pc <= CheckAt(hart) /\ pc # CheckAt(hart)
    BY <1>2, <1>3, <2>1 DEF InOrder
  <2> QED  BY <1>1, <2>1 DEF Where, Enter
<1>7. ~ (fault' \in {"turn", "trap"})
  BY HartAssumption DEF Onward
<1>8. Where'
  BY <1>4, <1>5, <1>6, <1>7 DEF Where
<1>9. ~ pc' > ExitAt(hart)
  BY <1>2, <1>5 DEF InOrder
<1> QED  BY <1>4, <1>7, <1>8, <1>9 DEF HInv

\* Once it is initialised, mtvec and the FPU stay as they are.
LEMMA SettledKept ==
  ASSUME Built, Settled, pc \in Nat, pc > FpAt, pc' = pc + 1, fs' = fs,
         csr'["mtvec"] = csr["mtvec"], UNCHANGED <<hart, expected>>
  PROVE  Settled'
<1>1. FpAt \in Nat /\ 1 < FpAt
  BY PartsInOrder DEF InOrder
<1>2. pc' > FpAt /\ pc > 1
  BY <1>1
<1>3. fs = (hart.target.f /\ TRUE)
  BY DEF Settled
<1>4. fs' = (hart'.target.f /\ pc' > FpAt)
  BY <1>2, <1>3
<1>5. csr'["mtvec"] = TrapVector(hart'.base + Offset(hart', expected'))
  BY <1>2 DEF Settled
<1> QED  BY <1>4, <1>5 DEF Settled

\* A step that is not in the reports.
LEMMA StepOnTheLine ==
  ASSUME HInv, Onward, tohost = NONE, stage = "draft" => pc < CheckAt(hart), pc < ExitAt(hart),
         Step, Enter, UNCHANGED <<hart, code, stage, expected, fault>>
  PROVE  HInv'
<1>h. HInv /\ Onward /\ tohost = NONE /\ (stage = "draft" => pc < CheckAt(hart))
      /\ pc < ExitAt(hart) /\ Step /\ Enter /\ UNCHANGED <<hart, code, stage, expected, fault>>
  OBVIOUS
<1>1. Typing /\ Where /\ Settled /\ Built /\ Typed
  BY DEF HInv, Typing, Built
<1>2. InOrder
  BY <1>1, PartsInOrder
<1>3. pc \in 1 .. ExitAt(hart) + 4
  BY <1>1 DEF Where
<1>4. /\ FpAt \in Nat /\ StimulusAt(hart) \in Nat /\ CheckAt(hart) \in Nat /\ ExitAt(hart) \in Nat
      /\ 1 < FpAt /\ FpAt < StimulusAt(hart) /\ StimulusAt(hart) <= CheckAt(hart)
      /\ hart.target.selfCheck \/ ExitAt(hart) = CheckAt(hart)
  BY <1>2 DEF InOrder
<1>5. Onward'
  BY DEF Onward
<1>6. CASE pc < StimulusAt(hart)
  <2>1. pc \in 1 .. StimulusAt(hart) - 1 /\ pc <= StimulusAt(hart)
    BY <1>3, <1>4, <1>6
  <2>2. Initialising
    BY <2>1 DEF HInv
  <2>3. Went
    BY <1>1, <1>h, <2>1, <2>2, InitStep
  <2>4. pc' = pc + 1 /\ Typed' /\ UNCHANGED tohost /\ Settled' /\ Initialising'
    BY <2>3 DEF Went
  <2>5. Typing'
    BY <1>1, <1>h, <2>4, TypingKept
  <2>6. ~ pc' > CheckAt(hart)
    BY <1>4, <2>1, <2>4
  <2> QED  BY <1>5, <1>h, <2>4, <2>5, <2>6, OnTheLine
<1>7. CASE pc \in StimulusAt(hart) .. CheckAt(hart) - 1
  <2>1. Worked
    BY <1>1, <1>h, <1>7, WorkStep
  <2>2. pc' = pc + 1 /\ Typed' /\ UNCHANGED <<tohost, fs>> /\ csr'["mtvec"] = csr["mtvec"]
    BY <2>1 DEF Worked
  <2>3. pc \in Nat /\ pc > FpAt /\ ~ pc' <= StimulusAt(hart) /\ ~ pc' > CheckAt(hart)
    BY <1>4, <1>7, <2>2
  <2>4. Settled'
    BY <1>1, <1>h, <2>2, <2>3, SettledKept
  <2>5. Typing'
    BY <1>1, <1>h, <2>2, TypingKept
  <2> QED  BY <1>5, <1>h, <2>2, <2>3, <2>4, <2>5, OnTheLine
<1>8. CASE pc >= CheckAt(hart)
  <2>1. hart.target.selfCheck
    BY <1>3, <1>4, <1>8
  <2>2. Checked
    <3>1. CASE pc = CheckAt(hart)
      <4>1. pc <= CheckAt(hart)
        BY <1>4, <3>1
      <4>2. entry = NONE
        BY <1>1, <4>1 DEF Where
      <4>3. entry' = Registers
        BY <3>1, <4>2 DEF Enter
      <4> QED  BY <1>1, <1>h, <2>1, <3>1, <4>3, CheckEnter
    <3>2. CASE pc # CheckAt(hart)
      <4>1. pc \in CheckAt(hart) + 1 .. ExitAt(hart) - 1 /\ pc > CheckAt(hart) /\ pc <= ExitAt(hart)
            /\ pc > FpAt
        BY <1>3, <1>4, <1>8, <3>2
      <4>2. Checking
        BY <2>1, <4>1 DEF HInv
      <4>3. Over(expected.x, 1 .. NumX)
        BY <1>1 DEF Typing
      <4>4. hart.target.f => fs
        BY <1>1, <4>1 DEF Settled
      <4>5. UNCHANGED <<hart, code, expected, entry>>
        BY <3>2 DEF Enter
      <4> QED  BY <1>1, <1>h, <2>1, <4>1, <4>2, <4>3, <4>4, <4>5, CheckStep
    <3> QED  BY <3>1, <3>2
  <2>3. pc' = pc + 1 /\ Typed' /\ UNCHANGED <<tohost, fs>> /\ csr'["mtvec"] = csr["mtvec"]
        /\ Checking'
    BY <2>2 DEF Checked
  <2>4. pc \in Nat /\ pc > FpAt /\ ~ pc' <= StimulusAt(hart)
    BY <1>3, <1>4, <1>8, <2>3
  <2>5. Settled'
    BY <1>1, <1>h, <2>3, <2>4, SettledKept
  <2>6. Typing'
    BY <1>1, <1>h, <2>3, TypingKept
  <2> QED  BY <1>5, <1>h, <2>3, <2>4, <2>5, <2>6, OnTheLine
<1>9. pc < StimulusAt(hart) \/ pc \in StimulusAt(hart) .. CheckAt(hart) - 1 \/ pc >= CheckAt(hart)
  BY <1>3, <1>4
<1> QED  BY <1>6, <1>7, <1>8, <1>9

\* The exit code 0 is reported as the command 1.
LEMMA ShiftLeftEmpty == ShiftLeft({}) = {}
<1>1. {i + 1 : i \in {}} = {}
  OBVIOUS
<1> QED  BY <1>1 DEF ShiftLeft

\* The report of _exit.
LEMMA StepInExit ==
  ASSUME HInv, Onward, tohost = NONE, stage # "draft", pc >= ExitAt(hart),
         Step, Enter, UNCHANGED <<hart, code, stage, expected, fault>>
  PROVE  HInv'
<1>1. Typing /\ Where /\ Settled /\ Built /\ Typed
  BY DEF HInv, Typing, Built
<1>2. /\ FpAt \in Nat /\ StimulusAt(hart) \in Nat /\ CheckAt(hart) \in Nat /\ ExitAt(hart) \in Nat
      /\ 1 < FpAt /\ FpAt < StimulusAt(hart) /\ StimulusAt(hart) <= CheckAt(hart)
      /\ IF hart.target.selfCheck THEN CheckAt(hart) < ExitAt(hart)
         ELSE ExitAt(hart) = CheckAt(hart)
  <2>1. InOrder
    BY <1>1, PartsInOrder
  <2> QED  BY <2>1 DEF InOrder
<1> PICK n : n = ExitAt(hart)
  OBVIOUS
<1> PICK v : v = Verdict
  OBVIOUS
<1>3. pc \in n .. n + 4 /\ n \in Nat \ {0}
  BY <1>1, <1>2 DEF Where
<1> DEFINE a == IF hart.target.selfCheck THEN Instr("slli1", X5, X5) ELSE LoadImm(X5, {0})
<1>4. ReportsAt(n, a)
  BY <1>1, EndSlots
<1>5. \/ a = Instr("slli1", X5, X5) /\ (pc = n => x[X5] = v)
      \/ \E w : a = LoadImm(X5, w) /\ w \cup {0} = {0} \cup ShiftLeft(v)
  <2>1. CASE hart.target.selfCheck
    <3>1. ASSUME pc = n PROVE x[X5] = v
      <4>1. pc > CheckAt(hart) /\ pc <= ExitAt(hart)
        BY <1>2, <2>1, <3>1
      <4>2. CheckingAt(hart, entry, expected, pc, x, csr)
        BY <2>1, <4>1 DEF HInv, Checking
      <4>3. pc = VerdictAt(hart) + 3
        BY <1>1, <2>1, <3>1, PlacesLater
      <4>4. Judge(hart, entry, expected, x, 3)
        BY <4>2, <4>3, OfJudge
      <4>5. Over(entry.x, 1 .. NumX) /\ Over(expected.x, 1 .. NumX)
        BY <1>1, <2>1, <4>1 DEF HInv, Checking, Typing
      <4>6. Seen(entry) = Seen(expected) <=> AllSame(hart, entry, expected)
        BY <1>1, <4>5, AllSameIs DEF Built
      <4> QED  BY <2>1, <4>4, <4>6 DEF Judge, Verdict
    <3> QED  BY <2>1, <3>1
  <2>2. CASE ~ hart.target.selfCheck
    <3>1. v = {}
      BY <2>2 DEF Verdict
    <3> QED  BY <2>2, <3>1, ShiftLeftEmpty
  <2> QED  BY <2>1, <2>2
<1>6. pc > n => Reporting(n, v)
  BY DEF HInv
<1> HIDE DEF a
<1>7. Reported(n, v)
  BY <1>1, <1>3, <1>4, <1>5, <1>6, ReportStep
<1>8. /\ pc' \in n .. n + 4 /\ pc' = (IF pc = n + 4 THEN pc ELSE pc + 1)
      /\ Typed' /\ UNCHANGED <<f, csr, fs>> /\ (tohost' # NONE => pc' = n + 4)
      /\ pc' > n /\ Reporting(n, v)'
  BY <1>7 DEF Reported
<1>9. Typing'
  BY <1>1, <1>8, TypingKept
<1>10. /\ hart' = hart /\ expected' = expected /\ stage' # "draft" /\ Onward'
       /\ n = ExitAt(hart') /\ StimulusAt(hart') = StimulusAt(hart)
       /\ CheckAt(hart') = CheckAt(hart) /\ ExitAt(hart') = ExitAt(hart)
  BY DEF Onward
<1>11. /\ pc' \in 1 .. n + 4 /\ ~ pc' <= CheckAt(hart) /\ ~ pc' <= StimulusAt(hart)
       /\ ~ pc' <= ExitAt(hart) /\ pc' > FpAt /\ pc > FpAt /\ pc > 1
  BY <1>2, <1>3, <1>8
<1>12. fault' \notin {"turn", "trap"}
  BY <1>10, HartAssumption DEF Onward
<1>13. Where'
  BY <1>8, <1>10, <1>11, <1>12 DEF Where
<1>14. Settled'
  <2>1. fs = (hart.target.f /\ TRUE)
    BY <1>1, <1>11 DEF Settled
  <2>2. fs' = (hart'.target.f /\ pc' > FpAt)
    BY <1>8, <1>10, <1>11, <2>1
  <2>3. csr'["mtvec"] = TrapVector(hart'.base + Offset(hart', expected'))
    BY <1>1, <1>8, <1>10, <1>11 DEF Settled
  <2> QED  BY <2>2, <2>3 DEF Settled
<1>15. v = Verdict'
  <2>1. CASE hart.target.selfCheck
    <3>1. pc # CheckAt(hart)
      BY <1>2, <1>3, <2>1
    <3>2. entry' = entry
      BY <3>1 DEF Enter
    <3> QED  BY <1>10, <3>2 DEF Verdict, Seen
  <2>2. CASE ~ hart.target.selfCheck
    BY <1>10, <2>2 DEF Verdict
  <2> QED  BY <2>1, <2>2
<1>16. Reporting(ExitAt(hart), Verdict)'
  BY <1>8, <1>10, <1>15
<1> QED  BY <1>9, <1>10, <1>11, <1>12, <1>13, <1>14, <1>16 DEF HInv

\* The report of _fail.
LEMMA StepInFail ==
  ASSUME HInv, fault = "turn", tohost = NONE, Step,
         UNCHANGED <<hart, code, stage, expected, fault>>
  PROVE  HInv'
<1>1. Typing /\ Where /\ Built /\ Typed /\ hart.target.entangled
  BY DEF HInv, Typing, Built, Where
<1>2. ExitAt(hart) \in Nat /\ FailAt(hart) = ExitAt(hart) + 5
  <2>1. InOrder
    BY <1>1, PartsInOrder
  <2> QED  BY <2>1 DEF InOrder
<1> PICK n : n = FailAt(hart)
  OBVIOUS
<1>3. pc \in n .. n + 4 /\ n \in Nat \ {0}
  BY <1>1, <1>2 DEF Where
<1>4. ReportsAt(n, LoadImm(X5, ShiftLeft(DIVERGENCE)))
  BY <1>1, EndSlots
<1>5. ShiftLeft(DIVERGENCE) \cup {0} = {0} \cup ShiftLeft(DIVERGENCE)
  OBVIOUS
<1>6. Reporting(n, DIVERGENCE)
  BY DEF HInv
<1>7. Reported(n, DIVERGENCE)
  BY <1>1, <1>3, <1>4, <1>5, <1>6, ReportStep
<1>8. /\ pc' \in n .. n + 4 /\ Typed' /\ (tohost' # NONE => pc' = n + 4)
      /\ Reporting(n, DIVERGENCE)'
  BY <1>7 DEF Reported
<1>9. Typing'
  BY <1>1, <1>8, TypingKept
<1>10. /\ n = FailAt(hart') /\ stage # "draft" /\ hart' = hart /\ stage' = stage
       /\ fault' = "turn" /\ fault' # "trap" /\ ~ Onward' /\ hart'.target.entangled
  BY <1>1, HartAssumption DEF Onward, Typing
<1>13. Where'
  BY <1>8, <1>10 DEF Where
<1>14. Reporting(FailAt(hart), DIVERGENCE)'
  BY <1>8, <1>10
<1> QED  BY <1>9, <1>10, <1>13, <1>14 DEF HInv

\* The handler: mcause, mcause + 1, and its report.
LEMMA StepInHandler ==
  ASSUME HInv, fault = "trap", tohost = NONE, Step,
         UNCHANGED <<hart, code, stage, expected, fault>>
  PROVE  HInv'
<1>1. Typing /\ Where /\ Built /\ Typed /\ Trapping
  BY DEF HInv, Typing, Built
<1> PICK h : h = HandlerAt(hart, expected)
  OBVIOUS
<1>2. h \in Nat \ {0} /\ pc \in h .. h + 6
  <2>1. InOrder
    BY <1>1, PartsInOrder
  <2>2. h \in Nat /\ FailAt(hart) <= h /\ FailAt(hart) = ExitAt(hart) + 5 /\ ExitAt(hart) \in Nat
    BY <2>1 DEF InOrder
  <2> QED  BY <1>1, <2>2 DEF Where
<1>3. /\ code[h] = ReadCsr(X5, "mcause") /\ code[h + 1] = Instr("addi1", X5, X5)
      /\ ReportsAt(h + 2, Instr("slli1", X5, X5))
  BY <1>1, EndSlots
<1>4. /\ h = HandlerAt(hart', expected') /\ stage # "draft" /\ hart' = hart /\ stage' = stage
      /\ fault' = "trap" /\ fault' # "turn" /\ ~ Onward' /\ expected' = expected
  BY <1>1, HartAssumption DEF Onward, Typing
<1>r. X5 \in 1 .. NumX /\ Over(x, 1 .. NumX) /\ Over(f, 1 .. NumF) /\ Over(csr, CsrNames)
  BY <1>1, Constants DEF Typed
<1>5. ASSUME pc' \in h .. h + 6, Typed', tohost' # NONE => pc' = h + 6,
             pc' = h + 1 => x'[X5] = csr'["mcause"],
             pc' = h + 2 => x'[X5] = Successor(csr'["mcause"]),
             Reporting(h + 2, Successor(csr["mcause"]))'
      PROVE  HInv'
  <2>1. Typing'
    BY <1>1, <1>5, TypingKept
  <2>2. Where'
    BY <1>4, <1>5 DEF Where
  <2>3. Trapping'
    BY <1>4, <1>5 DEF Trapping
  <2> QED  BY <1>4, <2>1, <2>2, <2>3 DEF HInv
<1>6. CASE pc = h
  <2>1. pc' = pc + 1 /\ OnlyX(X5, csr["mcause"])
    BY <1>2, <1>3, <1>6, <1>r, RunReadCsr
  <2>2. x'[X5] = csr'["mcause"] /\ Typed' /\ tohost' = NONE
    BY <1>r, <2>1 DEF OnlyX, Typed
  <2>3. pc' \in h .. h + 6 /\ pc' # h + 2 /\ pc' # h + 2 + 1 /\ pc' \notin h + 2 + 2 .. h + 2 + 4
        /\ pc' # h + 2 + 3
    BY <1>2, <1>6, <2>1
  <2>4. Reporting(h + 2, Successor(csr["mcause"]))'
    BY <2>2, <2>3 DEF Reporting
  <2> QED  BY <1>5, <2>2, <2>3, <2>4
<1>7. CASE pc = h + 1
  <2>0. x[X5] = csr["mcause"]
    BY <1>1, <1>7 DEF Trapping
  <2>1. pc' = pc + 1 /\ OnlyX(X5, Successor(x[X5]))
    BY <1>2, <1>3, <1>7, <1>r, RunAddi
  <2>2. x'[X5] = Successor(csr'["mcause"]) /\ Typed' /\ tohost' = NONE
    BY <1>r, <2>0, <2>1 DEF OnlyX, Typed
  <2>3. pc' \in h .. h + 6 /\ pc' # h + 1 /\ pc' # h + 2 + 1 /\ pc' \notin h + 2 + 2 .. h + 2 + 4
        /\ pc' # h + 2 + 3
    BY <1>2, <1>7, <2>1
  <2>4. Reporting(h + 2, Successor(csr["mcause"]))'
    BY <2>2, <2>3 DEF Reporting
  <2> QED  BY <1>5, <2>2, <2>3, <2>4
<1>8. CASE pc \in h + 2 .. h + 6
  <2> PICK n \in Nat \ {0} : n = h + 2
    BY <1>2
  <2> PICK v : v = Successor(csr["mcause"])
    OBVIOUS
  <2>0. pc \in n .. n + 4
    BY <1>2, <1>8
  <2>1. Reporting(n, v)
    BY <1>1 DEF Trapping
  <2>2. pc = n => x[X5] = v
    BY <1>1 DEF Trapping
  <2>3. ReportsAt(n, Instr("slli1", X5, X5))
    BY <1>3
  <2>4. Reported(n, v)
    BY <1>1, <2>0, <2>1, <2>2, <2>3, ReportStep
  <2>5. /\ pc' \in n .. n + 4 /\ Typed' /\ UNCHANGED <<f, csr, fs>>
        /\ (tohost' # NONE => pc' = n + 4) /\ pc' > n /\ Reporting(n, v)'
    BY <2>4 DEF Reported
  <2>6. pc' \in h .. h + 6 /\ (pc' = n + 4 => pc' = h + 6) /\ pc' # h + 1 /\ pc' # h + 2
    BY <1>2, <2>5
  <2>7. v = Successor(csr'["mcause"])
    BY <2>5
  <2>8. Reporting(h + 2, Successor(csr["mcause"]))'
    BY <2>5, <2>7
  <2> QED  BY <1>5, <2>5, <2>6, <2>8
<1>9. pc = h \/ pc = h + 1 \/ pc \in h + 2 .. h + 6
  BY <1>2
<1> QED  BY <1>6, <1>7, <1>8, <1>9

\* Spike runs the draft.
LEMMA DraftStepKeeps == HInv /\ DraftStep => HInv'
<1> SUFFICES ASSUME HInv, DraftStep PROVE HInv'
  OBVIOUS
<1>1. Typing /\ Where /\ Built
  BY DEF HInv, Typing, Built
<1>2. /\ stage = "draft" /\ pc # CheckAt(hart) /\ Step
      /\ UNCHANGED <<hart, code, stage, expected, entry, fault>>
  BY DEF DraftStep
<1>3. fault = NONE /\ Onward /\ entry = NONE /\ tohost = NONE
  BY <1>1, <1>2 DEF Typing, Where, Onward
<1>4. Enter
  BY <1>2 DEF Enter
<1>5. InOrder
  BY <1>1, PartsInOrder
<1>6. pc < CheckAt(hart) /\ pc < ExitAt(hart)
  <2>1. pc \in 1 .. ExitAt(hart) + 4 /\ pc <= CheckAt(hart)
    BY <1>1, <1>2, <1>3 DEF Where
  <2> QED  BY <1>2, <1>5, <2>1 DEF InOrder
<1> QED  BY <1>2, <1>3, <1>4, <1>6, StepOnTheLine

\* The final code runs, on Spike or on the device.
LEMMA RunStepKeeps == HInv /\ RunStep => HInv'
<1> SUFFICES ASSUME HInv, RunStep PROVE HInv'
  OBVIOUS
<1>1. Typing /\ Where /\ Built
  BY DEF HInv, Typing, Built
<1>2. /\ stage # "draft" /\ tohost = NONE /\ Step /\ Enter
      /\ UNCHANGED <<hart, code, stage, expected, fault>>
  BY DEF RunStep
<1>3. CASE Onward /\ pc < ExitAt(hart)
  BY <1>2, <1>3, StepOnTheLine
<1>4. CASE Onward /\ ~ pc < ExitAt(hart)
  <2>1. InOrder
    BY <1>1, PartsInOrder
  <2>2. pc \in 1 .. ExitAt(hart) + 4
    BY <1>1, <1>4 DEF Where
  <2>3. pc >= ExitAt(hart)
    BY <1>4, <2>1, <2>2 DEF InOrder
  <2> QED  BY <1>2, <1>4, <2>3, StepInExit
<1>5. CASE fault = "turn"
  BY <1>2, <1>5, StepInFail
<1>6. CASE fault = "trap"
  BY <1>2, <1>6, StepInHandler
<1>7. Onward \/ fault = "turn" \/ fault = "trap"
  BY <1>1 DEF Typing, Onward
<1> QED  BY <1>3, <1>4, <1>5, <1>6, <1>7

\* In the workload nothing has been reported.
LEMMA InWorkload ==
  ASSUME HInv, fault = NONE, pc \in StimulusAt(hart) .. CheckAt(hart) - 1
  PROVE  /\ Onward /\ tohost = NONE /\ entry = NONE /\ InOrder
         /\ pc \in Nat /\ pc > FpAt /\ pc > 1 /\ pc < CheckAt(hart) /\ pc < ExitAt(hart)
         /\ pc # CheckAt(hart)
<1>1. Where /\ Onward
  BY DEF HInv, Onward
<1>2. InOrder
  BY PartsInOrder DEF HInv, Typing, Built
<1>3. /\ FpAt \in Nat /\ StimulusAt(hart) \in Nat /\ CheckAt(hart) \in Nat /\ ExitAt(hart) \in Nat
      /\ 1 < FpAt /\ FpAt < StimulusAt(hart) /\ StimulusAt(hart) <= CheckAt(hart)
      /\ CheckAt(hart) <= ExitAt(hart)
  BY <1>2 DEF InOrder
<1>4. /\ pc \in Nat /\ pc > FpAt /\ pc > 1 /\ pc < CheckAt(hart) /\ pc < ExitAt(hart)
      /\ pc <= CheckAt(hart) /\ pc # CheckAt(hart) /\ pc # ExitAt(hart) + 4
  BY <1>3
<1>5. fault # "turn" /\ fault # "trap"
  BY HartAssumption
<1> QED  BY <1>1, <1>2, <1>4, <1>5 DEF Where

\* A wrong result: the run stays on the line.
LEMMA MiscomputeKeeps == HInv /\ Miscompute => HInv'
<1> SUFFICES ASSUME HInv, Miscompute PROVE HInv'
  OBVIOUS
<1>1. Typing /\ Where /\ Built /\ Settled /\ Typed
  BY DEF HInv, Typing, Built, Miscompute, Onward
<1>2. /\ stage = "device" /\ fault = NONE /\ pc \in StimulusAt(hart) .. CheckAt(hart) - 1
      /\ fault' = "flip" /\ pc' = pc + 1
      /\ UNCHANGED <<hart, code, stage, csr, fs, expected, entry, tohost>>
  BY DEF Miscompute
<1>3. /\ Onward /\ tohost = NONE /\ InOrder
      /\ pc \in Nat /\ pc > FpAt /\ pc < ExitAt(hart) /\ pc # CheckAt(hart)
  BY <1>2, InWorkload
<1>4. WorkSlot(code[pc])
  BY <1>1, <1>2, WorkSlots
<1>5. Over(x', 1 .. NumX) /\ Over(f', 1 .. NumF)
  <2> PICK bits \in Faults :
          \/ /\ code[pc].op = "inc"
             /\ x' = [x EXCEPT ![code[pc].rd] = Xor(Successor(@), bits)]
             /\ f' = f
          \/ /\ code[pc].op = "fneg"
             /\ f' = [f EXCEPT ![code[pc].rd] = Xor(Bits \ @, bits)]
             /\ x' = x
    BY DEF Miscompute
  <2> DEFINE r == code[pc].rd
  <2>0. Over(x, 1 .. NumX) /\ Over(f, 1 .. NumF)
    BY <1>1 DEF Typed
  <2>1. CASE code[pc].op = "inc"
    <3>1. r \in 1 .. NumX
      BY <1>4, <2>1 DEF WorkSlot
    <3> PICK v : v = Xor(Successor(x[r]), bits)
      OBVIOUS
    <3>2. x' = [x EXCEPT ![r] = v] /\ f' = f
      BY <2>1
    <3> HIDE DEF r
    <3>3. But([x EXCEPT ![r] = v], x, 1 .. NumX, r, v)
      BY <2>0, <3>1, OverExcept
    <3> QED  BY <2>0, <3>2, <3>3 DEF But
  <2>2. CASE code[pc].op = "fneg"
    <3>1. r \in 1 .. NumF
      BY <1>4, <2>2 DEF WorkSlot
    <3> PICK v : v = Xor(Bits \ f[r], bits)
      OBVIOUS
    <3>2. f' = [f EXCEPT ![r] = v] /\ x' = x
      BY <2>2
    <3> HIDE DEF r
    <3>3. But([f EXCEPT ![r] = v], f, 1 .. NumF, r, v)
      BY <2>0, <3>1, OverExcept
    <3> QED  BY <2>0, <3>2, <3>3 DEF But
  <2> QED  BY <2>1, <2>2
<1>6. Typing'
  BY <1>1, <1>2, <1>5 DEF Typing, Typed
<1>7. Settled'
  BY <1>1, <1>2, <1>3, SettledKept
<1>8. Enter /\ Onward'
  BY <1>2, <1>3 DEF Enter, Onward
<1>9. ~ pc' <= StimulusAt(hart) /\ ~ pc' > CheckAt(hart) /\ stage # "draft"
  BY <1>2, <1>3 DEF InOrder
<1> QED  BY <1>2, <1>3, <1>6, <1>7, <1>8, <1>9, OnTheLine

\* A wrong turn leads to _fail.
LEMMA WrongTurnKeeps == HInv /\ WrongTurn => HInv'
<1> SUFFICES ASSUME HInv, WrongTurn PROVE HInv'
  OBVIOUS
<1>1. Typing /\ Built /\ Typed
  BY DEF HInv, Typing, Built
<1>2. /\ stage = "device" /\ fault = NONE /\ pc \in StimulusAt(hart) .. CheckAt(hart) - 1
      /\ code[pc].op = "site" /\ fault' = "turn" /\ pc' = FailAt(hart)
      /\ UNCHANGED <<hart, code, stage, x, f, csr, fs, expected, entry, tohost>>
  BY DEF WrongTurn
<1>3. tohost = NONE /\ InOrder
  BY <1>2, InWorkload
<1>4. hart.target.entangled
  <2>1. /\ pc - StimulusAt(hart) + 1 \in 1 .. Len(hart.work)
        /\ code[pc] = hart.work[pc - StimulusAt(hart) + 1]
    BY <1>1, <1>2, WorkSlots
  <2>2. DOMAIN hart.work = 1 .. Len(hart.work)
    BY <1>1, HartIs DEF Built, IsSeq
  <2> QED  BY <1>1, <1>2, <2>1, <2>2 DEF Typing
<1> PICK n : n = FailAt(hart)
  OBVIOUS
<1>5. n \in Nat /\ n # n + 1 /\ n # n + 3 /\ n \notin n + 2 .. n + 4 /\ n \in n .. n + 4
  BY <1>3 DEF InOrder
<1>6. /\ hart' = hart /\ n = FailAt(hart') /\ pc' = n /\ tohost' = NONE /\ stage' = "device"
      /\ fault' # "trap" /\ ~ Onward'
  BY <1>2, <1>3, HartAssumption DEF Onward
<1>7. Typing'
  BY <1>1, <1>2 DEF Typing, Typed
<1>8. Where'
  BY <1>2, <1>4, <1>5, <1>6 DEF Where
<1>9. Reporting(n, DIVERGENCE)'
  BY <1>5, <1>6 DEF Reporting
<1>10. Reporting(FailAt(hart), DIVERGENCE)'
  BY <1>6, <1>9
<1> QED  BY <1>6, <1>7, <1>8, <1>10 DEF HInv

\* A trap leads to the handler, because of the alignment.
LEMMA TakeTrapKeeps == Aligned /\ HInv /\ TakeTrap => HInv'
<1> SUFFICES ASSUME Aligned, HInv, TakeTrap PROVE HInv'
  OBVIOUS
<1>1. Typing /\ Built /\ Typed
  BY DEF HInv, Typing, Built
<1>2. /\ stage = "device" /\ fault = NONE /\ tohost = NONE /\ pc > 1 /\ fault' = "trap"
      /\ UNCHANGED <<hart, code, stage, expected, entry>>
  BY DEF TakeTrap
<1> PICK cause \in Causes : Trap(cause)
  BY DEF TakeTrap
<1>3. /\ pc' = SlotAt(csr["mtvec"]) /\ csr' = [csr EXCEPT !["mcause"] = cause]
      /\ UNCHANGED <<x, f, fs, tohost>>
  BY DEF Trap
<1> PICK h : h = HandlerAt(hart, expected)
  OBVIOUS
<1>4. pc' = h
  <2>1. Settled
    BY <1>2 DEF HInv, Onward
  <2>2. csr["mtvec"] = TrapVector(hart.base + Offset(hart, expected))
    BY <1>2, <2>1 DEF Settled
  <2> QED  BY <1>1, <1>3, <2>2, TrapsGoToTheHandler DEF Built
<1>5. h \in Nat
  BY <1>1, PartsInOrder DEF InOrder
<1>6. h \in h .. h + 6 /\ h # h + 1 /\ h # h + 2 /\ h # h + 2 + 1 /\ h # h + 2 + 3
      /\ h \notin h + 2 + 2 .. h + 2 + 4
  BY <1>5
<1>7. Over(csr', CsrNames)
  <2>1. Over(csr, CsrNames) /\ "mcause" \in CsrNames
    BY <1>1, CsrsAre DEF Typed
  <2>2. But([csr EXCEPT !["mcause"] = cause], csr, CsrNames, "mcause", cause)
    BY <2>1, OverExcept
  <2> QED  BY <1>3, <2>2 DEF But
<1>8. Typing'
  BY <1>1, <1>2, <1>3, <1>7 DEF Typing, Typed
<1>9. /\ h = HandlerAt(hart', expected') /\ tohost' = NONE /\ stage' = "device"
      /\ fault' # "turn" /\ ~ Onward'
  BY <1>2, <1>3, HartAssumption DEF Onward
<1>10. Where'
  BY <1>2, <1>4, <1>6, <1>9 DEF Where
<1>11. Trapping'
  <2>1. Reporting(h + 2, Successor(csr["mcause"]))'
    BY <1>4, <1>6, <1>9 DEF Reporting
  <2> QED  BY <1>4, <1>6, <1>9, <2>1 DEF Trapping
<1> QED  BY <1>8, <1>9, <1>10, <1>11 DEF HInv

\* The host stops the device.
LEMMA StopKeeps == HInv /\ Stop => HInv'
<1> SUFFICES ASSUME HInv, Stop PROVE HInv'
  OBVIOUS
<1>1. /\ stage = "device" /\ tohost # NONE /\ stage' = "done"
      /\ UNCHANGED <<hart, code, pc, x, f, csr, fs, expected, entry, fault, tohost>>
  BY DEF Stop
<1>2. Typing' /\ Where'
  BY <1>1 DEF HInv, Typing, Typed, Where, Onward
<1>3. Onward' = Onward /\ Settled' = Settled /\ Initialising' = Initialising
      /\ Checking' = Checking /\ Trapping' = Trapping
      /\ Reporting(ExitAt(hart), Verdict)' = Reporting(ExitAt(hart), Verdict)
      /\ Reporting(FailAt(hart), DIVERGENCE)' = Reporting(FailAt(hart), DIVERGENCE)
  BY <1>1 DEF Onward, Settled, Initialising, InitCsrs, InitF, InitX, Loaded, Checking, Trapping,
              Reporting, Verdict, Seen
<1> QED  BY <1>1, <1>2, <1>3 DEF HInv

\* Nothing happens.
LEMMA StutterKeeps == HInv /\ UNCHANGED vars => HInv'
<1> SUFFICES ASSUME HInv, UNCHANGED vars PROVE HInv'
  OBVIOUS
<1>1. UNCHANGED <<hart, code, stage, pc, x, f, csr, fs, expected, entry, fault, tohost>>
  BY DEF vars
<1>2. Typing' /\ Where'
  BY <1>1 DEF HInv, Typing, Typed, Where, Onward
<1>3. Onward' = Onward /\ Settled' = Settled /\ Initialising' = Initialising
      /\ Checking' = Checking /\ Trapping' = Trapping
      /\ Reporting(ExitAt(hart), Verdict)' = Reporting(ExitAt(hart), Verdict)
      /\ Reporting(FailAt(hart), DIVERGENCE)' = Reporting(FailAt(hart), DIVERGENCE)
  BY <1>1 DEF Onward, Settled, Initialising, InitCsrs, InitF, InitX, Loaded, Checking, Trapping,
              Reporting, Verdict, Seen
<1> QED  BY <1>1, <1>2, <1>3 DEF HInv

\* The invariant is inductive, wherever the code is loaded at a multiple of four:
\* the draft on Spike, the patched code, the device and its faults keep it.
THEOREM HartInvariance == Aligned /\ HartSpec => []HInv
<1> SUFFICES ASSUME Aligned PROVE HartSpec => []HInv
  OBVIOUS
<1>1. HartInit => HInv
  BY InitHolds
<1>2. HInv /\ [HartNext]_vars => HInv'
  BY DraftStepKeeps, PatchKeeps, RunStepKeeps, VerifyKeeps, MiscomputeKeeps, WrongTurnKeeps,
     TakeTrapKeeps, StopKeeps, StutterKeeps DEF HartNext
<1> QED  BY <1>1, <1>2, PTL DEF HartSpec

--------------------------------------------------------------------------------
(* What the invariant shows.                                                 *)

\* At the start of the workload everything has been loaded.
LEMMA StartsAsDrawn == HInv => StimulusStartsAsDrawn
<1> SUFFICES ASSUME HInv, pc = StimulusAt(hart)
             PROVE  /\ x = hart.draw.x
                    /\ \A i \in DOMAIN Csrs : csr[Csrs[i]] = hart.draw.csr[i]
                    /\ fs = hart.target.f
                    /\ fs => \A i \in 1 .. NumF :
                                f[i] = IF hart.target.wide THEN hart.draw.f[i]
                                       ELSE Box(hart.draw.f[i])
  BY DEF StimulusStartsAsDrawn
<1>1. Typing /\ Where /\ Built /\ Typed
  BY DEF HInv, Typing, Built
<1>2. /\ FpAt \in Nat /\ StimulusAt(hart) \in Nat /\ CheckAt(hart) \in Nat /\ ExitAt(hart) \in Nat
      /\ 1 < FpAt /\ FpAt < StimulusAt(hart) /\ StimulusAt(hart) <= CheckAt(hart)
      /\ CheckAt(hart) <= ExitAt(hart) /\ FailAt(hart) = ExitAt(hart) + 5
      /\ HandlerAt(hart, expected) \in Nat /\ FailAt(hart) <= HandlerAt(hart, expected)
  <2>1. InOrder
    BY <1>1, PartsInOrder
  <2> QED  BY <2>1 DEF InOrder
<1>3. Onward
  <2>1. /\ pc \notin FailAt(hart) .. FailAt(hart) + 4
        /\ pc \notin HandlerAt(hart, expected) .. HandlerAt(hart, expected) + 6
    BY <1>2
  <2> QED  BY <1>1, <2>1 DEF Where, Typing, Onward
<1>4. Settled /\ Initialising
  BY <1>2, <1>3 DEF HInv
<1>5. /\ NumX \in Nat /\ NumX >= 5 /\ NumF \in Nat /\ NumCsrs \in Nat /\ FpAt = 2 + 2 * NumCsrs
      /\ XAt(hart) = FpAt + (IF hart.target.f THEN 1 + 2 * NumF ELSE 0)
      /\ pc = XAt(hart) + NumX
  BY <1>1, PlacesNow
<1>6. x = hart.draw.x
  <2>1. \A r \in 1 .. NumX : pc >= XAt(hart) + r
    BY <1>5
  <2>2. \A r \in 1 .. NumX : x[r] = hart.draw.x[r]
    BY <1>4, <2>1 DEF Initialising, InitX
  <2>3. x = [r \in 1 .. NumX |-> x[r]]
    BY <1>1 DEF Typed, Over
  <2>4. hart.draw.x = [r \in 1 .. NumX |-> hart.draw.x[r]]
    BY <1>1, HartIs DEF Built
  <2> QED  BY <2>2, <2>3, <2>4
<1>7. ASSUME NEW i \in DOMAIN Csrs PROVE csr[Csrs[i]] = hart.draw.csr[i]
  <2>1. i \in 1 .. NumCsrs
    BY Constants DEF NumCsrs
  <2>2. pc > 2 * i + 1
    BY <1>2, <1>5, <2>1
  <2> QED  BY <1>4, <2>1, <2>2 DEF Initialising, InitCsrs
<1>8. fs = hart.target.f
  <2>1. pc > FpAt
    BY <1>2
  <2>2. hart.target.f \in BOOLEAN
    BY <1>1, HartIs DEF Built
  <2>3. fs = (hart.target.f /\ TRUE)
    BY <1>4, <2>1 DEF Settled
  <2> QED  BY <2>2, <2>3
<1>9. ASSUME fs, NEW i \in 1 .. NumF
      PROVE  f[i] = IF hart.target.wide THEN hart.draw.f[i] ELSE Box(hart.draw.f[i])
  <2>1. hart.target.f
    BY <1>8, <1>9
  <2>2. pc > FpAt + 2 * i
    BY <1>2, <1>5, <2>1
  <2> QED  BY <1>4, <2>1, <2>2 DEF Initialising, InitF, Loaded
<1> QED  BY <1>6, <1>7, <1>8, <1>9

\* The workload starts from the registers, the CSRs and the FPU that were drawn,
\* however many of them there are (hart.rs: init_registers).
THEOREM InitialisationIsExact == Aligned /\ HartSpec => []StimulusStartsAsDrawn
BY HartInvariance, StartsAsDrawn, PTL

\* At the end of the check x5 holds the verdict on every register.
LEMMA VerdictIsExact == HInv => CheckIsExact
<1> SUFFICES ASSUME HInv, stage \in {"final", "device"}, hart.target.selfCheck,
                    pc = ExitAt(hart), entry # NONE
             PROVE  x[X5] = IF Seen(entry) = Seen(expected) THEN {} ELSE MISMATCH
  BY DEF CheckIsExact
<1>1. Typing /\ Where /\ Built /\ Over(expected.x, 1 .. NumX)
  BY DEF HInv, Typing, Built
<1>2. /\ CheckAt(hart) \in Nat /\ ExitAt(hart) \in Nat /\ CheckAt(hart) < ExitAt(hart)
      /\ FailAt(hart) = ExitAt(hart) + 5
      /\ HandlerAt(hart, expected) \in Nat /\ FailAt(hart) <= HandlerAt(hart, expected)
  <2>1. InOrder
    BY <1>1, PartsInOrder
  <2> QED  BY <2>1 DEF InOrder
<1>3. Onward
  <2>1. /\ pc \notin FailAt(hart) .. FailAt(hart) + 4
        /\ pc \notin HandlerAt(hart, expected) .. HandlerAt(hart, expected) + 6
    BY <1>2
  <2> QED  BY <1>1, <2>1 DEF Where, Typing, Onward
<1>4. Checking
  BY <1>2, <1>3 DEF HInv
<1>5. pc = VerdictAt(hart) + 3
  BY <1>1, PlacesLater
<1>6. Judge(hart, entry, expected, x, 3)
  BY <1>4, <1>5, OfJudge DEF Checking
<1>7. Seen(entry) = Seen(expected) <=> AllSame(hart, entry, expected)
  BY <1>1, <1>4, AllSameIs DEF Checking, Built
<1> QED  BY <1>6, <1>7 DEF Judge

\* The check tells any register that is not as expected, and none that is, though
\* it computes in those registers (hart.rs: self_check_block).
THEOREM SelfCheckIsExact == Aligned /\ HartSpec => []CheckIsExact
BY HartInvariance, VerdictIsExact, PTL

\* What is in the mailbox is the report that put it there.
LEMMA CauseIsTold == HInv => ReportTellsTheCause
<1> SUFFICES ASSUME HInv, tohost # NONE
             PROVE  tohost = {0} \cup ShiftLeft(
                       IF fault = "trap" THEN Successor(csr["mcause"])
                       ELSE IF fault = "turn" THEN DIVERGENCE
                       ELSE IF hart.target.selfCheck /\ Seen(entry) # Seen(expected) THEN MISMATCH
                       ELSE {})
  BY DEF ReportTellsTheCause
<1>1. Typing /\ Where /\ Built
  BY DEF HInv, Typing, Built
<1>2. CASE fault = "trap"
  <2>1. Reporting(HandlerAt(hart, expected) + 2, Successor(csr["mcause"]))
    BY <1>2 DEF HInv, Trapping
  <2> QED  BY <1>2, <2>1 DEF Reporting
<1>3. CASE fault = "turn"
  <2>1. Reporting(FailAt(hart), DIVERGENCE)
    BY <1>3 DEF HInv
  <2> QED  BY <1>3, <2>1 DEF Reporting
<1>4. CASE fault \notin {"turn", "trap"}
  <2>1. Onward
    BY <1>1, <1>4 DEF Typing, Onward
  <2>2. pc > ExitAt(hart)
    <3>1. ExitAt(hart) \in Nat
      BY <1>1, PartsInOrder DEF InOrder
    <3>2. pc = ExitAt(hart) + 4
      BY <1>1, <1>4 DEF Where
    <3> QED  BY <3>1, <3>2
  <2>3. Reporting(ExitAt(hart), Verdict)
    BY <2>1, <2>2 DEF HInv
  <2> QED  BY <1>4, <2>3 DEF Reporting, Verdict
<1> QED  BY <1>2, <1>3, <1>4

\* Whatever goes wrong on the device, and whenever, the exit code is its cause: the
\* trap's, the divergence's, the mismatch's, or success (README, Self-check).
THEOREM ExitCodeTellsTheCause == Aligned /\ HartSpec => []ReportTellsTheCause
BY HartInvariance, CauseIsTold, PTL
================================================================================
