--------------------------- MODULE SiteBuilderProofs ---------------------------
(***************************************************************************)
(* Proofs about SiteBuilder, for every set of registers, every workload and *)
(* every command line: first of the generator's own bookkeeping (the list    *)
(* `fresh', the guards), then of the sites it places.                        *)
(*                                                                         *)
(* SitesTileTheCode: the sites of a program occupy consecutive, disjoint     *)
(* ranges of its code and everything between them is workload, so that       *)
(* rendering a site over its placeholders touches nothing else.  Every       *)
(* operator of the builder either appends one slot of workload or one site   *)
(* whose footprint is exactly what it appends (PlainTiles, SiteTiles).       *)
(*                                                                         *)
(* Laid: where the parts of a site are and what goes with it, on which the   *)
(* proofs about the runs of a program (EntangleProofs) rest.                 *)
(*                                                                         *)
(* UncheckedIsBounded, SitesReadPending, JumpsSparePending: what sites read  *)
(* and what they destroy.  What was pending where an old site stands does    *)
(* not change when code is appended (PendingStable), so each is shown for    *)
(* the site that is added; there FreshIsPending says that `fresh', from      *)
(* which the generator draws, is what is pending.                            *)
(***************************************************************************)
EXTENDS SiteBuilder, FiniteSetTheorems, SequenceTheorems, TLAPS

--------------------------------------------------------------------------------
(* Sequences without repetitions.                                           *)

\* retain removes the register and nothing else, and keeps the rest distinct.
LEMMA WithoutProperties ==
  ASSUME NEW S, NEW s \in Seq(S), Distinct(s), NEW r
  PROVE  /\ Without(s, r) \in Seq(S)
         /\ Distinct(Without(s, r))
         /\ Elems(Without(s, r)) = Elems(s) \ {r}
<1>1. CASE r \notin Elems(s)
  BY <1>1 DEF Without
<1>2. CASE r \in Elems(s)
  <2> DEFINE p == CHOOSE i \in DOMAIN s : s[i] = r
             t == [i \in 1 .. Len(s) - 1 |-> IF i < p THEN s[i] ELSE s[i + 1]]
  <2>1. p \in 1 .. Len(s) /\ s[p] = r
    BY <1>2 DEF Elems
  <2>2. Without(s, r) = t
    BY <1>2 DEF Without
  <2> HIDE DEF p
  <2>3. Len(s) - 1 \in Nat
    BY <2>1
  <2>4. \A i \in 1 .. Len(s) - 1 : t[i] \in S
    BY <2>1
  <2>5. t \in Seq(S) /\ Len(t) = Len(s) - 1 /\ DOMAIN t = 1 .. Len(s) - 1
    BY <2>3, <2>4, IsASeq
  <2>6. Distinct(t)
    BY <2>1, <2>5 DEF Distinct
  <2>7. ASSUME NEW e \in Elems(t) PROVE e \in Elems(s) \ {r}
    <3>1. PICK i \in 1 .. Len(s) - 1 : t[i] = e
      BY <2>5 DEF Elems
    <3> QED  BY <2>1, <3>1 DEF Elems, Distinct
  <2>8. ASSUME NEW e \in Elems(s) \ {r} PROVE e \in Elems(t)
    <3>1. PICK i \in 1 .. Len(s) : s[i] = e
      BY DEF Elems
    <3>2. CASE i < p
      <4>1. i \in 1 .. Len(s) - 1 /\ t[i] = e
        BY <2>1, <3>1, <3>2
      <4> QED  BY <4>1, <2>5 DEF Elems
    <3>3. CASE i > p
      <4>1. i - 1 \in 1 .. Len(s) - 1 /\ t[i - 1] = e
        BY <2>1, <3>1, <3>3
      <4> QED  BY <4>1, <2>5 DEF Elems
    <3> QED  BY <2>1, <3>1, <3>2, <3>3
  <2> QED  BY <2>2, <2>5, <2>6, <2>7, <2>8
<1> QED  BY <1>1, <1>2

\* A new element goes last without disturbing the others.
LEMMA AppendDistinct ==
  ASSUME NEW S, NEW s \in Seq(S), Distinct(s), NEW r \in S, r \notin Elems(s)
  PROVE  /\ Append(s, r) \in Seq(S)
         /\ Distinct(Append(s, r))
         /\ Elems(Append(s, r)) = Elems(s) \cup {r}
<1>1. /\ Append(s, r) \in Seq(S)
      /\ Len(Append(s, r)) = Len(s) + 1
      /\ \A i \in 1 .. Len(s) : Append(s, r)[i] = s[i]
      /\ Append(s, r)[Len(s) + 1] = r
  BY AppendProperties
<1>2. Distinct(Append(s, r))
  BY <1>1 DEF Distinct, Elems
<1>3. Elems(Append(s, r)) = Elems(s) \cup {r}
  BY <1>1 DEF Elems
<1> QED  BY <1>1, <1>2, <1>3

\* The registers a site peeks at are distinct and never the excluded one.
LEMMA PeekProperties ==
  ASSUME NEW b, b.fresh \in Seq(Regs), Distinct(b.fresh),
         NEW max \in Nat \ {0}, NEW except, NEW regs \in Peek(b, max, except)
  PROVE  /\ regs \in Seq(Regs)
         /\ regs # <<>>
         /\ Distinct(regs)
         /\ except \notin Elems(regs)
<1> DEFINE w == Without(b.fresh, except)
           n == IF Len(w) < max THEN Len(w) ELSE max
<1>1. w \in Seq(Regs) /\ Distinct(w) /\ except \notin Elems(w)
  BY WithoutProperties
<1> HIDE DEF w
<1>2. n \in Nat /\ n <= Len(w)
  BY <1>1, LenProperties
<1>3. /\ Freshest(w, max) \in Seq(Regs)
      /\ DOMAIN Freshest(w, max) = 1 .. n
      /\ \A i \in 1 .. n : Freshest(w, max)[i] = w[Len(w) + 1 - i]
  <2>1. Freshest(w, max) = [i \in 1 .. n |-> w[Len(w) + 1 - i]]
    BY DEF Freshest
  <2>2. \A i \in 1 .. n : w[Len(w) + 1 - i] \in Regs
    BY <1>1, <1>2
  <2> QED  BY <1>2, <2>1, <2>2, IsASeq
<1>4. CASE regs = Freshest(w, max) /\ regs # <<>>
  <2>1. Distinct(regs)
    BY <1>1, <1>2, <1>3, <1>4 DEF Distinct
  <2>2. except \notin Elems(regs)
    BY <1>1, <1>2, <1>3, <1>4 DEF Elems
  <2> QED  BY <1>3, <1>4, <2>1, <2>2
<1>5. CASE \E r \in Regs \ {except} : regs = <<r>>
  BY <1>5 DEF Distinct, Elems
<1> QED  BY <1>4, <1>5 DEF Peek, w

--------------------------------------------------------------------------------
(* What the operators of the builder append.                                 *)

BlkType == [fresh : Seq(Regs), instrs : Seq(SlotType), sites : Seq(SiteType)]

\* The slot i of the last n of m, counted from the first of them.
LEMMA Shift ==
  ASSUME NEW a \in Nat, NEW n \in Nat, NEW m, m = a + n, NEW i \in a + 1 .. m
  PROVE  i - a \in 1 .. n /\ a + (i - a) = i
OBVIOUS

LEMMA SizeType ==
  ASSUME NEW b \in BlkType
  PROVE  /\ Size(b) \in Nat /\ DOMAIN b.instrs = 1 .. Size(b)
         /\ NumSites(b) \in Nat /\ DOMAIN b.sites = 1 .. NumSites(b)
BY DEF BlkType, Size, NumSites

LEMMA EmitShape ==
  ASSUME NEW b \in BlkType, NEW slots \in Seq(SlotType)
  PROVE  /\ Emit(b, slots) \in BlkType
         /\ Emit(b, slots).fresh = b.fresh
         /\ Emit(b, slots).sites = b.sites
         /\ NumSites(Emit(b, slots)) = NumSites(b)
         /\ Size(Emit(b, slots)) = Size(b) + Len(slots)
         /\ \A i \in 1 .. Size(b) :
               Emit(b, slots).instrs[i] = b.instrs[i]
         /\ \A i \in 1 .. Len(slots) :
               Emit(b, slots).instrs[Size(b) + i] = slots[i]
<1>1. b.instrs \in Seq(SlotType)
  BY DEF BlkType
<1>2. b.instrs \o slots \in Seq(SlotType)
  BY <1>1
<1>3. /\ Emit(b, slots) \in BlkType
      /\ Emit(b, slots).fresh = b.fresh
      /\ Emit(b, slots).sites = b.sites
      /\ Emit(b, slots).instrs = b.instrs \o slots
  BY <1>2 DEF Emit, BlkType
<1> QED  BY <1>1, <1>3, ConcatProperties DEF Size, NumSites

LEMMA AddSiteShape ==
  ASSUME NEW b \in BlkType, NEW site \in SiteType
  PROVE  /\ AddSite(b, site) \in BlkType
         /\ AddSite(b, site).fresh = b.fresh
         /\ AddSite(b, site).instrs = b.instrs
         /\ Size(AddSite(b, site)) = Size(b)
         /\ NumSites(AddSite(b, site)) = NumSites(b) + 1
         /\ \A k \in 1 .. NumSites(b) : AddSite(b, site).sites[k] = b.sites[k]
         /\ AddSite(b, site).sites[NumSites(b) + 1] = site
<1>1. b.sites \in Seq(SiteType)
  BY DEF BlkType
<1>2. Append(b.sites, site) \in Seq(SiteType)
  BY <1>1
<1>3. /\ AddSite(b, site) \in BlkType
      /\ AddSite(b, site).fresh = b.fresh
      /\ AddSite(b, site).instrs = b.instrs
      /\ AddSite(b, site).sites = Append(b.sites, site)
  BY <1>2 DEF AddSite, BlkType
<1> QED  BY <1>1, <1>3, AppendProperties DEF Size, NumSites

\* A value site appends ProducerLen + Len(rdeps) placeholders.
LEMMA ValueSiteShape ==
  ASSUME NEW b \in BlkType, NEW rprod \in Regs, NEW rdeps \in Seq(Regs),
         NEW failAt \in Nat,
         NEW dest \in DestType,
         NEW c, c = ValueSite(b, rprod, rdeps, dest, failAt)
  PROVE  /\ c \in BlkType
         /\ c.fresh = b.fresh
         /\ Size(c) = Size(b) + 1 + Len(rdeps)
         /\ \A i \in 1 .. Size(b) : c.instrs[i] = b.instrs[i]
         /\ \A i \in Size(b) + 1 .. Size(c) : c.instrs[i] = Nop
         /\ NumSites(c) = NumSites(b) + 1
         /\ \A k \in 1 .. NumSites(b) : c.sites[k] = b.sites[k]
         /\ c.sites[NumSites(b) + 1] =
               [kind |-> "value", at |-> Size(b) + 1, failAt |-> failAt,
                rprod |-> rprod, rdeps |-> rdeps, dest |-> dest]
<1> DEFINE n == 1 + Len(rdeps)
           nops == [i \in 1 .. n |-> Nop]
           site == [kind |-> "value", at |-> Size(b) + 1,
                    failAt |-> failAt, rprod |-> rprod, rdeps |-> rdeps,
                    dest |-> dest]
           d == Emit(b, nops)
<1>1. Len(rdeps) \in Nat /\ Size(b) \in Nat
  BY SizeType
<1>2. n \in Nat /\ n = 1 + Len(rdeps)
  BY <1>1
<1>3. nops \in Seq(SlotType) /\ Len(nops) = n /\ \A i \in 1 .. n : nops[i] = Nop
  <2>1. Nop \in SlotType
    BY DEF SlotType
  <2> QED  BY <1>2, <2>1, IsASeq
<1>4. site \in SiteType
  BY <1>1 DEF SiteType
<1>5. c = AddSite(d, site)
  BY DEF ValueSite, ProducerLen
<1> HIDE DEF nops, site, d, n
<1>6. /\ d \in BlkType /\ d.fresh = b.fresh /\ d.sites = b.sites
      /\ NumSites(d) = NumSites(b)
      /\ Size(d) = Size(b) + n
      /\ \A i \in 1 .. Size(b) : d.instrs[i] = b.instrs[i]
      /\ \A i \in 1 .. n : d.instrs[Size(b) + i] = Nop
  BY <1>3, EmitShape DEF d
<1>7. \A i \in Size(b) + 1 .. Size(d) : d.instrs[i] = Nop
  <2> TAKE i \in Size(b) + 1 .. Size(d)
  <2>1. i - Size(b) \in 1 .. n /\ Size(b) + (i - Size(b)) = i
    <3>1. Size(d) = Size(b) + n
      BY <1>6
    <3> QED  BY <1>1, <1>2, <3>1, Shift
  <2> QED  BY <1>6, <2>1
<1>8. /\ c \in BlkType /\ c.fresh = d.fresh /\ c.instrs = d.instrs
      /\ Size(c) = Size(d)
      /\ NumSites(c) = NumSites(b) + 1
      /\ \A k \in 1 .. NumSites(b) : c.sites[k] = b.sites[k]
      /\ c.sites[NumSites(b) + 1] = site
  BY <1>4, <1>5, <1>6, AddSiteShape
<1>9. Size(c) = Size(b) + 1 + Len(rdeps)
  BY <1>1, <1>2, <1>6, <1>8
<1> QED  BY <1>6, <1>7, <1>8, <1>9 DEF site

LEMMA BranchSiteShape ==
  ASSUME NEW b \in BlkType, NEW kind \in BranchKinds,
         NEW rs1 \in Regs, NEW rs2 \in Regs \cup {ZERO}, NEW taken \in BOOLEAN,
         NEW c, c = BranchSite(b, kind, rs1, rs2, taken)
  PROVE  /\ c \in BlkType
         /\ c.fresh = b.fresh
         /\ Size(c) > Size(b)
         /\ \A i \in 1 .. Size(b) : c.instrs[i] = b.instrs[i]
         /\ \A i \in Size(b) + 1 .. Size(c) :
               c.instrs[i] \in {Nop, JalSkip}
         /\ NumSites(c) = NumSites(b) + 1
         /\ \A k \in 1 .. NumSites(b) : c.sites[k] = b.sites[k]
         /\ c.sites[NumSites(b) + 1].kind = kind
         /\ c.sites[NumSites(b) + 1].at = Size(b) + 1
         /\ c.sites[NumSites(b) + 1].rs1 = rs1
<1> DEFINE slots == BranchSlots(taken)
           site == [kind |-> kind, at |-> Size(b) + 1,
                    failAt |-> BranchFailAt(b, taken),
                    rs1 |-> rs1, rs2 |-> rs2, taken |-> taken]
           d == Emit(b, slots)
<1>1. Size(b) \in Nat
  BY SizeType
<1>2. /\ slots \in Seq(SlotType) /\ Len(slots) \in Nat /\ Len(slots) > 1
      /\ \A i \in 1 .. Len(slots) : slots[i] \in {Nop, JalSkip}
  <2>1. Nop \in SlotType /\ JalSkip \in SlotType
    BY DEF SlotType
  <2>2. CASE taken
    <3>1. slots = <<Nop, Nop>>
      BY <2>2 DEF BranchSlots
    <3> QED  BY <2>1, <3>1
  <2>3. CASE ~ taken
    <3>1. slots = <<Nop, JalSkip, Nop>>
      BY <2>3 DEF BranchSlots
    <3> QED  BY <2>1, <3>1
  <2> QED  BY <2>2, <2>3
<1>3. site \in SiteType
  <2>1. BranchFailAt(b, taken) \in Nat \ {0}
    <3>1. CASE taken
      BY <1>1, <3>1 DEF BranchFailAt
    <3>2. CASE ~ taken
      BY <1>1, <3>2 DEF BranchFailAt
    <3> QED  BY <3>1, <3>2
  <2>2. Size(b) + 1 \in Nat \ {0}
    BY <1>1
  <2>3. site \in [kind : BranchKinds, at : Nat \ {0},
                 failAt : Nat \ {0}, rs1 : Regs, rs2 : Regs \cup {ZERO},
                 taken : BOOLEAN]
    BY <2>1, <2>2
  <2> QED  BY <2>3 DEF SiteType
<1>4. c = AddSite(d, site)
  BY DEF BranchSite
<1>5. site.kind = kind /\ site.at = Size(b) + 1 /\ site.rs1 = rs1
  OBVIOUS
<1> HIDE DEF slots, site, d
<1>6. /\ d \in BlkType /\ d.fresh = b.fresh /\ d.sites = b.sites
      /\ NumSites(d) = NumSites(b)
      /\ Size(d) = Size(b) + Len(slots)
      /\ \A i \in 1 .. Size(b) : d.instrs[i] = b.instrs[i]
      /\ \A i \in 1 .. Len(slots) : d.instrs[Size(b) + i] = slots[i]
  BY <1>2, EmitShape DEF d
<1>7. \A i \in Size(b) + 1 .. Size(d) : d.instrs[i] \in {Nop, JalSkip}
  <2> TAKE i \in Size(b) + 1 .. Size(d)
  <2>1. /\ i - Size(b) \in 1 .. Len(slots)
        /\ Size(b) + (i - Size(b)) = i
    <3>1. Size(d) = Size(b) + Len(slots) /\ Len(slots) \in Nat
      BY <1>2, <1>6
    <3> QED  BY <1>1, <3>1, Shift
  <2> QED  BY <1>2, <1>6, <2>1
<1>8. /\ c \in BlkType /\ c.fresh = d.fresh /\ c.instrs = d.instrs
      /\ Size(c) = Size(d)
      /\ NumSites(c) = NumSites(b) + 1
      /\ \A k \in 1 .. NumSites(b) : c.sites[k] = b.sites[k]
      /\ c.sites[NumSites(b) + 1] = site
  BY <1>3, <1>4, <1>6, AddSiteShape
<1>9. Size(c) > Size(b)
  <2>1. /\ Size(c) = Size(b) + Len(slots)
        /\ Len(slots) \in Nat /\ Len(slots) > 1
    BY <1>2, <1>6, <1>8
  <2> QED  BY <1>1, <2>1
<1> QED  BY <1>5, <1>6, <1>7, <1>8, <1>9

--------------------------------------------------------------------------------
(* Appending code does not change what is pending before it.                 *)

At(b, k) == b.sites[k].at

\* Sites lie within the code; the site before a guard is its accumulator.
WellPlaced(b) ==
    \A k \in 1 .. NumSites(b) :
        /\ At(b, k) \in 1 .. Size(b)
        /\ b.sites[k].kind = "guard" => k > 1

\* c is b with code and sites appended.
Extends(b, c) ==
    /\ Size(b) <= Size(c)
    /\ \A i \in 1 .. Size(b) : c.instrs[i] = b.instrs[i]
    /\ NumSites(b) <= NumSites(c)
    /\ \A k \in 1 .. NumSites(b) : c.sites[k] = b.sites[k]
    /\ \A k \in NumSites(b) + 1 .. NumSites(c) : At(c, k) > Size(b)

LEMMA RetiresStable ==
  ASSUME NEW b \in BlkType, NEW c \in BlkType, WellPlaced(b), Extends(b, c),
         NEW i \in 1 .. Size(b), NEW r
  PROVE  Retires(c, i, r) <=> Retires(b, i, r)
<1> DEFINE By(d, k) == /\ At(d, k) = i
                       /\ \/ d.sites[k].kind = "value" /\ d.sites[k].rprod = r
                          \/ /\ d.sites[k].kind = "guard"
                             /\ r \in Elems(d.sites[k - 1].rdeps)
           Jumps(d) == d.instrs[i].op \in Overwriting /\ d.instrs[i].rd = r
<1>1. /\ Size(b) \in Nat /\ NumSites(b) \in Nat /\ NumSites(c) \in Nat
      /\ DOMAIN b.sites = 1 .. NumSites(b) /\ DOMAIN c.sites = 1 .. NumSites(c)
  BY SizeType
<1>2. Retires(b, i, r) <=> Jumps(b) \/ \E k \in 1 .. NumSites(b) : By(b, k)
  BY <1>1 DEF Retires, At
<1>3. Retires(c, i, r) <=> Jumps(c) \/ \E k \in 1 .. NumSites(c) : By(c, k)
  BY <1>1 DEF Retires, At
<1>4. Jumps(c) <=> Jumps(b)
  BY DEF Extends
<1>5. \A k \in 1 .. NumSites(b) : By(c, k) <=> By(b, k)
  <2> TAKE k \in 1 .. NumSites(b)
  <2>1. c.sites[k] = b.sites[k] /\ At(c, k) = At(b, k)
    BY DEF Extends, At
  <2>2. ASSUME b.sites[k].kind = "guard" PROVE c.sites[k - 1] = b.sites[k - 1]
    <3>1. k > 1
      BY <2>2 DEF WellPlaced
    <3>2. k - 1 \in 1 .. NumSites(b)
      BY <1>1, <3>1
    <3> QED  BY <3>2 DEF Extends
  <2> QED  BY <2>1, <2>2
<1>6. \A k \in 1 .. NumSites(c) : By(c, k) => k \in 1 .. NumSites(b)
  <2> SUFFICES ASSUME NEW k \in 1 .. NumSites(c), At(c, k) = i,
                      k \notin 1 .. NumSites(b)
               PROVE  FALSE
    OBVIOUS
  <2>1. k \in NumSites(b) + 1 .. NumSites(c)
    BY <1>1
  <2>2. At(c, k) > Size(b)
    BY <2>1 DEF Extends
  <2> QED  BY <1>1, <2>2
<1>7. \A k \in 1 .. NumSites(b) : k \in 1 .. NumSites(c)
  BY <1>1 DEF Extends
<1> HIDE DEF By, Jumps
<1> QED  BY <1>2, <1>3, <1>4, <1>5, <1>6, <1>7

LEMMA WritesStable ==
  ASSUME NEW b, NEW c, Extends(b, c), NEW i \in 1 .. Size(b), NEW r
  PROVE  Writes(c, i, r) <=> Writes(b, i, r)
BY DEF Extends, Writes

LEMMA PendingAtMember ==
  ASSUME NEW b, NEW n \in Nat
  PROVE  \A r : r \in PendingAt(b, n + 1) <=>
           /\ r \in Regs
           /\ \E j \in 1 .. n : /\ Writes(b, j, r)
                              /\ \A k \in j + 1 .. n : ~ Retires(b, k, r)
<1>1. n + 1 - 1 = n
  OBVIOUS
<1>2. PendingAt(b, n + 1) =
        {r \in Regs : \E j \in 1 .. n : /\ Writes(b, j, r)
                                     /\ \A k \in j + 1 .. n : ~ Retires(b, k, r)}
  BY <1>1 DEF PendingAt
<1> QED  BY <1>2

LEMMA PendingStable ==
  ASSUME NEW b \in BlkType, NEW c \in BlkType, WellPlaced(b), Extends(b, c),
         NEW i \in 1 .. Size(b) + 1
  PROVE  PendingAt(c, i) = PendingAt(b, i)
<1>1. Size(b) \in Nat
  BY SizeType
<1>2. \A j \in 1 .. i - 1 : j \in 1 .. Size(b)
  BY <1>1
<1>3. \A j \in 1 .. i - 1, r \in Regs : Writes(c, j, r) <=> Writes(b, j, r)
  BY <1>2, WritesStable
<1>4. \A j \in 1 .. i - 1, r \in Regs : Retires(c, j, r) <=> Retires(b, j, r)
  BY <1>2, RetiresStable
<1>5. \A j \in 1 .. i - 1 : \A k \in j + 1 .. i - 1 : k \in 1 .. i - 1
  BY <1>1
<1> QED  BY <1>3, <1>4, <1>5 DEF PendingAt

\* Appended code that holds no workload instruction leaves pending what none
\* of its slots retires.
LEMMA PendingAfterSites ==
  ASSUME NEW b \in BlkType, NEW c \in BlkType, WellPlaced(b), Extends(b, c),
         \A i \in Size(b) + 1 .. Size(c), r \in Regs : ~ Writes(c, i, r)
  PROVE  Pending(c) = {r \in Pending(b) :
                         \A k \in Size(b) + 1 .. Size(c) : ~ Retires(c, k, r)}
<1>1. Size(b) \in Nat /\ Size(c) \in Nat /\ Size(b) <= Size(c)
  BY SizeType DEF Extends
<1>2. Size(b) + 1 \in 1 .. Size(b) + 1
  BY <1>1
<1>3. Pending(b) = PendingAt(c, Size(b) + 1)
  BY <1>2, PendingStable DEF Pending
<1>5. \A r : r \in Pending(b) <=>
         /\ r \in Regs
         /\ \E j \in 1 .. Size(b) :
               /\ Writes(c, j, r)
               /\ \A k \in j + 1 .. Size(b) : ~ Retires(c, k, r)
  BY <1>1, <1>3, PendingAtMember
<1>6. \A r : r \in Pending(c) <=>
         /\ r \in Regs
         /\ \E j \in 1 .. Size(c) :
               /\ Writes(c, j, r)
               /\ \A k \in j + 1 .. Size(c) : ~ Retires(c, k, r)
  BY <1>1, PendingAtMember DEF Pending
<1>7. ASSUME NEW r \in Pending(c)
      PROVE  /\ r \in Pending(b)
             /\ \A k \in Size(b) + 1 .. Size(c) : ~ Retires(c, k, r)
  <2>1. PICK j \in 1 .. Size(c) : /\ Writes(c, j, r)
                                  /\ \A k \in j + 1 .. Size(c) : ~ Retires(c, k, r)
    BY <1>6, <1>7
  <2>2. r \in Regs
    BY <1>6, <1>7
  <2>3. j \in 1 .. Size(b)
    <3>1. j \notin Size(b) + 1 .. Size(c)
      BY <2>1, <2>2
    <3> QED  BY <1>1, <3>1
  <2>4. \A k \in j + 1 .. Size(b) : k \in j + 1 .. Size(c)
    BY <1>1, <2>3
  <2>5. \A k \in Size(b) + 1 .. Size(c) : k \in j + 1 .. Size(c)
    BY <1>1, <2>3
  <2> QED  BY <1>5, <2>1, <2>2, <2>3, <2>4, <2>5
<1>8. ASSUME NEW r \in Pending(b),
             \A k \in Size(b) + 1 .. Size(c) : ~ Retires(c, k, r)
      PROVE  r \in Pending(c)
  <2>1. PICK j \in 1 .. Size(b) : /\ Writes(c, j, r)
                                  /\ \A k \in j + 1 .. Size(b) : ~ Retires(c, k, r)
    BY <1>5, <1>8
  <2>2. j \in 1 .. Size(c)
    BY <1>1
  <2>3. \A k \in j + 1 .. Size(c) :
          k \in j + 1 .. Size(b) \/ k \in Size(b) + 1 .. Size(c)
    BY <1>1
  <2>4. r \in Regs
    BY <1>5, <1>8
  <2> QED  BY <1>6, <1>8, <2>1, <2>2, <2>3, <2>4
<1> QED  BY <1>7, <1>8

--------------------------------------------------------------------------------
(* What each kind of appended code does to the pending registers.            *)

LEMMA PlaceholdersAreNotWork ==
  /\ Nop \notin WorkInstrs /\ Nop.op \notin Overwriting
  /\ JalSkip \notin WorkInstrs /\ JalSkip.op \notin Overwriting
<1>1. Nop.op = "nop" /\ JalSkip.op = "skip"
      /\ Nop.op \notin Overwriting /\ JalSkip.op \notin Overwriting
  BY DEF Nop, JalSkip, Overwriting
<1>2. \A w \in WorkInstrs : w.op # "nop" /\ w.op # "skip"
  BY SiteBuilderAssumption
<1> QED  BY <1>1, <1>2

\* The sites of a well placed block retire nothing past its end.
LEMMA OldSitesRetireNothing ==
  ASSUME NEW b \in BlkType, WellPlaced(b),
         NEW k \in 1 .. NumSites(b), NEW i, i \in Int, i > Size(b)
  PROVE  At(b, k) # i
<1>1. At(b, k) \in 1 .. Size(b) /\ Size(b) \in Nat
  BY SizeType DEF WellPlaced
<1> QED  BY <1>1

\* c is b with a value site appended, made by a builder d that differs from b
\* in `fresh'.
ValueAdded(b, d, c, rprod, rdeps) ==
    /\ c \in BlkType
    /\ c.fresh = d.fresh
    /\ Extends(b, c)
    /\ WellPlaced(c)
    /\ Pending(c) = Pending(b) \ {rprod}
    /\ NumSites(c) = NumSites(b) + 1
    /\ c.sites[NumSites(c)].kind = "value"
    /\ At(c, NumSites(c)) = Size(b) + 1
    /\ c.sites[NumSites(c)].rprod = rprod
    /\ c.sites[NumSites(c)].rdeps = rdeps

LEMMA ValueSiteStep ==
  ASSUME NEW b \in BlkType, WellPlaced(b),
         NEW d \in BlkType, d.instrs = b.instrs, d.sites = b.sites,
         NEW rprod \in Regs, NEW rdeps \in Seq(Regs), NEW failAt \in Nat,
         NEW dest \in DestType
  PROVE  ValueAdded(b, d, ValueSite(d, rprod, rdeps, dest, failAt), rprod, rdeps)
<1> SUFFICES ASSUME NEW c, c = ValueSite(d, rprod, rdeps, dest, failAt)
             PROVE  ValueAdded(b, d, c, rprod, rdeps)
  OBVIOUS
<1> DEFINE n == NumSites(b) + 1
<1>1. Size(d) = Size(b) /\ NumSites(d) = NumSites(b)
  BY DEF Size, NumSites
<1>2. /\ c \in BlkType /\ c.fresh = d.fresh
      /\ Size(c) = Size(b) + 1 + Len(rdeps)
      /\ \A i \in 1 .. Size(b) : c.instrs[i] = b.instrs[i]
      /\ \A i \in Size(b) + 1 .. Size(c) : c.instrs[i] = Nop
      /\ NumSites(c) = n
      /\ \A k \in 1 .. NumSites(b) : c.sites[k] = b.sites[k]
      /\ c.sites[n] =
           [kind |-> "value", at |-> Size(b) + 1, failAt |-> failAt,
            rprod |-> rprod, rdeps |-> rdeps, dest |-> dest]
  BY <1>1, ValueSiteShape
<1>3. /\ Size(b) \in Nat /\ Size(c) \in Nat /\ Len(rdeps) \in Nat
      /\ NumSites(b) \in Nat /\ Size(c) > Size(b)
      /\ DOMAIN c.sites = 1 .. n
  <2>1. Len(rdeps) \in Nat
    OBVIOUS
  <2>2. Size(b) \in Nat /\ NumSites(b) \in Nat /\ DOMAIN c.sites = 1 .. n
    BY <1>2, SizeType
  <2> QED  BY <1>2, <2>1, <2>2
<1>4. /\ At(c, n) = Size(b) + 1
      /\ c.sites[n].kind = "value" /\ c.sites[n].rprod = rprod
      /\ c.sites[n].rdeps = rdeps
  BY <1>2 DEF At
<1>5. \A k \in 1 .. n : k \in 1 .. NumSites(b) \/ k = n
  BY <1>3
<1> HIDE DEF n
<1>6. Extends(b, c)
  <2>1. \A k \in NumSites(b) + 1 .. NumSites(c) : k = n
    BY <1>2, <1>3 DEF n
  <2>2. At(c, n) > Size(b)
    BY <1>3, <1>4
  <2>3. NumSites(b) <= NumSites(c)
    BY <1>2, <1>3 DEF n
  <2> QED  BY <1>2, <1>3, <2>1, <2>2, <2>3 DEF Extends
<1>7. \A k \in 1 .. NumSites(b) : c.sites[k] = b.sites[k] /\ At(c, k) = At(b, k)
  BY <1>2 DEF At
<1>8. WellPlaced(c)
  <2> SUFFICES ASSUME NEW k \in 1 .. NumSites(c)
               PROVE  At(c, k) \in 1 .. Size(c) /\ (c.sites[k].kind = "guard" => k > 1)
    BY DEF WellPlaced
  <2>1. CASE k \in 1 .. NumSites(b)
    <3>1. At(b, k) \in 1 .. Size(b) /\ (b.sites[k].kind = "guard" => k > 1)
      BY <2>1 DEF WellPlaced
    <3>2. At(c, k) \in 1 .. Size(b) /\ (c.sites[k].kind = "guard" => k > 1)
      BY <1>7, <2>1, <3>1
    <3> QED  BY <1>3, <3>2
  <2>2. CASE k = n
    BY <1>3, <1>4, <2>2
  <2> QED  BY <1>2, <1>5, <2>1, <2>2
<1>9. ASSUME NEW i \in Size(b) + 1 .. Size(c), NEW r
      PROVE  /\ ~ Writes(c, i, r)
             /\ Retires(c, i, r) <=> (i = Size(b) + 1 /\ r = rprod)
  <2>1. c.instrs[i] = Nop
    BY <1>2
  <2>2. i \in Int /\ i > Size(b)
    BY <1>3
  <2>3. \A k \in 1 .. NumSites(b) : At(c, k) # i
    BY <1>7, <2>2, OldSitesRetireNothing
  <2>4. Retires(c, i, r) <=>
          \E k \in 1 .. n : /\ At(c, k) = i
                           /\ \/ c.sites[k].kind = "value" /\ c.sites[k].rprod = r
                              \/ /\ c.sites[k].kind = "guard"
                                 /\ r \in Elems(c.sites[k - 1].rdeps)
    BY <1>3, <2>1, PlaceholdersAreNotWork DEF Retires, At
  <2>5. n \in 1 .. n
    BY <1>3 DEF n
  <2>6. Retires(c, i, r) <=> (At(c, n) = i /\ rprod = r)
    BY <1>4, <1>5, <2>3, <2>4, <2>5
  <2> QED  BY <1>4, <2>1, <2>6, PlaceholdersAreNotWork DEF Writes
<1>10. Pending(c) = Pending(b) \ {rprod}
  <2>1. Pending(c) = {r \in Pending(b) :
                        \A k \in Size(b) + 1 .. Size(c) : ~ Retires(c, k, r)}
    BY <1>2, <1>6, <1>9, PendingAfterSites
  <2>2. Size(b) + 1 \in Size(b) + 1 .. Size(c)
    BY <1>3
  <2> QED  BY <1>9, <2>1, <2>2
<1> QED  BY <1>2, <1>4, <1>6, <1>8, <1>10 DEF n, ValueAdded

\* c is b with a branch site appended.
BranchAdded(b, c, kind, rs1) ==
    /\ c \in BlkType
    /\ c.fresh = b.fresh
    /\ Extends(b, c)
    /\ WellPlaced(c)
    /\ Pending(c) = IF kind = "guard"
                    THEN Pending(b) \ Elems(b.sites[NumSites(b)].rdeps)
                    ELSE Pending(b)
    /\ NumSites(c) = NumSites(b) + 1
    /\ c.sites[NumSites(c)].kind = kind
    /\ c.sites[NumSites(c)].rs1 = rs1

LEMMA BranchSiteStep ==
  ASSUME NEW b \in BlkType, WellPlaced(b), NEW kind \in BranchKinds,
         kind = "guard" => NumSites(b) > 0,
         NEW rs1 \in Regs, NEW rs2 \in Regs \cup {ZERO}, NEW taken \in BOOLEAN
  PROVE  BranchAdded(b, BranchSite(b, kind, rs1, rs2, taken), kind, rs1)
<1> SUFFICES ASSUME NEW c, c = BranchSite(b, kind, rs1, rs2, taken)
             PROVE  BranchAdded(b, c, kind, rs1)
  OBVIOUS
<1> DEFINE n == NumSites(b) + 1
<1>1. /\ c \in BlkType /\ c.fresh = b.fresh
      /\ Size(c) > Size(b)
      /\ \A i \in 1 .. Size(b) : c.instrs[i] = b.instrs[i]
      /\ \A i \in Size(b) + 1 .. Size(c) : c.instrs[i] \in {Nop, JalSkip}
      /\ NumSites(c) = n
      /\ \A k \in 1 .. NumSites(b) : c.sites[k] = b.sites[k]
      /\ c.sites[n].kind = kind /\ c.sites[n].rs1 = rs1
      /\ c.sites[n].at = Size(b) + 1
  BY BranchSiteShape
<1>2. /\ Size(b) \in Nat /\ Size(c) \in Nat /\ NumSites(b) \in Nat
      /\ DOMAIN c.sites = 1 .. n
  BY <1>1, SizeType
<1>3. At(c, n) = Size(b) + 1
  BY <1>1 DEF At
<1>4. \A k \in 1 .. n : k \in 1 .. NumSites(b) \/ k = n
  BY <1>2
<1>5. n \in 1 .. n /\ n - 1 = NumSites(b)
  BY <1>2
<1>6. NumSites(b) > 0 => n > 1
  BY <1>2
<1> HIDE DEF n
<1>7. Extends(b, c)
  <2>1. \A k \in NumSites(b) + 1 .. NumSites(c) : k = n
    BY <1>1, <1>2 DEF n
  <2>2. At(c, n) > Size(b)
    BY <1>2, <1>3
  <2>3. NumSites(b) <= NumSites(c)
    BY <1>1, <1>2 DEF n
  <2> QED  BY <1>1, <1>2, <2>1, <2>2, <2>3 DEF Extends
<1>8. \A k \in 1 .. NumSites(b) : c.sites[k] = b.sites[k] /\ At(c, k) = At(b, k)
  BY <1>1 DEF At
<1>9. WellPlaced(c)
  <2> SUFFICES ASSUME NEW k \in 1 .. NumSites(c)
               PROVE  At(c, k) \in 1 .. Size(c) /\ (c.sites[k].kind = "guard" => k > 1)
    BY DEF WellPlaced
  <2>1. CASE k \in 1 .. NumSites(b)
    <3>1. At(b, k) \in 1 .. Size(b) /\ (b.sites[k].kind = "guard" => k > 1)
      BY <2>1 DEF WellPlaced
    <3>2. At(c, k) \in 1 .. Size(b) /\ (c.sites[k].kind = "guard" => k > 1)
      BY <1>8, <2>1, <3>1
    <3>3. Size(c) > Size(b)
      BY <1>1
    <3> QED  BY <1>2, <3>2, <3>3
  <2>2. CASE k = n
    <3>1. Size(c) > Size(b)
      BY <1>1
    <3> QED  BY <1>1, <1>2, <1>3, <1>6, <2>2, <3>1
  <2> QED  BY <1>1, <1>4, <2>1, <2>2
<1>10. ASSUME NEW i \in Size(b) + 1 .. Size(c), NEW r
       PROVE  /\ ~ Writes(c, i, r)
              /\ Retires(c, i, r) <=>
                   /\ i = Size(b) + 1
                   /\ kind = "guard"
                   /\ r \in Elems(c.sites[NumSites(b)].rdeps)
  <2>1. c.instrs[i] \in {Nop, JalSkip}
    BY <1>1
  <2>2. i \in Int /\ i > Size(b)
    BY <1>2
  <2>3. \A k \in 1 .. NumSites(b) : At(c, k) # i
    BY <1>8, <2>2, OldSitesRetireNothing
  <2>4. Retires(c, i, r) <=>
          \E k \in 1 .. n : /\ At(c, k) = i
                           /\ \/ c.sites[k].kind = "value" /\ c.sites[k].rprod = r
                              \/ /\ c.sites[k].kind = "guard"
                                 /\ r \in Elems(c.sites[k - 1].rdeps)
    BY <1>2, <2>1, PlaceholdersAreNotWork DEF Retires, At
  <2>5. kind # "value"
    BY DEF BranchKinds
  <2>6. Retires(c, i, r) <=>
          /\ At(c, n) = i /\ kind = "guard"
          /\ r \in Elems(c.sites[NumSites(b)].rdeps)
    BY <1>1, <1>4, <1>5, <2>3, <2>4, <2>5
  <2> QED  BY <1>3, <2>1, <2>6, PlaceholdersAreNotWork DEF Writes
<1>11. Pending(c) = IF kind = "guard"
                    THEN Pending(b) \ Elems(b.sites[NumSites(b)].rdeps)
                    ELSE Pending(b)
  <2>1. Pending(c) = {r \in Pending(b) :
                        \A k \in Size(b) + 1 .. Size(c) : ~ Retires(c, k, r)}
    BY <1>1, <1>7, <1>10, PendingAfterSites
  <2>2. Size(b) + 1 \in Size(b) + 1 .. Size(c)
    <3>1. Size(c) > Size(b)
      BY <1>1
    <3> QED  BY <1>2, <3>1
  <2>3. CASE kind = "guard"
    <3>1. NumSites(b) \in 1 .. NumSites(b)
      BY <1>2, <2>3
    <3>2. c.sites[NumSites(b)] = b.sites[NumSites(b)]
      BY <1>8, <3>1
    <3> QED  BY <1>10, <2>1, <2>2, <2>3, <3>2
  <2>4. CASE kind # "guard"
    BY <1>10, <2>1, <2>4
  <2> QED  BY <2>3, <2>4
<1> QED  BY <1>1, <1>7, <1>9, <1>11 DEF n, BranchAdded

\* Appended instructions that come with no site.
LEMMA EmitExtends ==
  ASSUME NEW b \in BlkType, WellPlaced(b), NEW slots \in Seq(SlotType),
         NEW c, c = Emit(b, slots)
  PROVE  c \in BlkType /\ c.fresh = b.fresh /\ c.sites = b.sites
         /\ Extends(b, c) /\ WellPlaced(c) /\ Size(c) = Size(b) + Len(slots)
<1>1. /\ c \in BlkType /\ c.fresh = b.fresh /\ c.sites = b.sites
      /\ NumSites(c) = NumSites(b)
      /\ Size(c) = Size(b) + Len(slots)
      /\ \A i \in 1 .. Size(b) : c.instrs[i] = b.instrs[i]
  BY EmitShape
<1>2. /\ Size(b) \in Nat /\ NumSites(b) \in Nat
      /\ Len(slots) \in Nat
  BY SizeType
<1>3. Extends(b, c)
  <2>1. Size(b) <= Size(c)
    BY <1>1, <1>2
  <2>2. NumSites(b) + 1 .. NumSites(c) = {}
    BY <1>1, <1>2
  <2> QED  BY <1>1, <1>2, <2>1, <2>2 DEF Extends
<1>4. WellPlaced(c)
  <2> SUFFICES ASSUME NEW k \in 1 .. NumSites(c)
               PROVE  At(c, k) \in 1 .. Size(c) /\ (c.sites[k].kind = "guard" => k > 1)
    BY DEF WellPlaced
  <2>1. At(b, k) \in 1 .. Size(b) /\ (b.sites[k].kind = "guard" => k > 1)
    BY <1>1 DEF WellPlaced
  <2>2. At(c, k) = At(b, k) /\ c.sites[k] = b.sites[k]
    BY <1>1 DEF At
  <2> QED  BY <1>1, <1>2, <2>1, <2>2
<1> QED  BY <1>1, <1>3, <1>4

\* The jump of an indirect jump and the jump to _fail behind it.
LEMMA JalrStep ==
  ASSUME NEW b \in BlkType, WellPlaced(b), NEW rd \in Regs, NEW rs \in Regs,
         NEW c, c = Emit(b, <<Jalr(rd, rs), Nop>>)
  PROVE  /\ c \in BlkType /\ c.fresh = b.fresh /\ c.sites = b.sites
         /\ Extends(b, c) /\ WellPlaced(c)
         /\ Pending(c) = Pending(b) \ {rd}
<1> DEFINE slots == <<Jalr(rd, rs), Nop>>
<1>1. slots \in Seq(SlotType) /\ Len(slots) = 2
  BY DEF SlotType, Jalr
<1>2. slots[1] = Jalr(rd, rs) /\ slots[2] = Nop
  OBVIOUS
<1> HIDE DEF slots
<1>3. /\ c \in BlkType /\ c.fresh = b.fresh /\ c.sites = b.sites
      /\ Extends(b, c) /\ WellPlaced(c) /\ Size(c) = Size(b) + 2
  BY <1>1, EmitExtends DEF slots
<1>4. Size(b) \in Nat /\ DOMAIN c.sites = 1 .. NumSites(b)
      /\ NumSites(c) = NumSites(b)
  BY <1>3, SizeType DEF NumSites
<1>5. c.instrs[Size(b) + 1] = Jalr(rd, rs) /\ c.instrs[Size(b) + 2] = Nop
  <2>1. 1 \in 1 .. Len(slots) /\ 2 \in 1 .. Len(slots)
    BY <1>1
  <2> QED  BY <1>1, <1>2, <2>1, EmitShape DEF slots
<1>6. /\ Jalr(rd, rs) \notin WorkInstrs
      /\ Jalr(rd, rs).op \in Overwriting /\ Jalr(rd, rs).rd = rd
  BY SiteBuilderAssumption DEF Jalr, Overwriting
<1>7. \A k \in 1 .. NumSites(b) : At(c, k) <= Size(b) /\ At(c, k) \in Int
  <2> TAKE k \in 1 .. NumSites(b)
  <2>1. At(c, k) = At(b, k)
    BY <1>3 DEF At
  <2>2. At(b, k) \in 1 .. Size(b)
    BY DEF WellPlaced
  <2> QED  BY <1>4, <2>1, <2>2
<1>8. \A i \in Size(b) + 1 .. Size(c) : i = Size(b) + 1 \/ i = Size(b) + 2
  BY <1>3, <1>4
<1>9. \A i \in Size(b) + 1 .. Size(c) : \A r :
         /\ ~ Writes(c, i, r)
         /\ Retires(c, i, r) <=> (i = Size(b) + 1 /\ r = rd)
  <2> TAKE i \in Size(b) + 1 .. Size(c)
  <2> TAKE r
  <2>1. \A k \in 1 .. NumSites(b) : At(c, k) # i
    BY <1>4, <1>7
  <2>2. Retires(c, i, r) <=> c.instrs[i].op \in Overwriting /\ c.instrs[i].rd = r
    BY <1>4, <2>1 DEF Retires, At
  <2>3. CASE i = Size(b) + 1
    BY <1>5, <1>6, <2>2, <2>3 DEF Writes
  <2>4. CASE i = Size(b) + 2
    <3>1. i # Size(b) + 1
      BY <1>4, <2>4
    <3> QED  BY <1>5, <2>2, <2>4, <3>1, PlaceholdersAreNotWork DEF Writes
  <2> QED  BY <1>8, <2>3, <2>4
<1>10. Pending(c) = {r \in Pending(b) :
                       \A k \in Size(b) + 1 .. Size(c) : ~ Retires(c, k, r)}
  BY <1>3, <1>9, PendingAfterSites
<1>11. Size(b) + 1 \in Size(b) + 1 .. Size(c)
  BY <1>3, <1>4
<1>12. Pending(c) = Pending(b) \ {rd}
  BY <1>9, <1>10, <1>11
<1> QED  BY <1>3, <1>12

\* The fixup of a register read from an implementation-dependent CSR.
LEMMA FixupStep ==
  ASSUME NEW b \in BlkType, WellPlaced(b), NEW rd \in Regs,
         NEW c, c = Emit(b, <<Fixup(rd)>>)
  PROVE  /\ c \in BlkType /\ c.fresh = b.fresh /\ c.sites = b.sites
         /\ Extends(b, c) /\ WellPlaced(c)
         /\ Pending(c) = Pending(b) \ {rd}
<1> DEFINE slots == <<Fixup(rd)>>
<1>1. slots \in Seq(SlotType) /\ Len(slots) = 1 /\ slots[1] = Fixup(rd)
  BY DEF SlotType, Fixup
<1> HIDE DEF slots
<1>2. /\ c \in BlkType /\ c.fresh = b.fresh /\ c.sites = b.sites
      /\ Extends(b, c) /\ WellPlaced(c) /\ Size(c) = Size(b) + 1
  BY <1>1, EmitExtends DEF slots
<1>3. Size(b) \in Nat /\ DOMAIN c.sites = 1 .. NumSites(b)
      /\ NumSites(c) = NumSites(b)
  BY <1>2, SizeType DEF NumSites
<1> DEFINE n == Size(b) + 1
<1>4. c.instrs[n] = Fixup(rd)
  <2>1. 1 \in 1 .. Len(slots)
    BY <1>1
  <2> QED  BY <1>1, <2>1, EmitShape DEF slots
<1>5. /\ Fixup(rd) \notin WorkInstrs
      /\ Fixup(rd).op \in Overwriting /\ Fixup(rd).rd = rd
  BY SiteBuilderAssumption DEF Fixup, Overwriting
<1>6. n \in Int /\ n > Size(b) /\ \A i \in Size(b) + 1 .. Size(c) : i = n
  BY <1>2, <1>3
<1>7. n \in Size(b) + 1 .. Size(c)
  BY <1>2, <1>3
<1> HIDE DEF n
<1>8. \A k \in 1 .. NumSites(b) : At(c, k) # n
  <2>1. \A k \in 1 .. NumSites(b) : At(c, k) = At(b, k)
    BY <1>2 DEF At
  <2> QED  BY <1>6, <2>1, OldSitesRetireNothing
<1>9. \A r : ~ Writes(c, n, r) /\ (Retires(c, n, r) <=> r = rd)
  BY <1>3, <1>4, <1>5, <1>8 DEF Writes, Retires, At
<1>10. Pending(c) = {r \in Pending(b) :
                       \A k \in Size(b) + 1 .. Size(c) : ~ Retires(c, k, r)}
  BY <1>2, <1>6, <1>9, PendingAfterSites
<1>11. Pending(c) = Pending(b) \ {rd}
  BY <1>6, <1>7, <1>9, <1>10
<1> QED  BY <1>2, <1>11

\* A workload instruction makes the register it writes pending, if the
\* generator tracks it.
LEMMA WorkStep ==
  ASSUME NEW b \in BlkType, WellPlaced(b), NEW w \in WorkInstrs,
         NEW c, c = Emit(b, <<w>>)
  PROVE  /\ c \in BlkType /\ c.fresh = b.fresh /\ c.sites = b.sites
         /\ Extends(b, c) /\ WellPlaced(c)
         /\ Pending(c) = IF w.std /\ w.rd # ZERO THEN Pending(b) \cup {w.rd}
                         ELSE Pending(b)
<1> DEFINE slots == <<w>>
<1>1. slots \in Seq(SlotType) /\ Len(slots) = 1 /\ slots[1] = w
  BY DEF SlotType
<1> HIDE DEF slots
<1>2. /\ c \in BlkType /\ c.fresh = b.fresh /\ c.sites = b.sites
      /\ Extends(b, c) /\ WellPlaced(c) /\ Size(c) = Size(b) + 1
  BY <1>1, EmitExtends DEF slots
<1>3. Size(b) \in Nat /\ DOMAIN c.sites = 1 .. NumSites(b)
      /\ NumSites(c) = NumSites(b)
  BY <1>2, SizeType DEF NumSites
<1> DEFINE n == Size(b) + 1
<1>4. c.instrs[n] = w
  <2>1. 1 \in 1 .. Len(slots)
    BY <1>1
  <2> QED  BY <1>1, <2>1, EmitShape DEF slots
<1>5. w.op \notin Overwriting /\ w.rd \in Regs \cup {ZERO} /\ ZERO \notin Regs
  BY SiteBuilderAssumption DEF Overwriting
<1>6. n \in Nat /\ n \in Int /\ n > Size(b) /\ Size(c) = n /\ n - 1 = Size(b)
  BY <1>2, <1>3
<1>7. \A r : ~ Retires(c, n, r)
  <2>1. \A k \in 1 .. NumSites(b) : At(c, k) # n
    <3>1. \A k \in 1 .. NumSites(b) : At(c, k) = At(b, k)
      BY <1>2 DEF At
    <3> QED  BY <1>6, <3>1, OldSitesRetireNothing
  <2> QED  BY <1>3, <1>4, <1>5, <2>1 DEF Retires, At
<1>8. \A r \in Regs : Writes(c, n, r) <=> w.std /\ w.rd = r
  BY <1>4 DEF Writes
<1>9. \A r : r \in Pending(c) <=>
         /\ r \in Regs
         /\ \E j \in 1 .. n : /\ Writes(c, j, r)
                             /\ \A k \in j + 1 .. n : ~ Retires(c, k, r)
  BY <1>6, PendingAtMember DEF Pending
<1>10. \A r : r \in Pending(b) <=>
         /\ r \in Regs
         /\ \E j \in 1 .. Size(b) :
               /\ Writes(c, j, r)
               /\ \A k \in j + 1 .. Size(b) : ~ Retires(c, k, r)
  <2>1. Size(b) + 1 \in 1 .. Size(b) + 1
    BY <1>3
  <2>2. Pending(b) = PendingAt(c, Size(b) + 1)
    BY <1>2, <2>1, PendingStable DEF Pending
  <2> QED  BY <1>3, <2>2, PendingAtMember, SMTT(30)
<1>11. /\ \A j \in 1 .. n : j \in 1 .. Size(b) \/ j = n
       /\ \A j \in 1 .. Size(b) : j \in 1 .. n
       /\ \A j \in 1 .. Size(b) : \A k \in j + 1 .. n :
             k \in j + 1 .. Size(b) \/ k = n
       /\ \A j \in 1 .. Size(b) : \A k \in j + 1 .. Size(b) : k \in j + 1 .. n
       /\ n \in 1 .. n /\ n + 1 .. n = {}
  BY <1>3
<1> HIDE DEF n
<1>12. \A r : r \in Pending(c) <=> r \in Pending(b) \/ (r \in Regs /\ Writes(c, n, r))
  <2> TAKE r
  <2>1. ASSUME r \in Pending(c)
        PROVE  r \in Pending(b) \/ (r \in Regs /\ Writes(c, n, r))
    <3>1. PICK j \in 1 .. n : /\ Writes(c, j, r)
                             /\ \A k \in j + 1 .. n : ~ Retires(c, k, r)
      BY <1>9, <2>1
    <3>2. r \in Regs
      BY <1>9, <2>1
    <3>3. CASE j = n
      BY <3>1, <3>2, <3>3
    <3>4. CASE j \in 1 .. Size(b)
      BY <1>10, <1>11, <3>1, <3>2, <3>4
    <3> QED  BY <1>11, <3>3, <3>4
  <2>2. ASSUME r \in Pending(b)
        PROVE  r \in Pending(c)
    <3>1. PICK j \in 1 .. Size(b) :
             Writes(c, j, r) /\ \A k \in j + 1 .. Size(b) : ~ Retires(c, k, r)
      BY <1>10, <2>2
    <3>2. j \in 1 .. n /\ \A k \in j + 1 .. n : ~ Retires(c, k, r)
      BY <1>7, <1>11, <3>1
    <3>3. r \in Regs
      BY <1>10, <2>2
    <3> QED  BY <1>9, <3>1, <3>2, <3>3
  <2>3. ASSUME r \in Regs, Writes(c, n, r)
        PROVE  r \in Pending(c)
    BY <1>9, <1>11, <2>3
  <2> QED  BY <2>1, <2>2, <2>3
<1>13. Pending(c) = IF w.std /\ w.rd # ZERO THEN Pending(b) \cup {w.rd}
                    ELSE Pending(b)
  <2>1. CASE w.std /\ w.rd # ZERO
    <3>1. \A r : (r \in Regs /\ Writes(c, n, r)) <=> r = w.rd
      BY <1>5, <1>8, <2>1
    <3> QED  BY <1>12, <2>1, <3>1
  <2>2. CASE ~ (w.std /\ w.rd # ZERO)
    <3>1. \A r : ~ (r \in Regs /\ Writes(c, n, r))
      BY <1>5, <1>8, <2>2
    <3> QED  BY <1>12, <2>2, <3>1
  <2> QED  BY <2>1, <2>2
<1> QED  BY <1>2, <1>13

--------------------------------------------------------------------------------
(* The inductive invariant: FreshIsPending and GuardsCheckAllPending of a    *)
(* well typed, well placed block.                                            *)

FreshOK(b) == Distinct(b.fresh) /\ Elems(b.fresh) = Pending(b)

GuardOK(b, k) ==
    /\ Elems(b.sites[k - 1].rdeps) = PendingAt(b, At(b, k - 1))
    /\ b.sites[k - 1].rprod = b.sites[k].rs1
    /\ b.sites[k - 1].rprod \notin PendingAt(b, At(b, k - 1))

GuardsOK(b) ==
    \A k \in 1 .. NumSites(b) : b.sites[k].kind = "guard" => GuardOK(b, k)

CodeOK(b) == b \in BlkType /\ WellPlaced(b) /\ GuardsOK(b)

BlkInv(b) == CodeOK(b) /\ FreshOK(b)

\* Later code changes nothing about the guards already generated.
LEMMA GuardsStable ==
  ASSUME NEW b, CodeOK(b), NEW c \in BlkType, Extends(b, c),
         \A k \in NumSites(b) + 1 .. NumSites(c) :
            c.sites[k].kind = "guard" => GuardOK(c, k)
  PROVE  GuardsOK(c)
<1>1. b \in BlkType /\ WellPlaced(b) /\ GuardsOK(b)
  BY DEF CodeOK
<1>2. /\ Size(b) \in Nat /\ NumSites(b) \in Nat /\ NumSites(c) \in Nat
  BY <1>1, SizeType
<1> SUFFICES ASSUME NEW k \in 1 .. NumSites(c), c.sites[k].kind = "guard"
             PROVE  GuardOK(c, k)
  BY DEF GuardsOK
<1>3. CASE k \in NumSites(b) + 1 .. NumSites(c)
  BY <1>3
<1>4. CASE k \in 1 .. NumSites(b)
  <2>1. c.sites[k] = b.sites[k]
    BY <1>4 DEF Extends
  <2>2. k > 1
    BY <1>1, <1>4, <2>1 DEF WellPlaced
  <2>3. k - 1 \in 1 .. NumSites(b)
    BY <1>2, <1>4, <2>2
  <2>4. c.sites[k - 1] = b.sites[k - 1] /\ At(c, k - 1) = At(b, k - 1)
    BY <2>3 DEF Extends, At
  <2>5. At(b, k - 1) \in 1 .. Size(b) + 1
    <3>1. At(b, k - 1) \in 1 .. Size(b)
      BY <1>1, <2>3 DEF WellPlaced
    <3> QED  BY <1>2, <3>1
  <2>6. PendingAt(c, At(c, k - 1)) = PendingAt(b, At(b, k - 1))
    BY <1>1, <2>4, <2>5, PendingStable
  <2>7. GuardOK(b, k)
    BY <1>1, <1>4, <2>1 DEF GuardsOK
  <2> QED  BY <2>1, <2>4, <2>6, <2>7 DEF GuardOK
<1> QED  BY <1>2, <1>3, <1>4

LEMMA ExtendsTransitive ==
  ASSUME NEW b \in BlkType, NEW c \in BlkType, NEW d \in BlkType,
         Extends(b, c), Extends(c, d)
  PROVE  Extends(b, d)
<1>1. /\ Size(b) \in Nat /\ Size(c) \in Nat /\ Size(d) \in Nat
      /\ NumSites(b) \in Nat /\ NumSites(c) \in Nat /\ NumSites(d) \in Nat
  BY SizeType
<1>2. /\ Size(b) <= Size(c) /\ Size(c) <= Size(d)
      /\ NumSites(b) <= NumSites(c) /\ NumSites(c) <= NumSites(d)
  BY DEF Extends
<1>3. /\ \A i \in 1 .. Size(b) : i \in 1 .. Size(c)
      /\ \A k \in 1 .. NumSites(b) : k \in 1 .. NumSites(c)
  BY <1>1, <1>2
<1>4. \A k \in NumSites(b) + 1 .. NumSites(d) : At(d, k) > Size(b)
  <2> TAKE k \in NumSites(b) + 1 .. NumSites(d)
  <2>1. CASE k \in NumSites(c) + 1 .. NumSites(d)
    <3>1. At(d, k) > Size(c)
      BY <2>1 DEF Extends
    <3>2. Size(b) <= Size(c)
      BY <1>2
    <3>3. At(d, k) \in Int
      <4>1. k \in 1 .. NumSites(d)
        BY <1>1
      <4>2. d.sites[k] \in SiteType
        BY <4>1, SizeType DEF BlkType
      <4> QED  BY <4>2 DEF SiteType, At
    <3> QED  BY <1>1, <3>1, <3>2, <3>3
  <2>2. CASE k \in NumSites(b) + 1 .. NumSites(c)
    <3>1. k \in 1 .. NumSites(c)
      BY <1>1, <2>2
    <3> QED  BY <2>2, <3>1 DEF Extends, At
  <2> QED  BY <1>1, <2>1, <2>2
<1>5. Size(b) <= Size(d) /\ NumSites(b) <= NumSites(d)
  BY <1>1, <1>2
<1>6. /\ \A i \in 1 .. Size(b) : d.instrs[i] = b.instrs[i]
      /\ \A k \in 1 .. NumSites(b) : d.sites[k] = b.sites[k]
  BY <1>3 DEF Extends
<1> QED  BY <1>4, <1>5, <1>6 DEF Extends

\* Some register never holds unchecked data, so a stale one never does.
LEMMA StaleIsNotPending ==
  ASSUME NEW b, FreshOK(b), NEW r \in Stale(b)
  PROVE  r \in Regs /\ r \notin Pending(b)
<1>1. PICK s \in Regs : \A w \in WorkInstrs : w.rd # s
  BY PoolAssumption
<1>2. s \notin Pending(b)
  BY <1>1 DEF Pending, PendingAt, Writes
<1>3. s \in Regs \ Elems(b.fresh)
  BY <1>1, <1>2 DEF FreshOK
<1>4. r \in Regs \ Elems(b.fresh)
  BY <1>3 DEF Stale
<1> QED  BY <1>4 DEF FreshOK

LEMMA ClobberShape ==
  ASSUME NEW b \in BlkType, NEW r, Distinct(b.fresh)
  PROVE  /\ Clobber(b, r) \in BlkType
         /\ Clobber(b, r).instrs = b.instrs /\ Clobber(b, r).sites = b.sites
         /\ Distinct(Clobber(b, r).fresh)
         /\ Elems(Clobber(b, r).fresh) = Elems(b.fresh) \ {r}
<1>1. b.fresh \in Seq(Regs)
  BY DEF BlkType
<1>2. /\ Without(b.fresh, r) \in Seq(Regs)
      /\ Distinct(Without(b.fresh, r))
      /\ Elems(Without(b.fresh, r)) = Elems(b.fresh) \ {r}
  BY <1>1, WithoutProperties
<1>3. /\ Clobber(b, r) \in BlkType
      /\ Clobber(b, r).fresh = Without(b.fresh, r)
      /\ Clobber(b, r).instrs = b.instrs /\ Clobber(b, r).sites = b.sites
  BY <1>2 DEF Clobber, BlkType
<1> QED  BY <1>2, <1>3

\* Adding a value site to code whose guards are right leaves them right.
LEMMA ValueSiteKeepsGuards ==
  ASSUME NEW b, CodeOK(b),
         NEW d \in BlkType, d.instrs = b.instrs, d.sites = b.sites,
         NEW rprod \in Regs, NEW rdeps \in Seq(Regs), NEW failAt \in Nat,
         NEW dest \in DestType
  PROVE  CodeOK(ValueSite(d, rprod, rdeps, dest, failAt))
<1> DEFINE c == ValueSite(d, rprod, rdeps, dest, failAt)
<1>1. b \in BlkType /\ WellPlaced(b)
  BY DEF CodeOK
<1>2. /\ c \in BlkType /\ Extends(b, c) /\ WellPlaced(c)
      /\ NumSites(c) = NumSites(b) + 1
      /\ c.sites[NumSites(c)].kind = "value"
  BY <1>1, ValueSiteStep DEF ValueAdded
<1> HIDE DEF c
<1>3. NumSites(b) \in Nat
  BY <1>1, SizeType
<1>4. \A k \in NumSites(b) + 1 .. NumSites(c) : c.sites[k].kind # "guard"
  <2> TAKE k \in NumSites(b) + 1 .. NumSites(c)
  <2>1. k = NumSites(c)
    BY <1>2, <1>3
  <2> QED  BY <1>2, <2>1
<1>5. GuardsOK(c)
  BY <1>2, <1>4, GuardsStable
<1> QED  BY <1>2, <1>5 DEF CodeOK, c

\* address(): the base register holds a known value afterwards.
LEMMA AddressStep ==
  ASSUME NEW b, BlkInv(b), NEW rprod \in Regs, NEW addr \in Addresses,
         NEW c \in Address(b, rprod, addr)
  PROVE  BlkInv(c)
<1>1. /\ b \in BlkType /\ WellPlaced(b) /\ CodeOK(b)
      /\ Distinct(b.fresh) /\ Elems(b.fresh) = Pending(b) /\ b.fresh \in Seq(Regs)
  BY DEF BlkInv, CodeOK, FreshOK, BlkType
<1>2. PICK rdeps \in Peek(b, MAX_PEEK, rprod) :
         c = ValueSite(Clobber(b, rprod), rprod, rdeps, Data(addr), NoFail)
  BY DEF Address
<1>3. rdeps \in Seq(Regs)
  BY <1>1, SiteBuilderAssumption, PeekProperties
<1>4. Data(addr) \in DestType /\ NoFail \in Nat
  BY DEF Data, DestType, NoFail
<1>5. /\ Clobber(b, rprod) \in BlkType
      /\ Clobber(b, rprod).instrs = b.instrs
      /\ Clobber(b, rprod).sites = b.sites
      /\ Distinct(Clobber(b, rprod).fresh)
      /\ Elems(Clobber(b, rprod).fresh) = Elems(b.fresh) \ {rprod}
  BY <1>1, ClobberShape
<1>6. CodeOK(c)
  BY <1>1, <1>2, <1>3, <1>4, <1>5, ValueSiteKeepsGuards
<1>7. c.fresh = Clobber(b, rprod).fresh /\ Pending(c) = Pending(b) \ {rprod}
  <2>1. ValueAdded(b, Clobber(b, rprod), c, rprod, rdeps)
    BY <1>1, <1>2, <1>3, <1>4, <1>5, ValueSiteStep
  <2> QED  BY <2>1 DEF ValueAdded
<1> QED  BY <1>1, <1>5, <1>6, <1>7 DEF BlkInv, FreshOK

\* guard(): everything pending is checked, nothing is pending afterwards.
LEMMA GuardStep ==
  ASSUME NEW b, BlkInv(b), NEW c \in Guard(b)
  PROVE  BlkInv(c)
<1>1. /\ b \in BlkType /\ WellPlaced(b) /\ CodeOK(b) /\ FreshOK(b)
      /\ Distinct(b.fresh) /\ Elems(b.fresh) = Pending(b) /\ b.fresh \in Seq(Regs)
  BY DEF BlkInv, CodeOK, FreshOK, BlkType
<1> DEFINE d == [b EXCEPT !.fresh = <<>>]
           v(acc) == ValueSite(d, acc, Without(b.fresh, acc), Data(ZeroWord), NoFail)
<1>2. PICK acc \in Stale(b), taken \in BOOLEAN :
         c = BranchSite(v(acc), "guard", acc, ZERO, taken)
  BY DEF Guard
<1>3. acc \in Regs /\ acc \notin Pending(b)
  BY <1>1, StaleIsNotPending
<1> DEFINE rdeps == Without(b.fresh, acc)
<1>4. rdeps \in Seq(Regs) /\ Elems(rdeps) = Pending(b)
  <2>1. rdeps \in Seq(Regs) /\ Elems(rdeps) = Elems(b.fresh) \ {acc}
    BY <1>1, WithoutProperties
  <2> QED  BY <1>1, <1>3, <2>1
<1>5. d \in BlkType /\ d.instrs = b.instrs /\ d.sites = b.sites /\ d.fresh = <<>>
  <2>1. <<>> \in Seq(Regs)
    OBVIOUS
  <2> QED  BY <1>1, <2>1 DEF BlkType
<1>6. Data(ZeroWord) \in DestType /\ NoFail \in Nat
  BY DEF Data, DestType, NoFail
<1> HIDE DEF d, rdeps
<1> DEFINE u == v(acc)
<1>7. u = ValueSite(d, acc, rdeps, Data(ZeroWord), NoFail)
  BY DEF rdeps
<1> HIDE DEF u, v
<1>8. /\ u \in BlkType /\ u.fresh = <<>> /\ Extends(b, u) /\ WellPlaced(u)
      /\ Pending(u) = Pending(b) \ {acc}
      /\ NumSites(u) = NumSites(b) + 1
      /\ At(u, NumSites(u)) = Size(b) + 1
      /\ u.sites[NumSites(u)].rprod = acc
      /\ u.sites[NumSites(u)].rdeps = rdeps
  <2>1. ValueAdded(b, d, u, acc, rdeps)
    BY <1>1, <1>3, <1>4, <1>5, <1>6, <1>7, ValueSiteStep
  <2> QED  BY <1>5, <2>1 DEF ValueAdded
<1>9. CodeOK(u)
  BY <1>1, <1>3, <1>4, <1>5, <1>6, <1>7, ValueSiteKeepsGuards
<1>10. /\ NumSites(b) \in Nat /\ Size(b) \in Nat
       /\ NumSites(u) \in Nat /\ NumSites(u) > 0 /\ NumSites(u) \in 1 .. NumSites(u)
  BY <1>1, <1>8, SizeType
<1>11. c = BranchSite(u, "guard", acc, ZERO, taken)
  BY <1>2 DEF u
<1>12. /\ c \in BlkType /\ c.fresh = <<>> /\ Extends(u, c) /\ WellPlaced(c)
       /\ Pending(c) = Pending(u) \ Elems(rdeps)
       /\ NumSites(c) = NumSites(u) + 1
       /\ c.sites[NumSites(c)].rs1 = acc
  <2>1. "guard" \in BranchKinds /\ ZERO \in Regs \cup {ZERO}
    BY DEF BranchKinds
  <2>2. BranchAdded(u, BranchSite(u, "guard", acc, ZERO, taken), "guard", acc)
    BY <1>2, <1>3, <1>8, <1>10, <2>1, BranchSiteStep
  <2> QED  BY <1>8, <1>11, <2>2 DEF BranchAdded
<1>13. Extends(b, c)
  BY <1>1, <1>8, <1>12, ExtendsTransitive
<1>14. c.sites[NumSites(u)] = u.sites[NumSites(u)]
  BY <1>10, <1>12 DEF Extends
<1>15. NumSites(c) - 1 = NumSites(u)
  BY <1>10, <1>12
<1>16. PendingAt(c, Size(b) + 1) = Pending(b)
  <2>1. Size(b) + 1 \in 1 .. Size(b) + 1
    BY <1>10
  <2> QED  BY <1>1, <1>12, <1>13, <2>1, PendingStable DEF Pending
<1>17. GuardOK(c, NumSites(c))
  BY <1>3, <1>4, <1>8, <1>12, <1>14, <1>15, <1>16 DEF GuardOK, At
<1>18. GuardsOK(c)
  <2>1. \A k \in NumSites(u) + 1 .. NumSites(c) : k = NumSites(c)
    BY <1>10, <1>12
  <2> QED  BY <1>9, <1>12, <1>17, <2>1, GuardsStable
<1>19. FreshOK(c)
  <2>1. Pending(c) = {}
    BY <1>4, <1>8, <1>12
  <2>2. Elems(<<>>) = {} /\ Distinct(<<>>)
    BY DEF Elems, Distinct
  <2> QED  BY <1>12, <2>1, <2>2 DEF FreshOK
<1> QED  BY <1>12, <1>18, <1>19 DEF BlkInv, CodeOK

\* An indirect jump overwrites its target and its link register, nothing else.
LEMMA IndirectJumpStep ==
  ASSUME NEW b, BlkInv(b), NEW rprod \in Regs, NEW rd \in Regs,
         NEW rdeps \in Seq(Regs)
  PROVE  BlkInv(IndirectJump(b, rprod, rd, rdeps))
<1>1. /\ b \in BlkType /\ WellPlaced(b) /\ CodeOK(b)
      /\ Distinct(b.fresh) /\ Elems(b.fresh) = Pending(b)
  BY DEF BlkInv, CodeOK, FreshOK
<1> DEFINE d == Clobber(b, rprod)
           e == Clobber(d, rd)
           dest == Size(b) + 1 + ProducerLen + Len(rdeps) + 2
           v == ValueSite(e, rprod, rdeps, Code(dest), dest - 1)
           c == Emit(v, <<Jalr(rd, rprod), Nop>>)
<1>2. IndirectJump(b, rprod, rd, rdeps) = c
  BY DEF IndirectJump
<1>3. /\ e \in BlkType /\ e.instrs = b.instrs /\ e.sites = b.sites
      /\ Distinct(e.fresh) /\ Elems(e.fresh) = (Pending(b) \ {rprod}) \ {rd}
  <2>1. /\ d \in BlkType /\ d.instrs = b.instrs /\ d.sites = b.sites
        /\ Distinct(d.fresh) /\ Elems(d.fresh) = Pending(b) \ {rprod}
    BY <1>1, ClobberShape
  <2> HIDE DEF d
  <2> QED  BY <2>1, ClobberShape
<1> HIDE DEF d, e
<1>4. dest \in Nat \ {0} /\ dest - 1 \in Nat
  <2>1. Size(b) \in Nat /\ Len(rdeps) \in Nat
    BY <1>1, SizeType
  <2> QED  BY <2>1 DEF ProducerLen
<1> HIDE DEF dest
<1>5. Code(dest) \in DestType
  BY <1>4 DEF Code, DestType
<1>6. ValueAdded(b, e, v, rprod, rdeps)
  BY <1>1, <1>3, <1>4, <1>5, ValueSiteStep
<1>7. CodeOK(v)
  BY <1>1, <1>3, <1>4, <1>5, ValueSiteKeepsGuards
<1> HIDE DEF v
<1>8. /\ v \in BlkType /\ WellPlaced(v) /\ v.fresh = e.fresh
      /\ Pending(v) = Pending(b) \ {rprod}
  BY <1>6 DEF ValueAdded
<1>9. /\ c \in BlkType /\ c.fresh = v.fresh /\ c.sites = v.sites
      /\ Extends(v, c) /\ WellPlaced(c)
      /\ Pending(c) = Pending(v) \ {rd}
  BY <1>8, JalrStep
<1> HIDE DEF c
<1>10. GuardsOK(c)
  <2>1. NumSites(c) = NumSites(v) /\ NumSites(v) \in Nat
    BY <1>8, <1>9, SizeType DEF NumSites
  <2>2. NumSites(v) + 1 .. NumSites(c) = {}
    BY <2>1
  <2> QED  BY <1>7, <1>9, <2>2, GuardsStable
<1>11. FreshOK(c)
  BY <1>3, <1>8, <1>9 DEF FreshOK
<1> QED  BY <1>2, <1>9, <1>10, <1>11 DEF BlkInv, CodeOK

\* A conditional branch reads registers and changes none.
LEMMA BranchStep ==
  ASSUME NEW b, BlkInv(b), NEW rs1 \in Regs, NEW rs2 \in Regs,
         NEW taken \in BOOLEAN
  PROVE  BlkInv(BranchSite(b, "branch", rs1, rs2, taken))
<1> DEFINE c == BranchSite(b, "branch", rs1, rs2, taken)
<1>1. b \in BlkType /\ WellPlaced(b) /\ CodeOK(b) /\ FreshOK(b)
  BY DEF BlkInv, CodeOK
<1>2. "branch" \in BranchKinds /\ rs2 \in Regs \cup {ZERO}
  BY DEF BranchKinds
<1>3. BranchAdded(b, c, "branch", rs1)
  BY <1>1, <1>2, BranchSiteStep
<1> HIDE DEF c
<1>4. /\ c \in BlkType /\ c.fresh = b.fresh /\ Extends(b, c) /\ WellPlaced(c)
      /\ Pending(c) = Pending(b)
      /\ NumSites(c) = NumSites(b) + 1
      /\ c.sites[NumSites(c)].kind = "branch"
  BY <1>3 DEF BranchAdded
<1>5. GuardsOK(c)
  <2>1. NumSites(b) \in Nat
    BY <1>1, SizeType
  <2>2. \A k \in NumSites(b) + 1 .. NumSites(c) : k = NumSites(c)
    BY <1>4, <2>1
  <2>3. \A k \in NumSites(b) + 1 .. NumSites(c) : c.sites[k].kind # "guard"
    BY <1>4, <2>2
  <2> QED  BY <1>1, <1>4, <2>3, GuardsStable
<1>6. FreshOK(c)
  BY <1>1, <1>4 DEF FreshOK
<1> QED  BY <1>4, <1>5, <1>6 DEF BlkInv, CodeOK, c

\* What `fresh' lists has no bearing on the code.
LEMMA SameCode ==
  ASSUME NEW b, CodeOK(b), NEW c \in BlkType,
         c.instrs = b.instrs, c.sites = b.sites
  PROVE  CodeOK(c) /\ Pending(c) = Pending(b)
<1>1. /\ Size(c) = Size(b) /\ NumSites(c) = NumSites(b)
      /\ \A k : At(c, k) = At(b, k)
  BY DEF Size, NumSites, At
<1>2. \A i : PendingAt(c, i) = PendingAt(b, i)
  BY DEF PendingAt, Writes, Retires
<1>3. WellPlaced(c)
  BY <1>1 DEF CodeOK, WellPlaced
<1>4. GuardsOK(c)
  BY <1>1, <1>2 DEF CodeOK, GuardsOK, GuardOK
<1> QED  BY <1>1, <1>2, <1>3, <1>4 DEF CodeOK, Pending

\* A workload instruction and the tracking of the register it writes.
LEMMA ObserveStep ==
  ASSUME NEW b, BlkInv(b), NEW w \in WorkInstrs
  PROVE  BlkInv(Observe(Emit(b, <<w>>), w))
<1> DEFINE e == Emit(b, <<w>>)
           c == Observe(e, w)
<1>1. /\ b \in BlkType /\ WellPlaced(b) /\ CodeOK(b)
      /\ Distinct(b.fresh) /\ Elems(b.fresh) = Pending(b)
  BY DEF BlkInv, CodeOK, FreshOK
<1>2. /\ e \in BlkType /\ e.fresh = b.fresh /\ e.sites = b.sites
      /\ Extends(b, e) /\ WellPlaced(e)
      /\ Pending(e) = IF w.std /\ w.rd # ZERO THEN Pending(b) \cup {w.rd}
                      ELSE Pending(b)
  BY <1>1, WorkStep
<1> HIDE DEF e
<1>3. CodeOK(e)
  <2>1. NumSites(e) = NumSites(b) /\ NumSites(b) \in Nat
    BY <1>1, <1>2, SizeType DEF NumSites
  <2>2. NumSites(b) + 1 .. NumSites(e) = {}
    BY <2>1
  <2> QED  BY <1>1, <1>2, <2>2, GuardsStable DEF CodeOK
<1>4. CASE w.std /\ w.rd # ZERO
  <2>1. w.rd \in Regs
    BY <1>4, SiteBuilderAssumption
  <2> DEFINE f == Append(Without(e.fresh, w.rd), w.rd)
  <2>2. f \in Seq(Regs) /\ Distinct(f) /\ Elems(f) = Pending(b) \cup {w.rd}
    <3> DEFINE g == Without(e.fresh, w.rd)
    <3>1. e.fresh \in Seq(Regs)
      BY <1>2 DEF BlkType
    <3>2. g \in Seq(Regs) /\ Distinct(g) /\ Elems(g) = Pending(b) \ {w.rd}
      BY <1>1, <1>2, <3>1, WithoutProperties
    <3> HIDE DEF g
    <3>3. w.rd \notin Elems(g)
      BY <3>2
    <3> QED  BY <2>1, <3>2, <3>3, AppendDistinct DEF g
  <2>3. /\ c \in BlkType /\ c.fresh = f /\ c.instrs = e.instrs
        /\ c.sites = e.sites
    <3> HIDE DEF f
    <3>1. c = [e EXCEPT !.fresh = f]
      BY <1>4 DEF Observe, TrackedRd, f
    <3> QED  BY <1>2, <2>2, <3>1 DEF BlkType
  <2> HIDE DEF c, f
  <2>4. CodeOK(c) /\ Pending(c) = Pending(e)
    BY <1>3, <2>3, SameCode
  <2>5. FreshOK(c)
    BY <1>2, <1>4, <2>2, <2>3, <2>4 DEF FreshOK
  <2> QED  BY <2>4, <2>5 DEF BlkInv, c, e
<1>5. CASE ~ (w.std /\ w.rd # ZERO)
  <2>1. c = e
    BY <1>5 DEF Observe, TrackedRd
  <2>2. FreshOK(e)
    BY <1>1, <1>2, <1>5 DEF FreshOK
  <2> QED  BY <1>3, <2>1, <2>2 DEF BlkInv, e
<1> QED  BY <1>4, <1>5

\* A CSR's register is known again once it has been fixed up.
LEMMA StabilizeStep ==
  ASSUME NEW b, BlkInv(b), NEW w \in WorkInstrs
  PROVE  BlkInv(Stabilize(b, w))
<1> SUFFICES ASSUME w.unstable, w.rd # ZERO
             PROVE  BlkInv(Clobber(Emit(b, <<Fixup(w.rd)>>), w.rd))
  BY DEF Stabilize
<1>1. /\ b \in BlkType /\ WellPlaced(b) /\ CodeOK(b)
      /\ Distinct(b.fresh) /\ Elems(b.fresh) = Pending(b)
  BY DEF BlkInv, CodeOK, FreshOK
<1>2. w.rd \in Regs
  BY SiteBuilderAssumption
<1> DEFINE e == Emit(b, <<Fixup(w.rd)>>)
           c == Clobber(e, w.rd)
<1>3. /\ e \in BlkType /\ e.fresh = b.fresh /\ e.sites = b.sites
      /\ Extends(b, e) /\ WellPlaced(e)
      /\ Pending(e) = Pending(b) \ {w.rd}
  BY <1>1, <1>2, FixupStep
<1> HIDE DEF e
<1>4. CodeOK(e)
  <2>1. NumSites(e) = NumSites(b) /\ NumSites(b) \in Nat
    BY <1>1, <1>3, SizeType DEF NumSites
  <2>2. NumSites(b) + 1 .. NumSites(e) = {}
    BY <2>1
  <2> QED  BY <1>1, <1>3, <2>2, GuardsStable DEF CodeOK
<1>5. /\ c \in BlkType /\ c.instrs = e.instrs /\ c.sites = e.sites
      /\ Distinct(c.fresh) /\ Elems(c.fresh) = Pending(b) \ {w.rd}
  BY <1>1, <1>3, ClobberShape
<1> HIDE DEF c
<1>6. CodeOK(c) /\ Pending(c) = Pending(e)
  BY <1>4, <1>5, SameCode
<1> QED  BY <1>3, <1>5, <1>6 DEF BlkInv, FreshOK, c, e

--------------------------------------------------------------------------------
(* The theorems.                                                             *)

BuilderIInv ==
    /\ opts \in Options
    /\ left \in 0 .. NumInstrs
    /\ inBlock \in 0 .. MaxBlock
    /\ BlkInv(blk)

LEMMA ConfineStep ==
  ASSUME NEW b, BlkInv(b), NEW w \in WorkInstrs, NEW c \in Confine(b, w)
  PROVE  BlkInv(c)
<1>1. CASE w.base = ZERO
  BY <1>1 DEF Confine
<1>2. CASE w.base # ZERO
  <2>1. w.base \in Regs
    BY <1>2, SiteBuilderAssumption
  <2>2. PICK addr \in Addresses : c \in Address(b, w.base, addr)
    BY <1>2 DEF Confine
  <2> QED  BY <2>1, <2>2, AddressStep
<1> QED  BY <1>1, <1>2

LEMMA ControlFlowStep ==
  ASSUME NEW b, BlkInv(b), NEW c \in ControlFlow(b)
  PROVE  BlkInv(c)
<1>1. /\ b.fresh \in Seq(Regs) /\ Distinct(b.fresh) /\ FreshOK(b)
  BY DEF BlkInv, CodeOK, FreshOK, BlkType
<1>2. CASE c \in IndirectJumps(b)
  <2>0. PICK rprod \in Stale(b) :
           c \in {IndirectJump(b, rprod, rd, rdeps) :
                     rd \in Stale(b), rdeps \in Peek(b, MAX_PEEK, rprod)}
    BY <1>2 DEF IndirectJumps
  <2>1. PICK rd \in Stale(b), rdeps \in Peek(b, MAX_PEEK, rprod) :
           c = IndirectJump(b, rprod, rd, rdeps)
    BY <2>0
  <2>2. rprod \in Regs /\ rd \in Regs
    BY <1>1, StaleIsNotPending
  <2>3. rdeps \in Seq(Regs)
    BY <1>1, SiteBuilderAssumption, PeekProperties
  <2> QED  BY <2>1, <2>2, <2>3, IndirectJumpStep
<1>3. CASE c \in Branches(b)
  <2>1. PICK rs \in Operands(b), taken \in BOOLEAN :
           c = BranchSite(b, "branch", rs[1], rs[2], taken)
    BY <1>3 DEF Branches
  <2>2. rs[1] \in Regs /\ rs[2] \in Regs
    <3>1. PICK regs \in Peek(b, 2, ZERO) :
             rs \in IF Len(regs) > 1 THEN {<<regs[1], regs[2]>>}
                    ELSE {<<regs[1], r>> : r \in Regs \ {regs[1]}}
      BY DEF Operands
    <3>2. 2 \in Nat \ {0}
      OBVIOUS
    <3>3. regs \in Seq(Regs) /\ regs # <<>>
      BY <1>1, <3>2, PeekProperties
    <3>4. Len(regs) \in Nat /\ Len(regs) > 0 /\ regs[1] \in Regs
      BY <3>3
    <3>5. CASE Len(regs) > 1
      <4>1. regs[2] \in Regs
        BY <3>3, <3>4, <3>5
      <4>2. rs = <<regs[1], regs[2]>>
        BY <3>1, <3>5
      <4> QED  BY <3>4, <4>1, <4>2
    <3>6. CASE ~ (Len(regs) > 1)
      <4>1. PICK r \in Regs \ {regs[1]} : rs = <<regs[1], r>>
        BY <3>1, <3>6
      <4> QED  BY <3>4, <4>1
    <3> QED  BY <3>5, <3>6
  <2> QED  BY <2>1, <2>2, BranchStep
<1>4. CASE c = b
  BY <1>4
<1> QED  BY <1>2, <1>3, <1>4 DEF ControlFlow

LEMMA BlockEndStep ==
  ASSUME NEW b, BlkInv(b), NEW c \in BlockEnd(b)
  PROVE  BlkInv(c)
<1>1. PICK d \in {b} \cup ControlFlow(b) :
         c \in IF CanGuard /\ d.fresh # <<>> THEN Guard(d) ELSE {d}
  BY DEF BlockEnd
<1>2. BlkInv(d)
  BY ControlFlowStep
<1>3. c \in Guard(d) \/ c = d
  BY <1>1
<1> QED  BY <1>2, <1>3, GuardStep

LEMMA BuilderInitIInv == BuilderInit => BuilderIInv
<1> SUFFICES ASSUME BuilderInit PROVE BuilderIInv
  OBVIOUS
<1>1. /\ opts \in Options /\ left \in 0 .. NumInstrs /\ inBlock \in 0 .. MaxBlock
  BY SiteBuilderAssumption DEF BuilderInit
<1>2. /\ blk.fresh = <<>> /\ blk.instrs = <<>> /\ blk.sites = <<>>
      /\ blk \in BlkType
  BY DEF BuilderInit, EmptyBlk, BlkType
<1>3. Size(blk) = 0 /\ NumSites(blk) = 0
  BY <1>2 DEF Size, NumSites
<1>4. Pending(blk) = {}
  <2>1. Pending(blk) = PendingAt(blk, 0 + 1)
    BY <1>3 DEF Pending
  <2>2. 0 \in Nat /\ 1 .. 0 = {}
    OBVIOUS
  <2> QED  BY <2>1, <2>2, PendingAtMember
<1>5. FreshOK(blk)
  BY <1>2, <1>4 DEF FreshOK, Distinct, Elems
<1>6. CodeOK(blk)
  BY <1>2, <1>3 DEF CodeOK, WellPlaced, GuardsOK
<1> QED  BY <1>1, <1>5, <1>6 DEF BuilderIInv, BlkInv

LEMMA BuilderNextIInv == BuilderIInv /\ [BuilderNext]_builderVars => BuilderIInv'
<1> SUFFICES ASSUME BuilderIInv, [BuilderNext]_builderVars PROVE BuilderIInv'
  OBVIOUS
<1>1. BlkInv(blk)
  BY DEF BuilderIInv
<1>2. ASSUME NEW w \in WorkInstrs, GenInstr(w) PROVE BuilderIInv'
  <2>1. PICK b \in Confine(blk, w) :
           blk' \in AfterInstr(Stabilize(Observe(Emit(b, <<w>>), w), w))
    BY <1>2 DEF GenInstr
  <2> DEFINE e == Stabilize(Observe(Emit(b, <<w>>), w), w)
  <2>2. BlkInv(e)
    BY <1>1, ConfineStep, ObserveStep, StabilizeStep
  <2> HIDE DEF e
  <2>3. blk' \in Guard(e) \/ blk' = e
    BY <2>1 DEF AfterInstr, e
  <2>4. BlkInv(blk')
    BY <2>2, <2>3, GuardStep
  <2>5. /\ left' \in 0 .. NumInstrs /\ inBlock' \in 0 .. MaxBlock
        /\ opts' \in Options
    <3>1. NumInstrs \in Nat /\ MaxBlock \in Nat
      BY SiteBuilderAssumption
    <3> QED  BY <1>2, <3>1 DEF GenInstr, BuilderIInv
  <2> QED  BY <2>4, <2>5 DEF BuilderIInv
<1>3. CASE EndBlock
  <2>1. BlkInv(blk')
    BY <1>1, <1>3, BlockEndStep DEF EndBlock
  <2>2. /\ left' \in 0 .. NumInstrs /\ inBlock' \in 0 .. MaxBlock
        /\ opts' \in Options
    BY <1>3, SiteBuilderAssumption DEF EndBlock, BuilderIInv
  <2> QED  BY <2>1, <2>2 DEF BuilderIInv
<1>4. CASE UNCHANGED builderVars
  BY <1>1, <1>4 DEF BuilderIInv, builderVars
<1> QED  BY <1>2, <1>3, <1>4 DEF BuilderNext

\* BuilderIInv is an inductive invariant.
THEOREM BuilderInvariance == BuilderSpec => []BuilderIInv
BY BuilderInitIInv, BuilderNextIInv, PTL DEF BuilderSpec

\* The generator's state always has its type.
THEOREM BuilderTyping == BuilderSpec => []BuilderTypeOK
<1>1. BuilderIInv => BuilderTypeOK
  BY DEF BuilderIInv, BlkInv, CodeOK, BlkType, BuilderTypeOK
<1> QED  BY <1>1, BuilderInvariance, PTL

\* `fresh' is always exactly what the generated code leaves unchecked, without
\* a duplicate that would cancel itself out of a guard.
THEOREM FreshTracksPending == BuilderSpec => []FreshIsPending
<1>1. BuilderIInv => FreshIsPending
  BY DEF BuilderIInv, BlkInv, FreshOK, FreshIsPending
<1> QED  BY <1>1, BuilderInvariance, PTL

\* Every guard of every program checks all the unchecked workload data there
\* is when it is reached.
THEOREM GuardsAreComplete == BuilderSpec => []GuardsCheckAllPending
<1>1. BuilderIInv => GuardsCheckAllPending
  <2> SUFFICES ASSUME BuilderIInv, NEW k \in SiteKind(blk, "guard")
               PROVE  /\ Elems(blk.sites[k - 1].rdeps) =
                           PendingAt(blk, blk.sites[k - 1].at)
                      /\ blk.sites[k - 1].rprod = blk.sites[k].rs1
                      /\ blk.sites[k - 1].rprod \notin
                           PendingAt(blk, blk.sites[k - 1].at)
    BY DEF GuardsCheckAllPending
  <2>1. blk \in BlkType /\ GuardsOK(blk)
    BY DEF BuilderIInv, BlkInv, CodeOK
  <2>2. k \in 1 .. NumSites(blk) /\ blk.sites[k].kind = "guard"
    BY <2>1, SizeType DEF SiteKind
  <2> QED  BY <2>1, <2>2 DEF GuardsOK, GuardOK, At
<1> QED  BY <1>1, BuilderInvariance, PTL

--------------------------------------------------------------------------------
(* Sites tile the code.                                                      *)

Last(site) ==
    IF site.failAt # NoFail THEN site.failAt
    ELSE site.at + ProducerLen + Len(site.rdeps) - 1

IsWork(b, i) == b.instrs[i] \in WorkInstrs \/ b.instrs[i].op = "fixup"

InSite(b, i) == \E k \in 1 .. NumSites(b) : i \in Footprint(b.sites[k])

Bounded(b) ==
    \A k \in 1 .. NumSites(b) :
        /\ At(b, k) \in Nat /\ Last(b.sites[k]) \in Nat
        /\ 1 <= At(b, k) /\ At(b, k) <= Last(b.sites[k]) /\ Last(b.sites[k]) <= Size(b)

Ordered(b) ==
    \A k, l \in 1 .. NumSites(b) : k < l => Last(b.sites[k]) < At(b, l)

Covered(b) == \A i \in 1 .. Size(b) : IsWork(b, i) <=> ~ InSite(b, i)

\* An indirect jump lands just past its jump to _fail.
LandsPast(site) ==
    site.kind = "value" /\ site.dest.type = "code" => site.dest.index = site.failAt + 1

Landings(b) == \A k \in 1 .. NumSites(b) : LandsPast(b.sites[k])

Tiled(b) == Bounded(b) /\ Ordered(b) /\ Covered(b) /\ Landings(b)

LEMMA FootprintIs == \A site : Footprint(site) = site.at .. Last(site)
BY DEF Footprint, Last

\* A slot of workload that belongs to no site.
LEMMA PlainTiles ==
  ASSUME NEW b \in BlkType, NEW c \in BlkType, Tiled(b),
         c.sites = b.sites, Size(c) = Size(b) + 1,
         \A i \in 1 .. Size(b) : c.instrs[i] = b.instrs[i],
         IsWork(c, Size(c))
  PROVE  Tiled(c)
<1>1. Size(b) \in Nat /\ NumSites(b) \in Nat /\ NumSites(c) = NumSites(b)
      /\ \A k : At(c, k) = At(b, k) /\ c.sites[k] = b.sites[k]
  BY SizeType DEF NumSites, At
<1>2. Bounded(c)
  <2> SUFFICES ASSUME NEW k \in 1 .. NumSites(c)
               PROVE  /\ At(c, k) \in Nat /\ Last(c.sites[k]) \in Nat
                      /\ 1 <= At(c, k) /\ At(c, k) <= Last(c.sites[k])
                      /\ Last(c.sites[k]) <= Size(c)
    BY DEF Bounded
  <2>1. /\ At(b, k) \in Nat /\ Last(b.sites[k]) \in Nat
        /\ 1 <= At(b, k) /\ At(b, k) <= Last(b.sites[k]) /\ Last(b.sites[k]) <= Size(b)
    BY <1>1 DEF Tiled, Bounded
  <2> QED  BY <1>1, <2>1
<1>3. Ordered(c) /\ Landings(c)
  BY <1>1 DEF Tiled, Ordered, Landings
<1>4. Covered(c)
  <2> SUFFICES ASSUME NEW i \in 1 .. Size(c) PROVE IsWork(c, i) <=> ~ InSite(c, i)
    BY DEF Covered
  <2>1. InSite(c, i) <=> InSite(b, i)
    BY <1>1 DEF InSite
  <2>2. CASE i \in 1 .. Size(b)
    <3>1. IsWork(c, i) <=> IsWork(b, i)
      BY <2>2 DEF IsWork
    <3> QED  BY <2>1, <2>2, <3>1 DEF Tiled, Covered
  <2>3. CASE i = Size(c)
    <3>1. ASSUME NEW k \in 1 .. NumSites(b), i \in Footprint(b.sites[k]) PROVE FALSE
      <4>1. i <= Last(b.sites[k]) /\ Last(b.sites[k]) \in Nat /\ Last(b.sites[k]) <= Size(b)
        <5>1. i \in b.sites[k].at .. Last(b.sites[k])
          BY <3>1, FootprintIs
        <5> QED  BY <5>1 DEF Tiled, Bounded
      <4> QED  BY <1>1, <2>3, <4>1
    <3> QED  BY <2>1, <2>3, <3>1 DEF InSite
  <2> QED  BY <1>1, <2>2, <2>3
<1> QED  BY <1>2, <1>3, <1>4 DEF Tiled

\* A site whose footprint is all that is appended.
LEMMA SiteTiles ==
  ASSUME NEW b \in BlkType, NEW c \in BlkType, Tiled(b),
         Size(c) > Size(b),
         \A i \in 1 .. Size(b) : c.instrs[i] = b.instrs[i],
         \A i \in Size(b) + 1 .. Size(c) : ~ IsWork(c, i),
         NumSites(c) = NumSites(b) + 1,
         \A k \in 1 .. NumSites(b) : c.sites[k] = b.sites[k],
         NEW site, c.sites[NumSites(b) + 1] = site,
         site.at = Size(b) + 1, Last(site) = Size(c), LandsPast(site)
  PROVE  Tiled(c)
<1>1. Size(b) \in Nat /\ Size(c) \in Nat /\ NumSites(b) \in Nat /\ NumSites(c) \in Nat
  BY SizeType
<1>2. \A k \in 1 .. NumSites(c) : k \in 1 .. NumSites(b) \/ k = NumSites(b) + 1
  BY <1>1
<1>3. ASSUME NEW k \in 1 .. NumSites(b)
      PROVE  /\ c.sites[k] = b.sites[k] /\ At(c, k) \in Nat /\ Last(c.sites[k]) \in Nat
             /\ 1 <= At(c, k) /\ At(c, k) <= Last(c.sites[k])
             /\ Last(c.sites[k]) <= Size(b)
  BY DEF Tiled, Bounded, At
<1>4. Bounded(c)
  <2> SUFFICES ASSUME NEW k \in 1 .. NumSites(c)
               PROVE  /\ At(c, k) \in Nat /\ Last(c.sites[k]) \in Nat
                      /\ 1 <= At(c, k) /\ At(c, k) <= Last(c.sites[k])
                      /\ Last(c.sites[k]) <= Size(c)
    BY DEF Bounded
  <2>1. CASE k \in 1 .. NumSites(b)
    BY <1>1, <1>3, <2>1
  <2>2. CASE k = NumSites(b) + 1
    BY <1>1, <2>2 DEF At
  <2> QED  BY <1>2, <2>1, <2>2
<1>5. Ordered(c)
  <2> SUFFICES ASSUME NEW k \in 1 .. NumSites(c), NEW l \in 1 .. NumSites(c), k < l
               PROVE  Last(c.sites[k]) < At(c, l)
    BY DEF Ordered
  <2>1. k \in 1 .. NumSites(b)
    BY <1>1
  <2>2. CASE l \in 1 .. NumSites(b)
    <3>1. Last(b.sites[k]) < At(b, l)
      BY <2>1, <2>2 DEF Tiled, Ordered
    <3> QED  BY <1>3, <2>1, <2>2, <3>1 DEF At
  <2>3. CASE l = NumSites(b) + 1
    <3>1. At(c, l) = Size(b) + 1
      BY <2>3 DEF At
    <3>2. Last(c.sites[k]) \in Nat /\ Last(c.sites[k]) <= Size(b)
      BY <1>3, <2>1
    <3> QED  BY <1>1, <3>1, <3>2
  <2> QED  BY <1>2, <2>2, <2>3
<1>6. Covered(c)
  <2> SUFFICES ASSUME NEW i \in 1 .. Size(c) PROVE IsWork(c, i) <=> ~ InSite(c, i)
    BY DEF Covered
  <2>1. CASE i \in 1 .. Size(b)
    <3>1. IsWork(c, i) <=> IsWork(b, i)
      BY <2>1 DEF IsWork
    <3>2. i \notin Footprint(site)
      <4>1. Footprint(site) = Size(b) + 1 .. Size(c)
        BY FootprintIs
      <4> QED  BY <1>1, <2>1, <4>1
    <3>3. InSite(c, i) <=> InSite(b, i)
      <4>1. InSite(b, i) => InSite(c, i)
        <5>1. \A k \in 1 .. NumSites(b) : k \in 1 .. NumSites(c)
          BY <1>1
        <5> QED  BY <1>3, <5>1 DEF InSite
      <4>2. InSite(c, i) => InSite(b, i)
        BY <1>2, <1>3, <3>2 DEF InSite
      <4> QED  BY <4>1, <4>2
    <3> QED  BY <2>1, <3>1, <3>3 DEF Tiled, Covered
  <2>2. CASE i \in Size(b) + 1 .. Size(c)
    <3>1. Footprint(site) = Size(b) + 1 .. Size(c)
      BY FootprintIs
    <3>2. NumSites(b) + 1 \in 1 .. NumSites(c)
      BY <1>1
    <3>3. InSite(c, i)
      BY <2>2, <3>1, <3>2 DEF InSite
    <3> QED  BY <2>2, <3>3
  <2> QED  BY <1>1, <2>1, <2>2
<1>7. Landings(c)
  BY <1>2, <1>3 DEF Tiled, Landings
<1> QED  BY <1>4, <1>5, <1>6, <1>7 DEF Tiled

\* What `fresh' lists has no bearing on the tiling.
LEMMA SameTiling ==
  ASSUME NEW b, Tiled(b), NEW c, c.instrs = b.instrs, c.sites = b.sites
  PROVE  Tiled(c)
<1>1. Size(c) = Size(b) /\ NumSites(c) = NumSites(b) /\ \A k : At(c, k) = At(b, k)
  BY DEF Size, NumSites, At
<1>2. \A i : (IsWork(c, i) <=> IsWork(b, i)) /\ (InSite(c, i) <=> InSite(b, i))
  BY <1>1 DEF IsWork, InSite
<1> QED  BY <1>1, <1>2 DEF Tiled, Bounded, Ordered, Covered, Landings

LEMMA PlaceholdersArePlain ==
  ASSUME NEW b, NEW i,
         b.instrs[i] \in {Nop, JalSkip} \/ \E rd, rs : b.instrs[i] = Jalr(rd, rs)
  PROVE  ~ IsWork(b, i)
<1>1. /\ \A w \in WorkInstrs : w.op # "nop" /\ w.op # "skip" /\ w.op # "jalr"
      /\ Nop.op = "nop" /\ JalSkip.op = "skip"
      /\ \A rd, rs : Jalr(rd, rs).op = "jalr"
  BY SiteBuilderAssumption DEF Nop, JalSkip, Jalr
<1>2. b.instrs[i].op \in {"nop", "skip", "jalr"}
  BY <1>1
<1> QED  BY <1>1, <1>2 DEF IsWork

--------------------------------------------------------------------------------
(* What the operators of the builder append.                                 *)

\* A value site without a jump of its own ends with its last xor.
LEMMA ValueSiteTiles ==
  ASSUME NEW b \in BlkType, Tiled(b), NEW rprod \in Regs, NEW rdeps \in Seq(Regs),
         NEW value, Data(value) \in DestType
  PROVE  /\ ValueSite(b, rprod, rdeps, Data(value), NoFail) \in BlkType
         /\ Tiled(ValueSite(b, rprod, rdeps, Data(value), NoFail))
<1> DEFINE c == ValueSite(b, rprod, rdeps, Data(value), NoFail)
           site == [kind |-> "value", at |-> Size(b) + 1, failAt |-> NoFail,
                    rprod |-> rprod, rdeps |-> rdeps, dest |-> Data(value)]
<1>1. NoFail \in Nat /\ Size(b) \in Nat /\ Len(rdeps) \in Nat
  BY SizeType DEF NoFail
<1>2. /\ c \in BlkType
      /\ Size(c) = Size(b) + 1 + Len(rdeps)
      /\ \A i \in 1 .. Size(b) : c.instrs[i] = b.instrs[i]
      /\ \A i \in Size(b) + 1 .. Size(c) : c.instrs[i] = Nop
      /\ NumSites(c) = NumSites(b) + 1
      /\ \A k \in 1 .. NumSites(b) : c.sites[k] = b.sites[k]
      /\ c.sites[NumSites(b) + 1] = site
  BY <1>1, ValueSiteShape
<1>3. site.at = Size(b) + 1 /\ Last(site) = Size(b) + 1 + Len(rdeps)
  <2>1. site.failAt = NoFail /\ site.at = Size(b) + 1 /\ site.rdeps = rdeps
    OBVIOUS
  <2> HIDE DEF site
  <2> QED  BY <1>1, <2>1 DEF Last, ProducerLen
<1>4. LandsPast(site)
  BY DEF LandsPast, Data
<1> HIDE DEF c, site
<1>5. \A i \in Size(b) + 1 .. Size(c) : ~ IsWork(c, i)
  BY <1>2, PlaceholdersArePlain
<1>6. Size(c) > Size(b)
  BY <1>1, <1>2
<1>7. Tiled(c)
  BY <1>2, <1>3, <1>4, <1>5, <1>6, SiteTiles
<1> QED  BY <1>2, <1>7 DEF c

\* A branch ends with its jump to _fail.
LEMMA BranchSiteTiles ==
  ASSUME NEW b \in BlkType, Tiled(b), NEW kind \in BranchKinds,
         NEW rs1 \in Regs, NEW rs2 \in Regs \cup {ZERO}, NEW taken \in BOOLEAN
  PROVE  /\ BranchSite(b, kind, rs1, rs2, taken) \in BlkType
         /\ Tiled(BranchSite(b, kind, rs1, rs2, taken))
<1> DEFINE c == BranchSite(b, kind, rs1, rs2, taken)
           site == [kind |-> kind, at |-> Size(b) + 1,
                    failAt |-> BranchFailAt(b, taken),
                    rs1 |-> rs1, rs2 |-> rs2, taken |-> taken]
<1>1. Size(b) \in Nat /\ NumSites(b) \in Nat
  BY SizeType
<1>2. /\ c \in BlkType /\ Size(c) > Size(b)
      /\ \A i \in 1 .. Size(b) : c.instrs[i] = b.instrs[i]
      /\ \A i \in Size(b) + 1 .. Size(c) : c.instrs[i] \in {Nop, JalSkip}
      /\ NumSites(c) = NumSites(b) + 1
      /\ \A k \in 1 .. NumSites(b) : c.sites[k] = b.sites[k]
  BY BranchSiteShape
<1>3. c.instrs = b.instrs \o BranchSlots(taken) /\ c.sites = Append(b.sites, site)
  BY DEF BranchSite, AddSite, Emit, BlkType
<1>4. site.at = Size(b) + 1 /\ site.failAt = BranchFailAt(b, taken) /\ site.kind = kind
  OBVIOUS
<1> HIDE DEF c, site
<1>5. c.sites[NumSites(b) + 1] = site
  BY <1>3 DEF BlkType, NumSites
<1>6. Size(c) = BranchFailAt(b, taken)
  <2>1. b.instrs \in Seq(SlotType)
    BY DEF BlkType
  <2>2. CASE taken
    <3>1. Len(b.instrs \o <<Nop, Nop>>) = Len(b.instrs) + 2
      BY <2>1
    <3> QED  BY <1>3, <2>2, <3>1 DEF BranchSlots, BranchFailAt, Size
  <2>3. CASE ~ taken
    <3>1. Len(b.instrs \o <<Nop, JalSkip, Nop>>) = Len(b.instrs) + 3
      BY <2>1
    <3> QED  BY <1>3, <2>3, <3>1 DEF BranchSlots, BranchFailAt, Size
  <2> QED  BY <2>2, <2>3
<1>7. Last(site) = Size(c)
  <2>1. Size(c) # NoFail
    BY <1>1, <1>2, SizeType DEF NoFail
  <2> QED  BY <1>4, <1>6, <2>1 DEF Last
<1>8. LandsPast(site)
  BY <1>4 DEF LandsPast, BranchKinds
<1>9. \A i \in Size(b) + 1 .. Size(c) : ~ IsWork(c, i)
  BY <1>2, PlaceholdersArePlain
<1>10. Tiled(c)
  BY <1>2, <1>4, <1>5, <1>7, <1>8, <1>9, SiteTiles
<1> QED  BY <1>2, <1>10 DEF c

\* An indirect jump is a value site, the jump and its jump to _fail.
LEMMA IndirectJumpShape ==
  ASSUME NEW b, BlkInv(b), NEW rprod \in Regs, NEW rd \in Regs,
         NEW rdeps \in Seq(Regs),
         NEW c, c = IndirectJump(b, rprod, rd, rdeps)
  PROVE  /\ c \in BlkType
         /\ Size(c) = Size(b) + Len(rdeps) + 3
         /\ \A i \in 1 .. Size(b) : c.instrs[i] = b.instrs[i]
         /\ \A i \in Size(b) + 1 .. Size(c) : c.instrs[i] \in {Nop, Jalr(rd, rprod)}
         /\ c.instrs[Size(c) - 1] = Jalr(rd, rprod)
         /\ NumSites(c) = NumSites(b) + 1
         /\ \A k \in 1 .. NumSites(b) : c.sites[k] = b.sites[k]
         /\ c.sites[NumSites(b) + 1] =
               [kind |-> "value", at |-> Size(b) + 1, failAt |-> Size(c),
                rprod |-> rprod, rdeps |-> rdeps, dest |-> Code(Size(c) + 1)]
<1> DEFINE e == Clobber(Clobber(b, rprod), rd)
           dest == Size(b) + 1 + ProducerLen + Len(rdeps) + 2
           v == ValueSite(e, rprod, rdeps, Code(dest), dest - 1)
           slots == <<Jalr(rd, rprod), Nop>>
           site == [kind |-> "value", at |-> Size(b) + 1, failAt |-> dest - 1,
                    rprod |-> rprod, rdeps |-> rdeps, dest |-> Code(dest)]
<1>1. b \in BlkType /\ Distinct(b.fresh)
  BY DEF BlkInv, CodeOK, FreshOK
<1>2. /\ e \in BlkType /\ e.instrs = b.instrs /\ e.sites = b.sites
      /\ Size(e) = Size(b) /\ NumSites(e) = NumSites(b)
  <2>1. /\ Clobber(b, rprod) \in BlkType /\ Clobber(b, rprod).instrs = b.instrs
        /\ Clobber(b, rprod).sites = b.sites /\ Distinct(Clobber(b, rprod).fresh)
    BY <1>1, ClobberShape
  <2>2. /\ e \in BlkType /\ e.instrs = b.instrs /\ e.sites = b.sites
    BY <2>1, ClobberShape
  <2> QED  BY <2>2 DEF Size, NumSites
<1>3. c = Emit(v, slots)
  BY DEF IndirectJump
<1> HIDE DEF e
<1>4. Size(b) \in Nat /\ NumSites(b) \in Nat /\ Len(rdeps) \in Nat
  BY <1>1, SizeType
<1>5. /\ dest = Size(b) + Len(rdeps) + 4 /\ dest \in Nat \ {0} /\ dest - 1 \in Nat
      /\ dest - 1 # 0
  BY <1>4 DEF ProducerLen
<1> HIDE DEF dest
<1>6. Code(dest) \in DestType
  BY <1>5 DEF Code, DestType
<1>7. /\ v \in BlkType
      /\ Size(v) = Size(b) + 1 + Len(rdeps)
      /\ \A i \in 1 .. Size(b) : v.instrs[i] = b.instrs[i]
      /\ \A i \in Size(b) + 1 .. Size(v) : v.instrs[i] = Nop
      /\ NumSites(v) = NumSites(b) + 1
      /\ \A k \in 1 .. NumSites(b) : v.sites[k] = b.sites[k]
      /\ v.sites[NumSites(b) + 1] = site
  <2>1. /\ v \in BlkType
        /\ Size(v) = Size(e) + 1 + Len(rdeps)
        /\ \A i \in 1 .. Size(e) : v.instrs[i] = e.instrs[i]
        /\ \A i \in Size(e) + 1 .. Size(v) : v.instrs[i] = Nop
        /\ NumSites(v) = NumSites(e) + 1
        /\ \A k \in 1 .. NumSites(e) : v.sites[k] = e.sites[k]
        /\ v.sites[NumSites(e) + 1] =
              [kind |-> "value", at |-> Size(e) + 1, failAt |-> dest - 1,
               rprod |-> rprod, rdeps |-> rdeps, dest |-> Code(dest)]
    BY <1>2, <1>5, <1>6, ValueSiteShape
  <2> QED  BY <1>2, <2>1
<1>8. /\ site.at = Size(b) + 1 /\ site.failAt = dest - 1 /\ site.dest = Code(dest)
  OBVIOUS
<1>9. slots \in Seq(SlotType) /\ Len(slots) = 2
      /\ slots[1] = Jalr(rd, rprod) /\ slots[2] = Nop
  BY DEF SlotType, Jalr
<1> HIDE DEF v, slots, site
<1>10. /\ c \in BlkType /\ c.sites = v.sites /\ NumSites(c) = NumSites(v)
       /\ Size(c) = Size(v) + 2
       /\ \A i \in 1 .. Size(v) : c.instrs[i] = v.instrs[i]
       /\ c.instrs[Size(v) + 1] = Jalr(rd, rprod) /\ c.instrs[Size(v) + 2] = Nop
  <2>1. /\ c \in BlkType /\ c.sites = v.sites /\ NumSites(c) = NumSites(v)
        /\ Size(c) = Size(v) + Len(slots)
        /\ \A i \in 1 .. Size(v) : c.instrs[i] = v.instrs[i]
        /\ \A i \in 1 .. Len(slots) : c.instrs[Size(v) + i] = slots[i]
    <3> DEFINE d == Emit(v, slots)
    <3>1. /\ d \in BlkType /\ d.sites = v.sites /\ NumSites(d) = NumSites(v)
          /\ Size(d) = Size(v) + Len(slots)
          /\ \A i \in 1 .. Size(v) : d.instrs[i] = v.instrs[i]
          /\ \A i \in 1 .. Len(slots) : d.instrs[Size(v) + i] = slots[i]
      BY <1>7, <1>9, EmitShape
    <3>2. c = d
      BY <1>3
    <3> HIDE DEF d
    <3> QED  BY <3>1, <3>2
  <2>2. 1 \in 1 .. Len(slots) /\ 2 \in 1 .. Len(slots)
    BY <1>9
  <2> QED  BY <1>9, <2>1, <2>2
<1>11. ASSUME NEW i \in Size(b) + 1 .. Size(c)
       PROVE  c.instrs[i] \in {Nop, Jalr(rd, rprod)}
  <2>1. i \in Size(b) + 1 .. Size(v) \/ i = Size(v) + 1 \/ i = Size(v) + 2
    <3>1. Size(v) \in Nat /\ Size(c) = Size(v) + 2
      BY <1>7, <1>10, SizeType
    <3> QED  BY ONLY <1>4, <3>1, <1>11, i \in Size(b) + 1 .. Size(c)
  <2>2. CASE i \in Size(b) + 1 .. Size(v)
    <3>1. i \in 1 .. Size(v)
      BY <1>4, <2>2
    <3> QED  BY <1>7, <1>10, <2>2, <3>1
  <2>3. CASE i = Size(v) + 1 \/ i = Size(v) + 2
    BY <1>10, <2>3
  <2> QED  BY <2>1, <2>2, <2>3
<1>12. Size(c) = dest - 1 /\ dest = Size(c) + 1 /\ Size(c) = Size(b) + Len(rdeps) + 3
  BY <1>4, <1>5, <1>7, <1>10
<1>13. \A i \in 1 .. Size(b) : c.instrs[i] = b.instrs[i]
  <2> TAKE i \in 1 .. Size(b)
  <2>1. i \in 1 .. Size(v)
    BY <1>4, <1>7
  <2> QED  BY <1>7, <1>10, <2>1
<1>14. c.sites[NumSites(b) + 1] =
          [kind |-> "value", at |-> Size(b) + 1, failAt |-> Size(c),
           rprod |-> rprod, rdeps |-> rdeps, dest |-> Code(Size(c) + 1)]
  BY <1>7, <1>10, <1>12 DEF site
<1>15. c.instrs[Size(c) - 1] = Jalr(rd, rprod)
  <2>1. Size(c) - 1 = Size(v) + 1
    BY <1>4, <1>7, <1>10
  <2> QED  BY <1>10, <2>1
<1> QED  BY <1>7, <1>10, <1>11, <1>12, <1>13, <1>14, <1>15

LEMMA IndirectJumpTiles ==
  ASSUME NEW b, BlkInv(b), Tiled(b), NEW rprod \in Regs, NEW rd \in Regs,
         NEW rdeps \in Seq(Regs)
  PROVE  Tiled(IndirectJump(b, rprod, rd, rdeps))
<1> SUFFICES ASSUME NEW c, c = IndirectJump(b, rprod, rd, rdeps) PROVE Tiled(c)
  OBVIOUS
<1> DEFINE site == [kind |-> "value", at |-> Size(b) + 1, failAt |-> Size(c),
                    rprod |-> rprod, rdeps |-> rdeps, dest |-> Code(Size(c) + 1)]
<1>1. b \in BlkType /\ Size(b) \in Nat /\ Len(rdeps) \in Nat
  BY SizeType DEF BlkInv, CodeOK
<1>2. /\ c \in BlkType /\ Size(c) = Size(b) + Len(rdeps) + 3
      /\ \A i \in 1 .. Size(b) : c.instrs[i] = b.instrs[i]
      /\ \A i \in Size(b) + 1 .. Size(c) : c.instrs[i] \in {Nop, Jalr(rd, rprod)}
      /\ NumSites(c) = NumSites(b) + 1
      /\ \A k \in 1 .. NumSites(b) : c.sites[k] = b.sites[k]
      /\ c.sites[NumSites(b) + 1] = site
  BY IndirectJumpShape
<1>3. /\ site.at = Size(b) + 1 /\ site.failAt = Size(c)
      /\ site.dest = Code(Size(c) + 1)
  OBVIOUS
<1> HIDE DEF site
<1>4. Size(c) > Size(b) /\ Size(c) # 0
  BY <1>1, <1>2
<1>5. Last(site) = Size(c)
  BY <1>3, <1>4 DEF Last, NoFail
<1>6. LandsPast(site)
  BY <1>3 DEF LandsPast, Code
<1>7. \A i \in Size(b) + 1 .. Size(c) : ~ IsWork(c, i)
  BY <1>2, PlaceholdersArePlain
<1> QED  BY <1>1, <1>2, <1>3, <1>4, <1>5, <1>6, <1>7, SiteTiles

--------------------------------------------------------------------------------
(* The steps of the generator.                                               *)

LEMMA AddressTiles ==
  ASSUME NEW b, BlkInv(b), Tiled(b), NEW rprod \in Regs, NEW addr \in Addresses,
         NEW c \in Address(b, rprod, addr)
  PROVE  Tiled(c)
<1>1. b \in BlkType /\ Distinct(b.fresh) /\ b.fresh \in Seq(Regs)
  BY DEF BlkInv, CodeOK, FreshOK, BlkType
<1>2. PICK rdeps \in Peek(b, MAX_PEEK, rprod) :
         c = ValueSite(Clobber(b, rprod), rprod, rdeps, Data(addr), NoFail)
  BY DEF Address
<1>3. rdeps \in Seq(Regs)
  BY <1>1, SiteBuilderAssumption, PeekProperties
<1>4. Data(addr) \in DestType
  BY DEF Data, DestType
<1>5. Clobber(b, rprod) \in BlkType /\ Tiled(Clobber(b, rprod))
  BY <1>1, ClobberShape, SameTiling
<1> QED  BY <1>2, <1>3, <1>4, <1>5, ValueSiteTiles

LEMMA GuardTiles ==
  ASSUME NEW b, BlkInv(b), Tiled(b), NEW c \in Guard(b)
  PROVE  Tiled(c)
<1>1. b \in BlkType /\ Distinct(b.fresh) /\ b.fresh \in Seq(Regs) /\ FreshOK(b)
  BY DEF BlkInv, CodeOK, FreshOK, BlkType
<1> DEFINE d == [b EXCEPT !.fresh = <<>>]
           v(acc) == ValueSite(d, acc, Without(b.fresh, acc), Data(ZeroWord), NoFail)
<1>2. PICK acc \in Stale(b), taken \in BOOLEAN :
         c = BranchSite(v(acc), "guard", acc, ZERO, taken)
  BY DEF Guard
<1>3. acc \in Regs /\ Without(b.fresh, acc) \in Seq(Regs)
  BY <1>1, StaleIsNotPending, WithoutProperties
<1>4. d \in BlkType /\ d.instrs = b.instrs /\ d.sites = b.sites
  <2>1. <<>> \in Seq(Regs)
    OBVIOUS
  <2> QED  BY <1>1, <2>1 DEF BlkType
<1>5. Tiled(d)
  BY <1>4, SameTiling
<1>6. Data(ZeroWord) \in DestType
  BY DEF Data, DestType
<1> HIDE DEF d
<1>7. v(acc) \in BlkType /\ Tiled(v(acc))
  BY <1>3, <1>4, <1>5, <1>6, ValueSiteTiles
<1> HIDE DEF v
<1>8. "guard" \in BranchKinds /\ ZERO \in Regs \cup {ZERO}
  BY DEF BranchKinds
<1> QED  BY <1>2, <1>3, <1>7, <1>8, BranchSiteTiles

LEMMA ObserveTiles ==
  ASSUME NEW b, BlkInv(b), Tiled(b), NEW w \in WorkInstrs
  PROVE  Tiled(Observe(Emit(b, <<w>>), w))
<1> DEFINE e == Emit(b, <<w>>)
<1>1. b \in BlkType
  BY DEF BlkInv, CodeOK
<1>2. <<w>> \in Seq(SlotType) /\ Len(<<w>>) = 1 /\ <<w>>[1] = w
  BY DEF SlotType
<1>3. /\ e \in BlkType /\ e.sites = b.sites /\ Size(e) = Size(b) + 1
      /\ \A i \in 1 .. Size(b) : e.instrs[i] = b.instrs[i]
      /\ e.instrs[Size(b) + 1] = w
  <2>1. 1 \in 1 .. Len(<<w>>)
    BY <1>2
  <2> QED  BY <1>1, <1>2, <2>1, EmitShape
<1> HIDE DEF e
<1>4. Tiled(e)
  BY <1>1, <1>3, PlainTiles DEF IsWork
<1>5. Observe(e, w).instrs = e.instrs /\ Observe(e, w).sites = e.sites
  BY <1>3 DEF Observe, BlkType
<1> QED  BY <1>4, <1>5, SameTiling DEF e

LEMMA StabilizeTiles ==
  ASSUME NEW b, BlkInv(b), Tiled(b), NEW w \in WorkInstrs
  PROVE  Tiled(Stabilize(b, w))
<1> SUFFICES ASSUME w.unstable, w.rd # ZERO
             PROVE  Tiled(Clobber(Emit(b, <<Fixup(w.rd)>>), w.rd))
  BY DEF Stabilize
<1> DEFINE slots == <<Fixup(w.rd)>>
           e == Emit(b, slots)
<1>1. b \in BlkType /\ Distinct(b.fresh) /\ w.rd \in Regs
  BY SiteBuilderAssumption DEF BlkInv, CodeOK, FreshOK
<1>2. slots \in Seq(SlotType) /\ Len(slots) = 1 /\ slots[1] = Fixup(w.rd)
  BY <1>1 DEF SlotType, Fixup
<1> HIDE DEF slots
<1>3. /\ e \in BlkType /\ e.fresh = b.fresh /\ e.sites = b.sites
      /\ Size(e) = Size(b) + 1
      /\ \A i \in 1 .. Size(b) : e.instrs[i] = b.instrs[i]
      /\ e.instrs[Size(b) + 1] = Fixup(w.rd)
  <2>1. 1 \in 1 .. Len(slots)
    BY <1>2
  <2>2. /\ e \in BlkType /\ e.fresh = b.fresh /\ e.sites = b.sites
        /\ Size(e) = Size(b) + Len(slots)
        /\ \A i \in 1 .. Size(b) : e.instrs[i] = b.instrs[i]
        /\ \A i \in 1 .. Len(slots) : e.instrs[Size(b) + i] = slots[i]
    BY <1>1, <1>2, EmitShape, Zenon
  <2> QED  BY <1>2, <2>1, <2>2, ZenonT(30)
<1> HIDE DEF e
<1>4. Tiled(e)
  BY <1>1, <1>3, PlainTiles DEF IsWork, Fixup
<1>5. Clobber(e, w.rd).instrs = e.instrs /\ Clobber(e, w.rd).sites = e.sites
  BY <1>1, <1>3, ClobberShape
<1> QED  BY <1>4, <1>5, SameTiling DEF e, slots

LEMMA ConfineTiles ==
  ASSUME NEW b, BlkInv(b), Tiled(b), NEW w \in WorkInstrs, NEW c \in Confine(b, w)
  PROVE  Tiled(c)
<1>1. CASE w.base = ZERO
  BY <1>1 DEF Confine
<1>2. CASE w.base # ZERO
  <2>1. w.base \in Regs
    BY <1>2, SiteBuilderAssumption
  <2>2. PICK addr \in Addresses : c \in Address(b, w.base, addr)
    BY <1>2 DEF Confine
  <2> QED  BY <2>1, <2>2, AddressTiles
<1> QED  BY <1>1, <1>2

\* The operands of a branch are registers.
LEMMA OperandsType ==
  ASSUME NEW b, BlkInv(b), NEW rs \in Operands(b)
  PROVE  rs[1] \in Regs /\ rs[2] \in Regs
<1>1. b.fresh \in Seq(Regs) /\ Distinct(b.fresh)
  BY DEF BlkInv, CodeOK, FreshOK, BlkType
<1>2. PICK regs \in Peek(b, 2, ZERO) :
         rs \in IF Len(regs) > 1 THEN {<<regs[1], regs[2]>>}
                ELSE {<<regs[1], r>> : r \in Regs \ {regs[1]}}
  BY DEF Operands
<1>3. 2 \in Nat \ {0}
  OBVIOUS
<1>4. regs \in Seq(Regs) /\ regs # <<>>
  BY <1>1, <1>3, PeekProperties
<1>5. Len(regs) \in Nat /\ Len(regs) > 0 /\ regs[1] \in Regs
  BY <1>4
<1>6. CASE Len(regs) > 1
  <2>1. regs[2] \in Regs
    BY <1>4, <1>5, <1>6
  <2> QED  BY <1>2, <1>5, <1>6, <2>1
<1>7. CASE ~ (Len(regs) > 1)
  <2>1. PICK r \in Regs \ {regs[1]} : rs = <<regs[1], r>>
    BY <1>2, <1>7
  <2> QED  BY <1>5, <2>1
<1> QED  BY <1>6, <1>7

LEMMA ControlFlowTiles ==
  ASSUME NEW b, BlkInv(b), Tiled(b), NEW c \in ControlFlow(b)
  PROVE  Tiled(c)
<1>1. /\ b \in BlkType /\ b.fresh \in Seq(Regs) /\ Distinct(b.fresh) /\ FreshOK(b)
  BY DEF BlkInv, CodeOK, FreshOK, BlkType
<1>2. CASE c \in IndirectJumps(b)
  <2>0. PICK rprod \in Stale(b) :
           c \in {IndirectJump(b, rprod, rd, rdeps) :
                     rd \in Stale(b), rdeps \in Peek(b, MAX_PEEK, rprod)}
    BY <1>2 DEF IndirectJumps
  <2>1. PICK rd \in Stale(b), rdeps \in Peek(b, MAX_PEEK, rprod) :
           c = IndirectJump(b, rprod, rd, rdeps)
    BY <2>0
  <2>2. rprod \in Regs /\ rd \in Regs
    BY <1>1, StaleIsNotPending
  <2>3. rdeps \in Seq(Regs)
    BY <1>1, SiteBuilderAssumption, PeekProperties
  <2> QED  BY <2>1, <2>2, <2>3, IndirectJumpTiles
<1>3. CASE c \in Branches(b)
  <2>1. PICK rs \in Operands(b), taken \in BOOLEAN :
           c = BranchSite(b, "branch", rs[1], rs[2], taken)
    BY <1>3 DEF Branches
  <2>2. rs[1] \in Regs /\ rs[2] \in Regs \cup {ZERO} /\ "branch" \in BranchKinds
    BY OperandsType DEF BranchKinds
  <2> QED  BY <1>1, <2>1, <2>2, BranchSiteTiles
<1>4. CASE c = b
  BY <1>4
<1> QED  BY <1>2, <1>3, <1>4 DEF ControlFlow

LEMMA BlockEndTiles ==
  ASSUME NEW b, BlkInv(b), Tiled(b), NEW c \in BlockEnd(b)
  PROVE  Tiled(c)
<1>1. PICK d \in {b} \cup ControlFlow(b) :
         c \in IF CanGuard /\ d.fresh # <<>> THEN Guard(d) ELSE {d}
  BY DEF BlockEnd
<1>2. BlkInv(d) /\ Tiled(d)
  BY ControlFlowStep, ControlFlowTiles
<1>3. c \in Guard(d) \/ c = d
  BY <1>1
<1> QED  BY <1>2, <1>3, GuardTiles

LEMMA TilingInit == BuilderInit => Tiled(blk)
<1> SUFFICES ASSUME BuilderInit PROVE Tiled(blk)
  OBVIOUS
<1>1. Size(blk) = 0 /\ NumSites(blk) = 0
  BY DEF BuilderInit, EmptyBlk, Size, NumSites
<1> QED  BY <1>1 DEF Tiled, Bounded, Ordered, Covered, Landings

LEMMA TilingNext == BuilderIInv /\ Tiled(blk) /\ [BuilderNext]_builderVars => Tiled(blk)'
<1> SUFFICES ASSUME BuilderIInv, Tiled(blk), [BuilderNext]_builderVars
             PROVE  Tiled(blk')
  OBVIOUS
<1>1. BlkInv(blk)
  BY DEF BuilderIInv
<1>2. ASSUME NEW w \in WorkInstrs, GenInstr(w) PROVE Tiled(blk')
  <2>1. PICK b \in Confine(blk, w) :
           blk' \in AfterInstr(Stabilize(Observe(Emit(b, <<w>>), w), w))
    BY <1>2 DEF GenInstr
  <2> DEFINE o == Observe(Emit(b, <<w>>), w)
             e == Stabilize(o, w)
  <2>2. BlkInv(b) /\ Tiled(b)
    BY <1>1, ConfineStep, ConfineTiles
  <2>3. BlkInv(o) /\ Tiled(o)
    BY <2>2, ObserveStep, ObserveTiles
  <2>4. blk' \in AfterInstr(e)
    BY <2>1
  <2> HIDE DEF o
  <2>5. BlkInv(e) /\ Tiled(e)
    BY <2>3, StabilizeStep, StabilizeTiles
  <2> HIDE DEF e
  <2>6. blk' \in Guard(e) \/ blk' = e
    BY <2>4 DEF AfterInstr
  <2> QED  BY <2>5, <2>6, GuardTiles
<1>3. CASE EndBlock
  BY <1>1, <1>3, BlockEndTiles DEF EndBlock
<1>4. CASE UNCHANGED builderVars
  BY <1>4 DEF builderVars
<1> QED  BY <1>2, <1>3, <1>4 DEF BuilderNext

\* Every slot of every program is workload, with its fixup, or belongs to exactly
\* one site; sites are in program order, and an indirect jump lands just past its
\* jump to _fail: patching a site cannot touch another site or the workload
\* (entangle.rs: value_site, branch_site, control_flow).
THEOREM SitesTile == BuilderSpec => []SitesTileTheCode
<1>1. BuilderIInv /\ Tiled(blk) => SitesTileTheCode
  <2> SUFFICES ASSUME BuilderIInv, Tiled(blk) PROVE SitesTileTheCode
    OBVIOUS
  <2>1. /\ DOMAIN blk.instrs = 1 .. Size(blk) /\ DOMAIN blk.sites = 1 .. NumSites(blk)
        /\ NumSites(blk) \in Nat
    BY SizeType DEF BuilderIInv, BlkInv, CodeOK
  <2>2. ASSUME NEW k \in DOMAIN blk.sites, NEW l \in DOMAIN blk.sites, k < l,
               NEW i \in Footprint(blk.sites[k]), NEW j \in Footprint(blk.sites[l])
        PROVE  i < j
    <3>1. /\ i \in At(blk, k) .. Last(blk.sites[k])
          /\ j \in At(blk, l) .. Last(blk.sites[l])
      BY FootprintIs DEF At
    <3>2. /\ Last(blk.sites[k]) < At(blk, l)
          /\ Last(blk.sites[k]) \in Nat /\ At(blk, l) \in Nat
      BY <2>1, <2>2 DEF Tiled, Ordered, Bounded
    <3> QED  BY <3>1, <3>2
  <2>3. ASSUME NEW i \in DOMAIN blk.instrs
        PROVE  (blk.instrs[i] \in WorkInstrs \/ blk.instrs[i].op = "fixup") <=>
                  \A k \in DOMAIN blk.sites : i \notin Footprint(blk.sites[k])
    BY <2>1 DEF Tiled, Covered, IsWork, InSite
  <2>4. ASSUME NEW k \in SiteKind(blk, "value"), blk.sites[k].dest.type = "code"
        PROVE  blk.sites[k].dest.index = blk.sites[k].failAt + 1
    BY <2>1, <2>4 DEF Tiled, Landings, LandsPast, SiteKind
  <2> QED  BY <2>2, <2>3, <2>4 DEF SitesTileTheCode
<1>2. BuilderSpec => []Tiled(blk)
  BY TilingInit, TilingNext, BuilderInvariance, PTL DEF BuilderSpec
<1> QED  BY <1>1, <1>2, BuilderInvariance, PTL

--------------------------------------------------------------------------------
(* Where the parts of a site are: what a program goes through, planned or not. *)

\* A value site is laid out before the slot it is for: its jump, or what follows
\* its last xor.
ValueLaid(b, site) ==
    /\ site.failAt = NoFail => site.dest.type = "data"
    /\ site.failAt # NoFail =>
          /\ site.failAt = site.at + ProducerLen + Len(site.rdeps) + 1
          /\ site.dest = Code(site.failAt + 1)
          /\ \E rd \in Regs : b.instrs[site.failAt - 1] = Jalr(rd, site.rprod)

BranchLaid(b, site) ==
    /\ site.taken => site.failAt = site.at + 1
    /\ ~ site.taken => site.failAt = site.at + 2 /\ b.instrs[site.at + 1] = JalSkip

\* The site in front of a guard's branch computes its accumulator.
GuardLaid(acc, site) ==
    /\ acc.kind = "value" /\ acc.failAt = NoFail /\ acc.dest = Data(ZeroWord)
    /\ acc.rprod = site.rs1
    /\ acc.at + ProducerLen + Len(acc.rdeps) = site.at

SiteLaid(b, k, can) ==
    /\ b.sites[k].kind = "branch" => can
    /\ b.sites[k].kind = "value" => ValueLaid(b, b.sites[k])
    /\ b.sites[k].kind \in BranchKinds => BranchLaid(b, b.sites[k])
    /\ b.sites[k].kind = "guard" => k > 1 /\ GuardLaid(b.sites[k - 1], b.sites[k])

\* A site that ends in front of slot i points base at a data section.
Based(b, i, base) ==
    \E k \in 1 .. NumSites(b), addr \in Addresses :
        /\ b.sites[k].kind = "value" /\ b.sites[k].failAt = NoFail
        /\ b.sites[k].rprod = base /\ b.sites[k].dest = Data(addr)
        /\ At(b, k) + ProducerLen + Len(b.sites[k].rdeps) = i

WorkLaid(b, i) ==
    LET w == b.instrs[i]
    IN  w \in WorkInstrs =>
            /\ w.base # ZERO => Based(b, i, w.base)
            /\ w.unstable /\ w.rd # ZERO =>
                  i < Size(b) /\ b.instrs[i + 1] = Fixup(w.rd)

Laid(b, can) ==
    /\ \A k \in 1 .. NumSites(b) : SiteLaid(b, k, can)
    /\ \A i \in 1 .. Size(b) : WorkLaid(b, i)

LEMMA SiteIn ==
  ASSUME NEW b \in BlkType, NEW k \in 1 .. NumSites(b)
  PROVE  /\ b.sites[k] \in SiteType /\ At(b, k) \in Nat /\ b.sites[k].failAt \in Nat
         /\ b.sites[k].kind \in {"value"} \cup BranchKinds
         /\ b.sites[k].kind = "value" =>
               /\ b.sites[k].rdeps \in Seq(Regs) /\ Len(b.sites[k].rdeps) \in Nat
               /\ b.sites[k].rprod \in Regs /\ b.sites[k].dest \in DestType
         /\ b.sites[k].kind \in BranchKinds =>
               /\ b.sites[k].rs1 \in Regs /\ b.sites[k].rs2 \in Regs \cup {ZERO}
               /\ b.sites[k].taken \in BOOLEAN
<1>1. b.sites[k] \in SiteType
  BY SizeType DEF BlkType
<1> QED  BY <1>1 DEF SiteType, At, BranchKinds

\* Code that is appended moves nothing of what there is.
LEMMA LaidStable ==
  ASSUME NEW can, NEW b \in BlkType, NEW c \in BlkType,
         Tiled(b), Laid(b, can), Extends(b, c),
         \A k \in NumSites(b) + 1 .. NumSites(c) : SiteLaid(c, k, can),
         \A i \in Size(b) + 1 .. Size(c) : WorkLaid(c, i)
  PROVE  Laid(c, can)
<1>1. /\ Size(b) \in Nat /\ NumSites(b) \in Nat /\ Size(c) \in Nat /\ NumSites(c) \in Nat
      /\ Size(b) <= Size(c) /\ NumSites(b) <= NumSites(c)
      /\ \A k \in 1 .. NumSites(b) : c.sites[k] = b.sites[k] /\ At(c, k) = At(b, k)
      /\ \A i \in 1 .. Size(b) : c.instrs[i] = b.instrs[i]
  BY SizeType DEF Extends, At
<1>2. ASSUME NEW k \in 1 .. NumSites(b) PROVE SiteLaid(c, k, can)
  <2>1. SiteLaid(b, k, can) /\ c.sites[k] = b.sites[k]
    BY <1>1 DEF Laid
  <2> DEFINE site == b.sites[k]
  <2>2. /\ site.at \in Nat /\ site.failAt \in Nat /\ 1 <= site.at
        /\ site.failAt # NoFail => site.failAt <= Size(b)
        /\ site.kind \in {"value"} \cup BranchKinds
    BY SiteIn DEF Tiled, Bounded, Last, At
  <2>3. ASSUME site.kind = "value" PROVE ValueLaid(c, site)
    <3>1. ValueLaid(b, site)
      BY <2>1, <2>3 DEF SiteLaid
    <3>2. Len(site.rdeps) \in Nat
      BY <2>3, SiteIn
    <3>3. ASSUME site.failAt # NoFail PROVE site.failAt - 1 \in 1 .. Size(b)
      <4>1. site.failAt = site.at + 1 + Len(site.rdeps) + 1
        BY <3>1, <3>3 DEF ValueLaid, ProducerLen
      <4>2. Size(b) \in Nat /\ site.failAt <= Size(b)
        BY <1>1, <2>2, <3>3
      <4> HIDE DEF site
      <4> QED  BY <2>2, <3>2, <4>1, <4>2
    <3> QED  BY <1>1, <3>1, <3>3 DEF ValueLaid
  <2>4. ASSUME site.kind \in BranchKinds PROVE BranchLaid(c, site)
    <3>1. BranchLaid(b, site)
      BY <2>1, <2>4 DEF SiteLaid
    <3>2. ASSUME ~ site.taken PROVE site.at + 1 \in 1 .. Size(b)
      BY <1>1, <2>2, <3>1, <3>2 DEF BranchLaid, NoFail
    <3> QED  BY <1>1, <3>1, <3>2 DEF BranchLaid
  <2>5. ASSUME site.kind = "guard"
        PROVE  k > 1 /\ GuardLaid(c.sites[k - 1], site)
    <3>1. k > 1 /\ GuardLaid(b.sites[k - 1], site)
      BY <2>1, <2>5 DEF SiteLaid
    <3>2. k - 1 \in 1 .. NumSites(b)
      BY <1>1, <3>1
    <3> QED  BY <1>1, <3>1, <3>2
  <2> HIDE DEF site
  <2>6. c.sites[k] = site
    BY <2>1 DEF site
  <2>7. site.kind = "branch" => can
    BY <2>1 DEF SiteLaid, site
  <2> QED  BY <2>3, <2>4, <2>5, <2>6, <2>7 DEF SiteLaid
<1>3. ASSUME NEW i \in 1 .. Size(b) PROVE WorkLaid(c, i)
  <2>1. WorkLaid(b, i) /\ c.instrs[i] = b.instrs[i]
    BY <1>1 DEF Laid
  <2>2. ASSUME NEW base, Based(b, i, base) PROVE Based(c, i, base)
    <3>1. PICK k \in 1 .. NumSites(b), addr \in Addresses :
             /\ b.sites[k].kind = "value" /\ b.sites[k].failAt = NoFail
             /\ b.sites[k].rprod = base /\ b.sites[k].dest = Data(addr)
             /\ At(b, k) + ProducerLen + Len(b.sites[k].rdeps) = i
      BY <2>2 DEF Based
    <3>2. k \in 1 .. NumSites(c) /\ c.sites[k] = b.sites[k] /\ At(c, k) = At(b, k)
      BY <1>1
    <3> QED  BY <3>1, <3>2 DEF Based
  <2>3. ASSUME i < Size(b) PROVE i < Size(c) /\ c.instrs[i + 1] = b.instrs[i + 1]
    <3>1. i + 1 \in 1 .. Size(b)
      BY <1>1, <2>3
    <3> QED  BY <1>1, <2>3, <3>1
  <2> QED  BY <2>1, <2>2, <2>3 DEF WorkLaid
<1>4. /\ \A k \in 1 .. NumSites(c) :
            k \in 1 .. NumSites(b) \/ k \in NumSites(b) + 1 .. NumSites(c)
      /\ \A i \in 1 .. Size(c) : i \in 1 .. Size(b) \/ i \in Size(b) + 1 .. Size(c)
  BY <1>1
<1> QED  BY <1>2, <1>3, <1>4 DEF Laid

\* One site more, on slots of its own.
LEMMA SiteKeepsLaid ==
  ASSUME NEW can, NEW b \in BlkType, NEW c \in BlkType, Tiled(b), Laid(b, can),
         Size(c) > Size(b),
         \A i \in 1 .. Size(b) : c.instrs[i] = b.instrs[i],
         \A i \in Size(b) + 1 .. Size(c) : ~ IsWork(c, i),
         NumSites(c) = NumSites(b) + 1,
         \A k \in 1 .. NumSites(b) : c.sites[k] = b.sites[k],
         c.sites[NumSites(b) + 1].at = Size(b) + 1,
         SiteLaid(c, NumSites(b) + 1, can)
  PROVE  Laid(c, can)
<1>1. Size(b) \in Nat /\ NumSites(b) \in Nat /\ Size(c) \in Nat /\ NumSites(c) \in Nat
  BY SizeType
<1>2. \A k \in NumSites(b) + 1 .. NumSites(c) : k = NumSites(b) + 1
  BY <1>1
<1>3. Extends(b, c)
  BY <1>1, <1>2 DEF Extends, At
<1>4. \A i \in Size(b) + 1 .. Size(c) : WorkLaid(c, i)
  BY DEF WorkLaid, IsWork
<1> QED  BY <1>2, <1>3, <1>4, LaidStable

LEMMA SameLaid ==
  ASSUME NEW can, NEW b, Laid(b, can), NEW c, c.instrs = b.instrs, c.sites = b.sites
  PROVE  Laid(c, can)
<1>1. Size(c) = Size(b) /\ NumSites(c) = NumSites(b) /\ \A k : At(c, k) = At(b, k)
  BY DEF Size, NumSites, At
<1>2. \A i, base : Based(c, i, base) <=> Based(b, i, base)
  BY <1>1 DEF Based
<1>3. ASSUME NEW k \in 1 .. NumSites(c) PROVE SiteLaid(c, k, can)
  <2>1. SiteLaid(b, k, can)
    BY <1>1 DEF Laid
  <2> QED  BY <2>1 DEF SiteLaid, ValueLaid, BranchLaid
<1>4. ASSUME NEW i \in 1 .. Size(c) PROVE WorkLaid(c, i)
  <2>1. WorkLaid(b, i)
    BY <1>1 DEF Laid
  <2> QED  BY <1>1, <1>2, <2>1 DEF WorkLaid
<1> QED  BY <1>3, <1>4 DEF Laid

--------------------------------------------------------------------------------
(* The sites the generator adds.                                             *)

\* A branch, with its slots.
LEMMA BranchSiteSlots ==
  ASSUME NEW b \in BlkType, NEW kind \in BranchKinds,
         NEW rs1 \in Regs, NEW rs2 \in Regs \cup {ZERO}, NEW taken \in BOOLEAN,
         NEW c, c = BranchSite(b, kind, rs1, rs2, taken)
  PROVE  /\ c.sites[NumSites(b) + 1] =
               [kind |-> kind, at |-> Size(b) + 1,
                failAt |-> BranchFailAt(b, taken),
                rs1 |-> rs1, rs2 |-> rs2, taken |-> taken]
         /\ ~ taken => c.instrs[Size(b) + 2] = JalSkip
<1> DEFINE site == [kind |-> kind, at |-> Size(b) + 1,
                    failAt |-> BranchFailAt(b, taken),
                    rs1 |-> rs1, rs2 |-> rs2, taken |-> taken]
<1>1. c.instrs = b.instrs \o BranchSlots(taken) /\ c.sites = Append(b.sites, site)
  BY DEF BranchSite, AddSite, Emit, BlkType
<1> HIDE DEF site
<1>2. c.sites[NumSites(b) + 1] = site
  BY <1>1 DEF BlkType, NumSites
<1>3. ASSUME ~ taken PROVE c.instrs[Size(b) + 2] = JalSkip
  <2>1. c.instrs = b.instrs \o <<Nop, JalSkip, Nop>> /\ b.instrs \in Seq(SlotType)
    BY <1>1, <1>3 DEF BranchSlots, BlkType
  <2>2. Len(b.instrs) + 2 > Len(b.instrs) /\ Len(b.instrs) \in Nat
    BY <2>1
  <2> QED  BY <2>1, <2>2 DEF Size
<1> QED  BY <1>2, <1>3 DEF site

\* A branch leaves the code laid out; a guard's accumulator comes before it.
LEMMA BranchSiteLaid ==
  ASSUME NEW can, NEW b \in BlkType, Tiled(b), Laid(b, can), NEW kind \in BranchKinds,
         NEW rs1 \in Regs, NEW rs2 \in Regs \cup {ZERO}, NEW taken \in BOOLEAN,
         kind = "branch" => can,
         kind = "guard" =>
            /\ NumSites(b) > 0
            /\ b.sites[NumSites(b)].kind = "value"
            /\ b.sites[NumSites(b)].failAt = NoFail
            /\ b.sites[NumSites(b)].dest = Data(ZeroWord)
            /\ b.sites[NumSites(b)].rprod = rs1
            /\ At(b, NumSites(b)) + ProducerLen + Len(b.sites[NumSites(b)].rdeps)
                  = Size(b) + 1
  PROVE  Laid(BranchSite(b, kind, rs1, rs2, taken), can)
<1> SUFFICES ASSUME NEW c, c = BranchSite(b, kind, rs1, rs2, taken) PROVE Laid(c, can)
  OBVIOUS
<1> DEFINE n == NumSites(b) + 1
           site == [kind |-> kind, at |-> Size(b) + 1,
                    failAt |-> BranchFailAt(b, taken),
                    rs1 |-> rs1, rs2 |-> rs2, taken |-> taken]
<1>1. Size(b) \in Nat /\ NumSites(b) \in Nat
  BY SizeType
<1>2. /\ c \in BlkType /\ Size(c) > Size(b)
      /\ \A i \in 1 .. Size(b) : c.instrs[i] = b.instrs[i]
      /\ \A i \in Size(b) + 1 .. Size(c) : c.instrs[i] \in {Nop, JalSkip}
      /\ NumSites(c) = NumSites(b) + 1
      /\ \A k \in 1 .. NumSites(b) : c.sites[k] = b.sites[k]
  BY BranchSiteShape
<1>3. c.sites[n] = site /\ (~ taken => c.instrs[Size(b) + 2] = JalSkip)
  BY BranchSiteSlots
<1>4. /\ site.at = Size(b) + 1 /\ site.failAt = BranchFailAt(b, taken)
      /\ site.kind = kind /\ site.taken = taken /\ site.rs1 = rs1
  OBVIOUS
<1> HIDE DEF site
<1>5. BranchLaid(c, site)
  <2>1. CASE taken
    BY <1>1, <1>4, <2>1 DEF BranchLaid, BranchFailAt
  <2>2. CASE ~ taken
    <3>1. site.at + 1 = Size(b) + 2 /\ BranchFailAt(b, taken) = site.at + 2
      BY <1>1, <1>4, <2>2 DEF BranchFailAt
    <3> QED  BY <1>3, <1>4, <2>2, <3>1 DEF BranchLaid
  <2> QED  BY <2>1, <2>2
<1>6. ASSUME kind = "guard" PROVE n > 1 /\ GuardLaid(c.sites[n - 1], site)
  <2>1. n > 1 /\ n - 1 = NumSites(b) /\ NumSites(b) \in 1 .. NumSites(b)
    BY <1>1, <1>6
  <2>2. c.sites[n - 1] = b.sites[NumSites(b)]
    BY <1>2, <2>1
  <2> QED  BY <1>4, <1>6, <2>1, <2>2 DEF GuardLaid, At
<1>7. SiteLaid(c, n, can)
  BY <1>3, <1>4, <1>5, <1>6 DEF SiteLaid, BranchKinds
<1>8. \A i \in Size(b) + 1 .. Size(c) : ~ IsWork(c, i)
  BY <1>2, PlaceholdersArePlain
<1> QED  BY <1>2, <1>3, <1>4, <1>7, <1>8, SiteKeepsLaid

\* A value site that goes nowhere.
LEMMA DataSiteLaid ==
  ASSUME NEW can, NEW b \in BlkType, Tiled(b), Laid(b, can), NEW rprod \in Regs,
         NEW rdeps \in Seq(Regs), NEW value, Data(value) \in DestType,
         NEW c, c = ValueSite(b, rprod, rdeps, Data(value), NoFail)
  PROVE  /\ Laid(c, can)
         /\ NumSites(c) = NumSites(b) + 1
         /\ c.sites[NumSites(c)].kind = "value"
         /\ c.sites[NumSites(c)].failAt = NoFail
         /\ c.sites[NumSites(c)].dest = Data(value)
         /\ c.sites[NumSites(c)].rprod = rprod
         /\ At(c, NumSites(c)) + ProducerLen + Len(c.sites[NumSites(c)].rdeps)
               = Size(c) + 1
<1> DEFINE site == [kind |-> "value", at |-> Size(b) + 1, failAt |-> NoFail,
                    rprod |-> rprod, rdeps |-> rdeps, dest |-> Data(value)]
<1>1. NoFail \in Nat /\ Size(b) \in Nat /\ Len(rdeps) \in Nat
  BY SizeType DEF NoFail
<1>2. /\ c \in BlkType
      /\ Size(c) = Size(b) + 1 + Len(rdeps)
      /\ \A i \in 1 .. Size(b) : c.instrs[i] = b.instrs[i]
      /\ \A i \in Size(b) + 1 .. Size(c) : c.instrs[i] = Nop
      /\ NumSites(c) = NumSites(b) + 1
      /\ \A k \in 1 .. NumSites(b) : c.sites[k] = b.sites[k]
      /\ c.sites[NumSites(b) + 1] = site
  BY <1>1, ValueSiteShape
<1>3. /\ site.kind = "value" /\ site.at = Size(b) + 1 /\ site.failAt = NoFail
      /\ site.rprod = rprod /\ site.rdeps = rdeps /\ site.dest = Data(value)
  OBVIOUS
<1> HIDE DEF site
<1>4. site.dest.type = "data"
  BY <1>3 DEF Data
<1>5. SiteLaid(c, NumSites(b) + 1, can)
  BY <1>2, <1>3, <1>4 DEF SiteLaid, ValueLaid, BranchKinds
<1>6. Size(c) > Size(b) /\ \A i \in Size(b) + 1 .. Size(c) : ~ IsWork(c, i)
  BY <1>1, <1>2, PlaceholdersArePlain
<1>7. Laid(c, can)
  BY <1>2, <1>3, <1>5, <1>6, SiteKeepsLaid
<1>8. site.at + ProducerLen + Len(site.rdeps) = Size(c) + 1
  BY <1>1, <1>2, <1>3 DEF ProducerLen
<1> QED  BY <1>2, <1>3, <1>7, <1>8 DEF At

LEMMA AddressLaid ==
  ASSUME NEW can, NEW b, BlkInv(b), Tiled(b), Laid(b, can), NEW rprod \in Regs,
         NEW addr \in Addresses, NEW c \in Address(b, rprod, addr)
  PROVE  Laid(c, can) /\ Based(c, Size(c) + 1, rprod)
<1>1. b \in BlkType /\ Distinct(b.fresh) /\ b.fresh \in Seq(Regs)
  BY DEF BlkInv, CodeOK, FreshOK, BlkType
<1>2. PICK rdeps \in Peek(b, MAX_PEEK, rprod) :
         c = ValueSite(Clobber(b, rprod), rprod, rdeps, Data(addr), NoFail)
  BY DEF Address
<1>3. rdeps \in Seq(Regs)
  BY <1>1, SiteBuilderAssumption, PeekProperties
<1>4. Data(addr) \in DestType
  BY DEF Data, DestType
<1> DEFINE d == Clobber(b, rprod)
<1>5. d \in BlkType /\ Tiled(d) /\ Laid(d, can)
  BY <1>1, ClobberShape, SameTiling, SameLaid
<1>6. c = ValueSite(d, rprod, rdeps, Data(addr), NoFail)
  BY <1>2
<1> HIDE DEF d
<1>7. /\ Laid(c, can)
      /\ NumSites(c) = NumSites(d) + 1
      /\ c.sites[NumSites(c)].kind = "value"
      /\ c.sites[NumSites(c)].failAt = NoFail
      /\ c.sites[NumSites(c)].dest = Data(addr)
      /\ c.sites[NumSites(c)].rprod = rprod
      /\ At(c, NumSites(c)) + ProducerLen + Len(c.sites[NumSites(c)].rdeps)
            = Size(c) + 1
  BY <1>3, <1>4, <1>5, <1>6, DataSiteLaid
<1>8. NumSites(c) \in 1 .. NumSites(c)
  BY <1>5, <1>7, SizeType
<1> QED  BY <1>7, <1>8 DEF Based

LEMMA GuardLays ==
  ASSUME NEW can, NEW b, BlkInv(b), Tiled(b), Laid(b, can), NEW c \in Guard(b)
  PROVE  Laid(c, can)
<1>1. b \in BlkType /\ Distinct(b.fresh) /\ b.fresh \in Seq(Regs) /\ FreshOK(b)
  BY DEF BlkInv, CodeOK, FreshOK, BlkType
<1> DEFINE d == [b EXCEPT !.fresh = <<>>]
           v(acc) == ValueSite(d, acc, Without(b.fresh, acc), Data(ZeroWord), NoFail)
<1>2. PICK acc \in Stale(b), taken \in BOOLEAN :
         c = BranchSite(v(acc), "guard", acc, ZERO, taken)
  BY DEF Guard
<1>3. acc \in Regs /\ Without(b.fresh, acc) \in Seq(Regs)
  BY <1>1, StaleIsNotPending, WithoutProperties
<1>4. d \in BlkType /\ d.instrs = b.instrs /\ d.sites = b.sites
  <2>1. <<>> \in Seq(Regs)
    OBVIOUS
  <2> QED  BY <1>1, <2>1 DEF BlkType
<1>5. Tiled(d) /\ Laid(d, can)
  BY <1>4, SameTiling, SameLaid
<1>6. Data(ZeroWord) \in DestType
  BY DEF Data, DestType
<1> DEFINE u == v(acc)
<1>7. u = ValueSite(d, acc, Without(b.fresh, acc), Data(ZeroWord), NoFail)
  OBVIOUS
<1>8. c = BranchSite(u, "guard", acc, ZERO, taken)
  BY <1>2
<1> HIDE DEF d, u, v
<1>9. u \in BlkType /\ Tiled(u)
  BY <1>3, <1>4, <1>5, <1>6, <1>7, ValueSiteTiles
<1>10. /\ Laid(u, can)
       /\ NumSites(u) = NumSites(d) + 1
       /\ u.sites[NumSites(u)].kind = "value"
       /\ u.sites[NumSites(u)].failAt = NoFail
       /\ u.sites[NumSites(u)].dest = Data(ZeroWord)
       /\ u.sites[NumSites(u)].rprod = acc
       /\ At(u, NumSites(u)) + ProducerLen + Len(u.sites[NumSites(u)].rdeps)
             = Size(u) + 1
  BY <1>3, <1>4, <1>5, <1>6, <1>7, DataSiteLaid
<1>11. NumSites(u) > 0
  BY <1>4, <1>10, SizeType
<1>12. "guard" \in BranchKinds /\ ZERO \in Regs \cup {ZERO}
  BY DEF BranchKinds
<1> QED  BY <1>3, <1>8, <1>9, <1>10, <1>11, <1>12, BranchSiteLaid

LEMMA IndirectJumpLaid ==
  ASSUME NEW can, NEW b, BlkInv(b), Tiled(b), Laid(b, can),
         NEW rprod \in Regs, NEW rd \in Regs, NEW rdeps \in Seq(Regs)
  PROVE  Laid(IndirectJump(b, rprod, rd, rdeps), can)
<1> SUFFICES ASSUME NEW c, c = IndirectJump(b, rprod, rd, rdeps) PROVE Laid(c, can)
  OBVIOUS
<1> DEFINE site == [kind |-> "value", at |-> Size(b) + 1, failAt |-> Size(c),
                    rprod |-> rprod, rdeps |-> rdeps, dest |-> Code(Size(c) + 1)]
<1>1. b \in BlkType /\ Size(b) \in Nat /\ Len(rdeps) \in Nat
  BY SizeType DEF BlkInv, CodeOK
<1>2. /\ c \in BlkType /\ Size(c) = Size(b) + Len(rdeps) + 3
      /\ \A i \in 1 .. Size(b) : c.instrs[i] = b.instrs[i]
      /\ \A i \in Size(b) + 1 .. Size(c) : c.instrs[i] \in {Nop, Jalr(rd, rprod)}
      /\ c.instrs[Size(c) - 1] = Jalr(rd, rprod)
      /\ NumSites(c) = NumSites(b) + 1
      /\ \A k \in 1 .. NumSites(b) : c.sites[k] = b.sites[k]
      /\ c.sites[NumSites(b) + 1] = site
  BY IndirectJumpShape
<1>3. /\ site.kind = "value" /\ site.at = Size(b) + 1 /\ site.failAt = Size(c)
      /\ site.rprod = rprod /\ site.rdeps = rdeps /\ site.dest = Code(Size(c) + 1)
  OBVIOUS
<1> HIDE DEF site
<1>4. Size(c) > Size(b) /\ Size(c) # NoFail
      /\ Size(c) = site.at + ProducerLen + Len(site.rdeps) + 1
  BY <1>1, <1>2, <1>3 DEF NoFail, ProducerLen
<1>5. ValueLaid(c, site)
  BY <1>2, <1>3, <1>4 DEF ValueLaid
<1>6. SiteLaid(c, NumSites(b) + 1, can)
  BY <1>2, <1>3, <1>5 DEF SiteLaid, BranchKinds
<1>7. \A i \in Size(b) + 1 .. Size(c) : ~ IsWork(c, i)
  BY <1>2, PlaceholdersArePlain
<1> QED  BY <1>1, <1>2, <1>3, <1>4, <1>6, <1>7, SiteKeepsLaid

\* An instruction of the workload and, when its register must be fixed up, that.
LEMMA GenerateLaid ==
  ASSUME NEW can, NEW b, BlkInv(b), Tiled(b), Laid(b, can), NEW w \in WorkInstrs,
         w.base # ZERO => Based(b, Size(b) + 1, w.base)
  PROVE  Laid(Stabilize(Observe(Emit(b, <<w>>), w), w), can)
<1> DEFINE e == Emit(b, <<w>>)
           o == Observe(e, w)
           c == Stabilize(o, w)
<1>1. b \in BlkType /\ WellPlaced(b) /\ Size(b) \in Nat /\ NumSites(b) \in Nat
  BY SizeType DEF BlkInv, CodeOK
<1>2. <<w>> \in Seq(SlotType) /\ Len(<<w>>) = 1 /\ <<w>>[1] = w /\ 1 \in 1 .. Len(<<w>>)
  BY DEF SlotType
<1>3. /\ e \in BlkType /\ e.sites = b.sites /\ Size(e) = Size(b) + 1
      /\ Extends(b, e) /\ WellPlaced(e) /\ e.instrs[Size(b) + 1] = w
  <2>1. e.instrs[Size(b) + 1] = w
    BY <1>1, <1>2, EmitShape
  <2> QED  BY <1>1, <1>2, <2>1, EmitExtends
<1>4. /\ o.instrs = e.instrs /\ o.sites = e.sites
  <2> HIDE DEF e
  <2> QED  BY <1>3 DEF Observe, BlkType
<1>5. BlkInv(o)
  BY ObserveStep
<1>6. NumSites(e) = NumSites(b) /\ \A k : At(e, k) = At(b, k)
  BY <1>3 DEF NumSites, At
<1> HIDE DEF e, o
<1>7. CASE ~ (w.unstable /\ w.rd # ZERO)
  <2>1. WorkLaid(e, Size(b) + 1)
    <3>1. w.base # ZERO => Based(e, Size(b) + 1, w.base)
      BY <1>3, <1>6 DEF Based
    <3> QED  BY <1>3, <1>7, <3>1 DEF WorkLaid
  <2>2. \A i \in Size(b) + 1 .. Size(e) : i = Size(b) + 1
    BY <1>1, <1>3
  <2>3. NumSites(b) + 1 .. NumSites(e) = {}
    BY <1>1, <1>6
  <2>4. Laid(e, can)
    BY <1>1, <1>3, <2>1, <2>2, <2>3, LaidStable
  <2>5. c = o
    BY <1>7 DEF Stabilize
  <2> QED  BY <1>4, <2>4, <2>5, SameLaid DEF o, e
<1>8. CASE w.unstable /\ w.rd # ZERO
  <2> DEFINE slots == <<Fixup(w.rd)>>
             f == Emit(o, slots)
  <2>1. w.rd \in Regs
    BY <1>8, SiteBuilderAssumption
  <2>2. slots \in Seq(SlotType) /\ Len(slots) = 1 /\ slots[1] = Fixup(w.rd)
        /\ 1 \in 1 .. Len(slots)
    BY <2>1 DEF SlotType, Fixup
  <2>3. c = Clobber(f, w.rd)
    BY <1>8 DEF Stabilize
  <2> HIDE DEF slots
  <2>4. o \in BlkType /\ WellPlaced(o) /\ Distinct(o.fresh)
    BY <1>5 DEF BlkInv, CodeOK, FreshOK
  <2>5. /\ f \in BlkType /\ f.fresh = o.fresh /\ f.sites = o.sites
        /\ Size(f) = Size(o) + 1
        /\ Extends(o, f) /\ f.instrs[Size(o) + 1] = Fixup(w.rd)
    <3>1. f.instrs[Size(o) + 1] = Fixup(w.rd)
      BY <2>2, <2>4, EmitShape
    <3> QED  BY <2>2, <2>4, <3>1, EmitExtends
  <2> HIDE DEF f
  <2>6. Size(o) = Size(b) + 1 /\ Extends(b, o) /\ o.instrs[Size(b) + 1] = w
    <3>1. /\ Size(o) = Size(e) /\ NumSites(o) = NumSites(e)
          /\ \A k : At(o, k) = At(e, k)
      BY <1>4 DEF Size, NumSites, At
    <3> QED  BY <1>3, <1>4, <3>1 DEF Extends
  <2>7. Extends(b, f) /\ NumSites(f) = NumSites(b) /\ \A k : At(f, k) = At(b, k)
    <3>1. Extends(b, f)
      BY <1>1, <2>4, <2>5, <2>6, ExtendsTransitive
    <3>2. f.sites = b.sites
      BY <1>3, <1>4, <2>5
    <3> QED  BY <3>1, <3>2 DEF NumSites, At
  <2>8. f.instrs[Size(b) + 1] = w /\ f.instrs[Size(b) + 2] = Fixup(w.rd)
        /\ Size(f) = Size(b) + 2
    <3>1. Size(b) + 1 \in 1 .. Size(o)
      BY <1>1, <2>6
    <3>2. f.instrs[Size(b) + 1] = w
      BY <2>5, <2>6, <3>1 DEF Extends
    <3>3. Size(o) + 1 = Size(b) + 2
      BY <1>1, <2>6
    <3> QED  BY <2>5, <3>2, <3>3
  <2>9. WorkLaid(f, Size(b) + 1)
    <3>1. f.sites = b.sites
      BY <1>3, <1>4, <2>5
    <3>2. w.base # ZERO => Based(f, Size(b) + 1, w.base)
      BY <2>7, <3>1 DEF Based
    <3>3. Size(b) + 1 < Size(f) /\ Size(b) + 1 + 1 = Size(b) + 2
      BY <1>1, <2>8
    <3> QED  BY <2>8, <3>2, <3>3 DEF WorkLaid
  <2>10. WorkLaid(f, Size(b) + 2)
    <3>1. Fixup(w.rd) \notin WorkInstrs
      <4>1. Fixup(w.rd).op = "fixup" /\ \A u \in WorkInstrs : u.op # "fixup"
        BY SiteBuilderAssumption DEF Fixup
      <4> QED  BY <4>1
    <3> QED  BY <2>8, <3>1 DEF WorkLaid
  <2>11. \A i \in Size(b) + 1 .. Size(f) : i = Size(b) + 1 \/ i = Size(b) + 2
    BY <1>1, <2>8
  <2>12. NumSites(b) + 1 .. NumSites(f) = {}
    BY <1>1, <2>7
  <2>13. Laid(f, can)
    BY <1>1, <2>5, <2>7, <2>9, <2>10, <2>11, <2>12, LaidStable
  <2>14. c.instrs = f.instrs /\ c.sites = f.sites
    BY <2>3, <2>4, <2>5, ClobberShape
  <2> QED  BY <2>13, <2>14, SameLaid DEF o, e
<1> QED  BY <1>7, <1>8

LEMMA ControlFlowLaid ==
  ASSUME NEW b, BlkInv(b), Tiled(b), Laid(b, CanBranch), NEW c \in ControlFlow(b)
  PROVE  Laid(c, CanBranch)
<1> DEFINE can == CanBranch
<1>1. /\ b \in BlkType /\ b.fresh \in Seq(Regs) /\ Distinct(b.fresh) /\ FreshOK(b)
  BY DEF BlkInv, CodeOK, FreshOK, BlkType
<1>2. CASE c \in IndirectJumps(b)
  <2>0. PICK rprod \in Stale(b) :
           c \in {IndirectJump(b, rprod, rd, rdeps) :
                     rd \in Stale(b), rdeps \in Peek(b, MAX_PEEK, rprod)}
    BY <1>2 DEF IndirectJumps
  <2>1. PICK rd \in Stale(b), rdeps \in Peek(b, MAX_PEEK, rprod) :
           c = IndirectJump(b, rprod, rd, rdeps)
    BY <2>0
  <2>2. rprod \in Regs /\ rd \in Regs
    BY <1>1, StaleIsNotPending
  <2>3. rdeps \in Seq(Regs)
    BY <1>1, SiteBuilderAssumption, PeekProperties
  <2> QED  BY <2>1, <2>2, <2>3, IndirectJumpLaid
<1>3. CASE CanBranch /\ c \in Branches(b)
  <2>1. PICK rs \in Operands(b), taken \in BOOLEAN :
           c = BranchSite(b, "branch", rs[1], rs[2], taken)
    BY <1>3 DEF Branches
  <2>2. rs[1] \in Regs /\ rs[2] \in Regs \cup {ZERO} /\ "branch" \in BranchKinds
    BY OperandsType DEF BranchKinds
  <2> QED  BY <1>1, <1>3, <2>1, <2>2, BranchSiteLaid
<1>4. CASE c = b
  BY <1>4
<1> QED  BY <1>2, <1>3, <1>4 DEF ControlFlow

LEMMA LaidInit == BuilderInit => Laid(blk, CanBranch)
<1> SUFFICES ASSUME BuilderInit PROVE Laid(blk, CanBranch)
  OBVIOUS
<1>1. Size(blk) = 0 /\ NumSites(blk) = 0
  BY DEF BuilderInit, EmptyBlk, Size, NumSites
<1> QED  BY <1>1 DEF Laid

LEMMA LaidNext ==
  ASSUME BuilderIInv, Tiled(blk), Laid(blk, CanBranch), [BuilderNext]_builderVars
  PROVE  Laid(blk', CanBranch) /\ CanBranch' = CanBranch
<1>1. BlkInv(blk)
  BY DEF BuilderIInv
<1>2. ASSUME NEW w \in WorkInstrs, GenInstr(w) PROVE Laid(blk', CanBranch)
  <2>1. PICK b \in Confine(blk, w) :
           blk' \in AfterInstr(Stabilize(Observe(Emit(b, <<w>>), w), w))
    BY <1>2 DEF GenInstr
  <2> DEFINE o == Observe(Emit(b, <<w>>), w)
             e == Stabilize(o, w)
  <2>2. BlkInv(b) /\ Tiled(b)
    BY <1>1, ConfineStep, ConfineTiles
  <2>3. Laid(b, CanBranch) /\ (w.base # ZERO => Based(b, Size(b) + 1, w.base))
    <3>1. CASE w.base = ZERO
      BY <3>1 DEF Confine
    <3>2. CASE w.base # ZERO
      <4>1. w.base \in Regs
        BY <3>2, SiteBuilderAssumption
      <4>2. PICK addr \in Addresses : b \in Address(blk, w.base, addr)
        BY <3>2 DEF Confine
      <4> QED  BY <1>1, <4>1, <4>2, AddressLaid
    <3> QED  BY <3>1, <3>2
  <2>4. Laid(e, CanBranch)
    BY <2>2, <2>3, GenerateLaid
  <2>5. BlkInv(e) /\ Tiled(e)
    <3>1. BlkInv(o) /\ Tiled(o)
      BY <2>2, ObserveStep, ObserveTiles
    <3> HIDE DEF o
    <3> QED  BY <3>1, StabilizeStep, StabilizeTiles
  <2>6. blk' \in AfterInstr(e)
    BY <2>1
  <2> HIDE DEF e, o
  <2>7. blk' \in Guard(e) \/ blk' = e
    BY <2>6 DEF AfterInstr
  <2> QED  BY <2>4, <2>5, <2>7, GuardLays
<1>3. ASSUME EndBlock PROVE Laid(blk', CanBranch)
  <2>1. PICK d \in {blk} \cup ControlFlow(blk) :
           blk' \in IF CanGuard /\ d.fresh # <<>> THEN Guard(d) ELSE {d}
    BY <1>3 DEF EndBlock, BlockEnd
  <2>2. BlkInv(d) /\ Tiled(d) /\ Laid(d, CanBranch)
    BY <1>1, ControlFlowStep, ControlFlowTiles, ControlFlowLaid
  <2>3. blk' \in Guard(d) \/ blk' = d
    BY <2>1
  <2> QED  BY <2>2, <2>3, GuardLays
<1>4. ASSUME UNCHANGED builderVars PROVE Laid(blk', CanBranch)
  BY <1>4 DEF builderVars
<1>5. opts' = opts
  BY DEF BuilderNext, GenInstr, EndBlock, builderVars
<1>6. CanBranch' = CanBranch
  BY <1>5 DEF CanBranch, CanGuard
<1> QED  BY <1>2, <1>3, <1>4, <1>6 DEF BuilderNext

--------------------------------------------------------------------------------
(* What sites read and what they destroy.                                    *)

\* What SitesReadPending says of a value site and of a branch, when `data' is
\* what is pending there.
ValueReads(rprod, rdeps, data) ==
    /\ rprod \notin Elems(rdeps)
    /\ Distinct(rdeps) /\ rdeps # <<>>
    /\ data \ {rprod} # {} =>
          /\ Elems(rdeps) \subseteq data \ {rprod}
          /\ Len(rdeps) >= MAX_PEEK \/ Elems(rdeps) = data \ {rprod}

BranchReads(rs1, rs2, data) ==
    /\ rs1 # rs2
    /\ data # {} => rs1 \in data
    /\ Cardinality(data) > 1 => rs2 \in data

ReadOK(b, k) ==
    /\ b.sites[k].kind = "value" =>
          ValueReads(b.sites[k].rprod, b.sites[k].rdeps, PendingAt(b, At(b, k)))
    /\ b.sites[k].kind = "branch" =>
          BranchReads(b.sites[k].rs1, b.sites[k].rs2, PendingAt(b, At(b, k)))

Reads(b) == \A k \in 1 .. NumSites(b) : ReadOK(b, k)

\* The jump in slot i, if it is the one of site k, spares what is pending there.
SpareOK(b, i, k) ==
    b.instrs[i].op = "jalr" /\ b.sites[k].kind = "value" /\ b.sites[k].failAt = i + 1 =>
        {b.instrs[i].rd, b.sites[k].rprod} \cap PendingAt(b, At(b, k)) = {}

Spares(b) == \A i \in 1 .. Size(b), k \in 1 .. NumSites(b) : SpareOK(b, i, k)

\* Everything that is shown of the code, and that its jumps and reads are right.
SitesOK(b) == WellPlaced(b) /\ Tiled(b) /\ Reads(b) /\ Spares(b)

--------------------------------------------------------------------------------
(* Registers that are listed once each.                                      *)

LEMMA DistinctCount ==
  ASSUME NEW S, NEW s \in Seq(S), Distinct(s)
  PROVE  IsFiniteSet(Elems(s)) /\ Cardinality(Elems(s)) = Len(s)
<1>1. /\ Len(s) \in Nat /\ DOMAIN s = 1 .. Len(s)
      /\ s = [i \in 1 .. Len(s) |-> s[i]]
  OBVIOUS
<1>2. s \in [1 .. Len(s) -> Elems(s)]
  BY <1>1 DEF Elems
<1>3. s \in Injection(1 .. Len(s), Elems(s))
  BY <1>1, <1>2, Distinct(s) DEF Distinct, Injection, IsInjective
<1>4. s \in Surjection(1 .. Len(s), Elems(s))
  BY <1>1, <1>2 DEF Elems, Surjection
<1>5. ASSUME NEW n \in Nat PROVE IsFiniteSet(1 .. n) /\ Cardinality(1 .. n) = n
  BY FS_Interval
<1>6. IsFiniteSet(1 .. Len(s)) /\ Cardinality(1 .. Len(s)) = Len(s)
  BY <1>1, <1>5
<1> QED  BY <1>3, <1>4, <1>6, FS_Surjection

\* A peek returns as much of what is fresh as asked for.
LEMMA PeekReads ==
  ASSUME NEW b, b.fresh \in Seq(Regs), Distinct(b.fresh),
         NEW max \in Nat \ {0}, NEW except, NEW regs \in Peek(b, max, except),
         Elems(b.fresh) \ {except} # {}
  PROVE  /\ Elems(regs) \subseteq Elems(b.fresh) \ {except}
         /\ Len(regs) >= max \/ Elems(regs) = Elems(b.fresh) \ {except}
<1> DEFINE w == Without(b.fresh, except)
           n == IF Len(w) < max THEN Len(w) ELSE max
<1>1. w \in Seq(Regs) /\ Elems(w) = Elems(b.fresh) \ {except}
  BY WithoutProperties
<1>2. regs = Freshest(w, max) \/ Freshest(w, max) = <<>>
  BY DEF Peek
<1> HIDE DEF w
<1>3. Len(w) \in Nat /\ DOMAIN w = 1 .. Len(w) /\ Len(w) > 0
  <2>1. Len(w) \in Nat /\ DOMAIN w = 1 .. Len(w)
    BY <1>1
  <2>2. ASSUME Len(w) = 0 PROVE FALSE
    <3>1. DOMAIN w = {}
      BY <2>1, <2>2
    <3>2. Elems(w) = {}
      BY <3>1 DEF Elems
    <3> QED  BY <1>1, <3>2
  <2> QED  BY <2>1, <2>2
<1>4. /\ n \in Nat /\ n > 0 /\ n <= Len(w) /\ Len(Freshest(w, max)) = n
      /\ DOMAIN Freshest(w, max) = 1 .. n
      /\ \A i \in 1 .. n : Freshest(w, max)[i] = w[Len(w) + 1 - i]
  <2>1. Freshest(w, max) = [i \in 1 .. n |-> w[Len(w) + 1 - i]]
    BY DEF Freshest
  <2>2. n \in Nat /\ n > 0 /\ n <= Len(w)
    BY <1>3
  <2> QED  BY <2>1, <2>2
<1>5. regs = Freshest(w, max)
  BY <1>2, <1>4
<1> HIDE DEF n
<1>6. Elems(regs) \subseteq Elems(w)
  <2> SUFFICES ASSUME NEW i \in 1 .. n PROVE w[Len(w) + 1 - i] \in Elems(w)
    BY <1>4, <1>5 DEF Elems
  <2>1. Len(w) + 1 - i \in 1 .. Len(w)
    BY <1>3, <1>4
  <2> QED  BY <1>3, <2>1 DEF Elems
<1>7. CASE n = max
  BY <1>1, <1>4, <1>5, <1>6, <1>7
<1>8. CASE n = Len(w)
  <2>1. ASSUME NEW e \in Elems(w) PROVE e \in Elems(regs)
    <3>1. PICK j \in 1 .. Len(w) : w[j] = e
      BY <1>3 DEF Elems
    <3>2. Len(w) + 1 - j \in 1 .. n /\ Len(w) + 1 - (Len(w) + 1 - j) = j
      BY <1>3, <1>8
    <3> QED  BY <1>4, <1>5, <3>1, <3>2 DEF Elems
  <2> QED  BY <1>1, <1>6, <2>1
<1> QED  BY <1>7, <1>8 DEF n

\* The operands of a branch are the two freshest registers, as far as there are two.
LEMMA OperandsRead ==
  ASSUME NEW b, BlkInv(b), NEW rs \in Operands(b)
  PROVE  /\ rs[1] # rs[2]
         /\ Pending(b) # {} => rs[1] \in Pending(b)
         /\ Cardinality(Pending(b)) > 1 => rs[2] \in Pending(b)
<1>1. /\ b.fresh \in Seq(Regs) /\ Distinct(b.fresh)
      /\ Elems(b.fresh) = Pending(b) /\ Pending(b) \subseteq Regs
  BY DEF BlkInv, CodeOK, FreshOK, BlkType, Pending, PendingAt
<1>2. PICK regs \in Peek(b, 2, ZERO) :
         rs \in IF Len(regs) > 1 THEN {<<regs[1], regs[2]>>}
                ELSE {<<regs[1], r>> : r \in Regs \ {regs[1]}}
  BY DEF Operands
<1>3. 2 \in Nat \ {0} /\ Elems(b.fresh) \ {ZERO} = Pending(b)
  BY <1>1, SiteBuilderAssumption
<1>4. regs \in Seq(Regs) /\ regs # <<>> /\ Distinct(regs)
  BY <1>1, <1>3, PeekProperties
<1>5. Len(regs) \in Nat /\ Len(regs) > 0 /\ DOMAIN regs = 1 .. Len(regs)
  BY <1>4
<1>6. Pending(b) # {} =>
         /\ Elems(regs) \subseteq Pending(b)
         /\ Len(regs) >= 2 \/ Elems(regs) = Pending(b)
  BY <1>1, <1>3, PeekReads
<1>7. regs[1] \in Elems(regs)
  BY <1>5 DEF Elems
<1>8. CASE Len(regs) > 1
  <2>1. 1 \in DOMAIN regs /\ 2 \in DOMAIN regs
    BY <1>5, <1>8
  <2>2. regs[1] # regs[2] /\ regs[2] \in Elems(regs)
    BY <1>4, <2>1 DEF Distinct, Elems
  <2>3. rs[1] = regs[1] /\ rs[2] = regs[2]
    BY <1>2, <1>8
  <2>4. Cardinality(Pending(b)) > 1 => Pending(b) # {}
    BY FS_EmptySet
  <2> QED  BY <1>6, <1>7, <2>2, <2>3, <2>4
<1>9. CASE ~ (Len(regs) > 1)
  <2>1. PICK r \in Regs \ {regs[1]} : rs = <<regs[1], r>>
    BY <1>2, <1>9
  <2>2. ~ (Cardinality(Pending(b)) > 1)
    <3>1. CASE Pending(b) = {}
      BY <3>1, FS_EmptySet
    <3>2. CASE Pending(b) # {}
      <4>1. Elems(regs) = Pending(b)
        BY <1>5, <1>6, <1>9, <3>2
      <4>2. DOMAIN regs = {1}
        BY <1>5, <1>9
      <4>3. Elems(regs) = {regs[1]}
        BY <4>2 DEF Elems
      <4>4. Cardinality({regs[1]}) = 1
        BY FS_Singleton
      <4>5. Cardinality(Pending(b)) = 1
        BY <4>1, <4>3, <4>4
      <4> QED  BY <4>5
    <3> QED  BY <3>1, <3>2
  <2> QED  BY <1>6, <1>7, <2>1, <2>2
<1> QED  BY <1>8, <1>9

--------------------------------------------------------------------------------
(* Appending code leaves the old sites as right as they were.                *)

LEMMA KeepsReads ==
  ASSUME NEW b \in BlkType, NEW c \in BlkType, WellPlaced(b), Extends(b, c), Reads(b),
         \A k \in NumSites(b) + 1 .. NumSites(c) : ReadOK(c, k)
  PROVE  Reads(c)
<1> SUFFICES ASSUME NEW k \in 1 .. NumSites(c) PROVE ReadOK(c, k)
  BY DEF Reads
<1>1. Size(b) \in Nat /\ NumSites(b) \in Nat /\ NumSites(c) \in Nat
  BY SizeType
<1>2. CASE k \in 1 .. NumSites(b)
  <2>1. c.sites[k] = b.sites[k] /\ At(c, k) = At(b, k)
    BY <1>2 DEF Extends, At
  <2>2. At(b, k) \in 1 .. Size(b) + 1
    <3>1. At(b, k) \in 1 .. Size(b)
      BY <1>2 DEF WellPlaced
    <3> QED  BY <1>1, <3>1
  <2>3. PendingAt(c, At(c, k)) = PendingAt(b, At(b, k))
    BY <2>1, <2>2, PendingStable
  <2>4. ReadOK(b, k)
    BY <1>2 DEF Reads
  <2> QED  BY <2>1, <2>3, <2>4 DEF ReadOK
<1>3. CASE k \in NumSites(b) + 1 .. NumSites(c)
  BY <1>3
<1> QED  BY <1>1, <1>2, <1>3

LEMMA KeepsSpares ==
  ASSUME NEW b \in BlkType, NEW c \in BlkType, WellPlaced(b), Tiled(b), Extends(b, c),
         Spares(b),
         \A k \in NumSites(b) + 1 .. NumSites(c) :
            c.sites[k].kind = "value" =>
               c.sites[k].failAt = NoFail \/ c.sites[k].failAt > Size(b) + 1,
         \A i \in Size(b) + 1 .. Size(c), k \in NumSites(b) + 1 .. NumSites(c) :
            SpareOK(c, i, k)
  PROVE  Spares(c)
<1> SUFFICES ASSUME NEW i \in 1 .. Size(c), NEW k \in 1 .. NumSites(c),
                    c.instrs[i].op = "jalr", c.sites[k].kind = "value",
                    c.sites[k].failAt = i + 1
             PROVE  SpareOK(c, i, k)
  BY DEF Spares, SpareOK
<1>1. /\ Size(b) \in Nat /\ Size(c) \in Nat
      /\ NumSites(b) \in Nat /\ NumSites(c) \in Nat
  BY SizeType
<1>2. CASE i \in 1 .. Size(b) /\ k \in 1 .. NumSites(b)
  <2>1. c.instrs[i] = b.instrs[i] /\ c.sites[k] = b.sites[k] /\ At(c, k) = At(b, k)
    BY <1>2 DEF Extends, At
  <2>2. At(b, k) \in 1 .. Size(b) + 1
    <3>1. At(b, k) \in 1 .. Size(b)
      BY <1>2 DEF WellPlaced
    <3> QED  BY <1>1, <3>1
  <2>3. PendingAt(c, At(c, k)) = PendingAt(b, At(b, k))
    BY <2>1, <2>2, PendingStable
  <2>4. SpareOK(b, i, k)
    BY <1>2 DEF Spares
  <2> QED  BY <2>1, <2>3, <2>4 DEF SpareOK
<1>3. CASE i \in Size(b) + 1 .. Size(c) /\ k \in 1 .. NumSites(b)
  <2>1. b.sites[k].failAt = i + 1
    BY <1>3 DEF Extends
  <2>2. i + 1 > Size(b) /\ i + 1 # 0
    BY <1>1, <1>3
  <2>3. Last(b.sites[k]) = i + 1
    BY <2>1, <2>2 DEF Last, NoFail
  <2>4. Last(b.sites[k]) <= Size(b)
    BY <1>3 DEF Tiled, Bounded
  <2> QED  BY <1>1, <1>3, <2>2, <2>3, <2>4
<1>4. CASE i \in 1 .. Size(b) /\ k \in NumSites(b) + 1 .. NumSites(c)
  <2>1. i + 1 = NoFail \/ i + 1 > Size(b) + 1
    BY <1>4
  <2> QED  BY <1>1, <1>4, <2>1 DEF NoFail
<1>5. CASE i \in Size(b) + 1 .. Size(c) /\ k \in NumSites(b) + 1 .. NumSites(c)
  BY <1>5
<1> QED  BY <1>1, <1>2, <1>3, <1>4, <1>5

LEMMA SameSites ==
  ASSUME NEW b, SitesOK(b), NEW c, c.instrs = b.instrs, c.sites = b.sites
  PROVE  SitesOK(c)
<1>1. /\ Size(c) = Size(b) /\ NumSites(c) = NumSites(b)
      /\ \A k : At(c, k) = At(b, k)
  BY DEF Size, NumSites, At
<1>2. \A i : PendingAt(c, i) = PendingAt(b, i)
  BY DEF PendingAt, Writes, Retires
<1>3. WellPlaced(c) /\ Tiled(c)
  BY <1>1, SameTiling DEF SitesOK, WellPlaced
<1>4. Reads(c)
  BY <1>1, <1>2 DEF SitesOK, Reads, ReadOK
<1>5. Spares(c)
  BY <1>1, <1>2 DEF SitesOK, Spares, SpareOK
<1> QED  BY <1>3, <1>4, <1>5 DEF SitesOK

\* Workload, which is no jump.
LEMMA PlainKeepsSites ==
  ASSUME NEW b \in BlkType, SitesOK(b), NEW c \in BlkType, Extends(b, c), WellPlaced(c),
         c.sites = b.sites, Size(c) = Size(b) + 1, IsWork(c, Size(c))
  PROVE  SitesOK(c)
<1>1. NumSites(c) = NumSites(b) /\ NumSites(b) \in Nat
  BY SizeType DEF NumSites
<1>2. NumSites(b) + 1 .. NumSites(c) = {}
  BY <1>1
<1>3. Tiled(c)
  BY PlainTiles DEF SitesOK, Extends
<1>4. Reads(c) /\ Spares(c)
  BY <1>2, KeepsReads, KeepsSpares DEF SitesOK
<1> QED  BY <1>3, <1>4 DEF SitesOK

--------------------------------------------------------------------------------
(* The sites that are added.                                                 *)

LEMMA ValueSiteReads ==
  ASSUME NEW b \in BlkType, SitesOK(b),
         NEW d \in BlkType, d.instrs = b.instrs, d.sites = b.sites,
         NEW rprod \in Regs, NEW rdeps \in Seq(Regs),
         NEW value, Data(value) \in DestType,
         ValueReads(rprod, rdeps, Pending(b)),
         NEW c, c = ValueSite(d, rprod, rdeps, Data(value), NoFail)
  PROVE  c \in BlkType /\ SitesOK(c) /\ c.fresh = d.fresh /\ NumSites(c) = NumSites(b) + 1
<1>1. NoFail \in Nat /\ WellPlaced(b) /\ Tiled(b) /\ Reads(b) /\ Spares(b)
  BY DEF NoFail, SitesOK
<1>2. Size(d) = Size(b) /\ NumSites(d) = NumSites(b)
  BY DEF Size, NumSites
<1>3. /\ c \in BlkType /\ c.fresh = d.fresh /\ Extends(b, c) /\ WellPlaced(c)
      /\ NumSites(c) = NumSites(b) + 1
      /\ At(c, NumSites(c)) = Size(b) + 1
  <2>1. ValueAdded(b, d, c, rprod, rdeps)
    BY <1>1, ValueSiteStep
  <2> QED  BY <2>1 DEF ValueAdded
<1>4. /\ \A i \in Size(b) + 1 .. Size(c) : c.instrs[i] = Nop
      /\ c.sites[NumSites(c)].kind = "value"
      /\ c.sites[NumSites(c)].rprod = rprod /\ c.sites[NumSites(c)].rdeps = rdeps
      /\ c.sites[NumSites(c)].failAt = NoFail
  <2>1. /\ \A i \in Size(d) + 1 .. Size(c) : c.instrs[i] = Nop
        /\ c.sites[NumSites(d) + 1] =
              [kind |-> "value", at |-> Size(d) + 1, failAt |-> NoFail,
               rprod |-> rprod, rdeps |-> rdeps, dest |-> Data(value)]
    BY <1>1, ValueSiteShape
  <2> QED  BY <1>2, <1>3, <2>1
<1>5. Tiled(c)
  BY <1>1, SameTiling, ValueSiteTiles
<1>6. Size(b) \in Nat /\ NumSites(b) \in Nat
  BY SizeType
<1>7. ASSUME NEW k \in NumSites(b) + 1 .. NumSites(c) PROVE k = NumSites(c)
  BY <1>3, <1>6, <1>7
<1>8. PendingAt(c, At(c, NumSites(c))) = Pending(b)
  <2>1. Size(b) + 1 \in 1 .. Size(b) + 1
    BY <1>6
  <2> QED  BY <1>1, <1>3, <2>1, PendingStable DEF Pending
<1>9. ReadOK(c, NumSites(c))
  BY <1>4, <1>8 DEF ReadOK
<1>10. Reads(c)
  <2>1. \A k \in NumSites(b) + 1 .. NumSites(c) : ReadOK(c, k)
    BY <1>7, <1>9
  <2> QED  BY <1>1, <1>3, <2>1, KeepsReads
<1>11. Spares(c)
  <2>1. Nop.op # "jalr"
    BY DEF Nop
  <2>2. \A i \in Size(b) + 1 .. Size(c), k \in NumSites(b) + 1 .. NumSites(c) :
           SpareOK(c, i, k)
    BY <1>4, <2>1 DEF SpareOK
  <2> QED  BY <1>1, <1>3, <1>4, <1>7, <2>2, KeepsSpares
<1> QED  BY <1>3, <1>5, <1>10, <1>11 DEF SitesOK

LEMMA BranchSiteReads ==
  ASSUME NEW b \in BlkType, SitesOK(b), NEW kind \in BranchKinds,
         kind = "guard" => NumSites(b) > 0,
         NEW rs1 \in Regs, NEW rs2 \in Regs \cup {ZERO}, NEW taken \in BOOLEAN,
         kind = "branch" => BranchReads(rs1, rs2, Pending(b)),
         NEW c, c = BranchSite(b, kind, rs1, rs2, taken)
  PROVE  c \in BlkType /\ SitesOK(c) /\ c.fresh = b.fresh
<1>1. WellPlaced(b) /\ Tiled(b) /\ Reads(b) /\ Spares(b)
  BY DEF SitesOK
<1>2. /\ c \in BlkType /\ c.fresh = b.fresh /\ Extends(b, c) /\ WellPlaced(c)
      /\ NumSites(c) = NumSites(b) + 1
  <2>1. BranchAdded(b, c, kind, rs1)
    BY <1>1, BranchSiteStep
  <2> QED  BY <2>1 DEF BranchAdded
<1>3. /\ \A i \in Size(b) + 1 .. Size(c) : c.instrs[i] \in {Nop, JalSkip}
      /\ c.sites[NumSites(c)].kind = kind /\ c.sites[NumSites(c)].rs1 = rs1
      /\ c.sites[NumSites(c)].at = Size(b) + 1
  BY <1>2, BranchSiteShape
<1>4. c.sites[NumSites(c)].rs2 = rs2
  <2> DEFINE site == [kind |-> kind, at |-> Size(b) + 1,
                      failAt |-> BranchFailAt(b, taken),
                      rs1 |-> rs1, rs2 |-> rs2, taken |-> taken]
  <2>1. c.sites = Append(b.sites, site)
    BY DEF BranchSite, AddSite, Emit, BlkType
  <2>2. site.rs2 = rs2
    OBVIOUS
  <2> HIDE DEF site
  <2> QED  BY <1>2, <2>1, <2>2 DEF BlkType, NumSites
<1>5. Tiled(c)
  BY <1>1, BranchSiteTiles
<1>6. Size(b) \in Nat /\ NumSites(b) \in Nat
  BY SizeType
<1>7. ASSUME NEW k \in NumSites(b) + 1 .. NumSites(c) PROVE k = NumSites(c)
  BY <1>2, <1>6, <1>7
<1>8. PendingAt(c, At(c, NumSites(c))) = Pending(b)
  <2>1. Size(b) + 1 \in 1 .. Size(b) + 1
    BY <1>6
  <2> QED  BY <1>1, <1>2, <1>3, <2>1, PendingStable DEF Pending, At
<1>9. ReadOK(c, NumSites(c))
  BY <1>3, <1>4, <1>8 DEF ReadOK, BranchKinds
<1>10. Reads(c)
  <2>1. \A k \in NumSites(b) + 1 .. NumSites(c) : ReadOK(c, k)
    BY <1>7, <1>9
  <2> QED  BY <1>1, <1>2, <2>1, KeepsReads
<1>11. Spares(c)
  <2>1. Nop.op # "jalr" /\ JalSkip.op # "jalr"
    BY DEF Nop, JalSkip
  <2>2. \A i \in Size(b) + 1 .. Size(c), k \in NumSites(b) + 1 .. NumSites(c) :
           SpareOK(c, i, k)
    BY <1>3, <2>1 DEF SpareOK
  <2>3. \A k \in NumSites(b) + 1 .. NumSites(c) : c.sites[k].kind # "value"
    BY <1>3, <1>7 DEF BranchKinds
  <2> QED  BY <1>1, <1>2, <2>2, <2>3, KeepsSpares
<1> QED  BY <1>2, <1>5, <1>10, <1>11 DEF SitesOK

\* What a peek returns is what a value site may depend on.
LEMMA PeekValueReads ==
  ASSUME NEW b, BlkInv(b), NEW rprod, NEW rdeps \in Peek(b, MAX_PEEK, rprod)
  PROVE  rdeps \in Seq(Regs) /\ ValueReads(rprod, rdeps, Pending(b))
<1>1. /\ b.fresh \in Seq(Regs) /\ Distinct(b.fresh) /\ Elems(b.fresh) = Pending(b)
      /\ MAX_PEEK \in Nat \ {0}
  BY SiteBuilderAssumption DEF BlkInv, CodeOK, FreshOK, BlkType
<1>2. /\ rdeps \in Seq(Regs) /\ rdeps # <<>> /\ Distinct(rdeps)
      /\ rprod \notin Elems(rdeps)
  BY <1>1, PeekProperties
<1>3. Pending(b) \ {rprod} # {} =>
         /\ Elems(rdeps) \subseteq Pending(b) \ {rprod}
         /\ Len(rdeps) >= MAX_PEEK \/ Elems(rdeps) = Pending(b) \ {rprod}
  BY <1>1, PeekReads
<1> QED  BY <1>2, <1>3 DEF ValueReads

LEMMA AddressReads ==
  ASSUME NEW b, BlkInv(b), SitesOK(b), NEW rprod \in Regs, NEW addr \in Addresses,
         NEW c \in Address(b, rprod, addr)
  PROVE  SitesOK(c)
<1>1. b \in BlkType /\ Distinct(b.fresh)
  BY DEF BlkInv, CodeOK, FreshOK
<1>2. PICK rdeps \in Peek(b, MAX_PEEK, rprod) :
         c = ValueSite(Clobber(b, rprod), rprod, rdeps, Data(addr), NoFail)
  BY DEF Address
<1>3. rdeps \in Seq(Regs) /\ ValueReads(rprod, rdeps, Pending(b))
  BY PeekValueReads
<1>4. Data(addr) \in DestType
  BY DEF Data, DestType
<1>5. /\ Clobber(b, rprod) \in BlkType
      /\ Clobber(b, rprod).instrs = b.instrs /\ Clobber(b, rprod).sites = b.sites
  BY <1>1, ClobberShape
<1> QED  BY <1>1, <1>2, <1>3, <1>4, <1>5, ValueSiteReads

\* A guard reads all there is, and is only placed when there is something.
LEMMA GuardReads ==
  ASSUME NEW b, BlkInv(b), SitesOK(b), b.fresh # <<>>, NEW c \in Guard(b)
  PROVE  SitesOK(c) /\ Pending(c) = {}
<1>1. /\ b \in BlkType /\ FreshOK(b) /\ Distinct(b.fresh)
      /\ b.fresh \in Seq(Regs) /\ Elems(b.fresh) = Pending(b)
  BY DEF BlkInv, CodeOK, FreshOK, BlkType
<1> DEFINE d == [b EXCEPT !.fresh = <<>>]
           v(acc) == ValueSite(d, acc, Without(b.fresh, acc), Data(ZeroWord), NoFail)
<1>2. PICK acc \in Stale(b), taken \in BOOLEAN :
         c = BranchSite(v(acc), "guard", acc, ZERO, taken)
  BY DEF Guard
<1>3. acc \in Regs /\ acc \notin Pending(b)
  BY <1>1, StaleIsNotPending
<1>4. Without(b.fresh, acc) = b.fresh
  BY <1>1, <1>3 DEF Without
<1>5. ValueReads(acc, b.fresh, Pending(b))
  BY <1>1, <1>3 DEF ValueReads
<1>6. d \in BlkType /\ d.instrs = b.instrs /\ d.sites = b.sites /\ d.fresh = <<>>
  <2>1. <<>> \in Seq(Regs)
    OBVIOUS
  <2> QED  BY <1>1, <2>1 DEF BlkType
<1>7. Data(ZeroWord) \in DestType
  BY DEF Data, DestType
<1>8. v(acc) = ValueSite(d, acc, b.fresh, Data(ZeroWord), NoFail)
  BY <1>4
<1> HIDE DEF d
<1> DEFINE u == v(acc)
<1>9. u = ValueSite(d, acc, b.fresh, Data(ZeroWord), NoFail)
  BY <1>8
<1>10. c = BranchSite(u, "guard", acc, ZERO, taken)
  BY <1>2
<1> HIDE DEF u, v
<1>11. /\ u \in BlkType /\ SitesOK(u) /\ u.fresh = <<>> /\ NumSites(u) = NumSites(b) + 1
  BY <1>1, <1>3, <1>5, <1>6, <1>7, <1>9, ValueSiteReads
<1>12. NumSites(u) > 0
  BY <1>1, <1>11, SizeType
<1>13. "guard" \in BranchKinds /\ ZERO \in Regs \cup {ZERO} /\ "guard" # "branch"
  BY DEF BranchKinds
<1>14. SitesOK(c) /\ c.fresh = <<>>
  BY <1>3, <1>10, <1>11, <1>12, <1>13, BranchSiteReads
<1>15. Pending(c) = {}
  <2>1. Elems(c.fresh) = Pending(c)
    BY GuardStep DEF BlkInv, FreshOK
  <2> QED  BY <1>14, <2>1 DEF Elems
<1> QED  BY <1>14, <1>15

LEMMA IndirectJumpReads ==
  ASSUME NEW b, BlkInv(b), SitesOK(b), NEW rprod \in Stale(b), NEW rd \in Stale(b),
         NEW rdeps \in Peek(b, MAX_PEEK, rprod),
         NEW c, c = IndirectJump(b, rprod, rd, rdeps)
  PROVE  SitesOK(c)
<1>1. /\ b \in BlkType /\ FreshOK(b)
      /\ WellPlaced(b) /\ Tiled(b) /\ Reads(b) /\ Spares(b)
  BY DEF BlkInv, CodeOK, SitesOK
<1>2. /\ rprod \in Regs /\ rprod \notin Pending(b)
      /\ rd \in Regs /\ rd \notin Pending(b)
  BY <1>1, StaleIsNotPending
<1>3. rdeps \in Seq(Regs) /\ ValueReads(rprod, rdeps, Pending(b))
  BY PeekValueReads
<1>4. c \in BlkType /\ WellPlaced(c) /\ Tiled(c)
  BY <1>1, <1>2, <1>3, IndirectJumpStep, IndirectJumpTiles DEF BlkInv, CodeOK
<1> DEFINE n == NumSites(b) + 1
<1>5. /\ Size(c) = Size(b) + Len(rdeps) + 3
      /\ \A i \in 1 .. Size(b) : c.instrs[i] = b.instrs[i]
      /\ \A i \in Size(b) + 1 .. Size(c) : c.instrs[i] \in {Nop, Jalr(rd, rprod)}
      /\ NumSites(c) = n
      /\ \A k \in 1 .. NumSites(b) : c.sites[k] = b.sites[k]
      /\ c.sites[n].kind = "value" /\ c.sites[n].at = Size(b) + 1
      /\ c.sites[n].failAt = Size(c)
      /\ c.sites[n].rprod = rprod /\ c.sites[n].rdeps = rdeps
  <2>1. rdeps \in Seq(Regs) /\ rprod \in Regs /\ rd \in Regs
    BY <1>2, <1>3
  <2> HIDE DEF n
  <2>2. /\ c \in BlkType
        /\ Size(c) = Size(b) + Len(rdeps) + 3
        /\ \A i \in 1 .. Size(b) : c.instrs[i] = b.instrs[i]
        /\ \A i \in Size(b) + 1 .. Size(c) : c.instrs[i] \in {Nop, Jalr(rd, rprod)}
        /\ c.instrs[Size(c) - 1] = Jalr(rd, rprod)
        /\ NumSites(c) = NumSites(b) + 1
        /\ \A k \in 1 .. NumSites(b) : c.sites[k] = b.sites[k]
        /\ c.sites[NumSites(b) + 1] =
              [kind |-> "value", at |-> Size(b) + 1, failAt |-> Size(c),
               rprod |-> rprod, rdeps |-> rdeps, dest |-> Code(Size(c) + 1)]
    BY <2>1, IndirectJumpShape, SMTT(30)
  <2>3. n = NumSites(b) + 1
    BY DEF n
  <2> QED  BY <2>2, <2>3
<1>6. Size(b) \in Nat /\ NumSites(b) \in Nat /\ Len(rdeps) \in Nat
  BY <1>1, <1>3, SizeType
<1>7. ASSUME NEW k \in NumSites(b) + 1 .. NumSites(c) PROVE k = n
  BY <1>5, <1>6, <1>7
<1> HIDE DEF n
<1>8. Size(b) + 1 < Size(c)
  BY <1>5, <1>6
<1>9. Extends(b, c)
  <2>1. Size(b) <= Size(c) /\ NumSites(b) <= NumSites(c)
    BY <1>5, <1>6 DEF n
  <2>2. At(c, n) > Size(b)
    BY <1>5, <1>6 DEF At
  <2> QED  BY <1>5, <1>7, <2>1, <2>2 DEF Extends
<1>10. PendingAt(c, At(c, n)) = Pending(b)
  <2>1. Size(b) + 1 \in 1 .. Size(b) + 1
    BY <1>6
  <2> QED  BY <1>1, <1>4, <1>5, <1>9, <2>1, PendingStable DEF Pending, At
<1>11. Reads(c)
  <2>1. ReadOK(c, n)
    BY <1>3, <1>5, <1>10 DEF ReadOK
  <2>2. \A k \in NumSites(b) + 1 .. NumSites(c) : ReadOK(c, k)
    BY <1>7, <2>1
  <2> QED  BY <1>1, <1>4, <1>9, <2>2, KeepsReads
<1>12. Spares(c)
  <2>1. ASSUME NEW i \in Size(b) + 1 .. Size(c) PROVE SpareOK(c, i, n)
    <3>1. CASE c.instrs[i] = Nop
      BY <3>1 DEF SpareOK, Nop
    <3>2. CASE c.instrs[i] = Jalr(rd, rprod)
      <4>1. c.instrs[i].rd = rd
        BY <3>2 DEF Jalr
      <4> QED  BY <1>2, <1>5, <1>10, <4>1 DEF SpareOK
    <3> QED  BY <1>5, <3>1, <3>2
  <2>2. \A i \in Size(b) + 1 .. Size(c), k \in NumSites(b) + 1 .. NumSites(c) :
           SpareOK(c, i, k)
    BY <1>7, <2>1
  <2>3. \A k \in NumSites(b) + 1 .. NumSites(c) : c.sites[k].failAt > Size(b) + 1
    BY <1>5, <1>7, <1>8
  <2> QED  BY <1>1, <1>4, <1>9, <2>2, <2>3, KeepsSpares
<1> QED  BY <1>4, <1>11, <1>12 DEF SitesOK

--------------------------------------------------------------------------------
(* The steps of the generator.                                               *)

LEMMA ObserveReads ==
  ASSUME NEW b, BlkInv(b), SitesOK(b), NEW w \in WorkInstrs
  PROVE  SitesOK(Observe(Emit(b, <<w>>), w))
<1> DEFINE slots == <<w>>
           e == Emit(b, slots)
<1>1. b \in BlkType /\ WellPlaced(b)
  BY DEF BlkInv, CodeOK
<1>2. slots \in Seq(SlotType) /\ Len(slots) = 1 /\ slots[1] = w
  BY DEF SlotType
<1>3. /\ e \in BlkType /\ Extends(b, e) /\ WellPlaced(e) /\ e.sites = b.sites
  BY <1>1, WorkStep
<1> HIDE DEF slots
<1>5. Size(e) = Size(b) + 1 /\ e.instrs[Size(b) + 1] = w
  <2>1. 1 \in 1 .. Len(slots)
    BY <1>2
  <2>2. /\ e \in BlkType /\ e.fresh = b.fresh /\ e.sites = b.sites
        /\ Size(e) = Size(b) + Len(slots)
        /\ \A i \in 1 .. Size(b) : e.instrs[i] = b.instrs[i]
        /\ \A i \in 1 .. Len(slots) : e.instrs[Size(b) + i] = slots[i]
    BY <1>1, <1>2, EmitShape, Zenon
  <2> QED  BY <1>2, <2>1, <2>2, ZenonT(30)
<1> HIDE DEF e
<1>6. SitesOK(e)
  BY <1>1, <1>3, <1>5, PlainKeepsSites DEF IsWork
<1>7. Observe(e, w).instrs = e.instrs /\ Observe(e, w).sites = e.sites
  BY <1>3 DEF Observe, BlkType
<1>8. SitesOK(Observe(e, w))
  BY <1>6, <1>7, SameSites
<1> QED  BY <1>8 DEF e, slots

LEMMA StabilizeReads ==
  ASSUME NEW b, BlkInv(b), SitesOK(b), NEW w \in WorkInstrs
  PROVE  SitesOK(Stabilize(b, w))
<1> SUFFICES ASSUME w.unstable, w.rd # ZERO
             PROVE  SitesOK(Clobber(Emit(b, <<Fixup(w.rd)>>), w.rd))
  BY DEF Stabilize
<1> DEFINE slots == <<Fixup(w.rd)>>
           e == Emit(b, slots)
<1>1. b \in BlkType /\ WellPlaced(b) /\ Distinct(b.fresh) /\ w.rd \in Regs
  BY SiteBuilderAssumption DEF BlkInv, CodeOK, FreshOK
<1>2. slots \in Seq(SlotType) /\ Len(slots) = 1 /\ slots[1] = Fixup(w.rd)
  BY <1>1 DEF SlotType, Fixup
<1>3. /\ e \in BlkType /\ e.fresh = b.fresh /\ Extends(b, e) /\ WellPlaced(e)
      /\ e.sites = b.sites
  BY <1>1, FixupStep
<1> HIDE DEF slots
<1>4. Size(e) = Size(b) + 1 /\ e.instrs[Size(b) + 1] = Fixup(w.rd)
  <2>1. 1 \in 1 .. Len(slots)
    BY <1>2
  <2> QED  BY <1>1, <1>2, <2>1, EmitShape
<1> HIDE DEF e
<1>5. SitesOK(e)
  BY <1>1, <1>3, <1>4, PlainKeepsSites DEF IsWork, Fixup
<1>6. Clobber(e, w.rd).instrs = e.instrs /\ Clobber(e, w.rd).sites = e.sites
  BY <1>1, <1>3, ClobberShape
<1> QED  BY <1>5, <1>6, SameSites DEF e, slots

LEMMA ConfineReads ==
  ASSUME NEW b, BlkInv(b), SitesOK(b), NEW w \in WorkInstrs, NEW c \in Confine(b, w)
  PROVE  SitesOK(c)
<1>1. CASE w.base = ZERO
  BY <1>1 DEF Confine
<1>2. CASE w.base # ZERO
  <2>1. w.base \in Regs
    BY <1>2, SiteBuilderAssumption
  <2>2. PICK addr \in Addresses : c \in Address(b, w.base, addr)
    BY <1>2 DEF Confine
  <2> QED  BY <2>1, <2>2, AddressReads
<1> QED  BY <1>1, <1>2

LEMMA ControlFlowReads ==
  ASSUME NEW b, BlkInv(b), SitesOK(b), NEW c \in ControlFlow(b)
  PROVE  SitesOK(c)
<1>1. CASE c \in IndirectJumps(b)
  <2>1. PICK rprod \in Stale(b) :
           c \in {IndirectJump(b, rprod, rd, rdeps) :
                     rd \in Stale(b), rdeps \in Peek(b, MAX_PEEK, rprod)}
    BY <1>1 DEF IndirectJumps
  <2>2. PICK rd \in Stale(b), rdeps \in Peek(b, MAX_PEEK, rprod) :
           c = IndirectJump(b, rprod, rd, rdeps)
    BY <2>1
  <2> QED  BY <2>2, IndirectJumpReads
<1>2. CASE c \in Branches(b)
  <2>1. PICK rs \in Operands(b), taken \in BOOLEAN :
           c = BranchSite(b, "branch", rs[1], rs[2], taken)
    BY <1>2 DEF Branches
  <2>2. rs[1] \in Regs /\ rs[2] \in Regs \cup {ZERO} /\ "branch" \in BranchKinds
    BY OperandsType DEF BranchKinds
  <2>3. BranchReads(rs[1], rs[2], Pending(b))
    BY OperandsRead DEF BranchReads
  <2>4. b \in BlkType /\ "branch" # "guard"
    BY DEF BlkInv, CodeOK
  <2> QED  BY <2>1, <2>2, <2>3, <2>4, BranchSiteReads
<1>3. CASE c = b
  BY <1>3
<1> QED  BY <1>1, <1>2, <1>3 DEF ControlFlow

\* The code after a block has nothing pending if it can be guarded.
LEMMA BlockEndReads ==
  ASSUME NEW b, BlkInv(b), SitesOK(b), NEW c \in BlockEnd(b)
  PROVE  SitesOK(c) /\ (CanGuard => Pending(c) = {})
<1>1. PICK d \in {b} \cup ControlFlow(b) :
         c \in IF CanGuard /\ d.fresh # <<>> THEN Guard(d) ELSE {d}
  BY DEF BlockEnd
<1>2. BlkInv(d) /\ SitesOK(d)
  BY ControlFlowStep, ControlFlowReads
<1>3. CASE CanGuard /\ d.fresh # <<>>
  BY <1>1, <1>2, <1>3, GuardReads
<1>4. CASE ~ (CanGuard /\ d.fresh # <<>>)
  <2>1. c = d /\ (CanGuard => d.fresh = <<>>)
    BY <1>1, <1>4
  <2>2. Elems(d.fresh) = Pending(d)
    BY <1>2 DEF BlkInv, FreshOK
  <2> QED  BY <1>2, <2>1, <2>2 DEF Elems
<1> QED  BY <1>3, <1>4

\* After an instruction the unchecked registers are below the threshold.
LEMMA AfterInstrReads ==
  ASSUME NEW b, BlkInv(b), SitesOK(b), opts.threshold \in Nat, NEW c \in AfterInstr(b)
  PROVE  /\ SitesOK(c)
         /\ CanGuard /\ opts.threshold > 0 => Cardinality(Pending(c)) < opts.threshold
<1>1. /\ b.fresh \in Seq(Regs) /\ Distinct(b.fresh) /\ Elems(b.fresh) = Pending(b)
  BY DEF BlkInv, CodeOK, FreshOK, BlkType
<1>2. Len(b.fresh) \in Nat /\ Cardinality(Pending(b)) = Len(b.fresh)
  BY <1>1, DistinctCount
<1>3. CASE CanGuard /\ opts.threshold > 0 /\ Len(b.fresh) >= opts.threshold
  <2>1. b.fresh # <<>>
    BY <1>2, <1>3
  <2>2. SitesOK(c) /\ Pending(c) = {}
    BY <1>3, <2>1, GuardReads DEF AfterInstr
  <2>3. Cardinality({}) = 0
    BY FS_EmptySet
  <2> QED  BY <1>3, <2>2, <2>3
<1>4. CASE ~ (CanGuard /\ opts.threshold > 0 /\ Len(b.fresh) >= opts.threshold)
  <2>1. c = b
    BY <1>4 DEF AfterInstr
  <2> QED  BY <1>2, <1>4, <2>1
<1> QED  BY <1>3, <1>4

ReadIInv == BuilderIInv /\ SitesOK(blk) /\ UncheckedIsBounded

LEMMA ReadInit == BuilderInit => ReadIInv
<1> SUFFICES ASSUME BuilderInit PROVE ReadIInv
  OBVIOUS
<1>1. Size(blk) = 0 /\ NumSites(blk) = 0
  BY DEF BuilderInit, EmptyBlk, Size, NumSites
<1>2. BuilderIInv /\ Tiled(blk)
  BY BuilderInitIInv, TilingInit
<1>3. SitesOK(blk)
  BY <1>1, <1>2 DEF SitesOK, WellPlaced, Reads, Spares
<1>4. Pending(blk) = {}
  <2>1. Elems(blk.fresh) = Pending(blk) /\ blk.fresh = <<>>
    BY <1>2 DEF BuilderIInv, BlkInv, FreshOK, BuilderInit, EmptyBlk
  <2> QED  BY <2>1 DEF Elems
<1>5. UncheckedIsBounded
  <2>1. opts.threshold \in Nat
    BY SiteBuilderAssumption DEF BuilderInit
  <2> QED  BY <1>4, <2>1, FS_EmptySet DEF UncheckedIsBounded
<1> QED  BY <1>2, <1>3, <1>5 DEF ReadIInv

LEMMA ReadNext == ReadIInv /\ [BuilderNext]_builderVars => ReadIInv'
<1> SUFFICES ASSUME ReadIInv, [BuilderNext]_builderVars PROVE ReadIInv'
  OBVIOUS
<1>1. /\ BlkInv(blk) /\ SitesOK(blk) /\ opts \in Options
      /\ left \in 0 .. NumInstrs /\ inBlock \in 0 .. MaxBlock
      /\ opts.threshold \in Nat
  BY SiteBuilderAssumption DEF ReadIInv, BuilderIInv
<1>2. BuilderIInv'
  BY BuilderNextIInv DEF ReadIInv
<1>3. ASSUME NEW w \in WorkInstrs, GenInstr(w) PROVE SitesOK(blk') /\ UncheckedIsBounded'
  <2>1. PICK b \in Confine(blk, w) :
           blk' \in AfterInstr(Stabilize(Observe(Emit(b, <<w>>), w), w))
    BY <1>3 DEF GenInstr
  <2> DEFINE o == Observe(Emit(b, <<w>>), w)
             e == Stabilize(o, w)
  <2>2. BlkInv(b) /\ SitesOK(b)
    BY <1>1, ConfineStep, ConfineReads
  <2>3. BlkInv(o) /\ SitesOK(o)
    BY <2>2, ObserveStep, ObserveReads
  <2>4. blk' \in AfterInstr(e)
    BY <2>1
  <2> HIDE DEF o
  <2>5. BlkInv(e) /\ SitesOK(e)
    BY <2>3, StabilizeStep, StabilizeReads
  <2> HIDE DEF e
  <2>6. /\ SitesOK(blk')
        /\ CanGuard /\ opts.threshold > 0 => Cardinality(Pending(blk')) < opts.threshold
    BY <1>1, <2>4, <2>5, AfterInstrReads
  <2>7. opts' = opts /\ inBlock' # 0
    BY <1>1, <1>3, SiteBuilderAssumption DEF GenInstr
  <2>8. CanGuard' <=> CanGuard
    BY <2>7 DEF CanGuard
  <2>9. Pending(blk)' = Pending(blk')
    BY DEF Pending, PendingAt, Size, Writes, Retires
  <2> QED  BY <2>6, <2>7, <2>8, <2>9 DEF UncheckedIsBounded
<1>4. ASSUME EndBlock PROVE SitesOK(blk') /\ UncheckedIsBounded'
  <2>1. SitesOK(blk') /\ (CanGuard => Pending(blk') = {})
    BY <1>1, <1>4, BlockEndReads DEF EndBlock
  <2>2. opts' = opts
    BY <1>4 DEF EndBlock
  <2>3. CanGuard' <=> CanGuard
    BY <2>2 DEF CanGuard
  <2>4. Pending(blk)' = Pending(blk')
    BY DEF Pending, PendingAt, Size, Writes, Retires
  <2> QED  BY <1>1, <2>1, <2>2, <2>3, <2>4, FS_EmptySet DEF UncheckedIsBounded
<1>5. ASSUME UNCHANGED builderVars PROVE SitesOK(blk') /\ UncheckedIsBounded'
  <2>1. blk' = blk /\ opts' = opts /\ inBlock' = inBlock
    BY <1>5 DEF builderVars
  <2>2. SitesOK(blk')
    BY <1>1, <2>1
  <2>3. CanGuard' <=> CanGuard
    BY <2>1 DEF CanGuard
  <2>4. Pending(blk)' = Pending(blk')
    BY DEF Pending, PendingAt, Size, Writes, Retires
  <2>5. Pending(blk') = Pending(blk)
    BY <2>1
  <2>6. UncheckedIsBounded
    BY DEF ReadIInv
  <2> QED  BY <2>1, <2>2, <2>3, <2>4, <2>5, <2>6 DEF UncheckedIsBounded
<1>6. SitesOK(blk') /\ UncheckedIsBounded'
  <2>1. BuilderNext \/ UNCHANGED builderVars
    OBVIOUS
  <2> QED  BY <2>1, <1>3, <1>4, <1>5 DEF BuilderNext
<1>7. SitesOK(blk)' <=> SitesOK(blk')
  OBVIOUS
<1> QED  BY <1>2, <1>6, <1>7 DEF ReadIInv

\* The inductive invariant about reads and jumps (basicblock.rs: run).
THEOREM ReadInvariance == BuilderSpec => []ReadIInv
BY ReadInit, ReadNext, PTL DEF BuilderSpec

\* No unchecked workload data crosses the end of a block, and there are never
\* `threshold' unchecked registers once an instruction's sites are placed
\* (entangle.rs: after_instr, block_end).
THEOREM BoundedUnchecked == BuilderSpec => []UncheckedIsBounded
<1>1. ReadIInv => UncheckedIsBounded
  BY DEF ReadIInv
<1> QED  BY <1>1, ReadInvariance, PTL

\* A site is entangled with unchecked workload data whenever there is some, with
\* as much of it as it can take, and never with the register it overwrites
\* (entangle.rs: peek, Kind::Value).
THEOREM SitesRead == BuilderSpec => []SitesReadPending
<1>1. ReadIInv => SitesReadPending
  <2> SUFFICES ASSUME ReadIInv PROVE SitesReadPending
    OBVIOUS
  <2>1. Reads(blk) /\ DOMAIN blk.sites = 1 .. NumSites(blk)
    BY SizeType DEF ReadIInv, SitesOK, BuilderIInv, BlkInv, CodeOK
  <2>2. ASSUME NEW k \in SiteKind(blk, "value")
        PROVE  ValueReads(blk.sites[k].rprod, blk.sites[k].rdeps,
                          PendingAt(blk, blk.sites[k].at))
    BY <2>1 DEF SiteKind, Reads, ReadOK, At
  <2>3. ASSUME NEW k \in SiteKind(blk, "branch")
        PROVE  BranchReads(blk.sites[k].rs1, blk.sites[k].rs2,
                           PendingAt(blk, blk.sites[k].at))
    BY <2>1 DEF SiteKind, Reads, ReadOK, At
  <2> QED  BY <2>2, <2>3 DEF SitesReadPending, ValueReads, BranchReads
<1> QED  BY <1>1, ReadInvariance, PTL

\* An indirect jump destroys no unchecked workload data: neither its target
\* register nor its link register holds any (entangle.rs: control_flow).
THEOREM JumpsSpare == BuilderSpec => []JumpsSparePending
<1>1. ReadIInv => JumpsSparePending
  <2> SUFFICES ASSUME ReadIInv PROVE JumpsSparePending
    OBVIOUS
  <2>1. /\ Spares(blk) /\ DOMAIN blk.sites = 1 .. NumSites(blk)
        /\ DOMAIN blk.instrs = 1 .. Size(blk)
    BY SizeType DEF ReadIInv, SitesOK, BuilderIInv, BlkInv, CodeOK
  <2> QED  BY <2>1 DEF JumpsSparePending, SiteKind, Spares, SpareOK, At
<1> QED  BY <1>1, ReadInvariance, PTL
================================================================================
