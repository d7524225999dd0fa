----------------------------- MODULE EntangleProofs -----------------------------
(***************************************************************************)
(* The entanglement keeps its promise for every program the builder can     *)
(* generate, every command line, every workload and every value: the final  *)
(* program goes through the states of the draft and is accepted (it         *)
(* implements Replay), its accesses are confined, no device that computes   *)
(* right is told wrong, a run leaves the path only where a register that    *)
(* decides its way is wrong, and a guard and a jump see the exclusive or of *)
(* what is wrong.                                                           *)
(*                                                                         *)
(* The path of a program is all its slots but the jumps to _fail.  The      *)
(* invariant says that the draft's registers, slot by slot along the path,  *)
(* change as the program's parts say (Story, Moves) and that Spike reports  *)
(* them where it was asked to (Reported); and that the final program, in any *)
(* slot of the path, has in the register a value site is computing the value *)
(* of the draft, what the exclusive ors still to come will take away, and    *)
(* what is wrong in those that have been executed (SumAt).  While nothing is *)
(* wrong the two agree in everything else (Agree), so every turn is the      *)
(* planned one.  SumAt alone, which holds on a device that miscomputes, is   *)
(* what guards rest on.                                                      *)
(***************************************************************************)
EXTENDS Entangle, SiteBuilderProofs

--------------------------------------------------------------------------------
(* The slots of a program and the path the draft takes through them.         *)

State == Regs \cup {REST}

\* The slots of the jumps to _fail, and all the others.
FailAts(b) == {b.sites[k].failAt : k \in 1 .. NumSites(b)} \ {NoFail}

Path(b) == (1 .. Size(b)) \ FailAts(b)

End(b) == Size(b) + 1

After(b, i) == IF i + 1 \in FailAts(b) THEN i + 2 ELSE i + 1

Before(b, i) == {j \in Path(b) : j < i}

\* What slot i is for site k.
OnHead(b, k, i) == b.sites[k].kind = "value" /\ i = At(b, k)
OnXor(b, k, i) == b.sites[k].kind = "value" /\ i - At(b, k) \in DOMAIN b.sites[k].rdeps
OnJump(b, k, i) ==
    b.sites[k].kind = "value" /\ b.sites[k].failAt # NoFail /\ i = b.sites[k].failAt - 1
OnTurn(b, k, i) == b.sites[k].kind \in BranchKinds /\ i = At(b, k)
OnSkip(b, k, i) == b.sites[k].kind \in BranchKinds /\ ~ b.sites[k].taken /\ i = At(b, k) + 1
OnFail(b, k, i) == b.sites[k].failAt # NoFail /\ i = b.sites[k].failAt

\* In slot i site k has started to compute its value, and may just have ended.
Computing(b, k, i) ==
    /\ b.sites[k].kind = "value"
    /\ i \in At(b, k) + 1 .. At(b, k) + ProducerLen + Len(b.sites[k].rdeps)

ProducingIn(b, i, r) ==
    /\ i \in 1 .. Size(b)
    /\ \/ b.instrs[i] = Fixup(r)
       \/ \E k \in 1 .. NumSites(b) :
             /\ b.sites[k].kind = "value" /\ b.sites[k].rprod = r
             /\ i \in At(b, k) + 1 .. At(b, k) + ProducerLen + Len(b.sites[k].rdeps) - 1

--------------------------------------------------------------------------------
(* What the two programs are made of.                                        *)

\* Every slot and the check have an address.
Placed(b) == 1 .. End(b) \subseteq DOMAIN CodeAddr

\* The branch of a guard.
GuardBranch(site) == Branch(IF site.taken THEN "beq" ELSE "bne", site.rs1, ZERO)

CommonImage(b, im) ==
    /\ Placed(b)
    /\ \A i \in 1 .. Size(b) : ~ InSite(b, i) => im[i] = b.instrs[i]
    /\ \A k \in 1 .. NumSites(b), i \in 1 .. Size(b) :
          /\ OnFail(b, k, i) => im[i] = JalFail
          /\ OnJump(b, k, i) => im[i] = b.instrs[i]
          /\ OnSkip(b, k, i) => im[i] = JalSkip
          /\ OnTurn(b, k, i) /\ b.sites[k].kind = "guard" =>
                im[i] = GuardBranch(b.sites[k])

DraftImage(b, im) ==
    /\ CommonImage(b, im)
    /\ \A k \in 1 .. NumSites(b), i \in 1 .. Size(b) :
          LET site == b.sites[k]
          IN  /\ OnHead(b, k, i) => im[i] = Li(site.rprod, Xor(LinkedValue(site), ZeroWord))
              /\ OnXor(b, k, i) => im[i] = XorInto(site.rprod, ZERO)
              /\ OnTurn(b, k, i) /\ site.kind = "branch" =>
                    im[i] = IF site.taken THEN JalSkip ELSE Nop

\* What a value site depends on, in the draft, and its exclusive or.
OldDep(site, n, tr) == tr[site.at + ProducerLen][site.rdeps[n]]

OldDeps(site, tr) == [n \in DOMAIN site.rdeps |-> OldDep(site, n, tr)]

DepSum(site, tr) == XorAll(OldDeps(site, tr), DOMAIN site.rdeps)

AllBranches == UNION {{p[1], p[2]} : p \in BranchPairs}

FinalImage(b, im, tr) ==
    /\ CommonImage(b, im)
    /\ \A k \in 1 .. NumSites(b), i \in 1 .. Size(b) :
          LET site == b.sites[k]
          IN  /\ OnHead(b, k, i) =>
                    im[i] = Li(site.rprod, Xor(LinkedValue(site), DepSum(site, tr)))
              /\ OnXor(b, k, i) => im[i] = XorInto(site.rprod, site.rdeps[i - site.at])
              /\ OnTurn(b, k, i) /\ site.kind = "branch" =>
                    \E cc \in AllBranches :
                        /\ im[i] = Branch(cc, site.rs1, site.rs2)
                        /\ Taken(cc, Val(tr[i], site.rs1), Val(tr[i], site.rs2))
                              <=> site.taken

--------------------------------------------------------------------------------
(* How the registers change along the path.                                  *)

\* What executing slot i makes of rf, but for the register a value site computes.
Moves(b, i, rf, rg) ==
    /\ \A k \in 1 .. NumSites(b) :
          /\ OnHead(b, k, i) \/ OnXor(b, k, i) =>
                \A r \in State \ {b.sites[k].rprod} : rg[r] = rf[r]
          /\ OnTurn(b, k, i) \/ OnSkip(b, k, i) => rg = rf
          /\ OnJump(b, k, i) =>
                rg = [rf EXCEPT ![b.instrs[i].rd] = Truncate(CodeAddr[i + 1])]
    /\ ~ InSite(b, i) =>
          LET w == b.instrs[i]
          IN  /\ w \in WorkInstrs =>
                    IF w.unstable /\ w.rd # ZERO
                    THEN \E v \in Noise : rg = [Result(w, rf) EXCEPT ![w.rd] = v]
                    ELSE rg = Result(w, rf)
              /\ w.op = "fixup" => rg = [rf EXCEPT ![w.rd] = FixupValue]

\* In the draft a value is there at once, and nothing else changes while the
\* placeholders of its exclusive ors are executed.
DraftAt(b, i, rf, tr) ==
    \A k \in 1 .. NumSites(b) : Computing(b, k, i) =>
        LET site == b.sites[k]
        IN  /\ rf[site.rprod] = Truncate(LinkedValue(site))
            /\ i > site.at + ProducerLen =>
                  \A r \in State \ {site.rprod} : rf[r] = tr[site.at + ProducerLen][r]

\* In the final program the value, in slot i, still lacks the dependencies whose
\* exclusive or has not been executed, and has in it what is wrong in the others.
Missing(site, i, rf, tr) ==
    [n \in DOMAIN site.rdeps |->
        IF n < i - site.at
        THEN Xor(rf[site.rdeps[n]], OldDep(site, n, tr))
        ELSE OldDep(site, n, tr)]

SumAt(b, i, rf, tr) ==
    \A k \in 1 .. NumSites(b) : Computing(b, k, i) =>
        LET site == b.sites[k]
        IN  rf[site.rprod] =
                Xor(Truncate(LinkedValue(site)),
                    XorAll(Missing(site, i, rf, tr), DOMAIN site.rdeps))

Agree(b, i, rf, tf) ==
    \A r \in State : ~ ProducingIn(b, i, r) => rf[r] = tf[r]

--------------------------------------------------------------------------------
(* The invariant.                                                            *)

\* The draft went through the states of tr and is now in slot i.
Story(b, tr, i, rf, start) ==
    /\ i \in Path(b) \cup {End(b)}
    /\ rf \in RegFile
    /\ tr \in [Before(b, i) -> RegFile]
    /\ \A j \in DOMAIN tr :
          /\ DraftAt(b, j, tr[j], tr)
          /\ Moves(b, j, tr[j], IF After(b, j) = i THEN rf ELSE tr[After(b, j)])
    /\ DraftAt(b, i, rf, tr)
    /\ start = IF i = 1 THEN rf ELSE tr[1]

RankIn(b, k) == Cardinality({l \in 1 .. k : Probed(b.sites[l])})

\* The reports are those of the probes up to site m.
ReportsAre(b, pr, tr, m) ==
    \A k \in 1 .. m : Probed(b.sites[k]) =>
        /\ RankIn(b, k) \in 1 .. Len(pr)
        /\ pr[RankIn(b, k)] = tr[ProbeIndex(b.sites[k])]

\* Spike has reported all the probes it has passed.
Reported(b, pr, tr, i) ==
    \E m \in 0 .. NumSites(b) :
        /\ Len(pr) = RankIn(b, m)
        /\ ReportsAre(b, pr, tr, m)
        /\ \A k \in 1 .. m : ProbeIndex(b.sites[k]) < i
        /\ \A k \in m + 1 .. NumSites(b) : ProbeIndex(b.sites[k]) >= i

Building ==
    /\ image = <<>> /\ pc = 1 /\ regs = boot /\ probes = <<>> /\ trace = <<>>
    /\ ~ corrupt

Drafting ==
    /\ DraftImage(blk, image)
    /\ Story(blk, trace, pc, regs, boot)
    /\ Reported(blk, probes, trace, pc)
    /\ probes \in Seq(RegFile)
    /\ ~ corrupt

\* The draft has been run: its last report is the one of the check.
Recorded ==
    /\ Placed(blk)
    /\ probes \in Seq(RegFile)
    /\ Len(probes) = RankIn(blk, NumSites(blk)) + 1
    /\ Story(blk, trace, End(blk), probes[Len(probes)], boot)
    /\ ReportsAre(blk, probes, trace, NumSites(blk))

\* What Spike told of slot i: the last report is the one of the check.
Told(b, pr, tr, i) == IF i = End(b) THEN pr[Len(pr)] ELSE tr[i]

Resolved ==
    /\ Recorded
    /\ FinalImage(blk, image, trace)
    /\ regs \in RegFile
    /\ pc \in Path(blk) \cup {End(blk)} \cup FailAts(blk) \cup {FAIL, TRAP, WILD}
    /\ pc \in Path(blk) \cup {End(blk)} => SumAt(blk, pc, regs, trace)
    /\ ~ corrupt => /\ pc \in Path(blk) \cup {End(blk)}
                    /\ Agree(blk, pc, regs, Told(blk, probes, trace, pc))

MachineInv ==
    /\ boot \in RegFile
    /\ stage \in {"build", "draft", "resolve", "final", "accepted", "device",
                  "caught", "missed"}
    /\ stage = "build" => Building
    /\ stage = "draft" => Drafting
    /\ stage = "resolve" => Recorded /\ ~ corrupt
    /\ stage \notin {"build", "draft", "resolve"} => Resolved
    /\ stage \in {"final", "accepted"} => ~ corrupt
    /\ stage = "caught" => corrupt

--------------------------------------------------------------------------------
(* Slots and sites.                                                          *)

Planned(b, can) ==
    /\ b \in BlkType /\ Tiled(b) /\ Laid(b, can)
    /\ \A k \in 1 .. NumSites(b) : b.sites[k].kind = "value" =>
          /\ b.sites[k].rprod \notin Elems(b.sites[k].rdeps)
          /\ Len(b.sites[k].rdeps) > 0

Role(b, k, i) ==
    \/ OnHead(b, k, i) \/ OnXor(b, k, i) \/ OnJump(b, k, i)
    \/ OnTurn(b, k, i) \/ OnSkip(b, k, i) \/ OnFail(b, k, i)

LEMMA Kinds == "value" \notin BranchKinds /\ "guard" \in BranchKinds /\ "branch" \in BranchKinds
BY DEF BranchKinds

LEMMA SiteRange ==
  ASSUME NEW can, NEW b, Planned(b, can), NEW k \in 1 .. NumSites(b)
  PROVE  /\ Size(b) \in Nat /\ At(b, k) \in Nat /\ Last(b.sites[k]) \in Nat
         /\ b.sites[k].at = At(b, k)
         /\ 1 <= At(b, k) /\ At(b, k) <= Last(b.sites[k]) /\ Last(b.sites[k]) <= Size(b)
         /\ Footprint(b.sites[k]) = At(b, k) .. Last(b.sites[k])
         /\ b.sites[k].failAt # NoFail => Last(b.sites[k]) = b.sites[k].failAt
         /\ b.sites[k].kind \in {"value"} \cup BranchKinds
  BY SiteIn, SizeType, FootprintIs DEF Planned, Tiled, Bounded, At, Last

LEMMA ValueRange ==
  ASSUME NEW can, NEW b, Planned(b, can), NEW k \in 1 .. NumSites(b),
         b.sites[k].kind = "value"
  PROVE  /\ b.sites[k].rprod \in Regs /\ b.sites[k].rdeps \in Seq(Regs)
         /\ Len(b.sites[k].rdeps) \in Nat /\ Len(b.sites[k].rdeps) >= 1
         /\ DOMAIN b.sites[k].rdeps = 1 .. Len(b.sites[k].rdeps)
         /\ \A n \in 1 .. Len(b.sites[k].rdeps) :
               b.sites[k].rdeps[n] \in Regs /\ b.sites[k].rdeps[n] # b.sites[k].rprod
         /\ b.sites[k].failAt = NoFail =>
               /\ Last(b.sites[k]) = At(b, k) + Len(b.sites[k].rdeps)
               /\ b.sites[k].dest.type = "data"
         /\ b.sites[k].failAt # NoFail =>
               /\ Last(b.sites[k]) = At(b, k) + Len(b.sites[k].rdeps) + 2
               /\ b.sites[k].failAt = At(b, k) + Len(b.sites[k].rdeps) + 2
               /\ b.sites[k].dest = Code(b.sites[k].failAt + 1)
               /\ \E rd \in Regs :
                     b.instrs[b.sites[k].failAt - 1] = Jalr(rd, b.sites[k].rprod)
<1> DEFINE site == b.sites[k]
<1>1. /\ site.rprod \in Regs /\ site.rdeps \in Seq(Regs) /\ Len(site.rdeps) \in Nat
      /\ At(b, k) \in Nat /\ site.failAt \in Nat
  BY SiteIn DEF Planned
<1>2. ValueLaid(b, site)
  BY DEF Planned, Laid, SiteLaid
<1>3. site.rprod \notin Elems(site.rdeps) /\ Len(site.rdeps) > 0
  BY DEF Planned
<1>4. site.at = At(b, k)
  BY DEF At
<1> HIDE DEF site
<1>5. Len(site.rdeps) >= 1 /\ DOMAIN site.rdeps = 1 .. Len(site.rdeps)
      /\ \A n \in 1 .. Len(site.rdeps) :
            site.rdeps[n] \in Regs /\ site.rdeps[n] # site.rprod
  BY <1>1, <1>3 DEF Elems
<1>6. ASSUME site.failAt = NoFail
      PROVE  Last(site) = At(b, k) + Len(site.rdeps) /\ site.dest.type = "data"
  <2>1. Last(site) = At(b, k) + 1 + Len(site.rdeps) - 1 /\ site.dest.type = "data"
    BY <1>2, <1>4, <1>6 DEF ValueLaid, Last, ProducerLen
  <2> QED  BY <1>1, <2>1
<1>7. ASSUME site.failAt # NoFail
      PROVE  /\ Last(site) = At(b, k) + Len(site.rdeps) + 2
             /\ site.failAt = At(b, k) + Len(site.rdeps) + 2
             /\ site.dest = Code(site.failAt + 1)
             /\ \E rd \in Regs : b.instrs[site.failAt - 1] = Jalr(rd, site.rprod)
  <2>1. /\ site.failAt = At(b, k) + 1 + Len(site.rdeps) + 1
        /\ site.dest = Code(site.failAt + 1) /\ Last(site) = site.failAt
        /\ \E rd \in Regs : b.instrs[site.failAt - 1] = Jalr(rd, site.rprod)
    BY <1>2, <1>4, <1>7 DEF ValueLaid, Last, ProducerLen
  <2>2. At(b, k) + 1 + Len(site.rdeps) + 1 = At(b, k) + Len(site.rdeps) + 2
    BY <1>1
  <2> QED  BY <2>1, <2>2
<1> QED  BY <1>1, <1>5, <1>6, <1>7 DEF site

LEMMA BranchRange ==
  ASSUME NEW can, NEW b, Planned(b, can), NEW k \in 1 .. NumSites(b),
         b.sites[k].kind \in BranchKinds
  PROVE  /\ b.sites[k].rs1 \in Regs /\ b.sites[k].rs2 \in Regs \cup {ZERO}
         /\ b.sites[k].taken \in BOOLEAN /\ b.sites[k].failAt # NoFail
         /\ Last(b.sites[k]) = b.sites[k].failAt
         /\ b.sites[k].taken => b.sites[k].failAt = At(b, k) + 1
         /\ ~ b.sites[k].taken =>
               b.sites[k].failAt = At(b, k) + 2 /\ b.instrs[At(b, k) + 1] = JalSkip
<1> DEFINE site == b.sites[k]
<1>1. /\ site.rs1 \in Regs /\ site.rs2 \in Regs \cup {ZERO} /\ site.taken \in BOOLEAN
      /\ At(b, k) \in Nat
  BY SiteIn DEF Planned
<1>2. BranchLaid(b, site)
  BY DEF Planned, Laid, SiteLaid
<1>3. site.at = At(b, k)
  BY DEF At
<1> HIDE DEF site
<1>4. site.taken => site.failAt = At(b, k) + 1
  BY <1>2, <1>3 DEF BranchLaid
<1>5. ~ site.taken => site.failAt = At(b, k) + 2 /\ b.instrs[At(b, k) + 1] = JalSkip
  BY <1>2, <1>3 DEF BranchLaid
<1>6. site.failAt # NoFail
  BY <1>1, <1>4, <1>5 DEF NoFail
<1> QED  BY <1>1, <1>4, <1>5, <1>6 DEF site, Last

\* The accumulator of a guard is computed right in front of its branch.
LEMMA GuardRange ==
  ASSUME NEW can, NEW b, Planned(b, can), NEW k \in 1 .. NumSites(b),
         b.sites[k].kind = "guard"
  PROVE  /\ k - 1 \in 1 .. NumSites(b) /\ b.sites[k - 1].kind = "value"
         /\ b.sites[k - 1].dest = Data(ZeroWord)
         /\ b.sites[k - 1].rprod = b.sites[k].rs1
         /\ At(b, k - 1) + Len(b.sites[k - 1].rdeps) + 1 = At(b, k)
<1>1. k > 1 /\ GuardLaid(b.sites[k - 1], b.sites[k]) /\ NumSites(b) \in Nat
  BY SizeType DEF Planned, Laid, SiteLaid
<1>2. k - 1 \in 1 .. NumSites(b)
  BY <1>1
<1>3. b.sites[k - 1].kind = "value"
  BY <1>1 DEF GuardLaid
<1>4. At(b, k - 1) \in Nat /\ Len(b.sites[k - 1].rdeps) \in Nat
  BY <1>2, <1>3, SiteIn DEF Planned
<1>5. At(b, k - 1) + 1 + Len(b.sites[k - 1].rdeps) = At(b, k)
  BY <1>1 DEF GuardLaid, At, ProducerLen
<1>6. At(b, k - 1) + Len(b.sites[k - 1].rdeps) + 1 = At(b, k)
  BY <1>4, <1>5
<1> QED  BY <1>1, <1>2, <1>3, <1>6 DEF GuardLaid

\* A slot of a site is one of the slots of its footprint.
LEMMA RoleInSite ==
  ASSUME NEW can, NEW b, Planned(b, can), NEW k \in 1 .. NumSites(b), NEW i,
         Role(b, k, i), i \in Int
  PROVE  i \in Footprint(b.sites[k]) /\ i \in 1 .. Size(b) /\ InSite(b, i)
<1>1. /\ Size(b) \in Nat /\ At(b, k) \in Nat /\ Last(b.sites[k]) \in Nat
      /\ 1 <= At(b, k) /\ At(b, k) <= Last(b.sites[k]) /\ Last(b.sites[k]) <= Size(b)
      /\ Footprint(b.sites[k]) = At(b, k) .. Last(b.sites[k])
      /\ b.sites[k].failAt # NoFail => Last(b.sites[k]) = b.sites[k].failAt
  BY SiteRange
<1>2. CASE OnHead(b, k, i) \/ OnTurn(b, k, i)
  <2>1. i = At(b, k)
    BY <1>2 DEF OnHead, OnTurn
  <2> QED  BY <1>1, <2>1 DEF InSite
<1>3. CASE OnXor(b, k, i)
  <2>1. /\ i - At(b, k) \in 1 .. Len(b.sites[k].rdeps) /\ Len(b.sites[k].rdeps) \in Nat
        /\ \/ Last(b.sites[k]) = At(b, k) + Len(b.sites[k].rdeps)
           \/ Last(b.sites[k]) = At(b, k) + Len(b.sites[k].rdeps) + 2
    BY <1>3, ValueRange DEF OnXor
  <2>2. i \in At(b, k) .. Last(b.sites[k])
    BY <1>1, <2>1, SMTT(30)
  <2> QED  BY <1>1, <2>2 DEF InSite
<1>4. CASE OnJump(b, k, i)
  <2>1. /\ i = Last(b.sites[k]) - 1 /\ Len(b.sites[k].rdeps) \in Nat
        /\ Last(b.sites[k]) = At(b, k) + Len(b.sites[k].rdeps) + 2
    BY <1>4, ValueRange DEF OnJump
  <2>2. i \in At(b, k) .. Last(b.sites[k])
    BY <1>1, <2>1, SMTT(30)
  <2> QED  BY <1>1, <2>2 DEF InSite
<1>5. CASE OnSkip(b, k, i)
  <2>1. i = At(b, k) + 1 /\ Last(b.sites[k]) = At(b, k) + 2
    BY <1>5, BranchRange DEF OnSkip
  <2>2. i \in At(b, k) .. Last(b.sites[k])
    BY <1>1, <2>1
  <2> QED  BY <1>1, <2>2 DEF InSite
<1>6. CASE OnFail(b, k, i)
  <2>1. i = Last(b.sites[k])
    BY <1>1, <1>6 DEF OnFail
  <2>2. i \in At(b, k) .. Last(b.sites[k])
    BY <1>1, <2>1
  <2> QED  BY <1>1, <2>2 DEF InSite
<1> QED  BY <1>2, <1>3, <1>4, <1>5, <1>6 DEF Role

\* A slot belongs to one site at most.
LEMMA OneOwner ==
  ASSUME NEW can, NEW b, Planned(b, can), NEW k \in 1 .. NumSites(b),
         NEW l \in 1 .. NumSites(b), NEW i,
         i \in Footprint(b.sites[k]), i \in Footprint(b.sites[l])
  PROVE  k = l
<1>1. /\ i \in At(b, k) .. Last(b.sites[k]) /\ i \in At(b, l) .. Last(b.sites[l])
      /\ At(b, k) \in Nat /\ Last(b.sites[k]) \in Nat
      /\ At(b, l) \in Nat /\ Last(b.sites[l]) \in Nat
  BY SiteRange
<1>2. /\ k < l => Last(b.sites[k]) < At(b, l)
      /\ l < k => Last(b.sites[l]) < At(b, k)
  BY DEF Planned, Tiled, Ordered
<1>3. NumSites(b) \in Nat
  BY SizeType DEF Planned
<1> QED  BY <1>1, <1>2, <1>3

\* And it is one part of it.
LEMMA OneRole ==
  ASSUME NEW can, NEW b, Planned(b, can), NEW k \in 1 .. NumSites(b), NEW i \in Int
  PROVE  /\ OnHead(b, k, i) => ~ OnXor(b, k, i) /\ ~ OnJump(b, k, i)
         /\ OnXor(b, k, i) => ~ OnJump(b, k, i)
         /\ OnHead(b, k, i) \/ OnXor(b, k, i) \/ OnJump(b, k, i) =>
               ~ OnTurn(b, k, i) /\ ~ OnSkip(b, k, i) /\ ~ OnFail(b, k, i)
         /\ OnTurn(b, k, i) => ~ OnSkip(b, k, i) /\ ~ OnFail(b, k, i)
         /\ OnSkip(b, k, i) => ~ OnFail(b, k, i)
<1>1. At(b, k) \in Nat /\ b.sites[k].kind \in {"value"} \cup BranchKinds
  BY SiteRange
<1>2. CASE b.sites[k].kind = "value"
  <2> DEFINE n == Len(b.sites[k].rdeps)
             failAt == b.sites[k].failAt
  <2>1. n \in Nat /\ n >= 1 /\ DOMAIN b.sites[k].rdeps = 1 .. n
        /\ (failAt # NoFail => failAt = At(b, k) + n + 2)
    BY <1>2, ValueRange
  <2>2. ~ OnTurn(b, k, i) /\ ~ OnSkip(b, k, i)
    BY <1>2, Kinds DEF OnTurn, OnSkip
  <2>3. /\ OnHead(b, k, i) => i = At(b, k)
        /\ OnXor(b, k, i) => i - At(b, k) \in 1 .. n
        /\ OnJump(b, k, i) => failAt # NoFail /\ i = failAt - 1
        /\ OnFail(b, k, i) => failAt # NoFail /\ i = failAt
    BY <2>1 DEF OnHead, OnXor, OnJump, OnFail
  <2> HIDE DEF n, failAt
  <2> QED  BY <1>1, <2>1, <2>2, <2>3
<1>3. CASE b.sites[k].kind \in BranchKinds
  <2> DEFINE failAt == b.sites[k].failAt
  <2>1. failAt # NoFail /\ (b.sites[k].taken => failAt = At(b, k) + 1)
        /\ (~ b.sites[k].taken => failAt = At(b, k) + 2)
    BY <1>3, BranchRange
  <2>2. ~ OnHead(b, k, i) /\ ~ OnXor(b, k, i) /\ ~ OnJump(b, k, i)
    BY <1>3, Kinds DEF OnHead, OnXor, OnJump
  <2>3. /\ OnTurn(b, k, i) => i = At(b, k)
        /\ OnSkip(b, k, i) => ~ b.sites[k].taken /\ i = At(b, k) + 1
        /\ OnFail(b, k, i) => i = failAt
    BY DEF OnTurn, OnSkip, OnFail
  <2> HIDE DEF failAt
  <2> QED  BY <1>1, <2>1, <2>2, <2>3
<1> QED  BY <1>1, <1>2, <1>3

LEMMA OneSite ==
  ASSUME NEW can, NEW b, Planned(b, can), NEW i \in Int,
         NEW k \in 1 .. NumSites(b), NEW l \in 1 .. NumSites(b),
         Role(b, k, i), Role(b, l, i)
  PROVE  k = l
BY RoleInSite, OneOwner

\* A slot is workload or part of a site.
LEMMA SlotCases ==
  ASSUME NEW can, NEW b, Planned(b, can), NEW i \in 1 .. Size(b)
  PROVE  IF InSite(b, i)
         THEN /\ ~ IsWork(b, i)
              /\ \E k \in 1 .. NumSites(b) : Role(b, k, i) /\ i \in Footprint(b.sites[k])
         ELSE IsWork(b, i)
<1>1. IsWork(b, i) <=> ~ InSite(b, i)
  BY DEF Planned, Tiled, Covered
<1>2. ASSUME InSite(b, i)
      PROVE  \E k \in 1 .. NumSites(b) : Role(b, k, i) /\ i \in Footprint(b.sites[k])
  <2>1. PICK k \in 1 .. NumSites(b) : i \in Footprint(b.sites[k])
    BY <1>2 DEF InSite
  <2>2. /\ i \in At(b, k) .. Last(b.sites[k]) /\ At(b, k) \in Nat
        /\ Last(b.sites[k]) \in Nat
        /\ b.sites[k].kind \in {"value"} \cup BranchKinds
    BY <2>1, SiteRange
  <2>3. CASE b.sites[k].kind = "value"
    <3> DEFINE n == Len(b.sites[k].rdeps)
               failAt == b.sites[k].failAt
    <3>1. /\ n \in Nat /\ n >= 1 /\ DOMAIN b.sites[k].rdeps = 1 .. n
          /\ failAt = NoFail => Last(b.sites[k]) = At(b, k) + n
          /\ failAt # NoFail => /\ failAt = At(b, k) + n + 2
                                /\ Last(b.sites[k]) = At(b, k) + n + 2
      BY <2>3, ValueRange
    <3>2. /\ i = At(b, k) => OnHead(b, k, i)
          /\ i - At(b, k) \in 1 .. n => OnXor(b, k, i)
          /\ failAt # NoFail /\ i = failAt - 1 => OnJump(b, k, i)
          /\ failAt # NoFail /\ i = failAt => OnFail(b, k, i)
      BY <2>3, <3>1 DEF OnHead, OnXor, OnJump, OnFail
    <3> HIDE DEF n, failAt
    <3>3. \/ i = At(b, k) \/ i - At(b, k) \in 1 .. n
          \/ failAt # NoFail /\ i = failAt - 1
          \/ failAt # NoFail /\ i = failAt
      <4>1. CASE failAt = NoFail
        BY <2>2, <3>1, <4>1
      <4>2. CASE failAt # NoFail
        BY <2>2, <3>1, <4>2
      <4> QED  BY <4>1, <4>2
    <3> QED  BY <2>1, <3>2, <3>3 DEF Role
  <2>4. CASE b.sites[k].kind \in BranchKinds
    <3> DEFINE failAt == b.sites[k].failAt
    <3>1. /\ failAt # NoFail /\ Last(b.sites[k]) = failAt
          /\ b.sites[k].taken \in BOOLEAN
          /\ (b.sites[k].taken => failAt = At(b, k) + 1)
          /\ (~ b.sites[k].taken => failAt = At(b, k) + 2)
      BY <2>4, BranchRange
    <3>2. /\ i = At(b, k) => OnTurn(b, k, i)
          /\ ~ b.sites[k].taken /\ i = At(b, k) + 1 => OnSkip(b, k, i)
          /\ i = failAt => OnFail(b, k, i)
      BY <2>4, <3>1 DEF OnTurn, OnSkip, OnFail
    <3> HIDE DEF failAt
    <3>3. i = At(b, k) \/ (~ b.sites[k].taken /\ i = At(b, k) + 1) \/ i = failAt
      BY <2>2, <3>1
    <3> QED  BY <2>1, <3>2, <3>3 DEF Role
  <2> QED  BY <2>2, <2>3, <2>4
<1> QED  BY <1>1, <1>2

--------------------------------------------------------------------------------
(* The path.                                                                 *)

LEMMA FailSlot ==
  ASSUME NEW b, NEW i
  PROVE  i \in FailAts(b) <=> \E k \in 1 .. NumSites(b) : OnFail(b, k, i)
BY DEF FailAts, OnFail

\* In front of a jump to _fail is what jumps over it.
LEMMA BeforeFail ==
  ASSUME NEW can, NEW b, Planned(b, can), NEW k \in 1 .. NumSites(b), NEW i \in Int
  PROVE  OnFail(b, k, i + 1) <=>
            \/ OnJump(b, k, i) \/ OnSkip(b, k, i)
            \/ OnTurn(b, k, i) /\ b.sites[k].taken
<1>1. At(b, k) \in Nat /\ b.sites[k].kind \in {"value"} \cup BranchKinds
  BY SiteRange
<1>2. CASE b.sites[k].kind = "value"
  <2>1. ~ OnTurn(b, k, i) /\ ~ OnSkip(b, k, i)
    BY <1>2, Kinds DEF OnTurn, OnSkip
  <2> DEFINE failAt == b.sites[k].failAt
  <2>2. failAt \in Nat
    BY SiteIn DEF Planned
  <2>3. OnFail(b, k, i + 1) <=> failAt # NoFail /\ i + 1 = failAt
    BY DEF OnFail
  <2>4. OnJump(b, k, i) <=> failAt # NoFail /\ i = failAt - 1
    BY <1>2 DEF OnJump
  <2> HIDE DEF failAt
  <2> QED  BY <2>1, <2>2, <2>3, <2>4
<1>3. CASE b.sites[k].kind \in BranchKinds
  <2>1. ~ OnJump(b, k, i)
    BY <1>3, Kinds DEF OnJump
  <2>2. b.sites[k].failAt # NoFail /\ b.sites[k].taken \in BOOLEAN
        /\ (b.sites[k].taken => b.sites[k].failAt = At(b, k) + 1)
        /\ (~ b.sites[k].taken => b.sites[k].failAt = At(b, k) + 2)
    BY <1>3, BranchRange
  <2>3. CASE b.sites[k].taken
    <3>1. i + 1 = At(b, k) + 1 <=> i = At(b, k)
      BY <1>1
    <3> QED  BY <1>3, <2>1, <2>2, <2>3, <3>1 DEF OnFail, OnSkip, OnTurn
  <2>4. CASE ~ b.sites[k].taken
    <3>1. i + 1 = At(b, k) + 2 <=> i = At(b, k) + 1
      BY <1>1
    <3> QED  BY <1>3, <2>1, <2>2, <2>4, <3>1 DEF OnFail, OnSkip, OnTurn
  <2> QED  BY <2>2, <2>3, <2>4
<1> QED  BY <1>1, <1>2, <1>3

\* Where each kind of slot goes on.
LEMMA AfterIs ==
  ASSUME NEW can, NEW b, Planned(b, can), NEW i \in 1 .. Size(b)
  PROVE  /\ ~ InSite(b, i) => After(b, i) = i + 1
         /\ \A k \in 1 .. NumSites(b) :
               /\ OnHead(b, k, i) \/ OnXor(b, k, i) => After(b, i) = i + 1
               /\ OnJump(b, k, i) \/ OnSkip(b, k, i) => After(b, i) = i + 2
               /\ OnTurn(b, k, i) =>
                     After(b, i) = IF b.sites[k].taken THEN i + 2 ELSE i + 1
<1>0. i \in Int /\ i + 1 \in Int
  BY SizeType DEF Planned
<1>1. i + 1 \in FailAts(b) <=>
         \E k \in 1 .. NumSites(b) : \/ OnJump(b, k, i) \/ OnSkip(b, k, i)
                                     \/ OnTurn(b, k, i) /\ b.sites[k].taken
  BY <1>0, FailSlot, BeforeFail
<1>2. ASSUME ~ InSite(b, i) PROVE After(b, i) = i + 1
  <2>1. ASSUME NEW k \in 1 .. NumSites(b) PROVE ~ Role(b, k, i)
    BY <1>0, <1>2, RoleInSite
  <2> QED  BY <1>1, <2>1 DEF After, Role
<1>3. ASSUME NEW k \in 1 .. NumSites(b)
      PROVE  /\ OnHead(b, k, i) \/ OnXor(b, k, i) => After(b, i) = i + 1
             /\ OnJump(b, k, i) \/ OnSkip(b, k, i) => After(b, i) = i + 2
             /\ OnTurn(b, k, i) =>
                   After(b, i) = IF b.sites[k].taken THEN i + 2 ELSE i + 1
  <2>1. ASSUME NEW l \in 1 .. NumSites(b), Role(b, k, i), Role(b, l, i) PROVE l = k
    BY <1>0, <2>1, OneSite
  <2>2. ASSUME OnHead(b, k, i) \/ OnXor(b, k, i) PROVE After(b, i) = i + 1
    <3>1. ~ OnJump(b, k, i) /\ ~ OnSkip(b, k, i) /\ ~ OnTurn(b, k, i) /\ Role(b, k, i)
      BY <1>0, <2>2, OneRole DEF Role
    <3> QED  BY <1>1, <2>1, <3>1 DEF After, Role
  <2>3. ASSUME OnJump(b, k, i) \/ OnSkip(b, k, i) PROVE After(b, i) = i + 2
    BY <1>1, <2>3 DEF After
  <2>4. ASSUME OnTurn(b, k, i)
        PROVE  After(b, i) = IF b.sites[k].taken THEN i + 2 ELSE i + 1
    <3>1. ~ OnJump(b, k, i) /\ ~ OnSkip(b, k, i) /\ Role(b, k, i)
      BY <1>0, <2>4, OneRole DEF Role
    <3> QED  BY <1>1, <2>1, <2>4, <3>1 DEF After, Role
  <2> QED  BY <2>2, <2>3, <2>4
<1> QED  BY <1>2, <1>3

LEMMA AfterOnPath ==
  ASSUME NEW can, NEW b, Planned(b, can), NEW i \in Path(b)
  PROVE  /\ i \in 1 .. Size(b) /\ i \in Nat /\ Size(b) \in Nat
         /\ After(b, i) \in Path(b) \cup {End(b)} /\ After(b, i) \in Nat
         /\ i < After(b, i)
         /\ \A j \in Path(b) \cup {End(b)} : i < j => After(b, i) <= j
<1>1. Size(b) \in Nat /\ i \in 1 .. Size(b) /\ i \in Int /\ i + 1 \in Int /\ i \in Nat
  BY SizeType DEF Planned, Path
<1>2. CASE i + 1 \notin FailAts(b)
  <2>1. After(b, i) = i + 1
    BY <1>2 DEF After
  <2>2. i + 1 \in Path(b) \cup {End(b)}
    BY <1>1, <1>2 DEF Path, End
  <2>3. \A j \in Path(b) \cup {End(b)} : j \in Nat
    BY <1>1 DEF Path, End
  <2> QED  BY <1>1, <2>1, <2>2, <2>3
<1>3. CASE i + 1 \in FailAts(b)
  <2>1. After(b, i) = i + 2
    BY <1>3 DEF After
  <2>2. PICK k \in 1 .. NumSites(b) : OnFail(b, k, i + 1)
    BY <1>3, FailSlot
  <2>3. i + 1 \in 1 .. Size(b)
    BY <1>1, <2>2, RoleInSite DEF Role
  <2>4. i + 2 \notin FailAts(b)
    <3>1. SUFFICES ASSUME NEW l \in 1 .. NumSites(b), OnFail(b, l, i + 2) PROVE FALSE
      BY FailSlot
    <3>2. i + 1 + 1 = i + 2
      BY <1>1
    <3>3. OnJump(b, l, i + 1) \/ OnSkip(b, l, i + 1) \/ OnTurn(b, l, i + 1)
      BY <1>1, <3>1, <3>2, BeforeFail
    <3>4. l = k
      BY <1>1, <2>2, <3>3, OneSite DEF Role
    <3> QED  BY <1>1, <2>2, <3>3, <3>4, OneRole
  <2>5. i + 2 \in Path(b) \cup {End(b)}
    BY <1>1, <2>3, <2>4 DEF Path, End
  <2>6. \A j \in Path(b) \cup {End(b)} : j \in Nat /\ j # i + 1
    BY <1>1, <1>3, <2>3 DEF Path, End
  <2> QED  BY <1>1, <2>1, <2>5, <2>6
<1> QED  BY <1>2, <1>3

LEMMA PathStart ==
  ASSUME NEW can, NEW b, Planned(b, can)
  PROVE  1 \in Path(b) \cup {End(b)} /\ Path(b) \subseteq Nat
         /\ \A j \in Path(b) \cup {End(b)} : 1 <= j
<1>1. Size(b) \in Nat
  BY SizeType DEF Planned
<1>2. 1 \notin FailAts(b)
  <2> SUFFICES ASSUME NEW l \in 1 .. NumSites(b), OnFail(b, l, 0 + 1) PROVE FALSE
    BY FailSlot
  <2>1. 0 \in Int
    OBVIOUS
  <2>2. Role(b, l, 0)
    BY <2>1, BeforeFail DEF Role
  <2>3. 0 \in 1 .. Size(b)
    BY <2>1, <2>2, RoleInSite
  <2> QED  BY <1>1, <2>3
<1> QED  BY <1>1, <1>2 DEF Path, End

\* A value is being computed only where the slot before is part of its site.
LEMMA ComputingAfter ==
  ASSUME NEW can, NEW b, Planned(b, can), NEW i \in Path(b), NEW k \in 1 .. NumSites(b),
         Computing(b, k, After(b, i))
  PROVE  OnHead(b, k, i) \/ OnXor(b, k, i)
<1>1. i \in 1 .. Size(b) /\ i \in Int /\ Size(b) \in Nat
  BY AfterOnPath
<1>2. /\ b.sites[k].kind = "value" /\ At(b, k) \in Nat
      /\ Len(b.sites[k].rdeps) \in Nat /\ DOMAIN b.sites[k].rdeps = 1 .. Len(b.sites[k].rdeps)
      /\ After(b, i) \in At(b, k) + 1 .. At(b, k) + 1 + Len(b.sites[k].rdeps)
  BY SiteRange, ValueRange DEF Computing, ProducerLen
<1>3. ASSUME NEW j \in Int, j + 1 = After(b, i) PROVE OnHead(b, k, j) \/ OnXor(b, k, j)
  <2>1. j = At(b, k) \/ j - At(b, k) \in 1 .. Len(b.sites[k].rdeps)
    BY <1>2, <1>3
  <2> QED  BY <1>2, <2>1 DEF OnHead, OnXor
<1>4. CASE i + 1 \notin FailAts(b)
  BY <1>1, <1>3, <1>4 DEF After
<1>5. CASE i + 1 \in FailAts(b)
  <2>1. i + 1 \in Int /\ i + 1 + 1 = i + 2
    BY <1>1
  <2>2. OnHead(b, k, i + 1) \/ OnXor(b, k, i + 1)
    BY <1>3, <1>5, <2>1 DEF After
  <2>3. PICK l \in 1 .. NumSites(b) : OnFail(b, l, i + 1)
    BY <1>5, FailSlot
  <2>4. l = k
    BY <2>1, <2>2, <2>3, OneSite DEF Role
  <2> QED  BY <2>1, <2>2, <2>3, <2>4, OneRole
<1> QED  BY <1>4, <1>5

\* A register is half made in the fixup's slot or in that of an exclusive or.
LEMMA ProducingCases ==
  ASSUME NEW can, NEW b, Planned(b, can), NEW i, NEW r, ProducingIn(b, i, r)
  PROVE  /\ i \in 1 .. Size(b)
         /\ \/ b.instrs[i] = Fixup(r) /\ ~ InSite(b, i)
            \/ \E k \in 1 .. NumSites(b) : OnXor(b, k, i) /\ b.sites[k].rprod = r
<1>1. i \in 1 .. Size(b) /\ i \in Int
  BY SizeType DEF ProducingIn, Planned
<1>2. CASE b.instrs[i] = Fixup(r)
  <2>1. IsWork(b, i)
    BY <1>2 DEF IsWork, Fixup
  <2> QED  BY <1>1, <1>2, <2>1 DEF Planned, Tiled, Covered
<1>3. ASSUME NEW k \in 1 .. NumSites(b),
             b.sites[k].kind = "value", b.sites[k].rprod = r,
             i \in At(b, k) + 1 .. At(b, k) + ProducerLen + Len(b.sites[k].rdeps) - 1
      PROVE  OnXor(b, k, i)
  <2>1. /\ Len(b.sites[k].rdeps) \in Nat /\ At(b, k) \in Nat
        /\ DOMAIN b.sites[k].rdeps = 1 .. Len(b.sites[k].rdeps)
    BY <1>3, SiteRange, ValueRange
  <2>2. i - At(b, k) \in 1 .. Len(b.sites[k].rdeps)
    BY <1>1, <1>3, <2>1, SMTT(30) DEF ProducerLen
  <2> QED  BY <1>3, <2>1, <2>2 DEF OnXor
<1> QED  BY <1>1, <1>2, <1>3 DEF ProducingIn

--------------------------------------------------------------------------------
(* Exclusive ors.                                                            *)

LEMMA XorWords ==
  /\ \A a, b \in Word : Xor(a, b) \in Word
  /\ \A a : Truncate(a) \in Word /\ Xor(a, {}) = a /\ Xor({}, a) = a /\ Xor(a, a) = {}
  /\ \A a \in Word : Truncate(a) = a
  /\ \A a, b : Xor(a, b) = {} => a = b
  /\ \A a : \A b \in Word : Truncate(Xor(a, b)) = Xor(Truncate(a), b)
  /\ \A a, b, c : Xor(Xor(a, b), c) = Xor(a, Xor(b, c))
  /\ \A a, b : Xor(a, b) = Xor(b, a)
BY DEF Xor, Truncate, Word

LEMMA XorAllWord == \A f, S : XorAll(f, S) \in Word
BY DEF XorAll, Word

LEMMA XorAllSame ==
  ASSUME NEW f, NEW g, NEW S, \A n \in S : f[n] = g[n]
  PROVE  XorAll(f, S) = XorAll(g, S)
<1>1. \A bit \in Bits : {r \in S : bit \in f[r]} = {r \in S : bit \in g[r]}
  OBVIOUS
<1> QED  BY <1>1 DEF XorAll

LEMMA XorAllZero ==
  ASSUME NEW f, NEW S, \A n \in S : f[n] = {}
  PROVE  XorAll(f, S) = {}
<1>1. ASSUME NEW bit \in Bits PROVE Cardinality({r \in S : bit \in f[r]}) % 2 = 0
  <2>1. {r \in S : bit \in f[r]} = {}
    OBVIOUS
  <2> QED  BY <2>1, FS_EmptySet
<1> QED  BY <1>1 DEF XorAll

\* Adding a word to one of the terms adds it to the sum.
LEMMA XorAllStep ==
  ASSUME NEW S, IsFiniteSet(S), NEW x \in S, NEW f, NEW g, NEW v \in Word,
         g[x] = Xor(f[x], v), \A n \in S \ {x} : g[n] = f[n]
  PROVE  XorAll(g, S) = Xor(XorAll(f, S), v)
<1>1. ASSUME NEW bit \in Bits
      PROVE  bit \in XorAll(g, S) <=> bit \in Xor(XorAll(f, S), v)
  <2> DEFINE A == {r \in S : bit \in f[r]}
             B == {r \in S : bit \in g[r]}
  <2>1. /\ bit \in XorAll(f, S) <=> Cardinality(A) % 2 = 1
        /\ bit \in XorAll(g, S) <=> Cardinality(B) % 2 = 1
    BY DEF XorAll
  <2>2. bit \in g[x] <=> ~ (bit \in f[x] <=> bit \in v)
    BY DEF Xor
  <2>3. bit \in Xor(XorAll(f, S), v) <=> ~ (bit \in XorAll(f, S) <=> bit \in v)
    BY DEF Xor
  <2>4. IsFiniteSet(A) /\ IsFiniteSet(B) /\ Cardinality(A) \in Nat /\ Cardinality(B) \in Nat
    <3>1. A \subseteq S /\ B \subseteq S
      OBVIOUS
    <3> QED  BY <3>1, FS_Subset, FS_CardinalityType
  <2>5. CASE bit \notin v
    <3>1. A = B
      BY <2>2, <2>5
    <3> QED  BY <2>1, <2>3, <2>5, <3>1
  <2>6. CASE bit \in v /\ bit \in f[x]
    <3>1. B = A \ {x} /\ x \in A
      BY <2>2, <2>6
    <3>2. Cardinality(B) = Cardinality(A) - 1
      BY <2>4, <3>1, FS_RemoveElement
    <3> HIDE DEF A, B
    <3>3. Cardinality(B) % 2 = 1 <=> ~ Cardinality(A) % 2 = 1
      BY <2>4, <3>2
    <3> QED  BY <2>1, <2>3, <2>6, <3>3
  <2>7. CASE bit \in v /\ bit \notin f[x]
    <3>1. B = A \cup {x} /\ x \notin A
      BY <2>2, <2>7
    <3>2. Cardinality(B) = Cardinality(A) + 1
      BY <2>4, <3>1, FS_AddElement
    <3> HIDE DEF A, B
    <3>3. Cardinality(B) % 2 = 1 <=> ~ Cardinality(A) % 2 = 1
      BY <2>4, <3>2
    <3> QED  BY <2>1, <2>3, <2>7, <3>3
  <2> QED  BY <2>5, <2>6, <2>7
<1>2. XorAll(g, S) \subseteq Bits /\ Xor(XorAll(f, S), v) \subseteq Bits
  BY XorAllWord, XorWords DEF Word
<1> QED  BY <1>1, <1>2

--------------------------------------------------------------------------------
(* What each kind of slot does, whatever program it is part of.              *)

LEMMA RegFileFacts ==
  ASSUME NEW rf \in RegFile
  PROVE  /\ \A r \in State : rf[r] \in Word
         /\ \A r \in Regs \cup {ZERO} : Val(rf, r) \in Word
         /\ \A r \in Regs : Val(rf, r) = rf[r] /\ r \in State
         /\ Val(rf, ZERO) = {}
         /\ \A r \in State, v \in Word : [rf EXCEPT ![r] = v] \in RegFile
         /\ \A rg \in RegFile : (\A r \in State : rf[r] = rg[r]) => rf = rg
<1>1. ZERO \notin Regs
  BY SiteBuilderAssumption
<1>2. \A rg \in RegFile : (\A r \in State : rf[r] = rg[r]) => rf = rg
  BY DEF RegFile, State
<1> QED  BY <1>1, <1>2 DEF RegFile, State, Val, ZeroWord, Word

LEMMA OneOutcome ==
  ASSUME NEW i, NEW rf, NEW e \in Outcomes(i, rf),
         image[i].op \in {"nop", "skip", "fail", "li", "xor", "branch", "jalr", "fixup"}
  PROVE  e = Effect(i, rf)
<1>1. image[i] \notin WorkInstrs
  BY SiteBuilderAssumption, EntangleAssumption
<1> QED  BY <1>1 DEF Outcomes, Strays

LEMMA RunPlain ==
  ASSUME NEW i, NEW rf \in RegFile, NEW e \in Outcomes(i, rf)
  PROVE  /\ image[i] = Nop => e.pc = i + 1 /\ e.regs = rf
         /\ image[i] = JalSkip => e.pc = i + 2 /\ e.regs = rf
         /\ image[i] = JalFail => e.pc = FAIL /\ e.regs = rf
<1>1. ASSUME image[i] = Nop PROVE e.pc = i + 1 /\ e.regs = rf
  BY <1>1, OneOutcome DEF Nop, Effect
<1>2. ASSUME image[i] = JalSkip PROVE e.pc = i + 2 /\ e.regs = rf
  BY <1>2, OneOutcome DEF JalSkip, Effect
<1>3. ASSUME image[i] = JalFail PROVE e.pc = FAIL /\ e.regs = rf
  BY <1>3, OneOutcome DEF JalFail, Effect
<1> QED  BY <1>1, <1>2, <1>3

LEMMA RunLi ==
  ASSUME NEW i, NEW rf \in RegFile, NEW e \in Outcomes(i, rf),
         NEW rd \in Regs, NEW value, image[i] = Li(rd, value)
  PROVE  /\ e.pc = i + 1 /\ e.regs = [rf EXCEPT ![rd] = Truncate(value)]
         /\ e.regs \in RegFile
<1>1. e.pc = i + 1 /\ e.regs = [rf EXCEPT ![rd] = Truncate(value)]
  BY OneOutcome DEF Li, Effect
<1> QED  BY <1>1, RegFileFacts, XorWords

LEMMA RunXor ==
  ASSUME NEW i, NEW rf \in RegFile, NEW e \in Outcomes(i, rf),
         NEW rd \in Regs, NEW rs \in Regs \cup {ZERO}, image[i] = XorInto(rd, rs)
  PROVE  /\ e.pc = i + 1 /\ e.regs = [rf EXCEPT ![rd] = Xor(rf[rd], Val(rf, rs))]
         /\ e.regs \in RegFile
<1>1. e.pc = i + 1 /\ e.regs = [rf EXCEPT ![rd] = Xor(rf[rd], Val(rf, rs))]
  BY OneOutcome DEF XorInto, Effect
<1> QED  BY <1>1, RegFileFacts, XorWords

LEMMA RunBranch ==
  ASSUME NEW i, NEW rf \in RegFile, NEW e \in Outcomes(i, rf),
         NEW cc, NEW rs1, NEW rs2, image[i] = Branch(cc, rs1, rs2)
  PROVE  /\ e.pc = IF Taken(cc, Val(rf, rs1), Val(rf, rs2)) THEN i + 2 ELSE i + 1
         /\ e.regs = rf
BY OneOutcome DEF Branch, Effect

LEMMA RunJalr ==
  ASSUME NEW i, NEW rf \in RegFile, NEW e \in Outcomes(i, rf),
         NEW rd \in Regs, NEW rs, image[i] = Jalr(rd, rs)
  PROVE  /\ e.pc = JumpTarget(i, rf[rs])
         /\ e.regs = [rf EXCEPT ![rd] = Truncate(CodeAddr[i + 1])]
         /\ e.regs \in RegFile
<1>1. e.pc = JumpTarget(i, rf[rs]) /\ e.regs = [rf EXCEPT ![rd] = Truncate(CodeAddr[i + 1])]
  BY OneOutcome DEF Jalr, Effect
<1> QED  BY <1>1, RegFileFacts, XorWords

\* Slot i is an access of the workload, and its base register is at no data
\* section.
Astray(b, i, rf) ==
    /\ ~ InSite(b, i)
    /\ b.instrs[i] \in WorkInstrs /\ b.instrs[i].base # ZERO
    /\ rf[b.instrs[i].base] \notin Addresses

Lost == {TRAP, WILD}

\* The program is the generated one in the slots of the workload.
LEMMA RunWork ==
  ASSUME NEW can, NEW b, Planned(b, can), NEW i \in 1 .. Size(b), ~ InSite(b, i),
         image[i] = b.instrs[i],
         NEW rf \in RegFile, NEW e \in Outcomes(i, rf)
  PROVE  /\ e.regs \in RegFile
         /\ \/ e.pc = i + 1 /\ Moves(b, i, rf, e.regs)
            \/ e.pc \in Lost /\ Astray(b, i, rf)
<1> DEFINE w == b.instrs[i]
<1>1. w \in SlotType /\ i \in Int
  BY SizeType DEF Planned, BlkType
<1>2. IsWork(b, i)
  BY SlotCases
<1>3. ASSUME NEW k \in 1 .. NumSites(b) PROVE ~ Role(b, k, i)
  BY <1>1, RoleInSite
<1>4. CASE w \in WorkInstrs
  <2>1. /\ w.op \notin {"nop", "skip", "fail", "li", "xor", "branch", "jalr", "fixup"}
        /\ w.rd \in Regs \cup {ZERO}
    BY <1>4, SiteBuilderAssumption, EntangleAssumption
  <2>2. Effect(i, rf) = [pc |-> i + 1, regs |-> Result(w, rf)]
    BY <2>1 DEF Effect
  <2>3. Result(w, rf) \in RegFile
    BY XorWords DEF Result, RegFile
  <2>4. ASSUME w.unstable /\ w.rd # ZERO,
               NEW v \in Noise, e = [Effect(i, rf) EXCEPT !.regs[w.rd] = v]
        PROVE  e.pc = i + 1 /\ Moves(b, i, rf, e.regs) /\ e.regs \in RegFile
    <3>2. e.pc = i + 1 /\ e.regs = [Result(w, rf) EXCEPT ![w.rd] = v]
      BY <2>2, <2>4
    <3>3. v \in Word /\ w.rd \in State
      BY <2>1, <2>4, EntangleAssumption DEF State
    <3>4. e.regs \in RegFile
      BY <2>3, <3>2, <3>3, RegFileFacts
    <3> HIDE DEF w
    <3>5. ASSUME ~ InSite(b, i) PROVE w \in WorkInstrs =>
              IF w.unstable /\ w.rd # ZERO
              THEN \E u \in Noise : e.regs = [Result(w, rf) EXCEPT ![w.rd] = u]
              ELSE e.regs = Result(w, rf)
      BY <2>4, <3>2
    <3> QED  BY <1>3, <2>1, <3>2, <3>4, <3>5 DEF Moves, w, Role
  <2>5. ASSUME ~ (w.unstable /\ w.rd # ZERO), e = Effect(i, rf)
        PROVE  e.pc = i + 1 /\ Moves(b, i, rf, e.regs) /\ e.regs \in RegFile
    <3>1. e = [pc |-> i + 1, regs |-> Result(w, rf)]
      BY <2>2, <2>5
    <3>2. e.pc = i + 1 /\ e.regs = Result(w, rf)
      BY <3>1
    <3> QED  BY <1>3, <2>1, <2>3, <2>5, <3>2 DEF Moves, Role
  <2>6. ASSUME Strays(i, rf), NEW out \in Lost, e = [pc |-> out, regs |-> rf]
        PROVE  e.pc \in Lost /\ Astray(b, i, rf) /\ e.regs \in RegFile
    <3>1. e.pc \in Lost /\ e.regs = rf
      BY <2>6
    <3> QED  BY <2>6, <3>1 DEF Strays, Astray
  <2>7. \/ /\ w.unstable /\ w.rd # ZERO
           /\ \E v \in Noise : e = [Effect(i, rf) EXCEPT !.regs[w.rd] = v]
        \/ ~ (w.unstable /\ w.rd # ZERO) /\ e = Effect(i, rf)
        \/ Strays(i, rf) /\ \E out \in Lost : e = [pc |-> out, regs |-> rf]
    BY <1>4 DEF Outcomes, Lost
  <2> QED  BY <2>4, <2>5, <2>6, <2>7
<1>5. CASE w.op = "fixup"
  <2>1. w \notin WorkInstrs /\ w.rd \in Regs
    BY <1>1, <1>5, SiteBuilderAssumption DEF SlotType, Nop, JalSkip
  <2>2. e = Effect(i, rf)
    BY <1>5, OneOutcome
  <2>3. e.pc = i + 1 /\ e.regs = [rf EXCEPT ![w.rd] = FixupValue]
    BY <1>5, <2>2 DEF Effect
  <2>4. e.regs \in RegFile
    BY <2>1, <2>3, RegFileFacts, EntangleAssumption
  <2> QED  BY <1>3, <2>1, <2>3, <2>4 DEF Moves, Role
<1> QED  BY <1>2, <1>4, <1>5 DEF IsWork

--------------------------------------------------------------------------------
(* The two programs, slot by slot.                                           *)

LEMMA SiteMoves ==
  ASSUME NEW can, NEW b, Planned(b, can), NEW i \in 1 .. Size(b),
         NEW k \in 1 .. NumSites(b), Role(b, k, i), NEW rf, NEW rg,
         OnHead(b, k, i) \/ OnXor(b, k, i) =>
            \A r \in State \ {b.sites[k].rprod} : rg[r] = rf[r],
         OnTurn(b, k, i) \/ OnSkip(b, k, i) => rg = rf,
         OnJump(b, k, i) => rg = [rf EXCEPT ![b.instrs[i].rd] = Truncate(CodeAddr[i + 1])]
  PROVE  Moves(b, i, rf, rg)
<1>1. i \in Int
  BY SizeType DEF Planned
<1>2. InSite(b, i)
  BY <1>1, RoleInSite
<1>3. ASSUME NEW l \in 1 .. NumSites(b), Role(b, l, i) PROVE l = k
  BY <1>1, <1>3, OneSite
<1> QED  BY <1>2, <1>3 DEF Moves, Role

\* The jump of a site comes when its value is complete.
LEMMA JumpSlot ==
  ASSUME NEW can, NEW b, Planned(b, can), NEW i, NEW k \in 1 .. NumSites(b), OnJump(b, k, i)
  PROVE  /\ b.sites[k].kind = "value" /\ Computing(b, k, i)
         /\ i = At(b, k) + Len(b.sites[k].rdeps) + 1
         /\ LinkedValue(b.sites[k]) = CodeAddr[i + 2]
         /\ \E rd \in Regs : b.instrs[i] = Jalr(rd, b.sites[k].rprod)
<1> DEFINE site == b.sites[k]
           failAt == b.sites[k].failAt
           n == Len(b.sites[k].rdeps)
<1>1. /\ site.kind = "value" /\ failAt # NoFail /\ i = failAt - 1
  BY DEF OnJump
<1>2. /\ failAt = At(b, k) + n + 2 /\ n \in Nat /\ site.dest = Code(failAt + 1)
      /\ \E rd \in Regs : b.instrs[failAt - 1] = Jalr(rd, site.rprod)
  BY <1>1, ValueRange
<1>3. At(b, k) \in Nat
  BY SiteRange
<1>4. LinkedValue(site) = CodeAddr[failAt + 1]
  BY <1>2 DEF LinkedValue, Code
<1> HIDE DEF site, n, failAt
<1>5. failAt + 1 = i + 2 /\ i = At(b, k) + n + 1 /\ i \in At(b, k) + 1 .. At(b, k) + 1 + n
  BY <1>1, <1>2, <1>3
<1> QED  BY <1>1, <1>2, <1>4, <1>5 DEF Computing, ProducerLen, site, n

\* The linked value of a jump is an even address.
LEMMA JumpValue ==
  ASSUME NEW can, NEW b, Planned(b, can), Placed(b), NEW i \in 1 .. Size(b),
         NEW k \in 1 .. NumSites(b), OnJump(b, k, i)
  PROVE  /\ Truncate(LinkedValue(b.sites[k])) = CodeAddr[i + 2]
         /\ CodeAddr[i + 2] \ {0} = CodeAddr[i + 2]
         /\ CodeAddr[i + 2] \in Word
<1>1. LinkedValue(b.sites[k]) = CodeAddr[i + 2]
  BY JumpSlot
<1>2. i + 2 \in 1 .. End(b)
  <2>1. Size(b) \in Nat /\ Last(b.sites[k]) <= Size(b)
        /\ Last(b.sites[k]) = b.sites[k].failAt /\ Last(b.sites[k]) \in Nat
    BY SiteRange DEF OnJump
  <2>2. i = b.sites[k].failAt - 1
    BY DEF OnJump
  <2> QED  BY <2>1, <2>2 DEF End
<1>3. i + 2 \in DOMAIN CodeAddr
  BY <1>2 DEF Placed
<1>4. CodeAddr[i + 2] \in Word /\ 0 \notin CodeAddr[i + 2]
  BY <1>3, EntangleAssumption
<1> QED  BY <1>1, <1>4, XorWords

\* It goes on when the register holds the linked value, but for bit 0, or misses.
LEMMA RunJump ==
  ASSUME NEW can, NEW b, Planned(b, can), Placed(b), NEW i \in 1 .. Size(b),
         NEW k \in 1 .. NumSites(b), OnJump(b, k, i), image[i] = b.instrs[i],
         NEW rf \in RegFile, NEW e \in Outcomes(i, rf)
  PROVE  /\ e.pc = IF rf[b.sites[k].rprod] \ {0} = Truncate(LinkedValue(b.sites[k]))
                   THEN After(b, i) ELSE WILD
         /\ e.regs = [rf EXCEPT ![b.instrs[i].rd] = Truncate(CodeAddr[i + 1])]
         /\ e.regs \in RegFile
<1>1. PICK rd \in Regs : b.instrs[i] = Jalr(rd, b.sites[k].rprod)
  BY JumpSlot
<1>2. b.instrs[i].rd = rd
  BY <1>1 DEF Jalr
<1>3. /\ e.pc = JumpTarget(i, rf[b.sites[k].rprod])
      /\ e.regs = [rf EXCEPT ![rd] = Truncate(CodeAddr[i + 1])]
      /\ e.regs \in RegFile
  BY <1>1, RunJalr
<1>4. After(b, i) = i + 2
  BY AfterIs
<1>5. Truncate(LinkedValue(b.sites[k])) = CodeAddr[i + 2]
  BY JumpValue
<1> QED  BY <1>2, <1>3, <1>4, <1>5 DEF JumpTarget

\* The accumulator a guard branches on is complete when its branch is reached.
Accumulated(b, k, i) ==
    /\ k - 1 \in 1 .. NumSites(b) /\ Computing(b, k - 1, i)
    /\ b.sites[k - 1].rprod = b.sites[k].rs1 /\ LinkedValue(b.sites[k - 1]) = {}
    /\ i = At(b, k - 1) + Len(b.sites[k - 1].rdeps) + 1

LEMMA GuardIsReady ==
  ASSUME NEW can, NEW b, Planned(b, can), NEW i,
         NEW k \in 1 .. NumSites(b), OnTurn(b, k, i), b.sites[k].kind = "guard"
  PROVE  Accumulated(b, k, i)
<1>1. /\ k - 1 \in 1 .. NumSites(b) /\ b.sites[k - 1].kind = "value"
      /\ b.sites[k - 1].dest = Data(ZeroWord)
      /\ b.sites[k - 1].rprod = b.sites[k].rs1
      /\ At(b, k - 1) + Len(b.sites[k - 1].rdeps) + 1 = At(b, k)
  BY GuardRange
<1>2. Len(b.sites[k - 1].rdeps) \in Nat /\ At(b, k - 1) \in Nat /\ i = At(b, k)
  BY <1>1, ValueRange, SiteRange DEF OnTurn
<1>3. i \in At(b, k - 1) + 1 .. At(b, k - 1) + 1 + Len(b.sites[k - 1].rdeps)
  BY <1>1, <1>2, SMTT(30)
<1>4. LinkedValue(b.sites[k - 1]) = {}
  BY <1>1 DEF LinkedValue, Data, ZeroWord
<1> QED  BY <1>1, <1>2, <1>3, <1>4 DEF Computing, ProducerLen, Accumulated

\* The branch of a guard goes on when the accumulator is zero.
LEMMA RunGuard ==
  ASSUME NEW can, NEW b, Planned(b, can), NEW i \in 1 .. Size(b),
         NEW k \in 1 .. NumSites(b), OnTurn(b, k, i), b.sites[k].kind = "guard",
         image[i] = GuardBranch(b.sites[k]),
         NEW rf \in RegFile, NEW e \in Outcomes(i, rf)
  PROVE  /\ rf[b.sites[k].rs1] = {} => e.pc = After(b, i)
         /\ rf[b.sites[k].rs1] # {} => e.pc = b.sites[k].failAt
         /\ e.regs = rf
<1> DEFINE site == b.sites[k]
<1>1. site.rs1 \in Regs /\ site.taken \in BOOLEAN
  BY BranchRange DEF BranchKinds
<1>2. i = At(b, k) /\ At(b, k) \in Nat
  BY SiteRange DEF OnTurn
<1>3. Val(rf, site.rs1) = rf[site.rs1] /\ Val(rf, ZERO) = {}
  BY <1>1, RegFileFacts
<1>4. After(b, i) = IF site.taken THEN i + 2 ELSE i + 1
  BY AfterIs
<1>5. /\ site.failAt # NoFail
      /\ site.taken => site.failAt = At(b, k) + 1
      /\ ~ site.taken => site.failAt = At(b, k) + 2
  BY BranchRange DEF BranchKinds
<1> DEFINE cc == IF site.taken THEN "beq" ELSE "bne"
<1>6. image[i] = Branch(cc, site.rs1, ZERO)
  BY DEF GuardBranch
<1>7. IF site.taken THEN Taken(cc, rf[site.rs1], {}) <=> rf[site.rs1] = {}
                    ELSE Taken(cc, rf[site.rs1], {}) <=> rf[site.rs1] # {}
  BY <1>1 DEF Taken
<1> HIDE DEF site, cc
<1>8. /\ e.pc = IF Taken(cc, rf[site.rs1], {}) THEN i + 2 ELSE i + 1
      /\ e.regs = rf
  <2>1. /\ e.pc = IF Taken(cc, Val(rf, site.rs1), Val(rf, ZERO)) THEN i + 2 ELSE i + 1
        /\ e.regs = rf
    BY <1>6, RunBranch
  <2> QED  BY <1>3, <2>1
<1>9. rf[site.rs1] = {} => e.pc = After(b, i)
  BY <1>1, <1>4, <1>7, <1>8
<1>10. rf[site.rs1] # {} => e.pc = site.failAt
  BY <1>1, <1>2, <1>5, <1>7, <1>8
<1> QED  BY <1>8, <1>9, <1>10 DEF site

\* A jump to _fail is in the slot its site says.
LEMMA FailAtIs ==
  ASSUME NEW can, NEW b, Planned(b, can), NEW k \in 1 .. NumSites(b),
         b.sites[k].kind \in BranchKinds
  PROVE  b.sites[k].failAt \in FailAts(b)
BY BranchRange DEF FailAts

\* The slots that are the same in both programs.
LEMMA CommonSlot ==
  ASSUME NEW can, NEW b, Planned(b, can), CommonImage(b, image), NEW i \in Path(b)
  PROVE  /\ i \in 1 .. Size(b) /\ i \in Int
         /\ ~ InSite(b, i) => image[i] = b.instrs[i]
         /\ InSite(b, i) => \E k \in 1 .. NumSites(b) :
               \/ OnHead(b, k, i) \/ OnXor(b, k, i)
               \/ OnJump(b, k, i) /\ image[i] = b.instrs[i]
               \/ OnSkip(b, k, i) /\ image[i] = JalSkip
               \/ OnTurn(b, k, i) /\ b.sites[k].kind = "branch"
               \/ /\ OnTurn(b, k, i) /\ b.sites[k].kind = "guard"
                  /\ image[i] = GuardBranch(b.sites[k])
<1>1. i \in 1 .. Size(b) /\ i \in Int
  BY AfterOnPath
<1>2. ASSUME InSite(b, i)
      PROVE  \E k \in 1 .. NumSites(b) :
               \/ OnHead(b, k, i) \/ OnXor(b, k, i)
               \/ OnJump(b, k, i) /\ image[i] = b.instrs[i]
               \/ OnSkip(b, k, i) /\ image[i] = JalSkip
               \/ OnTurn(b, k, i) /\ b.sites[k].kind = "branch"
               \/ /\ OnTurn(b, k, i) /\ b.sites[k].kind = "guard"
                  /\ image[i] = GuardBranch(b.sites[k])
  <2>1. PICK k \in 1 .. NumSites(b) : Role(b, k, i)
    BY <1>1, <1>2, SlotCases
  <2>2. ~ OnFail(b, k, i)
    BY FailSlot DEF Path
  <2>3. OnTurn(b, k, i) => b.sites[k].kind \in {"branch", "guard"}
    BY DEF OnTurn, BranchKinds
  <2> QED  BY <1>1, <2>1, <2>2, <2>3 DEF Role, CommonImage
<1> QED  BY <1>1, <1>2 DEF CommonImage

--------------------------------------------------------------------------------
(* The draft.                                                                *)

\* In the draft every access has its base register at a data section.
LEMMA DraftBase ==
  ASSUME NEW can, NEW b, Planned(b, can), NEW i \in 1 .. Size(b), NEW rf, NEW tr,
         DraftAt(b, i, rf, tr),
         b.instrs[i] \in WorkInstrs, b.instrs[i].base # ZERO
  PROVE  rf[b.instrs[i].base] \in Addresses
<1> DEFINE base == b.instrs[i].base
<1>1. Based(b, i, base)
  BY DEF Planned, Laid, WorkLaid
<1>2. PICK k \in 1 .. NumSites(b), addr \in Addresses :
         /\ b.sites[k].kind = "value" /\ b.sites[k].rprod = base
         /\ b.sites[k].dest = Data(addr)
         /\ At(b, k) + ProducerLen + Len(b.sites[k].rdeps) = i
  BY <1>1 DEF Based
<1>3. At(b, k) \in Nat /\ Len(b.sites[k].rdeps) \in Nat /\ Len(b.sites[k].rdeps) >= 1
  BY <1>2, SiteRange, ValueRange
<1>4. Computing(b, k, i)
  BY <1>2, <1>3 DEF Computing, ProducerLen
<1>5. LinkedValue(b.sites[k]) = addr
  BY <1>2 DEF LinkedValue, Data
<1>6. rf[base] = Truncate(addr)
  BY <1>2, <1>4, <1>5 DEF DraftAt
<1> QED  BY <1>6, XorWords, EntangleAssumption

\* A slot of the draft goes on along the path and leaves a value site's value.
LEMMA DraftSlot ==
  ASSUME NEW can, NEW b, Planned(b, can), DraftImage(b, image), NEW i \in Path(b),
         NEW rf \in RegFile, NEW tr, DraftAt(b, i, rf, tr), NEW e \in Outcomes(i, rf)
  PROVE  /\ e.pc = After(b, i) /\ e.regs \in RegFile /\ Moves(b, i, rf, e.regs)
         /\ \A k \in 1 .. NumSites(b) :
               /\ OnHead(b, k, i) =>
                     e.regs[b.sites[k].rprod] = Truncate(LinkedValue(b.sites[k]))
               /\ OnXor(b, k, i) => e.regs = rf
<1>1. CommonImage(b, image)
  BY DEF DraftImage
<1>2. i \in 1 .. Size(b) /\ i \in Int
  BY <1>1, CommonSlot
<1>3. CASE ~ InSite(b, i)
  <2>1. image[i] = b.instrs[i]
    BY <1>1, <1>3, CommonSlot
  <2>2. ASSUME NEW k \in 1 .. NumSites(b) PROVE ~ OnHead(b, k, i) /\ ~ OnXor(b, k, i)
    BY <1>2, <1>3, RoleInSite DEF Role
  <2>3. After(b, i) = i + 1
    BY <1>2, <1>3, AfterIs
  <2>4. ~ Astray(b, i, rf)
    BY <1>2, DraftBase DEF Astray
  <2>5. e.pc = i + 1 /\ Moves(b, i, rf, e.regs) /\ e.regs \in RegFile
    BY <1>2, <1>3, <2>1, <2>4, RunWork
  <2> QED  BY <2>2, <2>3, <2>5
<1>4. ASSUME NEW k \in 1 .. NumSites(b), OnHead(b, k, i)
      PROVE  /\ e.pc = After(b, i) /\ e.regs \in RegFile /\ Moves(b, i, rf, e.regs)
             /\ e.regs[b.sites[k].rprod] = Truncate(LinkedValue(b.sites[k]))
  <2> DEFINE rprod == b.sites[k].rprod
             value == LinkedValue(b.sites[k])
  <2>1. image[i] = Li(rprod, Xor(value, ZeroWord)) /\ rprod \in Regs
    BY <1>2, <1>4, ValueRange DEF DraftImage, OnHead
  <2>2. Xor(value, ZeroWord) = value
    BY XorWords DEF ZeroWord
  <2> HIDE DEF rprod, value
  <2>3. e.pc = i + 1 /\ e.regs = [rf EXCEPT ![rprod] = Truncate(value)] /\ e.regs \in RegFile
    BY <2>1, <2>2, RunLi
  <2>4. e.regs[rprod] = Truncate(value) /\ \A r \in State \ {rprod} : e.regs[r] = rf[r]
    BY <2>1, <2>3 DEF State, RegFile
  <2>5. After(b, i) = i + 1 /\ Role(b, k, i)
    BY <1>2, <1>4, AfterIs DEF Role
  <2>6. ~ OnJump(b, k, i) /\ ~ OnTurn(b, k, i) /\ ~ OnSkip(b, k, i)
    BY <1>2, <1>4, OneRole
  <2>7. Moves(b, i, rf, e.regs)
    BY <1>2, <2>4, <2>5, <2>6, SiteMoves DEF rprod
  <2> QED  BY <2>3, <2>4, <2>5, <2>7 DEF rprod, value
<1>5. ASSUME NEW k \in 1 .. NumSites(b), OnXor(b, k, i)
      PROVE  e.pc = After(b, i) /\ e.regs = rf /\ Moves(b, i, rf, e.regs)
  <2> DEFINE rprod == b.sites[k].rprod
  <2>1. image[i] = XorInto(rprod, ZERO) /\ rprod \in Regs
    BY <1>2, <1>5, ValueRange DEF DraftImage, OnXor
  <2>2. e.pc = i + 1 /\ e.regs = [rf EXCEPT ![rprod] = Xor(rf[rprod], Val(rf, ZERO))]
    BY <2>1, RunXor
  <2>3. Val(rf, ZERO) = {} /\ Xor(rf[rprod], {}) = rf[rprod] /\ rprod \in State
    BY <2>1, RegFileFacts, XorWords
  <2>4. e.regs = rf
    BY <2>2, <2>3 DEF State, RegFile
  <2>5. After(b, i) = i + 1 /\ Role(b, k, i)
    BY <1>2, <1>5, AfterIs DEF Role
  <2>6. ~ OnJump(b, k, i) /\ ~ OnTurn(b, k, i) /\ ~ OnSkip(b, k, i)
    BY <1>2, <1>5, OneRole
  <2>7. Moves(b, i, rf, e.regs)
    BY <1>2, <2>4, <2>5, <2>6, SiteMoves
  <2> QED  BY <2>2, <2>4, <2>5, <2>7
<1>6. ASSUME NEW k \in 1 .. NumSites(b), OnJump(b, k, i), image[i] = b.instrs[i]
      PROVE  e.pc = After(b, i) /\ e.regs \in RegFile /\ Moves(b, i, rf, e.regs)
  <2>1. /\ e.pc = IF rf[b.sites[k].rprod] \ {0} = Truncate(LinkedValue(b.sites[k]))
                  THEN After(b, i) ELSE WILD
        /\ e.regs = [rf EXCEPT ![b.instrs[i].rd] = Truncate(CodeAddr[i + 1])]
        /\ e.regs \in RegFile
    BY <1>1, <1>2, <1>6, RunJump DEF CommonImage
  <2>2. rf[b.sites[k].rprod] \ {0} = Truncate(LinkedValue(b.sites[k]))
    <3>1. rf[b.sites[k].rprod] = Truncate(LinkedValue(b.sites[k]))
      BY <1>6, JumpSlot DEF DraftAt
    <3>2. Placed(b)
      BY <1>1 DEF CommonImage
    <3> QED  BY <1>2, <1>6, <3>1, <3>2, JumpValue
  <2>3. /\ ~ OnHead(b, k, i) /\ ~ OnXor(b, k, i) /\ ~ OnTurn(b, k, i)
        /\ ~ OnSkip(b, k, i) /\ Role(b, k, i)
    BY <1>2, <1>6, OneRole DEF Role
  <2>4. Moves(b, i, rf, e.regs)
    BY <1>2, <2>1, <2>3, SiteMoves
  <2> QED  BY <2>1, <2>2, <2>4
<1>7. ASSUME NEW k \in 1 .. NumSites(b), OnSkip(b, k, i) \/ OnTurn(b, k, i), e.regs = rf
      PROVE  Moves(b, i, rf, e.regs)
  <2>1. ~ OnHead(b, k, i) /\ ~ OnXor(b, k, i) /\ ~ OnJump(b, k, i) /\ Role(b, k, i)
    BY <1>2, <1>7, OneRole DEF Role
  <2> QED  BY <1>2, <1>7, <2>1, SiteMoves
<1>8. ASSUME NEW k \in 1 .. NumSites(b), OnSkip(b, k, i), image[i] = JalSkip
      PROVE  e.pc = After(b, i) /\ e.regs = rf
  <2>1. After(b, i) = i + 2
    BY <1>2, <1>8, AfterIs
  <2> QED  BY <1>8, <2>1, RunPlain
<1>9. ASSUME NEW k \in 1 .. NumSites(b), OnTurn(b, k, i), b.sites[k].kind = "branch"
      PROVE  e.pc = After(b, i) /\ e.regs = rf
  <2>1. After(b, i) = IF b.sites[k].taken THEN i + 2 ELSE i + 1
    BY <1>2, <1>9, AfterIs
  <2>2. image[i] = IF b.sites[k].taken THEN JalSkip ELSE Nop
    BY <1>2, <1>9 DEF DraftImage
  <2> QED  BY <2>1, <2>2, RunPlain
<1>10. ASSUME NEW k \in 1 .. NumSites(b), OnTurn(b, k, i), b.sites[k].kind = "guard",
              image[i] = GuardBranch(b.sites[k])
       PROVE  e.pc = After(b, i) /\ e.regs = rf
  <2>1. /\ rf[b.sites[k].rs1] = {} => e.pc = After(b, i)
        /\ e.regs = rf
    BY <1>2, <1>10, RunGuard
  <2>2. /\ k - 1 \in 1 .. NumSites(b) /\ Computing(b, k - 1, i)
        /\ b.sites[k - 1].rprod = b.sites[k].rs1 /\ LinkedValue(b.sites[k - 1]) = {}
    BY <1>10, GuardIsReady DEF Accumulated
  <2>3. rf[b.sites[k].rs1] = Truncate({})
    BY <2>2 DEF DraftAt
  <2>4. Truncate({}) = {}
    BY DEF Truncate
  <2> QED  BY <2>1, <2>3, <2>4
<1>11. ASSUME InSite(b, i)
       PROVE  /\ e.pc = After(b, i) /\ e.regs \in RegFile /\ Moves(b, i, rf, e.regs)
              /\ \A k \in 1 .. NumSites(b) :
                    /\ OnHead(b, k, i) =>
                          e.regs[b.sites[k].rprod] = Truncate(LinkedValue(b.sites[k]))
                    /\ OnXor(b, k, i) => e.regs = rf
  <2>1. PICK k \in 1 .. NumSites(b) :
               \/ OnHead(b, k, i) \/ OnXor(b, k, i)
               \/ OnJump(b, k, i) /\ image[i] = b.instrs[i]
               \/ OnSkip(b, k, i) /\ image[i] = JalSkip
               \/ OnTurn(b, k, i) /\ b.sites[k].kind = "branch"
               \/ /\ OnTurn(b, k, i) /\ b.sites[k].kind = "guard"
                  /\ image[i] = GuardBranch(b.sites[k])
    BY <1>1, <1>11, CommonSlot
  <2> QED  BY <1>4, <1>5, <1>6, <1>7, <1>8, <1>9, <1>10, <2>1
<1> QED  BY <1>3, <1>11

\* Where the probe of a site is, or, of a guard, would be.
LEMMA ProbeSlot ==
  ASSUME NEW can, NEW b, Planned(b, can), NEW k \in 1 .. NumSites(b)
  PROVE  /\ ProbeIndex(b.sites[k]) \in Path(b) /\ ProbeIndex(b.sites[k]) \in Nat
         /\ ProbeIndex(b.sites[k]) \in Footprint(b.sites[k])
         /\ b.sites[k].kind = "value" =>
               ProbeIndex(b.sites[k]) = At(b, k) + 1 /\ OnXor(b, k, At(b, k) + 1)
         /\ b.sites[k].kind \in BranchKinds =>
               ProbeIndex(b.sites[k]) = At(b, k) /\ OnTurn(b, k, At(b, k))
<1>1. /\ At(b, k) \in Nat /\ b.sites[k].at = At(b, k)
      /\ b.sites[k].kind \in {"value"} \cup BranchKinds
  BY SiteRange
<1>2. ASSUME b.sites[k].kind = "value"
      PROVE  ProbeIndex(b.sites[k]) = At(b, k) + 1 /\ OnXor(b, k, At(b, k) + 1)
  <2>1. /\ Len(b.sites[k].rdeps) \in Nat /\ Len(b.sites[k].rdeps) >= 1
        /\ DOMAIN b.sites[k].rdeps = 1 .. Len(b.sites[k].rdeps)
    BY <1>2, ValueRange
  <2>2. At(b, k) + 1 - At(b, k) \in 1 .. Len(b.sites[k].rdeps)
    BY <1>1, <2>1
  <2> QED  BY <1>1, <1>2, <2>1, <2>2 DEF ProbeIndex, ProducerLen, OnXor
<1>3. ASSUME b.sites[k].kind \in BranchKinds
      PROVE  ProbeIndex(b.sites[k]) = At(b, k) /\ OnTurn(b, k, At(b, k))
  BY <1>1, <1>3, Kinds DEF ProbeIndex, OnTurn
<1>4. ASSUME NEW i \in Nat, OnXor(b, k, i) \/ OnTurn(b, k, i)
      PROVE  i \in Path(b) /\ i \in Footprint(b.sites[k])
  <2>1. i \in 1 .. Size(b) /\ i \in Footprint(b.sites[k])
    BY <1>4, RoleInSite DEF Role
  <2>2. i \notin FailAts(b)
    <3> SUFFICES ASSUME NEW l \in 1 .. NumSites(b), OnFail(b, l, i) PROVE FALSE
      BY FailSlot
    <3>1. i \in Int /\ l = k
      BY <1>4, OneSite DEF Role
    <3> QED  BY <1>4, <3>1, OneRole
  <2> QED  BY <2>1, <2>2 DEF Path
<1>5. At(b, k) + 1 \in Nat
  BY <1>1
<1> QED  BY <1>1, <1>2, <1>3, <1>4, <1>5

Grown(tr, i, rf) == [j \in DOMAIN tr \cup {i} |-> IF j = i THEN rf ELSE tr[j]]

LEMMA DraftNext ==
  ASSUME NEW can, NEW b, Planned(b, can), DraftImage(b, image), NEW i \in Path(b),
         NEW rf \in RegFile, NEW tr, DraftAt(b, i, rf, tr), NEW e \in Outcomes(i, rf),
         DOMAIN tr = Before(b, i)
  PROVE  DraftAt(b, After(b, i), e.regs, Grown(tr, i, rf))
<1> DEFINE tr2 == Grown(tr, i, rf)
<1>1. SUFFICES ASSUME NEW k \in 1 .. NumSites(b), Computing(b, k, After(b, i))
               PROVE  /\ e.regs[b.sites[k].rprod] = Truncate(LinkedValue(b.sites[k]))
                      /\ After(b, i) > b.sites[k].at + ProducerLen =>
                            \A r \in State \ {b.sites[k].rprod} :
                               e.regs[r] = tr2[b.sites[k].at + ProducerLen][r]
  BY DEF DraftAt
<1>2. i \in 1 .. Size(b) /\ i \in Int /\ Size(b) \in Nat
  BY AfterOnPath
<1>3. After(b, i) = i + 1 /\ (OnHead(b, k, i) \/ OnXor(b, k, i))
  BY <1>1, <1>2, ComputingAfter, AfterIs
<1>4. b.sites[k].kind = "value" /\ b.sites[k].at = At(b, k) /\ At(b, k) \in Nat
  BY <1>1, SiteRange DEF Computing
<1>5. CASE OnHead(b, k, i)
  <2>1. i = At(b, k) /\ e.regs[b.sites[k].rprod] = Truncate(LinkedValue(b.sites[k]))
    BY <1>5, DraftSlot DEF OnHead
  <2>2. ~ (After(b, i) > b.sites[k].at + ProducerLen)
    BY <1>2, <1>3, <1>4, <2>1 DEF ProducerLen
  <2> QED  BY <2>1, <2>2
<1>6. CASE OnXor(b, k, i)
  <2>1. e.regs = rf
    BY <1>6, DraftSlot
  <2>2. /\ Len(b.sites[k].rdeps) \in Nat /\ DOMAIN b.sites[k].rdeps = 1 .. Len(b.sites[k].rdeps)
    BY <1>4, ValueRange
  <2>3. i - At(b, k) \in 1 .. Len(b.sites[k].rdeps)
    BY <1>6, <2>2 DEF OnXor
  <2>4. i \in At(b, k) + 1 .. At(b, k) + 1 + Len(b.sites[k].rdeps) /\ i >= At(b, k) + 1
    BY <1>2, <1>4, <2>2, <2>3
  <2>5. Computing(b, k, i)
    BY <1>4, <2>4 DEF Computing, ProducerLen
  <2>6. /\ rf[b.sites[k].rprod] = Truncate(LinkedValue(b.sites[k]))
        /\ i > At(b, k) + 1 =>
              \A r \in State \ {b.sites[k].rprod} : rf[r] = tr[At(b, k) + 1][r]
    BY <1>4, <2>5 DEF DraftAt, ProducerLen
  <2>7. At(b, k) + 1 \in Path(b)
    BY <1>4, ProbeSlot
  <2>8. CASE i = At(b, k) + 1
    <3>1. tr2[At(b, k) + 1] = rf
      BY <2>8 DEF Grown
    <3> QED  BY <1>4, <2>1, <2>6, <3>1 DEF ProducerLen
  <2>9. CASE i > At(b, k) + 1
    <3>1. At(b, k) + 1 \in DOMAIN tr
      BY <1>2, <1>4, <2>7, <2>9 DEF Before
    <3>2. tr2[At(b, k) + 1] = tr[At(b, k) + 1]
      BY <1>2, <1>4, <2>9, <3>1 DEF Grown
    <3> QED  BY <1>4, <2>1, <2>6, <2>9, <3>2 DEF ProducerLen
  <2> QED  BY <1>2, <1>4, <2>4, <2>8, <2>9
<1> QED  BY <1>3, <1>5, <1>6

--------------------------------------------------------------------------------
(* The final program.                                                        *)

\* How SumAt changes at the slots of its value site.
SumMoves(b, k, i, rf, rg, tr) ==
    LET site == b.sites[k]
    IN  /\ OnHead(b, k, i) =>
              rg[site.rprod] = Xor(Truncate(LinkedValue(site)), DepSum(site, tr))
        /\ OnXor(b, k, i) =>
              rg[site.rprod] = Xor(rf[site.rprod], rf[site.rdeps[i - At(b, k)]])

\* The wrong turns slot i can take, what is wrong then, and where they lead.
WrongJump(b, k, i, rf, out) ==
    /\ OnJump(b, k, i) /\ out = WILD
    /\ rf[b.sites[k].rprod] \ {0} # Truncate(LinkedValue(b.sites[k]))

WrongGuard(b, k, i, rf, out) ==
    /\ OnTurn(b, k, i) /\ b.sites[k].kind = "guard" /\ out = b.sites[k].failAt
    /\ rf[b.sites[k].rs1] # {}

WrongBranch(b, k, i, rf, tf, out) ==
    /\ OnTurn(b, k, i) /\ b.sites[k].kind = "branch" /\ out = b.sites[k].failAt
    /\ \E r \in {b.sites[k].rs1, b.sites[k].rs2} : Val(rf, r) # Val(tf, r)

WrongTurn(b, i, rf, tf, out) ==
    \/ Astray(b, i, rf) /\ out \in Lost
    \/ \E k \in 1 .. NumSites(b) :
          \/ WrongJump(b, k, i, rf, out)
          \/ WrongGuard(b, k, i, rf, out)
          \/ WrongBranch(b, k, i, rf, tf, out)

LEMMA WrongTurnLeads ==
  ASSUME NEW can, NEW b, Planned(b, can), NEW i, NEW rf, NEW tf, NEW out,
         WrongTurn(b, i, rf, tf, out)
  PROVE  out \in Lost \cup FailAts(b)
<1>1. ASSUME NEW k \in 1 .. NumSites(b),
             WrongGuard(b, k, i, rf, out) \/ WrongBranch(b, k, i, rf, tf, out)
      PROVE  out \in FailAts(b)
  BY <1>1, FailAtIs DEF WrongGuard, WrongBranch, OnTurn
<1> QED  BY <1>1 DEF WrongTurn, WrongJump, Lost

\* A slot of the final program goes on along the path unless it is one of the
\* turns it can take wrong.
LEMMA FinalSlot ==
  ASSUME NEW can, NEW b, Planned(b, can), NEW tr, FinalImage(b, image, tr),
         NEW i \in Path(b), NEW rf \in RegFile, NEW e \in Outcomes(i, rf)
  PROVE  /\ e.regs \in RegFile
         /\ e.pc = After(b, i) => Moves(b, i, rf, e.regs)
         /\ e.pc = After(b, i) \/ WrongTurn(b, i, rf, tr[i], e.pc)
         /\ \A k \in 1 .. NumSites(b) : SumMoves(b, k, i, rf, e.regs, tr)
<1> DEFINE Goes == e.pc = After(b, i) \/ WrongTurn(b, i, rf, tr[i], e.pc)
           Sums == \A k \in 1 .. NumSites(b) : SumMoves(b, k, i, rf, e.regs, tr)
           Changes == e.regs \in RegFile /\ Moves(b, i, rf, e.regs)
           Part == /\ e.regs \in RegFile /\ Goes /\ Sums
                   /\ e.pc = After(b, i) => Moves(b, i, rf, e.regs)
<1>1. CommonImage(b, image)
  BY DEF FinalImage
<1>2. i \in 1 .. Size(b) /\ i \in Int
  BY <1>1, CommonSlot
<1>3. ASSUME ~ InSite(b, i) PROVE Part
  <2>1. image[i] = b.instrs[i]
    BY <1>1, <1>3, CommonSlot
  <2>2. ASSUME NEW k \in 1 .. NumSites(b) PROVE ~ OnHead(b, k, i) /\ ~ OnXor(b, k, i)
    BY <1>2, <1>3, RoleInSite DEF Role
  <2>3. After(b, i) = i + 1
    BY <1>2, <1>3, AfterIs
  <2>4. Sums
    BY <2>2 DEF SumMoves
  <2>5. /\ e.regs \in RegFile
        /\ \/ e.pc = i + 1 /\ Moves(b, i, rf, e.regs)
           \/ e.pc \in Lost /\ Astray(b, i, rf)
    BY <1>2, <1>3, <2>1, RunWork
  <2>6. i + 1 \notin Lost
    BY <1>2, EntangleAssumption DEF Lost
  <2> HIDE DEF Sums
  <2> QED  BY <2>3, <2>4, <2>5, <2>6 DEF WrongTurn
<1>4. ASSUME NEW k \in 1 .. NumSites(b), OnHead(b, k, i) \/ OnXor(b, k, i),
             SumMoves(b, k, i, rf, e.regs, tr)
      PROVE  Sums
  <2>1. ASSUME NEW l \in 1 .. NumSites(b), OnHead(b, l, i) \/ OnXor(b, l, i) PROVE l = k
    BY <1>2, <1>4, <2>1, OneSite DEF Role
  <2> QED  BY <1>4, <2>1 DEF SumMoves
<1>5. ASSUME NEW k \in 1 .. NumSites(b), OnHead(b, k, i)
      PROVE  e.pc = After(b, i) /\ Changes /\ Sums
  <2> DEFINE site == b.sites[k]
             rprod == b.sites[k].rprod
             value == Xor(LinkedValue(site), DepSum(site, tr))
  <2>1. image[i] = Li(rprod, value) /\ rprod \in Regs
    BY <1>2, <1>5, ValueRange DEF FinalImage, OnHead
  <2>2. Truncate(value) = Xor(Truncate(LinkedValue(site)), DepSum(site, tr))
    <3>1. DepSum(site, tr) \in Word
      BY XorAllWord DEF DepSum
    <3> QED  BY <3>1, XorWords
  <2> HIDE DEF value
  <2>3. e.pc = i + 1 /\ e.regs = [rf EXCEPT ![rprod] = Truncate(value)] /\ e.regs \in RegFile
    BY <2>1, RunLi
  <2>4. e.regs[rprod] = Truncate(value) /\ \A r \in State \ {rprod} : e.regs[r] = rf[r]
    BY <2>1, <2>3 DEF State, RegFile
  <2>5. After(b, i) = i + 1 /\ Role(b, k, i)
    BY <1>2, <1>5, AfterIs DEF Role
  <2>6. ~ OnXor(b, k, i) /\ ~ OnJump(b, k, i) /\ ~ OnTurn(b, k, i) /\ ~ OnSkip(b, k, i)
    BY <1>2, <1>5, OneRole
  <2>7. Moves(b, i, rf, e.regs)
    BY <1>2, <2>4, <2>5, <2>6, SiteMoves
  <2>8. SumMoves(b, k, i, rf, e.regs, tr)
    BY <2>2, <2>4, <2>6 DEF SumMoves
  <2> QED  BY <1>4, <1>5, <2>3, <2>5, <2>7, <2>8
<1>6. ASSUME NEW k \in 1 .. NumSites(b), OnXor(b, k, i)
      PROVE  e.pc = After(b, i) /\ Changes /\ Sums
  <2> DEFINE rprod == b.sites[k].rprod
             dep == b.sites[k].rdeps[i - At(b, k)]
  <2>1. image[i] = XorInto(rprod, dep)
    BY <1>2, <1>6 DEF FinalImage, At
  <2>2. rprod \in Regs /\ dep \in Regs
    BY <1>6, ValueRange DEF OnXor
  <2> HIDE DEF dep
  <2>3. /\ e.pc = i + 1 /\ e.regs = [rf EXCEPT ![rprod] = Xor(rf[rprod], Val(rf, dep))]
        /\ e.regs \in RegFile
    BY <2>1, <2>2, RunXor
  <2>4. Val(rf, dep) = rf[dep]
    BY <2>2, RegFileFacts
  <2>5. /\ e.regs[rprod] = Xor(rf[rprod], rf[dep])
        /\ \A r \in State \ {rprod} : e.regs[r] = rf[r]
    BY <2>2, <2>3, <2>4 DEF State, RegFile
  <2>6. After(b, i) = i + 1 /\ Role(b, k, i)
    BY <1>2, <1>6, AfterIs DEF Role
  <2>7. ~ OnHead(b, k, i) /\ ~ OnJump(b, k, i) /\ ~ OnTurn(b, k, i) /\ ~ OnSkip(b, k, i)
    BY <1>2, <1>6, OneRole
  <2>8. Moves(b, i, rf, e.regs)
    BY <1>2, <2>5, <2>6, <2>7, SiteMoves
  <2>9. SumMoves(b, k, i, rf, e.regs, tr)
    BY <2>5, <2>7 DEF SumMoves, dep
  <2> QED  BY <1>4, <1>6, <2>3, <2>6, <2>8, <2>9
<1>7. ASSUME NEW k \in 1 .. NumSites(b), OnJump(b, k, i) \/ OnSkip(b, k, i) \/ OnTurn(b, k, i)
      PROVE  Sums
  <2>1. ~ OnHead(b, k, i) /\ ~ OnXor(b, k, i) /\ Role(b, k, i)
    BY <1>2, <1>7, OneRole DEF Role
  <2>2. ASSUME NEW l \in 1 .. NumSites(b) PROVE ~ OnHead(b, l, i) /\ ~ OnXor(b, l, i)
    BY <1>2, <2>1, OneSite DEF Role
  <2> QED  BY <2>2 DEF SumMoves
<1>8. ASSUME NEW k \in 1 .. NumSites(b), OnJump(b, k, i), image[i] = b.instrs[i]
      PROVE  Goes /\ Changes
  <2>1. /\ e.pc = IF rf[b.sites[k].rprod] \ {0} = Truncate(LinkedValue(b.sites[k]))
                  THEN After(b, i) ELSE WILD
        /\ e.regs = [rf EXCEPT ![b.instrs[i].rd] = Truncate(CodeAddr[i + 1])]
        /\ e.regs \in RegFile
    BY <1>1, <1>2, <1>8, RunJump DEF CommonImage
  <2>2. /\ ~ OnHead(b, k, i) /\ ~ OnXor(b, k, i) /\ ~ OnTurn(b, k, i)
        /\ ~ OnSkip(b, k, i) /\ Role(b, k, i)
    BY <1>2, <1>8, OneRole DEF Role
  <2>3. Moves(b, i, rf, e.regs)
    BY <1>2, <2>1, <2>2, SiteMoves
  <2>4. Goes
    BY <1>8, <2>1 DEF WrongTurn, WrongJump
  <2> QED  BY <2>1, <2>3, <2>4
<1>9. ASSUME NEW k \in 1 .. NumSites(b), OnSkip(b, k, i) \/ OnTurn(b, k, i), e.regs = rf
      PROVE  Changes
  <2>1. ~ OnHead(b, k, i) /\ ~ OnXor(b, k, i) /\ ~ OnJump(b, k, i) /\ Role(b, k, i)
    BY <1>2, <1>9, OneRole DEF Role
  <2> QED  BY <1>2, <1>9, <2>1, SiteMoves
<1>10. ASSUME NEW k \in 1 .. NumSites(b), OnSkip(b, k, i), image[i] = JalSkip
       PROVE  e.pc = After(b, i) /\ e.regs = rf
  <2>1. After(b, i) = i + 2
    BY <1>2, <1>10, AfterIs
  <2> QED  BY <1>10, <2>1, RunPlain
<1>11. ASSUME NEW k \in 1 .. NumSites(b), OnTurn(b, k, i), b.sites[k].kind = "branch"
       PROVE  Goes /\ e.regs = rf
  <2> DEFINE site == b.sites[k]
             rs1 == b.sites[k].rs1
             rs2 == b.sites[k].rs2
  <2>1. After(b, i) = IF site.taken THEN i + 2 ELSE i + 1
    BY <1>2, <1>11, AfterIs
  <2>2. PICK cc \in AllBranches :
           /\ image[i] = Branch(cc, rs1, rs2)
           /\ Taken(cc, Val(tr[i], rs1), Val(tr[i], rs2)) <=> site.taken
    BY <1>2, <1>11 DEF FinalImage
  <2>3. /\ site.taken \in BOOLEAN /\ site.failAt # NoFail
        /\ (site.taken => site.failAt = At(b, k) + 1)
        /\ (~ site.taken => site.failAt = At(b, k) + 2)
        /\ i = At(b, k)
    BY <1>11, BranchRange, Kinds DEF OnTurn
  <2> HIDE DEF rs1, rs2
  <2>4. /\ e.pc = IF Taken(cc, Val(rf, rs1), Val(rf, rs2)) THEN i + 2 ELSE i + 1
        /\ e.regs = rf
    BY <2>2, RunBranch
  <2>5. CASE Taken(cc, Val(rf, rs1), Val(rf, rs2)) <=> site.taken
    <3>1. e.pc = After(b, i)
      BY <2>1, <2>3, <2>4, <2>5
    <3> QED  BY <2>4, <3>1
  <2>6. CASE ~ (Taken(cc, Val(rf, rs1), Val(rf, rs2)) <=> site.taken)
    <3>1. \E r \in {rs1, rs2} : Val(rf, r) # Val(tr[i], r)
      BY <2>2, <2>6
    <3>2. e.pc = site.failAt
      BY <2>3, <2>4, <2>6
    <3>3. WrongBranch(b, k, i, rf, tr[i], e.pc)
      BY <1>11, <3>1, <3>2 DEF WrongBranch, rs1, rs2
    <3> QED  BY <2>4, <3>3 DEF WrongTurn
  <2> QED  BY <2>5, <2>6
<1>12. ASSUME NEW k \in 1 .. NumSites(b), OnTurn(b, k, i), b.sites[k].kind = "guard",
              image[i] = GuardBranch(b.sites[k])
       PROVE  Goes /\ e.regs = rf
  <2>1. /\ rf[b.sites[k].rs1] = {} => e.pc = After(b, i)
        /\ rf[b.sites[k].rs1] # {} => e.pc = b.sites[k].failAt
        /\ e.regs = rf
    BY <1>2, <1>12, RunGuard
  <2>2. rf[b.sites[k].rs1] # {} => WrongGuard(b, k, i, rf, e.pc)
    BY <1>12, <2>1 DEF WrongGuard
  <2> QED  BY <2>1, <2>2 DEF WrongTurn
<1>13. ASSUME InSite(b, i) PROVE Goes /\ Changes /\ Sums
  <2>1. PICK k \in 1 .. NumSites(b) :
               \/ OnHead(b, k, i) \/ OnXor(b, k, i)
               \/ OnJump(b, k, i) /\ image[i] = b.instrs[i]
               \/ OnSkip(b, k, i) /\ image[i] = JalSkip
               \/ OnTurn(b, k, i) /\ b.sites[k].kind = "branch"
               \/ /\ OnTurn(b, k, i) /\ b.sites[k].kind = "guard"
                  /\ image[i] = GuardBranch(b.sites[k])
    BY <1>1, <1>13, CommonSlot
  <2>2. e.pc = After(b, i) => Goes
    OBVIOUS
  <2> HIDE DEF Goes, Changes, Sums
  <2> QED  BY <1>5, <1>6, <1>7, <1>8, <1>9, <1>10, <1>11, <1>12, <2>1, <2>2
<1>14. Part
  BY <1>3, <1>13
<1> QED  BY <1>14

\* What a value site depends on.
LEMMA DepsRange ==
  ASSUME NEW can, NEW b, Planned(b, can), NEW k \in 1 .. NumSites(b),
         b.sites[k].kind = "value"
  PROVE  /\ b.sites[k].at = At(b, k) /\ At(b, k) \in Nat
         /\ Len(b.sites[k].rdeps) \in Nat /\ Len(b.sites[k].rdeps) >= 1
         /\ DOMAIN b.sites[k].rdeps = 1 .. Len(b.sites[k].rdeps)
         /\ IsFiniteSet(DOMAIN b.sites[k].rdeps)
         /\ \A n \in DOMAIN b.sites[k].rdeps :
               /\ b.sites[k].rdeps[n] \in Regs
               /\ b.sites[k].rdeps[n] \in State \ {b.sites[k].rprod}
<1> DEFINE rdeps == b.sites[k].rdeps
           rprod == b.sites[k].rprod
<1>1. b.sites[k].at = At(b, k) /\ At(b, k) \in Nat
  BY SiteRange
<1>2. /\ Len(rdeps) \in Nat /\ Len(rdeps) >= 1 /\ DOMAIN rdeps = 1 .. Len(rdeps)
      /\ \A n \in 1 .. Len(rdeps) : rdeps[n] \in Regs /\ rdeps[n] # rprod
  BY ValueRange
<1> HIDE DEF rdeps, rprod
<1>3. IsFiniteSet(DOMAIN rdeps)
  BY <1>2, FS_Interval
<1>4. \A n \in DOMAIN rdeps : rdeps[n] \in Regs /\ rdeps[n] \in State \ {rprod}
  BY <1>2 DEF State
<1> QED  BY <1>1, <1>2, <1>3, <1>4 DEF rdeps, rprod

LEMMA MissingAt ==
  ASSUME NEW site, NEW i, NEW rf, NEW tr, NEW n \in DOMAIN site.rdeps
  PROVE  Missing(site, i, rf, tr)[n] =
            IF n < i - site.at
            THEN Xor(rf[site.rdeps[n]], OldDep(site, n, tr)) ELSE OldDep(site, n, tr)
BY DEF Missing

LEMMA FinalNext ==
  ASSUME NEW can, NEW b, Planned(b, can), NEW tr, NEW i \in Path(b),
         NEW rf \in RegFile, SumAt(b, i, rf, tr),
         NEW rg, Moves(b, i, rf, rg),
         \A k \in 1 .. NumSites(b) : SumMoves(b, k, i, rf, rg, tr)
  PROVE  SumAt(b, After(b, i), rg, tr)
<1>1. SUFFICES ASSUME NEW k \in 1 .. NumSites(b), Computing(b, k, After(b, i))
               PROVE  rg[b.sites[k].rprod] =
                         Xor(Truncate(LinkedValue(b.sites[k])),
                             XorAll(Missing(b.sites[k], After(b, i), rg, tr),
                                    DOMAIN b.sites[k].rdeps))
  BY DEF SumAt
<1> DEFINE site == b.sites[k]
           S == DOMAIN site.rdeps
           value == Truncate(LinkedValue(site))
           j == After(b, i)
<1>2. i \in 1 .. Size(b) /\ i \in Int
  BY AfterOnPath
<1>3. j = i + 1 /\ (OnHead(b, k, i) \/ OnXor(b, k, i))
  BY <1>1, <1>2, ComputingAfter, AfterIs
<1> HIDE DEF j
<1>4. site.kind = "value"
  BY <1>1 DEF Computing
<1>5. /\ site.at = At(b, k) /\ At(b, k) \in Nat
      /\ Len(site.rdeps) \in Nat /\ S = 1 .. Len(site.rdeps) /\ IsFiniteSet(S)
      /\ \A n \in S : site.rdeps[n] \in State \ {site.rprod}
  BY <1>4, DepsRange
<1>6. SumMoves(b, k, i, rf, rg, tr) /\ \A r \in State \ {site.rprod} : rg[r] = rf[r]
  BY <1>3 DEF Moves
<1>7. \A n \in S : rg[site.rdeps[n]] = rf[site.rdeps[n]]
  BY <1>5, <1>6
<1>8. ASSUME NEW n \in S
      PROVE  /\ Missing(site, i, rf, tr)[n] =
                   IF n < i - At(b, k)
                   THEN Xor(rf[site.rdeps[n]], OldDep(site, n, tr)) ELSE OldDep(site, n, tr)
             /\ Missing(site, j, rg, tr)[n] =
                   IF n < j - At(b, k)
                   THEN Xor(rg[site.rdeps[n]], OldDep(site, n, tr)) ELSE OldDep(site, n, tr)
  <2>1. site.at = At(b, k)
    BY <1>5
  <2>2. Missing(site, i, rf, tr)[n] =
           IF n < i - site.at
           THEN Xor(rf[site.rdeps[n]], OldDep(site, n, tr)) ELSE OldDep(site, n, tr)
    BY MissingAt
  <2>3. Missing(site, j, rg, tr)[n] =
           IF n < j - site.at
           THEN Xor(rg[site.rdeps[n]], OldDep(site, n, tr)) ELSE OldDep(site, n, tr)
    BY MissingAt
  <2> HIDE DEF site, S
  <2> QED  BY <2>1, <2>2, <2>3
<1>9. CASE OnHead(b, k, i)
  <2> DEFINE g == Missing(site, j, rg, tr)
             h == OldDeps(site, tr)
  <2>1. rg[site.rprod] = Xor(value, DepSum(site, tr)) /\ i = At(b, k)
    BY <1>6, <1>9 DEF SumMoves, OnHead
  <2>2. ASSUME NEW n \in S PROVE g[n] = h[n]
    <3>1. ~ (n < j - At(b, k))
      BY <1>3, <1>5, <2>1
    <3>2. h[n] = OldDep(site, n, tr)
      BY DEF OldDeps
    <3> HIDE DEF site, S
    <3> QED  BY <1>8, <3>1, <3>2
  <2>3. DepSum(site, tr) = XorAll(h, S)
    BY DEF DepSum
  <2> HIDE DEF g, h
  <2>4. XorAll(g, S) = DepSum(site, tr)
    BY <2>2, <2>3, XorAllSame
  <2> QED  BY <2>1, <2>4 DEF g, j
<1>10. CASE OnXor(b, k, i)
  <2> DEFINE x == i - At(b, k)
             f == Missing(site, i, rf, tr)
             g == Missing(site, j, rg, tr)
  <2>1. rg[site.rprod] = Xor(rf[site.rprod], rf[site.rdeps[x]]) /\ x \in S
    BY <1>6, <1>10 DEF SumMoves, OnXor
  <2>2. Computing(b, k, i)
    BY <1>2, <1>4, <1>5, <2>1 DEF Computing, ProducerLen
  <2>3. rf[site.rprod] = Xor(value, XorAll(f, S))
    BY <2>2 DEF SumAt
  <2>4. ASSUME NEW n \in S
        PROVE  /\ n < i - At(b, k) <=> n < x
               /\ n < j - At(b, k) <=> n < x \/ n = x
    BY <1>2, <1>3, <1>5, <2>1
  <2>5. ~ (x < x)
    BY <1>2, <1>5
  <2>6. ASSUME NEW n \in S
        PROVE  /\ f[n] = IF n < x
                         THEN Xor(rf[site.rdeps[n]], OldDep(site, n, tr))
                         ELSE OldDep(site, n, tr)
               /\ g[n] = IF n < x \/ n = x
                         THEN Xor(rg[site.rdeps[n]], OldDep(site, n, tr))
                         ELSE OldDep(site, n, tr)
    <3> HIDE DEF x, S, site
    <3> QED  BY <1>8, <2>4 DEF f, g
  <2>7. rf[site.rdeps[x]] \in Word
    BY <1>5, <2>1, RegFileFacts
  <2> HIDE DEF x, S, f, g, site, value
  <2>8. g[x] = Xor(rf[site.rdeps[x]], f[x])
    BY <1>7, <2>1, <2>5, <2>6
  <2>9. g[x] = Xor(f[x], rf[site.rdeps[x]])
    BY <2>8, XorWords
  <2>10. \A n \in S \ {x} : g[n] = f[n]
    BY <1>7, <2>6
  <2>11. XorAll(g, S) = Xor(XorAll(f, S), rf[site.rdeps[x]])
    BY <1>5, <2>1, <2>7, <2>9, <2>10, XorAllStep
  <2>12. rg[site.rprod] = Xor(value, XorAll(g, S))
    BY <2>1, <2>3, <2>11, XorWords
  <2> QED  BY <2>12 DEF g, site, S, value, j
<1> QED  BY <1>3, <1>9, <1>10

Wrong(site, rf, tf) ==
    [n \in DOMAIN site.rdeps |-> Xor(rf[site.rdeps[n]], tf[site.rdeps[n]])]

SameBut(x, rf, tf) == \A r \in State \ {x} : rf[r] = tf[r]

\* A value that is complete has in it exactly what is wrong in its dependencies.
LEMMA CompleteSum ==
  ASSUME NEW can, NEW b, Planned(b, can), NEW tr, NEW rf, NEW tf,
         NEW k \in 1 .. NumSites(b), b.sites[k].kind = "value",
         NEW i, i = At(b, k) + Len(b.sites[k].rdeps) + 1,
         DraftAt(b, i, tf, tr), SumAt(b, i, rf, tr)
  PROVE  rf[b.sites[k].rprod] =
            Xor(Truncate(LinkedValue(b.sites[k])),
                XorAll(Wrong(b.sites[k], rf, tf), DOMAIN b.sites[k].rdeps))
<1> DEFINE site == b.sites[k]
           S == DOMAIN site.rdeps
           f == Missing(site, i, rf, tr)
           g == Wrong(site, rf, tf)
<1>1. /\ site.at = At(b, k) /\ At(b, k) \in Nat
      /\ Len(site.rdeps) \in Nat /\ Len(site.rdeps) >= 1 /\ S = 1 .. Len(site.rdeps)
      /\ \A n \in S : site.rdeps[n] \in State \ {site.rprod}
  BY DepsRange
<1>2. /\ i \in At(b, k) + 1 .. At(b, k) + 1 + Len(site.rdeps) /\ i > At(b, k) + 1
      /\ \A n \in S : n < i - At(b, k)
  BY <1>1
<1>3. Computing(b, k, i)
  BY <1>2 DEF Computing, ProducerLen
<1>4. \A r \in State \ {site.rprod} : tf[r] = tr[site.at + ProducerLen][r]
  BY <1>1, <1>2, <1>3 DEF DraftAt, ProducerLen
<1>5. rf[site.rprod] = Xor(Truncate(LinkedValue(site)), XorAll(f, S))
  BY <1>3 DEF SumAt
<1>6. ASSUME NEW n \in S PROVE f[n] = g[n]
  <2>1. n < i - site.at
    BY <1>1, <1>2
  <2>2. f[n] = Xor(rf[site.rdeps[n]], OldDep(site, n, tr))
    BY <2>1, MissingAt
  <2>3. g[n] = Xor(rf[site.rdeps[n]], tf[site.rdeps[n]])
    BY DEF Wrong
  <2>4. tf[site.rdeps[n]] = OldDep(site, n, tr)
    BY <1>1, <1>4 DEF OldDep
  <2> QED  BY <2>2, <2>3, <2>4
<1> HIDE DEF f, g
<1>7. XorAll(f, S) = XorAll(g, S)
  BY <1>6, XorAllSame
<1> QED  BY <1>5, <1>7 DEF f, g

LEMMA CleanSum ==
  ASSUME NEW can, NEW b, Planned(b, can), NEW tr, NEW rf, NEW tf,
         NEW k \in 1 .. NumSites(b), b.sites[k].kind = "value",
         NEW i, i = At(b, k) + Len(b.sites[k].rdeps) + 1,
         DraftAt(b, i, tf, tr), SumAt(b, i, rf, tr),
         SameBut(b.sites[k].rprod, rf, tf)
  PROVE  rf[b.sites[k].rprod] = Truncate(LinkedValue(b.sites[k]))
<1> DEFINE site == b.sites[k]
           S == DOMAIN site.rdeps
           f == Wrong(site, rf, tf)
<1>1. \A n \in S : site.rdeps[n] \in State \ {site.rprod}
  BY DepsRange
<1>2. rf[site.rprod] = Xor(Truncate(LinkedValue(site)), XorAll(f, S))
  BY CompleteSum
<1>3. ASSUME NEW n \in S PROVE f[n] = {}
  <2>1. rf[site.rdeps[n]] = tf[site.rdeps[n]]
    BY <1>1 DEF SameBut
  <2> QED  BY <2>1, XorWords DEF Wrong
<1> HIDE DEF f
<1>4. XorAll(f, S) = {}
  BY <1>3, XorAllZero
<1> QED  BY <1>2, <1>4, XorWords DEF f

\* Nothing is half made in a slot that is neither a fixup nor an exclusive or.
LEMMA AgreeAll ==
  ASSUME NEW can, NEW b, Planned(b, can), NEW i, NEW rf, NEW tf, Agree(b, i, rf, tf),
         b.instrs[i].op # "fixup" \/ InSite(b, i),
         \A k \in 1 .. NumSites(b) : ~ OnXor(b, k, i)
  PROVE  \A r \in State : rf[r] = tf[r]
<1> SUFFICES ASSUME NEW r \in State, ProducingIn(b, i, r) PROVE FALSE
  BY DEF Agree
<1>1. b.instrs[i] = Fixup(r) /\ ~ InSite(b, i)
  BY ProducingCases
<1> QED  BY <1>1 DEF Fixup

\* Without a wrong result every access has its base register at a data section.
LEMMA CleanBase ==
  ASSUME NEW can, NEW b, Planned(b, can), NEW i \in 1 .. Size(b), ~ InSite(b, i),
         NEW tr, NEW rf, NEW tf, DraftAt(b, i, tf, tr), Agree(b, i, rf, tf),
         b.instrs[i] \in WorkInstrs, b.instrs[i].base # ZERO
  PROVE  rf[b.instrs[i].base] \in Addresses
<1>1. tf[b.instrs[i].base] \in Addresses
  BY DraftBase
<1>2. /\ b.instrs[i].op # "fixup" /\ b.instrs[i].base \in State
  BY SiteBuilderAssumption DEF State
<1>3. \A k \in 1 .. NumSites(b) : ~ OnXor(b, k, i)
  BY SizeType, RoleInSite DEF Role, Planned
<1>4. rf[b.instrs[i].base] = tf[b.instrs[i].base]
  BY <1>2, <1>3, AgreeAll
<1> QED  BY <1>1, <1>4

\* Nor does the final program take a wrong turn.
LEMMA CleanTurn ==
  ASSUME NEW can, NEW b, Planned(b, can), NEW tr, FinalImage(b, image, tr),
         NEW i \in Path(b), NEW rf \in RegFile, NEW e \in Outcomes(i, rf),
         tr[i] \in RegFile, DraftAt(b, i, tr[i], tr), Agree(b, i, rf, tr[i])
  PROVE  e.pc = After(b, i)
<1>1. i \in 1 .. Size(b) /\ i \in Int
  BY AfterOnPath
<1>2. ASSUME NEW k \in 1 .. NumSites(b), OnJump(b, k, i) \/ OnTurn(b, k, i)
      PROVE  rf = tr[i]
  <2>1. Role(b, k, i) /\ ~ OnXor(b, k, i) /\ InSite(b, i)
    BY <1>1, <1>2, OneRole, RoleInSite DEF Role
  <2>2. \A l \in 1 .. NumSites(b) : ~ OnXor(b, l, i)
    BY <1>1, <2>1, OneSite DEF Role
  <2>3. \A r \in State : rf[r] = tr[i][r]
    BY <2>1, <2>2, AgreeAll
  <2> QED  BY <2>3, RegFileFacts
<1>3. ASSUME NEW k \in 1 .. NumSites(b) PROVE ~ WrongJump(b, k, i, rf, e.pc)
  <2> SUFFICES ASSUME OnJump(b, k, i)
               PROVE  rf[b.sites[k].rprod] \ {0} = Truncate(LinkedValue(b.sites[k]))
    BY DEF WrongJump
  <2>1. tr[i][b.sites[k].rprod] = Truncate(LinkedValue(b.sites[k]))
    BY JumpSlot DEF DraftAt
  <2>2. Placed(b)
    BY DEF FinalImage, CommonImage
  <2> QED  BY <1>1, <1>2, <2>1, <2>2, JumpValue
<1>4. ASSUME NEW k \in 1 .. NumSites(b) PROVE ~ WrongGuard(b, k, i, rf, e.pc)
  <2> SUFFICES ASSUME OnTurn(b, k, i), b.sites[k].kind = "guard"
               PROVE  rf[b.sites[k].rs1] = {}
    BY DEF WrongGuard
  <2>1. Accumulated(b, k, i)
    BY GuardIsReady
  <2>2. tr[i][b.sites[k].rs1] = Truncate({})
    BY <2>1 DEF Accumulated, DraftAt
  <2> QED  BY <1>2, <2>2 DEF Truncate
<1>5. ASSUME NEW k \in 1 .. NumSites(b) PROVE ~ WrongBranch(b, k, i, rf, tr[i], e.pc)
  BY <1>2 DEF WrongBranch
<1>6. ~ Astray(b, i, rf)
  BY <1>1, CleanBase DEF Astray
<1>7. e.pc = After(b, i) \/ WrongTurn(b, i, rf, tr[i], e.pc)
  BY FinalSlot
<1> QED  BY <1>3, <1>4, <1>5, <1>6, <1>7 DEF WrongTurn

\* What a slot does to the state is the same whenever the state it starts from
\* is, but for what is half made.
LEMMA AgreeStep ==
  ASSUME NEW can, NEW b, Planned(b, can), NEW i \in Path(b),
         NEW rf \in RegFile, NEW tf \in RegFile, NEW rg \in RegFile, NEW tg \in RegFile,
         Agree(b, i, rf, tf), Moves(b, i, rf, rg), Moves(b, i, tf, tg),
         NEW tr, DraftAt(b, After(b, i), tg, tr), SumAt(b, After(b, i), rg, tr)
  PROVE  Agree(b, After(b, i), rg, tg)
<1>1. SUFFICES ASSUME NEW r \in State, ~ ProducingIn(b, After(b, i), r)
               PROVE  rg[r] = tg[r]
  BY DEF Agree
<1>2. i \in 1 .. Size(b) /\ i \in Int /\ i \in Nat /\ Size(b) \in Nat
  BY AfterOnPath
<1>3. ASSUME NEW k \in 1 .. NumSites(b), OnJump(b, k, i) \/ OnTurn(b, k, i) \/ OnSkip(b, k, i)
      PROVE  rg[r] = tg[r]
  <2>1. Role(b, k, i) /\ ~ OnXor(b, k, i) /\ InSite(b, i)
    BY <1>2, <1>3, OneRole, RoleInSite DEF Role
  <2>2. \A l \in 1 .. NumSites(b) : ~ OnXor(b, l, i)
    BY <1>2, <2>1, OneSite DEF Role
  <2>3. rf = tf
    <3>1. \A x \in State : rf[x] = tf[x]
      BY <2>1, <2>2, AgreeAll
    <3> QED  BY <3>1, RegFileFacts
  <2>4. rg = tg
    BY <1>3, <2>3 DEF Moves
  <2> QED  BY <2>4
<1>4. ASSUME NEW k \in 1 .. NumSites(b), OnHead(b, k, i) PROVE rg[r] = tg[r]
  <2>1. Role(b, k, i) /\ ~ OnXor(b, k, i) /\ InSite(b, i)
    BY <1>2, <1>4, OneRole, RoleInSite DEF Role
  <2>2. \A l \in 1 .. NumSites(b) : ~ OnXor(b, l, i)
    BY <1>2, <2>1, OneSite DEF Role
  <2>3. rf[r] = tf[r]
    BY <2>1, <2>2, AgreeAll
  <2>4. /\ b.sites[k].kind = "value" /\ i = At(b, k)
        /\ Len(b.sites[k].rdeps) \in Nat /\ Len(b.sites[k].rdeps) >= 1
        /\ At(b, k) \in Nat
    BY <1>4, DepsRange DEF OnHead
  <2>5. After(b, i) = i + 1
    BY <1>2, <1>4, AfterIs
  <2>6. After(b, i) \in At(b, k) + 1 .. At(b, k) + 1 + Len(b.sites[k].rdeps) - 1
    BY <2>4, <2>5
  <2>7. i + 1 \in 1 .. Size(b)
    <3>1. At(b, k) + 1 \in Nat /\ OnXor(b, k, At(b, k) + 1)
      BY <2>4, ProbeSlot
    <3> QED  BY <2>4, <3>1, RoleInSite DEF Role
  <2>8. r # b.sites[k].rprod
    BY <1>1, <2>4, <2>5, <2>6, <2>7 DEF ProducingIn, ProducerLen
  <2> QED  BY <1>4, <2>3, <2>8 DEF Moves
<1>5. ASSUME NEW k \in 1 .. NumSites(b), OnXor(b, k, i) PROVE rg[r] = tg[r]
  <2> DEFINE rprod == b.sites[k].rprod
             n == Len(b.sites[k].rdeps)
  <2>1. /\ b.sites[k].kind = "value" /\ n \in Nat /\ At(b, k) \in Nat
        /\ DOMAIN b.sites[k].rdeps = 1 .. n
    BY <1>5, DepsRange DEF OnXor
  <2>2. i - At(b, k) \in 1 .. n
    BY <1>5, <2>1 DEF OnXor
  <2>3. After(b, i) = i + 1 /\ Role(b, k, i)
    BY <1>2, <1>5, AfterIs DEF Role
  <2>4. ASSUME NEW x \in State \ {rprod} PROVE rg[x] = tg[x]
    <3>1. ~ ProducingIn(b, i, x)
      <4>1. ASSUME NEW l \in 1 .. NumSites(b), OnXor(b, l, i) PROVE l = k
        BY <1>2, <2>3, <4>1, OneSite DEF Role
      <4>2. InSite(b, i)
        BY <1>2, <2>3, RoleInSite
      <4> QED  BY <2>4, <4>1, <4>2, ProducingCases
    <3>2. rf[x] = tf[x]
      BY <2>4, <3>1 DEF Agree
    <3> QED  BY <1>5, <2>4, <3>2 DEF Moves
  <2>5. CASE r # rprod
    BY <2>4, <2>5
  <2>6. CASE r = rprod /\ i = At(b, k) + n
    <3>1. After(b, i) = At(b, k) + n + 1
      BY <2>1, <2>3, <2>6
    <3>2. SameBut(rprod, rg, tg)
      BY <2>4 DEF SameBut
    <3>3. rg[rprod] = Truncate(LinkedValue(b.sites[k]))
      BY <2>1, <3>1, <3>2, CleanSum
    <3>4. Computing(b, k, After(b, i))
      <4>1. After(b, i) \in At(b, k) + 1 .. At(b, k) + 1 + n
        <5> HIDE DEF n
        <5> QED  BY <2>1, <3>1
      <4> QED  BY <2>1, <4>1 DEF Computing, ProducerLen
    <3>5. tg[rprod] = Truncate(LinkedValue(b.sites[k]))
      BY <3>4 DEF DraftAt
    <3> QED  BY <2>6, <3>3, <3>5
  <2>7. CASE r = rprod /\ i # At(b, k) + n
    <3>1. After(b, i) \in At(b, k) + 1 .. At(b, k) + 1 + n - 1
      BY <1>2, <2>1, <2>2, <2>3, <2>7, SMTT(30)
    <3>2. After(b, i) - At(b, k) \in 1 .. n
      BY <2>1, <3>1
    <3>3. OnXor(b, k, After(b, i)) /\ After(b, i) \in Int
      BY <2>1, <3>1, <3>2 DEF OnXor
    <3>4. After(b, i) \in 1 .. Size(b)
      BY <3>3, RoleInSite DEF Role
    <3>5. ProducingIn(b, After(b, i), rprod)
      BY <2>1, <3>1, <3>4 DEF ProducingIn, ProducerLen
    <3> QED  BY <1>1, <2>7, <3>5
  <2> QED  BY <2>5, <2>6, <2>7
<1>6. ASSUME ~ InSite(b, i) PROVE rg[r] = tg[r]
  <2> DEFINE w == b.instrs[i]
  <2>1. After(b, i) = i + 1 /\ IsWork(b, i)
    BY <1>2, <1>6, AfterIs, SlotCases
  <2>2. \A l \in 1 .. NumSites(b) : ~ OnXor(b, l, i)
    BY <1>2, <1>6, RoleInSite DEF Role
  <2>3. w \in SlotType
    BY <1>2, SizeType DEF Planned, BlkType
  <2>4. CASE w \in WorkInstrs
    <3>1. w.op # "fixup"
      BY <2>4, SiteBuilderAssumption
    <3>2. rf = tf
      <4>1. \A x \in State : rf[x] = tf[x]
        BY <2>2, <3>1, AgreeAll
      <4> QED  BY <4>1, RegFileFacts
    <3>3. CASE ~ (w.unstable /\ w.rd # ZERO)
      BY <1>6, <2>4, <3>2, <3>3 DEF Moves
    <3>4. CASE w.unstable /\ w.rd # ZERO
      <4>1. i < Size(b) /\ b.instrs[i + 1] = Fixup(w.rd)
        BY <1>2, <2>4, <3>4 DEF Planned, Laid, WorkLaid
      <4>2. i + 1 \in 1 .. Size(b)
        BY <1>2, <4>1
      <4>3. r # w.rd
        BY <1>1, <2>1, <4>1, <4>2 DEF ProducingIn
      <4>4. PICK v \in Noise : rg = [Result(w, rf) EXCEPT ![w.rd] = v]
        BY <1>6, <2>4, <3>4 DEF Moves
      <4>5. PICK u \in Noise : tg = [Result(w, tf) EXCEPT ![w.rd] = u]
        BY <1>6, <2>4, <3>4 DEF Moves
      <4>6. rg[r] = Result(w, rf)[r] /\ tg[r] = Result(w, tf)[r]
        BY <4>3, <4>4, <4>5 DEF Result, State
      <4> QED  BY <3>2, <4>6
    <3> QED  BY <3>3, <3>4
  <2>5. CASE w.op = "fixup"
    <3>1. w = Fixup(w.rd) /\ w.rd \in Regs
      BY <2>3, <2>5, SiteBuilderAssumption DEF SlotType, Nop, JalSkip, Fixup
    <3>2. rg = [rf EXCEPT ![w.rd] = FixupValue] /\ tg = [tf EXCEPT ![w.rd] = FixupValue]
      BY <1>6, <2>5 DEF Moves
    <3>3. CASE r = w.rd
      BY <3>2, <3>3 DEF RegFile, State
    <3>4. CASE r # w.rd
      <4>1. ~ ProducingIn(b, i, r)
        <5>1. w # Fixup(r)
          BY <3>4 DEF Fixup
        <5> QED  BY <2>2, <5>1, ProducingCases
      <4>2. rf[r] = tf[r]
        BY <4>1 DEF Agree
      <4> QED  BY <3>2, <3>4, <4>2 DEF RegFile, State
    <3> QED  BY <3>3, <3>4
  <2> QED  BY <2>1, <2>4, <2>5 DEF IsWork
<1>7. i \notin FailAts(b)
  BY DEF Path
<1>8. ASSUME InSite(b, i) PROVE rg[r] = tg[r]
  <2>1. PICK k \in 1 .. NumSites(b) : Role(b, k, i)
    BY <1>2, <1>8, SlotCases
  <2>2. ~ OnFail(b, k, i)
    BY <1>7, FailSlot
  <2> QED  BY <1>3, <1>4, <1>5, <2>1, <2>2 DEF Role
<1> QED  BY <1>6, <1>8

--------------------------------------------------------------------------------
(* The two programs are what the sites render.                               *)

LEMMA RenderedIs ==
  ASSUME NEW can, Planned(blk, can), NEW k \in 1 .. NumSites(blk), NEW i \in 1 .. Size(blk),
         NEW ccs, NEW resolved
  PROVE  /\ OnFail(blk, k, i) => Rendered(k, i, ccs, resolved) = JalFail
         /\ OnJump(blk, k, i) => Rendered(k, i, ccs, resolved) = blk.instrs[i]
         /\ OnSkip(blk, k, i) => Rendered(k, i, ccs, resolved) = JalSkip
         /\ OnHead(blk, k, i) =>
               Rendered(k, i, ccs, resolved) =
                  Li(blk.sites[k].rprod,
                     Xor(LinkedValue(blk.sites[k]), RdepVal(k, resolved)))
         /\ OnXor(blk, k, i) =>
               Rendered(k, i, ccs, resolved) =
                  XorInto(blk.sites[k].rprod,
                          IF resolved THEN blk.sites[k].rdeps[i - blk.sites[k].at] ELSE ZERO)
         /\ OnTurn(blk, k, i) => Rendered(k, i, ccs, resolved) = BranchInstr(k, ccs, resolved)
<1> DEFINE site == blk.sites[k]
<1>1. i \in Int /\ site.at = At(blk, k) /\ At(blk, k) \in Nat
  BY SizeType, SiteRange DEF Planned
<1>2. i # NoFail
  BY DEF NoFail
<1>3. ASSUME OnFail(blk, k, i) PROVE Rendered(k, i, ccs, resolved) = JalFail
  <2>1. ~ OnHead(blk, k, i) /\ ~ OnXor(blk, k, i) /\ ~ OnTurn(blk, k, i)
    BY <1>1, <1>3, OneRole
  <2>2. site.kind \in {"value"} \cup BranchKinds
    BY SiteRange
  <2> QED  BY <1>1, <1>3, <2>1, <2>2 DEF Rendered, OnFail, OnHead, OnXor, OnTurn
<1>4. ASSUME OnJump(blk, k, i) PROVE Rendered(k, i, ccs, resolved) = blk.instrs[i]
  <2>1. ~ OnHead(blk, k, i) /\ ~ OnXor(blk, k, i) /\ ~ OnFail(blk, k, i)
    BY <1>1, <1>4, OneRole
  <2>2. site.kind = "value" /\ site.failAt # NoFail
    BY <1>4 DEF OnJump
  <2> QED  BY <1>1, <2>1, <2>2 DEF Rendered, OnFail, OnHead, OnXor
<1>5. ASSUME OnSkip(blk, k, i) PROVE Rendered(k, i, ccs, resolved) = JalSkip
  <2>1. ~ OnTurn(blk, k, i) /\ ~ OnFail(blk, k, i)
    BY <1>1, <1>5, OneRole
  <2>2. site.kind \in BranchKinds /\ site.failAt # NoFail /\ i = At(blk, k) + 1
        /\ blk.instrs[At(blk, k) + 1] = JalSkip
    BY <1>5, BranchRange DEF OnSkip
  <2> QED  BY <1>1, <2>1, <2>2, Kinds DEF Rendered, OnFail, OnTurn
<1>6. ASSUME OnHead(blk, k, i)
      PROVE  Rendered(k, i, ccs, resolved) =
                Li(site.rprod, Xor(LinkedValue(site), RdepVal(k, resolved)))
  <2>1. ~ OnXor(blk, k, i) /\ ~ OnFail(blk, k, i)
    BY <1>1, <1>6, OneRole
  <2>2. i # site.failAt
    BY <1>2, <2>1 DEF OnFail
  <2> QED  BY <1>1, <1>6, <2>1, <2>2 DEF Rendered, OnHead, OnXor
<1>7. ASSUME OnXor(blk, k, i)
      PROVE  Rendered(k, i, ccs, resolved) =
                XorInto(site.rprod, IF resolved THEN site.rdeps[i - site.at] ELSE ZERO)
  <2>1. ~ OnHead(blk, k, i) /\ ~ OnFail(blk, k, i)
    BY <1>1, <1>7, OneRole
  <2>2. i # site.failAt
    BY <1>2, <2>1 DEF OnFail
  <2> QED  BY <1>1, <1>7, <2>1, <2>2 DEF Rendered, OnHead, OnXor
<1>8. ASSUME OnTurn(blk, k, i) PROVE Rendered(k, i, ccs, resolved) = BranchInstr(k, ccs, resolved)
  <2>1. ~ OnFail(blk, k, i)
    BY <1>1, <1>8, OneRole
  <2>2. i # site.failAt
    BY <1>2, <2>1 DEF OnFail
  <2> QED  BY <1>1, <1>8, <2>2, Kinds DEF Rendered, OnTurn
<1> QED  BY <1>3, <1>4, <1>5, <1>6, <1>7, <1>8

LEMMA ImageIs ==
  ASSUME NEW can, Planned(blk, can), NEW i \in 1 .. Size(blk), NEW ccs, NEW resolved
  PROVE  /\ ~ InSite(blk, i) => Image(ccs, resolved)[i] = blk.instrs[i]
         /\ \A k \in 1 .. NumSites(blk) :
               Role(blk, k, i) => Image(ccs, resolved)[i] = Rendered(k, i, ccs, resolved)
<1> DEFINE owners == {k \in 1 .. NumSites(blk) : i \in Footprint(blk.sites[k])}
<1>1. Image(ccs, resolved)[i] =
         IF owners = {} THEN blk.instrs[i]
         ELSE Rendered(CHOOSE k \in owners : TRUE, i, ccs, resolved)
  BY DEF Image
<1>2. ~ InSite(blk, i) => owners = {}
  BY DEF InSite
<1>3. ASSUME NEW k \in 1 .. NumSites(blk), Role(blk, k, i) PROVE owners = {k}
  <2>1. i \in Footprint(blk.sites[k])
    BY <1>3, SizeType, RoleInSite DEF Planned
  <2> QED  BY <2>1, OneOwner
<1>4. ASSUME NEW k \in 1 .. NumSites(blk), Role(blk, k, i)
      PROVE  Image(ccs, resolved)[i] = Rendered(k, i, ccs, resolved)
  <2>1. owners = {k}
    BY <1>3, <1>4
  <2>2. (CHOOSE l \in owners : TRUE) = k
    BY <2>1
  <2> QED  BY <1>1, <2>1, <2>2
<1> QED  BY <1>1, <1>2, <1>4

LEMMA ImageCommon ==
  ASSUME NEW can, Planned(blk, can), Placed(blk), NEW ccs, NEW resolved
  PROVE  CommonImage(blk, Image(ccs, resolved))
<1> DEFINE im == Image(ccs, resolved)
<1>1. ASSUME NEW k \in 1 .. NumSites(blk), NEW i \in 1 .. Size(blk)
      PROVE  /\ OnFail(blk, k, i) => im[i] = JalFail
             /\ OnJump(blk, k, i) => im[i] = blk.instrs[i]
             /\ OnSkip(blk, k, i) => im[i] = JalSkip
             /\ OnTurn(blk, k, i) /\ blk.sites[k].kind = "guard" =>
                   im[i] = GuardBranch(blk.sites[k])
  <2>1. ASSUME Role(blk, k, i) PROVE im[i] = Rendered(k, i, ccs, resolved)
    BY <2>1, ImageIs
  <2>2. blk.sites[k].kind = "guard" => BranchInstr(k, ccs, resolved) = GuardBranch(blk.sites[k])
    BY DEF BranchInstr, GuardBranch
  <2> HIDE DEF im
  <2> QED  BY <2>1, <2>2, RenderedIs DEF Role
<1>2. ASSUME NEW i \in 1 .. Size(blk), ~ InSite(blk, i) PROVE im[i] = blk.instrs[i]
  BY <1>2, ImageIs
<1> QED  BY <1>1, <1>2 DEF CommonImage

LEMMA DraftIsRendered ==
  ASSUME NEW can, Planned(blk, can), Placed(blk)
  PROVE  DraftImage(blk, Image({}, FALSE))
<1> DEFINE none == {}
           no == FALSE
           im == Image(none, no)
<1> HIDE DEF none, no
<1>1. CommonImage(blk, im)
  BY ImageCommon
<1>2. ASSUME NEW k \in 1 .. NumSites(blk), NEW i \in 1 .. Size(blk)
      PROVE  /\ OnHead(blk, k, i) =>
                   im[i] = Li(blk.sites[k].rprod, Xor(LinkedValue(blk.sites[k]), ZeroWord))
             /\ OnXor(blk, k, i) => im[i] = XorInto(blk.sites[k].rprod, ZERO)
             /\ OnTurn(blk, k, i) /\ blk.sites[k].kind = "branch" =>
                   im[i] = IF blk.sites[k].taken THEN JalSkip ELSE Nop
  <2>1. ASSUME Role(blk, k, i) PROVE im[i] = Rendered(k, i, none, no)
    BY <2>1, ImageIs
  <2>2. RdepVal(k, no) = ZeroWord /\ ~ no
    BY DEF RdepVal, no
  <2>3. blk.sites[k].kind = "branch" =>
           BranchInstr(k, none, no) = IF blk.sites[k].taken THEN JalSkip ELSE Nop
    BY DEF BranchInstr, no
  <2> HIDE DEF im
  <2>4. ASSUME OnHead(blk, k, i)
        PROVE  im[i] = Li(blk.sites[k].rprod, Xor(LinkedValue(blk.sites[k]), ZeroWord))
    BY <2>1, <2>2, <2>4, RenderedIs DEF Role
  <2>5. ASSUME OnXor(blk, k, i) PROVE im[i] = XorInto(blk.sites[k].rprod, ZERO)
    BY <2>1, <2>2, <2>5, RenderedIs DEF Role
  <2>6. ASSUME OnTurn(blk, k, i), blk.sites[k].kind = "branch"
        PROVE  im[i] = IF blk.sites[k].taken THEN JalSkip ELSE Nop
    BY <2>1, <2>3, <2>6, RenderedIs DEF Role
  <2> QED  BY <2>4, <2>5, <2>6
<1> QED  BY <1>1, <1>2 DEF DraftImage, none, no

LEMMA FinalIsRendered ==
  ASSUME NEW can, Planned(blk, can), Placed(blk), NEW ccs, NEW tr,
         ReportsAre(blk, probes, tr, NumSites(blk)),
         \A k \in SiteKind(blk, "branch") : ccs[k] \in Candidates(k)
  PROVE  FinalImage(blk, Image(ccs, TRUE), tr)
<1> DEFINE im == Image(ccs, TRUE)
<1>1. CommonImage(blk, im)
  BY ImageCommon
<1>2. ASSUME NEW k \in 1 .. NumSites(blk), Probed(blk.sites[k])
      PROVE  probes[Rank(k)] = tr[ProbeIndex(blk.sites[k])]
  BY <1>2 DEF ReportsAre, RankIn, Rank
<1>3. ASSUME NEW k \in 1 .. NumSites(blk), NEW i \in 1 .. Size(blk)
      PROVE  /\ OnHead(blk, k, i) =>
                   im[i] = Li(blk.sites[k].rprod,
                              Xor(LinkedValue(blk.sites[k]), DepSum(blk.sites[k], tr)))
             /\ OnXor(blk, k, i) =>
                   im[i] = XorInto(blk.sites[k].rprod,
                                   blk.sites[k].rdeps[i - blk.sites[k].at])
             /\ OnTurn(blk, k, i) /\ blk.sites[k].kind = "branch" =>
                   \E cc \in AllBranches :
                      /\ im[i] = Branch(cc, blk.sites[k].rs1, blk.sites[k].rs2)
                      /\ Taken(cc, Val(tr[i], blk.sites[k].rs1), Val(tr[i], blk.sites[k].rs2))
                            <=> blk.sites[k].taken
  <2> DEFINE site == blk.sites[k]
  <2>1. ASSUME Role(blk, k, i) PROVE im[i] = Rendered(k, i, ccs, TRUE)
    BY <2>1, ImageIs
  <2> HIDE DEF im
  <2>2. ASSUME OnHead(blk, k, i)
        PROVE  im[i] = Li(site.rprod, Xor(LinkedValue(site), DepSum(site, tr)))
    <3> DEFINE S == DOMAIN site.rdeps
               f == [n \in S |-> probes[Rank(k)][site.rdeps[n]]]
    <3>1. site.kind = "value" /\ Probed(site)
      BY <2>2 DEF OnHead, Probed
    <3>2. RdepVal(k, TRUE) = XorAll(f, S)
      BY DEF RdepVal
    <3>3. ASSUME NEW n \in S PROVE f[n] = OldDeps(site, tr)[n]
      <4>1. ProbeIndex(site) = site.at + ProducerLen
        BY <3>1 DEF ProbeIndex
      <4> QED  BY <1>2, <3>1, <4>1 DEF OldDeps, OldDep
    <3> HIDE DEF f
    <3>4. XorAll(f, S) = DepSum(site, tr)
      BY <3>3, XorAllSame DEF DepSum
    <3> QED  BY <2>1, <2>2, <3>2, <3>4, RenderedIs DEF Role
  <2>3. ASSUME OnXor(blk, k, i) PROVE im[i] = XorInto(site.rprod, site.rdeps[i - site.at])
    BY <2>1, <2>3, RenderedIs DEF Role
  <2>4. ASSUME OnTurn(blk, k, i), site.kind = "branch"
        PROVE  \E cc \in AllBranches :
                  /\ im[i] = Branch(cc, site.rs1, site.rs2)
                  /\ Taken(cc, Val(tr[i], site.rs1), Val(tr[i], site.rs2)) <=> site.taken
    <3>1. BranchInstr(k, ccs, TRUE) = Branch(ccs[k], site.rs1, site.rs2)
      BY <2>4 DEF BranchInstr
    <3>2. im[i] = Branch(ccs[k], site.rs1, site.rs2)
      BY <2>1, <2>4, <3>1, RenderedIs DEF Role
    <3>3. k \in SiteKind(blk, "branch")
      BY <2>4, SizeType DEF SiteKind, Planned
    <3>4. probes[Rank(k)] = tr[i]
      <4>1. Probed(site) /\ ProbeIndex(site) = i
        BY <2>4 DEF Probed, ProbeIndex, OnTurn, At
      <4> QED  BY <1>2, <4>1
    <3>5. /\ ccs[k] \in EnabledBranches
          /\ Taken(ccs[k], Val(tr[i], site.rs1), Val(tr[i], site.rs2)) = site.taken
      BY <3>3, <3>4 DEF Candidates
    <3>6. ccs[k] \in AllBranches
      BY <3>5 DEF EnabledBranches, AllBranches
    <3> QED  BY <3>2, <3>5, <3>6
  <2> QED  BY <2>2, <2>3, <2>4
<1> QED  BY <1>1, <1>3 DEF FinalImage

--------------------------------------------------------------------------------
(* The story the draft tells.                                                *)

LEMMA StoryStart ==
  ASSUME NEW can, NEW b, Planned(b, can), NEW rf \in RegFile
  PROVE  Story(b, <<>>, 1, rf, rf)
<1>1. /\ 1 \in Path(b) \cup {End(b)}
      /\ \A j \in Path(b) : j \in Nat /\ 1 <= j
  BY PathStart
<1>2. Before(b, 1) = {}
  BY <1>1 DEF Before
<1>3. DOMAIN <<>> = {} /\ <<>> \in [{} -> RegFile]
  OBVIOUS
<1>4. ASSUME NEW k \in 1 .. NumSites(b) PROVE ~ Computing(b, k, 1)
  <2> SUFFICES ASSUME Computing(b, k, 1) PROVE FALSE
    OBVIOUS
  <2>1. At(b, k) \in Nat /\ 1 <= At(b, k)
    BY SiteRange
  <2>2. b.sites[k].kind = "value" /\ Len(b.sites[k].rdeps) \in Nat
    BY DepsRange DEF Computing
  <2> QED  BY <2>1, <2>2 DEF Computing, ProducerLen
<1>5. DraftAt(b, 1, rf, <<>>)
  BY <1>4 DEF DraftAt
<1> QED  BY <1>1, <1>2, <1>3, <1>5 DEF Story

LEMMA GrownIs ==
  ASSUME NEW can, NEW b, Planned(b, can), NEW i \in Path(b), NEW rf \in RegFile,
         NEW tr \in [Before(b, i) -> RegFile]
  PROVE  /\ Grown(tr, i, rf) \in [Before(b, After(b, i)) -> RegFile]
         /\ Grown(tr, i, rf)[i] = rf
         /\ \A j \in DOMAIN tr : Grown(tr, i, rf)[j] = tr[j]
         /\ DOMAIN Grown(tr, i, rf) = DOMAIN tr \cup {i}
<1>1. /\ i \in Nat /\ i < After(b, i) /\ After(b, i) \in Nat
      /\ \A j \in Path(b) : i < j => After(b, i) <= j
  BY AfterOnPath
<1>2. Path(b) \subseteq Nat
  BY PathStart
<1>3. Before(b, After(b, i)) = Before(b, i) \cup {i}
  BY <1>1, <1>2 DEF Before
<1>4. DOMAIN tr = Before(b, i) /\ i \notin DOMAIN tr
  BY <1>1 DEF Before
<1> QED  BY <1>3, <1>4 DEF Grown

\* What was there stays as it was.
LEMMA DraftAtGrown ==
  ASSUME NEW can, NEW b, Planned(b, can), NEW i \in Path(b), NEW rf \in RegFile,
         NEW tr \in [Before(b, i) -> RegFile],
         NEW j \in Nat, j <= i, NEW rg, DraftAt(b, j, rg, tr)
  PROVE  DraftAt(b, j, rg, Grown(tr, i, rf))
<1>1. \A x \in DOMAIN tr : Grown(tr, i, rf)[x] = tr[x]
  <2>1. DOMAIN tr \subseteq Nat /\ ~ (i < i) /\ \A x \in DOMAIN tr : x < i
    BY AfterOnPath, PathStart DEF Before
  <2> QED  BY <2>1 DEF Grown
<1>2. ASSUME NEW k \in 1 .. NumSites(b), Computing(b, k, j)
      PROVE  /\ rg[b.sites[k].rprod] = Truncate(LinkedValue(b.sites[k]))
             /\ j > b.sites[k].at + ProducerLen =>
                   \A r \in State \ {b.sites[k].rprod} :
                      rg[r] = Grown(tr, i, rf)[b.sites[k].at + ProducerLen][r]
  <2> DEFINE p == b.sites[k].at + ProducerLen
  <2>1. b.sites[k].kind = "value" /\ p = At(b, k) + 1 /\ At(b, k) \in Nat
    BY <1>2, SiteRange DEF Computing, ProducerLen
  <2>2. p \in Path(b) /\ p \in Nat
    <3>1. ProbeIndex(b.sites[k]) = At(b, k) + 1 /\ ProbeIndex(b.sites[k]) \in Path(b)
      BY <2>1, ProbeSlot
    <3> QED  BY <2>1, <3>1
  <2>3. /\ rg[b.sites[k].rprod] = Truncate(LinkedValue(b.sites[k]))
        /\ j > p => \A r \in State \ {b.sites[k].rprod} : rg[r] = tr[p][r]
    BY <1>2 DEF DraftAt
  <2> HIDE DEF p
  <2>4. ASSUME j > p PROVE Grown(tr, i, rf)[p] = tr[p]
    <3>1. i \in Nat
      BY AfterOnPath
    <3>2. p \in DOMAIN tr
      BY <2>2, <2>4, <3>1 DEF Before
    <3> QED  BY <1>1, <3>2
  <2>5. /\ rg[b.sites[k].rprod] = Truncate(LinkedValue(b.sites[k]))
        /\ j > p => \A r \in State \ {b.sites[k].rprod} : rg[r] = Grown(tr, i, rf)[p][r]
    BY <2>3, <2>4
  <2> QED  BY <2>5 DEF p
<1> QED  BY <1>2 DEF DraftAt

LEMMA StoryStep ==
  ASSUME NEW can, NEW b, Planned(b, can), DraftImage(b, image), NEW i \in Path(b),
         NEW rf, NEW tr, NEW start, Story(b, tr, i, rf, start), NEW e \in Outcomes(i, rf)
  PROVE  /\ Story(b, Grown(tr, i, rf), e.pc, e.regs, start)
         /\ e.pc = After(b, i)
<1> DEFINE tr2 == Grown(tr, i, rf)
           j2 == After(b, i)
<1>1. /\ rf \in RegFile /\ tr \in [Before(b, i) -> RegFile]
      /\ DraftAt(b, i, rf, tr)
      /\ start = IF i = 1 THEN rf ELSE tr[1]
  BY DEF Story
<1>2. e.pc = j2 /\ e.regs \in RegFile /\ Moves(b, i, rf, e.regs)
  BY <1>1, DraftSlot
<1>3. /\ i \in Nat /\ j2 \in Path(b) \cup {End(b)} /\ j2 \in Nat /\ i < j2
      /\ i \in 1 .. Size(b) /\ Size(b) \in Nat
  BY AfterOnPath
<1>4. /\ tr2 \in [Before(b, j2) -> RegFile]
      /\ tr2[i] = rf /\ \A j \in DOMAIN tr : tr2[j] = tr[j]
      /\ DOMAIN tr2 = DOMAIN tr \cup {i}
  BY <1>1, GrownIs
<1>5. DOMAIN tr = {j \in Path(b) : j < i} /\ Path(b) \subseteq Nat
  BY <1>1, PathStart DEF Before
<1>6. DraftAt(b, j2, e.regs, tr2)
  BY <1>1, DraftNext
<1>7. ASSUME NEW j \in DOMAIN tr2
      PROVE  /\ DraftAt(b, j, tr2[j], tr2)
             /\ Moves(b, j, tr2[j], IF After(b, j) = j2 THEN e.regs ELSE tr2[After(b, j)])
  <2>1. CASE j = i
    <3>1. DraftAt(b, i, rf, tr2)
      BY <1>1, <1>3, DraftAtGrown
    <3> QED  BY <1>2, <1>4, <2>1, <3>1
  <2>2. CASE j \in DOMAIN tr
    <3>1. j \in Path(b) /\ j \in Nat /\ j < i /\ tr2[j] = tr[j]
      BY <1>4, <1>5, <2>2
    <3>2. /\ DraftAt(b, j, tr[j], tr)
          /\ Moves(b, j, tr[j], IF After(b, j) = i THEN rf ELSE tr[After(b, j)])
      BY <2>2 DEF Story
    <3>3. DraftAt(b, j, tr[j], tr2)
      <4>1. j <= i
        BY <1>3, <3>1
      <4> QED  BY <1>1, <3>1, <3>2, <4>1, DraftAtGrown
    <3>4. After(b, j) \in Path(b) \cup {End(b)} /\ After(b, j) \in Nat /\ After(b, j) <= i
      BY <3>1, AfterOnPath
    <3>5. After(b, j) # j2
      BY <1>3, <3>4
    <3>6. tr2[After(b, j)] = IF After(b, j) = i THEN rf ELSE tr[After(b, j)]
      <4>1. CASE After(b, j) = i
        BY <1>4, <4>1
      <4>2. CASE After(b, j) # i
        <5>1. After(b, j) < i /\ After(b, j) # End(b)
          BY <1>3, <3>4, <4>2 DEF End
        <5>2. After(b, j) \in DOMAIN tr
          BY <1>5, <3>4, <5>1
        <5> QED  BY <1>4, <4>2, <5>2
      <4> QED  BY <4>1, <4>2
    <3> QED  BY <3>1, <3>2, <3>3, <3>5, <3>6
  <2> QED  BY <1>4, <2>1, <2>2
<1>8. start = IF j2 = 1 THEN e.regs ELSE tr2[1]
  <2>1. j2 # 1
    BY <1>3
  <2>2. CASE i = 1
    BY <1>1, <1>4, <2>1, <2>2
  <2>3. CASE i # 1
    <3>1. 1 \in Path(b) \cup {End(b)}
      BY PathStart
    <3>2. 1 # End(b) /\ 1 < i
      BY <1>3, <2>3 DEF End
    <3>3. 1 \in DOMAIN tr
      BY <1>5, <3>1, <3>2
    <3> QED  BY <1>1, <1>4, <2>1, <2>3, <3>3
  <2> QED  BY <2>2, <2>3
<1> HIDE DEF tr2, j2
<1>9. Story(b, tr2, j2, e.regs, start)
  <2>1. DOMAIN tr2 = Before(b, j2)
    BY <1>4
  <2> QED  BY <1>2, <1>3, <1>4, <1>6, <1>7, <1>8 DEF Story
<1> QED  BY <1>2, <1>9 DEF tr2, j2

--------------------------------------------------------------------------------
(* The reports.                                                              *)

LEMMA RankIs ==
  ASSUME NEW can, NEW b, Planned(b, can)
  PROVE  /\ NumSites(b) \in Nat /\ RankIn(b, 0) = 0
         /\ \A k \in 0 .. NumSites(b) : RankIn(b, k) \in Nat
<1> DEFINE Upto(k) == {l \in 1 .. k : Probed(b.sites[l])}
<1>1. NumSites(b) \in Nat
  BY SizeType DEF Planned
<1>2. Upto(0) = {}
  OBVIOUS
<1>3. ASSUME NEW k \in 0 .. NumSites(b) PROVE IsFiniteSet(Upto(k))
  <2>1. IsFiniteSet(1 .. k)
    BY <1>1, FS_Interval
  <2> QED  BY <2>1, FS_Subset
<1>4. Cardinality({}) = 0
  BY FS_EmptySet
<1> QED  BY <1>1, <1>2, <1>3, <1>4, FS_CardinalityType DEF RankIn

\* A probe has the rank after that of the site before.
LEMMA RankStep ==
  ASSUME NEW can, NEW b, Planned(b, can), NEW m \in 0 .. NumSites(b), NEW k, k = m + 1,
         k \in 1 .. NumSites(b)
  PROVE  RankIn(b, k) = IF Probed(b.sites[k]) THEN RankIn(b, m) + 1 ELSE RankIn(b, m)
<1> DEFINE S == {l \in 1 .. m : Probed(b.sites[l])}
           T == {l \in 1 .. k : Probed(b.sites[l])}
<1>1. m \in Nat /\ k \in Nat
  BY RankIs
<1>2. IsFiniteSet(S)
  <2>1. IsFiniteSet(1 .. m) /\ S \subseteq 1 .. m
    BY <1>1, FS_Interval
  <2> QED  BY <2>1, FS_Subset
<1>3. k \notin S
  BY <1>1
<1>4. CASE Probed(b.sites[k])
  <2>1. T = S \cup {k}
    BY <1>1, <1>4
  <2>2. Cardinality(S \cup {k}) = Cardinality(S) + 1
    BY <1>2, <1>3, FS_AddElement
  <2> QED  BY <1>4, <2>1, <2>2 DEF RankIn
<1>5. CASE ~ Probed(b.sites[k])
  <2>1. T = S
    BY <1>1, <1>5
  <2> QED  BY <1>5, <2>1 DEF RankIn
<1> QED  BY <1>4, <1>5

LEMMA RankOrder ==
  ASSUME NEW can, NEW b, Planned(b, can), NEW j \in 0 .. NumSites(b),
         NEW k \in 0 .. NumSites(b), j <= k
  PROVE  RankIn(b, j) <= RankIn(b, k)
<1> DEFINE S == {l \in 1 .. j : Probed(b.sites[l])}
           T == {l \in 1 .. k : Probed(b.sites[l])}
<1>1. j \in Nat /\ k \in Nat
  BY RankIs
<1>2. IsFiniteSet(1 .. k) /\ S \subseteq T /\ T \subseteq 1 .. k
  BY <1>1, FS_Interval
<1>3. IsFiniteSet(T)
  BY <1>2, FS_Subset
<1>4. Cardinality(S) <= Cardinality(T)
  BY <1>2, <1>3, FS_Subset
<1> QED  BY <1>4 DEF RankIn

\* The probes are in program order.
LEMMA ProbeOrder ==
  ASSUME NEW can, NEW b, Planned(b, can), NEW j \in 1 .. NumSites(b),
         NEW k \in 1 .. NumSites(b), j < k
  PROVE  ProbeIndex(b.sites[j]) < ProbeIndex(b.sites[k])
<1>1. /\ ProbeIndex(b.sites[j]) \in Nat /\ ProbeIndex(b.sites[k]) \in Nat
      /\ ProbeIndex(b.sites[j]) \in Footprint(b.sites[j])
      /\ ProbeIndex(b.sites[k]) \in Footprint(b.sites[k])
  BY ProbeSlot
<1>2. /\ Footprint(b.sites[j]) = At(b, j) .. Last(b.sites[j])
      /\ Footprint(b.sites[k]) = At(b, k) .. Last(b.sites[k])
      /\ At(b, j) \in Nat /\ Last(b.sites[j]) \in Nat
      /\ At(b, k) \in Nat /\ Last(b.sites[k]) \in Nat
  BY SiteRange
<1>3. Last(b.sites[j]) < At(b, k)
  BY DEF Planned, Tiled, Ordered
<1> QED  BY <1>1, <1>2, <1>3

\* The first report is still to come when Spike starts.
LEMMA ReportStart ==
  ASSUME NEW can, NEW b, Planned(b, can), NEW tr
  PROVE  Reported(b, <<>>, tr, 1)
<1>1. NumSites(b) \in Nat /\ RankIn(b, 0) = 0 /\ 0 \in 0 .. NumSites(b)
  BY RankIs
<1>2. Len(<<>>) = 0
  OBVIOUS
<1>3. ReportsAre(b, <<>>, tr, 0)
  BY DEF ReportsAre
<1>4. \A k \in 0 + 1 .. NumSites(b) : ProbeIndex(b.sites[k]) >= 1
  <2> SUFFICES ASSUME NEW k \in 1 .. NumSites(b) PROVE ProbeIndex(b.sites[k]) >= 1
    OBVIOUS
  <2> QED  BY ProbeSlot, PathStart
<1> QED  BY <1>1, <1>2, <1>3, <1>4 DEF Reported

\* The reports that were right stay right.
LEMMA ReportsKept ==
  ASSUME NEW can, NEW b, Planned(b, can), NEW i \in Path(b), NEW rf \in RegFile,
         NEW tr, tr \in [Before(b, i) -> RegFile], NEW pr \in Seq(RegFile),
         NEW m \in 0 .. NumSites(b), ReportsAre(b, pr, tr, m),
         \A k \in 1 .. m : ProbeIndex(b.sites[k]) < i,
         NEW pp \in Seq(RegFile), Len(pr) <= Len(pp),
         \A n \in 1 .. Len(pr) : pp[n] = pr[n]
  PROVE  ReportsAre(b, pp, Grown(tr, i, rf), m)
<1> SUFFICES ASSUME NEW k \in 1 .. m, Probed(b.sites[k])
             PROVE  /\ RankIn(b, k) \in 1 .. Len(pp)
                    /\ pp[RankIn(b, k)] = Grown(tr, i, rf)[ProbeIndex(b.sites[k])]
  BY DEF ReportsAre
<1>1. NumSites(b) \in Nat /\ k \in 1 .. NumSites(b)
  BY RankIs
<1>2. RankIn(b, k) \in 1 .. Len(pr) /\ pr[RankIn(b, k)] = tr[ProbeIndex(b.sites[k])]
  BY DEF ReportsAre
<1>3. ProbeIndex(b.sites[k]) \in DOMAIN tr
  <2>1. ProbeIndex(b.sites[k]) \in Path(b)
    BY <1>1, ProbeSlot
  <2>2. ProbeIndex(b.sites[k]) < i
    OBVIOUS
  <2> QED  BY <2>1, <2>2 DEF Before
<1>4. \A j \in DOMAIN tr : Grown(tr, i, rf)[j] = tr[j]
  <2>1. i \notin DOMAIN tr
    <3>1. i \in Nat
      BY AfterOnPath
    <3>2. \A j \in DOMAIN tr : j < i
      BY DEF Before
    <3> QED  BY <3>1, <3>2
  <2> QED  BY <2>1 DEF Grown
<1>5. Len(pr) \in Nat /\ Len(pp) \in Nat
  OBVIOUS
<1> QED  BY <1>2, <1>3, <1>4, <1>5

\* What is reported in slot i.
Reports(pr, i, rf) == IF IsPc(Len(pr) + 1, i) THEN Append(pr, rf) ELSE pr

LEMMA PcOnPath ==
  ASSUME NEW can, Planned(blk, can), NEW i \in Path(blk), NEW n
  PROVE  IsPc(n, i) <=> \E k \in 1 .. NumSites(blk) :
            Probed(blk.sites[k]) /\ RankIn(blk, k) = n /\ ProbeIndex(blk.sites[k]) = i
<1>1. i # Check
  BY AfterOnPath DEF Check
<1> QED  BY <1>1 DEF IsPc, Rank, RankIn

LEMMA ReportStep ==
  ASSUME NEW can, Planned(blk, can), NEW i \in Path(blk), NEW rf \in RegFile,
         NEW tr, tr \in [Before(blk, i) -> RegFile], NEW pr \in Seq(RegFile),
         Reported(blk, pr, tr, i)
  PROVE  /\ Reported(blk, Reports(pr, i, rf), Grown(tr, i, rf), After(blk, i))
         /\ Reports(pr, i, rf) \in Seq(RegFile)
<1> DEFINE N == NumSites(blk)
           P(k) == ProbeIndex(blk.sites[k])
           j2 == After(blk, i)
           pp == Reports(pr, i, rf)
           tt == Grown(tr, i, rf)
<1>1. PICK m \in 0 .. N : /\ Len(pr) = RankIn(blk, m)
                          /\ ReportsAre(blk, pr, tr, m)
                          /\ \A k \in 1 .. m : P(k) < i
                          /\ \A k \in m + 1 .. N : P(k) >= i
  BY DEF Reported
<1>2. N \in Nat /\ m \in Nat /\ m <= N /\ \A k \in 0 .. N : RankIn(blk, k) \in Nat
  BY RankIs
<1>3. /\ i \in Nat /\ j2 \in Nat /\ i < j2
      /\ \A j \in Path(blk) : i < j => j2 <= j
  BY AfterOnPath
<1>4. /\ \A k \in 1 .. N : P(k) \in Path(blk) /\ P(k) \in Nat
      /\ \A j, k \in 1 .. N : j < k => P(j) < P(k)
  BY ProbeSlot, ProbeOrder
<1>5. IsPc(Len(pr) + 1, i) <=> \E k \in 1 .. N :
         Probed(blk.sites[k]) /\ RankIn(blk, k) = Len(pr) + 1 /\ P(k) = i
  BY PcOnPath
<1>6. pp = IF IsPc(Len(pr) + 1, i) THEN Append(pr, rf) ELSE pr
  BY DEF Reports
<1>7. pp \in Seq(RegFile)
  BY <1>6
<1>8. /\ Len(pr) \in Nat /\ Len(Append(pr, rf)) = Len(pr) + 1
      /\ \A n \in 1 .. Len(pr) : Append(pr, rf)[n] = pr[n]
      /\ Append(pr, rf)[Len(pr) + 1] = rf
  OBVIOUS
<1>9. tt[i] = rf
  BY DEF Grown
<1>10. ReportsAre(blk, pp, tt, m)
  <2>1. Len(pr) <= Len(pp) /\ \A n \in 1 .. Len(pr) : pp[n] = pr[n]
    BY <1>6, <1>8
  <2> QED  BY <1>1, <1>7, <2>1, ReportsKept
<1> HIDE DEF N, P, j2, pp, tt
<1>11. CASE m < N /\ P(m + 1) = i
  <2> DEFINE l == m + 1
  <2>1. l \in 1 .. N /\ l \in 0 .. N /\ l = m + 1 /\ P(l) = i
    BY <1>2, <1>11
  <2>2. RankIn(blk, l) = IF Probed(blk.sites[l]) THEN RankIn(blk, m) + 1 ELSE RankIn(blk, m)
    BY <2>1, RankStep DEF N
  <2> HIDE DEF l
  <2>3. \A k \in 1 .. l : P(k) < j2
    <3>1. \A k \in 1 .. l : k \in 1 .. m \/ k = l
      BY <1>2, <2>1
    <3>2. \A k \in 1 .. l : k \in 1 .. N
      BY <1>2, <2>1
    <3> QED  BY <1>1, <1>3, <1>4, <2>1, <3>1, <3>2
  <2>4. \A k \in l + 1 .. N : P(k) >= j2
    <3> SUFFICES ASSUME NEW k \in l + 1 .. N PROVE P(k) >= j2
      OBVIOUS
    <3>1. k \in 1 .. N /\ l < k
      BY <1>2, <2>1
    <3>2. i < P(k) /\ P(k) \in Path(blk) /\ P(k) \in Nat
      BY <1>4, <2>1, <3>1
    <3> QED  BY <1>3, <3>2
  <2>5. CASE Probed(blk.sites[l])
    <3>1. IsPc(Len(pr) + 1, i)
      BY <1>1, <1>5, <2>1, <2>2, <2>5
    <3>2. pp = Append(pr, rf)
      BY <1>6, <3>1
    <3>3. Len(pp) = RankIn(blk, l) /\ pp[RankIn(blk, l)] = rf /\ RankIn(blk, l) \in 1 .. Len(pp)
      BY <1>1, <1>8, <2>2, <2>5, <3>2
    <3>4. \A k \in 1 .. l : k \in 1 .. m \/ k = l
      BY <1>2, <2>1
    <3>5. ReportsAre(blk, pp, tt, l)
      BY <1>9, <1>10, <2>1, <3>3, <3>4 DEF ReportsAre, P
    <3> QED  BY <1>7, <2>1, <2>3, <2>4, <3>3, <3>5 DEF Reported, N, P, j2, pp, tt
  <2>6. CASE ~ Probed(blk.sites[l])
    <3>1. ~ IsPc(Len(pr) + 1, i)
      <4> SUFFICES ASSUME NEW k \in 1 .. N, Probed(blk.sites[k]), P(k) = i PROVE FALSE
        BY <1>5
      <4>1. k # l
        BY <2>6
      <4>2. k < l \/ l < k
        BY <1>2, <2>1, <4>1
      <4>3. P(k) < P(l) \/ P(l) < P(k)
        BY <1>4, <2>1, <4>2
      <4> QED  BY <1>3, <2>1, <4>3
    <3>2. pp = pr
      BY <1>6, <3>1
    <3>3. Len(pp) = RankIn(blk, l)
      BY <1>1, <2>2, <2>6, <3>2
    <3>4. \A k \in 1 .. l : k \in 1 .. m \/ k = l
      BY <1>2, <2>1
    <3>5. ReportsAre(blk, pp, tt, l)
      BY <1>10, <2>6, <3>4 DEF ReportsAre
    <3> QED  BY <1>7, <2>1, <2>3, <2>4, <3>3, <3>5 DEF Reported, N, P, j2, pp, tt
  <2> QED  BY <2>5, <2>6
<1>12. CASE ~ (m < N /\ P(m + 1) = i)
  <2>1. \A k \in m + 1 .. N : P(k) > i
    <3> SUFFICES ASSUME NEW k \in m + 1 .. N PROVE P(k) > i
      OBVIOUS
    <3>1. m + 1 \in 1 .. N /\ k \in 1 .. N /\ m < N
      BY <1>2
    <3>2. P(m + 1) > i /\ P(m + 1) \in Nat /\ P(k) \in Nat
      BY <1>1, <1>2, <1>3, <1>4, <1>12, <3>1
    <3>3. CASE k = m + 1
      BY <3>2, <3>3
    <3>4. CASE k # m + 1
      <4>1. m + 1 < k
        BY <1>2, <3>4
      <4>2. P(m + 1) < P(k)
        BY <1>4, <3>1, <4>1
      <4> QED  BY <1>3, <3>2, <4>2
    <3> QED  BY <3>3, <3>4
  <2>2. \A k \in 1 .. N : k \in 1 .. m \/ k \in m + 1 .. N
    BY <1>2
  <2>3. \A k \in 1 .. N : P(k) # i
    BY <1>1, <1>3, <1>4, <2>1, <2>2
  <2>4. pp = pr
    BY <1>5, <1>6, <2>3
  <2>5. /\ \A k \in 1 .. m : P(k) < j2
        /\ \A k \in m + 1 .. N : P(k) >= j2
    <3>1. \A k \in 1 .. m : k \in 1 .. N
      BY <1>2
    <3>2. \A k \in m + 1 .. N : k \in 1 .. N
      BY <1>2
    <3> QED  BY <1>1, <1>3, <1>4, <2>1, <3>1, <3>2
  <2> QED  BY <1>1, <1>7, <1>10, <2>4, <2>5 DEF Reported, N, P, j2, pp, tt
<1> QED  BY <1>11, <1>12

\* At the check every probe has been reported.
LEMMA AllReported ==
  ASSUME NEW can, Planned(blk, can), NEW pr, NEW tr, Reported(blk, pr, tr, End(blk))
  PROVE  /\ Len(pr) = RankIn(blk, NumSites(blk))
         /\ ReportsAre(blk, pr, tr, NumSites(blk))
         /\ NumPcs = Len(pr) + 1 /\ IsPc(Len(pr) + 1, End(blk))
<1> DEFINE N == NumSites(blk)
           P(k) == ProbeIndex(blk.sites[k])
<1>1. PICK m \in 0 .. N : /\ Len(pr) = RankIn(blk, m)
                          /\ ReportsAre(blk, pr, tr, m)
                          /\ \A k \in m + 1 .. N : P(k) >= End(blk)
  BY DEF Reported
<1>2. N \in Nat /\ \A k \in 1 .. N : P(k) \in Path(blk)
  BY RankIs, ProbeSlot
<1>3. \A j \in Path(blk) : j \in Nat /\ ~ (j >= End(blk))
  BY AfterOnPath DEF End
<1> HIDE DEF P
<1>4. m = N
  <2> SUFFICES ASSUME m # N PROVE FALSE
    OBVIOUS
  <2>1. m + 1 \in m + 1 .. N /\ m + 1 \in 1 .. N
    BY <1>2
  <2> QED  BY <1>1, <1>2, <1>3, <2>1
<1>5. NumPcs = Len(pr) + 1
  BY <1>1, <1>4 DEF NumPcs, Rank, RankIn
<1>6. IsPc(Len(pr) + 1, End(blk))
  BY <1>5 DEF IsPc, End, Check
<1> QED  BY <1>1, <1>4, <1>5, <1>6

--------------------------------------------------------------------------------
(* The invariant holds.                                                      *)

CodeInv == ReadIInv /\ Laid(blk, CanBranch)

EntangleIInv == CodeInv /\ MachineInv

LEMMA CodeIsPlanned == CodeInv => Planned(blk, CanBranch)
<1> SUFFICES ASSUME CodeInv PROVE Planned(blk, CanBranch)
  OBVIOUS
<1>1. blk \in BlkType /\ Tiled(blk) /\ Reads(blk) /\ Laid(blk, CanBranch)
  BY DEF CodeInv, ReadIInv, SitesOK, BuilderIInv, BlkInv, CodeOK
<1>2. ASSUME NEW k \in 1 .. NumSites(blk), blk.sites[k].kind = "value"
      PROVE  /\ blk.sites[k].rprod \notin Elems(blk.sites[k].rdeps)
             /\ Len(blk.sites[k].rdeps) > 0
  <2>1. /\ blk.sites[k].rprod \notin Elems(blk.sites[k].rdeps)
        /\ blk.sites[k].rdeps # <<>>
    BY <1>1, <1>2 DEF Reads, ReadOK, ValueReads
  <2>2. blk.sites[k].rdeps \in Seq(Regs)
    BY <1>1, <1>2, SiteIn
  <2> QED  BY <2>1, <2>2
<1> QED  BY <1>1, <1>2 DEF Planned

LEMMA CodeNext == CodeInv /\ [BuilderNext]_builderVars => CodeInv'
<1> SUFFICES ASSUME CodeInv, [BuilderNext]_builderVars PROVE CodeInv'
  OBVIOUS
<1>1. ReadIInv /\ BuilderIInv /\ Tiled(blk) /\ Laid(blk, CanBranch)
  BY DEF CodeInv, ReadIInv, SitesOK
<1>2. Laid(blk', CanBranch) /\ CanBranch' = CanBranch
  BY <1>1, LaidNext
<1>3. ReadIInv'
  BY <1>1, ReadNext
<1> QED  BY <1>2, <1>3 DEF CodeInv

\* The pcs of the path, of the jumps to _fail and of where they go are apart.
LEMMA Apart ==
  ASSUME NEW can, NEW b, Planned(b, can)
  PROVE  /\ FailAts(b) \subseteq 1 .. Size(b) /\ Path(b) \subseteq 1 .. Size(b)
         /\ End(b) \notin Path(b)
         /\ FailAts(b) \cap (Path(b) \cup {End(b)}) = {}
         /\ {FAIL, TRAP, WILD} \cap (FailAts(b) \cup Path(b) \cup {End(b)}) = {}
         /\ FAIL # WILD /\ TRAP # WILD /\ Size(b) \in Nat /\ End(b) \in Nat
         /\ \A i \in 1 .. Size(b) : i \in Path(b) \cup FailAts(b)
<1>1. Size(b) \in Nat
  BY SizeType DEF Planned
<1>2. ASSUME NEW i \in FailAts(b) PROVE i \in 1 .. Size(b)
  <2>1. PICK k \in 1 .. NumSites(b) : b.sites[k].failAt # NoFail /\ i = b.sites[k].failAt
    BY DEF FailAts
  <2> QED  BY <2>1, SiteRange
<1>3. FAIL \notin Nat /\ TRAP \notin Nat /\ WILD \notin Nat /\ FAIL # WILD /\ TRAP # WILD
  BY EntangleAssumption
<1>4. End(b) \notin 1 .. Size(b) /\ End(b) \in Nat
  BY <1>1 DEF End
<1>5. Path(b) \subseteq 1 .. Size(b) /\ Path(b) \cap FailAts(b) = {}
      /\ \A i \in 1 .. Size(b) : i \in Path(b) \cup FailAts(b)
  BY DEF Path
<1> QED  BY <1>1, <1>2, <1>3, <1>4, <1>5

\* A run that has come to its end is in no slot.
LEMMA EndedIs ==
  ASSUME NEW can, Planned(blk, can), Ended
  PROVE  pc \notin 1 .. Size(blk)
BY Apart, EntangleAssumption DEF Ended, Check, End

\* What Spike told of the whole path.
LEMMA WholeStory ==
  ASSUME NEW can, NEW b, Planned(b, can), NEW tr, NEW rf, NEW start,
         Story(b, tr, End(b), rf, start)
  PROVE  /\ DOMAIN tr = Path(b) /\ rf \in RegFile
         /\ \A j \in Path(b) :
               /\ tr[j] \in RegFile /\ DraftAt(b, j, tr[j], tr)
               /\ Moves(b, j, tr[j], IF After(b, j) = End(b) THEN rf ELSE tr[After(b, j)])
         /\ DraftAt(b, End(b), rf, tr)
         /\ start = IF 1 = End(b) THEN rf ELSE tr[1]
<1>1. Before(b, End(b)) = Path(b)
  <2>1. \A j \in Path(b) : j < End(b)
    BY Apart DEF End
  <2> QED  BY <2>1 DEF Before
<1>2. /\ tr \in [Path(b) -> RegFile] /\ rf \in RegFile
      /\ \A j \in DOMAIN tr :
            /\ DraftAt(b, j, tr[j], tr)
            /\ Moves(b, j, tr[j], IF After(b, j) = End(b) THEN rf ELSE tr[After(b, j)])
      /\ DraftAt(b, End(b), rf, tr)
      /\ start = IF 1 = End(b) THEN rf ELSE tr[1]
  BY <1>1 DEF Story
<1> QED  BY <1>2

LEMMA ToldIs ==
  ASSUME NEW can, Planned(blk, can), Recorded
  PROVE  /\ boot = Told(blk, probes, trace, 1)
         /\ DOMAIN trace = Path(blk)
         /\ \A j \in Path(blk) \cup {End(blk)} :
               /\ Told(blk, probes, trace, j) \in RegFile
               /\ DraftAt(blk, j, Told(blk, probes, trace, j), trace)
         /\ \A j \in Path(blk) :
               /\ Told(blk, probes, trace, j) = trace[j]
               /\ Moves(blk, j, trace[j], Told(blk, probes, trace, After(blk, j)))
<1> DEFINE rf == probes[Len(probes)]
<1>1. Story(blk, trace, End(blk), rf, boot)
  BY DEF Recorded
<1> HIDE DEF rf
<1>2. /\ DOMAIN trace = Path(blk) /\ rf \in RegFile
      /\ \A j \in Path(blk) :
            /\ trace[j] \in RegFile /\ DraftAt(blk, j, trace[j], trace)
            /\ Moves(blk, j, trace[j],
                     IF After(blk, j) = End(blk) THEN rf ELSE trace[After(blk, j)])
      /\ DraftAt(blk, End(blk), rf, trace)
      /\ boot = IF 1 = End(blk) THEN rf ELSE trace[1]
  BY <1>1, WholeStory
<1>3. \A j : Told(blk, probes, trace, j) = IF j = End(blk) THEN rf ELSE trace[j]
  BY DEF Told, rf
<1>4. \A j \in Path(blk) : j # End(blk)
  BY Apart
<1> QED  BY <1>2, <1>3, <1>4

\* The final program in the first slot of its run.
LEMMA RunStarts ==
  ASSUME NEW can, Planned(blk, can), Recorded, boot \in RegFile
  PROVE  /\ 1 \in Path(blk) \cup {End(blk)} /\ SumAt(blk, 1, boot, trace)
         /\ Agree(blk, 1, boot, Told(blk, probes, trace, 1))
<1>1. 1 \in Path(blk) \cup {End(blk)}
  BY PathStart
<1>2. ASSUME NEW k \in 1 .. NumSites(blk) PROVE ~ Computing(blk, k, 1)
  <2> SUFFICES ASSUME Computing(blk, k, 1) PROVE FALSE
    OBVIOUS
  <2>1. At(blk, k) \in Nat /\ 1 <= At(blk, k)
    BY SiteRange
  <2>2. Len(blk.sites[k].rdeps) \in Nat
    BY DepsRange DEF Computing
  <2> QED  BY <2>1, <2>2 DEF Computing, ProducerLen
<1>3. SumAt(blk, 1, boot, trace)
  BY <1>2 DEF SumAt
<1>4. boot = Told(blk, probes, trace, 1)
  BY ToldIs
<1> QED  BY <1>1, <1>3, <1>4 DEF Agree

LEMMA SetupHolds == EntangleInit => EntangleIInv
<1> SUFFICES ASSUME EntangleInit PROVE EntangleIInv
  OBVIOUS
<1>1. BuilderInit
  BY DEF EntangleInit
<1>2. CodeInv
  BY <1>1, ReadInit, LaidInit DEF CodeInv
<1>3. boot \in RegFile
  BY EntangleAssumption DEF EntangleInit, RegFile
<1>4. MachineInv
  BY <1>3 DEF EntangleInit, MachineInv, Building
<1> QED  BY <1>2, <1>4 DEF EntangleIInv

LEMMA BuildHolds == EntangleIInv /\ Build => EntangleIInv'
<1> SUFFICES ASSUME EntangleIInv, Build PROVE EntangleIInv'
  OBVIOUS
<1>1. BuilderNext /\ UNCHANGED runVars /\ stage = "build"
  BY DEF Build
<1>2. CodeInv'
  BY <1>1, CodeNext DEF EntangleIInv
<1>3. boot \in RegFile /\ Building
  BY <1>1 DEF EntangleIInv, MachineInv
<1>4. MachineInv'
  BY <1>1, <1>3 DEF MachineInv, Building, runVars
<1> QED  BY <1>2, <1>4 DEF EntangleIInv

\* Once the code is built it stays as it is.
LEMMA CodeStays ==
  ASSUME CodeInv, UNCHANGED <<opts, blk, left, inBlock>>
  PROVE  CodeInv'
<1>1. UNCHANGED builderVars
  BY DEF builderVars
<1> QED  BY <1>1, CodeNext

LEMMA LinkHolds == EntangleIInv /\ Link => EntangleIInv'
<1> SUFFICES ASSUME EntangleIInv, Link PROVE EntangleIInv'
  OBVIOUS
<1>1. /\ CodeInv /\ MachineInv /\ Planned(blk, CanBranch)
      /\ UNCHANGED <<opts, blk, left, inBlock>>
  BY CodeIsPlanned DEF EntangleIInv, Link
<1>2. CodeInv'
  BY <1>1, CodeStays
<1>3. /\ boot \in RegFile /\ probes = <<>> /\ trace = <<>> /\ ~ corrupt
      /\ stage' = "draft" /\ image' = Image({}, FALSE) /\ pc' = 1 /\ regs' = boot
      /\ blk' = blk /\ boot' = boot /\ probes' = probes /\ trace' = trace
      /\ corrupt' = corrupt
  BY <1>1 DEF MachineInv, Building, Link, Restart
<1>4. DraftImage(blk, Image({}, FALSE))
  <2>1. Placed(blk)
    BY DEF Link, Placed, Check, End
  <2> QED  BY <1>1, <2>1, DraftIsRendered
<1>5. Story(blk, <<>>, 1, boot, boot)
  BY <1>1, <1>3, StoryStart
<1>6. Reported(blk, <<>>, <<>>, 1)
  BY <1>1, ReportStart
<1>7. Drafting'
  <2>1. DraftImage(blk', image') /\ Story(blk', trace', pc', regs', boot')
        /\ Reported(blk', probes', trace', pc')
    BY <1>3, <1>4, <1>5, <1>6
  <2>2. probes' \in Seq(RegFile) /\ ~ corrupt'
    BY <1>3
  <2> QED  BY <2>1, <2>2 DEF Drafting
<1>8. MachineInv'
  BY <1>3, <1>7 DEF MachineInv
<1> QED  BY <1>2, <1>8 DEF EntangleIInv

LEMMA DraftStepHolds == EntangleIInv /\ DraftStep => EntangleIInv'
<1> SUFFICES ASSUME EntangleIInv, DraftStep PROVE EntangleIInv'
  OBVIOUS
<1>1. /\ CodeInv /\ MachineInv /\ Planned(blk, CanBranch)
      /\ UNCHANGED <<opts, blk, left, inBlock>>
  BY CodeIsPlanned DEF EntangleIInv, DraftStep
<1>2. CodeInv'
  BY <1>1, CodeStays
<1>3. /\ DraftImage(blk, image) /\ Story(blk, trace, pc, regs, boot)
      /\ Reported(blk, probes, trace, pc) /\ probes \in Seq(RegFile)
      /\ ~ corrupt /\ boot \in RegFile
  BY <1>1 DEF MachineInv, Drafting, DraftStep
<1>4. pc \in Path(blk) /\ regs \in RegFile /\ trace \in [Before(blk, pc) -> RegFile]
  <2>1. pc \in 1 .. Size(blk) /\ pc \in Path(blk) \cup {End(blk)} /\ regs \in RegFile
        /\ trace \in [Before(blk, pc) -> RegFile]
    BY <1>3 DEF DraftStep, Running, Story
  <2>2. Size(blk) \in Nat
    BY <1>1, Apart
  <2> QED  BY <2>1, <2>2 DEF End
<1>5. PICK e \in Outcomes(pc, regs) : pc' = e.pc /\ regs' = e.regs
  BY DEF DraftStep, Execute
<1>6. /\ probes' = Reports(probes, pc, regs)
      /\ trace' = Grown(trace, pc, regs)
      /\ stage' = "draft" /\ image' = image /\ boot' = boot /\ corrupt' = corrupt
      /\ blk' = blk
  BY DEF DraftStep, Report, Reports, Grown
<1>7. /\ Story(blk, Grown(trace, pc, regs), e.pc, e.regs, boot)
      /\ e.pc = After(blk, pc)
  BY <1>1, <1>3, <1>4, StoryStep
<1>8. /\ Reported(blk, Reports(probes, pc, regs), Grown(trace, pc, regs), After(blk, pc))
      /\ Reports(probes, pc, regs) \in Seq(RegFile)
  BY <1>1, <1>3, <1>4, ReportStep
<1>9. Drafting'
  <2>1. DraftImage(blk', image') /\ Story(blk', trace', pc', regs', boot')
        /\ Reported(blk', probes', trace', pc')
    BY <1>3, <1>5, <1>6, <1>7, <1>8
  <2>2. probes' \in Seq(RegFile) /\ ~ corrupt'
    BY <1>3, <1>6, <1>8
  <2> QED  BY <2>1, <2>2 DEF Drafting
<1>10. MachineInv'
  BY <1>3, <1>6, <1>9 DEF MachineInv
<1> QED  BY <1>2, <1>10 DEF EntangleIInv

LEMMA DraftStopHolds == EntangleIInv /\ DraftStop => EntangleIInv'
<1> SUFFICES ASSUME EntangleIInv, DraftStop PROVE EntangleIInv'
  OBVIOUS
<1>1. /\ CodeInv /\ MachineInv /\ Planned(blk, CanBranch)
      /\ UNCHANGED <<opts, blk, left, inBlock>>
  BY CodeIsPlanned DEF EntangleIInv, DraftStop
<1>2. CodeInv'
  BY <1>1, CodeStays
<1>3. /\ Story(blk, trace, pc, regs, boot) /\ Placed(blk)
      /\ Reported(blk, probes, trace, pc) /\ probes \in Seq(RegFile)
      /\ ~ corrupt /\ boot \in RegFile
  BY <1>1 DEF MachineInv, Drafting, DraftStop, DraftImage, CommonImage
<1>4. pc = End(blk) /\ regs \in RegFile
  <2>1. pc \notin 1 .. Size(blk) /\ pc \in Path(blk) \cup {End(blk)} /\ regs \in RegFile
    BY <1>1, <1>3, EndedIs DEF DraftStop, Story
  <2> QED  BY <1>1, <2>1, Apart
<1>5. /\ Len(probes) = RankIn(blk, NumSites(blk))
      /\ ReportsAre(blk, probes, trace, NumSites(blk))
      /\ NumPcs = Len(probes) + 1 /\ IsPc(Len(probes) + 1, End(blk))
  BY <1>1, <1>3, <1>4, AllReported
<1>6. probes' = Append(probes, regs)
  BY <1>4, <1>5 DEF DraftStop, Report
<1>7. /\ probes' \in Seq(RegFile) /\ Len(probes') = Len(probes) + 1
      /\ probes'[Len(probes')] = regs
      /\ \A n \in 1 .. Len(probes) : n \in 1 .. Len(probes') /\ probes'[n] = probes[n]
  BY <1>3, <1>4, <1>6
<1>8. stage' = "resolve" /\ trace' = trace /\ boot' = boot /\ corrupt' = corrupt
      /\ blk' = blk
  BY <1>5, <1>7 DEF DraftStop
<1>9. ReportsAre(blk, probes', trace, NumSites(blk))
  BY <1>5, <1>7 DEF ReportsAre
<1>10. Recorded'
  <2>1. Len(probes') = RankIn(blk', NumSites(blk')) + 1
    BY <1>5, <1>7, <1>8
  <2>2. Story(blk', trace', End(blk'), probes'[Len(probes')], boot')
    BY <1>3, <1>4, <1>7, <1>8
  <2>3. ReportsAre(blk', probes', trace', NumSites(blk'))
    BY <1>8, <1>9
  <2>4. Placed(blk')
    BY <1>3, <1>8
  <2> QED  BY <1>7, <2>1, <2>2, <2>3, <2>4 DEF Recorded
<1>11. MachineInv'
  BY <1>3, <1>8, <1>10 DEF MachineInv
<1> QED  BY <1>2, <1>11 DEF EntangleIInv

\* There is an opcode for every branch, whatever Spike told of its operands.
LEMMA SomeOpcode ==
  ASSUME CodeInv, NEW k \in SiteKind(blk, "branch")
  PROVE  Candidates(k) # {}
<1> DEFINE site == blk.sites[k]
           a == Val(probes[Rank(k)], site.rs1)
           b == Val(probes[Rank(k)], site.rs2)
<1>1. Planned(blk, CanBranch)
  BY CodeIsPlanned
<1>2. k \in 1 .. NumSites(blk) /\ site.kind = "branch"
  BY <1>1, SizeType DEF SiteKind, Planned
<1>3. CanBranch
  BY <1>2 DEF CodeInv, Laid, SiteLaid
<1>4. site.taken \in BOOLEAN
  BY <1>1, <1>2, Kinds, BranchRange
<1>5. PICK p \in BranchPairs : p[1] \in opts.enabled /\ p[2] \in opts.enabled
  <2>1. /\ <<"beq", "bne">> \in BranchPairs /\ <<"blt", "bge">> \in BranchPairs
        /\ <<"bltu", "bgeu">> \in BranchPairs
    BY DEF BranchPairs
  <2> QED  BY <1>3, <2>1 DEF CanBranch, CanGuard
<1>6. p[1] \in EnabledBranches /\ p[2] \in EnabledBranches
  <2> DEFINE S == {{q[1], q[2]} : q \in BranchPairs}
  <2>1. {p[1], p[2]} \in S
    OBVIOUS
  <2>2. EnabledBranches = (UNION S) \cap opts.enabled
    BY DEF EnabledBranches
  <2> HIDE DEF S
  <2>3. p[1] \in UNION S /\ p[2] \in UNION S
    BY <2>1
  <2> QED  BY <1>5, <2>2, <2>3
<1>7. Taken(p[1], a, b) <=> ~ Taken(p[2], a, b)
  <2>1. p \in {<<"beq", "bne">>, <<"blt", "bge">>, <<"bltu", "bgeu">>}
    BY DEF BranchPairs
  <2> HIDE DEF a, b
  <2>2. CASE p = <<"beq", "bne">>
    BY <2>2 DEF Taken
  <2>3. CASE p = <<"blt", "bge">>
    BY <2>3 DEF Taken
  <2>4. CASE p = <<"bltu", "bgeu">>
    BY <2>4 DEF Taken
  <2> QED  BY <2>1, <2>2, <2>3, <2>4
<1>8. Taken(p[1], a, b) \in BOOLEAN /\ Taken(p[2], a, b) \in BOOLEAN
  BY DEF Taken
<1>9. Taken(p[1], a, b) = site.taken \/ Taken(p[2], a, b) = site.taken
  BY <1>4, <1>7, <1>8
<1>10. \A cc \in EnabledBranches : Taken(cc, a, b) = site.taken => cc \in Candidates(k)
  BY DEF Candidates
<1> QED  BY <1>6, <1>9, <1>10

LEMMA ResolveHolds == EntangleIInv /\ Resolve => EntangleIInv'
<1> SUFFICES ASSUME EntangleIInv, Resolve PROVE EntangleIInv'
  OBVIOUS
<1>1. /\ CodeInv /\ MachineInv /\ Planned(blk, CanBranch)
      /\ UNCHANGED <<opts, blk, left, inBlock>>
  BY CodeIsPlanned DEF EntangleIInv, Resolve
<1>2. CodeInv'
  BY <1>1, CodeStays
<1>3. Recorded /\ ~ corrupt /\ boot \in RegFile
  BY <1>1 DEF MachineInv, Resolve
<1>4. ~ \E k \in SiteKind(blk, "branch") : Candidates(k) = {}
  BY <1>1, SomeOpcode
<1>5. /\ stage' = "final" /\ pc' = 1 /\ regs' = boot
      /\ blk' = blk /\ boot' = boot /\ probes' = probes /\ trace' = trace
      /\ corrupt' = corrupt
  BY <1>4 DEF Resolve, Restart
<1>6. PICK ccs : /\ \A k \in SiteKind(blk, "branch") : ccs[k] \in Candidates(k)
                 /\ image' = Image(ccs, TRUE)
  BY <1>4 DEF Resolve
<1>7. FinalImage(blk, image', trace)
  <2>1. ReportsAre(blk, probes, trace, NumSites(blk)) /\ Placed(blk)
    BY <1>3 DEF Recorded
  <2>2. FinalImage(blk, Image(ccs, TRUE), trace)
    BY <1>1, <1>6, <2>1, FinalIsRendered
  <2> QED  BY <1>6, <2>2
<1>8. /\ 1 \in Path(blk) \cup {End(blk)} /\ SumAt(blk, 1, boot, trace)
      /\ Agree(blk, 1, boot, Told(blk, probes, trace, 1))
  BY <1>1, <1>3, RunStarts
<1>9. Recorded'
  BY <1>3, <1>5 DEF Recorded
<1>10. Resolved'
  <2>1. FinalImage(blk', image', trace') /\ regs' \in RegFile
    BY <1>3, <1>5, <1>7
  <2>2. /\ pc' \in Path(blk') \cup {End(blk')} /\ SumAt(blk', pc', regs', trace')
        /\ Agree(blk', pc', regs', Told(blk', probes', trace', pc'))
    BY <1>5, <1>8
  <2> QED  BY <1>9, <2>1, <2>2 DEF Resolved
<1>11. MachineInv'
  BY <1>3, <1>5, <1>10 DEF MachineInv
<1> QED  BY <1>2, <1>11 DEF EntangleIInv

\* Where a step of the final program leads, on Spike or on the device.
Fine(i, rf, bad) ==
    /\ rf \in RegFile
    /\ i \in Path(blk) \cup {End(blk)} \cup FailAts(blk) \cup {FAIL, TRAP, WILD}
    /\ i \in Path(blk) \cup {End(blk)} => SumAt(blk, i, rf, trace)
    /\ ~ bad => /\ i \in Path(blk) \cup {End(blk)}
                /\ Agree(blk, i, rf, Told(blk, probes, trace, i))

LEMMA RunFine ==
  ASSUME NEW can, Planned(blk, can), Resolved, pc \in 1 .. Size(blk),
         NEW e \in Outcomes(pc, regs)
  PROVE  Fine(e.pc, e.regs, corrupt)
<1>1. /\ Recorded /\ FinalImage(blk, image, trace) /\ regs \in RegFile
      /\ pc \in Path(blk) \cup {End(blk)} => SumAt(blk, pc, regs, trace)
      /\ ~ corrupt => /\ pc \in Path(blk) \cup {End(blk)}
                      /\ Agree(blk, pc, regs, Told(blk, probes, trace, pc))
  BY DEF Resolved
<1>2. /\ pc \in Path(blk) \cup FailAts(blk)
      /\ FailAts(blk) \cap (Path(blk) \cup {End(blk)}) = {}
      /\ {FAIL, TRAP, WILD} \cap (FailAts(blk) \cup Path(blk) \cup {End(blk)}) = {}
  BY Apart
<1>3. CASE pc \in FailAts(blk)
  <2>1. PICK k \in 1 .. NumSites(blk) : OnFail(blk, k, pc)
    BY <1>3, FailSlot
  <2>2. image[pc] = JalFail
    BY <1>1, <2>1 DEF FinalImage, CommonImage
  <2>3. e.pc = FAIL /\ e.regs = regs
    BY <1>1, <2>2, RunPlain
  <2>4. corrupt
    BY <1>1, <1>2, <1>3
  <2> QED  BY <1>1, <1>2, <2>3, <2>4 DEF Fine
<1>4. CASE pc \in Path(blk)
  <2>1. /\ e.regs \in RegFile
        /\ e.pc = After(blk, pc) => Moves(blk, pc, regs, e.regs)
        /\ e.pc \in {After(blk, pc)} \cup Lost \cup FailAts(blk)
        /\ \A k \in 1 .. NumSites(blk) : SumMoves(blk, k, pc, regs, e.regs, trace)
    BY <1>1, <1>4, FinalSlot, WrongTurnLeads
  <2>2. SumAt(blk, pc, regs, trace)
    BY <1>1, <1>4
  <2>3. e.pc = After(blk, pc) => SumAt(blk, After(blk, pc), e.regs, trace)
    BY <1>1, <1>4, <2>1, <2>2, FinalNext
  <2>4. After(blk, pc) \in Path(blk) \cup {End(blk)}
    BY <1>4, AfterOnPath
  <2>5. e.pc \in Path(blk) \cup {End(blk)} => SumAt(blk, e.pc, e.regs, trace)
    BY <1>2, <2>1, <2>3 DEF Lost
  <2>6. ASSUME ~ corrupt
        PROVE  /\ e.pc \in Path(blk) \cup {End(blk)}
               /\ Agree(blk, e.pc, e.regs, Told(blk, probes, trace, e.pc))
    <3> DEFINE j == After(blk, pc)
               tf == Told(blk, probes, trace, pc)
               tg == Told(blk, probes, trace, j)
    <3>1. /\ tf = trace[pc] /\ tf \in RegFile /\ DraftAt(blk, pc, tf, trace)
          /\ Moves(blk, pc, trace[pc], tg)
          /\ tg \in RegFile /\ DraftAt(blk, j, tg, trace)
      BY <1>1, <1>4, <2>4, ToldIs
    <3>2. Agree(blk, pc, regs, tf)
      BY <1>1, <2>6
    <3> HIDE DEF tf, tg
    <3>3. e.pc = j
      BY <1>1, <1>4, <3>1, <3>2, CleanTurn
    <3>4. Agree(blk, j, e.regs, tg)
      BY <1>1, <1>4, <2>1, <2>3, <3>1, <3>2, <3>3, AgreeStep
    <3> QED  BY <2>4, <3>3, <3>4 DEF tg
  <2> QED  BY <2>1, <2>4, <2>5, <2>6 DEF Fine, Lost
<1> QED  BY <1>2, <1>3, <1>4

\* A step that leaves all but the machine as it is.
LEMMA StepHolds ==
  ASSUME EntangleIInv, stage \notin {"build", "draft", "resolve"},
         UNCHANGED <<opts, blk, left, inBlock, stage, image, boot, probes, trace>>,
         corrupt => corrupt', stage \in {"final", "accepted"} => ~ corrupt',
         Resolved => Fine(pc', regs', corrupt')
  PROVE  EntangleIInv'
<1>1. CodeInv' /\ MachineInv
  BY CodeStays DEF EntangleIInv
<1>2. Recorded /\ FinalImage(blk, image, trace) /\ Fine(pc', regs', corrupt')
  BY <1>1 DEF MachineInv, Resolved
<1>3. Recorded'
  BY <1>2 DEF Recorded
<1>4. Resolved'
  <2>1. FinalImage(blk', image', trace')
    BY <1>2
  <2> QED  BY <1>2, <1>3, <2>1 DEF Resolved, Fine
<1>5. MachineInv'
  BY <1>1, <1>4 DEF MachineInv
<1> QED  BY <1>1, <1>5 DEF EntangleIInv

LEMMA FinalStepHolds == EntangleIInv /\ FinalStep => EntangleIInv'
<1> SUFFICES ASSUME EntangleIInv, FinalStep PROVE EntangleIInv'
  OBVIOUS
<1>1. Planned(blk, CanBranch) /\ Resolved /\ ~ corrupt
  BY CodeIsPlanned DEF EntangleIInv, MachineInv, FinalStep
<1>2. PICK e \in Outcomes(pc, regs) : pc' = e.pc /\ regs' = e.regs
  BY DEF FinalStep, Execute
<1>3. pc \in 1 .. Size(blk) /\ stage = "final" /\ corrupt' = corrupt
      /\ UNCHANGED <<opts, blk, left, inBlock, stage, image, boot, probes, trace>>
  BY DEF FinalStep, Running
<1>4. Fine(pc', regs', corrupt')
  BY <1>1, <1>2, <1>3, RunFine
<1> QED  BY <1>1, <1>3, <1>4, StepHolds

LEMMA DeviceStepHolds == EntangleIInv /\ DeviceStep => EntangleIInv'
<1> SUFFICES ASSUME EntangleIInv, DeviceStep PROVE EntangleIInv'
  OBVIOUS
<1>1. Planned(blk, CanBranch) /\ Resolved
  BY CodeIsPlanned DEF EntangleIInv, MachineInv, DeviceStep
<1>2. PICK e \in Outcomes(pc, regs) : pc' = e.pc /\ regs' = e.regs
  BY DEF DeviceStep, Execute
<1>3. pc \in 1 .. Size(blk) /\ stage = "device" /\ corrupt' = corrupt
      /\ UNCHANGED <<opts, blk, left, inBlock, stage, image, boot, probes, trace>>
  BY DEF DeviceStep, Running
<1>4. Fine(pc', regs', corrupt')
  BY <1>1, <1>2, <1>3, RunFine
<1> QED  BY <1>1, <1>3, <1>4, StepHolds

\* Without a wrong result a run that is over has come to the check and passes it.
LEMMA CleanMatches ==
  ASSUME NEW can, Planned(blk, can), Resolved, ~ corrupt, pc \notin 1 .. Size(blk)
  PROVE  Matches
<1>1. /\ pc \in Path(blk) \cup {End(blk)}
      /\ Agree(blk, pc, regs, Told(blk, probes, trace, pc))
  BY DEF Resolved
<1>2. pc = End(blk)
  BY <1>1, Apart
<1>3. \A r \in Regs : regs[r] = probes[Len(probes)][r]
  <2>1. \A r : ~ ProducingIn(blk, pc, r)
    BY <1>2, Apart DEF ProducingIn, End
  <2> QED  BY <1>1, <1>2, <2>1 DEF Agree, Told, State
<1> QED  BY <1>2, <1>3 DEF Matches, Check, End

LEMMA FinalStopHolds == EntangleIInv /\ FinalStop => EntangleIInv'
<1> SUFFICES ASSUME EntangleIInv, FinalStop PROVE EntangleIInv'
  OBVIOUS
<1>1. Planned(blk, CanBranch) /\ Resolved /\ ~ corrupt
  BY CodeIsPlanned DEF EntangleIInv, MachineInv, FinalStop
<1>2. Matches
  BY <1>1, EndedIs, CleanMatches DEF FinalStop
<1>3. /\ stage' = "accepted"
      /\ UNCHANGED <<opts, blk, left, inBlock, image, pc, regs, boot, probes, trace, corrupt>>
  BY <1>2 DEF FinalStop
<1>4. CodeInv'
  BY <1>3, CodeStays DEF EntangleIInv
<1>5. Resolved' /\ boot \in RegFile
  BY <1>1, <1>3 DEF Resolved, Recorded, EntangleIInv, MachineInv
<1>6. MachineInv'
  BY <1>1, <1>3, <1>5 DEF MachineInv
<1> QED  BY <1>4, <1>6 DEF EntangleIInv

LEMMA StartDeviceHolds == EntangleIInv /\ StartDevice => EntangleIInv'
<1> SUFFICES ASSUME EntangleIInv, StartDevice PROVE EntangleIInv'
  OBVIOUS
<1>1. /\ Planned(blk, CanBranch) /\ Resolved /\ ~ corrupt /\ boot \in RegFile
      /\ Recorded /\ FinalImage(blk, image, trace)
  BY CodeIsPlanned DEF EntangleIInv, MachineInv, StartDevice, Resolved
<1>2. /\ stage' = "device" /\ pc' = 1 /\ regs' = boot
      /\ UNCHANGED <<opts, blk, left, inBlock, image, boot, probes, trace, corrupt>>
  BY DEF StartDevice, Restart
<1>3. CodeInv'
  BY <1>2, CodeStays DEF EntangleIInv
<1>4. /\ 1 \in Path(blk) \cup {End(blk)} /\ SumAt(blk, 1, boot, trace)
      /\ Agree(blk, 1, boot, Told(blk, probes, trace, 1))
  BY <1>1, RunStarts
<1>5. Resolved'
  <2>1. Recorded'
    BY <1>1, <1>2 DEF Recorded
  <2>2. FinalImage(blk', image', trace') /\ regs' \in RegFile
    BY <1>1, <1>2
  <2>3. /\ pc' \in Path(blk') \cup {End(blk')} /\ SumAt(blk', pc', regs', trace')
        /\ Agree(blk', pc', regs', Told(blk', probes', trace', pc'))
    BY <1>2, <1>4
  <2> QED  BY <2>1, <2>2, <2>3 DEF Resolved
<1>6. MachineInv'
  BY <1>1, <1>2, <1>5 DEF MachineInv
<1> QED  BY <1>3, <1>6 DEF EntangleIInv

\* What is in a slot of the image when it is workload.
LEMMA WorkSlot ==
  ASSUME NEW can, Planned(blk, can), NEW tr,
         DraftImage(blk, image) \/ FinalImage(blk, image, tr),
         NEW i \in 1 .. Size(blk), image[i] \in WorkInstrs
  PROVE  ~ InSite(blk, i) /\ image[i] = blk.instrs[i] /\ i \in Path(blk)
<1> SUFFICES ASSUME CommonImage(blk, image), InSite(blk, i) PROVE FALSE
  <2>1. ASSUME i \in FailAts(blk) PROVE InSite(blk, i)
    <3>1. PICK k \in 1 .. NumSites(blk) : OnFail(blk, k, i)
      BY <2>1, FailSlot
    <3> QED  BY <3>1, RoleInSite DEF Role
  <2>2. i \in Path(blk) \cup FailAts(blk)
    BY Apart
  <2>3. CommonImage(blk, image)
    BY DEF DraftImage, FinalImage
  <2> QED  BY <2>1, <2>2, <2>3 DEF CommonImage
<1>1. image[i].op \notin {"nop", "skip", "jalr", "fixup", "li", "xor", "branch", "fail"}
  BY SiteBuilderAssumption, EntangleAssumption
<1>2. PICK k \in 1 .. NumSites(blk) : Role(blk, k, i)
  BY SlotCases
<1>3. CASE OnFail(blk, k, i)
  BY <1>1, <1>3 DEF CommonImage, JalFail
<1>4. CASE OnJump(blk, k, i)
  <2>1. \E rd \in Regs : blk.instrs[i] = Jalr(rd, blk.sites[k].rprod)
    BY <1>4, JumpSlot
  <2>2. image[i] = blk.instrs[i]
    BY <1>4 DEF CommonImage
  <2> QED  BY <1>1, <2>1, <2>2 DEF Jalr
<1>5. CASE OnSkip(blk, k, i)
  BY <1>1, <1>5 DEF CommonImage, JalSkip
<1>6. CASE OnHead(blk, k, i)
  <2>1. \E rd, value : image[i] = Li(rd, value)
    BY <1>6 DEF DraftImage, FinalImage
  <2> QED  BY <1>1, <2>1 DEF Li
<1>7. CASE OnXor(blk, k, i)
  <2>1. \E rd, rs : image[i] = XorInto(rd, rs)
    BY <1>7 DEF DraftImage, FinalImage
  <2> QED  BY <1>1, <2>1 DEF XorInto
<1>8. CASE OnTurn(blk, k, i)
  <2>1. blk.sites[k].kind \in {"branch", "guard"}
    BY <1>8 DEF OnTurn, BranchKinds
  <2>2. CASE blk.sites[k].kind = "guard"
    <3>1. image[i] = GuardBranch(blk.sites[k])
      BY <1>8, <2>2 DEF CommonImage
    <3> QED  BY <1>1, <3>1 DEF GuardBranch, Branch
  <2>3. CASE blk.sites[k].kind = "branch"
    <3>1. \/ image[i] \in {JalSkip, Nop}
          \/ \E cc \in AllBranches :
                image[i] = Branch(cc, blk.sites[k].rs1, blk.sites[k].rs2)
      BY <1>8, <2>3 DEF DraftImage, FinalImage
    <3>2. \A cc, rs1, rs2 : Branch(cc, rs1, rs2).op = "branch"
      BY DEF Branch
    <3>3. JalSkip.op = "skip" /\ Nop.op = "nop"
      BY DEF JalSkip, Nop
    <3>4. image[i].op \in {"skip", "nop", "branch"}
      BY <3>1, <3>2, <3>3
    <3> QED  BY <1>1, <3>4
  <2> QED  BY <2>1, <2>2, <2>3
<1> QED  BY <1>2, <1>3, <1>4, <1>5, <1>6, <1>7, <1>8 DEF Role

LEMMA MiscomputeHolds == EntangleIInv /\ Miscompute => EntangleIInv'
<1> SUFFICES ASSUME EntangleIInv, Miscompute PROVE EntangleIInv'
  OBVIOUS
<1>1. /\ Planned(blk, CanBranch) /\ Resolved /\ Recorded /\ regs \in RegFile
      /\ FinalImage(blk, image, trace)
  BY CodeIsPlanned DEF EntangleIInv, MachineInv, Miscompute, Resolved
<1> DEFINE w == image[pc]
<1>2. /\ pc \in 1 .. Size(blk) /\ stage = "device" /\ corrupt' = TRUE
      /\ UNCHANGED <<opts, blk, left, inBlock, stage, image, boot, probes, trace>>
      /\ pc' = pc + 1 /\ w \in WorkInstrs /\ w.rd # ZERO
  BY DEF Miscompute, Running
<1>3. PICK bits \in Faults : regs' = [Effect(pc, regs).regs EXCEPT ![w.rd] = Xor(@, bits)]
  BY DEF Miscompute
<1>4. ~ InSite(blk, pc) /\ pc \in Path(blk)
  BY <1>1, <1>2, WorkSlot
<1>5. After(blk, pc) = pc + 1 /\ After(blk, pc) \in Path(blk) \cup {End(blk)}
  BY <1>1, <1>2, <1>4, AfterIs, AfterOnPath
<1>6. SumAt(blk, After(blk, pc), regs', trace)
  <2> SUFFICES ASSUME NEW k \in 1 .. NumSites(blk), Computing(blk, k, After(blk, pc))
               PROVE  FALSE
    BY DEF SumAt
  <2>1. OnHead(blk, k, pc) \/ OnXor(blk, k, pc)
    BY <1>1, <1>4, ComputingAfter
  <2> QED  BY <1>1, <1>2, <1>4, <2>1, RoleInSite DEF Role
<1>7. regs' \in RegFile
  <2> DEFINE rg == Result(w, regs)
  <2>1. w.op \notin {"nop", "skip", "jalr", "fixup", "li", "xor", "branch", "fail"}
    BY <1>2, SiteBuilderAssumption, EntangleAssumption
  <2>2. Effect(pc, regs).regs = rg
    BY <2>1 DEF Effect
  <2>3. rg \in RegFile
    BY XorWords DEF Result, RegFile
  <2>4. w.rd \in Regs
    BY <1>2, SiteBuilderAssumption
  <2> HIDE DEF rg, w
  <2>5. w.rd \in State /\ rg[w.rd] \in Word /\ bits \in Word
    BY <2>3, <2>4, EntangleAssumption, RegFileFacts DEF State
  <2>6. Xor(rg[w.rd], bits) \in Word
    BY <2>5, XorWords
  <2>7. [rg EXCEPT ![w.rd] = Xor(rg[w.rd], bits)] \in RegFile
    BY <2>3, <2>5, <2>6, RegFileFacts
  <2>8. regs' = [rg EXCEPT ![w.rd] = Xor(rg[w.rd], bits)]
    BY <1>3, <2>2
  <2> QED  BY <2>7, <2>8
<1>8. Fine(pc', regs', TRUE)
  BY <1>2, <1>5, <1>6, <1>7 DEF Fine
<1>9. Fine(pc', regs', corrupt') /\ stage \notin {"build", "draft", "resolve", "final", "accepted"}
  BY <1>2, <1>8
<1> QED  BY <1>2, <1>9, StepHolds

LEMMA DeviceStopHolds == EntangleIInv /\ DeviceStop => EntangleIInv'
<1> SUFFICES ASSUME EntangleIInv, DeviceStop PROVE EntangleIInv'
  OBVIOUS
<1>1. /\ stage' \in {"missed", "caught"} /\ stage = "device"
      /\ UNCHANGED <<opts, blk, left, inBlock, image, pc, regs, boot, probes, trace, corrupt>>
  BY DEF DeviceStop
<1>2. Resolved /\ boot \in RegFile
  BY <1>1 DEF EntangleIInv, MachineInv
<1>3. CodeInv'
  BY <1>1, CodeStays DEF EntangleIInv
<1>4. Resolved'
  BY <1>1, <1>2 DEF Resolved, Recorded
<1>5. stage' = "caught" => corrupt'
  <2> SUFFICES ASSUME ~ corrupt PROVE Matches
    BY <1>1 DEF DeviceStop
  <2> QED  BY <1>1, <1>2, CodeIsPlanned, EndedIs, CleanMatches DEF EntangleIInv, DeviceStop
<1>6. MachineInv'
  BY <1>1, <1>2, <1>4, <1>5 DEF MachineInv
<1> QED  BY <1>3, <1>6 DEF EntangleIInv

LEMMA EntangleNextHolds == EntangleIInv /\ [Next]_vars => EntangleIInv'
<1>1. EntangleIInv /\ UNCHANGED vars => EntangleIInv'
  <2> SUFFICES ASSUME EntangleIInv, UNCHANGED vars PROVE EntangleIInv'
    OBVIOUS
  <2>1. CodeInv'
    BY CodeStays DEF EntangleIInv, vars
  <2>2. MachineInv'
    BY DEF EntangleIInv, vars, MachineInv, Building, Drafting, Recorded, Resolved
  <2> QED  BY <2>1, <2>2 DEF EntangleIInv
<1> QED
  BY <1>1, BuildHolds, LinkHolds, DraftStepHolds, DraftStopHolds, ResolveHolds,
     FinalStepHolds, FinalStopHolds, StartDeviceHolds, DeviceStepHolds,
     MiscomputeHolds, DeviceStopHolds DEF Next

\* Every state of every run is one of these (orchestrator.rs: resolve_self_check).
THEOREM EntangleInvariance == Spec => []EntangleIInv
BY SetupHolds, EntangleNextHolds, PTL DEF Spec

--------------------------------------------------------------------------------
(* What follows from it.                                                     *)

\* No program is given up: Spike reaches every probe of the draft, there is an
\* opcode for every branch, and the final program passes its check
\* (orchestrator.rs: resolve_self_check).
THEOREM NothingIsGivenUp == Spec => [](stage # "failed")
<1>1. EntangleIInv => stage # "failed"
  BY DEF EntangleIInv, MachineInv
<1> QED  BY <1>1, EntangleInvariance, PTL

\* A device that computes every result right is never told wrong, whatever its
\* implementation-dependent CSRs read as (entangle.rs: guard).
THEOREM RightIsNotToldWrong == Spec => []NoFalseAlarm
<1>1. EntangleIInv => NoFalseAlarm
  BY DEF EntangleIInv, MachineInv, NoFalseAlarm
<1> QED  BY <1>1, EntangleInvariance, PTL

\* What a workload instruction finds in its base register.
LEMMA Confined == EntangleIInv => AccessesAreConfined
<1> DEFINE w == image[pc]
<1> SUFFICES ASSUME EntangleIInv, Running, ~ corrupt, w \in WorkInstrs, w.base # ZERO
             PROVE  regs[w.base] \in Addresses
  BY DEF AccessesAreConfined
<1>1. /\ Planned(blk, CanBranch) /\ pc \in 1 .. Size(blk) /\ MachineInv
      /\ stage \in {"draft", "final", "device"}
  BY CodeIsPlanned DEF EntangleIInv, Running
<1>2. CASE stage = "draft"
  <2>1. DraftImage(blk, image) /\ DraftAt(blk, pc, regs, trace)
    BY <1>1, <1>2 DEF MachineInv, Drafting, Story
  <2>2. blk.instrs[pc] = w
    BY <1>1, <2>1, WorkSlot
  <2> QED  BY <1>1, <2>1, <2>2, DraftBase
<1>3. CASE stage \in {"final", "device"}
  <2> DEFINE tf == Told(blk, probes, trace, pc)
  <2>1. /\ FinalImage(blk, image, trace) /\ Agree(blk, pc, regs, tf) /\ Recorded
    BY <1>1, <1>3 DEF MachineInv, Resolved
  <2>2. blk.instrs[pc] = w /\ ~ InSite(blk, pc) /\ pc \in Path(blk)
    BY <1>1, <2>1, WorkSlot
  <2>3. DraftAt(blk, pc, tf, trace)
    BY <1>1, <2>1, <2>2, ToldIs
  <2> HIDE DEF tf
  <2> QED  BY <1>1, <2>1, <2>2, <2>3, CleanBase
<1> QED  BY <1>1, <1>2, <1>3

\* Until a result is wrong, every memory access of the workload has its base
\* register at a data section, in the draft and in the final program, whatever
\* else the workload computes (basicblock.rs: confine_memory_access).
THEOREM Confinement == Spec => []AccessesAreConfined
BY Confined, EntangleInvariance, PTL

LEMMA SameFailSlots ==
  ASSUME NEW can, Planned(blk, can)
  PROVE  FailSlots = FailAts(blk) /\ Check = End(blk)
<1>1. DOMAIN blk.sites = 1 .. NumSites(blk)
  BY SizeType DEF Planned
<1> QED  BY <1>1 DEF FailSlots, FailAts, Check, End

\* What comes after a slot is what came after it in the draft.
LEMMA NextIs ==
  ASSUME NEW can, Planned(blk, can), DOMAIN trace = Path(blk), NEW i \in Path(blk)
  PROVE  NextOnPath(i) = After(blk, i)
<1> DEFINE later == {j \in DOMAIN trace \cup {Check} : j > i}
<1>1. Check = End(blk)
  BY SameFailSlots
<1>2. /\ i \in Nat /\ Size(blk) \in Nat
      /\ After(blk, i) \in Path(blk) \cup {End(blk)} /\ After(blk, i) \in Nat
      /\ i < After(blk, i)
      /\ \A j \in Path(blk) \cup {End(blk)} : i < j => After(blk, i) <= j
  BY AfterOnPath
<1>3. \A j \in Path(blk) \cup {End(blk)} : j \in Nat
  BY <1>2, Apart
<1>4. /\ After(blk, i) \in later /\ later \subseteq Nat
      /\ \A j \in later : After(blk, i) <= j
  BY <1>1, <1>2, <1>3
<1> HIDE DEF later
<1>5. \A j \in later : (\A l \in later : j <= l) <=> j = After(blk, i)
  BY <1>2, <1>4
<1>6. (CHOOSE j \in later : \A l \in later : j <= l) = After(blk, i)
  BY <1>4, <1>5
<1> QED  BY <1>6 DEF NextOnPath, later

\* An accumulator is zero in the draft when its guard is reached.
LEMMA DraftAccumulator ==
  ASSUME NEW can, NEW b, Planned(b, can), NEW i,
         NEW k \in 1 .. NumSites(b), OnTurn(b, k, i), b.sites[k].kind = "guard",
         NEW tf, NEW tr, DraftAt(b, i, tf, tr)
  PROVE  tf[b.sites[k].rs1] = {}
<1>1. /\ k - 1 \in 1 .. NumSites(b) /\ Computing(b, k - 1, i)
      /\ b.sites[k - 1].rprod = b.sites[k].rs1 /\ LinkedValue(b.sites[k - 1]) = {}
  BY GuardIsReady DEF Accumulated
<1>2. tf[b.sites[k - 1].rprod] = Truncate(LinkedValue(b.sites[k - 1]))
  BY <1>1 DEF DraftAt
<1>3. Truncate({}) = {}
  BY DEF Truncate
<1> QED  BY <1>1, <1>2, <1>3

\* A wrong turn has a wrong register behind it.
LEMMA Diverts ==
  ASSUME NEW can, Planned(blk, can), Resolved, pc \in Path(blk),
         WrongTurn(blk, pc, regs, trace[pc], pc')
  PROVE  Diverted
<1> DEFINE tf == trace[pc]
           s == image[pc]
<1>1. /\ Recorded /\ FinalImage(blk, image, trace) /\ CommonImage(blk, image)
      /\ Placed(blk) /\ regs \in RegFile
  BY DEF Resolved, FinalImage, CommonImage
<1>2. pc \in 1 .. Size(blk) /\ tf \in RegFile /\ DraftAt(blk, pc, tf, trace)
  BY <1>1, ToldIs, Apart
<1>3. FailSlots = FailAts(blk)
  BY SameFailSlots
<1>4. \A r : regs[r] # tf[r] => WrongBits(pc, r) # ZeroWord
  BY XorWords DEF WrongBits, ZeroWord
<1> HIDE DEF tf
<1>5. CASE Astray(blk, pc, regs) /\ pc' \in Lost
  <2> DEFINE base == blk.instrs[pc].base
  <2>1. s = blk.instrs[pc] /\ s \in WorkInstrs /\ base # ZERO /\ regs[base] \notin Addresses
    BY <1>1, <1>2, <1>5 DEF Astray, CommonImage
  <2>2. tf[base] \in Addresses
    BY <1>2, <2>1, DraftBase
  <2>3. base \in Regs
    BY <2>1, SiteBuilderAssumption
  <2>4. base \in Steering(pc)
    BY <2>1, <2>3 DEF Steering
  <2>5. WrongBits(pc, base) # ZeroWord
    BY <1>4, <2>1, <2>2
  <2> QED  BY <1>5, <2>1, <2>4, <2>5 DEF Diverted, Lost
<1>6. ASSUME NEW k \in 1 .. NumSites(blk), WrongJump(blk, k, pc, regs, pc') PROVE Diverted
  <2> DEFINE r == blk.sites[k].rprod
             target == CodeAddr[pc + 2]
  <2>1. /\ OnJump(blk, k, pc) /\ pc' = WILD
        /\ regs[r] \ {0} # Truncate(LinkedValue(blk.sites[k]))
    BY <1>6 DEF WrongJump
  <2>2. s = blk.instrs[pc]
    BY <1>1, <1>2, <2>1 DEF CommonImage
  <2>3. Computing(blk, k, pc) /\ blk.sites[k].kind = "value"
        /\ \E rd \in Regs : s = Jalr(rd, r)
    BY <2>1, <2>2, JumpSlot
  <2>4. Truncate(LinkedValue(blk.sites[k])) = target /\ target \ {0} = target
    BY <1>1, <1>2, <2>1, JumpValue
  <2>5. tf[r] = Truncate(LinkedValue(blk.sites[k]))
    BY <1>2, <2>3 DEF DraftAt
  <2>6. s.op = "jalr" /\ s.rs = r
    BY <2>3 DEF Jalr
  <2>7. r \in Regs
    BY <2>3, ValueRange
  <2> HIDE DEF r, target
  <2>8. regs[r] # tf[r]
    BY <2>1, <2>4, <2>5
  <2>9. r \in Steering(pc)
    BY <2>6, <2>7 DEF Steering
  <2> QED  BY <1>4, <2>1, <2>6, <2>8, <2>9 DEF Diverted
<1>7. ASSUME NEW k \in 1 .. NumSites(blk), blk.sites[k].kind \in BranchKinds,
             s.op = "branch", NEW r \in {s.rs1, s.rs2} \cap Regs, regs[r] # tf[r],
             pc' = blk.sites[k].failAt
      PROVE  Diverted
  <2>1. pc' \in FailSlots
    BY <1>3, <1>7, FailAtIs
  <2>2. r \in Steering(pc)
    BY <1>7 DEF Steering
  <2> QED  BY <1>4, <1>7, <2>1, <2>2 DEF Diverted
<1>8. ASSUME NEW k \in 1 .. NumSites(blk), WrongGuard(blk, k, pc, regs, pc') PROVE Diverted
  <2> DEFINE r == blk.sites[k].rs1
  <2>1. /\ OnTurn(blk, k, pc) /\ blk.sites[k].kind = "guard"
        /\ pc' = blk.sites[k].failAt /\ regs[r] # {}
    BY <1>8 DEF WrongGuard
  <2>2. s = GuardBranch(blk.sites[k])
    BY <1>1, <1>2, <2>1 DEF CommonImage
  <2>3. s.op = "branch" /\ s.rs1 = r
    BY <2>2 DEF GuardBranch, Branch
  <2>4. tf[r] = {}
    BY <1>2, <2>1, DraftAccumulator
  <2>5. r \in Regs
    BY <2>1, Kinds, BranchRange
  <2> HIDE DEF r
  <2> QED  BY <1>7, <2>1, <2>3, <2>4, <2>5, Kinds
<1>9. ASSUME NEW k \in 1 .. NumSites(blk), WrongBranch(blk, k, pc, regs, tf, pc')
      PROVE  Diverted
  <2> DEFINE site == blk.sites[k]
  <2>1. /\ OnTurn(blk, k, pc) /\ site.kind = "branch" /\ pc' = site.failAt
        /\ \E r \in {site.rs1, site.rs2} : Val(regs, r) # Val(tf, r)
    BY <1>9 DEF WrongBranch
  <2>2. \E cc \in AllBranches : s = Branch(cc, site.rs1, site.rs2)
    BY <1>1, <1>2, <2>1 DEF FinalImage
  <2>3. s.op = "branch" /\ s.rs1 = site.rs1 /\ s.rs2 = site.rs2
    BY <2>2 DEF Branch
  <2>4. site.rs1 \in Regs /\ site.rs2 \in Regs \cup {ZERO}
    BY <2>1, Kinds, BranchRange
  <2>5. PICK r \in {site.rs1, site.rs2} : Val(regs, r) # Val(tf, r)
    BY <2>1
  <2>6. r \in Regs /\ regs[r] # tf[r]
    BY <1>1, <1>2, <2>4, <2>5, RegFileFacts
  <2> HIDE DEF site
  <2>7. r \in {s.rs1, s.rs2} \cap Regs
    BY <2>3, <2>5, <2>6
  <2> QED  BY <1>7, <2>1, <2>3, <2>6, <2>7, Kinds DEF site
<1> QED  BY <1>5, <1>6, <1>8, <1>9 DEF WrongTurn, tf

\* A step of the final program, on Spike or on a device that computes right.
LEMMA PlainStepGoes ==
  ASSUME NEW can, Planned(blk, can), Resolved, pc \in 1 .. Size(blk),
         NEW e \in Outcomes(pc, regs), pc' = e.pc
  PROVE  /\ pc \in DOMAIN trace => pc' = NextOnPath(pc) \/ Diverted
         /\ pc \in FailSlots => pc' = FAIL
<1>1. Recorded /\ FinalImage(blk, image, trace) /\ regs \in RegFile
  BY DEF Resolved
<1>2. DOMAIN trace = Path(blk)
  BY <1>1, ToldIs
<1>3. ASSUME pc \in Path(blk) PROVE pc' = NextOnPath(pc) \/ Diverted
  <2>1. e.pc = After(blk, pc) \/ WrongTurn(blk, pc, regs, trace[pc], e.pc)
    BY <1>1, <1>3, FinalSlot
  <2>2. NextOnPath(pc) = After(blk, pc)
    BY <1>2, <1>3, NextIs
  <2> QED  BY <1>3, <2>1, <2>2, Diverts
<1>4. ASSUME pc \in FailSlots PROVE pc' = FAIL
  <2>1. PICK k \in 1 .. NumSites(blk) : OnFail(blk, k, pc)
    BY <1>4, SameFailSlots, FailSlot
  <2>2. image[pc] = JalFail
    BY <1>1, <2>1 DEF FinalImage, CommonImage
  <2> QED  BY <1>1, <2>2, RunPlain
<1> QED  BY <1>2, <1>3, <1>4

\* A step in which the device gets a result wrong.
LEMMA WrongStepGoes ==
  ASSUME EntangleIInv, Miscompute
  PROVE  /\ pc \in DOMAIN trace => pc' = NextOnPath(pc) \/ Diverted
         /\ pc \in FailSlots => pc' = FAIL
<1>1. /\ Planned(blk, CanBranch) /\ Recorded /\ FinalImage(blk, image, trace)
      /\ pc \in 1 .. Size(blk) /\ pc' = pc + 1 /\ image[pc] \in WorkInstrs
  BY CodeIsPlanned DEF EntangleIInv, MachineInv, Miscompute, Resolved, Running
<1>2. ~ InSite(blk, pc) /\ pc \in Path(blk)
  BY <1>1, WorkSlot
<1>3. After(blk, pc) = pc + 1 /\ DOMAIN trace = Path(blk)
  BY <1>1, <1>2, AfterIs, ToldIs
<1>4. pc \notin FailSlots
  BY <1>1, <1>2, SameFailSlots DEF Path
<1>5. NextOnPath(pc) = After(blk, pc)
  BY <1>1, <1>2, <1>3, NextIs
<1> QED  BY <1>1, <1>3, <1>4, <1>5

\* A run takes the draft's path slot by slot unless a register that decides
\* where it goes is wrong: a branch that goes the wrong way comes to a jump to
\* _fail and on to _fail, and only a jump or an access can lead elsewhere
\* (entangle.rs: "the wrong direction lands on a jump to `_fail`").
THEOREM DivertedOnlyByWrongOperands == Spec => OnlyWrongOperandsDivert
<1>1. EntangleIInv /\ [Next]_vars =>
        [(stage \in {"final", "device"} /\ stage' = stage) =>
            /\ pc \in DOMAIN trace => pc' = NextOnPath(pc) \/ Diverted
            /\ pc \in FailSlots => pc' = FAIL]_<<stage, pc>>
  <2> SUFFICES ASSUME EntangleIInv, [Next]_vars, <<stage, pc>>' # <<stage, pc>>,
                      stage \in {"final", "device"}, stage' = stage
               PROVE  /\ pc \in DOMAIN trace => pc' = NextOnPath(pc) \/ Diverted
                      /\ pc \in FailSlots => pc' = FAIL
    OBVIOUS
  <2>1. FinalStep \/ DeviceStep \/ Miscompute
    BY DEF Next, vars, Build, Link, DraftStep, DraftStop, Resolve, FinalStop,
           StartDevice, DeviceStop
  <2>2. CASE FinalStep \/ DeviceStep
    <3>1. PICK e \in Outcomes(pc, regs) : pc' = e.pc
      BY <2>2 DEF FinalStep, DeviceStep, Execute
    <3>2. Planned(blk, CanBranch) /\ Resolved /\ pc \in 1 .. Size(blk)
      BY <2>2, CodeIsPlanned
         DEF EntangleIInv, MachineInv, FinalStep, DeviceStep, Running
    <3> QED  BY <3>1, <3>2, PlainStepGoes
  <2>3. CASE Miscompute
    BY <2>3, WrongStepGoes
  <2> QED  BY <2>1, <2>2, <2>3
<1> QED  BY <1>1, EntangleInvariance, PTL DEF Spec, OnlyWrongOperandsDivert

\* Site k's register holds what is wrong in its dependencies.
Accurate(b, k, rf, tf) ==
    rf[b.sites[k].rprod] = XorAll(Wrong(b.sites[k], rf, tf), DOMAIN b.sites[k].rdeps)

\* What a guard's branch finds in its accumulator.
LEMMA GuardAccumulator ==
  ASSUME NEW can, NEW b, Planned(b, can), NEW tr, NEW rf, NEW tf,
         NEW k \in 1 .. NumSites(b), b.sites[k].kind = "value",
         NEW i, i = At(b, k) + Len(b.sites[k].rdeps) + 1,
         DraftAt(b, i, tf, tr), SumAt(b, i, rf, tr), LinkedValue(b.sites[k]) = {}
  PROVE  Accurate(b, k, rf, tf)
<1> DEFINE site == b.sites[k]
           sum == XorAll(Wrong(site, rf, tf), DOMAIN site.rdeps)
<1>1. rf[site.rprod] = Xor(Truncate(LinkedValue(site)), sum)
  BY CompleteSum, SMTT(30)
<1> HIDE DEF site, sum
<1>2. Truncate({}) = {}
  BY DEF Truncate
<1>3. LinkedValue(site) = {}
  BY DEF site
<1>4. rf[site.rprod] = sum
  BY <1>1, <1>2, <1>3, XorWords
<1> QED  BY <1>4 DEF site, sum, Accurate

LEMMA GuardSum ==
  ASSUME EntangleIInv, stage = "device", NEW k \in SiteKind(blk, "guard"),
         pc = blk.sites[k].at,
         NEW sum, sum = XorAll([i \in DOMAIN GuardDeps(k) |-> WrongBits(pc, GuardDeps(k)[i])],
                               DOMAIN GuardDeps(k))
  PROVE  /\ regs[blk.sites[k].rs1] = sum
         /\ Effect(pc, regs).pc \in DOMAIN trace \cup {Check} <=> sum = ZeroWord
<1> DEFINE acc == blk.sites[k - 1]
           f == [i \in DOMAIN GuardDeps(k) |-> WrongBits(pc, GuardDeps(k)[i])]
<1>1. /\ Planned(blk, CanBranch) /\ Resolved /\ Recorded /\ regs \in RegFile
      /\ FinalImage(blk, image, trace)
  BY CodeIsPlanned DEF EntangleIInv, MachineInv, Resolved
<1>2. k \in 1 .. NumSites(blk) /\ blk.sites[k].kind = "guard"
  BY <1>1, SizeType DEF SiteKind, Planned
<1>3. OnTurn(blk, k, pc)
  BY <1>2, Kinds DEF OnTurn, At
<1>4. pc \in Path(blk) /\ pc \in 1 .. Size(blk)
  <2>1. ProbeIndex(blk.sites[k]) = pc /\ ProbeIndex(blk.sites[k]) \in Path(blk)
    BY <1>1, <1>2, Kinds, ProbeSlot DEF At
  <2> QED  BY <1>1, <2>1, Apart
<1>5. Accumulated(blk, k, pc)
  BY <1>1, <1>2, <1>3, GuardIsReady
<1>6. /\ k - 1 \in 1 .. NumSites(blk) /\ acc.kind = "value"
      /\ acc.rprod = blk.sites[k].rs1 /\ LinkedValue(acc) = {}
      /\ pc = At(blk, k - 1) + Len(acc.rdeps) + 1
  BY <1>5 DEF Accumulated, Computing
<1>7. /\ SumAt(blk, pc, regs, trace) /\ DraftAt(blk, pc, trace[pc], trace)
      /\ DOMAIN trace = Path(blk)
  <2>1. SumAt(blk, pc, regs, trace)
    BY <1>1, <1>4 DEF Resolved
  <2>2. /\ DraftAt(blk, pc, Told(blk, probes, trace, pc), trace)
        /\ Told(blk, probes, trace, pc) = trace[pc]
        /\ DOMAIN trace = Path(blk)
    BY <1>1, <1>4, ToldIs
  <2> QED  BY <2>1, <2>2
<1>8. regs[acc.rprod] = XorAll(Wrong(acc, regs, trace[pc]), DOMAIN acc.rdeps)
  <2> DEFINE l == k - 1
             tf == trace[pc]
  <2>1. /\ Planned(blk, CanBranch) /\ l \in 1 .. NumSites(blk)
        /\ blk.sites[l].kind = "value" /\ LinkedValue(blk.sites[l]) = {}
        /\ pc = At(blk, l) + Len(blk.sites[l].rdeps) + 1
        /\ DraftAt(blk, pc, tf, trace) /\ SumAt(blk, pc, regs, trace)
    BY <1>1, <1>6, <1>7
  <2> HIDE DEF l, tf
  <2>2. Accurate(blk, l, regs, tf)
    BY <2>1, GuardAccumulator
  <2> QED  BY <2>2 DEF Accurate, l, tf
<1>9. XorAll(Wrong(acc, regs, trace[pc]), DOMAIN acc.rdeps) = sum
  <2>1. GuardDeps(k) = acc.rdeps
    BY DEF GuardDeps
  <2>2. ASSUME NEW n \in DOMAIN acc.rdeps PROVE Wrong(acc, regs, trace[pc])[n] = f[n]
    BY <2>1, <2>2 DEF Wrong, WrongBits
  <2>3. sum = XorAll(f, DOMAIN acc.rdeps)
    BY <2>1
  <2> HIDE DEF f
  <2>4. XorAll(Wrong(acc, regs, trace[pc]), DOMAIN acc.rdeps) = XorAll(f, DOMAIN acc.rdeps)
    BY <2>2, XorAllSame
  <2> QED  BY <2>3, <2>4
<1> HIDE DEF f, acc
<1>10. regs[blk.sites[k].rs1] = sum
  BY <1>6, <1>8, <1>9
<1>11. image[pc] = GuardBranch(blk.sites[k])
  BY <1>1, <1>2, <1>3, <1>4 DEF FinalImage, CommonImage
<1>12. Effect(pc, regs) \in Outcomes(pc, regs)
  <2>1. image[pc].op = "branch"
    BY <1>11 DEF GuardBranch, Branch
  <2>2. image[pc] \notin WorkInstrs
    BY <2>1, EntangleAssumption
  <2> QED  BY <2>2 DEF Outcomes, Strays
<1>13. /\ regs[blk.sites[k].rs1] = {} => Effect(pc, regs).pc = After(blk, pc)
       /\ regs[blk.sites[k].rs1] # {} => Effect(pc, regs).pc \in FailAts(blk)
  <2>1. ASSUME NEW e \in Outcomes(pc, regs)
        PROVE  /\ regs[blk.sites[k].rs1] = {} => e.pc = After(blk, pc)
               /\ regs[blk.sites[k].rs1] # {} => e.pc \in FailAts(blk)
    <3>1. /\ regs[blk.sites[k].rs1] = {} => e.pc = After(blk, pc)
          /\ regs[blk.sites[k].rs1] # {} => e.pc = blk.sites[k].failAt
      <4>1. /\ Planned(blk, CanBranch) /\ pc \in 1 .. Size(blk) /\ regs \in RegFile
            /\ k \in 1 .. NumSites(blk) /\ OnTurn(blk, k, pc)
            /\ blk.sites[k].kind = "guard" /\ image[pc] = GuardBranch(blk.sites[k])
            /\ e \in Outcomes(pc, regs)
        BY <1>1, <1>2, <1>3, <1>4, <1>11, <2>1
      <4> QED  BY ONLY <4>1, RunGuard
    <3>2. blk.sites[k].failAt \in FailAts(blk)
      BY <1>1, <1>2, Kinds, FailAtIs
    <3> QED  BY <3>1, <3>2
  <2> QED  BY <1>12, <2>1
<1>14. /\ After(blk, pc) \in Path(blk) \cup {End(blk)}
       /\ FailAts(blk) \cap (Path(blk) \cup {End(blk)}) = {}
       /\ Check = End(blk)
  BY <1>1, <1>4, AfterOnPath, Apart, SameFailSlots
<1> QED  BY <1>7, <1>10, <1>13, <1>14 DEF ZeroWord

\* A guard's accumulator is exactly the exclusive or of what is wrong in the
\* registers it depends on, and the guard is passed if and only if that is zero
\* (entangle.rs: guard).
THEOREM GuardsSee == Spec => []GuardsSeeTheSum
<1>1. EntangleIInv => GuardsSeeTheSum
  <2> SUFFICES ASSUME EntangleIInv PROVE GuardsSeeTheSum
    OBVIOUS
  <2>1. ASSUME stage = "device", NEW k \in SiteKind(blk, "guard"), pc = blk.sites[k].at
        PROVE  LET deps == GuardDeps(k)
                   sum == XorAll([i \in DOMAIN deps |-> WrongBits(pc, deps[i])],
                                 DOMAIN deps)
               IN  /\ regs[blk.sites[k].rs1] = sum
                   /\ Effect(pc, regs).pc \in DOMAIN trace \cup {Check}
                         <=> sum = ZeroWord
    BY <2>1, GuardSum
  <2> QED  BY <2>1 DEF GuardsSeeTheSum
<1> QED  BY <1>1, EntangleInvariance, PTL

LEMMA JumpSum ==
  ASSUME EntangleIInv, stage = "device", NEW k \in SiteKind(blk, "value"),
         blk.sites[k].dest.type = "code", pc = blk.sites[k].failAt - 1,
         NEW sum, sum = XorAll([i \in DOMAIN blk.sites[k].rdeps |->
                                   WrongBits(pc, blk.sites[k].rdeps[i])],
                               DOMAIN blk.sites[k].rdeps)
  PROVE  /\ regs[blk.sites[k].rprod] = Xor(CodeAddr[blk.sites[k].dest.index], sum)
         /\ Effect(pc, regs).pc = blk.sites[k].dest.index <=> sum \subseteq {0}
<1> DEFINE site == blk.sites[k]
           f == [i \in DOMAIN site.rdeps |-> WrongBits(pc, site.rdeps[i])]
           tf == trace[pc]
           target == CodeAddr[pc + 2]
<1>1. /\ Planned(blk, CanBranch) /\ Resolved /\ Recorded
      /\ FinalImage(blk, image, trace) /\ CommonImage(blk, image) /\ Placed(blk)
  BY CodeIsPlanned DEF EntangleIInv, MachineInv, Resolved, FinalImage, CommonImage
<1>2. k \in 1 .. NumSites(blk) /\ site.kind = "value"
  BY <1>1, SizeType DEF SiteKind, Planned
<1>3. /\ site.failAt # NoFail /\ site.dest = Code(site.failAt + 1)
      /\ site.failAt \in Nat /\ pc \in Int
  <2>1. site.failAt \in Nat
    BY <1>1, <1>2, SiteIn DEF Planned
  <2>2. /\ site.failAt = NoFail => site.dest.type = "data"
        /\ site.failAt # NoFail => site.dest = Code(site.failAt + 1)
    BY <1>1, <1>2, ValueRange
  <2> QED  BY <2>1, <2>2
<1>4. OnJump(blk, k, pc)
  BY <1>2, <1>3 DEF OnJump
<1>5. pc \in Path(blk) /\ pc \in 1 .. Size(blk)
  <2>1. pc \in 1 .. Size(blk)
    BY <1>1, <1>2, <1>3, <1>4, RoleInSite DEF Role
  <2>2. ASSUME NEW l \in 1 .. NumSites(blk), OnFail(blk, l, pc) PROVE FALSE
    <3>1. l = k
      BY <1>1, <1>2, <1>3, <1>4, <2>2, OneSite DEF Role
    <3> QED  BY <1>1, <1>2, <1>3, <1>4, <2>2, <3>1, OneRole
  <2> QED  BY <2>1, <2>2, FailSlot DEF Path
<1>6. site.dest.index = pc + 2 /\ pc + 2 # WILD
  <2>1. site.dest.index = site.failAt + 1
    BY <1>3 DEF Code
  <2>2. site.failAt + 1 = pc + 2 /\ pc + 2 \in Nat
    BY <1>3, <1>5
  <2> QED  BY <2>1, <2>2, EntangleAssumption
<1>7. /\ pc = At(blk, k) + Len(site.rdeps) + 1
      /\ \E rd \in Regs : blk.instrs[pc] = Jalr(rd, site.rprod)
  BY <1>1, <1>2, <1>4, JumpSlot
<1>8. Truncate(LinkedValue(site)) = target /\ target \ {0} = target
  BY <1>1, <1>2, <1>4, <1>5, JumpValue
<1>9. SumAt(blk, pc, regs, trace) /\ DraftAt(blk, pc, tf, trace)
  <2>1. /\ DraftAt(blk, pc, Told(blk, probes, trace, pc), trace)
        /\ Told(blk, probes, trace, pc) = trace[pc]
    BY <1>1, <1>5, ToldIs
  <2> QED  BY <1>1, <1>5, <2>1 DEF Resolved
<1>10. regs[site.rprod] =
          Xor(Truncate(LinkedValue(site)), XorAll(Wrong(site, regs, tf), DOMAIN site.rdeps))
  <2> HIDE DEF tf
  <2> QED  BY <1>1, <1>2, <1>7, <1>9, CompleteSum
<1>11. XorAll(Wrong(site, regs, tf), DOMAIN site.rdeps) = sum
  <2>1. ASSUME NEW n \in DOMAIN site.rdeps PROVE Wrong(site, regs, tf)[n] = f[n]
    BY <2>1 DEF Wrong, WrongBits
  <2>2. sum = XorAll(f, DOMAIN site.rdeps)
    OBVIOUS
  <2> HIDE DEF f
  <2>3. XorAll(Wrong(site, regs, tf), DOMAIN site.rdeps) = XorAll(f, DOMAIN site.rdeps)
    BY <2>1, XorAllSame
  <2> QED  BY <2>2, <2>3
<1>12. regs[site.rprod] = Xor(target, sum)
  BY <1>8, <1>10, <1>11
<1>13. Effect(pc, regs).pc = IF regs[site.rprod] \ {0} = target THEN pc + 2 ELSE WILD
  <2>1. PICK rd \in Regs : image[pc] = Jalr(rd, site.rprod)
    BY <1>1, <1>2, <1>4, <1>5, <1>7 DEF CommonImage
  <2>2. image[pc].op = "jalr" /\ image[pc].rs = site.rprod
    BY <2>1 DEF Jalr
  <2>3. Effect(pc, regs).pc = JumpTarget(pc, regs[site.rprod])
    BY <2>2 DEF Effect
  <2> QED  BY <2>3 DEF JumpTarget
<1> HIDE DEF f, tf, target
<1>14. regs[site.rprod] \ {0} = target <=> sum \subseteq {0}
  <2>1. 0 \notin target
    BY <1>8
  <2> QED  BY <1>12, <2>1 DEF Xor
<1> QED  BY <1>6, <1>12, <1>13, <1>14 DEF target

\* The register of an indirect jump is off its planned target by exactly the
\* exclusive or of what is wrong in the registers the site depends on, and the
\* jump misses if and only if that is more than bit 0 (entangle.rs:
\* control_flow).
THEOREM JumpsSee == Spec => []JumpsSeeTheSum
<1>1. EntangleIInv => JumpsSeeTheSum
  <2> SUFFICES ASSUME EntangleIInv PROVE JumpsSeeTheSum
    OBVIOUS
  <2>1. ASSUME stage = "device", NEW k \in SiteKind(blk, "value"),
               blk.sites[k].dest.type = "code", pc = blk.sites[k].failAt - 1
        PROVE  LET site == blk.sites[k]
                   sum == XorAll([i \in DOMAIN site.rdeps |-> WrongBits(pc, site.rdeps[i])],
                                 DOMAIN site.rdeps)
               IN  /\ regs[site.rprod] = Xor(CodeAddr[site.dest.index], sum)
                   /\ Effect(pc, regs).pc = site.dest.index <=> sum \subseteq {0}
    BY <2>1, JumpSum
  <2> QED  BY <2>1 DEF JumpsSeeTheSum
<1> QED  BY <1>1, EntangleInvariance, PTL

--------------------------------------------------------------------------------
(* The log the abstract specification speaks of.                             *)

ReachIn(tr, i) == Cardinality({j \in DOMAIN tr : j <= i})

\* Every place up to the number of states is that of one of them.
Counted(tr) == \A n \in 1 .. Cardinality(DOMAIN tr) : \E i \in DOMAIN tr : ReachIn(tr, i) = n

ProducingAt(b, i, r) ==
    \/ b.instrs[i] = Fixup(r)
    \/ \E k \in SiteKind(b, "value") :
          /\ b.sites[k].rprod = r
          /\ i \in b.sites[k].at + 1 ..
                   b.sites[k].at + ProducerLen + Len(b.sites[k].rdeps) - 1

Sight(b, i, rf) ==
    <<i, [r \in DOMAIN rf |->
            IF i \in DOMAIN b.instrs /\ ProducingAt(b, i, r) THEN ZeroWord ELSE rf[r]]>>

Nth(tr, n) == CHOOSE i \in DOMAIN tr : ReachIn(tr, i) = n

States(b, tr) ==
    [n \in 1 .. Cardinality(DOMAIN tr) |-> Sight(b, Nth(tr, n), tr[Nth(tr, n)])]

LogOf(s, b, pr, tr) ==
    IF s \in {"build", "draft", "failed"} THEN States(b, tr)
    ELSE Append(States(b, tr), Sight(b, End(b), pr[Len(pr)]))

LEMMA LogIs == DraftLog = LogOf(stage, blk, probes, trace)
BY DEF DraftLog, LogOf, States, Nth, Sight, ProducingAt, ReachIn, Seen, Reached, Producing,
       Check, End

LEMMA LogPrimed == DraftLog' = LogOf(stage', blk', probes', trace')
BY DEF DraftLog, LogOf, States, Nth, Sight, ProducingAt, ReachIn, Seen, Reached, Producing,
       Check, End

\* The states of a trace over finitely many slots.
Slots(tr) == DOMAIN tr \subseteq Nat /\ IsFiniteSet(DOMAIN tr)

LEMMA ReachType ==
  ASSUME NEW tr, Slots(tr), NEW i \in Nat
  PROVE  ReachIn(tr, i) \in Nat /\ Cardinality(DOMAIN tr) \in Nat
         /\ ReachIn(tr, i) <= Cardinality(DOMAIN tr)
         /\ IsFiniteSet({j \in DOMAIN tr : j <= i})
<1> DEFINE S == {j \in DOMAIN tr : j <= i}
<1>1. S \subseteq DOMAIN tr /\ IsFiniteSet(DOMAIN tr)
  BY DEF Slots
<1> HIDE DEF S
<1>2. IsFiniteSet(S) /\ Cardinality(S) <= Cardinality(DOMAIN tr)
  BY <1>1, FS_Subset
<1>3. Cardinality(S) \in Nat /\ Cardinality(DOMAIN tr) \in Nat
  BY <1>1, <1>2, FS_CardinalityType
<1> QED  BY <1>2, <1>3 DEF ReachIn, S

LEMMA ReachOrder ==
  ASSUME NEW tr, Slots(tr), NEW i \in Nat, NEW j \in DOMAIN tr, i < j
  PROVE  ReachIn(tr, i) < ReachIn(tr, j)
<1> DEFINE S == {x \in DOMAIN tr : x <= i}
           T == {x \in DOMAIN tr : x <= j}
<1>1. j \in Nat /\ DOMAIN tr \subseteq Nat
  BY DEF Slots
<1>2. IsFiniteSet(S) /\ IsFiniteSet(T)
  BY <1>1, ReachType
<1>3. S \cup {j} \subseteq T /\ j \notin S
  BY <1>1
<1>4. ReachIn(tr, i) = Cardinality(S) /\ ReachIn(tr, j) = Cardinality(T)
  BY DEF ReachIn
<1> HIDE DEF S, T
<1>5. Cardinality(S \cup {j}) = Cardinality(S) + 1
  BY <1>2, <1>3, FS_AddElement
<1>6. Cardinality(S \cup {j}) <= Cardinality(T)
  BY <1>2, <1>3, FS_Subset
<1>7. Cardinality(S) \in Nat /\ Cardinality(T) \in Nat
  BY <1>2, FS_CardinalityType
<1> QED  BY <1>4, <1>5, <1>6, <1>7

\* The place of a slot is its own.
LEMMA NthIs ==
  ASSUME NEW tr, Slots(tr), NEW i \in DOMAIN tr
  PROVE  Nth(tr, ReachIn(tr, i)) = i /\ ReachIn(tr, i) \in 1 .. Cardinality(DOMAIN tr)
<1>1. DOMAIN tr \subseteq Nat /\ i \in Nat
  BY DEF Slots
<1>2. ASSUME NEW j \in DOMAIN tr, ReachIn(tr, j) = ReachIn(tr, i) PROVE j = i
  <2>1. ~ (i < j) /\ ~ (j < i)
    <3>1. j \in Nat /\ ReachIn(tr, i) \in Nat /\ ReachIn(tr, j) \in Nat
      BY <1>1, ReachType
    <3>2. i < j => ReachIn(tr, i) < ReachIn(tr, j)
      BY <1>1, ReachOrder
    <3>3. j < i => ReachIn(tr, j) < ReachIn(tr, i)
      BY <3>1, ReachOrder
    <3> QED  BY <1>2, <3>1, <3>2, <3>3
  <2> QED  BY <1>1, <2>1
<1>3. Nth(tr, ReachIn(tr, i)) = i
  BY <1>2 DEF Nth
<1>4. ReachIn(tr, i) >= 1
  <2> DEFINE S == {x \in DOMAIN tr : x <= i}
  <2>1. {i} \subseteq S /\ IsFiniteSet(S)
    BY <1>1, ReachType
  <2> HIDE DEF S
  <2>2. Cardinality({i}) <= Cardinality(S) /\ Cardinality({i}) = 1
    BY <2>1, FS_Subset, FS_Singleton
  <2> QED  BY <2>2 DEF ReachIn, S
<1>5. /\ ReachIn(tr, i) \in Nat /\ Cardinality(DOMAIN tr) \in Nat
      /\ ReachIn(tr, i) <= Cardinality(DOMAIN tr)
  BY <1>1, ReachType
<1> QED  BY <1>3, <1>4, <1>5

LEMMA StatesAt ==
  ASSUME NEW b, NEW tr, Slots(tr), NEW i \in DOMAIN tr
  PROVE  States(b, tr)[ReachIn(tr, i)] = Sight(b, i, tr[i])
BY NthIs DEF States

LEMMA StatesType ==
  ASSUME NEW b, NEW tr, Slots(tr)
  PROVE  /\ \E T : States(b, tr) \in Seq(T)
         /\ Len(States(b, tr)) = Cardinality(DOMAIN tr)
         /\ Cardinality(DOMAIN tr) \in Nat
<1> DEFINE n == Cardinality(DOMAIN tr)
           s == States(b, tr)
           T == {s[x] : x \in 1 .. n}
<1>1. n \in Nat
  BY ReachType
<1>2. DOMAIN s = 1 .. n /\ s = [x \in 1 .. n |-> s[x]]
  BY DEF States
<1> HIDE DEF n, s
<1>3. \A x \in 1 .. n : s[x] \in T
  OBVIOUS
<1>4. s \in [1 .. n -> T]
  BY <1>2, <1>3
<1>5. s \in Seq(T) /\ Len(s) = n
  BY <1>1, <1>4
<1> QED  BY <1>1, <1>5 DEF n, s

\* A state more in the trace is a state more in the log.
LEMMA StatesGrow ==
  ASSUME NEW b, NEW tr, Slots(tr), Counted(tr), NEW i \in Nat, \A j \in DOMAIN tr : j < i,
         NEW rf
  PROVE  /\ States(b, Grown(tr, i, rf)) = Append(States(b, tr), Sight(b, i, rf))
         /\ Counted(Grown(tr, i, rf)) /\ Slots(Grown(tr, i, rf))
<1> DEFINE g == Grown(tr, i, rf)
           n == Cardinality(DOMAIN tr)
<1>1. /\ DOMAIN g = DOMAIN tr \cup {i} /\ g[i] = rf
      /\ \A j \in DOMAIN tr : g[j] = tr[j]
      /\ i \notin DOMAIN tr /\ DOMAIN tr \subseteq Nat /\ IsFiniteSet(DOMAIN tr)
  BY DEF Grown, Slots
<1> HIDE DEF g
<1>2. Slots(g)
  BY <1>1, FS_AddElement DEF Slots
<1>3. n \in Nat /\ Cardinality(DOMAIN g) = n + 1
  BY <1>1, FS_AddElement, FS_CardinalityType
<1>4. ReachIn(g, i) = n + 1
  <2>1. {j \in DOMAIN g : j <= i} = DOMAIN g
    BY <1>1
  <2> QED  BY <1>3, <2>1 DEF ReachIn
<1>5. ASSUME NEW j \in DOMAIN tr PROVE ReachIn(g, j) = ReachIn(tr, j)
  <2>1. {x \in DOMAIN g : x <= j} = {x \in DOMAIN tr : x <= j}
    BY <1>1
  <2> QED  BY <2>1 DEF ReachIn
<1> HIDE DEF n
<1>6. ASSUME NEW m \in 1 .. n
      PROVE  \E j \in DOMAIN tr : ReachIn(tr, j) = m /\ ReachIn(g, j) = m
  BY <1>5 DEF Counted, n
<1>7. Counted(g)
  <2> SUFFICES ASSUME NEW m \in 1 .. n + 1 PROVE \E j \in DOMAIN g : ReachIn(g, j) = m
    BY <1>3 DEF Counted
  <2>1. CASE m = n + 1
    BY <1>1, <1>4, <2>1
  <2>2. CASE m # n + 1
    <3>1. m \in 1 .. n
      BY <1>3, <2>2
    <3> QED  BY <1>1, <1>6, <3>1
  <2> QED  BY <2>1, <2>2
<1> DEFINE s == States(b, tr)
           t == States(b, g)
           v == Sight(b, i, rf)
<1>8. /\ \E T : s \in Seq(T)
      /\ \E T : t \in Seq(T)
      /\ Len(s) = n /\ Len(t) = n + 1
  BY <1>2, <1>3, StatesType DEF n
<1>9. t[n + 1] = v
  <2>1. t[ReachIn(g, i)] = Sight(b, i, g[i])
    BY <1>1, <1>2, StatesAt
  <2> QED  BY <1>1, <1>4, <2>1
<1>10. ASSUME NEW m \in 1 .. n PROVE t[m] = s[m]
  <2>1. PICK j \in DOMAIN tr : ReachIn(tr, j) = m /\ ReachIn(g, j) = m
    BY <1>6
  <2>2. s[ReachIn(tr, j)] = Sight(b, j, tr[j])
    BY StatesAt
  <2>3. t[ReachIn(g, j)] = Sight(b, j, g[j])
    BY <1>1, <1>2, StatesAt
  <2> QED  BY <1>1, <2>1, <2>2, <2>3
<1> HIDE DEF s, t, v
<1>11. t = Append(s, v)
  <2>1. PICK T : s \in Seq(T)
    BY <1>8
  <2>2. PICK U : t \in Seq(U)
    BY <1>8
  <2>3. /\ Append(s, v) \in Seq(T \cup {v}) /\ Len(Append(s, v)) = n + 1
        /\ Append(s, v)[n + 1] = v
        /\ \A m \in 1 .. n : Append(s, v)[m] = s[m]
    BY <1>3, <1>8, <2>1
  <2>4. \A m \in 1 .. n + 1 : m \in 1 .. n \/ m = n + 1
    BY <1>3
  <2>5. \A m \in 1 .. Len(t) : t[m] = Append(s, v)[m]
    BY <1>8, <1>9, <1>10, <2>3, <2>4
  <2>6. t \in Seq(U \cup T \cup {v}) /\ Append(s, v) \in Seq(U \cup T \cup {v})
    BY <2>2, <2>3
  <2> QED  BY <1>8, <2>3, <2>5, <2>6
<1> QED  BY <1>2, <1>7, <1>11 DEF g, s, t, v

\* The first and the next slot of the path are the first and the next of the log.
IndexIn(b, tr, i) == ReachIn(tr, i) + (IF i = End(b) THEN 1 ELSE 0)

LEMMA PathSlots ==
  ASSUME NEW can, NEW b, Planned(b, can), NEW tr, DOMAIN tr = Path(b)
  PROVE  Slots(tr)
<1>1. Path(b) \subseteq 1 .. Size(b) /\ Size(b) \in Nat
  BY Apart
<1>2. IsFiniteSet(1 .. Size(b))
  BY <1>1, FS_Interval
<1>3. IsFiniteSet(Path(b))
  BY <1>1, <1>2, FS_Subset
<1> QED  BY <1>1, <1>3 DEF Slots

LEMMA IndexStart ==
  ASSUME NEW can, NEW b, Planned(b, can), NEW tr, DOMAIN tr = Path(b)
  PROVE  IndexIn(b, tr, 1) = 1
<1>1. /\ 1 \in Path(b) \cup {End(b)} /\ Path(b) \subseteq Nat
      /\ \A j \in Path(b) \cup {End(b)} : 1 <= j
  BY PathStart
<1>2. End(b) \notin Path(b) /\ End(b) = Size(b) + 1 /\ Size(b) \in Nat
      /\ Path(b) \subseteq 1 .. Size(b)
  BY Apart DEF End
<1>3. CASE 1 = End(b)
  <2>1. {j \in DOMAIN tr : j <= 1} = {}
    BY <1>2, <1>3
  <2> QED  BY <1>3, <2>1, FS_EmptySet DEF IndexIn, ReachIn
<1>4. CASE 1 # End(b)
  <2>1. {j \in DOMAIN tr : j <= 1} = {1}
    BY <1>1, <1>4
  <2>2. Cardinality({1}) = 1
    BY FS_Singleton
  <2>3. ReachIn(tr, 1) = 1
    BY <2>1, <2>2 DEF ReachIn
  <2> QED  BY <1>4, <2>3 DEF IndexIn
<1> QED  BY <1>3, <1>4

LEMMA IndexNext ==
  ASSUME NEW can, NEW b, Planned(b, can), NEW tr, DOMAIN tr = Path(b), NEW i \in Path(b)
  PROVE  IndexIn(b, tr, After(b, i)) = IndexIn(b, tr, i) + 1
<1> DEFINE a == After(b, i)
           S == {j \in DOMAIN tr : j <= i}
           T == {j \in DOMAIN tr : j <= a}
<1>1. /\ i \in Nat /\ a \in Path(b) \cup {End(b)} /\ a \in Nat /\ i < a
      /\ \A j \in Path(b) \cup {End(b)} : i < j => a <= j
  BY AfterOnPath
<1>2. End(b) \notin Path(b) /\ Path(b) \subseteq Nat
  BY Apart, PathStart
<1>3. IsFiniteSet(S)
  BY <1>1, PathSlots, ReachType
<1>4. ReachIn(tr, i) = Cardinality(S) /\ ReachIn(tr, a) = Cardinality(T)
  BY DEF ReachIn
<1>5. Cardinality(S) \in Nat
  BY <1>3, FS_CardinalityType
<1>6. CASE a = End(b)
  <2>1. T = S
    <3>1. a \notin DOMAIN tr
      BY <1>2, <1>6
    <3>2. \A j \in DOMAIN tr : i < j => a < j
      BY <1>1, <1>2, <3>1
    <3>3. \A j \in DOMAIN tr : j <= a <=> j <= i
      BY <1>1, <1>2, <3>1, <3>2
    <3> QED  BY <3>3
  <2> QED  BY <1>2, <1>4, <1>5, <1>6, <2>1 DEF IndexIn
<1>7. CASE a # End(b)
  <2>1. T = S \cup {a} /\ a \notin S
    BY <1>1, <1>2, <1>7
  <2> HIDE DEF S, T
  <2>2. Cardinality(T) = Cardinality(S) + 1
    BY <1>3, <2>1, FS_AddElement
  <2> QED  BY <1>2, <1>4, <1>5, <1>7, <2>2 DEF IndexIn
<1> QED  BY <1>6, <1>7

LEMMA SameSight ==
  ASSUME NEW can, NEW b, Planned(b, can), NEW i \in Nat,
         NEW rf \in RegFile, NEW tf \in RegFile, Agree(b, i, rf, tf)
  PROVE  Sight(b, i, rf) = Sight(b, i, tf)
<1>1. DOMAIN rf = State /\ DOMAIN tf = State
  BY DEF RegFile, State
<1>2. DOMAIN b.instrs = 1 .. Size(b) /\ DOMAIN b.sites = 1 .. NumSites(b)
  BY SizeType DEF Planned
<1>3. ASSUME NEW r \in State, ~ (i \in DOMAIN b.instrs /\ ProducingAt(b, i, r))
      PROVE  rf[r] = tf[r]
  <2>1. ~ ProducingIn(b, i, r)
    BY <1>2, <1>3 DEF ProducingIn, ProducingAt, SiteKind, At
  <2> QED  BY <2>1 DEF Agree
<1>4. [r \in State |-> IF i \in DOMAIN b.instrs /\ ProducingAt(b, i, r) THEN ZeroWord
                       ELSE rf[r]]
      = [r \in State |-> IF i \in DOMAIN b.instrs /\ ProducingAt(b, i, r) THEN ZeroWord
                         ELSE tf[r]]
  BY <1>3
<1> QED  BY <1>1, <1>4 DEF Sight

\* The log once the draft has been run.
FullLog(b, pr, tr) == Append(States(b, tr), Sight(b, End(b), pr[Len(pr)]))

LEMMA FullLogIs ==
  ASSUME NEW can, Planned(blk, can), Recorded
  PROVE  LET full == FullLog(blk, probes, trace)
         IN  /\ DOMAIN full = 1 .. Len(full)
             /\ Len(full) \in Nat /\ Len(full) = IndexIn(blk, trace, End(blk))
             /\ \A i \in Path(blk) \cup {End(blk)} :
                   /\ IndexIn(blk, trace, i) \in 1 .. Len(full)
                   /\ full[IndexIn(blk, trace, i)] =
                         Sight(blk, i, Told(blk, probes, trace, i))
<1> DEFINE full == FullLog(blk, probes, trace)
           s == States(blk, trace)
           n == Cardinality(DOMAIN trace)
           v == Sight(blk, End(blk), probes[Len(probes)])
<1>1. DOMAIN trace = Path(blk) /\ Slots(trace)
  BY ToldIs, PathSlots
<1>2. /\ \E T : s \in Seq(T)
      /\ Len(s) = n /\ n \in Nat
  BY <1>1, StatesType
<1>3. /\ \A i \in Path(blk) : i # End(blk) /\ i \in Nat /\ i <= End(blk)
      /\ End(blk) \in Nat
  <2>1. /\ Path(blk) \subseteq 1 .. Size(blk) /\ Size(blk) \in Nat
    BY Apart
  <2> QED  BY <2>1 DEF End
<1>4. ReachIn(trace, End(blk)) = n
  <2>1. {j \in DOMAIN trace : j <= End(blk)} = DOMAIN trace
    BY <1>1, <1>3
  <2> QED  BY <2>1 DEF ReachIn
<1>5. ASSUME NEW i \in Path(blk)
      PROVE  /\ IndexIn(blk, trace, i) \in 1 .. n
             /\ s[IndexIn(blk, trace, i)] = Sight(blk, i, trace[i])
             /\ Told(blk, probes, trace, i) = trace[i]
  <2>1. IndexIn(blk, trace, i) = ReachIn(trace, i)
    <3>1. ReachIn(trace, i) \in Nat
      BY <1>1, <1>3, ReachType
    <3> QED  BY <1>3, <3>1 DEF IndexIn
  <2>2. ReachIn(trace, i) \in 1 .. n
    BY <1>1, NthIs
  <2>3. s[ReachIn(trace, i)] = Sight(blk, i, trace[i])
    BY <1>1, StatesAt
  <2> QED  BY <1>3, <2>1, <2>2, <2>3 DEF Told
<1>6. IndexIn(blk, trace, End(blk)) = n + 1
  BY <1>2, <1>4 DEF IndexIn
<1> HIDE DEF s, n, v
<1>7. full = Append(s, v)
  BY DEF FullLog, s, v
<1>8. /\ Len(full) = n + 1 /\ DOMAIN full = 1 .. n + 1 /\ full[n + 1] = v
      /\ \A m \in 1 .. n : full[m] = s[m]
  BY <1>2, <1>7
<1>9. v = Sight(blk, End(blk), Told(blk, probes, trace, End(blk)))
  BY DEF Told, v
<1> HIDE DEF full
<1>10. ASSUME NEW i \in Path(blk) \cup {End(blk)}
       PROVE  /\ IndexIn(blk, trace, i) \in 1 .. n + 1
              /\ full[IndexIn(blk, trace, i)] = Sight(blk, i, Told(blk, probes, trace, i))
  <2>1. CASE i = End(blk)
    BY <1>2, <1>6, <1>8, <1>9, <2>1
  <2>2. CASE i \in Path(blk)
    BY <1>2, <1>5, <1>8, <2>2
  <2> QED  BY <2>1, <2>2
<1> QED  BY <1>2, <1>6, <1>8, <1>10 DEF full

--------------------------------------------------------------------------------
(* Every step is one of the abstract specification.                          *)

LEMMA PhaseIs ==
  /\ stage = "build" => ReplayPhase = "plan"
  /\ stage = "draft" => ReplayPhase = "record"
  /\ stage = "resolve" => ReplayPhase = "recorded"
  /\ stage = "final" => ReplayPhase = "replay"
  /\ stage \notin {"build", "draft", "resolve", "final", "failed"} =>
        ReplayPhase = "accepted"
BY DEF ReplayPhase

LEMMA PhasePrimed ==
  /\ stage' = "build" => ReplayPhase' = "plan"
  /\ stage' = "draft" => ReplayPhase' = "record"
  /\ stage' = "resolve" => ReplayPhase' = "recorded"
  /\ stage' = "final" => ReplayPhase' = "replay"
  /\ stage' \notin {"build", "draft", "resolve", "final", "failed"} =>
        ReplayPhase' = "accepted"
BY DEF ReplayPhase

CountOf(s, b, pr, tr, i) ==
    IF s \in {"build", "draft", "resolve"} THEN 0
    ELSE IF s = "final" THEN IndexIn(b, tr, i) ELSE Len(LogOf(s, b, pr, tr))

LEMMA CountIs == ReplayCount = CountOf(stage, blk, probes, trace, pc)
<1>1. DraftLog = LogOf(stage, blk, probes, trace)
  BY LogIs
<1> QED  BY <1>1 DEF ReplayCount, CountOf, IndexIn, Reached, ReachIn, Check, End

LEMMA CountPrimed == ReplayCount' = CountOf(stage', blk', probes', trace', pc')
<1>1. DraftLog' = LogOf(stage', blk', probes', trace')
  BY LogPrimed
<1> QED  BY <1>1 DEF ReplayCount, CountOf, IndexIn, Reached, ReachIn, Check, End

StateOf(s, b, i, rf) == IF s = "final" THEN Sight(b, i, rf) ELSE <<>>

LEMMA StateIs == ReplayState = StateOf(stage, blk, pc, regs)
BY DEF ReplayState, StateOf, Seen, Sight, Producing, ProducingAt

LEMMA StatePrimed == ReplayState' = StateOf(stage', blk', pc', regs')
BY DEF ReplayState, StateOf, Seen, Sight, Producing, ProducingAt

LEMMA EmptyLog == \A b : States(b, <<>>) = <<>>
<1>1. Cardinality(DOMAIN <<>>) = 0
  BY FS_EmptySet
<1> QED  BY <1>1 DEF States

LEMMA ReplayStarts == EntangleInit => Replayed!ReplayInit
<1> SUFFICES ASSUME EntangleInit PROVE Replayed!ReplayInit
  OBVIOUS
<1>1. stage = "build" /\ trace = <<>>
  BY DEF EntangleInit
<1>2. DraftLog = <<>>
  BY <1>1, EmptyLog, LogIs DEF LogOf
<1>3. ReplayPhase = "plan" /\ ReplayCount = 0 /\ ReplayState = <<>>
  BY <1>1, PhaseIs, CountIs, StateIs DEF CountOf, StateOf
<1> QED  BY <1>2, <1>3 DEF Replayed!ReplayInit

\* A step the abstract specification does not see.
LEMMA Unseen ==
  ASSUME \/ UNCHANGED vars
         \/ Build /\ EntangleIInv
         \/ StartDevice \/ DeviceStep \/ Miscompute \/ DeviceStop
  PROVE  UNCHANGED Replayed!replayVars
<1> DEFINE past == {"accepted", "device", "caught", "missed"}
<1> SUFFICES /\ ReplayPhase' = ReplayPhase /\ DraftLog' = DraftLog
             /\ ReplayCount' = ReplayCount /\ ReplayState' = ReplayState
  BY DEF Replayed!replayVars
<1>1. CASE UNCHANGED vars
  <2>1. UNCHANGED <<stage, blk, probes, trace, pc, regs>>
    BY <1>1 DEF vars
  <2>2. ReplayPhase' = ReplayPhase
    BY <2>1 DEF ReplayPhase
  <2> QED  BY <2>1, <2>2, LogIs, LogPrimed, CountIs, CountPrimed, StateIs, StatePrimed
<1>2. CASE Build /\ EntangleIInv
  <2>1. stage = "build" /\ stage' = stage /\ trace = <<>> /\ trace' = trace
    BY <1>2 DEF Build, runVars, EntangleIInv, MachineInv, Building
  <2>2. DraftLog = <<>> /\ DraftLog' = <<>>
    BY <2>1, EmptyLog, LogIs, LogPrimed DEF LogOf
  <2>3. /\ ReplayPhase = "plan" /\ ReplayPhase' = "plan"
        /\ ReplayCount = 0 /\ ReplayCount' = 0
        /\ ReplayState = <<>> /\ ReplayState' = <<>>
    BY <2>1, PhaseIs, PhasePrimed, CountIs, CountPrimed, StateIs, StatePrimed
       DEF CountOf, StateOf
  <2> QED  BY <2>2, <2>3
<1>3. CASE StartDevice \/ DeviceStep \/ Miscompute \/ DeviceStop
  <2>1. stage \in past /\ stage' \in past /\ UNCHANGED <<blk, probes, trace>>
    BY <1>3 DEF StartDevice, DeviceStep, Miscompute, DeviceStop
  <2>2. DraftLog' = DraftLog
    BY <2>1, LogIs, LogPrimed DEF LogOf
  <2>3. ReplayCount = Len(DraftLog) /\ ReplayCount' = Len(DraftLog')
    <3>1. /\ ReplayCount = Len(LogOf(stage, blk, probes, trace))
          /\ ReplayCount' = Len(LogOf(stage', blk', probes', trace'))
      BY <2>1, CountIs, CountPrimed DEF CountOf
    <3> QED  BY <3>1, LogIs, LogPrimed
  <2>4. /\ ReplayPhase = "accepted" /\ ReplayPhase' = "accepted"
        /\ ReplayState = <<>> /\ ReplayState' = <<>>
    BY <2>1, PhaseIs, PhasePrimed, StateIs, StatePrimed DEF StateOf
  <2> QED  BY <2>2, <2>3, <2>4
<1> QED  BY <1>1, <1>2, <1>3

LEMMA AppendLast ==
  ASSUME NEW s, \E T : s \in Seq(T), NEW v
  PROVE  Append(s, v) # <<>> /\ Append(s, v) = Append(s, Append(s, v)[Len(Append(s, v))])
<1>1. PICK T : s \in Seq(T)
  OBVIOUS
<1>2. s \in Seq(T \cup {v})
  BY <1>1
<1>3. Len(Append(s, v)) = Len(s) + 1 /\ Append(s, v)[Len(s) + 1] = v
  BY <1>2
<1>4. Append(s, v) # <<>>
  BY <1>2, <1>3
<1> QED  BY <1>3, <1>4

\* One state more in the draft.
LEMMA DraftGrows ==
  ASSUME EntangleIInv, Counted(trace), DraftStep
  PROVE  /\ States(blk', trace') = Append(States(blk, trace), Sight(blk, pc, regs))
         /\ Counted(trace') /\ Slots(trace)
<1>1. /\ Planned(blk, CanBranch) /\ Story(blk, trace, pc, regs, boot)
      /\ pc \in 1 .. Size(blk) /\ blk' = blk
  BY CodeIsPlanned DEF EntangleIInv, MachineInv, Drafting, DraftStep, Running
<1>2. trace' = Grown(trace, pc, regs)
  BY DEF DraftStep, Grown
<1>3. DOMAIN trace = Before(blk, pc)
  BY <1>1 DEF Story
<1>4. Path(blk) \subseteq 1 .. Size(blk) /\ Size(blk) \in Nat
  BY <1>1, Apart
<1>5. pc \in Nat /\ \A j \in DOMAIN trace : j < pc
  BY <1>1, <1>3, <1>4 DEF Before
<1>6. Slots(trace)
  <2>1. IsFiniteSet(1 .. Size(blk)) /\ Before(blk, pc) \subseteq 1 .. Size(blk)
    BY <1>4, FS_Interval DEF Before
  <2>2. IsFiniteSet(DOMAIN trace)
    BY <1>3, <2>1, FS_Subset
  <2> QED  BY <1>3, <1>4, <2>1, <2>2 DEF Slots
<1>7. /\ States(blk, Grown(trace, pc, regs)) = Append(States(blk, trace), Sight(blk, pc, regs))
      /\ Counted(Grown(trace, pc, regs))
  BY <1>5, <1>6, StatesGrow
<1> QED  BY <1>1, <1>2, <1>6, <1>7

LEMMA CountedHolds == EntangleIInv /\ Counted(trace) /\ [Next]_vars => Counted(trace')
<1>1. EntangleIInv /\ Counted(trace) /\ DraftStep => Counted(trace')
  BY DraftGrows
<1>2. [Next]_vars => DraftStep \/ trace' = trace
  BY DEF Next, vars, runVars, Build, Link, DraftStop, Resolve, FinalStep, FinalStop,
         StartDevice, DeviceStep, Miscompute, DeviceStop
<1> QED  BY <1>1, <1>2

LEMMA LinkStarts == EntangleIInv /\ Link => Replayed!Start
<1> SUFFICES ASSUME EntangleIInv, Link PROVE Replayed!Start
  OBVIOUS
<1>1. stage = "build" /\ stage' = "draft" /\ trace = <<>> /\ trace' = trace
  BY DEF Link, EntangleIInv, MachineInv, Building
<1>2. DraftLog = <<>> /\ DraftLog' = <<>>
  BY <1>1, EmptyLog, LogIs, LogPrimed DEF LogOf
<1>3. /\ ReplayPhase = "plan" /\ ReplayPhase' = "record"
      /\ ReplayCount = 0 /\ ReplayCount' = 0
      /\ ReplayState = <<>> /\ ReplayState' = <<>>
  BY <1>1, PhaseIs, PhasePrimed, CountIs, CountPrimed, StateIs, StatePrimed
     DEF CountOf, StateOf
<1> QED  BY <1>2, <1>3 DEF Replayed!Start

LEMMA DraftStepRecords ==
  EntangleIInv /\ Counted(trace) /\ DraftStep => Replayed!Record
<1> SUFFICES ASSUME EntangleIInv, Counted(trace), DraftStep PROVE Replayed!Record
  OBVIOUS
<1>1. stage = "draft" /\ stage' = "draft"
  BY DEF DraftStep
<1>2. DraftLog = States(blk, trace) /\ DraftLog' = States(blk', trace')
  BY <1>1, LogIs, LogPrimed DEF LogOf
<1>3. /\ DraftLog' = Append(DraftLog, Sight(blk, pc, regs))
      /\ \E T : DraftLog \in Seq(T)
  BY <1>2, DraftGrows, StatesType
<1>4. DraftLog' # <<>> /\ DraftLog' = Append(DraftLog, DraftLog'[Len(DraftLog')])
  BY <1>3, AppendLast
<1>5. /\ ReplayPhase = "record" /\ ReplayPhase' = "record"
      /\ ReplayCount = 0 /\ ReplayCount' = 0
      /\ ReplayState = <<>> /\ ReplayState' = <<>>
  BY <1>1, PhaseIs, PhasePrimed, CountIs, CountPrimed, StateIs, StatePrimed
     DEF CountOf, StateOf
<1> QED  BY <1>4, <1>5 DEF Replayed!Record, Replayed!LogOne

LEMMA DraftStopRecords == EntangleIInv /\ DraftStop => Replayed!Record
<1> SUFFICES ASSUME EntangleIInv, DraftStop PROVE Replayed!Record
  OBVIOUS
<1>1. /\ EntangleIInv' /\ stage = "draft"
      /\ stage' \in {"resolve", "failed"} /\ blk' = blk /\ trace' = trace
  BY DraftStopHolds DEF DraftStop
<1>2. stage' = "resolve"
  BY <1>1 DEF EntangleIInv, MachineInv
<1>3. /\ Planned(blk, CanBranch) /\ Story(blk, trace, pc, regs, boot)
  BY <1>1, CodeIsPlanned DEF EntangleIInv, MachineInv, Drafting
<1>4. Slots(trace)
  <2>1. DOMAIN trace = Before(blk, pc)
    BY <1>3 DEF Story
  <2>2. Path(blk) \subseteq 1 .. Size(blk) /\ Size(blk) \in Nat
    BY <1>3, Apart
  <2>3. IsFiniteSet(1 .. Size(blk)) /\ Before(blk, pc) \subseteq 1 .. Size(blk)
    BY <2>2, FS_Interval DEF Before
  <2>4. IsFiniteSet(DOMAIN trace)
    BY <2>1, <2>3, FS_Subset
  <2> QED  BY <2>1, <2>2, <2>3, <2>4 DEF Slots
<1> DEFINE v == Sight(blk', End(blk'), probes'[Len(probes')])
<1>5. DraftLog = States(blk, trace) /\ DraftLog' = Append(States(blk', trace'), v)
  BY <1>1, <1>2, LogIs, LogPrimed DEF LogOf
<1> HIDE DEF v
<1>6. DraftLog' = Append(DraftLog, v) /\ \E T : DraftLog \in Seq(T)
  BY <1>1, <1>4, <1>5, StatesType
<1>7. DraftLog' # <<>> /\ DraftLog' = Append(DraftLog, DraftLog'[Len(DraftLog')])
  BY <1>6, AppendLast
<1>8. /\ ReplayPhase = "record" /\ ReplayPhase' = "recorded"
      /\ ReplayCount = 0 /\ ReplayCount' = 0
      /\ ReplayState = <<>> /\ ReplayState' = <<>>
  BY <1>1, <1>2, PhaseIs, PhasePrimed, CountIs, CountPrimed, StateIs, StatePrimed
     DEF CountOf, StateOf
<1> QED  BY <1>7, <1>8 DEF Replayed!Record, Replayed!LogOne

LEMMA LogIsFull ==
  /\ stage \notin {"build", "draft", "failed"} => DraftLog = FullLog(blk, probes, trace)
  /\ stage' \notin {"build", "draft", "failed"} => DraftLog' = FullLog(blk', probes', trace')
BY LogIs, LogPrimed DEF LogOf, FullLog

\* The state the final program is in is the one the log has at its place.
LEMMA AtItsPlace ==
  ASSUME NEW can, Planned(blk, can), Recorded, NEW i \in Path(blk) \cup {End(blk)},
         NEW rf \in RegFile, Agree(blk, i, rf, Told(blk, probes, trace, i))
  PROVE  /\ IndexIn(blk, trace, i) \in DOMAIN FullLog(blk, probes, trace)
         /\ Sight(blk, i, rf) = FullLog(blk, probes, trace)[IndexIn(blk, trace, i)]
<1> DEFINE full == FullLog(blk, probes, trace)
           n == IndexIn(blk, trace, i)
           tf == Told(blk, probes, trace, i)
<1>1. /\ DOMAIN full = 1 .. Len(full) /\ n \in 1 .. Len(full)
      /\ full[n] = Sight(blk, i, tf)
  BY FullLogIs
<1>2. tf \in RegFile
  BY ToldIs
<1>3. i \in Nat
  BY Apart
<1> HIDE DEF full, n, tf
<1>4. Agree(blk, i, rf, tf)
  BY DEF tf
<1>5. Sight(blk, i, rf) = Sight(blk, i, tf)
  BY <1>2, <1>3, <1>4, SameSight
<1> QED  BY <1>1, <1>5 DEF full, n

LEMMA ResolveReplays == EntangleIInv /\ Resolve => Replayed!StartReplay
<1> SUFFICES ASSUME EntangleIInv, Resolve PROVE Replayed!StartReplay
  OBVIOUS
<1>1. /\ EntangleIInv' /\ stage = "resolve" /\ stage' \in {"failed", "final"}
      /\ blk' = blk /\ probes' = probes /\ trace' = trace /\ boot' = boot
  BY ResolveHolds DEF Resolve
<1>2. stage' = "final"
  BY <1>1 DEF EntangleIInv, MachineInv
<1>3. pc' = 1 /\ regs' = boot
  BY <1>2 DEF Resolve, Restart
<1>4. Planned(blk, CanBranch) /\ Recorded /\ boot \in RegFile
  BY <1>1, CodeIsPlanned DEF EntangleIInv, MachineInv
<1> DEFINE full == FullLog(blk, probes, trace)
<1>5. DraftLog = full /\ DraftLog' = full
  BY <1>1, <1>2, LogIsFull
<1>6. /\ 1 \in Path(blk) \cup {End(blk)}
      /\ Agree(blk, 1, boot, Told(blk, probes, trace, 1))
  BY <1>4, RunStarts
<1>7. /\ IndexIn(blk, trace, 1) \in DOMAIN full
      /\ Sight(blk, 1, boot) = full[IndexIn(blk, trace, 1)]
  BY <1>4, <1>6, AtItsPlace
<1>8. IndexIn(blk, trace, 1) = 1
  BY <1>4, ToldIs, IndexStart
<1> HIDE DEF full
<1>9. /\ ReplayPhase = "recorded" /\ ReplayPhase' = "replay"
      /\ ReplayCount = 0 /\ ReplayCount' = 1 /\ ReplayState' = Sight(blk, 1, boot)
  BY <1>1, <1>2, <1>3, <1>8, PhaseIs, PhasePrimed, CountIs, CountPrimed, StatePrimed
     DEF CountOf, StateOf
<1> QED  BY <1>5, <1>7, <1>8, <1>9 DEF Replayed!StartReplay, Replayed!Reach

\* Without a wrong result the next slot is the next of the path.
LEMMA CleanRun ==
  ASSUME NEW can, Planned(blk, can), Resolved, ~ corrupt, pc \in 1 .. Size(blk),
         NEW e \in Outcomes(pc, regs)
  PROVE  pc \in Path(blk) /\ e.pc = After(blk, pc)
<1>1. /\ Recorded /\ FinalImage(blk, image, trace) /\ regs \in RegFile
      /\ pc \in Path(blk) \cup {End(blk)}
      /\ SumAt(blk, pc, regs, trace)
      /\ Agree(blk, pc, regs, Told(blk, probes, trace, pc))
  BY DEF Resolved
<1>2. pc \in Path(blk)
  BY <1>1, Apart
<1> DEFINE tf == Told(blk, probes, trace, pc)
<1>3. tf = trace[pc] /\ tf \in RegFile /\ DraftAt(blk, pc, tf, trace)
  BY <1>1, <1>2, ToldIs
<1>4. Agree(blk, pc, regs, tf)
  BY <1>1
<1> HIDE DEF tf
<1>5. e.pc = After(blk, pc)
  BY <1>1, <1>2, <1>3, <1>4, CleanTurn
<1> QED  BY <1>2, <1>5

LEMMA FinalStepReplays == EntangleIInv /\ FinalStep => Replayed!Replay
<1> SUFFICES ASSUME EntangleIInv, FinalStep PROVE Replayed!Replay
  OBVIOUS
<1>1. /\ Planned(blk, CanBranch) /\ Resolved /\ Recorded /\ ~ corrupt
      /\ stage = "final" /\ stage' = "final"
      /\ UNCHANGED <<blk, probes, trace>> /\ pc \in 1 .. Size(blk)
  BY CodeIsPlanned DEF EntangleIInv, MachineInv, FinalStep, Resolved, Running
<1>2. PICK e \in Outcomes(pc, regs) : pc' = e.pc /\ regs' = e.regs
  BY DEF FinalStep, Execute
<1>3. pc \in Path(blk) /\ pc' = After(blk, pc)
  BY <1>1, <1>2, CleanRun
<1>4. Fine(pc', regs', corrupt)
  BY <1>1, <1>2, RunFine
<1> DEFINE i == After(blk, pc)
           rf == regs'
           full == FullLog(blk, probes, trace)
<1>5. /\ i \in Path(blk) \cup {End(blk)} /\ rf \in RegFile
      /\ Agree(blk, i, rf, Told(blk, probes, trace, i))
  BY <1>1, <1>3, <1>4 DEF Fine
<1>6. DraftLog = full /\ DraftLog' = full
  BY <1>1, LogIsFull
<1>7. IndexIn(blk, trace, i) = IndexIn(blk, trace, pc) + 1
  BY <1>1, <1>3, ToldIs, IndexNext
<1>8. /\ ReplayPhase = "replay" /\ ReplayPhase' = "replay"
      /\ ReplayCount = IndexIn(blk, trace, pc) /\ ReplayCount' = IndexIn(blk, trace, i)
      /\ ReplayState' = Sight(blk, i, rf)
  BY <1>1, <1>3, PhaseIs, PhasePrimed, CountIs, CountPrimed, StatePrimed
     DEF CountOf, StateOf
<1> HIDE DEF i, rf
<1>9. /\ IndexIn(blk, trace, i) \in DOMAIN full
      /\ Sight(blk, i, rf) = full[IndexIn(blk, trace, i)]
  BY <1>1, <1>5, AtItsPlace
<1> HIDE DEF full
<1> QED  BY <1>6, <1>7, <1>8, <1>9 DEF Replayed!Replay, Replayed!Reach

LEMMA FinalStopAccepts == EntangleIInv /\ FinalStop => Replayed!Accept
<1> SUFFICES ASSUME EntangleIInv, FinalStop PROVE Replayed!Accept
  OBVIOUS
<1>1. /\ Planned(blk, CanBranch) /\ Resolved /\ Recorded /\ ~ corrupt
      /\ stage = "final" /\ stage' \in {"accepted", "failed"}
      /\ UNCHANGED <<blk, probes, trace>> /\ pc \notin 1 .. Size(blk)
  BY CodeIsPlanned, EndedIs DEF EntangleIInv, MachineInv, FinalStop, Resolved
<1>2. stage' = "accepted"
  BY <1>1, FinalStopHolds DEF EntangleIInv, MachineInv
<1>3. pc = End(blk)
  <2>1. pc \in Path(blk) \cup {End(blk)}
    BY <1>1 DEF Resolved
  <2> QED  BY <1>1, <2>1, Apart
<1> DEFINE full == FullLog(blk, probes, trace)
<1>4. DraftLog = full /\ DraftLog' = full
  BY <1>1, <1>2, LogIsFull
<1>5. Len(full) = IndexIn(blk, trace, End(blk))
  BY <1>1, FullLogIs
<1> HIDE DEF full
<1>6. /\ ReplayPhase = "replay" /\ ReplayPhase' = "accepted"
      /\ ReplayCount = Len(full) /\ ReplayState' = <<>>
  BY <1>1, <1>2, <1>3, <1>5, PhaseIs, PhasePrimed, CountIs, StatePrimed
     DEF CountOf, StateOf
<1>7. ReplayCount' = Len(full)
  <2>1. ReplayCount' = Len(LogOf(stage', blk', probes', trace'))
    BY <1>2, CountPrimed DEF CountOf
  <2> QED  BY <1>4, <2>1, LogPrimed
<1> QED  BY <1>4, <1>6, <1>7 DEF Replayed!Accept

\* Every step of the workload is a step of the abstract specification or one it
\* does not see.
LEMMA StepReplays ==
  EntangleIInv /\ Counted(trace) /\ [Next]_vars =>
      [Replayed!ReplayNext]_(Replayed!replayVars)
<1> SUFFICES ASSUME EntangleIInv, Counted(trace), [Next]_vars
             PROVE  Replayed!ReplayNext \/ UNCHANGED Replayed!replayVars
  OBVIOUS
<1>1. CASE Build \/ StartDevice \/ DeviceStep \/ Miscompute \/ DeviceStop \/ UNCHANGED vars
  BY <1>1, Unseen
<1>2. CASE Link
  BY <1>2, LinkStarts DEF Replayed!ReplayNext
<1>3. CASE DraftStep
  BY <1>3, DraftStepRecords DEF Replayed!ReplayNext
<1>4. CASE DraftStop
  BY <1>4, DraftStopRecords DEF Replayed!ReplayNext
<1>5. CASE Resolve
  BY <1>5, ResolveReplays DEF Replayed!ReplayNext
<1>6. CASE FinalStep
  BY <1>6, FinalStepReplays DEF Replayed!ReplayNext
<1>7. CASE FinalStop
  BY <1>7, FinalStopAccepts DEF Replayed!ReplayNext
<1> QED  BY <1>1, <1>2, <1>3, <1>4, <1>5, <1>6, <1>7 DEF Next

\* The final program goes through the states of the draft, each of them, in
\* order and nothing else, and is accepted at the end of them; no program is
\* given up (orchestrator.rs: resolve_self_check; entangle.rs: "the register
\* state at every site is the same in the draft and in the final program").
\* That the end is reached, the rest of ImplementsReplay, is for TLC.
THEOREM Implementation == Spec => Replayed!ReplaySafety
<1>1. EntangleInit => Replayed!ReplayInit
  BY ReplayStarts
<1>2. EntangleInit => Counted(trace)
  <2>1. Cardinality(DOMAIN <<>>) = 0
    BY FS_EmptySet
  <2> QED  BY <2>1 DEF EntangleInit, Counted
<1>3. EntangleIInv /\ Counted(trace) /\ [Next]_vars => Counted(trace)'
  BY CountedHolds
<1>4. EntangleIInv /\ Counted(trace) /\ [Next]_vars =>
         [Replayed!ReplayNext]_(Replayed!replayVars)
  BY StepReplays
<1> QED
  BY <1>1, <1>2, <1>3, <1>4, EntangleInvariance, PTL DEF Spec, Replayed!ReplaySafety
================================================================================
