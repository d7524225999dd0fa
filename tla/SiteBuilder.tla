------------------------------ MODULE SiteBuilder ------------------------------
(***************************************************************************)
(* The generation of a hart's entangled workload: BasicBlock::run driving   *)
(* SiteBuilder (src/src/basicblock.rs, src/src/entangle.rs).                *)
(*                                                                         *)
(* `blk' is what the generator has appended so far.  The blocks of a hart   *)
(* are laid out one after the other, so the model keeps one sequence of     *)
(* instructions for all of them and `at', `failAt' and the code             *)
(* destinations are indices into it (1-based; the source counts from 0).    *)
(* One slot stands for one instruction, except that the load_imm_fixed      *)
(* sequence at the head of a value site is a single slot.                   *)
(*                                                                         *)
(* In this and the other modules a definition named Mut... is a faulty       *)
(* variant of the one it precedes: nothing uses it, but each property is      *)
(* known to fail with one of them in place.                                  *)
(***************************************************************************)
EXTENDS Integers, Sequences, FiniteSets

CONSTANTS
    Regs,            \* the nonzero integer registers, x1 .. x31
    ZERO,            \* x0: "no integer register written", "no base register"
    WorkInstrs,      \* the workload instructions the opcode tables can sample
    Addresses,       \* the base values confine_memory_access can ask for
    Options,         \* [enabled, threshold]: the command lines to consider, by
                     \* the branches and jalr they leave enabled and their
                     \* --guard-threshold
    MAX_PEEK,        \* most registers an address or jump target depends on
    NumInstrs,       \* --num-instrs, the budget of the hart
    MinBlock,        \* cut_cake_randomly's smallest and biggest block budget
    MaxBlock

ASSUME SiteBuilderAssumption ==
    /\ ZERO \notin Regs
    /\ Cardinality(Regs) >= 2 /\ IsFiniteSet(Regs)
    /\ \A w \in WorkInstrs :
          /\ w.op \notin {"nop", "skip", "jalr", "fixup"}
          /\ w.rd \in Regs \cup {ZERO}
          /\ w.base \in Regs \cup {ZERO}
          /\ w.std \in BOOLEAN     \* not a compressed instruction
          /\ w.unstable \in BOOLEAN  \* reads an implementation-dependent CSR
    /\ \A o \in Options : o.threshold \in Nat
    /\ MAX_PEEK \in Nat \ {0}
    /\ NumInstrs \in Nat
    /\ MinBlock \in Nat \ {0}
    /\ MaxBlock \in Nat /\ MinBlock <= MaxBlock

\* Operands are sampled from t0-t6 and a0-a7 (registers.rs), so the workload
\* never writes every register and `stale' always finds one.
ASSUME PoolAssumption == \E r \in Regs : \A w \in WorkInstrs : w.rd # r

VARIABLES
    opts,     \* the command line, chosen once
    blk,      \* [fresh, instrs, sites]: SiteBuilder.fresh and the code so far
    left,     \* workload instructions still to generate
    inBlock   \* workload instructions generated in the open block

builderVars == <<opts, blk, left, inBlock>>

--------------------------------------------------------------------------------
(* Sequences without repetitions, which is what `fresh' and `rdeps' are.    *)

Elems(s) == {s[i] : i \in DOMAIN s}

\* s.retain(|e| e != r), for an s that holds r at most once.
Without(s, r) ==
    IF r \notin Elems(s) THEN s
    ELSE LET p == CHOOSE i \in DOMAIN s : s[i] = r
         IN  [i \in 1 .. Len(s) - 1 |-> IF i < p THEN s[i] ELSE s[i + 1]]

\* s.iter().rev().take(max)
Freshest(s, max) ==
    [i \in 1 .. (IF Len(s) < max THEN Len(s) ELSE max) |-> s[Len(s) + 1 - i]]

--------------------------------------------------------------------------------
(* Instruction slots and sites.                                             *)

Nop == [op |-> "nop"]
JalSkip == [op |-> "skip"]               \* jal x0, +8
Jalr(rd, rs) == [op |-> "jalr", rd |-> rd, rs |-> rs]
Fixup(rd) == [op |-> "fixup", rd |-> rd]  \* load_imm32 of a random constant

NoFail == 0                              \* a site with no `jal x0, _fail'

Data(value) == [type |-> "data", value |-> value]
Code(index) == [type |-> "code", index |-> index]
ZeroWord == {}

\* Number of slots of load_imm_fixed.
ProducerLen == 1

\* instrs.len() and sites.len()
Size(b) == Len(b.instrs)
NumSites(b) == Len(b.sites)

Emit(b, slots) == [b EXCEPT !.instrs = @ \o slots]

AddSite(b, site) == [b EXCEPT !.sites = Append(@, site)]

\* producer; xor...  The placeholders are rendered once the site is linked.
ValueSite(b, rprod, rdeps, dest, failAt) ==
    AddSite(Emit(b, [i \in 1 .. ProducerLen + Len(rdeps) |-> Nop]),
            [kind |-> "value", at |-> Size(b) + 1, failAt |-> failAt,
             rprod |-> rprod, rdeps |-> rdeps, dest |-> dest])

\* Mutant: the two layouts of a branch swapped.
MutBranchFailAt(b, taken) == Size(b) + (IF taken THEN 3 ELSE 2)

\* taken:     b<cc> +8; jal _fail
\* not taken: b<cc> +8; jal +8; jal _fail
BranchFailAt(b, taken) == Size(b) + (IF taken THEN 2 ELSE 3)

BranchSlots(taken) == IF taken THEN <<Nop, Nop>> ELSE <<Nop, JalSkip, Nop>>

\* A conditional branch, or, with rs2 = x0, the branch of a guard.
BranchSite(b, kind, rs1, rs2, taken) ==
    AddSite(Emit(b, BranchSlots(taken)),
            [kind |-> kind, at |-> Size(b) + 1,
             failAt |-> BranchFailAt(b, taken),
             rs1 |-> rs1, rs2 |-> rs2, taken |-> taken])

--------------------------------------------------------------------------------
(* SiteBuilder.  An operator that draws from the random generator is the set *)
(* of the results it may return.                                            *)

CanGuard == {"beq", "bne"} \subseteq opts.enabled
CanBranch == \/ CanGuard
             \/ {"blt", "bge"} \subseteq opts.enabled
             \/ {"bltu", "bgeu"} \subseteq opts.enabled
CanJalr == "jalr" \in opts.enabled

\* Mutant: an overwritten register stays fresh.
MutClobber(b, r) == b

\* Generator code overwrote r with a known value.
Clobber(b, r) == [b EXCEPT !.fresh = Without(@, r)]

\* written_xreg: w writes an integer register.  Compressed instructions are not
\* tracked.
TrackedRd(w) == w.std /\ w.rd # ZERO

\* The workload instruction w was appended.
Observe(b, w) ==
    IF TrackedRd(w)
    THEN [b EXCEPT !.fresh = Append(Without(@, w.rd), w.rd)]
    ELSE b

\* Mutant: the register to be overwritten is not left out.
MutPeek(b, max, except) ==
    LET regs == Freshest(b.fresh, max)
    IN  IF regs = <<>> THEN {<<r>> : r \in Regs \ {except}} ELSE {regs}

Peek(b, max, except) ==
    LET regs == Freshest(Without(b.fresh, except), max)
    IN  IF regs = <<>> THEN {<<r>> : r \in Regs \ {except}} ELSE {regs}

\* Mutants: x0 may be returned; any register may be returned.
MutStaleX0(b) == (Regs \cup {ZERO}) \ Elems(b.fresh)
MutStaleAny(b) == Regs

Stale(b) ==
    LET stale == Regs \ Elems(b.fresh)
    IN  IF stale = {} THEN Regs ELSE stale

\* Make rprod hold addr through an entangled sequence.
Address(b, rprod, addr) ==
    {ValueSite(Clobber(b, rprod), rprod, rdeps, Data(addr), NoFail) :
        rdeps \in Peek(b, MAX_PEEK, rprod)}

\* Mutant: a guard peeks, like the other sites, at the freshest registers only.
MutGuard(b) ==
    {BranchSite(ValueSite([b EXCEPT !.fresh = <<>>], acc,
                          Freshest(Without(b.fresh, acc), MAX_PEEK),
                          Data(ZeroWord), NoFail),
                "guard", acc, ZERO, taken) :
        acc \in Stale(b), taken \in BOOLEAN}

\* acc = K ^ fresh_1 ^ ... ^ fresh_k, then a branch to _fail unless it is 0.
Guard(b) ==
    {BranchSite(ValueSite([b EXCEPT !.fresh = <<>>],
                          acc, Without(b.fresh, acc), Data(ZeroWord), NoFail),
                "guard", acc, ZERO, taken) :
        acc \in Stale(b), taken \in BOOLEAN}

\* producer; xor...; jalr rd, 0(rprod); jal x0, _fail; <dest>
IndirectJump(b, rprod, rd, rdeps) ==
    LET at == Size(b) + 1
        dest == at + ProducerLen + Len(rdeps) + 2
    IN  Emit(ValueSite(Clobber(Clobber(b, rprod), rd),
                       rprod, rdeps, Code(dest), dest - 1),
             <<Jalr(rd, rprod), Nop>>)

IndirectJumps(b) ==
    UNION {{IndirectJump(b, rprod, rd, rdeps) :
               rd \in Stale(b), rdeps \in Peek(b, MAX_PEEK, rprod)} :
           rprod \in Stale(b)}

\* The operands of a branch: the two freshest registers, the second one random
\* when only one is fresh.
Operands(b) ==
    UNION {IF Len(regs) > 1 THEN {<<regs[1], regs[2]>>}
           ELSE {<<regs[1], r>> : r \in Regs \ {regs[1]}} :
           regs \in Peek(b, 2, ZERO)}

Branches(b) ==
    {BranchSite(b, "branch", rs[1], rs[2], taken) :
        rs \in Operands(b), taken \in BOOLEAN}

ControlFlow(b) ==
    (IF CanJalr THEN IndirectJumps(b) ELSE {})
    \cup (IF CanBranch THEN Branches(b) ELSE {})
    \cup (IF CanJalr \/ CanBranch THEN {} ELSE {b})

\* Mutant: off by one.
MutAfterInstr(b) ==
    IF CanGuard /\ opts.threshold > 0 /\ Len(b.fresh) > opts.threshold
    THEN Guard(b)
    ELSE {b}

AfterInstr(b) ==
    IF CanGuard /\ opts.threshold > 0 /\ Len(b.fresh) >= opts.threshold
    THEN Guard(b)
    ELSE {b}

BlockEnd(b) ==
    UNION {IF CanGuard /\ c.fresh # <<>> THEN Guard(c) ELSE {c} :
           c \in {b} \cup ControlFlow(b)}

--------------------------------------------------------------------------------
(* BasicBlock::run: one step per unit of budget, one for the block's end.    *)

EmptyBlk == [fresh |-> <<>>, instrs |-> <<>>, sites |-> <<>>]

BuilderInit ==
    /\ opts \in Options
    /\ blk = EmptyBlk
    /\ left = NumInstrs
    /\ inBlock = 0

\* The site, if any, that points a memory access at its data section.
Confine(b, w) ==
    IF w.base = ZERO THEN {b}
    ELSE UNION {Address(b, w.base, addr) : addr \in Addresses}

\* Mutant: the register is forgotten and not overwritten.
MutStabilize(b, w) == IF w.unstable /\ w.rd # ZERO THEN Clobber(b, w.rd) ELSE b

\* A register read from an implementation-dependent CSR is overwritten.
Stabilize(b, w) ==
    IF w.unstable /\ w.rd # ZERO
    THEN Clobber(Emit(b, <<Fixup(w.rd)>>), w.rd)
    ELSE b

GenInstr(w) ==
    /\ left > 0
    /\ inBlock < MaxBlock
    /\ \E b \in Confine(blk, w) :
          blk' \in AfterInstr(Stabilize(Observe(Emit(b, <<w>>), w), w))
    /\ left' = left - 1
    /\ inBlock' = inBlock + 1
    /\ opts' = opts

EndBlock ==
    /\ inBlock > 0
    /\ inBlock >= MinBlock \/ left = 0
    /\ blk' \in BlockEnd(blk)
    /\ inBlock' = 0
    /\ UNCHANGED <<opts, left>>

BuilderNext == EndBlock \/ \E w \in WorkInstrs : GenInstr(w)

BuilderSpec == BuilderInit /\ [][BuilderNext]_builderVars

\* Hart::run has generated every block.
Built == left = 0 /\ inBlock = 0

--------------------------------------------------------------------------------
(* Which registers hold workload data nothing has checked, read off the     *)
(* generated code alone.                                                     *)

\* A workload instruction the generator tracks writes r in slot i.
Writes(b, i, r) ==
    /\ b.instrs[i] \in WorkInstrs
    /\ b.instrs[i].std
    /\ b.instrs[i].rd = r

Overwriting == {"jalr", "fixup"}

\* In slot i generator code overwrites r, or a guard checks it.
Retires(b, i, r) ==
    \/ b.instrs[i].op \in Overwriting /\ b.instrs[i].rd = r
    \/ \E k \in DOMAIN b.sites :
          /\ b.sites[k].at = i
          /\ \/ b.sites[k].kind = "value" /\ b.sites[k].rprod = r
             \/ b.sites[k].kind = "guard" /\ r \in Elems(b.sites[k - 1].rdeps)

\* The registers that hold unchecked workload data when slot i is reached.
PendingAt(b, i) ==
    {r \in Regs : \E j \in 1 .. i - 1 :
        /\ Writes(b, j, r)
        /\ \A k \in j + 1 .. i - 1 : ~ Retires(b, k, r)}

Pending(b) == PendingAt(b, Size(b) + 1)

Distinct(s) == \A i, j \in DOMAIN s : s[i] = s[j] => i = j

SiteKind(b, kind) == {k \in DOMAIN b.sites : b.sites[k].kind = kind}

\* The slots of a site: up to its jump to _fail, or its last xor.
Footprint(site) ==
    site.at .. (IF site.failAt # NoFail THEN site.failAt
                ELSE site.at + ProducerLen + Len(site.rdeps) - 1)

--------------------------------------------------------------------------------
(* Properties.                                                               *)

DestType ==
    [type : {"data"}, value : Addresses \cup {ZeroWord}]
    \cup [type : {"code"}, index : Nat \ {0}]

BranchKinds == {"branch", "guard"}

SiteType ==
    [kind : {"value"}, at : Nat \ {0}, failAt : Nat, rprod : Regs,
     rdeps : Seq(Regs), dest : DestType]
    \cup [kind : BranchKinds, at : Nat \ {0}, failAt : Nat \ {0},
          rs1 : Regs, rs2 : Regs \cup {ZERO}, taken : BOOLEAN]

SlotType == WorkInstrs \cup {Nop, JalSkip}
            \cup [op : {"jalr"}, rd : Regs, rs : Regs]
            \cup [op : {"fixup"}, rd : Regs]

\* The generator's state has its type: sites and slots are of the kinds the
\* source builds (entangle.rs, Site and Kind).
BuilderTypeOK ==
    /\ opts \in Options
    /\ blk.fresh \in Seq(Regs)
    /\ blk.instrs \in Seq(SlotType)
    /\ blk.sites \in Seq(SiteType)
    /\ left \in 0 .. NumInstrs
    /\ inBlock \in 0 .. MaxBlock

\* `fresh' lists, once each, exactly the registers that hold workload data no
\* guard has checked (entangle.rs: SiteBuilder.fresh).  observe, clobber and
\* guard keep it so across every interleaving of workload, address sites,
\* jumps and guards; a duplicate would cancel itself out of a guard's xor.
FreshIsPending ==
    /\ Distinct(blk.fresh)
    /\ Elems(blk.fresh) = Pending(blk)

\* A guard's accumulator depends on every register that holds unchecked
\* workload data when the guard is reached, and overwrites none of them
\* (entangle.rs: guard, stale).
GuardsCheckAllPending ==
    \A k \in SiteKind(blk, "guard") :
        LET acc == blk.sites[k - 1]
        IN  /\ Elems(acc.rdeps) = PendingAt(blk, acc.at)
            /\ acc.rprod = blk.sites[k].rs1
            /\ acc.rprod \notin PendingAt(blk, acc.at)

\* No unchecked workload data crosses the end of a block, and there are never
\* `threshold' unchecked registers once an instruction's sites are placed
\* (entangle.rs: after_instr, block_end).
UncheckedIsBounded ==
    CanGuard =>
        /\ inBlock = 0 => Pending(blk) = {}
        /\ opts.threshold > 0 => Cardinality(Pending(blk)) < opts.threshold

\* A site is entangled with unchecked workload data whenever there is some,
\* with as much of it as it can take, and never with the register it
\* overwrites: `rdeps never contains rprod' (entangle.rs: peek, Kind::Value).
SitesReadPending ==
    /\ \A k \in SiteKind(blk, "value") :
          LET site == blk.sites[k]
              data == PendingAt(blk, site.at) \ {site.rprod}
          IN  /\ site.rprod \notin Elems(site.rdeps)
              /\ Distinct(site.rdeps) /\ site.rdeps # <<>>
              /\ data # {} =>
                    /\ Elems(site.rdeps) \subseteq data
                    /\ Len(site.rdeps) >= MAX_PEEK \/ Elems(site.rdeps) = data
    /\ \A k \in SiteKind(blk, "branch") :
          LET site == blk.sites[k]
              data == PendingAt(blk, site.at)
          IN  /\ site.rs1 # site.rs2
              /\ data # {} => site.rs1 \in data
              /\ Cardinality(data) > 1 => site.rs2 \in data

\* An indirect jump destroys no unchecked workload data: neither its target
\* register nor its link register holds any (entangle.rs: control_flow).
JumpsSparePending ==
    \A i \in DOMAIN blk.instrs :
        blk.instrs[i].op = "jalr" =>
            \A k \in SiteKind(blk, "value") :
                blk.sites[k].failAt = i + 1 =>
                    {blk.instrs[i].rd, blk.sites[k].rprod}
                        \cap PendingAt(blk, blk.sites[k].at) = {}

\* Every slot is a workload instruction, with its fixup, or belongs to exactly
\* one site; sites are in program order, and an indirect jump lands just past
\* its jump to _fail (entangle.rs: value_site, control_flow, branch_site): no
\* site's patch can touch another's code.
SitesTileTheCode ==
    /\ \A k, l \in DOMAIN blk.sites : k < l =>
          \A i \in Footprint(blk.sites[k]), j \in Footprint(blk.sites[l]) : i < j
    /\ \A i \in DOMAIN blk.instrs :
          (blk.instrs[i] \in WorkInstrs \/ blk.instrs[i].op = "fixup") <=>
              \A k \in DOMAIN blk.sites : i \notin Footprint(blk.sites[k])
    /\ \A k \in SiteKind(blk, "value") :
          LET site == blk.sites[k]
          IN  site.dest.type = "code" => site.dest.index = site.failAt + 1

\* "every register the workload writes is checked by the next guard unless
\* the workload overwrites it first" (entangle.rs:19-21), to the letter: of
\* the registers the workload wrote since the previous guard, only those the
\* workload itself wrote again may be missing from a guard.
EveryWriteIsChecked ==
    \A k \in SiteKind(blk, "guard") :
        LET guard == blk.sites[k - 1]
            previous == {blk.sites[l].at :
                            l \in {l \in SiteKind(blk, "guard") : l < k}}
        IN  \A i \in 1 .. guard.at - 1, r \in Regs :
                Writes(blk, i, r) /\ (\A at \in previous : at < i)
                    => r \in Elems(guard.rdeps)
================================================================================
