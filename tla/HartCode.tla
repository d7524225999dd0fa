-------------------------------- MODULE HartCode --------------------------------
(***************************************************************************)
(* The code Hart::run wraps around the workload (src/src/hart.rs), and the   *)
(* machine that executes it:                                                 *)
(*                                                                         *)
(*   _start  point mtvec at the handler     _check  compare every register   *)
(*   _init   registers drawn at random      _exit   report the verdict       *)
(*   _stimulus  the workload                _fail   report a divergence      *)
(*                                          _trap_handler  report mcause + 1 *)
(*                                                                         *)
(* Spike runs the code up to the check, whose constants are placeholders,    *)
(* and the registers it has there are patched in (set_expected); the final   *)
(* code must pass on Spike; then a device runs it, where one result of the   *)
(* workload may be wrong, a wrong turn may reach _fail, or any instruction   *)
(* may trap.                                                                 *)
(*                                                                         *)
(* Integer registers are 1 .. NumX: x1, x2, X5, X6 and TMP (the source's     *)
(* x31) have a part in the code, the others stand for the rest.  One slot is *)
(* one instruction, or one load_imm or set_mtvec sequence; sizes count bytes *)
(* modulo 4 only.                                                            *)
(***************************************************************************)
EXTENDS Words, Sequences

CONSTANTS
    NumX, NumF,     \* integer and floating-point registers
    X5, X6,         \* the registers of the reports
    Csrs, MSCRATCH, \* SAFE_CSRS, as a sequence
    Targets,        \* [f, wide, selfCheck, entangled] to consider
    Workloads,      \* sequences of the slots described under Step
    Draws,          \* [x, f, csr]: register values random_xlen may draw
    CodeBases,      \* addresses of the first instruction
    Causes,         \* exception causes a device may trap with
    Faults,         \* the bits of a wrong result
    Tohost,         \* the address of the mailbox
    MISMATCH, DIVERGENCE,   \* the exit codes of _check and _fail
    NONE

X1 == 1
X2 == 2
ACC == X1
TMP == NumX

ILLEGAL == NatToWord(2)     \* mcause of an illegal instruction

\* What a slot of the workload may be: see Perform.
WorkSlot(s) ==
    /\ s.size \in {2, 4}
    /\ \/ s.op \in {"nop", "site"}
       \/ s.op = "inc" /\ s.rd \in 1 .. NumX
       \/ s.op = "fneg" /\ s.rd \in 1 .. NumF
       \/ s.op = "csrw" /\ s.rd \in {Csrs[i] : i \in DOMAIN Csrs} /\ s.rs \in 1 .. NumX

ASSUME HartAssumption ==
    /\ NumX \in Nat /\ X5 \in 3 .. NumX - 1 /\ X6 \in 3 .. NumX - 1 /\ X5 # X6
    /\ NumF \in Nat
    /\ Csrs \in Seq({Csrs[i] : i \in DOMAIN Csrs} \ {"mtvec", "mcause"})
    /\ \A i, j \in DOMAIN Csrs : Csrs[i] = Csrs[j] => i = j
    /\ \E i \in DOMAIN Csrs : Csrs[i] = MSCRATCH
    /\ Targets \subseteq [f : BOOLEAN, wide : BOOLEAN, selfCheck : BOOLEAN,
                          entangled : BOOLEAN]
    /\ \A w \in Workloads :
          w \in Seq({w[i] : i \in DOMAIN w}) /\ \A i \in DOMAIN w : WorkSlot(w[i])
    /\ CodeBases \subseteq Nat
    /\ \A d \in Draws :
          /\ d.x \in [1 .. NumX -> Word] /\ d.f \in [1 .. NumF -> Word]
          /\ d.csr \in [DOMAIN Csrs -> Word]
    /\ Faults \subseteq Word \ {{}} /\ Tohost \in Word
    /\ Causes \cup {ILLEGAL} \subseteq Word
    /\ {MISMATCH, DIVERGENCE} \subseteq Word /\ MISMATCH # DIVERGENCE
       \* "It lies above every mcause + 1 the trap handler reports"
    /\ \A cause \in Causes \cup {ILLEGAL} :
          LessUnsigned(Successor(cause), MISMATCH)
          /\ LessUnsigned(Successor(cause), DIVERGENCE)
    /\ XLEN - 1 \notin MISMATCH \cup DIVERGENCE
    /\ \A w \in Word : w # NONE
    /\ NONE \notin {"flip", "turn", "trap"}

VARIABLES
    hart,      \* [target, work, draw, base], chosen once
    code,      \* the slots as they are now
    stage,     \* "draft", "final", "device", "done" or "failed"
    pc,        \* a slot of the code, or MID
    x, f, csr, \* the registers; csr also holds mtvec and mcause
    fs,        \* is the FPU on?
    expected,  \* what the check compares with, [x, f]
    entry,     \* what the registers were when _check was reached, or NONE
    fault,     \* what went wrong on the device: NONE, "flip", "turn" or "trap"
    tohost     \* the command in the mailbox, or NONE

vars == <<hart, code, stage, pc, x, f, csr, fs, expected, entry, fault, tohost>>

MID == 0        \* pc between two slots: inside an instruction

--------------------------------------------------------------------------------
(* The code.                                                                 *)

Instr(op, rd, rs) == [op |-> op, size |-> 4, rd |-> rd, rs |-> rs]

LoadImm(rd, value) == Instr("li", rd, value)
ReadCsr(rd, c) == Instr("csrr", rd, c)         \* csrrs rd, c, x0
WriteCsr(c, rs) == Instr("csrw", c, rs)        \* csrrw x0, c, rs
SwapZero(rd, c) == Instr("csrrw0", rd, c)      \* csrrw rd, c, x0
SetMtvec(offset) == Instr("mtvec", X5, offset)
Cnop == [op |-> "nop", size |-> 2, rd |-> X5, rs |-> X5]

Bytes(slots) ==
    4 * Len(slots) - 2 * Cardinality({i \in DOMAIN slots : slots[i].size = 2})

\* The parts, of k slots each, one after the other.
Join(k, parts) ==
    [i \in 1 .. k * Len(parts) |-> parts[(i - 1) \div k + 1][((i - 1) % k) + 1]]

\* The low half of a word, NaN-boxed; and sign-extended.
Half == 0 .. XLEN \div 2 - 1
Box(w) == (w \cap Half) \cup (Bits \ Half)
Sext(w) == (w \cap Half)
           \cup (IF XLEN \div 2 - 1 \in w THEN Bits \ Half ELSE {})

LoadX(draw) == [r \in 1 .. NumX |-> LoadImm(r, draw.x[r])]

LoadCsrs(draw) ==
    Join(2, [i \in 1 .. Len(Csrs) |->
                <<LoadImm(X5, draw.csr[i]), WriteCsr(Csrs[i], X5)>>])

LoadF(target, draw) ==
    IF target.f
    THEN <<Instr("fson", X5, NONE)>>
         \o Join(2, [i \in 1 .. NumF |->
                        <<LoadImm(X5, draw.f[i]), Instr("fmvfx", i, X5)>>])
    ELSE <<>>

\* Mutant: the integer registers are not the last to be loaded.
MutInitRegisters(target, draw) ==
    LoadCsrs(draw) \o LoadX(draw) \o LoadF(target, draw)

InitRegisters(target, draw) ==
    LoadCsrs(draw) \o LoadF(target, draw) \o LoadX(draw)

\* acc |= value ^ constant, with `scratch' holding the constant.
FoldInto(value, scratch, constant) ==
    <<LoadImm(scratch, constant), Instr("xor", scratch, value),
      Instr("or", ACC, scratch)>>

\* Mutant: the low half is not sign-extended.
MutFpConstant(target, raw) == IF target.wide THEN raw ELSE raw \cap Half

\* What fmv.x.d or fmv.x.w reads of a register that holds raw.
FpConstant(target, raw) == IF target.wide THEN raw ELSE Sext(raw)

SelfCheckBlock(target, exp) ==
    <<WriteCsr(MSCRATCH, TMP), LoadImm(TMP, exp.x[X1]), Instr("xor", ACC, TMP)>>
    \o Join(3, [i \in 1 .. NumX - 2 |-> FoldInto(i + 1, TMP, exp.x[i + 1])])
    \o <<SwapZero(TMP, MSCRATCH)>> \o FoldInto(TMP, X2, exp.x[TMP])
    \o (IF target.f
        THEN Join(4, [i \in 1 .. NumF |->
                 <<Instr("fmvxf", TMP, i)>>
                 \o FoldInto(TMP, X2, FpConstant(target, exp.f[i]))])
        ELSE <<>>)
    \o <<Instr("sltu", X5, ACC), Instr("neg", X5, X5), Instr("andi", X5, MISMATCH)>>

\* report_to_tohost
Report(encode) ==
    <<encode, Instr("ori1", X5, X5), LoadImm(X6, Tohost), Instr("store", X6, X5),
      Instr("spin", X6, X6)>>

Check(target, exp) == IF target.selfCheck THEN SelfCheckBlock(target, exp) ELSE <<>>

Exit(target) ==
    Report(IF target.selfCheck THEN Instr("slli1", X5, X5) ELSE LoadImm(X5, {0}))

Fail(target) ==
    IF target.entangled THEN Report(LoadImm(X5, ShiftLeft(DIVERGENCE))) ELSE <<>>

\* Mutant: the code is never padded.
MutPadding(before) == <<>>

Padding(before) == IF before % 4 = 0 THEN <<>> ELSE <<Cnop>>

\* Mutant: mcause itself is the exit code.
MutTrapHandler == <<ReadCsr(X5, "mcause")>> \o Report(Instr("slli1", X5, X5))

TrapHandler ==
    <<ReadCsr(X5, "mcause"), Instr("addi1", X5, X5)>>
    \o Report(Instr("slli1", X5, X5))

\* Indices of the first slots of the blocks.
StimulusAt(h) == 2 + Len(InitRegisters(h.target, h.draw))
CheckAt(h) == StimulusAt(h) + Len(h.work)
ExitAt(h) == CheckAt(h) + Len(Check(h.target, h.draw))
FailAt(h) == ExitAt(h) + Len(Exit(h.target))

\* Hart::run
Code(h, exp) ==
    LET body == InitRegisters(h.target, h.draw) \o h.work \o Check(h.target, exp)
                \o Exit(h.target) \o Fail(h.target)
        before == Bytes(<<SetMtvec(0)>> \o body)
        offset == before + Bytes(Padding(before))
    IN  <<SetMtvec(offset)>> \o body \o Padding(before) \o TrapHandler

--------------------------------------------------------------------------------
(* The machine.                                                              *)

AddressOf(i) == hart.base + Bytes(SubSeq(code, 1, i - 1))

\* mtvec ignores the two low bits of an address.
TrapVector(address) == address - (address % 4)

SlotAt(address) ==
    LET slots == {i \in DOMAIN code : AddressOf(i) = address}
    IN  IF slots = {} THEN MID ELSE CHOOSE i \in slots : TRUE

Trap(cause) ==
    /\ pc' = SlotAt(csr["mtvec"])
    /\ csr' = [csr EXCEPT !["mcause"] = cause]
    /\ UNCHANGED <<x, f, fs, tohost>>

SetX(r, value) == x' = [x EXCEPT ![r] = value] /\ UNCHANGED <<f, csr, fs, tohost>>
SetF(r, value) == f' = [f EXCEPT ![r] = value] /\ UNCHANGED <<x, csr, fs, tohost>>
SetCsr(c, value) ==
    csr' = [csr EXCEPT ![c] = value] /\ UNCHANGED <<x, f, fs, tohost>>

FpOps == {"fmvfx", "fmvxf", "fneg"}

\* What the slot s does to the registers.  "inc", "fneg", "csrw" and "site" are
\* the workload's: an integer and a floating-point result, a write of a CSR,
\* and a site of Entangle, which does nothing while all goes well.
Perform(s) ==
    LET rd == s.rd
        rs == s.rs
    IN  \/ s.op \in {"nop", "site"} /\ UNCHANGED <<x, f, csr, fs, tohost>>
        \/ s.op = "li"    /\ SetX(rd, rs)
        \/ s.op = "inc"   /\ SetX(rd, Successor(x[rd]))
        \/ s.op = "xor"   /\ SetX(rd, Xor(x[rd], x[rs]))
        \/ s.op = "or"    /\ SetX(rd, x[rd] \cup x[rs])
        \/ s.op = "sltu"  /\ SetX(rd, IF x[rs] = {} THEN {} ELSE {0})
        \/ s.op = "neg"   /\ SetX(rd, Negative(x[rs]))
        \/ s.op = "andi"  /\ SetX(rd, x[rd] \cap rs)
        \/ s.op = "slli1" /\ SetX(rd, ShiftLeft(x[rs]))
        \/ s.op = "ori1"  /\ SetX(rd, x[rs] \cup {0})
        \/ s.op = "addi1" /\ SetX(rd, Successor(x[rs]))
        \/ s.op = "csrr"  /\ SetX(rd, csr[rs])
        \/ s.op = "csrw"  /\ SetCsr(rd, x[rs])
        \/ s.op = "mtvec" /\ SetCsr("mtvec", TrapVector(hart.base + rs))
        \/ /\ s.op = "csrrw0"
           /\ x' = [x EXCEPT ![rd] = csr[rs]]
           /\ csr' = [csr EXCEPT ![rs] = {}]
           /\ UNCHANGED <<f, fs, tohost>>
        \/ /\ s.op = "fson"
           /\ fs' = TRUE
           /\ x' = [x EXCEPT ![rd] = Bits]
           /\ UNCHANGED <<f, csr, tohost>>
        \/ s.op = "fneg"  /\ SetF(rd, Bits \ f[rd])
        \/ /\ s.op = "fmvfx"
           /\ SetF(rd, IF hart.target.wide THEN x[rs] ELSE Box(x[rs]))
        \/ /\ s.op = "fmvxf"
           /\ SetX(rd, IF hart.target.wide THEN f[rs] ELSE Sext(f[rs]))
        \/ /\ s.op = "store"
           /\ tohost' = IF x[rd] = Tohost THEN x[rs] ELSE tohost
           /\ UNCHANGED <<x, f, csr, fs>>
        \/ s.op = "spin" /\ UNCHANGED <<x, f, csr, fs, tohost>>

\* One slot.  Code that is not there is an illegal instruction, and so is a
\* floating-point instruction while the FPU is off.
Step ==
    IF pc = MID THEN Trap(ILLEGAL)
    ELSE LET s == code[pc]
         IN  IF s.op \in FpOps /\ ~ fs THEN Trap(ILLEGAL)
             ELSE /\ Perform(s)
                  /\ pc' = IF s.op = "spin" THEN pc ELSE pc + 1

Registers == [x |-> x, f |-> f]

\* The registers when _check is about to start.
Enter == entry' = IF pc = CheckAt(hart) /\ entry = NONE THEN Registers ELSE entry

Reset ==
    /\ pc' = 1
    /\ entry' = NONE
    /\ tohost' = NONE
    /\ fs' = FALSE
    /\ x' = [r \in 1 .. NumX |-> {}]
    /\ f' = [r \in 1 .. NumF |-> {}]
    /\ csr' = [c \in DOMAIN csr |-> IF c = "mtvec" THEN hart.base ELSE {}]

--------------------------------------------------------------------------------
(* The runs.                                                                 *)

\* ArchState::default()
Placeholder == [x |-> [r \in 1 .. NumX |-> {}], f |-> [r \in 1 .. NumF |-> {}]]

HartInit ==
    /\ hart \in [target : Targets, work : Workloads, draw : Draws, base : CodeBases]
    /\ \A i \in DOMAIN hart.work :
          /\ hart.work[i].op = "site" => hart.target.entangled
          /\ hart.work[i].op = "fneg" => hart.target.f
    /\ expected = Placeholder
    /\ code = Code(hart, Placeholder)
       \* entanglement and the check both need Spike
    /\ hart.target.entangled => hart.target.selfCheck
    /\ stage = IF hart.target.selfCheck THEN "draft" ELSE "device"
    /\ pc = 1
    /\ x = Placeholder.x /\ f = Placeholder.f
    /\ csr = [c \in {Csrs[i] : i \in DOMAIN Csrs} \cup {"mtvec", "mcause"} |->
                 IF c = "mtvec" THEN hart.base ELSE {}]
    /\ fs = FALSE
    /\ entry = NONE /\ fault = NONE /\ tohost = NONE

\* Spike runs the draft.
DraftStep ==
    /\ stage = "draft" /\ pc # CheckAt(hart)
    /\ Step
    /\ UNCHANGED <<hart, code, stage, expected, entry, fault>>

\* set_expected: the code does not move.
Patch ==
    /\ stage = "draft" /\ pc = CheckAt(hart)
    /\ expected' = Registers
    /\ code' = Code(hart, Registers)
    /\ stage' = "final"
    /\ Reset
    /\ UNCHANGED <<hart, fault>>

\* The final code runs on Spike, or it runs on the device.
RunStep ==
    /\ stage \in {"final", "device"} /\ tohost = NONE
    /\ Step
    /\ Enter
    /\ UNCHANGED <<hart, code, stage, expected, fault>>

\* exit_code = 0
Verify ==
    /\ stage = "final" /\ tohost # NONE
    /\ stage' = IF tohost = {0} THEN "device" ELSE "failed"
    /\ Reset
    /\ UNCHANGED <<hart, code, expected, fault>>

\* An instruction of the workload leaves a wrong result in rd.
Miscompute ==
    /\ stage = "device" /\ fault = NONE
    /\ pc \in StimulusAt(hart) .. CheckAt(hart) - 1
    /\ \E bits \in Faults :
          \/ /\ code[pc].op = "inc"
             /\ x' = [x EXCEPT ![code[pc].rd] = Xor(Successor(@), bits)]
             /\ f' = f
          \/ /\ code[pc].op = "fneg"
             /\ f' = [f EXCEPT ![code[pc].rd] = Xor(Bits \ @, bits)]
             /\ x' = x
    /\ fault' = "flip"
    /\ pc' = pc + 1
    /\ UNCHANGED <<hart, code, stage, csr, fs, expected, entry, tohost>>

\* A site goes the wrong way.
WrongTurn ==
    /\ stage = "device" /\ fault = NONE
    /\ pc \in StimulusAt(hart) .. CheckAt(hart) - 1
    /\ code[pc].op = "site"
    /\ fault' = "turn"
    /\ pc' = FailAt(hart)
    /\ UNCHANGED <<hart, code, stage, x, f, csr, fs, expected, entry, tohost>>

\* An instruction traps, once mtvec is set.
TakeTrap ==
    /\ stage = "device" /\ fault = NONE
    /\ tohost = NONE
    /\ pc > 1
    /\ \E cause \in Causes : Trap(cause)
    /\ fault' = "trap"
    /\ UNCHANGED <<hart, code, stage, expected, entry>>

\* The host stops the device.
Stop ==
    /\ stage = "device" /\ tohost # NONE
    /\ stage' = "done"
    /\ UNCHANGED <<hart, code, pc, x, f, csr, fs, expected, entry, fault, tohost>>

HartNext == DraftStep \/ Patch \/ RunStep \/ Verify \/ Miscompute \/ WrongTurn
            \/ TakeTrap \/ Stop

HartSpec == HartInit /\ [][HartNext]_vars

\* Spike and the device keep executing.
FairHartSpec == HartSpec /\ WF_vars(HartNext)

--------------------------------------------------------------------------------
(* Properties.                                                               *)

\* The workload starts from the registers that were drawn: no scratch value of
\* the initialisation leaks into it (hart.rs: init_registers, "x1-x31 are
\* written last so no scratch value leaks into the workload"), and its
\* floating-point instructions find the FPU on.
StimulusStartsAsDrawn ==
    pc = StimulusAt(hart) =>
        /\ x = hart.draw.x
        /\ \A i \in DOMAIN Csrs : csr[Csrs[i]] = hart.draw.csr[i]
        /\ fs = hart.target.f
        /\ fs => \A i \in 1 .. NumF :
                    f[i] = IF hart.target.wide THEN hart.draw.f[i] ELSE Box(hart.draw.f[i])

\* The registers as _check can see them.
Seen(regs) ==
    <<regs.x, IF hart.target.f
              THEN [i \in 1 .. NumF |-> FpConstant(hart.target, regs.f[i])] ELSE <<>>>>

\* The check leaves 0 in x5 if and only if every register is as expected when
\* it starts, though it computes in the registers it compares and in mscratch
\* (hart.rs: self_check_block).
CheckIsExact ==
    stage \in {"final", "device"} /\ hart.target.selfCheck
    /\ pc = ExitAt(hart) /\ entry # NONE =>
        x[X5] = IF Seen(entry) = Seen(expected) THEN {} ELSE MISMATCH

\* The exit code tells why the run ended (README, Self-check): a trap, a wrong
\* turn, a mismatch, or none of them, and Spike's run of the final code passes.
ReportTellsTheCause ==
    tohost # NONE =>
        tohost = {0} \cup ShiftLeft(
            IF fault = "trap" THEN Successor(csr["mcause"])
            ELSE IF fault = "turn" THEN DIVERGENCE
            ELSE IF hart.target.selfCheck /\ Seen(entry) # Seen(expected) THEN MISMATCH
            ELSE {})

\* Spike accepts the final code, and every run of the device ends with a
\* report, whatever goes wrong in it.
EveryRunReports == <>(stage = "done")

\* "mtvec is set first so a trap anywhere after it terminates the test"
\* (hart.rs:129).
TrapsEndTheTest == fault = "trap" ~> tohost # NONE
================================================================================
