------------------------------- MODULE Encoding --------------------------------
(***************************************************************************)
(* Instructions on their way from the generator into memory and from there  *)
(* into a hart (src/src/riscv/instruction.rs, encoding.rs, operand.rs;       *)
(* src/src/target.rs, emit):                                                *)
(*                                                                         *)
(*     idle --Draw, Load, Link, Construct--> made                           *)
(*          --Emit--> stored (refused, overflow) --Fetch--> fetched         *)
(*                                                                         *)
(* and what the generator itself concludes from an instruction it drew:      *)
(* where it will access memory (src/src/basicblock.rs, memory_operand) and   *)
(* which register it will write (src/src/entangle.rs, written_xreg).         *)
(*                                                                         *)
(* A 32-bit word is the set of the positions of its one bits: `|' is a union *)
(* and `(x & mask) << n' moves a run of bits.                                 *)
(***************************************************************************)
EXTENDS Integers, Sequences

CONSTANTS
    Extensions,       \* sets of extensions a target may enable
    IntRegisters,     \* the registers Opcode::random draws (INT_REGISTERS)
    GivenRegisters,   \* registers of the instructions constructed directly
    GivenImmediates,  \* and their immediates, legal or not
    LoadValues,       \* what load_imm32 is called with, of type i32
    LinkOffsets       \* distances from a site to _fail

ASSUME EncodingAssumption ==
    /\ \A e \in Extensions : {"I", "Zicsr"} \subseteq e   \* Target::from_config
    /\ IntRegisters \subseteq 3 .. 31       \* neither zero, nor ra, nor sp
    /\ GivenRegisters \subseteq 0 .. 31
    /\ GivenImmediates \subseteq Int /\ LoadValues \subseteq Int
    /\ LinkOffsets \subseteq Int
    /\ \A d \in LinkOffsets : d % 2 = 0     \* instructions have 2 or 4 bytes

VARIABLES
    target,    \* [xlen, extensions]: what the program is generated for
    source,    \* who made the instruction
    instr,     \* the instruction
    stage,     \* see above
    parcels,   \* the 16-bit parcels appended to the code, low bits first
    seen       \* what the hart fetched from them

vars == <<target, source, instr, stage, parcels, seen>>

--------------------------------------------------------------------------------
(* Words.                                                                    *)

\* The 32 bits of an i32.
BitsOf(n) ==
    LET ones(m) == {i \in 0 .. 30 : (m \div 2^i) % 2 = 1}
    IN  IF n >= 0 THEN ones(n) ELSE (0 .. 31) \ ones(- n - 1)

\* The i32 with bit 31 as well: for constants TLC has no number for.
High(n) == n - 2147483647 - 1

\* Bits hi..lo of a word, moved left by n (right when n is negative).
Run(word, hi, lo, n) == {b + n : b \in word \cap lo .. hi} \cap 0 .. 31

At(n, lo) == Run(BitsOf(n), 31, 0, lo)

\* The number with these bits, all below 2^21.
Number(bits) ==
    LET of(k) == IF k \in bits THEN 2^k ELSE 0
    IN  of(0) + of(1) + of(2) + of(3) + of(4) + of(5) + of(6) + of(7) + of(8) + of(9)
        + of(10) + of(11) + of(12) + of(13) + of(14) + of(15) + of(16) + of(17) + of(18)
        + of(19) + of(20)

\* The number in bits hi..lo of a word.
Field(word, hi, lo) == Number(Run(word, hi, lo, - lo))

--------------------------------------------------------------------------------
(* The catalog: fixed bits by format.                                        *)

UType == [Lui |-> \h37, Auipc |-> \h17]
JType == [Jal |-> \h6f]
BType == [Beq |-> \h63, Bne |-> \h1063, Blt |-> \h4063, Bge |-> \h5063,
          Bltu |-> \h6063, Bgeu |-> \h7063]
JalrType == [Jalr |-> \h67]
LoadType == [Lb |-> \h3, Lh |-> \h1003, Lw |-> \h2003, Lbu |-> \h4003,
             Lhu |-> \h5003, Lwu |-> \h6003, Ld |-> \h3003]
FloatLoadType == [Flw |-> \h2007, Fld |-> \h3007]
ImmType == [Addi |-> \h13, Slti |-> \h2013, Sltiu |-> \h3013, Xori |-> \h4013,
            Ori |-> \h6013, Andi |-> \h7013, Addiw |-> \h1b]
ShiftType == [Slli |-> \h1013, Srli |-> \h5013, Srai |-> \h40005013]
ShiftWType == [Slliw |-> \h101b, Srliw |-> \h501b, Sraiw |-> \h4000501b]
StoreType == [Sb |-> \h23, Sh |-> \h1023, Sw |-> \h2023, Sd |-> \h3023]
FloatStoreType == [Fsw |-> \h2027, Fsd |-> \h3027]
OpType == [Add |-> \h33, Sub |-> \h40000033, Sll |-> \h1033, Slt |-> \h2033,
           Sltu |-> \h3033, Xor |-> \h4033, Srl |-> \h5033, Sra |-> \h40005033,
           Or |-> \h6033, And |-> \h7033]
OpWType == [Addw |-> \h3b, Subw |-> \h4000003b, Sllw |-> \h103b, Srlw |-> \h503b,
            Sraw |-> \h4000503b]
MulType == [Mul |-> \h2000033, Mulh |-> \h2001033, Mulhsu |-> \h2002033,
            Mulhu |-> \h2003033, Div |-> \h2004033, Divu |-> \h2005033,
            Rem |-> \h2006033, Remu |-> \h2007033]
MulWType == [Mulw |-> \h200003b, Divw |-> \h200403b, Divuw |-> \h200503b,
             Remw |-> \h200603b, Remuw |-> \h200703b]
AmoType == [LrW |-> \h1000202f, ScW |-> \h1800202f, AmoswapW |-> \h800202f,
            AmoaddW |-> \h202f, AmoandW |-> \h6000202f, AmoorW |-> \h4000202f,
            AmoxorW |-> \h2000202f, AmomaxW |-> High(\h2000202f),
            AmomaxuW |-> High(\h6000202f), AmominW |-> High(\h202f),
            AmominuW |-> High(\h4000202f)]
AmoDType == [LrD |-> \h1000302f, ScD |-> \h1800302f, AmoswapD |-> \h800302f,
             AmoaddD |-> \h302f, AmoandD |-> \h6000302f, AmoorD |-> \h4000302f,
             AmoxorD |-> \h2000302f, AmomaxD |-> High(\h2000302f),
             AmomaxuD |-> High(\h6000302f), AmominD |-> High(\h302f),
             AmominuD |-> High(\h4000302f)]
FloatTernaryType == [FmaddS |-> \h43, FmsubS |-> \h47, FnmsubS |-> \h4b,
                     FnmaddS |-> \h4f, FmaddD |-> \h2000043, FmsubD |-> \h2000047,
                     FnmsubD |-> \h200004b, FnmaddD |-> \h200004f]
FloatBinaryType == [FaddS |-> \h53, FsubS |-> \h8000053, FmulS |-> \h10000053,
                    FdivS |-> \h18000053, FaddD |-> \h2000053, FsubD |-> \ha000053,
                    FmulD |-> \h12000053, FdivD |-> \h1a000053]
FloatUnaryType == [FsqrtS |-> \h58000053, FsqrtD |-> \h5a000053, FcvtSD |-> \h40100053,
                   FcvtDS |-> \h42000053]
FloatSelectType == [FsgnjS |-> \h20000053, FsgnjnS |-> \h20001053,
                    FsgnjxS |-> \h20002053, FminS |-> \h28000053, FmaxS |-> \h28001053,
                    FsgnjD |-> \h22000053, FsgnjnD |-> \h22001053,
                    FsgnjxD |-> \h22002053, FminD |-> \h2a000053, FmaxD |-> \h2a001053]
FloatCompareType == [FeqS |-> High(\h20002053), FltS |-> High(\h20001053),
                     FleS |-> High(\h20000053), FeqD |-> High(\h22002053),
                     FltD |-> High(\h22001053), FleD |-> High(\h22000053)]
FloatToIntType == [FcvtWS |-> High(\h40000053), FcvtWuS |-> High(\h40100053),
                   FcvtLS |-> High(\h40200053), FcvtLuS |-> High(\h40300053),
                   FcvtWD |-> High(\h42000053), FcvtWuD |-> High(\h42100053),
                   FcvtLD |-> High(\h42200053), FcvtLuD |-> High(\h42300053)]
IntToFloatType == [FcvtSW |-> High(\h50000053), FcvtSWu |-> High(\h50100053),
                   FcvtSL |-> High(\h50200053), FcvtSLu |-> High(\h50300053),
                   FcvtDW |-> High(\h52000053), FcvtDWu |-> High(\h52100053),
                   FcvtDL |-> High(\h52200053), FcvtDLu |-> High(\h52300053)]
FloatToBitsType == [FmvXW |-> High(\h60000053), FclassS |-> High(\h60001053),
                    FclassD |-> High(\h62001053), FmvXD |-> High(\h62000053)]
BitsToFloatType == [FmvWX |-> High(\h70000053), FmvDX |-> High(\h72000053)]
CsrType == [Csrrw |-> \h1073, Csrrs |-> \h2073, Csrrc |-> \h3073]
CsrImmType == [Csrrwi |-> \h5073, Csrrsi |-> \h6073, Csrrci |-> \h7073]
FenceType == [Fence |-> \hf]
VmaType == [SfenceVma |-> \h12000073, SinvalVma |-> \h16000073]
PlainType == [Ecall |-> \h73, Ebreak |-> \h100073, FenceI |-> \h100f,
              Sret |-> \h10200073, Mret |-> \h30200073, Wfi |-> \h10500073,
              SfenceWInval |-> \h18000073, SfenceInvalIr |-> \h18100073]

CRType == [CMv |-> \h8002, CAdd |-> \h9002]
CJrType == [CJr |-> \h8002, CJalr |-> \h9002]
CAType == [CAnd |-> \h8c61, COr |-> \h8c41, CXor |-> \h8c21, CSub |-> \h8c01,
           CAddw |-> \h9c21, CSubw |-> \h9c01]
CIType == [CLui |-> \h6001, CAddi |-> \h0001, CLi |-> \h4001, CAddiw |-> \h2001]
CShiftType == [CSlli |-> \h0002]
CSpType == [CLwsp |-> \h4002, CLdsp |-> \h6002]
CBAluType == [CAndi |-> \h8801]
CBShiftType == [CSrli |-> \h8001, CSrai |-> \h8401]
CBType == [CBeqz |-> \hc001, CBnez |-> \he001]
CJType == [CJal |-> \h2001, CJ |-> \ha001]
CSSType == [CSwsp |-> \hc002, CSdsp |-> \he002]
CLType == [CLw |-> \h4000, CLd |-> \h6000]
CSType == [CSw |-> \hc000, CSd |-> \he000]

Names(tables) == UNION {DOMAIN t : t \in tables}

FloatTypes ==
    {FloatTernaryType, FloatBinaryType, FloatUnaryType, FloatSelectType,
     FloatCompareType, FloatToIntType, IntToFloatType, FloatToBitsType, BitsToFloatType}

Compressed ==
    Names({CRType, CJrType, CAType, CIType, CShiftType, CSpType, CBAluType,
           CBShiftType, CBType, CJType, CSSType, CLType, CSType})
    \cup {"CAddi16sp", "CAddi4spn", "CEbreak"}

Doubles ==
    {"FmaddD", "FmsubD", "FnmsubD", "FnmaddD", "FaddD", "FsubD", "FmulD", "FdivD",
     "FsqrtD", "FsgnjD", "FsgnjnD", "FsgnjxD", "FminD", "FmaxD", "FcvtSD", "FcvtDS",
     "FeqD", "FltD", "FleD", "FclassD", "FcvtWD", "FcvtWuD", "FcvtDW", "FcvtDWu",
     "FcvtLD", "FcvtLuD", "FmvXD", "FcvtDL", "FcvtDLu", "FmvDX"}

\* extension.
OfExtension ==
    [I |-> Names({UType, JType, BType, JalrType, LoadType, ImmType, ShiftType, ShiftWType,
                  StoreType, OpType, OpWType, FenceType}) \cup {"Ecall", "Ebreak"},
     M |-> Names({MulType, MulWType}),
     A |-> Names({AmoType, AmoDType}),
     F |-> (Names(FloatTypes) \ Doubles) \cup {"Flw", "Fsw"},
     D |-> Doubles \cup {"Fld", "Fsd"},
     C |-> Compressed,
     Zicsr |-> Names({CsrType, CsrImmType}),
     Zifencei |-> {"FenceI"},
     Privileged |-> {"Sret", "Mret", "Wfi", "SfenceVma"},
     Svinval |-> {"SinvalVma", "SfenceWInval", "SfenceInvalIr"}]

Opcodes == UNION {OfExtension[e] : e \in DOMAIN OfExtension}

\* check_xlen.
Rv64 == Names({ShiftWType, OpWType, MulWType, AmoDType})
        \cup {"Lwu", "Ld", "Sd", "Addiw", "CAddw", "CSubw", "CAddiw", "CLdsp", "CLd",
              "CSdsp", "CSd", "FcvtLS", "FcvtLuS", "FcvtSL", "FcvtSLu", "FcvtLD",
              "FcvtLuD", "FcvtDL", "FcvtDLu", "FmvXD", "FmvDX"}
SupportsXlen(op, xlen) == (op \in Rv64 => xlen = 64) /\ (op = "CJal" => xlen = 32)

\* Target::supports.
Supports(t, op) ==
    /\ SupportsXlen(op, t.xlen)
    /\ \E e \in t.extensions : op \in OfExtension[e]

\* An instruction.  imm stands for its one operand that is no register: an
\* immediate, a shift amount, a CSR, an ordering, a rounding mode or the bits
\* of a fence; the uimm of a CSR access is in the place of rs1.
Instr(op, rd, rs1, rs2, imm) ==
    [op |-> op, rd |-> rd, rs1 |-> rs1, rs2 |-> rs2, rs3 |-> 0, imm |-> imm]

\* The operands an instruction has.
RegisterFields ==
    [op \in Opcodes |->
     CASE op \in Names({BType, StoreType, FloatStoreType, VmaType, CSType}) ->
             {"rs1", "rs2"}
       [] op \in Names({OpType, OpWType, MulType, MulWType, FloatBinaryType,
                        FloatSelectType, FloatCompareType}) -> {"rd", "rs1", "rs2"}
       [] op \in DOMAIN FloatTernaryType -> {"rd", "rs1", "rs2", "rs3"}
       [] op \in Names({AmoType, AmoDType}) ->
             {"rd", "rs1"} \cup (IF op \in {"LrW", "LrD"} THEN {} ELSE {"rs2"})
       [] op \in Names({JalrType, LoadType, FloatLoadType, ImmType, ShiftType, ShiftWType,
                        FloatUnaryType, FloatToIntType, IntToFloatType, FloatToBitsType,
                        BitsToFloatType, CsrType, CsrImmType, CLType}) -> {"rd", "rs1"}
       [] op \in Names({CRType, CAType}) -> {"rd", "rs2"}
       [] op \in Names({CJrType, CBAluType, CBShiftType, CBType}) -> {"rs1"}
       [] op \in DOMAIN CSSType -> {"rs2"}
       [] op \in Names({CJType, FenceType, PlainType}) \cup {"CAddi16sp", "CEbreak"} -> {}
       [] op \in Names({UType, JType, CIType, CShiftType, CSpType}) \cup {"CAddi4spn"} ->
             {"rd"}]

\* Those that are no integer registers.
OtherFields ==
    [op \in Opcodes |->
     CASE op \in Names({FloatLoadType, IntToFloatType, BitsToFloatType}) -> {"rd"}
       [] op \in DOMAIN FloatStoreType -> {"rs2"}
       [] op \in Names({FloatTernaryType, FloatBinaryType, FloatUnaryType,
                        FloatSelectType}) -> RegisterFields[op]
       [] op \in DOMAIN FloatCompareType -> {"rs1", "rs2"}
       [] op \in Names({FloatToIntType, FloatToBitsType, CsrImmType}) -> {"rs1"}
       [] OTHER -> {}]

\* And the type of imm.
ImmKind ==
    [op \in Opcodes |->
     CASE op \in Names({ShiftType, ShiftWType, CShiftType, CBShiftType}) -> "shift"
       [] op \in Names({CsrType, CsrImmType}) -> "csr"
       [] op \in Names({AmoType, AmoDType}) -> "ordering"
       [] op \in Names({FloatTernaryType, FloatBinaryType, FloatUnaryType, FloatToIntType,
                        IntToFloatType}) -> "rounding"
       [] op \in DOMAIN FenceType -> "fence"
       [] op \in Names({OpType, OpWType, MulType, MulWType, FloatSelectType,
                        FloatCompareType, FloatToBitsType, BitsToFloatType, VmaType,
                        PlainType, CRType, CJrType, CAType}) \cup {"CEbreak"} -> "none"
       [] OTHER -> "i32"]

--------------------------------------------------------------------------------
(* Packers (encoding.rs).                                                    *)

R(base, rd, rs1, rs2) == BitsOf(base) \cup At(rd, 7) \cup At(rs1, 15) \cup At(rs2, 20)

R4(base, rd, rs1, rs2, rs3) == R(base, rd, rs1, rs2) \cup At(rs3, 27)

PackI(base, rd, rs1, imm) == R(base, rd, rs1, 0) \cup Run(imm, 11, 0, 20)

PackS(base, rs1, rs2, imm) ==
    R(base, 0, rs1, rs2) \cup Run(imm, 4, 0, 7) \cup Run(imm, 11, 5, 20)

\* Mutant: bit 11 of a branch offset goes where a store's lowest bit goes.
MutPackB(base, rs1, rs2, imm) == PackS(base, rs1, rs2, imm)

PackB(base, rs1, rs2, imm) ==
    R(base, 0, rs1, rs2) \cup Run(imm, 11, 11, -4) \cup Run(imm, 4, 1, 7)
    \cup Run(imm, 10, 5, 20) \cup Run(imm, 12, 12, 19)

PackU(base, rd, imm) == BitsOf(base) \cup At(rd, 7) \cup Run(imm, 19, 0, 12)

PackJ(base, rd, imm) ==
    BitsOf(base) \cup At(rd, 7) \cup Run(imm, 19, 12, 0) \cup Run(imm, 11, 11, 9)
    \cup Run(imm, 10, 1, 20) \cup Run(imm, 20, 20, 11)

PackCR(base, rd, rs2) == BitsOf(base) \cup At(rd, 7) \cup At(rs2, 2)

PackCI(base, rd, imm) ==
    BitsOf(base) \cup At(rd, 7) \cup Run(imm, 4, 0, 2) \cup Run(imm, 5, 5, 7)

PackCSS(base, rs2, imm) == BitsOf(base) \cup At(rs2, 2) \cup Run(imm, 31, 0, 7)

PackCL(base, rd, rs1, imm) ==
    BitsOf(base) \cup At(rd - 8, 2) \cup At(rs1 - 8, 7)
    \cup Run(imm, 1, 0, 5) \cup Run(imm, 4, 2, 8)

PackCIW(rd, imm) ==
    At(rd - 8, 2) \cup Run(imm, 5, 4, 7) \cup Run(imm, 9, 6, 1)
    \cup Run(imm, 2, 2, 4) \cup Run(imm, 3, 3, 2)

PackCB(base, rs1, imm) ==
    BitsOf(base) \cup At(rs1 - 8, 7) \cup Run(imm, 8, 8, 4) \cup Run(imm, 4, 3, 7)
    \cup Run(imm, 7, 6, -1) \cup Run(imm, 2, 1, 2) \cup Run(imm, 5, 5, -3)

PackCJ(base, imm) ==
    BitsOf(base) \cup Run(imm, 11, 11, 1) \cup Run(imm, 4, 4, 7) \cup Run(imm, 9, 8, 1)
    \cup Run(imm, 10, 10, -2) \cup Run(imm, 6, 6, 1) \cup Run(imm, 7, 7, -1)
    \cup Run(imm, 3, 1, 2) \cup Run(imm, 5, 5, -3)

\* addi16sp_imm, lwsp_imm and swsp_imm, ldsp_imm and sdsp_imm, word_imm,
\* double_imm: scaled immediates as their formats want them.
Addi16spImm(imm) ==
    Run(imm, 9, 9, -4) \cup Run(imm, 4, 4, 0) \cup Run(imm, 6, 6, -3)
    \cup Run(imm, 8, 7, -6) \cup Run(imm, 5, 5, -5)
WordSpImm(imm) == Run(imm, 5, 2, 0) \cup Run(imm, 7, 6, -6)
DoubleSpImm(imm) == Run(imm, 5, 3, 0) \cup Run(imm, 8, 6, -6)
WordImm(imm) == Run(imm, 5, 3, -1) \cup Run(imm, 2, 2, -1) \cup Run(imm, 6, 6, -6)
DoubleImm(imm) == Run(imm, 5, 3, -1) \cup Run(imm, 7, 6, -6)

--------------------------------------------------------------------------------
(* What an operand may be (operand.rs).                                      *)

Limits(min, max, alignment) == [min |-> min, max |-> max, alignment |-> alignment]

Bounds(op, xlen) ==
    CASE op \in Names({CShiftType, CBShiftType}) -> Limits(1, xlen - 1, 1)
      [] op \in DOMAIN ShiftWType -> Limits(0, 31, 1)
      [] op \in DOMAIN ShiftType -> Limits(0, xlen - 1, 1)
      [] op \in DOMAIN UType -> Limits(-524288, 1048575, 1)
      [] op \in DOMAIN JType -> Limits(-1048576, 1048574, 2)
      [] op \in DOMAIN BType -> Limits(-4096, 4094, 2)
      [] op \in DOMAIN CJType -> Limits(-2048, 2046, 2)
      [] op \in DOMAIN CBType -> Limits(-256, 254, 2)
      [] op \in Names({CIType, CBAluType}) -> Limits(-32, 31, 1)
      [] op = "CAddi16sp" -> Limits(-512, 496, 16)
      [] op = "CAddi4spn" -> Limits(4, 1020, 4)
      [] op \in {"CLwsp", "CSwsp"} -> Limits(0, 252, 4)
      [] op \in {"CLw", "CSw"} -> Limits(0, 124, 4)
      [] op \in {"CLdsp", "CSdsp"} -> Limits(0, 504, 8)
      [] op \in {"CLd", "CSd"} -> Limits(0, 248, 8)
      [] OTHER -> Limits(-2048, 2047, 1)

NonzeroImmediate == {"CLui", "CAddi16sp", "CAddi4spn"}

\* compact_register and nonzero_register.
Compact ==
    Names({CAType, CBAluType, CBShiftType, CBType, CLType, CSType}) \cup {"CAddi4spn"}
Nonzero ==
    Names({CRType, CJrType, CShiftType}) \cup {"CLui", "CAddiw", "CLwsp", "CLdsp"}

ValidRegister(op, r) ==
    /\ op \in Compact => r \in 8 .. 15
    /\ op \in Nonzero => r # 0
    /\ op = "CLui" => r # 2

ValidImmediate(op, xlen, imm) ==
    LET b == Bounds(op, xlen)
    IN  CASE ImmKind[op] \in {"i32", "shift"} ->
                /\ imm \in b.min .. b.max
                /\ imm % b.alignment = 0
                /\ op \in NonzeroImmediate => imm # 0
          [] ImmKind[op] = "fence" -> imm \in 0 .. 4095
          [] OTHER -> TRUE

\* encode: every operand in turn.
Valid(x, xlen) ==
    /\ \A f \in RegisterFields[x.op] \ OtherFields[x.op] : ValidRegister(x.op, x[f])
    /\ ValidImmediate(x.op, xlen, x.imm)

\* Operand::sample.  Floating-point registers and a uimm are drawn from the
\* same numbers as the others.
SampledRegisters(op) == IF op \in Compact THEN 8 .. 15 ELSE IntRegisters

\* A draw is a quotient times the alignment.
SampledImmediates(op, t) ==
    LET b == Bounds(op, t.xlen)
        quotients == b.min \div b.alignment .. b.max \div b.alignment
        drawn == (GivenImmediates \cap quotients)
                 \cup {b.min \div b.alignment, b.max \div b.alignment}
    IN  CASE ImmKind[op] \in {"i32", "shift"} ->
                {q * b.alignment : q \in drawn} \ (IF op \in NonzeroImmediate THEN {0} ELSE {})
          [] ImmKind[op] = "csr" ->         \* workload_csrs, by with_csr
                {\h340, \h140} \cup (IF "F" \in t.extensions THEN {1} ELSE {})
          [] ImmKind[op] = "ordering" -> 0 .. 3
          [] ImmKind[op] = "rounding" -> {0, 1, 2, 3, 4, 7}
          [] ImmKind[op] = "fence" -> GivenImmediates \cap 0 .. 255
          [] ImmKind[op] = "none" -> {0}

\* What the types of the operands leave to whoever writes an instruction.
GivenFor(op) ==
    CASE ImmKind[op] = "i32" -> GivenImmediates
      [] ImmKind[op] = "shift" -> GivenImmediates \cap 0 .. 255
      [] ImmKind[op] = "csr" -> GivenImmediates \cap 0 .. 4095
      [] ImmKind[op] = "fence" -> GivenImmediates \cap 0 .. 65535
      [] ImmKind[op] = "ordering" -> 0 .. 3
      [] ImmKind[op] = "rounding" -> {0, 1, 2, 3, 4, 7}
      [] ImmKind[op] = "none" -> {0}

\* All instructions of an opcode with such operands.
With(op, registers, immediates) ==
    LET in(f) == IF f \in RegisterFields[op] THEN registers ELSE {0}
    IN  {[Instr(op, rd, rs1, rs2, imm) EXCEPT !.rs3 = rs3] :
            rd \in in("rd"), rs1 \in in("rs1"), rs2 \in in("rs2"), rs3 \in in("rs3"),
            imm \in immediates}

--------------------------------------------------------------------------------
(* Encoding an instruction (instruction.rs, encode_inner).                   *)

\* cr has the register of a jump where a move has its destination; ca and cb_alu
\* take eight registers.
PackedC(x, imm) ==
    LET op == x.op
    IN  CASE op \in DOMAIN CRType -> PackCR(CRType[op], x.rd, x.rs2)
          [] op \in DOMAIN CJrType -> PackCR(CJrType[op], x.rs1, 0)
          [] op \in DOMAIN CAType -> PackCR(CAType[op], x.rd - 8, x.rs2 - 8)
          [] op \in DOMAIN CIType -> PackCI(CIType[op], x.rd, imm)
          [] op \in DOMAIN CShiftType -> PackCI(CShiftType[op], x.rd, imm)
          [] op = "CAddi16sp" -> PackCI(\h6001, 2, Addi16spImm(imm))
          [] op = "CLwsp" -> PackCI(CSpType[op], x.rd, WordSpImm(imm))
          [] op = "CLdsp" -> PackCI(CSpType[op], x.rd, DoubleSpImm(imm))
          [] op \in DOMAIN CBAluType -> PackCI(CBAluType[op], x.rs1 - 8, imm)
          [] op \in DOMAIN CBShiftType -> PackCI(CBShiftType[op], x.rs1 - 8, imm)
          [] op \in DOMAIN CBType -> PackCB(CBType[op], x.rs1, imm)
          [] op \in DOMAIN CJType -> PackCJ(CJType[op], imm)
          [] op = "CSwsp" -> PackCSS(CSSType[op], x.rs2, WordSpImm(imm))
          [] op = "CSdsp" -> PackCSS(CSSType[op], x.rs2, DoubleSpImm(imm))
          [] op = "CLw" -> PackCL(CLType[op], x.rd, x.rs1, WordImm(imm))
          [] op = "CLd" -> PackCL(CLType[op], x.rd, x.rs1, DoubleImm(imm))
          [] op = "CSw" -> PackCL(CSType[op], x.rs2, x.rs1, WordImm(imm))
          [] op = "CSd" -> PackCL(CSType[op], x.rs2, x.rs1, DoubleImm(imm))
          [] op = "CAddi4spn" -> PackCIW(x.rd, imm)
          [] op = "CEbreak" -> BitsOf(\h9002)

\* Several formats that are packed alike.
Joined(tables) ==
    [op \in Names(tables) |-> (CHOOSE t \in tables : op \in DOMAIN t)[op]]

IForm == Joined({JalrType, LoadType, FloatLoadType, ImmType, ShiftType, ShiftWType,
                 CsrType, CsrImmType, FenceType})
SForm == Joined({StoreType, FloatStoreType})
RForm == Joined({OpType, OpWType, MulType, MulWType, VmaType, PlainType})
AmoForm == Joined({AmoType, AmoDType})
FloatForm == Joined(FloatTypes)

Packed(x) ==
    LET op == x.op
        imm == BitsOf(x.imm)
    IN  CASE op \in DOMAIN UType -> PackU(UType[op], x.rd, imm)
          [] op \in DOMAIN JType -> PackJ(JType[op], x.rd, imm)
          [] op \in DOMAIN BType -> PackB(BType[op], x.rs1, x.rs2, imm)
          [] op \in DOMAIN IForm -> PackI(IForm[op], x.rd, x.rs1, imm)
          [] op \in DOMAIN SForm -> PackS(SForm[op], x.rs1, x.rs2, imm)
          [] op \in DOMAIN RForm -> R(RForm[op], x.rd, x.rs1, x.rs2)
          [] op \in DOMAIN AmoForm ->
                R(AmoForm[op], x.rd, x.rs1, x.rs2) \cup Run(imm, 31, 0, 25)
          [] op \in DOMAIN FloatForm ->
                R4(FloatForm[op], x.rd, x.rs1, x.rs2, x.rs3) \cup Run(imm, 31, 0, 12)
          [] op \in Compressed -> PackedC(x, imm)

--------------------------------------------------------------------------------
(* A hart's decoder, from the tables of the RISC-V manual.                   *)

\* An immediate is given as the manual gives it: for the bits of the
\* instruction from hi downwards, the bits they hold.
Laid(word, hi, layout) == {layout[k] : k \in {j \in DOMAIN layout : hi + 1 - j \in word}}

\* The number whose sign is in the given bit.
SignExtended(bits, sign) == Number(bits \ {sign}) - (IF sign \in bits THEN 2^sign ELSE 0)

Reserved == Instr("reserved", 0, 0, 0, 0)

\* The name of a code in a table with gaps.
Entry(table, code) ==
    IF \E op \in DOMAIN table : table[op] = code
    THEN CHOOSE op \in DOMAIN table : table[op] = code
    ELSE "reserved"

Branches == [Beq |-> 0, Bne |-> 1, Blt |-> 4, Bge |-> 5, Bltu |-> 6, Bgeu |-> 7]
Loads == [Lb |-> 0, Lh |-> 1, Lw |-> 2, Ld |-> 3, Lbu |-> 4, Lhu |-> 5, Lwu |-> 6]
Stores == [Sb |-> 0, Sh |-> 1, Sw |-> 2, Sd |-> 3]
FloatLoads == [Flw |-> 2, Fld |-> 3]
FloatStores == [Fsw |-> 2, Fsd |-> 3]
OpImms == [Addi |-> 0, Slti |-> 2, Sltiu |-> 3, Xori |-> 4, Ori |-> 6, Andi |-> 7]
\* By funct3 + 8 * funct7.
ShiftImms == [Slli |-> 1, Srli |-> 5, Srai |-> 261]
OpImm32s == [Slliw |-> 1, Srliw |-> 5, Sraiw |-> 261]
Ops == [Add |-> 0, Sll |-> 1, Slt |-> 2, Sltu |-> 3, Xor |-> 4, Srl |-> 5, Or |-> 6,
        And |-> 7, Mul |-> 8, Mulh |-> 9, Mulhsu |-> 10, Mulhu |-> 11, Div |-> 12,
        Divu |-> 13, Rem |-> 14, Remu |-> 15, Sub |-> 256, Sra |-> 261]
Op32s == [Addw |-> 0, Sllw |-> 1, Srlw |-> 5, Mulw |-> 8, Divw |-> 12, Divuw |-> 13,
          Remw |-> 14, Remuw |-> 15, Subw |-> 256, Sraw |-> 261]
\* By funct5.
AmoWs == [AmoaddW |-> 0, AmoswapW |-> 1, LrW |-> 2, ScW |-> 3, AmoxorW |-> 4, AmoorW |-> 8,
          AmoandW |-> 12, AmominW |-> 16, AmomaxW |-> 20, AmominuW |-> 24, AmomaxuW |-> 28]
AmoDs == [AmoaddD |-> 0, AmoswapD |-> 1, LrD |-> 2, ScD |-> 3, AmoxorD |-> 4, AmoorD |-> 8,
          AmoandD |-> 12, AmominD |-> 16, AmomaxD |-> 20, AmominuD |-> 24, AmomaxuD |-> 28]
\* By funct3 and, where it is zero, by the top twelve bits.
Csrs == [Csrrw |-> 1, Csrrs |-> 2, Csrrc |-> 3, Csrrwi |-> 5, Csrrsi |-> 6, Csrrci |-> 7]
Systems == [Ecall |-> 0, Ebreak |-> 1, Sret |-> \h102, Mret |-> \h302, Wfi |-> \h105,
            SfenceWInval |-> \h180, SfenceInvalIr |-> \h181]

\* By opcode and fmt, which is 0 for singles and 1 for doubles.
Fmas == [FmaddS |-> <<67, 0>>, FmsubS |-> <<71, 0>>, FnmsubS |-> <<75, 0>>,
         FnmaddS |-> <<79, 0>>, FmaddD |-> <<67, 1>>, FmsubD |-> <<71, 1>>,
         FnmsubD |-> <<75, 1>>, FnmaddD |-> <<79, 1>>]
\* By funct5 and fmt.
FloatRounds == [FaddS |-> <<0, 0>>, FsubS |-> <<1, 0>>, FmulS |-> <<2, 0>>,
                FdivS |-> <<3, 0>>, FsqrtS |-> <<11, 0>>, FaddD |-> <<0, 1>>,
                FsubD |-> <<1, 1>>, FmulD |-> <<2, 1>>, FdivD |-> <<3, 1>>,
                FsqrtD |-> <<11, 1>>]
\* By funct7 and rs2.
FloatConversions ==
    [FcvtSD |-> <<32, 1>>, FcvtDS |-> <<33, 0>>,
     FcvtWS |-> <<96, 0>>, FcvtWuS |-> <<96, 1>>, FcvtLS |-> <<96, 2>>, FcvtLuS |-> <<96, 3>>,
     FcvtWD |-> <<97, 0>>, FcvtWuD |-> <<97, 1>>, FcvtLD |-> <<97, 2>>, FcvtLuD |-> <<97, 3>>,
     FcvtSW |-> <<104, 0>>, FcvtSWu |-> <<104, 1>>, FcvtSL |-> <<104, 2>>,
     FcvtSLu |-> <<104, 3>>, FcvtDW |-> <<105, 0>>, FcvtDWu |-> <<105, 1>>,
     FcvtDL |-> <<105, 2>>, FcvtDLu |-> <<105, 3>>]
\* By funct7 and funct3.
FloatSelections ==
    [FsgnjS |-> <<16, 0>>, FsgnjnS |-> <<16, 1>>, FsgnjxS |-> <<16, 2>>,
     FsgnjD |-> <<17, 0>>, FsgnjnD |-> <<17, 1>>, FsgnjxD |-> <<17, 2>>,
     FminS |-> <<20, 0>>, FmaxS |-> <<20, 1>>, FminD |-> <<21, 0>>, FmaxD |-> <<21, 1>>,
     FleS |-> <<80, 0>>, FltS |-> <<80, 1>>, FeqS |-> <<80, 2>>,
     FleD |-> <<81, 0>>, FltD |-> <<81, 1>>, FeqD |-> <<81, 2>>,
     FmvXW |-> <<112, 0>>, FclassS |-> <<112, 1>>, FmvXD |-> <<113, 0>>,
     FclassD |-> <<113, 1>>, FmvWX |-> <<120, 0>>, FmvDX |-> <<121, 0>>]

\* The fields of a 32-bit instruction.
Major(w) == Field(w, 6, 0)
Rd(w) == Field(w, 11, 7)
Rs1(w) == Field(w, 19, 15)
Rs2(w) == Field(w, 24, 20)
Funct3(w) == Field(w, 14, 12)
Funct7(w) == Field(w, 31, 25)
Funct5(w) == Field(w, 31, 27)      \* or rs3
Fmt(w) == Field(w, 26, 25)
Both(w) == Funct3(w) + 8 * Funct7(w)
\* A shift amount has six bits on RV64.
Shamt(w, xlen) == Field(w, IF xlen = 64 THEN 25 ELSE 24, 20)
ShiftCode(w, xlen) == IF xlen = 64 THEN Both(w) - 8 * (Funct7(w) % 2) ELSE Both(w)

ImmI(w) == SignExtended(Laid(w, 31, <<11, 10, 9, 8, 7, 6, 5, 4, 3, 2, 1, 0>>), 11)
ImmS(w) ==
    SignExtended(Laid(w, 31, <<11, 10, 9, 8, 7, 6, 5>>) \cup Laid(w, 11, <<4, 3, 2, 1, 0>>), 11)
ImmB(w) ==
    SignExtended(Laid(w, 31, <<12, 10, 9, 8, 7, 6, 5>>) \cup Laid(w, 11, <<4, 3, 2, 1, 11>>), 12)
ImmU(w) ==
    SignExtended(Laid(w, 31, <<19, 18, 17, 16, 15, 14, 13, 12, 11, 10,
                               9, 8, 7, 6, 5, 4, 3, 2, 1, 0>>), 19)
ImmJ(w) ==
    SignExtended(Laid(w, 31, <<20, 10, 9, 8, 7, 6, 5, 4, 3, 2, 1, 11,
                               19, 18, 17, 16, 15, 14, 13, 12>>), 20)

\* Instructions that RV32 does not have.
Wide(w) ==
    \/ Major(w) \in {\h1b, \h3b}
    \/ Major(w) \in {\h03, \h23, \h2f} /\ Funct3(w) = 3
    \/ Major(w) = \h03 /\ Funct3(w) = 6
    \/ Major(w) = \h53 /\ Funct5(w) \in {24, 26} /\ Rs2(w) \in {2, 3}
    \/ Major(w) = \h53 /\ Funct7(w) \in {113, 121} /\ Funct3(w) = 0

Decoded32(w, xlen) ==
    LET major == Major(w)
        rd == Rd(w)
        rs1 == Rs1(w)
        rs2 == Rs2(w)
        funct3 == Funct3(w)
        funct7 == Funct7(w)
        funct5 == Funct5(w)
    IN  IF xlen = 32 /\ Wide(w) THEN Reserved ELSE
        CASE major = \h37 -> Instr("Lui", rd, 0, 0, ImmU(w))
          [] major = \h17 -> Instr("Auipc", rd, 0, 0, ImmU(w))
          [] major = \h6f -> Instr("Jal", rd, 0, 0, ImmJ(w))
          [] major = \h67 /\ funct3 = 0 -> Instr("Jalr", rd, rs1, 0, ImmI(w))
          [] major = \h63 -> Instr(Entry(Branches, funct3), 0, rs1, rs2, ImmB(w))
          [] major = \h03 -> Instr(Entry(Loads, funct3), rd, rs1, 0, ImmI(w))
          [] major = \h23 -> Instr(Entry(Stores, funct3), 0, rs1, rs2, ImmS(w))
          [] major = \h07 ->
                Instr(Entry(FloatLoads, funct3), rd, rs1, 0, ImmI(w))
          [] major = \h27 ->
                Instr(Entry(FloatStores, funct3), 0, rs1, rs2, ImmS(w))
          [] major = \h13 /\ funct3 % 4 # 1 ->
                Instr(Entry(OpImms, funct3), rd, rs1, 0, ImmI(w))
          [] major = \h13 /\ funct3 % 4 = 1 ->
                Instr(Entry(ShiftImms, ShiftCode(w, xlen)), rd, rs1, 0, Shamt(w, xlen))
          [] major = \h1b /\ funct3 = 0 -> Instr("Addiw", rd, rs1, 0, ImmI(w))
          [] major = \h1b /\ funct3 # 0 -> Instr(Entry(OpImm32s, Both(w)), rd, rs1, 0, rs2)
          [] major = \h33 -> Instr(Entry(Ops, Both(w)), rd, rs1, rs2, 0)
          [] major = \h3b -> Instr(Entry(Op32s, Both(w)), rd, rs1, rs2, 0)
          [] major = \h2f /\ funct3 = 2 ->
                Instr(Entry(AmoWs, funct5), rd, rs1, rs2, funct7 % 4)
          [] major = \h2f /\ funct3 = 3 ->
                Instr(Entry(AmoDs, funct5), rd, rs1, rs2, funct7 % 4)
          [] major = \h0f /\ funct3 = 0 -> Instr("Fence", rd, rs1, 0, ImmI(w) % 4096)
          [] major = \h0f /\ funct3 = 1 -> Instr("FenceI", rd, rs1, 0, ImmI(w))
          [] major = \h73 /\ funct3 # 0 -> Instr(Entry(Csrs, funct3), rd, rs1, 0, ImmI(w) % 4096)
          [] major = \h73 /\ Both(w) = 72 -> Instr("SfenceVma", rd, rs1, rs2, 0)
          [] major = \h73 /\ Both(w) = 88 -> Instr("SinvalVma", rd, rs1, rs2, 0)
          [] major = \h73 /\ Both(w) \notin {72, 88} /\ funct3 = 0 ->
                Instr(Entry(Systems, ImmI(w) % 4096), rd, rs1, 0, 0)
          [] major \in {67, 71, 75, 79} ->
                [Instr(Entry(Fmas, <<major, Fmt(w)>>), rd, rs1, rs2, funct3)
                    EXCEPT !.rs3 = funct5]
          [] major = \h53 /\ funct5 \in {0, 1, 2, 3, 11} ->
                Instr(Entry(FloatRounds, <<funct5, Fmt(w)>>), rd, rs1, rs2, funct3)
          [] major = \h53 /\ funct7 \in {32, 33, 96, 97, 104, 105} ->
                Instr(Entry(FloatConversions, <<funct7, rs2>>), rd, rs1, 0, funct3)
          [] major = \h53 /\ funct5 \in {4, 5, 20, 28, 30} ->
                Instr(Entry(FloatSelections, <<funct7, funct3>>), rd, rs1, rs2, 0)
          [] OTHER -> Reserved

\* Those of a 16-bit one.
Quadrant(w) == Field(w, 1, 0)
Funct3C(w) == Field(w, 15, 13)
Rs2C(w) == Field(w, 6, 2)
RdShort(w) == 8 + Field(w, 4, 2)       \* rd' or rs2'
Rs1Short(w) == 8 + Field(w, 9, 7)      \* rs1' or rd'
Bits6(w) == Laid(w, 12, <<5>>) \cup Laid(w, 6, <<4, 3, 2, 1, 0>>)
ImmCI(w) == SignExtended(Bits6(w), 5)
ImmW(w) == Number(Laid(w, 12, <<5, 4, 3>>) \cup Laid(w, 6, <<2, 6>>))
ImmD(w) == Number(Laid(w, 12, <<5, 4, 3>>) \cup Laid(w, 6, <<7, 6>>))
ImmCB(w) == SignExtended(Laid(w, 12, <<8, 4, 3>>) \cup Laid(w, 6, <<7, 6, 2, 1, 5>>), 8)
ImmCJ(w) == SignExtended(Laid(w, 12, <<11, 4, 9, 8, 10, 6, 7, 3, 2, 1, 5>>), 11)
ImmSp(w) == SignExtended(Laid(w, 12, <<9>>) \cup Laid(w, 6, <<4, 6, 8, 7, 5>>), 9)
ImmCIW(w) == Number(Laid(w, 12, <<5, 4, 9, 8, 7, 6, 2, 3>>))
ImmLwsp(w) == Number(Laid(w, 12, <<5>>) \cup Laid(w, 6, <<4, 3, 2, 7, 6>>))
ImmLdsp(w) == Number(Laid(w, 12, <<5>>) \cup Laid(w, 6, <<4, 3, 8, 7, 6>>))
ImmSwsp(w) == Number(Laid(w, 12, <<5, 4, 3, 2, 7, 6>>))
ImmSdsp(w) == Number(Laid(w, 12, <<5, 4, 3, 8, 7, 6>>))

Decoded16(w, xlen) ==
    LET rd == Rd(w)
        rs2 == Rs2C(w)
        rdC == RdShort(w)
        rs1C == Rs1Short(w)
        is(q, f) == Quadrant(w) = q /\ Funct3C(w) = f
        shamtFits == xlen = 32 => 12 \notin w
    IN  CASE is(0, 0) /\ ImmCIW(w) # 0 -> Instr("CAddi4spn", rdC, 0, 0, ImmCIW(w))
          [] is(0, 2) -> Instr("CLw", rdC, rs1C, 0, ImmW(w))
          [] is(0, 3) /\ xlen = 64 -> Instr("CLd", rdC, rs1C, 0, ImmD(w))
          [] is(0, 6) -> Instr("CSw", 0, rs1C, rdC, ImmW(w))
          [] is(0, 7) /\ xlen = 64 -> Instr("CSd", 0, rs1C, rdC, ImmD(w))
          [] is(1, 0) -> Instr("CAddi", rd, 0, 0, ImmCI(w))
          [] is(1, 1) /\ xlen = 32 -> Instr("CJal", 0, 0, 0, ImmCJ(w))
          [] is(1, 1) /\ xlen = 64 /\ rd # 0 -> Instr("CAddiw", rd, 0, 0, ImmCI(w))
          [] is(1, 2) -> Instr("CLi", rd, 0, 0, ImmCI(w))
          [] is(1, 3) /\ rd = 2 /\ ImmSp(w) # 0 -> Instr("CAddi16sp", 0, 0, 0, ImmSp(w))
          [] is(1, 3) /\ rd # 2 /\ Bits6(w) # {} -> Instr("CLui", rd, 0, 0, ImmCI(w))
          [] is(1, 4) /\ Field(w, 11, 10) = 0 /\ shamtFits ->
                Instr("CSrli", 0, rs1C, 0, Number(Bits6(w)))
          [] is(1, 4) /\ Field(w, 11, 10) = 1 /\ shamtFits ->
                Instr("CSrai", 0, rs1C, 0, Number(Bits6(w)))
          [] is(1, 4) /\ Field(w, 11, 10) = 2 ->
                Instr("CAndi", 0, rs1C, 0, ImmCI(w))
          [] is(1, 4) /\ Field(w, 11, 10) = 3 /\ 12 \notin w ->
                Instr(<<"CSub", "CXor", "COr", "CAnd">>[Field(w, 6, 5) + 1], rs1C, 0, rdC, 0)
          [] is(1, 4) /\ Field(w, 11, 10) = 3 /\ 12 \in w /\ 6 \notin w /\ xlen = 64 ->
                Instr(<<"CSubw", "CAddw">>[Field(w, 5, 5) + 1], rs1C, 0, rdC, 0)
          [] is(1, 5) -> Instr("CJ", 0, 0, 0, ImmCJ(w))
          [] is(1, 6) -> Instr("CBeqz", 0, rs1C, 0, ImmCB(w))
          [] is(1, 7) -> Instr("CBnez", 0, rs1C, 0, ImmCB(w))
          [] is(2, 0) /\ shamtFits -> Instr("CSlli", rd, 0, 0, Number(Bits6(w)))
          [] is(2, 2) /\ rd # 0 ->
                Instr("CLwsp", rd, 0, 0, ImmLwsp(w))
          [] is(2, 3) /\ xlen = 64 /\ rd # 0 ->
                Instr("CLdsp", rd, 0, 0, ImmLdsp(w))
          [] is(2, 4) /\ 12 \notin w /\ rs2 = 0 /\ rd # 0 -> Instr("CJr", 0, rd, 0, 0)
          [] is(2, 4) /\ 12 \notin w /\ rs2 # 0 -> Instr("CMv", rd, 0, rs2, 0)
          [] is(2, 4) /\ 12 \in w /\ rs2 = 0 /\ rd = 0 -> Instr("CEbreak", 0, 0, 0, 0)
          [] is(2, 4) /\ 12 \in w /\ rs2 = 0 /\ rd # 0 -> Instr("CJalr", 0, rd, 0, 0)
          [] is(2, 4) /\ 12 \in w /\ rs2 # 0 -> Instr("CAdd", rd, 0, rs2, 0)
          [] is(2, 6) ->
                Instr("CSwsp", 0, 0, rs2, ImmSwsp(w))
          [] is(2, 7) /\ xlen = 64 ->
                Instr("CSdsp", 0, 0, rs2, ImmSdsp(w))
          [] OTHER -> Reserved

AccessOf(base, offset, size) == [base |-> base, offset |-> offset, size |-> size]
NoAccess == AccessOf(0, 0, 0)

\* The memory a decoded instruction accesses: the width is in funct3.
Access32(w, d) ==
    CASE Field(w, 6, 0) \in {\h03, \h07, \h23, \h27} ->
            AccessOf(d.rs1, d.imm, 2^(Field(w, 14, 12) % 4))
      [] Field(w, 6, 0) = \h2f -> AccessOf(d.rs1, 0, 2^Field(w, 14, 12))
      [] OTHER -> NoAccess

\* Loads and stores have funct3 2, 3, 6 and 7 of the quadrants 0 and 2; those of
\* quadrant 2 are relative to sp.
Access16(w, d) ==
    IF Funct3C(w) % 4 < 2 \/ 0 \in w
    THEN NoAccess
    ELSE AccessOf(IF Quadrant(w) = 0 THEN d.rs1 ELSE 2, d.imm, 2^(Funct3C(w) % 4))

\* The next instruction in a sequence of parcels and how many of them it is.
Fetched(ps, xlen) ==
    IF {0, 1} \subseteq ps[1]
    THEN LET w == ps[1] \cup Run(ps[Len(ps)], 15, 0, 16)
             d == Decoded32(w, xlen)
         IN  [used |-> 2, instr |-> d, access |-> Access32(w, d)]
    ELSE LET d == Decoded16(ps[1], xlen)
         IN  [used |-> 1, instr |-> d, access |-> Access16(ps[1], d)]

--------------------------------------------------------------------------------
(* What the generator concludes from an instruction.                         *)

\* Mutant: the second operand is taken for the address.
MutAmoBase(word) == Field(word, 24, 20)

AmoBase(word) == Field(word, 19, 15)

\* memory_operand.
MemoryOperand(x) ==
    LET op == x.op
    IN  CASE op \in DOMAIN AmoType -> AccessOf(AmoBase(Packed(x)), 0, 4)
          [] op \in DOMAIN AmoDType -> AccessOf(AmoBase(Packed(x)), 0, 8)
          [] op \in {"Lb", "Lbu", "Sb"} -> AccessOf(x.rs1, x.imm, 1)
          [] op \in {"Lh", "Lhu", "Sh"} -> AccessOf(x.rs1, x.imm, 2)
          [] op \in {"Lw", "Lwu", "Sw", "Flw", "Fsw", "CLw", "CSw"} ->
                AccessOf(x.rs1, x.imm, 4)
          [] op \in {"Ld", "Sd", "Fld", "Fsd", "CLd", "CSd"} -> AccessOf(x.rs1, x.imm, 8)
          [] op \in {"CLwsp", "CSwsp"} -> AccessOf(2, x.imm, 4)
          [] op \in {"CLdsp", "CSdsp"} -> AccessOf(2, x.imm, 8)
          [] OTHER -> NoAccess

\* Mutant: floating-point instructions are taken to write their own registers.
MutWritesXreg(word) ==
    LET opcode == Field(word, 6, 0)
    IN  \/ opcode \in {\h03, \h13, \h17, \h1b, \h2f, \h33, \h37, \h3b}
        \/ opcode = \h73 /\ Field(word, 14, 12) # 0

WritesXreg(word) ==
    LET opcode == Field(word, 6, 0)
    IN  \/ opcode \in {\h03, \h13, \h17, \h1b, \h2f, \h33, \h37, \h3b}
        \/ opcode = \h73 /\ Field(word, 14, 12) # 0
        \/ /\ opcode = \h53
           /\ Field(word, 31, 25) \in {\h50, \h51, \h60, \h61, \h70, \h71}

\* written_xreg; 0 for no register.  Encoding without a target takes the shift
\* amounts of RV64.
WrittenXreg(x) ==
    LET word == Packed(x)
    IN  IF x.op \notin Compressed /\ Valid(x, 64) /\ WritesXreg(word)
        THEN Field(word, 11, 7) ELSE 0

--------------------------------------------------------------------------------
(* One instruction's way.                                                    *)

Init ==
    /\ target \in [xlen : {32, 64}, extensions : Extensions]
    /\ source = "none" /\ instr = Reserved
    /\ stage = "idle"
    /\ parcels = <<>> /\ seen = <<>>

Make(who, x) ==
    /\ stage' = "made"
    /\ source' = who /\ instr' = x
    /\ UNCHANGED <<target, parcels, seen>>

\* What a straight-line workload is drawn from.
Workload(t) ==
    {op \in Opcodes \ (Names({BType, JType, JalrType, CBType, CJType, CJrType})
                       \cup {"Ecall", "Ebreak", "CEbreak", "Sret", "Mret"}) :
        Supports(t, op)}

\* Opcode::random, and with_csr where the instruction has a CSR.
Draw ==
    /\ stage = "idle"
    /\ \E op \in Workload(target) :
           \E x \in With(op, SampledRegisters(op), SampledImmediates(op, target)) :
               Make("draw", x)

\* split_imm32.
Carry(v) == (v \div 2048) % 2
Upper(v) == ((v \div 4096) + Carry(v)) % 1048576
Lower(v) == (v % 4096) - 4096 * Carry(v)

\* load_imm32.  The chunks of the longer sequences are among the low parts.
Load ==
    /\ stage = "idle"
    /\ \E v \in LoadValues, rd \in IntRegisters :
           LET second == IF target.xlen = 32 THEN "Addi" ELSE "Addiw"
           IN  \E x \in {Instr("Lui", rd, 0, 0, Upper(v)),
                         Instr(second, rd, rd, 0, Lower(v))} : Make("load", x)

\* Mutant: both ends are in range.
MutInJalRange(distance) == -1048576 <= distance /\ distance <= 1048576

InJalRange(distance) == -1048576 <= distance /\ distance < 1048576

\* Site::link: the jump to _fail.
Link ==
    /\ stage = "idle"
    /\ \E d \in LinkOffsets : InJalRange(d) /\ Make("link", Instr("Jal", 0, 0, 0, d))

\* An instruction written down somewhere else: in the code around the workload
\* or by a caller of the library.
Construct ==
    /\ stage = "idle"
    /\ \E op \in Opcodes : \E x \in With(op, GivenRegisters, GivenFor(op)) :
           Make("given", x)

\* Target::emit.  A compressed encoding that has more than 16 bits panics.
Emit ==
    /\ stage = "made"
    /\ LET word == Packed(instr)
           short == instr.op \in Compressed
       IN  IF ~(Supports(target, instr.op) /\ Valid(instr, target.xlen))
           THEN stage' = "refused" /\ UNCHANGED parcels
           ELSE IF short /\ ~(word \subseteq 0 .. 15)
           THEN stage' = "overflow" /\ UNCHANGED parcels
           ELSE /\ stage' = "stored"
                /\ parcels' = <<Run(word, 15, 0, 0)>>
                              \o (IF short THEN <<>> ELSE <<Run(word, 31, 16, -16)>>)
    /\ UNCHANGED <<target, source, instr, seen>>

Fetch ==
    /\ stage = "stored" /\ stage' = "fetched"
    /\ seen' = Fetched(parcels, target.xlen)
    /\ UNCHANGED <<target, source, instr, parcels>>

Next == Draw \/ Load \/ Link \/ Construct \/ Emit \/ Fetch

Spec == Init /\ [][Next]_vars

--------------------------------------------------------------------------------
(* Properties.                                                               *)

\* LUI and AUIPC take their field signed or unsigned.
Canonical(x) ==
    IF x.op \in DOMAIN UType /\ x.imm > 524287 THEN [x EXCEPT !.imm = @ - 1048576] ELSE x

\* Whatever instruction is emitted, with whatever operands emit lets pass, a
\* hart fetches this instruction: the catalog's fixed bits, the scattered
\* immediates and the operands that are refused leave no instruction that
\* decodes to another one (C.LUI of sp would be C.ADDI16SP, C.MV of zero C.JR),
\* and the next one is fetched where this one ends.
FetchedAsMeant ==
    stage = "fetched" =>
        seen.instr = Canonical(instr) /\ seen.used = Len(parcels)

\* No instruction is refused that the generator makes itself: what is drawn for
\* a target, the parts of a constant and the jumps Site::link accepts all pass
\* the checks of emit, which are in another file, and none overflows.
NothingMadeIsRefused ==
    /\ source # "given" => stage # "refused"
    /\ stage # "overflow"

\* The address and width for which the generator prepares a register are those
\* the hart uses.
AccessIsTheHarts ==
    stage = "fetched" => seen.access = MemoryOperand(instr)

\* The register of a drawn instruction that the entanglement takes to have been
\* written is the one the instruction writes; compressed ones are not tracked.
DestinationsAreTracked ==
    source = "draw" /\ stage = "fetched" /\ instr.op \notin Compressed =>
        WrittenXreg(instr) =
            IF "rd" \in RegisterFields[instr.op] \ OtherFields[instr.op]
            THEN seen.instr.rd ELSE 0
================================================================================
