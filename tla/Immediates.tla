------------------------------ MODULE Immediates -------------------------------
(***************************************************************************)
(* Loading a constant into a register (src/src/riscv/asmutil.rs), for        *)
(* machine words of any width.  The powers of two the code works with are    *)
(* constants: in the code Chunk is 2^11, Low = 2 * Chunk is 2^12 (ADDI and    *)
(* ADDIW take a signed 12-bit immediate, LUI the bits above it), Half is      *)
(* 2^32 and Full = Half * Half is 2^64.                                      *)
(*                                                                         *)
(* The state is one such sequence, in memory, and the hart that runs it.  A   *)
(* sequence of load_imm_fixed is first there with a draft's constant and     *)
(* then overwritten in place with the final one (src/src/entangle.rs,        *)
(* render; src/src/hart.rs, set_expected).                                   *)
(***************************************************************************)
EXTENDS Integers, Sequences

CONSTANTS
    Chunk,          \* 2^11
    Half,           \* 2^32
    DraftValues     \* the constants a sequence is first rendered with

Low == 2 * Chunk
Full == Half * Half

\* The two's complement number that n is modulo m.
Signed(n, m) == ((n + m \div 2) % m) - m \div 2

Int64 == - (Full \div 2) .. (Full \div 2) - 1

ASSUME ImmediatesAssumption ==
    /\ Chunk \in Nat \ {0} /\ Half \in Nat \ {0}
    /\ Chunk * Chunk * Chunk = 2 * Half     \* 3 * 11 = 1 + 32
    /\ Half % Low = 0
    /\ DraftValues \subseteq Int64

VARIABLES
    xlen,     \* "X32" or "X64"
    loader,   \* the function that made the sequence
    value,    \* the value it was given, an i64
    code,     \* the sequence and, behind it, the instruction that follows it
    pc,       \* a place in code
    rd,       \* the register, as the signed number its bits are
    patched   \* has the constant got its final value?

immediatesVars == <<xlen, loader, value, code, pc, rd, patched>>

--------------------------------------------------------------------------------
(* Instructions: all read and write the one register rd.                     *)

Lui(imm) == [op |-> "lui", imm |-> imm]
Addi(imm) == [op |-> "addi", imm |-> imm]
Addiw(imm) == [op |-> "addiw", imm |-> imm]
Slli(factor) == [op |-> "slli", imm |-> factor]     \* by 2^shamt = factor
Stop == [op |-> "stop", imm |-> 0]                  \* whatever comes next

\* Mutant: the carry of the low part's sign is forgotten.
MutSplitImm32(v) ==
    LET bits == v % Half
        carry == (bits \div Chunk) % 2
    IN  [upper |-> bits \div Low, lower |-> (bits % Low) - carry * Low]

\* split_imm32.
SplitImm32(v) ==
    LET bits == v % Half
        carry == (bits \div Chunk) % 2
    IN  [upper |-> ((bits \div Low) + carry) % (Half \div Low),
         lower |-> (bits % Low) - carry * Low]

\* load_imm32.  v is what `as i32' leaves of a value.
LoadImm32(v, xl) ==
    LET split == SplitImm32(v)
    IN  <<Lui(split.upper),
          IF xl = "X32" THEN Addi(split.lower) ELSE Addiw(split.lower)>>

\* load_imm: the low twelve bits as a signed immediate, the rest first.
LoadImm(val, xl) ==
    LET load[v \in Int64] ==
            IF xl = "X32" \/ v = Signed(v, Half)
            THEN LoadImm32(v, xl)
            ELSE LET lower == Signed(v, Low)
                 IN  load[Signed(v - lower, Full) \div Low]
                     \o <<Slli(Low), Addi(lower)>>
    IN  load[val]

\* load_imm_fixed: the top bits, then three non-negative chunks.
LoadImmFixed(v, xl) ==
    IF xl = "X32" THEN LoadImm32(v, xl)
    ELSE LoadImm32(v \div (2 * Half), xl)
         \o <<Slli(Chunk), Addi((v \div (Chunk * Chunk)) % Chunk),
              Slli(Chunk), Addi((v \div Chunk) % Chunk),
              Slli(Chunk), Addi(v % Chunk)>>

Sequence(l, v, xl) ==
    CASE l = "load_imm32"     -> LoadImm32(v, xl)
      [] l = "load_imm"       -> LoadImm(v, xl)
      [] l = "load_imm_fixed" -> LoadImmFixed(v, xl)

\* render, set_expected: the first instructions of old are those of new now.
Overwritten(old, new) ==
    [i \in DOMAIN old \cup DOMAIN new |-> IF i \in DOMAIN new THEN new[i] ELSE old[i]]

--------------------------------------------------------------------------------
(* The hart (asmutil.rs, tests: eval).                                       *)

Modulus == IF xlen = "X32" THEN Half ELSE Full

Executed(instr, r) ==
    CASE instr.op = "lui"   -> Signed(instr.imm * Low, Half)
      [] instr.op = "addi"  -> Signed(r + instr.imm, Modulus)
      [] instr.op = "addiw" -> Signed(Signed(r, Half) + instr.imm, Half)
      [] instr.op = "slli"  -> Signed(r * instr.imm, Modulus)

ImmediatesInit ==
    /\ xlen \in {"X32", "X64"}
    /\ loader \in {"load_imm32", "load_imm", "load_imm_fixed"}
    /\ patched = (loader # "load_imm_fixed")
    /\ value \in IF patched THEN Int64 ELSE DraftValues
    /\ loader = "load_imm32" => value = Signed(value, Half)   \* its argument is an i32
    /\ code = Append(Sequence(loader, value, xlen), Stop)
    /\ pc = 1
    /\ rd = 0

Step ==
    /\ code[pc] # Stop
    /\ rd' = Executed(code[pc], rd)
    /\ pc' = pc + 1
    /\ UNCHANGED <<xlen, loader, value, code, patched>>

\* The final value is known: the sequence is rendered again where it is, and
\* will be run again.
Patch ==
    /\ ~ patched /\ code[pc] = Stop
    /\ patched' = TRUE
    /\ value' \in Int64
    /\ code' = Overwritten(code, Sequence(loader, value', xlen))
    /\ pc' = 1
    /\ UNCHANGED <<xlen, loader, rd>>

ImmediatesNext == Step \/ Patch

ImmediatesSpec == ImmediatesInit /\ [][ImmediatesNext]_immediatesVars

--------------------------------------------------------------------------------
(* Properties.                                                               *)

\* The state has its type.
ImmediatesTypeOK ==
    /\ xlen \in {"X32", "X64"}
    /\ loader \in {"load_imm32", "load_imm", "load_imm_fixed"}
    /\ value \in Int64
    /\ patched \in BOOLEAN
    /\ pc \in Nat \ {0}

\* Running a sequence leaves the value it was made for in the register, sign
\* extended from what XLEN leaves of it, and control reaches the instruction
\* behind it: also after the constant was replaced in place (load_imm_fixed
\* "so the value can be patched in later without moving any code"), whatever
\* chunk's sign bit is set and where carries cross the middle of the word.
LoadsTheValue ==
    /\ pc \in DOMAIN code
    /\ code[pc] = Stop => rd = Signed(value, Modulus)
================================================================================
