----------------------------- MODULE MCTranslators -----------------------------
(***************************************************************************)
(* Three translations that run on their own and share no state are checked   *)
(* in one run: `subject' says which of them moves, the others wait at their  *)
(* start.                                                                    *)
(*                                                                         *)
(* Instructions: two targets of either width, boundary operands (the ends of *)
(* every range and the values on either side, zero, and numbers with single  *)
(* bits set).                                                                *)
(*                                                                         *)
(* Constants: words of 16 bits, halves of 8, immediates of 4 and chunks of   *)
(* 3; every relation between the widths 64, 32, 12 and 11 that the code       *)
(* relies on holds of these too, and TLC can try every value.                *)
(*                                                                         *)
(* Files: one to three sections of odd sizes and different alignments, at the *)
(* end of what ELF32 can address and beyond it; up to two symbols, the last   *)
(* one at the end of a section.                                              *)
(***************************************************************************)
EXTENDS Encoding, FiniteSets, Immediates, ElfFile

VARIABLE subject      \* "instruction", "constant" or "file"

InstructionWaits == target = [xlen |-> 32, extensions |-> {"I", "Zicsr"}]
ConstantWaits == xlen = "X32" /\ loader = "load_imm32" /\ value = 0
FileWaits ==
    /\ image.class = 32 /\ Len(image.sections) = 1 /\ image.symbols = <<>>
    /\ image.sections[1].addr = 1024 /\ image.sections[1].size = 2
    /\ image.sections[1].align = 2

TranslatorsInit ==
    /\ subject \in {"instruction", "constant", "file"}
    /\ subject = "instruction" \/ (subject # "instruction" /\ InstructionWaits)
    /\ Init
    /\ ElfInit
    /\ subject = "file" \/ FileWaits
    /\ subject = "constant" \/ (subject # "constant" /\ ConstantWaits)
    /\ ImmediatesInit

TranslatorsNext ==
    \/ subject = "instruction" /\ Next /\ UNCHANGED <<subject, immediatesVars, elfVars>>
    \/ subject = "constant" /\ ImmediatesNext /\ UNCHANGED <<subject, vars, elfVars>>
    \/ subject = "file" /\ ElfNext /\ UNCHANGED <<subject, vars, immediatesVars>>

TranslatorsSpec ==
    TranslatorsInit /\ [][TranslatorsNext]_<<subject, vars, immediatesVars, elfVars>>

MCDraftValues == {0, -1}

MCExtensions == {{"I", "Zicsr"}, DOMAIN OfExtension}
MCIntRegisters == {5, 10, 17, 28}
MCGivenRegisters == {0, 2, 8, 15, 21}
MCGivenImmediates ==
    {-1048578, -1048576, -699052, -524289, -524288, -4098, -4096, -2732, -2050, -2049,
     -2048, -1366, -528, -512, -258, -256, -33, -32, -22, -8, -4, -2, -1, 0, 1, 2, 4,
     8, 16, 21, 31, 32, 42, 63, 64, 84, 124, 128, 168, 248, 252, 254, 256, 336, 496,
     504, 512, 1020, 1024, 1365, 2046, 2047, 2048, 2730, 4094, 4095, 4096, 524287,
     524288, 699050, 1048574, 1048575, 1048576}
MCLoadValues ==
    {-2147483647 - 1, -2147481601, -4097, -2049, -2048, -1, 0, 1, 2047, 2048, 4095,
     4096, 305419896, 2147479551, 2147481600, 2147483647}
MCLinkOffsets ==
    {-1048578, -1048576, -699052, -2, 0, 2, 4, 2048, 4096, 699050, 1048574, 1048576}

MCNameBytes == [n \in {".text", ".data", ".tohost", ".strtab", ".symtab", ".shstrtab",
                       "_start", "tohost"} |->
                    CASE n \in {".text", ".data"} -> 5
                      [] n = "tohost" -> 6
                      [] n \in {"_start"} -> 6
                      [] n \in {".tohost", ".strtab", ".symtab"} -> 7
                      [] n = ".shstrtab" -> 9]
MCLimit == 4096
MCMaxElfSize == 900

Section(name, addr, size, align, perms) ==
    [name |-> name, addr |-> addr, size |-> size, align |-> align, perms |-> perms]
Texts == {Section(".text", a, n, l, {"X"}) :
              a \in {1024, 4032, 4096}, n \in {2, 22, 64}, l \in {2, 4}}
Datas == {Section(".data", a, n, l, p) :
              a \in {2048, 3072}, n \in {1, 13, 280}, l \in {1, 16, 64}, p \in {{}, {"W"}}}
Hosts == {Section(".tohost", 3584, 8, 64, {"W"})}

SymbolsFor(of) ==
    {<<>>,
     <<[name |-> "_start", section |-> 0, offset |-> 0, size |-> of[1].size]>>,
     <<[name |-> "_start", section |-> 0, offset |-> 0, size |-> of[1].size],
       [name |-> "tohost", section |-> Len(of) - 1, offset |-> 0, size |-> 1]>>,
     <<[name |-> "tohost", section |-> 0, offset |-> of[1].size, size |-> 0]>>}
MCImages ==
    UNION {{[class |-> x, sections |-> s, symbols |-> y] : y \in SymbolsFor(s)} :
           x \in {32, 64},
           s \in {<<t>> : t \in Texts} \cup {<<t, d>> : t \in Texts, d \in Datas}
                 \cup {<<t, d, h>> : t \in Texts, d \in Datas, h \in Hosts}}
================================================================================
