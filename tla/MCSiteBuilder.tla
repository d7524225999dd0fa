------------------------------ MODULE MCSiteBuilder ------------------------------
(***************************************************************************)
(* A small hart for TLC: every register but one can be written by the       *)
(* workload, which has tracked and compressed (untracked) arithmetic, a CSR *)
(* read and a load; a budget of a few instructions reaches a mid-block      *)
(* guard, a block that ends with control flow and a second block.           *)
(***************************************************************************)
EXTENDS SiteBuilder, TLC

CONSTANTS x1, x2, x3, a1

MCRegs == {x1, x2, x3}
MCAddresses == {{a1}}

Alu(rd) == [op |-> "alu", rd |-> rd, base |-> ZERO, std |-> TRUE,
            unstable |-> FALSE]
CAlu(rd) == [Alu(rd) EXCEPT !.std = FALSE]
ReadCsr(rd) == [Alu(rd) EXCEPT !.op = "csr", !.unstable = TRUE]
Load(rd, base) == [Alu(rd) EXCEPT !.op = "load", !.base = base]

All == {"beq", "bne", "jalr"}

MCOptions ==
    {[enabled |-> All, threshold |-> 2],
     [enabled |-> {"bltu", "bgeu"}, threshold |-> 0]}

MCWorkInstrs ==
    {Alu(x1), Alu(x2), CAlu(x1), ReadCsr(x1), Load(x1, x2)}

MCStdInstrs == {Alu(x1), Alu(x2), Load(x1, x2)}
================================================================================
