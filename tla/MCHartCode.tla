------------------------------- MODULE MCHartCode -------------------------------
(***************************************************************************)
(* Six integer registers (x1, x2, x5, x6, one more, x31) and one            *)
(* floating-point register of four bits.  The exit codes are scaled down:    *)
(* 6 and 7 lie above mcause + 1 for the causes 0, 2 and 4.                   *)
(***************************************************************************)
EXTENDS HartCode, TLC

MCCsrs == <<"mscratch", "sscratch">>

MCTargets ==
    {t \in [f : BOOLEAN, wide : BOOLEAN, selfCheck : BOOLEAN, entangled : BOOLEAN] :
        (t.wide => t.f) /\ (t.entangled => t.selfCheck)}

Short(s) == [s EXCEPT !.size = 2]     \* a compressed instruction

Inc(r) == Instr("inc", r, r)
Neg == Instr("fneg", 1, 1)
Site == Instr("site", 1, 1)

\* Odd and even numbers of compressed instructions, results in the registers
\* the check uses itself, a site, and a write of mscratch.
MCWorkloads ==
    {<<Inc(1), Neg, Site>>, <<Short(Inc(6)), Inc(2), Short(Inc(5))>>,
     <<Short(Inc(3)), Site, WriteCsr("mscratch", 4)>>}

Draw(n) == [x |-> [r \in 1 .. NumX |-> NatToWord((n * r + n) % (2^XLEN))],
            f |-> [r \in 1 .. NumF |-> NatToWord(2 * r + n)],
            csr |-> [i \in DOMAIN Csrs |-> NatToWord(3 + i)]]
MCDraws == {Draw(1), Draw(5)}

MCAligned == {8}
MCUnaligned == {10}
MCCauses == {{}, {1}, {2}}
MCFaults == {{0}, {3}, {1, 3}}
================================================================================
