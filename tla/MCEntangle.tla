------------------------------- MODULE MCEntangle -------------------------------
(***************************************************************************)
(* Small programs for TLC: a workload of two or three instructions out of   *)
(* an increment, a copy, a load and a store, with every choice of sites     *)
(* around them.  Words have seven bits: every slot has an even address of   *)
(* its own.                                                                 *)
(***************************************************************************)
EXTENDS Entangle, TLC

CONSTANTS x1, x2, x3

MCRegs == {x1, x2, x3}

DataAddr == {4}
MCAddresses == {DataAddr}

Step(op, rd, rs, base) ==
    [op |-> op, rd |-> rd, rs |-> rs, base |-> base, std |-> TRUE,
     unstable |-> op = "csr"]

\* x1 += 1; x2 = x1; load x1 from memory through x2; store x1 through x2; read
\* a cycle counter into x1.
Inc == Step("inc", x1, x1, ZERO)
Copy == Step("copy", x2, x1, ZERO)
Load == Step("load", x1, REST, x2)
Store == Step("store", ZERO, x1, x2)
ReadCsr == Step("csr", x1, REST, ZERO)

MCWorkInstrs == {Inc, Copy, Load, Store, ReadCsr}
MCFaultWork == {Inc, Copy}
MCDeviceWork == {Inc, Copy, Load, ReadCsr}

MCEval(w, rf) ==
    CASE w.op = "inc"   -> [rf EXCEPT ![x1] = Successor(@)]
      [] w.op = "copy"  -> [rf EXCEPT ![x2] = rf[x1]]
      [] w.op = "load"  -> [rf EXCEPT ![x1] = Xor(rf[REST], rf[x2])]
      [] w.op = "csr"   -> rf
      [] w.op = "store" -> [rf EXCEPT ![REST] = Xor(rf[x1], rf[x2])]

MCCodeAddr == [i \in 1 .. 63 |-> NatToWord(2 * i)]

Boot(value) == (x1 :> NatToWord(value)) @@ (x2 :> {1}) @@ (x3 :> {0, 6})
               @@ (REST :> {2})
MCBootRegs == {Boot(2), Boot(63), Boot(100), Boot(127)}
MCDeviceBoot == {Boot(63)}

All == {"beq", "bne", "jalr"}
MCOptions ==
    {[enabled |-> All, threshold |-> 2],
     [enabled |-> {"bltu", "bgeu", "blt"}, threshold |-> 2]}
MCFaultOptions == {[enabled |-> All, threshold |-> 0]}

MCNoise == {{}, {1}}
MCFixup == {0, 3}
MCNoFaults == {}
MCFaults == {{0}, {1, 6}}
================================================================================
