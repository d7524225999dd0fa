----------------------------- MODULE MCMemoryLayout -----------------------------
(***************************************************************************)
(* A RAM of at most 30 bytes at every base, aligned or not: mailboxes        *)
(* of 2 bytes aligned to 4, data sections of 4 bytes aligned to 2 (so that   *)
(* the alignment leaves gaps), code aligned to 2.  The smallest RAMs hold    *)
(* none of it, the largest everything; addresses end at 40 and, with a        *)
(* 32-bit target, at 32.                                                     *)
(***************************************************************************)
EXTENDS MemoryLayout

MCRams == [start : 0 .. 20, size : 0 .. 30]
MCRequests == {[scratch |-> 4, smc |-> 4]}
MCSmcOmitted == {[scratch |-> 4, smc |-> 0]}
MCCodeSizes == {2, 6}
MCAccessSizes == {1, 2, 4}
================================================================================
