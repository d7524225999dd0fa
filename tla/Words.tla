--------------------------------- MODULE Words ---------------------------------
(***************************************************************************)
(* XLEN-bit words.  A word is the set of the positions of its one bits, so  *)
(* the exclusive or the entanglement sites are built from is the symmetric *)
(* difference and the zero word is {}.                                     *)
(***************************************************************************)
EXTENDS Integers, FiniteSets

CONSTANT XLEN   \* number of bits of an integer register

ASSUME XlenAssumption == XLEN \in Nat \ {0}

Bits == 0 .. XLEN - 1

Word == SUBSET Bits

Xor(a, b) == (a \ b) \cup (b \ a)

\* The exclusive or of f[r] over the r of S: a bit is set in it when it is set
\* in an odd number of the f[r].
XorAll(f, S) == {b \in Bits : Cardinality({r \in S : b \in f[r]}) % 2 = 1}

\* What is left of a 64-bit value in an XLEN-bit register.
Truncate(a) == a \cap Bits

\* a < b, both read as unsigned numbers: the highest bit they differ in is b's.
LessUnsigned(a, b) ==
    \E i \in b \ a : \A j \in Bits : j > i => (j \in a <=> j \in b)

\* Two's complement order: flipping both sign bits makes it the unsigned one.
LessSigned(a, b) == LessUnsigned(Xor(a, {XLEN - 1}), Xor(b, {XLEN - 1}))

\* The word that holds the natural number n < 2^XLEN.
NatToWord(n) == {i \in Bits : (n \div 2^i) % 2 = 1}

\* a + 1: a bit changes when all below it are set; and -a, where a bit changes
\* when one below it is set.
Successor(a) == {i \in Bits : (i \in a) # (\A j \in 0 .. i - 1 : j \in a)}

Negative(a) == {i \in Bits : (i \in a) # (\E j \in a : j < i)}

ShiftLeft(a) == {i + 1 : i \in a} \cap Bits
================================================================================
