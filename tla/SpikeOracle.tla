------------------------------ MODULE SpikeOracle ------------------------------
(***************************************************************************)
(* What one call of Spike promises the generator: the registers at every PC *)
(* asked for, in the order asked (states_at), or the exit code the program   *)
(* gave (exit_code); or an error, and then nothing else.  The generator      *)
(* patches what it is given into the program, so an answer that is not the   *)
(* whole truth would make a wrong program.                                   *)
(*                                                                         *)
(* SpikeRunner implements it (src/src/spike.rs); Orchestrator relies on it.  *)
(***************************************************************************)
EXTENDS Naturals, Sequences

CONSTANTS NumPcs      \* PCs a call of states_at probes; the check's is the last

VARIABLES
    mode,             \* "states_at" or "exit_code"
    verdict,          \* the exit code the program would give
    answer            \* what the caller gets: [status, states, code]

oracleVars == <<mode, verdict, answer>>

Failures == {"files", "spawn", "timeout", "signal", "unreached"}

Answered(status, states, code) ==
    [status |-> status, states |-> states, code |-> code]

Pending == Answered("pending", <<>>, 0)
Failure(why) == Answered(why, <<>>, 0)

\* States are told apart by the PC they belong to.
Truth == IF mode = "states_at"
         THEN Answered("ok", [i \in 1 .. NumPcs |-> i], 0)
         ELSE Answered("ok", <<>>, verdict)

OracleInit ==
    /\ mode \in {"states_at", "exit_code"}
    /\ verdict \in Nat
    /\ answer = Pending

Answer ==
    /\ answer = Pending
    /\ answer' \in {Truth} \cup {Failure(why) : why \in Failures}
    /\ UNCHANGED <<mode, verdict>>

OracleSpec == OracleInit /\ [][Answer]_oracleVars
================================================================================
