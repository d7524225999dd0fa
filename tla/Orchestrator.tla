------------------------------ MODULE Orchestrator ------------------------------
(***************************************************************************)
(* A batch of programs, from the command line to the files                   *)
(* (src/src/orchestrator.rs: gen_one, gen_many, Orchestrator::run, encode,   *)
(* resolve_self_check; src/src/elf.rs: write_executable).  Spike answers as  *)
(* SpikeOracle says.                                                         *)
(*                                                                         *)
(*   mkdir --> target --> generate -+-> encode --> link --> draft --> probe  *)
(*                ^                 |                                 |      *)
(*                |                 |        verify <-- final <-- resolve    *)
(*                |                 |           |                            *)
(*                '---- write <-----+-----------'                            *)
(*                                                                         *)
(* A program is told by which of its parts are filled in: its sites (0 as    *)
(* generated, 1 linked to code addresses, 2 resolved to register values) and *)
(* the expected values of its check (0 placeholders, 2 Spike's).  A file is  *)
(* of a kind: absent, old (of an earlier batch), partial, empty, or a        *)
(* program of this batch.                                                    *)
(***************************************************************************)
EXTENDS Naturals, Sequences

CONSTANTS
    NumElfs,          \* --num-elfs
    NumPcs,           \* PCs probed in a program
    CoreCounts,       \* --num-cores
    Verdicts          \* exit codes a program may give on Spike

ASSUME BatchAssumption ==
    /\ NumElfs \in Nat \ {0} /\ NumPcs \in Nat \ {0}
    /\ CoreCounts \subseteq Nat /\ Verdicts \subseteq Nat

VARIABLES
    options,          \* [cores, selfCheck, valid]: the target is valid
    stage,
    elf,              \* index of the program being made
    sites, check,     \* what the hart holds
    image,            \* the last image encoded, or of kind "none"
    files,            \* the output files
    before,           \* what they were when the batch began
    mode, verdict, answer   \* the call of Spike under way

spikeVars == <<mode, verdict, answer>>
hartVars == <<sites, check>>
batchVars == <<options, stage, elf, sites, check, image, files, before, mode,
               verdict, answer>>

Spike == INSTANCE SpikeOracle WITH
    NumPcs <- NumPcs, mode <- mode, verdict <- verdict, answer <- answer

Elfs == 0 .. NumElfs - 1
Program(k) == [kind |-> "program", elf |-> k, sites |-> sites, check |-> check]
Other(kind) == [kind |-> kind, elf |-> 0, sites |-> 0, check |-> 0]
Halted == {"ok", "failed", "panicked"}

BatchInit ==
    /\ options \in [cores : CoreCounts, selfCheck : BOOLEAN, valid : BOOLEAN]
    /\ before \in [Elfs -> {Other("absent"), Other("old")}] /\ files = before
    /\ stage = "mkdir" /\ elf = 0
    /\ sites = 0 /\ check = 0 /\ image = Other("none")
    /\ mode = "exit_code" /\ verdict = 0 /\ answer = Spike!Pending

--------------------------------------------------------------------------------
(* gen_one and gen_many.                                                     *)

To(next) == stage' = next /\ UNCHANGED <<options, elf, before>>

\* Mutants: the batch goes on with the next program; or ends as if all were well.
MutSkip ==
    /\ elf' = elf + 1 /\ stage' = IF elf' = NumElfs THEN "ok" ELSE "target"
    /\ UNCHANGED <<options, before, hartVars, image, files, spikeVars>>
MutIgnore == To("ok") /\ UNCHANGED <<hartVars, image, files, spikeVars>>

\* The first error ends gen_one, and with it the whole batch.
Abort == To("failed") /\ UNCHANGED <<hartVars, image, files, spikeVars>>

\* create_dir_all; gen_one, a batch of one, calls it after Target::new.
MakeDir ==
    /\ stage = "mkdir"
    /\ \/ To("target") /\ UNCHANGED <<hartVars, image, files, spikeVars>>
       \/ Abort

NewTarget ==
    /\ stage = "target"
    /\ IF options.valid
       THEN To("generate") /\ UNCHANGED <<hartVars, image, files, spikeVars>>
       ELSE Abort

\* Orchestrator::new and run: fresh harts, every one of which may fail.
Generate ==
    /\ stage = "generate"
    /\ \/ /\ To("encode")
          /\ sites' = 0 /\ check' = 0 /\ image' = Other("none")
          /\ UNCHANGED <<files, spikeVars>>
       \/ options.cores > 0 /\ Abort

\* Without a hart there is nothing to encode.
Encoded == IF options.cores = 0 THEN Other("empty") ELSE Program(elf)

\* The first encode of a self-checking program is only to learn where its code
\* is; without a self-check it is the result.
Encode ==
    /\ stage = "encode"
    /\ \/ /\ To(IF options.selfCheck THEN "link" ELSE "write")
          /\ image' = Encoded
          /\ UNCHANGED <<hartVars, files, spikeVars>>
       \/ options.cores > 0 /\ Abort

\* harts[0] does not exist when there are no cores.
Link ==
    /\ stage = "link"
    /\ \/ /\ options.cores = 0
          /\ To("panicked")
          /\ UNCHANGED <<hartVars, image, files, spikeVars>>
       \/ /\ options.cores > 0
          /\ To("draft")
          /\ sites' = 1
          /\ UNCHANGED <<check, image, files, spikeVars>>
       \/ options.cores > 0 /\ Abort

Ask(question) ==
    /\ mode' = question
    /\ verdict' \in Verdicts
    /\ answer' = Spike!Pending

Draft ==
    /\ stage = "draft"
    /\ \/ /\ To("probe")
          /\ image' = Encoded
          /\ Ask("states_at")
          /\ UNCHANGED <<hartVars, files>>
       \/ Abort

SpikeAnswers ==
    /\ stage \in {"probe", "verify"}
    /\ Spike!Answer
    /\ UNCHANGED <<options, stage, elf, hartVars, image, files, before>>

Probe ==
    /\ stage = "probe" /\ answer # Spike!Pending
    /\ IF answer.status = "ok" /\ Len(answer.states) = NumPcs
       THEN To("resolve") /\ UNCHANGED <<hartVars, image, files, spikeVars>>
       ELSE Abort

\* resolve_sites may fail part way, but then nothing is written.
Resolve ==
    /\ stage = "resolve"
    /\ \/ /\ To("final")
          /\ sites' = 2 /\ check' = 2
          /\ UNCHANGED <<image, files, spikeVars>>
       \/ Abort

Final ==
    /\ stage = "final"
    /\ \/ /\ To("verify")
          /\ image' = Encoded
          /\ Ask("exit_code")
          /\ UNCHANGED <<hartVars, files>>
       \/ Abort

\* Mutants: the exit code is not looked at; or a rejected program is retried.
MutVerify ==
    /\ stage = "verify" /\ answer # Spike!Pending
    /\ IF answer.status = "ok"
       THEN To("write") /\ UNCHANGED <<hartVars, image, files, spikeVars>>
       ELSE Abort
MutRetry ==
    /\ stage = "verify" /\ answer # Spike!Pending
    /\ To(IF answer.status = "ok" /\ answer.code = 0 THEN "write" ELSE "generate")
    /\ UNCHANGED <<hartVars, image, files, spikeVars>>

Verify ==
    /\ stage = "verify" /\ answer # Spike!Pending
    /\ IF answer.status = "ok" /\ answer.code = 0
       THEN To("write") /\ UNCHANGED <<hartVars, image, files, spikeVars>>
       ELSE Abort

\* fs::write replaces a file, but not in one step: it may fail before it has
\* touched the file, or half-way.
Write ==
    /\ stage = "write"
    /\ \/ /\ files' = [files EXCEPT ![elf] = image]
          /\ elf' = elf + 1
          /\ stage' = IF elf' = NumElfs THEN "ok" ELSE "target"
          /\ UNCHANGED <<options, hartVars, image, before, spikeVars>>
       \/ Abort
       \/ /\ files' = [files EXCEPT ![elf] = Other("partial")]
          /\ To("failed")
          /\ UNCHANGED <<hartVars, image, spikeVars>>

Step ==
    \/ MakeDir \/ NewTarget \/ Generate \/ Encode \/ Link \/ Draft \/ Probe
    \/ Resolve \/ Final \/ Verify \/ Write

BatchNext == Step \/ SpikeAnswers

\* Spike's answer comes: SpikeRunner!EveryCallReturns, as time passes.
BatchSpec ==
    /\ BatchInit /\ [][BatchNext]_batchVars
    /\ WF_batchVars(Step) /\ WF_batchVars(SpikeAnswers)

--------------------------------------------------------------------------------
(* Properties.                                                               *)

Programs == [kind : {"program"}, elf : Elfs, sites : 0 .. 2, check : {0, 2}]

IsProgram(k) == files[k].kind = "program" /\ files[k].elf = k

\* The batch's state has its type.
BatchTypeOK ==
    /\ stage \in Halted \cup {"mkdir", "target", "generate", "encode", "link", "draft",
                              "probe", "resolve", "final", "verify", "write"}
    /\ elf \in 0 .. NumElfs
    /\ image \in Programs \cup {Other("none"), Other("empty")}
    /\ files \in [Elfs -> Programs \cup
                         {Other(kind) : kind \in {"absent", "old", "partial", "empty"}}]

\* A self-checking program that reaches a file is one whose sites and check hold
\* Spike's values, and Spike itself has run it to exit code 0: neither a draft
\* nor a program Spike rejects is ever written (orchestrator.rs:
\* resolve_self_check, gen_one).
OnlyVerifiedProgramsAreWritten ==
    [][\A k \in Elfs :
          options.selfCheck /\ files'[k] # files[k] /\ files'[k] # Other("partial") =>
              /\ files'[k] = [kind |-> "program", elf |-> k, sites |-> 2, check |-> 2]
              /\ mode = "exit_code" /\ answer = Spike!Truth /\ verdict = 0]_batchVars

\* A batch that stops early leaves the programs before the failed one whole,
\* those after it as they were, and at most the failed one cut off
\* (orchestrator.rs: gen_many).
BatchIsAPrefix ==
    \A k \in Elfs :
        /\ k < elf /\ options.cores > 0 => IsProgram(k)
        /\ k > elf => files[k] = before[k]
        /\ files[k].kind = "partial" => k = elf /\ stage = "failed"

\* When the batch succeeds every file is a program of this batch; only a
\* command line without cores makes it write empty files or panic
\* (orchestrator.rs: encode, resolve_self_check).
SuccessMeansPrograms ==
    /\ stage = "ok" /\ options.cores > 0 =>
          \A k \in Elfs : IsProgram(k)
    /\ stage = "panicked" => options.cores = 0 /\ files = before

\* Every batch comes to an end.
EveryBatchEnds == <>(stage \in Halted)
================================================================================
