--------------------------- MODULE OrchestratorProofs ---------------------------
(***************************************************************************)
(* Orchestrator's safety properties hold for every number of programs, PCs  *)
(* and cores, and all exit codes.  The inductive invariant adds to them what *)
(* the program that is being made is at every stage: from `final' on its      *)
(* sites and its check hold Spike's values, and the image that waits to be    *)
(* written is the one Spike was asked about.                                 *)
(***************************************************************************)
EXTENDS Orchestrator, TLAPS

Checking == {"link", "draft", "probe", "resolve", "final", "verify"}
Stages == Halted \cup Checking \cup {"mkdir", "target", "generate", "encode", "write"}

FileKinds == {Other(kind) : kind \in {"absent", "old", "partial", "empty"}}
Images == Programs \cup {Other("none"), Other("empty")}

Finished(k) == [kind |-> "program", elf |-> k, sites |-> 2, check |-> 2]

Typed ==
    /\ options \in [cores : CoreCounts, selfCheck : BOOLEAN, valid : BOOLEAN]
    /\ stage \in Stages
    /\ elf \in 0 .. NumElfs
    /\ stage # "ok" => elf \in Elfs
    /\ stage = "ok" => elf = NumElfs
    /\ sites \in 0 .. 2 /\ check \in {0, 2}
    /\ image \in Images
    /\ files \in [Elfs -> Programs \cup FileKinds]

\* Where a program stands at each stage.
Progress ==
    /\ stage \in Checking => options.selfCheck
    /\ stage \in Checking \ {"link"} => options.cores > 0
    /\ stage = "panicked" => options.selfCheck /\ options.cores = 0
    /\ stage \in {"final", "verify"} => sites = 2 /\ check = 2
    /\ stage = "verify" => image = Finished(elf)

\* Asking about the final program.
Asking ==
    stage = "verify" =>
        /\ mode = "exit_code"
        /\ answer \in {Spike!Pending, Spike!Truth}
                      \cup {Spike!Failure(why) : why \in Spike!Failures}

\* The image that is about to be written.
Writable ==
    stage = "write" =>
        /\ options.cores > 0 => image.kind = "program" /\ image.elf = elf
        /\ image \in Programs \cup FileKinds
        /\ image.kind # "partial"
        /\ options.selfCheck =>
              /\ options.cores > 0
              /\ image = Finished(elf)
              /\ mode = "exit_code" /\ answer = Spike!Truth /\ verdict = 0

\* With a self-check, no program is written for no core.
NothingWritten == options.selfCheck /\ options.cores = 0 => files = before

BatchIInv == Typed /\ Progress /\ Asking /\ Writable /\ NothingWritten /\ BatchIsAPrefix
USE BatchAssumption DEF BatchAssumption

--------------------------------------------------------------------------------

LEMMA BatchInitIInv == BatchInit => BatchIInv
<1>1. SUFFICES ASSUME BatchInit PROVE BatchIInv
  OBVIOUS
<1>2. 0 \in Elfs
  BY DEF Elfs
<1>3. Typed
  BY <1>1, <1>2 DEF BatchInit, Typed, Stages, Images, FileKinds, Other
<1>4. Progress /\ Asking /\ Writable /\ NothingWritten
  BY <1>1 DEF BatchInit, Progress, Asking, Writable, NothingWritten, Checking
<1>5. BatchIsAPrefix
  BY <1>1 DEF BatchInit, BatchIsAPrefix, IsProgram, Elfs, Other
<1>6. QED
  BY <1>3, <1>4, <1>5 DEF BatchIInv

\* Giving up keeps everything but the stage.
LEMMA AbortStep ==
    ASSUME BatchIInv, stage # "ok", Abort
    PROVE  BatchIInv'
<1>1. /\ stage' = "failed"
      /\ UNCHANGED <<options, elf, before, sites, check, image, files>>
  BY DEF Abort, To, hartVars
<1>2. Typed'
  BY <1>1 DEF BatchIInv, Typed, Stages, Halted
<1>3. Progress' /\ Asking' /\ Writable' /\ NothingWritten'
  BY <1>1 DEF BatchIInv, Progress, Asking, Writable, NothingWritten, Checking
<1>4. BatchIsAPrefix'
  BY <1>1 DEF BatchIInv, BatchIsAPrefix, IsProgram
<1>5. QED
  BY <1>2, <1>3, <1>4 DEF BatchIInv

\* A step that leaves the files alone and does not end the batch: the typing
\* and the prefix carry over when its image and hart have their types.
LEMMA QuietStep ==
    ASSUME BatchIInv, stage # "ok", stage # "failed",
           UNCHANGED <<options, elf, before, files>>,
           stage' \in Stages \ {"ok"},
           sites' \in 0 .. 2, check' \in {0, 2}, image' \in Images
    PROVE  Typed' /\ NothingWritten' /\ BatchIsAPrefix'
<1>1. Typed'
  BY DEF BatchIInv, Typed
<1>2. NothingWritten'
  BY DEF BatchIInv, NothingWritten
<1>3. BatchIsAPrefix'
  BY DEF BatchIInv, BatchIsAPrefix, IsProgram
<1>4. QED
  BY <1>1, <1>2, <1>3

\* What encode makes of a hart.
LEMMA EncodedType ==
    ASSUME BatchIInv, stage # "ok"
    PROVE  /\ Encoded \in Images
           /\ options.cores > 0 => Encoded \in Programs /\ Encoded.elf = elf
                                  /\ Encoded.kind = "program"
           /\ options.cores = 0 => Encoded = Other("empty")
           /\ options.cores > 0 /\ sites = 2 /\ check = 2 => Encoded = Finished(elf)
  BY DEF BatchIInv, Typed, Encoded, Images, Programs, Program, Finished
--------------------------------------------------------------------------------
(* One lemma for each group of steps.                                        *)

LEMMA EarlyStep ==
    ASSUME BatchIInv, MakeDir \/ NewTarget \/ Generate
    PROVE  BatchIInv'
<1>1. CASE Abort
  BY <1>1, AbortStep DEF MakeDir, NewTarget, Generate
<1>2. CASE ~ Abort
  <2>1. /\ stage \in {"mkdir", "target", "generate"}
        /\ stage' \in {"target", "generate", "encode"}
        /\ UNCHANGED <<options, elf, before, files, spikeVars>>
    BY <1>2 DEF MakeDir, NewTarget, Generate, To
  <2>2. sites' \in 0 .. 2 /\ check' \in {0, 2} /\ image' \in Images
    BY <1>2 DEF MakeDir, NewTarget, Generate, To, hartVars, BatchIInv, Typed, Images
  <2>3. Typed' /\ NothingWritten' /\ BatchIsAPrefix'
    BY <2>1, <2>2, QuietStep DEF Stages
  <2>4. Progress' /\ Asking' /\ Writable'
    BY <2>1 DEF Progress, Asking, Writable, Checking
  <2>5. QED
    BY <2>3, <2>4 DEF BatchIInv
<1>3. QED
  BY <1>1, <1>2

LEMMA EncodeStep ==
    ASSUME BatchIInv, Encode
    PROVE  BatchIInv'
<1>1. CASE Abort
  BY <1>1, AbortStep DEF Encode
<1>2. CASE ~ Abort
  <2>1. /\ stage = "encode"
        /\ stage' = IF options.selfCheck THEN "link" ELSE "write"
        /\ UNCHANGED <<options, elf, before, files, sites, check, spikeVars>>
        /\ image' = Encoded
    BY <1>2 DEF Encode, To, hartVars
  <2>2. Typed' /\ NothingWritten' /\ BatchIsAPrefix'
    BY <2>1, QuietStep, EncodedType DEF Stages, Checking, BatchIInv, Typed
  <2>3. Progress' /\ Asking'
    BY <2>1 DEF Progress, Asking, Checking
  <2>4. Writable'
    <3>1. SUFFICES ASSUME ~ options.selfCheck PROVE Writable'
      BY <2>1 DEF Writable
    <3>2. options.cores > 0 \/ options.cores = 0
      <4>1. options.cores \in Nat
        BY DEF BatchIInv, Typed
      <4>2. QED
        BY <4>1
    <3>3. /\ Encoded \in Programs \cup FileKinds
          /\ Encoded.kind # "partial"
          /\ options.cores > 0 => Encoded.kind = "program" /\ Encoded.elf = elf
      BY <2>1, <3>2, EncodedType DEF Other, FileKinds
    <3>4. QED
      BY <2>1, <3>1, <3>3 DEF Writable
  <2>5. QED
    BY <2>2, <2>3, <2>4 DEF BatchIInv
<1>3. QED
  BY <1>1, <1>2

LEMMA CheckingStep ==
    ASSUME BatchIInv, Link \/ Draft \/ Probe \/ Resolve \/ Final
    PROVE  BatchIInv'
<1>1. stage \in Checking /\ options.selfCheck
  BY DEF Link, Draft, Probe, Resolve, Final, Checking, BatchIInv, Progress
<1>2. CASE Abort
  BY <1>1, <1>2, AbortStep DEF Checking
<1>3. CASE ~ Abort
  <2>1. /\ stage' \in (Checking \ {"link"}) \cup {"panicked"}
        /\ UNCHANGED <<options, elf, before, files>>
    BY <1>3 DEF Link, Draft, Probe, Resolve, Final, To, Checking
  <2>2. /\ sites' \in 0 .. 2 /\ check' \in {0, 2}
        /\ image' \in Images
    BY <1>1, <1>3, EncodedType
    DEF Link, Draft, Probe, Resolve, Final, hartVars, BatchIInv, Typed, Checking
  <2>3. Typed' /\ NothingWritten' /\ BatchIsAPrefix'
    BY <1>1, <2>1, <2>2, QuietStep DEF Stages, Halted, Checking
  <2>4. /\ stage' # "panicked" => options.cores > 0
        /\ stage' = "panicked" => options.cores = 0
    BY <1>3 DEF Link, Draft, Probe, Resolve, Final, To, BatchIInv, Progress, Checking
  <2>5. /\ stage' \in {"final", "verify"} => sites' = 2 /\ check' = 2
        /\ stage' = "verify" => image' = Finished(elf)
    BY <1>1, <1>3, <2>4, EncodedType
    DEF Link, Draft, Probe, Resolve, Final, To, hartVars, BatchIInv, Progress, Checking
  <2>6. Progress'
    BY <1>1, <2>1, <2>4, <2>5 DEF Progress, Checking, Finished
  <2>7. Asking'
    BY <1>3 DEF Link, Draft, Probe, Resolve, Final, To, Ask, Asking
  <2>8. Writable'
    BY <2>1 DEF Writable, Checking
  <2>9. QED
    BY <2>3, <2>6, <2>7, <2>8 DEF BatchIInv
<1>4. QED
  BY <1>2, <1>3

LEMMA SpikeAnswersStep ==
    ASSUME BatchIInv, SpikeAnswers
    PROVE  BatchIInv'
<1>1. /\ stage \in {"probe", "verify"}
      /\ UNCHANGED <<options, stage, elf, sites, check, image, files, before,
                     mode, verdict>>
      /\ answer' \in {Spike!Truth} \cup {Spike!Failure(why) : why \in Spike!Failures}
  BY DEF SpikeAnswers, Spike!Answer, hartVars
<1>2. Typed' /\ NothingWritten' /\ BatchIsAPrefix'
  BY <1>1, QuietStep DEF BatchIInv, Typed
<1>3. Progress' /\ Writable'
  BY <1>1 DEF BatchIInv, Progress, Writable
<1>4. Spike!Truth' = Spike!Truth
  BY <1>1 DEF Spike!Truth
<1>5. Asking'
  BY <1>1, <1>4 DEF BatchIInv, Asking
<1>6. QED
  BY <1>2, <1>3, <1>5 DEF BatchIInv

\* An answer of exit code 0 is the truth about a program whose verdict is 0.
LEMMA VerifyStep ==
    ASSUME BatchIInv, Verify
    PROVE  BatchIInv'
<1>1. CASE Abort
  BY <1>1, AbortStep DEF Verify
<1>2. CASE ~ Abort
  <2>1. /\ stage = "verify" /\ stage' = "write"
        /\ UNCHANGED <<options, elf, before, sites, check, image, files, mode,
                       verdict, answer>>
        /\ answer # Spike!Pending /\ answer.status = "ok" /\ answer.code = 0
    BY <1>2 DEF Verify, To, hartVars, spikeVars
  <2>2. Typed' /\ NothingWritten' /\ BatchIsAPrefix'
    BY <2>1, QuietStep DEF BatchIInv, Typed, Stages
  <2>3. Progress' /\ Asking'
    BY <2>1 DEF Progress, Asking, Checking
  <2>4. mode = "exit_code" /\ answer = Spike!Truth
    BY <2>1 DEF BatchIInv, Asking, Spike!Failures, Spike!Failure, Spike!Answered
  <2>5. verdict = 0
    BY <2>1, <2>4 DEF Spike!Truth, Spike!Answered
  <2>6. /\ options.cores > 0
        /\ elf \in Elfs
        /\ image = Finished(elf)
    BY <2>1 DEF BatchIInv, Typed, Progress, Checking
  <2>7. image \in Programs /\ image.kind = "program" /\ image.elf = elf
    BY <2>6 DEF Finished, Programs
  <2>8. Spike!Truth' = Spike!Truth
    BY <2>1 DEF Spike!Truth
  <2>9. Writable'
    BY <2>1, <2>4, <2>5, <2>6, <2>7, <2>8 DEF Writable
  <2>10. QED
    BY <2>2, <2>3, <2>9 DEF BatchIInv
<1>3. QED
  BY <1>1, <1>2

LEMMA WriteStep ==
    ASSUME BatchIInv, Write
    PROVE  BatchIInv'
<1>1. stage = "write" /\ elf \in Elfs
  BY DEF Write, BatchIInv, Typed
<1>2. CASE Abort
  BY <1>1, <1>2, AbortStep
<1>3. CASE /\ files' = [files EXCEPT ![elf] = image]
           /\ elf' = elf + 1
           /\ stage' = IF elf' = NumElfs THEN "ok" ELSE "target"
           /\ UNCHANGED <<options, hartVars, image, before, spikeVars>>
  <2>1. Typed'
    BY <1>1, <1>3 DEF BatchIInv, Typed, Writable, Elfs, Stages, Halted, hartVars
  <2>2. Progress' /\ Asking' /\ Writable'
    BY <1>3 DEF Progress, Asking, Writable, Checking
  <2>3. NothingWritten'
    BY <1>1, <1>3 DEF NothingWritten, Writable, BatchIInv
  <2>4. BatchIsAPrefix'
    <3> SUFFICES ASSUME NEW k \in Elfs
                 PROVE  /\ k < elf' /\ options'.cores > 0 => IsProgram(k)'
                        /\ k > elf' => files'[k] = before'[k]
                        /\ files'[k].kind = "partial" => k = elf' /\ stage' = "failed"
      BY DEF BatchIsAPrefix
    <3>1. CASE k = elf
      <4>1. files'[k] = image
        BY <1>1, <1>3, <3>1 DEF BatchIInv, Typed
      <4>2. image.kind # "partial" /\ (options.cores > 0 => image.kind = "program" /\ image.elf = elf)
        BY <1>1 DEF BatchIInv, Writable
      <4>3. QED
        BY <1>1, <1>3, <3>1, <4>1, <4>2 DEF IsProgram, Elfs
    <3>2. CASE k # elf
      <4>1. files'[k] = files[k]
        BY <1>3, <3>2 DEF BatchIInv, Typed
      <4>2. QED
        BY <1>1, <1>3, <3>2, <4>1 DEF BatchIInv, BatchIsAPrefix, IsProgram, Elfs
    <3>3. QED
      BY <3>1, <3>2
  <2>5. QED
    BY <2>1, <2>2, <2>3, <2>4 DEF BatchIInv
<1>4. CASE /\ files' = [files EXCEPT ![elf] = Other("partial")]
           /\ To("failed")
           /\ UNCHANGED <<hartVars, image, spikeVars>>
  <2>1. Typed'
    BY <1>1, <1>4 DEF BatchIInv, Typed, FileKinds, To, Stages, Halted, hartVars
  <2>2. Progress' /\ Asking' /\ Writable'
    BY <1>4 DEF Progress, Asking, Writable, Checking, To
  <2>3. NothingWritten'
    BY <1>1, <1>4 DEF NothingWritten, Writable, BatchIInv, To
  <2>4. BatchIsAPrefix'
    <3> SUFFICES ASSUME NEW k \in Elfs
                 PROVE  /\ k < elf' /\ options'.cores > 0 => IsProgram(k)'
                        /\ k > elf' => files'[k] = before'[k]
                        /\ files'[k].kind = "partial" => k = elf' /\ stage' = "failed"
      BY DEF BatchIsAPrefix
    <3>1. CASE k = elf
      BY <1>1, <1>4, <3>1 DEF To, Elfs
    <3>2. CASE k # elf
      <4>1. files'[k] = files[k]
        BY <1>4, <3>2 DEF BatchIInv, Typed
      <4>2. QED
        BY <1>1, <1>4, <3>2, <4>1 DEF BatchIInv, BatchIsAPrefix, IsProgram, To
    <3>3. QED
      BY <3>1, <3>2
  <2>5. QED
    BY <2>1, <2>2, <2>3, <2>4 DEF BatchIInv
<1>5. QED
  BY <1>2, <1>3, <1>4 DEF Write

LEMMA BatchNextIInv == BatchIInv /\ [BatchNext]_batchVars => BatchIInv'
<1>1. SUFFICES ASSUME BatchIInv, [BatchNext]_batchVars PROVE BatchIInv'
  OBVIOUS
<1>2. CASE UNCHANGED batchVars
  BY <1>1, <1>2 DEF batchVars, BatchIInv, Typed, Progress, Asking, Writable,
     NothingWritten, BatchIsAPrefix, IsProgram, Spike!Truth
<1>3. CASE MakeDir \/ NewTarget \/ Generate
  BY <1>1, <1>3, EarlyStep
<1>4. CASE Encode
  BY <1>1, <1>4, EncodeStep
<1>5. CASE Link \/ Draft \/ Probe \/ Resolve \/ Final
  BY <1>1, <1>5, CheckingStep
<1>6. CASE Verify
  BY <1>1, <1>6, VerifyStep
<1>7. CASE Write
  BY <1>1, <1>7, WriteStep
<1>8. CASE SpikeAnswers
  BY <1>1, <1>8, SpikeAnswersStep
<1>9. QED
  BY <1>1, <1>2, <1>3, <1>4, <1>5, <1>6, <1>7, <1>8 DEF BatchNext, Step

--------------------------------------------------------------------------------
(* The theorems.                                                             *)

\* The invariant is inductive: it holds in every state of a batch, whatever
\* fails and whatever Spike answers (orchestrator.rs: gen_many, gen_one).
THEOREM BatchInvariance == BatchSpec => []BatchIInv
<1>1. BatchInit => BatchIInv
  BY BatchInitIInv
<1>2. BatchIInv /\ [BatchNext]_batchVars => BatchIInv'
  BY BatchNextIInv
<1>3. QED
  BY <1>1, <1>2, PTL DEF BatchSpec

\* The state of a batch is well typed.
THEOREM BatchTyping == BatchSpec => []BatchTypeOK
<1>1. BatchIInv => BatchTypeOK
  BY DEF BatchIInv, Typed, BatchTypeOK, Stages, Checking, Images, FileKinds
<1>2. QED
  BY <1>1, BatchInvariance, PTL

\* A batch that stops early leaves whole programs before the failed one and the
\* files after it as they were (orchestrator.rs: gen_many).
THEOREM BatchesArePrefixes == BatchSpec => []BatchIsAPrefix
<1>1. BatchIInv => BatchIsAPrefix
  BY DEF BatchIInv
<1>2. QED
  BY <1>1, BatchInvariance, PTL

\* A batch that ends well has written a program to every file.
THEOREM SuccessIsComplete == BatchSpec => []SuccessMeansPrograms
<1>1. BatchIInv => SuccessMeansPrograms
  BY DEF BatchIInv, Typed, Progress, NothingWritten, BatchIsAPrefix,
     SuccessMeansPrograms, Elfs
<1>2. QED
  BY <1>1, BatchInvariance, PTL

\* A step that writes a self-checking program writes a finished one, which
\* Spike has run to exit code 0 (orchestrator.rs: resolve_self_check).
LEMMA WritesAreVerified ==
    BatchIInv /\ [BatchNext]_batchVars =>
        [\A k \in Elfs :
            options.selfCheck /\ files'[k] # files[k] /\ files'[k] # Other("partial") =>
                /\ files'[k] = Finished(k)
                /\ mode = "exit_code" /\ answer = Spike!Truth /\ verdict = 0]_batchVars
<1> SUFFICES ASSUME BatchIInv, BatchNext,
                    NEW k \in Elfs, options.selfCheck,
                    files'[k] # files[k], files'[k] # Other("partial")
             PROVE  /\ files'[k] = Finished(k)
                    /\ mode = "exit_code" /\ answer = Spike!Truth /\ verdict = 0
  OBVIOUS
<1>1. Write
  BY DEF BatchNext, Step, MakeDir, NewTarget, Generate, Encode, Link, Draft, Probe,
     Resolve, Final, Verify, SpikeAnswers, Abort
<1>2. stage = "write" /\ files \in [Elfs -> Programs \cup FileKinds]
  BY <1>1 DEF Write, BatchIInv, Typed
<1>3. k = elf /\ files'[k] = image
  BY <1>1, <1>2 DEF Write, Abort
<1>4. QED
  BY <1>2, <1>3 DEF BatchIInv, Writable

\* Only finished programs that Spike has accepted are ever written
\* (orchestrator.rs: resolve_self_check, gen_one).
THEOREM WritesOnlyVerified == BatchSpec => OnlyVerifiedProgramsAreWritten
<1>1. BatchIInv /\ [BatchNext]_batchVars =>
          [\A k \in Elfs :
              options.selfCheck /\ files'[k] # files[k] /\ files'[k] # Other("partial") =>
                  /\ files'[k] = [kind |-> "program", elf |-> k, sites |-> 2, check |-> 2]
                  /\ mode = "exit_code" /\ answer = Spike!Truth /\ verdict = 0]_batchVars
  BY WritesAreVerified DEF Finished
<1>2. QED
  BY <1>1, BatchInvariance, PTL DEF BatchSpec, OnlyVerifiedProgramsAreWritten
================================================================================
