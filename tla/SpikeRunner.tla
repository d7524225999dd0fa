------------------------------ MODULE SpikeRunner ------------------------------
(***************************************************************************)
(* One call of Spike (src/src/spike.rs: states_at, exit_code, run,           *)
(* TempFile): the caller, which polls the child until a deadline; the thread *)
(* that drains its stderr; the clock; and the child itself, which is Spike   *)
(* and external: it is modelled from what the caller prepares for it.        *)
(*                                                                         *)
(*   files --CreateFile--> spawn --> poll --> check --> sleep --> poll ...   *)
(*                                     |        '--> kill --> wait           *)
(*                                     '--> join            '--> returned    *)
(*                                            '--> returned                  *)
(*                                                                         *)
(* Stderr is a sequence of tokens, written one at a time: a register dump is *)
(* <<"zero", i>> and <<"rest", i>>, the first and the last part of what      *)
(* `reg 0' prints at the i-th PC; <<"freg", k>> one FP register; <<"msg", 0>> *)
(* anything else Spike says.  try_wait is taken not to fail and stderr to be *)
(* UTF-8.                                                                    *)
(***************************************************************************)
EXTENDS Naturals, Sequences, FiniteSets

CONSTANTS
    NumPcs,           \* PCs to probe
    NumFregs,         \* FP registers dumped at the last one: 0 or 32
    PipeSize,         \* tokens the pipe holds
    Deadline,         \* TIMEOUT, in ticks of the clock
    Verdicts          \* exit codes of the program

ASSUME RunnerAssumption ==
    /\ NumPcs \in Nat \ {0} /\ NumFregs \in Nat
    /\ PipeSize \in Nat \ {0} /\ Deadline \in Nat
    /\ Verdicts \subseteq Nat

VARIABLES
    mode,             \* "states_at" or "exit_code"
    verdict,          \* the exit code the program would give
    main,             \* where the caller is
    answer,           \* what it returns
    files,            \* temporary files that exist
    owned,            \* those a TempFile will remove
    now,              \* the clock
    child,            \* none, running, hung, exited, signalled, reaped
    todo,             \* tokens the child has still to write
    code,             \* its exit code; a signal's is none
    pipe,             \* what is in the pipe
    reader,           \* the thread: none, reading, eof
    output            \* what it has read

callVars == <<mode, verdict, main, answer, files, owned>>
childVars == <<child, todo, code>>
readerVars == <<reader, output>>
runnerVars == <<callVars, now, childVars, pipe, readerVars>>

Oracle == INSTANCE SpikeOracle WITH
    NumPcs <- NumPcs, mode <- mode, verdict <- verdict, answer <- answer

NoCode == 256   \* killed by a signal

--------------------------------------------------------------------------------
(* The command file and what its dumps say.                                  *)

\* until, reg 0 for every PC; freg 0..31; q.
Dumps == [k \in 1 .. 2 * NumPcs |->
             IF k % 2 = 1 THEN <<"zero", (k + 1) \div 2>> ELSE <<"rest", k \div 2>>]

Script == Dumps \o [k \in 1 .. NumFregs |-> <<"freg", k>>]

Starts == {j \in DOMAIN output : output[j][1] = "zero"}

\* The part of the output from one dump's start up to the next one's.
Segment(j) == {l \in j .. Len(output) : \A s \in Starts : s > j => l < s}

FregsIn(j) == {l \in Segment(j) : output[l][1] = "freg"}

\* parse_state
Parses(j) ==
    /\ \E l \in Segment(j) : output[l][1] = "rest"
    /\ (\A s \in Starts : s <= j) /\ NumFregs > 0 => Cardinality(FregsIn(j)) = NumFregs

Parsed == [i \in 1 .. Cardinality(Starts) |->
              output[CHOOSE j \in Starts : Cardinality({s \in Starts : s <= j}) = i][2]]

\* Mutant: missing dumps are not noticed.
MutReachedAll == \A j \in Starts : Parses(j)

ReachedAll == Cardinality(Starts) = NumPcs /\ \A j \in Starts : Parses(j)

--------------------------------------------------------------------------------
(* The caller.                                                               *)

RunnerInit ==
    /\ mode \in {"states_at", "exit_code"} /\ verdict \in Verdicts
    /\ main = "files" /\ answer = Oracle!Pending
    /\ files = {} /\ owned = {}
    /\ now = 0
    /\ child = "none" /\ todo = <<>> /\ code = 0
    /\ pipe = <<>> /\ reader = "none" /\ output = <<>>

\* A return drops the TempFiles.
Return(a) ==
    /\ main' = "returned"
    /\ answer' = a
    /\ files' = files \ owned
    /\ owned' = {}
    /\ UNCHANGED <<mode, verdict>>

GoTo(place) == main' = place /\ UNCHANGED <<mode, verdict, answer, files, owned>>

Needed == IF mode = "states_at" THEN <<"elf", "cmds">> ELSE <<"elf">>

\* TempFile::new: a write that fails may leave a file that nothing removes.
CreateFile ==
    /\ main = "files"
    /\ LET name == Needed[Cardinality(owned) + 1]
       IN  \/ /\ files' = files \cup {name}
              /\ owned' = owned \cup {name}
              /\ main' = IF Cardinality(owned) + 1 = Len(Needed) THEN "spawn" ELSE "files"
              /\ UNCHANGED <<mode, verdict, answer>>
           \/ Return(Oracle!Failure("files"))
           \/ /\ main' = "returned" /\ answer' = Oracle!Failure("files")
              /\ files' = (files \ owned) \cup {name} /\ owned' = {}
              /\ UNCHANGED <<mode, verdict>>
    /\ UNCHANGED <<now, childVars, pipe, readerVars>>

SpawnFails ==
    /\ main = "spawn"
    /\ Return(Oracle!Failure("spawn"))
    /\ UNCHANGED <<now, childVars, pipe, readerVars>>

\* The deadline counts from here.
Spawn ==
    /\ main = "spawn"
    /\ GoTo("poll")
    /\ child' = "running" /\ reader' = "reading" /\ now' = 0
    /\ \/ mode = "states_at" /\ todo' = Script /\ code' = 0
       \/ /\ mode = "exit_code" /\ code' = verdict
          /\ todo' = IF verdict = 0 THEN <<>> ELSE << <<"msg", 0>> >>
    /\ UNCHANGED <<pipe, output>>

Dead == child \in {"exited", "signalled"}

TryWait ==
    /\ main = "poll"
    /\ \/ /\ Dead
          /\ child' = "reaped" /\ GoTo("join")
       \/ /\ ~ Dead
          /\ UNCHANGED child /\ GoTo("check")
    /\ UNCHANGED <<now, todo, code, pipe, readerVars>>

\* Mutants: the call gives up without killing Spike; or never gives up.
MutBailOut ==
    /\ main = "check"
    /\ IF now >= Deadline THEN Return(Oracle!Failure("timeout")) ELSE GoTo("sleep")
    /\ UNCHANGED <<now, childVars, pipe, readerVars>>
MutNoDeadline ==
    /\ main = "check"
    /\ GoTo("sleep")
    /\ UNCHANGED <<now, childVars, pipe, readerVars>>

CheckDeadline ==
    /\ main = "check"
    /\ GoTo(IF now >= Deadline THEN "kill" ELSE "sleep")
    /\ UNCHANGED <<now, childVars, pipe, readerVars>>

\* Mutant: the clock is looked at before the child is polled.
MutSleep ==
    /\ main = "sleep"
    /\ GoTo("check")
    /\ UNCHANGED <<now, childVars, pipe, readerVars>>

Sleep ==
    /\ main = "sleep"
    /\ GoTo("poll")
    /\ UNCHANGED <<now, childVars, pipe, readerVars>>

\* SIGKILL does nothing to a child that is already dead.
Kill ==
    /\ main = "kill"
    /\ GoTo("wait")
    /\ IF Dead THEN UNCHANGED childVars
               ELSE child' = "signalled" /\ code' = NoCode /\ UNCHANGED todo
    /\ UNCHANGED <<now, pipe, readerVars>>

\* The reader is not joined: it ends by itself.
Wait ==
    /\ main = "wait" /\ Dead
    /\ child' = "reaped"
    /\ Return(Oracle!Failure("timeout"))
    /\ UNCHANGED <<now, todo, code, pipe, readerVars>>

\* Mutant: what the reader has by now is taken.
MutJoin ==
    /\ main = "join"
    /\ Return(IF code = NoCode THEN Oracle!Failure("signal")
              ELSE IF mode = "exit_code" THEN Oracle!Answered("ok", <<>>, code)
              ELSE IF ReachedAll THEN Oracle!Answered("ok", Parsed, 0)
              ELSE Oracle!Failure("unreached"))
    /\ UNCHANGED <<now, childVars, pipe, readerVars>>

\* join, then status.code, then what states_at or exit_code makes of it.
Join ==
    /\ main = "join" /\ reader = "eof"
    /\ Return(IF code = NoCode THEN Oracle!Failure("signal")
              ELSE IF mode = "exit_code" THEN Oracle!Answered("ok", <<>>, code)
              ELSE IF ReachedAll THEN Oracle!Answered("ok", Parsed, 0)
              ELSE Oracle!Failure("unreached"))
    /\ UNCHANGED <<now, childVars, pipe, readerVars>>

--------------------------------------------------------------------------------
(* The reader, the clock and the child.                                      *)

\* Mutant: stderr is read once Spike has exited.
MutRead ==
    /\ reader = "reading" /\ pipe # <<>> /\ child \notin {"running", "hung"}
    /\ output' = Append(output, Head(pipe))
    /\ pipe' = Tail(pipe)
    /\ UNCHANGED <<callVars, now, childVars, reader>>

Read ==
    /\ reader = "reading" /\ pipe # <<>>
    /\ output' = Append(output, Head(pipe))
    /\ pipe' = Tail(pipe)
    /\ UNCHANGED <<callVars, now, childVars, reader>>

\* The write end closes when the child dies.
ReadEof ==
    /\ reader = "reading" /\ pipe = <<>> /\ child \in {"exited", "signalled", "reaped"}
    /\ reader' = "eof"
    /\ UNCHANGED <<callVars, now, childVars, pipe, output>>

Tick ==
    /\ child # "none" /\ now < Deadline
    /\ now' = now + 1
    /\ UNCHANGED <<callVars, childVars, pipe, readerVars>>

\* A write blocks while the pipe is full.
ChildWrites ==
    /\ child = "running" /\ todo # <<>> /\ Len(pipe) < PipeSize
    /\ pipe' = Append(pipe, Head(todo))
    /\ todo' = Tail(todo)
    /\ UNCHANGED <<callVars, now, child, code, readerVars>>

ChildExits ==
    /\ child = "running" /\ todo = <<>>
    /\ child' = "exited"
    /\ UNCHANGED <<callVars, now, todo, code, pipe, readerVars>>

\* The program runs between two dumps, or in exit_code from the start: there
\* it may trap and exit early, or never stop.
ProgramRuns ==
    /\ child = "running"
    /\ mode = "states_at" => todo # <<>> /\ Head(todo)[1] = "zero"

ProgramExits ==
    /\ ProgramRuns /\ mode = "states_at"
    /\ todo' = << <<"msg", 0>> >>
    /\ code' \in Verdicts \ {0}
    /\ UNCHANGED <<callVars, now, child, pipe, readerVars>>

ProgramHangs ==
    /\ ProgramRuns
    /\ child' = "hung"
    /\ UNCHANGED <<callVars, now, todo, code, pipe, readerVars>>

ChildCrashes ==
    /\ child \in {"running", "hung"}
    /\ child' = "signalled" /\ code' = NoCode
    /\ UNCHANGED <<callVars, now, todo, pipe, readerVars>>

Caller ==
    \/ CreateFile \/ SpawnFails \/ Spawn \/ TryWait \/ CheckDeadline \/ Sleep
    \/ Kill \/ Wait \/ Join

RunnerNext ==
    \/ Caller
    \/ Read \/ ReadEof \/ Tick
    \/ ChildWrites \/ ChildExits \/ ProgramExits \/ ProgramHangs \/ ChildCrashes

RunnerSpec == RunnerInit /\ [][RunnerNext]_runnerVars

\* The caller and the reader are scheduled, and a Spike that can write or exit
\* does.  Nothing makes the clock reach the deadline or a Spike fail.
FairRunnerSpec ==
    /\ RunnerSpec
    /\ WF_runnerVars(Caller)
    /\ WF_runnerVars(Read \/ ReadEof)
    /\ WF_runnerVars(ChildWrites \/ ChildExits)

--------------------------------------------------------------------------------
(* Properties.                                                               *)

\* The state of a call has its type.
RunnerTypeOK ==
    /\ main \in {"files", "spawn", "poll", "check", "sleep", "kill", "wait", "join",
                 "returned"}
    /\ child \in {"none", "running", "hung", "exited", "signalled", "reaped"}
    /\ code \in Verdicts \cup {0, NoCode} /\ now \in 0 .. Deadline
    /\ owned \subseteq files /\ files \subseteq {"elf", "cmds"}
    /\ Len(pipe) <= PipeSize

\* A call keeps the oracle's promise: one answer, either the registers at every
\* PC in order and nothing less, or the program's exit code, or an error,
\* wherever the dumps were cut by an exit, a crash or the deadline (spike.rs:
\* states_at, run, parse_state).
ImplementsOracle == Oracle!OracleSpec

\* A Spike that carried out its whole command file is never reported as having
\* missed a PC, and one that exited never as killed: what it wrote before it
\* exited is read to the end although the exit is seen first (spike.rs: run
\* joins the reader).
CompleteRunsAreDelivered ==
    main = "returned" /\ child = "reaped" =>
        /\ answer.status = "unreached" => code # 0
        /\ answer.status = "signal" => code = NoCode

\* No call, not even one that timed out, leaves a Spike running, a zombie or a
\* temporary file behind, except a file whose own write failed (spike.rs: run
\* kills and waits before it bails out; TempFile::new and drop).
NothingIsLeftBehind ==
    main = "returned" =>
        /\ child \in {"none", "reaped"}
        /\ owned = {}
        /\ answer.status # "files" => files = {}
        /\ Cardinality(files) <= 1

\* A Spike that was dead when the caller last went to sleep is not said to have
\* timed out, however long the sleep took (spike.rs: run polls before it looks
\* at the clock).
DeathBeatsTheDeadline ==
    [](main = "sleep" /\ Dead => [](answer.status # "timeout"))

\* "A full pipe cannot stall Spike": while there is time it is drained
\* (spike.rs: run).
FullPipeDrains ==
    (Len(pipe) = PipeSize /\ now < Deadline) ~> (Len(pipe) < PipeSize \/ now = Deadline)

\* Once Spike has ended, or the deadline has come, the call returns and the
\* reader ends too, also the one a timeout leaves behind (spike.rs: run).
EveryCallReturns ==
    (Dead \/ (now = Deadline /\ child # "none")) ~> (main = "returned" /\ reader = "eof")
================================================================================
