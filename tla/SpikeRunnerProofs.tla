---------------------------- MODULE SpikeRunnerProofs ----------------------------
(***************************************************************************)
(* SpikeRunner's safety for every number of PCs and FP registers, every pipe *)
(* and every deadline: a call leaves no process and no file, a Spike that    *)
(* was seen alive and then dies does not time out, one that is not cut short *)
(* is heard to the end, and SpikeRunner implements SpikeOracle.              *)
(*                                                                         *)
(* The refinement rests on where the dumps can be: what Spike has written or *)
(* will write holds the start of the i-th dump at place 2i - 1 and nowhere   *)
(* else (DumpsInPlace), wherever it stops.  When the caller finds NumPcs     *)
(* starts they are therefore the dumps of all PCs, in order.                 *)
(***************************************************************************)
EXTENDS SpikeRunner, FiniteSetTheorems, SequenceTheorems, TLAPS

Mains == {"files", "spawn", "poll", "check", "sleep", "kill", "wait", "join", "returned"}
Children == {"none", "running", "hung", "exited", "signalled", "reaped"}
Waiting == {"poll", "check", "sleep", "kill", "wait"}

\* The tokens Spike writes.
Token == {"zero", "rest", "freg", "msg"} \X Nat

\* t, if it starts a dump, is the t[2]-th dump's start and written at place l.
InPlace(t, l) == t[1] = "zero" => l <= 2 * NumPcs /\ l = 2 * t[2] - 1

\* Where the child is while the caller is at each place.
ChildFollows ==
    /\ main \in Mains /\ child \in Children
    /\ main \in {"files", "spawn"} => child = "none"
    /\ main \in Waiting => child \in {"running", "hung", "exited", "signalled"}
    /\ main = "wait" => Dead
    /\ main = "join" => child = "reaped"
    /\ main = "returned" => child \in {"none", "reaped"}

\* Every file that exists is removed when the call returns.
FilesOwned ==
    /\ main = "files" => owned \in {{}} \cup (IF mode = "states_at" THEN {{"elf"}} ELSE {})
    /\ owned \in {{}, {"elf"}, {"elf", "cmds"}}
    /\ main # "returned" => files = owned
    /\ main = "returned" =>
          /\ owned = {}
          /\ files \in {{}, {"elf"}, {"cmds"}}
          /\ answer.status # "files" => files = {}

Streams ==
    /\ output \in Seq(Token) /\ pipe \in Seq(Token) /\ todo \in Seq(Token)
    /\ Len(pipe) <= PipeSize
    /\ child = "none" => output = <<>> /\ pipe = <<>>

DumpsInPlace ==
    /\ \A l \in 1 .. Len(output) : InPlace(output[l], l)
    /\ \A l \in 1 .. Len(pipe) : InPlace(pipe[l], Len(output) + l)
    /\ \A l \in 1 .. Len(todo) : InPlace(todo[l], Len(output) + Len(pipe) + l)

\* What the caller knows of the outcome.
Outcome ==
    /\ mode \in {"states_at", "exit_code"} /\ verdict \in Verdicts
    /\ main # "returned" => answer = Oracle!Pending
    /\ code \in Verdicts \cup {0, NoCode}
    /\ mode = "exit_code" /\ child # "none" => code \in {verdict, NoCode}
    /\ now \in 0 .. Deadline

CallIInv == ChildFollows /\ FilesOwned /\ Outcome
RunnerIInv == CallIInv /\ Streams /\ DumpsInPlace
--------------------------------------------------------------------------------
(* The caller and the child, without what is written.                        *)

LEMMA CallInit == RunnerInit => CallIInv
<1>1. SUFFICES ASSUME RunnerInit PROVE CallIInv
  OBVIOUS
<1>2. ChildFollows
  BY <1>1 DEF RunnerInit, ChildFollows, Mains, Children, Waiting
<1>3. FilesOwned
  BY <1>1 DEF RunnerInit, FilesOwned
<1>4. 0 \in 0 .. Deadline
  BY RunnerAssumption DEF RunnerAssumption
<1>5. Outcome
  BY <1>1, <1>4 DEF RunnerInit, Outcome
<1>6. QED
  BY <1>2, <1>3, <1>5 DEF CallIInv

LEMMA CreateFileCall ==
    ASSUME CallIInv, CreateFile
    PROVE  CallIInv'
<1>1. /\ main = "files" /\ child = "none" /\ files = owned
      /\ owned \in {{}} \cup (IF mode = "states_at" THEN {{"elf"}} ELSE {})
      /\ UNCHANGED <<mode, verdict, now, child, todo, code>>
      /\ mode \in {"states_at", "exit_code"}
  BY DEF CallIInv, ChildFollows, FilesOwned, Outcome, CreateFile, Return, childVars
<1>2. Outcome' /\ ChildFollows'
  BY <1>1 DEF CallIInv, Outcome, ChildFollows, CreateFile, Return, Mains, Children,
     Waiting, Dead
<1>3. /\ Cardinality({}) = 0 /\ Cardinality({"elf"}) = 1
  BY FS_EmptySet, FS_Singleton
<1>4. ASSUME NEW name \in {"elf", "cmds"}, NEW last \in BOOLEAN,
             Needed[Cardinality(owned) + 1] = name,
             (Cardinality(owned) + 1 = Len(Needed)) = last,
             owned \cup {name} \in {{"elf"}, {"elf", "cmds"}},
             ~ last => mode = "states_at" /\ owned \cup {name} = {"elf"},
             owned \cap {name} = {}
      PROVE  FilesOwned'
  <2>1. CASE /\ files' = files \cup {name}
             /\ owned' = owned \cup {name}
             /\ main' = IF last THEN "spawn" ELSE "files"
             /\ UNCHANGED <<mode, verdict, answer>>
    BY <1>1, <1>4, <2>1 DEF FilesOwned
  <2>2. CASE Return(Oracle!Failure("files"))
    BY <1>1, <2>2 DEF FilesOwned, Return
  <2>3. CASE /\ main' = "returned" /\ answer' = Oracle!Failure("files")
             /\ files' = (files \ owned) \cup {name} /\ owned' = {}
             /\ UNCHANGED <<mode, verdict>>
    BY <1>1, <1>4, <2>3 DEF FilesOwned, Oracle!Failure, Oracle!Answered
  <2>4. QED
    BY <1>4, <2>1, <2>2, <2>3 DEF CreateFile
<1>5. CASE owned = {}
  <2>1. Needed[Cardinality(owned) + 1] = "elf"
    BY <1>3, <1>5 DEF Needed
  <2>2. Len(Needed) = IF mode = "states_at" THEN 2 ELSE 1
    BY DEF Needed
  <2>3. CASE mode = "states_at"
    <3>1. (Cardinality(owned) + 1 = Len(Needed)) = FALSE
      BY <1>3, <1>5, <2>2, <2>3
    <3>2. QED
      BY <1>2, <1>4, <1>5, <2>1, <2>3, <3>1 DEF CallIInv
  <2>4. CASE mode # "states_at"
    <3>1. (Cardinality(owned) + 1 = Len(Needed)) = TRUE
      BY <1>3, <1>5, <2>2, <2>4
    <3>2. QED
      BY <1>2, <1>4, <1>5, <2>1, <2>4, <3>1 DEF CallIInv
  <2>5. QED
    BY <2>3, <2>4
<1>6. CASE owned = {"elf"}
  <2>1. mode = "states_at"
    BY <1>1, <1>6
  <2>2. /\ Needed[Cardinality(owned) + 1] = "cmds"
        /\ (Cardinality(owned) + 1 = Len(Needed)) = TRUE
    BY <1>3, <1>6, <2>1 DEF Needed
  <2>3. QED
    BY <1>2, <1>4, <1>6, <2>2 DEF CallIInv
<1>7. QED
  BY <1>1, <1>5, <1>6

\* A return, in a state where the child is gone, forgets no file.
LEMMA ReturnCall ==
    ASSUME CallIInv, main # "returned", NEW a, Return(a),
           child' \in {"none", "reaped"}, UNCHANGED code, UNCHANGED now,
           child # "none" \/ child' = "none"
    PROVE  CallIInv'
<1>1. ChildFollows'
  BY DEF ChildFollows, Return, Mains, Children, Waiting
<1>2. FilesOwned'
  BY DEF CallIInv, FilesOwned, Return
<1>3. Outcome'
  BY DEF CallIInv, Outcome, Return
<1>4. QED
  BY <1>1, <1>2, <1>3 DEF CallIInv

LEMMA CallerCall ==
    ASSUME CallIInv, Caller
    PROVE  CallIInv'
<1>1. CASE CreateFile
  BY <1>1, CreateFileCall
<1>2. CASE SpawnFails
  <2>1. child = "none"
    BY <1>2 DEF CallIInv, ChildFollows, SpawnFails
  <2>2. QED
    BY <1>2, <2>1, ReturnCall DEF SpawnFails, childVars
<1>3. CASE Spawn
  <2>1. ChildFollows'
    BY <1>3 DEF Spawn, GoTo, CallIInv, ChildFollows, Mains, Children, Waiting
  <2>2. FilesOwned'
    BY <1>3 DEF Spawn, GoTo, CallIInv, FilesOwned
  <2>3. Outcome'
    <3>1. now' \in 0 .. Deadline
      BY <1>3, RunnerAssumption DEF Spawn, RunnerAssumption
    <3>2. QED
      BY <1>3, <3>1 DEF Spawn, GoTo, CallIInv, Outcome
  <2>4. QED
    BY <2>1, <2>2, <2>3 DEF CallIInv
<1>4. CASE TryWait
  <2>1. ChildFollows'
    BY <1>4 DEF TryWait, GoTo, CallIInv, ChildFollows, Mains, Children, Waiting, Dead
  <2>2. FilesOwned' /\ Outcome'
    BY <1>4 DEF TryWait, GoTo, CallIInv, FilesOwned, Outcome, ChildFollows, Waiting
  <2>3. QED
    BY <2>1, <2>2 DEF CallIInv
<1>5. CASE CheckDeadline \/ Sleep
  <2>1. ChildFollows'
    BY <1>5 DEF CheckDeadline, Sleep, GoTo, CallIInv, ChildFollows, Mains, Children,
       Waiting, childVars
  <2>2. FilesOwned' /\ Outcome'
    BY <1>5 DEF CheckDeadline, Sleep, GoTo, CallIInv, FilesOwned, Outcome, childVars
  <2>3. QED
    BY <2>1, <2>2 DEF CallIInv
<1>6. CASE Kill
  <2>1. ChildFollows'
    BY <1>6 DEF Kill, GoTo, CallIInv, ChildFollows, Mains, Children, Waiting, Dead,
       childVars
  <2>2. FilesOwned' /\ Outcome'
    BY <1>6 DEF Kill, GoTo, CallIInv, FilesOwned, Outcome, childVars
  <2>3. QED
    BY <2>1, <2>2 DEF CallIInv
<1>7. CASE Wait
  BY <1>7, ReturnCall DEF Wait, Dead
<1>8. CASE Join
  <2>1. child = "reaped"
    BY <1>8 DEF CallIInv, ChildFollows, Join
  <2>2. QED
    BY <1>8, <2>1, ReturnCall DEF Join, childVars
<1>9. QED
  BY <1>1, <1>2, <1>3, <1>4, <1>5, <1>6, <1>7, <1>8 DEF Caller

LEMMA ChildCall ==
    ASSUME CallIInv,
           Read \/ ReadEof \/ Tick \/ ChildWrites \/ ChildExits \/ ProgramExits
           \/ ProgramHangs \/ ChildCrashes
    PROVE  CallIInv'
<1>1. /\ UNCHANGED callVars
      /\ child' = child \/ (child \in {"running", "hung"}
                             /\ child' \in {"hung", "exited", "signalled"})
  BY DEF Read, ReadEof, Tick, ChildWrites, ChildExits, ProgramExits, ProgramHangs,
     ChildCrashes, ProgramRuns, childVars
<1>2. ChildFollows'
  BY <1>1 DEF CallIInv, ChildFollows, callVars, Mains, Children, Waiting, Dead
<1>3. FilesOwned'
  BY <1>1 DEF CallIInv, FilesOwned, callVars
<1>4. code' \in {code, NoCode} \/ (code' \in Verdicts /\ mode = "states_at")
  BY DEF Read, ReadEof, Tick, ChildWrites, ChildExits, ProgramExits, ProgramHangs,
     ChildCrashes, ProgramRuns, childVars
<1>5. now' \in 0 .. Deadline
  BY RunnerAssumption
  DEF Read, ReadEof, Tick, ChildWrites, ChildExits, ProgramExits, ProgramHangs,
      ChildCrashes, CallIInv, Outcome, RunnerAssumption
<1>6. Outcome'
  BY <1>1, <1>4, <1>5 DEF CallIInv, Outcome, callVars
<1>7. QED
  BY <1>2, <1>3, <1>6 DEF CallIInv

LEMMA CallNext == CallIInv /\ [RunnerNext]_runnerVars => CallIInv'
<1>1. SUFFICES ASSUME CallIInv, [RunnerNext]_runnerVars PROVE CallIInv'
  OBVIOUS
<1>2. CASE UNCHANGED runnerVars
  BY <1>1, <1>2 DEF runnerVars, callVars, childVars, CallIInv, ChildFollows, FilesOwned,
     Outcome, Dead
<1>3. CASE RunnerNext
  BY <1>1, <1>3, CallerCall, ChildCall DEF RunnerNext
<1>4. QED
  BY <1>1, <1>2, <1>3

THEOREM CallInvariance == RunnerSpec => []CallIInv
<1>1. QED
  BY CallInit, CallNext, PTL DEF RunnerSpec

\* No call, not even one that timed out, leaves a Spike running, a zombie or a
\* temporary file behind, except a file whose own write failed (spike.rs: run
\* kills and waits before it bails out; TempFile::new and drop).
THEOREM NothingIsLeft == RunnerSpec => []NothingIsLeftBehind
<1>1. CallIInv => NothingIsLeftBehind
  BY FS_EmptySet, FS_Singleton, SMTT(30)
  DEF CallIInv, ChildFollows, FilesOwned, NothingIsLeftBehind
<1>2. QED
  BY <1>1, CallInvariance, PTL

--------------------------------------------------------------------------------
(* A dead Spike does not time out.                                           *)

\* From the last sleep on, the caller will find that the child is dead.
Noticed ==
    \/ main \in {"sleep", "poll"} /\ Dead
    \/ main = "join"
    \/ main = "returned" /\ answer.status # "timeout"

LEMMA NoticedStep == CallIInv /\ Noticed /\ [RunnerNext]_runnerVars => Noticed'
<1>1. SUFFICES ASSUME CallIInv, Noticed, [RunnerNext]_runnerVars PROVE Noticed'
  OBVIOUS
<1>2. CASE UNCHANGED runnerVars
  BY <1>1, <1>2 DEF runnerVars, callVars, childVars, Noticed, Dead
<1>3. CASE Caller
  <2>1. CASE main = "sleep"
    BY <1>1, <1>3, <2>1
    DEF Noticed, Caller, CreateFile, SpawnFails, Spawn, TryWait, CheckDeadline, Sleep,
        Kill, Wait, Join, GoTo, childVars, Dead
  <2>2. CASE main = "poll"
    BY <1>1, <1>3, <2>2
    DEF Noticed, Caller, CreateFile, SpawnFails, Spawn, TryWait, CheckDeadline, Sleep,
        Kill, Wait, Join, GoTo, childVars, Dead
  <2>3. CASE main = "join"
    BY <1>1, <1>3, <2>3
    DEF Noticed, Caller, CreateFile, SpawnFails, Spawn, TryWait, CheckDeadline, Sleep,
        Kill, Wait, Join, Return, Oracle!Answered, Oracle!Failure
  <2>4. main # "returned"
    BY <1>3 DEF Caller, CreateFile, SpawnFails, Spawn, TryWait, CheckDeadline, Sleep,
        Kill, Wait, Join
  <2>5. QED
    BY <1>1, <2>1, <2>2, <2>3, <2>4 DEF Noticed
<1>4. CASE Read \/ ReadEof \/ Tick \/ ChildWrites \/ ChildExits \/ ProgramExits
           \/ ProgramHangs \/ ChildCrashes
  <2>1. UNCHANGED callVars /\ (Dead => Dead')
    BY <1>4 DEF Read, ReadEof, Tick, ChildWrites, ChildExits, ProgramExits,
       ProgramHangs, ChildCrashes, ProgramRuns, childVars, Dead
  <2>2. QED
    BY <1>1, <2>1 DEF Noticed, callVars
<1>5. QED
  BY <1>1, <1>2, <1>3, <1>4 DEF RunnerNext

\* A Spike that was dead when the caller last went to sleep is not said to have
\* timed out (spike.rs: run polls before it looks at the clock).
THEOREM TheDeadDoNotTimeOut == RunnerSpec => DeathBeatsTheDeadline
<1>1. main = "sleep" /\ Dead => Noticed
  BY DEF Noticed
<1>2. CallIInv /\ Noticed => answer.status # "timeout"
  BY DEF CallIInv, Outcome, Noticed, Oracle!Pending, Oracle!Answered
<1>3. QED
  BY <1>1, <1>2, NoticedStep, CallInvariance, PTL DEF RunnerSpec, DeathBeatsTheDeadline
--------------------------------------------------------------------------------
(* What is written, and where.                                               *)

LEMMA ScriptInPlace ==
    /\ Script \in Seq(Token)
    /\ \A l \in 1 .. Len(Script) : InPlace(Script[l], l)
<1>1. /\ NumPcs \in Nat /\ NumFregs \in Nat
      /\ Len(Dumps) = 2 * NumPcs /\ DOMAIN Dumps = 1 .. 2 * NumPcs
  BY RunnerAssumption DEF RunnerAssumption, Dumps
<1>2. ASSUME NEW k \in 1 .. 2 * NumPcs
      PROVE  Dumps[k] \in Token /\ InPlace(Dumps[k], k)
  <2>1. k \in Nat /\ k <= 2 * NumPcs
    BY <1>1, <1>2
  <2>2. CASE k % 2 = 1
    <3>1. Dumps[k] = <<"zero", (k + 1) \div 2>>
      BY <2>2 DEF Dumps
    <3>2. (k + 1) \div 2 \in Nat /\ k = 2 * ((k + 1) \div 2) - 1
      BY <2>1, <2>2
    <3>3. QED
      BY <2>1, <3>1, <3>2 DEF Token, InPlace
  <2>3. CASE k % 2 # 1
    <3>1. Dumps[k] = <<"rest", k \div 2>>
      BY <2>3 DEF Dumps
    <3>2. k \div 2 \in Nat
      BY <2>1
    <3>3. QED
      BY <3>1, <3>2 DEF Token, InPlace
  <2>4. QED
    BY <2>2, <2>3
<1>3. Dumps \in Seq(Token)
  <2>1. Dumps \in [1 .. 2 * NumPcs -> Token]
    BY <1>2 DEF Dumps
  <2>2. QED
    BY <1>1, <2>1
<1>4. [k \in 1 .. NumFregs |-> <<"freg", k>>] \in Seq(Token)
  <2>1. [k \in 1 .. NumFregs |-> <<"freg", k>>] \in [1 .. NumFregs -> Token]
    BY <1>1 DEF Token
  <2>2. QED
    BY <1>1, <2>1
<1>5. Script \in Seq(Token)
  BY <1>3, <1>4 DEF Script
<1>6. ASSUME NEW l \in 1 .. Len(Script)
      PROVE  InPlace(Script[l], l)
  <2>1. Len(Script) = 2 * NumPcs + NumFregs
    BY <1>1, <1>3, <1>4 DEF Script
  <2>2. CASE l <= 2 * NumPcs
    <3>1. Script[l] = Dumps[l] /\ l \in 1 .. 2 * NumPcs
      BY <1>1, <1>3, <1>4, <2>1, <2>2 DEF Script
    <3>2. QED
      BY <1>2, <3>1
  <2>3. CASE ~ (l <= 2 * NumPcs)
    <3>1. Script[l] = <<"freg", l - 2 * NumPcs>>
      BY <1>1, <1>3, <1>4, <2>1, <2>3 DEF Script
    <3>2. QED
      BY <3>1 DEF InPlace
  <2>4. QED
    BY <2>2, <2>3
<1>7. QED
  BY <1>5, <1>6

LEMMA Message == << <<"msg", 0>> >> \in Seq(Token) /\ ~ (<<"msg", 0>>[1] = "zero")
  BY DEF Token

LEMMA StreamInit == RunnerInit => Streams /\ DumpsInPlace
  BY RunnerAssumption DEF RunnerAssumption, RunnerInit, Streams, DumpsInPlace

LEMMA SpawnStream ==
    ASSUME RunnerIInv, Spawn
    PROVE  Streams' /\ DumpsInPlace'
<1>1. /\ output' = <<>> /\ pipe' = <<>> /\ child' = "running"
      /\ todo' \in {<<>>, Script, << <<"msg", 0>> >>}
  BY DEF Spawn, RunnerIInv, CallIInv, ChildFollows, Streams
<1>2. todo' \in Seq(Token) /\ \A l \in 1 .. Len(todo') : InPlace(todo'[l], l)
  <2>1. CASE todo' = Script
    BY <2>1, ScriptInPlace
  <2>2. CASE todo' = <<>>
    BY <2>2
  <2>3. CASE todo' = << <<"msg", 0>> >>
    BY <2>3, Message DEF InPlace
  <2>4. QED
    BY <1>1, <2>1, <2>2, <2>3
<1>3. Streams'
  BY <1>1, <1>2, RunnerAssumption DEF Streams, RunnerAssumption
<1>4. DumpsInPlace'
  <2>1. Len(output') = 0 /\ Len(pipe') = 0
    BY <1>1
  <2>2. \A l \in 1 .. Len(todo') : InPlace(todo'[l], Len(output') + Len(pipe') + l)
    BY <1>2, <2>1
  <2>3. QED
    BY <2>1, <2>2 DEF DumpsInPlace
<1>5. QED
  BY <1>3, <1>4

\* Every token of a stream that starts after `base` others is in its place.
Along(s, base) == \A l \in 1 .. Len(s) : InPlace(s[l], base + l)

\* A token that moves from one stream to the next keeps its place.
LEMMA Moved ==
    ASSUME NEW S, NEW s \in Seq(S), NEW t \in Seq(S), t # <<>>,
           NEW base \in Nat, Along(s, base), Along(t, base + Len(s))
    PROVE  /\ Append(s, Head(t)) \in Seq(S) /\ Tail(t) \in Seq(S)
           /\ Len(Append(s, Head(t))) = Len(s) + 1 /\ Len(Tail(t)) = Len(t) - 1
           /\ Along(Append(s, Head(t)), base)
           /\ Along(Tail(t), base + (Len(s) + 1))
<1>0. /\ \A l \in 1 .. Len(s) : InPlace(s[l], base + l)
      /\ \A l \in 1 .. Len(t) : InPlace(t[l], base + Len(s) + l)
  BY DEF Along
<1>1. /\ Append(s, Head(t)) \in Seq(S) /\ Tail(t) \in Seq(S)
      /\ Len(Append(s, Head(t))) = Len(s) + 1 /\ Len(Tail(t)) = Len(t) - 1
      /\ Len(s) \in Nat /\ Len(t) \in Nat /\ Len(t) >= 1
  OBVIOUS
<1>2. ASSUME NEW l \in 1 .. Len(s) + 1
      PROVE  InPlace(Append(s, Head(t))[l], base + l)
  <2>1. CASE l <= Len(s)
    <3>1. Append(s, Head(t))[l] = s[l] /\ l \in 1 .. Len(s)
      BY <1>1, <2>1
    <3>2. QED
      BY <1>0, <3>1
  <2>2. CASE l = Len(s) + 1
    <3>1. Append(s, Head(t))[l] = t[1]
      BY <1>1, <2>2
    <3>2. 1 \in 1 .. Len(t) /\ base + Len(s) + 1 = base + l
      BY <1>1, <2>2
    <3>3. QED
      BY <1>0, <3>1, <3>2
  <2>3. QED
    BY <1>1, <2>1, <2>2
<1>3. ASSUME NEW l \in 1 .. Len(t) - 1
      PROVE  InPlace(Tail(t)[l], base + (Len(s) + 1) + l)
  <2>1. Tail(t)[l] = t[l + 1] /\ l + 1 \in 1 .. Len(t)
    BY <1>1
  <2>2. base + Len(s) + (l + 1) = base + (Len(s) + 1) + l
    BY <1>1
  <2>3. QED
    BY <1>0, <2>1, <2>2
<1>4. QED
  BY <1>1, <1>2, <1>3 DEF Along
LEMMA ReadStream ==
    ASSUME RunnerIInv, Read
    PROVE  Streams' /\ DumpsInPlace'
<1>1. /\ output \in Seq(Token) /\ pipe \in Seq(Token) /\ todo \in Seq(Token)
      /\ pipe # <<>> /\ child # "none" /\ PipeSize \in Nat /\ Len(pipe) <= PipeSize
      /\ output' = Append(output, Head(pipe)) /\ pipe' = Tail(pipe)
      /\ todo' = todo /\ child' = child
  BY RunnerAssumption DEF RunnerAssumption, Read, RunnerIInv, Streams, childVars
<1>2. Along(output, 0) /\ Along(pipe, 0 + Len(output))
  BY <1>1 DEF RunnerIInv, DumpsInPlace, Along
<1>3. /\ output' \in Seq(Token) /\ pipe' \in Seq(Token)
      /\ Len(output') = Len(output) + 1 /\ Len(pipe') = Len(pipe) - 1
      /\ Along(output', 0) /\ Along(pipe', 0 + (Len(output) + 1))
  BY <1>1, <1>2, Moved
<1>4. Streams'
  BY <1>1, <1>3 DEF Streams
<1>5. Len(output') + Len(pipe') = Len(output) + Len(pipe)
  BY <1>1, <1>3
<1>6. \A l \in 1 .. Len(todo') : InPlace(todo'[l], Len(output') + Len(pipe') + l)
  BY <1>1, <1>5 DEF RunnerIInv, DumpsInPlace
<1>7. \A l \in 1 .. Len(output') : InPlace(output'[l], l)
  BY <1>1, <1>3 DEF Along
<1>8. \A l \in 1 .. Len(pipe') : InPlace(pipe'[l], Len(output') + l)
  BY <1>1, <1>3 DEF Along
<1>9. QED
  BY <1>4, <1>6, <1>7, <1>8 DEF DumpsInPlace

LEMMA WriteStream ==
    ASSUME RunnerIInv, ChildWrites
    PROVE  Streams' /\ DumpsInPlace'
<1>1. /\ output \in Seq(Token) /\ pipe \in Seq(Token) /\ todo \in Seq(Token)
      /\ todo # <<>> /\ child # "none" /\ PipeSize \in Nat /\ Len(pipe) < PipeSize
      /\ pipe' = Append(pipe, Head(todo)) /\ todo' = Tail(todo)
      /\ output' = output /\ child' = child
  BY RunnerAssumption DEF RunnerAssumption, ChildWrites, RunnerIInv, Streams, readerVars
<1>2. /\ \A l \in 1 .. Len(pipe) : InPlace(pipe[l], Len(output) + l)
      /\ \A l \in 1 .. Len(todo) : InPlace(todo[l], Len(output) + Len(pipe) + l)
  BY DEF RunnerIInv, DumpsInPlace
<1>3. PICK base \in Nat : base = Len(output)
  BY <1>1
<1>4. /\ pipe' \in Seq(Token) /\ todo' \in Seq(Token)
      /\ Len(pipe') = Len(pipe) + 1 /\ Len(todo') = Len(todo) - 1
      /\ \A l \in 1 .. Len(pipe) + 1 : InPlace(pipe'[l], base + l)
      /\ \A l \in 1 .. Len(todo) - 1 : InPlace(todo'[l], base + (Len(pipe) + 1) + l)
  <2>1. /\ \A l \in 1 .. Len(pipe) : InPlace(pipe[l], base + l)
        /\ \A l \in 1 .. Len(todo) : InPlace(todo[l], base + Len(pipe) + l)
    BY <1>2, <1>3
  <2>2. Along(pipe, base) /\ Along(todo, base + Len(pipe))
    BY <2>1 DEF Along
  <2>3. /\ Append(pipe, Head(todo)) \in Seq(Token) /\ Tail(todo) \in Seq(Token)
        /\ Len(Append(pipe, Head(todo))) = Len(pipe) + 1
        /\ Len(Tail(todo)) = Len(todo) - 1
        /\ Along(Append(pipe, Head(todo)), base)
        /\ Along(Tail(todo), base + (Len(pipe) + 1))
    BY <1>1, <1>3, <2>2, Moved
  <2>4. QED
    BY <1>1, <2>3 DEF Along
<1>5. Streams'
  BY <1>1, <1>4 DEF Streams
<1>6. \A l \in 1 .. Len(output') : InPlace(output'[l], l)
  BY <1>1 DEF RunnerIInv, DumpsInPlace
<1>7. QED
  BY <1>1, <1>3, <1>5, <1>6, <1>4 DEF DumpsInPlace

\* The program ended the run: nothing but a message follows.
LEMMA ExitStream ==
    ASSUME RunnerIInv, ProgramExits
    PROVE  Streams' /\ DumpsInPlace'
<1>1. /\ output' = output /\ pipe' = pipe /\ child' = child
      /\ todo' = << <<"msg", 0>> >>
  BY DEF ProgramExits, readerVars
<1>2. \A l \in 1 .. Len(todo') : InPlace(todo'[l], Len(output') + Len(pipe') + l)
  BY <1>1, Message DEF InPlace
<1>3. QED
  BY <1>1, <1>2, Message DEF RunnerIInv, Streams, DumpsInPlace

LEMMA RunnerInitIInv == RunnerInit => RunnerIInv
  BY CallInit, StreamInit DEF RunnerIInv

LEMMA RunnerNextIInv == RunnerIInv /\ [RunnerNext]_runnerVars => RunnerIInv'
<1>1. SUFFICES ASSUME RunnerIInv, [RunnerNext]_runnerVars
               PROVE  Streams' /\ DumpsInPlace'
  BY CallNext DEF RunnerIInv
<1>2. CASE Spawn
  BY <1>1, <1>2, SpawnStream
<1>3. CASE Read
  BY <1>1, <1>3, ReadStream
<1>4. CASE ChildWrites
  BY <1>1, <1>4, WriteStream
<1>5. CASE ProgramExits
  BY <1>1, <1>5, ExitStream
<1>6. CASE \/ UNCHANGED runnerVars \/ CreateFile \/ SpawnFails \/ TryWait \/ CheckDeadline
           \/ Sleep \/ Kill \/ Wait \/ Join \/ ReadEof \/ Tick \/ ChildExits
           \/ ProgramHangs \/ ChildCrashes
  <2>1. UNCHANGED <<output, pipe, todo>> /\ (child' = "none" => child = "none")
    BY <1>6
    DEF runnerVars, childVars, readerVars, CreateFile, SpawnFails, TryWait,
        CheckDeadline, Sleep, Kill, Wait, Join, ReadEof, Tick, ChildExits,
        ProgramHangs, ChildCrashes
  <2>2. QED
    BY <1>1, <2>1 DEF RunnerIInv, Streams, DumpsInPlace
<1>7. QED
  BY <1>1, <1>2, <1>3, <1>4, <1>5, <1>6 DEF RunnerNext, Caller

\* The inductive invariant (spike.rs: states_at, run, TempFile).
THEOREM RunnerInvariance == RunnerSpec => []RunnerIInv
<1>1. QED
  BY RunnerInitIInv, RunnerNextIInv, PTL DEF RunnerSpec

\* The state of a call is well typed.
THEOREM RunnerTyping == RunnerSpec => []RunnerTypeOK
<1>1. RunnerIInv => RunnerTypeOK
  BY DEF RunnerIInv, CallIInv, ChildFollows, FilesOwned, Outcome, Streams, Mains,
     Children, RunnerTypeOK
<1>2. QED
  BY <1>1, RunnerInvariance, PTL

--------------------------------------------------------------------------------
(* The dumps are those of the PCs asked for.                                 *)

\* The places of the first n dumps.
Places(n) == {2 * k - 1 : k \in 1 .. n}

LEMMA CountPlaces ==
    ASSUME NEW n \in Nat
    PROVE  IsFiniteSet(Places(n)) /\ Cardinality(Places(n)) = n
<1> DEFINE f == [k \in 1 .. n |-> 2 * k - 1]
<1>1. f \in [1 .. n -> Places(n)]
  BY DEF Places
<1>2. \A k, l \in 1 .. n : f[k] = f[l] => k = l
  OBVIOUS
<1>3. \A p \in Places(n) : \E k \in 1 .. n : f[k] = p
  BY DEF Places
<1>4. f \in Bijection(1 .. n, Places(n))
  <2> HIDE DEF f
  <2>1. f \in Injection(1 .. n, Places(n))
    BY <1>1, <1>2 DEF Injection, IsInjective
  <2>2. f \in Surjection(1 .. n, Places(n))
    BY <1>1, <1>3 DEF Surjection
  <2>3. QED
    BY <2>1, <2>2 DEF Bijection
<1>5. ExistsBijection(1 .. n, Places(n))
  BY <1>4 DEF ExistsBijection
<1>6. IsFiniteSet(1 .. n) /\ Cardinality(1 .. n) = n
  BY FS_Interval
<1>7. QED
  BY <1>5, <1>6, FS_Bijection

LEMMA StartsInPlace ==
    ASSUME Streams, DumpsInPlace, NEW j \in Starts
    PROVE  /\ output[j][2] \in 1 .. NumPcs
           /\ j = 2 * output[j][2] - 1
<1>1. /\ j \in 1 .. Len(output) /\ output[j][1] = "zero" /\ output[j] \in Token
      /\ NumPcs \in Nat
  BY RunnerAssumption DEF RunnerAssumption, Starts, Streams
<1>2. output[j][2] \in Nat
  BY <1>1 DEF Token
<1>3. j <= 2 * NumPcs /\ j = 2 * output[j][2] - 1 /\ j \in Nat /\ j >= 1
  BY <1>1 DEF DumpsInPlace, InPlace
<1>4. QED
  BY <1>1, <1>2, <1>3

LEMMA AllParsed ==
    ASSUME Streams, DumpsInPlace, Cardinality(Starts) = NumPcs
    PROVE  Parsed = [i \in 1 .. NumPcs |-> i]
<1>1. NumPcs \in Nat
  BY RunnerAssumption DEF RunnerAssumption
<1>2. Starts = Places(NumPcs)
  <2>1. Starts \subseteq Places(NumPcs)
    BY StartsInPlace DEF Places
  <2>2. QED
    BY <1>1, <2>1, CountPlaces, FS_Subset
<1>3. ASSUME NEW i \in 1 .. NumPcs
      PROVE  {s \in Starts : s <= 2 * i - 1} = Places(i)
  BY <1>1, <1>2 DEF Places
<1>4. ASSUME NEW i \in 1 .. NumPcs
      PROVE  Cardinality({s \in Starts : s <= 2 * i - 1}) = i
  BY <1>1, <1>3, CountPlaces
<1>5. ASSUME NEW i \in 1 .. NumPcs
      PROVE  output[CHOOSE j \in Starts :
                        Cardinality({s \in Starts : s <= j}) = i][2] = i
  <2> DEFINE P(j) == j \in Starts /\ Cardinality({s \in Starts : s <= j}) = i
  <2>1. P(2 * i - 1)
    BY <1>2, <1>4 DEF Places
  <2>2. ASSUME NEW j, P(j) PROVE j = 2 * i - 1
    <3>1. PICK k \in 1 .. NumPcs : j = 2 * k - 1
      BY <1>2, <2>2 DEF Places
    <3>2. k = i
      BY <1>4, <2>2, <3>1
    <3>3. QED
      BY <3>1, <3>2
  <2>3. (CHOOSE j \in Starts : Cardinality({s \in Starts : s <= j}) = i) = 2 * i - 1
    BY <2>1, <2>2
  <2>4. 2 * i - 1 \in Starts
    BY <2>1
  <2>5. output[2 * i - 1][2] \in 1 .. NumPcs /\ 2 * i - 1 = 2 * output[2 * i - 1][2] - 1
    BY <2>4, StartsInPlace
  <2>6. output[2 * i - 1][2] = i
    BY <1>1, <2>5
  <2>7. QED
    BY <2>3, <2>6
<1>6. QED
  BY <1>5 DEF Parsed

--------------------------------------------------------------------------------
(* The refinement.                                                           *)

LEMMA OracleInitial == RunnerInit => Oracle!OracleInit
  BY RunnerAssumption DEF RunnerAssumption, RunnerInit, Oracle!OracleInit

\* A return that gives the truth, or an error, is the oracle's one step.
LEMMA OracleReturn ==
    ASSUME RunnerIInv, main # "returned", NEW a, Return(a),
           a \in {Oracle!Truth} \cup {Oracle!Failure(why) : why \in Oracle!Failures}
    PROVE  Oracle!Answer
  BY DEF RunnerIInv, CallIInv, Outcome, Return, Oracle!Answer

LEMMA OracleStep == RunnerIInv /\ [RunnerNext]_runnerVars => [Oracle!Answer]_(Oracle!oracleVars)
<1>1. SUFFICES ASSUME RunnerIInv, RunnerNext
               PROVE  Oracle!Answer \/ UNCHANGED <<mode, verdict, answer>>
  BY DEF runnerVars, callVars, Oracle!oracleVars
<1>2. ASSUME NEW why \in {"files", "spawn", "timeout", "signal", "unreached"}
      PROVE  Oracle!Failure(why) \in {Oracle!Failure(w) : w \in Oracle!Failures}
  BY DEF Oracle!Failures
<1>3. CASE CreateFile
  <2>1. CASE Return(Oracle!Failure("files"))
    BY <1>1, <1>2, <1>3, <2>1, OracleReturn DEF CreateFile
  <2>2. CASE main' = "returned" /\ answer' = Oracle!Failure("files")
             /\ UNCHANGED <<mode, verdict>>
    BY <1>1, <1>2, <1>3, <2>2
    DEF CreateFile, Oracle!Answer, RunnerIInv, CallIInv, Outcome
  <2>3. QED
    BY <1>3, <2>1, <2>2 DEF CreateFile
<1>4. CASE SpawnFails \/ Wait
  BY <1>1, <1>2, <1>4, OracleReturn DEF SpawnFails, Wait
<1>5. CASE Join
  <2>1. CASE code = NoCode
    BY <1>1, <1>2, <1>5, <2>1, OracleReturn DEF Join
  <2>2. CASE code # NoCode /\ mode = "exit_code"
    <3>1. code = verdict
      BY <1>1, <1>5, <2>2 DEF Join, RunnerIInv, CallIInv, Outcome, ChildFollows
    <3>2. Oracle!Answered("ok", <<>>, code) = Oracle!Truth
      BY <2>2, <3>1 DEF Oracle!Truth
    <3>3. QED
      BY <1>1, <1>5, <2>2, <3>2, OracleReturn DEF Join
  <2>3. CASE code # NoCode /\ mode # "exit_code" /\ ReachedAll
    <3>1. mode = "states_at"
      BY <1>1, <2>3 DEF RunnerIInv, CallIInv, Outcome
    <3>2. Parsed = [i \in 1 .. NumPcs |-> i]
      BY <1>1, <2>3, AllParsed DEF ReachedAll, RunnerIInv
    <3>3. Oracle!Answered("ok", Parsed, 0) = Oracle!Truth
      BY <3>1, <3>2 DEF Oracle!Truth
    <3>4. QED
      BY <1>1, <1>5, <2>3, <3>3, OracleReturn DEF Join
  <2>4. CASE code # NoCode /\ mode # "exit_code" /\ ~ ReachedAll
    BY <1>1, <1>2, <1>5, <2>4, OracleReturn DEF Join
  <2>5. QED
    BY <2>1, <2>2, <2>3, <2>4
<1>6. CASE Spawn \/ TryWait \/ CheckDeadline \/ Sleep \/ Kill
  BY <1>6 DEF Spawn, TryWait, CheckDeadline, Sleep, Kill, GoTo
<1>7. CASE Read \/ ReadEof \/ Tick \/ ChildWrites \/ ChildExits \/ ProgramExits
           \/ ProgramHangs \/ ChildCrashes
  BY <1>7 DEF Read, ReadEof, Tick, ChildWrites, ChildExits, ProgramExits, ProgramHangs,
     ChildCrashes, callVars
<1>8. QED
  BY <1>1, <1>3, <1>4, <1>5, <1>6, <1>7 DEF RunnerNext, Caller

\* A call of Spike keeps the oracle's promise for every number of PCs, wherever
\* its output is cut and whenever it ends (spike.rs: states_at, exit_code).
THEOREM RunnerRefinesOracle == RunnerSpec => ImplementsOracle
<1>1. QED
  BY OracleInitial, OracleStep, RunnerInvariance, PTL
  DEF RunnerSpec, ImplementsOracle, Oracle!OracleSpec

--------------------------------------------------------------------------------
(* A Spike that is not cut short is heard to the end.                        *)

\* As long as nothing ends the run early, what was read, what is in the pipe and
\* what is still to be written are together the whole script.
WholeScript ==
    mode = "states_at" /\ child # "none" /\ code = 0 =>
        (output \o pipe) \o todo = Script

\* A child that exited has written everything, and the reader ends only when
\* there is nothing more to read.
Ended ==
    /\ child = "exited" => todo = <<>>
    /\ child = "signalled" => code = NoCode
    /\ child = "reaped" => todo = <<>> \/ code = NoCode
    /\ reader = "eof" => pipe = <<>> /\ child \in {"exited", "signalled", "reaped"}

DeliveryIInv == RunnerIInv /\ WholeScript /\ Ended /\ CompleteRunsAreDelivered

LEMMA ScriptIs ==
    /\ NumPcs \in Nat /\ NumPcs >= 1 /\ NumFregs \in Nat
    /\ Len(Script) = 2 * NumPcs + NumFregs
    /\ \A k \in 1 .. NumPcs :
           Script[2 * k - 1] = <<"zero", k>> /\ Script[2 * k] = <<"rest", k>>
    /\ \A l \in 2 * NumPcs + 1 .. 2 * NumPcs + NumFregs :
           Script[l] = <<"freg", l - 2 * NumPcs>>
<1>1. NumPcs \in Nat /\ NumPcs >= 1 /\ NumFregs \in Nat
  BY RunnerAssumption DEF RunnerAssumption
<1>2. /\ Len(Dumps) = 2 * NumPcs
      /\ \A k \in 1 .. NumPcs :
             Dumps[2 * k - 1] = <<"zero", k>> /\ Dumps[2 * k] = <<"rest", k>>
  <2>1. Len(Dumps) = 2 * NumPcs
    BY <1>1 DEF Dumps
  <2>2. ASSUME NEW k \in 1 .. NumPcs
        PROVE  Dumps[2 * k - 1] = <<"zero", k>> /\ Dumps[2 * k] = <<"rest", k>>
    <3>1. /\ 2 * k - 1 \in 1 .. 2 * NumPcs /\ 2 * k \in 1 .. 2 * NumPcs
          /\ (2 * k - 1) % 2 = 1 /\ (2 * k) % 2 = 0
          /\ ((2 * k - 1) + 1) \div 2 = k /\ (2 * k) \div 2 = k
      BY <1>1
    <3>2. QED
      BY <3>1 DEF Dumps
  <2>3. QED
    BY <2>1, <2>2
<1> DEFINE fregs == [k \in 1 .. NumFregs |-> <<"freg", k>>]
<1>3. Dumps \in Seq(Token) /\ fregs \in Seq(Token)
  <2>1. \A l \in 1 .. 2 * NumPcs : Dumps[l] \in Token
    BY <1>1 DEF Dumps, Token
  <2>2. Dumps \in [1 .. 2 * NumPcs -> Token]
    BY <2>1 DEF Dumps
  <2>3. fregs \in [1 .. NumFregs -> Token]
    BY <1>1 DEF Token
  <2>4. QED
    BY <1>1, <2>2, <2>3
<1>4. Len(fregs) = NumFregs
  BY <1>1
<1>5. /\ Len(Script) = Len(Dumps) + Len(fregs)
      /\ \A l \in 1 .. Len(Dumps) + Len(fregs) :
             Script[l] = IF l <= Len(Dumps) THEN Dumps[l] ELSE fregs[l - Len(Dumps)]
  BY <1>3, ConcatProperties DEF Script
<1>6. ASSUME NEW k \in 1 .. NumPcs
      PROVE  Script[2 * k - 1] = <<"zero", k>> /\ Script[2 * k] = <<"rest", k>>
  <2>1. /\ 2 * k - 1 \in 1 .. Len(Dumps) + Len(fregs) /\ 2 * k - 1 <= Len(Dumps)
        /\ 2 * k \in 1 .. Len(Dumps) + Len(fregs) /\ 2 * k <= Len(Dumps)
    BY <1>1, <1>2, <1>4
  <2> HIDE DEF fregs
  <2>2. QED
    BY <1>2, <1>5, <2>1
<1>7. ASSUME NEW l \in 2 * NumPcs + 1 .. 2 * NumPcs + NumFregs
      PROVE  Script[l] = <<"freg", l - 2 * NumPcs>>
  <2>1. /\ l \in 1 .. Len(Dumps) + Len(fregs) /\ ~ (l <= Len(Dumps))
        /\ l - Len(Dumps) \in 1 .. NumFregs /\ l - Len(Dumps) = l - 2 * NumPcs
    BY <1>1, <1>2, <1>4
  <2>2. Script[l] = fregs[l - Len(Dumps)]
    BY <1>5, <2>1
  <2>3. QED
    BY <2>1, <2>2
<1>8. QED
  BY <1>1, <1>2, <1>4, <1>5, <1>6, <1>7

\* A whole script is parsed.
LEMMA ScriptIsParsed ==
    ASSUME Streams, DumpsInPlace, output = Script
    PROVE  ReachedAll
<1>1. /\ NumPcs \in Nat /\ NumPcs >= 1 /\ NumFregs \in Nat
      /\ Len(output) = 2 * NumPcs + NumFregs /\ DOMAIN output = 1 .. Len(output)
  BY ScriptIs DEF Streams
<1>2. ASSUME NEW k \in 1 .. NumPcs
      PROVE  output[2 * k - 1] = <<"zero", k>> /\ output[2 * k] = <<"rest", k>>
  BY ScriptIs
<1>3. Starts = Places(NumPcs)
  <2>1. Starts \subseteq Places(NumPcs)
    BY StartsInPlace DEF Places
  <2>2. ASSUME NEW k \in 1 .. NumPcs PROVE 2 * k - 1 \in Starts
    <3>1. 2 * k - 1 \in 1 .. Len(output)
      BY <1>1
    <3>2. output[2 * k - 1][1] = "zero"
      BY <1>2
    <3>3. QED
      BY <1>1, <3>1, <3>2 DEF Starts
  <2>3. QED
    BY <2>1, <2>2 DEF Places
<1>4. Cardinality(Starts) = NumPcs
  BY <1>1, <1>3, CountPlaces
<1>5. ASSUME NEW j \in Starts PROVE Parses(j)
  <2>1. PICK k \in 1 .. NumPcs : j = 2 * k - 1
    BY <1>3 DEF Places
  <2>2. \E l \in Segment(j) : output[l][1] = "rest"
    <3>1. 2 * k \in j .. Len(output)
      BY <1>1, <2>1
    <3>2. output[2 * k][1] = "rest"
      BY <1>2
    <3>3. ASSUME NEW s \in Starts, s > j PROVE 2 * k < s
      <4>1. PICK m \in 1 .. NumPcs : s = 2 * m - 1
        BY <1>3 DEF Places
      <4>2. QED
        BY <1>1, <2>1, <3>3, <4>1
    <3>4. QED
      BY <3>1, <3>2, <3>3 DEF Segment
  <2>3. ASSUME \A s \in Starts : s <= j
        PROVE  Cardinality(FregsIn(j)) = NumFregs
    <3>1. j = 2 * NumPcs - 1
      <4>1. 2 * NumPcs - 1 \in Starts
        BY <1>1, <1>3 DEF Places
      <4>2. 2 * NumPcs - 1 <= j
        BY <2>3, <4>1
      <4>3. QED
        BY <1>1, <2>1, <4>2
    <3>2. Segment(j) = j .. Len(output)
      <4>1. ASSUME NEW s \in Starts, s > j PROVE FALSE
        <5>1. s <= j /\ s \in Nat
          BY <1>1, <2>3 DEF Starts
        <5>2. QED
          BY <1>1, <3>1, <4>1, <5>1
      <4>2. QED
        BY <4>1 DEF Segment
    <3>3. output[j][1] = "zero" /\ output[j + 1][1] = "rest"
      <4>1. NumPcs \in 1 .. NumPcs /\ j + 1 = 2 * NumPcs
        BY <1>1, <3>1
      <4>2. /\ output[2 * NumPcs - 1] = <<"zero", NumPcs>>
            /\ output[2 * NumPcs] = <<"rest", NumPcs>>
        BY <1>2, <4>1
      <4>3. QED
        BY <3>1, <4>1, <4>2
    <3>4. ASSUME NEW l \in 2 * NumPcs + 1 .. 2 * NumPcs + NumFregs
          PROVE  output[l][1] = "freg"
      <4>1. output[l] = <<"freg", l - 2 * NumPcs>>
        BY ScriptIs
      <4>2. QED
        BY <4>1
    <3>5. FregsIn(j) = 2 * NumPcs + 1 .. 2 * NumPcs + NumFregs
      <4>1. ASSUME NEW l \in FregsIn(j)
            PROVE  l \in 2 * NumPcs + 1 .. 2 * NumPcs + NumFregs
        <5>1. l \in j .. Len(output) /\ output[l][1] = "freg"
          BY <3>2 DEF FregsIn
        <5>2. l # j /\ l # j + 1
          BY <3>3, <5>1
        <5>3. QED
          BY <1>1, <3>1, <5>1, <5>2
      <4>2. ASSUME NEW l \in 2 * NumPcs + 1 .. 2 * NumPcs + NumFregs
            PROVE  l \in FregsIn(j)
        <5>1. l \in j .. Len(output)
          BY <1>1, <3>1
        <5>2. QED
          BY <3>2, <3>4, <5>1 DEF FregsIn
      <4>3. QED
        BY <4>1, <4>2
    <3>6. QED
      BY <1>1, <3>5, FS_Interval
  <2>4. QED
    BY <2>2, <2>3 DEF Parses
<1>6. QED
  BY <1>4, <1>5 DEF ReachedAll

\* A token that moves from one stream to the next leaves their content as it was.
LEMMA Handed ==
    ASSUME NEW S, NEW s \in Seq(S), NEW t \in Seq(S), t # <<>>
    PROVE  Append(s, Head(t)) \o Tail(t) = s \o t
<1>1. Head(t) \in S /\ Tail(t) \in Seq(S) /\ <<Head(t)>> \in Seq(S)
  OBVIOUS
<1>2. Append(s, Head(t)) = s \o <<Head(t)>>
  BY <1>1, AppendIsConcat
<1>3. <<Head(t)>> \o Tail(t) = t
  OBVIOUS
<1>4. (s \o <<Head(t)>>) \o Tail(t) = s \o (<<Head(t)>> \o Tail(t))
  BY <1>1, ConcatAssociative
<1>5. QED
  BY <1>2, <1>3, <1>4

LEMMA HandedAfter ==
    ASSUME NEW r \in Seq(Token), NEW s \in Seq(Token), NEW t \in Seq(Token), t # <<>>
    PROVE  (r \o Append(s, Head(t))) \o Tail(t) = (r \o s) \o t
<1>0. Append(s, Head(t)) \in Seq(Token) /\ Tail(t) \in Seq(Token)
  OBVIOUS
<1> DEFINE a == Append(s, Head(t))
           b == Tail(t)
<1>1. a \in Seq(Token)
  BY <1>0
<1>2. b \in Seq(Token)
  BY <1>0
<1>3. a \o b = s \o t
  BY Handed
<1> HIDE DEF a, b
<1>4. (r \o a) \o b = r \o (a \o b)
  BY <1>1, <1>2, ConcatAssociative
<1>5. (r \o s) \o t = r \o (s \o t)
  BY ConcatAssociative
<1>6. (r \o a) \o b = (r \o s) \o t
  BY <1>3, <1>4, <1>5
<1>7. QED
  BY <1>6 DEF a, b

LEMMA WholeScriptStep ==
    ASSUME RunnerIInv, WholeScript, RunnerNext
    PROVE  WholeScript'
<1>1. /\ output \in Seq(Token) /\ pipe \in Seq(Token) /\ todo \in Seq(Token)
      /\ child = "none" => output = <<>> /\ pipe = <<>>
      /\ main = "spawn" => child = "none"
      /\ Verdicts \subseteq Nat
  BY RunnerAssumption DEF RunnerAssumption, RunnerIInv, CallIInv, ChildFollows, Streams
<1>2. CASE Spawn
  <2>1. /\ output' = <<>> /\ pipe' = <<>> /\ mode' = mode
        /\ mode = "states_at" => todo' = Script
    BY <1>1, <1>2 DEF Spawn, GoTo
  <2>2. <<>> \o <<>> = <<>> /\ <<>> \o Script = Script
    <3>1. Script \in Seq(Token)
      BY ScriptInPlace
    <3>2. QED
      BY <3>1, ConcatEmptySeq
  <2>3. QED
    BY <2>1, <2>2 DEF WholeScript
<1>3. CASE Read
  <2>1. /\ output' = Append(output, Head(pipe)) /\ pipe' = Tail(pipe) /\ pipe # <<>>
        /\ UNCHANGED <<mode, child, code, todo>>
    BY <1>3 DEF Read, callVars, childVars
  <2>2. output' \o pipe' = output \o pipe
    BY <1>1, <2>1, Handed
  <2>3. QED
    BY <2>1, <2>2 DEF WholeScript
<1>4. CASE ChildWrites
  <2>1. /\ pipe' = Append(pipe, Head(todo)) /\ todo' = Tail(todo) /\ todo # <<>>
        /\ UNCHANGED <<mode, child, code, output>>
    BY <1>4 DEF ChildWrites, callVars, readerVars
  <2>2. (output \o pipe') \o todo' = (output \o pipe) \o todo
    <3>1. /\ output \in Seq(Token) /\ pipe \in Seq(Token) /\ todo \in Seq(Token)
          /\ todo # <<>>
      BY <1>1, <2>1
    <3>2. (output \o Append(pipe, Head(todo))) \o Tail(todo) = (output \o pipe) \o todo
      BY ONLY <3>1, HandedAfter
    <3>3. QED
      BY <2>1, <3>2
  <2>3. QED
    BY <2>1, <2>2 DEF WholeScript
<1>5. CASE ProgramExits
  BY <1>5 DEF ProgramExits, WholeScript
<1>6. CASE Kill \/ ChildCrashes
  <2>1. /\ UNCHANGED <<mode, output, pipe, todo>>
        /\ code' = 256 \/ UNCHANGED <<child, code>>
    BY <1>6 DEF Kill, ChildCrashes, GoTo, callVars, childVars, readerVars, NoCode
  <2>2. QED
    BY <2>1 DEF WholeScript
<1>7. CASE \/ CreateFile \/ SpawnFails \/ TryWait \/ CheckDeadline \/ Sleep \/ Wait
           \/ Join \/ ReadEof \/ Tick \/ ChildExits \/ ProgramHangs
  <2>1. /\ UNCHANGED <<mode, output, pipe, todo, code>>
        /\ child = "none" => child' = "none"
    BY <1>7
    DEF CreateFile, SpawnFails, TryWait, CheckDeadline, Sleep, Wait, Join, ReadEof,
        Tick, ChildExits, ProgramHangs, ProgramRuns, Return, GoTo, callVars, childVars,
        readerVars, Dead
  <2>2. QED
    BY <2>1 DEF WholeScript
<1>8. QED
  BY <1>2, <1>3, <1>4, <1>5, <1>6, <1>7 DEF RunnerNext, Caller

LEMMA EndedStep ==
    ASSUME RunnerIInv, Ended, RunnerNext
    PROVE  Ended'
<1>1. /\ main \in {"files", "spawn"} => child = "none"
      /\ main \in Waiting => child \in {"running", "hung", "exited", "signalled"}
      /\ main = "wait" => Dead
      /\ main = "join" => child = "reaped"
  BY DEF RunnerIInv, CallIInv, ChildFollows
<1>2. CASE Caller
  <2>1. CASE Spawn
    BY <2>1 DEF Spawn, Ended
  <2>2. CASE TryWait \/ Wait
    BY <2>2 DEF TryWait, Wait, GoTo, Ended, Dead, readerVars
  <2>3. CASE Kill
    BY <1>1, <2>3 DEF Kill, GoTo, Ended, Dead, Waiting, childVars, readerVars
  <2>4. CASE CreateFile \/ SpawnFails \/ CheckDeadline \/ Sleep \/ Join
    BY <2>4
    DEF CreateFile, SpawnFails, CheckDeadline, Sleep, Join, Ended, childVars, readerVars
  <2>5. QED
    BY <1>2, <2>1, <2>2, <2>3, <2>4 DEF Caller
<1>3. CASE Read \/ ReadEof \/ Tick
  BY <1>3 DEF Read, ReadEof, Tick, Ended, childVars, readerVars
<1>4. CASE ChildWrites \/ ChildExits \/ ProgramExits \/ ProgramHangs \/ ChildCrashes
  BY <1>4
  DEF ChildWrites, ChildExits, ProgramExits, ProgramHangs, ChildCrashes, ProgramRuns,
      Ended, readerVars
<1>5. QED
  BY <1>2, <1>3, <1>4 DEF RunnerNext

LEMMA DeliveredStep ==
    ASSUME DeliveryIInv, RunnerNext
    PROVE  CompleteRunsAreDelivered'
<1>1. /\ main \in {"files", "spawn"} => child = "none"
      /\ main = "join" => child = "reaped"
      /\ output \in Seq(Token) /\ pipe \in Seq(Token) /\ todo \in Seq(Token)
  BY DEF DeliveryIInv, RunnerIInv, CallIInv, ChildFollows, Streams
<1>2. CASE Join
  <2>1. /\ main = "join" /\ reader = "eof" /\ child = "reaped"
        /\ code' = code /\ mode' = mode
        /\ answer' = IF code = NoCode THEN Oracle!Failure("signal")
                     ELSE IF mode = "exit_code" THEN Oracle!Answered("ok", <<>>, code)
                     ELSE IF ReachedAll THEN Oracle!Answered("ok", Parsed, 0)
                     ELSE Oracle!Failure("unreached")
    BY <1>1, <1>2 DEF Join, Return, childVars
  <2>2. CASE code = 0 /\ mode = "states_at"
    <3>1. 0 # NoCode
      BY DEF NoCode
    <3>2. pipe = <<>> /\ todo = <<>>
      BY <2>1, <2>2, <3>1 DEF DeliveryIInv, Ended
    <3>3. output = Script
      <4>1. (output \o <<>>) \o <<>> = Script
        BY <2>1, <2>2, <3>2 DEF DeliveryIInv, WholeScript
      <4>2. output \o <<>> = output
        BY <1>1, ConcatEmptySeq
      <4>3. QED
        BY <4>1, <4>2
    <3>4. ReachedAll
      BY <3>3, ScriptIsParsed DEF DeliveryIInv, RunnerIInv
    <3>5. answer'.status = "ok"
      BY <2>1, <2>2, <3>1, <3>4 DEF Oracle!Answered
    <3>6. QED
      BY <3>5 DEF CompleteRunsAreDelivered
  <2>3. CASE ~ (code = 0 /\ mode = "states_at")
    <3>1. CASE code = NoCode
      BY <2>1, <3>1 DEF NoCode, CompleteRunsAreDelivered, Oracle!Failure, Oracle!Answered
    <3>2. CASE code # NoCode /\ mode = "exit_code"
      BY <2>1, <3>2 DEF CompleteRunsAreDelivered, Oracle!Answered
    <3>3. CASE code # NoCode /\ mode # "exit_code"
      <4>1. mode = "states_at"
        BY <3>3 DEF DeliveryIInv, RunnerIInv, CallIInv, Outcome
      <4>2. answer'.status # "signal" /\ code # 0
        BY <2>1, <2>3, <3>3, <4>1 DEF Oracle!Failure, Oracle!Answered
      <4>3. QED
        BY <2>1, <4>2 DEF CompleteRunsAreDelivered
    <3>4. QED
      BY <3>1, <3>2, <3>3
  <2>4. QED
    BY <2>2, <2>3
<1>3. CASE CreateFile \/ SpawnFails
  BY <1>1, <1>3 DEF CreateFile, SpawnFails, childVars, CompleteRunsAreDelivered
<1>4. CASE Wait
  BY <1>4 DEF Wait, Return, CompleteRunsAreDelivered, Oracle!Failure, Oracle!Answered
<1>5. CASE Spawn \/ TryWait \/ CheckDeadline \/ Sleep \/ Kill
  BY <1>5 DEF Spawn, TryWait, CheckDeadline, Sleep, Kill, GoTo, CompleteRunsAreDelivered
<1>6. CASE Read \/ ReadEof \/ Tick
  BY <1>6 DEF Read, ReadEof, Tick, callVars, childVars, DeliveryIInv,
     CompleteRunsAreDelivered
<1>7. CASE ChildWrites \/ ChildExits \/ ProgramExits \/ ProgramHangs \/ ChildCrashes
  BY <1>7
  DEF ChildWrites, ChildExits, ProgramExits, ProgramHangs, ChildCrashes, ProgramRuns,
      CompleteRunsAreDelivered
<1>8. QED
  BY <1>2, <1>3, <1>4, <1>5, <1>6, <1>7 DEF RunnerNext, Caller

LEMMA DeliveryInit == RunnerInit => DeliveryIInv
  BY RunnerInitIInv
  DEF RunnerInit, DeliveryIInv, WholeScript, Ended, CompleteRunsAreDelivered

LEMMA DeliveryNext == DeliveryIInv /\ [RunnerNext]_runnerVars => DeliveryIInv'
<1>1. SUFFICES ASSUME DeliveryIInv, [RunnerNext]_runnerVars PROVE DeliveryIInv'
  OBVIOUS
<1>2. RunnerIInv'
  BY <1>1, RunnerNextIInv DEF DeliveryIInv
<1>3. CASE RunnerNext
  BY <1>1, <1>2, <1>3, WholeScriptStep, EndedStep, DeliveredStep DEF DeliveryIInv
<1>4. CASE UNCHANGED runnerVars
  <2>1. WholeScript'
    BY <1>1, <1>4
    DEF DeliveryIInv, WholeScript, runnerVars, callVars, childVars, readerVars
  <2>2. Ended' /\ CompleteRunsAreDelivered'
    BY <1>1, <1>4
    DEF DeliveryIInv, Ended, CompleteRunsAreDelivered, runnerVars, callVars, childVars,
        readerVars
  <2>3. QED
    BY <1>2, <2>1, <2>2 DEF DeliveryIInv
<1>5. QED
  BY <1>1, <1>3, <1>4

\* A Spike that carried out its whole command file is never reported as having
\* missed a PC, and one that exited never as killed (spike.rs: run joins the
\* reader).
THEOREM RunsAreDelivered == RunnerSpec => []CompleteRunsAreDelivered
<1>1. DeliveryIInv => CompleteRunsAreDelivered
  BY DEF DeliveryIInv
<1>2. QED
  BY <1>1, DeliveryInit, DeliveryNext, PTL DEF RunnerSpec
================================================================================
