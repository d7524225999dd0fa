-------------------------------- MODULE Entangle --------------------------------
(***************************************************************************)
(* What becomes of the entangled workload SiteBuilder generates             *)
(* (src/src/entangle.rs, Site; src/src/hart.rs, link, probe_offsets,        *)
(* resolve_sites; src/src/orchestrator.rs, resolve_self_check):             *)
(*                                                                         *)
(*   build --Link--> draft --DraftStop--> resolve --Resolve--> final        *)
(*         --FinalStop--> accepted --StartDevice--> device --> caught/missed *)
(*                                                                         *)
(* Spike runs the draft, in which every site is a placeholder that follows  *)
(* the planned path, and reports the registers at every probe; the values   *)
(* are patched into the sites and the final program must pass on Spike.     *)
(* Then a device under test runs it, which may compute one workload result  *)
(* wrong.                                                                   *)
(*                                                                         *)
(* The machine executes slots: `pc' is an index into the code, Size(blk) + 1 *)
(* the self-check.  `regs' holds the integer registers and, as REST, all the *)
(* state sites do not touch (memory, CSRs, floating-point registers).  A run *)
(* that comes to WILD is somewhere the program did not plan: it may trap,    *)
(* loop, or come back into the code.  The model follows it no further and    *)
(* gives it no verdict.                                                     *)
(***************************************************************************)
EXTENDS SiteBuilder, Words

CONSTANTS
    REST,             \* the state besides the integer registers
    Eval(_, _),       \* Eval(w, regs): the registers after workload instruction w
    Noise,            \* values an implementation-dependent CSR may read as
    FixupValue,       \* the constant a fixup loads instead
    CodeAddr,         \* the address of every slot
    BootRegs,         \* register files init_registers can set up
    Faults,           \* the bits one wrong workload result may have flipped
    FAIL,             \* pc of _fail
    TRAP,             \* pc of the trap handler
    WILD              \* pc of a run that is out of sight, see above

ASSUME EntangleAssumption ==
    /\ REST \notin Regs \cup {ZERO}
    /\ Addresses \subseteq Word
    /\ CodeAddr \in [DOMAIN CodeAddr -> Word]
    /\ \A i, j \in DOMAIN CodeAddr : CodeAddr[i] = CodeAddr[j] => i = j
    /\ \A i \in DOMAIN CodeAddr : 0 \notin CodeAddr[i]   \* the addresses are even
    /\ BootRegs \subseteq [Regs \cup {REST} -> Word]
    /\ Faults \subseteq Word \ {ZeroWord}
    /\ FAIL \notin Nat /\ TRAP \notin Nat /\ WILD \notin Nat
    /\ FAIL # TRAP /\ TRAP # WILD /\ WILD # FAIL
    /\ Noise \subseteq Word /\ Noise # {} /\ FixupValue \in Word
    /\ \A w \in WorkInstrs : w.op \notin {"li", "xor", "branch", "fail"}

VARIABLES
    stage,    \* see above
    image,    \* the instructions as they are now rendered
    pc, regs, \* the machine that runs them
    boot,     \* the registers every run starts with
    probes,   \* the register files Spike has reported, in order
    trace,    \* the registers the draft had at every slot it executed
    corrupt   \* has the device computed a wrong result?

runVars == <<stage, image, pc, regs, boot, probes, trace, corrupt>>
vars == <<opts, blk, left, inBlock, stage, image, pc, regs, boot, probes, trace,
          corrupt>>

RegFile == [Regs \cup {REST} -> Word]

Check == Size(blk) + 1      \* the pc of the self-check

--------------------------------------------------------------------------------
(* Linking and rendering.                                                    *)

\* branch_taken, and what a branch does.
Taken(cc, a, b) ==
    \/ cc = "beq" /\ a = b
    \/ cc = "bne" /\ a # b
    \/ cc = "blt" /\ LessSigned(a, b)
    \/ cc = "bge" /\ ~ LessSigned(a, b)
    \/ cc = "bltu" /\ LessUnsigned(a, b)
    \/ cc = "bgeu" /\ ~ LessUnsigned(a, b)

BranchPairs == {<<"beq", "bne">>, <<"blt", "bge">>, <<"bltu", "bgeu">>}

EnabledBranches == (UNION {{p[1], p[2]} : p \in BranchPairs}) \cap opts.enabled

Val(rf, r) == IF r = ZERO THEN ZeroWord ELSE rf[r]

\* The slot at which Spike reports the registers a site depends on: the first
\* xor of a value site, the branch itself of a branch site.
Probed(site) == site.kind # "guard"

ProbeIndex(site) == IF site.kind = "value" THEN site.at + ProducerLen ELSE site.at

\* The place of site k's probe among the probes, which are in program order.
Rank(k) == Cardinality({l \in 1 .. k : Probed(blk.sites[l])})

\* The pcs given to Spike are the probes and then the check; is pc i the n-th?
NumPcs == Rank(NumSites(blk)) + 1

IsPc(n, i) ==
    \/ n = NumPcs /\ i = Check
    \/ \E k \in 1 .. NumSites(blk) :
          Probed(blk.sites[k]) /\ Rank(k) = n /\ ProbeIndex(blk.sites[k]) = i

\* Site::link: the absolute value of a value site's destination.
LinkedValue(site) ==
    IF site.dest.type = "code" THEN CodeAddr[site.dest.index] ELSE site.dest.value

\* Site::resolve: the xor of Spike's values of the rdeps, 0 in the draft.
RdepVal(k, resolved) ==
    LET rdeps == blk.sites[k].rdeps
    IN  IF resolved
        THEN XorAll([i \in DOMAIN rdeps |-> probes[Rank(k)][rdeps[i]]], DOMAIN rdeps)
        ELSE ZeroWord

\* Mutant: the opcodes that go the other way.
MutCandidates(k) ==
    LET site == blk.sites[k]
        rf == probes[Rank(k)]
    IN  {cc \in EnabledBranches :
            Taken(cc, Val(rf, site.rs1), Val(rf, site.rs2)) # site.taken}

\* Site::resolve: the branch opcodes that go the planned way for Spike's values.
Candidates(k) ==
    LET site == blk.sites[k]
        rf == probes[Rank(k)]
    IN  {cc \in EnabledBranches :
            Taken(cc, Val(rf, site.rs1), Val(rf, site.rs2)) = site.taken}

Li(rd, value) == [op |-> "li", rd |-> rd, value |-> Truncate(value)]
XorInto(rd, rs2) == [op |-> "xor", rd |-> rd, rs2 |-> rs2]
Branch(cc, rs1, rs2) == [op |-> "branch", cc |-> cc, rs1 |-> rs1, rs2 |-> rs2]
JalFail == [op |-> "fail"]

\* Mutant: a guard compares its accumulator with itself.
MutBranchInstr(k, ccs, resolved) ==
    LET site == blk.sites[k]
    IN  CASE site.kind = "guard" ->
                Branch(IF site.taken THEN "beq" ELSE "bne", site.rs1,
                       IF site.taken THEN site.rs1 ELSE ZERO)
          [] site.kind = "branch" /\ resolved ->
                Branch(ccs[k], site.rs1, site.rs2)
          [] OTHER -> IF site.taken THEN JalSkip ELSE Nop

\* The first slot of a branch or guard: b<cc> +8, or its placeholder.
\* ccs is {} for the draft, else it maps each branch site to its opcode.
BranchInstr(k, ccs, resolved) ==
    LET site == blk.sites[k]
    IN  CASE site.kind = "guard" ->
                Branch(IF site.taken THEN "beq" ELSE "bne", site.rs1, ZERO)
          [] site.kind = "branch" /\ resolved ->
                Branch(ccs[k], site.rs1, site.rs2)
          [] OTHER -> IF site.taken THEN JalSkip ELSE Nop

\* Mutant: a value site keeps its placeholder.
MutRendered(k, i, ccs, resolved) ==
    LET site == blk.sites[k]
    IN  CASE i = site.failAt -> JalFail
          [] site.kind # "value" /\ i = site.at -> BranchInstr(k, ccs, resolved)
          [] site.kind = "value" /\ i = site.at -> Li(site.rprod, LinkedValue(site))
          [] OTHER -> blk.instrs[i]

\* Site::link and Site::render: slot i of site k.
Rendered(k, i, ccs, resolved) ==
    LET site == blk.sites[k]
    IN  CASE i = site.failAt -> JalFail
          [] site.kind # "value" /\ i = site.at -> BranchInstr(k, ccs, resolved)
          [] site.kind = "value" /\ i = site.at ->
                Li(site.rprod, Xor(LinkedValue(site), RdepVal(k, resolved)))
          [] site.kind = "value" /\ i - site.at \in DOMAIN site.rdeps ->
                XorInto(site.rprod,
                        IF resolved THEN site.rdeps[i - site.at] ELSE ZERO)
          [] OTHER -> blk.instrs[i]

Image(ccs, resolved) ==
    [i \in 1 .. Size(blk) |->
        LET owners == {k \in 1 .. NumSites(blk) : i \in Footprint(blk.sites[k])}
        IN  IF owners = {} THEN blk.instrs[i]
            ELSE Rendered(CHOOSE k \in owners : TRUE, i, ccs, resolved)]

--------------------------------------------------------------------------------
(* The machine.                                                              *)

\* jalr at slot i clears bit 0; the planned target is just past the jump to
\* _fail.
JumpTarget(i, addr) == IF addr \ {0} = CodeAddr[i + 2] THEN i + 2 ELSE WILD

\* The registers, of XLEN bits, after workload instruction w.
Result(w, rf) == [r \in Regs \cup {REST} |-> Truncate(Eval(w, rf)[r])]

\* What executing slot i does to the pc and the registers.
Effect(i, rf) ==
    LET s == image[i]
    IN  CASE s.op = "nop"  -> [pc |-> i + 1, regs |-> rf]
          [] s.op = "skip" -> [pc |-> i + 2, regs |-> rf]
          [] s.op = "fail" -> [pc |-> FAIL, regs |-> rf]
          [] s.op = "li"   -> [pc |-> i + 1, regs |-> [rf EXCEPT ![s.rd] = s.value]]
          [] s.op = "xor"  ->
                [pc |-> i + 1,
                 regs |-> [rf EXCEPT ![s.rd] = Xor(@, Val(rf, s.rs2))]]
          [] s.op = "branch" ->
                [pc |-> IF Taken(s.cc, Val(rf, s.rs1), Val(rf, s.rs2))
                        THEN i + 2 ELSE i + 1,
                 regs |-> rf]
          [] s.op = "jalr" ->
                [pc |-> JumpTarget(i, rf[s.rs]),
                 regs |-> [rf EXCEPT ![s.rd] = Truncate(CodeAddr[i + 1])]]
          [] s.op = "fixup" ->
                [pc |-> i + 1, regs |-> [rf EXCEPT ![s.rd] = FixupValue]]
          [] OTHER -> [pc |-> i + 1, regs |-> Result(s, rf)]

\* Slot i accesses memory with its base register at no data section.
Strays(i, rf) ==
    /\ image[i] \in WorkInstrs /\ image[i].base # ZERO
    /\ rf[image[i].base] \notin Addresses

\* Everything executing slot i may do.  Every run reads its own value from an
\* implementation-dependent CSR.  An access that strays may find other data,
\* may trap, and may strike the code.
Outcomes(i, rf) ==
    LET e == Effect(i, rf)
    IN  (IF image[i] \in WorkInstrs /\ image[i].unstable /\ image[i].rd # ZERO
         THEN {[e EXCEPT !.regs[image[i].rd] = value] : value \in Noise}
         ELSE {e})
        \cup {[pc |-> out, regs |-> rf] :
                 out \in IF Strays(i, rf) THEN {TRAP, WILD} ELSE {}}

Running == stage \in {"draft", "final", "device"} /\ pc \in 1 .. Size(blk)

\* The run has come to the self-check, _fail or the trap handler.
Ended == pc \in {Check, FAIL, TRAP}

Execute == \E e \in Outcomes(pc, regs) : pc' = e.pc /\ regs' = e.regs

Restart == pc' = 1 /\ regs' = boot

--------------------------------------------------------------------------------
(* Orchestrator::resolve_self_check, and the device.                         *)

EntangleInit ==
    /\ BuilderInit
    /\ stage = "build"
    /\ image = <<>>
    /\ pc = 1
    /\ boot \in BootRegs
    /\ regs = boot
    /\ probes = <<>>
    /\ trace = <<>>
    /\ corrupt = FALSE

Build == stage = "build" /\ BuilderNext /\ UNCHANGED runVars

\* Hart::link, which gives the code its place, and Spike starts on the draft.
Link ==
    /\ stage = "build" /\ Built
    /\ 1 .. Check \subseteq DOMAIN CodeAddr
    /\ stage' = "draft"
    /\ image' = Image({}, FALSE)
    /\ Restart
    /\ UNCHANGED <<opts, blk, left, inBlock, boot, probes, trace, corrupt>>

\* Spike stops at the probes in the order given: it reports when it is at the
\* next of them, and runs on.
Report ==
    probes' = IF IsPc(Len(probes) + 1, pc) THEN Append(probes, regs) ELSE probes

DraftStep ==
    /\ stage = "draft" /\ Running
    /\ Report
    /\ Execute
    /\ trace' = [i \in DOMAIN trace \cup {pc} |-> IF i = pc THEN regs ELSE trace[i]]
    /\ UNCHANGED <<opts, blk, left, inBlock, stage, image, boot, corrupt>>

\* The draft has reached the check or left the workload: states_at fails
\* unless every probe was reached.
DraftStop ==
    /\ stage = "draft" /\ Ended
    /\ Report
    /\ stage' = IF Len(probes') = NumPcs THEN "resolve" ELSE "failed"
    /\ UNCHANGED <<opts, blk, left, inBlock, image, pc, regs, boot, trace, corrupt>>

\* Hart::resolve_sites and set_expected: the last report is what the check
\* expects.
Resolve ==
    /\ stage = "resolve"
    /\ LET branches == SiteKind(blk, "branch")
       IN  IF \E k \in branches : Candidates(k) = {}
           THEN /\ stage' = "failed"
                /\ UNCHANGED <<image, pc, regs>>
           ELSE /\ stage' = "final"
                /\ \E ccs \in [branches -> EnabledBranches] :
                      /\ \A k \in branches : ccs[k] \in Candidates(k)
                      /\ image' = Image(ccs, TRUE)
                /\ Restart
    /\ UNCHANGED <<opts, blk, left, inBlock, boot, probes, trace, corrupt>>

\* The self-check passes: it compares registers, not memory.
Matches == /\ pc = Check
           /\ \A r \in Regs : regs[r] = probes[Len(probes)][r]

FinalStep ==
    /\ stage = "final" /\ Running
    /\ Execute
    /\ UNCHANGED <<opts, blk, left, inBlock, stage, image, boot, probes, trace,
                   corrupt>>

FinalStop ==
    /\ stage = "final" /\ Ended
    /\ stage' = IF Matches THEN "accepted" ELSE "failed"
    /\ UNCHANGED <<opts, blk, left, inBlock, image, pc, regs, boot, probes, trace,
                   corrupt>>

StartDevice ==
    /\ stage = "accepted" /\ Faults # {}
    /\ stage' = "device"
    /\ Restart
    /\ UNCHANGED <<opts, blk, left, inBlock, image, boot, probes, trace, corrupt>>

DeviceStep ==
    /\ stage = "device" /\ Running
    /\ Execute
    /\ UNCHANGED <<opts, blk, left, inBlock, stage, image, boot, probes, trace,
                   corrupt>>

\* The device gets one result of the workload wrong.
Miscompute ==
    /\ stage = "device" /\ Running /\ ~ corrupt
    /\ image[pc] \in WorkInstrs /\ image[pc].rd # ZERO
    /\ \E bits \in Faults :
          regs' = [Effect(pc, regs).regs EXCEPT ![image[pc].rd] = Xor(@, bits)]
    /\ pc' = pc + 1
    /\ corrupt' = TRUE
    /\ UNCHANGED <<opts, blk, left, inBlock, stage, image, boot, probes, trace>>

\* _fail and the trap handler report a failure, the self-check what it finds.
DeviceStop ==
    /\ stage = "device" /\ Ended
    /\ stage' = IF Matches THEN "missed" ELSE "caught"
    /\ UNCHANGED <<opts, blk, left, inBlock, image, pc, regs, boot, probes, trace,
                   corrupt>>

Next ==
    \/ Build \/ Link \/ DraftStep \/ DraftStop \/ Resolve \/ FinalStep \/ FinalStop
    \/ StartDevice \/ DeviceStep \/ Miscompute \/ DeviceStop

Spec == EntangleInit /\ [][Next]_vars

\* The generator and Spike are sequential programs that keep running.
FairSpec == Spec /\ WF_vars(Next)

--------------------------------------------------------------------------------
(* Properties.                                                               *)

\* When slot i is reached, r is being computed by a value site or holds the
\* value of an implementation-dependent CSR.
Producing(i, r) ==
    \/ blk.instrs[i] = Fixup(r)
    \/ \E k \in SiteKind(blk, "value") :
          /\ blk.sites[k].rprod = r
          /\ i \in blk.sites[k].at + 1 ..
                   blk.sites[k].at + ProducerLen + Len(blk.sites[k].rdeps) - 1

\* What is told of a state at slot i: not what a site or a fixup has half made.
Seen(i, rf) ==
    <<i, [r \in DOMAIN rf |->
            IF i \in DOMAIN blk.instrs /\ Producing(i, r) THEN ZeroWord ELSE rf[r]]>>

\* How many slots of the draft come up to slot i.
Reached(i) == Cardinality({j \in DOMAIN trace : j <= i})

\* The states the draft went through, the last as Spike reported it at the check.
DraftLog ==
    LET states ==
            [n \in 1 .. Cardinality(DOMAIN trace) |->
                LET i == CHOOSE i \in DOMAIN trace : Reached(i) = n
                IN  Seen(i, trace[i])]
    IN  IF stage \in {"build", "draft", "failed"} THEN states
        ELSE Append(states, Seen(Check, probes[Len(probes)]))

\* What the abstract specification sees: how far the run is, how many states of
\* the log the final program has reached, and the state it is in.
ReplayPhase ==
    CASE stage = "build" -> "plan"
      [] stage = "draft" -> "record"
      [] stage = "resolve" -> "recorded"
      [] stage = "final" -> "replay"
      [] stage = "failed" -> "failed"
      [] OTHER -> "accepted"

ReplayCount ==
    CASE stage \in {"build", "draft", "resolve"} -> 0
      [] stage = "final" -> Reached(pc) + (IF pc = Check THEN 1 ELSE 0)
      [] OTHER -> Len(DraftLog)

ReplayState == IF stage = "final" THEN Seen(pc, regs) ELSE <<>>

Replayed == INSTANCE Replay WITH
    phase <- ReplayPhase,
    log <- DraftLog,
    replayed <- ReplayCount,
    current <- ReplayState

\* The final program goes through the states of the draft, each of them, in
\* order and nothing else, and is then accepted; no program is given up: Spike
\* reaches every probe, resolving never runs out of opcodes, and the check
\* passes, whatever the workload computes (orchestrator.rs:
\* resolve_self_check; entangle.rs: "the register state at every site is the
\* same in the draft and in the final program").
ImplementsReplay == Replayed!ReplaySpec

\* Until a result is wrong, every memory access of the workload has its base
\* register at a data section, in the draft and in the final program
\* (basicblock.rs: confine_memory_access).
AccessesAreConfined ==
    Running /\ ~ corrupt /\ image[pc] \in WorkInstrs /\ image[pc].base # ZERO =>
        regs[image[pc].base] \in Addresses

\* The bits of r the device has wrong at slot i.
WrongBits(i, r) == Xor(regs[r], trace[i][r])

GuardDeps(k) == blk.sites[k - 1].rdeps

\* A guard's accumulator is exactly the exclusive or of what is wrong in the
\* registers it depends on: the guard is passed if and only if that is zero
\* (entangle.rs: guard).
GuardsSeeTheSum ==
    stage = "device" =>
        \A k \in SiteKind(blk, "guard") :
            pc = blk.sites[k].at =>
                LET deps == GuardDeps(k)
                    sum == XorAll([i \in DOMAIN deps |-> WrongBits(pc, deps[i])],
                                  DOMAIN deps)
                IN  /\ regs[blk.sites[k].rs1] = sum
                    /\ Effect(pc, regs).pc \in DOMAIN trace \cup {Check}
                          <=> sum = ZeroWord

\* The register of an indirect jump is off its planned target by exactly the
\* exclusive or of what is wrong in the registers the site depends on, and the
\* jump misses if and only if that is more than bit 0 (entangle.rs: control_flow,
\* "which only notice faults that move an address ... far enough").
JumpsSeeTheSum ==
    stage = "device" =>
        \A k \in SiteKind(blk, "value") :
            LET site == blk.sites[k]
                sum == XorAll([i \in DOMAIN site.rdeps |-> WrongBits(pc, site.rdeps[i])],
                              DOMAIN site.rdeps)
            IN  site.dest.type = "code" /\ pc = site.failAt - 1 =>
                    /\ regs[site.rprod] = Xor(CodeAddr[site.dest.index], sum)
                    /\ Effect(pc, regs).pc = site.dest.index <=> sum \subseteq {0}

FailSlots == {blk.sites[k].failAt : k \in DOMAIN blk.sites} \ {NoFail}

\* The slot that comes after slot i on the path the draft took.
NextOnPath(i) ==
    LET later == {j \in DOMAIN trace \cup {Check} : j > i}
    IN  CHOOSE j \in later : \A l \in later : j <= l

\* The registers that decide where slot i leads.
Steering(i) ==
    LET s == image[i]
    IN  {r \in Regs : \/ s.op = "branch" /\ r \in {s.rs1, s.rs2}
                      \/ s.op = "jalr" /\ r = s.rs
                      \/ s \in WorkInstrs /\ r = s.base}

\* A step off the draft's path has a wrong register behind it, and is that of a
\* branch to its jump to _fail, of a jump, or of an access.
Diverted ==
    /\ \E r \in Steering(pc) : WrongBits(pc, r) # ZeroWord
    /\ \/ image[pc].op = "branch" /\ pc' \in FailSlots
       \/ image[pc].op = "jalr" /\ pc' = WILD
       \/ image[pc] \in WorkInstrs /\ pc' \in {TRAP, WILD}

\* A run takes the draft's path slot by slot unless a register that decides
\* where it goes is wrong.  A branch that goes the wrong way then comes to a
\* jump to _fail, and on to _fail; only a jump or an access can lead elsewhere
\* (entangle.rs: "the wrong direction lands on a jump to `_fail`").
OnlyWrongOperandsDivert ==
    [][(stage \in {"final", "device"} /\ stage' = stage) =>
          /\ pc \in DOMAIN trace => pc' = NextOnPath(pc) \/ Diverted
          /\ pc \in FailSlots => pc' = FAIL]_<<stage, pc>>

\* A device that computes every result right is never told wrong, whatever its
\* implementation-dependent CSRs read as (entangle.rs: guard; basicblock.rs: the
\* fixup after an instruction that reads one).
NoFalseAlarm == stage = "caught" => corrupt

\* "it notices any wrong value among its `dep_i`" (entangle.rs:16-17): a device
\* that reaches the branch of a guard with a wrong value in a register the
\* guard depends on does not pass the guard.
GuardsNoticeAnyWrongValue ==
    stage = "device" =>
        \A k \in SiteKind(blk, "guard") :
            /\ pc = blk.sites[k].at
            /\ \E r \in Elems(GuardDeps(k)) : WrongBits(pc, r) # ZeroWord
            => Effect(pc, regs).pc = blk.sites[k].failAt
================================================================================
