# A verification model of rvgen

rvgen generates random RISC-V test programs, runs each of them on the reference
simulator Spike while it is being built, and writes bare-metal ELF files that check
themselves. This directory holds TLA+ models of it, the TLC configurations that
check them on small instances, and theorems about them whose proofs TLAPS checks for
every value of the constants.

Paths are relative to the repository's root; `entangle.rs` stands for
`src/entangle.rs` and so on. `PROJECT.json` names, for every definition that models
code, the lines it models.

## 1. The system

### How a program is made

`gen_many` makes `--num-elfs` programs one after the other. Each is made in one pass
through the parts below, and by a single thread; concurrency enters only where Spike
does, a child process whose stderr a second thread drains.

1. `Orchestrator::new` reserves sections from the top of RAM: two mailboxes, a
   scratch section, a section for self-modifying code.
2. `Hart::run` generates the code of a hart: it points `mtvec` at a trap handler,
   loads every register with a random value, runs the workload, checks the registers
   and reports an exit code through the `tohost` mailbox.
3. The workload comes from `BasicBlock::run`, which asks a `SiteBuilder` to *entangle*
   it: around workload instructions it puts *sites*, short sequences whose effect
   depends on workload registers: a memory access whose base address, an indirect jump
   whose target, a branch whose direction, and a guard whose outcome is right only if
   those registers hold what they hold on Spike.
4. The constants of the sites are unknown at that time. The first image, the *draft*,
   holds placeholders that follow the planned path. Spike runs it and reports the
   registers at every site (`spike::states_at`).
5. `resolve_sites` computes the constants from these values and `set_expected` those of
   the self-check; the final image is run on Spike again and must exit with 0.
6. Only then is it written.

What is hard about it is that everything is decided before the values are known, and
patched afterwards: bookkeeping at generation time (which registers hold data nothing
has checked), values read in one program and used in another (draft and final), layouts
that must not move between three encodes, addresses compiled into code before the image
exists, and a child process that writes, exits, crashes or hangs when it likes. Almost
none of it can be tested without a run of Spike, and a mistake shows as a program that
tests less than it says, which no test sees.

### Components

| Component | State | Operations | Talks to | What makes it correct |
|---|---|---|---|---|
| **Site builder** (`entangle.rs` `SiteBuilder`, `basicblock.rs`) | `fresh`: registers written by the workload and not checked since, oldest first; the instructions and sites so far | `observe`, `clobber`, `address`, `after_instr`, `control_flow`, `guard`, `block_end` | called by `BasicBlock::run`; its sites go to the patching | `fresh` is exactly the unchecked data; a guard covers all of it; no site destroys what it should check; no two sites share an instruction |
| **Site patching** (`entangle.rs` `Site`, `hart.rs` `link`, `probe_offsets`, `resolve_sites`) | linked destinations, resolved values, the rendered instructions | `link`, `probe_offsets`, `resolve`, `render`, `candidates` | Spike's reports, through the orchestrator | the final program passes through the same states as the draft; Spike accepts it; a wrong value on a device is noticed |
| **Hart code** (`hart.rs`) | block offsets, the expected registers | `init_registers`, `self_check_block`, `set_mtvec`, `trap_handler`, `report_to_tohost`, `set_expected` | layout (address of `tohost`), patching | the workload starts from the drawn values; the check is exact; every run ends with a report that names its cause |
| **Memory layout** (`memory.rs`, `elf.rs` `Elf`, `HostInterface`) | RAM, sections; per encode an image with `.text` and mailboxes | `reserve`, `validate`, `data_sections`, `place`, `add_code`, `finish`; `confine_memory_access` | orchestrator, site builder | sections disjoint, aligned, in RAM; accesses hit data only; the image does not move |
| **Spike runner** (`spike.rs`) | child process, pipe, reader thread, deadline, temporary files | `states_at`, `exit_code`, `run`, `parse_state`, `TempFile` | Spike (a process), the orchestrator | one answer, whole or an error; no process or file left; returns |
| **Orchestrator** (`orchestrator.rs`, `main.rs`) | the program being made, the output files | `gen_one`, `gen_many`, `run`, `encode`, `resolve_self_check` | all of the above | only verified programs are written; a failed batch is a prefix of whole programs; every batch ends |
| **Immediate materialisation** (`riscv/asmutil.rs`) | the sequence in memory | `load_imm`, `load_imm32`, `load_imm_fixed`; patching a fixed sequence in place | hart code, sites | a sequence leaves the value it was made for in the register, also after it was patched |
| **ELF serialisation** (`elf.rs` `finish`, `serialize`) | the planned offsets, the bytes written so far | string and symbol tables, plan, headers, contents | orchestrator; read by Spike and by harnesses | the pass that writes keeps to the one that plans; the headers lead a reader to the image and the symbols |
| **Instruction tables and encoding** (`riscv/instruction.rs`, `encoding.rs`, `operand.rs`, `fields.rs`, `registers.rs`) | none | the catalog, operand sampling and validation, bit packing, `emit` | site builder, hart code | a hart fetches what was meant; nothing the generator makes is refused; what the generator concludes from an instruction (the base of an access, the register written) is what the hart does |
| **Target and options** (`target.rs`, `options.rs`) | the command line | parsing, `--isa`, disabled opcodes | everywhere | what is enabled is what the target has |
| **RVWMO support** (`riscv/rvwmo.rs`) | none | a table of operand roles that nothing reads yet | - | not modelled, see section 5 |
| **Analysis scripts** (`scripts/`) | none | offline measurements | ELF files, logs | - |

## 2. The modules

    SiteBuilder --> Entangle <-- Words --> HartCode      MemoryLayout
        |             |   |                 |               |
    MCSiteBuilder     |  MCEntangle      MCHartCode    MCMemoryLayout
    SiteBuilderProofs |   |              HartCodeProofs MemoryLayoutProofs
        |             |   |
        '----> EntangleProofs
                      |
    Replay <== refined by Entangle (proved in EntangleProofs)

    SpikeOracle <== refined by == SpikeRunner --> SpikeRunnerProofs, MCSpikeRunner
        |
        '-- INSTANCE in --> Orchestrator --> OrchestratorProofs, MCOrchestrator

    Encoding -----.--> MCTranslators
                  |
    Immediates ---+
                  |
    ElfFile ------'--> TranslatorProofs --> DecodingProofs

An `MC...` module gives the constants their values for TLC. A `...Proofs` module holds
the theorems about a component; TranslatorProofs, like MCTranslators, covers several that
share no state, and DecodingProofs continues it. A definition named `Mut...` is a faulty
variant of the one it precedes; nothing uses it. It records a bug the code could have, and
the property that was seen to fail when it stands in for the correct definition.

**SiteBuilder** is the generation of a workload. `blk.fresh` is `SiteBuilder.fresh`,
`blk.instrs` and `blk.sites` what has been emitted; `left` and `inBlock` are the budgets
of `Hart::run` and `BasicBlock::run`. A function that draws from the random generator is
an operator that returns the set of its possible results (`Peek`, `Stale`, `Guard`,
`ControlFlow`), so one step, `GenInstr` or `EndBlock`, is one whole iteration of the
loop in `BasicBlock::run` with everything that it calls. Indices count instructions from
1 where the source counts from 0; the sequence that loads a constant is one slot. What
the properties compare `fresh` with, `PendingAt`, is not kept by the generator: it is
read off the generated code alone.

**Entangle** extends it by what becomes of the workload: `Link` renders the draft, Spike
runs it (`DraftStep`, which reports at the probes in the order they were asked for),
`Resolve` computes constants and opcodes, Spike runs the final image (`FinalStep`), then
a device runs it and may get one result of the workload wrong (`Miscompute`). The machine
executes slots over words of `XLEN` bits (**Words**: a word is the set of its bits, which
makes exclusive or a set operation). What the workload computes is a parameter, `Eval`,
and a register read from an implementation-dependent CSR is a different value in each run
(`Noise`) until its fixup.

A run of the device can go wrong in three ways. A branch or a guard goes the other way and
comes to its jump to `_fail`. An indirect jump finds another address in its register;
`jalr` clears bit 0 of it, so only a difference in the other bits makes it miss. An access
finds a base register that is at no data section (`Strays`): it may read other data, trap,
or strike the code. `_fail`, the trap handler (`TRAP`) and the self-check end a run with a
verdict (`Ended`, `DeviceStop`). A run that has missed a jump or struck the code is at
`WILD`: it may trap, loop or come back into the code, no line of the source ends it, and
the model neither follows it nor gives it a verdict.

**Replay** is what the entanglement promises, without sites, probes or patches: the states
of the draft are logged, the final program goes through exactly these, one after the other
to the end of the log, and is accepted; there is no other outcome. Entangle implements it.
The mapping takes the log from what Spike executed of the draft and masks one thing: a
register that a value site or a fixup is just computing (`Producing`), in which the two
programs do differ. `ReplayPhase`, `ReplayCount` and `ReplayState` are the rest of the
mapping.

**HartCode** is the code around the workload, as `Hart::run` lays it out, executed by
the same kind of machine with the CSRs, the floating-point registers and traps that this
code involves. `x31`, `x5`, `x6`, `x1`, `x2` keep the roles the source gives them.

**MemoryLayout** has one action per reservation, per access generated, and per stage of
an encode; `layout` is the orchestrator's `MemoryLayout`, `image` the copy being encoded.

**SpikeRunner** has the four parties of a call as independent actors: the caller (`main`
says which line it is at: polling, looking at the clock, sleeping, killing, joining), the
reader thread, the clock and the child, which writes its dumps token by token into a
bounded pipe and may exit, hang or crash at any point. **SpikeOracle** is what the rest
of the program believes a call does: in one step it answers with the whole truth or with
a failure. SpikeRunner implements it, and Orchestrator uses it.

**Orchestrator** is a batch. `stage` is the place in `gen_one` and `resolve_self_check`;
`?` at any fallible call is `Abort`. A program is abstracted to how far its sites and its
check have been patched; a file to what kind of thing it holds.

**Immediates** is one sequence that loads a constant, in memory, and the hart that runs it.
`Step` executes an instruction, `Patch` renders a sequence of `load_imm_fixed` again, in
place, as `Site::render` and `set_expected` do. The powers of two the code works with are
constants (`Chunk` is 2^11, `Half` 2^32), so that the model can be run at a small width and
proved at every one.

**Encoding** follows one instruction from the generator into memory and into a hart:
`Draw` (the workload), `Load` (the parts of a constant), `Link` (the jump to `_fail`) and
`Construct` (any operands at all) make it, `Emit` checks and packs it into 16-bit parcels,
`Fetch` is an external decoder written from the ISA's tables, not from the source's. The
catalog of `instructions!` is a set of functions from names to the fixed bits of each
format; a word is the set of the positions of its one bits, so `|` is a union and a shift
moves a run of bits. `MemoryOperand` and `WrittenXreg` are what the generator itself reads
off an instruction.

**ElfFile** has one action per turn of each loop of `finish` and `serialize` (a symbol, a
section planned, a program header, a section's bytes, a section header) and one for each
part between the loops; `index` is the loop's variable. The file is the sequence of the
pieces written, with the place, the length and the meaning of each; a number that does not
fit its field ends the run in `failed`, in the first pass and in the second. An external
reader finds its way only through the headers.

## 3. What is checked

| Run | Instance | Question |
|---|---|---|
| `builder` | 3 registers, 3 workload instructions in blocks of 2-3 out of tracked and compressed arithmetic, a CSR read and a load; guards after 2 registers, or none for lack of opcodes; a peek of 1; about 282 000 states | Is the bookkeeping of unchecked registers exact, do guards cover it, do sites read it and never destroy it, do sites never overlap? |
| `entangle` | 3 registers, 7-bit words, 2 instructions out of five, 4 boot register files; about 225 000 states | Does the final program repeat the draft and pass on Spike, for every program (the refinement of Replay)? Are accesses confined? |
| `device` | 2 instructions out of an increment, a copy, a load and a CSR read in blocks of 1-2; one flipped bit, bit 0, or two others; guards only at block ends; about 3 million states | Does a run leave the draft's path only where a register that decides its way is wrong, and a wrong branch only to `_fail`? Do a guard and an indirect jump see exactly the exclusive or of what is wrong? Is a device that is right never told wrong? |
| `layout` | every RAM with base 0-20 and size 0-30 bytes | Are sections sound, accesses confined, placement a first fit, mailboxes where the code writes, encodes repeatable? |
| `spike` | 3 PCs, 2 FP registers, a pipe of 2 tokens, a deadline of 3 ticks | Whole answer or error, nothing left behind, returns: in every interleaving |
| `batch` | 3 programs, 0-2 cores | Are only verified programs written, is a failed batch a prefix, does it end? |
| `hart` | 6 integer registers, 1 FP register, 4-bit words, 12 targets | Start, self-check, report |
| `translators` | Encoding: every named instruction, boundary operands, both widths; Immediates: every value of 16-bit words; ElfFile: images of 1-3 sections, as ELF32 and ELF64; about 3.3 million states | Is what is emitted fetched as what was meant, is nothing made refused, is the generator's view of an instruction the hart's? Does every sequence load its value? Does a reader of the file find the image and the symbols, and do the two passes agree? |

Four runs each check one statement the repository makes of itself that does not hold:

* `builder_clobber` - `entangle.rs:19-21`: "every register the workload writes is checked
  by the next guard unless the workload overwrites it first". An address site and a CSR
  fixup overwrite registers too. What does hold is `GuardsCheckAllPending`.
* `device_cancel` - `entangle.rs:16-17` and `README.md:120`: a guard "notices any wrong
  value among its `dep_i`". It folds them into one exclusive or: equal differences in two
  registers cancel. What does hold is `GuardsSeeTheSum`.
* `layout_options` - `README.md:40`, `options.rs:34`: `--scratch-size` and `--smc-size`
  are parsed and then ignored.
* `hart_unaligned` - `hart.rs:129`: "a trap anywhere after it terminates the test". With
  the C extension and a RAM base that is 2 modulo 4, the trap handler is not aligned to 4
  and `mtvec` points two bytes before it.

### Bounds, and why they are enough

* *builder*: the hazards need a register to be written, overwritten by a site and
  written again, or two registers to be unchecked while a site takes a third. Three
  instructions over three registers, two of which the workload writes, give all of it:
  with a peek of one register there is more than a site can take, a threshold of 2 gives
  guards in the middle of a block and at its end, and a block of two leaves an
  instruction for a second block. The other command line enables neither guards nor
  indirect jumps, so that registers stay unchecked across blocks.
* *entangle*, *device*: seven bits give every slot of the programs an even address of its
  own. A fault in bit 0 of a jump's register is one `jalr` forgives, one in bit 1 and 6 one
  it does not, and both move the base of a load off the one data section; what such an
  access does is a choice between going on, `TRAP` and `WILD`.
  The boot values make signed and unsigned orders differ and equal operands happen. Two
  instructions suffice for a value to pass through a site into an access; the unstable
  CSR reads as two values, so two runs can differ. `device_cancel` needs a third
  instruction to copy a wrong value.
* *layout*: mailboxes of 2 bytes aligned to 4, data sections of 4 bytes aligned to 2. The
  smallest RAMs hold nothing, the next ones some of the sections in every combination of
  reservations that fail, the largest all with gaps between them; bases run over all
  residues. Addresses end just above the largest RAM, so overflow happens.
* *spike*: the pipe is smaller than one PC's dump plus the next one's start, so a full
  pipe and a half-read dump happen; the deadline lies between any two polls.
* *hart*: one register of each role, and one more; halves of a word are two bits, so NaN
  boxing and sign extension differ from the identity.
* *batch*: a first, a middle and a last program.
* *translators*: three models that share no state; `subject` says which one moves. Operands
  are the ends of every range, the values on either side of them, zero, and numbers with
  single or alternating bits set, which tell every two bits of a scattered immediate apart;
  a target has I and Zicsr or everything. Words of 16 bits, halves of 8, immediates of 4
  and chunks of 3 keep every relation between 64, 32, 12 and 11 that the code relies on,
  and TLC tries every value; the drafts hold 0 and -1, the values with the fewest and the
  most bits to leave behind. Sections have odd sizes and alignments from 1 to 64; 4096
  stands for 2^32, and addresses lie below it, reach it and pass it; `MAX_ELF_SIZE` is 900
  bytes, which the larger files exceed.

All state spaces are finite by themselves except for the clock of a Spike call, which
stops at the deadline: nothing later than the deadline is told apart. Deadlock is not
checked because all these programs end.

### Fairness

That every program is accepted (`Accepted` in Replay, part of `ImplementsReplay`)
and `EveryRunReports` assume only that a sequential
program that can take a step takes one (`WF(Next)`). A Spike call assumes that the
operating system schedules the caller, the reader and a child that can proceed
(`FairRunnerSpec`); it does not assume that the clock reaches the deadline, or that the
child ever exits, so `EveryCallReturns` says: once the child has ended or the deadline
has come, the call returns. A batch assumes the same of itself and that Spike answers,
which is what a Spike call guarantees as time passes.

## 4. What is proved

All theorems hold for every value of the constants that satisfies the module's named
assumption (`SiteBuilderAssumption` and `PoolAssumption`, `EntangleAssumption`,
`BatchAssumption`, `RunnerAssumption`, `LayoutAssumption`, `ImmediatesAssumption`,
`HartAssumption`, `EncodingAssumption`, `ElfFileAssumption`). Those about HartCode have one
hypothesis besides, `Aligned`.

**SiteBuilderProofs.** `FreshTracksPending`, `GuardsAreComplete`, `BuilderTyping`. The
difficulty is that `PendingAt` is a property of the whole code generated so far, while
`fresh` is edited locally. The inductive invariant `BuilderIInv` conjoins type, well-formed
sites and the two properties. The proof rests on one notion, that a block *extends*
another, and on lemmas that say what appending a slot, a value site, a branch site, a
jump and a fixup does to `PendingAt` at the end and that it changes nothing before it
(`PendingStable`, `GuardsStable`). `PoolAssumption`, that some register is never sampled as
a destination, is needed: without it every register could be unchecked, `stale` would fall back on any of
them, and the guard would overwrite what it checks.

`SitesTile`. Every operator of the builder appends either slots of
workload (an instruction, its fixup) or one site with exactly the slots of its footprint,
and so keeps `Tiled`; an indirect jump, which appends a value site and then the jump, is
the case where the footprint is longer than what `ValueSite` emits. This is what makes
patching safe: rendering a site again, three times over, rewrites only its own slots.
`Laid` adds where the parts of a site are, that a guard's accumulator is computed right in
front of its branch, and that a value site for the base of each access ends where the
access is.

`BoundedUnchecked`, `SitesRead`, `JumpsSpare`. What was pending where an old site stands
does not change when code is appended (`PendingStable`), so each property is shown for the
site that is added, and there `FreshIsPending` turns `fresh`, from which the generator
draws, into what is pending. The bound by the threshold also needs that `fresh` lists a
register once: the generator compares the threshold with a length, the property with a
number of registers (`DistinctCount`).

**EntangleProofs.** `Implementation`: every step of Entangle is a step of Replay or one
that Replay does not see, for every program the builder can make, every `Eval` and every
width. With it `NothingIsGivenUp`, `Confinement`, `RightIsNotToldWrong`, `GuardsSee`,
`JumpsSee` and `DivertedOnlyByWrongOperands`.

The invariant `EntangleIInv` has two halves. `CodeInv` is what is proved of the code in
SiteBuilderProofs; each slot of the code is workload or has one *role* in one site (`Role`,
`OneSite`, `SlotCases`), and the *path* is every slot but the jumps to `_fail`.
`MachineInv` is about the runs:

* `Story`: while the draft runs, its trace holds a register file for each slot of the path
  before `pc`, and each follows from the one before as the slot's role says (`Moves`). No
  induction over the run is needed, because the trace is in the state.
* `Reported`: the probes that lie behind `pc`, and no others, have been reported, each with
  the registers of its slot; `Rank` counts them, and counting rises by one from a probe to
  the next (`RankStep`, `ProbeOrder`), so that Spike, which waits for one address at a
  time, never waits for one it has passed.
* `SumAt`: in each slot of a value site, the register the site computes is the linked value
  exclusive or'ed with the values the draft had in the dependencies still to be folded in,
  and with what is wrong in those that have been folded in (`Missing`). It holds on a
  device that has miscomputed too, and gives `GuardsSee` at a guard's branch and `JumpsSee`
  at an indirect jump. It says nothing of a run that is off the path, and needs to say
  nothing: such a run is in front of a jump to `_fail`, or over.
* `Agree`: while nothing is wrong, the registers are those of the trace in the same slot,
  except for one that is half made. Together with `SumAt` this makes every turn the planned
  one (`CleanTurn`), so that the next slot agrees as well (`AgreeStep`).

`DivertedOnlyByWrongOperands` is an action property. `FinalSlot` lists the turns a slot can
take wrong with what is wrong in the registers then (`WrongTurn`): a jump's target, an
accumulator that is not zero, an operand of a branch that differs from the draft's, an
access whose base is at no section. In the draft each of them is right at that slot
(`DraftAccumulator`, `JumpValue`, `DraftBase`), so a wrong turn has a register behind it
that differs from the draft's (`Diverts`), and `NextIs` says that what comes after a slot
otherwise is what came after it in the draft.

An exclusive or over a set of registers is defined by counting the odd ones bit by bit,
without recursion, and `XorAllStep` says that it changes by one word when one of its terms
does; so what is proved about accumulators is for any number of registers. The refinement
then needs that the log, which is indexed by how many slots of the path have been passed,
grows at its end when the trace does (`StatesGrow`) and has at the place of each slot the
state of that slot (`FullLogIs`, `AtItsPlace`).

**HartCodeProofs.** `InitialisationIsExact`, `SelfCheckIsExact`, `ExitCodeTellsTheCause`,
for any number of registers of any width, any workload, draw and fault. The hypothesis
`Aligned`, that the code is loaded at a multiple of four, is the one run `hart_unaligned`
shows to be needed; it is not an assumption of HartCode, because the code does not check it.

* The layout comes first. `Code` is a concatenation of parts, some of them as long as there
  are registers; `Part` says where a sequence is in another, and from `CodeIs` follow the
  slots one by one (`InitSlots`, `WorkSlots`, `CheckSlots`, `EndSlots`). What is
  expected of the registers moves none of them, so patching it in leaves every place valid.
  `HandlerOffset` counts the bytes in front of the handler, of which there are a multiple of
  four because of the padding, so `mtvec`, which drops the two low bits, holds its address
  (`TrapsGoToTheHandler`).
* `HInv` says where the machine can be (`Where`: on the line from `_start` to `_exit`, in
  `_fail` after a wrong turn, in the handler after a trap), what has been loaded so far
  (`Initialising`), and slot by slot what the check has in its registers (`CheckingAt`): its
  accumulator is zero exactly if the registers compared so far are as expected (`FoldX`,
  `FoldTmp`, `FoldF`), those still to be compared are untouched, and the scratch register
  waits in `mscratch` (`Kept`). That is why the order matters in which x1, x2 and x31 are
  compared. `Judge` is the way from the accumulator to the exit code, `Reporting` from there
  to the mailbox.
* A lemma for each instruction says what it writes and that it leaves the rest alone
  (`RunLi` to `RunWork`); then `InitStep`, `CheckStep` and `ReportStep` have one case for
  each kind of slot.

**SpikeRunnerProofs.** `RunnerRefinesOracle` is the main one: whatever the number of PCs,
the size of the pipe and the deadline, a call implements SpikeOracle. Its invariant
`RunnerIInv` follows every dump through the three places it can be in: what the child has
still to write, what is in the pipe and what was read, laid end to end, hold the dump
`<<"zero", i>>` only at place 2i - 1 (`DumpsInPlace`). A count of `NumPcs` starts then
means each of them once and in order, which is why `states_at` may count lines instead of
matching PCs. `NothingIsLeft` and `TheDeadDoNotTimeOut` come from the
other half of the invariant (`ChildFollows`, `FilesOwned`, `Outcome`). `RunsAreDelivered`
is the converse of the refinement: unless the run is cut short, what was read, the pipe and
what is still to be written are together the whole command file's output (`WholeScript`),
and the reader ends only with an empty pipe and a dead child (`Ended`), so that a call that
joins it has read everything.

**OrchestratorProofs.** `WritesOnlyVerified`, `BatchesArePrefixes`, `SuccessIsComplete`.
`BatchIInv` says of each stage what the program being made looks like (`Progress`), what
Spike was asked (`Asking`) and that at `write` a self-checking program has been accepted
(`Writable`). The proof uses the oracle's definition of an answer, and
`RunnerRefinesOracle` is what justifies it.

**MemoryLayoutProofs.** `SectionsStayApart`, `AccessesAreSafe`, `EncodesRepeat`,
`PlaceIsLowest`, `MailboxesExport`. The
arithmetic is that of `align_up` and `align_down` for any alignment. `LayoutIInv` says that
the layout and the image are each sound and that the image repeats the layout, which is
why a section placed in the image can never land on an access generated earlier; that a
reservation still to make has a name of its own (names are how sections are found
again); and that once there is code in the image it is where the layout alone puts it
(`TextPlace`), which is why a second encode finds it at the same address. `PlaceIsLowest`
needs more: that trying the base of RAM and the ends of the sections is as good as trying
every address. Below any place that fits take the greatest of those candidates
(`Greatest`); rounded up it is no higher than that place, and the sections below it end there
(`FitIsFound`). `FitIInv` keeps this for each section placed since the layout was copied.
`MailboxesExport` rests on the order of the reservations: .tohost is reserved first, at the
highest aligned address there is, so that a .fromhost which does not fit below it fits
nowhere (`NoSecondMailbox`), and `HostInterface::extend` never places a mailbox at all.

**TranslatorProofs, constants and instructions.** `FixedSequencesLoad`: `load_imm32`, and `load_imm_fixed` with any
draft constant and any final one patched over it, leave their value in the register, at
every width. `ImmediatesAssumption` says what the widths have to do with each other: three
chunks and a sign make a word beyond its low half (`Chunk * Chunk * Chunk = 2 * Half`, which
is 3 * 11 = 1 + 32), and LUI's low bits divide a half. `ImmediatesIInv` says for each place in
the sequence which top part of the value the register holds (`Quarter`, `Middle`), and that
a draft's sequence has the same shape as the final one (`Patchable`). `load_imm` recurses
over the value, and is model-checked.

`NothingRefused`: whatever the generator makes passes the checks of `emit`. `EncodingIInv`
says that an instruction waiting to be emitted has five-bit registers and, unless a caller
made it, is supported and valid. It has to be shown at each of the places where instructions
come from. A drawn immediate is a quotient in range times the alignment, and so within the
bounds because these are multiples of the alignment themselves (`Sound`). A drawn register
is a compact one where the opcode wants one, and never zero or `sp`. The parts of a constant
fit LUI's twenty bits and ADDI's signed twelve (`split_imm32`, carry included). A jump the
linker lets pass is even and below 2^20, and so at most 2^20 - 2, which is JAL's bound. The
compressed packers never make more than sixteen bits because of what is valid for them,
whoever made the instruction.

**TranslatorProofs, files.** `FileIsRight`, `SymbolsAreFound`, `PlanIsKept`: for any number of sections
and symbols, of any names, sizes and alignments, as ELF32 and ELF64. The files are written by
loops, and what a loop computes is beyond the provers when the loop is one recursive
operator; with a step for each turn the behaviour does the induction and the invariant says
how far it has come. `ElfIInv` has three kinds of parts:

* what `finish` made: the image before the tables are added and after (`Bare`, `Tabled`), and
  that the names and rows added so far are those of the symbols in order (`Listed`), where a
  name's place is the length of all that precede it;
* what the first pass planned: `Placed`, the sections before `index` lie one after the other,
  each aligned and at its size from the next, congruent to its address;
* what the second wrote: the header (`Headed`), a program header per section (`Segmented`),
  each section's bytes at its planned offset and nothing else beyond the end of the headers
  (`Filled`), the names (`Named`) and a section header per section (`Described`).

`PlanIsKept` is the reason that the parts of the last kind are inductive: the end of the file
never passes the next planned offset, so that `pad`, which cannot shorten, always reaches it.
The readers' properties then follow when the loops are over.

**DecodingProofs.** `EncodingIsRight`, `AccessIsRight`, `DestinationsAreRight`: whatever
instruction `emit` accepts, with any registers and any immediate, a hart fetches and does
what was meant. The decoder is written from the ISA's tables and knows nothing of the
catalog, so the proof compares two descriptions of an encoding, for each of the 196 opcodes
of the catalog, 33 of them compressed:

* *Bits* (in TranslatorProofs). A number is the sum of its bits (`NumberIs`), and a signed
  one, in two's complement, the sum of its lower bits less the weight of its sign
  (`ExtendedIs`). A word is the union of runs of bits, one for each thing a format packs, and
  each bit of it is in exactly one of them; so each field of the decoder reads what was put
  there (`RFields` to `JFields`), and each scattered immediate comes out as the number that
  went in (`ImmBIs`, `ImmJIs`, `ImmCJIs` and so on), because the places the packer puts its
  bits in are those the ISA takes them from. The fields of sixteen-bit instructions are
  treated in the same way (`CRFields` to `CIWFields`).
* *Arms*. The major opcode, funct3 and whatever else the arm asks for select one arm of the
  decoder, and no other could be taken (`LuiArm` to `CSdspArm`). Tables are searched by the
  code that tells their opcodes apart, and no two rows of one have the same code
  (`LoadTable`, `OpTable`, ...).
* *Opcodes*. From both, an instruction of each table decodes to itself (`LoadDecodes`, ...).
  What the catalog says of its operands (`LoadRow`, ...) tells which of them it has, so that
  nothing is lost in what is not packed; what is valid for it, that every number fits its
  field. Then its access and its destination are the hart's (`LoadUnderstood`, ...,
  collected in `LongUnderstood`; for the compressed ones `ShortUnderstood`). The operands
  that `operand.rs` refuses are exactly what the last step needs: `c.mv` of x0 would be
  `c.jr`, `c.lui` of sp `c.addi16sp`, a shift by 0 or a zero immediate a hint or reserved.
* *Parcels*. A long instruction has both its low bits set, a compressed one has not, so the
  hart takes two parcels or one, and puts the word together that was taken apart
  (`Reassembled`, `LongIsFetched`, `ShortIsFetched`).

The invariant `FetchIInv` adds to `EncodingIInv` that every instruction has the operands of
its opcode and no others (`Shaped`), that one the workload drew is one it may draw, and
that what is in memory after `emit` is the encoding of a supported and valid instruction;
what is fetched from there follows from the lemmas.

**Only model-checked.** All liveness properties, among them that every program comes to be
accepted (`Accepted`, the rest of `ImplementsReplay`) and that every run reports; and
`load_imm`, which recurses over the value. Every safety invariant and action property a passing
run checks is proved, `LoadsTheValue` but for `load_imm`. The type invariants of
Orchestrator, SpikeRunner and MemoryLayout are proved and not run by TLC.

**Out of the prover's reach.** Liveness under fairness and `ENABLED`; induction over data:
what a fold or a recursive function computes for every input, and so `load_imm`.

## 5. What is abstracted or left out

* In the models of programs (SiteBuilder, Entangle, HartCode) the workload is a constant set
  of instructions with a destination, a base register and the two flags the generator looks
  at, and a sequence that loads a constant is one slot. Which instructions there are, how
  they are encoded and what such a sequence does is in Encoding and Immediates.
* Ranges of branches and of JAL in those models: the code returns an error when they are
  exceeded, which is `Abort`. `Link` of Encoding has the range itself.
* Raw encodings (`Raw32`, `Raw16`), which nothing validates, and `--disabled-opcodes` in
  Encoding; the names of registers and CSRs in `registers.rs`.
* Fields of the ELF file the readers do not use: `st_info`, `e_flags` and the like.
* The RVWMO table, `rvwmo.rs`, which nothing reads. Its line 3 says "These are operand
  roles"; for `fcvt.d.s`, which it lists with the comparisons (line 159), they are two
  sources, where the catalog gives the instruction one (`instruction.rs:407`). As long as
  nothing reads the table no behaviour of the program differs.
* Formatting and parsing of Spike's text beyond what tells a whole dump from a cut one.
* `try_wait` failing; a second hart (the generator resolves hart 0 only, and the layout of
  several harts is their concatenation).
* What happens after a missed indirect jump or after a wrong access that strikes the code
  (`WILD` in Entangle).
* HartCode has one fault per run: a wrong result, a wrong turn that comes to `_fail`, or a
  trap. A missed indirect jump is not among them, nor the trap of an access whose address
  is wrong because of an earlier wrong result; that a trap anywhere is reported, and with
  its cause, is checked, but for a run in which nothing else went wrong before.
* The self-check of Entangle (`Matches`) compares the integer registers; that the
  floating-point ones are compared too is in HartCode, and the refinement of Replay is about
  the whole state, `REST` included.
* `Report` of HartCode is one store: the FENCE in front of it, and the store that clears the
  upper word of `tohost` on RV32, are left out. RV32 with D, where a floating-point register
  is wider than an integer one, is represented only by `Half`, one half of `XLEN`.
* Options parsing; the Python scripts, which run after the fact on files and logs.

## 6. Plan

Done, in this order: SiteBuilder and its proofs, Entangle, MemoryLayout, SpikeRunner with
SpikeOracle, Orchestrator, HartCode, the proofs about the Orchestrator, the Spike runner
and the MemoryLayout; then Immediates and its proofs, Encoding, ElfFile,
and Replay, the abstract specification of the entanglement.

Then the proofs about Entangle and its refinement of Replay, those about HartCode, those
about ElfFile, which was first divided into the turns of its loops, those about the
instructions the generator makes and, opcode by opcode, those about what a hart fetches.

Left: the RVWMO table, once something reads it.
