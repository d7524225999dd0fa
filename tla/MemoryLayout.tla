------------------------------ MODULE MemoryLayout ------------------------------
(***************************************************************************)
(* Where a program's sections go (src/src/memory.rs, MemoryLayout;           *)
(* src/src/elf.rs, Elf and HostInterface; src/src/orchestrator.rs, new and   *)
(* encode) and where its memory accesses may land (src/src/basicblock.rs,    *)
(* confine_memory_access).                                                   *)
(*                                                                         *)
(*   reserve --Reserve*--> run --Access*, Generate--> new --NewElf--> code   *)
(*     --AddCode--> host --ApplyHost*--> finish --Finish--> new | done       *)
(*                                                                         *)
(* The sections of the layout are reserved downwards from the top of RAM;    *)
(* .text, and a mailbox that was not reserved, go to the lowest free place.  *)
(* Every encode starts from a copy of the layout, `image'; a self-checking   *)
(* program is encoded three times and its code must not move.               *)
(*                                                                         *)
(* A section is [name, start, size, align, write, exec, private].  gen_one's *)
(* RAM is RWX, so the permission checks always pass and are left out.        *)
(***************************************************************************)
EXTENDS Integers, Sequences, FiniteSets, FiniteSetsExt

CONSTANTS
    Rams,             \* [start, size]: --ram-base and --ram-size
    Requests,         \* [scratch, smc]: --scratch-size and --smc-size
    DataSize,         \* the size of the scratch and smc sections: 4096
    DataAlign,        \* 4
    MailboxSize,      \* HostInterface::SIZE and ALIGNMENT: 8 and 64
    MailboxAlign,
    CodeSizes,        \* how large the code may turn out; the epilogue is never empty
    CodeAlign,        \* instruction_alignment: 2 with C, else 4
    AccessSizes,      \* widths of the loads, stores and atomics enabled
    AddressLimit,     \* 2^XLEN
    U64,              \* 2^64
    Encodes           \* 3 with a self-check, else 1

Positive == Nat \ {0}

ASSUME LayoutAssumption ==
    /\ \A r \in Rams : r.start \in Nat /\ r.size \in Nat
    /\ {DataSize, DataAlign, MailboxSize, MailboxAlign, CodeAlign, AddressLimit,
        U64, Encodes} \subseteq Positive
    /\ CodeSizes \subseteq Positive
    /\ AccessSizes \subseteq Positive

VARIABLES
    ram, request,     \* the command line
    layout,           \* the sections of the orchestrator's MemoryLayout
    pending,          \* reservations still to make
    phase,
    why,              \* what failed
    access,           \* {} or the last memory access generated, {[start, size]}
    codeSize,         \* bytes of code
    tohost,           \* the mailbox address the exit and trap code writes to
    image,            \* the sections of the image being encoded
    encoded,          \* encodes done so far
    text              \* the address of the code in the first of them

layoutVars == <<ram, request, layout, pending, phase, why, access, codeSize,
                tohost, image, encoded, text>>

None == -1

--------------------------------------------------------------------------------
(* Regions.                                                                  *)

EndOf(s) == s.start + s.size

AlignDown(n, a) == n - (n % a)
AlignUp(n, a) == n + ((a - (n % a)) % a)

\* MemoryRegion::end of the RAM is an error on an empty or overflowing region.
RamEnds == ram.size > 0 /\ EndOf(ram) < U64

Disjoint(s, t) == EndOf(s) <= t.start \/ EndOf(t) <= s.start

InRam(s) == ram.start <= s.start /\ EndOf(s) <= EndOf(ram)

Named(sections, name) == {s \in sections : s.name = name}

NewSection(name, start, size, align, exec, private) ==
    [name |-> name, start |-> start, size |-> size, align |-> align,
     write |-> name # ".text", exec |-> exec, private |-> private]

\* Mutant: aligned upwards.
MutReserveStart(size, align) ==
    AlignUp((IF layout = {} THEN EndOf(ram) ELSE Min({s.start : s \in layout}))
                 - size, align)

\* MemoryLayout::reserve: below everything reserved so far.
ReserveStart(size, align) ==
    AlignDown((IF layout = {} THEN EndOf(ram) ELSE Min({s.start : s \in layout}))
                 - size, align)

CanReserve(size, align) == RamEnds /\ ReserveStart(size, align) >= ram.start

\* Elf::place: the lowest free, aligned address among the RAM's start and the
\* ends of the sections.
IsFree(sections, start, size) ==
    /\ start + size <= EndOf(ram)
    /\ \A s \in sections : Disjoint([start |-> start, size |-> size], s)

\* Mutant: the base of RAM is not tried.
MutFreeStarts(sections, size, align) ==
    {start \in {AlignUp(EndOf(s), align) : s \in sections} :
        IsFree(sections, start, size)}

FreeStarts(sections, size, align) ==
    {start \in {AlignUp(c, align) : c \in {ram.start} \cup {EndOf(s) : s \in sections}} :
        IsFree(sections, start, size)}

\* MemoryLayout::validate.
Valid(sections) ==
    /\ RamEnds /\ EndOf(ram) <= AddressLimit
    /\ \A s \in sections :
          /\ s.start % s.align = 0
          /\ s.size > 0 /\ InRam(s)
          /\ \A t \in sections \ {s} : s.name # t.name /\ Disjoint(s, t)

\* Mutant: private sections are offered too.
MutDataSections ==
    LET writable == {s \in layout : s.write}
        rw == {s \in writable : ~ s.exec}
    IN  IF rw # {} THEN rw ELSE writable

\* MemoryLayout::data_sections: RWX sections only when there is no RW one.
DataSections ==
    LET writable == {s \in layout : s.write /\ ~ s.private}
        rw == {s \in writable : ~ s.exec}
    IN  IF rw # {} THEN rw ELSE writable

--------------------------------------------------------------------------------
(* Orchestrator::new and run.                                                *)

Mailbox(name) == [name |-> name, size |-> MailboxSize, align |-> MailboxAlign,
                  exec |-> FALSE, private |-> TRUE]
DataRequest(name, exec) == [name |-> name, size |-> DataSize, align |-> DataAlign,
                            exec |-> exec, private |-> FALSE]

Reservations == <<Mailbox(".tohost"), Mailbox(".fromhost"),
                  DataRequest("scratch", FALSE), DataRequest("smc", TRUE)>>

LayoutInit ==
    /\ ram \in Rams /\ request \in Requests
    /\ layout = {} /\ pending = Reservations
    /\ phase = "reserve" /\ why = "none"
    /\ access = {} /\ codeSize = 0 /\ tohost = None
    /\ image = {} /\ encoded = 0 /\ text = None

Fail(reason) ==
    /\ phase' = "failed" /\ why' = reason
    /\ UNCHANGED <<ram, request, layout, pending, access, codeSize, tohost, image,
                   encoded, text>>

\* A reservation that fails is ignored.
Reserve ==
    /\ phase = "reserve" /\ pending # <<>>
    /\ LET r == Head(pending)
           start == ReserveStart(r.size, r.align)
       IN  layout' = IF CanReserve(r.size, r.align)
                     THEN layout \cup {NewSection(r.name, start, r.size, r.align,
                                                  r.exec, r.private)}
                     ELSE layout
    /\ pending' = Tail(pending)
    /\ phase' = IF pending' = <<>> THEN "run" ELSE phase
    /\ UNCHANGED <<ram, request, why, access, codeSize, tohost, image, encoded, text>>

\* confine_memory_access: the aligned addresses inside a section.
FirstAccess(s, size) == AlignUp(s.start, size)
LastAccess(s, size) == IF EndOf(s) < size THEN 0 ELSE AlignDown(EndOf(s) - size, size)

Access(size) ==
    /\ phase = "run"
    /\ \E s \in DataSections :
          /\ s.size >= size /\ FirstAccess(s, size) <= LastAccess(s, size)
          /\ \E k \in FirstAccess(s, size) \div size .. LastAccess(s, size) \div size :
                access' = {[start |-> k * size, size |-> size]}
    /\ UNCHANGED <<ram, request, layout, pending, phase, why, codeSize, tohost,
                   image, encoded, text>>

AccessFails(size) ==
    /\ phase = "run"
    /\ \/ DataSections = {}
       \/ \E s \in DataSections :
             s.size < size \/ FirstAccess(s, size) > LastAccess(s, size)
    /\ Fail("access")

\* Hart::run needs the address of the mailbox.
Generate ==
    /\ phase = "run"
    /\ \/ /\ Named(layout, ".tohost") = {}
          /\ Fail("no .tohost")
       \/ \E s \in Named(layout, ".tohost"), size \in CodeSizes :
             /\ tohost' = s.start
             /\ codeSize' = size
             /\ phase' = "new"
             /\ UNCHANGED <<ram, request, layout, pending, why, access, image,
                            encoded, text>>

--------------------------------------------------------------------------------
(* Orchestrator::encode.                                                     *)

\* Mutant: the image of the previous encode is extended.
MutNewElf ==
    /\ phase = "new"
    /\ \/ ~ Valid(layout) /\ Fail("invalid layout")
       \/ /\ Valid(layout)
          /\ image' = layout \cup image
          /\ phase' = "code"
          /\ UNCHANGED <<ram, request, layout, pending, why, access, codeSize,
                         tohost, encoded, text>>

NewElf ==
    /\ phase = "new"
    /\ \/ ~ Valid(layout) /\ Fail("invalid layout")
       \/ /\ Valid(layout)
          /\ image' = layout
          /\ phase' = "code"
          /\ UNCHANGED <<ram, request, layout, pending, why, access, codeSize,
                         tohost, encoded, text>>

Place(name, size, align) ==
    image' = image \cup {NewSection(name, Min(FreeStarts(image, size, align)), size,
                                    align, name = ".text", FALSE)}

AddCode ==
    /\ phase = "code"
    /\ \/ /\ FreeStarts(image, codeSize, CodeAlign) = {}
          /\ Fail("no room for code")
       \/ /\ FreeStarts(image, codeSize, CodeAlign) # {}
          /\ Place(".text", codeSize, CodeAlign)
          /\ phase' = "host"
          /\ UNCHANGED <<ram, request, layout, pending, why, access, codeSize,
                         tohost, encoded, text>>

\* Mutant: a mailbox the layout lacks is left out.
MutMissing(name) == FALSE

\* HostInterface::extend: a mailbox the layout lacks is placed, .tohost first.
Missing(name) ==
    /\ Named(image, name) = {}
    /\ name = ".fromhost" => Named(image, ".tohost") # {}

ApplyHost ==
    /\ phase = "host"
    /\ \/ /\ \A name \in {".tohost", ".fromhost"} : ~ Missing(name)
          /\ phase' = "finish"
          /\ UNCHANGED <<ram, request, layout, pending, why, access, codeSize,
                         tohost, image, encoded, text>>
       \/ \E name \in {".tohost", ".fromhost"} :
             /\ Missing(name)
             /\ \/ /\ FreeStarts(image, MailboxSize, MailboxAlign) = {}
                   /\ Fail("no room for a mailbox")
                \/ /\ FreeStarts(image, MailboxSize, MailboxAlign) # {}
                   /\ Place(name, MailboxSize, MailboxAlign)
                   /\ UNCHANGED <<ram, request, layout, pending, phase, why, access,
                                  codeSize, tohost, encoded, text>>

TextAddr == Min({s.start : s \in Named(image, ".text")})

\* Elf::finish validates again; resolve_self_check compares the code's address.
Finish ==
    /\ phase = "finish"
    /\ \/ ~ Valid(image) /\ Fail("invalid image")
       \/ Valid(image) /\ encoded > 0 /\ text # TextAddr /\ Fail("code moved")
       \/ /\ Valid(image) /\ (encoded > 0 => text = TextAddr)
          /\ text' = TextAddr
          /\ encoded' = encoded + 1
          /\ phase' = IF encoded' = Encodes THEN "done" ELSE "new"
          /\ UNCHANGED <<ram, request, layout, pending, why, access, codeSize,
                         tohost, image>>

LayoutNext ==
    \/ Reserve \/ Generate \/ NewElf \/ AddCode \/ ApplyHost \/ Finish
    \/ \E size \in AccessSizes : Access(size) \/ AccessFails(size)

LayoutSpec == LayoutInit /\ [][LayoutNext]_layoutVars

--------------------------------------------------------------------------------
(* Properties.                                                               *)

SectionType ==
    [name : {".tohost", ".fromhost", "scratch", "smc", ".text"},
     start : Nat, size : Positive, align : Positive,
     write : BOOLEAN, exec : BOOLEAN, private : BOOLEAN]

\* The layout's state has its type.
LayoutTypeOK ==
    /\ \A s \in layout \cup image : s \in SectionType
    /\ phase \in {"reserve", "run", "new", "code", "host", "finish", "done", "failed"}
    /\ access \subseteq [start : Nat, size : AccessSizes]
    /\ codeSize \in Nat /\ encoded \in 0 .. Encodes
    /\ tohost \in Nat \cup {None} /\ text \in Nat \cup {None}

\* Sections never overlap, never leave the RAM and are aligned, whatever RAM
\* the user asks for and whichever reservations fail (memory.rs: reserve;
\* elf.rs: place).
SectionsAreSound ==
    \A s \in layout \cup image :
        /\ InRam(s) /\ s.start % s.align = 0
        /\ \A t \in layout \cup image : s # t => s.name # t.name /\ Disjoint(s, t)

\* A generated memory access is aligned and lies in a writable section that
\* holds neither code nor a mailbox, though .text and missing mailboxes are
\* only placed after it was generated; the executable section is used only
\* where there is no other (basicblock.rs: confine_memory_access; memory.rs:
\* data_sections, Section.private).
AccessesHitData ==
    \A a \in access :
        /\ a.start % a.size = 0
        /\ \E s \in layout : s.start <= a.start /\ EndOf(a) <= EndOf(s)
        /\ \A s \in layout \cup image :
              ~ Disjoint(s, a) =>
                  IF Named(layout, "scratch") # {} THEN s.name = "scratch"
                                                   ELSE s.name = "smc"

\* place is a first fit over all addresses, not only over the ends of the
\* sections: it finds the lowest aligned free address, and fails only when
\* there is none (elf.rs: place).
FirstFit(sections, size, align) ==
    {start \in ram.start .. EndOf(ram) :
        start % align = 0 /\ IsFree(sections, start, size)}

PlaceIsFirstFit ==
    /\ \A s \in image \ layout :
          LET before == IF s.name = ".text" THEN layout ELSE image \ {s}
          IN  \A start \in FirstFit(before, s.size, s.align) : s.start <= start
    /\ why = "no room for code" => FirstFit(image, codeSize, CodeAlign) = {}
    /\ why = "no room for a mailbox" => FirstFit(image, MailboxSize, MailboxAlign) = {}

\* The finished image exports .tohost where the program's exit and trap code
\* writes, and .fromhost.  Both were reserved: where the top of RAM has no room
\* for .fromhost, `place' finds none either (hart.rs: run; elf.rs:
\* HostInterface; orchestrator.rs: new ignores a failed reservation).
MailboxesAreExported ==
    phase \in {"finish", "done"} =>
        /\ \E s \in Named(image, ".tohost") : s.start = tohost
        /\ Named(image, ".fromhost") # {}
        /\ Named(image, ".fromhost") \subseteq layout

\* Once its layout is valid, an image is never found invalid when it is
\* finished, and encoding again never moves the code (elf.rs: "the image never
\* drifts from the memory layout"; orchestrator.rs: resolve_self_check).
EncodingIsStable == why \notin {"invalid image", "code moved"}

\* "--scratch-size, --smc-size: section sizes in bytes; zero SMC size omits it"
\* (README.md:40), and "zero omits the section" (options.rs:34).
SizesAreHonoured ==
    phase = "done" =>
        /\ \A s \in Named(layout, "scratch") : s.size = request.scratch
        /\ \A s \in Named(layout, "smc") : s.size = request.smc
================================================================================
