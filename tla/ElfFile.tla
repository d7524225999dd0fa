------------------------------- MODULE ElfFile ---------------------------------
(***************************************************************************)
(* Writing an image as an ELF32 or ELF64 file (src/src/elf.rs, Elf::finish   *)
(* and serialize).  A first pass over the sections computes where everything *)
(* will be, a second one writes it in order and pads up to those places:     *)
(*                                                                         *)
(*     symbols* --> tables --> plan* --> layout --> header --> segments*     *)
(*              --> contents* --> names --> headers* --> done               *)
(*                                                                         *)
(* (or failed).  A phase is named for what it does next, a star marks the    *)
(* loops: one step is one turn.  The file is the sequence of the pieces      *)
(* written: where each begins, its length in bytes, and what it holds.  How   *)
(* the sections and symbols get into the image is in MemoryLayout.           *)
(***************************************************************************)
EXTENDS Integers, Sequences, FiniteSets, Functions

CONSTANTS
    Images,      \* the images to write
    NameBytes,   \* the length of a section's or symbol's name
    Limit,       \* 2^32
    MaxElfSize   \* MAX_ELF_SIZE

ElfNames == DOMAIN NameBytes

SectionType == [name : ElfNames, addr : Nat, size : Nat, align : Nat \ {0},
                perms : SUBSET {"R", "W", "X"}]
SymbolType == [name : ElfNames, section : Nat, offset : Nat, size : Nat]
ImageType == [class : {32, 64}, sections : Seq(SectionType), symbols : Seq(SymbolType)]

ReservedNames == {".strtab", ".symtab", ".shstrtab"}

\* What add_section and add_symbol let into an image: distinct names, symbols
\* inside their sections (which they name by a zero-based index).
Buildable(i) ==
    LET sectionNames == [k \in DOMAIN i.sections |-> i.sections[k].name]
        symbolNames == [k \in DOMAIN i.symbols |-> i.symbols[k].name]
    IN  /\ IsInjective(sectionNames) /\ IsInjective(symbolNames)
        /\ Range(sectionNames) \cap ReservedNames = {} /\ ".text" \in Range(sectionNames)
        /\ \A s \in Range(i.symbols) :
               /\ s.section + 1 \in DOMAIN i.sections
               /\ s.offset + s.size <= i.sections[s.section + 1].size

ASSUME ElfFileAssumption ==
    /\ NameBytes \in [ElfNames -> Nat \ {0}] /\ ReservedNames \subseteq ElfNames
    /\ Limit \in Nat /\ MaxElfSize \in Nat
    /\ Images \subseteq ImageType
    /\ \A i \in Images :
           /\ Buildable(i)
           \* MemoryLayout's validate.
           /\ \A s \in Range(i.sections) : s.addr % s.align = 0

VARIABLES
    image,      \* what is written
    phase,      \* see above
    index,      \* the element at which the loop of the phase is
    sections,   \* the file's: the image's, then the two tables
    strings,    \* the names of the symbols
    rows,       \* and the entries of their table
    names,      \* the names of the sections
    offsets,    \* where the sections, and then the table of their names, will be
    file

elfVars == <<image, phase, index, sections, strings, rows, names, offsets, file>>

--------------------------------------------------------------------------------
(* Sizes, strings and pieces.                                                *)

Word == image.class \div 8

\* word: ELF32 has no room for larger values.
Fits(n) == image.class = 32 => n < Limit

AlignUp(n, a) == LET by == IF a = 0 THEN 1 ELSE a IN n + ((by - (n % by)) % by)

EhSize == IF image.class = 64 THEN 64 ELSE 52
PhSize == IF image.class = 64 THEN 56 ELSE 32

\* Mutant: ELF32 gets the section headers of ELF64.
MutShSize == 64

ShSize == IF image.class = 64 THEN 64 ELSE 40

\* A string table begins with a zero, and one follows each of its strings.
StringsEnd(t) ==
    IF t = <<>> THEN 1 ELSE t[Len(t)].at + NameBytes[t[Len(t)].name] + 1

AddString(t, name) == Append(t, [at |-> StringsEnd(t), name |-> name])

End(f) == IF f = <<>> THEN 0 ELSE f[Len(f)].at + f[Len(f)].len

Put(f, kind, len, holds) ==
    Append(f, [at |-> End(f), len |-> len, kind |-> kind, holds |-> holds])

\* pad: it never shortens.
Pad(f, n) == IF End(f) < n THEN Put(f, "zero", n - End(f), <<>>) ELSE f

\* What some bytes are: those of a named section, strings or table entries.
Holding(owner, texts, entries) == [owner |-> owner, strings |-> texts, rows |-> entries]

Alloc(section) == "A" \in section.flags

\* ElfSection::alloc with section_flags.
Loadable(s) ==
    [name |-> s.name, holds |-> Holding(s.name, <<>>, <<>>), size |-> s.size, addr |-> s.addr,
     align |-> s.align, flags |-> {"A"} \cup (s.perms \cap {"W", "X"}),
     kind |-> "PROGBITS", link |-> 0, entsize |-> 0]

\* ElfSection::metadata.
Metadata(name, holds, size, kind, align) ==
    [name |-> name, holds |-> holds, size |-> size, addr |-> 0, align |-> align,
     flags |-> {}, kind |-> kind, link |-> 0, entsize |-> 0]

EntryPoint == (CHOOSE s \in Range(image.sections) : s.name = ".text").addr

ElfInit ==
    /\ image \in Images
    /\ phase = IF image.symbols = <<>> THEN "tables" ELSE "symbols"
    /\ index = 1
    /\ sections = [i \in DOMAIN image.sections |-> Loadable(image.sections[i])]
    /\ strings = <<>> /\ rows = <<>> /\ names = <<>> /\ offsets = <<>> /\ file = <<>>

\* One turn of a loop over n elements, and what comes after the last one.
Turn(n, to) ==
    /\ IF index < n THEN index' = index + 1 /\ phase' = phase
                    ELSE index' = 1 /\ phase' = to
    /\ UNCHANGED image

Advance(to) == phase' = to /\ UNCHANGED <<image, index>>

Fail ==
    /\ phase' = "failed"
    /\ UNCHANGED <<image, index, sections, strings, rows, names, offsets, file>>

--------------------------------------------------------------------------------
(* finish: the symbol table and its strings become sections.                 *)

\* Mutant: the section's own index, without the null section before it.
MutSectionIndex(i) == i

\* The index, in the file, of the image's section i.
SectionIndex(i) == i + 1

SymbolValue(s) == sections[s.section + 1].addr + s.offset

AddSymbol ==
    LET s == image.symbols[index]
    IN  /\ phase = "symbols"
        /\ IF /\ SectionIndex(s.section) < 65536 /\ StringsEnd(strings) < Limit
              /\ Fits(SymbolValue(s)) /\ Fits(s.size)
           THEN /\ Turn(Len(image.symbols), "tables")
                /\ strings' = AddString(strings, s.name)
                /\ rows' = Append(rows, [name |-> StringsEnd(strings), value |-> SymbolValue(s),
                                         size |-> s.size, section |-> SectionIndex(s.section)])
                /\ UNCHANGED <<sections, names, offsets, file>>
           ELSE Fail

EntrySize == IF image.class = 64 THEN 24 ELSE 16

StringSection ==
    Metadata(".strtab", Holding(".strtab", strings, <<>>), StringsEnd(strings), "STRTAB", 1)

\* An undefined entry, then name, value, size and two other fields of each.
SymbolSection ==
    [Metadata(".symtab", Holding(".symtab", <<>>, rows),
              EntrySize + Len(rows) * (8 + 2 * Word), "SYMTAB", Word)
        EXCEPT !.link = Len(sections) + 1, !.entsize = EntrySize]

\* With the first check of serialize.
AddTables ==
    /\ phase = "tables"
    /\ IF Len(sections) + 4 < 65280
       THEN /\ Advance("plan")
            /\ sections' = sections \o <<StringSection, SymbolSection>>
            /\ UNCHANGED <<strings, rows, names, offsets, file>>
       ELSE Fail

--------------------------------------------------------------------------------
(* serialize, first pass.                                                    *)

SegmentCount == Cardinality({i \in DOMAIN sections : Alloc(sections[i])})

\* Where the part of the file ends that is planned so far.
Planned ==
    IF offsets = <<>> THEN EhSize + SegmentCount * PhSize
    ELSE offsets[Len(offsets)] + sections[Len(offsets)].size

\* Mutant: sections follow each other without regard to their alignment.
MutPlaceFor(s) == Planned

PlaceFor(s) == AlignUp(Planned, s.align)

PlanSection ==
    LET s == sections[index]
    IN  /\ phase = "plan"
        /\ IF /\ image.class = 32 => s.addr < Limit /\ s.addr + s.size <= Limit
              /\ StringsEnd(names) < Limit
           THEN /\ Turn(Len(sections), "layout")
                /\ names' = AddString(names, s.name)
                /\ offsets' = Append(offsets, PlaceFor(s))
                /\ UNCHANGED <<sections, strings, rows, file>>
           ELSE Fail

Shoff == AlignUp(offsets[Len(offsets)] + StringsEnd(names), 8)
FileSize == Shoff + (Len(sections) + 2) * ShSize

\* The table of names is not aligned, the headers are.
PlanRest ==
    /\ phase = "layout"
    /\ UNCHANGED <<image, index, sections, strings, rows, file>>
    /\ names' = AddString(names, ".shstrtab")
    /\ offsets' = Append(offsets, Planned)
    /\ phase' = IF Fits(FileSize') /\ Fits(EntryPoint) /\ FileSize' <= MaxElfSize
                THEN "header" ELSE "failed"

--------------------------------------------------------------------------------
(* serialize, second pass.  Every word written may turn out not to fit.      *)

\* The identification and a header of two, three words and seven more fields.
WriteHeader ==
    /\ phase = "header"
    /\ IF Fits(EntryPoint) /\ Fits(Shoff)
       THEN /\ Advance("segments")
            /\ file' = Put(file, "header", 16 + 8 + 3 * Word + 4 + 12,
                           [entry |-> EntryPoint, phoff |-> EhSize, shoff |-> Shoff,
                            phentsize |-> PhSize, phnum |-> SegmentCount,
                            shentsize |-> ShSize, shnum |-> Len(sections) + 2,
                            shstrndx |-> Len(sections) + 1])
            /\ UNCHANGED <<sections, strings, rows, names, offsets>>
       ELSE Fail

\* section_flags_to_program_flags.
ProgramFlags(flags) == {"R"} \cup (flags \cap {"W", "X"})

ProgramHeader(i) ==
    [offset |-> offsets[i], addr |-> sections[i].addr, size |-> sections[i].size,
     flags |-> ProgramFlags(sections[i].flags), align |-> sections[i].align]

WriteSegment ==
    LET s == sections[index]
    IN  /\ phase = "segments"
        /\ IF Alloc(s) => \A v \in {offsets[index], s.addr, s.size, s.align} : Fits(v)
           THEN /\ Turn(Len(sections), "contents")
                /\ file' = IF Alloc(s)
                           THEN Put(file, "segment", 8 + 6 * Word, ProgramHeader(index))
                           ELSE file
                /\ UNCHANGED <<sections, strings, rows, names, offsets>>
           ELSE Fail

WriteContent ==
    /\ phase = "contents"
    /\ Turn(Len(sections), "names")
    /\ file' = Put(Pad(file, offsets[index]), "content",
                   sections[index].size, sections[index].holds)
    /\ UNCHANGED <<sections, strings, rows, names, offsets>>

NamesSection ==
    Metadata(".shstrtab", Holding(".shstrtab", names, <<>>), StringsEnd(names), "STRTAB", 1)

\* And zeros up to the end of the null section's header.
WriteNames ==
    /\ phase = "names"
    /\ Advance("headers")
    /\ file' = Pad(Put(file, "content", NamesSection.size, NamesSection.holds), Shoff + ShSize)
    /\ UNCHANGED <<sections, strings, rows, names, offsets>>

SectionHeader(i) ==
    LET s == Append(sections, NamesSection)[i]
    IN  [name |-> names[i].at, kind |-> s.kind, flags |-> s.flags, addr |-> s.addr,
         offset |-> offsets[i], size |-> s.size, link |-> s.link,
         align |-> s.align, entsize |-> s.entsize]

WriteSectionHeader ==
    LET h == SectionHeader(index)
    IN  /\ phase = "headers"
        /\ IF \A v \in {h.addr, h.offset, h.size, h.align, h.entsize} : Fits(v)
           THEN /\ Turn(Len(sections) + 1, "done")
                /\ file' = Put(file, "section", 16 + 6 * Word, h)
                /\ UNCHANGED <<sections, strings, rows, names, offsets>>
           ELSE Fail

ElfNext ==
    \/ AddSymbol \/ AddTables \/ PlanSection \/ PlanRest \/ WriteHeader
    \/ WriteSegment \/ WriteContent \/ WriteNames \/ WriteSectionHeader

ElfSpec == ElfInit /\ [][ElfNext]_elfVars

--------------------------------------------------------------------------------
(* A reader of the file, by the ELF specification.                           *)

Header == file[1].holds

Pieces(kind, at, len) ==
    {p.holds : p \in {q \in Range(file) : q.kind = kind /\ q.at = at /\ q.len = len}}

SegmentAt(k) == Pieces("segment", Header.phoff + k * Header.phentsize, Header.phentsize)
SectionAt(k) == Pieces("section", Header.shoff + k * Header.shentsize, Header.shentsize)
Content(at, len) == Pieces("content", at, len)

\* That string begins at an offset of the string table whose header has index k.
IsStringOf(k, offset, name) ==
    \E h \in SectionAt(k) :
        /\ h.kind = "STRTAB"
        /\ \E c \in Content(h.offset, h.size) :
               [at |-> offset, name |-> name] \in Range(c.strings)

--------------------------------------------------------------------------------
(* Properties.                                                               *)

\* A loader that follows the program headers gets the image: each section's
\* bytes, at its address and with its permissions, nothing else, and the entry.
\* And it may map them: offset and address agree modulo the alignment.  (Two
\* passes over the sections compute the offsets and write at them.)
FileHoldsTheImage ==
    phase = "done" =>
        /\ Header.entry = EntryPoint /\ Header.phnum = Len(image.sections)
        /\ \A k \in DOMAIN image.sections : \E p \in SegmentAt(k - 1) :
               /\ p.addr = image.sections[k].addr /\ p.size = image.sections[k].size
               /\ p.flags = {"R"} \cup image.sections[k].perms
               /\ p.offset % p.align = p.addr % p.align
               /\ \E c \in Content(p.offset, p.size) : c.owner = image.sections[k].name

\* A harness that looks a symbol up (Spike does, for tohost) finds it: the
\* symbol table's link leads to its names, its value is the address in the
\* image, its size is right, and the section index in it leads to the header,
\* by its own name, of the section that holds it.
SymbolsResolve ==
    phase = "done" =>
        \A s \in Range(image.symbols) :
            \E t \in 1 .. Header.shnum - 1 : \E table \in SectionAt(t) :
                /\ table.kind = "SYMTAB"
                /\ table.size = table.entsize * (Len(image.symbols) + 1)
                /\ \E c \in Content(table.offset, table.size) :
                       \E r \in Range(c.rows) :
                           /\ IsStringOf(table.link, r.name, s.name)
                           /\ r.value = image.sections[s.section + 1].addr + s.offset
                           /\ r.size = s.size
                           /\ \E h \in SectionAt(r.section) :
                                  /\ IsStringOf(Header.shstrndx, h.name,
                                                image.sections[s.section + 1].name)
                                  /\ r.value \in h.addr .. h.addr + h.size

\* The second pass keeps to the first one's plan, which only a debug build
\* asserts: it never writes past a place before it gets there, the file ends
\* where it was planned to, and what was checked then is enough for every word
\* of it to fit, so nothing fails once something is written.
FileIsAsPlanned ==
    /\ phase = "contents" => End(file) <= offsets[index]
    /\ phase = "names" => End(file) = offsets[Len(offsets)]
    /\ phase = "headers" => End(file) = Shoff + index * ShSize
    /\ phase = "done" => End(file) = FileSize
    /\ phase = "failed" => file = <<>>
================================================================================
