--------------------------- MODULE MemoryLayoutProofs ---------------------------
(***************************************************************************)
(* Proofs about MemoryLayout, for every RAM, every size and alignment of the *)
(* sections and every size of the code.                                      *)
(***************************************************************************)
EXTENDS MemoryLayout, WellFoundedInduction, TLAPS

--------------------------------------------------------------------------------
(* Alignment, and the least of a set.                                        *)

LEMMA Remainder ==
    ASSUME NEW n \in Int, NEW a \in Positive
    PROVE  n % a \in 0 .. a - 1
  BY DEF Positive

LEMMA Quotient ==
    ASSUME NEW n \in Int, NEW a \in Positive
    PROVE  n \div a \in Int /\ n = a * (n \div a) + (n % a)
  BY DEF Positive

LEMMA Multiple ==
    ASSUME NEW q \in Int, NEW a \in Positive
    PROVE  (a * q) % a = 0
  BY DEF Positive

LEMMA Divides ==
    ASSUME NEW n \in Int, NEW a \in Positive, n % a = 0
    PROVE  n \div a \in Int /\ n = a * (n \div a)
<1>1. n \div a \in Int /\ n = a * (n \div a) + (n % a)
  BY Quotient
<1>2. a * (n \div a) \in Int
  BY <1>1 DEF Positive
<1>3. QED
  BY <1>1, <1>2

LEMMA AlignedDown ==
    ASSUME NEW n \in Int, NEW a \in Positive
    PROVE  /\ AlignDown(n, a) \in Int /\ AlignDown(n, a) <= n
           /\ n < AlignDown(n, a) + a
           /\ AlignDown(n, a) % a = 0
<1>1. PICK q \in Int : n = a * q + (n % a)
  BY Quotient
<1>2. AlignDown(n, a) = a * q
  BY <1>1, Remainder DEF AlignDown, Positive
<1>3. AlignDown(n, a) % a = 0
  BY <1>2, Multiple
<1>4. QED
  BY <1>3, Remainder DEF AlignDown, Positive

LEMMA AlignedUp ==
    ASSUME NEW n \in Int, NEW a \in Positive
    PROVE  /\ AlignUp(n, a) \in Int /\ n <= AlignUp(n, a)
           /\ AlignUp(n, a) < n + a
           /\ AlignUp(n, a) % a = 0
<1>1. PICK q \in Int : n = a * q + (n % a)
  BY Quotient
<1>2. n % a \in 0 .. a - 1
  BY Remainder
<1>3. CASE n % a = 0
  <2>1. (a - (n % a)) % a = 0
    <3>1. (a * 1) % a = 0
      BY Multiple
    <3>2. QED
      BY <1>3, <3>1 DEF Positive
  <2>2. AlignUp(n, a) = n
    BY <2>1 DEF AlignUp
  <2>3. QED
    BY <1>3, <2>2 DEF Positive
<1>4. CASE n % a # 0
  <2>1. (a - (n % a)) % a = a - (n % a)
    <3>1. a - (n % a) \in 1 .. a - 1
      BY <1>2, <1>4 DEF Positive
    <3>2. QED
      BY <3>1 DEF Positive
  <2>2. AlignUp(n, a) = a * (q + 1)
    <3>1. AlignUp(n, a) = n + (a - (n % a))
      BY <2>1 DEF AlignUp
    <3>2. a * (q + 1) = a * q + a
      BY DEF Positive
    <3>3. QED
      BY <1>1, <1>2, <3>1, <3>2 DEF Positive
  <2>3. AlignUp(n, a) % a = 0
    BY <2>2, Multiple
  <2>4. QED
    BY <1>2, <1>4, <2>1, <2>3 DEF AlignUp, Positive
<1>5. QED
  BY <1>3, <1>4

LEMMA Monotone ==
    ASSUME NEW a \in Positive, NEW p \in Int, NEW q \in Int, p <= q
    PROVE  a * p <= a * q /\ a * q = q * a
  BY DEF Positive

\* A non-empty set of natural numbers has a least member, which Min chooses.
LEMMA Least ==
    ASSUME NEW S \in SUBSET Nat, S # {}
    PROVE  Min(S) \in S /\ \A x \in S : Min(S) <= x
<1> DEFINE R == {ss \in Nat \X Nat : ss[1] < ss[2]}
<1>1. OpToRel(<, Nat) = R
  BY Zenon DEF OpToRel
<1>2. PICK x \in S : \A y \in S : ~ (<<y, x>> \in R)
  <2>1. IsWellFoundedOn(R, Nat)
    BY <1>1, NatLessThanWellFounded, Zenon
  <2> HIDE DEF R
  <2>2. QED
    BY <2>1, WFMin
<1>3. ASSUME NEW y \in S
      PROVE  x <= y
  <2>1. <<y, x>> \in Nat \X Nat /\ ~ (<<y, x>> \in R)
    BY <1>2
  <2>2. ~ (y < x)
    BY <2>1
  <2>3. QED
    BY <2>2
<1>4. QED
  BY <1>3 DEF Min

--------------------------------------------------------------------------------
(* Sections that are in their place.                                         *)

MailNames == {".tohost", ".fromhost"}
DataNames == {"scratch", "smc"}

Sound(sections) ==
    \A s \in sections :
        /\ s \in SectionType /\ InRam(s) /\ s.start % s.align = 0
        /\ \A t \in sections : s # t => s.name # t.name /\ Disjoint(s, t)

RamTyped == ram.start \in Nat /\ ram.size \in Nat

LEMMA SoundAdd ==
    ASSUME NEW S, Sound(S), NEW s \in SectionType, InRam(s), s.start % s.align = 0,
           \A t \in S : s.name # t.name /\ Disjoint(s, t)
    PROVE  Sound(S \cup {s})
<1>1. \A t \in S : Disjoint(t, s)
  BY DEF Disjoint
<1>2. QED
  BY <1>1 DEF Sound

\* reserve finds a place below every other section.
LEMMA Reserved ==
    ASSUME RamTyped, Sound(layout), NEW size \in Positive, NEW align \in Positive,
           CanReserve(size, align)
    PROVE  /\ ReserveStart(size, align) \in Nat
           /\ ReserveStart(size, align) % align = 0
           /\ ram.start <= ReserveStart(size, align)
           /\ ReserveStart(size, align) + size <= EndOf(ram)
           /\ \A s \in layout : ReserveStart(size, align) + size <= s.start
<1> DEFINE top == IF layout = {} THEN EndOf(ram) ELSE Min({s.start : s \in layout})
<1>1. /\ EndOf(ram) \in Nat /\ ram.start \in Nat
      /\ \A s \in layout : s.start \in Nat /\ s.start <= EndOf(ram)
  <2>1. ASSUME NEW s \in layout
        PROVE  s.start \in Nat /\ s.size \in Nat /\ s.start + s.size <= EndOf(ram)
    BY DEF Sound, SectionType, InRam, EndOf, Positive
  <2>2. EndOf(ram) \in Nat /\ ram.start \in Nat
    BY DEF RamTyped, EndOf
  <2>3. QED
    BY <2>1, <2>2
<1>2. top \in Nat /\ top <= EndOf(ram) /\ \A s \in layout : top <= s.start
  <2>1. CASE layout = {}
    BY <1>1, <2>1
  <2>2. CASE layout # {}
    <3>1. {s.start : s \in layout} \in SUBSET Nat /\ {s.start : s \in layout} # {}
      BY <1>1, <2>2
    <3>2. /\ Min({s.start : s \in layout}) \in {s.start : s \in layout}
          /\ \A x \in {s.start : s \in layout} : Min({s.start : s \in layout}) <= x
      BY <3>1, Least
    <3>3. QED
      BY <1>1, <2>2, <3>2
  <2>3. QED
    BY <2>1, <2>2
<1> HIDE DEF top
<1>3. ReserveStart(size, align) = AlignDown(top - size, align)
  BY DEF ReserveStart, top
<1>4. top - size \in Int /\ size \in Nat
  BY <1>2 DEF Positive
<1>5. /\ ReserveStart(size, align) \in Int /\ ReserveStart(size, align) <= top - size
      /\ ReserveStart(size, align) % align = 0
  BY <1>3, <1>4, AlignedDown
<1>6. ram.start <= ReserveStart(size, align)
  BY <1>1, <1>5 DEF CanReserve
<1>7. QED
  BY <1>1, <1>2, <1>4, <1>5, <1>6

LEMMA FreeStartsType ==
    ASSUME RamTyped, NEW S, Sound(S), NEW size \in Positive, NEW align \in Positive
    PROVE  /\ FreeStarts(S, size, align) \in SUBSET Nat
           /\ \A start \in FreeStarts(S, size, align) :
                 /\ start % align = 0 /\ ram.start <= start
                 /\ IsFree(S, start, size)
<1>1. ASSUME NEW c \in {ram.start} \cup {EndOf(s) : s \in S}
      PROVE  c \in Nat /\ ram.start <= c
  <2>1. ASSUME NEW s \in S
        PROVE  EndOf(s) \in Nat /\ ram.start <= EndOf(s)
    BY DEF Sound, SectionType, InRam, EndOf, Positive, RamTyped
  <2>2. QED
    BY <2>1 DEF RamTyped
<1>2. ASSUME NEW c \in {ram.start} \cup {EndOf(s) : s \in S}
      PROVE  /\ AlignUp(c, align) \in Nat /\ AlignUp(c, align) % align = 0
             /\ ram.start <= AlignUp(c, align)
  <2>1. c \in Nat /\ ram.start <= c /\ ram.start \in Nat
    BY <1>1 DEF RamTyped
  <2>2. /\ AlignUp(c, align) \in Int /\ c <= AlignUp(c, align)
        /\ AlignUp(c, align) % align = 0
    BY <2>1, AlignedUp
  <2>3. QED
    BY <2>1, <2>2
<1>3. \A start \in FreeStarts(S, size, align) :
          /\ start \in Nat /\ start % align = 0 /\ ram.start <= start
          /\ IsFree(S, start, size)
  BY <1>2 DEF FreeStarts
<1>4. QED
  BY <1>3

\* place finds a place that is free.
LEMMA Placed ==
    ASSUME RamTyped, NEW S, Sound(S), NEW size \in Positive, NEW align \in Positive,
           FreeStarts(S, size, align) # {}
    PROVE  LET start == Min(FreeStarts(S, size, align))
           IN  /\ start \in Nat /\ start % align = 0 /\ ram.start <= start
               /\ IsFree(S, start, size)
<1>1. /\ FreeStarts(S, size, align) \in SUBSET Nat
      /\ \A start \in FreeStarts(S, size, align) :
            start % align = 0 /\ ram.start <= start /\ IsFree(S, start, size)
  BY FreeStartsType
<1>2. Min(FreeStarts(S, size, align)) \in FreeStarts(S, size, align)
  BY <1>1, Least
<1>3. QED
  BY <1>1, <1>2

--------------------------------------------------------------------------------
(* The inductive invariant.                                                  *)

Busy == {"code", "host", "finish"}
Phases == {"reserve", "run", "new", "done", "failed"} \cup Busy

\* What the name of a reserved section says of it.
Role(s) ==
    /\ s.name \in MailNames \cup DataNames
    /\ s.private <=> s.name \in MailNames
    /\ s.exec <=> s.name = "smc"

Request == [name : MailNames \cup DataNames, size : Positive, align : Positive,
            exec : BOOLEAN, private : BOOLEAN]

LayoutSound == Sound(layout) /\ \A s \in layout : Role(s) /\ s.write

\* A reservation still to make has a name of its own.
PendingSound ==
    /\ pending \in Seq(Request)
    /\ \A i \in DOMAIN pending :
          /\ Role(pending[i])
          /\ \A s \in layout : s.name # pending[i].name
          /\ \A j \in DOMAIN pending : i # j => pending[i].name # pending[j].name

AccessSound ==
    /\ phase = "reserve" => access = {}
    /\ access \subseteq [start : Nat, size : AccessSizes]
    /\ \A a \in access :
          /\ a.start % a.size = 0
          /\ \E s \in DataSections : s.start <= a.start /\ EndOf(a) <= EndOf(s)

\* The image repeats the layout, and the code is where the layout puts it.
TextPlace == Min(FreeStarts(layout, codeSize, CodeAlign))

ImageSound ==
    /\ Sound(image)
    /\ phase = "reserve" => image = {}
    /\ image # {} => layout \subseteq image
    /\ phase = "code" => image = layout
    /\ phase \in Busy => layout \subseteq image /\ RamEnds /\ EndOf(ram) <= AddressLimit
    /\ phase \in {"host", "finish"} =>
          \E s \in image : Named(image, ".text") = {s} /\ s.start = TextPlace

Encoding ==
    /\ phase \in Phases
    /\ why \notin {"invalid image", "code moved"}
    /\ codeSize \in Nat
    /\ phase \in Busy \cup {"new"} => codeSize \in Positive
    /\ phase \in {"reserve", "run"} => encoded = 0
    /\ encoded \in 0 .. Encodes
    /\ phase \in Busy \cup {"reserve", "run", "new"} => encoded < Encodes
    /\ tohost \in Nat \cup {None} /\ text \in Nat \cup {None}
    /\ encoded > 0 => text = TextPlace

LayoutIInv ==
    RamTyped /\ LayoutSound /\ PendingSound /\ AccessSound /\ ImageSound /\ Encoding

LEMMA FourTuple ==
    ASSUME NEW S, NEW a \in S, NEW b \in S, NEW c \in S, NEW d \in S,
           NEW t, t = <<a, b, c, d>>
    PROVE  /\ t \in Seq(S) /\ DOMAIN t = 1 .. 4
           /\ t[1] = a /\ t[2] = b /\ t[3] = c /\ t[4] = d
  OBVIOUS

LEMMA LayoutInitIInv == LayoutInit => LayoutIInv
<1> SUFFICES ASSUME LayoutInit
             PROVE  LayoutIInv
  OBVIOUS
<1>1. RamTyped
  BY LayoutAssumption DEF LayoutAssumption, LayoutInit, RamTyped
<1>2. LayoutSound /\ AccessSound /\ ImageSound
  BY DEF LayoutInit, LayoutSound, AccessSound, ImageSound, Sound, Busy
<1>3. PendingSound
  <2>1. /\ Mailbox(".tohost") \in Request /\ Mailbox(".fromhost") \in Request
        /\ DataRequest("scratch", FALSE) \in Request
        /\ DataRequest("smc", TRUE) \in Request
    BY LayoutAssumption
    DEF LayoutAssumption, Mailbox, DataRequest, Request, MailNames, DataNames
  <2>2. /\ Role(Mailbox(".tohost")) /\ Role(Mailbox(".fromhost"))
        /\ Role(DataRequest("scratch", FALSE)) /\ Role(DataRequest("smc", TRUE))
    BY DEF Mailbox, DataRequest, Role, MailNames, DataNames
  <2>3. /\ Mailbox(".tohost").name = ".tohost" /\ Mailbox(".fromhost").name = ".fromhost"
        /\ DataRequest("scratch", FALSE).name = "scratch"
        /\ DataRequest("smc", TRUE).name = "smc"
    BY DEF Mailbox, DataRequest
  <2>4. /\ pending = <<Mailbox(".tohost"), Mailbox(".fromhost"),
                       DataRequest("scratch", FALSE), DataRequest("smc", TRUE)>>
        /\ layout = {}
    BY DEF LayoutInit, Reservations
  <2>5. /\ pending \in Seq(Request) /\ DOMAIN pending = 1 .. 4
        /\ pending[1] = Mailbox(".tohost") /\ pending[2] = Mailbox(".fromhost")
        /\ pending[3] = DataRequest("scratch", FALSE) /\ pending[4] = DataRequest("smc", TRUE)
    <3> DEFINE a == Mailbox(".tohost")
               b == Mailbox(".fromhost")
               c == DataRequest("scratch", FALSE)
               d == DataRequest("smc", TRUE)
    <3>1. /\ a \in Request /\ b \in Request /\ c \in Request /\ d \in Request
          /\ pending = <<a, b, c, d>>
      BY <2>1, <2>4
    <3> HIDE DEF a, b, c, d
    <3>2. /\ pending \in Seq(Request) /\ DOMAIN pending = 1 .. 4
          /\ pending[1] = a /\ pending[2] = b /\ pending[3] = c /\ pending[4] = d
      BY <3>1, FourTuple
    <3>3. QED
      BY <3>2 DEF a, b, c, d
  <2>6. /\ Role(pending[1]) /\ Role(pending[2]) /\ Role(pending[3]) /\ Role(pending[4])
        /\ pending[1].name = ".tohost" /\ pending[2].name = ".fromhost"
        /\ pending[3].name = "scratch" /\ pending[4].name = "smc"
    BY <2>2, <2>3, <2>5
  <2>7. \A i \in 1 .. 4 : i = 1 \/ i = 2 \/ i = 3 \/ i = 4
    OBVIOUS
  <2>8. \A i \in DOMAIN pending : Role(pending[i])
    BY <2>5, <2>6, <2>7
  <2>9. \A i, j \in DOMAIN pending : i # j => pending[i].name # pending[j].name
    BY <2>5, <2>6, <2>7
  <2>10. QED
    BY <2>4, <2>5, <2>8, <2>9 DEF PendingSound
<1>4. Encoding
  BY LayoutAssumption
  DEF LayoutAssumption, LayoutInit, Encoding, Phases, Busy, None, Positive
<1>5. QED
  BY <1>1, <1>2, <1>3, <1>4 DEF LayoutIInv

\* A failure keeps what there is.
LEMMA FailStep ==
    ASSUME LayoutIInv, NEW reason, Fail(reason),
           reason \notin {"invalid image", "code moved"}
    PROVE  LayoutIInv'
<1>1. /\ UNCHANGED <<ram, layout, pending, access, codeSize, tohost, image, encoded, text>>
      /\ phase' = "failed" /\ why' = reason
  BY DEF Fail
<1>2. RamTyped' /\ LayoutSound'
  BY <1>1 DEF LayoutIInv, RamTyped, LayoutSound, Sound, InRam
<1>3. PendingSound' /\ AccessSound'
  BY <1>1 DEF LayoutIInv, PendingSound, AccessSound, DataSections
<1>4. ImageSound'
  BY <1>1 DEF LayoutIInv, ImageSound, Sound, InRam, Busy
<1>5. TextPlace' = TextPlace
  BY <1>1 DEF TextPlace, FreeStarts, IsFree
<1>6. Encoding'
  BY <1>1, <1>5 DEF LayoutIInv, Encoding, Busy, Phases
<1>7. QED
  BY <1>2, <1>3, <1>4, <1>6 DEF LayoutIInv

LEMMA ReserveStep ==
    ASSUME LayoutIInv, Reserve
    PROVE  LayoutIInv'
<1> DEFINE r == Head(pending)
           start == ReserveStart(r.size, r.align)
           s == NewSection(r.name, start, r.size, r.align, r.exec, r.private)
<1>1. /\ phase = "reserve" /\ pending # <<>> /\ pending' = Tail(pending)
      /\ phase' \in {"reserve", "run"}
      /\ layout' = IF CanReserve(r.size, r.align) THEN layout \cup {s} ELSE layout
      /\ UNCHANGED <<ram, why, access, codeSize, tohost, image, encoded, text>>
  BY DEF Reserve
<1>2. r \in Request /\ Role(r) /\ \A t \in layout : t.name # r.name
  BY <1>1 DEF LayoutIInv, PendingSound
<1>3. RamTyped'
  BY <1>1 DEF LayoutIInv, RamTyped
<1>4. LayoutSound'
  <2>1. CASE ~ CanReserve(r.size, r.align)
    BY <1>1, <2>1 DEF LayoutIInv, LayoutSound, Sound, InRam
  <2>2. CASE CanReserve(r.size, r.align)
    <3>1. r.size \in Positive /\ r.align \in Positive
      BY <1>2 DEF Request
    <3>2. /\ start \in Nat /\ start % r.align = 0 /\ ram.start <= start
          /\ start + r.size <= EndOf(ram)
          /\ \A t \in layout : start + r.size <= t.start
      BY <2>2, <3>1, Reserved DEF LayoutIInv, LayoutSound
    <3>3. /\ s.name = r.name /\ s.start = start /\ s.size = r.size /\ s.align = r.align
          /\ s.exec = r.exec /\ s.private = r.private /\ s.write = (r.name # ".text")
      BY DEF NewSection
    <3>4. s \in SectionType
      BY <1>2, <3>1, <3>2 DEF NewSection, SectionType, Request, MailNames, DataNames
    <3>5. Role(s) /\ s.write
      BY <1>2, <3>3 DEF Role, MailNames, DataNames
    <3> HIDE DEF s, start
    <3>6. InRam(s) /\ s.start % s.align = 0
      BY <3>2, <3>3 DEF InRam, EndOf
    <3>7. \A t \in layout : s.name # t.name /\ Disjoint(s, t)
      BY <1>2, <3>2, <3>3 DEF Disjoint, EndOf
    <3>8. Sound(layout \cup {s})
      BY <3>4, <3>6, <3>7, SoundAdd DEF LayoutIInv, LayoutSound
    <3>9. QED
      BY <1>1, <2>2, <3>5, <3>8 DEF LayoutIInv, LayoutSound, Sound, InRam
  <2>3. QED
    BY <2>1, <2>2
<1>5. PendingSound'
  <2>1. \A t \in layout' : t \in layout \/ t.name = r.name
    BY <1>1 DEF NewSection
  <2>2. /\ Tail(pending) \in Seq(Request) /\ DOMAIN Tail(pending) = 1 .. Len(pending) - 1
        /\ \A i \in DOMAIN Tail(pending) :
              Tail(pending)[i] = pending[i + 1] /\ i + 1 \in DOMAIN pending /\ i + 1 # 1
    BY <1>1 DEF LayoutIInv, PendingSound
  <2>3. r = pending[1] /\ 1 \in DOMAIN pending
    BY <1>1 DEF LayoutIInv, PendingSound
  <2>4. \A i \in DOMAIN Tail(pending) :
           /\ Role(Tail(pending)[i])
           /\ \A t \in layout : t.name # Tail(pending)[i].name
           /\ Tail(pending)[i].name # r.name
    BY <2>2, <2>3 DEF LayoutIInv, PendingSound
  <2>5. \A i, j \in DOMAIN Tail(pending) :
           i # j => Tail(pending)[i].name # Tail(pending)[j].name
    <3>1. \A i, j \in DOMAIN Tail(pending) : i # j => i + 1 # j + 1
      BY <2>2
    <3>2. QED
      BY <2>2, <3>1 DEF LayoutIInv, PendingSound
  <2> HIDE DEF r
  <2>6. QED
    BY <1>1, <2>1, <2>2, <2>4, <2>5 DEF PendingSound
<1>6. AccessSound' /\ ImageSound'
  <2>1. access = {} /\ image = {}
    BY <1>1 DEF LayoutIInv, AccessSound, ImageSound
  <2>2. access' = {} /\ image' = {} /\ phase' \in {"reserve", "run"}
    BY <1>1, <2>1
  <2>3. QED
    BY <2>2 DEF AccessSound, ImageSound, Sound, Busy
<1>7. Encoding'
  <2>1. /\ encoded = 0 /\ encoded \in 0 .. Encodes /\ encoded < Encodes
        /\ codeSize \in Nat /\ tohost \in Nat \cup {None} /\ text \in Nat \cup {None}
        /\ why \notin {"invalid image", "code moved"}
    BY <1>1 DEF LayoutIInv, Encoding, Busy
  <2>2. /\ encoded' = encoded /\ codeSize' = codeSize /\ tohost' = tohost
        /\ text' = text /\ why' = why
    BY <1>1
  <2>3. /\ encoded' = 0 /\ codeSize' \in Nat /\ tohost' \in Nat \cup {None}
        /\ text' \in Nat \cup {None} /\ why' \notin {"invalid image", "code moved"}
    BY <2>1, <2>2
  <2>4. encoded' \in 0 .. Encodes /\ encoded' < Encodes /\ ~ (encoded' > 0)
    <3>1. encoded' = encoded /\ encoded = 0 /\ encoded \in 0 .. Encodes /\ encoded < Encodes
      BY <2>1, <2>2
    <3>2. QED
      BY <3>1
  <2>5. QED
    BY <1>1, <2>3, <2>4 DEF Encoding, Phases, Busy
<1>8. QED
  BY <1>3, <1>4, <1>5, <1>6, <1>7 DEF LayoutIInv

\* What does not touch the layout.
LEMMA KeptStep ==
    ASSUME LayoutIInv, UNCHANGED <<ram, layout, pending>>,
           phase' # "reserve", access' = access
    PROVE  RamTyped' /\ LayoutSound' /\ PendingSound' /\ AccessSound'
<1>1. RamTyped' /\ LayoutSound'
  BY DEF LayoutIInv, RamTyped, LayoutSound, Sound, InRam
<1>2. PendingSound' /\ AccessSound'
  BY DEF LayoutIInv, PendingSound, AccessSound, DataSections
<1>3. QED
  BY <1>1, <1>2

LEMMA SamePlace ==
    ASSUME UNCHANGED <<ram, layout, codeSize>>
    PROVE  TextPlace' = TextPlace
  BY DEF TextPlace, FreeStarts, IsFree

\* A stage of an encode.
LEMMA EncodeStep ==
    ASSUME LayoutIInv, phase \in Busy \cup {"new"}, phase' \in Busy,
           UNCHANGED <<ram, layout, why, codeSize, tohost, encoded, text>>
    PROVE  Encoding'
<1>1. TextPlace' = TextPlace
  BY SamePlace
<1>2. /\ why \notin {"invalid image", "code moved"} /\ codeSize \in Positive
      /\ codeSize \in Nat /\ encoded \in 0 .. Encodes /\ encoded < Encodes
      /\ tohost \in Nat \cup {None} /\ text \in Nat \cup {None}
      /\ encoded > 0 => text = TextPlace
  BY DEF LayoutIInv, Encoding
<1>3. /\ why' = why /\ codeSize' = codeSize /\ tohost' = tohost /\ text' = text
      /\ encoded' = encoded
  OBVIOUS
<1>4. QED
  BY <1>1, <1>2, <1>3 DEF Encoding, Phases, Busy

LEMMA AccessStep ==
    ASSUME LayoutIInv, NEW size \in AccessSizes, Access(size)
    PROVE  LayoutIInv'
<1>1. /\ UNCHANGED <<ram, layout, pending, why, codeSize, tohost, image, encoded, text>>
      /\ phase = "run" /\ phase' = phase
  BY DEF Access
<1>2. size \in Positive
  BY LayoutAssumption DEF LayoutAssumption
<1>3. PICK s \in DataSections :
         /\ s.size >= size /\ FirstAccess(s, size) <= LastAccess(s, size)
         /\ \E k \in FirstAccess(s, size) \div size .. LastAccess(s, size) \div size :
               access' = {[start |-> k * size, size |-> size]}
  BY DEF Access
<1>4. PICK k \in FirstAccess(s, size) \div size .. LastAccess(s, size) \div size :
         access' = {[start |-> k * size, size |-> size]}
  BY <1>3
<1>5. s \in layout
  BY DEF DataSections
<1>6. s.start \in Nat /\ s.size \in Nat /\ EndOf(s) \in Nat /\ EndOf(s) >= size
  BY <1>2, <1>3, <1>5 DEF LayoutIInv, LayoutSound, Sound, SectionType, EndOf, Positive
<1>7. /\ FirstAccess(s, size) \in Int /\ s.start <= FirstAccess(s, size)
      /\ FirstAccess(s, size) % size = 0
  BY <1>2, <1>6, AlignedUp DEF FirstAccess
<1>8. /\ LastAccess(s, size) \in Int /\ LastAccess(s, size) <= EndOf(s) - size
      /\ LastAccess(s, size) % size = 0
  <2>1. EndOf(s) - size \in Int /\ ~ (EndOf(s) < size)
    BY <1>2, <1>6 DEF Positive
  <2>2. QED
    BY <1>2, <2>1, AlignedDown DEF LastAccess
<1>9. /\ k * size \in Int /\ FirstAccess(s, size) <= k * size
      /\ k * size <= LastAccess(s, size)
  <2>1. PICK p \in Int : p = FirstAccess(s, size) \div size /\ FirstAccess(s, size) = size * p
    BY <1>2, <1>7, Divides
  <2>2. PICK q \in Int : q = LastAccess(s, size) \div size /\ LastAccess(s, size) = size * q
    BY <1>2, <1>8, Divides
  <2>3. k \in Int /\ p <= k /\ k <= q
    BY <2>1, <2>2
  <2>4. size * p <= size * k /\ size * k <= size * q /\ size * k = k * size
    BY <1>2, <2>3, Monotone
  <2>5. QED
    BY <1>2, <2>1, <2>2, <2>3, <2>4 DEF Positive
<1>10. (k * size) % size = 0
  <2>1. (size * k) % size = 0 /\ size * k = k * size
    BY <1>2, <1>7, <1>8, Multiple DEF Positive
  <2>2. QED
    BY <2>1
<1>11. AccessSound'
  <2> DEFINE a == [start |-> k * size, size |-> size]
  <2>1. /\ a.start = k * size /\ a.size = size /\ EndOf(a) = k * size + size
    BY DEF EndOf
  <2>2. a \in [start : Nat, size : AccessSizes]
    BY <1>6, <1>7, <1>9
  <2>3. s.start <= a.start /\ EndOf(a) <= EndOf(s)
    BY <1>2, <1>6, <1>7, <1>8, <1>9, <2>1 DEF Positive
  <2>4. DataSections' = DataSections
    BY <1>1 DEF DataSections
  <2>5. access' = {a} /\ a.start % a.size = 0
    BY <1>4, <1>10, <2>1
  <2> HIDE DEF a
  <2>6. QED
    BY <1>1, <2>2, <2>3, <2>4, <2>5 DEF AccessSound
<1>12. RamTyped' /\ LayoutSound' /\ PendingSound' /\ ImageSound' /\ Encoding'
  <2>1. RamTyped' /\ LayoutSound'
    BY <1>1 DEF LayoutIInv, RamTyped, LayoutSound, Sound, InRam
  <2>2. PendingSound' /\ ImageSound'
    BY <1>1 DEF LayoutIInv, PendingSound, ImageSound, Sound, InRam, Busy
  <2>3. TextPlace' = TextPlace
    BY <1>1, SamePlace
  <2>4. Encoding'
    BY <1>1, <2>3 DEF LayoutIInv, Encoding, Busy, Phases
  <2>5. QED
    BY <2>1, <2>2, <2>4
<1>13. QED
  BY <1>11, <1>12 DEF LayoutIInv

LEMMA GenerateStep ==
    ASSUME LayoutIInv, Generate
    PROVE  LayoutIInv'
<1>1. CASE Fail("no .tohost")
  BY <1>1, FailStep
<1>2. ASSUME NEW s \in Named(layout, ".tohost"), NEW size \in CodeSizes,
             tohost' = s.start, codeSize' = size, phase' = "new",
             UNCHANGED <<ram, request, layout, pending, why, access, image, encoded,
                         text>>
      PROVE  LayoutIInv'
  <2>1. RamTyped' /\ LayoutSound' /\ PendingSound' /\ AccessSound'
    BY <1>2, KeptStep
  <2>2. ImageSound'
    BY <1>2 DEF LayoutIInv, ImageSound, Sound, InRam, Busy
  <2>3. tohost' \in Nat /\ codeSize' \in Positive /\ codeSize' \in Nat
    BY <1>2, LayoutAssumption
    DEF LayoutIInv, LayoutSound, Sound, SectionType, Named, LayoutAssumption, Positive
  <2>4. phase = "run"
    BY DEF Generate
  <2>5. /\ encoded = 0 /\ encoded \in 0 .. Encodes /\ encoded < Encodes
        /\ text \in Nat \cup {None} /\ why \notin {"invalid image", "code moved"}
    BY <2>4 DEF LayoutIInv, Encoding
  <2>6. encoded' = encoded /\ text' = text /\ why' = why
    BY <1>2
  <2>7. ~ (encoded' > 0)
    <3>1. encoded' = 0
      BY <2>5, <2>6
    <3>2. QED
      BY <3>1
  <2>8. Encoding'
    BY <1>2, <2>3, <2>5, <2>6, <2>7 DEF Encoding, Phases, Busy
  <2>9. QED
    BY <2>1, <2>2, <2>8 DEF LayoutIInv
<1>3. QED
  BY <1>1, <1>2 DEF Generate

\* An image whose sections are sound is valid.
LEMMA SoundIsValid ==
    ASSUME NEW S, Sound(S), RamEnds, EndOf(ram) <= AddressLimit
    PROVE  Valid(S)
<1>1. ASSUME NEW s \in S
      PROVE  s.size > 0
  BY DEF Sound, SectionType, Positive
<1>2. QED
  BY <1>1 DEF Sound, Valid

LEMMA NewElfStep ==
    ASSUME LayoutIInv, NewElf
    PROVE  LayoutIInv'
<1>1. CASE Fail("invalid layout")
  BY <1>1, FailStep
<1>2. CASE /\ Valid(layout)
           /\ image' = layout
           /\ phase' = "code"
           /\ UNCHANGED <<ram, request, layout, pending, why, access, codeSize,
                          tohost, encoded, text>>
  <2>1. RamTyped' /\ LayoutSound' /\ PendingSound' /\ AccessSound'
    BY <1>2, KeptStep
  <2>2. ImageSound'
    <3>1. Sound(image)' /\ RamEnds' /\ (EndOf(ram) <= AddressLimit)'
      BY <1>2 DEF LayoutIInv, LayoutSound, Sound, InRam, Valid, RamEnds, EndOf
    <3>2. layout' \subseteq image' /\ image' = layout' /\ phase' = "code"
      BY <1>2
    <3>3. QED
      BY <3>1, <3>2 DEF ImageSound, Busy
  <2>3. Encoding'
    <3>1. phase \in Busy \cup {"new"} /\ phase' \in Busy
      BY <1>2 DEF NewElf, Busy
    <3>2. QED
      BY <1>2, <3>1, EncodeStep
  <2>4. QED
    BY <2>1, <2>2, <2>3 DEF LayoutIInv
<1>3. QED
  BY <1>1, <1>2 DEF NewElf

\* A section that is placed overlaps nothing.
LEMMA PlaceSound ==
    ASSUME RamTyped, NEW S, Sound(S), NEW size \in Positive, NEW align \in Positive,
           NEW exec \in BOOLEAN, FreeStarts(S, size, align) # {},
           NEW name \in {".tohost", ".fromhost", ".text"},
           \A t \in S : t.name # name
    PROVE  LET s == NewSection(name, Min(FreeStarts(S, size, align)), size, align, exec,
                               FALSE)
           IN  /\ Sound(S \cup {s}) /\ s.name = name
               /\ s.start = Min(FreeStarts(S, size, align))
<1> DEFINE start == Min(FreeStarts(S, size, align))
           s == NewSection(name, start, size, align, exec, FALSE)
<1>1. /\ start \in Nat /\ start % align = 0 /\ ram.start <= start
      /\ IsFree(S, start, size)
  BY Placed
<1> HIDE DEF start
<1>2. /\ s.name = name /\ s.start = start /\ s.size = size /\ s.align = align
      /\ s \in SectionType
  BY <1>1 DEF NewSection, SectionType
<1>3. \A t \in S : Disjoint([start |-> start, size |-> size], t)
  BY <1>1 DEF IsFree
<1> HIDE DEF s
<1>4. InRam(s) /\ s.start % s.align = 0
  BY <1>1, <1>2 DEF InRam, EndOf, IsFree
<1>5. \A t \in S : s.name # t.name /\ Disjoint(s, t)
  BY <1>2, <1>3 DEF Disjoint, EndOf
<1>6. Sound(S \cup {s})
  BY <1>2, <1>4, <1>5, SoundAdd
<1>7. QED
  BY <1>2, <1>6 DEF s, start

LEMMA AddCodeStep ==
    ASSUME LayoutIInv, AddCode
    PROVE  LayoutIInv'
<1>1. CASE Fail("no room for code")
  BY <1>1, FailStep
<1>2. CASE /\ FreeStarts(image, codeSize, CodeAlign) # {}
           /\ Place(".text", codeSize, CodeAlign)
           /\ phase' = "host"
           /\ UNCHANGED <<ram, request, layout, pending, why, access, codeSize,
                          tohost, encoded, text>>
  <2> DEFINE new == NewSection(".text", Min(FreeStarts(image, codeSize, CodeAlign)),
                               codeSize, CodeAlign, TRUE, FALSE)
  <2>1. RamTyped' /\ LayoutSound' /\ PendingSound' /\ AccessSound'
    BY <1>2, KeptStep
  <2>2. /\ phase = "code" /\ image = layout /\ RamTyped /\ Sound(image)
        /\ codeSize \in Positive /\ CodeAlign \in Positive
        /\ RamEnds /\ EndOf(ram) <= AddressLimit
    BY LayoutAssumption
    DEF AddCode, LayoutIInv, LayoutSound, ImageSound, Encoding, Busy, LayoutAssumption
  <2>3. \A t \in image : t.name # ".text"
    BY <2>2 DEF LayoutIInv, LayoutSound, Role, MailNames, DataNames
  <2>4. /\ Sound(image \cup {new}) /\ new.name = ".text"
        /\ new.start = Min(FreeStarts(image, codeSize, CodeAlign))
    BY <1>2, <2>2, <2>3, PlaceSound, ZenonT(30)
  <2>5. image' = image \cup {new}
    BY <1>2 DEF Place
  <2> HIDE DEF new
  <2>6. Named(image', ".text") = {new}
    BY <2>3, <2>4, <2>5 DEF Named
  <2>7. new.start = TextPlace'
    BY <1>2, <2>2, <2>4, SamePlace DEF TextPlace
  <2>8. ImageSound'
    <3>1. Sound(image)' /\ RamEnds' /\ (EndOf(ram) <= AddressLimit)'
      BY <1>2, <2>2, <2>4, <2>5 DEF Sound, InRam, RamEnds, EndOf
    <3>2. layout' \subseteq image' /\ new \in image' /\ phase' = "host"
      BY <1>2, <2>2, <2>5
    <3>3. QED
      BY <2>6, <2>7, <3>1, <3>2 DEF ImageSound, Named, Busy
  <2>9. Encoding'
    <3>1. phase \in Busy \cup {"new"} /\ phase' \in Busy
      BY <1>2, <2>2 DEF Busy
    <3>2. QED
      BY <1>2, <3>1, EncodeStep
  <2>10. QED
    BY <2>1, <2>8, <2>9 DEF LayoutIInv
<1>3. QED
  BY <1>1, <1>2 DEF AddCode

LEMMA ApplyHostStep ==
    ASSUME LayoutIInv, ApplyHost
    PROVE  LayoutIInv'
<1>1. phase = "host"
  BY DEF ApplyHost
<1>2. PICK s \in image : Named(image, ".text") = {s} /\ s.start = TextPlace
  BY <1>1 DEF LayoutIInv, ImageSound
<1>3. /\ Sound(image) /\ RamTyped /\ layout \subseteq image
      /\ RamEnds /\ EndOf(ram) <= AddressLimit
  BY <1>1 DEF LayoutIInv, ImageSound, Busy
<1>4. CASE Fail("no room for a mailbox")
  BY <1>4, FailStep
<1>5. CASE /\ phase' = "finish"
           /\ UNCHANGED <<ram, request, layout, pending, why, access, codeSize,
                          tohost, image, encoded, text>>
  <2>1. RamTyped' /\ LayoutSound' /\ PendingSound' /\ AccessSound'
    BY <1>5, KeptStep
  <2>2. TextPlace' = TextPlace
    BY <1>5, SamePlace
  <2>3. ImageSound'
    <3>1. Sound(image)' /\ RamEnds' /\ (EndOf(ram) <= AddressLimit)'
      BY <1>3, <1>5 DEF Sound, InRam, RamEnds, EndOf
    <3>2. layout' \subseteq image' /\ s \in image' /\ Named(image', ".text") = {s}
      BY <1>2, <1>3, <1>5
    <3>3. QED
      BY <1>2, <1>5, <2>2, <3>1, <3>2 DEF ImageSound, Named, Busy
  <2>4. Encoding'
    <3>1. phase \in Busy \cup {"new"} /\ phase' \in Busy
      BY <1>1, <1>5 DEF Busy
    <3>2. QED
      BY <1>5, <3>1, EncodeStep
  <2>5. QED
    BY <2>1, <2>3, <2>4 DEF LayoutIInv
<1>6. ASSUME NEW name \in {".tohost", ".fromhost"}, Missing(name),
             FreeStarts(image, MailboxSize, MailboxAlign) # {},
             Place(name, MailboxSize, MailboxAlign),
             UNCHANGED <<ram, request, layout, pending, phase, why, access, codeSize,
                         tohost, encoded, text>>
      PROVE  LayoutIInv'
  <2> DEFINE new == NewSection(name, Min(FreeStarts(image, MailboxSize, MailboxAlign)),
                               MailboxSize, MailboxAlign, FALSE, FALSE)
  <2>1. RamTyped' /\ LayoutSound' /\ PendingSound' /\ AccessSound'
    BY <1>1, <1>6, KeptStep
  <2>2. MailboxSize \in Positive /\ MailboxAlign \in Positive
    BY LayoutAssumption DEF LayoutAssumption
  <2>3. \A t \in image : t.name # name
    BY <1>6 DEF Missing, Named
  <2>4. Sound(image \cup {new}) /\ new.name = name
    <3>1. /\ name \in {".tohost", ".fromhost", ".text"} /\ FALSE \in BOOLEAN
          /\ FreeStarts(image, MailboxSize, MailboxAlign) # {}
      BY <1>6
    <3>2. /\ Sound(image \cup {new}) /\ new.name = name
          /\ new.start = Min(FreeStarts(image, MailboxSize, MailboxAlign))
      BY <1>3, <2>2, <2>3, <3>1, PlaceSound, ZenonT(30)
    <3>3. QED
      BY <3>2
  <2>5. image' = image \cup {new}
    BY <1>6 DEF Place
  <2> HIDE DEF new
  <2>6. Named(image', ".text") = {s} /\ s \in image'
    BY <1>2, <1>6, <2>4, <2>5 DEF Named
  <2>7. TextPlace' = TextPlace
    BY <1>6, SamePlace
  <2>8. ImageSound'
    <3>1. Sound(image)' /\ RamEnds' /\ (EndOf(ram) <= AddressLimit)'
      BY <1>3, <1>6, <2>4, <2>5 DEF Sound, InRam, RamEnds, EndOf
    <3>2. layout' \subseteq image' /\ phase' = "host"
      BY <1>1, <1>3, <1>6, <2>5
    <3>3. QED
      BY <1>2, <2>6, <2>7, <3>1, <3>2 DEF ImageSound, Named, Busy
  <2>9. Encoding'
    <3>1. phase \in Busy \cup {"new"} /\ phase' \in Busy
      BY <1>1, <1>6 DEF Busy
    <3>2. QED
      BY <1>6, <3>1, EncodeStep
  <2>10. QED
    BY <2>1, <2>8, <2>9 DEF LayoutIInv
<1>7. QED
  BY <1>4, <1>5, <1>6 DEF ApplyHost

LEMMA FinishStep ==
    ASSUME LayoutIInv, Finish
    PROVE  LayoutIInv'
<1>1. /\ phase = "finish" /\ Sound(image) /\ RamEnds /\ EndOf(ram) <= AddressLimit
      /\ layout \subseteq image
  BY DEF Finish, LayoutIInv, ImageSound, Busy
<1>2. Valid(image)
  BY <1>1, SoundIsValid
<1>3. TextAddr = TextPlace /\ TextPlace \in Nat
  <2>1. PICK s \in image : Named(image, ".text") = {s} /\ s.start = TextPlace
    BY <1>1 DEF LayoutIInv, ImageSound
  <2>2. {t.start : t \in Named(image, ".text")} = {TextPlace}
    BY <2>1
  <2>3. TextPlace \in Nat
    BY <1>1, <2>1 DEF Sound, SectionType
  <2>4. Min({TextPlace}) \in {TextPlace}
    BY <2>3, Least
  <2>5. QED
    BY <2>2, <2>3, <2>4 DEF TextAddr
<1>4. encoded > 0 => text = TextAddr
  BY <1>3 DEF LayoutIInv, Encoding
<1>5. /\ text' = TextAddr /\ encoded' = encoded + 1
      /\ phase' = IF encoded' = Encodes THEN "done" ELSE "new"
      /\ UNCHANGED <<ram, request, layout, pending, why, access, codeSize, tohost, image>>
  BY <1>2, <1>4 DEF Finish
<1>6. RamTyped' /\ LayoutSound' /\ PendingSound' /\ AccessSound'
  BY <1>5, KeptStep
<1>7. ImageSound'
  <2>1. Sound(image)' /\ layout' \subseteq image'
    BY <1>1, <1>5 DEF Sound, InRam
  <2>2. phase' \in {"done", "new"}
    BY <1>5
  <2>3. QED
    BY <2>1, <2>2 DEF ImageSound, Busy
<1>8. Encoding'
  <2>1. /\ why \notin {"invalid image", "code moved"} /\ codeSize \in Positive
        /\ codeSize \in Nat /\ encoded \in 0 .. Encodes /\ encoded < Encodes
        /\ tohost \in Nat \cup {None}
    BY <1>1 DEF LayoutIInv, Encoding, Busy
  <2>2. Encodes \in Nat
    BY LayoutAssumption DEF LayoutAssumption, Positive
  <2>3. encoded' \in 0 .. Encodes /\ (encoded' # Encodes => encoded' < Encodes)
    <3>1. encoded' = encoded + 1 /\ encoded \in 0 .. Encodes /\ encoded < Encodes
      BY <1>5, <2>1
    <3>2. QED
      BY <2>2, <3>1
  <2>4. text' = TextPlace'
    BY <1>3, <1>5, SamePlace
  <2>5. why' = why /\ codeSize' = codeSize /\ tohost' = tohost /\ text' \in Nat
    BY <1>3, <1>5
  <2>6. \/ phase' = "done"
        \/ phase' = "new" /\ encoded' < Encodes
    BY <1>5, <2>3
  <2>7. QED
    BY <2>1, <2>3, <2>4, <2>5, <2>6 DEF Encoding, Phases, Busy
<1>9. QED
  BY <1>6, <1>7, <1>8 DEF LayoutIInv

LEMMA LayoutNextIInv == LayoutIInv /\ [LayoutNext]_layoutVars => LayoutIInv'
<1> SUFFICES ASSUME LayoutIInv, [LayoutNext]_layoutVars
             PROVE  LayoutIInv'
  OBVIOUS
<1>1. CASE Reserve
  BY <1>1, ReserveStep
<1>2. CASE Generate
  BY <1>2, GenerateStep
<1>3. CASE NewElf
  BY <1>3, NewElfStep
<1>4. CASE AddCode
  BY <1>4, AddCodeStep
<1>5. CASE ApplyHost
  BY <1>5, ApplyHostStep
<1>6. CASE Finish
  BY <1>6, FinishStep
<1>7. ASSUME NEW size \in AccessSizes, Access(size)
      PROVE  LayoutIInv'
  BY <1>7, AccessStep
<1>8. ASSUME NEW size \in AccessSizes, AccessFails(size)
      PROVE  LayoutIInv'
  <2>1. Fail("access")
    BY <1>8 DEF AccessFails
  <2>2. QED
    BY <2>1, FailStep
<1>9. CASE UNCHANGED layoutVars
  <2>1. /\ UNCHANGED <<ram, layout, pending, phase, why, access, codeSize, tohost>>
        /\ UNCHANGED <<image, encoded, text>>
    BY <1>9 DEF layoutVars
  <2>2. TextPlace' = TextPlace
    BY <2>1, SamePlace
  <2>3. RamTyped' /\ LayoutSound' /\ PendingSound' /\ AccessSound'
    BY <2>1
    DEF LayoutIInv, RamTyped, LayoutSound, PendingSound, AccessSound, DataSections,
        Sound, InRam
  <2>4. ImageSound' /\ Encoding'
    BY <2>1, <2>2
    DEF LayoutIInv, ImageSound, Encoding, Sound, InRam, RamEnds, EndOf
  <2>5. QED
    BY <2>3, <2>4 DEF LayoutIInv
<1>10. QED
  BY <1>1, <1>2, <1>3, <1>4, <1>5, <1>6, <1>7, <1>8, <1>9 DEF LayoutNext

--------------------------------------------------------------------------------
(* The theorems.                                                             *)

\* The inductive invariant (memory.rs: reserve; elf.rs: place, add_code).
THEOREM LayoutInvariance == LayoutSpec => []LayoutIInv
<1>1. QED
  BY LayoutInitIInv, LayoutNextIInv, PTL DEF LayoutSpec

\* The layout's state is well typed.
THEOREM LayoutTyping == LayoutSpec => []LayoutTypeOK
<1>1. LayoutIInv => LayoutTypeOK
  BY DEF LayoutIInv, LayoutSound, ImageSound, Sound, AccessSound, Encoding, Phases, Busy,
     LayoutTypeOK
<1>2. QED
  BY <1>1, LayoutInvariance, PTL

\* Whatever the RAM and the sizes, sections lie in it, aligned, and apart
\* (memory.rs: reserve; elf.rs: place).
THEOREM SectionsStayApart == LayoutSpec => []SectionsAreSound
<1>1. LayoutIInv => SectionsAreSound
  <2>1. LayoutIInv => Sound(layout \cup image)
    <3> SUFFICES ASSUME LayoutIInv
                 PROVE  Sound(layout \cup image)
      OBVIOUS
    <3>1. \/ image = {} /\ layout \cup image = layout
          \/ layout \cup image = image
      BY DEF LayoutIInv, ImageSound
    <3>2. QED
      BY <3>1 DEF LayoutIInv, LayoutSound, ImageSound
  <2>2. QED
    BY <2>1 DEF SectionsAreSound, Sound
<1>2. QED
  BY <1>1, LayoutInvariance, PTL

\* Repeated encodes never fail for the image's own sake and never move the
\* code (orchestrator.rs: resolve_self_check).
THEOREM EncodesRepeat == LayoutSpec => []EncodingIsStable
<1>1. LayoutIInv => EncodingIsStable
  BY DEF LayoutIInv, Encoding, EncodingIsStable
<1>2. QED
  BY <1>1, LayoutInvariance, PTL

\* The access a generated instruction makes lies in a data section, and in no
\* other section, not even one placed later (basicblock.rs:
\* confine_memory_access; memory.rs: data_sections).
THEOREM AccessesAreSafe == LayoutSpec => []AccessesHitData
<1>1. ASSUME LayoutIInv, SectionsAreSound
      PROVE  AccessesHitData
  <2>1. SUFFICES ASSUME NEW a \in access
                 PROVE  /\ a.start % a.size = 0
                        /\ \E s \in layout : s.start <= a.start /\ EndOf(a) <= EndOf(s)
                        /\ \A s \in layout \cup image :
                              ~ Disjoint(s, a) =>
                                  IF Named(layout, "scratch") # {} THEN s.name = "scratch"
                                                                   ELSE s.name = "smc"
    BY DEF AccessesHitData
  <2>2. a.start \in Nat /\ a.size \in Nat /\ EndOf(a) \in Nat /\ a.start % a.size = 0
    <3>1. access \subseteq [start : Nat, size : AccessSizes] /\ AccessSizes \subseteq Positive
      BY <1>1, LayoutAssumption DEF LayoutIInv, AccessSound, LayoutAssumption
    <3>2. a.start \in Nat /\ a.size \in Positive
      BY <3>1
    <3>3. a.start % a.size = 0
      BY <1>1 DEF LayoutIInv, AccessSound
    <3>4. QED
      BY <3>2, <3>3 DEF EndOf, Positive
  <2>3. PICK s \in DataSections : s.start <= a.start /\ EndOf(a) <= EndOf(s)
    BY <1>1 DEF LayoutIInv, AccessSound
  <2>4. s \in layout
    BY DEF DataSections
  <2>5. ASSUME NEW t \in layout \cup image, t # s
        PROVE  Disjoint(t, a)
    <3>1. Disjoint(t, s)
      BY <1>1, <2>4, <2>5 DEF SectionsAreSound
    <3>2. /\ EndOf(s) \in Nat /\ EndOf(t) \in Nat /\ s.start \in Nat /\ t.start \in Nat
      BY <1>1, <2>4
      DEF LayoutIInv, LayoutSound, ImageSound, Sound, SectionType, EndOf, Positive
    <3>3. QED
      BY <2>2, <2>3, <3>1, <3>2 DEF Disjoint
  <2>6. IF Named(layout, "scratch") # {} THEN s.name = "scratch" ELSE s.name = "smc"
    <3>1. \A t \in layout :
             Role(t) /\ t.write /\ t.private \in BOOLEAN /\ t.exec \in BOOLEAN
      BY <1>1 DEF LayoutIInv, LayoutSound, Sound, SectionType
    <3>2. \A t \in layout : ~ t.private <=> t.name \in DataNames
      BY <3>1 DEF Role, MailNames, DataNames
    <3>3. s.name \in DataNames
      BY <2>4, <3>1, <3>2 DEF DataSections
    <3>4. CASE Named(layout, "scratch") # {}
      <4>1. PICK t \in layout : t.name = "scratch"
        BY <3>4 DEF Named
      <4>2. t.write /\ ~ t.private /\ ~ t.exec
        BY <3>1, <3>2, <4>1 DEF Role, DataNames
      <4>3. ~ s.exec
        BY <4>1, <4>2 DEF DataSections
      <4>4. QED
        BY <2>4, <3>1, <3>3, <3>4, <4>3 DEF Role, DataNames
    <3>5. CASE Named(layout, "scratch") = {}
      BY <2>4, <3>3, <3>5 DEF Named, DataNames
    <3>6. QED
      BY <3>4, <3>5
  <2>7. QED
    BY <2>2, <2>3, <2>4, <2>5, <2>6
<1>2. QED
  BY <1>1, LayoutInvariance, SectionsStayApart, PTL

--------------------------------------------------------------------------------
(* The first fit.                                                            *)

\* A non-empty set of natural numbers with a bound has a greatest member.
LEMMA Greatest ==
    ASSUME NEW S \in SUBSET Nat, S # {}, NEW bound \in Nat, \A x \in S : x <= bound
    PROVE  \E x \in S : \A y \in S : y <= x
<1> DEFINE T == {bound - x : x \in S}
<1>1. T \in SUBSET Nat /\ T # {}
  <2>1. \A x \in S : bound - x \in Nat
    OBVIOUS
  <2>2. QED
    BY <2>1
<1>2. Min(T) \in T /\ \A z \in T : Min(T) <= z
  BY <1>1, Least
<1>3. PICK x \in S : Min(T) = bound - x
  BY <1>2
<1>4. ASSUME NEW y \in S
      PROVE  y <= x
  <2>1. bound - x <= bound - y
    BY <1>2, <1>3
  <2>2. QED
    BY <2>1
<1>5. QED
  BY <1>4

\* An aligned address is aligned up to nothing above it.
LEMMA AlignedBelow ==
    ASSUME NEW c \in Nat, NEW x \in Nat, NEW a \in Positive, c <= x, x % a = 0
    PROVE  AlignUp(c, a) <= x
<1>1. /\ AlignUp(c, a) \in Int /\ AlignUp(c, a) < c + a /\ AlignUp(c, a) % a = 0
  BY AlignedUp
<1>2. PICK p \in Int : x = a * p
  BY Divides
<1>3. PICK q \in Int : AlignUp(c, a) = a * q
  BY <1>1, Divides
<1>4. SUFFICES ASSUME p + 1 <= q
               PROVE  FALSE
  <2>1. ASSUME q <= p
        PROVE  a * q <= a * p
    BY <2>1, Monotone
  <2>2. q <= p \/ p + 1 <= q
    OBVIOUS
  <2>3. QED
    BY <1>2, <1>3, <1>4, <2>1, <2>2
<1>5. a * (p + 1) <= a * q /\ a * (p + 1) = a * p + a
  BY <1>4, Monotone DEF Positive
<1>6. QED
  BY <1>1, <1>2, <1>3, <1>5 DEF Positive

\* Among the starts that place tries there is one at or below any that fits.
LEMMA FitIsFound ==
    ASSUME RamTyped, NEW S, Sound(S), NEW size \in Positive, NEW align \in Positive,
           NEW x \in FirstFit(S, size, align)
    PROVE  \E start \in FreeStarts(S, size, align) : start <= x
<1> DEFINE C == {ram.start} \cup {EndOf(s) : s \in S}
           D == {c \in C : c <= x}
<1>1. /\ x \in Nat /\ ram.start <= x /\ x % align = 0 /\ x + size <= EndOf(ram)
      /\ \A s \in S : Disjoint([start |-> x, size |-> size], s)
      /\ ram.start \in Nat /\ EndOf(ram) \in Nat
  BY DEF FirstFit, IsFree, RamTyped, EndOf
<1>2. \A s \in S : s.start \in Nat /\ s.size \in Nat /\ EndOf(s) \in Nat
  BY DEF Sound, SectionType, EndOf, Positive
<1>3. C \subseteq Nat
  BY <1>1, <1>2
<1>4. D \in SUBSET Nat /\ D # {} /\ \A c \in D : c <= x
  BY <1>1, <1>3
<1>5. PICK c \in D : \A d \in D : d <= c
  BY <1>1, <1>4, Greatest
<1> DEFINE start == AlignUp(c, align)
<1>6. c \in Nat /\ c <= x /\ c \in C
  BY <1>4
<1>7. start \in Int /\ c <= start /\ start <= x
  BY <1>1, <1>6, AlignedUp, AlignedBelow
<1> HIDE DEF start
<1>8. ASSUME NEW s \in S
      PROVE  Disjoint([start |-> start, size |-> size], s)
  <2>1. \/ x + size <= s.start
        \/ EndOf(s) <= x
    BY <1>1 DEF Disjoint, EndOf
  <2>2. CASE x + size <= s.start
    <3>1. start + size <= s.start
      BY <1>1, <1>2, <1>7, <2>2 DEF Positive
    <3>2. QED
      BY <3>1 DEF Disjoint, EndOf
  <2>3. CASE EndOf(s) <= x
    <3>1. EndOf(s) <= c
      BY <1>5, <2>3
    <3>2. EndOf(s) <= start
      BY <1>2, <1>6, <1>7, <3>1
    <3>3. QED
      BY <3>2 DEF Disjoint
  <2>4. QED
    BY <2>1, <2>2, <2>3
<1>9. start + size <= EndOf(ram)
  BY <1>1, <1>7 DEF Positive
<1>10. start \in FreeStarts(S, size, align)
  BY <1>6, <1>8, <1>9 DEF FreeStarts, IsFree, start
<1>11. QED
  BY <1>7, <1>10

\* What place returns is a first fit, and it fails only where nothing fits.
LEMMA PlaceFits ==
    ASSUME RamTyped, NEW S, Sound(S), NEW size \in Positive, NEW align \in Positive
    PROVE  /\ \A x \in FirstFit(S, size, align) : Min(FreeStarts(S, size, align)) <= x
           /\ FreeStarts(S, size, align) = {} => FirstFit(S, size, align) = {}
<1>1. FreeStarts(S, size, align) \in SUBSET Nat
  BY FreeStartsType
<1>2. ASSUME NEW x \in FirstFit(S, size, align)
      PROVE  /\ FreeStarts(S, size, align) # {}
             /\ Min(FreeStarts(S, size, align)) <= x
  <2>1. PICK start \in FreeStarts(S, size, align) : start <= x
    BY FitIsFound
  <2>2. /\ Min(FreeStarts(S, size, align)) <= start
        /\ Min(FreeStarts(S, size, align)) \in Nat
    BY <1>1, <2>1, Least
  <2>3. x \in Int
    BY DEF FirstFit, RamTyped, EndOf
  <2>4. QED
    BY <1>1, <2>1, <2>2, <2>3
<1>3. QED
  BY <1>2

\* The sections there were when s was placed, and perhaps others; s is below
\* every other place they leave.
Earlier(s) == IF s.name = ".text" THEN layout ELSE image \ {s}
Lowest(s) == \A x \in FirstFit(Earlier(s), s.size, s.align) : s.start <= x

FitIInv ==
    /\ \A s \in image \ layout : Lowest(s)
    /\ why = "no room for code" => FirstFit(image, codeSize, CodeAlign) = {}
    /\ why = "no room for a mailbox" => FirstFit(image, MailboxSize, MailboxAlign) = {}
    /\ phase # "failed" => why = "none"

LEMMA FitInit == LayoutInit => FitIInv
  BY DEF LayoutInit, FitIInv

\* Only failing in a nearly full RAM, and placing, can tell.
LEMMA FitFail ==
    ASSUME FitIInv, phase # "failed", NEW reason, Fail(reason),
           reason = "no room for code" => FirstFit(image, codeSize, CodeAlign) = {},
           reason = "no room for a mailbox" => FirstFit(image, MailboxSize, MailboxAlign) = {}
    PROVE  FitIInv'
<1>1. /\ UNCHANGED <<ram, layout, image, codeSize>> /\ why' = reason /\ phase' = "failed"
  BY DEF Fail
<1>2. QED
  BY <1>1 DEF FitIInv, Lowest, Earlier, FirstFit, IsFree

LEMMA FitAddCode ==
    ASSUME LayoutIInv, FitIInv, AddCode
    PROVE  FitIInv'
<1>1. /\ phase = "code" /\ image = layout /\ RamTyped /\ Sound(image)
      /\ codeSize \in Positive /\ CodeAlign \in Positive /\ why = "none"
  BY LayoutAssumption
  DEF AddCode, LayoutIInv, LayoutSound, ImageSound, Encoding, Busy, LayoutAssumption, FitIInv
<1>2. /\ \A x \in FirstFit(image, codeSize, CodeAlign) :
            Min(FreeStarts(image, codeSize, CodeAlign)) <= x
      /\ FreeStarts(image, codeSize, CodeAlign) = {} =>
            FirstFit(image, codeSize, CodeAlign) = {}
  BY <1>1, PlaceFits
<1>3. CASE /\ FreeStarts(image, codeSize, CodeAlign) = {}
           /\ Fail("no room for code")
  BY <1>1, <1>2, <1>3, FitFail
<1>4. CASE /\ Place(".text", codeSize, CodeAlign) /\ phase' = "host"
           /\ UNCHANGED <<ram, layout, why, codeSize>>
  <2> DEFINE start == Min(FreeStarts(image, codeSize, CodeAlign))
             new == NewSection(".text", start, codeSize, CodeAlign, TRUE, FALSE)
  <2>1. image' = image \cup {new}
    BY <1>4 DEF Place
  <2>2. /\ new.name = ".text" /\ new.start = start
        /\ new.size = codeSize /\ new.align = CodeAlign
    BY DEF NewSection
  <2> HIDE DEF new
  <2>3. \A s \in image' \ layout' : s = new
    BY <1>1, <1>4, <2>1
  <2>4. \A x \in FirstFit(layout, codeSize, CodeAlign)' : start <= x
    BY <1>1, <1>2, <1>4 DEF FirstFit, IsFree
  <2>5. why' = "none"
    BY <1>1, <1>4
  <2> HIDE DEF start
  <2>6. \A s \in image' \ layout' :
           /\ s.name = ".text" /\ s.start = start
           /\ s.size = codeSize' /\ s.align = CodeAlign
    BY <1>4, <2>2, <2>3
  <2>7. QED
    BY <1>4, <2>4, <2>5, <2>6 DEF FitIInv, Lowest, Earlier
<1>5. QED
  BY <1>3, <1>4 DEF AddCode

LEMMA FitApplyHost ==
    ASSUME LayoutIInv, FitIInv, ApplyHost
    PROVE  FitIInv'
<1>1. /\ phase = "host" /\ RamTyped /\ Sound(image)
      /\ MailboxSize \in Positive /\ MailboxAlign \in Positive /\ why = "none"
  BY LayoutAssumption
  DEF ApplyHost, LayoutIInv, ImageSound, LayoutAssumption, FitIInv
<1>2. /\ \A x \in FirstFit(image, MailboxSize, MailboxAlign) :
            Min(FreeStarts(image, MailboxSize, MailboxAlign)) <= x
      /\ FreeStarts(image, MailboxSize, MailboxAlign) = {} =>
            FirstFit(image, MailboxSize, MailboxAlign) = {}
  BY <1>1, PlaceFits
<1>3. CASE /\ FreeStarts(image, MailboxSize, MailboxAlign) = {}
           /\ Fail("no room for a mailbox")
  BY <1>1, <1>2, <1>3, FitFail
<1>4. CASE phase' = "finish" /\ UNCHANGED <<ram, layout, image, why, codeSize>>
  BY <1>1, <1>4 DEF FitIInv, Lowest, Earlier, FirstFit, IsFree
<1>5. ASSUME NEW name \in {".tohost", ".fromhost"}, Missing(name),
             Place(name, MailboxSize, MailboxAlign),
             UNCHANGED <<ram, layout, phase, why, codeSize>>
      PROVE  FitIInv'
  <2> DEFINE start == Min(FreeStarts(image, MailboxSize, MailboxAlign))
             new == NewSection(name, start, MailboxSize, MailboxAlign, FALSE, FALSE)
  <2>1. image' = image \cup {new}
    BY <1>5 DEF Place
  <2>2. /\ new.name = name /\ new.start = start
        /\ new.size = MailboxSize /\ new.align = MailboxAlign
    BY DEF NewSection
  <2> HIDE DEF new, start
  <2>3. new \notin image
    BY <1>5, <2>2 DEF Missing, Named
  <2>4. ASSUME NEW s \in image' \ layout'
        PROVE  Lowest(s)'
    <3>1. CASE s = new
      <4>1. image' \ {s} = image /\ s.name # ".text"
        BY <1>5, <2>1, <2>2, <2>3, <3>1
      <4>2. Earlier(s)' = image
        BY <4>1 DEF Earlier
      <4>3. FirstFit(Earlier(s), s.size, s.align)'
               \subseteq FirstFit(image, MailboxSize, MailboxAlign)
        BY <1>5, <2>2, <3>1, <4>2 DEF FirstFit, IsFree
      <4>4. s.start = start
        BY <2>2, <3>1
      <4>5. QED
        BY <1>2, <4>3, <4>4 DEF start, Lowest
    <3>2. CASE s # new
      <4>1. s \in image \ layout
        BY <1>5, <2>1, <3>2
      <4>2. Earlier(s) \subseteq Earlier(s)'
        BY <1>5, <2>1 DEF Earlier
      <4>3. FirstFit(Earlier(s), s.size, s.align)'
               \subseteq FirstFit(Earlier(s), s.size, s.align)
        BY <1>5, <4>2 DEF FirstFit, IsFree, EndOf
      <4>4. QED
        BY <4>1, <4>3 DEF FitIInv, Lowest
    <3>3. QED
      BY <3>1, <3>2
  <2>5. why' = "none"
    BY <1>1, <1>5
  <2>6. QED
    BY <2>4, <2>5 DEF FitIInv
<1>6. QED
  BY <1>3, <1>4, <1>5 DEF ApplyHost

\* Nothing that FitIInv reads changes.
LEMMA FitKept ==
    ASSUME FitIInv, UNCHANGED <<ram, layout, image, codeSize, why>>,
           why = "none" \/ phase' = phase
    PROVE  FitIInv'
  BY DEF FitIInv, Lowest, Earlier, FirstFit, IsFree

LEMMA FitNext ==
    ASSUME LayoutIInv, FitIInv, [LayoutNext]_layoutVars
    PROVE  FitIInv'
<1>1. ASSUME NEW reason \in {"access", "no .tohost", "invalid layout", "invalid image",
                            "code moved"},
             phase # "failed", Fail(reason)
      PROVE  FitIInv'
  BY <1>1, FitFail
<1>2. phase # "failed" => why = "none"
  BY DEF FitIInv
<1>3. CASE Reserve
  <2>1. image = {} /\ image' = {} /\ why' = "none"
    BY <1>2, <1>3 DEF LayoutIInv, ImageSound, Reserve
  <2>2. QED
    BY <2>1 DEF FitIInv
<1>4. CASE Generate
  <2>1. CASE phase = "run" /\ Fail("no .tohost")
    BY <1>1, <2>1
  <2>2. CASE UNCHANGED <<ram, layout, image, why>> /\ why = "none"
    BY <2>2 DEF FitIInv, Lowest, Earlier, FirstFit, IsFree
  <2>3. QED
    BY <1>2, <1>4, <2>1, <2>2 DEF Generate
<1>5. CASE NewElf
  <2>1. CASE phase = "new" /\ Fail("invalid layout")
    BY <1>1, <2>1
  <2>2. CASE image' = layout /\ layout' = layout /\ why' = "none"
    BY <2>2 DEF FitIInv
  <2>3. QED
    BY <1>2, <1>5, <2>1, <2>2 DEF NewElf
<1>6. CASE AddCode
  BY <1>6, FitAddCode
<1>7. CASE ApplyHost
  BY <1>7, FitApplyHost
<1>8. CASE Finish
  <2>1. CASE phase = "finish" /\ (Fail("invalid image") \/ Fail("code moved"))
    BY <1>1, <2>1
  <2>2. CASE UNCHANGED <<ram, layout, image, codeSize, why>> /\ why = "none"
    BY <2>2, FitKept
  <2>3. QED
    BY <1>2, <1>8, <2>1, <2>2 DEF Finish
<1>9. ASSUME NEW size \in AccessSizes, Access(size)
      PROVE  FitIInv'
  BY <1>9, FitKept DEF Access
<1>10. ASSUME NEW size \in AccessSizes, AccessFails(size)
       PROVE  FitIInv'
  BY <1>1, <1>10 DEF AccessFails
<1>11. CASE UNCHANGED layoutVars
  BY <1>11, FitKept DEF layoutVars
<1>12. QED
  BY <1>3, <1>4, <1>5, <1>6, <1>7, <1>8, <1>9, <1>10, <1>11 DEF LayoutNext

\* Where place puts a section is the lowest aligned address with room for it,
\* among all addresses; and an encode fails for want of room only where there
\* is none (elf.rs: place).
THEOREM PlaceIsLowest == LayoutSpec => []PlaceIsFirstFit
<1>1. FitIInv => PlaceIsFirstFit
  BY DEF FitIInv, Lowest, Earlier, PlaceIsFirstFit
<1>2. LayoutIInv /\ FitIInv /\ [LayoutNext]_layoutVars => FitIInv'
  BY FitNext
<1>3. QED
  BY <1>1, <1>2, FitInit, LayoutInvariance, PTL DEF LayoutSpec

--------------------------------------------------------------------------------
(* The mailboxes.  .tohost is reserved first, as high as it can be.  If there *)
(* is no room below it for .fromhost there is none at all, so `place' will not *)
(* find any; if there is, it was reserved.                                    *)

TopMailbox(t, end) ==
    /\ t.start % MailboxAlign = 0 /\ t.size = MailboxSize
    /\ end - MailboxSize < t.start + MailboxAlign

NoMailbox(sections) == FirstFit(sections, MailboxSize, MailboxAlign) = {}

\* How far the reservations of the mailboxes have come.
MailboxesTried ==
    \/ pending = Reservations /\ layout = {}
    \/ /\ Len(pending) > 0 /\ Head(pending) = Mailbox(".fromhost")
       /\ \A i \in 2 .. Len(pending) : pending[i].name \in DataNames
       /\ layout # {} =>
             RamEnds /\ \E t : /\ layout = {t} /\ t.name = ".tohost"
                               /\ TopMailbox(t, EndOf(ram))
    \/ /\ \A i \in DOMAIN pending : pending[i].name \in DataNames
       /\ Named(layout, ".tohost") # {} /\ Named(layout, ".fromhost") = {} =>
             NoMailbox(layout)

Exported ==
    /\ tohost # None => \E s \in Named(layout, ".tohost") : s.start = tohost
    /\ phase \in Busy \cup {"new", "done"} => tohost # None
    /\ phase \in Busy => Named(image, ".fromhost") \subseteq layout
    /\ phase \in {"finish", "done"} =>
          /\ layout \subseteq image
          /\ Named(image, ".fromhost") # {}
          /\ Named(image, ".fromhost") \subseteq layout

MailIInv ==
    /\ MailboxesTried
    /\ phase # "reserve" => pending = <<>>
    /\ Exported

LEMMA MailInit == LayoutInit => MailIInv
  BY DEF LayoutInit, MailIInv, MailboxesTried, Exported, Busy

\* Two multiples less than one step apart are equal or in order.
LEMMA NextMultiple ==
    ASSUME NEW a \in Positive, NEW x \in Int, NEW y \in Int,
           x % a = 0, y % a = 0, x < y + a
    PROVE  x <= y
<1>1. PICK p \in Int : p = x \div a /\ x = a * p
  BY Divides
<1>2. PICK q \in Int : q = y \div a /\ y = a * q
  BY Divides
<1>3. a \in Int /\ a > 0
  BY DEF Positive
<1>4. CASE p <= q
  BY <1>1, <1>2, <1>4, Monotone
<1>5. CASE q + 1 <= p
  <2>1. a * (q + 1) <= a * p
    BY <1>5, Monotone
  <2>2. a * (q + 1) = a * q + a
    BY <1>3
  <2>3. a * q \in Int /\ a * p \in Int
    BY <1>1, <1>2
  <2>4. QED
    BY <1>1, <1>2, <1>3, <2>1, <2>2, <2>3
<1>6. QED
  BY <1>4, <1>5

LEMMA AlignedAbove ==
    ASSUME NEW n \in Int, NEW x \in Int, NEW a \in Positive, x <= n, x % a = 0
    PROVE  x <= AlignDown(n, a)
<1>1. /\ AlignDown(n, a) \in Int /\ n < AlignDown(n, a) + a
      /\ AlignDown(n, a) % a = 0 /\ a \in Int
  BY AlignedDown DEF Positive
<1>2. x < AlignDown(n, a) + a
  BY <1>1
<1>3. QED
  BY <1>1, <1>2, NextMultiple

\* More sections leave no more room.
LEMMA NoMailboxMore ==
    ASSUME NEW S, NEW T, S \subseteq T, NoMailbox(S)
    PROVE  NoMailbox(T)
  BY DEF NoMailbox, FirstFit, IsFree

\* Where the room below the highest mailbox is too small, there is none.
LEMMA NoSecondMailbox ==
    ASSUME RamTyped, LayoutSound, NEW t, layout = {t}, TopMailbox(t, EndOf(ram)),
           RamEnds, ~ CanReserve(MailboxSize, MailboxAlign)
    PROVE  NoMailbox(layout)
<1>1. /\ MailboxSize \in Positive /\ MailboxAlign \in Positive
      /\ MailboxSize \in Nat /\ MailboxAlign \in Nat
      /\ MailboxSize > 0 /\ MailboxAlign > 0
  BY LayoutAssumption DEF Positive
<1>2. t.start \in Nat /\ t.size = MailboxSize /\ t.start % MailboxAlign = 0
  BY DEF LayoutSound, Sound, SectionType, TopMailbox
<1>3. ram.start \in Nat /\ EndOf(ram) \in Nat
  BY DEF RamTyped, EndOf
<1> DEFINE low == AlignDown(t.start - MailboxSize, MailboxAlign)
<1>4. ReserveStart(MailboxSize, MailboxAlign) = low
  <2>1. {s.start : s \in layout} = {t.start}
    OBVIOUS
  <2>2. Min({t.start}) = t.start
    <3>1. {t.start} \in SUBSET Nat /\ {t.start} # {}
      BY <1>2
    <3>2. Min({t.start}) \in {t.start}
      BY <3>1, Least
    <3>3. QED
      BY <3>2
  <2>3. QED
    BY <2>1, <2>2 DEF ReserveStart
<1>5. low < ram.start /\ low \in Int
  <2>1. low \in Int
    <3>1. t.start - MailboxSize \in Int
      BY <1>1, <1>2
    <3>2. QED
      BY <1>1, <3>1, AlignedDown
  <2> HIDE DEF low
  <2>2. ~ (low >= ram.start)
    BY <1>4 DEF CanReserve
  <2>3. QED
    BY <1>3, <2>1, <2>2
<1>6. ASSUME NEW x \in FirstFit(layout, MailboxSize, MailboxAlign)
      PROVE  FALSE
  <2>1. /\ x \in Nat /\ ram.start <= x /\ x % MailboxAlign = 0
        /\ x + MailboxSize <= EndOf(ram)
        /\ x + MailboxSize <= t.start \/ t.start + MailboxSize <= x
    BY <1>2, <1>3, <1>6 DEF FirstFit, IsFree, Disjoint, EndOf
  <2>2. CASE x + MailboxSize <= t.start
    <3>1. t.start - MailboxSize \in Int /\ x <= t.start - MailboxSize
      BY <1>1, <1>2, <2>1, <2>2
    <3>2. x <= low
      BY <1>1, <2>1, <3>1, AlignedAbove
    <3> HIDE DEF low
    <3>3. QED
      BY <1>3, <1>5, <2>1, <3>2
  <2>3. CASE t.start + MailboxSize <= x
    <3>1. x < t.start + MailboxAlign
      BY <1>1, <1>2, <1>3, <2>1 DEF TopMailbox
    <3>2. x <= t.start
      BY <1>1, <1>2, <2>1, <3>1, NextMultiple
    <3>3. QED
      BY <1>1, <1>2, <2>1, <2>3, <3>2
  <2>4. QED
    BY <2>1, <2>2, <2>3
<1>7. QED
  BY <1>6 DEF NoMailbox

LEMMA MailReserve ==
    ASSUME LayoutIInv, MailIInv, Reserve
    PROVE  MailIInv'
<1> DEFINE r == Head(pending)
           s == NewSection(r.name, ReserveStart(r.size, r.align), r.size, r.align,
                           r.exec, r.private)
<1>1. /\ phase = "reserve" /\ pending # <<>> /\ pending' = Tail(pending)
      /\ phase' = IF pending' = <<>> THEN "run" ELSE "reserve"
      /\ layout' = IF CanReserve(r.size, r.align) THEN layout \cup {s} ELSE layout
      /\ UNCHANGED <<ram, tohost, image>>
  BY DEF Reserve
<1>2. s.name = r.name /\ s.size = r.size
      /\ s.start = ReserveStart(r.size, r.align)
  BY DEF NewSection
<1>3. phase' # "reserve" => pending' = <<>>
  BY <1>1
<1>4. RamTyped /\ LayoutSound /\ EndOf(ram) \in Nat
  BY DEF LayoutIInv, RamTyped, EndOf
<1>5. MailboxSize \in Positive /\ MailboxAlign \in Positive
  BY LayoutAssumption
<1> HIDE DEF s
<1>6. Exported'
  <2>1. tohost' # None => \E t \in Named(layout', ".tohost") : t.start = tohost'
    BY <1>1 DEF MailIInv, Exported, Named
  <2>2. phase' \in {"reserve", "run"}
    BY <1>1
  <2>3. QED
    BY <2>1, <2>2 DEF Exported, Named, Busy
<1>7. MailboxesTried'
  <2>1. CASE pending = Reservations /\ layout = {}
    <3>1. r = Mailbox(".tohost") /\ r.name = ".tohost" /\ r.size = MailboxSize
          /\ r.align = MailboxAlign
      BY <2>1 DEF Reservations, Mailbox
    <3>2. /\ Len(pending') > 0 /\ Head(pending') = Mailbox(".fromhost")
          /\ \A i \in 2 .. Len(pending') : pending'[i].name \in DataNames
      <4> DEFINE scratch == DataRequest("scratch", FALSE)
                 smc == DataRequest("smc", TRUE)
                 S == {Mailbox(".tohost"), Mailbox(".fromhost"), scratch, smc}
      <4>1. /\ pending \in Seq(S) /\ DOMAIN pending = 1 .. 4
            /\ pending[2] = Mailbox(".fromhost")
            /\ pending[3] = scratch /\ pending[4] = smc
        BY <2>1, FourTuple DEF Reservations
      <4>2. scratch.name \in DataNames /\ smc.name \in DataNames
        BY DEF DataRequest, DataNames
      <4> HIDE DEF scratch, smc, S
      <4>3. /\ pending' \in Seq(S) /\ Len(pending') = 3
            /\ pending'[1] = pending[2] /\ pending'[2] = pending[3]
            /\ pending'[3] = pending[4]
        <5>1. /\ pending \in Seq(S) /\ DOMAIN pending = 1 .. 4
          BY <4>1
        <5>2. Len(pending) = 4
          BY <5>1
        <5>3. /\ Tail(pending) \in Seq(S) /\ Len(Tail(pending)) = 3
              /\ Tail(pending)[1] = pending[2] /\ Tail(pending)[2] = pending[3]
              /\ Tail(pending)[3] = pending[4]
          BY <5>1, <5>2
        <5>4. QED
          BY <1>1, <5>3
      <4>4. Head(pending') = pending'[1]
        BY <4>3
      <4>5. \A i \in 2 .. 3 : i = 2 \/ i = 3
        OBVIOUS
      <4>6. QED
        BY <4>1, <4>2, <4>3, <4>4, <4>5
    <3>3. CASE CanReserve(r.size, r.align)
      <4>1. layout' = {s} /\ s.name = ".tohost" /\ s.size = MailboxSize
        BY <1>1, <1>2, <2>1, <3>1, <3>3
      <4>2. s.start = AlignDown(EndOf(ram) - MailboxSize, MailboxAlign)
        BY <1>2, <2>1, <3>1 DEF ReserveStart
      <4>3. EndOf(ram) - MailboxSize \in Int
        BY <1>4, <1>5 DEF Positive
      <4>4. TopMailbox(s, EndOf(ram))
        BY <1>5, <4>1, <4>2, <4>3, AlignedDown DEF TopMailbox
      <4>5. RamEnds'
        BY <1>1, <3>3 DEF CanReserve, RamEnds, EndOf
      <4>6. EndOf(ram)' = EndOf(ram)
        BY <1>1 DEF EndOf
      <4>7. \E t : layout' = {t} /\ t.name = ".tohost" /\ TopMailbox(t, EndOf(ram)')
        BY <4>1, <4>4, <4>6
      <4>8. QED
        BY <3>2, <4>5, <4>7 DEF MailboxesTried
    <3>4. CASE ~ CanReserve(r.size, r.align)
      BY <1>1, <2>1, <3>2, <3>4 DEF MailboxesTried
    <3>5. QED
      BY <3>3, <3>4
  <2>2. CASE /\ Len(pending) > 0 /\ r = Mailbox(".fromhost")
             /\ \A i \in 2 .. Len(pending) : pending[i].name \in DataNames
             /\ layout # {} =>
                   RamEnds /\ \E t : /\ layout = {t} /\ t.name = ".tohost"
                                     /\ TopMailbox(t, EndOf(ram))
    <3>1. pending \in Seq(Request)
      BY DEF LayoutIInv, PendingSound
    <3>2. \A i \in DOMAIN pending' :
             i + 1 \in 2 .. Len(pending) /\ pending'[i] = pending[i + 1]
      BY <1>1, <3>1
    <3>3. r.name = ".fromhost" /\ r.size = MailboxSize /\ r.align = MailboxAlign
      BY <2>2 DEF Mailbox
    <3>4. \A i \in DOMAIN pending' : pending'[i].name \in DataNames
      BY <2>2, <3>2
    <3>5. CASE CanReserve(r.size, r.align)
      <4>1. s \in layout' /\ s.name = ".fromhost"
        BY <1>1, <1>2, <3>3, <3>5
      <4>2. Named(layout, ".fromhost")' # {}
        BY <4>1 DEF Named
      <4>3. QED
        BY <3>4, <4>2 DEF MailboxesTried
    <3>6. CASE ~ CanReserve(r.size, r.align) /\ layout = {}
      <4>1. Named(layout, ".tohost")' = {}
        BY <1>1, <3>6 DEF Named
      <4>2. QED
        BY <3>4, <4>1 DEF MailboxesTried
    <3>7. CASE ~ CanReserve(r.size, r.align) /\ layout # {}
      <4>1. PICK t : layout = {t} /\ t.name = ".tohost" /\ TopMailbox(t, EndOf(ram))
        BY <2>2, <3>7
      <4>2. RamEnds
        BY <2>2, <3>7
      <4>3. NoMailbox(layout)
        BY <1>4, <3>3, <3>7, <4>1, <4>2, NoSecondMailbox
      <4>4. NoMailbox(layout)'
        BY <1>1, <3>7, <4>3 DEF NoMailbox, FirstFit, IsFree, EndOf
      <4>5. QED
        BY <3>4, <4>4 DEF MailboxesTried
    <3>8. QED
      BY <3>5, <3>6, <3>7
  <2>3. CASE /\ \A i \in DOMAIN pending : pending[i].name \in DataNames
             /\ Named(layout, ".tohost") # {} /\ Named(layout, ".fromhost") = {} =>
                   NoMailbox(layout)
    <3>1. pending \in Seq(Request)
      BY DEF LayoutIInv, PendingSound
    <3>2. /\ r = pending[1] /\ 1 \in DOMAIN pending
          /\ \A i \in DOMAIN pending' :
                i + 1 \in DOMAIN pending /\ pending'[i] = pending[i + 1]
      BY <1>1, <3>1
    <3>3. r.name \in DataNames /\ \A i \in DOMAIN pending' : pending'[i].name \in DataNames
      BY <2>3, <3>2
    <3>4. layout \subseteq layout' /\ \A t \in layout' : t \in layout \/ t.name \in DataNames
      BY <1>1, <1>2, <3>3
    <3>5. /\ Named(layout, ".tohost")' = Named(layout, ".tohost")
          /\ Named(layout, ".fromhost")' = Named(layout, ".fromhost")
      BY <3>4 DEF Named, DataNames
    <3>6. NoMailbox(layout) => NoMailbox(layout)'
      BY <1>1, <3>4 DEF NoMailbox, FirstFit, IsFree, EndOf
    <3>7. QED
      BY <2>3, <3>3, <3>5, <3>6 DEF MailboxesTried
  <2>4. QED
    BY <2>1, <2>2, <2>3 DEF MailIInv, MailboxesTried
<1>8. QED
  BY <1>3, <1>6, <1>7 DEF MailIInv

\* What leaves the layout alone.
LEMMA MailKept ==
    ASSUME MailIInv, UNCHANGED <<ram, layout, pending>>, phase # "reserve" \/ phase' = phase
    PROVE  MailboxesTried' /\ (phase' # "reserve" => pending' = <<>>)
<1>1. MailboxesTried'
  BY DEF MailIInv, MailboxesTried, TopMailbox, RamEnds, NoMailbox, FirstFit, IsFree,
     EndOf, Named
<1>2. phase' # "reserve" => pending' = <<>>
  BY DEF MailIInv
<1>3. QED
  BY <1>1, <1>2

LEMMA MailFail ==
    ASSUME MailIInv, phase # "reserve", NEW reason, Fail(reason)
    PROVE  MailIInv'
<1>1. /\ UNCHANGED <<ram, layout, pending, tohost, image>> /\ phase' = "failed"
  BY DEF Fail
<1>2. Exported'
  BY <1>1 DEF MailIInv, Exported, Named, Busy
<1>3. QED
  BY <1>1, <1>2, MailKept DEF MailIInv

LEMMA MailAddCode ==
    ASSUME LayoutIInv, MailIInv, AddCode
    PROVE  MailIInv'
<1>1. CASE Fail("no room for code")
  BY <1>1, MailFail DEF AddCode
<1>2. CASE /\ Place(".text", codeSize, CodeAlign) /\ phase' = "host"
           /\ UNCHANGED <<ram, layout, pending, tohost>>
  <2>1. phase = "code"
    BY DEF AddCode
  <2>2. \A s \in image' : s \in image \/ s.name = ".text"
    BY <1>2 DEF Place, NewSection
  <2>3. Named(image, ".fromhost")' \subseteq Named(image, ".fromhost")
    BY <2>2 DEF Named
  <2>4. Exported'
    BY <1>2, <2>1, <2>3 DEF MailIInv, Exported, Named, Busy
  <2>5. QED
    BY <1>2, <2>1, <2>4, MailKept DEF MailIInv
<1>3. QED
  BY <1>1, <1>2 DEF AddCode

\* Neither mailbox is ever placed: .tohost was reserved, or there would be no
\* program, and a .fromhost that was not reserved has no room.
LEMMA MailApplyHost ==
    ASSUME LayoutIInv, MailIInv, ApplyHost
    PROVE  MailIInv'
<1>1. /\ phase = "host" /\ layout \subseteq image /\ Sound(image) /\ RamTyped
      /\ Named(image, ".fromhost") \subseteq layout
  BY DEF ApplyHost, LayoutIInv, ImageSound, MailIInv, Exported, Busy
<1>2. Named(layout, ".tohost") # {}
  BY <1>1 DEF MailIInv, Exported, Busy
<1>3. Named(image, ".tohost") # {}
  BY <1>1, <1>2 DEF Named
<1>4. CASE /\ \A name \in {".tohost", ".fromhost"} : ~ Missing(name)
           /\ phase' = "finish"
           /\ UNCHANGED <<ram, layout, pending, tohost, image>>
  <2>1. Named(image, ".fromhost") # {}
    BY <1>3, <1>4 DEF Missing
  <2>2. Exported'
    BY <1>1, <1>4, <2>1 DEF MailIInv, Exported, Named, Busy
  <2>3. QED
    BY <1>1, <1>4, <2>2, MailKept DEF MailIInv
<1>5. CASE Fail("no room for a mailbox")
  BY <1>1, <1>5, MailFail
<1>6. ASSUME Missing(".fromhost"), FreeStarts(image, MailboxSize, MailboxAlign) # {}
      PROVE  FALSE
  <2>1. MailboxSize \in Positive /\ MailboxAlign \in Positive
    BY LayoutAssumption
  <2>2. Named(layout, ".fromhost") = {}
    BY <1>1, <1>6 DEF Missing, Named
  <2>3. NoMailbox(layout)
    <3>1. pending = <<>>
      BY <1>1 DEF MailIInv
    <3>2. layout # {}
      BY <1>2 DEF Named
    <3>3. Len(<<>>) = 0
      OBVIOUS
    <3>4. QED
      BY <1>2, <2>2, <3>1, <3>2, <3>3 DEF MailIInv, MailboxesTried
  <2>4. NoMailbox(image)
    BY <1>1, <2>3, NoMailboxMore
  <2>5. PICK x \in FreeStarts(image, MailboxSize, MailboxAlign) : TRUE
    BY <1>6
  <2>6. /\ x \in Nat /\ x % MailboxAlign = 0 /\ ram.start <= x
        /\ IsFree(image, x, MailboxSize)
    BY <1>1, <2>1, <2>5, FreeStartsType
  <2>7. x <= EndOf(ram)
    BY <1>1, <2>1, <2>6 DEF IsFree, RamTyped, EndOf, Positive
  <2>8. x \in ram.start .. EndOf(ram)
    BY <1>1, <2>6, <2>7 DEF RamTyped, EndOf
  <2>9. QED
    BY <2>4, <2>6, <2>8 DEF NoMailbox, FirstFit
<1>7. ~ Missing(".tohost")
  BY <1>3 DEF Missing
<1>8. QED
  BY <1>4, <1>5, <1>6, <1>7 DEF ApplyHost

LEMMA MailNext ==
    ASSUME LayoutIInv, MailIInv, [LayoutNext]_layoutVars
    PROVE  MailIInv'
<1>1. CASE Reserve
  BY <1>1, MailReserve
<1>2. CASE Generate
  <2>1. phase = "run"
    BY <1>2 DEF Generate
  <2>2. CASE Fail("no .tohost")
    BY <2>1, <2>2, MailFail
  <2>3. CASE \E s \in Named(layout, ".tohost") :
                /\ tohost' = s.start /\ phase' = "new"
                /\ UNCHANGED <<ram, layout, pending, image>>
    <3>1. PICK s \in Named(layout, ".tohost") :
                /\ tohost' = s.start /\ phase' = "new"
                /\ UNCHANGED <<ram, layout, pending, image>>
      BY <2>3
    <3>2. tohost' # None
      BY <3>1 DEF LayoutIInv, LayoutSound, Sound, SectionType, Named, None
    <3>3. Exported'
      BY <3>1, <3>2 DEF Exported, Named, Busy
    <3>4. QED
      BY <2>1, <3>1, <3>3, MailKept DEF MailIInv
  <2>4. QED
    BY <1>2, <2>2, <2>3 DEF Generate
<1>3. CASE NewElf
  <2>1. phase = "new"
    BY <1>3 DEF NewElf
  <2>2. CASE Fail("invalid layout")
    BY <2>1, <2>2, MailFail
  <2>3. CASE /\ image' = layout /\ phase' = "code"
             /\ UNCHANGED <<ram, layout, pending, tohost>>
    <3>1. Exported'
      BY <2>1, <2>3 DEF MailIInv, Exported, Named, Busy
    <3>2. QED
      BY <2>1, <2>3, <3>1, MailKept DEF MailIInv
  <2>4. QED
    BY <1>3, <2>2, <2>3 DEF NewElf
<1>4. CASE AddCode
  BY <1>4, MailAddCode
<1>5. CASE ApplyHost
  BY <1>5, MailApplyHost
<1>6. CASE Finish
  <2>1. phase = "finish"
    BY <1>6 DEF Finish
  <2>2. CASE Fail("invalid image") \/ Fail("code moved")
    BY <2>1, <2>2, MailFail
  <2>3. CASE /\ phase' \in {"done", "new"}
             /\ UNCHANGED <<ram, layout, pending, tohost, image>>
    <3>1. Exported'
      BY <2>1, <2>3 DEF MailIInv, Exported, Named, Busy
    <3>2. QED
      BY <2>1, <2>3, <3>1, MailKept DEF MailIInv
  <2>4. QED
    BY <1>6, <2>2, <2>3 DEF Finish
<1>7. ASSUME NEW size \in AccessSizes, Access(size)
      PROVE  MailIInv'
  <2>1. UNCHANGED <<ram, layout, pending, phase, tohost, image>>
    BY <1>7 DEF Access
  <2>2. Exported'
    BY <2>1 DEF MailIInv, Exported, Named
  <2>3. QED
    BY <2>1, <2>2, MailKept DEF MailIInv
<1>8. ASSUME NEW size \in AccessSizes, AccessFails(size)
      PROVE  MailIInv'
  <2>1. phase = "run" /\ Fail("access")
    BY <1>8 DEF AccessFails
  <2>2. QED
    BY <2>1, MailFail
<1>9. CASE UNCHANGED layoutVars
  <2>1. UNCHANGED <<ram, layout, pending, phase, tohost, image>>
    BY <1>9 DEF layoutVars
  <2>2. Exported'
    BY <2>1 DEF MailIInv, Exported, Named
  <2>3. QED
    BY <2>1, <2>2, MailKept DEF MailIInv
<1>10. QED
  BY <1>1, <1>2, <1>3, <1>4, <1>5, <1>6, <1>7, <1>8, <1>9 DEF LayoutNext

\* The finished image exports .tohost where the program's exit and trap code
\* writes, and .fromhost, both as they were reserved (hart.rs: run; elf.rs:
\* HostInterface).
THEOREM MailboxesExport == LayoutSpec => []MailboxesAreExported
<1>1. MailIInv => MailboxesAreExported
  BY DEF MailIInv, Exported, MailboxesAreExported, Named, Busy
<1>2. LayoutIInv /\ MailIInv /\ [LayoutNext]_layoutVars => MailIInv'
  BY MailNext
<1>3. QED
  BY <1>1, <1>2, MailInit, LayoutInvariance, PTL DEF LayoutSpec
================================================================================
