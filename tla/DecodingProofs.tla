---------------------------- MODULE DecodingProofs -----------------------------
(******************************************************************************)
(* The hart that fetches what emit has written does what the generator meant  *)
(* (Encoding, with operand.rs, encoding.rs, fields.rs and the catalog).       *)
(*                                                                            *)
(* The bits of an instruction's format put it in one arm of the decoder, and  *)
(* the fields the arm reads are those the format packed (TranslatorProofs).   *)
(* So the word decodes to the instruction (the lemmas named ...Decodes), what *)
(* it loads and stores and the registers it writes are those of the           *)
(* instruction (...Understood), and two parcels are put together again as     *)
(* one word or one parcel is an instruction by itself (LongIsFetched and      *)
(* ShortIsFetched).  The invariant FetchIInv adds to the one of               *)
(* TranslatorProofs that every instruction made has the shape its type        *)
(* allows and that the parcels in memory are those of the instructions        *)
(* emitted; with it the three theorems at the end follow.                     *)
(******************************************************************************)
EXTENDS TranslatorProofs

--------------------------------------------------------------------------------
(* The arms of the decoder.                                                  *)

\* The decoder's arms.
LEMMA LuiArm ==
  ASSUME NEW w, NEW width, ~(width = 32 /\ Wide(w)), Major(w) = \h37
  PROVE  Decoded32(w, width)
             = Instr("Lui", Rd(w), 0, 0, ImmU(w))
  BY SMT DEF Decoded32

LEMMA AuipcArm ==
  ASSUME NEW w, NEW width, ~(width = 32 /\ Wide(w)), Major(w) = \h17
  PROVE  Decoded32(w, width)
             = Instr("Auipc", Rd(w), 0, 0, ImmU(w))
  BY SMT DEF Decoded32

LEMMA JalArm ==
  ASSUME NEW w, NEW width, ~(width = 32 /\ Wide(w)), Major(w) = \h6f
  PROVE  Decoded32(w, width)
             = Instr("Jal", Rd(w), 0, 0, ImmJ(w))
  BY SMT DEF Decoded32

LEMMA JalrArm ==
  ASSUME NEW w, NEW width, ~(width = 32 /\ Wide(w)), Major(w) = \h67 /\ Funct3(w) = 0
  PROVE  Decoded32(w, width)
             = Instr("Jalr", Rd(w), Rs1(w), 0, ImmI(w))
  BY SMT DEF Decoded32

LEMMA BranchArm ==
  ASSUME NEW w, NEW width, ~(width = 32 /\ Wide(w)), Major(w) = \h63
  PROVE  Decoded32(w, width)
             = Instr(Entry(Branches, Funct3(w)), 0, Rs1(w), Rs2(w), ImmB(w))
  BY SMT DEF Decoded32

LEMMA LoadArm ==
  ASSUME NEW w, NEW width, ~(width = 32 /\ Wide(w)), Major(w) = \h03
  PROVE  Decoded32(w, width)
             = Instr(Entry(Loads, Funct3(w)), Rd(w), Rs1(w), 0, ImmI(w))
  BY SMT DEF Decoded32

LEMMA StoreArm ==
  ASSUME NEW w, NEW width, ~(width = 32 /\ Wide(w)), Major(w) = \h23
  PROVE  Decoded32(w, width)
             = Instr(Entry(Stores, Funct3(w)), 0, Rs1(w), Rs2(w), ImmS(w))
  BY SMT DEF Decoded32

LEMMA FloatLoadArm ==
  ASSUME NEW w, NEW width, ~(width = 32 /\ Wide(w)), Major(w) = \h07
  PROVE  Decoded32(w, width)
             = Instr(Entry(FloatLoads, Funct3(w)), Rd(w), Rs1(w), 0, ImmI(w))
  BY SMT DEF Decoded32

LEMMA FloatStoreArm ==
  ASSUME NEW w, NEW width, ~(width = 32 /\ Wide(w)), Major(w) = \h27
  PROVE  Decoded32(w, width)
             = Instr(Entry(FloatStores, Funct3(w)), 0, Rs1(w), Rs2(w), ImmS(w))
  BY SMT DEF Decoded32

LEMMA ImmArm ==
  ASSUME NEW w, NEW width, ~(width = 32 /\ Wide(w)), Major(w) = \h13 /\ Funct3(w) % 4 # 1
  PROVE  Decoded32(w, width)
             = Instr(Entry(OpImms, Funct3(w)), Rd(w), Rs1(w), 0, ImmI(w))
  BY SMT DEF Decoded32

LEMMA ShiftArm ==
  ASSUME NEW w, NEW width, ~(width = 32 /\ Wide(w)), Major(w) = \h13 /\ Funct3(w) % 4 = 1
  PROVE  Decoded32(w, width)
             = Instr(Entry(ShiftImms, ShiftCode(w, width)), Rd(w), Rs1(w), 0, Shamt(w, width))
  BY SMT DEF Decoded32

LEMMA AddiwArm ==
  ASSUME NEW w, NEW width, ~(width = 32 /\ Wide(w)), Major(w) = \h1b /\ Funct3(w) = 0
  PROVE  Decoded32(w, width)
             = Instr("Addiw", Rd(w), Rs1(w), 0, ImmI(w))
  BY SMT DEF Decoded32

LEMMA ShiftWArm ==
  ASSUME NEW w, NEW width, ~(width = 32 /\ Wide(w)), Major(w) = \h1b /\ Funct3(w) # 0
  PROVE  Decoded32(w, width)
             = Instr(Entry(OpImm32s, Both(w)), Rd(w), Rs1(w), 0, Rs2(w))
  BY SMT DEF Decoded32

LEMMA OpArm ==
  ASSUME NEW w, NEW width, ~(width = 32 /\ Wide(w)), Major(w) = \h33
  PROVE  Decoded32(w, width)
             = Instr(Entry(Ops, Both(w)), Rd(w), Rs1(w), Rs2(w), 0)
  BY SMT DEF Decoded32

LEMMA OpWArm ==
  ASSUME NEW w, NEW width, ~(width = 32 /\ Wide(w)), Major(w) = \h3b
  PROVE  Decoded32(w, width)
             = Instr(Entry(Op32s, Both(w)), Rd(w), Rs1(w), Rs2(w), 0)
  BY SMT DEF Decoded32

LEMMA AmoWArm ==
  ASSUME NEW w, NEW width, ~(width = 32 /\ Wide(w)), Major(w) = \h2f /\ Funct3(w) = 2
  PROVE  Decoded32(w, width)
             = Instr(Entry(AmoWs, Funct5(w)), Rd(w), Rs1(w), Rs2(w), Funct7(w) % 4)
  BY SMT DEF Decoded32

LEMMA AmoDArm ==
  ASSUME NEW w, NEW width, ~(width = 32 /\ Wide(w)), Major(w) = \h2f /\ Funct3(w) = 3
  PROVE  Decoded32(w, width)
             = Instr(Entry(AmoDs, Funct5(w)), Rd(w), Rs1(w), Rs2(w), Funct7(w) % 4)
  BY SMT DEF Decoded32

LEMMA FenceArm ==
  ASSUME NEW w, NEW width, ~(width = 32 /\ Wide(w)), Major(w) = \h0f /\ Funct3(w) = 0
  PROVE  Decoded32(w, width)
             = Instr("Fence", Rd(w), Rs1(w), 0, ImmI(w) % 4096)
  BY SMT DEF Decoded32

LEMMA FenceIArm ==
  ASSUME NEW w, NEW width, ~(width = 32 /\ Wide(w)), Major(w) = \h0f /\ Funct3(w) = 1
  PROVE  Decoded32(w, width)
             = Instr("FenceI", Rd(w), Rs1(w), 0, ImmI(w))
  BY SMT DEF Decoded32

LEMMA CsrArm ==
  ASSUME NEW w, NEW width, ~(width = 32 /\ Wide(w)), Major(w) = \h73 /\ Funct3(w) # 0 /\ Both(w) \notin {72, 88}
  PROVE  Decoded32(w, width)
             = Instr(Entry(Csrs, Funct3(w)), Rd(w), Rs1(w), 0, ImmI(w) % 4096)
  BY SMT DEF Decoded32

LEMMA SfenceVmaArm ==
  ASSUME NEW w, NEW width, ~(width = 32 /\ Wide(w)), Major(w) = \h73 /\ Funct3(w) = 0 /\ Both(w) = 72
  PROVE  Decoded32(w, width)
             = Instr("SfenceVma", Rd(w), Rs1(w), Rs2(w), 0)
  BY SMT DEF Decoded32

LEMMA SinvalVmaArm ==
  ASSUME NEW w, NEW width, ~(width = 32 /\ Wide(w)), Major(w) = \h73 /\ Funct3(w) = 0 /\ Both(w) = 88
  PROVE  Decoded32(w, width)
             = Instr("SinvalVma", Rd(w), Rs1(w), Rs2(w), 0)
  BY SMT DEF Decoded32

LEMMA SystemArm ==
  ASSUME NEW w, NEW width, ~(width = 32 /\ Wide(w)), Major(w) = \h73 /\ Funct3(w) = 0 /\ Both(w) \notin {72, 88}
  PROVE  Decoded32(w, width)
             = Instr(Entry(Systems, ImmI(w) % 4096), Rd(w), Rs1(w), 0, 0)
  BY SMT DEF Decoded32

LEMMA FmaArm ==
  ASSUME NEW w, NEW width, ~(width = 32 /\ Wide(w)), Major(w) \in {67, 71, 75, 79}
  PROVE  Decoded32(w, width)
             = [Instr(Entry(Fmas, <<Major(w), Fmt(w)>>), Rd(w), Rs1(w), Rs2(w), Funct3(w))
                  EXCEPT !.rs3 = Funct5(w)]
  BY SMT DEF Decoded32

LEMMA FloatRoundArm ==
  ASSUME NEW w, NEW width, ~(width = 32 /\ Wide(w)), Major(w) = \h53 /\ Funct5(w) \in {0, 1, 2, 3, 11}
             /\ Funct7(w) \notin {32, 33, 96, 97, 104, 105}
  PROVE  Decoded32(w, width)
             = Instr(Entry(FloatRounds, <<Funct5(w), Fmt(w)>>), Rd(w), Rs1(w), Rs2(w), Funct3(w))
  BY SMT DEF Decoded32

LEMMA FloatConversionArm ==
  ASSUME NEW w, NEW width, ~(width = 32 /\ Wide(w)), Major(w) = \h53 /\ Funct7(w) \in {32, 33, 96, 97, 104, 105}
             /\ Funct5(w) \notin {0, 1, 2, 3, 4, 5, 11, 20, 28, 30}
  PROVE  Decoded32(w, width)
             = Instr(Entry(FloatConversions, <<Funct7(w), Rs2(w)>>), Rd(w), Rs1(w), 0, Funct3(w))
  BY SMT DEF Decoded32

LEMMA FloatSelectionArm ==
  ASSUME NEW w, NEW width, ~(width = 32 /\ Wide(w)), Major(w) = \h53 /\ Funct5(w) \in {4, 5, 20, 28, 30}
             /\ Funct7(w) \notin {32, 33, 96, 97, 104, 105}
  PROVE  Decoded32(w, width)
             = Instr(Entry(FloatSelections, <<Funct7(w), Funct3(w)>>), Rd(w), Rs1(w), Rs2(w), 0)
  BY SMT DEF Decoded32

--------------------------------------------------------------------------------
(* An opcode is found again by the fields that tell it apart.                *)

LEMMA EntryIs ==
  ASSUME NEW table, NEW op \in DOMAIN table, NEW c, c = table[op],
         \A other \in DOMAIN table : table[other] = c => other = op
  PROVE  Entry(table, c) = op
  BY DEF Entry

\* The fixed bits of the catalog are those of the decoder's tables.
LEMMA BranchTable ==
  ASSUME NEW op \in DOMAIN BType
  PROVE  /\ Branches[op] \in Nat /\ Branches[op] < 8
         /\ BType[op] = Base(99, Branches[op], 0, 0)
         /\ Entry(Branches, Branches[op]) = op
<1>1. op \in DOMAIN Branches
  BY OpcodeTables, ArithmeticTables DEF Branches
<1>2. Branches[op] \in Nat /\ Branches[op] < 8
  BY OpcodeTables, ArithmeticTables DEF Branches
<1>3. BType[op] = Base(99, Branches[op], 0, 0)
  BY OpcodeTables, ArithmeticTables, SMT DEF Branches, BType, Base
<1>4. \A other \in DOMAIN Branches : Branches[other] = Branches[op] => other = op
  BY OpcodeTables, ArithmeticTables, SMT DEF Branches
<1>6. QED
  BY <1>1, <1>2, <1>3, <1>4, EntryIs

LEMMA LoadTable ==
  ASSUME NEW op \in DOMAIN LoadType
  PROVE  /\ Loads[op] \in Nat /\ Loads[op] < 8
         /\ LoadType[op] = Base(3, Loads[op], 0, 0)
         /\ Entry(Loads, Loads[op]) = op
         /\ Loads[op] \in {3, 6} => op \in {"Lwu", "Ld"}
<1>1. op \in DOMAIN Loads
  BY OpcodeTables, ArithmeticTables DEF Loads
<1>2. Loads[op] \in Nat /\ Loads[op] < 8
  BY OpcodeTables, ArithmeticTables DEF Loads
<1>3. LoadType[op] = Base(3, Loads[op], 0, 0)
  BY OpcodeTables, ArithmeticTables, SMT DEF Loads, LoadType, Base
<1>4. \A other \in DOMAIN Loads : Loads[other] = Loads[op] => other = op
  BY OpcodeTables, ArithmeticTables, SMT DEF Loads
<1>5. Loads[op] \in {3, 6} => op \in {"Lwu", "Ld"}
  BY OpcodeTables, ArithmeticTables, SMT DEF Loads
<1>6. QED
  BY <1>1, <1>2, <1>3, <1>4, <1>5, EntryIs

LEMMA StoreTable ==
  ASSUME NEW op \in DOMAIN StoreType
  PROVE  /\ Stores[op] \in Nat /\ Stores[op] < 8
         /\ StoreType[op] = Base(35, Stores[op], 0, 0)
         /\ Entry(Stores, Stores[op]) = op
         /\ Stores[op] = 3 => op = "Sd"
<1>1. op \in DOMAIN Stores
  BY OpcodeTables, ArithmeticTables DEF Stores
<1>2. Stores[op] \in Nat /\ Stores[op] < 8
  BY OpcodeTables, ArithmeticTables DEF Stores
<1>3. StoreType[op] = Base(35, Stores[op], 0, 0)
  BY OpcodeTables, ArithmeticTables, SMT DEF Stores, StoreType, Base
<1>4. \A other \in DOMAIN Stores : Stores[other] = Stores[op] => other = op
  BY OpcodeTables, ArithmeticTables, SMT DEF Stores
<1>5. Stores[op] = 3 => op = "Sd"
  BY OpcodeTables, ArithmeticTables, SMT DEF Stores
<1>6. QED
  BY <1>1, <1>2, <1>3, <1>4, <1>5, EntryIs

LEMMA FloatLoadTable ==
  ASSUME NEW op \in DOMAIN FloatLoadType
  PROVE  /\ FloatLoads[op] \in Nat /\ FloatLoads[op] < 8
         /\ FloatLoadType[op] = Base(7, FloatLoads[op], 0, 0)
         /\ Entry(FloatLoads, FloatLoads[op]) = op
<1>1. op \in DOMAIN FloatLoads
  BY SystemTables DEF FloatLoads
<1>2. FloatLoads[op] \in Nat /\ FloatLoads[op] < 8
  BY SystemTables DEF FloatLoads
<1>3. FloatLoadType[op] = Base(7, FloatLoads[op], 0, 0)
  BY SystemTables, SMT DEF FloatLoads, FloatLoadType, Base
<1>4. \A other \in DOMAIN FloatLoads : FloatLoads[other] = FloatLoads[op] => other = op
  BY SystemTables, SMT DEF FloatLoads
<1>6. QED
  BY <1>1, <1>2, <1>3, <1>4, EntryIs

LEMMA FloatStoreTable ==
  ASSUME NEW op \in DOMAIN FloatStoreType
  PROVE  /\ FloatStores[op] \in Nat /\ FloatStores[op] < 8
         /\ FloatStoreType[op] = Base(39, FloatStores[op], 0, 0)
         /\ Entry(FloatStores, FloatStores[op]) = op
<1>1. op \in DOMAIN FloatStores
  BY SystemTables DEF FloatStores
<1>2. FloatStores[op] \in Nat /\ FloatStores[op] < 8
  BY SystemTables DEF FloatStores
<1>3. FloatStoreType[op] = Base(39, FloatStores[op], 0, 0)
  BY SystemTables, SMT DEF FloatStores, FloatStoreType, Base
<1>4. \A other \in DOMAIN FloatStores : FloatStores[other] = FloatStores[op] => other = op
  BY SystemTables, SMT DEF FloatStores
<1>6. QED
  BY <1>1, <1>2, <1>3, <1>4, EntryIs

LEMMA ImmTable ==
  ASSUME NEW op \in DOMAIN ImmType \ {"Addiw"}
  PROVE  /\ OpImms[op] \in Nat /\ OpImms[op] < 8
         /\ ImmType[op] = Base(19, OpImms[op], 0, 0)
         /\ Entry(OpImms, OpImms[op]) = op
         /\ OpImms[op] % 4 # 1
<1>1. op \in DOMAIN OpImms
  BY OpcodeTables, ArithmeticTables DEF OpImms
<1>2. OpImms[op] \in Nat /\ OpImms[op] < 8
  BY OpcodeTables, ArithmeticTables DEF OpImms
<1>3. ImmType[op] = Base(19, OpImms[op], 0, 0)
  BY OpcodeTables, ArithmeticTables, SMT DEF OpImms, ImmType, Base
<1>4. \A other \in DOMAIN OpImms : OpImms[other] = OpImms[op] => other = op
  BY OpcodeTables, ArithmeticTables, SMT DEF OpImms
<1>5. OpImms[op] % 4 # 1
  BY OpcodeTables, ArithmeticTables, SMT DEF OpImms
<1>6. QED
  BY <1>1, <1>2, <1>3, <1>4, <1>5, EntryIs

LEMMA CsrTable ==
  ASSUME NEW op \in DOMAIN CsrType
  PROVE  /\ Csrs[op] \in Nat /\ Csrs[op] < 8
         /\ CsrType[op] = Base(115, Csrs[op], 0, 0)
         /\ Entry(Csrs, Csrs[op]) = op
         /\ Csrs[op] # 0
<1>1. op \in DOMAIN Csrs
  BY SystemTables DEF Csrs
<1>2. Csrs[op] \in Nat /\ Csrs[op] < 8
  BY SystemTables DEF Csrs
<1>3. CsrType[op] = Base(115, Csrs[op], 0, 0)
  BY SystemTables, SMT DEF Csrs, CsrType, Base
<1>4. \A other \in DOMAIN Csrs : Csrs[other] = Csrs[op] => other = op
  BY SystemTables, SMT DEF Csrs
<1>5. Csrs[op] # 0
  BY SystemTables, SMT DEF Csrs
<1>6. QED
  BY <1>1, <1>2, <1>3, <1>4, <1>5, EntryIs

LEMMA CsrImmTable ==
  ASSUME NEW op \in DOMAIN CsrImmType
  PROVE  /\ Csrs[op] \in Nat /\ Csrs[op] < 8
         /\ CsrImmType[op] = Base(115, Csrs[op], 0, 0)
         /\ Entry(Csrs, Csrs[op]) = op
         /\ Csrs[op] # 0
<1>1. op \in DOMAIN Csrs
  BY SystemTables DEF Csrs
<1>2. Csrs[op] \in Nat /\ Csrs[op] < 8
  BY SystemTables DEF Csrs
<1>3. CsrImmType[op] = Base(115, Csrs[op], 0, 0)
  BY SystemTables, SMT DEF Csrs, CsrImmType, Base
<1>4. \A other \in DOMAIN Csrs : Csrs[other] = Csrs[op] => other = op
  BY SystemTables, SMT DEF Csrs
<1>5. Csrs[op] # 0
  BY SystemTables, SMT DEF Csrs
<1>6. QED
  BY <1>1, <1>2, <1>3, <1>4, <1>5, EntryIs

LEMMA OpTable ==
  ASSUME NEW op \in DOMAIN OpType
  PROVE  \E f3 \in Nat, f7 \in Nat :
             /\ f3 < 8 /\ f7 < 128
             /\ OpType[op] = Base(51, f3, 0, f7)
             /\ Entry(Ops, f3 + 8 * f7) = op
<1>1. op \in DOMAIN Ops /\ Ops[op] \in Nat /\ Ops[op] < 1024
  BY ArithmeticTables DEF Ops
<1>2. PICK f3 \in 0 .. 7, f7 \in {0, 1, 32} : Ops[op] = f3 + 8 * f7
  BY ArithmeticTables, SMT DEF Ops
<1>3. OpType[op] = Base(51, f3, 0, f7)
  BY ArithmeticTables, <1>2, SMT DEF Ops, OpType, Base
<1>4. \A other \in DOMAIN Ops : Ops[other] = Ops[op] => other = op
  BY ArithmeticTables, SMT DEF Ops
<1>5. Entry(Ops, f3 + 8 * f7) = op
  BY <1>1, <1>2, <1>4, EntryIs
<1>6. f3 \in Nat /\ f3 < 8 /\ f7 \in Nat /\ f7 < 128
  BY <1>2
<1>7. QED
  BY <1>3, <1>5, <1>6

LEMMA MulTable ==
  ASSUME NEW op \in DOMAIN MulType
  PROVE  \E f3 \in Nat, f7 \in Nat :
             /\ f3 < 8 /\ f7 < 128
             /\ MulType[op] = Base(51, f3, 0, f7)
             /\ Entry(Ops, f3 + 8 * f7) = op
<1>1. op \in DOMAIN Ops /\ Ops[op] \in Nat /\ Ops[op] < 1024
  BY ArithmeticTables DEF Ops
<1>2. PICK f3 \in 0 .. 7, f7 \in {0, 1, 32} : Ops[op] = f3 + 8 * f7
  BY ArithmeticTables, SMT DEF Ops
<1>3. MulType[op] = Base(51, f3, 0, f7)
  BY ArithmeticTables, <1>2, SMT DEF Ops, MulType, Base
<1>4. \A other \in DOMAIN Ops : Ops[other] = Ops[op] => other = op
  BY ArithmeticTables, SMT DEF Ops
<1>5. Entry(Ops, f3 + 8 * f7) = op
  BY <1>1, <1>2, <1>4, EntryIs
<1>6. f3 \in Nat /\ f3 < 8 /\ f7 \in Nat /\ f7 < 128
  BY <1>2
<1>7. QED
  BY <1>3, <1>5, <1>6

LEMMA OpWTable ==
  ASSUME NEW op \in DOMAIN OpWType
  PROVE  \E f3 \in Nat, f7 \in Nat :
             /\ f3 < 8 /\ f7 < 128
             /\ OpWType[op] = Base(59, f3, 0, f7)
             /\ Entry(Op32s, f3 + 8 * f7) = op
<1>1. op \in DOMAIN Op32s /\ Op32s[op] \in Nat /\ Op32s[op] < 1024
  BY ArithmeticTables DEF Op32s
<1>2. PICK f3 \in 0 .. 7, f7 \in {0, 1, 32} : Op32s[op] = f3 + 8 * f7
  BY ArithmeticTables, SMT DEF Op32s
<1>3. OpWType[op] = Base(59, f3, 0, f7)
  BY ArithmeticTables, <1>2, SMT DEF Op32s, OpWType, Base
<1>4. \A other \in DOMAIN Op32s : Op32s[other] = Op32s[op] => other = op
  BY ArithmeticTables, SMT DEF Op32s
<1>5. Entry(Op32s, f3 + 8 * f7) = op
  BY <1>1, <1>2, <1>4, EntryIs
<1>6. f3 \in Nat /\ f3 < 8 /\ f7 \in Nat /\ f7 < 128
  BY <1>2
<1>7. QED
  BY <1>3, <1>5, <1>6

LEMMA MulWTable ==
  ASSUME NEW op \in DOMAIN MulWType
  PROVE  \E f3 \in Nat, f7 \in Nat :
             /\ f3 < 8 /\ f7 < 128
             /\ MulWType[op] = Base(59, f3, 0, f7)
             /\ Entry(Op32s, f3 + 8 * f7) = op
<1>1. op \in DOMAIN Op32s /\ Op32s[op] \in Nat /\ Op32s[op] < 1024
  BY ArithmeticTables DEF Op32s
<1>2. PICK f3 \in 0 .. 7, f7 \in {0, 1, 32} : Op32s[op] = f3 + 8 * f7
  BY ArithmeticTables, SMT DEF Op32s
<1>3. MulWType[op] = Base(59, f3, 0, f7)
  BY ArithmeticTables, <1>2, SMT DEF Op32s, MulWType, Base
<1>4. \A other \in DOMAIN Op32s : Op32s[other] = Op32s[op] => other = op
  BY ArithmeticTables, SMT DEF Op32s
<1>5. Entry(Op32s, f3 + 8 * f7) = op
  BY <1>1, <1>2, <1>4, EntryIs
<1>6. f3 \in Nat /\ f3 < 8 /\ f7 \in Nat /\ f7 < 128
  BY <1>2
<1>7. QED
  BY <1>3, <1>5, <1>6

LEMMA ShiftTable ==
  ASSUME NEW op \in DOMAIN ShiftType
  PROVE  \E f3 \in {1, 5}, g \in Nat :
             /\ g < 64
             /\ ShiftType[op] = Base(19, f3, 0, 2 * g)
             /\ Entry(ShiftImms, f3 + 16 * g) = op
<1>1. op \in DOMAIN ShiftImms
  BY ArithmeticTables DEF ShiftImms
<1>2. PICK f3 \in {1, 5}, g \in Nat : ShiftImms[op] = f3 + 16 * g /\ (g = 0 \/ g = 16)
  BY ArithmeticTables, SMT DEF ShiftImms
<1>3. ShiftType[op] = Base(19, f3, 0, 2 * g)
  BY ArithmeticTables, <1>2, SMT DEF ShiftImms, ShiftType, Base
<1>4. \A other \in DOMAIN ShiftImms : ShiftImms[other] = ShiftImms[op] => other = op
  BY ArithmeticTables, SMT DEF ShiftImms
<1>5. g < 64
  BY <1>2
<1>6. Entry(ShiftImms, f3 + 16 * g) = op
  BY <1>1, <1>2, <1>4, EntryIs
<1>7. QED
  BY <1>2, <1>3, <1>5, <1>6

LEMMA ShiftWTable ==
  ASSUME NEW op \in DOMAIN ShiftWType
  PROVE  \E f3 \in {1, 5}, g \in Nat :
             /\ g < 64
             /\ ShiftWType[op] = Base(27, f3, 0, 2 * g)
             /\ Entry(OpImm32s, f3 + 16 * g) = op
<1>1. op \in DOMAIN OpImm32s
  BY ArithmeticTables DEF OpImm32s
<1>2. PICK f3 \in {1, 5}, g \in Nat : OpImm32s[op] = f3 + 16 * g /\ (g = 0 \/ g = 16)
  BY ArithmeticTables, SMT DEF OpImm32s
<1>3. ShiftWType[op] = Base(27, f3, 0, 2 * g)
  BY ArithmeticTables, <1>2, SMT DEF OpImm32s, ShiftWType, Base
<1>4. \A other \in DOMAIN OpImm32s : OpImm32s[other] = OpImm32s[op] => other = op
  BY ArithmeticTables, SMT DEF OpImm32s
<1>5. g < 64
  BY <1>2
<1>6. Entry(OpImm32s, f3 + 16 * g) = op
  BY <1>1, <1>2, <1>4, EntryIs
<1>7. QED
  BY <1>2, <1>3, <1>5, <1>6

LEMMA AmoWTable ==
  ASSUME NEW op \in DOMAIN AmoType
  PROVE  /\ AmoWs[op] \in Nat /\ AmoWs[op] < 32
         /\ AmoType[op] = Base(47, 2, 0, 4 * AmoWs[op])
         /\ Entry(AmoWs, AmoWs[op]) = op
<1>1. op \in DOMAIN AmoWs
  BY AmoTables DEF AmoWs
<1>2. AmoWs[op] \in Nat /\ AmoWs[op] < 32
  BY AmoTables DEF AmoWs
<1>3. AmoType[op] = Base(47, 2, 0, 4 * AmoWs[op])
  BY AmoTables, SMT DEF AmoWs, AmoType, Base, High
<1>4. \A other \in DOMAIN AmoWs : AmoWs[other] = AmoWs[op] => other = op
  BY AmoTables, SMT DEF AmoWs
<1>5. QED
  BY <1>1, <1>2, <1>3, <1>4, EntryIs

LEMMA AmoDTable ==
  ASSUME NEW op \in DOMAIN AmoDType
  PROVE  /\ AmoDs[op] \in Nat /\ AmoDs[op] < 32
         /\ AmoDType[op] = Base(47, 3, 0, 4 * AmoDs[op])
         /\ Entry(AmoDs, AmoDs[op]) = op
<1>1. op \in DOMAIN AmoDs
  BY AmoTables DEF AmoDs
<1>2. AmoDs[op] \in Nat /\ AmoDs[op] < 32
  BY AmoTables DEF AmoDs
<1>3. AmoDType[op] = Base(47, 3, 0, 4 * AmoDs[op])
  BY AmoTables, SMT DEF AmoDs, AmoDType, Base, High
<1>4. \A other \in DOMAIN AmoDs : AmoDs[other] = AmoDs[op] => other = op
  BY AmoTables, SMT DEF AmoDs
<1>5. QED
  BY <1>1, <1>2, <1>3, <1>4, EntryIs

LEMMA FloatTernaryTable ==
  ASSUME NEW op \in DOMAIN FloatTernaryType
  PROVE  \E major \in {67, 71, 75, 79}, f \in {0, 1} :
             /\ FloatTernaryType[op] = Base(major, 0, 0, f)
             /\ Entry(Fmas, <<major, f>>) = op
<1>1. op \in DOMAIN Fmas
  BY FloatTables DEF Fmas
<1>2. PICK major \in {67, 71, 75, 79}, f \in {0, 1} : Fmas[op] = <<major, f>>
  BY FloatTables, SMT DEF Fmas
<1>3. FloatTernaryType[op] = Base(major, 0, 0, f)
  BY FloatTables, <1>2, SMT DEF Fmas, FloatTernaryType, Base, High
<1>4. \A other \in DOMAIN Fmas : Fmas[other] = Fmas[op] => other = op
  BY FloatTables, SMT DEF Fmas
<1>5. Entry(Fmas, <<major, f>>) = op
  BY <1>1, <1>2, <1>4, EntryIs
<1>6. QED
  BY <1>2, <1>3, <1>5

LEMMA FloatBinaryTable ==
  ASSUME NEW op \in DOMAIN FloatBinaryType
  PROVE  \E f5 \in {0, 1, 2, 3}, f \in {0, 1} :
             /\ FloatBinaryType[op] = Base(83, 0, 0, 4 * f5 + f)
             /\ Entry(FloatRounds, <<f5, f>>) = op
<1>1. op \in DOMAIN FloatRounds
  BY FloatTables DEF FloatRounds
<1>2. PICK f5 \in {0, 1, 2, 3}, f \in {0, 1} : FloatRounds[op] = <<f5, f>>
  BY FloatTables, SMT DEF FloatRounds
<1>3. FloatBinaryType[op] = Base(83, 0, 0, 4 * f5 + f)
  BY FloatTables, <1>2, SMT DEF FloatRounds, FloatBinaryType, Base, High
<1>4. \A other \in DOMAIN FloatRounds : FloatRounds[other] = FloatRounds[op] => other = op
  BY FloatTables, SMT DEF FloatRounds
<1>5. Entry(FloatRounds, <<f5, f>>) = op
  BY <1>1, <1>2, <1>4, EntryIs
<1>6. QED
  BY <1>2, <1>3, <1>5

LEMMA FloatRootTable ==
  ASSUME NEW op \in {"FsqrtS", "FsqrtD"}
  PROVE  \E f \in {0, 1} :
             /\ FloatUnaryType[op] = Base(83, 0, 0, 4 * 11 + f)
             /\ Entry(FloatRounds, <<11, f>>) = op
<1>1. op \in DOMAIN FloatRounds
  BY FloatTables DEF FloatRounds
<1>2. PICK f \in {0, 1} : FloatRounds[op] = <<11, f>>
  BY FloatTables, SMT DEF FloatRounds
<1>3. FloatUnaryType[op] = Base(83, 0, 0, 4 * 11 + f)
  BY FloatTables, <1>2, SMT DEF FloatRounds, FloatUnaryType, Base, High
<1>4. \A other \in DOMAIN FloatRounds : FloatRounds[other] = FloatRounds[op] => other = op
  BY FloatTables, SMT DEF FloatRounds
<1>5. Entry(FloatRounds, <<11, f>>) = op
  BY <1>1, <1>2, <1>4, EntryIs
<1>6. QED
  BY <1>2, <1>3, <1>5

LEMMA FloatWidthTable ==
  ASSUME NEW op \in {"FcvtSD", "FcvtDS"}
  PROVE  \E f \in {0, 1}, r2 \in {0, 1} :
             /\ FloatUnaryType[op] = Base(83, 0, r2, 32 + f)
             /\ Entry(FloatConversions, <<32 + f, r2>>) = op
<1>1. op \in DOMAIN FloatConversions
  BY FloatTables DEF FloatConversions
<1>2. PICK f \in {0, 1}, r2 \in {0, 1} : FloatConversions[op] = <<32 + f, r2>>
  BY FloatTables, SMT DEF FloatConversions
<1>3. FloatUnaryType[op] = Base(83, 0, r2, 32 + f)
  BY FloatTables, <1>2, SMT DEF FloatConversions, FloatUnaryType, Base, High
<1>4. \A other \in DOMAIN FloatConversions : FloatConversions[other] = FloatConversions[op] => other = op
  BY FloatTables, SMT DEF FloatConversions
<1>5. Entry(FloatConversions, <<32 + f, r2>>) = op
  BY <1>1, <1>2, <1>4, EntryIs
<1>6. QED
  BY <1>2, <1>3, <1>5

LEMMA FloatToIntTable ==
  ASSUME NEW op \in DOMAIN FloatToIntType
  PROVE  \E f \in {0, 1}, r2 \in {0, 1, 2, 3} :
             /\ FloatToIntType[op] = Base(83, 0, r2, 96 + f)
             /\ Entry(FloatConversions, <<96 + f, r2>>) = op
             /\ r2 \in {2, 3} => op \in {"FcvtLS", "FcvtLuS", "FcvtLD", "FcvtLuD"}
<1>1. op \in DOMAIN FloatConversions
  BY FloatTables DEF FloatConversions
<1>2. PICK f \in {0, 1}, r2 \in {0, 1, 2, 3} : FloatConversions[op] = <<96 + f, r2>> /\ (r2 \in {2, 3} => op \in {"FcvtLS", "FcvtLuS", "FcvtLD", "FcvtLuD"})
  BY FloatTables, SMT DEF FloatConversions
<1>3. FloatToIntType[op] = Base(83, 0, r2, 96 + f)
  BY FloatTables, <1>2, SMT DEF FloatConversions, FloatToIntType, Base, High
<1>4. \A other \in DOMAIN FloatConversions : FloatConversions[other] = FloatConversions[op] => other = op
  BY FloatTables, SMT DEF FloatConversions
<1>5. Entry(FloatConversions, <<96 + f, r2>>) = op
  BY <1>1, <1>2, <1>4, EntryIs
<1>6. QED
  BY <1>2, <1>3, <1>5

LEMMA IntToFloatTable ==
  ASSUME NEW op \in DOMAIN IntToFloatType
  PROVE  \E f \in {0, 1}, r2 \in {0, 1, 2, 3} :
             /\ IntToFloatType[op] = Base(83, 0, r2, 104 + f)
             /\ Entry(FloatConversions, <<104 + f, r2>>) = op
             /\ r2 \in {2, 3} => op \in {"FcvtSL", "FcvtSLu", "FcvtDL", "FcvtDLu"}
<1>1. op \in DOMAIN FloatConversions
  BY FloatTables DEF FloatConversions
<1>2. PICK f \in {0, 1}, r2 \in {0, 1, 2, 3} : FloatConversions[op] = <<104 + f, r2>> /\ (r2 \in {2, 3} => op \in {"FcvtSL", "FcvtSLu", "FcvtDL", "FcvtDLu"})
  BY FloatTables, SMT DEF FloatConversions
<1>3. IntToFloatType[op] = Base(83, 0, r2, 104 + f)
  BY FloatTables, <1>2, SMT DEF FloatConversions, IntToFloatType, Base, High
<1>4. \A other \in DOMAIN FloatConversions : FloatConversions[other] = FloatConversions[op] => other = op
  BY FloatTables, SMT DEF FloatConversions
<1>5. Entry(FloatConversions, <<104 + f, r2>>) = op
  BY <1>1, <1>2, <1>4, EntryIs
<1>6. QED
  BY <1>2, <1>3, <1>5

LEMMA FloatSelectTable ==
  ASSUME NEW op \in DOMAIN FloatSelectType
  PROVE  \E f7 \in {16, 17, 20, 21}, f3 \in {0, 1, 2} :
             /\ FloatSelectType[op] = Base(83, f3, 0, f7)
             /\ Entry(FloatSelections, <<f7, f3>>) = op
<1>1. op \in DOMAIN FloatSelections
  BY FloatTables DEF FloatSelections
<1>2. PICK f7 \in {16, 17, 20, 21}, f3 \in {0, 1, 2} : FloatSelections[op] = <<f7, f3>>
  BY FloatTables, SMT DEF FloatSelections
<1>3. FloatSelectType[op] = Base(83, f3, 0, f7)
  BY FloatTables, <1>2, SMT DEF FloatSelections, FloatSelectType, Base, High
<1>4. \A other \in DOMAIN FloatSelections : FloatSelections[other] = FloatSelections[op] => other = op
  BY FloatTables, SMT DEF FloatSelections
<1>5. Entry(FloatSelections, <<f7, f3>>) = op
  BY <1>1, <1>2, <1>4, EntryIs
<1>6. QED
  BY <1>2, <1>3, <1>5

LEMMA FloatCompareTable ==
  ASSUME NEW op \in DOMAIN FloatCompareType
  PROVE  \E f7 \in {80, 81}, f3 \in {0, 1, 2} :
             /\ FloatCompareType[op] = Base(83, f3, 0, f7)
             /\ Entry(FloatSelections, <<f7, f3>>) = op
<1>1. op \in DOMAIN FloatSelections
  BY FloatTables DEF FloatSelections
<1>2. PICK f7 \in {80, 81}, f3 \in {0, 1, 2} : FloatSelections[op] = <<f7, f3>>
  BY FloatTables, SMT DEF FloatSelections
<1>3. FloatCompareType[op] = Base(83, f3, 0, f7)
  BY FloatTables, <1>2, SMT DEF FloatSelections, FloatCompareType, Base, High
<1>4. \A other \in DOMAIN FloatSelections : FloatSelections[other] = FloatSelections[op] => other = op
  BY FloatTables, SMT DEF FloatSelections
<1>5. Entry(FloatSelections, <<f7, f3>>) = op
  BY <1>1, <1>2, <1>4, EntryIs
<1>6. QED
  BY <1>2, <1>3, <1>5

LEMMA FloatToBitsTable ==
  ASSUME NEW op \in DOMAIN FloatToBitsType
  PROVE  \E f7 \in {112, 113}, f3 \in {0, 1} :
             /\ FloatToBitsType[op] = Base(83, f3, 0, f7)
             /\ Entry(FloatSelections, <<f7, f3>>) = op
             /\ f7 = 113 /\ f3 = 0 => op = "FmvXD"
<1>1. op \in DOMAIN FloatSelections
  BY FloatTables DEF FloatSelections
<1>2. PICK f7 \in {112, 113}, f3 \in {0, 1} : FloatSelections[op] = <<f7, f3>> /\ (f7 = 113 /\ f3 = 0 => op = "FmvXD")
  BY FloatTables, SMT DEF FloatSelections
<1>3. FloatToBitsType[op] = Base(83, f3, 0, f7)
  BY FloatTables, <1>2, SMT DEF FloatSelections, FloatToBitsType, Base, High
<1>4. \A other \in DOMAIN FloatSelections : FloatSelections[other] = FloatSelections[op] => other = op
  BY FloatTables, SMT DEF FloatSelections
<1>5. Entry(FloatSelections, <<f7, f3>>) = op
  BY <1>1, <1>2, <1>4, EntryIs
<1>6. QED
  BY <1>2, <1>3, <1>5

LEMMA BitsToFloatTable ==
  ASSUME NEW op \in DOMAIN BitsToFloatType
  PROVE  \E f7 \in {120, 121} :
             /\ BitsToFloatType[op] = Base(83, 0, 0, f7)
             /\ Entry(FloatSelections, <<f7, 0>>) = op
             /\ f7 = 121 => op = "FmvDX"
<1>1. op \in DOMAIN FloatSelections
  BY FloatTables DEF FloatSelections
<1>2. PICK f7 \in {120, 121} : FloatSelections[op] = <<f7, 0>> /\ (f7 = 121 => op = "FmvDX")
  BY FloatTables, SMT DEF FloatSelections
<1>3. BitsToFloatType[op] = Base(83, 0, 0, f7)
  BY FloatTables, <1>2, SMT DEF FloatSelections, BitsToFloatType, Base, High
<1>4. \A other \in DOMAIN FloatSelections : FloatSelections[other] = FloatSelections[op] => other = op
  BY FloatTables, SMT DEF FloatSelections
<1>5. Entry(FloatSelections, <<f7, 0>>) = op
  BY <1>1, <1>2, <1>4, EntryIs
<1>6. QED
  BY <1>2, <1>3, <1>5

LEMMA SystemTable ==
  ASSUME NEW op \in DOMAIN PlainType \ {"FenceI"}
  PROVE  \E f7 \in {0, 8, 12, 24}, r2 \in {0, 1, 2, 5} :
             /\ PlainType[op] = Base(115, 0, r2, f7)
             /\ Entry(Systems, r2 + 32 * f7) = op
<1>1. op \in DOMAIN Systems
  BY SystemTables DEF Systems
<1>2. PICK f7 \in {0, 8, 12, 24}, r2 \in {0, 1, 2, 5} : Systems[op] = r2 + 32 * f7
  BY SystemTables, SMT DEF Systems
<1>3. PlainType[op] = Base(115, 0, r2, f7)
  BY SystemTables, <1>2, SMT DEF Systems, PlainType, Base, High
<1>4. \A other \in DOMAIN Systems : Systems[other] = Systems[op] => other = op
  BY SystemTables, SMT DEF Systems
<1>5. Entry(Systems, r2 + 32 * f7) = op
  BY <1>1, <1>2, <1>4, EntryIs
<1>6. QED
  BY <1>2, <1>3, <1>5

--------------------------------------------------------------------------------
(* A word decodes to what it was packed from.                                *)

LEMMA JoinedIs ==
  ASSUME NEW tables, NEW t \in tables, NEW op \in DOMAIN t,
         \A u \in tables : op \in DOMAIN u => u = t
  PROVE  op \in DOMAIN Joined(tables) /\ Joined(tables)[op] = t[op]
<1>1. op \in Names(tables)
  BY DEF Names
<1>2. (CHOOSE u \in tables : op \in DOMAIN u) = t
  OBVIOUS
<1>3. QED
  BY <1>1, <1>2 DEF Joined

LEMMA IFormIs ==
  ASSUME NEW op
  PROVE  /\ op \in DOMAIN JalrType => op \in DOMAIN IForm /\ IForm[op] = JalrType[op]
         /\ op \in DOMAIN LoadType => op \in DOMAIN IForm /\ IForm[op] = LoadType[op]
         /\ op \in DOMAIN FloatLoadType => op \in DOMAIN IForm /\ IForm[op] = FloatLoadType[op]
         /\ op \in DOMAIN ImmType => op \in DOMAIN IForm /\ IForm[op] = ImmType[op]
         /\ op \in DOMAIN ShiftType => op \in DOMAIN IForm /\ IForm[op] = ShiftType[op]
         /\ op \in DOMAIN ShiftWType => op \in DOMAIN IForm /\ IForm[op] = ShiftWType[op]
         /\ op \in DOMAIN CsrType => op \in DOMAIN IForm /\ IForm[op] = CsrType[op]
         /\ op \in DOMAIN CsrImmType => op \in DOMAIN IForm /\ IForm[op] = CsrImmType[op]
         /\ op \in DOMAIN FenceType => op \in DOMAIN IForm /\ IForm[op] = FenceType[op]
<1>1. ASSUME op \in DOMAIN JalrType
      PROVE  op \in DOMAIN IForm /\ IForm[op] = JalrType[op]
  <2> DEFINE tables == {JalrType, LoadType, FloatLoadType, ImmType, ShiftType, ShiftWType, CsrType, CsrImmType, FenceType}
  <2>1. JalrType \in tables
    OBVIOUS
  <2>2. \A u \in tables : op \in DOMAIN u => u = JalrType
    BY <1>1, OpcodeTables, ArithmeticTables, SystemTables
  <2>3. IForm = Joined(tables)
    BY DEF IForm
  <2> HIDE DEF tables
  <2>4. QED
    BY <1>1, <2>1, <2>2, <2>3, JoinedIs
<1>2. ASSUME op \in DOMAIN LoadType
      PROVE  op \in DOMAIN IForm /\ IForm[op] = LoadType[op]
  <2> DEFINE tables == {JalrType, LoadType, FloatLoadType, ImmType, ShiftType, ShiftWType, CsrType, CsrImmType, FenceType}
  <2>1. LoadType \in tables
    OBVIOUS
  <2>2. \A u \in tables : op \in DOMAIN u => u = LoadType
    BY <1>2, OpcodeTables, ArithmeticTables, SystemTables
  <2>3. IForm = Joined(tables)
    BY DEF IForm
  <2> HIDE DEF tables
  <2>4. QED
    BY <1>2, <2>1, <2>2, <2>3, JoinedIs
<1>3. ASSUME op \in DOMAIN FloatLoadType
      PROVE  op \in DOMAIN IForm /\ IForm[op] = FloatLoadType[op]
  <2> DEFINE tables == {JalrType, LoadType, FloatLoadType, ImmType, ShiftType, ShiftWType, CsrType, CsrImmType, FenceType}
  <2>1. FloatLoadType \in tables
    OBVIOUS
  <2>2. \A u \in tables : op \in DOMAIN u => u = FloatLoadType
    BY <1>3, OpcodeTables, ArithmeticTables, SystemTables
  <2>3. IForm = Joined(tables)
    BY DEF IForm
  <2> HIDE DEF tables
  <2>4. QED
    BY <1>3, <2>1, <2>2, <2>3, JoinedIs
<1>4. ASSUME op \in DOMAIN ImmType
      PROVE  op \in DOMAIN IForm /\ IForm[op] = ImmType[op]
  <2> DEFINE tables == {JalrType, LoadType, FloatLoadType, ImmType, ShiftType, ShiftWType, CsrType, CsrImmType, FenceType}
  <2>1. ImmType \in tables
    OBVIOUS
  <2>2. \A u \in tables : op \in DOMAIN u => u = ImmType
    BY <1>4, OpcodeTables, ArithmeticTables, SystemTables
  <2>3. IForm = Joined(tables)
    BY DEF IForm
  <2> HIDE DEF tables
  <2>4. QED
    BY <1>4, <2>1, <2>2, <2>3, JoinedIs
<1>5. ASSUME op \in DOMAIN ShiftType
      PROVE  op \in DOMAIN IForm /\ IForm[op] = ShiftType[op]
  <2> DEFINE tables == {JalrType, LoadType, FloatLoadType, ImmType, ShiftType, ShiftWType, CsrType, CsrImmType, FenceType}
  <2>1. ShiftType \in tables
    OBVIOUS
  <2>2. \A u \in tables : op \in DOMAIN u => u = ShiftType
    BY <1>5, OpcodeTables, ArithmeticTables, SystemTables
  <2>3. IForm = Joined(tables)
    BY DEF IForm
  <2> HIDE DEF tables
  <2>4. QED
    BY <1>5, <2>1, <2>2, <2>3, JoinedIs
<1>6. ASSUME op \in DOMAIN ShiftWType
      PROVE  op \in DOMAIN IForm /\ IForm[op] = ShiftWType[op]
  <2> DEFINE tables == {JalrType, LoadType, FloatLoadType, ImmType, ShiftType, ShiftWType, CsrType, CsrImmType, FenceType}
  <2>1. ShiftWType \in tables
    OBVIOUS
  <2>2. \A u \in tables : op \in DOMAIN u => u = ShiftWType
    BY <1>6, OpcodeTables, ArithmeticTables, SystemTables
  <2>3. IForm = Joined(tables)
    BY DEF IForm
  <2> HIDE DEF tables
  <2>4. QED
    BY <1>6, <2>1, <2>2, <2>3, JoinedIs
<1>7. ASSUME op \in DOMAIN CsrType
      PROVE  op \in DOMAIN IForm /\ IForm[op] = CsrType[op]
  <2> DEFINE tables == {JalrType, LoadType, FloatLoadType, ImmType, ShiftType, ShiftWType, CsrType, CsrImmType, FenceType}
  <2>1. CsrType \in tables
    OBVIOUS
  <2>2. \A u \in tables : op \in DOMAIN u => u = CsrType
    BY <1>7, OpcodeTables, ArithmeticTables, SystemTables
  <2>3. IForm = Joined(tables)
    BY DEF IForm
  <2> HIDE DEF tables
  <2>4. QED
    BY <1>7, <2>1, <2>2, <2>3, JoinedIs
<1>8. ASSUME op \in DOMAIN CsrImmType
      PROVE  op \in DOMAIN IForm /\ IForm[op] = CsrImmType[op]
  <2> DEFINE tables == {JalrType, LoadType, FloatLoadType, ImmType, ShiftType, ShiftWType, CsrType, CsrImmType, FenceType}
  <2>1. CsrImmType \in tables
    OBVIOUS
  <2>2. \A u \in tables : op \in DOMAIN u => u = CsrImmType
    BY <1>8, OpcodeTables, ArithmeticTables, SystemTables
  <2>3. IForm = Joined(tables)
    BY DEF IForm
  <2> HIDE DEF tables
  <2>4. QED
    BY <1>8, <2>1, <2>2, <2>3, JoinedIs
<1>9. ASSUME op \in DOMAIN FenceType
      PROVE  op \in DOMAIN IForm /\ IForm[op] = FenceType[op]
  <2> DEFINE tables == {JalrType, LoadType, FloatLoadType, ImmType, ShiftType, ShiftWType, CsrType, CsrImmType, FenceType}
  <2>1. FenceType \in tables
    OBVIOUS
  <2>2. \A u \in tables : op \in DOMAIN u => u = FenceType
    BY <1>9, OpcodeTables, ArithmeticTables, SystemTables
  <2>3. IForm = Joined(tables)
    BY DEF IForm
  <2> HIDE DEF tables
  <2>4. QED
    BY <1>9, <2>1, <2>2, <2>3, JoinedIs
<1>10. QED
  BY <1>1, <1>2, <1>3, <1>4, <1>5, <1>6, <1>7, <1>8, <1>9

LEMMA SFormIs ==
  ASSUME NEW op
  PROVE  /\ op \in DOMAIN StoreType => op \in DOMAIN SForm /\ SForm[op] = StoreType[op]
         /\ op \in DOMAIN FloatStoreType => op \in DOMAIN SForm /\ SForm[op] = FloatStoreType[op]
<1>1. ASSUME op \in DOMAIN StoreType
      PROVE  op \in DOMAIN SForm /\ SForm[op] = StoreType[op]
  <2> DEFINE tables == {StoreType, FloatStoreType}
  <2>1. StoreType \in tables
    OBVIOUS
  <2>2. \A u \in tables : op \in DOMAIN u => u = StoreType
    BY <1>1, OpcodeTables, SystemTables
  <2>3. SForm = Joined(tables)
    BY DEF SForm
  <2> HIDE DEF tables
  <2>4. QED
    BY <1>1, <2>1, <2>2, <2>3, JoinedIs
<1>2. ASSUME op \in DOMAIN FloatStoreType
      PROVE  op \in DOMAIN SForm /\ SForm[op] = FloatStoreType[op]
  <2> DEFINE tables == {StoreType, FloatStoreType}
  <2>1. FloatStoreType \in tables
    OBVIOUS
  <2>2. \A u \in tables : op \in DOMAIN u => u = FloatStoreType
    BY <1>2, OpcodeTables, SystemTables
  <2>3. SForm = Joined(tables)
    BY DEF SForm
  <2> HIDE DEF tables
  <2>4. QED
    BY <1>2, <2>1, <2>2, <2>3, JoinedIs
<1>3. QED
  BY <1>1, <1>2

LEMMA RFormIs ==
  ASSUME NEW op
  PROVE  /\ op \in DOMAIN OpType => op \in DOMAIN RForm /\ RForm[op] = OpType[op]
         /\ op \in DOMAIN OpWType => op \in DOMAIN RForm /\ RForm[op] = OpWType[op]
         /\ op \in DOMAIN MulType => op \in DOMAIN RForm /\ RForm[op] = MulType[op]
         /\ op \in DOMAIN MulWType => op \in DOMAIN RForm /\ RForm[op] = MulWType[op]
         /\ op \in DOMAIN VmaType => op \in DOMAIN RForm /\ RForm[op] = VmaType[op]
         /\ op \in DOMAIN PlainType => op \in DOMAIN RForm /\ RForm[op] = PlainType[op]
<1>1. ASSUME op \in DOMAIN OpType
      PROVE  op \in DOMAIN RForm /\ RForm[op] = OpType[op]
  <2> DEFINE tables == {OpType, OpWType, MulType, MulWType, VmaType, PlainType}
  <2>1. OpType \in tables
    OBVIOUS
  <2>2. \A u \in tables : op \in DOMAIN u => u = OpType
    BY <1>1, ArithmeticTables, SystemTables
  <2>3. RForm = Joined(tables)
    BY DEF RForm
  <2> HIDE DEF tables
  <2>4. QED
    BY <1>1, <2>1, <2>2, <2>3, JoinedIs
<1>2. ASSUME op \in DOMAIN OpWType
      PROVE  op \in DOMAIN RForm /\ RForm[op] = OpWType[op]
  <2> DEFINE tables == {OpType, OpWType, MulType, MulWType, VmaType, PlainType}
  <2>1. OpWType \in tables
    OBVIOUS
  <2>2. \A u \in tables : op \in DOMAIN u => u = OpWType
    BY <1>2, ArithmeticTables, SystemTables
  <2>3. RForm = Joined(tables)
    BY DEF RForm
  <2> HIDE DEF tables
  <2>4. QED
    BY <1>2, <2>1, <2>2, <2>3, JoinedIs
<1>3. ASSUME op \in DOMAIN MulType
      PROVE  op \in DOMAIN RForm /\ RForm[op] = MulType[op]
  <2> DEFINE tables == {OpType, OpWType, MulType, MulWType, VmaType, PlainType}
  <2>1. MulType \in tables
    OBVIOUS
  <2>2. \A u \in tables : op \in DOMAIN u => u = MulType
    BY <1>3, ArithmeticTables, SystemTables
  <2>3. RForm = Joined(tables)
    BY DEF RForm
  <2> HIDE DEF tables
  <2>4. QED
    BY <1>3, <2>1, <2>2, <2>3, JoinedIs
<1>4. ASSUME op \in DOMAIN MulWType
      PROVE  op \in DOMAIN RForm /\ RForm[op] = MulWType[op]
  <2> DEFINE tables == {OpType, OpWType, MulType, MulWType, VmaType, PlainType}
  <2>1. MulWType \in tables
    OBVIOUS
  <2>2. \A u \in tables : op \in DOMAIN u => u = MulWType
    BY <1>4, ArithmeticTables, SystemTables
  <2>3. RForm = Joined(tables)
    BY DEF RForm
  <2> HIDE DEF tables
  <2>4. QED
    BY <1>4, <2>1, <2>2, <2>3, JoinedIs
<1>5. ASSUME op \in DOMAIN VmaType
      PROVE  op \in DOMAIN RForm /\ RForm[op] = VmaType[op]
  <2> DEFINE tables == {OpType, OpWType, MulType, MulWType, VmaType, PlainType}
  <2>1. VmaType \in tables
    OBVIOUS
  <2>2. \A u \in tables : op \in DOMAIN u => u = VmaType
    BY <1>5, ArithmeticTables, SystemTables
  <2>3. RForm = Joined(tables)
    BY DEF RForm
  <2> HIDE DEF tables
  <2>4. QED
    BY <1>5, <2>1, <2>2, <2>3, JoinedIs
<1>6. ASSUME op \in DOMAIN PlainType
      PROVE  op \in DOMAIN RForm /\ RForm[op] = PlainType[op]
  <2> DEFINE tables == {OpType, OpWType, MulType, MulWType, VmaType, PlainType}
  <2>1. PlainType \in tables
    OBVIOUS
  <2>2. \A u \in tables : op \in DOMAIN u => u = PlainType
    BY <1>6, ArithmeticTables, SystemTables
  <2>3. RForm = Joined(tables)
    BY DEF RForm
  <2> HIDE DEF tables
  <2>4. QED
    BY <1>6, <2>1, <2>2, <2>3, JoinedIs
<1>7. QED
  BY <1>1, <1>2, <1>3, <1>4, <1>5, <1>6

LEMMA AmoFormIs ==
  ASSUME NEW op
  PROVE  /\ op \in DOMAIN AmoType => op \in DOMAIN AmoForm /\ AmoForm[op] = AmoType[op]
         /\ op \in DOMAIN AmoDType => op \in DOMAIN AmoForm /\ AmoForm[op] = AmoDType[op]
<1>1. ASSUME op \in DOMAIN AmoType
      PROVE  op \in DOMAIN AmoForm /\ AmoForm[op] = AmoType[op]
  <2> DEFINE tables == {AmoType, AmoDType}
  <2>1. AmoType \in tables
    OBVIOUS
  <2>2. \A u \in tables : op \in DOMAIN u => u = AmoType
    BY <1>1, AmoTables
  <2>3. AmoForm = Joined(tables)
    BY DEF AmoForm
  <2> HIDE DEF tables
  <2>4. QED
    BY <1>1, <2>1, <2>2, <2>3, JoinedIs
<1>2. ASSUME op \in DOMAIN AmoDType
      PROVE  op \in DOMAIN AmoForm /\ AmoForm[op] = AmoDType[op]
  <2> DEFINE tables == {AmoType, AmoDType}
  <2>1. AmoDType \in tables
    OBVIOUS
  <2>2. \A u \in tables : op \in DOMAIN u => u = AmoDType
    BY <1>2, AmoTables
  <2>3. AmoForm = Joined(tables)
    BY DEF AmoForm
  <2> HIDE DEF tables
  <2>4. QED
    BY <1>2, <2>1, <2>2, <2>3, JoinedIs
<1>3. QED
  BY <1>1, <1>2

LEMMA FloatFormIs ==
  ASSUME NEW op
  PROVE  /\ op \in DOMAIN FloatTernaryType => op \in DOMAIN FloatForm /\ FloatForm[op] = FloatTernaryType[op]
         /\ op \in DOMAIN FloatBinaryType => op \in DOMAIN FloatForm /\ FloatForm[op] = FloatBinaryType[op]
         /\ op \in DOMAIN FloatUnaryType => op \in DOMAIN FloatForm /\ FloatForm[op] = FloatUnaryType[op]
         /\ op \in DOMAIN FloatSelectType => op \in DOMAIN FloatForm /\ FloatForm[op] = FloatSelectType[op]
         /\ op \in DOMAIN FloatCompareType => op \in DOMAIN FloatForm /\ FloatForm[op] = FloatCompareType[op]
         /\ op \in DOMAIN FloatToIntType => op \in DOMAIN FloatForm /\ FloatForm[op] = FloatToIntType[op]
         /\ op \in DOMAIN IntToFloatType => op \in DOMAIN FloatForm /\ FloatForm[op] = IntToFloatType[op]
         /\ op \in DOMAIN FloatToBitsType => op \in DOMAIN FloatForm /\ FloatForm[op] = FloatToBitsType[op]
         /\ op \in DOMAIN BitsToFloatType => op \in DOMAIN FloatForm /\ FloatForm[op] = BitsToFloatType[op]
<1>1. ASSUME op \in DOMAIN FloatTernaryType
      PROVE  op \in DOMAIN FloatForm /\ FloatForm[op] = FloatTernaryType[op]
  <2> DEFINE tables == {FloatTernaryType, FloatBinaryType, FloatUnaryType, FloatSelectType, FloatCompareType, FloatToIntType, IntToFloatType, FloatToBitsType, BitsToFloatType}
  <2>1. FloatTernaryType \in tables
    OBVIOUS
  <2>2. \A u \in tables : op \in DOMAIN u => u = FloatTernaryType
    BY <1>1, FloatTables
  <2>3. FloatForm = Joined(tables)
    BY DEF FloatForm, FloatTypes
  <2> HIDE DEF tables
  <2>4. QED
    BY <1>1, <2>1, <2>2, <2>3, JoinedIs
<1>2. ASSUME op \in DOMAIN FloatBinaryType
      PROVE  op \in DOMAIN FloatForm /\ FloatForm[op] = FloatBinaryType[op]
  <2> DEFINE tables == {FloatTernaryType, FloatBinaryType, FloatUnaryType, FloatSelectType, FloatCompareType, FloatToIntType, IntToFloatType, FloatToBitsType, BitsToFloatType}
  <2>1. FloatBinaryType \in tables
    OBVIOUS
  <2>2. \A u \in tables : op \in DOMAIN u => u = FloatBinaryType
    BY <1>2, FloatTables
  <2>3. FloatForm = Joined(tables)
    BY DEF FloatForm, FloatTypes
  <2> HIDE DEF tables
  <2>4. QED
    BY <1>2, <2>1, <2>2, <2>3, JoinedIs
<1>3. ASSUME op \in DOMAIN FloatUnaryType
      PROVE  op \in DOMAIN FloatForm /\ FloatForm[op] = FloatUnaryType[op]
  <2> DEFINE tables == {FloatTernaryType, FloatBinaryType, FloatUnaryType, FloatSelectType, FloatCompareType, FloatToIntType, IntToFloatType, FloatToBitsType, BitsToFloatType}
  <2>1. FloatUnaryType \in tables
    OBVIOUS
  <2>2. \A u \in tables : op \in DOMAIN u => u = FloatUnaryType
    BY <1>3, FloatTables
  <2>3. FloatForm = Joined(tables)
    BY DEF FloatForm, FloatTypes
  <2> HIDE DEF tables
  <2>4. QED
    BY <1>3, <2>1, <2>2, <2>3, JoinedIs
<1>4. ASSUME op \in DOMAIN FloatSelectType
      PROVE  op \in DOMAIN FloatForm /\ FloatForm[op] = FloatSelectType[op]
  <2> DEFINE tables == {FloatTernaryType, FloatBinaryType, FloatUnaryType, FloatSelectType, FloatCompareType, FloatToIntType, IntToFloatType, FloatToBitsType, BitsToFloatType}
  <2>1. FloatSelectType \in tables
    OBVIOUS
  <2>2. \A u \in tables : op \in DOMAIN u => u = FloatSelectType
    BY <1>4, FloatTables
  <2>3. FloatForm = Joined(tables)
    BY DEF FloatForm, FloatTypes
  <2> HIDE DEF tables
  <2>4. QED
    BY <1>4, <2>1, <2>2, <2>3, JoinedIs
<1>5. ASSUME op \in DOMAIN FloatCompareType
      PROVE  op \in DOMAIN FloatForm /\ FloatForm[op] = FloatCompareType[op]
  <2> DEFINE tables == {FloatTernaryType, FloatBinaryType, FloatUnaryType, FloatSelectType, FloatCompareType, FloatToIntType, IntToFloatType, FloatToBitsType, BitsToFloatType}
  <2>1. FloatCompareType \in tables
    OBVIOUS
  <2>2. \A u \in tables : op \in DOMAIN u => u = FloatCompareType
    BY <1>5, FloatTables
  <2>3. FloatForm = Joined(tables)
    BY DEF FloatForm, FloatTypes
  <2> HIDE DEF tables
  <2>4. QED
    BY <1>5, <2>1, <2>2, <2>3, JoinedIs
<1>6. ASSUME op \in DOMAIN FloatToIntType
      PROVE  op \in DOMAIN FloatForm /\ FloatForm[op] = FloatToIntType[op]
  <2> DEFINE tables == {FloatTernaryType, FloatBinaryType, FloatUnaryType, FloatSelectType, FloatCompareType, FloatToIntType, IntToFloatType, FloatToBitsType, BitsToFloatType}
  <2>1. FloatToIntType \in tables
    OBVIOUS
  <2>2. \A u \in tables : op \in DOMAIN u => u = FloatToIntType
    BY <1>6, FloatTables
  <2>3. FloatForm = Joined(tables)
    BY DEF FloatForm, FloatTypes
  <2> HIDE DEF tables
  <2>4. QED
    BY <1>6, <2>1, <2>2, <2>3, JoinedIs
<1>7. ASSUME op \in DOMAIN IntToFloatType
      PROVE  op \in DOMAIN FloatForm /\ FloatForm[op] = IntToFloatType[op]
  <2> DEFINE tables == {FloatTernaryType, FloatBinaryType, FloatUnaryType, FloatSelectType, FloatCompareType, FloatToIntType, IntToFloatType, FloatToBitsType, BitsToFloatType}
  <2>1. IntToFloatType \in tables
    OBVIOUS
  <2>2. \A u \in tables : op \in DOMAIN u => u = IntToFloatType
    BY <1>7, FloatTables
  <2>3. FloatForm = Joined(tables)
    BY DEF FloatForm, FloatTypes
  <2> HIDE DEF tables
  <2>4. QED
    BY <1>7, <2>1, <2>2, <2>3, JoinedIs
<1>8. ASSUME op \in DOMAIN FloatToBitsType
      PROVE  op \in DOMAIN FloatForm /\ FloatForm[op] = FloatToBitsType[op]
  <2> DEFINE tables == {FloatTernaryType, FloatBinaryType, FloatUnaryType, FloatSelectType, FloatCompareType, FloatToIntType, IntToFloatType, FloatToBitsType, BitsToFloatType}
  <2>1. FloatToBitsType \in tables
    OBVIOUS
  <2>2. \A u \in tables : op \in DOMAIN u => u = FloatToBitsType
    BY <1>8, FloatTables
  <2>3. FloatForm = Joined(tables)
    BY DEF FloatForm, FloatTypes
  <2> HIDE DEF tables
  <2>4. QED
    BY <1>8, <2>1, <2>2, <2>3, JoinedIs
<1>9. ASSUME op \in DOMAIN BitsToFloatType
      PROVE  op \in DOMAIN FloatForm /\ FloatForm[op] = BitsToFloatType[op]
  <2> DEFINE tables == {FloatTernaryType, FloatBinaryType, FloatUnaryType, FloatSelectType, FloatCompareType, FloatToIntType, IntToFloatType, FloatToBitsType, BitsToFloatType}
  <2>1. BitsToFloatType \in tables
    OBVIOUS
  <2>2. \A u \in tables : op \in DOMAIN u => u = BitsToFloatType
    BY <1>9, FloatTables
  <2>3. FloatForm = Joined(tables)
    BY DEF FloatForm, FloatTypes
  <2> HIDE DEF tables
  <2>4. QED
    BY <1>9, <2>1, <2>2, <2>3, JoinedIs
<1>10. QED
  BY <1>1, <1>2, <1>3, <1>4, <1>5, <1>6, <1>7, <1>8, <1>9

LEMMA LoadDecodes ==
  ASSUME NEW op \in DOMAIN LoadType, NEW width \in {32, 64},
         width = 32 => op \notin {"Lwu", "Ld"},
         NEW d \in Nat, d < 32, NEW s1 \in Nat, s1 < 32, NEW imm \in Int, -2048 <= imm, imm <= 2047,
         NEW w, w = PackI(LoadType[op], d, s1, BitsOf(imm))
  PROVE  /\ Decoded32(w, width) = Instr(op, d, s1, 0, imm)
         /\ Major(w) = 3 /\ Funct3(w) = Loads[op] /\ Rd(w) = d
<1>1. PICK f3 \in Nat : /\ f3 = Loads[op] /\ f3 < 8 /\ LoadType[op] = Base(3, f3, 0, 0)
                        /\ Entry(Loads, f3) = op
                        /\ width = 32 => f3 \notin {3, 6}
  BY LoadTable
<1>2. /\ Major(w) = 3 /\ Rd(w) = d /\ Funct3(w) = f3 /\ Rs1(w) = s1
      /\ HasRun(w, 20, 31, 20, imm)
  <2>1. w = PackI(Base(3, f3, 0, 0), d, s1, BitsOf(imm))
    BY <1>1
  <2>2. QED
    BY <1>1, <2>1, IFields
<1>3. ImmI(w) = imm
  BY <1>2, ImmIIs DEF HasRun
<1>4. ~(width = 32 /\ Wide(w))
  BY <1>1, <1>2 DEF Wide
<1>5. Decoded32(w, width) = Instr(Entry(Loads, f3), d, s1, 0, imm)
  BY <1>1, <1>2, <1>3, <1>4, LoadArm
<1>6. QED
  BY <1>1, <1>2, <1>5

LEMMA FloatLoadDecodes ==
  ASSUME NEW op \in DOMAIN FloatLoadType, NEW width \in {32, 64},
         NEW d \in Nat, d < 32, NEW s1 \in Nat, s1 < 32, NEW imm \in Int, -2048 <= imm, imm <= 2047,
         NEW w, w = PackI(FloatLoadType[op], d, s1, BitsOf(imm))
  PROVE  /\ Decoded32(w, width) = Instr(op, d, s1, 0, imm)
         /\ Major(w) = 7 /\ Funct3(w) = FloatLoads[op] /\ Rd(w) = d
<1>1. PICK f3 \in Nat : /\ f3 = FloatLoads[op] /\ f3 < 8 /\ FloatLoadType[op] = Base(7, f3, 0, 0)
                        /\ Entry(FloatLoads, f3) = op
  BY FloatLoadTable
<1>2. /\ Major(w) = 7 /\ Rd(w) = d /\ Funct3(w) = f3 /\ Rs1(w) = s1
      /\ HasRun(w, 20, 31, 20, imm)
  <2>1. w = PackI(Base(7, f3, 0, 0), d, s1, BitsOf(imm))
    BY <1>1
  <2>2. QED
    BY <1>1, <2>1, IFields
<1>3. ImmI(w) = imm
  BY <1>2, ImmIIs DEF HasRun
<1>4. ~(width = 32 /\ Wide(w))
  BY <1>1, <1>2 DEF Wide
<1>5. Decoded32(w, width) = Instr(Entry(FloatLoads, f3), d, s1, 0, imm)
  BY <1>1, <1>2, <1>3, <1>4, FloatLoadArm
<1>6. QED
  BY <1>1, <1>2, <1>5

LEMMA ImmDecodes ==
  ASSUME NEW op \in DOMAIN ImmType \ {"Addiw"}, NEW width \in {32, 64},
         NEW d \in Nat, d < 32, NEW s1 \in Nat, s1 < 32, NEW imm \in Int, -2048 <= imm, imm <= 2047,
         NEW w, w = PackI(ImmType[op], d, s1, BitsOf(imm))
  PROVE  /\ Decoded32(w, width) = Instr(op, d, s1, 0, imm)
         /\ Major(w) = 19 /\ Funct3(w) = OpImms[op] /\ Rd(w) = d
<1>1. PICK f3 \in Nat : /\ f3 = OpImms[op] /\ f3 < 8 /\ ImmType[op] = Base(19, f3, 0, 0)
                        /\ Entry(OpImms, f3) = op
                        /\ f3 % 4 # 1
  BY ImmTable
<1>2. /\ Major(w) = 19 /\ Rd(w) = d /\ Funct3(w) = f3 /\ Rs1(w) = s1
      /\ HasRun(w, 20, 31, 20, imm)
  <2>1. w = PackI(Base(19, f3, 0, 0), d, s1, BitsOf(imm))
    BY <1>1
  <2>2. f3 \in Nat /\ f3 < 8
    BY <1>1
  <2>3. QED
    BY <2>1, <2>2, IFields
<1>3. ImmI(w) = imm
  BY <1>2, ImmIIs DEF HasRun
<1>4. ~(width = 32 /\ Wide(w))
  BY <1>1, <1>2 DEF Wide
<1>5. Decoded32(w, width) = Instr(Entry(OpImms, f3), d, s1, 0, imm)
  BY <1>1, <1>2, <1>3, <1>4, ImmArm
<1>6. QED
  BY <1>1, <1>2, <1>5

LEMMA JalrDecodes ==
  ASSUME NEW width \in {32, 64},
         NEW d \in Nat, d < 32, NEW s1 \in Nat, s1 < 32, NEW imm \in Int, -2048 <= imm, imm <= 2047,
         NEW w, w = PackI(JalrType["Jalr"], d, s1, BitsOf(imm))
  PROVE  /\ Decoded32(w, width) = Instr("Jalr", d, s1, 0, imm)
         /\ Major(w) = 103 /\ Funct3(w) = 0 /\ Rd(w) = d
<1>1. JalrType["Jalr"] = Base(103, 0, 0, 0)
  BY SMT DEF JalrType, Base
<1>2. /\ Major(w) = 103 /\ Rd(w) = d /\ Funct3(w) = 0 /\ Rs1(w) = s1
      /\ HasRun(w, 20, 31, 20, imm)
  <2>1. w = PackI(Base(103, 0, 0, 0), d, s1, BitsOf(imm))
    BY <1>1
  <2>2. QED
    BY <1>1, <2>1, IFields
<1>3. ImmI(w) = imm
  BY <1>2, ImmIIs DEF HasRun
<1>4. ~(width = 32 /\ Wide(w))
  BY <1>2 DEF Wide
<1>5. QED
  BY <1>2, <1>3, <1>4, JalrArm

LEMMA AddiwDecodes ==
  ASSUME NEW width \in {32, 64}, width = 64,
         NEW d \in Nat, d < 32, NEW s1 \in Nat, s1 < 32, NEW imm \in Int, -2048 <= imm, imm <= 2047,
         NEW w, w = PackI(ImmType["Addiw"], d, s1, BitsOf(imm))
  PROVE  /\ Decoded32(w, width) = Instr("Addiw", d, s1, 0, imm)
         /\ Major(w) = 27 /\ Funct3(w) = 0 /\ Rd(w) = d
<1>1. ImmType["Addiw"] = Base(27, 0, 0, 0)
  BY SMT DEF ImmType, Base
<1>2. /\ Major(w) = 27 /\ Rd(w) = d /\ Funct3(w) = 0 /\ Rs1(w) = s1
      /\ HasRun(w, 20, 31, 20, imm)
  <2>1. w = PackI(Base(27, 0, 0, 0), d, s1, BitsOf(imm))
    BY <1>1
  <2>2. QED
    BY <1>1, <2>1, IFields
<1>3. ImmI(w) = imm
  BY <1>2, ImmIIs DEF HasRun
<1>4. ~(width = 32 /\ Wide(w))
  BY <1>2 DEF Wide
<1>5. QED
  BY <1>2, <1>3, <1>4, AddiwArm

LEMMA StoreDecodes ==
  ASSUME NEW op \in DOMAIN StoreType, NEW width \in {32, 64},
         width = 32 => op \notin {"Sd"},
         NEW s1 \in Nat, s1 < 32, NEW s2 \in Nat, s2 < 32, NEW imm \in Int, -2048 <= imm, imm <= 2047,
         NEW w, w = PackS(StoreType[op], s1, s2, BitsOf(imm))
  PROVE  /\ Decoded32(w, width) = Instr(op, 0, s1, s2, imm)
         /\ Major(w) = 35 /\ Funct3(w) = Stores[op]
<1>1. PICK f3 \in Nat : /\ f3 = Stores[op] /\ f3 < 8 /\ StoreType[op] = Base(35, f3, 0, 0)
                        /\ Entry(Stores, f3) = op
                        /\ width = 32 => f3 # 3
  BY StoreTable
<1>2. /\ Major(w) = 35 /\ Funct3(w) = f3 /\ Rs1(w) = s1 /\ Rs2(w) = s2
      /\ HasRun(w, 7, 11, 7, imm)
      /\ HasRun(w, 25, 31, 20, imm)
  <2>1. w = PackS(Base(35, f3, 0, 0), s1, s2, BitsOf(imm))
    BY <1>1
  <2>2. QED
    BY <1>1, <2>1, SFields
<1>3. ImmS(w) = imm
  BY <1>2, ImmSIs DEF HasRun
<1>4. ~(width = 32 /\ Wide(w))
  BY <1>1, <1>2 DEF Wide
<1>5. Decoded32(w, width) = Instr(Entry(Stores, f3), 0, s1, s2, imm)
  BY <1>1, <1>2, <1>3, <1>4, StoreArm
<1>6. QED
  BY <1>1, <1>2, <1>5

LEMMA FloatStoreDecodes ==
  ASSUME NEW op \in DOMAIN FloatStoreType, NEW width \in {32, 64},
         NEW s1 \in Nat, s1 < 32, NEW s2 \in Nat, s2 < 32, NEW imm \in Int, -2048 <= imm, imm <= 2047,
         NEW w, w = PackS(FloatStoreType[op], s1, s2, BitsOf(imm))
  PROVE  /\ Decoded32(w, width) = Instr(op, 0, s1, s2, imm)
         /\ Major(w) = 39 /\ Funct3(w) = FloatStores[op]
<1>1. PICK f3 \in Nat : /\ f3 = FloatStores[op] /\ f3 < 8 /\ FloatStoreType[op] = Base(39, f3, 0, 0)
                        /\ Entry(FloatStores, f3) = op
  BY FloatStoreTable
<1>2. /\ Major(w) = 39 /\ Funct3(w) = f3 /\ Rs1(w) = s1 /\ Rs2(w) = s2
      /\ HasRun(w, 7, 11, 7, imm)
      /\ HasRun(w, 25, 31, 20, imm)
  <2>1. w = PackS(Base(39, f3, 0, 0), s1, s2, BitsOf(imm))
    BY <1>1
  <2>2. QED
    BY <1>1, <2>1, SFields
<1>3. ImmS(w) = imm
  BY <1>2, ImmSIs DEF HasRun
<1>4. ~(width = 32 /\ Wide(w))
  BY <1>1, <1>2 DEF Wide
<1>5. Decoded32(w, width) = Instr(Entry(FloatStores, f3), 0, s1, s2, imm)
  BY <1>1, <1>2, <1>3, <1>4, FloatStoreArm
<1>6. QED
  BY <1>1, <1>2, <1>5

LEMMA BranchDecodes ==
  ASSUME NEW op \in DOMAIN BType, NEW width \in {32, 64},
         NEW s1 \in Nat, s1 < 32, NEW s2 \in Nat, s2 < 32,
         NEW imm \in Int, -4096 <= imm, imm <= 4094, imm % 2 = 0,
         NEW w, w = PackB(BType[op], s1, s2, BitsOf(imm))
  PROVE  Decoded32(w, width) = Instr(op, 0, s1, s2, imm) /\ Major(w) = 99
<1>1. PICK f3 \in Nat : /\ f3 = Branches[op] /\ f3 < 8 /\ BType[op] = Base(99, f3, 0, 0)
                        /\ Entry(Branches, f3) = op
  BY BranchTable
<1>2. /\ Major(w) = 99 /\ Funct3(w) = f3 /\ Rs1(w) = s1 /\ Rs2(w) = s2
      /\ HasBit(w, 7, 11, imm)
      /\ HasRun(w, 8, 11, 7, imm)
      /\ HasRun(w, 25, 30, 20, imm)
      /\ HasBit(w, 31, 12, imm)
  <2>1. w = PackB(Base(99, f3, 0, 0), s1, s2, BitsOf(imm))
    BY <1>1
  <2>2. QED
    <3>1. BranchFields(w, 99, f3, s1, s2, imm)
      BY <1>1, <2>1, BFields
    <3>2. QED
      BY <3>1 DEF BranchFields
<1>3. ImmB(w) = imm
  <2>1. imm < 4096
    OBVIOUS
  <2>2. QED
    BY <1>2, <2>1, ImmBIs DEF HasRun, HasBit
<1>4. ~(width = 32 /\ Wide(w))
  BY <1>1, <1>2 DEF Wide
<1>5. Decoded32(w, width) = Instr(Entry(Branches, f3), 0, s1, s2, imm)
  BY <1>1, <1>2, <1>3, <1>4, BranchArm
<1>6. QED
  BY <1>1, <1>2, <1>5

LEMMA JalDecodes ==
  ASSUME NEW width \in {32, 64}, NEW d \in Nat, d < 32,
         NEW imm \in Int, -1048576 <= imm, imm <= 1048574, imm % 2 = 0,
         NEW w, w = PackJ(JType["Jal"], d, BitsOf(imm))
  PROVE  Decoded32(w, width) = Instr("Jal", d, 0, 0, imm) /\ Major(w) = 111
<1>1. JType["Jal"] = Base(111, 0, 0, 0)
  BY SMT DEF JType, Base
<1>2. /\ Major(w) = 111 /\ Rd(w) = d
      /\ HasRun(w, 12, 19, 0, imm)
      /\ 20 \in w <=> 11 \in BitsOf(imm)
      /\ HasRun(w, 21, 30, 20, imm)
      /\ 31 \in w <=> 20 \in BitsOf(imm)
  <2>1. w = PackJ(Base(111, 0, 0, 0), d, BitsOf(imm))
    BY <1>1, SMT
  <2>2. QED
    BY <1>1, <2>1, JFields, SMT
<1>3. ImmJ(w) = imm
  <2>1. imm < 1048576
    BY SMT
  <2>2. QED
    BY <1>2, <2>1, ImmJIs, SMT DEF HasRun
<1>4. ~(width = 32 /\ Wide(w))
  BY <1>2, SMT DEF Wide
<1>5. QED
  BY <1>2, <1>3, <1>4, JalArm, SMT

\* A field of twenty bits is the number it was given, signed.
SignedUpper(imm) == IF imm > 524287 THEN imm - 1048576 ELSE imm

LEMMA SameLowBits ==
  ASSUME NEW n \in Int, NEW m \in Int, m = n - 1048576, NEW k \in 0 .. 19
  PROVE  k \in BitsOf(n) <=> k \in BitsOf(m)
<1>0. Odd(n, 0) <=> Odd(m, 0)
  <2>1. 2^0 = 1
    BY PowersAre, SMT
  <2>2. PICK a \in Int : a = n \div 1
    BY SMT
  <2>3. m \div 1 = a - 2 * 524288
    BY <2>2, SMT
  <2>4. (m \div 1) % 2 = a % 2
    BY <2>3, SMT
  <2>5. QED
    BY <2>1, <2>2, <2>4, SMT DEF Odd
<1>1. Odd(n, 1) <=> Odd(m, 1)
  <2>1. 2^1 = 2
    BY PowersAre, SMT
  <2>2. PICK a \in Int : a = n \div 2
    BY SMT
  <2>3. m \div 2 = a - 2 * 262144
    BY <2>2, SMT
  <2>4. (m \div 2) % 2 = a % 2
    BY <2>3, SMT
  <2>5. QED
    BY <2>1, <2>2, <2>4, SMT DEF Odd
<1>2. Odd(n, 2) <=> Odd(m, 2)
  <2>1. 2^2 = 4
    BY PowersAre, SMT
  <2>2. PICK a \in Int : a = n \div 4
    BY SMT
  <2>3. m \div 4 = a - 2 * 131072
    BY <2>2, SMT
  <2>4. (m \div 4) % 2 = a % 2
    BY <2>3, SMT
  <2>5. QED
    BY <2>1, <2>2, <2>4, SMT DEF Odd
<1>3. Odd(n, 3) <=> Odd(m, 3)
  <2>1. 2^3 = 8
    BY PowersAre, SMT
  <2>2. PICK a \in Int : a = n \div 8
    BY SMT
  <2>3. m \div 8 = a - 2 * 65536
    BY <2>2, SMT
  <2>4. (m \div 8) % 2 = a % 2
    BY <2>3, SMT
  <2>5. QED
    BY <2>1, <2>2, <2>4, SMT DEF Odd
<1>4. Odd(n, 4) <=> Odd(m, 4)
  <2>1. 2^4 = 16
    BY PowersAre, SMT
  <2>2. PICK a \in Int : a = n \div 16
    BY SMT
  <2>3. m \div 16 = a - 2 * 32768
    BY <2>2, SMT
  <2>4. (m \div 16) % 2 = a % 2
    BY <2>3, SMT
  <2>5. QED
    BY <2>1, <2>2, <2>4, SMT DEF Odd
<1>5. Odd(n, 5) <=> Odd(m, 5)
  <2>1. 2^5 = 32
    BY PowersAre, SMT
  <2>2. PICK a \in Int : a = n \div 32
    BY SMT
  <2>3. m \div 32 = a - 2 * 16384
    BY <2>2, SMT
  <2>4. (m \div 32) % 2 = a % 2
    BY <2>3, SMT
  <2>5. QED
    BY <2>1, <2>2, <2>4, SMT DEF Odd
<1>6. Odd(n, 6) <=> Odd(m, 6)
  <2>1. 2^6 = 64
    BY PowersAre, SMT
  <2>2. PICK a \in Int : a = n \div 64
    BY SMT
  <2>3. m \div 64 = a - 2 * 8192
    BY <2>2, SMT
  <2>4. (m \div 64) % 2 = a % 2
    BY <2>3, SMT
  <2>5. QED
    BY <2>1, <2>2, <2>4, SMT DEF Odd
<1>7. Odd(n, 7) <=> Odd(m, 7)
  <2>1. 2^7 = 128
    BY PowersAre, SMT
  <2>2. PICK a \in Int : a = n \div 128
    BY SMT
  <2>3. m \div 128 = a - 2 * 4096
    BY <2>2, SMT
  <2>4. (m \div 128) % 2 = a % 2
    BY <2>3, SMT
  <2>5. QED
    BY <2>1, <2>2, <2>4, SMT DEF Odd
<1>8. Odd(n, 8) <=> Odd(m, 8)
  <2>1. 2^8 = 256
    BY PowersAre, SMT
  <2>2. PICK a \in Int : a = n \div 256
    BY SMT
  <2>3. m \div 256 = a - 2 * 2048
    BY <2>2, SMT
  <2>4. (m \div 256) % 2 = a % 2
    BY <2>3, SMT
  <2>5. QED
    BY <2>1, <2>2, <2>4, SMT DEF Odd
<1>9. Odd(n, 9) <=> Odd(m, 9)
  <2>1. 2^9 = 512
    BY PowersAre, SMT
  <2>2. PICK a \in Int : a = n \div 512
    BY SMT
  <2>3. m \div 512 = a - 2 * 1024
    BY <2>2, SMT
  <2>4. (m \div 512) % 2 = a % 2
    BY <2>3, SMT
  <2>5. QED
    BY <2>1, <2>2, <2>4, SMT DEF Odd
<1>10. Odd(n, 10) <=> Odd(m, 10)
  <2>1. 2^10 = 1024
    BY PowersAre, SMT
  <2>2. PICK a \in Int : a = n \div 1024
    BY SMT
  <2>3. m \div 1024 = a - 2 * 512
    BY <2>2, SMT
  <2>4. (m \div 1024) % 2 = a % 2
    BY <2>3, SMT
  <2>5. QED
    BY <2>1, <2>2, <2>4, SMT DEF Odd
<1>11. Odd(n, 11) <=> Odd(m, 11)
  <2>1. 2^11 = 2048
    BY PowersAre, SMT
  <2>2. PICK a \in Int : a = n \div 2048
    BY SMT
  <2>3. m \div 2048 = a - 2 * 256
    BY <2>2, SMT
  <2>4. (m \div 2048) % 2 = a % 2
    BY <2>3, SMT
  <2>5. QED
    BY <2>1, <2>2, <2>4, SMT DEF Odd
<1>12. Odd(n, 12) <=> Odd(m, 12)
  <2>1. 2^12 = 4096
    BY PowersAre, SMT
  <2>2. PICK a \in Int : a = n \div 4096
    BY SMT
  <2>3. m \div 4096 = a - 2 * 128
    BY <2>2, SMT
  <2>4. (m \div 4096) % 2 = a % 2
    BY <2>3, SMT
  <2>5. QED
    BY <2>1, <2>2, <2>4, SMT DEF Odd
<1>13. Odd(n, 13) <=> Odd(m, 13)
  <2>1. 2^13 = 8192
    BY PowersAre, SMT
  <2>2. PICK a \in Int : a = n \div 8192
    BY SMT
  <2>3. m \div 8192 = a - 2 * 64
    BY <2>2, SMT
  <2>4. (m \div 8192) % 2 = a % 2
    BY <2>3, SMT
  <2>5. QED
    BY <2>1, <2>2, <2>4, SMT DEF Odd
<1>14. Odd(n, 14) <=> Odd(m, 14)
  <2>1. 2^14 = 16384
    BY PowersAre, SMT
  <2>2. PICK a \in Int : a = n \div 16384
    BY SMT
  <2>3. m \div 16384 = a - 2 * 32
    BY <2>2, SMT
  <2>4. (m \div 16384) % 2 = a % 2
    BY <2>3, SMT
  <2>5. QED
    BY <2>1, <2>2, <2>4, SMT DEF Odd
<1>15. Odd(n, 15) <=> Odd(m, 15)
  <2>1. 2^15 = 32768
    BY PowersAre, SMT
  <2>2. PICK a \in Int : a = n \div 32768
    BY SMT
  <2>3. m \div 32768 = a - 2 * 16
    BY <2>2, SMT
  <2>4. (m \div 32768) % 2 = a % 2
    BY <2>3, SMT
  <2>5. QED
    BY <2>1, <2>2, <2>4, SMT DEF Odd
<1>16. Odd(n, 16) <=> Odd(m, 16)
  <2>1. 2^16 = 65536
    BY PowersAre, SMT
  <2>2. PICK a \in Int : a = n \div 65536
    BY SMT
  <2>3. m \div 65536 = a - 2 * 8
    BY <2>2, SMT
  <2>4. (m \div 65536) % 2 = a % 2
    BY <2>3, SMT
  <2>5. QED
    BY <2>1, <2>2, <2>4, SMT DEF Odd
<1>17. Odd(n, 17) <=> Odd(m, 17)
  <2>1. 2^17 = 131072
    BY PowersAre, SMT
  <2>2. PICK a \in Int : a = n \div 131072
    BY SMT
  <2>3. m \div 131072 = a - 2 * 4
    BY <2>2, SMT
  <2>4. (m \div 131072) % 2 = a % 2
    BY <2>3, SMT
  <2>5. QED
    BY <2>1, <2>2, <2>4, SMT DEF Odd
<1>18. Odd(n, 18) <=> Odd(m, 18)
  <2>1. 2^18 = 262144
    BY PowersAre, SMT
  <2>2. PICK a \in Int : a = n \div 262144
    BY SMT
  <2>3. m \div 262144 = a - 2 * 2
    BY <2>2, SMT
  <2>4. (m \div 262144) % 2 = a % 2
    BY <2>3, SMT
  <2>5. QED
    BY <2>1, <2>2, <2>4, SMT DEF Odd
<1>19. Odd(n, 19) <=> Odd(m, 19)
  <2>1. 2^19 = 524288
    BY PowersAre, SMT
  <2>2. PICK a \in Int : a = n \div 524288
    BY SMT
  <2>3. m \div 524288 = a - 2 * 1
    BY <2>2, SMT
  <2>4. (m \div 524288) % 2 = a % 2
    BY <2>3, SMT
  <2>5. QED
    BY <2>1, <2>2, <2>4, SMT DEF Odd
<1>20. Odd(n, k) <=> Odd(m, k)
  BY <1>0, <1>1, <1>2, <1>3, <1>4, <1>5, <1>6, <1>7, <1>8, <1>9, <1>10, <1>11, <1>12, <1>13, <1>14, <1>15, <1>16, <1>17, <1>18, <1>19, SMT
<1>21. QED
  BY <1>20, BitIsOdd, SMT

LEMMA UpperIs ==
  ASSUME NEW w, NEW imm \in Int, -524288 <= imm, imm <= 1048575,
         HasRun(w, 12, 31, 12, imm)
  PROVE  ImmU(w) = SignedUpper(imm)
<1>1. PICK n \in Int : n = SignedUpper(imm) /\ -524288 <= n /\ n < 524288
  BY SMT DEF SignedUpper
<1>2. ASSUME NEW k \in 0 .. 19
      PROVE  k \in BitsOf(imm) <=> k \in BitsOf(n)
  <2>1. n = imm \/ n = imm - 1048576
    BY <1>1, SMT DEF SignedUpper
  <2>2. QED
    BY <2>1, SameLowBits, SMT
<1>3. ASSUME NEW p \in 12 .. 31
      PROVE  p \in w <=> p - 12 \in BitsOf(n)
  <2>1. p - 12 \in BitsOf(imm) <=> p - 12 \in BitsOf(n)
    BY <1>2, SMT
  <2>2. QED
    BY <2>1, SMT DEF HasRun
<1>4. QED
  BY <1>1, <1>3, ImmUIs, SMT

LEMMA LuiDecodes ==
  ASSUME NEW width \in {32, 64}, NEW d \in Nat, d < 32,
         NEW imm \in Int, -524288 <= imm, imm <= 1048575,
         NEW w, w = PackU(UType["Lui"], d, BitsOf(imm))
  PROVE  /\ Decoded32(w, width) = Instr("Lui", d, 0, 0, SignedUpper(imm))
         /\ Major(w) = 55 /\ Rd(w) = d
<1>1. UType["Lui"] = Base(55, 0, 0, 0)
  BY SMT DEF UType, Base
<1>2. /\ Major(w) = 55 /\ Rd(w) = d
      /\ HasRun(w, 12, 31, 12, imm)
  BY <1>1, UFields, SMT
<1>3. ImmU(w) = SignedUpper(imm)
  BY <1>2, UpperIs, SMT DEF HasRun
<1>4. ~(width = 32 /\ Wide(w))
  BY <1>2, SMT DEF Wide
<1>5. QED
  BY <1>2, <1>3, <1>4, LuiArm, SMT

LEMMA AuipcDecodes ==
  ASSUME NEW width \in {32, 64}, NEW d \in Nat, d < 32,
         NEW imm \in Int, -524288 <= imm, imm <= 1048575,
         NEW w, w = PackU(UType["Auipc"], d, BitsOf(imm))
  PROVE  /\ Decoded32(w, width) = Instr("Auipc", d, 0, 0, SignedUpper(imm))
         /\ Major(w) = 23 /\ Rd(w) = d
<1>1. UType["Auipc"] = Base(23, 0, 0, 0)
  BY SMT DEF UType, Base
<1>2. /\ Major(w) = 23 /\ Rd(w) = d
      /\ HasRun(w, 12, 31, 12, imm)
  BY <1>1, UFields, SMT
<1>3. ImmU(w) = SignedUpper(imm)
  BY <1>2, UpperIs, SMT DEF HasRun
<1>4. ~(width = 32 /\ Wide(w))
  BY <1>2, SMT DEF Wide
<1>5. QED
  BY <1>2, <1>3, <1>4, AuipcArm, SMT

LEMMA OpDecodes ==
  ASSUME NEW op \in DOMAIN OpType, NEW width \in {32, 64},
         NEW d \in Nat, d < 32, NEW s1 \in Nat, s1 < 32, NEW s2 \in Nat, s2 < 32,
         NEW w, w = R(OpType[op], d, s1, s2)
  PROVE  Decoded32(w, width) = Instr(op, d, s1, s2, 0) /\ Major(w) = 51 /\ Rd(w) = d
<1>1. PICK f3 \in Nat, f7 \in Nat :
          /\ f3 < 8 /\ f7 < 128 /\ OpType[op] = Base(51, f3, 0, f7)
          /\ Entry(Ops, f3 + 8 * f7) = op
  BY OpTable
<1>2. w = RWord(51, d, f3, s1, s2, f7)
  BY <1>1, RIsWord
<1>3. /\ Major(w) = 51 /\ Rd(w) = d /\ Rs1(w) = s1 /\ Rs2(w) = s2
      /\ Both(w) = f3 + 8 * f7
  BY <1>1, <1>2, RFields
<1>4. ~(width = 32 /\ Wide(w))
  BY <1>3 DEF Wide
<1>5. QED
  BY <1>1, <1>3, <1>4, OpArm

LEMMA MulDecodes ==
  ASSUME NEW op \in DOMAIN MulType, NEW width \in {32, 64},
         NEW d \in Nat, d < 32, NEW s1 \in Nat, s1 < 32, NEW s2 \in Nat, s2 < 32,
         NEW w, w = R(MulType[op], d, s1, s2)
  PROVE  Decoded32(w, width) = Instr(op, d, s1, s2, 0) /\ Major(w) = 51 /\ Rd(w) = d
<1>1. PICK f3 \in Nat, f7 \in Nat :
          /\ f3 < 8 /\ f7 < 128 /\ MulType[op] = Base(51, f3, 0, f7)
          /\ Entry(Ops, f3 + 8 * f7) = op
  BY MulTable
<1>2. w = RWord(51, d, f3, s1, s2, f7)
  BY <1>1, RIsWord
<1>3. /\ Major(w) = 51 /\ Rd(w) = d /\ Rs1(w) = s1 /\ Rs2(w) = s2
      /\ Both(w) = f3 + 8 * f7
  BY <1>1, <1>2, RFields
<1>4. ~(width = 32 /\ Wide(w))
  BY <1>3 DEF Wide
<1>5. QED
  BY <1>1, <1>3, <1>4, OpArm

LEMMA OpWDecodes ==
  ASSUME NEW op \in DOMAIN OpWType, NEW width \in {32, 64}, width = 64,
         NEW d \in Nat, d < 32, NEW s1 \in Nat, s1 < 32, NEW s2 \in Nat, s2 < 32,
         NEW w, w = R(OpWType[op], d, s1, s2)
  PROVE  Decoded32(w, width) = Instr(op, d, s1, s2, 0) /\ Major(w) = 59 /\ Rd(w) = d
<1>1. PICK f3 \in Nat, f7 \in Nat :
          /\ f3 < 8 /\ f7 < 128 /\ OpWType[op] = Base(59, f3, 0, f7)
          /\ Entry(Op32s, f3 + 8 * f7) = op
  BY OpWTable
<1>2. w = RWord(59, d, f3, s1, s2, f7)
  BY <1>1, RIsWord
<1>3. /\ Major(w) = 59 /\ Rd(w) = d /\ Rs1(w) = s1 /\ Rs2(w) = s2
      /\ Both(w) = f3 + 8 * f7
  BY <1>1, <1>2, RFields
<1>4. ~(width = 32 /\ Wide(w))
  BY <1>3 DEF Wide
<1>5. QED
  BY <1>1, <1>3, <1>4, OpWArm

LEMMA MulWDecodes ==
  ASSUME NEW op \in DOMAIN MulWType, NEW width \in {32, 64}, width = 64,
         NEW d \in Nat, d < 32, NEW s1 \in Nat, s1 < 32, NEW s2 \in Nat, s2 < 32,
         NEW w, w = R(MulWType[op], d, s1, s2)
  PROVE  Decoded32(w, width) = Instr(op, d, s1, s2, 0) /\ Major(w) = 59 /\ Rd(w) = d
<1>1. PICK f3 \in Nat, f7 \in Nat :
          /\ f3 < 8 /\ f7 < 128 /\ MulWType[op] = Base(59, f3, 0, f7)
          /\ Entry(Op32s, f3 + 8 * f7) = op
  BY MulWTable
<1>2. w = RWord(59, d, f3, s1, s2, f7)
  BY <1>1, RIsWord
<1>3. /\ Major(w) = 59 /\ Rd(w) = d /\ Rs1(w) = s1 /\ Rs2(w) = s2
      /\ Both(w) = f3 + 8 * f7
  BY <1>1, <1>2, RFields
<1>4. ~(width = 32 /\ Wide(w))
  BY <1>3 DEF Wide
<1>5. QED
  BY <1>1, <1>3, <1>4, OpWArm

LEMMA ShiftWDecodes ==
  ASSUME NEW op \in DOMAIN ShiftWType, NEW width \in {32, 64}, width = 64,
         NEW d \in Nat, d < 32, NEW s1 \in Nat, s1 < 32, NEW imm \in Nat, imm < 32,
         NEW w, w = PackI(ShiftWType[op], d, s1, BitsOf(imm))
  PROVE  Decoded32(w, width) = Instr(op, d, s1, 0, imm) /\ Major(w) = 27 /\ Rd(w) = d
<1>1. PICK f3 \in {1, 5}, g \in Nat :
          /\ g < 64 /\ ShiftWType[op] = Base(27, f3, 0, 2 * g)
          /\ Entry(OpImm32s, f3 + 16 * g) = op
  BY ShiftWTable
<1>2. PICK f7 \in Nat : f7 = 2 * g /\ f7 < 128
  BY <1>1
<1>3. Split(imm, 0, imm) /\ Halves(f7, g, 0)
  BY <1>2 DEF Split, Halves
<1>4. w = RWord(27, d, f3, s1, imm, f7)
  <2>1. w = PackI(Base(27, f3, 0, f7), d, s1, BitsOf(imm))
    BY <1>1, <1>2, Zenon
  <2>2. QED
    BY <1>1, <1>2, <1>3, <2>1, ShiftIsWord
<1>5. /\ Major(w) = 27 /\ Rd(w) = d /\ Funct3(w) = f3 /\ Rs1(w) = s1 /\ Rs2(w) = imm
      /\ Both(w) = f3 + 8 * f7
  BY <1>1, <1>2, <1>4, RFields
<1>6. f3 + 8 * f7 = f3 + 16 * g /\ f3 # 0
  BY <1>1, <1>2
<1>7. QED
  BY <1>1, <1>5, <1>6, ShiftWArm

LEMMA ShiftDecodes ==
  ASSUME NEW op \in DOMAIN ShiftType, NEW width \in {32, 64},
         NEW d \in Nat, d < 32, NEW s1 \in Nat, s1 < 32, NEW imm \in Nat, imm < width,
         NEW w, w = PackI(ShiftType[op], d, s1, BitsOf(imm))
  PROVE  Decoded32(w, width) = Instr(op, d, s1, 0, imm) /\ Major(w) = 19 /\ Rd(w) = d
<1>1. PICK f3 \in {1, 5}, g \in Nat :
          /\ g < 64 /\ ShiftType[op] = Base(19, f3, 0, 2 * g)
          /\ Entry(ShiftImms, f3 + 16 * g) = op
  BY ShiftTable
<1>2. PICK low \in Nat, h \in Nat :
          low = imm % 32 /\ h = imm \div 32 /\ low < 32 /\ h < 2 /\ imm = 32 * h + low
  OBVIOUS
<1>3. imm < 64 /\ (width = 32 => h = 0 /\ low = imm)
  BY <1>2
<1>4. PICK e \in Nat, f7 \in Nat : e = 2 * g /\ f7 = 2 * g + h /\ f7 < 128
  BY <1>1, <1>2
<1>5. Halves(e, g, 0) /\ Halves(f7, g, h) /\ Split(imm, h, low)
  BY <1>1, <1>2, <1>4 DEF Halves, Split
<1>6. w = PackI(Base(19, f3, 0, e), d, s1, BitsOf(imm))
  BY <1>1, <1>4, Zenon
<1>7. w = RWord(19, d, f3, s1, low, f7)
  BY <1>1, <1>2, <1>3, <1>4, <1>5, <1>6, ShiftIsWord
<1>13. Field(w, 25, 20) = imm
  BY <1>1, <1>2, <1>3, <1>5, <1>7, ShamtIs
<1>8. /\ Major(w) = 19 /\ Rd(w) = d /\ Funct3(w) = f3 /\ Rs1(w) = s1 /\ Rs2(w) = low
      /\ Funct7(w) = f7 /\ Both(w) = f3 + 8 * f7
  BY <1>1, <1>2, <1>4, <1>7, RFields
<1>9. Shamt(w, width) = imm /\ ShiftCode(w, width) = f3 + 16 * g
  <2>1. CASE width = 64
    <3>2. f7 % 2 = h
      BY <1>2, <1>4
    <3>3. ShiftCode(w, width) = f3 + 8 * f7 - 8 * h
      BY <1>8, <2>1, <3>2 DEF ShiftCode
    <3>4. f3 + 8 * f7 - 8 * h = f3 + 16 * g
      BY <1>1, <1>2, <1>4
    <3>5. QED
      BY <1>13, <2>1, <3>3, <3>4 DEF Shamt
  <2>2. CASE width = 32
    <3>1. Shamt(w, width) = imm
      BY <1>3, <1>8, <2>2 DEF Shamt, Rs2
    <3>2. ShiftCode(w, width) = f3 + 8 * f7 /\ f7 = 2 * g
      BY <1>3, <1>4, <1>8, <2>2 DEF ShiftCode
    <3>3. QED
      BY <1>1, <3>1, <3>2
  <2>3. QED
    BY <2>1, <2>2
<1>10. ~(width = 32 /\ Wide(w))
  BY <1>8 DEF Wide
<1>11. f3 % 4 = 1
  BY <1>1
<1>12. QED
  BY <1>1, <1>8, <1>9, <1>10, <1>11, ShiftArm

LEMMA AmoWDecodes ==
  ASSUME NEW op \in DOMAIN AmoType, NEW width \in {32, 64},
         NEW d \in Nat, d < 32, NEW s1 \in Nat, s1 < 32, NEW s2 \in Nat, s2 < 32,
         NEW imm \in Nat, imm < 4,
         NEW w, w = PackAmo(AmoType[op], d, s1, s2, imm)
  PROVE  /\ Decoded32(w, width) = Instr(op, d, s1, s2, imm)
         /\ Major(w) = 47 /\ Rd(w) = d /\ Rs1(w) = s1 /\ Funct3(w) = 2
<1>1. PICK f5 \in Nat : /\ f5 = AmoWs[op] /\ f5 < 32 /\ AmoType[op] = Base(47, 2, 0, 4 * f5)
                        /\ Entry(AmoWs, f5) = op
  BY AmoWTable
<1>2. PICK e \in Nat, f7 \in Nat : e = 4 * f5 /\ f7 = 4 * f5 + imm /\ f7 < 128
  BY <1>1
<1>3. w = PackAmo(Base(47, 2, 0, e), d, s1, s2, imm)
  BY <1>1, <1>2, Zenon
<1>10. Quarters(e, f5, 0) /\ Quarters(f7, f5, imm)
  BY <1>1, <1>2 DEF Quarters
<1>4. w = RWord(47, d, 2, s1, s2, f7)
  BY <1>1, <1>3, <1>10, AmoIsWord
<1>5. /\ Major(w) = 47 /\ Rd(w) = d /\ Funct3(w) = 2 /\ Rs1(w) = s1 /\ Rs2(w) = s2
      /\ Funct7(w) = f7
  BY <1>2, <1>4, RFields
<1>6. Funct5(w) = f5
  BY <1>1, <1>4, <1>10, UpperFields
<1>7. f7 % 4 = imm
  BY <1>1, <1>2
<1>8. ~(width = 32 /\ Wide(w))
  BY <1>5 DEF Wide
<1>9. QED
  BY <1>1, <1>5, <1>6, <1>7, <1>8, AmoWArm

LEMMA AmoDDecodes ==
  ASSUME NEW op \in DOMAIN AmoDType, NEW width \in {32, 64}, width = 64,
         NEW d \in Nat, d < 32, NEW s1 \in Nat, s1 < 32, NEW s2 \in Nat, s2 < 32,
         NEW imm \in Nat, imm < 4,
         NEW w, w = PackAmo(AmoDType[op], d, s1, s2, imm)
  PROVE  /\ Decoded32(w, width) = Instr(op, d, s1, s2, imm)
         /\ Major(w) = 47 /\ Rd(w) = d /\ Rs1(w) = s1 /\ Funct3(w) = 3
<1>1. PICK f5 \in Nat : /\ f5 = AmoDs[op] /\ f5 < 32 /\ AmoDType[op] = Base(47, 3, 0, 4 * f5)
                        /\ Entry(AmoDs, f5) = op
  BY AmoDTable
<1>2. PICK e \in Nat, f7 \in Nat : e = 4 * f5 /\ f7 = 4 * f5 + imm /\ f7 < 128
  BY <1>1
<1>3. w = PackAmo(Base(47, 3, 0, e), d, s1, s2, imm)
  BY <1>1, <1>2, Zenon
<1>10. Quarters(e, f5, 0) /\ Quarters(f7, f5, imm)
  BY <1>1, <1>2 DEF Quarters
<1>4. w = RWord(47, d, 3, s1, s2, f7)
  BY <1>1, <1>3, <1>10, AmoIsWord
<1>5. /\ Major(w) = 47 /\ Rd(w) = d /\ Funct3(w) = 3 /\ Rs1(w) = s1 /\ Rs2(w) = s2
      /\ Funct7(w) = f7
  BY <1>2, <1>4, RFields
<1>6. Funct5(w) = f5
  BY <1>1, <1>4, <1>10, UpperFields
<1>7. f7 % 4 = imm
  BY <1>1, <1>2
<1>8. ~(width = 32 /\ Wide(w))
  BY <1>5 DEF Wide
<1>9. QED
  BY <1>1, <1>5, <1>6, <1>7, <1>8, AmoDArm

LEMMA SameLowTwelve ==
  ASSUME NEW n \in Int, NEW m \in Int, m = n - 4096, NEW k \in 0 .. 11
  PROVE  k \in BitsOf(n) <=> k \in BitsOf(m)
<1>0. Odd(n, 0) <=> Odd(m, 0)
  <2>1. 2^0 = 1
    BY PowersAre, SMT
  <2>2. PICK a \in Int : a = n \div 1
    BY SMT
  <2>3. m \div 1 = a - 2 * 2048
    BY <2>2, SMT
  <2>4. (m \div 1) % 2 = a % 2
    BY <2>3, SMT
  <2>5. QED
    BY <2>1, <2>2, <2>4, SMT DEF Odd
<1>1. Odd(n, 1) <=> Odd(m, 1)
  <2>1. 2^1 = 2
    BY PowersAre, SMT
  <2>2. PICK a \in Int : a = n \div 2
    BY SMT
  <2>3. m \div 2 = a - 2 * 1024
    BY <2>2, SMT
  <2>4. (m \div 2) % 2 = a % 2
    BY <2>3, SMT
  <2>5. QED
    BY <2>1, <2>2, <2>4, SMT DEF Odd
<1>2. Odd(n, 2) <=> Odd(m, 2)
  <2>1. 2^2 = 4
    BY PowersAre, SMT
  <2>2. PICK a \in Int : a = n \div 4
    BY SMT
  <2>3. m \div 4 = a - 2 * 512
    BY <2>2, SMT
  <2>4. (m \div 4) % 2 = a % 2
    BY <2>3, SMT
  <2>5. QED
    BY <2>1, <2>2, <2>4, SMT DEF Odd
<1>3. Odd(n, 3) <=> Odd(m, 3)
  <2>1. 2^3 = 8
    BY PowersAre, SMT
  <2>2. PICK a \in Int : a = n \div 8
    BY SMT
  <2>3. m \div 8 = a - 2 * 256
    BY <2>2, SMT
  <2>4. (m \div 8) % 2 = a % 2
    BY <2>3, SMT
  <2>5. QED
    BY <2>1, <2>2, <2>4, SMT DEF Odd
<1>4. Odd(n, 4) <=> Odd(m, 4)
  <2>1. 2^4 = 16
    BY PowersAre, SMT
  <2>2. PICK a \in Int : a = n \div 16
    BY SMT
  <2>3. m \div 16 = a - 2 * 128
    BY <2>2, SMT
  <2>4. (m \div 16) % 2 = a % 2
    BY <2>3, SMT
  <2>5. QED
    BY <2>1, <2>2, <2>4, SMT DEF Odd
<1>5. Odd(n, 5) <=> Odd(m, 5)
  <2>1. 2^5 = 32
    BY PowersAre, SMT
  <2>2. PICK a \in Int : a = n \div 32
    BY SMT
  <2>3. m \div 32 = a - 2 * 64
    BY <2>2, SMT
  <2>4. (m \div 32) % 2 = a % 2
    BY <2>3, SMT
  <2>5. QED
    BY <2>1, <2>2, <2>4, SMT DEF Odd
<1>6. Odd(n, 6) <=> Odd(m, 6)
  <2>1. 2^6 = 64
    BY PowersAre, SMT
  <2>2. PICK a \in Int : a = n \div 64
    BY SMT
  <2>3. m \div 64 = a - 2 * 32
    BY <2>2, SMT
  <2>4. (m \div 64) % 2 = a % 2
    BY <2>3, SMT
  <2>5. QED
    BY <2>1, <2>2, <2>4, SMT DEF Odd
<1>7. Odd(n, 7) <=> Odd(m, 7)
  <2>1. 2^7 = 128
    BY PowersAre, SMT
  <2>2. PICK a \in Int : a = n \div 128
    BY SMT
  <2>3. m \div 128 = a - 2 * 16
    BY <2>2, SMT
  <2>4. (m \div 128) % 2 = a % 2
    BY <2>3, SMT
  <2>5. QED
    BY <2>1, <2>2, <2>4, SMT DEF Odd
<1>8. Odd(n, 8) <=> Odd(m, 8)
  <2>1. 2^8 = 256
    BY PowersAre, SMT
  <2>2. PICK a \in Int : a = n \div 256
    BY SMT
  <2>3. m \div 256 = a - 2 * 8
    BY <2>2, SMT
  <2>4. (m \div 256) % 2 = a % 2
    BY <2>3, SMT
  <2>5. QED
    BY <2>1, <2>2, <2>4, SMT DEF Odd
<1>9. Odd(n, 9) <=> Odd(m, 9)
  <2>1. 2^9 = 512
    BY PowersAre, SMT
  <2>2. PICK a \in Int : a = n \div 512
    BY SMT
  <2>3. m \div 512 = a - 2 * 4
    BY <2>2, SMT
  <2>4. (m \div 512) % 2 = a % 2
    BY <2>3, SMT
  <2>5. QED
    BY <2>1, <2>2, <2>4, SMT DEF Odd
<1>10. Odd(n, 10) <=> Odd(m, 10)
  <2>1. 2^10 = 1024
    BY PowersAre, SMT
  <2>2. PICK a \in Int : a = n \div 1024
    BY SMT
  <2>3. m \div 1024 = a - 2 * 2
    BY <2>2, SMT
  <2>4. (m \div 1024) % 2 = a % 2
    BY <2>3, SMT
  <2>5. QED
    BY <2>1, <2>2, <2>4, SMT DEF Odd
<1>11. Odd(n, 11) <=> Odd(m, 11)
  <2>1. 2^11 = 2048
    BY PowersAre, SMT
  <2>2. PICK a \in Int : a = n \div 2048
    BY SMT
  <2>3. m \div 2048 = a - 2 * 1
    BY <2>2, SMT
  <2>4. (m \div 2048) % 2 = a % 2
    BY <2>3, SMT
  <2>5. QED
    BY <2>1, <2>2, <2>4, SMT DEF Odd
<1>12. Odd(n, k) <=> Odd(m, k)
  BY <1>0, <1>1, <1>2, <1>3, <1>4, <1>5, <1>6, <1>7, <1>8, <1>9, <1>10, <1>11, SMT
<1>13. QED
  BY <1>12, BitIsOdd, SMT

\* The field of a CSR or a fence is the same number unsigned.
LEMMA UnsignedIs ==
  ASSUME NEW w, NEW imm \in Nat, imm < 4096, HasRun(w, 20, 31, 20, imm)
  PROVE  ImmI(w) % 4096 = imm
<1>1. PICK n \in Int : /\ - 2048 <= n /\ n < 2048 /\ n % 4096 = imm
                       /\ n = imm \/ n = imm - 4096
  <2>1. CASE imm < 2048
    BY <2>1, SMT
  <2>2. CASE imm >= 2048
    <3>1. imm - 4096 \in Int /\ - 2048 <= imm - 4096 /\ imm - 4096 < 2048
          /\ (imm - 4096) % 4096 = imm
      BY <2>2, SMT
    <3>2. QED
      BY <3>1
  <2>3. QED
    BY <2>1, <2>2
<1>2. ASSUME NEW k \in 0 .. 11
      PROVE  k \in BitsOf(imm) <=> k \in BitsOf(n)
  BY <1>1, SameLowTwelve, SMT
<1>3. ASSUME NEW p \in 20 .. 31
      PROVE  p \in w <=> p - 20 \in BitsOf(n)
  <2>1. p - 20 \in BitsOf(imm) <=> p - 20 \in BitsOf(n)
    BY <1>2, SMT
  <2>2. QED
    BY <2>1, SMT DEF HasRun
<1>4. ImmI(w) = n
  BY <1>1, <1>3, ImmIIs, SMT
<1>5. QED
  BY <1>1, <1>4, SMT

LEMMA NumberIsNat ==
  ASSUME NEW bits
  PROVE  Number(bits) \in Nat
  BY PowersAre DEF Number

LEMMA FenceDecodes ==
  ASSUME NEW width \in {32, 64}, NEW imm \in Nat, imm < 4096,
         NEW w, w = PackI(FenceType["Fence"], 0, 0, BitsOf(imm))
  PROVE  /\ Decoded32(w, width) = Instr("Fence", 0, 0, 0, imm)
         /\ Major(w) = 15 /\ Rd(w) = 0
<1>1. FenceType["Fence"] = Base(15, 0, 0, 0)
  BY SMT DEF FenceType, Base
<1>2. /\ Major(w) = 15 /\ Rd(w) = 0 /\ Funct3(w) = 0 /\ Rs1(w) = 0
      /\ HasRun(w, 20, 31, 20, imm)
  BY <1>1, IFields
<1>3. ImmI(w) % 4096 = imm
  BY <1>2, UnsignedIs
<1>4. ~(width = 32 /\ Wide(w))
  BY <1>2 DEF Wide
<1>5. QED
  BY <1>2, <1>3, <1>4, FenceArm

LEMMA FenceIDecodes ==
  ASSUME NEW width \in {32, 64}, NEW w, w = R(PlainType["FenceI"], 0, 0, 0)
  PROVE  /\ Decoded32(w, width) = Instr("FenceI", 0, 0, 0, 0)
         /\ Major(w) = 15 /\ Rd(w) = 0
<1>1. PlainType["FenceI"] = Base(15, 1, 0, 0)
  BY SMT DEF PlainType, Base
<1>2. w = PackI(Base(15, 1, 0, 0), 0, 0, BitsOf(0))
  <2>1. BitsOf(0) = {}
    <3>1. \A k \in BitsOf(0) : k \in 0 .. 1 /\ 0 + k \in At(0, 0)
      BY FewBits, InAt
    <3>2. QED
      BY <3>1, Nothing
  <2>2. Run({}, 11, 0, 20) = {}
    BY DEF Run
  <2>3. QED
    BY <1>1, <2>1, <2>2, Zenon DEF PackI
<1>3. /\ Major(w) = 15 /\ Rd(w) = 0 /\ Funct3(w) = 1 /\ Rs1(w) = 0
      /\ HasRun(w, 20, 31, 20, 0)
  BY <1>2, IFields
<1>4. ImmI(w) = 0
  BY <1>3, ImmIIs DEF HasRun
<1>5. ~(width = 32 /\ Wide(w))
  BY <1>3 DEF Wide
<1>6. QED
  BY <1>3, <1>4, <1>5, FenceIArm

LEMMA CsrDecodes ==
  ASSUME NEW op \in DOMAIN CsrType, NEW width \in {32, 64},
         NEW d \in Nat, d < 32, NEW s1 \in Nat, s1 < 32, NEW imm \in Nat, imm < 4096,
         NEW w, w = PackI(CsrType[op], d, s1, BitsOf(imm))
  PROVE  /\ Decoded32(w, width) = Instr(op, d, s1, 0, imm)
         /\ Major(w) = 115 /\ Rd(w) = d /\ Funct3(w) # 0
<1>1. PICK f3 \in Nat : /\ f3 < 8 /\ f3 # 0 /\ CsrType[op] = Base(115, f3, 0, 0)
                        /\ Entry(Csrs, f3) = op
  BY CsrTable
<1>2. w = PackI(Base(115, f3, 0, 0), d, s1, BitsOf(imm))
  BY <1>1
<1>3. /\ Major(w) = 115 /\ Rd(w) = d /\ Funct3(w) = f3 /\ Rs1(w) = s1
      /\ HasRun(w, 20, 31, 20, imm)
  BY <1>1, <1>2, IFields
<1>4. ImmI(w) % 4096 = imm
  BY <1>3, UnsignedIs
<1>5. Both(w) \notin {72, 88}
  <2>1. PICK n \in Nat : n = Funct7(w)
    BY NumberIsNat DEF Funct7, Field
  <2>2. QED
    BY <1>1, <1>3, <2>1 DEF Both
<1>6. ~(width = 32 /\ Wide(w))
  BY <1>3 DEF Wide
<1>7. QED
  BY <1>1, <1>3, <1>4, <1>5, <1>6, CsrArm

LEMMA CsrImmDecodes ==
  ASSUME NEW op \in DOMAIN CsrImmType, NEW width \in {32, 64},
         NEW d \in Nat, d < 32, NEW s1 \in Nat, s1 < 32, NEW imm \in Nat, imm < 4096,
         NEW w, w = PackI(CsrImmType[op], d, s1, BitsOf(imm))
  PROVE  /\ Decoded32(w, width) = Instr(op, d, s1, 0, imm)
         /\ Major(w) = 115 /\ Rd(w) = d /\ Funct3(w) # 0
<1>1. PICK f3 \in Nat : /\ f3 < 8 /\ f3 # 0 /\ CsrImmType[op] = Base(115, f3, 0, 0)
                        /\ Entry(Csrs, f3) = op
  BY CsrImmTable
<1>2. w = PackI(Base(115, f3, 0, 0), d, s1, BitsOf(imm))
  BY <1>1
<1>3. /\ Major(w) = 115 /\ Rd(w) = d /\ Funct3(w) = f3 /\ Rs1(w) = s1
      /\ HasRun(w, 20, 31, 20, imm)
  BY <1>1, <1>2, IFields
<1>4. ImmI(w) % 4096 = imm
  BY <1>3, UnsignedIs
<1>5. Both(w) \notin {72, 88}
  <2>1. PICK n \in Nat : n = Funct7(w)
    BY NumberIsNat DEF Funct7, Field
  <2>2. QED
    BY <1>1, <1>3, <2>1 DEF Both
<1>6. ~(width = 32 /\ Wide(w))
  BY <1>3 DEF Wide
<1>7. QED
  BY <1>1, <1>3, <1>4, <1>5, <1>6, CsrArm

LEMMA SfenceVmaDecodes ==
  ASSUME NEW width \in {32, 64}, NEW s1 \in Nat, s1 < 32, NEW s2 \in Nat, s2 < 32,
         NEW w, w = R(VmaType["SfenceVma"], 0, s1, s2)
  PROVE  /\ Decoded32(w, width) = Instr("SfenceVma", 0, s1, s2, 0)
         /\ Major(w) = 115 /\ Rd(w) = 0 /\ Funct3(w) = 0
<1>1. VmaType["SfenceVma"] = Base(115, 0, 0, 9)
  BY SMT DEF VmaType, Base
<1>2. w = RWord(115, 0, 0, s1, s2, 9)
  BY <1>1, RIsWord
<1>3. /\ Major(w) = 115 /\ Rd(w) = 0 /\ Funct3(w) = 0 /\ Rs1(w) = s1 /\ Rs2(w) = s2
      /\ Both(w) = 72
  BY <1>2, RFields
<1>4. ~(width = 32 /\ Wide(w))
  BY <1>3 DEF Wide
<1>5. QED
  BY <1>3, <1>4, SfenceVmaArm

LEMMA SinvalVmaDecodes ==
  ASSUME NEW width \in {32, 64}, NEW s1 \in Nat, s1 < 32, NEW s2 \in Nat, s2 < 32,
         NEW w, w = R(VmaType["SinvalVma"], 0, s1, s2)
  PROVE  /\ Decoded32(w, width) = Instr("SinvalVma", 0, s1, s2, 0)
         /\ Major(w) = 115 /\ Rd(w) = 0 /\ Funct3(w) = 0
<1>1. VmaType["SinvalVma"] = Base(115, 0, 0, 11)
  BY SMT DEF VmaType, Base
<1>2. w = RWord(115, 0, 0, s1, s2, 11)
  BY <1>1, RIsWord
<1>3. /\ Major(w) = 115 /\ Rd(w) = 0 /\ Funct3(w) = 0 /\ Rs1(w) = s1 /\ Rs2(w) = s2
      /\ Both(w) = 88
  BY <1>2, RFields
<1>4. ~(width = 32 /\ Wide(w))
  BY <1>3 DEF Wide
<1>5. QED
  BY <1>3, <1>4, SinvalVmaArm

\* The top twelve bits are five and seven.
LEMMA FiveAndSeven ==
  ASSUME NEW a, NEW b, NEW n, a \in Nat, b \in Nat, b < 64, n \in Nat, Split(n, b, a)
  PROVE  HasRun(At(a, 20) \cup At(b, 25), 20, 31, 20, n)
<1>1. n = a + 32 * b /\ n < 2048 /\ a < 32
  BY DEF Split
<1>2. /\ Odd(n, 0) <=> Odd(a, 0)
      /\ Odd(n, 1) <=> Odd(a, 1)
      /\ Odd(n, 2) <=> Odd(a, 2)
      /\ Odd(n, 3) <=> Odd(a, 3)
      /\ Odd(n, 4) <=> Odd(a, 4)
  BY <1>1, PowersAre, SMT DEF Odd
<1>3. /\ Odd(n, 5) <=> Odd(b, 0)
      /\ Odd(n, 6) <=> Odd(b, 1)
      /\ Odd(n, 7) <=> Odd(b, 2)
      /\ Odd(n, 8) <=> Odd(b, 3)
      /\ Odd(n, 9) <=> Odd(b, 4)
      /\ Odd(n, 10) <=> Odd(b, 5)
      /\ Odd(n, 11) <=> Odd(b, 6)
  BY <1>1, PowersAre, SMT DEF Odd
<1>4. BitsOf(a) \subseteq 0 .. 4 /\ BitsOf(b) \subseteq 0 .. 6
  <2>1. b < 128
    OBVIOUS
  <2>2. QED
    BY <1>1, <2>1, FewBits
<1>5. ASSUME NEW p \in 20 .. 31
      PROVE  p \in At(a, 20) \cup At(b, 25) <=> p - 20 \in BitsOf(n)
  <2>1. CASE p \in 20 .. 24
    BY <1>2, <1>4, <2>1, BitIsOdd, InAt
  <2>2. CASE p \in 25 .. 31
    BY <1>3, <1>4, <2>2, BitIsOdd, InAt
  <2>3. QED
    BY <2>1, <2>2
<1>6. QED
  BY <1>5 DEF HasRun

LEMMA SystemDecodes ==
  ASSUME NEW op \in DOMAIN PlainType \ {"FenceI"}, NEW width \in {32, 64},
         NEW w, w = R(PlainType[op], 0, 0, 0)
  PROVE  /\ Decoded32(w, width) = Instr(op, 0, 0, 0, 0)
         /\ Major(w) = 115 /\ Rd(w) = 0 /\ Funct3(w) = 0
<1>1. PICK f7 \in {0, 8, 12, 24}, r2 \in {0, 1, 2, 5} :
          PlainType[op] = Base(115, 0, r2, f7) /\ Entry(Systems, r2 + 32 * f7) = op
  BY SystemTable
<1>2. PICK n \in Nat : n = r2 + 32 * f7 /\ n < 2048 /\ n % 4096 = n
  BY <1>1
<1>3. w = RWord(115, 0, 0, 0, r2, f7)
  <2>1. w = R(Base(115, 0, r2, f7), 0, 0, 0)
    BY <1>1, Zenon
  <2>2. R(Base(115, 0, r2, f7), 0, 0, 0) = RWord(115, 0, 0, 0, r2 + 0, f7)
    BY RIsWord
  <2>3. QED
    BY <2>1, <2>2
<1>4. /\ Major(w) = 115 /\ Rd(w) = 0 /\ Funct3(w) = 0 /\ Rs1(w) = 0 /\ Both(w) = 8 * f7
  BY <1>3, RFields
<1>5. ImmI(w) = n
  <2>1. ASSUME NEW p \in 20 .. 31
        PROVE  p \in w <=> p - 20 \in BitsOf(n)
    <3>1. p \in w <=> p \in At(r2, 20) \cup At(f7, 25)
      <4>1. At(115, 0) \subseteq 0 .. 6
        BY Places
      <4>2. p \notin At(115, 0)
        BY <4>1
      <4>3. At(0, 7) = {} /\ At(0, 12) = {} /\ At(0, 15) = {}
        BY Nothing
      <4>4. w = At(115, 0) \cup At(r2, 20) \cup At(f7, 25)
        BY <1>3, <4>3, Zenon DEF RWord
      <4>5. QED
        BY <4>2, <4>4
    <3>2. Split(n, f7, r2)
      BY <1>1, <1>2 DEF Split
    <3>3. HasRun(At(r2, 20) \cup At(f7, 25), 20, 31, 20, n)
      BY <1>1, <1>2, <3>2, FiveAndSeven
    <3>4. QED
      BY <3>1, <3>3 DEF HasRun
  <2>2. - 2048 <= n
    BY <1>2
  <2>3. QED
    BY <1>2, <2>1, <2>2, ImmIIs
<1>6. ~(width = 32 /\ Wide(w))
  BY <1>4 DEF Wide
<1>7. Both(w) \notin {72, 88}
  BY <1>1, <1>4
<1>8. Entry(Systems, ImmI(w) % 4096) = op
  BY <1>1, <1>2, <1>5
<1>9. QED
  BY <1>4, <1>6, <1>7, <1>8, SystemArm

LEMMA FloatBinaryDecodes ==
  ASSUME NEW op \in DOMAIN FloatBinaryType, NEW width \in {32, 64},
         NEW d \in Nat, d < 32, NEW s1 \in Nat, s1 < 32, NEW s2 \in Nat, s2 < 32,
         NEW imm \in Nat, imm < 8, NEW w, w = PackFloat(FloatBinaryType[op], d, s1, s2, 0, imm)
  PROVE  /\ Decoded32(w, width) = Instr(op, d, s1, s2, imm)
         /\ Major(w) = 83 /\ Rd(w) = d /\ Funct7(w) \notin {80, 81, 96, 97, 112, 113}
<1>1. PICK f5 \in {0, 1, 2, 3}, f \in {0, 1} :
          FloatBinaryType[op] = Base(83, 0, 0, 4 * f5 + f) /\ Entry(FloatRounds, <<f5, f>>) = op
  BY FloatBinaryTable
<1>2. PICK top \in Nat, high \in Nat, low \in Nat :
          /\ top = 4 * f5 + f /\ top < 128 /\ high < 32 /\ low < 4 /\ Quarters(top, high, low)
          /\ high = f5 /\ low = f
  BY <1>1 DEF Quarters
<1>3. Quarters(top, 0, top) /\ Sum(imm, 0, imm) /\ Sum(s2, 0, s2)
  BY <1>1 DEF Quarters, Sum
<1>4. w = PackFloat(Base(83, 0, 0, top), d, s1, s2, 0, imm)
  BY <1>1, <1>2, Zenon
<1>5. w = RWord(83, d, imm, s1, s2, top)
  BY <1>1, <1>2, <1>3, <1>4, FloatIsWord
<1>6. /\ Major(w) = 83 /\ Rd(w) = d /\ Funct3(w) = imm /\ Rs1(w) = s1 /\ Rs2(w) = s2
      /\ Funct7(w) = top
  BY <1>1, <1>2, <1>5, RFields
<1>7. Funct5(w) = high /\ Fmt(w) = low
  BY <1>1, <1>2, <1>5, UpperFields
<1>8. ~(width = 32 /\ Wide(w))
  BY <1>1, <1>2, <1>6, <1>7 DEF Wide
<1>9. Decoded32(w, width) = Instr(Entry(FloatRounds, <<f5, f>>), d, s1, s2, imm)
  BY <1>1, <1>2, <1>6, <1>7, <1>8, FloatRoundArm
<1>10. QED
  BY <1>1, <1>2, <1>6, <1>9

LEMMA FloatRootDecodes ==
  ASSUME NEW op \in {"FsqrtS", "FsqrtD"}, NEW width \in {32, 64},
         NEW d \in Nat, d < 32, NEW s1 \in Nat, s1 < 32, 
         NEW imm \in Nat, imm < 8, NEW w, w = PackFloat(FloatUnaryType[op], d, s1, 0, 0, imm)
  PROVE  /\ Decoded32(w, width) = Instr(op, d, s1, 0, imm)
         /\ Major(w) = 83 /\ Rd(w) = d /\ Funct7(w) \notin {80, 81, 96, 97, 112, 113}
<1>1. PICK f \in {0, 1} :
          FloatUnaryType[op] = Base(83, 0, 0, 4 * 11 + f) /\ Entry(FloatRounds, <<11, f>>) = op
  BY FloatRootTable
<1>2. PICK top \in Nat, high \in Nat, low \in Nat :
          /\ top = 4 * 11 + f /\ top < 128 /\ high < 32 /\ low < 4 /\ Quarters(top, high, low)
          /\ high = 11 /\ low = f
  BY <1>1 DEF Quarters
<1>3. Quarters(top, 0, top) /\ Sum(imm, 0, imm) /\ Sum(0, 0, 0)
  BY <1>1 DEF Quarters, Sum
<1>4. w = PackFloat(Base(83, 0, 0, top), d, s1, 0, 0, imm)
  BY <1>1, <1>2, Zenon
<1>5. w = RWord(83, d, imm, s1, 0, top)
  BY <1>1, <1>2, <1>3, <1>4, FloatIsWord
<1>6. /\ Major(w) = 83 /\ Rd(w) = d /\ Funct3(w) = imm /\ Rs1(w) = s1 /\ Rs2(w) = 0
      /\ Funct7(w) = top
  BY <1>1, <1>2, <1>5, RFields
<1>7. Funct5(w) = high /\ Fmt(w) = low
  BY <1>1, <1>2, <1>5, UpperFields
<1>8. ~(width = 32 /\ Wide(w))
  BY <1>1, <1>2, <1>6, <1>7 DEF Wide
<1>9. Decoded32(w, width) = Instr(Entry(FloatRounds, <<11, f>>), d, s1, 0, imm)
  BY <1>1, <1>2, <1>6, <1>7, <1>8, FloatRoundArm
<1>10. QED
  BY <1>1, <1>2, <1>6, <1>9

LEMMA FloatWidthDecodes ==
  ASSUME NEW op \in {"FcvtSD", "FcvtDS"}, NEW width \in {32, 64},
         NEW d \in Nat, d < 32, NEW s1 \in Nat, s1 < 32, 
         NEW imm \in Nat, imm < 8, NEW w, w = PackFloat(FloatUnaryType[op], d, s1, 0, 0, imm)
  PROVE  /\ Decoded32(w, width) = Instr(op, d, s1, 0, imm)
         /\ Major(w) = 83 /\ Rd(w) = d /\ Funct7(w) \notin {80, 81, 96, 97, 112, 113}
<1>1. PICK f \in {0, 1}, r2 \in {0, 1} :
          FloatUnaryType[op] = Base(83, 0, r2, 32 + f) /\ Entry(FloatConversions, <<32 + f, r2>>) = op
  BY FloatWidthTable
<1>2. PICK top \in Nat, high \in Nat, low \in Nat :
          /\ top = 32 + f /\ top < 128 /\ high < 32 /\ low < 4 /\ Quarters(top, high, low)
          /\ high = 8 /\ low = f
  BY <1>1 DEF Quarters
<1>3. Quarters(top, 0, top) /\ Sum(imm, 0, imm) /\ Sum(r2, r2, 0)
  BY <1>1 DEF Quarters, Sum
<1>4. w = PackFloat(Base(83, 0, r2, top), d, s1, 0, 0, imm)
  BY <1>1, <1>2, Zenon
<1>5. w = RWord(83, d, imm, s1, r2, top)
  BY <1>1, <1>2, <1>3, <1>4, FloatIsWord
<1>6. /\ Major(w) = 83 /\ Rd(w) = d /\ Funct3(w) = imm /\ Rs1(w) = s1 /\ Rs2(w) = r2
      /\ Funct7(w) = top
  BY <1>1, <1>2, <1>5, RFields
<1>7. Funct5(w) = high /\ Fmt(w) = low
  BY <1>1, <1>2, <1>5, UpperFields
<1>8. ~(width = 32 /\ Wide(w))
  BY <1>1, <1>2, <1>6, <1>7 DEF Wide
<1>9. Decoded32(w, width) = Instr(Entry(FloatConversions, <<32 + f, r2>>), d, s1, 0, imm)
  BY <1>1, <1>2, <1>6, <1>7, <1>8, FloatConversionArm
<1>10. QED
  BY <1>1, <1>2, <1>6, <1>9

LEMMA FloatToIntDecodes ==
  ASSUME NEW op \in DOMAIN FloatToIntType, NEW width \in {32, 64},
         width = 32 => op \notin {"FcvtLS", "FcvtLuS", "FcvtLD", "FcvtLuD"},
         NEW d \in Nat, d < 32, NEW s1 \in Nat, s1 < 32, 
         NEW imm \in Nat, imm < 8, NEW w, w = PackFloat(FloatToIntType[op], d, s1, 0, 0, imm)
  PROVE  /\ Decoded32(w, width) = Instr(op, d, s1, 0, imm)
         /\ Major(w) = 83 /\ Rd(w) = d /\ Funct7(w) \in {80, 81, 96, 97, 112, 113}
<1>1. PICK f \in {0, 1}, r2 \in {0, 1, 2, 3} :
          FloatToIntType[op] = Base(83, 0, r2, 96 + f) /\ Entry(FloatConversions, <<96 + f, r2>>) = op /\ (width = 32 => r2 \notin {2, 3})
  BY FloatToIntTable
<1>2. PICK top \in Nat, high \in Nat, low \in Nat :
          /\ top = 96 + f /\ top < 128 /\ high < 32 /\ low < 4 /\ Quarters(top, high, low)
          /\ high = 24 /\ low = f
  BY <1>1 DEF Quarters
<1>3. Quarters(top, 0, top) /\ Sum(imm, 0, imm) /\ Sum(r2, r2, 0)
  BY <1>1 DEF Quarters, Sum
<1>4. w = PackFloat(Base(83, 0, r2, top), d, s1, 0, 0, imm)
  BY <1>1, <1>2, Zenon
<1>5. w = RWord(83, d, imm, s1, r2, top)
  BY <1>1, <1>2, <1>3, <1>4, FloatIsWord
<1>6. /\ Major(w) = 83 /\ Rd(w) = d /\ Funct3(w) = imm /\ Rs1(w) = s1 /\ Rs2(w) = r2
      /\ Funct7(w) = top
  BY <1>1, <1>2, <1>5, RFields
<1>7. Funct5(w) = high /\ Fmt(w) = low
  BY <1>1, <1>2, <1>5, UpperFields
<1>8. ~(width = 32 /\ Wide(w))
  BY <1>1, <1>2, <1>6, <1>7 DEF Wide
<1>9. Decoded32(w, width) = Instr(Entry(FloatConversions, <<96 + f, r2>>), d, s1, 0, imm)
  BY <1>1, <1>2, <1>6, <1>7, <1>8, FloatConversionArm
<1>10. QED
  BY <1>1, <1>2, <1>6, <1>9

LEMMA IntToFloatDecodes ==
  ASSUME NEW op \in DOMAIN IntToFloatType, NEW width \in {32, 64},
         width = 32 => op \notin {"FcvtSL", "FcvtSLu", "FcvtDL", "FcvtDLu"},
         NEW d \in Nat, d < 32, NEW s1 \in Nat, s1 < 32, 
         NEW imm \in Nat, imm < 8, NEW w, w = PackFloat(IntToFloatType[op], d, s1, 0, 0, imm)
  PROVE  /\ Decoded32(w, width) = Instr(op, d, s1, 0, imm)
         /\ Major(w) = 83 /\ Rd(w) = d /\ Funct7(w) \notin {80, 81, 96, 97, 112, 113}
<1>1. PICK f \in {0, 1}, r2 \in {0, 1, 2, 3} :
          IntToFloatType[op] = Base(83, 0, r2, 104 + f) /\ Entry(FloatConversions, <<104 + f, r2>>) = op /\ (width = 32 => r2 \notin {2, 3})
  BY IntToFloatTable
<1>2. PICK top \in Nat, high \in Nat, low \in Nat :
          /\ top = 104 + f /\ top < 128 /\ high < 32 /\ low < 4 /\ Quarters(top, high, low)
          /\ high = 26 /\ low = f
  BY <1>1 DEF Quarters
<1>3. Quarters(top, 0, top) /\ Sum(imm, 0, imm) /\ Sum(r2, r2, 0)
  BY <1>1 DEF Quarters, Sum
<1>4. w = PackFloat(Base(83, 0, r2, top), d, s1, 0, 0, imm)
  BY <1>1, <1>2, Zenon
<1>5. w = RWord(83, d, imm, s1, r2, top)
  BY <1>1, <1>2, <1>3, <1>4, FloatIsWord
<1>6. /\ Major(w) = 83 /\ Rd(w) = d /\ Funct3(w) = imm /\ Rs1(w) = s1 /\ Rs2(w) = r2
      /\ Funct7(w) = top
  BY <1>1, <1>2, <1>5, RFields
<1>7. Funct5(w) = high /\ Fmt(w) = low
  BY <1>1, <1>2, <1>5, UpperFields
<1>8. ~(width = 32 /\ Wide(w))
  BY <1>1, <1>2, <1>6, <1>7 DEF Wide
<1>9. Decoded32(w, width) = Instr(Entry(FloatConversions, <<104 + f, r2>>), d, s1, 0, imm)
  BY <1>1, <1>2, <1>6, <1>7, <1>8, FloatConversionArm
<1>10. QED
  BY <1>1, <1>2, <1>6, <1>9

LEMMA FloatSelectDecodes ==
  ASSUME NEW op \in DOMAIN FloatSelectType, NEW width \in {32, 64},
         NEW d \in Nat, d < 32, NEW s1 \in Nat, s1 < 32, NEW s2 \in Nat, s2 < 32,
          NEW w, w = PackFloat(FloatSelectType[op], d, s1, s2, 0, 0)
  PROVE  /\ Decoded32(w, width) = Instr(op, d, s1, s2, 0)
         /\ Major(w) = 83 /\ Rd(w) = d /\ Funct7(w) \notin {80, 81, 96, 97, 112, 113}
<1>1. PICK f7 \in {16, 17, 20, 21}, f3 \in {0, 1, 2} :
          FloatSelectType[op] = Base(83, f3, 0, f7) /\ Entry(FloatSelections, <<f7, f3>>) = op
  BY FloatSelectTable
<1>2. PICK top \in Nat, high \in Nat, low \in Nat :
          /\ top = f7 /\ top < 128 /\ high < 32 /\ low < 4 /\ Quarters(top, high, low)
          /\ high = f7 \div 4 /\ low = f7 % 4 /\ high \in {4, 5}
  BY <1>1 DEF Quarters
<1>3. Quarters(top, 0, top) /\ Sum(f3, f3, 0) /\ Sum(s2, 0, s2)
  BY <1>1 DEF Quarters, Sum
<1>4. w = PackFloat(Base(83, f3, 0, top), d, s1, s2, 0, 0)
  BY <1>1, <1>2, Zenon
<1>5. w = RWord(83, d, f3, s1, s2, top)
  BY <1>1, <1>2, <1>3, <1>4, FloatIsWord
<1>6. /\ Major(w) = 83 /\ Rd(w) = d /\ Funct3(w) = f3 /\ Rs1(w) = s1 /\ Rs2(w) = s2
      /\ Funct7(w) = top
  BY <1>1, <1>2, <1>5, RFields
<1>7. Funct5(w) = high /\ Fmt(w) = low
  BY <1>1, <1>2, <1>5, UpperFields
<1>8. ~(width = 32 /\ Wide(w))
  BY <1>1, <1>2, <1>6, <1>7 DEF Wide
<1>9. Decoded32(w, width) = Instr(Entry(FloatSelections, <<f7, f3>>), d, s1, s2, 0)
  BY <1>1, <1>2, <1>6, <1>7, <1>8, FloatSelectionArm
<1>10. QED
  BY <1>1, <1>2, <1>6, <1>9

LEMMA FloatCompareDecodes ==
  ASSUME NEW op \in DOMAIN FloatCompareType, NEW width \in {32, 64},
         NEW d \in Nat, d < 32, NEW s1 \in Nat, s1 < 32, NEW s2 \in Nat, s2 < 32,
          NEW w, w = PackFloat(FloatCompareType[op], d, s1, s2, 0, 0)
  PROVE  /\ Decoded32(w, width) = Instr(op, d, s1, s2, 0)
         /\ Major(w) = 83 /\ Rd(w) = d /\ Funct7(w) \in {80, 81, 96, 97, 112, 113}
<1>1. PICK f7 \in {80, 81}, f3 \in {0, 1, 2} :
          FloatCompareType[op] = Base(83, f3, 0, f7) /\ Entry(FloatSelections, <<f7, f3>>) = op
  BY FloatCompareTable
<1>2. PICK top \in Nat, high \in Nat, low \in Nat :
          /\ top = f7 /\ top < 128 /\ high < 32 /\ low < 4 /\ Quarters(top, high, low)
          /\ high = 20
  BY <1>1 DEF Quarters
<1>3. Quarters(top, 0, top) /\ Sum(f3, f3, 0) /\ Sum(s2, 0, s2)
  BY <1>1 DEF Quarters, Sum
<1>4. w = PackFloat(Base(83, f3, 0, top), d, s1, s2, 0, 0)
  BY <1>1, <1>2, Zenon
<1>5. w = RWord(83, d, f3, s1, s2, top)
  BY <1>1, <1>2, <1>3, <1>4, FloatIsWord
<1>6. /\ Major(w) = 83 /\ Rd(w) = d /\ Funct3(w) = f3 /\ Rs1(w) = s1 /\ Rs2(w) = s2
      /\ Funct7(w) = top
  BY <1>1, <1>2, <1>5, RFields
<1>7. Funct5(w) = high /\ Fmt(w) = low
  BY <1>1, <1>2, <1>5, UpperFields
<1>8. ~(width = 32 /\ Wide(w))
  BY <1>1, <1>2, <1>6, <1>7 DEF Wide
<1>9. Decoded32(w, width) = Instr(Entry(FloatSelections, <<f7, f3>>), d, s1, s2, 0)
  BY <1>1, <1>2, <1>6, <1>7, <1>8, FloatSelectionArm
<1>10. QED
  BY <1>1, <1>2, <1>6, <1>9

LEMMA FloatToBitsDecodes ==
  ASSUME NEW op \in DOMAIN FloatToBitsType, NEW width \in {32, 64},
         width = 32 => op # "FmvXD",
         NEW d \in Nat, d < 32, NEW s1 \in Nat, s1 < 32, 
          NEW w, w = PackFloat(FloatToBitsType[op], d, s1, 0, 0, 0)
  PROVE  /\ Decoded32(w, width) = Instr(op, d, s1, 0, 0)
         /\ Major(w) = 83 /\ Rd(w) = d /\ Funct7(w) \in {80, 81, 96, 97, 112, 113}
<1>1. PICK f7 \in {112, 113}, f3 \in {0, 1} :
          FloatToBitsType[op] = Base(83, f3, 0, f7) /\ Entry(FloatSelections, <<f7, f3>>) = op /\ (width = 32 => ~(f7 = 113 /\ f3 = 0))
  BY FloatToBitsTable
<1>2. PICK top \in Nat, high \in Nat, low \in Nat :
          /\ top = f7 /\ top < 128 /\ high < 32 /\ low < 4 /\ Quarters(top, high, low)
          /\ high = 28
  BY <1>1 DEF Quarters
<1>3. Quarters(top, 0, top) /\ Sum(f3, f3, 0) /\ Sum(0, 0, 0)
  BY <1>1 DEF Quarters, Sum
<1>4. w = PackFloat(Base(83, f3, 0, top), d, s1, 0, 0, 0)
  BY <1>1, <1>2, Zenon
<1>5. w = RWord(83, d, f3, s1, 0, top)
  BY <1>1, <1>2, <1>3, <1>4, FloatIsWord
<1>6. /\ Major(w) = 83 /\ Rd(w) = d /\ Funct3(w) = f3 /\ Rs1(w) = s1 /\ Rs2(w) = 0
      /\ Funct7(w) = top
  BY <1>1, <1>2, <1>5, RFields
<1>7. Funct5(w) = high /\ Fmt(w) = low
  BY <1>1, <1>2, <1>5, UpperFields
<1>8. ~(width = 32 /\ Wide(w))
  BY <1>1, <1>2, <1>6, <1>7 DEF Wide
<1>9. Decoded32(w, width) = Instr(Entry(FloatSelections, <<f7, f3>>), d, s1, 0, 0)
  BY <1>1, <1>2, <1>6, <1>7, <1>8, FloatSelectionArm
<1>10. QED
  BY <1>1, <1>2, <1>6, <1>9

LEMMA BitsToFloatDecodes ==
  ASSUME NEW op \in DOMAIN BitsToFloatType, NEW width \in {32, 64},
         width = 32 => op # "FmvDX",
         NEW d \in Nat, d < 32, NEW s1 \in Nat, s1 < 32, 
          NEW w, w = PackFloat(BitsToFloatType[op], d, s1, 0, 0, 0)
  PROVE  /\ Decoded32(w, width) = Instr(op, d, s1, 0, 0)
         /\ Major(w) = 83 /\ Rd(w) = d /\ Funct7(w) \notin {80, 81, 96, 97, 112, 113}
<1>1. PICK f7 \in {120, 121} :
          BitsToFloatType[op] = Base(83, 0, 0, f7) /\ Entry(FloatSelections, <<f7, 0>>) = op /\ (width = 32 => f7 # 121)
  BY BitsToFloatTable
<1>2. PICK top \in Nat, high \in Nat, low \in Nat :
          /\ top = f7 /\ top < 128 /\ high < 32 /\ low < 4 /\ Quarters(top, high, low)
          /\ high = 30
  BY <1>1 DEF Quarters
<1>3. Quarters(top, 0, top) /\ Sum(0, 0, 0) /\ Sum(0, 0, 0)
  BY <1>1 DEF Quarters, Sum
<1>4. w = PackFloat(Base(83, 0, 0, top), d, s1, 0, 0, 0)
  BY <1>1, <1>2, Zenon
<1>5. w = RWord(83, d, 0, s1, 0, top)
  BY <1>1, <1>2, <1>3, <1>4, FloatIsWord
<1>6. /\ Major(w) = 83 /\ Rd(w) = d /\ Funct3(w) = 0 /\ Rs1(w) = s1 /\ Rs2(w) = 0
      /\ Funct7(w) = top
  BY <1>1, <1>2, <1>5, RFields
<1>7. Funct5(w) = high /\ Fmt(w) = low
  BY <1>1, <1>2, <1>5, UpperFields
<1>8. ~(width = 32 /\ Wide(w))
  BY <1>1, <1>2, <1>6, <1>7 DEF Wide
<1>9. Decoded32(w, width) = Instr(Entry(FloatSelections, <<f7, 0>>), d, s1, 0, 0)
  BY <1>1, <1>2, <1>6, <1>7, <1>8, FloatSelectionArm
<1>10. QED
  BY <1>1, <1>2, <1>6, <1>9

LEMMA FloatTernaryDecodes ==
  ASSUME NEW op \in DOMAIN FloatTernaryType, NEW width \in {32, 64},
         NEW d, NEW s1, NEW s2, NEW s3, NEW imm, NEW w,
         d \in Nat, d < 32, s1 \in Nat, s1 < 32, s2 \in Nat, s2 < 32,
         s3 \in Nat, s3 < 32, imm \in Nat, imm < 8,
         w = PackFloat(FloatTernaryType[op], d, s1, s2, s3, imm)
  PROVE  /\ Decoded32(w, width) = [Instr(op, d, s1, s2, imm) EXCEPT !.rs3 = s3]
         /\ Major(w) \in {67, 71, 75, 79} /\ Rd(w) = d
<1>1. PICK major \in {67, 71, 75, 79}, f \in {0, 1} :
          FloatTernaryType[op] = Base(major, 0, 0, f) /\ Entry(Fmas, <<major, f>>) = op
  BY FloatTernaryTable
<1>2. PICK top \in Nat : top < 128 /\ Quarters(top, s3, f)
  BY <1>1 DEF Quarters
<1>3. Sum(imm, 0, imm) /\ Sum(s2, 0, s2)
  BY DEF Sum
<1>4. w = PackFloat(Base(major, 0, 0, f), d, s1, s2, s3, imm)
  BY <1>1, Zenon
<1>5. w = RWord(major, d, imm, s1, s2, top)
  BY <1>1, <1>2, <1>3, <1>4, FloatIsWord
<1>6. /\ Major(w) = major /\ Rd(w) = d /\ Funct3(w) = imm /\ Rs1(w) = s1 /\ Rs2(w) = s2
  BY <1>1, <1>2, <1>5, RFields
<1>7. Funct5(w) = s3 /\ Fmt(w) = f
  BY <1>1, <1>2, <1>5, UpperFields
<1>8. ~(width = 32 /\ Wide(w))
  BY <1>1, <1>6 DEF Wide
<1>9. QED
  BY <1>1, <1>6, <1>7, <1>8, FmaArm

--------------------------------------------------------------------------------
(* What the catalog says of each opcode.                                     *)

LEMMA FormNames ==
  /\ DOMAIN IForm = Names({JalrType, LoadType, FloatLoadType, ImmType, ShiftType, ShiftWType,
                           CsrType, CsrImmType, FenceType})
  /\ DOMAIN SForm = Names({StoreType, FloatStoreType})
  /\ DOMAIN RForm = Names({OpType, OpWType, MulType, MulWType, VmaType, PlainType})
  /\ DOMAIN AmoForm = Names({AmoType, AmoDType})
  /\ DOMAIN FloatForm = Names(FloatTypes)
  BY DEF IForm, SForm, RForm, AmoForm, FloatForm, Joined

LEMMA PackedIs ==
  ASSUME NEW x
  PROVE  /\ x.op \in DOMAIN UType => Packed(x) = PackU(UType[x.op], x.rd, BitsOf(x.imm))
         /\ x.op \in DOMAIN JType => Packed(x) = PackJ(JType[x.op], x.rd, BitsOf(x.imm))
         /\ x.op \in DOMAIN BType => Packed(x) = PackB(BType[x.op], x.rs1, x.rs2, BitsOf(x.imm))
         /\ x.op \in DOMAIN JalrType => Packed(x) = PackI(JalrType[x.op], x.rd, x.rs1, BitsOf(x.imm))
         /\ x.op \in DOMAIN LoadType => Packed(x) = PackI(LoadType[x.op], x.rd, x.rs1, BitsOf(x.imm))
         /\ x.op \in DOMAIN FloatLoadType => Packed(x) = PackI(FloatLoadType[x.op], x.rd, x.rs1, BitsOf(x.imm))
         /\ x.op \in DOMAIN ImmType => Packed(x) = PackI(ImmType[x.op], x.rd, x.rs1, BitsOf(x.imm))
         /\ x.op \in DOMAIN ShiftType => Packed(x) = PackI(ShiftType[x.op], x.rd, x.rs1, BitsOf(x.imm))
         /\ x.op \in DOMAIN ShiftWType => Packed(x) = PackI(ShiftWType[x.op], x.rd, x.rs1, BitsOf(x.imm))
         /\ x.op \in DOMAIN CsrType => Packed(x) = PackI(CsrType[x.op], x.rd, x.rs1, BitsOf(x.imm))
         /\ x.op \in DOMAIN CsrImmType => Packed(x) = PackI(CsrImmType[x.op], x.rd, x.rs1, BitsOf(x.imm))
         /\ x.op \in DOMAIN FenceType => Packed(x) = PackI(FenceType[x.op], x.rd, x.rs1, BitsOf(x.imm))
         /\ x.op \in DOMAIN StoreType => Packed(x) = PackS(StoreType[x.op], x.rs1, x.rs2, BitsOf(x.imm))
         /\ x.op \in DOMAIN FloatStoreType => Packed(x) = PackS(FloatStoreType[x.op], x.rs1, x.rs2, BitsOf(x.imm))
         /\ x.op \in DOMAIN OpType => Packed(x) = R(OpType[x.op], x.rd, x.rs1, x.rs2)
         /\ x.op \in DOMAIN OpWType => Packed(x) = R(OpWType[x.op], x.rd, x.rs1, x.rs2)
         /\ x.op \in DOMAIN MulType => Packed(x) = R(MulType[x.op], x.rd, x.rs1, x.rs2)
         /\ x.op \in DOMAIN MulWType => Packed(x) = R(MulWType[x.op], x.rd, x.rs1, x.rs2)
         /\ x.op \in DOMAIN VmaType => Packed(x) = R(VmaType[x.op], x.rd, x.rs1, x.rs2)
         /\ x.op \in DOMAIN PlainType => Packed(x) = R(PlainType[x.op], x.rd, x.rs1, x.rs2)
         /\ x.op \in DOMAIN AmoType => Packed(x) = PackAmo(AmoType[x.op], x.rd, x.rs1, x.rs2, x.imm)
         /\ x.op \in DOMAIN AmoDType => Packed(x) = PackAmo(AmoDType[x.op], x.rd, x.rs1, x.rs2, x.imm)
         /\ x.op \in DOMAIN FloatTernaryType => Packed(x) = PackFloat(FloatTernaryType[x.op], x.rd, x.rs1, x.rs2, x.rs3, x.imm)
         /\ x.op \in DOMAIN FloatBinaryType => Packed(x) = PackFloat(FloatBinaryType[x.op], x.rd, x.rs1, x.rs2, x.rs3, x.imm)
         /\ x.op \in DOMAIN FloatUnaryType => Packed(x) = PackFloat(FloatUnaryType[x.op], x.rd, x.rs1, x.rs2, x.rs3, x.imm)
         /\ x.op \in DOMAIN FloatSelectType => Packed(x) = PackFloat(FloatSelectType[x.op], x.rd, x.rs1, x.rs2, x.rs3, x.imm)
         /\ x.op \in DOMAIN FloatCompareType => Packed(x) = PackFloat(FloatCompareType[x.op], x.rd, x.rs1, x.rs2, x.rs3, x.imm)
         /\ x.op \in DOMAIN FloatToIntType => Packed(x) = PackFloat(FloatToIntType[x.op], x.rd, x.rs1, x.rs2, x.rs3, x.imm)
         /\ x.op \in DOMAIN IntToFloatType => Packed(x) = PackFloat(IntToFloatType[x.op], x.rd, x.rs1, x.rs2, x.rs3, x.imm)
         /\ x.op \in DOMAIN FloatToBitsType => Packed(x) = PackFloat(FloatToBitsType[x.op], x.rd, x.rs1, x.rs2, x.rs3, x.imm)
         /\ x.op \in DOMAIN BitsToFloatType => Packed(x) = PackFloat(BitsToFloatType[x.op], x.rd, x.rs1, x.rs2, x.rs3, x.imm)
<1>1. ASSUME x.op \in DOMAIN UType
      PROVE  Packed(x) = PackU(UType[x.op], x.rd, BitsOf(x.imm))
  <2>1. x.op \notin DOMAIN JType /\ x.op \notin DOMAIN BType /\ x.op \notin DOMAIN IForm /\ x.op \notin DOMAIN SForm /\ x.op \notin DOMAIN RForm /\ x.op \notin DOMAIN AmoForm /\ x.op \notin DOMAIN FloatForm /\ x.op \notin Compressed
    BY <1>1, FormNames, CompressedIs, OpcodeTables, ArithmeticTables, AmoTables, SystemTables, FloatTables,
     CompressedTables DEF Names, FloatTypes, CompressedNames
  <2>2. QED
    BY <1>1, <2>1 DEF Packed
<1>2. ASSUME x.op \in DOMAIN JType
      PROVE  Packed(x) = PackJ(JType[x.op], x.rd, BitsOf(x.imm))
  <2>1. x.op \notin DOMAIN UType /\ x.op \notin DOMAIN BType /\ x.op \notin DOMAIN IForm /\ x.op \notin DOMAIN SForm /\ x.op \notin DOMAIN RForm /\ x.op \notin DOMAIN AmoForm /\ x.op \notin DOMAIN FloatForm /\ x.op \notin Compressed
    BY <1>2, FormNames, CompressedIs, OpcodeTables, ArithmeticTables, AmoTables, SystemTables, FloatTables,
     CompressedTables DEF Names, FloatTypes, CompressedNames
  <2>2. QED
    BY <1>2, <2>1 DEF Packed
<1>3. ASSUME x.op \in DOMAIN BType
      PROVE  Packed(x) = PackB(BType[x.op], x.rs1, x.rs2, BitsOf(x.imm))
  <2>1. x.op \notin DOMAIN UType /\ x.op \notin DOMAIN JType /\ x.op \notin DOMAIN IForm /\ x.op \notin DOMAIN SForm /\ x.op \notin DOMAIN RForm /\ x.op \notin DOMAIN AmoForm /\ x.op \notin DOMAIN FloatForm /\ x.op \notin Compressed
    BY <1>3, FormNames, CompressedIs, OpcodeTables, ArithmeticTables, AmoTables, SystemTables, FloatTables,
     CompressedTables DEF Names, FloatTypes, CompressedNames
  <2>2. QED
    BY <1>3, <2>1 DEF Packed
<1>4. ASSUME x.op \in DOMAIN JalrType
      PROVE  Packed(x) = PackI(JalrType[x.op], x.rd, x.rs1, BitsOf(x.imm))
  <2>1. x.op \notin DOMAIN UType /\ x.op \notin DOMAIN JType /\ x.op \notin DOMAIN BType /\ x.op \notin DOMAIN SForm /\ x.op \notin DOMAIN RForm /\ x.op \notin DOMAIN AmoForm /\ x.op \notin DOMAIN FloatForm /\ x.op \notin Compressed
    BY <1>4, FormNames, CompressedIs, OpcodeTables, ArithmeticTables, AmoTables, SystemTables, FloatTables,
     CompressedTables DEF Names, FloatTypes, CompressedNames
  <2>2. x.op \in DOMAIN IForm /\ IForm[x.op] = JalrType[x.op]
    BY <1>4, IFormIs
  <2>3. QED
    BY <1>4, <2>1, <2>2 DEF Packed
<1>5. ASSUME x.op \in DOMAIN LoadType
      PROVE  Packed(x) = PackI(LoadType[x.op], x.rd, x.rs1, BitsOf(x.imm))
  <2>1. x.op \notin DOMAIN UType /\ x.op \notin DOMAIN JType /\ x.op \notin DOMAIN BType /\ x.op \notin DOMAIN SForm /\ x.op \notin DOMAIN RForm /\ x.op \notin DOMAIN AmoForm /\ x.op \notin DOMAIN FloatForm /\ x.op \notin Compressed
    BY <1>5, FormNames, CompressedIs, OpcodeTables, ArithmeticTables, AmoTables, SystemTables, FloatTables,
     CompressedTables DEF Names, FloatTypes, CompressedNames
  <2>2. x.op \in DOMAIN IForm /\ IForm[x.op] = LoadType[x.op]
    BY <1>5, IFormIs
  <2>3. QED
    BY <1>5, <2>1, <2>2 DEF Packed
<1>6. ASSUME x.op \in DOMAIN FloatLoadType
      PROVE  Packed(x) = PackI(FloatLoadType[x.op], x.rd, x.rs1, BitsOf(x.imm))
  <2>1. x.op \notin DOMAIN UType /\ x.op \notin DOMAIN JType /\ x.op \notin DOMAIN BType /\ x.op \notin DOMAIN SForm /\ x.op \notin DOMAIN RForm /\ x.op \notin DOMAIN AmoForm /\ x.op \notin DOMAIN FloatForm /\ x.op \notin Compressed
    BY <1>6, FormNames, CompressedIs, OpcodeTables, ArithmeticTables, AmoTables, SystemTables, FloatTables,
     CompressedTables DEF Names, FloatTypes, CompressedNames
  <2>2. x.op \in DOMAIN IForm /\ IForm[x.op] = FloatLoadType[x.op]
    BY <1>6, IFormIs
  <2>3. QED
    BY <1>6, <2>1, <2>2 DEF Packed
<1>7. ASSUME x.op \in DOMAIN ImmType
      PROVE  Packed(x) = PackI(ImmType[x.op], x.rd, x.rs1, BitsOf(x.imm))
  <2>1. x.op \notin DOMAIN UType /\ x.op \notin DOMAIN JType /\ x.op \notin DOMAIN BType /\ x.op \notin DOMAIN SForm /\ x.op \notin DOMAIN RForm /\ x.op \notin DOMAIN AmoForm /\ x.op \notin DOMAIN FloatForm /\ x.op \notin Compressed
    BY <1>7, FormNames, CompressedIs, OpcodeTables, ArithmeticTables, AmoTables, SystemTables, FloatTables,
     CompressedTables DEF Names, FloatTypes, CompressedNames
  <2>2. x.op \in DOMAIN IForm /\ IForm[x.op] = ImmType[x.op]
    BY <1>7, IFormIs
  <2>3. QED
    BY <1>7, <2>1, <2>2 DEF Packed
<1>8. ASSUME x.op \in DOMAIN ShiftType
      PROVE  Packed(x) = PackI(ShiftType[x.op], x.rd, x.rs1, BitsOf(x.imm))
  <2>1. x.op \notin DOMAIN UType /\ x.op \notin DOMAIN JType /\ x.op \notin DOMAIN BType /\ x.op \notin DOMAIN SForm /\ x.op \notin DOMAIN RForm /\ x.op \notin DOMAIN AmoForm /\ x.op \notin DOMAIN FloatForm /\ x.op \notin Compressed
    BY <1>8, FormNames, CompressedIs, OpcodeTables, ArithmeticTables, AmoTables, SystemTables, FloatTables,
     CompressedTables DEF Names, FloatTypes, CompressedNames
  <2>2. x.op \in DOMAIN IForm /\ IForm[x.op] = ShiftType[x.op]
    BY <1>8, IFormIs
  <2>3. QED
    BY <1>8, <2>1, <2>2 DEF Packed
<1>9. ASSUME x.op \in DOMAIN ShiftWType
      PROVE  Packed(x) = PackI(ShiftWType[x.op], x.rd, x.rs1, BitsOf(x.imm))
  <2>1. x.op \notin DOMAIN UType /\ x.op \notin DOMAIN JType /\ x.op \notin DOMAIN BType /\ x.op \notin DOMAIN SForm /\ x.op \notin DOMAIN RForm /\ x.op \notin DOMAIN AmoForm /\ x.op \notin DOMAIN FloatForm /\ x.op \notin Compressed
    BY <1>9, FormNames, CompressedIs, OpcodeTables, ArithmeticTables, AmoTables, SystemTables, FloatTables,
     CompressedTables DEF Names, FloatTypes, CompressedNames
  <2>2. x.op \in DOMAIN IForm /\ IForm[x.op] = ShiftWType[x.op]
    BY <1>9, IFormIs
  <2>3. QED
    BY <1>9, <2>1, <2>2 DEF Packed
<1>10. ASSUME x.op \in DOMAIN CsrType
      PROVE  Packed(x) = PackI(CsrType[x.op], x.rd, x.rs1, BitsOf(x.imm))
  <2>1. x.op \notin DOMAIN UType /\ x.op \notin DOMAIN JType /\ x.op \notin DOMAIN BType /\ x.op \notin DOMAIN SForm /\ x.op \notin DOMAIN RForm /\ x.op \notin DOMAIN AmoForm /\ x.op \notin DOMAIN FloatForm /\ x.op \notin Compressed
    BY <1>10, FormNames, CompressedIs, OpcodeTables, ArithmeticTables, AmoTables, SystemTables, FloatTables,
     CompressedTables DEF Names, FloatTypes, CompressedNames
  <2>2. x.op \in DOMAIN IForm /\ IForm[x.op] = CsrType[x.op]
    BY <1>10, IFormIs
  <2>3. QED
    BY <1>10, <2>1, <2>2 DEF Packed
<1>11. ASSUME x.op \in DOMAIN CsrImmType
      PROVE  Packed(x) = PackI(CsrImmType[x.op], x.rd, x.rs1, BitsOf(x.imm))
  <2>1. x.op \notin DOMAIN UType /\ x.op \notin DOMAIN JType /\ x.op \notin DOMAIN BType /\ x.op \notin DOMAIN SForm /\ x.op \notin DOMAIN RForm /\ x.op \notin DOMAIN AmoForm /\ x.op \notin DOMAIN FloatForm /\ x.op \notin Compressed
    BY <1>11, FormNames, CompressedIs, OpcodeTables, ArithmeticTables, AmoTables, SystemTables, FloatTables,
     CompressedTables DEF Names, FloatTypes, CompressedNames
  <2>2. x.op \in DOMAIN IForm /\ IForm[x.op] = CsrImmType[x.op]
    BY <1>11, IFormIs
  <2>3. QED
    BY <1>11, <2>1, <2>2 DEF Packed
<1>12. ASSUME x.op \in DOMAIN FenceType
      PROVE  Packed(x) = PackI(FenceType[x.op], x.rd, x.rs1, BitsOf(x.imm))
  <2>1. x.op \notin DOMAIN UType /\ x.op \notin DOMAIN JType /\ x.op \notin DOMAIN BType /\ x.op \notin DOMAIN SForm /\ x.op \notin DOMAIN RForm /\ x.op \notin DOMAIN AmoForm /\ x.op \notin DOMAIN FloatForm /\ x.op \notin Compressed
    BY <1>12, FormNames, CompressedIs, OpcodeTables, ArithmeticTables, AmoTables, SystemTables, FloatTables,
     CompressedTables DEF Names, FloatTypes, CompressedNames
  <2>2. x.op \in DOMAIN IForm /\ IForm[x.op] = FenceType[x.op]
    BY <1>12, IFormIs
  <2>3. QED
    BY <1>12, <2>1, <2>2 DEF Packed
<1>13. ASSUME x.op \in DOMAIN StoreType
      PROVE  Packed(x) = PackS(StoreType[x.op], x.rs1, x.rs2, BitsOf(x.imm))
  <2>1. x.op \notin DOMAIN UType /\ x.op \notin DOMAIN JType /\ x.op \notin DOMAIN BType /\ x.op \notin DOMAIN IForm /\ x.op \notin DOMAIN RForm /\ x.op \notin DOMAIN AmoForm /\ x.op \notin DOMAIN FloatForm /\ x.op \notin Compressed
    BY <1>13, FormNames, CompressedIs, OpcodeTables, ArithmeticTables, AmoTables, SystemTables, FloatTables,
     CompressedTables DEF Names, FloatTypes, CompressedNames
  <2>2. x.op \in DOMAIN SForm /\ SForm[x.op] = StoreType[x.op]
    BY <1>13, SFormIs
  <2>3. QED
    BY <1>13, <2>1, <2>2 DEF Packed
<1>14. ASSUME x.op \in DOMAIN FloatStoreType
      PROVE  Packed(x) = PackS(FloatStoreType[x.op], x.rs1, x.rs2, BitsOf(x.imm))
  <2>1. x.op \notin DOMAIN UType /\ x.op \notin DOMAIN JType /\ x.op \notin DOMAIN BType /\ x.op \notin DOMAIN IForm /\ x.op \notin DOMAIN RForm /\ x.op \notin DOMAIN AmoForm /\ x.op \notin DOMAIN FloatForm /\ x.op \notin Compressed
    BY <1>14, FormNames, CompressedIs, OpcodeTables, ArithmeticTables, AmoTables, SystemTables, FloatTables,
     CompressedTables DEF Names, FloatTypes, CompressedNames
  <2>2. x.op \in DOMAIN SForm /\ SForm[x.op] = FloatStoreType[x.op]
    BY <1>14, SFormIs
  <2>3. QED
    BY <1>14, <2>1, <2>2 DEF Packed
<1>15. ASSUME x.op \in DOMAIN OpType
      PROVE  Packed(x) = R(OpType[x.op], x.rd, x.rs1, x.rs2)
  <2>1. x.op \notin DOMAIN UType /\ x.op \notin DOMAIN JType /\ x.op \notin DOMAIN BType /\ x.op \notin DOMAIN IForm /\ x.op \notin DOMAIN SForm /\ x.op \notin DOMAIN AmoForm /\ x.op \notin DOMAIN FloatForm /\ x.op \notin Compressed
    BY <1>15, FormNames, CompressedIs, OpcodeTables, ArithmeticTables, AmoTables, SystemTables, FloatTables,
     CompressedTables DEF Names, FloatTypes, CompressedNames
  <2>2. x.op \in DOMAIN RForm /\ RForm[x.op] = OpType[x.op]
    BY <1>15, RFormIs
  <2>3. QED
    BY <1>15, <2>1, <2>2 DEF Packed
<1>16. ASSUME x.op \in DOMAIN OpWType
      PROVE  Packed(x) = R(OpWType[x.op], x.rd, x.rs1, x.rs2)
  <2>1. x.op \notin DOMAIN UType /\ x.op \notin DOMAIN JType /\ x.op \notin DOMAIN BType /\ x.op \notin DOMAIN IForm /\ x.op \notin DOMAIN SForm /\ x.op \notin DOMAIN AmoForm /\ x.op \notin DOMAIN FloatForm /\ x.op \notin Compressed
    BY <1>16, FormNames, CompressedIs, OpcodeTables, ArithmeticTables, AmoTables, SystemTables, FloatTables,
     CompressedTables DEF Names, FloatTypes, CompressedNames
  <2>2. x.op \in DOMAIN RForm /\ RForm[x.op] = OpWType[x.op]
    BY <1>16, RFormIs
  <2>3. QED
    BY <1>16, <2>1, <2>2 DEF Packed
<1>17. ASSUME x.op \in DOMAIN MulType
      PROVE  Packed(x) = R(MulType[x.op], x.rd, x.rs1, x.rs2)
  <2>1. x.op \notin DOMAIN UType /\ x.op \notin DOMAIN JType /\ x.op \notin DOMAIN BType /\ x.op \notin DOMAIN IForm /\ x.op \notin DOMAIN SForm /\ x.op \notin DOMAIN AmoForm /\ x.op \notin DOMAIN FloatForm /\ x.op \notin Compressed
    BY <1>17, FormNames, CompressedIs, OpcodeTables, ArithmeticTables, AmoTables, SystemTables, FloatTables,
     CompressedTables DEF Names, FloatTypes, CompressedNames
  <2>2. x.op \in DOMAIN RForm /\ RForm[x.op] = MulType[x.op]
    BY <1>17, RFormIs
  <2>3. QED
    BY <1>17, <2>1, <2>2 DEF Packed
<1>18. ASSUME x.op \in DOMAIN MulWType
      PROVE  Packed(x) = R(MulWType[x.op], x.rd, x.rs1, x.rs2)
  <2>1. x.op \notin DOMAIN UType /\ x.op \notin DOMAIN JType /\ x.op \notin DOMAIN BType /\ x.op \notin DOMAIN IForm /\ x.op \notin DOMAIN SForm /\ x.op \notin DOMAIN AmoForm /\ x.op \notin DOMAIN FloatForm /\ x.op \notin Compressed
    BY <1>18, FormNames, CompressedIs, OpcodeTables, ArithmeticTables, AmoTables, SystemTables, FloatTables,
     CompressedTables DEF Names, FloatTypes, CompressedNames
  <2>2. x.op \in DOMAIN RForm /\ RForm[x.op] = MulWType[x.op]
    BY <1>18, RFormIs
  <2>3. QED
    BY <1>18, <2>1, <2>2 DEF Packed
<1>19. ASSUME x.op \in DOMAIN VmaType
      PROVE  Packed(x) = R(VmaType[x.op], x.rd, x.rs1, x.rs2)
  <2>1. x.op \notin DOMAIN UType /\ x.op \notin DOMAIN JType /\ x.op \notin DOMAIN BType /\ x.op \notin DOMAIN IForm /\ x.op \notin DOMAIN SForm /\ x.op \notin DOMAIN AmoForm /\ x.op \notin DOMAIN FloatForm /\ x.op \notin Compressed
    BY <1>19, FormNames, CompressedIs, OpcodeTables, ArithmeticTables, AmoTables, SystemTables, FloatTables,
     CompressedTables DEF Names, FloatTypes, CompressedNames
  <2>2. x.op \in DOMAIN RForm /\ RForm[x.op] = VmaType[x.op]
    BY <1>19, RFormIs
  <2>3. QED
    BY <1>19, <2>1, <2>2 DEF Packed
<1>20. ASSUME x.op \in DOMAIN PlainType
      PROVE  Packed(x) = R(PlainType[x.op], x.rd, x.rs1, x.rs2)
  <2>1. x.op \notin DOMAIN UType /\ x.op \notin DOMAIN JType /\ x.op \notin DOMAIN BType /\ x.op \notin DOMAIN IForm /\ x.op \notin DOMAIN SForm /\ x.op \notin DOMAIN AmoForm /\ x.op \notin DOMAIN FloatForm /\ x.op \notin Compressed
    BY <1>20, FormNames, CompressedIs, OpcodeTables, ArithmeticTables, AmoTables, SystemTables, FloatTables,
     CompressedTables DEF Names, FloatTypes, CompressedNames
  <2>2. x.op \in DOMAIN RForm /\ RForm[x.op] = PlainType[x.op]
    BY <1>20, RFormIs
  <2>3. QED
    BY <1>20, <2>1, <2>2 DEF Packed
<1>21. ASSUME x.op \in DOMAIN AmoType
      PROVE  Packed(x) = PackAmo(AmoType[x.op], x.rd, x.rs1, x.rs2, x.imm)
  <2>1. x.op \notin DOMAIN UType /\ x.op \notin DOMAIN JType /\ x.op \notin DOMAIN BType /\ x.op \notin DOMAIN IForm /\ x.op \notin DOMAIN SForm /\ x.op \notin DOMAIN RForm /\ x.op \notin DOMAIN FloatForm /\ x.op \notin Compressed
    BY <1>21, FormNames, CompressedIs, OpcodeTables, ArithmeticTables, AmoTables, SystemTables, FloatTables,
     CompressedTables DEF Names, FloatTypes, CompressedNames
  <2>2. x.op \in DOMAIN AmoForm /\ AmoForm[x.op] = AmoType[x.op]
    BY <1>21, AmoFormIs
  <2>3. QED
    BY <1>21, <2>1, <2>2 DEF Packed, PackAmo
<1>22. ASSUME x.op \in DOMAIN AmoDType
      PROVE  Packed(x) = PackAmo(AmoDType[x.op], x.rd, x.rs1, x.rs2, x.imm)
  <2>1. x.op \notin DOMAIN UType /\ x.op \notin DOMAIN JType /\ x.op \notin DOMAIN BType /\ x.op \notin DOMAIN IForm /\ x.op \notin DOMAIN SForm /\ x.op \notin DOMAIN RForm /\ x.op \notin DOMAIN FloatForm /\ x.op \notin Compressed
    BY <1>22, FormNames, CompressedIs, OpcodeTables, ArithmeticTables, AmoTables, SystemTables, FloatTables,
     CompressedTables DEF Names, FloatTypes, CompressedNames
  <2>2. x.op \in DOMAIN AmoForm /\ AmoForm[x.op] = AmoDType[x.op]
    BY <1>22, AmoFormIs
  <2>3. QED
    BY <1>22, <2>1, <2>2 DEF Packed, PackAmo
<1>23. ASSUME x.op \in DOMAIN FloatTernaryType
      PROVE  Packed(x) = PackFloat(FloatTernaryType[x.op], x.rd, x.rs1, x.rs2, x.rs3, x.imm)
  <2>1. x.op \notin DOMAIN UType /\ x.op \notin DOMAIN JType /\ x.op \notin DOMAIN BType /\ x.op \notin DOMAIN IForm /\ x.op \notin DOMAIN SForm /\ x.op \notin DOMAIN RForm /\ x.op \notin DOMAIN AmoForm /\ x.op \notin Compressed
    BY <1>23, FormNames, CompressedIs, OpcodeTables, ArithmeticTables, AmoTables, SystemTables, FloatTables,
     CompressedTables DEF Names, FloatTypes, CompressedNames
  <2>2. x.op \in DOMAIN FloatForm /\ FloatForm[x.op] = FloatTernaryType[x.op]
    BY <1>23, FloatFormIs
  <2>3. QED
    BY <1>23, <2>1, <2>2 DEF Packed, PackFloat
<1>24. ASSUME x.op \in DOMAIN FloatBinaryType
      PROVE  Packed(x) = PackFloat(FloatBinaryType[x.op], x.rd, x.rs1, x.rs2, x.rs3, x.imm)
  <2>1. x.op \notin DOMAIN UType /\ x.op \notin DOMAIN JType /\ x.op \notin DOMAIN BType /\ x.op \notin DOMAIN IForm /\ x.op \notin DOMAIN SForm /\ x.op \notin DOMAIN RForm /\ x.op \notin DOMAIN AmoForm /\ x.op \notin Compressed
    BY <1>24, FormNames, CompressedIs, OpcodeTables, ArithmeticTables, AmoTables, SystemTables, FloatTables,
     CompressedTables DEF Names, FloatTypes, CompressedNames
  <2>2. x.op \in DOMAIN FloatForm /\ FloatForm[x.op] = FloatBinaryType[x.op]
    BY <1>24, FloatFormIs
  <2>3. QED
    BY <1>24, <2>1, <2>2 DEF Packed, PackFloat
<1>25. ASSUME x.op \in DOMAIN FloatUnaryType
      PROVE  Packed(x) = PackFloat(FloatUnaryType[x.op], x.rd, x.rs1, x.rs2, x.rs3, x.imm)
  <2>1. x.op \notin DOMAIN UType /\ x.op \notin DOMAIN JType /\ x.op \notin DOMAIN BType /\ x.op \notin DOMAIN IForm /\ x.op \notin DOMAIN SForm /\ x.op \notin DOMAIN RForm /\ x.op \notin DOMAIN AmoForm /\ x.op \notin Compressed
    BY <1>25, FormNames, CompressedIs, OpcodeTables, ArithmeticTables, AmoTables, SystemTables, FloatTables,
     CompressedTables DEF Names, FloatTypes, CompressedNames
  <2>2. x.op \in DOMAIN FloatForm /\ FloatForm[x.op] = FloatUnaryType[x.op]
    BY <1>25, FloatFormIs
  <2>3. QED
    BY <1>25, <2>1, <2>2 DEF Packed, PackFloat
<1>26. ASSUME x.op \in DOMAIN FloatSelectType
      PROVE  Packed(x) = PackFloat(FloatSelectType[x.op], x.rd, x.rs1, x.rs2, x.rs3, x.imm)
  <2>1. x.op \notin DOMAIN UType /\ x.op \notin DOMAIN JType /\ x.op \notin DOMAIN BType /\ x.op \notin DOMAIN IForm /\ x.op \notin DOMAIN SForm /\ x.op \notin DOMAIN RForm /\ x.op \notin DOMAIN AmoForm /\ x.op \notin Compressed
    BY <1>26, FormNames, CompressedIs, OpcodeTables, ArithmeticTables, AmoTables, SystemTables, FloatTables,
     CompressedTables DEF Names, FloatTypes, CompressedNames
  <2>2. x.op \in DOMAIN FloatForm /\ FloatForm[x.op] = FloatSelectType[x.op]
    BY <1>26, FloatFormIs
  <2>3. QED
    BY <1>26, <2>1, <2>2 DEF Packed, PackFloat
<1>27. ASSUME x.op \in DOMAIN FloatCompareType
      PROVE  Packed(x) = PackFloat(FloatCompareType[x.op], x.rd, x.rs1, x.rs2, x.rs3, x.imm)
  <2>1. x.op \notin DOMAIN UType /\ x.op \notin DOMAIN JType /\ x.op \notin DOMAIN BType /\ x.op \notin DOMAIN IForm /\ x.op \notin DOMAIN SForm /\ x.op \notin DOMAIN RForm /\ x.op \notin DOMAIN AmoForm /\ x.op \notin Compressed
    BY <1>27, FormNames, CompressedIs, OpcodeTables, ArithmeticTables, AmoTables, SystemTables, FloatTables,
     CompressedTables DEF Names, FloatTypes, CompressedNames
  <2>2. x.op \in DOMAIN FloatForm /\ FloatForm[x.op] = FloatCompareType[x.op]
    BY <1>27, FloatFormIs
  <2>3. QED
    BY <1>27, <2>1, <2>2 DEF Packed, PackFloat
<1>28. ASSUME x.op \in DOMAIN FloatToIntType
      PROVE  Packed(x) = PackFloat(FloatToIntType[x.op], x.rd, x.rs1, x.rs2, x.rs3, x.imm)
  <2>1. x.op \notin DOMAIN UType /\ x.op \notin DOMAIN JType /\ x.op \notin DOMAIN BType /\ x.op \notin DOMAIN IForm /\ x.op \notin DOMAIN SForm /\ x.op \notin DOMAIN RForm /\ x.op \notin DOMAIN AmoForm /\ x.op \notin Compressed
    BY <1>28, FormNames, CompressedIs, OpcodeTables, ArithmeticTables, AmoTables, SystemTables, FloatTables,
     CompressedTables DEF Names, FloatTypes, CompressedNames
  <2>2. x.op \in DOMAIN FloatForm /\ FloatForm[x.op] = FloatToIntType[x.op]
    BY <1>28, FloatFormIs
  <2>3. QED
    BY <1>28, <2>1, <2>2 DEF Packed, PackFloat
<1>29. ASSUME x.op \in DOMAIN IntToFloatType
      PROVE  Packed(x) = PackFloat(IntToFloatType[x.op], x.rd, x.rs1, x.rs2, x.rs3, x.imm)
  <2>1. x.op \notin DOMAIN UType /\ x.op \notin DOMAIN JType /\ x.op \notin DOMAIN BType /\ x.op \notin DOMAIN IForm /\ x.op \notin DOMAIN SForm /\ x.op \notin DOMAIN RForm /\ x.op \notin DOMAIN AmoForm /\ x.op \notin Compressed
    BY <1>29, FormNames, CompressedIs, OpcodeTables, ArithmeticTables, AmoTables, SystemTables, FloatTables,
     CompressedTables DEF Names, FloatTypes, CompressedNames
  <2>2. x.op \in DOMAIN FloatForm /\ FloatForm[x.op] = IntToFloatType[x.op]
    BY <1>29, FloatFormIs
  <2>3. QED
    BY <1>29, <2>1, <2>2 DEF Packed, PackFloat
<1>30. ASSUME x.op \in DOMAIN FloatToBitsType
      PROVE  Packed(x) = PackFloat(FloatToBitsType[x.op], x.rd, x.rs1, x.rs2, x.rs3, x.imm)
  <2>1. x.op \notin DOMAIN UType /\ x.op \notin DOMAIN JType /\ x.op \notin DOMAIN BType /\ x.op \notin DOMAIN IForm /\ x.op \notin DOMAIN SForm /\ x.op \notin DOMAIN RForm /\ x.op \notin DOMAIN AmoForm /\ x.op \notin Compressed
    BY <1>30, FormNames, CompressedIs, OpcodeTables, ArithmeticTables, AmoTables, SystemTables, FloatTables,
     CompressedTables DEF Names, FloatTypes, CompressedNames
  <2>2. x.op \in DOMAIN FloatForm /\ FloatForm[x.op] = FloatToBitsType[x.op]
    BY <1>30, FloatFormIs
  <2>3. QED
    BY <1>30, <2>1, <2>2 DEF Packed, PackFloat
<1>31. ASSUME x.op \in DOMAIN BitsToFloatType
      PROVE  Packed(x) = PackFloat(BitsToFloatType[x.op], x.rd, x.rs1, x.rs2, x.rs3, x.imm)
  <2>1. x.op \notin DOMAIN UType /\ x.op \notin DOMAIN JType /\ x.op \notin DOMAIN BType /\ x.op \notin DOMAIN IForm /\ x.op \notin DOMAIN SForm /\ x.op \notin DOMAIN RForm /\ x.op \notin DOMAIN AmoForm /\ x.op \notin Compressed
    BY <1>31, FormNames, CompressedIs, OpcodeTables, ArithmeticTables, AmoTables, SystemTables, FloatTables,
     CompressedTables DEF Names, FloatTypes, CompressedNames
  <2>2. x.op \in DOMAIN FloatForm /\ FloatForm[x.op] = BitsToFloatType[x.op]
    BY <1>31, FloatFormIs
  <2>3. QED
    BY <1>31, <2>1, <2>2 DEF Packed, PackFloat
<1>32. QED
  BY <1>1, <1>2, <1>3, <1>4, <1>5, <1>6, <1>7, <1>8, <1>9, <1>10, <1>11, <1>12, <1>13, <1>14, <1>15, <1>16, <1>17, <1>18, <1>19, <1>20, <1>21, <1>22, <1>23, <1>24, <1>25, <1>26, <1>27, <1>28, <1>29, <1>30, <1>31

LEMMA URow ==
  ASSUME NEW op \in DOMAIN UType, op \in Opcodes, NEW width
  PROVE  /\ RegisterFields[op] = {"rd"} /\ OtherFields[op] = {}
         /\ ImmKind[op] = "i32" /\ Bounds(op, width) = Limits(-524288, 1048575, 1)
<1>1. RegisterFields[op] = {"rd"}
  BY OpcodeTables, ArithmeticTables, AmoTables, SystemTables, FloatTables,
     CompressedTables
     DEF RegisterFields, Names
<1>2. OtherFields[op] = {}
  BY <1>1, OpcodeTables, ArithmeticTables, AmoTables, SystemTables, FloatTables,
     CompressedTables
     DEF OtherFields, Names
<1>3. ImmKind[op] = "i32"
  BY OpcodeTables, ArithmeticTables, AmoTables, SystemTables, FloatTables,
     CompressedTables
     DEF ImmKind, Names
<1>4. Bounds(op, width) = Limits(-524288, 1048575, 1)
  BY OpcodeTables, ArithmeticTables, AmoTables, SystemTables, FloatTables,
     CompressedTables
     DEF Bounds, Names
<1>5. QED
  BY <1>1, <1>2, <1>3, <1>4

LEMMA JRow ==
  ASSUME NEW op \in DOMAIN JType, op \in Opcodes, NEW width
  PROVE  /\ RegisterFields[op] = {"rd"} /\ OtherFields[op] = {}
         /\ ImmKind[op] = "i32" /\ Bounds(op, width) = Limits(-1048576, 1048574, 2)
<1>1. RegisterFields[op] = {"rd"}
  BY OpcodeTables, ArithmeticTables, AmoTables, SystemTables, FloatTables,
     CompressedTables
     DEF RegisterFields, Names
<1>2. OtherFields[op] = {}
  BY <1>1, OpcodeTables, ArithmeticTables, AmoTables, SystemTables, FloatTables,
     CompressedTables
     DEF OtherFields, Names
<1>3. ImmKind[op] = "i32"
  BY OpcodeTables, ArithmeticTables, AmoTables, SystemTables, FloatTables,
     CompressedTables
     DEF ImmKind, Names
<1>4. Bounds(op, width) = Limits(-1048576, 1048574, 2)
  BY OpcodeTables, ArithmeticTables, AmoTables, SystemTables, FloatTables,
     CompressedTables
     DEF Bounds, Names
<1>5. QED
  BY <1>1, <1>2, <1>3, <1>4

LEMMA BRow ==
  ASSUME NEW op \in DOMAIN BType, op \in Opcodes, NEW width
  PROVE  /\ RegisterFields[op] = {"rs1", "rs2"} /\ OtherFields[op] = {}
         /\ ImmKind[op] = "i32" /\ Bounds(op, width) = Limits(-4096, 4094, 2)
<1>1. RegisterFields[op] = {"rs1", "rs2"}
  BY OpcodeTables, ArithmeticTables, AmoTables, SystemTables, FloatTables,
     CompressedTables
     DEF RegisterFields, Names
<1>2. OtherFields[op] = {}
  BY <1>1, OpcodeTables, ArithmeticTables, AmoTables, SystemTables, FloatTables,
     CompressedTables
     DEF OtherFields, Names
<1>3. ImmKind[op] = "i32"
  BY OpcodeTables, ArithmeticTables, AmoTables, SystemTables, FloatTables,
     CompressedTables
     DEF ImmKind, Names
<1>4. Bounds(op, width) = Limits(-4096, 4094, 2)
  BY OpcodeTables, ArithmeticTables, AmoTables, SystemTables, FloatTables,
     CompressedTables
     DEF Bounds, Names
<1>5. QED
  BY <1>1, <1>2, <1>3, <1>4

LEMMA JalrRow ==
  ASSUME NEW op \in DOMAIN JalrType, op \in Opcodes, NEW width
  PROVE  /\ RegisterFields[op] = {"rd", "rs1"} /\ OtherFields[op] = {}
         /\ ImmKind[op] = "i32" /\ Bounds(op, width) = Limits(-2048, 2047, 1)
<1>1. RegisterFields[op] = {"rd", "rs1"}
  BY OpcodeTables, ArithmeticTables, AmoTables, SystemTables, FloatTables,
     CompressedTables
     DEF RegisterFields, Names
<1>2. OtherFields[op] = {}
  BY <1>1, OpcodeTables, ArithmeticTables, AmoTables, SystemTables, FloatTables,
     CompressedTables
     DEF OtherFields, Names
<1>3. ImmKind[op] = "i32"
  BY OpcodeTables, ArithmeticTables, AmoTables, SystemTables, FloatTables,
     CompressedTables
     DEF ImmKind, Names
<1>4. Bounds(op, width) = Limits(-2048, 2047, 1)
  BY OpcodeTables, ArithmeticTables, AmoTables, SystemTables, FloatTables,
     CompressedTables
     DEF Bounds, Names
<1>5. QED
  BY <1>1, <1>2, <1>3, <1>4

LEMMA LoadRow ==
  ASSUME NEW op \in DOMAIN LoadType, op \in Opcodes, NEW width
  PROVE  /\ RegisterFields[op] = {"rd", "rs1"} /\ OtherFields[op] = {}
         /\ ImmKind[op] = "i32" /\ Bounds(op, width) = Limits(-2048, 2047, 1)
<1>1. RegisterFields[op] = {"rd", "rs1"}
  BY OpcodeTables, ArithmeticTables, AmoTables, SystemTables, FloatTables,
     CompressedTables
     DEF RegisterFields, Names
<1>2. OtherFields[op] = {}
  BY <1>1, OpcodeTables, ArithmeticTables, AmoTables, SystemTables, FloatTables,
     CompressedTables
     DEF OtherFields, Names
<1>3. ImmKind[op] = "i32"
  BY OpcodeTables, ArithmeticTables, AmoTables, SystemTables, FloatTables,
     CompressedTables
     DEF ImmKind, Names
<1>4. Bounds(op, width) = Limits(-2048, 2047, 1)
  BY OpcodeTables, ArithmeticTables, AmoTables, SystemTables, FloatTables,
     CompressedTables
     DEF Bounds, Names
<1>5. QED
  BY <1>1, <1>2, <1>3, <1>4

LEMMA FloatLoadRow ==
  ASSUME NEW op \in DOMAIN FloatLoadType, op \in Opcodes, NEW width
  PROVE  /\ RegisterFields[op] = {"rd", "rs1"} /\ OtherFields[op] = {"rd"}
         /\ ImmKind[op] = "i32" /\ Bounds(op, width) = Limits(-2048, 2047, 1)
<1>1. RegisterFields[op] = {"rd", "rs1"}
  BY OpcodeTables, ArithmeticTables, AmoTables, SystemTables, FloatTables,
     CompressedTables
     DEF RegisterFields, Names
<1>2. OtherFields[op] = {"rd"}
  BY <1>1, OpcodeTables, ArithmeticTables, AmoTables, SystemTables, FloatTables,
     CompressedTables
     DEF OtherFields, Names
<1>3. ImmKind[op] = "i32"
  BY OpcodeTables, ArithmeticTables, AmoTables, SystemTables, FloatTables,
     CompressedTables
     DEF ImmKind, Names
<1>4. Bounds(op, width) = Limits(-2048, 2047, 1)
  BY OpcodeTables, ArithmeticTables, AmoTables, SystemTables, FloatTables,
     CompressedTables
     DEF Bounds, Names
<1>5. QED
  BY <1>1, <1>2, <1>3, <1>4

LEMMA ImmRow ==
  ASSUME NEW op \in DOMAIN ImmType, op \in Opcodes, NEW width
  PROVE  /\ RegisterFields[op] = {"rd", "rs1"} /\ OtherFields[op] = {}
         /\ ImmKind[op] = "i32" /\ Bounds(op, width) = Limits(-2048, 2047, 1)
<1>1. RegisterFields[op] = {"rd", "rs1"}
  BY OpcodeTables, ArithmeticTables, AmoTables, SystemTables, FloatTables,
     CompressedTables
     DEF RegisterFields, Names
<1>2. OtherFields[op] = {}
  BY <1>1, OpcodeTables, ArithmeticTables, AmoTables, SystemTables, FloatTables,
     CompressedTables
     DEF OtherFields, Names
<1>3. ImmKind[op] = "i32"
  BY OpcodeTables, ArithmeticTables, AmoTables, SystemTables, FloatTables,
     CompressedTables
     DEF ImmKind, Names
<1>4. Bounds(op, width) = Limits(-2048, 2047, 1)
  BY OpcodeTables, ArithmeticTables, AmoTables, SystemTables, FloatTables,
     CompressedTables
     DEF Bounds, Names
<1>5. QED
  BY <1>1, <1>2, <1>3, <1>4

LEMMA ShiftRow ==
  ASSUME NEW op \in DOMAIN ShiftType, op \in Opcodes, NEW width
  PROVE  /\ RegisterFields[op] = {"rd", "rs1"} /\ OtherFields[op] = {}
         /\ ImmKind[op] = "shift" /\ Bounds(op, width) = Limits(0, width - 1, 1)
<1>1. RegisterFields[op] = {"rd", "rs1"}
  BY OpcodeTables, ArithmeticTables, AmoTables, SystemTables, FloatTables,
     CompressedTables
     DEF RegisterFields, Names
<1>2. OtherFields[op] = {}
  BY <1>1, OpcodeTables, ArithmeticTables, AmoTables, SystemTables, FloatTables,
     CompressedTables
     DEF OtherFields, Names
<1>3. ImmKind[op] = "shift"
  BY OpcodeTables, ArithmeticTables, AmoTables, SystemTables, FloatTables,
     CompressedTables
     DEF ImmKind, Names
<1>4. Bounds(op, width) = Limits(0, width - 1, 1)
  BY OpcodeTables, ArithmeticTables, AmoTables, SystemTables, FloatTables,
     CompressedTables
     DEF Bounds, Names
<1>5. QED
  BY <1>1, <1>2, <1>3, <1>4

LEMMA ShiftWRow ==
  ASSUME NEW op \in DOMAIN ShiftWType, op \in Opcodes, NEW width
  PROVE  /\ RegisterFields[op] = {"rd", "rs1"} /\ OtherFields[op] = {}
         /\ ImmKind[op] = "shift" /\ Bounds(op, width) = Limits(0, 31, 1)
<1>1. RegisterFields[op] = {"rd", "rs1"}
  BY OpcodeTables, ArithmeticTables, AmoTables, SystemTables, FloatTables,
     CompressedTables
     DEF RegisterFields, Names
<1>2. OtherFields[op] = {}
  BY <1>1, OpcodeTables, ArithmeticTables, AmoTables, SystemTables, FloatTables,
     CompressedTables
     DEF OtherFields, Names
<1>3. ImmKind[op] = "shift"
  BY OpcodeTables, ArithmeticTables, AmoTables, SystemTables, FloatTables,
     CompressedTables
     DEF ImmKind, Names
<1>4. Bounds(op, width) = Limits(0, 31, 1)
  BY OpcodeTables, ArithmeticTables, AmoTables, SystemTables, FloatTables,
     CompressedTables
     DEF Bounds, Names
<1>5. QED
  BY <1>1, <1>2, <1>3, <1>4

LEMMA StoreRow ==
  ASSUME NEW op \in DOMAIN StoreType, op \in Opcodes, NEW width
  PROVE  /\ RegisterFields[op] = {"rs1", "rs2"} /\ OtherFields[op] = {}
         /\ ImmKind[op] = "i32" /\ Bounds(op, width) = Limits(-2048, 2047, 1)
<1>1. RegisterFields[op] = {"rs1", "rs2"}
  BY OpcodeTables, ArithmeticTables, AmoTables, SystemTables, FloatTables,
     CompressedTables
     DEF RegisterFields, Names
<1>2. OtherFields[op] = {}
  BY <1>1, OpcodeTables, ArithmeticTables, AmoTables, SystemTables, FloatTables,
     CompressedTables
     DEF OtherFields, Names
<1>3. ImmKind[op] = "i32"
  BY OpcodeTables, ArithmeticTables, AmoTables, SystemTables, FloatTables,
     CompressedTables
     DEF ImmKind, Names
<1>4. Bounds(op, width) = Limits(-2048, 2047, 1)
  BY OpcodeTables, ArithmeticTables, AmoTables, SystemTables, FloatTables,
     CompressedTables
     DEF Bounds, Names
<1>5. QED
  BY <1>1, <1>2, <1>3, <1>4

LEMMA FloatStoreRow ==
  ASSUME NEW op \in DOMAIN FloatStoreType, op \in Opcodes, NEW width
  PROVE  /\ RegisterFields[op] = {"rs1", "rs2"} /\ OtherFields[op] = {"rs2"}
         /\ ImmKind[op] = "i32" /\ Bounds(op, width) = Limits(-2048, 2047, 1)
<1>1. RegisterFields[op] = {"rs1", "rs2"}
  BY OpcodeTables, ArithmeticTables, AmoTables, SystemTables, FloatTables,
     CompressedTables
     DEF RegisterFields, Names
<1>2. OtherFields[op] = {"rs2"}
  BY <1>1, OpcodeTables, ArithmeticTables, AmoTables, SystemTables, FloatTables,
     CompressedTables
     DEF OtherFields, Names
<1>3. ImmKind[op] = "i32"
  BY OpcodeTables, ArithmeticTables, AmoTables, SystemTables, FloatTables,
     CompressedTables
     DEF ImmKind, Names
<1>4. Bounds(op, width) = Limits(-2048, 2047, 1)
  BY OpcodeTables, ArithmeticTables, AmoTables, SystemTables, FloatTables,
     CompressedTables
     DEF Bounds, Names
<1>5. QED
  BY <1>1, <1>2, <1>3, <1>4

LEMMA OpRow ==
  ASSUME NEW op \in DOMAIN OpType, op \in Opcodes
  PROVE  /\ RegisterFields[op] = {"rd", "rs1", "rs2"} /\ OtherFields[op] = {}
         /\ ImmKind[op] = "none"
<1>1. RegisterFields[op] = {"rd", "rs1", "rs2"}
  BY OpcodeTables, ArithmeticTables, AmoTables, SystemTables, FloatTables,
     CompressedTables
     DEF RegisterFields, Names
<1>2. OtherFields[op] = {}
  BY <1>1, OpcodeTables, ArithmeticTables, AmoTables, SystemTables, FloatTables,
     CompressedTables
     DEF OtherFields, Names
<1>3. ImmKind[op] = "none"
  BY OpcodeTables, ArithmeticTables, AmoTables, SystemTables, FloatTables,
     CompressedTables
     DEF ImmKind, Names
<1>4. QED
  BY <1>1, <1>2, <1>3

LEMMA OpWRow ==
  ASSUME NEW op \in DOMAIN OpWType, op \in Opcodes
  PROVE  /\ RegisterFields[op] = {"rd", "rs1", "rs2"} /\ OtherFields[op] = {}
         /\ ImmKind[op] = "none"
<1>1. RegisterFields[op] = {"rd", "rs1", "rs2"}
  BY OpcodeTables, ArithmeticTables, AmoTables, SystemTables, FloatTables,
     CompressedTables
     DEF RegisterFields, Names
<1>2. OtherFields[op] = {}
  BY <1>1, OpcodeTables, ArithmeticTables, AmoTables, SystemTables, FloatTables,
     CompressedTables
     DEF OtherFields, Names
<1>3. ImmKind[op] = "none"
  BY OpcodeTables, ArithmeticTables, AmoTables, SystemTables, FloatTables,
     CompressedTables
     DEF ImmKind, Names
<1>4. QED
  BY <1>1, <1>2, <1>3

LEMMA MulRow ==
  ASSUME NEW op \in DOMAIN MulType, op \in Opcodes
  PROVE  /\ RegisterFields[op] = {"rd", "rs1", "rs2"} /\ OtherFields[op] = {}
         /\ ImmKind[op] = "none"
<1>1. RegisterFields[op] = {"rd", "rs1", "rs2"}
  BY OpcodeTables, ArithmeticTables, AmoTables, SystemTables, FloatTables,
     CompressedTables
     DEF RegisterFields, Names
<1>2. OtherFields[op] = {}
  BY <1>1, OpcodeTables, ArithmeticTables, AmoTables, SystemTables, FloatTables,
     CompressedTables
     DEF OtherFields, Names
<1>3. ImmKind[op] = "none"
  BY OpcodeTables, ArithmeticTables, AmoTables, SystemTables, FloatTables,
     CompressedTables
     DEF ImmKind, Names
<1>4. QED
  BY <1>1, <1>2, <1>3

LEMMA MulWRow ==
  ASSUME NEW op \in DOMAIN MulWType, op \in Opcodes
  PROVE  /\ RegisterFields[op] = {"rd", "rs1", "rs2"} /\ OtherFields[op] = {}
         /\ ImmKind[op] = "none"
<1>1. RegisterFields[op] = {"rd", "rs1", "rs2"}
  BY OpcodeTables, ArithmeticTables, AmoTables, SystemTables, FloatTables,
     CompressedTables
     DEF RegisterFields, Names
<1>2. OtherFields[op] = {}
  BY <1>1, OpcodeTables, ArithmeticTables, AmoTables, SystemTables, FloatTables,
     CompressedTables
     DEF OtherFields, Names
<1>3. ImmKind[op] = "none"
  BY OpcodeTables, ArithmeticTables, AmoTables, SystemTables, FloatTables,
     CompressedTables
     DEF ImmKind, Names
<1>4. QED
  BY <1>1, <1>2, <1>3

LEMMA AmoRow ==
  ASSUME NEW op \in (DOMAIN AmoType \cup DOMAIN AmoDType) \ {"LrW", "LrD"}, op \in Opcodes
  PROVE  /\ RegisterFields[op] = {"rd", "rs1", "rs2"} /\ OtherFields[op] = {}
         /\ ImmKind[op] = "ordering"
<1>1. RegisterFields[op] = {"rd", "rs1", "rs2"}
  BY OpcodeTables, ArithmeticTables, AmoTables, SystemTables, FloatTables,
     CompressedTables
     DEF RegisterFields, Names
<1>2. OtherFields[op] = {}
  BY <1>1, OpcodeTables, ArithmeticTables, AmoTables, SystemTables, FloatTables,
     CompressedTables
     DEF OtherFields, Names
<1>3. ImmKind[op] = "ordering"
  BY OpcodeTables, ArithmeticTables, AmoTables, SystemTables, FloatTables,
     CompressedTables
     DEF ImmKind, Names
<1>4. QED
  BY <1>1, <1>2, <1>3

LEMMA LrRow ==
  ASSUME NEW op \in {"LrW", "LrD"}, op \in Opcodes
  PROVE  /\ RegisterFields[op] = {"rd", "rs1"} /\ OtherFields[op] = {}
         /\ ImmKind[op] = "ordering"
<1>1. RegisterFields[op] = {"rd", "rs1"}
  BY OpcodeTables, ArithmeticTables, AmoTables, SystemTables, FloatTables,
     CompressedTables
     DEF RegisterFields, Names
<1>2. OtherFields[op] = {}
  BY <1>1, OpcodeTables, ArithmeticTables, AmoTables, SystemTables, FloatTables,
     CompressedTables
     DEF OtherFields, Names
<1>3. ImmKind[op] = "ordering"
  BY OpcodeTables, ArithmeticTables, AmoTables, SystemTables, FloatTables,
     CompressedTables
     DEF ImmKind, Names
<1>4. QED
  BY <1>1, <1>2, <1>3

LEMMA FloatTernaryRow ==
  ASSUME NEW op \in DOMAIN FloatTernaryType, op \in Opcodes
  PROVE  /\ RegisterFields[op] = {"rd", "rs1", "rs2", "rs3"} /\ OtherFields[op] = {"rd", "rs1", "rs2", "rs3"}
         /\ ImmKind[op] = "rounding"
<1>1. RegisterFields[op] = {"rd", "rs1", "rs2", "rs3"}
  BY OpcodeTables, ArithmeticTables, AmoTables, SystemTables, FloatTables,
     CompressedTables
     DEF RegisterFields, Names
<1>2. OtherFields[op] = {"rd", "rs1", "rs2", "rs3"}
  BY <1>1, OpcodeTables, ArithmeticTables, AmoTables, SystemTables, FloatTables,
     CompressedTables
     DEF OtherFields, Names
<1>3. ImmKind[op] = "rounding"
  BY OpcodeTables, ArithmeticTables, AmoTables, SystemTables, FloatTables,
     CompressedTables
     DEF ImmKind, Names
<1>4. QED
  BY <1>1, <1>2, <1>3

LEMMA FloatBinaryRow ==
  ASSUME NEW op \in DOMAIN FloatBinaryType, op \in Opcodes
  PROVE  /\ RegisterFields[op] = {"rd", "rs1", "rs2"} /\ OtherFields[op] = {"rd", "rs1", "rs2"}
         /\ ImmKind[op] = "rounding"
<1>1. RegisterFields[op] = {"rd", "rs1", "rs2"}
  BY OpcodeTables, ArithmeticTables, AmoTables, SystemTables, FloatTables,
     CompressedTables
     DEF RegisterFields, Names
<1>2. OtherFields[op] = {"rd", "rs1", "rs2"}
  BY <1>1, OpcodeTables, ArithmeticTables, AmoTables, SystemTables, FloatTables,
     CompressedTables
     DEF OtherFields, Names
<1>3. ImmKind[op] = "rounding"
  BY OpcodeTables, ArithmeticTables, AmoTables, SystemTables, FloatTables,
     CompressedTables
     DEF ImmKind, Names
<1>4. QED
  BY <1>1, <1>2, <1>3

LEMMA FloatUnaryRow ==
  ASSUME NEW op \in DOMAIN FloatUnaryType, op \in Opcodes
  PROVE  /\ RegisterFields[op] = {"rd", "rs1"} /\ OtherFields[op] = {"rd", "rs1"}
         /\ ImmKind[op] = "rounding"
<1>1. RegisterFields[op] = {"rd", "rs1"}
  BY OpcodeTables, ArithmeticTables, AmoTables, SystemTables, FloatTables,
     CompressedTables
     DEF RegisterFields, Names
<1>2. OtherFields[op] = {"rd", "rs1"}
  BY <1>1, OpcodeTables, ArithmeticTables, AmoTables, SystemTables, FloatTables,
     CompressedTables
     DEF OtherFields, Names
<1>3. ImmKind[op] = "rounding"
  BY OpcodeTables, ArithmeticTables, AmoTables, SystemTables, FloatTables,
     CompressedTables
     DEF ImmKind, Names
<1>4. QED
  BY <1>1, <1>2, <1>3

LEMMA FloatSelectRow ==
  ASSUME NEW op \in DOMAIN FloatSelectType, op \in Opcodes
  PROVE  /\ RegisterFields[op] = {"rd", "rs1", "rs2"} /\ OtherFields[op] = {"rd", "rs1", "rs2"}
         /\ ImmKind[op] = "none"
<1>1. RegisterFields[op] = {"rd", "rs1", "rs2"}
  BY OpcodeTables, ArithmeticTables, AmoTables, SystemTables, FloatTables,
     CompressedTables
     DEF RegisterFields, Names
<1>2. OtherFields[op] = {"rd", "rs1", "rs2"}
  BY <1>1, OpcodeTables, ArithmeticTables, AmoTables, SystemTables, FloatTables,
     CompressedTables
     DEF OtherFields, Names
<1>3. ImmKind[op] = "none"
  BY OpcodeTables, ArithmeticTables, AmoTables, SystemTables, FloatTables,
     CompressedTables
     DEF ImmKind, Names
<1>4. QED
  BY <1>1, <1>2, <1>3

LEMMA FloatCompareRow ==
  ASSUME NEW op \in DOMAIN FloatCompareType, op \in Opcodes
  PROVE  /\ RegisterFields[op] = {"rd", "rs1", "rs2"} /\ OtherFields[op] = {"rs1", "rs2"}
         /\ ImmKind[op] = "none"
<1>1. RegisterFields[op] = {"rd", "rs1", "rs2"}
  BY OpcodeTables, ArithmeticTables, AmoTables, SystemTables, FloatTables,
     CompressedTables
     DEF RegisterFields, Names
<1>2. OtherFields[op] = {"rs1", "rs2"}
  BY <1>1, OpcodeTables, ArithmeticTables, AmoTables, SystemTables, FloatTables,
     CompressedTables
     DEF OtherFields, Names
<1>3. ImmKind[op] = "none"
  BY OpcodeTables, ArithmeticTables, AmoTables, SystemTables, FloatTables,
     CompressedTables
     DEF ImmKind, Names
<1>4. QED
  BY <1>1, <1>2, <1>3

LEMMA FloatToIntRow ==
  ASSUME NEW op \in DOMAIN FloatToIntType, op \in Opcodes
  PROVE  /\ RegisterFields[op] = {"rd", "rs1"} /\ OtherFields[op] = {"rs1"}
         /\ ImmKind[op] = "rounding"
<1>1. RegisterFields[op] = {"rd", "rs1"}
  BY OpcodeTables, ArithmeticTables, AmoTables, SystemTables, FloatTables,
     CompressedTables
     DEF RegisterFields, Names
<1>2. OtherFields[op] = {"rs1"}
  BY <1>1, OpcodeTables, ArithmeticTables, AmoTables, SystemTables, FloatTables,
     CompressedTables
     DEF OtherFields, Names
<1>3. ImmKind[op] = "rounding"
  BY OpcodeTables, ArithmeticTables, AmoTables, SystemTables, FloatTables,
     CompressedTables
     DEF ImmKind, Names
<1>4. QED
  BY <1>1, <1>2, <1>3

LEMMA IntToFloatRow ==
  ASSUME NEW op \in DOMAIN IntToFloatType, op \in Opcodes
  PROVE  /\ RegisterFields[op] = {"rd", "rs1"} /\ OtherFields[op] = {"rd"}
         /\ ImmKind[op] = "rounding"
<1>1. RegisterFields[op] = {"rd", "rs1"}
  BY OpcodeTables, ArithmeticTables, AmoTables, SystemTables, FloatTables,
     CompressedTables
     DEF RegisterFields, Names
<1>2. OtherFields[op] = {"rd"}
  BY <1>1, OpcodeTables, ArithmeticTables, AmoTables, SystemTables, FloatTables,
     CompressedTables
     DEF OtherFields, Names
<1>3. ImmKind[op] = "rounding"
  BY OpcodeTables, ArithmeticTables, AmoTables, SystemTables, FloatTables,
     CompressedTables
     DEF ImmKind, Names
<1>4. QED
  BY <1>1, <1>2, <1>3

LEMMA FloatToBitsRow ==
  ASSUME NEW op \in DOMAIN FloatToBitsType, op \in Opcodes
  PROVE  /\ RegisterFields[op] = {"rd", "rs1"} /\ OtherFields[op] = {"rs1"}
         /\ ImmKind[op] = "none"
<1>1. RegisterFields[op] = {"rd", "rs1"}
  BY OpcodeTables, ArithmeticTables, AmoTables, SystemTables, FloatTables,
     CompressedTables
     DEF RegisterFields, Names
<1>2. OtherFields[op] = {"rs1"}
  BY <1>1, OpcodeTables, ArithmeticTables, AmoTables, SystemTables, FloatTables,
     CompressedTables
     DEF OtherFields, Names
<1>3. ImmKind[op] = "none"
  BY OpcodeTables, ArithmeticTables, AmoTables, SystemTables, FloatTables,
     CompressedTables
     DEF ImmKind, Names
<1>4. QED
  BY <1>1, <1>2, <1>3

LEMMA BitsToFloatRow ==
  ASSUME NEW op \in DOMAIN BitsToFloatType, op \in Opcodes
  PROVE  /\ RegisterFields[op] = {"rd", "rs1"} /\ OtherFields[op] = {"rd"}
         /\ ImmKind[op] = "none"
<1>1. RegisterFields[op] = {"rd", "rs1"}
  BY OpcodeTables, ArithmeticTables, AmoTables, SystemTables, FloatTables,
     CompressedTables
     DEF RegisterFields, Names
<1>2. OtherFields[op] = {"rd"}
  BY <1>1, OpcodeTables, ArithmeticTables, AmoTables, SystemTables, FloatTables,
     CompressedTables
     DEF OtherFields, Names
<1>3. ImmKind[op] = "none"
  BY OpcodeTables, ArithmeticTables, AmoTables, SystemTables, FloatTables,
     CompressedTables
     DEF ImmKind, Names
<1>4. QED
  BY <1>1, <1>2, <1>3

LEMMA CsrRow ==
  ASSUME NEW op \in DOMAIN CsrType, op \in Opcodes
  PROVE  /\ RegisterFields[op] = {"rd", "rs1"} /\ OtherFields[op] = {}
         /\ ImmKind[op] = "csr"
<1>1. RegisterFields[op] = {"rd", "rs1"}
  BY OpcodeTables, ArithmeticTables, AmoTables, SystemTables, FloatTables,
     CompressedTables
     DEF RegisterFields, Names
<1>2. OtherFields[op] = {}
  BY <1>1, OpcodeTables, ArithmeticTables, AmoTables, SystemTables, FloatTables,
     CompressedTables
     DEF OtherFields, Names
<1>3. ImmKind[op] = "csr"
  BY OpcodeTables, ArithmeticTables, AmoTables, SystemTables, FloatTables,
     CompressedTables
     DEF ImmKind, Names
<1>4. QED
  BY <1>1, <1>2, <1>3

LEMMA CsrImmRow ==
  ASSUME NEW op \in DOMAIN CsrImmType, op \in Opcodes
  PROVE  /\ RegisterFields[op] = {"rd", "rs1"} /\ OtherFields[op] = {"rs1"}
         /\ ImmKind[op] = "csr"
<1>1. RegisterFields[op] = {"rd", "rs1"}
  BY OpcodeTables, ArithmeticTables, AmoTables, SystemTables, FloatTables,
     CompressedTables
     DEF RegisterFields, Names
<1>2. OtherFields[op] = {"rs1"}
  BY <1>1, OpcodeTables, ArithmeticTables, AmoTables, SystemTables, FloatTables,
     CompressedTables
     DEF OtherFields, Names
<1>3. ImmKind[op] = "csr"
  BY OpcodeTables, ArithmeticTables, AmoTables, SystemTables, FloatTables,
     CompressedTables
     DEF ImmKind, Names
<1>4. QED
  BY <1>1, <1>2, <1>3

LEMMA FenceRow ==
  ASSUME NEW op \in DOMAIN FenceType, op \in Opcodes
  PROVE  /\ RegisterFields[op] = {} /\ OtherFields[op] = {}
         /\ ImmKind[op] = "fence"
<1>1. RegisterFields[op] = {}
  BY OpcodeTables, ArithmeticTables, AmoTables, SystemTables, FloatTables,
     CompressedTables
     DEF RegisterFields, Names
<1>2. OtherFields[op] = {}
  BY <1>1, OpcodeTables, ArithmeticTables, AmoTables, SystemTables, FloatTables,
     CompressedTables
     DEF OtherFields, Names
<1>3. ImmKind[op] = "fence"
  BY OpcodeTables, ArithmeticTables, AmoTables, SystemTables, FloatTables,
     CompressedTables
     DEF ImmKind, Names
<1>4. QED
  BY <1>1, <1>2, <1>3

LEMMA VmaRow ==
  ASSUME NEW op \in DOMAIN VmaType, op \in Opcodes
  PROVE  /\ RegisterFields[op] = {"rs1", "rs2"} /\ OtherFields[op] = {}
         /\ ImmKind[op] = "none"
<1>1. RegisterFields[op] = {"rs1", "rs2"}
  BY OpcodeTables, ArithmeticTables, AmoTables, SystemTables, FloatTables,
     CompressedTables
     DEF RegisterFields, Names
<1>2. OtherFields[op] = {}
  BY <1>1, OpcodeTables, ArithmeticTables, AmoTables, SystemTables, FloatTables,
     CompressedTables
     DEF OtherFields, Names
<1>3. ImmKind[op] = "none"
  BY OpcodeTables, ArithmeticTables, AmoTables, SystemTables, FloatTables,
     CompressedTables
     DEF ImmKind, Names
<1>4. QED
  BY <1>1, <1>2, <1>3

LEMMA PlainRow ==
  ASSUME NEW op \in DOMAIN PlainType, op \in Opcodes
  PROVE  /\ RegisterFields[op] = {} /\ OtherFields[op] = {}
         /\ ImmKind[op] = "none"
<1>1. RegisterFields[op] = {}
  BY OpcodeTables, ArithmeticTables, AmoTables, SystemTables, FloatTables,
     CompressedTables
     DEF RegisterFields, Names
<1>2. OtherFields[op] = {}
  BY <1>1, OpcodeTables, ArithmeticTables, AmoTables, SystemTables, FloatTables,
     CompressedTables
     DEF OtherFields, Names
<1>3. ImmKind[op] = "none"
  BY OpcodeTables, ArithmeticTables, AmoTables, SystemTables, FloatTables,
     CompressedTables
     DEF ImmKind, Names
<1>4. QED
  BY <1>1, <1>2, <1>3

--------------------------------------------------------------------------------
(* The hart does what was meant: instructions of thirty-two bits.            *)

\* An instruction as its type allows it.
Shaped(x) ==
    /\ x = [op |-> x.op, rd |-> x.rd, rs1 |-> x.rs1, rs2 |-> x.rs2, rs3 |-> x.rs3,
            imm |-> x.imm]
    /\ x.op \in Opcodes
    /\ x.rd \in Nat /\ x.rd < 32 /\ x.rs1 \in Nat /\ x.rs1 < 32
    /\ x.rs2 \in Nat /\ x.rs2 < 32 /\ x.rs3 \in Nat /\ x.rs3 < 32
    /\ "rd" \notin RegisterFields[x.op] => x.rd = 0
    /\ "rs1" \notin RegisterFields[x.op] => x.rs1 = 0
    /\ "rs2" \notin RegisterFields[x.op] => x.rs2 = 0
    /\ "rs3" \notin RegisterFields[x.op] => x.rs3 = 0
    /\ x.imm \in Int
    /\ ImmKind[x.op] = "csr" => 0 <= x.imm /\ x.imm < 4096
    /\ ImmKind[x.op] = "ordering" => 0 <= x.imm /\ x.imm < 4
    /\ ImmKind[x.op] = "rounding" => 0 <= x.imm /\ x.imm < 8
    /\ ImmKind[x.op] = "none" => x.imm = 0

\* The hart takes a word for the instruction it was packed from.
Understood(x, width) ==
    /\ Decoded32(Packed(x), width) = Canonical(x)
    /\ Access32(Packed(x), Canonical(x)) = MemoryOperand(x)
    /\ Major(Packed(x)) % 4 = 3

\* The destination read from a word is the one the catalog gives the opcode.
Tracked(x) ==
    (IF WritesXreg(Packed(x)) THEN Rd(Packed(x)) ELSE 0) =
        IF "rd" \in RegisterFields[x.op] \ OtherFields[x.op] THEN x.rd ELSE 0

LEMMA ShapedIs ==
  ASSUME NEW x, Shaped(x), x.rs3 = 0
  PROVE  x = Instr(x.op, x.rd, x.rs1, x.rs2, x.imm)
  BY DEF Shaped, Instr

LEMMA CanonicalIs ==
  ASSUME NEW x, x.op \notin DOMAIN UType
  PROVE  Canonical(x) = x
  BY DEF Canonical

LEMMA AccessIs ==
  ASSUME NEW w, NEW d
  PROVE  /\ Major(w) \notin {3, 7, 35, 39, 47} => Access32(w, d) = NoAccess
         /\ Major(w) \in {3, 7, 35, 39} =>
                Access32(w, d) = AccessOf(d.rs1, d.imm, 2^(Funct3(w) % 4))
         /\ Major(w) = 47 => Access32(w, d) = AccessOf(d.rs1, 0, 2^Funct3(w))
<1> DEFINE m == Field(w, 6, 0)
           f == Field(w, 14, 12)
<1>1. Major(w) = m /\ Funct3(w) = f
  BY DEF Major, Funct3
<1>2. /\ m \notin {3, 7, 35, 39, 47} => Access32(w, d) = NoAccess
      /\ m \in {3, 7, 35, 39} => Access32(w, d) = AccessOf(d.rs1, d.imm, 2^(f % 4))
      /\ m = 47 => Access32(w, d) = AccessOf(d.rs1, 0, 2^f)
  <2> HIDE DEF m, f
  <2>1. Access32(w, d) =
          CASE m \in {3, 7, 35, 39} -> AccessOf(d.rs1, d.imm, 2^(f % 4))
            [] m = 47 -> AccessOf(d.rs1, 0, 2^f)
            [] OTHER -> NoAccess
    BY DEF Access32, m, f
  <2>2. QED
    BY <2>1
<1>3. QED
  BY <1>1, <1>2, Zenon

LEMMA AmoAccess ==
  ASSUME NEW w, NEW x, NEW d, d = x, Major(w) = 47
  PROVE  Access32(w, d) = AccessOf(x.rs1, 0, 2^Funct3(w))
  BY AccessIs

LEMMA WritesIs ==
  ASSUME NEW w
  PROVE  /\ Major(w) \in {3, 19, 23, 27, 47, 51, 55, 59} => WritesXreg(w)
         /\ Major(w) = 115 /\ Funct3(w) # 0 => WritesXreg(w)
         /\ Major(w) = 115 /\ Funct3(w) = 0 => ~WritesXreg(w)
         /\ Major(w) = 83 /\ Funct7(w) \in {80, 81, 96, 97, 112, 113} => WritesXreg(w)
         /\ Major(w) = 83 /\ Funct7(w) \notin {80, 81, 96, 97, 112, 113} => ~WritesXreg(w)
         /\ Major(w) \in {7, 15, 35, 39, 67, 71, 75, 79} => ~WritesXreg(w)
  BY DEF WritesXreg, Major, Funct3, Funct7

LEMMA XlenIs ==
  ASSUME NEW op, NEW width \in {32, 64}, SupportsXlen(op, width)
  PROVE  /\ op \in DOMAIN ShiftWType \cup DOMAIN OpWType \cup DOMAIN MulWType
                 \cup DOMAIN AmoDType => width = 64
         /\ op \in {"Lwu", "Ld", "Sd", "Addiw", "FcvtLS", "FcvtLuS", "FcvtSL", "FcvtSLu",
                    "FcvtLD", "FcvtLuD", "FcvtDL", "FcvtDLu", "FmvXD", "FmvDX",
                    "CAddw", "CSubw", "CAddiw", "CLdsp", "CLd", "CSdsp", "CSd"} => width = 64
         /\ op = "CJal" => width = 32
  BY DEF SupportsXlen, Rv64, Names

LEMMA FenceBits ==
  ASSUME NEW op, NEW width, NEW imm, ImmKind[op] = "fence", ValidImmediate(op, width, imm)
  PROVE  imm \in Nat /\ imm < 4096
<1>1. imm \in 0 .. 4095
  BY SMT DEF ValidImmediate
<1>2. QED
  BY <1>1

LEMMA LoadOperand ==
  ASSUME NEW x, x.op \in DOMAIN LoadType
  PROVE  MemoryOperand(x) = AccessOf(x.rs1, x.imm, 2^(Loads[x.op] % 4))
<1>1. x.op \notin DOMAIN AmoType /\ x.op \notin DOMAIN AmoDType
  BY OpcodeTables, ArithmeticTables, AmoTables, SystemTables
<1>2. CASE x.op = "Lb"
  <2>1. Loads[x.op] % 4 = 0
    BY <1>2 DEF Loads
  <2>2. 2^(Loads[x.op] % 4) = 1
    <3>1. 2^0 = 1
      BY PowersAre, SMT
    <3>2. QED
      BY <2>1, <3>1, Zenon
  <2>3. MemoryOperand(x) = AccessOf(x.rs1, x.imm, 1)
    BY <1>1, <1>2 DEF MemoryOperand
  <2>4. QED
    BY <2>2, <2>3
<1>3. CASE x.op = "Lh"
  <2>1. Loads[x.op] % 4 = 1
    BY <1>3 DEF Loads
  <2>2. 2^(Loads[x.op] % 4) = 2
    <3>1. 2^1 = 2
      BY PowersAre, SMT
    <3>2. QED
      BY <2>1, <3>1, Zenon
  <2>3. MemoryOperand(x) = AccessOf(x.rs1, x.imm, 2)
    BY <1>1, <1>3 DEF MemoryOperand
  <2>4. QED
    BY <2>2, <2>3
<1>4. CASE x.op = "Lw"
  <2>1. Loads[x.op] % 4 = 2
    BY <1>4 DEF Loads
  <2>2. 2^(Loads[x.op] % 4) = 4
    <3>1. 2^2 = 4
      BY PowersAre, SMT
    <3>2. QED
      BY <2>1, <3>1, Zenon
  <2>3. MemoryOperand(x) = AccessOf(x.rs1, x.imm, 4)
    BY <1>1, <1>4 DEF MemoryOperand
  <2>4. QED
    BY <2>2, <2>3
<1>5. CASE x.op = "Ld"
  <2>1. Loads[x.op] % 4 = 3
    BY <1>5 DEF Loads
  <2>2. 2^(Loads[x.op] % 4) = 8
    <3>1. 2^3 = 8
      BY PowersAre, SMT
    <3>2. QED
      BY <2>1, <3>1, Zenon
  <2>3. MemoryOperand(x) = AccessOf(x.rs1, x.imm, 8)
    BY <1>1, <1>5 DEF MemoryOperand
  <2>4. QED
    BY <2>2, <2>3
<1>6. CASE x.op = "Lbu"
  <2>1. Loads[x.op] % 4 = 0
    BY <1>6 DEF Loads
  <2>2. 2^(Loads[x.op] % 4) = 1
    <3>1. 2^0 = 1
      BY PowersAre, SMT
    <3>2. QED
      BY <2>1, <3>1, Zenon
  <2>3. MemoryOperand(x) = AccessOf(x.rs1, x.imm, 1)
    BY <1>1, <1>6 DEF MemoryOperand
  <2>4. QED
    BY <2>2, <2>3
<1>7. CASE x.op = "Lhu"
  <2>1. Loads[x.op] % 4 = 1
    BY <1>7 DEF Loads
  <2>2. 2^(Loads[x.op] % 4) = 2
    <3>1. 2^1 = 2
      BY PowersAre, SMT
    <3>2. QED
      BY <2>1, <3>1, Zenon
  <2>3. MemoryOperand(x) = AccessOf(x.rs1, x.imm, 2)
    BY <1>1, <1>7 DEF MemoryOperand
  <2>4. QED
    BY <2>2, <2>3
<1>8. CASE x.op = "Lwu"
  <2>1. Loads[x.op] % 4 = 2
    BY <1>8 DEF Loads
  <2>2. 2^(Loads[x.op] % 4) = 4
    <3>1. 2^2 = 4
      BY PowersAre, SMT
    <3>2. QED
      BY <2>1, <3>1, Zenon
  <2>3. MemoryOperand(x) = AccessOf(x.rs1, x.imm, 4)
    BY <1>1, <1>8 DEF MemoryOperand
  <2>4. QED
    BY <2>2, <2>3
<1>9. QED
  BY <1>2, <1>3, <1>4, <1>5, <1>6, <1>7, <1>8, OpcodeTables, ArithmeticTables, SystemTables

LEMMA FloatLoadOperand ==
  ASSUME NEW x, x.op \in DOMAIN FloatLoadType
  PROVE  MemoryOperand(x) = AccessOf(x.rs1, x.imm, 2^(FloatLoads[x.op] % 4))
<1>1. x.op \notin DOMAIN AmoType /\ x.op \notin DOMAIN AmoDType
  BY OpcodeTables, ArithmeticTables, AmoTables, SystemTables
<1>2. CASE x.op = "Flw"
  <2>1. FloatLoads[x.op] % 4 = 2
    BY <1>2 DEF FloatLoads
  <2>2. 2^(FloatLoads[x.op] % 4) = 4
    <3>1. 2^2 = 4
      BY PowersAre, SMT
    <3>2. QED
      BY <2>1, <3>1, Zenon
  <2>3. MemoryOperand(x) = AccessOf(x.rs1, x.imm, 4)
    BY <1>1, <1>2 DEF MemoryOperand
  <2>4. QED
    BY <2>2, <2>3
<1>3. CASE x.op = "Fld"
  <2>1. FloatLoads[x.op] % 4 = 3
    BY <1>3 DEF FloatLoads
  <2>2. 2^(FloatLoads[x.op] % 4) = 8
    <3>1. 2^3 = 8
      BY PowersAre, SMT
    <3>2. QED
      BY <2>1, <3>1, Zenon
  <2>3. MemoryOperand(x) = AccessOf(x.rs1, x.imm, 8)
    BY <1>1, <1>3 DEF MemoryOperand
  <2>4. QED
    BY <2>2, <2>3
<1>4. QED
  BY <1>2, <1>3, OpcodeTables, ArithmeticTables, SystemTables

LEMMA StoreOperand ==
  ASSUME NEW x, x.op \in DOMAIN StoreType
  PROVE  MemoryOperand(x) = AccessOf(x.rs1, x.imm, 2^(Stores[x.op] % 4))
<1>1. x.op \notin DOMAIN AmoType /\ x.op \notin DOMAIN AmoDType
  BY OpcodeTables, ArithmeticTables, AmoTables, SystemTables
<1>2. CASE x.op = "Sb"
  <2>1. Stores[x.op] % 4 = 0
    BY <1>2 DEF Stores
  <2>2. 2^(Stores[x.op] % 4) = 1
    <3>1. 2^0 = 1
      BY PowersAre, SMT
    <3>2. QED
      BY <2>1, <3>1, Zenon
  <2>3. MemoryOperand(x) = AccessOf(x.rs1, x.imm, 1)
    BY <1>1, <1>2 DEF MemoryOperand
  <2>4. QED
    BY <2>2, <2>3
<1>3. CASE x.op = "Sh"
  <2>1. Stores[x.op] % 4 = 1
    BY <1>3 DEF Stores
  <2>2. 2^(Stores[x.op] % 4) = 2
    <3>1. 2^1 = 2
      BY PowersAre, SMT
    <3>2. QED
      BY <2>1, <3>1, Zenon
  <2>3. MemoryOperand(x) = AccessOf(x.rs1, x.imm, 2)
    BY <1>1, <1>3 DEF MemoryOperand
  <2>4. QED
    BY <2>2, <2>3
<1>4. CASE x.op = "Sw"
  <2>1. Stores[x.op] % 4 = 2
    BY <1>4 DEF Stores
  <2>2. 2^(Stores[x.op] % 4) = 4
    <3>1. 2^2 = 4
      BY PowersAre, SMT
    <3>2. QED
      BY <2>1, <3>1, Zenon
  <2>3. MemoryOperand(x) = AccessOf(x.rs1, x.imm, 4)
    BY <1>1, <1>4 DEF MemoryOperand
  <2>4. QED
    BY <2>2, <2>3
<1>5. CASE x.op = "Sd"
  <2>1. Stores[x.op] % 4 = 3
    BY <1>5 DEF Stores
  <2>2. 2^(Stores[x.op] % 4) = 8
    <3>1. 2^3 = 8
      BY PowersAre, SMT
    <3>2. QED
      BY <2>1, <3>1, Zenon
  <2>3. MemoryOperand(x) = AccessOf(x.rs1, x.imm, 8)
    BY <1>1, <1>5 DEF MemoryOperand
  <2>4. QED
    BY <2>2, <2>3
<1>6. QED
  BY <1>2, <1>3, <1>4, <1>5, OpcodeTables, ArithmeticTables, SystemTables

LEMMA FloatStoreOperand ==
  ASSUME NEW x, x.op \in DOMAIN FloatStoreType
  PROVE  MemoryOperand(x) = AccessOf(x.rs1, x.imm, 2^(FloatStores[x.op] % 4))
<1>1. x.op \notin DOMAIN AmoType /\ x.op \notin DOMAIN AmoDType
  BY OpcodeTables, ArithmeticTables, AmoTables, SystemTables
<1>2. CASE x.op = "Fsw"
  <2>1. FloatStores[x.op] % 4 = 2
    BY <1>2 DEF FloatStores
  <2>2. 2^(FloatStores[x.op] % 4) = 4
    <3>1. 2^2 = 4
      BY PowersAre, SMT
    <3>2. QED
      BY <2>1, <3>1, Zenon
  <2>3. MemoryOperand(x) = AccessOf(x.rs1, x.imm, 4)
    BY <1>1, <1>2 DEF MemoryOperand
  <2>4. QED
    BY <2>2, <2>3
<1>3. CASE x.op = "Fsd"
  <2>1. FloatStores[x.op] % 4 = 3
    BY <1>3 DEF FloatStores
  <2>2. 2^(FloatStores[x.op] % 4) = 8
    <3>1. 2^3 = 8
      BY PowersAre, SMT
    <3>2. QED
      BY <2>1, <3>1, Zenon
  <2>3. MemoryOperand(x) = AccessOf(x.rs1, x.imm, 8)
    BY <1>1, <1>3 DEF MemoryOperand
  <2>4. QED
    BY <2>2, <2>3
<1>4. QED
  BY <1>2, <1>3, OpcodeTables, ArithmeticTables, SystemTables

LEMMA AmoOperand ==
  ASSUME NEW x
  PROVE  /\ x.op \in DOMAIN AmoType => MemoryOperand(x) = AccessOf(Rs1(Packed(x)), 0, 2^2)
         /\ x.op \in DOMAIN AmoDType => MemoryOperand(x) = AccessOf(Rs1(Packed(x)), 0, 2^3)
<1>1. 2^2 = 4 /\ 2^3 = 8
  BY PowersAre
<1>2. x.op \in DOMAIN AmoDType => x.op \notin DOMAIN AmoType
  BY AmoTables
<1>3. /\ x.op \in DOMAIN AmoType \cup DOMAIN AmoDType =>
            /\ x.op \notin {"Lb", "Lbu", "Sb"} /\ x.op \notin {"Lh", "Lhu", "Sh"}
            /\ x.op \notin {"Lw", "Lwu", "Sw", "Flw", "Fsw", "CLw", "CSw"}
            /\ x.op \notin {"Ld", "Sd", "Fld", "Fsd", "CLd", "CSd"}
            /\ x.op \notin {"CLwsp", "CSwsp"} /\ x.op \notin {"CLdsp", "CSdsp"}
  BY AmoTables
<1> DEFINE b == Rs1(Packed(x))
<1>4. AmoBase(Packed(x)) = b
  BY DEF AmoBase, Rs1
<1> HIDE DEF b
<1>5. x.op \in DOMAIN AmoType => MemoryOperand(x) = AccessOf(b, 0, 4)
  BY <1>2, <1>3, <1>4 DEF MemoryOperand
<1>6. x.op \in DOMAIN AmoDType => MemoryOperand(x) = AccessOf(b, 0, 8)
  BY <1>2, <1>3, <1>4 DEF MemoryOperand
<1>7. QED
  BY <1>1, <1>5, <1>6, Zenon DEF b

LEMMA NoOperand ==
  ASSUME NEW x, x.op \in Names({UType, JType, BType, JalrType, ImmType, ShiftType, ShiftWType, OpType, OpWType, MulType, MulWType, CsrType, CsrImmType, FenceType, VmaType, PlainType, FloatTernaryType, FloatBinaryType, FloatUnaryType, FloatSelectType, FloatCompareType, FloatToIntType, IntToFloatType, FloatToBitsType, BitsToFloatType})
  PROVE  MemoryOperand(x) = NoAccess
<1>1. x.op \in DOMAIN UType => MemoryOperand(x) = NoAccess
  BY OpcodeTables, ArithmeticTables, AmoTables, SystemTables, FloatTables,
     CompressedTables DEF MemoryOperand
<1>2. x.op \in DOMAIN JType => MemoryOperand(x) = NoAccess
  BY OpcodeTables, ArithmeticTables, AmoTables, SystemTables, FloatTables,
     CompressedTables DEF MemoryOperand
<1>3. x.op \in DOMAIN BType => MemoryOperand(x) = NoAccess
  BY OpcodeTables, ArithmeticTables, AmoTables, SystemTables, FloatTables,
     CompressedTables DEF MemoryOperand
<1>4. x.op \in DOMAIN JalrType => MemoryOperand(x) = NoAccess
  BY OpcodeTables, ArithmeticTables, AmoTables, SystemTables, FloatTables,
     CompressedTables DEF MemoryOperand
<1>5. x.op \in DOMAIN ImmType => MemoryOperand(x) = NoAccess
  BY OpcodeTables, ArithmeticTables, AmoTables, SystemTables, FloatTables,
     CompressedTables DEF MemoryOperand
<1>6. x.op \in DOMAIN ShiftType => MemoryOperand(x) = NoAccess
  BY OpcodeTables, ArithmeticTables, AmoTables, SystemTables, FloatTables,
     CompressedTables DEF MemoryOperand
<1>7. x.op \in DOMAIN ShiftWType => MemoryOperand(x) = NoAccess
  BY OpcodeTables, ArithmeticTables, AmoTables, SystemTables, FloatTables,
     CompressedTables DEF MemoryOperand
<1>8. x.op \in DOMAIN OpType => MemoryOperand(x) = NoAccess
  BY OpcodeTables, ArithmeticTables, AmoTables, SystemTables, FloatTables,
     CompressedTables DEF MemoryOperand
<1>9. x.op \in DOMAIN OpWType => MemoryOperand(x) = NoAccess
  BY OpcodeTables, ArithmeticTables, AmoTables, SystemTables, FloatTables,
     CompressedTables DEF MemoryOperand
<1>10. x.op \in DOMAIN MulType => MemoryOperand(x) = NoAccess
  BY OpcodeTables, ArithmeticTables, AmoTables, SystemTables, FloatTables,
     CompressedTables DEF MemoryOperand
<1>11. x.op \in DOMAIN MulWType => MemoryOperand(x) = NoAccess
  BY OpcodeTables, ArithmeticTables, AmoTables, SystemTables, FloatTables,
     CompressedTables DEF MemoryOperand
<1>12. x.op \in DOMAIN CsrType => MemoryOperand(x) = NoAccess
  BY OpcodeTables, ArithmeticTables, AmoTables, SystemTables, FloatTables,
     CompressedTables DEF MemoryOperand
<1>13. x.op \in DOMAIN CsrImmType => MemoryOperand(x) = NoAccess
  BY OpcodeTables, ArithmeticTables, AmoTables, SystemTables, FloatTables,
     CompressedTables DEF MemoryOperand
<1>14. x.op \in DOMAIN FenceType => MemoryOperand(x) = NoAccess
  BY OpcodeTables, ArithmeticTables, AmoTables, SystemTables, FloatTables,
     CompressedTables DEF MemoryOperand
<1>15. x.op \in DOMAIN VmaType => MemoryOperand(x) = NoAccess
  BY OpcodeTables, ArithmeticTables, AmoTables, SystemTables, FloatTables,
     CompressedTables DEF MemoryOperand
<1>16. x.op \in DOMAIN PlainType => MemoryOperand(x) = NoAccess
  BY OpcodeTables, ArithmeticTables, AmoTables, SystemTables, FloatTables,
     CompressedTables DEF MemoryOperand
<1>17. x.op \in DOMAIN FloatTernaryType => MemoryOperand(x) = NoAccess
  BY OpcodeTables, ArithmeticTables, AmoTables, SystemTables, FloatTables,
     CompressedTables DEF MemoryOperand
<1>18. x.op \in DOMAIN FloatBinaryType => MemoryOperand(x) = NoAccess
  BY OpcodeTables, ArithmeticTables, AmoTables, SystemTables, FloatTables,
     CompressedTables DEF MemoryOperand
<1>19. x.op \in DOMAIN FloatUnaryType => MemoryOperand(x) = NoAccess
  BY OpcodeTables, ArithmeticTables, AmoTables, SystemTables, FloatTables,
     CompressedTables DEF MemoryOperand
<1>20. x.op \in DOMAIN FloatSelectType => MemoryOperand(x) = NoAccess
  BY OpcodeTables, ArithmeticTables, AmoTables, SystemTables, FloatTables,
     CompressedTables DEF MemoryOperand
<1>21. x.op \in DOMAIN FloatCompareType => MemoryOperand(x) = NoAccess
  BY OpcodeTables, ArithmeticTables, AmoTables, SystemTables, FloatTables,
     CompressedTables DEF MemoryOperand
<1>22. x.op \in DOMAIN FloatToIntType => MemoryOperand(x) = NoAccess
  BY OpcodeTables, ArithmeticTables, AmoTables, SystemTables, FloatTables,
     CompressedTables DEF MemoryOperand
<1>23. x.op \in DOMAIN IntToFloatType => MemoryOperand(x) = NoAccess
  BY OpcodeTables, ArithmeticTables, AmoTables, SystemTables, FloatTables,
     CompressedTables DEF MemoryOperand
<1>24. x.op \in DOMAIN FloatToBitsType => MemoryOperand(x) = NoAccess
  BY OpcodeTables, ArithmeticTables, AmoTables, SystemTables, FloatTables,
     CompressedTables DEF MemoryOperand
<1>25. x.op \in DOMAIN BitsToFloatType => MemoryOperand(x) = NoAccess
  BY OpcodeTables, ArithmeticTables, AmoTables, SystemTables, FloatTables,
     CompressedTables DEF MemoryOperand
<1>26. QED
  BY <1>1, <1>2, <1>3, <1>4, <1>5, <1>6, <1>7, <1>8, <1>9, <1>10, <1>11, <1>12, <1>13, <1>14, <1>15, <1>16, <1>17, <1>18, <1>19, <1>20, <1>21, <1>22, <1>23, <1>24, <1>25 DEF Names

LEMMA LoadUnderstood ==
  ASSUME NEW x, Shaped(x), x.op \in DOMAIN LoadType, NEW width \in {32, 64},
         SupportsXlen(x.op, width), Valid(x, width)
  PROVE  Understood(x, width) /\ Tracked(x)
<1> DEFINE w == Packed(x)
<1>1. /\ x.op \in DOMAIN LoadType /\ x.op \in DOMAIN LoadType
      /\ x.op \in Opcodes
  BY OpcodeTables, ArithmeticTables, AmoTables, SystemTables, FloatTables,
       CompressedTables DEF Shaped
<1>2. /\ RegisterFields[x.op] = {"rd", "rs1"}
      /\ OtherFields[x.op] = {}
      /\ ImmKind[x.op] = "i32" /\ Bounds(x.op, width) = Limits(-2048, 2047, 1)
  BY <1>1, LoadRow
<1>3. /\ x.rd \in Nat /\ x.rd < 32 /\ x.rs1 \in Nat /\ x.rs1 < 32
      /\ x.rs2 \in Nat /\ x.rs2 < 32 /\ x.rs3 \in Nat /\ x.rs3 < 32
      /\ x.rs2 = 0
      /\ x.rs3 = 0
      /\ x.imm \in Int
  BY <1>2 DEF Shaped
<1>4. -2048 <= x.imm /\ x.imm <= 2047
  <2>1. ValidImmediate(x.op, width, x.imm)
    BY DEF Valid
  <2>2. QED
    BY <1>2, <2>1, <1>3 DEF ValidImmediate, Limits
<1>5. width = 32 => x.op \notin {"Lwu", "Ld"}
  BY XlenIs, OpcodeTables, ArithmeticTables, AmoTables, SystemTables, FloatTables,
       CompressedTables
<1>6. w = PackI(LoadType[x.op], x.rd, x.rs1, BitsOf(x.imm))
  BY <1>1, <1>3, <1>4, <1>5, PackedIs
<1> HIDE DEF w
<1>7. /\ Decoded32(w, width) = Instr(x.op, x.rd, x.rs1, 0, x.imm)
      /\ Major(w) = 3
      /\ Funct3(w) = Loads[x.op]
      /\ Rd(w) = x.rd
  BY <1>1, <1>3, <1>4, <1>5, <1>6, LoadDecodes
<1>8. x = Instr(x.op, x.rd, x.rs1, 0, x.imm)
  BY <1>1, <1>3, <1>4, <1>5, ShapedIs
<1>9. Canonical(x) = x
  BY <1>1, CanonicalIs, OpcodeTables, ArithmeticTables, AmoTables, SystemTables, FloatTables,
       CompressedTables
<1>10. MemoryOperand(x) = AccessOf(x.rs1, x.imm, 2^(Funct3(w) % 4))
  BY <1>1, <1>7, LoadOperand
<1>11. Access32(w, Canonical(x)) = AccessOf(x.rs1, x.imm, 2^(Funct3(w) % 4))
  BY <1>7, <1>9, AccessIs
<1>12. Understood(x, width)
  <2>1. Major(w) % 4 = 3
    BY <1>7
  <2>2. Decoded32(w, width) = Canonical(x)
    BY <1>7, <1>8, <1>9
  <2>3. Access32(w, Canonical(x)) = MemoryOperand(x)
    BY <1>10, <1>11
  <2>4. QED
    BY <2>1, <2>2, <2>3 DEF Understood, w
<1>13. WritesXreg(w) /\ Rd(w) = x.rd
  BY <1>7, WritesIs
<1>14. Tracked(x)
  BY <1>2, <1>13 DEF Tracked, w
<1>15. QED
  BY <1>12, <1>14

LEMMA FloatLoadUnderstood ==
  ASSUME NEW x, Shaped(x), x.op \in DOMAIN FloatLoadType, NEW width \in {32, 64},
         SupportsXlen(x.op, width), Valid(x, width)
  PROVE  Understood(x, width) /\ Tracked(x)
<1> DEFINE w == Packed(x)
<1>1. /\ x.op \in DOMAIN FloatLoadType /\ x.op \in DOMAIN FloatLoadType
      /\ x.op \in Opcodes
  BY OpcodeTables, ArithmeticTables, AmoTables, SystemTables, FloatTables,
       CompressedTables DEF Shaped
<1>2. /\ RegisterFields[x.op] = {"rd", "rs1"}
      /\ OtherFields[x.op] = {"rd"}
      /\ ImmKind[x.op] = "i32" /\ Bounds(x.op, width) = Limits(-2048, 2047, 1)
  BY <1>1, FloatLoadRow
<1>3. /\ x.rd \in Nat /\ x.rd < 32 /\ x.rs1 \in Nat /\ x.rs1 < 32
      /\ x.rs2 \in Nat /\ x.rs2 < 32 /\ x.rs3 \in Nat /\ x.rs3 < 32
      /\ x.rs2 = 0
      /\ x.rs3 = 0
      /\ x.imm \in Int
  BY <1>2 DEF Shaped
<1>4. -2048 <= x.imm /\ x.imm <= 2047
  <2>1. ValidImmediate(x.op, width, x.imm)
    BY DEF Valid
  <2>2. QED
    BY <1>2, <2>1, <1>3 DEF ValidImmediate, Limits
<1>5. w = PackI(FloatLoadType[x.op], x.rd, x.rs1, BitsOf(x.imm))
  BY <1>1, <1>3, <1>4, PackedIs
<1> HIDE DEF w
<1>6. /\ Decoded32(w, width) = Instr(x.op, x.rd, x.rs1, 0, x.imm)
      /\ Major(w) = 7
      /\ Funct3(w) = FloatLoads[x.op]
  BY <1>1, <1>3, <1>4, <1>5, FloatLoadDecodes
<1>7. x = Instr(x.op, x.rd, x.rs1, 0, x.imm)
  BY <1>1, <1>3, <1>4, ShapedIs
<1>8. Canonical(x) = x
  BY <1>1, CanonicalIs, OpcodeTables, ArithmeticTables, AmoTables, SystemTables, FloatTables,
       CompressedTables
<1>9. MemoryOperand(x) = AccessOf(x.rs1, x.imm, 2^(Funct3(w) % 4))
  BY <1>1, <1>6, FloatLoadOperand
<1>10. Access32(w, Canonical(x)) = AccessOf(x.rs1, x.imm, 2^(Funct3(w) % 4))
  BY <1>6, <1>8, AccessIs
<1>11. Understood(x, width)
  <2>1. Major(w) % 4 = 3
    BY <1>6
  <2>2. Decoded32(w, width) = Canonical(x)
    BY <1>6, <1>7, <1>8
  <2>3. Access32(w, Canonical(x)) = MemoryOperand(x)
    BY <1>9, <1>10
  <2>4. QED
    BY <2>1, <2>2, <2>3 DEF Understood, w
<1>12. ~WritesXreg(w)
  BY <1>6, WritesIs
<1>13. Tracked(x)
  BY <1>2, <1>12 DEF Tracked, w
<1>14. QED
  BY <1>11, <1>13

LEMMA StoreUnderstood ==
  ASSUME NEW x, Shaped(x), x.op \in DOMAIN StoreType, NEW width \in {32, 64},
         SupportsXlen(x.op, width), Valid(x, width)
  PROVE  Understood(x, width) /\ Tracked(x)
<1> DEFINE w == Packed(x)
<1>1. /\ x.op \in DOMAIN StoreType /\ x.op \in DOMAIN StoreType
      /\ x.op \in Opcodes
  BY OpcodeTables, ArithmeticTables, AmoTables, SystemTables, FloatTables,
       CompressedTables DEF Shaped
<1>2. /\ RegisterFields[x.op] = {"rs1", "rs2"}
      /\ OtherFields[x.op] = {}
      /\ ImmKind[x.op] = "i32" /\ Bounds(x.op, width) = Limits(-2048, 2047, 1)
  BY <1>1, StoreRow
<1>3. /\ x.rd \in Nat /\ x.rd < 32 /\ x.rs1 \in Nat /\ x.rs1 < 32
      /\ x.rs2 \in Nat /\ x.rs2 < 32 /\ x.rs3 \in Nat /\ x.rs3 < 32
      /\ x.rd = 0
      /\ x.rs3 = 0
      /\ x.imm \in Int
  BY <1>2 DEF Shaped
<1>4. -2048 <= x.imm /\ x.imm <= 2047
  <2>1. ValidImmediate(x.op, width, x.imm)
    BY DEF Valid
  <2>2. QED
    BY <1>2, <2>1, <1>3 DEF ValidImmediate, Limits
<1>5. width = 32 => x.op \notin {"Sd"}
  BY XlenIs, OpcodeTables, ArithmeticTables, AmoTables, SystemTables, FloatTables,
       CompressedTables
<1>6. w = PackS(StoreType[x.op], x.rs1, x.rs2, BitsOf(x.imm))
  BY <1>1, <1>3, <1>4, <1>5, PackedIs
<1> HIDE DEF w
<1>7. /\ Decoded32(w, width) = Instr(x.op, 0, x.rs1, x.rs2, x.imm)
      /\ Major(w) = 35
      /\ Funct3(w) = Stores[x.op]
  BY <1>1, <1>3, <1>4, <1>5, <1>6, StoreDecodes
<1>8. x = Instr(x.op, 0, x.rs1, x.rs2, x.imm)
  BY <1>1, <1>3, <1>4, <1>5, ShapedIs
<1>9. Canonical(x) = x
  BY <1>1, CanonicalIs, OpcodeTables, ArithmeticTables, AmoTables, SystemTables, FloatTables,
       CompressedTables
<1>10. MemoryOperand(x) = AccessOf(x.rs1, x.imm, 2^(Funct3(w) % 4))
  BY <1>1, <1>7, StoreOperand
<1>11. Access32(w, Canonical(x)) = AccessOf(x.rs1, x.imm, 2^(Funct3(w) % 4))
  BY <1>7, <1>9, AccessIs
<1>12. Understood(x, width)
  <2>1. Major(w) % 4 = 3
    BY <1>7
  <2>2. Decoded32(w, width) = Canonical(x)
    BY <1>7, <1>8, <1>9
  <2>3. Access32(w, Canonical(x)) = MemoryOperand(x)
    BY <1>10, <1>11
  <2>4. QED
    BY <2>1, <2>2, <2>3 DEF Understood, w
<1>13. ~WritesXreg(w)
  BY <1>7, WritesIs
<1>14. Tracked(x)
  BY <1>2, <1>13 DEF Tracked, w
<1>15. QED
  BY <1>12, <1>14

LEMMA FloatStoreUnderstood ==
  ASSUME NEW x, Shaped(x), x.op \in DOMAIN FloatStoreType, NEW width \in {32, 64},
         SupportsXlen(x.op, width), Valid(x, width)
  PROVE  Understood(x, width) /\ Tracked(x)
<1> DEFINE w == Packed(x)
<1>1. /\ x.op \in DOMAIN FloatStoreType /\ x.op \in DOMAIN FloatStoreType
      /\ x.op \in Opcodes
  BY OpcodeTables, ArithmeticTables, AmoTables, SystemTables, FloatTables,
       CompressedTables DEF Shaped
<1>2. /\ RegisterFields[x.op] = {"rs1", "rs2"}
      /\ OtherFields[x.op] = {"rs2"}
      /\ ImmKind[x.op] = "i32" /\ Bounds(x.op, width) = Limits(-2048, 2047, 1)
  BY <1>1, FloatStoreRow
<1>3. /\ x.rd \in Nat /\ x.rd < 32 /\ x.rs1 \in Nat /\ x.rs1 < 32
      /\ x.rs2 \in Nat /\ x.rs2 < 32 /\ x.rs3 \in Nat /\ x.rs3 < 32
      /\ x.rd = 0
      /\ x.rs3 = 0
      /\ x.imm \in Int
  BY <1>2 DEF Shaped
<1>4. -2048 <= x.imm /\ x.imm <= 2047
  <2>1. ValidImmediate(x.op, width, x.imm)
    BY DEF Valid
  <2>2. QED
    BY <1>2, <2>1, <1>3 DEF ValidImmediate, Limits
<1>5. w = PackS(FloatStoreType[x.op], x.rs1, x.rs2, BitsOf(x.imm))
  BY <1>1, <1>3, <1>4, PackedIs
<1> HIDE DEF w
<1>6. /\ Decoded32(w, width) = Instr(x.op, 0, x.rs1, x.rs2, x.imm)
      /\ Major(w) = 39
      /\ Funct3(w) = FloatStores[x.op]
  BY <1>1, <1>3, <1>4, <1>5, FloatStoreDecodes
<1>7. x = Instr(x.op, 0, x.rs1, x.rs2, x.imm)
  BY <1>1, <1>3, <1>4, ShapedIs
<1>8. Canonical(x) = x
  BY <1>1, CanonicalIs, OpcodeTables, ArithmeticTables, AmoTables, SystemTables, FloatTables,
       CompressedTables
<1>9. MemoryOperand(x) = AccessOf(x.rs1, x.imm, 2^(Funct3(w) % 4))
  BY <1>1, <1>6, FloatStoreOperand
<1>10. Access32(w, Canonical(x)) = AccessOf(x.rs1, x.imm, 2^(Funct3(w) % 4))
  BY <1>6, <1>8, AccessIs
<1>11. Understood(x, width)
  <2>1. Major(w) % 4 = 3
    BY <1>6
  <2>2. Decoded32(w, width) = Canonical(x)
    BY <1>6, <1>7, <1>8
  <2>3. Access32(w, Canonical(x)) = MemoryOperand(x)
    BY <1>9, <1>10
  <2>4. QED
    BY <2>1, <2>2, <2>3 DEF Understood, w
<1>12. ~WritesXreg(w)
  BY <1>6, WritesIs
<1>13. Tracked(x)
  BY <1>2, <1>12 DEF Tracked, w
<1>14. QED
  BY <1>11, <1>13

LEMMA ImmUnderstood ==
  ASSUME NEW x, Shaped(x), x.op \in DOMAIN ImmType \ {"Addiw"}, NEW width \in {32, 64},
         SupportsXlen(x.op, width), Valid(x, width)
  PROVE  Understood(x, width) /\ Tracked(x)
<1> DEFINE w == Packed(x)
<1>1. /\ x.op \in DOMAIN ImmType \ {"Addiw"} /\ x.op \in DOMAIN ImmType
      /\ x.op \in Opcodes
  BY OpcodeTables, ArithmeticTables, AmoTables, SystemTables, FloatTables,
       CompressedTables DEF Shaped
<1>2. /\ RegisterFields[x.op] = {"rd", "rs1"}
      /\ OtherFields[x.op] = {}
      /\ ImmKind[x.op] = "i32" /\ Bounds(x.op, width) = Limits(-2048, 2047, 1)
  BY <1>1, ImmRow
<1>3. /\ x.rd \in Nat /\ x.rd < 32 /\ x.rs1 \in Nat /\ x.rs1 < 32
      /\ x.rs2 \in Nat /\ x.rs2 < 32 /\ x.rs3 \in Nat /\ x.rs3 < 32
      /\ x.rs2 = 0
      /\ x.rs3 = 0
      /\ x.imm \in Int
  BY <1>2 DEF Shaped
<1>4. -2048 <= x.imm /\ x.imm <= 2047
  <2>1. ValidImmediate(x.op, width, x.imm)
    BY DEF Valid
  <2>2. QED
    BY <1>2, <2>1, <1>3 DEF ValidImmediate, Limits
<1>5. w = PackI(ImmType[x.op], x.rd, x.rs1, BitsOf(x.imm))
  BY <1>1, <1>3, <1>4, PackedIs
<1> HIDE DEF w
<1>6. /\ Decoded32(w, width) = Instr(x.op, x.rd, x.rs1, 0, x.imm)
      /\ Major(w) = 19
      /\ Rd(w) = x.rd
  BY <1>1, <1>3, <1>4, <1>5, ImmDecodes
<1>7. x = Instr(x.op, x.rd, x.rs1, 0, x.imm)
  BY <1>1, <1>3, <1>4, ShapedIs
<1>8. Canonical(x) = x
  BY <1>1, CanonicalIs, OpcodeTables, ArithmeticTables, AmoTables, SystemTables, FloatTables,
       CompressedTables
<1>9. MemoryOperand(x) = NoAccess
  BY <1>1, NoOperand DEF Names
<1>10. Access32(w, Canonical(x)) = NoAccess
  BY <1>6, AccessIs
<1>11. Understood(x, width)
  <2>1. Major(w) % 4 = 3
    BY <1>6
  <2>2. Decoded32(w, width) = Canonical(x)
    BY <1>6, <1>7, <1>8
  <2>3. Access32(w, Canonical(x)) = MemoryOperand(x)
    BY <1>9, <1>10
  <2>4. QED
    BY <2>1, <2>2, <2>3 DEF Understood, w
<1>12. WritesXreg(w) /\ Rd(w) = x.rd
  BY <1>6, WritesIs
<1>13. Tracked(x)
  BY <1>2, <1>12 DEF Tracked, w
<1>14. QED
  BY <1>11, <1>13

LEMMA AddiwUnderstood ==
  ASSUME NEW x, Shaped(x), x.op \in {"Addiw"}, NEW width \in {32, 64},
         SupportsXlen(x.op, width), Valid(x, width)
  PROVE  Understood(x, width) /\ Tracked(x)
<1> DEFINE w == Packed(x)
<1>1. /\ x.op \in {"Addiw"} /\ x.op \in DOMAIN ImmType
      /\ x.op \in Opcodes
  BY OpcodeTables, ArithmeticTables, AmoTables, SystemTables, FloatTables,
       CompressedTables DEF Shaped
<1>2. /\ RegisterFields[x.op] = {"rd", "rs1"}
      /\ OtherFields[x.op] = {}
      /\ ImmKind[x.op] = "i32" /\ Bounds(x.op, width) = Limits(-2048, 2047, 1)
  BY <1>1, ImmRow
<1>3. /\ x.rd \in Nat /\ x.rd < 32 /\ x.rs1 \in Nat /\ x.rs1 < 32
      /\ x.rs2 \in Nat /\ x.rs2 < 32 /\ x.rs3 \in Nat /\ x.rs3 < 32
      /\ x.rs2 = 0
      /\ x.rs3 = 0
      /\ x.imm \in Int
  BY <1>2 DEF Shaped
<1>4. -2048 <= x.imm /\ x.imm <= 2047
  <2>1. ValidImmediate(x.op, width, x.imm)
    BY DEF Valid
  <2>2. QED
    BY <1>2, <2>1, <1>3 DEF ValidImmediate, Limits
<1>5. width = 64
  BY XlenIs, OpcodeTables, ArithmeticTables, AmoTables, SystemTables, FloatTables,
       CompressedTables
<1>6. w = PackI(ImmType["Addiw"], x.rd, x.rs1, BitsOf(x.imm))
  BY <1>1, <1>3, <1>4, <1>5, PackedIs
<1> HIDE DEF w
<1>7. /\ Decoded32(w, width) = Instr("Addiw", x.rd, x.rs1, 0, x.imm)
      /\ Major(w) = 27
      /\ Rd(w) = x.rd
  BY <1>1, <1>3, <1>4, <1>5, <1>6, AddiwDecodes
<1>8. x = Instr("Addiw", x.rd, x.rs1, 0, x.imm)
  BY <1>1, <1>3, <1>4, <1>5, ShapedIs
<1>9. Canonical(x) = x
  BY <1>1, CanonicalIs, OpcodeTables, ArithmeticTables, AmoTables, SystemTables, FloatTables,
       CompressedTables
<1>10. MemoryOperand(x) = NoAccess
  BY <1>1, NoOperand DEF Names
<1>11. Access32(w, Canonical(x)) = NoAccess
  BY <1>7, AccessIs
<1>12. Understood(x, width)
  <2>1. Major(w) % 4 = 3
    BY <1>7
  <2>2. Decoded32(w, width) = Canonical(x)
    BY <1>7, <1>8, <1>9
  <2>3. Access32(w, Canonical(x)) = MemoryOperand(x)
    BY <1>10, <1>11
  <2>4. QED
    BY <2>1, <2>2, <2>3 DEF Understood, w
<1>13. WritesXreg(w) /\ Rd(w) = x.rd
  BY <1>7, WritesIs
<1>14. Tracked(x)
  BY <1>2, <1>13 DEF Tracked, w
<1>15. QED
  BY <1>12, <1>14

LEMMA JalrUnderstood ==
  ASSUME NEW x, Shaped(x), x.op \in {"Jalr"}, NEW width \in {32, 64},
         SupportsXlen(x.op, width), Valid(x, width)
  PROVE  Understood(x, width)
<1> DEFINE w == Packed(x)
<1>1. /\ x.op \in {"Jalr"} /\ x.op \in DOMAIN JalrType
      /\ x.op \in Opcodes
  BY OpcodeTables, ArithmeticTables, AmoTables, SystemTables, FloatTables,
       CompressedTables DEF Shaped
<1>2. /\ RegisterFields[x.op] = {"rd", "rs1"}
      /\ OtherFields[x.op] = {}
      /\ ImmKind[x.op] = "i32" /\ Bounds(x.op, width) = Limits(-2048, 2047, 1)
  BY <1>1, JalrRow
<1>3. /\ x.rd \in Nat /\ x.rd < 32 /\ x.rs1 \in Nat /\ x.rs1 < 32
      /\ x.rs2 \in Nat /\ x.rs2 < 32 /\ x.rs3 \in Nat /\ x.rs3 < 32
      /\ x.rs2 = 0
      /\ x.rs3 = 0
      /\ x.imm \in Int
  BY <1>2 DEF Shaped
<1>4. -2048 <= x.imm /\ x.imm <= 2047
  <2>1. ValidImmediate(x.op, width, x.imm)
    BY DEF Valid
  <2>2. QED
    BY <1>2, <2>1, <1>3 DEF ValidImmediate, Limits
<1>5. w = PackI(JalrType["Jalr"], x.rd, x.rs1, BitsOf(x.imm))
  BY <1>1, <1>3, <1>4, PackedIs
<1> HIDE DEF w
<1>6. /\ Decoded32(w, width) = Instr("Jalr", x.rd, x.rs1, 0, x.imm)
      /\ Major(w) = 103
  BY <1>1, <1>3, <1>4, <1>5, JalrDecodes
<1>7. x = Instr("Jalr", x.rd, x.rs1, 0, x.imm)
  BY <1>1, <1>3, <1>4, ShapedIs
<1>8. Canonical(x) = x
  BY <1>1, CanonicalIs, OpcodeTables, ArithmeticTables, AmoTables, SystemTables, FloatTables,
       CompressedTables
<1>9. MemoryOperand(x) = NoAccess
  BY <1>1, NoOperand DEF Names
<1>10. Access32(w, Canonical(x)) = NoAccess
  BY <1>6, AccessIs
<1>11. Understood(x, width)
  <2>1. Major(w) % 4 = 3
    BY <1>6
  <2>2. Decoded32(w, width) = Canonical(x)
    BY <1>6, <1>7, <1>8
  <2>3. Access32(w, Canonical(x)) = MemoryOperand(x)
    BY <1>9, <1>10
  <2>4. QED
    BY <2>1, <2>2, <2>3 DEF Understood, w
<1>12. QED
  BY <1>11

LEMMA BranchUnderstood ==
  ASSUME NEW x, Shaped(x), x.op \in DOMAIN BType, NEW width \in {32, 64},
         SupportsXlen(x.op, width), Valid(x, width)
  PROVE  Understood(x, width)
<1> DEFINE w == Packed(x)
<1>1. /\ x.op \in DOMAIN BType /\ x.op \in DOMAIN BType
      /\ x.op \in Opcodes
  BY OpcodeTables, ArithmeticTables, AmoTables, SystemTables, FloatTables,
       CompressedTables DEF Shaped
<1>2. /\ RegisterFields[x.op] = {"rs1", "rs2"}
      /\ OtherFields[x.op] = {}
      /\ ImmKind[x.op] = "i32" /\ Bounds(x.op, width) = Limits(-4096, 4094, 2)
  BY <1>1, BRow
<1>3. /\ x.rd \in Nat /\ x.rd < 32 /\ x.rs1 \in Nat /\ x.rs1 < 32
      /\ x.rs2 \in Nat /\ x.rs2 < 32 /\ x.rs3 \in Nat /\ x.rs3 < 32
      /\ x.rd = 0
      /\ x.rs3 = 0
      /\ x.imm \in Int
  BY <1>2 DEF Shaped
<1>4. -4096 <= x.imm /\ x.imm <= 4094 /\ x.imm % 2 = 0
  <2>1. ValidImmediate(x.op, width, x.imm)
    BY DEF Valid
  <2>2. QED
    BY <1>2, <2>1, <1>3 DEF ValidImmediate, Limits
<1>5. w = PackB(BType[x.op], x.rs1, x.rs2, BitsOf(x.imm))
  BY <1>1, <1>3, <1>4, PackedIs
<1> HIDE DEF w
<1>6. /\ Decoded32(w, width) = Instr(x.op, 0, x.rs1, x.rs2, x.imm)
      /\ Major(w) = 99
  BY <1>1, <1>3, <1>4, <1>5, BranchDecodes
<1>7. x = Instr(x.op, 0, x.rs1, x.rs2, x.imm)
  BY <1>1, <1>3, <1>4, ShapedIs
<1>8. Canonical(x) = x
  BY <1>1, CanonicalIs, OpcodeTables, ArithmeticTables, AmoTables, SystemTables, FloatTables,
       CompressedTables
<1>9. MemoryOperand(x) = NoAccess
  BY <1>1, NoOperand DEF Names
<1>10. Access32(w, Canonical(x)) = NoAccess
  BY <1>6, AccessIs
<1>11. Understood(x, width)
  <2>1. Major(w) % 4 = 3
    BY <1>6
  <2>2. Decoded32(w, width) = Canonical(x)
    BY <1>6, <1>7, <1>8
  <2>3. Access32(w, Canonical(x)) = MemoryOperand(x)
    BY <1>9, <1>10
  <2>4. QED
    BY <2>1, <2>2, <2>3 DEF Understood, w
<1>12. QED
  BY <1>11

LEMMA JalUnderstood ==
  ASSUME NEW x, Shaped(x), x.op \in {"Jal"}, NEW width \in {32, 64},
         SupportsXlen(x.op, width), Valid(x, width)
  PROVE  Understood(x, width)
<1> DEFINE w == Packed(x)
<1>1. /\ x.op \in {"Jal"} /\ x.op \in DOMAIN JType
      /\ x.op \in Opcodes
  BY OpcodeTables, ArithmeticTables, AmoTables, SystemTables, FloatTables,
       CompressedTables DEF Shaped
<1>2. /\ RegisterFields[x.op] = {"rd"}
      /\ OtherFields[x.op] = {}
      /\ ImmKind[x.op] = "i32" /\ Bounds(x.op, width) = Limits(-1048576, 1048574, 2)
  BY <1>1, JRow
<1>3. /\ x.rd \in Nat /\ x.rd < 32 /\ x.rs1 \in Nat /\ x.rs1 < 32
      /\ x.rs2 \in Nat /\ x.rs2 < 32 /\ x.rs3 \in Nat /\ x.rs3 < 32
      /\ x.rs1 = 0
      /\ x.rs2 = 0
      /\ x.rs3 = 0
      /\ x.imm \in Int
  BY <1>2 DEF Shaped
<1>4. -1048576 <= x.imm /\ x.imm <= 1048574 /\ x.imm % 2 = 0
  <2>1. ValidImmediate(x.op, width, x.imm)
    BY DEF Valid
  <2>2. QED
    BY <1>2, <2>1, <1>3 DEF ValidImmediate, Limits
<1>5. w = PackJ(JType["Jal"], x.rd, BitsOf(x.imm))
  BY <1>1, <1>3, <1>4, PackedIs
<1> HIDE DEF w
<1>6. /\ Decoded32(w, width) = Instr("Jal", x.rd, 0, 0, x.imm)
      /\ Major(w) = 111
  BY <1>1, <1>3, <1>4, <1>5, JalDecodes
<1>7. x = Instr("Jal", x.rd, 0, 0, x.imm)
  BY <1>1, <1>3, <1>4, ShapedIs
<1>8. Canonical(x) = x
  BY <1>1, CanonicalIs, OpcodeTables, ArithmeticTables, AmoTables, SystemTables, FloatTables,
       CompressedTables
<1>9. MemoryOperand(x) = NoAccess
  BY <1>1, NoOperand DEF Names
<1>10. Access32(w, Canonical(x)) = NoAccess
  BY <1>6, AccessIs
<1>11. Understood(x, width)
  <2>1. Major(w) % 4 = 3
    BY <1>6
  <2>2. Decoded32(w, width) = Canonical(x)
    BY <1>6, <1>7, <1>8
  <2>3. Access32(w, Canonical(x)) = MemoryOperand(x)
    BY <1>9, <1>10
  <2>4. QED
    BY <2>1, <2>2, <2>3 DEF Understood, w
<1>12. QED
  BY <1>11

LEMMA LuiUnderstood ==
  ASSUME NEW x, Shaped(x), x.op \in {"Lui"}, NEW width \in {32, 64},
         SupportsXlen(x.op, width), Valid(x, width)
  PROVE  Understood(x, width) /\ Tracked(x)
<1> DEFINE w == Packed(x)
<1>1. /\ x.op \in {"Lui"} /\ x.op \in DOMAIN UType
      /\ x.op \in Opcodes
  BY OpcodeTables, ArithmeticTables, AmoTables, SystemTables, FloatTables,
       CompressedTables DEF Shaped
<1>2. /\ RegisterFields[x.op] = {"rd"}
      /\ OtherFields[x.op] = {}
      /\ ImmKind[x.op] = "i32" /\ Bounds(x.op, width) = Limits(-524288, 1048575, 1)
  BY <1>1, URow
<1>3. /\ x.rd \in Nat /\ x.rd < 32 /\ x.rs1 \in Nat /\ x.rs1 < 32
      /\ x.rs2 \in Nat /\ x.rs2 < 32 /\ x.rs3 \in Nat /\ x.rs3 < 32
      /\ x.rs1 = 0
      /\ x.rs2 = 0
      /\ x.rs3 = 0
      /\ x.imm \in Int
  BY <1>2 DEF Shaped
<1>4. -524288 <= x.imm /\ x.imm <= 1048575
  <2>1. ValidImmediate(x.op, width, x.imm)
    BY DEF Valid
  <2>2. QED
    BY <1>2, <2>1, <1>3 DEF ValidImmediate, Limits
<1>5. w = PackU(UType["Lui"], x.rd, BitsOf(x.imm))
  BY <1>1, <1>3, <1>4, PackedIs
<1> HIDE DEF w
<1>6. /\ Decoded32(w, width) = Instr("Lui", x.rd, 0, 0, SignedUpper(x.imm))
      /\ Major(w) = 55
      /\ Rd(w) = x.rd
  BY <1>1, <1>3, <1>4, <1>5, LuiDecodes
<1>7. Canonical(x) = Instr("Lui", x.rd, 0, 0, SignedUpper(x.imm))
  <2>1. x = Instr(x.op, x.rd, 0, 0, x.imm)
    BY <1>3, ShapedIs
  <2>2. QED
    BY <1>1, <2>1 DEF Canonical, Instr, SignedUpper
<1>8. x.op \in DOMAIN UType
  BY <1>1
<1>9. MemoryOperand(x) = NoAccess
  BY <1>1, NoOperand DEF Names
<1>10. Access32(w, Canonical(x)) = NoAccess
  BY <1>6, AccessIs
<1>11. Understood(x, width)
  <2>1. Major(w) % 4 = 3
    BY <1>6
  <2>2. Decoded32(w, width) = Canonical(x)
    BY <1>6, <1>7, <1>8
  <2>3. Access32(w, Canonical(x)) = MemoryOperand(x)
    BY <1>9, <1>10
  <2>4. QED
    BY <2>1, <2>2, <2>3 DEF Understood, w
<1>12. WritesXreg(w) /\ Rd(w) = x.rd
  BY <1>6, WritesIs
<1>13. Tracked(x)
  BY <1>2, <1>12 DEF Tracked, w
<1>14. QED
  BY <1>11, <1>13

LEMMA AuipcUnderstood ==
  ASSUME NEW x, Shaped(x), x.op \in {"Auipc"}, NEW width \in {32, 64},
         SupportsXlen(x.op, width), Valid(x, width)
  PROVE  Understood(x, width) /\ Tracked(x)
<1> DEFINE w == Packed(x)
<1>1. /\ x.op \in {"Auipc"} /\ x.op \in DOMAIN UType
      /\ x.op \in Opcodes
  BY OpcodeTables, ArithmeticTables, AmoTables, SystemTables, FloatTables,
       CompressedTables DEF Shaped
<1>2. /\ RegisterFields[x.op] = {"rd"}
      /\ OtherFields[x.op] = {}
      /\ ImmKind[x.op] = "i32" /\ Bounds(x.op, width) = Limits(-524288, 1048575, 1)
  BY <1>1, URow
<1>3. /\ x.rd \in Nat /\ x.rd < 32 /\ x.rs1 \in Nat /\ x.rs1 < 32
      /\ x.rs2 \in Nat /\ x.rs2 < 32 /\ x.rs3 \in Nat /\ x.rs3 < 32
      /\ x.rs1 = 0
      /\ x.rs2 = 0
      /\ x.rs3 = 0
      /\ x.imm \in Int
  BY <1>2 DEF Shaped
<1>4. -524288 <= x.imm /\ x.imm <= 1048575
  <2>1. ValidImmediate(x.op, width, x.imm)
    BY DEF Valid
  <2>2. QED
    BY <1>2, <2>1, <1>3 DEF ValidImmediate, Limits
<1>5. w = PackU(UType["Auipc"], x.rd, BitsOf(x.imm))
  BY <1>1, <1>3, <1>4, PackedIs
<1> HIDE DEF w
<1>6. /\ Decoded32(w, width) = Instr("Auipc", x.rd, 0, 0, SignedUpper(x.imm))
      /\ Major(w) = 23
      /\ Rd(w) = x.rd
  BY <1>1, <1>3, <1>4, <1>5, AuipcDecodes
<1>7. Canonical(x) = Instr("Auipc", x.rd, 0, 0, SignedUpper(x.imm))
  <2>1. x = Instr(x.op, x.rd, 0, 0, x.imm)
    BY <1>3, ShapedIs
  <2>2. QED
    BY <1>1, <2>1 DEF Canonical, Instr, SignedUpper
<1>8. x.op \in DOMAIN UType
  BY <1>1
<1>9. MemoryOperand(x) = NoAccess
  BY <1>1, NoOperand DEF Names
<1>10. Access32(w, Canonical(x)) = NoAccess
  BY <1>6, AccessIs
<1>11. Understood(x, width)
  <2>1. Major(w) % 4 = 3
    BY <1>6
  <2>2. Decoded32(w, width) = Canonical(x)
    BY <1>6, <1>7, <1>8
  <2>3. Access32(w, Canonical(x)) = MemoryOperand(x)
    BY <1>9, <1>10
  <2>4. QED
    BY <2>1, <2>2, <2>3 DEF Understood, w
<1>12. WritesXreg(w) /\ Rd(w) = x.rd
  BY <1>6, WritesIs
<1>13. Tracked(x)
  BY <1>2, <1>12 DEF Tracked, w
<1>14. QED
  BY <1>11, <1>13

LEMMA OpUnderstood ==
  ASSUME NEW x, Shaped(x), x.op \in DOMAIN OpType, NEW width \in {32, 64},
         SupportsXlen(x.op, width), Valid(x, width)
  PROVE  Understood(x, width) /\ Tracked(x)
<1> DEFINE w == Packed(x)
<1>1. /\ x.op \in DOMAIN OpType /\ x.op \in DOMAIN OpType
      /\ x.op \in Opcodes
  BY OpcodeTables, ArithmeticTables, AmoTables, SystemTables, FloatTables,
       CompressedTables DEF Shaped
<1>2. /\ RegisterFields[x.op] = {"rd", "rs1", "rs2"}
      /\ OtherFields[x.op] = {}
      /\ ImmKind[x.op] = "none"
  BY <1>1, OpRow
<1>3. /\ x.rd \in Nat /\ x.rd < 32 /\ x.rs1 \in Nat /\ x.rs1 < 32
      /\ x.rs2 \in Nat /\ x.rs2 < 32 /\ x.rs3 \in Nat /\ x.rs3 < 32
      /\ x.rs3 = 0
      /\ x.imm \in Int
  BY <1>2 DEF Shaped
<1>4. x.imm = 0
  BY <1>2, <1>3 DEF Shaped
<1>5. w = R(OpType[x.op], x.rd, x.rs1, x.rs2)
  BY <1>1, <1>3, <1>4, PackedIs
<1> HIDE DEF w
<1>6. /\ Decoded32(w, width) = Instr(x.op, x.rd, x.rs1, x.rs2, 0)
      /\ Major(w) = 51
      /\ Rd(w) = x.rd
  BY <1>1, <1>3, <1>4, <1>5, OpDecodes
<1>7. x = Instr(x.op, x.rd, x.rs1, x.rs2, 0)
  BY <1>1, <1>3, <1>4, ShapedIs
<1>8. Canonical(x) = x
  BY <1>1, CanonicalIs, OpcodeTables, ArithmeticTables, AmoTables, SystemTables, FloatTables,
       CompressedTables
<1>9. MemoryOperand(x) = NoAccess
  BY <1>1, NoOperand DEF Names
<1>10. Access32(w, Canonical(x)) = NoAccess
  BY <1>6, AccessIs
<1>11. Understood(x, width)
  <2>1. Major(w) % 4 = 3
    BY <1>6
  <2>2. Decoded32(w, width) = Canonical(x)
    BY <1>6, <1>7, <1>8
  <2>3. Access32(w, Canonical(x)) = MemoryOperand(x)
    BY <1>9, <1>10
  <2>4. QED
    BY <2>1, <2>2, <2>3 DEF Understood, w
<1>12. WritesXreg(w) /\ Rd(w) = x.rd
  BY <1>6, WritesIs
<1>13. Tracked(x)
  BY <1>2, <1>12 DEF Tracked, w
<1>14. QED
  BY <1>11, <1>13

LEMMA MulUnderstood ==
  ASSUME NEW x, Shaped(x), x.op \in DOMAIN MulType, NEW width \in {32, 64},
         SupportsXlen(x.op, width), Valid(x, width)
  PROVE  Understood(x, width) /\ Tracked(x)
<1> DEFINE w == Packed(x)
<1>1. /\ x.op \in DOMAIN MulType /\ x.op \in DOMAIN MulType
      /\ x.op \in Opcodes
  BY OpcodeTables, ArithmeticTables, AmoTables, SystemTables, FloatTables,
       CompressedTables DEF Shaped
<1>2. /\ RegisterFields[x.op] = {"rd", "rs1", "rs2"}
      /\ OtherFields[x.op] = {}
      /\ ImmKind[x.op] = "none"
  BY <1>1, MulRow
<1>3. /\ x.rd \in Nat /\ x.rd < 32 /\ x.rs1 \in Nat /\ x.rs1 < 32
      /\ x.rs2 \in Nat /\ x.rs2 < 32 /\ x.rs3 \in Nat /\ x.rs3 < 32
      /\ x.rs3 = 0
      /\ x.imm \in Int
  BY <1>2 DEF Shaped
<1>4. x.imm = 0
  BY <1>2, <1>3 DEF Shaped
<1>5. w = R(MulType[x.op], x.rd, x.rs1, x.rs2)
  BY <1>1, <1>3, <1>4, PackedIs
<1> HIDE DEF w
<1>6. /\ Decoded32(w, width) = Instr(x.op, x.rd, x.rs1, x.rs2, 0)
      /\ Major(w) = 51
      /\ Rd(w) = x.rd
  BY <1>1, <1>3, <1>4, <1>5, MulDecodes
<1>7. x = Instr(x.op, x.rd, x.rs1, x.rs2, 0)
  BY <1>1, <1>3, <1>4, ShapedIs
<1>8. Canonical(x) = x
  BY <1>1, CanonicalIs, OpcodeTables, ArithmeticTables, AmoTables, SystemTables, FloatTables,
       CompressedTables
<1>9. MemoryOperand(x) = NoAccess
  BY <1>1, NoOperand DEF Names
<1>10. Access32(w, Canonical(x)) = NoAccess
  BY <1>6, AccessIs
<1>11. Understood(x, width)
  <2>1. Major(w) % 4 = 3
    BY <1>6
  <2>2. Decoded32(w, width) = Canonical(x)
    BY <1>6, <1>7, <1>8
  <2>3. Access32(w, Canonical(x)) = MemoryOperand(x)
    BY <1>9, <1>10
  <2>4. QED
    BY <2>1, <2>2, <2>3 DEF Understood, w
<1>12. WritesXreg(w) /\ Rd(w) = x.rd
  BY <1>6, WritesIs
<1>13. Tracked(x)
  BY <1>2, <1>12 DEF Tracked, w
<1>14. QED
  BY <1>11, <1>13

LEMMA OpWUnderstood ==
  ASSUME NEW x, Shaped(x), x.op \in DOMAIN OpWType, NEW width \in {32, 64},
         SupportsXlen(x.op, width), Valid(x, width)
  PROVE  Understood(x, width) /\ Tracked(x)
<1> DEFINE w == Packed(x)
<1>1. /\ x.op \in DOMAIN OpWType /\ x.op \in DOMAIN OpWType
      /\ x.op \in Opcodes
  BY OpcodeTables, ArithmeticTables, AmoTables, SystemTables, FloatTables,
       CompressedTables DEF Shaped
<1>2. /\ RegisterFields[x.op] = {"rd", "rs1", "rs2"}
      /\ OtherFields[x.op] = {}
      /\ ImmKind[x.op] = "none"
  BY <1>1, OpWRow
<1>3. /\ x.rd \in Nat /\ x.rd < 32 /\ x.rs1 \in Nat /\ x.rs1 < 32
      /\ x.rs2 \in Nat /\ x.rs2 < 32 /\ x.rs3 \in Nat /\ x.rs3 < 32
      /\ x.rs3 = 0
      /\ x.imm \in Int
  BY <1>2 DEF Shaped
<1>4. x.imm = 0
  BY <1>2, <1>3 DEF Shaped
<1>5. width = 64
  BY XlenIs, OpcodeTables, ArithmeticTables, AmoTables, SystemTables, FloatTables,
       CompressedTables
<1>6. w = R(OpWType[x.op], x.rd, x.rs1, x.rs2)
  BY <1>1, <1>3, <1>4, <1>5, PackedIs
<1> HIDE DEF w
<1>7. /\ Decoded32(w, width) = Instr(x.op, x.rd, x.rs1, x.rs2, 0)
      /\ Major(w) = 59
      /\ Rd(w) = x.rd
  BY <1>1, <1>3, <1>4, <1>5, <1>6, OpWDecodes
<1>8. x = Instr(x.op, x.rd, x.rs1, x.rs2, 0)
  BY <1>1, <1>3, <1>4, <1>5, ShapedIs
<1>9. Canonical(x) = x
  BY <1>1, CanonicalIs, OpcodeTables, ArithmeticTables, AmoTables, SystemTables, FloatTables,
       CompressedTables
<1>10. MemoryOperand(x) = NoAccess
  BY <1>1, NoOperand DEF Names
<1>11. Access32(w, Canonical(x)) = NoAccess
  BY <1>7, AccessIs
<1>12. Understood(x, width)
  <2>1. Major(w) % 4 = 3
    BY <1>7
  <2>2. Decoded32(w, width) = Canonical(x)
    BY <1>7, <1>8, <1>9
  <2>3. Access32(w, Canonical(x)) = MemoryOperand(x)
    BY <1>10, <1>11
  <2>4. QED
    BY <2>1, <2>2, <2>3 DEF Understood, w
<1>13. WritesXreg(w) /\ Rd(w) = x.rd
  BY <1>7, WritesIs
<1>14. Tracked(x)
  BY <1>2, <1>13 DEF Tracked, w
<1>15. QED
  BY <1>12, <1>14

LEMMA MulWUnderstood ==
  ASSUME NEW x, Shaped(x), x.op \in DOMAIN MulWType, NEW width \in {32, 64},
         SupportsXlen(x.op, width), Valid(x, width)
  PROVE  Understood(x, width) /\ Tracked(x)
<1> DEFINE w == Packed(x)
<1>1. /\ x.op \in DOMAIN MulWType /\ x.op \in DOMAIN MulWType
      /\ x.op \in Opcodes
  BY OpcodeTables, ArithmeticTables, AmoTables, SystemTables, FloatTables,
       CompressedTables DEF Shaped
<1>2. /\ RegisterFields[x.op] = {"rd", "rs1", "rs2"}
      /\ OtherFields[x.op] = {}
      /\ ImmKind[x.op] = "none"
  BY <1>1, MulWRow
<1>3. /\ x.rd \in Nat /\ x.rd < 32 /\ x.rs1 \in Nat /\ x.rs1 < 32
      /\ x.rs2 \in Nat /\ x.rs2 < 32 /\ x.rs3 \in Nat /\ x.rs3 < 32
      /\ x.rs3 = 0
      /\ x.imm \in Int
  BY <1>2 DEF Shaped
<1>4. x.imm = 0
  BY <1>2, <1>3 DEF Shaped
<1>5. width = 64
  BY XlenIs, OpcodeTables, ArithmeticTables, AmoTables, SystemTables, FloatTables,
       CompressedTables
<1>6. w = R(MulWType[x.op], x.rd, x.rs1, x.rs2)
  BY <1>1, <1>3, <1>4, <1>5, PackedIs
<1> HIDE DEF w
<1>7. /\ Decoded32(w, width) = Instr(x.op, x.rd, x.rs1, x.rs2, 0)
      /\ Major(w) = 59
      /\ Rd(w) = x.rd
  BY <1>1, <1>3, <1>4, <1>5, <1>6, MulWDecodes
<1>8. x = Instr(x.op, x.rd, x.rs1, x.rs2, 0)
  BY <1>1, <1>3, <1>4, <1>5, ShapedIs
<1>9. Canonical(x) = x
  BY <1>1, CanonicalIs, OpcodeTables, ArithmeticTables, AmoTables, SystemTables, FloatTables,
       CompressedTables
<1>10. MemoryOperand(x) = NoAccess
  BY <1>1, NoOperand DEF Names
<1>11. Access32(w, Canonical(x)) = NoAccess
  BY <1>7, AccessIs
<1>12. Understood(x, width)
  <2>1. Major(w) % 4 = 3
    BY <1>7
  <2>2. Decoded32(w, width) = Canonical(x)
    BY <1>7, <1>8, <1>9
  <2>3. Access32(w, Canonical(x)) = MemoryOperand(x)
    BY <1>10, <1>11
  <2>4. QED
    BY <2>1, <2>2, <2>3 DEF Understood, w
<1>13. WritesXreg(w) /\ Rd(w) = x.rd
  BY <1>7, WritesIs
<1>14. Tracked(x)
  BY <1>2, <1>13 DEF Tracked, w
<1>15. QED
  BY <1>12, <1>14

LEMMA ShiftWUnderstood ==
  ASSUME NEW x, Shaped(x), x.op \in DOMAIN ShiftWType, NEW width \in {32, 64},
         SupportsXlen(x.op, width), Valid(x, width)
  PROVE  Understood(x, width) /\ Tracked(x)
<1> DEFINE w == Packed(x)
<1>1. /\ x.op \in DOMAIN ShiftWType /\ x.op \in DOMAIN ShiftWType
      /\ x.op \in Opcodes
  BY OpcodeTables, ArithmeticTables, AmoTables, SystemTables, FloatTables,
       CompressedTables DEF Shaped
<1>2. /\ RegisterFields[x.op] = {"rd", "rs1"}
      /\ OtherFields[x.op] = {}
      /\ ImmKind[x.op] = "shift" /\ Bounds(x.op, width) = Limits(0, 31, 1)
  BY <1>1, ShiftWRow
<1>3. /\ x.rd \in Nat /\ x.rd < 32 /\ x.rs1 \in Nat /\ x.rs1 < 32
      /\ x.rs2 \in Nat /\ x.rs2 < 32 /\ x.rs3 \in Nat /\ x.rs3 < 32
      /\ x.rs2 = 0
      /\ x.rs3 = 0
      /\ x.imm \in Int
  BY <1>2 DEF Shaped
<1>4. x.imm \in Nat /\ x.imm < 32
  <2>1. ValidImmediate(x.op, width, x.imm)
    BY DEF Valid
  <2>2. QED
    BY <1>2, <2>1, <1>3 DEF ValidImmediate, Limits
<1>5. width = 64
  BY XlenIs, OpcodeTables, ArithmeticTables, AmoTables, SystemTables, FloatTables,
       CompressedTables
<1>6. w = PackI(ShiftWType[x.op], x.rd, x.rs1, BitsOf(x.imm))
  BY <1>1, <1>3, <1>4, <1>5, PackedIs
<1> HIDE DEF w
<1>7. /\ Decoded32(w, width) = Instr(x.op, x.rd, x.rs1, 0, x.imm)
      /\ Major(w) = 27
      /\ Rd(w) = x.rd
  BY <1>1, <1>3, <1>4, <1>5, <1>6, ShiftWDecodes
<1>8. x = Instr(x.op, x.rd, x.rs1, 0, x.imm)
  BY <1>1, <1>3, <1>4, <1>5, ShapedIs
<1>9. Canonical(x) = x
  BY <1>1, CanonicalIs, OpcodeTables, ArithmeticTables, AmoTables, SystemTables, FloatTables,
       CompressedTables
<1>10. MemoryOperand(x) = NoAccess
  BY <1>1, NoOperand DEF Names
<1>11. Access32(w, Canonical(x)) = NoAccess
  BY <1>7, AccessIs
<1>12. Understood(x, width)
  <2>1. Major(w) % 4 = 3
    BY <1>7
  <2>2. Decoded32(w, width) = Canonical(x)
    BY <1>7, <1>8, <1>9
  <2>3. Access32(w, Canonical(x)) = MemoryOperand(x)
    BY <1>10, <1>11
  <2>4. QED
    BY <2>1, <2>2, <2>3 DEF Understood, w
<1>13. WritesXreg(w) /\ Rd(w) = x.rd
  BY <1>7, WritesIs
<1>14. Tracked(x)
  BY <1>2, <1>13 DEF Tracked, w
<1>15. QED
  BY <1>12, <1>14

LEMMA ShiftUnderstood ==
  ASSUME NEW x, Shaped(x), x.op \in DOMAIN ShiftType, NEW width \in {32, 64},
         SupportsXlen(x.op, width), Valid(x, width)
  PROVE  Understood(x, width) /\ Tracked(x)
<1> DEFINE w == Packed(x)
<1>1. /\ x.op \in DOMAIN ShiftType /\ x.op \in DOMAIN ShiftType
      /\ x.op \in Opcodes
  BY OpcodeTables, ArithmeticTables, AmoTables, SystemTables, FloatTables,
       CompressedTables DEF Shaped
<1>2. /\ RegisterFields[x.op] = {"rd", "rs1"}
      /\ OtherFields[x.op] = {}
      /\ ImmKind[x.op] = "shift" /\ Bounds(x.op, width) = Limits(0, width - 1, 1)
  BY <1>1, ShiftRow
<1>3. /\ x.rd \in Nat /\ x.rd < 32 /\ x.rs1 \in Nat /\ x.rs1 < 32
      /\ x.rs2 \in Nat /\ x.rs2 < 32 /\ x.rs3 \in Nat /\ x.rs3 < 32
      /\ x.rs2 = 0
      /\ x.rs3 = 0
      /\ x.imm \in Int
  BY <1>2 DEF Shaped
<1>4. x.imm \in Nat /\ x.imm < width
  <2>1. ValidImmediate(x.op, width, x.imm)
    BY DEF Valid
  <2>2. QED
    BY <1>2, <2>1, <1>3 DEF ValidImmediate, Limits
<1>5. w = PackI(ShiftType[x.op], x.rd, x.rs1, BitsOf(x.imm))
  BY <1>1, <1>3, <1>4, PackedIs
<1> HIDE DEF w
<1>6. /\ Decoded32(w, width) = Instr(x.op, x.rd, x.rs1, 0, x.imm)
      /\ Major(w) = 19
      /\ Rd(w) = x.rd
  BY <1>1, <1>3, <1>4, <1>5, ShiftDecodes
<1>7. x = Instr(x.op, x.rd, x.rs1, 0, x.imm)
  BY <1>1, <1>3, <1>4, ShapedIs
<1>8. Canonical(x) = x
  BY <1>1, CanonicalIs, OpcodeTables, ArithmeticTables, AmoTables, SystemTables, FloatTables,
       CompressedTables
<1>9. MemoryOperand(x) = NoAccess
  BY <1>1, NoOperand DEF Names
<1>10. Access32(w, Canonical(x)) = NoAccess
  BY <1>6, AccessIs
<1>11. Understood(x, width)
  <2>1. Major(w) % 4 = 3
    BY <1>6
  <2>2. Decoded32(w, width) = Canonical(x)
    BY <1>6, <1>7, <1>8
  <2>3. Access32(w, Canonical(x)) = MemoryOperand(x)
    BY <1>9, <1>10
  <2>4. QED
    BY <2>1, <2>2, <2>3 DEF Understood, w
<1>12. WritesXreg(w) /\ Rd(w) = x.rd
  BY <1>6, WritesIs
<1>13. Tracked(x)
  BY <1>2, <1>12 DEF Tracked, w
<1>14. QED
  BY <1>11, <1>13

LEMMA AmoWUnderstood ==
  ASSUME NEW x, Shaped(x), x.op \in DOMAIN AmoType \ {"LrW"}, NEW width \in {32, 64},
         SupportsXlen(x.op, width), Valid(x, width)
  PROVE  Understood(x, width) /\ Tracked(x)
<1> DEFINE w == Packed(x)
<1>1. /\ x.op \in DOMAIN AmoType \ {"LrW"} /\ x.op \in DOMAIN AmoType
      /\ x.op \in Opcodes /\ x.op \notin {"LrW", "LrD"}
  BY OpcodeTables, ArithmeticTables, AmoTables, SystemTables, FloatTables,
       CompressedTables DEF Shaped
<1>2. /\ RegisterFields[x.op] = {"rd", "rs1", "rs2"}
      /\ OtherFields[x.op] = {}
      /\ ImmKind[x.op] = "ordering"
  BY <1>1, AmoRow
<1>3. /\ x.rd \in Nat /\ x.rd < 32 /\ x.rs1 \in Nat /\ x.rs1 < 32
      /\ x.rs2 \in Nat /\ x.rs2 < 32 /\ x.rs3 \in Nat /\ x.rs3 < 32
      /\ x.rs3 = 0
      /\ x.imm \in Int
  BY <1>2 DEF Shaped
<1>4. x.imm \in Nat /\ x.imm < 4
  BY <1>2, <1>3 DEF Shaped
<1>5. w = PackAmo(AmoType[x.op], x.rd, x.rs1, x.rs2, x.imm)
  BY <1>1, <1>3, <1>4, PackedIs
<1> HIDE DEF w
<1>6. /\ Decoded32(w, width) = Instr(x.op, x.rd, x.rs1, x.rs2, x.imm)
      /\ Major(w) = 47
      /\ Rd(w) = x.rd
      /\ Rs1(w) = x.rs1
      /\ Funct3(w) = 2
  BY <1>1, <1>3, <1>4, <1>5, AmoWDecodes
<1>7. x = Instr(x.op, x.rd, x.rs1, x.rs2, x.imm)
  BY <1>1, <1>3, <1>4, ShapedIs
<1>8. Canonical(x) = x
  BY <1>1, CanonicalIs, OpcodeTables, ArithmeticTables, AmoTables, SystemTables, FloatTables,
       CompressedTables
<1>9. MemoryOperand(x) = AccessOf(x.rs1, 0, 2^Funct3(w))
  BY <1>1, <1>6, AmoOperand DEF w
<1>10. Access32(w, Canonical(x)) = AccessOf(x.rs1, 0, 2^Funct3(w))
  <2>1. Major(w) = 47
    BY <1>6
  <2>2. QED
    BY ONLY <2>1, <1>8, AmoAccess, Zenon
<1>11. Understood(x, width)
  <2>1. Major(w) % 4 = 3
    BY <1>6
  <2>2. Decoded32(w, width) = Canonical(x)
    BY <1>6, <1>7, <1>8
  <2>3. Access32(w, Canonical(x)) = MemoryOperand(x)
    BY <1>9, <1>10
  <2>4. QED
    BY <2>1, <2>2, <2>3 DEF Understood, w
<1>12. WritesXreg(w) /\ Rd(w) = x.rd
  BY <1>6, WritesIs
<1>13. Tracked(x)
  BY <1>2, <1>12 DEF Tracked, w
<1>14. QED
  BY <1>11, <1>13

LEMMA LrWUnderstood ==
  ASSUME NEW x, Shaped(x), x.op \in {"LrW"}, NEW width \in {32, 64},
         SupportsXlen(x.op, width), Valid(x, width)
  PROVE  Understood(x, width) /\ Tracked(x)
<1> DEFINE w == Packed(x)
<1>1. /\ x.op \in {"LrW"} /\ x.op \in DOMAIN AmoType
      /\ x.op \in Opcodes
  BY OpcodeTables, ArithmeticTables, AmoTables, SystemTables, FloatTables,
       CompressedTables DEF Shaped
<1>2. /\ RegisterFields[x.op] = {"rd", "rs1"}
      /\ OtherFields[x.op] = {}
      /\ ImmKind[x.op] = "ordering"
  BY <1>1, LrRow
<1>3. /\ x.rd \in Nat /\ x.rd < 32 /\ x.rs1 \in Nat /\ x.rs1 < 32
      /\ x.rs2 \in Nat /\ x.rs2 < 32 /\ x.rs3 \in Nat /\ x.rs3 < 32
      /\ x.rs2 = 0
      /\ x.rs3 = 0
      /\ x.imm \in Int
  BY <1>2 DEF Shaped
<1>4. x.imm \in Nat /\ x.imm < 4
  BY <1>2, <1>3 DEF Shaped
<1>5. w = PackAmo(AmoType[x.op], x.rd, x.rs1, x.rs2, x.imm)
  BY <1>1, <1>3, <1>4, PackedIs
<1> HIDE DEF w
<1>6. /\ Decoded32(w, width) = Instr(x.op, x.rd, x.rs1, x.rs2, x.imm)
      /\ Major(w) = 47
      /\ Rd(w) = x.rd
      /\ Rs1(w) = x.rs1
      /\ Funct3(w) = 2
  BY <1>1, <1>3, <1>4, <1>5, AmoWDecodes
<1>7. x = Instr(x.op, x.rd, x.rs1, x.rs2, x.imm)
  BY <1>1, <1>3, <1>4, ShapedIs
<1>8. Canonical(x) = x
  BY <1>1, CanonicalIs, OpcodeTables, ArithmeticTables, AmoTables, SystemTables, FloatTables,
       CompressedTables
<1>9. MemoryOperand(x) = AccessOf(x.rs1, 0, 2^Funct3(w))
  BY <1>1, <1>6, AmoOperand DEF w
<1>10. Access32(w, Canonical(x)) = AccessOf(x.rs1, 0, 2^Funct3(w))
  <2>1. Major(w) = 47
    BY <1>6
  <2>2. QED
    BY ONLY <2>1, <1>8, AmoAccess, Zenon
<1>11. Understood(x, width)
  <2>1. Major(w) % 4 = 3
    BY <1>6
  <2>2. Decoded32(w, width) = Canonical(x)
    BY <1>6, <1>7, <1>8
  <2>3. Access32(w, Canonical(x)) = MemoryOperand(x)
    BY <1>9, <1>10
  <2>4. QED
    BY <2>1, <2>2, <2>3 DEF Understood, w
<1>12. WritesXreg(w) /\ Rd(w) = x.rd
  BY <1>6, WritesIs
<1>13. Tracked(x)
  BY <1>2, <1>12 DEF Tracked, w
<1>14. QED
  BY <1>11, <1>13

LEMMA AmoDUnderstood ==
  ASSUME NEW x, Shaped(x), x.op \in DOMAIN AmoDType \ {"LrD"}, NEW width \in {32, 64},
         SupportsXlen(x.op, width), Valid(x, width)
  PROVE  Understood(x, width) /\ Tracked(x)
<1> DEFINE w == Packed(x)
<1>1. /\ x.op \in DOMAIN AmoDType \ {"LrD"} /\ x.op \in DOMAIN AmoDType
      /\ x.op \in Opcodes /\ x.op \notin {"LrW", "LrD"}
  BY OpcodeTables, ArithmeticTables, AmoTables, SystemTables, FloatTables,
       CompressedTables DEF Shaped
<1>2. /\ RegisterFields[x.op] = {"rd", "rs1", "rs2"}
      /\ OtherFields[x.op] = {}
      /\ ImmKind[x.op] = "ordering"
  BY <1>1, AmoRow
<1>3. /\ x.rd \in Nat /\ x.rd < 32 /\ x.rs1 \in Nat /\ x.rs1 < 32
      /\ x.rs2 \in Nat /\ x.rs2 < 32 /\ x.rs3 \in Nat /\ x.rs3 < 32
      /\ x.rs3 = 0
      /\ x.imm \in Int
  BY <1>2 DEF Shaped
<1>4. x.imm \in Nat /\ x.imm < 4
  BY <1>2, <1>3 DEF Shaped
<1>5. width = 64
  BY XlenIs, OpcodeTables, ArithmeticTables, AmoTables, SystemTables, FloatTables,
       CompressedTables
<1>6. w = PackAmo(AmoDType[x.op], x.rd, x.rs1, x.rs2, x.imm)
  BY <1>1, <1>3, <1>4, <1>5, PackedIs
<1> HIDE DEF w
<1>7. /\ Decoded32(w, width) = Instr(x.op, x.rd, x.rs1, x.rs2, x.imm)
      /\ Major(w) = 47
      /\ Rd(w) = x.rd
      /\ Rs1(w) = x.rs1
      /\ Funct3(w) = 3
  BY <1>1, <1>3, <1>4, <1>5, <1>6, AmoDDecodes
<1>8. x = Instr(x.op, x.rd, x.rs1, x.rs2, x.imm)
  BY <1>1, <1>3, <1>4, <1>5, ShapedIs
<1>9. Canonical(x) = x
  BY <1>1, CanonicalIs, OpcodeTables, ArithmeticTables, AmoTables, SystemTables, FloatTables,
       CompressedTables
<1>10. MemoryOperand(x) = AccessOf(x.rs1, 0, 2^Funct3(w))
  BY <1>1, <1>7, AmoOperand DEF w
<1>11. Access32(w, Canonical(x)) = AccessOf(x.rs1, 0, 2^Funct3(w))
  <2>1. Major(w) = 47
    BY <1>7
  <2>2. QED
    BY ONLY <2>1, <1>9, AmoAccess, Zenon
<1>12. Understood(x, width)
  <2>1. Major(w) % 4 = 3
    BY <1>7
  <2>2. Decoded32(w, width) = Canonical(x)
    BY <1>7, <1>8, <1>9
  <2>3. Access32(w, Canonical(x)) = MemoryOperand(x)
    BY <1>10, <1>11
  <2>4. QED
    BY <2>1, <2>2, <2>3 DEF Understood, w
<1>13. WritesXreg(w) /\ Rd(w) = x.rd
  BY <1>7, WritesIs
<1>14. Tracked(x)
  BY <1>2, <1>13 DEF Tracked, w
<1>15. QED
  BY <1>12, <1>14

LEMMA LrDUnderstood ==
  ASSUME NEW x, Shaped(x), x.op \in {"LrD"}, NEW width \in {32, 64},
         SupportsXlen(x.op, width), Valid(x, width)
  PROVE  Understood(x, width) /\ Tracked(x)
<1> DEFINE w == Packed(x)
<1>1. /\ x.op \in {"LrD"} /\ x.op \in DOMAIN AmoDType
      /\ x.op \in Opcodes
  BY OpcodeTables, ArithmeticTables, AmoTables, SystemTables, FloatTables,
       CompressedTables DEF Shaped
<1>2. /\ RegisterFields[x.op] = {"rd", "rs1"}
      /\ OtherFields[x.op] = {}
      /\ ImmKind[x.op] = "ordering"
  BY <1>1, LrRow
<1>3. /\ x.rd \in Nat /\ x.rd < 32 /\ x.rs1 \in Nat /\ x.rs1 < 32
      /\ x.rs2 \in Nat /\ x.rs2 < 32 /\ x.rs3 \in Nat /\ x.rs3 < 32
      /\ x.rs2 = 0
      /\ x.rs3 = 0
      /\ x.imm \in Int
  BY <1>2 DEF Shaped
<1>4. x.imm \in Nat /\ x.imm < 4
  BY <1>2, <1>3 DEF Shaped
<1>5. width = 64
  BY XlenIs, OpcodeTables, ArithmeticTables, AmoTables, SystemTables, FloatTables,
       CompressedTables
<1>6. w = PackAmo(AmoDType[x.op], x.rd, x.rs1, x.rs2, x.imm)
  BY <1>1, <1>3, <1>4, <1>5, PackedIs
<1> HIDE DEF w
<1>7. /\ Decoded32(w, width) = Instr(x.op, x.rd, x.rs1, x.rs2, x.imm)
      /\ Major(w) = 47
      /\ Rd(w) = x.rd
      /\ Rs1(w) = x.rs1
      /\ Funct3(w) = 3
  BY <1>1, <1>3, <1>4, <1>5, <1>6, AmoDDecodes
<1>8. x = Instr(x.op, x.rd, x.rs1, x.rs2, x.imm)
  BY <1>1, <1>3, <1>4, <1>5, ShapedIs
<1>9. Canonical(x) = x
  BY <1>1, CanonicalIs, OpcodeTables, ArithmeticTables, AmoTables, SystemTables, FloatTables,
       CompressedTables
<1>10. MemoryOperand(x) = AccessOf(x.rs1, 0, 2^Funct3(w))
  BY <1>1, <1>7, AmoOperand DEF w
<1>11. Access32(w, Canonical(x)) = AccessOf(x.rs1, 0, 2^Funct3(w))
  <2>1. Major(w) = 47
    BY <1>7
  <2>2. QED
    BY ONLY <2>1, <1>9, AmoAccess, Zenon
<1>12. Understood(x, width)
  <2>1. Major(w) % 4 = 3
    BY <1>7
  <2>2. Decoded32(w, width) = Canonical(x)
    BY <1>7, <1>8, <1>9
  <2>3. Access32(w, Canonical(x)) = MemoryOperand(x)
    BY <1>10, <1>11
  <2>4. QED
    BY <2>1, <2>2, <2>3 DEF Understood, w
<1>13. WritesXreg(w) /\ Rd(w) = x.rd
  BY <1>7, WritesIs
<1>14. Tracked(x)
  BY <1>2, <1>13 DEF Tracked, w
<1>15. QED
  BY <1>12, <1>14

LEMMA FenceUnderstood ==
  ASSUME NEW x, Shaped(x), x.op \in {"Fence"}, NEW width \in {32, 64},
         SupportsXlen(x.op, width), Valid(x, width)
  PROVE  Understood(x, width) /\ Tracked(x)
<1> DEFINE w == Packed(x)
<1>1. /\ x.op \in {"Fence"} /\ x.op \in DOMAIN FenceType
      /\ x.op \in Opcodes
  BY OpcodeTables, ArithmeticTables, AmoTables, SystemTables, FloatTables,
       CompressedTables DEF Shaped
<1>2. /\ RegisterFields[x.op] = {}
      /\ OtherFields[x.op] = {}
      /\ ImmKind[x.op] = "fence"
  BY <1>1, FenceRow
<1>3. /\ x.rd \in Nat /\ x.rd < 32 /\ x.rs1 \in Nat /\ x.rs1 < 32
      /\ x.rs2 \in Nat /\ x.rs2 < 32 /\ x.rs3 \in Nat /\ x.rs3 < 32
      /\ x.rd = 0
      /\ x.rs1 = 0
      /\ x.rs2 = 0
      /\ x.rs3 = 0
      /\ x.imm \in Int
  BY <1>2 DEF Shaped
<1>4. x.imm \in Nat /\ x.imm < 4096
  <2>1. ValidImmediate(x.op, width, x.imm)
    BY DEF Valid
  <2>2. QED
    BY <1>2, <2>1, FenceBits
<1>5. w = PackI(FenceType["Fence"], 0, 0, BitsOf(x.imm))
  BY <1>1, <1>3, <1>4, PackedIs
<1> HIDE DEF w
<1>6. /\ Decoded32(w, width) = Instr("Fence", 0, 0, 0, x.imm)
      /\ Major(w) = 15
  BY <1>1, <1>3, <1>4, <1>5, FenceDecodes
<1>7. x = Instr("Fence", 0, 0, 0, x.imm)
  BY <1>1, <1>3, <1>4, ShapedIs
<1>8. Canonical(x) = x
  BY <1>1, CanonicalIs, OpcodeTables, ArithmeticTables, AmoTables, SystemTables, FloatTables,
       CompressedTables
<1>9. MemoryOperand(x) = NoAccess
  BY <1>1, NoOperand DEF Names
<1>10. Access32(w, Canonical(x)) = NoAccess
  BY <1>6, AccessIs
<1>11. Understood(x, width)
  <2>1. Major(w) % 4 = 3
    BY <1>6
  <2>2. Decoded32(w, width) = Canonical(x)
    BY <1>6, <1>7, <1>8
  <2>3. Access32(w, Canonical(x)) = MemoryOperand(x)
    BY <1>9, <1>10
  <2>4. QED
    BY <2>1, <2>2, <2>3 DEF Understood, w
<1>12. ~WritesXreg(w)
  BY <1>6, WritesIs
<1>13. Tracked(x)
  BY <1>2, <1>12 DEF Tracked, w
<1>14. QED
  BY <1>11, <1>13

LEMMA FenceIUnderstood ==
  ASSUME NEW x, Shaped(x), x.op \in {"FenceI"}, NEW width \in {32, 64},
         SupportsXlen(x.op, width), Valid(x, width)
  PROVE  Understood(x, width) /\ Tracked(x)
<1> DEFINE w == Packed(x)
<1>1. /\ x.op \in {"FenceI"} /\ x.op \in DOMAIN PlainType
      /\ x.op \in Opcodes
  BY OpcodeTables, ArithmeticTables, AmoTables, SystemTables, FloatTables,
       CompressedTables DEF Shaped
<1>2. /\ RegisterFields[x.op] = {}
      /\ OtherFields[x.op] = {}
      /\ ImmKind[x.op] = "none"
  BY <1>1, PlainRow
<1>3. /\ x.rd \in Nat /\ x.rd < 32 /\ x.rs1 \in Nat /\ x.rs1 < 32
      /\ x.rs2 \in Nat /\ x.rs2 < 32 /\ x.rs3 \in Nat /\ x.rs3 < 32
      /\ x.rd = 0
      /\ x.rs1 = 0
      /\ x.rs2 = 0
      /\ x.rs3 = 0
      /\ x.imm \in Int
  BY <1>2 DEF Shaped
<1>4. x.imm = 0
  BY <1>2, <1>3 DEF Shaped
<1>5. w = R(PlainType["FenceI"], 0, 0, 0)
  BY <1>1, <1>3, <1>4, PackedIs
<1> HIDE DEF w
<1>6. /\ Decoded32(w, width) = Instr("FenceI", 0, 0, 0, 0)
      /\ Major(w) = 15
  BY <1>1, <1>3, <1>4, <1>5, FenceIDecodes
<1>7. x = Instr("FenceI", 0, 0, 0, 0)
  BY <1>1, <1>3, <1>4, ShapedIs
<1>8. Canonical(x) = x
  BY <1>1, CanonicalIs, OpcodeTables, ArithmeticTables, AmoTables, SystemTables, FloatTables,
       CompressedTables
<1>9. MemoryOperand(x) = NoAccess
  BY <1>1, NoOperand DEF Names
<1>10. Access32(w, Canonical(x)) = NoAccess
  BY <1>6, AccessIs
<1>11. Understood(x, width)
  <2>1. Major(w) % 4 = 3
    BY <1>6
  <2>2. Decoded32(w, width) = Canonical(x)
    BY <1>6, <1>7, <1>8
  <2>3. Access32(w, Canonical(x)) = MemoryOperand(x)
    BY <1>9, <1>10
  <2>4. QED
    BY <2>1, <2>2, <2>3 DEF Understood, w
<1>12. ~WritesXreg(w)
  BY <1>6, WritesIs
<1>13. Tracked(x)
  BY <1>2, <1>12 DEF Tracked, w
<1>14. QED
  BY <1>11, <1>13

LEMMA CsrUnderstood ==
  ASSUME NEW x, Shaped(x), x.op \in DOMAIN CsrType, NEW width \in {32, 64},
         SupportsXlen(x.op, width), Valid(x, width)
  PROVE  Understood(x, width) /\ Tracked(x)
<1> DEFINE w == Packed(x)
<1>1. /\ x.op \in DOMAIN CsrType /\ x.op \in DOMAIN CsrType
      /\ x.op \in Opcodes
  BY OpcodeTables, ArithmeticTables, AmoTables, SystemTables, FloatTables,
       CompressedTables DEF Shaped
<1>2. /\ RegisterFields[x.op] = {"rd", "rs1"}
      /\ OtherFields[x.op] = {}
      /\ ImmKind[x.op] = "csr"
  BY <1>1, CsrRow
<1>3. /\ x.rd \in Nat /\ x.rd < 32 /\ x.rs1 \in Nat /\ x.rs1 < 32
      /\ x.rs2 \in Nat /\ x.rs2 < 32 /\ x.rs3 \in Nat /\ x.rs3 < 32
      /\ x.rs2 = 0
      /\ x.rs3 = 0
      /\ x.imm \in Int
  BY <1>2 DEF Shaped
<1>4. x.imm \in Nat /\ x.imm < 4096
  BY <1>2, <1>3 DEF Shaped
<1>5. w = PackI(CsrType[x.op], x.rd, x.rs1, BitsOf(x.imm))
  BY <1>1, <1>3, <1>4, PackedIs
<1> HIDE DEF w
<1>6. /\ Decoded32(w, width) = Instr(x.op, x.rd, x.rs1, 0, x.imm)
      /\ Major(w) = 115
      /\ Rd(w) = x.rd
      /\ Funct3(w) # 0
  BY <1>1, <1>3, <1>4, <1>5, CsrDecodes
<1>7. x = Instr(x.op, x.rd, x.rs1, 0, x.imm)
  BY <1>1, <1>3, <1>4, ShapedIs
<1>8. Canonical(x) = x
  BY <1>1, CanonicalIs, OpcodeTables, ArithmeticTables, AmoTables, SystemTables, FloatTables,
       CompressedTables
<1>9. MemoryOperand(x) = NoAccess
  BY <1>1, NoOperand DEF Names
<1>10. Access32(w, Canonical(x)) = NoAccess
  BY <1>6, AccessIs
<1>11. Understood(x, width)
  <2>1. Major(w) % 4 = 3
    BY <1>6
  <2>2. Decoded32(w, width) = Canonical(x)
    BY <1>6, <1>7, <1>8
  <2>3. Access32(w, Canonical(x)) = MemoryOperand(x)
    BY <1>9, <1>10
  <2>4. QED
    BY <2>1, <2>2, <2>3 DEF Understood, w
<1>12. WritesXreg(w) /\ Rd(w) = x.rd
  BY <1>6, WritesIs
<1>13. Tracked(x)
  BY <1>2, <1>12 DEF Tracked, w
<1>14. QED
  BY <1>11, <1>13

LEMMA CsrImmUnderstood ==
  ASSUME NEW x, Shaped(x), x.op \in DOMAIN CsrImmType, NEW width \in {32, 64},
         SupportsXlen(x.op, width), Valid(x, width)
  PROVE  Understood(x, width) /\ Tracked(x)
<1> DEFINE w == Packed(x)
<1>1. /\ x.op \in DOMAIN CsrImmType /\ x.op \in DOMAIN CsrImmType
      /\ x.op \in Opcodes
  BY OpcodeTables, ArithmeticTables, AmoTables, SystemTables, FloatTables,
       CompressedTables DEF Shaped
<1>2. /\ RegisterFields[x.op] = {"rd", "rs1"}
      /\ OtherFields[x.op] = {"rs1"}
      /\ ImmKind[x.op] = "csr"
  BY <1>1, CsrImmRow
<1>3. /\ x.rd \in Nat /\ x.rd < 32 /\ x.rs1 \in Nat /\ x.rs1 < 32
      /\ x.rs2 \in Nat /\ x.rs2 < 32 /\ x.rs3 \in Nat /\ x.rs3 < 32
      /\ x.rs2 = 0
      /\ x.rs3 = 0
      /\ x.imm \in Int
  BY <1>2 DEF Shaped
<1>4. x.imm \in Nat /\ x.imm < 4096
  BY <1>2, <1>3 DEF Shaped
<1>5. w = PackI(CsrImmType[x.op], x.rd, x.rs1, BitsOf(x.imm))
  BY <1>1, <1>3, <1>4, PackedIs
<1> HIDE DEF w
<1>6. /\ Decoded32(w, width) = Instr(x.op, x.rd, x.rs1, 0, x.imm)
      /\ Major(w) = 115
      /\ Rd(w) = x.rd
      /\ Funct3(w) # 0
  BY <1>1, <1>3, <1>4, <1>5, CsrImmDecodes
<1>7. x = Instr(x.op, x.rd, x.rs1, 0, x.imm)
  BY <1>1, <1>3, <1>4, ShapedIs
<1>8. Canonical(x) = x
  BY <1>1, CanonicalIs, OpcodeTables, ArithmeticTables, AmoTables, SystemTables, FloatTables,
       CompressedTables
<1>9. MemoryOperand(x) = NoAccess
  BY <1>1, NoOperand DEF Names
<1>10. Access32(w, Canonical(x)) = NoAccess
  BY <1>6, AccessIs
<1>11. Understood(x, width)
  <2>1. Major(w) % 4 = 3
    BY <1>6
  <2>2. Decoded32(w, width) = Canonical(x)
    BY <1>6, <1>7, <1>8
  <2>3. Access32(w, Canonical(x)) = MemoryOperand(x)
    BY <1>9, <1>10
  <2>4. QED
    BY <2>1, <2>2, <2>3 DEF Understood, w
<1>12. WritesXreg(w) /\ Rd(w) = x.rd
  BY <1>6, WritesIs
<1>13. Tracked(x)
  BY <1>2, <1>12 DEF Tracked, w
<1>14. QED
  BY <1>11, <1>13

LEMMA SfenceVmaUnderstood ==
  ASSUME NEW x, Shaped(x), x.op \in {"SfenceVma"}, NEW width \in {32, 64},
         SupportsXlen(x.op, width), Valid(x, width)
  PROVE  Understood(x, width) /\ Tracked(x)
<1> DEFINE w == Packed(x)
<1>1. /\ x.op \in {"SfenceVma"} /\ x.op \in DOMAIN VmaType
      /\ x.op \in Opcodes
  BY OpcodeTables, ArithmeticTables, AmoTables, SystemTables, FloatTables,
       CompressedTables DEF Shaped
<1>2. /\ RegisterFields[x.op] = {"rs1", "rs2"}
      /\ OtherFields[x.op] = {}
      /\ ImmKind[x.op] = "none"
  BY <1>1, VmaRow
<1>3. /\ x.rd \in Nat /\ x.rd < 32 /\ x.rs1 \in Nat /\ x.rs1 < 32
      /\ x.rs2 \in Nat /\ x.rs2 < 32 /\ x.rs3 \in Nat /\ x.rs3 < 32
      /\ x.rd = 0
      /\ x.rs3 = 0
      /\ x.imm \in Int
  BY <1>2 DEF Shaped
<1>4. x.imm = 0
  BY <1>2, <1>3 DEF Shaped
<1>5. w = R(VmaType["SfenceVma"], 0, x.rs1, x.rs2)
  BY <1>1, <1>3, <1>4, PackedIs
<1> HIDE DEF w
<1>6. /\ Decoded32(w, width) = Instr("SfenceVma", 0, x.rs1, x.rs2, 0)
      /\ Major(w) = 115
      /\ Funct3(w) = 0
  BY <1>1, <1>3, <1>4, <1>5, SfenceVmaDecodes
<1>7. x = Instr("SfenceVma", 0, x.rs1, x.rs2, 0)
  BY <1>1, <1>3, <1>4, ShapedIs
<1>8. Canonical(x) = x
  BY <1>1, CanonicalIs, OpcodeTables, ArithmeticTables, AmoTables, SystemTables, FloatTables,
       CompressedTables
<1>9. MemoryOperand(x) = NoAccess
  BY <1>1, NoOperand DEF Names
<1>10. Access32(w, Canonical(x)) = NoAccess
  BY <1>6, AccessIs
<1>11. Understood(x, width)
  <2>1. Major(w) % 4 = 3
    BY <1>6
  <2>2. Decoded32(w, width) = Canonical(x)
    BY <1>6, <1>7, <1>8
  <2>3. Access32(w, Canonical(x)) = MemoryOperand(x)
    BY <1>9, <1>10
  <2>4. QED
    BY <2>1, <2>2, <2>3 DEF Understood, w
<1>12. ~WritesXreg(w)
  BY <1>6, WritesIs
<1>13. Tracked(x)
  BY <1>2, <1>12 DEF Tracked, w
<1>14. QED
  BY <1>11, <1>13

LEMMA SinvalVmaUnderstood ==
  ASSUME NEW x, Shaped(x), x.op \in {"SinvalVma"}, NEW width \in {32, 64},
         SupportsXlen(x.op, width), Valid(x, width)
  PROVE  Understood(x, width) /\ Tracked(x)
<1> DEFINE w == Packed(x)
<1>1. /\ x.op \in {"SinvalVma"} /\ x.op \in DOMAIN VmaType
      /\ x.op \in Opcodes
  BY OpcodeTables, ArithmeticTables, AmoTables, SystemTables, FloatTables,
       CompressedTables DEF Shaped
<1>2. /\ RegisterFields[x.op] = {"rs1", "rs2"}
      /\ OtherFields[x.op] = {}
      /\ ImmKind[x.op] = "none"
  BY <1>1, VmaRow
<1>3. /\ x.rd \in Nat /\ x.rd < 32 /\ x.rs1 \in Nat /\ x.rs1 < 32
      /\ x.rs2 \in Nat /\ x.rs2 < 32 /\ x.rs3 \in Nat /\ x.rs3 < 32
      /\ x.rd = 0
      /\ x.rs3 = 0
      /\ x.imm \in Int
  BY <1>2 DEF Shaped
<1>4. x.imm = 0
  BY <1>2, <1>3 DEF Shaped
<1>5. w = R(VmaType["SinvalVma"], 0, x.rs1, x.rs2)
  BY <1>1, <1>3, <1>4, PackedIs
<1> HIDE DEF w
<1>6. /\ Decoded32(w, width) = Instr("SinvalVma", 0, x.rs1, x.rs2, 0)
      /\ Major(w) = 115
      /\ Funct3(w) = 0
  BY <1>1, <1>3, <1>4, <1>5, SinvalVmaDecodes
<1>7. x = Instr("SinvalVma", 0, x.rs1, x.rs2, 0)
  BY <1>1, <1>3, <1>4, ShapedIs
<1>8. Canonical(x) = x
  BY <1>1, CanonicalIs, OpcodeTables, ArithmeticTables, AmoTables, SystemTables, FloatTables,
       CompressedTables
<1>9. MemoryOperand(x) = NoAccess
  BY <1>1, NoOperand DEF Names
<1>10. Access32(w, Canonical(x)) = NoAccess
  BY <1>6, AccessIs
<1>11. Understood(x, width)
  <2>1. Major(w) % 4 = 3
    BY <1>6
  <2>2. Decoded32(w, width) = Canonical(x)
    BY <1>6, <1>7, <1>8
  <2>3. Access32(w, Canonical(x)) = MemoryOperand(x)
    BY <1>9, <1>10
  <2>4. QED
    BY <2>1, <2>2, <2>3 DEF Understood, w
<1>12. ~WritesXreg(w)
  BY <1>6, WritesIs
<1>13. Tracked(x)
  BY <1>2, <1>12 DEF Tracked, w
<1>14. QED
  BY <1>11, <1>13

LEMMA SystemUnderstood ==
  ASSUME NEW x, Shaped(x), x.op \in DOMAIN PlainType \ {"FenceI"}, NEW width \in {32, 64},
         SupportsXlen(x.op, width), Valid(x, width)
  PROVE  Understood(x, width) /\ Tracked(x)
<1> DEFINE w == Packed(x)
<1>1. /\ x.op \in DOMAIN PlainType \ {"FenceI"} /\ x.op \in DOMAIN PlainType
      /\ x.op \in Opcodes
  BY OpcodeTables, ArithmeticTables, AmoTables, SystemTables, FloatTables,
       CompressedTables DEF Shaped
<1>2. /\ RegisterFields[x.op] = {}
      /\ OtherFields[x.op] = {}
      /\ ImmKind[x.op] = "none"
  BY <1>1, PlainRow
<1>3. /\ x.rd \in Nat /\ x.rd < 32 /\ x.rs1 \in Nat /\ x.rs1 < 32
      /\ x.rs2 \in Nat /\ x.rs2 < 32 /\ x.rs3 \in Nat /\ x.rs3 < 32
      /\ x.rd = 0
      /\ x.rs1 = 0
      /\ x.rs2 = 0
      /\ x.rs3 = 0
      /\ x.imm \in Int
  BY <1>2 DEF Shaped
<1>4. x.imm = 0
  BY <1>2, <1>3 DEF Shaped
<1>5. w = R(PlainType[x.op], 0, 0, 0)
  BY <1>1, <1>3, <1>4, PackedIs
<1> HIDE DEF w
<1>6. /\ Decoded32(w, width) = Instr(x.op, 0, 0, 0, 0)
      /\ Major(w) = 115
      /\ Funct3(w) = 0
  BY <1>1, <1>3, <1>4, <1>5, SystemDecodes
<1>7. x = Instr(x.op, 0, 0, 0, 0)
  BY <1>1, <1>3, <1>4, ShapedIs
<1>8. Canonical(x) = x
  BY <1>1, CanonicalIs, OpcodeTables, ArithmeticTables, AmoTables, SystemTables, FloatTables,
       CompressedTables
<1>9. MemoryOperand(x) = NoAccess
  BY <1>1, NoOperand DEF Names
<1>10. Access32(w, Canonical(x)) = NoAccess
  BY <1>6, AccessIs
<1>11. Understood(x, width)
  <2>1. Major(w) % 4 = 3
    BY <1>6
  <2>2. Decoded32(w, width) = Canonical(x)
    BY <1>6, <1>7, <1>8
  <2>3. Access32(w, Canonical(x)) = MemoryOperand(x)
    BY <1>9, <1>10
  <2>4. QED
    BY <2>1, <2>2, <2>3 DEF Understood, w
<1>12. ~WritesXreg(w)
  BY <1>6, WritesIs
<1>13. Tracked(x)
  BY <1>2, <1>12 DEF Tracked, w
<1>14. QED
  BY <1>11, <1>13

LEMMA FloatBinaryUnderstood ==
  ASSUME NEW x, Shaped(x), x.op \in DOMAIN FloatBinaryType, NEW width \in {32, 64},
         SupportsXlen(x.op, width), Valid(x, width)
  PROVE  Understood(x, width) /\ Tracked(x)
<1> DEFINE w == Packed(x)
<1>1. /\ x.op \in DOMAIN FloatBinaryType /\ x.op \in DOMAIN FloatBinaryType
      /\ x.op \in Opcodes
  BY OpcodeTables, ArithmeticTables, AmoTables, SystemTables, FloatTables,
       CompressedTables DEF Shaped
<1>2. /\ RegisterFields[x.op] = {"rd", "rs1", "rs2"}
      /\ OtherFields[x.op] = {"rd", "rs1", "rs2"}
      /\ ImmKind[x.op] = "rounding"
  BY <1>1, FloatBinaryRow
<1>3. /\ x.rd \in Nat /\ x.rd < 32 /\ x.rs1 \in Nat /\ x.rs1 < 32
      /\ x.rs2 \in Nat /\ x.rs2 < 32 /\ x.rs3 \in Nat /\ x.rs3 < 32
      /\ x.rs3 = 0
      /\ x.imm \in Int
  BY <1>2 DEF Shaped
<1>4. x.imm \in Nat /\ x.imm < 8
  BY <1>2, <1>3 DEF Shaped
<1>5. w = PackFloat(FloatBinaryType[x.op], x.rd, x.rs1, x.rs2, 0, x.imm)
  BY <1>1, <1>3, <1>4, PackedIs
<1> HIDE DEF w
<1>6. /\ Decoded32(w, width) = Instr(x.op, x.rd, x.rs1, x.rs2, x.imm)
      /\ Major(w) = 83
      /\ Rd(w) = x.rd
      /\ Funct7(w) \notin {80, 81, 96, 97, 112, 113}
  BY <1>1, <1>3, <1>4, <1>5, FloatBinaryDecodes
<1>7. x = Instr(x.op, x.rd, x.rs1, x.rs2, x.imm)
  BY <1>1, <1>3, <1>4, ShapedIs
<1>8. Canonical(x) = x
  BY <1>1, CanonicalIs, OpcodeTables, ArithmeticTables, AmoTables, SystemTables, FloatTables,
       CompressedTables
<1>9. MemoryOperand(x) = NoAccess
  BY <1>1, NoOperand DEF Names
<1>10. Access32(w, Canonical(x)) = NoAccess
  BY <1>6, AccessIs
<1>11. Understood(x, width)
  <2>1. Major(w) % 4 = 3
    BY <1>6
  <2>2. Decoded32(w, width) = Canonical(x)
    BY <1>6, <1>7, <1>8
  <2>3. Access32(w, Canonical(x)) = MemoryOperand(x)
    BY <1>9, <1>10
  <2>4. QED
    BY <2>1, <2>2, <2>3 DEF Understood, w
<1>12. ~WritesXreg(w)
  BY <1>6, WritesIs
<1>13. Tracked(x)
  BY <1>2, <1>12 DEF Tracked, w
<1>14. QED
  BY <1>11, <1>13

LEMMA FloatRootUnderstood ==
  ASSUME NEW x, Shaped(x), x.op \in {"FsqrtS", "FsqrtD"}, NEW width \in {32, 64},
         SupportsXlen(x.op, width), Valid(x, width)
  PROVE  Understood(x, width) /\ Tracked(x)
<1> DEFINE w == Packed(x)
<1>1. /\ x.op \in {"FsqrtS", "FsqrtD"} /\ x.op \in DOMAIN FloatUnaryType
      /\ x.op \in Opcodes
  BY OpcodeTables, ArithmeticTables, AmoTables, SystemTables, FloatTables,
       CompressedTables DEF Shaped
<1>2. /\ RegisterFields[x.op] = {"rd", "rs1"}
      /\ OtherFields[x.op] = {"rd", "rs1"}
      /\ ImmKind[x.op] = "rounding"
  BY <1>1, FloatUnaryRow
<1>3. /\ x.rd \in Nat /\ x.rd < 32 /\ x.rs1 \in Nat /\ x.rs1 < 32
      /\ x.rs2 \in Nat /\ x.rs2 < 32 /\ x.rs3 \in Nat /\ x.rs3 < 32
      /\ x.rs2 = 0
      /\ x.rs3 = 0
      /\ x.imm \in Int
  BY <1>2 DEF Shaped
<1>4. x.imm \in Nat /\ x.imm < 8
  BY <1>2, <1>3 DEF Shaped
<1>5. w = PackFloat(FloatUnaryType[x.op], x.rd, x.rs1, 0, 0, x.imm)
  BY <1>1, <1>3, <1>4, PackedIs
<1> HIDE DEF w
<1>6. /\ Decoded32(w, width) = Instr(x.op, x.rd, x.rs1, 0, x.imm)
      /\ Major(w) = 83
      /\ Rd(w) = x.rd
      /\ Funct7(w) \notin {80, 81, 96, 97, 112, 113}
  BY <1>1, <1>3, <1>4, <1>5, FloatRootDecodes
<1>7. x = Instr(x.op, x.rd, x.rs1, 0, x.imm)
  BY <1>1, <1>3, <1>4, ShapedIs
<1>8. Canonical(x) = x
  BY <1>1, CanonicalIs, OpcodeTables, ArithmeticTables, AmoTables, SystemTables, FloatTables,
       CompressedTables
<1>9. MemoryOperand(x) = NoAccess
  BY <1>1, NoOperand DEF Names
<1>10. Access32(w, Canonical(x)) = NoAccess
  BY <1>6, AccessIs
<1>11. Understood(x, width)
  <2>1. Major(w) % 4 = 3
    BY <1>6
  <2>2. Decoded32(w, width) = Canonical(x)
    BY <1>6, <1>7, <1>8
  <2>3. Access32(w, Canonical(x)) = MemoryOperand(x)
    BY <1>9, <1>10
  <2>4. QED
    BY <2>1, <2>2, <2>3 DEF Understood, w
<1>12. ~WritesXreg(w)
  BY <1>6, WritesIs
<1>13. Tracked(x)
  BY <1>2, <1>12 DEF Tracked, w
<1>14. QED
  BY <1>11, <1>13

LEMMA FloatWidthUnderstood ==
  ASSUME NEW x, Shaped(x), x.op \in {"FcvtSD", "FcvtDS"}, NEW width \in {32, 64},
         SupportsXlen(x.op, width), Valid(x, width)
  PROVE  Understood(x, width) /\ Tracked(x)
<1> DEFINE w == Packed(x)
<1>1. /\ x.op \in {"FcvtSD", "FcvtDS"} /\ x.op \in DOMAIN FloatUnaryType
      /\ x.op \in Opcodes
  BY OpcodeTables, ArithmeticTables, AmoTables, SystemTables, FloatTables,
       CompressedTables DEF Shaped
<1>2. /\ RegisterFields[x.op] = {"rd", "rs1"}
      /\ OtherFields[x.op] = {"rd", "rs1"}
      /\ ImmKind[x.op] = "rounding"
  BY <1>1, FloatUnaryRow
<1>3. /\ x.rd \in Nat /\ x.rd < 32 /\ x.rs1 \in Nat /\ x.rs1 < 32
      /\ x.rs2 \in Nat /\ x.rs2 < 32 /\ x.rs3 \in Nat /\ x.rs3 < 32
      /\ x.rs2 = 0
      /\ x.rs3 = 0
      /\ x.imm \in Int
  BY <1>2 DEF Shaped
<1>4. x.imm \in Nat /\ x.imm < 8
  BY <1>2, <1>3 DEF Shaped
<1>5. w = PackFloat(FloatUnaryType[x.op], x.rd, x.rs1, 0, 0, x.imm)
  BY <1>1, <1>3, <1>4, PackedIs
<1> HIDE DEF w
<1>6. /\ Decoded32(w, width) = Instr(x.op, x.rd, x.rs1, 0, x.imm)
      /\ Major(w) = 83
      /\ Rd(w) = x.rd
      /\ Funct7(w) \notin {80, 81, 96, 97, 112, 113}
  BY <1>1, <1>3, <1>4, <1>5, FloatWidthDecodes
<1>7. x = Instr(x.op, x.rd, x.rs1, 0, x.imm)
  BY <1>1, <1>3, <1>4, ShapedIs
<1>8. Canonical(x) = x
  BY <1>1, CanonicalIs, OpcodeTables, ArithmeticTables, AmoTables, SystemTables, FloatTables,
       CompressedTables
<1>9. MemoryOperand(x) = NoAccess
  BY <1>1, NoOperand DEF Names
<1>10. Access32(w, Canonical(x)) = NoAccess
  BY <1>6, AccessIs
<1>11. Understood(x, width)
  <2>1. Major(w) % 4 = 3
    BY <1>6
  <2>2. Decoded32(w, width) = Canonical(x)
    BY <1>6, <1>7, <1>8
  <2>3. Access32(w, Canonical(x)) = MemoryOperand(x)
    BY <1>9, <1>10
  <2>4. QED
    BY <2>1, <2>2, <2>3 DEF Understood, w
<1>12. ~WritesXreg(w)
  BY <1>6, WritesIs
<1>13. Tracked(x)
  BY <1>2, <1>12 DEF Tracked, w
<1>14. QED
  BY <1>11, <1>13

LEMMA FloatToIntUnderstood ==
  ASSUME NEW x, Shaped(x), x.op \in DOMAIN FloatToIntType, NEW width \in {32, 64},
         SupportsXlen(x.op, width), Valid(x, width)
  PROVE  Understood(x, width) /\ Tracked(x)
<1> DEFINE w == Packed(x)
<1>1. /\ x.op \in DOMAIN FloatToIntType /\ x.op \in DOMAIN FloatToIntType
      /\ x.op \in Opcodes
  BY OpcodeTables, ArithmeticTables, AmoTables, SystemTables, FloatTables,
       CompressedTables DEF Shaped
<1>2. /\ RegisterFields[x.op] = {"rd", "rs1"}
      /\ OtherFields[x.op] = {"rs1"}
      /\ ImmKind[x.op] = "rounding"
  BY <1>1, FloatToIntRow
<1>3. /\ x.rd \in Nat /\ x.rd < 32 /\ x.rs1 \in Nat /\ x.rs1 < 32
      /\ x.rs2 \in Nat /\ x.rs2 < 32 /\ x.rs3 \in Nat /\ x.rs3 < 32
      /\ x.rs2 = 0
      /\ x.rs3 = 0
      /\ x.imm \in Int
  BY <1>2 DEF Shaped
<1>4. x.imm \in Nat /\ x.imm < 8
  BY <1>2, <1>3 DEF Shaped
<1>5. width = 32 => x.op \notin {"FcvtLS", "FcvtLuS", "FcvtLD", "FcvtLuD"}
  BY XlenIs, OpcodeTables, ArithmeticTables, AmoTables, SystemTables, FloatTables,
       CompressedTables
<1>6. w = PackFloat(FloatToIntType[x.op], x.rd, x.rs1, 0, 0, x.imm)
  BY <1>1, <1>3, <1>4, <1>5, PackedIs
<1> HIDE DEF w
<1>7. /\ Decoded32(w, width) = Instr(x.op, x.rd, x.rs1, 0, x.imm)
      /\ Major(w) = 83
      /\ Rd(w) = x.rd
      /\ Funct7(w) \in {80, 81, 96, 97, 112, 113}
  BY <1>1, <1>3, <1>4, <1>5, <1>6, FloatToIntDecodes
<1>8. x = Instr(x.op, x.rd, x.rs1, 0, x.imm)
  BY <1>1, <1>3, <1>4, <1>5, ShapedIs
<1>9. Canonical(x) = x
  BY <1>1, CanonicalIs, OpcodeTables, ArithmeticTables, AmoTables, SystemTables, FloatTables,
       CompressedTables
<1>10. MemoryOperand(x) = NoAccess
  BY <1>1, NoOperand DEF Names
<1>11. Access32(w, Canonical(x)) = NoAccess
  BY <1>7, AccessIs
<1>12. Understood(x, width)
  <2>1. Major(w) % 4 = 3
    BY <1>7
  <2>2. Decoded32(w, width) = Canonical(x)
    BY <1>7, <1>8, <1>9
  <2>3. Access32(w, Canonical(x)) = MemoryOperand(x)
    BY <1>10, <1>11
  <2>4. QED
    BY <2>1, <2>2, <2>3 DEF Understood, w
<1>13. WritesXreg(w) /\ Rd(w) = x.rd
  BY <1>7, WritesIs
<1>14. Tracked(x)
  BY <1>2, <1>13 DEF Tracked, w
<1>15. QED
  BY <1>12, <1>14

LEMMA IntToFloatUnderstood ==
  ASSUME NEW x, Shaped(x), x.op \in DOMAIN IntToFloatType, NEW width \in {32, 64},
         SupportsXlen(x.op, width), Valid(x, width)
  PROVE  Understood(x, width) /\ Tracked(x)
<1> DEFINE w == Packed(x)
<1>1. /\ x.op \in DOMAIN IntToFloatType /\ x.op \in DOMAIN IntToFloatType
      /\ x.op \in Opcodes
  BY OpcodeTables, ArithmeticTables, AmoTables, SystemTables, FloatTables,
       CompressedTables DEF Shaped
<1>2. /\ RegisterFields[x.op] = {"rd", "rs1"}
      /\ OtherFields[x.op] = {"rd"}
      /\ ImmKind[x.op] = "rounding"
  BY <1>1, IntToFloatRow
<1>3. /\ x.rd \in Nat /\ x.rd < 32 /\ x.rs1 \in Nat /\ x.rs1 < 32
      /\ x.rs2 \in Nat /\ x.rs2 < 32 /\ x.rs3 \in Nat /\ x.rs3 < 32
      /\ x.rs2 = 0
      /\ x.rs3 = 0
      /\ x.imm \in Int
  BY <1>2 DEF Shaped
<1>4. x.imm \in Nat /\ x.imm < 8
  BY <1>2, <1>3 DEF Shaped
<1>5. width = 32 => x.op \notin {"FcvtSL", "FcvtSLu", "FcvtDL", "FcvtDLu"}
  BY XlenIs, OpcodeTables, ArithmeticTables, AmoTables, SystemTables, FloatTables,
       CompressedTables
<1>6. w = PackFloat(IntToFloatType[x.op], x.rd, x.rs1, 0, 0, x.imm)
  BY <1>1, <1>3, <1>4, <1>5, PackedIs
<1> HIDE DEF w
<1>7. /\ Decoded32(w, width) = Instr(x.op, x.rd, x.rs1, 0, x.imm)
      /\ Major(w) = 83
      /\ Rd(w) = x.rd
      /\ Funct7(w) \notin {80, 81, 96, 97, 112, 113}
  BY <1>1, <1>3, <1>4, <1>5, <1>6, IntToFloatDecodes
<1>8. x = Instr(x.op, x.rd, x.rs1, 0, x.imm)
  BY <1>1, <1>3, <1>4, <1>5, ShapedIs
<1>9. Canonical(x) = x
  BY <1>1, CanonicalIs, OpcodeTables, ArithmeticTables, AmoTables, SystemTables, FloatTables,
       CompressedTables
<1>10. MemoryOperand(x) = NoAccess
  BY <1>1, NoOperand DEF Names
<1>11. Access32(w, Canonical(x)) = NoAccess
  BY <1>7, AccessIs
<1>12. Understood(x, width)
  <2>1. Major(w) % 4 = 3
    BY <1>7
  <2>2. Decoded32(w, width) = Canonical(x)
    BY <1>7, <1>8, <1>9
  <2>3. Access32(w, Canonical(x)) = MemoryOperand(x)
    BY <1>10, <1>11
  <2>4. QED
    BY <2>1, <2>2, <2>3 DEF Understood, w
<1>13. ~WritesXreg(w)
  BY <1>7, WritesIs
<1>14. Tracked(x)
  BY <1>2, <1>13 DEF Tracked, w
<1>15. QED
  BY <1>12, <1>14

LEMMA FloatSelectUnderstood ==
  ASSUME NEW x, Shaped(x), x.op \in DOMAIN FloatSelectType, NEW width \in {32, 64},
         SupportsXlen(x.op, width), Valid(x, width)
  PROVE  Understood(x, width) /\ Tracked(x)
<1> DEFINE w == Packed(x)
<1>1. /\ x.op \in DOMAIN FloatSelectType /\ x.op \in DOMAIN FloatSelectType
      /\ x.op \in Opcodes
  BY OpcodeTables, ArithmeticTables, AmoTables, SystemTables, FloatTables,
       CompressedTables DEF Shaped
<1>2. /\ RegisterFields[x.op] = {"rd", "rs1", "rs2"}
      /\ OtherFields[x.op] = {"rd", "rs1", "rs2"}
      /\ ImmKind[x.op] = "none"
  BY <1>1, FloatSelectRow
<1>3. /\ x.rd \in Nat /\ x.rd < 32 /\ x.rs1 \in Nat /\ x.rs1 < 32
      /\ x.rs2 \in Nat /\ x.rs2 < 32 /\ x.rs3 \in Nat /\ x.rs3 < 32
      /\ x.rs3 = 0
      /\ x.imm \in Int
  BY <1>2 DEF Shaped
<1>4. x.imm = 0
  BY <1>2, <1>3 DEF Shaped
<1>5. w = PackFloat(FloatSelectType[x.op], x.rd, x.rs1, x.rs2, 0, 0)
  BY <1>1, <1>3, <1>4, PackedIs
<1> HIDE DEF w
<1>6. /\ Decoded32(w, width) = Instr(x.op, x.rd, x.rs1, x.rs2, 0)
      /\ Major(w) = 83
      /\ Rd(w) = x.rd
      /\ Funct7(w) \notin {80, 81, 96, 97, 112, 113}
  BY <1>1, <1>3, <1>4, <1>5, FloatSelectDecodes
<1>7. x = Instr(x.op, x.rd, x.rs1, x.rs2, 0)
  BY <1>1, <1>3, <1>4, ShapedIs
<1>8. Canonical(x) = x
  BY <1>1, CanonicalIs, OpcodeTables, ArithmeticTables, AmoTables, SystemTables, FloatTables,
       CompressedTables
<1>9. MemoryOperand(x) = NoAccess
  BY <1>1, NoOperand DEF Names
<1>10. Access32(w, Canonical(x)) = NoAccess
  BY <1>6, AccessIs
<1>11. Understood(x, width)
  <2>1. Major(w) % 4 = 3
    BY <1>6
  <2>2. Decoded32(w, width) = Canonical(x)
    BY <1>6, <1>7, <1>8
  <2>3. Access32(w, Canonical(x)) = MemoryOperand(x)
    BY <1>9, <1>10
  <2>4. QED
    BY <2>1, <2>2, <2>3 DEF Understood, w
<1>12. ~WritesXreg(w)
  BY <1>6, WritesIs
<1>13. Tracked(x)
  BY <1>2, <1>12 DEF Tracked, w
<1>14. QED
  BY <1>11, <1>13

LEMMA FloatCompareUnderstood ==
  ASSUME NEW x, Shaped(x), x.op \in DOMAIN FloatCompareType, NEW width \in {32, 64},
         SupportsXlen(x.op, width), Valid(x, width)
  PROVE  Understood(x, width) /\ Tracked(x)
<1> DEFINE w == Packed(x)
<1>1. /\ x.op \in DOMAIN FloatCompareType /\ x.op \in DOMAIN FloatCompareType
      /\ x.op \in Opcodes
  BY OpcodeTables, ArithmeticTables, AmoTables, SystemTables, FloatTables,
       CompressedTables DEF Shaped
<1>2. /\ RegisterFields[x.op] = {"rd", "rs1", "rs2"}
      /\ OtherFields[x.op] = {"rs1", "rs2"}
      /\ ImmKind[x.op] = "none"
  BY <1>1, FloatCompareRow
<1>3. /\ x.rd \in Nat /\ x.rd < 32 /\ x.rs1 \in Nat /\ x.rs1 < 32
      /\ x.rs2 \in Nat /\ x.rs2 < 32 /\ x.rs3 \in Nat /\ x.rs3 < 32
      /\ x.rs3 = 0
      /\ x.imm \in Int
  BY <1>2 DEF Shaped
<1>4. x.imm = 0
  BY <1>2, <1>3 DEF Shaped
<1>5. w = PackFloat(FloatCompareType[x.op], x.rd, x.rs1, x.rs2, 0, 0)
  BY <1>1, <1>3, <1>4, PackedIs
<1> HIDE DEF w
<1>6. /\ Decoded32(w, width) = Instr(x.op, x.rd, x.rs1, x.rs2, 0)
      /\ Major(w) = 83
      /\ Rd(w) = x.rd
      /\ Funct7(w) \in {80, 81, 96, 97, 112, 113}
  BY <1>1, <1>3, <1>4, <1>5, FloatCompareDecodes
<1>7. x = Instr(x.op, x.rd, x.rs1, x.rs2, 0)
  BY <1>1, <1>3, <1>4, ShapedIs
<1>8. Canonical(x) = x
  BY <1>1, CanonicalIs, OpcodeTables, ArithmeticTables, AmoTables, SystemTables, FloatTables,
       CompressedTables
<1>9. MemoryOperand(x) = NoAccess
  BY <1>1, NoOperand DEF Names
<1>10. Access32(w, Canonical(x)) = NoAccess
  BY <1>6, AccessIs
<1>11. Understood(x, width)
  <2>1. Major(w) % 4 = 3
    BY <1>6
  <2>2. Decoded32(w, width) = Canonical(x)
    BY <1>6, <1>7, <1>8
  <2>3. Access32(w, Canonical(x)) = MemoryOperand(x)
    BY <1>9, <1>10
  <2>4. QED
    BY <2>1, <2>2, <2>3 DEF Understood, w
<1>12. WritesXreg(w) /\ Rd(w) = x.rd
  BY <1>6, WritesIs
<1>13. Tracked(x)
  BY <1>2, <1>12 DEF Tracked, w
<1>14. QED
  BY <1>11, <1>13

LEMMA FloatToBitsUnderstood ==
  ASSUME NEW x, Shaped(x), x.op \in DOMAIN FloatToBitsType, NEW width \in {32, 64},
         SupportsXlen(x.op, width), Valid(x, width)
  PROVE  Understood(x, width) /\ Tracked(x)
<1> DEFINE w == Packed(x)
<1>1. /\ x.op \in DOMAIN FloatToBitsType /\ x.op \in DOMAIN FloatToBitsType
      /\ x.op \in Opcodes
  BY OpcodeTables, ArithmeticTables, AmoTables, SystemTables, FloatTables,
       CompressedTables DEF Shaped
<1>2. /\ RegisterFields[x.op] = {"rd", "rs1"}
      /\ OtherFields[x.op] = {"rs1"}
      /\ ImmKind[x.op] = "none"
  BY <1>1, FloatToBitsRow
<1>3. /\ x.rd \in Nat /\ x.rd < 32 /\ x.rs1 \in Nat /\ x.rs1 < 32
      /\ x.rs2 \in Nat /\ x.rs2 < 32 /\ x.rs3 \in Nat /\ x.rs3 < 32
      /\ x.rs2 = 0
      /\ x.rs3 = 0
      /\ x.imm \in Int
  BY <1>2 DEF Shaped
<1>4. x.imm = 0
  BY <1>2, <1>3 DEF Shaped
<1>5. width = 32 => x.op # "FmvXD"
  BY XlenIs, OpcodeTables, ArithmeticTables, AmoTables, SystemTables, FloatTables,
       CompressedTables
<1>6. w = PackFloat(FloatToBitsType[x.op], x.rd, x.rs1, 0, 0, 0)
  BY <1>1, <1>3, <1>4, <1>5, PackedIs
<1> HIDE DEF w
<1>7. /\ Decoded32(w, width) = Instr(x.op, x.rd, x.rs1, 0, 0)
      /\ Major(w) = 83
      /\ Rd(w) = x.rd
      /\ Funct7(w) \in {80, 81, 96, 97, 112, 113}
  BY <1>1, <1>3, <1>4, <1>5, <1>6, FloatToBitsDecodes
<1>8. x = Instr(x.op, x.rd, x.rs1, 0, 0)
  BY <1>1, <1>3, <1>4, <1>5, ShapedIs
<1>9. Canonical(x) = x
  BY <1>1, CanonicalIs, OpcodeTables, ArithmeticTables, AmoTables, SystemTables, FloatTables,
       CompressedTables
<1>10. MemoryOperand(x) = NoAccess
  BY <1>1, NoOperand DEF Names
<1>11. Access32(w, Canonical(x)) = NoAccess
  BY <1>7, AccessIs
<1>12. Understood(x, width)
  <2>1. Major(w) % 4 = 3
    BY <1>7
  <2>2. Decoded32(w, width) = Canonical(x)
    BY <1>7, <1>8, <1>9
  <2>3. Access32(w, Canonical(x)) = MemoryOperand(x)
    BY <1>10, <1>11
  <2>4. QED
    BY <2>1, <2>2, <2>3 DEF Understood, w
<1>13. WritesXreg(w) /\ Rd(w) = x.rd
  BY <1>7, WritesIs
<1>14. Tracked(x)
  BY <1>2, <1>13 DEF Tracked, w
<1>15. QED
  BY <1>12, <1>14

LEMMA BitsToFloatUnderstood ==
  ASSUME NEW x, Shaped(x), x.op \in DOMAIN BitsToFloatType, NEW width \in {32, 64},
         SupportsXlen(x.op, width), Valid(x, width)
  PROVE  Understood(x, width) /\ Tracked(x)
<1> DEFINE w == Packed(x)
<1>1. /\ x.op \in DOMAIN BitsToFloatType /\ x.op \in DOMAIN BitsToFloatType
      /\ x.op \in Opcodes
  BY OpcodeTables, ArithmeticTables, AmoTables, SystemTables, FloatTables,
       CompressedTables DEF Shaped
<1>2. /\ RegisterFields[x.op] = {"rd", "rs1"}
      /\ OtherFields[x.op] = {"rd"}
      /\ ImmKind[x.op] = "none"
  BY <1>1, BitsToFloatRow
<1>3. /\ x.rd \in Nat /\ x.rd < 32 /\ x.rs1 \in Nat /\ x.rs1 < 32
      /\ x.rs2 \in Nat /\ x.rs2 < 32 /\ x.rs3 \in Nat /\ x.rs3 < 32
      /\ x.rs2 = 0
      /\ x.rs3 = 0
      /\ x.imm \in Int
  BY <1>2 DEF Shaped
<1>4. x.imm = 0
  BY <1>2, <1>3 DEF Shaped
<1>5. width = 32 => x.op # "FmvDX"
  BY XlenIs, OpcodeTables, ArithmeticTables, AmoTables, SystemTables, FloatTables,
       CompressedTables
<1>6. w = PackFloat(BitsToFloatType[x.op], x.rd, x.rs1, 0, 0, 0)
  BY <1>1, <1>3, <1>4, <1>5, PackedIs
<1> HIDE DEF w
<1>7. /\ Decoded32(w, width) = Instr(x.op, x.rd, x.rs1, 0, 0)
      /\ Major(w) = 83
      /\ Rd(w) = x.rd
      /\ Funct7(w) \notin {80, 81, 96, 97, 112, 113}
  BY <1>1, <1>3, <1>4, <1>5, <1>6, BitsToFloatDecodes
<1>8. x = Instr(x.op, x.rd, x.rs1, 0, 0)
  BY <1>1, <1>3, <1>4, <1>5, ShapedIs
<1>9. Canonical(x) = x
  BY <1>1, CanonicalIs, OpcodeTables, ArithmeticTables, AmoTables, SystemTables, FloatTables,
       CompressedTables
<1>10. MemoryOperand(x) = NoAccess
  BY <1>1, NoOperand DEF Names
<1>11. Access32(w, Canonical(x)) = NoAccess
  BY <1>7, AccessIs
<1>12. Understood(x, width)
  <2>1. Major(w) % 4 = 3
    BY <1>7
  <2>2. Decoded32(w, width) = Canonical(x)
    BY <1>7, <1>8, <1>9
  <2>3. Access32(w, Canonical(x)) = MemoryOperand(x)
    BY <1>10, <1>11
  <2>4. QED
    BY <2>1, <2>2, <2>3 DEF Understood, w
<1>13. ~WritesXreg(w)
  BY <1>7, WritesIs
<1>14. Tracked(x)
  BY <1>2, <1>13 DEF Tracked, w
<1>15. QED
  BY <1>12, <1>14

LEMMA FloatTernaryUnderstood ==
  ASSUME NEW x, Shaped(x), x.op \in DOMAIN FloatTernaryType, NEW width \in {32, 64},
         SupportsXlen(x.op, width), Valid(x, width)
  PROVE  Understood(x, width) /\ Tracked(x)
<1> DEFINE w == Packed(x)
<1>1. /\ x.op \in DOMAIN FloatTernaryType /\ x.op \in DOMAIN FloatTernaryType
      /\ x.op \in Opcodes
  BY OpcodeTables, ArithmeticTables, AmoTables, SystemTables, FloatTables,
       CompressedTables DEF Shaped
<1>2. /\ RegisterFields[x.op] = {"rd", "rs1", "rs2", "rs3"}
      /\ OtherFields[x.op] = {"rd", "rs1", "rs2", "rs3"}
      /\ ImmKind[x.op] = "rounding"
  BY <1>1, FloatTernaryRow
<1>3. /\ x.rd \in Nat /\ x.rd < 32 /\ x.rs1 \in Nat /\ x.rs1 < 32
      /\ x.rs2 \in Nat /\ x.rs2 < 32 /\ x.rs3 \in Nat /\ x.rs3 < 32
      /\ x.imm \in Int
  BY <1>2 DEF Shaped
<1>4. x.imm \in Nat /\ x.imm < 8
  BY <1>2, <1>3 DEF Shaped
<1>5. w = PackFloat(FloatTernaryType[x.op], x.rd, x.rs1, x.rs2, x.rs3, x.imm)
  BY <1>1, <1>3, <1>4, PackedIs
<1> HIDE DEF w
<1>6. /\ Decoded32(w, width) = [Instr(x.op, x.rd, x.rs1, x.rs2, x.imm) EXCEPT !.rs3 = x.rs3]
      /\ Major(w) \in {67, 71, 75, 79}
  BY <1>1, <1>3, <1>4, <1>5, FloatTernaryDecodes
<1>7. x = [Instr(x.op, x.rd, x.rs1, x.rs2, x.imm) EXCEPT !.rs3 = x.rs3]
  BY DEF Shaped, Instr
<1>8. Canonical(x) = x
  BY <1>1, CanonicalIs, OpcodeTables, ArithmeticTables, AmoTables, SystemTables, FloatTables,
       CompressedTables
<1>9. MemoryOperand(x) = NoAccess
  BY <1>1, NoOperand DEF Names
<1>10. Access32(w, Canonical(x)) = NoAccess
  BY <1>6, AccessIs
<1>11. Understood(x, width)
  <2>1. Major(w) % 4 = 3
    BY <1>6
  <2>2. Decoded32(w, width) = Canonical(x)
    BY <1>6, <1>7, <1>8
  <2>3. Access32(w, Canonical(x)) = MemoryOperand(x)
    BY <1>9, <1>10
  <2>4. QED
    BY <2>1, <2>2, <2>3 DEF Understood, w
<1>12. ~WritesXreg(w)
  BY <1>6, WritesIs
<1>13. Tracked(x)
  BY <1>2, <1>12 DEF Tracked, w
<1>14. QED
  BY <1>11, <1>13

Jumps == Names({BType, JType, JalrType})

LEMMA LongUnderstood ==
  ASSUME NEW x, Shaped(x), x.op \in LongFormats, NEW width \in {32, 64},
         SupportsXlen(x.op, width), Valid(x, width)
  PROVE  Understood(x, width) /\ (x.op \notin Jumps => Tracked(x))
<1>1. CASE x.op \in DOMAIN LoadType
  BY <1>1, LoadUnderstood
<1>2. CASE x.op \in DOMAIN FloatLoadType
  BY <1>2, FloatLoadUnderstood
<1>3. CASE x.op \in DOMAIN StoreType
  BY <1>3, StoreUnderstood
<1>4. CASE x.op \in DOMAIN FloatStoreType
  BY <1>4, FloatStoreUnderstood
<1>5. CASE x.op \in DOMAIN ImmType \ {"Addiw"}
  BY <1>5, ImmUnderstood
<1>6. CASE x.op \in {"Addiw"}
  BY <1>6, AddiwUnderstood
<1>7. CASE x.op \in {"Jalr"}
  BY <1>7, JalrUnderstood, OpcodeTables DEF Jumps, Names
<1>8. CASE x.op \in DOMAIN BType
  BY <1>8, BranchUnderstood, OpcodeTables DEF Jumps, Names
<1>9. CASE x.op \in {"Jal"}
  BY <1>9, JalUnderstood, OpcodeTables DEF Jumps, Names
<1>10. CASE x.op \in {"Lui"}
  BY <1>10, LuiUnderstood
<1>11. CASE x.op \in {"Auipc"}
  BY <1>11, AuipcUnderstood
<1>12. CASE x.op \in DOMAIN OpType
  BY <1>12, OpUnderstood
<1>13. CASE x.op \in DOMAIN MulType
  BY <1>13, MulUnderstood
<1>14. CASE x.op \in DOMAIN OpWType
  BY <1>14, OpWUnderstood
<1>15. CASE x.op \in DOMAIN MulWType
  BY <1>15, MulWUnderstood
<1>16. CASE x.op \in DOMAIN ShiftWType
  BY <1>16, ShiftWUnderstood
<1>17. CASE x.op \in DOMAIN ShiftType
  BY <1>17, ShiftUnderstood
<1>18. CASE x.op \in DOMAIN AmoType \ {"LrW"}
  BY <1>18, AmoWUnderstood
<1>19. CASE x.op \in {"LrW"}
  BY <1>19, LrWUnderstood
<1>20. CASE x.op \in DOMAIN AmoDType \ {"LrD"}
  BY <1>20, AmoDUnderstood
<1>21. CASE x.op \in {"LrD"}
  BY <1>21, LrDUnderstood
<1>22. CASE x.op \in {"Fence"}
  BY <1>22, FenceUnderstood
<1>23. CASE x.op \in {"FenceI"}
  BY <1>23, FenceIUnderstood
<1>24. CASE x.op \in DOMAIN CsrType
  BY <1>24, CsrUnderstood
<1>25. CASE x.op \in DOMAIN CsrImmType
  BY <1>25, CsrImmUnderstood
<1>26. CASE x.op \in {"SfenceVma"}
  BY <1>26, SfenceVmaUnderstood
<1>27. CASE x.op \in {"SinvalVma"}
  BY <1>27, SinvalVmaUnderstood
<1>28. CASE x.op \in DOMAIN PlainType \ {"FenceI"}
  BY <1>28, SystemUnderstood
<1>29. CASE x.op \in DOMAIN FloatBinaryType
  BY <1>29, FloatBinaryUnderstood
<1>30. CASE x.op \in {"FsqrtS", "FsqrtD"}
  BY <1>30, FloatRootUnderstood
<1>31. CASE x.op \in {"FcvtSD", "FcvtDS"}
  BY <1>31, FloatWidthUnderstood
<1>32. CASE x.op \in DOMAIN FloatToIntType
  BY <1>32, FloatToIntUnderstood
<1>33. CASE x.op \in DOMAIN IntToFloatType
  BY <1>33, IntToFloatUnderstood
<1>34. CASE x.op \in DOMAIN FloatSelectType
  BY <1>34, FloatSelectUnderstood
<1>35. CASE x.op \in DOMAIN FloatCompareType
  BY <1>35, FloatCompareUnderstood
<1>36. CASE x.op \in DOMAIN FloatToBitsType
  BY <1>36, FloatToBitsUnderstood
<1>37. CASE x.op \in DOMAIN BitsToFloatType
  BY <1>37, BitsToFloatUnderstood
<1>38. CASE x.op \in DOMAIN FloatTernaryType
  BY <1>38, FloatTernaryUnderstood
<1>39. \/ x.op \in DOMAIN LoadType
      \/ x.op \in DOMAIN FloatLoadType
      \/ x.op \in DOMAIN StoreType
      \/ x.op \in DOMAIN FloatStoreType
      \/ x.op \in DOMAIN ImmType \ {"Addiw"}
      \/ x.op \in {"Addiw"}
      \/ x.op \in {"Jalr"}
      \/ x.op \in DOMAIN BType
      \/ x.op \in {"Jal"}
      \/ x.op \in {"Lui"}
      \/ x.op \in {"Auipc"}
      \/ x.op \in DOMAIN OpType
      \/ x.op \in DOMAIN MulType
      \/ x.op \in DOMAIN OpWType
      \/ x.op \in DOMAIN MulWType
      \/ x.op \in DOMAIN ShiftWType
      \/ x.op \in DOMAIN ShiftType
      \/ x.op \in DOMAIN AmoType \ {"LrW"}
      \/ x.op \in {"LrW"}
      \/ x.op \in DOMAIN AmoDType \ {"LrD"}
      \/ x.op \in {"LrD"}
      \/ x.op \in {"Fence"}
      \/ x.op \in {"FenceI"}
      \/ x.op \in DOMAIN CsrType
      \/ x.op \in DOMAIN CsrImmType
      \/ x.op \in {"SfenceVma"}
      \/ x.op \in {"SinvalVma"}
      \/ x.op \in DOMAIN PlainType \ {"FenceI"}
      \/ x.op \in DOMAIN FloatBinaryType
      \/ x.op \in {"FsqrtS", "FsqrtD"}
      \/ x.op \in {"FcvtSD", "FcvtDS"}
      \/ x.op \in DOMAIN FloatToIntType
      \/ x.op \in DOMAIN IntToFloatType
      \/ x.op \in DOMAIN FloatSelectType
      \/ x.op \in DOMAIN FloatCompareType
      \/ x.op \in DOMAIN FloatToBitsType
      \/ x.op \in DOMAIN BitsToFloatType
      \/ x.op \in DOMAIN FloatTernaryType
  BY OpcodeTables, SystemTables, FloatTables, AmoTables DEF LongFormats, Names, FloatTypes
<1>40. QED
  BY <1>1, <1>2, <1>3, <1>4, <1>5, <1>6, <1>7, <1>8, <1>9, <1>10, <1>11, <1>12, <1>13, <1>14, <1>15, <1>16, <1>17, <1>18, <1>19, <1>20, <1>21, <1>22, <1>23, <1>24, <1>25, <1>26, <1>27, <1>28, <1>29, <1>30, <1>31, <1>32, <1>33, <1>34, <1>35, <1>36, <1>37, <1>38, <1>39, Zenon

\* The two lowest bits of a word that has thirty-two.
LEMMA LowestBits ==
  ASSUME NEW w, Major(w) % 4 = 3
  PROVE  {0, 1} \subseteq w
<1>1. PICK bits : bits = Run(w, 6, 0, -0)
  OBVIOUS
<1>2. /\ 0 \in bits <=> 0 \in w
      /\ 1 \in bits <=> 1 \in w
  BY <1>1 DEF Run
<1>3. Major(w) = Number(bits)
  BY <1>1 DEF Major, Field
<1>4. PICK a \in {0, 1}, b \in {0, 2}, c \in {0, 4}, d \in {0, 8}, e \in {0, 16},
           f \in {0, 32}, g \in {0, 64} :
          /\ Number(bits) = a + b + c + d + e + f + g
          /\ a = 1 => 0 \in bits
          /\ b = 2 => 1 \in bits
  <2> DEFINE of(k, v) == IF k \in bits THEN v ELSE 0
  <2>1. \A k \in 7 .. 20 : k \notin bits
    BY <1>1 DEF Run
  <2>2. /\ of(0, 1) \in {0, 1} /\ of(1, 2) \in {0, 2} /\ of(2, 4) \in {0, 4}
        /\ of(3, 8) \in {0, 8} /\ of(4, 16) \in {0, 16} /\ of(5, 32) \in {0, 32}
        /\ of(6, 64) \in {0, 64}
    OBVIOUS
  <2>3. Number(bits) = of(0, 1) + of(1, 2) + of(2, 4) + of(3, 8) + of(4, 16) + of(5, 32)
                       + of(6, 64)
    BY <2>1, PowersAre, SMT DEF Number
  <2>4. (of(0, 1) = 1 => 0 \in bits) /\ (of(1, 2) = 2 => 1 \in bits)
    OBVIOUS
  <2> HIDE DEF of
  <2>5. QED
    BY <2>2, <2>3, <2>4
<1>5. 0 \in bits /\ 1 \in bits
  <2>1. (a + b + c + d + e + f + g) % 4 = 3
    BY <1>3, <1>4
  <2>2. a = 1 /\ b = 2
    BY <2>1
  <2>3. QED
    BY <1>4, <2>2
<1>6. QED
  BY <1>2, <1>5

LEMMA BitsAreWord ==
  ASSUME NEW n
  PROVE  BitsOf(n) \subseteq 0 .. 31
  BY DEF BitsOf

LEMMA RunIsWord ==
  ASSUME NEW word, NEW hi, NEW lo, NEW n
  PROVE  Run(word, hi, lo, n) \subseteq 0 .. 31
  BY DEF Run

LEMMA AtIsWord ==
  ASSUME NEW n, NEW lo
  PROVE  At(n, lo) \subseteq 0 .. 31
  BY RunIsWord DEF At

LEMMA LongIsWord ==
  ASSUME NEW x, x.op \in LongFormats
  PROVE  Packed(x) \subseteq 0 .. 31
<1>1. \A a, b, c, d : R(a, b, c, d) \subseteq 0 .. 31
  BY BitsAreWord, AtIsWord DEF R
<1>2. \A a, b, c, d : PackI(a, b, c, d) \subseteq 0 .. 31
  BY <1>1, RunIsWord DEF PackI
<1>3. \A a, b, c, d : PackS(a, b, c, d) \subseteq 0 .. 31
  BY <1>1, RunIsWord DEF PackS
<1>4. \A a, b, c, d : PackB(a, b, c, d) \subseteq 0 .. 31
  BY <1>1, RunIsWord DEF PackB
<1>5. \A a, b, c : PackU(a, b, c) \subseteq 0 .. 31 /\ PackJ(a, b, c) \subseteq 0 .. 31
  BY BitsAreWord, AtIsWord, RunIsWord DEF PackU, PackJ
<1>6. \A a, b, c, d, i : PackAmo(a, b, c, d, i) \subseteq 0 .. 31
  BY <1>1, RunIsWord DEF PackAmo
<1>7. \A a, b, c, d, e, i : PackFloat(a, b, c, d, e, i) \subseteq 0 .. 31
  BY <1>1, AtIsWord, RunIsWord DEF PackFloat, R4
<1>8. CASE x.op \in Names({OpType, OpWType, MulType, MulWType, VmaType, PlainType})
  BY <1>1, <1>8, PackedIs DEF Names
<1>9. CASE x.op \in Names({JalrType, LoadType, FloatLoadType, ImmType, ShiftType, ShiftWType, CsrType, CsrImmType, FenceType})
  BY <1>2, <1>9, PackedIs DEF Names
<1>10. CASE x.op \in Names({StoreType, FloatStoreType})
  BY <1>3, <1>10, PackedIs DEF Names
<1>11. CASE x.op \in Names({BType})
  BY <1>4, <1>11, PackedIs DEF Names
<1>12. CASE x.op \in Names({UType, JType})
  BY <1>5, <1>12, PackedIs DEF Names
<1>13. CASE x.op \in Names({AmoType, AmoDType})
  BY <1>6, <1>13, PackedIs DEF Names
<1>14. CASE x.op \in Names({FloatTernaryType, FloatBinaryType, FloatUnaryType, FloatSelectType, FloatCompareType, FloatToIntType, IntToFloatType, FloatToBitsType, BitsToFloatType})
  BY <1>7, <1>14, PackedIs DEF Names
<1>15. QED
  BY <1>8, <1>9, <1>10, <1>11, <1>12, <1>13, <1>14 DEF LongFormats, Names, FloatTypes

\* The two parcels make up the word.
LEMMA Reassembled ==
  ASSUME NEW w, w \subseteq 0 .. 31
  PROVE  Run(w, 15, 0, 0) \cup Run(Run(w, 31, 16, -16), 15, 0, 16) = w
<1>1. \A b : b \in Run(w, 15, 0, 0) <=> b \in w /\ b \in 0 .. 15
  BY DEF Run
<1>2. \A b : b \in Run(w, 31, 16, -16) <=> b \in 0 .. 15 /\ b + 16 \in w
  BY DEF Run
<1>3. PICK high : high = Run(w, 31, 16, -16)
  OBVIOUS
<1>4. \A b : b \in Run(high, 15, 0, 16) <=> b \in 16 .. 31 /\ b - 16 \in high
  <2>1. high \subseteq 0 .. 15
    BY <1>2, <1>3
  <2>2. QED
    BY <2>1 DEF Run
<1>5. \A b : b \in Run(high, 15, 0, 16) <=> b \in 16 .. 31 /\ b \in w
  BY <1>2, <1>3, <1>4
<1>6. \A b : b \in w => b \in 0 .. 15 \/ b \in 16 .. 31
  OBVIOUS
<1>7. QED
  BY <1>1, <1>3, <1>5, <1>6

LEMMA LongIsFetched ==
  ASSUME NEW x, Shaped(x), x.op \in LongFormats, NEW width \in {32, 64},
         SupportsXlen(x.op, width), Valid(x, width), NEW ps, Len(ps) = 2,
         ps[1] = Run(Packed(x), 15, 0, 0), ps[2] = Run(Packed(x), 31, 16, -16)
  PROVE  Fetched(ps, width) =
             [used |-> 2, instr |-> Canonical(x), access |-> MemoryOperand(x)]
<1> DEFINE w == Packed(x)
           low == Run(w, 15, 0, 0)
           high == Run(w, 31, 16, -16)
<1>1. Understood(x, width)
  BY LongUnderstood
<1>2. {0, 1} \subseteq w /\ w \subseteq 0 .. 31
  BY <1>1, LowestBits, LongIsWord DEF Understood
<1>3. low \cup Run(high, 15, 0, 16) = w
  BY <1>2, Reassembled
<1>4. {0, 1} \subseteq low
  BY <1>2 DEF Run
<1>5. Decoded32(w, width) = Canonical(x) /\ Access32(w, Canonical(x)) = MemoryOperand(x)
  BY <1>1 DEF Understood
<1> HIDE DEF w, low, high
<1>6. ps[1] = low /\ Len(ps) = 2 /\ ps[2] = high
  BY DEF w, low, high
<1>7. QED
  BY <1>3, <1>4, <1>5, <1>6 DEF Fetched

--------------------------------------------------------------------------------
(* Instructions of sixteen bits.                                             *)

\* The fixed bits of a compressed instruction by the places they have.
BaseC(q, m, a, t, f) == q + 32 * m + 1024 * a + 4096 * t + 8192 * f

LEMMA BaseCBits ==
  ASSUME NEW q, NEW m, NEW a, NEW t, NEW f,
         q \in Nat, q < 4, m \in Nat, m < 4, a \in Nat, a < 4, t \in Nat, t < 2,
         f \in Nat, f < 8
  PROVE  BitsOf(BaseC(q, m, a, t, f))
             = At(q, 0) \cup At(m, 5) \cup At(a, 10) \cup At(t, 12) \cup At(f, 13)
<1> DEFINE n == BaseC(q, m, a, t, f)
<1>1. n = q + 32 * m + 1024 * a + 4096 * t + 8192 * f /\ n \in Nat /\ n <= 65535
  BY DEF BaseC
<1> HIDE DEF n
<1>2. (Odd(n, 0) <=> Odd(q, 0)) /\ (Odd(n, 1) <=> Odd(q, 1))
  BY <1>1, PowersAre, SMT DEF Odd
<1>3. ~Odd(n, 2) /\ ~Odd(n, 3) /\ ~Odd(n, 4)
  BY <1>1, PowersAre, SMT DEF Odd
<1>4. (Odd(n, 5) <=> Odd(m, 0)) /\ (Odd(n, 6) <=> Odd(m, 1))
  BY <1>1, PowersAre, SMT DEF Odd
<1>5. ~Odd(n, 7) /\ ~Odd(n, 8) /\ ~Odd(n, 9)
  BY <1>1, PowersAre, SMT DEF Odd
<1>6. (Odd(n, 10) <=> Odd(a, 0)) /\ (Odd(n, 11) <=> Odd(a, 1))
  BY <1>1, PowersAre, SMT DEF Odd
<1>7. Odd(n, 12) <=> Odd(t, 0)
  BY <1>1, PowersAre, SMT DEF Odd
<1>8. (Odd(n, 13) <=> Odd(f, 0)) /\ (Odd(n, 14) <=> Odd(f, 1)) /\ (Odd(n, 15) <=> Odd(f, 2))
  BY <1>1, PowersAre, SMT DEF Odd
<1>9. /\ BitsOf(q) \subseteq 0 .. 1 /\ BitsOf(m) \subseteq 0 .. 1
      /\ BitsOf(a) \subseteq 0 .. 1 /\ BitsOf(t) \subseteq {0}
      /\ BitsOf(f) \subseteq 0 .. 2
  <2>1. BitsOf(t) \subseteq 0 .. 1
    BY FewBits
  <2>2. ~Odd(t, 1)
    BY PowersAre, SMT DEF Odd
  <2>3. QED
    BY <2>1, <2>2, FewBits, BitIsOdd
<1>10. ASSUME NEW p \in 0 .. 30
       PROVE  p \in BitsOf(n) <=> Odd(n, p)
  BY <1>1, BitIsOdd
<1>11. BitsOf(n) \subseteq 0 .. 15
  BY <1>1, BitsOfParcel DEF ParcelValues, ParcelBits
<1>12. ASSUME NEW p \in 0 .. 31
       PROVE  p \in BitsOf(n)
                  <=> p \in At(q, 0) \cup At(m, 5) \cup At(a, 10) \cup At(t, 12) \cup At(f, 13)
  <2>1. CASE p \in 0 .. 1
    BY <1>2, <1>9, <1>10, <2>1, BitIsOdd, InAt
  <2>2. CASE p \in 2 .. 4
    BY <1>3, <1>9, <1>10, <2>2, InAt
  <2>3. CASE p \in 5 .. 6
    BY <1>4, <1>9, <1>10, <2>3, BitIsOdd, InAt
  <2>4. CASE p \in 7 .. 9
    BY <1>5, <1>9, <1>10, <2>4, InAt
  <2>5. CASE p \in 10 .. 11
    BY <1>6, <1>9, <1>10, <2>5, BitIsOdd, InAt
  <2>6. CASE p = 12
    BY <1>7, <1>9, <1>10, <2>6, BitIsOdd, InAt
  <2>7. CASE p \in 13 .. 15
    BY <1>8, <1>9, <1>10, <2>7, BitIsOdd, InAt
  <2>8. CASE p \in 16 .. 31
    BY <1>9, <1>11, <2>8, InAt
  <2>9. QED
    BY <2>1, <2>2, <2>3, <2>4, <2>5, <2>6, <2>7, <2>8
<1>13. QED
  BY <1>11, <1>12, InAt DEF n

\* What the fixed bits decide.
Frame(w, q, f) ==
    /\ Quadrant(w) = q /\ Funct3C(w) = f
    /\ 0 \in w <=> q = 1
    /\ ~({0, 1} \subseteq w)

LEMMA FrameIs ==
  ASSUME NEW w, NEW q \in Nat, q < 3, NEW f \in Nat, f < 8,
         \A p \in 0 .. 1 : p \in w <=> p \in At(q, 0),
         \A p \in 13 .. 15 : p \in w <=> p \in At(f, 13)
  PROVE  Frame(w, q, f)
<1>1. Quadrant(w) = q /\ Funct3C(w) = f
  BY QuadrantIs, Funct3CIs
<1>2. (0 \in w <=> Odd(q, 0)) /\ (1 \in w <=> Odd(q, 1))
  BY InAt, BitIsOdd
<1>3. (Odd(q, 0) <=> q = 1) /\ (Odd(q, 1) <=> q = 2)
  BY PowersAre, SMT DEF Odd
<1>4. QED
  BY <1>1, <1>2, <1>3 DEF Frame

LEMMA AccessC ==
  ASSUME NEW w, NEW d, NEW q, NEW f \in Nat, Frame(w, q, f)
  PROVE  /\ q = 1 \/ f % 4 < 2 => Access16(w, d) = NoAccess
         /\ q = 0 /\ ~(f % 4 < 2) => Access16(w, d) = AccessOf(d.rs1, d.imm, 2^(f % 4))
         /\ q = 2 /\ ~(f % 4 < 2) => Access16(w, d) = AccessOf(2, d.imm, 2^(f % 4))
<1>1. Funct3C(w) = f /\ Quadrant(w) = q /\ (0 \in w <=> q = 1)
  BY DEF Frame
<1>2. QED
  BY <1>1 DEF Access16

\* The lowest bits of what goes in a field.
OneBit(w, t) == 12 \in w <=> t = 1
\* Bits lo..hi of a word are those of another n places lower.
Carries(w, lo, hi, n, bits) == \A p \in lo .. hi : p \in w <=> p - n \in bits

\* One of the eight registers compact formats have a number for.
Eighth(r, n) == r = 8 + n

LEMMA ShortPlaces ==
  ASSUME NEW n \in Nat
  PROVE  /\ n < 4 => At(n, 0) \subseteq 0 .. 1 /\ At(n, 5) \subseteq 5 .. 6
                     /\ At(n, 10) \subseteq 10 .. 11
         /\ n < 2 => At(n, 12) \subseteq {12} /\ (12 \in At(n, 12) <=> n = 1)
         /\ n < 8 => At(n, 13) \subseteq 13 .. 15 /\ At(n, 2) \subseteq 2 .. 4
                     /\ At(n, 7) \subseteq 7 .. 9
         /\ n < 32 => At(n, 2) \subseteq 2 .. 6 /\ At(n, 7) \subseteq 7 .. 11
<1>1. ASSUME n < 4
      PROVE  At(n, 0) \subseteq 0 .. 1 /\ At(n, 5) \subseteq 5 .. 6
             /\ At(n, 10) \subseteq 10 .. 11
  <2>1. BitsOf(n) \subseteq 0 .. 1
    BY <1>1, FewBits
  <2>2. QED
    BY <2>1, InAt
<1>2. ASSUME n < 2
      PROVE  At(n, 12) \subseteq {12} /\ (12 \in At(n, 12) <=> n = 1)
  <2>1. BitsOf(n) \subseteq 0 .. 1 /\ ~Odd(n, 1) /\ (Odd(n, 0) <=> n = 1)
    BY <1>2, FewBits, PowersAre, SMT DEF Odd
  <2>2. BitsOf(n) \subseteq {0} /\ (0 \in BitsOf(n) <=> n = 1)
    BY <2>1, BitIsOdd
  <2>3. QED
    BY <2>2, InAt
<1>3. ASSUME n < 8
      PROVE  At(n, 13) \subseteq 13 .. 15 /\ At(n, 2) \subseteq 2 .. 4
             /\ At(n, 7) \subseteq 7 .. 9
  <2>1. BitsOf(n) \subseteq 0 .. 2
    BY <1>3, FewBits
  <2>2. QED
    BY <2>1, InAt
<1>4. ASSUME n < 32
      PROVE  At(n, 2) \subseteq 2 .. 6 /\ At(n, 7) \subseteq 7 .. 11
  <2>1. BitsOf(n) \subseteq 0 .. 4
    BY <1>4, FewBits
  <2>2. QED
    BY <2>1, InAt
<1>5. QED
  BY <1>1, <1>2, <1>3, <1>4

LEMMA CRFields ==
  ASSUME NEW q, NEW t, NEW f, NEW d, NEW s, NEW w,
         q \in Nat, q < 3, t \in Nat, t < 2, f \in Nat, f < 8,
         d \in Nat, d < 32, s \in Nat, s < 32,
         w = PackCR(BaseC(q, 0, 0, t, f), d, s)
  PROVE  Frame(w, q, f) /\ OneBit(w, t) /\ Rd(w) = d /\ Rs2C(w) = s
<1>1. /\ At(q, 0) \subseteq 0 .. 1
      /\ At(t, 12) \subseteq {12}
      /\ At(f, 13) \subseteq 13 .. 15
      /\ At(d, 7) \subseteq 7 .. 11
      /\ At(s, 2) \subseteq 2 .. 6
  BY ShortPlaces
<1>2. BitsOf(BaseC(q, 0, 0, t, f)) = At(q, 0) \cup At(0, 5) \cup At(0, 10) \cup At(t, 12) \cup At(f, 13)
  BY BaseCBits
<1>3. w = At(q, 0) \cup At(t, 12) \cup At(f, 13) \cup At(d, 7) \cup At(s, 2)
  BY <1>2, Nothing DEF PackCR
<1>4. /\ \A p \in 0 .. 1 : p \in w <=> p \in At(q, 0)
      /\ \A p \in 13 .. 15 : p \in w <=> p \in At(f, 13)
      /\ \A p \in 12 .. 12 : p \in w <=> p \in At(t, 12)
      /\ \A p \in 7 .. 11 : p \in w <=> p \in At(d, 7)
      /\ \A p \in 2 .. 6 : p \in w <=> p \in At(s, 2)
  BY <1>1, <1>3
<1>5. QED
  BY <1>4, FrameIs, RdIs, Rs2CIs, ShortPlaces DEF OneBit

LEMMA CAFields ==
  ASSUME NEW m, NEW t, NEW d, NEW s, NEW w,
         m \in Nat, m < 4, t \in Nat, t < 2,
         d \in Nat, d < 8, s \in Nat, s < 8,
         w = PackCR(BaseC(1, m, 3, t, 4), d, s)
  PROVE  /\ Frame(w, 1, 4) /\ OneBit(w, t) /\ Rs1Short(w) = 8 + d /\ RdShort(w) = 8 + s
         /\ Field(w, 11, 10) = 3 /\ Field(w, 6, 5) = m
         /\ \A p \in 5 .. 6 : p \in w <=> p \in At(m, 5)
<1>1. /\ At(1, 0) \subseteq 0 .. 1
      /\ At(m, 5) \subseteq 5 .. 6
      /\ At(3, 10) \subseteq 10 .. 11
      /\ At(t, 12) \subseteq {12}
      /\ At(4, 13) \subseteq 13 .. 15
      /\ At(d, 7) \subseteq 7 .. 9
      /\ At(s, 2) \subseteq 2 .. 4
  BY ShortPlaces
<1>2. BitsOf(BaseC(1, m, 3, t, 4)) = At(1, 0) \cup At(m, 5) \cup At(3, 10) \cup At(t, 12) \cup At(4, 13)
  BY BaseCBits
<1>3. w = At(1, 0) \cup At(m, 5) \cup At(3, 10) \cup At(t, 12) \cup At(4, 13) \cup At(d, 7) \cup At(s, 2)
  BY <1>2, Nothing DEF PackCR
<1>4. /\ \A p \in 0 .. 1 : p \in w <=> p \in At(1, 0)
      /\ \A p \in 13 .. 15 : p \in w <=> p \in At(4, 13)
      /\ \A p \in 12 .. 12 : p \in w <=> p \in At(t, 12)
      /\ \A p \in 7 .. 9 : p \in w <=> p \in At(d, 7)
      /\ \A p \in 2 .. 4 : p \in w <=> p \in At(s, 2)
      /\ \A p \in 10 .. 11 : p \in w <=> p \in At(3, 10)
      /\ \A p \in 5 .. 6 : p \in w <=> p \in At(m, 5)
  BY <1>1, <1>3
<1>5. QED
  BY <1>4, FrameIs, Rs1ShortIs, RdShortIs, AluIs, AluOpIs, ShortPlaces DEF OneBit

LEMMA CIFields ==
  ASSUME NEW q, NEW f, NEW d, NEW bits, NEW w,
         q \in Nat, q < 3, f \in Nat, f < 8,
         d \in Nat, d < 32,
         w = PackCI(BaseC(q, 0, 0, 0, f), d, bits)
  PROVE  Frame(w, q, f) /\ Rd(w) = d /\ Carries(w, 2, 6, 2, bits) /\ (12 \in w <=> 5 \in bits)
<1>1. /\ At(q, 0) \subseteq 0 .. 1
      /\ At(f, 13) \subseteq 13 .. 15
      /\ At(d, 7) \subseteq 7 .. 11
  BY ShortPlaces
<1> DEFINE run1 == Run(bits, 4, 0, 2)
           run2 == Run(bits, 5, 5, 7)
<1>2. BitsOf(BaseC(q, 0, 0, 0, f)) = At(q, 0) \cup At(0, 5) \cup At(0, 10) \cup At(0, 12) \cup At(f, 13)
  BY BaseCBits
<1>3. w = At(q, 0) \cup At(f, 13) \cup At(d, 7) \cup run1 \cup run2
  BY <1>2, Nothing DEF PackCI
<1>4. /\ \A p \in 0 .. 31 : p \in run1 <=> 2 <= p /\ p <= 6 /\ p - 2 \in bits
      /\ \A p \in 0 .. 31 : p \in run2 <=> p = 12 /\ 5 \in bits
  BY DEF Run
<1> HIDE DEF run1, run2
<1>5. /\ \A p \in 0 .. 1 : p \in w <=> p \in At(q, 0)
      /\ \A p \in 13 .. 15 : p \in w <=> p \in At(f, 13)
      /\ \A p \in 7 .. 11 : p \in w <=> p \in At(d, 7)
      /\ \A p \in 2 .. 6 : p \in w <=> p - 2 \in bits
      /\ 12 \in w <=> 5 \in bits
  BY <1>1, <1>3, <1>4
<1>6. QED
  BY <1>5, FrameIs, RdIs DEF Carries

LEMMA CAluFields ==
  ASSUME NEW a, NEW d, NEW bits, NEW w,
         a \in Nat, a < 4,
         d \in Nat, d < 8,
         w = PackCI(BaseC(1, 0, a, 0, 4), d, bits)
  PROVE  /\ Frame(w, 1, 4) /\ Rs1Short(w) = 8 + d /\ Field(w, 11, 10) = a
         /\ Carries(w, 2, 6, 2, bits) /\ (12 \in w <=> 5 \in bits)
<1>1. /\ At(1, 0) \subseteq 0 .. 1
      /\ At(a, 10) \subseteq 10 .. 11
      /\ At(4, 13) \subseteq 13 .. 15
      /\ At(d, 7) \subseteq 7 .. 9
  BY ShortPlaces
<1> DEFINE run1 == Run(bits, 4, 0, 2)
           run2 == Run(bits, 5, 5, 7)
<1>2. BitsOf(BaseC(1, 0, a, 0, 4)) = At(1, 0) \cup At(0, 5) \cup At(a, 10) \cup At(0, 12) \cup At(4, 13)
  BY BaseCBits
<1>3. w = At(1, 0) \cup At(a, 10) \cup At(4, 13) \cup At(d, 7) \cup run1 \cup run2
  BY <1>2, Nothing DEF PackCI
<1>4. /\ \A p \in 0 .. 31 : p \in run1 <=> 2 <= p /\ p <= 6 /\ p - 2 \in bits
      /\ \A p \in 0 .. 31 : p \in run2 <=> p = 12 /\ 5 \in bits
  BY DEF Run
<1> HIDE DEF run1, run2
<1>5. /\ \A p \in 0 .. 1 : p \in w <=> p \in At(1, 0)
      /\ \A p \in 13 .. 15 : p \in w <=> p \in At(4, 13)
      /\ \A p \in 7 .. 9 : p \in w <=> p \in At(d, 7)
      /\ \A p \in 10 .. 11 : p \in w <=> p \in At(a, 10)
      /\ \A p \in 2 .. 6 : p \in w <=> p - 2 \in bits
      /\ 12 \in w <=> 5 \in bits
  BY <1>1, <1>3, <1>4
<1>6. QED
  BY <1>5, FrameIs, Rs1ShortIs, AluIs DEF Carries

LEMMA CSSFields ==
  ASSUME NEW f, NEW s, NEW bits, NEW w,
         f \in Nat, f < 8,
         s \in Nat, s < 32,
         bits \subseteq 0 .. 5, w = PackCSS(BaseC(2, 0, 0, 0, f), s, bits)
  PROVE  Frame(w, 2, f) /\ Rs2C(w) = s /\ Carries(w, 7, 12, 7, bits)
<1>1. /\ At(2, 0) \subseteq 0 .. 1
      /\ At(f, 13) \subseteq 13 .. 15
      /\ At(s, 2) \subseteq 2 .. 6
  BY ShortPlaces
<1> DEFINE run1 == Run(bits, 31, 0, 7)
<1>2. BitsOf(BaseC(2, 0, 0, 0, f)) = At(2, 0) \cup At(0, 5) \cup At(0, 10) \cup At(0, 12) \cup At(f, 13)
  BY BaseCBits
<1>3. w = At(2, 0) \cup At(f, 13) \cup At(s, 2) \cup run1
  BY <1>2, Nothing DEF PackCSS
<1>4. /\ \A p \in 0 .. 31 : p \in run1 <=> 7 <= p /\ p - 7 \in bits
  BY DEF Run
<1> HIDE DEF run1
<1>5. /\ \A p \in 0 .. 1 : p \in w <=> p \in At(2, 0)
      /\ \A p \in 13 .. 15 : p \in w <=> p \in At(f, 13)
      /\ \A p \in 2 .. 6 : p \in w <=> p \in At(s, 2)
      /\ \A p \in 7 .. 12 : p \in w <=> p - 7 \in bits
  BY <1>1, <1>3, <1>4
<1>6. QED
  BY <1>5, FrameIs, Rs2CIs DEF Carries

LEMMA CLFields ==
  ASSUME NEW f, NEW s, NEW d, NEW r, NEW b, NEW bits, NEW w,
         f \in Nat, f < 8,
         s \in Nat, s < 8, d \in Nat, d < 8,
         Eighth(r, s), Eighth(b, d), w = PackCL(BaseC(0, 0, 0, 0, f), r, b, bits)
  PROVE  /\ Frame(w, 0, f) /\ RdShort(w) = r /\ Rs1Short(w) = b
         /\ Carries(w, 5, 6, 5, bits) /\ Carries(w, 10, 12, 8, bits)
<1>1. /\ At(f, 13) \subseteq 13 .. 15
      /\ At(s, 2) \subseteq 2 .. 4
      /\ At(d, 7) \subseteq 7 .. 9
  BY ShortPlaces
<1> DEFINE run1 == Run(bits, 1, 0, 5)
           run2 == Run(bits, 4, 2, 8)
<1>2. BitsOf(BaseC(0, 0, 0, 0, f)) = At(0, 0) \cup At(0, 5) \cup At(0, 10) \cup At(0, 12) \cup At(f, 13)
  BY BaseCBits
<1>3. w = At(f, 13) \cup At(s, 2) \cup At(d, 7) \cup run1 \cup run2
  <2>1. r - 8 = s /\ b - 8 = d
    BY DEF Eighth
  <2>2. QED
    BY <1>2, <2>1, Nothing DEF PackCL
<1>4. /\ \A p \in 0 .. 31 : p \in run1 <=> 5 <= p /\ p <= 6 /\ p - 5 \in bits
      /\ \A p \in 0 .. 31 : p \in run2 <=> 10 <= p /\ p <= 12 /\ p - 8 \in bits
  BY DEF Run
<1> HIDE DEF run1, run2
<1>5. /\ \A p \in 0 .. 1 : p \in w <=> p \in At(0, 0)
      /\ \A p \in 13 .. 15 : p \in w <=> p \in At(f, 13)
      /\ \A p \in 2 .. 4 : p \in w <=> p \in At(s, 2)
      /\ \A p \in 7 .. 9 : p \in w <=> p \in At(d, 7)
      /\ \A p \in 5 .. 6 : p \in w <=> p - 5 \in bits
      /\ \A p \in 10 .. 12 : p \in w <=> p - 8 \in bits
  BY <1>1, <1>3, <1>4, Nothing
<1>6. QED
  BY <1>5, FrameIs, RdShortIs, Rs1ShortIs DEF Carries, Eighth

LEMMA CBFields ==
  ASSUME NEW f, NEW d, NEW b, NEW bits, NEW w,
         f \in Nat, f < 8,
         d \in Nat, d < 8,
         Eighth(b, d), w = PackCB(BaseC(1, 0, 0, 0, f), b, bits)
  PROVE  /\ Frame(w, 1, f) /\ Rs1Short(w) = b
         /\ 12 \in w <=> 8 \in bits
         /\ Carries(w, 10, 11, 7, bits) /\ Carries(w, 5, 6, -1, bits)
         /\ Carries(w, 3, 4, 2, bits)
         /\ 2 \in w <=> 5 \in bits
<1>1. /\ At(1, 0) \subseteq 0 .. 1
      /\ At(f, 13) \subseteq 13 .. 15
      /\ At(d, 7) \subseteq 7 .. 9
  BY ShortPlaces
<1> DEFINE run1 == Run(bits, 8, 8, 4)
           run2 == Run(bits, 4, 3, 7)
           run3 == Run(bits, 7, 6, -1)
           run4 == Run(bits, 2, 1, 2)
           run5 == Run(bits, 5, 5, -3)
<1>2. BitsOf(BaseC(1, 0, 0, 0, f)) = At(1, 0) \cup At(0, 5) \cup At(0, 10) \cup At(0, 12) \cup At(f, 13)
  BY BaseCBits
<1>3. w = At(1, 0) \cup At(f, 13) \cup At(d, 7) \cup run1 \cup run2 \cup run3 \cup run4 \cup run5
  <2>1. b - 8 = d
    BY DEF Eighth
  <2>2. QED
    BY <1>2, <2>1, Nothing DEF PackCB
<1>4. /\ \A p \in 0 .. 31 : p \in run1 <=> p = 12 /\ 8 \in bits
      /\ \A p \in 0 .. 31 : p \in run2 <=> 10 <= p /\ p <= 11 /\ p - 7 \in bits
      /\ \A p \in 0 .. 31 : p \in run3 <=> 5 <= p /\ p <= 6 /\ p + 1 \in bits
      /\ \A p \in 0 .. 31 : p \in run4 <=> 3 <= p /\ p <= 4 /\ p - 2 \in bits
      /\ \A p \in 0 .. 31 : p \in run5 <=> p = 2 /\ 5 \in bits
  BY DEF Run
<1> HIDE DEF run1, run2, run3, run4, run5
<1>5. /\ \A p \in 0 .. 1 : p \in w <=> p \in At(1, 0)
      /\ \A p \in 13 .. 15 : p \in w <=> p \in At(f, 13)
      /\ \A p \in 7 .. 9 : p \in w <=> p \in At(d, 7)
      /\ 12 \in w <=> 8 \in bits
      /\ \A p \in 10 .. 11 : p \in w <=> p - 7 \in bits
      /\ \A p \in 5 .. 6 : p \in w <=> p + 1 \in bits
      /\ \A p \in 3 .. 4 : p \in w <=> p - 2 \in bits
      /\ 2 \in w <=> 5 \in bits
  BY <1>1, <1>3, <1>4
<1>6. QED
  BY <1>5, FrameIs, Rs1ShortIs DEF Carries, Eighth

LEMMA CJFields ==
  ASSUME NEW f, NEW bits, NEW w,
         f \in Nat, f < 8,
         w = PackCJ(BaseC(1, 0, 0, 0, f), bits)
  PROVE  /\ Frame(w, 1, f)
         /\ 12 \in w <=> 11 \in bits
         /\ 11 \in w <=> 4 \in bits
         /\ Carries(w, 9, 10, 1, bits)
         /\ 8 \in w <=> 10 \in bits
         /\ 7 \in w <=> 6 \in bits
         /\ 6 \in w <=> 7 \in bits
         /\ Carries(w, 3, 5, 2, bits)
         /\ 2 \in w <=> 5 \in bits
<1>1. /\ At(1, 0) \subseteq 0 .. 1
      /\ At(f, 13) \subseteq 13 .. 15
  BY ShortPlaces
<1> DEFINE run1 == Run(bits, 11, 11, 1)
           run2 == Run(bits, 4, 4, 7)
           run3 == Run(bits, 9, 8, 1)
           run4 == Run(bits, 10, 10, -2)
           run5 == Run(bits, 6, 6, 1)
           run6 == Run(bits, 7, 7, -1)
           run7 == Run(bits, 3, 1, 2)
           run8 == Run(bits, 5, 5, -3)
<1>2. BitsOf(BaseC(1, 0, 0, 0, f)) = At(1, 0) \cup At(0, 5) \cup At(0, 10) \cup At(0, 12) \cup At(f, 13)
  BY BaseCBits
<1>3. w = At(1, 0) \cup At(f, 13) \cup run1 \cup run2 \cup run3 \cup run4 \cup run5 \cup run6 \cup run7 \cup run8
  BY <1>2, Nothing DEF PackCJ
<1>4. /\ \A p \in 0 .. 31 : p \in run1 <=> p = 12 /\ 11 \in bits
      /\ \A p \in 0 .. 31 : p \in run2 <=> p = 11 /\ 4 \in bits
      /\ \A p \in 0 .. 31 : p \in run3 <=> 9 <= p /\ p <= 10 /\ p - 1 \in bits
      /\ \A p \in 0 .. 31 : p \in run4 <=> p = 8 /\ 10 \in bits
      /\ \A p \in 0 .. 31 : p \in run5 <=> p = 7 /\ 6 \in bits
      /\ \A p \in 0 .. 31 : p \in run6 <=> p = 6 /\ 7 \in bits
      /\ \A p \in 0 .. 31 : p \in run7 <=> 3 <= p /\ p <= 5 /\ p - 2 \in bits
      /\ \A p \in 0 .. 31 : p \in run8 <=> p = 2 /\ 5 \in bits
  BY DEF Run
<1> HIDE DEF run1, run2, run3, run4, run5, run6, run7, run8
<1>5. /\ \A p \in 0 .. 1 : p \in w <=> p \in At(1, 0)
      /\ \A p \in 13 .. 15 : p \in w <=> p \in At(f, 13)
      /\ 12 \in w <=> 11 \in bits
      /\ 11 \in w <=> 4 \in bits
      /\ \A p \in 9 .. 10 : p \in w <=> p - 1 \in bits
      /\ 8 \in w <=> 10 \in bits
      /\ 7 \in w <=> 6 \in bits
      /\ 6 \in w <=> 7 \in bits
      /\ \A p \in 3 .. 5 : p \in w <=> p - 2 \in bits
      /\ 2 \in w <=> 5 \in bits
  BY <1>1, <1>3, <1>4
<1>6. QED
  BY <1>5, FrameIs DEF Carries

LEMMA CIWFields ==
  ASSUME NEW s, NEW r, NEW bits, NEW w, s \in Nat, s < 8, Eighth(r, s),
         w = PackCIW(r, bits)
  PROVE  /\ Frame(w, 0, 0) /\ RdShort(w) = r
         /\ Carries(w, 11, 12, 7, bits) /\ Carries(w, 7, 10, 1, bits)
         /\ 6 \in w <=> 2 \in bits
         /\ 5 \in w <=> 3 \in bits
<1>1. At(s, 2) \subseteq 2 .. 4
  BY ShortPlaces
<1> DEFINE run1 == Run(bits, 5, 4, 7)
           run2 == Run(bits, 9, 6, 1)
           run3 == Run(bits, 2, 2, 4)
           run4 == Run(bits, 3, 3, 2)
<1>2. r - 8 = s
  BY DEF Eighth
<1>3. w = At(s, 2) \cup run1 \cup run2 \cup run3 \cup run4
  BY <1>2 DEF PackCIW
<1>4. /\ \A p \in 0 .. 31 : p \in run1 <=> 11 <= p /\ p <= 12 /\ p - 7 \in bits
      /\ \A p \in 0 .. 31 : p \in run2 <=> 7 <= p /\ p <= 10 /\ p - 1 \in bits
      /\ \A p \in 0 .. 31 : p \in run3 <=> p = 6 /\ 2 \in bits
      /\ \A p \in 0 .. 31 : p \in run4 <=> p = 5 /\ 3 \in bits
  BY DEF Run
<1> HIDE DEF run1, run2, run3, run4
<1>5. /\ \A p \in 0 .. 1 : p \in w <=> p \in At(0, 0)
      /\ \A p \in 13 .. 15 : p \in w <=> p \in At(0, 13)
      /\ \A p \in 2 .. 4 : p \in w <=> p \in At(s, 2)
      /\ \A p \in 11 .. 12 : p \in w <=> p - 7 \in bits
      /\ \A p \in 7 .. 10 : p \in w <=> p - 1 \in bits
      /\ 6 \in w <=> 2 \in bits
      /\ 5 \in w <=> 3 \in bits
  BY <1>1, <1>3, <1>4, Nothing
<1>6. QED
  BY <1>5, FrameIs, RdShortIs DEF Carries, Eighth

\* The arms of the decoder of sixteen bits.
LEMMA CAddi4spnArm ==
  ASSUME NEW w, NEW width, Frame(w, 0, 0), ImmCIW(w) # 0
  PROVE  Decoded16(w, width) = Instr("CAddi4spn", RdShort(w), 0, 0, ImmCIW(w))
  BY SMT DEF Decoded16, Frame

LEMMA CLwArm ==
  ASSUME NEW w, NEW width, Frame(w, 0, 2)
  PROVE  Decoded16(w, width) = Instr("CLw", RdShort(w), Rs1Short(w), 0, ImmW(w))
  BY SMT DEF Decoded16, Frame

LEMMA CLdArm ==
  ASSUME NEW w, NEW width, Frame(w, 0, 3), width = 64
  PROVE  Decoded16(w, width) = Instr("CLd", RdShort(w), Rs1Short(w), 0, ImmD(w))
  BY SMT DEF Decoded16, Frame

LEMMA CSwArm ==
  ASSUME NEW w, NEW width, Frame(w, 0, 6)
  PROVE  Decoded16(w, width) = Instr("CSw", 0, Rs1Short(w), RdShort(w), ImmW(w))
  BY SMT DEF Decoded16, Frame

LEMMA CSdArm ==
  ASSUME NEW w, NEW width, Frame(w, 0, 7), width = 64
  PROVE  Decoded16(w, width) = Instr("CSd", 0, Rs1Short(w), RdShort(w), ImmD(w))
  BY SMT DEF Decoded16, Frame

LEMMA CAddiArm ==
  ASSUME NEW w, NEW width, Frame(w, 1, 0)
  PROVE  Decoded16(w, width) = Instr("CAddi", Rd(w), 0, 0, ImmCI(w))
  BY SMT DEF Decoded16, Frame

LEMMA CJalArm ==
  ASSUME NEW w, NEW width, Frame(w, 1, 1), width = 32
  PROVE  Decoded16(w, width) = Instr("CJal", 0, 0, 0, ImmCJ(w))
  BY SMT DEF Decoded16, Frame

LEMMA CAddiwArm ==
  ASSUME NEW w, NEW width, Frame(w, 1, 1), width = 64, Rd(w) # 0
  PROVE  Decoded16(w, width) = Instr("CAddiw", Rd(w), 0, 0, ImmCI(w))
  BY SMT DEF Decoded16, Frame

LEMMA CLiArm ==
  ASSUME NEW w, NEW width, Frame(w, 1, 2)
  PROVE  Decoded16(w, width) = Instr("CLi", Rd(w), 0, 0, ImmCI(w))
  BY SMT DEF Decoded16, Frame

LEMMA CAddi16spArm ==
  ASSUME NEW w, NEW width, Frame(w, 1, 3), Rd(w) = 2, ImmSp(w) # 0
  PROVE  Decoded16(w, width) = Instr("CAddi16sp", 0, 0, 0, ImmSp(w))
  BY SMT DEF Decoded16, Frame

LEMMA CLuiArm ==
  ASSUME NEW w, NEW width, Frame(w, 1, 3), Rd(w) # 2, Bits6(w) # {}
  PROVE  Decoded16(w, width) = Instr("CLui", Rd(w), 0, 0, ImmCI(w))
  BY SMT DEF Decoded16, Frame

LEMMA CSrliArm ==
  ASSUME NEW w, NEW width, Frame(w, 1, 4), Field(w, 11, 10) = 0, width = 32 => 12 \notin w
  PROVE  Decoded16(w, width) = Instr("CSrli", 0, Rs1Short(w), 0, Number(Bits6(w)))
  BY SMT DEF Decoded16, Frame

LEMMA CSraiArm ==
  ASSUME NEW w, NEW width, Frame(w, 1, 4), Field(w, 11, 10) = 1, width = 32 => 12 \notin w
  PROVE  Decoded16(w, width) = Instr("CSrai", 0, Rs1Short(w), 0, Number(Bits6(w)))
  BY SMT DEF Decoded16, Frame

LEMMA CAndiArm ==
  ASSUME NEW w, NEW width, Frame(w, 1, 4), Field(w, 11, 10) = 2
  PROVE  Decoded16(w, width) = Instr("CAndi", 0, Rs1Short(w), 0, ImmCI(w))
  BY SMT DEF Decoded16, Frame

LEMMA CAluArm ==
  ASSUME NEW w, NEW width, Frame(w, 1, 4), Field(w, 11, 10) = 3, 12 \notin w
  PROVE  Decoded16(w, width) = Instr(<<"CSub", "CXor", "COr", "CAnd">>[Field(w, 6, 5) + 1], Rs1Short(w), 0, RdShort(w), 0)
  BY SMT DEF Decoded16, Frame

LEMMA CAluWArm ==
  ASSUME NEW w, NEW width, Frame(w, 1, 4), Field(w, 11, 10) = 3, 12 \in w, 6 \notin w, width = 64
  PROVE  Decoded16(w, width) = Instr(<<"CSubw", "CAddw">>[Field(w, 5, 5) + 1], Rs1Short(w), 0, RdShort(w), 0)
  BY SMT DEF Decoded16, Frame

LEMMA CJArm ==
  ASSUME NEW w, NEW width, Frame(w, 1, 5)
  PROVE  Decoded16(w, width) = Instr("CJ", 0, 0, 0, ImmCJ(w))
  BY SMT DEF Decoded16, Frame

LEMMA CBeqzArm ==
  ASSUME NEW w, NEW width, Frame(w, 1, 6)
  PROVE  Decoded16(w, width) = Instr("CBeqz", 0, Rs1Short(w), 0, ImmCB(w))
  BY SMT DEF Decoded16, Frame

LEMMA CBnezArm ==
  ASSUME NEW w, NEW width, Frame(w, 1, 7)
  PROVE  Decoded16(w, width) = Instr("CBnez", 0, Rs1Short(w), 0, ImmCB(w))
  BY SMT DEF Decoded16, Frame

LEMMA CSlliArm ==
  ASSUME NEW w, NEW width, Frame(w, 2, 0), width = 32 => 12 \notin w
  PROVE  Decoded16(w, width) = Instr("CSlli", Rd(w), 0, 0, Number(Bits6(w)))
  BY SMT DEF Decoded16, Frame

LEMMA CLwspArm ==
  ASSUME NEW w, NEW width, Frame(w, 2, 2), Rd(w) # 0
  PROVE  Decoded16(w, width) = Instr("CLwsp", Rd(w), 0, 0, ImmLwsp(w))
  BY SMT DEF Decoded16, Frame

LEMMA CLdspArm ==
  ASSUME NEW w, NEW width, Frame(w, 2, 3), width = 64, Rd(w) # 0
  PROVE  Decoded16(w, width) = Instr("CLdsp", Rd(w), 0, 0, ImmLdsp(w))
  BY SMT DEF Decoded16, Frame

LEMMA CJrArm ==
  ASSUME NEW w, NEW width, Frame(w, 2, 4), 12 \notin w, Rs2C(w) = 0, Rd(w) # 0
  PROVE  Decoded16(w, width) = Instr("CJr", 0, Rd(w), 0, 0)
  BY SMT DEF Decoded16, Frame

LEMMA CMvArm ==
  ASSUME NEW w, NEW width, Frame(w, 2, 4), 12 \notin w, Rs2C(w) # 0
  PROVE  Decoded16(w, width) = Instr("CMv", Rd(w), 0, Rs2C(w), 0)
  BY SMT DEF Decoded16, Frame

LEMMA CEbreakArm ==
  ASSUME NEW w, NEW width, Frame(w, 2, 4), 12 \in w, Rs2C(w) = 0, Rd(w) = 0
  PROVE  Decoded16(w, width) = Instr("CEbreak", 0, 0, 0, 0)
  BY SMT DEF Decoded16, Frame

LEMMA CJalrArm ==
  ASSUME NEW w, NEW width, Frame(w, 2, 4), 12 \in w, Rs2C(w) = 0, Rd(w) # 0
  PROVE  Decoded16(w, width) = Instr("CJalr", 0, Rd(w), 0, 0)
  BY SMT DEF Decoded16, Frame

LEMMA CAddArm ==
  ASSUME NEW w, NEW width, Frame(w, 2, 4), 12 \in w, Rs2C(w) # 0
  PROVE  Decoded16(w, width) = Instr("CAdd", Rd(w), 0, Rs2C(w), 0)
  BY SMT DEF Decoded16, Frame

LEMMA CSwspArm ==
  ASSUME NEW w, NEW width, Frame(w, 2, 6)
  PROVE  Decoded16(w, width) = Instr("CSwsp", 0, 0, Rs2C(w), ImmSwsp(w))
  BY SMT DEF Decoded16, Frame

LEMMA CSdspArm ==
  ASSUME NEW w, NEW width, Frame(w, 2, 7), width = 64
  PROVE  Decoded16(w, width) = Instr("CSdsp", 0, 0, Rs2C(w), ImmSdsp(w))
  BY SMT DEF Decoded16, Frame

\* Scaled immediates, put in place and read.
LEMMA LwspRead ==
  ASSUME NEW n, NEW w, n \in Nat, n < 256, n % 4 = 0,
         Carries(w, 2, 6, 2, WordSpImm(BitsOf(n))),
         12 \in w <=> 5 \in WordSpImm(BitsOf(n))
  PROVE  ImmLwsp(w) = n
<1> DEFINE bits == BitsOf(n)
           placed == WordSpImm(bits)
<1>1. /\ 0 \in placed <=> 6 \in bits
      /\ 1 \in placed <=> 7 \in bits
      /\ 2 \in placed <=> 2 \in bits
      /\ 3 \in placed <=> 3 \in bits
      /\ 4 \in placed <=> 4 \in bits
      /\ 5 \in placed <=> 5 \in bits
  BY SMT DEF WordSpImm, Run
<1>2. /\ Carries(w, 2, 6, 2, placed)
      /\ (12 \in w <=> 5 \in placed)
  OBVIOUS
<1> HIDE DEF bits, placed
<1>3. /\ 12 \in w <=> 5 \in bits
      /\ \A p \in 4 .. 6 : p \in w <=> p - 2 \in bits
      /\ \A p \in 2 .. 3 : p \in w <=> p + 4 \in bits
  BY <1>1, <1>2 DEF Carries
<1>4. QED
  BY <1>3, ImmLwspIs DEF bits

LEMMA LdspRead ==
  ASSUME NEW n, NEW w, n \in Nat, n < 512, n % 8 = 0,
         Carries(w, 2, 6, 2, DoubleSpImm(BitsOf(n))),
         12 \in w <=> 5 \in DoubleSpImm(BitsOf(n))
  PROVE  ImmLdsp(w) = n
<1> DEFINE bits == BitsOf(n)
           placed == DoubleSpImm(bits)
<1>1. /\ 0 \in placed <=> 6 \in bits
      /\ 1 \in placed <=> 7 \in bits
      /\ 2 \in placed <=> 8 \in bits
      /\ 3 \in placed <=> 3 \in bits
      /\ 4 \in placed <=> 4 \in bits
      /\ 5 \in placed <=> 5 \in bits
  BY SMT DEF DoubleSpImm, Run
<1>2. /\ Carries(w, 2, 6, 2, placed)
      /\ (12 \in w <=> 5 \in placed)
  OBVIOUS
<1> HIDE DEF bits, placed
<1>3. /\ 12 \in w <=> 5 \in bits
      /\ \A p \in 5 .. 6 : p \in w <=> p - 2 \in bits
      /\ \A p \in 2 .. 4 : p \in w <=> p + 4 \in bits
  BY <1>1, <1>2 DEF Carries
<1>4. QED
  BY <1>3, ImmLdspIs DEF bits

LEMMA SwspRead ==
  ASSUME NEW n, NEW w, n \in Nat, n < 256, n % 4 = 0,
         Carries(w, 7, 12, 7, WordSpImm(BitsOf(n)))
  PROVE  ImmSwsp(w) = n
<1> DEFINE bits == BitsOf(n)
           placed == WordSpImm(bits)
<1>1. /\ 0 \in placed <=> 6 \in bits
      /\ 1 \in placed <=> 7 \in bits
      /\ 2 \in placed <=> 2 \in bits
      /\ 3 \in placed <=> 3 \in bits
      /\ 4 \in placed <=> 4 \in bits
      /\ 5 \in placed <=> 5 \in bits
  BY SMT DEF WordSpImm, Run
<1>2. /\ Carries(w, 7, 12, 7, placed)
  OBVIOUS
<1> HIDE DEF bits, placed
<1>3. /\ \A p \in 9 .. 12 : p \in w <=> p - 7 \in bits
      /\ \A p \in 7 .. 8 : p \in w <=> p - 1 \in bits
  BY <1>1, <1>2 DEF Carries
<1>4. QED
  BY <1>3, ImmSwspIs DEF bits

LEMMA SdspRead ==
  ASSUME NEW n, NEW w, n \in Nat, n < 512, n % 8 = 0,
         Carries(w, 7, 12, 7, DoubleSpImm(BitsOf(n)))
  PROVE  ImmSdsp(w) = n
<1> DEFINE bits == BitsOf(n)
           placed == DoubleSpImm(bits)
<1>1. /\ 0 \in placed <=> 6 \in bits
      /\ 1 \in placed <=> 7 \in bits
      /\ 2 \in placed <=> 8 \in bits
      /\ 3 \in placed <=> 3 \in bits
      /\ 4 \in placed <=> 4 \in bits
      /\ 5 \in placed <=> 5 \in bits
  BY SMT DEF DoubleSpImm, Run
<1>2. /\ Carries(w, 7, 12, 7, placed)
  OBVIOUS
<1> HIDE DEF bits, placed
<1>3. /\ \A p \in 10 .. 12 : p \in w <=> p - 7 \in bits
      /\ \A p \in 7 .. 9 : p \in w <=> p - 1 \in bits
  BY <1>1, <1>2 DEF Carries
<1>4. QED
  BY <1>3, ImmSdspIs DEF bits

LEMMA SpRead ==
  ASSUME NEW n, NEW w, n \in Int, -512 <= n, n < 512, n % 16 = 0,
         Carries(w, 2, 6, 2, Addi16spImm(BitsOf(n))),
         12 \in w <=> 5 \in Addi16spImm(BitsOf(n))
  PROVE  ImmSp(w) = n
<1> DEFINE bits == BitsOf(n)
           placed == Addi16spImm(bits)
<1>1. /\ 5 \in placed <=> 9 \in bits
      /\ 4 \in placed <=> 4 \in bits
      /\ 3 \in placed <=> 6 \in bits
      /\ 2 \in placed <=> 8 \in bits
      /\ 1 \in placed <=> 7 \in bits
      /\ 0 \in placed <=> 5 \in bits
  BY SMT DEF Addi16spImm, Run
<1>2. /\ Carries(w, 2, 6, 2, placed)
      /\ (12 \in w <=> 5 \in placed)
  OBVIOUS
<1> HIDE DEF bits, placed
<1>3. /\ 12 \in w <=> 9 \in bits
      /\ 6 \in w <=> 4 \in bits
      /\ 5 \in w <=> 6 \in bits
      /\ \A p \in 3 .. 4 : p \in w <=> p + 4 \in bits
      /\ 2 \in w <=> 5 \in bits
  BY <1>1, <1>2 DEF Carries
<1>4. QED
  BY <1>3, ImmSpIs DEF bits

LEMMA WordRead ==
  ASSUME NEW n, NEW w, n \in Nat, n < 128, n % 4 = 0,
         Carries(w, 5, 6, 5, WordImm(BitsOf(n))),
         Carries(w, 10, 12, 8, WordImm(BitsOf(n)))
  PROVE  ImmW(w) = n
<1> DEFINE bits == BitsOf(n)
           placed == WordImm(bits)
<1>1. /\ 4 \in placed <=> 5 \in bits
      /\ 3 \in placed <=> 4 \in bits
      /\ 2 \in placed <=> 3 \in bits
      /\ 1 \in placed <=> 2 \in bits
      /\ 0 \in placed <=> 6 \in bits
  BY SMT DEF WordImm, Run
<1>2. /\ Carries(w, 5, 6, 5, placed)
      /\ Carries(w, 10, 12, 8, placed)
  OBVIOUS
<1> HIDE DEF bits, placed
<1>3. /\ \A p \in 10 .. 12 : p \in w <=> p - 7 \in bits
      /\ 6 \in w <=> 2 \in bits
      /\ 5 \in w <=> 6 \in bits
  BY <1>1, <1>2 DEF Carries
<1>4. QED
  BY <1>3, ImmWIs DEF bits

LEMMA DoubleRead ==
  ASSUME NEW n, NEW w, n \in Nat, n < 256, n % 8 = 0,
         Carries(w, 5, 6, 5, DoubleImm(BitsOf(n))),
         Carries(w, 10, 12, 8, DoubleImm(BitsOf(n)))
  PROVE  ImmD(w) = n
<1> DEFINE bits == BitsOf(n)
           placed == DoubleImm(bits)
<1>1. /\ 4 \in placed <=> 5 \in bits
      /\ 3 \in placed <=> 4 \in bits
      /\ 2 \in placed <=> 3 \in bits
      /\ 1 \in placed <=> 7 \in bits
      /\ 0 \in placed <=> 6 \in bits
  BY SMT DEF DoubleImm, Run
<1>2. /\ Carries(w, 5, 6, 5, placed)
      /\ Carries(w, 10, 12, 8, placed)
  OBVIOUS
<1> HIDE DEF bits, placed
<1>3. /\ \A p \in 10 .. 12 : p \in w <=> p - 7 \in bits
      /\ \A p \in 5 .. 6 : p \in w <=> p + 1 \in bits
  BY <1>1, <1>2 DEF Carries
<1>4. QED
  BY <1>3, ImmDIs DEF bits

LEMMA StackBits ==
  ASSUME NEW imm
  PROVE  WordSpImm(imm) \subseteq 0 .. 5 /\ DoubleSpImm(imm) \subseteq 0 .. 5
  BY DEF WordSpImm, DoubleSpImm, Run

\* The rows of the compressed formats.
LEMMA CRRow ==
  ASSUME NEW op \in DOMAIN CRType, op \in Opcodes
  PROVE  /\ RegisterFields[op] = {"rd", "rs2"} /\ OtherFields[op] = {}
         /\ ImmKind[op] = "none"
<1>1. RegisterFields[op] = {"rd", "rs2"}
  BY OpcodeTables, ArithmeticTables, AmoTables, SystemTables, FloatTables,
     CompressedTables
     DEF RegisterFields, Names
<1>2. OtherFields[op] = {}
  BY <1>1, OpcodeTables, ArithmeticTables, AmoTables, SystemTables, FloatTables,
     CompressedTables
     DEF OtherFields, Names
<1>3. ImmKind[op] = "none"
  BY OpcodeTables, ArithmeticTables, AmoTables, SystemTables, FloatTables,
     CompressedTables
     DEF ImmKind, Names
<1>4. QED
  BY <1>1, <1>2, <1>3

LEMMA CJrRow ==
  ASSUME NEW op \in DOMAIN CJrType, op \in Opcodes
  PROVE  /\ RegisterFields[op] = {"rs1"} /\ OtherFields[op] = {}
         /\ ImmKind[op] = "none"
<1>1. RegisterFields[op] = {"rs1"}
  BY OpcodeTables, ArithmeticTables, AmoTables, SystemTables, FloatTables,
     CompressedTables
     DEF RegisterFields, Names
<1>2. OtherFields[op] = {}
  BY <1>1, OpcodeTables, ArithmeticTables, AmoTables, SystemTables, FloatTables,
     CompressedTables
     DEF OtherFields, Names
<1>3. ImmKind[op] = "none"
  BY OpcodeTables, ArithmeticTables, AmoTables, SystemTables, FloatTables,
     CompressedTables
     DEF ImmKind, Names
<1>4. QED
  BY <1>1, <1>2, <1>3

LEMMA CARow ==
  ASSUME NEW op \in DOMAIN CAType, op \in Opcodes
  PROVE  /\ RegisterFields[op] = {"rd", "rs2"} /\ OtherFields[op] = {}
         /\ ImmKind[op] = "none"
<1>1. RegisterFields[op] = {"rd", "rs2"}
  BY OpcodeTables, ArithmeticTables, AmoTables, SystemTables, FloatTables,
     CompressedTables
     DEF RegisterFields, Names
<1>2. OtherFields[op] = {}
  BY <1>1, OpcodeTables, ArithmeticTables, AmoTables, SystemTables, FloatTables,
     CompressedTables
     DEF OtherFields, Names
<1>3. ImmKind[op] = "none"
  BY OpcodeTables, ArithmeticTables, AmoTables, SystemTables, FloatTables,
     CompressedTables
     DEF ImmKind, Names
<1>4. QED
  BY <1>1, <1>2, <1>3

LEMMA CIRow ==
  ASSUME NEW op \in DOMAIN CIType, op \in Opcodes, NEW width
  PROVE  /\ RegisterFields[op] = {"rd"} /\ OtherFields[op] = {}
         /\ ImmKind[op] = "i32" /\ Bounds(op, width) = Limits(-32, 31, 1)
<1>1. RegisterFields[op] = {"rd"}
  BY OpcodeTables, ArithmeticTables, AmoTables, SystemTables, FloatTables,
     CompressedTables
     DEF RegisterFields, Names
<1>2. OtherFields[op] = {}
  BY <1>1, OpcodeTables, ArithmeticTables, AmoTables, SystemTables, FloatTables,
     CompressedTables
     DEF OtherFields, Names
<1>3. ImmKind[op] = "i32"
  BY OpcodeTables, ArithmeticTables, AmoTables, SystemTables, FloatTables,
     CompressedTables
     DEF ImmKind, Names
<1>4. Bounds(op, width) = Limits(-32, 31, 1)
  BY OpcodeTables, ArithmeticTables, AmoTables, SystemTables, FloatTables,
     CompressedTables
     DEF Bounds, Names
<1>5. QED
  BY <1>1, <1>2, <1>3, <1>4

LEMMA CAndiRow ==
  ASSUME NEW op \in DOMAIN CBAluType, op \in Opcodes, NEW width
  PROVE  /\ RegisterFields[op] = {"rs1"} /\ OtherFields[op] = {}
         /\ ImmKind[op] = "i32" /\ Bounds(op, width) = Limits(-32, 31, 1)
<1>1. RegisterFields[op] = {"rs1"}
  BY OpcodeTables, ArithmeticTables, AmoTables, SystemTables, FloatTables,
     CompressedTables
     DEF RegisterFields, Names
<1>2. OtherFields[op] = {}
  BY <1>1, OpcodeTables, ArithmeticTables, AmoTables, SystemTables, FloatTables,
     CompressedTables
     DEF OtherFields, Names
<1>3. ImmKind[op] = "i32"
  BY OpcodeTables, ArithmeticTables, AmoTables, SystemTables, FloatTables,
     CompressedTables
     DEF ImmKind, Names
<1>4. Bounds(op, width) = Limits(-32, 31, 1)
  BY OpcodeTables, ArithmeticTables, AmoTables, SystemTables, FloatTables,
     CompressedTables
     DEF Bounds, Names
<1>5. QED
  BY <1>1, <1>2, <1>3, <1>4

LEMMA CSlliRow ==
  ASSUME NEW op \in DOMAIN CShiftType, op \in Opcodes, NEW width
  PROVE  /\ RegisterFields[op] = {"rd"} /\ OtherFields[op] = {}
         /\ ImmKind[op] = "shift" /\ Bounds(op, width) = Limits(1, width - 1, 1)
<1>1. RegisterFields[op] = {"rd"}
  BY OpcodeTables, ArithmeticTables, AmoTables, SystemTables, FloatTables,
     CompressedTables
     DEF RegisterFields, Names
<1>2. OtherFields[op] = {}
  BY <1>1, OpcodeTables, ArithmeticTables, AmoTables, SystemTables, FloatTables,
     CompressedTables
     DEF OtherFields, Names
<1>3. ImmKind[op] = "shift"
  BY OpcodeTables, ArithmeticTables, AmoTables, SystemTables, FloatTables,
     CompressedTables
     DEF ImmKind, Names
<1>4. Bounds(op, width) = Limits(1, width - 1, 1)
  BY OpcodeTables, ArithmeticTables, AmoTables, SystemTables, FloatTables,
     CompressedTables
     DEF Bounds, Names
<1>5. QED
  BY <1>1, <1>2, <1>3, <1>4

LEMMA CShiftRow ==
  ASSUME NEW op \in DOMAIN CBShiftType, op \in Opcodes, NEW width
  PROVE  /\ RegisterFields[op] = {"rs1"} /\ OtherFields[op] = {}
         /\ ImmKind[op] = "shift" /\ Bounds(op, width) = Limits(1, width - 1, 1)
<1>1. RegisterFields[op] = {"rs1"}
  BY OpcodeTables, ArithmeticTables, AmoTables, SystemTables, FloatTables,
     CompressedTables
     DEF RegisterFields, Names
<1>2. OtherFields[op] = {}
  BY <1>1, OpcodeTables, ArithmeticTables, AmoTables, SystemTables, FloatTables,
     CompressedTables
     DEF OtherFields, Names
<1>3. ImmKind[op] = "shift"
  BY OpcodeTables, ArithmeticTables, AmoTables, SystemTables, FloatTables,
     CompressedTables
     DEF ImmKind, Names
<1>4. Bounds(op, width) = Limits(1, width - 1, 1)
  BY OpcodeTables, ArithmeticTables, AmoTables, SystemTables, FloatTables,
     CompressedTables
     DEF Bounds, Names
<1>5. QED
  BY <1>1, <1>2, <1>3, <1>4

LEMMA CBRow ==
  ASSUME NEW op \in DOMAIN CBType, op \in Opcodes, NEW width
  PROVE  /\ RegisterFields[op] = {"rs1"} /\ OtherFields[op] = {}
         /\ ImmKind[op] = "i32" /\ Bounds(op, width) = Limits(-256, 254, 2)
<1>1. RegisterFields[op] = {"rs1"}
  BY OpcodeTables, ArithmeticTables, AmoTables, SystemTables, FloatTables,
     CompressedTables
     DEF RegisterFields, Names
<1>2. OtherFields[op] = {}
  BY <1>1, OpcodeTables, ArithmeticTables, AmoTables, SystemTables, FloatTables,
     CompressedTables
     DEF OtherFields, Names
<1>3. ImmKind[op] = "i32"
  BY OpcodeTables, ArithmeticTables, AmoTables, SystemTables, FloatTables,
     CompressedTables
     DEF ImmKind, Names
<1>4. Bounds(op, width) = Limits(-256, 254, 2)
  BY OpcodeTables, ArithmeticTables, AmoTables, SystemTables, FloatTables,
     CompressedTables
     DEF Bounds, Names
<1>5. QED
  BY <1>1, <1>2, <1>3, <1>4

LEMMA CJRow ==
  ASSUME NEW op \in DOMAIN CJType, op \in Opcodes, NEW width
  PROVE  /\ RegisterFields[op] = {} /\ OtherFields[op] = {}
         /\ ImmKind[op] = "i32" /\ Bounds(op, width) = Limits(-2048, 2046, 2)
<1>1. RegisterFields[op] = {}
  BY OpcodeTables, ArithmeticTables, AmoTables, SystemTables, FloatTables,
     CompressedTables
     DEF RegisterFields, Names
<1>2. OtherFields[op] = {}
  BY <1>1, OpcodeTables, ArithmeticTables, AmoTables, SystemTables, FloatTables,
     CompressedTables
     DEF OtherFields, Names
<1>3. ImmKind[op] = "i32"
  BY OpcodeTables, ArithmeticTables, AmoTables, SystemTables, FloatTables,
     CompressedTables
     DEF ImmKind, Names
<1>4. Bounds(op, width) = Limits(-2048, 2046, 2)
  BY OpcodeTables, ArithmeticTables, AmoTables, SystemTables, FloatTables,
     CompressedTables
     DEF Bounds, Names
<1>5. QED
  BY <1>1, <1>2, <1>3, <1>4

LEMMA CAddi16spRow ==
  ASSUME NEW op \in {"CAddi16sp"}, op \in Opcodes, NEW width
  PROVE  /\ RegisterFields[op] = {} /\ OtherFields[op] = {}
         /\ ImmKind[op] = "i32" /\ Bounds(op, width) = Limits(-512, 496, 16)
<1>1. RegisterFields[op] = {}
  BY OpcodeTables, ArithmeticTables, AmoTables, SystemTables, FloatTables,
     CompressedTables
     DEF RegisterFields, Names
<1>2. OtherFields[op] = {}
  BY <1>1, OpcodeTables, ArithmeticTables, AmoTables, SystemTables, FloatTables,
     CompressedTables
     DEF OtherFields, Names
<1>3. ImmKind[op] = "i32"
  BY OpcodeTables, ArithmeticTables, AmoTables, SystemTables, FloatTables,
     CompressedTables
     DEF ImmKind, Names
<1>4. Bounds(op, width) = Limits(-512, 496, 16)
  BY OpcodeTables, ArithmeticTables, AmoTables, SystemTables, FloatTables,
     CompressedTables
     DEF Bounds, Names
<1>5. QED
  BY <1>1, <1>2, <1>3, <1>4

LEMMA CAddi4spnRow ==
  ASSUME NEW op \in {"CAddi4spn"}, op \in Opcodes, NEW width
  PROVE  /\ RegisterFields[op] = {"rd"} /\ OtherFields[op] = {}
         /\ ImmKind[op] = "i32" /\ Bounds(op, width) = Limits(4, 1020, 4)
<1>1. RegisterFields[op] = {"rd"}
  BY OpcodeTables, ArithmeticTables, AmoTables, SystemTables, FloatTables,
     CompressedTables
     DEF RegisterFields, Names
<1>2. OtherFields[op] = {}
  BY <1>1, OpcodeTables, ArithmeticTables, AmoTables, SystemTables, FloatTables,
     CompressedTables
     DEF OtherFields, Names
<1>3. ImmKind[op] = "i32"
  BY OpcodeTables, ArithmeticTables, AmoTables, SystemTables, FloatTables,
     CompressedTables
     DEF ImmKind, Names
<1>4. Bounds(op, width) = Limits(4, 1020, 4)
  BY OpcodeTables, ArithmeticTables, AmoTables, SystemTables, FloatTables,
     CompressedTables
     DEF Bounds, Names
<1>5. QED
  BY <1>1, <1>2, <1>3, <1>4

LEMMA CEbreakRow ==
  ASSUME NEW op \in {"CEbreak"}, op \in Opcodes
  PROVE  /\ RegisterFields[op] = {} /\ OtherFields[op] = {}
         /\ ImmKind[op] = "none"
<1>1. RegisterFields[op] = {}
  BY OpcodeTables, ArithmeticTables, AmoTables, SystemTables, FloatTables,
     CompressedTables
     DEF RegisterFields, Names
<1>2. OtherFields[op] = {}
  BY <1>1, OpcodeTables, ArithmeticTables, AmoTables, SystemTables, FloatTables,
     CompressedTables
     DEF OtherFields, Names
<1>3. ImmKind[op] = "none"
  BY OpcodeTables, ArithmeticTables, AmoTables, SystemTables, FloatTables,
     CompressedTables
     DEF ImmKind, Names
<1>4. QED
  BY <1>1, <1>2, <1>3

LEMMA CLwspRow ==
  ASSUME NEW op \in {"CLwsp"}, op \in Opcodes, NEW width
  PROVE  /\ RegisterFields[op] = {"rd"} /\ OtherFields[op] = {}
         /\ ImmKind[op] = "i32" /\ Bounds(op, width) = Limits(0, 252, 4)
<1>1. RegisterFields[op] = {"rd"}
  BY OpcodeTables, ArithmeticTables, AmoTables, SystemTables, FloatTables,
     CompressedTables
     DEF RegisterFields, Names
<1>2. OtherFields[op] = {}
  BY <1>1, OpcodeTables, ArithmeticTables, AmoTables, SystemTables, FloatTables,
     CompressedTables
     DEF OtherFields, Names
<1>3. ImmKind[op] = "i32"
  BY OpcodeTables, ArithmeticTables, AmoTables, SystemTables, FloatTables,
     CompressedTables
     DEF ImmKind, Names
<1>4. Bounds(op, width) = Limits(0, 252, 4)
  BY OpcodeTables, ArithmeticTables, AmoTables, SystemTables, FloatTables,
     CompressedTables
     DEF Bounds, Names
<1>5. QED
  BY <1>1, <1>2, <1>3, <1>4

LEMMA CLdspRow ==
  ASSUME NEW op \in {"CLdsp"}, op \in Opcodes, NEW width
  PROVE  /\ RegisterFields[op] = {"rd"} /\ OtherFields[op] = {}
         /\ ImmKind[op] = "i32" /\ Bounds(op, width) = Limits(0, 504, 8)
<1>1. RegisterFields[op] = {"rd"}
  BY OpcodeTables, ArithmeticTables, AmoTables, SystemTables, FloatTables,
     CompressedTables
     DEF RegisterFields, Names
<1>2. OtherFields[op] = {}
  BY <1>1, OpcodeTables, ArithmeticTables, AmoTables, SystemTables, FloatTables,
     CompressedTables
     DEF OtherFields, Names
<1>3. ImmKind[op] = "i32"
  BY OpcodeTables, ArithmeticTables, AmoTables, SystemTables, FloatTables,
     CompressedTables
     DEF ImmKind, Names
<1>4. Bounds(op, width) = Limits(0, 504, 8)
  BY OpcodeTables, ArithmeticTables, AmoTables, SystemTables, FloatTables,
     CompressedTables
     DEF Bounds, Names
<1>5. QED
  BY <1>1, <1>2, <1>3, <1>4

LEMMA CSwspRow ==
  ASSUME NEW op \in {"CSwsp"}, op \in Opcodes, NEW width
  PROVE  /\ RegisterFields[op] = {"rs2"} /\ OtherFields[op] = {}
         /\ ImmKind[op] = "i32" /\ Bounds(op, width) = Limits(0, 252, 4)
<1>1. RegisterFields[op] = {"rs2"}
  BY OpcodeTables, ArithmeticTables, AmoTables, SystemTables, FloatTables,
     CompressedTables
     DEF RegisterFields, Names
<1>2. OtherFields[op] = {}
  BY <1>1, OpcodeTables, ArithmeticTables, AmoTables, SystemTables, FloatTables,
     CompressedTables
     DEF OtherFields, Names
<1>3. ImmKind[op] = "i32"
  BY OpcodeTables, ArithmeticTables, AmoTables, SystemTables, FloatTables,
     CompressedTables
     DEF ImmKind, Names
<1>4. Bounds(op, width) = Limits(0, 252, 4)
  BY OpcodeTables, ArithmeticTables, AmoTables, SystemTables, FloatTables,
     CompressedTables
     DEF Bounds, Names
<1>5. QED
  BY <1>1, <1>2, <1>3, <1>4

LEMMA CSdspRow ==
  ASSUME NEW op \in {"CSdsp"}, op \in Opcodes, NEW width
  PROVE  /\ RegisterFields[op] = {"rs2"} /\ OtherFields[op] = {}
         /\ ImmKind[op] = "i32" /\ Bounds(op, width) = Limits(0, 504, 8)
<1>1. RegisterFields[op] = {"rs2"}
  BY OpcodeTables, ArithmeticTables, AmoTables, SystemTables, FloatTables,
     CompressedTables
     DEF RegisterFields, Names
<1>2. OtherFields[op] = {}
  BY <1>1, OpcodeTables, ArithmeticTables, AmoTables, SystemTables, FloatTables,
     CompressedTables
     DEF OtherFields, Names
<1>3. ImmKind[op] = "i32"
  BY OpcodeTables, ArithmeticTables, AmoTables, SystemTables, FloatTables,
     CompressedTables
     DEF ImmKind, Names
<1>4. Bounds(op, width) = Limits(0, 504, 8)
  BY OpcodeTables, ArithmeticTables, AmoTables, SystemTables, FloatTables,
     CompressedTables
     DEF Bounds, Names
<1>5. QED
  BY <1>1, <1>2, <1>3, <1>4

LEMMA CLwRow ==
  ASSUME NEW op \in {"CLw"}, op \in Opcodes, NEW width
  PROVE  /\ RegisterFields[op] = {"rd", "rs1"} /\ OtherFields[op] = {}
         /\ ImmKind[op] = "i32" /\ Bounds(op, width) = Limits(0, 124, 4)
<1>1. RegisterFields[op] = {"rd", "rs1"}
  BY OpcodeTables, ArithmeticTables, AmoTables, SystemTables, FloatTables,
     CompressedTables
     DEF RegisterFields, Names
<1>2. OtherFields[op] = {}
  BY <1>1, OpcodeTables, ArithmeticTables, AmoTables, SystemTables, FloatTables,
     CompressedTables
     DEF OtherFields, Names
<1>3. ImmKind[op] = "i32"
  BY OpcodeTables, ArithmeticTables, AmoTables, SystemTables, FloatTables,
     CompressedTables
     DEF ImmKind, Names
<1>4. Bounds(op, width) = Limits(0, 124, 4)
  BY OpcodeTables, ArithmeticTables, AmoTables, SystemTables, FloatTables,
     CompressedTables
     DEF Bounds, Names
<1>5. QED
  BY <1>1, <1>2, <1>3, <1>4

LEMMA CLdRow ==
  ASSUME NEW op \in {"CLd"}, op \in Opcodes, NEW width
  PROVE  /\ RegisterFields[op] = {"rd", "rs1"} /\ OtherFields[op] = {}
         /\ ImmKind[op] = "i32" /\ Bounds(op, width) = Limits(0, 248, 8)
<1>1. RegisterFields[op] = {"rd", "rs1"}
  BY OpcodeTables, ArithmeticTables, AmoTables, SystemTables, FloatTables,
     CompressedTables
     DEF RegisterFields, Names
<1>2. OtherFields[op] = {}
  BY <1>1, OpcodeTables, ArithmeticTables, AmoTables, SystemTables, FloatTables,
     CompressedTables
     DEF OtherFields, Names
<1>3. ImmKind[op] = "i32"
  BY OpcodeTables, ArithmeticTables, AmoTables, SystemTables, FloatTables,
     CompressedTables
     DEF ImmKind, Names
<1>4. Bounds(op, width) = Limits(0, 248, 8)
  BY OpcodeTables, ArithmeticTables, AmoTables, SystemTables, FloatTables,
     CompressedTables
     DEF Bounds, Names
<1>5. QED
  BY <1>1, <1>2, <1>3, <1>4

LEMMA CSwRow ==
  ASSUME NEW op \in {"CSw"}, op \in Opcodes, NEW width
  PROVE  /\ RegisterFields[op] = {"rs1", "rs2"} /\ OtherFields[op] = {}
         /\ ImmKind[op] = "i32" /\ Bounds(op, width) = Limits(0, 124, 4)
<1>1. RegisterFields[op] = {"rs1", "rs2"}
  BY OpcodeTables, ArithmeticTables, AmoTables, SystemTables, FloatTables,
     CompressedTables
     DEF RegisterFields, Names
<1>2. OtherFields[op] = {}
  BY <1>1, OpcodeTables, ArithmeticTables, AmoTables, SystemTables, FloatTables,
     CompressedTables
     DEF OtherFields, Names
<1>3. ImmKind[op] = "i32"
  BY OpcodeTables, ArithmeticTables, AmoTables, SystemTables, FloatTables,
     CompressedTables
     DEF ImmKind, Names
<1>4. Bounds(op, width) = Limits(0, 124, 4)
  BY OpcodeTables, ArithmeticTables, AmoTables, SystemTables, FloatTables,
     CompressedTables
     DEF Bounds, Names
<1>5. QED
  BY <1>1, <1>2, <1>3, <1>4

LEMMA CSdRow ==
  ASSUME NEW op \in {"CSd"}, op \in Opcodes, NEW width
  PROVE  /\ RegisterFields[op] = {"rs1", "rs2"} /\ OtherFields[op] = {}
         /\ ImmKind[op] = "i32" /\ Bounds(op, width) = Limits(0, 248, 8)
<1>1. RegisterFields[op] = {"rs1", "rs2"}
  BY OpcodeTables, ArithmeticTables, AmoTables, SystemTables, FloatTables,
     CompressedTables
     DEF RegisterFields, Names
<1>2. OtherFields[op] = {}
  BY <1>1, OpcodeTables, ArithmeticTables, AmoTables, SystemTables, FloatTables,
     CompressedTables
     DEF OtherFields, Names
<1>3. ImmKind[op] = "i32"
  BY OpcodeTables, ArithmeticTables, AmoTables, SystemTables, FloatTables,
     CompressedTables
     DEF ImmKind, Names
<1>4. Bounds(op, width) = Limits(0, 248, 8)
  BY OpcodeTables, ArithmeticTables, AmoTables, SystemTables, FloatTables,
     CompressedTables
     DEF Bounds, Names
<1>5. QED
  BY <1>1, <1>2, <1>3, <1>4

\* The hart takes a parcel for the instruction it was packed from.
Brief(x, width) ==
    /\ Decoded16(Packed(x), width) = x
    /\ Access16(Packed(x), x) = MemoryOperand(x)
    /\ ~({0, 1} \subseteq Packed(x))

LEMMA ShortAccess ==
  ASSUME NEW w, NEW d
  PROVE  /\ \A f \in 0 .. 7 : Frame(w, 1, f) => Access16(w, d) = NoAccess
         /\ \A f \in {0, 1, 4, 5} : Frame(w, 0, f) \/ Frame(w, 2, f) =>
                Access16(w, d) = NoAccess
         /\ \A f \in {2, 6} : Frame(w, 0, f) => Access16(w, d) = AccessOf(d.rs1, d.imm, 4)
         /\ \A f \in {3, 7} : Frame(w, 0, f) => Access16(w, d) = AccessOf(d.rs1, d.imm, 8)
         /\ \A f \in {2, 6} : Frame(w, 2, f) => Access16(w, d) = AccessOf(2, d.imm, 4)
         /\ \A f \in {3, 7} : Frame(w, 2, f) => Access16(w, d) = AccessOf(2, d.imm, 8)
<1>1. 2^2 = 4 /\ 2^3 = 8
  BY PowersAre
<1>2. \A f \in 0 .. 7 : Frame(w, 1, f) => Access16(w, d) = NoAccess
  BY AccessC
<1>3. \A f \in {0, 1, 4, 5} : Frame(w, 0, f) \/ Frame(w, 2, f) => Access16(w, d) = NoAccess
  <2>1. \A f \in {0, 1, 4, 5} : f \in Nat /\ f % 4 < 2
    OBVIOUS
  <2>2. QED
    BY <2>1, AccessC
<1>4. \A f \in {2, 6} : f \in Nat /\ f % 4 = 2 /\ ~(f % 4 < 2)
  OBVIOUS
<1>5. \A f \in {3, 7} : f \in Nat /\ f % 4 = 3 /\ ~(f % 4 < 2)
  OBVIOUS
<1>6. ASSUME NEW f \in {2, 6}
      PROVE  /\ Frame(w, 0, f) => Access16(w, d) = AccessOf(d.rs1, d.imm, 2^2)
             /\ Frame(w, 2, f) => Access16(w, d) = AccessOf(2, d.imm, 2^2)
  BY <1>4, AccessC
<1>7. ASSUME NEW f \in {3, 7}
      PROVE  /\ Frame(w, 0, f) => Access16(w, d) = AccessOf(d.rs1, d.imm, 2^3)
             /\ Frame(w, 2, f) => Access16(w, d) = AccessOf(2, d.imm, 2^3)
  BY <1>5, AccessC
<1>8. QED
  BY <1>1, <1>2, <1>3, <1>6, <1>7, Zenon

LEMMA ShortOperand ==
  ASSUME NEW x, x.op \in CompressedNames
  PROVE  /\ x.op \in {"CLw", "CSw"} => MemoryOperand(x) = AccessOf(x.rs1, x.imm, 4)
         /\ x.op \in {"CLd", "CSd"} => MemoryOperand(x) = AccessOf(x.rs1, x.imm, 8)
         /\ x.op \in {"CLwsp", "CSwsp"} => MemoryOperand(x) = AccessOf(2, x.imm, 4)
         /\ x.op \in {"CLdsp", "CSdsp"} => MemoryOperand(x) = AccessOf(2, x.imm, 8)
         /\ x.op \notin {"CLw", "CSw", "CLd", "CSd", "CLwsp", "CSwsp", "CLdsp", "CSdsp"} =>
                MemoryOperand(x) = NoAccess
<1>1. NoOtherFormat(x.op)
  BY OtherFormats
<1>2. x.op \notin DOMAIN AmoType /\ x.op \notin DOMAIN AmoDType
  BY <1>1 DEF NoOtherFormat
<1>3. QED
  BY <1>2 DEF MemoryOperand, CompressedNames

\* What the checks leave of a register and of an immediate.
LEMMA ShortRegisters ==
  ASSUME NEW x, NEW width, Shaped(x), Valid(x, width), OtherFields[x.op] = {}
  PROVE  /\ "rd" \in RegisterFields[x.op] => ValidRegister(x.op, x.rd)
         /\ "rs1" \in RegisterFields[x.op] => ValidRegister(x.op, x.rs1)
         /\ "rs2" \in RegisterFields[x.op] => ValidRegister(x.op, x.rs2)
  BY DEF Valid

LEMMA EightRegisters ==
  ASSUME NEW x, NEW width, Shaped(x), Valid(x, width), OtherFields[x.op] = {},
         x.op \in Compact
  PROVE  /\ "rd" \in RegisterFields[x.op] => \E n : n \in Nat /\ n < 8 /\ Eighth(x.rd, n)
         /\ "rs1" \in RegisterFields[x.op] => \E n : n \in Nat /\ n < 8 /\ Eighth(x.rs1, n)
         /\ "rs2" \in RegisterFields[x.op] => \E n : n \in Nat /\ n < 8 /\ Eighth(x.rs2, n)
<1>1. ASSUME NEW r, ValidRegister(x.op, r)
      PROVE  \E n : n \in Nat /\ n < 8 /\ Eighth(r, n)
  <2>1. r \in 8 .. 15
    BY <1>1 DEF ValidRegister
  <2>2. r - 8 \in Nat /\ r - 8 < 8 /\ Eighth(r, r - 8)
    BY <2>1 DEF Eighth
  <2>3. QED
    BY <2>2
<1>2. QED
  BY <1>1, ShortRegisters

LEMMA NonzeroIs ==
  Nonzero = {"CMv", "CAdd", "CJr", "CJalr", "CSlli", "CLui", "CAddiw", "CLwsp", "CLdsp"}
  BY CompressedTables DEF Nonzero, Names

LEMMA ShortImmediates ==
  ASSUME NEW x, NEW width, Valid(x, width), ImmKind[x.op] \in {"i32", "shift"}
  PROVE  /\ x.imm \in Bounds(x.op, width).min .. Bounds(x.op, width).max
         /\ x.imm % Bounds(x.op, width).alignment = 0
         /\ x.op \in NonzeroImmediate => x.imm # 0
  BY DEF Valid, ValidImmediate

LEMMA SignBit ==
  ASSUME NEW n \in Nat, n < 32
  PROVE  5 \notin BitsOf(n)
  BY FewBits

LEMMA NonzeroBits ==
  ASSUME NEW w, ImmCI(w) # 0
  PROVE  Bits6(w) # {}
<1>1. At(0, 0) = {}
  BY Nothing
<1>2. BitsOf(0) = {}
  <2>1. \A p : p \in At(0, 0) <=> p \in 0 .. 31 /\ p - 0 \in BitsOf(0)
    BY InAt
  <2>2. \A p \in BitsOf(0) : p \in 0 .. 31 /\ p - 0 = p
    BY BitsAreWord
  <2>3. QED
    BY <1>1, <2>1, <2>2
<1>3. ImmCI({}) = 0
  BY <1>2, ImmCIIs
<1>4. Bits6({}) = {}
  BY DEF Bits6, Laid
<1>5. QED
  BY <1>3, <1>4 DEF ImmCI

LEMMA LowOp ==
  ASSUME NEW w, NEW m, m \in Nat, m < 2, \A p \in 5 .. 6 : p \in w <=> p \in At(m, 5)
  PROVE  6 \notin w /\ Field(w, 5, 5) = m
<1>1. BitsOf(m) \subseteq 0 .. 1 /\ ~Odd(m, 1)
  BY FewBits, PowersAre, SMT DEF Odd
<1>2. BitsOf(m) \subseteq 0 .. 5 - 5
  BY <1>1, BitIsOdd
<1>3. 6 \notin w
  BY <1>2, InAt
<1>4. m \in Small
  BY SmallAre
<1>5. QED
  BY <1>2, <1>3, <1>4, FieldAt

LEMMA CMvUnderstood ==
  ASSUME NEW x, Shaped(x), x.op = "CMv", NEW width \in {32, 64},
         SupportsXlen(x.op, width), Valid(x, width)
  PROVE  Brief(x, width)
<1> DEFINE w == Packed(x)
<1>1. x.op \in DOMAIN CRType /\ x.op \in CompressedNames /\ x.op \in Opcodes
  BY CompressedTables DEF CompressedNames, Shaped
<1>2. /\ RegisterFields[x.op] = {"rd", "rs2"} /\ OtherFields[x.op] = {}
      /\ ImmKind[x.op] = "none"
  BY <1>1, CRRow
<1>3. /\ x.rs3 = 0 /\ x.rs1 = 0
      /\ x.imm \in Int /\ x.imm = 0
      /\ x.rd \in Nat /\ x.rd < 32
      /\ x.rs2 \in Nat /\ x.rs2 < 32
  BY <1>2 DEF Shaped
<1>4. x.rd # 0
  BY <1>2, ShortRegisters, NonzeroIs DEF ValidRegister
<1>5. x.rs2 # 0
  BY <1>2, ShortRegisters, NonzeroIs DEF ValidRegister
<1>6. w = PackCR(BaseC(2, 0, 0, 0, 4), x.rd, x.rs2)
  <2>1. w = PackedC(x, BitsOf(x.imm))
    BY <1>1, PackedCompressed
  <2>2. CRType[x.op] = BaseC(2, 0, 0, 0, 4)
    BY DEF CRType, BaseC
  <2>3. PackedC(x, BitsOf(x.imm)) = PackCR(CRType[x.op], x.rd, x.rs2)
    BY CompressedTables DEF PackedC
  <2>4. QED
    BY <2>1, <2>2, <2>3
<1> HIDE DEF w
<1>7. Frame(w, 2, 4) /\ OneBit(w, 0) /\ Rd(w) = x.rd /\ Rs2C(w) = x.rs2
  BY <1>3, <1>4, <1>5, <1>6, CRFields
<1>8. 12 \notin w
  BY <1>3, <1>4, <1>5, <1>7, SMT DEF OneBit
<1>9. Decoded16(w, width) = Instr("CMv", x.rd, 0, x.rs2, 0)
  BY <1>3, <1>4, <1>5, <1>7, <1>8, CMvArm
<1>10. x = Instr("CMv", x.rd, 0, x.rs2, 0)
  BY <1>3, <1>4, <1>5, ShapedIs
<1>11. Access16(w, x) = MemoryOperand(x)
  BY <1>1, <1>7, ShortAccess, ShortOperand
<1>12. ~({0, 1} \subseteq w)
  BY <1>7 DEF Frame
<1>13. QED
  BY <1>9, <1>10, <1>11, <1>12 DEF Brief, w

LEMMA CAddUnderstood ==
  ASSUME NEW x, Shaped(x), x.op = "CAdd", NEW width \in {32, 64},
         SupportsXlen(x.op, width), Valid(x, width)
  PROVE  Brief(x, width)
<1> DEFINE w == Packed(x)
<1>1. x.op \in DOMAIN CRType /\ x.op \in CompressedNames /\ x.op \in Opcodes
  BY CompressedTables DEF CompressedNames, Shaped
<1>2. /\ RegisterFields[x.op] = {"rd", "rs2"} /\ OtherFields[x.op] = {}
      /\ ImmKind[x.op] = "none"
  BY <1>1, CRRow
<1>3. /\ x.rs3 = 0 /\ x.rs1 = 0
      /\ x.imm \in Int /\ x.imm = 0
      /\ x.rd \in Nat /\ x.rd < 32
      /\ x.rs2 \in Nat /\ x.rs2 < 32
  BY <1>2 DEF Shaped
<1>4. x.rd # 0
  BY <1>2, ShortRegisters, NonzeroIs DEF ValidRegister
<1>5. x.rs2 # 0
  BY <1>2, ShortRegisters, NonzeroIs DEF ValidRegister
<1>6. w = PackCR(BaseC(2, 0, 0, 1, 4), x.rd, x.rs2)
  <2>1. w = PackedC(x, BitsOf(x.imm))
    BY <1>1, PackedCompressed
  <2>2. CRType[x.op] = BaseC(2, 0, 0, 1, 4)
    BY DEF CRType, BaseC
  <2>3. PackedC(x, BitsOf(x.imm)) = PackCR(CRType[x.op], x.rd, x.rs2)
    BY CompressedTables DEF PackedC
  <2>4. QED
    BY <2>1, <2>2, <2>3
<1> HIDE DEF w
<1>7. Frame(w, 2, 4) /\ OneBit(w, 1) /\ Rd(w) = x.rd /\ Rs2C(w) = x.rs2
  BY <1>3, <1>4, <1>5, <1>6, CRFields
<1>8. 12 \in w
  BY <1>3, <1>4, <1>5, <1>7, SMT DEF OneBit
<1>9. Decoded16(w, width) = Instr("CAdd", x.rd, 0, x.rs2, 0)
  BY <1>3, <1>4, <1>5, <1>7, <1>8, CAddArm
<1>10. x = Instr("CAdd", x.rd, 0, x.rs2, 0)
  BY <1>3, <1>4, <1>5, ShapedIs
<1>11. Access16(w, x) = MemoryOperand(x)
  BY <1>1, <1>7, ShortAccess, ShortOperand
<1>12. ~({0, 1} \subseteq w)
  BY <1>7 DEF Frame
<1>13. QED
  BY <1>9, <1>10, <1>11, <1>12 DEF Brief, w

LEMMA CJrUnderstood ==
  ASSUME NEW x, Shaped(x), x.op = "CJr", NEW width \in {32, 64},
         SupportsXlen(x.op, width), Valid(x, width)
  PROVE  Brief(x, width)
<1> DEFINE w == Packed(x)
<1>1. x.op \in DOMAIN CJrType /\ x.op \in CompressedNames /\ x.op \in Opcodes
  BY CompressedTables DEF CompressedNames, Shaped
<1>2. /\ RegisterFields[x.op] = {"rs1"} /\ OtherFields[x.op] = {}
      /\ ImmKind[x.op] = "none"
  BY <1>1, CJrRow
<1>3. /\ x.rs3 = 0 /\ x.rd = 0 /\ x.rs2 = 0
      /\ x.imm \in Int /\ x.imm = 0
      /\ x.rs1 \in Nat /\ x.rs1 < 32
  BY <1>2 DEF Shaped
<1>4. x.rs1 # 0
  BY <1>2, ShortRegisters, NonzeroIs DEF ValidRegister
<1>5. w = PackCR(BaseC(2, 0, 0, 0, 4), x.rs1, 0)
  <2>1. w = PackedC(x, BitsOf(x.imm))
    BY <1>1, PackedCompressed
  <2>2. CJrType[x.op] = BaseC(2, 0, 0, 0, 4)
    BY DEF CJrType, BaseC
  <2>3. PackedC(x, BitsOf(x.imm)) = PackCR(CJrType[x.op], x.rs1, 0)
    BY CompressedTables DEF PackedC
  <2>4. QED
    BY <2>1, <2>2, <2>3
<1> HIDE DEF w
<1>6. Frame(w, 2, 4) /\ OneBit(w, 0) /\ Rd(w) = x.rs1 /\ Rs2C(w) = 0
  BY <1>3, <1>4, <1>5, CRFields
<1>7. 12 \notin w
  BY <1>3, <1>4, <1>6, SMT DEF OneBit
<1>8. Decoded16(w, width) = Instr("CJr", 0, x.rs1, 0, 0)
  BY <1>3, <1>4, <1>6, <1>7, CJrArm
<1>9. x = Instr("CJr", 0, x.rs1, 0, 0)
  BY <1>3, <1>4, ShapedIs
<1>10. Access16(w, x) = MemoryOperand(x)
  BY <1>1, <1>6, ShortAccess, ShortOperand
<1>11. ~({0, 1} \subseteq w)
  BY <1>6 DEF Frame
<1>12. QED
  BY <1>8, <1>9, <1>10, <1>11 DEF Brief, w

LEMMA CJalrUnderstood ==
  ASSUME NEW x, Shaped(x), x.op = "CJalr", NEW width \in {32, 64},
         SupportsXlen(x.op, width), Valid(x, width)
  PROVE  Brief(x, width)
<1> DEFINE w == Packed(x)
<1>1. x.op \in DOMAIN CJrType /\ x.op \in CompressedNames /\ x.op \in Opcodes
  BY CompressedTables DEF CompressedNames, Shaped
<1>2. /\ RegisterFields[x.op] = {"rs1"} /\ OtherFields[x.op] = {}
      /\ ImmKind[x.op] = "none"
  BY <1>1, CJrRow
<1>3. /\ x.rs3 = 0 /\ x.rd = 0 /\ x.rs2 = 0
      /\ x.imm \in Int /\ x.imm = 0
      /\ x.rs1 \in Nat /\ x.rs1 < 32
  BY <1>2 DEF Shaped
<1>4. x.rs1 # 0
  BY <1>2, ShortRegisters, NonzeroIs DEF ValidRegister
<1>5. w = PackCR(BaseC(2, 0, 0, 1, 4), x.rs1, 0)
  <2>1. w = PackedC(x, BitsOf(x.imm))
    BY <1>1, PackedCompressed
  <2>2. CJrType[x.op] = BaseC(2, 0, 0, 1, 4)
    BY DEF CJrType, BaseC
  <2>3. PackedC(x, BitsOf(x.imm)) = PackCR(CJrType[x.op], x.rs1, 0)
    BY CompressedTables DEF PackedC
  <2>4. QED
    BY <2>1, <2>2, <2>3
<1> HIDE DEF w
<1>6. Frame(w, 2, 4) /\ OneBit(w, 1) /\ Rd(w) = x.rs1 /\ Rs2C(w) = 0
  BY <1>3, <1>4, <1>5, CRFields
<1>7. 12 \in w
  BY <1>3, <1>4, <1>6, SMT DEF OneBit
<1>8. Decoded16(w, width) = Instr("CJalr", 0, x.rs1, 0, 0)
  BY <1>3, <1>4, <1>6, <1>7, CJalrArm
<1>9. x = Instr("CJalr", 0, x.rs1, 0, 0)
  BY <1>3, <1>4, ShapedIs
<1>10. Access16(w, x) = MemoryOperand(x)
  BY <1>1, <1>6, ShortAccess, ShortOperand
<1>11. ~({0, 1} \subseteq w)
  BY <1>6 DEF Frame
<1>12. QED
  BY <1>8, <1>9, <1>10, <1>11 DEF Brief, w

LEMMA CSubUnderstood ==
  ASSUME NEW x, Shaped(x), x.op = "CSub", NEW width \in {32, 64},
         SupportsXlen(x.op, width), Valid(x, width)
  PROVE  Brief(x, width)
<1> DEFINE w == Packed(x)
<1>1. x.op \in DOMAIN CAType /\ x.op \in CompressedNames /\ x.op \in Opcodes
      /\ x.op \in Compact
  BY CompressedTables, CompactIs DEF CompressedNames, Shaped
<1>2. /\ RegisterFields[x.op] = {"rd", "rs2"} /\ OtherFields[x.op] = {}
      /\ ImmKind[x.op] = "none"
  BY <1>1, CARow
<1>3. /\ x.rs3 = 0 /\ x.rs1 = 0
      /\ x.imm \in Int /\ x.imm = 0
      /\ x.rd \in Nat /\ x.rd < 32
      /\ x.rs2 \in Nat /\ x.rs2 < 32
  BY <1>2 DEF Shaped
<1>4. PICK d : d \in Nat /\ d < 8 /\ Eighth(x.rd, d)
  BY <1>1, <1>2, EightRegisters
<1>5. PICK s : s \in Nat /\ s < 8 /\ Eighth(x.rs2, s)
  BY <1>1, <1>2, EightRegisters
<1>6. w = PackCR(BaseC(1, 0, 3, 0, 4), d, s)
  <2>1. w = PackedC(x, BitsOf(x.imm))
    BY <1>1, PackedCompressed
  <2>2. CAType[x.op] = BaseC(1, 0, 3, 0, 4)
    BY DEF CAType, BaseC
  <2>3. PackedC(x, BitsOf(x.imm)) = PackCR(CAType[x.op], x.rd - 8, x.rs2 - 8)
    BY CompressedTables DEF PackedC
  <2>4. x.rd - 8 = d /\ x.rs2 - 8 = s
    BY <1>3, <1>4, <1>5 DEF Eighth
  <2>5. QED
    BY <2>1, <2>2, <2>3, <2>4
<1> HIDE DEF w
<1>7. /\ Frame(w, 1, 4) /\ OneBit(w, 0) /\ Rs1Short(w) = x.rd /\ RdShort(w) = x.rs2
      /\ Field(w, 11, 10) = 3 /\ Field(w, 6, 5) = 0
      /\ \A p \in 5 .. 6 : p \in w <=> p \in At(0, 5)
  BY <1>3, <1>4, <1>5, <1>6, CAFields DEF Eighth
<1>8. 12 \notin w
  BY <1>3, <1>4, <1>5, <1>7, SMT DEF OneBit
<1>9. Decoded16(w, width) = Instr("CSub", x.rd, 0, x.rs2, 0)
  BY <1>3, <1>4, <1>5, <1>7, <1>8, CAluArm
<1>10. x = Instr("CSub", x.rd, 0, x.rs2, 0)
  BY <1>3, <1>4, <1>5, ShapedIs
<1>11. Access16(w, x) = MemoryOperand(x)
  BY <1>1, <1>7, ShortAccess, ShortOperand
<1>12. ~({0, 1} \subseteq w)
  BY <1>7 DEF Frame
<1>13. QED
  BY <1>9, <1>10, <1>11, <1>12 DEF Brief, w

LEMMA CXorUnderstood ==
  ASSUME NEW x, Shaped(x), x.op = "CXor", NEW width \in {32, 64},
         SupportsXlen(x.op, width), Valid(x, width)
  PROVE  Brief(x, width)
<1> DEFINE w == Packed(x)
<1>1. x.op \in DOMAIN CAType /\ x.op \in CompressedNames /\ x.op \in Opcodes
      /\ x.op \in Compact
  BY CompressedTables, CompactIs DEF CompressedNames, Shaped
<1>2. /\ RegisterFields[x.op] = {"rd", "rs2"} /\ OtherFields[x.op] = {}
      /\ ImmKind[x.op] = "none"
  BY <1>1, CARow
<1>3. /\ x.rs3 = 0 /\ x.rs1 = 0
      /\ x.imm \in Int /\ x.imm = 0
      /\ x.rd \in Nat /\ x.rd < 32
      /\ x.rs2 \in Nat /\ x.rs2 < 32
  BY <1>2 DEF Shaped
<1>4. PICK d : d \in Nat /\ d < 8 /\ Eighth(x.rd, d)
  BY <1>1, <1>2, EightRegisters
<1>5. PICK s : s \in Nat /\ s < 8 /\ Eighth(x.rs2, s)
  BY <1>1, <1>2, EightRegisters
<1>6. w = PackCR(BaseC(1, 1, 3, 0, 4), d, s)
  <2>1. w = PackedC(x, BitsOf(x.imm))
    BY <1>1, PackedCompressed
  <2>2. CAType[x.op] = BaseC(1, 1, 3, 0, 4)
    BY DEF CAType, BaseC
  <2>3. PackedC(x, BitsOf(x.imm)) = PackCR(CAType[x.op], x.rd - 8, x.rs2 - 8)
    BY CompressedTables DEF PackedC
  <2>4. x.rd - 8 = d /\ x.rs2 - 8 = s
    BY <1>3, <1>4, <1>5 DEF Eighth
  <2>5. QED
    BY <2>1, <2>2, <2>3, <2>4
<1> HIDE DEF w
<1>7. /\ Frame(w, 1, 4) /\ OneBit(w, 0) /\ Rs1Short(w) = x.rd /\ RdShort(w) = x.rs2
      /\ Field(w, 11, 10) = 3 /\ Field(w, 6, 5) = 1
      /\ \A p \in 5 .. 6 : p \in w <=> p \in At(1, 5)
  BY <1>3, <1>4, <1>5, <1>6, CAFields DEF Eighth
<1>8. 12 \notin w
  BY <1>3, <1>4, <1>5, <1>7, SMT DEF OneBit
<1>9. Decoded16(w, width) = Instr("CXor", x.rd, 0, x.rs2, 0)
  BY <1>3, <1>4, <1>5, <1>7, <1>8, CAluArm
<1>10. x = Instr("CXor", x.rd, 0, x.rs2, 0)
  BY <1>3, <1>4, <1>5, ShapedIs
<1>11. Access16(w, x) = MemoryOperand(x)
  BY <1>1, <1>7, ShortAccess, ShortOperand
<1>12. ~({0, 1} \subseteq w)
  BY <1>7 DEF Frame
<1>13. QED
  BY <1>9, <1>10, <1>11, <1>12 DEF Brief, w

LEMMA COrUnderstood ==
  ASSUME NEW x, Shaped(x), x.op = "COr", NEW width \in {32, 64},
         SupportsXlen(x.op, width), Valid(x, width)
  PROVE  Brief(x, width)
<1> DEFINE w == Packed(x)
<1>1. x.op \in DOMAIN CAType /\ x.op \in CompressedNames /\ x.op \in Opcodes
      /\ x.op \in Compact
  BY CompressedTables, CompactIs DEF CompressedNames, Shaped
<1>2. /\ RegisterFields[x.op] = {"rd", "rs2"} /\ OtherFields[x.op] = {}
      /\ ImmKind[x.op] = "none"
  BY <1>1, CARow
<1>3. /\ x.rs3 = 0 /\ x.rs1 = 0
      /\ x.imm \in Int /\ x.imm = 0
      /\ x.rd \in Nat /\ x.rd < 32
      /\ x.rs2 \in Nat /\ x.rs2 < 32
  BY <1>2 DEF Shaped
<1>4. PICK d : d \in Nat /\ d < 8 /\ Eighth(x.rd, d)
  BY <1>1, <1>2, EightRegisters
<1>5. PICK s : s \in Nat /\ s < 8 /\ Eighth(x.rs2, s)
  BY <1>1, <1>2, EightRegisters
<1>6. w = PackCR(BaseC(1, 2, 3, 0, 4), d, s)
  <2>1. w = PackedC(x, BitsOf(x.imm))
    BY <1>1, PackedCompressed
  <2>2. CAType[x.op] = BaseC(1, 2, 3, 0, 4)
    BY DEF CAType, BaseC
  <2>3. PackedC(x, BitsOf(x.imm)) = PackCR(CAType[x.op], x.rd - 8, x.rs2 - 8)
    BY CompressedTables DEF PackedC
  <2>4. x.rd - 8 = d /\ x.rs2 - 8 = s
    BY <1>3, <1>4, <1>5 DEF Eighth
  <2>5. QED
    BY <2>1, <2>2, <2>3, <2>4
<1> HIDE DEF w
<1>7. /\ Frame(w, 1, 4) /\ OneBit(w, 0) /\ Rs1Short(w) = x.rd /\ RdShort(w) = x.rs2
      /\ Field(w, 11, 10) = 3 /\ Field(w, 6, 5) = 2
      /\ \A p \in 5 .. 6 : p \in w <=> p \in At(2, 5)
  BY <1>3, <1>4, <1>5, <1>6, CAFields DEF Eighth
<1>8. 12 \notin w
  BY <1>3, <1>4, <1>5, <1>7, SMT DEF OneBit
<1>9. Decoded16(w, width) = Instr("COr", x.rd, 0, x.rs2, 0)
  BY <1>3, <1>4, <1>5, <1>7, <1>8, CAluArm
<1>10. x = Instr("COr", x.rd, 0, x.rs2, 0)
  BY <1>3, <1>4, <1>5, ShapedIs
<1>11. Access16(w, x) = MemoryOperand(x)
  BY <1>1, <1>7, ShortAccess, ShortOperand
<1>12. ~({0, 1} \subseteq w)
  BY <1>7 DEF Frame
<1>13. QED
  BY <1>9, <1>10, <1>11, <1>12 DEF Brief, w

LEMMA CAndUnderstood ==
  ASSUME NEW x, Shaped(x), x.op = "CAnd", NEW width \in {32, 64},
         SupportsXlen(x.op, width), Valid(x, width)
  PROVE  Brief(x, width)
<1> DEFINE w == Packed(x)
<1>1. x.op \in DOMAIN CAType /\ x.op \in CompressedNames /\ x.op \in Opcodes
      /\ x.op \in Compact
  BY CompressedTables, CompactIs DEF CompressedNames, Shaped
<1>2. /\ RegisterFields[x.op] = {"rd", "rs2"} /\ OtherFields[x.op] = {}
      /\ ImmKind[x.op] = "none"
  BY <1>1, CARow
<1>3. /\ x.rs3 = 0 /\ x.rs1 = 0
      /\ x.imm \in Int /\ x.imm = 0
      /\ x.rd \in Nat /\ x.rd < 32
      /\ x.rs2 \in Nat /\ x.rs2 < 32
  BY <1>2 DEF Shaped
<1>4. PICK d : d \in Nat /\ d < 8 /\ Eighth(x.rd, d)
  BY <1>1, <1>2, EightRegisters
<1>5. PICK s : s \in Nat /\ s < 8 /\ Eighth(x.rs2, s)
  BY <1>1, <1>2, EightRegisters
<1>6. w = PackCR(BaseC(1, 3, 3, 0, 4), d, s)
  <2>1. w = PackedC(x, BitsOf(x.imm))
    BY <1>1, PackedCompressed
  <2>2. CAType[x.op] = BaseC(1, 3, 3, 0, 4)
    BY DEF CAType, BaseC
  <2>3. PackedC(x, BitsOf(x.imm)) = PackCR(CAType[x.op], x.rd - 8, x.rs2 - 8)
    BY CompressedTables DEF PackedC
  <2>4. x.rd - 8 = d /\ x.rs2 - 8 = s
    BY <1>3, <1>4, <1>5 DEF Eighth
  <2>5. QED
    BY <2>1, <2>2, <2>3, <2>4
<1> HIDE DEF w
<1>7. /\ Frame(w, 1, 4) /\ OneBit(w, 0) /\ Rs1Short(w) = x.rd /\ RdShort(w) = x.rs2
      /\ Field(w, 11, 10) = 3 /\ Field(w, 6, 5) = 3
      /\ \A p \in 5 .. 6 : p \in w <=> p \in At(3, 5)
  BY <1>3, <1>4, <1>5, <1>6, CAFields DEF Eighth
<1>8. 12 \notin w
  BY <1>3, <1>4, <1>5, <1>7, SMT DEF OneBit
<1>9. Decoded16(w, width) = Instr("CAnd", x.rd, 0, x.rs2, 0)
  BY <1>3, <1>4, <1>5, <1>7, <1>8, CAluArm
<1>10. x = Instr("CAnd", x.rd, 0, x.rs2, 0)
  BY <1>3, <1>4, <1>5, ShapedIs
<1>11. Access16(w, x) = MemoryOperand(x)
  BY <1>1, <1>7, ShortAccess, ShortOperand
<1>12. ~({0, 1} \subseteq w)
  BY <1>7 DEF Frame
<1>13. QED
  BY <1>9, <1>10, <1>11, <1>12 DEF Brief, w

LEMMA CSubwUnderstood ==
  ASSUME NEW x, Shaped(x), x.op = "CSubw", NEW width \in {32, 64},
         SupportsXlen(x.op, width), Valid(x, width)
  PROVE  Brief(x, width)
<1> DEFINE w == Packed(x)
<1>1. x.op \in DOMAIN CAType /\ x.op \in CompressedNames /\ x.op \in Opcodes
      /\ x.op \in Compact
  BY CompressedTables, CompactIs DEF CompressedNames, Shaped
<1>2. /\ RegisterFields[x.op] = {"rd", "rs2"} /\ OtherFields[x.op] = {}
      /\ ImmKind[x.op] = "none"
  BY <1>1, CARow
<1>3. /\ x.rs3 = 0 /\ x.rs1 = 0
      /\ x.imm \in Int /\ x.imm = 0
      /\ x.rd \in Nat /\ x.rd < 32
      /\ x.rs2 \in Nat /\ x.rs2 < 32
  BY <1>2 DEF Shaped
<1>4. PICK d : d \in Nat /\ d < 8 /\ Eighth(x.rd, d)
  BY <1>1, <1>2, EightRegisters
<1>5. PICK s : s \in Nat /\ s < 8 /\ Eighth(x.rs2, s)
  BY <1>1, <1>2, EightRegisters
<1>6. width = 64
  BY XlenIs
<1>7. w = PackCR(BaseC(1, 0, 3, 1, 4), d, s)
  <2>1. w = PackedC(x, BitsOf(x.imm))
    BY <1>1, PackedCompressed
  <2>2. CAType[x.op] = BaseC(1, 0, 3, 1, 4)
    BY DEF CAType, BaseC
  <2>3. PackedC(x, BitsOf(x.imm)) = PackCR(CAType[x.op], x.rd - 8, x.rs2 - 8)
    BY CompressedTables DEF PackedC
  <2>4. x.rd - 8 = d /\ x.rs2 - 8 = s
    BY <1>3, <1>4, <1>5, <1>6 DEF Eighth
  <2>5. QED
    BY <2>1, <2>2, <2>3, <2>4
<1> HIDE DEF w
<1>8. /\ Frame(w, 1, 4) /\ OneBit(w, 1) /\ Rs1Short(w) = x.rd /\ RdShort(w) = x.rs2
      /\ Field(w, 11, 10) = 3 /\ Field(w, 6, 5) = 0
      /\ \A p \in 5 .. 6 : p \in w <=> p \in At(0, 5)
  BY <1>3, <1>4, <1>5, <1>6, <1>7, CAFields DEF Eighth
<1>9. 12 \in w
  BY <1>3, <1>4, <1>5, <1>6, <1>8, SMT DEF OneBit
<1>10. 6 \notin w /\ Field(w, 5, 5) = 0
  BY <1>8, LowOp
<1>11. Decoded16(w, width) = Instr("CSubw", x.rd, 0, x.rs2, 0)
  BY <1>3, <1>4, <1>5, <1>6, <1>8, <1>9, <1>10, CAluWArm
<1>12. x = Instr("CSubw", x.rd, 0, x.rs2, 0)
  BY <1>3, <1>4, <1>5, <1>6, ShapedIs
<1>13. Access16(w, x) = MemoryOperand(x)
  BY <1>1, <1>8, ShortAccess, ShortOperand
<1>14. ~({0, 1} \subseteq w)
  BY <1>8 DEF Frame
<1>15. QED
  BY <1>11, <1>12, <1>13, <1>14 DEF Brief, w

LEMMA CAddwUnderstood ==
  ASSUME NEW x, Shaped(x), x.op = "CAddw", NEW width \in {32, 64},
         SupportsXlen(x.op, width), Valid(x, width)
  PROVE  Brief(x, width)
<1> DEFINE w == Packed(x)
<1>1. x.op \in DOMAIN CAType /\ x.op \in CompressedNames /\ x.op \in Opcodes
      /\ x.op \in Compact
  BY CompressedTables, CompactIs DEF CompressedNames, Shaped
<1>2. /\ RegisterFields[x.op] = {"rd", "rs2"} /\ OtherFields[x.op] = {}
      /\ ImmKind[x.op] = "none"
  BY <1>1, CARow
<1>3. /\ x.rs3 = 0 /\ x.rs1 = 0
      /\ x.imm \in Int /\ x.imm = 0
      /\ x.rd \in Nat /\ x.rd < 32
      /\ x.rs2 \in Nat /\ x.rs2 < 32
  BY <1>2 DEF Shaped
<1>4. PICK d : d \in Nat /\ d < 8 /\ Eighth(x.rd, d)
  BY <1>1, <1>2, EightRegisters
<1>5. PICK s : s \in Nat /\ s < 8 /\ Eighth(x.rs2, s)
  BY <1>1, <1>2, EightRegisters
<1>6. width = 64
  BY XlenIs
<1>7. w = PackCR(BaseC(1, 1, 3, 1, 4), d, s)
  <2>1. w = PackedC(x, BitsOf(x.imm))
    BY <1>1, PackedCompressed
  <2>2. CAType[x.op] = BaseC(1, 1, 3, 1, 4)
    BY DEF CAType, BaseC
  <2>3. PackedC(x, BitsOf(x.imm)) = PackCR(CAType[x.op], x.rd - 8, x.rs2 - 8)
    BY CompressedTables DEF PackedC
  <2>4. x.rd - 8 = d /\ x.rs2 - 8 = s
    BY <1>3, <1>4, <1>5, <1>6 DEF Eighth
  <2>5. QED
    BY <2>1, <2>2, <2>3, <2>4
<1> HIDE DEF w
<1>8. /\ Frame(w, 1, 4) /\ OneBit(w, 1) /\ Rs1Short(w) = x.rd /\ RdShort(w) = x.rs2
      /\ Field(w, 11, 10) = 3 /\ Field(w, 6, 5) = 1
      /\ \A p \in 5 .. 6 : p \in w <=> p \in At(1, 5)
  BY <1>3, <1>4, <1>5, <1>6, <1>7, CAFields DEF Eighth
<1>9. 12 \in w
  BY <1>3, <1>4, <1>5, <1>6, <1>8, SMT DEF OneBit
<1>10. 6 \notin w /\ Field(w, 5, 5) = 1
  BY <1>8, LowOp
<1>11. Decoded16(w, width) = Instr("CAddw", x.rd, 0, x.rs2, 0)
  BY <1>3, <1>4, <1>5, <1>6, <1>8, <1>9, <1>10, CAluWArm
<1>12. x = Instr("CAddw", x.rd, 0, x.rs2, 0)
  BY <1>3, <1>4, <1>5, <1>6, ShapedIs
<1>13. Access16(w, x) = MemoryOperand(x)
  BY <1>1, <1>8, ShortAccess, ShortOperand
<1>14. ~({0, 1} \subseteq w)
  BY <1>8 DEF Frame
<1>15. QED
  BY <1>11, <1>12, <1>13, <1>14 DEF Brief, w

LEMMA CLuiUnderstood ==
  ASSUME NEW x, Shaped(x), x.op = "CLui", NEW width \in {32, 64},
         SupportsXlen(x.op, width), Valid(x, width)
  PROVE  Brief(x, width)
<1> DEFINE w == Packed(x)
<1>1. x.op \in DOMAIN CIType /\ x.op \in CompressedNames /\ x.op \in Opcodes
  BY CompressedTables DEF CompressedNames, Shaped
<1>2. /\ RegisterFields[x.op] = {"rd"} /\ OtherFields[x.op] = {}
      /\ ImmKind[x.op] = "i32" /\ Bounds(x.op, width) = Limits(-32, 31, 1)
  BY <1>1, CIRow
<1>3. /\ x.rs3 = 0 /\ x.rs1 = 0 /\ x.rs2 = 0
      /\ x.imm \in Int
      /\ x.rd \in Nat /\ x.rd < 32
  BY <1>2 DEF Shaped
<1>4. x.rd # 0 /\ x.rd # 2
  BY <1>2, ShortRegisters, NonzeroIs DEF ValidRegister
<1>5. -32 <= x.imm /\ x.imm <= 31 /\ x.imm % 1 = 0 /\ x.imm # 0
  BY <1>2, <1>3, ShortImmediates DEF Limits, NonzeroImmediate
<1>6. w = PackCI(BaseC(1, 0, 0, 0, 3), x.rd, BitsOf(x.imm))
  <2>1. w = PackedC(x, BitsOf(x.imm))
    BY <1>1, PackedCompressed
  <2>2. CIType[x.op] = BaseC(1, 0, 0, 0, 3)
    BY DEF CIType, BaseC
  <2>3. PackedC(x, BitsOf(x.imm)) = PackCI(CIType[x.op], x.rd, BitsOf(x.imm))
    BY CompressedTables DEF PackedC
  <2>4. QED
    BY <2>1, <2>2, <2>3
<1> HIDE DEF w
<1>7. /\ Frame(w, 1, 3) /\ Rd(w) = x.rd /\ Carries(w, 2, 6, 2, BitsOf(x.imm))
      /\ 12 \in w <=> 5 \in BitsOf(x.imm)
  BY <1>3, <1>4, <1>5, <1>6, CIFields
<1>8. ImmCI(w) = x.imm
  BY <1>3, <1>4, <1>5, <1>7, ImmCIIs DEF Carries
<1>9. Bits6(w) # {}
  BY <1>3, <1>4, <1>5, <1>7, <1>8, NonzeroBits
<1>10. Decoded16(w, width) = Instr("CLui", x.rd, 0, 0, x.imm)
  BY <1>3, <1>4, <1>5, <1>7, <1>8, <1>9, CLuiArm
<1>11. x = Instr("CLui", x.rd, 0, 0, x.imm)
  BY <1>3, <1>4, <1>5, ShapedIs
<1>12. Access16(w, x) = MemoryOperand(x)
  BY <1>1, <1>7, ShortAccess, ShortOperand
<1>13. ~({0, 1} \subseteq w)
  BY <1>7 DEF Frame
<1>14. QED
  BY <1>10, <1>11, <1>12, <1>13 DEF Brief, w

LEMMA CAddiUnderstood ==
  ASSUME NEW x, Shaped(x), x.op = "CAddi", NEW width \in {32, 64},
         SupportsXlen(x.op, width), Valid(x, width)
  PROVE  Brief(x, width)
<1> DEFINE w == Packed(x)
<1>1. x.op \in DOMAIN CIType /\ x.op \in CompressedNames /\ x.op \in Opcodes
  BY CompressedTables DEF CompressedNames, Shaped
<1>2. /\ RegisterFields[x.op] = {"rd"} /\ OtherFields[x.op] = {}
      /\ ImmKind[x.op] = "i32" /\ Bounds(x.op, width) = Limits(-32, 31, 1)
  BY <1>1, CIRow
<1>3. /\ x.rs3 = 0 /\ x.rs1 = 0 /\ x.rs2 = 0
      /\ x.imm \in Int
      /\ x.rd \in Nat /\ x.rd < 32
  BY <1>2 DEF Shaped
<1>4. -32 <= x.imm /\ x.imm <= 31 /\ x.imm % 1 = 0
  BY <1>2, <1>3, ShortImmediates DEF Limits, NonzeroImmediate
<1>5. w = PackCI(BaseC(1, 0, 0, 0, 0), x.rd, BitsOf(x.imm))
  <2>1. w = PackedC(x, BitsOf(x.imm))
    BY <1>1, PackedCompressed
  <2>2. CIType[x.op] = BaseC(1, 0, 0, 0, 0)
    BY DEF CIType, BaseC
  <2>3. PackedC(x, BitsOf(x.imm)) = PackCI(CIType[x.op], x.rd, BitsOf(x.imm))
    BY CompressedTables DEF PackedC
  <2>4. QED
    BY <2>1, <2>2, <2>3
<1> HIDE DEF w
<1>6. /\ Frame(w, 1, 0) /\ Rd(w) = x.rd /\ Carries(w, 2, 6, 2, BitsOf(x.imm))
      /\ 12 \in w <=> 5 \in BitsOf(x.imm)
  BY <1>3, <1>4, <1>5, CIFields
<1>7. ImmCI(w) = x.imm
  BY <1>3, <1>4, <1>6, ImmCIIs DEF Carries
<1>8. Decoded16(w, width) = Instr("CAddi", x.rd, 0, 0, x.imm)
  BY <1>3, <1>4, <1>6, <1>7, CAddiArm
<1>9. x = Instr("CAddi", x.rd, 0, 0, x.imm)
  BY <1>3, <1>4, ShapedIs
<1>10. Access16(w, x) = MemoryOperand(x)
  BY <1>1, <1>6, ShortAccess, ShortOperand
<1>11. ~({0, 1} \subseteq w)
  BY <1>6 DEF Frame
<1>12. QED
  BY <1>8, <1>9, <1>10, <1>11 DEF Brief, w

LEMMA CLiUnderstood ==
  ASSUME NEW x, Shaped(x), x.op = "CLi", NEW width \in {32, 64},
         SupportsXlen(x.op, width), Valid(x, width)
  PROVE  Brief(x, width)
<1> DEFINE w == Packed(x)
<1>1. x.op \in DOMAIN CIType /\ x.op \in CompressedNames /\ x.op \in Opcodes
  BY CompressedTables DEF CompressedNames, Shaped
<1>2. /\ RegisterFields[x.op] = {"rd"} /\ OtherFields[x.op] = {}
      /\ ImmKind[x.op] = "i32" /\ Bounds(x.op, width) = Limits(-32, 31, 1)
  BY <1>1, CIRow
<1>3. /\ x.rs3 = 0 /\ x.rs1 = 0 /\ x.rs2 = 0
      /\ x.imm \in Int
      /\ x.rd \in Nat /\ x.rd < 32
  BY <1>2 DEF Shaped
<1>4. -32 <= x.imm /\ x.imm <= 31 /\ x.imm % 1 = 0
  BY <1>2, <1>3, ShortImmediates DEF Limits, NonzeroImmediate
<1>5. w = PackCI(BaseC(1, 0, 0, 0, 2), x.rd, BitsOf(x.imm))
  <2>1. w = PackedC(x, BitsOf(x.imm))
    BY <1>1, PackedCompressed
  <2>2. CIType[x.op] = BaseC(1, 0, 0, 0, 2)
    BY DEF CIType, BaseC
  <2>3. PackedC(x, BitsOf(x.imm)) = PackCI(CIType[x.op], x.rd, BitsOf(x.imm))
    BY CompressedTables DEF PackedC
  <2>4. QED
    BY <2>1, <2>2, <2>3
<1> HIDE DEF w
<1>6. /\ Frame(w, 1, 2) /\ Rd(w) = x.rd /\ Carries(w, 2, 6, 2, BitsOf(x.imm))
      /\ 12 \in w <=> 5 \in BitsOf(x.imm)
  BY <1>3, <1>4, <1>5, CIFields
<1>7. ImmCI(w) = x.imm
  BY <1>3, <1>4, <1>6, ImmCIIs DEF Carries
<1>8. Decoded16(w, width) = Instr("CLi", x.rd, 0, 0, x.imm)
  BY <1>3, <1>4, <1>6, <1>7, CLiArm
<1>9. x = Instr("CLi", x.rd, 0, 0, x.imm)
  BY <1>3, <1>4, ShapedIs
<1>10. Access16(w, x) = MemoryOperand(x)
  BY <1>1, <1>6, ShortAccess, ShortOperand
<1>11. ~({0, 1} \subseteq w)
  BY <1>6 DEF Frame
<1>12. QED
  BY <1>8, <1>9, <1>10, <1>11 DEF Brief, w

LEMMA CAddiwUnderstood ==
  ASSUME NEW x, Shaped(x), x.op = "CAddiw", NEW width \in {32, 64},
         SupportsXlen(x.op, width), Valid(x, width)
  PROVE  Brief(x, width)
<1> DEFINE w == Packed(x)
<1>1. x.op \in DOMAIN CIType /\ x.op \in CompressedNames /\ x.op \in Opcodes
  BY CompressedTables DEF CompressedNames, Shaped
<1>2. /\ RegisterFields[x.op] = {"rd"} /\ OtherFields[x.op] = {}
      /\ ImmKind[x.op] = "i32" /\ Bounds(x.op, width) = Limits(-32, 31, 1)
  BY <1>1, CIRow
<1>3. /\ x.rs3 = 0 /\ x.rs1 = 0 /\ x.rs2 = 0
      /\ x.imm \in Int
      /\ x.rd \in Nat /\ x.rd < 32
  BY <1>2 DEF Shaped
<1>4. x.rd # 0
  BY <1>2, ShortRegisters, NonzeroIs DEF ValidRegister
<1>5. -32 <= x.imm /\ x.imm <= 31 /\ x.imm % 1 = 0
  BY <1>2, <1>3, ShortImmediates DEF Limits, NonzeroImmediate
<1>6. width = 64
  BY XlenIs
<1>7. w = PackCI(BaseC(1, 0, 0, 0, 1), x.rd, BitsOf(x.imm))
  <2>1. w = PackedC(x, BitsOf(x.imm))
    BY <1>1, PackedCompressed
  <2>2. CIType[x.op] = BaseC(1, 0, 0, 0, 1)
    BY DEF CIType, BaseC
  <2>3. PackedC(x, BitsOf(x.imm)) = PackCI(CIType[x.op], x.rd, BitsOf(x.imm))
    BY CompressedTables DEF PackedC
  <2>4. QED
    BY <2>1, <2>2, <2>3
<1> HIDE DEF w
<1>8. /\ Frame(w, 1, 1) /\ Rd(w) = x.rd /\ Carries(w, 2, 6, 2, BitsOf(x.imm))
      /\ 12 \in w <=> 5 \in BitsOf(x.imm)
  BY <1>3, <1>4, <1>5, <1>6, <1>7, CIFields
<1>9. ImmCI(w) = x.imm
  BY <1>3, <1>4, <1>5, <1>6, <1>8, ImmCIIs DEF Carries
<1>10. Decoded16(w, width) = Instr("CAddiw", x.rd, 0, 0, x.imm)
  BY <1>3, <1>4, <1>5, <1>6, <1>8, <1>9, CAddiwArm
<1>11. x = Instr("CAddiw", x.rd, 0, 0, x.imm)
  BY <1>3, <1>4, <1>5, <1>6, ShapedIs
<1>12. Access16(w, x) = MemoryOperand(x)
  BY <1>1, <1>8, ShortAccess, ShortOperand
<1>13. ~({0, 1} \subseteq w)
  BY <1>8 DEF Frame
<1>14. QED
  BY <1>10, <1>11, <1>12, <1>13 DEF Brief, w

LEMMA CSlliUnderstood ==
  ASSUME NEW x, Shaped(x), x.op = "CSlli", NEW width \in {32, 64},
         SupportsXlen(x.op, width), Valid(x, width)
  PROVE  Brief(x, width)
<1> DEFINE w == Packed(x)
<1>1. x.op \in DOMAIN CShiftType /\ x.op \in CompressedNames /\ x.op \in Opcodes
  BY CompressedTables DEF CompressedNames, Shaped
<1>2. /\ RegisterFields[x.op] = {"rd"} /\ OtherFields[x.op] = {}
      /\ ImmKind[x.op] = "shift" /\ Bounds(x.op, width) = Limits(1, width - 1, 1)
  BY <1>1, CSlliRow
<1>3. /\ x.rs3 = 0 /\ x.rs1 = 0 /\ x.rs2 = 0
      /\ x.imm \in Int
      /\ x.rd \in Nat /\ x.rd < 32
  BY <1>2 DEF Shaped
<1>4. x.rd # 0
  BY <1>2, ShortRegisters, NonzeroIs DEF ValidRegister
<1>5. x.imm \in Nat /\ 1 <= x.imm /\ x.imm < width /\ x.imm % 1 = 0
  BY <1>2, <1>3, ShortImmediates DEF Limits, NonzeroImmediate
<1>6. w = PackCI(BaseC(2, 0, 0, 0, 0), x.rd, BitsOf(x.imm))
  <2>1. w = PackedC(x, BitsOf(x.imm))
    BY <1>1, PackedCompressed
  <2>2. CShiftType[x.op] = BaseC(2, 0, 0, 0, 0)
    BY DEF CShiftType, BaseC
  <2>3. PackedC(x, BitsOf(x.imm)) = PackCI(CShiftType[x.op], x.rd, BitsOf(x.imm))
    BY CompressedTables DEF PackedC
  <2>4. QED
    BY <2>1, <2>2, <2>3
<1> HIDE DEF w
<1>7. /\ Frame(w, 2, 0) /\ Rd(w) = x.rd /\ Carries(w, 2, 6, 2, BitsOf(x.imm))
      /\ 12 \in w <=> 5 \in BitsOf(x.imm)
  BY <1>3, <1>4, <1>5, <1>6, CIFields
<1>8. Number(Bits6(w)) = x.imm
  BY <1>3, <1>4, <1>5, <1>7, Bits6Is DEF Carries
<1>9. width = 32 => 12 \notin w
  BY <1>3, <1>4, <1>5, <1>7, <1>8, SignBit
<1>10. Decoded16(w, width) = Instr("CSlli", x.rd, 0, 0, x.imm)
  BY <1>3, <1>4, <1>5, <1>7, <1>8, <1>9, CSlliArm
<1>11. x = Instr("CSlli", x.rd, 0, 0, x.imm)
  BY <1>3, <1>4, <1>5, ShapedIs
<1>12. Access16(w, x) = MemoryOperand(x)
  BY <1>1, <1>7, ShortAccess, ShortOperand
<1>13. ~({0, 1} \subseteq w)
  BY <1>7 DEF Frame
<1>14. QED
  BY <1>10, <1>11, <1>12, <1>13 DEF Brief, w

LEMMA CSrliUnderstood ==
  ASSUME NEW x, Shaped(x), x.op = "CSrli", NEW width \in {32, 64},
         SupportsXlen(x.op, width), Valid(x, width)
  PROVE  Brief(x, width)
<1> DEFINE w == Packed(x)
<1>1. x.op \in DOMAIN CBShiftType /\ x.op \in CompressedNames /\ x.op \in Opcodes
      /\ x.op \in Compact
  BY CompressedTables, CompactIs DEF CompressedNames, Shaped
<1>2. /\ RegisterFields[x.op] = {"rs1"} /\ OtherFields[x.op] = {}
      /\ ImmKind[x.op] = "shift" /\ Bounds(x.op, width) = Limits(1, width - 1, 1)
  BY <1>1, CShiftRow
<1>3. /\ x.rs3 = 0 /\ x.rd = 0 /\ x.rs2 = 0
      /\ x.imm \in Int
      /\ x.rs1 \in Nat /\ x.rs1 < 32
  BY <1>2 DEF Shaped
<1>4. PICK s : s \in Nat /\ s < 8 /\ Eighth(x.rs1, s)
  BY <1>1, <1>2, EightRegisters
<1>5. x.imm \in Nat /\ 1 <= x.imm /\ x.imm < width /\ x.imm % 1 = 0
  BY <1>2, <1>3, ShortImmediates DEF Limits, NonzeroImmediate
<1>6. w = PackCI(BaseC(1, 0, 0, 0, 4), s, BitsOf(x.imm))
  <2>1. w = PackedC(x, BitsOf(x.imm))
    BY <1>1, PackedCompressed
  <2>2. CBShiftType[x.op] = BaseC(1, 0, 0, 0, 4)
    BY DEF CBShiftType, BaseC
  <2>3. PackedC(x, BitsOf(x.imm)) = PackCI(CBShiftType[x.op], x.rs1 - 8, BitsOf(x.imm))
    BY CompressedTables DEF PackedC
  <2>4. x.rs1 - 8 = s
    BY <1>3, <1>4, <1>5 DEF Eighth
  <2>5. QED
    BY <2>1, <2>2, <2>3, <2>4
<1> HIDE DEF w
<1>7. /\ Frame(w, 1, 4) /\ Rs1Short(w) = x.rs1 /\ Field(w, 11, 10) = 0
      /\ Carries(w, 2, 6, 2, BitsOf(x.imm))
      /\ 12 \in w <=> 5 \in BitsOf(x.imm)
  BY <1>3, <1>4, <1>5, <1>6, CAluFields DEF Eighth
<1>8. Number(Bits6(w)) = x.imm
  BY <1>3, <1>4, <1>5, <1>7, Bits6Is DEF Carries
<1>9. width = 32 => 12 \notin w
  BY <1>3, <1>4, <1>5, <1>7, <1>8, SignBit
<1>10. Decoded16(w, width) = Instr("CSrli", 0, x.rs1, 0, x.imm)
  BY <1>3, <1>4, <1>5, <1>7, <1>8, <1>9, CSrliArm
<1>11. x = Instr("CSrli", 0, x.rs1, 0, x.imm)
  BY <1>3, <1>4, <1>5, ShapedIs
<1>12. Access16(w, x) = MemoryOperand(x)
  BY <1>1, <1>7, ShortAccess, ShortOperand
<1>13. ~({0, 1} \subseteq w)
  BY <1>7 DEF Frame
<1>14. QED
  BY <1>10, <1>11, <1>12, <1>13 DEF Brief, w

LEMMA CSraiUnderstood ==
  ASSUME NEW x, Shaped(x), x.op = "CSrai", NEW width \in {32, 64},
         SupportsXlen(x.op, width), Valid(x, width)
  PROVE  Brief(x, width)
<1> DEFINE w == Packed(x)
<1>1. x.op \in DOMAIN CBShiftType /\ x.op \in CompressedNames /\ x.op \in Opcodes
      /\ x.op \in Compact
  BY CompressedTables, CompactIs DEF CompressedNames, Shaped
<1>2. /\ RegisterFields[x.op] = {"rs1"} /\ OtherFields[x.op] = {}
      /\ ImmKind[x.op] = "shift" /\ Bounds(x.op, width) = Limits(1, width - 1, 1)
  BY <1>1, CShiftRow
<1>3. /\ x.rs3 = 0 /\ x.rd = 0 /\ x.rs2 = 0
      /\ x.imm \in Int
      /\ x.rs1 \in Nat /\ x.rs1 < 32
  BY <1>2 DEF Shaped
<1>4. PICK s : s \in Nat /\ s < 8 /\ Eighth(x.rs1, s)
  BY <1>1, <1>2, EightRegisters
<1>5. x.imm \in Nat /\ 1 <= x.imm /\ x.imm < width /\ x.imm % 1 = 0
  BY <1>2, <1>3, ShortImmediates DEF Limits, NonzeroImmediate
<1>6. w = PackCI(BaseC(1, 0, 1, 0, 4), s, BitsOf(x.imm))
  <2>1. w = PackedC(x, BitsOf(x.imm))
    BY <1>1, PackedCompressed
  <2>2. CBShiftType[x.op] = BaseC(1, 0, 1, 0, 4)
    BY DEF CBShiftType, BaseC
  <2>3. PackedC(x, BitsOf(x.imm)) = PackCI(CBShiftType[x.op], x.rs1 - 8, BitsOf(x.imm))
    BY CompressedTables DEF PackedC
  <2>4. x.rs1 - 8 = s
    BY <1>3, <1>4, <1>5 DEF Eighth
  <2>5. QED
    BY <2>1, <2>2, <2>3, <2>4
<1> HIDE DEF w
<1>7. /\ Frame(w, 1, 4) /\ Rs1Short(w) = x.rs1 /\ Field(w, 11, 10) = 1
      /\ Carries(w, 2, 6, 2, BitsOf(x.imm))
      /\ 12 \in w <=> 5 \in BitsOf(x.imm)
  BY <1>3, <1>4, <1>5, <1>6, CAluFields DEF Eighth
<1>8. Number(Bits6(w)) = x.imm
  BY <1>3, <1>4, <1>5, <1>7, Bits6Is DEF Carries
<1>9. width = 32 => 12 \notin w
  BY <1>3, <1>4, <1>5, <1>7, <1>8, SignBit
<1>10. Decoded16(w, width) = Instr("CSrai", 0, x.rs1, 0, x.imm)
  BY <1>3, <1>4, <1>5, <1>7, <1>8, <1>9, CSraiArm
<1>11. x = Instr("CSrai", 0, x.rs1, 0, x.imm)
  BY <1>3, <1>4, <1>5, ShapedIs
<1>12. Access16(w, x) = MemoryOperand(x)
  BY <1>1, <1>7, ShortAccess, ShortOperand
<1>13. ~({0, 1} \subseteq w)
  BY <1>7 DEF Frame
<1>14. QED
  BY <1>10, <1>11, <1>12, <1>13 DEF Brief, w

LEMMA CAndiUnderstood ==
  ASSUME NEW x, Shaped(x), x.op = "CAndi", NEW width \in {32, 64},
         SupportsXlen(x.op, width), Valid(x, width)
  PROVE  Brief(x, width)
<1> DEFINE w == Packed(x)
<1>1. x.op \in DOMAIN CBAluType /\ x.op \in CompressedNames /\ x.op \in Opcodes
      /\ x.op \in Compact
  BY CompressedTables, CompactIs DEF CompressedNames, Shaped
<1>2. /\ RegisterFields[x.op] = {"rs1"} /\ OtherFields[x.op] = {}
      /\ ImmKind[x.op] = "i32" /\ Bounds(x.op, width) = Limits(-32, 31, 1)
  BY <1>1, CAndiRow
<1>3. /\ x.rs3 = 0 /\ x.rd = 0 /\ x.rs2 = 0
      /\ x.imm \in Int
      /\ x.rs1 \in Nat /\ x.rs1 < 32
  BY <1>2 DEF Shaped
<1>4. PICK s : s \in Nat /\ s < 8 /\ Eighth(x.rs1, s)
  BY <1>1, <1>2, EightRegisters
<1>5. -32 <= x.imm /\ x.imm <= 31 /\ x.imm % 1 = 0
  BY <1>2, <1>3, ShortImmediates DEF Limits, NonzeroImmediate
<1>6. w = PackCI(BaseC(1, 0, 2, 0, 4), s, BitsOf(x.imm))
  <2>1. w = PackedC(x, BitsOf(x.imm))
    BY <1>1, PackedCompressed
  <2>2. CBAluType[x.op] = BaseC(1, 0, 2, 0, 4)
    BY DEF CBAluType, BaseC
  <2>3. PackedC(x, BitsOf(x.imm)) = PackCI(CBAluType[x.op], x.rs1 - 8, BitsOf(x.imm))
    BY CompressedTables DEF PackedC
  <2>4. x.rs1 - 8 = s
    BY <1>3, <1>4, <1>5 DEF Eighth
  <2>5. QED
    BY <2>1, <2>2, <2>3, <2>4
<1> HIDE DEF w
<1>7. /\ Frame(w, 1, 4) /\ Rs1Short(w) = x.rs1 /\ Field(w, 11, 10) = 2
      /\ Carries(w, 2, 6, 2, BitsOf(x.imm))
      /\ 12 \in w <=> 5 \in BitsOf(x.imm)
  BY <1>3, <1>4, <1>5, <1>6, CAluFields DEF Eighth
<1>8. ImmCI(w) = x.imm
  BY <1>3, <1>4, <1>5, <1>7, ImmCIIs DEF Carries
<1>9. Decoded16(w, width) = Instr("CAndi", 0, x.rs1, 0, x.imm)
  BY <1>3, <1>4, <1>5, <1>7, <1>8, CAndiArm
<1>10. x = Instr("CAndi", 0, x.rs1, 0, x.imm)
  BY <1>3, <1>4, <1>5, ShapedIs
<1>11. Access16(w, x) = MemoryOperand(x)
  BY <1>1, <1>7, ShortAccess, ShortOperand
<1>12. ~({0, 1} \subseteq w)
  BY <1>7 DEF Frame
<1>13. QED
  BY <1>9, <1>10, <1>11, <1>12 DEF Brief, w

LEMMA CBeqzUnderstood ==
  ASSUME NEW x, Shaped(x), x.op = "CBeqz", NEW width \in {32, 64},
         SupportsXlen(x.op, width), Valid(x, width)
  PROVE  Brief(x, width)
<1> DEFINE w == Packed(x)
<1>1. x.op \in DOMAIN CBType /\ x.op \in CompressedNames /\ x.op \in Opcodes
      /\ x.op \in Compact
  BY CompressedTables, CompactIs DEF CompressedNames, Shaped
<1>2. /\ RegisterFields[x.op] = {"rs1"} /\ OtherFields[x.op] = {}
      /\ ImmKind[x.op] = "i32" /\ Bounds(x.op, width) = Limits(-256, 254, 2)
  BY <1>1, CBRow
<1>3. /\ x.rs3 = 0 /\ x.rd = 0 /\ x.rs2 = 0
      /\ x.imm \in Int
      /\ x.rs1 \in Nat /\ x.rs1 < 32
  BY <1>2 DEF Shaped
<1>4. PICK s : s \in Nat /\ s < 8 /\ Eighth(x.rs1, s)
  BY <1>1, <1>2, EightRegisters
<1>5. -256 <= x.imm /\ x.imm <= 254 /\ x.imm % 2 = 0
  BY <1>2, <1>3, ShortImmediates DEF Limits, NonzeroImmediate
<1>6. w = PackCB(BaseC(1, 0, 0, 0, 6), x.rs1, BitsOf(x.imm))
  <2>1. w = PackedC(x, BitsOf(x.imm))
    BY <1>1, PackedCompressed
  <2>2. CBType[x.op] = BaseC(1, 0, 0, 0, 6)
    BY DEF CBType, BaseC
  <2>3. PackedC(x, BitsOf(x.imm)) = PackCB(CBType[x.op], x.rs1, BitsOf(x.imm))
    BY CompressedTables DEF PackedC
  <2>4. QED
    BY <2>1, <2>2, <2>3
<1> HIDE DEF w
<1>7. /\ Frame(w, 1, 6) /\ Rs1Short(w) = x.rs1
      /\ 12 \in w <=> 8 \in BitsOf(x.imm)
      /\ Carries(w, 10, 11, 7, BitsOf(x.imm)) /\ Carries(w, 5, 6, -1, BitsOf(x.imm))
      /\ Carries(w, 3, 4, 2, BitsOf(x.imm))
      /\ 2 \in w <=> 5 \in BitsOf(x.imm)
  BY <1>3, <1>4, <1>5, <1>6, CBFields
<1>8. ImmCB(w) = x.imm
  BY <1>3, <1>4, <1>5, <1>7, ImmCBIs DEF Carries
<1>9. Decoded16(w, width) = Instr("CBeqz", 0, x.rs1, 0, x.imm)
  BY <1>3, <1>4, <1>5, <1>7, <1>8, CBeqzArm
<1>10. x = Instr("CBeqz", 0, x.rs1, 0, x.imm)
  BY <1>3, <1>4, <1>5, ShapedIs
<1>11. Access16(w, x) = MemoryOperand(x)
  BY <1>1, <1>7, ShortAccess, ShortOperand
<1>12. ~({0, 1} \subseteq w)
  BY <1>7 DEF Frame
<1>13. QED
  BY <1>9, <1>10, <1>11, <1>12 DEF Brief, w

LEMMA CBnezUnderstood ==
  ASSUME NEW x, Shaped(x), x.op = "CBnez", NEW width \in {32, 64},
         SupportsXlen(x.op, width), Valid(x, width)
  PROVE  Brief(x, width)
<1> DEFINE w == Packed(x)
<1>1. x.op \in DOMAIN CBType /\ x.op \in CompressedNames /\ x.op \in Opcodes
      /\ x.op \in Compact
  BY CompressedTables, CompactIs DEF CompressedNames, Shaped
<1>2. /\ RegisterFields[x.op] = {"rs1"} /\ OtherFields[x.op] = {}
      /\ ImmKind[x.op] = "i32" /\ Bounds(x.op, width) = Limits(-256, 254, 2)
  BY <1>1, CBRow
<1>3. /\ x.rs3 = 0 /\ x.rd = 0 /\ x.rs2 = 0
      /\ x.imm \in Int
      /\ x.rs1 \in Nat /\ x.rs1 < 32
  BY <1>2 DEF Shaped
<1>4. PICK s : s \in Nat /\ s < 8 /\ Eighth(x.rs1, s)
  BY <1>1, <1>2, EightRegisters
<1>5. -256 <= x.imm /\ x.imm <= 254 /\ x.imm % 2 = 0
  BY <1>2, <1>3, ShortImmediates DEF Limits, NonzeroImmediate
<1>6. w = PackCB(BaseC(1, 0, 0, 0, 7), x.rs1, BitsOf(x.imm))
  <2>1. w = PackedC(x, BitsOf(x.imm))
    BY <1>1, PackedCompressed
  <2>2. CBType[x.op] = BaseC(1, 0, 0, 0, 7)
    BY DEF CBType, BaseC
  <2>3. PackedC(x, BitsOf(x.imm)) = PackCB(CBType[x.op], x.rs1, BitsOf(x.imm))
    BY CompressedTables DEF PackedC
  <2>4. QED
    BY <2>1, <2>2, <2>3
<1> HIDE DEF w
<1>7. /\ Frame(w, 1, 7) /\ Rs1Short(w) = x.rs1
      /\ 12 \in w <=> 8 \in BitsOf(x.imm)
      /\ Carries(w, 10, 11, 7, BitsOf(x.imm)) /\ Carries(w, 5, 6, -1, BitsOf(x.imm))
      /\ Carries(w, 3, 4, 2, BitsOf(x.imm))
      /\ 2 \in w <=> 5 \in BitsOf(x.imm)
  BY <1>3, <1>4, <1>5, <1>6, CBFields
<1>8. ImmCB(w) = x.imm
  BY <1>3, <1>4, <1>5, <1>7, ImmCBIs DEF Carries
<1>9. Decoded16(w, width) = Instr("CBnez", 0, x.rs1, 0, x.imm)
  BY <1>3, <1>4, <1>5, <1>7, <1>8, CBnezArm
<1>10. x = Instr("CBnez", 0, x.rs1, 0, x.imm)
  BY <1>3, <1>4, <1>5, ShapedIs
<1>11. Access16(w, x) = MemoryOperand(x)
  BY <1>1, <1>7, ShortAccess, ShortOperand
<1>12. ~({0, 1} \subseteq w)
  BY <1>7 DEF Frame
<1>13. QED
  BY <1>9, <1>10, <1>11, <1>12 DEF Brief, w

LEMMA CJalUnderstood ==
  ASSUME NEW x, Shaped(x), x.op = "CJal", NEW width \in {32, 64},
         SupportsXlen(x.op, width), Valid(x, width)
  PROVE  Brief(x, width)
<1> DEFINE w == Packed(x)
<1>1. x.op \in DOMAIN CJType /\ x.op \in CompressedNames /\ x.op \in Opcodes
  BY CompressedTables DEF CompressedNames, Shaped
<1>2. /\ RegisterFields[x.op] = {} /\ OtherFields[x.op] = {}
      /\ ImmKind[x.op] = "i32" /\ Bounds(x.op, width) = Limits(-2048, 2046, 2)
  BY <1>1, CJRow
<1>3. /\ x.rs3 = 0 /\ x.rd = 0 /\ x.rs1 = 0 /\ x.rs2 = 0
      /\ x.imm \in Int
  BY <1>2 DEF Shaped
<1>4. -2048 <= x.imm /\ x.imm <= 2046 /\ x.imm % 2 = 0
  BY <1>2, <1>3, ShortImmediates DEF Limits, NonzeroImmediate
<1>5. width = 32
  BY XlenIs
<1>6. w = PackCJ(BaseC(1, 0, 0, 0, 1), BitsOf(x.imm))
  <2>1. w = PackedC(x, BitsOf(x.imm))
    BY <1>1, PackedCompressed
  <2>2. CJType[x.op] = BaseC(1, 0, 0, 0, 1)
    BY DEF CJType, BaseC
  <2>3. PackedC(x, BitsOf(x.imm)) = PackCJ(CJType[x.op], BitsOf(x.imm))
    BY CompressedTables DEF PackedC
  <2>4. QED
    BY <2>1, <2>2, <2>3
<1> HIDE DEF w
<1>7. /\ Frame(w, 1, 1)
      /\ 12 \in w <=> 11 \in BitsOf(x.imm)
      /\ 11 \in w <=> 4 \in BitsOf(x.imm)
      /\ Carries(w, 9, 10, 1, BitsOf(x.imm))
      /\ 8 \in w <=> 10 \in BitsOf(x.imm)
      /\ 7 \in w <=> 6 \in BitsOf(x.imm)
      /\ 6 \in w <=> 7 \in BitsOf(x.imm)
      /\ Carries(w, 3, 5, 2, BitsOf(x.imm))
      /\ 2 \in w <=> 5 \in BitsOf(x.imm)
  BY <1>3, <1>4, <1>5, <1>6, CJFields
<1>8. ImmCJ(w) = x.imm
  BY <1>3, <1>4, <1>5, <1>7, ImmCJIs DEF Carries
<1>9. Decoded16(w, width) = Instr("CJal", 0, 0, 0, x.imm)
  BY <1>3, <1>4, <1>5, <1>7, <1>8, CJalArm
<1>10. x = Instr("CJal", 0, 0, 0, x.imm)
  BY <1>3, <1>4, <1>5, ShapedIs
<1>11. Access16(w, x) = MemoryOperand(x)
  BY <1>1, <1>7, ShortAccess, ShortOperand
<1>12. ~({0, 1} \subseteq w)
  BY <1>7 DEF Frame
<1>13. QED
  BY <1>9, <1>10, <1>11, <1>12 DEF Brief, w

LEMMA CJUnderstood ==
  ASSUME NEW x, Shaped(x), x.op = "CJ", NEW width \in {32, 64},
         SupportsXlen(x.op, width), Valid(x, width)
  PROVE  Brief(x, width)
<1> DEFINE w == Packed(x)
<1>1. x.op \in DOMAIN CJType /\ x.op \in CompressedNames /\ x.op \in Opcodes
  BY CompressedTables DEF CompressedNames, Shaped
<1>2. /\ RegisterFields[x.op] = {} /\ OtherFields[x.op] = {}
      /\ ImmKind[x.op] = "i32" /\ Bounds(x.op, width) = Limits(-2048, 2046, 2)
  BY <1>1, CJRow
<1>3. /\ x.rs3 = 0 /\ x.rd = 0 /\ x.rs1 = 0 /\ x.rs2 = 0
      /\ x.imm \in Int
  BY <1>2 DEF Shaped
<1>4. -2048 <= x.imm /\ x.imm <= 2046 /\ x.imm % 2 = 0
  BY <1>2, <1>3, ShortImmediates DEF Limits, NonzeroImmediate
<1>5. w = PackCJ(BaseC(1, 0, 0, 0, 5), BitsOf(x.imm))
  <2>1. w = PackedC(x, BitsOf(x.imm))
    BY <1>1, PackedCompressed
  <2>2. CJType[x.op] = BaseC(1, 0, 0, 0, 5)
    BY DEF CJType, BaseC
  <2>3. PackedC(x, BitsOf(x.imm)) = PackCJ(CJType[x.op], BitsOf(x.imm))
    BY CompressedTables DEF PackedC
  <2>4. QED
    BY <2>1, <2>2, <2>3
<1> HIDE DEF w
<1>6. /\ Frame(w, 1, 5)
      /\ 12 \in w <=> 11 \in BitsOf(x.imm)
      /\ 11 \in w <=> 4 \in BitsOf(x.imm)
      /\ Carries(w, 9, 10, 1, BitsOf(x.imm))
      /\ 8 \in w <=> 10 \in BitsOf(x.imm)
      /\ 7 \in w <=> 6 \in BitsOf(x.imm)
      /\ 6 \in w <=> 7 \in BitsOf(x.imm)
      /\ Carries(w, 3, 5, 2, BitsOf(x.imm))
      /\ 2 \in w <=> 5 \in BitsOf(x.imm)
  BY <1>3, <1>4, <1>5, CJFields
<1>7. ImmCJ(w) = x.imm
  BY <1>3, <1>4, <1>6, ImmCJIs DEF Carries
<1>8. Decoded16(w, width) = Instr("CJ", 0, 0, 0, x.imm)
  BY <1>3, <1>4, <1>6, <1>7, CJArm
<1>9. x = Instr("CJ", 0, 0, 0, x.imm)
  BY <1>3, <1>4, ShapedIs
<1>10. Access16(w, x) = MemoryOperand(x)
  BY <1>1, <1>6, ShortAccess, ShortOperand
<1>11. ~({0, 1} \subseteq w)
  BY <1>6 DEF Frame
<1>12. QED
  BY <1>8, <1>9, <1>10, <1>11 DEF Brief, w

LEMMA CLwspUnderstood ==
  ASSUME NEW x, Shaped(x), x.op = "CLwsp", NEW width \in {32, 64},
         SupportsXlen(x.op, width), Valid(x, width)
  PROVE  Brief(x, width)
<1> DEFINE w == Packed(x)
<1>1. x.op \in {"CLwsp"} /\ x.op \in CompressedNames /\ x.op \in Opcodes
  BY CompressedTables DEF CompressedNames, Shaped
<1>2. /\ RegisterFields[x.op] = {"rd"} /\ OtherFields[x.op] = {}
      /\ ImmKind[x.op] = "i32" /\ Bounds(x.op, width) = Limits(0, 252, 4)
  BY <1>1, CLwspRow
<1>3. /\ x.rs3 = 0 /\ x.rs1 = 0 /\ x.rs2 = 0
      /\ x.imm \in Int
      /\ x.rd \in Nat /\ x.rd < 32
  BY <1>2 DEF Shaped
<1>4. x.rd # 0
  BY <1>2, ShortRegisters, NonzeroIs DEF ValidRegister
<1>5. x.imm \in Nat /\ 0 <= x.imm /\ x.imm <= 252 /\ x.imm % 4 = 0
  BY <1>2, <1>3, ShortImmediates DEF Limits, NonzeroImmediate
<1>6. w = PackCI(BaseC(2, 0, 0, 0, 2), x.rd, WordSpImm(BitsOf(x.imm)))
  <2>1. w = PackedC(x, BitsOf(x.imm))
    BY <1>1, PackedCompressed
  <2>2. CSpType[x.op] = BaseC(2, 0, 0, 0, 2)
    BY DEF CSpType, BaseC
  <2>3. PackedC(x, BitsOf(x.imm)) = PackCI(CSpType[x.op], x.rd, WordSpImm(BitsOf(x.imm)))
    BY CompressedTables DEF PackedC
  <2>4. QED
    BY <2>1, <2>2, <2>3
<1> HIDE DEF w
<1>7. /\ Frame(w, 2, 2) /\ Rd(w) = x.rd /\ Carries(w, 2, 6, 2, WordSpImm(BitsOf(x.imm)))
      /\ 12 \in w <=> 5 \in WordSpImm(BitsOf(x.imm))
  BY <1>3, <1>4, <1>5, <1>6, CIFields
<1>8. ImmLwsp(w) = x.imm
  BY <1>3, <1>4, <1>5, <1>7, LwspRead
<1>9. Decoded16(w, width) = Instr("CLwsp", x.rd, 0, 0, x.imm)
  BY <1>3, <1>4, <1>5, <1>7, <1>8, CLwspArm
<1>10. x = Instr("CLwsp", x.rd, 0, 0, x.imm)
  BY <1>3, <1>4, <1>5, ShapedIs
<1>11. Access16(w, x) = MemoryOperand(x)
  BY <1>1, <1>7, ShortAccess, ShortOperand
<1>12. ~({0, 1} \subseteq w)
  BY <1>7 DEF Frame
<1>13. QED
  BY <1>9, <1>10, <1>11, <1>12 DEF Brief, w

LEMMA CLdspUnderstood ==
  ASSUME NEW x, Shaped(x), x.op = "CLdsp", NEW width \in {32, 64},
         SupportsXlen(x.op, width), Valid(x, width)
  PROVE  Brief(x, width)
<1> DEFINE w == Packed(x)
<1>1. x.op \in {"CLdsp"} /\ x.op \in CompressedNames /\ x.op \in Opcodes
  BY CompressedTables DEF CompressedNames, Shaped
<1>2. /\ RegisterFields[x.op] = {"rd"} /\ OtherFields[x.op] = {}
      /\ ImmKind[x.op] = "i32" /\ Bounds(x.op, width) = Limits(0, 504, 8)
  BY <1>1, CLdspRow
<1>3. /\ x.rs3 = 0 /\ x.rs1 = 0 /\ x.rs2 = 0
      /\ x.imm \in Int
      /\ x.rd \in Nat /\ x.rd < 32
  BY <1>2 DEF Shaped
<1>4. x.rd # 0
  BY <1>2, ShortRegisters, NonzeroIs DEF ValidRegister
<1>5. x.imm \in Nat /\ 0 <= x.imm /\ x.imm <= 504 /\ x.imm % 8 = 0
  BY <1>2, <1>3, ShortImmediates DEF Limits, NonzeroImmediate
<1>6. width = 64
  BY XlenIs
<1>7. w = PackCI(BaseC(2, 0, 0, 0, 3), x.rd, DoubleSpImm(BitsOf(x.imm)))
  <2>1. w = PackedC(x, BitsOf(x.imm))
    BY <1>1, PackedCompressed
  <2>2. CSpType[x.op] = BaseC(2, 0, 0, 0, 3)
    BY DEF CSpType, BaseC
  <2>3. PackedC(x, BitsOf(x.imm)) = PackCI(CSpType[x.op], x.rd, DoubleSpImm(BitsOf(x.imm)))
    BY CompressedTables DEF PackedC
  <2>4. QED
    BY <2>1, <2>2, <2>3
<1> HIDE DEF w
<1>8. /\ Frame(w, 2, 3) /\ Rd(w) = x.rd /\ Carries(w, 2, 6, 2, DoubleSpImm(BitsOf(x.imm)))
      /\ 12 \in w <=> 5 \in DoubleSpImm(BitsOf(x.imm))
  BY <1>3, <1>4, <1>5, <1>6, <1>7, CIFields
<1>9. ImmLdsp(w) = x.imm
  BY <1>3, <1>4, <1>5, <1>6, <1>8, LdspRead
<1>10. Decoded16(w, width) = Instr("CLdsp", x.rd, 0, 0, x.imm)
  BY <1>3, <1>4, <1>5, <1>6, <1>8, <1>9, CLdspArm
<1>11. x = Instr("CLdsp", x.rd, 0, 0, x.imm)
  BY <1>3, <1>4, <1>5, <1>6, ShapedIs
<1>12. Access16(w, x) = MemoryOperand(x)
  BY <1>1, <1>8, ShortAccess, ShortOperand
<1>13. ~({0, 1} \subseteq w)
  BY <1>8 DEF Frame
<1>14. QED
  BY <1>10, <1>11, <1>12, <1>13 DEF Brief, w

LEMMA CSwspUnderstood ==
  ASSUME NEW x, Shaped(x), x.op = "CSwsp", NEW width \in {32, 64},
         SupportsXlen(x.op, width), Valid(x, width)
  PROVE  Brief(x, width)
<1> DEFINE w == Packed(x)
<1>1. x.op \in {"CSwsp"} /\ x.op \in CompressedNames /\ x.op \in Opcodes
  BY CompressedTables DEF CompressedNames, Shaped
<1>2. /\ RegisterFields[x.op] = {"rs2"} /\ OtherFields[x.op] = {}
      /\ ImmKind[x.op] = "i32" /\ Bounds(x.op, width) = Limits(0, 252, 4)
  BY <1>1, CSwspRow
<1>3. /\ x.rs3 = 0 /\ x.rd = 0 /\ x.rs1 = 0
      /\ x.imm \in Int
      /\ x.rs2 \in Nat /\ x.rs2 < 32
  BY <1>2 DEF Shaped
<1>4. x.imm \in Nat /\ 0 <= x.imm /\ x.imm <= 252 /\ x.imm % 4 = 0
  BY <1>2, <1>3, ShortImmediates DEF Limits, NonzeroImmediate
<1>5. w = PackCSS(BaseC(2, 0, 0, 0, 6), x.rs2, WordSpImm(BitsOf(x.imm)))
  <2>1. w = PackedC(x, BitsOf(x.imm))
    BY <1>1, PackedCompressed
  <2>2. CSSType[x.op] = BaseC(2, 0, 0, 0, 6)
    BY DEF CSSType, BaseC
  <2>3. PackedC(x, BitsOf(x.imm)) = PackCSS(CSSType[x.op], x.rs2, WordSpImm(BitsOf(x.imm)))
    BY CompressedTables DEF PackedC
  <2>4. QED
    BY <2>1, <2>2, <2>3
<1> HIDE DEF w
<1>6. Frame(w, 2, 6) /\ Rs2C(w) = x.rs2 /\ Carries(w, 7, 12, 7, WordSpImm(BitsOf(x.imm)))
  BY <1>3, <1>4, <1>5, CSSFields, StackBits
<1>7. ImmSwsp(w) = x.imm
  BY <1>3, <1>4, <1>6, SwspRead
<1>8. Decoded16(w, width) = Instr("CSwsp", 0, 0, x.rs2, x.imm)
  BY <1>3, <1>4, <1>6, <1>7, CSwspArm
<1>9. x = Instr("CSwsp", 0, 0, x.rs2, x.imm)
  BY <1>3, <1>4, ShapedIs
<1>10. Access16(w, x) = MemoryOperand(x)
  BY <1>1, <1>6, ShortAccess, ShortOperand
<1>11. ~({0, 1} \subseteq w)
  BY <1>6 DEF Frame
<1>12. QED
  BY <1>8, <1>9, <1>10, <1>11 DEF Brief, w

LEMMA CSdspUnderstood ==
  ASSUME NEW x, Shaped(x), x.op = "CSdsp", NEW width \in {32, 64},
         SupportsXlen(x.op, width), Valid(x, width)
  PROVE  Brief(x, width)
<1> DEFINE w == Packed(x)
<1>1. x.op \in {"CSdsp"} /\ x.op \in CompressedNames /\ x.op \in Opcodes
  BY CompressedTables DEF CompressedNames, Shaped
<1>2. /\ RegisterFields[x.op] = {"rs2"} /\ OtherFields[x.op] = {}
      /\ ImmKind[x.op] = "i32" /\ Bounds(x.op, width) = Limits(0, 504, 8)
  BY <1>1, CSdspRow
<1>3. /\ x.rs3 = 0 /\ x.rd = 0 /\ x.rs1 = 0
      /\ x.imm \in Int
      /\ x.rs2 \in Nat /\ x.rs2 < 32
  BY <1>2 DEF Shaped
<1>4. x.imm \in Nat /\ 0 <= x.imm /\ x.imm <= 504 /\ x.imm % 8 = 0
  BY <1>2, <1>3, ShortImmediates DEF Limits, NonzeroImmediate
<1>5. width = 64
  BY XlenIs
<1>6. w = PackCSS(BaseC(2, 0, 0, 0, 7), x.rs2, DoubleSpImm(BitsOf(x.imm)))
  <2>1. w = PackedC(x, BitsOf(x.imm))
    BY <1>1, PackedCompressed
  <2>2. CSSType[x.op] = BaseC(2, 0, 0, 0, 7)
    BY DEF CSSType, BaseC
  <2>3. PackedC(x, BitsOf(x.imm)) = PackCSS(CSSType[x.op], x.rs2, DoubleSpImm(BitsOf(x.imm)))
    BY CompressedTables DEF PackedC
  <2>4. QED
    BY <2>1, <2>2, <2>3
<1> HIDE DEF w
<1>7. Frame(w, 2, 7) /\ Rs2C(w) = x.rs2 /\ Carries(w, 7, 12, 7, DoubleSpImm(BitsOf(x.imm)))
  BY <1>3, <1>4, <1>5, <1>6, CSSFields, StackBits
<1>8. ImmSdsp(w) = x.imm
  BY <1>3, <1>4, <1>5, <1>7, SdspRead
<1>9. Decoded16(w, width) = Instr("CSdsp", 0, 0, x.rs2, x.imm)
  BY <1>3, <1>4, <1>5, <1>7, <1>8, CSdspArm
<1>10. x = Instr("CSdsp", 0, 0, x.rs2, x.imm)
  BY <1>3, <1>4, <1>5, ShapedIs
<1>11. Access16(w, x) = MemoryOperand(x)
  BY <1>1, <1>7, ShortAccess, ShortOperand
<1>12. ~({0, 1} \subseteq w)
  BY <1>7 DEF Frame
<1>13. QED
  BY <1>9, <1>10, <1>11, <1>12 DEF Brief, w

LEMMA CLwUnderstood ==
  ASSUME NEW x, Shaped(x), x.op = "CLw", NEW width \in {32, 64},
         SupportsXlen(x.op, width), Valid(x, width)
  PROVE  Brief(x, width)
<1> DEFINE w == Packed(x)
<1>1. x.op \in {"CLw"} /\ x.op \in CompressedNames /\ x.op \in Opcodes
      /\ x.op \in Compact
  BY CompressedTables, CompactIs DEF CompressedNames, Shaped
<1>2. /\ RegisterFields[x.op] = {"rd", "rs1"} /\ OtherFields[x.op] = {}
      /\ ImmKind[x.op] = "i32" /\ Bounds(x.op, width) = Limits(0, 124, 4)
  BY <1>1, CLwRow
<1>3. /\ x.rs3 = 0 /\ x.rs2 = 0
      /\ x.imm \in Int
      /\ x.rd \in Nat /\ x.rd < 32
      /\ x.rs1 \in Nat /\ x.rs1 < 32
  BY <1>2 DEF Shaped
<1>4. PICK s : s \in Nat /\ s < 8 /\ Eighth(x.rd, s)
  BY <1>1, <1>2, EightRegisters
<1>5. PICK d : d \in Nat /\ d < 8 /\ Eighth(x.rs1, d)
  BY <1>1, <1>2, EightRegisters
<1>6. x.imm \in Nat /\ 0 <= x.imm /\ x.imm <= 124 /\ x.imm % 4 = 0
  BY <1>2, <1>3, ShortImmediates DEF Limits, NonzeroImmediate
<1>7. w = PackCL(BaseC(0, 0, 0, 0, 2), x.rd, x.rs1, WordImm(BitsOf(x.imm)))
  <2>1. w = PackedC(x, BitsOf(x.imm))
    BY <1>1, PackedCompressed
  <2>2. CLType[x.op] = BaseC(0, 0, 0, 0, 2)
    BY DEF CLType, BaseC
  <2>3. PackedC(x, BitsOf(x.imm)) = PackCL(CLType[x.op], x.rd, x.rs1, WordImm(BitsOf(x.imm)))
    BY CompressedTables DEF PackedC
  <2>4. QED
    BY <2>1, <2>2, <2>3
<1> HIDE DEF w
<1>8. /\ Frame(w, 0, 2) /\ RdShort(w) = x.rd /\ Rs1Short(w) = x.rs1
      /\ Carries(w, 5, 6, 5, WordImm(BitsOf(x.imm))) /\ Carries(w, 10, 12, 8, WordImm(BitsOf(x.imm)))
  BY <1>3, <1>4, <1>5, <1>6, <1>7, CLFields
<1>9. ImmW(w) = x.imm
  BY <1>3, <1>4, <1>5, <1>6, <1>8, WordRead
<1>10. Decoded16(w, width) = Instr("CLw", x.rd, x.rs1, 0, x.imm)
  BY <1>3, <1>4, <1>5, <1>6, <1>8, <1>9, CLwArm
<1>11. x = Instr("CLw", x.rd, x.rs1, 0, x.imm)
  BY <1>3, <1>4, <1>5, <1>6, ShapedIs
<1>12. Access16(w, x) = MemoryOperand(x)
  BY <1>1, <1>8, ShortAccess, ShortOperand
<1>13. ~({0, 1} \subseteq w)
  BY <1>8 DEF Frame
<1>14. QED
  BY <1>10, <1>11, <1>12, <1>13 DEF Brief, w

LEMMA CLdUnderstood ==
  ASSUME NEW x, Shaped(x), x.op = "CLd", NEW width \in {32, 64},
         SupportsXlen(x.op, width), Valid(x, width)
  PROVE  Brief(x, width)
<1> DEFINE w == Packed(x)
<1>1. x.op \in {"CLd"} /\ x.op \in CompressedNames /\ x.op \in Opcodes
      /\ x.op \in Compact
  BY CompressedTables, CompactIs DEF CompressedNames, Shaped
<1>2. /\ RegisterFields[x.op] = {"rd", "rs1"} /\ OtherFields[x.op] = {}
      /\ ImmKind[x.op] = "i32" /\ Bounds(x.op, width) = Limits(0, 248, 8)
  BY <1>1, CLdRow
<1>3. /\ x.rs3 = 0 /\ x.rs2 = 0
      /\ x.imm \in Int
      /\ x.rd \in Nat /\ x.rd < 32
      /\ x.rs1 \in Nat /\ x.rs1 < 32
  BY <1>2 DEF Shaped
<1>4. PICK s : s \in Nat /\ s < 8 /\ Eighth(x.rd, s)
  BY <1>1, <1>2, EightRegisters
<1>5. PICK d : d \in Nat /\ d < 8 /\ Eighth(x.rs1, d)
  BY <1>1, <1>2, EightRegisters
<1>6. x.imm \in Nat /\ 0 <= x.imm /\ x.imm <= 248 /\ x.imm % 8 = 0
  BY <1>2, <1>3, ShortImmediates DEF Limits, NonzeroImmediate
<1>7. width = 64
  BY XlenIs
<1>8. w = PackCL(BaseC(0, 0, 0, 0, 3), x.rd, x.rs1, DoubleImm(BitsOf(x.imm)))
  <2>1. w = PackedC(x, BitsOf(x.imm))
    BY <1>1, PackedCompressed
  <2>2. CLType[x.op] = BaseC(0, 0, 0, 0, 3)
    BY DEF CLType, BaseC
  <2>3. PackedC(x, BitsOf(x.imm)) = PackCL(CLType[x.op], x.rd, x.rs1, DoubleImm(BitsOf(x.imm)))
    BY CompressedTables DEF PackedC
  <2>4. QED
    BY <2>1, <2>2, <2>3
<1> HIDE DEF w
<1>9. /\ Frame(w, 0, 3) /\ RdShort(w) = x.rd /\ Rs1Short(w) = x.rs1
      /\ Carries(w, 5, 6, 5, DoubleImm(BitsOf(x.imm))) /\ Carries(w, 10, 12, 8, DoubleImm(BitsOf(x.imm)))
  BY <1>3, <1>4, <1>5, <1>6, <1>7, <1>8, CLFields
<1>10. ImmD(w) = x.imm
  BY <1>3, <1>4, <1>5, <1>6, <1>7, <1>9, DoubleRead
<1>11. Decoded16(w, width) = Instr("CLd", x.rd, x.rs1, 0, x.imm)
  BY <1>3, <1>4, <1>5, <1>6, <1>7, <1>9, <1>10, CLdArm
<1>12. x = Instr("CLd", x.rd, x.rs1, 0, x.imm)
  BY <1>3, <1>4, <1>5, <1>6, <1>7, ShapedIs
<1>13. Access16(w, x) = MemoryOperand(x)
  BY <1>1, <1>9, ShortAccess, ShortOperand
<1>14. ~({0, 1} \subseteq w)
  BY <1>9 DEF Frame
<1>15. QED
  BY <1>11, <1>12, <1>13, <1>14 DEF Brief, w

LEMMA CSwUnderstood ==
  ASSUME NEW x, Shaped(x), x.op = "CSw", NEW width \in {32, 64},
         SupportsXlen(x.op, width), Valid(x, width)
  PROVE  Brief(x, width)
<1> DEFINE w == Packed(x)
<1>1. x.op \in {"CSw"} /\ x.op \in CompressedNames /\ x.op \in Opcodes
      /\ x.op \in Compact
  BY CompressedTables, CompactIs DEF CompressedNames, Shaped
<1>2. /\ RegisterFields[x.op] = {"rs1", "rs2"} /\ OtherFields[x.op] = {}
      /\ ImmKind[x.op] = "i32" /\ Bounds(x.op, width) = Limits(0, 124, 4)
  BY <1>1, CSwRow
<1>3. /\ x.rs3 = 0 /\ x.rd = 0
      /\ x.imm \in Int
      /\ x.rs2 \in Nat /\ x.rs2 < 32
      /\ x.rs1 \in Nat /\ x.rs1 < 32
  BY <1>2 DEF Shaped
<1>4. PICK s : s \in Nat /\ s < 8 /\ Eighth(x.rs2, s)
  BY <1>1, <1>2, EightRegisters
<1>5. PICK d : d \in Nat /\ d < 8 /\ Eighth(x.rs1, d)
  BY <1>1, <1>2, EightRegisters
<1>6. x.imm \in Nat /\ 0 <= x.imm /\ x.imm <= 124 /\ x.imm % 4 = 0
  BY <1>2, <1>3, ShortImmediates DEF Limits, NonzeroImmediate
<1>7. w = PackCL(BaseC(0, 0, 0, 0, 6), x.rs2, x.rs1, WordImm(BitsOf(x.imm)))
  <2>1. w = PackedC(x, BitsOf(x.imm))
    BY <1>1, PackedCompressed
  <2>2. CSType[x.op] = BaseC(0, 0, 0, 0, 6)
    BY DEF CSType, BaseC
  <2>3. PackedC(x, BitsOf(x.imm)) = PackCL(CSType[x.op], x.rs2, x.rs1, WordImm(BitsOf(x.imm)))
    BY CompressedTables DEF PackedC
  <2>4. QED
    BY <2>1, <2>2, <2>3
<1> HIDE DEF w
<1>8. /\ Frame(w, 0, 6) /\ RdShort(w) = x.rs2 /\ Rs1Short(w) = x.rs1
      /\ Carries(w, 5, 6, 5, WordImm(BitsOf(x.imm))) /\ Carries(w, 10, 12, 8, WordImm(BitsOf(x.imm)))
  BY <1>3, <1>4, <1>5, <1>6, <1>7, CLFields
<1>9. ImmW(w) = x.imm
  BY <1>3, <1>4, <1>5, <1>6, <1>8, WordRead
<1>10. Decoded16(w, width) = Instr("CSw", 0, x.rs1, x.rs2, x.imm)
  BY <1>3, <1>4, <1>5, <1>6, <1>8, <1>9, CSwArm
<1>11. x = Instr("CSw", 0, x.rs1, x.rs2, x.imm)
  BY <1>3, <1>4, <1>5, <1>6, ShapedIs
<1>12. Access16(w, x) = MemoryOperand(x)
  BY <1>1, <1>8, ShortAccess, ShortOperand
<1>13. ~({0, 1} \subseteq w)
  BY <1>8 DEF Frame
<1>14. QED
  BY <1>10, <1>11, <1>12, <1>13 DEF Brief, w

LEMMA CSdUnderstood ==
  ASSUME NEW x, Shaped(x), x.op = "CSd", NEW width \in {32, 64},
         SupportsXlen(x.op, width), Valid(x, width)
  PROVE  Brief(x, width)
<1> DEFINE w == Packed(x)
<1>1. x.op \in {"CSd"} /\ x.op \in CompressedNames /\ x.op \in Opcodes
      /\ x.op \in Compact
  BY CompressedTables, CompactIs DEF CompressedNames, Shaped
<1>2. /\ RegisterFields[x.op] = {"rs1", "rs2"} /\ OtherFields[x.op] = {}
      /\ ImmKind[x.op] = "i32" /\ Bounds(x.op, width) = Limits(0, 248, 8)
  BY <1>1, CSdRow
<1>3. /\ x.rs3 = 0 /\ x.rd = 0
      /\ x.imm \in Int
      /\ x.rs2 \in Nat /\ x.rs2 < 32
      /\ x.rs1 \in Nat /\ x.rs1 < 32
  BY <1>2 DEF Shaped
<1>4. PICK s : s \in Nat /\ s < 8 /\ Eighth(x.rs2, s)
  BY <1>1, <1>2, EightRegisters
<1>5. PICK d : d \in Nat /\ d < 8 /\ Eighth(x.rs1, d)
  BY <1>1, <1>2, EightRegisters
<1>6. x.imm \in Nat /\ 0 <= x.imm /\ x.imm <= 248 /\ x.imm % 8 = 0
  BY <1>2, <1>3, ShortImmediates DEF Limits, NonzeroImmediate
<1>7. width = 64
  BY XlenIs
<1>8. w = PackCL(BaseC(0, 0, 0, 0, 7), x.rs2, x.rs1, DoubleImm(BitsOf(x.imm)))
  <2>1. w = PackedC(x, BitsOf(x.imm))
    BY <1>1, PackedCompressed
  <2>2. CSType[x.op] = BaseC(0, 0, 0, 0, 7)
    BY DEF CSType, BaseC
  <2>3. PackedC(x, BitsOf(x.imm)) = PackCL(CSType[x.op], x.rs2, x.rs1, DoubleImm(BitsOf(x.imm)))
    BY CompressedTables DEF PackedC
  <2>4. QED
    BY <2>1, <2>2, <2>3
<1> HIDE DEF w
<1>9. /\ Frame(w, 0, 7) /\ RdShort(w) = x.rs2 /\ Rs1Short(w) = x.rs1
      /\ Carries(w, 5, 6, 5, DoubleImm(BitsOf(x.imm))) /\ Carries(w, 10, 12, 8, DoubleImm(BitsOf(x.imm)))
  BY <1>3, <1>4, <1>5, <1>6, <1>7, <1>8, CLFields
<1>10. ImmD(w) = x.imm
  BY <1>3, <1>4, <1>5, <1>6, <1>7, <1>9, DoubleRead
<1>11. Decoded16(w, width) = Instr("CSd", 0, x.rs1, x.rs2, x.imm)
  BY <1>3, <1>4, <1>5, <1>6, <1>7, <1>9, <1>10, CSdArm
<1>12. x = Instr("CSd", 0, x.rs1, x.rs2, x.imm)
  BY <1>3, <1>4, <1>5, <1>6, <1>7, ShapedIs
<1>13. Access16(w, x) = MemoryOperand(x)
  BY <1>1, <1>9, ShortAccess, ShortOperand
<1>14. ~({0, 1} \subseteq w)
  BY <1>9 DEF Frame
<1>15. QED
  BY <1>11, <1>12, <1>13, <1>14 DEF Brief, w

LEMMA CAddi16spUnderstood ==
  ASSUME NEW x, Shaped(x), x.op = "CAddi16sp", NEW width \in {32, 64},
         SupportsXlen(x.op, width), Valid(x, width)
  PROVE  Brief(x, width)
<1> DEFINE w == Packed(x)
<1>1. x.op \in {"CAddi16sp"} /\ x.op \in CompressedNames /\ x.op \in Opcodes
  BY CompressedTables DEF CompressedNames, Shaped
<1>2. /\ RegisterFields[x.op] = {} /\ OtherFields[x.op] = {}
      /\ ImmKind[x.op] = "i32" /\ Bounds(x.op, width) = Limits(-512, 496, 16)
  BY <1>1, CAddi16spRow
<1>3. /\ x.rs3 = 0 /\ x.rd = 0 /\ x.rs1 = 0 /\ x.rs2 = 0
      /\ x.imm \in Int
  BY <1>2 DEF Shaped
<1>4. -512 <= x.imm /\ x.imm <= 496 /\ x.imm % 16 = 0 /\ x.imm # 0
  BY <1>2, <1>3, ShortImmediates DEF Limits, NonzeroImmediate
<1>5. w = PackCI(BaseC(1, 0, 0, 0, 3), 2, Addi16spImm(BitsOf(x.imm)))
  <2>1. w = PackedC(x, BitsOf(x.imm))
    BY <1>1, PackedCompressed
  <2>2. PackedC(x, BitsOf(x.imm)) = PackCI(\h6001, 2, Addi16spImm(BitsOf(x.imm)))
    BY CompressedTables DEF PackedC
  <2>3. \h6001 = BaseC(1, 0, 0, 0, 3)
    BY DEF BaseC
  <2>4. QED
    BY <2>1, <2>2, <2>3
<1> HIDE DEF w
<1>6. /\ Frame(w, 1, 3) /\ Rd(w) = 2 /\ Carries(w, 2, 6, 2, Addi16spImm(BitsOf(x.imm)))
      /\ 12 \in w <=> 5 \in Addi16spImm(BitsOf(x.imm))
  BY <1>3, <1>4, <1>5, CIFields
<1>7. ImmSp(w) = x.imm
  BY <1>3, <1>4, <1>6, SpRead
<1>8. Decoded16(w, width) = Instr("CAddi16sp", 0, 0, 0, x.imm)
  BY <1>3, <1>4, <1>6, <1>7, CAddi16spArm
<1>9. x = Instr("CAddi16sp", 0, 0, 0, x.imm)
  BY <1>3, <1>4, ShapedIs
<1>10. Access16(w, x) = MemoryOperand(x)
  BY <1>1, <1>6, ShortAccess, ShortOperand
<1>11. ~({0, 1} \subseteq w)
  BY <1>6 DEF Frame
<1>12. QED
  BY <1>8, <1>9, <1>10, <1>11 DEF Brief, w

LEMMA CAddi4spnUnderstood ==
  ASSUME NEW x, Shaped(x), x.op = "CAddi4spn", NEW width \in {32, 64},
         SupportsXlen(x.op, width), Valid(x, width)
  PROVE  Brief(x, width)
<1> DEFINE w == Packed(x)
<1>1. x.op \in {"CAddi4spn"} /\ x.op \in CompressedNames /\ x.op \in Opcodes
      /\ x.op \in Compact
  BY CompressedTables, CompactIs DEF CompressedNames, Shaped
<1>2. /\ RegisterFields[x.op] = {"rd"} /\ OtherFields[x.op] = {}
      /\ ImmKind[x.op] = "i32" /\ Bounds(x.op, width) = Limits(4, 1020, 4)
  BY <1>1, CAddi4spnRow
<1>3. /\ x.rs3 = 0 /\ x.rs1 = 0 /\ x.rs2 = 0
      /\ x.imm \in Int
      /\ x.rd \in Nat /\ x.rd < 32
  BY <1>2 DEF Shaped
<1>4. PICK d : d \in Nat /\ d < 8 /\ Eighth(x.rd, d)
  BY <1>1, <1>2, EightRegisters
<1>5. x.imm \in Nat /\ 4 <= x.imm /\ x.imm <= 1020 /\ x.imm % 4 = 0 /\ x.imm # 0
  BY <1>2, <1>3, ShortImmediates DEF Limits, NonzeroImmediate
<1>6. w = PackCIW(x.rd, BitsOf(x.imm))
  <2>1. w = PackedC(x, BitsOf(x.imm))
    BY <1>1, PackedCompressed
  <2>2. PackedC(x, BitsOf(x.imm)) = PackCIW(x.rd, BitsOf(x.imm))
    BY CompressedTables DEF PackedC
  <2>3. QED
    BY <2>1, <2>2
<1> HIDE DEF w
<1>7. /\ Frame(w, 0, 0) /\ RdShort(w) = x.rd
      /\ Carries(w, 11, 12, 7, BitsOf(x.imm)) /\ Carries(w, 7, 10, 1, BitsOf(x.imm))
      /\ 6 \in w <=> 2 \in BitsOf(x.imm)
      /\ 5 \in w <=> 3 \in BitsOf(x.imm)
  BY <1>3, <1>4, <1>5, <1>6, CIWFields
<1>8. ImmCIW(w) = x.imm
  BY <1>3, <1>4, <1>5, <1>7, ImmCIWIs DEF Carries
<1>9. Decoded16(w, width) = Instr("CAddi4spn", x.rd, 0, 0, x.imm)
  BY <1>3, <1>4, <1>5, <1>7, <1>8, CAddi4spnArm
<1>10. x = Instr("CAddi4spn", x.rd, 0, 0, x.imm)
  BY <1>3, <1>4, <1>5, ShapedIs
<1>11. Access16(w, x) = MemoryOperand(x)
  BY <1>1, <1>7, ShortAccess, ShortOperand
<1>12. ~({0, 1} \subseteq w)
  BY <1>7 DEF Frame
<1>13. QED
  BY <1>9, <1>10, <1>11, <1>12 DEF Brief, w

LEMMA CEbreakUnderstood ==
  ASSUME NEW x, Shaped(x), x.op = "CEbreak", NEW width \in {32, 64},
         SupportsXlen(x.op, width), Valid(x, width)
  PROVE  Brief(x, width)
<1> DEFINE w == Packed(x)
<1>1. x.op \in {"CEbreak"} /\ x.op \in CompressedNames /\ x.op \in Opcodes
  BY CompressedTables DEF CompressedNames, Shaped
<1>2. /\ RegisterFields[x.op] = {} /\ OtherFields[x.op] = {}
      /\ ImmKind[x.op] = "none"
  BY <1>1, CEbreakRow
<1>3. /\ x.rs3 = 0 /\ x.rd = 0 /\ x.rs1 = 0 /\ x.rs2 = 0
      /\ x.imm \in Int /\ x.imm = 0
  BY <1>2 DEF Shaped
<1>4. w = PackCR(BaseC(2, 0, 0, 1, 4), 0, 0)
  <2>1. w = PackedC(x, BitsOf(x.imm))
    BY <1>1, PackedCompressed
  <2>2. PackedC(x, BitsOf(x.imm)) = BitsOf(\h9002)
    BY CompressedTables DEF PackedC
  <2>3. \h9002 = BaseC(2, 0, 0, 1, 4)
    BY DEF BaseC
  <2>4. QED
    BY <2>1, <2>2, <2>3, Nothing DEF PackCR
<1> HIDE DEF w
<1>5. Frame(w, 2, 4) /\ OneBit(w, 1) /\ Rd(w) = 0 /\ Rs2C(w) = 0
  BY <1>3, <1>4, CRFields
<1>6. 12 \in w
  BY <1>3, <1>5, SMT DEF OneBit
<1>7. Decoded16(w, width) = Instr("CEbreak", 0, 0, 0, 0)
  BY <1>3, <1>5, <1>6, CEbreakArm
<1>8. x = Instr("CEbreak", 0, 0, 0, 0)
  BY <1>3, ShapedIs
<1>9. Access16(w, x) = MemoryOperand(x)
  BY <1>1, <1>5, ShortAccess, ShortOperand
<1>10. ~({0, 1} \subseteq w)
  BY <1>5 DEF Frame
<1>11. QED
  BY <1>7, <1>8, <1>9, <1>10 DEF Brief, w

LEMMA ShortUnderstood ==
  ASSUME NEW x, Shaped(x), x.op \in CompressedNames, NEW width \in {32, 64},
         SupportsXlen(x.op, width), Valid(x, width)
  PROVE  Brief(x, width)
<1>1. CASE x.op = "CMv"
  BY <1>1, CMvUnderstood
<1>2. CASE x.op = "CAdd"
  BY <1>2, CAddUnderstood
<1>3. CASE x.op = "CJr"
  BY <1>3, CJrUnderstood
<1>4. CASE x.op = "CJalr"
  BY <1>4, CJalrUnderstood
<1>5. CASE x.op = "CAnd"
  BY <1>5, CAndUnderstood
<1>6. CASE x.op = "COr"
  BY <1>6, COrUnderstood
<1>7. CASE x.op = "CXor"
  BY <1>7, CXorUnderstood
<1>8. CASE x.op = "CSub"
  BY <1>8, CSubUnderstood
<1>9. CASE x.op = "CAddw"
  BY <1>9, CAddwUnderstood
<1>10. CASE x.op = "CSubw"
  BY <1>10, CSubwUnderstood
<1>11. CASE x.op = "CLui"
  BY <1>11, CLuiUnderstood
<1>12. CASE x.op = "CAddi"
  BY <1>12, CAddiUnderstood
<1>13. CASE x.op = "CLi"
  BY <1>13, CLiUnderstood
<1>14. CASE x.op = "CAddiw"
  BY <1>14, CAddiwUnderstood
<1>15. CASE x.op = "CSlli"
  BY <1>15, CSlliUnderstood
<1>16. CASE x.op = "CLwsp"
  BY <1>16, CLwspUnderstood
<1>17. CASE x.op = "CLdsp"
  BY <1>17, CLdspUnderstood
<1>18. CASE x.op = "CAndi"
  BY <1>18, CAndiUnderstood
<1>19. CASE x.op = "CSrli"
  BY <1>19, CSrliUnderstood
<1>20. CASE x.op = "CSrai"
  BY <1>20, CSraiUnderstood
<1>21. CASE x.op = "CBeqz"
  BY <1>21, CBeqzUnderstood
<1>22. CASE x.op = "CBnez"
  BY <1>22, CBnezUnderstood
<1>23. CASE x.op = "CJal"
  BY <1>23, CJalUnderstood
<1>24. CASE x.op = "CJ"
  BY <1>24, CJUnderstood
<1>25. CASE x.op = "CSwsp"
  BY <1>25, CSwspUnderstood
<1>26. CASE x.op = "CSdsp"
  BY <1>26, CSdspUnderstood
<1>27. CASE x.op = "CLw"
  BY <1>27, CLwUnderstood
<1>28. CASE x.op = "CLd"
  BY <1>28, CLdUnderstood
<1>29. CASE x.op = "CSw"
  BY <1>29, CSwUnderstood
<1>30. CASE x.op = "CSd"
  BY <1>30, CSdUnderstood
<1>31. CASE x.op = "CAddi16sp"
  BY <1>31, CAddi16spUnderstood
<1>32. CASE x.op = "CAddi4spn"
  BY <1>32, CAddi4spnUnderstood
<1>33. CASE x.op = "CEbreak"
  BY <1>33, CEbreakUnderstood
<1>34. QED
  BY <1>1, <1>2, <1>3, <1>4, <1>5, <1>6, <1>7, <1>8, <1>9, <1>10, <1>11, <1>12, <1>13,
     <1>14, <1>15, <1>16, <1>17, <1>18, <1>19, <1>20, <1>21, <1>22, <1>23, <1>24, <1>25,
     <1>26, <1>27, <1>28, <1>29, <1>30, <1>31, <1>32, <1>33
  DEF CompressedNames

LEMMA ShortIsFetched ==
  ASSUME NEW x, Shaped(x), x.op \in CompressedNames, NEW width \in {32, 64},
         SupportsXlen(x.op, width), Valid(x, width), NEW ps,
         ps[1] = Run(Packed(x), 15, 0, 0)
  PROVE  Fetched(ps, width) =
             [used |-> 1, instr |-> Canonical(x), access |-> MemoryOperand(x)]
<1> DEFINE w == Packed(x)
           low == Run(w, 15, 0, 0)
<1>1. Brief(x, width)
  BY ShortUnderstood
<1>2. Registers(x) /\ x.op \in Compressed
  BY CompressedIs DEF Shaped, Registers
<1>3. w \subseteq 0 .. 15
  BY <1>2, CompressedFits DEF ParcelBits
<1>4. low = w
  BY <1>3 DEF Run
<1>5. x.op \notin DOMAIN UType
  BY OtherFormats DEF NoOtherFormat
<1>6. Canonical(x) = x
  BY <1>5, CanonicalIs
<1>7. /\ Decoded16(w, width) = x /\ Access16(w, x) = MemoryOperand(x)
      /\ ~({0, 1} \subseteq w)
  BY <1>1 DEF Brief
<1> HIDE DEF w, low
<1>8. ps[1] = w
  BY <1>4 DEF w, low
<1>9. QED
  BY <1>6, <1>7, <1>8 DEF Fetched

LEMMA KindsAre ==
  ASSUME NEW op \in Opcodes
  PROVE  ImmKind[op] \in {"i32", "shift", "csr", "ordering", "rounding", "fence", "none"}
  BY SMTT(30) DEF ImmKind

\* What the types of the operands leave.
Typed(op, imm) ==
    /\ imm \in Int
    /\ ImmKind[op] = "csr" => 0 <= imm /\ imm < 4096
    /\ ImmKind[op] = "ordering" => 0 <= imm /\ imm < 4
    /\ ImmKind[op] = "rounding" => 0 <= imm /\ imm < 8
    /\ ImmKind[op] = "none" => imm = 0

LEMMA GivenTyped ==
  ASSUME NEW op \in Opcodes, NEW imm \in GivenFor(op)
  PROVE  Typed(op, imm)
<1>1. GivenImmediates \subseteq Int
  BY EncodingAssumption
<1>2. CASE ImmKind[op] = "i32"
  BY <1>1, <1>2 DEF GivenFor, Typed
<1>3. CASE ImmKind[op] = "shift"
  BY <1>1, <1>3 DEF GivenFor, Typed
<1>4. CASE ImmKind[op] = "csr"
  <2>1. imm \in 0 .. 4095
    BY <1>4 DEF GivenFor
  <2>2. QED
    BY <1>4, <2>1 DEF Typed
<1>5. CASE ImmKind[op] = "fence"
  BY <1>1, <1>5 DEF GivenFor, Typed
<1>6. CASE ImmKind[op] = "ordering"
  BY <1>6 DEF GivenFor, Typed
<1>7. CASE ImmKind[op] = "rounding"
  BY <1>7 DEF GivenFor, Typed
<1>8. CASE ImmKind[op] = "none"
  BY <1>8 DEF GivenFor, Typed
<1>9. QED
  BY <1>2, <1>3, <1>4, <1>5, <1>6, <1>7, <1>8, KindsAre

LEMMA DrawnTyped ==
  ASSUME NEW op \in Opcodes, NEW t, t.xlen \in {32, 64}, NEW imm \in SampledImmediates(op, t)
  PROVE  Typed(op, imm)
<1>1. GivenImmediates \subseteq Int
  BY EncodingAssumption
<1>2. CASE ImmKind[op] \in {"i32", "shift"}
  <2>1. ValidImmediate(op, t.xlen, imm)
    BY DrawnImmediate
  <2>2. imm \in Bounds(op, t.xlen).min .. Bounds(op, t.xlen).max
    BY <1>2, <2>1 DEF ValidImmediate
  <2>3. QED
    BY <1>2, <2>2 DEF Typed
<1>3. CASE ImmKind[op] = "csr"
  <2>1. imm \in {832, 320, 1}
    BY <1>3 DEF SampledImmediates
  <2>2. QED
    BY <1>3, <2>1 DEF Typed
<1>4. CASE ImmKind[op] = "fence"
  BY <1>1, <1>4 DEF SampledImmediates, Typed
<1>5. CASE ImmKind[op] = "ordering"
  BY <1>5 DEF SampledImmediates, Typed
<1>6. CASE ImmKind[op] = "rounding"
  BY <1>6 DEF SampledImmediates, Typed
<1>7. CASE ImmKind[op] = "none"
  BY <1>7 DEF SampledImmediates, Typed
<1>8. QED
  BY <1>2, <1>3, <1>4, <1>5, <1>6, <1>7, KindsAre

LEMMA WithIsShaped ==
  ASSUME NEW op \in Opcodes, NEW registers, NEW immediates, registers \subseteq 0 .. 31,
         \A imm \in immediates : Typed(op, imm),
         NEW x \in With(op, registers, immediates)
  PROVE  Shaped(x)
<1> DEFINE in(f) == IF f \in RegisterFields[op] THEN registers ELSE {0}
<1>1. PICK d \in in("rd"), r1 \in in("rs1"), r2 \in in("rs2"), r3 \in in("rs3"),
           i \in immediates : x = [Instr(op, d, r1, r2, i) EXCEPT !.rs3 = r3]
  BY DEF With
<1>2. x = [op |-> op, rd |-> d, rs1 |-> r1, rs2 |-> r2, rs3 |-> r3, imm |-> i]
  BY <1>1 DEF Instr
<1>3. ASSUME NEW f, NEW r \in in(f)
      PROVE  r \in Nat /\ r < 32 /\ (f \notin RegisterFields[op] => r = 0)
  <2>1. CASE f \in RegisterFields[op]
    <3>1. r \in 0 .. 31
      BY <2>1
    <3>2. QED
      BY <2>1, <3>1
  <2>2. CASE f \notin RegisterFields[op]
    BY <2>2
  <2>3. QED
    BY <2>1, <2>2
<1> HIDE DEF in
<1>4. /\ d \in Nat /\ d < 32 /\ ("rd" \notin RegisterFields[op] => d = 0)
      /\ r1 \in Nat /\ r1 < 32 /\ ("rs1" \notin RegisterFields[op] => r1 = 0)
      /\ r2 \in Nat /\ r2 < 32 /\ ("rs2" \notin RegisterFields[op] => r2 = 0)
      /\ r3 \in Nat /\ r3 < 32 /\ ("rs3" \notin RegisterFields[op] => r3 = 0)
  BY <1>3
<1>5. QED
  BY <1>2, <1>4 DEF Shaped, Typed

LEMMA OwnIsShaped ==
  ASSUME NEW op \in OwnNames, op \in Opcodes, NEW imm \in Int,
         NEW d, d \in 0 .. 31, NEW s, s \in 0 .. 31, op \in {"Lui", "Jal"} => s = 0
  PROVE  Shaped(Instr(op, d, s, 0, imm))
<1>1. ImmKind[op] = "i32" /\ "rd" \in RegisterFields[op]
      /\ (op \notin {"Lui", "Jal"} => "rs1" \in RegisterFields[op])
  <2>1. CASE op = "Lui"
    BY <2>1, URow, OpcodeTables
  <2>2. CASE op = "Jal"
    BY <2>2, JRow, OpcodeTables
  <2>3. CASE op \in {"Addi", "Addiw"}
    BY <2>3, ImmRow, ArithmeticTables
  <2>4. QED
    BY <2>1, <2>2, <2>3 DEF OwnNames
<1>2. QED
  BY <1>1 DEF Shaped, Instr

\* A shift has more room on RV64, and no other operand less.
LEMMA ValidWide ==
  ASSUME NEW x, x.op \in Opcodes, NEW width \in {32, 64}, Valid(x, width)
  PROVE  Valid(x, 64)
<1> DEFINE op == x.op
           near == Bounds(op, width)
           far == Bounds(op, 64)
<1>1. far.min = near.min /\ far.alignment = near.alignment /\ near.max <= far.max
  <2>1. CASE op \in Names({CShiftType, CBShiftType})
    BY <2>1 DEF Bounds, Limits
  <2>2. CASE op \in DOMAIN ShiftType
    BY <2>2, ArithmeticTables, CompressedTables, OpcodeTables DEF Bounds, Limits, Names
  <2>3. CASE op \notin Names({CShiftType, CBShiftType}) /\ op \notin DOMAIN ShiftType
    <3>1. near = far
      BY <2>3, SMT DEF Bounds
    <3>2. near.max \in Int
      BY BoundsAre DEF Sound
    <3>3. QED
      BY <3>1, <3>2
  <2>4. QED
    BY <2>1, <2>2, <2>3
<1>2. near.max \in Int /\ far.max \in Int /\ near.min \in Int
  BY BoundsAre DEF Sound
<1>3. ValidImmediate(op, width, x.imm)
  BY DEF Valid
<1>4. ValidImmediate(op, 64, x.imm)
  <2>1. CASE ImmKind[op] \in {"i32", "shift"}
    <3>1. /\ x.imm \in near.min .. near.max /\ x.imm % near.alignment = 0
          /\ op \in NonzeroImmediate => x.imm # 0
      BY <1>3, <2>1 DEF ValidImmediate
    <3> HIDE DEF near, far
    <3>2. x.imm \in far.min .. far.max /\ x.imm % far.alignment = 0
      BY <1>1, <1>2, <3>1
    <3>3. QED
      BY <2>1, <3>1, <3>2 DEF ValidImmediate, far
  <2>2. CASE ImmKind[op] \notin {"i32", "shift"}
    BY <1>3, <2>2 DEF ValidImmediate
  <2>3. QED
    BY <2>1, <2>2
<1>5. QED
  BY <1>4 DEF Valid

--------------------------------------------------------------------------------
(* What is fetched.                                                          *)

\* The parcels emit appends for an instruction.
Stored(x) ==
    <<Run(Packed(x), 15, 0, 0)>>
    \o (IF x.op \in Compressed THEN <<>> ELSE <<Run(Packed(x), 31, 16, -16)>>)

\* The instruction has the operands of its opcode.  What is stored passed the
\* checks and is its encoding, and a fetch of it sees what it was made for.
FetchIInv ==
    /\ EncodingIInv
    /\ stage # "idle" => Shaped(instr)
    /\ stage # "idle" /\ source = "draw" => instr.op \in Workload(target)
    /\ stage \in {"stored", "fetched"} =>
          /\ Supports(target, instr.op) /\ Valid(instr, target.xlen)
          /\ parcels = Stored(instr)
    /\ stage = "fetched" =>
          seen = [used |-> Len(parcels), instr |-> Canonical(instr),
                  access |-> MemoryOperand(instr)]

LEMMA StoredIsFetched ==
  ASSUME NEW x, Shaped(x), NEW width \in {32, 64}, SupportsXlen(x.op, width),
         Valid(x, width)
  PROVE  Fetched(Stored(x), width) =
             [used |-> Len(Stored(x)), instr |-> Canonical(x), access |-> MemoryOperand(x)]
<1>1. x.op \in LongFormats \/ x.op \in CompressedNames
  BY OpcodesAre DEF Shaped
<1>2. CASE x.op \in CompressedNames
  <2>1. x.op \in Compressed
    BY <1>2, CompressedIs
  <2>2. Stored(x) = <<Run(Packed(x), 15, 0, 0)>> \o <<>>
    BY <2>1 DEF Stored
  <2>3. Stored(x)[1] = Run(Packed(x), 15, 0, 0) /\ Len(Stored(x)) = 1
    BY <2>2
  <2>4. Fetched(Stored(x), width) =
            [used |-> 1, instr |-> Canonical(x), access |-> MemoryOperand(x)]
    BY <1>2, <2>3, ShortIsFetched
  <2>5. QED
    BY <2>3, <2>4
<1>3. CASE x.op \notin CompressedNames
  <2>1. x.op \notin Compressed /\ x.op \in LongFormats
    BY <1>1, <1>3, CompressedIs
  <2>2. Stored(x) = <<Run(Packed(x), 15, 0, 0)>> \o <<Run(Packed(x), 31, 16, -16)>>
    BY <2>1 DEF Stored
  <2>3. /\ Stored(x)[1] = Run(Packed(x), 15, 0, 0) /\ Stored(x)[2] = Run(Packed(x), 31, 16, -16)
        /\ Len(Stored(x)) = 2
    BY <2>2
  <2>4. Fetched(Stored(x), width) =
            [used |-> 2, instr |-> Canonical(x), access |-> MemoryOperand(x)]
    BY <2>1, <2>3, LongIsFetched
  <2>5. QED
    BY <2>3, <2>4
<1>4. QED
  BY <1>2, <1>3

LEMMA InitFetch == Init => FetchIInv
  BY InitEncoding DEF Init, FetchIInv

LEMMA MadeShaped ==
  ASSUME FetchIInv, EncodingIInv', NEW who, NEW x, Make(who, x), Shaped(x),
         who = "draw" => x.op \in Workload(target)
  PROVE  FetchIInv'
<1>1. /\ stage' = "made" /\ source' = who /\ instr' = x /\ target' = target
  BY DEF Make
<1>2. Shaped(instr')
  BY <1>1
<1>3. source' = "draw" => instr'.op \in Workload(target')
  BY <1>1
<1>4. QED
  BY <1>1, <1>2, <1>3 DEF FetchIInv

LEMMA DrawFetch == FetchIInv /\ Draw => FetchIInv'
<1> SUFFICES ASSUME FetchIInv, Draw
             PROVE  FetchIInv'
  OBVIOUS
<1>1. EncodingIInv'
  BY DrawKeeps DEF FetchIInv
<1>2. PICK op \in Workload(target) :
          \E x \in With(op, SampledRegisters(op), SampledImmediates(op, target)) :
              Make("draw", x)
  BY DEF Draw
<1>3. PICK x \in With(op, SampledRegisters(op), SampledImmediates(op, target)) :
          Make("draw", x)
  BY <1>2
<1>4. target.xlen \in {32, 64} /\ op \in Opcodes
  BY DEF FetchIInv, EncodingIInv, Workload
<1>5. SampledRegisters(op) \subseteq 0 .. 31
  <2>1. SampledRegisters(op) \subseteq 3 .. 31
    BY SampledRegistersFit
  <2>2. QED
    BY <2>1
<1>6. Shaped(x)
  BY <1>4, <1>5, DrawnTyped, WithIsShaped
<1>7. x.op = op
  BY <1>4, WithIs
<1>8. QED
  BY <1>1, <1>3, <1>6, <1>7, MadeShaped

LEMMA LoadFetch == FetchIInv /\ Load => FetchIInv'
<1> SUFFICES ASSUME FetchIInv, Load
             PROVE  FetchIInv'
  OBVIOUS
<1>1. EncodingIInv'
  BY LoadKeeps DEF FetchIInv
<1>2. target \in [xlen : {32, 64}, extensions : Extensions] /\ target.xlen \in {32, 64}
  BY DEF FetchIInv, EncodingIInv
<1>3. PICK v \in LoadValues, r \in IntRegisters, second \in {"Addi", "Addiw"} :
          /\ second = "Addiw" => target.xlen = 64
          /\ \/ Make("load", Instr("Lui", r, 0, 0, Upper(v)))
             \/ Make("load", Instr(second, r, r, 0, Lower(v)))
  BY <1>2 DEF Load
<1>4. v \in Int /\ r \in 0 .. 31
  <2>1. LoadValues \subseteq Int /\ IntRegisters \subseteq 3 .. 31
    BY EncodingAssumption
  <2>2. QED
    BY <2>1
<1>5. second \in OwnNames /\ "Lui" \in OwnNames /\ second \notin {"Lui", "Jal"}
  BY DEF OwnNames
<1>6. second \in Opcodes /\ "Lui" \in Opcodes
  BY <1>2, <1>3, <1>5, OwnSupported
<1>7. Upper(v) \in Int /\ Lower(v) \in Int
  BY <1>4, UpperPart, LowerPart
<1>8. CASE Make("load", Instr("Lui", r, 0, 0, Upper(v)))
  <2>1. Shaped(Instr("Lui", r, 0, 0, Upper(v)))
    BY <1>4, <1>5, <1>6, <1>7, OwnIsShaped
  <2>2. QED
    BY <1>1, <1>8, <2>1, MadeShaped
<1>9. CASE Make("load", Instr(second, r, r, 0, Lower(v)))
  <2>1. Shaped(Instr(second, r, r, 0, Lower(v)))
    BY <1>4, <1>5, <1>6, <1>7, OwnIsShaped
  <2>2. QED
    BY <1>1, <1>9, <2>1, MadeShaped
<1>10. QED
  BY <1>3, <1>8, <1>9

LEMMA LinkFetch == FetchIInv /\ Link => FetchIInv'
<1> SUFFICES ASSUME FetchIInv, Link
             PROVE  FetchIInv'
  OBVIOUS
<1>1. EncodingIInv'
  BY LinkKeeps DEF FetchIInv
<1>2. PICK d \in LinkOffsets : Make("link", Instr("Jal", 0, 0, 0, d))
  BY DEF Link
<1>3. d \in Int
  BY EncodingAssumption
<1>4. "Jal" \in OwnNames
  BY DEF OwnNames
<1>5. "Jal" \in Opcodes
  BY <1>4, OwnSupported DEF FetchIInv, EncodingIInv
<1>6. Shaped(Instr("Jal", 0, 0, 0, d))
  BY <1>3, <1>4, <1>5, OwnIsShaped
<1>7. QED
  BY <1>1, <1>2, <1>6, MadeShaped

LEMMA ConstructFetch == FetchIInv /\ Construct => FetchIInv'
<1> SUFFICES ASSUME FetchIInv, Construct
             PROVE  FetchIInv'
  OBVIOUS
<1>1. EncodingIInv'
  BY ConstructKeeps DEF FetchIInv
<1>2. PICK op \in Opcodes : \E x \in With(op, GivenRegisters, GivenFor(op)) :
          Make("given", x)
  BY DEF Construct
<1>3. PICK x \in With(op, GivenRegisters, GivenFor(op)) : Make("given", x)
  BY <1>2
<1>4. GivenRegisters \subseteq 0 .. 31
  BY EncodingAssumption
<1>5. \A imm \in GivenFor(op) : Typed(op, imm)
  BY GivenTyped
<1>6. Shaped(x)
  BY <1>4, <1>5, WithIsShaped
<1>7. QED
  BY <1>1, <1>3, <1>6, MadeShaped

LEMMA EmitFetch == FetchIInv /\ Emit => FetchIInv'
<1> SUFFICES ASSUME FetchIInv, Emit
             PROVE  FetchIInv'
  OBVIOUS
<1> DEFINE accepted == Supports(target, instr.op) /\ Valid(instr, target.xlen)
           ps == Stored(instr)
<1>1. EncodingIInv'
  BY EmitKeeps DEF FetchIInv
<1>2. stage = "made" /\ UNCHANGED <<target, source, instr>>
  BY DEF Emit
<1>3. \/ stage' \in {"refused", "overflow"}
      \/ stage' = "stored" /\ accepted /\ parcels' = ps
  BY DEF Emit, Stored
<1>4. stage' = "stored" => /\ Supports(target', instr'.op) /\ Valid(instr', target'.xlen)
                           /\ parcels' = Stored(instr')
  BY <1>2, <1>3
<1>5. Shaped(instr') /\ (source' = "draw" => instr'.op \in Workload(target'))
  BY <1>2 DEF FetchIInv
<1>6. stage' \in {"refused", "overflow", "stored"}
  BY <1>3
<1>7. QED
  BY <1>1, <1>4, <1>5, <1>6 DEF FetchIInv

LEMMA FetchFetch == FetchIInv /\ Fetch => FetchIInv'
<1> SUFFICES ASSUME FetchIInv, Fetch
             PROVE  FetchIInv'
  OBVIOUS
<1>1. EncodingIInv'
  BY FetchKeeps DEF FetchIInv
<1>2. /\ stage = "stored" /\ stage' = "fetched"
      /\ seen' = Fetched(parcels, target.xlen)
      /\ UNCHANGED <<target, source, instr, parcels>>
  BY DEF Fetch
<1>3. /\ Shaped(instr) /\ Supports(target, instr.op) /\ Valid(instr, target.xlen)
      /\ parcels = Stored(instr)
      /\ source = "draw" => instr.op \in Workload(target)
  BY <1>2 DEF FetchIInv
<1>4. target.xlen \in {32, 64} /\ SupportsXlen(instr.op, target.xlen)
  BY <1>3 DEF FetchIInv, EncodingIInv, Supports
<1>5. Fetched(parcels, target.xlen) =
          [used |-> Len(parcels), instr |-> Canonical(instr),
           access |-> MemoryOperand(instr)]
  BY <1>3, <1>4, StoredIsFetched
<1>6. seen' = [used |-> Len(parcels'), instr |-> Canonical(instr'),
               access |-> MemoryOperand(instr')]
  BY <1>2, <1>5
<1>7. /\ Shaped(instr') /\ Supports(target', instr'.op) /\ Valid(instr', target'.xlen)
      /\ parcels' = Stored(instr')
      /\ source' = "draw" => instr'.op \in Workload(target')
  BY <1>2, <1>3
<1>8. QED
  BY <1>1, <1>2, <1>6, <1>7 DEF FetchIInv

LEMMA NextFetch == FetchIInv /\ [Next]_vars => FetchIInv'
<1> SUFFICES ASSUME FetchIInv, [Next]_vars
             PROVE  FetchIInv'
  OBVIOUS
<1>1. CASE UNCHANGED vars
  <2>1. EncodingIInv'
    BY <1>1, NextEncoding DEF FetchIInv
  <2>2. /\ stage' = stage /\ source' = source /\ instr' = instr /\ target' = target
        /\ parcels' = parcels /\ seen' = seen
    BY <1>1 DEF vars
  <2>3. QED
    BY <2>1, <2>2 DEF FetchIInv
<1>2. QED
  BY <1>1, DrawFetch, LoadFetch, LinkFetch, ConstructFetch, EmitFetch, FetchFetch DEF Next

\* Whatever instruction is emitted, with whatever operands the checks let pass,
\* a hart that fetches the two or four bytes decodes this instruction and takes
\* the next one where it ends: every entry of the catalog, every packer and
\* every scattered immediate, for every operand (encoding.rs, operand.rs and
\* encode_inner against the decoder of the instruction set).
THEOREM EncodingIsRight == Spec => []FetchedAsMeant
<1>1. FetchIInv => FetchedAsMeant
  BY DEF FetchIInv, FetchedAsMeant
<1>2. QED
  BY InitFetch, NextFetch, <1>1, PTL DEF Spec

\* The base, offset and width memory_operand reads off an instruction, from
\* whose opcode it takes the width, are those of the access the hart makes.
THEOREM AccessIsRight == Spec => []AccessIsTheHarts
<1>1. FetchIInv => AccessIsTheHarts
  BY DEF FetchIInv, AccessIsTheHarts
<1>2. QED
  BY InitFetch, NextFetch, <1>1, PTL DEF Spec

LEMMA DrawnAreTracked ==
  ASSUME FetchIInv
  PROVE  DestinationsAreTracked
<1> SUFFICES ASSUME source = "draw", stage = "fetched", instr.op \notin Compressed
             PROVE  WrittenXreg(instr) =
                        IF "rd" \in RegisterFields[instr.op] \ OtherFields[instr.op]
                        THEN seen.instr.rd ELSE 0
  BY DEF DestinationsAreTracked
<1>1. /\ Shaped(instr) /\ instr.op \in Workload(target) /\ target.xlen \in {32, 64}
      /\ Supports(target, instr.op) /\ Valid(instr, target.xlen)
      /\ seen.instr = Canonical(instr)
  BY DEF FetchIInv, EncodingIInv
<1>2. instr.op \in LongFormats /\ instr.op \notin Jumps /\ instr.op \in Opcodes
  <2>1. instr.op \in Opcodes /\ instr.op \notin Jumps
    BY <1>1 DEF Workload, Jumps, Names
  <2>2. instr.op \notin CompressedNames
    BY CompressedIs
  <2>3. QED
    BY <2>1, <2>2, OpcodesAre
<1>3. Tracked(instr)
  BY <1>1, <1>2, LongUnderstood DEF Supports
<1>4. Valid(instr, 64)
  BY <1>1, <1>2, ValidWide
<1>5. WrittenXreg(instr) = IF WritesXreg(Packed(instr)) THEN Rd(Packed(instr)) ELSE 0
  BY <1>4, Zenon DEF WrittenXreg, Rd
<1>6. seen.instr.rd = instr.rd
  <2>1. instr = [op |-> instr.op, rd |-> instr.rd, rs1 |-> instr.rs1, rs2 |-> instr.rs2,
                 rs3 |-> instr.rs3, imm |-> instr.imm]
    BY <1>1 DEF Shaped
  <2>2. QED
    BY <1>1, <2>1 DEF Canonical
<1>7. QED
  BY <1>3, <1>5, <1>6 DEF Tracked

\* The register written_xreg reads off the word of a drawn instruction of four
\* bytes, from its opcode, funct3 and funct7, is the one the instruction writes,
\* whatever its operands; it is none when the destination is a floating-point
\* register or there is none.
THEOREM DestinationsAreRight == Spec => []DestinationsAreTracked
  BY InitFetch, NextFetch, DrawnAreTracked, PTL DEF Spec
================================================================================
