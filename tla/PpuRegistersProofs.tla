------------------------- MODULE PpuRegistersProofs -------------------------
(***************************************************************************)
(* Proofs about PpuRegisters, the history of PpuRegistersPort and          *)
(* PpuBackground.  Of the registers: what is derived from control          *)
(* register 1, the pairs that set the pointer, and that the decoding of    *)
(* vram.c, with its tables and mirrors, is the memory map, so that the     *)
(* registers implement the pointer over it.  Of the background, for every  *)
(* size of the picture and of its tables that fits the scroll's byte:      *)
(* where a scrolled place is found, and that the tile kept from dot to dot *)
(* is the one of the place.                                                *)
(***************************************************************************)
EXTENDS PpuBackground, PpuRegistersPort, Numbers, TLAPS

-----------------------------------------------------------------------------
(* What is derived from control register 1. *)

LEMMA InitDerived == Init => DerivedFromCtrl1
<1> SUFFICES ASSUME Init PROVE DerivedFromCtrl1
  OBVIOUS
<1>1. /\ ctrl_reg1.bg_ptn_addr_sel = 0 /\ ctrl_reg1.sprite_ptn_sel = 0
      /\ ctrl_reg1.addr_inc_size = 0 /\ ctrl_reg1.name_tbl_sel = 0
  BY DEF Init
<1>2. /\ bg_pattern_bank = 0 /\ spr_pattern_bank = 0 /\ vram_addr_inc = 1
      /\ bg_name_tbl_base = NAME0_START /\ bg_attr_tbl_bank = 0
  BY DEF Init
<1>3. NAME0_START \in Nat /\ TBL_SIZE \in Nat
  BY VramAssumption DEF NAME0_START, TBL_SIZE
<1>4. NameTblBase(0) = NAME0_START
  BY <1>3 DEF NameTblBase
<1> QED
  BY <1>1, <1>2, <1>4 DEF DerivedFromCtrl1, Inc

LEMMA NextDerived == DerivedFromCtrl1 /\ [Next]_vars => DerivedFromCtrl1'
<1> SUFFICES ASSUME DerivedFromCtrl1, [Next]_vars PROVE DerivedFromCtrl1'
  OBVIOUS
<1>1. ASSUME NEW data \in Ctrl1, Ctrl1Set(data) PROVE DerivedFromCtrl1'
  BY <1>1 DEF Ctrl1Set, DerivedFromCtrl1
<1>2. ASSUME UNCHANGED <<ctrl_reg1, derived>> PROVE DerivedFromCtrl1'
  BY <1>2 DEF derived, DerivedFromCtrl1
<1>3. ASSUME \/ StatusGet \/ PpuVramDataGet
             \/ \E half \in Half : VramAddrSet(half)
             \/ \E data \in Data : PpuVramDataSet(data)
             \/ \E data \in Data : ScrollSet(data) \/ SpriteAddrSet(data) \/ SpriteDataSet(data)
             \/ UNCHANGED vars
      PROVE  UNCHANGED <<ctrl_reg1, derived>>
  BY <1>3 DEF StatusGet, PpuVramDataGet, VramAddrSet, PpuVramDataSet, ScrollSet, SpriteAddrSet,
              SpriteDataSet, vars
<1> QED
  BY <1>1, <1>2, <1>3 DEF Next

\* The banks, the base address and the increment that ppu_ctrl1_set updates bit by bit are
\* those of the register, for every sequence of accesses and all sizes.
THEOREM CacheIsCurrent == Spec => []DerivedFromCtrl1
<1> QED
  BY InitDerived, NextDerived, PTL DEF Spec

-----------------------------------------------------------------------------
(* Two digits to the base of a byte. *)

LEMMA AddressSize == ADDR_SIZE \in Nat /\ ADDR_SIZE > 0
  BY RegistersAssumption DEF ADDR_SIZE

LEMMA HighHalf ==
  ASSUME NEW h \in 0 .. BYTE - 1, NEW l \in 0 .. BYTE - 1
  PROVE  /\ h * BYTE + l \in 0 .. ADDR_SIZE - 1
         /\ (h * BYTE + l) \div BYTE = h
<1>1. BYTE \in Nat /\ BYTE > 0
  BY RegistersAssumption
<1>2. h * BYTE + l \in 0 .. BYTE * BYTE - 1
  BY <1>1
<1>3. (h * BYTE + l) \div BYTE = h
  BY <1>1
<1> QED
  BY <1>2, <1>3 DEF ADDR_SIZE

LEMMA Halves ==
  ASSUME NEW s \in 0 .. ADDR_SIZE - 1
  PROVE  s \div BYTE \in 0 .. BYTE - 1 /\ s % BYTE \in 0 .. BYTE - 1
<1>1. BYTE \in Nat /\ BYTE > 0
  BY RegistersAssumption
<1>2. s \in 0 .. BYTE * BYTE - 1
  BY DEF ADDR_SIZE
<1> QED
  BY <1>1, <1>2

-----------------------------------------------------------------------------
(* The address and the program's view of it. *)

AddressType == vram_addr_reg \in [s : 0 .. ADDR_SIZE - 1, cnt : 0 .. 1]

\* What has been written of a pair, and where its first half is.
HalvesInv ==
    /\ halves = <<>> \/ halves = <<NONE>> \/ \E h \in Half : halves = <<h>>
    /\ halves = <<>> <=> vram_addr_reg.cnt = 0
    /\ \A h \in Half : halves = <<h>> => vram_addr_reg.s \div BYTE = h

PairInv == AddressType /\ HalvesInv /\ PairSetsAddress /\ DerivedFromCtrl1

LEMMA HistoryRefines == HistoryNext => Next
  BY DEF HistoryNext, HistoryAddr, HistoryStatus, HistoryMove, HistoryOther, Next

LEMMA InitPair == HistoryInit => PairInv
<1> SUFFICES ASSUME HistoryInit PROVE PairInv
  OBVIOUS
<1>1. DerivedFromCtrl1
  BY InitDerived DEF HistoryInit
<1>2. vram_addr_reg = [s |-> 0, cnt |-> 0] /\ halves = <<>> /\ expected = NONE
  BY DEF HistoryInit, Init
<1>3. AddressType
  BY <1>2, AddressSize DEF AddressType
<1>4. HalvesInv
  BY <1>2 DEF HalvesInv
<1> QED
  BY <1>1, <1>2, <1>3, <1>4 DEF PairInv, PairSetsAddress

\* A write of half an address.
LEMMA AddrKeepsPair ==
  ASSUME PairInv, NEW half \in Half, HistoryAddr(half)
  PROVE  AddressType' /\ HalvesInv' /\ PairSetsAddress'
<1>0. half \in 0 .. BYTE - 1 /\ Half \subseteq 0 .. BYTE - 1
  BY RegistersAssumption
<1>a. NONE \notin Half
  BY <1>0, RegistersAssumption DEF NONE, ADDR_SIZE
<1>1. vram_addr_reg.s \in 0 .. ADDR_SIZE - 1 /\ vram_addr_reg.cnt \in {0, 1}
  BY DEF PairInv, AddressType
<1>2. CASE vram_addr_reg.cnt = 0
  <2>1. halves = <<>>
    BY <1>2 DEF PairInv, HalvesInv
  <2>2. /\ vram_addr_reg' = [s |-> half * BYTE + (vram_addr_reg.s % BYTE), cnt |-> 1]
        /\ halves' = <<half>> /\ expected' = NONE
    BY <1>2, <2>1 DEF HistoryAddr, VramAddrSet
  <2>3. vram_addr_reg.s % BYTE \in 0 .. BYTE - 1
    BY <1>1, Halves
  <2>4. /\ half * BYTE + (vram_addr_reg.s % BYTE) \in 0 .. ADDR_SIZE - 1
        /\ (half * BYTE + (vram_addr_reg.s % BYTE)) \div BYTE = half
    BY <1>0, <2>3, HighHalf
  <2>5. AddressType'
    BY <2>2, <2>4 DEF AddressType
  <2>6. HalvesInv'
    BY <2>2, <2>4 DEF HalvesInv
  <2> QED
    BY <2>2, <2>5, <2>6 DEF PairSetsAddress
<1>3. CASE vram_addr_reg.cnt = 1
  <2>1. halves # <<>>
    BY <1>3 DEF PairInv, HalvesInv
  <2>2. /\ vram_addr_reg' = [s |-> (vram_addr_reg.s \div BYTE) * BYTE + half, cnt |-> 0]
        /\ halves' = <<>>
        /\ expected' = IF halves = <<NONE>> THEN NONE ELSE halves[1] * BYTE + half
    BY <1>3, <2>1 DEF HistoryAddr, VramAddrSet
  <2>3. vram_addr_reg.s \div BYTE \in 0 .. BYTE - 1
    BY <1>1, Halves
  <2>4. (vram_addr_reg.s \div BYTE) * BYTE + half \in 0 .. ADDR_SIZE - 1
    BY <1>0, <2>3, HighHalf
  <2>5. AddressType'
    BY <2>2, <2>4 DEF AddressType
  <2>6. HalvesInv'
    BY <2>2 DEF HalvesInv
  <2>7. CASE halves = <<NONE>>
    BY <2>2, <2>5, <2>6, <2>7 DEF PairSetsAddress
  <2>8. CASE halves # <<NONE>>
    <3>1. PICK h \in Half : halves = <<h>>
      BY <2>1, <2>8 DEF PairInv, HalvesInv
    <3>2. vram_addr_reg.s \div BYTE = h /\ halves[1] = h
      BY <3>1 DEF PairInv, HalvesInv
    <3>3. expected' = vram_addr_reg'.s
      BY <2>2, <2>8, <3>2
    <3> QED
      BY <2>5, <2>6, <3>3 DEF PairSetsAddress
  <2> QED
    BY <2>7, <2>8
<1> QED
  BY <1>1, <1>2, <1>3

\* The increment, derived or looked up.
LEMMA AdvanceKeepsType ==
  ASSUME AddressType, DerivedFromCtrl1, Advance
  PROVE  /\ AddressType'
         /\ vram_addr_reg'.cnt = vram_addr_reg.cnt
         /\ vram_addr_reg'.s = (vram_addr_reg.s + Inc(ctrl_reg1.addr_inc_size)) % ADDR_SIZE
<1>1. Inc(ctrl_reg1.addr_inc_size) \in Nat
  BY RegistersAssumption DEF Inc
<1>2. (vram_addr_reg.s + Inc(ctrl_reg1.addr_inc_size)) % ADDR_SIZE \in 0 .. ADDR_SIZE - 1
  BY <1>1, AddressSize DEF AddressType
<1> QED
  BY <1>2 DEF AddressType, DerivedFromCtrl1, Advance

\* An access of VRAM.
LEMMA MoveKeepsPair ==
  ASSUME PairInv, HistoryMove
  PROVE  AddressType' /\ HalvesInv' /\ PairSetsAddress'
<1>1. UNCHANGED vram_addr_reg \/ Advance
  BY DEF HistoryMove, PpuVramDataGet, PpuVramDataSet
<1>2. /\ AddressType' /\ vram_addr_reg'.cnt = vram_addr_reg.cnt
      /\ \/ vram_addr_reg' = vram_addr_reg
         \/ vram_addr_reg'.s = (vram_addr_reg.s + Inc(ctrl_reg1.addr_inc_size)) % ADDR_SIZE
  BY <1>1, AdvanceKeepsType DEF PairInv, AddressType
<1>3. halves' = IF halves = <<>> THEN <<>> ELSE <<NONE>>
  BY DEF HistoryMove
<1>4. NONE \notin Half
  BY RegistersAssumption DEF NONE, ADDR_SIZE
<1>5. HalvesInv'
  BY <1>2, <1>3, <1>4 DEF PairInv, HalvesInv
<1>6. expected' = IF expected = NONE \/ vram_addr_reg' = vram_addr_reg THEN expected
                  ELSE (expected + Inc(ctrl_reg1.addr_inc_size)) % ADDR_SIZE
  BY DEF HistoryMove
<1>7. PairSetsAddress'
  BY <1>2, <1>6 DEF PairInv, PairSetsAddress
<1> QED
  BY <1>2, <1>5, <1>7

LEMMA NextPair == PairInv /\ [HistoryNext]_historyVars => PairInv'
<1> SUFFICES ASSUME PairInv, [HistoryNext]_historyVars PROVE PairInv'
  OBVIOUS
<1>1. DerivedFromCtrl1'
  BY HistoryRefines, NextDerived DEF PairInv, historyVars
<1>2. ASSUME NEW half \in Half, HistoryAddr(half)
      PROVE  AddressType' /\ HalvesInv' /\ PairSetsAddress'
  BY <1>2, AddrKeepsPair
<1>3. CASE HistoryStatus
  <2>1. /\ vram_addr_reg' = [vram_addr_reg EXCEPT !.cnt = 0]
        /\ halves' = <<>> /\ expected' = expected
    BY <1>3 DEF HistoryStatus, StatusGet
  <2>2. vram_addr_reg'.s = vram_addr_reg.s /\ vram_addr_reg'.cnt = 0 /\ AddressType'
    BY <2>1 DEF PairInv, AddressType
  <2>3. HalvesInv'
    BY <2>1, <2>2 DEF HalvesInv
  <2> QED
    BY <1>1, <2>1, <2>2, <2>3 DEF PairInv, PairSetsAddress
<1>4. CASE HistoryMove
  BY <1>1, <1>4, MoveKeepsPair DEF PairInv
<1>5. CASE HistoryOther \/ UNCHANGED historyVars
  <2>1. UNCHANGED <<vram_addr_reg, halves, expected>>
    BY <1>5 DEF HistoryOther, Ctrl1Set, ScrollSet, SpriteAddrSet, SpriteDataSet, historyVars,
                vars, port
  <2> QED
    BY <1>1, <2>1 DEF PairInv, AddressType, HalvesInv, PairSetsAddress
<1> QED
  BY <1>1, <1>2, <1>3, <1>4, <1>5 DEF HistoryNext, PairInv

\* Two writes that follow a read of the status or another pair set the pointer, and every
\* access advances it from there, for any size of a byte and any increment.
THEOREM PairsSetThePointer == HistorySpec => []PairSetsAddress
<1>1. PairInv => PairSetsAddress
  BY DEF PairInv
<1> QED
  BY <1>1, InitPair, NextPair, PTL DEF HistorySpec

-----------------------------------------------------------------------------
(* The areas. *)

Addr == 0 .. VRAM_SIZE - 1

LEMMA Areas ==
  /\ TBL_SIZE \in Nat /\ TBL_SIZE > 0
  /\ NAME_TBL_SIZE \in 1 .. TBL_SIZE - 1 /\ ATTR_TBL_SIZE = TBL_SIZE - NAME_TBL_SIZE
  /\ PATTERN_TBL_SIZE = 4 * TBL_SIZE /\ NAME0_START = 8 * TBL_SIZE
  /\ MIRROR_START = 12 * TBL_SIZE /\ VRAM_SIZE = 16 * TBL_SIZE
  /\ PALETTE_TBL_SIZE \in Nat /\ PALETTE_TBL_SIZE > 0
  /\ PALETTE_START \in 12 * TBL_SIZE .. 16 * TBL_SIZE - 2 * PALETTE_TBL_SIZE
  /\ BACKDROP_STEP \in Nat /\ BACKDROP_STEP > 0
<1>1. /\ NAME_TBL_SIZE \in Nat /\ NAME_TBL_SIZE > 0 /\ ATTR_TBL_SIZE \in Nat /\ ATTR_TBL_SIZE > 0
      /\ PATTERN_TBL_SIZE = 4 * TBL_SIZE
      /\ PALETTE_TBL_SIZE \in Nat /\ PALETTE_TBL_SIZE > 0
      /\ BACKDROP_STEP \in Nat /\ BACKDROP_STEP > 0
      /\ PALETTE_START \in MIRROR_START .. VRAM_SIZE - 2 * PALETTE_TBL_SIZE
  BY VramAssumption
<1>2. TBL_SIZE = NAME_TBL_SIZE + ATTR_TBL_SIZE
  BY DEF TBL_SIZE
<1>3. /\ NAME0_START = 8 * TBL_SIZE /\ MIRROR_START = 12 * TBL_SIZE /\ VRAM_SIZE = 16 * TBL_SIZE
  BY <1>1, <1>2 DEF NAME0_START, MIRROR_START, VRAM_SIZE
<1> QED
  BY <1>1, <1>2, <1>3

LEMMA Aligned ==
  /\ PALETTE_START \in Nat
  /\ PALETTE_START % (2 * PALETTE_TBL_SIZE) = 0
  /\ PALETTE_START % PALETTE_TBL_SIZE = 0
  /\ PALETTE_START % BACKDROP_STEP = 0
  /\ (PALETTE_START + PALETTE_TBL_SIZE) % PALETTE_TBL_SIZE = 0
  /\ (PALETTE_START + PALETTE_TBL_SIZE) % BACKDROP_STEP = 0
<1>1. /\ PALETTE_START \in Nat
      /\ PALETTE_TBL_SIZE \in Nat /\ PALETTE_TBL_SIZE > 0
      /\ BACKDROP_STEP \in Nat /\ BACKDROP_STEP > 0
  BY Areas
<1>2. PALETTE_START % (2 * PALETTE_TBL_SIZE) = 0 /\ PALETTE_TBL_SIZE % BACKDROP_STEP = 0
  BY VramAssumption
<1>3. PICK k \in Nat : PALETTE_START = k * (2 * PALETTE_TBL_SIZE)
  <2>1. 2 * PALETTE_TBL_SIZE \in Nat /\ 2 * PALETTE_TBL_SIZE > 0
    BY <1>1
  <2> QED
    BY <1>1, <1>2, <2>1, Division
<1>4. PICK j \in Nat : PALETTE_TBL_SIZE = j * BACKDROP_STEP
  BY <1>1, <1>2, Division
<1>5. /\ PALETTE_START = (2 * k) * PALETTE_TBL_SIZE
      /\ PALETTE_START + PALETTE_TBL_SIZE = (2 * k + 1) * PALETTE_TBL_SIZE
  BY <1>1, <1>3
<1>6. /\ PALETTE_START = (2 * k * j) * BACKDROP_STEP
      /\ PALETTE_START + PALETTE_TBL_SIZE = (2 * k * j + j) * BACKDROP_STEP
      /\ 2 * k * j \in Nat /\ 2 * k * j + j \in Nat
  <2>1. PALETTE_START = (2 * k) * (j * BACKDROP_STEP)
    BY <1>4, <1>5
  <2>2. (2 * k) * (j * BACKDROP_STEP) = (2 * k * j) * BACKDROP_STEP
    BY <1>1
  <2>3. (2 * k * j + j) * BACKDROP_STEP = (2 * k * j) * BACKDROP_STEP + j * BACKDROP_STEP
    BY <1>1
  <2> QED
    BY <1>1, <1>4, <2>1, <2>2, <2>3
<1>7. PALETTE_START % PALETTE_TBL_SIZE = 0 /\ PALETTE_START % BACKDROP_STEP = 0
  <2>1. 2 * k \in Nat
    BY <1>3
  <2>2. PALETTE_START % PALETTE_TBL_SIZE = 0
    BY <1>1, <1>5, <2>1, Multiple
  <2>3. PALETTE_START % BACKDROP_STEP = 0
    BY <1>1, <1>6, Multiple
  <2> QED
    BY <2>2, <2>3
<1>8. /\ (PALETTE_START + PALETTE_TBL_SIZE) % PALETTE_TBL_SIZE = 0
      /\ (PALETTE_START + PALETTE_TBL_SIZE) % BACKDROP_STEP = 0
  <2> DEFINE n == PALETTE_START + PALETTE_TBL_SIZE
  <2>1. n \in Nat /\ n = (2 * k + 1) * PALETTE_TBL_SIZE /\ 2 * k + 1 \in Nat
    BY <1>1, <1>5
  <2>2. n = (2 * k * j + j) * BACKDROP_STEP
    BY <1>6
  <2> HIDE DEF n
  <2>3. n % PALETTE_TBL_SIZE = 0
    BY <1>1, <2>1, Multiple
  <2>4. n % BACKDROP_STEP = 0
    BY <1>1, <1>6, <2>1, <2>2, Multiple
  <2> QED
    BY <2>3, <2>4 DEF n
<1> QED
  BY <1>1, <1>2, <1>7, <1>8

\* An address of the tables by bank and place, and the mirror below it.
LEMMA TableMirror ==
  ASSUME NEW a \in Addr, InTables(a)
  PROVE  /\ Port!Canonical(a) = NAME0_START + TableBank(a) * TBL_SIZE + TableIndex(a)
         /\ TableBank(a) \in 0 .. 1 /\ TableIndex(a) \in 0 .. TBL_SIZE - 1
         /\ TableIndex(a) \in Nat
<1> DEFINE T == TBL_SIZE
           o == TableOffset(a)
<1>1. /\ T \in Nat /\ T > 0 /\ NAME0_START = 8 * T /\ PATTERN_TBL_SIZE = 4 * T
      /\ MIRROR_START = 12 * T /\ VRAM_SIZE = 16 * T /\ a \in 0 .. 16 * T - 1
      /\ a >= 8 * T /\ a < PALETTE_START
  BY Areas DEF Addr, InTables, InPattern
<1>2. a % (16 * T) = a
  <2>1. 16 * T \in Nat /\ 16 * T > 0 /\ a = 0 * (16 * T) + a /\ a \in 0 .. 16 * T - 1
    BY <1>1
  <2> QED
    BY <2>1, Digits
<1>3. Port!Canonical(a) = Port!Backdrop(Port!Shared(8 * T + ((a - 8 * T) % (4 * T))))
  BY <1>1, <1>2 DEF Port!Canonical, Port!Low, Port!InMap
<1>4. o \in 0 .. 4 * T - 1 /\ (a - 8 * T = o \/ a - 8 * T = 4 * T + o)
  BY <1>1 DEF TableOffset
<1>5. Port!Canonical(a) = 8 * T + (o % (2 * T))
  <2>1. 4 * T \in Nat /\ 4 * T > 0 /\ 2 * T \in Nat /\ 2 * T > 0 /\ 12 * T <= PALETTE_START
        /\ PALETTE_START \in Nat
    BY <1>1, Areas
  <2> HIDE DEF o, T
  <2>2. (a - 8 * T) % (4 * T) = o
    <3>1. (0 * (4 * T) + o) % (4 * T) = o /\ (1 * (4 * T) + o) % (4 * T) = o
      BY <1>4, <2>1, Digits
    <3>2. 0 * (4 * T) + o = o /\ 1 * (4 * T) + o = 4 * T + o
      BY <1>4, <2>1
    <3> QED
      BY <1>4, <3>1, <3>2
  <2>3. o % (2 * T) = IF o >= 2 * T THEN o - 2 * T ELSE o
    <3>1. CASE o >= 2 * T
      <4>1. o - 2 * T \in 0 .. 2 * T - 1 /\ o = 1 * (2 * T) + (o - 2 * T)
        BY <1>1, <1>4, <3>1
      <4>2. (1 * (2 * T) + (o - 2 * T)) % (2 * T) = o - 2 * T
        BY <2>1, <4>1, Digits
      <4> QED
        BY <3>1, <4>1, <4>2
    <3>2. CASE ~(o >= 2 * T)
      <4>1. o \in 0 .. 2 * T - 1 /\ o = 0 * (2 * T) + o
        BY <1>1, <1>4, <3>2
      <4>2. (0 * (2 * T) + o) % (2 * T) = o
        BY <2>1, <4>1, Digits
      <4> QED
        BY <3>2, <4>1, <4>2
    <3> QED
      BY <3>1, <3>2
  <2>4. Port!Shared(8 * T + o) = IF o >= 2 * T THEN 8 * T + o - 2 * T ELSE 8 * T + o
    BY <1>1, <1>4, <2>1 DEF Port!Shared, T
  <2>5. Port!Shared(8 * T + o) = 8 * T + (o % (2 * T)) /\ Port!Shared(8 * T + o) < PALETTE_START
        /\ Port!Shared(8 * T + o) \in Nat
    BY <1>1, <1>4, <2>1, <2>3, <2>4
  <2>6. PALETTE_TBL_SIZE \in Nat
    BY Areas
  <2> DEFINE e == Port!Shared(8 * T + o)
  <2> HIDE DEF e
  <2>7. e \in Nat /\ e < PALETTE_START /\ e = 8 * T + (o % (2 * T))
    BY <2>5 DEF e
  <2>8. Port!Backdrop(e) = e
    BY <2>1, <2>6, <2>7 DEF Port!Backdrop
  <2> QED
    BY <1>3, <2>2, <2>7, <2>8 DEF e
<1> HIDE DEF o, T
<1>6. /\ o % (2 * T) = ((o \div T) % 2) * T + (o % T)
      /\ o % T \in 0 .. T - 1 /\ (o \div T) % 2 \in 0 .. 1
  <2>0. o \in Nat
    BY <1>1, <1>4
  <2>1. o % (2 * T) = ((o \div T) % 2) * T + (o % T)
    BY <1>1, <2>0, DoubleDigits
  <2>2. o % T \in 0 .. T - 1 /\ o \div T \in Nat
    BY <1>1, <2>0, Division
  <2> QED
    BY <2>1, <2>2
<1> QED
  BY <1>1, <1>5, <1>6 DEF TableBank, TableIndex, o, T

\* The cells of the tables are their own mirrors.
LEMMA TableCell ==
  ASSUME NEW b \in NAME0_START .. NAME0_START + 2 * TBL_SIZE - 1
  PROVE  /\ b \in Addr /\ InTables(b)
         /\ b = NAME0_START + TableBank(b) * TBL_SIZE + TableIndex(b)
<1>1. b \in Addr /\ InTables(b) /\ TableOffset(b) = b - NAME0_START
  BY Areas DEF Addr, InTables, InPattern, TableOffset
<1> DEFINE o == TableOffset(b)
           T == TBL_SIZE
<1>2. T \in Nat /\ T > 0 /\ o \in 0 .. 2 * T - 1 /\ b = NAME0_START + o /\ NAME0_START \in Nat
  BY <1>1, Areas
<1>3. TableBank(b) = (o \div T) % 2 /\ TableIndex(b) = o % T
  BY DEF TableBank, TableIndex
<1> HIDE DEF o, T
<1>4. o % (2 * T) = o
  <2>1. 2 * T \in Nat /\ 2 * T > 0 /\ o = 0 * (2 * T) + o
    BY <1>2
  <2> QED
    BY <1>2, <2>1, Digits
<1>5. o = ((o \div T) % 2) * T + (o % T)
  <2>1. o \in Nat
    BY <1>2
  <2>2. o % (2 * T) = ((o \div T) % 2) * T + (o % T)
    BY <1>2, <2>1, DoubleDigits
  <2> QED
    BY <1>4, <2>2
<1> QED
  BY <1>1, <1>2, <1>3, <1>5 DEF T

\* A colour's address by palette and place, and its mirror; the sprites' backdrops
\* are the background's.
LEMMA PaletteMirror ==
  ASSUME NEW a \in Addr, InPalette(a)
  PROVE  /\ Port!Canonical(a) =
              PALETTE_START + PaletteIndex(a)
              + (IF SpriteColour(a) /\ ~IsBackdrop(PaletteIndex(a)) THEN PALETTE_TBL_SIZE ELSE 0)
         /\ PaletteIndex(a) \in 0 .. PALETTE_TBL_SIZE - 1
<1> DEFINE Q == PALETTE_TBL_SIZE
           i == a % Q
           s == (a \div Q) % 2
           n == PALETTE_START + s * Q
           p == PALETTE_START + (a % (2 * Q))
<1>1. /\ Q \in Nat /\ Q > 0 /\ a \in Nat /\ PALETTE_START \in Nat
      /\ ~(a < NAME0_START) /\ ~(a < PALETTE_START) /\ a < VRAM_SIZE
      /\ BACKDROP_STEP \in Nat /\ BACKDROP_STEP > 0
  <2>1. a \in 0 .. 16 * TBL_SIZE - 1 /\ TBL_SIZE \in Nat
    BY Areas DEF Addr
  <2>2. ~(a < NAME0_START)
    BY Areas DEF InPalette, InPattern
  <2>3. a >= PALETTE_START
    BY DEF InPalette
  <2> QED
    BY <2>1, <2>2, <2>3, Areas
<1>2. a % VRAM_SIZE = a
  <2>1. VRAM_SIZE \in Nat /\ VRAM_SIZE > 0 /\ a = 0 * VRAM_SIZE + a /\ a \in 0 .. VRAM_SIZE - 1
    BY <1>1, Areas
  <2> QED
    BY <2>1, Digits
<1>3. i \in 0 .. Q - 1 /\ s \in {0, 1} /\ a % (2 * Q) = s * Q + i
  <2>1. a % (2 * Q) = s * Q + i
    BY <1>1, DoubleDigits
  <2>2. a \div Q \in Nat /\ i \in 0 .. Q - 1
    BY <1>1, Division
  <2> QED
    BY <2>1, <2>2
<1>4. /\ i \in 0 .. Q - 1 /\ s \in {0, 1}
      /\ Port!Canonical(a) = IF p >= PALETTE_START + Q /\ p % BACKDROP_STEP = 0 THEN p - Q ELSE p
  <2>1. Port!Canonical(a) = Port!Backdrop(Port!Shared(p))
    BY <1>1, <1>2 DEF Port!Canonical, Port!Low, Port!InMap
  <2>2. p \in Nat /\ p >= PALETTE_START
    <3>1. a % (2 * Q) \in Nat
      BY <1>1, <1>3
    <3> QED
      BY <1>1, <3>1
  <2> HIDE DEF p
  <2>3. Port!Shared(p) = p
    BY <1>1, <2>2 DEF Port!Shared
  <2> QED
    BY <1>3, <2>1, <2>3 DEF Port!Backdrop
<1>5. PaletteIndex(a) = i /\ (SpriteColour(a) <=> s = 1)
  BY DEF PaletteIndex, SpriteColour
<1>6. n \in Nat /\ n % BACKDROP_STEP = 0 /\ p = n + i
  <2>1. n = PALETTE_START \/ n = PALETTE_START + Q
    BY <1>1, <1>3
  <2>2. p = n + i
    BY <1>1, <1>3
  <2> QED
    BY <1>1, <2>1, <2>2, Aligned
<1> HIDE DEF n, p, i, s, Q
<1>7. p % BACKDROP_STEP = i % BACKDROP_STEP
  <2>1. i \in Nat
    BY <1>1, <1>4
  <2>2. (n + i) % BACKDROP_STEP = i % BACKDROP_STEP
    BY <1>1, <1>6, <2>1, SameRemainder
  <2> QED
    BY <1>6, <2>2
<1>8. IsBackdrop(i) <=> p % BACKDROP_STEP = 0
  BY <1>7 DEF IsBackdrop
<1>9. p = PALETTE_START + s * Q + i
  BY <1>6 DEF n
<1>10. (p >= PALETTE_START + Q) <=> s = 1
  BY <1>1, <1>4, <1>9
<1>11. Port!Canonical(a) = PALETTE_START + i + (IF s = 1 /\ ~IsBackdrop(i) THEN Q ELSE 0)
  <2>1. CASE s = 0
    BY <1>1, <1>4, <1>8, <1>9, <1>10, <2>1
  <2>2. CASE s = 1
    BY <1>1, <1>4, <1>8, <1>9, <1>10, <2>2
  <2> QED
    BY <1>4, <2>1, <2>2
<1> QED
  BY <1>4, <1>5, <1>11 DEF Q

\* The cells of the palettes are their own mirrors.
LEMMA PaletteCell ==
  ASSUME NEW x \in 0 .. 2 * PALETTE_TBL_SIZE - 1
  PROVE  LET b == PALETTE_START + x
         IN  /\ b \in Addr /\ InPalette(b)
             /\ PaletteIndex(b) = x % PALETTE_TBL_SIZE
             /\ SpriteColour(b) <=> x >= PALETTE_TBL_SIZE
             /\ PaletteIndex(b) = IF x >= PALETTE_TBL_SIZE THEN x - PALETTE_TBL_SIZE ELSE x
<1> DEFINE Q == PALETTE_TBL_SIZE
           b == PALETTE_START + x
<1>1. /\ Q \in Nat /\ Q > 0 /\ x \in Nat /\ x < 2 * Q /\ PALETTE_START \in Nat /\ b \in Nat
  BY Areas
<1>2. b \in Addr /\ InPalette(b)
  BY Areas DEF Addr, InPalette, InPattern, NAME0_START
<1>3. b % Q = x % Q
  BY <1>1, Aligned, SameRemainder
<1>4. b % (2 * Q) = x
  <2>1. 2 * Q \in Nat /\ 2 * Q > 0
    BY <1>1
  <2>2. (PALETTE_START + x) % (2 * Q) = x % (2 * Q)
    BY <1>1, <2>1, Aligned, SameRemainder
  <2>3. x = 0 * (2 * Q) + x /\ x \in 0 .. 2 * Q - 1
    BY <1>1
  <2>4. x % (2 * Q) = x
    BY <2>1, <2>3, Digits
  <2> QED
    BY <2>2, <2>4
<1> HIDE DEF b, Q
<1>5. x \div Q = (b \div Q) % 2
  BY <1>1, <1>4, DoubleDigits
<1>6. x % Q = IF x >= Q THEN x - Q ELSE x
  <2>1. CASE x < Q
    <3>1. x = 0 * Q + x /\ x \in 0 .. Q - 1
      BY <1>1, <2>1
    <3> QED
      BY <1>1, <2>1, <3>1, Digits
  <2>2. CASE x >= Q
    <3>1. x = 1 * Q + (x - Q) /\ x - Q \in 0 .. Q - 1
      BY <1>1, <2>2
    <3>2. (1 * Q + (x - Q)) % Q = x - Q
      BY <1>1, <3>1, Digits
    <3> QED
      BY <2>2, <3>1, <3>2
  <2> QED
    BY <1>1, <2>1, <2>2
<1>7. x \div Q = IF x >= Q THEN 1 ELSE 0
  <2>1. x \div Q \in Nat /\ x = (x \div Q) * Q + (x % Q)
    BY <1>1, Division
  <2>2. CASE x < Q
    <3>1. x = 0 * Q + x /\ x \in 0 .. Q - 1
      BY <1>1, <2>2
    <3> QED
      BY <1>1, <2>2, <3>1, Digits
  <2>3. CASE x >= Q
    <3>1. x = 1 * Q + (x - Q) /\ x - Q \in 0 .. Q - 1
      BY <1>1, <2>3
    <3>2. (1 * Q + (x - Q)) \div Q = 1
      BY <1>1, <3>1, Digits
    <3> QED
      BY <2>3, <3>1, <3>2
  <2> QED
    BY <1>1, <2>2, <2>3
<1>8. PaletteIndex(b) = x % Q /\ (SpriteColour(b) <=> x >= Q)
  BY <1>3, <1>5, <1>7 DEF PaletteIndex, SpriteColour, Q
<1> QED
  BY <1>2, <1>6, <1>8 DEF b, Q

-----------------------------------------------------------------------------
(* An address and the cell it is a mirror of. *)

TableCells == NAME0_START .. NAME0_START + 2 * TBL_SIZE - 1

PaletteCells == PALETTE_START .. PALETTE_START + 2 * PALETTE_TBL_SIZE - 1

LEMMA MirrorInTables ==
  ASSUME NEW a \in Addr, InTables(a), NEW c, c = Port!Canonical(a)
  PROVE  /\ c \in TableCells /\ c \in Cells /\ c \in Addr /\ InTables(c)
         /\ TableBank(c) = TableBank(a) /\ TableIndex(c) = TableIndex(a)
<1>1. /\ c = NAME0_START + TableBank(a) * TBL_SIZE + TableIndex(a)
      /\ TableBank(a) \in {0, 1} /\ TableIndex(a) \in 0 .. TBL_SIZE - 1
  BY TableMirror
<1>2. TBL_SIZE \in Nat /\ TBL_SIZE > 0 /\ NAME0_START \in Nat
  BY Areas
<1>3. c \in TableCells
  BY <1>1, <1>2 DEF TableCells
<1>4. c \in Addr /\ InTables(c) /\ c = NAME0_START + TableBank(c) * TBL_SIZE + TableIndex(c)
  BY <1>3, TableCell DEF TableCells
<1>5. TableBank(c) \in {0, 1} /\ TableIndex(c) \in 0 .. TBL_SIZE - 1
  BY <1>4, TableMirror
<1>6. TableBank(c) = TableBank(a) /\ TableIndex(c) = TableIndex(a)
  BY <1>1, <1>2, <1>4, <1>5
<1> QED
  BY <1>3, <1>4, <1>6 DEF Cells, TableCells

LEMMA MirrorInPalette ==
  ASSUME NEW a \in Addr, InPalette(a), NEW c, c = Port!Canonical(a)
  PROVE  /\ c \in PaletteCells /\ c \in Cells /\ c \in Addr /\ InPalette(c)
         /\ SpriteColour(c) <=> SpriteColour(a) /\ ~IsBackdrop(PaletteIndex(a))
         /\ PaletteIndex(c) = PaletteIndex(a)
<1> DEFINE x == PaletteIndex(a)
                + (IF SpriteColour(a) /\ ~IsBackdrop(PaletteIndex(a)) THEN PALETTE_TBL_SIZE ELSE 0)
<1>1. PALETTE_TBL_SIZE \in Nat /\ PALETTE_START \in Nat /\ PaletteIndex(a) \in 0 .. PALETTE_TBL_SIZE - 1
  BY Areas, PaletteMirror
<1>2. c = PALETTE_START + x /\ x \in 0 .. 2 * PALETTE_TBL_SIZE - 1
  BY <1>1, PaletteMirror
<1>3. x >= PALETTE_TBL_SIZE <=> SpriteColour(a) /\ ~IsBackdrop(PaletteIndex(a))
  BY <1>1
<1>4. (IF x >= PALETTE_TBL_SIZE THEN x - PALETTE_TBL_SIZE ELSE x) = PaletteIndex(a)
  BY <1>1
<1> HIDE DEF x
<1>5. /\ c \in Addr /\ InPalette(c)
      /\ SpriteColour(c) <=> x >= PALETTE_TBL_SIZE
      /\ PaletteIndex(c) = IF x >= PALETTE_TBL_SIZE THEN x - PALETTE_TBL_SIZE ELSE x
  BY <1>2, PaletteCell
<1>6. c \in PaletteCells
  BY <1>1, <1>2 DEF PaletteCells
<1>7. ~SpriteBackdrop(c)
  BY <1>3, <1>4, <1>5 DEF SpriteBackdrop
<1> QED
  BY <1>3, <1>4, <1>5, <1>6, <1>7 DEF Cells, PaletteCells

\* A cell is its own mirror.
LEMMA CellIsCanonical ==
  ASSUME NEW c \in Cells
  PROVE  /\ c \in Addr /\ ~InPattern(c) /\ Port!Canonical(c) = c
         /\ (c \in TableCells /\ InTables(c)) \/ (c \in PaletteCells /\ InPalette(c))
<1>1. CASE c \in TableCells
  <2>1. /\ c \in Addr /\ InTables(c)
        /\ c = NAME0_START + TableBank(c) * TBL_SIZE + TableIndex(c)
    BY <1>1, TableCell DEF TableCells
  <2> QED
    <3>1. Port!Canonical(c) = c
      BY <2>1, TableMirror
    <3>2. ~InPattern(c)
      BY <2>1 DEF InTables
    <3> QED
      BY <1>1, <2>1, <3>1, <3>2
<1>2. CASE c \in PaletteCells /\ ~SpriteBackdrop(c)
  <2> DEFINE x == c - PALETTE_START
             Q == PALETTE_TBL_SIZE
  <2>1. x \in 0 .. 2 * Q - 1 /\ c = PALETTE_START + x /\ PALETTE_START \in Nat
    BY <1>2, Areas DEF PaletteCells
  <2>2. Q \in Nat
    BY Areas
  <2> HIDE DEF x
  <2>3. /\ c \in Addr /\ InPalette(c)
        /\ SpriteColour(c) <=> x >= Q
        /\ PaletteIndex(c) = IF x >= Q THEN x - Q ELSE x
    BY <2>1, PaletteCell
  <2>4. Port!Canonical(c) =
              PALETTE_START + PaletteIndex(c)
              + (IF SpriteColour(c) /\ ~IsBackdrop(PaletteIndex(c)) THEN Q ELSE 0)
    BY <2>3, PaletteMirror
  <2>5. SpriteColour(c) => ~IsBackdrop(PaletteIndex(c))
    BY <1>2, <2>3 DEF SpriteBackdrop
  <2>6. Port!Canonical(c) = c
    BY <2>1, <2>2, <2>3, <2>4, <2>5
  <2> QED
    BY <1>2, <2>3, <2>6 DEF InPalette
<1> QED
  BY <1>1, <1>2 DEF Cells, TableCells, PaletteCells

LEMMA MirrorIsCell ==
  ASSUME NEW a \in Addr, ~InPattern(a)
  PROVE  Port!Canonical(a) \in Cells
<1>1. InTables(a) \/ InPalette(a)
  BY Areas DEF InTables, InPalette, Addr
<1> QED
  BY <1>1, MirrorInTables, MirrorInPalette

LEMMA SameCells == Port!Cell = Cells
<1>1. \A a \in NAME0_START .. VRAM_SIZE - 1 : a \in Addr /\ ~InPattern(a)
  BY Areas DEF Addr, InPattern
<1>2. \A a \in Addr : ~InPattern(a) => a \in NAME0_START .. VRAM_SIZE - 1
  BY Areas DEF Addr, InPattern
<1>3. Port!Cell \subseteq Cells
  BY <1>1, MirrorIsCell DEF Port!Cell
<1>4. Cells \subseteq Port!Cell
  BY <1>2, CellIsCanonical DEF Port!Cell
<1> QED
  BY <1>3, <1>4

-----------------------------------------------------------------------------
(* A load and a store by the cell they reach. *)

LEMMA LowAddress ==
  ASSUME NEW addr \in Nat
  PROVE  /\ addr % VRAM_SIZE \in Addr /\ Port!Low(addr) = addr % VRAM_SIZE
         /\ Port!Canonical(addr) = Port!Canonical(addr % VRAM_SIZE)
<1> DEFINE a == addr % VRAM_SIZE
<1>1. VRAM_SIZE \in Nat /\ VRAM_SIZE > 0
  BY Areas
<1>2. a \in 0 .. VRAM_SIZE - 1
  BY <1>1, Division
<1>3. a % VRAM_SIZE = a
  <2>1. a = 0 * VRAM_SIZE + a
    BY <1>1, <1>2
  <2> QED
    BY <1>1, <1>2, <2>1, Digits
<1> QED
  BY <1>2, <1>3 DEF Addr, Port!Low, Port!Canonical

LEMMA ReadCell ==
  ASSUME NEW addr \in Nat
  PROVE  VramDataGet(addr) = IF Port!Low(addr) < NAME0_START
                               THEN Pattern[Port!Low(addr) \div PATTERN_TBL_SIZE]
                                           [Port!Low(addr) % PATTERN_TBL_SIZE]
                               ELSE CellValue(Port!Canonical(addr))
<1> DEFINE a == addr % VRAM_SIZE
           c == Port!Canonical(a)
<1>1. a \in Addr /\ Port!Low(addr) = a /\ Port!Canonical(addr) = c
  BY LowAddress
<1>2. InPattern(a) <=> a < NAME0_START
  BY DEF InPattern, NAME0_START
<1> HIDE DEF c
<1>3. CASE InPattern(a)
  <2>1. ~InPalette(a) /\ ~InTables(a)
    BY <1>3 DEF InPalette, InTables
  <2> QED
    BY <1>1, <1>2, <1>3, <2>1 DEF VramDataGet
<1>4. CASE InTables(a)
  <2>1. ~InPattern(a) /\ ~InPalette(a)
    BY <1>1, <1>4, Areas DEF InTables, InPalette, Addr
  <2>2. InTables(c) /\ TableBank(c) = TableBank(a) /\ TableIndex(c) = TableIndex(a)
    BY <1>1, <1>4, MirrorInTables DEF c
  <2>3. InName(c) = InName(a) /\ AttrIndex(c) = AttrIndex(a)
    BY <2>2 DEF InName, AttrIndex
  <2>4. ~InPalette(c)
    BY <1>1, <1>4, <2>2, Areas, MirrorInTables DEF InTables, InPalette, Addr, c
  <2>5. VramDataGet(addr) = IF InName(a) THEN name_tbl[TableBank(a)][TableIndex(a)]
                            ELSE attr_tbl[TableBank(a)][AttrIndex(a)]
    BY <1>4, <2>1 DEF VramDataGet
  <2>6. CellValue(c) = IF InName(c) THEN name_tbl[TableBank(c)][TableIndex(c)]
                       ELSE attr_tbl[TableBank(c)][AttrIndex(c)]
    BY <2>2, <2>4 DEF CellValue
  <2> QED
    BY <1>1, <1>2, <2>1, <2>2, <2>3, <2>5, <2>6
<1>5. CASE InPalette(a)
  <2>1. ~InPattern(a) /\ ~InTables(a)
    BY <1>1, <1>5, Areas DEF InTables, InPalette, Addr
  <2>2. /\ InPalette(c) /\ PaletteIndex(c) = PaletteIndex(a)
        /\ SpriteColour(c) <=> SpriteColour(a) /\ ~IsBackdrop(PaletteIndex(a))
    BY <1>1, <1>5, MirrorInPalette DEF c
  <2>4. ~InTables(c)
    BY <1>1, <1>5, <2>2, Areas, MirrorInPalette DEF InTables, InPalette, Addr, c
  <2>5. VramDataGet(addr) = IF SpriteColour(a) /\ ~IsBackdrop(PaletteIndex(a))
                            THEN spr_palette_tbl[PaletteIndex(a)]
                            ELSE bg_palette_tbl[PaletteIndex(a)]
    BY <1>5, <2>1 DEF VramDataGet
  <2>6. CellValue(c) = IF SpriteColour(c) THEN spr_palette_tbl[PaletteIndex(c)]
                       ELSE bg_palette_tbl[PaletteIndex(c)]
    BY <2>2, <2>4 DEF CellValue
  <2> QED
    BY <1>1, <1>2, <2>1, <2>2, <2>5, <2>6
<1> QED
  BY <1>1, <1>3, <1>4, <1>5, Areas DEF InTables, InPalette, Addr

\* A store to a pattern table changes no cell.
LEMMA WriteNothing ==
  ASSUME NEW addr \in Nat, NEW d, VramDataSet(addr, d), Port!Low(addr) < NAME0_START
  PROVE  UNCHANGED tables /\ critical_error' = TRUE
<1> DEFINE a == addr % VRAM_SIZE
<1>1. InPattern(a)
  BY LowAddress DEF InPattern, NAME0_START
<1>2. ~InTables(a) /\ ~InPalette(a)
  BY <1>1 DEF InTables, InPalette
<1> QED
  BY <1>1, <1>2 DEF VramDataSet, tables

\* Any other changes the cell it reaches.
LEMMA WriteCell ==
  ASSUME VramType, NEW addr \in Nat, NEW d, VramDataSet(addr, d), ~(Port!Low(addr) < NAME0_START),
         NEW b \in Cells
  PROVE  /\ CellValue(b)' = IF b = Port!Canonical(addr) THEN d ELSE CellValue(b)
         /\ critical_error' = critical_error
<1> DEFINE a == addr % VRAM_SIZE
           c == Port!Canonical(a)
<1>1. a \in Addr /\ Port!Low(addr) = a /\ Port!Canonical(addr) = c
  BY LowAddress
<1>2. ~InPattern(a)
  BY <1>1 DEF InPattern, NAME0_START
<1>3. critical_error' = critical_error
  <2>1. critical_error' = (critical_error \/ InPattern(a))
    BY DEF VramDataSet
  <2>2. critical_error \in BOOLEAN
    BY DEF VramType
  <2> QED
    BY <1>2, <2>1, <2>2
<1>4. /\ b \in Addr /\ ~InPattern(b) /\ Port!Canonical(b) = b
      /\ (b \in TableCells /\ InTables(b)) \/ (b \in PaletteCells /\ InPalette(b))
  BY CellIsCanonical
<1>5. \A e \in Addr : ~(InTables(e) /\ InPalette(e))
  BY Areas DEF InTables, InPalette, Addr
<1> HIDE DEF c
<1>6. CASE InTables(a)
  <2>1. ~InPalette(a)
    BY <1>1, <1>5, <1>6
  <2>2. /\ spr_palette_tbl' = spr_palette_tbl /\ bg_palette_tbl' = bg_palette_tbl
        /\ name_tbl' = IF InName(a) THEN [name_tbl EXCEPT ![TableBank(a)][TableIndex(a)] = d]
                       ELSE name_tbl
        /\ attr_tbl' = IF ~InName(a) THEN [attr_tbl EXCEPT ![TableBank(a)][AttrIndex(a)] = d]
                       ELSE attr_tbl
    BY <1>6, <2>1 DEF VramDataSet
  <2>3. /\ c \in TableCells /\ c \in Addr /\ InTables(c) /\ TableBank(c) = TableBank(a)
        /\ TableIndex(c) = TableIndex(a) /\ ~InPalette(c)
    BY <1>1, <1>5, <1>6, MirrorInTables DEF c
  <2>4. CASE InPalette(b)
    <3>1. b # c /\ ~InTables(b)
      BY <1>4, <1>5, <2>3, <2>4
    <3> QED
      BY <1>1, <1>3, <2>2, <2>4, <3>1 DEF CellValue
  <2>5. CASE InTables(b)
    <3>1. /\ ~InPalette(b) /\ b \in TableCells
          /\ b = NAME0_START + TableBank(b) * TBL_SIZE + TableIndex(b)
          /\ c = NAME0_START + TableBank(c) * TBL_SIZE + TableIndex(c)
      BY <1>4, <1>5, <2>3, <2>5, TableCell DEF TableCells
    <3>2. b = c <=> TableBank(b) = TableBank(a) /\ TableIndex(b) = TableIndex(a)
      BY <2>3, <3>1
    <3>3. /\ TableBank(a) \in Bank /\ TableBank(b) \in Bank
          /\ TableIndex(a) \in 0 .. TBL_SIZE - 1 /\ TableIndex(b) \in 0 .. TBL_SIZE - 1
      BY <1>1, <1>4, <1>6, <2>5, TableMirror DEF Bank
    <3>4. CellValue(b) = IF InName(b) THEN name_tbl[TableBank(b)][TableIndex(b)]
                         ELSE attr_tbl[TableBank(b)][AttrIndex(b)]
      BY <2>5, <3>1 DEF CellValue
    <3>5. CellValue(b)' = IF InName(b) THEN name_tbl'[TableBank(b)][TableIndex(b)]
                          ELSE attr_tbl'[TableBank(b)][AttrIndex(b)]
      BY <2>5, <3>1 DEF CellValue
    <3>6. CASE InName(a)
      <4>1. TableIndex(a) \in 0 .. NAME_TBL_SIZE - 1
        BY <1>6, <3>3, <3>6, Areas DEF InName
      <4>2. InName(b) =>
              name_tbl'[TableBank(b)][TableIndex(b)] =
              IF TableBank(b) = TableBank(a) /\ TableIndex(b) = TableIndex(a) THEN d
              ELSE name_tbl[TableBank(b)][TableIndex(b)]
        <5>1. InName(b) => TableIndex(b) \in 0 .. NAME_TBL_SIZE - 1
          BY <3>3, Areas DEF InName
        <5> QED
          BY <2>2, <3>3, <3>6, <4>1, <5>1 DEF VramType
      <4>3. attr_tbl' = attr_tbl
        BY <2>2, <3>6
      <4>4. b = c => InName(b)
        BY <3>2, <3>6 DEF InName
      <4> QED
        BY <1>1, <1>3, <3>2, <3>4, <3>5, <4>2, <4>3, <4>4
    <3>7. CASE ~InName(a)
      <4>1. AttrIndex(a) \in 0 .. ATTR_TBL_SIZE - 1
        BY <3>3, <3>7, Areas DEF InName, AttrIndex
      <4>2. ~InName(b) => /\ AttrIndex(b) \in 0 .. ATTR_TBL_SIZE - 1
                          /\ (AttrIndex(b) = AttrIndex(a) <=> TableIndex(b) = TableIndex(a))
        BY <3>3, Areas DEF InName, AttrIndex
      <4>3. ~InName(b) =>
              attr_tbl'[TableBank(b)][AttrIndex(b)] =
              IF TableBank(b) = TableBank(a) /\ AttrIndex(b) = AttrIndex(a) THEN d
              ELSE attr_tbl[TableBank(b)][AttrIndex(b)]
        BY <2>2, <3>3, <3>7, <4>1, <4>2 DEF VramType
      <4>4. name_tbl' = name_tbl
        BY <2>2, <3>7
      <4>5. b = c => ~InName(b)
        BY <3>2, <3>7 DEF InName
      <4> QED
        BY <1>1, <1>3, <3>2, <3>4, <3>5, <4>2, <4>3, <4>4, <4>5
    <3> QED
      BY <3>6, <3>7
  <2> QED
    BY <1>4, <2>4, <2>5
<1>7. CASE InPalette(a)
  <2> DEFINE sprite == SpriteColour(a) /\ ~IsBackdrop(PaletteIndex(a))
  <2>1. ~InTables(a)
    BY <1>1, <1>5, <1>7
  <2>2. /\ name_tbl' = name_tbl /\ attr_tbl' = attr_tbl
        /\ spr_palette_tbl' = IF sprite THEN [spr_palette_tbl EXCEPT ![PaletteIndex(a)] = d]
                              ELSE spr_palette_tbl
        /\ bg_palette_tbl' = IF ~sprite THEN [bg_palette_tbl EXCEPT ![PaletteIndex(a)] = d]
                             ELSE bg_palette_tbl
    BY <1>7, <2>1 DEF VramDataSet
  <2>3. /\ c \in PaletteCells /\ c \in Addr /\ InPalette(c) /\ ~InTables(c)
        /\ PaletteIndex(c) = PaletteIndex(a) /\ (SpriteColour(c) <=> sprite)
    BY <1>1, <1>5, <1>7, MirrorInPalette DEF c
  <2> HIDE DEF sprite
  <2>4. CASE InTables(b)
    <3>1. b # c /\ ~InPalette(b)
      BY <1>4, <1>5, <2>3, <2>4
    <3> QED
      BY <1>1, <1>3, <2>2, <2>4, <3>1 DEF CellValue
  <2>5. CASE InPalette(b)
    <3>1. ~InTables(b) /\ b \in PaletteCells
      BY <1>4, <1>5, <2>5
    <3>2. \A e \in PaletteCells :
             /\ SpriteColour(e) <=> e - PALETTE_START >= PALETTE_TBL_SIZE
             /\ PaletteIndex(e) = IF e - PALETTE_START >= PALETTE_TBL_SIZE
                                    THEN e - PALETTE_START - PALETTE_TBL_SIZE
                                    ELSE e - PALETTE_START
      <4>1. TAKE e \in PaletteCells
      <4>2. PICK x \in 0 .. 2 * PALETTE_TBL_SIZE - 1 : e = PALETTE_START + x
        BY Areas DEF PaletteCells
      <4>3. e - PALETTE_START = x
        BY <4>2, Areas
      <4> QED
        BY <4>2, <4>3, PaletteCell
    <3>3. b = c <=> (SpriteColour(b) <=> SpriteColour(c)) /\ PaletteIndex(b) = PaletteIndex(c)
      BY <2>3, <3>1, <3>2, Areas DEF PaletteCells
    <3>4. PaletteIndex(a) \in 0 .. PALETTE_TBL_SIZE - 1 /\ PaletteIndex(b) \in 0 .. PALETTE_TBL_SIZE - 1
      BY <1>1, <1>4, <1>7, <2>5, PaletteMirror
    <3>5. CellValue(b) = IF SpriteColour(b) THEN spr_palette_tbl[PaletteIndex(b)]
                         ELSE bg_palette_tbl[PaletteIndex(b)]
      BY <2>5, <3>1 DEF CellValue
    <3>6. CellValue(b)' = IF SpriteColour(b) THEN spr_palette_tbl'[PaletteIndex(b)]
                          ELSE bg_palette_tbl'[PaletteIndex(b)]
      BY <2>5, <3>1 DEF CellValue
    <3>7. CASE sprite
      <4>1. spr_palette_tbl'[PaletteIndex(b)] =
              IF PaletteIndex(b) = PaletteIndex(a) THEN d ELSE spr_palette_tbl[PaletteIndex(b)]
        BY <2>2, <3>4, <3>7 DEF VramType
      <4>2. bg_palette_tbl' = bg_palette_tbl
        BY <2>2, <3>7
      <4> QED
        BY <1>1, <1>3, <2>3, <3>3, <3>5, <3>6, <3>7, <4>1, <4>2
    <3>8. CASE ~sprite
      <4>1. bg_palette_tbl'[PaletteIndex(b)] =
              IF PaletteIndex(b) = PaletteIndex(a) THEN d ELSE bg_palette_tbl[PaletteIndex(b)]
        BY <2>2, <3>4, <3>8 DEF VramType
      <4>2. spr_palette_tbl' = spr_palette_tbl
        BY <2>2, <3>8
      <4> QED
        BY <1>1, <1>3, <2>3, <3>3, <3>5, <3>6, <3>8, <4>1, <4>2
    <3> QED
      BY <3>7, <3>8
  <2> QED
    BY <1>4, <2>4, <2>5
<1> QED
  BY <1>1, <1>2, <1>6, <1>7, Areas DEF InTables, InPalette, Addr

-----------------------------------------------------------------------------
(* Types. *)

LEMMA InitType == Init => TypeOK
<1> SUFFICES ASSUME Init PROVE TypeOK
  OBVIOUS
<1>1. VramType
  BY VramAssumption DEF Init, InitVram, VramType
<1>2. vram_addr_reg \in [s : 0 .. ADDR_SIZE - 1, cnt : 0 .. 1]
  BY AddressSize DEF Init
<1>3. vram_read_cnt \in 0 .. 1 /\ read = <<>>
  BY DEF Init
<1>4. scroll_reg \in [x : 0 .. BYTE - 1, y : 0 .. BYTE - 1, cnt : 0 .. 1]
  BY RegistersAssumption DEF Init
<1>5. sprite_ram \in [0 .. SPRITE_RAM_SIZE - 1 -> Byte]
  BY VramAssumption DEF Init
<1>6. sprite_ram_addr_reg \in 0 .. BYTE - 1 /\ sprite_cnt \in 0 .. SPRITE_SIZE - 1
  BY RegistersAssumption DEF Init
<1>7. ctrl_reg1 \in [name_tbl_sel : 0 .. 3, addr_inc_size : 0 .. 1, sprite_ptn_sel : 0 .. 1,
                     bg_ptn_addr_sel : 0 .. 1]
  BY DEF Init
<1> QED
  BY <1>1, <1>2, <1>3, <1>4, <1>5, <1>6, <1>7 DEF TypeOK

LEMMA ReadType ==
  ASSUME VramType, NEW addr \in Nat
  PROVE  VramDataGet(addr) \in Byte
<1> DEFINE a == addr % VRAM_SIZE
<1>1. a \in Addr
  BY LowAddress
<1>2. CASE InPattern(a)
  <2>1. a \in Nat /\ a < 2 * PATTERN_TBL_SIZE /\ PATTERN_TBL_SIZE \in Nat /\ PATTERN_TBL_SIZE > 0
    BY <1>1, <1>2, Areas DEF InPattern, Addr
  <2>2. a \div PATTERN_TBL_SIZE \in 0 .. 1 /\ a % PATTERN_TBL_SIZE \in 0 .. PATTERN_TBL_SIZE - 1
    BY <2>1, Division, SmallQuotient
  <2>3. Pattern \in [0 .. 1 -> [0 .. PATTERN_TBL_SIZE - 1 -> Byte]]
    BY VramAssumption
  <2>4. ~InPalette(a) /\ ~InTables(a)
    BY <1>2 DEF InPalette, InTables
  <2> QED
    BY <1>2, <2>2, <2>3, <2>4 DEF VramDataGet
<1>3. CASE InTables(a)
  <2>1. ~InPattern(a) /\ ~InPalette(a)
    BY <1>1, <1>3, Areas DEF InTables, InPalette, Addr
  <2>2. TableBank(a) \in Bank /\ TableIndex(a) \in 0 .. TBL_SIZE - 1
    BY <1>1, <1>3, TableMirror DEF Bank
  <2>3. /\ InName(a) => TableIndex(a) \in 0 .. NAME_TBL_SIZE - 1
        /\ ~InName(a) => AttrIndex(a) \in 0 .. ATTR_TBL_SIZE - 1
    BY <2>2, Areas DEF InName, AttrIndex
  <2> QED
    BY <1>3, <2>1, <2>2, <2>3 DEF VramDataGet, VramType
<1>4. CASE InPalette(a)
  <2>1. ~InPattern(a) /\ ~InTables(a)
    BY <1>1, <1>4, Areas DEF InTables, InPalette, Addr
  <2>2. PaletteIndex(a) \in 0 .. PALETTE_TBL_SIZE - 1
    BY <1>1, <1>4, PaletteMirror
  <2> QED
    BY <1>4, <2>1, <2>2 DEF VramDataGet, VramType
<1> QED
  BY <1>1, <1>2, <1>3, <1>4, Areas DEF InTables, InPalette, Addr

LEMMA WriteType ==
  ASSUME VramType, NEW addr \in Nat, NEW d \in Byte, VramDataSet(addr, d)
  PROVE  VramType'
<1> DEFINE a == addr % VRAM_SIZE
<1>1. critical_error' \in BOOLEAN
  BY DEF VramDataSet
<1>2. name_tbl' \in [Bank -> [0 .. NAME_TBL_SIZE - 1 -> Byte]]
  BY DEF VramDataSet, VramType
<1>3. attr_tbl' \in [Bank -> [0 .. ATTR_TBL_SIZE - 1 -> Byte]]
  BY DEF VramDataSet, VramType
<1>4. bg_palette_tbl' \in [0 .. PALETTE_TBL_SIZE - 1 -> Byte]
  BY DEF VramDataSet, VramType
<1>5. spr_palette_tbl' \in [0 .. PALETTE_TBL_SIZE - 1 -> Byte]
  BY DEF VramDataSet, VramType
<1> QED
  BY <1>1, <1>2, <1>3, <1>4, <1>5 DEF VramType

LEMMA AddressInBounds == AddressType => vram_addr_reg.s \in Nat
  BY AddressSize DEF AddressType

LEMMA NextType == TypeOK /\ DerivedFromCtrl1 /\ [Next]_vars => TypeOK'
<1> SUFFICES ASSUME TypeOK, DerivedFromCtrl1, [Next]_vars PROVE TypeOK'
  OBVIOUS
<1>0. AddressType /\ VramType
  BY DEF TypeOK, AddressType
<1>a. vram_addr_reg.s \in Nat
  BY <1>0, AddressInBounds
<1>b. /\ BYTE \in Nat /\ BYTE > 0 /\ Data \subseteq Byte /\ Byte \subseteq 0 .. BYTE - 1
      /\ SPRITE_RAM_SIZE \in Nat /\ SPRITE_RAM_SIZE > 0 /\ SPRITE_SIZE \in Nat /\ SPRITE_SIZE > 0
      /\ Half \subseteq 0 .. BYTE - 1 /\ 0 \in Byte
  BY RegistersAssumption, VramAssumption
<1>1. ASSUME NEW data \in Ctrl1, Ctrl1Set(data) PROVE TypeOK'
  <2>1. /\ ctrl_reg1' = data
        /\ UNCHANGED <<tables, critical_error, port, scroll_reg, sprites>>
    BY <1>1 DEF Ctrl1Set
  <2>2. data \in [name_tbl_sel : 0 .. 3, addr_inc_size : 0 .. 1, sprite_ptn_sel : 0 .. 1,
                  bg_ptn_addr_sel : 0 .. 1]
    BY RegistersAssumption
  <2> QED
    BY <2>1, <2>2 DEF TypeOK, VramType, tables, port, sprites
<1>2. CASE StatusGet
  <2>1. /\ vram_addr_reg' = [vram_addr_reg EXCEPT !.cnt = 0]
        /\ UNCHANGED <<tables, critical_error, ctrl_reg1, vram_read_cnt, read, scroll_reg, sprites>>
    BY <1>2 DEF StatusGet
  <2>2. vram_addr_reg' \in [s : 0 .. ADDR_SIZE - 1, cnt : 0 .. 1]
    BY <2>1 DEF TypeOK
  <2> QED
    BY <2>1, <2>2 DEF TypeOK, VramType, tables, sprites
<1>3. ASSUME NEW half \in Half, VramAddrSet(half) PROVE TypeOK'
  <2>1. /\ vram_read_cnt' = 0
        /\ UNCHANGED <<tables, critical_error, ctrl_reg1, read, scroll_reg, sprites>>
    BY <1>3 DEF VramAddrSet
  <2>2. /\ vram_addr_reg.s % BYTE \in 0 .. BYTE - 1 /\ vram_addr_reg.s \div BYTE \in 0 .. BYTE - 1
    BY <1>0, Halves DEF AddressType
  <2>3. /\ half * BYTE + (vram_addr_reg.s % BYTE) \in 0 .. ADDR_SIZE - 1
        /\ (vram_addr_reg.s \div BYTE) * BYTE + half \in 0 .. ADDR_SIZE - 1
    BY <1>b, <2>2, HighHalf
  <2>4. vram_addr_reg' \in [s : 0 .. ADDR_SIZE - 1, cnt : 0 .. 1]
    BY <1>3, <2>3 DEF VramAddrSet
  <2> QED
    BY <2>1, <2>4 DEF TypeOK, VramType, tables, sprites
<1>4. CASE PpuVramDataGet
  <2>1. UNCHANGED <<tables, critical_error, ctrl_reg1, scroll_reg, sprites>>
    BY <1>4 DEF PpuVramDataGet
  <2>2. AddressType'
    <3>1. UNCHANGED vram_addr_reg \/ Advance
      BY <1>4 DEF PpuVramDataGet
    <3> QED
      BY <1>0, <3>1, AdvanceKeepsType DEF AddressType
  <2>3. vram_read_cnt' \in 0 .. 1
    BY <1>4 DEF PpuVramDataGet, TypeOK
  <2>4. \E b \in Byte : read' = <<b>>
    BY <1>0, <1>4, <1>a, <1>b, ReadType DEF PpuVramDataGet
  <2> QED
    BY <2>1, <2>2, <2>3, <2>4 DEF TypeOK, AddressType, VramType, tables, sprites
<1>5. ASSUME NEW data \in Data, PpuVramDataSet(data) PROVE TypeOK'
  <2>1. UNCHANGED <<ctrl_reg1, vram_read_cnt, scroll_reg, sprites>> /\ read' = <<>>
    BY <1>5 DEF PpuVramDataSet
  <2>2. AddressType'
    BY <1>0, <1>5, AdvanceKeepsType DEF PpuVramDataSet
  <2>3. VramType'
    BY <1>0, <1>5, <1>a, <1>b, WriteType DEF PpuVramDataSet
  <2> QED
    BY <2>1, <2>2, <2>3 DEF TypeOK, AddressType, sprites
<1>6. ASSUME NEW data \in Data, ScrollSet(data) PROVE TypeOK'
  <2>1. UNCHANGED <<tables, critical_error, ctrl_reg1, port, sprites>>
    BY <1>6 DEF ScrollSet
  <2>2. scroll_reg' \in [x : 0 .. BYTE - 1, y : 0 .. BYTE - 1, cnt : 0 .. 1]
    <3>1. data \in 0 .. BYTE - 1
      BY <1>b
    <3>2. scroll_reg \in [x : 0 .. BYTE - 1, y : 0 .. BYTE - 1, cnt : 0 .. 1]
      BY DEF TypeOK
    <3>3. \A n \in 0 .. 1 : /\ [scroll_reg EXCEPT !.x = data, !.cnt = n] \in
                               [x : 0 .. BYTE - 1, y : 0 .. BYTE - 1, cnt : 0 .. 1]
                           /\ [scroll_reg EXCEPT !.y = data, !.cnt = n] \in
                               [x : 0 .. BYTE - 1, y : 0 .. BYTE - 1, cnt : 0 .. 1]
      BY <3>1, <3>2
    <3> QED
      BY <1>6, <3>3 DEF ScrollSet
  <2> QED
    BY <2>1, <2>2 DEF TypeOK, VramType, tables, port, sprites
<1>7. ASSUME NEW data \in Data, SpriteAddrSet(data) PROVE TypeOK'
  <2>1. UNCHANGED <<tables, critical_error, ctrl_reg1, port, scroll_reg, sprite_ram>>
    BY <1>7 DEF SpriteAddrSet
  <2>2. sprite_ram_addr_reg' \in 0 .. BYTE - 1 /\ sprite_cnt' \in 0 .. SPRITE_SIZE - 1
    BY <1>7, <1>b DEF SpriteAddrSet
  <2> QED
    BY <2>1, <2>2 DEF TypeOK, VramType, tables, port
<1>8. ASSUME NEW data \in Data, SpriteDataSet(data) PROVE TypeOK'
  <2>1. UNCHANGED <<tables, critical_error, ctrl_reg1, port, scroll_reg, sprite_ram_addr_reg>>
    BY <1>8 DEF SpriteDataSet
  <2>2. sprite_ram' \in [0 .. SPRITE_RAM_SIZE - 1 -> Byte]
    BY <1>8, <1>b DEF SpriteDataSet, TypeOK
  <2>3. sprite_cnt' \in 0 .. SPRITE_SIZE - 1
    <3>1. sprite_cnt' = (sprite_cnt + 1) % SPRITE_SIZE /\ sprite_cnt + 1 \in Nat
      BY <1>8, <1>b DEF SpriteDataSet, TypeOK
    <3> QED
      BY <1>b, <3>1, Division
  <2> QED
    BY <2>1, <2>2, <2>3 DEF TypeOK, VramType, tables, port
<1>9. CASE UNCHANGED vars
  BY <1>9 DEF TypeOK, VramType, vars, tables, port, sprites
<1> QED
  BY <1>1, <1>2, <1>3, <1>4, <1>5, <1>6, <1>7, <1>8, <1>9 DEF Next

\* Every register, counter and table keeps its width: no address the program can form
\* reaches outside of a table.
THEOREM RegistersTyped == Spec => []TypeOK
<1> QED
  BY InitType, NextType, InitDerived, NextDerived, PTL DEF Spec

-----------------------------------------------------------------------------
(* The refinement. *)

LEMMA SameTables ==
  ASSUME UNCHANGED tables
  PROVE  [a \in Cells |-> CellValue(a)]' = [a \in Cells |-> CellValue(a)]
<1>1. \A a \in Cells : CellValue(a)' = CellValue(a)
  BY DEF tables, CellValue
<1> QED
  BY <1>1

LEMMA InitRefines == Init => Port!Init
<1> SUFFICES ASSUME Init PROVE Port!Init
  OBVIOUS
<1>1. /\ vram_addr_reg.s = 0 /\ Inc(ctrl_reg1.addr_inc_size) = 1 /\ vram_read_cnt = 0
      /\ read = <<>> /\ critical_error = FALSE
  BY DEF Init, InitVram, Inc
<1>2. /\ name_tbl = [b \in Bank |-> [i \in 0 .. NAME_TBL_SIZE - 1 |-> 0]]
      /\ attr_tbl = [b \in Bank |-> [i \in 0 .. ATTR_TBL_SIZE - 1 |-> 0]]
      /\ bg_palette_tbl  = [i \in 0 .. PALETTE_TBL_SIZE - 1 |-> 0]
      /\ spr_palette_tbl = [i \in 0 .. PALETTE_TBL_SIZE - 1 |-> 0]
  BY DEF Init, InitVram
<1>3. ASSUME NEW c \in Cells PROVE CellValue(c) = 0
  <2>1. /\ c \in Addr
        /\ (c \in TableCells /\ InTables(c)) \/ (c \in PaletteCells /\ InPalette(c))
        /\ ~(InTables(c) /\ InPalette(c))
    BY CellIsCanonical, Areas DEF InTables, InPalette, Addr
  <2>2. CASE InTables(c)
    <3>1. TableBank(c) \in Bank /\ TableIndex(c) \in 0 .. TBL_SIZE - 1
      BY <2>1, <2>2, TableMirror DEF Bank
    <3>2. /\ InName(c) => TableIndex(c) \in 0 .. NAME_TBL_SIZE - 1
          /\ ~InName(c) => AttrIndex(c) \in 0 .. ATTR_TBL_SIZE - 1
      BY <3>1, Areas DEF InName, AttrIndex
    <3> QED
      BY <1>2, <2>1, <2>2, <3>1, <3>2 DEF CellValue
  <2>3. CASE InPalette(c)
    <3>1. PaletteIndex(c) \in 0 .. PALETTE_TBL_SIZE - 1
      BY <2>1, <2>3, PaletteMirror
    <3> QED
      BY <1>2, <2>1, <2>3, <3>1 DEF CellValue
  <2> QED
    BY <2>1, <2>2, <2>3
<1>4. [a \in Cells |-> CellValue(a)] = [c \in Port!Cell |-> 0]
  BY <1>3, SameCells
<1> QED
  BY <1>1, <1>4 DEF Port!Init

LEMMA MoveRefines ==
  ASSUME AddressType, DerivedFromCtrl1, Advance
  PROVE  Port!Move
  BY AdvanceKeepsType DEF Port!Move

LEMMA WriteRefines ==
  ASSUME TypeOK, DerivedFromCtrl1, NEW data \in Data, PpuVramDataSet(data)
  PROVE  Port!Write(data)
<1>1. AddressType /\ VramType /\ vram_addr_reg.s \in Nat
  BY AddressInBounds DEF TypeOK, AddressType
<1>2. /\ VramDataSet(vram_addr_reg.s, data) /\ Advance /\ read' = <<>>
      /\ ctrl_reg1' = ctrl_reg1 /\ vram_read_cnt' = vram_read_cnt
  BY DEF PpuVramDataSet
<1>3. Port!Move
  BY <1>1, <1>2, MoveRefines
<1>4. CASE Port!Low(vram_addr_reg.s) < NAME0_START
  <2>1. UNCHANGED tables /\ critical_error' = TRUE
    BY <1>1, <1>2, <1>4, WriteNothing
  <2>2. [a \in Cells |-> CellValue(a)]' = [a \in Cells |-> CellValue(a)]
    BY <2>1, SameTables
  <2> QED
    BY <1>2, <1>3, <1>4, <2>1, <2>2 DEF Port!Write
<1>5. CASE ~(Port!Low(vram_addr_reg.s) < NAME0_START)
  <2>1. \A b \in Cells :
           CellValue(b)' = IF b = Port!Canonical(vram_addr_reg.s) THEN data ELSE CellValue(b)
    BY <1>1, <1>2, <1>5, WriteCell
  <2>2. critical_error' = critical_error
    <3>1. NAME0_START \in NAME0_START .. NAME0_START + 2 * TBL_SIZE - 1
      BY Areas
    <3>2. NAME0_START \in Cells
      BY <3>1 DEF Cells
    <3> QED
      BY <1>1, <1>2, <1>5, <3>2, WriteCell
  <2>3. [a \in Cells |-> CellValue(a)]' =
          [[a \in Cells |-> CellValue(a)] EXCEPT ![Port!Canonical(vram_addr_reg.s)] = data]
    BY <2>1
  <2> QED
    BY <1>2, <1>3, <1>5, <2>2, <2>3 DEF Port!Write
<1> QED
  BY <1>4, <1>5

LEMMA BelowNames ==
  ASSUME NEW a \in Addr, a < NAME0_START
  PROVE  a \in 0 .. NAME0_START - 1
  BY Areas DEF Addr

LEMMA ReadRefines ==
  ASSUME TypeOK, DerivedFromCtrl1, PpuVramDataGet
  PROVE  Port!Prime \/ Port!Read
<1>1. AddressType /\ vram_addr_reg.s \in Nat /\ vram_read_cnt \in 0 .. 1
  BY AddressInBounds DEF TypeOK, AddressType
<1>2. UNCHANGED tables /\ critical_error' = critical_error /\ ctrl_reg1' = ctrl_reg1
  BY DEF PpuVramDataGet
<1>3. [a \in Cells |-> CellValue(a)]' = [a \in Cells |-> CellValue(a)]
  BY <1>2, SameTables
<1>4. CASE vram_read_cnt = 0
  <2>1. read' = <<0>> /\ vram_read_cnt' = 1 /\ vram_addr_reg' = vram_addr_reg
    BY <1>4 DEF PpuVramDataGet
  <2> QED
    BY <1>2, <1>3, <1>4, <2>1 DEF Port!Prime
<1>5. CASE vram_read_cnt # 0
  <2>1. /\ read' = <<VramDataGet(vram_addr_reg.s)>> /\ vram_read_cnt' = vram_read_cnt /\ Advance
    BY <1>5 DEF PpuVramDataGet
  <2>2. Port!Move
    BY <1>1, <2>1, MoveRefines
  <2>3. ASSUME Port!Low(vram_addr_reg.s) < NAME0_START
        PROVE  Port!Low(vram_addr_reg.s) \in 0 .. NAME0_START - 1
    BY <1>1, <2>3, LowAddress, BelowNames
  <2>4. ASSUME ~(Port!Low(vram_addr_reg.s) < NAME0_START)
        PROVE  Port!Canonical(vram_addr_reg.s) \in Cells
    <3>1. /\ Port!Low(vram_addr_reg.s) \in Addr /\ ~InPattern(Port!Low(vram_addr_reg.s))
          /\ Port!Canonical(vram_addr_reg.s) = Port!Canonical(Port!Low(vram_addr_reg.s))
      BY <1>1, <2>4, LowAddress DEF InPattern, NAME0_START
    <3> QED
      BY <3>1, MirrorIsCell
  <2>5. VramDataGet(vram_addr_reg.s) =
          IF Port!Low(vram_addr_reg.s) < NAME0_START
            THEN [a \in 0 .. NAME0_START - 1 |->
                    Pattern[a \div PATTERN_TBL_SIZE][a % PATTERN_TBL_SIZE]][Port!Low(vram_addr_reg.s)]
            ELSE [a \in Cells |-> CellValue(a)][Port!Canonical(vram_addr_reg.s)]
    BY <1>1, <2>3, <2>4, ReadCell
  <2>6. vram_read_cnt = 1
    BY <1>1, <1>5
  <2> QED
    BY <1>2, <1>3, <2>1, <2>2, <2>5, <2>6 DEF Port!Read
<1> QED
  BY <1>4, <1>5

LEMMA NextRefines == TypeOK /\ DerivedFromCtrl1 /\ [Next]_vars => [Port!Next]_(Port!vars)
<1> SUFFICES ASSUME TypeOK, DerivedFromCtrl1, [Next]_vars PROVE [Port!Next]_(Port!vars)
  OBVIOUS
<1>1. ASSUME NEW data \in Ctrl1, Ctrl1Set(data) PROVE Port!SetStep
  <2>1. ctrl_reg1' = data /\ UNCHANGED tables /\ critical_error' = critical_error
    BY <1>1 DEF Ctrl1Set
  <2>2. vram_addr_reg' = vram_addr_reg /\ vram_read_cnt' = vram_read_cnt /\ read' = read
    BY <1>1 DEF Ctrl1Set, port
  <2>3. [a \in Cells |-> CellValue(a)]' = [a \in Cells |-> CellValue(a)]
    BY <2>1, SameTables
  <2>4. Inc(ctrl_reg1.addr_inc_size)' \in {1, LINE_INC}
    BY DEF Inc
  <2> QED
    BY <2>1, <2>2, <2>3, <2>4 DEF Port!SetStep
<1>2. ASSUME NEW half \in Half, VramAddrSet(half) PROVE Port!Point
  <2>1. AddressType'
    BY NextType DEF TypeOK, AddressType
  <2>2. /\ vram_read_cnt' = 0 /\ read' = read /\ UNCHANGED tables
        /\ critical_error' = critical_error /\ ctrl_reg1' = ctrl_reg1
    BY <1>2 DEF VramAddrSet
  <2>3. [a \in Cells |-> CellValue(a)]' = [a \in Cells |-> CellValue(a)]
    BY <2>2, SameTables
  <2> QED
    BY <2>1, <2>2, <2>3 DEF Port!Point, AddressType
<1>3. ASSUME \/ StatusGet \/ UNCHANGED vars
             \/ \E data \in Data : ScrollSet(data) \/ SpriteAddrSet(data) \/ SpriteDataSet(data)
      PROVE  UNCHANGED Port!vars
  <2>1. /\ vram_addr_reg'.s = vram_addr_reg.s /\ vram_read_cnt' = vram_read_cnt /\ read' = read
        /\ UNCHANGED tables /\ critical_error' = critical_error /\ ctrl_reg1' = ctrl_reg1
    <3>1. CASE StatusGet
      BY <3>1 DEF StatusGet, TypeOK
    <3>2. CASE UNCHANGED vars
      BY <3>2 DEF vars, port
    <3>3. CASE \E data \in Data : ScrollSet(data) \/ SpriteAddrSet(data) \/ SpriteDataSet(data)
      BY <3>3 DEF ScrollSet, SpriteAddrSet, SpriteDataSet, port
    <3> QED
      BY <1>3, <3>1, <3>2, <3>3
  <2>2. [a \in Cells |-> CellValue(a)]' = [a \in Cells |-> CellValue(a)]
    BY <2>1, SameTables
  <2> QED
    BY <2>1, <2>2 DEF Port!vars
<1>4. CASE PpuVramDataGet
  BY <1>4, ReadRefines DEF Port!Next
<1>5. ASSUME NEW data \in Data, PpuVramDataSet(data) PROVE Port!Next
  BY <1>5, WriteRefines DEF Port!Next
<1> QED
  BY <1>1, <1>2, <1>3, <1>4, <1>5 DEF Next, Port!Next

\* The registers and tables, with all their mirrors, implement the pointer over VRAM, for
\* every size of the tables, palettes and bytes: a load gets what was last stored through
\* any mirror of its cell, and a store changes that cell only.
THEOREM RegistersImplementVram == Spec => ImplementsVramPort
<1> QED
  BY InitType, NextType, InitDerived, NextDerived, InitRefines, NextRefines, PTL
     DEF Spec, ImplementsVramPort, Port!Spec

-----------------------------------------------------------------------------
(* The sizes of the picture and of its tables. *)

\* The rows of tiles the scroll can lead to.
Rows == BYTE \div TILE_DOT_SIZE

LEMMA Screen ==
  /\ TILE_DOT_SIZE \in Nat /\ TILE_DOT_SIZE > 0 /\ ATTR_GROUP_UNIT \in Nat /\ ATTR_GROUP_UNIT > 0
  /\ ATTR_ROW \in Nat /\ ATTR_ROW > 0
  /\ H_SCREEN_TILE_SIZE \in Nat /\ H_SCREEN_TILE_SIZE = ATTR_ROW * ATTR_GROUP_UNIT
  /\ VSCREEN_WIDTH \in Nat /\ VSCREEN_WIDTH = H_SCREEN_TILE_SIZE * TILE_DOT_SIZE
  /\ VSCREEN_HEIGHT \in Nat /\ VSCREEN_HEIGHT > 0 /\ VSCREEN_HEIGHT % TILE_DOT_SIZE = 0
  /\ HSCAN_MAX \in Nat /\ VSCAN_MAX \in Nat /\ HSCAN_MAX > 0 /\ VSCAN_MAX > 0
  /\ VSCREEN_WIDTH < HSCAN_MAX /\ VSCREEN_HEIGHT < VSCAN_MAX
  /\ BYTE \in Nat /\ BYTE > 0 /\ BYTE <= VSCREEN_WIDTH /\ VSCREEN_HEIGHT <= BYTE
<1>1. BYTE \in Nat /\ BYTE > 0
  BY RegistersAssumption
<1>2. /\ TILE_DOT_SIZE \in Nat /\ TILE_DOT_SIZE > 0
      /\ ATTR_GROUP_UNIT \in Nat /\ ATTR_GROUP_UNIT > 0 /\ ATTR_ROW \in Nat /\ ATTR_ROW > 0
      /\ H_SCREEN_TILE_SIZE = ATTR_ROW * ATTR_GROUP_UNIT
      /\ VSCREEN_WIDTH = H_SCREEN_TILE_SIZE * TILE_DOT_SIZE
      /\ VSCREEN_HEIGHT \in Nat /\ VSCREEN_HEIGHT > 0 /\ VSCREEN_HEIGHT % TILE_DOT_SIZE = 0
      /\ HSCAN_MAX \in Nat /\ VSCAN_MAX \in Nat
      /\ VSCREEN_WIDTH < HSCAN_MAX /\ VSCREEN_HEIGHT < VSCAN_MAX
      /\ BYTE <= VSCREEN_WIDTH /\ VSCREEN_HEIGHT <= BYTE
  BY BackgroundAssumption
<1>3. H_SCREEN_TILE_SIZE \in Nat
  BY <1>2
<1>4. VSCREEN_WIDTH \in Nat
  BY <1>2, <1>3
<1> QED
  BY <1>1, <1>2, <1>3, <1>4

LEMMA ScreenRows ==
  /\ Rows \in Nat /\ BYTE = Rows * TILE_DOT_SIZE
  /\ Rows * H_SCREEN_TILE_SIZE <= TBL_SIZE
  /\ Rows <= (ATTR_TBL_SIZE \div ATTR_ROW) * ATTR_GROUP_UNIT
<1>1. BYTE % TILE_DOT_SIZE = 0
  BY BackgroundAssumption
<1>2. Rows \in Nat /\ BYTE = Rows * TILE_DOT_SIZE + (BYTE % TILE_DOT_SIZE)
  BY Screen, Division DEF Rows
<1>3. Rows * TILE_DOT_SIZE \in Nat
  BY <1>2, Screen
<1>4. BYTE = Rows * TILE_DOT_SIZE
  BY <1>1, <1>2, <1>3
<1> QED
  BY <1>2, <1>4, BackgroundAssumption DEF Rows

LEMMA QuotientBelow ==
  ASSUME NEW b \in Nat, b > 0, NEW a \in Nat, NEW n \in Nat, a < n * b
  PROVE  a \div b \in 0 .. n - 1
<1> DEFINE q == a \div b
           r == a % b
<1>1. q \in Nat /\ r \in 0 .. b - 1 /\ a = q * b + r
  BY Division
<1> HIDE DEF q, r
<1>2. q < n
  <2>1. SUFFICES ASSUME q >= n PROVE FALSE
    BY <1>1
  <2>2. PICK d \in Nat : q = n + d
    BY <1>1, <2>1
  <2>3. q * b = n * b + d * b /\ n * b \in Nat /\ d * b \in Nat
    BY <2>2
  <2> QED
    BY <1>1, <2>3
<1> QED
  BY <1>1, <1>2 DEF q

-----------------------------------------------------------------------------
(* Where a scrolled place is. *)

\* The beam in the picture, with the scroll.
ScrolledX == 0 .. VSCREEN_WIDTH + BYTE - 2
ScrolledY == 0 .. VSCREEN_HEIGHT + BYTE - 2

LEMMA WrappedX ==
  ASSUME NEW x \in ScrolledX
  PROVE  /\ Wrapped(x, VSCREEN_WIDTH) \in 0 .. VSCREEN_WIDTH - 1
         /\ Wrapped(x, VSCREEN_WIDTH) = x % VSCREEN_WIDTH
         /\ Right(x) \in 0 .. 1 /\ Right(x) = x \div VSCREEN_WIDTH
         /\ Wrapped(x, VSCREEN_WIDTH) % TILE_DOT_SIZE = x % TILE_DOT_SIZE
<1>1. x \in Nat /\ x < 2 * VSCREEN_WIDTH /\ VSCREEN_WIDTH \in Nat /\ VSCREEN_WIDTH > 0
  BY Screen DEF ScrolledX
<1>2. CASE x < VSCREEN_WIDTH
  <2>1. Wrapped(x, VSCREEN_WIDTH) = x /\ Right(x) = 0
    BY <1>1, <1>2 DEF Wrapped, Right
  <2>2. x % VSCREEN_WIDTH = x /\ x \div VSCREEN_WIDTH = 0
    BY <1>1, <1>2, SmallRemainder
  <2> QED
    BY <1>1, <1>2, <2>1, <2>2
<1>3. CASE VSCREEN_WIDTH <= x
  <2>1. Wrapped(x, VSCREEN_WIDTH) = x - VSCREEN_WIDTH /\ Right(x) = 1
    BY <1>1, <1>3 DEF Wrapped, Right
  <2>2. x % VSCREEN_WIDTH = x - VSCREEN_WIDTH /\ x \div VSCREEN_WIDTH = 1
    BY <1>1, <1>3, SmallRemainder
  <2>3. VSCREEN_WIDTH % TILE_DOT_SIZE = 0
    BY Screen, Multiple
  <2>4. x - VSCREEN_WIDTH \in Nat /\ VSCREEN_WIDTH + (x - VSCREEN_WIDTH) = x
    BY <1>1, <1>3
  <2>5. (x - VSCREEN_WIDTH) % TILE_DOT_SIZE = x % TILE_DOT_SIZE
    <3> DEFINE v == x - VSCREEN_WIDTH
    <3>1. v \in Nat /\ VSCREEN_WIDTH + v = x
      BY <2>4
    <3> HIDE DEF v
    <3>size. TILE_DOT_SIZE \in Nat /\ TILE_DOT_SIZE > 0 /\ VSCREEN_WIDTH \in Nat
      BY Screen
    <3>2. (VSCREEN_WIDTH + v) % TILE_DOT_SIZE = v % TILE_DOT_SIZE
      BY <2>3, <3>1, <3>size, SameRemainder, Zenon
    <3> QED
      BY <3>1, <3>2 DEF v
  <2> QED
    BY <1>1, <1>3, <2>1, <2>2, <2>4, <2>5
<1> QED
  BY <1>1, <1>2, <1>3

\* Below the second picture the row is brought back by one picture only, and is still one
\* the scroll can lead to.
LEMMA WrappedY ==
  ASSUME NEW y \in ScrolledY
  PROVE  /\ Wrapped(y, VSCREEN_HEIGHT) \in 0 .. BYTE - 1
         /\ Below(y) \in 0 .. 1
         /\ Wrapped(y, VSCREEN_HEIGHT) % TILE_DOT_SIZE = y % TILE_DOT_SIZE
         /\ y < 2 * VSCREEN_HEIGHT => Wrapped(y, VSCREEN_HEIGHT) = y % VSCREEN_HEIGHT
<1>1. /\ y \in Nat /\ VSCREEN_HEIGHT \in Nat /\ VSCREEN_HEIGHT > 0
      /\ BYTE \in Nat /\ VSCREEN_HEIGHT <= BYTE /\ y <= VSCREEN_HEIGHT + BYTE - 2
  BY Screen DEF ScrolledY
<1>2. CASE y < VSCREEN_HEIGHT
  <2>1. Wrapped(y, VSCREEN_HEIGHT) = y /\ Below(y) = 0
    BY <1>1, <1>2 DEF Wrapped, Below
  <2>2. y % VSCREEN_HEIGHT = y
    BY <1>1, <1>2, SmallRemainder
  <2> QED
    BY <1>1, <1>2, <2>1, <2>2
<1>3. CASE VSCREEN_HEIGHT <= y
  <2> DEFINE v == y - VSCREEN_HEIGHT
  <2>1. Wrapped(y, VSCREEN_HEIGHT) = v /\ Below(y) = 1
    BY <1>1, <1>3 DEF Wrapped, Below
  <2>2. y < 2 * VSCREEN_HEIGHT => y % VSCREEN_HEIGHT = v
    BY <1>1, <1>3, SmallRemainder
  <2>3. v \in Nat /\ VSCREEN_HEIGHT + v = y /\ v <= BYTE - 2
    BY <1>1, <1>3
  <2> HIDE DEF v
  <2>4. (VSCREEN_HEIGHT + v) % TILE_DOT_SIZE = v % TILE_DOT_SIZE
    BY <2>3, Screen, SameRemainder
  <2> QED
    BY <1>1, <2>1, <2>2, <2>3, <2>4
<1> QED
  BY <1>1, <1>2, <1>3

LEMMA TilePlace ==
  ASSUME NEW x \in ScrolledX, NEW y \in ScrolledY
  PROVE  /\ TileX(x) \in 0 .. H_SCREEN_TILE_SIZE - 1 /\ TileY(y) \in 0 .. Rows - 1
         /\ TileX(x) + TileY(y) * H_SCREEN_TILE_SIZE \in 0 .. TBL_SIZE - 1
         /\ TableShift(x, y) \in 0 .. 3
<1>1. TileX(x) \in 0 .. H_SCREEN_TILE_SIZE - 1
  <2> DEFINE v == Wrapped(x, VSCREEN_WIDTH)
  <2>1. v \in Nat /\ v < H_SCREEN_TILE_SIZE * TILE_DOT_SIZE
    BY WrappedX, Screen
  <2> HIDE DEF v
  <2>2. v \div TILE_DOT_SIZE \in 0 .. H_SCREEN_TILE_SIZE - 1
    BY <2>1, Screen, QuotientBelow
  <2> QED
    BY <2>2 DEF TileX, v
<1>2. TileY(y) \in 0 .. Rows - 1
  <2> DEFINE v == Wrapped(y, VSCREEN_HEIGHT)
  <2>1. v \in Nat /\ v < Rows * TILE_DOT_SIZE
    BY WrappedY, Screen, ScreenRows
  <2> HIDE DEF v
  <2>2. v \div TILE_DOT_SIZE \in 0 .. Rows - 1
    BY <2>1, Screen, ScreenRows, QuotientBelow
  <2> QED
    BY <2>2 DEF TileY, v
<1>3. TileX(x) + TileY(y) * H_SCREEN_TILE_SIZE \in 0 .. TBL_SIZE - 1
  <2> DEFINE i == TileX(x)
             j == TileY(y)
             n == H_SCREEN_TILE_SIZE
  <2>1. i \in 0 .. n - 1 /\ j \in Nat /\ j + 1 <= Rows /\ Rows \in Nat /\ n \in Nat
        /\ Rows * n <= TBL_SIZE /\ TBL_SIZE \in Nat
    BY <1>1, <1>2, Screen, ScreenRows, Areas
  <2> HIDE DEF i, j, n
  <2>2. PICK d \in Nat : Rows = j + 1 + d
    <3>1. Rows - (j + 1) \in Nat /\ Rows = j + 1 + (Rows - (j + 1))
      BY <2>1
    <3> QED
      BY <3>1
  <2>3. Rows * n = j * n + n + d * n /\ j * n \in Nat /\ d * n \in Nat
    BY <2>1, <2>2
  <2>4. i + j * n \in 0 .. TBL_SIZE - 1
    BY <2>1, <2>3
  <2> QED
    BY <2>4 DEF i, j, n
<1>4. TableShift(x, y) \in 0 .. 3
  BY WrappedX, WrappedY DEF TableShift
<1> QED
  BY <1>1, <1>2, <1>3, <1>4

\* Half of an attribute group.
HalfOf(t) == IF t % ATTR_GROUP_UNIT < ATTR_GROUP_UNIT \div 2 THEN 0 ELSE 1

\* The attribute byte of a tile is one of its table's.
LEMMA AttrPlace ==
  ASSUME NEW i \in 0 .. H_SCREEN_TILE_SIZE - 1, NEW j \in 0 .. Rows - 1
  PROVE  (i \div ATTR_GROUP_UNIT) + (j \div ATTR_GROUP_UNIT) * ATTR_ROW \in 0 .. ATTR_TBL_SIZE - 1
<1> DEFINE c == ATTR_TBL_SIZE \div ATTR_ROW
           p == i \div ATTR_GROUP_UNIT
           q == j \div ATTR_GROUP_UNIT
           n == ATTR_ROW
<1>1. ATTR_TBL_SIZE \in Nat /\ n \in Nat /\ n > 0
  BY Areas, Screen
<1>2. c \in Nat /\ c * n <= ATTR_TBL_SIZE
  <2> DEFINE r == ATTR_TBL_SIZE % n
  <2>1. c \in Nat /\ r \in 0 .. n - 1 /\ ATTR_TBL_SIZE = c * n + r
    BY <1>1, Division
  <2>2. c * n \in Nat
    BY <1>1, <2>1
  <2> HIDE DEF r, c
  <2> QED
    BY <1>1, <2>1, <2>2
<1>3. p \in 0 .. n - 1
  BY Screen, QuotientBelow
<1>4. q \in 0 .. c - 1
  <2>1. j \in Nat /\ j < c * ATTR_GROUP_UNIT
    BY <1>2, Screen, ScreenRows
  <2> HIDE DEF c
  <2> QED
    BY <1>2, <2>1, Screen, QuotientBelow
<1> HIDE DEF c, p, q, n
<1>5. c - (q + 1) \in Nat /\ c = q + 1 + (c - (q + 1))
  BY <1>2, <1>4
<1>6. PICK d \in Nat : c = q + 1 + d
  BY <1>5
<1>7. c * n = q * n + n + d * n /\ q * n \in Nat /\ d * n \in Nat
  BY <1>1, <1>4, <1>6
<1>8. p + q * n \in 0 .. ATTR_TBL_SIZE - 1
  BY <1>1, <1>2, <1>3, <1>7
<1> QED
  BY <1>8 DEF p, q, n

\* Six tables behind the first the sum is still below VRAM_SIZE: the bank and the place
\* decoded from it, over the mirrors, are those it was made of.
LEMMA NameAddress ==
  ASSUME NEW k \in 0 .. 6, NEW o \in 0 .. TBL_SIZE - 1
  PROVE  CellAt((NAME0_START + k * TBL_SIZE + o) % VRAM_SIZE) = <<k % 2, o>>
<1> DEFINE T == TBL_SIZE
           s == NAME0_START + k * TBL_SIZE + o
           m == IF k >= 4 THEN k - 4 ELSE k
<1>1. /\ T \in Nat /\ T > 0 /\ NAME0_START = 8 * T /\ PATTERN_TBL_SIZE = 4 * T
      /\ MIRROR_START = 12 * T /\ VRAM_SIZE = 16 * T /\ o \in 0 .. T - 1
  BY Areas
<1>2. k \in {0, 1, 2, 3, 4, 5, 6}
  OBVIOUS
<1>3. s = 8 * T + k * T + o
  BY <1>1
<1> HIDE DEF T, s
<1>4. /\ s \in Nat /\ s < 16 * T
      /\ (s >= 12 * T <=> k >= 4)
      /\ (k >= 4 => s - 4 * T - 8 * T = m * T + o) /\ (k < 4 => s - 8 * T = m * T + o)
  BY <1>1, <1>2, <1>3
<1>5. m \in Nat /\ m % 2 = k % 2
  BY <1>2
<1>6. s % VRAM_SIZE = s
  <2>1. 16 * T \in Nat /\ 16 * T > 0
    BY <1>1
  <2> QED
    BY <1>1, <1>4, <2>1, SmallRemainder
<1>7. TableOffset(s) = m * T + o
  BY <1>1, <1>2, <1>4 DEF TableOffset
<1> HIDE DEF m
<1>8. (m * T + o) \div T = m /\ (m * T + o) % T = o
  BY <1>1, <1>5, Digits
<1>9. TableBank(s) = m % 2 /\ TableIndex(s) = o
  BY <1>7, <1>8 DEF TableBank, TableIndex, T
<1>10. InTables(s)
  <2>1. NAME0_START + 7 * T <= PALETTE_START
    BY BackgroundAssumption DEF T
  <2>2. s < PALETTE_START /\ ~(s < 8 * T)
    <3>1. PALETTE_START \in Nat
      BY Areas
    <3>2. s < 15 * T /\ s >= 8 * T
      BY <1>1, <1>2, <1>3
    <3> QED
      BY <1>1, <1>4, <2>1, <3>1, <3>2
  <2>3. 2 * PATTERN_TBL_SIZE = 8 * T
    BY <1>1
  <2> QED
    BY <2>2, <2>3 DEF InTables, InPattern
<1> QED
  BY <1>5, <1>6, <1>9, <1>10 DEF CellAt, s

-----------------------------------------------------------------------------
(* The tile of a place. *)

LEMMA SelectedTable ==
  ASSUME TypeOK, DerivedFromCtrl1
  PROVE  /\ ctrl_reg1.name_tbl_sel \in 0 .. 3 /\ bg_attr_tbl_bank = ctrl_reg1.name_tbl_sel
         /\ bg_name_tbl_base = NAME0_START + ctrl_reg1.name_tbl_sel * TBL_SIZE
         /\ bg_pattern_bank = ctrl_reg1.bg_ptn_addr_sel /\ bg_pattern_bank \in 0 .. 1
  BY DEF TypeOK, DerivedFromCtrl1, NameTblBase

LEMMA CellOfName ==
  ASSUME TypeOK, DerivedFromCtrl1, NEW x \in ScrolledX, NEW y \in ScrolledY
  PROVE  NameCell(x, y) = <<(ctrl_reg1.name_tbl_sel + TableShift(x, y)) % 2,
                            TileX(x) + TileY(y) * H_SCREEN_TILE_SIZE>>
<1> DEFINE sel == ctrl_reg1.name_tbl_sel
           k == sel + TableShift(x, y)
           o == TileX(x) + TileY(y) * H_SCREEN_TILE_SIZE
           a == (bg_name_tbl_base + TableShift(x, y) * TBL_SIZE + TileX(x)
                   + TileY(y) * H_SCREEN_TILE_SIZE)
<1>1. /\ k \in 0 .. 6 /\ o \in 0 .. TBL_SIZE - 1 /\ sel \in 0 .. 3 /\ TableShift(x, y) \in 0 .. 3
      /\ TileX(x) \in Nat /\ TileY(y) \in Nat /\ H_SCREEN_TILE_SIZE \in Nat
  BY TilePlace, SelectedTable, Screen, ScreenRows
<1>2. a = NAME0_START + k * TBL_SIZE + o
  <2> DEFINE p == TileY(y) * H_SCREEN_TILE_SIZE
  <2>1. p \in Nat
    BY <1>1
  <2>2. NAME0_START \in Nat /\ TBL_SIZE \in Nat
    BY Areas
  <2>3. k * TBL_SIZE = sel * TBL_SIZE + TableShift(x, y) * TBL_SIZE
    BY <1>1, <2>2
  <2>4. sel * TBL_SIZE \in Nat /\ TableShift(x, y) * TBL_SIZE \in Nat
    BY <1>1, <2>2
  <2>5. bg_name_tbl_base = NAME0_START + sel * TBL_SIZE
    BY SelectedTable
  <2> DEFINE kt == k * TBL_SIZE
             st == sel * TBL_SIZE
             ht == TableShift(x, y) * TBL_SIZE
             i == TileX(x)
  <2>6. kt = st + ht /\ st \in Nat /\ ht \in Nat /\ i \in Nat /\ bg_name_tbl_base = NAME0_START + st
    BY <1>1, <2>3, <2>4, <2>5
  <2> HIDE DEF p, kt, st, ht, i
  <2>7. bg_name_tbl_base + ht + i + p = NAME0_START + kt + (i + p)
    BY <2>1, <2>2, <2>6
  <2> QED
    BY <2>7 DEF p, kt, ht, i
<1>3. NameCell(x, y) = CellAt(a % VRAM_SIZE)
  BY DEF NameCell
<1> HIDE DEF a, k, o
<1>4. CellAt((NAME0_START + k * TBL_SIZE + o) % VRAM_SIZE) = <<k % 2, o>>
  BY <1>1, NameAddress
<1>5. NameCell(x, y) = <<k % 2, o>>
  BY <1>2, <1>3, <1>4
<1> QED
  BY <1>5 DEF k, o

LEMMA AttrShape ==
  ASSUME NEW x, NEW y
  PROVE  AttrCell(x, y) =
           <<(bg_attr_tbl_bank + TableShift(x, y)) % 2,
             (TileX(x) \div ATTR_GROUP_UNIT) + (TileY(y) \div ATTR_GROUP_UNIT) * ATTR_ROW,
             HalfOf(TileX(x)) + 2 * HalfOf(TileY(y))>>
  BY DEF AttrCell, HalfOf

LEMMA LoadedType ==
  ASSUME TypeOK, DerivedFromCtrl1, NEW x \in ScrolledX, NEW y \in ScrolledY
  PROVE  LoadedTile(x, y) \in Tiles /\ LoadedTile(x, y).name[1] = LoadedTile(x, y).attr[1]
<1> DEFINE sel == ctrl_reg1.name_tbl_sel
           b == (sel + TableShift(x, y)) % 2
           o == TileX(x) + TileY(y) * H_SCREEN_TILE_SIZE
           g == (TileX(x) \div ATTR_GROUP_UNIT) + (TileY(y) \div ATTR_GROUP_UNIT) * ATTR_ROW
           h == HalfOf(TileX(x)) + 2 * HalfOf(TileY(y))
<1>1. /\ sel \in 0 .. 3 /\ TableShift(x, y) \in 0 .. 3 /\ o \in 0 .. TBL_SIZE - 1
      /\ TileX(x) \in 0 .. H_SCREEN_TILE_SIZE - 1 /\ TileY(y) \in 0 .. Rows - 1
  BY TilePlace, SelectedTable
<1>2. b \in Bank
  BY <1>1 DEF Bank
<1>3. g \in 0 .. ATTR_TBL_SIZE - 1
  BY <1>1, AttrPlace
<1>4. h \in 0 .. 3
  BY DEF HalfOf
<1>5. NameCell(x, y) = <<b, o>>
  BY CellOfName
<1>6. AttrCell(x, y) = <<b, g, h>>
  BY AttrShape, SelectedTable
<1> HIDE DEF b, o, g, h
<1>7. LoadedTile(x, y) = [name |-> <<b, o>>, attr |-> <<b, g, h>>, bank |-> bg_pattern_bank]
  BY <1>5, <1>6 DEF LoadedTile
<1>8. bg_pattern_bank \in 0 .. 1
  BY SelectedTable
<1> QED
  BY <1>1, <1>2, <1>3, <1>4, <1>7, <1>8 DEF Tiles, o

\* The row of tiles is the plane's, in both pictures and below the second.
LEMMA RowOfPlane ==
  ASSUME NEW y \in ScrolledY
  PROVE  TileY(y) = PlaneRow(y)
<1>1. CASE y < 2 * VSCREEN_HEIGHT
  BY <1>1, WrappedY DEF TileY, PlaneRow
<1>2. CASE ~(y < 2 * VSCREEN_HEIGHT)
  <2>1. y \in Nat /\ y >= VSCREEN_HEIGHT
    BY <1>2, Screen DEF ScrolledY
  <2>2. Wrapped(y, VSCREEN_HEIGHT) = y - VSCREEN_HEIGHT
    BY <2>1 DEF Wrapped
  <2> QED
    BY <1>2, <2>2 DEF TileY, PlaneRow
<1> QED
  BY <1>1, <1>2

\* The tile is the plane's, its cell and the byte of its colours.
LEMMA LoadedIsPlanes ==
  ASSUME TypeOK, DerivedFromCtrl1, NEW x \in ScrolledX, NEW y \in ScrolledY
  PROVE  /\ LoadedTile(x, y).name = PlaneTile(x, y)
         /\ <<LoadedTile(x, y).attr[1], LoadedTile(x, y).attr[2]>> = PlaneColours(x, y)
         /\ LoadedTile(x, y).bank = ctrl_reg1.bg_ptn_addr_sel
<1> DEFINE sel == ctrl_reg1.name_tbl_sel
<1>1. TileX(x) = PlaneColumn(x)
  BY WrappedX DEF TileX, PlaneColumn
<1>2. TileY(y) = PlaneRow(y)
  BY RowOfPlane
<1>3. (sel + TableShift(x, y)) % 2 = PlaneTable(x)
  <2>1. sel \in 0 .. 3 /\ Right(x) \in 0 .. 1 /\ Below(y) \in 0 .. 1 /\ Right(x) = x \div VSCREEN_WIDTH
    BY SelectedTable, WrappedX, WrappedY
  <2> HIDE DEF sel
  <2>2. (sel + (Right(x) + 2 * Below(y))) % 2 = (sel + Right(x)) % 2
    BY <2>1
  <2> QED
    BY <2>1, <2>2 DEF TableShift, PlaneTable, sel
<1>4. TileX(x) + TileY(y) * H_SCREEN_TILE_SIZE = TileY(y) * H_SCREEN_TILE_SIZE + TileX(x)
  <2> DEFINE p == TileY(y) * H_SCREEN_TILE_SIZE
  <2>1. TileX(x) \in Nat /\ TileY(y) \in Nat /\ H_SCREEN_TILE_SIZE \in Nat
    BY TilePlace, Screen, ScreenRows
  <2>2. p \in Nat
    BY <2>1
  <2> HIDE DEF p
  <2>3. TileX(x) + p = p + TileX(x)
    BY <2>1, <2>2
  <2> QED
    BY <2>3 DEF p
<1>5. NameCell(x, y) = PlaneTile(x, y)
  BY <1>1, <1>2, <1>3, <1>4, CellOfName DEF PlaneTile
<1>6. (TileX(x) \div ATTR_GROUP_UNIT) + (TileY(y) \div ATTR_GROUP_UNIT) * ATTR_ROW
        = (TileY(y) \div ATTR_GROUP_UNIT) * ATTR_ROW + (TileX(x) \div ATTR_GROUP_UNIT)
  <2> DEFINE g == TileX(x) \div ATTR_GROUP_UNIT
             r == TileY(y) \div ATTR_GROUP_UNIT
             q == r * ATTR_ROW
  <2>1. TileX(x) \in Nat /\ TileY(y) \in Nat /\ ATTR_GROUP_UNIT \in Nat /\ ATTR_GROUP_UNIT > 0
        /\ ATTR_ROW \in Nat
    BY TilePlace, Screen, ScreenRows
  <2>2. g \in Nat /\ r \in Nat
    BY <2>1, Division
  <2> HIDE DEF g, r
  <2>3. q \in Nat
    BY <2>1, <2>2
  <2> HIDE DEF q
  <2>4. g + q = q + g
    BY <2>2, <2>3
  <2> QED
    BY <2>4 DEF g, q, r
<1>7. <<AttrCell(x, y)[1], AttrCell(x, y)[2]>> = PlaneColours(x, y)
  <2>1. AttrCell(x, y) = <<(sel + TableShift(x, y)) % 2,
                           (TileX(x) \div ATTR_GROUP_UNIT) + (TileY(y) \div ATTR_GROUP_UNIT) * ATTR_ROW,
                           HalfOf(TileX(x)) + 2 * HalfOf(TileY(y))>>
    BY AttrShape, SelectedTable
  <2> QED
    BY <1>1, <1>2, <1>3, <1>6, <2>1 DEF PlaneColours
<1> QED
  BY <1>5, <1>7, SelectedTable DEF LoadedTile

\* Within a tile the next dot has the same one.
LEMMA SameTile ==
  ASSUME NEW x \in ScrolledX, x + 1 \in ScrolledX, NEW y,
         Wrapped(x + 1, VSCREEN_WIDTH) % TILE_DOT_SIZE # 0
  PROVE  /\ LoadedTile(x + 1, y) = LoadedTile(x, y)
         /\ Wrapped(x + 1, VSCREEN_WIDTH) % TILE_DOT_SIZE
              = (Wrapped(x, VSCREEN_WIDTH) % TILE_DOT_SIZE) + 1
<1> DEFINE v == Wrapped(x, VSCREEN_WIDTH)
<1>1. x \in Nat /\ VSCREEN_WIDTH \in Nat /\ VSCREEN_WIDTH > 0 /\ v \in Nat
      /\ TILE_DOT_SIZE \in Nat /\ TILE_DOT_SIZE > 0
  BY Screen, WrappedX DEF ScrolledX
<1>2. x + 1 # VSCREEN_WIDTH
  <2>1. SUFFICES ASSUME x + 1 = VSCREEN_WIDTH PROVE FALSE
    OBVIOUS
  <2>2. Wrapped(x + 1, VSCREEN_WIDTH) = 0
    BY <1>1, <2>1 DEF Wrapped
  <2>3. 0 % TILE_DOT_SIZE = 0
    BY <1>1
  <2> QED
    BY <2>2, <2>3
<1>3. Wrapped(x + 1, VSCREEN_WIDTH) = v + 1 /\ Right(x + 1) = Right(x)
  BY <1>1, <1>2 DEF Wrapped, Right
<1> HIDE DEF v
<1>4. (v + 1) % TILE_DOT_SIZE = (v % TILE_DOT_SIZE) + 1 /\ (v + 1) \div TILE_DOT_SIZE = v \div TILE_DOT_SIZE
  <2> DEFINE q == v \div TILE_DOT_SIZE
             r == v % TILE_DOT_SIZE
             t == TILE_DOT_SIZE
  <2>1. q \in Nat /\ r \in 0 .. t - 1 /\ v = q * t + r
    BY <1>1, Division
  <2>2. (v + 1) % t # 0
    BY <1>3
  <2> HIDE DEF q, r
  <2>3. r + 1 # t
    <3>1. SUFFICES ASSUME r + 1 = t PROVE FALSE
      OBVIOUS
    <3>2. v + 1 = (q + 1) * t /\ q + 1 \in Nat /\ v + 1 \in Nat
      BY <1>1, <2>1, <3>1
    <3>3. (v + 1) % t = 0
      BY <1>1, <3>2, Multiple
    <3> QED
      BY <2>2, <3>3
  <2>4. r + 1 \in 0 .. t - 1
    BY <1>1, <2>1, <2>3
  <2>5. (q * t + (r + 1)) \div t = q /\ (q * t + (r + 1)) % t = r + 1
    BY <1>1, <2>1, <2>4, Digits
  <2>6. v + 1 = q * t + (r + 1)
    <3>1. q * t \in Nat
      BY <1>1, <2>1
    <3> QED
      BY <2>1, <3>1
  <2> QED
    BY <2>5, <2>6 DEF q, r
<1>5. TileX(x + 1) = TileX(x) /\ TableShift(x + 1, y) = TableShift(x, y)
  BY <1>3, <1>4 DEF TileX, TableShift, v
<1>6. NameCell(x + 1, y) = NameCell(x, y) /\ AttrCell(x + 1, y) = AttrCell(x, y)
  BY <1>5, AttrShape DEF NameCell
<1> QED
  BY <1>3, <1>4, <1>6 DEF LoadedTile, v

-----------------------------------------------------------------------------
(* The dots and the program. *)

\* The scrolled place of the beam.
PlaceX == scan_x + scroll_reg.x
PlaceY == scan_y + scroll_reg.y

\* How far into its tile the dot is.
Into == Wrapped(PlaceX, VSCREEN_WIDTH) % TILE_DOT_SIZE

\* Inside of a tile whose dots have all been drawn since the line or the last write began,
\* the tile in hand is the one of the place.
TileInv == Visible /\ show_bg /\ Into # 0 /\ age >= Into => tile = LoadedTile(PlaceX, PlaceY)

BgInv == BgTypeOK /\ DerivedFromCtrl1 /\ NameAndAttributesAgree

LEMMA PlaceInPicture ==
  ASSUME BgTypeOK, Visible
  PROVE  PlaceX \in ScrolledX /\ PlaceY \in ScrolledY
<1>1. scan_x \in Nat /\ scan_y \in Nat /\ scan_x < VSCREEN_WIDTH /\ scan_y < VSCREEN_HEIGHT
  BY Screen DEF BgTypeOK, Visible
<1>2. scroll_reg.x \in 0 .. BYTE - 1 /\ scroll_reg.y \in 0 .. BYTE - 1
  BY DEF BgTypeOK, TypeOK
<1> QED
  BY <1>1, <1>2, Screen DEF PlaceX, PlaceY, ScrolledX, ScrolledY

LEMMA IntoType ==
  ASSUME BgTypeOK, Visible
  PROVE  Into \in 0 .. TILE_DOT_SIZE - 1
         /\ Wrapped(PlaceY, VSCREEN_HEIGHT) % TILE_DOT_SIZE \in 0 .. TILE_DOT_SIZE - 1
<1>1. Wrapped(PlaceX, VSCREEN_WIDTH) \in Nat /\ Wrapped(PlaceY, VSCREEN_HEIGHT) \in Nat
  BY PlaceInPicture, WrappedX, WrappedY, Screen
<1> QED
  BY <1>1, Screen, Division DEF Into

LEMMA InitBg == BgInit => BgInv /\ TileInv
<1> SUFFICES ASSUME BgInit PROVE BgInv /\ TileInv
  OBVIOUS
<1>1. TypeOK /\ DerivedFromCtrl1
  BY InitType, InitDerived DEF BgInit
<1>2. /\ scan_x = 0 /\ scan_y = 0 /\ show_bg = FALSE /\ tile = NULL /\ dot = NULL /\ age = 0
  BY DEF BgInit
<1>3. 0 \in 0 .. HSCAN_MAX - 1 /\ 0 \in 0 .. VSCAN_MAX - 1 /\ 0 \in 0 .. TILE_DOT_SIZE
  BY Screen
<1>4. BgTypeOK
  BY <1>1, <1>2, <1>3 DEF BgTypeOK
<1> QED
  BY <1>1, <1>2, <1>4 DEF BgInv, NameAndAttributesAgree, TileInv

LEMMA BgNextIsNext == [BgNext]_bgVars => [Next]_vars
  BY DEF BgNext, ClockPpu, Write, Ctrl2Set, Next, bgVars

LEMMA BeamMoves ==
  ASSUME BgTypeOK, MoveBeam
  PROVE  /\ scan_x' \in 0 .. HSCAN_MAX - 1 /\ scan_y' \in 0 .. VSCAN_MAX - 1
         /\ scan_x' # 0 => scan_x' = scan_x + 1 /\ scan_y' = scan_y
<1>1. scan_x \in 0 .. HSCAN_MAX - 1 /\ scan_y \in 0 .. VSCAN_MAX - 1
  BY DEF BgTypeOK
<1> QED
  BY <1>1, Screen DEF MoveBeam

\* What a dot does to the tile and to what is drawn.
LEMMA LoadKeeps ==
  ASSUME BgInv, Visible, LoadBackground(PlaceX, PlaceY)
  PROVE  /\ tile' \in Tiles \cup {NULL}
         /\ dot' \in [tile : Tiles \cup {NULL}, x : 0 .. TILE_DOT_SIZE - 1, y : 0 .. TILE_DOT_SIZE - 1]
         /\ tile' # NULL => tile'.name[1] = tile'.attr[1]
<1>1. /\ LoadedTile(PlaceX, PlaceY) \in Tiles
      /\ LoadedTile(PlaceX, PlaceY).name[1] = LoadedTile(PlaceX, PlaceY).attr[1]
  BY PlaceInPicture, LoadedType DEF BgInv, BgTypeOK
<1>2. tile \in Tiles \cup {NULL} /\ (tile # NULL => tile.name[1] = tile.attr[1])
  BY DEF BgInv, BgTypeOK, NameAndAttributesAgree
<1>3. tile' = LoadedTile(PlaceX, PlaceY) \/ tile' = tile
  BY DEF LoadBackground
<1>4. tile' \in Tiles \cup {NULL} /\ (tile' # NULL => tile'.name[1] = tile'.attr[1])
  BY <1>1, <1>2, <1>3
<1>5. dot' = [tile |-> tile', x |-> Into, y |-> Wrapped(PlaceY, VSCREEN_HEIGHT) % TILE_DOT_SIZE]
  BY DEF LoadBackground, Into
<1> QED
  BY <1>4, <1>5, IntoType DEF BgInv

LEMMA ClockKeepsBg ==
  ASSUME BgInv, ClockPpu, TypeOK', DerivedFromCtrl1'
  PROVE  BgInv'
<1>1. /\ tile' \in Tiles \cup {NULL}
      /\ dot' \in [tile : Tiles \cup {NULL}, x : 0 .. TILE_DOT_SIZE - 1, y : 0 .. TILE_DOT_SIZE - 1]
                    \cup {NULL}
      /\ tile' # NULL => tile'.name[1] = tile'.attr[1]
  <2>1. CASE Visible /\ show_bg
    <3>1. LoadBackground(PlaceX, PlaceY)
      BY <2>1 DEF ClockPpu, PlaceX, PlaceY
    <3> QED
      BY <2>1, <3>1, LoadKeeps
  <2>2. CASE ~(Visible /\ show_bg)
    BY <2>2 DEF ClockPpu, BgInv, BgTypeOK, NameAndAttributesAgree
  <2> QED
    BY <2>1, <2>2
<1>2. scan_x' \in 0 .. HSCAN_MAX - 1 /\ scan_y' \in 0 .. VSCAN_MAX - 1
  BY BeamMoves DEF ClockPpu, BgInv
<1>3. age' \in 0 .. TILE_DOT_SIZE /\ show_bg' \in BOOLEAN
  <2>1. age \in 0 .. TILE_DOT_SIZE /\ show_bg \in BOOLEAN
    BY DEF BgInv, BgTypeOK
  <2> QED
    BY <2>1, Screen DEF ClockPpu
<1> QED
  BY <1>1, <1>2, <1>3 DEF BgInv, BgTypeOK, NameAndAttributesAgree

LEMMA NextBg == BgInv /\ [BgNext]_bgVars => BgInv'
<1> SUFFICES ASSUME BgInv, [BgNext]_bgVars PROVE BgInv'
  OBVIOUS
<1>1. TypeOK' /\ DerivedFromCtrl1'
  BY BgNextIsNext, NextType, NextDerived DEF BgInv, BgTypeOK
<1>2. CASE ClockPpu
  BY <1>1, <1>2, ClockKeepsBg
<1>3. CASE Write \/ Ctrl2Set \/ UNCHANGED bgVars
  <2>1. /\ UNCHANGED <<scan_x, scan_y, tile, dot>> /\ (age' = 0 \/ age' = age)
        /\ show_bg' \in BOOLEAN
    BY <1>3 DEF Write, Ctrl2Set, bgVars, beam, BgInv, BgTypeOK
  <2> QED
    BY <1>1, <2>1, Screen DEF BgInv, BgTypeOK, NameAndAttributesAgree
<1> QED
  BY <1>2, <1>3 DEF BgNext

\* A dot drawn a tile after the last disturbance has the tile of its place.
LEMMA TileInHand ==
  ASSUME BgInv, TileInv, Visible, show_bg, age >= Into, LoadBackground(PlaceX, PlaceY)
  PROVE  tile' = LoadedTile(PlaceX, PlaceY)
<1>1. AtTile(PlaceX) <=> Into = 0
  BY DEF AtTile, Into
<1> QED
  BY <1>1 DEF LoadBackground, TileInv

LEMMA ClockKeepsTile ==
  ASSUME BgInv, TileInv, ClockPpu
  PROVE  TileInv'
<1> SUFFICES ASSUME Visible', show_bg', Into' # 0, age' >= Into'
             PROVE  tile' = LoadedTile(PlaceX, PlaceY)'
  BY DEF TileInv
<1>1. UNCHANGED <<ctrl_reg1, scroll_reg, bg_name_tbl_base, bg_attr_tbl_bank, bg_pattern_bank, show_bg>>
  BY DEF ClockPpu, vars, derived
<1>2. PICK px, py : px = PlaceX' /\ py = PlaceY'
  OBVIOUS
<1>3. /\ px = scan_x' + scroll_reg.x /\ py = scan_y' + scroll_reg.y
      /\ Into' = Wrapped(px, VSCREEN_WIDTH) % TILE_DOT_SIZE
  BY <1>1, <1>2 DEF PlaceX, PlaceY, Into
<1>4. LoadedTile(PlaceX, PlaceY)' = LoadedTile(px, py)
  BY <1>1, <1>2 DEF LoadedTile, NameCell, AttrCell, TableShift, Right, Below, TileX, TileY, Wrapped
<1>5. /\ scan_x' < VSCREEN_WIDTH /\ scan_y' < VSCREEN_HEIGHT
      /\ scan_x' \in Nat /\ scan_y' \in Nat
      /\ scan_x' # 0 => scan_x' = scan_x + 1 /\ scan_y' = scan_y
  <2>1. scan_x' \in 0 .. HSCAN_MAX - 1 /\ scan_y' \in 0 .. VSCAN_MAX - 1
        /\ (scan_x' # 0 => scan_x' = scan_x + 1 /\ scan_y' = scan_y)
    BY BeamMoves DEF ClockPpu, BgInv
  <2> QED
    BY <2>1, Screen DEF Visible
<1>6. scroll_reg.x \in 0 .. BYTE - 1 /\ scroll_reg.y \in 0 .. BYTE - 1
  BY DEF BgInv, BgTypeOK, TypeOK
<1>7. px \in ScrolledX
  BY <1>3, <1>5, <1>6, Screen DEF ScrolledX
<1>8. Into' \in Nat
  <2>1. Wrapped(px, VSCREEN_WIDTH) \in Nat
    BY <1>7, WrappedX, Screen
  <2> QED
    BY <1>3, <2>1, Screen, Division
<1>9. scan_x' # 0 /\ age' <= age + 1 /\ age \in Nat
  <2>1. age \in 0 .. TILE_DOT_SIZE
    BY DEF BgInv, BgTypeOK
  <2>2. age' = IF scan_x' = 0 THEN 0 ELSE IF age < TILE_DOT_SIZE THEN age + 1 ELSE age
    BY DEF ClockPpu
  <2> QED
    BY <1>8, <2>1, <2>2, Screen
<1>10. scan_x' = scan_x + 1 /\ scan_y' = scan_y /\ Visible /\ show_bg
  <2>1. scan_x \in Nat
    BY DEF BgInv, BgTypeOK
  <2> QED
    BY <1>1, <1>5, <1>9, <2>1, Screen DEF Visible
<1>11. PlaceX \in ScrolledX /\ PlaceY \in ScrolledY /\ px = PlaceX + 1 /\ py = PlaceY
  <2>1. PlaceX \in ScrolledX /\ PlaceY \in ScrolledY
    BY <1>10, PlaceInPicture DEF BgInv
  <2>2. scan_x \in Nat /\ scroll_reg.x \in Nat
    BY <1>6, Screen DEF BgInv, BgTypeOK
  <2> QED
    BY <1>3, <1>10, <2>1, <2>2 DEF PlaceX, PlaceY
<1>12. LoadedTile(px, py) = LoadedTile(PlaceX, PlaceY) /\ Into' = Into + 1
  <2>1. PlaceX + 1 \in ScrolledX /\ Wrapped(PlaceX + 1, VSCREEN_WIDTH) % TILE_DOT_SIZE # 0
    BY <1>3, <1>7, <1>11
  <2> QED
    BY <1>3, <1>11, <2>1, SameTile DEF Into
<1>13. age >= Into
  <2>1. Into \in Nat /\ age' \in Nat
    <3>1. age' \in Nat
      BY <1>9 DEF ClockPpu
    <3> QED
      BY <1>10, <3>1, IntoType, Screen DEF BgInv
  <2> QED
    BY <1>9, <1>12, <2>1
<1>14. LoadBackground(PlaceX, PlaceY)
  BY <1>10 DEF ClockPpu, PlaceX, PlaceY
<1> QED
  BY <1>4, <1>10, <1>12, <1>13, <1>14, TileInHand

LEMMA NextTile == BgInv /\ TileInv /\ [BgNext]_bgVars => TileInv'
<1> SUFFICES ASSUME BgInv, TileInv, [BgNext]_bgVars PROVE TileInv'
  OBVIOUS
<1>1. CASE ClockPpu
  BY <1>1, ClockKeepsTile
<1>2. CASE Write \/ Ctrl2Set
  <2>1. age' = 0
    BY <1>2 DEF Write, Ctrl2Set
  <2>2. CASE Visible'
    <3>1. PICK px : px = PlaceX'
      OBVIOUS
    <3>2. BgTypeOK'
      BY NextBg DEF BgInv
    <3>3. /\ scan_x' \in Nat /\ scan_x' < VSCREEN_WIDTH /\ scroll_reg.x' \in 0 .. BYTE - 1
          /\ px = scan_x' + scroll_reg.x'
      BY <2>2, <3>1, <3>2, Screen DEF BgTypeOK, TypeOK, Visible, PlaceX
    <3>4. px \in ScrolledX
      BY <3>3, Screen DEF ScrolledX
    <3>5. Into' = Wrapped(px, VSCREEN_WIDTH) % TILE_DOT_SIZE
      BY <3>1 DEF Into
    <3>6. Wrapped(px, VSCREEN_WIDTH) \in Nat
      BY <3>4, WrappedX, Screen
    <3>7. Into' \in Nat
      BY <3>5, <3>6, Screen, Division
    <3> QED
      BY <2>1, <3>7 DEF TileInv
  <2> QED
    BY <2>2 DEF TileInv
<1>3. CASE UNCHANGED bgVars
  BY <1>3 DEF bgVars, vars, derived, beam, TileInv, Visible, Into, PlaceX, PlaceY, LoadedTile, NameCell,
              AttrCell
<1> QED
  BY <1>1, <1>2, <1>3 DEF BgNext

LEMMA StepFromPlane ==
  ASSUME BgInv, TileInv, [BgNext]_bgVars, Visible, show_bg, beam' # beam, age >= TILE_DOT_SIZE - 1
  PROVE  /\ <<dot'.tile.name, dot'.x, dot'.y>> = PlaneDot(PlaceX, PlaceY)
         /\ <<dot'.tile.attr[1], dot'.tile.attr[2]>> = PlaneColours(PlaceX, PlaceY)
         /\ dot'.tile.bank = ctrl_reg1.bg_ptn_addr_sel
<1>1. ClockPpu
  BY DEF BgNext, Write, Ctrl2Set, bgVars, beam
<1>2. LoadBackground(PlaceX, PlaceY)
  BY <1>1 DEF ClockPpu, PlaceX, PlaceY
<1>3. age >= Into
  <2>1. Into \in 0 .. TILE_DOT_SIZE - 1 /\ age \in Nat
    BY IntoType DEF BgInv, BgTypeOK
  <2> QED
    BY <2>1, Screen
<1>4. tile' = LoadedTile(PlaceX, PlaceY)
  BY <1>2, <1>3, TileInHand
<1>5. PlaceX \in ScrolledX /\ PlaceY \in ScrolledY
  BY PlaceInPicture DEF BgInv
<1>6. /\ tile'.name = PlaneTile(PlaceX, PlaceY) /\ tile'.bank = ctrl_reg1.bg_ptn_addr_sel
      /\ <<tile'.attr[1], tile'.attr[2]>> = PlaneColours(PlaceX, PlaceY)
  BY <1>4, <1>5, LoadedIsPlanes DEF BgInv, BgTypeOK
<1>7. /\ Wrapped(PlaceX, VSCREEN_WIDTH) % TILE_DOT_SIZE = PlaceX % TILE_DOT_SIZE
      /\ Wrapped(PlaceY, VSCREEN_HEIGHT) % TILE_DOT_SIZE = PlaceY % TILE_DOT_SIZE
  BY <1>5, WrappedX, WrappedY
<1>8. dot' = [tile |-> tile', x |-> PlaceX % TILE_DOT_SIZE, y |-> PlaceY % TILE_DOT_SIZE]
  BY <1>2, <1>7 DEF LoadBackground
<1> QED
  BY <1>6, <1>8 DEF PlaneDot

\* However far the program scrolls, and whichever tables it selects between two dots, the
\* background is loaded from a cell of a name table and a byte of an attribute table.
THEOREM BackgroundTyped == BgSpec => []BgTypeOK
<1>1. BgInv => BgTypeOK
  BY DEF BgInv
<1>2. BgInit => BgInv
  BY InitBg
<1> QED
  BY <1>1, <1>2, NextBg, PTL DEF BgSpec

\* The name of a tile, found by an address and its mirrors, and its colours, found by a bank
\* number, are of one table, for every size of the tables and every scroll.
THEOREM NamesAgreeWithAttributes == BgSpec => []NameAndAttributesAgree
<1>1. BgInv => NameAndAttributesAgree
  BY DEF BgInv
<1>2. BgInit => BgInv
  BY InitBg
<1> QED
  BY <1>1, <1>2, NextBg, PTL DEF BgSpec

\* Less than a tile after a line or a write of the program has begun, every dot is the one of
\* the scrolled place in the plane of the tables, across the edges of the pictures, the
\* mirrors of the tables and below the last row, in the colours of the attribute byte of that
\* place, and with the pattern bank of control register 1.
THEOREM BackgroundIsThePlane == BgSpec => DotIsFromPlane
<1>1. BgInit => BgInv /\ TileInv
  BY InitBg
<1>2. BgInv /\ TileInv /\ [BgNext]_bgVars => (BgInv /\ TileInv)'
  BY NextBg, NextTile
<1>3. BgInv /\ TileInv /\ [BgNext]_bgVars =>
        [Visible /\ show_bg /\ beam' # beam /\ age >= TILE_DOT_SIZE - 1 =>
           LET px == scan_x + scroll_reg.x
               py == scan_y + scroll_reg.y
           IN  /\ <<dot'.tile.name, dot'.x, dot'.y>> = PlaneDot(px, py)
               /\ <<dot'.tile.attr[1], dot'.tile.attr[2]>> = PlaneColours(px, py)
               /\ dot'.tile.bank = ctrl_reg1.bg_ptn_addr_sel]_bgVars
  BY StepFromPlane DEF PlaceX, PlaceY
<1> QED
  BY <1>1, <1>2, <1>3, PTL DEF BgSpec, DotIsFromPlane
=============================================================================
