-------------------------- MODULE PpuRegistersPort --------------------------
(* The registers and the tables implement the pointer over VRAM. *)
EXTENDS PpuRegisters, Sequences

\* The bytes of the tables by their first address.
CellValue(a) ==
    CASE InTables(a) /\ InName(a)  -> name_tbl[TableBank(a)][TableIndex(a)]
      [] InTables(a) /\ ~InName(a) -> attr_tbl[TableBank(a)][AttrIndex(a)]
      [] InPalette(a)              -> IF SpriteColour(a) THEN spr_palette_tbl[PaletteIndex(a)]
                                                         ELSE bg_palette_tbl[PaletteIndex(a)]

\* The cells of the map: two tables, and the palettes without the sprites' backdrops.
SpriteBackdrop(a) == InPalette(a) /\ SpriteColour(a) /\ IsBackdrop(PaletteIndex(a))

Cells ==
    NAME0_START .. NAME0_START + 2 * TBL_SIZE - 1
    \cup {a \in PALETTE_START .. PALETTE_START + 2 * PALETTE_TBL_SIZE - 1 : ~SpriteBackdrop(a)}

Port == INSTANCE VramPort WITH
    PATTERNS <- NAME0_START, TABLE <- TBL_SIZE,
    PALETTES <- PALETTE_START, PALETTE <- PALETTE_TBL_SIZE,
    Chr <- [a \in 0 .. NAME0_START - 1 |-> Pattern[a \div PATTERN_TBL_SIZE][a % PATTERN_TBL_SIZE]],
    cell <- [a \in Cells |-> CellValue(a)],
    pointer <- vram_addr_reg.s, step <- Inc(ctrl_reg1.addr_inc_size),
    primed <- vram_read_cnt = 1, failed <- critical_error

\* Reads and writes reach the cell the map names for the pointer, mirrors are the same
\* cell, no other cell changes, and the pointer moves by the increment that control
\* register 1 asks for; only the first read after an address answers 0.
ImplementsVramPort == Port!Spec

-----------------------------------------------------------------------------
(* A program's view of the address: the half of a pair it has written, and *)
(* where its pairs and its accesses have brought the pointer.                *)

VARIABLES halves, expected

NONE == ADDR_SIZE       \* half a pair has been written, or an access came between

historyVars == <<vars, halves, expected>>

HistoryInit == Init /\ halves = <<>> /\ expected = NONE

HistoryAddr(half) ==
    /\ VramAddrSet(half)
    /\ halves' = IF halves = <<>> THEN <<half>> ELSE <<>>
    /\ expected' = IF halves = <<>> \/ halves = <<NONE>> THEN NONE ELSE halves[1] * BYTE + half

HistoryStatus == StatusGet /\ halves' = <<>> /\ UNCHANGED expected

HistoryMove ==
    /\ PpuVramDataGet \/ \E data \in Data : PpuVramDataSet(data)
    /\ expected' = IF expected = NONE \/ vram_addr_reg' = vram_addr_reg THEN expected
                   ELSE (expected + Inc(ctrl_reg1.addr_inc_size)) % ADDR_SIZE
    /\ halves' = IF halves = <<>> THEN <<>> ELSE <<NONE>>

HistoryOther ==
    /\ \/ \E data \in Ctrl1 : Ctrl1Set(data)
       \/ \E data \in Data : ScrollSet(data) \/ SpriteAddrSet(data) \/ SpriteDataSet(data)
    /\ UNCHANGED <<halves, expected>>

HistoryNext ==
    \/ \E half \in Half : HistoryAddr(half)
    \/ HistoryStatus \/ HistoryMove \/ HistoryOther

HistorySpec == HistoryInit /\ [][HistoryNext]_historyVars

\* Two writes that follow a read of the status, or another pair, are the high and the
\* low half of the address, unless VRAM is accessed between them (the carry of its
\* increment changes the half that is written); and until the next write every access
\* advances from there.
PairSetsAddress == expected # NONE => vram_addr_reg.s = expected
=============================================================================
