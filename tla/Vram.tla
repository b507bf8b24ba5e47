-------------------------------- MODULE Vram --------------------------------
(***************************************************************************)
(* The PPU's memory (emulator/ppucore/vram.c): pattern tables, that come   *)
(* from the cartridge, name and attribute tables, two of each behind four  *)
(* banks, and the palettes.  A program and the background both reach it    *)
(* through vram_data_get, a program through vram_data_set.                 *)
(***************************************************************************)
EXTENDS Naturals

CONSTANTS
    PATTERN_TBL_SIZE, NAME_TBL_SIZE, ATTR_TBL_SIZE, PALETTE_TBL_SIZE,
    PALETTE_START,
    BACKDROP_STEP,          \* every so many sprite colours one is the background's
    Byte,
    Pattern                 \* the bytes of CHR-ROM, by bank and offset

VARIABLES name_tbl, attr_tbl, bg_palette_tbl, spr_palette_tbl, critical_error

tables == <<name_tbl, attr_tbl, bg_palette_tbl, spr_palette_tbl>>

TBL_SIZE     == NAME_TBL_SIZE + ATTR_TBL_SIZE       \* a name table and its attributes
NAME0_START  == 2 * PATTERN_TBL_SIZE
MIRROR_START == 3 * PATTERN_TBL_SIZE                \* 0x3000, the bit NAME_ATTR_MASK clears
VRAM_SIZE    == 4 * PATTERN_TBL_SIZE                \* PPU_ADDR_MASK, plus 1

ASSUME VramAssumption ==
    /\ PATTERN_TBL_SIZE \in Nat /\ NAME_TBL_SIZE \in Nat /\ NAME_TBL_SIZE > 0
    /\ ATTR_TBL_SIZE \in Nat /\ ATTR_TBL_SIZE > 0
    /\ PATTERN_TBL_SIZE = 4 * TBL_SIZE
    /\ PALETTE_TBL_SIZE \in Nat /\ PALETTE_TBL_SIZE > 0
    /\ BACKDROP_STEP \in Nat /\ BACKDROP_STEP > 0
    /\ PALETTE_START \in MIRROR_START .. VRAM_SIZE - 2 * PALETTE_TBL_SIZE
    /\ PALETTE_START % (2 * PALETTE_TBL_SIZE) = 0 /\ PALETTE_TBL_SIZE % BACKDROP_STEP = 0
    /\ 0 \in Byte
    /\ Pattern \in [0 .. 1 -> [0 .. PATTERN_TBL_SIZE - 1 -> Byte]]

Bank == 0 .. 1

\* name_tbl2 is name_tbl0, name_tbl3 is name_tbl1, and so for the attributes.
InitVram ==
    /\ name_tbl = [b \in Bank |-> [i \in 0 .. NAME_TBL_SIZE - 1 |-> 0]]
    /\ attr_tbl = [b \in Bank |-> [i \in 0 .. ATTR_TBL_SIZE - 1 |-> 0]]
    /\ bg_palette_tbl  = [i \in 0 .. PALETTE_TBL_SIZE - 1 |-> 0]
    /\ spr_palette_tbl = [i \in 0 .. PALETTE_TBL_SIZE - 1 |-> 0]
    /\ critical_error = FALSE

-----------------------------------------------------------------------------
(* The decoding of an address that is below VRAM_SIZE. *)

InPattern(a) == a < 2 * PATTERN_TBL_SIZE
InPalette(a) == ~InPattern(a) /\ a >= PALETTE_START
InTables(a)  == ~InPattern(a) /\ a < PALETTE_START

\* PALETTE_SPRITE_BIT
SpriteColour(a) == (a \div PALETTE_TBL_SIZE) % 2 = 1

\* Colours 0, 4, 8 and c of the sprites are those of the background.
IsBackdrop(i) == i % BACKDROP_STEP = 0

\* The place in the four tables, after NAME_ATTR_MASK.
TableOffset(a) == (IF a >= MIRROR_START THEN a - PATTERN_TBL_SIZE ELSE a) - NAME0_START

TableBank(a)  == (TableOffset(a) \div TBL_SIZE) % 2
TableIndex(a) == TableOffset(a) % TBL_SIZE
InName(a)     == TableIndex(a) < NAME_TBL_SIZE
AttrIndex(a)  == TableIndex(a) - NAME_TBL_SIZE

PaletteIndex(a) == a % PALETTE_TBL_SIZE

\* Mutant of VramDataGet: a sprite's backdrop is read from its own palette.
MutVramDataGet(addr) ==
    LET a == addr % VRAM_SIZE
        p == PaletteIndex(a)
    IN  CASE InPattern(a) -> Pattern[a \div PATTERN_TBL_SIZE][a % PATTERN_TBL_SIZE]
          [] InPalette(a) -> IF SpriteColour(a)
                               THEN spr_palette_tbl[p]
                               ELSE bg_palette_tbl[p]
          [] InTables(a)  -> IF InName(a)
                               THEN name_tbl[TableBank(a)][TableIndex(a)]
                               ELSE attr_tbl[TableBank(a)][AttrIndex(a)]

VramDataGet(addr) ==
    LET a == addr % VRAM_SIZE
        p == PaletteIndex(a)
    IN  CASE InPattern(a) -> Pattern[a \div PATTERN_TBL_SIZE][a % PATTERN_TBL_SIZE]
          [] InPalette(a) -> IF SpriteColour(a) /\ ~IsBackdrop(p)
                               THEN spr_palette_tbl[p]
                               ELSE bg_palette_tbl[p]
          [] InTables(a)  -> IF InName(a)
                               THEN name_tbl[TableBank(a)][TableIndex(a)]
                               ELSE attr_tbl[TableBank(a)][AttrIndex(a)]

\* A store to a pattern table is an error.
VramDataSet(addr, data) ==
    LET a == addr % VRAM_SIZE
        p == PaletteIndex(a)
        sprite == SpriteColour(a) /\ ~IsBackdrop(p)
    IN  /\ name_tbl' = IF InTables(a) /\ InName(a)
                         THEN [name_tbl EXCEPT ![TableBank(a)][TableIndex(a)] = data]
                         ELSE name_tbl
        /\ attr_tbl' = IF InTables(a) /\ ~InName(a)
                         THEN [attr_tbl EXCEPT ![TableBank(a)][AttrIndex(a)] = data]
                         ELSE attr_tbl
        /\ spr_palette_tbl' = IF InPalette(a) /\ sprite
                                THEN [spr_palette_tbl EXCEPT ![p] = data]
                                ELSE spr_palette_tbl
        /\ bg_palette_tbl' = IF InPalette(a) /\ ~sprite
                               THEN [bg_palette_tbl EXCEPT ![p] = data]
                               ELSE bg_palette_tbl
        /\ critical_error' = (critical_error \/ InPattern(a))

VramType ==
    /\ name_tbl \in [Bank -> [0 .. NAME_TBL_SIZE - 1 -> Byte]]
    /\ attr_tbl \in [Bank -> [0 .. ATTR_TBL_SIZE - 1 -> Byte]]
    /\ bg_palette_tbl \in [0 .. PALETTE_TBL_SIZE - 1 -> Byte]
    /\ spr_palette_tbl \in [0 .. PALETTE_TBL_SIZE - 1 -> Byte]
    /\ critical_error \in BOOLEAN
=============================================================================
