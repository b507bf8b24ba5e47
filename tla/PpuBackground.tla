--------------------------- MODULE PpuBackground ----------------------------
(***************************************************************************)
(* The background under the beam (load_background in emulator/ppucore/     *)
(* vscreen.c, load_attribute in vram.c), composed with the registers the   *)
(* program may write between any two dots.  The tile is loaded where the   *)
(* scrolled x is a multiple of TILE_DOT_SIZE, and kept for the dots behind.*)
(*                                                                         *)
(* What VRAM holds is left out: a tile is known by the cells it was loaded *)
(* from, a dot by its tile and its place in it.                            *)
(***************************************************************************)
EXTENDS PpuRegisters

CONSTANTS
    HSCAN_MAX, VSCAN_MAX, VSCREEN_WIDTH, VSCREEN_HEIGHT, TILE_DOT_SIZE,
    H_SCREEN_TILE_SIZE,     \* tiles of a row
    ATTR_GROUP_UNIT,        \* an attribute byte is for so many tiles by so many
    ATTR_ROW,               \* attribute bytes of a row
    NULL

VARIABLES
    scan_x, scan_y, show_bg,
    tile,           \* bg_ptn and bg_plt
    dot,            \* the background dot drawn last
    age             \* history: dots drawn since the line or the last write began

beam    == <<scan_x, scan_y>>
bgVars  == <<vars, beam, show_bg, tile, dot, age>>

ASSUME BackgroundAssumption ==
    /\ TILE_DOT_SIZE \in Nat /\ TILE_DOT_SIZE > 0 /\ ATTR_GROUP_UNIT \in Nat /\ ATTR_GROUP_UNIT > 0
    /\ ATTR_ROW \in Nat /\ ATTR_ROW > 0 /\ H_SCREEN_TILE_SIZE = ATTR_ROW * ATTR_GROUP_UNIT
    /\ VSCREEN_WIDTH = H_SCREEN_TILE_SIZE * TILE_DOT_SIZE
    /\ VSCREEN_HEIGHT \in Nat /\ VSCREEN_HEIGHT > 0 /\ VSCREEN_HEIGHT % TILE_DOT_SIZE = 0
    /\ NAME_TBL_SIZE = H_SCREEN_TILE_SIZE * (VSCREEN_HEIGHT \div TILE_DOT_SIZE)
    /\ HSCAN_MAX \in Nat /\ VSCREEN_WIDTH < HSCAN_MAX
    /\ VSCAN_MAX \in Nat /\ VSCREEN_HEIGHT < VSCAN_MAX
    \* The scroll reaches over one picture, and not over its table and the attributes behind.
    /\ BYTE <= VSCREEN_WIDTH /\ VSCREEN_HEIGHT <= BYTE /\ BYTE % TILE_DOT_SIZE = 0
    /\ (BYTE \div TILE_DOT_SIZE) * H_SCREEN_TILE_SIZE <= TBL_SIZE
    /\ BYTE \div TILE_DOT_SIZE <= (ATTR_TBL_SIZE \div ATTR_ROW) * ATTR_GROUP_UNIT
    \* Three tables behind the last one the addresses are still below the palettes'.
    /\ NAME0_START + 7 * TBL_SIZE <= PALETTE_START

BgInit ==
    /\ Init
    /\ scan_x = 0 /\ scan_y = 0 /\ show_bg = FALSE
    /\ tile = NULL /\ dot = NULL
    /\ age = 0

-----------------------------------------------------------------------------
(* One dot of the background. *)

\* Where the dot is: beyond the right edge, beyond the lower one.
Right(x) == IF x >= VSCREEN_WIDTH THEN 1 ELSE 0
Below(y) == IF y >= VSCREEN_HEIGHT THEN 1 ELSE 0

\* How many tables behind the one of control register 1.
TableShift(x, y) == Right(x) + 2 * Below(y)

\* Past the edge, by one picture at most.
Wrapped(v, size) == IF v >= size THEN v - size ELSE v

TileX(x) == Wrapped(x, VSCREEN_WIDTH) \div TILE_DOT_SIZE

\* Mutant of TileY: a row below the screen is not brought back.
MutTileY(y) == y \div TILE_DOT_SIZE

TileY(y) == Wrapped(y, VSCREEN_HEIGHT) \div TILE_DOT_SIZE

\* What vram_data_get reads at an address: a cell of the tables, or else the byte of a
\* pattern or of a palette, known by its address alone.
CellAt(a) == IF InTables(a) THEN <<TableBank(a), TableIndex(a)>> ELSE <<a>>

\* The cell a tile's name is read from; a row below the table's last is one of attributes.
NameCell(x, y) ==
    CellAt((bg_name_tbl_base + TableShift(x, y) * TBL_SIZE + TileX(x)
              + TileY(y) * H_SCREEN_TILE_SIZE) % VRAM_SIZE)

\* Mutant of AttrCell: the bank is that of the control register, wherever the tile is.
MutAttrCell(x, y) ==
    LET Half2(t) == IF t % ATTR_GROUP_UNIT < ATTR_GROUP_UNIT \div 2 THEN 0 ELSE 1
    IN  <<bg_attr_tbl_bank % 2,
          (TileX(x) \div ATTR_GROUP_UNIT) + (TileY(y) \div ATTR_GROUP_UNIT) * ATTR_ROW,
          Half2(TileX(x)) + 2 * Half2(TileY(y))>>

\* The attribute byte, by table and offset, and which of its four parts.
AttrCell(x, y) ==
    LET Half2(t) == IF t % ATTR_GROUP_UNIT < ATTR_GROUP_UNIT \div 2 THEN 0 ELSE 1
    IN  <<(bg_attr_tbl_bank + TableShift(x, y)) % 2,
          (TileX(x) \div ATTR_GROUP_UNIT) + (TileY(y) \div ATTR_GROUP_UNIT) * ATTR_ROW,
          Half2(TileX(x)) + 2 * Half2(TileY(y))>>

LoadedTile(x, y) ==
    [name |-> NameCell(x, y), attr |-> AttrCell(x, y), bank |-> bg_pattern_bank]

\* Mutant of AtTile: a tile is loaded where the screen has one.
MutAtTile(x) == scan_x % TILE_DOT_SIZE = 0

AtTile(x) == Wrapped(x, VSCREEN_WIDTH) % TILE_DOT_SIZE = 0

LoadBackground(x, y) ==
    /\ tile' = IF AtTile(x) THEN LoadedTile(x, y) ELSE tile
    /\ dot' = [tile |-> tile', x |-> Wrapped(x, VSCREEN_WIDTH) % TILE_DOT_SIZE,
               y |-> Wrapped(y, VSCREEN_HEIGHT) % TILE_DOT_SIZE]

Visible == scan_x < VSCREEN_WIDTH /\ scan_y < VSCREEN_HEIGHT

MoveBeam ==
    /\ scan_x' = IF scan_x + 1 = HSCAN_MAX THEN 0 ELSE scan_x + 1
    /\ scan_y' = IF scan_x + 1 # HSCAN_MAX THEN scan_y
                 ELSE IF scan_y + 1 = VSCAN_MAX THEN 0 ELSE scan_y + 1

\* clock_ppu
ClockPpu ==
    /\ IF Visible /\ show_bg
         THEN LoadBackground(scan_x + scroll_reg.x, scan_y + scroll_reg.y)
         ELSE UNCHANGED <<tile, dot>>
    /\ MoveBeam
    /\ age' = IF scan_x' = 0 THEN 0 ELSE IF age < TILE_DOT_SIZE THEN age + 1 ELSE age
    /\ UNCHANGED <<vars, show_bg>>

-----------------------------------------------------------------------------
(* The program, between two dots. *)

Write ==
    /\ \/ \E data \in Ctrl1 : Ctrl1Set(data)
       \/ \E data \in Data : ScrollSet(data)
    /\ age' = 0
    /\ UNCHANGED <<beam, show_bg, tile, dot>>

Ctrl2Set ==
    /\ show_bg' \in BOOLEAN
    /\ age' = 0
    /\ UNCHANGED <<vars, beam, tile, dot>>

BgNext == ClockPpu \/ Write \/ Ctrl2Set

BgSpec == BgInit /\ [][BgNext]_bgVars

-----------------------------------------------------------------------------
(* Properties. *)

Tiles == [name : Bank \X (0 .. TBL_SIZE - 1),
          attr : Bank \X (0 .. ATTR_TBL_SIZE - 1) \X (0 .. 3),
          bank : 0 .. 1]

\* However far the scroll reaches a name is read from a cell of the tables, never from a
\* palette or a pattern, and the colours from a byte of an attribute table.
BgTypeOK ==
    /\ TypeOK
    /\ scan_x \in 0 .. HSCAN_MAX - 1 /\ scan_y \in 0 .. VSCAN_MAX - 1 /\ show_bg \in BOOLEAN
    /\ tile \in Tiles \cup {NULL}
    /\ dot \in [tile : Tiles \cup {NULL}, x : 0 .. TILE_DOT_SIZE - 1, y : 0 .. TILE_DOT_SIZE - 1]
                 \cup {NULL}
    /\ age \in 0 .. TILE_DOT_SIZE

\* A tile's name and its colours come from the same table, though the one goes through
\* an address and its mirrors and the other through a bank number, and both are set apart.
NameAndAttributesAgree == tile # NULL => tile.name[1] = tile.attr[1]

\* The plane the picture is a window of: two pictures wide and two high, the table
\* selected and its neighbour side by side, and the same ones again below.
PlaneTable(px) == (ctrl_reg1.name_tbl_sel + (px \div VSCREEN_WIDTH)) % 2

PlaneColumn(px) == (px % VSCREEN_WIDTH) \div TILE_DOT_SIZE

\* Below the second picture its table goes on: rows of tiles made of its attribute bytes,
\* and behind the last of its rows of attributes those that no picture has.
PlaneRow(py) ==
    IF py < 2 * VSCREEN_HEIGHT THEN (py % VSCREEN_HEIGHT) \div TILE_DOT_SIZE
                               ELSE (py - VSCREEN_HEIGHT) \div TILE_DOT_SIZE

PlaneTile(px, py) == <<PlaneTable(px), PlaneRow(py) * H_SCREEN_TILE_SIZE + PlaneColumn(px)>>

PlaneDot(px, py) == <<PlaneTile(px, py), px % TILE_DOT_SIZE, py % TILE_DOT_SIZE>>

PlaneColours(px, py) ==
    <<PlaneTable(px),
      (PlaneRow(py) \div ATTR_GROUP_UNIT) * ATTR_ROW + (PlaneColumn(px) \div ATTR_GROUP_UNIT)>>

\* Less than a tile after a line or a write has begun, every dot is the plane's at the
\* scrolled place, in every table, over the edges and below the last row, in the colours
\* of its own part of the plane and with the current pattern bank.
DotIsFromPlane ==
    [][Visible /\ show_bg /\ beam' # beam /\ age >= TILE_DOT_SIZE - 1 =>
         LET px == scan_x + scroll_reg.x
             py == scan_y + scroll_reg.y
         IN  /\ <<dot'.tile.name, dot'.x, dot'.y>> = PlaneDot(px, py)
             /\ <<dot'.tile.attr[1], dot'.tile.attr[2]>> = PlaneColours(px, py)
             /\ dot'.tile.bank = ctrl_reg1.bg_ptn_addr_sel]_bgVars
=============================================================================
