--------------------------- MODULE MCPpuRegisters ---------------------------
(* Pattern tables of 16 bytes, name tables of 3 with an attribute byte, palettes *)
(* of 2 and a mirror of each area: the map of vram.h, 256 times smaller.         *)
EXTENDS PpuRegistersPort, FiniteSets

MCPattern == [b \in 0 .. 1 |-> [i \in 0 .. PATTERN_TBL_SIZE - 1 |-> (b + i) % 2]]

Bits(name, inc, spr, bg) ==
    [name_tbl_sel |-> name, addr_inc_size |-> inc, sprite_ptn_sel |-> spr, bg_ptn_addr_sel |-> bg]

MCCtrl1 == {Bits(0, 0, 0, 0), Bits(0, 1, 0, 0), Bits(1, 0, 1, 0), Bits(3, 1, 0, 1), Bits(2, 0, 0, 1)}

\* Bounds: one cell of VRAM differs from 0, and only while the other registers and the
\* sprites have not been used; a store to a pattern table is the last one.
Blank == \A a \in Cells : CellValue(a) = 0

OneCell == Cardinality({a \in Cells : CellValue(a) # 0}) <= 1

Untouched ==
    /\ ctrl_reg1 \in {Bits(0, 0, 0, 0), Bits(0, 1, 0, 0)}
    /\ scroll_reg = [x |-> 0, y |-> 0, cnt |-> 0]
    /\ sprite_ram_addr_reg = 0 /\ sprite_cnt = 0 /\ \A i \in DOMAIN sprite_ram : sprite_ram[i] = 0

Bound ==
    /\ OneCell /\ ~critical_error
    /\ Untouched \/ (Blank /\ vram_addr_reg.s = 0 /\ vram_addr_reg.cnt = 0 /\ vram_read_cnt = 0)
=============================================================================
