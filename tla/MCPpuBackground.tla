-------------------------- MODULE MCPpuBackground ---------------------------
(* A picture of 4 by 3 tiles of 2 by 2 dots, with attributes for 2 by 2 tiles: *)
(* the proportions of the real one, that has 32 by 30 and attributes for 32.   *)
EXTENDS PpuBackground

MCPattern == [b \in 0 .. 1 |-> [i \in 0 .. PATTERN_TBL_SIZE - 1 |-> 0]]

Bits(name, bg) ==
    [name_tbl_sel |-> name, addr_inc_size |-> 0, sprite_ptn_sel |-> 0, bg_ptn_addr_sel |-> bg]

MCCtrl1 == {Bits(0, 0), Bits(1, 1), Bits(3, 0)}
=============================================================================
