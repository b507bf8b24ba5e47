---------------------------- MODULE PpuRegisters ----------------------------
(***************************************************************************)
(* The PPU's registers as the CPU writes and reads them (emulator/ppucore/ *)
(* ppucore.c): control register 1 with the values derived from it, the     *)
(* VRAM address and data, the scroll and the sprite registers.  What the   *)
(* status says, and control register 2, belong to the beam: PpuScan.       *)
(* vram_ignore, that would suppress a write, is never set.                 *)
(***************************************************************************)
EXTENDS Vram

CONSTANTS
    BYTE,                   \* the number of bytes; the address register has two
    LINE_INC,               \* 32
    SPRITE_RAM_SIZE, SPRITE_SIZE,
    Ctrl1, Half, Data       \* bounds: what is written to control register 1, to the
                            \* VRAM address, and to any other

VARIABLES
    ctrl_reg1,
    bg_pattern_bank, spr_pattern_bank, vram_addr_inc,   \* derived from it
    bg_name_tbl_base, bg_attr_tbl_bank,
    vram_addr_reg,          \* the address and its count of one bit
    vram_read_cnt,          \* 0, or 1 for any other: its 32 bits are not used up
    read,                   \* what the last access of VRAM got: <<>> if it was a write
    scroll_reg,
    sprite_ram, sprite_ram_addr_reg, sprite_cnt

derived == <<bg_pattern_bank, spr_pattern_bank, vram_addr_inc, bg_name_tbl_base, bg_attr_tbl_bank>>
port    == <<vram_addr_reg, vram_read_cnt, read>>
sprites == <<sprite_ram, sprite_ram_addr_reg, sprite_cnt>>
vars    == <<tables, critical_error, ctrl_reg1, derived, port, scroll_reg, sprites>>

ADDR_SIZE == BYTE * BYTE

ASSUME RegistersAssumption ==
    /\ BYTE \in Nat /\ BYTE > 0 /\ LINE_INC \in Nat
    /\ SPRITE_RAM_SIZE \in Nat /\ SPRITE_RAM_SIZE > 0 /\ SPRITE_SIZE \in Nat /\ SPRITE_SIZE > 0
    /\ Byte \subseteq 0 .. BYTE - 1 /\ Half \subseteq 0 .. BYTE - 1 /\ Data \subseteq Byte
    /\ Ctrl1 \subseteq [name_tbl_sel : 0 .. 3, addr_inc_size : 0 .. 1, sprite_ptn_sel : 0 .. 1,
                        bg_ptn_addr_sel : 0 .. 1]

NameTblBase(sel) == NAME0_START + sel * TBL_SIZE

Inc(size) == IF size = 0 THEN 1 ELSE LINE_INC

Init ==
    /\ InitVram
    /\ ctrl_reg1 = [name_tbl_sel |-> 0, addr_inc_size |-> 0, sprite_ptn_sel |-> 0,
                    bg_ptn_addr_sel |-> 0]
    /\ bg_pattern_bank = 0 /\ spr_pattern_bank = 0 /\ vram_addr_inc = 1
    /\ bg_name_tbl_base = NAME0_START /\ bg_attr_tbl_bank = 0
    /\ vram_addr_reg = [s |-> 0, cnt |-> 0] /\ vram_read_cnt = 0 /\ read = <<>>
    /\ scroll_reg = [x |-> 0, y |-> 0, cnt |-> 0]
    /\ sprite_ram = [i \in 0 .. SPRITE_RAM_SIZE - 1 |-> 0]
    /\ sprite_ram_addr_reg = 0 /\ sprite_cnt = 0

-----------------------------------------------------------------------------

\* Mutant of Ctrl1Set: the name table is looked at only when the increment changes.
MutCtrl1Set(data) ==
    LET Differs(field) == ctrl_reg1[field] # data[field]
    IN  /\ ctrl_reg1' = data
        /\ bg_pattern_bank' = IF Differs("bg_ptn_addr_sel") THEN data.bg_ptn_addr_sel ELSE bg_pattern_bank
        /\ spr_pattern_bank' = IF Differs("sprite_ptn_sel") THEN data.sprite_ptn_sel ELSE spr_pattern_bank
        /\ vram_addr_inc' = IF Differs("addr_inc_size") THEN Inc(data.addr_inc_size) ELSE vram_addr_inc
        /\ IF Differs("addr_inc_size")
             THEN /\ bg_name_tbl_base' = NameTblBase(data.name_tbl_sel)
                  /\ bg_attr_tbl_bank' = data.name_tbl_sel
             ELSE UNCHANGED <<bg_name_tbl_base, bg_attr_tbl_bank>>
        /\ UNCHANGED <<tables, critical_error, port, scroll_reg, sprites>>

\* Only what differs from the old value is derived again.
Ctrl1Set(data) ==
    LET Differs(field) == ctrl_reg1[field] # data[field]
    IN  /\ ctrl_reg1' = data
        /\ bg_pattern_bank' = IF Differs("bg_ptn_addr_sel") THEN data.bg_ptn_addr_sel ELSE bg_pattern_bank
        /\ spr_pattern_bank' = IF Differs("sprite_ptn_sel") THEN data.sprite_ptn_sel ELSE spr_pattern_bank
        /\ vram_addr_inc' = IF Differs("addr_inc_size") THEN Inc(data.addr_inc_size) ELSE vram_addr_inc
        /\ IF Differs("name_tbl_sel")
             THEN /\ bg_name_tbl_base' = NameTblBase(data.name_tbl_sel)
                  /\ bg_attr_tbl_bank' = data.name_tbl_sel
             ELSE UNCHANGED <<bg_name_tbl_base, bg_attr_tbl_bank>>
        /\ UNCHANGED <<tables, critical_error, port, scroll_reg, sprites>>

\* Mutant of StatusGet: the address count is not reset.
MutStatusGet == UNCHANGED vars

\* The address count is reset, the scroll's is not.
StatusGet ==
    /\ vram_addr_reg' = [vram_addr_reg EXCEPT !.cnt = 0]
    /\ UNCHANGED <<tables, critical_error, ctrl_reg1, derived, vram_read_cnt, read, scroll_reg, sprites>>

\* The high half first; an address begins a new series of reads.
VramAddrSet(half) ==
    LET s == vram_addr_reg.s
    IN  /\ vram_addr_reg' =
             IF vram_addr_reg.cnt = 0
               THEN [s |-> half * BYTE + (s % BYTE), cnt |-> 1]
               ELSE [s |-> (s \div BYTE) * BYTE + half, cnt |-> 0]
        /\ vram_read_cnt' = 0
        /\ UNCHANGED <<tables, critical_error, ctrl_reg1, derived, read, scroll_reg, sprites>>

\* Mutant of Advance: the address is wider than its 16 bits.
MutAdvance == vram_addr_reg' = [vram_addr_reg EXCEPT !.s = @ + vram_addr_inc]

Advance == vram_addr_reg' = [vram_addr_reg EXCEPT !.s = (@ + vram_addr_inc) % ADDR_SIZE]

PpuVramDataSet(data) ==
    /\ VramDataSet(vram_addr_reg.s, data)
    /\ Advance
    /\ read' = <<>>
    /\ UNCHANGED <<ctrl_reg1, derived, vram_read_cnt, scroll_reg, sprites>>

\* The first read of a series gets 0 and does not advance.
PpuVramDataGet ==
    /\ IF vram_read_cnt = 0
         THEN read' = <<0>> /\ vram_read_cnt' = 1 /\ UNCHANGED vram_addr_reg
         ELSE read' = <<VramDataGet(vram_addr_reg.s)>> /\ UNCHANGED vram_read_cnt /\ Advance
    /\ UNCHANGED <<tables, critical_error, ctrl_reg1, derived, scroll_reg, sprites>>

ScrollSet(data) ==
    /\ scroll_reg' = IF scroll_reg.cnt = 0
                       THEN [scroll_reg EXCEPT !.x = data, !.cnt = 1]
                       ELSE [scroll_reg EXCEPT !.y = data, !.cnt = 0]
    /\ UNCHANGED <<tables, critical_error, ctrl_reg1, derived, port, sprites>>

SpriteAddrSet(addr) ==
    /\ sprite_ram_addr_reg' = addr /\ sprite_cnt' = 0
    /\ UNCHANGED <<tables, critical_error, ctrl_reg1, derived, port, scroll_reg, sprite_ram>>

\* The address stays; the count of two bits says which byte of a sprite it is.
SpriteDataSet(data) ==
    /\ sprite_ram' =
         [sprite_ram EXCEPT ![(sprite_ram_addr_reg + sprite_cnt) % SPRITE_RAM_SIZE] = data]
    /\ sprite_cnt' = (sprite_cnt + 1) % SPRITE_SIZE
    /\ UNCHANGED <<tables, critical_error, ctrl_reg1, derived, port, scroll_reg, sprite_ram_addr_reg>>

Next ==
    \/ \E data \in Ctrl1 : Ctrl1Set(data)
    \/ StatusGet
    \/ \E half \in Half : VramAddrSet(half)
    \/ PpuVramDataGet
    \/ \E data \in Data : PpuVramDataSet(data)
    \/ \E data \in Data : ScrollSet(data) \/ SpriteAddrSet(data) \/ SpriteDataSet(data)

Spec == Init /\ [][Next]_vars

-----------------------------------------------------------------------------
(* Properties. *)

TypeOK ==
    /\ VramType
    /\ vram_addr_reg \in [s : 0 .. ADDR_SIZE - 1, cnt : 0 .. 1]
    /\ vram_read_cnt \in 0 .. 1 /\ (read = <<>> \/ \E b \in Byte : read = <<b>>)
    /\ scroll_reg \in [x : 0 .. BYTE - 1, y : 0 .. BYTE - 1, cnt : 0 .. 1]
    /\ sprite_ram \in [0 .. SPRITE_RAM_SIZE - 1 -> Byte]
    /\ sprite_ram_addr_reg \in 0 .. BYTE - 1 /\ sprite_cnt \in 0 .. SPRITE_SIZE - 1
    /\ ctrl_reg1 \in [name_tbl_sel : 0 .. 3, addr_inc_size : 0 .. 1, sprite_ptn_sel : 0 .. 1,
                      bg_ptn_addr_sel : 0 .. 1]

\* The banks, the base address and the increment, each set only when its bits change,
\* are always those of the control register.
DerivedFromCtrl1 ==
    /\ bg_pattern_bank = ctrl_reg1.bg_ptn_addr_sel
    /\ spr_pattern_bank = ctrl_reg1.sprite_ptn_sel
    /\ vram_addr_inc = Inc(ctrl_reg1.addr_inc_size)
    /\ bg_name_tbl_base = NameTblBase(ctrl_reg1.name_tbl_sel)
    /\ bg_attr_tbl_bank = ctrl_reg1.name_tbl_sel
=============================================================================
