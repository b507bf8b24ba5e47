------------------------------ MODULE MemoryMap -----------------------------
(***************************************************************************)
(* The memory map a program sees (the table of emulator/bus.c), without    *)
(* pins and latches: ranges of addresses, with their mirrors; a joypad     *)
(* that gives its buttons in turn; and DMA, that reads what the CPU would. *)
(***************************************************************************)
EXTENDS Naturals, Sequences

CONSTANTS
    IO_PPU, IO_APU, ROM,            \* where the areas begin; RAM begins at 0
    RAM_SIZE, PPU_IO_SIZE, APU_IO_SIZE, APU_DMA, APU_JOYPAD, PPU_STATUS, PPU_VRAM_DATA,
    SPRITE_RAM_SIZE, DMA_ADDR_MULTIPLE, Buttons, Byte, PpuByte, Rom, Address

VARIABLES
    ram, ppu_call, critical_error,
    strobe, turn,       \* the joypad: its strobe, and the buttons in the order to come
    held,
    copy,               \* the addresses DMA has to read yet
    answer

joypad == <<strobe, turn>>
vars   == <<ram, ppu_call, critical_error, joypad, held, copy, answer>>

InRam(a) == a < IO_PPU
InPpu(a) == IO_PPU <= a /\ a < IO_APU
InApu(a) == IO_APU <= a /\ a < ROM
InRom(a) == ROM <= a

Register(a) == IF InPpu(a) THEN a % PPU_IO_SIZE ELSE a % APU_IO_SIZE

Init ==
    /\ ram \in [0 .. RAM_SIZE - 1 -> Byte]
    /\ ppu_call = <<>> /\ critical_error = FALSE
    /\ strobe = FALSE /\ turn = Buttons /\ held = {}
    /\ copy = <<>> /\ answer = 0

Got(a, b) ==
    /\ answer' = b
    /\ ppu_call' = IF InPpu(a) THEN <<"read", Register(a)>> ELSE ppu_call
    /\ turn' = IF InApu(a) /\ Register(a) = APU_JOYPAD THEN Append(Tail(turn), Head(turn)) ELSE turn
    /\ UNCHANGED <<ram, critical_error, strobe, held>>

Get(a) ==
    \/ InRam(a) /\ Got(a, ram[a % RAM_SIZE])
    \/ InRom(a) /\ Got(a, Rom[a - ROM])
    \/ InPpu(a) /\ Register(a) \in {PPU_STATUS, PPU_VRAM_DATA} /\ \E b \in PpuByte : Got(a, b)
    \/ InPpu(a) /\ Register(a) \notin {PPU_STATUS, PPU_VRAM_DATA} /\ Got(a, 0)
    \/ InApu(a) /\ Register(a) = APU_JOYPAD /\ Got(a, IF Head(turn) \in held THEN 1 ELSE 0)
    \/ InApu(a) /\ Register(a) # APU_JOYPAD /\ Got(a, 0)

Load(a) == copy = <<>> /\ Get(a) /\ UNCHANGED copy

Store(a, b) ==
    /\ copy = <<>>
    /\ ram' = IF InRam(a) THEN [ram EXCEPT ![a % RAM_SIZE] = b] ELSE ram
    /\ ppu_call' = IF InPpu(a) THEN <<"write", Register(a), b>> ELSE ppu_call
    /\ critical_error' = (critical_error \/ InRom(a))
    /\ IF InApu(a) /\ Register(a) = APU_DMA
         THEN copy' = [i \in 1 .. SPRITE_RAM_SIZE |-> (b * DMA_ADDR_MULTIPLE + i - 1) % (2 * ROM)]
         ELSE UNCHANGED copy
    /\ IF InApu(a) /\ Register(a) = APU_JOYPAD
         THEN strobe' = (b % 2 = 1) /\ turn' = IF strobe /\ b % 2 = 0 THEN Buttons ELSE turn
         ELSE UNCHANGED joypad
    /\ UNCHANGED <<held, answer>>

Copy == copy # <<>> /\ Get(Head(copy)) /\ copy' = Tail(copy)

Press(n)   == held' = held \cup {n} /\ UNCHANGED <<ram, ppu_call, critical_error, joypad, copy, answer>>

Release(n) == held' = held \ {n} /\ UNCHANGED <<ram, ppu_call, critical_error, joypad, copy, answer>>

Next ==
    \/ \E a \in Address : Load(a)
    \/ \E a \in Address, b \in Byte : Store(a, b)
    \/ Copy
    \/ \E i \in 1 .. Len(Buttons) : Press(Buttons[i]) \/ Release(Buttons[i])

Spec == Init /\ [][Next]_vars
=============================================================================
