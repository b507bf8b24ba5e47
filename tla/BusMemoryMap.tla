---------------------------- MODULE BusMemoryMap ----------------------------
(* The bus and its devices implement the memory map. *)
EXTENDS Bus, Sequences

\* What the program sees of the pins and latches: the order in which the buttons will
\* come, and the addresses DMA has not read yet.
Turn == [i \in 1 .. BUTTON_CNT |-> (hw.read_cnt + i - 1) % BUTTON_CNT]

ToCopy ==
    LET left == IF hw.dma THEN SPRITE_RAM_SIZE - (hw.dma_cnt + 1) \div 2 ELSE 0
    IN  [i \in 1 .. left |-> (hw.dma_ram_addr + i - 1) % (2 * ROM_BIT)]

Map == INSTANCE MemoryMap WITH
    IO_PPU <- IO_PPU_BIT, IO_APU <- IO_APU_BIT, ROM <- ROM_BIT,
    Buttons <- [i \in 1 .. BUTTON_CNT |-> i - 1],
    ram <- hw.ram, ppu_call <- hw.ppu_call, critical_error <- hw.critical_error,
    strobe <- hw.button_set, turn <- Turn, copy <- ToCopy

\* Loads, stores and DMA see the memory map: each reaches one device, mirrors are the same
\* register, a strobe makes the joypad give its buttons from the first on, one a read,
\* and nothing else changes, whatever the devices' latches hold from earlier accesses.
ImplementsMemoryMap == Map!Spec

\* What the table of bus.c says of 0x6000-0x7FFF, battery RAM: a store there is no
\* business of DMA or of the joypad.
BatteryRamIsMemory ==
    [][\A addr \in Address, data \in Byte :
          /\ IO_APU_BIT + IO_PPU_BIT <= addr /\ addr < ROM_BIT
          /\ StoreMemory(addr, data)
          => hw'.dma = hw.dma /\ hw'.button_set = hw.button_set]_vars
=============================================================================
