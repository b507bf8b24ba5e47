-------------------------------- MODULE Bus ---------------------------------
(***************************************************************************)
(* The CPU's bus (emulator/bus.c) with RAM, ROM, the APU's I/O registers,  *)
(* the joypad behind them (emulator/ram.c, rom.c, ioapu.c, joypad.c) and   *)
(* the PPU's interface (emulator/ppu.c), as the CPU (emulator/cpu.c) and   *)
(* sprite DMA (emulator/dma.c) use it in turn, while the joypad window's   *)
(* thread presses and releases buttons.                                    *)
(*                                                                         *)
(* The clock thread makes the calls of an access without a break, so that  *)
(* an access is one step: the composition of the functions it calls, each  *)
(* of them an operator on the record hw of pins, latches and memory.  What *)
(* the PPU's registers do is left to PpuRegisters; here they answer any v. *)
(***************************************************************************)
EXTENDS Naturals

CONSTANTS
    ROM_BIT, IO_APU_BIT, IO_PPU_BIT,            \* decode the address
    RAM_SIZE, PPU_IO_SIZE, APU_IO_SIZE,         \* the masks of bus.c, plus 1
    APU_DMA, APU_JOYPAD,                        \* registers 0x14 and 0x16
    PPU_STATUS, PPU_VRAM_DATA,                  \* registers 2 and 7, that can be read
    SPRITE_RAM_SIZE, DMA_ADDR_MULTIPLE,
    BUTTON_CNT,
    Byte, Rom,
    Address, PpuByte    \* bounds: the addresses used, and what the PPU's registers answer

Memory == 0 .. 2 * ROM_BIT - 1

ASSUME BusAssumption ==
    /\ {ROM_BIT, IO_APU_BIT, IO_PPU_BIT, RAM_SIZE, PPU_IO_SIZE, APU_IO_SIZE, SPRITE_RAM_SIZE,
        BUTTON_CNT} \subseteq Nat \ {0}
    /\ ROM_BIT = 2 * IO_APU_BIT /\ IO_APU_BIT = 2 * IO_PPU_BIT
    /\ \A size \in {RAM_SIZE, PPU_IO_SIZE, APU_IO_SIZE} : IO_PPU_BIT % size = 0
    /\ {APU_DMA, APU_JOYPAD} \subseteq 0 .. APU_IO_SIZE - 1 /\ APU_DMA # APU_JOYPAD
    /\ {PPU_STATUS, PPU_VRAM_DATA} \subseteq 0 .. PPU_IO_SIZE - 1
    /\ DMA_ADDR_MULTIPLE \in Nat
    /\ Byte \subseteq Nat /\ {0, 1} \subseteq Byte /\ PpuByte \subseteq Byte
    /\ Rom \in [0 .. ROM_BIT - 1 -> Byte]
    /\ Address \subseteq Memory

VARIABLES
    hw,         \* the pins, latches and memory of the bus and its devices
    held,       \* the buttons that are down
    answer      \* what the last load or copy got

vars == <<hw, held, answer>>

\* RAM is malloc's.
Init ==
    /\ \E ram \in [0 .. RAM_SIZE - 1 -> Byte] :
          hw = [rw |-> FALSE, ready |-> TRUE, addr_bus |-> 0, data_bus |-> 0, enabled |-> {},
                ram |-> ram, ram_addr |-> 0, ram_data |-> 0, oe |-> FALSE, we |-> FALSE,
                rom_addr |-> 0, rom_data |-> 0, critical_error |-> FALSE,
                apu_addr |-> 0, apu_data |-> 0, button_set |-> FALSE, read_cnt |-> 0,
                ppu_addr |-> 0, ppu_data |-> 0, ppu_rw |-> FALSE, ppu_call |-> <<>>,
                dma |-> FALSE, dma_ram_addr |-> 0, dma_cnt |-> 0]
    /\ held = {}
    /\ answer = 0

-----------------------------------------------------------------------------
(* The devices, each enabled by its ce pin. *)

ReleaseBus(s) == [s EXCEPT !.ready = TRUE]

TakeBus(s) == [s EXCEPT !.ready = FALSE]

\* A disabled device only loses its ce pin.
SetRamCePin(s, ce) ==
    IF ~ce THEN [s EXCEPT !.enabled = @ \ {"ram"}]
    ELSE ReleaseBus([s EXCEPT
        !.enabled  = @ \cup {"ram"},
        !.ram_data = IF s.oe THEN s.ram[s.ram_addr] ELSE @,
        !.ram      = IF ~s.oe /\ s.we THEN [@ EXCEPT ![s.ram_addr] = s.ram_data] ELSE @])

SetRomCePin(s, ce) ==
    IF ~ce THEN [s EXCEPT !.enabled = @ \ {"rom"}]
    ELSE ReleaseBus([s EXCEPT !.enabled = @ \cup {"rom"}, !.rom_data = Rom[s.rom_addr]])

\* The count restarts when the strobe bit falls.
SetJoypadData(s, data) ==
    [s EXCEPT
        !.button_set = data % 2 = 1,
        !.read_cnt   = IF s.button_set /\ data % 2 = 0 THEN 0 ELSE @]

Button(n) == IF n \in held THEN 1 ELSE 0

\* set_dma_data: the CPU's clock gives way to DMA's.
SetDmaData(s, data) ==
    [s EXCEPT !.dma = TRUE, !.dma_cnt = 0, !.dma_ram_addr = data * DMA_ADDR_MULTIPLE % (2 * ROM_BIT)]

ApuWrite(s) ==
    CASE s.apu_addr = APU_DMA    -> SetDmaData(s, s.apu_data)
      [] s.apu_addr = APU_JOYPAD -> SetJoypadData(s, s.apu_data)
      [] OTHER                   -> s

\* Mutant of ApuRead: the count is wider than its three bits.
MutApuRead(s) ==
    IF s.apu_addr = APU_JOYPAD
      THEN [s EXCEPT !.apu_data = Button(s.read_cnt), !.read_cnt = @ + 1]
      ELSE [s EXCEPT !.apu_data = 0]

ApuRead(s) ==
    IF s.apu_addr = APU_JOYPAD
      THEN [s EXCEPT !.apu_data = Button(s.read_cnt), !.read_cnt = (@ + 1) % BUTTON_CNT]
      ELSE [s EXCEPT !.apu_data = 0]

\* The APU has no ce pin.
SetApuStart(s, ce) ==
    IF ~ce THEN s ELSE ReleaseBus(IF s.rw THEN ApuWrite(s) ELSE ApuRead(s))

\* The register's function, write or read, is called once.
SetPpuCePin(s, ce, v) ==
    LET on       == [s EXCEPT !.enabled = @ \cup {"ppu"}]
        readable == s.ppu_addr \in {PPU_STATUS, PPU_VRAM_DATA}
    IN  IF ~ce THEN [s EXCEPT !.enabled = @ \ {"ppu"}]
        ELSE ReleaseBus(
            IF s.ppu_rw THEN [on EXCEPT !.ppu_call = <<"write", s.ppu_addr, s.ppu_data>>]
            ELSE [on EXCEPT !.ppu_call = <<"read", s.ppu_addr>>,
                            !.ppu_data = IF readable THEN v ELSE 0])

-----------------------------------------------------------------------------
(* The bus. *)

Bit(addr, bit) == (addr \div bit) % 2 = 1

DeviceAt(addr) ==
    CASE Bit(addr, ROM_BIT)    -> "rom"
      [] ~Bit(addr, ROM_BIT) /\ Bit(addr, IO_APU_BIT) -> "apu"
      [] ~Bit(addr, ROM_BIT) /\ ~Bit(addr, IO_APU_BIT) /\ Bit(addr, IO_PPU_BIT) -> "ppu"
      [] OTHER                 -> "ram"

Enable(s, ce, v) ==
    CASE DeviceAt(s.addr_bus) = "rom" -> SetRomCePin(s, ce)
      [] DeviceAt(s.addr_bus) = "apu" -> SetApuStart(s, ce)
      [] DeviceAt(s.addr_bus) = "ppu" -> SetPpuCePin(s, ce, v)
      [] DeviceAt(s.addr_bus) = "ram" -> SetRamCePin(s, ce)

StartBus(s, v) == Enable(TakeBus(s), TRUE, v)

\* Mutant of EndBus: the chip stays enabled.
MutEndBus(s) == s

EndBus(s) == Enable(s, FALSE, 0)

SetRwPin(s, rw) == [s EXCEPT !.rw = rw]

Latch(s, addr) ==
    LET at == DeviceAt(addr)
    IN  CASE at = "rom" -> [s EXCEPT !.rom_addr = addr % ROM_BIT]
          [] at = "apu" -> [s EXCEPT !.apu_addr = addr % APU_IO_SIZE]
          [] at = "ppu" -> [s EXCEPT !.ppu_addr = addr % PPU_IO_SIZE, !.ppu_rw = s.rw]
          [] at = "ram" -> [s EXCEPT !.ram_addr = addr % RAM_SIZE, !.oe = ~s.rw, !.we = s.rw]

\* Without the bus, a call does nothing.
SetBusAddr(s, addr) == IF s.ready THEN [Latch(s, addr) EXCEPT !.addr_bus = addr] ELSE s

SetBusData(s, data) ==
    LET at == DeviceAt(s.addr_bus)
        d  == [s EXCEPT !.data_bus = data]
    IN  IF ~s.ready THEN s
        ELSE CASE at = "rom" -> [d EXCEPT !.critical_error = TRUE]
               [] at = "apu" -> [d EXCEPT !.apu_data = data]
               [] at = "ppu" -> [d EXCEPT !.ppu_data = data]
               [] at = "ram" -> [d EXCEPT !.ram_data = data]

DeviceData(s) ==
    CASE DeviceAt(s.addr_bus) = "rom" -> s.rom_data
      [] DeviceAt(s.addr_bus) = "apu" -> s.apu_data
      [] DeviceAt(s.addr_bus) = "ppu" -> s.ppu_data
      [] DeviceAt(s.addr_bus) = "ram" -> s.ram_data

GetBusData(s) == IF s.ready THEN DeviceData(s) ELSE 0

GotBusData(s) == IF s.ready THEN [s EXCEPT !.data_bus = DeviceData(s)] ELSE s

-----------------------------------------------------------------------------
(* The CPU, sprite DMA and the buttons. *)

LoadMemory(addr, v) ==
    LET started == StartBus(SetBusAddr(SetRwPin(hw, FALSE), addr), v)
    IN  /\ ~hw.dma
        /\ answer' = GetBusData(started)
        /\ hw' = EndBus(GotBusData(started))
        /\ UNCHANGED held

StoreMemory(addr, data) ==
    /\ ~hw.dma
    /\ hw' = EndBus(StartBus(SetBusData(SetBusAddr(SetRwPin(hw, TRUE), addr), data), 0))
    /\ UNCHANGED <<held, answer>>

\* Mutant of GetRamData: only the first access has the bus.
MutDmaBus == hw

\* get_ram_data's first lines: DMA gives up the bus it kept.
DmaBus == IF hw.dma_cnt > 0 THEN ReleaseBus(hw) ELSE hw

\* clock_dma, even: a byte is fetched, and the bus kept.
GetRamData(v) ==
    LET started == StartBus(SetBusAddr(SetRwPin(DmaBus, FALSE), hw.dma_ram_addr), v)
        ended   == TakeBus(EndBus(GotBusData(started)))
    IN  /\ hw.dma /\ hw.dma_cnt % 2 = 0
        /\ answer' = GetBusData(started)
        /\ hw' = [ended EXCEPT !.dma_ram_addr = (@ + 1) % (2 * ROM_BIT), !.dma_cnt = @ + 1]
        /\ UNCHANGED held

\* clock_dma, odd: the byte goes to sprite RAM; after the last one the CPU is back.
DmaStores ==
    /\ hw.dma /\ hw.dma_cnt % 2 = 1
    /\ hw' = IF hw.dma_cnt = SPRITE_RAM_SIZE * 2 - 1
               THEN [ReleaseBus(hw) EXCEPT !.dma = FALSE, !.dma_cnt = @ + 1]
               ELSE [hw EXCEPT !.dma_cnt = @ + 1]
    /\ UNCHANGED <<held, answer>>

KeyPress(n)   == held' = held \cup {n} /\ UNCHANGED <<hw, answer>>

KeyRelease(n) == held' = held \ {n} /\ UNCHANGED <<hw, answer>>

Next ==
    \/ \E addr \in Address, v \in PpuByte : LoadMemory(addr, v)
    \/ \E addr \in Address, data \in Byte : StoreMemory(addr, data)
    \/ \E v \in PpuByte : GetRamData(v)
    \/ DmaStores
    \/ \E n \in 0 .. BUTTON_CNT - 1 : KeyPress(n) \/ KeyRelease(n)

Spec == Init /\ [][Next]_vars

-----------------------------------------------------------------------------
(* Properties. *)

TypeOK ==
    /\ {hw.rw, hw.ready, hw.oe, hw.we, hw.critical_error, hw.button_set, hw.ppu_rw, hw.dma}
         \subseteq BOOLEAN
    /\ hw.addr_bus \in Memory /\ hw.data_bus \in Byte
    /\ hw.ram \in [0 .. RAM_SIZE - 1 -> Byte] /\ hw.ram_addr \in 0 .. RAM_SIZE - 1
    /\ hw.rom_addr \in 0 .. ROM_BIT - 1 /\ hw.apu_addr \in 0 .. APU_IO_SIZE - 1
    /\ hw.ppu_addr \in 0 .. PPU_IO_SIZE - 1
    /\ {hw.ram_data, hw.rom_data, hw.apu_data, hw.ppu_data, answer} \subseteq Byte
    /\ hw.read_cnt \in 0 .. BUTTON_CNT - 1
    /\ hw.dma_ram_addr \in Memory /\ hw.dma_cnt \in 0 .. 2 * SPRITE_RAM_SIZE
    /\ held \subseteq 0 .. BUTTON_CNT - 1

\* Between accesses no chip is enabled, and the bus is ready for whoever is next: the
\* CPU, or DMA, that keeps it between its bytes and gives it back after the last.
BusIsHandedOn ==
    /\ hw.enabled = {}
    /\ hw.ready <=> ~hw.dma \/ hw.dma_cnt = 0
=============================================================================
