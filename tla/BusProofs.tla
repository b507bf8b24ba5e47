------------------------------ MODULE BusProofs ------------------------------
(***************************************************************************)
(* For every size of the areas and of the devices behind them: the bus and *)
(* its devices implement the memory map, the bus is handed on between the  *)
(* CPU and DMA, and every latch and memory keeps its type.                 *)
(*                                                                         *)
(* The argument follows an access from call to call, by the fields of hw   *)
(* that each call may change, and ends with what a load and a store are,   *)
(* device by device (LoadIs, StoreIs); the theorems follow from these two. *)
(***************************************************************************)
EXTENDS BusMemoryMap, Numbers, SequenceTheorems, TLAPS

Pins == {"rw", "ready", "addr_bus", "data_bus", "enabled", "ram", "ram_addr", "ram_data", "oe", "we",
         "rom_addr", "rom_data", "critical_error", "apu_addr", "apu_data", "button_set", "read_cnt",
         "ppu_addr", "ppu_data", "ppu_rw", "ppu_call", "dma", "dma_ram_addr", "dma_cnt"}

\* s is hw at some point of an access.
IsHw(s) == DOMAIN s = Pins

\* t is s but for the fields in F.
But(s, t, F) == IsHw(t) /\ \A f \in Pins \ F : t[f] = s[f]

\* What is of no use once an access is over.
Latches == {"rw", "addr_bus", "data_bus", "ram_addr", "ram_data", "oe", "we", "rom_addr", "rom_data",
            "apu_addr", "apu_data", "ppu_addr", "ppu_data", "ppu_rw"}

\* The chip that an address enables.
Selected(addr) == IF DeviceAt(addr) = "apu" THEN {} ELSE {DeviceAt(addr)}

\* hw as Init has it.
LEMMA AtFirst ==
  ASSUME Init
  PROVE  /\ IsHw(hw) /\ hw.ram \in [0 .. RAM_SIZE - 1 -> Byte]
         /\ hw.rw = FALSE /\ hw.ready = TRUE /\ hw.enabled = {} /\ hw.oe = FALSE /\ hw.we = FALSE
         /\ hw.addr_bus = 0 /\ hw.data_bus = 0 /\ hw.ram_addr = 0 /\ hw.rom_addr = 0
         /\ hw.apu_addr = 0 /\ hw.ppu_addr = 0 /\ hw.ram_data = 0 /\ hw.rom_data = 0
         /\ hw.apu_data = 0 /\ hw.ppu_data = 0 /\ hw.ppu_rw = FALSE /\ hw.ppu_call = <<>>
         /\ hw.critical_error = FALSE /\ hw.button_set = FALSE /\ hw.read_cnt = 0
         /\ hw.dma = FALSE /\ hw.dma_ram_addr = 0 /\ hw.dma_cnt = 0
  BY DEF Init, IsHw, Pins

-----------------------------------------------------------------------------
(* The calls of an access. *)

LEMMA Devices ==
  ASSUME NEW addr
  PROVE  DeviceAt(addr) \in {"rom", "apu", "ppu", "ram"}
  BY DEF DeviceAt

\* The first two calls of an access.
Selecting(s, rw, addr) == SetBusAddr(SetRwPin(s, rw), addr)

Selects(s, a, rw, addr) ==
  /\ But(s, a, {"rw", "addr_bus", "rom_addr", "apu_addr", "ppu_addr", "ppu_rw", "ram_addr", "oe", "we"})
  /\ a.ready = TRUE /\ a.addr_bus = addr /\ (rw = TRUE => a.rw = TRUE) /\ (rw = FALSE => a.rw = FALSE)
  /\ DeviceAt(addr) = "rom" => a.rom_addr = addr % ROM_BIT
  /\ DeviceAt(addr) = "apu" => a.apu_addr = addr % APU_IO_SIZE
  /\ DeviceAt(addr) = "ppu" => /\ a.ppu_addr = addr % PPU_IO_SIZE
                               /\ (rw = TRUE => a.ppu_rw = TRUE)
                               /\ (rw = FALSE => a.ppu_rw = FALSE)
  /\ DeviceAt(addr) = "ram" => /\ a.ram_addr = addr % RAM_SIZE
                               /\ rw = TRUE => a.oe = FALSE /\ a.we = TRUE
                               /\ rw = FALSE => a.oe = TRUE /\ a.we = FALSE

LEMMA Selection ==
  ASSUME NEW s, IsHw(s), s.ready = TRUE, NEW rw \in BOOLEAN, NEW addr
  PROVE  Selects(s, Selecting(s, rw, addr), rw, addr)
<1> SUFFICES ASSUME NEW a, a = Selecting(s, rw, addr) PROVE Selects(s, a, rw, addr)
  OBVIOUS
<1> USE DEF Selects
<1> DEFINE r == SetRwPin(s, rw)
           l == Latch(r, addr)
<1>1. But(s, r, {"rw"}) /\ r.ready = TRUE /\ (rw = TRUE => r.rw = TRUE) /\ (rw = FALSE => r.rw = FALSE)
  BY DEF IsHw, SetRwPin, Pins, But
<1> HIDE DEF r
<1>2. a = [l EXCEPT !.addr_bus = addr]
  BY <1>1 DEF Selecting, SetBusAddr, r
<1> HIDE DEF l
<1>3. CASE DeviceAt(addr) = "rom"
  <2>1. l = [r EXCEPT !.rom_addr = addr % ROM_BIT]
    BY <1>3 DEF Latch, l
  <2>2. /\ But(r, a, {"rom_addr", "addr_bus"})
        /\ a.rom_addr = addr % ROM_BIT /\ a.addr_bus = addr
    BY <1>1, <1>2, <2>1 DEF IsHw, Pins, But
  <2> QED
    BY <1>1, <1>3, <2>2 DEF But, Pins
<1>4. CASE DeviceAt(addr) = "apu"
  <2>1. l = [r EXCEPT !.apu_addr = addr % APU_IO_SIZE]
    BY <1>4 DEF Latch, l
  <2>2. /\ But(r, a, {"apu_addr", "addr_bus"})
        /\ a.apu_addr = addr % APU_IO_SIZE /\ a.addr_bus = addr
    BY <1>1, <1>2, <2>1 DEF IsHw, Pins, But
  <2> QED
    BY <1>1, <1>4, <2>2 DEF But, Pins
<1>5. CASE DeviceAt(addr) = "ppu"
  <2>1. l = [r EXCEPT !.ppu_addr = addr % PPU_IO_SIZE, !.ppu_rw = r.rw]
    BY <1>5 DEF Latch, l
  <2>2. /\ But(r, a, {"ppu_addr", "ppu_rw", "addr_bus"})
        /\ a.ppu_addr = addr % PPU_IO_SIZE /\ a.ppu_rw = r.rw /\ a.addr_bus = addr
    BY <1>1, <1>2, <2>1 DEF IsHw, Pins, But
  <2> QED
    BY <1>1, <1>5, <2>2 DEF But, Pins
<1>6. CASE DeviceAt(addr) = "ram"
  <2>1. l = [r EXCEPT !.ram_addr = addr % RAM_SIZE, !.oe = ~r.rw, !.we = r.rw]
    BY <1>6 DEF Latch, l
  <2>2. /\ But(r, a, {"ram_addr", "oe", "we", "addr_bus"})
        /\ a.ram_addr = addr % RAM_SIZE /\ a.we = r.rw /\ a.addr_bus = addr
        /\ r.rw = TRUE => a.oe = FALSE
        /\ r.rw = FALSE => a.oe = TRUE
    BY <1>1, <1>2, <2>1 DEF IsHw, Pins, But
  <2> QED
    BY <1>1, <1>6, <2>2 DEF But, Pins
<1> QED
  BY <1>3, <1>4, <1>5, <1>6, Devices

\* The bus is taken, and the device gives it back.
LEMMA ReadyPin ==
  ASSUME NEW s, IsHw(s)
  PROVE  /\ But(s, ReleaseBus(s), {"ready"}) /\ ReleaseBus(s).ready = TRUE
         /\ But(s, TakeBus(s), {"ready"}) /\ TakeBus(s).ready = FALSE
  BY DEF IsHw, ReleaseBus, TakeBus, Pins, But

RamAnswers(a, b, v) ==
  /\ b.ready = TRUE /\ b.enabled = a.enabled \cup {"ram"}
  /\ a.oe = TRUE => /\ But(a, b, {"ready", "enabled", "ram_data"})
                    /\ b.ram_data = a.ram[a.ram_addr]
  /\ a.oe = FALSE /\ a.we = TRUE =>
        /\ But(a, b, {"ready", "enabled", "ram"})
        /\ b.ram = [a.ram EXCEPT ![a.ram_addr] = a.ram_data]

LEMMA RamStarts ==
  ASSUME NEW a, IsHw(a), DeviceAt(a.addr_bus) = "ram", NEW v
  PROVE  RamAnswers(a, StartBus(a, v), v)
<1> SUFFICES ASSUME NEW b, b = StartBus(a, v) PROVE RamAnswers(a, b, v)
  OBVIOUS
<1> USE DEF RamAnswers
<1> DEFINE t == TakeBus(a)
<1>1. But(a, t, {"ready"})
  BY ReadyPin
<1>2. DeviceAt(t.addr_bus) = "ram"
  BY <1>1 DEF But, Pins
<1>3. b = SetRamCePin(t, TRUE)
  BY <1>2 DEF StartBus, Enable
<1> HIDE DEF t
<1> DEFINE u == [t EXCEPT !.enabled  = t.enabled \cup {"ram"},
                          !.ram_data = IF t.oe THEN t.ram[t.ram_addr] ELSE t.ram_data,
                          !.ram      = IF ~t.oe /\ t.we THEN [t.ram EXCEPT ![t.ram_addr] = t.ram_data] ELSE t.ram]
<1>4. b = ReleaseBus(u)
  BY <1>3 DEF SetRamCePin
<1>5. /\ IsHw(u) /\ u.enabled = a.enabled \cup {"ram"}
      /\ t.oe = TRUE => But(t, u, {"enabled", "ram_data"}) /\ u.ram_data = t.ram[t.ram_addr]
      /\ t.oe = FALSE /\ t.we = TRUE =>
             But(t, u, {"enabled", "ram"}) /\ u.ram = [t.ram EXCEPT ![t.ram_addr] = t.ram_data]
  BY <1>1 DEF IsHw, Pins, But
<1> HIDE DEF u
<1>6. But(u, b, {"ready"}) /\ b.ready = TRUE
  BY <1>4, <1>5, ReadyPin
<1> QED
  BY <1>1, <1>5, <1>6 DEF But, Pins

RomAnswers(a, b, v) ==
  /\ b.ready = TRUE /\ b.enabled = a.enabled \cup {"rom"}
  /\ But(a, b, {"ready", "enabled", "rom_data"})
  /\ b.rom_data = Rom[a.rom_addr]

LEMMA RomStarts ==
  ASSUME NEW a, IsHw(a), DeviceAt(a.addr_bus) = "rom", NEW v
  PROVE  RomAnswers(a, StartBus(a, v), v)
<1> SUFFICES ASSUME NEW b, b = StartBus(a, v) PROVE RomAnswers(a, b, v)
  OBVIOUS
<1> USE DEF RomAnswers
<1> DEFINE t == TakeBus(a)
<1>1. But(a, t, {"ready"})
  BY ReadyPin
<1>2. DeviceAt(t.addr_bus) = "rom"
  BY <1>1 DEF But, Pins
<1>3. b = SetRomCePin(t, TRUE)
  BY <1>2 DEF StartBus, Enable
<1> HIDE DEF t
<1> DEFINE u == [t EXCEPT !.enabled = @ \cup {"rom"}, !.rom_data = Rom[t.rom_addr]]
<1>4. b = ReleaseBus(u)
  BY <1>3 DEF SetRomCePin
<1>5. /\ IsHw(u) /\ But(t, u, {"enabled", "rom_data"}) /\ u.enabled = t.enabled \cup {"rom"}
      /\ u.rom_data = Rom[t.rom_addr]
  BY <1>1 DEF IsHw, Pins, But
<1> HIDE DEF u
<1>6. But(u, b, {"ready"}) /\ b.ready = TRUE
  BY <1>4, <1>5, ReadyPin
<1> QED
  BY <1>1, <1>5, <1>6 DEF But, Pins

PpuAnswers(a, b, v) ==
  /\ b.ready = TRUE /\ b.enabled = a.enabled \cup {"ppu"}
  /\ a.ppu_rw = TRUE => /\ But(a, b, {"ready", "enabled", "ppu_call"})
                        /\ b.ppu_call = <<"write", a.ppu_addr, a.ppu_data>>
  /\ a.ppu_rw = FALSE =>
        /\ But(a, b, {"ready", "enabled", "ppu_call", "ppu_data"})
        /\ b.ppu_call = <<"read", a.ppu_addr>>
        /\ b.ppu_data = IF a.ppu_addr \in {PPU_STATUS, PPU_VRAM_DATA} THEN v ELSE 0

LEMMA PpuStarts ==
  ASSUME NEW a, IsHw(a), DeviceAt(a.addr_bus) = "ppu", NEW v
  PROVE  PpuAnswers(a, StartBus(a, v), v)
<1> SUFFICES ASSUME NEW b, b = StartBus(a, v) PROVE PpuAnswers(a, b, v)
  OBVIOUS
<1> USE DEF PpuAnswers
<1> DEFINE t == TakeBus(a)
<1>1. But(a, t, {"ready"})
  BY ReadyPin
<1>2. DeviceAt(t.addr_bus) = "ppu"
  BY <1>1 DEF But, Pins
<1>3. b = SetPpuCePin(t, TRUE, v)
  BY <1>2 DEF StartBus, Enable
<1> HIDE DEF t
<1> DEFINE on == [t EXCEPT !.enabled = @ \cup {"ppu"}]
           w == [on EXCEPT !.ppu_call = <<"write", t.ppu_addr, t.ppu_data>>]
           r == [on EXCEPT !.ppu_call = <<"read", t.ppu_addr>>,
                           !.ppu_data = IF t.ppu_addr \in {PPU_STATUS, PPU_VRAM_DATA} THEN v ELSE 0]
<1>4. b = ReleaseBus(IF t.ppu_rw THEN w ELSE r)
  BY <1>3 DEF SetPpuCePin
<1>5. But(t, on, {"enabled"}) /\ on.enabled = t.enabled \cup {"ppu"}
  BY <1>1 DEF IsHw, Pins, But
<1> HIDE DEF on
<1>6. /\ But(on, w, {"ppu_call"}) /\ w.ppu_call = <<"write", t.ppu_addr, t.ppu_data>>
      /\ But(on, r, {"ppu_call", "ppu_data"}) /\ r.ppu_call = <<"read", t.ppu_addr>>
      /\ r.ppu_data = IF t.ppu_addr \in {PPU_STATUS, PPU_VRAM_DATA} THEN v ELSE 0
  BY <1>5 DEF IsHw, Pins, But
<1> HIDE DEF w, r
<1>7. /\ But(w, ReleaseBus(w), {"ready"}) /\ ReleaseBus(w).ready = TRUE
      /\ But(r, ReleaseBus(r), {"ready"}) /\ ReleaseBus(r).ready = TRUE
  BY <1>6, ReadyPin DEF But
<1>8. t.ppu_rw = TRUE => b = ReleaseBus(w)
  BY <1>4
<1>9. t.ppu_rw = FALSE => b = ReleaseBus(r)
  BY <1>4
<1>10. b = ReleaseBus(w) \/ b = ReleaseBus(r)
  BY <1>4
<1>11. b.ready = TRUE /\ b.enabled = a.enabled \cup {"ppu"}
  BY <1>1, <1>5, <1>6, <1>7, <1>10 DEF But, Pins
<1>12. ASSUME a.ppu_rw = TRUE
       PROVE  /\ But(a, b, {"ready", "enabled", "ppu_call"})
              /\ b.ppu_call = <<"write", a.ppu_addr, a.ppu_data>>
  BY <1>1, <1>5, <1>6, <1>7, <1>8, <1>12 DEF But, Pins
<1>13. ASSUME a.ppu_rw = FALSE
       PROVE  /\ But(a, b, {"ready", "enabled", "ppu_call", "ppu_data"})
              /\ b.ppu_call = <<"read", a.ppu_addr>>
              /\ b.ppu_data = IF a.ppu_addr \in {PPU_STATUS, PPU_VRAM_DATA} THEN v ELSE 0
  BY <1>1, <1>5, <1>6, <1>7, <1>9, <1>13 DEF But, Pins
<1> QED
  BY <1>11, <1>12, <1>13

\* The joypad's and DMA's registers, and the ones that do nothing.
LEMMA ApuStarts ==
  ASSUME NEW a, IsHw(a), DeviceAt(a.addr_bus) = "apu", NEW v, NEW b, b = StartBus(a, v),
         NEW q, q = IF a.rw THEN ApuWrite(TakeBus(a)) ELSE ApuRead(TakeBus(a)),
         NEW F, But(TakeBus(a), q, F)
  PROVE  /\ b.ready = TRUE /\ But(q, b, {"ready"}) /\ But(a, b, {"ready"} \cup F)
<1> DEFINE t == TakeBus(a)
<1>1. But(a, t, {"ready"})
  BY ReadyPin
<1>2. DeviceAt(t.addr_bus) = "apu" /\ t.rw = a.rw
  BY <1>1 DEF But, Pins
<1>3. b = SetApuStart(t, TRUE)
  BY <1>2 DEF StartBus, Enable
<1>4. b = ReleaseBus(q)
  BY <1>2, <1>3 DEF SetApuStart
<1> HIDE DEF t
<1>5. IsHw(q)
  BY DEF But
<1>6. But(q, b, {"ready"}) /\ b.ready = TRUE
  BY <1>4, <1>5, ReadyPin
<1> QED
  BY <1>1, <1>6 DEF But, t

ApuReadAnswers(a, b, v) ==
  /\ b.ready = TRUE
  /\ a.apu_addr = APU_JOYPAD =>
        /\ But(a, b, {"ready", "apu_data", "read_cnt"})
        /\ b.apu_data = Button(a.read_cnt) /\ b.read_cnt = (a.read_cnt + 1) % BUTTON_CNT
  /\ a.apu_addr # APU_JOYPAD => But(a, b, {"ready", "apu_data"}) /\ b.apu_data = 0

LEMMA ApuReading ==
  ASSUME NEW a, IsHw(a), DeviceAt(a.addr_bus) = "apu", a.rw = FALSE, NEW v
  PROVE  ApuReadAnswers(a, StartBus(a, v), v)
<1> SUFFICES ASSUME NEW b, b = StartBus(a, v) PROVE ApuReadAnswers(a, b, v)
  OBVIOUS
<1> USE DEF ApuReadAnswers
<1> DEFINE t == TakeBus(a)
           q == ApuRead(t)
<1>1. But(a, t, {"ready"})
  BY ReadyPin
<1> HIDE DEF t
<1>2. /\ t.apu_addr = APU_JOYPAD =>
               /\ But(t, q, {"apu_data", "read_cnt"})
               /\ q.apu_data = Button(t.read_cnt) /\ q.read_cnt = (t.read_cnt + 1) % BUTTON_CNT
      /\ t.apu_addr # APU_JOYPAD => But(t, q, {"apu_data"}) /\ q.apu_data = 0
  BY <1>1 DEF IsHw, Pins, But, ApuRead
<1>3. q = IF a.rw THEN ApuWrite(t) ELSE q
  OBVIOUS
<1> HIDE DEF q
<1>4. t.apu_addr = a.apu_addr /\ t.read_cnt = a.read_cnt
  BY <1>1 DEF But, Pins
<1>5. CASE a.apu_addr = APU_JOYPAD
  <2>1. But(t, q, {"apu_data", "read_cnt"})
    BY <1>2, <1>4, <1>5
  <2>2. b.ready = TRUE /\ But(q, b, {"ready"}) /\ But(a, b, {"ready"} \cup {"apu_data", "read_cnt"})
    BY <1>3, <2>1, ApuStarts DEF q, t
  <2> QED
    BY <1>2, <1>4, <1>5, <2>2 DEF But, Pins
<1>6. CASE a.apu_addr # APU_JOYPAD
  <2>1. But(t, q, {"apu_data"})
    BY <1>2, <1>4, <1>6
  <2>2. b.ready = TRUE /\ But(q, b, {"ready"}) /\ But(a, b, {"ready"} \cup {"apu_data"})
    BY <1>3, <2>1, ApuStarts DEF q, t
  <2> QED
    BY <1>2, <1>4, <1>6, <2>2 DEF But, Pins
<1> QED
  BY <1>5, <1>6

ApuWriteAnswers(a, b, v) ==
  /\ b.ready = TRUE
  /\ a.apu_addr = APU_DMA =>
        /\ But(a, b, {"ready", "dma", "dma_cnt", "dma_ram_addr"})
        /\ b.dma = TRUE /\ b.dma_cnt = 0
        /\ b.dma_ram_addr = a.apu_data * DMA_ADDR_MULTIPLE % (2 * ROM_BIT)
  /\ a.apu_addr = APU_JOYPAD =>
        /\ But(a, b, {"ready", "button_set", "read_cnt"})
        /\ b.button_set = (a.apu_data % 2 = 1)
        /\ b.read_cnt = IF a.button_set /\ a.apu_data % 2 = 0 THEN 0 ELSE a.read_cnt
  /\ a.apu_addr \notin {APU_DMA, APU_JOYPAD} => But(a, b, {"ready"})

LEMMA ApuWriting ==
  ASSUME NEW a, IsHw(a), DeviceAt(a.addr_bus) = "apu", a.rw = TRUE, NEW v
  PROVE  ApuWriteAnswers(a, StartBus(a, v), v)
<1> SUFFICES ASSUME NEW b, b = StartBus(a, v) PROVE ApuWriteAnswers(a, b, v)
  OBVIOUS
<1> USE DEF ApuWriteAnswers
<1> DEFINE t == TakeBus(a)
           q == ApuWrite(t)
<1>1. But(a, t, {"ready"})
  BY ReadyPin
<1> HIDE DEF t
<1>2. /\ t.apu_addr = APU_DMA => q = SetDmaData(t, t.apu_data)
      /\ t.apu_addr = APU_JOYPAD => q = SetJoypadData(t, t.apu_data)
      /\ t.apu_addr \notin {APU_DMA, APU_JOYPAD} => q = t
  BY BusAssumption DEF ApuWrite
<1>3. q = IF a.rw THEN q ELSE ApuRead(t)
  OBVIOUS
<1> HIDE DEF q
<1>4. /\ t.apu_addr = a.apu_addr /\ t.apu_data = a.apu_data /\ t.read_cnt = a.read_cnt
      /\ t.button_set = a.button_set
  BY <1>1 DEF But, Pins
<1>5. CASE a.apu_addr = APU_DMA
  <2>1. /\ But(t, q, {"dma", "dma_cnt", "dma_ram_addr"}) /\ q.dma = TRUE /\ q.dma_cnt = 0
        /\ q.dma_ram_addr = t.apu_data * DMA_ADDR_MULTIPLE % (2 * ROM_BIT)
    BY <1>1, <1>2, <1>4, <1>5 DEF IsHw, Pins, But, SetDmaData
  <2>2. /\ b.ready = TRUE /\ But(q, b, {"ready"})
        /\ But(a, b, {"ready"} \cup {"dma", "dma_cnt", "dma_ram_addr"})
    BY <1>3, <2>1, ApuStarts DEF q, t
  <2>3. b.dma = TRUE /\ b.dma_cnt = 0 /\ b.dma_ram_addr = q.dma_ram_addr
    BY <2>1, <2>2 DEF But, Pins
  <2> QED
    BY <1>4, <1>5, <2>1, <2>2, <2>3, BusAssumption DEF But
<1>6. CASE a.apu_addr = APU_JOYPAD
  <2>1. /\ But(t, q, {"button_set", "read_cnt"}) /\ q.button_set = (t.apu_data % 2 = 1)
        /\ q.read_cnt = IF t.button_set /\ t.apu_data % 2 = 0 THEN 0 ELSE t.read_cnt
    BY <1>1, <1>2, <1>4, <1>6 DEF IsHw, Pins, But, SetJoypadData
  <2>2. b.ready = TRUE /\ But(q, b, {"ready"}) /\ But(a, b, {"ready"} \cup {"button_set", "read_cnt"})
    BY <1>3, <2>1, ApuStarts DEF q, t
  <2>3. b.button_set = q.button_set /\ b.read_cnt = q.read_cnt
    BY <2>2 DEF But, Pins
  <2> QED
    BY <1>4, <1>6, <2>1, <2>2, <2>3, BusAssumption DEF But
<1>7. CASE a.apu_addr \notin {APU_DMA, APU_JOYPAD}
  <2>1. But(t, q, {})
    BY <1>1, <1>2, <1>4, <1>7 DEF But
  <2>2. b.ready = TRUE /\ But(a, b, {"ready"} \cup {})
    BY <1>3, <2>1, ApuStarts DEF q, t
  <2> QED
    BY <1>7, <2>2 DEF But
<1> QED
  BY <1>5, <1>6, <1>7

LEMMA Ends ==
  ASSUME NEW s, IsHw(s), s.ready = TRUE
  PROVE  /\ But(s, EndBus(s), {"enabled"})
         /\ EndBus(s).enabled = s.enabled \ Selected(s.addr_bus)
         /\ But(s, EndBus(GotBusData(s)), {"enabled", "data_bus"})
         /\ EndBus(GotBusData(s)).enabled = s.enabled \ Selected(s.addr_bus)
         /\ EndBus(GotBusData(s)).data_bus = DeviceData(s)
         /\ GetBusData(s) = DeviceData(s)
<1>1. ASSUME NEW q, IsHw(q)
      PROVE  But(q, EndBus(q), {"enabled"}) /\ EndBus(q).enabled = q.enabled \ Selected(q.addr_bus)
  <2>1. IsHw(q) /\ DeviceAt(q.addr_bus) \in {"rom", "apu", "ppu", "ram"}
    BY <1>1, Devices
  <2> QED
    BY <2>1 DEF IsHw, EndBus, Enable, Selected, SetRamCePin, SetRomCePin, SetApuStart, SetPpuCePin,
                Pins, But
<1> DEFINE g == GotBusData(s)
<1>2. But(s, g, {"data_bus"}) /\ g.data_bus = DeviceData(s)
  BY DEF IsHw, GotBusData, Pins, But
<1>3. GetBusData(s) = DeviceData(s)
  BY DEF GetBusData
<1> HIDE DEF g
<1>4. But(g, EndBus(g), {"enabled"}) /\ EndBus(g).enabled = g.enabled \ Selected(g.addr_bus)
  BY <1>1, <1>2 DEF But
<1>5. /\ But(s, EndBus(g), {"enabled", "data_bus"})
      /\ EndBus(g).enabled = s.enabled \ Selected(s.addr_bus) /\ EndBus(g).data_bus = DeviceData(s)
  BY <1>2, <1>4 DEF But, Pins
<1> QED
  BY <1>1, <1>3, <1>5 DEF g

-----------------------------------------------------------------------------
(* Whole accesses, device by device. *)

-----------------------------------------------------------------------------
(* Whole accesses, device by device. *)

Fetched(s, addr, v) == EndBus(GotBusData(StartBus(SetBusAddr(SetRwPin(s, FALSE), addr), v)))

Stored(s, addr, data) == EndBus(StartBus(SetBusData(SetBusAddr(SetRwPin(s, TRUE), addr), data), 0))

\* The access ends with no chip enabled and the bus ready, as it began.
Idle(s) == IsHw(s) /\ s.ready = TRUE /\ s.enabled = {}

GotFrom(s, addr, v) == GetBusData(StartBus(Selecting(s, FALSE, addr), v))

\* What a load from addr gets, and what it changes.
\* From the start of an access to its end.
Started(a, b, addr, F) ==
  /\ But(a, b, {"ready", "enabled"} \cup F)
  /\ b.ready = TRUE /\ b.addr_bus = addr /\ b.enabled \ Selected(addr) = {}

Done(s, b, t, F) ==
  But(s, t, Latches \cup F) /\ Idle(t) /\ \A f \in F \ Latches : t[f] = b[f]

LEMMA LoadDone ==
  ASSUME NEW s, Idle(s), NEW addr, NEW v,
         NEW F \in SUBSET (Pins \ {"ready", "enabled"}), NEW b, b = StartBus(Selecting(s, FALSE, addr), v),
         Started(Selecting(s, FALSE, addr), b, addr, {"ram_data", "rom_data", "apu_data", "ppu_data"} \cup F)
  PROVE  Done(s, b, Fetched(s, addr, v), F) /\ GotFrom(s, addr, v) = DeviceData(b)
<1> SUFFICES ASSUME NEW t, t = Fetched(s, addr, v)
             PROVE  Done(s, b, t, F) /\ GotFrom(s, addr, v) = DeviceData(b)
  OBVIOUS
<1> USE DEF Started, Done
<1> DEFINE a == Selecting(s, FALSE, addr)
<1>1. /\ But(s, a, {"rw", "addr_bus", "rom_addr", "apu_addr", "ppu_addr", "ppu_rw", "ram_addr", "oe", "we"})
      /\ a.ready = TRUE
  BY Selection, TRUE \in BOOLEAN, FALSE \in BOOLEAN DEF Idle, Selects
<1>2. t = EndBus(GotBusData(b))
  BY DEF Fetched, Selecting
<1>3. IsHw(b)
  BY DEF But
<1>4. /\ But(b, t, {"enabled", "data_bus"}) /\ t.enabled = b.enabled \ Selected(b.addr_bus)
      /\ GetBusData(b) = DeviceData(b)
  BY <1>2, <1>3, Ends
<1> HIDE DEF a
<1>5. But(s, t, Latches \cup F \cup {"ready", "enabled"})
  BY <1>1, <1>4 DEF But, Latches, a
<1>6. t.ready = TRUE /\ t.enabled = {} /\ IsHw(t)
  BY <1>4 DEF But, Pins
<1>7. But(s, t, Latches \cup F)
  BY <1>5, <1>6 DEF But, Idle
<1>8. \A f \in F \ Latches : t[f] = b[f]
  BY <1>4 DEF But, Latches
<1> QED
  BY <1>4, <1>6, <1>7, <1>8 DEF Idle, GotFrom

LEMMA StoreDone ==
  ASSUME NEW s, Idle(s), NEW addr, NEW data,
         NEW F \in SUBSET (Pins \ {"ready", "enabled"}),
         NEW c, c = SetBusData(Selecting(s, TRUE, addr), data), NEW b, b = StartBus(c, 0),
         But(Selecting(s, TRUE, addr), c, F \cup Latches), Started(c, b, addr, F)
  PROVE  Done(s, b, Stored(s, addr, data), F)
<1> SUFFICES ASSUME NEW t, t = Stored(s, addr, data) PROVE Done(s, b, t, F)
  OBVIOUS
<1> USE DEF Started, Done
<1> DEFINE a == Selecting(s, TRUE, addr)
<1>1. /\ But(s, a, {"rw", "addr_bus", "rom_addr", "apu_addr", "ppu_addr", "ppu_rw", "ram_addr", "oe", "we"})
      /\ a.ready = TRUE
  BY Selection, TRUE \in BOOLEAN, FALSE \in BOOLEAN DEF Idle, Selects
<1>2. t = EndBus(b)
  BY DEF Stored, Selecting
<1>3. IsHw(b)
  BY DEF But
<1>4. But(b, t, {"enabled"}) /\ t.enabled = b.enabled \ Selected(b.addr_bus)
  BY <1>2, <1>3, Ends
<1> HIDE DEF a
<1>5. But(s, t, Latches \cup F \cup {"ready", "enabled"})
  <2>1. But(s, a, Latches)
    BY <1>1 DEF But, Latches
  <2>2. But(a, c, F \cup Latches)
    BY DEF a
  <2>3. But(s, c, F \cup Latches)
    BY <2>1, <2>2 DEF But
  <2>4. But(s, b, Latches \cup F \cup {"ready", "enabled"})
    BY <2>3 DEF But
  <2> QED
    BY <1>4, <2>4 DEF But
<1>6. t.ready = TRUE /\ t.enabled = {} /\ IsHw(t)
  BY <1>4 DEF But, Pins
<1>7. But(s, t, Latches \cup F)
  BY <1>5, <1>6 DEF But, Idle
<1>8. \A f \in F \ Latches : t[f] = b[f]
  BY <1>4 DEF But, Latches
<1> QED
  BY <1>6, <1>7, <1>8 DEF Idle

\* What a load from addr gets, g, and leaves, t.
Loads(s, addr, v, t, g) ==
    /\ Idle(t)
    /\ DeviceAt(addr) = "ram" => But(s, t, Latches) /\ g = s.ram[addr % RAM_SIZE]
    /\ DeviceAt(addr) = "rom" => But(s, t, Latches) /\ g = Rom[addr % ROM_BIT]
    /\ DeviceAt(addr) = "ppu" =>
         /\ But(s, t, Latches \cup {"ppu_call"}) /\ t.ppu_call = <<"read", addr % PPU_IO_SIZE>>
         /\ g = IF addr % PPU_IO_SIZE \in {PPU_STATUS, PPU_VRAM_DATA} THEN v ELSE 0
    /\ DeviceAt(addr) = "apu" /\ addr % APU_IO_SIZE = APU_JOYPAD =>
         /\ But(s, t, Latches \cup {"read_cnt"}) /\ t.read_cnt = (s.read_cnt + 1) % BUTTON_CNT
         /\ g = Button(s.read_cnt)
    /\ DeviceAt(addr) = "apu" /\ addr % APU_IO_SIZE # APU_JOYPAD => But(s, t, Latches) /\ g = 0

\* A load reaches one device, and the latches of no other come into it.
LEMMA LoadIs ==
  ASSUME NEW s, Idle(s), NEW addr, NEW v
  PROVE  Loads(s, addr, v, Fetched(s, addr, v), GotFrom(s, addr, v))
<1> SUFFICES ASSUME NEW t, t = Fetched(s, addr, v), NEW g, g = GotFrom(s, addr, v)
             PROVE  Loads(s, addr, v, t, g)
  OBVIOUS
<1> USE DEF Loads
<1> DEFINE a == Selecting(s, FALSE, addr)
           b == StartBus(a, v)
<1>1. /\ But(s, a, {"rw", "addr_bus", "rom_addr", "apu_addr", "ppu_addr", "ppu_rw", "ram_addr", "oe", "we"})
      /\ a.ready = TRUE /\ a.addr_bus = addr /\ a.rw = FALSE
      /\ DeviceAt(addr) = "rom" => a.rom_addr = addr % ROM_BIT
      /\ DeviceAt(addr) = "apu" => a.apu_addr = addr % APU_IO_SIZE
      /\ DeviceAt(addr) = "ppu" => a.ppu_addr = addr % PPU_IO_SIZE /\ a.ppu_rw = FALSE
      /\ DeviceAt(addr) = "ram" => a.ram_addr = addr % RAM_SIZE /\ a.oe = TRUE /\ a.we = FALSE
  <2>1. Selects(s, a, FALSE, addr)
    BY Selection, Zenon DEF Idle
  <2> HIDE DEF a
  <2> QED
    BY <2>1 DEF Selects
<1>2. IsHw(a) /\ a.enabled = {} /\ a.ram = s.ram /\ a.read_cnt = s.read_cnt
  BY <1>1 DEF But, Pins, Idle
<1>3. ASSUME NEW F \in SUBSET (Pins \ {"ready", "enabled"}),
             Started(a, b, addr, {"ram_data", "rom_data", "apu_data", "ppu_data"} \cup F)
      PROVE  Done(s, b, t, F) /\ g = DeviceData(b)
  BY <1>3, LoadDone, Zenon
<1> HIDE DEF a
<1>0. /\ DeviceAt(addr) = "ram" => RamAnswers(a, b, v)
      /\ DeviceAt(addr) = "rom" => RomAnswers(a, b, v)
      /\ DeviceAt(addr) = "ppu" => PpuAnswers(a, b, v)
      /\ DeviceAt(addr) = "apu" => ApuReadAnswers(a, b, v)
  BY <1>1, <1>2, RamStarts, RomStarts, PpuStarts, ApuReading
<1> HIDE DEF b
<1>4. CASE DeviceAt(addr) = "ram"
  <2>1. /\ b.ready = TRUE /\ b.enabled = {"ram"} /\ But(a, b, {"ready", "enabled", "ram_data"})
        /\ b.ram_data = s.ram[addr % RAM_SIZE]
    BY <1>0, <1>1, <1>2, <1>4 DEF RamAnswers
  <2>2. /\ Started(a, b, addr, {"ram_data", "rom_data", "apu_data", "ppu_data"} \cup {})
        /\ b.addr_bus = addr /\ {} \in SUBSET (Pins \ {"ready", "enabled"})
    BY <1>1, <1>4, <2>1 DEF But, Pins, Selected, Started
  <2>3. But(s, t, Latches \cup {}) /\ Idle(t) /\ g = DeviceData(b)
    BY <1>3, <2>1, <2>2 DEF Done
  <2>4. DeviceData(b) = b.ram_data
    BY <1>4, <2>2 DEF DeviceData
  <2> QED
    BY <1>4, <2>1, <2>3, <2>4
<1>5. CASE DeviceAt(addr) = "rom"
  <2>1. /\ b.ready = TRUE /\ b.enabled = {"rom"} /\ But(a, b, {"ready", "enabled", "rom_data"})
        /\ b.rom_data = Rom[addr % ROM_BIT]
    BY <1>0, <1>1, <1>2, <1>5 DEF RomAnswers
  <2>2. /\ Started(a, b, addr, {"ram_data", "rom_data", "apu_data", "ppu_data"} \cup {})
        /\ b.addr_bus = addr /\ {} \in SUBSET (Pins \ {"ready", "enabled"})
    BY <1>1, <1>5, <2>1 DEF But, Pins, Selected, Started
  <2>3. But(s, t, Latches \cup {}) /\ Idle(t) /\ g = DeviceData(b)
    BY <1>3, <2>1, <2>2 DEF Done
  <2>4. DeviceData(b) = b.rom_data
    BY <1>5, <2>2 DEF DeviceData
  <2> QED
    BY <1>5, <2>1, <2>3, <2>4
<1>6. CASE DeviceAt(addr) = "ppu"
  <2>1. /\ b.ready = TRUE /\ b.enabled = {"ppu"} /\ But(a, b, {"ready", "enabled", "ppu_call", "ppu_data"})
        /\ b.ppu_call = <<"read", a.ppu_addr>>
        /\ b.ppu_data = IF a.ppu_addr \in {PPU_STATUS, PPU_VRAM_DATA} THEN v ELSE 0
    BY <1>0, <1>1, <1>2, <1>6 DEF PpuAnswers
  <2>2. /\ Started(a, b, addr, {"ram_data", "rom_data", "apu_data", "ppu_data"} \cup {"ppu_call"})
        /\ b.addr_bus = addr
        /\ {"ppu_call"} \in SUBSET (Pins \ {"ready", "enabled"}) /\ "ppu_call" \in {"ppu_call"} \ Latches
    BY <1>1, <1>6, <2>1 DEF But, Pins, Selected, Started, Latches
  <2>3. But(s, t, Latches \cup {"ppu_call"}) /\ Idle(t) /\ g = DeviceData(b) /\ t.ppu_call = b.ppu_call
    BY <1>3, <2>1, <2>2 DEF Done
  <2>4. DeviceData(b) = b.ppu_data
    BY <1>6, <2>2 DEF DeviceData
  <2> QED
    BY <1>1, <1>6, <2>1, <2>3, <2>4
<1>7. CASE DeviceAt(addr) = "apu" /\ addr % APU_IO_SIZE = APU_JOYPAD
  <2>1. /\ b.ready = TRUE /\ But(a, b, {"ready", "apu_data", "read_cnt"})
        /\ b.apu_data = Button(s.read_cnt) /\ b.read_cnt = (s.read_cnt + 1) % BUTTON_CNT
    BY <1>0, <1>1, <1>2, <1>7 DEF ApuReadAnswers
  <2>2. /\ Started(a, b, addr, {"ram_data", "rom_data", "apu_data", "ppu_data"} \cup {"read_cnt"})
        /\ b.addr_bus = addr
        /\ {"read_cnt"} \in SUBSET (Pins \ {"ready", "enabled"}) /\ "read_cnt" \in {"read_cnt"} \ Latches
    BY <1>1, <1>2, <1>7, <2>1 DEF But, Pins, Selected, Started, Latches
  <2>3. But(s, t, Latches \cup {"read_cnt"}) /\ Idle(t) /\ g = DeviceData(b) /\ t.read_cnt = b.read_cnt
    BY <1>3, <2>1, <2>2 DEF Done
  <2>4. DeviceData(b) = b.apu_data
    BY <1>7, <2>2 DEF DeviceData
  <2> QED
    BY <1>7, <2>1, <2>3, <2>4
<1>8. CASE DeviceAt(addr) = "apu" /\ addr % APU_IO_SIZE # APU_JOYPAD
  <2>1. b.ready = TRUE /\ But(a, b, {"ready", "apu_data"}) /\ b.apu_data = 0
    BY <1>0, <1>1, <1>2, <1>8 DEF ApuReadAnswers
  <2>2. /\ Started(a, b, addr, {"ram_data", "rom_data", "apu_data", "ppu_data"} \cup {})
        /\ b.addr_bus = addr /\ {} \in SUBSET (Pins \ {"ready", "enabled"})
    BY <1>1, <1>2, <1>8, <2>1 DEF But, Pins, Selected, Started
  <2>3. But(s, t, Latches \cup {}) /\ Idle(t) /\ g = DeviceData(b)
    BY <1>3, <2>1, <2>2 DEF Done
  <2>4. DeviceData(b) = b.apu_data
    BY <1>8, <2>2 DEF DeviceData
  <2> QED
    BY <1>8, <2>1, <2>3, <2>4
<1> QED
  BY <1>4, <1>5, <1>6, <1>7, <1>8, Devices

\* The data is put on the bus, for the device that the address selected.
Puts(a, c, addr, data) ==
    /\ IsHw(c) /\ c.ready = TRUE /\ c.addr_bus = addr
    /\ DeviceAt(addr) = "rom" => But(a, c, {"data_bus", "critical_error"}) /\ c.critical_error = TRUE
    /\ DeviceAt(addr) = "apu" => But(a, c, {"data_bus", "apu_data"}) /\ c.apu_data = data
    /\ DeviceAt(addr) = "ppu" => But(a, c, {"data_bus", "ppu_data"}) /\ c.ppu_data = data
    /\ DeviceAt(addr) = "ram" => But(a, c, {"data_bus", "ram_data"}) /\ c.ram_data = data

LEMMA DataPut ==
  ASSUME NEW a, IsHw(a), a.ready = TRUE, NEW addr, a.addr_bus = addr, NEW data
  PROVE  Puts(a, SetBusData(a, data), addr, data)
<1> SUFFICES ASSUME NEW c, c = SetBusData(a, data) PROVE Puts(a, c, addr, data)
  OBVIOUS
<1> USE DEF Puts
<1> DEFINE d == [a EXCEPT !.data_bus = data]
<1>1. But(a, d, {"data_bus"})
  BY DEF IsHw, Pins, But
<1>2. /\ DeviceAt(addr) = "rom" => c = [d EXCEPT !.critical_error = TRUE]
      /\ DeviceAt(addr) = "apu" => c = [d EXCEPT !.apu_data = data]
      /\ DeviceAt(addr) = "ppu" => c = [d EXCEPT !.ppu_data = data]
      /\ DeviceAt(addr) = "ram" => c = [d EXCEPT !.ram_data = data]
  BY DEF SetBusData
<1> HIDE DEF d
<1>3. CASE DeviceAt(addr) = "rom"
  BY <1>1, <1>2, <1>3 DEF IsHw, Pins, But
<1>4. CASE DeviceAt(addr) = "apu"
  BY <1>1, <1>2, <1>4 DEF IsHw, Pins, But
<1>5. CASE DeviceAt(addr) = "ppu"
  BY <1>1, <1>2, <1>5 DEF IsHw, Pins, But
<1>6. CASE DeviceAt(addr) = "ram"
  BY <1>1, <1>2, <1>6 DEF IsHw, Pins, But
<1> QED
  BY <1>3, <1>4, <1>5, <1>6, Devices

\* What a store to addr leaves, t.
Stores(s, addr, data, t) ==
    /\ Idle(t)
    /\ DeviceAt(addr) = "ram" =>
         But(s, t, Latches \cup {"ram"}) /\ t.ram = [s.ram EXCEPT ![addr % RAM_SIZE] = data]
    /\ DeviceAt(addr) = "rom" =>
         But(s, t, Latches \cup {"critical_error"}) /\ t.critical_error = TRUE
    /\ DeviceAt(addr) = "ppu" =>
         /\ But(s, t, Latches \cup {"ppu_call"})
         /\ t.ppu_call = <<"write", addr % PPU_IO_SIZE, data>>
    /\ DeviceAt(addr) = "apu" /\ addr % APU_IO_SIZE = APU_DMA =>
         /\ But(s, t, Latches \cup {"dma", "dma_cnt", "dma_ram_addr"})
         /\ t.dma = TRUE /\ t.dma_cnt = 0
         /\ t.dma_ram_addr = data * DMA_ADDR_MULTIPLE % (2 * ROM_BIT)
    /\ DeviceAt(addr) = "apu" /\ addr % APU_IO_SIZE = APU_JOYPAD =>
         /\ But(s, t, Latches \cup {"button_set", "read_cnt"})
         /\ t.button_set = (data % 2 = 1)
         /\ t.read_cnt = IF s.button_set /\ data % 2 = 0 THEN 0 ELSE s.read_cnt
    /\ DeviceAt(addr) = "apu" /\ addr % APU_IO_SIZE \notin {APU_DMA, APU_JOYPAD} => But(s, t, Latches)

\* A store changes the one device it reaches, by the data and not by an earlier latch.
LEMMA StoreIs ==
  ASSUME NEW s, Idle(s), NEW addr, NEW data
  PROVE  Stores(s, addr, data, Stored(s, addr, data))
<1> SUFFICES ASSUME NEW t, t = Stored(s, addr, data) PROVE Stores(s, addr, data, t)
  OBVIOUS
<1> USE DEF Stores
<1> DEFINE a == Selecting(s, TRUE, addr)
           c == SetBusData(a, data)
           b == StartBus(c, 0)
<1>1. /\ But(s, a, {"rw", "addr_bus", "rom_addr", "apu_addr", "ppu_addr", "ppu_rw", "ram_addr", "oe", "we"})
      /\ a.ready = TRUE /\ a.addr_bus = addr /\ a.rw = TRUE
      /\ DeviceAt(addr) = "rom" => a.rom_addr = addr % ROM_BIT
      /\ DeviceAt(addr) = "apu" => a.apu_addr = addr % APU_IO_SIZE
      /\ DeviceAt(addr) = "ppu" => a.ppu_addr = addr % PPU_IO_SIZE /\ a.ppu_rw = TRUE
      /\ DeviceAt(addr) = "ram" => a.ram_addr = addr % RAM_SIZE /\ a.oe = FALSE /\ a.we = TRUE
  <2>1. Selects(s, a, TRUE, addr)
    BY Selection, Zenon DEF Idle
  <2> HIDE DEF a
  <2> QED
    BY <2>1 DEF Selects
<1>2. IsHw(a) /\ a.enabled = {}
  BY <1>1 DEF But, Pins, Idle
<1>3. ASSUME NEW F \in SUBSET (Pins \ {"ready", "enabled"}), But(a, c, F \cup Latches),
             Started(c, b, addr, F)
      PROVE  Done(s, b, t, F)
  BY <1>3, StoreDone, Zenon
<1> HIDE DEF a
<1>4. Puts(a, c, addr, data)
  BY <1>1, <1>2, DataPut
<1> HIDE DEF c
<1>5. IsHw(c) /\ c.ready = TRUE /\ c.addr_bus = addr /\ c.enabled = {} /\ c.rw = TRUE
  BY <1>1, <1>2, <1>4, Devices DEF Puts, But, Pins
<1>6. /\ DeviceAt(addr) = "ram" => RamAnswers(c, b, 0)
      /\ DeviceAt(addr) = "rom" => RomAnswers(c, b, 0)
      /\ DeviceAt(addr) = "ppu" => PpuAnswers(c, b, 0)
      /\ DeviceAt(addr) = "apu" => ApuWriteAnswers(c, b, 0)
  BY <1>5, RamStarts, RomStarts, PpuStarts, ApuWriting
<1> HIDE DEF b
<1>7. CASE DeviceAt(addr) = "ram"
  <2>1. /\ But(a, c, {"data_bus", "ram_data"}) /\ c.ram_data = data
        /\ c.ram_addr = addr % RAM_SIZE /\ c.oe = FALSE /\ c.we = TRUE /\ c.ram = s.ram
    BY <1>1, <1>4, <1>7 DEF Puts, But, Pins
  <2>2. /\ b.ready = TRUE /\ b.enabled = {"ram"} /\ But(c, b, {"ready", "enabled", "ram"})
        /\ b.ram = [s.ram EXCEPT ![addr % RAM_SIZE] = data]
    BY <1>5, <1>6, <1>7, <2>1 DEF RamAnswers
  <2>3. /\ Started(c, b, addr, {"ram"}) /\ But(a, c, {"ram"} \cup Latches)
        /\ {"ram"} \in SUBSET (Pins \ {"ready", "enabled"}) /\ "ram" \in {"ram"} \ Latches
    BY <1>5, <1>7, <2>1, <2>2 DEF But, Pins, Selected, Started, Latches
  <2>4. But(s, t, Latches \cup {"ram"}) /\ Idle(t) /\ t.ram = b.ram
    BY <1>3, <2>3 DEF Done
  <2> QED
    BY <1>7, <2>2, <2>4
<1>8. CASE DeviceAt(addr) = "rom"
  <2>1. But(a, c, {"data_bus", "critical_error"}) /\ c.critical_error = TRUE
    BY <1>1, <1>4, <1>8 DEF Puts, But, Pins
  <2>2. b.ready = TRUE /\ b.enabled = {"rom"} /\ But(c, b, {"ready", "enabled", "rom_data"})
    BY <1>5, <1>6, <1>8, <2>1 DEF RomAnswers
  <2>3. /\ Started(c, b, addr, {"critical_error", "rom_data"})
        /\ But(a, c, {"critical_error", "rom_data"} \cup Latches)
        /\ {"critical_error", "rom_data"} \in SUBSET (Pins \ {"ready", "enabled"})
        /\ "critical_error" \in {"critical_error", "rom_data"} \ Latches
        /\ b.critical_error = TRUE
    BY <1>5, <1>8, <2>1, <2>2 DEF But, Pins, Selected, Started, Latches
  <2>4. /\ But(s, t, Latches \cup {"critical_error", "rom_data"}) /\ Idle(t)
        /\ t.critical_error = b.critical_error
    BY <1>3, <2>3 DEF Done
  <2>5. But(s, t, Latches \cup {"critical_error"})
    BY <2>4 DEF But, Latches
  <2> QED
    BY <1>8, <2>3, <2>4, <2>5
<1>9. CASE DeviceAt(addr) = "ppu"
  <2>1. /\ But(a, c, {"data_bus", "ppu_data"}) /\ c.ppu_data = data
        /\ c.ppu_addr = addr % PPU_IO_SIZE /\ c.ppu_rw = TRUE
    BY <1>1, <1>4, <1>9 DEF Puts, But, Pins
  <2>2. /\ b.ready = TRUE /\ b.enabled = {"ppu"} /\ But(c, b, {"ready", "enabled", "ppu_call"})
        /\ b.ppu_call = <<"write", addr % PPU_IO_SIZE, data>>
    BY <1>5, <1>6, <1>9, <2>1 DEF PpuAnswers
  <2>3. /\ Started(c, b, addr, {"ppu_call"}) /\ But(a, c, {"ppu_call"} \cup Latches)
        /\ {"ppu_call"} \in SUBSET (Pins \ {"ready", "enabled"}) /\ "ppu_call" \in {"ppu_call"} \ Latches
    BY <1>5, <1>9, <2>1, <2>2 DEF But, Pins, Selected, Started, Latches
  <2>4. But(s, t, Latches \cup {"ppu_call"}) /\ Idle(t) /\ t.ppu_call = b.ppu_call
    BY <1>3, <2>3 DEF Done
  <2> QED
    BY <1>9, <2>2, <2>4
<1>10. ASSUME DeviceAt(addr) = "apu"
       PROVE  /\ But(a, c, {"data_bus", "apu_data"}) /\ c.apu_data = data
              /\ c.apu_addr = addr % APU_IO_SIZE /\ c.button_set = s.button_set /\ c.read_cnt = s.read_cnt
              /\ ApuWriteAnswers(c, b, 0) /\ b.ready = TRUE
  BY <1>1, <1>4, <1>6, <1>10 DEF Puts, But, Pins, ApuWriteAnswers
<1>11. CASE DeviceAt(addr) = "apu" /\ addr % APU_IO_SIZE = APU_DMA
  <2>2. /\ But(c, b, {"ready", "dma", "dma_cnt", "dma_ram_addr"})
        /\ b.dma = TRUE /\ b.dma_cnt = 0 /\ b.dma_ram_addr = data * DMA_ADDR_MULTIPLE % (2 * ROM_BIT)
    BY <1>10, <1>11 DEF ApuWriteAnswers
  <2>3. /\ Started(c, b, addr, {"dma", "dma_cnt", "dma_ram_addr"})
        /\ But(a, c, {"dma", "dma_cnt", "dma_ram_addr"} \cup Latches)
        /\ {"dma", "dma_cnt", "dma_ram_addr"} \in SUBSET (Pins \ {"ready", "enabled"})
        /\ {"dma", "dma_cnt", "dma_ram_addr"} \subseteq {"dma", "dma_cnt", "dma_ram_addr"} \ Latches
    BY <1>5, <1>10, <1>11, <2>2 DEF But, Pins, Selected, Started, Latches
  <2>4. /\ But(s, t, Latches \cup {"dma", "dma_cnt", "dma_ram_addr"}) /\ Idle(t)
        /\ t.dma = b.dma /\ t.dma_cnt = b.dma_cnt /\ t.dma_ram_addr = b.dma_ram_addr
    BY <1>3, <2>3 DEF Done
  <2> QED
    BY <1>11, <2>2, <2>4, BusAssumption
<1>12. CASE DeviceAt(addr) = "apu" /\ addr % APU_IO_SIZE = APU_JOYPAD
  <2>2. /\ But(c, b, {"ready", "button_set", "read_cnt"}) /\ b.button_set = (data % 2 = 1)
        /\ b.read_cnt = IF s.button_set /\ data % 2 = 0 THEN 0 ELSE s.read_cnt
    BY <1>10, <1>12 DEF ApuWriteAnswers
  <2>3. /\ Started(c, b, addr, {"button_set", "read_cnt"}) /\ But(a, c, {"button_set", "read_cnt"} \cup Latches)
        /\ {"button_set", "read_cnt"} \in SUBSET (Pins \ {"ready", "enabled"})
        /\ {"button_set", "read_cnt"} \subseteq {"button_set", "read_cnt"} \ Latches
    BY <1>5, <1>10, <1>12, <2>2 DEF But, Pins, Selected, Started, Latches
  <2>4. /\ But(s, t, Latches \cup {"button_set", "read_cnt"}) /\ Idle(t)
        /\ t.button_set = b.button_set /\ t.read_cnt = b.read_cnt
    BY <1>3, <2>3 DEF Done
  <2> QED
    BY <1>12, <2>2, <2>4, BusAssumption
<1>13. CASE DeviceAt(addr) = "apu" /\ addr % APU_IO_SIZE \notin {APU_DMA, APU_JOYPAD}
  <2>2. But(c, b, {"ready"})
    BY <1>10, <1>13 DEF ApuWriteAnswers
  <2>3. /\ Started(c, b, addr, {}) /\ But(a, c, {} \cup Latches)
        /\ {} \in SUBSET (Pins \ {"ready", "enabled"})
    BY <1>5, <1>10, <1>13, <2>2 DEF But, Pins, Selected, Started, Latches
  <2>4. But(s, t, Latches \cup {}) /\ Idle(t)
    BY <1>3, <2>3 DEF Done
  <2> QED
    BY <1>13, <2>4
<1> QED
  BY <1>7, <1>8, <1>9, <1>11, <1>12, <1>13, Devices

-----------------------------------------------------------------------------
(* The decoded bits, and the ranges of the memory map. *)

-----------------------------------------------------------------------------
(* The bus is handed on. *)

\* BusIsHandedOn of the fields of s, whose types are known.
Owned(s) ==
    /\ IsHw(s)
    /\ s.ready \in BOOLEAN /\ s.dma \in BOOLEAN /\ s.dma_cnt \in Nat
    /\ s.enabled = {}
    /\ s.ready <=> ~s.dma \/ s.dma_cnt = 0

OwnerInv == Owned(hw)

\* The three ways to own the bus.
LEMMA OwnedBy ==
  ASSUME NEW s, IsHw(s), s.enabled = {}, s.dma_cnt \in Nat,
         \/ s.ready = TRUE /\ s.dma = FALSE
         \/ s.ready = TRUE /\ s.dma = TRUE /\ s.dma_cnt = 0
         \/ s.ready = FALSE /\ s.dma = TRUE /\ s.dma_cnt # 0
  PROVE  Owned(s)
  BY DEF Owned

LEMMA InitOwner == Init => OwnerInv
<1> SUFFICES ASSUME Init PROVE Owned(hw)
  BY DEF OwnerInv
<1>1. IsHw(hw) /\ hw.enabled = {} /\ hw.dma_cnt \in Nat /\ hw.ready = TRUE /\ hw.dma = FALSE
  <2>1. IsHw(hw) /\ hw.enabled = {} /\ hw.dma_cnt = 0 /\ hw.ready = TRUE /\ hw.dma = FALSE
    BY AtFirst, Zenon
  <2> QED
    BY <2>1
<1> QED
  BY <1>1, OwnedBy

\* Who has the bus, and what is next for DMA.
SameDma(s, t) == t.dma = s.dma /\ t.dma_cnt = s.dma_cnt /\ t.dma_ram_addr = s.dma_ram_addr

LEMMA LoadsLeaveDma ==
  ASSUME NEW s, NEW addr, NEW v, NEW t, NEW g, Loads(s, addr, v, t, g)
  PROVE  IsHw(t) /\ SameDma(s, t)
<1>1. IsHw(t) /\ (But(s, t, Latches \cup {"ppu_call"}) \/ But(s, t, Latches \cup {"read_cnt"}))
  BY Devices DEF Loads, But, Idle
<1> QED
  BY <1>1 DEF But, Pins, Latches, SameDma

\* The bus between two accesses is the one the next access expects.
LEMMA CpuFindsIdle ==
  ASSUME OwnerInv, ~hw.dma
  PROVE  Idle(hw) /\ hw.dma = FALSE
  BY DEF OwnerInv, Owned, Idle

LEMMA DmaFindsIdle ==
  ASSUME OwnerInv, hw.dma
  PROVE  /\ Idle(DmaBus) /\ But(hw, DmaBus, {"ready"}) /\ SameDma(hw, DmaBus)
         /\ hw.dma = TRUE /\ hw.dma_cnt \in Nat
<1> DEFINE d == DmaBus
<1>1. But(hw, d, {"ready"}) /\ d.ready = TRUE
  <2>1. CASE hw.dma_cnt > 0
    BY <2>1, ReadyPin DEF DmaBus, OwnerInv, Owned
  <2>2. CASE ~(hw.dma_cnt > 0)
    BY <2>2 DEF DmaBus, OwnerInv, Owned, But
  <2> QED
    BY <2>1, <2>2
<1>2. hw.dma = TRUE /\ hw.dma_cnt \in Nat
  BY DEF OwnerInv, Owned
<1> HIDE DEF d
<1>3. Idle(d) /\ SameDma(hw, d)
  BY <1>1 DEF Idle, But, Pins, OwnerInv, Owned, SameDma
<1> QED
  BY <1>1, <1>2, <1>3 DEF d

\* A load of the CPU, and a fetch of DMA, in the terms of Loads.
LEMMA LoadLoads ==
  ASSUME OwnerInv, NEW addr, NEW v, LoadMemory(addr, v)
  PROVE  Idle(hw) /\ hw.dma = FALSE /\ Loads(hw, addr, v, hw', answer') /\ held' = held
<1>1. Idle(hw) /\ hw.dma = FALSE
  BY CpuFindsIdle DEF LoadMemory
<1>2. hw' = Fetched(hw, addr, v) /\ answer' = GotFrom(hw, addr, v) /\ held' = held
  BY DEF LoadMemory, Fetched, GotFrom, Selecting
<1> QED
  BY <1>1, <1>2, LoadIs, Zenon

LEMMA StoreStores ==
  ASSUME OwnerInv, NEW addr, NEW data, StoreMemory(addr, data)
  PROVE  Idle(hw) /\ hw.dma = FALSE /\ Stores(hw, addr, data, hw') /\ UNCHANGED <<held, answer>>
<1>1. Idle(hw) /\ hw.dma = FALSE
  BY CpuFindsIdle DEF StoreMemory
<1>2. hw' = Stored(hw, addr, data) /\ UNCHANGED <<held, answer>>
  BY DEF StoreMemory, Stored
<1> QED
  BY <1>1, <1>2, StoreIs, Zenon

\* DMA gives up the bus it kept, e is what the load leaves, and it keeps the bus again.
Fetches(d, e, v) ==
    /\ hw.dma = TRUE /\ hw.dma_cnt \in Nat /\ hw.dma_cnt % 2 = 0
    /\ IsHw(d) /\ But(hw, d, {"ready"}) /\ SameDma(hw, d)
    /\ Loads(d, hw.dma_ram_addr, v, e, answer') /\ SameDma(hw, e) /\ held' = held
    /\ But(e, hw', {"ready", "dma_ram_addr", "dma_cnt"}) /\ hw'.ready = FALSE
    /\ hw'.dma_ram_addr = (hw.dma_ram_addr + 1) % (2 * ROM_BIT) /\ hw'.dma_cnt = hw.dma_cnt + 1

LEMMA DmaLoads ==
  ASSUME OwnerInv, NEW v, GetRamData(v)
  PROVE  Fetches(DmaBus, Fetched(DmaBus, hw.dma_ram_addr, v), v)
<1> DEFINE d == DmaBus
           addr == hw.dma_ram_addr
           e == Fetched(d, addr, v)
           f == TakeBus(e)
<1>0. hw.dma_cnt % 2 = 0 /\ hw.dma
  BY DEF GetRamData
<1>1. /\ Idle(d) /\ But(hw, d, {"ready"}) /\ SameDma(hw, d) /\ IsHw(d)
      /\ hw.dma = TRUE /\ hw.dma_cnt \in Nat
  BY <1>0, DmaFindsIdle DEF Idle
<1>2. answer' = GotFrom(d, addr, v) /\ held' = held
  BY DEF GetRamData, GotFrom, Selecting
<1>3. hw' = [f EXCEPT !.dma_ram_addr = (@ + 1) % (2 * ROM_BIT), !.dma_cnt = @ + 1]
  BY DEF GetRamData, Fetched
<1> HIDE DEF d
<1>4. Loads(d, addr, v, e, answer')
  BY <1>1, <1>2, LoadIs, Zenon
<1> HIDE DEF e, addr
<1>5. IsHw(e) /\ SameDma(hw, e)
  BY <1>1, <1>4, LoadsLeaveDma DEF SameDma
<1>6. But(e, f, {"ready"}) /\ f.ready = FALSE
  BY <1>5, ReadyPin
<1> HIDE DEF f
<1>7. /\ But(e, hw', {"ready", "dma_ram_addr", "dma_cnt"}) /\ hw'.ready = FALSE
      /\ hw'.dma_ram_addr = (addr + 1) % (2 * ROM_BIT) /\ hw'.dma_cnt = hw.dma_cnt + 1
  BY <1>3, <1>5, <1>6 DEF But, Pins, IsHw, SameDma, addr
<1> QED
  BY <1>0, <1>1, <1>2, <1>4, <1>5, <1>7 DEF Fetches, d, e, addr

\* The odd clock of DMA: the last one gives the bus back.
LEMMA DmaCounts ==
  ASSUME OwnerInv, DmaStores
  PROVE  /\ hw.dma = TRUE /\ hw.dma_cnt \in Nat /\ hw.dma_cnt % 2 = 1
         /\ But(hw, hw', {"ready", "dma", "dma_cnt"}) /\ hw'.dma_cnt = hw.dma_cnt + 1
         /\ hw.dma_cnt = SPRITE_RAM_SIZE * 2 - 1 => hw'.dma = FALSE /\ hw'.ready = TRUE
         /\ hw.dma_cnt # SPRITE_RAM_SIZE * 2 - 1 => hw'.dma = TRUE /\ hw'.ready = hw.ready
         /\ UNCHANGED <<held, answer>>
<1>1. IsHw(hw) /\ hw.dma = TRUE /\ hw.dma_cnt \in Nat /\ hw.dma_cnt % 2 = 1
  BY DEF OwnerInv, Owned, DmaStores
<1>2. CASE hw.dma_cnt = SPRITE_RAM_SIZE * 2 - 1
  <2> DEFINE r == ReleaseBus(hw)
  <2>1. But(hw, r, {"ready"}) /\ r.ready = TRUE
    BY <1>1, ReadyPin
  <2>2. hw' = [r EXCEPT !.dma = FALSE, !.dma_cnt = @ + 1]
    BY <1>2 DEF DmaStores
  <2> HIDE DEF r
  <2>3. /\ But(hw, hw', {"ready", "dma", "dma_cnt"}) /\ hw'.dma_cnt = hw.dma_cnt + 1
        /\ hw'.dma = FALSE /\ hw'.ready = TRUE
    BY <2>1, <2>2 DEF But, Pins, IsHw
  <2> QED
    BY <1>1, <1>2, <2>3 DEF DmaStores
<1>3. CASE hw.dma_cnt # SPRITE_RAM_SIZE * 2 - 1
  <2>1. hw' = [hw EXCEPT !.dma_cnt = @ + 1]
    BY <1>3 DEF DmaStores
  <2>2. /\ But(hw, hw', {"ready", "dma", "dma_cnt"}) /\ hw'.dma_cnt = hw.dma_cnt + 1
        /\ hw'.dma = TRUE /\ hw'.ready = hw.ready
    BY <1>1, <2>1 DEF But, Pins, IsHw
  <2> QED
    BY <1>1, <1>3, <2>2 DEF DmaStores
<1> QED
  BY <1>2, <1>3

LEMMA OwnerStep == OwnerInv /\ [Next]_vars => OwnerInv'
<1> SUFFICES ASSUME OwnerInv, [Next]_vars PROVE OwnerInv'
  OBVIOUS
<1> USE DEF OwnerInv
<1>1. ASSUME NEW addr \in Address, NEW v \in PpuByte, LoadMemory(addr, v) PROVE OwnerInv'
  <2>1. hw.dma = FALSE /\ Loads(hw, addr, v, hw', answer')
    BY <1>1, LoadLoads
  <2>2. IsHw(hw') /\ hw'.ready = TRUE /\ hw'.enabled = {} /\ SameDma(hw, hw')
    BY <2>1, LoadsLeaveDma DEF Loads, Idle
  <2> QED
    BY <2>1, <2>2, OwnedBy DEF Owned, SameDma
<1>2. ASSUME NEW addr \in Address, NEW data \in Byte, StoreMemory(addr, data) PROVE OwnerInv'
  <2>1. hw.dma = FALSE /\ Stores(hw, addr, data, hw')
    BY <1>2, StoreStores
  <2>2. IsHw(hw') /\ hw'.ready = TRUE /\ hw'.enabled = {}
    BY <2>1 DEF Stores, Idle
  <2>3. hw.dma_cnt \in Nat
    BY DEF Owned
  <2>4. \/ hw'.dma = FALSE /\ hw'.dma_cnt = hw.dma_cnt
        \/ hw'.dma = TRUE /\ hw'.dma_cnt = 0
    <3>1. ASSUME NEW F \in SUBSET {"ram", "critical_error", "ppu_call", "button_set", "read_cnt"},
                 But(hw, hw', Latches \cup F)
          PROVE  hw'.dma = FALSE /\ hw'.dma_cnt = hw.dma_cnt
      BY <2>1, <3>1 DEF But, Pins, Latches
    <3>2. CASE DeviceAt(addr) = "apu" /\ addr % APU_IO_SIZE = APU_DMA
      BY <2>1, <3>2 DEF Stores
    <3>3. CASE ~(DeviceAt(addr) = "apu" /\ addr % APU_IO_SIZE = APU_DMA)
      <4>1. \E F \in SUBSET {"ram", "critical_error", "ppu_call", "button_set", "read_cnt"} :
              But(hw, hw', Latches \cup F)
        <5>1. CASE DeviceAt(addr) # "apu"
          BY <2>1, <5>1, Devices DEF Stores
        <5>2. CASE DeviceAt(addr) = "apu" /\ addr % APU_IO_SIZE = APU_JOYPAD
          BY <2>1, <5>2 DEF Stores
        <5>3. CASE DeviceAt(addr) = "apu" /\ addr % APU_IO_SIZE \notin {APU_DMA, APU_JOYPAD}
          <6>1. But(hw, hw', Latches \cup {})
            BY <2>1, <5>3 DEF Stores
          <6> QED
            BY <6>1
        <5> QED
          BY <3>3, <5>1, <5>2, <5>3
      <4> QED
        BY <3>1, <4>1
    <3> QED
      BY <3>2, <3>3
  <2>5. CASE hw'.dma = FALSE /\ hw'.dma_cnt = hw.dma_cnt
    BY <2>2, <2>3, <2>5, OwnedBy
  <2>6. CASE hw'.dma = TRUE /\ hw'.dma_cnt = 0
    <3>1. hw'.dma_cnt \in Nat
      BY <2>6
    <3> QED
      BY <2>2, <2>6, <3>1, OwnedBy
  <2> QED
    BY <2>4, <2>5, <2>6
<1>3. ASSUME NEW v \in PpuByte, GetRamData(v) PROVE OwnerInv'
  <2> DEFINE e == Fetched(DmaBus, hw.dma_ram_addr, v)
  <2>1. Fetches(DmaBus, e, v)
    BY <1>3, DmaLoads
  <2> HIDE DEF e
  <2>2. /\ IsHw(hw') /\ hw'.enabled = {} /\ hw'.ready = FALSE /\ hw'.dma = TRUE
        /\ hw'.dma_cnt = hw.dma_cnt + 1 /\ hw.dma_cnt \in Nat
    BY <2>1 DEF Fetches, Loads, Idle, But, Pins, SameDma
  <2>3. hw'.dma_cnt \in Nat /\ hw'.dma_cnt # 0
    BY <2>2
  <2> QED
    BY <2>2, <2>3, OwnedBy
<1>4. CASE DmaStores
  <2>1. /\ IsHw(hw') /\ hw'.enabled = {} /\ hw.ready = FALSE
        /\ hw.dma_cnt \in Nat /\ hw'.dma_cnt = hw.dma_cnt + 1
        /\ \/ hw'.dma = FALSE /\ hw'.ready = TRUE
           \/ hw'.dma = TRUE /\ hw'.ready = FALSE
    <3>1. hw.dma_cnt # 0
      BY <1>4, DmaCounts
    <3>2. hw.ready = FALSE /\ hw.enabled = {}
      BY <1>4, <3>1, DmaCounts DEF Owned
    <3> QED
      BY <1>4, <3>2, DmaCounts DEF But, Pins
  <2>2. hw'.dma_cnt \in Nat /\ hw'.dma_cnt # 0
    BY <2>1
  <2> QED
    BY <2>1, <2>2, OwnedBy
<1>5. ASSUME hw' = hw PROVE OwnerInv'
  BY <1>5 DEF Owned
<1> QED
  BY <1>1, <1>2, <1>3, <1>4, <1>5 DEF Next, KeyPress, KeyRelease, vars

\* cpu.c, dma.c and bus.c hand the bus on without an arbiter, by set_bus_ready: whoever
\* has its turn finds it ready, no device stays enabled for the next access, and after
\* the 256th byte the CPU has it back.
THEOREM BusHandedOn == Spec => []BusIsHandedOn
<1>1. OwnerInv => BusIsHandedOn
  BY DEF OwnerInv, Owned, BusIsHandedOn
<1> QED
  BY <1>1, InitOwner, OwnerStep, PTL DEF Spec

-----------------------------------------------------------------------------
(* The decoded bits, and the ranges of the memory map. *)

LEMMA Sizes ==
  /\ {ROM_BIT, IO_APU_BIT, IO_PPU_BIT, RAM_SIZE, PPU_IO_SIZE, APU_IO_SIZE, SPRITE_RAM_SIZE,
      BUTTON_CNT} \subseteq Nat \ {0}
  /\ ROM_BIT = 2 * IO_APU_BIT /\ IO_APU_BIT = 2 * IO_PPU_BIT
  /\ DMA_ADDR_MULTIPLE \in Nat /\ Byte \subseteq Nat
  /\ Address \subseteq Memory /\ Memory \subseteq Nat
<1>1. \A a \in Memory : a \in Nat
  BY DEF Memory
<1>2. Memory \subseteq Nat
  BY <1>1
<1> QED
  BY <1>2, BusAssumption

LEMMA Bits ==
  ASSUME NEW bit \in Nat \ {0}, NEW addr \in Nat, addr < 2 * bit
  PROVE  Bit(addr, bit) <=> bit <= addr
<1>1. CASE addr < bit
  <2>1. addr \div bit = 0
    BY <1>1, SmallRemainder
  <2> QED
    BY <1>1, <2>1 DEF Bit
<1>2. CASE bit <= addr
  <2>1. addr \div bit = 1
    BY <1>2, SmallRemainder
  <2> QED
    BY <1>2, <2>1 DEF Bit
<1> QED
  BY <1>1, <1>2

\* bus.c tests the bits from the top; the memory map is in ranges.
LEMMA Decoded ==
  ASSUME NEW addr \in Memory
  PROVE  /\ DeviceAt(addr) = "ram" <=> Map!InRam(addr)
         /\ DeviceAt(addr) = "ppu" <=> Map!InPpu(addr)
         /\ DeviceAt(addr) = "apu" <=> Map!InApu(addr)
         /\ DeviceAt(addr) = "rom" <=> Map!InRom(addr)
         /\ DeviceAt(addr) = "rom" => addr % ROM_BIT = addr - ROM_BIT
<1>1. /\ addr \in Nat /\ addr < 2 * ROM_BIT
      /\ ROM_BIT \in Nat \ {0} /\ IO_APU_BIT \in Nat \ {0} /\ IO_PPU_BIT \in Nat \ {0}
      /\ ROM_BIT = 2 * IO_APU_BIT /\ IO_APU_BIT = 2 * IO_PPU_BIT
  BY Sizes DEF Memory
<1>2. Bit(addr, ROM_BIT) <=> ROM_BIT <= addr
  BY <1>1, Bits
<1>3. addr < ROM_BIT => (Bit(addr, IO_APU_BIT) <=> IO_APU_BIT <= addr)
  BY <1>1, Bits
<1>4. addr < IO_APU_BIT => (Bit(addr, IO_PPU_BIT) <=> IO_PPU_BIT <= addr)
  BY <1>1, Bits
<1>5. CASE ROM_BIT <= addr
  <2>1. DeviceAt(addr) = "rom"
    BY <1>2, <1>5 DEF DeviceAt
  <2>2. addr % ROM_BIT = addr - ROM_BIT
    BY <1>1, <1>5, SmallRemainder
  <2> QED
    BY <1>1, <1>5, <2>1, <2>2 DEF Map!InRam, Map!InPpu, Map!InApu, Map!InRom
<1>6. CASE IO_APU_BIT <= addr /\ addr < ROM_BIT
  <2>1. DeviceAt(addr) = "apu"
    BY <1>1, <1>2, <1>3, <1>6 DEF DeviceAt
  <2> QED
    BY <1>1, <1>6, <2>1 DEF Map!InRam, Map!InPpu, Map!InApu, Map!InRom
<1>7. CASE IO_PPU_BIT <= addr /\ addr < IO_APU_BIT
  <2>1. DeviceAt(addr) = "ppu"
    BY <1>1, <1>2, <1>3, <1>4, <1>7 DEF DeviceAt
  <2> QED
    BY <1>1, <1>7, <2>1 DEF Map!InRam, Map!InPpu, Map!InApu, Map!InRom
<1>8. CASE addr < IO_PPU_BIT
  <2>1. DeviceAt(addr) = "ram"
    BY <1>1, <1>2, <1>3, <1>4, <1>8 DEF DeviceAt
  <2> QED
    BY <1>1, <1>8, <2>1 DEF Map!InRam, Map!InPpu, Map!InApu, Map!InRom
<1> QED
  BY <1>1, <1>5, <1>6, <1>7, <1>8

-----------------------------------------------------------------------------
(* The rings of addresses and of buttons. *)

-----------------------------------------------------------------------------
(* The rings of addresses and of buttons. *)

\* n numbers from first on, of a ring of size.
Ring(first, n, size) == [i \in 1 .. n |-> (first + i - 1) % size]

LEMMA Rings ==
  ASSUME NEW first \in Nat, NEW n \in Nat, NEW size \in Nat \ {0}
  PROVE  /\ Ring(first, n, size) \in Seq(Nat) /\ Len(Ring(first, n, size)) = n
         /\ Ring(first, 0, size) = <<>>
         /\ Ring(first % size, n, size) = Ring(first, n, size)
<1>1. \A i \in 1 .. n : (first + i - 1) % size \in Nat
  BY Division
<1>2. Ring(first, n, size) \in [1 .. n -> Nat]
  BY <1>1 DEF Ring
<1>3. Ring(first, n, size) \in Seq(Nat) /\ Len(Ring(first, n, size)) = n
  BY <1>2, LenProperties
<1>4. Ring(first, 0, size) = <<>>
  BY DEF Ring
<1>5. \A i \in 1 .. n : ((first % size) + i - 1) % size = (first + i - 1) % size
  <2> TAKE i \in 1 .. n
  <2>1. ((first % size) + (i - 1)) % size = (first + (i - 1)) % size
    <3>1. i - 1 \in Nat /\ size > 0
      OBVIOUS
    <3> QED
      BY <3>1, EarlyRemainder
  <2>2. first % size \in Nat
    BY Division
  <2> QED
    BY <2>1, <2>2
<1> QED
  BY <1>3, <1>4, <1>5 DEF Ring

\* Taking the first leaves the ring from the second on.
LEMMA RingTail ==
  ASSUME NEW size \in Nat \ {0}, NEW first \in 0 .. size - 1, NEW n \in Nat \ {0}
  PROVE  /\ Ring(first, n, size) # <<>> /\ Head(Ring(first, n, size)) = first
         /\ Tail(Ring(first, n, size)) = Ring((first + 1) % size, n - 1, size)
<1> DEFINE s == Ring(first, n, size)
           t == Ring(first + 1, n - 1, size)
<1>1. s \in Seq(Nat) /\ Len(s) = n /\ t \in Seq(Nat) /\ Len(t) = n - 1
  <2>1. first \in Nat /\ first + 1 \in Nat /\ n \in Nat /\ n - 1 \in Nat
    OBVIOUS
  <2> QED
    BY <2>1, Rings, Zenon
<1>2. s # <<>> /\ Head(s) = s[1] /\ Tail(s) \in Seq(Nat) /\ Len(Tail(s)) = n - 1
      /\ \A i \in 1 .. n - 1 : Tail(s)[i] = s[i + 1]
  BY <1>1, HeadTailProperties
<1>3. s[1] = first
  <2>1. s[1] = (first + 1 - 1) % size
    BY DEF Ring
  <2> QED
    BY <2>1, SmallRemainder
<1>4. \A i \in 1 .. n - 1 : s[i + 1] = t[i]
  BY DEF Ring
<1>5. Tail(s) = t
  <2> HIDE DEF s, t
  <2> QED
    BY <1>1, <1>2, <1>4, SeqEqual
<1>6. t = Ring((first + 1) % size, n - 1, size)
  BY Rings
<1> QED
  BY <1>2, <1>3, <1>5, <1>6

\* Putting the first behind the last turns a whole ring by one.
LEMMA RingTurn ==
  ASSUME NEW size \in Nat \ {0}, NEW first \in 0 .. size - 1
  PROVE  Append(Tail(Ring(first, size, size)), Head(Ring(first, size, size)))
           = Ring((first + 1) % size, size, size)
<1> DEFINE s == Ring(first, size, size)
           t == Ring(first + 1, size - 1, size)
           u == Ring(first + 1, size, size)
<1>1. /\ t \in Seq(Nat) /\ Len(t) = size - 1 /\ u \in Seq(Nat) /\ Len(u) = size
      /\ Ring((first + 1) % size, size, size) = u
      /\ Ring((first + 1) % size, size - 1, size) = t
  <2>1. first + 1 \in Nat /\ size \in Nat /\ size - 1 \in Nat
    OBVIOUS
  <2> QED
    BY <2>1, Rings, Zenon
<1>2. Head(s) = first /\ Tail(s) = t
  BY <1>1, RingTail
<1>3. \A i \in 1 .. size - 1 : t[i] = u[i]
  BY DEF Ring
<1>4. u[size] = first
  <2>1. u[size] = (first + 1 + size - 1) % size
    BY DEF Ring
  <2>2. size = 1 * size
    OBVIOUS
  <2>3. size % size = 0
    BY <2>2, Multiple
  <2>4. (size + first) % size = first % size
    BY <2>3, SameRemainder
  <2>5. first % size = first
    BY SmallRemainder
  <2>6. first + 1 + size - 1 = size + first
    OBVIOUS
  <2> QED
    BY <2>1, <2>4, <2>5, <2>6
<1> HIDE DEF t, u
<1>5. /\ Append(t, first) \in Seq(Nat) /\ Len(Append(t, first)) = size
      /\ \A i \in 1 .. size - 1 : Append(t, first)[i] = t[i]
      /\ Append(t, first)[size] = first
  BY <1>1, AppendProperties
<1>6. \A i \in 1 .. size : Append(t, first)[i] = u[i]
  BY <1>3, <1>4, <1>5
<1>7. Append(t, first) = u
  BY <1>1, <1>5, <1>6, SeqEqual
<1> QED
  BY <1>1, <1>2, <1>7

-----------------------------------------------------------------------------
(* The refinement. *)

-----------------------------------------------------------------------------
(* The refinement. *)

\* The types of what the memory map is read from.  DMA's count is even when it has a byte
\* to fetch, so that one more fetch is still within the page.
Kept(s) ==
    /\ IsHw(s)
    /\ s.ram \in [0 .. RAM_SIZE - 1 -> Byte]
    /\ s.critical_error \in BOOLEAN /\ s.button_set \in BOOLEAN
    /\ s.read_cnt \in 0 .. BUTTON_CNT - 1
    /\ s.dma \in BOOLEAN /\ s.dma_ram_addr \in Memory
    /\ s.dma_cnt \in 0 .. 2 * SPRITE_RAM_SIZE
    /\ s.dma = TRUE => s.dma_cnt < 2 * SPRITE_RAM_SIZE

LEMMA InMemory ==
  ASSUME NEW n \in Nat
  PROVE  n % (2 * ROM_BIT) \in Memory
<1>1. 2 * ROM_BIT \in Nat /\ 2 * ROM_BIT > 0
  BY Sizes
<1>2. n % (2 * ROM_BIT) \in 0 .. 2 * ROM_BIT - 1
  BY <1>1, Division
<1> QED
  BY <1>2 DEF Memory

LEMMA NextButton ==
  ASSUME NEW n \in 0 .. BUTTON_CNT - 1
  PROVE  (n + 1) % BUTTON_CNT \in 0 .. BUTTON_CNT - 1 /\ 0 \in 0 .. BUTTON_CNT - 1
<1>1. BUTTON_CNT \in Nat \ {0} /\ n + 1 \in Nat
  BY Sizes
<1>2. (n + 1) % BUTTON_CNT \in 0 .. BUTTON_CNT - 1
  BY <1>1, Division
<1> QED
  BY <1>1, <1>2

\* A load keeps the types, and a store does.
LEMMA LoadKept ==
  ASSUME NEW s, Kept(s), NEW addr, NEW v, NEW t, NEW g, Loads(s, addr, v, t, g)
  PROVE  Kept(t)
<1>1. IsHw(t) /\ (But(s, t, Latches \cup {"ppu_call"}) \/ But(s, t, Latches \cup {"read_cnt"}))
  BY Devices DEF Loads, But, Idle
<1>2. t.read_cnt \in 0 .. BUTTON_CNT - 1
  <2>1. t.read_cnt = s.read_cnt \/ t.read_cnt = (s.read_cnt + 1) % BUTTON_CNT
    BY Devices DEF Loads, But, Pins, Latches
  <2> QED
    BY <2>1, NextButton DEF Kept
<1> QED
  BY <1>1, <1>2 DEF Kept, But, Pins, Latches

LEMMA StoreKept ==
  ASSUME NEW s, Kept(s), s.dma = FALSE, NEW addr \in Memory, NEW data \in Byte, NEW t,
         Stores(s, addr, data, t)
  PROVE  Kept(t)
<1> USE DEF Stores
<1>0. IsHw(t) /\ addr \in Nat /\ data \in Nat /\ DMA_ADDR_MULTIPLE \in Nat
  BY Sizes DEF Idle
<1>1. CASE DeviceAt(addr) = "ram"
  <2>1. But(s, t, Latches \cup {"ram"}) /\ t.ram = [s.ram EXCEPT ![addr % RAM_SIZE] = data]
    BY <1>1
  <2>2. t.ram \in [0 .. RAM_SIZE - 1 -> Byte]
    BY <2>1 DEF Kept
  <2> QED
    BY <1>0, <2>1, <2>2 DEF Kept, But, Pins, Latches
<1>2. CASE DeviceAt(addr) = "rom"
  <2>1. But(s, t, Latches \cup {"critical_error"}) /\ t.critical_error = TRUE
    BY <1>2
  <2> QED
    BY <1>0, <2>1 DEF Kept, But, Pins, Latches
<1>3. CASE DeviceAt(addr) = "ppu"
  <2>1. But(s, t, Latches \cup {"ppu_call"})
    BY <1>3
  <2> QED
    BY <1>0, <2>1 DEF Kept, But, Pins, Latches
<1>4. CASE DeviceAt(addr) = "apu" /\ addr % APU_IO_SIZE = APU_DMA
  <2>1. /\ But(s, t, Latches \cup {"dma", "dma_cnt", "dma_ram_addr"})
        /\ t.dma = TRUE /\ t.dma_cnt = 0 /\ t.dma_ram_addr = data * DMA_ADDR_MULTIPLE % (2 * ROM_BIT)
    BY <1>4
  <2>2. data * DMA_ADDR_MULTIPLE \in Nat
    BY <1>0
  <2>3. t.dma_ram_addr \in Memory
    BY <2>1, <2>2, InMemory
  <2>4. t.dma_cnt \in 0 .. 2 * SPRITE_RAM_SIZE /\ t.dma_cnt < 2 * SPRITE_RAM_SIZE
    BY <2>1, Sizes
  <2> QED
    BY <1>0, <2>1, <2>3, <2>4 DEF Kept, But, Pins, Latches
<1>5. CASE DeviceAt(addr) = "apu" /\ addr % APU_IO_SIZE = APU_JOYPAD
  <2>1. /\ But(s, t, Latches \cup {"button_set", "read_cnt"}) /\ t.button_set = (data % 2 = 1)
        /\ t.read_cnt = IF s.button_set /\ data % 2 = 0 THEN 0 ELSE s.read_cnt
    BY <1>5
  <2>2. t.button_set \in BOOLEAN
    BY <2>1
  <2>3. t.read_cnt = 0 \/ t.read_cnt = s.read_cnt
    BY <2>1
  <2>4. t.read_cnt \in 0 .. BUTTON_CNT - 1
    BY <2>3, NextButton DEF Kept
  <2> QED
    BY <1>0, <2>1, <2>2, <2>4 DEF Kept, But, Pins, Latches
<1>6. CASE DeviceAt(addr) = "apu" /\ addr % APU_IO_SIZE \notin {APU_DMA, APU_JOYPAD}
  <2>1. But(s, t, Latches)
    BY <1>6
  <2> QED
    BY <1>0, <2>1 DEF Kept, But, Pins, Latches
<1> QED
  BY <1>1, <1>2, <1>3, <1>4, <1>5, <1>6, Devices

\* What the memory map shows, and the CPU's and DMA's accesses change.
Shown(s, t) ==
    /\ t.ram = s.ram /\ t.ppu_call = s.ppu_call /\ t.critical_error = s.critical_error
    /\ t.button_set = s.button_set /\ t.read_cnt = s.read_cnt

TurnAt(n) == Ring(n, BUTTON_CNT, BUTTON_CNT)

LEMMA Turns ==
  ASSUME NEW n \in 0 .. BUTTON_CNT - 1
  PROVE  /\ Head(TurnAt(n)) = n
         /\ Append(Tail(TurnAt(n)), Head(TurnAt(n))) = TurnAt((n + 1) % BUTTON_CNT)
<1>1. BUTTON_CNT \in Nat \ {0}
  BY Sizes
<1> QED
  BY <1>1, RingTail, RingTurn DEF TurnAt

LEMMA GetRefines ==
  ASSUME NEW s, Kept(s), Shown(hw, s), NEW addr \in Memory, NEW v \in PpuByte, NEW t,
         Loads(s, addr, v, t, answer'), Shown(t, hw'), held' = held
  PROVE  Map!Get(addr)
<1>0. /\ Turn = TurnAt(s.read_cnt) /\ Turn' = TurnAt(t.read_cnt) /\ s.read_cnt \in 0 .. BUTTON_CNT - 1
      /\ s.ram = hw.ram /\ s.ppu_call = hw.ppu_call /\ t.ppu_call = hw'.ppu_call
  BY DEF Turn, TurnAt, Ring, Shown, Kept
<1>1. /\ Head(Turn) = s.read_cnt
      /\ t.read_cnt = (s.read_cnt + 1) % BUTTON_CNT => Turn' = Append(Tail(Turn), Head(Turn))
      /\ t.read_cnt = s.read_cnt => Turn' = Turn
  BY <1>0, Turns
<1> USE DEF Loads, Map!Register
<1>2. /\ DeviceAt(addr) = "ram" <=> Map!InRam(addr)
      /\ DeviceAt(addr) = "ppu" <=> Map!InPpu(addr)
      /\ DeviceAt(addr) = "apu" <=> Map!InApu(addr)
      /\ DeviceAt(addr) = "rom" <=> Map!InRom(addr)
      /\ DeviceAt(addr) = "rom" => addr % ROM_BIT = addr - ROM_BIT
  BY Decoded
<1>3. ASSUME NEW F, But(s, t, F), F \subseteq Latches \cup {"ppu_call", "read_cnt"}
      PROVE  /\ hw'.ram = hw.ram /\ hw'.critical_error = hw.critical_error
             /\ hw'.button_set = hw.button_set
             /\ "ppu_call" \notin F => t.ppu_call = s.ppu_call
             /\ "read_cnt" \notin F => t.read_cnt = s.read_cnt
  BY <1>3 DEF But, Pins, Latches, Shown
<1>4. CASE DeviceAt(addr) = "ram"
  <2>1. But(s, t, Latches) /\ answer' = hw.ram[addr % RAM_SIZE]
    BY <1>0, <1>4
  <2>2. Map!Got(addr, hw.ram[addr % RAM_SIZE])
    BY <1>0, <1>1, <1>2, <1>3, <1>4, <2>1 DEF Map!Got, Latches
  <2> QED
    BY <1>2, <1>4, <2>2 DEF Map!Get
<1>5. CASE DeviceAt(addr) = "rom"
  <2>1. But(s, t, Latches) /\ answer' = Rom[addr - ROM_BIT]
    BY <1>2, <1>5
  <2>2. Map!Got(addr, Rom[addr - ROM_BIT])
    BY <1>0, <1>1, <1>2, <1>3, <1>5, <2>1 DEF Map!Got, Latches
  <2> QED
    BY <1>2, <1>5, <2>2 DEF Map!Get
<1>6. CASE DeviceAt(addr) = "ppu"
  <2>1. /\ But(s, t, Latches \cup {"ppu_call"}) /\ t.ppu_call = <<"read", addr % PPU_IO_SIZE>>
        /\ answer' = IF addr % PPU_IO_SIZE \in {PPU_STATUS, PPU_VRAM_DATA} THEN v ELSE 0
    BY <1>6
  <2>2. Map!Got(addr, answer')
    BY <1>0, <1>1, <1>2, <1>3, <1>6, <2>1 DEF Map!Got, Latches
  <2>3. Map!Register(addr) = addr % PPU_IO_SIZE
    BY <1>2, <1>6
  <2> QED
    BY <1>2, <1>6, <2>1, <2>2, <2>3 DEF Map!Get
<1>7. CASE DeviceAt(addr) = "apu" /\ addr % APU_IO_SIZE = APU_JOYPAD
  <2>1. /\ But(s, t, Latches \cup {"read_cnt"}) /\ t.read_cnt = (s.read_cnt + 1) % BUTTON_CNT
        /\ answer' = IF Head(Turn) \in held THEN 1 ELSE 0
    BY <1>1, <1>7 DEF Button
  <2>2. Map!InApu(addr) /\ Map!Register(addr) = APU_JOYPAD /\ ~Map!InPpu(addr)
    BY <1>2, <1>7
  <2>3. Map!Got(addr, IF Head(Turn) \in held THEN 1 ELSE 0)
    BY <1>0, <1>1, <1>3, <2>1, <2>2 DEF Map!Got, Latches
  <2> QED
    BY <2>2, <2>3 DEF Map!Get
<1>8. CASE DeviceAt(addr) = "apu" /\ addr % APU_IO_SIZE # APU_JOYPAD
  <2>1. But(s, t, Latches) /\ answer' = 0
    BY <1>8
  <2>2. Map!InApu(addr) /\ Map!Register(addr) # APU_JOYPAD /\ ~Map!InPpu(addr)
    BY <1>2, <1>8
  <2>3. Map!Got(addr, 0)
    BY <1>0, <1>1, <1>3, <2>1, <2>2 DEF Map!Got, Latches
  <2> QED
    BY <2>2, <2>3 DEF Map!Get
<1> QED
  BY <1>4, <1>5, <1>6, <1>7, <1>8, Devices

\* DMA's count goes up by two a byte.
LEMMA Halves ==
  ASSUME NEW cnt \in Nat, NEW size \in Nat, cnt < 2 * size
  PROVE  /\ cnt % 2 = 0 => /\ cnt + 1 < 2 * size
                           /\ size - (cnt + 1) \div 2 \in Nat \ {0}
                           /\ size - (cnt + 2) \div 2 = size - (cnt + 1) \div 2 - 1
         /\ cnt % 2 = 1 => /\ (cnt + 2) \div 2 = (cnt + 1) \div 2
                           /\ cnt = 2 * size - 1 => size - (cnt + 1) \div 2 = 0
                           /\ cnt # 2 * size - 1 => cnt + 1 < 2 * size
  OBVIOUS

KeptInv == Kept(hw)

LEMMA InitKept == Init => KeptInv
<1> SUFFICES ASSUME Init PROVE KeptInv
  OBVIOUS
<1>1. 0 \in Memory /\ 0 \in 0 .. BUTTON_CNT - 1 /\ 0 \in 0 .. 2 * SPRITE_RAM_SIZE
  <2>1. 0 % (2 * ROM_BIT) \in Memory
    BY InMemory
  <2>2. 2 * ROM_BIT \in Nat /\ 0 < 2 * ROM_BIT
    BY Sizes
  <2>3. 0 % (2 * ROM_BIT) = 0
    BY <2>2, SmallRemainder
  <2> QED
    BY <2>1, <2>3, Sizes
<1> QED
  BY <1>1, AtFirst DEF KeptInv, Kept

LEMMA LoadIsLoad ==
  ASSUME OwnerInv, KeptInv, NEW addr \in Memory, NEW v \in PpuByte, LoadMemory(addr, v)
  PROVE  KeptInv' /\ Map!Load(addr)
<1>1. hw.dma = FALSE /\ Loads(hw, addr, v, hw', answer') /\ held' = held
  BY LoadLoads
<1>2. Kept(hw') /\ SameDma(hw, hw')
  BY <1>1, LoadKept, LoadsLeaveDma DEF KeptInv
<1>3. Map!Get(addr)
  BY <1>1, GetRefines DEF KeptInv, Shown
<1>4. ToCopy = <<>> /\ ToCopy' = <<>>
  BY <1>1, <1>2 DEF ToCopy, SameDma
<1> QED
  BY <1>2, <1>3, <1>4 DEF Map!Load, KeptInv

LEMMA CopyIsCopy ==
  ASSUME OwnerInv, KeptInv, NEW v \in PpuByte, GetRamData(v)
  PROVE  KeptInv' /\ Map!Copy
<1> DEFINE d == DmaBus
           addr == hw.dma_ram_addr
           e == Fetched(d, addr, v)
           left == SPRITE_RAM_SIZE - (hw.dma_cnt + 1) \div 2
<1>0. Fetches(d, e, v)
  BY DmaLoads
<1> HIDE DEF d, e
<1>1. /\ hw.dma = TRUE /\ hw.dma_cnt % 2 = 0 /\ hw.dma_cnt \in Nat /\ hw.dma_cnt < 2 * SPRITE_RAM_SIZE
      /\ SPRITE_RAM_SIZE \in Nat /\ addr \in Memory /\ addr \in Nat /\ 2 * ROM_BIT \in Nat \ {0}
      /\ addr \in 0 .. 2 * ROM_BIT - 1
  <2>1. hw.dma = TRUE /\ hw.dma_cnt % 2 = 0 /\ hw.dma_cnt \in Nat
    BY <1>0 DEF Fetches
  <2>2. SPRITE_RAM_SIZE \in Nat /\ 2 * ROM_BIT \in Nat \ {0}
    BY Sizes
  <2>3. hw.dma_cnt < 2 * SPRITE_RAM_SIZE
    BY <2>1, <2>2 DEF KeptInv, Kept
  <2>4. addr \in Memory
    BY DEF KeptInv, Kept
  <2>5. addr \in Nat /\ addr \in 0 .. 2 * ROM_BIT - 1
    BY <2>2, <2>4 DEF Memory
  <2> QED
    BY <2>1, <2>2, <2>3, <2>4, <2>5
<1> HIDE DEF addr
<1>2. Kept(d) /\ Shown(hw, d)
  BY <1>0 DEF Fetches, KeptInv, Kept, Shown, But, Pins
<1>3. /\ Loads(d, addr, v, e, answer') /\ held' = held /\ hw'.dma_cnt = hw.dma_cnt + 1
      /\ hw'.dma_ram_addr = (addr + 1) % (2 * ROM_BIT)
      /\ But(e, hw', {"ready", "dma_ram_addr", "dma_cnt"}) /\ e.dma = TRUE
  BY <1>0 DEF Fetches, SameDma, addr
<1>4. Kept(e)
  BY <1>2, <1>3, LoadKept
<1>5. /\ hw.dma_cnt + 1 < 2 * SPRITE_RAM_SIZE /\ left \in Nat \ {0}
      /\ SPRITE_RAM_SIZE - (hw.dma_cnt + 2) \div 2 = left - 1
  BY <1>1, Halves
<1>6. Kept(hw')
  <2>1. (addr + 1) % (2 * ROM_BIT) \in Memory
    BY <1>1, InMemory
  <2>2. hw.dma_cnt + 1 \in 0 .. 2 * SPRITE_RAM_SIZE
    BY <1>1, <1>5
  <2> QED
    BY <1>3, <1>4, <1>5, <2>1, <2>2 DEF Kept, But, Pins
<1>7. Shown(e, hw') /\ hw'.dma = TRUE
  BY <1>3 DEF Shown, But, Pins
<1>8. Map!Get(addr)
  BY <1>1, <1>2, <1>3, <1>7, GetRefines
<1>9. ToCopy = Ring(addr, left, 2 * ROM_BIT)
  BY <1>1 DEF ToCopy, Ring, addr
<1>10. ToCopy' = Ring((addr + 1) % (2 * ROM_BIT), left - 1, 2 * ROM_BIT)
  <2>1. hw.dma_cnt + 1 + 1 = hw.dma_cnt + 2
    BY <1>1
  <2> HIDE DEF left
  <2> QED
    BY <1>3, <1>5, <1>7, <2>1 DEF ToCopy, Ring
<1>11. ToCopy # <<>> /\ Head(ToCopy) = addr /\ Tail(ToCopy) = ToCopy'
  BY <1>1, <1>5, <1>9, <1>10, RingTail
<1> QED
  BY <1>6, <1>8, <1>11 DEF Map!Copy, KeptInv

\* The ring of buttons after a strobe.
LEMMA FirstTurn == TurnAt(0) = [i \in 1 .. BUTTON_CNT |-> i - 1]
<1>1. BUTTON_CNT \in Nat \ {0}
  BY Sizes
<1>2. \A i \in 1 .. BUTTON_CNT : (0 + i - 1) % BUTTON_CNT = i - 1
  <2> TAKE i \in 1 .. BUTTON_CNT
  <2>1. i - 1 \in Nat /\ i - 1 < BUTTON_CNT /\ 0 + i - 1 = i - 1
    BY <1>1
  <2> QED
    BY <1>1, <2>1, SmallRemainder
<1> QED
  BY <1>2 DEF TurnAt, Ring

LEMMA StoreIsStore ==
  ASSUME OwnerInv, KeptInv, NEW addr \in Memory, NEW data \in Byte, StoreMemory(addr, data)
  PROVE  KeptInv' /\ Map!Store(addr, data)
<1> USE DEF Map!Register
<1>1. /\ hw.dma = FALSE /\ Kept(hw)
      /\ Stores(hw, addr, data, hw') /\ UNCHANGED <<held, answer>>
  BY StoreStores DEF KeptInv
<1>4. Kept(hw')
  BY <1>1, StoreKept
<1>5. /\ DeviceAt(addr) = "ram" <=> Map!InRam(addr)
      /\ DeviceAt(addr) = "ppu" <=> Map!InPpu(addr)
      /\ DeviceAt(addr) = "apu" <=> Map!InApu(addr)
      /\ DeviceAt(addr) = "rom" <=> Map!InRom(addr)
  BY Decoded
<1>6. ToCopy = <<>>
  BY <1>1 DEF ToCopy
<1>7. /\ Turn = TurnAt(hw.read_cnt) /\ Turn' = TurnAt(hw'.read_cnt)
      /\ TurnAt(0) = [i \in 1 .. BUTTON_CNT |-> i - 1]
  BY FirstTurn DEF Turn, TurnAt, Ring
\* Without DMA's register and the joypad's, the ring and the copy stay.
<1>8. ASSUME But(hw, hw', Latches \cup {"ram", "ppu_call", "critical_error"})
      PROVE  hw'.button_set = hw.button_set /\ Turn' = Turn /\ ToCopy' = ToCopy
  <2>1. /\ hw'.button_set = hw.button_set /\ hw'.read_cnt = hw.read_cnt /\ hw'.dma = hw.dma
        /\ hw'.dma_cnt = hw.dma_cnt /\ hw'.dma_ram_addr = hw.dma_ram_addr
    BY <1>8 DEF But, Pins, Latches
  <2> QED
    BY <2>1 DEF Turn, ToCopy
<1>9. CASE DeviceAt(addr) = "ram"
  <2>1. But(hw, hw', Latches \cup {"ram"}) /\ hw'.ram = [hw.ram EXCEPT ![addr % RAM_SIZE] = data]
    BY <1>1, <1>9 DEF Stores
  <2>2. hw'.ppu_call = hw.ppu_call /\ hw'.critical_error = hw.critical_error
    BY <2>1 DEF But, Pins, Latches
  <2>3. hw'.button_set = hw.button_set /\ Turn' = Turn /\ ToCopy' = ToCopy
    BY <1>8, <2>1 DEF But
  <2>4. Map!InRam(addr) /\ ~Map!InPpu(addr) /\ ~Map!InApu(addr) /\ ~Map!InRom(addr)
    BY <1>5, <1>9
  <2>5. (hw.critical_error \/ FALSE) = hw.critical_error
    BY <1>1 DEF Kept
  <2> QED
    BY <1>1, <1>4, <1>6, <2>1, <2>2, <2>3, <2>4, <2>5 DEF Map!Store, Map!joypad, KeptInv
<1>10. CASE DeviceAt(addr) = "rom"
  <2>1. But(hw, hw', Latches \cup {"critical_error"}) /\ hw'.critical_error = TRUE
    BY <1>1, <1>10 DEF Stores
  <2>2. hw'.ppu_call = hw.ppu_call /\ hw'.ram = hw.ram
    BY <2>1 DEF But, Pins, Latches
  <2>3. hw'.button_set = hw.button_set /\ Turn' = Turn /\ ToCopy' = ToCopy
    BY <1>8, <2>1 DEF But
  <2>4. ~Map!InRam(addr) /\ ~Map!InPpu(addr) /\ ~Map!InApu(addr) /\ Map!InRom(addr)
    BY <1>5, <1>10
  <2> QED
    BY <1>1, <1>4, <1>6, <2>1, <2>2, <2>3, <2>4 DEF Map!Store, Map!joypad, KeptInv
<1>11. CASE DeviceAt(addr) = "ppu"
  <2>1. /\ But(hw, hw', Latches \cup {"ppu_call"})
        /\ hw'.ppu_call = <<"write", addr % PPU_IO_SIZE, data>>
    BY <1>1, <1>11 DEF Stores
  <2>2. hw'.critical_error = hw.critical_error /\ hw'.ram = hw.ram
    BY <2>1 DEF But, Pins, Latches
  <2>3. hw'.button_set = hw.button_set /\ Turn' = Turn /\ ToCopy' = ToCopy
    BY <1>8, <2>1 DEF But
  <2>4. ~Map!InRam(addr) /\ Map!InPpu(addr) /\ ~Map!InApu(addr) /\ ~Map!InRom(addr)
    BY <1>5, <1>11
  <2>5. (hw.critical_error \/ FALSE) = hw.critical_error
    BY <1>1 DEF Kept
  <2> QED
    BY <1>1, <1>4, <1>6, <2>1, <2>2, <2>3, <2>4, <2>5 DEF Map!Store, Map!joypad, KeptInv
<1>12. ASSUME DeviceAt(addr) = "apu", hw'.ram = hw.ram, hw'.ppu_call = hw.ppu_call,
              hw'.critical_error = hw.critical_error,
              IF addr % APU_IO_SIZE = APU_DMA
                THEN ToCopy' = [i \in 1 .. SPRITE_RAM_SIZE |->
                                  (data * DMA_ADDR_MULTIPLE + i - 1) % (2 * ROM_BIT)]
                ELSE ToCopy' = ToCopy,
              IF addr % APU_IO_SIZE = APU_JOYPAD
                THEN /\ hw'.button_set = (data % 2 = 1)
                     /\ Turn' = IF hw.button_set /\ data % 2 = 0
                                  THEN [i \in 1 .. BUTTON_CNT |-> i - 1] ELSE Turn
                ELSE hw'.button_set = hw.button_set /\ Turn' = Turn
       PROVE  Map!Store(addr, data)
  <2>1. ~Map!InRam(addr) /\ ~Map!InPpu(addr) /\ Map!InApu(addr) /\ ~Map!InRom(addr)
    BY <1>5, <1>12
  <2>2. (hw.critical_error \/ FALSE) = hw.critical_error
    BY <1>1 DEF Kept
  <2> QED
    BY <1>1, <1>6, <1>12, <2>1, <2>2 DEF Map!Store, Map!joypad
<1>13. CASE DeviceAt(addr) = "apu" /\ addr % APU_IO_SIZE = APU_DMA
  <2>1. /\ But(hw, hw', Latches \cup {"dma", "dma_cnt", "dma_ram_addr"})
        /\ hw'.dma = TRUE /\ hw'.dma_cnt = 0
        /\ hw'.dma_ram_addr = data * DMA_ADDR_MULTIPLE % (2 * ROM_BIT)
    BY <1>1, <1>13 DEF Stores
  <2>2. /\ hw'.ram = hw.ram /\ hw'.ppu_call = hw.ppu_call /\ hw'.critical_error = hw.critical_error
        /\ hw'.button_set = hw.button_set /\ hw'.read_cnt = hw.read_cnt
    BY <2>1 DEF But, Pins, Latches
  <2>3. /\ SPRITE_RAM_SIZE \in Nat /\ data * DMA_ADDR_MULTIPLE \in Nat /\ 2 * ROM_BIT \in Nat \ {0}
        /\ APU_DMA # APU_JOYPAD
    <3>1. data \in Nat /\ DMA_ADDR_MULTIPLE \in Nat /\ ROM_BIT \in Nat \ {0} /\ SPRITE_RAM_SIZE \in Nat
      BY Sizes
    <3>2. data * DMA_ADDR_MULTIPLE \in Nat /\ 2 * ROM_BIT \in Nat \ {0}
      BY <3>1
    <3>3. APU_DMA # APU_JOYPAD
      BY BusAssumption
    <3> QED
      BY <3>1, <3>2, <3>3
  <2>4. ToCopy' = Ring(data * DMA_ADDR_MULTIPLE % (2 * ROM_BIT), SPRITE_RAM_SIZE, 2 * ROM_BIT)
    <3>1. SPRITE_RAM_SIZE - (0 + 1) \div 2 = SPRITE_RAM_SIZE
      BY <2>3
    <3> QED
      BY <2>1, <3>1 DEF ToCopy, Ring
  <2>5. ToCopy' = Ring(data * DMA_ADDR_MULTIPLE, SPRITE_RAM_SIZE, 2 * ROM_BIT)
    BY <2>3, <2>4, Rings
  <2> QED
    BY <1>4, <1>7, <1>12, <1>13, <2>2, <2>3, <2>5 DEF Ring, KeptInv
<1>14. CASE DeviceAt(addr) = "apu" /\ addr % APU_IO_SIZE = APU_JOYPAD
  <2>1. /\ But(hw, hw', Latches \cup {"button_set", "read_cnt"})
        /\ hw'.button_set = (data % 2 = 1)
        /\ hw'.read_cnt = IF hw.button_set /\ data % 2 = 0 THEN 0 ELSE hw.read_cnt
    BY <1>1, <1>14 DEF Stores
  <2>2. /\ hw'.ram = hw.ram /\ hw'.ppu_call = hw.ppu_call /\ hw'.critical_error = hw.critical_error
        /\ hw'.dma = hw.dma /\ hw'.dma_cnt = hw.dma_cnt /\ hw'.dma_ram_addr = hw.dma_ram_addr
    BY <2>1 DEF But, Pins, Latches
  <2>3. ToCopy' = ToCopy /\ APU_DMA # APU_JOYPAD
    BY <2>2, BusAssumption DEF ToCopy
  <2>4. Turn' = IF hw.button_set /\ data % 2 = 0 THEN [i \in 1 .. BUTTON_CNT |-> i - 1] ELSE Turn
    BY <1>7, <2>1
  <2> QED
    BY <1>4, <1>12, <1>14, <2>1, <2>2, <2>3, <2>4 DEF KeptInv
<1>15. CASE DeviceAt(addr) = "apu" /\ addr % APU_IO_SIZE \notin {APU_DMA, APU_JOYPAD}
  <2>1. But(hw, hw', Latches)
    BY <1>1, <1>15 DEF Stores
  <2>2. hw'.ram = hw.ram /\ hw'.ppu_call = hw.ppu_call /\ hw'.critical_error = hw.critical_error
    BY <2>1 DEF But, Pins, Latches
  <2>3. hw'.button_set = hw.button_set /\ Turn' = Turn /\ ToCopy' = ToCopy
    BY <1>8, <2>1 DEF But
  <2> QED
    BY <1>4, <1>12, <1>15, <2>2, <2>3 DEF KeptInv
<1> QED
  BY <1>9, <1>10, <1>11, <1>13, <1>14, <1>15, Devices

\* The byte that goes to sprite RAM is no business of the memory map.
LEMMA StoringIsStutter ==
  ASSUME KeptInv, OwnerInv, DmaStores
  PROVE  KeptInv' /\ UNCHANGED Map!vars
<1>0. /\ hw.dma = TRUE /\ hw.dma_cnt \in Nat /\ hw.dma_cnt % 2 = 1
      /\ But(hw, hw', {"ready", "dma", "dma_cnt"}) /\ hw'.dma_cnt = hw.dma_cnt + 1
      /\ hw.dma_cnt = SPRITE_RAM_SIZE * 2 - 1 => hw'.dma = FALSE
      /\ hw.dma_cnt # SPRITE_RAM_SIZE * 2 - 1 => hw'.dma = TRUE
      /\ UNCHANGED <<held, answer>>
  BY DmaCounts
<1>1. SPRITE_RAM_SIZE \in Nat /\ hw.dma_cnt < 2 * SPRITE_RAM_SIZE /\ Kept(hw)
  BY <1>0, Sizes DEF KeptInv, Kept
<1>2. /\ (hw.dma_cnt + 2) \div 2 = (hw.dma_cnt + 1) \div 2
      /\ hw.dma_cnt = 2 * SPRITE_RAM_SIZE - 1 => SPRITE_RAM_SIZE - (hw.dma_cnt + 1) \div 2 = 0
      /\ hw.dma_cnt # 2 * SPRITE_RAM_SIZE - 1 => hw.dma_cnt + 1 < 2 * SPRITE_RAM_SIZE
      /\ hw.dma_cnt + 1 \in 0 .. 2 * SPRITE_RAM_SIZE /\ hw.dma_cnt + 1 + 1 = hw.dma_cnt + 2
  BY <1>0, <1>1, Halves
<1>3. hw'.dma = IF hw.dma_cnt = 2 * SPRITE_RAM_SIZE - 1 THEN FALSE ELSE TRUE
  <2>1. SPRITE_RAM_SIZE * 2 - 1 = 2 * SPRITE_RAM_SIZE - 1
    BY <1>1
  <2> QED
    BY <1>0, <2>1, Zenon
<1>4. Kept(hw')
  <2>1. hw'.dma_cnt \in 0 .. 2 * SPRITE_RAM_SIZE /\ (hw'.dma = TRUE => hw'.dma_cnt < 2 * SPRITE_RAM_SIZE)
    BY <1>0, <1>2, <1>3
  <2> QED
    BY <1>0, <1>1, <1>3, <2>1 DEF Kept, But, Pins
<1>5. hw'.dma_ram_addr = hw.dma_ram_addr /\ Shown(hw, hw')
  BY <1>0 DEF But, Pins, Shown
<1>6. ToCopy' = ToCopy
  <2>1. CASE hw.dma_cnt = 2 * SPRITE_RAM_SIZE - 1
    <3>1. hw'.dma = FALSE
      BY <1>3, <2>1
    <3>2. SPRITE_RAM_SIZE - (hw.dma_cnt + 1) \div 2 = 0
      BY <1>2, <2>1
    <3> QED
      BY <1>0, <3>1, <3>2 DEF ToCopy
  <2>2. CASE hw.dma_cnt # 2 * SPRITE_RAM_SIZE - 1
    <3>1. hw'.dma = TRUE /\ hw'.dma_cnt + 1 = hw.dma_cnt + 2
      BY <1>0, <1>2, <1>3, <2>2
    <3> QED
      BY <1>0, <1>2, <1>5, <3>1 DEF ToCopy
  <2> QED
    BY <2>1, <2>2
<1>7. Turn' = Turn /\ UNCHANGED <<held, answer>>
  BY <1>0, <1>5 DEF Shown, Turn
<1> QED
  BY <1>4, <1>5, <1>6, <1>7 DEF Map!vars, Map!joypad, Shown, KeptInv

LEMMA InitIsInit == Init => Map!Init
<1> SUFFICES ASSUME Init PROVE Map!Init
  OBVIOUS
<1>1. Turn = [i \in 1 .. BUTTON_CNT |-> i - 1]
  <2>1. hw.read_cnt = 0
    BY AtFirst
  <2> QED
    BY <2>1, FirstTurn DEF Turn, TurnAt, Ring
<1>2. ToCopy = <<>>
  <2>1. hw.dma = FALSE
    BY AtFirst
  <2> QED
    BY <2>1 DEF ToCopy
<1> QED
  BY <1>1, <1>2, AtFirst DEF Map!Init, Init

LEMMA MapStep ==
  ASSUME OwnerInv, KeptInv, [Next]_vars
  PROVE  KeptInv' /\ [Map!Next]_(Map!vars)
<1>1. ASSUME NEW addr \in Address, NEW v \in PpuByte, LoadMemory(addr, v)
      PROVE  KeptInv' /\ Map!Next
  <2>1. KeptInv' /\ Map!Load(addr)
    BY <1>1, Sizes, LoadIsLoad
  <2> QED
    BY <2>1 DEF Map!Next
<1>2. ASSUME NEW addr \in Address, NEW data \in Byte, StoreMemory(addr, data)
      PROVE  KeptInv' /\ Map!Next
  <2>1. KeptInv' /\ Map!Store(addr, data)
    BY <1>2, Sizes, StoreIsStore
  <2> QED
    BY <2>1 DEF Map!Next
<1>3. ASSUME NEW v \in PpuByte, GetRamData(v) PROVE KeptInv' /\ Map!Next
  BY <1>3, CopyIsCopy DEF Map!Next
<1>4. CASE DmaStores
  BY <1>4, StoringIsStutter
<1>5. ASSUME NEW n \in 0 .. BUTTON_CNT - 1, KeyPress(n) \/ KeyRelease(n)
      PROVE  KeptInv' /\ Map!Next
  <2> DEFINE buttons == [i \in 1 .. BUTTON_CNT |-> i - 1]
  <2>1. UNCHANGED <<hw, answer>> /\ (held' = held \cup {n} \/ held' = held \ {n})
    BY <1>5 DEF KeyPress, KeyRelease
  <2>2. KeptInv' /\ Turn' = Turn /\ ToCopy' = ToCopy
    BY <2>1 DEF KeptInv, Turn, ToCopy
  <2>3. Map!Press(n) \/ Map!Release(n)
    BY <2>1, <2>2 DEF Map!Press, Map!Release, Map!joypad
  <2>4. n + 1 \in 1 .. Len(buttons) /\ buttons[n + 1] = n
    <3>1. BUTTON_CNT \in Nat /\ n + 1 \in 1 .. BUTTON_CNT /\ n + 1 - 1 = n
      BY Sizes
    <3>2. buttons \in [1 .. BUTTON_CNT -> Nat]
      OBVIOUS
    <3>3. Len(buttons) = BUTTON_CNT
      BY <3>1, <3>2, LenProperties
    <3> QED
      BY <3>1, <3>3
  <2> QED
    BY <2>2, <2>3, <2>4 DEF Map!Next
<1>6. ASSUME UNCHANGED vars PROVE KeptInv' /\ UNCHANGED Map!vars
  BY <1>6 DEF vars, KeptInv, Turn, ToCopy, Map!vars, Map!joypad
<1> QED
  BY <1>1, <1>2, <1>3, <1>4, <1>5, <1>6 DEF Next

\* The CPU's loads and stores and DMA's reads see the memory map of bus.c, for every size
\* of the areas and of the devices behind them: bits tested from the top are ranges, masks
\* are mirrors, the joypad's counter is a ring of buttons, and what the latches and pins
\* of the devices hold from earlier accesses never comes into it.
THEOREM BusImplementsMap == Spec => ImplementsMemoryMap
<1> QED
  BY InitOwner, OwnerStep, InitKept, InitIsInit, MapStep, PTL DEF Spec, ImplementsMemoryMap, Map!Spec

-----------------------------------------------------------------------------
(* The types. *)

-----------------------------------------------------------------------------
(* The types. *)

RamCell == 0 .. RAM_SIZE - 1
RomCell == 0 .. ROM_BIT - 1
ApuCell == 0 .. APU_IO_SIZE - 1
PpuCell == 0 .. PPU_IO_SIZE - 1

\* The types of the pins and latches, at any point of an access.
Wired(s) ==
    /\ IsHw(s)
    /\ s.rw \in BOOLEAN /\ s.ready \in BOOLEAN /\ s.oe \in BOOLEAN /\ s.we \in BOOLEAN
    /\ s.ppu_rw \in BOOLEAN
    /\ s.addr_bus \in Memory /\ s.data_bus \in Byte
    /\ s.ram \in [RamCell -> Byte]
    /\ s.ram_addr \in RamCell /\ s.rom_addr \in RomCell
    /\ s.apu_addr \in ApuCell /\ s.ppu_addr \in PpuCell
    /\ s.ram_data \in Byte /\ s.rom_data \in Byte /\ s.apu_data \in Byte /\ s.ppu_data \in Byte

LEMMA Bytes ==
  /\ 0 \in Byte /\ 1 \in Byte /\ PpuByte \subseteq Byte /\ Rom \in [RomCell -> Byte]
  BY BusAssumption DEF RomCell

LEMMA WiredRw ==
  ASSUME NEW s, Wired(s), NEW rw \in BOOLEAN
  PROVE  Wired(SetRwPin(s, rw))
  BY DEF Wired, IsHw, Pins, SetRwPin

LEMMA WiredAddr ==
  ASSUME NEW s, Wired(s), NEW addr \in Memory
  PROVE  Wired(SetBusAddr(s, addr))
<1> DEFINE ramAddr == addr % RAM_SIZE
           romAddr == addr % ROM_BIT
           apuAddr == addr % APU_IO_SIZE
           ppuAddr == addr % PPU_IO_SIZE
<1>1. ramAddr \in RamCell /\ romAddr \in RomCell /\ apuAddr \in ApuCell /\ ppuAddr \in PpuCell
  BY Sizes, Division DEF RamCell, RomCell, ApuCell, PpuCell
<1>2. /\ DeviceAt(addr) = "rom" => Latch(s, addr) = [s EXCEPT !.rom_addr = romAddr]
      /\ DeviceAt(addr) = "apu" => Latch(s, addr) = [s EXCEPT !.apu_addr = apuAddr]
      /\ DeviceAt(addr) = "ppu" => Latch(s, addr) = [s EXCEPT !.ppu_addr = ppuAddr, !.ppu_rw = s.rw]
      /\ DeviceAt(addr) = "ram" =>
           Latch(s, addr) = [s EXCEPT !.ram_addr = ramAddr, !.oe = ~s.rw, !.we = s.rw]
  BY DEF Latch
<1> HIDE DEF ramAddr, romAddr, apuAddr, ppuAddr
<1>3. Wired(Latch(s, addr))
  <2>1. CASE DeviceAt(addr) = "rom"
    BY <1>1, <1>2, <2>1 DEF Wired, IsHw, Pins
  <2>2. CASE DeviceAt(addr) = "apu"
    BY <1>1, <1>2, <2>2 DEF Wired, IsHw, Pins
  <2>3. CASE DeviceAt(addr) = "ppu"
    <3> DEFINE l == Latch(s, addr)
    <3>1. But(s, l, {"ppu_addr", "ppu_rw"}) /\ l.ppu_addr = ppuAddr /\ l.ppu_rw = s.rw
      BY <1>2, <2>3 DEF Wired, IsHw, Pins, But
    <3> HIDE DEF l
    <3>2. Wired(l)
      BY <1>1, <3>1 DEF Wired, But, Pins
    <3> QED
      BY <3>2 DEF l
  <2>4. CASE DeviceAt(addr) = "ram"
    <3> DEFINE l == Latch(s, addr)
    <3>1. l = [s EXCEPT !.ram_addr = ramAddr, !.oe = ~s.rw, !.we = s.rw]
      BY <1>2, <2>4
    <3>2. IsHw(s) /\ s.rw \in BOOLEAN
      BY DEF Wired
    <3> HIDE DEF l
    <3>3. /\ But(s, l, {"ram_addr", "oe", "we"}) /\ l.ram_addr = ramAddr /\ l.we = s.rw
          /\ s.rw = TRUE => l.oe = FALSE
          /\ s.rw = FALSE => l.oe = TRUE
      BY <3>1, <3>2 DEF IsHw, Pins, But
    <3>4. Wired(l)
      BY <1>1, <3>2, <3>3 DEF Wired, But, Pins
    <3> QED
      BY <3>4 DEF l
  <2> QED
    BY <2>1, <2>2, <2>3, <2>4, Devices
<1> QED
  BY <1>3 DEF SetBusAddr, Wired, IsHw, Pins

LEMMA WiredData ==
  ASSUME NEW s, Wired(s), NEW data \in Byte
  PROVE  Wired(SetBusData(s, data))
  BY Devices DEF SetBusData, Wired, IsHw, Pins

LEMMA WiredReady ==
  ASSUME NEW s, Wired(s)
  PROVE  Wired(ReleaseBus(s)) /\ Wired(TakeBus(s))
  BY DEF ReleaseBus, TakeBus, Wired, IsHw, Pins

LEMMA DeviceByte ==
  ASSUME NEW s, Wired(s)
  PROVE  DeviceData(s) \in Byte
  BY Devices DEF DeviceData, Wired

LEMMA WiredGot ==
  ASSUME NEW s, Wired(s)
  PROVE  Wired(GotBusData(s)) /\ GetBusData(s) \in Byte
<1>1. DeviceData(s) \in Byte
  BY DeviceByte
<1> QED
  BY <1>1, Bytes DEF GotBusData, GetBusData, Wired, IsHw, Pins

LEMMA WiredRam ==
  ASSUME NEW s, Wired(s), NEW ce \in BOOLEAN
  PROVE  Wired(SetRamCePin(s, ce))
<1> DEFINE data  == IF s.oe THEN s.ram[s.ram_addr] ELSE s.ram_data
           cells == IF ~s.oe /\ s.we THEN [s.ram EXCEPT ![s.ram_addr] = s.ram_data] ELSE s.ram
           on    == [s EXCEPT !.enabled = @ \cup {"ram"}, !.ram_data = data, !.ram = cells]
<1>1. data \in Byte /\ cells \in [RamCell -> Byte]
  BY DEF Wired
<1>2. SetRamCePin(s, ce) = IF ~ce THEN [s EXCEPT !.enabled = @ \ {"ram"}] ELSE ReleaseBus(on)
  BY DEF SetRamCePin
<1> HIDE DEF data, cells
<1>3. Wired(on) /\ Wired([s EXCEPT !.enabled = @ \ {"ram"}])
  BY <1>1 DEF Wired, IsHw, Pins
<1> QED
  BY <1>2, <1>3, WiredReady

LEMMA WiredRom ==
  ASSUME NEW s, Wired(s), NEW ce \in BOOLEAN
  PROVE  Wired(SetRomCePin(s, ce))
<1> DEFINE on == [s EXCEPT !.enabled = @ \cup {"rom"}, !.rom_data = Rom[s.rom_addr]]
<1>1. SetRomCePin(s, ce) = IF ~ce THEN [s EXCEPT !.enabled = @ \ {"rom"}] ELSE ReleaseBus(on)
  BY DEF SetRomCePin
<1>2. Wired(on) /\ Wired([s EXCEPT !.enabled = @ \ {"rom"}])
  BY Bytes DEF Wired, IsHw, Pins
<1> QED
  BY <1>1, <1>2, WiredReady

LEMMA WiredPpu ==
  ASSUME NEW s, Wired(s), NEW ce \in BOOLEAN, NEW v \in Byte
  PROVE  Wired(SetPpuCePin(s, ce, v))
<1> DEFINE on == [s EXCEPT !.enabled = @ \cup {"ppu"}]
           w  == [on EXCEPT !.ppu_call = <<"write", s.ppu_addr, s.ppu_data>>]
           b  == IF s.ppu_addr \in {PPU_STATUS, PPU_VRAM_DATA} THEN v ELSE 0
           r  == [on EXCEPT !.ppu_call = <<"read", s.ppu_addr>>, !.ppu_data = b]
<1>1. SetPpuCePin(s, ce, v) = IF ~ce THEN [s EXCEPT !.enabled = @ \ {"ppu"}]
                              ELSE ReleaseBus(IF s.ppu_rw THEN w ELSE r)
  BY DEF SetPpuCePin
<1>2. Wired(on) /\ Wired([s EXCEPT !.enabled = @ \ {"ppu"}])
  BY DEF Wired, IsHw, Pins
<1>3. b \in Byte
  BY Bytes
<1> HIDE DEF on, b
<1>4. Wired(w) /\ Wired(r)
  BY <1>2, <1>3 DEF Wired, IsHw, Pins
<1> QED
  BY <1>1, <1>2, <1>4, WiredReady

LEMMA WiredApu ==
  ASSUME NEW s, Wired(s), NEW ce \in BOOLEAN
  PROVE  Wired(SetApuStart(s, ce))
<1>1. Wired(SetDmaData(s, s.apu_data)) /\ Wired(SetJoypadData(s, s.apu_data))
  BY DEF SetDmaData, SetJoypadData, Wired, IsHw, Pins
<1>2. Wired(ApuWrite(s))
  BY <1>1 DEF ApuWrite
<1>3. Button(s.read_cnt) \in Byte
  BY Bytes DEF Button
<1>4. Wired(ApuRead(s))
  BY <1>3, Bytes DEF ApuRead, Wired, IsHw, Pins
<1> QED
  BY <1>2, <1>4, WiredReady DEF SetApuStart

LEMMA WiredEnable ==
  ASSUME NEW s, Wired(s), NEW ce \in BOOLEAN, NEW v \in Byte
  PROVE  Wired(Enable(s, ce, v))
  BY WiredRam, WiredRom, WiredPpu, WiredApu, Devices DEF Enable

LEMMA WiredBus ==
  ASSUME NEW s, Wired(s), NEW v \in Byte
  PROVE  Wired(StartBus(s, v)) /\ Wired(EndBus(s))
  BY WiredReady, WiredEnable, Bytes DEF StartBus, EndBus

LEMMA WiredLoad ==
  ASSUME NEW s, Wired(s), NEW addr \in Memory, NEW v \in Byte
  PROVE  Wired(Fetched(s, addr, v)) /\ GotFrom(s, addr, v) \in Byte
<1>1. Wired(StartBus(Selecting(s, FALSE, addr), v))
  BY WiredRw, WiredAddr, WiredBus DEF Selecting
<1> QED
  BY <1>1, WiredGot, WiredBus DEF Fetched, GotFrom, Selecting

LEMMA WiredStore ==
  ASSUME NEW s, Wired(s), NEW addr \in Memory, NEW data \in Byte
  PROVE  Wired(Stored(s, addr, data))
  BY WiredRw, WiredAddr, WiredData, WiredBus, Bytes DEF Stored

TypeInv ==
    /\ Wired(hw) /\ KeptInv /\ OwnerInv
    /\ answer \in Byte /\ held \subseteq 0 .. BUTTON_CNT - 1

LEMMA InitTyped == Init => TypeInv
<1> SUFFICES ASSUME Init PROVE TypeInv
  OBVIOUS
<1>1. 0 \in RamCell /\ 0 \in RomCell /\ 0 \in ApuCell /\ 0 \in PpuCell /\ 0 \in Memory
  <2>1. /\ RAM_SIZE \in Nat \ {0} /\ ROM_BIT \in Nat \ {0}
        /\ APU_IO_SIZE \in Nat \ {0} /\ PPU_IO_SIZE \in Nat \ {0}
    BY Sizes
  <2> QED
    BY <2>1 DEF RamCell, RomCell, ApuCell, PpuCell, Memory
<1>2. hw.ram \in [RamCell -> Byte]
  BY AtFirst DEF RamCell
<1>3. Wired(hw)
  BY <1>1, <1>2, AtFirst, Bytes DEF Wired
<1>4. answer \in Byte /\ held \subseteq 0 .. BUTTON_CNT - 1
  BY Bytes DEF Init
<1> QED
  BY <1>3, <1>4, InitOwner, InitKept DEF TypeInv

LEMMA NextTyped == TypeInv /\ [Next]_vars => TypeInv'
<1> SUFFICES ASSUME TypeInv, [Next]_vars PROVE TypeInv'
  OBVIOUS
<1> USE DEF TypeInv
<1>1. OwnerInv' /\ KeptInv'
  BY OwnerStep, MapStep
<1>2. ASSUME NEW addr \in Address, NEW v \in PpuByte, LoadMemory(addr, v)
      PROVE  Wired(hw') /\ answer' \in Byte /\ held' = held
  <2>1. hw' = Fetched(hw, addr, v) /\ answer' = GotFrom(hw, addr, v) /\ held' = held
    BY <1>2 DEF LoadMemory, Fetched, GotFrom, Selecting
  <2>2. addr \in Memory /\ v \in Byte
    BY Sizes, Bytes
  <2> QED
    BY <2>1, <2>2, WiredLoad
<1>3. ASSUME NEW addr \in Address, NEW data \in Byte, StoreMemory(addr, data)
      PROVE  Wired(hw') /\ UNCHANGED <<answer, held>>
  <2>1. hw' = Stored(hw, addr, data) /\ UNCHANGED <<answer, held>>
    BY <1>3 DEF StoreMemory, Stored
  <2> QED
    BY <2>1, Sizes, WiredStore
<1>4. ASSUME NEW v \in PpuByte, GetRamData(v)
      PROVE  Wired(hw') /\ answer' \in Byte /\ held' = held
  <2> DEFINE e == Fetched(DmaBus, hw.dma_ram_addr, v)
             f == TakeBus(e)
  <2>1. Wired(DmaBus)
    BY WiredReady DEF DmaBus
  <2>2. hw.dma_ram_addr \in Memory /\ v \in Byte
    BY Bytes DEF KeptInv, Kept
  <2>3. Wired(e) /\ GotFrom(DmaBus, hw.dma_ram_addr, v) \in Byte
    BY <2>1, <2>2, WiredLoad
  <2>4. Wired(f)
    BY <2>3, WiredReady
  <2>5. /\ hw' = [f EXCEPT !.dma_ram_addr = (@ + 1) % (2 * ROM_BIT), !.dma_cnt = @ + 1]
        /\ answer' = GotFrom(DmaBus, hw.dma_ram_addr, v) /\ held' = held
    BY <1>4 DEF GetRamData, Fetched, GotFrom, Selecting
  <2> HIDE DEF e, f
  <2> QED
    BY <2>3, <2>4, <2>5 DEF Wired, IsHw, Pins
<1>5. ASSUME DmaStores PROVE Wired(hw') /\ UNCHANGED <<answer, held>>
  <2>1. Wired(ReleaseBus(hw))
    BY WiredReady
  <2>2. /\ \/ hw' = [ReleaseBus(hw) EXCEPT !.dma = FALSE, !.dma_cnt = @ + 1]
           \/ hw' = [hw EXCEPT !.dma_cnt = @ + 1]
        /\ UNCHANGED <<answer, held>>
    BY <1>5 DEF DmaStores
  <2> QED
    BY <2>1, <2>2 DEF Wired, IsHw, Pins
<1>6. ASSUME NEW n \in 0 .. BUTTON_CNT - 1, KeyPress(n) \/ KeyRelease(n)
      PROVE  hw' = hw /\ answer' = answer /\ held' \subseteq 0 .. BUTTON_CNT - 1
  BY <1>6 DEF KeyPress, KeyRelease
<1> QED
  BY <1>1, <1>2, <1>3, <1>4, <1>5, <1>6 DEF Next, vars

\* The masks of bus.c keep every latched address within its device, the joypad's counter
\* within its buttons and DMA's address and count within memory and the page.
THEOREM BusTyped == Spec => []TypeOK
<1>1. TypeInv => TypeOK
  BY DEF TypeInv, Wired, KeptInv, Kept, TypeOK, RamCell, RomCell, ApuCell, PpuCell
<1> QED
  BY <1>1, InitTyped, NextTyped, PTL DEF Spec
=============================================================================
