# motonesemu in TLA+

Models, model checks and proofs for motonesemu, a NES emulator in C: a 6502 core
that is clocked cycle by cycle, a PPU that draws dot by dot, a sprite DMA, a bus,
and the threads that drive them. All paths below are relative to `src/`.

- [1. The system](#1-the-system)
- [2. The modules](#2-the-modules)
- [3. The runs](#3-the-runs)
- [4. Fairness](#4-fairness)
- [5. The proofs](#5-the-proofs)
- [6. What the checks found](#6-what-the-checks-found)
- [7. What is not modelled, and the plan](#7-what-is-not-modelled-and-the-plan)

Run a model with `tlc -config X.cfg M.tla`, the proofs of a module with `tlapm M.tla`, for
`M` one of the modules with `Proofs` in their name and `Numbers`.

## 1. The system

### Components

| Component | State | Operations | What makes it correct |
|---|---|---|---|
| Clock (`emulator/clock.c`, `libs/tools.c`) | `handler_list`, a doubly linked list of handlers with a divider and a counter; `exit_loop` | `cpu_clock_loop` walks the list for ever; handlers register and unregister; `clean_clock` stops and joins | the PPU and exactly one bus master are called, each at its own rate, however the list changes under the walk |
| Sprite DMA (`emulator/dma.c`) | source and target address, one byte, a step counter | `set_dma_data` starts it and takes the CPU off the list; `clock_dma` loads and stores alternately and hands back | sprite RAM becomes the page, the CPU is stopped exactly meanwhile |
| Bus (`emulator/bus.c`) | address and data lines; pins `ready`, `rw`, `nmi`, `reset` | decode, read, write; take and release; raise and lower the pins | whoever uses the bus finds it ready; an address reaches its device |
| CPU (`emulator/cpu.c`, `emulator/6502core.c`, `emulator/opcode-6502`) | registers, address and data buffer, `current_inst`, `current_exec_index`, `execute_func` | `clock_cpu`: one cycle of reset, NMI, fetch or an instruction | each instruction has its effect in its cycles; interrupts are transparent |
| PPU scan (`emulator/ppucore/ppucore.c`, `vscreen.c`, `sprite.c`) | beam position, control and status registers, sprite RAM, prefetch buffer, the picture pointer | `clock_ppu`: one dot; register accesses from the CPU | each dot is drawn once, in place, with what is topmost; vblank and the NMI come once a frame |
| PPU registers (`ppucore.c`, `sprite.c`) | control registers and what is cached from them, the address and scroll pairs, the sprite address | writes and reads from the CPU | the cache is current; a pair of writes is the address it was meant to be |
| Background (`vscreen.c`, `vram.c`) | the tile that is being drawn | one dot: load a tile where one begins | a dot is the one of the scrolled plane, in its own colours |
| VRAM and palettes (`vram.c`, `palette.c`) | pattern, name, attribute and palette tables | read and write through the address and data registers | the mirrors alias as the map says |
| RAM, ROM, I/O and APU, cartridge, mapper | memories with chip-enable pins; dispatch of `$4014` and `$4016` | device side of the bus; loading the `.nes` file | sizes and masks agree |
| Joypad (`joypad.c`, `joypad/`) | strobe, a 3-bit read counter, button flags set by a GTK thread | register reads; key events; start and close the window | eight reads after a strobe are the eight buttons; the window thread can always be joined |
| Life cycle (`emu-main.c`) | `main_loop_done`, `critical_error`, `debug_mode` | start, SIGINT, the main loop, clean-up | the program ends when it is asked to, and frees nothing that is in use |
| Debugger (`debug.c`) | break points, `debug_mode` | `emu_debug` reads commands in the clock thread | reset and quit leave a consistent machine |
| VGA and display (`vga_xfer.c`, `vgashm.c`, `display/`) | a shared-memory picture | copy, redraw | only output |

### How they interact

One thread, the clock thread, runs everything that is emulated: it calls `clock_ppu`
every tick and `clock_cpu` or `clock_dma` every third. All interaction between
CPU, PPU and DMA is by calls inside that thread: the CPU's stores reach the PPU's
registers and start the DMA through the bus; the PPU raises the NMI pin; the DMA
changes the handler list. Two other threads touch it from outside: `main`, which sets
`exit_loop` and joins, and the joypad's GTK thread, which sets the button flags.

What is hard here is therefore not locking but order: a list that is changed by
the handlers it calls, a bus whose `ready` pin is no longer tested
(`BUS_READY_CHECK` is compiled out), instructions that are cut into cycles by a
shared index, interrupts and resets between any two of them, and a picture that
is drawn from sprites fetched a line before, while the program writes to them.
`PROJECT.json` lists these hazards at their lines with the properties that cover them.

## 2. The modules

### Clock and DMA

| Module | What it is |
|---|---|
| `EmuClock` | the walk of `cpu_clock_loop`, register and unregister from inside a handler, the DMA's steps, the `ready` pin, `main` stopping and joining |
| `SpriteDma` | the abstract DMA: a store to `$4014` makes the DMA the bus master, it copies one byte at a time, and the CPU gets the bus back |
| `EmuClockRefinesDma` | the refinement mapping, and the abstract specification as the property `ImplementsDma` |
| `EmuClockPace` | history variables that count dots since the last step of the bus master and since the store to `$4014` |
| `EmuClockInv` | the inductive invariant |
| `EmuClockProofs` | lemmas on two- and three-element lists, and the proofs |
| `MCEmuClock` | the instance TLC checks |

`handler_list` is the sequence of the linked nodes, `next[n]` the pointer an unlinked
node keeps (`dlist_remove` does not clear it), and `ch` the walk's local variable: so
the step `ch = ch->l.next` on a node that has just taken itself out of the list is
exactly the code's. The walk has three program points: "top" (the test of
`exit_loop`), "visit" (`if (ch->cnt == 0) handler()`), "count" (increment and follow
the pointer); `EndLoop` of `main` may come between any two. The CPU is abstract here:
a cycle does nothing, stores to memory, stores to `$4014`, or fails. A page of
memory is a function on `Offset`; the bytes of an I/O page are read from registers
and unknown. Nodes that nobody can reach are handed out again, for the code never
frees them and a finite model has to end.

### CPU

| Module | What it is |
|---|---|
| `Machine6502` | bytes, addresses, flags, the memory |
| `Opcode6502` | the 151 rows of `emulator/opcode-6502` as a table: mnemonic, addressing mode, cycles |
| `Cpu6502` | the cycle-level CPU: every step of every instruction, reset and NMI |
| `Isa6502` | the abstract specification: one instruction, interrupt or reset is one step |
| `Cpu6502Isa` | history variables and the refinement |
| `Cpu6502Proofs` | the proofs about the CPU itself |
| `Cpu6502IsaProofs` | the proof that it implements the instruction set |
| `MCCpu6502` | the instances: one instruction of any kind, and programs |

A state of `Cpu6502` is the state between two calls of `clock_cpu`. `Steps(inst)` gives
the sequence of bus operations the code's nested `switch (current_exec_index)`
performs, and `Func` performs the one with the current index. `execute_func` is the
function pointer of that name. An instruction that returns FALSE, an opcode without a
handler and a failed `cycle_check` end the run (`fault`). Memory is sparse: the cells a
run needs, and one value for the rest. The status register is the set of its flags.

### PPU

| Module | What it is |
|---|---|
| `PpuScan` | `clock_ppu` with the prefetch and the priority of a dot, and the CPU's accesses between two dots |
| `PpuScanProofs` | the proofs about both |
| `PpuSprites` | history variables, sprite RAM as it was at the prefetch and whether this frame's vblank has been reported, and the properties that need them: which sprite a dot shows, how often a program hears of vblank |
| `MCPpuSprites` | the instances |

`Prefetched` says what the two passes over sprite RAM leave in the buffer: the hits are
found from the last sprite down, so the k-th entry is the hit with k - 1 above it, up to
the buffer's end.
A dot's colour is abstracted to its origin: the number of a sprite, `Background`,
`Backdrop` (the transparent colour) or `Old` (nothing was drawn over the last frame's
dot). A sprite's pattern is solid or transparent; the background's opacity at a dot is
any. A row outside a pattern is read from the memory behind it, so its opacity is any
too (`wild`). `SpriteDataSet` changes one byte of an entry, `Ctrl1Set`, `Ctrl2Set` and
`StatusGet` the registers this part uses.

### PPU registers, VRAM and background

| Module | What it is |
|---|---|
| `Vram` | the tables and palettes, and the decode of `vram_data_get` and `vram_data_set` |
| `PpuRegisters` | every register: the control register with the banks, bases and increment cached from it, the pairs of address and scroll, the data port, the sprite port, the status read |
| `VramPort` | the abstract specification: the map of `vram.h` (`InMap`) with the tables `init_vram` shares (`Shared`) and the backdrops the palettes share (`Backdrop`), so that every address is a cell or the mirror of one, and a pointer that moves over it |
| `PpuRegistersPort` | the refinement mapping, `ImplementsVramPort`; a history variable with what a program has written of an address, and `PairSetsAddress` |
| `PpuBackground` | `load_background` and `load_attribute` under the beam, composed with the registers |
| `Numbers` | lemmas on quotients and remainders by a base that is any number: what masks and shifts compute |
| `PpuRegistersProofs` | the proofs about the registers, the port, the tables and the background |
| `MCPpuRegisters`, `MCPpuBackground` | the instances |

The address is one number: the two bytes of `vram_addr_reg` overlay a short, so that the
increment of one access carries into the half a program has just written. `Ctrl1Set`
updates a cached value only when its bits change, as the code does. `PpuBackground`
leaves out what VRAM holds: a tile is the cells its name and its attributes come from and
the pattern bank, a dot is its tile and its place in it. `age` counts the dots since the
line, or a write to a register, began, up to a tile.

### Bus

| Module | What it is |
|---|---|
| `Bus` | the decode of `bus.c`, RAM, ROM, the APU's and the PPU's interface with their pins and latches, the joypad's registers, and who uses them: the CPU, DMA and the window's key events |
| `MemoryMap` | the abstract specification: the map of `bus.c` as ranges, a joypad that is a ring of buttons, and a DMA that reads what the CPU would read |
| `BusMemoryMap` | the refinement mapping, `ImplementsMemoryMap` |
| `BusProofs` | the proofs, on the lemmas of `Numbers` |
| `MCBus` | the instance |

All pins, latches and memories are one record, `hw`; the functions of the code are
operators from one such record to the next, composed in an action in the order in which
`load_memory`, `store_memory` and `get_ram_data` call them. That is faithful because one
access is a sequence of calls inside the clock thread, and the only other thread, the
joypad's, changes nothing but the buttons, of which an access reads one. What a PPU
register does is left to `PpuRegisters`; here it answers any byte. `set_ppu_addr` and
its like are the parts of `Latch` and `SetBusData`.

### Life cycle

| Module | What it is |
|---|---|
| `Lifecycle` | `main` from the first `init_...` to the last `clean_...`, each of which may fail; SIGINT; the clock thread as far as `main`, the debugger and errors stop it; the window's thread |
| `LifecycleProofs` | the proofs |

A cycle of the clock thread is two steps here, the test of `exit_loop` and a walk, that
may reach a fetch, a break point, an error, or none of them. GTK is external: its main
loop ends at `gtk_main_quit` only if it has begun, which is what makes the order of
`window_start` and `close_joypad_wnd` matter. The flags are plain variables in the code,
and each store to one is a step of its own where two parties meet on them: `sig_handler`
tests in `SigHandler` and stores in `SigSets`, the debugger's "q" clears `debug_mode` in
`AnswerQuit` and sets `critical_error` in `QuitSets`, and between the two the other threads
may run. What `sig_handler` reads, `critical_error` and `param_debug`, is one test: the
option never changes. One handler runs at a time, for SIGINT is blocked in the thread that
runs it; a second one in another thread in the meantime is not modelled. A break
point's store to `debug_mode` and the prompt behind it are one step: nobody else clears the
flag between them.

## 3. The runs

| Run | Instance | What it shows |
|---|---|---|
| `clock` | 3 nodes, divider 3 and 1, 2 bytes a page, a memory and an I/O page | see below |
| `cpu_instructions` | each opcode with 4 places of the code, 3 operands, 3 memories, 3 accumulators, 2 pairs of indexes, 2 stack pointers, 2 statuses | `StepsAreInstructions`, `TableHolds`, `TypeOK` |
| `cpu_programs` | two programs from power on | `ImplementsIsa`, `InterruptIsTransparent`, `StartsAtStepZero`, `NmiIsPrompt`, `NmiTaken` |
| `ppu` | 2 x 3 visible dots, 3 sprites of 2 x 2 dots, 2 a line | `LineIsBuffered`, `TopmostIsShown`, `DotIsPlaced`, `VblankIsBlank`, `VblankIsToldOnce`, `NmiEveryFrame`, `TypeOK` |
| `ppu_registers` | the map of `vram.h` 256 times smaller | `ImplementsVramPort`, `PairSetsAddress`, `DerivedFromCtrl1`, `TypeOK` |
| `ppu_background` | 4 x 3 tiles of 2 x 2 dots | `DotIsFromPlane`, `NameAndAttributesAgree`, `BgTypeOK` |
| `bus` | areas of 16, 16, 32 and 64 addresses | `ImplementsMemoryMap`, `BusIsHandedOn`, `TypeOK` |
| `lifecycle` | with and without `-d`, with and without a window | `NothingFreedInUse`, `EndsWhenAsked`, `InterruptPrompts`, `DebuggerHasTheLastWord`, `TypeOK` |
| `cpu_adc_doc` | `LDA #$FF; ADC #$80` | violated: `AdcSetsOverflow` |
| `ppu_first_line_doc`, `ppu_backdrop_doc` | 1 sprite | violated: `ShownIsHere`, `BackgroundIsDrawn` |
| `bus_battery_doc` | as `bus` | violated: `BatteryRamIsMemory` |

**`clock`.** `OneBusMaster`: the list is the PPU and one bus master, whenever one looks.
`MasterFindsBus`: the CPU and a starting DMA find the bus ready, which is what allows
`BUS_READY_CHECK` to be compiled out. `ClockInv` is the inductive invariant of
section 5. `NeverStarved` and `DmaStealsExactly` measure in dots: no gap between two
steps of the bus master is longer than the divider, and each DMA keeps the CPU away
for the same number of dots. `DmaCopiesPage` says what the DMA is for, `ImplementsDma`
that all of this is a `SpriteDma`, `DmaTerminates` and `StopsWhenAsked` that it ends.
Three nodes are all a walk can reach at once (the two that are linked and the one the
walk stands on); two bytes make the load and the store alternate twice and carry the
address over the end of the page; a handler that is called every third tick and one
that is called every tick meet in every phase.

**`cpu_instructions`.** Each of the 151 opcodes starts from 864 combinations. The code
lies at `$00FE` (operands across the end of the zero page), `$01FC` (in the stack),
`$FFF8` (under the vectors) and `$C0FE` (across a page, so that branches and indexes
cross it); operands and indexes are chosen so that indexing wraps in the zero page,
crosses a page, and wraps at 65536; stack pointers 0 and 255 wrap. The property
compares the whole machine, registers, flags, memory and cycles used, with the
abstract instruction.

**`cpu_programs`.** A program with a subroutine, a stack that wraps and a handler that
uses it, interrupted at any cycle up to twice, also inside the handler; and a loop that
the debugger resets or ends at any fetch while one interrupt comes. Bounds: `MaxNmi`,
and those named in `MCCpu6502` (resets would otherwise move the stack pointer through
all of page 1). `NmiIsPrompt`: the pin is never up for longer than the longest
instruction and the interrupt sequence, 12 cycles. That is why lowering it at the end of
the sequence loses no interrupt: the PPU raises it once in 341 x 262 dots, and one DMA
more, about 515 cycles, can come between.

**`ppu`.** A line has one blank dot and a frame one blank line, which keeps all the
cases of `clock_ppu` and of `scan_recovery`: the visible dots, the end of a line where
sprites are fetched, the first dot of the blank lines, the wrap. Sprites of two lines on
a picture of three can begin, continue and end on a line, and reach below the picture;
three with room for two crowd a line. Bounds: the last sprite stays where it is, so that
the others crowd its line or leave it, and interrupts come only while sprite RAM is as at
the start (`MCNext`); what they share with the sprites is only the beam. `VblankIsToldOnce`
is about the status read at any dot, also on the line on which vblank is set: a read that
reports vblank is the only one to do so until the next picture begins.

**`ppu_registers`.** The areas have the proportions of the real ones, each with a mirror
of the whole: pattern tables of 16 bytes, name tables of 3 with one of attributes,
palettes of 2, a byte of 16 values, and the increment of 1 or 3 that carries from the low
into the high half and over the end. Bounds: one cell of VRAM differs from 0, which is
enough to see a store that reaches a wrong cell, or two; scroll, banks and sprite RAM are
used only while VRAM is blank and the address 0, for they share only `ctrl_reg1` with it; a store to a
pattern table is the last.

**`ppu_background`.** Scroll values of 0, 3 and 7 on a picture of 8 x 6 dots: on a tile's
edge and inside one, across the right and the lower edge, and, with 7 of 6, the rows below
the second picture, where attributes are read as names: `DotIsFromPlane` says what is drawn
there too. Three settings of the control register
exchange tables and pattern bank between any two dots.

**`bus`.** Every mirror is there at least twice, and every kind of access: RAM at both
ends, a PPU register that can be read and one that cannot, the joypad, DMA through a
mirror (where battery RAM should be), ROM. DMA reads RAM or the joypad. Bounds: one button
at a time; the PPU is used or the joypad is, which share only latches; an error, the
store to ROM, is the last access.

**`lifecycle`.** The whole module is finite, there are no bounds. `NothingFreedInUse`: from
its start to its join, however it is stopped, the clock thread calls only what is
initialised. `EndsWhenAsked`: Ctrl-C, the debugger's quit, an error and a clock thread that
has ended lead to the end of the process, provided the debugger's prompt is answered, or to
`QuitLost`: `main` waits for a window that opened after it was told to close.

Deadlock is not checked where the system may stop: the clock thread after `exit_loop`
or a failing handler, the CPU after a fault, the process at its end. The PPU and the bus
never stop.

Every property of a passing run has a mutant (`Mut...`, next to the definition it
changes): a small bug, such as a dropped wrap or a swapped order, that makes TLC find the
property violated.

## 4. Fairness

`EmuClock` assumes weak fairness of the clock thread, which spins without ever
blocking while no debugger is attached, and of `main` once the thread it joins has
ended. `Cpu6502` and `PpuScan` assume weak fairness of one action, the call of the
clock thread, which `DmaTerminates` and `NeverStarved` justify. `Lifecycle` assumes weak
fairness of each of its three threads, `Main`, `Walk` and `Window`, and of `SigSets`: the
scheduler runs them all, a signal's handler never blocks, and none waits but in the joins,
which are guards. It assumes strong
fairness of `Prompt`: in debug mode a walk that reaches a fetch prompts, and walks reach
fetches again and again (`NeverStarved`, and every instruction ends), though not every one
does. Nothing is assumed of the user, the program's accesses, the interrupts or the
debugger; `EndsWhenAsked` has the answered prompt as its hypothesis. `Bus`,
`PpuRegisters` and `PpuBackground` have only safety properties and no fairness.

## 5. The proofs

| Module | Theorem | Statement |
|---|---|---|
| `EmuClockProofs` | `ClockInvariant` | `Spec => []ClockInv` |
| | `TypeCorrect` | `Spec => []TypeOK` |
| | `OneMaster` | `Spec => []OneBusMaster` |
| | `BusIsReady` | `Spec => []MasterFindsBus` |
| | `CopiesPage` | `Spec => DmaCopiesPage` |
| | `ClockImplementsDma` | `Spec => Dma!Init /\ [][Dma!Next]_(Dma!vars)` |
| | `BusNeverIdle` | `PaceSpec => []NeverStarved` |
| | `DmaTime` | `PPU_DEVIDER = 1`: `PaceSpec => []DmaStealsExactly` |
| `Cpu6502Proofs` | `AlwaysFromStepZero` | `Spec => []StartsAtStepZero` |
| | `TableIsKept` | `Spec => []TableHolds` |
| | `CpuTyped` | `Spec => []TypeOK` |
| | `InterruptsAreTaken` | `HistorySpec => []NmiIsPrompt` |
| `Cpu6502IsaProofs` | `EveryStepIsAnInstruction` | `HistorySpec => StepsAreInstructions` |
| | `CpuImplementsIsa` | `HistorySpec => ImplementsIsa` |
| `PpuScanProofs` | `VblankBetweenPictures` | `Spec => []VblankIsBlank` |
| | `VblankToldOnce` | `HistorySpec => []VblankIsToldOnce` |
| | `DotsArePlaced` | `Spec => DotIsPlaced` |
| | `LineInBuffer` | `Spec => []LineIsBuffered` |
| | `ScanTyped` | `Spec => []TypeOK` |
| | `TopmostShown` | `HistorySpec => TopmostIsShown` |
| `PpuRegistersProofs` | `CacheIsCurrent` | `Spec => []DerivedFromCtrl1` |
| | `PairsSetThePointer` | `HistorySpec => []PairSetsAddress` |
| | `RegistersTyped` | `Spec => []TypeOK` |
| | `RegistersImplementVram` | `Spec => ImplementsVramPort` |
| | `BackgroundTyped` | `BgSpec => []BgTypeOK` |
| | `NamesAgreeWithAttributes` | `BgSpec => []NameAndAttributesAgree` |
| | `BackgroundIsThePlane` | `BgSpec => DotIsFromPlane` |
| `BusProofs` | `BusHandedOn` | `Spec => []BusIsHandedOn` |
| | `BusImplementsMap` | `Spec => ImplementsMemoryMap` |
| | `BusTyped` | `Spec => []TypeOK` |
| `LifecycleProofs` | `SafeCleanup` | `Spec => []NothingFreedInUse` |
| | `OnlyErrorsEndDebugging` | `Spec => []DebuggerHasTheLastWord` |
| | `LifeTyped` | `Spec => []TypeOK` |

They hold for all constants that the modules' assumptions allow. `EmuClockAssumption`
asks for at least three nodes, positive dividers and sizes, and a byte;
`PpuScanAssumption` for a picture smaller than its frame; `VramAssumption` for the
proportions of the map (pattern tables of four tables, palettes at a multiple of
their size); `BusAssumption` for bits that follow each other and memories that divide
an area; `Cpu6502Assumption` for memories of bytes. `BackgroundAssumption` relates the
picture to its tables, and both to the byte of the scroll: a byte reaches over one
picture, and the rows of tiles it reaches to are within a table and its attributes, and
have attributes, and the name of a tile is never looked for in the palettes. With 256 values, 32 by 30 tiles of 8 dots, a table of 1024 and 64
attribute bytes of which a row has 8, each for 4 by 4 tiles, all of these are equalities
but the ones about the height and about the palettes (the last name is below `$3C00`, they
begin at `$3F00`). `DmaTime` is about a PPU that is called every tick, as
`clock.h` defines it; `BusNeverIdle` is not.

**The clock.** `OneBusMaster` is not inductive: whether a swap leaves the right list
depends on where the walk stands and where a stale pointer leads. `ClockInv` adds four
parts. `WalkInv`:
the walk is at a linked node, or at one its own handler has just unlinked, whose pointer
leads to the new master or ends the walk; and a node is visited only while it is linked.
`BusInv`: the bus is taken only by a DMA that has begun. `CountInv`: `dma_cnt`,
`dma_spr_addr` and `dma_ram_addr` advance together, `dma_cnt = 2 * dma_spr_addr` or one
more, which is what makes the DMA's one exact last step the end of the page. `CopyInv`:
the bytes below the target are the page's, and after a load the next byte is held.
`NextClockInv` proves it for each action; the swaps rest on the lemmas about appending to
and removing from a list of two or three. `CopiesPage` and `ClockImplementsDma` then look
at single steps between two states of the invariant.

**Its pace.** `CadenceInv` ties the dots since the master's last step to the count of the
master's node: the walk counts a node only after its handler, and a hand-over leaves the
count of a node that is no longer linked, so the bound is on what the new node's count will
be. `StolenInv` is the same with equalities: it says at every place of the walk how many
dots a DMA has taken, which makes the total a constant.

**The CPU.** `HandlerSteps`, a part of `TableInv`, is about the next handler rather than the
running one: whoever gives the CPU back to the fetch has reset the index, and an instruction
is at one of its own steps. It rests on one lemma about the 151 rows of the table, that
each has a step for each of its cycles, for every way in which it may end early
(`Fits`); then the core's own check cannot fail and `func_XXX` is never called beyond
its last case. `WaitInv` counts: the pin has been up for no longer than the steps that the
instruction or the reset under way has done, then for one more sequence; `PinsInv` says
that a reset comes only from the debugger at a fetch, so it does not begin in the middle of
the interrupt sequence that would then be lost. `DataInv` is kept by every operator of the
data path, handler by handler; the bits of a byte are a set there, and `FromBits` makes a
byte of any set.

**The instruction set.** The refinement mapping is by history variables: the registers and
memory of `Isa6502` are those of the last boundary (`last`), its cycles are `took`. A step
of `Isa6502` is therefore matched by the one cycle that gets to a boundary, and the
invariant has to remember how the core came there. `BoundaryInv` says that while an
instruction runs the data path (registers, memory, data and address latch) is the end of
a chain that begins behind the fetch at `last`: a sequence of states of which each is
`Func` of the one before and none but the last may have ended the instruction, one for each
cycle spent (`Chain`; `NmiChain` and `ResetChain` for the two sequences). It does not say
what any addressing mode has computed half way: for each addressing mode a lemma follows
its chain to the address, the operand and the index it stops at, over every wrap of the zero
page, the stack and the 64 KB, early ends at page crossings included. One lemma for
each kind of instruction (`LoadDone`, `StoreDone`, `ModifyDone`, `BranchDone`, `JumpDone`,
`CallDone`, `ReturnInterruptDone`, ...) shows that where its chain ends registers, memory and
cycles are the abstract instruction's; `InstructionDone` splits the table among them, and
`NmiDone` and `ResetDone` do the same for the two sequences; a reset comes from the debugger's
prompt at a fetch, which may have moved the pc and nothing else (`Behind`). Nothing is assumed of a program but what the core itself checks:
`BRK`, `SED` and opcodes without a row end a run with a fault, and there is no boundary
after it.

**The picture.** `DotIsPlaced` speaks of one dot; `RasterInv` of the pointer at every
place of the beam: one before it in a line, at the last visible dot in the blank of a
line, which is one before the next line's first. So the blank may be of any length, and
line 0 begins anew. `OnceInv` adds to `VblankIsToldOnce` that vblank, and the memory of having
reported it, are there only past the dot that sets it (`PastPicture`).

**The sprites.** A higher hit has an earlier place (`PlaceOrder`), so the place is an
injection of the hits into as many numbers, and by the pigeonhole principle every place has
its hit (`FoundAt`): `PrefetchedIs` then says what is in the buffer.
`BufferInv`: below the first line every entry is on the line, whatever has been stored
into sprite RAM since. `FetchedInv`: it is what was fetched from the sprite RAM of that
moment, which the history variable keeps. `TopmostStep` compares the lowest solid
entry of the buffer with the priorities the property states, by the order of the places.

**The registers.** `PairInv` adds to `PairSetsAddress` that the toggle is 0 exactly when
the program has no half written, and that the high half of the register is the one it
wrote. The lemmas on two digits to the base of a byte replace the union of the C code.

**VRAM.** `RegistersImplementVram` is the refinement for every size. Its lemmas are about
`\div` and `%`: what the code computes by masks and repeated subtraction is a digit of the
address, and `Canonical`, the mirrors of the map and of the shared tables, has the same digits (`TableMirror`,
`PaletteMirror`). A cell is its own mirror (`CellIsCanonical`), so a load sees the cell
the map names (`ReadCell`), and a store changes that cell and no other (`WriteCell`),
although four tables and a palette shared by halves hold them.

**The background.** `NameAddress`: the address of a name, which may be six tables behind
the first, is decoded to the table and the place it was summed up from, over the mirrors of
the tables; so it meets the attribute's bank (`LoadedType`), and the plane's
(`LoadedIsPlanes`), whose rows go on below the second picture with the attributes that are
read as names there. `BackgroundAssumption` keeps that address below the palettes, which the
decode (`CellAt`) would otherwise take it for. `DotIsFromPlane` looks
at one dot, but the tile of the dot was loaded some dots before: `TileInv` says that inside
of a tile, once `age` has counted its dots since the last disturbance, the tile in hand is
the one that would be loaded here, and `SameTile` that it is then the one of the next dot,
also across the right edge.

**The bus.** `BusHandedOn` follows an access call by call: each lemma says what a call
does to the fields that decide about the bus, and `LoadIs` and `StoreIs` put them together;
`OwnerInv` has the three cases: the CPU has it, DMA is about to start, DMA keeps it. The
same two lemmas say where a load's byte comes from and what a store changes, whatever the
latches held before. `BusImplementsMap` needs nothing more of the pins: `Decoded` relates
the code's tests of single bits with the map's ranges, `KeptInv` types what an access
leaves behind, and the lemmas on `Ring` and `Turns` show that the counter of the joypad
and the map's ring of buttons turn together. `BusTyped` adds `Wired`, the types of the
latches, which no earlier theorem has to know.

**The life cycle.** `LifeInv` says, by the place of `main`, what it has initialised and
freed, and that the clock thread has ended once `main` is past the join; `FlagInv`, that
with `-d` a handler decides for `main_loop_done`, and sets it, only after `critical_error`,
so that what it read cannot go stale before it stores.

Only model-checked: liveness (`DmaTerminates`, `StopsWhenAsked`, `NmiTaken`,
`NmiEveryFrame`, `EndsWhenAsked`, `InterruptPrompts`, and the fairness of `SpriteDma`),
since TLAPS does not reason about `ENABLED`; and `InterruptIsTransparent`, which holds of
programs whose handlers keep the registers and the stack, not of every program.

## 6. What the checks found

Each of these is a run that is expected to be violated, and a finding in `PROJECT.json`
that quotes the line it contradicts.

- `ADC` computes the overflow flag with the carry it has already overwritten
  (`6502core.c:940`): `LDA #$FF; ADC #$80` does not set it.
- Line 0 is drawn from the sprites fetched for the line below the picture
  (`ppucore.c:124`): `scan_recovery` never fetches at the end of a frame, so the wrap to
  line 0 it contains is dead code; sprites at the bottom show at the top, with a row
  outside their pattern.
- `bg_sprite` stays set after sprites have been turned off (`vscreen.c:140`), and
  transparent background dots are then not drawn.
- A store to `$6000`-`$7FFF`, battery RAM in the map of `bus.c:40`, reaches the APU's
  registers: `$6014` starts a DMA (`bus.c:80`).

Met while modelling, and in the models as the code has them, without a run of their own:

- After a DMA the CPU's first cycle comes one dot after the DMA's last step, not three
  (`dma.c:55`), because the new node starts with a counter of 0.
- `RTI` restores all eight status bits, `PLP` fixes two (`6502core.c:1989` and `1853`).
- A line with more sprites than fit keeps the ones with the lowest priority
  (`vscreen.c:161`), and a sprite's first line is its y coordinate, while `ppucore.c:122`
  says that is stored minus 1.
- A vertical scroll of 240 and more reads rows of attributes as tiles (`vscreen.c:103`).
- An address written in two halves with an access of VRAM between them can get a carry in
  its high half; the toggle of the scroll is not reset by a status read, that of the address
  is.
- The window's thread sets `jp_wnd_start` before it enters `gtk_main`: a quit between the
  two is lost, and `main` waits until the user closes the window. SIGINT before
  `prepare_sig` kills the process; at the end of its input the debugger's prompt spins.
- `dbg_get_byte` masks RAM addresses with `ROM_MASK` (`bus.c:238`).

## 7. What is not modelled, and the plan

Left out for good: file reading, `dlopen`, dumps and disassembly, scaling and the
display process (output or input without control), the stand-alone driver programs.
Colours and patterns stay abstract: the pattern bits of a tile, `palette.c`, and the
control bits that only choose pixels (colour emphasis, clipping). The window's drawing and
its key bindings are left out; key events are `KeyPress` and `KeyRelease`. The memory leak of
each DMA, the opcode table's missing last row and `dbg_get_byte` are undefined or unbounded
in the code in a way no property could be stated of; they are listed as hazards with that note.

Each clock action of `PpuScan`, `PpuBackground`, `Bus` and `Cpu6502` stands alone, joined by
what each assumes of the others: `PpuScan` takes any access of the CPU between two dots, the
CPU takes interrupts at any cycle, the bus takes any access. These are the assumptions that
over-approximate the composition, so that safety carries over.

What is left: the list with its pointers (`dlist_*`) as a refinement of the sequence in
`EmuClock`.
