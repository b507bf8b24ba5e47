------------------------------ MODULE EmuClock ------------------------------
(***************************************************************************)
(* The emulator's clock thread (emulator/clock.c), the list of handlers it *)
(* walks, the sprite DMA engine that swaps itself into that list in place  *)
(* of the CPU (emulator/dma.c) and the ready pin of the bus                *)
(* (emulator/bus.c) that says who may use it.                              *)
(*                                                                         *)
(* One thread walks handler_list for ever: a node whose cnt is 0 has its   *)
(* handler called, every node then counts up modulo its devider.  The list *)
(* is changed only from inside a handler, that is in the middle of a walk. *)
(* A node that is taken out keeps its own next pointer (dlist_remove), and *)
(* the walk goes on from that stale pointer.                               *)
(*                                                                         *)
(* The list is the sequence of its linked nodes; next holds the pointer of *)
(* the nodes that were unlinked.  Unlinked nodes are never freed: one that *)
(* nobody can reach is handed out again as a new node, which keeps the set *)
(* of nodes finite and cannot be told from a malloc of fresh memory.       *)
(***************************************************************************)
EXTENDS Naturals, Sequences, SequencesExt

CONSTANTS
    Node,               \* list nodes malloc can return
    NULL,
    CPU_DEVIDER,        \* base ticks per CPU (and DMA) step
    PPU_DEVIDER,        \* base ticks per PPU step
    SPRITE_RAM_SIZE,    \* bytes of sprite RAM, also bytes of a page
    PAGES,              \* pages of the CPU's address space
    IoPage,             \* the pages that are I/O registers, not memory
    Byte

ASSUME EmuClockAssumption ==
    /\ NULL \notin Node
    /\ \A a, b \in Node : \E n \in Node : n \notin {a, b}
    /\ CPU_DEVIDER \in Nat \ {0}
    /\ PPU_DEVIDER \in Nat \ {0}
    /\ SPRITE_RAM_SIZE \in Nat \ {0}
    /\ PAGES \in Nat \ {0}
    /\ IoPage \subseteq 0 .. PAGES - 1
    /\ Byte # {}

VARIABLES
    handler_list,   \* the linked nodes, head first
    handler, cnt,   \* the fields of a node
    next,           \* ch->l.next of an unlinked node
    ch,             \* the node the walk is at
    pc,             \* where the clock thread is
    exit_loop,
    main,           \* how far main() is in clean_clock
    ready,          \* the bus's ready pin
    mem,            \* memory as the CPU sees it, by page
    sprite_ram,
    dma_ram_addr, dma_ram_data, dma_spr_addr, dma_cnt

listVars == <<handler_list, handler, next>>
walkVars == <<ch, pc>>
mainVars == <<exit_loop, main>>
dmaVars  == <<dma_ram_addr, dma_ram_data, dma_spr_addr, dma_cnt>>
vars == <<listVars, cnt, walkVars, mainVars, ready, mem, sprite_ram, dmaVars>>

Handler == {"clock_ppu", "clock_cpu", "clock_dma"}
Page    == 0 .. PAGES - 1
Offset  == 0 .. SPRITE_RAM_SIZE - 1

\* x++ and x-- of an unsigned x below n
Inc(x, n) == IF x = n - 1 THEN 0 ELSE x + 1
Dec(x, n) == IF x = 0 THEN n - 1 ELSE x - 1

Devider(h) == IF h = "clock_ppu" THEN PPU_DEVIDER ELSE CPU_DEVIDER

-----------------------------------------------------------------------------
(* The list. *)

Linked(n) == \E i \in DOMAIN handler_list : handler_list[i] = n

Registered(h) == \E i \in DOMAIN handler_list : handler[handler_list[i]] = h

\* The position of handler h among the nodes of list, given their handlers.
PositionOf(h, list, handlers) ==
    CHOOSE i \in DOMAIN list : handlers[list[i]] = h

Follower(list, i) == IF i < Len(list) THEN list[i + 1] ELSE NULL

\* ch->l.next: of a linked node the list's, of an unlinked one its own.
Next_of(n) ==
    IF Linked(n)
      THEN Follower(handler_list,
                    CHOOSE i \in DOMAIN handler_list : handler_list[i] = n)
      ELSE next[n]

\* What malloc can return: a node nobody can reach any more.
Unused == {n \in Node : ~Linked(n) /\ n # ch}

-----------------------------------------------------------------------------
(* After init_datas: init_ppu registered clock_ppu, init_cpu clock_cpu. *)

Init ==
    /\ \E p, c \in Node :
          /\ p # c
          /\ handler_list = <<p, c>>
          /\ handler = [n \in Node |-> IF n = p THEN "clock_ppu" ELSE "clock_cpu"]
    /\ cnt = [n \in Node |-> 0]
    /\ next = [n \in Node |-> NULL]
    /\ ch = NULL
    /\ pc = "top"
    /\ exit_loop = FALSE
    /\ main = "running"
    /\ ready = TRUE
    /\ mem \in [Page -> [Offset -> Byte]]
    /\ sprite_ram \in [Offset -> Byte]
    /\ dma_ram_addr = [hi |-> 0, lo |-> 0]
    /\ dma_ram_data \in Byte
    /\ dma_spr_addr = 0
    /\ dma_cnt = 0

-----------------------------------------------------------------------------
(* The clock thread. *)

\* while (!exit_loop) { ch = handler_list; ...
StartWalk ==
    /\ pc = "top"
    /\ ~exit_loop
    /\ ch' = Head(handler_list)
    /\ pc' = "visit"
    /\ UNCHANGED <<listVars, cnt, mainVars, ready, mem, sprite_ram, dmaVars>>

LeaveLoop ==
    /\ pc = "top"
    /\ exit_loop
    /\ pc' = "done"
    /\ UNCHANGED <<listVars, cnt, ch, mainVars, ready, mem, sprite_ram, dmaVars>>

\* if (++ch->cnt == ch->devider) ch->cnt = 0;  ch = ch->l.next;
Advance ==
    /\ pc = "count" \/ (pc = "visit" /\ cnt[ch] # 0)
    /\ cnt' = [cnt EXCEPT ![ch] = IF @ + 1 = Devider(handler[ch]) THEN 0 ELSE @ + 1]
    /\ ch' = Next_of(ch)
    /\ pc' = IF ch' = NULL THEN "top" ELSE "visit"
    /\ UNCHANGED <<listVars, mainVars, ready, mem, sprite_ram, dmaVars>>

\* if (ch->cnt == 0) ch->handler()
Calls(h) == pc = "visit" /\ cnt[ch] = 0 /\ handler[ch] = h

Returns == pc' = "count" /\ UNCHANGED <<ch, mainVars>>

ClockPpu ==
    /\ Calls("clock_ppu")
    /\ Returns
    /\ UNCHANGED <<listVars, cnt, ready, mem, sprite_ram, dmaVars>>

-----------------------------------------------------------------------------
(* The CPU, as far as the clock and the bus can tell.  Every cycle that    *)
(* uses the bus finds it ready first and leaves it ready.                  *)

\* A cycle that changes nothing modelled here.
CpuCycle ==
    /\ Calls("clock_cpu")
    /\ Returns
    /\ UNCHANGED <<listVars, cnt, ready, mem, sprite_ram, dmaVars>>

\* A store into memory, or into sprite RAM by way of register $2004.
CpuStore ==
    /\ Calls("clock_cpu")
    /\ ready
    /\ Returns
    /\ \E lo \in Offset, b \in Byte :
          \/ /\ \E hi \in Page \ IoPage : mem' = [mem EXCEPT ![hi][lo] = b]
             /\ UNCHANGED sprite_ram
          \/ /\ sprite_ram' = [sprite_ram EXCEPT ![lo] = b]
             /\ UNCHANGED mem
    /\ UNCHANGED <<listVars, cnt, ready, dmaVars>>

\* Mutants of SwapInDma: the CPU stays in the list; the CPU is taken out
\* before the DMA is put in, so that the walk ends at the CPU's node.
MutSwapInDmaKeepsCpu(n) ==
    /\ handler' = [handler EXCEPT ![n] = "clock_dma"]
    /\ cnt' = [cnt EXCEPT ![n] = 0]
    /\ handler_list' = Append(handler_list, n)
    /\ UNCHANGED next

MutSwapInDmaOrder(n) ==
    LET i == PositionOf("clock_cpu", handler_list, handler)
    IN  /\ next' = [next EXCEPT ![handler_list[i]] = Follower(handler_list, i)]
        /\ handler_list' = Append(RemoveAt(handler_list, i), n)
        /\ handler' = [handler EXCEPT ![n] = "clock_dma"]
        /\ cnt' = [cnt EXCEPT ![n] = 0]

\* register_clock_hander(clock_dma, ..) then unregister_cpu_clock(): the CPU's
\* node is followed by the DMA's when it is taken out.
SwapInDma(n) ==
    LET list == Append(handler_list, n)
        hs   == [handler EXCEPT ![n] = "clock_dma"]
        i    == PositionOf("clock_cpu", list, hs)
    IN  /\ handler' = hs
        /\ cnt' = [cnt EXCEPT ![n] = 0]
        /\ next' = [next EXCEPT ![list[i]] = Follower(list, i)]
        /\ handler_list' = RemoveAt(list, i)

\* A store of the page number into $4014: set_dma_data.
CpuStartDma ==
    /\ Calls("clock_cpu")
    /\ ready
    /\ Returns
    /\ \E hi \in Page : dma_ram_addr' = [hi |-> hi, lo |-> 0]
    /\ dma_spr_addr' = 0
    /\ dma_cnt' = 0
    /\ \E n \in Unused : SwapInDma(n)
    /\ UNCHANGED <<ready, mem, sprite_ram, dma_ram_data>>

\* clock_cpu returns FALSE (a critical error): the thread ends.
CpuFails ==
    /\ Calls("clock_cpu")
    /\ pc' = "done"
    /\ UNCHANGED <<listVars, cnt, ch, mainVars, ready, mem, sprite_ram, dmaVars>>

-----------------------------------------------------------------------------
(* clock_dma: an even step loads a byte, an odd one stores it. *)

\* Mutant: the low byte does not carry.
MutSucc_addr(a) == [a EXCEPT !.lo = @ + 1]

\* dma_ram_addr++
Succ_addr(a) ==
    IF a.lo = SPRITE_RAM_SIZE - 1
      THEN [hi |-> Inc(a.hi, PAGES), lo |-> 0]
      ELSE [hi |-> a.hi, lo |-> a.lo + 1]

\* Mutant: the bus is not given back before the next address.
MutAddressed == ready

\* The DMA keeps the bus between its steps and gives it back only to set the
\* next address: a bus that is not ready ignores set_bus_addr.
Addressed == ready \/ dma_cnt > 0

DmaLoad ==
    /\ Calls("clock_dma")
    /\ dma_cnt % 2 = 0
    /\ Returns
    /\ dma_ram_data' \in Byte
    /\ Addressed /\ dma_ram_addr.hi \notin IoPage
          => dma_ram_data' = mem[dma_ram_addr.hi][dma_ram_addr.lo]
    /\ dma_ram_addr' = Succ_addr(dma_ram_addr)
    /\ dma_cnt' = dma_cnt + 1
    /\ ready' = FALSE
    /\ UNCHANGED <<listVars, cnt, mem, sprite_ram, dma_spr_addr>>

\* Mutant: the CPU is not put back.
MutSwapInCpu(n) ==
    LET i == PositionOf("clock_dma", handler_list, handler)
    IN  /\ next' = [next EXCEPT ![handler_list[i]] = NULL]
        /\ handler_list' = RemoveAt(handler_list, i)
        /\ UNCHANGED <<handler, cnt>>

\* unregister_clock_hander(clock_dma) then register_cpu_clock(): the DMA's
\* node is the last one when it is taken out.
SwapInCpu(n) ==
    LET i == PositionOf("clock_dma", handler_list, handler)
    IN  /\ next' = [next EXCEPT ![handler_list[i]] = Follower(handler_list, i)]
        /\ handler_list' = Append(RemoveAt(handler_list, i), n)
        /\ handler' = [handler EXCEPT ![n] = "clock_cpu"]
        /\ cnt' = [cnt EXCEPT ![n] = 0]

\* Mutant: one byte early.
MutLastDmaStep == dma_cnt = SPRITE_RAM_SIZE * 2 - 3

LastDmaStep == dma_cnt = SPRITE_RAM_SIZE * 2 - 1

\* Mutant: the bus is kept.
MutReleaseBus == UNCHANGED ready

ReleaseBus == ready' = TRUE

DmaStore ==
    /\ Calls("clock_dma")
    /\ dma_cnt % 2 = 1
    /\ Returns
    /\ sprite_ram' = [sprite_ram EXCEPT ![dma_spr_addr] = dma_ram_data]
    /\ dma_spr_addr' = Inc(dma_spr_addr, SPRITE_RAM_SIZE)
    /\ dma_cnt' = dma_cnt + 1
    /\ \/ /\ LastDmaStep
          /\ ReleaseBus
          /\ \E n \in Unused : SwapInCpu(n)
       \/ /\ ~LastDmaStep
          /\ UNCHANGED <<listVars, cnt, ready>>
    /\ UNCHANGED <<mem, dma_ram_addr, dma_ram_data>>

ClockThread ==
    \/ StartWalk \/ LeaveLoop \/ Advance
    \/ ClockPpu
    \/ CpuCycle \/ CpuStore \/ CpuStartDma \/ CpuFails
    \/ DmaLoad \/ DmaStore

-----------------------------------------------------------------------------
(* main(): clean_clock asks the thread to stop, joins it, frees the nodes. *)

\* Mutant: the flag is not set.
MutEndLoop ==
    /\ main = "running"
    /\ main' = "joining"
    /\ UNCHANGED <<listVars, cnt, walkVars, exit_loop, ready, mem, sprite_ram, dmaVars>>

EndLoop ==
    /\ main = "running"
    /\ exit_loop' = TRUE
    /\ main' = "joining"
    /\ UNCHANGED <<listVars, cnt, walkVars, ready, mem, sprite_ram, dmaVars>>

JoinAndFree ==
    /\ main = "joining"
    /\ pc = "done"
    /\ main' = "freed"
    /\ UNCHANGED <<listVars, cnt, walkVars, exit_loop, ready, mem, sprite_ram, dmaVars>>

Next == ClockThread \/ EndLoop \/ JoinAndFree

\* The thread spins without ever blocking, and main blocks only in the join.
Spec == Init /\ [][Next]_vars /\ WF_vars(ClockThread) /\ WF_vars(JoinAndFree)

-----------------------------------------------------------------------------
(* Properties. *)

TypeOK ==
    /\ handler_list \in Seq(Node)
    /\ handler \in [Node -> Handler]
    /\ cnt \in [Node -> Nat]
    /\ next \in [Node -> Node \cup {NULL}]
    /\ ch \in Node \cup {NULL}
    /\ pc \in {"top", "visit", "count", "done"}
    /\ exit_loop \in BOOLEAN
    /\ main \in {"running", "joining", "freed"}
    /\ ready \in BOOLEAN
    /\ mem \in [Page -> [Offset -> Byte]]
    /\ sprite_ram \in [Offset -> Byte]
    /\ dma_ram_addr \in [hi : Page, lo : Offset]
    /\ dma_ram_data \in Byte
    /\ dma_spr_addr \in Offset
    /\ dma_cnt \in 0 .. SPRITE_RAM_SIZE * 2

\* The handler list is always the PPU followed by exactly one bus master, the
\* CPU or the DMA: swapping them in the middle of a walk never leaves both,
\* neither, or the PPU displaced.
OneBusMaster ==
    /\ Len(handler_list) = 2
    /\ handler_list[1] # handler_list[2]
    /\ handler[handler_list[1]] = "clock_ppu"
    /\ handler[handler_list[2]] \in {"clock_cpu", "clock_dma"}

\* Whenever the clock is about to run a CPU cycle the bus is ready, so the CPU's
\* own "bus not ready, do nothing" tests never fail and never hide an error;
\* and when it is about to run the first DMA step, the address gets through.
MasterFindsBus ==
    /\ Calls("clock_cpu") => ready
    /\ Calls("clock_dma") /\ dma_cnt = 0 => ready

\* The page the current (or last) DMA copies from: dma_ram_addr has moved
\* beyond it once the last byte is loaded.
DmaPage ==
    IF dma_cnt >= SPRITE_RAM_SIZE * 2 - 1
      THEN Dec(dma_ram_addr.hi, PAGES)
      ELSE dma_ram_addr.hi

DmaEnds == Registered("clock_dma") /\ ~Registered("clock_dma")'

\* When the DMA hands the list back to the CPU, sprite RAM is the page the CPU
\* asked for, byte for byte, as it is in memory at that moment.
DmaCopiesPage ==
    [][DmaEnds /\ DmaPage \notin IoPage => sprite_ram' = mem'[DmaPage]]_vars

\* A DMA that was started ends, unless the thread is told to stop.
DmaTerminates ==
    Registered("clock_dma") ~> (Registered("clock_cpu") \/ pc = "done")

\* Once asked to stop the thread stops, even in the middle of a DMA, and main
\* gets past its join.
StopsWhenAsked == main = "joining" ~> main = "freed"
=============================================================================
