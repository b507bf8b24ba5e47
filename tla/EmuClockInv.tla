---------------------------- MODULE EmuClockInv -----------------------------
(***************************************************************************)
(* The inductive invariant of EmuClock: what has to be known of the walk,  *)
(* the list, the bus and the copy in every state for OneBusMaster,         *)
(* MasterFindsBus and DmaCopiesPage to be kept by every step.              *)
(***************************************************************************)
EXTENDS EmuClockRefinesDma

PpuNode    == handler_list[1]
MasterNode == handler_list[2]
DmaIsOn    == handler[MasterNode] = "clock_dma"

\* The walk is at a linked node, or at one its own handler has just unlinked;
\* such a node leads back to the list (to the new master) or ends the walk.
WalkInv ==
    /\ pc \in {"visit", "count"} => ch \in Node
    /\ pc = "visit" => ch \in {PpuNode, MasterNode}
    /\ pc = "count" /\ ch \notin {PpuNode, MasterNode}
          => next[ch] \in {MasterNode, NULL}

\* Only a DMA that has begun to copy holds the bus between two steps.
BusInv == ready \/ (DmaIsOn /\ dma_cnt > 0)

\* A DMA's step counter, its target and its source advance together.
CountInv ==
    DmaIsOn =>
        \/ /\ dma_cnt = 2 * dma_spr_addr
           /\ dma_ram_addr.lo = dma_spr_addr
        \/ /\ dma_cnt = 2 * dma_spr_addr + 1
           /\ dma_ram_addr.lo = Inc(dma_spr_addr, SPRITE_RAM_SIZE)

\* The bytes below the target are copied, and after a load the next one is
\* in dma_ram_data.
CopyInv ==
    DmaIsOn /\ DmaPage \notin IoPage =>
        /\ \A i \in Offset : i < dma_spr_addr => sprite_ram[i] = mem[DmaPage][i]
        /\ dma_cnt % 2 = 1 => dma_ram_data = mem[DmaPage][dma_spr_addr]

\* The clock's inductive invariant: its parts are named after what they relate.
ClockInv ==
    /\ TypeOK
    /\ OneBusMaster
    /\ WalkInv
    /\ BusInv
    /\ CountInv
    /\ CopyInv
=============================================================================
