----------------------------- MODULE EmuClockPace ---------------------------
(***************************************************************************)
(* EmuClock with two history variables that count PPU dots: since the bus  *)
(* master's last step, and since the CPU cycle that stored to $4014.  They *)
(* measure the pace clock.h and ppu.c promise: a CPU cycle per CPU_DEVIDER *)
(* dots, so 341 dots of a scanline are 113.67 CPU cycles.                  *)
(***************************************************************************)
EXTENDS EmuClockInv

VARIABLES
    since,      \* dots since the last step of the bus master
    stolen      \* dots since the $4014 cycle; 0 when no DMA followed it

paceVars == <<vars, since, stolen>>

MaxStolen == (SPRITE_RAM_SIZE * 2 + 1) * CPU_DEVIDER     \* a bound for TLC

PaceInit == Init /\ since = CPU_DEVIDER - 1 /\ stolen = 0

\* A dot passes.
Dot ==
    /\ ClockPpu
    /\ since' = IF since > CPU_DEVIDER THEN since ELSE since + 1
    /\ stolen' = IF Registered("clock_dma") \/ stolen > 0
                   THEN (IF stolen < MaxStolen THEN stolen + 1 ELSE stolen)
                   ELSE 0

MasterStep ==
    /\ CpuCycle \/ CpuStore \/ CpuStartDma \/ CpuFails \/ DmaLoad \/ DmaStore
    /\ since' = 0
    /\ stolen' = IF Calls("clock_cpu") THEN 0 ELSE stolen

OtherStep ==
    /\ StartWalk \/ LeaveLoop \/ Advance \/ EndLoop \/ JoinAndFree
    /\ UNCHANGED <<since, stolen>>

PaceNext == Dot \/ MasterStep \/ OtherStep

PaceSpec ==
    /\ PaceInit /\ [][PaceNext]_paceVars
    /\ WF_vars(ClockThread) /\ WF_vars(JoinAndFree)

\* The bus is never idle: whoever is master steps within CPU_DEVIDER dots of
\* the master's last step, across the hand-over to the DMA and back.
NeverStarved == since <= CPU_DEVIDER

\* The CPU's next cycle after a store to $4014 comes after the DMA's steps and
\* not a dot later or earlier than the walk makes it: the first DMA step runs in
\* the tick of the store itself, and the CPU in the tick after the last one.
DmaStealsExactly ==
    Calls("clock_cpu") /\ stolen > 0
        => stolen = (SPRITE_RAM_SIZE * 2 - 1) * CPU_DEVIDER + 1

-----------------------------------------------------------------------------
(* The inductive invariant behind the two. *)

\* This tick's dot has been, and the master has not made its step or been counted.
DotDone ==
    \/ pc = "count" /\ ch = PpuNode
    \/ pc = "visit" /\ ch = MasterNode

\* The master has made its step, and its node is not counted yet.
Stepped == pc = "count" /\ ch # PpuNode

\* The node that was counted, or the one it made way for, is no longer linked.
Swapped == Stepped /\ ch # MasterNode

\* A tick later than the master's step its count is 1, and so on.
Elapsed(k) == IF k = 0 THEN CPU_DEVIDER - 1 ELSE k - 1

Dots == Elapsed(cnt[MasterNode]) + IF DotDone THEN 1 ELSE 0

\* The master's count bounds the dots since its last step; a count of 0 at the start of a
\* tick is an old one, or that of a node that has come into the list in this tick.
CadenceInv ==
    /\ since \in Nat /\ since <= CPU_DEVIDER
    /\ cnt[MasterNode] < CPU_DEVIDER
    /\ Stepped => since = 0 /\ cnt[MasterNode] = 0
    /\ pc # "done" /\ ~Stepped => since <= Dots

\* With a dot in every tick: while the DMA is on its steps are a CPU_DEVIDER apart, the
\* first one in the tick of the store; and the CPU's node follows in the next tick.
StolenInv ==
    /\ stolen \in Nat
    /\ cnt[PpuNode] = 0
    /\ Swapped => next[ch] = IF DmaIsOn THEN MasterNode ELSE NULL
    /\ Swapped /\ DmaIsOn => dma_cnt = 0
    /\ DmaIsOn /\ dma_cnt = 0 =>
          /\ stolen = 0
          /\ Swapped \/ (pc = "visit" /\ ch = MasterNode /\ cnt[MasterNode] = 0)
    /\ DmaIsOn /\ dma_cnt > 0 =>
          /\ stolen = (dma_cnt - 1) * CPU_DEVIDER + since
          /\ pc # "done" /\ ~Stepped => since = Dots
    /\ ~DmaIsOn /\ stolen > 0 =>
          /\ stolen = (SPRITE_RAM_SIZE * 2 - 1) * CPU_DEVIDER + since
          /\ since = (IF DotDone THEN 1 ELSE 0)
          /\ cnt[MasterNode] = 0
          /\ pc = "count" => ch # MasterNode
=============================================================================
