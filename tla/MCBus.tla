------------------------------- MODULE MCBus --------------------------------
(* Areas of 16, 16, 32 and 64 addresses, with every mirror at least twice. *)
EXTENDS BusMemoryMap

MCRom == [a \in 0 .. ROM_BIT - 1 |-> a % 2]

\* RAM; the PPU's registers 2 and, in the mirror, 3; the APU's joypad register, and its
\* DMA register where battery RAM should be; and the last address of ROM.  DMA reads RAM
\* from 0, or the joypad register and the one behind it.
MCAddress == {0, 15} \cup {18, 27} \cup {38, 60} \cup {127}

\* Bounds: one button at a time, the PPU or the joypad, and a last access to ROM.
Bound ==
    /\ \E n \in 0 .. BUTTON_CNT - 1 : held \subseteq {n}
    /\ hw.ppu_call = <<>> \/ (held = {} /\ ~hw.button_set /\ hw.read_cnt = 0)
    /\ ~hw.critical_error
=============================================================================
