------------------------- MODULE EmuClockRefinesDma -------------------------
(***************************************************************************)
(* The clock thread with its handler list implements SpriteDma.  The bus   *)
(* master is read off the handler list, the number of bytes copied off     *)
(* dma_spr_addr, and the page off dma_ram_addr.                            *)
(***************************************************************************)
EXTENDS EmuClock

master ==
    IF pc = "done" THEN "none"
    ELSE IF Registered("clock_dma") THEN "dma" ELSE "cpu"

Dma == INSTANCE SpriteDma WITH page <- DmaPage, copied <- dma_spr_addr

\* A store to $4014 copies its page to sprite RAM in one piece, from the first
\* byte to the last, with the CPU stopped meanwhile, whatever the clock's walk
\* does in between; and the copy ends unless the emulator stops.
ImplementsDma == Dma!Spec
=============================================================================
