----------------------------- MODULE SpriteDma ------------------------------
(***************************************************************************)
(* What a store to $4014 promises (emulator/dma.c), without clock or list: *)
(* the CPU stops, the bytes of the page it named are copied to sprite RAM  *)
(* from the first to the last, one by one, and the CPU goes on.  Until     *)
(* then nothing else writes memory or sprite RAM.                          *)
(***************************************************************************)
EXTENDS Naturals

CONSTANTS SPRITE_RAM_SIZE, PAGES, IoPage, Byte

VARIABLES
    master,     \* who steps: "cpu", "dma", or "none" once the emulator stops
    page,       \* the page being copied
    copied,     \* bytes of it that are in sprite RAM
    mem, sprite_ram

vars == <<master, page, copied, mem, sprite_ram>>

Page   == 0 .. PAGES - 1
Offset == 0 .. SPRITE_RAM_SIZE - 1

Init ==
    /\ master = "cpu"
    /\ page = 0
    /\ copied = 0
    /\ mem \in [Page -> [Offset -> Byte]]
    /\ sprite_ram \in [Offset -> Byte]

Store ==
    /\ master = "cpu"
    /\ \E lo \in Offset, b \in Byte :
          \/ /\ \E hi \in Page \ IoPage : mem' = [mem EXCEPT ![hi][lo] = b]
             /\ UNCHANGED sprite_ram
          \/ /\ sprite_ram' = [sprite_ram EXCEPT ![lo] = b]
             /\ UNCHANGED mem
    /\ UNCHANGED <<master, page, copied>>

Start ==
    /\ master = "cpu"
    /\ master' = "dma"
    /\ page' \in Page
    /\ copied' = 0
    /\ UNCHANGED <<mem, sprite_ram>>

\* A byte of an I/O page is whatever the register answers.
Copy ==
    /\ master = "dma"
    /\ \E b \in Byte :
          /\ page \notin IoPage => b = mem[page][copied]
          /\ sprite_ram' = [sprite_ram EXCEPT ![copied] = b]
    /\ \/ /\ copied = SPRITE_RAM_SIZE - 1
          /\ copied' = 0
          /\ master' = "cpu"
       \/ /\ copied # SPRITE_RAM_SIZE - 1
          /\ copied' = copied + 1
          /\ UNCHANGED master
    /\ UNCHANGED <<page, mem>>

Halt ==
    /\ master # "none"
    /\ master' = "none"
    /\ UNCHANGED <<page, copied, mem, sprite_ram>>

Next == Store \/ Start \/ Copy \/ Halt

Spec == Init /\ [][Next]_vars /\ WF_vars(Copy)
=============================================================================
