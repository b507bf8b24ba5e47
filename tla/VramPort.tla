------------------------------ MODULE VramPort ------------------------------
(***************************************************************************)
(* What a program sees of VRAM: the map in the comment of emulator/        *)
(* ppucore/vram.h, where every address is that of a cell or a mirror of    *)
(* one, with the two mirrors that vram.c adds to it: the tables 2 and 3 of *)
(* init_vram, and the sprites' backdrops.  A pointer moves over it.        *)
(***************************************************************************)
EXTENDS Naturals

CONSTANTS
    PATTERNS,               \* the pattern tables' addresses are below
    TABLE,                  \* the size of a name table with its attributes
    PALETTES, PALETTE,      \* where the palettes begin; the size of one
    BACKDROP_STEP,
    VRAM_SIZE, ADDR_SIZE, LINE_INC, Chr, Data

VARIABLES
    cell,
    pointer,
    step,
    primed,     \* the series of reads has begun
    read,       \* what the last access got: <<>> if it was a write
    failed

vars == <<pointer, step, primed, read, failed, cell>>

\* The mirrors of the map: 0x4000-0xFFFF, 0x3000-0x3EFF (four tables on) and
\* 0x3F20-0x3FFF.
Low(a) == a % VRAM_SIZE
InMap(a) == IF a >= PATTERNS /\ a < PALETTES THEN PATTERNS + ((a - PATTERNS) % (4 * TABLE))
            ELSE IF a >= PALETTES THEN PALETTES + (a % (2 * PALETTE))
            ELSE a

\* init_vram: tables 2 and 3 are tables 0 and 1.
Shared(a) == IF a >= PATTERNS + 2 * TABLE /\ a < PALETTES THEN a - 2 * TABLE ELSE a

\* Colours 0, 4, 8 and c of the sprites are those of the background.
Backdrop(a) == IF a >= PALETTES + PALETTE /\ a % BACKDROP_STEP = 0 THEN a - PALETTE ELSE a

Canonical(addr) == Backdrop(Shared(InMap(Low(addr))))

Cell == {Canonical(a) : a \in PATTERNS .. VRAM_SIZE - 1}

Init ==
    /\ cell = [c \in Cell |-> 0]
    /\ pointer = 0 /\ step = 1 /\ primed = FALSE /\ read = <<>> /\ failed = FALSE

Point ==
    /\ pointer' \in 0 .. ADDR_SIZE - 1
    /\ primed' = FALSE
    /\ UNCHANGED <<step, read, failed, cell>>

SetStep ==
    /\ step' \in {1, LINE_INC}
    /\ UNCHANGED <<pointer, primed, read, failed, cell>>

Move == pointer' = (pointer + step) % ADDR_SIZE

Write(d) ==
    /\ Move
    /\ read' = <<>>
    /\ UNCHANGED <<step, primed>>
    /\ IF Low(pointer) < PATTERNS
         THEN failed' = TRUE /\ UNCHANGED cell
         ELSE cell' = [cell EXCEPT ![Canonical(pointer)] = d] /\ UNCHANGED failed

Prime == ~primed /\ primed' = TRUE /\ read' = <<0>> /\ UNCHANGED <<pointer, step, failed, cell>>

Read ==
    /\ primed
    /\ Move
    /\ UNCHANGED <<step, primed, failed>>
    /\ read' = <<IF Low(pointer) < PATTERNS THEN Chr[Low(pointer)] ELSE cell[Canonical(pointer)]>>
    /\ UNCHANGED cell

Next == Point \/ SetStep \/ (\E d \in Data : Write(d)) \/ Prime \/ Read

Spec == Init /\ [][Next]_vars
=============================================================================
