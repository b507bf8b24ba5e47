---------------------------- MODULE MCPpuSprites ----------------------------
(* A screen of 2 by 3 dots, with one blank dot a line and one blank line; *)
(* sprites of 2 by 2 dots.                                                *)
EXTENDS PpuSprites

At(y, x, back, solid) == [y |-> y, x |-> x, back |-> back, solid |-> solid]

\* Sprites that overlap or not, are transparent or behind, on the first lines or
\* across the end of the picture.  Each is a byte away from another; the first is
\* sprite RAM at the start.
MCSprite == {At(0, 0, FALSE, TRUE), At(0, 1, FALSE, TRUE), At(0, 0, TRUE, TRUE),
             At(0, 0, FALSE, FALSE), At(2, 0, FALSE, TRUE)}

\* Bound: interrupts are enabled, and taken, only while sprite RAM is as it was at
\* the start; they and the sprites have nothing in common but the beam.
Quiet == \A i \in Number : sprite_ram[i] = [sprite_ram[i] EXCEPT !.y = 0, !.x = 0, !.back = FALSE]

\* Bound: the last sprite stays on the first lines, that the others leave or crowd.
LastStays == sprite_ram'[SPRITE_CNT - 1] = sprite_ram[SPRITE_CNT - 1]

MCNext == HistoryNext /\ LastStays /\ (nmi_vblank' \/ nmi_pin' => Quiet')

MCSpec == HistoryInit /\ [][MCNext]_spriteVars /\ WF_vars(ClockPpu)

\* Sprites before the background, on the picture's lines and across its end.
FrontSprite == {At(y, 0, FALSE, TRUE) : y \in 0 .. 3}

\* Sprites that may be behind the background.
BackSprite == {At(0, 0, back, TRUE) : back \in BOOLEAN}
=============================================================================
