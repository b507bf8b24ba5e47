----------------------------- MODULE PpuSprites -----------------------------
(***************************************************************************)
(* The scan with two history variables: sprite RAM as it was when the      *)
(* sprites of the current line were fetched, to say which sprite a dot     *)
(* ought to show; and whether a read of the status has reported this       *)
(* frame's vblank.                                                         *)
(***************************************************************************)
EXTENDS PpuScan

VARIABLES fetched, told

spriteVars == <<vars, fetched, told>>

HistoryInit == Init /\ fetched = sprite_ram /\ told = FALSE

\* A status read that reports vblank.
Tells == UNCHANGED scanVars /\ vblank /\ ~vblank'

HistoryNext ==
    /\ Next
    /\ fetched' = IF EndOfPictureLine /\ scanVars' # scanVars THEN sprite_ram ELSE fetched
    /\ told' = ((told \/ Tells) /\ ~(PictureStarts /\ scanVars' # scanVars))

HistorySpec == HistoryInit /\ [][HistoryNext]_spriteVars /\ WF_vars(ClockPpu)

-----------------------------------------------------------------------------
(* Properties. *)

\* A program that polls the status hears of a picture's end once: a read of it takes
\* vblank back until the next picture's end, however often and at whatever dots it is
\* read in the meantime, dots of the line on which vblank is set included.
VblankIsToldOnce == told => ~vblank

Drawn == Visible /\ scanVars' # scanVars

\* The sprites with a dot here, as they were when the line was fetched.
Here(back) ==
    {i \in Number : /\ fetched[i].back = back /\ fetched[i].solid
                    /\ InTile(fetched[i]) /\ Covers(fetched[i])}

\* The sprites that are fetched: the search goes down, and stops when the buffer is full.
Kept(i) ==
    Cardinality({k \in Number : k > i /\ InTile(fetched[k])}) < SPRITE_PREFETCH_CNT

KeptHere(back) == {i \in Here(back) : Kept(i)}

\* On every line but the first a dot shows the sprite with the lowest number among those
\* before the background that cover it and were kept, and none if there is none: although
\* sprites are fetched from the last to the first, searched from the end of the buffer,
\* and on a crowded line the first ones are left out.
TopmostIsShown ==
    [][Drawn /\ show_sprite /\ scan_y > 0 =>
         IF KeptHere(FALSE) # {}
           THEN dot' \in KeptHere(FALSE) /\ \A i \in KeptHere(FALSE) : dot' <= i
           ELSE dot' \in Number => dot' \in KeptHere(TRUE)]_spriteVars

\* load_sprite's comment, vscreen.c:208: "seek for the topmost sprite on this
\* spot (x, y)".  Whatever sprite is shown is one that is on the spot.
ShownIsHere == [][Drawn /\ dot' \in Number => dot' \in Here(TRUE) \cup Here(FALSE)]_spriteVars

\* load_background's comment, vscreen.c:141: "transparent bg color is read from
\* sprite 0x10 color".  With the background on and no sprite here, a dot is drawn.
BackgroundIsDrawn ==
    [][Drawn /\ show_bg /\ ~show_sprite => dot' # Old]_spriteVars
=============================================================================
