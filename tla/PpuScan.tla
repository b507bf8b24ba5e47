------------------------------ MODULE PpuScan ------------------------------
(***************************************************************************)
(* The PPU's scan (emulator/ppucore/ppucore.c): clock_ppu draws one dot    *)
(* per call, moves the beam, prefetches the sprites of the next line at    *)
(* the end of a line, and raises vblank and the NMI when the picture is    *)
(* done; which sprite a dot shows (emulator/ppucore/vscreen.c); and the    *)
(* CPU's accesses that race with it: sprite RAM, the two control registers *)
(* and the status register.                                                *)
(*                                                                         *)
(* Patterns and colours are abstracted: a sprite is solid or not, the      *)
(* background is opaque at a dot or not, and a dot shows a sprite, the     *)
(* background, the backdrop colour, or what was on the screen before.      *)
(***************************************************************************)
EXTENDS Integers, Sequences, FiniteSets

CONSTANTS
    HSCAN_MAX, VSCAN_MAX,           \* dots of a line, lines of a frame
    VSCREEN_WIDTH, VSCREEN_HEIGHT,  \* the visible ones
    TILE_DOT_SIZE,                  \* lines and dots of a sprite
    SPRITE_CNT,                     \* sprites in sprite RAM
    SPRITE_PREFETCH_CNT,            \* sprites of a line that can be shown
    Sprite,                         \* what an entry of sprite RAM can be
    Background, Backdrop, Old,      \* what a dot without a sprite can show
    NULL

ASSUME PpuScanAssumption ==
    /\ VSCREEN_WIDTH \in Nat \ {0} /\ VSCREEN_HEIGHT \in Nat \ {0}
    /\ HSCAN_MAX \in Nat /\ VSCAN_MAX \in Nat
    /\ VSCREEN_WIDTH < HSCAN_MAX /\ VSCREEN_HEIGHT < VSCAN_MAX
    /\ TILE_DOT_SIZE \in Nat \ {0}
    /\ SPRITE_CNT \in Nat \ {0} /\ SPRITE_PREFETCH_CNT \in Nat \ {0}
    /\ Sprite \subseteq [y : Nat, x : Nat, back : BOOLEAN, solid : BOOLEAN]
    /\ {NULL, Background, Backdrop, Old} \cap Nat = {}

VARIABLES
    scan_x, scan_y,
    vblank, sprite_overflow, sprite0_hit,   \* status_reg
    nmi_vblank,                             \* ctrl_reg1
    show_sprite, show_bg,                   \* ctrl_reg2
    sprite_ram,
    sprite_buf,     \* the prefetched sprites
    bg_sprite,      \* the last sprite dot was one behind the background
    set_data,       \* offset in vscreen of the dot drawn last
    dot,            \* what that dot shows
    nmi_pin

scanVars   == <<scan_x, scan_y>>
statusVars == <<vblank, sprite_overflow, sprite0_hit>>
ctrlVars   == <<nmi_vblank, show_sprite, show_bg>>
drawVars   == <<bg_sprite, set_data, dot>>
vars == <<scanVars, statusVars, ctrlVars, sprite_ram, sprite_buf, drawVars, nmi_pin>>

Number == 0 .. SPRITE_CNT - 1

Init ==
    /\ scan_x = 0 /\ scan_y = 0
    /\ vblank = FALSE /\ sprite_overflow = FALSE /\ sprite0_hit = FALSE
    /\ nmi_vblank = FALSE /\ show_sprite = FALSE /\ show_bg = FALSE
    /\ \E s \in Sprite : /\ s.y = 0 /\ s.x = 0 /\ ~s.back
                        /\ sprite_ram = [i \in Number |-> s]
    /\ sprite_buf = <<>>
    /\ bg_sprite = FALSE
    /\ set_data = NULL
    /\ dot = Old
    /\ nmi_pin = FALSE

-----------------------------------------------------------------------------
(* Prefetch. *)

\* Mutant of OnLine: one line early.
MutOnLine(s, line) == s.y <= line + 1 /\ line + 1 < s.y + TILE_DOT_SIZE

OnLine(s, line) == s.y <= line /\ line < s.y + TILE_DOT_SIZE

\* The sprites of ram that are on a line.
Hits(ram, line) == {i \in Number : OnLine(ram[i], line)}

\* The place at which hit i is found: the search goes down from the last sprite.
Place(i, hits) == Cardinality({j \in hits : j >= i})

Found(k, hits) == CHOOSE i \in hits : Place(i, hits) = k

\* Where the buffer ends: sprite_hit_cnt counts the hits that are left out, too.
Bottom(hits) ==
    IF Cardinality(hits) > SPRITE_PREFETCH_CNT THEN SPRITE_PREFETCH_CNT ELSE Cardinality(hits)

Entry(ram, i) ==
    [num |-> i, y |-> ram[i].y, x |-> ram[i].x, back |-> ram[i].back, solid |-> ram[i].solid]

\* sprite_prefetch1 and sprite_prefetch2: what the buffer holds then.
Prefetched(ram, line) ==
    LET hits == Hits(ram, line)
    IN  [k \in 1 .. Bottom(hits) |-> Entry(ram, Found(k, hits))]

SpritePrefetch(line) ==
    /\ sprite_buf' = Prefetched(sprite_ram, line)
    /\ sprite_overflow' = \/ sprite_overflow
                          \/ Cardinality(Hits(sprite_ram, line)) > SPRITE_PREFETCH_CNT

EndOfPictureLine == scan_x = HSCAN_MAX - 1 /\ scan_y < VSCREEN_HEIGHT

NextLine == IF scan_y = VSCAN_MAX - 1 THEN 0 ELSE scan_y + 1

ScanRecovery ==
    IF EndOfPictureLine
      THEN SpritePrefetch(NextLine)
      ELSE UNCHANGED <<sprite_buf, sprite_overflow>>

-----------------------------------------------------------------------------
(* One dot. *)

\* Mutant of Visible: a dot too many on every line.
MutVisible == scan_x <= VSCREEN_WIDTH /\ scan_y < VSCREEN_HEIGHT

Visible == scan_x < VSCREEN_WIDTH /\ scan_y < VSCREEN_HEIGHT

\* The sprite's row at this line is one of its pattern's.
InTile(s) == scan_y - s.y \in 0 .. TILE_DOT_SIZE - 1

Covers(s) == s.x <= scan_x /\ scan_x < s.x + TILE_DOT_SIZE

\* Whether the dot of a prefetched sprite has a colour; a row outside the pattern
\* is read from beyond it, where any value can be: wild are those that are not 0.
Opaque(k, wild) ==
    IF InTile(sprite_buf[k]) THEN sprite_buf[k].solid ELSE k \in wild

\* Mutant of Shown: the search goes up.
MutShown(back, wild) ==
    LET found == {k \in DOMAIN sprite_buf : /\ Covers(sprite_buf[k])
                                            /\ sprite_buf[k].back = back
                                            /\ Opaque(k, wild)}
    IN  IF found = {} THEN NULL
        ELSE sprite_buf[CHOOSE k \in found : \A l \in found : k <= l].num

\* load_sprite: the number of the sprite it draws on this dot, searched from the
\* end of the buffer.
Shown(back, wild) ==
    LET found == {k \in DOMAIN sprite_buf : /\ Covers(sprite_buf[k])
                                            /\ sprite_buf[k].back = back
                                            /\ Opaque(k, wild)}
    IN  IF found = {} THEN NULL
        ELSE sprite_buf[CHOOSE k \in found : \A l \in found : l <= k].num

\* The sprites behind, the background and the sprites before are drawn over
\* each other in this order.
DrawDot ==
    \E wild \in SUBSET DOMAIN sprite_buf, opaque \in BOOLEAN :
       LET behind == IF show_sprite THEN Shown(TRUE, wild) ELSE NULL
           before == IF show_sprite THEN Shown(FALSE, wild) ELSE NULL
       IN  /\ bg_sprite' = IF show_sprite THEN behind # NULL ELSE bg_sprite
           /\ sprite0_hit' = (behind = 0 \/ (sprite0_hit /\ scan_x # 0))
           /\ dot' = IF before # NULL THEN before
                     ELSE IF show_bg /\ opaque THEN Background
                     ELSE IF show_bg /\ ~bg_sprite' THEN Backdrop
                     ELSE IF behind # NULL THEN behind
                     ELSE Old

\* Mutant of PictureStarts: on the second line.
MutPictureStarts == scan_x = 0 /\ scan_y = 1

PictureStarts == scan_x = 0 /\ scan_y = 0

\* set_vscreen_pos
SetVscreenPos == set_data' = IF scan_x = 0 /\ scan_y = 0 THEN 0 ELSE set_data + 1

VisibleDot ==
    /\ Visible
    /\ SetVscreenPos
    /\ DrawDot
    /\ sprite_overflow' = (sprite_overflow /\ scan_x # 0)
    /\ vblank' = (vblank /\ ~PictureStarts)
    /\ UNCHANGED <<sprite_buf, nmi_pin>>

\* Mutant of PictureDone: at every dot of the line.
MutPictureDone == scan_y = VSCREEN_HEIGHT

PictureDone == scan_x = 0 /\ scan_y = VSCREEN_HEIGHT

BlankDot ==
    /\ ~Visible
    /\ ScanRecovery
    /\ vblank' = (vblank \/ PictureDone)
    /\ nmi_pin' = (nmi_pin \/ (PictureDone /\ nmi_vblank))
    /\ UNCHANGED <<sprite0_hit, drawVars>>

\* Mutant of MoveBeam: the frame is one line short.
MutMoveBeam ==
    /\ scan_x' = IF scan_x + 1 = HSCAN_MAX THEN 0 ELSE scan_x + 1
    /\ scan_y' = IF scan_x + 1 # HSCAN_MAX THEN scan_y
                 ELSE IF scan_y + 1 = VSCREEN_HEIGHT THEN 0 ELSE scan_y + 1

MoveBeam ==
    /\ scan_x' = IF scan_x + 1 = HSCAN_MAX THEN 0 ELSE scan_x + 1
    /\ scan_y' = IF scan_x + 1 # HSCAN_MAX THEN scan_y
                 ELSE IF scan_y + 1 = VSCAN_MAX THEN 0 ELSE scan_y + 1

ClockPpu == (VisibleDot \/ BlankDot) /\ MoveBeam /\ UNCHANGED <<ctrlVars, sprite_ram>>

-----------------------------------------------------------------------------
(* The CPU, between two dots. *)

\* One byte of an entry: its y, its pattern, its attributes or its x.
SpriteDataSet ==
    /\ \E i \in Number, s \in Sprite :
          /\ Cardinality({f \in DOMAIN s : s[f] # sprite_ram[i][f]}) = 1
          /\ sprite_ram' = [sprite_ram EXCEPT ![i] = s]
    /\ UNCHANGED <<scanVars, statusVars, ctrlVars, sprite_buf, drawVars, nmi_pin>>

Ctrl1Set ==
    /\ nmi_vblank' \in BOOLEAN
    /\ UNCHANGED <<scanVars, statusVars, show_sprite, show_bg, sprite_ram, sprite_buf,
                   drawVars, nmi_pin>>

Ctrl2Set ==
    /\ show_sprite' \in BOOLEAN /\ show_bg' \in BOOLEAN
    /\ UNCHANGED <<scanVars, statusVars, nmi_vblank, sprite_ram, sprite_buf, drawVars, nmi_pin>>

StatusGet ==
    /\ vblank' = FALSE
    /\ UNCHANGED <<scanVars, sprite_overflow, sprite0_hit, ctrlVars, sprite_ram, sprite_buf,
                   drawVars, nmi_pin>>

\* The CPU takes the interrupt.
NmiDeasserted ==
    /\ nmi_pin' = FALSE
    /\ UNCHANGED <<scanVars, statusVars, ctrlVars, sprite_ram, sprite_buf, drawVars>>

Next == ClockPpu \/ SpriteDataSet \/ Ctrl1Set \/ Ctrl2Set \/ StatusGet \/ NmiDeasserted

\* The clock calls the PPU every tick.
Spec == Init /\ [][Next]_vars /\ WF_vars(ClockPpu)

-----------------------------------------------------------------------------
(* Properties. *)

Buffered == [num : Number, y : Nat, x : Nat, back : BOOLEAN, solid : BOOLEAN]

TypeOK ==
    /\ scan_x \in 0 .. HSCAN_MAX - 1
    /\ scan_y \in 0 .. VSCAN_MAX - 1
    /\ vblank \in BOOLEAN /\ sprite_overflow \in BOOLEAN /\ sprite0_hit \in BOOLEAN
    /\ nmi_vblank \in BOOLEAN
    /\ show_sprite \in BOOLEAN /\ show_bg \in BOOLEAN
    /\ sprite_ram \in [Number -> Sprite]
    /\ sprite_buf \in Seq(Buffered) /\ Len(sprite_buf) <= SPRITE_PREFETCH_CNT
    /\ bg_sprite \in BOOLEAN
    /\ set_data \in 0 .. VSCREEN_WIDTH * VSCREEN_HEIGHT - 1 \cup {NULL}
    /\ dot \in Number \cup {Background, Backdrop, Old}
    /\ nmi_pin \in BOOLEAN

\* The pointer that only ever moves to the next dot of vscreen is always at the
\* dot the beam is at: over lines and frames it never slips or leaves vscreen.
DotIsPlaced ==
    [][Visible /\ scanVars' # scanVars =>
         set_data' = scan_y * VSCREEN_WIDTH + scan_x]_vars

\* A program never sees vblank while a picture is drawn, whenever it reads the
\* status (but at the first dot, before the PPU's next call takes it back).
VblankIsBlank ==
    vblank => scan_y >= VSCREEN_HEIGHT \/ (scan_x = 0 /\ scan_y = 0)

\* The sprites in the buffer are those of the line that is drawn, below the
\* first line, whatever the CPU did to sprite RAM since they were fetched.
LineIsBuffered ==
    scan_y \in 1 .. VSCREEN_HEIGHT - 1 =>
        \A k \in DOMAIN sprite_buf : InTile(sprite_buf[k])

\* With the NMI enabled the PPU goes on interrupting, frame after frame.
NmiEveryFrame == <>[]nmi_vblank => []<>nmi_pin
=============================================================================
