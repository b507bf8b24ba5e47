---------------------------- MODULE PpuScanProofs ----------------------------
(***************************************************************************)
(* For every size of the picture, of the frame, of the tiles, and for      *)
(* every number of sprites and of entries in the buffer: the pointer into  *)
(* vscreen is at the dot the beam is at; vblank is up only between two     *)
(* pictures, and is reported once in a frame; the buffer holds the sprites of the line that is drawn, and   *)
(* a dot shows the topmost of them.                                        *)
(***************************************************************************)
EXTENDS PpuSprites, FiniteSetTheorems, FunctionTheorems, SequenceTheorems,
        WellFoundedInduction, TLAPS

BeamInFrame == scan_x \in 0 .. HSCAN_MAX - 1 /\ scan_y \in 0 .. VSCAN_MAX - 1

AtStart == scan_x = 0 /\ scan_y = 0

\* How many dots of its line the beam has drawn.
Passed == IF scan_x < VSCREEN_WIDTH THEN scan_x ELSE VSCREEN_WIDTH

\* In a picture the pointer is at the dot before the beam's, which is the last one of
\* the line above at the line's first dot, and the last visible one in the blank.
PointerInv ==
    ~AtStart /\ scan_y < VSCREEN_HEIGHT => set_data = scan_y * VSCREEN_WIDTH + Passed - 1

RasterInv == BeamInFrame /\ PointerInv /\ vblank \in BOOLEAN /\ VblankIsBlank

-----------------------------------------------------------------------------

LEMMA Sizes ==
  /\ VSCREEN_WIDTH \in Nat /\ VSCREEN_WIDTH > 0 /\ VSCREEN_HEIGHT \in Nat /\ VSCREEN_HEIGHT > 0
  /\ HSCAN_MAX \in Nat /\ VSCAN_MAX \in Nat
  /\ VSCREEN_WIDTH < HSCAN_MAX /\ VSCREEN_HEIGHT < VSCAN_MAX
  BY PpuScanAssumption

\* A line further on is a line's width further on.
LEMMA NextRow ==
  ASSUME NEW y \in Nat, NEW w \in Nat
  PROVE  y * w \in Nat /\ (y + 1) * w = y * w + w
  OBVIOUS

LEMMA InitRaster == Init => RasterInv
<1> SUFFICES ASSUME Init PROVE RasterInv
  OBVIOUS
<1>1. scan_x = 0 /\ scan_y = 0 /\ vblank = FALSE
  BY DEF Init
<1>2. BeamInFrame
  BY <1>1, Sizes DEF BeamInFrame
<1> QED
  BY <1>1, <1>2 DEF RasterInv, PointerInv, AtStart, VblankIsBlank

LEMMA BeamMoves ==
  ASSUME BeamInFrame, MoveBeam
  PROVE  /\ BeamInFrame'
         /\ \/ scan_x' = scan_x + 1 /\ scan_y' = scan_y
            \/ scan_x = HSCAN_MAX - 1 /\ scan_x' = 0 /\ scan_y' = scan_y + 1
            \/ scan_x = HSCAN_MAX - 1 /\ scan_y = VSCAN_MAX - 1 /\ scan_x' = 0 /\ scan_y' = 0
  BY Sizes DEF BeamInFrame, MoveBeam

\* The beam leaves a visible dot for the next one of its line, or for its blank.
LEMMA LeaveVisible ==
  ASSUME BeamInFrame, MoveBeam, Visible
  PROVE  scan_x' = scan_x + 1 /\ scan_y' = scan_y /\ Passed' = scan_x + 1
  BY Sizes, BeamMoves DEF BeamInFrame, Visible, Passed

LEMMA VisibleKeeps ==
  ASSUME RasterInv, VisibleDot, MoveBeam
  PROVE  RasterInv'
<1>1. BeamInFrame' /\ scan_x' = scan_x + 1 /\ scan_y' = scan_y /\ Passed' = scan_x + 1
  BY BeamMoves, LeaveVisible DEF RasterInv, VisibleDot
<1>2. scan_x \in Nat /\ scan_y \in Nat /\ scan_x < VSCREEN_WIDTH /\ scan_y < VSCREEN_HEIGHT
  BY Sizes DEF RasterInv, BeamInFrame, VisibleDot, Visible
<1>3. PointerInv'
  <2>1. scan_y * VSCREEN_WIDTH \in Nat
    BY <1>2, Sizes, NextRow
  <2>2. CASE AtStart
    <3>1. set_data' = 0 /\ scan_y * VSCREEN_WIDTH = 0
      BY <2>2, Sizes DEF AtStart, VisibleDot, SetVscreenPos
    <3> QED
      BY <1>1, <2>2, <3>1 DEF PointerInv, AtStart
  <2>3. CASE ~AtStart
    <3>1. set_data' = set_data + 1
      BY <2>3 DEF AtStart, VisibleDot, SetVscreenPos
    <3>2. set_data = scan_y * VSCREEN_WIDTH + scan_x - 1
      BY <1>2, <2>3 DEF RasterInv, PointerInv, Passed
    <3>3. set_data' = scan_y' * VSCREEN_WIDTH + Passed' - 1
      BY <1>1, <1>2, <2>1, <3>1, <3>2
    <3> QED
      BY <3>3 DEF PointerInv
  <2> QED
    BY <2>2, <2>3
<1>4. vblank' = FALSE
  <2>1. vblank => AtStart
    BY <1>2, Sizes DEF RasterInv, VblankIsBlank, AtStart
  <2>2. vblank' = (vblank /\ ~AtStart)
    BY DEF VisibleDot, PictureStarts, AtStart
  <2> QED
    BY <2>1, <2>2
<1> QED
  BY <1>1, <1>3, <1>4 DEF RasterInv, VblankIsBlank

LEMMA BlankKeeps ==
  ASSUME RasterInv, BlankDot, MoveBeam
  PROVE  RasterInv'
<1>1. /\ BeamInFrame /\ BeamInFrame' /\ set_data' = set_data
      /\ scan_x \in Nat /\ scan_y \in Nat
      /\ scan_x >= VSCREEN_WIDTH \/ scan_y >= VSCREEN_HEIGHT
  BY Sizes, BeamMoves DEF RasterInv, BeamInFrame, BlankDot, Visible, drawVars
<1>2. scan_y * VSCREEN_WIDTH \in Nat /\ (scan_y + 1) * VSCREEN_WIDTH = scan_y * VSCREEN_WIDTH + VSCREEN_WIDTH
  BY <1>1, Sizes, NextRow
<1>3. PointerInv'
  <2>1. SUFFICES ASSUME ~AtStart', scan_y' < VSCREEN_HEIGHT
                 PROVE  set_data' = scan_y' * VSCREEN_WIDTH + Passed' - 1
    BY DEF PointerInv
  <2>2. scan_y < VSCREEN_HEIGHT /\ scan_x >= VSCREEN_WIDTH
    BY <1>1, <2>1, Sizes, BeamMoves DEF AtStart
  <2>3. set_data = scan_y * VSCREEN_WIDTH + VSCREEN_WIDTH - 1
    BY <1>1, <2>2, Sizes DEF RasterInv, PointerInv, AtStart, Passed
  <2>4. CASE scan_x' = scan_x + 1 /\ scan_y' = scan_y
    <3>1. Passed' = VSCREEN_WIDTH
      BY <1>1, <2>2, <2>4, Sizes DEF Passed
    <3> QED
      BY <1>1, <2>3, <2>4, <3>1
  <2>5. CASE scan_x' = 0 /\ scan_y' = scan_y + 1
    <3>1. Passed' = 0
      BY <2>5, Sizes DEF Passed
    <3> QED
      BY <1>1, <1>2, <2>3, <2>5, <3>1, Sizes
  <2> QED
    BY <1>1, <2>1, <2>4, <2>5, BeamMoves DEF AtStart
<1>4. vblank' \in BOOLEAN /\ VblankIsBlank'
  <2>1. CASE scan_y < VSCREEN_HEIGHT
    <3>1. vblank' = FALSE
      BY <1>1, <2>1, Sizes DEF RasterInv, VblankIsBlank, BlankDot, PictureDone
    <3> QED
      BY <3>1 DEF VblankIsBlank
  <2>2. CASE ~(scan_y < VSCREEN_HEIGHT)
    <3>1. scan_y' >= VSCREEN_HEIGHT \/ (scan_x' = 0 /\ scan_y' = 0)
      BY <1>1, <2>2, Sizes, BeamMoves
    <3>2. vblank' \in BOOLEAN
      BY DEF RasterInv, BlankDot
    <3> QED
      BY <3>1, <3>2 DEF VblankIsBlank
  <2> QED
    BY <2>1, <2>2
<1> QED
  BY <1>1, <1>3, <1>4 DEF RasterInv

\* What the CPU does moves neither the beam nor the pointer, and can only take vblank back.
LEMMA CpuKeeps ==
  ASSUME RasterInv, UNCHANGED scanVars, UNCHANGED set_data, vblank' = vblank \/ vblank' = FALSE
  PROVE  RasterInv'
<1>1. scan_x' = scan_x /\ scan_y' = scan_y
  BY DEF scanVars
<1>2. BeamInFrame' /\ PointerInv'
  BY <1>1 DEF RasterInv, BeamInFrame, PointerInv, AtStart, Passed
<1>3. CASE vblank' = vblank
  BY <1>1, <1>2, <1>3 DEF RasterInv, VblankIsBlank
<1>4. CASE vblank' = FALSE
  <2>1. VblankIsBlank' /\ vblank' \in BOOLEAN
    BY <1>4 DEF VblankIsBlank
  <2> QED
    BY <1>2, <2>1 DEF RasterInv
<1> QED
  BY <1>3, <1>4

LEMMA RasterStep == RasterInv /\ [Next]_vars => RasterInv'
<1> SUFFICES ASSUME RasterInv, [Next]_vars PROVE RasterInv'
  OBVIOUS
<1>1. CASE ClockPpu
  BY <1>1, VisibleKeeps, BlankKeeps DEF ClockPpu
<1>2. CASE SpriteDataSet
  BY <1>2, CpuKeeps DEF SpriteDataSet, statusVars, drawVars
<1>3. CASE Ctrl1Set
  BY <1>3, CpuKeeps DEF Ctrl1Set, statusVars, drawVars
<1>4. CASE Ctrl2Set
  BY <1>4, CpuKeeps DEF Ctrl2Set, statusVars, drawVars
<1>5. CASE StatusGet
  BY <1>5, CpuKeeps DEF StatusGet, drawVars
<1>6. CASE NmiDeasserted
  BY <1>6, CpuKeeps DEF NmiDeasserted, statusVars, drawVars
<1>7. CASE UNCHANGED vars
  BY <1>7, CpuKeeps DEF vars, statusVars, drawVars
<1> QED
  BY <1>1, <1>2, <1>3, <1>4, <1>5, <1>6, <1>7 DEF Next

LEMMA Raster == Spec => []RasterInv
  BY InitRaster, RasterStep, PTL DEF Spec

-----------------------------------------------------------------------------

\* A program sees vblank only when no picture is drawn (ppu_status_get reads what
\* clock_ppu and earlier reads have left), for every size of the frame and whenever
\* the CPU reads, writes and takes its interrupts.
THEOREM VblankBetweenPictures == Spec => []VblankIsBlank
<1>1. RasterInv => VblankIsBlank
  BY DEF RasterInv
<1> QED
  BY <1>1, Raster, PTL

LEMMA PlacedStep ==
  ASSUME RasterInv, [Next]_vars, Visible, scanVars' # scanVars
  PROVE  set_data' = scan_y * VSCREEN_WIDTH + scan_x
<1>1. VisibleDot
  BY DEF Next, ClockPpu, BlankDot, SpriteDataSet, Ctrl1Set, Ctrl2Set, StatusGet, NmiDeasserted,
         vars, scanVars
<1>2. scan_x \in Nat /\ scan_y \in Nat /\ scan_x < VSCREEN_WIDTH /\ scan_y < VSCREEN_HEIGHT
  BY Sizes DEF RasterInv, BeamInFrame, Visible
<1>3. scan_y * VSCREEN_WIDTH \in Nat
  BY <1>2, Sizes, NextRow
<1>4. CASE AtStart
  <2>1. set_data' = 0 /\ scan_y * VSCREEN_WIDTH = 0
    BY <1>1, <1>4, Sizes DEF AtStart, VisibleDot, SetVscreenPos
  <2> QED
    BY <1>4, <2>1 DEF AtStart
<1>5. CASE ~AtStart
  <2>1. set_data' = set_data + 1
    BY <1>1, <1>5 DEF AtStart, VisibleDot, SetVscreenPos
  <2>2. set_data = scan_y * VSCREEN_WIDTH + scan_x - 1
    BY <1>2, <1>5 DEF RasterInv, PointerInv, Passed
  <2> QED
    BY <1>2, <1>3, <2>1, <2>2
<1> QED
  BY <1>4, <1>5

\* set_vscreen_pos, that only ever increments its pointer, puts the dot at the beam's
\* place in vscreen: the frame's lines and blanks never make it slip.
THEOREM DotsArePlaced == Spec => DotIsPlaced
<1>1. RasterInv /\ [Next]_vars
        => [Visible /\ scanVars' # scanVars =>
              set_data' = scan_y * VSCREEN_WIDTH + scan_x]_vars
  BY PlacedStep
<1> QED
  BY <1>1, Raster, PTL DEF Spec, DotIsPlaced

-----------------------------------------------------------------------------
(* The search for the sprites of a line: the places of the hits count down their numbers. *)

\* Among naturals that are not above n there is a highest one.
LEMMA HasHighest ==
  ASSUME NEW n \in Nat, NEW T \in SUBSET (0 .. n), T # {}
  PROVE  \E x \in T : \A y \in T : y <= x
<1> DEFINE less == {ss \in Nat \X Nat : ss[1] < ss[2]}
           U    == {i \in Nat : n - i \in T}
<1>1. IsWellFoundedOn(less, Nat)
  BY NatLessThanWellFounded DEF OpToRel
<1>2. PICK t \in T : TRUE
  OBVIOUS
<1>3. n - t \in U
  <2>1. t \in Nat /\ t <= n
    BY <1>2
  <2>2. n - t \in Nat /\ n - (n - t) = t
    BY <2>1
  <2> QED
    BY <1>2, <2>2
<1>4. PICK u \in U : \A v \in U : ~(<<v, u>> \in less)
  <2>1. U # {} /\ U \subseteq Nat
    BY <1>3
  <2> HIDE DEF less, U
  <2> QED
    BY <1>1, <2>1, WFMin
<1>5. n - u \in T
  BY <1>4
<1>6. ASSUME NEW y \in T PROVE y <= n - u
  <2>1. y \in Nat /\ y <= n /\ n - y \in Nat /\ n - (n - y) = y
    BY <1>6
  <2>2. n - y \in U
    BY <1>6, <2>1
  <2>3. ~(n - y < u)
    BY <1>4, <2>1, <2>2
  <2>4. u \in Nat
    BY <1>4
  <2> QED
    BY <2>1, <2>3, <2>4
<1> QED
  BY <1>5, <1>6

LEMMA NumbersFinite == Number \subseteq Nat /\ \A S \in SUBSET Number : IsFiniteSet(S) /\ Cardinality(S) \in Nat
<1>1. Number \subseteq Nat /\ IsFiniteSet(Number)
  BY PpuScanAssumption, FS_Interval DEF Number
<1> QED
  BY <1>1, FS_Subset, FS_CardinalityType

\* The place of a hit is one of the first Cardinality(hits), and a higher number comes earlier.
LEMMA PlaceOrder ==
  ASSUME NEW hits \in SUBSET Number
  PROVE  /\ \A i \in hits : Place(i, hits) \in 1 .. Cardinality(hits)
         /\ \A i, j \in hits : i < j => Place(j, hits) < Place(i, hits)
         /\ \A i \in hits : Place(i, hits) = Cardinality({j \in hits : j > i}) + 1
<1> DEFINE from(i) == {j \in hits : j >= i}
           above(i) == {j \in hits : j > i}
<1>1. /\ hits \subseteq Nat /\ IsFiniteSet(hits) /\ Cardinality(hits) \in Nat
      /\ \A i : IsFiniteSet(from(i)) /\ Cardinality(from(i)) \in Nat
      /\ \A i : IsFiniteSet(above(i)) /\ Cardinality(above(i)) \in Nat
  BY NumbersFinite
<1>2. ASSUME NEW i \in hits PROVE Cardinality(from(i)) = Cardinality(above(i)) + 1
  <2>1. from(i) = above(i) \cup {i} /\ i \notin above(i)
    <3>1. i \in Nat /\ \A j \in hits : j \in Nat
      BY <1>1
    <3>2. \A j \in hits : j >= i <=> j > i \/ j = i
      BY <3>1
    <3>3. ~(i > i)
      BY <3>1
    <3> QED
      BY <1>2, <3>2, <3>3
  <2> HIDE DEF from, above
  <2> QED
    BY <1>1, <2>1, FS_AddElement
<1>3. ASSUME NEW i \in hits PROVE Cardinality(from(i)) <= Cardinality(hits)
  BY <1>1, FS_Subset
<1>4. ASSUME NEW i \in hits, NEW j \in hits, i < j
      PROVE  Cardinality(from(j)) < Cardinality(from(i))
  <2>1. from(j) \subseteq above(i)
    <3>1. i \in Nat /\ j \in Nat /\ \A l \in hits : l \in Nat
      BY <1>1
    <3>2. \A l \in hits : l >= j => l > i
      BY <1>4, <3>1
    <3> QED
      BY <3>2
  <2>2. Cardinality(from(j)) <= Cardinality(above(i))
    BY <1>1, <2>1, FS_Subset
  <2> HIDE DEF from, above
  <2> QED
    BY <1>1, <1>2, <2>2
<1>5. \A i : Place(i, hits) = Cardinality(from(i))
  BY DEF Place
<1> HIDE DEF from
<1>6. ASSUME NEW i \in hits PROVE Place(i, hits) \in 1 .. Cardinality(hits)
  <2>1. Place(i, hits) = Cardinality(above(i)) + 1 /\ Cardinality(above(i)) \in Nat
    BY <1>1, <1>2, <1>5
  <2>2. Place(i, hits) <= Cardinality(hits)
    BY <1>3, <1>5
  <2> HIDE DEF above
  <2> QED
    BY <1>1, <2>1, <2>2
<1> QED
  BY <1>2, <1>4, <1>5, <1>6

\* Every place has its hit, and no other.
LEMMA FoundAt ==
  ASSUME NEW hits \in SUBSET Number
  PROVE  /\ \A k \in 1 .. Cardinality(hits) : Found(k, hits) \in hits /\ Place(Found(k, hits), hits) = k
         /\ \A i \in hits : Found(Place(i, hits), hits) = i
<1>1. hits \subseteq Nat /\ IsFiniteSet(hits) /\ Cardinality(hits) \in Nat
  BY NumbersFinite
<1> DEFINE n == Cardinality(hits)
           place == [i \in hits |-> Place(i, hits)]
<1>2. ASSUME NEW i \in hits, NEW j \in hits, Place(i, hits) = Place(j, hits) PROVE i = j
  <2>1. i \in Nat /\ j \in Nat
    BY <1>1
  <2>2. Place(i, hits) \in 1 .. n /\ Place(j, hits) \in 1 .. n /\ n \in Nat
    BY <1>1, PlaceOrder
  <2>3. ~(i < j) /\ ~(j < i)
    BY <1>2, <2>2, PlaceOrder
  <2> QED
    BY <2>1, <2>3
<1>3. place \in Injection(hits, 1 .. n)
  BY <1>2, PlaceOrder DEF Injection, IsInjective
<1>4. IsFiniteSet(1 .. n) /\ Cardinality(1 .. n) = n
  BY <1>1, FS_Interval
<1>5. place \in Surjection(hits, 1 .. n)
  <2> HIDE DEF place
  <2> QED
    BY <1>1, <1>3, <1>4, FS_Injection
<1>6. \A k \in 1 .. n : \E i \in hits : Place(i, hits) = k
  BY <1>5 DEF Surjection
<1>7. \A k \in 1 .. n : Found(k, hits) \in hits /\ Place(Found(k, hits), hits) = k
  BY <1>6 DEF Found
<1>8. ASSUME NEW i \in hits PROVE Found(Place(i, hits), hits) = i
  <2>1. Place(i, hits) \in 1 .. n
    BY PlaceOrder
  <2> QED
    BY <1>2, <1>7, <2>1
<1> QED
  BY <1>7, <1>8

\* What is fetched for a line: entries of sprites on it, from the highest number down.
LEMMA PrefetchedIs ==
  ASSUME NEW ram \in [Number -> Sprite], NEW line,
         NEW hits, hits = Hits(ram, line),
         NEW buf, buf = Prefetched(ram, line)
  PROVE  /\ hits \in SUBSET Number
         /\ Bottom(hits) \in Nat /\ Bottom(hits) <= SPRITE_PREFETCH_CNT
         /\ Bottom(hits) <= Cardinality(hits)
         /\ buf \in Seq(Buffered) /\ Len(buf) = Bottom(hits) /\ DOMAIN buf = 1 .. Bottom(hits)
         /\ \A k \in DOMAIN buf : /\ Found(k, hits) \in hits
                                  /\ buf[k] = Entry(ram, Found(k, hits))
                                  /\ OnLine(buf[k], line)
<1>1. hits \in SUBSET Number /\ Cardinality(hits) \in Nat /\ \A i \in hits : OnLine(ram[i], line)
  <2>1. hits \in SUBSET Number /\ \A i \in hits : OnLine(ram[i], line)
    BY DEF Hits
  <2> QED
    BY <2>1, NumbersFinite
<1>2. /\ Bottom(hits) \in Nat /\ Bottom(hits) <= SPRITE_PREFETCH_CNT
      /\ Bottom(hits) <= Cardinality(hits)
  BY <1>1, PpuScanAssumption DEF Bottom
<1>3. buf = [k \in 1 .. Bottom(hits) |-> Entry(ram, Found(k, hits))]
  BY DEF Prefetched
<1>4. \A k \in 1 .. Bottom(hits) : Found(k, hits) \in hits
  <2>1. \A k \in 1 .. Bottom(hits) : k \in 1 .. Cardinality(hits)
    BY <1>1, <1>2
  <2> QED
    BY <1>1, <2>1, FoundAt
<1>5. ASSUME NEW i \in Number PROVE Entry(ram, i) \in Buffered
  <2>1. ram[i] \in [y : Nat, x : Nat, back : BOOLEAN, solid : BOOLEAN]
    BY PpuScanAssumption
  <2> QED
    BY <2>1 DEF Entry, Buffered
<1>6. buf \in Seq(Buffered) /\ Len(buf) = Bottom(hits) /\ DOMAIN buf = 1 .. Bottom(hits)
  <2>1. buf \in [1 .. Bottom(hits) -> Buffered]
    BY <1>1, <1>3, <1>4, <1>5
  <2>2. buf \in Seq(Buffered)
    BY <1>2, <2>1, SeqDef
  <2> QED
    BY <1>2, <2>1, <2>2, LenProperties
<1>7. ASSUME NEW k \in 1 .. Bottom(hits)
      PROVE  /\ Found(k, hits) \in hits
             /\ buf[k] = Entry(ram, Found(k, hits))
             /\ OnLine(buf[k], line)
  <2>1. Found(k, hits) \in hits /\ OnLine(ram[Found(k, hits)], line)
    BY <1>1, <1>4
  <2>2. buf[k] = Entry(ram, Found(k, hits)) /\ buf[k].y = ram[Found(k, hits)].y
    BY <1>3 DEF Entry
  <2> QED
    BY <2>1, <2>2 DEF OnLine
<1> QED
  BY <1>1, <1>2, <1>6, <1>7

\* The buffer is filled when the beam leaves a line of the picture, for the line it moves
\* to, and nothing else changes it.
LEMMA LineStep ==
  ASSUME RasterInv, [Next]_vars
  PROVE  \/ /\ EndOfPictureLine /\ scanVars' # scanVars /\ scan_y' = scan_y + 1
            /\ sprite_buf' = Prefetched(sprite_ram, scan_y')
         \/ /\ ~(EndOfPictureLine /\ scanVars' # scanVars)
            /\ sprite_buf' = sprite_buf
            /\ scan_y' = scan_y \/ scan_y' = 0 \/ scan_y' > VSCREEN_HEIGHT
<1>1. /\ BeamInFrame /\ scan_x \in Nat /\ scan_y \in Nat
      /\ scan_x <= HSCAN_MAX - 1 /\ scan_y <= VSCAN_MAX - 1
  BY Sizes DEF RasterInv, BeamInFrame
<1>2. CASE VisibleDot /\ MoveBeam
  <2>1. sprite_buf' = sprite_buf /\ scan_y' = scan_y
    BY <1>1, <1>2, LeaveVisible DEF VisibleDot
  <2>2. ~EndOfPictureLine
    BY <1>1, <1>2, Sizes DEF VisibleDot, Visible, EndOfPictureLine
  <2> QED
    BY <2>1, <2>2
<1>3. CASE BlankDot /\ MoveBeam
  <2>1. CASE EndOfPictureLine
    <3>1. NextLine = scan_y + 1 /\ scan_y' = scan_y + 1
      BY <1>1, <1>3, <2>1, Sizes DEF EndOfPictureLine, NextLine, MoveBeam
    <3>2. sprite_buf' = Prefetched(sprite_ram, NextLine)
      BY <1>3, <2>1 DEF BlankDot, ScanRecovery, SpritePrefetch
    <3>3. scanVars' # scanVars
      BY <1>1, <3>1 DEF scanVars
    <3> QED
      BY <2>1, <3>1, <3>2, <3>3
  <2>2. CASE ~EndOfPictureLine
    <3>1. sprite_buf' = sprite_buf
      BY <1>3, <2>2 DEF BlankDot, ScanRecovery
    <3>2. scan_y' = scan_y \/ scan_y' = 0 \/ scan_y' > VSCREEN_HEIGHT
      BY <1>1, <1>3, <2>2, Sizes, BeamMoves DEF EndOfPictureLine
    <3> QED
      BY <2>2, <3>1, <3>2
  <2> QED
    BY <2>1, <2>2
<1>4. CASE UNCHANGED scanVars /\ UNCHANGED sprite_buf
  BY <1>4 DEF scanVars
<1>5. \/ ClockPpu
      \/ UNCHANGED scanVars /\ UNCHANGED sprite_buf
  BY DEF Next, SpriteDataSet, Ctrl1Set, Ctrl2Set, StatusGet, NmiDeasserted, vars
<1> QED
  BY <1>2, <1>3, <1>4, <1>5 DEF ClockPpu

\* The row of a sprite on the beam's line is one of its pattern's.
LEMMA RowInTile ==
  ASSUME scan_y \in Nat, NEW s, s.y \in Nat
  PROVE  OnLine(s, scan_y) <=> InTile(s)
  BY PpuScanAssumption DEF OnLine, InTile

LEMMA BufferAt ==
  ASSUME NEW buf \in Seq(Buffered), NEW k \in DOMAIN buf
  PROVE  /\ buf[k] \in Buffered /\ k \in 1 .. Len(buf) /\ Len(buf) \in Nat
         /\ buf[k].num \in Number /\ buf[k].y \in Nat /\ buf[k].solid \in BOOLEAN
<1>1. buf[k] \in Buffered /\ k \in 1 .. Len(buf) /\ Len(buf) \in Nat
  BY LenProperties, ElementOfSeq
<1> QED
  BY <1>1 DEF Buffered

-----------------------------------------------------------------------------

\* sprite RAM and the buffer, by their types; which sprites the buffer holds.
BufferInv ==
    /\ sprite_ram \in [Number -> Sprite]
    /\ sprite_buf \in Seq(Buffered) /\ Len(sprite_buf) <= SPRITE_PREFETCH_CNT
    /\ scan_y \in 1 .. VSCREEN_HEIGHT => \A k \in DOMAIN sprite_buf : InTile(sprite_buf[k])

LEMMA RamStep ==
  ASSUME sprite_ram \in [Number -> Sprite], [Next]_vars
  PROVE  sprite_ram' \in [Number -> Sprite]
<1>1. CASE SpriteDataSet
  <2>1. PICK i \in Number, s \in Sprite : sprite_ram' = [sprite_ram EXCEPT ![i] = s]
    BY <1>1 DEF SpriteDataSet
  <2> QED
    BY <2>1
<1>2. CASE UNCHANGED sprite_ram
  BY <1>2
<1>3. SpriteDataSet \/ UNCHANGED sprite_ram
  BY DEF Next, ClockPpu, Ctrl1Set, Ctrl2Set, StatusGet, NmiDeasserted, vars
<1> QED
  BY <1>1, <1>2, <1>3

LEMMA InitBuffer == Init => BufferInv
<1> SUFFICES ASSUME Init PROVE BufferInv
  OBVIOUS
<1>1. sprite_ram \in [Number -> Sprite]
  BY DEF Init
<1>2. sprite_buf = <<>> /\ scan_y = 0
  BY DEF Init
<1>3. <<>> \in Seq(Buffered) /\ Len(<<>>) = 0
  OBVIOUS
<1> QED
  BY <1>1, <1>2, <1>3, PpuScanAssumption DEF BufferInv

LEMMA BufferStep ==
  ASSUME RasterInv, RasterInv', BufferInv, [Next]_vars
  PROVE  BufferInv'
<1>1. sprite_ram \in [Number -> Sprite] /\ sprite_ram' \in [Number -> Sprite]
  BY RamStep DEF BufferInv
<1>2. scan_y \in Nat /\ scan_y' \in Nat
  BY Sizes DEF RasterInv, BeamInFrame
<1>3. CASE sprite_buf' = Prefetched(sprite_ram, scan_y')
  <2> DEFINE hits == Hits(sprite_ram, scan_y')
  <2>1. /\ sprite_buf' \in Seq(Buffered) /\ Len(sprite_buf') <= SPRITE_PREFETCH_CNT
        /\ \A k \in DOMAIN sprite_buf' : OnLine(sprite_buf'[k], scan_y')
    <3>1. /\ sprite_buf' \in Seq(Buffered) /\ Len(sprite_buf') = Bottom(hits)
          /\ Bottom(hits) <= SPRITE_PREFETCH_CNT
          /\ \A k \in DOMAIN sprite_buf' : OnLine(sprite_buf'[k], scan_y')
      BY <1>1, <1>3, PrefetchedIs
    <3> QED
      BY <3>1
  <2>2. ASSUME NEW k \in DOMAIN sprite_buf' PROVE InTile(sprite_buf[k])'
    <3>1. sprite_buf'[k].y \in Nat
      BY <2>1, BufferAt
    <3> QED
      BY <1>2, <2>1, <3>1, PpuScanAssumption DEF OnLine, InTile
  <2> QED
    BY <1>1, <2>1, <2>2 DEF BufferInv
<1>4. CASE /\ sprite_buf' = sprite_buf
           /\ scan_y' = scan_y \/ scan_y' = 0 \/ scan_y' > VSCREEN_HEIGHT
  <2>1. scan_y' \in 1 .. VSCREEN_HEIGHT => scan_y' = scan_y
    BY <1>2, <1>4, Sizes
  <2>2. ASSUME scan_y' \in 1 .. VSCREEN_HEIGHT, NEW k \in DOMAIN sprite_buf' PROVE InTile(sprite_buf[k])'
    <3>1. InTile(sprite_buf[k])
      BY <1>4, <2>1, <2>2 DEF BufferInv
    <3> QED
      BY <1>4, <2>1, <2>2, <3>1 DEF InTile
  <2> QED
    BY <1>1, <1>4, <2>2 DEF BufferInv
<1> QED
  BY <1>3, <1>4, LineStep

\* While a line below the first is drawn, the buffer holds sprites of that line
\* (sprite_prefetch1 at the end of the line above), whatever the CPU stores into sprite RAM.
THEOREM LineInBuffer == Spec => []LineIsBuffered
<1>1. RasterInv /\ RasterInv' /\ BufferInv /\ [Next]_vars => BufferInv'
  BY BufferStep
<1>2. RasterInv /\ BufferInv => LineIsBuffered
  BY Sizes DEF RasterInv, BeamInFrame, BufferInv, LineIsBuffered
<1> QED
  BY <1>1, <1>2, InitBuffer, Raster, PTL DEF Spec

-----------------------------------------------------------------------------
(* What a dot shows. *)

Solid(back, wild) ==
    {k \in DOMAIN sprite_buf : /\ Covers(sprite_buf[k])
                               /\ sprite_buf[k].back = back
                               /\ Opaque(k, wild)}

\* load_sprite shows the last one of the buffer that has a dot here.
LEMMA ShownIs ==
  ASSUME sprite_buf \in Seq(Buffered), NEW back, NEW wild
  PROVE  /\ Solid(back, wild) = {} => Shown(back, wild) = NULL
         /\ Solid(back, wild) # {} =>
              \E k \in Solid(back, wild) : /\ Shown(back, wild) = sprite_buf[k].num
                                           /\ \A l \in Solid(back, wild) : l <= k
<1>1. Shown(back, wild) =
        IF Solid(back, wild) = {} THEN NULL
        ELSE sprite_buf[CHOOSE k \in Solid(back, wild) : \A l \in Solid(back, wild) : l <= k].num
  BY DEF Shown, Solid
<1>2. ASSUME Solid(back, wild) # {}
      PROVE  \E k \in Solid(back, wild) : \A l \in Solid(back, wild) : l <= k
  <2>1. Len(sprite_buf) \in Nat /\ DOMAIN sprite_buf = 1 .. Len(sprite_buf)
    BY LenProperties
  <2>2. Solid(back, wild) \in SUBSET (0 .. Len(sprite_buf))
    BY <2>1 DEF Solid
  <2> QED
    BY <1>2, <2>1, <2>2, HasHighest
<1> QED
  BY <1>1, <1>2

LEMMA NumbersOnly ==
  /\ Number \subseteq Nat
  /\ NULL \notin Number /\ Background \notin Number /\ Backdrop \notin Number /\ Old \notin Number
<1>1. Number \subseteq Nat
  BY NumbersFinite
<1> QED
  BY <1>1, PpuScanAssumption

LEMMA ShownNumber ==
  ASSUME sprite_buf \in Seq(Buffered), NEW back, NEW wild
  PROVE  Shown(back, wild) \in Number \cup {NULL}
<1>1. \A k \in Solid(back, wild) : sprite_buf[k].num \in Number
  BY BufferAt DEF Solid
<1> QED
  BY <1>1, ShownIs

\* The types of the rest.
DrawInv ==
    /\ sprite_overflow \in BOOLEAN /\ sprite0_hit \in BOOLEAN
    /\ nmi_vblank \in BOOLEAN
    /\ show_sprite \in BOOLEAN /\ show_bg \in BOOLEAN
    /\ bg_sprite \in BOOLEAN
    /\ set_data \in 0 .. VSCREEN_WIDTH * VSCREEN_HEIGHT - 1 \cup {NULL}
    /\ dot \in Number \cup {Background, Backdrop, Old}
    /\ nmi_pin \in BOOLEAN

\* A dot of the picture is one of vscreen's.
LEMMA DotInVscreen ==
  ASSUME NEW x \in Nat, NEW y \in Nat, x < VSCREEN_WIDTH, y < VSCREEN_HEIGHT
  PROVE  y * VSCREEN_WIDTH + x \in 0 .. VSCREEN_WIDTH * VSCREEN_HEIGHT - 1
<1> DEFINE rest == VSCREEN_HEIGHT - 1 - y
<1>1. rest \in Nat /\ VSCREEN_HEIGHT = y + 1 + rest
  BY Sizes
<1> HIDE DEF rest
<1>2. VSCREEN_WIDTH * VSCREEN_HEIGHT = y * VSCREEN_WIDTH + VSCREEN_WIDTH + rest * VSCREEN_WIDTH
  BY <1>1, Sizes
<1>3. y * VSCREEN_WIDTH \in Nat /\ rest * VSCREEN_WIDTH \in Nat
  BY <1>1, Sizes, NextRow
<1> DEFINE above == y * VSCREEN_WIDTH
           below == rest * VSCREEN_WIDTH
<1>4. above \in Nat /\ below \in Nat /\ VSCREEN_WIDTH * VSCREEN_HEIGHT = above + VSCREEN_WIDTH + below
  BY <1>2, <1>3
<1> HIDE DEF above, below
<1>5. above + x \in 0 .. VSCREEN_WIDTH * VSCREEN_HEIGHT - 1
  BY <1>4, Sizes
<1> QED
  BY <1>5 DEF above

LEMMA VisibleDraws ==
  ASSUME RasterInv, BufferInv, DrawInv, VisibleDot, [Next]_vars, scanVars' # scanVars
  PROVE  /\ set_data' \in 0 .. VSCREEN_WIDTH * VSCREEN_HEIGHT - 1
         /\ dot' \in Number \cup {Background, Backdrop, Old}
         /\ bg_sprite' \in BOOLEAN /\ sprite0_hit' \in BOOLEAN /\ sprite_overflow' \in BOOLEAN
<1>1. scan_x \in Nat /\ scan_y \in Nat /\ scan_x < VSCREEN_WIDTH /\ scan_y < VSCREEN_HEIGHT
  BY Sizes DEF RasterInv, BeamInFrame, VisibleDot, Visible
<1>2. set_data' = scan_y * VSCREEN_WIDTH + scan_x
  BY PlacedStep DEF VisibleDot
<1>3. set_data' \in 0 .. VSCREEN_WIDTH * VSCREEN_HEIGHT - 1
  BY <1>1, <1>2, DotInVscreen
<1>4. PICK wild \in SUBSET DOMAIN sprite_buf, opaque \in BOOLEAN :
         LET behind == IF show_sprite THEN Shown(TRUE, wild) ELSE NULL
             before == IF show_sprite THEN Shown(FALSE, wild) ELSE NULL
         IN  /\ bg_sprite' = IF show_sprite THEN behind # NULL ELSE bg_sprite
             /\ sprite0_hit' = (behind = 0 \/ (sprite0_hit /\ scan_x # 0))
             /\ dot' = IF before # NULL THEN before
                       ELSE IF show_bg /\ opaque THEN Background
                       ELSE IF show_bg /\ ~bg_sprite' THEN Backdrop
                       ELSE IF behind # NULL THEN behind
                       ELSE Old
  BY DEF VisibleDot, DrawDot
<1>5. \A back \in BOOLEAN : Shown(back, wild) \in Number \cup {NULL}
  BY ShownNumber DEF BufferInv
<1>6. dot' \in Number \cup {Background, Backdrop, Old}
  BY <1>4, <1>5
<1>7. bg_sprite' \in BOOLEAN /\ sprite0_hit' \in BOOLEAN
  BY <1>4 DEF DrawInv
<1>8. sprite_overflow' \in BOOLEAN
  BY DEF VisibleDot
<1> QED
  BY <1>3, <1>6, <1>7, <1>8

LEMMA DrawStep ==
  ASSUME RasterInv, BufferInv, DrawInv, [Next]_vars
  PROVE  DrawInv'
<1>1. CASE ClockPpu /\ VisibleDot
  <2>1. scanVars' # scanVars
    <3>1. scan_x \in Nat /\ scan_x' = scan_x + 1
      BY <1>1, Sizes, LeaveVisible DEF RasterInv, BeamInFrame, ClockPpu, VisibleDot
    <3> QED
      BY <3>1 DEF scanVars
  <2>2. UNCHANGED ctrlVars /\ UNCHANGED nmi_pin
    BY <1>1 DEF ClockPpu, VisibleDot
  <2> QED
    BY <1>1, <2>1, <2>2, VisibleDraws DEF DrawInv, ctrlVars
<1>2. CASE ClockPpu /\ BlankDot
  <2>1. sprite_overflow' \in BOOLEAN
    BY <1>2 DEF BlankDot, ScanRecovery, SpritePrefetch, DrawInv
  <2>2. nmi_pin' \in BOOLEAN
    BY <1>2 DEF BlankDot
  <2>3. UNCHANGED <<ctrlVars, sprite0_hit, drawVars>>
    BY <1>2 DEF BlankDot, ClockPpu
  <2> QED
    BY <2>1, <2>2, <2>3 DEF DrawInv, ctrlVars, drawVars
<1>3. CASE Ctrl1Set
  BY <1>3 DEF Ctrl1Set, DrawInv, statusVars, drawVars
<1>4. CASE Ctrl2Set
  BY <1>4 DEF Ctrl2Set, DrawInv, statusVars, drawVars
<1>5. CASE SpriteDataSet \/ StatusGet \/ NmiDeasserted \/ UNCHANGED vars
  <2>1. /\ UNCHANGED <<sprite_overflow, sprite0_hit, nmi_vblank, show_sprite, show_bg, bg_sprite, set_data, dot>>
        /\ nmi_pin' = nmi_pin \/ nmi_pin' = FALSE
    BY <1>5 DEF SpriteDataSet, StatusGet, NmiDeasserted, vars, statusVars, ctrlVars, drawVars
  <2> QED
    BY <2>1 DEF DrawInv
<1> QED
  BY <1>1, <1>2, <1>3, <1>4, <1>5 DEF Next, ClockPpu

\* Every variable keeps its type, for every size of the picture and number of sprites: the
\* buffer never holds more than its SPRITE_PREFETCH_CNT entries, and vscreen is not left.
THEOREM ScanTyped == Spec => []TypeOK
<1>1. Init => DrawInv
  BY DEF Init, DrawInv
<1>2. RasterInv /\ RasterInv' /\ BufferInv /\ DrawInv /\ [Next]_vars => BufferInv' /\ DrawInv'
  BY BufferStep, DrawStep
<1>3. RasterInv /\ BufferInv /\ DrawInv => TypeOK
  BY DEF RasterInv, BeamInFrame, BufferInv, DrawInv, TypeOK
<1> QED
  BY <1>1, <1>2, <1>3, InitBuffer, Raster, PTL DEF Spec

-----------------------------------------------------------------------------
(* How often vblank is reported. *)

\* The beam is past the dot at which the PPU sets vblank, and has not yet begun a picture.
PastPicture == AtStart \/ scan_y > VSCREEN_HEIGHT \/ (scan_y = VSCREEN_HEIGHT /\ scan_x > 0)

OnceInv ==
    /\ vblank \in BOOLEAN /\ told \in BOOLEAN
    /\ vblank \/ told => PastPicture
    /\ VblankIsToldOnce

\* From the dot that sets vblank on, the beam stays past the picture until it is back at
\* the start.
LEMMA StaysPast ==
  ASSUME BeamInFrame, MoveBeam, ~Visible, PictureDone \/ PastPicture
  PROVE  PastPicture'
<1>1. scan_x \in Nat /\ scan_y \in Nat /\ ~AtStart /\ scan_y >= VSCREEN_HEIGHT
  BY Sizes DEF BeamInFrame, Visible, PictureDone, PastPicture, AtStart
<1> QED
  BY <1>1, Sizes, BeamMoves DEF PastPicture, AtStart

LEMMA OnceStep == RasterInv /\ OnceInv /\ [HistoryNext]_spriteVars => OnceInv'
<1> SUFFICES ASSUME RasterInv, OnceInv, [HistoryNext]_spriteVars PROVE OnceInv'
  OBVIOUS
<1>0. CASE UNCHANGED spriteVars
  BY <1>0 DEF spriteVars, vars, scanVars, statusVars, OnceInv, PastPicture, AtStart, VblankIsToldOnce
<1>1. CASE HistoryNext /\ VisibleDot /\ MoveBeam
  <2>1. scanVars' # scanVars
    <3>1. scan_x' = scan_x + 1 /\ scan_x \in Nat
      BY <1>1, LeaveVisible, Sizes DEF RasterInv, BeamInFrame, VisibleDot
    <3>2. scan_x' # scan_x
      BY <3>1
    <3> QED
      BY <3>2 DEF scanVars
  <2>2. PictureStarts <=> AtStart
    BY DEF PictureStarts, AtStart
  <2>3. PastPicture => AtStart
    BY <1>1, Sizes DEF RasterInv, BeamInFrame, VisibleDot, Visible, PastPicture
  <2>4. vblank' = FALSE /\ told' = FALSE
    BY <1>1, <2>1, <2>2, <2>3 DEF HistoryNext, Tells, VisibleDot, OnceInv
  <2> QED
    BY <2>4 DEF OnceInv, VblankIsToldOnce
<1>2. CASE HistoryNext /\ BlankDot /\ MoveBeam
  <2>1. ~Visible /\ ~PictureStarts
    BY <1>2, Sizes DEF BlankDot, Visible, PictureStarts
  <2>2. vblank' = (vblank \/ PictureDone) /\ told' = told
    BY <1>2, <2>1 DEF HistoryNext, BlankDot, Tells, OnceInv
  <2>3. PictureDone => ~PastPicture
    BY Sizes DEF PictureDone, PastPicture, AtStart
  <2>4. vblank' \/ told' => PastPicture'
    BY <1>2, <2>1, <2>2, StaysPast DEF RasterInv, OnceInv
  <2> QED
    BY <2>2, <2>3, <2>4 DEF OnceInv, VblankIsToldOnce
<1>3. CASE HistoryNext /\ UNCHANGED scanVars /\ (vblank' = vblank \/ vblank' = FALSE)
  <2>1. told' = (told \/ (vblank /\ ~vblank')) /\ PastPicture' = PastPicture
    BY <1>3 DEF HistoryNext, Tells, scanVars, PastPicture, AtStart, OnceInv
  <2>2. vblank' \in BOOLEAN /\ told' \in BOOLEAN
    BY <1>3, <2>1 DEF OnceInv
  <2>3. ASSUME vblank' PROVE vblank
    BY <1>3, <2>3
  <2>4. ASSUME told' PROVE ~vblank' /\ (told \/ vblank)
    <3>1. told \/ (vblank /\ ~vblank')
      BY <2>1, <2>4, Zenon
    <3> QED
      BY <2>3, <3>1 DEF OnceInv, VblankIsToldOnce
  <2>5. vblank' \/ told' => PastPicture'
    BY <2>1, <2>3, <2>4 DEF OnceInv
  <2> QED
    BY <2>2, <2>4, <2>5 DEF OnceInv, VblankIsToldOnce
<1>4. ASSUME Next
      PROVE  \/ VisibleDot /\ MoveBeam
             \/ BlankDot /\ MoveBeam
             \/ UNCHANGED scanVars /\ (vblank' = vblank \/ vblank' = FALSE)
  BY <1>4 DEF Next, ClockPpu, SpriteDataSet, Ctrl1Set, Ctrl2Set, StatusGet, NmiDeasserted, statusVars
<1> QED
  BY <1>0, <1>1, <1>2, <1>3, <1>4 DEF HistoryNext

\* The history only watches.
LEMMA HistoryIsScan == HistorySpec => Spec
<1>1. HistoryInit => Init
  BY DEF HistoryInit
<1>2. [HistoryNext]_spriteVars => [Next]_vars
  BY DEF HistoryNext, spriteVars
<1> QED
  BY <1>1, <1>2, PTL DEF HistorySpec, Spec

\* clock_ppu sets vblank at one dot of a frame and ppu_status_get takes it back, for every
\* size of the frame: of one picture's end a program hears once, whenever it polls.
THEOREM VblankToldOnce == HistorySpec => []VblankIsToldOnce
<1>1. HistoryInit => OnceInv
  BY DEF HistoryInit, Init, OnceInv, VblankIsToldOnce
<1>2. OnceInv => VblankIsToldOnce
  BY DEF OnceInv
<1>3. HistorySpec => []RasterInv
  BY HistoryIsScan, Raster
<1> QED
  BY <1>1, <1>2, <1>3, OnceStep, PTL DEF HistorySpec

-----------------------------------------------------------------------------
(* Which sprite a dot shows. *)

\* Below the first line the buffer is what was fetched for the line.
FetchedInv ==
    /\ fetched \in [Number -> Sprite]
    /\ scan_y \in 1 .. VSCREEN_HEIGHT => sprite_buf = Prefetched(fetched, scan_y)

LEMMA FetchedStep ==
  ASSUME RasterInv, RasterInv', BufferInv, FetchedInv, [HistoryNext]_spriteVars
  PROVE  FetchedInv'
<1>1. CASE UNCHANGED <<sprite_buf, fetched, scanVars>>
  BY <1>1 DEF FetchedInv, scanVars
<1>2. CASE HistoryNext
  <2>1. scan_y \in Nat /\ scan_y' \in Nat
    BY Sizes DEF RasterInv, BeamInFrame
  <2>2. CASE EndOfPictureLine /\ scanVars' # scanVars /\ sprite_buf' = Prefetched(sprite_ram, scan_y')
    BY <1>2, <2>2 DEF HistoryNext, FetchedInv, BufferInv
  <2>3. CASE /\ ~(EndOfPictureLine /\ scanVars' # scanVars)
             /\ sprite_buf' = sprite_buf
             /\ scan_y' = scan_y \/ scan_y' = 0 \/ scan_y' > VSCREEN_HEIGHT
    <3>1. fetched' = fetched
      BY <1>2, <2>3 DEF HistoryNext
    <3>2. scan_y' \in 1 .. VSCREEN_HEIGHT => scan_y' = scan_y
      BY <2>1, <2>3, Sizes
    <3> QED
      BY <2>3, <3>1, <3>2 DEF FetchedInv
  <2> QED
    BY <1>2, <2>2, <2>3, LineStep DEF HistoryNext
<1> QED
  BY <1>1, <1>2 DEF spriteVars, vars

\* The entries with a dot here are the sprites with a dot here that were kept, in the
\* order the search goes down: the last entry is the lowest number.
LEMMA SolidIsKept ==
  ASSUME RasterInv, BufferInv, FetchedInv, scan_y \in 1 .. VSCREEN_HEIGHT - 1,
         NEW back, NEW wild
  PROVE  /\ \A k \in Solid(back, wild) : sprite_buf[k].num \in KeptHere(back)
         /\ \A i \in KeptHere(back) : \E k \in Solid(back, wild) : sprite_buf[k].num = i
         /\ \A k, l \in Solid(back, wild) : l <= k => sprite_buf[k].num <= sprite_buf[l].num
<1> DEFINE hits == Hits(fetched, scan_y)
<1>1. fetched \in [Number -> Sprite] /\ sprite_buf = Prefetched(fetched, scan_y) /\ scan_y \in Nat
  BY Sizes DEF FetchedInv
<1>2. /\ hits \in SUBSET Number
      /\ Bottom(hits) \in Nat /\ Bottom(hits) <= Cardinality(hits)
      /\ Cardinality(hits) \in Nat
      /\ DOMAIN sprite_buf = 1 .. Bottom(hits)
      /\ \A k \in DOMAIN sprite_buf : /\ Found(k, hits) \in hits
                                      /\ sprite_buf[k] = Entry(fetched, Found(k, hits))
  <2>1. hits \in SUBSET Number
    BY DEF Hits
  <2> QED
    BY <1>1, <2>1, PrefetchedIs, NumbersFinite
<1>3. \A k \in DOMAIN sprite_buf : InTile(sprite_buf[k])
  BY <1>1, Sizes DEF BufferInv
<1>4. \A i \in Number : i \in hits <=> InTile(fetched[i])
  <2>1. \A i \in Number : fetched[i].y \in Nat
    BY <1>1, PpuScanAssumption
  <2> QED
    BY <1>1, <2>1, RowInTile DEF Hits
<1>5. ASSUME NEW i \in hits
      PROVE  Kept(i) <=> Place(i, hits) <= Bottom(hits)
  <2>1. {k \in Number : k > i /\ InTile(fetched[k])} = {k \in hits : k > i}
    BY <1>2, <1>4
  <2>2. Place(i, hits) = Cardinality({k \in hits : k > i}) + 1 /\ Place(i, hits) \in 1 .. Cardinality(hits)
    BY <1>2, PlaceOrder
  <2> DEFINE c == Cardinality({k \in hits : k > i})
  <2>3. c \in Nat
    BY <1>2, NumbersFinite
  <2>4. Kept(i) <=> c < SPRITE_PREFETCH_CNT
    BY <2>1 DEF Kept
  <2> HIDE DEF c
  <2>5. Place(i, hits) = c + 1 /\ c + 1 <= Cardinality(hits)
    BY <1>2, <2>2 DEF c
  <2> HIDE DEF hits
  <2> QED
    BY <1>2, <2>3, <2>4, <2>5, PpuScanAssumption DEF Bottom
<1>6. ASSUME NEW k \in DOMAIN sprite_buf
      PROVE  /\ Found(k, hits) \in hits /\ Found(k, hits) \in Number
             /\ Place(Found(k, hits), hits) = k
             /\ sprite_buf[k].num = Found(k, hits)
             /\ k \in Solid(back, wild) <=> Found(k, hits) \in KeptHere(back)
  <2> DEFINE i == Found(k, hits)
  <2>1. k \in 1 .. Cardinality(hits) /\ k <= Bottom(hits)
    BY <1>2, <1>6
  <2>2. i \in hits /\ Place(i, hits) = k /\ i \in Number
    BY <1>2, <2>1, FoundAt
  <2>3. /\ sprite_buf[k].num = i /\ sprite_buf[k].x = fetched[i].x /\ sprite_buf[k].back = fetched[i].back
        /\ sprite_buf[k].solid = fetched[i].solid
    BY <1>2, <1>6 DEF Entry
  <2>4. Kept(i) /\ InTile(fetched[i])
    BY <1>4, <1>5, <2>1, <2>2
  <2>5. k \in Solid(back, wild) <=> Covers(fetched[i]) /\ fetched[i].back = back /\ fetched[i].solid
    BY <1>3, <1>6, <2>3 DEF Solid, Opaque, Covers
  <2>6. i \in KeptHere(back) <=> Covers(fetched[i]) /\ fetched[i].back = back /\ fetched[i].solid
    BY <2>2, <2>4 DEF KeptHere, Here
  <2> QED
    BY <2>2, <2>3, <2>5, <2>6
<1>7. ASSUME NEW i \in KeptHere(back)
      PROVE  \E k \in Solid(back, wild) : sprite_buf[k].num = i
  <2>1. i \in hits /\ Kept(i)
    BY <1>4 DEF KeptHere, Here
  <2>2. Place(i, hits) \in DOMAIN sprite_buf
    <3>1. Place(i, hits) \in 1 .. Cardinality(hits) /\ Place(i, hits) <= Bottom(hits)
      BY <1>2, <1>5, <2>1, PlaceOrder
    <3> QED
      BY <1>2, <3>1
  <2>3. Found(Place(i, hits), hits) = i
    BY <1>2, <2>1, FoundAt
  <2> QED
    BY <1>6, <2>2, <2>3
<1>8. ASSUME NEW k \in DOMAIN sprite_buf, NEW l \in DOMAIN sprite_buf, l <= k
      PROVE  sprite_buf[k].num <= sprite_buf[l].num
  <2> DEFINE i == Found(k, hits)
             j == Found(l, hits)
  <2>1. /\ i \in hits /\ j \in hits /\ Place(i, hits) = k /\ Place(j, hits) = l
        /\ sprite_buf[k].num = i /\ sprite_buf[l].num = j
    BY <1>6
  <2>2. i \in Nat /\ j \in Nat /\ k \in Nat /\ l \in Nat
    <3>1. hits \subseteq Nat
      BY <1>2, NumbersFinite
    <3>2. k \in 1 .. Bottom(hits) /\ l \in 1 .. Bottom(hits)
      BY <1>2, <1>8
    <3> HIDE DEF i, j, hits
    <3> QED
      BY <2>1, <3>1, <3>2
  <2> HIDE DEF i, j, hits
  <2>3. ~(j < i)
    <3>1. j < i => k < l
      BY <1>2, <2>1, PlaceOrder
    <3> QED
      BY <1>8, <2>2, <3>1
  <2> QED
    BY <2>1, <2>2, <2>3
<1> QED
  BY <1>6, <1>7, <1>8 DEF Solid

LEMMA TopmostStep ==
  ASSUME RasterInv, BufferInv, FetchedInv, [HistoryNext]_spriteVars,
         Drawn, show_sprite, scan_y > 0
  PROVE  IF KeptHere(FALSE) # {}
           THEN dot' \in KeptHere(FALSE) /\ \A i \in KeptHere(FALSE) : dot' <= i
           ELSE dot' \in Number => dot' \in KeptHere(TRUE)
<1>1. VisibleDot
  BY DEF HistoryNext, spriteVars, Drawn, Next, ClockPpu, BlankDot, SpriteDataSet, Ctrl1Set, Ctrl2Set,
         StatusGet, NmiDeasserted, vars, scanVars
<1>2. scan_y \in 1 .. VSCREEN_HEIGHT - 1
  BY Sizes DEF Drawn, Visible, RasterInv, BeamInFrame
<1>3. PICK wild \in SUBSET DOMAIN sprite_buf, opaque \in BOOLEAN :
         dot' = IF Shown(FALSE, wild) # NULL THEN Shown(FALSE, wild)
                ELSE IF show_bg /\ opaque THEN Background
                ELSE IF show_bg /\ ~bg_sprite' THEN Backdrop
                ELSE IF Shown(TRUE, wild) # NULL THEN Shown(TRUE, wild)
                ELSE Old
  <2>1. PICK wild \in SUBSET DOMAIN sprite_buf, opaque \in BOOLEAN :
           LET behind == IF show_sprite THEN Shown(TRUE, wild) ELSE NULL
               before == IF show_sprite THEN Shown(FALSE, wild) ELSE NULL
           IN  /\ bg_sprite' = IF show_sprite THEN behind # NULL ELSE bg_sprite
               /\ sprite0_hit' = (behind = 0 \/ (sprite0_hit /\ scan_x # 0))
               /\ dot' = IF before # NULL THEN before
                         ELSE IF show_bg /\ opaque THEN Background
                         ELSE IF show_bg /\ ~bg_sprite' THEN Backdrop
                         ELSE IF behind # NULL THEN behind
                         ELSE Old
    BY <1>1 DEF VisibleDot, DrawDot
  <2>2. dot' = IF Shown(FALSE, wild) # NULL THEN Shown(FALSE, wild)
               ELSE IF show_bg /\ opaque THEN Background
               ELSE IF show_bg /\ ~bg_sprite' THEN Backdrop
               ELSE IF Shown(TRUE, wild) # NULL THEN Shown(TRUE, wild)
               ELSE Old
    BY <2>1
  <2> QED
    BY <2>2
<1>4. sprite_buf \in Seq(Buffered)
  BY DEF BufferInv
<1>5. ASSUME NEW back
      PROVE  /\ KeptHere(back) = {} => Shown(back, wild) = NULL
             /\ KeptHere(back) # {} => /\ Shown(back, wild) \in KeptHere(back)
                                       /\ \A i \in KeptHere(back) : Shown(back, wild) <= i
  <2>1. /\ \A k \in Solid(back, wild) : sprite_buf[k].num \in KeptHere(back)
        /\ \A i \in KeptHere(back) : \E k \in Solid(back, wild) : sprite_buf[k].num = i
        /\ \A k, l \in Solid(back, wild) : l <= k => sprite_buf[k].num <= sprite_buf[l].num
    BY <1>2, SolidIsKept
  <2>2. /\ Solid(back, wild) = {} => Shown(back, wild) = NULL
        /\ Solid(back, wild) # {} =>
              \E k \in Solid(back, wild) : /\ Shown(back, wild) = sprite_buf[k].num
                                           /\ \A l \in Solid(back, wild) : l <= k
    BY <1>4, ShownIs
  <2> QED
    BY <2>1, <2>2
<1>6. \A back : KeptHere(back) \subseteq Number
  BY DEF KeptHere, Here
<1>7. CASE KeptHere(FALSE) # {}
  BY <1>3, <1>5, <1>6, <1>7, NumbersOnly
<1>8. CASE KeptHere(FALSE) = {}
  BY <1>3, <1>5, <1>8, NumbersOnly
<1> QED
  BY <1>7, <1>8

\* load_sprite shows the topmost of the sprites that sprite_prefetch1 kept for the line, for
\* every number of sprites, size of the buffer and of the tiles: fetched from the last to the
\* first, searched from the end, and whatever the CPU has stored into sprite RAM since.
THEOREM TopmostShown == HistorySpec => TopmostIsShown
<1>1. HistoryInit => FetchedInv
  <2>1. Init => sprite_ram \in [Number -> Sprite] /\ scan_y = 0
    BY DEF Init
  <2> QED
    BY <2>1, PpuScanAssumption DEF HistoryInit, FetchedInv
<1>2. [HistoryNext]_spriteVars => [Next]_vars
  BY DEF HistoryNext, spriteVars
<1>3. RasterInv /\ RasterInv' /\ BufferInv /\ [HistoryNext]_spriteVars => BufferInv'
  BY <1>2, BufferStep
<1>4. RasterInv /\ RasterInv' /\ BufferInv /\ FetchedInv /\ [HistoryNext]_spriteVars => FetchedInv'
  BY FetchedStep
<1>5. HistoryInit => BufferInv
  BY InitBuffer DEF HistoryInit
<1>6. HistorySpec => []RasterInv
  BY HistoryIsScan, Raster
<1>7. RasterInv /\ BufferInv /\ FetchedInv /\ [HistoryNext]_spriteVars
        => [Drawn /\ show_sprite /\ scan_y > 0 =>
              IF KeptHere(FALSE) # {}
                THEN dot' \in KeptHere(FALSE) /\ \A i \in KeptHere(FALSE) : dot' <= i
                ELSE dot' \in Number => dot' \in KeptHere(TRUE)]_spriteVars
  BY TopmostStep
<1> QED
  BY <1>1, <1>3, <1>4, <1>5, <1>6, <1>7, PTL DEF HistorySpec, TopmostIsShown
=============================================================================
