--------------------------- MODULE EmuClockProofs ---------------------------
(***************************************************************************)
(* Proofs about EmuClock, for every size of sprite RAM, number of pages,   *)
(* dividers and set of nodes: the inductive invariant, the properties that *)
(* follow from it, the simulation of SpriteDma, and the pace of            *)
(* EmuClockPace.                                                           *)
(***************************************************************************)
EXTENDS EmuClockPace, Sequences, SequencesExt, SequenceTheorems, TLAPS

-----------------------------------------------------------------------------
(* What Append and RemoveAt do to the sequences of two and three elements  *)
(* a handler list can be.                                                  *)

\* A sequence of length one, two or three is the tuple of its elements.
LEMMA Tuple1 ==
  ASSUME NEW S, NEW s \in Seq(S), Len(s) = 1
  PROVE  s = <<s[1]>>
<1>1. s \in [1 .. 1 -> S]
  BY LenProperties
<1>2. <<s[1]>> \in Seq(S) /\ Len(<<s[1]>>) = 1
  BY <1>1
<1> QED
  BY <1>2, SeqEqual

\* See Tuple1.
LEMMA Tuple2 ==
  ASSUME NEW S, NEW s \in Seq(S), Len(s) = 2
  PROVE  s = <<s[1], s[2]>> /\ s[1] \in S /\ s[2] \in S
<1>1. s \in [1 .. 2 -> S]
  BY LenProperties
<1>2. s[1] \in S /\ s[2] \in S
  BY <1>1
<1>3. <<s[1], s[2]>> \in Seq(S) /\ Len(<<s[1], s[2]>>) = 2
  BY <1>2
<1> QED
  BY <1>2, <1>3, SeqEqual

\* See Tuple1.
LEMMA Tuple3 ==
  ASSUME NEW S, NEW s \in Seq(S), Len(s) = 3
  PROVE  s = <<s[1], s[2], s[3]>>
<1>1. s \in [1 .. 3 -> S]
  BY LenProperties
<1>2. s[1] \in S /\ s[2] \in S /\ s[3] \in S
  BY <1>1
<1>3. <<s[1], s[2], s[3]>> \in Seq(S) /\ Len(<<s[1], s[2], s[3]>>) = 3
  BY <1>2
<1> QED
  BY <1>3, SeqEqual

\* Appending to a list of one node, and of two.
LEMMA AppendTo1 ==
  ASSUME NEW S, NEW a \in S, NEW b \in S
  PROVE  Append(<<a>>, b) = <<a, b>>
<1> DEFINE t == Append(<<a>>, b)
<1>1. <<a>> \in Seq(S) /\ Len(<<a>>) = 1
  OBVIOUS
<1>2. t \in Seq(S) /\ Len(t) = 2 /\ t[1] = a /\ t[2] = b
  BY <1>1, AppendProperties
<1> QED
  BY <1>2, Tuple2

\* See AppendTo1.
LEMMA AppendTo2 ==
  ASSUME NEW S, NEW a \in S, NEW b \in S, NEW c \in S
  PROVE  Append(<<a, b>>, c) = <<a, b, c>>
<1> DEFINE t == Append(<<a, b>>, c)
<1>1. <<a, b>> \in Seq(S) /\ Len(<<a, b>>) = 2
  OBVIOUS
<1>2. t \in Seq(S) /\ Len(t) = 3 /\ t[1] = a /\ t[2] = b /\ t[3] = c
  BY <1>1, AppendProperties
<1> QED
  BY <1>2, Tuple3

\* Removing the second of two nodes, and of three.
LEMMA RemoveSecondOf2 ==
  ASSUME NEW S, NEW a \in S, NEW b \in S
  PROVE  RemoveAt(<<a, b>>, 2) = <<a>>
<1> DEFINE t == SubSeq(<<a, b>>, 1, 1)
<1>1. t \in Seq(S) /\ Len(t) = 1 /\ t[1] = a
  BY SubSeqProperties
<1>2. t = <<a>>
  BY <1>1, Tuple1
<1>3. SubSeq(<<a, b>>, 3, 2) = << >>
  BY SubSeqEmpty
<1>4. <<a>> \o << >> = <<a>>
  BY ConcatEmptySeq
<1>5. 2 - 1 = 1 /\ 2 + 1 = 3 /\ Len(<<a, b>>) = 2
  OBVIOUS
<1> QED
  BY <1>2, <1>3, <1>4, <1>5, Zenon DEF RemoveAt

\* See RemoveSecondOf2.
LEMMA RemoveSecondOf3 ==
  ASSUME NEW S, NEW a \in S, NEW b \in S, NEW c \in S
  PROVE  RemoveAt(<<a, b, c>>, 2) = <<a, c>>
<1> DEFINE t == SubSeq(<<a, b, c>>, 1, 1)
           u == SubSeq(<<a, b, c>>, 3, 3)
           v == <<a>> \o <<c>>
<1>1. t \in Seq(S) /\ Len(t) = 1 /\ t[1] = a
  BY SubSeqProperties
<1>2. u \in Seq(S) /\ Len(u) = 1 /\ u[1] = c
  BY SubSeqProperties
<1>3. t = <<a>> /\ u = <<c>>
  BY <1>1, <1>2, Tuple1
<1>4. <<a>> \in Seq(S) /\ <<c>> \in Seq(S) /\ Len(<<a>>) = 1 /\ Len(<<c>>) = 1
  OBVIOUS
<1>5. v \in Seq(S) /\ Len(v) = 2 /\ v[1] = a /\ v[2] = c
  BY <1>4, ConcatProperties
<1>6. v = <<a, c>>
  BY <1>5, Tuple2
<1>7. 2 - 1 = 1 /\ 2 + 1 = 3 /\ Len(<<a, b, c>>) = 3
  OBVIOUS
<1> QED
  BY <1>3, <1>6, <1>7, Zenon DEF RemoveAt

USE EmuClockAssumption

-----------------------------------------------------------------------------
(* What the list looks like, and what the operators on it do then. *)

\* The list is the pair of the PPU's node and the master's; what Linked,
\* Registered and Next_of say of it.
LEMMA ListShape ==
  ASSUME TypeOK, OneBusMaster
  PROVE  /\ PpuNode \in Node /\ MasterNode \in Node /\ PpuNode # MasterNode
         /\ handler_list = <<PpuNode, MasterNode>>
         /\ \A n : Linked(n) <=> n \in {PpuNode, MasterNode}
         /\ \A h : Registered(h) <=> h \in {handler[PpuNode], handler[MasterNode]}
         /\ Next_of(PpuNode) = MasterNode
         /\ Next_of(MasterNode) = NULL
         /\ \A n : n \notin {PpuNode, MasterNode} => Next_of(n) = next[n]
<1> DEFINE p == PpuNode
           m == MasterNode
<1>1. handler_list = <<p, m>> /\ p \in Node /\ m \in Node
  BY Tuple2 DEF TypeOK, OneBusMaster, PpuNode, MasterNode
<1>2. p # m
  BY DEF OneBusMaster, PpuNode, MasterNode
<1> HIDE DEF p, m
<1>3. /\ DOMAIN handler_list = {1, 2} /\ Len(handler_list) = 2
      /\ handler_list[1] = p /\ handler_list[2] = m
  BY <1>1
<1>4. \A n : Linked(n) <=> n \in {p, m}
  BY <1>3 DEF Linked
<1>5. \A h : Registered(h) <=> h \in {handler[p], handler[m]}
  BY <1>3 DEF Registered
<1>6. (CHOOSE i \in DOMAIN handler_list : handler_list[i] = p) = 1
  BY <1>2, <1>3
<1>7. (CHOOSE i \in DOMAIN handler_list : handler_list[i] = m) = 2
  BY <1>2, <1>3
<1>8. Follower(handler_list, 1) = m /\ Follower(handler_list, 2) = NULL
  BY <1>3 DEF Follower
<1>9. Next_of(p) = m /\ Next_of(m) = NULL
  BY <1>4, <1>6, <1>7, <1>8 DEF Next_of
<1>10. \A n : n \notin {p, m} => Next_of(n) = next[n]
  BY <1>4 DEF Next_of
<1> QED
  BY <1>1, <1>2, <1>4, <1>5, <1>9, <1>10 DEF p, m

\* Putting the DMA in and taking the CPU out leaves the CPU's node pointing at
\* the DMA's.
LEMMA SwapInDmaEffect ==
  ASSUME TypeOK, OneBusMaster, handler[MasterNode] = "clock_cpu",
         NEW n \in Unused, SwapInDma(n)
  PROVE  /\ n \in Node /\ n \notin {PpuNode, MasterNode, ch}
         /\ handler_list' = <<PpuNode, n>>
         /\ handler' = [handler EXCEPT ![n] = "clock_dma"]
         /\ cnt' = [cnt EXCEPT ![n] = 0]
         /\ next' = [next EXCEPT ![MasterNode] = n]
<1> DEFINE p == PpuNode
           m == MasterNode
           list == Append(handler_list, n)
           hs == [handler EXCEPT ![n] = "clock_dma"]
           i == PositionOf("clock_cpu", list, hs)
<1>1. /\ p \in Node /\ m \in Node /\ p # m /\ handler_list = <<p, m>>
      /\ n \in Node /\ n \notin {p, m, ch}
  BY ListShape DEF Unused
<1>2. handler[p] = "clock_ppu" /\ handler[m] = "clock_cpu"
      /\ handler \in [Node -> Handler]
  BY DEF OneBusMaster, PpuNode, TypeOK
<1> HIDE DEF p, m
<1>3. list = <<p, m, n>>
  BY <1>1, AppendTo2
<1>4. hs[p] = "clock_ppu" /\ hs[m] = "clock_cpu" /\ hs[n] = "clock_dma"
  BY <1>1, <1>2
<1>5. DOMAIN list = {1, 2, 3} /\ list[1] = p /\ list[2] = m /\ list[3] = n
      /\ Len(list) = 3
  BY <1>3
<1>6. i = 2
  BY <1>4, <1>5 DEF PositionOf
<1>7. Follower(list, 2) = n
  BY <1>5 DEF Follower
<1>8. RemoveAt(list, 2) = <<p, n>>
  <2>1. RemoveAt(<<p, m, n>>, 2) = <<p, n>>
    BY <1>1, RemoveSecondOf3
  <2> QED
    BY <2>1, <1>3
<1>9. /\ handler' = hs /\ cnt' = [cnt EXCEPT ![n] = 0]
      /\ next' = [next EXCEPT ![list[i]] = Follower(list, i)]
      /\ handler_list' = RemoveAt(list, i)
  BY DEF SwapInDma
<1>10. handler_list' = <<p, n>> /\ next' = [next EXCEPT ![m] = n]
  BY <1>5, <1>6, <1>7, <1>8, <1>9
<1> QED
  BY <1>1, <1>9, <1>10 DEF p, m

\* Taking the DMA out and putting the CPU in leaves the DMA's node at the end
\* of the walk.
LEMMA SwapInCpuEffect ==
  ASSUME TypeOK, OneBusMaster, handler[MasterNode] = "clock_dma",
         NEW n \in Unused, SwapInCpu(n)
  PROVE  /\ n \in Node /\ n \notin {PpuNode, MasterNode, ch}
         /\ handler_list' = <<PpuNode, n>>
         /\ handler' = [handler EXCEPT ![n] = "clock_cpu"]
         /\ cnt' = [cnt EXCEPT ![n] = 0]
         /\ next' = [next EXCEPT ![MasterNode] = NULL]
<1> DEFINE p == PpuNode
           m == MasterNode
           i == PositionOf("clock_dma", handler_list, handler)
<1>1. /\ p \in Node /\ m \in Node /\ p # m /\ handler_list = <<p, m>>
      /\ n \in Node /\ n \notin {p, m, ch}
  BY ListShape DEF Unused
<1>2. handler[p] = "clock_ppu" /\ handler[m] = "clock_dma"
  BY DEF OneBusMaster, PpuNode
<1> HIDE DEF p, m
<1>3. /\ DOMAIN handler_list = {1, 2} /\ Len(handler_list) = 2
      /\ handler_list[1] = p /\ handler_list[2] = m
  BY <1>1
<1>4. i = 2
  BY <1>2, <1>3 DEF PositionOf
<1>5. Follower(handler_list, 2) = NULL
  BY <1>3 DEF Follower
<1>6. RemoveAt(handler_list, 2) = <<p>> /\ Append(<<p>>, n) = <<p, n>>
  BY <1>1, RemoveSecondOf2, AppendTo1
<1>7. /\ handler' = [handler EXCEPT ![n] = "clock_cpu"]
      /\ cnt' = [cnt EXCEPT ![n] = 0]
      /\ next' = [next EXCEPT ![handler_list[i]] = Follower(handler_list, i)]
      /\ handler_list' = Append(RemoveAt(handler_list, i), n)
  BY DEF SwapInCpu
<1>8. handler_list' = <<p, n>> /\ next' = [next EXCEPT ![m] = NULL]
  BY <1>3, <1>4, <1>5, <1>6, <1>7
<1> QED
  BY <1>1, <1>7, <1>8 DEF p, m

\* A handler that is called is the one of the node the walk is at; if it is the
\* CPU's or the DMA's, that node is the bus master's.
LEMMA CalledNode ==
  ASSUME ClockInv, NEW h \in {"clock_cpu", "clock_dma"}, Calls(h)
  PROVE  ch = MasterNode /\ handler[MasterNode] = h /\ ch \in Node
<1>1. ch \in {PpuNode, MasterNode} /\ ch \in Node /\ handler[ch] = h
  BY DEF ClockInv, WalkInv, Calls
<1>2. handler[PpuNode] = "clock_ppu"
  BY DEF ClockInv, OneBusMaster, PpuNode
<1> QED
  BY <1>1, <1>2

-----------------------------------------------------------------------------
(* The invariant holds initially and every step keeps it. *)

\* The state after init_datas satisfies the invariant.
LEMMA InitClockInv == Init => ClockInv
<1> SUFFICES ASSUME Init PROVE ClockInv
  OBVIOUS
<1>1. PICK p, c \in Node :
         /\ p # c
         /\ handler_list = <<p, c>>
         /\ handler = [n \in Node |-> IF n = p THEN "clock_ppu" ELSE "clock_cpu"]
  BY DEF Init
<1>2. PpuNode = p /\ MasterNode = c /\ Len(handler_list) = 2
      /\ handler_list \in Seq(Node)
      /\ handler[p] = "clock_ppu" /\ handler[c] = "clock_cpu"
  BY <1>1 DEF PpuNode, MasterNode
<1>3. ~DmaIsOn
  BY <1>2 DEF DmaIsOn
<1>4. TypeOK
  <2>1. handler \in [Node -> Handler]
    BY <1>1 DEF Handler
  <2>2. cnt \in [Node -> Nat] /\ next \in [Node -> Node \cup {NULL}]
    BY DEF Init
  <2>3. dma_ram_addr \in [hi : Page, lo : Offset] /\ dma_spr_addr \in Offset
    BY DEF Init, Page, Offset
  <2>4. dma_cnt \in 0 .. SPRITE_RAM_SIZE * 2
    BY DEF Init
  <2> QED
    BY <1>2, <2>1, <2>2, <2>3, <2>4 DEF Init, TypeOK
<1>5. OneBusMaster
  BY <1>1, <1>2 DEF OneBusMaster, PpuNode, MasterNode
<1>6. WalkInv
  BY DEF Init, WalkInv
<1>7. BusInv
  BY DEF Init, BusInv
<1>8. CountInv /\ CopyInv
  BY <1>3 DEF CountInv, CopyInv
<1> QED
  BY <1>4, <1>5, <1>6, <1>7, <1>8 DEF ClockInv

\* While the DMA is on, the counter is twice the bytes copied, plus one after a
\* load, and the low byte of the source is the number of bytes loaded.
LEMMA DmaCounter ==
  ASSUME ClockInv, DmaLoad \/ DmaStore
  PROVE  /\ ch = MasterNode /\ DmaIsOn /\ ch \in Node
         /\ dma_spr_addr \in 0 .. SPRITE_RAM_SIZE - 1 /\ dma_cnt \in Nat
         /\ DmaLoad => dma_cnt = 2 * dma_spr_addr /\ dma_ram_addr.lo = dma_spr_addr
         /\ DmaStore => /\ dma_cnt = 2 * dma_spr_addr + 1
                        /\ dma_ram_addr.lo = Inc(dma_spr_addr, SPRITE_RAM_SIZE)
<1>1. ch = MasterNode /\ DmaIsOn /\ ch \in Node
  BY CalledNode DEF DmaLoad, DmaStore, DmaIsOn
<1>2. dma_spr_addr \in 0 .. SPRITE_RAM_SIZE - 1 /\ dma_cnt \in Nat
  BY DEF ClockInv, TypeOK, Offset
<1>3. (2 * dma_spr_addr) % 2 = 0 /\ (2 * dma_spr_addr + 1) % 2 = 1
  BY <1>2
<1>4. DmaLoad => dma_cnt % 2 = 0
  BY DEF DmaLoad
<1>5. DmaStore => dma_cnt % 2 = 1
  BY DEF DmaStore
<1>6. \/ /\ dma_cnt = 2 * dma_spr_addr
         /\ dma_ram_addr.lo = dma_spr_addr
      \/ /\ dma_cnt = 2 * dma_spr_addr + 1
         /\ dma_ram_addr.lo = Inc(dma_spr_addr, SPRITE_RAM_SIZE)
  BY <1>1 DEF ClockInv, CountInv
<1>7. dma_cnt = 2 * dma_spr_addr => ~DmaStore
  BY <1>3, <1>5
<1>8. dma_cnt = 2 * dma_spr_addr + 1 => ~DmaLoad
  BY <1>3, <1>4
<1> QED
  BY <1>1, <1>2, <1>6, <1>7, <1>8

\* The page being copied does not change under the DMA's feet, although the
\* source address leaves it with the last load.
LEMMA DmaStepKeepsPage ==
  ASSUME ClockInv, DmaLoad \/ DmaStore
  PROVE  DmaPage' = DmaPage
<1>1. dma_spr_addr \in 0 .. SPRITE_RAM_SIZE - 1
  BY DmaCounter
<1>2. CASE DmaLoad
  <2>1. dma_cnt = 2 * dma_spr_addr /\ dma_ram_addr.lo = dma_spr_addr
    BY <1>2, DmaCounter
  <2>2. dma_cnt' = dma_cnt + 1 /\ dma_ram_addr' = Succ_addr(dma_ram_addr)
    BY <1>2 DEF DmaLoad
  <2>3. ~(dma_cnt >= SPRITE_RAM_SIZE * 2 - 1)
    BY <1>1, <2>1
  <2>4. dma_cnt' >= SPRITE_RAM_SIZE * 2 - 1 <=> dma_ram_addr.lo = SPRITE_RAM_SIZE - 1
    BY <1>1, <2>1, <2>2
  <2>5. dma_ram_addr.hi \in Page
    BY DEF ClockInv, TypeOK
  <2>6. Dec(Inc(dma_ram_addr.hi, PAGES), PAGES) = dma_ram_addr.hi
    BY <2>5 DEF Inc, Dec, Page
  <2> QED
    BY <2>2, <2>3, <2>4, <2>6 DEF DmaPage, Succ_addr
<1>3. CASE DmaStore
  <2>1. dma_cnt = 2 * dma_spr_addr + 1 /\ dma_cnt' = dma_cnt + 1
    BY <1>3, DmaCounter DEF DmaStore
  <2>2. dma_cnt >= SPRITE_RAM_SIZE * 2 - 1 <=> dma_cnt' >= SPRITE_RAM_SIZE * 2 - 1
    BY <1>1, <2>1
  <2> QED
    BY <1>3, <2>2 DEF DmaStore, DmaPage
<1> QED
  BY <1>2, <1>3

\* A load of the DMA keeps the invariant: the byte at the counter's place is
\* now in dma_ram_data and the source address is one further.
LEMMA DmaLoadClockInv == ASSUME ClockInv, DmaLoad PROVE ClockInv'
<1> USE DEF ClockInv
<1>1. ch = MasterNode /\ DmaIsOn /\ ch \in Node
  BY DmaCounter
<1>2. /\ OneBusMaster' /\ PpuNode' = PpuNode /\ MasterNode' = MasterNode
      /\ DmaIsOn'
  BY <1>1 DEF DmaLoad, listVars, OneBusMaster, PpuNode, MasterNode, DmaIsOn
<1>3. dma_spr_addr \in 0 .. SPRITE_RAM_SIZE - 1 /\ dma_cnt \in Nat
  BY DmaCounter
<1>4. dma_cnt = 2 * dma_spr_addr /\ dma_ram_addr.lo = dma_spr_addr
  BY DmaCounter
<1>5. dma_cnt' = 2 * dma_spr_addr + 1 /\ dma_spr_addr' = dma_spr_addr
  BY <1>4 DEF DmaLoad
<1>6. /\ dma_ram_addr \in [hi : Page, lo : Offset]
      /\ dma_ram_addr' = Succ_addr(dma_ram_addr)
  BY DEF DmaLoad, TypeOK
<1>7. /\ dma_ram_addr' \in [hi : Page, lo : Offset]
      /\ dma_ram_addr'.lo = Inc(dma_spr_addr, SPRITE_RAM_SIZE)
  BY <1>3, <1>4, <1>6 DEF Succ_addr, Inc, Page, Offset
<1>8. DmaPage = dma_ram_addr.hi /\ DmaPage' = DmaPage
  <2>1. ~(dma_cnt >= SPRITE_RAM_SIZE * 2 - 1)
    BY <1>3, <1>4
  <2> QED
    BY <2>1, DmaStepKeepsPage DEF DmaPage
<1>9. TypeOK'
  <2>1. dma_cnt' \in 0 .. SPRITE_RAM_SIZE * 2
    BY <1>3, <1>5
  <2> QED
    BY <1>7, <2>1 DEF DmaLoad, Returns, TypeOK, listVars, mainVars
<1>10. WalkInv'
  BY <1>1, <1>2 DEF DmaLoad, Returns, WalkInv
<1>11. BusInv' /\ CountInv'
  BY <1>2, <1>3, <1>5, <1>7 DEF BusInv, CountInv
<1>12. CopyInv'
  <2>1. Addressed
    BY <1>1 DEF BusInv, Addressed
  <2>2. DmaPage \notin IoPage => dma_ram_data' = mem[DmaPage][dma_spr_addr]
    BY <2>1, <1>4, <1>8 DEF DmaLoad
  <2> QED
    BY <1>1, <1>5, <1>8, <2>2 DEF DmaLoad, CopyInv
<1> QED
  BY <1>2, <1>9, <1>10, <1>11, <1>12

\* A store of the DMA keeps the invariant: one more byte is copied, and with
\* the last one the CPU's new node takes the DMA's place.
LEMMA DmaStoreClockInv == ASSUME ClockInv, DmaStore PROVE ClockInv'
<1> USE DEF ClockInv
<1>1. ch = MasterNode /\ DmaIsOn /\ ch \in Node
  BY DmaCounter
<1>2. dma_spr_addr \in 0 .. SPRITE_RAM_SIZE - 1 /\ dma_cnt \in Nat
  BY DmaCounter
<1>3. /\ dma_cnt = 2 * dma_spr_addr + 1
      /\ dma_ram_addr.lo = Inc(dma_spr_addr, SPRITE_RAM_SIZE)
  BY DmaCounter
<1>4. /\ dma_spr_addr' = Inc(dma_spr_addr, SPRITE_RAM_SIZE)
      /\ dma_cnt' = 2 * dma_spr_addr + 2
      /\ sprite_ram' = [sprite_ram EXCEPT ![dma_spr_addr] = dma_ram_data]
      /\ UNCHANGED <<mem, dma_ram_addr, dma_ram_data>>
  BY <1>2, <1>3 DEF DmaStore
<1>5. sprite_ram' \in [Offset -> Byte] /\ dma_spr_addr' \in Offset
      /\ dma_cnt' \in 0 .. SPRITE_RAM_SIZE * 2
  BY <1>2, <1>4 DEF TypeOK, Inc, Offset
<1>6. CASE LastDmaStep
  <2>1. PICK n \in Unused : SwapInCpu(n)
    BY <1>3, <1>6 DEF DmaStore
  <2>2. ready'
    BY <1>6 DEF DmaStore, ReleaseBus
  <2>3. /\ n \in Node /\ n \notin {PpuNode, MasterNode, ch}
        /\ handler_list' = <<PpuNode, n>>
        /\ handler' = [handler EXCEPT ![n] = "clock_cpu"]
        /\ cnt' = [cnt EXCEPT ![n] = 0]
        /\ next' = [next EXCEPT ![MasterNode] = NULL]
    BY <1>1, <2>1, SwapInCpuEffect DEF DmaIsOn
  <2>4. /\ PpuNode \in Node /\ MasterNode \in Node /\ PpuNode # MasterNode
        /\ handler \in [Node -> Handler] /\ handler[PpuNode] = "clock_ppu"
        /\ cnt \in [Node -> Nat] /\ next \in [Node -> Node \cup {NULL}]
    BY ListShape DEF TypeOK, OneBusMaster, PpuNode
  <2>5. /\ PpuNode' = PpuNode /\ MasterNode' = n /\ Len(handler_list') = 2
        /\ handler_list' \in Seq(Node)
    BY <2>3, <2>4 DEF PpuNode, MasterNode
  <2>6. handler'[PpuNode] = "clock_ppu" /\ handler'[n] = "clock_cpu"
    BY <2>3, <2>4
  <2>7. OneBusMaster' /\ ~DmaIsOn'
    BY <2>3, <2>5, <2>6 DEF OneBusMaster, PpuNode, MasterNode, DmaIsOn
  <2>8. TypeOK'
    <3>1. /\ handler' \in [Node -> Handler] /\ cnt' \in [Node -> Nat]
          /\ next' \in [Node -> Node \cup {NULL}]
      BY <2>3, <2>4 DEF Handler
    <3> QED
      BY <1>4, <1>5, <2>2, <2>5, <3>1 DEF DmaStore, Returns, TypeOK, mainVars
  <2>9. WalkInv'
    BY <1>1, <2>3, <2>4, <2>5 DEF DmaStore, Returns, WalkInv
  <2> QED
    BY <2>2, <2>7, <2>8, <2>9 DEF BusInv, CountInv, CopyInv
<1>7. CASE ~LastDmaStep
  <2>1. UNCHANGED <<listVars, cnt, ready>>
    BY <1>7 DEF DmaStore
  <2>2. /\ OneBusMaster' /\ PpuNode' = PpuNode /\ MasterNode' = MasterNode
        /\ DmaIsOn'
    BY <1>1, <2>1 DEF listVars, OneBusMaster, PpuNode, MasterNode, DmaIsOn
  <2>3. dma_spr_addr < SPRITE_RAM_SIZE - 1 /\ dma_spr_addr' = dma_spr_addr + 1
    BY <1>2, <1>3, <1>4, <1>7 DEF LastDmaStep, Inc
  <2>4. DmaPage' = DmaPage
    BY DmaStepKeepsPage
  <2>5. TypeOK'
    BY <1>4, <1>5, <2>1 DEF DmaStore, Returns, TypeOK, mainVars, listVars
  <2>6. WalkInv'
    BY <1>1, <2>2 DEF DmaStore, Returns, WalkInv
  <2>7. BusInv' /\ CountInv'
    BY <1>2, <1>3, <1>4, <2>2, <2>3 DEF BusInv, CountInv, Inc
  <2>8. CopyInv'
    <3>1. dma_cnt % 2 = 1 /\ dma_cnt' % 2 = 0
      BY <1>2, <1>3, <1>4
    <3>2. ASSUME DmaPage \notin IoPage, NEW i \in Offset, i < dma_spr_addr'
          PROVE  sprite_ram'[i] = mem[DmaPage][i]
      <4>1. sprite_ram \in [Offset -> Byte] /\ dma_spr_addr \in Offset
        BY DEF TypeOK
      <4>2. CASE i = dma_spr_addr
        BY <4>1, <4>2, <3>1, <3>2, <1>1, <1>4 DEF CopyInv
      <4>3. CASE i < dma_spr_addr
        <5>1. i # dma_spr_addr
          BY <4>3, <1>2
        <5>2. sprite_ram[i] = mem[DmaPage][i]
          BY <4>3, <3>2, <1>1 DEF CopyInv
        <5> QED
          BY <5>1, <5>2, <4>1, <1>4
      <4> QED
        BY <4>2, <4>3, <3>2, <1>2, <2>3 DEF Offset
    <3> QED
      BY <3>1, <3>2, <1>4, <2>4 DEF CopyInv
  <2> QED
    BY <2>2, <2>5, <2>6, <2>7, <2>8
<1> QED
  BY <1>6, <1>7

\* Every step keeps the invariant.
LEMMA NextClockInv == ClockInv /\ [Next]_vars => ClockInv'
<1> SUFFICES ASSUME ClockInv, [Next]_vars PROVE ClockInv'
  OBVIOUS
<1> USE DEF ClockInv
<1>list. /\ PpuNode \in Node /\ MasterNode \in Node /\ PpuNode # MasterNode
         /\ handler_list = <<PpuNode, MasterNode>>
         /\ Next_of(PpuNode) = MasterNode /\ Next_of(MasterNode) = NULL
         /\ \A n : n \notin {PpuNode, MasterNode} => Next_of(n) = next[n]
  BY ListShape
<1>same. ASSUME UNCHANGED <<handler_list, handler>>
         PROVE  /\ OneBusMaster' /\ handler_list' \in Seq(Node)
                /\ handler' \in [Node -> Handler]
                /\ PpuNode' = PpuNode /\ MasterNode' = MasterNode
                /\ DmaIsOn' = DmaIsOn
  BY <1>same DEF OneBusMaster, TypeOK, PpuNode, MasterNode, DmaIsOn
<1>1. CASE UNCHANGED vars
  <2>1. UNCHANGED <<listVars, cnt, walkVars, mainVars, ready, mem, sprite_ram, dmaVars>>
    BY <1>1 DEF vars
  <2>2. TypeOK'
    BY <2>1 DEF listVars, walkVars, mainVars, dmaVars, TypeOK
  <2>3. WalkInv'
    BY <2>1, <1>same DEF listVars, walkVars, WalkInv
  <2>4. BusInv' /\ CountInv' /\ CopyInv'
    BY <2>1, <1>same DEF listVars, dmaVars, BusInv, CountInv, CopyInv, DmaPage
  <2> QED
    BY <2>1, <2>2, <2>3, <2>4, <1>same DEF listVars
<1>2. CASE StartWalk
  <2>1. ch' = PpuNode /\ pc' = "visit"
    BY <1>2, <1>list DEF StartWalk
  <2>2. TypeOK'
    BY <1>2, <2>1, <1>list DEF StartWalk, TypeOK, listVars, mainVars, dmaVars
  <2>3. WalkInv'
    BY <1>2, <2>1, <1>list, <1>same DEF StartWalk, WalkInv, listVars
  <2> QED
    BY <1>2, <2>2, <2>3, <1>same DEF StartWalk, listVars, mainVars, dmaVars,
       BusInv, CountInv, CopyInv, DmaPage
<1>3. CASE LeaveLoop
  <2>1. TypeOK' /\ WalkInv'
    BY <1>3 DEF LeaveLoop, TypeOK, WalkInv, listVars, mainVars, dmaVars
  <2> QED
    BY <1>3, <2>1, <1>same DEF LeaveLoop, listVars, mainVars, dmaVars,
       BusInv, CountInv, CopyInv, DmaPage
<1>4. CASE Advance
  <2>1. ch \in Node /\ ch' \in {MasterNode, NULL}
    <3>1. ch \in Node
      BY <1>4 DEF Advance, WalkInv
    <3>2. CASE ch \in {PpuNode, MasterNode}
      BY <1>4, <3>1, <3>2, <1>list DEF Advance
    <3>3. CASE ch \notin {PpuNode, MasterNode}
      BY <1>4, <3>1, <3>3, <1>list DEF Advance, WalkInv
    <3> QED
      BY <3>1, <3>2, <3>3
  <2>2. TypeOK'
    <3>1. cnt' \in [Node -> Nat]
      <4>1. cnt \in [Node -> Nat] /\ cnt[ch] \in Nat
        BY <2>1 DEF TypeOK
      <4>2. \A k \in Nat : k + 1 \in Nat
        OBVIOUS
      <4> QED
        BY <1>4, <4>1, <4>2 DEF Advance
    <3> QED
      BY <1>4, <2>1, <3>1, <1>list DEF Advance, TypeOK, listVars, mainVars, dmaVars
  <2>3. WalkInv'
    BY <1>4, <2>1, <1>list, <1>same DEF Advance, WalkInv, listVars
  <2> QED
    BY <1>4, <2>2, <2>3, <1>same DEF Advance, listVars, mainVars, dmaVars,
       BusInv, CountInv, CopyInv, DmaPage
<1>walk. ASSUME Returns, UNCHANGED listVars, NEW h \in Handler, Calls(h)
         PROVE  WalkInv' /\ pc' \in {"top", "visit", "count", "done"}
                /\ ch' \in Node \cup {NULL}
                /\ exit_loop' \in BOOLEAN /\ main' \in {"running", "joining", "freed"}
                /\ next' \in [Node -> Node \cup {NULL}]
  BY <1>walk, <1>same DEF Returns, Calls, WalkInv, listVars, mainVars, TypeOK
<1>5. CASE ClockPpu
  <2>1. Returns /\ UNCHANGED listVars /\ WalkInv'
    BY <1>5, <1>walk DEF ClockPpu, Handler
  <2>2. TypeOK'
    BY <1>5, <1>walk, <1>same DEF ClockPpu, Handler, TypeOK, listVars, dmaVars
  <2> QED
    BY <1>5, <2>1, <2>2, <1>same DEF ClockPpu, listVars, dmaVars,
       BusInv, CountInv, CopyInv, DmaPage
<1>6. CASE CpuCycle
  <2>1. Returns /\ UNCHANGED listVars /\ WalkInv'
    BY <1>6, <1>walk DEF CpuCycle, Handler
  <2>2. TypeOK'
    BY <1>6, <1>walk, <1>same DEF CpuCycle, Handler, TypeOK, listVars, dmaVars
  <2> QED
    BY <1>6, <2>1, <2>2, <1>same DEF CpuCycle, listVars, dmaVars,
       BusInv, CountInv, CopyInv, DmaPage
<1>7. CASE CpuStore
  <2>1. ~DmaIsOn
    BY <1>7, CalledNode DEF CpuStore, DmaIsOn
  <2>2. mem' \in [Page -> [Offset -> Byte]] /\ sprite_ram' \in [Offset -> Byte]
    <3>1. /\ mem \in [Page -> [Offset -> Byte]]
          /\ sprite_ram \in [Offset -> Byte]
      BY DEF TypeOK
    <3>2. PICK lo \in Offset, b \in Byte :
             \/ /\ \E hi \in Page \ IoPage : mem' = [mem EXCEPT ![hi][lo] = b]
                /\ UNCHANGED sprite_ram
             \/ /\ sprite_ram' = [sprite_ram EXCEPT ![lo] = b]
                /\ UNCHANGED mem
      BY <1>7 DEF CpuStore
    <3> QED
      BY <3>1, <3>2
  <2>3. TypeOK' /\ WalkInv'
    BY <1>7, <2>2, <1>walk, <1>same DEF CpuStore, Handler, TypeOK, listVars, dmaVars
  <2> QED
    BY <1>7, <2>1, <2>3, <1>same DEF CpuStore, listVars, dmaVars,
       BusInv, CountInv, CopyInv
<1>8. CASE CpuStartDma
  <2>1. ch = MasterNode /\ handler[MasterNode] = "clock_cpu"
    BY <1>8, CalledNode DEF CpuStartDma
  <2>2. PICK n \in Unused : SwapInDma(n)
    BY <1>8 DEF CpuStartDma
  <2>3. /\ n \in Node /\ n \notin {PpuNode, MasterNode, ch}
        /\ handler_list' = <<PpuNode, n>>
        /\ handler' = [handler EXCEPT ![n] = "clock_dma"]
        /\ cnt' = [cnt EXCEPT ![n] = 0]
        /\ next' = [next EXCEPT ![MasterNode] = n]
    BY <2>1, <2>2, SwapInDmaEffect
  <2>4. /\ handler \in [Node -> Handler] /\ handler[PpuNode] = "clock_ppu"
        /\ cnt \in [Node -> Nat] /\ next \in [Node -> Node \cup {NULL}]
    BY DEF TypeOK, OneBusMaster, PpuNode
  <2>5. /\ PpuNode' = PpuNode /\ MasterNode' = n /\ Len(handler_list') = 2
        /\ handler_list' \in Seq(Node)
    BY <2>3, <1>list DEF PpuNode, MasterNode
  <2>6. handler'[PpuNode] = "clock_ppu" /\ handler'[n] = "clock_dma"
    BY <2>3, <2>4, <1>list
  <2>7. OneBusMaster'
    BY <2>3, <2>5, <2>6 DEF OneBusMaster, PpuNode, MasterNode
  <2>8. TypeOK'
    <3>1. /\ handler' \in [Node -> Handler] /\ cnt' \in [Node -> Nat]
          /\ next' \in [Node -> Node \cup {NULL}]
      BY <2>3, <2>4 DEF Handler
    <3>2. /\ dma_ram_addr' \in [hi : Page, lo : Offset]
          /\ dma_spr_addr' \in Offset
          /\ dma_cnt' \in 0 .. SPRITE_RAM_SIZE * 2
      BY <1>8 DEF CpuStartDma, Page, Offset
    <3> QED
      BY <1>8, <2>5, <3>1, <3>2 DEF CpuStartDma, Returns, TypeOK, mainVars
  <2>9. WalkInv'
    BY <1>8, <2>1, <2>3, <2>4, <2>5, <1>list DEF CpuStartDma, Returns, WalkInv
  <2>10. ready' /\ dma_cnt' = 0 /\ dma_spr_addr' = 0 /\ dma_ram_addr'.lo = 0
    BY <1>8 DEF CpuStartDma
  <2>11. BusInv' /\ CountInv' /\ CopyInv'
    BY <2>10 DEF BusInv, CountInv, CopyInv, Offset
  <2> QED
    BY <2>7, <2>8, <2>9, <2>11
<1>9. CASE CpuFails
  <2>1. TypeOK' /\ WalkInv'
    BY <1>9 DEF CpuFails, TypeOK, WalkInv, listVars, mainVars, dmaVars
  <2> QED
    BY <1>9, <2>1, <1>same DEF CpuFails, listVars, mainVars, dmaVars,
       BusInv, CountInv, CopyInv, DmaPage
<1>10. CASE DmaLoad
  PROOF BY <1>10, DmaLoadClockInv
<1>11. CASE DmaStore
  PROOF BY <1>11, DmaStoreClockInv
<1>12. CASE EndLoop \/ JoinAndFree
  <2>1. /\ UNCHANGED <<listVars, cnt, walkVars, ready, mem, sprite_ram, dmaVars>>
        /\ exit_loop' \in BOOLEAN /\ main' \in {"running", "joining", "freed"}
    BY <1>12 DEF EndLoop, JoinAndFree, TypeOK
  <2>2. TypeOK'
    BY <2>1 DEF listVars, walkVars, dmaVars, TypeOK
  <2>3. WalkInv'
    BY <2>1, <1>same DEF listVars, walkVars, WalkInv
  <2> QED
    BY <2>1, <2>2, <2>3, <1>same DEF listVars, dmaVars, BusInv, CountInv, CopyInv, DmaPage
<1> QED
  BY <1>1, <1>2, <1>3, <1>4, <1>5, <1>6, <1>7, <1>8, <1>9, <1>10, <1>11, <1>12
     DEF Next, ClockThread

-----------------------------------------------------------------------------
(* What the specification promises. *)

\* In every reachable state the inductive invariant holds.
THEOREM ClockInvariant == Spec => []ClockInv
<1>1. Init => ClockInv
  BY InitClockInv
<1>2. ClockInv /\ [Next]_vars => ClockInv'
  BY NextClockInv
<1> QED
  BY <1>1, <1>2, PTL DEF Spec

\* Every variable keeps its type: no counter, address or node leaves its range,
\* whatever the sizes.
THEOREM TypeCorrect == Spec => []TypeOK
<1>1. ClockInv => TypeOK
  BY DEF ClockInv
<1> QED
  BY <1>1, ClockInvariant, PTL

\* The handler list is always the PPU and one bus master.
THEOREM OneMaster == Spec => []OneBusMaster
<1>1. ClockInv => OneBusMaster
  BY DEF ClockInv
<1> QED
  BY <1>1, ClockInvariant, PTL

\* Whenever the CPU is about to run, and whenever the DMA begins, the bus is
\* ready.
THEOREM BusIsReady == Spec => []MasterFindsBus
<1>1. ClockInv => MasterFindsBus
  <2> SUFFICES ASSUME ClockInv PROVE MasterFindsBus
    OBVIOUS
  <2>1. ASSUME Calls("clock_cpu") PROVE ready
    <3>1. handler[MasterNode] = "clock_cpu"
      BY <2>1, CalledNode
    <3> QED
      BY <3>1 DEF ClockInv, BusInv, DmaIsOn
  <2>2. ASSUME dma_cnt = 0 PROVE ready
    BY <2>2 DEF ClockInv, BusInv
  <2> QED
    BY <2>1, <2>2 DEF MasterFindsBus
<1> QED
  BY <1>1, ClockInvariant, PTL

-----------------------------------------------------------------------------
(* The clock implements SpriteDma. *)

\* Which of the two the abstract bus master is.
LEMMA MasterIs ==
  ASSUME ClockInv
  PROVE  /\ pc = "done" => master = "none"
         /\ pc # "done" /\ DmaIsOn => master = "dma"
         /\ pc # "done" /\ ~DmaIsOn => master = "cpu"
<1>1. Registered("clock_dma") <=> DmaIsOn
  BY ListShape DEF ClockInv, OneBusMaster, PpuNode, DmaIsOn
<1> QED
  BY <1>1 DEF master

\* Each step of the clock is a step of SpriteDma or changes none of its state.
LEMMA StepSimulates ==
  ASSUME ClockInv, ClockInv', [Next]_vars
  PROVE  [Dma!Next]_(Dma!vars)
<1> DEFINE still == UNCHANGED <<mem, sprite_ram, dma_ram_addr, dma_spr_addr, dma_cnt>>
<1>quiet. ASSUME UNCHANGED <<handler_list, handler>>, still, pc' = "done" <=> pc = "done"
          PROVE  UNCHANGED Dma!vars
  <2>1. DmaIsOn' = DmaIsOn
    BY <1>quiet DEF DmaIsOn, MasterNode
  <2>2. master' = master
    BY <2>1, <1>quiet DEF master, Registered
  <2>3. DmaPage' = DmaPage
    BY <1>quiet DEF DmaPage
  <2> QED
    BY <2>2, <2>3, <1>quiet DEF Dma!vars
<1>halt. ASSUME UNCHANGED <<handler_list, handler>>, still, pc' = "done", pc # "done"
         PROVE  Dma!Halt
  <2>1. master # "none" /\ master' = "none"
    BY <1>halt, MasterIs DEF master
  <2>2. DmaPage' = DmaPage
    BY <1>halt DEF DmaPage
  <2> QED
    BY <2>1, <2>2, <1>halt DEF Dma!Halt
<1>1. CASE UNCHANGED vars
  BY <1>1, <1>quiet DEF vars, listVars, walkVars, dmaVars
<1>2. CASE StartWalk
  BY <1>2, <1>quiet DEF StartWalk, listVars, dmaVars
<1>3. CASE LeaveLoop
  BY <1>3, <1>halt DEF LeaveLoop, listVars, dmaVars, Dma!Next
<1>4. CASE Advance
  <2>1. pc # "done" /\ pc' # "done"
    BY <1>4 DEF Advance
  <2> QED
    BY <1>4, <2>1, <1>quiet DEF Advance, listVars, dmaVars
<1>5. CASE ClockPpu \/ CpuCycle
  <2>1. pc # "done" /\ pc' # "done" /\ still /\ UNCHANGED <<handler_list, handler>>
    BY <1>5 DEF ClockPpu, CpuCycle, Calls, Returns, listVars, dmaVars
  <2> QED
    BY <2>1, <1>quiet
<1>6. CASE CpuStore
  <2>1. /\ pc # "done" /\ pc' # "done" /\ UNCHANGED <<handler_list, handler>>
        /\ UNCHANGED <<dma_ram_addr, dma_spr_addr, dma_cnt>>
    BY <1>6 DEF CpuStore, Calls, Returns, listVars, dmaVars
  <2>2. ~DmaIsOn
    BY <1>6, CalledNode DEF CpuStore, DmaIsOn
  <2>3. master = "cpu" /\ master' = master /\ DmaPage' = DmaPage
    BY <2>1, <2>2, MasterIs DEF master, Registered, DmaPage
  <2>4. Dma!Store
    BY <1>6, <2>1, <2>3 DEF CpuStore, Dma!Store, Dma!Page, Dma!Offset, Page, Offset
  <2> QED
    BY <2>4 DEF Dma!Next
<1>7. CASE CpuStartDma
  <2>1. handler[MasterNode] = "clock_cpu" /\ pc # "done" /\ pc' # "done"
    BY <1>7, CalledNode DEF CpuStartDma, Calls, Returns
  <2>2. PICK n \in Unused : SwapInDma(n)
    BY <1>7 DEF CpuStartDma
  <2>3. handler_list' = <<PpuNode, n>> /\ handler' = [handler EXCEPT ![n] = "clock_dma"]
        /\ n \in Node /\ handler \in [Node -> Handler]
    BY <2>1, <2>2, SwapInDmaEffect DEF ClockInv, TypeOK
  <2>4. DmaIsOn' /\ ~DmaIsOn
    BY <2>1, <2>3 DEF DmaIsOn, MasterNode
  <2>5. master = "cpu"
    BY <2>1, <2>4, MasterIs
  <2>6. Registered("clock_dma")'
    BY <2>3 DEF Registered
  <2>7. master' = "dma"
    BY <2>1, <2>6 DEF master
  <2>8. dma_cnt' = 0 /\ dma_spr_addr' = 0 /\ dma_ram_addr'.hi \in Page
    BY <1>7 DEF CpuStartDma
  <2>9. DmaPage' \in Page
    BY <2>8 DEF DmaPage
  <2>10. Dma!Start
    BY <1>7, <2>5, <2>7, <2>8, <2>9 DEF CpuStartDma, Dma!Start, Dma!Page, Page
  <2> QED
    BY <2>10 DEF Dma!Next
<1>8. CASE CpuFails
  <2>1. pc # "done" /\ pc' = "done"
    BY <1>8 DEF CpuFails, Calls
  <2> QED
    BY <1>8, <2>1, <1>halt DEF CpuFails, listVars, dmaVars, Dma!Next
<1>9. CASE DmaLoad
  <2>1. /\ UNCHANGED <<handler_list, handler, mem, sprite_ram, dma_spr_addr>>
        /\ pc # "done" /\ pc' # "done"
    BY <1>9 DEF DmaLoad, Calls, Returns, listVars
  <2>2. master' = master
    BY <2>1 DEF master, Registered
  <2> QED
    BY <1>9, <2>1, <2>2, DmaStepKeepsPage DEF Dma!vars
<1>10. CASE DmaStore
  <2>1. /\ dma_spr_addr \in Offset /\ DmaIsOn /\ pc # "done" /\ pc' # "done"
        /\ dma_cnt = 2 * dma_spr_addr + 1
    BY <1>10, DmaCounter DEF DmaStore, Calls, Returns, Offset
  <2>2. master = "dma" /\ DmaPage' = DmaPage
    BY <1>10, <2>1, MasterIs, DmaStepKeepsPage
  <2>3. /\ dma_ram_data \in Byte
        /\ DmaPage \notin IoPage => dma_ram_data = mem[DmaPage][dma_spr_addr]
    <3>1. dma_cnt % 2 = 1
      BY <1>10 DEF DmaStore
    <3> QED
      BY <2>1, <3>1 DEF ClockInv, TypeOK, CopyInv
  <2>4. LastDmaStep <=> dma_spr_addr = SPRITE_RAM_SIZE - 1
    BY <2>1 DEF LastDmaStep, Offset
  <2>5. /\ sprite_ram' = [sprite_ram EXCEPT ![dma_spr_addr] = dma_ram_data]
        /\ mem' = mem
        /\ dma_spr_addr' = Inc(dma_spr_addr, SPRITE_RAM_SIZE)
    BY <1>10 DEF DmaStore
  <2>6. CASE LastDmaStep
    <3>1. PICK n \in Unused : SwapInCpu(n)
      BY <1>10, <2>6 DEF DmaStore
    <3>2. /\ handler_list' = <<PpuNode, n>> /\ n # PpuNode /\ PpuNode \in Node
          /\ handler' = [handler EXCEPT ![n] = "clock_cpu"]
          /\ n \in Node /\ handler \in [Node -> Handler]
      BY <2>1, <3>1, SwapInCpuEffect, ListShape DEF ClockInv, TypeOK, DmaIsOn
    <3>3. ~DmaIsOn'
      BY <3>2 DEF DmaIsOn, MasterNode
    <3>4. ~Registered("clock_dma")'
      <4>1. handler[PpuNode] = "clock_ppu"
        BY DEF ClockInv, OneBusMaster, PpuNode
      <4>2. handler'[PpuNode] = "clock_ppu" /\ handler'[n] = "clock_cpu"
        BY <3>2, <4>1
      <4>3. /\ DOMAIN handler_list' = {1, 2}
            /\ handler_list'[1] = PpuNode /\ handler_list'[2] = n
        BY <3>2
      <4> QED
        BY <4>2, <4>3 DEF Registered
    <3>5. master' = "cpu"
      BY <2>1, <3>4 DEF master
    <3> QED
      BY <2>2, <2>3, <2>4, <2>5, <2>6, <3>5 DEF Dma!Next, Dma!Copy, Inc
  <2>7. CASE ~LastDmaStep
    <3>1. UNCHANGED <<handler_list, handler>>
      BY <1>10, <2>7 DEF DmaStore, listVars
    <3>2. master' = master
      BY <2>1, <3>1 DEF master, Registered
    <3> QED
      BY <2>2, <2>3, <2>4, <2>5, <2>7, <3>2 DEF Dma!Next, Dma!Copy, Inc
  <2> QED
    BY <2>6, <2>7
<1>11. CASE EndLoop \/ JoinAndFree
  <2>1. still /\ UNCHANGED <<handler_list, handler, pc>>
    BY <1>11 DEF EndLoop, JoinAndFree, listVars, walkVars, dmaVars
  <2> QED
    BY <2>1, <1>quiet
<1> QED
  BY <1>1, <1>2, <1>3, <1>4, <1>5, <1>6, <1>7, <1>8, <1>9, <1>10, <1>11
     DEF Next, ClockThread

\* The safety part of ImplementsDma: seen through the mapping, every behaviour
\* of the clock thread starts and steps as SpriteDma does.
THEOREM ClockImplementsDma == Spec => Dma!Init /\ [][Dma!Next]_(Dma!vars)
<1>1. Init => Dma!Init
  <2> SUFFICES ASSUME Init PROVE Dma!Init
    OBVIOUS
  <2>1. PICK p, c \in Node :
           /\ p # c
           /\ handler_list = <<p, c>>
           /\ handler = [n \in Node |-> IF n = p THEN "clock_ppu" ELSE "clock_cpu"]
    BY DEF Init
  <2>2. ~Registered("clock_dma")
    <3>1. /\ DOMAIN handler_list = {1, 2}
          /\ handler_list[1] = p /\ handler_list[2] = c
      BY <2>1
    <3>2. handler[p] = "clock_ppu" /\ handler[c] = "clock_cpu"
      BY <2>1
    <3> QED
      BY <3>1, <3>2 DEF Registered
  <2>3. master = "cpu"
    BY <2>2 DEF Init, master
  <2>4. DmaPage = 0
    BY DEF Init, DmaPage, Dec
  <2> QED
    BY <2>3, <2>4 DEF Init, Dma!Init, Dma!Page, Dma!Offset, Page, Offset
<1>2. ClockInv /\ ClockInv' /\ [Next]_vars => [Dma!Next]_(Dma!vars)
  BY StepSimulates
<1> QED
  BY <1>1, <1>2, ClockInvariant, PTL DEF Spec

\* When the DMA hands the list back, sprite RAM is the page it was asked for.
THEOREM CopiesPage == Spec => DmaCopiesPage
<1> DEFINE step == DmaEnds /\ DmaPage \notin IoPage => sprite_ram' = mem'[DmaPage]
<1>1. ASSUME ClockInv, ClockInv', [Next]_vars PROVE [step]_vars
  <2> SUFFICES ASSUME Next, DmaEnds, DmaPage \notin IoPage
               PROVE  sprite_ram' = mem'[DmaPage]
    BY <1>1
  <2>1. DmaIsOn /\ ~DmaIsOn'
    <3>1. Registered("clock_dma") <=> DmaIsOn
      BY <1>1, ListShape DEF ClockInv, OneBusMaster, PpuNode, DmaIsOn
    <3>2. DmaIsOn' => Registered("clock_dma")'
      BY <1>1 DEF ClockInv, OneBusMaster, DmaIsOn, MasterNode, Registered
    <3> QED
      BY <3>1, <3>2 DEF DmaEnds
  <2>2. CASE DmaStore
    <3>1. LastDmaStep
      BY <2>1, <2>2 DEF DmaStore, listVars, DmaIsOn, MasterNode
    <3>2. /\ dma_spr_addr \in 0 .. SPRITE_RAM_SIZE - 1
          /\ dma_cnt = 2 * dma_spr_addr + 1 /\ dma_cnt % 2 = 1
      BY <1>1, <2>2, DmaCounter DEF DmaStore
    <3>3. dma_spr_addr = SPRITE_RAM_SIZE - 1
      BY <3>1, <3>2 DEF LastDmaStep
    <3>4. /\ sprite_ram \in [Offset -> Byte] /\ mem \in [Page -> [Offset -> Byte]]
          /\ DmaPage \in Page
      <4>1. dma_ram_addr.hi \in Page
        BY <1>1 DEF ClockInv, TypeOK
      <4>2. Dec(dma_ram_addr.hi, PAGES) \in Page
        BY <4>1 DEF Dec, Page
      <4> QED
        BY <1>1, <4>1, <4>2 DEF ClockInv, TypeOK, DmaPage
    <3>5. /\ sprite_ram' = [sprite_ram EXCEPT ![dma_spr_addr] = mem[DmaPage][dma_spr_addr]]
          /\ mem' = mem
      BY <1>1, <2>1, <2>2, <3>2 DEF DmaStore, ClockInv, CopyInv
    <3>6. \A i \in Offset : i # dma_spr_addr => sprite_ram[i] = mem[DmaPage][i]
      <4>1. \A i \in Offset : i < dma_spr_addr \/ i = dma_spr_addr
        BY <3>2, <3>3 DEF Offset
      <4> QED
        BY <1>1, <2>1, <4>1 DEF ClockInv, CopyInv
    <3> QED
      BY <3>4, <3>5, <3>6
  <2>3. CASE CpuStartDma
    BY <1>1, <2>1, <2>3, CalledNode DEF CpuStartDma, DmaIsOn
  <2>4. CASE ~(DmaStore \/ CpuStartDma)
    <3>1. UNCHANGED <<handler_list, handler>>
      BY <2>4 DEF Next, ClockThread, StartWalk, LeaveLoop, Advance, ClockPpu, CpuCycle,
         CpuStore, CpuFails, DmaLoad, EndLoop, JoinAndFree, listVars
    <3> QED
      BY <2>1, <3>1 DEF DmaIsOn, MasterNode
  <2> QED
    BY <2>2, <2>3, <2>4
<1>2. Spec => [][step]_vars
  BY <1>1, ClockInvariant, PTL DEF Spec
<1> QED
  BY <1>2 DEF DmaCopiesPage

-----------------------------------------------------------------------------
(* The pace of the bus masters. *)

\* The history only watches.
LEMMA PaceIsClock == [PaceNext]_paceVars => [Next]_vars
  BY DEF PaceNext, Dot, MasterStep, OtherStep, paceVars, Next, ClockThread

\* What a step of the bus master does to the list, the counts and the measures: the CPU
\* stays or makes way for the DMA, the DMA goes on or makes way for the CPU.
LEMMA MasterEffect ==
  ASSUME ClockInv, MasterStep
  PROVE  /\ ch = MasterNode /\ ch' = ch /\ PpuNode' = PpuNode /\ ch # PpuNode
         /\ pc = "visit" /\ pc' \in {"count", "done"} /\ cnt[MasterNode] = 0
         /\ since' = 0 /\ stolen' = IF DmaIsOn THEN stolen ELSE 0
         /\ cnt'[MasterNode'] = 0 /\ cnt'[PpuNode] = cnt[PpuNode]
         /\ \/ ~DmaIsOn /\ ~DmaIsOn' /\ MasterNode' = MasterNode
            \/ /\ ~DmaIsOn /\ DmaIsOn' /\ pc' = "count" /\ dma_cnt' = 0
               /\ MasterNode' # MasterNode /\ next'[ch] = MasterNode'
            \/ /\ DmaIsOn /\ DmaIsOn' /\ pc' = "count" /\ MasterNode' = MasterNode
               /\ dma_cnt \in Nat /\ dma_cnt' = dma_cnt + 1
            \/ /\ DmaIsOn /\ ~DmaIsOn' /\ pc' = "count" /\ MasterNode' # MasterNode
               /\ next'[ch] = NULL /\ dma_cnt = SPRITE_RAM_SIZE * 2 - 1
<1> DEFINE cpu == CpuCycle \/ CpuStore \/ CpuStartDma \/ CpuFails
           dma == DmaLoad \/ DmaStore
<1>list. /\ PpuNode \in Node /\ MasterNode \in Node /\ PpuNode # MasterNode
         /\ cnt \in [Node -> Nat] /\ next \in [Node -> Node \cup {NULL}]
         /\ handler \in [Node -> Handler] /\ handler[PpuNode] = "clock_ppu"
  BY ListShape DEF ClockInv, TypeOK, OneBusMaster, PpuNode
<1>1. /\ cpu => Calls("clock_cpu")
      /\ dma => Calls("clock_dma")
      /\ cpu \/ dma
  BY DEF MasterStep, CpuCycle, CpuStore, CpuStartDma, CpuFails, DmaLoad, DmaStore
<1>2. /\ ch = MasterNode /\ pc = "visit" /\ cnt[MasterNode] = 0
      /\ cpu => ~DmaIsOn
      /\ dma => DmaIsOn
  BY <1>1, CalledNode DEF Calls, DmaIsOn
<1>3. since' = 0 /\ stolen' = IF DmaIsOn THEN stolen ELSE 0
  BY <1>1, <1>2 DEF MasterStep, Calls, DmaIsOn
<1>4. ch' = ch /\ pc' \in {"count", "done"} /\ (~CpuFails => pc' = "count")
  BY DEF MasterStep, CpuCycle, CpuStore, CpuStartDma, CpuFails, DmaLoad, DmaStore, Returns
<1>same. ASSUME UNCHANGED <<listVars, cnt>>
         PROVE  /\ PpuNode' = PpuNode /\ MasterNode' = MasterNode /\ DmaIsOn' = DmaIsOn
                /\ cnt'[MasterNode'] = 0 /\ cnt'[PpuNode] = cnt[PpuNode]
  BY <1>same, <1>2 DEF listVars, PpuNode, MasterNode, DmaIsOn
<1>5. CASE CpuCycle \/ CpuStore \/ CpuFails
  <2>1. UNCHANGED <<listVars, cnt>>
    BY <1>5 DEF CpuCycle, CpuStore, CpuFails
  <2> QED
    BY <1>2, <1>3, <1>4, <1>5, <1>same, <1>list, <2>1
<1>6. CASE CpuStartDma
  <2>1. PICK n \in Unused : SwapInDma(n)
    BY <1>6 DEF CpuStartDma
  <2>2. handler[MasterNode] = "clock_cpu"
    BY <1>6, CalledNode DEF CpuStartDma
  <2>3. /\ n \in Node /\ n \notin {PpuNode, MasterNode, ch}
        /\ handler_list' = <<PpuNode, n>>
        /\ handler' = [handler EXCEPT ![n] = "clock_dma"]
        /\ cnt' = [cnt EXCEPT ![n] = 0]
        /\ next' = [next EXCEPT ![MasterNode] = n]
    BY <2>1, <2>2, SwapInDmaEffect DEF ClockInv
  <2>4. PpuNode' = PpuNode /\ MasterNode' = n
    BY <2>3 DEF PpuNode, MasterNode
  <2>5. DmaIsOn' /\ cnt'[n] = 0 /\ cnt'[PpuNode] = cnt[PpuNode] /\ next'[ch] = n
    BY <1>2, <2>3, <2>4, <1>list DEF DmaIsOn
  <2>6. dma_cnt' = 0 /\ pc' = "count"
    BY <1>6 DEF CpuStartDma, Returns
  <2> QED
    BY <1>2, <1>3, <1>4, <1>6, <1>list, <2>3, <2>4, <2>5, <2>6
<1>7. CASE dma /\ UNCHANGED <<listVars, cnt>>
  <2>1. dma_cnt \in Nat /\ dma_cnt' = dma_cnt + 1
    BY <1>7, DmaCounter DEF DmaLoad, DmaStore
  <2> QED
    BY <1>2, <1>3, <1>4, <1>7, <1>same, <1>list, <2>1 DEF CpuFails, Calls
<1>8. CASE DmaStore /\ LastDmaStep
  <2>1. PICK n \in Unused : SwapInCpu(n)
    BY <1>8 DEF DmaStore
  <2>2. handler[MasterNode] = "clock_dma"
    BY <1>8, CalledNode DEF DmaStore
  <2>3. /\ n \in Node /\ n \notin {PpuNode, MasterNode, ch}
        /\ handler_list' = <<PpuNode, n>>
        /\ handler' = [handler EXCEPT ![n] = "clock_cpu"]
        /\ cnt' = [cnt EXCEPT ![n] = 0]
        /\ next' = [next EXCEPT ![MasterNode] = NULL]
    BY <2>1, <2>2, SwapInCpuEffect DEF ClockInv
  <2>4. PpuNode' = PpuNode /\ MasterNode' = n
    BY <2>3 DEF PpuNode, MasterNode
  <2>5. ~DmaIsOn' /\ cnt'[n] = 0 /\ cnt'[PpuNode] = cnt[PpuNode] /\ next'[ch] = NULL
    BY <1>2, <2>3, <2>4, <1>list DEF DmaIsOn
  <2>6. pc' = "count" /\ dma_cnt = SPRITE_RAM_SIZE * 2 - 1
    BY <1>8 DEF DmaStore, Returns, LastDmaStep
  <2> QED
    BY <1>2, <1>3, <1>4, <1>8, <1>list, <2>3, <2>4, <2>5, <2>6
<1>9. dma => UNCHANGED <<listVars, cnt>> \/ (DmaStore /\ LastDmaStep)
  BY DEF DmaLoad, DmaStore
<1> QED
  BY <1>1, <1>5, <1>6, <1>7, <1>8, <1>9

\* A node is counted, and the walk goes on to the next one.
LEMMA AdvanceEffect ==
  ASSUME ClockInv, Advance
  PROVE  /\ UNCHANGED <<handler_list, handler, next, dma_cnt>>
         /\ ch \in Node
         /\ cnt' = [cnt EXCEPT ![ch] = IF @ + 1 = Devider(handler[ch]) THEN 0 ELSE @ + 1]
         /\ pc = "count" \/ (pc = "visit" /\ cnt[ch] # 0)
         /\ ch = PpuNode => ch' = MasterNode /\ pc' = "visit"
         /\ ch = MasterNode => ch' = NULL /\ pc' = "top"
         /\ ch \notin {PpuNode, MasterNode} => ch' = next[ch]
         /\ pc' = IF ch' = NULL THEN "top" ELSE "visit"
<1>1. /\ PpuNode \in Node /\ MasterNode \in Node
      /\ Next_of(PpuNode) = MasterNode /\ Next_of(MasterNode) = NULL
      /\ \A n : n \notin {PpuNode, MasterNode} => Next_of(n) = next[n]
  BY ListShape DEF ClockInv
<1>2. ch \in Node
  BY DEF ClockInv, WalkInv, Advance
<1> QED
  BY <1>1, <1>2 DEF Advance, listVars, dmaVars

\* The other steps leave the list and the counts alone.
LEMMA QuietEffect ==
  ASSUME ClockInv, Dot \/ StartWalk \/ LeaveLoop \/ EndLoop \/ JoinAndFree \/ UNCHANGED paceVars
  PROVE  /\ UNCHANGED <<handler_list, handler, next, cnt, dma_cnt>>
         /\ \/ Dot /\ pc = "visit" /\ pc' = "count" /\ ch = PpuNode /\ ch' = ch
            \/ pc = "top" /\ pc' = "visit" /\ ch' = PpuNode
            \/ pc = "top" /\ pc' = "done" /\ ch' = ch
            \/ pc' = pc /\ ch' = ch
<1>1. ASSUME Calls("clock_ppu") PROVE ch = PpuNode
  BY <1>1 DEF Calls, ClockInv, WalkInv, OneBusMaster, MasterNode
<1>2. Head(handler_list) = PpuNode
  BY ListShape DEF ClockInv
<1>3. ASSUME Dot
      PROVE  /\ pc = "visit" /\ pc' = "count" /\ ch = PpuNode /\ ch' = ch
             /\ UNCHANGED <<handler_list, handler, next, cnt, dma_cnt>>
  BY <1>1, <1>3 DEF Dot, ClockPpu, Calls, Returns, listVars, dmaVars
<1> QED
  BY <1>2, <1>3 DEF StartWalk, LeaveLoop, EndLoop, JoinAndFree, paceVars, vars,
     listVars, walkVars, dmaVars

LEMMA NodesDiffer ==
  ASSUME ClockInv
  PROVE  /\ PpuNode \in Node /\ MasterNode \in Node /\ PpuNode # MasterNode
         /\ cnt \in [Node -> Nat]
         /\ Devider(handler[MasterNode]) = CPU_DEVIDER
         /\ Devider(handler[PpuNode]) = PPU_DEVIDER
         /\ pc \in {"top", "visit", "count", "done"}
         /\ pc = "visit" => ch \in {PpuNode, MasterNode}
<1>1. handler[PpuNode] = "clock_ppu" /\ handler[MasterNode] # "clock_ppu"
  BY DEF ClockInv, OneBusMaster, PpuNode, MasterNode
<1> QED
  BY <1>1, ListShape DEF ClockInv, TypeOK, WalkInv, Devider

\* How the count of the master goes round, and the dots with it.
LEMMA CountGoesRound ==
  ASSUME NEW k \in Nat, k < CPU_DEVIDER,
         NEW j, j = IF k + 1 = CPU_DEVIDER THEN 0 ELSE k + 1
  PROVE  /\ j \in Nat /\ j < CPU_DEVIDER /\ Elapsed(j) = k
         /\ Elapsed(k) \in Nat /\ Elapsed(k) < CPU_DEVIDER
         /\ k # 0 => Elapsed(k) + 1 = k
  BY DEF Elapsed

LEMMA InitPace == PaceInit => CadenceInv /\ (PPU_DEVIDER = 1 => StolenInv)
<1> SUFFICES ASSUME PaceInit PROVE CadenceInv /\ StolenInv
  OBVIOUS
<1>1. ClockInv /\ ~DmaIsOn
  <2>1. ClockInv
    BY InitClockInv DEF PaceInit
  <2>2. PICK p, c \in Node :
           /\ p # c
           /\ handler_list = <<p, c>>
           /\ handler = [n \in Node |-> IF n = p THEN "clock_ppu" ELSE "clock_cpu"]
    BY DEF PaceInit, Init
  <2> QED
    BY <2>1, <2>2 DEF DmaIsOn, MasterNode
<1>2. cnt[PpuNode] = 0 /\ cnt[MasterNode] = 0 /\ pc = "top"
  BY <1>1, NodesDiffer DEF PaceInit, Init
<1> QED
  BY <1>1, <1>2 DEF PaceInit, CadenceInv, StolenInv, Dots, DotDone, Elapsed, Stepped, Swapped

\* The master steps in time: every count of the walk is a tick, and a swap starts from 0.
LEMMA CadenceStep ==
  ASSUME ClockInv, ClockInv', CadenceInv, [PaceNext]_paceVars
  PROVE  CadenceInv'
<1>nodes. /\ PpuNode \in Node /\ MasterNode \in Node /\ PpuNode # MasterNode
          /\ cnt \in [Node -> Nat] /\ cnt[MasterNode] \in Nat /\ cnt[MasterNode] < CPU_DEVIDER
          /\ Devider(handler[MasterNode]) = CPU_DEVIDER
          /\ pc \in {"top", "visit", "count", "done"}
          /\ pc = "visit" => ch \in {PpuNode, MasterNode}
          /\ since \in Nat
  BY NodesDiffer DEF CadenceInv
<1>round. /\ Elapsed(cnt[MasterNode]) \in Nat /\ Elapsed(cnt[MasterNode]) < CPU_DEVIDER
          /\ cnt[MasterNode] # 0 => Elapsed(cnt[MasterNode]) + 1 = cnt[MasterNode]
  BY <1>nodes, CountGoesRound
<1>1. CASE MasterStep
  <2>1. /\ ch' = ch /\ PpuNode' = PpuNode /\ ch # PpuNode /\ pc' \in {"count", "done"}
        /\ since' = 0 /\ cnt'[MasterNode'] = 0
    BY <1>1, MasterEffect
  <2> QED
    BY <2>1 DEF CadenceInv, Stepped
<1>2. CASE Advance /\ UNCHANGED since
  <2>0. PpuNode' = PpuNode /\ MasterNode' = MasterNode
    BY <1>2, AdvanceEffect DEF PpuNode, MasterNode
  <2>1. pc' \in {"top", "visit"} /\ ~Stepped'
    BY <1>2, AdvanceEffect DEF Stepped
  <2>2. CASE ch = PpuNode
    <3>1. ch' = MasterNode /\ pc' = "visit" /\ cnt'[MasterNode] = cnt[MasterNode]
      BY <1>2, <1>nodes, <2>2, AdvanceEffect
    <3>2. DotDone' /\ ~Stepped /\ pc # "done"
      BY <1>2, <2>0, <2>2, <3>1, AdvanceEffect DEF DotDone, Stepped
    <3>3. since <= Elapsed(cnt[MasterNode]) + 1
      BY <1>nodes, <1>round, <3>2 DEF CadenceInv, Dots
    <3> QED
      BY <1>2, <1>nodes, <2>0, <2>1, <3>1, <3>2, <3>3 DEF CadenceInv, Dots, Elapsed
  <2>3. CASE ch = MasterNode
    <3> DEFINE j == IF cnt[MasterNode] + 1 = CPU_DEVIDER THEN 0 ELSE cnt[MasterNode] + 1
    <3>1. pc' = "top" /\ cnt'[MasterNode] = j
      BY <1>2, <1>nodes, <2>3, AdvanceEffect
    <3>2. j \in Nat /\ j < CPU_DEVIDER /\ Elapsed(j) = cnt[MasterNode]
      BY <1>nodes, CountGoesRound
    <3>3. since <= cnt[MasterNode]
      <4>1. CASE pc = "count"
        BY <1>nodes, <2>3, <4>1 DEF CadenceInv, Stepped
      <4>2. CASE pc = "visit" /\ cnt[MasterNode] # 0
        <5>1. since <= Elapsed(cnt[MasterNode]) + 1
          BY <1>nodes, <1>round, <4>2 DEF CadenceInv, Dots, Stepped
        <5> QED
          BY <1>round, <4>2, <5>1
      <4> QED
        BY <1>2, <2>3, <4>1, <4>2, AdvanceEffect
    <3> HIDE DEF j
    <3>4. ~DotDone'
      BY <3>1 DEF DotDone
    <3> QED
      BY <1>2, <1>nodes, <2>0, <2>1, <3>1, <3>2, <3>3, <3>4 DEF CadenceInv, Dots
  <2>4. CASE ch \notin {PpuNode, MasterNode}
    <3>1. Stepped
      BY <1>2, <1>nodes, <2>4, AdvanceEffect DEF Stepped
    <3>2. since = 0 /\ cnt[MasterNode] = 0
      BY <3>1 DEF CadenceInv
    <3>3. cnt'[MasterNode] = 0
      BY <1>2, <1>nodes, <2>4, <3>2, AdvanceEffect
    <3> QED
      BY <1>2, <2>0, <2>1, <3>2, <3>3 DEF CadenceInv, Dots, Elapsed
  <2> QED
    BY <2>2, <2>3, <2>4
<1>3. CASE Dot
  <2>1. /\ PpuNode' = PpuNode /\ MasterNode' = MasterNode /\ cnt' = cnt
        /\ pc = "visit" /\ pc' = "count" /\ ch = PpuNode /\ ch' = ch
    BY <1>3, <1>nodes, QuietEffect DEF PpuNode, MasterNode, Dot, ClockPpu, Returns, Calls
  <2>2. ~Stepped /\ ~DotDone /\ ~Stepped' /\ DotDone'
    BY <1>nodes, <2>1 DEF Stepped, DotDone
  <2>3. since <= Elapsed(cnt[MasterNode])
    BY <1>nodes, <1>round, <2>1, <2>2 DEF CadenceInv, Dots
  <2>4. since' = since + 1
    BY <1>3, <1>nodes, <1>round, <2>3 DEF Dot
  <2>5. Dots' = Elapsed(cnt[MasterNode]) + 1
    BY <2>1, <2>2 DEF Dots
  <2>6. since' \in Nat /\ since' <= CPU_DEVIDER /\ since' <= Dots'
    <3>1. \A e, d \in Nat : e < d /\ since <= e => since + 1 \in Nat /\ since + 1 <= d /\ since + 1 <= e + 1
      BY <1>nodes
    <3> QED
      BY <1>round, <2>3, <2>4, <2>5, <3>1
  <2>7. cnt'[MasterNode'] < CPU_DEVIDER
    BY <1>nodes, <2>1
  <2> QED
    BY <2>2, <2>6, <2>7 DEF CadenceInv
<1>4. CASE (StartWalk \/ LeaveLoop \/ EndLoop \/ JoinAndFree \/ UNCHANGED paceVars) /\ UNCHANGED since
  <2>1. PpuNode' = PpuNode /\ MasterNode' = MasterNode /\ cnt' = cnt
    BY <1>4, QuietEffect DEF PpuNode, MasterNode
  <2>2. \/ pc = "top" /\ pc' = "visit" /\ ch' = PpuNode
        \/ pc = "top" /\ pc' = "done" /\ ch' = ch
        \/ pc' = pc /\ ch' = ch
    BY <1>4, QuietEffect DEF Dot, ClockPpu, Returns, Calls, StartWalk, LeaveLoop, EndLoop,
       JoinAndFree, walkVars, paceVars, vars
  <2>3. Stepped' = Stepped /\ DotDone' = DotDone /\ (pc = "done" => pc' = "done")
    <3>1. CASE pc = "top" /\ pc' = "visit" /\ ch' = PpuNode
      BY <1>nodes, <2>1, <3>1 DEF Stepped, DotDone
    <3>2. CASE pc = "top" /\ pc' = "done"
      BY <3>2 DEF Stepped, DotDone
    <3>3. CASE pc' = pc /\ ch' = ch
      BY <2>1, <3>3 DEF Stepped, DotDone
    <3> QED
      BY <2>2, <3>1, <3>2, <3>3
  <2> QED
    BY <1>4, <1>nodes, <2>1, <2>2, <2>3 DEF CadenceInv, Dots
<1> QED
  BY <1>1, <1>2, <1>3, <1>4 DEF PaceNext, OtherStep, paceVars

\* While the DMA is on it has steps to make.
LEMMA DmaHasSteps ==
  ASSUME ClockInv, DmaIsOn
  PROVE  dma_cnt \in Nat /\ dma_cnt <= SPRITE_RAM_SIZE * 2 - 1
<1>1. dma_spr_addr \in 0 .. SPRITE_RAM_SIZE - 1
  BY DEF ClockInv, TypeOK, Offset
<1>2. dma_cnt = 2 * dma_spr_addr \/ dma_cnt = 2 * dma_spr_addr + 1
  BY DEF ClockInv, CountInv
<1> QED
  BY <1>1, <1>2

\* The dots of k steps, and of one more.
LEMMA StepsOfDots ==
  ASSUME NEW k \in Nat
  PROVE  /\ k * CPU_DEVIDER \in Nat
         /\ (k + 1) * CPU_DEVIDER = k * CPU_DEVIDER + CPU_DEVIDER
         /\ k > 0 => (k - 1) * CPU_DEVIDER \in Nat
                     /\ k * CPU_DEVIDER = (k - 1) * CPU_DEVIDER + CPU_DEVIDER
         /\ \A j \in Nat : k <= j => k * CPU_DEVIDER <= j * CPU_DEVIDER
<1>1. CPU_DEVIDER \in Nat /\ CPU_DEVIDER > 0
  OBVIOUS
<1>2. \A i \in Nat : i * CPU_DEVIDER \in Nat /\ (i + 1) * CPU_DEVIDER = i * CPU_DEVIDER + CPU_DEVIDER
  BY <1>1
<1>3. ASSUME k > 0
      PROVE  (k - 1) * CPU_DEVIDER \in Nat /\ k * CPU_DEVIDER = (k - 1) * CPU_DEVIDER + CPU_DEVIDER
  <2>1. k - 1 \in Nat /\ (k - 1) + 1 = k
    BY <1>3
  <2> QED
    BY <1>2, <2>1
<1>4. ASSUME NEW j \in Nat, k <= j PROVE k * CPU_DEVIDER <= j * CPU_DEVIDER
  <2>1. PICK d \in Nat : j = k + d
    <3>1. j - k \in Nat /\ j = k + (j - k)
      BY <1>4
    <3> QED
      BY <3>1
  <2>2. j * CPU_DEVIDER = k * CPU_DEVIDER + d * CPU_DEVIDER
    BY <1>1, <2>1
  <2>3. d * CPU_DEVIDER \in Nat /\ k * CPU_DEVIDER \in Nat
    BY <1>2
  <2> QED
    BY <2>2, <2>3
<1> QED
  BY <1>2, <1>3, <1>4

\* A dot is counted: the history is never at its bound when it counts.
LEMMA StolenDot ==
  ASSUME ClockInv, CadenceInv, StolenInv, Dot,
         pc = "visit", ch = PpuNode
  PROVE  /\ DmaIsOn \/ stolen > 0 => stolen' = stolen + 1
         /\ ~DmaIsOn /\ ~(stolen > 0) => stolen' = 0
<1>1. Registered("clock_dma") <=> DmaIsOn
  BY ListShape DEF ClockInv, OneBusMaster, PpuNode, DmaIsOn
<1>2. PpuNode # MasterNode
  BY NodesDiffer
<1>3. ASSUME DmaIsOn \/ stolen > 0 PROVE stolen < MaxStolen
  <2> DEFINE last == SPRITE_RAM_SIZE * 2 - 1
  <2>0. /\ SPRITE_RAM_SIZE * 2 - 1 \in Nat
        /\ SPRITE_RAM_SIZE * 2 + 1 = last + 1 + 1
        /\ since \in Nat /\ since <= CPU_DEVIDER /\ CPU_DEVIDER \in Nat /\ CPU_DEVIDER > 0
    BY DEF CadenceInv
  <2>1. /\ last * CPU_DEVIDER \in Nat
        /\ MaxStolen = last * CPU_DEVIDER + CPU_DEVIDER + CPU_DEVIDER
    <3> HIDE DEF last
    <3>1. last \in Nat /\ last + 1 \in Nat
      BY <2>0 DEF last
    <3>2. MaxStolen = (last + 1 + 1) * CPU_DEVIDER
      BY <2>0 DEF MaxStolen
    <3>3. /\ (last + 1 + 1) * CPU_DEVIDER = (last + 1) * CPU_DEVIDER + CPU_DEVIDER
          /\ (last + 1) * CPU_DEVIDER = last * CPU_DEVIDER + CPU_DEVIDER
          /\ last * CPU_DEVIDER \in Nat
      BY <3>1, StepsOfDots
    <3> QED
      BY <3>2, <3>3
  <2>2. stolen <= last * CPU_DEVIDER + since
    <3>1. CASE DmaIsOn
      <4>1. /\ dma_cnt \in Nat /\ dma_cnt <= last /\ dma_cnt > 0
            /\ stolen = (dma_cnt - 1) * CPU_DEVIDER + since
        BY <1>2, <3>1, DmaHasSteps DEF StolenInv, Swapped, Stepped
      <4>2. dma_cnt - 1 \in Nat /\ dma_cnt - 1 <= last
        BY <2>0, <4>1
      <4>3. (dma_cnt - 1) * CPU_DEVIDER \in Nat /\ (dma_cnt - 1) * CPU_DEVIDER <= last * CPU_DEVIDER
        BY <2>0, <4>2, StepsOfDots
      <4> QED
        BY <2>0, <2>1, <4>1, <4>3
    <3>2. CASE ~DmaIsOn
      <4>1. stolen = last * CPU_DEVIDER + since
        BY <1>3, <3>2 DEF StolenInv
      <4> QED
        BY <2>0, <2>1, <4>1
    <3> QED
      BY <3>1, <3>2
  <2> HIDE DEF last
  <2>3. stolen \in Nat
    BY DEF StolenInv
  <2>4. \A m \in Nat : stolen <= m + since => stolen < m + CPU_DEVIDER + CPU_DEVIDER
    BY <2>0, <2>3
  <2> QED
    BY <2>1, <2>2, <2>4
<1> QED
  BY <1>1, <1>3 DEF Dot, StolenInv

\* With a dot in every tick the count of the PPU is always 0, and the DMA's dots are
\* those of its steps.
LEMMA StolenStep ==
  ASSUME PPU_DEVIDER = 1, ClockInv, CadenceInv, StolenInv, [PaceNext]_paceVars
  PROVE  StolenInv'
<1>nodes. /\ PpuNode \in Node /\ MasterNode \in Node /\ PpuNode # MasterNode
          /\ cnt \in [Node -> Nat] /\ cnt[MasterNode] \in Nat /\ cnt[MasterNode] < CPU_DEVIDER
          /\ Devider(handler[MasterNode]) = CPU_DEVIDER
          /\ Devider(handler[PpuNode]) = 1 /\ cnt[PpuNode] = 0
          /\ pc \in {"top", "visit", "count", "done"}
          /\ pc = "visit" => ch \in {PpuNode, MasterNode}
          /\ since \in Nat /\ since <= CPU_DEVIDER /\ stolen \in Nat
          /\ MasterNode # NULL
  BY NodesDiffer DEF CadenceInv, StolenInv
<1>round. /\ Elapsed(cnt[MasterNode]) \in Nat /\ Elapsed(cnt[MasterNode]) < CPU_DEVIDER
          /\ cnt[MasterNode] # 0 => Elapsed(cnt[MasterNode]) + 1 = cnt[MasterNode]
  BY <1>nodes, CountGoesRound
<1>1. CASE MasterStep
  <2>1. /\ ch = MasterNode /\ ch' = ch /\ PpuNode' = PpuNode /\ ch # PpuNode
        /\ pc = "visit" /\ pc' \in {"count", "done"} /\ cnt[MasterNode] = 0
        /\ since' = 0 /\ stolen' = IF DmaIsOn THEN stolen ELSE 0
        /\ cnt'[MasterNode'] = 0 /\ cnt'[PpuNode] = 0
    BY <1>1, <1>nodes, MasterEffect
  <2>2. ~Stepped /\ DotDone /\ ~DotDone'
    BY <1>nodes, <2>1 DEF Stepped, DotDone
  <2>3. (Swapped' => ch' # MasterNode') /\ (Stepped' <=> pc' = "count")
    BY <2>1 DEF Swapped, Stepped
  <2>4. CASE ~DmaIsOn /\ ~DmaIsOn' /\ MasterNode' = MasterNode
    BY <2>1, <2>3, <2>4 DEF StolenInv
  <2>5. CASE /\ ~DmaIsOn /\ DmaIsOn' /\ pc' = "count" /\ dma_cnt' = 0
             /\ MasterNode' # MasterNode /\ next'[ch] = MasterNode'
    BY <2>1, <2>3, <2>5 DEF StolenInv, Swapped
  <2>6. ASSUME DmaIsOn, dma_cnt \in Nat PROVE stolen = dma_cnt * CPU_DEVIDER
    <3>1. CASE dma_cnt = 0
      BY <2>6, <3>1 DEF StolenInv
    <3>2. CASE dma_cnt > 0
      <4>1. stolen = (dma_cnt - 1) * CPU_DEVIDER + since /\ since = Dots
        BY <2>1, <2>2, <2>6, <3>2 DEF StolenInv
      <4>2. since = CPU_DEVIDER
        BY <2>1, <2>2, <4>1 DEF Dots, Elapsed
      <4> QED
        BY <2>6, <3>2, <4>1, <4>2, StepsOfDots
    <3> QED
      BY <2>6, <3>1, <3>2
  <2>7. CASE /\ DmaIsOn /\ DmaIsOn' /\ pc' = "count" /\ MasterNode' = MasterNode
             /\ dma_cnt \in Nat /\ dma_cnt' = dma_cnt + 1
    <3>1. stolen' = dma_cnt * CPU_DEVIDER /\ dma_cnt' - 1 = dma_cnt /\ dma_cnt' > 0
      BY <2>1, <2>6, <2>7
    <3>2. dma_cnt * CPU_DEVIDER \in Nat
      BY <2>7, StepsOfDots
    <3>3. stolen' = (dma_cnt' - 1) * CPU_DEVIDER + since'
      BY <2>1, <3>1, <3>2
    <3> QED
      BY <2>1, <2>3, <2>7, <3>1, <3>2, <3>3 DEF StolenInv
  <2>8. CASE /\ DmaIsOn /\ ~DmaIsOn' /\ pc' = "count" /\ MasterNode' # MasterNode
             /\ next'[ch] = NULL /\ dma_cnt = SPRITE_RAM_SIZE * 2 - 1
    <3>1. dma_cnt \in Nat
      BY <2>8
    <3>2. stolen' = dma_cnt * CPU_DEVIDER /\ dma_cnt * CPU_DEVIDER \in Nat
      BY <2>1, <2>6, <2>8, <3>1, StepsOfDots
    <3>3. stolen' = (SPRITE_RAM_SIZE * 2 - 1) * CPU_DEVIDER + since'
      BY <2>1, <2>8, <3>2
    <3> QED
      BY <2>1, <2>2, <2>3, <2>8, <3>2, <3>3 DEF StolenInv
  <2> QED
    BY <1>1, <2>4, <2>5, <2>7, <2>8, MasterEffect
<1>2. CASE Advance /\ UNCHANGED <<since, stolen>>
  <2>1. PpuNode' = PpuNode /\ MasterNode' = MasterNode /\ DmaIsOn' = DmaIsOn
        /\ next' = next /\ dma_cnt' = dma_cnt
    BY <1>2, AdvanceEffect DEF PpuNode, MasterNode, DmaIsOn
  <2>0. /\ PpuNode' = PpuNode /\ MasterNode' = MasterNode /\ DmaIsOn' = DmaIsOn
        /\ next' = next /\ dma_cnt' = dma_cnt
        /\ pc' \in {"top", "visit"} /\ ~Stepped' /\ ~Swapped'
    BY <1>2, <2>1, AdvanceEffect DEF Stepped, Swapped
  <2>p. cnt'[PpuNode] = 0
    <3>1. ch \in Node
          /\ cnt' = [cnt EXCEPT ![ch] = IF @ + 1 = Devider(handler[ch]) THEN 0 ELSE @ + 1]
      BY <1>2, AdvanceEffect
    <3>2. CASE ch = PpuNode
      <4>1. cnt' = [cnt EXCEPT ![PpuNode] = IF 0 + 1 = 1 THEN 0 ELSE 0 + 1]
        BY <1>nodes, <3>1, <3>2
      <4> QED
        BY <1>nodes, <4>1
    <3>3. CASE ch # PpuNode
      BY <1>nodes, <3>1, <3>3
    <3> QED
      BY <3>2, <3>3
  <2>2. CASE ch = PpuNode
    <3>1. /\ pc = "count" /\ ch' = MasterNode /\ pc' = "visit"
          /\ cnt'[MasterNode] = cnt[MasterNode]
      BY <1>2, <1>nodes, <2>2, AdvanceEffect
    <3>2. DotDone /\ DotDone' /\ ~Stepped /\ ~Swapped /\ Dots' = Dots
      BY <2>0, <2>2, <3>1 DEF DotDone, Stepped, Swapped, Dots
    <3> QED
      BY <1>2, <2>0, <2>p, <2>2, <3>1, <3>2 DEF StolenInv
  <2>3. CASE ch = MasterNode
    <3> DEFINE j == IF cnt[MasterNode] + 1 = CPU_DEVIDER THEN 0 ELSE cnt[MasterNode] + 1
    <3>1. pc' = "top" /\ cnt'[MasterNode] = j /\ (pc = "visit" => cnt[MasterNode] # 0)
      BY <1>2, <1>nodes, <2>3, AdvanceEffect
    <3>2. Elapsed(j) = cnt[MasterNode]
      BY <1>nodes, CountGoesRound
    <3> HIDE DEF j
    <3>3. ~DotDone' /\ Dots' = cnt[MasterNode]
      BY <1>nodes, <2>0, <3>1, <3>2 DEF DotDone, Dots
    <3>4. ~Swapped /\ (pc = "count" \/ pc = "visit")
      BY <1>2, <2>3, AdvanceEffect DEF Swapped
    <3>5. ~(DmaIsOn /\ dma_cnt = 0) /\ ~(~DmaIsOn /\ stolen > 0)
      BY <2>3, <3>1, <3>4 DEF StolenInv
    <3>6. ASSUME DmaIsOn, dma_cnt > 0 PROVE since = cnt[MasterNode]
      <4>1. CASE pc = "count"
        BY <1>nodes, <2>3, <4>1 DEF CadenceInv, Stepped
      <4>2. CASE pc = "visit"
        <5>1. since = Elapsed(cnt[MasterNode]) + 1
          BY <1>round, <2>3, <3>6, <4>2 DEF StolenInv, Dots, Stepped, DotDone
        <5> QED
          BY <1>round, <3>1, <4>2, <5>1
      <4> QED
        BY <3>4, <4>1, <4>2
    <3> QED
      BY <1>2, <2>0, <2>p, <3>3, <3>5, <3>6 DEF StolenInv
  <2>4. CASE ch \notin {PpuNode, MasterNode}
    <3>1. pc = "count" /\ Stepped /\ Swapped /\ ch' = next[ch]
      BY <1>2, <1>nodes, <2>4, AdvanceEffect DEF Stepped, Swapped
    <3>2. since = 0 /\ cnt[MasterNode] = 0 /\ cnt'[MasterNode] = 0
      BY <1>2, <1>nodes, <2>4, <3>1, AdvanceEffect DEF CadenceInv
    <3>3. CASE DmaIsOn
      <4>1. ch' = MasterNode /\ pc' = "visit" /\ dma_cnt = 0 /\ stolen = 0
        BY <1>2, <1>nodes, <3>1, <3>3, AdvanceEffect DEF StolenInv
      <4> QED
        BY <1>2, <2>0, <2>p, <3>2, <3>3, <4>1 DEF StolenInv
    <3>4. CASE ~DmaIsOn
      <4>1. ch' = NULL /\ pc' = "top"
        BY <1>2, <3>1, <3>4, AdvanceEffect DEF StolenInv
      <4>2. ~DotDone /\ ~DotDone'
        BY <2>4, <3>1, <4>1 DEF DotDone
      <4> QED
        BY <1>2, <2>0, <2>p, <3>2, <3>4, <4>1, <4>2 DEF StolenInv
    <3> QED
      BY <3>3, <3>4
  <2> QED
    BY <2>2, <2>3, <2>4
<1>3. CASE Dot
  <2>1. /\ PpuNode' = PpuNode /\ MasterNode' = MasterNode /\ DmaIsOn' = DmaIsOn
        /\ cnt' = cnt /\ next' = next /\ dma_cnt' = dma_cnt
        /\ pc = "visit" /\ pc' = "count" /\ ch = PpuNode /\ ch' = ch
    BY <1>3, <1>nodes, QuietEffect DEF PpuNode, MasterNode, DmaIsOn, Dot, ClockPpu, Returns, Calls
  <2>2. ~Stepped /\ ~DotDone /\ ~Stepped' /\ DotDone' /\ ~Swapped /\ ~Swapped'
    BY <1>nodes, <2>1 DEF Stepped, DotDone, Swapped
  <2>3. since' = since + 1
    BY <1>3, <1>nodes DEF Dot
  <2>4. Dots' = Dots + 1
    BY <1>round, <2>1, <2>2 DEF Dots
  <2>5. ~(DmaIsOn /\ dma_cnt = 0)
    BY <1>nodes, <2>1, <2>2 DEF StolenInv
  <2>6. /\ DmaIsOn \/ stolen > 0 => stolen' = stolen + 1
        /\ ~DmaIsOn /\ ~(stolen > 0) => stolen' = 0
    BY <1>3, <2>1, StolenDot
  <2>7. stolen' \in Nat
    <3>1. CASE DmaIsOn \/ stolen > 0
      <4>1. stolen' = stolen + 1
        BY <2>6, <3>1
      <4> QED
        BY <1>nodes, <4>1
    <3>2. CASE ~DmaIsOn /\ ~(stolen > 0)
      BY <2>6, <3>2
    <3> QED
      BY <3>1, <3>2
  <2>8. CASE DmaIsOn
    <3>1. ASSUME dma_cnt > 0
          PROVE  /\ stolen' = (dma_cnt - 1) * CPU_DEVIDER + since'
                 /\ since' = Dots'
      <4>1. stolen = (dma_cnt - 1) * CPU_DEVIDER + since /\ since = Dots
        BY <2>1, <2>2, <2>8, <3>1 DEF StolenInv
      <4>2. (dma_cnt - 1) * CPU_DEVIDER \in Nat
        BY <2>8, <3>1, DmaHasSteps, StepsOfDots
      <4> QED
        BY <1>nodes, <2>3, <2>4, <2>6, <2>8, <4>1, <4>2
    <3> QED
      BY <1>nodes, <2>1, <2>2, <2>5, <2>7, <2>8, <3>1 DEF StolenInv
  <2>9. CASE ~DmaIsOn /\ stolen > 0
    <3>1. /\ stolen = (SPRITE_RAM_SIZE * 2 - 1) * CPU_DEVIDER + since
          /\ since = 0 /\ cnt[MasterNode] = 0
      BY <2>2, <2>9 DEF StolenInv
    <3>2. (SPRITE_RAM_SIZE * 2 - 1) * CPU_DEVIDER \in Nat
      <4>1. SPRITE_RAM_SIZE * 2 - 1 \in Nat
        OBVIOUS
      <4> QED
        BY <4>1, StepsOfDots
    <3>3. stolen' = (SPRITE_RAM_SIZE * 2 - 1) * CPU_DEVIDER + since' /\ since' = 1
      BY <2>3, <2>6, <2>9, <3>1, <3>2
    <3> QED
      BY <1>nodes, <2>1, <2>2, <2>7, <2>9, <3>1, <3>3 DEF StolenInv
  <2>10. CASE ~DmaIsOn /\ ~(stolen > 0)
    BY <1>nodes, <2>1, <2>2, <2>6, <2>10 DEF StolenInv
  <2> QED
    BY <2>8, <2>9, <2>10
<1>4. CASE (StartWalk \/ LeaveLoop \/ EndLoop \/ JoinAndFree \/ UNCHANGED paceVars)
           /\ UNCHANGED <<since, stolen>>
  <2>1. /\ PpuNode' = PpuNode /\ MasterNode' = MasterNode /\ DmaIsOn' = DmaIsOn
        /\ cnt' = cnt /\ next' = next /\ dma_cnt' = dma_cnt
    BY <1>4, QuietEffect DEF PpuNode, MasterNode, DmaIsOn
  <2>2. \/ pc = "top" /\ pc' = "visit" /\ ch' = PpuNode
        \/ pc = "top" /\ pc' = "done" /\ ch' = ch
        \/ pc' = pc /\ ch' = ch
    BY <1>4, QuietEffect DEF Dot, ClockPpu, Returns, Calls, StartWalk, LeaveLoop, EndLoop,
       JoinAndFree, walkVars, paceVars, vars
  <2>3. CASE pc = "top"
    <3>1. /\ ~Stepped /\ ~DotDone /\ ~Swapped /\ ~Stepped' /\ ~DotDone' /\ ~Swapped'
          /\ pc' # "count" /\ ~(DmaIsOn /\ dma_cnt = 0)
      BY <1>nodes, <2>1, <2>2, <2>3 DEF Stepped, DotDone, Swapped, StolenInv
    <3>2. Dots' = Dots
      BY <2>1, <3>1 DEF Dots
    <3> QED
      BY <1>4, <2>1, <2>3, <3>1, <3>2 DEF StolenInv
  <2>4. CASE pc' = pc /\ ch' = ch
    <3>1. Stepped' = Stepped /\ DotDone' = DotDone /\ Swapped' = Swapped
      BY <2>1, <2>4 DEF Stepped, DotDone, Swapped
    <3>2. Dots' = Dots
      BY <2>1, <3>1 DEF Dots
    <3> QED
      BY <1>4, <2>1, <2>4, <3>1, <3>2 DEF StolenInv
  <2> QED
    BY <2>2, <2>3, <2>4
<1> QED
  BY <1>1, <1>2, <1>3, <1>4 DEF PaceNext, OtherStep, paceVars

\* What PaceSpec keeps of the clock's own invariant.
LEMMA PaceKeepsClockInv == PaceSpec => []ClockInv
<1>1. PaceInit => ClockInv
  BY InitClockInv DEF PaceInit
<1>2. ClockInv /\ [PaceNext]_paceVars => ClockInv'
  BY PaceIsClock, NextClockInv
<1> QED
  BY <1>1, <1>2, PTL DEF PaceSpec

\* The bus is never idle (clock.c's counts, whatever the two dividers): a master steps
\* within CPU_DEVIDER dots of the master's last step, across both hand-overs.
THEOREM BusNeverIdle == PaceSpec => []NeverStarved
<1>1. PaceInit => CadenceInv
  BY InitPace
<1>2. ClockInv /\ ClockInv' /\ CadenceInv /\ [PaceNext]_paceVars => CadenceInv'
  BY CadenceStep
<1>3. CadenceInv => NeverStarved
  BY DEF CadenceInv, NeverStarved
<1> QED
  BY <1>1, <1>2, <1>3, PaceKeepsClockInv, PTL DEF PaceSpec

\* The dots a DMA takes from the CPU, with clock.h's PPU_DEVIDER of 1: the CPU's next cycle
\* comes (2 * SPRITE_RAM_SIZE - 1) * CPU_DEVIDER + 1 dots after the store to $4014.
THEOREM DmaTime ==
  ASSUME PPU_DEVIDER = 1
  PROVE  PaceSpec => []DmaStealsExactly
<1>1. PaceInit => CadenceInv /\ StolenInv
  BY InitPace
<1>2. ClockInv /\ ClockInv' /\ CadenceInv /\ StolenInv /\ [PaceNext]_paceVars
         => CadenceInv' /\ StolenInv'
  BY CadenceStep, StolenStep
<1>3. ClockInv /\ StolenInv => DmaStealsExactly
  <2> SUFFICES ASSUME ClockInv, StolenInv, Calls("clock_cpu"), stolen > 0
               PROVE  stolen = (SPRITE_RAM_SIZE * 2 - 1) * CPU_DEVIDER + 1
    BY DEF DmaStealsExactly
  <2>1. ch = MasterNode /\ pc = "visit" /\ ~DmaIsOn
    BY CalledNode DEF Calls, DmaIsOn
  <2>2. DotDone
    BY <2>1 DEF DotDone
  <2> QED
    BY <2>1, <2>2 DEF StolenInv
<1> QED
  BY <1>1, <1>2, <1>3, PaceKeepsClockInv, PTL DEF PaceSpec
=============================================================================
