-------------------------- MODULE Cpu6502IsaProofs --------------------------
(***************************************************************************)
(* The CPU that works cycle by cycle implements the instruction set, for   *)
(* every program.  BoundaryInv says that the data path is where the cycles *)
(* since the last boundary have taken it: a chain of steps from the fetch, *)
(* and one cycle for each.  For every kind of instruction a lemma (...Done)*)
(* shows that where its chain ends the registers, memory and cycles are    *)
(* those the instruction set has.                                          *)
(***************************************************************************)
EXTENDS Cpu6502Proofs

-----------------------------------------------------------------------------
(* Arithmetic of the instruction set. *)

\* Offsets add up, through the wrap.
LEMMA AddTwice ==
  ASSUME NEW a \in Int, NEW d \in Int, NEW e \in Int
  PROVE  /\ Add16(Add16(a, d), e) = Add16(a, d + e)
         /\ Add8(Add8(a, d), e) = Add8(a, d + e)
  BY DEF Add16, Add8

\* What the instruction set reads at is what the core reads at.
LEMMA AddNone ==
  /\ \A a \in Address : Add16(a, 0) = a
  /\ \A b \in Byte : Add8(b, 0) = b /\ Lo(b) = b
  /\ \A a \in Int, d \in Int : Add16(a + d, 0) = Add16(a, d) /\ Lo(a + d) = Add8(a, d)
<1>1. \A a \in Address : Add16(a, 0) = a
  <2> SUFFICES ASSUME NEW a \in Address PROVE Add16(a, 0) = a
    OBVIOUS
  <2>1. a \in Int /\ 0 <= a /\ a <= 65535
    BY AddressIs
  <2> QED
    BY <2>1 DEF Add16
<1>2. \A b \in Byte : Add8(b, 0) = b /\ Lo(b) = b
  BY DEF Add8, Byte, Lo
<1>3. \A a \in Int, d \in Int : Add16(a + d, 0) = Add16(a, d) /\ Lo(a + d) = Add8(a, d)
  BY DEF Add16, Add8, Lo
<1> QED
  BY <1>1, <1>2, <1>3

\* The two halves of a word.
LEMMA WordHalves ==
  ASSUME NEW lo \in Byte, NEW hi \in Int
  PROVE  Lo(Word(lo, hi)) = lo /\ Hi(Word(lo, hi)) = hi
<1>1. lo \in Int /\ 0 <= lo /\ lo <= 255
  BY ByteIs
<1>2. (hi * 256 + lo) % 256 = lo /\ (hi * 256 + lo) \div 256 = hi
  BY <1>1
<1> QED
  BY <1>2 DEF Lo, Hi, Word

-----------------------------------------------------------------------------
(* Bits. *)

\* The weights of the bits.
LEMMA PlaceIs ==
  /\ Place[0] = 1 /\ Place[1] = 2 /\ Place[2] = 4 /\ Place[3] = 8
  /\ Place[4] = 16 /\ Place[5] = 32 /\ Place[6] = 64 /\ Place[7] = 128
  BY DEF Place

\* The bits of a byte, one by one.
LEMMA BitsAre ==
  ASSUME NEW b \in Byte
  PROVE  /\ 0 \in Bits(b) <=> b % 2 = 1
         /\ 1 \in Bits(b) <=> (b \div 2) % 2 = 1
         /\ 2 \in Bits(b) <=> (b \div 4) % 2 = 1
         /\ 3 \in Bits(b) <=> (b \div 8) % 2 = 1
         /\ 4 \in Bits(b) <=> (b \div 16) % 2 = 1
         /\ 5 \in Bits(b) <=> (b \div 32) % 2 = 1
         /\ 6 \in Bits(b) <=> (b \div 64) % 2 = 1
         /\ 7 \in Bits(b) <=> (b \div 128) % 2 = 1
<1>1. b \in Int /\ b \div 1 = b
  BY ByteIs
<1>2. \A i \in 0 .. 7 : i \in Bits(b) <=> (b \div Place[i]) % 2 = 1
  BY DEF Bits
<1> QED
  BY <1>1, <1>2, PlaceIs

\* A byte is the sum of its bits.
LEMMA ByteOfBits == ASSUME NEW b \in Byte PROVE FromBits(Bits(b)) = b
<1> DEFINE c0 == b % 2           c1 == (b \div 2) % 2
           c2 == (b \div 4) % 2  c3 == (b \div 8) % 2
           c4 == (b \div 16) % 2 c5 == (b \div 32) % 2
           c6 == (b \div 64) % 2 c7 == (b \div 128) % 2
<1>1. b \in Int /\ 0 <= b /\ b <= 255
  BY ByteIs
<1>2. b = c0 + 2 * c1 + 4 * c2 + 8 * c3 + 16 * c4 + 32 * c5 + 64 * c6 + 128 * c7
  <2> DEFINE d1 == b \div 2   d2 == b \div 4   d3 == b \div 8  d4 == b \div 16
             d5 == b \div 32  d6 == b \div 64  d7 == b \div 128
  <2>1. /\ d1 \in Int /\ d2 \in Int /\ d3 \in Int /\ d4 \in Int
        /\ d5 \in Int /\ d6 \in Int /\ d7 \in Int
    BY <1>1
  <2>2. b = 2 * d1 + c0
    BY <1>1
  <2>3. d1 = 2 * d2 + c1
    BY <1>1
  <2>4. d2 = 2 * d3 + c2
    BY <1>1
  <2>5. d3 = 2 * d4 + c3
    BY <1>1
  <2>6. d4 = 2 * d5 + c4
    BY <1>1
  <2>7. d5 = 2 * d6 + c5
    BY <1>1
  <2>8. d6 = 2 * d7 + c6
    BY <1>1
  <2>9. d7 = c7
    BY <1>1
  <2>10. /\ c0 \in Int /\ c1 \in Int /\ c2 \in Int /\ c3 \in Int
         /\ c4 \in Int /\ c5 \in Int /\ c6 \in Int /\ c7 \in Int
    BY <1>1
  <2> HIDE DEF d1, d2, d3, d4, d5, d6, d7, c0, c1, c2, c3, c4, c5, c6, c7
  <2> QED
    BY <1>1, <2>1, <2>2, <2>3, <2>4, <2>5, <2>6, <2>7, <2>8, <2>9, <2>10
<1>3. /\ c0 \in 0 .. 1 /\ c1 \in 0 .. 1 /\ c2 \in 0 .. 1 /\ c3 \in 0 .. 1
      /\ c4 \in 0 .. 1 /\ c5 \in 0 .. 1 /\ c6 \in 0 .. 1 /\ c7 \in 0 .. 1
  BY <1>1
<1>4. /\ 0 \in Bits(b) <=> c0 = 1
      /\ 1 \in Bits(b) <=> c1 = 1
      /\ 2 \in Bits(b) <=> c2 = 1
      /\ 3 \in Bits(b) <=> c3 = 1
      /\ 4 \in Bits(b) <=> c4 = 1
      /\ 5 \in Bits(b) <=> c5 = 1
      /\ 6 \in Bits(b) <=> c6 = 1
      /\ 7 \in Bits(b) <=> c7 = 1
  BY BitsAre
<1> HIDE DEF c0, c1, c2, c3, c4, c5, c6, c7
<1>5. /\ Bit(0 \in Bits(b)) = c0 /\ Bit(1 \in Bits(b)) = c1
      /\ Bit(2 \in Bits(b)) = c2 /\ Bit(3 \in Bits(b)) = c3
      /\ Bit(4 \in Bits(b)) = c4 /\ Bit(5 \in Bits(b)) = c5
      /\ Bit(6 \in Bits(b)) = c6 /\ Bit(7 \in Bits(b)) = c7
  BY <1>3, <1>4 DEF Bit
<1> QED
  BY <1>2, <1>5 DEF FromBits

\* Union and symmetric difference of the bits, by sums.
LEMMA BitSums ==
  ASSUME NEW S, NEW T
  PROVE  /\ FromBits(S \cup T) = FromBits(S) + FromBits(T) - FromBits(S \cap T)
         /\ FromBits((S \cup T) \ (S \cap T)) = FromBits(S) + FromBits(T) - 2 * FromBits(S \cap T)
<1> DEFINE s(i) == Bit(i \in S)
           t(i) == Bit(i \in T)
           b(i) == Bit(i \in S \cap T)
<1>1. \A i \in 0 .. 7 :
        /\ s(i) \in 0 .. 1 /\ t(i) \in 0 .. 1 /\ b(i) \in 0 .. 1
        /\ Bit(i \in S \cup T) = s(i) + t(i) - b(i)
        /\ Bit(i \in (S \cup T) \ (S \cap T)) = s(i) + t(i) - 2 * b(i)
  BY DEF Bit
<1>2. /\ FromBits(S) = s(0) + 2 * s(1) + 4 * s(2) + 8 * s(3)
                       + 16 * s(4) + 32 * s(5) + 64 * s(6) + 128 * s(7)
      /\ FromBits(T) = t(0) + 2 * t(1) + 4 * t(2) + 8 * t(3)
                       + 16 * t(4) + 32 * t(5) + 64 * t(6) + 128 * t(7)
      /\ FromBits(S \cap T) = b(0) + 2 * b(1) + 4 * b(2) + 8 * b(3)
                       + 16 * b(4) + 32 * b(5) + 64 * b(6) + 128 * b(7)
  BY DEF FromBits
<1>3. FromBits(S \cup T) = (s(0) + t(0) - b(0)) + 2 * (s(1) + t(1) - b(1))
        + 4 * (s(2) + t(2) - b(2)) + 8 * (s(3) + t(3) - b(3)) + 16 * (s(4) + t(4) - b(4))
        + 32 * (s(5) + t(5) - b(5)) + 64 * (s(6) + t(6) - b(6)) + 128 * (s(7) + t(7) - b(7))
  BY <1>1 DEF FromBits
<1>4. FromBits((S \cup T) \ (S \cap T)) = (s(0) + t(0) - 2 * b(0)) + 2 * (s(1) + t(1) - 2 * b(1))
        + 4 * (s(2) + t(2) - 2 * b(2)) + 8 * (s(3) + t(3) - 2 * b(3)) + 16 * (s(4) + t(4) - 2 * b(4))
        + 32 * (s(5) + t(5) - 2 * b(5)) + 64 * (s(6) + t(6) - 2 * b(6)) + 128 * (s(7) + t(7) - 2 * b(7))
  BY <1>1 DEF FromBits
<1>5. /\ s(0) \in Int /\ s(1) \in Int /\ s(2) \in Int /\ s(3) \in Int
      /\ s(4) \in Int /\ s(5) \in Int /\ s(6) \in Int /\ s(7) \in Int
      /\ t(0) \in Int /\ t(1) \in Int /\ t(2) \in Int /\ t(3) \in Int
      /\ t(4) \in Int /\ t(5) \in Int /\ t(6) \in Int /\ t(7) \in Int
      /\ b(0) \in Int /\ b(1) \in Int /\ b(2) \in Int /\ b(3) \in Int
      /\ b(4) \in Int /\ b(5) \in Int /\ b(6) \in Int /\ b(7) \in Int
  BY <1>1
<1> HIDE DEF s, t, b
<1> QED
  BY <1>2, <1>3, <1>4, <1>5

\* ORA and EOR by sums of bits, as the instruction set has them.
LEMMA LogicSums ==
  ASSUME NEW a \in Byte, NEW m \in Byte
  PROVE  Or(a, m) = a + m - And(a, m) /\ Xor(a, m) = a + m - 2 * And(a, m)
  BY BitSums, ByteOfBits DEF Or, Xor, And

\* No bit is set in 0, and in no other byte.
LEMMA NoBits ==
  ASSUME NEW S \in SUBSET (0 .. 7)
  PROVE  FromBits(S) = 0 <=> S = {}
<1> DEFINE s(i) == Bit(i \in S)
<1>1. \A i \in 0 .. 7 : s(i) \in 0 .. 1 /\ (s(i) = 0 <=> i \notin S)
  BY DEF Bit
<1>2. FromBits(S) = s(0) + 2 * s(1) + 4 * s(2) + 8 * s(3)
                    + 16 * s(4) + 32 * s(5) + 64 * s(6) + 128 * s(7)
  BY DEF FromBits
<1>3. S = {} <=> /\ 0 \notin S /\ 1 \notin S /\ 2 \notin S /\ 3 \notin S
                 /\ 4 \notin S /\ 5 \notin S /\ 6 \notin S /\ 7 \notin S
  <2>1. 0 .. 7 = {0, 1, 2, 3, 4, 5, 6, 7}
    OBVIOUS
  <2> QED
    BY <2>1, Zenon
<1> HIDE DEF s
<1>4. FromBits(S) = 0 <=> /\ s(0) = 0 /\ s(1) = 0 /\ s(2) = 0 /\ s(3) = 0
                          /\ s(4) = 0 /\ s(5) = 0 /\ s(6) = 0 /\ s(7) = 0
  BY <1>1, <1>2
<1> QED
  BY <1>1, <1>3, <1>4

\* The two tests of BIT.
LEMMA BitTests ==
  ASSUME NEW a \in Byte, NEW m \in Byte
  PROVE  /\ 7 \in Bits(m) <=> m >= 128
         /\ And(a, m) = 0 <=> Bits(m) \cap Bits(a) = {}
<1>1. 7 \in Bits(m) <=> m >= 128
  BY BitsAre, ByteIs
<1>2. Bits(a) \cap Bits(m) \in SUBSET (0 .. 7)
  BY DEF Bits
<1>3. Bits(a) \cap Bits(m) = Bits(m) \cap Bits(a)
  OBVIOUS
<1> QED
  BY <1>1, <1>2, <1>3, NoBits DEF And

-----------------------------------------------------------------------------
(* Flags and registers. *)

\* The core sets flags one by one, the instruction set all at once.
LEMMA FlagsSet ==
  ASSUME NEW st, NEW b \in Byte
  PROVE  SetNZ(st, b) = (st \ {"negative", "zero"}) \cup InstructionSet!Flags(b)
<1>1. InstructionSet!Flags(b) = {f \in {"negative"} : b >= 128} \cup {f \in {"zero"} : b = 0}
  BY DEF InstructionSet!Flags
<1> QED
  BY <1>1 DEF SetNZ, With

\* The registers, field by field: the proofs compare two such lists.
Regs(acc, x, y, sp, status, pc) ==
  [acc |-> acc, x |-> x, y |-> y, sp |-> sp, status |-> status, pc |-> pc]

\* Registers are the list of their fields,
LEMMA RegsAre ==
  ASSUME NEW r \in Register
  PROVE  r = Regs(r.acc, r.x, r.y, r.sp, r.status, r.pc)
  BY DEF Register, Regs

\* and a list has its fields.
LEMMA RegsHave ==
  \A acc, x, y, sp, status, pc :
    LET r == Regs(acc, x, y, sp, status, pc)
    IN  r.acc = acc /\ r.x = x /\ r.y = y /\ r.sp = sp /\ r.status = status /\ r.pc = pc
  BY DEF Regs

\* One register changed.
WithPc(r, a)     == Regs(r.acc, r.x, r.y, r.sp, r.status, a)
WithSp(r, b)     == Regs(r.acc, r.x, r.y, b, r.status, r.pc)
WithStatus(r, f) == Regs(r.acc, r.x, r.y, r.sp, f, r.pc)

\* The core changes a register by an EXCEPT,
LEMMA OneChanged ==
  ASSUME NEW r \in Register
  PROVE  /\ \A a : [r EXCEPT !.pc = a] = WithPc(r, a)
         /\ \A b : [r EXCEPT !.sp = b] = WithSp(r, b)
         /\ \A f : [r EXCEPT !.status = f] = WithStatus(r, f)
<1>1. r = Regs(r.acc, r.x, r.y, r.sp, r.status, r.pc)
  BY RegsAre
<1>2. \A a : [r EXCEPT !.pc = a] = Regs(r.acc, r.x, r.y, r.sp, r.status, a)
  BY ONLY <1>1 DEF Regs
<1>3. \A b : [r EXCEPT !.sp = b] = Regs(r.acc, r.x, r.y, b, r.status, r.pc)
  BY ONLY <1>1 DEF Regs
<1>4. \A f : [r EXCEPT !.status = f] = Regs(r.acc, r.x, r.y, r.sp, f, r.pc)
  BY ONLY <1>1 DEF Regs
<1> QED
  BY <1>2, <1>3, <1>4 DEF WithPc, WithSp, WithStatus

\* which leaves the others as they are.
LEMMA ChangedHas ==
  /\ \A r, a : LET q == WithPc(r, a)
                IN  q.acc = r.acc /\ q.x = r.x /\ q.y = r.y /\ q.sp = r.sp /\ q.status = r.status /\ q.pc = a
  /\ \A r, b : LET q == WithSp(r, b)
                IN  q.acc = r.acc /\ q.x = r.x /\ q.y = r.y /\ q.sp = b /\ q.status = r.status /\ q.pc = r.pc
  /\ \A r, f : LET q == WithStatus(r, f)
                IN  q.acc = r.acc /\ q.x = r.x /\ q.y = r.y /\ q.sp = r.sp /\ q.status = f /\ q.pc = r.pc
  BY RegsHave DEF WithPc, WithSp, WithStatus

\* A register and the flags.
LEMMA SetsAre ==
  ASSUME NEW r \in Register, NEW b
  PROVE  /\ SetAcc(r, b) = Regs(b, r.x, r.y, r.sp, SetNZ(r.status, b), r.pc)
         /\ SetX(r, b) = Regs(r.acc, b, r.y, r.sp, SetNZ(r.status, b), r.pc)
         /\ SetY(r, b) = Regs(r.acc, r.x, b, r.sp, SetNZ(r.status, b), r.pc)
<1> DEFINE st == SetNZ(r.status, b)
<1>0. r = Regs(r.acc, r.x, r.y, r.sp, r.status, r.pc)
  BY RegsAre
<1>1. SetAcc(r, b) = Regs(b, r.x, r.y, r.sp, st, r.pc)
  <2> DEFINE t == [r EXCEPT !.acc = b]
  <2>1. SetAcc(r, b) = [t EXCEPT !.status = st]
    BY Zenon DEF SetAcc
  <2>2. t = Regs(b, r.x, r.y, r.sp, r.status, r.pc)
    BY ONLY <1>0 DEF Regs
  <2> HIDE DEF t, st
  <2>3. [t EXCEPT !.status = st] = Regs(b, r.x, r.y, r.sp, st, r.pc)
    BY ONLY <2>2 DEF Regs
  <2> QED
    BY <2>1, <2>3, Zenon
<1>2. SetX(r, b) = Regs(r.acc, b, r.y, r.sp, st, r.pc)
  <2> DEFINE t == [r EXCEPT !.x = b]
  <2>1. SetX(r, b) = [t EXCEPT !.status = st]
    BY Zenon DEF SetX
  <2>2. t = Regs(r.acc, b, r.y, r.sp, r.status, r.pc)
    BY ONLY <1>0 DEF Regs
  <2> HIDE DEF t, st
  <2>3. [t EXCEPT !.status = st] = Regs(r.acc, b, r.y, r.sp, st, r.pc)
    BY ONLY <2>2 DEF Regs
  <2> QED
    BY <2>1, <2>3, Zenon
<1>3. SetY(r, b) = Regs(r.acc, r.x, b, r.sp, st, r.pc)
  <2> DEFINE t == [r EXCEPT !.y = b]
  <2>1. SetY(r, b) = [t EXCEPT !.status = st]
    BY Zenon DEF SetY
  <2>2. t = Regs(r.acc, r.x, b, r.sp, r.status, r.pc)
    BY ONLY <1>0 DEF Regs
  <2> HIDE DEF t, st
  <2>3. [t EXCEPT !.status = st] = Regs(r.acc, r.x, b, r.sp, st, r.pc)
    BY ONLY <2>2 DEF Regs
  <2> QED
    BY <2>1, <2>3, Zenon
<1> QED
  BY <1>1, <1>2, <1>3

\* What the instruction set's way of changing some registers makes of it.
LEMMA RegsSet ==
  ASSUME NEW r \in Register
  PROVE  /\ \A f : InstructionSet!Set([status |-> f], r) = Regs(r.acc, r.x, r.y, r.sp, f, r.pc)
         /\ \A b, f : InstructionSet!Set([acc |-> b, status |-> f], r) = Regs(b, r.x, r.y, r.sp, f, r.pc)
         /\ \A b, f : InstructionSet!Set([x |-> b, status |-> f], r) = Regs(r.acc, b, r.y, r.sp, f, r.pc)
         /\ \A b, f : InstructionSet!Set([y |-> b, status |-> f], r) = Regs(r.acc, r.x, b, r.sp, f, r.pc)
         /\ \A b : InstructionSet!Set([sp |-> b], r) = Regs(r.acc, r.x, r.y, b, r.status, r.pc)
         /\ \A b, f : InstructionSet!Set([sp |-> b, status |-> f], r) = Regs(r.acc, r.x, r.y, b, f, r.pc)
         /\ \A b, c, f : InstructionSet!Set([sp |-> c, acc |-> b, status |-> f], r)
                           = Regs(b, r.x, r.y, c, f, r.pc)
  BY DEF Register, Regs, InstructionSet!Set

-----------------------------------------------------------------------------
(* The steps, field by field. *)

PathOf(reg, m, data, addr) == [reg |-> reg, mem |-> m, data |-> data, addr |-> addr]

\* The four fields of a data path.
LEMMA PathHas ==
  \A reg, m, data, addr :
    LET s == PathOf(reg, m, data, addr)
    IN  s.reg = reg /\ s.mem = m /\ s.data = data /\ s.addr = addr
  BY DEF PathOf

\* One or two fields of the data path changed.
LEMMA PathSet ==
  ASSUME NEW s, DataOK(s)
  PROVE  /\ \A b : [s EXCEPT !.data = b] = PathOf(s.reg, s.mem, b, s.addr)
         /\ \A a : [s EXCEPT !.addr = a] = PathOf(s.reg, s.mem, s.data, a)
         /\ \A b, a : [s EXCEPT !.data = b, !.addr = a] = PathOf(s.reg, s.mem, b, a)
         /\ \A m, b : [s EXCEPT !.mem = m, !.data = b] = PathOf(s.reg, m, b, s.addr)
         /\ \A r : [s EXCEPT !.reg = r] = PathOf(r, s.mem, s.data, s.addr)
<1>0. s = PathOf(s.reg, s.mem, s.data, s.addr)
  BY DEF DataOK, PathOf
<1>1. \A b : [s EXCEPT !.data = b] = PathOf(s.reg, s.mem, b, s.addr)
  BY ONLY <1>0 DEF PathOf
<1>2. \A a : [s EXCEPT !.addr = a] = PathOf(s.reg, s.mem, s.data, a)
  BY ONLY <1>0 DEF PathOf
<1>3. \A r : [s EXCEPT !.reg = r] = PathOf(r, s.mem, s.data, s.addr)
  BY ONLY <1>0 DEF PathOf
<1>4. \A b, a : [s EXCEPT !.data = b, !.addr = a] = PathOf(s.reg, s.mem, b, a)
  <2> TAKE b, a
  <2> DEFINE t == [s EXCEPT !.data = b]
  <2>1. [s EXCEPT !.data = b, !.addr = a] = [t EXCEPT !.addr = a]
    BY Zenon
  <2>2. t = PathOf(s.reg, s.mem, b, s.addr)
    BY <1>1
  <2> HIDE DEF t
  <2>3. [t EXCEPT !.addr = a] = PathOf(s.reg, s.mem, b, a)
    BY ONLY <2>2 DEF PathOf
  <2> QED
    BY <2>1, <2>3, Zenon
<1>5. \A m, b : [s EXCEPT !.mem = m, !.data = b] = PathOf(s.reg, m, b, s.addr)
  <2> TAKE m, b
  <2> DEFINE t == [s EXCEPT !.mem = m]
  <2>1. [s EXCEPT !.mem = m, !.data = b] = [t EXCEPT !.data = b]
    BY Zenon
  <2>2. t = PathOf(s.reg, m, s.data, s.addr)
    BY ONLY <1>0 DEF PathOf
  <2> HIDE DEF t
  <2>3. [t EXCEPT !.data = b] = PathOf(s.reg, m, b, s.addr)
    BY ONLY <2>2 DEF PathOf
  <2> QED
    BY <2>1, <2>3, Zenon
<1> QED
  BY <1>1, <1>2, <1>3, <1>4, <1>5

\* One register of the data path changed.
LEMMA PathReg ==
  ASSUME NEW s, DataOK(s)
  PROVE  /\ \A a : [s EXCEPT !.reg.pc = a] = PathOf(WithPc(s.reg, a), s.mem, s.data, s.addr)
         /\ \A b : [s EXCEPT !.reg.sp = b] = PathOf(WithSp(s.reg, b), s.mem, s.data, s.addr)
         /\ \A f : [s EXCEPT !.reg.status = f] = PathOf(WithStatus(s.reg, f), s.mem, s.data, s.addr)
<1>1. s.reg \in Register
  BY DEF DataOK
<1>2. \A a : [s EXCEPT !.reg.pc = a] = PathOf(WithPc(s.reg, a), s.mem, s.data, s.addr)
  <2> TAKE a
  <2>1. [s EXCEPT !.reg.pc = a] = [s EXCEPT !.reg = [s.reg EXCEPT !.pc = a]]
    BY Zenon
  <2>2. [s.reg EXCEPT !.pc = a] = WithPc(s.reg, a)
    BY <1>1, OneChanged
  <2>3. [s EXCEPT !.reg = WithPc(s.reg, a)] = PathOf(WithPc(s.reg, a), s.mem, s.data, s.addr)
    BY PathSet
  <2> QED
    BY <2>1, <2>2, <2>3, Zenon
<1>3. \A b : [s EXCEPT !.reg.sp = b] = PathOf(WithSp(s.reg, b), s.mem, s.data, s.addr)
  <2> TAKE b
  <2>1. [s EXCEPT !.reg.sp = b] = [s EXCEPT !.reg = [s.reg EXCEPT !.sp = b]]
    BY Zenon
  <2>2. [s.reg EXCEPT !.sp = b] = WithSp(s.reg, b)
    BY <1>1, OneChanged
  <2>3. [s EXCEPT !.reg = WithSp(s.reg, b)] = PathOf(WithSp(s.reg, b), s.mem, s.data, s.addr)
    BY PathSet
  <2> QED
    BY <2>1, <2>2, <2>3, Zenon
<1>4. \A f : [s EXCEPT !.reg.status = f] = PathOf(WithStatus(s.reg, f), s.mem, s.data, s.addr)
  <2> TAKE f
  <2>1. [s EXCEPT !.reg.status = f] = [s EXCEPT !.reg = [s.reg EXCEPT !.status = f]]
    BY Zenon
  <2>2. [s.reg EXCEPT !.status = f] = WithStatus(s.reg, f)
    BY <1>1, OneChanged
  <2>3. [s EXCEPT !.reg = WithStatus(s.reg, f)] = PathOf(WithStatus(s.reg, f), s.mem, s.data, s.addr)
    BY PathSet
  <2> QED
    BY <2>1, <2>2, <2>3, Zenon
<1> QED
  BY <1>2, <1>3, <1>4

\* The accesses to memory.
LEMMA AccessIs ==
  ASSUME NEW s, DataOK(s)
  PROVE  /\ \A a : load_memory(s, a) = PathOf(s.reg, s.mem, Read(s.mem, a), s.addr)
         /\ \A a, b : store_memory(s, a, b) = PathOf(s.reg, Write(s.mem, a, b), b, s.addr)
         /\ \A a : load_addr(s, a, "lo")
                     = PathOf(s.reg, s.mem, Read(s.mem, a), Word(Read(s.mem, a), Hi(s.addr)))
         /\ \A a : load_addr(s, a, "hi")
                     = PathOf(s.reg, s.mem, Read(s.mem, a), Word(Lo(s.addr), Read(s.mem, a)))
<1>1. ASSUME NEW a PROVE load_memory(s, a) = PathOf(s.reg, s.mem, Read(s.mem, a), s.addr)
  <2>1. load_memory(s, a) = [s EXCEPT !.data = Read(s.mem, a)]
    BY Zenon DEF load_memory
  <2> QED
    BY <2>1, PathSet, Zenon
<1>2. ASSUME NEW a, NEW b PROVE store_memory(s, a, b) = PathOf(s.reg, Write(s.mem, a, b), b, s.addr)
  <2>1. store_memory(s, a, b) = [s EXCEPT !.mem = Write(s.mem, a, b), !.data = b]
    BY Zenon DEF store_memory
  <2> QED
    BY <2>1, PathSet, Zenon
<1>3. ASSUME NEW a, NEW half
      PROVE  load_addr(s, a, half)
               = PathOf(s.reg, s.mem, Read(s.mem, a),
                        IF half = "lo" THEN Word(Read(s.mem, a), Hi(s.addr))
                                       ELSE Word(Lo(s.addr), Read(s.mem, a)))
  <2> DEFINE w == IF half = "lo" THEN Word(Read(s.mem, a), Hi(s.addr))
                                 ELSE Word(Lo(s.addr), Read(s.mem, a))
  <2>1. load_addr(s, a, half) = [s EXCEPT !.data = Read(s.mem, a), !.addr = w]
    BY Zenon DEF load_addr
  <2> HIDE DEF w
  <2>2. load_addr(s, a, half) = PathOf(s.reg, s.mem, Read(s.mem, a), w)
    <3>1. \A b, x : [s EXCEPT !.data = b, !.addr = x] = PathOf(s.reg, s.mem, b, x)
      BY PathSet, Zenon
    <3> QED
      BY ONLY <2>1, <3>1, Zenon
  <2> QED
    BY <2>2 DEF w
<1> QED
  BY <1>1, <1>2, <1>3

\* The pc moves past a byte that was read.
LEMMA FetchIs ==
  ASSUME NEW s, DataOK(s)
  PROVE  /\ load_imm(s) = PathOf(WithPc(s.reg, Add16(s.reg.pc, 1)), s.mem,
                                 Read(s.mem, s.reg.pc), s.addr)
         /\ load_pc(s, "lo") = PathOf(WithPc(s.reg, Add16(s.reg.pc, 1)), s.mem, Read(s.mem, s.reg.pc),
                                     Word(Read(s.mem, s.reg.pc), Hi(s.addr)))
         /\ load_pc(s, "hi") = PathOf(WithPc(s.reg, Add16(s.reg.pc, 1)), s.mem, Read(s.mem, s.reg.pc),
                                     Word(Lo(s.addr), Read(s.mem, s.reg.pc)))
<1>1. ASSUME NEW t, DataOK(t), t.reg = s.reg
      PROVE  [t EXCEPT !.reg.pc = Add16(@, 1)]
               = PathOf(WithPc(s.reg, Add16(s.reg.pc, 1)), t.mem, t.data, t.addr)
  <2>1. [t EXCEPT !.reg.pc = Add16(@, 1)] = [t EXCEPT !.reg.pc = Add16(t.reg.pc, 1)]
    BY Zenon
  <2> QED
    BY <1>1, <2>1, PathReg
<1>2. load_imm(s) = [load_memory(s, s.reg.pc) EXCEPT !.reg.pc = Add16(@, 1)]
  BY Zenon DEF load_imm
<1>3. ASSUME NEW half PROVE load_pc(s, half) = [load_addr(s, s.reg.pc, half) EXCEPT !.reg.pc = Add16(@, 1)]
  BY Zenon DEF load_pc
<1>4. DataOK(load_memory(s, s.reg.pc)) /\ \A half : DataOK(load_addr(s, s.reg.pc, half))
  BY LoadMemoryTyped, LoadAddrTyped
<1>5. load_imm(s) = PathOf(WithPc(s.reg, Add16(s.reg.pc, 1)), s.mem, Read(s.mem, s.reg.pc), s.addr)
  <2> DEFINE t == load_memory(s, s.reg.pc)
  <2>1. t = PathOf(s.reg, s.mem, Read(s.mem, s.reg.pc), s.addr)
    BY AccessIs
  <2>2. t.reg = s.reg /\ t.mem = s.mem /\ t.data = Read(s.mem, s.reg.pc) /\ t.addr = s.addr
    BY <2>1, PathHas
  <2> HIDE DEF t
  <2> QED
    BY <1>1, <1>2, <1>4, <2>2 DEF t
<1>6. load_pc(s, "lo") = PathOf(WithPc(s.reg, Add16(s.reg.pc, 1)), s.mem, Read(s.mem, s.reg.pc),
                                Word(Read(s.mem, s.reg.pc), Hi(s.addr)))
  <2> DEFINE t == load_addr(s, s.reg.pc, "lo")
  <2>1. t = PathOf(s.reg, s.mem, Read(s.mem, s.reg.pc), Word(Read(s.mem, s.reg.pc), Hi(s.addr)))
    BY AccessIs
  <2>2. /\ t.reg = s.reg /\ t.mem = s.mem /\ t.data = Read(s.mem, s.reg.pc)
        /\ t.addr = Word(Read(s.mem, s.reg.pc), Hi(s.addr))
    BY <2>1, PathHas
  <2> HIDE DEF t
  <2> QED
    BY <1>1, <1>3, <1>4, <2>2 DEF t
<1>7. load_pc(s, "hi") = PathOf(WithPc(s.reg, Add16(s.reg.pc, 1)), s.mem, Read(s.mem, s.reg.pc),
                                Word(Lo(s.addr), Read(s.mem, s.reg.pc)))
  <2> DEFINE t == load_addr(s, s.reg.pc, "hi")
  <2>1. t = PathOf(s.reg, s.mem, Read(s.mem, s.reg.pc), Word(Lo(s.addr), Read(s.mem, s.reg.pc)))
    BY AccessIs
  <2>2. /\ t.reg = s.reg /\ t.mem = s.mem /\ t.data = Read(s.mem, s.reg.pc)
        /\ t.addr = Word(Lo(s.addr), Read(s.mem, s.reg.pc))
    BY <2>1, PathHas
  <2> HIDE DEF t
  <2> QED
    BY <1>1, <1>3, <1>4, <2>2 DEF t
<1> QED
  BY <1>5, <1>6, <1>7

\* The stack.
LEMMA StackIs ==
  ASSUME NEW s, DataOK(s)
  PROVE  /\ \A b \in Byte :
              push(s, b) = PathOf(WithSp(s.reg, Add8(s.reg.sp, -1)),
                                  Write(s.mem, STACK_BASE + s.reg.sp, b), b, s.addr)
         /\ pop(s) = PathOf(WithSp(s.reg, Add8(s.reg.sp, 1)), s.mem,
                            Read(s.mem, STACK_BASE + Add8(s.reg.sp, 1)), s.addr)
<1>1. ASSUME NEW b \in Byte
      PROVE  push(s, b) = PathOf(WithSp(s.reg, Add8(s.reg.sp, -1)),
                                 Write(s.mem, STACK_BASE + s.reg.sp, b), b, s.addr)
  <2> DEFINE t == store_memory(s, STACK_BASE + s.reg.sp, b)
  <2>1. STACK_BASE + s.reg.sp \in Address
    BY DataHas, SlotTyped
  <2>2. DataOK(t)
    BY <2>1, StoreMemoryTyped
  <2>3. t = PathOf(s.reg, Write(s.mem, STACK_BASE + s.reg.sp, b), b, s.addr)
    BY AccessIs
  <2>4. /\ t.reg = s.reg /\ t.mem = Write(s.mem, STACK_BASE + s.reg.sp, b)
        /\ t.data = b /\ t.addr = s.addr
    BY <2>3, PathHas
  <2>5. push(s, b) = [t EXCEPT !.reg.sp = Add8(t.reg.sp, -1)]
    BY Zenon DEF push
  <2> HIDE DEF t
  <2> QED
    BY <2>2, <2>4, <2>5, PathReg
<1>2. pop(s) = PathOf(WithSp(s.reg, Add8(s.reg.sp, 1)), s.mem,
                      Read(s.mem, STACK_BASE + Add8(s.reg.sp, 1)), s.addr)
  <2> DEFINE sp == Add8(s.reg.sp, 1)
             t == load_memory(s, STACK_BASE + sp)
  <2>1. DataOK(t)
    BY LoadMemoryTyped
  <2>2. t = PathOf(s.reg, s.mem, Read(s.mem, STACK_BASE + sp), s.addr)
    BY AccessIs
  <2>3. /\ t.reg = s.reg /\ t.mem = s.mem
        /\ t.data = Read(s.mem, STACK_BASE + sp) /\ t.addr = s.addr
    BY <2>2, PathHas
  <2>4. pop(s) = [t EXCEPT !.reg.sp = sp]
    BY Zenon DEF pop
  <2> HIDE DEF t, sp
  <2>5. pop(s) = PathOf(WithSp(s.reg, sp), s.mem, Read(s.mem, STACK_BASE + sp), s.addr)
    BY <2>1, <2>3, <2>4, PathReg
  <2> QED
    BY <2>5 DEF sp
<1> QED
  BY <1>1, <1>2

\* What the steps that find an operand's address do.
LEMMA AddressStepIs ==
  ASSUME NEW s, DataOK(s), NEW inst
  PROVE  /\ Step("imm", inst, s) = PathOf(WithPc(s.reg, Add16(s.reg.pc, 1)), s.mem,
                                          Read(s.mem, s.reg.pc), s.addr)
         /\ Step("pc_lo", inst, s) = PathOf(WithPc(s.reg, Add16(s.reg.pc, 1)), s.mem,
                        Read(s.mem, s.reg.pc), Word(Read(s.mem, s.reg.pc), Hi(s.addr)))
         /\ Step("pc_hi", inst, s) = PathOf(WithPc(s.reg, Add16(s.reg.pc, 1)), s.mem,
                        Read(s.mem, s.reg.pc), Word(Lo(s.addr), Read(s.mem, s.reg.pc)))
         /\ Step("imm+x", inst, s) = PathOf(s.reg, s.mem, Add8(s.data, s.reg.x), s.addr)
         /\ Step("imm+y", inst, s) = PathOf(s.reg, s.mem, Add8(s.data, s.reg.y), s.addr)
         /\ Step("zp_lo", inst, s) = PathOf(s.reg, s.mem, s.data,
                        Word(Read(s.mem, s.data), Hi(s.addr)))
         /\ Step("zp_hi", inst, s) = PathOf(s.reg, s.mem, Read(s.mem, ZpNext(s.data)),
                        Word(Lo(s.addr), Read(s.mem, ZpNext(s.data))))
<1>1. /\ Step("imm", inst, s) = load_imm(s)
      /\ Step("pc_lo", inst, s) = load_pc(s, "lo")
      /\ Step("pc_hi", inst, s) = load_pc(s, "hi")
      /\ Step("zp_hi", inst, s) = load_addr(s, ZpNext(s.data), "hi")
  BY DEF Step
<1>2. /\ Step("imm+x", inst, s) = [s EXCEPT !.data = Add8(s.data, s.reg.x)]
      /\ Step("imm+y", inst, s) = [s EXCEPT !.data = Add8(s.data, s.reg.y)]
  BY DEF Step
<1>3. Step("zp_lo", inst, s) = [load_addr(s, s.data, "lo") EXCEPT !.data = s.data]
  BY DEF Step
<1>4. Step("zp_lo", inst, s) = PathOf(s.reg, s.mem, s.data, Word(Read(s.mem, s.data), Hi(s.addr)))
  <2> DEFINE t == load_addr(s, s.data, "lo")
  <2>1. DataOK(t)
    BY LoadAddrTyped
  <2>2. t = PathOf(s.reg, s.mem, Read(s.mem, s.data), Word(Read(s.mem, s.data), Hi(s.addr)))
    BY AccessIs
  <2>3. t.reg = s.reg /\ t.mem = s.mem /\ t.addr = Word(Read(s.mem, s.data), Hi(s.addr))
    BY <2>2, PathHas
  <2>4. Step("zp_lo", inst, s) = [t EXCEPT !.data = s.data]
    BY <1>3
  <2> HIDE DEF t
  <2>5. \A b : [t EXCEPT !.data = b] = PathOf(t.reg, t.mem, b, t.addr)
    BY ONLY <2>1, PathSet
  <2> QED
    BY ONLY <2>3, <2>4, <2>5
<1> QED
  BY <1>1, <1>2, <1>4, FetchIs, AccessIs, PathSet

\* The steps that index an address.
LEMMA IndexStepIs ==
  ASSUME NEW s, DataOK(s), NEW inst, NEW step \in {"addr+x", "addr+y"}
  PROVE  Step(step, inst, s) =
           IF Hits(step, inst, s)
             THEN PathOf(s.reg, s.mem, Read(s.mem, Indexed(step, s)), s.addr)
             ELSE PathOf(s.reg, s.mem, s.data, Indexed(step, s))
<1>1. Step(step, inst, s) = IF Hits(step, inst, s) THEN load_memory(s, Indexed(step, s))
                                                  ELSE [s EXCEPT !.addr = Indexed(step, s)]
  BY DEF Step
<1> QED
  BY <1>1, AccessIs, PathSet

\* The steps that use the operand.
LEMMA OperandStepIs ==
  ASSUME NEW s, DataOK(s), NEW inst
  PROVE  /\ Step("load", inst, s) = PathOf(s.reg, s.mem, Read(s.mem, Target(inst, s)), s.addr)
         /\ Step("store", inst, s) = PathOf(s.reg, Write(s.mem, Target(inst, s), Stored(inst.op, s.reg)),
                                           Stored(inst.op, s.reg), s.addr)
         /\ Step("fetch", inst, s) = PathOf(s.reg, s.mem, Read(s.mem, Target(inst, s)), Target(inst, s))
         /\ Step("modify", inst, s) =
               PathOf(WithStatus(s.reg, CarryOut(inst.op, s.data, s.reg.status)), s.mem,
                      Modified(inst.op, s.data, "carry" \in s.reg.status), s.addr)
         /\ Step("write_back", inst, s) = PathOf(s.reg, Write(s.mem, s.addr, s.data), s.data, s.addr)
<1>1. /\ Step("load", inst, s) = load_memory(s, Target(inst, s))
      /\ Step("store", inst, s) = store_memory(s, Target(inst, s), Stored(inst.op, s.reg))
      /\ Step("write_back", inst, s) = store_memory(s, s.addr, s.data)
  BY DEF Step
<1>2. Step("fetch", inst, s) = [load_memory(s, Target(inst, s)) EXCEPT !.addr = Target(inst, s)]
  BY DEF Step
<1>3. Step("fetch", inst, s) = PathOf(s.reg, s.mem, Read(s.mem, Target(inst, s)), Target(inst, s))
  <2> DEFINE t == load_memory(s, Target(inst, s))
  <2>1. DataOK(t)
    BY LoadMemoryTyped
  <2>2. t = PathOf(s.reg, s.mem, Read(s.mem, Target(inst, s)), s.addr)
    BY AccessIs
  <2>3. t.reg = s.reg /\ t.mem = s.mem /\ t.data = Read(s.mem, Target(inst, s))
    BY <2>2, PathHas
  <2>4. Step("fetch", inst, s) = [t EXCEPT !.addr = Target(inst, s)]
    BY <1>2
  <2> HIDE DEF t
  <2>5. \A a : [t EXCEPT !.addr = a] = PathOf(t.reg, t.mem, t.data, a)
    BY <2>1, PathSet
  <2> QED
    BY ONLY <2>3, <2>4, <2>5
<1>4. Step("modify", inst, s) =
        PathOf(WithStatus(s.reg, CarryOut(inst.op, s.data, s.reg.status)), s.mem,
               Modified(inst.op, s.data, "carry" \in s.reg.status), s.addr)
  <2> DEFINE b == Modified(inst.op, s.data, "carry" \in s.reg.status)
             f == CarryOut(inst.op, s.data, s.reg.status)
             t == [s EXCEPT !.data = b]
  <2>1. Step("modify", inst, s) = [s EXCEPT !.data = Modified(inst.op, @, "carry" \in s.reg.status),
                                            !.reg.status = CarryOut(inst.op, s.data, @)]
    BY DEF Step
  <2>2. [s EXCEPT !.data = Modified(inst.op, @, "carry" \in s.reg.status),
                  !.reg.status = CarryOut(inst.op, s.data, @)]
          = [t EXCEPT !.reg.status = CarryOut(inst.op, s.data, @)]
    BY Zenon
  <2>3. t = PathOf(s.reg, s.mem, b, s.addr)
    BY PathSet
  <2>4. t.reg = s.reg /\ t.mem = s.mem /\ t.data = b /\ t.addr = s.addr
    BY <2>3, PathHas
  <2>5. s.reg \in Register
    BY DEF DataOK
  <2> HIDE DEF t, b, f
  <2>6. [t EXCEPT !.reg.status = CarryOut(inst.op, s.data, @)] = [t EXCEPT !.reg = [s.reg EXCEPT !.status = f]]
    BY <2>4, Zenon DEF f
  <2>7. [s.reg EXCEPT !.status = f] = WithStatus(s.reg, f)
    BY <2>5, OneChanged
  <2>8. \A r : [t EXCEPT !.reg = r] = PathOf(r, s.mem, b, s.addr)
    BY ONLY <2>3 DEF PathOf
  <2> QED
    BY <2>1, <2>2, <2>6, <2>7, <2>8 DEF b, f
<1> QED
  BY <1>1, <1>3, <1>4, AccessIs

\* The steps that move the pc.
LEMMA PcStepIs ==
  ASSUME NEW s, DataOK(s), NEW inst
  PROVE  /\ Step("branch", inst, s) =
              IF SamePage(s.reg.pc, BranchTarget(s))
                THEN PathOf(WithPc(s.reg, BranchTarget(s)), s.mem, s.data, s.addr)
                ELSE PathOf(s.reg, s.mem, s.data, BranchTarget(s))
         /\ Step("cross", inst, s) = PathOf(WithPc(s.reg, s.addr), s.mem, s.data, s.addr)
         /\ Step("jump", inst, s) = PathOf(WithPc(s.reg, s.addr), s.mem, s.data, s.addr)
         /\ Step("jump+1", inst, s) = PathOf(WithPc(s.reg, Add16(s.addr, 1)), s.mem, s.data, s.addr)
         /\ Step("load_hi", inst, s) =
              PathOf(s.reg, s.mem, Read(s.mem, Add16(s.addr, 1)), Word(s.data, Read(s.mem, Add16(s.addr, 1))))
<1>1. Step("branch", inst, s) =
        IF SamePage(s.reg.pc, BranchTarget(s)) THEN [s EXCEPT !.reg.pc = BranchTarget(s)]
                                              ELSE [s EXCEPT !.addr = BranchTarget(s)]
  BY DEF Step
<1>2. /\ Step("cross", inst, s) = [s EXCEPT !.reg.pc = s.addr]
      /\ Step("jump", inst, s) = [s EXCEPT !.reg.pc = s.addr]
      /\ Step("jump+1", inst, s) = [s EXCEPT !.reg.pc = Add16(s.addr, 1)]
  BY DEF Step
<1>3. Step("load_hi", inst, s) =
        PathOf(s.reg, s.mem, Read(s.mem, Add16(s.addr, 1)), Word(s.data, Read(s.mem, Add16(s.addr, 1))))
  <2> DEFINE t == load_memory(s, Add16(s.addr, 1))
  <2>1. DataOK(t)
    BY LoadMemoryTyped
  <2>2. t = PathOf(s.reg, s.mem, Read(s.mem, Add16(s.addr, 1)), s.addr)
    BY AccessIs
  <2>3. t.reg = s.reg /\ t.mem = s.mem /\ t.data = Read(s.mem, Add16(s.addr, 1))
    BY <2>2, PathHas
  <2>4. Step("load_hi", inst, s) = [t EXCEPT !.addr = Word(s.data, t.data)]
    BY DEF Step
  <2> HIDE DEF t
  <2>5. \A a : [t EXCEPT !.addr = a] = PathOf(t.reg, t.mem, t.data, a)
    BY <2>1, PathSet
  <2> QED
    BY ONLY <2>3, <2>4, <2>5
<1>4. \A a : [s EXCEPT !.reg.pc = a] = PathOf(WithPc(s.reg, a), s.mem, s.data, s.addr)
  BY ONLY DataOK(s), PathReg
<1>5. \A a : [s EXCEPT !.addr = a] = PathOf(s.reg, s.mem, s.data, a)
  BY ONLY DataOK(s), PathSet
<1> QED
  BY ONLY <1>1, <1>2, <1>3, <1>4, <1>5

\* The steps of the stack instructions.
LEMMA StackStepIs ==
  ASSUME NEW s, DataOK(s), NEW inst
  PROVE  /\ Step("push_hi", inst, s) = push(s, Hi(Add16(s.reg.pc, 1)))
         /\ Step("push_lo", inst, s) = push(s, Lo(Add16(s.reg.pc, 1)))
         /\ Step("push", inst, s) = push(s, Stored(inst.op, s.reg))
         /\ Step("pop", inst, s) = pop(s)
         /\ Step("pop_status", inst, s) =
              pop(PathOf(WithStatus(s.reg, UnpackStatus(s.data)), s.mem, s.data, s.addr))
         /\ Step("pop_addr", inst, s) = pop(PathOf(s.reg, s.mem, s.data, s.data))
         /\ Step("addr", inst, s) = PathOf(s.reg, s.mem, s.data, s.data)
         /\ Step("join", inst, s) = PathOf(s.reg, s.mem, s.data, Word(Lo(s.addr), s.data))
         /\ Step("idle", inst, s) = s
<1>1. /\ Step("push_hi", inst, s) = push(s, Hi(Add16(s.reg.pc, 1)))
      /\ Step("push_lo", inst, s) = push(s, Lo(Add16(s.reg.pc, 1)))
      /\ Step("push", inst, s) = push(s, Stored(inst.op, s.reg))
      /\ Step("pop", inst, s) = pop(s)
      /\ Step("idle", inst, s) = s
  BY DEF Step
<1>2. /\ Step("pop_status", inst, s) = pop([s EXCEPT !.reg.status = UnpackStatus(s.data)])
      /\ Step("pop_addr", inst, s) = pop([s EXCEPT !.addr = s.data])
  BY DEF Step
<1>3. /\ Step("addr", inst, s) = [s EXCEPT !.addr = s.data]
      /\ Step("join", inst, s) = [s EXCEPT !.addr = Word(Lo(s.addr), s.data)]
  BY DEF Step
<1>4. [s EXCEPT !.reg.status = UnpackStatus(s.data)]
        = PathOf(WithStatus(s.reg, UnpackStatus(s.data)), s.mem, s.data, s.addr)
  BY PathReg
<1>5. \A a : [s EXCEPT !.addr = a] = PathOf(s.reg, s.mem, s.data, a)
  BY PathSet
<1> QED
  BY <1>1, <1>2, <1>3, <1>4, <1>5

-----------------------------------------------------------------------------
(* The instruction set's own copies of the operators on bytes and memory. *)

\* Words, halves and sums are those of the core,
LEMMA SameNumbers ==
  /\ \A a, b : InstructionSet!Word(a, b) = Word(a, b)
  /\ \A a : InstructionSet!Lo(a) = Lo(a) /\ InstructionSet!Hi(a) = Hi(a)
  /\ \A a, d : InstructionSet!Add8(a, d) = Add8(a, d) /\ InstructionSet!Add16(a, d) = Add16(a, d)
  /\ \A b : InstructionSet!Signed(b) = Signed(b)
  /\ \A a, b : InstructionSet!SamePage(a, b) <=> SamePage(a, b)
<1>1. \A a, b : InstructionSet!Word(a, b) = Word(a, b)
  BY DEF InstructionSet!Word, Word
<1>2. \A a : InstructionSet!Lo(a) = Lo(a) /\ InstructionSet!Hi(a) = Hi(a)
  BY DEF InstructionSet!Lo, InstructionSet!Hi, Lo, Hi
<1>3. \A a, d : InstructionSet!Add8(a, d) = Add8(a, d) /\ InstructionSet!Add16(a, d) = Add16(a, d)
  BY DEF InstructionSet!Add8, InstructionSet!Add16, Add8, Add16
<1>4. \A b : InstructionSet!Signed(b) = Signed(b)
  BY DEF InstructionSet!Signed, Signed
<1>5. \A a, b : InstructionSet!SamePage(a, b) <=> SamePage(a, b)
  BY DEF InstructionSet!SamePage, SamePage, InstructionSet!Hi, Hi
<1> QED
  BY <1>1, <1>2, <1>3, <1>4, <1>5

\* and so are bits,
LEMMA SameBits ==
  /\ InstructionSet!Bit(TRUE) = 1 /\ InstructionSet!Bit(FALSE) = 0
  /\ \A b : InstructionSet!Bits(b) = Bits(b)
  /\ \A S : InstructionSet!FromBits(S) = FromBits(S)
  /\ \A a, b : InstructionSet!And(a, b) = And(a, b)
<1>1. InstructionSet!Bit(TRUE) = 1 /\ InstructionSet!Bit(FALSE) = 0
  BY DEF InstructionSet!Bit
<1>2. \A b : InstructionSet!Bits(b) = Bits(b)
  BY DEF InstructionSet!Bits, Bits, InstructionSet!Place, Place
<1>3. \A S : InstructionSet!FromBits(S) = FromBits(S)
  BY DEF InstructionSet!FromBits, FromBits, InstructionSet!Bit, Bit
<1> QED
  BY <1>1, <1>2, <1>3 DEF InstructionSet!And, And

\* the status register,
LEMMA SameStatus ==
  /\ InstructionSet!Flag = Flag
  /\ InstructionSet!BitOf = BitOf
  /\ \A st : InstructionSet!PackStatus(st) = PackStatus(st)
  /\ \A b : InstructionSet!UnpackStatus(b) = UnpackStatus(b)
  /\ \A st, f, c : InstructionSet!With(st, f, c) = With(st, f, c)
<1>1. InstructionSet!Flag = Flag
  BY DEF InstructionSet!Flag, Flag
<1>2. InstructionSet!BitOf = BitOf
  BY DEF InstructionSet!BitOf, BitOf
<1>3. \A st, f, c : InstructionSet!With(st, f, c) = With(st, f, c)
  BY DEF InstructionSet!With, With
<1>4. \A st : InstructionSet!PackStatus(st) = PackStatus(st)
  BY <1>2, SameBits DEF InstructionSet!PackStatus, PackStatus
<1>5. \A b : InstructionSet!UnpackStatus(b) = UnpackStatus(b)
  BY <1>1, <1>2, SameBits DEF InstructionSet!UnpackStatus, UnpackStatus
<1> QED
  BY <1>1, <1>2, <1>3, <1>4, <1>5

\* memory and the opcode table.
LEMMA SameMemory ==
  /\ \A m, a : InstructionSet!Read(m, a) = Read(m, a)
  /\ \A m, a, b : InstructionSet!Write(m, a, b) = Write(m, a, b)
  /\ InstructionSet!opcode_list = opcode_list
  /\ InstructionSet!STACK_BASE = STACK_BASE
  /\ InstructionSet!NMI_VECTOR = NMI_VECTOR
  /\ InstructionSet!RESET_VECTOR = RESET_VECTOR
<1>1. \A m, a : InstructionSet!Read(m, a) = Read(m, a)
  BY DEF InstructionSet!Read, Read
<1>2. \A m, a, b : InstructionSet!Write(m, a, b) = Write(m, a, b)
  BY Zenon DEF InstructionSet!Write, Write
<1>3. InstructionSet!opcode_list = opcode_list
  <2>1. InstructionSet!Rows = Rows
    BY DEF InstructionSet!Rows, Rows
  <2> QED
    BY <2>1, Zenon DEF InstructionSet!opcode_list, opcode_list
<1>4. /\ InstructionSet!STACK_BASE = STACK_BASE
      /\ InstructionSet!NMI_VECTOR = NMI_VECTOR
      /\ InstructionSet!RESET_VECTOR = RESET_VECTOR
  BY DEF InstructionSet!STACK_BASE, STACK_BASE, InstructionSet!NMI_VECTOR, NMI_VECTOR,
         InstructionSet!RESET_VECTOR, RESET_VECTOR
<1> QED
  BY <1>1, <1>2, <1>3, <1>4

-----------------------------------------------------------------------------
(* Addresses. *)

\* Registers and memory at the last boundary have their types.
LastOK == last.reg \in Register /\ IsMemory(last.mem)

\* The pc is past n bytes of the instruction, and nothing else has changed.
Reached(s, n) ==
  /\ DataOK(s)
  /\ s.mem = last.mem
  /\ s.reg = WithPc(last.reg, Add16(last.reg.pc, n))

\* The n-th byte behind the opcode, and a pointer in the zero page.
Arg(n) == Read(last.mem, Add16(last.reg.pc, n))
Pointer(a) == Word(Read(last.mem, a), Read(last.mem, Add8(a, 1)))

\* What is known of the last boundary,
LEMMA LastHas ==
  ASSUME LastOK
  PROVE  /\ last.reg.acc \in Byte /\ last.reg.x \in Byte /\ last.reg.y \in Byte
         /\ last.reg.sp \in Byte /\ last.reg.status \in SUBSET Flag /\ last.reg.pc \in Address
         /\ last.reg.pc \in Int
         /\ \A n : Arg(n) \in Byte
         /\ \A a : Pointer(a) \in Address
<1>1. \A a : Read(last.mem, a) \in Byte
  BY ReadTyped DEF LastOK
<1>2. last.reg \in Register
  BY DEF LastOK
<1> QED
  BY <1>1, <1>2, RegisterHas, AddressIs, WordTyped DEF Arg, Pointer

\* and of a data path that is n bytes past it.
LEMMA ReachedHas ==
  ASSUME NEW s, NEW n, Reached(s, n)
  PROVE  /\ DataOK(s) /\ s.mem = last.mem
         /\ s.reg.acc = last.reg.acc /\ s.reg.x = last.reg.x /\ s.reg.y = last.reg.y
         /\ s.reg.sp = last.reg.sp /\ s.reg.status = last.reg.status
         /\ s.reg.pc = Add16(last.reg.pc, n)
         /\ Read(s.mem, s.reg.pc) = Arg(n)
         /\ \A a : WithPc(s.reg, a) = WithPc(last.reg, a)
<1>1. DataOK(s) /\ s.mem = last.mem /\ s.reg = WithPc(last.reg, Add16(last.reg.pc, n))
  BY DEF Reached
<1>2. /\ s.reg.acc = last.reg.acc /\ s.reg.x = last.reg.x /\ s.reg.y = last.reg.y
      /\ s.reg.sp = last.reg.sp /\ s.reg.status = last.reg.status
      /\ s.reg.pc = Add16(last.reg.pc, n)
  BY <1>1, ChangedHas
<1> QED
  BY <1>1, <1>2 DEF Arg, WithPc

\* A step that reads a byte of the instruction, or leaves the registers alone.
LEMMA ReadStep ==
  ASSUME LastOK, NEW inst, NEW s, NEW n \in Int, Reached(s, n)
  PROVE  /\ LET t == Step("imm", inst, s)
            IN  Reached(t, n + 1) /\ t.data = Arg(n) /\ t.addr = s.addr
         /\ LET t == Step("pc_lo", inst, s)
            IN  Reached(t, n + 1) /\ t.addr = Word(Arg(n), Hi(s.addr))
         /\ LET t == Step("pc_hi", inst, s)
            IN  Reached(t, n + 1) /\ t.addr = Word(Lo(s.addr), Arg(n))
<1>1. DataOK(s)
  BY DEF Reached
<1>2. Add16(Add16(last.reg.pc, n), 1) = Add16(last.reg.pc, n + 1)
  <2>1. last.reg.pc \in Int
    BY LastHas
  <2> QED
    BY <2>1 DEF Add16
<1>3. WithPc(s.reg, Add16(s.reg.pc, 1)) = WithPc(last.reg, Add16(last.reg.pc, n + 1))
  BY <1>2, ReachedHas
<1>4. Read(s.mem, s.reg.pc) = Arg(n) /\ s.mem = last.mem
  BY ReachedHas
<1>5. DataOK(Step("imm", inst, s)) /\ DataOK(Step("pc_lo", inst, s)) /\ DataOK(Step("pc_hi", inst, s))
  BY <1>1, PcStep
<1>6. /\ Step("imm", inst, s) = PathOf(WithPc(last.reg, Add16(last.reg.pc, n + 1)), last.mem, Arg(n), s.addr)
      /\ Step("pc_lo", inst, s) = PathOf(WithPc(last.reg, Add16(last.reg.pc, n + 1)), last.mem, Arg(n),
                                         Word(Arg(n), Hi(s.addr)))
      /\ Step("pc_hi", inst, s) = PathOf(WithPc(last.reg, Add16(last.reg.pc, n + 1)), last.mem, Arg(n),
                                         Word(Lo(s.addr), Arg(n)))
  BY <1>1, <1>3, <1>4, AddressStepIs
<1> QED
  BY <1>5, <1>6, PathHas DEF Reached

\* A step that indexes in the zero page, or reads a pointer there.
LEMMA PointerStep ==
  ASSUME LastOK, NEW inst, NEW s, NEW n \in Int, Reached(s, n)
  PROVE  /\ LET t == Step("imm+x", inst, s)
            IN  Reached(t, n) /\ t.data = Add8(s.data, last.reg.x)
         /\ LET t == Step("imm+y", inst, s)
            IN  Reached(t, n) /\ t.data = Add8(s.data, last.reg.y)
         /\ LET t == Step("zp_lo", inst, s)
            IN  Reached(t, n) /\ t.data = s.data /\ t.addr = Word(Read(last.mem, s.data), Hi(s.addr))
         /\ LET t == Step("zp_hi", inst, s)
            IN  Reached(t, n) /\ t.addr = Word(Lo(s.addr), Read(last.mem, Add8(s.data, 1)))
<1>1. DataOK(s) /\ s.reg = WithPc(last.reg, Add16(last.reg.pc, n)) /\ s.mem = last.mem
  BY DEF Reached
<1>2. s.reg.x = last.reg.x /\ s.reg.y = last.reg.y
  BY ReachedHas
<1>3. /\ DataOK(Step("imm+x", inst, s)) /\ DataOK(Step("imm+y", inst, s))
      /\ DataOK(Step("zp_lo", inst, s)) /\ DataOK(Step("zp_hi", inst, s))
  BY <1>1, OperandStep
<1>4. /\ Step("imm+x", inst, s) = PathOf(s.reg, s.mem, Add8(s.data, s.reg.x), s.addr)
      /\ Step("imm+y", inst, s) = PathOf(s.reg, s.mem, Add8(s.data, s.reg.y), s.addr)
      /\ Step("zp_lo", inst, s) = PathOf(s.reg, s.mem, s.data, Word(Read(s.mem, s.data), Hi(s.addr)))
      /\ Step("zp_hi", inst, s) = PathOf(s.reg, s.mem, Read(s.mem, ZpNext(s.data)),
                        Word(Lo(s.addr), Read(s.mem, ZpNext(s.data))))
  BY <1>1, AddressStepIs
<1>5. ZpNext(s.data) = Add8(s.data, 1)
  BY DEF ZpNext
<1> QED
  BY <1>1, <1>2, <1>3, <1>4, <1>5, PathHas DEF Reached

\* Where the instruction set finds an operand, in the core's terms.
LEMMA EffectiveIs ==
  ASSUME LastOK
  PROVE  /\ InstructionSet!Op1 = Arg(1) /\ InstructionSet!Op2 = Arg(2)
         /\ InstructionSet!EffectiveAddress("ZP") = Arg(1)
         /\ InstructionSet!EffectiveAddress("ZP_X") = Add8(Arg(1), last.reg.x)
         /\ InstructionSet!EffectiveAddress("ZP_Y") = Add8(Arg(1), last.reg.y)
         /\ InstructionSet!EffectiveAddress("ABS") = Word(Arg(1), Arg(2))
         /\ InstructionSet!EffectiveAddress("ABS_X") = Add16(Word(Arg(1), Arg(2)), last.reg.x)
         /\ InstructionSet!EffectiveAddress("ABS_Y") = Add16(Word(Arg(1), Arg(2)), last.reg.y)
         /\ InstructionSet!EffectiveAddress("INDEX_INDIR") = Pointer(Add8(Arg(1), last.reg.x))
         /\ InstructionSet!EffectiveAddress("INDIR_INDEX") = Add16(Pointer(Arg(1)), last.reg.y)
         /\ InstructionSet!EffectiveAddress("IND")
              = Word(Read(last.mem, Word(Arg(1), Arg(2))),
                     Read(last.mem, Add16(Word(Arg(1), Arg(2)), 1)))
         /\ InstructionSet!BaseAddress("ABS_X") = Word(Arg(1), Arg(2))
         /\ InstructionSet!BaseAddress("ABS_Y") = Word(Arg(1), Arg(2))
         /\ InstructionSet!BaseAddress("INDIR_INDEX") = Pointer(Arg(1))
<1>1. \A a \in Address : InstructionSet!At(a) = Read(last.mem, a)
  BY AddNone, SameNumbers, SameMemory DEF InstructionSet!At
<1>2. \A a \in Int, d \in Int : InstructionSet!At(a + d) = Read(last.mem, Add16(a, d))
  BY AddNone, SameNumbers, SameMemory DEF InstructionSet!At
<1>3. InstructionSet!Op1 = Arg(1) /\ InstructionSet!Op2 = Arg(2)
  <2> DEFINE one == 1  two == 2
  <2>1. one \in Int /\ two \in Int /\ last.reg.pc \in Int
    BY LastHas
  <2> HIDE DEF one, two
  <2>2. /\ InstructionSet!At(last.reg.pc + one) = Arg(one)
        /\ InstructionSet!At(last.reg.pc + two) = Arg(two)
    BY ONLY <1>2, <2>1 DEF Arg
  <2> QED
    BY ONLY <2>2 DEF InstructionSet!Op1, InstructionSet!Op2, one, two
<1>4. /\ Arg(1) \in Byte /\ Arg(2) \in Byte /\ Arg(1) \in Int
      /\ last.reg.x \in Byte /\ last.reg.x \in Int
      /\ Word(Arg(1), Arg(2)) \in Address /\ Word(Arg(1), Arg(2)) \in Int
  BY LastHas, ByteIs, WordTyped, AddressIs
<1>5. ASSUME NEW a \in Byte PROVE InstructionSet!ZpWord(a) = Pointer(a)
  <2>1. a \in Int /\ Add8(a, 0) = a /\ Add8(a, 0) \in Address /\ Add8(a, 1) \in Address
    BY AddNone, ByteIs, Add8Typed, ByteIsAddress
  <2> QED
    BY <1>1, <2>1, SameNumbers DEF InstructionSet!ZpWord, Pointer
<1>6. InstructionSet!ZpWord(Arg(1) + last.reg.x) = Pointer(Add8(Arg(1), last.reg.x))
  <2> DEFINE a == Arg(1)
             x == last.reg.x
  <2>1. a \in Int /\ x \in Int
    BY <1>4
  <2> HIDE DEF a, x
  <2>2. Add8(a + x, 0) = Add8(a, x) /\ Add8(a + x, 1) = Add8(Add8(a, x), 1)
    BY <2>1 DEF Add8
  <2>3. Add8(a, x) \in Address /\ Add8(Add8(a, x), 1) \in Address
    BY <2>1, Add8Typed, ByteIs, ByteIsAddress
  <2>4. InstructionSet!ZpWord(a + x) = Pointer(Add8(a, x))
    BY <1>1, <2>2, <2>3, SameNumbers DEF InstructionSet!ZpWord, Pointer
  <2> QED
    BY <2>4 DEF a, x
<1>7. \A a \in Address : InstructionSet!WordAt(a) = Word(Read(last.mem, a), Read(last.mem, Add16(a, 1)))
  BY <1>1, <1>2, AddressIs, SameNumbers DEF InstructionSet!WordAt
<1>8. /\ InstructionSet!BaseAddress("ABS") = Word(Arg(1), Arg(2))
      /\ InstructionSet!BaseAddress("ABS_X") = Word(Arg(1), Arg(2))
      /\ InstructionSet!BaseAddress("ABS_Y") = Word(Arg(1), Arg(2))
      /\ InstructionSet!BaseAddress("IND") = Word(Arg(1), Arg(2))
      /\ InstructionSet!BaseAddress("INDIR_INDEX") = Pointer(Arg(1))
  BY <1>3, <1>4, <1>5, SameNumbers DEF InstructionSet!BaseAddress
<1> QED
  BY <1>3, <1>4, <1>6, <1>7, <1>8, SameNumbers DEF InstructionSet!EffectiveAddress

\* The steps that read an address behind the opcode,
LEMMA AbsoluteSteps ==
  ASSUME LastOK, NEW inst, NEW n \in Int, NEW s0, NEW s1, NEW s2,
         Reached(s0, n), s1 = Step("pc_lo", inst, s0), s2 = Step("pc_hi", inst, s1)
  PROVE  Reached(s2, n + 2) /\ s2.addr = Word(Arg(n), Arg(n + 1))
<1>1. Reached(s1, n + 1) /\ s1.addr = Word(Arg(n), Hi(s0.addr))
  BY ReadStep
<1>2. Lo(s1.addr) = Arg(n)
  <2>1. s0.addr \in Address
    BY DataHas DEF Reached
  <2>2. Arg(n) \in Byte /\ Hi(s0.addr) \in Int
    BY <2>1, LastHas, HalvesTyped, ByteIs
  <2> QED
    BY <1>1, <2>2, WordHalves
<1>3. Reached(s2, (n + 1) + 1) /\ s2.addr = Word(Lo(s1.addr), Arg(n + 1))
  BY <1>1, ReadStep
<1>4. (n + 1) + 1 = n + 2
  OBVIOUS
<1> QED
  BY <1>2, <1>3, <1>4

\* a byte behind it with an index,
LEMMA ZeroPageSteps ==
  ASSUME LastOK, NEW inst, NEW s0, NEW s1, NEW s2,
         Reached(s0, 1), s1 = Step("imm", inst, s0)
  PROVE  /\ Reached(s1, 2) /\ s1.data = Arg(1)
         /\ s2 = Step("imm+x", inst, s1) => Reached(s2, 2) /\ s2.data = Add8(Arg(1), last.reg.x)
         /\ s2 = Step("imm+y", inst, s1) => Reached(s2, 2) /\ s2.data = Add8(Arg(1), last.reg.y)
<1>1. Reached(s1, 2) /\ s1.data = Arg(1)
  BY ReadStep
<1>2. s2 = Step("imm+x", inst, s1) => Reached(s2, 2) /\ s2.data = Add8(Arg(1), last.reg.x)
  BY <1>1, PointerStep
<1>3. s2 = Step("imm+y", inst, s1) => Reached(s2, 2) /\ s2.data = Add8(Arg(1), last.reg.y)
  BY <1>1, PointerStep
<1> QED
  BY <1>1, <1>2, <1>3

\* and a pointer in the zero page.
LEMMA PointerSteps ==
  ASSUME LastOK, NEW inst, NEW s0, NEW s1, NEW s2, Reached(s0, 2),
         s1 = Step("zp_lo", inst, s0), s2 = Step("zp_hi", inst, s1)
  PROVE  Reached(s2, 2) /\ s2.addr = Pointer(s0.data)
<1>1. Reached(s1, 2) /\ s1.data = s0.data /\ s1.addr = Word(Read(last.mem, s0.data), Hi(s0.addr))
  BY PointerStep
<1>2. Lo(s1.addr) = Read(last.mem, s0.data)
  <2>1. s0.addr \in Address
    BY DataHas DEF Reached
  <2>2. Read(last.mem, s0.data) \in Byte /\ Hi(s0.addr) \in Int
    BY <2>1, ReadTyped, HalvesTyped, ByteIs DEF LastOK
  <2> QED
    BY <1>1, <2>2, WordHalves
<1>3. Reached(s2, 2) /\ s2.addr = Word(Lo(s1.addr), Read(last.mem, Add8(s1.data, 1)))
  BY <1>1, PointerStep
<1> QED
  BY <1>1, <1>2, <1>3 DEF Pointer

\* The index of an address.
LEMMA IndexSteps ==
  ASSUME LastOK, NEW inst, NEW n \in Int, NEW s0, NEW step \in {"addr+x", "addr+y"}, Reached(s0, n)
  PROVE  /\ Indexed("addr+x", s0) = Add16(s0.addr, last.reg.x)
         /\ Indexed("addr+y", s0) = Add16(s0.addr, last.reg.y)
         /\ LET s1 == Step(step, inst, s0)
            IN  /\ Reached(s1, n)
                /\ ~Hits(step, inst, s0) => s1.addr = Indexed(step, s0)
                /\ Hits(step, inst, s0) => s1.data = Read(last.mem, Indexed(step, s0))
<1>1. DataOK(s0) /\ s0.reg = WithPc(last.reg, Add16(last.reg.pc, n)) /\ s0.mem = last.mem
  BY DEF Reached
<1>2. s0.reg.x = last.reg.x /\ s0.reg.y = last.reg.y
  BY ReachedHas
<1>3. Step(step, inst, s0) =
        IF Hits(step, inst, s0)
          THEN PathOf(s0.reg, s0.mem, Read(s0.mem, Indexed(step, s0)), s0.addr)
          ELSE PathOf(s0.reg, s0.mem, s0.data, Indexed(step, s0))
  BY <1>1, IndexStepIs
<1>4. DataOK(Step(step, inst, s0))
  BY <1>1, IndexStep
<1>5. LET s1 == Step(step, inst, s0)
      IN  /\ s1.reg = s0.reg /\ s1.mem = s0.mem
          /\ ~Hits(step, inst, s0) => s1.addr = Indexed(step, s0)
          /\ Hits(step, inst, s0) => s1.data = Read(last.mem, Indexed(step, s0))
  BY <1>1, <1>3, PathHas
<1>6. Indexed("addr+x", s0) = Add16(s0.addr, last.reg.x) /\ Indexed("addr+y", s0) = Add16(s0.addr, last.reg.y)
  BY <1>2 DEF Indexed
<1> QED
  BY <1>1, <1>4, <1>5, <1>6 DEF Reached

\* The bytes of an instruction, by its mode.
LengthOf(inst) ==
  /\ inst.addr_mode \in {"IMM", "ZP", "ZP_X", "ZP_Y", "INDEX_INDIR", "INDIR_INDEX", "REL"} => inst.inst_len = 2
  /\ inst.addr_mode \in {"ABS", "ABS_X", "ABS_Y", "IND"} => inst.inst_len = 3
  /\ inst.addr_mode \in {"IMP", "ACC"} => inst.inst_len = 1

\* The table's lengths are those of the modes.
LEMMA RowLength ==
  ASSUME NEW c \in DOMAIN opcode_list, NEW inst, inst = opcode_list[c]
  PROVE  LengthOf(inst)
<1>1. PICK r \in Rows : r[1] = c /\ inst = [op |-> r[2], addr_mode |-> r[3], cycle |-> r[4],
             cycle_aux |-> r[5] = 1, inst_len |-> r[6]]
  <2> DEFINE codes == {row[1] : row \in Rows}
             row(code) == CHOOSE r \in Rows : r[1] = code
  <2>1. DOMAIN opcode_list = codes
    BY DEF opcode_list
  <2>2. \E r \in Rows : r[1] = c
    BY <2>1
  <2>3. row(c) \in Rows /\ row(c)[1] = c
    BY <2>2
  <2>4. inst = [op |-> row(c)[2], addr_mode |-> row(c)[3], cycle |-> row(c)[4],
                cycle_aux |-> row(c)[5] = 1, inst_len |-> row(c)[6]]
    BY <2>1 DEF opcode_list
  <2> QED
    BY <2>3, <2>4
<1>2. inst.addr_mode = r[3] /\ inst.inst_len = r[6]
  BY <1>1
<1> QED
  BY <1>2 DEF Rows, LengthOf

-----------------------------------------------------------------------------
(* An instruction under way. *)

\* The data path after each of the first n steps of an instruction, t[0] after its fetch.
Chain(t, inst, n) ==
  /\ Reached(t[0], 1)
  /\ \A j \in 0 .. n : DataOK(t[j])
  /\ \A j \in 0 .. n - 1 :
       ~FuncFails(j, inst) /\ ~ExecDone(j, inst, t[j]) /\ t[j + 1] = Func(j, inst, t[j])

\* Until it ends an instruction does nothing but its steps.
LEMMA ChainStep ==
  ASSUME NEW t, NEW inst, NEW n \in Nat, Chain(t, inst, n), inst.op # "PLP",
         NEW j \in 0 .. n - 1
  PROVE  /\ DataOK(t[j]) /\ t[j + 1] = Step(Steps(inst)[j + 1], inst, t[j])
         /\ ~ExecDone(j, inst, t[j])
<1>1. DataOK(t[j]) /\ ~ExecDone(j, inst, t[j]) /\ t[j + 1] = Func(j, inst, t[j])
  BY DEF Chain
<1>2. Func(j, inst, t[j]) = Step(Steps(inst)[j + 1], inst, t[j])
  BY <1>1 DEF Func
<1> QED
  BY <1>1, <1>2

\* The address steps: the step that indexes an address does not end the instruction.
Locating(t, inst, k) ==
  /\ Reached(t[0], 1)
  /\ k = Len(AddressSteps[inst.addr_mode])
  /\ \A j \in 0 .. k - 1 :
       LET step == AddressSteps[inst.addr_mode][j + 1]
       IN  /\ t[j + 1] = Step(step, inst, t[j])
           /\ step \in {"addr+x", "addr+y"} => ~Hits(step, inst, t[j])

\* They lead to the operand's address, with the pc behind the instruction.
Located(s, inst) ==
  /\ Reached(s, inst.inst_len)
  /\ Target(inst, s) = InstructionSet!EffectiveAddress(inst.addr_mode)
  /\ Target(inst, s) \in Address

\* Before its index is added an address is the base address.
LEMMA Based ==
  ASSUME LastOK, NEW inst, LengthOf(inst), inst.addr_mode \in {"ABS_X", "ABS_Y", "INDIR_INDEX"},
         NEW t, NEW k, k = Len(AddressSteps[inst.addr_mode]) - 1, Reached(t[0], 1),
         \A j \in 0 .. k - 1 : t[j + 1] = Step(AddressSteps[inst.addr_mode][j + 1], inst, t[j])
  PROVE  /\ Reached(t[k], inst.inst_len)
         /\ t[k].addr = InstructionSet!BaseAddress(inst.addr_mode)
         /\ Indexed(AddressSteps[inst.addr_mode][k + 1], t[k])
              = InstructionSet!EffectiveAddress(inst.addr_mode)
<1>1. CASE inst.addr_mode = "ABS_X"
  <2>1. k = 2 /\ AddressSteps[inst.addr_mode] = <<"pc_lo", "pc_hi", "addr+x">> /\ inst.inst_len = 3
    BY <1>1, ModesAre DEF LengthOf
  <2>2. t[1] = Step("pc_lo", inst, t[0]) /\ t[2] = Step("pc_hi", inst, t[1])
    BY <2>1
  <2>3. Reached(t[2], 3) /\ t[2].addr = Word(Arg(1), Arg(2))
    BY ONLY LastOK, Reached(t[0], 1), <2>2, AbsoluteSteps
  <2>4. Indexed("addr+x", t[2]) = Add16(Word(Arg(1), Arg(2)), last.reg.x)
    BY ONLY LastOK, <2>3, IndexSteps
  <2>5. AddressSteps[inst.addr_mode][k + 1] = "addr+x"
    BY <2>1
  <2> QED
    BY <1>1, <2>1, <2>3, <2>4, <2>5, EffectiveIs
<1>2. CASE inst.addr_mode = "ABS_Y"
  <2>1. k = 2 /\ AddressSteps[inst.addr_mode] = <<"pc_lo", "pc_hi", "addr+y">> /\ inst.inst_len = 3
    BY <1>2, ModesAre DEF LengthOf
  <2>2. t[1] = Step("pc_lo", inst, t[0]) /\ t[2] = Step("pc_hi", inst, t[1])
    BY <2>1
  <2>3. Reached(t[2], 3) /\ t[2].addr = Word(Arg(1), Arg(2))
    BY ONLY LastOK, Reached(t[0], 1), <2>2, AbsoluteSteps
  <2>4. Indexed("addr+y", t[2]) = Add16(Word(Arg(1), Arg(2)), last.reg.y)
    BY ONLY LastOK, <2>3, IndexSteps
  <2>5. AddressSteps[inst.addr_mode][k + 1] = "addr+y"
    BY <2>1
  <2> QED
    BY <1>2, <2>1, <2>3, <2>4, <2>5, EffectiveIs
<1>3. CASE inst.addr_mode = "INDIR_INDEX"
  <2>1. /\ k = 3 /\ AddressSteps[inst.addr_mode] = <<"imm", "zp_lo", "zp_hi", "addr+y">>
        /\ inst.inst_len = 2
    BY <1>3, ModesAre DEF LengthOf
  <2>2. /\ t[1] = Step("imm", inst, t[0]) /\ t[2] = Step("zp_lo", inst, t[1])
        /\ t[3] = Step("zp_hi", inst, t[2])
    BY <2>1
  <2>3. Reached(t[1], 2) /\ t[1].data = Arg(1)
    BY ONLY LastOK, Reached(t[0], 1), <2>2, ZeroPageSteps
  <2>4. Reached(t[3], 2) /\ t[3].addr = Pointer(Arg(1))
    BY ONLY LastOK, <2>2, <2>3, PointerSteps
  <2>5. Indexed("addr+y", t[3]) = Add16(Pointer(Arg(1)), last.reg.y)
    BY ONLY LastOK, <2>4, IndexSteps
  <2>6. AddressSteps[inst.addr_mode][k + 1] = "addr+y"
    BY <2>1
  <2> QED
    BY <1>3, <2>1, <2>4, <2>5, <2>6, EffectiveIs
<1> QED
  BY <1>1, <1>2, <1>3

\* The steps that work out an address end with the instruction set's.
LEMMA LocatingEnds ==
  ASSUME LastOK, NEW inst, LengthOf(inst), inst.addr_mode \in DOMAIN AddressSteps,
         NEW t, NEW k, Locating(t, inst, k)
  PROVE  Located(t[k], inst)
<1> DEFINE m == inst.addr_mode
           a == AddressSteps[m]
<1>0. Reached(t[0], 1) /\ k = Len(a)
  BY DEF Locating
<1>1. \A j \in 0 .. k - 1 : t[j + 1] = Step(a[j + 1], inst, t[j])
  BY DEF Locating
<1>2. \A j \in 0 .. k - 1 : a[j + 1] \in {"addr+x", "addr+y"} => ~Hits(a[j + 1], inst, t[j])
  BY DEF Locating
<1>3. /\ Arg(1) \in Address /\ Word(Arg(1), Arg(2)) \in Address
      /\ Add8(Arg(1), last.reg.x) \in Address /\ Add8(Arg(1), last.reg.y) \in Address
      /\ \A b : Pointer(b) \in Address
  BY LastHas, ByteIs, Add8Typed, ByteIsAddress, WordTyped
<1>4. ASSUME NEW x \in Address, NEW b \in Byte PROVE Add16(x, b) \in Address
  <2>1. x \in Int /\ b \in Int
    BY AddressIs, ByteIs
  <2> QED
    BY <2>1, Add16Typed
<1>5. last.reg.x \in Byte /\ last.reg.y \in Byte
  BY LastHas
<1>6. CASE m = "ZP"
  <2>1. /\ k = 1 /\ a = <<"imm">>
        /\ inst.inst_len = 2 /\ m \in ZeroPage
    BY <1>0, <1>6, ModesAre DEF LengthOf, ZeroPage
  <2>2. t[1] = Step("imm", inst, t[0])
    BY <1>1, <2>1
  <2>3. Reached(t[1], 2) /\ t[1].data = Arg(1)
    BY ONLY LastOK, <1>0, <2>2, ZeroPageSteps
  <2>4. Target(inst, t[k]) = Arg(1) /\ Arg(1) \in Address
    BY <1>3, <1>4, <1>5, <2>1, <2>3 DEF Target
  <2> QED
    BY <1>6, <2>1, <2>3, <2>4, EffectiveIs DEF Located
<1>7. CASE m = "ZP_X"
  <2>1. /\ k = 2 /\ a = <<"imm", "imm+x">>
        /\ inst.inst_len = 2 /\ m \in ZeroPage
    BY <1>0, <1>7, ModesAre DEF LengthOf, ZeroPage
  <2>2. t[1] = Step("imm", inst, t[0]) /\ t[2] = Step("imm+x", inst, t[1])
    BY <1>1, <2>1
  <2>3. Reached(t[2], 2) /\ t[2].data = Add8(Arg(1), last.reg.x)
    BY ONLY LastOK, <1>0, <2>2, ZeroPageSteps
  <2>4. Target(inst, t[k]) = Add8(Arg(1), last.reg.x) /\ Add8(Arg(1), last.reg.x) \in Address
    BY <1>3, <1>4, <1>5, <2>1, <2>3 DEF Target
  <2> QED
    BY <1>7, <2>1, <2>3, <2>4, EffectiveIs DEF Located
<1>8. CASE m = "ZP_Y"
  <2>1. /\ k = 2 /\ a = <<"imm", "imm+y">>
        /\ inst.inst_len = 2 /\ m \in ZeroPage
    BY <1>0, <1>8, ModesAre DEF LengthOf, ZeroPage
  <2>2. t[1] = Step("imm", inst, t[0]) /\ t[2] = Step("imm+y", inst, t[1])
    BY <1>1, <2>1
  <2>3. Reached(t[2], 2) /\ t[2].data = Add8(Arg(1), last.reg.y)
    BY ONLY LastOK, <1>0, <2>2, ZeroPageSteps
  <2>4. Target(inst, t[k]) = Add8(Arg(1), last.reg.y) /\ Add8(Arg(1), last.reg.y) \in Address
    BY <1>3, <1>4, <1>5, <2>1, <2>3 DEF Target
  <2> QED
    BY <1>8, <2>1, <2>3, <2>4, EffectiveIs DEF Located
<1>9. CASE m = "ABS"
  <2>1. /\ k = 2 /\ a = <<"pc_lo", "pc_hi">>
        /\ inst.inst_len = 3 /\ m \notin ZeroPage
    BY <1>0, <1>9, ModesAre DEF LengthOf, ZeroPage
  <2>2. t[1] = Step("pc_lo", inst, t[0]) /\ t[2] = Step("pc_hi", inst, t[1])
    BY <1>1, <2>1
  <2>3. Reached(t[2], 3) /\ t[2].addr = Word(Arg(1), Arg(2))
    BY ONLY LastOK, <1>0, <2>2, AbsoluteSteps
  <2>4. Target(inst, t[k]) = Word(Arg(1), Arg(2)) /\ Word(Arg(1), Arg(2)) \in Address
    BY <1>3, <1>4, <1>5, <2>1, <2>3 DEF Target
  <2> QED
    BY <1>9, <2>1, <2>3, <2>4, EffectiveIs DEF Located
<1>10. CASE m = "ABS_X"
  <2>1. /\ k = 3 /\ a = <<"pc_lo", "pc_hi", "addr+x">>
        /\ inst.inst_len = 3 /\ m \notin ZeroPage
    BY <1>0, <1>10, ModesAre DEF LengthOf, ZeroPage
  <2>2. /\ t[1] = Step("pc_lo", inst, t[0]) /\ t[2] = Step("pc_hi", inst, t[1])
        /\ t[3] = Step("addr+x", inst, t[2])
    BY <1>1, <2>1
  <2>3. Reached(t[2], 3) /\ t[2].addr = Word(Arg(1), Arg(2))
    BY ONLY LastOK, <1>0, <2>2, AbsoluteSteps
  <2>4. ~Hits("addr+x", inst, t[2])
    BY <1>2, <2>1
  <2>5. Reached(t[3], 3) /\ t[3].addr = Add16(Word(Arg(1), Arg(2)), last.reg.x)
    BY ONLY LastOK, <2>2, <2>3, <2>4, IndexSteps
  <2>6. Target(inst, t[k]) = Add16(Word(Arg(1), Arg(2)), last.reg.x) /\ Add16(Word(Arg(1), Arg(2)), last.reg.x) \in Address
    BY <1>3, <1>4, <1>5, <2>1, <2>5 DEF Target
  <2> QED
    BY <1>10, <2>1, <2>5, <2>6, EffectiveIs DEF Located
<1>11. CASE m = "ABS_Y"
  <2>1. /\ k = 3 /\ a = <<"pc_lo", "pc_hi", "addr+y">>
        /\ inst.inst_len = 3 /\ m \notin ZeroPage
    BY <1>0, <1>11, ModesAre DEF LengthOf, ZeroPage
  <2>2. /\ t[1] = Step("pc_lo", inst, t[0]) /\ t[2] = Step("pc_hi", inst, t[1])
        /\ t[3] = Step("addr+y", inst, t[2])
    BY <1>1, <2>1
  <2>3. Reached(t[2], 3) /\ t[2].addr = Word(Arg(1), Arg(2))
    BY ONLY LastOK, <1>0, <2>2, AbsoluteSteps
  <2>4. ~Hits("addr+y", inst, t[2])
    BY <1>2, <2>1
  <2>5. Reached(t[3], 3) /\ t[3].addr = Add16(Word(Arg(1), Arg(2)), last.reg.y)
    BY ONLY LastOK, <2>2, <2>3, <2>4, IndexSteps
  <2>6. Target(inst, t[k]) = Add16(Word(Arg(1), Arg(2)), last.reg.y) /\ Add16(Word(Arg(1), Arg(2)), last.reg.y) \in Address
    BY <1>3, <1>4, <1>5, <2>1, <2>5 DEF Target
  <2> QED
    BY <1>11, <2>1, <2>5, <2>6, EffectiveIs DEF Located
<1>12. CASE m = "INDEX_INDIR"
  <2>1. /\ k = 4 /\ a = <<"imm", "imm+x", "zp_lo", "zp_hi">>
        /\ inst.inst_len = 2 /\ m \notin ZeroPage
    BY <1>0, <1>12, ModesAre DEF LengthOf, ZeroPage
  <2>2. /\ t[1] = Step("imm", inst, t[0]) /\ t[2] = Step("imm+x", inst, t[1])
        /\ t[3] = Step("zp_lo", inst, t[2]) /\ t[4] = Step("zp_hi", inst, t[3])
    BY <1>1, <2>1
  <2>3. Reached(t[2], 2) /\ t[2].data = Add8(Arg(1), last.reg.x)
    BY ONLY LastOK, <1>0, <2>2, ZeroPageSteps
  <2>4. Reached(t[4], 2) /\ t[4].addr = Pointer(Add8(Arg(1), last.reg.x))
    BY ONLY LastOK, <2>2, <2>3, PointerSteps
  <2>5. Target(inst, t[k]) = Pointer(Add8(Arg(1), last.reg.x)) /\ Pointer(Add8(Arg(1), last.reg.x)) \in Address
    BY <1>3, <1>4, <1>5, <2>1, <2>4 DEF Target
  <2> QED
    BY <1>12, <2>1, <2>4, <2>5, EffectiveIs DEF Located
<1>13. CASE m = "INDIR_INDEX"
  <2>1. /\ k = 4 /\ a = <<"imm", "zp_lo", "zp_hi", "addr+y">>
        /\ inst.inst_len = 2 /\ m \notin ZeroPage
    BY <1>0, <1>13, ModesAre DEF LengthOf, ZeroPage
  <2>2. /\ t[1] = Step("imm", inst, t[0]) /\ t[2] = Step("zp_lo", inst, t[1])
        /\ t[3] = Step("zp_hi", inst, t[2]) /\ t[4] = Step("addr+y", inst, t[3])
    BY <1>1, <2>1
  <2>3. Reached(t[1], 2) /\ t[1].data = Arg(1)
    BY ONLY LastOK, <1>0, <2>2, ZeroPageSteps
  <2>4. Reached(t[3], 2) /\ t[3].addr = Pointer(Arg(1))
    BY ONLY LastOK, <2>2, <2>3, PointerSteps
  <2>5. ~Hits("addr+y", inst, t[3])
    BY <1>2, <2>1
  <2>6. Reached(t[4], 2) /\ t[4].addr = Add16(Pointer(Arg(1)), last.reg.y)
    BY ONLY LastOK, <2>2, <2>4, <2>5, IndexSteps
  <2>7. Target(inst, t[k]) = Add16(Pointer(Arg(1)), last.reg.y) /\ Add16(Pointer(Arg(1)), last.reg.y) \in Address
    BY <1>3, <1>4, <1>5, <2>1, <2>6 DEF Target
  <2> QED
    BY <1>13, <2>1, <2>6, <2>7, EffectiveIs DEF Located
<1> QED
  BY <1>6, <1>7, <1>8, <1>9, <1>10, <1>11, <1>12, <1>13, ModesAre

\* The steps that modify a byte, behind those that find it.
ThenModifies(a) ==
  LET k == Len(a)
      s == a \o <<"fetch", "modify", "write_back">>
  IN  /\ Len(s) = k + 3
      /\ s[k + 1] = "fetch" /\ s[k + 2] = "modify" /\ s[k + 3] = "write_back"
      /\ \A j \in 0 .. k - 1 : s[j + 1] = a[j + 1]

\* The address steps come first, and only the last of them can index an address.
LEMMA AddressFirst ==
  ASSUME NEW m \in DOMAIN AddressSteps
  PROVE  LET a == AddressSteps[m]
             k == Len(a)
         IN  /\ k \in 1 .. 4
             /\ \A j \in 0 .. k - 1 : a[j + 1] \in {"imm", "imm+x", "imm+y", "pc_lo", "pc_hi",
                                                    "zp_lo", "zp_hi", "addr+x", "addr+y"}
             /\ \A j \in 0 .. k - 1 : a[j + 1] \in {"addr+x", "addr+y"} =>
                  j = k - 1 /\ m \in {"ABS_X", "ABS_Y", "INDIR_INDEX"}
             /\ m \in {"ABS_X", "ABS_Y", "INDIR_INDEX"} => a[k] \in {"addr+x", "addr+y"}
             /\ \A x : /\ Len(a \o <<x>>) = k + 1
                       /\ (a \o <<x>>)[k + 1] = x
                       /\ \A j \in 0 .. k - 1 : (a \o <<x>>)[j + 1] = a[j + 1]
             /\ ThenModifies(a)
<1> DEFINE a == AddressSteps[m]
           k == Len(a)
<1> DEFINE Simple == {"imm", "imm+x", "imm+y", "pc_lo", "pc_hi", "zp_lo", "zp_hi"}
           Index  == {"addr+x", "addr+y"}
           Fine(b) == /\ b \in Seq(Simple \cup Index) /\ Len(b) \in 1 .. 4
                      /\ \A j \in 0 .. Len(b) - 2 : b[j + 1] \in Simple
                      /\ IF m \in {"ABS_X", "ABS_Y", "INDIR_INDEX"} THEN b[Len(b)] \in Index
                                                                    ELSE b[Len(b)] \in Simple
<1>1. Fine(a)
  <2>1. CASE m = "ZP"
    <3>1. a = <<"imm">>
      BY <2>1, ModesAre
    <3> HIDE DEF a
    <3>2. Len(a) = 1 /\ a[1] = "imm"
      BY <3>1
    <3>3. a \in Seq(Simple \cup Index)
      BY <3>1
    <3> QED
      BY <2>1, <3>2, <3>3
  <2>2. CASE m = "ZP_X"
    <3>1. a = <<"imm", "imm+x">>
      BY <2>2, ModesAre
    <3> HIDE DEF a
    <3>2. Len(a) = 2 /\ a[1] = "imm" /\ a[2] = "imm+x"
      BY <3>1
    <3>3. a \in Seq(Simple \cup Index)
      BY <3>1
    <3> QED
      BY <2>2, <3>2, <3>3
  <2>3. CASE m = "ZP_Y"
    <3>1. a = <<"imm", "imm+y">>
      BY <2>3, ModesAre
    <3> HIDE DEF a
    <3>2. Len(a) = 2 /\ a[1] = "imm" /\ a[2] = "imm+y"
      BY <3>1
    <3>3. a \in Seq(Simple \cup Index)
      BY <3>1
    <3> QED
      BY <2>3, <3>2, <3>3
  <2>4. CASE m = "ABS"
    <3>1. a = <<"pc_lo", "pc_hi">>
      BY <2>4, ModesAre
    <3> HIDE DEF a
    <3>2. Len(a) = 2 /\ a[1] = "pc_lo" /\ a[2] = "pc_hi"
      BY <3>1
    <3>3. a \in Seq(Simple \cup Index)
      BY <3>1
    <3> QED
      BY <2>4, <3>2, <3>3
  <2>5. CASE m = "ABS_X"
    <3>1. a = <<"pc_lo", "pc_hi", "addr+x">>
      BY <2>5, ModesAre
    <3> HIDE DEF a
    <3>2. Len(a) = 3 /\ a[1] = "pc_lo" /\ a[2] = "pc_hi" /\ a[3] = "addr+x"
      BY <3>1
    <3>3. a \in Seq(Simple \cup Index)
      BY <3>1
    <3> QED
      BY <2>5, <3>2, <3>3
  <2>6. CASE m = "ABS_Y"
    <3>1. a = <<"pc_lo", "pc_hi", "addr+y">>
      BY <2>6, ModesAre
    <3> HIDE DEF a
    <3>2. Len(a) = 3 /\ a[1] = "pc_lo" /\ a[2] = "pc_hi" /\ a[3] = "addr+y"
      BY <3>1
    <3>3. a \in Seq(Simple \cup Index)
      BY <3>1
    <3> QED
      BY <2>6, <3>2, <3>3
  <2>7. CASE m = "INDEX_INDIR"
    <3>1. a = <<"imm", "imm+x", "zp_lo", "zp_hi">>
      BY <2>7, ModesAre
    <3> HIDE DEF a
    <3>2. Len(a) = 4 /\ a[1] = "imm" /\ a[2] = "imm+x" /\ a[3] = "zp_lo" /\ a[4] = "zp_hi"
      BY <3>1
    <3>3. a \in Seq(Simple \cup Index)
      BY <3>1
    <3> QED
      BY <2>7, <3>2, <3>3
  <2>8. CASE m = "INDIR_INDEX"
    <3>1. a = <<"imm", "zp_lo", "zp_hi", "addr+y">>
      BY <2>8, ModesAre
    <3> HIDE DEF a
    <3>2. Len(a) = 4 /\ a[1] = "imm" /\ a[2] = "zp_lo" /\ a[3] = "zp_hi" /\ a[4] = "addr+y"
      BY <3>1
    <3>3. a \in Seq(Simple \cup Index)
      BY <3>1
    <3> QED
      BY <2>8, <3>2, <3>3
  <2> QED
    BY <2>1, <2>2, <2>3, <2>4, <2>5, <2>6, <2>7, <2>8, ModesAre
<1> HIDE DEF a
<1>2. a \in Seq(Simple \cup Index) /\ k \in 1 .. 4
  BY <1>1
<1>3. \A j \in 0 .. k - 1 : a[j + 1] \in Simple \cup Index
  <2> SUFFICES ASSUME NEW j \in 0 .. k - 1 PROVE a[j + 1] \in Simple \cup Index
    OBVIOUS
  <2>1. CASE j = k - 1
    BY <1>1, <1>2, <2>1
  <2>2. CASE j # k - 1
    BY <1>1, <1>2, <2>2
  <2> QED
    BY <2>1, <2>2
<1>4. \A j \in 0 .. k - 1 : a[j + 1] \in Index =>
        j = k - 1 /\ m \in {"ABS_X", "ABS_Y", "INDIR_INDEX"}
  <2> SUFFICES ASSUME NEW j \in 0 .. k - 1, a[j + 1] \in Index
               PROVE  j = k - 1 /\ m \in {"ABS_X", "ABS_Y", "INDIR_INDEX"}
    OBVIOUS
  <2>1. CASE j = k - 1
    BY <1>1, <1>2, <2>1
  <2>2. CASE j # k - 1
    BY <1>1, <1>2, <2>2
  <2> QED
    BY <2>1, <2>2
<1>5. m \in {"ABS_X", "ABS_Y", "INDIR_INDEX"} => a[k] \in Index
  BY <1>1
<1>6. ASSUME NEW S, NEW b \in Seq(S), NEW x
      PROVE  /\ Len(b \o <<x>>) = Len(b) + 1
             /\ (b \o <<x>>)[Len(b) + 1] = x
             /\ \A j \in 0 .. Len(b) - 1 : (b \o <<x>>)[j + 1] = b[j + 1]
  OBVIOUS
<1>7. ASSUME NEW S, NEW b \in Seq(S)
      PROVE  LET s == b \o <<"fetch", "modify", "write_back">>
             IN  /\ Len(s) = Len(b) + 3
                 /\ s[Len(b) + 1] = "fetch" /\ s[Len(b) + 2] = "modify" /\ s[Len(b) + 3] = "write_back"
                 /\ \A j \in 0 .. Len(b) - 1 : s[j + 1] = b[j + 1]
  OBVIOUS
<1> QED
  BY <1>2, <1>3, <1>4, <1>5, <1>6, <1>7 DEF a, ThenModifies

\* How many steps a mode takes.
LEMMA AddressLengths ==
  /\ \A m \in {"ABS_X", "ABS_Y"} : Len(AddressSteps[m]) = 3
  /\ \A m \in {"INDEX_INDIR", "INDIR_INDEX"} : Len(AddressSteps[m]) = 4
  /\ Len(AddressSteps["ZP"]) = 1
  /\ \A m \in {"ZP_X", "ZP_Y", "ABS"} : Len(AddressSteps[m]) = 2
<1>1. /\ Len(AddressSteps["ZP"]) = 1 /\ Len(AddressSteps["ZP_X"]) = 2 /\ Len(AddressSteps["ZP_Y"]) = 2
      /\ Len(AddressSteps["ABS"]) = 2 /\ Len(AddressSteps["ABS_X"]) = 3 /\ Len(AddressSteps["ABS_Y"]) = 3
      /\ Len(AddressSteps["INDEX_INDIR"]) = 4 /\ Len(AddressSteps["INDIR_INDEX"]) = 4
  BY ModesAre
<1> QED
  BY <1>1

IndexedModes == {"ABS_X", "ABS_Y", "INDIR_INDEX"}

\* The table counts a cycle for each step of a load that hits.
LEMMA LoadCycles ==
  ASSUME NEW inst, LoadRow(inst), inst.addr_mode # "IMM"
  PROVE  LET k == Len(AddressSteps[inst.addr_mode])
         IN  /\ inst.addr_mode \in IndexedModes => k + 1 = inst.cycle /\ inst.cycle_aux
             /\ inst.addr_mode \notin IndexedModes => k + 2 = inst.cycle /\ ~inst.cycle_aux
<1> DEFINE m == inst.addr_mode
           k == Len(AddressSteps[m])
<1>2. /\ m \in {"ABS_X", "ABS_Y"} => k = 3
      /\ m \in {"INDEX_INDIR", "INDIR_INDEX"} => k = 4
      /\ m = "ZP" => k = 1
      /\ m \in {"ZP_X", "ZP_Y", "ABS"} => k = 2
  BY AddressLengths
<1> HIDE DEF k
<1>3. m \in IndexedModes => k + 1 = inst.cycle
  BY <1>2 DEF LoadRow, IndexedModes
<1>4. m \notin IndexedModes => k + 2 = inst.cycle
  BY <1>2 DEF LoadRow, IndexedModes
<1>5. m \in IndexedModes => inst.cycle_aux
  BY DEF LoadRow, IndexedModes
<1>6. m \notin IndexedModes => ~inst.cycle_aux
  BY DEF LoadRow, IndexedModes
<1> QED
  BY <1>3, <1>4, <1>5, <1>6 DEF k

\* What the operand is that the instruction set sees.
LEMMA OperandIs ==
  ASSUME LastOK, NEW m, m \notin {"IMM", "ACC"}, InstructionSet!EffectiveAddress(m) \in Address
  PROVE  InstructionSet!Operand(m) = Read(last.mem, InstructionSet!EffectiveAddress(m))
<1>1. InstructionSet!Operand(m) = InstructionSet!At(InstructionSet!EffectiveAddress(m))
  BY DEF InstructionSet!Operand
<1> HIDE DEF InstructionSet!EffectiveAddress
<1> QED
  BY <1>1, AddNone, SameNumbers, SameMemory DEF InstructionSet!At

\* An instruction that has done n steps and does its last.
Finishing(t, inst, n) ==
  /\ n \in 0 .. 5
  /\ Chain(t, inst, n)
  /\ n < Len(Steps(inst))
  /\ ExecDone(n, inst, t[n])

LastStep(t, inst, n) == Step(Steps(inst)[n + 1], inst, t[n])

\* The end of a load: the byte that is in the data buffer, and the cycles.
LoadEnd(u, inst, n) ==
  /\ Reached(u, inst.inst_len)
  /\ u.data = InstructionSet!Operand(inst.addr_mode)
  /\ n + 2 = inst.cycle + (IF InstructionSet!Crosses(inst) THEN 1 ELSE 0)

\* A load of an immediate operand,
LEMMA ImmediateEnds ==
  ASSUME LastOK, NEW inst, LoadRow(inst), LengthOf(inst), inst.addr_mode = "IMM",
         NEW t, NEW n, Finishing(t, inst, n)
  PROVE  LoadEnd(LastStep(t, inst, n), inst, n)
<1>1. Steps(inst) = <<"imm">>
  BY DEF Steps, LoadRow, LoadSteps, LoadOps, StoreOps, ModifyOps, BranchOps
<1>2. n = 0
  BY <1>1 DEF Finishing
<1>3. Reached(t[0], 1)
  BY DEF Finishing, Chain
<1>4. Reached(Step("imm", inst, t[0]), 2) /\ Step("imm", inst, t[0]).data = Arg(1)
  BY ONLY LastOK, <1>3, ZeroPageSteps
<1>5. LastStep(t, inst, n) = Step("imm", inst, t[0])
  BY <1>1, <1>2 DEF LastStep
<1>6. InstructionSet!Operand("IMM") = Arg(1)
  BY EffectiveIs DEF InstructionSet!Operand
<1>7. inst.cycle = 2 /\ ~InstructionSet!Crosses(inst) /\ inst.inst_len = 2
  BY DEF LoadRow, LengthOf, InstructionSet!Crosses
<1> QED
  BY <1>2, <1>4, <1>5, <1>6, <1>7 DEF LoadEnd

\* and any load, over a page or not, has its operand when it ends.
LEMMA LoadEnds ==
  ASSUME LastOK, NEW inst, LoadRow(inst), LengthOf(inst), NEW t, NEW n, Finishing(t, inst, n)
  PROVE  LoadEnd(LastStep(t, inst, n), inst, n)
<1> DEFINE m == inst.addr_mode
           a == AddressSteps[m]
           k == Len(a)
           ea == InstructionSet!EffectiveAddress(m)
<1>1. CASE m = "IMM"
  BY <1>1, ImmediateEnds
<1>2. CASE m # "IMM"
  <2>1. m \in DOMAIN AddressSteps /\ inst.op \in LoadOps /\ inst.op \notin BranchOps /\ inst.op # "PLP"
    BY <1>2, ModesAre DEF LoadRow, LoadOps, BranchOps
  <2>2. Steps(inst) = a \o <<"load">>
    <3>1. Steps(inst) = LoadSteps(m)
      BY DEF Steps, LoadRow, LoadOps, StoreOps, ModifyOps, BranchOps
    <3>2. m # "REL"
      BY <2>1, ModesAre
    <3> QED
      BY <1>2, <2>1, <3>1, <3>2 DEF LoadSteps
  <2>3. k \in 1 .. 4 /\ n \in 0 .. 5 /\ Chain(t, inst, n) /\ ExecDone(n, inst, t[n])
    BY <2>1, AddressFirst DEF Finishing
  <2>4. Len(Steps(inst)) = k + 1 /\ Steps(inst)[k + 1] = "load" /\ n <= k
    <3>1. Len(Steps(inst)) = k + 1 /\ Steps(inst)[k + 1] = "load"
      BY <2>1, <2>2, AddressFirst
    <3>2. n < Len(Steps(inst))
      BY DEF Finishing
    <3> HIDE DEF k
    <3> QED
      BY <2>3, <3>1, <3>2
  <2>5. \A j \in 0 .. k - 1 : Steps(inst)[j + 1] = a[j + 1]
    <3>1. \A x : /\ Len(a \o <<x>>) = k + 1
                 /\ (a \o <<x>>)[k + 1] = x
                 /\ \A j \in 0 .. k - 1 : (a \o <<x>>)[j + 1] = a[j + 1]
      BY <2>1, AddressFirst
    <3> HIDE DEF a, k
    <3> QED
      BY <2>2, <3>1
  <2>6. \A j \in 0 .. k - 1 : a[j + 1] # "branch" /\ (a[j + 1] \in {"addr+x", "addr+y"} =>
          j = k - 1 /\ m \in {"ABS_X", "ABS_Y", "INDIR_INDEX"})
    BY <2>1, AddressFirst
  <2> HIDE DEF a, k, ea
  <2>7. ASSUME NEW j \in 0 .. k - 1
        PROVE  ExecDone(j, inst, t[j]) <=> a[j + 1] \in {"addr+x", "addr+y"} /\ Hits(a[j + 1], inst, t[j])
    <3>1. j + 1 # k + 1
      BY <2>3
    <3> QED
      BY <2>1, <2>4, <2>5, <2>6, <3>1 DEF ExecDone
  <2>8. \A j \in 0 .. n - 1 : /\ t[j + 1] = Step(Steps(inst)[j + 1], inst, t[j])
                              /\ ~ExecDone(j, inst, t[j])
    <3> SUFFICES ASSUME NEW j \in 0 .. n - 1
                 PROVE  t[j + 1] = Step(Steps(inst)[j + 1], inst, t[j]) /\ ~ExecDone(j, inst, t[j])
      OBVIOUS
    <3>1. n \in Nat
      BY <2>3
    <3> QED
      BY <2>1, <2>3, <3>1, ChainStep
  <2>9. Reached(t[0], 1)
    BY <2>3 DEF Chain
  <2>10. LastStep(t, inst, n) = Step(Steps(inst)[n + 1], inst, t[n])
    BY DEF LastStep
  <2>11. /\ m \in IndexedModes => k + 1 = inst.cycle /\ inst.cycle_aux
         /\ m \notin IndexedModes => k + 2 = inst.cycle /\ ~inst.cycle_aux
    BY <1>2, LoadCycles DEF k, a
  <2>12. m \in IndexedModes => a[k] \in {"addr+x", "addr+y"}
    BY <2>1, AddressFirst DEF k, a, IndexedModes
  <2>13. ASSUME m \in IndexedModes, k - 1 <= n
         PROVE  /\ Reached(t[k - 1], inst.inst_len) /\ Indexed(a[k], t[k - 1]) = ea
                /\ t[k - 1].addr = InstructionSet!BaseAddress(m)
    <3>1. ASSUME NEW j \in 0 .. (k - 1) - 1 PROVE t[j + 1] = Step(a[j + 1], inst, t[j])
      <4>1. j \in 0 .. k - 1 /\ j \in 0 .. n - 1
        BY <2>3, <2>13
      <4> QED
        BY <2>5, <2>8, <4>1
    <3>2. k - 1 = Len(AddressSteps[m]) - 1 /\ (k - 1) + 1 = k
      BY <2>3 DEF k, a
    <3> QED
      BY <2>9, <2>13, <3>1, <3>2, Based DEF IndexedModes, ea, a
  <2>14. m \in IndexedModes => (InstructionSet!Crosses(inst) <=> ~SamePage(InstructionSet!BaseAddress(m), ea))
    BY <2>11, SameNumbers DEF InstructionSet!Crosses, ea
  <2>15. m \notin IndexedModes => ~InstructionSet!Crosses(inst)
    BY <2>11 DEF InstructionSet!Crosses
  <2>16. CASE n = k
    <3>1. ASSUME NEW j \in 0 .. k - 1
          PROVE  /\ t[j + 1] = Step(a[j + 1], inst, t[j])
                 /\ a[j + 1] \in {"addr+x", "addr+y"} => ~Hits(a[j + 1], inst, t[j])
      BY <2>5, <2>7, <2>8, <2>16
    <3>2. Locating(t, inst, k)
      BY <2>9, <3>1 DEF Locating, k, a
    <3>3. Located(t[k], inst)
      BY <2>1, <3>2, LocatingEnds
    <3>4. LastStep(t, inst, n) = Step("load", inst, t[k])
      BY <2>4, <2>10, <2>16
    <3>5. DataOK(t[k]) /\ t[k].mem = last.mem
      BY <3>3 DEF Located, Reached
    <3>6. Step("load", inst, t[k]) = PathOf(t[k].reg, last.mem, Read(last.mem, ea), t[k].addr)
      BY <3>3, <3>5, OperandStepIs DEF Located, ea
    <3>7. DataOK(Step("load", inst, t[k]))
      BY <3>5, OperandStep
    <3>8. Read(last.mem, ea) = InstructionSet!Operand(m)
      <4>1. InstructionSet!EffectiveAddress(m) \in Address
        BY <3>3 DEF Located
      <4>2. m # "ACC"
        BY <2>1, ModesAre
      <4> QED
        BY <1>2, <4>1, <4>2, OperandIs DEF ea
    <3>9. Reached(Step("load", inst, t[k]), inst.inst_len)
      BY <3>3, <3>6, <3>7, PathHas DEF Located, Reached
    <3>10. m \in IndexedModes => InstructionSet!Crosses(inst)
      <4> SUFFICES ASSUME m \in IndexedModes PROVE InstructionSet!Crosses(inst)
        OBVIOUS
      <4>1. k - 1 \in 0 .. k - 1 /\ (k - 1) + 1 = k
        BY <2>3
      <4>2. ~Hits(a[k], inst, t[k - 1])
        BY <2>12, <3>1, <4>1
      <4>3. Indexed(a[k], t[k - 1]) = ea /\ t[k - 1].addr = InstructionSet!BaseAddress(m)
        BY <2>3, <2>13, <2>16
      <4> QED
        BY <2>1, <2>14, <4>2, <4>3 DEF Hits
    <3>11. n + 2 = inst.cycle + (IF InstructionSet!Crosses(inst) THEN 1 ELSE 0)
      BY <2>3, <2>11, <2>15, <2>16, <3>10
    <3> QED
      BY <3>4, <3>6, <3>8, <3>9, <3>11, PathHas DEF LoadEnd
  <2>17. CASE n # k
    <3>1. n \in 0 .. k - 1
      BY <2>3, <2>4, <2>17
    <3>2. a[n + 1] \in {"addr+x", "addr+y"} /\ Hits(a[n + 1], inst, t[n])
      BY <2>3, <2>7, <3>1
    <3>3. n = k - 1 /\ m \in IndexedModes /\ n + 1 = k
      BY <2>3, <2>6, <3>1, <3>2 DEF IndexedModes
    <3>4. /\ Reached(t[n], inst.inst_len) /\ Indexed(a[k], t[n]) = ea
          /\ t[n].addr = InstructionSet!BaseAddress(m)
      BY <2>3, <2>13, <3>3
    <3>5. LastStep(t, inst, n) = Step(a[k], inst, t[n])
      BY <2>5, <2>10, <3>1, <3>3
    <3>6. inst.inst_len \in Int
      BY <2>1, ModesAre DEF LengthOf
    <3>7. Reached(Step(a[k], inst, t[n]), inst.inst_len) /\ Step(a[k], inst, t[n]).data = Read(last.mem, ea)
      <4>1. a[k] \in {"addr+x", "addr+y"} /\ Hits(a[k], inst, t[n])
        BY <3>2, <3>3
      <4> QED
        BY ONLY LastOK, <3>4, <3>6, <4>1, IndexSteps
    <3>8. ea \in Address
      <4>1. DataOK(t[n])
        BY <3>4 DEF Reached
      <4> QED
        BY <3>4, <4>1, IndexTyped
    <3>9. Read(last.mem, ea) = InstructionSet!Operand(m)
      <4>1. m # "ACC"
        BY <2>1, ModesAre
      <4> QED
        BY <1>2, <3>8, <4>1, OperandIs DEF ea
    <3>10. ~InstructionSet!Crosses(inst)
      <4>1. Hits(a[k], inst, t[n]) /\ inst.cycle_aux
        BY <2>11, <3>2, <3>3
      <4> QED
        BY <2>14, <3>3, <3>4, <4>1 DEF Hits
    <3>11. n + 2 = inst.cycle + (IF InstructionSet!Crosses(inst) THEN 1 ELSE 0)
      BY <2>3, <2>11, <3>3, <3>10
    <3> QED
      BY <3>5, <3>7, <3>9, <3>11 DEF LoadEnd
  <2> QED
    BY <2>16, <2>17
<1> QED
  BY <1>1, <1>2

\* Whatever is stored, the address is there after the address steps.
LEMMA ChainLocates ==
  ASSUME LastOK, NEW inst, LengthOf(inst), inst.addr_mode \in DOMAIN AddressSteps,
         inst.op \notin LoadOps, inst.op # "PLP",
         NEW t, NEW n \in Nat, Chain(t, inst, n),
         NEW k, k = Len(AddressSteps[inst.addr_mode]), k <= n,
         \A j \in 0 .. k - 1 : Steps(inst)[j + 1] = AddressSteps[inst.addr_mode][j + 1]
  PROVE  Located(t[k], inst)
<1> DEFINE a == AddressSteps[inst.addr_mode]
<1>1. k \in 1 .. 4
  BY AddressFirst
<1>2. ASSUME NEW j \in 0 .. k - 1 PROVE t[j + 1] = Step(a[j + 1], inst, t[j])
  <2>1. j \in 0 .. n - 1
    BY <1>1
  <2> QED
    BY <2>1, ChainStep
<1>3. \A step, s : ~Hits(step, inst, s)
  BY DEF Hits
<1>4. Reached(t[0], 1)
  BY DEF Chain
<1>5. Locating(t, inst, k)
  BY <1>2, <1>3, <1>4 DEF Locating
<1> QED
  BY <1>5, LocatingEnds

\* Past of the instruction set, and the byte that is stored.
LEMMA PastIs ==
  ASSUME LastOK, NEW inst
  PROVE  InstructionSet!Past(inst) = WithPc(last.reg, Add16(last.reg.pc, inst.inst_len))
<1>1. InstructionSet!Past(inst) = [last.reg EXCEPT !.pc = InstructionSet!Add16(last.reg.pc, inst.inst_len)]
  BY Zenon DEF InstructionSet!Past
<1>2. last.reg \in Register
  BY DEF LastOK
<1>3. \A a : [last.reg EXCEPT !.pc = a] = WithPc(last.reg, a)
  BY <1>2, OneChanged
<1> QED
  BY <1>1, <1>3, SameNumbers

\* What is stored does not depend on the pc.
LEMMA StoredIs ==
  ASSUME NEW op \in {"STA", "STX", "STY", "PHA", "PHP"}, NEW r, NEW a
  PROVE  Stored(op, WithPc(r, a)) = Stored(op, r)
<1>1. /\ WithPc(r, a).acc = r.acc /\ WithPc(r, a).x = r.x /\ WithPc(r, a).y = r.y
      /\ WithPc(r, a).status = r.status
  BY ChangedHas
<1> QED
  BY <1>1 DEF Stored

\* The end of a store.
StoreEnd(u, inst, n) ==
  /\ u.reg = InstructionSet!Past(inst)
  /\ u.mem = Write(last.mem, InstructionSet!EffectiveAddress(inst.addr_mode), Stored(inst.op, last.reg))
  /\ n + 2 = inst.cycle

\* A store has stored when it ends.
LEMMA StoreEnds ==
  ASSUME LastOK, NEW inst, StoreRow(inst), LengthOf(inst), NEW t, NEW n, Finishing(t, inst, n)
  PROVE  StoreEnd(LastStep(t, inst, n), inst, n)
<1> DEFINE m == inst.addr_mode
           a == AddressSteps[m]
           k == Len(a)
           ea == InstructionSet!EffectiveAddress(m)
<1>1. /\ m \in DOMAIN AddressSteps /\ inst.op \in StoreOps
      /\ inst.op \notin LoadOps /\ inst.op \notin BranchOps /\ inst.op # "PLP"
  BY ModesAre DEF StoreRow, LoadOps, StoreOps, BranchOps
<1>2. Steps(inst) = a \o <<"store">>
  <2>1. Steps(inst) = StoreSteps(m)
    BY <1>1 DEF Steps, LoadOps, StoreOps, ModifyOps, BranchOps
  <2> QED
    BY <1>1, <2>1 DEF StoreSteps
<1>3. k \in 1 .. 4 /\ n \in 0 .. 5 /\ n \in Nat /\ Chain(t, inst, n) /\ ExecDone(n, inst, t[n])
  BY <1>1, AddressFirst DEF Finishing
<1>4. /\ Len(Steps(inst)) = k + 1 /\ Steps(inst)[k + 1] = "store"
      /\ \A j \in 0 .. k - 1 : Steps(inst)[j + 1] = a[j + 1]
  <2>1. \A x : /\ Len(a \o <<x>>) = k + 1
               /\ (a \o <<x>>)[k + 1] = x
               /\ \A j \in 0 .. k - 1 : (a \o <<x>>)[j + 1] = a[j + 1]
    BY ONLY <1>1, AddressFirst
  <2> HIDE DEF a, k
  <2> QED
    BY <1>2, <2>1
<1>5. \A j \in 0 .. k - 1 : a[j + 1] # "branch"
  BY ONLY <1>1, AddressFirst
<1>6. n < Len(Steps(inst))
  BY DEF Finishing
<1>7. k + 2 = inst.cycle
  <2>1. /\ m = "ZP" => k = 1
        /\ m \in {"ZP_X", "ZP_Y", "ABS"} => k = 2
        /\ m \in {"ABS_X", "ABS_Y"} => k = 3
        /\ m \in {"INDEX_INDIR", "INDIR_INDEX"} => k = 4
    BY AddressLengths
  <2> HIDE DEF k
  <2> QED
    BY <2>1 DEF StoreRow
<1>8. k = Len(AddressSteps[m])
  OBVIOUS
<1> HIDE DEF k, ea
<1>9. \A step, s : ~Hits(step, inst, s)
  BY <1>1 DEF Hits
<1>10. n = k
  <2>1. CASE n \in 0 .. k - 1
    BY <1>1, <1>3, <1>4, <1>5, <1>9, <2>1 DEF ExecDone
  <2>2. CASE n \notin 0 .. k - 1
    BY <1>3, <1>4, <1>6, <2>2
  <2> QED
    BY <2>1, <2>2
<1>11. Located(t[k], inst)
  <2>1. k <= n
    BY <1>3, <1>10
  <2> QED
    BY ONLY LastOK, LengthOf(inst), <1>1, <1>3, <1>4, <1>8, <2>1, ChainLocates
<1>12. LastStep(t, inst, n) = Step("store", inst, t[k])
  BY <1>4, <1>10 DEF LastStep
<1>13. DataOK(t[k]) /\ t[k].mem = last.mem /\ t[k].reg = WithPc(last.reg, Add16(last.reg.pc, inst.inst_len))
  BY <1>11 DEF Located, Reached
<1>14. Stored(inst.op, t[k].reg) = Stored(inst.op, last.reg)
  BY <1>1, <1>13, StoredIs DEF StoreOps
<1>15. Step("store", inst, t[k]) = PathOf(t[k].reg, Write(last.mem, ea, Stored(inst.op, last.reg)),
                                        Stored(inst.op, last.reg), t[k].addr)
  BY <1>11, <1>13, <1>14, OperandStepIs DEF Located, ea
<1>16. t[k].reg = InstructionSet!Past(inst)
  BY <1>13, PastIs
<1> QED
  BY <1>7, <1>10, <1>12, <1>15, <1>16, PathHas DEF StoreEnd, ea

\* The end of an instruction that modifies a byte of memory.
ModifyEnd(u, inst, n) ==
  LET b  == InstructionSet!Operand(inst.addr_mode)
      st == last.reg.status
      r  == Modified(inst.op, b, "carry" \in st)
  IN  /\ u.reg = WithStatus(InstructionSet!Past(inst), CarryOut(inst.op, b, st))
      /\ u.mem = Write(last.mem, InstructionSet!EffectiveAddress(inst.addr_mode), r)
      /\ u.data = r
      /\ DataOK(u)
      /\ b \in Byte
      /\ n + 2 = inst.cycle

\* An instruction that modifies a byte has written it back when it ends.
LEMMA ModifyEnds ==
  ASSUME LastOK, NEW inst, ModifyRow(inst), inst.addr_mode # "ACC", LengthOf(inst),
         NEW t, NEW n, Finishing(t, inst, n)
  PROVE  ModifyEnd(LastStep(t, inst, n), inst, n)
<1> DEFINE m == inst.addr_mode
           a == AddressSteps[m]
           k == Len(a)
           ea == InstructionSet!EffectiveAddress(m)
           b == Read(last.mem, ea)
           st == last.reg.status
           r == Modified(inst.op, b, "carry" \in st)
<1>1. /\ m \in DOMAIN AddressSteps /\ inst.op \in ModifyOps /\ m # "IMM"
      /\ inst.op \notin LoadOps /\ inst.op \notin BranchOps /\ inst.op # "PLP"
  BY ModesAre DEF ModifyRow, LoadOps, ModifyOps, BranchOps
<1>2. Steps(inst) = a \o <<"fetch", "modify", "write_back">>
  BY <1>1 DEF Steps, ModifySteps, ModifyRow, LoadOps, StoreOps, ModifyOps
<1>3. k \in 1 .. 4 /\ n \in 0 .. 5 /\ n \in Nat /\ Chain(t, inst, n) /\ ExecDone(n, inst, t[n])
  BY <1>1, AddressFirst DEF Finishing
<1>4. /\ Len(Steps(inst)) = k + 3
      /\ Steps(inst)[k + 1] = "fetch" /\ Steps(inst)[k + 2] = "modify" /\ Steps(inst)[k + 3] = "write_back"
      /\ \A j \in 0 .. k - 1 : Steps(inst)[j + 1] = a[j + 1]
  <2> DEFINE s == a \o <<"fetch", "modify", "write_back">>
  <2>1. /\ Len(s) = k + 3
        /\ s[k + 1] = "fetch" /\ s[k + 2] = "modify" /\ s[k + 3] = "write_back"
        /\ \A j \in 0 .. k - 1 : s[j + 1] = a[j + 1]
    <3>1. ThenModifies(a)
      BY ONLY <1>1, AddressFirst
    <3> QED
      BY ONLY <3>1 DEF ThenModifies
  <2> HIDE DEF a, k
  <2> QED
    BY <1>2, <2>1
<1>5. \A j \in 0 .. k - 1 : a[j + 1] # "branch"
  BY <1>1, AddressFirst
<1>6. n < Len(Steps(inst))
  BY DEF Finishing
<1>7. k + 4 = inst.cycle
  <2>1. /\ m = "ZP" => k = 1
        /\ m \in {"ZP_X", "ABS"} => k = 2
        /\ m = "ABS_X" => k = 3
    BY AddressLengths
  <2> HIDE DEF k
  <2> QED
    BY <2>1 DEF ModifyRow
<1>8. k = Len(AddressSteps[m])
  OBVIOUS
<1> HIDE DEF k, ea
<1>9. \A step, s : ~Hits(step, inst, s)
  BY <1>1 DEF Hits
<1>10. n = k + 2
  <2>1. CASE n \in 0 .. k - 1
    BY <1>1, <1>3, <1>4, <1>5, <1>9, <2>1 DEF ExecDone
  <2>2. CASE n = k
    BY <1>1, <1>3, <1>4, <2>2 DEF ExecDone
  <2>3. CASE n = k + 1
    BY <1>1, <1>3, <1>4, <2>3 DEF ExecDone
  <2> QED
    BY <1>3, <1>4, <1>6, <2>1, <2>2, <2>3
<1>11. Located(t[k], inst)
  <2>1. k <= n
    BY <1>3, <1>10
  <2> QED
    BY <1>1, <1>3, <1>4, <1>8, <2>1, ChainLocates
<1>12. /\ t[k + 1] = Step("fetch", inst, t[k]) /\ t[k + 2] = Step("modify", inst, t[k + 1])
       /\ LastStep(t, inst, n) = Step("write_back", inst, t[k + 2])
  <2>1. k \in 0 .. n - 1 /\ k + 1 \in 0 .. n - 1 /\ (k + 1) + 1 = k + 2 /\ n + 1 = k + 3
    BY <1>3, <1>10
  <2>2. t[k + 1] = Step("fetch", inst, t[k])
    BY <1>1, <1>3, <1>4, <2>1, ChainStep
  <2>3. t[(k + 1) + 1] = Step(Steps(inst)[(k + 1) + 1], inst, t[k + 1])
    BY <1>1, <1>3, <2>1, ChainStep
  <2> QED
    BY <1>4, <1>10, <2>1, <2>2, <2>3 DEF LastStep
<1> DEFINE s0 == t[k]
           s1 == t[k + 1]
           s2 == t[k + 2]
           u == LastStep(t, inst, n)
<1>13. /\ DataOK(s0) /\ s0.mem = last.mem /\ s0.reg = InstructionSet!Past(inst)
       /\ s0.reg = WithPc(last.reg, Add16(last.reg.pc, inst.inst_len)) /\ Target(inst, s0) = ea
  BY <1>11, PastIs DEF Located, Reached, ea
<1>14. s0.reg.status = st
  BY <1>13, ChangedHas
<1> HIDE DEF s0, s1, s2, u, b, r, st
<1>15. s1 = PathOf(s0.reg, last.mem, b, ea) /\ DataOK(s1)
  BY <1>12, <1>13, OperandStepIs, OperandStep DEF s0, s1, b
<1>16. s1.reg = s0.reg /\ s1.mem = last.mem /\ s1.data = b /\ s1.addr = ea
  BY <1>15, PathHas
<1>17. s2 = PathOf(WithStatus(s0.reg, CarryOut(inst.op, b, st)), last.mem, r, ea)
  <2>1. s2 = Step("modify", inst, s1)
    BY <1>12 DEF s1, s2
  <2>2. s2 = PathOf(WithStatus(s1.reg, CarryOut(inst.op, s1.data, s1.reg.status)), s1.mem,
                    Modified(inst.op, s1.data, "carry" \in s1.reg.status), s1.addr)
    BY <1>15, <2>1, OperandStepIs
  <2> QED
    BY <1>14, <1>16, <2>2 DEF r
<1>18. DataOK(s2)
  <2>1. s2 = Step("modify", inst, s1)
    BY <1>12 DEF s1, s2
  <2> QED
    BY <1>1, <1>15, <2>1, StepTyped
<1>19. /\ s2.reg = WithStatus(s0.reg, CarryOut(inst.op, b, st))
       /\ s2.mem = last.mem /\ s2.data = r /\ s2.addr = ea
  BY <1>17, PathHas
<1>20. u = PathOf(s2.reg, Write(last.mem, ea, r), r, ea)
  BY <1>12, <1>18, <1>19, OperandStepIs DEF u, s2
<1>21. DataOK(u)
  BY <1>12, <1>18, OperandStep DEF u, s2
<1>22. u.reg = s2.reg /\ u.mem = Write(last.mem, ea, r) /\ u.data = r
  BY <1>20, PathHas
<1>23. ea \in Address /\ InstructionSet!Operand(m) = b /\ b \in Byte
  <2>1. InstructionSet!EffectiveAddress(m) \in Address
    BY <1>11 DEF Located
  <2>2. Read(last.mem, ea) \in Byte
    BY ReadTyped DEF LastOK
  <2>3. m # "ACC"
    OBVIOUS
  <2> QED
    BY <1>1, <2>1, <2>2, <2>3, OperandIs DEF ea, b
<1>24. n + 2 = inst.cycle
  BY <1>3, <1>7, <1>10
<1> QED
  BY <1>13, <1>19, <1>21, <1>22, <1>23, <1>24 DEF ModifyEnd, u, r, st, ea

-----------------------------------------------------------------------------
(* What the instructions compute. *)

NZFlags == {"negative", "zero"}

\* The flags of st outside set are kept, those of set become new.
Kept(st, set, new) == (st \ set) \cup new

\* The core sets flags one after the other, the instruction set all at once.
LEMMA KeptTwice ==
  ASSUME NEW st, NEW b \in Byte, NEW set, NEW new, set \cap NZFlags = {}, new \cap NZFlags = {}
  PROVE  SetNZ(Kept(st, set, new), b) = Kept(st, NZFlags \cup set, InstructionSet!Flags(b) \cup new)
<1>1. SetNZ((st \ set) \cup new, b) = (((st \ set) \cup new) \ NZFlags) \cup InstructionSet!Flags(b)
  BY FlagsSet DEF NZFlags
<1>2. ((st \ set) \cup new) \ NZFlags = (st \ (NZFlags \cup set)) \cup new
  OBVIOUS
<1> QED
  BY <1>1, <1>2 DEF Kept

\* The flags of a shift or a comparison,
LEMMA CarryFlags ==
  ASSUME NEW st, NEW b \in Byte, NEW c \in BOOLEAN
  PROVE  SetNZ(With(st, "carry", c), b)
           = Kept(st, NZFlags \cup {"carry"}, InstructionSet!Flags(b) \cup {f \in {"carry"} : c})
<1> DEFINE new == {f \in {"carry"} : c}
<1>1. With(st, "carry", c) = Kept(st, {"carry"}, new)
  BY DEF With, Kept
<1>2. {"carry"} \cap NZFlags = {} /\ new \cap NZFlags = {}
  BY DEF NZFlags
<1> HIDE DEF new
<1>3. SetNZ(Kept(st, {"carry"}, new), b) = Kept(st, NZFlags \cup {"carry"}, InstructionSet!Flags(b) \cup new)
  BY <1>2, KeptTwice
<1> QED
  BY <1>1, <1>3 DEF new

\* The flag f, if cond.
Alone(f, cond) == {g \in {f} : cond}

\* of an addition or a subtraction,
LEMMA OverflowFlags ==
  ASSUME NEW st, NEW b \in Byte, NEW c \in BOOLEAN, NEW o \in BOOLEAN
  PROVE  SetNZ(With(With(st, "carry", c), "overflow", o), b)
           = Kept(st, NZFlags \cup {"carry", "overflow"},
                  InstructionSet!Flags(b) \cup Alone("carry", c) \cup Alone("overflow", o))
<1> DEFINE two == {"carry", "overflow"}
           new == Alone("carry", c) \cup Alone("overflow", o)
<1>1. With(With(st, "carry", c), "overflow", o) = Kept(st, two, new)
  BY DEF With, Kept, Alone
<1>2. two \cap NZFlags = {} /\ new \cap NZFlags = {}
  BY DEF NZFlags, Alone
<1>3. (InstructionSet!Flags(b) \cup Alone("carry", c)) \cup Alone("overflow", o) = InstructionSet!Flags(b) \cup new
  OBVIOUS
<1> HIDE DEF two, new
<1>4. SetNZ(Kept(st, two, new), b) = Kept(st, NZFlags \cup two, InstructionSet!Flags(b) \cup new)
  BY <1>2, KeptTwice
<1> QED
  BY <1>1, <1>3, <1>4 DEF two

\* The status after BIT.
TestedStatus(st, a, m) ==
  With(With(With(st, "negative", m >= 128), "overflow", 6 \in Bits(m)), "zero", And(a, m) = 0)

TestedFlags(a, m) ==
  {f \in {"negative", "overflow"} : BitOf[f] \in Bits(m)}
  \cup {f \in {"zero"} : Bits(m) \cap Bits(a) = {}}

\* BIT keeps all but three flags.
LEMMA BitFlags ==
  ASSUME NEW st, NEW a \in Byte, NEW m \in Byte
  PROVE  TestedStatus(st, a, m) = Kept(st, NZFlags \cup {"overflow"}, TestedFlags(a, m))
<1>1. 7 \in Bits(m) <=> m >= 128
  BY BitTests
<1>2. And(a, m) = 0 <=> Bits(m) \cap Bits(a) = {}
  BY BitTests
<1>3. BitOf["negative"] = 7 /\ BitOf["overflow"] = 6
  BY DEF BitOf
<1> DEFINE n == m >= 128
           o == 6 \in Bits(m)
           z == And(a, m) = 0
<1>4. {f \in {"negative", "overflow"} : BitOf[f] \in Bits(m)}
        = {f \in {"negative"} : n} \cup {f \in {"overflow"} : o}
  BY <1>1, <1>3
<1>5. {f \in {"zero"} : Bits(m) \cap Bits(a) = {}} = {f \in {"zero"} : z}
  BY <1>2
<1> HIDE DEF n, o, z
<1>6. With(With(With(st, "negative", n), "overflow", o), "zero", z)
        = (st \ (NZFlags \cup {"overflow"}))
          \cup (({f \in {"negative"} : n} \cup {f \in {"overflow"} : o}) \cup {f \in {"zero"} : z})
  BY DEF With, NZFlags
<1> QED
  BY <1>4, <1>5, <1>6 DEF n, o, z, Kept, TestedStatus, TestedFlags

\* The status of the instruction set: the flags of set become new.
NewFlags(set, new) == Kept(last.reg.status, set, new)

\* The results of the instruction set, in the core's terms.
\* The flags after a register is given b.
ByteFlags(b) == NewFlags(NZFlags, InstructionSet!Flags(b))

\* The loads of a register,
LEMMA SimpleResults ==
  ASSUME NEW m
  PROVE  /\ InstructionSet!LoadResults("LDA", m)
              = {[acc |-> m, status |-> ByteFlags(m)]}
         /\ InstructionSet!LoadResults("LDX", m)
              = {[x |-> m, status |-> ByteFlags(m)]}
         /\ InstructionSet!LoadResults("LDY", m)
              = {[y |-> m, status |-> ByteFlags(m)]}
  BY DEF InstructionSet!LoadResults, InstructionSet!Flagged, InstructionSet!NZ, NZFlags, NewFlags, Kept, ByteFlags

\* the logical operations,
LEMMA LogicResults ==
  ASSUME NEW m
  PROVE  LET b == InstructionSet!And(last.reg.acc, m)
             c == last.reg.acc + m - InstructionSet!And(last.reg.acc, m)
             d == last.reg.acc + m - 2 * InstructionSet!And(last.reg.acc, m)
         IN  /\ InstructionSet!LoadResults("AND", m)
              = {[acc |-> b, status |-> ByteFlags(b)]}
             /\ InstructionSet!LoadResults("ORA", m)
              = {[acc |-> c, status |-> ByteFlags(c)]}
             /\ InstructionSet!LoadResults("EOR", m)
              = {[acc |-> d, status |-> ByteFlags(d)]}
  BY DEF InstructionSet!LoadResults, InstructionSet!Flagged, InstructionSet!NZ, NZFlags, NewFlags, Kept, ByteFlags

\* The flags after a comparison of b with m.
CompareFlags(b, m) ==
  NewFlags(NZFlags \cup {"carry"}, InstructionSet!Flags((b - m) % 256) \cup {f \in {"carry"} : b >= m})

\* The comparisons,
LEMMA CompareResults ==
  ASSUME NEW m
  PROVE  /\ InstructionSet!LoadResults("CMP", m) = {[status |-> CompareFlags(last.reg.acc, m)]}
         /\ InstructionSet!LoadResults("CPX", m) = {[status |-> CompareFlags(last.reg.x, m)]}
         /\ InstructionSet!LoadResults("CPY", m) = {[status |-> CompareFlags(last.reg.y, m)]}
  BY DEF InstructionSet!LoadResults, InstructionSet!Flagged, InstructionSet!NZ, NZFlags, NewFlags, Kept, CompareFlags

\* the test of bits,
LEMMA BitResults ==
  ASSUME NEW m
  PROVE  InstructionSet!LoadResults("BIT", m)
           = {[status |-> NewFlags(NZFlags \cup {"overflow"},
                 {f \in {"negative", "overflow"} : InstructionSet!BitOf[f] \in InstructionSet!Bits(m)}
                 \cup {f \in {"zero"} : InstructionSet!Bits(m) \cap InstructionSet!Bits(last.reg.acc) = {}})]}
  BY DEF InstructionSet!LoadResults, InstructionSet!Flagged, InstructionSet!NZ, NZFlags, NewFlags, Kept

\* What an addition may leave.
AdcResult(sum, v) ==
  [acc |-> sum % 256,
   status |-> NewFlags(NZFlags \cup {"carry", "overflow"},
                       InstructionSet!Flags(sum % 256) \cup {f \in {"carry"} : sum > 255} \cup v)]

\* The addition, whose overflow flag the instruction set leaves open,
LEMMA AdcResults ==
  ASSUME NEW m, NEW v \in SUBSET {"overflow"}
  PROVE  AdcResult(last.reg.acc + m + InstructionSet!Bit("carry" \in last.reg.status), v)
           \in InstructionSet!LoadResults("ADC", m)
<1> DEFINE sum == last.reg.acc + m + InstructionSet!Bit("carry" \in last.reg.status)
           new(w) == InstructionSet!Flags(sum % 256) \cup {f \in {"carry"} : sum > 255} \cup w
           set == InstructionSet!NZ \cup {"carry", "overflow"}
<1>1. InstructionSet!LoadResults("ADC", m)
        = {[acc |-> sum % 256, status |-> InstructionSet!Flagged(set, new(w))] : w \in SUBSET {"overflow"}}
  BY DEF InstructionSet!LoadResults
<1>2. InstructionSet!Flagged(set, new(v)) = NewFlags(NZFlags \cup {"carry", "overflow"}, new(v))
  BY DEF InstructionSet!Flagged, InstructionSet!NZ, NZFlags, NewFlags, Kept
<1> HIDE DEF sum, new, set
<1>3. [acc |-> sum % 256, status |-> InstructionSet!Flagged(set, new(v))] \in InstructionSet!LoadResults("ADC", m)
  BY ONLY <1>1, v \in SUBSET {"overflow"}
<1>4. [acc |-> sum % 256, status |-> NewFlags(NZFlags \cup {"carry", "overflow"}, new(v))]
        \in InstructionSet!LoadResults("ADC", m)
  BY ONLY <1>2, <1>3
<1> QED
  BY ONLY <1>4 DEF sum, new, AdcResult

\* What a subtraction leaves, sdiff its signed result.
SbcResult(a, m, borrow, sdiff) ==
  [acc |-> (a - m - borrow) % 256,
   status |-> NewFlags(NZFlags \cup {"carry", "overflow"},
                       InstructionSet!Flags((a - m - borrow) % 256)
                       \cup {f \in {"carry"} : a - m - borrow >= 0}
                       \cup {f \in {"overflow"} : sdiff \notin -128 .. 127})]

\* and the subtraction.
LEMMA SbcResults ==
  ASSUME NEW m
  PROVE  LET borrow == 1 - InstructionSet!Bit("carry" \in last.reg.status)
         IN  InstructionSet!LoadResults("SBC", m)
               = {SbcResult(last.reg.acc, m, borrow,
                            InstructionSet!Signed(last.reg.acc) - InstructionSet!Signed(m) - borrow)}
  BY DEF InstructionSet!LoadResults, InstructionSet!Flagged, InstructionSet!NZ, NZFlags, NewFlags, Kept, SbcResult

\* Registers that are those of the last boundary but for the pc.
Behind(p) ==
  /\ p \in Register
  /\ p.acc = last.reg.acc /\ p.x = last.reg.x /\ p.y = last.reg.y
  /\ p.sp = last.reg.sp /\ p.status = last.reg.status

\* Past an instruction only the pc is new.
LEMMA PastBehind ==
  ASSUME LastOK, NEW inst, inst.inst_len \in Int
  PROVE  Behind(InstructionSet!Past(inst))
<1>1. InstructionSet!Past(inst) = WithPc(last.reg, Add16(last.reg.pc, inst.inst_len))
  BY PastIs
<1>2. last.reg.acc \in Byte /\ last.reg.x \in Byte /\ last.reg.y \in Byte
      /\ last.reg.sp \in Byte /\ last.reg.status \in SUBSET Flag /\ last.reg.pc \in Int
  BY LastHas
<1>3. Add16(last.reg.pc, inst.inst_len) \in Address
  BY <1>2, Add16Typed
<1> QED
  BY ONLY <1>1, <1>2, <1>3 DEF Behind, WithPc, Regs, Register

\* The instructions that set a register and two flags.
LEMMA SetLoads ==
  ASSUME NEW p, Behind(p), NEW m \in Byte
  PROVE  /\ SetAcc(p, m) = InstructionSet!Set(
              [acc |-> m, status |-> ByteFlags(m)], p)
         /\ SetX(p, m) = InstructionSet!Set(
              [x |-> m, status |-> ByteFlags(m)], p)
         /\ SetY(p, m) = InstructionSet!Set(
              [y |-> m, status |-> ByteFlags(m)], p)
<1>1. p \in Register /\ p.status = last.reg.status
  BY DEF Behind
<1>2. SetNZ(p.status, m) = ByteFlags(m)
  BY <1>1, FlagsSet DEF ByteFlags, NewFlags, NZFlags, Kept
<1> QED
  BY <1>1, <1>2, SetsAre, RegsSet

\* The logical operations,
LEMMA LogicLoads ==
  ASSUME LastOK, NEW p, Behind(p), NEW m \in Byte
  PROVE  /\ \E c \in InstructionSet!LoadResults("AND", m) : SetAcc(p, And(p.acc, m)) = InstructionSet!Set(c, p)
         /\ \E c \in InstructionSet!LoadResults("ORA", m) : SetAcc(p, Or(p.acc, m)) = InstructionSet!Set(c, p)
         /\ \E c \in InstructionSet!LoadResults("EOR", m) : SetAcc(p, Xor(p.acc, m)) = InstructionSet!Set(c, p)
<1> DEFINE a == last.reg.acc
<1>1. p.acc = a
  BY DEF Behind
<1>2. a \in Byte
  BY LastHas
<1>3. InstructionSet!And(a, m) = And(a, m) /\ Or(a, m) = a + m - And(a, m) /\ Xor(a, m) = a + m - 2 * And(a, m)
  BY <1>2, SameBits, LogicSums
<1>4. And(a, m) \in Byte /\ Or(a, m) \in Byte /\ Xor(a, m) \in Byte
  BY Logic
<1>5. \A b \in Byte : SetAcc(p, b) = InstructionSet!Set(
              [acc |-> b, status |-> ByteFlags(b)], p)
  BY SetLoads
<1>6. InstructionSet!LoadResults("AND", m)
        = {[acc |-> And(a, m), status |-> ByteFlags(And(a, m))]}
  BY <1>3, LogicResults
<1>7. InstructionSet!LoadResults("ORA", m)
        = {[acc |-> Or(a, m), status |-> ByteFlags(Or(a, m))]}
  BY <1>3, LogicResults
<1>8. InstructionSet!LoadResults("EOR", m)
        = {[acc |-> Xor(a, m), status |-> ByteFlags(Xor(a, m))]}
  BY <1>3, LogicResults
<1> HIDE DEF a
<1>9. \E c \in InstructionSet!LoadResults("AND", m) : SetAcc(p, And(a, m)) = InstructionSet!Set(c, p)
  BY ONLY <1>4, <1>5, <1>6
<1>10. \E c \in InstructionSet!LoadResults("ORA", m) : SetAcc(p, Or(a, m)) = InstructionSet!Set(c, p)
  BY ONLY <1>4, <1>5, <1>7
<1>11. \E c \in InstructionSet!LoadResults("EOR", m) : SetAcc(p, Xor(a, m)) = InstructionSet!Set(c, p)
  BY ONLY <1>4, <1>5, <1>8
<1> QED
  BY <1>1, <1>9, <1>10, <1>11

\* the comparisons,
LEMMA CompareLoads ==
  ASSUME NEW p, Behind(p), NEW b \in Byte, NEW m \in Byte
  PROVE  Compare(p, b, m) = InstructionSet!Set(
           [status |-> CompareFlags(b, m)], p)
<1>1. p \in Register /\ p.status = last.reg.status
  BY DEF Behind
<1>2. (b - m) % 256 \in Byte
  BY DEF Byte
<1>3. (b >= m) \in BOOLEAN
  OBVIOUS
<1> DEFINE st == SetNZ(With(p.status, "carry", b >= m), (b - m) % 256)
<1>4. st = CompareFlags(b, m)
  <2> DEFINE c == b >= m
             d == (b - m) % 256
  <2>1. d \in Byte /\ c \in BOOLEAN
    BY <1>2, <1>3
  <2> HIDE DEF c, d
  <2>2. SetNZ(With(p.status, "carry", c), d)
          = Kept(last.reg.status, NZFlags \cup {"carry"}, InstructionSet!Flags(d) \cup {f \in {"carry"} : c})
    BY ONLY <1>1, <2>1, CarryFlags
  <2> QED
    BY ONLY <2>2 DEF NewFlags, CompareFlags, c, d
<1>5. Compare(p, b, m) = [p EXCEPT !.status = st]
  BY Zenon DEF Compare
<1> HIDE DEF st
<1>6. [p EXCEPT !.status = st] = InstructionSet!Set([status |-> st], p)
  BY <1>1, OneChanged, RegsSet DEF WithStatus
<1> QED
  BY <1>4, <1>5, <1>6, Zenon

\* and BIT.
LEMMA BitLoads ==
  ASSUME LastOK, NEW p, Behind(p), NEW m \in Byte
  PROVE  \E c \in InstructionSet!LoadResults("BIT", m) : TestBits(p, m) = InstructionSet!Set(c, p)
<1> DEFINE a  == last.reg.acc
           st == TestedStatus(p.status, p.acc, m)
<1>1. p \in Register /\ p.status = last.reg.status /\ p.acc = a
  BY DEF Behind
<1>2. a \in Byte
  BY LastHas
<1>3. st = NewFlags(NZFlags \cup {"overflow"}, TestedFlags(a, m))
  BY ONLY <1>1, <1>2, m \in Byte, BitFlags DEF NewFlags
<1>4. InstructionSet!LoadResults("BIT", m) = {[status |-> st]}
  <2>1. InstructionSet!BitOf = BitOf /\ InstructionSet!Bits(m) = Bits(m) /\ InstructionSet!Bits(a) = Bits(a)
    BY SameBits, SameStatus
  <2>2. InstructionSet!LoadResults("BIT", m)
           = {[status |-> NewFlags(NZFlags \cup {"overflow"},
                 {f \in {"negative", "overflow"} : InstructionSet!BitOf[f] \in InstructionSet!Bits(m)}
                 \cup {f \in {"zero"} : InstructionSet!Bits(m) \cap InstructionSet!Bits(a) = {}})]}
    BY BitResults
  <2> QED
    BY ONLY <1>3, <2>1, <2>2 DEF TestedFlags
<1>5. TestBits(p, m) = [p EXCEPT !.status = st]
  BY Zenon DEF TestBits, TestedStatus
<1> HIDE DEF st
<1>6. [p EXCEPT !.status = st] = InstructionSet!Set([status |-> st], p)
  BY <1>1, OneChanged, RegsSet DEF WithStatus
<1> QED
  BY <1>4, <1>5, <1>6, Zenon

\* The accumulator and the flags changed.
AccAndFlags(r, b, f) == [r EXCEPT !.acc = b, !.status = f]

\* It is what the instruction set sets.
LEMMA AccAndFlagsIs ==
  ASSUME NEW r \in Register, NEW b, NEW f
  PROVE  AccAndFlags(r, b, f) = InstructionSet!Set([acc |-> b, status |-> f], r)
<1> DEFINE t == [r EXCEPT !.acc = b]
<1>1. AccAndFlags(r, b, f) = [t EXCEPT !.status = f]
  BY Zenon DEF AccAndFlags
<1>2. t = Regs(b, r.x, r.y, r.sp, r.status, r.pc)
  BY DEF Register, Regs
<1> HIDE DEF t
<1>3. [t EXCEPT !.status = f] = Regs(b, r.x, r.y, r.sp, f, r.pc)
  BY ONLY <1>2 DEF Regs
<1> QED
  BY <1>1, <1>3, RegsSet

\* The carry of the core and of the instruction set.
LEMMA CarryIs ==
  /\ InstructionSet!Bit("carry" \in last.reg.status) = Bit("carry" \in last.reg.status)
  /\ 1 - InstructionSet!Bit("carry" \in last.reg.status) = Bit("carry" \notin last.reg.status)
  /\ Bit("carry" \in last.reg.status) \in {0, 1} /\ Bit("carry" \notin last.reg.status) \in {0, 1}
<1>1. CASE "carry" \in last.reg.status
  BY <1>1, SameBits DEF Bit, InstructionSet!Bit
<1>2. CASE "carry" \notin last.reg.status
  BY <1>2, SameBits DEF Bit, InstructionSet!Bit
<1> QED
  BY <1>1, <1>2

\* What ADC leaves is one of the instruction set's results, its overflow flag being either,
LEMMA AdcLoads ==
  ASSUME LastOK, NEW p, Behind(p), NEW m \in Byte
  PROVE  \E c \in InstructionSet!LoadResults("ADC", m) : Adc(p, m) = InstructionSet!Set(c, p)
<1> DEFINE sum   == p.acc + m + Bit("carry" \in p.status)
           carry == sum > 255
           over  == SignedOverflow(Signed(p.acc) + Bit(carry) + Signed(m))
           acc   == sum % 256
           st    == SetNZ(With(With(p.status, "carry", carry), "overflow", over), acc)
           v     == {f \in {"overflow"} : over}
           res   == [acc |-> acc,
                     status |-> NewFlags(NZFlags \cup {"carry", "overflow"},
                        InstructionSet!Flags(acc) \cup {f \in {"carry"} : carry} \cup v)]
<1>1. p \in Register /\ p.acc = last.reg.acc /\ p.status = last.reg.status
  BY DEF Behind
<1>2. p.acc \in Byte
  BY <1>1, LastHas
<1>3. sum = last.reg.acc + m + InstructionSet!Bit("carry" \in last.reg.status)
  BY <1>1, CarryIs
<1>4. Bit("carry" \in p.status) \in {0, 1}
  BY <1>1, CarryIs
<1>5. acc \in Byte
  <2>1. \A a \in Byte, b \in Byte, c \in {0, 1} : (a + b + c) % 256 \in Byte
    BY DEF Byte
  <2> QED
    BY ONLY <1>2, <1>4, <2>1, m \in Byte
<1>6. carry \in BOOLEAN
  OBVIOUS
<1>7. over \in BOOLEAN
  BY DEF SignedOverflow
<1>8. Adc(p, m) = AccAndFlags(p, acc, st)
  BY Zenon DEF Adc, AccAndFlags
<1>9. v \in SUBSET {"overflow"}
  OBVIOUS
<1>10. res \in InstructionSet!LoadResults("ADC", m)
  <2> HIDE DEF v
  <2>1. AdcResult(last.reg.acc + m + InstructionSet!Bit("carry" \in last.reg.status), v)
          \in InstructionSet!LoadResults("ADC", m)
    BY ONLY <1>9, AdcResults
  <2> HIDE DEF sum
  <2> QED
    BY ONLY <1>3, <2>1 DEF AdcResult
<1>11. st = NewFlags(NZFlags \cup {"carry", "overflow"},
                     InstructionSet!Flags(acc) \cup {f \in {"carry"} : carry} \cup v)
  <2> HIDE DEF acc, carry, over
  <2>1. SetNZ(With(With(last.reg.status, "carry", carry), "overflow", over), acc)
         = Kept(last.reg.status, NZFlags \cup {"carry", "overflow"},
                InstructionSet!Flags(acc) \cup Alone("carry", carry) \cup Alone("overflow", over))
    BY ONLY <1>5, <1>6, <1>7, OverflowFlags
  <2> QED
    BY ONLY <1>1, <2>1 DEF NewFlags, Alone
<1> HIDE DEF acc, st, v, carry, over
<1>12. AccAndFlags(p, acc, st) = InstructionSet!Set([acc |-> acc, status |-> st], p)
  BY <1>1, AccAndFlagsIs
<1> QED
  BY ONLY <1>8, <1>10, <1>11, <1>12

\* and what SBC leaves is the one it has.
LEMMA SbcLoads ==
  ASSUME LastOK, NEW p, Behind(p), NEW m \in Byte
  PROVE  \E c \in InstructionSet!LoadResults("SBC", m) : Sbc(p, m) = InstructionSet!Set(c, p)
<1> DEFINE borrow == Bit("carry" \notin p.status)
           diff   == p.acc - m - borrow
           carry  == p.acc >= m + borrow
           sdiff  == Signed(p.acc) - Signed(m) - borrow
           over   == SignedOverflow(sdiff)
           acc    == diff % 256
           st     == SetNZ(With(With(p.status, "carry", carry), "overflow", over), acc)
           res    == [acc |-> acc,
                      status |-> NewFlags(NZFlags \cup {"carry", "overflow"},
                         InstructionSet!Flags(acc) \cup {f \in {"carry"} : diff >= 0}
                         \cup {f \in {"overflow"} : sdiff \notin -128 .. 127})]
<1>1. p \in Register /\ p.acc = last.reg.acc /\ p.status = last.reg.status
  BY DEF Behind
<1>2. p.acc \in Byte
  BY <1>1, LastHas
<1>3. borrow = 1 - InstructionSet!Bit("carry" \in last.reg.status)
  BY <1>1, CarryIs
<1>4. borrow \in {0, 1}
  BY <1>1, CarryIs
<1>5. acc \in Byte
  <2>1. \A a \in Byte, b \in Byte, c \in {0, 1} : (a - b - c) % 256 \in Byte
    BY DEF Byte
  <2> QED
    BY ONLY <1>2, <1>4, <2>1, m \in Byte
<1>6. carry \in BOOLEAN
  OBVIOUS
<1>7. over \in BOOLEAN
  BY DEF SignedOverflow
<1>8. Sbc(p, m) = AccAndFlags(p, acc, st)
  BY Zenon DEF Sbc, AccAndFlags
<1>9. {res} = InstructionSet!LoadResults("SBC", m)
  <2> DEFINE b2 == 1 - InstructionSet!Bit("carry" \in last.reg.status)
  <2>1. InstructionSet!LoadResults("SBC", m)
         = {SbcResult(last.reg.acc, m, b2, InstructionSet!Signed(last.reg.acc) - InstructionSet!Signed(m) - b2)}
    BY ONLY SbcResults
  <2>2. InstructionSet!Signed(last.reg.acc) = Signed(last.reg.acc) /\ InstructionSet!Signed(m) = Signed(m)
    BY SameNumbers
  <2>3. res = SbcResult(p.acc, m, borrow, sdiff)
    BY Zenon DEF SbcResult
  <2> HIDE DEF res, borrow
  <2> QED
    BY ONLY <1>1, <1>3, <2>1, <2>2, <2>3
<1>10. carry <=> diff >= 0
  <2>1. \A a \in Byte, b \in Byte, c \in {0, 1} : a >= b + c <=> a - b - c >= 0
    BY DEF Byte
  <2> HIDE DEF borrow
  <2> QED
    BY ONLY <1>2, <1>4, <2>1, m \in Byte
<1>11. over <=> sdiff \notin -128 .. 127
  <2>1. Signed(p.acc) \in Int /\ Signed(m) \in Int
    BY <1>2, ByteIs
  <2>2. sdiff \in Int
    <3> HIDE DEF borrow
    <3> QED  BY <1>4, <2>1
  <2> HIDE DEF sdiff
  <2> QED
    BY <2>2 DEF SignedOverflow
<1>12. st = NewFlags(NZFlags \cup {"carry", "overflow"},
                     InstructionSet!Flags(acc) \cup Alone("carry", carry) \cup Alone("overflow", over))
  <2> HIDE DEF acc, carry, over
  <2>1. SetNZ(With(With(last.reg.status, "carry", carry), "overflow", over), acc)
         = Kept(last.reg.status, NZFlags \cup {"carry", "overflow"},
                InstructionSet!Flags(acc) \cup Alone("carry", carry) \cup Alone("overflow", over))
    BY ONLY <1>5, <1>6, <1>7, OverflowFlags
  <2> QED
    BY ONLY <1>1, <2>1 DEF NewFlags
<1>13. Alone("carry", carry) = {f \in {"carry"} : diff >= 0}
  <2> HIDE DEF carry, diff
  <2> QED  BY <1>10 DEF Alone
<1>14. Alone("overflow", over) = {f \in {"overflow"} : sdiff \notin -128 .. 127}
  <2> HIDE DEF over, sdiff
  <2> QED  BY <1>11 DEF Alone
<1>15. res = [acc |-> acc, status |-> st]
  <2> HIDE DEF acc, st, carry, over, diff, sdiff
  <2> QED  BY ONLY <1>12, <1>13, <1>14
<1> HIDE DEF acc, st, carry, over, res
<1>16. AccAndFlags(p, acc, st) = InstructionSet!Set([acc |-> acc, status |-> st], p)
  BY <1>1, AccAndFlagsIs
<1> QED
  BY ONLY <1>8, <1>9, <1>15, <1>16

-----------------------------------------------------------------------------
(* Loads. *)

\* The core's case for each load.
LEMMA LoadedArms ==
  \A r, m : /\ Loaded("LDA", r, m) = SetAcc(r, m)
            /\ Loaded("LDX", r, m) = SetX(r, m)
            /\ Loaded("LDY", r, m) = SetY(r, m)
            /\ Loaded("AND", r, m) = SetAcc(r, And(r.acc, m))
            /\ Loaded("ORA", r, m) = SetAcc(r, Or(r.acc, m))
            /\ Loaded("EOR", r, m) = SetAcc(r, Xor(r.acc, m))
            /\ Loaded("ADC", r, m) = Adc(r, m)
            /\ Loaded("SBC", r, m) = Sbc(r, m)
            /\ Loaded("CMP", r, m) = Compare(r, r.acc, m)
            /\ Loaded("CPX", r, m) = Compare(r, r.x, m)
            /\ Loaded("CPY", r, m) = Compare(r, r.y, m)
            /\ Loaded("BIT", r, m) = TestBits(r, m)
  BY DEF Loaded

\* What the last cycle of a load makes of the registers is a result of the instruction set.
LEMMA LoadedIs ==
  ASSUME LastOK, NEW op \in LoadOps, NEW p, Behind(p), NEW m \in Byte
  PROVE  \E c \in InstructionSet!LoadResults(op, m) : Loaded(op, p, m) = InstructionSet!Set(c, p)
<1>0. last.reg.acc \in Byte /\ last.reg.x \in Byte /\ last.reg.y \in Byte
  BY LastHas
<1>1. p.acc = last.reg.acc /\ p.x = last.reg.x /\ p.y = last.reg.y
  BY DEF Behind
<1>2. CASE op = "LDA"
  <2>1. SetAcc(p, m) = InstructionSet!Set([acc |-> m, status |-> ByteFlags(m)], p)
    BY SetLoads
  <2>2. InstructionSet!LoadResults("LDA", m) = {[acc |-> m, status |-> ByteFlags(m)]}
    BY SimpleResults
  <2> QED
    BY ONLY <1>2, <2>1, <2>2, LoadedArms
<1>3. CASE op = "LDX"
  <2>1. SetX(p, m) = InstructionSet!Set([x |-> m, status |-> ByteFlags(m)], p)
    BY SetLoads
  <2>2. InstructionSet!LoadResults("LDX", m) = {[x |-> m, status |-> ByteFlags(m)]}
    BY SimpleResults
  <2> QED
    BY ONLY <1>3, <2>1, <2>2, LoadedArms
<1>4. CASE op = "LDY"
  <2>1. SetY(p, m) = InstructionSet!Set([y |-> m, status |-> ByteFlags(m)], p)
    BY SetLoads
  <2>2. InstructionSet!LoadResults("LDY", m) = {[y |-> m, status |-> ByteFlags(m)]}
    BY SimpleResults
  <2> QED
    BY ONLY <1>4, <2>1, <2>2, LoadedArms
<1>5. CASE op = "AND"
  BY <1>5, LogicLoads, LoadedArms
<1>6. CASE op = "ORA"
  BY <1>6, LogicLoads, LoadedArms
<1>7. CASE op = "EOR"
  BY <1>7, LogicLoads, LoadedArms
<1>8. CASE op = "ADC"
  BY <1>8, AdcLoads, LoadedArms
<1>9. CASE op = "SBC"
  BY <1>9, SbcLoads, LoadedArms
<1>10. CASE op = "CMP"
  <2>1. Compare(p, last.reg.acc, m) = InstructionSet!Set([status |-> CompareFlags(last.reg.acc, m)], p)
    BY <1>0, CompareLoads
  <2>2. InstructionSet!LoadResults("CMP", m) = {[status |-> CompareFlags(last.reg.acc, m)]}
    BY CompareResults
  <2> QED
    BY ONLY <1>10, <1>1, <2>1, <2>2, LoadedArms
<1>11. CASE op = "CPX"
  <2>1. Compare(p, last.reg.x, m) = InstructionSet!Set([status |-> CompareFlags(last.reg.x, m)], p)
    BY <1>0, CompareLoads
  <2>2. InstructionSet!LoadResults("CPX", m) = {[status |-> CompareFlags(last.reg.x, m)]}
    BY CompareResults
  <2> QED
    BY ONLY <1>11, <1>1, <2>1, <2>2, LoadedArms
<1>12. CASE op = "CPY"
  <2>1. Compare(p, last.reg.y, m) = InstructionSet!Set([status |-> CompareFlags(last.reg.y, m)], p)
    BY <1>0, CompareLoads
  <2>2. InstructionSet!LoadResults("CPY", m) = {[status |-> CompareFlags(last.reg.y, m)]}
    BY CompareResults
  <2> QED
    BY ONLY <1>12, <1>1, <2>1, <2>2, LoadedArms
<1>13. CASE op = "BIT"
  BY <1>13, BitLoads, LoadedArms
<1> QED
  BY <1>2, <1>3, <1>4, <1>5, <1>6, <1>7, <1>8, <1>9, <1>10, <1>11, <1>12, <1>13 DEF LoadOps

-----------------------------------------------------------------------------
(* Instructions that modify a byte. *)

\* The instruction set's case for each instruction that modifies a byte.
LEMMA ModifyArms ==
  ASSUME NEW b
  PROVE  LET c == InstructionSet!Bit("carry" \in last.reg.status)
         IN  /\ InstructionSet!ModifyResult("INC", b) = [byte |-> (b + 1) % 256, carry |-> c]
             /\ InstructionSet!ModifyResult("DEC", b) = [byte |-> (b + 255) % 256, carry |-> c]
             /\ InstructionSet!ModifyResult("ASL", b) = [byte |-> (2 * b) % 256, carry |-> (2 * b) \div 256]
             /\ InstructionSet!ModifyResult("ROL", b)
                  = [byte |-> (2 * b + c) % 256, carry |-> (2 * b + c) \div 256]
             /\ InstructionSet!ModifyResult("LSR", b) = [byte |-> b \div 2, carry |-> b % 2]
             /\ InstructionSet!ModifyResult("ROR", b) = [byte |-> (b + 256 * c) \div 2, carry |-> b % 2]
  BY DEF InstructionSet!ModifyResult, InstructionSet!Lo, InstructionSet!Hi

\* A shift by sums,
LEMMA ShiftSums ==
  ASSUME NEW b \in Byte, NEW c \in Byte, c <= 1
  PROVE  /\ (2 * b) % 256 = (b * 2) % 256
         /\ (2 * b) \div 256 = 1 <=> b >= 128
         /\ (b + 256 * c) \div 2 = (b \div 2) + 128 * c
         /\ (b + 255) % 256 = (b + -1) % 256
<1>1. CASE b < 128
  BY <1>1 DEF Byte
<1>2. CASE b >= 128
  <2>1. PICK d \in 0 .. 127 : b = d + 128
    <3>1. b - 128 \in 0 .. 127 /\ b = (b - 128) + 128
      BY <1>2 DEF Byte
    <3> QED  BY <3>1
  <2> QED  BY <2>1
<1> QED
  BY <1>1, <1>2 DEF Byte

\* and a rotation.
LEMMA RotateSums ==
  ASSUME NEW b \in Byte, NEW c \in Byte, c <= 1
  PROVE  /\ (2 * b + c) % 256 = ((b * 2) % 256) + c
         /\ (2 * b + c) \div 256 = 1 <=> b >= 128
<1>0. c \in {0, 1}
  BY DEF Byte
<1>1. CASE b < 128
  BY <1>0, <1>1 DEF Byte
<1>2. CASE b >= 128
  <2>1. PICK d \in 0 .. 127 : b = d + 128
    <3>1. b - 128 \in 0 .. 127 /\ b = (b - 128) + 128
      BY <1>2 DEF Byte
    <3> QED  BY <3>1
  <2>2. CASE c = 0
    BY <2>1, <2>2
  <2>3. CASE c = 1
    BY <2>1, <2>3
  <2> QED
    BY <1>0, <2>2, <2>3
<1> QED
  BY <1>1, <1>2 DEF Byte

\* The byte and the carry of the core, in the instruction set's terms.
LEMMA ModifiedArms ==
  ASSUME NEW b, NEW c, NEW st
  PROVE  /\ Modified("INC", b, c) = Add8(b, 1) /\ CarryOut("INC", b, st) = st
         /\ Modified("DEC", b, c) = Add8(b, -1) /\ CarryOut("DEC", b, st) = st
         /\ Modified("ASL", b, c) = (b * 2) % 256 /\ CarryOut("ASL", b, st) = With(st, "carry", b >= 128)
         /\ Modified("ROL", b, c) = ((b * 2) % 256) + Bit(c) /\ CarryOut("ROL", b, st) = With(st, "carry", b >= 128)
         /\ Modified("LSR", b, c) = b \div 2 /\ CarryOut("LSR", b, st) = With(st, "carry", b % 2 = 1)
         /\ Modified("ROR", b, c) = (b \div 2) + 128 * Bit(c)
         /\ CarryOut("ROR", b, st) = With(st, "carry", b % 2 = 1)
  BY DEF Modified, CarryOut

\* Byte and carry are those of the instruction set.
LEMMA ModifiedIs ==
  ASSUME LastOK, NEW op \in ModifyOps, NEW b \in Byte
  PROVE  LET r  == InstructionSet!ModifyResult(op, b)
             st == last.reg.status
         IN  /\ r.byte = Modified(op, b, "carry" \in st)
             /\ CarryOut(op, b, st) = With(st, "carry", r.carry = 1)
<1> DEFINE st == last.reg.status
           r  == InstructionSet!ModifyResult(op, b)
           c  == InstructionSet!Bit("carry" \in last.reg.status)
           d  == Bit("carry" \in st)
<1>1. c = d /\ d \in Byte /\ d <= 1
  BY CarryIs DEF Byte
<1>2. d = 1 <=> "carry" \in st
  BY DEF Bit
<1>3. With(st, "carry", c = 1) = st
  BY <1>1, <1>2 DEF With
<1> HIDE DEF st, r, c, d
<1>4. CASE op = "INC"
  <2>1. r = [byte |-> (b + 1) % 256, carry |-> c]
    BY ONLY <1>4, ModifyArms DEF r, c
  <2> QED
    BY ONLY <1>3, <1>4, <2>1, ModifiedArms DEF Add8, r, st
<1>5. CASE op = "DEC"
  <2>1. r = [byte |-> (b + 255) % 256, carry |-> c]
    BY ONLY <1>5, ModifyArms DEF r, c
  <2>2. (b + 255) % 256 = Add8(b, -1)
    BY <1>1, ShiftSums DEF Add8
  <2> QED
    <3>1. Modified(op, b, "carry" \in st) = Add8(b, -1) /\ CarryOut(op, b, st) = st
      BY ONLY <1>5 DEF Modified, CarryOut
    <3>2. r.byte = (b + 255) % 256 /\ r.carry = c
      BY ONLY <2>1
    <3> QED
      BY ONLY <1>3, <2>2, <3>1, <3>2 DEF r, st
<1>6. CASE op = "ASL"
  <2>1. r = [byte |-> (2 * b) % 256, carry |-> (2 * b) \div 256]
    BY ONLY <1>6, ModifyArms DEF r, c
  <2>2. r.byte = (b * 2) % 256 /\ (r.carry = 1 <=> b >= 128)
    BY <1>1, <2>1, ShiftSums
  <2>3. With(st, "carry", r.carry = 1) = With(st, "carry", b >= 128)
    BY ONLY <2>2 DEF With
  <2> QED
    BY ONLY <1>6, <2>2, <2>3, ModifiedArms DEF r, st
<1>7. CASE op = "ROL"
  <2>1. r = [byte |-> (2 * b + c) % 256, carry |-> (2 * b + c) \div 256]
    BY ONLY <1>7, ModifyArms DEF r, c
  <2>2. r.byte = ((b * 2) % 256) + d /\ (r.carry = 1 <=> b >= 128)
    <3>1. (2 * b + d) % 256 = ((b * 2) % 256) + d /\ ((2 * b + d) \div 256 = 1 <=> b >= 128)
      BY ONLY <1>1, RotateSums, b \in Byte
    <3>2. r.byte = (2 * b + d) % 256 /\ r.carry = (2 * b + d) \div 256
      BY ONLY <1>1, <2>1
    <3> QED
      BY ONLY <3>1, <3>2
  <2>3. With(st, "carry", r.carry = 1) = With(st, "carry", b >= 128)
    BY ONLY <2>2 DEF With
  <2> QED
    BY ONLY <1>7, <2>2, <2>3, ModifiedArms DEF r, st, d
<1>8. CASE op = "LSR"
  <2>1. r = [byte |-> b \div 2, carry |-> b % 2]
    BY ONLY <1>8, ModifyArms DEF r, c
  <2>2. r.byte = b \div 2 /\ (r.carry = 1 <=> b % 2 = 1)
    BY ONLY <2>1
  <2>3. With(st, "carry", r.carry = 1) = With(st, "carry", b % 2 = 1)
    BY ONLY <2>2 DEF With
  <2> QED
    <3>1. Modified(op, b, "carry" \in st) = b \div 2
      BY ONLY <1>8, ModifiedArms
    <3>2. CarryOut(op, b, st) = With(st, "carry", b % 2 = 1)
      BY ONLY <1>8, ModifiedArms
    <3> QED
      BY ONLY <2>2, <2>3, <3>1, <3>2 DEF r, st
<1>9. CASE op = "ROR"
  <2>1. r = [byte |-> (b + 256 * c) \div 2, carry |-> b % 2]
    BY ONLY <1>9, ModifyArms DEF r, c
  <2>2. r.byte = (b \div 2) + 128 * d /\ (r.carry = 1 <=> b % 2 = 1)
    <3>1. (b + 256 * d) \div 2 = (b \div 2) + 128 * d
      BY ONLY <1>1, ShiftSums, b \in Byte
    <3>2. r.byte = (b + 256 * d) \div 2 /\ r.carry = b % 2
      BY ONLY <1>1, <2>1
    <3> QED
      BY ONLY <3>1, <3>2
  <2>3. With(st, "carry", r.carry = 1) = With(st, "carry", b % 2 = 1)
    BY ONLY <2>2 DEF With
  <2> QED
    BY ONLY <1>9, <2>2, <2>3, ModifiedArms DEF r, st, d
<1> QED
  BY <1>4, <1>5, <1>6, <1>7, <1>8, <1>9 DEF ModifyOps, r, st

\* And its flags.
LEMMA ModifyFlagsIs ==
  ASSUME LastOK, NEW op \in ModifyOps, NEW b \in Byte
  PROVE  LET r  == InstructionSet!ModifyResult(op, b)
             st == last.reg.status
         IN  /\ r.byte \in Byte
             /\ SetNZ(CarryOut(op, b, st), r.byte) = InstructionSet!ModifyFlags(r)
<1> DEFINE st == last.reg.status
           r  == InstructionSet!ModifyResult(op, b)
           c  == r.carry = 1
           d  == r.byte
<1>1. d = Modified(op, b, "carry" \in st) /\ CarryOut(op, b, st) = With(st, "carry", c)
  BY ModifiedIs
<1>2. Modified(op, b, "carry" \in st) \in Byte
  <2>1. last.reg.status \in SUBSET Flag
    BY LastHas
  <2> QED
    BY ONLY <2>1, ModifiedTyped, op \in ModifyOps, b \in Byte
<1>3. c \in BOOLEAN
  OBVIOUS
<1>4. InstructionSet!ModifyFlags(r)
        = Kept(st, NZFlags \cup {"carry"}, InstructionSet!Flags(d) \cup {f \in {"carry"} : c})
  <2> HIDE DEF r
  <2> QED
    BY DEF InstructionSet!ModifyFlags, InstructionSet!Flagged, InstructionSet!NZ, NZFlags, Kept
<1> HIDE DEF c, d, st
<1>5. SetNZ(With(st, "carry", c), d)
        = Kept(st, NZFlags \cup {"carry"}, InstructionSet!Flags(d) \cup {f \in {"carry"} : c})
  BY ONLY <1>1, <1>2, <1>3, CarryFlags
<1> QED
  BY ONLY <1>1, <1>2, <1>4, <1>5 DEF st, d

-----------------------------------------------------------------------------
(* Loads, stores and modifications, from boundary to boundary. *)

\* The boundary after an instruction: registers and memory are those of s, cycles have gone by.
Boundary(s, n) ==
  /\ last' = [reg |-> s.reg, mem |-> s.mem]
  /\ took' = n

\* What the history then holds.
LEMMA BoundaryHas ==
  ASSUME NEW s, NEW n, Boundary(s, n)
  PROVE  last'.reg = s.reg /\ last'.mem = s.mem /\ took' = n
  BY DEF Boundary

\* A load that ends is a load of the instruction set,
LEMMA LoadDone ==
  ASSUME LastOK, NEW inst, LoadRow(inst), LengthOf(inst), NEW t, NEW n, Finishing(t, inst, n),
         Boundary(Retire(inst, LastStep(t, inst, n)), n + 2)
  PROVE  InstructionSet!Load(inst)
<1> DEFINE u == LastStep(t, inst, n)
           p == InstructionSet!Past(inst)
           m == InstructionSet!Operand(inst.addr_mode)
<1>1. LoadEnd(u, inst, n)
  BY LoadEnds
<1>2. inst.op \in LoadOps /\ inst.op \notin ModifyOps /\ inst.op # "JMP" /\ inst.op \notin {"PLA", "PLP"}
      /\ inst.addr_mode \notin {"IMP", "ACC"}
  BY DEF LoadRow, LoadOps, ModifyOps
<1>3. Retire(inst, u) = [u EXCEPT !.reg = Loaded(inst.op, u.reg, u.data)]
  <2> HIDE DEF u
  <2> QED
    BY ONLY <1>2, RetireCases
<1>4. DataOK(u) /\ u.mem = last.mem /\ u.reg = p /\ u.data = m
  BY <1>1, PastIs DEF LoadEnd, Reached
<1>5. inst.inst_len \in Int
  BY DEF LengthOf, LoadRow
<1>6. Behind(p)
  BY <1>5, PastBehind
<1>7. m \in Byte
  BY <1>4, DataHas
<1> HIDE DEF u, p, m
<1>8. PICK c \in InstructionSet!LoadResults(inst.op, m) : Loaded(inst.op, p, m) = InstructionSet!Set(c, p)
  BY <1>2, <1>6, <1>7, LoadedIs
<1>9. Retire(inst, u) = PathOf(InstructionSet!Set(c, p), last.mem, m, u.addr)
  <2>1. Retire(inst, u) = [u EXCEPT !.reg = InstructionSet!Set(c, p)]
    BY ONLY <1>3, <1>4, <1>8
  <2>2. \A r : [u EXCEPT !.reg = r] = PathOf(r, u.mem, u.data, u.addr)
    BY <1>4, PathSet
  <2> QED
    BY ONLY <1>4, <2>1, <2>2
<1>10. last'.reg = InstructionSet!Set(c, p) /\ last'.mem = last.mem /\ took' = n + 2
  BY <1>9, PathHas DEF Boundary, u
<1>11. n + 2 = inst.cycle + InstructionSet!Bit(InstructionSet!Crosses(inst))
  BY <1>1 DEF LoadEnd, InstructionSet!Bit
<1> QED
  BY <1>2, <1>8, <1>10, <1>11 DEF InstructionSet!Load, m, p, LoadOps

\* a store a store,
LEMMA StoreDone ==
  ASSUME LastOK, NEW inst, StoreRow(inst), LengthOf(inst), NEW t, NEW n, Finishing(t, inst, n),
         Boundary(Retire(inst, LastStep(t, inst, n)), n + 2)
  PROVE  InstructionSet!Store(inst)
<1> DEFINE u == LastStep(t, inst, n)
<1>1. StoreEnd(u, inst, n)
  BY StoreEnds
<1>2. inst.op \notin LoadOps /\ inst.op \notin ModifyOps /\ inst.op # "JMP" /\ inst.op \notin {"PLA", "PLP"}
      /\ inst.addr_mode \notin {"IMP", "ACC"} /\ inst.op \in {"STA", "STX", "STY"}
  BY DEF StoreRow, StoreOps, LoadOps, ModifyOps
<1> HIDE DEF u
<1>3. Retire(inst, u) = u
  BY ONLY <1>2, RetireCases
<1>4. last'.reg = InstructionSet!Past(inst) /\ took' = inst.cycle
      /\ last'.mem = Write(last.mem, InstructionSet!EffectiveAddress(inst.addr_mode), Stored(inst.op, last.reg))
  BY <1>1, <1>3 DEF Boundary, StoreEnd, u
<1>5. \A m, a, b : InstructionSet!Write(m, a, b) = Write(m, a, b)
  BY SameMemory
<1>6. Stored(inst.op, last.reg) =
        last.reg[CASE inst.op = "STA" -> "acc" [] inst.op = "STX" -> "x" [] inst.op = "STY" -> "y"]
  BY <1>2 DEF Stored
<1> QED
  BY ONLY <1>2, <1>4, <1>5, <1>6 DEF InstructionSet!Store

\* and what modifies memory an instruction that does.
LEMMA ModifyDone ==
  ASSUME LastOK, NEW inst, ModifyRow(inst), inst.addr_mode # "ACC", LengthOf(inst), NEW t, NEW n,
         Finishing(t, inst, n), Boundary(Retire(inst, LastStep(t, inst, n)), n + 2)
  PROVE  InstructionSet!Modify(inst)
<1> DEFINE u  == LastStep(t, inst, n)
           b  == InstructionSet!Operand(inst.addr_mode)
           p  == InstructionSet!Past(inst)
           r  == InstructionSet!ModifyResult(inst.op, b)
           a  == InstructionSet!EffectiveAddress(inst.addr_mode)
           st == CarryOut(inst.op, b, last.reg.status)
           f  == InstructionSet!ModifyFlags(r)
<1>1. ModifyEnd(u, inst, n)
  BY ModifyEnds
<1>2. inst.op \notin LoadOps /\ inst.op \in ModifyOps /\ inst.op # "JMP" /\ inst.op \notin {"PLA", "PLP"}
      /\ inst.addr_mode \notin {"IMP", "ACC"}
  BY DEF ModifyRow, LoadOps, ModifyOps
<1>3. b \in Byte /\ DataOK(u) /\ u.reg = WithStatus(p, st) /\ u.data = Modified(inst.op, b, "carry" \in last.reg.status)
      /\ u.mem = Write(last.mem, a, u.data) /\ n + 2 = inst.cycle
  BY <1>1 DEF ModifyEnd
<1>4. u.data = r.byte
  BY <1>2, <1>3, ModifiedIs
<1>5. SetNZ(st, r.byte) = f
  BY <1>2, <1>3, ModifyFlagsIs
<1> HIDE DEF u, b, p, r, a, st, f
<1>6. Retire(inst, u) = [u EXCEPT !.reg.status = SetNZ(u.reg.status, u.data)]
  BY ONLY <1>2, RetireCases
<1>7. u.reg.status = st
  BY ONLY <1>3, ChangedHas
<1>8. Retire(inst, u) = PathOf(WithStatus(u.reg, f), u.mem, u.data, u.addr)
  <2>1. Retire(inst, u) = [u EXCEPT !.reg.status = f]
    BY ONLY <1>4, <1>5, <1>6, <1>7
  <2>2. \A g : [u EXCEPT !.reg.status = g] = PathOf(WithStatus(u.reg, g), u.mem, u.data, u.addr)
    BY <1>3, PathReg
  <2> QED
    BY ONLY <2>1, <2>2
<1>9. p \in Register
  BY PastBehind DEF Behind, ModifyRow, LengthOf, p
<1>10. WithStatus(u.reg, f) = InstructionSet!Set([status |-> f], p)
  <2>1. WithStatus(WithStatus(p, st), f) = Regs(p.acc, p.x, p.y, p.sp, f, p.pc)
    BY ONLY ChangedHas DEF WithStatus
  <2>2. InstructionSet!Set([status |-> f], p) = Regs(p.acc, p.x, p.y, p.sp, f, p.pc)
    BY ONLY <1>9, RegsSet
  <2> QED
    BY ONLY <1>3, <2>1, <2>2
<1>11. last'.reg = InstructionSet!Set([status |-> f], p) /\ last'.mem = Write(last.mem, a, r.byte) /\ took' = inst.cycle
  BY <1>3, <1>4, <1>8, <1>10, PathHas DEF Boundary, u
<1>12. \A m, x, y : InstructionSet!Write(m, x, y) = Write(m, x, y)
  BY SameMemory
<1> QED
  BY ONLY <1>2, <1>11, <1>12 DEF InstructionSet!Modify, b, r, a, f, p, ModifyOps

-----------------------------------------------------------------------------
(* Instructions without operand. *)

\* An instruction of one step has changed nothing before its last cycle.
LEMMA IdleEnds ==
  ASSUME LastOK, NEW inst, LengthOf(inst), inst.addr_mode \in {"IMP", "ACC"}, Steps(inst) = <<"idle">>,
         inst.op \notin LoadOps, inst.op \notin {"JMP", "PLA", "PLP"},
         NEW t, NEW n, Finishing(t, inst, n), Boundary(Retire(inst, LastStep(t, inst, n)), n + 2)
  PROVE  last'.reg = Implied(inst.op, InstructionSet!Past(inst)) /\ last'.mem = last.mem /\ took' = 2
<1>1. n = 0 /\ Len(Steps(inst)) = 1 /\ Steps(inst)[1] = "idle"
  BY DEF Finishing
<1>2. DataOK(t[0]) /\ Reached(t[0], 1)
  BY <1>1 DEF Finishing, Chain, Reached
<1>3. LastStep(t, inst, n) = t[0]
  BY <1>1, <1>2, StackStepIs DEF LastStep
<1> DEFINE u == t[0]
<1>4. ~(inst.op \in ModifyOps /\ inst.addr_mode # "ACC")
  <2>1. Steps(inst) # <<>>
    BY <1>1
  <2>2. inst.op \in ModifyOps /\ inst.addr_mode # "ACC" => Steps(inst) = ModifySteps(inst.addr_mode)
    <3>1. inst.op \in ModifyOps => inst.op \notin LoadOps /\ inst.op \notin StoreOps /\ inst.op \notin BranchOps
                                   /\ inst.op \notin {"JMP", "JSR", "PHA", "PHP", "PLA", "PLP", "RTI", "RTS", "BRK"}
      BY DEF ModifyOps, LoadOps, StoreOps, BranchOps
    <3> QED
      BY ONLY <3>1, Zenon DEF Steps
  <2>3. inst.addr_mode = "IMP" => ModifySteps(inst.addr_mode) = <<>>
    BY DEF ModifySteps
  <2> QED
    BY <2>1, <2>2, <2>3
<1>5. Retire(inst, u) = [u EXCEPT !.reg = Implied(inst.op, u.reg)]
  BY ONLY <1>4, inst.addr_mode \in {"IMP", "ACC"}, Steps(inst) = <<"idle">>,
     inst.op \notin LoadOps, inst.op \notin {"JMP", "PLA", "PLP"}, RetireCases
<1>6. u.reg = InstructionSet!Past(inst) /\ u.mem = last.mem
  BY <1>2, PastIs DEF Reached, LengthOf
<1> HIDE DEF u
<1>7. \A r : [u EXCEPT !.reg = r] = PathOf(r, u.mem, u.data, u.addr)
  BY <1>2, PathSet DEF u
<1>8. Retire(inst, u) = PathOf(Implied(inst.op, u.reg), u.mem, u.data, u.addr)
  BY ONLY <1>5, <1>7
<1> QED
  BY <1>1, <1>3, <1>6, <1>8, PathHas DEF Boundary, u

\* The core's cases for setting and clearing a flag,
LEMMA FlagArms ==
  ASSUME NEW r
  PROVE  /\ Implied("CLC", r) = [r EXCEPT !.status = r.status \ {"carry"}]
         /\ Implied("SEC", r) = [r EXCEPT !.status = r.status \cup {"carry"}]
         /\ Implied("CLI", r) = [r EXCEPT !.status = r.status \ {"irq_disable"}]
         /\ Implied("SEI", r) = [r EXCEPT !.status = r.status \cup {"irq_disable"}]
         /\ Implied("CLD", r) = [r EXCEPT !.status = r.status \ {"decimal"}]
         /\ Implied("CLV", r) = [r EXCEPT !.status = r.status \ {"overflow"}]
  BY DEF Implied, ModifyOps

\* the instruction set's table of them,
LEMMA FlagOpsAre ==
  LET ops == InstructionSet!FlagOps
  IN  /\ DOMAIN ops = {"CLC", "SEC", "CLI", "SEI", "CLD", "CLV"}
      /\ ops["CLC"] = <<"carry", FALSE>> /\ ops["SEC"] = <<"carry", TRUE>>
      /\ ops["CLI"] = <<"irq_disable", FALSE>> /\ ops["SEI"] = <<"irq_disable", TRUE>>
      /\ ops["CLD"] = <<"decimal", FALSE>> /\ ops["CLV"] = <<"overflow", FALSE>>
  BY DEF InstructionSet!FlagOps

\* and that they agree.
LEMMA FlagsDone ==
  ASSUME NEW op \in {"CLC", "SEC", "CLI", "SEI", "CLD", "CLV"}, NEW p, Behind(p)
  PROVE  LET ops == InstructionSet!FlagOps
         IN  /\ op \in DOMAIN ops
             /\ Implied(op, p) = InstructionSet!Set(
                  [status |-> InstructionSet!With(last.reg.status, ops[op][1], ops[op][2])], p)
<1> DEFINE ops == InstructionSet!FlagOps
           st  == With(p.status, ops[op][1], ops[op][2])
<1>1. p \in Register /\ p.status = last.reg.status
  BY DEF Behind
<1>3. Implied(op, p) = [p EXCEPT !.status = st]
  <2>1. CASE op = "CLC"
    <3>1. st = p.status \ {"carry"}
      BY <2>1, FlagOpsAre DEF With
    <3> QED
      BY ONLY <2>1, <3>1, FlagArms
  <2>2. CASE op = "SEC"
    <3>1. st = p.status \cup {"carry"}
      BY <2>2, FlagOpsAre DEF With
    <3> QED
      BY ONLY <2>2, <3>1, FlagArms
  <2>3. CASE op = "CLI"
    <3>1. st = p.status \ {"irq_disable"}
      BY <2>3, FlagOpsAre DEF With
    <3> QED
      BY ONLY <2>3, <3>1, FlagArms
  <2>4. CASE op = "SEI"
    <3>1. st = p.status \cup {"irq_disable"}
      BY <2>4, FlagOpsAre DEF With
    <3> QED
      BY ONLY <2>4, <3>1, FlagArms
  <2>5. CASE op = "CLD"
    <3>1. st = p.status \ {"decimal"}
      BY <2>5, FlagOpsAre DEF With
    <3> QED
      BY ONLY <2>5, <3>1, FlagArms
  <2>6. CASE op = "CLV"
    <3>1. st = p.status \ {"overflow"}
      BY <2>6, FlagOpsAre DEF With
    <3> QED
      BY ONLY <2>6, <3>1, FlagArms
  <2> QED
    BY <2>1, <2>2, <2>3, <2>4, <2>5, <2>6
<1>4. InstructionSet!With(last.reg.status, ops[op][1], ops[op][2]) = st
  BY <1>1, SameStatus
<1>5. op \in DOMAIN ops
  BY FlagOpsAre
<1> HIDE DEF ops, st
<1>6. [p EXCEPT !.status = st] = InstructionSet!Set([status |-> st], p)
  BY <1>1, OneChanged, RegsSet DEF WithStatus
<1> QED
  BY ONLY <1>3, <1>4, <1>5, <1>6 DEF ops

\* What a move changes: a register, and the flags of the byte.
MoveChange(f, byte) ==
  [g \in {f, "status"} |->
     IF g = "status" THEN InstructionSet!Flagged(InstructionSet!NZ, InstructionSet!Flags(byte)) ELSE byte]

\* The registers a move can change.
LEMMA MoveChanges ==
  ASSUME NEW b
  PROVE  /\ MoveChange("acc", b) = [acc |-> b, status |-> ByteFlags(b)]
         /\ MoveChange("x", b) = [x |-> b, status |-> ByteFlags(b)]
         /\ MoveChange("y", b) = [y |-> b, status |-> ByteFlags(b)]
         /\ MoveChange("sp", b) = [sp |-> b, status |-> ByteFlags(b)]
<1>1. InstructionSet!Flagged(InstructionSet!NZ, InstructionSet!Flags(b)) = ByteFlags(b)
  BY DEF InstructionSet!Flagged, InstructionSet!NZ, ByteFlags, NewFlags, NZFlags, Kept
<1> QED
  BY <1>1 DEF MoveChange

\* The stack pointer and the flags changed.
SpAndFlags(r, b, f) == [r EXCEPT !.sp = b, !.status = f]

\* It is what the instruction set sets.
LEMMA SpAndFlagsIs ==
  ASSUME NEW r \in Register, NEW b, NEW f
  PROVE  SpAndFlags(r, b, f) = InstructionSet!Set([sp |-> b, status |-> f], r)
<1> DEFINE t == [r EXCEPT !.sp = b]
<1>1. SpAndFlags(r, b, f) = [t EXCEPT !.status = f]
  BY Zenon DEF SpAndFlags
<1>2. t = Regs(r.acc, r.x, r.y, b, r.status, r.pc)
  BY DEF Register, Regs
<1> HIDE DEF t
<1>3. [t EXCEPT !.status = f] = Regs(r.acc, r.x, r.y, b, f, r.pc)
  BY ONLY <1>2 DEF Regs
<1> QED
  BY <1>1, <1>3, RegsSet

\* The core's cases for moves and counts,
LEMMA MoveArms ==
  ASSUME NEW r
  PROVE  /\ Implied("TAX", r) = SetX(r, r.acc) /\ Implied("TAY", r) = SetY(r, r.acc)
         /\ Implied("TXA", r) = SetAcc(r, r.x) /\ Implied("TYA", r) = SetAcc(r, r.y)
         /\ Implied("TSX", r) = SetX(r, r.sp)
         /\ Implied("INX", r) = SetX(r, Add8(r.x, 1)) /\ Implied("INY", r) = SetY(r, Add8(r.y, 1))
         /\ Implied("DEX", r) = SetX(r, Add8(r.x, -1)) /\ Implied("DEY", r) = SetY(r, Add8(r.y, -1))
         /\ Implied("NOP", r) = r
  BY DEF Implied, ModifyOps

\* of which TXS sets the flags as the others do,
LEMMA TxsArm ==
  ASSUME NEW r
  PROVE  Implied("TXS", r) = SpAndFlags(r, r.x, SetNZ(r.status, r.x))
  BY DEF Implied, ModifyOps, SpAndFlags

\* and the instruction set's table of them.
LEMMA MoveOpsAre ==
  LET ops == InstructionSet!MoveOps
  IN  /\ DOMAIN ops = {"TAX", "TAY", "TXA", "TYA", "TSX", "TXS", "INX", "INY", "DEX", "DEY"}
      /\ ops["TAX"] = <<"acc", "x", 0>> /\ ops["TAY"] = <<"acc", "y", 0>>
      /\ ops["TXA"] = <<"x", "acc", 0>> /\ ops["TYA"] = <<"y", "acc", 0>>
      /\ ops["TSX"] = <<"sp", "x", 0>> /\ ops["TXS"] = <<"x", "sp", 0>>
      /\ ops["INX"] = <<"x", "x", 1>> /\ ops["INY"] = <<"y", "y", 1>>
      /\ ops["DEX"] = <<"x", "x", 255>> /\ ops["DEY"] = <<"y", "y", 255>>
  BY DEF InstructionSet!MoveOps

\* The byte that is moved: what the core adds is what the instruction set adds.
LEMMA MovedByte ==
  ASSUME NEW b \in Byte
  PROVE  /\ InstructionSet!Lo(b + 0) = b
         /\ InstructionSet!Lo(b + 1) = Add8(b, 1) /\ Add8(b, 1) \in Byte
         /\ InstructionSet!Lo(b + 255) = Add8(b, -1) /\ Add8(b, -1) \in Byte
  BY DEF InstructionSet!Lo, Add8, Byte

\* A register set by the core is one set by the instruction set.
LEMMA MovesSet ==
  ASSUME NEW p, Behind(p), NEW b \in Byte
  PROVE  /\ SetAcc(p, b) = InstructionSet!Set(MoveChange("acc", b), p)
         /\ SetX(p, b) = InstructionSet!Set(MoveChange("x", b), p)
         /\ SetY(p, b) = InstructionSet!Set(MoveChange("y", b), p)
         /\ SpAndFlags(p, b, SetNZ(p.status, b)) = InstructionSet!Set(MoveChange("sp", b), p)
<1>1. p \in Register /\ p.status = last.reg.status
  BY DEF Behind
<1>2. SetNZ(p.status, b) = ByteFlags(b)
  BY <1>1, FlagsSet DEF ByteFlags, NewFlags, NZFlags, Kept
<1>3. SpAndFlags(p, b, SetNZ(p.status, b)) = InstructionSet!Set(MoveChange("sp", b), p)
  BY <1>1, <1>2, SpAndFlagsIs, MoveChanges
<1>4. SetAcc(p, b) = InstructionSet!Set(MoveChange("acc", b), p)
  BY SetLoads, MoveChanges
<1>5. SetX(p, b) = InstructionSet!Set(MoveChange("x", b), p)
  BY SetLoads, MoveChanges
<1>6. SetY(p, b) = InstructionSet!Set(MoveChange("y", b), p)
  BY SetLoads, MoveChanges
<1> QED
  BY <1>3, <1>4, <1>5, <1>6

\* The two agree on every move.
LEMMA MovesDone ==
  ASSUME LastOK, NEW op \in {"TAX", "TAY", "TXA", "TYA", "TSX", "TXS", "INX", "INY", "DEX", "DEY"},
         NEW p, Behind(p)
  PROVE  LET move == InstructionSet!MoveOps[op]
         IN  /\ op \in DOMAIN InstructionSet!MoveOps
             /\ Implied(op, p) = InstructionSet!Set(
                   MoveChange(move[2], InstructionSet!Lo(last.reg[move[1]] + move[3])), p)
<1>1. p.acc = last.reg.acc /\ p.x = last.reg.x /\ p.y = last.reg.y /\ p.sp = last.reg.sp
  BY DEF Behind
<1>2. last.reg.acc \in Byte /\ last.reg.x \in Byte /\ last.reg.y \in Byte /\ last.reg.sp \in Byte
  BY LastHas
<1> DEFINE move == InstructionSet!MoveOps[op]
           byte == InstructionSet!Lo(last.reg[move[1]] + move[3])
<1>3. op \in DOMAIN InstructionSet!MoveOps
  BY MoveOpsAre
<1>4. CASE op = "TAX"
  <2>1. move = <<"acc", "x", 0>>
    BY <1>4, MoveOpsAre
  <2>2. byte = p.acc /\ byte \in Byte
    BY <1>1, <1>2, <2>1, MovedByte
  <2>3. SetX(p, p.acc) = InstructionSet!Set(MoveChange("x", p.acc), p)
    BY <2>2, MovesSet
  <2>4. move[2] = "x"
    BY ONLY <2>1
  <2> HIDE DEF move, byte
  <2>5. Implied(op, p) = SetX(p, p.acc)
    BY ONLY <1>4, MoveArms
  <2>6. Implied(op, p) = InstructionSet!Set(MoveChange(move[2], byte), p)
    BY ONLY <2>2, <2>3, <2>4, <2>5
  <2> QED
    BY ONLY <1>3, <2>6 DEF move, byte
<1>5. CASE op = "TAY"
  <2>1. move = <<"acc", "y", 0>>
    BY <1>5, MoveOpsAre
  <2>2. byte = p.acc /\ byte \in Byte
    BY <1>1, <1>2, <2>1, MovedByte
  <2>3. SetY(p, p.acc) = InstructionSet!Set(MoveChange("y", p.acc), p)
    BY <2>2, MovesSet
  <2>4. move[2] = "y"
    BY ONLY <2>1
  <2> HIDE DEF move, byte
  <2>5. Implied(op, p) = SetY(p, p.acc)
    BY ONLY <1>5, MoveArms
  <2>6. Implied(op, p) = InstructionSet!Set(MoveChange(move[2], byte), p)
    BY ONLY <2>2, <2>3, <2>4, <2>5
  <2> QED
    BY ONLY <1>3, <2>6 DEF move, byte
<1>6. CASE op = "TXA"
  <2>1. move = <<"x", "acc", 0>>
    BY <1>6, MoveOpsAre
  <2>2. byte = p.x /\ byte \in Byte
    BY <1>1, <1>2, <2>1, MovedByte
  <2>3. SetAcc(p, p.x) = InstructionSet!Set(MoveChange("acc", p.x), p)
    BY <2>2, MovesSet
  <2>4. move[2] = "acc"
    BY ONLY <2>1
  <2> HIDE DEF move, byte
  <2>5. Implied(op, p) = SetAcc(p, p.x)
    BY ONLY <1>6, MoveArms
  <2>6. Implied(op, p) = InstructionSet!Set(MoveChange(move[2], byte), p)
    BY ONLY <2>2, <2>3, <2>4, <2>5
  <2> QED
    BY ONLY <1>3, <2>6 DEF move, byte
<1>7. CASE op = "TYA"
  <2>1. move = <<"y", "acc", 0>>
    BY <1>7, MoveOpsAre
  <2>2. byte = p.y /\ byte \in Byte
    BY <1>1, <1>2, <2>1, MovedByte
  <2>3. SetAcc(p, p.y) = InstructionSet!Set(MoveChange("acc", p.y), p)
    BY <2>2, MovesSet
  <2>4. move[2] = "acc"
    BY ONLY <2>1
  <2> HIDE DEF move, byte
  <2>5. Implied(op, p) = SetAcc(p, p.y)
    BY ONLY <1>7, MoveArms
  <2>6. Implied(op, p) = InstructionSet!Set(MoveChange(move[2], byte), p)
    BY ONLY <2>2, <2>3, <2>4, <2>5
  <2> QED
    BY ONLY <1>3, <2>6 DEF move, byte
<1>8. CASE op = "TSX"
  <2>1. move = <<"sp", "x", 0>>
    BY <1>8, MoveOpsAre
  <2>2. byte = p.sp /\ byte \in Byte
    BY <1>1, <1>2, <2>1, MovedByte
  <2>3. SetX(p, p.sp) = InstructionSet!Set(MoveChange("x", p.sp), p)
    BY <2>2, MovesSet
  <2>4. move[2] = "x"
    BY ONLY <2>1
  <2> HIDE DEF move, byte
  <2>5. Implied(op, p) = SetX(p, p.sp)
    BY ONLY <1>8, MoveArms
  <2>6. Implied(op, p) = InstructionSet!Set(MoveChange(move[2], byte), p)
    BY ONLY <2>2, <2>3, <2>4, <2>5
  <2> QED
    BY ONLY <1>3, <2>6 DEF move, byte
<1>9. CASE op = "TXS"
  <2>1. move = <<"x", "sp", 0>>
    BY <1>9, MoveOpsAre
  <2>2. byte = p.x /\ byte \in Byte
    BY <1>1, <1>2, <2>1, MovedByte
  <2>3. SpAndFlags(p, p.x, SetNZ(p.status, p.x)) = InstructionSet!Set(MoveChange("sp", p.x), p)
    BY <2>2, MovesSet
  <2>4. move[2] = "sp"
    BY ONLY <2>1
  <2> HIDE DEF move, byte
  <2>5. Implied(op, p) = SpAndFlags(p, p.x, SetNZ(p.status, p.x))
    BY ONLY <1>9, TxsArm
  <2>6. Implied(op, p) = InstructionSet!Set(MoveChange(move[2], byte), p)
    BY ONLY <2>2, <2>3, <2>4, <2>5
  <2> QED
    BY ONLY <1>3, <2>6 DEF move, byte
<1>10. CASE op = "INX"
  <2>1. move = <<"x", "x", 1>>
    BY <1>10, MoveOpsAre
  <2>2. byte = Add8(p.x, 1) /\ byte \in Byte
    BY <1>1, <1>2, <2>1, MovedByte
  <2>3. SetX(p, Add8(p.x, 1)) = InstructionSet!Set(MoveChange("x", Add8(p.x, 1)), p)
    BY <2>2, MovesSet
  <2>4. move[2] = "x"
    BY ONLY <2>1
  <2> HIDE DEF move, byte
  <2>5. Implied(op, p) = SetX(p, Add8(p.x, 1))
    BY ONLY <1>10, MoveArms
  <2>6. Implied(op, p) = InstructionSet!Set(MoveChange(move[2], byte), p)
    BY ONLY <2>2, <2>3, <2>4, <2>5
  <2> QED
    BY ONLY <1>3, <2>6 DEF move, byte
<1>11. CASE op = "INY"
  <2>1. move = <<"y", "y", 1>>
    BY <1>11, MoveOpsAre
  <2>2. byte = Add8(p.y, 1) /\ byte \in Byte
    BY <1>1, <1>2, <2>1, MovedByte
  <2>3. SetY(p, Add8(p.y, 1)) = InstructionSet!Set(MoveChange("y", Add8(p.y, 1)), p)
    BY <2>2, MovesSet
  <2>4. move[2] = "y"
    BY ONLY <2>1
  <2> HIDE DEF move, byte
  <2>5. Implied(op, p) = SetY(p, Add8(p.y, 1))
    BY ONLY <1>11, MoveArms
  <2>6. Implied(op, p) = InstructionSet!Set(MoveChange(move[2], byte), p)
    BY ONLY <2>2, <2>3, <2>4, <2>5
  <2> QED
    BY ONLY <1>3, <2>6 DEF move, byte
<1>12. CASE op = "DEX"
  <2>1. move = <<"x", "x", 255>>
    BY <1>12, MoveOpsAre
  <2>2. byte = Add8(p.x, -1) /\ byte \in Byte
    BY <1>1, <1>2, <2>1, MovedByte
  <2>3. SetX(p, Add8(p.x, -1)) = InstructionSet!Set(MoveChange("x", Add8(p.x, -1)), p)
    BY <2>2, MovesSet
  <2>4. move[2] = "x"
    BY ONLY <2>1
  <2> HIDE DEF move, byte
  <2>5. Implied(op, p) = SetX(p, Add8(p.x, -1))
    BY ONLY <1>12, MoveArms
  <2>6. Implied(op, p) = InstructionSet!Set(MoveChange(move[2], byte), p)
    BY ONLY <2>2, <2>3, <2>4, <2>5
  <2> QED
    BY ONLY <1>3, <2>6 DEF move, byte
<1>13. CASE op = "DEY"
  <2>1. move = <<"y", "y", 255>>
    BY <1>13, MoveOpsAre
  <2>2. byte = Add8(p.y, -1) /\ byte \in Byte
    BY <1>1, <1>2, <2>1, MovedByte
  <2>3. SetY(p, Add8(p.y, -1)) = InstructionSet!Set(MoveChange("y", Add8(p.y, -1)), p)
    BY <2>2, MovesSet
  <2>4. move[2] = "y"
    BY ONLY <2>1
  <2> HIDE DEF move, byte
  <2>5. Implied(op, p) = SetY(p, Add8(p.y, -1))
    BY ONLY <1>13, MoveArms
  <2>6. Implied(op, p) = InstructionSet!Set(MoveChange(move[2], byte), p)
    BY ONLY <2>2, <2>3, <2>4, <2>5
  <2> QED
    BY ONLY <1>3, <2>6 DEF move, byte
<1> QED
  BY <1>4, <1>5, <1>6, <1>7, <1>8, <1>9, <1>10, <1>11, <1>12, <1>13

\* An instruction without operand that ends is one of the instruction set.
LEMMA ImpliedDone ==
  ASSUME LastOK, NEW inst, inst.op \in OneStepOps, inst.op # "SED", inst.addr_mode = "IMP", inst.cycle = 2,
         LengthOf(inst), NEW t, NEW n, Finishing(t, inst, n),
         Boundary(Retire(inst, LastStep(t, inst, n)), n + 2)
  PROVE  InstructionSet!Implied(inst)
<1> DEFINE p == InstructionSet!Past(inst)
<1>1. inst.op \notin LoadOps /\ inst.op \notin StoreOps /\ inst.op \notin ModifyOps /\ inst.op \notin BranchOps
      /\ inst.op \notin {"JMP", "JSR", "PHA", "PHP", "PLA", "PLP", "RTI", "RTS", "BRK"}
  BY DEF OneStepOps, LoadOps, StoreOps, ModifyOps, BranchOps
<1>2. Steps(inst) = <<"idle">>
  BY ONLY <1>1, Zenon DEF Steps
<1>3. last'.reg = Implied(inst.op, p) /\ last'.mem = last.mem /\ took' = inst.cycle
  BY <1>1, <1>2, IdleEnds
<1>4. Behind(p)
  BY PastBehind DEF LengthOf
<1> HIDE DEF p
<1>5. CASE inst.op \in {"CLC", "SEC", "CLI", "SEI", "CLD", "CLV"}
  <2>1. /\ inst.op \in DOMAIN InstructionSet!FlagOps
        /\ Implied(inst.op, p) = InstructionSet!Set(
             [status |-> InstructionSet!With(last.reg.status, InstructionSet!FlagOps[inst.op][1],
                                             InstructionSet!FlagOps[inst.op][2])], p)
    BY <1>4, <1>5, FlagsDone
  <2> QED
    BY ONLY <1>3, <2>1 DEF InstructionSet!Implied, p
<1>6. CASE inst.op \in {"TAX", "TAY", "TXA", "TYA", "TSX", "TXS", "INX", "INY", "DEX", "DEY"}
  <2> DEFINE move == InstructionSet!MoveOps[inst.op]
             byte == InstructionSet!Lo(last.reg[move[1]] + move[3])
  <2>1. inst.op \in DOMAIN InstructionSet!MoveOps /\ Implied(inst.op, p) = InstructionSet!Set(MoveChange(move[2], byte), p)
    BY <1>4, <1>6, MovesDone
  <2> QED
    BY ONLY <1>3, <2>1 DEF InstructionSet!Implied, p, MoveChange
<1>7. CASE inst.op = "NOP"
  <2>1. Implied(inst.op, p) = p
    BY <1>7, MoveArms
  <2> QED
    BY ONLY <1>3, <1>7, <2>1 DEF InstructionSet!Implied, p
<1> QED
  BY <1>5, <1>6, <1>7 DEF OneStepOps

\* The shifts of the accumulator.
LEMMA AccDone ==
  ASSUME LastOK, NEW inst, ModifyRow(inst), inst.addr_mode = "ACC",
         LengthOf(inst), NEW t, NEW n, Finishing(t, inst, n),
         Boundary(Retire(inst, LastStep(t, inst, n)), n + 2)
  PROVE  InstructionSet!Modify(inst)
<1> DEFINE p  == InstructionSet!Past(inst)
           b  == last.reg.acc
           r  == InstructionSet!ModifyResult(inst.op, b)
           f  == InstructionSet!ModifyFlags(r)
           st == CarryOut(inst.op, b, last.reg.status)
           q  == [p EXCEPT !.status = st]
<1>1. /\ inst.op \notin LoadOps /\ inst.op \notin StoreOps /\ inst.op \in ModifyOps /\ inst.op \notin BranchOps
      /\ inst.op \notin {"JMP", "JSR", "PHA", "PHP", "PLA", "PLP", "RTI", "RTS", "BRK"}
      /\ inst.cycle = 2
  BY DEF ModifyRow, LoadOps, StoreOps, ModifyOps, BranchOps
<1>2. Steps(inst) = <<"idle">>
  BY ONLY <1>1, inst.addr_mode = "ACC", Zenon DEF Steps
<1>3. last'.reg = Implied(inst.op, p) /\ last'.mem = last.mem /\ took' = inst.cycle
  BY <1>1, <1>2, IdleEnds
<1>4. Behind(p)
  BY PastBehind DEF LengthOf
<1>5. b \in Byte /\ last.reg.status \in SUBSET Flag
  BY LastHas
<1>6. r.byte = Modified(inst.op, b, "carry" \in last.reg.status) /\ r.byte \in Byte /\ SetNZ(st, r.byte) = f
  BY <1>1, <1>5, ModifiedIs, ModifyFlagsIs
<1>7. st \in SUBSET Flag
  BY <1>1, <1>5, ModifiedTyped
<1>8. p \in Register /\ p.acc = b /\ p.status = last.reg.status
  BY <1>4 DEF Behind
<1>9. Implied(inst.op, p) = SetAcc([p EXCEPT !.status = CarryOut(inst.op, p.acc, p.status)],
                                   Modified(inst.op, p.acc, "carry" \in p.status))
  <2> HIDE DEF p
  <2> QED
    BY <1>1 DEF Implied, ModifyOps
<1>10. Implied(inst.op, p) = SetAcc(q, r.byte)
  <2> HIDE DEF p, b, r
  <2> QED
    BY ONLY <1>6, <1>8, <1>9 DEF q, st
<1> HIDE DEF p, b, r, f, st
<1>11. q = Regs(p.acc, p.x, p.y, p.sp, st, p.pc)
  BY <1>8, OneChanged DEF WithStatus
<1>12. q \in Register
  BY <1>7, <1>8, RegisterSet
<1> HIDE DEF q
<1>13. SetAcc(q, r.byte) = Regs(r.byte, q.x, q.y, q.sp, SetNZ(q.status, r.byte), q.pc)
  BY <1>12, SetsAre
<1>14. q.x = p.x /\ q.y = p.y /\ q.sp = p.sp /\ q.status = st /\ q.pc = p.pc
  BY ONLY <1>11, RegsHave
<1>15. SetAcc(q, r.byte) = Regs(r.byte, p.x, p.y, p.sp, f, p.pc)
  BY ONLY <1>6, <1>13, <1>14
<1>16. InstructionSet!Set([acc |-> r.byte, status |-> f], p) = Regs(r.byte, p.x, p.y, p.sp, f, p.pc)
  BY <1>8, RegsSet
<1>17. InstructionSet!Operand(inst.addr_mode) = b
  BY DEF InstructionSet!Operand, b
<1> QED
  BY ONLY <1>1, <1>3, <1>10, <1>15, <1>16, <1>17, inst.addr_mode = "ACC"
     DEF InstructionSet!Modify, r, f, p, ModifyOps

-----------------------------------------------------------------------------
(* Branches. *)

\* The instruction set's table of branches.
LEMMA BranchOnIs ==
  LET on == InstructionSet!BranchOn
  IN  /\ DOMAIN on = BranchOps
      /\ on["BCC"] = <<"carry", FALSE>> /\ on["BCS"] = <<"carry", TRUE>>
      /\ on["BNE"] = <<"zero", FALSE>> /\ on["BEQ"] = <<"zero", TRUE>>
      /\ on["BPL"] = <<"negative", FALSE>> /\ on["BMI"] = <<"negative", TRUE>>
      /\ on["BVC"] = <<"overflow", FALSE>> /\ on["BVS"] = <<"overflow", TRUE>>
  BY DEF InstructionSet!BranchOn, BranchOps

\* Equality of truth values.
LEMMA SameTruth ==
  ASSUME NEW f, NEW s, NEW v \in BOOLEAN
  PROVE  (f \in s) = v <=> ((f \in s) <=> v)
  BY SMT

\* The core and the instruction set take the same branches.
LEMMA ConditionIs ==
  ASSUME NEW op \in BranchOps, NEW status
  PROVE  Condition(op, status)
           <=> (InstructionSet!BranchOn[op][1] \in status) = InstructionSet!BranchOn[op][2]
<1> DEFINE on == InstructionSet!BranchOn[op]
<1>0. ASSUME on[2] \in BOOLEAN, Condition(op, status) <=> ((on[1] \in status) <=> on[2])
      PROVE  Condition(op, status) <=> (on[1] \in status) = on[2]
  <2> HIDE DEF on
  <2> QED
    BY ONLY <1>0, SameTruth
<1>1. CASE op = "BCC"
  <2>1. on[1] = "carry" /\ on[2] \in BOOLEAN /\ ~on[2]
    BY <1>1, BranchOnIs
  <2>2. Condition(op, status) <=> "carry" \notin status
    BY <1>1 DEF Condition
  <2> HIDE DEF on
  <2> QED
    BY ONLY <1>0, <2>1, <2>2 DEF on
<1>2. CASE op = "BCS"
  <2>1. on[1] = "carry" /\ on[2] \in BOOLEAN /\ on[2]
    BY <1>2, BranchOnIs
  <2>2. Condition(op, status) <=> "carry" \in status
    BY <1>2 DEF Condition
  <2> HIDE DEF on
  <2> QED
    BY ONLY <1>0, <2>1, <2>2 DEF on
<1>3. CASE op = "BNE"
  <2>1. on[1] = "zero" /\ on[2] \in BOOLEAN /\ ~on[2]
    BY <1>3, BranchOnIs
  <2>2. Condition(op, status) <=> "zero" \notin status
    BY <1>3 DEF Condition
  <2> HIDE DEF on
  <2> QED
    BY ONLY <1>0, <2>1, <2>2 DEF on
<1>4. CASE op = "BEQ"
  <2>1. on[1] = "zero" /\ on[2] \in BOOLEAN /\ on[2]
    BY <1>4, BranchOnIs
  <2>2. Condition(op, status) <=> "zero" \in status
    BY <1>4 DEF Condition
  <2> HIDE DEF on
  <2> QED
    BY ONLY <1>0, <2>1, <2>2 DEF on
<1>5. CASE op = "BPL"
  <2>1. on[1] = "negative" /\ on[2] \in BOOLEAN /\ ~on[2]
    BY <1>5, BranchOnIs
  <2>2. Condition(op, status) <=> "negative" \notin status
    BY <1>5 DEF Condition
  <2> HIDE DEF on
  <2> QED
    BY ONLY <1>0, <2>1, <2>2 DEF on
<1>6. CASE op = "BMI"
  <2>1. on[1] = "negative" /\ on[2] \in BOOLEAN /\ on[2]
    BY <1>6, BranchOnIs
  <2>2. Condition(op, status) <=> "negative" \in status
    BY <1>6 DEF Condition
  <2> HIDE DEF on
  <2> QED
    BY ONLY <1>0, <2>1, <2>2 DEF on
<1>7. CASE op = "BVC"
  <2>1. on[1] = "overflow" /\ on[2] \in BOOLEAN /\ ~on[2]
    BY <1>7, BranchOnIs
  <2>2. Condition(op, status) <=> "overflow" \notin status
    BY <1>7 DEF Condition
  <2> HIDE DEF on
  <2> QED
    BY ONLY <1>0, <2>1, <2>2 DEF on
<1>8. CASE op = "BVS"
  <2>1. on[1] = "overflow" /\ on[2] \in BOOLEAN /\ on[2]
    BY <1>8, BranchOnIs
  <2>2. Condition(op, status) <=> "overflow" \in status
    BY <1>8 DEF Condition
  <2> HIDE DEF on
  <2> QED
    BY ONLY <1>0, <2>1, <2>2 DEF on
<1> QED
  BY <1>1, <1>2, <1>3, <1>4, <1>5, <1>6, <1>7, <1>8 DEF BranchOps

\* The steps of a branch.
LEMMA BranchSteps ==
  ASSUME NEW inst, inst.op \in BranchOps, inst.addr_mode = "REL"
  PROVE  LET s == Steps(inst)
         IN  Len(s) = 3 /\ s[1] = "imm" /\ s[2] = "branch" /\ s[3] = "cross"
<1>1. Steps(inst) = <<"imm">> \o <<"branch", "cross">>
  BY DEF Steps, LoadSteps, LoadOps, StoreOps, ModifyOps, BranchOps
<1> QED
  BY <1>1

\* Where a branch can end: after its operand, if the flag is not the one it looks at, after
\* the pc has moved, if it stays in its page, or after a cycle more.
LEMMA BranchEnds ==
  ASSUME LastOK, NEW inst, inst.op \in BranchOps, inst.addr_mode = "REL",
         NEW t, NEW n, Finishing(t, inst, n)
  PROVE  LET next == Add16(last.reg.pc, 2)
             to   == Add16(next, Signed(Arg(1)))
             u    == LastStep(t, inst, n)
         IN  /\ u.mem = last.mem
             /\ ~Condition(inst.op, last.reg.status) => n = 0 /\ u.reg = WithPc(last.reg, next)
             /\ Condition(inst.op, last.reg.status) =>
                  /\ u.reg = WithPc(last.reg, to)
                  /\ n = IF SamePage(next, to) THEN 1 ELSE 2
<1> DEFINE s    == Steps(inst)
           next == Add16(last.reg.pc, 2)
           to   == Add16(next, Signed(Arg(1)))
           u    == LastStep(t, inst, n)
<1>1. Len(s) = 3 /\ s[1] = "imm" /\ s[2] = "branch" /\ s[3] = "cross"
  BY BranchSteps
<1>2. n \in 0 .. 2 /\ n \in Nat /\ Chain(t, inst, n) /\ Reached(t[0], 1) /\ DataOK(t[n])
  BY <1>1 DEF Finishing, Chain
<1>3. inst.op # "PLP"
  BY DEF BranchOps
<1>4. \A j \in 0 .. n - 1 : DataOK(t[j]) /\ t[j + 1] = Step(s[j + 1], inst, t[j]) /\ ~ExecDone(j, inst, t[j])
  BY <1>2, <1>3, ChainStep
<1>5. ExecDone(n, inst, t[n])
  BY DEF Finishing
<1> DEFINE v == Step("imm", inst, t[0])
<1>6. Reached(v, 2) /\ v.data = Arg(1)
  BY <1>2, ReadStep
<1>7. DataOK(v) /\ v.mem = last.mem /\ v.reg.pc = next /\ BranchTarget(v) = to
      /\ v.reg = WithPc(last.reg, next) /\ \A a : WithPc(v.reg, a) = WithPc(last.reg, a)
  BY <1>6, ReachedHas DEF BranchTarget, Reached
<1> HIDE DEF s, v
<1>8. ExecDone(0, inst, t[0]) <=> ~Condition(inst.op, last.reg.status)
  <2>1. t[0].reg.status = last.reg.status
    BY <1>2, ReachedHas
  <2> QED
    BY <1>1, <2>1 DEF ExecDone, s
<1>9. ASSUME NEW w, w = v PROVE ExecDone(1, inst, w) <=> SamePage(next, to)
  BY <1>1, <1>7, <1>9 DEF ExecDone, s
<1> HIDE DEF next, to
<1>10. CASE n = 0
  <2>1. u = v
    BY <1>1, <1>10 DEF LastStep, s, v
  <2>2. ~Condition(inst.op, last.reg.status)
    BY ONLY <1>5, <1>8, <1>10
  <2> HIDE DEF u
  <2> QED
    BY ONLY <1>7, <1>10, <2>1, <2>2 DEF u, next
<1>11. CASE n = 1
  <2>1. t[1] = v /\ ~ExecDone(0, inst, t[0])
    BY <1>1, <1>4, <1>11 DEF v
  <2>2. Condition(inst.op, last.reg.status)
    BY ONLY <1>8, <2>1
  <2>3. SamePage(next, to)
    BY <1>5, <1>9, <1>11, <2>1
  <2>4. u = Step("branch", inst, v)
    BY <1>1, <1>11, <2>1 DEF LastStep, s
  <2>5. u = PathOf(WithPc(v.reg, to), v.mem, v.data, v.addr)
    BY <1>7, <2>3, <2>4, PcStepIs
  <2>6. u.reg = WithPc(last.reg, to) /\ u.mem = last.mem
    BY <1>7, <2>5, PathHas
  <2> HIDE DEF u
  <2> QED
    BY ONLY <1>11, <2>2, <2>3, <2>6 DEF u, to, next
<1>12. CASE n = 2
  <2>1. t[1] = v /\ ~ExecDone(0, inst, t[0])
    BY <1>1, <1>4, <1>12 DEF v
  <2>2. Condition(inst.op, last.reg.status)
    BY ONLY <1>8, <2>1
  <2>3. t[2] = Step("branch", inst, v) /\ ~ExecDone(1, inst, v)
    BY <1>1, <1>4, <1>12, <2>1
  <2>4. ~SamePage(next, to)
    BY <1>9, <2>3
  <2>5. t[2] = PathOf(v.reg, v.mem, v.data, to)
    BY <1>7, <2>3, <2>4, PcStepIs
  <2>6. u = Step("cross", inst, t[2])
    BY <1>1, <1>12 DEF LastStep, s
  <2>7. u = PathOf(WithPc(t[2].reg, t[2].addr), t[2].mem, t[2].data, t[2].addr)
    BY <1>2, <1>12, <2>6, PcStepIs
  <2>8. u.reg = WithPc(last.reg, to) /\ u.mem = last.mem
    BY ONLY <1>7, <2>5, <2>7, PathHas
  <2> HIDE DEF u
  <2> QED
    BY ONLY <1>12, <2>2, <2>4, <2>8 DEF u, to, next
<1> QED
  BY ONLY <1>2, <1>10, <1>11, <1>12 DEF u, to, next

\* A branch that ends is a branch of the instruction set, in two, three or four cycles.
LEMMA BranchDone ==
  ASSUME LastOK, NEW inst, inst.op \in BranchOps, inst.addr_mode = "REL",
         NEW t, NEW n, Finishing(t, inst, n), Boundary(Retire(inst, LastStep(t, inst, n)), n + 2)
  PROVE  InstructionSet!Branch(inst)
<1> DEFINE next == Add16(last.reg.pc, 2)
           to   == Add16(next, Signed(Arg(1)))
           u    == LastStep(t, inst, n)
<1>1. /\ inst.op \notin LoadOps /\ inst.op \notin ModifyOps
      /\ inst.op # "JMP" /\ inst.op \notin {"PLA", "PLP"} /\ inst.addr_mode \notin {"IMP", "ACC"}
  BY DEF LoadOps, ModifyOps, BranchOps
<1>2. /\ u.mem = last.mem
      /\ ~Condition(inst.op, last.reg.status) => n = 0 /\ u.reg = WithPc(last.reg, next)
      /\ Condition(inst.op, last.reg.status) =>
           /\ u.reg = WithPc(last.reg, to)
           /\ n = IF SamePage(next, to) THEN 1 ELSE 2
  BY BranchEnds
<1> HIDE DEF u
<1>3. Retire(inst, u) = u
  BY ONLY <1>1, RetireCases
<1>4. last'.reg = u.reg /\ last'.mem = last.mem /\ took' = n + 2
  BY <1>2, <1>3 DEF Boundary, u
<1>5. inst.op \in DOMAIN InstructionSet!BranchOn
  BY BranchOnIs
<1>6. Condition(inst.op, last.reg.status)
        <=> (InstructionSet!BranchOn[inst.op][1] \in last.reg.status) = InstructionSet!BranchOn[inst.op][2]
  BY ConditionIs
<1>7. \A a : [last.reg EXCEPT !.pc = a] = WithPc(last.reg, a)
  BY OneChanged DEF LastOK
<1>8. /\ InstructionSet!Add16(last.reg.pc, 2) = next
      /\ InstructionSet!Add16(next, InstructionSet!Signed(InstructionSet!Op1)) = to
  BY SameNumbers, EffectiveIs
<1>9. /\ ~SamePage(next, to) => InstructionSet!Bit(~InstructionSet!SamePage(next, to)) = 1
      /\ SamePage(next, to) => InstructionSet!Bit(~InstructionSet!SamePage(next, to)) = 0
  BY SameNumbers DEF InstructionSet!Bit
<1> HIDE DEF next, to
<1>10. CASE Condition(inst.op, last.reg.status)
  <2>1. last'.reg = [last.reg EXCEPT !.pc = to] /\ took' = 3 + InstructionSet!Bit(~InstructionSet!SamePage(next, to))
    BY ONLY <1>2, <1>4, <1>7, <1>9, <1>10
  <2> QED
    BY ONLY <1>4, <1>5, <1>6, <1>8, <1>10, <2>1 DEF InstructionSet!Branch
<1>11. CASE ~Condition(inst.op, last.reg.status)
  <2>1. last'.reg = [last.reg EXCEPT !.pc = next] /\ took' = 2
    BY ONLY <1>2, <1>4, <1>7, <1>11
  <2> QED
    BY ONLY <1>4, <1>5, <1>6, <1>8, <1>11, <2>1 DEF InstructionSet!Branch
<1> QED
  BY <1>10, <1>11

-----------------------------------------------------------------------------
(* Jumps. *)

\* An instruction that neither loads nor branches ends with its last step.
LEMMA EndsLast ==
  ASSUME NEW inst, inst.op \notin LoadOps, inst.op \notin BranchOps,
         NEW t, NEW n, Finishing(t, inst, n), Steps(inst)[n + 1] # "branch"
  PROVE  n + 1 = Len(Steps(inst))
  BY DEF Finishing, ExecDone, Hits

\* The steps of the jumps.
LEMMA JumpArms ==
  ASSUME NEW inst, inst.op \in {"JMP", "JSR"}
  PROVE  LET s == Steps(inst)
         IN  /\ inst.op = "JMP" /\ inst.addr_mode = "ABS" =>
                  Len(s) = 2 /\ s[1] = "pc_lo" /\ s[2] = "pc_hi"
             /\ inst.op = "JMP" /\ inst.addr_mode = "IND" =>
                  Len(s) = 4 /\ s[1] = "pc_lo" /\ s[2] = "pc_hi" /\ s[3] = "load" /\ s[4] = "load_hi"
             /\ inst.op = "JSR" /\ inst.addr_mode = "ABS" =>
                  Len(s) = 5 /\ s[1] = "push_hi" /\ s[2] = "push_lo" /\ s[3] = "pc_lo"
                  /\ s[4] = "pc_hi" /\ s[5] = "jump"
<1>1. inst.op \notin LoadOps /\ inst.op \notin StoreOps /\ inst.op \notin ModifyOps /\ inst.op \notin BranchOps
  BY DEF LoadOps, StoreOps, ModifyOps, BranchOps
<1>2. inst.op = "JMP" => Steps(inst) = JumpSteps(inst.addr_mode)
  BY ONLY <1>1 DEF Steps
<1>3. inst.op = "JSR" => Steps(inst) = <<"push_hi", "push_lo">> \o JumpSteps(inst.addr_mode) \o <<"jump">>
  BY ONLY <1>1 DEF Steps
<1>4. inst.addr_mode = "ABS" => JumpSteps(inst.addr_mode) = <<"pc_lo", "pc_hi">>
  BY DEF JumpSteps
<1>5. inst.addr_mode = "IND" => JumpSteps(inst.addr_mode) = <<"pc_lo", "pc_hi", "load", "load_hi">>
  BY DEF JumpSteps
<1>6. CASE inst.op = "JMP" /\ inst.addr_mode = "ABS"
  <2>1. Steps(inst) = <<"pc_lo", "pc_hi">>
    BY ONLY <1>2, <1>4, <1>6
  <2> QED
    BY ONLY <1>6, <2>1
<1>7. CASE inst.op = "JMP" /\ inst.addr_mode = "IND"
  <2>1. Steps(inst) = <<"pc_lo", "pc_hi", "load", "load_hi">>
    BY ONLY <1>2, <1>5, <1>7
  <2> QED
    BY ONLY <1>7, <2>1
<1>8. CASE inst.op = "JSR" /\ inst.addr_mode = "ABS"
  <2>1. Steps(inst) = <<"push_hi", "push_lo">> \o <<"pc_lo", "pc_hi">> \o <<"jump">>
    BY ONLY <1>3, <1>4, <1>8
  <2> QED
    BY ONLY <1>8, <2>1
<1> QED
  BY <1>6, <1>7, <1>8

\* A jump ends with its address,
LEMMA JumpEnds ==
  ASSUME LastOK, NEW inst, inst.op = "JMP", inst.addr_mode \in {"ABS", "IND"},
         NEW t, NEW n, Finishing(t, inst, n)
  PROVE  LET u == LastStep(t, inst, n)
         IN  /\ Reached(u, 3)
             /\ u.addr = InstructionSet!EffectiveAddress(inst.addr_mode)
             /\ n + 1 = Len(Steps(inst))
<1> DEFINE s == Steps(inst)
           u == LastStep(t, inst, n)
<1>0. inst.op \notin LoadOps /\ inst.op \notin BranchOps /\ inst.op # "PLP"
  BY DEF LoadOps, BranchOps
<1>1. n \in 0 .. 5 /\ n \in Nat /\ Chain(t, inst, n) /\ Reached(t[0], 1) /\ n < Len(s)
  BY DEF Finishing, Chain
<1>2. \A j \in 0 .. n - 1 : DataOK(t[j]) /\ t[j + 1] = Step(s[j + 1], inst, t[j])
  BY <1>0, <1>1, ChainStep
<1>3. CASE inst.addr_mode = "ABS"
  <2>1. Len(s) = 2 /\ s[1] = "pc_lo" /\ s[2] = "pc_hi"
    BY <1>3, JumpArms
  <2>2. s[n + 1] # "branch"
    BY <1>1, <2>1
  <2>3. n = 1
    <3>1. n + 1 = Len(s)
      BY <1>0, <2>2, EndsLast
    <3> QED
      BY ONLY <1>1, <2>1, <3>1
  <2> HIDE DEF s
  <2>4. t[1] = Step("pc_lo", inst, t[0]) /\ u = Step("pc_hi", inst, t[1])
    BY <1>2, <2>1, <2>3 DEF LastStep, s
  <2>5. Reached(u, 1 + 2) /\ u.addr = Word(Arg(1), Arg(1 + 1))
    BY ONLY LastOK, <1>1, <2>4, AbsoluteSteps, 1 \in Int
  <2> HIDE DEF u
  <2> QED
    BY <1>3, <2>1, <2>3, <2>5, EffectiveIs DEF u, s
<1>4. CASE inst.addr_mode = "IND"
  <2>1. Len(s) = 4 /\ s[1] = "pc_lo" /\ s[2] = "pc_hi" /\ s[3] = "load" /\ s[4] = "load_hi"
    BY <1>4, JumpArms
  <2>2. s[n + 1] # "branch"
    BY <1>1, <2>1
  <2>3. n = 3
    <3>1. n + 1 = Len(s)
      BY <1>0, <2>2, EndsLast
    <3> QED
      BY ONLY <1>1, <2>1, <3>1
  <2> HIDE DEF s
  <2>4. t[1] = Step("pc_lo", inst, t[0]) /\ t[2] = Step("pc_hi", inst, t[1])
    BY <1>2, <2>1, <2>3
  <2>5. Reached(t[2], 1 + 2) /\ t[2].addr = Word(Arg(1), Arg(1 + 1))
    BY ONLY LastOK, <1>1, <2>4, AbsoluteSteps, 1 \in Int
  <2>6. t[3] = Step("load", inst, t[2]) /\ u = Step("load_hi", inst, t[3]) /\ DataOK(t[3])
    <3>1. DataOK(t[3])
      BY <1>1, <2>3 DEF Chain
    <3> QED
      BY <1>2, <2>1, <2>3, <3>1 DEF LastStep, s
  <2> HIDE DEF u
  <2> DEFINE a == Word(Arg(1), Arg(2))
  <2>7. Reached(t[2], 3) /\ t[2].addr = a /\ DataOK(t[2]) /\ t[2].mem = last.mem
    BY <2>5, ReachedHas
  <2>8. Target(inst, t[2]) = t[2].addr
    BY <1>4 DEF Target, ZeroPage
  <2>9. t[3] = PathOf(t[2].reg, t[2].mem, Read(t[2].mem, t[2].addr), t[2].addr)
    BY <2>6, <2>7, <2>8, OperandStepIs
  <2>10. u = PathOf(t[3].reg, t[3].mem, Read(t[3].mem, Add16(t[3].addr, 1)),
                    Word(t[3].data, Read(t[3].mem, Add16(t[3].addr, 1))))
    BY ONLY <2>6, PcStepIs
  <2>11. DataOK(u)
    <3>1. "load_hi" \in ByteSteps
      BY DEF ByteSteps
    <3> QED
      BY <2>6, <3>1, StepTyped
  <2> HIDE DEF a
  <2>12. t[3].reg = t[2].reg /\ t[3].mem = last.mem /\ t[3].data = Read(last.mem, a) /\ t[3].addr = a
    BY ONLY <2>7, <2>9, PathHas
  <2>13. u.reg = t[2].reg /\ u.mem = last.mem /\ u.addr = Word(Read(last.mem, a), Read(last.mem, Add16(a, 1)))
    BY ONLY <2>10, <2>12, PathHas
  <2>14. Reached(u, 3)
    BY ONLY <2>7, <2>11, <2>13 DEF Reached
  <2> QED
    BY <1>4, <2>1, <2>3, <2>13, <2>14, EffectiveIs DEF u, s, a
<1> QED
  BY <1>3, <1>4

\* and is a jump of the instruction set.
LEMMA JumpDone ==
  ASSUME LastOK, NEW inst, inst.op = "JMP",
         (inst.addr_mode = "ABS" /\ inst.cycle = 3) \/ (inst.addr_mode = "IND" /\ inst.cycle = 5),
         NEW t, NEW n, Finishing(t, inst, n), Boundary(Retire(inst, LastStep(t, inst, n)), n + 2)
  PROVE  InstructionSet!Jump(inst)
<1> DEFINE u == LastStep(t, inst, n)
           a == InstructionSet!EffectiveAddress(inst.addr_mode)
<1>1. Reached(u, 3) /\ u.addr = a /\ n + 1 = Len(Steps(inst))
  BY JumpEnds
<1>2. n \in Nat
  BY DEF Finishing
<1>3. n + 2 = inst.cycle
  <2>1. CASE inst.addr_mode = "ABS" /\ inst.cycle = 3
    <3>1. Len(Steps(inst)) = 2
      BY <2>1, JumpArms
    <3> QED
      BY ONLY <1>1, <1>2, <2>1, <3>1
  <2>2. CASE inst.addr_mode = "IND" /\ inst.cycle = 5
    <3>1. Len(Steps(inst)) = 4
      BY <2>2, JumpArms
    <3> QED
      BY ONLY <1>1, <1>2, <2>2, <3>1
  <2> QED
    BY <2>1, <2>2
<1>4. inst.op \notin LoadOps /\ inst.op \notin ModifyOps /\ inst.op \notin {"PLA", "PLP"}
      /\ inst.addr_mode \notin {"IMP", "ACC"}
  BY DEF LoadOps, ModifyOps
<1> HIDE DEF u, a
<1>5. Retire(inst, u) = [u EXCEPT !.reg.pc = u.addr]
  BY ONLY <1>4, inst.op = "JMP", RetireCases
<1>6. DataOK(u) /\ u.mem = last.mem /\ \A b : WithPc(u.reg, b) = WithPc(last.reg, b)
  BY <1>1, ReachedHas
<1>7. \A b : [u EXCEPT !.reg.pc = b] = PathOf(WithPc(u.reg, b), u.mem, u.data, u.addr)
  BY <1>6, PathReg
<1>8. Retire(inst, u) = PathOf(WithPc(last.reg, a), last.mem, u.data, u.addr)
  BY ONLY <1>1, <1>5, <1>6, <1>7
<1>9. last'.reg = WithPc(last.reg, a) /\ last'.mem = last.mem /\ took' = inst.cycle
  BY <1>3, <1>8, PathHas DEF Boundary, u
<1>10. [last.reg EXCEPT !.pc = a] = WithPc(last.reg, a)
  BY OneChanged DEF LastOK
<1> QED
  BY ONLY <1>9, <1>10, inst.op = "JMP" DEF InstructionSet!Jump, a

-----------------------------------------------------------------------------
(* The stack instructions. *)

\* The steps of the stack instructions.
LEMMA StackArms ==
  ASSUME NEW inst, inst.op \in {"PHA", "PHP", "PLA", "PLP", "RTI", "RTS"}
  PROVE  LET s == Steps(inst)
         IN  /\ inst.op \in {"PHA", "PHP"} => Len(s) = 2 /\ s[1] = "push" /\ s[2] = "idle"
             /\ inst.op \in {"PLA", "PLP"} => Len(s) = 3 /\ s[1] = "pop" /\ s[2] = "idle" /\ s[3] = "idle"
             /\ inst.op = "RTI" => Len(s) = 5 /\ s[1] = "pop" /\ s[2] = "pop_status" /\ s[3] = "pop_addr"
                                   /\ s[4] = "join" /\ s[5] = "jump"
             /\ inst.op = "RTS" => Len(s) = 5 /\ s[1] = "pop" /\ s[2] = "addr" /\ s[3] = "pop"
                                   /\ s[4] = "join" /\ s[5] = "jump+1"
<1>1. inst.op \notin LoadOps /\ inst.op \notin StoreOps /\ inst.op \notin ModifyOps /\ inst.op \notin BranchOps
  BY DEF LoadOps, StoreOps, ModifyOps, BranchOps
<1>2. inst.op \in {"PHA", "PHP"} => Steps(inst) = <<"push", "idle">>
  BY ONLY <1>1 DEF Steps
<1>3. inst.op \in {"PLA", "PLP"} => Steps(inst) = <<"pop", "idle", "idle">>
  BY ONLY <1>1 DEF Steps
<1>4. inst.op = "RTI" => Steps(inst) = <<"pop", "pop_status", "pop_addr", "join", "jump">>
  BY ONLY <1>1 DEF Steps
<1>5. inst.op = "RTS" => Steps(inst) = <<"pop", "addr", "pop", "join", "jump+1">>
  BY ONLY <1>1 DEF Steps
<1>6. CASE inst.op \in {"PHA", "PHP"}
  BY ONLY <1>2, <1>6
<1>7. CASE inst.op \in {"PLA", "PLP"}
  BY ONLY <1>3, <1>7
<1>8. CASE inst.op = "RTI"
  BY ONLY <1>4, <1>8
<1>9. CASE inst.op = "RTS"
  BY ONLY <1>5, <1>9
<1> QED
  BY <1>6, <1>7, <1>8, <1>9

\* Where the instruction set looks on the stack.
StackCell(k) == STACK_BASE + Add8(last.reg.sp, k)

\* They are the slots of the instruction set.
LEMMA SlotsAre ==
  ASSUME LastOK
  PROVE  /\ \A k \in Int : InstructionSet!Slot(last.reg.sp + k) = StackCell(k)
         /\ \A k \in Int : InstructionSet!Slot(last.reg.sp - k) = StackCell(-k)
         /\ \A k \in Int : InstructionSet!Lo(last.reg.sp + k) = Add8(last.reg.sp, k)
         /\ \A k \in Int : InstructionSet!Lo(last.reg.sp - k) = Add8(last.reg.sp, -k)
<1>1. last.reg.sp \in Int
  BY LastHas, ByteIs
<1>2. \A k \in Int : (last.reg.sp - k) % 256 = (last.reg.sp + -k) % 256
  BY <1>1
<1> QED
  BY <1>1, <1>2 DEF InstructionSet!Slot, InstructionSet!Lo, InstructionSet!STACK_BASE, STACK_BASE, StackCell, Add8

\* k bytes have been taken from the stack.
Popped(s, k, status) ==
  /\ DataOK(s)
  /\ s.mem = last.mem
  /\ s.reg = Regs(last.reg.acc, last.reg.x, last.reg.y, Add8(last.reg.sp, k), status, Add16(last.reg.pc, 1))

\* One more byte.
LEMMA PopStep ==
  ASSUME LastOK, NEW k \in Int, NEW status, NEW s, Popped(s, k, status)
  PROVE  LET u == pop(s)
         IN  /\ Popped(u, k + 1, status)
             /\ u.data = Read(last.mem, StackCell(k + 1)) /\ u.data \in Byte
             /\ u.addr = s.addr
<1>1. DataOK(s) /\ s.mem = last.mem
      /\ s.reg = Regs(last.reg.acc, last.reg.x, last.reg.y, Add8(last.reg.sp, k), status, Add16(last.reg.pc, 1))
  BY DEF Popped
<1>2. last.reg.sp \in Int
  BY LastHas, ByteIs
<1>3. s.reg.sp = Add8(last.reg.sp, k)
  BY ONLY <1>1, RegsHave
<1>4. Add8(s.reg.sp, 1) = Add8(last.reg.sp, k + 1)
  <2>1. Add8(Add8(last.reg.sp, k), 1) = Add8(last.reg.sp, k + 1)
    BY ONLY <1>2, AddTwice, k \in Int, 1 \in Int
  <2> QED
    BY ONLY <1>3, <2>1
<1>5. WithSp(s.reg, Add8(last.reg.sp, k + 1))
        = Regs(last.reg.acc, last.reg.x, last.reg.y, Add8(last.reg.sp, k + 1), status, Add16(last.reg.pc, 1))
  BY ONLY <1>1, RegsHave DEF WithSp
<1>6. pop(s) = PathOf(WithSp(s.reg, Add8(s.reg.sp, 1)), s.mem, Read(s.mem, STACK_BASE + Add8(s.reg.sp, 1)), s.addr)
  BY <1>1, StackIs
<1>7. DataOK(pop(s))
  BY <1>1, PopTyped
<1>8. pop(s).data \in Byte
  BY <1>7, DataHas
<1>9. pop(s) = PathOf(Regs(last.reg.acc, last.reg.x, last.reg.y, Add8(last.reg.sp, k + 1), status, Add16(last.reg.pc, 1)),
                      last.mem, Read(last.mem, StackCell(k + 1)), s.addr)
  BY ONLY <1>1, <1>4, <1>5, <1>6 DEF StackCell
<1> QED
  BY ONLY <1>7, <1>8, <1>9, PathHas DEF Popped

\* Before the first of them.
LEMMA PopsStart ==
  ASSUME LastOK, NEW s, Reached(s, 1)
  PROVE  Popped(s, 0, last.reg.status)
<1>1. Add8(last.reg.sp, 0) = last.reg.sp
  BY LastHas, AddNone
<1>2. s.reg = WithPc(last.reg, Add16(last.reg.pc, 1))
  BY DEF Reached
<1> QED
  BY <1>1, <1>2 DEF Popped, Reached, WithPc

\* Nothing is left to do for the instructions on the stack but PLA and PLP.
LEMMA StackRetires ==
  ASSUME NEW inst, inst.op \in {"PHA", "PHP", "RTI", "RTS", "JSR"}, Len(Steps(inst)) # 1, NEW s
  PROVE  Retire(inst, s) = s
<1>1. inst.op \notin LoadOps /\ inst.op \notin ModifyOps /\ inst.op # "JMP" /\ inst.op \notin {"PLA", "PLP"}
  BY DEF LoadOps, ModifyOps
<1>2. Steps(inst) # <<"idle">>
  OBVIOUS
<1> QED
  BY ONLY <1>1, <1>2, RetireCases

\* The chain of a stack instruction, and its last step.
LEMMA StackChain ==
  ASSUME NEW inst, inst.op \in {"PHA", "PHP", "PLA", "RTI", "RTS", "JSR"},
         NEW t, NEW n, Finishing(t, inst, n), \A j \in 1 .. Len(Steps(inst)) : Steps(inst)[j] # "branch",
         Len(Steps(inst)) \in Nat
  PROVE  /\ n + 1 = Len(Steps(inst)) /\ n \in 0 .. 5
         /\ Reached(t[0], 1)
         /\ \A j \in 0 .. n : DataOK(t[j])
         /\ \A j \in 0 .. n - 1 : t[j + 1] = Step(Steps(inst)[j + 1], inst, t[j])
<1>1. inst.op \notin LoadOps /\ inst.op \notin BranchOps /\ inst.op # "PLP"
  BY DEF LoadOps, BranchOps
<1>2. n \in 0 .. 5 /\ n \in Nat /\ Chain(t, inst, n) /\ n < Len(Steps(inst))
  BY DEF Finishing
<1>3. n + 1 \in 1 .. Len(Steps(inst))
  BY ONLY <1>2, Len(Steps(inst)) \in Nat
<1>4. n + 1 = Len(Steps(inst))
  BY <1>1, <1>3, EndsLast
<1>5. \A j \in 0 .. n - 1 : t[j + 1] = Step(Steps(inst)[j + 1], inst, t[j])
  BY <1>1, <1>2, ChainStep
<1> QED
  BY <1>2, <1>4, <1>5 DEF Chain

\* The stack pointer has moved by d, memory is m, the pc is a.
Pushing(s, d, m, a) ==
  /\ DataOK(s)
  /\ s.mem = m
  /\ s.reg = Regs(last.reg.acc, last.reg.x, last.reg.y, Add8(last.reg.sp, d), last.reg.status, a)

\* One more byte, the k-th, goes on the stack.
LEMMA PushStep ==
  ASSUME LastOK, NEW k \in Int, NEW d \in Int, d + k = 0, NEW m, NEW a, NEW s, Pushing(s, d, m, a), NEW b \in Byte
  PROVE  LET u == push(s, b)
         IN  Pushing(u, d - 1, InstructionSet!Pushed(m, k, b), a) /\ u.addr = s.addr
<1>1. DataOK(s) /\ s.mem = m
      /\ s.reg = Regs(last.reg.acc, last.reg.x, last.reg.y, Add8(last.reg.sp, d), last.reg.status, a)
  BY DEF Pushing
<1>2. last.reg.sp \in Int
  BY LastHas, ByteIs
<1>3. s.reg.sp = Add8(last.reg.sp, d)
  BY ONLY <1>1, RegsHave
<1>4. Add8(s.reg.sp, -1) = Add8(last.reg.sp, d - 1)
  <2>1. Add8(Add8(last.reg.sp, d), -1) = Add8(last.reg.sp, d + -1)
    BY ONLY <1>2, AddTwice, d \in Int, -1 \in Int
  <2>2. d + -1 = d - 1
    OBVIOUS
  <2> QED
    BY ONLY <1>3, <2>1, <2>2
<1>5. WithSp(s.reg, Add8(last.reg.sp, d - 1))
        = Regs(last.reg.acc, last.reg.x, last.reg.y, Add8(last.reg.sp, d - 1), last.reg.status, a)
  BY ONLY <1>1, RegsHave DEF WithSp
<1>6. push(s, b) = PathOf(WithSp(s.reg, Add8(s.reg.sp, -1)), Write(s.mem, STACK_BASE + s.reg.sp, b), b, s.addr)
  BY <1>1, StackIs
<1>7. InstructionSet!Pushed(m, k, b) = Write(m, STACK_BASE + s.reg.sp, b)
  <2>1. InstructionSet!Slot(last.reg.sp - k) = STACK_BASE + Add8(last.reg.sp, -k)
    BY SlotsAre DEF StackCell
  <2>2. -k = d
    OBVIOUS
  <2> QED
    BY ONLY <1>3, <2>1, <2>2, SameMemory DEF InstructionSet!Pushed
<1>8. DataOK(push(s, b))
  BY <1>1, PushTyped
<1>9. push(s, b) = PathOf(Regs(last.reg.acc, last.reg.x, last.reg.y, Add8(last.reg.sp, d - 1), last.reg.status, a),
                          InstructionSet!Pushed(m, k, b), b, s.addr)
  BY ONLY <1>1, <1>4, <1>5, <1>6, <1>7
<1> QED
  BY ONLY <1>8, <1>9, PathHas DEF Pushing

\* Before the first of them.
LEMMA PushesStart ==
  ASSUME LastOK, NEW s, Reached(s, 1)
  PROVE  Pushing(s, 0, last.mem, Add16(last.reg.pc, 1))
<1>1. Add8(last.reg.sp, 0) = last.reg.sp
  BY LastHas, AddNone
<1>2. s.reg = WithPc(last.reg, Add16(last.reg.pc, 1))
  BY DEF Reached
<1> QED
  BY <1>1, <1>2 DEF Pushing, Reached, WithPc

\* The first, the second and the third.
LEMMA Pushes ==
  ASSUME LastOK, NEW m, NEW a, NEW s, NEW b \in Byte
  PROVE  /\ Pushing(s, 0, m, a) => Pushing(push(s, b), -1, InstructionSet!Pushed(m, 0, b), a)
         /\ Pushing(s, -1, m, a) => Pushing(push(s, b), -2, InstructionSet!Pushed(m, 1, b), a)
         /\ Pushing(s, -2, m, a) => Pushing(push(s, b), -3, InstructionSet!Pushed(m, 2, b), a)
<1> DEFINE k0 == 0  k1 == 1  k2 == 2
           d1 == -1  d2 == -2  d3 == -3
<1>1. k0 \in Int /\ k0 + k0 = 0 /\ k0 - 1 = d1
  OBVIOUS
<1>2. k1 \in Int /\ d1 \in Int /\ d1 + k1 = 0 /\ d1 - 1 = d2
  OBVIOUS
<1>3. k2 \in Int /\ d2 \in Int /\ d2 + k2 = 0 /\ d2 - 1 = d3
  OBVIOUS
<1> HIDE DEF k0, k1, k2, d1, d2, d3
<1>4. Pushing(s, k0, m, a) => Pushing(push(s, b), d1, InstructionSet!Pushed(m, k0, b), a)
  BY ONLY LastOK, <1>1, b \in Byte, PushStep
<1>5. Pushing(s, d1, m, a) => Pushing(push(s, b), d2, InstructionSet!Pushed(m, k1, b), a)
  BY ONLY LastOK, <1>2, b \in Byte, PushStep
<1>6. Pushing(s, d2, m, a) => Pushing(push(s, b), d3, InstructionSet!Pushed(m, k2, b), a)
  BY ONLY LastOK, <1>3, b \in Byte, PushStep
<1> QED
  BY ONLY <1>4, <1>5, <1>6 DEF k0, k1, k2, d1, d2, d3

\* PHA and PHP.
LEMMA PushDone ==
  ASSUME LastOK, NEW inst, inst.op \in {"PHA", "PHP"}, inst.addr_mode = "IMP", inst.cycle = 3, LengthOf(inst),
         NEW t, NEW n, Finishing(t, inst, n), Boundary(Retire(inst, LastStep(t, inst, n)), n + 2)
  PROVE  InstructionSet!Stack(inst)
<1> DEFINE u == LastStep(t, inst, n)
           b == Stored(inst.op, last.reg)
           p == InstructionSet!Past(inst)
<1>1. Len(Steps(inst)) = 2 /\ Steps(inst)[1] = "push" /\ Steps(inst)[2] = "idle"
  BY StackArms
<1>2. n + 1 = 2 /\ Reached(t[0], 1) /\ DataOK(t[0]) /\ n \in 0 .. 5 /\ t[1] = Step("push", inst, t[0]) /\ DataOK(t[1])
  <2>1. Len(Steps(inst)) \in Nat /\ \A j \in 1 .. Len(Steps(inst)) : Steps(inst)[j] # "branch"
    BY <1>1
  <2>3. inst.op \in {"PHA", "PHP", "PLA", "RTI", "RTS", "JSR"}
    OBVIOUS
  <2>2. /\ n + 1 = Len(Steps(inst)) /\ n \in 0 .. 5
        /\ Reached(t[0], 1)
        /\ \A j \in 0 .. n : DataOK(t[j])
        /\ \A j \in 0 .. n - 1 : t[j + 1] = Step(Steps(inst)[j + 1], inst, t[j])
    BY ONLY <2>1, <2>3, Finishing(t, inst, n), StackChain
  <2> QED
    BY ONLY <1>1, <2>2
<1>3. u = t[1]
  <2>1. n + 1 = 2 /\ n = 1
    BY <1>2
  <2>2. Step("idle", inst, t[1]) = t[1]
    BY <1>2, StackStepIs
  <2> QED
    BY ONLY <1>1, <2>1, <2>2 DEF LastStep, u
<1>4. b \in Byte
  BY StoredTyped DEF LastOK
<1>5. Stored(inst.op, t[0].reg) = b
  <2>1. t[0].reg = WithPc(last.reg, Add16(last.reg.pc, 1))
    BY <1>2 DEF Reached
  <2> QED
    BY <2>1, StoredIs
<1>6. t[1] = push(t[0], b)
  BY <1>2, <1>5, StackStepIs
<1>7. Pushing(t[0], 0, last.mem, Add16(last.reg.pc, 1))
  BY <1>2, PushesStart
<1> HIDE DEF b, u
<1>8. Pushing(t[1], -1, InstructionSet!Pushed(last.mem, 0, b), Add16(last.reg.pc, 1))
  <2> DEFINE s == t[0]  m == last.mem  a == Add16(last.reg.pc, 1)
  <2>1. t[1] = push(s, b) /\ Pushing(s, 0, m, a)
    BY ONLY <1>6, <1>7
  <2> HIDE DEF s, m, a
  <2>2. Pushing(push(s, b), -1, InstructionSet!Pushed(m, 0, b), a)
    BY ONLY LastOK, <1>4, <2>1, Pushes
  <2> QED
    BY ONLY <2>1, <2>2 DEF m, a
<1>9. Retire(inst, u) = u
  <2>1. Len(Steps(inst)) # 1
    BY <1>1
  <2> QED
    BY <2>1, StackRetires
<1>10. last'.reg = Regs(last.reg.acc, last.reg.x, last.reg.y, Add8(last.reg.sp, -1), last.reg.status, Add16(last.reg.pc, 1))
       /\ last'.mem = InstructionSet!Pushed(last.mem, 0, b) /\ took' = 3
  BY <1>2, <1>3, <1>8, <1>9, BoundaryHas DEF Pushing, u
<1>11. inst.inst_len = 1
  BY DEF LengthOf
<1>12. Behind(p) /\ p.pc = Add16(last.reg.pc, 1)
  <2>1. inst.inst_len \in Int
    BY <1>11
  <2> QED
    BY <1>11, <2>1, PastBehind, PastIs, ChangedHas
<1> HIDE DEF p
<1>13. InstructionSet!Set([sp |-> InstructionSet!Lo(last.reg.sp - 1)], p)
         = Regs(last.reg.acc, last.reg.x, last.reg.y, Add8(last.reg.sp, -1), last.reg.status, Add16(last.reg.pc, 1))
  <2>1. InstructionSet!Lo(last.reg.sp - 1) = Add8(last.reg.sp, -1)
    BY SlotsAre, 1 \in Int
  <2>2. \A c : InstructionSet!Set([sp |-> c], p) = Regs(p.acc, p.x, p.y, c, p.status, p.pc)
    BY ONLY <1>12, RegsSet DEF Behind
  <2> QED
    BY ONLY <1>12, <2>1, <2>2 DEF Behind
<1>14. b = IF inst.op = "PHA" THEN last.reg.acc ELSE InstructionSet!PackStatus(last.reg.status)
  <2>1. CASE inst.op = "PHA"
    BY <2>1 DEF Stored, b
  <2>2. CASE inst.op = "PHP"
    <3>1. InstructionSet!PackStatus(last.reg.status) = PackStatus(last.reg.status)
      BY SameStatus
    <3> QED
      BY ONLY <2>2, <3>1 DEF Stored, b
  <2> QED
    BY <2>1, <2>2
<1> QED
  BY ONLY <1>10, <1>13, <1>14, inst.op \in {"PHA", "PHP"}, inst.cycle = 3 DEF InstructionSet!Stack, p

\* The first, the second and the third byte from the stack.
LEMMA Pops ==
  ASSUME LastOK, NEW st, NEW s0, NEW s1
  PROVE  /\ Popped(s0, 0, st) /\ s1 = pop(s0) =>
              Popped(s1, 1, st) /\ s1.data = Read(last.mem, StackCell(1)) /\ s1.data \in Byte /\ s1.addr = s0.addr
         /\ Popped(s0, 1, st) /\ s1 = pop(s0) =>
              Popped(s1, 2, st) /\ s1.data = Read(last.mem, StackCell(2)) /\ s1.data \in Byte /\ s1.addr = s0.addr
         /\ Popped(s0, 2, st) /\ s1 = pop(s0) =>
              Popped(s1, 3, st) /\ s1.data = Read(last.mem, StackCell(3)) /\ s1.data \in Byte /\ s1.addr = s0.addr
<1> DEFINE k0 == 0  k1 == 1  k2 == 2  k3 == 3
<1>1. k0 \in Int /\ k1 \in Int /\ k2 \in Int /\ k0 + 1 = k1 /\ k1 + 1 = k2 /\ k2 + 1 = k3
  OBVIOUS
<1> HIDE DEF k0, k1, k2, k3
<1>2. \A k \in Int : Popped(s0, k, st) /\ s1 = pop(s0) =>
        Popped(s1, k + 1, st) /\ s1.data = Read(last.mem, StackCell(k + 1)) /\ s1.data \in Byte /\ s1.addr = s0.addr
  BY ONLY LastOK, PopStep
<1>3. /\ Popped(s0, k0, st) /\ s1 = pop(s0) =>
           Popped(s1, k1, st) /\ s1.data = Read(last.mem, StackCell(k1)) /\ s1.data \in Byte /\ s1.addr = s0.addr
      /\ Popped(s0, k1, st) /\ s1 = pop(s0) =>
           Popped(s1, k2, st) /\ s1.data = Read(last.mem, StackCell(k2)) /\ s1.data \in Byte /\ s1.addr = s0.addr
      /\ Popped(s0, k2, st) /\ s1 = pop(s0) =>
           Popped(s1, k3, st) /\ s1.data = Read(last.mem, StackCell(k3)) /\ s1.data \in Byte /\ s1.addr = s0.addr
  BY ONLY <1>1, <1>2
<1> QED
  BY ONLY <1>3 DEF k0, k1, k2, k3

\* What the instruction set finds on the stack, and where it leaves the stack pointer.
LEMMA StackTop ==
  ASSUME LastOK
  PROVE  /\ InstructionSet!Read(last.mem, InstructionSet!Slot(last.reg.sp + 1)) = Read(last.mem, StackCell(1))
         /\ InstructionSet!Read(last.mem, InstructionSet!Slot(last.reg.sp + 2)) = Read(last.mem, StackCell(2))
         /\ InstructionSet!Read(last.mem, InstructionSet!Slot(last.reg.sp + 3)) = Read(last.mem, StackCell(3))
         /\ InstructionSet!Lo(last.reg.sp + 1) = Add8(last.reg.sp, 1)
         /\ InstructionSet!Lo(last.reg.sp + 2) = Add8(last.reg.sp, 2)
         /\ InstructionSet!Lo(last.reg.sp + 3) = Add8(last.reg.sp, 3)
         /\ InstructionSet!Lo(last.reg.sp - 2) = Add8(last.reg.sp, -2)
         /\ InstructionSet!Lo(last.reg.sp - 3) = Add8(last.reg.sp, -3)
<1> DEFINE k1 == 1  k2 == 2  k3 == 3
<1>1. k1 \in Int /\ k2 \in Int /\ k3 \in Int
  OBVIOUS
<1> HIDE DEF k1, k2, k3
<1>2. /\ InstructionSet!Read(last.mem, InstructionSet!Slot(last.reg.sp + k1)) = Read(last.mem, StackCell(k1))
      /\ InstructionSet!Read(last.mem, InstructionSet!Slot(last.reg.sp + k2)) = Read(last.mem, StackCell(k2))
      /\ InstructionSet!Read(last.mem, InstructionSet!Slot(last.reg.sp + k3)) = Read(last.mem, StackCell(k3))
  BY ONLY <1>1, LastOK, SlotsAre, SameMemory
<1>3. /\ InstructionSet!Lo(last.reg.sp + k1) = Add8(last.reg.sp, k1)
      /\ InstructionSet!Lo(last.reg.sp + k2) = Add8(last.reg.sp, k2)
      /\ InstructionSet!Lo(last.reg.sp + k3) = Add8(last.reg.sp, k3)
      /\ InstructionSet!Lo(last.reg.sp - k2) = Add8(last.reg.sp, -k2)
      /\ InstructionSet!Lo(last.reg.sp - k3) = Add8(last.reg.sp, -k3)
  BY ONLY <1>1, LastOK, SlotsAre
<1>4. /\ InstructionSet!Read(last.mem, InstructionSet!Slot(last.reg.sp + 1)) = Read(last.mem, StackCell(1))
      /\ InstructionSet!Read(last.mem, InstructionSet!Slot(last.reg.sp + 2)) = Read(last.mem, StackCell(2))
      /\ InstructionSet!Read(last.mem, InstructionSet!Slot(last.reg.sp + 3)) = Read(last.mem, StackCell(3))
  BY ONLY <1>2 DEF k1, k2, k3
<1> QED
  BY ONLY <1>3, <1>4 DEF k1, k2, k3

\* PLA.
LEMMA PullDone ==
  ASSUME LastOK, NEW inst, inst.op = "PLA", inst.addr_mode = "IMP", inst.cycle = 4, LengthOf(inst),
         NEW t, NEW n, Finishing(t, inst, n), Boundary(Retire(inst, LastStep(t, inst, n)), n + 2)
  PROVE  InstructionSet!Stack(inst)
<1> DEFINE u == LastStep(t, inst, n)
           below == Read(last.mem, StackCell(1))
           p == InstructionSet!Past(inst)
           f == SetNZ(last.reg.status, below)
<1>1. Len(Steps(inst)) = 3 /\ Steps(inst)[1] = "pop" /\ Steps(inst)[2] = "idle" /\ Steps(inst)[3] = "idle"
  BY StackArms
<1>2. n = 2 /\ Reached(t[0], 1) /\ t[1] = pop(t[0]) /\ u = t[1] /\ DataOK(t[1])
  <2>1. Len(Steps(inst)) \in Nat /\ \A j \in 1 .. Len(Steps(inst)) : Steps(inst)[j] # "branch"
    BY <1>1
  <2>2. inst.op \in {"PHA", "PHP", "PLA", "RTI", "RTS", "JSR"}
    OBVIOUS
  <2>3. /\ n + 1 = Len(Steps(inst)) /\ n \in 0 .. 5
        /\ Reached(t[0], 1)
        /\ \A j \in 0 .. n : DataOK(t[j])
        /\ \A j \in 0 .. n - 1 : t[j + 1] = Step(Steps(inst)[j + 1], inst, t[j])
    BY ONLY <2>1, <2>2, Finishing(t, inst, n), StackChain
  <2>4. n = 2
    BY ONLY <1>1, <2>3
  <2>5. DataOK(t[0]) /\ DataOK(t[1]) /\ DataOK(t[2])
        /\ t[1] = Step("pop", inst, t[0]) /\ t[2] = Step("idle", inst, t[1]) /\ u = Step("idle", inst, t[2])
    BY ONLY <1>1, <2>3, <2>4 DEF LastStep, u
  <2> QED
    BY <2>3, <2>4, <2>5, StackStepIs
<1>3. Popped(u, 1, last.reg.status) /\ u.data = below /\ below \in Byte
  BY <1>2, PopsStart, Pops
<1> HIDE DEF u, below
<1>4. Retire(inst, u) = [u EXCEPT !.reg = Pulled(inst.op, u.reg, u.data)]
  <2>1. inst.op \notin LoadOps /\ inst.op \notin ModifyOps /\ inst.op # "JMP"
    BY DEF LoadOps, ModifyOps
  <2>2. Steps(inst) # <<"idle">>
    BY <1>1
  <2> QED
    BY ONLY <2>1, <2>2, inst.op = "PLA", RetireCases
<1>5. u.reg = Regs(last.reg.acc, last.reg.x, last.reg.y, Add8(last.reg.sp, 1), last.reg.status, Add16(last.reg.pc, 1))
      /\ u.mem = last.mem /\ DataOK(u) /\ u.reg \in Register
  BY <1>3 DEF Popped, DataOK
<1>6. Pulled(inst.op, u.reg, u.data) = Regs(below, last.reg.x, last.reg.y, Add8(last.reg.sp, 1), f, Add16(last.reg.pc, 1))
  <2>1. SetAcc(u.reg, below) = Regs(below, u.reg.x, u.reg.y, u.reg.sp, SetNZ(u.reg.status, below), u.reg.pc)
    BY ONLY <1>5, SetsAre
  <2> QED
    <3>1. Pulled(inst.op, u.reg, u.data) = SetAcc(u.reg, below)
      BY ONLY <1>3, inst.op = "PLA" DEF Pulled
    <3>2. u.reg.x = last.reg.x /\ u.reg.y = last.reg.y /\ u.reg.sp = Add8(last.reg.sp, 1)
          /\ u.reg.status = last.reg.status /\ u.reg.pc = Add16(last.reg.pc, 1)
      BY ONLY <1>5, RegsHave
    <3> QED
      BY ONLY <2>1, <3>1, <3>2 DEF f
<1> HIDE DEF f
<1>7. Retire(inst, u) = PathOf(Regs(below, last.reg.x, last.reg.y, Add8(last.reg.sp, 1), f, Add16(last.reg.pc, 1)),
                               last.mem, u.data, u.addr)
  <2>1. \A r : [u EXCEPT !.reg = r] = PathOf(r, u.mem, u.data, u.addr)
    BY ONLY <1>5, PathSet
  <2> QED
    BY ONLY <1>4, <1>5, <1>6, <2>1
<1>8. last'.reg = Regs(below, last.reg.x, last.reg.y, Add8(last.reg.sp, 1), f, Add16(last.reg.pc, 1))
      /\ last'.mem = last.mem /\ took' = 4
  BY <1>2, <1>7, BoundaryHas, PathHas DEF u
<1>9. inst.inst_len = 1
  BY DEF LengthOf
<1>10. Behind(p) /\ p.pc = Add16(last.reg.pc, 1)
  <2>1. inst.inst_len \in Int
    BY <1>9
  <2> QED
    BY <1>9, <2>1, PastBehind, PastIs, ChangedHas
<1> HIDE DEF p
<1>11. InstructionSet!Set([sp |-> InstructionSet!Lo(last.reg.sp + 1), acc |-> below,
                           status |-> InstructionSet!Flagged(InstructionSet!NZ, InstructionSet!Flags(below))], p)
         = Regs(below, last.reg.x, last.reg.y, Add8(last.reg.sp, 1), f, Add16(last.reg.pc, 1))
  <2>1. InstructionSet!Lo(last.reg.sp + 1) = Add8(last.reg.sp, 1)
    BY StackTop
  <2>2. \A b, c, g : InstructionSet!Set([sp |-> c, acc |-> b, status |-> g], p) = Regs(b, p.x, p.y, c, g, p.pc)
    BY ONLY <1>10, RegsSet DEF Behind
  <2>3. InstructionSet!Flagged(InstructionSet!NZ, InstructionSet!Flags(below)) = f
    BY ONLY <1>3, FlagsSet DEF f, InstructionSet!Flagged, InstructionSet!NZ
  <2> QED
    BY ONLY <1>10, <2>1, <2>2, <2>3 DEF Behind
<1>12. InstructionSet!Read(last.mem, InstructionSet!Slot(last.reg.sp + 1)) = below
  BY StackTop DEF below
<1> QED
  BY ONLY <1>8, <1>11, <1>12, inst.op = "PLA", inst.cycle = 4 DEF InstructionSet!Stack, p

\* Two and three registers changed.
SpAndPc(r, b, a)          == [r EXCEPT !.sp = b, !.pc = a]
StatusAndPc(r, f, a)      == [r EXCEPT !.status = f, !.pc = a]
SpStatusAndPc(r, b, f, a) == [r EXCEPT !.sp = b, !.status = f, !.pc = a]

\* They are lists of registers as well.
LEMMA ManyChanged ==
  ASSUME NEW r \in Register, NEW b, NEW f, NEW a
  PROVE  /\ SpAndPc(r, b, a) = Regs(r.acc, r.x, r.y, b, r.status, a)
         /\ StatusAndPc(r, f, a) = Regs(r.acc, r.x, r.y, r.sp, f, a)
         /\ SpStatusAndPc(r, b, f, a) = Regs(r.acc, r.x, r.y, b, f, a)
<1> DEFINE s == [r EXCEPT !.sp = b]
           q == [r EXCEPT !.status = f]
           w == [s EXCEPT !.status = f]
<1>1. /\ SpAndPc(r, b, a) = [s EXCEPT !.pc = a]
      /\ StatusAndPc(r, f, a) = [q EXCEPT !.pc = a]
      /\ SpStatusAndPc(r, b, f, a) = [w EXCEPT !.pc = a]
  BY Zenon DEF SpAndPc, StatusAndPc, SpStatusAndPc
<1>2. s = Regs(r.acc, r.x, r.y, b, r.status, r.pc) /\ q = Regs(r.acc, r.x, r.y, r.sp, f, r.pc)
  BY DEF Register, Regs
<1> HIDE DEF s, q
<1>3. w = Regs(r.acc, r.x, r.y, b, f, r.pc)
  BY ONLY <1>2 DEF Regs
<1> HIDE DEF w
<1>4. [s EXCEPT !.pc = a] = Regs(r.acc, r.x, r.y, b, r.status, a)
  BY ONLY <1>2 DEF Regs
<1>5. [q EXCEPT !.pc = a] = Regs(r.acc, r.x, r.y, r.sp, f, a)
  BY ONLY <1>2 DEF Regs
<1>6. [w EXCEPT !.pc = a] = Regs(r.acc, r.x, r.y, b, f, a)
  BY ONLY <1>3 DEF Regs
<1> QED
  BY ONLY <1>1, <1>4, <1>5, <1>6

\* A status or an address put beside what has been popped.
LEMMA PoppedWith ==
  ASSUME NEW s, NEW k, NEW st, Popped(s, k, st)
  PROVE  /\ \A g \in SUBSET Flag : Popped(PathOf(WithStatus(s.reg, g), s.mem, s.data, s.addr), k, g)
         /\ \A a \in Address : LET w == PathOf(s.reg, s.mem, s.data, a)
                               IN  Popped(w, k, st) /\ w.data = s.data /\ w.addr = a
<1>1. DataOK(s) /\ s.mem = last.mem
      /\ s.reg = Regs(last.reg.acc, last.reg.x, last.reg.y, Add8(last.reg.sp, k), st, Add16(last.reg.pc, 1))
  BY DEF Popped
<1>2. ASSUME NEW g \in SUBSET Flag
      PROVE  Popped(PathOf(WithStatus(s.reg, g), s.mem, s.data, s.addr), k, g)
  <2>1. WithStatus(s.reg, g)
          = Regs(last.reg.acc, last.reg.x, last.reg.y, Add8(last.reg.sp, k), g, Add16(last.reg.pc, 1))
    BY ONLY <1>1, RegsHave DEF WithStatus
  <2>2. [s EXCEPT !.reg.status = g] = PathOf(WithStatus(s.reg, g), s.mem, s.data, s.addr)
    BY <1>1, PathReg
  <2>3. DataOK([s EXCEPT !.reg.status = g])
    BY <1>1, DataReg
  <2>4. DataOK(PathOf(WithStatus(s.reg, g), s.mem, s.data, s.addr))
    BY ONLY <2>2, <2>3
  <2> QED
    BY ONLY <1>1, <2>1, <2>4, PathHas DEF Popped
<1>3. ASSUME NEW a \in Address
      PROVE  LET w == PathOf(s.reg, s.mem, s.data, a)
             IN  Popped(w, k, st) /\ w.data = s.data /\ w.addr = a
  <2>1. [s EXCEPT !.addr = a] = PathOf(s.reg, s.mem, s.data, a)
    BY <1>1, PathSet
  <2>2. DataOK([s EXCEPT !.addr = a])
    BY <1>1, DataSet
  <2>3. DataOK(PathOf(s.reg, s.mem, s.data, a))
    BY ONLY <2>1, <2>2
  <2> QED
    BY ONLY <1>1, <2>3, PathHas DEF Popped
<1> QED
  BY <1>2, <1>3

\* RTS.
LEMMA ReturnDone ==
  ASSUME LastOK, NEW inst, inst.op = "RTS", inst.cycle = 6,
         NEW t, NEW n, Finishing(t, inst, n), Boundary(Retire(inst, LastStep(t, inst, n)), n + 2)
  PROVE  InstructionSet!Stack(inst)
<1> DEFINE u == LastStep(t, inst, n)
           b1 == Read(last.mem, StackCell(1))
           b2 == Read(last.mem, StackCell(2))
           st == last.reg.status
<1>1. Len(Steps(inst)) = 5 /\ Steps(inst)[1] = "pop" /\ Steps(inst)[2] = "addr" /\ Steps(inst)[3] = "pop"
      /\ Steps(inst)[4] = "join" /\ Steps(inst)[5] = "jump+1"
  BY StackArms
<1>2. n = 4 /\ Reached(t[0], 1) /\ DataOK(t[0]) /\ DataOK(t[1]) /\ DataOK(t[2]) /\ DataOK(t[3]) /\ DataOK(t[4])
      /\ t[1] = Step("pop", inst, t[0]) /\ t[2] = Step("addr", inst, t[1]) /\ t[3] = Step("pop", inst, t[2])
      /\ t[4] = Step("join", inst, t[3]) /\ u = Step("jump+1", inst, t[4])
  <2>1. Len(Steps(inst)) \in Nat /\ \A j \in 1 .. Len(Steps(inst)) : Steps(inst)[j] # "branch"
    BY <1>1
  <2>2. inst.op \in {"PHA", "PHP", "PLA", "RTI", "RTS", "JSR"}
    OBVIOUS
  <2>3. /\ n + 1 = Len(Steps(inst)) /\ n \in 0 .. 5
        /\ Reached(t[0], 1)
        /\ \A j \in 0 .. n : DataOK(t[j])
        /\ \A j \in 0 .. n - 1 : t[j + 1] = Step(Steps(inst)[j + 1], inst, t[j])
    BY ONLY <2>1, <2>2, Finishing(t, inst, n), StackChain
  <2>4. n = 4
    BY ONLY <1>1, <2>3
  <2> QED
    BY ONLY <1>1, <2>3, <2>4 DEF LastStep, u
<1> HIDE DEF u
<1>3. Popped(t[1], 1, st) /\ t[1].data = b1 /\ b1 \in Byte
  <2>1. t[1] = pop(t[0])
    BY <1>2, StackStepIs
  <2> QED
    BY <1>2, <2>1, PopsStart, Pops
<1>4. Popped(t[2], 1, st) /\ t[2].addr = b1
  <2>1. t[2] = PathOf(t[1].reg, t[1].mem, t[1].data, t[1].data)
    BY <1>2, StackStepIs
  <2>2. b1 \in Address
    BY <1>3, ByteIsAddress
  <2> HIDE DEF b1
  <2> QED
    BY ONLY <1>3, <2>1, <2>2, PoppedWith
<1>5. Popped(t[3], 2, st) /\ t[3].data = b2 /\ b2 \in Byte /\ t[3].addr = b1
  <2>1. t[3] = pop(t[2])
    BY <1>2, StackStepIs
  <2> QED
    BY <1>4, <2>1, Pops
<1> HIDE DEF b1, b2
<1>6. Popped(t[4], 2, st) /\ t[4].addr = Word(b1, b2)
  <2>1. t[4] = PathOf(t[3].reg, t[3].mem, t[3].data, Word(Lo(t[3].addr), t[3].data))
    BY <1>2, StackStepIs
  <2>2. Lo(b1) = b1
    BY <1>3, AddNone
  <2>3. Word(b1, b2) \in Address
    BY <1>3, <1>5, WordTyped
  <2> QED
    BY ONLY <1>5, <2>1, <2>2, <2>3, PoppedWith
<1>7. u = PathOf(WithPc(t[4].reg, Add16(Word(b1, b2), 1)), t[4].mem, t[4].data, t[4].addr)
  BY <1>2, <1>6, PcStepIs
<1>8. Retire(inst, u) = u
  <2>1. Len(Steps(inst)) # 1
    BY <1>1
  <2> QED
    BY <2>1, StackRetires
<1>9. last'.reg = WithPc(t[4].reg, Add16(Word(b1, b2), 1)) /\ last'.mem = last.mem /\ took' = 6
  BY <1>2, <1>6, <1>7, <1>8, BoundaryHas, PathHas DEF Popped, u
<1>10. last'.reg = Regs(last.reg.acc, last.reg.x, last.reg.y, Add8(last.reg.sp, 2), st, Add16(Word(b1, b2), 1))
  BY ONLY <1>6, <1>9, RegsHave DEF Popped, WithPc
<1>11. InstructionSet!Word(InstructionSet!Read(last.mem, InstructionSet!Slot(last.reg.sp + 1)),
                           InstructionSet!Read(last.mem, InstructionSet!Slot(last.reg.sp + 2))) = Word(b1, b2)
       /\ InstructionSet!Lo(last.reg.sp + 2) = Add8(last.reg.sp, 2)
  BY StackTop, SameNumbers DEF b1, b2
<1>12. InstructionSet!Add16(Word(b1, b2), 1) = Add16(Word(b1, b2), 1)
  BY SameNumbers
<1>13. SpAndPc(last.reg, Add8(last.reg.sp, 2), Add16(Word(b1, b2), 1))
         = Regs(last.reg.acc, last.reg.x, last.reg.y, Add8(last.reg.sp, 2), st, Add16(Word(b1, b2), 1))
  BY ManyChanged DEF LastOK
<1>14. last'.reg = SpAndPc(last.reg, InstructionSet!Lo(last.reg.sp + 2),
          InstructionSet!Add16(InstructionSet!Word(InstructionSet!Read(last.mem, InstructionSet!Slot(last.reg.sp + 1)),
                           InstructionSet!Read(last.mem, InstructionSet!Slot(last.reg.sp + 2))), 1))
  BY ONLY <1>10, <1>11, <1>12, <1>13
<1> QED
  BY ONLY <1>9, <1>14, inst.op = "RTS", inst.cycle = 6 DEF InstructionSet!Stack, SpAndPc

\* RTI.
LEMMA ReturnInterruptDone ==
  ASSUME LastOK, NEW inst, inst.op = "RTI", inst.cycle = 6,
         NEW t, NEW n, Finishing(t, inst, n), Boundary(Retire(inst, LastStep(t, inst, n)), n + 2)
  PROVE  InstructionSet!Stack(inst)
<1> DEFINE u == LastStep(t, inst, n)
           b1 == Read(last.mem, StackCell(1))
           b2 == Read(last.mem, StackCell(2))
           b3 == Read(last.mem, StackCell(3))
           st == UnpackStatus(b1)
<1>1. Len(Steps(inst)) = 5 /\ Steps(inst)[1] = "pop" /\ Steps(inst)[2] = "pop_status" /\ Steps(inst)[3] = "pop_addr"
      /\ Steps(inst)[4] = "join" /\ Steps(inst)[5] = "jump"
  BY StackArms
<1>2. n = 4 /\ Reached(t[0], 1) /\ DataOK(t[0]) /\ DataOK(t[1]) /\ DataOK(t[2]) /\ DataOK(t[3]) /\ DataOK(t[4])
      /\ t[1] = Step("pop", inst, t[0]) /\ t[2] = Step("pop_status", inst, t[1])
      /\ t[3] = Step("pop_addr", inst, t[2])
      /\ t[4] = Step("join", inst, t[3]) /\ u = Step("jump", inst, t[4])
  <2>1. Len(Steps(inst)) \in Nat /\ \A j \in 1 .. Len(Steps(inst)) : Steps(inst)[j] # "branch"
    BY <1>1
  <2>2. inst.op \in {"PHA", "PHP", "PLA", "RTI", "RTS", "JSR"}
    OBVIOUS
  <2>3. /\ n + 1 = Len(Steps(inst)) /\ n \in 0 .. 5
        /\ Reached(t[0], 1)
        /\ \A j \in 0 .. n : DataOK(t[j])
        /\ \A j \in 0 .. n - 1 : t[j + 1] = Step(Steps(inst)[j + 1], inst, t[j])
    BY ONLY <2>1, <2>2, Finishing(t, inst, n), StackChain
  <2>4. n = 4
    BY ONLY <1>1, <2>3
  <2> QED
    BY ONLY <1>1, <2>3, <2>4 DEF LastStep, u
<1> HIDE DEF u
<1>3. Popped(t[1], 1, last.reg.status) /\ t[1].data = b1 /\ b1 \in Byte
  <2>1. t[1] = pop(t[0])
    BY <1>2, StackStepIs
  <2> QED
    BY <1>2, <2>1, PopsStart, Pops
<1>4. Popped(t[2], 2, st) /\ t[2].data = b2 /\ b2 \in Byte
  <2> DEFINE w == PathOf(WithStatus(t[1].reg, st), t[1].mem, t[1].data, t[1].addr)
  <2>1. t[2] = pop(w)
    BY <1>2, <1>3, StackStepIs
  <2>2. st \in SUBSET Flag
    BY StatusByte
  <2> HIDE DEF b1, st
  <2>3. Popped(w, 1, st)
    BY ONLY <1>3, <2>2, PoppedWith
  <2> HIDE DEF w
  <2> QED
    BY ONLY LastOK, <2>1, <2>3, Pops DEF b2
<1>5. Popped(t[3], 3, st) /\ t[3].data = b3 /\ b3 \in Byte /\ t[3].addr = b2
  <2> DEFINE w == PathOf(t[2].reg, t[2].mem, t[2].data, t[2].data)
  <2>1. t[3] = pop(w)
    BY <1>2, <1>4, StackStepIs
  <2>2. b2 \in Address
    BY <1>4, ByteIsAddress
  <2> HIDE DEF b1, b2, st
  <2>3. Popped(w, 2, st) /\ w.addr = b2
    BY ONLY <1>4, <2>2, PoppedWith
  <2> HIDE DEF w
  <2> QED
    BY ONLY LastOK, <2>1, <2>3, Pops DEF b3
<1> HIDE DEF b1, b2, b3, st
<1>6. Popped(t[4], 3, st) /\ t[4].addr = Word(b2, b3)
  <2>1. t[4] = PathOf(t[3].reg, t[3].mem, t[3].data, Word(Lo(t[3].addr), t[3].data))
    BY <1>2, StackStepIs
  <2>2. Lo(b2) = b2
    BY <1>4, AddNone
  <2>3. Word(b2, b3) \in Address
    BY <1>4, <1>5, WordTyped
  <2> QED
    BY ONLY <1>5, <2>1, <2>2, <2>3, PoppedWith
<1>7. u = PathOf(WithPc(t[4].reg, Word(b2, b3)), t[4].mem, t[4].data, t[4].addr)
  BY <1>2, <1>6, PcStepIs
<1>8. Retire(inst, u) = u
  <2>1. Len(Steps(inst)) # 1
    BY <1>1
  <2> QED
    BY <2>1, StackRetires
<1>9. last'.reg = WithPc(t[4].reg, Word(b2, b3)) /\ last'.mem = last.mem /\ took' = 6
  BY <1>2, <1>6, <1>7, <1>8, BoundaryHas, PathHas DEF Popped, u
<1>10. last'.reg = Regs(last.reg.acc, last.reg.x, last.reg.y, Add8(last.reg.sp, 3), st, Word(b2, b3))
  BY ONLY <1>6, <1>9, RegsHave DEF Popped, WithPc
<1>11. /\ InstructionSet!Word(InstructionSet!Read(last.mem, InstructionSet!Slot(last.reg.sp + 2)),
                              InstructionSet!Read(last.mem, InstructionSet!Slot(last.reg.sp + 3))) = Word(b2, b3)
       /\ InstructionSet!Lo(last.reg.sp + 3) = Add8(last.reg.sp, 3)
  BY StackTop, SameNumbers DEF b2, b3
<1>12. InstructionSet!UnpackStatus(InstructionSet!Read(last.mem, InstructionSet!Slot(last.reg.sp + 1))) = st
  BY StackTop, SameStatus DEF b1, st
<1>13. SpStatusAndPc(last.reg, Add8(last.reg.sp, 3), st, Word(b2, b3))
         = Regs(last.reg.acc, last.reg.x, last.reg.y, Add8(last.reg.sp, 3), st, Word(b2, b3))
  BY ManyChanged DEF LastOK
<1>14. last'.reg = SpStatusAndPc(last.reg, InstructionSet!Lo(last.reg.sp + 3),
          InstructionSet!UnpackStatus(InstructionSet!Read(last.mem, InstructionSet!Slot(last.reg.sp + 1))),
          InstructionSet!Word(InstructionSet!Read(last.mem, InstructionSet!Slot(last.reg.sp + 2)),
                              InstructionSet!Read(last.mem, InstructionSet!Slot(last.reg.sp + 3))))
  BY ONLY <1>10, <1>11, <1>12, <1>13
<1> QED
  BY ONLY <1>9, <1>14, inst.op = "RTI", inst.cycle = 6 DEF InstructionSet!Stack, SpStatusAndPc

\* PLP sets and clears its two flags after each of its cycles.
LEMMA FixedFunc ==
  ASSUME NEW inst, inst.op = "PLP", NEW i, NEW s, NEW u, DataOK(u),
         \/ ~ExecDone(i, inst, s) /\ u = Step(Steps(inst)[i + 1], inst, s)
         \/ ExecDone(i, inst, s) /\ u = Retire(inst, Step(Steps(inst)[i + 1], inst, s))
  PROVE  Func(i, inst, s) = PathOf(WithStatus(u.reg, FixStatus(u.reg.status)), u.mem, u.data, u.addr)
<1>1. Func(i, inst, s) = [u EXCEPT !.reg.status = FixStatus(u.reg.status)]
  BY DEF Func
<1> QED
  BY ONLY <1>1, DataOK(u), PathReg

\* A status fixed after a cycle of PLP.
LEMMA FixedPop ==
  ASSUME NEW inst, inst.op = "PLP", NEW i, NEW s, NEW k, NEW st, NEW u, Popped(u, k, st),
         \/ ~ExecDone(i, inst, s) /\ u = Step(Steps(inst)[i + 1], inst, s)
         \/ ExecDone(i, inst, s) /\ u = Retire(inst, Step(Steps(inst)[i + 1], inst, s))
  PROVE  LET w == Func(i, inst, s)
         IN  Popped(w, k, FixStatus(st)) /\ w.data = u.data
<1>0. st \in SUBSET Flag
  <2>1. DataOK(u) /\ u.reg.status = st
    BY RegsHave DEF Popped
  <2> QED
    BY <2>1, DataHas
<1>1. DataOK(u) /\ u.reg.status = st
  BY RegsHave DEF Popped
<1>2. Func(i, inst, s) = PathOf(WithStatus(u.reg, FixStatus(st)), u.mem, u.data, u.addr)
  BY <1>1, FixedFunc
<1>3. FixStatus(st) \in SUBSET Flag
  BY <1>0, StatusByte
<1>4. Popped(PathOf(WithStatus(u.reg, FixStatus(st)), u.mem, u.data, u.addr), k, FixStatus(st))
  BY <1>3, PoppedWith
<1> QED
  BY ONLY <1>2, <1>3, <1>4, PathHas

\* PLP.
LEMMA PullStatusDone ==
  ASSUME LastOK, NEW inst, inst.op = "PLP", inst.addr_mode = "IMP", inst.cycle = 4, LengthOf(inst),
         NEW t, NEW n, Finishing(t, inst, n), Boundary(Func(n, inst, t[n]), n + 2)
  PROVE  InstructionSet!Stack(inst)
<1> DEFINE below == Read(last.mem, StackCell(1))
           p == InstructionSet!Past(inst)
           f == FixStatus(UnpackStatus(below))
           g == FixStatus(FixStatus(last.reg.status))
           r == Regs(last.reg.acc, last.reg.x, last.reg.y, Add8(last.reg.sp, 1), f, Add16(last.reg.pc, 1))
<1>1. Len(Steps(inst)) = 3 /\ Steps(inst)[1] = "pop" /\ Steps(inst)[2] = "idle" /\ Steps(inst)[3] = "idle"
  BY StackArms
<1>2. /\ n = 2 /\ Reached(t[0], 1)
      /\ ~ExecDone(0, inst, t[0]) /\ ~ExecDone(1, inst, t[1]) /\ ExecDone(2, inst, t[2])
      /\ DataOK(t[0]) /\ DataOK(t[1]) /\ DataOK(t[2])
      /\ t[1] = Func(0, inst, t[0]) /\ t[2] = Func(1, inst, t[1])
  <2>1. n \in 0 .. 5 /\ n < Len(Steps(inst)) /\ ExecDone(n, inst, t[n])
        /\ Reached(t[0], 1) /\ (\A j \in 0 .. n : DataOK(t[j]))
        /\ \A j \in 0 .. n - 1 : ~ExecDone(j, inst, t[j]) /\ t[j + 1] = Func(j, inst, t[j])
    BY DEF Finishing, Chain
  <2>2. inst.op \notin LoadOps /\ inst.op \notin BranchOps
    BY DEF LoadOps, BranchOps
  <2>3. Steps(inst)[n + 1] # "branch"
    BY <1>1, <2>1
  <2>4. n + 1 = Len(Steps(inst))
    BY <2>2, <2>3, EndsLast
  <2>5. n = 2
    BY ONLY <1>1, <2>1, <2>4
  <2> QED
    BY ONLY <2>1, <2>5
<1>3. Popped(t[1], 1, FixStatus(last.reg.status)) /\ t[1].data = below
  <2> DEFINE u == pop(t[0])
  <2>1. Popped(u, 1, last.reg.status) /\ u.data = below
    BY <1>2, PopsStart, Pops
  <2>3. u = Step(Steps(inst)[0 + 1], inst, t[0])
    BY <1>1, <1>2, StackStepIs
  <2> HIDE DEF u, below
  <2> DEFINE z == 0
  <2>4. u = Step(Steps(inst)[z + 1], inst, t[0]) /\ ~ExecDone(z, inst, t[0]) /\ t[1] = Func(z, inst, t[0])
    BY ONLY <1>2, <2>3
  <2> HIDE DEF z
  <2>5. LET w == Func(z, inst, t[0])
        IN  Popped(w, 1, FixStatus(last.reg.status)) /\ w.data = u.data
    BY ONLY <2>1, <2>4, inst.op = "PLP", FixedPop
  <2> QED
    BY ONLY <2>1, <2>4, <2>5
<1>4. Popped(t[2], 1, g) /\ t[2].data = below
  <2>1. t[1] = Step(Steps(inst)[1 + 1], inst, t[1])
    BY <1>1, <1>2, StackStepIs
  <2> HIDE DEF below
  <2> DEFINE z == 1
  <2>2. t[1] = Step(Steps(inst)[z + 1], inst, t[1]) /\ ~ExecDone(z, inst, t[1]) /\ t[2] = Func(z, inst, t[1])
    BY ONLY <1>2, <2>1
  <2> HIDE DEF z
  <2>3. LET w == Func(z, inst, t[1])
        IN  Popped(w, 1, g) /\ w.data = t[1].data
    BY ONLY <1>3, <2>2, inst.op = "PLP", FixedPop
  <2> QED
    BY ONLY <1>3, <2>2, <2>3
<1> HIDE DEF g
<1>5. below \in Byte
  BY <1>2, <1>4, DataHas
<1> HIDE DEF below
<1>6. Popped(Retire(inst, t[2]), 1, UnpackStatus(below))
  <2>1. inst.op \notin LoadOps /\ inst.op \notin ModifyOps /\ inst.op # "JMP"
    BY DEF LoadOps, ModifyOps
  <2>2. Steps(inst) # <<"idle">>
    BY <1>1
  <2>3. Retire(inst, t[2]) = [t[2] EXCEPT !.reg = Pulled(inst.op, t[2].reg, t[2].data)]
    BY ONLY <2>1, <2>2, inst.op = "PLP", RetireCases
  <2>4. UnpackStatus(below) \in SUBSET Flag
    BY StatusByte
  <2>5. DataOK(t[2]) /\ t[2].reg \in Register
    BY <1>2 DEF DataOK
  <2>6. Pulled(inst.op, t[2].reg, t[2].data) = WithStatus(t[2].reg, UnpackStatus(below))
    <3>1. Pulled(inst.op, t[2].reg, t[2].data) = [t[2].reg EXCEPT !.status = UnpackStatus(below)]
      BY ONLY <1>4, inst.op = "PLP" DEF Pulled
    <3>2. \A s : [t[2].reg EXCEPT !.status = s] = WithStatus(t[2].reg, s)
      BY ONLY <2>5, OneChanged
    <3> QED
      BY ONLY <3>1, <3>2
  <2>7. Retire(inst, t[2]) = PathOf(WithStatus(t[2].reg, UnpackStatus(below)), t[2].mem, t[2].data, t[2].addr)
    <3>1. \A s : [t[2] EXCEPT !.reg = s] = PathOf(s, t[2].mem, t[2].data, t[2].addr)
      BY ONLY <2>5, PathSet
    <3> QED
      BY ONLY <2>3, <2>6, <3>1
  <2> QED
    BY ONLY <1>4, <2>4, <2>7, PoppedWith
<1>7. Popped(Func(2, inst, t[2]), 1, f)
  <2> DEFINE u == Retire(inst, t[2])
  <2>1. t[2] = Step(Steps(inst)[2 + 1], inst, t[2])
    BY <1>1, <1>2, StackStepIs
  <2> DEFINE z == 2
  <2>2. u = Retire(inst, Step(Steps(inst)[z + 1], inst, t[2])) /\ ExecDone(z, inst, t[2])
    BY ONLY <1>2, <2>1
  <2> HIDE DEF z, u
  <2>3. Popped(Func(z, inst, t[2]), 1, FixStatus(UnpackStatus(below)))
    BY ONLY <1>6, <2>2, inst.op = "PLP", FixedPop DEF u
  <2> QED
    BY ONLY <2>3 DEF z
<1> HIDE DEF f
<1>8. last'.reg = r /\ last'.mem = last.mem /\ took' = 4
  <2>1. Func(2, inst, t[2]).reg = r /\ Func(2, inst, t[2]).mem = last.mem
    BY ONLY <1>7 DEF Popped
  <2>2. Boundary(Func(2, inst, t[2]), 4)
    BY ONLY <1>2, Boundary(Func(n, inst, t[n]), n + 2)
  <2> QED
    BY ONLY <2>1, <2>2, BoundaryHas
<1>9. inst.inst_len = 1
  BY DEF LengthOf
<1>10. Behind(p) /\ p.pc = Add16(last.reg.pc, 1)
  <2>1. inst.inst_len \in Int
    BY <1>9
  <2> QED
    BY <1>9, <2>1, PastBehind, PastIs, ChangedHas
<1> HIDE DEF p
<1>11. f = (UnpackStatus(below) \ {"decimal"}) \cup {"researved"}
  BY ONLY DEF f, FixStatus
<1>12. InstructionSet!Read(last.mem, InstructionSet!Slot(last.reg.sp + 1)) = below
       /\ InstructionSet!Lo(last.reg.sp + 1) = Add8(last.reg.sp, 1)
       /\ InstructionSet!UnpackStatus(below) = UnpackStatus(below)
  BY StackTop, SameStatus DEF below
<1>13. InstructionSet!Set([sp |-> InstructionSet!Lo(last.reg.sp + 1),
                           status |-> (InstructionSet!UnpackStatus(below) \ {"decimal"}) \cup {"researved"}], p) = r
  <2>1. \A c, h : InstructionSet!Set([sp |-> c, status |-> h], p) = Regs(p.acc, p.x, p.y, c, h, p.pc)
    BY ONLY <1>10, RegsSet DEF Behind
  <2> QED
    BY ONLY <1>10, <1>11, <1>12, <2>1 DEF Behind
<1> HIDE DEF r
<1> QED
  BY ONLY <1>8, <1>12, <1>13, inst.op = "PLP", inst.cycle = 4 DEF InstructionSet!Stack, p

-----------------------------------------------------------------------------
(* JSR. *)

\* The steps of JSR behind its pushes read the address from the memory m they have written.
LEMMA CallSteps ==
  ASSUME LastOK, NEW inst, NEW m, NEW s0, NEW s1, NEW s2, NEW s3,
         Pushing(s0, -2, m, Add16(last.reg.pc, 1)),
         s1 = Step("pc_lo", inst, s0), s2 = Step("pc_hi", inst, s1), s3 = Step("jump", inst, s2)
  PROVE  /\ s3.mem = m
         /\ s3.reg = Regs(last.reg.acc, last.reg.x, last.reg.y, Add8(last.reg.sp, -2), last.reg.status,
                          Word(Read(m, Add16(last.reg.pc, 1)), Read(m, Add16(last.reg.pc, 2))))
<1> DEFINE q(a) == Regs(last.reg.acc, last.reg.x, last.reg.y, Add8(last.reg.sp, -2), last.reg.status, a)
           a1 == Add16(last.reg.pc, 1)
           a2 == Add16(last.reg.pc, 2)
           lo == Read(m, a1)
           hi == Read(m, a2)
<1>1. DataOK(s0) /\ s0.mem = m /\ s0.reg = q(a1) /\ DataOK(s1) /\ DataOK(s2)
  <2>1. DataOK(s0) /\ s0.mem = m /\ s0.reg = q(a1)
    BY DEF Pushing
  <2>2. DataOK(s1)
    BY <2>1, StepTyped DEF ByteSteps
  <2>3. DataOK(s2)
    BY <2>2, StepTyped DEF ByteSteps
  <2> QED
    BY <2>1, <2>2, <2>3
<1>2. Add16(a1, 1) = a2
  <2>1. last.reg.pc \in Int
    BY LastHas
  <2>2. Add16(Add16(last.reg.pc, 1), 1) = Add16(last.reg.pc, 1 + 1)
    BY ONLY <2>1, AddTwice, 1 \in Int
  <2> QED
    BY <2>2
<1>3. lo \in Byte
  BY <1>1, ReadTyped DEF DataOK
<1>4. \A a, b : WithPc(q(a), b) = q(b) /\ q(a).pc = a
  BY ONLY RegsHave DEF WithPc
<1>5. s1 = PathOf(WithPc(s0.reg, Add16(s0.reg.pc, 1)), s0.mem, Read(s0.mem, s0.reg.pc),
                  Word(Read(s0.mem, s0.reg.pc), Hi(s0.addr)))
  BY ONLY <1>1, s1 = Step("pc_lo", inst, s0), AddressStepIs
<1> HIDE DEF q, a1, a2, lo, hi
<1>6. s1 = PathOf(q(a2), m, lo, Word(lo, Hi(s0.addr)))
  BY ONLY <1>1, <1>2, <1>4, <1>5 DEF lo
<1>7. s1.reg = q(a2) /\ s1.mem = m /\ s1.addr = Word(lo, Hi(s0.addr))
  BY ONLY <1>6, PathHas
<1>8. s2 = PathOf(WithPc(s1.reg, Add16(s1.reg.pc, 1)), s1.mem, Read(s1.mem, s1.reg.pc),
                  Word(Lo(s1.addr), Read(s1.mem, s1.reg.pc)))
  BY ONLY <1>1, s2 = Step("pc_hi", inst, s1), AddressStepIs
<1>9. Lo(s1.addr) = lo
  <2>1. Hi(s0.addr) \in Int
    BY <1>1, DataHas, HalvesTyped, ByteIs
  <2> QED
    BY ONLY <1>3, <1>7, <2>1, WordHalves
<1>10. s2 = PathOf(q(Add16(a2, 1)), m, hi, Word(lo, hi))
  BY ONLY <1>4, <1>7, <1>8, <1>9 DEF hi
<1>11. s2.reg = q(Add16(a2, 1)) /\ s2.mem = m /\ s2.addr = Word(lo, hi)
  BY ONLY <1>10, PathHas
<1>12. s3 = PathOf(WithPc(s2.reg, s2.addr), s2.mem, s2.data, s2.addr)
  BY ONLY <1>1, s3 = Step("jump", inst, s2), PcStepIs
<1>13. s3.mem = m /\ s3.reg = q(Word(lo, hi))
  BY ONLY <1>4, <1>11, <1>12, PathHas
<1> QED
  BY ONLY <1>13 DEF q, lo, hi, a1, a2

\* JSR.
LEMMA CallDone ==
  ASSUME LastOK, NEW inst, inst.op = "JSR", inst.addr_mode = "ABS", inst.cycle = 6,
         NEW t, NEW n, Finishing(t, inst, n), Boundary(Retire(inst, LastStep(t, inst, n)), n + 2)
  PROVE  InstructionSet!Stack(inst)
<1> DEFINE u == LastStep(t, inst, n)
           a1 == Add16(last.reg.pc, 1)
           a2 == Add16(last.reg.pc, 2)
           b0 == Hi(a2)
           b1 == Lo(a2)
           m1 == InstructionSet!Pushed(last.mem, 0, b0)
           m2 == InstructionSet!Pushed(m1, 1, b1)
           to == Word(Read(m2, a1), Read(m2, a2))
<1>1. Len(Steps(inst)) = 5 /\ Steps(inst)[1] = "push_hi" /\ Steps(inst)[2] = "push_lo" /\ Steps(inst)[3] = "pc_lo"
      /\ Steps(inst)[4] = "pc_hi" /\ Steps(inst)[5] = "jump"
  BY JumpArms
<1>2. n = 4 /\ Reached(t[0], 1) /\ DataOK(t[0]) /\ DataOK(t[1])
      /\ t[1] = Step("push_hi", inst, t[0]) /\ t[2] = Step("push_lo", inst, t[1])
      /\ t[3] = Step("pc_lo", inst, t[2]) /\ t[4] = Step("pc_hi", inst, t[3]) /\ u = Step("jump", inst, t[4])
  <2>1. Len(Steps(inst)) \in Nat /\ \A j \in 1 .. Len(Steps(inst)) : Steps(inst)[j] # "branch"
    BY <1>1
  <2>2. inst.op \in {"PHA", "PHP", "PLA", "RTI", "RTS", "JSR"}
    OBVIOUS
  <2>3. /\ n + 1 = Len(Steps(inst)) /\ n \in 0 .. 5
        /\ Reached(t[0], 1)
        /\ \A j \in 0 .. n : DataOK(t[j])
        /\ \A j \in 0 .. n - 1 : t[j + 1] = Step(Steps(inst)[j + 1], inst, t[j])
    BY ONLY <2>1, <2>2, Finishing(t, inst, n), StackChain
  <2>4. n = 4
    BY ONLY <1>1, <2>3
  <2> QED
    BY ONLY <1>1, <2>3, <2>4 DEF LastStep, u
<1> HIDE DEF u
<1>3. b0 \in Byte /\ b1 \in Byte
  <2>1. last.reg.pc \in Int
    BY LastHas
  <2>2. a2 \in Address
    BY <2>1, Add16Typed
  <2> QED
    BY <2>2, HalvesTyped
<1>4. Add16(a1, 1) = a2
  <2>1. last.reg.pc \in Int
    BY LastHas
  <2>2. Add16(Add16(last.reg.pc, 1), 1) = Add16(last.reg.pc, 1 + 1)
    BY ONLY <2>1, AddTwice, 1 \in Int
  <2> QED
    BY <2>2
<1>5. Pushing(t[0], 0, last.mem, a1)
  BY <1>2, PushesStart
<1>6. t[1] = push(t[0], b0)
  <2>1. t[0].reg.pc = a1
    BY ONLY <1>5, RegsHave DEF Pushing
  <2>2. t[1] = push(t[0], Hi(Add16(t[0].reg.pc, 1)))
    BY <1>2, StackStepIs
  <2> QED
    BY ONLY <1>4, <2>1, <2>2
<1> HIDE DEF b0, b1
<1>7. Pushing(t[1], -1, m1, a1)
  <2> DEFINE s == t[0]  m == last.mem
  <2>1. t[1] = push(s, b0) /\ Pushing(s, 0, m, a1)
    BY ONLY <1>5, <1>6
  <2> HIDE DEF s, m, a1
  <2>2. Pushing(push(s, b0), -1, InstructionSet!Pushed(m, 0, b0), a1)
    BY ONLY LastOK, <1>3, <2>1, Pushes
  <2> QED
    BY ONLY <2>1, <2>2 DEF m
<1>8. t[2] = push(t[1], b1)
  <2>1. Pushing(t[1], -1, m1, a1)
    BY ONLY <1>7
  <2>2. t[1].reg.pc = a1
    BY ONLY <2>1, RegsHave DEF Pushing
  <2>3. t[2] = push(t[1], Lo(Add16(t[1].reg.pc, 1)))
    BY <1>2, StackStepIs
  <2> QED
    BY ONLY <1>4, <2>2, <2>3 DEF b1
<1>9. Pushing(t[2], -2, m2, a1)
  <2> DEFINE s == t[1]
  <2>1. t[2] = push(s, b1) /\ Pushing(s, -1, m1, a1)
    BY ONLY <1>7, <1>8
  <2> HIDE DEF s, m1, a1
  <2>2. Pushing(push(s, b1), -2, InstructionSet!Pushed(m1, 1, b1), a1)
    BY ONLY LastOK, <1>3, <2>1, Pushes
  <2> QED
    BY ONLY <2>1, <2>2
<1> HIDE DEF m2
<1>10. u.mem = m2
       /\ u.reg = Regs(last.reg.acc, last.reg.x, last.reg.y, Add8(last.reg.sp, -2), last.reg.status, to)
  BY ONLY LastOK, <1>2, <1>9, CallSteps
<1>11. Retire(inst, u) = u
  <2>1. Len(Steps(inst)) # 1
    BY <1>1
  <2> QED
    BY <2>1, StackRetires
<1>12. last'.mem = m2 /\ took' = 6
       /\ last'.reg = Regs(last.reg.acc, last.reg.x, last.reg.y, Add8(last.reg.sp, -2), last.reg.status, to)
  BY ONLY <1>2, <1>10, <1>11, Boundary(Retire(inst, LastStep(t, inst, n)), n + 2), BoundaryHas DEF u
<1>13. InstructionSet!PushedPc(last.mem, InstructionSet!Add16(last.reg.pc, 2)) = m2
  BY ONLY SameNumbers DEF InstructionSet!PushedPc, m2, m1, b0, b1, a2
<1>14. InstructionSet!Word(InstructionSet!Read(m2, InstructionSet!Add16(last.reg.pc, 1)),
                           InstructionSet!Read(m2, InstructionSet!Add16(last.reg.pc, 2))) = to
       /\ InstructionSet!Lo(last.reg.sp - 2) = Add8(last.reg.sp, -2)
  BY StackTop, SameNumbers, SameMemory
<1> HIDE DEF to
<1>15. SpAndPc(last.reg, Add8(last.reg.sp, -2), to)
         = Regs(last.reg.acc, last.reg.x, last.reg.y, Add8(last.reg.sp, -2), last.reg.status, to)
  BY ManyChanged DEF LastOK
<1> DEFINE after == InstructionSet!PushedPc(last.mem, InstructionSet!Add16(last.reg.pc, 2))
<1>16. last'.mem = after
       /\ last'.reg = SpAndPc(last.reg, InstructionSet!Lo(last.reg.sp - 2),
               InstructionSet!Word(InstructionSet!Read(after, InstructionSet!Add16(last.reg.pc, 1)),
                                   InstructionSet!Read(after, InstructionSet!Add16(last.reg.pc, 2))))
  BY ONLY <1>12, <1>13, <1>14, <1>15
<1> QED
  BY ONLY <1>12, <1>16, inst.op = "JSR", inst.cycle = 6 DEF InstructionSet!Stack, SpAndPc

-----------------------------------------------------------------------------
(* Every row of the table. *)

\* PLP apart, the last cycle of an instruction is its last step and its retirement.
LEMMA LastFunc ==
  ASSUME NEW inst, inst.op # "PLP", NEW t, NEW n, Finishing(t, inst, n)
  PROVE  Func(n, inst, t[n]) = Retire(inst, LastStep(t, inst, n))
<1>1. ExecDone(n, inst, t[n])
  BY DEF Finishing
<1> QED
  BY ONLY <1>1, inst.op # "PLP" DEF Func, LastStep

\* The instructions without operand, and those that jump, branch or use the stack.
LEMMA ControlDone ==
  ASSUME LastOK, NEW inst, ControlRow(inst), inst.op # "SED", LengthOf(inst), NEW t, NEW n,
         Finishing(t, inst, n), Boundary(Func(n, inst, t[n]), n + 2)
  PROVE  InstructionSet!Branch(inst) \/ InstructionSet!Implied(inst) \/ InstructionSet!Stack(inst)
         \/ InstructionSet!Jump(inst)
<1>1. inst.op # "PLP" => Boundary(Retire(inst, LastStep(t, inst, n)), n + 2)
  <2>1. inst.op # "PLP" => Func(n, inst, t[n]) = Retire(inst, LastStep(t, inst, n))
    BY LastFunc
  <2> QED
    BY ONLY <2>1, Boundary(Func(n, inst, t[n]), n + 2)
<1>2. ASSUME inst.op \in BranchOps, inst.addr_mode = "REL", inst.cycle = 2
      PROVE  InstructionSet!Branch(inst)
  <2>1. inst.op # "PLP"
    BY <1>2 DEF BranchOps
  <2> QED
    BY <1>1, <1>2, <2>1, BranchDone
<1>3. ASSUME inst.op = "JMP",
             (inst.addr_mode = "ABS" /\ inst.cycle = 3) \/ (inst.addr_mode = "IND" /\ inst.cycle = 5)
      PROVE  InstructionSet!Jump(inst)
  BY <1>1, <1>3, JumpDone
<1>4. ASSUME inst.op = "JSR", inst.addr_mode = "ABS", inst.cycle = 6
      PROVE  InstructionSet!Stack(inst)
  BY <1>1, <1>4, CallDone
<1>5. ASSUME inst.op \in {"PHA", "PHP"}, inst.addr_mode = "IMP", inst.cycle = 3
      PROVE  InstructionSet!Stack(inst)
  BY <1>1, <1>5, PushDone
<1>6. ASSUME inst.op = "PLA", inst.addr_mode = "IMP", inst.cycle = 4
      PROVE  InstructionSet!Stack(inst)
  BY <1>1, <1>6, PullDone
<1>7. ASSUME inst.op = "PLP", inst.addr_mode = "IMP", inst.cycle = 4
      PROVE  InstructionSet!Stack(inst)
  BY <1>7, PullStatusDone
<1>8. ASSUME inst.op \in {"RTI", "RTS"}, inst.cycle = 6
      PROVE  InstructionSet!Stack(inst)
  BY <1>1, <1>8, ReturnDone, ReturnInterruptDone
<1>9. inst.op # "BRK"
  <2>1. SUFFICES ASSUME inst.op = "BRK" PROVE FALSE
    OBVIOUS
  <2>2. Steps(inst) = <<>>
    BY ONLY <2>1 DEF Steps, LoadOps, StoreOps, ModifyOps, BranchOps
  <2>3. Len(Steps(inst)) = 0
    BY ONLY <2>2
  <2> QED
    BY ONLY <2>3, Finishing(t, inst, n) DEF Finishing
<1>10. ASSUME inst.op \in OneStepOps, inst.addr_mode = "IMP", inst.cycle = 2
       PROVE  InstructionSet!Implied(inst)
  <2>1. inst.op # "PLP"
    BY <1>10 DEF OneStepOps
  <2> QED
    BY <1>1, <1>10, <2>1, ImpliedDone
<1> QED
  BY ONLY ControlRow(inst), <1>2, <1>3, <1>4, <1>5, <1>6, <1>7, <1>8, <1>9, <1>10 DEF ControlRow

\* The last cycle of an instruction, whichever it is, takes the registers and memory of
\* the boundary before it where the instruction set takes them.
LEMMA InstructionDone ==
  ASSUME LastOK, NEW c \in DOMAIN opcode_list, NEW inst, inst = opcode_list[c],
         c = Read(last.mem, last.reg.pc), inst.op # "SED", NEW t, NEW n,
         Finishing(t, inst, n), Boundary(Func(n, inst, t[n]), n + 2)
  PROVE  InstructionSet!Instruction
<1>1. LoadRow(inst) \/ StoreRow(inst) \/ ModifyRow(inst) \/ ControlRow(inst)
  BY TheTable
<1>2. LengthOf(inst)
  BY RowLength
<1>3. inst.op # "PLP" => Boundary(Retire(inst, LastStep(t, inst, n)), n + 2)
  <2>1. inst.op # "PLP" => Func(n, inst, t[n]) = Retire(inst, LastStep(t, inst, n))
    BY LastFunc
  <2> QED
    BY ONLY <2>1, Boundary(Func(n, inst, t[n]), n + 2)
<1>4. ASSUME LoadRow(inst)
      PROVE  InstructionSet!Load(inst)
  <2>1. inst.op # "PLP"
    BY <1>4 DEF LoadRow, LoadOps
  <2> QED
    BY ONLY LastOK, <1>2, <1>3, <1>4, <2>1, Finishing(t, inst, n), LoadDone
<1>5. ASSUME StoreRow(inst)
      PROVE  InstructionSet!Store(inst)
  <2>1. inst.op # "PLP"
    BY <1>5 DEF StoreRow, StoreOps
  <2> QED
    BY ONLY LastOK, <1>2, <1>3, <1>5, <2>1, Finishing(t, inst, n), StoreDone
<1>6. ASSUME ModifyRow(inst)
      PROVE  InstructionSet!Modify(inst)
  <2>1. inst.op # "PLP"
    BY <1>6 DEF ModifyRow, ModifyOps
  <2>2. CASE inst.addr_mode = "ACC"
    BY ONLY LastOK, <1>2, <1>3, <1>6, <2>1, <2>2, Finishing(t, inst, n), AccDone
  <2>3. CASE inst.addr_mode # "ACC"
    BY ONLY LastOK, <1>2, <1>3, <1>6, <2>1, <2>3, Finishing(t, inst, n), ModifyDone
  <2> QED
    BY <2>2, <2>3
<1>7. ASSUME ControlRow(inst)
      PROVE  InstructionSet!Branch(inst) \/ InstructionSet!Implied(inst) \/ InstructionSet!Stack(inst)
             \/ InstructionSet!Jump(inst)
  BY ONLY LastOK, <1>2, <1>7, inst.op # "SED", Finishing(t, inst, n), Boundary(Func(n, inst, t[n]), n + 2),
          ControlDone
<1>8. \/ InstructionSet!Load(inst) \/ InstructionSet!Store(inst) \/ InstructionSet!Modify(inst)
      \/ InstructionSet!Branch(inst) \/ InstructionSet!Implied(inst) \/ InstructionSet!Stack(inst)
      \/ InstructionSet!Jump(inst)
  BY ONLY <1>1, <1>4, <1>5, <1>6, <1>7
<1>9. InstructionSet!Read(last.mem, last.reg.pc) = c /\ InstructionSet!opcode_list = opcode_list
  BY SameMemory
<1> QED
  BY ONLY <1>8, <1>9, inst = opcode_list[c], c \in DOMAIN opcode_list DEF InstructionSet!Instruction

-----------------------------------------------------------------------------
(* Interrupts and resets. *)

Masked(status) == (status \ {"decimal"}) \cup {"irq_disable"}

\* The last step of both sequences.
LEMMA EnterIs ==
  ASSUME NEW s, DataOK(s)
  PROVE  IntrStep("enter", s)
           = PathOf(Regs(s.reg.acc, s.reg.x, s.reg.y, s.reg.sp, Masked(s.reg.status), s.addr),
                    s.mem, s.data, s.addr)
<1> DEFINE st == Masked(s.reg.status)
           t == [s EXCEPT !.reg.pc = s.addr]
<1>1. IntrStep("enter", s) = [s EXCEPT !.reg.pc = s.addr, !.reg.status = st]
  BY DEF IntrStep, Masked
<1>2. [s EXCEPT !.reg.pc = s.addr, !.reg.status = st] = [t EXCEPT !.reg.status = st]
  BY Zenon
<1>3. t = PathOf(WithPc(s.reg, s.addr), s.mem, s.data, s.addr)
  BY PathReg
<1>4. DataOK(t)
  BY DataHas, DataReg
<1> HIDE DEF st, t
<1>5. [t EXCEPT !.reg.status = st] = PathOf(WithStatus(t.reg, st), t.mem, t.data, t.addr)
  BY ONLY <1>4, PathReg
<1>6. t.reg = WithPc(s.reg, s.addr) /\ t.mem = s.mem /\ t.data = s.data /\ t.addr = s.addr
  BY ONLY <1>3, PathHas
<1>7. WithStatus(WithPc(s.reg, s.addr), st) = Regs(s.reg.acc, s.reg.x, s.reg.y, s.reg.sp, st, s.addr)
  BY ONLY RegsHave DEF WithStatus, WithPc
<1>8. IntrStep("enter", s)
        = PathOf(Regs(s.reg.acc, s.reg.x, s.reg.y, s.reg.sp, st, s.addr), s.mem, s.data, s.addr)
  BY ONLY <1>1, <1>2, <1>5, <1>6, <1>7
<1> QED
  BY ONLY <1>8 DEF st

\* A vector is loaded in two steps.
LEMMA VectorSteps ==
  ASSUME NEW s0, NEW s1, NEW s2, NEW a, NEW b, DataOK(s0),
         s1 = load_addr(s0, a, "lo"), s2 = load_addr(s1, b, "hi")
  PROVE  /\ DataOK(s1) /\ DataOK(s2) /\ s2.reg = s0.reg /\ s2.mem = s0.mem
         /\ s2.addr = Word(Read(s0.mem, a), Read(s0.mem, b))
<1>1. DataOK(s1)
  BY LoadAddrTyped
<1>2. DataOK(s2)
  BY <1>1, LoadAddrTyped
<1>3. s1 = PathOf(s0.reg, s0.mem, Read(s0.mem, a), Word(Read(s0.mem, a), Hi(s0.addr)))
  BY AccessIs
<1>4. s1.reg = s0.reg /\ s1.mem = s0.mem /\ s1.addr = Word(Read(s0.mem, a), Hi(s0.addr))
  BY ONLY <1>3, PathHas
<1>5. s2 = PathOf(s1.reg, s1.mem, Read(s1.mem, b), Word(Lo(s1.addr), Read(s1.mem, b)))
  BY <1>1, AccessIs
<1>6. Lo(s1.addr) = Read(s0.mem, a)
  <2>1. Read(s0.mem, a) \in Byte
    BY ReadTyped DEF DataOK
  <2>2. Hi(s0.addr) \in Int
    BY DataHas, HalvesTyped, ByteIs
  <2> HIDE DEF Read
  <2> QED
    BY ONLY <1>4, <2>1, <2>2, WordHalves
<1> QED
  BY ONLY <1>1, <1>2, <1>4, <1>5, <1>6, PathHas

\* An interrupt: t[0] is the boundary, t[6] the entry of its handler.
LEMMA NmiDone ==
  ASSUME LastOK, NEW t, DataOK(t[0]), t[0].reg = last.reg, t[0].mem = last.mem,
         \A j \in 0 .. 5 : t[j + 1] = IntrStep(NmiSteps[j + 1], t[j]), Boundary(t[6], 6)
  PROVE  InstructionSet!Nmi
<1> DEFINE pc == last.reg.pc
           b0 == Hi(pc)
           b1 == Lo(pc)
           b2 == PackStatus(last.reg.status)
           m1 == InstructionSet!Pushed(last.mem, 0, b0)
           m2 == InstructionSet!Pushed(m1, 1, b1)
           m3 == InstructionSet!Pushed(m2, 2, b2)
           to == Word(Read(m3, NMI_VECTOR), Read(m3, NMI_VECTOR + 1))
           st == Masked(last.reg.status)
<1>1. /\ t[1] = IntrStep("push_pc_hi", t[0]) /\ t[2] = IntrStep("push_pc_lo", t[1])
      /\ t[3] = IntrStep("push_status", t[2]) /\ t[4] = IntrStep("nmi_lo", t[3])
      /\ t[5] = IntrStep("nmi_hi", t[4]) /\ t[6] = IntrStep("enter", t[5])
  BY SequenceLengths
<1>2. b0 \in Byte /\ b1 \in Byte /\ b2 \in Byte
  BY LastHas, HalvesTyped, StatusByte
<1>3. Pushing(t[0], 0, last.mem, pc)
  <2>1. last.reg = Regs(last.reg.acc, last.reg.x, last.reg.y, last.reg.sp, last.reg.status, last.reg.pc)
    BY RegsAre DEF LastOK
  <2>2. Add8(last.reg.sp, 0) = last.reg.sp
    BY LastHas, AddNone
  <2> QED
    BY ONLY <2>1, <2>2, DataOK(t[0]), t[0].reg = last.reg, t[0].mem = last.mem DEF Pushing
<1>4. t[1] = push(t[0], b0)
  BY <1>1 DEF IntrStep
<1> HIDE DEF pc, b0, b1, b2
<1>5. Pushing(t[1], -1, m1, pc)
  <2> DEFINE s == t[0]  m == last.mem
  <2>1. t[1] = push(s, b0) /\ Pushing(s, 0, m, pc)
    BY ONLY <1>3, <1>4
  <2> HIDE DEF s, m
  <2>2. Pushing(push(s, b0), -1, InstructionSet!Pushed(m, 0, b0), pc)
    BY ONLY LastOK, <1>2, <2>1, Pushes
  <2> QED
    BY ONLY <2>1, <2>2 DEF m
<1>6. t[2] = push(t[1], b1)
  <2>1. t[1].reg.pc = pc
    BY ONLY <1>5, RegsHave DEF Pushing
  <2>2. t[2] = push(t[1], Lo(t[1].reg.pc))
    BY ONLY <1>1 DEF IntrStep
  <2> QED
    BY ONLY <2>1, <2>2 DEF b1, pc
<1> HIDE DEF m1
<1>7. Pushing(t[2], -2, m2, pc)
  <2> DEFINE s == t[1]
  <2>1. t[2] = push(s, b1) /\ Pushing(s, -1, m1, pc)
    BY ONLY <1>5, <1>6
  <2> HIDE DEF s
  <2>2. Pushing(push(s, b1), -2, InstructionSet!Pushed(m1, 1, b1), pc)
    BY ONLY LastOK, <1>2, <2>1, Pushes
  <2> QED
    BY ONLY <2>1, <2>2
<1> HIDE DEF m2
<1>7a. t[3] = push(t[2], b2)
  <2>1. t[2].reg.status = last.reg.status
    BY ONLY <1>7, RegsHave DEF Pushing
  <2>2. t[3] = push(t[2], PackStatus(t[2].reg.status))
    BY ONLY <1>1 DEF IntrStep
  <2> QED
    BY ONLY <2>1, <2>2 DEF b2
<1>8. Pushing(t[3], -3, m3, pc)
  <2> DEFINE s == t[2]
  <2>1. t[3] = push(s, b2) /\ Pushing(s, -2, m2, pc)
    BY ONLY <1>7, <1>7a
  <2> HIDE DEF s
  <2>2. Pushing(push(s, b2), -3, InstructionSet!Pushed(m2, 2, b2), pc)
    BY ONLY LastOK, <1>2, <2>1, Pushes
  <2> QED
    BY ONLY <2>1, <2>2
<1> HIDE DEF m3
<1>9. DataOK(t[5]) /\ t[5].reg = t[3].reg /\ t[5].mem = m3 /\ t[5].addr = to
  <2>1. t[4] = load_addr(t[3], NMI_VECTOR, "lo") /\ t[5] = load_addr(t[4], NMI_VECTOR + 1, "hi")
    BY ONLY <1>1 DEF IntrStep
  <2>2. DataOK(t[3]) /\ t[3].mem = m3
    BY ONLY <1>8 DEF Pushing
  <2> QED
    BY ONLY <2>1, <2>2, VectorSteps
<1>10. t[3].reg = Regs(last.reg.acc, last.reg.x, last.reg.y, Add8(last.reg.sp, -3), last.reg.status, pc)
  BY ONLY <1>8 DEF Pushing
<1> HIDE DEF to, st
<1>11. t[6].mem = m3
       /\ t[6].reg = Regs(last.reg.acc, last.reg.x, last.reg.y, Add8(last.reg.sp, -3), st, to)
  <2>1. t[6] = PathOf(Regs(t[5].reg.acc, t[5].reg.x, t[5].reg.y, t[5].reg.sp, Masked(t[5].reg.status), t[5].addr),
                      t[5].mem, t[5].data, t[5].addr)
    BY ONLY <1>1, <1>9, EnterIs
  <2> QED
    BY ONLY <1>9, <1>10, <2>1, PathHas, RegsHave DEF st
<1>12. last'.reg = Regs(last.reg.acc, last.reg.x, last.reg.y, Add8(last.reg.sp, -3), st, to)
       /\ last'.mem = m3 /\ took' = 6
  BY ONLY <1>11, Boundary(t[6], 6), BoundaryHas
<1> DEFINE after == InstructionSet!Pushed(InstructionSet!PushedPc(last.mem, last.reg.pc), 2,
                                          InstructionSet!PackStatus(last.reg.status))
<1>13. after = m3
  <2>1. InstructionSet!Hi(last.reg.pc) = b0 /\ InstructionSet!Lo(last.reg.pc) = b1
        /\ InstructionSet!PackStatus(last.reg.status) = b2
    BY SameNumbers, SameStatus DEF b0, b1, b2, pc
  <2> QED
    BY ONLY <2>1 DEF InstructionSet!PushedPc, m1, m2, m3
<1> HIDE DEF after
<1>14. InstructionSet!Word(InstructionSet!Read(after, InstructionSet!NMI_VECTOR),
                           InstructionSet!Read(after, InstructionSet!NMI_VECTOR + 1)) = to
       /\ InstructionSet!Lo(last.reg.sp - 3) = Add8(last.reg.sp, -3)
  BY <1>13, StackTop, SameNumbers, SameMemory DEF to
<1>15. SpStatusAndPc(last.reg, Add8(last.reg.sp, -3), st, to)
         = Regs(last.reg.acc, last.reg.x, last.reg.y, Add8(last.reg.sp, -3), st, to)
  BY ManyChanged DEF LastOK
<1>16. last'.mem = after /\ took' = 6
       /\ last'.reg = SpStatusAndPc(last.reg, InstructionSet!Lo(last.reg.sp - 3),
             (last.reg.status \ {"decimal"}) \cup {"irq_disable"},
             InstructionSet!Word(InstructionSet!Read(after, InstructionSet!NMI_VECTOR),
                                 InstructionSet!Read(after, InstructionSet!NMI_VECTOR + 1)))
  BY ONLY <1>12, <1>13, <1>14, <1>15 DEF st, Masked
<1> QED
  BY ONLY <1>16 DEF InstructionSet!Nmi, SpStatusAndPc, after

\* A reset: the pc of t[0] may be past an opcode that was fetched.
LEMMA ResetDone ==
  ASSUME LastOK, NEW t, DataOK(t[0]), Behind(t[0].reg), t[0].mem = last.mem,
         \A j \in 0 .. 2 : t[j + 1] = IntrStep(ResetSteps[j + 1], t[j]), Boundary(t[3], 3)
  PROVE  InstructionSet!Reset
<1> DEFINE to == Word(Read(last.mem, RESET_VECTOR), Read(last.mem, RESET_VECTOR + 1))
           st == Masked(last.reg.status)
<1>1. /\ t[1] = IntrStep("reset_lo", t[0]) /\ t[2] = IntrStep("reset_hi", t[1])
      /\ t[3] = IntrStep("enter", t[2])
  BY SequenceLengths
<1>2. t[1] = load_addr(t[0], RESET_VECTOR, "lo") /\ t[2] = load_addr(t[1], RESET_VECTOR + 1, "hi")
  BY ONLY <1>1 DEF IntrStep
<1>3. DataOK(t[2]) /\ t[2].reg = t[0].reg /\ t[2].mem = last.mem /\ t[2].addr = to
  BY ONLY <1>2, DataOK(t[0]), t[0].mem = last.mem, VectorSteps
<1>4. t[3] = PathOf(Regs(t[2].reg.acc, t[2].reg.x, t[2].reg.y, t[2].reg.sp, Masked(t[2].reg.status), t[2].addr),
                    t[2].mem, t[2].data, t[2].addr)
  BY ONLY <1>1, <1>3, EnterIs
<1> HIDE DEF to, st
<1>5. t[3].reg = Regs(last.reg.acc, last.reg.x, last.reg.y, last.reg.sp, st, to) /\ t[3].mem = last.mem
  BY ONLY <1>3, <1>4, Behind(t[0].reg), PathHas DEF Behind, st
<1>6. last'.reg = Regs(last.reg.acc, last.reg.x, last.reg.y, last.reg.sp, st, to)
      /\ last'.mem = last.mem /\ took' = 3
  BY ONLY <1>5, Boundary(t[3], 3), BoundaryHas
<1>7. StatusAndPc(last.reg, st, to) = Regs(last.reg.acc, last.reg.x, last.reg.y, last.reg.sp, st, to)
  BY ManyChanged DEF LastOK
<1>8. InstructionSet!Word(InstructionSet!Read(last.mem, InstructionSet!RESET_VECTOR),
                          InstructionSet!Read(last.mem, InstructionSet!RESET_VECTOR + 1)) = to
  BY SameNumbers, SameMemory DEF to
<1>9. last'.mem = last.mem /\ took' = 3
      /\ last'.reg = StatusAndPc(last.reg, (last.reg.status \ {"decimal"}) \cup {"irq_disable"},
             InstructionSet!Word(InstructionSet!Read(last.mem, InstructionSet!RESET_VECTOR),
                                 InstructionSet!Read(last.mem, InstructionSet!RESET_VECTOR + 1)))
  BY ONLY <1>6, <1>7, <1>8 DEF st, Masked
<1> QED
  BY ONLY <1>9 DEF InstructionSet!Reset, StatusAndPc

-----------------------------------------------------------------------------
(* From boundary to boundary. *)

\* The first n steps of an interrupt and of a reset.
NmiChain(t, n) ==
  /\ DataOK(t[0]) /\ t[0].reg = last.reg /\ t[0].mem = last.mem
  /\ \A j \in 0 .. n - 1 : t[j + 1] = IntrStep(NmiSteps[j + 1], t[j])

ResetChain(t, n) ==
  /\ DataOK(t[0]) /\ Behind(t[0].reg) /\ t[0].mem = last.mem
  /\ \A j \in 0 .. n - 1 : t[j + 1] = IntrStep(ResetSteps[j + 1], t[j])

\* Between two boundaries the data path is where the steps done so far have taken it
\* from the last one, one step a cycle.
AtBoundary == last.reg = cpu_reg /\ last.mem = mem /\ spent = 0

InInstruction ==
  /\ current_inst = Read(last.mem, last.reg.pc)
  /\ spent = current_exec_index + 1
  /\ \E t : Chain(t, opcode_list[current_inst], current_exec_index) /\ t[current_exec_index] = DataPath

InNmi ==
  /\ spent = current_exec_index
  /\ \E t : NmiChain(t, current_exec_index) /\ t[current_exec_index] = DataPath

InReset ==
  /\ spent = current_exec_index
  /\ \E t : ResetChain(t, current_exec_index) /\ t[current_exec_index] = DataPath

Between ==
  /\ execute_func \in {"NULL", "fetch_and_decode_inst"} => AtBoundary
  /\ execute_func = "execute_inst" /\ ~reset_pin => InInstruction
  /\ execute_func = "nmi_handler" => InNmi
  /\ execute_func = "reset_handler2" => InReset
  /\ reset_pin => Behind(cpu_reg) /\ mem = last.mem

BoundaryInv == LastOK /\ (Clocked => Between)

\* The history of a cycle.
HistoryMoves ==
  IF Arrives
    THEN last' = [reg |-> cpu_reg', mem |-> mem'] /\ spent' = 0 /\ took' = spent + 1
    ELSE /\ spent' = IF reset_pin THEN 1 ELSE spent + 1
         /\ UNCHANGED <<last, took>>

IsaStep == InstructionSet!Next \/ UNCHANGED InstructionSet!isaVars

\* The data path after a step.
LEMMA BecomesIs ==
  ASSUME NEW s, DataOK(s), Becomes(s)
  PROVE  /\ DataPath' = s
         /\ cpu_reg' = s.reg /\ mem' = s.mem
<1>1. cpu_reg' = s.reg /\ mem' = s.mem /\ cpu_data_buffer' = s.data /\ cpu_addr_buffer' = s.addr
  BY DEF Becomes
<1>2. s = [reg |-> s.reg, mem |-> s.mem, data |-> s.data, addr |-> s.addr]
  BY DEF DataOK
<1> QED
  BY ONLY <1>1, <1>2 DEF DataPath

\* The current step is the end of a boundary or nothing for the instruction set.
LEMMA NoArrival ==
  ASSUME HistoryMoves, ~Arrives
  PROVE  last' = last /\ took' = took /\ spent' = (IF reset_pin THEN 1 ELSE spent + 1) /\ IsaStep
  BY DEF HistoryMoves, IsaStep, InstructionSet!isaVars

\* The step that gets to a boundary.
LEMMA Arrival ==
  ASSUME HistoryMoves, Arrives, NEW s, DataOK(s), Becomes(s)
  PROVE  Boundary(s, spent + 1) /\ spent' = 0 /\ LastOK' /\ AtBoundary'
<1>1. last' = [reg |-> cpu_reg', mem |-> mem'] /\ spent' = 0 /\ took' = spent + 1
  BY DEF HistoryMoves
<1>2. cpu_reg' = s.reg /\ mem' = s.mem
  BY BecomesIs
<1>3. last' = [reg |-> s.reg, mem |-> s.mem]
  BY ONLY <1>1, <1>2
<1>4. last'.reg = s.reg /\ last'.mem = s.mem
  BY ONLY <1>3
<1> QED
  BY ONLY <1>1, <1>2, <1>3, <1>4, DataOK(s) DEF Boundary, LastOK, AtBoundary, DataOK

\* One more step.
LEMMA ChainGrows ==
  ASSUME NEW inst, NEW n \in Nat, NEW t, Chain(t, inst, n), ~FuncFails(n, inst), ~ExecDone(n, inst, t[n]),
         NEW w, w = Func(n, inst, t[n]), DataOK(w)
  PROVE  \E q : Chain(q, inst, n + 1) /\ q[n + 1] = w
<1> DEFINE q == [j \in 0 .. n + 1 |-> IF j = n + 1 THEN w ELSE t[j]]
<1>1. q[n + 1] = w /\ \A j \in 0 .. n : q[j] = t[j]
  OBVIOUS
<1>2. Reached(t[0], 1) /\ (\A j \in 0 .. n : DataOK(t[j]))
      /\ \A j \in 0 .. n - 1 : ~FuncFails(j, inst) /\ ~ExecDone(j, inst, t[j]) /\ t[j + 1] = Func(j, inst, t[j])
  BY DEF Chain
<1> HIDE DEF q
<1>3. Reached(q[0], 1)
  BY <1>1, <1>2
<1>4. \A j \in 0 .. n + 1 : DataOK(q[j])
  BY ONLY <1>1, <1>2, DataOK(w), n \in Nat
<1>5. \A j \in 0 .. n : ~FuncFails(j, inst) /\ ~ExecDone(j, inst, q[j]) /\ q[j + 1] = Func(j, inst, q[j])
  <2>1. SUFFICES ASSUME NEW j \in 0 .. n
                 PROVE  ~FuncFails(j, inst) /\ ~ExecDone(j, inst, q[j]) /\ q[j + 1] = Func(j, inst, q[j])
    OBVIOUS
  <2>2. CASE j = n
    BY <1>1, <2>2
  <2>3. CASE j # n
    <3>1. j \in 0 .. n - 1 /\ j + 1 \in 0 .. n
      BY <2>3
    <3> QED
      BY ONLY <1>1, <1>2, <3>1, j \in 0 .. n
  <2> QED
    BY <2>2, <2>3
<1>6. (n + 1) - 1 = n
  OBVIOUS
<1>7. Chain(q, inst, n + 1)
  BY ONLY <1>3, <1>4, <1>5, <1>6 DEF Chain
<1> QED
  BY <1>1, <1>7

\* One more step of an interrupt or of a reset.
LEMMA SequenceGrows ==
  ASSUME NEW n \in Nat, NEW t, NEW w
  PROVE  /\ NmiChain(t, n) /\ w = IntrStep(NmiSteps[n + 1], t[n]) =>
              \E q : NmiChain(q, n + 1) /\ q[n + 1] = w
         /\ ResetChain(t, n) /\ w = IntrStep(ResetSteps[n + 1], t[n]) =>
              \E q : ResetChain(q, n + 1) /\ q[n + 1] = w
<1> DEFINE q == [j \in 0 .. n + 1 |-> IF j = n + 1 THEN w ELSE t[j]]
<1>1. q[n + 1] = w /\ \A j \in 0 .. n : q[j] = t[j]
  OBVIOUS
<1> HIDE DEF q
<1>2. q[0] = t[0] /\ (n + 1) - 1 = n
  BY <1>1
<1>3. ASSUME NEW steps, \A j \in 0 .. n - 1 : t[j + 1] = IntrStep(steps[j + 1], t[j]),
             w = IntrStep(steps[n + 1], t[n])
      PROVE  \A j \in 0 .. n : q[j + 1] = IntrStep(steps[j + 1], q[j])
  <2>1. SUFFICES ASSUME NEW j \in 0 .. n PROVE q[j + 1] = IntrStep(steps[j + 1], q[j])
    OBVIOUS
  <2>2. CASE j = n
    BY <1>1, <1>3, <2>2
  <2>3. CASE j # n
    <3>1. j \in 0 .. n - 1 /\ j + 1 \in 0 .. n
      BY <2>3
    <3> QED
      BY ONLY <1>1, <1>3, <3>1, j \in 0 .. n
  <2> QED
    BY <2>2, <2>3
<1>4. NmiChain(t, n) /\ w = IntrStep(NmiSteps[n + 1], t[n]) => NmiChain(q, n + 1)
  BY ONLY <1>2, <1>3 DEF NmiChain
<1>5. ResetChain(t, n) /\ w = IntrStep(ResetSteps[n + 1], t[n]) => ResetChain(q, n + 1)
  BY ONLY <1>2, <1>3 DEF ResetChain
<1> QED
  BY <1>1, <1>4, <1>5

\* What says something of the last boundary alone is kept while the boundary is.
LEMMA LastKept ==
  ASSUME last' = last
  PROVE  /\ LastOK => LastOK'
         /\ \A q, inst, n : Chain(q, inst, n) => Chain(q, inst, n)'
         /\ \A q, n : NmiChain(q, n) => NmiChain(q, n)'
         /\ \A q, n : ResetChain(q, n) => ResetChain(q, n)'
         /\ \A p : Behind(p) => Behind(p)'
<1>1. LastOK => LastOK'
  BY DEF LastOK
<1>2. \A p : Behind(p) => Behind(p)'
  BY DEF Behind
<1>3. \A s, n : Reached(s, n) => Reached(s, n)'
  BY DEF Reached
<1>4. \A q, inst, n : Chain(q, inst, n) => Chain(q, inst, n)'
  BY ONLY <1>3 DEF Chain
<1>5. \A q, n : NmiChain(q, n) => NmiChain(q, n)'
  BY DEF NmiChain
<1>6. \A q, n : ResetChain(q, n) => ResetChain(q, n)'
  BY ONLY <1>2, last' = last DEF ResetChain
<1> QED
  BY ONLY <1>1, <1>2, <1>4, <1>5, <1>6

\* The steps of the sequences leave data of their types.
LEMMA SequenceData ==
  ASSUME NEW s, DataOK(s)
  PROVE  /\ \A i \in 0 .. 5 : DataOK(IntrStep(NmiSteps[i + 1], s))
         /\ \A i \in 0 .. 2 : DataOK(IntrStep(ResetSteps[i + 1], s))
<1>1. ASSUME NEW i \in 0 .. 5
      PROVE  DataOK(IntrStep(NmiSteps[i + 1], s))
  <2>1. NmiSteps[i + 1] \in {"push_pc_hi", "push_pc_lo", "push_status", "nmi_lo", "nmi_hi",
                             "reset_lo", "reset_hi", "enter"}
    <3>1. i = 0 \/ i = 1 \/ i = 2 \/ i = 3 \/ i = 4 \/ i = 5
      OBVIOUS
    <3> QED
      BY <3>1, SequenceLengths
  <2> QED
    BY <2>1, IntrStepTyped
<1>2. ASSUME NEW i \in 0 .. 2
      PROVE  DataOK(IntrStep(ResetSteps[i + 1], s))
  <2>1. ResetSteps[i + 1] \in {"push_pc_hi", "push_pc_lo", "push_status", "nmi_lo", "nmi_hi",
                               "reset_lo", "reset_hi", "enter"}
    <3>1. i = 0 \/ i = 1 \/ i = 2
      OBVIOUS
    <3> QED
      BY <3>1, SequenceLengths
  <2> QED
    BY <2>1, IntrStepTyped
<1> QED
  BY <1>1, <1>2

\* A step of a reset that is not its last,
LEMMA ResetGoesOn ==
  ASSUME BoundaryInv, Clocked, DataInv, HistoryMoves, NEW i \in 0 .. 1,
         Sequence(ResetSteps, "reset_handler2", i), ~reset_pin',
         NEW t, ResetChain(t, i), t[i] = DataPath, (IF reset_pin THEN 1 ELSE spent + 1) = i + 1
  PROVE  BoundaryInv' /\ IsaStep
<1> DEFINE w == IntrStep(ResetSteps[i + 1], DataPath)
<1>1. Becomes(w) /\ current_exec_index' = i + 1 /\ execute_func' = "reset_handler2" /\ fault' = fault
  BY SequenceLengths DEF Sequence
<1>2. DataOK(w)
  BY SequenceData DEF DataInv
<1>3. ~Arrives
  BY <1>1 DEF Arrives
<1>4. last' = last /\ spent' = i + 1 /\ IsaStep
  BY <1>3, NoArrival
<1> HIDE DEF w
<1>5. PICK q : ResetChain(q, i + 1) /\ q[i + 1] = w
  <2>1. w = IntrStep(ResetSteps[i + 1], t[i]) /\ i \in Nat
    BY DEF w
  <2> QED
    BY ONLY <2>1, ResetChain(t, i), SequenceGrows
<1>6. ResetChain(q, i + 1)' /\ DataPath' = w
  BY <1>1, <1>2, <1>4, <1>5, LastKept, BecomesIs
<1>7. InReset'
  BY ONLY <1>1, <1>4, <1>5, <1>6 DEF InReset
<1>8. LastOK'
  BY <1>4, LastKept DEF BoundaryInv
<1>9. Between'
  BY ONLY <1>1, <1>7, ~reset_pin' DEF Between
<1> QED
  BY ONLY <1>4, <1>8, <1>9 DEF BoundaryInv

\* and its last one.
LEMMA ResetEnds ==
  ASSUME BoundaryInv, Clocked, DataInv, HistoryMoves, execute_func = "reset_handler2",
         Sequence(ResetSteps, "reset_handler2", 2), ~reset_pin', InReset, current_exec_index = 2
  PROVE  BoundaryInv' /\ IsaStep
<1> DEFINE w == IntrStep(ResetSteps[2 + 1], DataPath)
<1>1. Becomes(w) /\ current_exec_index' = 0 /\ execute_func' = "fetch_and_decode_inst" /\ fault' = fault
  BY SequenceLengths DEF Sequence
<1>2. DataOK(w)
  BY SequenceData DEF DataInv
<1>3. Arrives
  BY <1>1 DEF Arrives
<1> HIDE DEF w
<1>4. Boundary(w, spent + 1) /\ spent' = 0 /\ LastOK' /\ AtBoundary'
  BY <1>1, <1>2, <1>3, Arrival
<1>5. PICK t : ResetChain(t, 2) /\ t[2] = DataPath /\ spent = 2
  BY DEF InReset
<1>6. PICK q : ResetChain(q, 3) /\ q[3] = w
  <2> DEFINE z == 2
  <2>1. w = IntrStep(ResetSteps[z + 1], t[z]) /\ z \in Nat /\ ResetChain(t, z) /\ z + 1 = 3
    BY ONLY <1>5 DEF w
  <2> HIDE DEF z
  <2>2. \E q : ResetChain(q, z + 1) /\ q[z + 1] = w
    BY ONLY <2>1, SequenceGrows
  <2> QED
    BY ONLY <2>1, <2>2
<1>7. InstructionSet!Reset
  <2>1. DataOK(q[0]) /\ Behind(q[0].reg) /\ q[0].mem = last.mem
        /\ \A j \in 0 .. 2 : q[j + 1] = IntrStep(ResetSteps[j + 1], q[j])
    BY ONLY <1>6 DEF ResetChain
  <2>2. Boundary(q[3], 3)
    BY ONLY <1>4, <1>5, <1>6
  <2> QED
    BY ONLY BoundaryInv, <2>1, <2>2, ResetDone DEF BoundaryInv
<1>8. Between'
  BY ONLY <1>1, <1>4, ~reset_pin' DEF Between
<1> QED
  BY ONLY <1>4, <1>7, <1>8 DEF BoundaryInv, IsaStep, InstructionSet!Next

\* Every cycle of a reset.
LEMMA ResetBoundary ==
  ASSUME BoundaryInv, DataInv, TableInv, HistoryMoves, ResetHandler1 \/ ResetHandler2
  PROVE  BoundaryInv' /\ IsaStep
<1>1. CASE ResetHandler1
  <2>1. Clocked /\ reset_pin /\ ~reset_pin' /\ Sequence(ResetSteps, "reset_handler2", 0)
    BY <1>1 DEF ResetHandler1
  <2>2. Behind(cpu_reg) /\ mem = last.mem
    BY <2>1 DEF BoundaryInv, Between
  <2> DEFINE t == [j \in {0} |-> DataPath]  z == 0
  <2>3. t[z] = DataPath
    OBVIOUS
  <2>4. ResetChain(t, z)
    <3>1. DataPath.reg = cpu_reg /\ DataPath.mem = mem
      BY DEF DataPath
    <3>2. DataOK(t[0]) /\ Behind(t[0].reg) /\ t[0].mem = last.mem
      BY <2>2, <2>3, <3>1 DEF DataInv
    <3> QED
      BY <3>2 DEF ResetChain
  <2>5. z \in 0 .. 1 /\ (IF reset_pin THEN 1 ELSE spent + 1) = z + 1 /\ Sequence(ResetSteps, "reset_handler2", z)
    BY <2>1
  <2> HIDE DEF t, z
  <2> QED
    BY ONLY BoundaryInv, DataInv, HistoryMoves, <2>1, <2>3, <2>4, <2>5, ResetGoesOn
<1>2. CASE ResetHandler2
  <2>1. Clocked /\ ~reset_pin /\ execute_func = "reset_handler2" /\ ~reset_pin'
        /\ Sequence(ResetSteps, "reset_handler2", current_exec_index)
    BY <1>2 DEF ResetHandler2, Running, pinVars
  <2>2. current_exec_index \in 1 .. 2
    BY <2>1 DEF TableInv, HandlerSteps
  <2>3. InReset
    BY <2>1 DEF BoundaryInv, Between
  <2>4. CASE current_exec_index = 1
    <3>1. PICK t : ResetChain(t, current_exec_index) /\ t[current_exec_index] = DataPath
      BY <2>3 DEF InReset
    <3>2. current_exec_index \in 0 .. 1 /\ (IF reset_pin THEN 1 ELSE spent + 1) = current_exec_index + 1
      BY <2>1, <2>3, <2>4 DEF InReset
    <3> QED
      BY ONLY BoundaryInv, DataInv, HistoryMoves, <2>1, <3>1, <3>2, ResetGoesOn
  <2>5. CASE current_exec_index = 2
    <3>1. Sequence(ResetSteps, "reset_handler2", 2)
      BY ONLY <2>1, <2>5
    <3> QED
      BY ONLY BoundaryInv, DataInv, HistoryMoves, <2>1, <2>3, <2>5, <3>1, ResetEnds
  <2> QED
    BY ONLY <2>2, <2>4, <2>5
<1> QED
  BY <1>1, <1>2

\* The same for an interrupt.
LEMMA NmiGoesOn ==
  ASSUME BoundaryInv, Clocked, DataInv, HistoryMoves, NEW i \in 0 .. 4,
         Sequence(NmiSteps, "nmi_handler", i), ~reset_pin', ~reset_pin,
         NEW t, NmiChain(t, i), t[i] = DataPath, spent = i
  PROVE  BoundaryInv' /\ IsaStep
<1> DEFINE w == IntrStep(NmiSteps[i + 1], DataPath)
<1>1. Becomes(w) /\ current_exec_index' = i + 1 /\ execute_func' = "nmi_handler" /\ fault' = fault
  BY SequenceLengths DEF Sequence
<1>2. DataOK(w)
  BY SequenceData DEF DataInv
<1>3. ~Arrives
  BY <1>1 DEF Arrives
<1>4. last' = last /\ spent' = i + 1 /\ IsaStep
  BY <1>3, NoArrival
<1> HIDE DEF w
<1>5. PICK q : NmiChain(q, i + 1) /\ q[i + 1] = w
  <2>1. w = IntrStep(NmiSteps[i + 1], t[i]) /\ i \in Nat
    BY DEF w
  <2> QED
    BY ONLY <2>1, NmiChain(t, i), SequenceGrows
<1>6. NmiChain(q, i + 1)' /\ DataPath' = w
  BY <1>1, <1>2, <1>4, <1>5, LastKept, BecomesIs
<1>7. InNmi'
  BY ONLY <1>1, <1>4, <1>5, <1>6 DEF InNmi
<1>8. LastOK'
  BY <1>4, LastKept DEF BoundaryInv
<1>9. Between'
  BY ONLY <1>1, <1>7, ~reset_pin' DEF Between
<1> QED
  BY ONLY <1>4, <1>8, <1>9 DEF BoundaryInv

\* and its last one.
LEMMA NmiEnds ==
  ASSUME BoundaryInv, Clocked, DataInv, HistoryMoves, execute_func = "nmi_handler",
         Sequence(NmiSteps, "nmi_handler", 5), ~reset_pin', InNmi, current_exec_index = 5
  PROVE  BoundaryInv' /\ IsaStep
<1> DEFINE w == IntrStep(NmiSteps[5 + 1], DataPath)
<1>1. Becomes(w) /\ current_exec_index' = 0 /\ execute_func' = "fetch_and_decode_inst" /\ fault' = fault
  BY SequenceLengths DEF Sequence
<1>2. DataOK(w)
  BY SequenceData DEF DataInv
<1>3. Arrives
  BY <1>1 DEF Arrives
<1> HIDE DEF w
<1>4. Boundary(w, spent + 1) /\ spent' = 0 /\ LastOK' /\ AtBoundary'
  BY <1>1, <1>2, <1>3, Arrival
<1>5. PICK t : NmiChain(t, 5) /\ t[5] = DataPath /\ spent = 5
  BY DEF InNmi
<1>6. PICK q : NmiChain(q, 6) /\ q[6] = w
  <2> DEFINE z == 5
  <2>1. w = IntrStep(NmiSteps[z + 1], t[z]) /\ z \in Nat /\ NmiChain(t, z) /\ z + 1 = 6
    BY ONLY <1>5 DEF w
  <2> HIDE DEF z
  <2>2. \E q : NmiChain(q, z + 1) /\ q[z + 1] = w
    BY ONLY <2>1, SequenceGrows
  <2> QED
    BY ONLY <2>1, <2>2
<1>7. InstructionSet!Nmi
  <2>1. DataOK(q[0]) /\ q[0].reg = last.reg /\ q[0].mem = last.mem
        /\ \A j \in 0 .. 5 : q[j + 1] = IntrStep(NmiSteps[j + 1], q[j])
    BY ONLY <1>6 DEF NmiChain
  <2>2. Boundary(q[6], 6)
    BY ONLY <1>4, <1>5, <1>6
  <2> QED
    BY ONLY BoundaryInv, <2>1, <2>2, NmiDone DEF BoundaryInv
<1>8. Between'
  BY ONLY <1>1, <1>4, ~reset_pin' DEF Between
<1> QED
  BY ONLY <1>4, <1>7, <1>8 DEF BoundaryInv, IsaStep, InstructionSet!Next

\* Every cycle of an interrupt,
LEMMA NmiBoundary ==
  ASSUME BoundaryInv, DataInv, TableInv, HistoryMoves, NmiHandler
  PROVE  BoundaryInv' /\ IsaStep
<1>1. Clocked /\ ~reset_pin /\ ~reset_pin' /\ NmiEntered
      /\ Sequence(NmiSteps, "nmi_handler", current_exec_index)
  BY DEF NmiHandler
<1>2. CASE execute_func = "fetch_and_decode_inst"
  <2>1. AtBoundary
    BY <1>1, <1>2 DEF BoundaryInv, Between
  <2> DEFINE t == [j \in {0} |-> DataPath]  z == 0
  <2>2. t[z] = DataPath
    OBVIOUS
  <2>3. NmiChain(t, z)
    <3>1. DataPath.reg = cpu_reg /\ DataPath.mem = mem
      BY DEF DataPath
    <3>2. DataOK(t[0]) /\ t[0].reg = last.reg /\ t[0].mem = last.mem
      BY <2>1, <2>2, <3>1 DEF DataInv, AtBoundary
    <3> QED
      BY <3>2 DEF NmiChain
  <2>4. z \in 0 .. 4 /\ spent = z /\ current_exec_index = z
    BY <1>2, <2>1 DEF AtBoundary, TableInv, HandlerSteps
  <2> HIDE DEF t, z
  <2>5. Sequence(NmiSteps, "nmi_handler", z)
    BY ONLY <1>1, <2>4
  <2> QED
    BY ONLY BoundaryInv, DataInv, HistoryMoves, <1>1, <2>2, <2>3, <2>4, <2>5, NmiGoesOn
<1>3. CASE execute_func = "nmi_handler"
  <2>1. current_exec_index \in 1 .. 5
    BY <1>3 DEF TableInv, HandlerSteps
  <2>2. InNmi
    BY <1>1, <1>3 DEF BoundaryInv, Between
  <2>3. CASE current_exec_index \in 1 .. 4
    <3>1. PICK t : NmiChain(t, current_exec_index) /\ t[current_exec_index] = DataPath
      BY <2>2 DEF InNmi
    <3>2. current_exec_index \in 0 .. 4 /\ spent = current_exec_index
      BY <2>2, <2>3 DEF InNmi
    <3> QED
      BY ONLY BoundaryInv, DataInv, HistoryMoves, <1>1, <3>1, <3>2, NmiGoesOn
  <2>4. CASE current_exec_index = 5
    <3>1. Sequence(NmiSteps, "nmi_handler", 5)
      BY ONLY <1>1, <2>4
    <3> QED
      BY ONLY BoundaryInv, DataInv, HistoryMoves, <1>1, <1>3, <2>2, <2>4, <3>1, NmiEnds
  <2> QED
    BY ONLY <2>1, <2>3, <2>4
<1> QED
  BY ONLY <1>1, <1>2, <1>3 DEF NmiEntered

\* A cycle that makes the CPU stop.
LEMMA Halts ==
  ASSUME BoundaryInv, HistoryMoves, ~Arrives, fault' # "none"
  PROVE  BoundaryInv' /\ IsaStep
<1>1. last' = last /\ IsaStep
  BY NoArrival
<1>2. LastOK'
  BY <1>1, LastKept DEF BoundaryInv
<1> QED
  BY <1>1, <1>2 DEF BoundaryInv, Clocked

\* What a fetch leaves: the pc is past the opcode, and the rest is as at the boundary.
LEMMA Fetched ==
  ASSUME AtBoundary, DataInv, NEW v, v = load_imm(DataPath)
  PROVE  Reached(v, 1) /\ v.mem = last.mem /\ Behind(v.reg)
<1>1. DataPath.reg = last.reg /\ DataPath.mem = last.mem
  BY DEF DataPath, AtBoundary
<1>2. v = PathOf(WithPc(last.reg, Add16(last.reg.pc, 1)), last.mem, Read(last.mem, last.reg.pc), DataPath.addr)
  BY ONLY <1>1, FetchIs, v = load_imm(DataPath), DataInv DEF DataInv
<1>3. v.reg = WithPc(last.reg, Add16(last.reg.pc, 1)) /\ v.mem = last.mem
  BY ONLY <1>2, PathHas
<1>4. DataOK(v)
  BY LoadPcTyped DEF DataInv
<1>5. v.reg \in Register
  BY <1>4 DEF DataOK
<1>6. v.reg.acc = last.reg.acc /\ v.reg.x = last.reg.x /\ v.reg.y = last.reg.y
      /\ v.reg.sp = last.reg.sp /\ v.reg.status = last.reg.status
  BY ONLY <1>3 DEF WithPc, Regs
<1> QED
  BY ONLY <1>3, <1>4, <1>5, <1>6 DEF Reached, Behind

\* Every fetch, also one at which the debugger resets the CPU.
LEMMA FetchBoundary ==
  ASSUME BoundaryInv, DataInv, TableInv, HistoryMoves, FetchAndDecode
  PROVE  BoundaryInv' /\ IsaStep
<1> DEFINE s == load_memory(DataPath, cpu_reg.pc)
           v == [s EXCEPT !.reg.pc = Add16(@, 1)]
<1>1. Clocked /\ ~reset_pin /\ execute_func = "fetch_and_decode_inst" /\ current_exec_index' = current_exec_index
  BY DEF FetchAndDecode, Running
<1>2. ~Arrives
  BY <1>1 DEF Arrives
<1>3. last' = last /\ spent' = spent + 1 /\ IsaStep
  BY <1>1, <1>2, NoArrival
<1>4. CASE s.data \notin DOMAIN opcode_list
  <2>1. fault' # "none"
    BY <1>4 DEF FetchAndDecode, Fails
  <2> QED
    BY <1>2, <2>1, Halts
<1>5. CASE s.data \in DOMAIN opcode_list
  <2>1. Becomes(v) /\ current_inst' = s.data /\ execute_func' = "execute_inst"
    BY <1>5 DEF FetchAndDecode
  <2>2. AtBoundary /\ current_exec_index = 0
    BY <1>1 DEF BoundaryInv, Between, TableInv, HandlerSteps
  <2>3. DataPath.reg = cpu_reg /\ DataPath.mem = mem
    BY DEF DataPath
  <2>4. v = load_imm(DataPath)
    BY <2>3 DEF load_imm
  <2>5. s.data = Read(last.mem, last.reg.pc)
    <3>1. s.data = Read(mem, cpu_reg.pc)
      BY <2>3 DEF load_memory, DataInv, DataOK
    <3> QED
      BY ONLY <2>2, <3>1 DEF AtBoundary
  <2> HIDE DEF s, v
  <2>6. Reached(v, 1) /\ v.mem = last.mem /\ Behind(v.reg)
    BY ONLY <2>2, <2>4, DataInv, Fetched
  <2>7. DataOK(v)
    BY <2>6 DEF Reached
  <2>8. DataPath' = v /\ cpu_reg' = v.reg /\ mem' = v.mem
    BY ONLY <2>1, <2>7, BecomesIs
  <2>9. Behind(cpu_reg') /\ mem' = last.mem
    BY ONLY <2>6, <2>8
  <2>10. LastOK' /\ Behind(cpu_reg)' /\ (mem = last.mem)'
    BY ONLY <1>3, <2>9, LastKept, BoundaryInv DEF BoundaryInv
  <2>11. PICK t : t[0] = v /\ \A inst : Chain(t, inst, 0)
    <3> DEFINE z == 0  u == [j \in {0} |-> v]
    <3>1. u[0] = v /\ \A j \in 0 .. z : u[j] = v
      OBVIOUS
    <3>2. \A j \in 0 .. z - 1 : FALSE
      OBVIOUS
    <3>3. 0 = z
      OBVIOUS
    <3> HIDE DEF z, u
    <3>4. ASSUME NEW inst PROVE Chain(u, inst, z)
      <4>1. Reached(u[0], 1)
        BY ONLY <2>6, <3>1
      <4>2. \A j \in 0 .. z : DataOK(u[j])
        BY ONLY <2>7, <3>1
      <4> QED
        BY ONLY <3>2, <4>1, <4>2 DEF Chain
    <3> QED
      BY ONLY <3>1, <3>3, <3>4
  <2>12. InInstruction'
    <3>1. current_exec_index' = 0 /\ spent' = 0 + 1
      BY <1>1, <1>3, <2>2 DEF AtBoundary
    <3>2. \A inst : Chain(t, inst, 0)'
      BY ONLY <1>3, <2>11, LastKept
    <3>3. current_inst' = Read(last'.mem, last'.reg.pc)
      BY ONLY <1>3, <2>1, <2>5
    <3>4. Chain(t, opcode_list[current_inst], 0)'
      BY ONLY <3>2
    <3>5. t[0] = DataPath'
      BY ONLY <2>8, <2>11
    <3> QED
      BY ONLY <3>1, <3>3, <3>4, <3>5 DEF InInstruction
  <2>13. Between'
    BY ONLY <2>1, <2>10, <2>12 DEF Between
  <2> QED
    BY ONLY <1>3, <2>10, <2>13 DEF BoundaryInv
<1> QED
  BY <1>4, <1>5

\* A step of an instruction that is not its last,
LEMMA ExecuteGoesOn ==
  ASSUME BoundaryInv, DataInv, TableInv, HistoryMoves, ExecuteInst,
         NEW inst, inst = opcode_list[current_inst], NEW i, i = current_exec_index, i \in 0 .. 5,
         current_inst \in DOMAIN opcode_list, ~FuncFails(i, inst), ~ExecDone(i, inst, DataPath)
  PROVE  BoundaryInv' /\ IsaStep
<1> DEFINE w == Func(i, inst, DataPath)
<1>1. Clocked /\ ~reset_pin /\ execute_func = "execute_inst" /\ ~reset_pin'
      /\ current_inst' = current_inst
  BY DEF ExecuteInst, Running, pinVars
<1>2. /\ Becomes(w) /\ fault' = fault /\ current_exec_index' = i + 1
      /\ execute_func' = execute_func
  BY DEF ExecuteInst
<1>3. DataOK(w)
  BY FuncTyped DEF DataInv
<1>4. ~Arrives
  BY <1>1, <1>2 DEF Arrives
<1>5. last' = last /\ spent' = spent + 1 /\ IsaStep
  BY <1>1, <1>4, NoArrival
<1>6. InInstruction
  BY <1>1 DEF BoundaryInv, Between
<1>7. PICK t : Chain(t, inst, i) /\ t[i] = DataPath
  BY <1>6 DEF InInstruction
<1>8. w = Func(i, inst, t[i]) /\ ~ExecDone(i, inst, t[i]) /\ i \in Nat
  BY <1>7
<1> HIDE DEF w
<1>9. PICK q : Chain(q, inst, i + 1) /\ q[i + 1] = w
  BY ONLY <1>3, <1>7, <1>8, ~FuncFails(i, inst), ChainGrows
<1>10. DataPath' = w
  BY ONLY <1>2, <1>3, BecomesIs
<1>11. InInstruction'
  <2>1. current_inst' = Read(last'.mem, last'.reg.pc) /\ spent' = current_exec_index' + 1
    BY <1>1, <1>2, <1>5, <1>6 DEF InInstruction
  <2>2. \A p, ins, n : Chain(p, ins, n) => Chain(p, ins, n)'
    BY ONLY <1>5, LastKept
  <2>3. Chain(q, opcode_list[current_inst], current_exec_index)'
    BY ONLY <1>1, <1>2, <1>9, <2>2, inst = opcode_list[current_inst]
  <2>4. q[current_exec_index'] = DataPath'
    BY ONLY <1>2, <1>9, <1>10
  <2> QED
    BY ONLY <2>1, <2>3, <2>4 DEF InInstruction
<1>12. LastOK'
  BY <1>5, LastKept DEF BoundaryInv
<1>13. Between'
  BY ONLY <1>1, <1>2, <1>11 DEF Between
<1> QED
  BY ONLY <1>5, <1>12, <1>13 DEF BoundaryInv

\* and its last one.
LEMMA ExecuteEnds ==
  ASSUME BoundaryInv, DataInv, TableInv, HistoryMoves, ExecuteInst,
         NEW inst, inst = opcode_list[current_inst], NEW i, i = current_exec_index, i \in 0 .. 5,
         current_inst \in DOMAIN opcode_list, ~FuncFails(i, inst), ExecDone(i, inst, DataPath)
  PROVE  BoundaryInv' /\ IsaStep
<1> DEFINE w == Func(i, inst, DataPath)
<1>1. Clocked /\ ~reset_pin /\ execute_func = "execute_inst" /\ ~reset_pin'
  BY DEF ExecuteInst, Running, pinVars
<1>2. CycleCheck(inst, i + 1)
  BY FuncFits
<1>3. Becomes(w) /\ execute_func' = "fetch_and_decode_inst"
  BY <1>2 DEF ExecuteInst
<1>4. DataOK(w)
  BY FuncTyped DEF DataInv
<1>5. Arrives
  BY <1>1, <1>3 DEF Arrives
<1>6. InInstruction
  BY <1>1 DEF BoundaryInv, Between
<1>7. PICK t : Chain(t, inst, i) /\ t[i] = DataPath
  BY <1>6 DEF InInstruction
<1>8. w = Func(i, inst, t[i]) /\ ExecDone(i, inst, t[i])
  BY <1>7
<1>9. inst.op # "SED" /\ i < Len(Steps(inst))
  <2>1. Len(Steps(inst)) \in Int
    BY FuncFits DEF Fits
  <2> QED
    BY <2>1 DEF FuncFails
<1> HIDE DEF w
<1>10. Boundary(w, spent + 1) /\ spent' = 0 /\ LastOK' /\ AtBoundary'
  BY ONLY <1>3, <1>4, <1>5, HistoryMoves, Arrival
<1>11. spent + 1 = i + 2 /\ current_inst = Read(last.mem, last.reg.pc)
  BY <1>6 DEF InInstruction
<1>12. Finishing(t, inst, i)
  BY <1>7, <1>8, <1>9 DEF Finishing
<1>13. Boundary(Func(i, inst, t[i]), i + 2)
  BY ONLY <1>8, <1>10, <1>11
<1>14. InstructionSet!Instruction
  BY ONLY BoundaryInv, current_inst \in DOMAIN opcode_list, inst = opcode_list[current_inst],
          <1>9, <1>11, <1>12, <1>13, InstructionDone DEF BoundaryInv
<1>15. Between'
  BY ONLY <1>1, <1>3, <1>10 DEF Between
<1> QED
  BY ONLY <1>10, <1>14, <1>15 DEF BoundaryInv, IsaStep, InstructionSet!Next

\* Every cycle of an instruction.
LEMMA ExecuteBoundary ==
  ASSUME BoundaryInv, DataInv, TableInv, HistoryMoves, ExecuteInst
  PROVE  BoundaryInv' /\ IsaStep
<1> DEFINE inst == opcode_list[current_inst]
           i == current_exec_index
<1>1. execute_func = "execute_inst"
  BY DEF ExecuteInst, Running
<1>2. current_inst \in DOMAIN opcode_list /\ i \in 0 .. 6
  BY <1>1 DEF TableInv, HandlersTyped, HandlerSteps, InstInv
<1>3. CASE FuncFails(i, inst)
  <2>1. fault' # "none" /\ execute_func' = execute_func
    BY <1>3 DEF ExecuteInst, Fails
  <2>2. ~Arrives
    BY <1>1, <2>1 DEF Arrives
  <2> QED
    BY <2>1, <2>2, Halts
<1>4. CASE ~FuncFails(i, inst)
  <2>1. i + 1 \in 1 .. 6
    BY <1>2, <1>4, FuncFits
  <2>2. i \in 0 .. 5
    BY <1>2, <2>1
  <2> HIDE DEF inst, i
  <2>3. inst = opcode_list[current_inst] /\ i = current_exec_index
    BY DEF inst, i
  <2> QED
    BY ONLY BoundaryInv, DataInv, TableInv, HistoryMoves, ExecuteInst, <1>2, <1>4, <2>2, <2>3,
            ExecuteGoesOn, ExecuteEnds
<1> QED
  BY <1>3, <1>4

\* The debugger ends the emulation.
LEMMA QuitBoundary ==
  ASSUME BoundaryInv, HistoryMoves, DebuggerQuits
  PROVE  BoundaryInv' /\ IsaStep
<1>1. fault' # "none" /\ execute_func' = execute_func
  BY DEF DebuggerQuits, Fails
<1>2. ~Arrives
  BY <1>1 DEF Arrives
<1> QED
  BY <1>1, <1>2, Halts

\* A step in which the CPU does nothing.
LEMMA IdleBoundary ==
  ASSUME BoundaryInv, UNCHANGED <<last, spent, took>>,
         UNCHANGED <<dataVars, current_inst, current_exec_index, execute_func, reset_pin, fault>>
  PROVE  BoundaryInv' /\ IsaStep
<1>1. last' = last /\ spent' = spent /\ took' = took /\ current_inst' = current_inst
      /\ current_exec_index' = current_exec_index /\ execute_func' = execute_func
      /\ reset_pin' = reset_pin /\ fault' = fault /\ cpu_reg' = cpu_reg /\ mem' = mem
  BY DEF dataVars
<1>2. DataPath' = DataPath
  BY DEF dataVars, DataPath
<1>3. LastOK => LastOK'
  BY ONLY <1>1, LastKept
<1>4. InInstruction => InInstruction'
  <2>1. \A p, ins, n : Chain(p, ins, n) => Chain(p, ins, n)'
    BY ONLY <1>1, LastKept
  <2> QED
    BY ONLY <1>1, <1>2, <2>1 DEF InInstruction
<1>5. InNmi => InNmi'
  <2>1. \A p, n : NmiChain(p, n) => NmiChain(p, n)'
    BY ONLY <1>1, LastKept
  <2> QED
    BY ONLY <1>1, <1>2, <2>1 DEF InNmi
<1>6. InReset => InReset'
  <2>1. \A p, n : ResetChain(p, n) => ResetChain(p, n)'
    BY ONLY <1>1, LastKept
  <2> QED
    BY ONLY <1>1, <1>2, <2>1 DEF InReset
<1>7. Behind(cpu_reg) => Behind(cpu_reg)'
  BY ONLY <1>1 DEF Behind
<1>8. Between => Between'
  BY ONLY <1>1, <1>4, <1>5, <1>6, <1>7 DEF Between, AtBoundary
<1> QED
  BY ONLY BoundaryInv, <1>1, <1>3, <1>8 DEF BoundaryInv, Clocked, IsaStep, InstructionSet!isaVars

\* Every step keeps BoundaryInv, and is one of the instruction set or none.
LEMMA BoundaryStep ==
  BoundaryInv /\ TableInv /\ DataInv /\ [HistoryNext]_isaHistory => BoundaryInv' /\ IsaStep
<1> SUFFICES ASSUME BoundaryInv, TableInv, DataInv, [HistoryNext]_isaHistory
             PROVE  BoundaryInv' /\ IsaStep
  OBVIOUS
<1>1. CASE HistoryCycle
  <2>1. HistoryMoves
    BY <1>1 DEF HistoryCycle, HistoryMoves
  <2>2. CASE ResetHandler1 \/ ResetHandler2
    BY <2>1, <2>2, ResetBoundary
  <2>3. CASE NmiHandler
    BY <2>1, <2>3, NmiBoundary
  <2>4. CASE FetchAndDecode
    BY <2>1, <2>4, FetchBoundary
  <2>5. CASE DebuggerQuits
    BY <2>1, <2>5, QuitBoundary
  <2>6. CASE ExecuteInst
    BY <2>1, <2>6, ExecuteBoundary
  <2> QED
    BY <1>1, <2>2, <2>3, <2>4, <2>5, <2>6 DEF HistoryCycle, ClockCpu
<1>2. CASE HistoryNmi
  BY <1>2, IdleBoundary DEF HistoryNmi, RaiseNmi, historyVars
<1>3. CASE UNCHANGED isaHistory
  BY <1>3, IdleBoundary DEF isaHistory, vars, historyVars, pinVars
<1> QED
  BY <1>1, <1>2, <1>3 DEF HistoryNext

\* Power on is a boundary.
LEMMA InitBoundary == HistoryInit => BoundaryInv
<1> SUFFICES ASSUME HistoryInit PROVE BoundaryInv
  OBVIOUS
<1>1. last = [reg |-> cpu_reg, mem |-> mem] /\ spent = 0 /\ Init
  BY DEF HistoryInit
<1>2. last.reg = cpu_reg /\ last.mem = mem
  BY <1>1
<1>3. cpu_reg \in Register /\ IsMemory(mem)
  BY <1>1, InitData, DataInvIs
<1>4. execute_func = "NULL"
  BY <1>1 DEF Init
<1> QED
  BY ONLY <1>1, <1>2, <1>3, <1>4 DEF BoundaryInv, LastOK, Between, AtBoundary, Behind

\* From boundary to boundary the CPU does exactly one instruction, one interrupt or one
\* reset of the instruction set, for every program, wherever its code, operands and stack
\* lie, and whenever the interrupts and the debugger's resets come.
THEOREM EveryStepIsAnInstruction == HistorySpec => StepsAreInstructions
<1>1. HistoryInit => TableInv /\ DataInv /\ BoundaryInv
  BY InitTable, InitData, InitBoundary DEF HistoryInit
<1>2. TableInv /\ DataInv /\ BoundaryInv /\ [HistoryNext]_isaHistory
        => TableInv' /\ DataInv' /\ BoundaryInv'
  BY TableStep, DataStep, BoundaryStep, HistoryIsNext
<1>3. TableInv /\ DataInv /\ BoundaryInv /\ [HistoryNext]_isaHistory
        => [InstructionSet!Next]_(InstructionSet!isaVars)
  BY BoundaryStep DEF IsaStep
<1> QED
  BY <1>1, <1>2, <1>3, PTL DEF HistorySpec, StepsAreInstructions

\* The same from power on: the CPU that works cycle by cycle implements the instruction set.
THEOREM CpuImplementsIsa == HistorySpec => ImplementsIsa
<1>1. HistoryInit => InstructionSet!Init
  <2> SUFFICES ASSUME HistoryInit PROVE InstructionSet!Init
    OBVIOUS
  <2>1. last.reg = cpu_reg /\ last.mem = mem /\ took = 0
    BY DEF HistoryInit
  <2> QED
    BY <2>1 DEF HistoryInit, Init, InstructionSet!Init
<1>2. HistorySpec => [][InstructionSet!Next]_(InstructionSet!isaVars)
  BY EveryStepIsAnInstruction DEF StepsAreInstructions
<1> QED
  BY <1>1, <1>2, PTL DEF HistorySpec, ImplementsIsa, InstructionSet!Spec
=============================================================================
