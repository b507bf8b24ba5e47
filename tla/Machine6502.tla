---------------------------- MODULE Machine6502 ----------------------------
(***************************************************************************)
(* The data the 6502 core works on: bytes, 16 bit addresses, the status    *)
(* register and memory (emulator/6502core.h, the C types of 6502core.c and *)
(* cpu.c).  The bitwise operators are written on the set of the bits that  *)
(* are 1, because theorems cannot be stated above module Bitwise.          *)
(***************************************************************************)
EXTENDS Integers, Sequences

Byte    == 0 .. 255
Address == 0 .. 65535

Word(lo, hi) == hi * 256 + lo
Lo(a) == a % 256
Hi(a) == a \div 256

\* Additions to an unsigned char and to an unsigned short.
Add8(a, d)  == (a + d) % 256
Add16(a, d) == (a + d) % 65536

\* (char) b, where char is signed
Signed(b) == IF b < 128 THEN b ELSE b - 256

SamePage(a, b) == Hi(a) = Hi(b)

\* A truth value as 0 or 1.
Bit(cond) == IF cond THEN 1 ELSE 0

\* 2^i, which the provers do not compute
Place == [i \in 0 .. 7 |-> <<1, 2, 4, 8, 16, 32, 64, 128>>[i + 1]]

Bits(b) == {i \in 0 .. 7 : (b \div Place[i]) % 2 = 1}
FromBits(S) ==
    Bit(0 \in S) + 2 * Bit(1 \in S) + 4 * Bit(2 \in S) + 8 * Bit(3 \in S)
    + 16 * Bit(4 \in S) + 32 * Bit(5 \in S) + 64 * Bit(6 \in S) + 128 * Bit(7 \in S)

And(a, b) == FromBits(Bits(a) \cap Bits(b))
Or(a, b)  == FromBits(Bits(a) \cup Bits(b))
Xor(a, b) == FromBits((Bits(a) \cup Bits(b)) \ (Bits(a) \cap Bits(b)))

-----------------------------------------------------------------------------
(* The status register is the set of the flags that are 1. *)

Flag == {"carry", "zero", "irq_disable", "decimal",
         "break_mode", "researved", "overflow", "negative"}

\* The bit a flag is in the byte memcpy makes of struct status_reg.
BitOf == [carry |-> 0, zero |-> 1, irq_disable |-> 2, decimal |-> 3,
          break_mode |-> 4, researved |-> 5, overflow |-> 6, negative |-> 7]

PackStatus(status) == FromBits({BitOf[f] : f \in status})
UnpackStatus(b)    == {f \in Flag : BitOf[f] \in Bits(b)}

With(status, f, cond) == IF cond THEN status \cup {f} ELSE status \ {f}

SetNZ(status, b) == With(With(status, "negative", b >= 128), "zero", b = 0)

Register == [acc : Byte, x : Byte, y : Byte, sp : Byte,
             status : SUBSET Flag, pc : Address]

-----------------------------------------------------------------------------
(* Memory: a few cells that matter, and the byte every other cell holds. *)

IsMemory(m) ==
    /\ m = [cells |-> m.cells, rest |-> m.rest]
    /\ m.cells = [a \in DOMAIN m.cells |-> m.cells[a]]
    /\ m.rest \in Byte
    /\ \A a \in DOMAIN m.cells : a \in Address /\ m.cells[a] \in Byte

Read(m, a) == IF a \in DOMAIN m.cells THEN m.cells[a] ELSE m.rest
Write(m, a, b) ==
    [m EXCEPT !.cells = [c \in {a} \cup DOMAIN @ |-> IF c = a THEN b ELSE m.cells[c]]]

STACK_BASE   == 256
NMI_VECTOR   == 65530
RESET_VECTOR == 65532
=============================================================================
