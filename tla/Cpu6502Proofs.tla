--------------------------- MODULE Cpu6502Proofs ----------------------------
(***************************************************************************)
(* For every program: the core has a step for every cycle of the opcode    *)
(* table and starts none of its sequences in the middle (TableInv),        *)
(* interrupts are taken (PinsInv, WaitInv), and every instruction leaves   *)
(* bytes in the registers and memory (DataInv).                            *)
(***************************************************************************)
EXTENDS Cpu6502Isa, TLAPS

-----------------------------------------------------------------------------
(* Bytes, addresses, flags and memory. *)

\* The arithmetic of the data path stays in its types.
LEMMA InAddress == ASSUME NEW a \in Int, 0 <= a, a <= 65535 PROVE a \in Address
<1> DEFINE n == 65535
<1>1. n \in Int /\ a <= n /\ Address = 0 .. n
  BY DEF Address
<1> HIDE DEF n
<1> QED
  BY <1>1

LEMMA InByte == ASSUME NEW a \in Int, 0 <= a, a <= 255 PROVE a \in Byte
  BY DEF Byte

LEMMA ByteIs == ASSUME NEW b \in Byte PROVE b \in Int /\ 0 <= b /\ b <= 255 /\ Signed(b) \in Int
  BY DEF Byte, Signed

LEMMA AddressIs == ASSUME NEW a \in Address PROVE a \in Int /\ 0 <= a /\ a <= 65535
  BY DEF Address

LEMMA Add8Typed == ASSUME NEW a \in Int, NEW d \in Int PROVE Add8(a, d) \in Byte
<1>1. (a + d) % 256 \in Int /\ 0 <= (a + d) % 256 /\ (a + d) % 256 <= 255
  OBVIOUS
<1> QED
  BY <1>1, InByte DEF Add8

LEMMA Add16Typed == ASSUME NEW a \in Int, NEW d \in Int PROVE Add16(a, d) \in Address
<1>1. (a + d) % 65536 \in Int /\ 0 <= (a + d) % 65536 /\ (a + d) % 65536 <= 65535
  OBVIOUS
<1> QED
  BY <1>1, InAddress DEF Add16

LEMMA WordTyped == ASSUME NEW lo \in Byte, NEW hi \in Byte PROVE Word(lo, hi) \in Address
<1>1. hi * 256 + lo \in Int /\ 0 <= hi * 256 + lo /\ hi * 256 + lo <= 65535
  BY ByteIs
<1> QED
  BY <1>1, InAddress DEF Word

LEMMA HalvesTyped == ASSUME NEW a \in Address PROVE Lo(a) \in Byte /\ Hi(a) \in Byte
<1>1. a \in Int /\ 0 <= a /\ a <= 65535
  BY AddressIs
<1>2. a % 256 \in Int /\ 0 <= a % 256 /\ a % 256 <= 255
  BY <1>1
<1>3. a \div 256 \in Int /\ 0 <= a \div 256 /\ a \div 256 <= 255
  BY <1>1
<1> QED
  BY <1>2, <1>3, InByte DEF Lo, Hi

\* Eight bits make a byte, whatever else the set holds.
LEMMA BitsMake == \A S : FromBits(S) \in Byte
<1> SUFFICES ASSUME NEW S PROVE FromBits(S) \in Byte
  OBVIOUS
<1>1. \A c \in BOOLEAN : Bit(c) \in 0 .. 1
  BY DEF Bit
<1> DEFINE b(i) == Bit(i \in S)
<1>2. /\ b(0) \in 0 .. 1 /\ b(1) \in 0 .. 1 /\ b(2) \in 0 .. 1 /\ b(3) \in 0 .. 1
      /\ b(4) \in 0 .. 1 /\ b(5) \in 0 .. 1 /\ b(6) \in 0 .. 1 /\ b(7) \in 0 .. 1
  BY DEF Bit
<1>3. FromBits(S) = b(0) + 2 * b(1) + 4 * b(2) + 8 * b(3)
                    + 16 * b(4) + 32 * b(5) + 64 * b(6) + 128 * b(7)
  BY DEF FromBits
<1> HIDE DEF b
<1> QED
  BY <1>2, <1>3 DEF Byte

LEMMA Logic == \A a, b : And(a, b) \in Byte /\ Or(a, b) \in Byte /\ Xor(a, b) \in Byte
  BY BitsMake DEF And, Or, Xor

\* The status is a set of flags whatever byte it is taken from.
LEMMA StatusByte ==
  /\ \A st : PackStatus(st) \in Byte
  /\ \A b : UnpackStatus(b) \in SUBSET Flag
  /\ \A st \in SUBSET Flag, f \in Flag : \A c : With(st, f, c) \in SUBSET Flag
  /\ \A st \in SUBSET Flag : \A b : SetNZ(st, b) \in SUBSET Flag
  /\ \A st \in SUBSET Flag : FixStatus(st) \in SUBSET Flag
<1>1. \A st : PackStatus(st) \in Byte
  BY BitsMake DEF PackStatus
<1>2. \A b : UnpackStatus(b) \in SUBSET Flag
  BY DEF UnpackStatus
<1>3. ASSUME NEW st \in SUBSET Flag, NEW f \in Flag, NEW c PROVE With(st, f, c) \in SUBSET Flag
  BY DEF With
<1>4. ASSUME NEW st \in SUBSET Flag, NEW b PROVE SetNZ(st, b) \in SUBSET Flag
  <2>1. {"negative", "zero"} \subseteq Flag
    BY DEF Flag
  <2> QED
    BY <2>1 DEF SetNZ, With
<1>5. \A st \in SUBSET Flag : FixStatus(st) \in SUBSET Flag
  BY DEF FixStatus, Flag
<1> QED
  BY <1>1, <1>2, <1>3, <1>4, <1>5

LEMMA ReadTyped == \A m, a : IsMemory(m) => Read(m, a) \in Byte
  BY DEF IsMemory, Read

\* A write keeps every cell a byte, also one that no cell was there for.
LEMMA WriteTyped ==
  ASSUME NEW m, IsMemory(m), NEW a \in Address, NEW b \in Byte
  PROVE  IsMemory(Write(m, a, b))
<1> DEFINE w == Write(m, a, b)
           D == {a} \cup DOMAIN m.cells
           c == [x \in D |-> IF x = a THEN b ELSE m.cells[x]]
<1>1. w = [cells |-> c, rest |-> m.rest]
  BY DEF Write, IsMemory
<1>2. w.cells = c /\ w.rest = m.rest
  BY <1>1
<1>3. DOMAIN c = D /\ \A x \in D : c[x] \in Byte
  BY DEF IsMemory
<1>4. \A x \in D : x \in Address
  BY DEF IsMemory
<1>5. c = [x \in DOMAIN c |-> c[x]]
  OBVIOUS
<1> HIDE DEF w, c
<1> QED
  BY <1>1, <1>2, <1>3, <1>4, <1>5 DEF IsMemory, w

-----------------------------------------------------------------------------
(* The opcode table, by the ways an instruction uses its operand. *)

OneStepOps == {"CLC", "CLD", "CLI", "CLV", "DEX", "DEY", "INX", "INY", "NOP", "SEC", "SED", "SEI",
               "TAX", "TAY", "TSX", "TXA", "TXS", "TYA"}

LoadRow(inst) ==
  /\ inst.op \in LoadOps
  /\ \/ inst.addr_mode = "IMM" /\ inst.cycle = 2 /\ ~inst.cycle_aux
     \/ inst.addr_mode = "ZP" /\ inst.cycle = 3 /\ ~inst.cycle_aux
     \/ inst.addr_mode \in {"ZP_X", "ZP_Y", "ABS"} /\ inst.cycle = 4 /\ ~inst.cycle_aux
     \/ inst.addr_mode \in {"ABS_X", "ABS_Y"} /\ inst.cycle = 4 /\ inst.cycle_aux
     \/ inst.addr_mode = "INDEX_INDIR" /\ inst.cycle = 6 /\ ~inst.cycle_aux
     \/ inst.addr_mode = "INDIR_INDEX" /\ inst.cycle = 5 /\ inst.cycle_aux

StoreRow(inst) ==
  /\ inst.op \in StoreOps
  /\ \/ inst.addr_mode = "ZP" /\ inst.cycle = 3
     \/ inst.addr_mode \in {"ZP_X", "ZP_Y", "ABS"} /\ inst.cycle = 4
     \/ inst.addr_mode \in {"ABS_X", "ABS_Y"} /\ inst.cycle = 5
     \/ inst.addr_mode \in {"INDEX_INDIR", "INDIR_INDEX"} /\ inst.cycle = 6

ModifyRow(inst) ==
  /\ inst.op \in ModifyOps
  /\ \/ inst.addr_mode = "ACC" /\ inst.cycle = 2
     \/ inst.addr_mode = "ZP" /\ inst.cycle = 5
     \/ inst.addr_mode \in {"ZP_X", "ABS"} /\ inst.cycle = 6
     \/ inst.addr_mode = "ABS_X" /\ inst.cycle = 7

ControlRow(inst) ==
  \/ inst.op \in BranchOps /\ inst.addr_mode = "REL" /\ inst.cycle = 2
  \/ inst.op = "JMP" /\ inst.addr_mode = "ABS" /\ inst.cycle = 3
  \/ inst.op = "JMP" /\ inst.addr_mode = "IND" /\ inst.cycle = 5
  \/ inst.op = "JSR" /\ inst.addr_mode = "ABS" /\ inst.cycle = 6
  \/ inst.op \in {"PHA", "PHP"} /\ inst.addr_mode = "IMP" /\ inst.cycle = 3
  \/ inst.op \in {"PLA", "PLP"} /\ inst.addr_mode = "IMP" /\ inst.cycle = 4
  \/ inst.op \in {"RTI", "RTS"} /\ inst.addr_mode = "IMP" /\ inst.cycle = 6
  \/ inst.op = "BRK" /\ inst.addr_mode = "IMP" /\ inst.cycle = 7
  \/ inst.op \in OneStepOps /\ inst.addr_mode = "IMP" /\ inst.cycle = 2

\* Every row is one of the four kinds, with the mode and the cycles it says.
LEMMA TheTable ==
  ASSUME NEW c \in DOMAIN opcode_list, NEW inst, inst = opcode_list[c]
  PROVE  /\ c \in Byte
         /\ LoadRow(inst) \/ StoreRow(inst) \/ ModifyRow(inst) \/ ControlRow(inst)
<1>1. PICK r \in Rows : r[1] = c /\ inst = [op |-> r[2], addr_mode |-> r[3], cycle |-> r[4],
             cycle_aux |-> r[5] = 1, inst_len |-> r[6]]
  <2> DEFINE codes == {row[1] : row \in Rows}
             row(code) == CHOOSE r \in Rows : r[1] = code
  <2>1. DOMAIN opcode_list = codes
    BY DEF opcode_list
  <2>2. \E r \in Rows : r[1] = c
    BY <2>1
  <2>3. row(c) \in Rows /\ row(c)[1] = c
    BY <2>2
  <2>4. inst = [op |-> row(c)[2], addr_mode |-> row(c)[3], cycle |-> row(c)[4],
                cycle_aux |-> row(c)[5] = 1, inst_len |-> row(c)[6]]
    BY <2>1 DEF opcode_list
  <2> QED
    BY <2>3, <2>4
<1>2. r[1] \in Byte
  BY DEF Rows, Byte
<1>3. LoadRow(inst) \/ StoreRow(inst) \/ ModifyRow(inst) \/ ControlRow(inst)
  <2>1. inst.op = r[2] /\ inst.addr_mode = r[3] /\ inst.cycle = r[4]
    BY <1>1
  <2>2. inst.cycle_aux <=> r[5] = 1
    BY ONLY <1>1
  <2> QED
    BY <2>1, <2>2 DEF Rows, LoadRow, StoreRow, ModifyRow, ControlRow, LoadOps, StoreOps, ModifyOps, BranchOps, OneStepOps
<1> QED
  BY <1>1, <1>2, <1>3

-----------------------------------------------------------------------------
(* The steps of each row, spelled out. *)

ByteSteps == {"imm", "imm+x", "imm+y", "pc_lo", "pc_hi", "zp_lo", "zp_hi", "addr+x", "addr+y",
              "load", "fetch", "write_back", "branch", "cross", "jump", "jump+1", "load_hi",
              "push_hi", "push_lo", "pop", "pop_status", "pop_addr", "addr", "join", "idle"}

\* What the core's functions have for a row of the table: a step for each
\* cycle, and an end where execute6502 expects it.
StepFits(inst, step, k, n) ==
  /\ \/ step \in ByteSteps
     \/ step = "store" /\ inst.op \in StoreOps
     \/ step = "push" /\ inst.op \in {"PHA", "PHP"}
     \/ step = "modify" /\ inst.op \in ModifyOps
  /\ \/ k = n
     \/ step \in {"addr+x", "addr+y"} /\ inst.op \in LoadOps
     \/ step = "branch"
     \/ k = 1 /\ inst.op \in BranchOps
     => CycleCheck(inst, k)

Fits(inst) ==
  LET s == Steps(inst)
  IN  Len(s) \in 1 .. 6 /\ \A k \in 1 .. Len(s) : StepFits(inst, s[k], k, Len(s))

\* The table of the address steps, entry by entry.
LEMMA ModesAre ==
  /\ DOMAIN AddressSteps = {"ZP", "ZP_X", "ZP_Y", "ABS", "ABS_X", "ABS_Y", "INDEX_INDIR", "INDIR_INDEX"}
  /\ AddressSteps["ZP"] = <<"imm">>
  /\ AddressSteps["ZP_X"] = <<"imm", "imm+x">>
  /\ AddressSteps["ZP_Y"] = <<"imm", "imm+y">>
  /\ AddressSteps["ABS"] = <<"pc_lo", "pc_hi">>
  /\ AddressSteps["ABS_X"] = <<"pc_lo", "pc_hi", "addr+x">>
  /\ AddressSteps["ABS_Y"] = <<"pc_lo", "pc_hi", "addr+y">>
  /\ AddressSteps["INDEX_INDIR"] = <<"imm", "imm+x", "zp_lo", "zp_hi">>
  /\ AddressSteps["INDIR_INDEX"] = <<"imm", "zp_lo", "zp_hi", "addr+y">>
  BY DEF AddressSteps

\* A load has a step for each cycle, and one that may hit early is one the table lets.
LEMMA LoadsFit == ASSUME NEW inst, LoadRow(inst) PROVE Fits(inst)
<1> DEFINE m == inst.addr_mode
           s == Steps(inst)
<1>0. s = LoadSteps(m)
  BY DEF Steps, LoadRow, LoadOps, StoreOps, ModifyOps, BranchOps
<1>1. m \in DOMAIN AddressSteps => s = AddressSteps[m] \o <<"load">>
  BY <1>0, ModesAre DEF LoadSteps
<1>2. CASE m = "ZP"
  <2>1. Len(s) = 2 /\ s[1] = "imm" /\ s[2] = "load"
    BY <1>1, <1>2, ModesAre
  <2> HIDE DEF s
  <2>2. \A k \in 1 .. Len(s) : StepFits(inst, s[k], k, Len(s))
    BY <2>1, <1>2 DEF LoadRow, StepFits, CycleCheck, ByteSteps, LoadOps, BranchOps
  <2> QED
    BY <2>1, <2>2 DEF Fits, s
<1>3. CASE m = "ZP_X"
  <2>1. Len(s) = 3 /\ s[1] = "imm" /\ s[2] = "imm+x" /\ s[3] = "load"
    BY <1>1, <1>3, ModesAre
  <2> HIDE DEF s
  <2>2. \A k \in 1 .. Len(s) : StepFits(inst, s[k], k, Len(s))
    BY <2>1, <1>3 DEF LoadRow, StepFits, CycleCheck, ByteSteps, LoadOps, BranchOps
  <2> QED
    BY <2>1, <2>2 DEF Fits, s
<1>4. CASE m = "ZP_Y"
  <2>1. Len(s) = 3 /\ s[1] = "imm" /\ s[2] = "imm+y" /\ s[3] = "load"
    BY <1>1, <1>4, ModesAre
  <2> HIDE DEF s
  <2>2. \A k \in 1 .. Len(s) : StepFits(inst, s[k], k, Len(s))
    BY <2>1, <1>4 DEF LoadRow, StepFits, CycleCheck, ByteSteps, LoadOps, BranchOps
  <2> QED
    BY <2>1, <2>2 DEF Fits, s
<1>5. CASE m = "ABS"
  <2>1. Len(s) = 3 /\ s[1] = "pc_lo" /\ s[2] = "pc_hi" /\ s[3] = "load"
    BY <1>1, <1>5, ModesAre
  <2> HIDE DEF s
  <2>2. \A k \in 1 .. Len(s) : StepFits(inst, s[k], k, Len(s))
    BY <2>1, <1>5 DEF LoadRow, StepFits, CycleCheck, ByteSteps, LoadOps, BranchOps
  <2> QED
    BY <2>1, <2>2 DEF Fits, s
<1>6. CASE m = "ABS_X"
  <2>1. Len(s) = 4 /\ s[1] = "pc_lo" /\ s[2] = "pc_hi" /\ s[3] = "addr+x" /\ s[4] = "load"
    BY <1>1, <1>6, ModesAre
  <2> HIDE DEF s
  <2>2. \A k \in 1 .. Len(s) : StepFits(inst, s[k], k, Len(s))
    BY <2>1, <1>6 DEF LoadRow, StepFits, CycleCheck, ByteSteps, LoadOps, BranchOps
  <2> QED
    BY <2>1, <2>2 DEF Fits, s
<1>7. CASE m = "ABS_Y"
  <2>1. Len(s) = 4 /\ s[1] = "pc_lo" /\ s[2] = "pc_hi" /\ s[3] = "addr+y" /\ s[4] = "load"
    BY <1>1, <1>7, ModesAre
  <2> HIDE DEF s
  <2>2. \A k \in 1 .. Len(s) : StepFits(inst, s[k], k, Len(s))
    BY <2>1, <1>7 DEF LoadRow, StepFits, CycleCheck, ByteSteps, LoadOps, BranchOps
  <2> QED
    BY <2>1, <2>2 DEF Fits, s
<1>8. CASE m = "INDEX_INDIR"
  <2>1. Len(s) = 5 /\ s[1] = "imm" /\ s[2] = "imm+x" /\ s[3] = "zp_lo" /\ s[4] = "zp_hi" /\ s[5] = "load"
    BY <1>1, <1>8, ModesAre
  <2> HIDE DEF s
  <2>2. \A k \in 1 .. Len(s) : StepFits(inst, s[k], k, Len(s))
    BY <2>1, <1>8 DEF LoadRow, StepFits, CycleCheck, ByteSteps, LoadOps, BranchOps
  <2> QED
    BY <2>1, <2>2 DEF Fits, s
<1>9. CASE m = "INDIR_INDEX"
  <2>1. Len(s) = 5 /\ s[1] = "imm" /\ s[2] = "zp_lo" /\ s[3] = "zp_hi" /\ s[4] = "addr+y" /\ s[5] = "load"
    BY <1>1, <1>9, ModesAre
  <2> HIDE DEF s
  <2>2. \A k \in 1 .. Len(s) : StepFits(inst, s[k], k, Len(s))
    BY <2>1, <1>9 DEF LoadRow, StepFits, CycleCheck, ByteSteps, LoadOps, BranchOps
  <2> QED
    BY <2>1, <2>2 DEF Fits, s
<1>10. CASE m = "IMM"
  <2>1. Len(s) = 1 /\ s[1] = "imm"
    BY <1>0, <1>10 DEF LoadSteps
  <2> HIDE DEF s
  <2>2. \A k \in 1 .. Len(s) : StepFits(inst, s[k], k, Len(s))
    BY <2>1, <1>10 DEF LoadRow, StepFits, CycleCheck, ByteSteps, LoadOps, BranchOps
  <2> QED
    BY <2>1, <2>2 DEF Fits, s
<1> QED
  BY <1>2, <1>3, <1>4, <1>5, <1>6, <1>7, <1>8, <1>9, <1>10 DEF LoadRow

\* A store never ends early.
LEMMA StoresFit == ASSUME NEW inst, StoreRow(inst) PROVE Fits(inst)
<1> DEFINE m == inst.addr_mode
           s == Steps(inst)
<1>1. m \in DOMAIN AddressSteps => s = AddressSteps[m] \o <<"store">>
  BY ModesAre DEF Steps, StoreSteps, StoreRow, LoadOps, StoreOps, ModifyOps, BranchOps
<1>2. CASE m = "ZP"
  <2>1. Len(s) = 2 /\ s[1] = "imm" /\ s[2] = "store"
    BY <1>1, <1>2, ModesAre
  <2> HIDE DEF s
  <2>2. \A k \in 1 .. Len(s) : StepFits(inst, s[k], k, Len(s))
    BY <2>1, <1>2 DEF StoreRow, StepFits, CycleCheck, ByteSteps, LoadOps, StoreOps, BranchOps
  <2> QED
    BY <2>1, <2>2 DEF Fits, s
<1>3. CASE m = "ZP_X"
  <2>1. Len(s) = 3 /\ s[1] = "imm" /\ s[2] = "imm+x" /\ s[3] = "store"
    BY <1>1, <1>3, ModesAre
  <2> HIDE DEF s
  <2>2. \A k \in 1 .. Len(s) : StepFits(inst, s[k], k, Len(s))
    BY <2>1, <1>3 DEF StoreRow, StepFits, CycleCheck, ByteSteps, LoadOps, StoreOps, BranchOps
  <2> QED
    BY <2>1, <2>2 DEF Fits, s
<1>4. CASE m = "ZP_Y"
  <2>1. Len(s) = 3 /\ s[1] = "imm" /\ s[2] = "imm+y" /\ s[3] = "store"
    BY <1>1, <1>4, ModesAre
  <2> HIDE DEF s
  <2>2. \A k \in 1 .. Len(s) : StepFits(inst, s[k], k, Len(s))
    BY <2>1, <1>4 DEF StoreRow, StepFits, CycleCheck, ByteSteps, LoadOps, StoreOps, BranchOps
  <2> QED
    BY <2>1, <2>2 DEF Fits, s
<1>5. CASE m = "ABS"
  <2>1. Len(s) = 3 /\ s[1] = "pc_lo" /\ s[2] = "pc_hi" /\ s[3] = "store"
    BY <1>1, <1>5, ModesAre
  <2> HIDE DEF s
  <2>2. \A k \in 1 .. Len(s) : StepFits(inst, s[k], k, Len(s))
    BY <2>1, <1>5 DEF StoreRow, StepFits, CycleCheck, ByteSteps, LoadOps, StoreOps, BranchOps
  <2> QED
    BY <2>1, <2>2 DEF Fits, s
<1>6. CASE m = "ABS_X"
  <2>1. Len(s) = 4 /\ s[1] = "pc_lo" /\ s[2] = "pc_hi" /\ s[3] = "addr+x" /\ s[4] = "store"
    BY <1>1, <1>6, ModesAre
  <2> HIDE DEF s
  <2>2. \A k \in 1 .. Len(s) : StepFits(inst, s[k], k, Len(s))
    BY <2>1, <1>6 DEF StoreRow, StepFits, CycleCheck, ByteSteps, LoadOps, StoreOps, BranchOps
  <2> QED
    BY <2>1, <2>2 DEF Fits, s
<1>7. CASE m = "ABS_Y"
  <2>1. Len(s) = 4 /\ s[1] = "pc_lo" /\ s[2] = "pc_hi" /\ s[3] = "addr+y" /\ s[4] = "store"
    BY <1>1, <1>7, ModesAre
  <2> HIDE DEF s
  <2>2. \A k \in 1 .. Len(s) : StepFits(inst, s[k], k, Len(s))
    BY <2>1, <1>7 DEF StoreRow, StepFits, CycleCheck, ByteSteps, LoadOps, StoreOps, BranchOps
  <2> QED
    BY <2>1, <2>2 DEF Fits, s
<1>8. CASE m = "INDEX_INDIR"
  <2>1. Len(s) = 5 /\ s[1] = "imm" /\ s[2] = "imm+x" /\ s[3] = "zp_lo" /\ s[4] = "zp_hi" /\ s[5] = "store"
    BY <1>1, <1>8, ModesAre
  <2> HIDE DEF s
  <2>2. \A k \in 1 .. Len(s) : StepFits(inst, s[k], k, Len(s))
    BY <2>1, <1>8 DEF StoreRow, StepFits, CycleCheck, ByteSteps, LoadOps, StoreOps, BranchOps
  <2> QED
    BY <2>1, <2>2 DEF Fits, s
<1>9. CASE m = "INDIR_INDEX"
  <2>1. Len(s) = 5 /\ s[1] = "imm" /\ s[2] = "zp_lo" /\ s[3] = "zp_hi" /\ s[4] = "addr+y" /\ s[5] = "store"
    BY <1>1, <1>9, ModesAre
  <2> HIDE DEF s
  <2>2. \A k \in 1 .. Len(s) : StepFits(inst, s[k], k, Len(s))
    BY <2>1, <1>9 DEF StoreRow, StepFits, CycleCheck, ByteSteps, LoadOps, StoreOps, BranchOps
  <2> QED
    BY <2>1, <2>2 DEF Fits, s
<1> QED
  BY <1>2, <1>3, <1>4, <1>5, <1>6, <1>7, <1>8, <1>9 DEF StoreRow

\* A shift, INC or DEC in memory has its three extra steps.
LEMMA ModifiesFit == ASSUME NEW inst, ModifyRow(inst) PROVE Fits(inst)
<1> DEFINE m == inst.addr_mode
           s == Steps(inst)
<1>1. m \in {"ZP", "ZP_X", "ABS", "ABS_X"} => s = AddressSteps[m] \o <<"fetch", "modify", "write_back">>
  BY ModesAre DEF Steps, ModifySteps, ModifyRow, LoadOps, StoreOps, ModifyOps, BranchOps
<1>2. CASE m = "ZP"
  <2>1. Len(s) = 4 /\ s[1] = "imm" /\ s[2] = "fetch" /\ s[3] = "modify" /\ s[4] = "write_back"
    BY <1>1, <1>2, ModesAre
  <2> HIDE DEF s
  <2>2. \A k \in 1 .. Len(s) : StepFits(inst, s[k], k, Len(s))
    BY <2>1, <1>2 DEF ModifyRow, StepFits, CycleCheck, ByteSteps, LoadOps, ModifyOps, BranchOps
  <2> QED
    BY <2>1, <2>2 DEF Fits, s
<1>3. CASE m = "ZP_X"
  <2>1. Len(s) = 5 /\ s[1] = "imm" /\ s[2] = "imm+x" /\ s[3] = "fetch" /\ s[4] = "modify" /\ s[5] = "write_back"
    BY <1>1, <1>3, ModesAre
  <2> HIDE DEF s
  <2>2. \A k \in 1 .. Len(s) : StepFits(inst, s[k], k, Len(s))
    BY <2>1, <1>3 DEF ModifyRow, StepFits, CycleCheck, ByteSteps, LoadOps, ModifyOps, BranchOps
  <2> QED
    BY <2>1, <2>2 DEF Fits, s
<1>4. CASE m = "ABS"
  <2>1. Len(s) = 5 /\ s[1] = "pc_lo" /\ s[2] = "pc_hi" /\ s[3] = "fetch" /\ s[4] = "modify" /\ s[5] = "write_back"
    BY <1>1, <1>4, ModesAre
  <2> HIDE DEF s
  <2>2. \A k \in 1 .. Len(s) : StepFits(inst, s[k], k, Len(s))
    BY <2>1, <1>4 DEF ModifyRow, StepFits, CycleCheck, ByteSteps, LoadOps, ModifyOps, BranchOps
  <2> QED
    BY <2>1, <2>2 DEF Fits, s
<1>5. CASE m = "ABS_X"
  <2>1. Len(s) = 6 /\ s[1] = "pc_lo" /\ s[2] = "pc_hi" /\ s[3] = "addr+x" /\ s[4] = "fetch" /\ s[5] = "modify" /\ s[6] = "write_back"
    BY <1>1, <1>5, ModesAre
  <2> HIDE DEF s
  <2>2. \A k \in 1 .. Len(s) : StepFits(inst, s[k], k, Len(s))
    BY <2>1, <1>5 DEF ModifyRow, StepFits, CycleCheck, ByteSteps, LoadOps, ModifyOps, BranchOps
  <2> QED
    BY <2>1, <2>2 DEF Fits, s
<1>6. CASE m = "ACC"
  <2>1. Len(s) = 1 /\ s[1] = "idle"
    BY <1>6 DEF ModifyRow, Steps, LoadOps, StoreOps, ModifyOps, BranchOps
  <2> HIDE DEF s
  <2>2. \A k \in 1 .. Len(s) : StepFits(inst, s[k], k, Len(s))
    BY <2>1, <1>6 DEF ModifyRow, StepFits, CycleCheck, ByteSteps, LoadOps, ModifyOps, BranchOps
  <2> QED
    BY <2>1, <2>2 DEF Fits, s
<1> QED
  BY <1>2, <1>3, <1>4, <1>5, <1>6 DEF ModifyRow

\* A branch ends in three places, for its three numbers of cycles.
LEMMA BranchesFit ==
  ASSUME NEW inst, inst.op \in BranchOps, inst.addr_mode = "REL", inst.cycle = 2
  PROVE  Fits(inst)
<1> DEFINE s == Steps(inst)
<1>1. s = <<"imm">> \o <<"branch", "cross">>
  BY DEF Steps, LoadSteps, LoadOps, StoreOps, ModifyOps, BranchOps
<1>2. Len(s) = 3 /\ s[1] = "imm" /\ s[2] = "branch" /\ s[3] = "cross"
  BY <1>1
<1> HIDE DEF s
<1>3. \A k \in 1 .. Len(s) : StepFits(inst, s[k], k, Len(s))
  BY <1>2 DEF StepFits, CycleCheck, ByteSteps
<1> QED
  BY <1>2, <1>3 DEF Fits, s

\* Jumps, stack and one-step instructions, all but BRK.
LEMMA ControlsFit ==
  ASSUME NEW inst, ControlRow(inst), inst.op # "BRK"
  PROVE  Fits(inst)
<1> DEFINE s == Steps(inst)
<1>1. CASE inst.op \in BranchOps
  BY <1>1, BranchesFit DEF ControlRow, BranchOps, OneStepOps
<1>2. CASE inst.op = "JMP" /\ inst.addr_mode = "ABS"
  <2>1. Len(s) = 2 /\ s[1] = "pc_lo" /\ s[2] = "pc_hi" /\ inst.cycle = 3
    BY <1>2 DEF ControlRow, Steps, JumpSteps, LoadOps, StoreOps, ModifyOps, BranchOps, OneStepOps
  <2> HIDE DEF s
  <2>2. \A k \in 1 .. Len(s) : StepFits(inst, s[k], k, Len(s))
    BY <2>1, <1>2 DEF StepFits, CycleCheck, ByteSteps, BranchOps, LoadOps
  <2> QED
    BY <2>1, <2>2 DEF Fits, s
<1>3. CASE inst.op = "JMP" /\ inst.addr_mode = "IND"
  <2>1. /\ Len(s) = 4 /\ s[1] = "pc_lo" /\ s[2] = "pc_hi" /\ s[3] = "load" /\ s[4] = "load_hi"
        /\ inst.cycle = 5
    BY <1>3 DEF ControlRow, Steps, JumpSteps, LoadOps, StoreOps, ModifyOps, BranchOps, OneStepOps
  <2> HIDE DEF s
  <2>2. \A k \in 1 .. Len(s) : StepFits(inst, s[k], k, Len(s))
    BY <2>1, <1>3 DEF StepFits, CycleCheck, ByteSteps, BranchOps, LoadOps
  <2> QED
    BY <2>1, <2>2 DEF Fits, s
<1>4. CASE inst.op = "JSR"
  <2>0. s = <<"push_hi", "push_lo">> \o <<"pc_lo", "pc_hi">> \o <<"jump">> /\ inst.cycle = 6
    BY <1>4 DEF ControlRow, Steps, JumpSteps, LoadOps, StoreOps, ModifyOps, BranchOps, OneStepOps
  <2>1. /\ Len(s) = 5 /\ s[1] = "push_hi" /\ s[2] = "push_lo" /\ s[3] = "pc_lo"
        /\ s[4] = "pc_hi" /\ s[5] = "jump"
    BY <2>0
  <2> HIDE DEF s
  <2>2. \A k \in 1 .. Len(s) : StepFits(inst, s[k], k, Len(s))
    BY <2>0, <2>1, <1>4 DEF StepFits, CycleCheck, ByteSteps, BranchOps, LoadOps
  <2> QED
    BY <2>1, <2>2 DEF Fits, s
<1>5. CASE inst.op \in {"PHA", "PHP"}
  <2>1. Len(s) = 2 /\ s[1] = "push" /\ s[2] = "idle" /\ inst.cycle = 3
    BY <1>5 DEF ControlRow, Steps, LoadOps, StoreOps, ModifyOps, BranchOps, OneStepOps
  <2> HIDE DEF s
  <2>2. \A k \in 1 .. Len(s) : StepFits(inst, s[k], k, Len(s))
    BY <2>1, <1>5 DEF StepFits, CycleCheck, ByteSteps, BranchOps, LoadOps
  <2> QED
    BY <2>1, <2>2 DEF Fits, s
<1>6. CASE inst.op \in {"PLA", "PLP"}
  <2>1. Len(s) = 3 /\ s[1] = "pop" /\ s[2] = "idle" /\ s[3] = "idle" /\ inst.cycle = 4
    BY <1>6 DEF ControlRow, Steps, LoadOps, StoreOps, ModifyOps, BranchOps, OneStepOps
  <2> HIDE DEF s
  <2>2. \A k \in 1 .. Len(s) : StepFits(inst, s[k], k, Len(s))
    BY <2>1, <1>6 DEF StepFits, CycleCheck, ByteSteps, BranchOps, LoadOps
  <2> QED
    BY <2>1, <2>2 DEF Fits, s
<1>7. CASE inst.op = "RTI"
  <2>1. /\ Len(s) = 5 /\ s[1] = "pop" /\ s[2] = "pop_status" /\ s[3] = "pop_addr"
        /\ s[4] = "join" /\ s[5] = "jump" /\ inst.cycle = 6
    BY <1>7 DEF ControlRow, Steps, LoadOps, StoreOps, ModifyOps, BranchOps, OneStepOps
  <2> HIDE DEF s
  <2>2. \A k \in 1 .. Len(s) : StepFits(inst, s[k], k, Len(s))
    BY <2>1, <1>7 DEF StepFits, CycleCheck, ByteSteps, BranchOps, LoadOps
  <2> QED
    BY <2>1, <2>2 DEF Fits, s
<1>8. CASE inst.op = "RTS"
  <2>1. /\ Len(s) = 5 /\ s[1] = "pop" /\ s[2] = "addr" /\ s[3] = "pop"
        /\ s[4] = "join" /\ s[5] = "jump+1" /\ inst.cycle = 6
    BY <1>8 DEF ControlRow, Steps, LoadOps, StoreOps, ModifyOps, BranchOps, OneStepOps
  <2> HIDE DEF s
  <2>2. \A k \in 1 .. Len(s) : StepFits(inst, s[k], k, Len(s))
    BY <2>1, <1>8 DEF StepFits, CycleCheck, ByteSteps, BranchOps, LoadOps
  <2> QED
    BY <2>1, <2>2 DEF Fits, s
<1>9. CASE inst.op \in OneStepOps
  <2>1. Len(s) = 1 /\ s[1] = "idle" /\ inst.cycle = 2
    BY <1>9 DEF ControlRow, Steps, LoadOps, StoreOps, ModifyOps, BranchOps, OneStepOps
  <2> HIDE DEF s
  <2>2. \A k \in 1 .. Len(s) : StepFits(inst, s[k], k, Len(s))
    BY <2>1, <1>9 DEF StepFits, CycleCheck, ByteSteps, BranchOps, LoadOps, OneStepOps
  <2> QED
    BY <2>1, <2>2 DEF Fits, s
<1> QED
  BY <1>1, <1>2, <1>3, <1>4, <1>5, <1>6, <1>7, <1>8, <1>9 DEF ControlRow

\* Every row of the table but BRK's has its steps.
LEMMA TableFits ==
  ASSUME NEW c \in DOMAIN opcode_list, NEW inst, inst = opcode_list[c]
  PROVE  Fits(inst) \/ (inst.op = "BRK" /\ Len(Steps(inst)) = 0)
<1>1. CASE inst.op = "BRK"
  BY <1>1 DEF Steps, LoadOps, StoreOps, ModifyOps, BranchOps
<1>2. CASE inst.op # "BRK"
  BY <1>2, TheTable, LoadsFit, StoresFit, ModifiesFit, ControlsFit
<1> QED
  BY <1>1, <1>2

\* How long the table's longest instruction runs once it is fetched.
LEMMA LongestIs == Longest \in Int /\ Longest >= 6
<1>1. \A c \in DOMAIN opcode_list : opcode_list[c].cycle \in 2 .. 7
  <2> SUFFICES ASSUME NEW c \in DOMAIN opcode_list PROVE opcode_list[c].cycle \in 2 .. 7
    OBVIOUS
  <2> DEFINE inst == opcode_list[c]
  <2>1. LoadRow(inst) \/ StoreRow(inst) \/ ModifyRow(inst) \/ ControlRow(inst)
    BY TheTable
  <2> HIDE DEF inst
  <2>2. inst.cycle \in 2 .. 7
    BY <2>1 DEF LoadRow, StoreRow, ModifyRow, ControlRow
  <2> QED
    BY <2>2 DEF inst
<1>2. 0 \in DOMAIN opcode_list /\ opcode_list[0].cycle = 7
  <2>1. \E r \in Rows : r[1] = 0
    <3>1. <<\h00, "BRK", "IMP", 7, 0, 1>> \in Rows /\ <<\h00, "BRK", "IMP", 7, 0, 1>>[1] = 0
      BY DEF Rows
    <3> QED
      BY <3>1
  <2>2. \A r \in Rows : r[1] = 0 => r[4] = 7
    BY DEF Rows
  <2> DEFINE row == CHOOSE r \in Rows : r[1] = 0
  <2>3. row \in Rows /\ row[1] = 0
    BY <2>1
  <2>4. 0 \in DOMAIN opcode_list
    BY <2>1 DEF opcode_list
  <2>5. opcode_list[0].cycle = row[4]
    BY <2>1 DEF opcode_list
  <2> QED
    BY <2>2, <2>3, <2>4, <2>5
<1> DEFINE C == {opcode_list[c].cycle - 1 : c \in DOMAIN opcode_list}
<1>3. \A n \in C : n \in Int /\ n <= 6
  BY <1>1
<1>4. 6 \in C
  BY <1>2
<1>5. \E n \in C : \A c \in DOMAIN opcode_list : opcode_list[c].cycle - 1 <= n
  BY <1>1, <1>4
<1>6. Longest \in C /\ \A c \in DOMAIN opcode_list : opcode_list[c].cycle - 1 <= Longest
  BY <1>5 DEF Longest
<1> QED
  BY <1>2, <1>3, <1>6

-----------------------------------------------------------------------------
(* The handlers and the table. *)

\* The step an instruction is at: BRK has none.
AtStep(inst, i) == i < Len(Steps(inst)) \/ (inst.op = "BRK" /\ i = 0)

HandlersTyped ==
  /\ execute_func \in {"NULL", "reset_handler2", "nmi_handler",
                       "fetch_and_decode_inst", "execute_inst"}
  /\ fault \in {"none", "decode", "wild", "execute", "quit"}
  /\ current_exec_index \in 0 .. 6

\* Where each handler can stand.
HandlerSteps ==
  /\ execute_func = "fetch_and_decode_inst" => current_exec_index = 0
  /\ execute_func = "reset_handler2" => current_exec_index \in 1 .. 2
  /\ execute_func = "nmi_handler" => current_exec_index \in 1 .. 5
  /\ execute_func = "execute_inst" =>
       /\ current_inst # -1
       /\ Clocked => AtStep(opcode_list[current_inst], current_exec_index)

InstInv ==
  /\ current_inst \in DOMAIN opcode_list \cup {-1}
  /\ fault = "execute" =>
       current_inst # -1 /\ opcode_list[current_inst].op \in {"BRK", "SED"}

TableInv == HandlersTyped /\ HandlerSteps /\ InstInv

\* The index of no instruction is not a code of the table.
LEMMA NotMinusOne == -1 \notin DOMAIN opcode_list
  BY TheTable, ByteIs

\* The steps of the interrupt and the reset sequence.
LEMMA SequenceLengths ==
  /\ Len(NmiSteps) = 6 /\ Len(ResetSteps) = 3
  /\ NmiSteps[1] = "push_pc_hi" /\ NmiSteps[2] = "push_pc_lo" /\ NmiSteps[3] = "push_status"
  /\ NmiSteps[4] = "nmi_lo" /\ NmiSteps[5] = "nmi_hi" /\ NmiSteps[6] = "enter"
  /\ ResetSteps[1] = "reset_lo" /\ ResetSteps[2] = "reset_hi" /\ ResetSteps[3] = "enter"
  BY DEF NmiSteps, ResetSteps

\* An instruction that does not fail goes on to its next step or ends where
\* the table says.
LEMMA FuncFits ==
  ASSUME NEW c \in DOMAIN opcode_list, NEW inst, inst = opcode_list[c],
         NEW i \in 0 .. 6, NEW s, ~FuncFails(i, inst)
  PROVE  /\ Fits(inst) /\ i + 1 \in 1 .. Len(Steps(inst)) /\ i + 1 \in 1 .. 6
         /\ ExecDone(i, inst, s) => CycleCheck(inst, i + 1)
         /\ ~ExecDone(i, inst, s) => AtStep(inst, i + 1)
<1> DEFINE steps == Steps(inst)
<1>1. Fits(inst) \/ Len(steps) = 0
  BY TableFits
<1>2. Len(steps) \in 0 .. 6
  BY <1>1 DEF Fits
<1>3. i < Len(steps)
  BY <1>2 DEF FuncFails
<1>4. i + 1 \in 1 .. Len(steps) /\ i + 1 \in 1 .. 6
  <2> DEFINE n == Len(steps)
  <2>1. n \in 0 .. 6 /\ i < n
    BY <1>2, <1>3
  <2> HIDE DEF n
  <2>2. i + 1 \in 1 .. n /\ i + 1 \in 1 .. 6
    BY <2>1
  <2> QED
    BY <2>2 DEF n
<1>5. Fits(inst)
  BY <1>1, <1>2, <1>3
<1>6. StepFits(inst, steps[i + 1], i + 1, Len(steps))
  BY <1>4, <1>5 DEF Fits
<1>7. ExecDone(i, inst, s) => CycleCheck(inst, i + 1)
  <2> HIDE DEF steps
  <2>1. ASSUME ExecDone(i, inst, s)
        PROVE  \/ i + 1 = Len(steps)
               \/ steps[i + 1] \in {"addr+x", "addr+y"} /\ inst.op \in LoadOps
               \/ steps[i + 1] = "branch"
               \/ i + 1 = 1 /\ inst.op \in BranchOps
    BY <2>1 DEF ExecDone, Hits, steps
  <2> QED
    BY <2>1, <1>6 DEF StepFits
<1>8. ~ExecDone(i, inst, s) => AtStep(inst, i + 1)
  BY <1>2, <1>3 DEF ExecDone, AtStep
<1> QED
  BY <1>4, <1>5, <1>7, <1>8

\* A step of a sequence goes to the next one or to the fetch.
LEMMA SequenceTable ==
  ASSUME NEW steps, NEW handler, NEW i \in 0 .. 5, i < Len(steps), Len(steps) \in 1 .. 6,
         \/ handler = "reset_handler2" /\ Len(steps) = 3
         \/ handler = "nmi_handler" /\ Len(steps) = 6,
         Sequence(steps, handler, i), TableInv
  PROVE  TableInv'
<1>1. current_inst' = current_inst /\ fault' = fault
  BY DEF Sequence
<1>2. InstInv'
  BY <1>1 DEF InstInv, TableInv
<1>3. CASE i + 1 = Len(steps)
  <2>1. current_exec_index' = 0 /\ execute_func' = "fetch_and_decode_inst"
    BY <1>3 DEF Sequence
  <2> QED
    BY <1>1, <1>2, <2>1 DEF TableInv, HandlersTyped, HandlerSteps
<1>4. CASE i + 1 # Len(steps)
  <2>1. current_exec_index' = i + 1 /\ execute_func' = handler
    BY <1>4 DEF Sequence
  <2>2. /\ i + 1 \in 1 .. 5
        /\ handler = "reset_handler2" => i + 1 \in 1 .. 2
    <3> DEFINE n == Len(steps)
    <3>1. n \in 1 .. 6 /\ i < n /\ i + 1 # n
      BY <1>4
    <3>2. handler = "reset_handler2" => n = 3
      OBVIOUS
    <3> HIDE DEF n
    <3>3. i + 1 \in 1 .. 5
      BY <3>1
    <3>4. n = 3 => i + 1 \in 1 .. 2
      BY <3>1
    <3> QED
      BY <3>2, <3>3, <3>4
  <2>3. HandlersTyped'
    BY <1>1, <2>1, <2>2 DEF TableInv, HandlersTyped
  <2>4. HandlerSteps'
    BY <2>1, <2>2 DEF HandlerSteps
  <2> QED
    BY <1>2, <2>3, <2>4 DEF TableInv
<1> QED
  BY <1>3, <1>4

\* The fetch finds a row of the table, or fails.
LEMMA FetchTable ==
  ASSUME TableInv, FetchAndDecode
  PROVE  TableInv'
<1>1. /\ Clocked /\ execute_func = "fetch_and_decode_inst" /\ current_exec_index = 0
      /\ current_exec_index' = current_exec_index
  BY DEF FetchAndDecode, Running, TableInv, HandlerSteps
<1> DEFINE s == load_memory(DataPath, cpu_reg.pc)
<1>2. CASE /\ s.data \in DOMAIN opcode_list
           /\ current_inst' = s.data
           /\ execute_func' = "execute_inst"
           /\ fault' = fault
  <2>1. /\ current_inst' \in DOMAIN opcode_list /\ current_inst' # -1
        /\ execute_func' = "execute_inst" /\ fault' = "none"
    BY <1>1, <1>2, NotMinusOne DEF Clocked
  <2>2. AtStep(opcode_list[current_inst'], 0)
    <3>1. Fits(opcode_list[current_inst']) \/ opcode_list[current_inst'].op = "BRK"
      BY <2>1, TableFits
    <3> QED
      BY <3>1 DEF Fits, AtStep
  <2> QED
    BY <1>1, <2>1, <2>2 DEF TableInv, HandlersTyped, HandlerSteps, InstInv
<1>3. CASE /\ Fails("decode") \/ Fails("wild")
           /\ current_inst' = current_inst /\ execute_func' = execute_func
  BY <1>1, <1>3 DEF TableInv, HandlersTyped, HandlerSteps, InstInv, Fails, Clocked
<1> QED
  BY <1>2, <1>3 DEF FetchAndDecode

\* A step of an instruction, and its end.
LEMMA ExecuteTable ==
  ASSUME TableInv, ExecuteInst
  PROVE  TableInv'
<1> DEFINE inst == opcode_list[current_inst]
           i == current_exec_index
<1>1. /\ Clocked /\ execute_func = "execute_inst"
      /\ current_inst' = current_inst
  BY DEF ExecuteInst, Running
<1>2. current_inst \in DOMAIN opcode_list /\ current_inst # -1 /\ i \in 0 .. 6 /\ AtStep(inst, i)
  BY <1>1 DEF TableInv, HandlersTyped, HandlerSteps, InstInv
<1>3. CASE FuncFails(i, inst)
  <2>1. fault' = "execute" /\ i' = i + 1 /\ execute_func' = execute_func
    BY <1>3 DEF ExecuteInst, Fails
  <2>2. Fits(inst) \/ (inst.op = "BRK" /\ Len(Steps(inst)) = 0)
    BY <1>2, TableFits
  <2>3. Len(Steps(inst)) \in 0 .. 6
    BY <2>2 DEF Fits
  <2>4. i + 1 \in 1 .. 6
    <3>1. i < Len(Steps(inst)) \/ i = 0
      BY <1>2 DEF AtStep
    <3> DEFINE n == Len(Steps(inst))
               k == i
    <3>2. n \in 0 .. 6 /\ k \in 0 .. 6 /\ (k < n \/ k = 0)
      BY <1>2, <2>3, <3>1
    <3> HIDE DEF n, k
    <3>3. k + 1 \in 1 .. 6
      BY <3>2
    <3> QED
      BY <3>3 DEF k
  <2>5. inst.op \in {"BRK", "SED"}
    BY <1>2, <1>3, <2>3 DEF AtStep, FuncFails
  <2> QED
    BY <1>1, <1>2, <2>1, <2>4, <2>5 DEF TableInv, HandlersTyped, HandlerSteps, InstInv, Clocked
<1>4. CASE ~FuncFails(i, inst)
  <2> DEFINE done == ExecDone(i, inst, DataPath)
             ok   == done => CycleCheck(inst, i + 1)
  <2>1. /\ fault' = IF ok THEN fault ELSE "cycle_check"
        /\ i' = IF done /\ ok THEN 0 ELSE i + 1
        /\ execute_func' = IF done /\ ok THEN "fetch_and_decode_inst" ELSE execute_func
    BY <1>4 DEF ExecuteInst
  <2>2. /\ i + 1 \in 1 .. 6
        /\ done => CycleCheck(inst, i + 1)
        /\ ~done => AtStep(inst, i + 1)
    BY <1>2, <1>4, FuncFits
  <2>3. fault' = fault
    BY <2>1, <2>2
  <2>4. CASE done
    <3>1. i' = 0 /\ execute_func' = "fetch_and_decode_inst"
      BY <2>1, <2>2, <2>4
    <3> QED
      BY <1>1, <2>3, <3>1 DEF TableInv, HandlersTyped, HandlerSteps, InstInv
  <2>5. CASE ~done
    <3>1. i' = i + 1 /\ execute_func' = "execute_inst" /\ AtStep(inst, i + 1)
      BY <1>1, <2>1, <2>2, <2>5
    <3> QED
      BY <1>1, <1>2, <2>2, <2>3, <3>1 DEF TableInv, HandlersTyped, HandlerSteps, InstInv
  <2> QED
    BY <2>4, <2>5
<1> QED
  BY <1>3, <1>4

LEMMA TableStep == TableInv /\ [Next]_vars => TableInv'
<1> SUFFICES ASSUME TableInv, [Next]_vars PROVE TableInv'
  OBVIOUS
<1>1. CASE ResetHandler1
  <2>1. Sequence(ResetSteps, "reset_handler2", 0) /\ Len(ResetSteps) = 3
    BY <1>1, SequenceLengths DEF ResetHandler1
  <2>2. 0 \in 0 .. 5 /\ 0 < Len(ResetSteps) /\ Len(ResetSteps) \in 1 .. 6
    BY <2>1
  <2> QED
    BY <2>1, <2>2, SequenceTable
<1>2. CASE ResetHandler2
  <2>1. current_exec_index \in 1 .. 2 /\ Sequence(ResetSteps, "reset_handler2", current_exec_index)
    BY <1>2 DEF ResetHandler2, Running, TableInv, HandlerSteps
  <2>2. Len(ResetSteps) = 3
    BY SequenceLengths
  <2>3. /\ current_exec_index \in 0 .. 5 /\ current_exec_index < Len(ResetSteps)
        /\ Len(ResetSteps) \in 1 .. 6
    BY <2>1, <2>2
  <2> QED
    BY <2>1, <2>2, <2>3, SequenceTable
<1>3. CASE NmiHandler
  <2>1. current_exec_index \in 0 .. 5 /\ Sequence(NmiSteps, "nmi_handler", current_exec_index)
    BY <1>3 DEF NmiHandler, NmiEntered, TableInv, HandlerSteps
  <2>2. Len(NmiSteps) = 6
    BY SequenceLengths
  <2>3. current_exec_index < Len(NmiSteps) /\ Len(NmiSteps) \in 1 .. 6
    BY <2>1, <2>2
  <2> QED
    BY <2>1, <2>2, <2>3, SequenceTable
<1>4. CASE FetchAndDecode
  BY <1>4, FetchTable
<1>5. CASE DebuggerQuits
  BY <1>5 DEF DebuggerQuits, Running, Fails, TableInv, HandlersTyped, HandlerSteps, InstInv, Clocked
<1>6. CASE ExecuteInst
  BY <1>6, ExecuteTable
<1>7. CASE RaiseNmi
  BY <1>7 DEF RaiseNmi, TableInv, HandlersTyped, HandlerSteps, InstInv, Clocked
<1>8. CASE UNCHANGED vars
  BY <1>8 DEF vars, dataVars, TableInv, HandlersTyped, HandlerSteps, InstInv, Clocked
<1> QED
  BY <1>1, <1>2, <1>3, <1>4, <1>5, <1>6, <1>7, <1>8 DEF Next, ClockCpu

LEMMA InitTable == Init => TableInv
  BY DEF Init, TableInv, HandlersTyped, HandlerSteps, InstInv

\* No handler starts in its middle, whatever the program, its memory, the interrupts
\* and the debugger do: current_exec_index is 0 at each fetch.
THEOREM AlwaysFromStepZero == Spec => []StartsAtStepZero
<1>1. TableInv => StartsAtStepZero
  BY DEF TableInv, HandlerSteps, StartsAtStepZero, Running
<1> QED
  BY <1>1, InitTable, TableStep, PTL DEF Spec

\* Whatever the program: no instruction of the opcode table but BRK and SED fails, and
\* execute6502's check of the cycles against the table never does.
THEOREM TableIsKept == Spec => []TableHolds
<1>1. TableInv => TableHolds
  BY DEF TableInv, HandlersTyped, InstInv, TableHolds
<1> QED
  BY <1>1, InitTable, TableStep, PTL DEF Spec

-----------------------------------------------------------------------------
(* The pins. *)

\* The debugger resets the CPU before the first step of an instruction, and the
\* NMI pin stays up until its sequence is over.
PinsInv ==
  /\ reset_pin \in BOOLEAN /\ nmi_pin \in BOOLEAN
  /\ Clocked /\ reset_pin =>
       execute_func \in {"NULL", "execute_inst"} /\ current_exec_index = 0
  /\ execute_func = "NULL" => ~nmi_pin
  /\ execute_func = "nmi_handler" => nmi_pin
  /\ nmi_cnt \in 0 .. MaxNmi
  /\ nmi_pin => nmi_cnt < MaxNmi

\* The last step of the interrupt sequence takes the pin back, no other does.
LEMMA PinAfter ==
  ASSUME NEW i \in 0 .. 5, NmiPinAfter(i)
  PROVE  nmi_pin' \in BOOLEAN /\ (i + 1 = 6 => ~nmi_pin') /\ (i + 1 # 6 => (nmi_pin' <=> nmi_pin))
<1>1. nmi_pin' = (nmi_pin /\ i + 1 < Len(NmiSteps))
  BY DEF NmiPinAfter
<1>2. i + 1 < Len(NmiSteps) <=> i + 1 # 6
  BY SequenceLengths
<1>3. nmi_pin' \in BOOLEAN
  BY ONLY <1>1, Zenon
<1>4. nmi_pin' <=> (nmi_pin /\ i + 1 < Len(NmiSteps))
  BY ONLY <1>1, Zenon
<1> QED
  BY <1>2, <1>3, <1>4

LEMMA PinsStep == TableInv /\ PinsInv /\ [Next]_vars => PinsInv'
<1> SUFFICES ASSUME TableInv, PinsInv, [Next]_vars PROVE PinsInv'
  OBVIOUS
<1> USE Cpu6502Assumption
<1>0. MaxNmi \in Nat /\ Len(NmiSteps) = 6 /\ Len(ResetSteps) = 3
  BY SequenceLengths
<1>1. CASE ResetHandler1
  <2>1. /\ reset_pin' = FALSE /\ nmi_cnt' = 0 /\ nmi_pin' = nmi_pin
        /\ execute_func' = "reset_handler2"
    BY <1>0, <1>1 DEF ResetHandler1, Sequence
  <2>2. nmi_pin => 0 < MaxNmi
    BY <1>0 DEF PinsInv
  <2>3. nmi_cnt' \in 0 .. MaxNmi
    BY <1>0, <2>1
  <2>4. nmi_pin' \in BOOLEAN
    BY <2>1 DEF PinsInv
  <2> QED
    BY <2>1, <2>2, <2>3, <2>4 DEF PinsInv
<1>2. CASE ResetHandler2
  BY <1>2 DEF ResetHandler2, Running, Sequence, PinsInv, pinVars
<1>3. CASE NmiHandler
  <2>1. /\ ~reset_pin /\ reset_pin' = reset_pin /\ nmi_pin
        /\ current_exec_index \in 0 .. 5 /\ NmiPinAfter(current_exec_index)
    BY <1>3 DEF NmiHandler, NmiEntered, PinsInv, TableInv, HandlerSteps
  <2>2. CASE current_exec_index + 1 = 6
    <3>0. ~nmi_pin' /\ nmi_pin' \in BOOLEAN
      BY <2>1, <2>2, PinAfter
    <3>1. nmi_cnt' = nmi_cnt + 1 /\ execute_func' = "fetch_and_decode_inst"
      BY <1>0, <1>3, <2>2 DEF NmiHandler, Sequence, Bit
    <3>2. nmi_cnt + 1 \in 0 .. MaxNmi
      BY <1>0, <2>1 DEF PinsInv
    <3> QED
      BY <2>1, <3>0, <3>1, <3>2 DEF PinsInv
  <2>3. CASE current_exec_index + 1 # 6
    <3>1. nmi_pin' /\ nmi_pin' \in BOOLEAN
      BY <2>1, <2>3, PinAfter
    <3>2. nmi_cnt' = nmi_cnt + 0 /\ execute_func' = "nmi_handler"
      BY <1>0, <1>3, <2>1, <2>3 DEF NmiHandler, Sequence, Bit
    <3>3. nmi_cnt' = nmi_cnt
      BY <3>2 DEF PinsInv
    <3> QED
      BY <1>0, <2>1, <3>1, <3>2, <3>3 DEF PinsInv
  <2> QED
    BY <2>2, <2>3
<1>4. CASE FetchAndDecode
  <2>1. /\ ~nmi_pin /\ nmi_pin' = nmi_pin /\ nmi_cnt' = nmi_cnt /\ reset_pin' \in BOOLEAN
        /\ current_exec_index' = current_exec_index /\ current_exec_index = 0
    BY <1>4 DEF FetchAndDecode, DebuggerResets, Running, TableInv, HandlerSteps
  <2>2. \/ execute_func' = "execute_inst"
        \/ execute_func' = "fetch_and_decode_inst" /\ fault' # "none"
    BY <1>4 DEF FetchAndDecode, Running, Fails
  <2> QED
    BY <2>1, <2>2 DEF PinsInv, Clocked
<1>5. CASE DebuggerQuits
  BY <1>5 DEF DebuggerQuits, Running, Fails, PinsInv, Clocked, pinVars
<1>6. CASE ExecuteInst
  <2>1. /\ ~reset_pin /\ UNCHANGED pinVars
        /\ execute_func' \in {"execute_inst", "fetch_and_decode_inst"}
    BY <1>6 DEF ExecuteInst, Running
  <2> QED
    BY <2>1 DEF PinsInv, pinVars
<1>7. CASE RaiseNmi
  BY <1>7 DEF RaiseNmi, PinsInv, Clocked
<1>8. CASE UNCHANGED vars
  BY <1>8 DEF vars, pinVars, PinsInv, Clocked
<1> QED
  BY <1>1, <1>2, <1>3, <1>4, <1>5, <1>6, <1>7, <1>8 DEF Next, ClockCpu

LEMMA InitPins == Init => PinsInv
<1> SUFFICES ASSUME Init PROVE PinsInv
  OBVIOUS
<1>1. reset_pin = TRUE /\ nmi_pin = FALSE /\ nmi_cnt = 0 /\ MaxNmi \in Nat
  BY Cpu6502Assumption DEF Init
<1>2. execute_func = "NULL" /\ current_exec_index = 0
  BY DEF Init
<1>3. reset_pin \in BOOLEAN /\ nmi_pin \in BOOLEAN /\ ~nmi_pin
  BY <1>1, Zenon
<1>4. nmi_cnt \in 0 .. MaxNmi
  BY <1>1
<1> QED
  BY <1>2, <1>3, <1>4 DEF PinsInv

\* How long the pin has been up, by where the CPU is: an instruction or a reset has
\* taken no more cycles than it has done steps.
WaitInv ==
  /\ waited \in 0 .. 11
  /\ ~nmi_pin => waited = 0
  /\ Clocked /\ execute_func \in {"execute_inst", "reset_handler2"} => waited <= current_exec_index
  /\ execute_func = "fetch_and_decode_inst" => waited <= 6
  /\ execute_func = "nmi_handler" => waited <= 6 + current_exec_index

\* See FuncFits: an instruction that is at a step has no more than six.
LEMMA ExecuteIndex ==
  ASSUME TableInv, ExecuteInst
  PROVE  current_exec_index + 1 \in 1 .. 6
<1> DEFINE inst == opcode_list[current_inst]
           n == Len(Steps(inst))
           i == current_exec_index
<1>1. /\ current_inst \in DOMAIN opcode_list /\ i \in 0 .. 6 /\ AtStep(inst, i)
  BY DEF ExecuteInst, Running, TableInv, HandlersTyped, HandlerSteps, InstInv
<1>2. n \in 0 .. 6
  BY <1>1, TableFits DEF Fits
<1>3. i < n \/ i = 0
  BY <1>1 DEF AtStep
<1> HIDE DEF i, n
<1>4. i + 1 \in 1 .. 6
  BY <1>1, <1>2, <1>3
<1> QED
  BY <1>4 DEF i

\* The pin has not been up for longer than the handlers have run.
LEMMA WaitStep == TableInv /\ PinsInv /\ WaitInv /\ [HistoryNext]_isaHistory => WaitInv'
<1> SUFFICES ASSUME TableInv, PinsInv, WaitInv, [HistoryNext]_isaHistory PROVE WaitInv'
  OBVIOUS
<1>0. Len(NmiSteps) = 6 /\ Len(ResetSteps) = 3 /\ waited \in 0 .. 11
  BY SequenceLengths DEF WaitInv
<1>1. CASE HistoryCycle
  <2>1. waited' = IF nmi_pin' THEN waited + 1 ELSE 0
    BY <1>1 DEF HistoryCycle
  <2>2. CASE ResetHandler1
    <3>1. /\ current_exec_index' = 1 /\ execute_func' = "reset_handler2"
          /\ nmi_pin' = nmi_pin
      BY <1>0, <2>2 DEF ResetHandler1, Sequence
    <3>2. waited = 0
      <4>1. Clocked /\ reset_pin
        BY <2>2 DEF ResetHandler1
      <4> QED
        BY <1>0, <4>1 DEF PinsInv, WaitInv
    <3>3. waited' \in 0 .. 1
      BY <2>1, <3>2
    <3> QED
      BY <2>1, <3>1, <3>3 DEF WaitInv
  <2>3. CASE ResetHandler2
    <3>1. /\ current_exec_index \in 1 .. 2 /\ nmi_pin' = nmi_pin
          /\ waited <= current_exec_index
      BY <2>3 DEF ResetHandler2, Running, pinVars, TableInv, HandlerSteps, WaitInv
    <3>2. waited' \in 0 .. 3 /\ waited' <= current_exec_index + 1
      BY <1>0, <2>1, <3>1
    <3>3. \/ execute_func' = "fetch_and_decode_inst"
          \/ execute_func' = "reset_handler2" /\ current_exec_index' = current_exec_index + 1
      BY <2>3 DEF ResetHandler2, Sequence
    <3> QED
      BY <2>1, <3>2, <3>3 DEF WaitInv
  <2>4. CASE NmiHandler
    <3>1. /\ current_exec_index \in 0 .. 5
          /\ waited <= 6 + current_exec_index
      BY <1>0, <2>4 DEF NmiHandler, NmiEntered, TableInv, HandlerSteps, WaitInv
    <3>2. CASE current_exec_index + 1 = 6
      <4>1. ~nmi_pin'
        BY <2>4, <3>1, <3>2, PinAfter DEF NmiHandler
      <4>2. waited' = 0 /\ current_exec_index' = 0 /\ execute_func' = "fetch_and_decode_inst"
        BY <1>0, <2>1, <2>4, <3>2, <4>1 DEF NmiHandler, Sequence
      <4> QED
        BY <4>2 DEF WaitInv
    <3>3. CASE current_exec_index + 1 # 6
      <4>1. current_exec_index' = current_exec_index + 1 /\ execute_func' = "nmi_handler"
        BY <1>0, <2>4, <3>3 DEF NmiHandler, Sequence
      <4>2. waited' \in 0 .. 11 /\ waited' <= 6 + current_exec_index'
        BY <1>0, <2>1, <3>1, <3>3, <4>1
      <4> QED
        BY <2>1, <4>1, <4>2 DEF WaitInv
    <3> QED
      BY <3>2, <3>3
  <2>5. CASE FetchAndDecode
    <3>1. ~nmi_pin' /\ current_exec_index' = 0
      BY <2>5 DEF FetchAndDecode, Running, TableInv, HandlerSteps
    <3> QED
      BY <2>1, <3>1 DEF WaitInv
  <2>6. CASE DebuggerQuits
    <3>1. ~nmi_pin' /\ execute_func' = "fetch_and_decode_inst"
      BY <2>6 DEF DebuggerQuits, Running, pinVars
    <3> QED
      BY <2>1, <3>1 DEF WaitInv
  <2>7. CASE ExecuteInst
    <3>1. waited <= current_exec_index /\ current_exec_index \in 0 .. 6 /\ Clocked
      BY <2>7 DEF ExecuteInst, Running, TableInv, HandlersTyped, WaitInv
    <3>2. TableInv'
      <4>1. [Next]_vars
        BY <2>7 DEF Next, ClockCpu
      <4> QED
        BY <4>1, TableStep
    <3>3. \/ execute_func' = "fetch_and_decode_inst"
          \/ execute_func' = "execute_inst" /\ current_exec_index' = current_exec_index + 1
      BY <2>7 DEF ExecuteInst, Running
    <3>4. waited' <= current_exec_index + 1 /\ waited' \in 0 .. 7
      BY <1>0, <2>1, <3>1
    <3>5. current_exec_index + 1 \in 1 .. 6
      BY <2>7, <3>1, ExecuteIndex
    <3> QED
      BY <2>1, <3>3, <3>4, <3>5 DEF WaitInv
  <2> QED
    BY <1>1, <2>2, <2>3, <2>4, <2>5, <2>6, <2>7 DEF HistoryCycle, ClockCpu
<1>2. CASE HistoryNmi
  <2>1. /\ waited' = waited /\ ~nmi_pin /\ current_exec_index' = current_exec_index
        /\ current_exec_index \in 0 .. 6
    BY <1>2 DEF HistoryNmi, RaiseNmi, historyVars, TableInv, HandlersTyped
  <2>2. waited' = 0
    BY <2>1 DEF WaitInv
  <2> QED
    BY <2>1, <2>2 DEF WaitInv
<1>3. CASE UNCHANGED isaHistory
  BY <1>3 DEF isaHistory, historyVars, vars, pinVars, WaitInv, Clocked
<1> QED
  BY <1>1, <1>2, <1>3 DEF HistoryNext

LEMMA HistoryIsNext == [HistoryNext]_isaHistory => [Next]_vars
  BY DEF HistoryNext, HistoryCycle, HistoryNmi, Next, isaHistory

\* An interrupt the PPU raises is taken within the longest instruction and the interrupt
\* sequence, for every program, so that none is lost to the next one.
THEOREM InterruptsAreTaken == HistorySpec => []NmiIsPrompt
<1>1. HistoryInit => TableInv /\ PinsInv /\ WaitInv
  BY InitTable, InitPins DEF HistoryInit, Init, WaitInv
<1>2. TableInv /\ PinsInv /\ WaitInv /\ [HistoryNext]_isaHistory => TableInv' /\ PinsInv' /\ WaitInv'
  BY TableStep, PinsStep, WaitStep, HistoryIsNext
<1>3. WaitInv => NmiIsPrompt
  BY LongestIs, SequenceLengths DEF WaitInv, NmiIsPrompt
<1> QED
  BY <1>1, <1>2, <1>3, PTL DEF HistorySpec

-----------------------------------------------------------------------------
(* The data path. *)

DataOK(s) ==
  /\ s = [reg |-> s.reg, mem |-> s.mem, data |-> s.data, addr |-> s.addr]
  /\ s.reg \in Register
  /\ IsMemory(s.mem)
  /\ s.data \in Byte
  /\ s.addr \in Address

LEMMA RegisterHas ==
  ASSUME NEW r \in Register
  PROVE  /\ r.acc \in Byte /\ r.x \in Byte /\ r.y \in Byte /\ r.sp \in Byte
         /\ r.status \in SUBSET Flag /\ r.pc \in Address
  BY DEF Register

\* What the instructions assign to the registers.
LEMMA RegisterSet ==
  ASSUME NEW r \in Register
  PROVE  /\ \A a \in Address : [r EXCEPT !.pc = a] \in Register
         /\ \A b \in Byte : [r EXCEPT !.sp = b] \in Register
         /\ \A f \in SUBSET Flag : [r EXCEPT !.status = f] \in Register
         /\ \A b \in Byte, f \in SUBSET Flag :
              /\ [r EXCEPT !.acc = b, !.status = f] \in Register
              /\ [r EXCEPT !.x = b, !.status = f] \in Register
              /\ [r EXCEPT !.y = b, !.status = f] \in Register
              /\ [r EXCEPT !.sp = b, !.status = f] \in Register
         /\ \A a \in Address, f \in SUBSET Flag : [r EXCEPT !.pc = a, !.status = f] \in Register
  BY DEF Register

LEMMA DataHas ==
  ASSUME NEW s, DataOK(s)
  PROVE  /\ s.reg \in Register /\ IsMemory(s.mem) /\ s.data \in Byte /\ s.addr \in Address
         /\ s.reg.acc \in Byte /\ s.reg.x \in Byte /\ s.reg.y \in Byte /\ s.reg.sp \in Byte
         /\ s.reg.status \in SUBSET Flag /\ s.reg.pc \in Address
  BY RegisterHas DEF DataOK

LEMMA DataMake ==
  ASSUME NEW r \in Register, NEW m, IsMemory(m), NEW d \in Byte, NEW a \in Address
  PROVE  DataOK([reg |-> r, mem |-> m, data |-> d, addr |-> a])
  BY DEF DataOK

\* What the steps assign to the data path.
LEMMA DataSet ==
  ASSUME NEW s, DataOK(s)
  PROVE  /\ \A b \in Byte : DataOK([s EXCEPT !.data = b])
         /\ \A a \in Address : DataOK([s EXCEPT !.addr = a])
         /\ \A r \in Register : DataOK([s EXCEPT !.reg = r])
<1>1. \A b : [s EXCEPT !.data = b] = [reg |-> s.reg, mem |-> s.mem, data |-> b, addr |-> s.addr]
  BY DEF DataOK
<1>2. \A a : [s EXCEPT !.addr = a] = [reg |-> s.reg, mem |-> s.mem, data |-> s.data, addr |-> a]
  BY DEF DataOK
<1>3. \A r : [s EXCEPT !.reg = r] = [reg |-> r, mem |-> s.mem, data |-> s.data, addr |-> s.addr]
  BY DEF DataOK
<1>4. ASSUME NEW b \in Byte PROVE DataOK([s EXCEPT !.data = b])
  <2>1. DataOK([reg |-> s.reg, mem |-> s.mem, data |-> b, addr |-> s.addr])
    BY DataHas, DataMake
  <2> QED
    BY <1>1, <2>1, Zenon
<1>5. ASSUME NEW a \in Address PROVE DataOK([s EXCEPT !.addr = a])
  <2>1. DataOK([reg |-> s.reg, mem |-> s.mem, data |-> s.data, addr |-> a])
    BY DataHas, DataMake
  <2> QED
    BY <1>2, <2>1, Zenon
<1>6. ASSUME NEW r \in Register PROVE DataOK([s EXCEPT !.reg = r])
  <2>1. DataOK([reg |-> r, mem |-> s.mem, data |-> s.data, addr |-> s.addr])
    BY DataHas, DataMake
  <2> QED
    BY <1>3, <2>1, Zenon
<1> QED
  BY <1>4, <1>5, <1>6

\* Two fields at once.
LEMMA DataSetBoth ==
  ASSUME NEW s, DataOK(s), NEW b \in Byte, NEW a \in Address
  PROVE  DataOK([s EXCEPT !.data = b, !.addr = a])
<1>1. [s EXCEPT !.data = b, !.addr = a] = [[s EXCEPT !.data = b] EXCEPT !.addr = a]
  BY Zenon
<1>2. DataOK([s EXCEPT !.data = b])
  BY DataSet
<1> QED
  BY <1>1, <1>2, DataSet

LEMMA DataReg ==
  ASSUME NEW s, DataOK(s)
  PROVE  /\ \A a \in Address : DataOK([s EXCEPT !.reg.pc = a])
         /\ \A b \in Byte : DataOK([s EXCEPT !.reg.sp = b])
         /\ \A f \in SUBSET Flag : DataOK([s EXCEPT !.reg.status = f])
<1>1. \A a : [s EXCEPT !.reg.pc = a] = [s EXCEPT !.reg = [s.reg EXCEPT !.pc = a]]
  BY Zenon
<1>2. \A b : [s EXCEPT !.reg.sp = b] = [s EXCEPT !.reg = [s.reg EXCEPT !.sp = b]]
  BY Zenon
<1>3. \A f : [s EXCEPT !.reg.status = f] = [s EXCEPT !.reg = [s.reg EXCEPT !.status = f]]
  BY Zenon
<1>4. s.reg \in Register
  BY DataHas
<1>5. /\ \A a \in Address : [s.reg EXCEPT !.pc = a] \in Register
      /\ \A b \in Byte : [s.reg EXCEPT !.sp = b] \in Register
      /\ \A f \in SUBSET Flag : [s.reg EXCEPT !.status = f] \in Register
  BY <1>4, RegisterSet
<1> QED
  BY <1>1, <1>2, <1>3, <1>5, DataSet

LEMMA LoadMemoryTyped ==
  ASSUME NEW s, DataOK(s), NEW a
  PROVE  DataOK(load_memory(s, a))
  BY DataSet, ReadTyped DEF load_memory, DataOK

LEMMA StoreMemoryTyped ==
  ASSUME NEW s, DataOK(s), NEW a \in Address, NEW b \in Byte
  PROVE  DataOK(store_memory(s, a, b))
<1> DEFINE m == Write(s.mem, a, b)
<1>1. IsMemory(m)
  BY WriteTyped DEF DataOK
<1>2. store_memory(s, a, b) = [s EXCEPT !.mem = m, !.data = b]
  BY DEF store_memory
<1> HIDE DEF m
<1> QED
  BY <1>1, <1>2 DEF DataOK

LEMMA LoadAddrTyped ==
  ASSUME NEW s, DataOK(s), NEW a, NEW half
  PROVE  DataOK(load_addr(s, a, half))
<1> DEFINE b == Read(s.mem, a)
           w == IF half = "lo" THEN Word(b, Hi(s.addr)) ELSE Word(Lo(s.addr), b)
<1>1. b \in Byte
  BY ReadTyped DEF DataOK
<1>2. w \in Address
  BY <1>1, WordTyped, HalvesTyped DEF DataOK
<1>3. load_addr(s, a, half) = [s EXCEPT !.data = b, !.addr = w]
  BY DEF load_addr
<1> HIDE DEF b, w
<1>4. DataOK([s EXCEPT !.data = b, !.addr = w])
  BY <1>1, <1>2, DataSetBoth
<1> QED
  BY <1>3, <1>4, Zenon

LEMMA PcTyped ==
  ASSUME NEW s, DataOK(s)
  PROVE  /\ DataOK([s EXCEPT !.reg.pc = Add16(@, 1)])
         /\ s.reg.pc \in Address /\ Add16(s.reg.pc, 1) \in Address
<1>1. s.reg.pc \in Address
  BY RegisterHas DEF DataOK
<1>2. Add16(s.reg.pc, 1) \in Address
  <2>1. s.reg.pc \in Int
    BY <1>1, AddressIs
  <2> QED
    BY <2>1, Add16Typed
<1> QED
  BY <1>1, <1>2, DataReg

LEMMA LoadPcTyped ==
  ASSUME NEW s, DataOK(s), NEW half
  PROVE  DataOK(load_imm(s)) /\ DataOK(load_pc(s, half))
<1>1. load_memory(s, s.reg.pc).reg = s.reg /\ load_addr(s, s.reg.pc, half).reg = s.reg
  BY DEF load_memory, load_addr, DataOK
<1>2. DataOK(load_memory(s, s.reg.pc)) /\ DataOK(load_addr(s, s.reg.pc, half))
  BY LoadMemoryTyped, LoadAddrTyped
<1> QED
  BY <1>1, <1>2, PcTyped DEF load_imm, load_pc

LEMMA SlotTyped == ASSUME NEW b \in Byte PROVE STACK_BASE + b \in Address
<1>1. STACK_BASE + b \in Int /\ 0 <= STACK_BASE + b /\ STACK_BASE + b <= 65535
  BY ByteIs DEF STACK_BASE
<1> QED
  BY <1>1, InAddress

\* The stack pointer wraps within the stack page.
LEMMA PushTyped ==
  ASSUME NEW s, DataOK(s), NEW b \in Byte
  PROVE  DataOK(push(s, b))
<1>1. s.reg.sp \in Byte
  BY RegisterHas DEF DataOK
<1>2. Add8(s.reg.sp, -1) \in Byte
  BY <1>1, ByteIs, Add8Typed
<1> DEFINE t == store_memory(s, STACK_BASE + s.reg.sp, b)
<1>3. DataOK(t)
  BY <1>1, SlotTyped, StoreMemoryTyped
<1>4. t.reg = s.reg
  BY DEF store_memory, DataOK
<1>5. push(s, b) = [t EXCEPT !.reg.sp = Add8(t.reg.sp, -1)]
  BY DEF push
<1> HIDE DEF t
<1> QED
  BY <1>2, <1>3, <1>4, <1>5, DataReg

LEMMA PopTyped ==
  ASSUME NEW s, DataOK(s)
  PROVE  DataOK(pop(s))
<1>1. s.reg.sp \in Byte
  BY RegisterHas DEF DataOK
<1> DEFINE sp == Add8(s.reg.sp, 1)
<1>2. sp \in Byte
  BY <1>1, ByteIs, Add8Typed
<1> DEFINE t == load_memory(s, STACK_BASE + sp)
<1>3. pop(s) = [t EXCEPT !.reg.sp = sp]
  BY DEF pop
<1>4. DataOK(t)
  BY LoadMemoryTyped
<1> HIDE DEF sp, t
<1> QED
  BY <1>2, <1>3, <1>4, DataReg

-----------------------------------------------------------------------------
(* What the instructions compute. *)

LEMMA FlagNames ==
  /\ "carry" \in Flag /\ "zero" \in Flag /\ "irq_disable" \in Flag /\ "decimal" \in Flag
  /\ "researved" \in Flag /\ "overflow" \in Flag /\ "negative" \in Flag
  BY DEF Flag

LEMMA SetTyped ==
  ASSUME NEW r \in Register, NEW b \in Byte
  PROVE  SetAcc(r, b) \in Register /\ SetX(r, b) \in Register /\ SetY(r, b) \in Register
<1> DEFINE st == SetNZ(r.status, b)
<1>1. st \in SUBSET Flag
  BY StatusByte, RegisterHas
<1>2. /\ SetAcc(r, b) = [r EXCEPT !.acc = b, !.status = st]
      /\ SetX(r, b) = [r EXCEPT !.x = b, !.status = st]
      /\ SetY(r, b) = [r EXCEPT !.y = b, !.status = st]
  BY Zenon DEF SetAcc, SetX, SetY
<1> HIDE DEF st
<1>3. /\ [r EXCEPT !.acc = b, !.status = st] \in Register
      /\ [r EXCEPT !.x = b, !.status = st] \in Register
      /\ [r EXCEPT !.y = b, !.status = st] \in Register
  BY <1>1, RegisterSet
<1> QED
  BY <1>2, <1>3, Zenon

\* The sums and differences are taken modulo 256.
LEMMA SumsTyped ==
  ASSUME NEW r \in Register, NEW m \in Byte
  PROVE  Adc(r, m) \in Register /\ Sbc(r, m) \in Register
<1>0. r.acc \in Int /\ m \in Int /\ r.status \in SUBSET Flag
  BY RegisterHas, ByteIs
<1>1. Adc(r, m) \in Register
  <2> DEFINE sum   == r.acc + m + Bit("carry" \in r.status)
             carry == sum > 255
             acc   == sum % 256
             st    == SetNZ(With(With(r.status, "carry", carry), "overflow",
                        SignedOverflow(Signed(r.acc) + Bit(carry) + Signed(m))), acc)
  <2>1. Bit("carry" \in r.status) \in Int
    BY DEF Bit
  <2>2. sum \in Int
    BY <1>0, <2>1
  <2>3. acc \in Byte
    <3> HIDE DEF sum
    <3>1. acc \in Int /\ 0 <= acc /\ acc <= 255
      BY <2>2
    <3> QED
      BY <3>1, InByte
  <2>4. Adc(r, m) = [r EXCEPT !.acc = acc, !.status = st]
    BY Zenon DEF Adc
  <2>5. st \in SUBSET Flag
    <3>1. With(r.status, "carry", carry) \in SUBSET Flag
      BY <1>0, FlagNames DEF With
    <3>2. \A w \in SUBSET Flag : \A c : SetNZ(With(w, "overflow", c), acc) \in SUBSET Flag
      BY StatusByte, FlagNames
    <3> QED
      BY <3>1, <3>2, Zenon
  <2> HIDE DEF acc, st
  <2>6. [r EXCEPT !.acc = acc, !.status = st] \in Register
    BY <2>3, <2>5, RegisterSet
  <2> QED
    BY <2>4, <2>6, Zenon
<1>2. Sbc(r, m) \in Register
  <2> DEFINE borrow == Bit("carry" \notin r.status)
             diff   == r.acc - m - borrow
             acc    == diff % 256
             st     == SetNZ(With(With(r.status, "carry", r.acc >= m + borrow), "overflow",
                        SignedOverflow(Signed(r.acc) - Signed(m) - borrow)), acc)
  <2>1. borrow \in Int
    BY DEF Bit
  <2>2. diff \in Int
    BY <1>0, <2>1
  <2>3. acc \in Byte
    <3> HIDE DEF diff
    <3>1. acc \in Int /\ 0 <= acc /\ acc <= 255
      BY <2>2
    <3> QED
      BY <3>1, InByte
  <2>4. Sbc(r, m) = [r EXCEPT !.acc = acc, !.status = st]
    BY Zenon DEF Sbc
  <2>5. st \in SUBSET Flag
    <3>1. With(r.status, "carry", r.acc >= m + borrow) \in SUBSET Flag
      BY <1>0, FlagNames DEF With
    <3>2. \A w \in SUBSET Flag : \A c : SetNZ(With(w, "overflow", c), acc) \in SUBSET Flag
      BY StatusByte, FlagNames
    <3> QED
      BY <3>1, <3>2, Zenon
  <2> HIDE DEF acc, st
  <2>6. [r EXCEPT !.acc = acc, !.status = st] \in Register
    BY <2>3, <2>5, RegisterSet
  <2> QED
    BY <2>4, <2>6, Zenon
<1> QED
  BY <1>1, <1>2

LEMMA ComparesTyped ==
  ASSUME NEW r \in Register, NEW b, NEW m
  PROVE  Compare(r, b, m) \in Register /\ TestBits(r, m) \in Register
<1>1. \A w \in SUBSET Flag, f \in Flag : \A c : With(w, f, c) \in SUBSET Flag
  BY StatusByte
<1>2. SetNZ(With(r.status, "carry", b >= m), (b - m) % 256) \in SUBSET Flag
  <2>1. With(r.status, "carry", b >= m) \in SUBSET Flag
    BY <1>1, RegisterHas, FlagNames
  <2> QED
    BY <2>1, StatusByte
<1>3. With(With(With(r.status, "negative", m >= 128), "overflow", 6 \in Bits(m)),
           "zero", And(r.acc, m) = 0) \in SUBSET Flag
  <2>1. With(r.status, "negative", m >= 128) \in SUBSET Flag
    BY <1>1, RegisterHas, FlagNames
  <2>2. With(With(r.status, "negative", m >= 128), "overflow", 6 \in Bits(m)) \in SUBSET Flag
    BY <2>1, <1>1, FlagNames
  <2> QED
    BY <2>2, <1>1, FlagNames
<1>4. \A st \in SUBSET Flag : [r EXCEPT !.status = st] \in Register
  BY RegisterSet
<1> QED
  BY <1>2, <1>3, <1>4, Zenon DEF Compare, TestBits

\* Every instruction that loads leaves bytes in the registers.
LEMMA LoadedTyped ==
  ASSUME NEW r \in Register, NEW m \in Byte, NEW op \in LoadOps
  PROVE  Loaded(op, r, m) \in Register
<1>1. r.acc \in Byte
  BY RegisterHas
<1>2. /\ op = "LDA" => Loaded(op, r, m) = SetAcc(r, m)
      /\ op = "LDX" => Loaded(op, r, m) = SetX(r, m)
      /\ op = "LDY" => Loaded(op, r, m) = SetY(r, m)
      /\ op = "AND" => Loaded(op, r, m) = SetAcc(r, And(r.acc, m))
      /\ op = "ORA" => Loaded(op, r, m) = SetAcc(r, Or(r.acc, m))
      /\ op = "EOR" => Loaded(op, r, m) = SetAcc(r, Xor(r.acc, m))
      /\ op = "ADC" => Loaded(op, r, m) = Adc(r, m)
      /\ op = "SBC" => Loaded(op, r, m) = Sbc(r, m)
      /\ op = "CMP" => Loaded(op, r, m) = Compare(r, r.acc, m)
      /\ op = "CPX" => Loaded(op, r, m) = Compare(r, r.x, m)
      /\ op = "CPY" => Loaded(op, r, m) = Compare(r, r.y, m)
      /\ op = "BIT" => Loaded(op, r, m) = TestBits(r, m)
  BY DEF Loaded
<1> QED
  BY <1>2, SetTyped, SumsTyped, ComparesTyped, Logic DEF LoadOps

\* Every instruction that modifies leaves a byte and flags.
LEMMA ModifiedTyped ==
  ASSUME NEW op \in ModifyOps, NEW b \in Byte, NEW st \in SUBSET Flag
  PROVE  Modified(op, b, "carry" \in st) \in Byte /\ CarryOut(op, b, st) \in SUBSET Flag
<1> DEFINE c == Bit("carry" \in st)
<1>1. c \in 0 .. 1
  BY DEF Bit
<1>2. b \in Int /\ 0 <= b /\ b <= 255
  BY ByteIs
<1>3. /\ op = "ASL" => Modified(op, b, "carry" \in st) = (b * 2) % 256
      /\ op = "LSR" => Modified(op, b, "carry" \in st) = b \div 2
      /\ op = "ROL" => Modified(op, b, "carry" \in st) = ((b * 2) % 256) + c
      /\ op = "ROR" => Modified(op, b, "carry" \in st) = (b \div 2) + 128 * c
      /\ op = "INC" => Modified(op, b, "carry" \in st) = Add8(b, 1)
      /\ op = "DEC" => Modified(op, b, "carry" \in st) = Add8(b, -1)
  BY DEF Modified
<1> HIDE DEF c
<1>4. /\ (b * 2) % 256 \in Int /\ 0 <= (b * 2) % 256 /\ (b * 2) % 256 <= 254
      /\ b \div 2 \in Int /\ 0 <= b \div 2 /\ b \div 2 <= 127
  BY <1>2
<1>5. /\ (b * 2) % 256 \in Byte /\ b \div 2 \in Byte
      /\ ((b * 2) % 256) + c \in Byte /\ (b \div 2) + 128 * c \in Byte
  BY <1>1, <1>4, InByte
<1>6. Add8(b, 1) \in Byte /\ Add8(b, -1) \in Byte
  BY <1>2, Add8Typed
<1>7. Modified(op, b, "carry" \in st) \in Byte
  BY <1>3, <1>5, <1>6 DEF ModifyOps
<1>8. CarryOut(op, b, st) \in SUBSET Flag
  BY FlagNames DEF CarryOut, With
<1> QED
  BY <1>7, <1>8

\* So does every instruction on registers.
LEMMA ImpliedTyped ==
  ASSUME NEW r \in Register, NEW op \in OneStepOps \cup ModifyOps
  PROVE  Implied(op, r) \in Register
<1>0. /\ r.acc \in Byte /\ r.x \in Byte /\ r.y \in Byte /\ r.sp \in Byte
      /\ r.status \in SUBSET Flag
  BY RegisterHas
<1>1. ASSUME NEW f \in Flag
      PROVE  [r EXCEPT !.status = @ \ {f}] \in Register /\ [r EXCEPT !.status = @ \cup {f}] \in Register
  BY <1>0, RegisterSet
<1>2. [r EXCEPT !.sp = r.x, !.status = SetNZ(@, r.x)] \in Register
  BY <1>0, RegisterSet, StatusByte
<1>3. /\ Add8(r.x, 1) \in Byte /\ Add8(r.y, 1) \in Byte
      /\ Add8(r.x, -1) \in Byte /\ Add8(r.y, -1) \in Byte
  <2>1. r.x \in Int /\ r.y \in Int
    BY <1>0, ByteIs
  <2> QED
    BY <2>1, Add8Typed
<1>4. CASE op \in OneStepOps
  <2>1. /\ op = "CLC" => Implied(op, r) = [r EXCEPT !.status = @ \ {"carry"}]
        /\ op = "SEC" => Implied(op, r) = [r EXCEPT !.status = @ \cup {"carry"}]
        /\ op = "CLI" => Implied(op, r) = [r EXCEPT !.status = @ \ {"irq_disable"}]
        /\ op = "SEI" => Implied(op, r) = [r EXCEPT !.status = @ \cup {"irq_disable"}]
        /\ op = "CLD" => Implied(op, r) = [r EXCEPT !.status = @ \ {"decimal"}]
        /\ op = "SED" => Implied(op, r) = [r EXCEPT !.status = @ \cup {"decimal"}]
        /\ op = "CLV" => Implied(op, r) = [r EXCEPT !.status = @ \ {"overflow"}]
        /\ op = "TXS" => Implied(op, r) = [r EXCEPT !.sp = r.x, !.status = SetNZ(@, r.x)]
        /\ op = "NOP" => Implied(op, r) = r
    BY DEF Implied, ModifyOps
  <2>2. /\ op = "TAX" => Implied(op, r) = SetX(r, r.acc)
        /\ op = "TAY" => Implied(op, r) = SetY(r, r.acc)
        /\ op = "TXA" => Implied(op, r) = SetAcc(r, r.x)
        /\ op = "TYA" => Implied(op, r) = SetAcc(r, r.y)
        /\ op = "TSX" => Implied(op, r) = SetX(r, r.sp)
        /\ op = "INX" => Implied(op, r) = SetX(r, Add8(r.x, 1))
        /\ op = "INY" => Implied(op, r) = SetY(r, Add8(r.y, 1))
        /\ op = "DEX" => Implied(op, r) = SetX(r, Add8(r.x, -1))
        /\ op = "DEY" => Implied(op, r) = SetY(r, Add8(r.y, -1))
    BY DEF Implied, ModifyOps
  <2> QED
    BY <1>0, <1>1, <1>2, <1>3, <1>4, <2>1, <2>2, SetTyped, FlagNames DEF OneStepOps
<1>5. CASE op \in ModifyOps
  <2> DEFINE t == [r EXCEPT !.status = CarryOut(op, r.acc, @)]
             b == Modified(op, r.acc, "carry" \in r.status)
  <2>1. t \in Register /\ b \in Byte
    BY <1>0, <1>5, ModifiedTyped, RegisterSet
  <2>2. Implied(op, r) = SetAcc(t, b)
    BY <1>5 DEF Implied, ModifyOps
  <2> HIDE DEF t, b
  <2> QED
    BY <2>1, <2>2, SetTyped
<1> QED
  BY <1>4, <1>5

-----------------------------------------------------------------------------
(* The steps. *)

LEMMA StoredTyped ==
  ASSUME NEW r \in Register, NEW op \in StoreOps \cup {"PHA", "PHP"}
  PROVE  Stored(op, r) \in Byte
  BY RegisterHas, StatusByte DEF Stored, StoreOps

LEMMA IndexTyped ==
  ASSUME NEW s, DataOK(s), NEW step
  PROVE  Indexed(step, s) \in Address
<1>1. s.addr \in Int /\ s.reg.x \in Int /\ s.reg.y \in Int
  BY DataHas, AddressIs, ByteIs
<1>2. Add16(s.addr, s.reg.x) \in Address /\ Add16(s.addr, s.reg.y) \in Address
  BY <1>1, Add16Typed
<1> QED
  BY <1>2 DEF Indexed

LEMMA ByteIsAddress == ASSUME NEW b \in Byte PROVE b \in Address
  BY ByteIs, InAddress

LEMMA TargetTyped ==
  ASSUME NEW s, DataOK(s), NEW inst
  PROVE  Target(inst, s) \in Address
  BY DataHas, ByteIsAddress DEF Target

LEMMA BranchTyped ==
  ASSUME NEW s, DataOK(s)
  PROVE  BranchTarget(s) \in Address
<1>1. s.reg.pc \in Int /\ Signed(s.data) \in Int
  BY DataHas, AddressIs, ByteIs
<1> QED
  BY <1>1, Add16Typed DEF BranchTarget

\* The steps by kind: an index, the pc, the operand, the stack.
LEMMA IndexStep ==
  ASSUME NEW s, DataOK(s), NEW inst, NEW step \in {"addr+x", "addr+y"}
  PROVE  DataOK(Step(step, inst, s))
<1>1. Step(step, inst, s) = IF Hits(step, inst, s) THEN load_memory(s, Indexed(step, s))
                                                  ELSE [s EXCEPT !.addr = Indexed(step, s)]
  BY DEF Step
<1>2. DataOK(load_memory(s, Indexed(step, s))) /\ DataOK([s EXCEPT !.addr = Indexed(step, s)])
  BY LoadMemoryTyped, IndexTyped, DataSet
<1> QED
  BY <1>1, <1>2

LEMMA PcStep ==
  ASSUME NEW s, DataOK(s), NEW inst,
         NEW step \in {"imm", "pc_lo", "pc_hi", "branch", "cross", "jump", "jump+1"}
  PROVE  DataOK(Step(step, inst, s))
<1>1. step = "imm" => Step(step, inst, s) = load_imm(s)
  BY DEF Step
<1>2. /\ step = "pc_lo" => Step(step, inst, s) = load_pc(s, "lo")
      /\ step = "pc_hi" => Step(step, inst, s) = load_pc(s, "hi")
  BY DEF Step
<1>3. CASE step = "branch"
  <2>1. \/ Step(step, inst, s) = [s EXCEPT !.reg.pc = BranchTarget(s)]
        \/ Step(step, inst, s) = [s EXCEPT !.addr = BranchTarget(s)]
    BY <1>3 DEF Step
  <2>2. DataOK([s EXCEPT !.reg.pc = BranchTarget(s)]) /\ DataOK([s EXCEPT !.addr = BranchTarget(s)])
    BY BranchTyped, DataSet, DataReg
  <2> QED
    BY <2>1, <2>2, Zenon
<1>4. CASE step \in {"cross", "jump"}
  <2>1. Step(step, inst, s) = [s EXCEPT !.reg.pc = s.addr]
    BY <1>4 DEF Step
  <2>2. DataOK([s EXCEPT !.reg.pc = s.addr])
    BY DataHas, DataReg
  <2> QED
    BY <2>1, <2>2, Zenon
<1>5. CASE step = "jump+1"
  <2>1. Step(step, inst, s) = [s EXCEPT !.reg.pc = Add16(s.addr, 1)]
    BY <1>5 DEF Step
  <2>2. Add16(s.addr, 1) \in Address
    <3>1. s.addr \in Int
      BY DataHas, AddressIs
    <3> QED
      BY <3>1, Add16Typed
  <2>3. DataOK([s EXCEPT !.reg.pc = Add16(s.addr, 1)])
    BY <2>2, DataReg
  <2> QED
    BY <2>1, <2>3, Zenon
<1> QED
  BY <1>1, <1>2, <1>3, <1>4, <1>5, LoadPcTyped

LEMMA OperandStep ==
  ASSUME NEW s, DataOK(s), NEW inst,
         NEW step \in {"imm+x", "imm+y", "zp_lo", "zp_hi", "load", "fetch", "write_back", "load_hi"}
  PROVE  DataOK(Step(step, inst, s))
<1>1. CASE step \in {"imm+x", "imm+y"}
  <2>1. \/ Step(step, inst, s) = [s EXCEPT !.data = Add8(s.data, s.reg.x)]
        \/ Step(step, inst, s) = [s EXCEPT !.data = Add8(s.data, s.reg.y)]
    BY <1>1 DEF Step
  <2>2. s.data \in Int /\ s.reg.x \in Int /\ s.reg.y \in Int
    BY DataHas, ByteIs
  <2>3. Add8(s.data, s.reg.x) \in Byte /\ Add8(s.data, s.reg.y) \in Byte
    BY <2>2, Add8Typed
  <2>4. /\ DataOK([s EXCEPT !.data = Add8(s.data, s.reg.x)])
        /\ DataOK([s EXCEPT !.data = Add8(s.data, s.reg.y)])
    BY <2>3, DataSet
  <2> QED
    BY <2>1, <2>4, Zenon
<1>2. CASE step = "zp_lo"
  <2> DEFINE t == load_addr(s, s.data, "lo")
  <2>1. Step(step, inst, s) = [t EXCEPT !.data = s.data]
    BY <1>2 DEF Step
  <2>2. DataOK(t) /\ s.data \in Byte
    BY LoadAddrTyped, DataHas
  <2> HIDE DEF t
  <2>3. DataOK([t EXCEPT !.data = s.data])
    BY <2>2, DataSet
  <2> QED
    BY <2>1, <2>3, Zenon
<1>3. CASE step = "zp_hi"
  <2>1. Step(step, inst, s) = load_addr(s, ZpNext(s.data), "hi")
    BY <1>3 DEF Step
  <2> QED
    BY <2>1, LoadAddrTyped
<1>4. CASE step = "load"
  <2>1. Step(step, inst, s) = load_memory(s, Target(inst, s))
    BY <1>4 DEF Step
  <2> QED
    BY <2>1, LoadMemoryTyped
<1>5. CASE step = "fetch"
  <2> DEFINE t == load_memory(s, Target(inst, s))
  <2>1. Step(step, inst, s) = [t EXCEPT !.addr = Target(inst, s)]
    BY <1>5 DEF Step
  <2>2. DataOK(t) /\ Target(inst, s) \in Address
    BY LoadMemoryTyped, TargetTyped
  <2> HIDE DEF t
  <2>3. DataOK([t EXCEPT !.addr = Target(inst, s)])
    BY <2>2, DataSet
  <2> QED
    BY <2>1, <2>3, Zenon
<1>6. CASE step = "write_back"
  <2>1. Step(step, inst, s) = store_memory(s, s.addr, s.data)
    BY <1>6 DEF Step
  <2> QED
    BY <2>1, StoreMemoryTyped, DataHas
<1>7. CASE step = "load_hi"
  <2> DEFINE t == load_memory(s, Add16(s.addr, 1))
  <2>1. Step(step, inst, s) = [t EXCEPT !.addr = Word(s.data, t.data)]
    BY <1>7 DEF Step
  <2>2. DataOK(t)
    BY LoadMemoryTyped
  <2> HIDE DEF t
  <2>3. Word(s.data, t.data) \in Address
    BY <2>2, DataHas, WordTyped
  <2>4. DataOK([t EXCEPT !.addr = Word(s.data, t.data)])
    BY <2>2, <2>3, DataSet
  <2> QED
    BY <2>1, <2>4, Zenon
<1> QED
  BY <1>1, <1>2, <1>3, <1>4, <1>5, <1>6, <1>7

LEMMA StackStep ==
  ASSUME NEW s, DataOK(s), NEW inst,
         NEW step \in {"push_hi", "push_lo", "pop", "pop_status", "pop_addr", "addr", "join", "idle"}
  PROVE  DataOK(Step(step, inst, s))
<1>1. CASE step \in {"push_hi", "push_lo"}
  <2>1. \/ Step(step, inst, s) = push(s, Hi(Add16(s.reg.pc, 1)))
        \/ Step(step, inst, s) = push(s, Lo(Add16(s.reg.pc, 1)))
    BY <1>1 DEF Step
  <2>2. Hi(Add16(s.reg.pc, 1)) \in Byte /\ Lo(Add16(s.reg.pc, 1)) \in Byte
    BY PcTyped, HalvesTyped
  <2> QED
    BY <2>1, <2>2, PushTyped
<1>2. CASE step = "pop"
  <2>1. Step(step, inst, s) = pop(s)
    BY <1>2 DEF Step
  <2> QED
    BY <2>1, PopTyped
<1>3. CASE step = "pop_status"
  <2> DEFINE t == [s EXCEPT !.reg.status = UnpackStatus(s.data)]
  <2>1. Step(step, inst, s) = pop(t)
    BY <1>3 DEF Step
  <2>2. DataOK(t)
    BY StatusByte, DataReg
  <2> QED
    BY <2>1, <2>2, PopTyped
<1>4. CASE step \in {"pop_addr", "addr"}
  <2> DEFINE t == [s EXCEPT !.addr = s.data]
  <2>1. Step(step, inst, s) = pop(t) \/ Step(step, inst, s) = t
    BY <1>4 DEF Step
  <2>2. DataOK(t)
    BY DataHas, ByteIsAddress, DataSet
  <2> QED
    BY <2>1, <2>2, PopTyped
<1>5. CASE step = "join"
  <2> DEFINE w == Word(Lo(s.addr), s.data)
  <2>1. Step(step, inst, s) = [s EXCEPT !.addr = w]
    BY <1>5 DEF Step
  <2>2. w \in Address
    BY DataHas, HalvesTyped, WordTyped
  <2> HIDE DEF w
  <2>3. DataOK([s EXCEPT !.addr = w])
    BY <2>2, DataSet
  <2> QED
    BY <2>1, <2>3, Zenon
<1>6. CASE step = "idle"
  BY <1>6 DEF Step
<1> QED
  BY <1>1, <1>2, <1>3, <1>4, <1>5, <1>6

\* Every step that the table can lead to.
LEMMA StepTyped ==
  ASSUME NEW s, DataOK(s), NEW inst, NEW step,
         \/ step \in ByteSteps
         \/ step = "store" /\ inst.op \in StoreOps
         \/ step = "push" /\ inst.op \in {"PHA", "PHP"}
         \/ step = "modify" /\ inst.op \in ModifyOps
  PROVE  DataOK(Step(step, inst, s))
<1>1. CASE step \in ByteSteps
  BY <1>1, IndexStep, PcStep, OperandStep, StackStep DEF ByteSteps
<1>2. CASE step = "store" /\ inst.op \in StoreOps
  <2>1. Step(step, inst, s) = store_memory(s, Target(inst, s), Stored(inst.op, s.reg))
    BY <1>2 DEF Step
  <2>2. Stored(inst.op, s.reg) \in Byte
    BY <1>2, StoredTyped, DataHas
  <2> QED
    BY <2>1, <2>2, TargetTyped, StoreMemoryTyped
<1>3. CASE step = "push" /\ inst.op \in {"PHA", "PHP"}
  <2>1. Step(step, inst, s) = push(s, Stored(inst.op, s.reg))
    BY <1>3 DEF Step
  <2>2. Stored(inst.op, s.reg) \in Byte
    BY <1>3, StoredTyped, DataHas
  <2> QED
    BY <2>1, <2>2, PushTyped
<1>4. CASE step = "modify" /\ inst.op \in ModifyOps
  <2> DEFINE b == Modified(inst.op, s.data, "carry" \in s.reg.status)
             st == CarryOut(inst.op, s.data, s.reg.status)
             t == [s EXCEPT !.data = b]
  <2>1. Step(step, inst, s) = [s EXCEPT !.data = b, !.reg.status = st]
    BY <1>4 DEF Step
  <2>2. b \in Byte /\ st \in SUBSET Flag
    BY <1>4, ModifiedTyped, DataHas
  <2>3. [s EXCEPT !.data = b, !.reg.status = st] = [t EXCEPT !.reg.status = st]
    BY Zenon
  <2>4. DataOK(t)
    BY <2>2, DataSet
  <2> HIDE DEF b, st, t
  <2>5. DataOK([t EXCEPT !.reg.status = st])
    BY <2>2, <2>4, DataReg
  <2> QED
    BY <2>1, <2>3, <2>5, Zenon
<1> QED
  BY <1>1, <1>2, <1>3, <1>4

\* Every step of an interrupt or reset.
LEMMA IntrStepTyped ==
  ASSUME NEW s, DataOK(s),
         NEW step \in {"push_pc_hi", "push_pc_lo", "push_status", "nmi_lo", "nmi_hi",
                       "reset_lo", "reset_hi", "enter"}
  PROVE  DataOK(IntrStep(step, s))
<1>1. CASE step \in {"push_pc_hi", "push_pc_lo", "push_status"}
  <2>1. \/ IntrStep(step, s) = push(s, Hi(s.reg.pc))
        \/ IntrStep(step, s) = push(s, Lo(s.reg.pc))
        \/ IntrStep(step, s) = push(s, PackStatus(s.reg.status))
    BY <1>1 DEF IntrStep
  <2>2. /\ Hi(s.reg.pc) \in Byte /\ Lo(s.reg.pc) \in Byte
        /\ PackStatus(s.reg.status) \in Byte
    BY DataHas, HalvesTyped, StatusByte
  <2> QED
    BY <2>1, <2>2, PushTyped
<1>2. CASE step \in {"nmi_lo", "nmi_hi", "reset_lo", "reset_hi"}
  <2>1. \E a, half : IntrStep(step, s) = load_addr(s, a, half)
    BY <1>2 DEF IntrStep
  <2> QED
    BY <2>1, LoadAddrTyped
<1>3. CASE step = "enter"
  <2> DEFINE st == (s.reg.status \ {"decimal"}) \cup {"irq_disable"}
             t == [s EXCEPT !.reg.pc = s.addr]
  <2>1. IntrStep(step, s) = [s EXCEPT !.reg.pc = s.addr, !.reg.status = st]
    BY <1>3 DEF IntrStep
  <2>2. t.reg.status = s.reg.status
    BY DEF DataOK, Register
  <2>3. [s EXCEPT !.reg.pc = s.addr, !.reg.status = st] = [t EXCEPT !.reg.status = st]
    BY Zenon
  <2>4. DataOK(t)
    BY DataHas, DataReg
  <2>5. st \in SUBSET Flag
    BY DataHas, FlagNames
  <2> HIDE DEF st, t
  <2>6. DataOK([t EXCEPT !.reg.status = st])
    BY <2>4, <2>5, DataReg
  <2> QED
    BY <2>1, <2>3, <2>6, Zenon
<1> QED
  BY <1>1, <1>2, <1>3

-----------------------------------------------------------------------------
(* Whole instructions. *)

TableRow(inst) == LoadRow(inst) \/ StoreRow(inst) \/ ModifyRow(inst) \/ ControlRow(inst)

\* What is left for the last case of Retire is an instruction on registers.
LEMMA OneStepRows ==
  ASSUME NEW inst, TableRow(inst), inst.addr_mode \in {"IMP", "ACC"}, Steps(inst) = <<"idle">>
  PROVE  inst.op \in OneStepOps \cup ModifyOps
<1>1. Len(Steps(inst)) = 1
  OBVIOUS
<1>2. inst.op \notin {"PHA", "PHP", "PLA", "PLP", "RTI", "RTS", "BRK"}
  <2>1. inst.op \in {"PHA", "PHP"} => Len(Steps(inst)) = 2
    BY DEF Steps, LoadOps, StoreOps, ModifyOps, BranchOps
  <2>2. inst.op \in {"PLA", "PLP"} => Len(Steps(inst)) = 3
    BY DEF Steps, LoadOps, StoreOps, ModifyOps, BranchOps
  <2>3. inst.op \in {"RTI", "RTS"} => Len(Steps(inst)) = 5
    BY DEF Steps, LoadOps, StoreOps, ModifyOps, BranchOps
  <2>4. inst.op = "BRK" => Len(Steps(inst)) = 0
    BY DEF Steps, LoadOps, StoreOps, ModifyOps, BranchOps
  <2> QED
    BY <1>1, <2>1, <2>2, <2>3, <2>4
<1> QED
  BY <1>2 DEF TableRow, LoadRow, StoreRow, ModifyRow, ControlRow

\* Retire, case by case: at most one of its guards holds.
LEMMA RetireCases ==
  ASSUME NEW inst, NEW s
  PROVE  LET load == inst.op \in LoadOps
             modify == inst.op \in ModifyOps /\ inst.addr_mode # "ACC"
             jump == inst.op = "JMP"
             pull == inst.op \in {"PLA", "PLP"}
             idle == inst.addr_mode \in {"IMP", "ACC"} /\ Steps(inst) = <<"idle">>
         IN  /\ load /\ ~modify /\ ~jump /\ ~pull /\ ~idle =>
                  Retire(inst, s) = [s EXCEPT !.reg = Loaded(inst.op, s.reg, s.data)]
             /\ ~load /\ modify /\ ~jump /\ ~pull /\ ~idle =>
                  Retire(inst, s) = [s EXCEPT !.reg.status = SetNZ(s.reg.status, s.data)]
             /\ ~load /\ ~modify /\ jump /\ ~pull /\ ~idle =>
                  Retire(inst, s) = [s EXCEPT !.reg.pc = s.addr]
             /\ ~load /\ ~modify /\ ~jump /\ pull /\ ~idle =>
                  Retire(inst, s) = [s EXCEPT !.reg = Pulled(inst.op, s.reg, s.data)]
             /\ ~load /\ ~modify /\ ~jump /\ ~pull =>
                  Retire(inst, s) = IF idle THEN [s EXCEPT !.reg = Implied(inst.op, s.reg)] ELSE s
  BY Zenon DEF Retire

\* Every end of an instruction of the table.
LEMMA RetireTyped ==
  ASSUME NEW inst, TableRow(inst), NEW s, DataOK(s)
  PROVE  DataOK(Retire(inst, s))
<1> DEFINE idle == inst.addr_mode \in {"IMP", "ACC"} /\ Steps(inst) = <<"idle">>
           modify == inst.op \in ModifyOps /\ inst.addr_mode # "ACC"
<1>0. s.reg \in Register /\ s.data \in Byte /\ s.addr \in Address /\ s.reg.status \in SUBSET Flag
  BY DataHas
<1>1. idle => inst.op \in OneStepOps \cup ModifyOps
  BY OneStepRows
<1>2. CASE inst.op \in LoadOps
  <2>1. ~idle /\ inst.op \notin ModifyOps /\ inst.op \notin {"JMP", "PLA", "PLP"}
    BY <1>1, <1>2 DEF LoadOps, ModifyOps, OneStepOps
  <2>2. Retire(inst, s) = [s EXCEPT !.reg = Loaded(inst.op, s.reg, s.data)]
    BY <1>2, <2>1, RetireCases, Zenon
  <2>3. DataOK([s EXCEPT !.reg = Loaded(inst.op, s.reg, s.data)])
    BY <1>0, <1>2, LoadedTyped, DataSet
  <2> QED
    BY <2>2, <2>3, Zenon
<1>3. CASE modify
  <2>1. ~idle /\ inst.op \notin LoadOps /\ inst.op \notin {"JMP", "PLA", "PLP"}
    BY <1>3 DEF LoadOps, ModifyOps, TableRow, LoadRow, StoreRow, ModifyRow, ControlRow,
                StoreOps, BranchOps, OneStepOps
  <2>2. Retire(inst, s) = [s EXCEPT !.reg.status = SetNZ(s.reg.status, s.data)]
    BY <1>3, <2>1, RetireCases, Zenon
  <2>3. DataOK([s EXCEPT !.reg.status = SetNZ(s.reg.status, s.data)])
    BY <1>0, StatusByte, DataReg
  <2> QED
    BY <2>2, <2>3, Zenon
<1>4. CASE inst.op = "JMP"
  <2>1. ~idle /\ inst.op \notin LoadOps /\ ~modify /\ inst.op \notin {"PLA", "PLP"}
    BY <1>1, <1>4 DEF LoadOps, ModifyOps, OneStepOps
  <2>2. Retire(inst, s) = [s EXCEPT !.reg.pc = s.addr]
    BY <1>4, <2>1, RetireCases, Zenon
  <2>3. DataOK([s EXCEPT !.reg.pc = s.addr])
    BY <1>0, DataReg
  <2> QED
    BY <2>2, <2>3, Zenon
<1>5. CASE inst.op \in {"PLA", "PLP"}
  <2>1. ~idle /\ inst.op \notin LoadOps /\ ~modify /\ inst.op # "JMP"
    BY <1>1, <1>5 DEF LoadOps, ModifyOps, OneStepOps
  <2>2. Retire(inst, s) = [s EXCEPT !.reg = Pulled(inst.op, s.reg, s.data)]
    BY <1>5, <2>1, RetireCases, Zenon
  <2>3. Pulled(inst.op, s.reg, s.data) \in Register
    <3>1. [s.reg EXCEPT !.status = UnpackStatus(s.data)] \in Register
      BY <1>0, StatusByte, RegisterSet
    <3>2. SetAcc(s.reg, s.data) \in Register
      BY <1>0, SetTyped
    <3> QED
      BY <3>1, <3>2 DEF Pulled
  <2>4. DataOK([s EXCEPT !.reg = Pulled(inst.op, s.reg, s.data)])
    BY <2>3, DataSet
  <2> QED
    BY <2>2, <2>4, Zenon
<1>6. CASE inst.op \notin LoadOps /\ ~modify /\ inst.op \notin {"JMP", "PLA", "PLP"}
  <2>1. Retire(inst, s) = IF idle THEN [s EXCEPT !.reg = Implied(inst.op, s.reg)] ELSE s
    BY <1>6, RetireCases, Zenon
  <2>2. ASSUME idle PROVE DataOK([s EXCEPT !.reg = Implied(inst.op, s.reg)])
    BY <1>0, <1>1, <2>2, ImpliedTyped, DataSet
  <2> HIDE DEF idle
  <2> QED
    BY <2>1, <2>2, Zenon
<1> HIDE DEF idle, modify
<1> QED
  BY <1>2, <1>3, <1>4, <1>5, <1>6

\* A whole cycle of an instruction.
LEMMA FuncTyped ==
  ASSUME NEW c \in DOMAIN opcode_list, NEW inst, inst = opcode_list[c],
         NEW i \in 0 .. 6, ~FuncFails(i, inst), NEW s, DataOK(s)
  PROVE  DataOK(Func(i, inst, s))
<1> DEFINE t == Step(Steps(inst)[i + 1], inst, s)
           u == IF ExecDone(i, inst, s) THEN Retire(inst, t) ELSE t
<1>1. Fits(inst) /\ i + 1 \in 1 .. Len(Steps(inst))
  BY FuncFits
<1>2. TableRow(inst)
  BY TheTable DEF TableRow
<1>3. DataOK(t)
  <2>1. StepFits(inst, Steps(inst)[i + 1], i + 1, Len(Steps(inst)))
    BY <1>1 DEF Fits
  <2> QED
    BY <2>1, StepTyped DEF StepFits
<1>4. DataOK(u)
  <2> HIDE DEF t
  <2> QED
    BY <1>2, <1>3, RetireTyped
<1>5. Func(i, inst, s) = IF inst.op = "PLP" THEN [u EXCEPT !.reg.status = FixStatus(u.reg.status)] ELSE u
  BY DEF Func
<1> HIDE DEF t, u
<1>6. DataOK([u EXCEPT !.reg.status = FixStatus(u.reg.status)])
  <2>1. FixStatus(u.reg.status) \in SUBSET Flag
    BY <1>4, DataHas, StatusByte
  <2> QED
    BY <1>4, <2>1, DataReg
<1> QED
  BY <1>4, <1>5, <1>6, Zenon

-----------------------------------------------------------------------------
(* Type correctness. *)

DataInv == DataOK(DataPath)

LEMMA DataInvIs ==
  DataInv <=> /\ cpu_reg \in Register /\ IsMemory(mem)
              /\ cpu_data_buffer \in Byte /\ cpu_addr_buffer \in Address
<1>1. /\ DataPath.reg = cpu_reg /\ DataPath.mem = mem
      /\ DataPath.data = cpu_data_buffer /\ DataPath.addr = cpu_addr_buffer
  BY DEF DataPath
<1>2. DataPath = [reg |-> DataPath.reg, mem |-> DataPath.mem,
                  data |-> DataPath.data, addr |-> DataPath.addr]
  BY DEF DataPath
<1> QED
  BY <1>1, <1>2, Zenon DEF DataInv, DataOK

LEMMA BecomesTyped ==
  ASSUME NEW s, DataOK(s), Becomes(s)
  PROVE  DataInv'
<1>1. /\ cpu_reg' \in Register /\ IsMemory(mem')
      /\ cpu_data_buffer' \in Byte /\ cpu_addr_buffer' \in Address
  BY DataHas DEF Becomes
<1>2. [reg |-> cpu_reg', mem |-> mem', data |-> cpu_data_buffer', addr |-> cpu_addr_buffer'] = DataPath'
  BY DEF DataPath
<1> QED
  BY <1>1, <1>2, DataMake DEF DataInv

LEMMA SequenceTyped ==
  ASSUME NEW steps \in {NmiSteps, ResetSteps}, NEW handler, NEW i \in 0 .. 5, i < Len(steps),
         Sequence(steps, handler, i), DataInv
  PROVE  DataInv'
<1>1. steps[i + 1] \in {"push_pc_hi", "push_pc_lo", "push_status", "nmi_lo", "nmi_hi",
                        "reset_lo", "reset_hi", "enter"}
  BY SequenceLengths
<1>2. Becomes(IntrStep(steps[i + 1], DataPath))
  BY DEF Sequence
<1> QED
  BY <1>1, <1>2, IntrStepTyped, BecomesTyped DEF DataInv

LEMMA FetchTyped ==
  ASSUME DataInv, FetchAndDecode
  PROVE  DataInv'
<1> DEFINE s == load_memory(DataPath, cpu_reg.pc)
<1>1. DataOK(s)
  BY LoadMemoryTyped DEF DataInv
<1>2. DataOK([s EXCEPT !.reg.pc = Add16(@, 1)])
  BY <1>1, PcTyped
<1>3. Becomes([s EXCEPT !.reg.pc = Add16(@, 1)]) \/ Becomes(s)
  BY DEF FetchAndDecode
<1> QED
  BY <1>1, <1>2, <1>3, BecomesTyped

LEMMA ExecuteTyped ==
  ASSUME DataInv, TableInv, ExecuteInst
  PROVE  DataInv'
<1> DEFINE inst == opcode_list[current_inst]
           i == current_exec_index
<1>1. execute_func = "execute_inst"
  BY DEF ExecuteInst, Running
<1>2. current_inst \in DOMAIN opcode_list /\ i \in 0 .. 6
  BY <1>1 DEF TableInv, HandlersTyped, HandlerSteps, InstInv
<1>3. CASE FuncFails(i, inst)
  <2>1. /\ cpu_reg' = IF inst.op = "SED" THEN Implied("SED", cpu_reg) ELSE cpu_reg
        /\ mem' = mem /\ cpu_data_buffer' = cpu_data_buffer /\ cpu_addr_buffer' = cpu_addr_buffer
    BY <1>3 DEF ExecuteInst
  <2>2. "SED" \in OneStepOps \cup ModifyOps
    BY DEF OneStepOps
  <2>3. cpu_reg' \in Register
    BY <2>1, <2>2, ImpliedTyped, DataInvIs
  <2>4. [reg |-> cpu_reg', mem |-> mem', data |-> cpu_data_buffer', addr |-> cpu_addr_buffer'] = DataPath'
    BY DEF DataPath
  <2>5. IsMemory(mem') /\ cpu_data_buffer' \in Byte /\ cpu_addr_buffer' \in Address
    BY <2>1, DataInvIs
  <2> QED
    BY <2>3, <2>4, <2>5, DataMake DEF DataInv
<1>4. CASE ~FuncFails(i, inst)
  <2>1. Becomes(Func(i, inst, DataPath))
    BY <1>4 DEF ExecuteInst
  <2>2. DataOK(Func(i, inst, DataPath))
    BY <1>2, <1>4, FuncTyped DEF DataInv
  <2> QED
    BY <2>1, <2>2, BecomesTyped
<1> QED
  BY <1>3, <1>4

\* Every action of the CPU.
LEMMA DataStep == DataInv /\ TableInv /\ [Next]_vars => DataInv'
<1> SUFFICES ASSUME DataInv, TableInv, [Next]_vars PROVE DataInv'
  OBVIOUS
<1>0. Len(NmiSteps) = 6 /\ Len(ResetSteps) = 3
  BY SequenceLengths
<1>1. CASE ResetHandler1
  <2>1. Sequence(ResetSteps, "reset_handler2", 0) /\ 0 \in 0 .. 5 /\ 0 < Len(ResetSteps)
    BY <1>0, <1>1 DEF ResetHandler1
  <2> QED
    BY <2>1, SequenceTyped
<1>2. CASE ResetHandler2
  <2>1. current_exec_index \in 1 .. 2 /\ Sequence(ResetSteps, "reset_handler2", current_exec_index)
    BY <1>2 DEF ResetHandler2, Running, TableInv, HandlerSteps
  <2>2. current_exec_index \in 0 .. 5 /\ current_exec_index < Len(ResetSteps)
    BY <1>0, <2>1
  <2> QED
    BY <2>1, <2>2, SequenceTyped
<1>3. CASE NmiHandler
  <2>1. current_exec_index \in 0 .. 5 /\ Sequence(NmiSteps, "nmi_handler", current_exec_index)
    BY <1>3 DEF NmiHandler, NmiEntered, TableInv, HandlerSteps
  <2>2. current_exec_index < Len(NmiSteps)
    BY <1>0, <2>1
  <2> QED
    BY <2>1, <2>2, SequenceTyped
<1>4. CASE FetchAndDecode
  BY <1>4, FetchTyped
<1>5. CASE ExecuteInst
  BY <1>5, ExecuteTyped
<1>6. CASE DebuggerQuits \/ RaiseNmi \/ UNCHANGED vars
  BY <1>6 DEF DebuggerQuits, RaiseNmi, vars, dataVars, DataInv, DataPath
<1> QED
  BY <1>1, <1>2, <1>3, <1>4, <1>5, <1>6 DEF Next, ClockCpu

LEMMA InitData == Init => DataInv
<1> SUFFICES ASSUME Init PROVE DataInv
  OBVIOUS
<1>1. 0 \in Byte
  BY InByte
<1>2. 0 \in Address
  BY InAddress
<1>3. {"researved"} \in SUBSET Flag
  BY FlagNames
<1>4. cpu_reg \in Register
  BY <1>1, <1>2, <1>3 DEF Init, Register
<1> QED
  BY <1>1, <1>2, <1>4, DataInvIs, Cpu6502Assumption DEF Init

\* For every program and every memory the registers, the stack pointer, the pc and the
\* cells stay bytes and addresses, and no handler is called beyond its steps.
THEOREM CpuTyped == Spec => []TypeOK
<1>1. Init => TableInv /\ PinsInv /\ DataInv
  BY InitTable, InitPins, InitData
<1>2. TableInv /\ PinsInv /\ DataInv /\ [Next]_vars => TableInv' /\ PinsInv' /\ DataInv'
  BY TableStep, PinsStep, DataStep
<1>3. TableInv /\ PinsInv /\ DataInv => TypeOK
  <2> SUFFICES ASSUME TableInv, PinsInv, DataInv PROVE TypeOK
    OBVIOUS
  <2>1. /\ cpu_reg \in Register /\ IsMemory(mem)
        /\ cpu_data_buffer \in Byte /\ cpu_addr_buffer \in Address
    BY DataInvIs
  <2>2. /\ current_exec_index \in 0 .. 7
        /\ execute_func \in {"NULL", "reset_handler2", "nmi_handler",
                             "fetch_and_decode_inst", "execute_inst"}
        /\ fault \in {"none", "decode", "wild", "execute", "cycle_check", "quit"}
    BY DEF TableInv, HandlersTyped
  <2>3. current_inst \in DOMAIN opcode_list \cup {-1}
    BY DEF TableInv, InstInv
  <2>4. reset_pin \in BOOLEAN /\ nmi_pin \in BOOLEAN /\ nmi_cnt \in 0 .. MaxNmi
    BY DEF PinsInv
  <2> QED
    BY <2>1, <2>2, <2>3, <2>4, Zenon DEF TypeOK
<1> QED
  BY <1>1, <1>2, <1>3, PTL DEF Spec
=============================================================================
