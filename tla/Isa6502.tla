------------------------------ MODULE Isa6502 ------------------------------
(***************************************************************************)
(* What the 6502 promises a program: an instruction, an interrupt or a     *)
(* reset is one step that takes registers and memory from before it to     *)
(* after it, in a number of cycles.  There are no buffers, no cycles of an *)
(* instruction and no fetch; the comments over the func_XXX of             *)
(* emulator/6502core.c ("A + M + C -> A", "Flags: N, V, Z, C") say the     *)
(* same thing in words.                                                    *)
(*                                                                         *)
(* One flag is left open: the overflow of ADC, about which the core and    *)
(* its comment disagree (AdcSetsOverflow of Cpu6502Isa).                   *)
(***************************************************************************)
EXTENDS Machine6502, Opcode6502, Sequences

CONSTANT Memories

VARIABLES
    reg, mem,
    cycles      \* the cycles the last step took

isaVars == <<reg, mem, cycles>>

At(a)       == Read(mem, Add16(a, 0))
ZpWord(a)   == Word(At(Add8(a, 0)), At(Add8(a, 1)))
WordAt(a)   == Word(At(a), At(a + 1))
Op1         == At(reg.pc + 1)
Op2         == At(reg.pc + 2)
Flags(b)    == {f \in {"negative"} : b >= 128} \cup {f \in {"zero"} : b = 0}
NZ          == {"negative", "zero"}

\* The address of the operand before indexing, and with the index.
BaseAddress(mode) ==
    CASE mode \in {"ABS", "ABS_X", "ABS_Y", "IND"} -> Word(Op1, Op2)
      [] mode = "INDIR_INDEX"                      -> ZpWord(Op1)

EffectiveAddress(mode) ==
    CASE mode = "ZP"          -> Op1
      [] mode = "ZP_X"        -> Add8(Op1, reg.x)
      [] mode = "ZP_Y"        -> Add8(Op1, reg.y)
      [] mode = "ABS"         -> BaseAddress(mode)
      [] mode = "ABS_X"       -> Add16(BaseAddress(mode), reg.x)
      [] mode \in {"ABS_Y", "INDIR_INDEX"} -> Add16(BaseAddress(mode), reg.y)
      [] mode = "INDEX_INDIR" -> ZpWord(Op1 + reg.x)
      [] mode = "IND"         -> WordAt(BaseAddress(mode))

Operand(mode) == CASE mode = "IMM" -> Op1
                   [] mode = "ACC" -> reg.acc
                   [] OTHER        -> At(EffectiveAddress(mode))

\* The flags of st outside set are kept, those of set become new.
Flagged(set, new) == (reg.status \ set) \cup new

\* reg with an instruction of mode inst behind it.
Past(inst) == [reg EXCEPT !.pc = Add16(@, inst.inst_len)]

\* The registers each loading instruction may leave, given its operand.
LoadResults(op, m) ==
    LET carry  == Bit("carry" \in reg.status)
        sum    == reg.acc + m + carry
        diff   == reg.acc - m - (1 - carry)
        sdiff  == Signed(reg.acc) - Signed(m) - (1 - carry)
        cmp(b) == [status |-> Flagged(NZ \cup {"carry"},
                      Flags((b - m) % 256) \cup {f \in {"carry"} : b >= m})]
        acc(b) == [acc |-> b, status |-> Flagged(NZ, Flags(b))]
    IN  CASE op = "LDA" -> {acc(m)}
          [] op = "LDX" -> {[x |-> m, status |-> Flagged(NZ, Flags(m))]}
          [] op = "LDY" -> {[y |-> m, status |-> Flagged(NZ, Flags(m))]}
          [] op = "AND" -> {acc(And(reg.acc, m))}
          [] op = "ORA" -> {acc(reg.acc + m - And(reg.acc, m))}
          [] op = "EOR" -> {acc(reg.acc + m - 2 * And(reg.acc, m))}
          [] op = "CMP" -> {cmp(reg.acc)}
          [] op = "CPX" -> {cmp(reg.x)}
          [] op = "CPY" -> {cmp(reg.y)}
          [] op = "BIT" ->
                {[status |-> Flagged(NZ \cup {"overflow"},
                    {f \in {"negative", "overflow"} : BitOf[f] \in Bits(m)}
                    \cup {f \in {"zero"} : Bits(m) \cap Bits(reg.acc) = {}})]}
          [] op = "ADC" ->
                {[acc |-> sum % 256,
                  status |-> Flagged(NZ \cup {"carry", "overflow"},
                     Flags(sum % 256) \cup {f \in {"carry"} : sum > 255} \cup v)] :
                 v \in SUBSET {"overflow"}}
          [] op = "SBC" ->
                {[acc |-> diff % 256,
                  status |-> Flagged(NZ \cup {"carry", "overflow"},
                     Flags(diff % 256) \cup {f \in {"carry"} : diff >= 0}
                     \cup {f \in {"overflow"} : sdiff \notin -128 .. 127})]}

\* The byte and the carry a modifying instruction makes of byte b: the shifts
\* move the nine bits of carry and byte by one.
ModifyResult(op, b) ==
    LET c == Bit("carry" \in reg.status)
    IN  CASE op = "INC" -> [byte |-> (b + 1) % 256, carry |-> c]
          [] op = "DEC" -> [byte |-> (b + 255) % 256, carry |-> c]
          [] op = "ASL" -> [byte |-> Lo(2 * b), carry |-> Hi(2 * b)]
          [] op = "ROL" -> [byte |-> Lo(2 * b + c), carry |-> Hi(2 * b + c)]
          [] op = "LSR" -> [byte |-> b \div 2, carry |-> b % 2]
          [] op = "ROR" -> [byte |-> (b + 256 * c) \div 2, carry |-> b % 2]

ModifyFlags(r) ==
    Flagged(NZ \cup {"carry"}, Flags(r.byte) \cup {f \in {"carry"} : r.carry = 1})

-----------------------------------------------------------------------------
(* Instructions, by what they do to registers and memory. *)

\* changes @@ r: the registers r with some of them changed.
Set(changes, r) == [f \in DOMAIN r |-> IF f \in DOMAIN changes THEN changes[f] ELSE r[f]]

Crosses(inst) ==
    /\ inst.cycle_aux
    /\ ~SamePage(BaseAddress(inst.addr_mode), EffectiveAddress(inst.addr_mode))

Load(inst) ==
    /\ inst.op \in {"ADC", "AND", "BIT", "CMP", "CPX", "CPY", "EOR", "LDA", "LDX", "LDY", "ORA", "SBC"}
    /\ \E changes \in LoadResults(inst.op, Operand(inst.addr_mode)) :
            reg' = Set(changes, Past(inst))
    /\ cycles' = inst.cycle + Bit(Crosses(inst))
    /\ UNCHANGED mem

Store(inst) ==
    /\ inst.op \in {"STA", "STX", "STY"}
    /\ reg' = Past(inst)
    /\ mem' = Write(mem, EffectiveAddress(inst.addr_mode),
                    reg[CASE inst.op = "STA" -> "acc" [] inst.op = "STX" -> "x" [] inst.op = "STY" -> "y"])
    /\ cycles' = inst.cycle

Modify(inst) ==
    LET r == ModifyResult(inst.op, Operand(inst.addr_mode))
    IN  /\ inst.op \in {"ASL", "DEC", "INC", "LSR", "ROL", "ROR"}
        /\ IF inst.addr_mode = "ACC"
             THEN /\ reg' = Set([acc |-> r.byte, status |-> ModifyFlags(r)], Past(inst))
                  /\ UNCHANGED mem
             ELSE /\ reg' = Set([status |-> ModifyFlags(r)], Past(inst))
                  /\ mem' = Write(mem, EffectiveAddress(inst.addr_mode), r.byte)
        /\ cycles' = inst.cycle

\* The flag a branch looks at, and whether it must be set.
BranchOn ==
    [BCC |-> <<"carry", FALSE>>, BCS |-> <<"carry", TRUE>>,
     BNE |-> <<"zero", FALSE>>, BEQ |-> <<"zero", TRUE>>,
     BPL |-> <<"negative", FALSE>>, BMI |-> <<"negative", TRUE>>,
     BVC |-> <<"overflow", FALSE>>, BVS |-> <<"overflow", TRUE>>]

Branch(inst) ==
    LET next == Add16(reg.pc, 2)
        to   == Add16(next, Signed(Op1))
    IN  /\ inst.op \in DOMAIN BranchOn
        /\ IF (BranchOn[inst.op][1] \in reg.status) = BranchOn[inst.op][2]
             THEN /\ reg' = [reg EXCEPT !.pc = to]
                  /\ cycles' = 3 + Bit(~SamePage(next, to))
             ELSE /\ reg' = [reg EXCEPT !.pc = next]
                  /\ cycles' = 2
        /\ UNCHANGED mem

\* A flag becomes a constant.
FlagOps ==
    [CLC |-> <<"carry", FALSE>>, SEC |-> <<"carry", TRUE>>,
     CLI |-> <<"irq_disable", FALSE>>, SEI |-> <<"irq_disable", TRUE>>,
     CLD |-> <<"decimal", FALSE>>, CLV |-> <<"overflow", FALSE>>]

\* A register is given a byte.
MoveOps ==
    [TAX |-> <<"acc", "x", 0>>, TAY |-> <<"acc", "y", 0>>, TXA |-> <<"x", "acc", 0>>,
     TYA |-> <<"y", "acc", 0>>, TSX |-> <<"sp", "x", 0>>, TXS |-> <<"x", "sp", 0>>,
     INX |-> <<"x", "x", 1>>, INY |-> <<"y", "y", 1>>, DEX |-> <<"x", "x", 255>>,
     DEY |-> <<"y", "y", 255>>]

Implied(inst) ==
    /\ \/ /\ inst.op \in DOMAIN FlagOps
          /\ reg' = Set([status |-> With(reg.status, FlagOps[inst.op][1], FlagOps[inst.op][2])],
                        Past(inst))
       \/ /\ inst.op \in DOMAIN MoveOps
          /\ LET move == MoveOps[inst.op]
                 byte == Lo(reg[move[1]] + move[3])
             IN  reg' = Set([f \in {move[2], "status"} |->
                                IF f = "status" THEN Flagged(NZ, Flags(byte)) ELSE byte],
                            Past(inst))
       \/ inst.op = "NOP" /\ reg' = Past(inst)
    /\ cycles' = inst.cycle
    /\ UNCHANGED mem

\* The stack grows down in page 1, and wraps in it.
Slot(sp) == STACK_BASE + Lo(sp)
Pushed(m, i, byte) == Write(m, Slot(reg.sp - i), byte)
PushedPc(m, pc)    == Pushed(Pushed(m, 0, Hi(pc)), 1, Lo(pc))

Stack(inst) ==
    LET below == Read(mem, Slot(reg.sp + 1))
        two   == Word(below, Read(mem, Slot(reg.sp + 2)))
        back  == Add16(reg.pc, 2)       \* the last byte of a JSR
    IN  /\ \/ /\ inst.op \in {"PHA", "PHP"}
              /\ mem' = Pushed(mem, 0, IF inst.op = "PHA" THEN reg.acc ELSE PackStatus(reg.status))
              /\ reg' = Set([sp |-> Lo(reg.sp - 1)], Past(inst))
           \/ /\ inst.op = "PLA"
              /\ reg' = Set([sp |-> Lo(reg.sp + 1), acc |-> below,
                             status |-> Flagged(NZ, Flags(below))], Past(inst))
              /\ UNCHANGED mem
           \/ /\ inst.op = "PLP"
              /\ reg' = Set([sp |-> Lo(reg.sp + 1),
                             status |-> (UnpackStatus(below) \ {"decimal"}) \cup {"researved"}],
                            Past(inst))
              /\ UNCHANGED mem
           \/ /\ inst.op = "JSR"
              /\ LET after == PushedPc(mem, back)
                 IN  /\ mem' = after
                     /\ reg' = [reg EXCEPT !.sp = Lo(@ - 2),
                                   !.pc = Word(Read(after, Add16(reg.pc, 1)),
                                               Read(after, Add16(reg.pc, 2)))]
           \/ /\ inst.op = "RTS"
              /\ reg' = [reg EXCEPT !.sp = Lo(@ + 2), !.pc = Add16(two, 1)]
              /\ UNCHANGED mem
           \/ /\ inst.op = "RTI"
              /\ reg' = [reg EXCEPT !.sp = Lo(@ + 3), !.status = UnpackStatus(below),
                                    !.pc = Word(Read(mem, Slot(reg.sp + 2)),
                                                Read(mem, Slot(reg.sp + 3)))]
              /\ UNCHANGED mem
        /\ cycles' = inst.cycle

Jump(inst) ==
    /\ inst.op = "JMP"
    /\ reg' = [reg EXCEPT !.pc = EffectiveAddress(inst.addr_mode)]
    /\ cycles' = inst.cycle
    /\ UNCHANGED mem

Instruction ==
    LET code == Read(mem, reg.pc)
        inst == opcode_list[code]
    IN  /\ code \in DOMAIN opcode_list
        /\ \/ Load(inst) \/ Store(inst) \/ Modify(inst) \/ Branch(inst)
           \/ Implied(inst) \/ Stack(inst) \/ Jump(inst)

-----------------------------------------------------------------------------

Nmi ==
    LET after == Pushed(PushedPc(mem, reg.pc), 2, PackStatus(reg.status))
    IN  /\ mem' = after
        /\ reg' = [reg EXCEPT !.sp = Lo(@ - 3),
                              !.status = (@ \ {"decimal"}) \cup {"irq_disable"},
                              !.pc = Word(Read(after, NMI_VECTOR), Read(after, NMI_VECTOR + 1))]
        /\ cycles' = 6

Reset ==
    /\ reg' = [reg EXCEPT !.status = (@ \ {"decimal"}) \cup {"irq_disable"},
                          !.pc = Word(Read(mem, RESET_VECTOR), Read(mem, RESET_VECTOR + 1))]
    /\ UNCHANGED mem
    /\ cycles' = 3

Init ==
    /\ reg = [acc |-> 0, x |-> 0, y |-> 0, sp |-> 0, status |-> {"researved"}, pc |-> 0]
    /\ mem \in Memories
    /\ cycles = 0

Next == Instruction \/ Nmi \/ Reset

Spec == Init /\ [][Next]_isaVars
=============================================================================
