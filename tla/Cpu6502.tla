------------------------------ MODULE Cpu6502 ------------------------------
(***************************************************************************)
(* The CPU cycle by cycle: clock_cpu and the handlers it dispatches to     *)
(* (emulator/cpu.c) and the 6502 core under them (emulator/6502core.c).    *)
(*                                                                         *)
(* Every call of clock_cpu runs the handler execute_func points at, and    *)
(* every handler does one cycle's worth of work, selected by               *)
(* current_exec_index.  The core's functions are switches on that index;   *)
(* here the cases of a switch are a sequence of named steps, and Step says *)
(* what one of them does to the data path.                                 *)
(*                                                                         *)
(* exec_done and intr_done are set and tested within one call of clock_cpu *)
(* and are no variables here.  The bus is always ready for the CPU, which  *)
(* BusIsReady of EmuClockProofs shows, so that the tests of bus_ready are  *)
(* no guards here.                                                         *)
(***************************************************************************)
EXTENDS Machine6502, Opcode6502, Sequences

CONSTANTS
    Memories,   \* what memory can hold when the machine is switched on
    Debugging,  \* the debugger may stop the CPU at a fetch
    MaxNmi      \* bound: interrupts the PPU raises

ASSUME Cpu6502Assumption ==
    /\ \A m \in Memories : IsMemory(m)
    /\ Debugging \in BOOLEAN
    /\ MaxNmi \in Nat

VARIABLES
    cpu_reg, mem,
    cpu_data_buffer, cpu_addr_buffer,
    current_inst,           \* the code of the instruction decoded last
    current_exec_index,
    execute_func,
    reset_pin, nmi_pin, nmi_cnt,
    fault                   \* why clock_cpu returned FALSE, "none" if it never did

dataVars == <<cpu_reg, mem, cpu_data_buffer, cpu_addr_buffer>>
pinVars  == <<reset_pin, nmi_pin, nmi_cnt>>
vars == <<dataVars, current_inst, current_exec_index, execute_func, pinVars, fault>>

-----------------------------------------------------------------------------
(* The data path, as one value s that a step takes to the next one. *)

DataPath == [reg |-> cpu_reg, mem |-> mem,
             data |-> cpu_data_buffer, addr |-> cpu_addr_buffer]

Becomes(s) ==
    /\ cpu_reg' = s.reg
    /\ mem' = s.mem
    /\ cpu_data_buffer' = s.data
    /\ cpu_addr_buffer' = s.addr

load_memory(s, a) == [s EXCEPT !.data = Read(s.mem, a)]

store_memory(s, a, b) == [s EXCEPT !.mem = Write(@, a, b), !.data = b]

\* The two halves of an address, one per cycle.
load_addr(s, a, half) ==
    LET b == Read(s.mem, a)
    IN  [s EXCEPT !.data = b,
                  !.addr = IF half = "lo" THEN Word(b, Hi(@)) ELSE Word(Lo(@), b)]

\* load_memory(pc) or load_addr(pc, half), then pc++
load_imm(s)        == [load_memory(s, s.reg.pc) EXCEPT !.reg.pc = Add16(@, 1)]
load_pc(s, half)   == [load_addr(s, s.reg.pc, half) EXCEPT !.reg.pc = Add16(@, 1)]

\* Mutant of push: the stack pointer does not wrap.
MutPush(s, b) == [store_memory(s, STACK_BASE + s.reg.sp, b) EXCEPT !.reg.sp = @ - 1]

push(s, b) == [store_memory(s, STACK_BASE + s.reg.sp, b) EXCEPT !.reg.sp = Add8(@, -1)]

\* Mutant of pop: the byte is taken before the pointer moves.
MutPop(s) == [load_memory(s, STACK_BASE + s.reg.sp) EXCEPT !.reg.sp = Add8(@, 1)]

pop(s) ==
    LET sp == Add8(s.reg.sp, 1)
    IN  [load_memory(s, STACK_BASE + sp) EXCEPT !.reg.sp = sp]

-----------------------------------------------------------------------------
(* The steps of an instruction. *)

LoadOps   == {"ADC", "AND", "BIT", "CMP", "CPX", "CPY", "EOR", "LDA", "LDX", "LDY", "ORA", "SBC"}
StoreOps  == {"STA", "STX", "STY"}
ModifyOps == {"ASL", "DEC", "INC", "LSR", "ROL", "ROR"}
BranchOps == {"BCC", "BCS", "BEQ", "BMI", "BNE", "BPL", "BVC", "BVS"}
ZeroPage  == {"ZP", "ZP_X", "ZP_Y"}

\* The steps that work out the address of the operand.
AddressSteps ==
    [ZP |-> <<"imm">>,
     ZP_X |-> <<"imm", "imm+x">>,
     ZP_Y |-> <<"imm", "imm+y">>,
     ABS |-> <<"pc_lo", "pc_hi">>,
     ABS_X |-> <<"pc_lo", "pc_hi", "addr+x">>,
     ABS_Y |-> <<"pc_lo", "pc_hi", "addr+y">>,
     INDEX_INDIR |-> <<"imm", "imm+x", "zp_lo", "zp_hi">>,
     INDIR_INDEX |-> <<"imm", "zp_lo", "zp_hi", "addr+y">>]

\* load_addr_mode, store_addr_mode and memory_to_memory; a mode they do not
\* support has no steps.
LoadSteps(mode) ==
    IF mode \in {"IMM", "REL"} THEN <<"imm">>
    ELSE IF mode \in DOMAIN AddressSteps THEN AddressSteps[mode] \o <<"load">>
    ELSE <<>>

\* Mutant of StoreSteps: STX cannot be indexed by Y.
MutStoreSteps(mode) ==
    IF mode \in DOMAIN AddressSteps \ {"ZP_Y"} THEN AddressSteps[mode] \o <<"store">> ELSE <<>>

StoreSteps(mode) ==
    IF mode \in DOMAIN AddressSteps THEN AddressSteps[mode] \o <<"store">> ELSE <<>>

ModifySteps(mode) ==
    IF mode \in {"ZP", "ZP_X", "ABS", "ABS_X"}
      THEN AddressSteps[mode] \o <<"fetch", "modify", "write_back">>
      ELSE <<>>

\* jmp
JumpSteps(mode) ==
    CASE mode = "ABS" -> <<"pc_lo", "pc_hi">>
      [] mode = "IND" -> <<"pc_lo", "pc_hi", "load", "load_hi">>
      [] OTHER        -> <<>>

\* func_XXX
Steps(inst) ==
    LET op == inst.op  mode == inst.addr_mode
    IN  CASE op \in LoadOps      -> LoadSteps(mode)
          [] op \in StoreOps     -> StoreSteps(mode)
          [] op \in ModifyOps /\ mode # "ACC" -> ModifySteps(mode)
          [] op \in BranchOps    -> LoadSteps(mode) \o <<"branch", "cross">>
          [] op = "JMP"          -> JumpSteps(mode)
          [] op = "JSR"          -> <<"push_hi", "push_lo">> \o JumpSteps(mode) \o <<"jump">>
          [] op \in {"PHA", "PHP"} -> <<"push", "idle">>
          [] op \in {"PLA", "PLP"} -> <<"pop", "idle", "idle">>
          [] op = "RTI" -> <<"pop", "pop_status", "pop_addr", "join", "jump">>
          [] op = "RTS" -> <<"pop", "addr", "pop", "join", "jump+1">>
          [] op = "BRK" -> <<>>
          [] OTHER      -> <<"idle">>

\* Mutant of NmiSteps: the pc is pushed low byte first.
MutNmiSteps == <<"push_pc_lo", "push_pc_hi", "push_status", "nmi_lo", "nmi_hi", "enter">>

\* nmi6502, reset_exec6502
NmiSteps   == <<"push_pc_hi", "push_pc_lo", "push_status", "nmi_lo", "nmi_hi", "enter">>
ResetSteps == <<"reset_lo", "reset_hi", "enter">>

Condition(op, status) ==
    CASE op = "BCC" -> "carry" \notin status
      [] op = "BCS" -> "carry" \in status
      [] op = "BNE" -> "zero" \notin status
      [] op = "BEQ" -> "zero" \in status
      [] op = "BPL" -> "negative" \notin status
      [] op = "BMI" -> "negative" \in status
      [] op = "BVC" -> "overflow" \notin status
      [] op = "BVS" -> "overflow" \in status

-----------------------------------------------------------------------------
(* What the instructions compute. *)

\* set_ADD_overflow, set_SUB_overflow: whether a sum of chars leaves a char.
SignedOverflow(n) == n > 127 \/ n < -128

\* The carry func_ADC hands to set_ADD_overflow is the one that set_ADD_carry
\* has just set.
Adc(r, m) ==
    LET sum   == r.acc + m + Bit("carry" \in r.status)
        carry == sum > 255
        acc   == sum % 256
    IN  [r EXCEPT !.acc = acc,
                  !.status = SetNZ(With(With(@, "carry", carry), "overflow",
                        SignedOverflow(Signed(r.acc) + Bit(carry) + Signed(m))), acc)]

Sbc(r, m) ==
    LET borrow == Bit("carry" \notin r.status)
        acc    == (r.acc - m - borrow) % 256
    IN  [r EXCEPT !.acc = acc,
                  !.status = SetNZ(With(With(@, "carry", r.acc >= m + borrow), "overflow",
                        SignedOverflow(Signed(r.acc) - Signed(m) - borrow)), acc)]

Compare(r, b, m) ==
    [r EXCEPT !.status = SetNZ(With(@, "carry", b >= m), (b - m) % 256)]

TestBits(r, m) ==
    [r EXCEPT !.status = With(With(With(@, "negative", m >= 128),
                                   "overflow", 6 \in Bits(m)),
                              "zero", And(r.acc, m) = 0)]

\* A register is given a byte that sets the N and Z flags.
SetAcc(r, b) == [r EXCEPT !.acc = b, !.status = SetNZ(@, b)]
SetX(r, b)   == [r EXCEPT !.x = b, !.status = SetNZ(@, b)]
SetY(r, b)   == [r EXCEPT !.y = b, !.status = SetNZ(@, b)]

\* The last cycle of an instruction that loads m.
Loaded(op, r, m) ==
    CASE op = "LDA" -> SetAcc(r, m)
      [] op = "LDX" -> SetX(r, m)
      [] op = "LDY" -> SetY(r, m)
      [] op = "AND" -> SetAcc(r, And(r.acc, m))
      [] op = "ORA" -> SetAcc(r, Or(r.acc, m))
      [] op = "EOR" -> SetAcc(r, Xor(r.acc, m))
      [] op = "ADC" -> Adc(r, m)
      [] op = "SBC" -> Sbc(r, m)
      [] op = "CMP" -> Compare(r, r.acc, m)
      [] op = "CPX" -> Compare(r, r.x, m)
      [] op = "CPY" -> Compare(r, r.y, m)
      [] op = "BIT" -> TestBits(r, m)

\* What the shifts, INC and DEC make of a byte, and of the carry.
Modified(op, b, carry) ==
    CASE op = "ASL" -> (b * 2) % 256
      [] op = "LSR" -> b \div 2
      [] op = "ROL" -> ((b * 2) % 256) + Bit(carry)
      [] op = "ROR" -> (b \div 2) + 128 * Bit(carry)
      [] op = "INC" -> Add8(b, 1)
      [] op = "DEC" -> Add8(b, -1)

CarryOut(op, b, status) ==
    CASE op \in {"ASL", "ROL"} -> With(status, "carry", b >= 128)
      [] op \in {"LSR", "ROR"} -> With(status, "carry", b % 2 = 1)
      [] OTHER                 -> status

\* The instructions of one step, on registers and flags only.
Implied(op, r) ==
    CASE op = "CLC" -> [r EXCEPT !.status = @ \ {"carry"}]
      [] op = "SEC" -> [r EXCEPT !.status = @ \cup {"carry"}]
      [] op = "CLI" -> [r EXCEPT !.status = @ \ {"irq_disable"}]
      [] op = "SEI" -> [r EXCEPT !.status = @ \cup {"irq_disable"}]
      [] op = "CLD" -> [r EXCEPT !.status = @ \ {"decimal"}]
      [] op = "SED" -> [r EXCEPT !.status = @ \cup {"decimal"}]
      [] op = "CLV" -> [r EXCEPT !.status = @ \ {"overflow"}]
      [] op = "TAX" -> SetX(r, r.acc)
      [] op = "TAY" -> SetY(r, r.acc)
      [] op = "TXA" -> SetAcc(r, r.x)
      [] op = "TYA" -> SetAcc(r, r.y)
      [] op = "TSX" -> SetX(r, r.sp)
      [] op = "TXS" -> [r EXCEPT !.sp = r.x, !.status = SetNZ(@, r.x)]
      [] op = "INX" -> SetX(r, Add8(r.x, 1))
      [] op = "INY" -> SetY(r, Add8(r.y, 1))
      [] op = "DEX" -> SetX(r, Add8(r.x, -1))
      [] op = "DEY" -> SetY(r, Add8(r.y, -1))
      [] op = "NOP" -> r
      [] op \in ModifyOps ->
            SetAcc([r EXCEPT !.status = CarryOut(op, r.acc, @)],
                   Modified(op, r.acc, "carry" \in r.status))

Stored(op, r) == CASE op \in {"STA", "PHA"} -> r.acc
                   [] op = "STX" -> r.x
                   [] op = "STY" -> r.y
                   [] op = "PHP" -> PackStatus(r.status)

\* PLP forces two bits of the status, in each of its cycles.
FixStatus(status) == (status \cup {"researved"}) \ {"decimal"}

\* The last cycle of PLA and PLP.
Pulled(op, r, b) ==
    IF op = "PLA" THEN SetAcc(r, b) ELSE [r EXCEPT !.status = UnpackStatus(b)]

-----------------------------------------------------------------------------
(* One step. *)

\* Mutant of ZpNext: the pointer runs out of the zero page.
MutZpNext(a) == a + 1

\* (unsigned char)(addr + 1)
ZpNext(a) == Add8(a, 1)

Indexed(step, s) == Add16(s.addr, IF step = "addr+x" THEN s.reg.x ELSE s.reg.y)

\* A load whose index stays in the page (or whose instruction does not count
\* crossings) has its byte a cycle early.
Hits(step, inst, s) ==
    /\ inst.op \in LoadOps
    /\ inst.cycle_aux => SamePage(s.addr, Indexed(step, s))

\* The address a load, store or fetch step uses.
Target(inst, s) == IF inst.addr_mode \in ZeroPage THEN s.data ELSE s.addr

BranchTarget(s) == Add16(s.reg.pc, Signed(s.data))

Step(step, inst, s) ==
    CASE step = "imm"   -> load_imm(s)
      [] step = "pc_lo" -> load_pc(s, "lo")
      [] step = "pc_hi" -> load_pc(s, "hi")
      [] step = "imm+x" -> [s EXCEPT !.data = Add8(@, s.reg.x)]
      [] step = "imm+y" -> [s EXCEPT !.data = Add8(@, s.reg.y)]
      [] step = "zp_lo" -> [load_addr(s, s.data, "lo") EXCEPT !.data = s.data]
      [] step = "zp_hi" -> load_addr(s, ZpNext(s.data), "hi")
      [] step \in {"addr+x", "addr+y"} ->
            IF Hits(step, inst, s) THEN load_memory(s, Indexed(step, s))
                                   ELSE [s EXCEPT !.addr = Indexed(step, s)]
      [] step = "load"  -> load_memory(s, Target(inst, s))
      [] step = "store" -> store_memory(s, Target(inst, s), Stored(inst.op, s.reg))
      [] step = "fetch" -> [load_memory(s, Target(inst, s)) EXCEPT !.addr = Target(inst, s)]
      [] step = "modify" ->
            [s EXCEPT !.data = Modified(inst.op, @, "carry" \in s.reg.status),
                      !.reg.status = CarryOut(inst.op, s.data, @)]
      [] step = "write_back" -> store_memory(s, s.addr, s.data)
      [] step = "branch" ->
            IF SamePage(s.reg.pc, BranchTarget(s)) THEN [s EXCEPT !.reg.pc = BranchTarget(s)]
                                                  ELSE [s EXCEPT !.addr = BranchTarget(s)]
      [] step \in {"cross", "jump"} -> [s EXCEPT !.reg.pc = s.addr]
      [] step = "jump+1"  -> [s EXCEPT !.reg.pc = Add16(s.addr, 1)]
      [] step = "load_hi" ->
            LET t == load_memory(s, Add16(s.addr, 1))
            IN  [t EXCEPT !.addr = Word(s.data, t.data)]
      [] step = "push_hi" -> push(s, Hi(Add16(s.reg.pc, 1)))
      [] step = "push_lo" -> push(s, Lo(Add16(s.reg.pc, 1)))
      [] step = "push"    -> push(s, Stored(inst.op, s.reg))
      [] step = "pop"     -> pop(s)
      [] step = "pop_status" -> pop([s EXCEPT !.reg.status = UnpackStatus(s.data)])
      [] step = "pop_addr"   -> pop([s EXCEPT !.addr = s.data])
      [] step = "addr"  -> [s EXCEPT !.addr = s.data]
      [] step = "join"  -> [s EXCEPT !.addr = Word(Lo(@), s.data)]
      [] step = "idle"  -> s

\* The steps of the interrupt sequences.
IntrStep(step, s) ==
    CASE step = "push_pc_hi"  -> push(s, Hi(s.reg.pc))
      [] step = "push_pc_lo"  -> push(s, Lo(s.reg.pc))
      [] step = "push_status" -> push(s, PackStatus(s.reg.status))
      [] step = "nmi_lo"   -> load_addr(s, NMI_VECTOR, "lo")
      [] step = "nmi_hi"   -> load_addr(s, NMI_VECTOR + 1, "hi")
      [] step = "reset_lo" -> load_addr(s, RESET_VECTOR, "lo")
      [] step = "reset_hi" -> load_addr(s, RESET_VECTOR + 1, "hi")
      [] step = "enter"    ->
            [s EXCEPT !.reg.pc = s.addr,
                      !.reg.status = (@ \ {"decimal"}) \cup {"irq_disable"}]

\* Whether the step with index i sets exec_done.
ExecDone(i, inst, s) ==
    LET steps == Steps(inst)
    IN  \/ i + 1 = Len(steps)
        \/ steps[i + 1] \in {"addr+x", "addr+y"} /\ Hits(steps[i + 1], inst, s)
        \/ inst.op \in BranchOps /\ i = 0 /\ ~Condition(inst.op, s.reg.status)
        \/ steps[i + 1] = "branch" /\ SamePage(s.reg.pc, BranchTarget(s))

\* What an instruction does after its last step.
Retire(inst, s) ==
    CASE inst.op \in LoadOps -> [s EXCEPT !.reg = Loaded(inst.op, @, s.data)]
      [] inst.op \in ModifyOps /\ inst.addr_mode # "ACC" ->
            [s EXCEPT !.reg.status = SetNZ(@, s.data)]
      [] inst.op = "JMP" -> [s EXCEPT !.reg.pc = s.addr]
      [] inst.op \in {"PLA", "PLP"} -> [s EXCEPT !.reg = Pulled(inst.op, @, s.data)]
      [] inst.addr_mode \in {"IMP", "ACC"} /\ Steps(inst) = <<"idle">> ->
            [s EXCEPT !.reg = Implied(inst.op, @)]
      [] OTHER -> s

\* current_inst->func()
Func(i, inst, s) ==
    LET t == Step(Steps(inst)[i + 1], inst, s)
        u == IF ExecDone(i, inst, s) THEN Retire(inst, t) ELSE t
    IN  IF inst.op = "PLP" THEN [u EXCEPT !.reg.status = FixStatus(@)] ELSE u

\* The functions that return FALSE: no such step, BRK, and SED.
FuncFails(i, inst) == i >= Len(Steps(inst)) \/ inst.op = "SED"

\* execute6502's own check of the table's cycles, used is the new index.
CycleCheck(inst, used) ==
    \/ used = inst.cycle - 1
    \/ /\ inst.cycle_aux
       /\ inst.addr_mode \in {"ABS_X", "ABS_Y", "INDIR_INDEX"}
       /\ used = inst.cycle
    \/ inst.addr_mode = "REL" /\ used \in {inst.cycle, inst.cycle + 1}

-----------------------------------------------------------------------------
(* Power on: init_6502core, init_cpu, and reset_cpu before start_clock. *)

Init ==
    /\ cpu_reg = [acc |-> 0, x |-> 0, y |-> 0, sp |-> 0,
                  status |-> {"researved"}, pc |-> 0]
    /\ mem \in Memories
    /\ cpu_data_buffer = 0
    /\ cpu_addr_buffer = 0
    /\ current_inst = -1
    /\ current_exec_index = 0
    /\ execute_func = "NULL"
    /\ reset_pin = TRUE
    /\ nmi_pin = FALSE
    /\ nmi_cnt = 0
    /\ fault = "none"

Clocked == fault = "none"

Running(handler) == Clocked /\ ~reset_pin /\ execute_func = handler

Fails(why) == fault' = why

-----------------------------------------------------------------------------
(* The handlers. *)

\* Mutant of Sequence: test_and_set_intr leaves the index.
MutSequence(steps, handler, i) ==
    /\ Becomes(IntrStep(steps[i + 1], DataPath))
    /\ current_exec_index' = i + 1
    /\ execute_func' = IF i + 1 = Len(steps) THEN "fetch_and_decode_inst" ELSE handler
    /\ UNCHANGED <<current_inst, fault>>

\* One step of an interrupt sequence; after the last the CPU fetches.
Sequence(steps, handler, i) ==
    /\ Becomes(IntrStep(steps[i + 1], DataPath))
    /\ IF i + 1 = Len(steps)
         THEN current_exec_index' = 0 /\ execute_func' = "fetch_and_decode_inst"
         ELSE current_exec_index' = i + 1 /\ execute_func' = handler
    /\ UNCHANGED <<current_inst, fault>>

\* clock_cpu finds the reset pin: reset_handler1.
ResetHandler1 ==
    /\ Clocked /\ reset_pin
    /\ reset_pin' = FALSE
    /\ nmi_cnt' = 0
    /\ Sequence(ResetSteps, "reset_handler2", 0)
    /\ UNCHANGED nmi_pin

ResetHandler2 ==
    /\ Running("reset_handler2")
    /\ Sequence(ResetSteps, "reset_handler2", current_exec_index)
    /\ UNCHANGED pinVars

\* Mutant of NmiPinAfter: it does not.
MutNmiPinAfter(i) == UNCHANGED nmi_pin

\* The last cycle of the sequence takes the pin back.
NmiPinAfter(i) == nmi_pin' = (nmi_pin /\ i + 1 < Len(NmiSteps))

\* Mutant of NmiEntered: a fetch that finds the pin only waits.
MutNmiEntered == execute_func = "nmi_handler"

NmiEntered ==
    \/ execute_func = "nmi_handler"
    \/ execute_func = "fetch_and_decode_inst" /\ nmi_pin

NmiHandler ==
    /\ Clocked /\ ~reset_pin
    /\ NmiEntered
    /\ Sequence(NmiSteps, "nmi_handler", current_exec_index)
    /\ NmiPinAfter(current_exec_index)
    /\ nmi_cnt' = nmi_cnt + Bit(current_exec_index + 1 = Len(NmiSteps))
    /\ UNCHANGED reset_pin

\* emu_debug() at a fetch: its command r sets the reset pin, and the fetch goes
\* on; q ends the emulation.
DebuggerResets == reset_pin' \in (IF Debugging THEN BOOLEAN ELSE {FALSE})

DebuggerQuits ==
    /\ Debugging
    /\ Running("fetch_and_decode_inst")
    /\ ~nmi_pin
    /\ Fails("quit")
    /\ UNCHANGED <<dataVars, current_inst, current_exec_index, execute_func, pinVars>>

\* opcode_list has 255 entries: what decoding the code 255 finds behind it is
\* undefined; "wild" stands for a handler that nobody wrote.
FetchAndDecode ==
    /\ Running("fetch_and_decode_inst")
    /\ ~nmi_pin
    /\ DebuggerResets
    /\ LET s == load_memory(DataPath, cpu_reg.pc)
       IN  \/ /\ s.data \in DOMAIN opcode_list
              /\ Becomes([s EXCEPT !.reg.pc = Add16(@, 1)])
              /\ current_inst' = s.data
              /\ execute_func' = "execute_inst"
              /\ UNCHANGED fault
           \/ /\ s.data \notin DOMAIN opcode_list
              /\ Becomes(s)
              /\ Fails("decode") \/ (s.data = 255 /\ Fails("wild"))
              /\ UNCHANGED <<current_inst, execute_func>>
    /\ UNCHANGED <<current_exec_index, nmi_pin, nmi_cnt>>

ExecuteInst ==
    LET inst == opcode_list[current_inst]
        i    == current_exec_index
    IN  /\ Running("execute_inst")
        /\ \/ /\ FuncFails(i, inst)
              /\ Fails("execute")
              /\ cpu_reg' = IF inst.op = "SED" THEN Implied("SED", cpu_reg) ELSE cpu_reg
              /\ current_exec_index' = i + 1
              /\ UNCHANGED <<mem, cpu_data_buffer, cpu_addr_buffer, execute_func>>
           \/ /\ ~FuncFails(i, inst)
              /\ Becomes(Func(i, inst, DataPath))
              /\ LET done == ExecDone(i, inst, DataPath)
                     ok   == done => CycleCheck(inst, i + 1)
                 IN  /\ fault' = IF ok THEN fault ELSE "cycle_check"
                     /\ current_exec_index' = IF done /\ ok THEN 0 ELSE i + 1
                     /\ execute_func' = IF done /\ ok THEN "fetch_and_decode_inst" ELSE execute_func
        /\ UNCHANGED <<current_inst, pinVars>>

ClockCpu ==
    \/ ResetHandler1 \/ ResetHandler2 \/ NmiHandler
    \/ FetchAndDecode \/ DebuggerQuits \/ ExecuteInst

\* The PPU enters the vertical blank.
RaiseNmi ==
    /\ nmi_cnt < MaxNmi
    /\ ~nmi_pin
    /\ execute_func # "NULL"
    /\ nmi_pin' = TRUE
    /\ UNCHANGED <<dataVars, current_inst, current_exec_index, execute_func,
                   reset_pin, nmi_cnt, fault>>

Next == ClockCpu \/ RaiseNmi

\* The clock thread calls the CPU for ever (EmuClock: DmaTerminates).
Spec == Init /\ [][Next]_vars /\ WF_vars(ClockCpu)

-----------------------------------------------------------------------------
(* Properties. *)

TypeOK ==
    /\ cpu_reg \in Register
    /\ IsMemory(mem)
    /\ cpu_data_buffer \in Byte
    /\ cpu_addr_buffer \in Address
    /\ current_inst \in DOMAIN opcode_list \cup {-1}
    /\ current_exec_index \in 0 .. 7
    /\ execute_func \in {"NULL", "reset_handler2", "nmi_handler",
                         "fetch_and_decode_inst", "execute_inst"}
    /\ reset_pin \in BOOLEAN
    /\ nmi_pin \in BOOLEAN
    /\ nmi_cnt \in 0 .. MaxNmi
    /\ fault \in {"none", "decode", "wild", "execute", "cycle_check", "quit"}

\* The core agrees with the opcode table: every instruction of the table that
\* is meant to work has a handler that knows its addressing mode and takes the
\* cycles the table gives, so that execute6502's own "instruction cycle check
\* error" is never seen and only BRK and SED fail.
TableHolds ==
    /\ fault # "cycle_check"
    /\ fault = "execute" => opcode_list[current_inst].op \in {"BRK", "SED"}

\* The index is 0 whenever a handler is about to start from its first step, so
\* no sequence ever starts in its middle: not after an instruction that ended
\* early, not after an interrupt, not after a reset that cuts off a fetched instruction.
StartsAtStepZero ==
    Running("fetch_and_decode_inst") => current_exec_index = 0

\* An interrupt the PPU raised is taken, whatever the CPU is doing: every
\* instruction ends, and the pin is taken back.
NmiTaken == nmi_pin ~> (~nmi_pin \/ ~Clocked)
=============================================================================
