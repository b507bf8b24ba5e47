------------------------------ MODULE MCCpu6502 ------------------------------
(* Instances of Cpu6502Isa: one instruction of any kind, and whole programs. *)
EXTENDS Cpu6502Isa, TLC

\* Memory that holds the bytes from address a on, and rest elsewhere.
Bytes(a, bytes) == [i \in a .. a + Len(bytes) - 1 |-> bytes[i - a + 1]]

-----------------------------------------------------------------------------
(* A program that sets up its stack near the bottom of page 1, so that it    *)
(* wraps, then loops over a subroutine, and an interrupt handler.            *)

Main    == <<\hA2, 3, \h9A, \hA9, \h7F,            \* LDX #3; TXS; LDA #$7F
             \h20, \h0E, \hC0,                     \* loop: JSR sub
             \hCA, \hD0, \hFA,                     \* DEX; BNE loop
             \h4C, 0, \hC0,                        \* JMP start
             \h48, \h69, 1, \h08, \h28, \h68, \h60>> \* sub: PHA; ADC #1; PHP; PLP; PLA; RTS
Handler == <<\h48, \hE6, \h10, \hA9, 0, \hC6, \h10, \h68, \h40>>
                                \* PHA; INC $10; LDA #0; DEC $10; PLA; RTI
ProgramMemory ==
    {[cells |-> Bytes(\hC000, Main) @@ Bytes(\hD000, Handler)
                @@ Bytes(NMI_VECTOR, <<0, \hD0, 0, \hC0>>),
      rest |-> 0]}

\* A short loop, for the runs in which the debugger resets the CPU.
Loop == <<\hA2, 1, \h9A, \h08, \h28, \h56, \h10, \h4C, 0, \hC0>>
                                \* LDX #1; TXS; PHP; PLP; LSR $10,X; JMP start
LoopMemory ==
    {[cells |-> Bytes(\hC000, Loop) @@ Bytes(\hD000, <<\h40>>)
                @@ Bytes(NMI_VECTOR, <<0, \hD0, 0, \hC0>>),
      rest |-> 0]}

\* A sum that leaves a char: LDA #$FF; ADC #$80.
Sums == <<\hA9, \hFF, \h69, \h80>>
SumsMemory == {[cells |-> Bytes(\hC000, Sums) @@ Bytes(RESET_VECTOR, <<0, \hC0>>), rest |-> 0]}

ProgramMemories == ProgramMemory \cup LoopMemory

Looping == mem.cells[\hC001] = Loop[2]

\* Bound: only the loop is debugged.
DebugBound == ~Looping => (reset_pin' => reset_pin) /\ fault' # "quit"

\* Bound: the loop is interrupted once, while the stack pointer is where power on
\* or the loop put it, for resets would otherwise move it through all of page 1.
NmiBound == Looping => nmi_cnt = 0 /\ cpu_reg.sp \in {0, 1}

ProgramsNext == (HistoryCycle /\ DebugBound) \/ (HistoryNmi /\ NmiBound)
ProgramsSpec == HistoryInit /\ [][ProgramsNext]_isaHistory /\ WF_vars(ClockCpu)

-----------------------------------------------------------------------------
(* One instruction, started at a boundary with any of some registers,        *)
(* operands and memories.  Every code that a rest byte can be is one that    *)
(* ends the run.                                                             *)

Pc        == {\h00FE, \h01FC, \hFFF8, \hC0FE}
Operands  == {<<0, 2>>, <<\hFF, \hC0>>, <<\h80, 255>>}
Rests     == {\h00, \h80, \hFF}
Accs      == {0, \h7F, \h80}
Indexes   == {<<0, 1>>, <<\hFF, \h80>>}
Sps       == {0, \hFF}
Statuses  == {{"researved"}, {"carry", "zero", "negative", "overflow", "researved"}}

BoundaryInit ==
    /\ \E c \in DOMAIN opcode_list, pc \in Pc, o \in Operands, r \in Rests :
          mem = [cells |-> Bytes(pc, <<c>> \o o), rest |-> r]
          /\ \E a \in Accs, i \in Indexes, s \in Sps, p \in Statuses :
                cpu_reg = [acc |-> a, x |-> i[1], y |-> i[2], sp |-> s, status |-> p, pc |-> pc]
    /\ cpu_data_buffer = 0 /\ cpu_addr_buffer = 0
    /\ current_inst = -1 /\ current_exec_index = 0
    /\ execute_func = "fetch_and_decode_inst"
    /\ reset_pin = FALSE /\ nmi_pin = FALSE /\ nmi_cnt = 0
    /\ fault = "none"
    /\ last = [reg |-> cpu_reg, mem |-> mem]
    /\ spent = 0 /\ took = 0 /\ contexts = <<>> /\ waited = 0

OneInstruction == BoundaryInit /\ [][HistoryCycle]_isaHistory

NoMemories == {}
=============================================================================
