----------------------------- MODULE Cpu6502Isa -----------------------------
(***************************************************************************)
(* The cycle by cycle CPU against the instruction set: history variables   *)
(* hold the registers and memory as they were when the CPU last stood      *)
(* between two instructions, and the interrupted contexts.                 *)
(***************************************************************************)
EXTENDS Cpu6502

VARIABLES
    last,       \* registers and memory at the last instruction boundary
    spent,      \* cycles since then
    took,       \* cycles between the last two boundaries
    contexts,   \* the registers at the interrupts not yet returned from
    waited      \* cycles the NMI pin has been up

historyVars == <<last, spent, took, contexts, waited>>
isaHistory  == <<vars, historyVars>>

\* The CPU gets to a boundary.
Arrives ==
    /\ execute_func # "fetch_and_decode_inst"
    /\ execute_func' = "fetch_and_decode_inst"

Ends(op) ==
    Arrives /\ execute_func = "execute_inst" /\ opcode_list[current_inst].op = op

Interrupted == execute_func = "fetch_and_decode_inst" /\ execute_func' = "nmi_handler"

HistoryInit ==
    /\ Init
    /\ last = [reg |-> cpu_reg, mem |-> mem]
    /\ spent = 0 /\ took = 0
    /\ contexts = <<>>
    /\ waited = 0

HistoryCycle ==
    /\ ClockCpu
    /\ IF Arrives
         THEN last' = [reg |-> cpu_reg', mem |-> mem'] /\ spent' = 0 /\ took' = spent + 1
         ELSE /\ spent' = IF reset_pin THEN 1 ELSE spent + 1
              /\ UNCHANGED <<last, took>>
    /\ contexts' = IF reset_pin THEN <<>>
                   ELSE IF Interrupted THEN <<cpu_reg>> \o contexts
                   ELSE IF Ends("RTI") /\ contexts # <<>> THEN Tail(contexts)
                   ELSE contexts
    /\ waited' = IF nmi_pin' THEN waited + 1 ELSE 0

HistoryNmi == RaiseNmi /\ UNCHANGED historyVars

HistoryNext == HistoryCycle \/ HistoryNmi

HistorySpec == HistoryInit /\ [][HistoryNext]_isaHistory /\ WF_vars(ClockCpu)

-----------------------------------------------------------------------------
(* Properties. *)

InstructionSet == INSTANCE Isa6502 WITH reg <- last.reg, mem <- last.mem, cycles <- took

\* From boundary to boundary the CPU does exactly one instruction, one
\* interrupt or one reset of the instruction set, with all its effects and in
\* its number of cycles, wherever the instruction, its operand and its stack
\* lie.  (Init is left to ImplementsIsa: a run of this property may start
\* between two instructions of any program.)
StepsAreInstructions == [][InstructionSet!Next]_(InstructionSet!isaVars)

\* The same from power on, with the interrupts and resets coming at any cycle.
ImplementsIsa == InstructionSet!Spec

\* A program does not see that it was interrupted: when the handler returns,
\* all registers, flags, the stack pointer and the pc are as they were, also
\* when the handler was itself interrupted.
InterruptIsTransparent ==
    [][Ends("RTI") /\ contexts # <<>> => cpu_reg' = Head(contexts)]_isaHistory

\* The longest instruction, less the cycle that has fetched it.
Longest == CHOOSE n \in {opcode_list[c].cycle - 1 : c \in DOMAIN opcode_list} :
              \A c \in DOMAIN opcode_list : opcode_list[c].cycle - 1 <= n

\* The pin is up for one instruction or a reset, and the interrupt sequence, at most.
\* An NMI that is raised while it is up is lost: this bound, far below the cycles of a
\* frame, is why none is.
NmiIsPrompt == waited < Longest + Len(NmiSteps)

\* set_ADD_overflow's comment, 6502core.c:857: "v Set if signed overflow;
\* cleared if valid signed result."
AdcSetsOverflow ==
    [][Ends("ADC") =>
         LET sum == Signed(last.reg.acc) + Signed(cpu_data_buffer')
                    + Bit("carry" \in last.reg.status)
         IN  "overflow" \in cpu_reg'.status <=> sum \notin -128 .. 127]_isaHistory
=============================================================================
