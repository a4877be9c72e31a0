--------------------------- MODULE Emulator_proofs --------------------------
(***************************************************************************)
(* Proofs about the composed machine, for every value of its constants:    *)
(* each unit is only driven in the ways its own specification foresees,    *)
(* the clocks stay in step, and a sprite transfer is exact.                *)
(***************************************************************************)
EXTENDS Emulator, TLAPS

(* The units' own theorems, for the units of the machine; the histories     *)
(* those proofs count with are not part of it.                             *)
PP == INSTANCE PPU_proofs WITH
  MaxCount <- 0, dots <- 0, steady <- TRUE, nmis <- 0, enables <- 0, raced <- FALSE
AP == INSTANCE APU_proofs WITH quiet <- 0
CP == INSTANCE CPU_proofs WITH elapsed <- 0

-----------------------------------------------------------------------------
(* What an access on the bus does to each unit.                            *)

PpuAccess ==
  \/ P!read_ppustatus
  \/ \E nmi \in BOOLEAN : P!write_ppuctrl(nmi)
  \/ \E render \in BOOLEAN : P!write_ppumask(render)
  \/ UNCHANGED <<ppu_vars, nmi_requested>>

ApuAccess == A!Access \/ UNCHANGED apu_vars

LEMMA ReadOnBus ==
  ASSUME NEW addr, read_cpu(addr)
  PROVE  PpuAccess /\ ApuAccess /\ UNCHANGED nmi_requested
<1>1. CASE Register(addr) = PPUSTATUS /\ addr # SND_CHN
  BY <1>1 DEF read_cpu, PpuAccess, ApuAccess, P!read_ppustatus
<1>2. CASE addr = SND_CHN
  <2>1. Register(addr) # PPUSTATUS
    BY <1>2 DEF Register, PPUSTATUS, SND_CHN
  <2> QED
    BY <1>2, <2>1 DEF read_cpu, PpuAccess, ApuAccess, A!Access
<1>3. CASE Register(addr) # PPUSTATUS /\ addr # SND_CHN
  BY <1>3 DEF read_cpu, PpuAccess, ApuAccess
<1> QED
  BY <1>1, <1>2, <1>3

LEMMA WriteToPpu ==
  ASSUME NEW reg, NEW value, WritePpu(reg, value)
  PROVE  PpuAccess
<1>1. ASSUME NEW b, b \in BOOLEAN, P!write_ppuctrl(b) PROVE PpuAccess
  BY <1>1 DEF PpuAccess
<1>2. ASSUME NEW b, b \in BOOLEAN, P!write_ppumask(b) PROVE PpuAccess
  BY <1>2 DEF PpuAccess
<1>3. Bit(value, 7) \in BOOLEAN /\ (Bit(value, 3) \/ Bit(value, 4)) \in BOOLEAN
  BY DEF Bit
<1> QED
  BY <1>1, <1>2, <1>3 DEF WritePpu, PpuAccess

LEMMA WriteToApu ==
  ASSUME NEW addr, NEW value \in 0..255, WriteApu(addr, value)
  PROVE  ApuAccess
<1>1. CASE A!write_control({c \in Channels : Bit(value, ChannelIndex[c])})
  BY <1>1 DEF ApuAccess, A!Access
<1>2. CASE A!write_frame_counter(Bit(value, 7) \/ Bit(value, 5) \/ Bit(value, 4), Bit(value, 6))
  <2>1. (Bit(value, 7) \/ Bit(value, 5) \/ Bit(value, 4)) \in BOOLEAN /\ Bit(value, 6) \in BOOLEAN
    BY DEF Bit
  <2> QED
    BY <1>2, <2>1 DEF ApuAccess, A!Access
<1>3. ASSUME NEW c \in Channels, A!write_halt(c, Bit(value, HaltBit(c)))
      PROVE  ApuAccess
  <2>1. Bit(value, HaltBit(c)) \in BOOLEAN
    BY DEF Bit
  <2> QED
    BY <1>3, <2>1 DEF ApuAccess, A!Access
<1>4. ASSUME NEW c \in Channels, A!write_length(c, A!length_table[1 + value \div 8])
      PROVE  ApuAccess
  <2>1. 1 + value \div 8 \in 1..32
    OBVIOUS
  <2>2. A!length_table[1 + value \div 8] \in Lengths
    BY <2>1, EmulatorAssumption
  <2> QED
    BY <1>4, <2>2 DEF ApuAccess, A!Access
<1> QED
  BY <1>1, <1>2, <1>3, <1>4 DEF WriteApu

(* The registers of the two units are different ones, so the order in      *)
(* which the bus asks the units makes no difference.                       *)
LEMMA ChannelIndices ==
  ASSUME NEW c \in Channels
  PROVE  ChannelIndex[c] \in 0..3
BY EmulatorAssumption DEF ChannelIndex

LEMMA ApuAddresses ==
  ASSUME NEW addr \in ApuRegisters
  PROVE  addr \in Int /\ addr > 16383 /\ addr # 16404
BY ChannelIndices DEF ApuRegisters, HaltRegister, LengthRegister, SND_CHN, FRAME_COUNTER

LEMMA ApuNotPpu ==
  ASSUME NEW addr \in Int, addr > 16383, addr # 16404
  PROVE  Register(addr) \notin {PPUCTRL, PPUMASK, OAMADDR, OAMDATA, OAMDMA}
  BY DEF Register, PPUCTRL, PPUMASK, OAMADDR, OAMDATA, OAMDMA

LEMMA StoreReachesPpu ==
  ASSUME NEW addr, NEW value, write_cpu(addr, value)
  PROVE  PpuAccess
<1> DEFINE toPpu == Register(addr) \in {PPUCTRL, PPUMASK, OAMADDR, OAMDATA, OAMDMA}
<1>1. CASE toPpu /\ addr \notin ApuRegisters
  BY <1>1, WriteToPpu DEF write_cpu
<1>2. CASE ~toPpu
  BY <1>2 DEF write_cpu, PpuAccess
<1>3. addr \in ApuRegisters => ~toPpu
  BY ApuAddresses, ApuNotPpu
<1> QED
  BY <1>1, <1>2, <1>3

LEMMA WriteOnBus ==
  ASSUME NEW addr, NEW value \in 0..255, write_cpu(addr, value)
  PROVE  PpuAccess /\ ApuAccess
<1> DEFINE toPpu == Register(addr) \in {PPUCTRL, PPUMASK, OAMADDR, OAMDATA, OAMDMA}
           toApu == addr \in ApuRegisters
<1>1. CASE toPpu /\ ~toApu
  BY <1>1, StoreReachesPpu DEF write_cpu, ApuAccess
<1>2. CASE ~toPpu /\ toApu
  BY <1>2, StoreReachesPpu, WriteToApu DEF write_cpu
<1>3. CASE ~toPpu /\ ~toApu
  BY <1>3, StoreReachesPpu DEF write_cpu, ApuAccess
<1>4. ~(toPpu /\ toApu)
  BY ApuAddresses, ApuNotPpu
<1> QED
  BY <1>1, <1>2, <1>3, <1>4

-----------------------------------------------------------------------------
(* What the simulations need to know of the state: the two lines are       *)
(* Boolean and the instruction in flight is one of the program's.          *)
Shared ==
  /\ nmi_requested \in BOOLEAN
  /\ irq_requested \in BOOLEAN
  /\ instr \in Instr \cup {C!NoInstr}

LEMMA StoredValue ==
  ASSUME Shared
  PROVE  instr.val \in 0..255
BY EmulatorAssumption DEF Shared, C!CPUConstants, C!NoInstr, C!Byte

(* An access may raise the NMI line and never lowers it.                   *)
LEMMA AccessRaises ==
  ASSUME Shared, PpuAccess
  PROVE  nmi_requested' \in {nmi_requested, TRUE}
BY DEF Shared, PpuAccess, P!read_ppustatus, P!write_ppuctrl, P!write_ppumask

(* The bus access of an instruction, as both units see it.                 *)
LEMMA ExecuteOnBus ==
  ASSUME Shared, Execute
  PROVE  PpuAccess /\ ApuAccess
<1>1. CASE instr.op = "load"
  BY <1>1, ReadOnBus DEF Execute
<1>2. CASE instr.op = "store"
  BY <1>2, WriteOnBus, StoredValue DEF Execute
<1>3. CASE instr.op # "load" /\ instr.op # "store"
  BY <1>3 DEF Execute, PpuAccess, ApuAccess
<1> QED
  BY <1>1, <1>2, <1>3

(* The bus access of a transfer.                                           *)
LEMMA CopyOnBus ==
  ASSUME ClockDma
  PROVE  PpuAccess /\ ApuAccess
<1>1. CASE CopiesAt(dma_cycle_counter')
  BY <1>1, ReadOnBus DEF ClockDma
<1>2. CASE ~CopiesAt(dma_cycle_counter')
  BY <1>2 DEF ClockDma, PpuAccess, ApuAccess, C!dma_clock, lines, C!lines
<1> QED
  BY <1>1, <1>2

(* The steps that leave the units alone.                                   *)
LEMMA IdleSteps ==
  ASSUME update \/ LoopTail \/ toggle_pause \/ DebuggerButtons \/ UNCHANGED vars
  PROVE  UNCHANGED <<ppu_vars, oam_vars, apu_vars, cpu_vars, lines>>
BY DEF update, LoopTail, toggle_pause, DebuggerButtons, vars

LEMMA EveryStep ==
  ASSUME [Next]_vars
  PROVE  \/ update \/ LoopTail \/ toggle_pause \/ DebuggerButtons \/ UNCHANGED vars
         \/ LoopHead \/ ClockApu \/ ClockCpu \/ CatchException \/ ClockDma
         \/ GrabDma \/ ClockPpu \/ reset
BY DEF Next, Loop, UserInterface
-----------------------------------------------------------------------------
(* The CPU: every step of the machine is a step of CPU.tla.                *)
LEMMA CpuStep ==
  ASSUME Shared, [Next]_vars
  PROVE  [C!Next]_C!vars
<1> USE DEF C!lines, C!cpu_vars, C!vars, lines, cpu_vars
<1>1. CASE update \/ LoopTail \/ toggle_pause \/ DebuggerButtons \/ UNCHANGED vars
  BY <1>1, IdleSteps
<1>2. CASE LoopHead
  BY <1>2 DEF LoopHead, P!grab_frame_done
<1>3. CASE ClockApu
  <2>1. irq_requested' \in {irq_requested, TRUE}
    BY <1>3 DEF ClockApu, A!step, A!Sequence, Shared
  <2> QED
    BY <1>3, <2>1 DEF ClockApu, C!Next, C!Raise
<1>4. CASE ClockCpu
  <2>1. CASE Execute
    <3>1. nmi_requested' \in {nmi_requested, TRUE}
      BY <2>1, ExecuteOnBus, AccessRaises
    <3> QED
      BY <2>1, <3>1 DEF Execute, C!Next, C!Step, C!Raise
  <2>2. CASE C!wait \/ C!interrupt \/ \E i \in Instr : C!step_fetch_(i)
    BY <2>2 DEF C!Next, C!Step
  <2> QED
    BY <1>4, <2>1, <2>2 DEF ClockCpu
<1>5. CASE CatchException
  BY <1>5 DEF CatchException, C!Next, C!Step
<1>6. CASE ClockDma
  BY <1>6 DEF ClockDma, C!Next
<1>7. CASE GrabDma
  BY <1>7 DEF GrabDma
<1>8. CASE ClockPpu
  <2>1. nmi_requested' \in {nmi_requested, TRUE}
    BY <1>8 DEF ClockPpu, P!tick_, P!PullNmi, Shared
  <2> QED
    BY <1>8, <2>1 DEF ClockPpu, C!Next, C!Raise
<1>9. CASE reset
  BY <1>9 DEF reset, C!Next
<1> QED
  BY <1>1, <1>2, <1>3, <1>4, <1>5, <1>6, <1>7, <1>8, <1>9, EveryStep

LEMMA InitShared == Init => Shared
BY DEF Init, C!Init, Shared

LEMMA NextShared == Shared /\ [Next]_vars => Shared'
<1> SUFFICES ASSUME Shared, [C!Next]_C!vars PROVE Shared'
  BY CpuStep
<1> USE DEF Shared, C!lines, C!vars, C!cpu_vars
<1>1. CASE C!Step
  BY <1>1 DEF C!Step, C!wait, C!step_execute_, C!Raise, C!interrupt, C!ClearLines,
     C!step_fetch_, C!FetchFor, C!throw
<1>2. CASE C!dma_clock \/ C!reset \/ (C!Raise /\ UNCHANGED C!cpu_vars)
  BY <1>2 DEF C!dma_clock, C!reset, C!Raise
<1>3. CASE UNCHANGED C!vars
  BY <1>3
<1> QED
  BY <1>1, <1>2, <1>3 DEF C!Next

LEMMA SharedAlways == Spec => []Shared
BY InitShared, NextShared, PTL DEF Spec

(* Emulator.tla implements CPU.tla (emulator.cpp 176-194 and cpu.cpp       *)
(* 44-292): the bus, the other units and the transfers move the interrupt  *)
(* lines and the cycle counter only as the CPU's environment may.          *)
THEOREM CpuRefined == Spec => CpuImplemented
<1>1. Init => C!Init
  BY DEF Init
<1>2. Shared /\ [Next]_vars => [C!Next]_C!vars
  BY CpuStep
<1> QED
  BY <1>1, <1>2, SharedAlways, PTL DEF Spec, C!Spec, CpuImplemented

-----------------------------------------------------------------------------
(* The PPU: every step of the machine is a step of PPU.tla.                *)
LEMMA PpuStep ==
  ASSUME Shared, [Next]_vars
  PROVE  [P!Next]_P!vars
<1> USE DEF P!ppu_vars, P!vars, ppu_vars, lines, C!lines
<1>0. ASSUME PpuAccess PROVE [P!Next]_P!vars
  BY <1>0 DEF PpuAccess, P!Next, P!Environment
<1>1. CASE update \/ LoopTail \/ toggle_pause \/ DebuggerButtons \/ UNCHANGED vars
  BY <1>1, IdleSteps
<1>2. CASE LoopHead
  BY <1>2 DEF LoopHead, P!Next, P!Environment
<1>3. CASE ClockApu
  BY <1>3 DEF ClockApu
<1>4. CASE ClockCpu
  <2>1. CASE Execute
    BY <1>0, <2>1, ExecuteOnBus
  <2>2. CASE C!wait /\ UNCHANGED ppu_vars
    BY <2>2 DEF C!wait
  <2>3. CASE C!ClearLines /\ UNCHANGED ppu_vars
    BY <2>3 DEF C!ClearLines, P!Next, P!Environment, Shared
  <2> QED
    BY <1>4, <2>1, <2>2, <2>3 DEF ClockCpu, C!interrupt, C!step_fetch_, C!FetchFor
<1>5. CASE CatchException
  BY <1>5 DEF CatchException, C!throw, C!ClearLines, P!Next, P!Environment, Shared
<1>6. CASE ClockDma
  BY <1>0, <1>6, CopyOnBus
<1>7. CASE GrabDma
  BY <1>7 DEF GrabDma
<1>8. CASE ClockPpu
  BY <1>8 DEF ClockPpu, P!Next
<1>9. CASE reset
  BY <1>9 DEF reset, C!reset, P!Next, P!Environment
<1> QED
  BY <1>1, <1>2, <1>3, <1>4, <1>5, <1>6, <1>7, <1>8, <1>9, EveryStep

(* Emulator.tla implements PPU.tla (emulator.cpp 104-151 and 196-211): the *)
(* program, the transfers and the user reach the dot clock only through    *)
(* the accesses its properties were checked and proved against.            *)
THEOREM PpuRefined == Spec => PpuImplemented
<1>1. Init => P!Init
  BY DEF Init
<1>2. Shared /\ [Next]_vars => [P!Next]_P!vars
  BY PpuStep
<1> QED
  BY <1>1, <1>2, SharedAlways, PTL DEF Spec, P!Spec, PpuImplemented

-----------------------------------------------------------------------------
(* The APU: every step of the machine is a step of APU.tla.                *)
LEMMA ApuStep ==
  ASSUME Shared, [Next]_vars
  PROVE  [A!Next]_A!vars
<1> USE DEF A!seq_vars, A!len_vars, A!apu_vars, A!vars, apu_vars, lines, C!lines
<1>0. ASSUME ApuAccess, UNCHANGED irq_requested PROVE [A!Next]_A!vars
  BY <1>0 DEF ApuAccess, A!Next, A!Environment, A!Registers
<1>1. CASE update \/ LoopTail \/ toggle_pause \/ DebuggerButtons \/ UNCHANGED vars
  BY <1>1, IdleSteps
<1>2. CASE LoopHead
  BY <1>2 DEF LoopHead
<1>3. CASE ClockApu
  BY <1>3 DEF ClockApu, A!Next
<1>4. CASE ClockCpu
  <2>1. CASE Execute
    BY <1>0, <2>1, ExecuteOnBus DEF Execute
  <2>2. CASE C!wait /\ UNCHANGED apu_vars
    BY <2>2 DEF C!wait
  <2>3. CASE C!ClearLines /\ UNCHANGED apu_vars
    BY <2>3 DEF C!ClearLines, A!Next, A!Environment, A!TakeIrq, Shared
  <2> QED
    BY <1>4, <2>1, <2>2, <2>3 DEF ClockCpu, C!interrupt, C!step_fetch_, C!FetchFor
<1>5. CASE CatchException
  BY <1>5 DEF CatchException, C!throw, C!ClearLines, A!Next, A!Environment, A!TakeIrq, Shared
<1>6. CASE ClockDma
  BY <1>0, <1>6, CopyOnBus DEF ClockDma, C!dma_clock
<1>7. CASE GrabDma
  BY <1>7 DEF GrabDma
<1>8. CASE ClockPpu
  BY <1>8 DEF ClockPpu
<1>9. CASE reset
  BY <1>9 DEF reset, C!reset, A!Next, A!Environment
<1> QED
  BY <1>1, <1>2, <1>3, <1>4, <1>5, <1>6, <1>7, <1>8, <1>9, EveryStep

(* Emulator.tla implements APU.tla (emulator.cpp 176-194): register        *)
(* accesses of the program and of transfers, clocks and resets are all     *)
(* among the steps the audio unit's properties were proved against.        *)
THEOREM ApuRefined == Spec => ApuImplemented
<1>1. Init => A!Init
  BY DEF Init
<1>2. Shared /\ [Next]_vars => [A!Next]_A!vars
  BY ApuStep
<1> QED
  BY <1>1, <1>2, SharedAlways, PTL DEF Spec, A!Spec, ApuImplemented

-----------------------------------------------------------------------------
(* What the units' own theorems say of the machine.                        *)
LEMMA CpuSafe == C!Spec => [](C!TypeOK /\ C!IdleTicks)
<1>1. C!Spec => CP!Spec
  BY DEF C!Spec, CP!Spec, C!Init, CP!Init, C!Next, CP!Next, C!vars, CP!vars, C!lines,
     CP!lines, C!cpu_vars, CP!cpu_vars, C!Step, CP!Step, C!wait, CP!wait, C!Waits, CP!Waits,
     C!Ticked, CP!Ticked, C!NextCycle, CP!NextCycle, C!step_execute_, CP!step_execute_,
     C!Executes, CP!Executes, C!IntDisableAfter, CP!IntDisableAfter, C!Raise, CP!Raise,
     C!interrupt, CP!interrupt, C!Fetches, CP!Fetches, C!InterruptTaken, CP!InterruptTaken,
     C!ClearLines, CP!ClearLines, C!step_fetch_, C!FetchFor, CP!step_fetch_, CP!FetchFor, C!throw, CP!throw,
     C!dma_clock, CP!dma_clock, C!reset, CP!reset, C!NoInstr, CP!NoInstr
<1>2. CP!TypeOK => C!TypeOK
  BY Zenon DEF CP!TypeOK, C!TypeOK, CP!Byte, C!Byte, CP!NoInstr, C!NoInstr
<1>3. CP!IdleTicks => C!IdleTicks
  BY DEF CP!IdleTicks, C!IdleTicks
<1>4. CP!CPUConstants
  <2>1. CP!Byte = C!Byte /\ CP!Address = C!Address /\ CP!Ops = C!Ops
    BY DEF CP!Byte, C!Byte, CP!Address, C!Address, CP!Ops, C!Ops
  <2> QED
    BY <2>1, EmulatorAssumption DEF C!CPUConstants, CP!CPUConstants
<1>5. CP!Spec => []CP!TypeOK
  BY <1>4, CP!TypeCorrect
<1>6. CP!Spec => []CP!IdleTicks
  BY <1>4, CP!IdleTicksSafe
<1> QED
  BY <1>1, <1>2, <1>3, <1>5, <1>6, PTL

LEMMA PpuSafe == P!Spec => [](P!TypeOK /\ P!VBlankWindow)
<1>1. P!Spec => PP!Spec
  BY DEF P!Spec, PP!Spec, P!Init, PP!Init, P!Next, PP!Next, P!vars, PP!vars, P!ppu_vars,
     PP!ppu_vars, P!tick_, PP!tick_, P!Advance, PP!Advance, P!LineEnds, PP!LineEnds,
     P!FrameEnds, PP!FrameEnds, P!NextDot, PP!NextDot, P!NextFrame, PP!NextFrame,
     P!OddFrameSkip, PP!OddFrameSkip, P!At, PP!At, P!VBlankFlags, PP!VBlankFlags,
     P!PullNmi, PP!PullNmi, P!Environment, PP!Environment, P!read_ppustatus,
     PP!read_ppustatus, P!write_ppuctrl, PP!write_ppuctrl, P!write_ppumask,
     PP!write_ppumask, P!grab_frame_done, PP!grab_frame_done, P!reset, PP!reset
<1>2. PP!TypeOK => P!TypeOK
  BY DEF PP!TypeOK, P!TypeOK
<1>3. PP!VBlankWindow => P!VBlankWindow
  BY DEF PP!VBlankWindow, P!VBlankWindow, PP!InVBlankWindow, P!InVBlankWindow, PP!At, P!At
<1>4. PP!PPUConstants
  BY EmulatorAssumption DEF P!PPUConstants, PP!PPUConstants
<1>5. PP!Spec => []PP!TypeOK
  BY <1>4, PP!TypeCorrect
<1>6. PP!Spec => [](PP!VBlankWindow /\ PP!IsInVBlankTracksPosition)
  BY <1>4, PP!VBlankInWindow
<1> QED
  BY <1>1, <1>2, <1>3, <1>5, <1>6, PTL

LEMMA ApuSafe == A!Spec => [](A!TypeOK /\ A!DisabledSilent)
<1>1. A!Spec => AP!Spec
  BY DEF A!Spec, AP!Spec, A!Init, AP!Init, A!Next, AP!Next, A!vars, AP!vars, A!apu_vars,
     AP!apu_vars, A!seq_vars, AP!seq_vars, A!len_vars, AP!len_vars, A!step, AP!step,
     A!Sequence, AP!Sequence, A!PullsIrq, AP!PullsIrq, A!FrameIrq, AP!FrameIrq, A!SequenceOver, AP!SequenceOver,
     A!SequencePoint, AP!SequencePoint, A!LastStep, AP!LastStep, A!ChangeIsDue,
     AP!ChangeIsDue, A!HalfFrame, AP!HalfFrame, A!ClockLengths, AP!ClockLengths,
     A!Environment, AP!Environment, A!Registers, AP!Registers, A!Access, AP!Access, A!write_halt, AP!write_halt,
     A!write_length, AP!write_length, A!write_control, AP!write_control,
     A!write_frame_counter, AP!write_frame_counter, A!ChangeDelay, AP!ChangeDelay,
     A!read_status, AP!read_status, A!reset, AP!reset, A!TakeIrq, AP!TakeIrq
<1>2. AP!TypeOK => A!TypeOK
  BY DEF AP!TypeOK, A!TypeOK
<1>3. AP!DisabledSilent => A!DisabledSilent
  BY DEF AP!DisabledSilent, A!DisabledSilent
<1>4. AP!APUConstants
  BY EmulatorAssumption DEF A!APUConstants, AP!APUConstants
<1>5. AP!Spec => []AP!TypeOK
  BY <1>4, AP!TypeCorrect
<1>6. AP!Spec => []AP!DisabledSilent
  BY <1>4, AP!DisabledChannelsSilent
<1> QED
  BY <1>1, <1>2, <1>3, <1>5, <1>6, PTL

(* VBlankWindow (ppu.cpp 512-538) in the whole machine.                    *)
THEOREM VBlankInWindow == Spec => []VBlankWindow
BY PpuRefined, PpuSafe, PTL DEF PpuImplemented, VBlankWindow

(* IdleTicks (cpu.cpp 51 and 59) in the whole machine.                     *)
THEOREM IdleTicksSafe == Spec => []IdleTicks
BY CpuRefined, CpuSafe, PTL DEF CpuImplemented, IdleTicks

(* DisabledSilent (apu.cpp 176-311) in the whole machine.                  *)
THEOREM DisabledChannelsSilent == Spec => []DisabledSilent
BY ApuRefined, ApuSafe, PTL DEF ApuImplemented, DisabledSilent

-----------------------------------------------------------------------------
(* The clocks.  Places keeps what a place in update() says of the counters *)
(* and makes ThreeDotsPerCycle inductive: the CPU is only clocked on every *)
(* third dot.                                                              *)
Places ==
  /\ phase \in Phases
  /\ phase \in {"apu", "cpu", "grab"} => cycle % 3 = 0

Counters ==
  /\ cycle \in 0..(3 * CycleMod - 1)
  /\ cpu_cycle \in 0..(CycleMod - 1)

ClockInv == Places /\ Counters /\ ThreeDotsPerCycle

LEMMA CycleModEven == CycleMod \in Nat /\ CycleMod > 0 /\ CycleMod % 2 = 0
BY EmulatorAssumption DEF C!CPUConstants

LEMMA InitClock == Init => ClockInv
BY CycleModEven DEF Init, C!Init, ClockInv, Places, Phases, Counters, ThreeDotsPerCycle, DotsDue

(* One clock of the CPU, whatever it is used for, in the middle of an      *)
(* iteration.                                                              *)
LEMMA CpuClocked ==
  ASSUME ClockInv, phase = "cpu", phase' = "grab", UNCHANGED cycle,
         cpu_cycle' = C!NextCycle
  PROVE  ClockInv'
<1>1. 3 * cpu_cycle = cycle
  BY CycleModEven DEF ClockInv, Places, Counters, ThreeDotsPerCycle, DotsDue
<1>2. Counters'
  BY CycleModEven DEF ClockInv, Counters, C!NextCycle
<1>3. ThreeDotsPerCycle'
  BY <1>1, CycleModEven DEF ClockInv, Counters, C!NextCycle, ThreeDotsPerCycle, DotsDue
<1> QED
  BY <1>2, <1>3 DEF ClockInv, Places, Phases

LEMMA NextClock == ClockInv /\ [Next]_vars => ClockInv'
<1> SUFFICES ASSUME ClockInv, [Next]_vars PROVE ClockInv'
  OBVIOUS
<1> USE CycleModEven DEF ClockInv, Places, Phases, Counters
<1>1. CASE update \/ toggle_pause \/ DebuggerButtons \/ UNCHANGED vars
  BY <1>1 DEF update, toggle_pause, DebuggerButtons, vars, cpu_vars, emu_vars,
     ThreeDotsPerCycle, DotsDue
<1>2. CASE LoopHead
  <2>1. UNCHANGED <<cycle, cpu_cycle>> /\ phase = "while"
    BY <1>2 DEF LoopHead, cpu_vars, emu_vars
  <2>2. phase' = "idle" \/ (phase' = "apu" /\ cycle % 3 = 0) \/ (phase' = "ppu" /\ cycle % 3 # 0)
    BY <1>2 DEF LoopHead
  <2>3. ThreeDotsPerCycle'
    BY <2>1, <2>2 DEF ThreeDotsPerCycle, DotsDue
  <2> QED
    BY <2>1, <2>2, <2>3
<1>3. CASE ClockApu
  BY <1>3 DEF ClockApu, cpu_vars, emu_vars, ThreeDotsPerCycle, DotsDue
<1>4. CASE ClockCpu
  <2>1. cpu_cycle' = C!NextCycle
    BY <1>4 DEF ClockCpu, Execute, C!step_execute_, C!wait, C!interrupt, C!step_fetch_, C!FetchFor
  <2> QED
    BY <1>4, <2>1, CpuClocked DEF ClockCpu, emu_vars
<1>5. CASE CatchException
  BY <1>5 DEF CatchException, C!throw, emu_vars, ThreeDotsPerCycle, DotsDue
<1>6. CASE ClockDma
  BY <1>6, CpuClocked DEF ClockDma, C!dma_clock
<1>7. CASE GrabDma
  BY <1>7 DEF GrabDma, cpu_vars, ThreeDotsPerCycle, DotsDue
<1>8. CASE ClockPpu
  BY <1>8 DEF ClockPpu, cpu_vars, emu_vars, ThreeDotsPerCycle, DotsDue
<1>9. CASE LoopTail
  <2>1. phase = "advance" /\ phase' \in {"idle", "while"} /\ cpu_cycle' = cpu_cycle
    BY <1>9 DEF LoopTail, cpu_vars
  <2>2. CASE cycle = 3 * CycleMod - 1
    BY <1>9, <2>1, <2>2 DEF LoopTail, ThreeDotsPerCycle, DotsDue
  <2>3. CASE cycle # 3 * CycleMod - 1
    BY <1>9, <2>1, <2>3 DEF LoopTail, ThreeDotsPerCycle, DotsDue
  <2> QED
    BY <2>2, <2>3
<1>10. CASE reset
  BY <1>10 DEF reset, C!reset, ThreeDotsPerCycle, DotsDue
<1> QED
  BY <1>1, <1>2, <1>3, <1>4, <1>5, <1>6, <1>7, <1>8, <1>9, <1>10, EveryStep

LEMMA ClockAlways == Spec => []ClockInv
BY InitClock, NextClock, PTL DEF Spec

(* ThreeDotsPerCycle (emulator.cpp 104-151): the CPU and the PPU stay in   *)
(* step for ever, across transfers, breaks, exceptions and resets.         *)
THEOREM ThreeDots == Spec => []ThreeDotsPerCycle
<1>1. ClockInv => ThreeDotsPerCycle
  BY DEF ClockInv
<1> QED
  BY <1>1, ClockAlways, PTL

-----------------------------------------------------------------------------
(* FrameNotOverrun (emulator.cpp 113-118): only clock_ppu_ raises the      *)
(* end-of-frame flag, and only the head of the loop leads back to a clock. *)
THEOREM NoFrameOverrun == Spec => []FrameNotOverrun
<1>1. Init => FrameNotOverrun
  BY DEF Init, FrameNotOverrun
<1>2. FrameNotOverrun /\ [Next]_vars => FrameNotOverrun'
  <2> SUFFICES ASSUME FrameNotOverrun, [Next]_vars PROVE FrameNotOverrun'
    OBVIOUS
  <2> USE DEF FrameNotOverrun, ppu_vars
  <2>1. CASE update \/ toggle_pause \/ DebuggerButtons \/ UNCHANGED vars
    BY <2>1 DEF update, toggle_pause, DebuggerButtons, vars
  <2>2. CASE LoopHead
    BY <2>2 DEF LoopHead, P!grab_frame_done
  <2>3. CASE ClockApu
    BY <2>3 DEF ClockApu
  <2>4. CASE ClockCpu
    <3>1. ASSUME PpuAccess PROVE UNCHANGED frame_done
      BY <3>1 DEF PpuAccess, P!read_ppustatus, P!write_ppuctrl, P!write_ppumask
    <3>2. phase = "cpu" /\ phase' = "grab" /\ (Execute \/ UNCHANGED ppu_vars)
      BY <2>4 DEF ClockCpu
    <3>3. Execute => UNCHANGED frame_done
      <4> SUFFICES ASSUME Execute PROVE UNCHANGED frame_done
        OBVIOUS
      <4>1. CASE instr.op = "load"
        BY <3>1, <4>1, ReadOnBus DEF Execute
      <4>2. CASE instr.op = "store"
        BY <3>1, <4>2, StoreReachesPpu DEF Execute
      <4>3. CASE instr.op # "load" /\ instr.op # "store"
        BY <4>3 DEF Execute
      <4> QED
        BY <4>1, <4>2, <4>3
    <3> QED
      BY <3>2, <3>3
  <2>5. CASE CatchException
    BY <2>5 DEF CatchException
  <2>6. CASE ClockDma
    <3>1. UNCHANGED frame_done
      BY <2>6, CopyOnBus DEF PpuAccess, P!read_ppustatus, P!write_ppuctrl, P!write_ppumask
    <3> QED
      BY <2>6, <3>1 DEF ClockDma
  <2>7. CASE GrabDma
    BY <2>7 DEF GrabDma
  <2>8. CASE ClockPpu
    BY <2>8 DEF ClockPpu
  <2>9. CASE LoopTail
    BY <2>9 DEF LoopTail
  <2>10. CASE reset
    BY <2>10 DEF reset
  <2> QED
    BY <2>1, <2>2, <2>3, <2>4, <2>5, <2>6, <2>7, <2>8, <2>9, <2>10, EveryStep
<1> QED
  BY <1>1, <1>2, PTL DEF Spec

-----------------------------------------------------------------------------
(* NmiLatched (cpu.cpp 73-88): only the entry of a handler or a reset      *)
(* lowers the NMI line.                                                    *)
THEOREM NmiKept == Spec => NmiLatched
<1>1. ASSUME Shared, [Next]_vars, nmi_requested, ~nmi_requested'
      PROVE  C!interrupt \/ reset
  <2> USE DEF lines, C!lines, Shared
  <2>1. ~PpuAccess
    BY <1>1, AccessRaises
  <2>2. ~(update \/ LoopTail \/ toggle_pause \/ DebuggerButtons \/ UNCHANGED vars)
    BY <1>1, IdleSteps
  <2>3. ~LoopHead /\ ~ClockApu /\ ~GrabDma
    BY <1>1 DEF LoopHead, P!grab_frame_done, ClockApu, GrabDma
  <2>4. ~ClockPpu
    BY <1>1 DEF ClockPpu, P!tick_, P!PullNmi
  <2>5. ~ClockDma /\ ~Execute
    BY <1>1, <2>1, CopyOnBus, ExecuteOnBus
  <2>6. ~CatchException
    BY <1>1 DEF CatchException, C!throw, C!InterruptTaken
  <2>7. ClockCpu => C!interrupt
    BY <1>1, <2>5 DEF ClockCpu, C!wait, C!step_fetch_, C!FetchFor, C!InterruptTaken
  <2> QED
    BY <1>1, <2>2, <2>3, <2>4, <2>5, <2>6, <2>7, EveryStep
<1>2. Shared /\ [Next]_vars => [nmi_requested /\ ~nmi_requested' => C!interrupt \/ reset]_vars
  BY <1>1
<1> QED
  BY <1>2, SharedAlways, PTL DEF Spec, NmiLatched

-----------------------------------------------------------------------------
(* Object memory keeps its types, under every operation on it.             *)
OamWrite(value) ==
  O!write_oamaddr(value) \/ O!write_oamdata \/ O!write_oamdma(value) \/ UNCHANGED oam_vars

LEMMA StoreReachesOam ==
  ASSUME NEW addr, NEW value, write_cpu(addr, value)
  PROVE  OamWrite(value)
<1> DEFINE toPpu == Register(addr) \in {PPUCTRL, PPUMASK, OAMADDR, OAMDATA, OAMDMA}
<1>1. CASE toPpu /\ addr \notin ApuRegisters
  BY <1>1 DEF write_cpu, WritePpu, OamWrite
<1>2. CASE ~toPpu
  BY <1>2 DEF write_cpu, OamWrite
<1>3. addr \in ApuRegisters => ~toPpu
  BY ApuAddresses, ApuNotPpu
<1> QED
  BY <1>1, <1>2, <1>3

LEMMA OamWriteTyped ==
  ASSUME O!TypeOK, NEW value \in O!Pages, OamWrite(value)
  PROVE  O!TypeOK'
<1> USE DEF O!TypeOK, oam_vars
<1>0. OamSize \in Nat /\ OamSize > 0 /\ value \in Nat
  BY EmulatorAssumption DEF O!OAMConstants, O!Pages
<1>1. CASE O!write_oamaddr(value)
  <2>1. value % OamSize \in O!Cells
    BY <1>0 DEF O!Cells
  <2> QED
    BY <1>1, <2>1 DEF O!write_oamaddr
<1>2. CASE O!write_oamdata
  <2>1. oamaddr' \in O!Cells
    BY <1>0, <1>2 DEF O!write_oamdata, O!Cells
  <2> QED
    BY <1>2, <2>1 DEF O!write_oamdata
<1>3. CASE O!write_oamdma(value)
  BY <1>3 DEF O!write_oamdma
<1>4. CASE UNCHANGED oam_vars
  BY <1>4
<1> QED
  BY <1>1, <1>2, <1>3, <1>4 DEF OamWrite

LEMMA ZeroIsCell == 0 \in O!Cells /\ 0 \in O!Pages
BY EmulatorAssumption DEF O!OAMConstants, O!Cells, O!Pages

LEMMA InitOam == Init => O!TypeOK
BY ZeroIsCell DEF Init, O!Init, O!TypeOK

LEMMA NextOam == Shared /\ O!TypeOK /\ [Next]_vars => O!TypeOK'
<1> SUFFICES ASSUME Shared, O!TypeOK, [Next]_vars PROVE O!TypeOK'
  OBVIOUS
<1> USE DEF O!TypeOK, oam_vars
<1>1. CASE UNCHANGED oam_vars
  BY <1>1
<1>2. CASE ClockCpu
  <2>1. CASE Execute /\ instr.op = "store"
    <3>1. instr.val \in O!Pages
      BY StoredValue DEF O!Pages
    <3> QED
      BY <2>1, <3>1, StoreReachesOam, OamWriteTyped DEF Execute
  <2>2. CASE Execute /\ instr.op # "store"
    BY <1>1, <2>2 DEF Execute
  <2>3. CASE ~Execute
    BY <1>1, <1>2, <2>3 DEF ClockCpu, C!wait, C!interrupt, C!step_fetch_, C!FetchFor
  <2> QED
    BY <2>1, <2>2, <2>3
<1>3. CASE ClockDma
  BY <1>1, <1>3 DEF ClockDma, O!dma_copy_byte
<1>4. CASE GrabDma
  BY <1>4 DEF GrabDma, O!grab_dma_request
<1>5. CASE ClockPpu
  BY <1>5, ZeroIsCell DEF ClockPpu, O!fg_eval_
<1>6. CASE reset
  BY <1>6 DEF reset, O!reset
<1>7. CASE LoopHead \/ ClockApu \/ CatchException
  BY <1>1, <1>7 DEF LoopHead, ClockApu, CatchException
<1> QED
  BY <1>1, <1>2, <1>3, <1>4, <1>5, <1>6, <1>7, IdleSteps, EveryStep

-----------------------------------------------------------------------------
(* Transfers.  The parity and the copied prefix are each inductive, given  *)
(* the types.                                                              *)
Counted == dma_cycle_counter \in 0..(2 * OamSize + 2)

TransferInv == Counted /\ TransferAligned /\ TransferPrefix

Typed == Counters /\ O!TypeOK

LEMMA OamSizePositive == OamSize \in Nat /\ OamSize > 0
BY EmulatorAssumption DEF O!OAMConstants

LEMMA Parity ==
  ASSUME NEW n \in Nat
  PROVE  n % 2 = 0 \/ n % 2 = 1
OBVIOUS

LEMMA InitTransfer == Init => TransferInv
BY OamSizePositive DEF Init, TransferInv, Counted, TransferAligned, TransferPrefix

(* No transfer under way: nothing to show.                                 *)
LEMMA NoTransfer == dma_cycle_counter' = 0 => TransferInv'
BY OamSizePositive DEF TransferInv, Counted, TransferAligned, TransferPrefix

LEMMA CopyStep ==
  ASSUME Typed, TransferInv, ClockDma
  PROVE  TransferInv'
<1>0. /\ dma_cycle_counter \in 1..(2 * OamSize + 2)
      /\ dma_cycle_counter' = dma_cycle_counter - 1
      /\ cpu_cycle' = C!NextCycle
      /\ UNCHANGED <<dma_page_idx, dma_requested>>
  BY DEF ClockDma, C!dma_clock, O!dma_copy_byte, oam_vars, TransferInv, Counted
<1>1. Counted'
  BY <1>0, OamSizePositive DEF Counted
<1>2. TransferAligned'
  <2>1. (cpu_cycle + dma_cycle_counter) % 2 = 1 /\ ~dma_requested
    BY <1>0 DEF TransferInv, TransferAligned
  <2>2. (cpu_cycle' + dma_cycle_counter') % 2 = 1
    BY <1>0, <2>1, CycleModEven, OamSizePositive DEF Typed, Counters, C!NextCycle
  <2> QED
    BY <1>0, <2>1, <2>2 DEF TransferAligned
<1>3. TransferPrefix'
  <2> SUFFICES ASSUME NEW i \in O!Cells, dma_cycle_counter' > 0,
                      2 * i + dma_cycle_counter' <= 2 * OamSize
               PROVE  oam'[i] = dma_page_idx
    BY <1>0 DEF TransferPrefix
  <2>0. i \in 0..(OamSize - 1) /\ dma_cycle_counter' \in 1..(2 * OamSize)
    BY <1>0, OamSizePositive DEF O!Cells
  <2>1. 2 * i + dma_cycle_counter <= 2 * OamSize => oam[i] = dma_page_idx
    BY <1>0 DEF TransferInv, TransferPrefix
  <2>2. CASE CopiesAt(dma_cycle_counter')
    <3>1. oam' = [oam EXCEPT ![DmaIndex(dma_cycle_counter')] = dma_page_idx]
      BY <2>2 DEF ClockDma, O!dma_copy_byte
    <3>2. CASE i = DmaIndex(dma_cycle_counter')
      BY <3>1, <3>2 DEF Typed, O!TypeOK
    <3>3. CASE i # DmaIndex(dma_cycle_counter')
      <4>1. 2 * i + dma_cycle_counter <= 2 * OamSize
        BY <1>0, <2>0, <2>2, <3>3, OamSizePositive DEF CopiesAt, DmaIndex
      <4> QED
        BY <2>1, <3>1, <3>3, <4>1 DEF Typed, O!TypeOK
    <3> QED
      BY <3>2, <3>3
  <2>3. CASE ~CopiesAt(dma_cycle_counter')
    <3>1. dma_cycle_counter' % 2 = 1
      <4>1. dma_cycle_counter' \in Nat /\ dma_cycle_counter' <= 2 * OamSize
        BY <2>0, OamSizePositive
      <4> QED
        BY <2>3, <4>1, Parity DEF CopiesAt
    <3>2. 2 * i + dma_cycle_counter <= 2 * OamSize
      BY <1>0, <2>0, <3>1, OamSizePositive
    <3>3. oam' = oam
      BY <2>3 DEF ClockDma, oam_vars
    <3> QED
      BY <2>1, <3>2, <3>3
  <2> QED
    BY <2>2, <2>3
<1> QED
  BY <1>1, <1>2, <1>3 DEF TransferInv

LEMMA StartStep ==
  ASSUME Typed, TransferInv, GrabDma
  PROVE  TransferInv'
<1>1. CASE dma_requested
  <2>1. /\ dma_cycle_counter' = DmaCycles /\ ~dma_requested'
        /\ UNCHANGED <<oam, dma_page_idx, cpu_cycle>>
    BY <1>1 DEF GrabDma, O!grab_dma_request, cpu_vars
  <2>2. cpu_cycle \in Nat /\ cpu_cycle % 2 \in 0..1
    BY CycleModEven DEF Typed, Counters
  <2>3. DmaCycles \in (2 * OamSize + 1)..(2 * OamSize + 2)
    BY <2>2, OamSizePositive DEF DmaCycles
  <2>4. (cpu_cycle + DmaCycles) % 2 = 1
    BY <2>2, OamSizePositive DEF DmaCycles
  <2>5. TransferPrefix'
    BY <2>1, <2>3, OamSizePositive DEF TransferPrefix, O!Cells
  <2> QED
    BY <2>1, <2>3, <2>4, <2>5, OamSizePositive DEF TransferInv, Counted, TransferAligned
<1>2. CASE ~dma_requested
  BY <1>2 DEF GrabDma, O!grab_dma_request, cpu_vars, TransferInv, Counted,
     TransferAligned, TransferPrefix
<1> QED
  BY <1>1, <1>2

LEMMA NextTransfer == Typed /\ TransferInv /\ [Next]_vars => TransferInv'
<1> SUFFICES ASSUME Typed, TransferInv, [Next]_vars PROVE TransferInv'
  OBVIOUS
<1>0. ASSUME UNCHANGED <<oam, dma_page_idx, dma_requested, cpu_cycle, dma_cycle_counter>>
      PROVE  TransferInv'
  BY <1>0 DEF TransferInv, Counted, TransferAligned, TransferPrefix
<1>1. CASE update \/ LoopTail \/ toggle_pause \/ DebuggerButtons \/ UNCHANGED vars
  BY <1>0, <1>1 DEF update, LoopTail, toggle_pause, DebuggerButtons, vars, oam_vars,
     cpu_vars, emu_vars
<1>2. CASE LoopHead \/ ClockApu \/ CatchException
  BY <1>0, <1>2 DEF LoopHead, ClockApu, CatchException, C!throw, oam_vars, cpu_vars, emu_vars
<1>3. CASE ClockCpu \/ reset
  BY <1>3, NoTransfer DEF ClockCpu, reset, emu_vars
<1>4. CASE ClockPpu
  BY <1>0, <1>4 DEF ClockPpu, O!fg_eval_, cpu_vars, emu_vars
<1> QED
  BY <1>1, <1>2, <1>3, <1>4, CopyStep, StartStep, EveryStep

LEMMA TransferAlways == Spec => [](Typed /\ TransferInv)
<1>1. Init => TransferInv /\ O!TypeOK
  BY InitTransfer, InitOam
<1>2. ClockInv => Counters
  BY DEF ClockInv
<1>3. Spec => []O!TypeOK
  BY <1>1, NextOam, SharedAlways, PTL DEF Spec
<1>4. Spec => []Typed
  BY <1>2, <1>3, ClockAlways, PTL DEF Typed
<1> QED
  BY <1>1, <1>4, NextTransfer, PTL DEF Spec

(* TransferAligned (emulator.cpp 176-194): whichever cycle requested it, a *)
(* transfer copies on the same parity, and requests do not overlap.        *)
THEOREM TransfersAligned == Spec => []TransferAligned
<1>1. TransferInv => TransferAligned
  BY DEF TransferInv
<1> QED
  BY <1>1, TransferAlways, PTL

(* TransferPrefix (emulator.cpp 176-194, ppu.cpp 218-225): what has been   *)
(* copied stays copied while the transfer runs.                            *)
THEOREM TransfersKeepPrefix == Spec => []TransferPrefix
<1>1. TransferInv => TransferPrefix
  BY DEF TransferInv
<1> QED
  BY <1>1, TransferAlways, PTL

(* TransferComplete: at its last cycle a transfer has filled every cell,   *)
(* for an object memory of any size up to 256.                             *)
THEOREM TransfersComplete == Spec => TransferComplete
<1>1. ASSUME Typed, TransferInv, [Next]_vars, phase = "cpu", dma_cycle_counter = 1,
             ~(UNCHANGED vars)
      PROVE  dma_cycle_counter' = 0 /\ \A i \in O!Cells : oam'[i] = dma_page_idx
  <2>1. ClockDma
    BY <1>1, EveryStep DEF update, LoopHead, ClockApu, ClockCpu, CatchException, GrabDma,
       ClockPpu, LoopTail, toggle_pause, DebuggerButtons, reset
  <2>2. dma_cycle_counter' = 0
    BY <1>1, <2>1 DEF ClockDma
  <2>3. oam' = [oam EXCEPT ![0] = dma_page_idx]
    BY <2>1, <2>2, OamSizePositive DEF ClockDma, CopiesAt, DmaIndex, O!dma_copy_byte
  <2>4. ASSUME NEW i \in O!Cells PROVE oam[i] = dma_page_idx
    <3>1. 2 * i + dma_cycle_counter <= 2 * OamSize
      BY <1>1, OamSizePositive DEF O!Cells
    <3> QED
      BY <1>1, <3>1 DEF TransferInv, TransferPrefix
  <2> QED
    BY <1>1, <2>2, <2>3, <2>4 DEF Typed, O!TypeOK
<1>2. Typed /\ TransferInv /\ [Next]_vars =>
        [phase = "cpu" /\ dma_cycle_counter = 1 =>
           dma_cycle_counter' = 0 /\ \A i \in O!Cells : oam'[i] = dma_page_idx]_vars
  BY <1>1
<1> QED
  BY <1>2, TransferAlways, PTL DEF Spec, TransferComplete

-----------------------------------------------------------------------------
(* What is left of the types.                                              *)
Switches == D!TypeOK /\ paused \in BOOLEAN

LEMMA InitSwitches == Init => Switches
BY DEF Init, D!Init, Switches, D!TypeOK, D!Modes, D!Breaks

LEMMA NextSwitches == Switches /\ [Next]_vars => Switches'
<1> SUFFICES ASSUME Switches, [Next]_vars PROVE Switches'
  OBVIOUS
<1> USE DEF Switches, D!TypeOK, dbg_vars, emu_vars
<1>1. CASE UNCHANGED <<dbg_vars, paused>>
  BY <1>1
<1>2. CASE update \/ LoopTail \/ UNCHANGED vars \/ LoopHead \/ ClockApu \/ ClockDma \/ GrabDma \/ reset
  BY <1>1, <1>2 DEF update, LoopTail, vars, LoopHead, ClockApu, ClockDma, GrabDma, reset
<1>3. CASE toggle_pause \/ DebuggerButtons
  BY <1>3, EmulatorAssumption DEF toggle_pause, DebuggerButtons, D!resume, D!request_break, D!Modes, D!Breaks
<1>4. CASE ClockCpu
  BY <1>4 DEF ClockCpu, Execute, D!on_cpu_fetch, D!Modes, D!Breaks
<1>5. CASE CatchException \/ ClockPpu
  BY <1>5 DEF CatchException, D!break_now, ClockPpu, D!on_ppu, D!Modes, D!Breaks
<1> QED
  BY <1>2, <1>3, <1>4, <1>5, EveryStep

(* Every variable of the machine keeps its type.                           *)
THEOREM TypeCorrect == Spec => []TypeOK
<1>1. Spec => [](P!TypeOK /\ A!TypeOK /\ C!TypeOK)
  BY PpuRefined, PpuSafe, ApuRefined, ApuSafe, CpuRefined, CpuSafe, PTL
     DEF PpuImplemented, ApuImplemented, CpuImplemented
<1>2. Spec => []Switches
  BY InitSwitches, NextSwitches, PTL DEF Spec
<1>3. P!TypeOK /\ A!TypeOK /\ C!TypeOK /\ Switches /\ ClockInv /\ Typed /\ TransferInv => TypeOK
  BY DEF Switches, ClockInv, Places, Counters, Typed, TransferInv, Counted, TypeOK
<1> QED
  BY <1>1, <1>2, <1>3, ClockAlways, TransferAlways, PTL

-----------------------------------------------------------------------------
(* ApuInStep (emulator.cpp 176-194): each iteration clocks the audio unit  *)
(* and the CPU, or neither, when no opcode is unknown.                     *)
THEOREM ApuStaysInStep == Spec => []ApuInStep
<1> DEFINE InStep == odd_cycle <=> (cpu_cycle + (IF phase = "cpu" THEN 1 ELSE 0)) % 2 = 1
<1>1. Init => ApuInStep
  BY DEF Init, A!Init, C!Init, ApuInStep
<1>2. Shared /\ Typed /\ A!TypeOK /\ ApuInStep /\ [Next]_vars => ApuInStep'
  <2> SUFFICES ASSUME Shared, Typed, A!TypeOK, InStep, [Next]_vars,
                      \A i \in Instr : i.op # "ukn"
               PROVE  InStep'
    BY DEF ApuInStep
  <2>0. odd_cycle \in BOOLEAN /\ cpu_cycle \in 0..(CycleMod - 1)
    BY DEF A!TypeOK, Typed, Counters
  <2>1. CASE UNCHANGED <<odd_cycle, cpu_cycle>> /\ (phase = "cpu" <=> phase' = "cpu")
    BY <2>1
  <2>2. CASE update \/ LoopTail \/ toggle_pause \/ DebuggerButtons \/ UNCHANGED vars
             \/ LoopHead \/ GrabDma \/ ClockPpu
    BY <2>1, <2>2 DEF update, LoopTail, toggle_pause, DebuggerButtons, vars, LoopHead,
       GrabDma, ClockPpu, apu_vars, cpu_vars
  <2>3. CASE ClockApu
    <3>1. odd_cycle' = ~odd_cycle /\ UNCHANGED cpu_cycle /\ phase = "apu" /\ phase' = "cpu"
      BY <2>3 DEF ClockApu, A!step, A!Sequence, cpu_vars
    <3>2. cpu_cycle % 2 = 1 <=> ~((cpu_cycle + 1) % 2 = 1)
      BY <2>0, CycleModEven
    <3>3. cpu_cycle + 0 = cpu_cycle
      BY <2>0, CycleModEven
    <3>4. InStep <=> (odd_cycle <=> cpu_cycle % 2 = 1)
      BY <3>1, <3>3
    <3>5. InStep' <=> (odd_cycle' <=> (cpu_cycle' + 1) % 2 = 1)
      BY <3>1
    <3> QED
      BY <2>0, <3>1, <3>2, <3>4, <3>5
  <2>4. ~CatchException
    BY DEF CatchException, C!throw
  <2>5. ASSUME phase = "cpu", phase' = "grab", cpu_cycle' = C!NextCycle, UNCHANGED odd_cycle
        PROVE  InStep'
    <3>1. (cpu_cycle + 1) % 2 = 1 <=> C!NextCycle % 2 = 1
      BY <2>0, CycleModEven DEF C!NextCycle
    <3>2. C!NextCycle + 0 = C!NextCycle
      BY <2>0, CycleModEven DEF C!NextCycle
    <3> QED
      BY <2>5, <3>1, <3>2
  <2>6. ASSUME ApuAccess PROVE UNCHANGED odd_cycle
    BY <2>6 DEF ApuAccess, A!Access, A!write_halt, A!write_length, A!write_control,
       A!write_frame_counter, A!read_status, A!seq_vars, apu_vars
  <2>7. CASE ClockCpu
    <3>1. UNCHANGED odd_cycle
      BY <2>6, <2>7, ExecuteOnBus DEF ClockCpu, apu_vars
    <3>2. cpu_cycle' = C!NextCycle
      BY <2>7 DEF ClockCpu, Execute, C!step_execute_, C!wait, C!interrupt, C!step_fetch_, C!FetchFor
    <3> QED
      BY <2>5, <2>7, <3>1, <3>2 DEF ClockCpu
  <2>8. CASE ClockDma
    BY <2>5, <2>6, <2>8, CopyOnBus DEF ClockDma, C!dma_clock
  <2>9. CASE reset
    BY <2>9 DEF reset, A!reset, C!reset
  <2> QED
    BY <2>2, <2>3, <2>4, <2>7, <2>8, <2>9, EveryStep
<1>3. Spec => []A!TypeOK
  BY ApuRefined, ApuSafe, PTL DEF ApuImplemented
<1> QED
  BY <1>1, <1>2, <1>3, SharedAlways, TransferAlways, PTL DEF Spec
=============================================================================
