------------------------------ MODULE Emulator ------------------------------
(***************************************************************************)
(* The machine as Emulator::update drives it (src/src/emulator.cpp): one   *)
(* PPU dot per iteration, an APU step and a CPU or transfer cycle every    *)
(* third, the bus that connects them, and the user interface that acts     *)
(* between two updates.                                                    *)
(*                                                                         *)
(* phase is the place in update() that is reached; "idle" is outside it.   *)
(* A cartridge is loaded (is_ready() holds): read_rom ends with reset().   *)
(***************************************************************************)
EXTENDS Integers

CONSTANTS
  LastDot, LastLine, VBlankLine, NmiDot, FrameMod,            \* PPU
  OamSize, LastVisibleLine, FirstClearDot, LastClearDot,      \* OAM
  Channels, UninitHalted, Lengths,                            \* APU
  SEQ_STEP_1, SEQ_STEP_2, SEQ_STEP_3, SEQ_STEP_4, SEQ_STEP_5,
  Instr, CycleMod,                                            \* CPU
  Breakpoints,  \* the instructions at whose fetch a breakpoint matches
  Buttons       \* the break buttons of the debugger window the user presses

VARIABLES
  scanline, ppu_cycle, frame, vblank, is_in_vblank, suppress_vblank,
  frame_done, nmi_enabled, rendering,
  oam, oamaddr, dma_requested, dma_page_idx,
  apu_cycle, odd_cycle, five_steps_sequence, irq_inhibit, frame_irq,
  sequencer_change_delay, len_enabled, len_halted, len_counter,
  state, idle_ticks, cpu_cycle, int_disable, instr,
  nmi_requested, irq_requested,
  mode, requested_mode,
  cycle,              \* Emulator::cycle_, modulo 3 * CycleMod
  dma_cycle_counter,  \* dma_cycle_counter_
  paused,             \* paused_
  phase

ppu_vars == <<scanline, ppu_cycle, frame, vblank, is_in_vblank,
              suppress_vblank, frame_done, nmi_enabled, rendering>>
oam_vars == <<oam, oamaddr, dma_requested, dma_page_idx>>
apu_vars == <<apu_cycle, odd_cycle, five_steps_sequence, irq_inhibit, frame_irq,
              sequencer_change_delay, len_enabled, len_halted, len_counter>>
cpu_vars == <<state, idle_ticks, cpu_cycle, int_disable, instr>>
lines == <<nmi_requested, irq_requested>>
dbg_vars == <<mode, requested_mode>>
emu_vars == <<cycle, dma_cycle_counter, paused>>
vars == <<ppu_vars, oam_vars, apu_vars, cpu_vars, lines, dbg_vars, emu_vars, phase>>

P == INSTANCE PPU
O == INSTANCE OAM
A == INSTANCE APU
C == INSTANCE CPU
D == INSTANCE Debugger

ASSUME EmulatorAssumption ==
  /\ P!PPUConstants /\ O!OAMConstants /\ A!APUConstants /\ C!CPUConstants
  /\ Channels \subseteq {"pulse1", "pulse2", "triangle", "noise"}
  /\ Lengths = {A!length_table[k] : k \in 1..32}
  /\ Breakpoints \subseteq Instr
  /\ Buttons \subseteq D!Breaks

Phases == {"idle", "while", "apu", "cpu", "grab", "ppu", "advance"}

TypeOK ==
  /\ P!TypeOK /\ O!TypeOK /\ A!TypeOK /\ C!TypeOK /\ D!TypeOK
  /\ cycle \in 0..(3 * CycleMod - 1)
  /\ dma_cycle_counter \in 0..(2 * OamSize + 2)
  /\ paused \in BOOLEAN
  /\ phase \in Phases

Init ==
  /\ P!Init /\ O!Init /\ A!Init /\ C!Init /\ D!Init
  /\ cycle = 0 /\ dma_cycle_counter = 0
  /\ paused = FALSE
  /\ phase = "idle"

-----------------------------------------------------------------------------
(* BUS::read_cpu and BUS::write_cpu: the first unit that claims the        *)
(* address has it; RAM, cartridge and controller accesses change nothing   *)
(* that is modelled here.                                                  *)

PPUCTRL == 8192
PPUMASK == 8193
PPUSTATUS == 8194
OAMADDR == 8195
OAMDATA == 8196
OAMDMA == 16404
SND_CHN == 16405
FRAME_COUNTER == 16407

(* The eight PPU registers are mirrored up to $3FFF.                       *)
Register(addr) == IF 8192 <= addr /\ addr <= 16383 THEN 8192 + (addr % 8) ELSE addr

Bit(value, n) == (value \div 2^n) % 2 = 1

ChannelIndex == [pulse1 |-> 0, pulse2 |-> 1, triangle |-> 2, noise |-> 3]
HaltRegister(c) == 16384 + 4 * ChannelIndex[c]
LengthRegister(c) == HaltRegister(c) + 3
HaltBit(c) == IF c = "triangle" THEN 7 ELSE 5

read_cpu(addr) ==
  CASE Register(addr) = PPUSTATUS ->
         P!read_ppustatus /\ UNCHANGED apu_vars
    [] addr = SND_CHN ->
         A!read_status /\ UNCHANGED <<ppu_vars, nmi_requested>>
    [] OTHER -> UNCHANGED <<ppu_vars, apu_vars, nmi_requested>>

WritePpu(reg, value) ==
  \/ reg = PPUCTRL /\ P!write_ppuctrl(Bit(value, 7)) /\ UNCHANGED oam_vars
  \/ reg = PPUMASK /\ P!write_ppumask(Bit(value, 3) \/ Bit(value, 4)) /\ UNCHANGED oam_vars
  \/ reg = OAMADDR /\ O!write_oamaddr(value) /\ UNCHANGED <<ppu_vars, nmi_requested>>
  \/ reg = OAMDATA /\ O!write_oamdata /\ UNCHANGED <<ppu_vars, nmi_requested>>
  \/ reg = OAMDMA /\ O!write_oamdma(value) /\ UNCHANGED <<ppu_vars, nmi_requested>>

WriteApu(addr, value) ==
  \/ /\ addr = SND_CHN
     /\ A!write_control({c \in Channels : Bit(value, ChannelIndex[c])})
  \/ /\ addr = FRAME_COUNTER
     /\ A!write_frame_counter(Bit(value, 7) \/ Bit(value, 5) \/ Bit(value, 4), Bit(value, 6))
  \/ \E c \in Channels :
       \/ addr = HaltRegister(c) /\ A!write_halt(c, Bit(value, HaltBit(c)))
       \/ addr = LengthRegister(c) /\ A!write_length(c, A!length_table[1 + value \div 8])

ApuRegisters ==
  {SND_CHN, FRAME_COUNTER} \cup {HaltRegister(c) : c \in Channels}
                           \cup {LengthRegister(c) : c \in Channels}

write_cpu(addr, value) ==
  CASE Register(addr) \in {PPUCTRL, PPUMASK, OAMADDR, OAMDATA, OAMDMA} ->
         WritePpu(Register(addr), value) /\ UNCHANGED apu_vars
    [] addr \in ApuRegisters ->
         WriteApu(addr, value) /\ UNCHANGED <<ppu_vars, oam_vars, nmi_requested>>
    [] OTHER -> UNCHANGED <<ppu_vars, oam_vars, apu_vars, nmi_requested>>

-----------------------------------------------------------------------------
(* Emulator::update                                                        *)

is_stepping == ~paused /\ ~D!is_debugging

update ==
  /\ phase = "idle" /\ is_stepping
  /\ phase' = "while"
  /\ UNCHANGED <<ppu_vars, oam_vars, apu_vars, cpu_vars, lines,
                 dbg_vars, emu_vars>>

(* Each definition named for a slip is a wrong version of the one that      *)
(* follows it; a run whose property would not notice it checks nothing.    *)
FrameSeenOnCpuCycles ==
  /\ phase = "while"
  /\ IF cycle % 3 = 0 THEN P!grab_frame_done ELSE UNCHANGED <<ppu_vars, nmi_requested>>
  /\ phase' = IF cycle % 3 # 0 THEN "ppu" ELSE IF frame_done THEN "idle" ELSE "apu"
  /\ UNCHANGED <<oam_vars, apu_vars, cpu_vars, irq_requested, dbg_vars, emu_vars>>

FrameNotSeen ==
  /\ phase = "while"
  /\ P!grab_frame_done
  /\ phase' = IF cycle % 3 = 0 THEN "apu" ELSE "ppu"
  /\ UNCHANGED <<oam_vars, apu_vars, cpu_vars, irq_requested, dbg_vars, emu_vars>>

(* The condition of the loop: a frame that is done ends the update.        *)
LoopHead ==
  /\ phase = "while"
  /\ P!grab_frame_done
  /\ phase' = IF frame_done THEN "idle" ELSE IF cycle % 3 = 0 THEN "apu" ELSE "ppu"
  /\ UNCHANGED <<oam_vars, apu_vars, cpu_vars, irq_requested, dbg_vars, emu_vars>>

(* clock_cpu_: the APU first,                                              *)
ClockApu ==
  /\ phase = "apu"
  /\ A!step
  /\ phase' = "cpu"
  /\ UNCHANGED <<ppu_vars, oam_vars, cpu_vars, nmi_requested, dbg_vars, emu_vars>>

(* then a CPU step when no transfer is under way,                          *)
Execute ==
  /\ C!step_execute_
  /\ CASE instr.op = "load" -> read_cpu(instr.addr) /\ UNCHANGED oam_vars
       [] instr.op = "store" -> write_cpu(instr.addr, instr.val)
       [] OTHER -> UNCHANGED <<ppu_vars, oam_vars, apu_vars, nmi_requested>>
  /\ UNCHANGED <<irq_requested, dbg_vars>>

ClockCpu ==
  /\ phase = "cpu" /\ dma_cycle_counter = 0
  /\ \/ Execute
     \/ /\ \/ (C!wait \/ C!interrupt) /\ UNCHANGED dbg_vars
           \/ \E i \in Instr : C!step_fetch_(i) /\ D!on_cpu_fetch(i \in Breakpoints)
        /\ UNCHANGED <<ppu_vars, oam_vars, apu_vars>>
  /\ phase' = "grab"
  /\ UNCHANGED emu_vars

(* which an unknown opcode leaves, and update() with it, by an exception;  *)
CatchException ==
  /\ phase = "cpu" /\ dma_cycle_counter = 0
  /\ \E i \in Instr : C!throw(i)
  /\ D!break_now
  /\ phase' = "idle"
  /\ UNCHANGED <<ppu_vars, oam_vars, apu_vars, emu_vars>>

(* or else a cycle of the transfer, which copies on the even counts from   *)
(* 2 * OamSize down; the index is a byte, so count 0 copies cell 0 again.  *)
DmaIndex(counter) == IF counter < 2 THEN 0 ELSE OamSize - counter \div 2
CopiesOneTooFew(counter) == counter % 2 = 0 /\ counter \in 3..(2 * OamSize)
CopiesAt(counter) == counter % 2 = 0 /\ counter <= 2 * OamSize

ClockDma ==
  /\ phase = "cpu" /\ dma_cycle_counter > 0
  /\ dma_cycle_counter' = dma_cycle_counter - 1
  /\ IF CopiesAt(dma_cycle_counter')
     THEN /\ O!dma_copy_byte(DmaIndex(dma_cycle_counter'))
          /\ read_cpu(256 * dma_page_idx + DmaIndex(dma_cycle_counter'))
     ELSE UNCHANGED <<oam_vars, ppu_vars, apu_vars>>
  /\ C!dma_clock
  /\ phase' = "grab"
  /\ UNCHANGED <<dbg_vars, cycle, paused>>

(* and last the start of a transfer the program has requested.             *)
DmaCyclesUnaligned == 2 * OamSize + 1

DmaCycles == 2 * OamSize + 1 + (cpu_cycle % 2)

GrabDma ==
  /\ phase = "grab"
  /\ O!grab_dma_request
  /\ dma_cycle_counter' = IF dma_requested THEN DmaCycles ELSE dma_cycle_counter
  /\ phase' = "ppu"
  /\ UNCHANGED <<ppu_vars, apu_vars, cpu_vars, lines, dbg_vars, cycle, paused>>

(* clock_ppu_                                                              *)
ClockPpu ==
  /\ phase = "ppu"
  /\ O!fg_eval_(scanline, ppu_cycle, rendering)
  /\ P!tick_
  /\ D!on_ppu(P!LineEnds, P!FrameEnds)
  /\ phase' = "advance"
  /\ UNCHANGED <<apu_vars, cpu_vars, irq_requested, emu_vars>>

(* The rest of the iteration: count it, and leave if the debugger broke.   *)
LoopTail ==
  /\ phase = "advance"
  /\ cycle' = IF cycle = 3 * CycleMod - 1 THEN 0 ELSE cycle + 1
  /\ phase' = IF D!is_debugging THEN "idle" ELSE "while"
  /\ UNCHANGED <<ppu_vars, oam_vars, apu_vars, cpu_vars, lines,
                 dbg_vars, dma_cycle_counter, paused>>

Loop ==
  \/ LoopHead \/ ClockApu \/ ClockCpu \/ CatchException \/ ClockDma
  \/ GrabDma \/ ClockPpu \/ LoopTail

-----------------------------------------------------------------------------
(* The user interface: the main loop handles it between two updates.       *)

ResetWithoutCpu ==
  /\ phase = "idle"
  /\ A!reset /\ P!reset /\ O!reset
  /\ cycle' = 0 /\ dma_cycle_counter' = 0
  /\ UNCHANGED <<cpu_vars, lines, dbg_vars, paused, phase>>

ResetLinesOnly ==
  /\ phase = "idle"
  /\ C!ClearLines /\ A!reset /\ P!reset /\ O!reset
  /\ cycle' = 0 /\ dma_cycle_counter' = 0
  /\ UNCHANGED <<cpu_vars, dbg_vars, paused, phase>>

reset ==
  /\ phase = "idle"
  /\ C!reset /\ A!reset /\ P!reset /\ O!reset
  /\ cycle' = 0 /\ dma_cycle_counter' = 0
  /\ UNCHANGED <<dbg_vars, paused, phase>>

toggle_pause ==
  /\ phase = "idle"
  /\ IF D!is_debugging THEN paused' = FALSE /\ D!resume
     ELSE paused' = ~paused /\ UNCHANGED dbg_vars
  /\ UNCHANGED <<ppu_vars, oam_vars, apu_vars, cpu_vars, lines,
                 cycle, dma_cycle_counter, phase>>

DebuggerButtons ==
  /\ phase = "idle"
  /\ \/ \E m \in Buttons : D!request_break(m)
     \/ D!is_debugging /\ D!resume
  /\ UNCHANGED <<ppu_vars, oam_vars, apu_vars, cpu_vars, lines,
                 emu_vars, phase>>

UserInterface == reset \/ toggle_pause \/ DebuggerButtons

Next == update \/ Loop \/ UserInterface

Spec == Init /\ [][Next]_vars

(* A started update runs on, and the main loop calls update() again and    *)
(* again.                                                                  *)
FairSpec == Spec /\ WF_vars(update) /\ WF_vars(Loop)
-----------------------------------------------------------------------------
(* The machine drives each unit the way the unit's own specification       *)
(* allows: what the other units, the bus and the user do to it is one of   *)
(* the environment steps its properties were checked against.              *)
PpuImplemented == P!Spec
ApuImplemented == A!Spec
CpuImplemented == C!Spec

(* Dots counted once the iteration under way is counted.                   *)
DotsDue == IF phase \in {"grab", "ppu", "advance"} THEN cycle + 1 ELSE cycle

(* Three dots per CPU cycle, for ever: the CPU's cycle counter is a third  *)
(* of the dot counter rounded up (the second case is its wrap), across OAM *)
(* transfers, breaks, resets and the exceptions of unknown opcodes.        *)
ThreeDotsPerCycle ==
  \/ 3 * cpu_cycle \in DotsDue..(DotsDue + 2)
  \/ cpu_cycle = 0 /\ DotsDue > 3 * (CycleMod - 1)

(* The APU is clocked once per CPU cycle, so its odd cycles are the CPU's  *)
(* odd cycles - unless an unknown opcode threw between the two clocks.     *)
ApuInStep ==
  (\A i \in Instr : i.op # "ukn") =>
    (odd_cycle <=> (cpu_cycle + (IF phase = "cpu" THEN 1 ELSE 0)) % 2 = 1)

(* An update never runs into the next frame: a frame that is done is       *)
(* reported before any unit is clocked again, also when a break or a reset *)
(* left the flag up for a later update.                                    *)
FrameNotOverrun == phase \in {"apu", "cpu", "grab", "ppu"} => ~frame_done

(* A transfer reads and writes on the same parity of CPU cycles whatever   *)
(* cycle it was requested on: 513 or 514 cycles make it end aligned, and   *)
(* no second request can come while it runs.                               *)
TransferAligned ==
  dma_cycle_counter > 0 => (cpu_cycle + dma_cycle_counter) % 2 = 1 /\ ~dma_requested

(* During a transfer the cells up to the one being copied hold the         *)
(* requested page: nothing the CPU, the PPU or the user does between two   *)
(* copies disturbs them.                                                   *)
TransferPrefix ==
  dma_cycle_counter > 0 =>
    \A i \in O!Cells : 2 * i + dma_cycle_counter <= 2 * OamSize => oam[i] = dma_page_idx

(* When a transfer ends, every cell of object memory holds the page that   *)
(* was requested, the one copied first and copied again last included.     *)
TransferComplete ==
  [][phase = "cpu" /\ dma_cycle_counter = 1 =>
       dma_cycle_counter' = 0 /\ \A i \in O!Cells : oam'[i] = dma_page_idx]_vars

(* An NMI the PPU pulled is answered by its handler or wiped by a reset,   *)
(* and by nothing else: no transfer, break, exception, register access or  *)
(* simultaneous frame interrupt loses it.                                  *)
NmiLatched ==
  [][nmi_requested /\ ~nmi_requested' => C!interrupt \/ reset]_vars

(* The vblank flag the program sees, in the whole machine.                 *)
VBlankWindow == P!VBlankWindow

(* The NES_ASSERT and the 8-bit counter of CPU::step, in the whole machine.*)
IdleTicks == C!IdleTicks

(* The same for the status bits of the length counters.                    *)
DisabledSilent == A!DisabledSilent

(* Every update() returns: a frame ends, or the debugger breaks.           *)
UpdateReturns == phase # "idle" ~> phase = "idle"

(* A pulled NMI is served while the machine runs, also behind a transfer.  *)
NmiServed == nmi_requested ~> (~nmi_requested \/ ~is_stepping)

(* A requested break is reached, unless the user pauses, resumes or keeps  *)
(* resetting the machine.                                                  *)
BreakReached ==
  <>[][~reset]_vars =>
    (requested_mode # "running" ~>
       (D!is_debugging \/ paused \/ requested_mode = "running"))
=============================================================================
