# Verification of nesemul

nesemul is a single-threaded NES emulator: one loop clocks a picture unit (PPU), an audio unit (APU) and a
6502 CPU at fixed ratios, a bus connects them to each other and to a cartridge, and a user interface acts between two
frames. This directory holds TLA+ models of that machine, TLC configurations that check them on small instances,
and TLAPS proofs of their main properties for every instance. All paths below are relative to the repository's root.

## 1. Inventory

| Component | Source | State | Operations | What makes it correct |
|---|---|---|---|---|
| PPU timing | `src/ppu.cpp` 7-65, 138-153, 477-546 | dot and line counters, frame parity, vblank flag, suppression, end-of-frame flag, NMI enable | `tick_`, reads of PPUSTATUS, writes of PPUCTRL and PPUMASK, `grab_frame_done`, `reset` | vblank is visible only in its window; NMIs come back and not twice; frames have their length |
| PPU object memory | `src/ppu.cpp` 67-76, 122-131, 218-225, 339-402 | 256 bytes, OAMADDR, a requested transfer | OAMADDR, OAMDATA, OAMDMA writes, `dma_copy_byte` | a transfer fills every cell with the requested page |
| PPU video memory | `src/ppu.cpp` 78-216, 227-337, 595-636 | cursor, temporary cursor, write toggle, read buffer, name tables, palettes | PPUSCROLL, PPUADDR, PPUDATA, the scroll steps of `bg_eval_` | addresses and mirrors stay inside the tables; the toggle pairs the writes; what is written is read back |
| PPU pixels | `src/ppu.cpp` 255-337, 339-475, 548-583 | shift registers, the double buffer of a line's sprites, hit and overflow flags, the picture | `bg_eval_`, `fg_eval_`, `render_` | a line shows the sprites looked up for it; the hit is the first sprite's |
| APU | `src/apu.cpp` | sequencer position and mode, pending mode change, frame interrupt, length counters | `step`, register reads and writes, `reset` | interrupts only when justified; counters expire; a disabled channel is silent |
| CPU control | `src/cpu.cpp` 44-292 | state, idle ticks, cycle, interrupt-disable flag, two interrupt lines | `step`, `reset`, `pull_nmi`, `pull_irq`, `dma_clock` | each instruction lasts its cycles; an NMI is never lost; the idle counter never wraps |
| CPU execution | `src/cpu.cpp` 294-1051, `src/ops.cpp` | A, X, Y, SP, PC, status | the opcodes and addressing modes | each opcode computes what its documentation says; a return comes back where it left, with what was saved |
| Bus and RAM | `src/bus.cpp`, `src/ram.h` | 2 KiB of RAM | reads and writes: the first unit that claims the address answers | every address has one owner |
| Controller | `src/controller.*` | buttons, a read position | strobe write, serial reads | eight reads after a strobe give the eight buttons in order |
| Cartridge and mappers | `src/cartridge.*`, `src/mappers/*` | bank windows, the MMC1's latch and control register | reads, writes, bank switches | windows always point into the ROM |
| Battery | `src/battery.*` | 8 KiB of saved RAM and its file | load, save, read, write | what a game saved is what it reads back |
| ROM loading | `src/ines.*`, `src/emulator.cpp` 34-93 | header, the cartridge and who refers to it | `read_rom`, `reset` | nobody keeps a pointer to a cartridge that is gone |
| Emulator loop | `src/emulator.cpp` 95-210, `exe/main.cpp` | iteration counter, transfer countdown, pause | `update`, `clock_cpu_`, `clock_ppu_`, `reset`, `toggle_pause` | three dots per CPU cycle; every update returns; transfers are aligned and complete |
| Debugger | `src/debugger.*` | mode, requested mode, breakpoints | `request_break`, `break_now`, `resume`, `on_cpu_fetch`, `on_ppu` | a requested break is reached |
| Disassembler | `src/disassembler.*`, `src/ui/imgui_debugger.cpp` | decoded instructions per bank | `load`, `get_op`, `get_idx` | address and index are inverses; lookups stay inside the tables |
| Settings | `src/settings/*`, `src/ui/global.cpp` 13-120 | recent files, and the file they are kept in | parse, serialise, `push_recent_file` | the menu has the files last loaded, also after a restart |
| Frontend | `src/sfml_renderer.*`, `src/ui/*`, `src/clock.*`, `src/platform/*` | windows, textures, timers | events, drawing, frame pacing | presentation |

**Interactions.** `main` calls the renderer's event handling, then `Emulator::update` when the machine is not paused
and not stopped in the debugger. `update` clocks the units by direct calls. The CPU reaches the other units only
through `BUS::read_cpu` and `BUS::write_cpu`; the PPU and the APU reach the CPU only through `pull_nmi` and `pull_irq`,
which set flags the CPU's next fetch reads. The debugger is called back at every fetch and every dot.
The user interface calls `reset`, `toggle_pause`, `read_rom` and the debugger between two updates, never inside one.

**What is hard.** There are no threads, but the units interleave at the granularity of a dot: a register
access can fall on any dot, an interrupt on any cycle of any instruction, a transfer between any two steps, a reset or a
break between any two updates; an unknown opcode leaves the loop by an exception in the middle of an iteration. The
failures such code has are a flag cleared too early or too late by one dot, an interrupt lost or doubled, a
countdown one cycle off, a unit left out of a reset, a counter of eight bits that wraps. `PROJECT.json` lists them
as hazards, each at its line.

## 2. Modules

| Module | Models | Correspondence |
|---|---|---|
| `PPU` | dot clock, vblank, NMI line (`ppu.cpp`, `ppu.h`) | a variable per member; `tick_` is one dot, the other actions are the registers, `grab_frame_done` and `reset`; `Environment` is what the CPU may do |
| `OAM` | object memory and the transfer request | a cell holds the number of the page its byte came from; no specification of its own, its actions are used by `Emulator` |
| `APU` | frame sequencer, frame interrupt, length counters (`apu.cpp`) | `step` is one CPU cycle: a frame clock every other cycle, in the code's order; one action per register; `Registers` is what a program may write or read, `TakeIrq` what a fetch of the CPU does to the line |
| `CPU` | fetch, idle, execute, interrupt entry, instruction timing (`cpu.cpp` 44-292) | one action per call of `CPU::step`, by the branch it takes; an instruction is its kind, address, value and cycles (`instr_.time`); page and branch extras are instructions of their own length |
| `Debugger` | break modes (`debugger.cpp`) | the callbacks as operators, called by `Emulator`; a breakpoint is the set of instructions that match it |
| `Emulator` | `Emulator::update`, the bus, `reset`, pause, the debugger's buttons | composes the five modules above by `INSTANCE`; `phase` is the place in `update` between two clocked units |
| `ALU` | registers, flags and the byte addressed under every opcode (`cpu.cpp` 294-1051) | one action per group of opcodes of `exec_`; bytes have `2 * Half` values, the code's `Half` is 128 |
| `Stack` | the stack page (`cpu.cpp` 451-493) | pushes and pulls of bytes and addresses as functions of the page and the pointer, which wrap |
| `Program` | calls, handlers, branches and the status of a program (`cpu.cpp` 73-140, 216-292, 306-443, `ops.cpp`) | a text of a few instructions, one action per opcode that moves the program counter, the stack or the I flag; interrupts at any instruction |
| `Calls` | what a program counts on: frames put aside and given back, last first, with no page and no pointer | abstract: refined by `Execution` (`CallsImplemented`) |
| `Addressing` | the addressing modes and the cycles they cost (`cpu.cpp` 141-214, 521-567) | one operator per function |
| `Cursor` | `cursor_` with its ports and its scroll steps (`ppu.cpp`) | the fields of `v`, `t`, `w` as in `PPU_State::Cursor`; one action per dot and per port |
| `NameTables` | `mirror_addr_` and the bus's video side | one operator per step of the function |
| `VideoMemory` | the bytes behind PPUDATA (`ppu.cpp` 115-120, 159-216) | a cell per place in the tables or the palette, the read buffer, the mirroring; the mirroring may be switched at any time |
| `Sprites` | `fg_eval_`, `render_`'s sprites and `SecondaryOAM` | `step` is one column or the rest of a line; the two halves, the flags; program writes between any two steps |
| `CpuMap` | the bus's CPU side, the windows of the program and the address the debugger shows | who claims a read or a write; the place an address names; `map_to_cpu_addr` is the cartridge's, with 0 below 0x4020, over the mapper's |
| `M001` | mapper 1 (`mappers/001.cpp`) | a window is the number of the bank or page it shows; one operator per function |
| `Cartridge` | `read_rom`, the battery and its file, the end of `main` | the memory at 0x6000 as places; a file as a prefix of a memory; a save that is there may fail to be read (`readable`) |
| `Controller` | `controller.cpp` | the pressed buttons as a set, the read position |
| `RecentFiles` | the list of recent files and the settings file (`ui/global.cpp`, `settings/serializer.cpp` 10-50) | starts, loads, clean ends, kills, a file that is empty, torn, removed, or does not open |
| `MCPPU`, `MCAPU`, `MCCPU`, `MCCursor`, `MCM001`, `MCSprites`, `MCVideoMemory`, `MCProgram` | history variables for properties that count or remember | they extend a module and only watch: every step of the module is a step of theirs. `MCProgram` also keeps to a program's discipline (it takes off what it put on): it remembers what is outstanding, how deep the stack is under each frame, and where the stack began (`bottom`) |
| `MCEmulator`, `MCALU` | the programs and the values of the runs | |
| `Execution` | `ALU` and `MCProgram` side by side | a behaviour follows one with the other at rest; `CallsImplemented` and `OpenedByProgram` |
| `MCExecution` | the text of the program that `CPU_Execution` runs | also evaluates the theorems on addressing modes |
| `MCDevices` | mapper, cartridge, controller, recent files, sprites and video memory side by side | they share no state, so a behaviour follows one with the others at rest |
| `*_proofs` | theorems | one module per component (`Execution_proofs` for `ALU` and `Program`), one for the bus and one for the devices on it; `Emulator_proofs` takes the theorems of the components through the refinements |

A definition whose comment or name says it is a slip (`FetchOneTickMore`, `PullNmiLate`, ...) is a wrong version of the one
that follows it. It is used nowhere: put in the other's place it shows which property notices that mistake.

**What the models keep and leave out.** Counters, flags, guards and their order are the code's. Bytes are abstracted to
what the properties tell apart. In `Emulator` a program is a set of instructions executed in any order, so a result holds
for every program made of them; `Program` has a text. Between two updates the user may do anything the windows offer, at any time.
In `Emulator` an execution makes at most one bus access; of addressing modes only the cycles are kept.

## 3. Runs

| Run | Shows | Bounds |
|---|---|---|
| `MCPPU_Registers` | vblank only in its window, at most one NMI per vblank plus one per enabling write, frames of their exact length, NMIs coming back | 7 dots, 5 lines, vblank on the third: two dots before, between and after each event, an odd and an even frame; NMI counts saturate at 2, above the bound of 1 plus enables |
| `MCPPU_StaleSuppress` | the first finding below | the same geometry |
| `MCAPU_Registers` | disabled channels silent, the sequencer in its mode's range, interrupts requested only when justified and never twice in a sequence, counters that run out and an interrupt that comes back once the registers are left alone, while interrupts go on being taken | two channels (one with an uninitialised halt flag), two lengths, steps 1 to 4 and 6, so the five-step sequence has the gap the code's has; `quiet`, the cycles since the last request, saturates at one whole sequence |
| `APU_Delay` | the second finding below | the same, without `quiet` |
| `MCCPU_Timing` | each instruction lasts its cycles and an entry 7, the idle counter never wraps, no NMI is lost | the shortest (2) and the longest (8) instruction, each effect on the I flag, an unknown opcode; both lines raised at any cycle |
| `Emulator_Transfer` | transfers end on the aligned cycle and complete | three cells, so a first, a middle and a last one; pages of RAM and of the PPU's registers, whose copies have side effects; OAMDATA writes, breaks and resets |
| `Emulator_Video` | the machine drives PPU and CPU as their specifications allow; three dots per cycle; no frame is overrun | 5 dots, 3 lines, transfers of one cell, a program with every video register, a breakpoint and an unknown opcode |
| `Emulator_Audio` | the machine drives the APU as its specification allows | one channel, all 32 lengths, all values of the frame counter register that differ |
| `Emulator_Live` | every update returns, a pulled NMI is served, a requested break is reached | a program with what can delay or end an update: a transfer, an NMI, an unknown opcode; all break modes |
| `CPU_Execution` | additions, subtractions and comparisons exact with carry and overflow, rotations inverses, flags that describe the register changed; a program is given back what it put aside (`CallsImplemented`, the refinement of `Calls`), and interrupts are let in only where the running code let them in | bytes of three bits, every state and opcode: the sign and carry logic is that of any width. The program has a subroutine, saved bytes and status, a BRK, a branch, an unknown opcode, and an NMI and an IRQ handler; the stack page has eight bytes and is used up to eight, from every start of the pointer, so each pair of bytes wraps somewhere and handlers nest twice |
| `MCCursor_Scroll` | lines and pictures are drawn from the scroll they were started with; the mirroring theorems on samples | two columns, two rows and one attribute row, two fine rows: each carry from field to field happens |
| `MCDevices_Bus` | mapper 1's windows stay in the ROM, registers take on what was sent, also after the machine was reset in a word; 8 KiB programs see whole banks; saves that can be read are found again; the emulator's cartridge is the bus's; controller reports are in order; the menu has the files last loaded, as far back as the settings could be read; a line shows one whole sprite lookup and the hit is the first sprite's; video memory reads back through every mirror; the CPU map at all 65536 addresses | three program banks (an odd number, so that a pair can fail), two character banks; three games, two with batteries (alike, so symmetric); two places and the one the battery leaves out, three bytes, one of which ends a text; four buttons; four files for three entries; three lines of three columns, two sprites of three on a line, small and tall, rows that differ; an address of each table, one through the mirrors, and colours shared and not |

Counters that only grow are kept modulo an even number (`FrameMod`, `CycleMod`): the code uses only their parity, and
`ThreeDotsPerCycle` states the wrap. `Emulator`'s dot counter wraps at `3 * CycleMod`, so `cycle_ % 3` stays right;
in the code it wraps at 2^64, after tens of thousands of years.
Geometry is a constant everywhere; the code's values satisfy the assumptions (dots 0-340, lines -1-260, vblank on 241,
steps 3728, 7456, 11185, 14914, 18640).

**Fairness.** `FairSpec` of `Emulator` asks that a started update goes on (the loop of `emulator.cpp` 114 has no wait in it) and that the
main loop calls `update` again while the machine steps (`main.cpp` 21-32). `PPU` and `APU` assume that their clocks go
on, which every iteration of that loop does, and `APU` that the CPU looks at its lines, which every fetch does. Nothing
is assumed about programs or the user, and the properties say what they must not do (reset for ever, read PPUSTATUS
for ever). `CHECK_DEADLOCK FALSE` is only in `MCDevices_Bus`, where a failed assertion ends the program.

## 4. Proofs

Every theorem holds for every value of the constants that the named assumptions allow (`PPUAssumption`,
`APUAssumption`, `CPUAssumption`, `EmulatorAssumption`, `DevicesAssumption`, ...), all of them evaluated by the runs. They ask for no more
than the code's values have: an ordered geometry, a stack page at least as large as the room programs use of it, flags that are one bit each,
and, of what the environment supplies, its type (pictures are sequences of sprites, instructions have their cycles).
The bounds of histories (`MaxCount`) are any number.

- **PPU**: `TypeOK` and `VBlankWindow`. Types are inductive; the window needs the counters' ranges, because a reset moves the
  position and keeps the flag: it lands on the first dot of the pre-render line, which the window includes. `NmiBudget`: the
  invariant (`BudgetInv`) says that until the pull dot of a vblank is past, every request was paid for by an enabling write; the
  pull itself is the one that is free. `FrameLength`: `DotsInv` gives the dots since the last even frame began as a closed formula of
  the place, the parity and the skipped dot, as long as rendering was not switched; geometries of any size.
- **APU**: `TypeOK`, `DisabledSilent`, `InhibitedQuiet`, `SequencerInMode` and `IrqJustified`. `SequencerInMode` needs the pending change in the
  invariant: the cycles between a write and the restart are the ones it excludes. `IrqJustified` has two halves. At the step that
  pulls the line the flag has just been recomputed, so it is up, uninhibited and in the four-step mode. And the line is never pulled twice
  within a whole sequence: `QuietInv` says that at least as many cycles went by since the last request as the sequence has taken to its
  position, whatever was acknowledged, inhibited, switched or reset since; only the way to a position past the last step is not counted.
- **CPU**: `IInv == TypeOK /\ IdleTicks` is inductive: the idle counter is bounded by the instruction in flight, which is why a
  fetch never finds ticks left over and the 8-bit counter never wraps. `NmiNotLost` follows. `ExactTiming` needs that the cycles
  spent and the ticks left together are the time of the instruction in flight, through a reset and an unknown opcode.
- **Emulator**: the machine implements the specification of each unit (`PpuImplemented`, `ApuImplemented`, `CpuImplemented`): each phase of
  `update`, each bus access and each user action is a step of the unit, an environment step, or a stutter. The units' theorems
  then hold in the machine, with no proof of their own. `ClockInv` (places, counters, three dots per cycle) gives
  `ThreeDotsPerCycle` and `FrameNotOverrun`; `TransferInv` (countdown in range, alignment, copied prefix) gives
  `TransferAligned` and, with the copy at countdown 2, `TransferComplete`, for any size of object memory. `TypeOK`,
  `NmiLatched` and `ApuInStep` are proved too.
- **ALU**: `ArithmeticIsExact` and `RotationsInvert` for bytes of any even half; a comparison agrees with a
  subtraction; N and Z describe every register that changes. `ALUFollowed` takes them to `Execution`.
- **Program**: `CallsImplemented`, the refinement of `Calls`, for any program text, any size of the stack page and any start of the
  pointer. `StackInv` says that the frames outstanding lie one under the other from `bottom` to the pointer, each byte where its
  push stored it, modulo the page, and never more than `Room`; a push writes below all of them and a pull reads the topmost.
  `OpenedByProgram` needs `MaskedFrames`: a handler on the stack gives back a status that masks interrupts, or the code it
  interrupted had let them in.
- **Cursor**: the fields keep their widths, though they are incremented as one number and drawn from one by one.
  `LineScroll` and `PictureScroll`: `LineInv` gives the column the cursor is in as the scroll copied plus the tiles fetched, modulo two
  tables; `PictureInv` gives its line as the scroll copied plus the lines drawn, from the copies of the pre-render line on.
- **Address maps**: every video address has an owner and a cell inside its array, and a mirroring folds exactly the tables it should; no CPU
  access is claimed by two units, so the order in which the bus asks does not matter; what the debugger shows for an address of the cartridge reads the same byte (0 stands for the
  others), and an NROM program has one shown address for each of its bytes. Of the CPU's own
  arithmetic: indexing stays in its page, an extra cycle is paid exactly for a carry, and the stack page gives back what it was given, for bytes of any size.
- **Video memory**: `ReadsBack` for every address and any bytes. `KnownInv` (what a program knows of a place is in its cell, and the
  read buffer is what it last asked for) needs two facts of `mirror_addr_`: places written under a mirroring share cells as the
  mirroring says, and the cells of the first table and of the palette stay where they are when the mirroring is switched.
  `Devices_proofs` takes it to the devices side by side, whose steps are steps of one of them or stutters.
- **Controller**: `ReportInv` (the length of a report is the read position, up to the last button) gives `ReportInOrder` for any
  number of buttons that a byte can count.
- **Cartridge**: `ReadyIsEnough` is inductive. `SavesRestored` needs `KeptInv`: what a game saved last is whole in its file, and while
  a file is open nothing is promised of it, so a kill in the middle of a write breaks no promise. A save that is there and cannot be read
  is the other case of the property: the game finds zeros.
- **Mapper 1**: windows stay in the ROM; `BankInv` (a program that has never set the 4 KiB bit has it clear and sees a whole bank) gives
  `WholeBank`; `SentInv` (the latch is the number sent so far, its lowest bit first) gives `SerialOrder`.
- **Recent files**: `RecentInv` gives `RecentFirst`: the list is the beginning of the sequence of loads, each path once, also where a path that
  has dropped off the list comes back; the file has the same beginning as what was remembered when it was last whole, and while it is
  being written nothing is remembered. A start that cannot open the file begins with no list and no loads; the file keeps its own.
- **Sprites**: `HalvesInv` follows the two halves of the double buffer: the one that is stored is empty from the exchange to the lookup and
  holds exactly that lookup until the next exchange, on which line that is, and the one that is read holds the lookup that is shown.
  `HoldsShows` is the search of `render_` against the reference: the first opaque entry of a half is the first sprite in object memory
  that is opaque there. `SpritesOfLine` and `SpriteZeroHit` follow, for any number of sprites, room on a line and size of the picture. Both need
  that a set of numbers has a least member and a k-th one (`Least`, `Nth`), which stand in for induction: they come from the
  library's theorem that the subsets of a finite set are well-founded.

Only model-checked: liveness, since fairness and `ENABLED` are out of the prover's reach: `NmiRecurs`, `LengthsExpire`,
`FrameIrqRecurs`, `UpdateReturns`, `NmiServed` and `BreakReached`. Every other property of a passing run is proved.
Where a proof needed it, a definition by a fold or a selection was written as a function of positions (`Program`'s flags, the depth in
`MCProgram`, `MovedToFront` in `RecentFiles`, `Chosen` in `Sprites`): what a recursive definition computes for every input is out of reach.
Proved and in no run of its own: the type invariants of `PPU`, `APU`, `CPU` and `Emulator`, `InhibitedQuiet`, `ApuInStep`, `NmiLatched`, `TransferPrefix`,
and those on address maps, stack and addressing, which `MCCursor`, `MCDevices` and `MCExecution` evaluate as assumptions.

## 5. Findings

1. **A late suppression eats the next vblank** (`ppu.cpp` 150, run `MCPPU_StaleSuppress`). Reading PPUSTATUS at dot 1 of
   the vblank line, after the flag went up, leaves `suppress_vblank_` set; nothing clears it until the next frame's vblank,
   which is swallowed. The comment at 482 says the flag is set at that dot. `NmiRecurs` shows that the damage ends.
2. **The frame counter's delay is always 1** (`apu.cpp` 147, run `APU_Delay`): `3 + (odd_cycle_) ? 1 : 0` is
   `(3 + odd_cycle_) ? 1 : 0`. The comment above says 3 or 4.

Behaviour that no text of the repository contradicts, kept as it is in the models: bits 5 and 4 select the five-step mode too
(`value & 0xB0`, `apu.cpp` 141); the NMI is pulled at dot 20 of the vblank line; an IRQ or NMI sets the I flag before the status is pushed, so a
return leaves interrupts masked (`cpu.cpp` 270-292); the mapper's control register starts at 0 while its windows start as in mode
3, and a reset through it changes the mode and not the windows (`001.cpp` 77-89); writes to character RAM always go to its first
bank (`001.cpp` 149-155); the battery leaves out 0x7FFF (`battery.cpp` 47); save files are opened as text, so on the platform of the build
(`CMakeLists.txt`) a byte 0x1A ends the loaded part, and what follows is not initialised; a game's memory is saved only when the program
is closed with that game loaded; `Emulator::reset` and the debugger's windows go through the bus also after a load has failed, when its cartridge is gone;
a save or a settings file that cannot be opened at a start reads as zeros or as no list (`battery.cpp` 12-13, `serializer.cpp` 14 and 25), and the next
clean end saves over it.

## 6. Not modelled

- The background's pixels: shift registers, colours, the left-column masks: a data path without control of its own beyond the
  dot counters. Of sprites, their patterns and attributes: a tile is the columns where its rows are opaque.
- Bytes of RAM and ROM.
- Stores of a program to its own stack page, and pulls of what it did not push: what the abstract `Calls` promises holds for programs that keep to it.
- The double access of read-modify-write instructions and operand reads at fetch, when their address is a register of the PPU or the APU.
- The mapper within the machine: `MCM001` has the machine's reset, and is composed with no other unit.
- Failures of the file system other than an open that fails, to read or to write, a save that cannot be read, and an end of the program
  while a file is written.
- ROM header parsing, the disassembler, the settings' text, windows, drawing, pacing: presentation and text; display counters of
  `Emulator::update` feed nothing back.

## 7. Plan

Done: `PPU`, `APU`, `CPU`, their composition `Emulator` with transfers and the debugger, `ALU`, `Program` and its refinement of `Calls`, `Addressing`,
`Cursor`, `VideoMemory`, `Sprites`, the address maps, `M001` across resets, `Cartridge`, `Controller`, `RecentFiles`.

Next, in this order:

1. **Proofs**: the steps on which the liveness properties rest, as safety: what a started update has left to do decreases, a latched NMI
   is entered at the next fetch, a length counter that is clocked decreases.
2. **Disassembler and its model in the window**: index and address as inverses over the decoded banks (`imgui_debugger.cpp` 80-160).
3. **Mapper in the machine**: `M001` with the PPU's character reads, replacing its own `read_rom` by `Cartridge`'s.

The runs take from seconds to about two minutes each; new questions go into existing runs where their states allow it.
