---------------------------- MODULE MCEmulator ------------------------------
(***************************************************************************)
(* Small machines: the programs of the runs.  A program is a set of        *)
(* instructions, executed in any order.                                    *)
(***************************************************************************)
EXTENDS Emulator

I(o, t) == [op |-> o, addr |-> 0, val |-> 0, time |-> t]
Ld(a) == [op |-> "load", addr |-> a, val |-> 0, time |-> 4]
St(a, v) == [op |-> "store", addr |-> a, val |-> v, time |-> 4]

Nop == I("nop", 2)

(* Transfers from a RAM page and from the page of the PPU registers, whose *)
(* copies read PPUSTATUS, and writes through OAMDATA.                      *)
TransferProgram == {Nop, St(OAMDMA, 2), St(OAMDMA, 32), St(OAMDATA, 1)}

(* NMIs switched on and off, status polled through a mirror, rendering, an *)
(* unknown opcode, an instruction with a breakpoint, a transfer.           *)
Stop == I("brk", 7)
VideoProgram == {Ld(PPUSTATUS + 8), St(PPUCTRL, 128), St(PPUCTRL, 0), St(PPUMASK, 8),
                 St(OAMDMA, 2), Stop, I("ukn", 2)}
StopBreakpoint == {Stop}

(* Frame interrupts against a masked and an unmasked CPU; a channel        *)
(* switched on and off, halted, and loaded with length_table[3].           *)
AudioProgram == {I("plp", 4), Ld(SND_CHN), St(FRAME_COUNTER, 0),
                 St(FRAME_COUNTER, 64), St(FRAME_COUNTER, 128),
                 St(SND_CHN, 4), St(SND_CHN, 0),
                 St(HaltRegister("triangle"), 128), St(LengthRegister("triangle"), 24)}

(* A program for the liveness run: short, with everything that can delay   *)
(* or end an update.                                                       *)
LiveProgram == {I("ukn", 2), St(OAMDMA, 2), St(PPUCTRL, 128)}

None == {}
AllBreaks == D!Breaks
CpuBreak == {"cpu_fetch"}

(* The values of length_table.                                            *)
AllLengths ==
  {2, 4, 6, 8, 10, 11, 12, 14, 16, 18, 20, 22, 24, 26,
   28, 30, 32, 40, 48, 60, 72, 80, 96, 160, 192, 254}
=============================================================================
