----------------------------- MODULE Addressing -----------------------------
(***************************************************************************)
(* Which address an instruction accesses and what reaching it costs        *)
(* (src/src/cpu.cpp 141-214 and 513-564).  The cost is computed when the   *)
(* instruction is fetched and the address when it is executed; memory is a *)
(* function from addresses to bytes that nobody changes in between.        *)
(***************************************************************************)
EXTENDS Stack

Pair(high, low) == high * Base + low

page_zero_addr(addr) == Low(addr)
absolute_addr(addr) == addr
indexed_abs_addr(addr, index) == Moved(addr, index)
indexed_pz_addr(addr, index) == Low(Low(addr) + index)

(* The second byte of a pointer is in the page of the first.               *)
SecondByte(addr) == Pair(High(addr), Low(addr + 1))
indirect_addr(addr, memory) == Pair(memory[SecondByte(addr)], memory[addr])
indirect_pz_addr(addr, memory) == Pair(memory[Low(addr + 1)], memory[addr])

indexed_indirect_addr(addr, index, memory) == indirect_pz_addr(indexed_pz_addr(addr, index), memory)
indirect_indexed_addr(addr, index, memory) == Moved(indirect_pz_addr(page_zero_addr(addr), memory), index)

Modes == {"kZeroPage", "kZeroPageX", "kZeroPageY", "kAbsolute", "kAbsoluteX", "kAbsoluteY",
          "kIndirect", "kIndirectX", "kIndirectY"}

(* addr is what follows the opcode, x and y are the index registers.       *)
to_absolute_addr(mode, addr, x, y, memory) ==
  CASE mode = "kZeroPage" -> page_zero_addr(addr)
    [] mode = "kZeroPageX" -> indexed_pz_addr(addr, x)
    [] mode = "kZeroPageY" -> indexed_pz_addr(addr, y)
    [] mode = "kAbsolute" -> absolute_addr(addr)
    [] mode = "kAbsoluteX" -> indexed_abs_addr(addr, x)
    [] mode = "kAbsoluteY" -> indexed_abs_addr(addr, y)
    [] mode = "kIndirect" -> indirect_addr(addr, memory)
    [] mode = "kIndirectX" -> indexed_indirect_addr(addr, x, memory)
    [] mode = "kIndirectY" -> indirect_indexed_addr(addr, y, memory)

-----------------------------------------------------------------------------
PageCrossed(from, to) == High(from) # High(to)
Ticks(condition) == IF condition THEN 1 ELSE 0

(* Only the reads among the indexed instructions pay: they are the ones of *)
(* these timings.                                                          *)
idle_ticks_from_addressing_(mode, timing, addr, x, y, memory) ==
  LET Crossing(page_addr, to) == Ticks(PageCrossed(page_addr, to))
      pointed == indirect_pz_addr(page_zero_addr(addr), memory)
  IN  CASE mode = "kAbsoluteX" /\ timing = 4 -> Crossing(addr, indexed_abs_addr(addr, x))
        [] mode = "kAbsoluteY" /\ timing = 4 -> Crossing(addr, indexed_abs_addr(addr, y))
        [] mode = "kIndirectY" /\ timing = 5 -> Crossing(pointed, Moved(pointed, y))
        [] OTHER -> 0

(* pc is the branch's own address, a branch is two bytes.                  *)
idle_ticks_from_branching_(success, pc, displacement) ==
  LET following == Moved(pc, 2)
  IN  IF success THEN 1 + Ticks(PageCrossed(following, Moved(following, displacement))) ELSE 0

-----------------------------------------------------------------------------
(* What a program relies on.                                               *)

(* Page zero is never left, by index or by the second byte of a pointer,   *)
(* and a pointer is read within a page (the known slip of the 6502's       *)
(* indirect jump).                                                         *)
StaysInPage(addr, index) ==
  /\ High(page_zero_addr(addr)) = 0 /\ High(indexed_pz_addr(addr, index)) = 0
  /\ SecondByte(addr) \in Address /\ High(SecondByte(addr)) = High(addr)

(* The extra cycle is paid exactly when the index carries out of the low   *)
(* byte: at the top of memory too, where the address wraps.                *)
PaysForCarry(addr, index) ==
  PageCrossed(addr, Moved(addr, index)) <=> Low(addr) + index >= Base
=============================================================================
