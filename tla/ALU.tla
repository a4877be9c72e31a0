-------------------------------- MODULE ALU ---------------------------------
(***************************************************************************)
(* What the opcodes do to the registers and the arithmetic flags           *)
(* (src/src/cpu.cpp 306-443 and 618-1051).  The byte an opcode addresses   *)
(* is mem, a byte of RAM: what is stored there is what the next load gives.*)
(* Which address it is at, the stack and the program counter are not       *)
(* modelled, so between two instructions mem becomes any byte.  The        *)
(* decimal flag is left out: no operation reads it.                        *)
(***************************************************************************)
EXTENDS Integers

CONSTANTS
  Half,                 \* half the values of a byte, 128 in the code
  AndBits(_, _), OrBits(_, _), XorBits(_, _)   \* C++'s &, | and ^ on bytes

Byte == 0..(2 * Half - 1)

ALUConstants ==
  /\ Half \in Nat /\ Half > 0 /\ Half % 2 = 0
  /\ \A a, b \in Byte :
       AndBits(a, b) \in Byte /\ OrBits(a, b) \in Byte /\ XorBits(a, b) \in Byte

ASSUME ALUAssumption == ALUConstants

VARIABLES
  accumulator,    \* accumulator_
  register_x,     \* register_x_
  register_y,     \* register_y_
  N, Z, C, V,     \* the kNegative, kZero, kCarry and kOverflow flags of status_
  mem             \* the byte addressed

registers == <<accumulator, register_x, register_y>>
flags == <<N, Z, C, V>>
vars == <<registers, flags, mem>>

TypeOK ==
  /\ accumulator \in Byte /\ register_x \in Byte /\ register_y \in Byte
  /\ N \in BOOLEAN /\ Z \in BOOLEAN /\ C \in BOOLEAN /\ V \in BOOLEAN
  /\ mem \in Byte

(* After CPU::reset; status_ is 0x24.                                      *)
Init ==
  /\ accumulator = 0 /\ register_x = 0 /\ register_y = 0
  /\ N = FALSE /\ Z = FALSE /\ C = FALSE /\ V = FALSE
  /\ mem \in Byte

-----------------------------------------------------------------------------
(* Bytes.  Each definition named for a slip is a wrong version of the one  *)
(* that follows it: a run must notice when it takes its place.             *)

(* A sum below 4 * Half, truncated to a byte.                              *)
Wrap(sum) == IF sum >= 2 * Half THEN sum - 2 * Half ELSE sum

Negative(byte) == byte >= Half
Bit(flag) == IF flag THEN 1 ELSE 0
Complement(byte) == 2 * Half - 1 - byte

ShiftRight(byte) == byte \div 2
RolValue(byte, carry) == Wrap(2 * byte) + Bit(carry)
(* A slip: the carry does not come in, the bit that goes out does.         *)
RorValueNoCarry(byte, carry) == ShiftRight(byte) + (IF byte % 2 = 1 THEN Half ELSE 0)
RorValue(byte, carry) == ShiftRight(byte) + (IF carry THEN Half ELSE 0)

SetNZ(byte) == N' = Negative(byte) /\ Z' = (byte = 0)

-----------------------------------------------------------------------------
(* Additions, subtractions and comparisons                                 *)

(* A slip: the overflow flag compares the accumulator's signs alone.       *)
AddOverflowFromOneSign(operand, carry) ==
  LET sum == accumulator + operand + Bit(carry)
  IN  /\ accumulator' = Wrap(sum)
      /\ SetNZ(accumulator')
      /\ C' = (sum > 2 * Half - 1)
      /\ V' = (Negative(accumulator) <=> ~N')

(* adc_: the overflow flag compares the signs of both operands and the sum.*)
Add(operand, carry) ==
  LET sum == accumulator + operand + Bit(carry)
  IN  /\ accumulator' = Wrap(sum)
      /\ SetNZ(accumulator')
      /\ C' = (sum > 2 * Half - 1)
      /\ V' = (/\ Negative(accumulator) <=> Negative(operand)
               /\ Negative(accumulator) <=> ~N')

(* A slip: the operand is negated, where the carry already makes up the 1. *)
TwosComplement(operand, carry) == Add(Wrap(Complement(operand) + 1), carry)

Subtract(operand, carry) == Add(Complement(operand), carry)

adc_ == Add(mem, C) /\ UNCHANGED <<register_x, register_y, mem>>
sbc_ == Subtract(mem, C) /\ UNCHANGED <<register_x, register_y, mem>>

Compare(register, operand) ==
  /\ SetNZ(Wrap(register + 2 * Half - operand))
  /\ C' = (register >= operand)
  /\ UNCHANGED V

cmp_ == Compare(accumulator, mem) /\ UNCHANGED <<registers, mem>>
cpx_ == Compare(register_x, mem) /\ UNCHANGED <<registers, mem>>
cpy_ == Compare(register_y, mem) /\ UNCHANGED <<registers, mem>>

-----------------------------------------------------------------------------
(* Bitwise operations, loads, increments and transfers: a register takes a *)
(* byte, and the negative and zero flags describe it.                      *)

SetA(byte) ==
  /\ accumulator' = byte /\ SetNZ(byte)
  /\ UNCHANGED <<register_x, register_y, C, V, mem>>

SetX(byte) ==
  /\ register_x' = byte /\ SetNZ(byte)
  /\ UNCHANGED <<accumulator, register_y, C, V, mem>>

SetY(byte) ==
  /\ register_y' = byte /\ SetNZ(byte)
  /\ UNCHANGED <<accumulator, register_x, C, V, mem>>

Incremented(byte) == Wrap(byte + 1)
Decremented(byte) == Wrap(byte + 2 * Half - 1)

and_ == SetA(AndBits(accumulator, mem))
ora_ == SetA(OrBits(accumulator, mem))
eor_ == SetA(XorBits(accumulator, mem))
lda_ == SetA(mem)
pla_ == SetA(mem)     \* mem is the byte pulled

txa_ == SetA(register_x)
tya_ == SetA(register_y)

ldx_ == SetX(mem)
inx_ == SetX(Incremented(register_x))
dex_ == SetX(Decremented(register_x))
tax_ == SetX(accumulator)
tsx_ == \E stack_pointer \in Byte : SetX(stack_pointer)

ldy_ == SetY(mem)
iny_ == SetY(Incremented(register_y))
dey_ == SetY(Decremented(register_y))
tay_ == SetY(accumulator)

(* Bits 7 and 6 of the byte go to the flags, the conjunction to Z.         *)
bit_ ==
  /\ N' = Negative(mem)
  /\ V' = (mem % Half >= Half \div 2)
  /\ Z' = (AndBits(mem, accumulator) = 0)
  /\ UNCHANGED <<registers, C, mem>>

-----------------------------------------------------------------------------
(* Shifts: what they make of a byte and of the carry.                      *)

Shifts == {"asl", "rol", "lsr", "ror"}

Shifted(shift, byte, carry) ==
  CASE shift = "asl" -> Wrap(2 * byte)
    [] shift = "rol" -> RolValue(byte, carry)
    [] shift = "lsr" -> ShiftRight(byte)
    [] shift = "ror" -> RorValue(byte, carry)

ShiftedOut(shift, byte) ==
  IF shift \in {"asl", "rol"} THEN Negative(byte) ELSE byte % 2 = 1

(* call_mutating_operation: on the accumulator, or on the byte addressed.  *)
ShiftAccumulator(shift) ==
  /\ accumulator' = Shifted(shift, accumulator, C)
  /\ SetNZ(accumulator')
  /\ C' = ShiftedOut(shift, accumulator)
  /\ UNCHANGED <<register_x, register_y, V, mem>>

ShiftMemory(shift) ==
  /\ mem' = Shifted(shift, mem, C)
  /\ SetNZ(mem')
  /\ C' = ShiftedOut(shift, mem)
  /\ UNCHANGED <<registers, V>>

-----------------------------------------------------------------------------
(* Operations on the byte addressed, and on the flags                      *)

inc_ == mem' = Incremented(mem) /\ SetNZ(mem') /\ UNCHANGED <<registers, C, V>>
dec_ == mem' = Decremented(mem) /\ SetNZ(mem') /\ UNCHANGED <<registers, C, V>>

sta_ == mem' = accumulator /\ UNCHANGED <<registers, flags>>
stx_ == mem' = register_x /\ UNCHANGED <<registers, flags>>
sty_ == mem' = register_y /\ UNCHANGED <<registers, flags>>
sax_ == mem' = AndBits(accumulator, register_x) /\ UNCHANGED <<registers, flags>>

clc_ == C' = FALSE /\ UNCHANGED <<registers, N, Z, V, mem>>
sec_ == C' = TRUE /\ UNCHANGED <<registers, N, Z, V, mem>>
clv_ == V' = FALSE /\ UNCHANGED <<registers, N, Z, C, mem>>

(* plp_ and rti_: mem is the byte pulled.                                  *)
PullStatus ==
  /\ N' = Negative(mem) /\ V' = (mem % Half >= Half \div 2)
  /\ Z' = ((mem \div 2) % 2 = 1) /\ C' = (mem % 2 = 1)
  /\ UNCHANGED <<registers, mem>>

-----------------------------------------------------------------------------
(* The unofficial opcodes that change the byte addressed and then use it:  *)
(* the second operation finds the flags of the first.                      *)

lax_ ==
  /\ accumulator' = mem /\ register_x' = mem /\ SetNZ(mem)
  /\ UNCHANGED <<register_y, C, V, mem>>

dcp_ ==
  /\ mem' = Decremented(mem)
  /\ Compare(accumulator, mem')
  /\ UNCHANGED registers

isb_ ==
  /\ mem' = Incremented(mem)
  /\ Subtract(mem', C)
  /\ UNCHANGED <<register_x, register_y>>

rra_ ==
  /\ mem' = RorValue(mem, C)
  /\ Add(mem', ShiftedOut("ror", mem))
  /\ UNCHANGED <<register_x, register_y>>

ShiftAndCombine(shift, Op(_, _)) ==
  /\ mem' = Shifted(shift, mem, C)
  /\ C' = ShiftedOut(shift, mem)
  /\ accumulator' = Op(accumulator, mem') /\ SetNZ(accumulator')
  /\ UNCHANGED <<register_x, register_y, V>>

(* A slip: the flags in the end are those of the rotation.                 *)
RlaFlagsOfByte ==
  /\ mem' = RolValue(mem, C) /\ SetNZ(mem')
  /\ C' = ShiftedOut("rol", mem)
  /\ accumulator' = AndBits(accumulator, mem')
  /\ UNCHANGED <<register_x, register_y, V>>

rla_ == ShiftAndCombine("rol", AndBits)
slo_ == ShiftAndCombine("asl", OrBits)
sre_ == ShiftAndCombine("lsr", XorBits)

-----------------------------------------------------------------------------
exec_ ==
  \/ adc_ \/ sbc_ \/ cmp_ \/ cpx_ \/ cpy_
  \/ and_ \/ ora_ \/ eor_ \/ bit_
  \/ lda_ \/ pla_ \/ txa_ \/ tya_
  \/ ldx_ \/ inx_ \/ dex_ \/ tax_ \/ tsx_
  \/ ldy_ \/ iny_ \/ dey_ \/ tay_
  \/ \E shift \in Shifts : ShiftAccumulator(shift) \/ ShiftMemory(shift)
  \/ inc_ \/ dec_ \/ sta_ \/ stx_ \/ sty_ \/ sax_
  \/ clc_ \/ sec_ \/ clv_ \/ PullStatus
  \/ lax_ \/ dcp_ \/ isb_ \/ rra_ \/ rla_ \/ slo_ \/ sre_

(* The next instruction addresses another byte.                            *)
Fetch == mem' \in Byte /\ UNCHANGED <<registers, flags>>

Next == exec_ \/ Fetch

Spec == Init /\ [][Next]_vars

-----------------------------------------------------------------------------
(* A byte read as a signed number.                                         *)
Signed(byte) == IF Negative(byte) THEN byte - 2 * Half ELSE byte

Fits(number) == -Half <= number /\ number < Half

(* adc_ (cpu.cpp 618-631) adds exactly: the carry is the digit the byte    *)
(* has no room for, so a program can chain additions, and the overflow     *)
(* flag says that the signed sum does not fit.                             *)
AddIsExact ==
  [][adc_ => /\ accumulator' + 2 * Half * Bit(C') = accumulator + mem + Bit(C)
             /\ V' <=> ~Fits(Signed(accumulator) + Signed(mem) + Bit(C))]_vars

(* sbc_ (cpu.cpp 962-965) subtracts by adding the complement: the carry is *)
(* the absence of a borrow, and with the carry set its flags order both    *)
(* the unsigned and the signed readings of the operands.                   *)
SubtractIsExact ==
  [][sbc_ => /\ accumulator' - 2 * Half * Bit(~C') = accumulator - mem - Bit(~C)
             /\ V' <=> ~Fits(Signed(accumulator) - Signed(mem) - Bit(~C))
             /\ C => /\ C' <=> accumulator >= mem
                     /\ (N' <=> ~V') <=> Signed(accumulator) < Signed(mem)]_vars

(* A comparison (cpu.cpp 738-760) leaves the flags a subtraction with the  *)
(* carry set would leave, though the code computes them differently.       *)
CompareAgrees ==
  [][\A r \in {accumulator, register_x, register_y} :
       Compare(r, mem) /\ UNCHANGED <<registers, mem>> =>
         LET sum == r + Complement(mem) + 1
         IN  /\ C' <=> sum > 2 * Half - 1
             /\ SetNZ(Wrap(sum))]_vars

(* Additions, subtractions and comparisons compute what a program chains   *)
(* and branches on, for every operand and carry (cpu.cpp 618 to 965).      *)
ArithmeticIsExact == AddIsExact /\ SubtractIsExact /\ CompareAgrees

(* ror_ undoes rol_, and rol_ undoes ror_, carry included (cpu.cpp 914 to  *)
(* 934): nine bits rotate and none is lost.                                *)
RotationsInvert ==
  \A byte \in {accumulator, mem} :
    /\ RorValue(RolValue(byte, C), ShiftedOut("rol", byte)) = byte
    /\ ShiftedOut("ror", RolValue(byte, C)) = C
    /\ RolValue(RorValue(byte, C), ShiftedOut("ror", byte)) = byte
    /\ ShiftedOut("rol", RorValue(byte, C)) = C

(* Whatever instruction changes the accumulator or an index register, the  *)
(* negative and zero flags describe what it holds then: a program may      *)
(* branch on them at once.                                                 *)
FlagsDescribe ==
  [][/\ accumulator' # accumulator => SetNZ(accumulator')
     /\ register_x' # register_x => SetNZ(register_x')
     /\ register_y' # register_y => SetNZ(register_y')]_vars
=============================================================================
