-------------------------- MODULE Execution_proofs --------------------------
(***************************************************************************)
(* Proofs about the execution of instructions: about the ALU, for every    *)
(* width of a byte and every table of the bitwise operators; and about     *)
(* where a program goes, for every program, size of the stack page and     *)
(* place of the flags.                                                     *)
(***************************************************************************)
EXTENDS Execution, SequenceTheorems, TLAPS

(* A byte has at least the values 0 to 3.                                  *)
LEMMA HalfPositive == Half \in Nat /\ Half >= 2
BY ALUAssumption DEF ALUConstants

(* The operators of the model make bytes of bytes.                         *)
LEMMA ByteOperators ==
  ASSUME NEW byte \in Byte
  PROVE  /\ Complement(byte) \in Byte
         /\ Incremented(byte) \in Byte /\ Decremented(byte) \in Byte
         /\ Wrap(2 * byte) \in Byte /\ Wrap(2 * byte) < 2 * Half - 1
         /\ ShiftRight(byte) \in Byte /\ ShiftRight(byte) < Half
BY HalfPositive DEF Byte, Complement, Incremented, Decremented, Wrap, ShiftRight

LEMMA Rotations ==
  ASSUME NEW byte \in Byte, NEW carry \in BOOLEAN
  PROVE  RolValue(byte, carry) \in Byte /\ RorValue(byte, carry) \in Byte
BY HalfPositive, ByteOperators DEF Byte, RolValue, RorValue, Bit

LEMMA FlagsAreBoolean ==
  ASSUME NEW byte \in Byte, NEW shift \in Shifts
  PROVE  Negative(byte) \in BOOLEAN /\ ShiftedOut(shift, byte) \in BOOLEAN
<1>1. Negative(byte) \in BOOLEAN
  BY DEF Negative
<1> QED
  BY <1>1 DEF ShiftedOut

LEMMA SetNZTyped ==
  ASSUME NEW byte, SetNZ(byte)
  PROVE  N' \in BOOLEAN /\ Z' \in BOOLEAN
BY DEF SetNZ, Negative

(* A sum of two bytes and a carry, split into a byte and a carry.          *)
LEMMA SumWraps ==
  ASSUME NEW a \in Byte, NEW b \in Byte, NEW carry \in BOOLEAN
  PROVE  /\ a + b + Bit(carry) \in Nat
         /\ Wrap(a + b + Bit(carry)) \in Byte
         /\ a + b + Bit(carry) = Wrap(a + b + Bit(carry))
              + 2 * Half * Bit(a + b + Bit(carry) > 2 * Half - 1)
BY HalfPositive DEF Byte, Wrap, Bit

-----------------------------------------------------------------------------
(* Every operation leaves bytes in the registers and in memory (exec_).    *)
LEMMA AddTyped ==
  ASSUME TypeOK, NEW operand \in Byte, NEW carry \in BOOLEAN, Add(operand, carry)
  PROVE  /\ accumulator' \in Byte
         /\ N' \in BOOLEAN /\ Z' \in BOOLEAN /\ C' \in BOOLEAN /\ V' \in BOOLEAN
<1>1. accumulator' \in Byte
  BY SumWraps DEF TypeOK, Add
<1>2. N' \in BOOLEAN /\ Z' \in BOOLEAN /\ C' \in BOOLEAN /\ V' \in BOOLEAN
  BY DEF Add, SetNZ, Negative
<1> QED
  BY <1>1, <1>2

LEMMA ShiftedTyped ==
  ASSUME NEW shift \in Shifts, NEW byte \in Byte, NEW carry \in BOOLEAN
  PROVE  Shifted(shift, byte, carry) \in Byte
BY ByteOperators, Rotations DEF Shifts, Shifted

LEMMA BitwiseTyped ==
  ASSUME NEW a \in Byte, NEW b \in Byte
  PROVE  AndBits(a, b) \in Byte /\ OrBits(a, b) \in Byte /\ XorBits(a, b) \in Byte
BY ALUAssumption DEF ALUConstants

LEMMA TypesKept == TypeOK /\ [Next]_vars => TypeOK'
<1> SUFFICES ASSUME TypeOK, [Next]_vars PROVE TypeOK'
  OBVIOUS
<1> USE DEF TypeOK, registers, flags
<1>1. CASE adc_ \/ sbc_ \/ isb_ \/ rra_
  <2>1. Complement(mem) \in Byte /\ Incremented(mem) \in Byte
        /\ Complement(Incremented(mem)) \in Byte
    BY ByteOperators
  <2>2. RorValue(mem, C) \in Byte /\ ShiftedOut("ror", mem) \in BOOLEAN
    BY Rotations, FlagsAreBoolean DEF Shifts
  <2>3. CASE adc_ \/ sbc_
    BY <2>1, <2>3, AddTyped DEF adc_, sbc_, Subtract
  <2>4. CASE isb_
    BY <2>1, <2>4, AddTyped DEF isb_, Subtract
  <2>5. CASE rra_
    BY <2>2, <2>5, AddTyped DEF rra_
  <2> QED
    BY <1>1, <2>3, <2>4, <2>5
<1>2. CASE cmp_ \/ cpx_ \/ cpy_ \/ dcp_
  <2>1. ASSUME NEW r \in Byte, NEW o \in Byte, Compare(r, o)
        PROVE  N' \in BOOLEAN /\ Z' \in BOOLEAN /\ C' \in BOOLEAN /\ V' \in BOOLEAN
    BY <2>1, SetNZTyped DEF Compare
  <2>2. Decremented(mem) \in Byte
    BY ByteOperators
  <2> QED
    BY <1>2, <2>1, <2>2 DEF cmp_, cpx_, cpy_, dcp_
<1>3. CASE and_ \/ ora_ \/ eor_ \/ lda_ \/ pla_ \/ txa_ \/ tya_ \/ lax_
  BY <1>3, BitwiseTyped, SetNZTyped DEF and_, ora_, eor_, lda_, pla_, txa_, tya_, lax_, SetA
<1>4. CASE ldx_ \/ inx_ \/ dex_ \/ tax_ \/ tsx_
  BY <1>4, ByteOperators, SetNZTyped DEF ldx_, inx_, dex_, tax_, tsx_, SetX
<1>5. CASE ldy_ \/ iny_ \/ dey_ \/ tay_
  BY <1>5, ByteOperators, SetNZTyped DEF ldy_, iny_, dey_, tay_, SetY
<1>6. ASSUME NEW shift \in Shifts, ShiftAccumulator(shift) \/ ShiftMemory(shift)
      PROVE  TypeOK'
  BY <1>6, ShiftedTyped, FlagsAreBoolean, SetNZTyped DEF ShiftAccumulator, ShiftMemory
<1>7. CASE inc_ \/ dec_ \/ sta_ \/ stx_ \/ sty_ \/ sax_
  BY <1>7, ByteOperators, BitwiseTyped, SetNZTyped DEF inc_, dec_, sta_, stx_, sty_, sax_
<1>8. CASE rla_ \/ slo_ \/ sre_
  <2>1. ASSUME NEW shift \in Shifts, mem' = Shifted(shift, mem, C),
               C' = ShiftedOut(shift, mem), accumulator' \in Byte, SetNZ(accumulator'),
               UNCHANGED <<register_x, register_y, V>>
        PROVE  TypeOK'
    BY <2>1, ShiftedTyped, FlagsAreBoolean, SetNZTyped
  <2>2. \A shift \in Shifts : Shifted(shift, mem, C) \in Byte
    BY ShiftedTyped
  <2>3. CASE rla_
    BY <2>1, <2>2, <2>3, BitwiseTyped DEF rla_, ShiftAndCombine, Shifts
  <2>4. CASE slo_
    BY <2>1, <2>2, <2>4, BitwiseTyped DEF slo_, ShiftAndCombine, Shifts
  <2>5. CASE sre_
    BY <2>1, <2>2, <2>5, BitwiseTyped DEF sre_, ShiftAndCombine, Shifts
  <2> QED
    BY <1>8, <2>3, <2>4, <2>5
<1>9. CASE bit_ \/ clc_ \/ sec_ \/ clv_ \/ PullStatus
  <2>1. /\ Negative(mem) \in BOOLEAN
        /\ (mem % Half >= Half \div 2) \in BOOLEAN
    BY DEF Negative
  <2>2. CASE bit_
    BY <2>1, <2>2 DEF bit_
  <2>3. CASE PullStatus
    BY <2>1, <2>3 DEF PullStatus
  <2> QED
    BY <1>9, <2>2, <2>3 DEF clc_, sec_, clv_
<1>10. CASE Fetch \/ UNCHANGED vars
  BY <1>10 DEF Fetch, vars
<1> QED
  BY <1>1, <1>2, <1>3, <1>4, <1>5, <1>6, <1>7, <1>8, <1>9, <1>10 DEF Next, exec_

(* The registers and the byte addressed stay bytes.                        *)
THEOREM TypeCorrect == Spec => []TypeOK
<1>1. 0 \in Byte
  BY HalfPositive DEF Byte
<1>2. Init => TypeOK
  BY <1>1 DEF Init, TypeOK
<1> QED
  BY <1>2, TypesKept, PTL DEF Spec

-----------------------------------------------------------------------------
(* What an addition leaves, as numbers.                                    *)
LEMMA AddNumbers ==
  ASSUME TypeOK, NEW operand \in Byte, NEW carry \in BOOLEAN, Add(operand, carry)
  PROVE  /\ accumulator' \in Byte
         /\ accumulator' + 2 * Half * Bit(C') = accumulator + operand + Bit(carry)
         /\ V' <=> ~Fits(Signed(accumulator) + Signed(operand) + Bit(carry))
         /\ N' <=> accumulator' >= Half
         /\ Z' <=> accumulator' = 0
         /\ C' <=> accumulator + operand + Bit(carry) >= 2 * Half
<1>1. /\ accumulator \in Nat /\ accumulator < 2 * Half
      /\ operand \in Nat /\ operand < 2 * Half
      /\ Bit(carry) \in {0, 1}
      /\ Half \in Nat /\ Half >= 2
  BY HalfPositive DEF TypeOK, Byte, Bit
<1> DEFINE sum == accumulator + operand + Bit(carry)
<1>2. accumulator' \in Byte /\ (C' <=> sum >= 2 * Half) /\ C' \in BOOLEAN
  <2>1. accumulator' \in Byte
    BY SumWraps DEF Add, TypeOK
  <2>2. C' = (sum > 2 * Half - 1) /\ (sum > 2 * Half - 1 <=> sum >= 2 * Half)
    BY <1>1 DEF Add
  <2> QED
    BY <2>1, <2>2, AddTyped
<1>3. /\ N' = (accumulator' >= Half) /\ N' \in BOOLEAN
      /\ Z' = (accumulator' = 0)
  BY DEF Add, SetNZ, Negative
<1>4. V' <=> /\ accumulator >= Half <=> operand >= Half
             /\ accumulator >= Half <=> ~(accumulator' >= Half)
  <2>1. V' = (/\ accumulator >= Half <=> operand >= Half
              /\ accumulator >= Half <=> ~N')
    BY DEF Add, Negative
  <2> QED
    BY <2>1, <1>3, AddTyped
<1>5. accumulator' = IF sum >= 2 * Half THEN sum - 2 * Half ELSE sum
  BY DEF Add, Wrap
<1>7. accumulator' + 2 * Half * Bit(C') = sum
  <2>1. CASE C'
    BY <1>1, <1>2, <1>5, <2>1 DEF Bit
  <2>2. CASE ~C'
    BY <1>1, <1>2, <1>5, <2>2 DEF Bit
  <2> QED
    BY <2>1, <2>2
<1>6. V' <=> ~Fits(Signed(accumulator) + Signed(operand) + Bit(carry))
  <2>1. CASE accumulator >= Half /\ operand >= Half
    BY <1>1, <1>2, <1>4, <1>5, <2>1 DEF Fits, Signed, Negative
  <2>2. CASE accumulator >= Half /\ ~(operand >= Half)
    BY <1>1, <1>2, <1>4, <1>5, <2>2 DEF Fits, Signed, Negative
  <2>3. CASE ~(accumulator >= Half) /\ operand >= Half
    BY <1>1, <1>2, <1>4, <1>5, <2>3 DEF Fits, Signed, Negative
  <2>4. CASE ~(accumulator >= Half) /\ ~(operand >= Half)
    BY <1>1, <1>2, <1>4, <1>5, <2>4 DEF Fits, Signed, Negative
  <2> QED
    BY <2>1, <2>2, <2>3, <2>4
<1> QED
  BY <1>2, <1>3, <1>6, <1>7

(* ADC is exact, unsigned and signed, for every width (cpu.cpp 618-631).   *)
THEOREM AdditionExact == Spec => AddIsExact
<1>1. TypeOK /\ [Next]_vars =>
        [adc_ => /\ accumulator' + 2 * Half * Bit(C') = accumulator + mem + Bit(C)
                 /\ V' <=> ~Fits(Signed(accumulator) + Signed(mem) + Bit(C))]_vars
  BY AddNumbers DEF adc_, TypeOK
<1> QED
  BY <1>1, TypeCorrect, PTL DEF Spec, AddIsExact

(* SBC is exact too, and with the carry set its flags order the operands   *)
(* (cpu.cpp 962-965).                                                      *)
THEOREM SubtractionExact == Spec => SubtractIsExact
<1>1. TypeOK /\ [Next]_vars =>
        [sbc_ => /\ accumulator' - 2 * Half * Bit(~C') = accumulator - mem - Bit(~C)
                 /\ V' <=> ~Fits(Signed(accumulator) - Signed(mem) - Bit(~C))
                 /\ C => /\ C' <=> accumulator >= mem
                         /\ (N' <=> ~V') <=> Signed(accumulator) < Signed(mem)]_vars
  <2> SUFFICES ASSUME TypeOK, sbc_
               PROVE  /\ accumulator' - 2 * Half * Bit(~C') = accumulator - mem - Bit(~C)
                      /\ V' <=> ~Fits(Signed(accumulator) - Signed(mem) - Bit(~C))
                      /\ C => /\ C' <=> accumulator >= mem
                              /\ (N' <=> ~V') <=> Signed(accumulator) < Signed(mem)
    OBVIOUS
  <2>1. /\ accumulator \in Nat /\ accumulator < 2 * Half
        /\ mem \in Nat /\ mem < 2 * Half
        /\ Complement(mem) \in Byte /\ Complement(mem) = 2 * Half - 1 - mem
        /\ C \in BOOLEAN
        /\ Half \in Nat /\ Half >= 2
    BY HalfPositive, ByteOperators DEF TypeOK, Byte, Complement
  <2>2. /\ accumulator' \in Nat /\ accumulator' < 2 * Half
        /\ accumulator' + 2 * Half * Bit(C') = accumulator + Complement(mem) + Bit(C)
        /\ V' <=> ~Fits(Signed(accumulator) + Signed(Complement(mem)) + Bit(C))
        /\ N' <=> accumulator' >= Half
        /\ C' <=> accumulator + Complement(mem) + Bit(C) >= 2 * Half
        /\ C' \in BOOLEAN
    BY <2>1, AddNumbers, AddTyped DEF sbc_, Subtract, Byte
  <2>3. Signed(Complement(mem)) + Bit(C) = -Signed(mem) - Bit(~C)
    BY <2>1 DEF Signed, Negative, Bit
  <2>4. accumulator' - 2 * Half * Bit(~C') = accumulator - mem - Bit(~C)
    <3>1. Bit(C) + Bit(~C) = 1 /\ Bit(C) \in Nat /\ Bit(~C) \in Nat
      BY <2>1 DEF Bit
    <3>2. CASE C'
      <4>1. Bit(C') = 1 /\ Bit(~C') = 0
        BY <3>2 DEF Bit
      <4> QED
        BY <2>1, <2>2, <3>1, <4>1
    <3>3. CASE ~C'
      <4>1. Bit(C') = 0 /\ Bit(~C') = 1
        BY <3>3 DEF Bit
      <4> QED
        BY <2>1, <2>2, <3>1, <4>1
    <3> QED
      BY <3>2, <3>3
  <2>5. V' <=> ~Fits(Signed(accumulator) - Signed(mem) - Bit(~C))
    <3>1. /\ Signed(accumulator) \in Int /\ Signed(mem) \in Int
          /\ Signed(Complement(mem)) \in Int /\ Bit(C) \in Int /\ Bit(~C) \in Int
      BY <2>1 DEF Signed, Negative, Bit
    <3>2. Signed(accumulator) + Signed(Complement(mem)) + Bit(C)
            = Signed(accumulator) - Signed(mem) - Bit(~C)
      BY <2>3, <3>1
    <3> QED
      BY <2>2, <3>2
  <2>6. ASSUME C PROVE C' <=> accumulator >= mem
    BY <2>1, <2>2, <2>6 DEF Bit
  <2>7. ASSUME C PROVE (N' <=> ~V') <=> Signed(accumulator) < Signed(mem)
    <3>1. accumulator' = IF accumulator >= mem THEN accumulator - mem
                         ELSE accumulator - mem + 2 * Half
      <4>1. accumulator' = accumulator - mem + 2 * Half * Bit(~C')
        <5>1. Bit(~C) = 0 /\ Bit(~C') \in {0, 1}
          BY <2>7 DEF Bit
        <5>2. CASE Bit(~C') = 0
          BY <2>1, <2>2, <2>4, <5>1, <5>2
        <5>3. CASE Bit(~C') = 1
          BY <2>1, <2>2, <2>4, <5>1, <5>3
        <5> QED
          BY <5>1, <5>2, <5>3
      <4>2. CASE C'
        BY <2>1, <2>6, <2>7, <4>1, <4>2 DEF Bit
      <4>3. CASE ~C'
        BY <2>1, <2>6, <2>7, <4>1, <4>3 DEF Bit
      <4> QED
        BY <4>2, <4>3
    <3>2. V' <=> ~Fits(Signed(accumulator) - Signed(mem))
      BY <2>1, <2>5, <2>7 DEF Bit, Signed, Negative
    <3>3. V' \in BOOLEAN /\ N' \in BOOLEAN
      BY <2>1, AddTyped DEF sbc_, Subtract
    <3>4. CASE accumulator >= Half /\ mem >= Half
      BY <2>1, <2>2, <3>1, <3>2, <3>3, <3>4 DEF Fits, Signed, Negative
    <3>5. CASE accumulator >= Half /\ ~(mem >= Half)
      BY <2>1, <2>2, <3>1, <3>2, <3>3, <3>5 DEF Fits, Signed, Negative
    <3>6. CASE ~(accumulator >= Half) /\ mem >= Half
      BY <2>1, <2>2, <3>1, <3>2, <3>3, <3>6 DEF Fits, Signed, Negative
    <3>7. CASE ~(accumulator >= Half) /\ ~(mem >= Half)
      BY <2>1, <2>2, <3>1, <3>2, <3>3, <3>7 DEF Fits, Signed, Negative
    <3> QED
      BY <3>4, <3>5, <3>6, <3>7
  <2> QED
    BY <2>4, <2>5, <2>6, <2>7
<1> QED
  BY <1>1, TypeCorrect, PTL DEF Spec, SubtractIsExact

(* The flags of a comparison are those of a subtraction with the carry set *)
(* (cpu.cpp 738-760).                                                      *)
THEOREM ComparisonAgrees == Spec => CompareAgrees
<1>1. ASSUME TypeOK, NEW r \in Byte, Compare(r, mem)
      PROVE  /\ C' <=> r + Complement(mem) + 1 > 2 * Half - 1
             /\ SetNZ(Wrap(r + Complement(mem) + 1))
  <2>1. /\ r \in Nat /\ r < 2 * Half /\ mem \in Nat /\ mem < 2 * Half
        /\ Half \in Nat /\ Half >= 2
    BY <1>1, HalfPositive DEF TypeOK, Byte
  <2>2. r + Complement(mem) + 1 = r + 2 * Half - mem
    BY <2>1 DEF Complement
  <2>3. C' <=> r >= mem
    BY <1>1 DEF Compare
  <2>4. r >= mem <=> r + Complement(mem) + 1 > 2 * Half - 1
    BY <2>1, <2>2
  <2> QED
    BY <1>1, <2>2, <2>3, <2>4 DEF Compare
<1>2. TypeOK /\ [Next]_vars =>
        [\A r \in {accumulator, register_x, register_y} :
           Compare(r, mem) /\ UNCHANGED <<registers, mem>> =>
             LET sum == r + Complement(mem) + 1
             IN  /\ C' <=> sum > 2 * Half - 1
                 /\ SetNZ(Wrap(sum))]_vars
  <2> SUFFICES ASSUME TypeOK, NEW r \in {accumulator, register_x, register_y}, Compare(r, mem)
               PROVE  /\ C' <=> r + Complement(mem) + 1 > 2 * Half - 1
                      /\ SetNZ(Wrap(r + Complement(mem) + 1))
    OBVIOUS
  <2>1. r \in Byte
    BY DEF TypeOK
  <2> QED
    BY <1>1, <2>1
<1> QED
  BY <1>2, TypeCorrect, PTL DEF Spec, CompareAgrees

(* The three together are what a program's arithmetic relies on (cpu.cpp   *)
(* 618 to 965).                                                            *)
THEOREM ArithmeticExact == Spec => ArithmeticIsExact
BY AdditionExact, SubtractionExact, ComparisonAgrees DEF ArithmeticIsExact

(* Rotating nine bits one way and back loses none (cpu.cpp 914-934).       *)
THEOREM RotationsAlwaysInvert == Spec => []RotationsInvert
<1>1. ASSUME NEW byte \in Byte, NEW carry \in BOOLEAN
      PROVE  /\ RorValue(RolValue(byte, carry), ShiftedOut("rol", byte)) = byte
             /\ ShiftedOut("ror", RolValue(byte, carry)) <=> carry
  <2>1. byte \in Nat /\ byte < 2 * Half /\ Half \in Nat /\ Half >= 2
    BY HalfPositive DEF Byte
  <2>2. ShiftedOut("rol", byte) <=> byte >= Half
    BY DEF ShiftedOut, Negative
  <2>3. RolValue(byte, carry) = (IF byte >= Half THEN 2 * byte - 2 * Half ELSE 2 * byte) + Bit(carry)
    BY <2>1 DEF RolValue, Wrap
  <2>4. CASE byte >= Half /\ carry
    BY <2>1, <2>2, <2>3, <2>4 DEF Bit, RorValue, ShiftRight, ShiftedOut
  <2>5. CASE byte >= Half /\ ~carry
    BY <2>1, <2>2, <2>3, <2>5 DEF Bit, RorValue, ShiftRight, ShiftedOut
  <2>6. CASE ~(byte >= Half) /\ carry
    BY <2>1, <2>2, <2>3, <2>6 DEF Bit, RorValue, ShiftRight, ShiftedOut
  <2>7. CASE ~(byte >= Half) /\ ~carry
    BY <2>1, <2>2, <2>3, <2>7 DEF Bit, RorValue, ShiftRight, ShiftedOut
  <2> QED
    BY <2>4, <2>5, <2>6, <2>7
<1>2. ASSUME NEW byte \in Byte, NEW carry \in BOOLEAN
      PROVE  /\ RolValue(RorValue(byte, carry), ShiftedOut("ror", byte)) = byte
             /\ ShiftedOut("rol", RorValue(byte, carry)) <=> carry
  <2>1. /\ byte \in Nat /\ byte < 2 * Half /\ Half \in Nat /\ Half >= 2
        /\ ShiftRight(byte) \in Nat /\ ShiftRight(byte) < Half
        /\ byte = 2 * ShiftRight(byte) + (byte % 2)
    BY HalfPositive DEF Byte, ShiftRight
  <2>2. ShiftedOut("ror", byte) <=> byte % 2 = 1
    BY DEF ShiftedOut
  <2>3. Bit(ShiftedOut("ror", byte)) = byte % 2
    BY <2>1, <2>2 DEF Bit
  <2>4. CASE carry
    BY <2>1, <2>3, <2>4 DEF RolValue, RorValue, ShiftedOut, Negative, Wrap
  <2>5. CASE ~carry
    BY <2>1, <2>3, <2>5 DEF RolValue, RorValue, ShiftedOut, Negative, Wrap
  <2> QED
    BY <2>4, <2>5
<1>3. TypeOK => RotationsInvert
  <2> SUFFICES ASSUME TypeOK, NEW byte \in {accumulator, mem}
               PROVE  /\ RorValue(RolValue(byte, C), ShiftedOut("rol", byte)) = byte
                      /\ ShiftedOut("ror", RolValue(byte, C)) = C
                      /\ RolValue(RorValue(byte, C), ShiftedOut("ror", byte)) = byte
                      /\ ShiftedOut("rol", RorValue(byte, C)) = C
    BY DEF RotationsInvert
  <2>1. byte \in Byte /\ C \in BOOLEAN
    BY DEF TypeOK
  <2>2. RolValue(byte, C) \in Byte /\ RorValue(byte, C) \in Byte
    BY <2>1, Rotations
  <2>3. /\ ShiftedOut("ror", RolValue(byte, C)) \in BOOLEAN
        /\ ShiftedOut("rol", RorValue(byte, C)) \in BOOLEAN
    BY <2>2, FlagsAreBoolean DEF Shifts
  <2> QED
    BY <1>1, <1>2, <2>1, <2>3
<1> QED
  BY <1>3, TypeCorrect, PTL

(* No instruction changes a register behind the flags' back (exec_).       *)
THEOREM FlagsAlwaysDescribe == Spec => FlagsDescribe
<1> DEFINE Described ==
      /\ accumulator' # accumulator => SetNZ(accumulator')
      /\ register_x' # register_x => SetNZ(register_x')
      /\ register_y' # register_y => SetNZ(register_y')
<1>1. ASSUME [Next]_vars PROVE Described
  <2> USE DEF registers, flags
  <2>1. CASE adc_ \/ sbc_ \/ isb_ \/ rra_
    BY <2>1 DEF adc_, sbc_, isb_, rra_, Subtract, Add
  <2>2. CASE cmp_ \/ cpx_ \/ cpy_ \/ dcp_ \/ bit_
    BY <2>2 DEF cmp_, cpx_, cpy_, dcp_, bit_
  <2>3. CASE and_ \/ ora_ \/ eor_ \/ lda_ \/ pla_ \/ txa_ \/ tya_ \/ lax_
    BY <2>3 DEF and_, ora_, eor_, lda_, pla_, txa_, tya_, lax_, SetA
  <2>4. CASE ldx_ \/ inx_ \/ dex_ \/ tax_ \/ tsx_
    BY <2>4 DEF ldx_, inx_, dex_, tax_, tsx_, SetX
  <2>5. CASE ldy_ \/ iny_ \/ dey_ \/ tay_
    BY <2>5 DEF ldy_, iny_, dey_, tay_, SetY
  <2>6. ASSUME NEW shift \in Shifts, ShiftAccumulator(shift) \/ ShiftMemory(shift)
        PROVE  Described
    BY <2>6 DEF ShiftAccumulator, ShiftMemory
  <2>7. CASE inc_ \/ dec_ \/ sta_ \/ stx_ \/ sty_ \/ sax_
    BY <2>7 DEF inc_, dec_, sta_, stx_, sty_, sax_
  <2>8. CASE clc_ \/ sec_ \/ clv_ \/ PullStatus \/ Fetch \/ UNCHANGED vars
    BY <2>8 DEF clc_, sec_, clv_, PullStatus, Fetch, vars
  <2>9. CASE rla_ \/ slo_ \/ sre_
    BY <2>9 DEF rla_, slo_, sre_, ShiftAndCombine
  <2> QED
    BY <1>1, <2>1, <2>2, <2>3, <2>4, <2>5, <2>6, <2>7, <2>8, <2>9 DEF Next, exec_
<1> QED
  BY <1>1, PTL DEF Spec, FlagsDescribe

(* What is proved of the ALU holds of the execution that follows it.       *)
THEOREM ALUFollowed == ExecutionSpec => Spec
<1>1. ExecutionInit => Init
  BY DEF ExecutionInit
<1>2. [ExecutionNext]_<<vars, program_vars, part>> => [Next]_vars
  BY DEF ExecutionNext
<1> QED
  BY <1>1, <1>2, PTL DEF ExecutionSpec, Spec

-----------------------------------------------------------------------------
(* The program.                                                            *)
LEMMA BasePositive == Base \in Nat /\ Base > 3 /\ Room \in Nat /\ Room <= Base
BY ProgramAssumption DEF P!ProgramConstants, P!StackConstants

-----------------------------------------------------------------------------
(* The stack page.                                                         *)
LEMMA MovedTyped ==
  ASSUME NEW address \in Int, NEW by \in Int
  PROVE  P!Moved(address, by) \in P!Address
<1> DEFINE space == Base * Base
<1>1. space \in Nat /\ space > 0
  BY BasePositive
<1> HIDE DEF space
<1>2. (address + by) % space \in 0..(space - 1)
  BY <1>1
<1> QED
  BY <1>2 DEF space, P!Moved, P!Address

(* The place an address was called from: what JSR takes one off.           *)
LEMMA MovedBack ==
  ASSUME NEW address \in P!Address
  PROVE  P!Moved(P!Moved(address, -1), 1) = address
<1> DEFINE space == Base * Base
<1>1. space \in Nat /\ space > 1 /\ address \in 0..(space - 1)
  BY BasePositive DEF P!Address
<1> HIDE DEF space
<1>2. (((address + -1) % space) + 1) % space = address
  <2>1. CASE address = 0
    <3>1. (address + -1) % space = space - 1
      BY <1>1, <2>1
    <3> QED
      BY <1>1, <2>1, <3>1
  <2>2. CASE address > 0
    <3>1. (address + -1) % space = address - 1
      BY <1>1, <2>2
    <3> QED
      BY <1>1, <2>2, <3>1
  <2> QED
    BY <1>1, <2>1, <2>2
<1> QED
  BY <1>2 DEF space, P!Moved

(* An address is its two bytes.                                            *)
LEMMA TwoBytes ==
  ASSUME NEW address \in P!Address
  PROVE  /\ P!Low(address) \in P!Byte /\ P!High(address) \in P!Byte
         /\ P!High(address) * Base + P!Low(address) = address
<1> USE DEF P!Address, P!Byte, P!Low, P!High
<1>1. Base \in Nat /\ Base > 3 /\ address \in Nat /\ address < Base * Base
  BY BasePositive
<1>2. address = Base * (address \div Base) + (address % Base) /\ address % Base \in 0..(Base - 1)
  BY <1>1
<1>3. address \div Base \in Nat
  BY <1>1
<1>4. address \div Base < Base
  BY <1>1, <1>2, <1>3
<1> QED
  BY <1>1, <1>2, <1>3, <1>4

LEMMA Pairs ==
  ASSUME NEW low \in P!Byte, NEW high \in P!Byte
  PROVE  high * Base + low \in P!Address
<1>1. Base \in Nat /\ Base > 3 /\ low \in 0..(Base - 1) /\ high \in 0..(Base - 1)
  BY BasePositive DEF P!Byte
<1>2. high * Base <= (Base - 1) * Base /\ (Base - 1) * Base = Base * Base - Base
      /\ high * Base \in Nat
  BY <1>1
<1> QED
  BY <1>1, <1>2 DEF P!Address

(* The pointer moves down the page byte by byte, and a whole page of bytes *)
(* has different places.                                                   *)
LEMMA PointerMoves ==
  ASSUME bottom \in P!Byte, NEW d \in Nat, d < Base
  PROVE  /\ P!PointerAt(d) \in P!Byte /\ P!PointerAt(d + 1) \in P!Byte
         /\ P!Lowered(P!PointerAt(d)) = P!PointerAt(d + 1)
         /\ P!Raised(P!PointerAt(d + 1)) = P!PointerAt(d)
BY BasePositive DEF P!PointerAt, P!Byte, P!Lowered, P!Raised

LEMMA PlacesDiffer ==
  ASSUME bottom \in P!Byte, NEW d \in Nat, d < Base, NEW e \in Nat, e < Base, d # e
  PROVE  P!PointerAt(d) # P!PointerAt(e)
BY BasePositive DEF P!PointerAt, P!Byte

(* The cells that hold a thing.                                            *)
Pair(place) == {place, place + 1}
CellsOf(thing) ==
  CASE thing.kind = "byte" -> {P!PointerAt(thing.depth - 1)}
    [] thing.kind = "call" -> Pair(P!PointerAt(thing.depth - 1))
    [] thing.kind = "handler" ->
         {P!PointerAt(thing.depth - 1)} \union Pair(P!PointerAt(thing.depth - 2))

LEMMA Widths ==
  P!Width("byte") = 1 /\ P!Width("call") = 2 /\ P!Width("handler") = 3
BY DEF P!Width

(* An address takes the places of two bytes, or the place after the page   *)
(* for one of them.                                                        *)
LEMMA PairsApart ==
  ASSUME bottom \in P!Byte, NEW d \in Nat, d > 0, NEW e \in Nat, d + 1 < e, e < Base
  PROVE  Pair(P!PointerAt(d)) \cap Pair(P!PointerAt(e)) = {}
<1>1. /\ P!PointerAt(d) # P!PointerAt(e) /\ P!PointerAt(d) + 1 # P!PointerAt(e)
      /\ P!PointerAt(d) # P!PointerAt(e) + 1
      /\ P!PointerAt(d) \in Int /\ P!PointerAt(e) \in Int
  BY BasePositive DEF P!PointerAt, P!Byte
<1> QED
  BY <1>1 DEF Pair

LEMMA ByteApart ==
  ASSUME bottom \in P!Byte, NEW d \in Nat, d > 0, d < Base,
         NEW e \in Nat, e < Base, e # d, e # d - 1
  PROVE  P!PointerAt(e) \notin Pair(P!PointerAt(d))
<1>1. P!PointerAt(e) # P!PointerAt(d) /\ P!PointerAt(e) # P!PointerAt(d) + 1
  BY BasePositive DEF P!PointerAt, P!Byte
<1> QED
  BY <1>1 DEF Pair

Sound(thing) == thing \in P!Things /\ P!Width(thing.kind) <= thing.depth

LEMMA SoundDepth ==
  ASSUME NEW thing, Sound(thing)
  PROVE  /\ thing.depth \in Nat /\ thing.depth > 0 /\ thing.depth <= Base
         /\ thing.kind \in {"call", "handler", "byte"}
         /\ thing.kind = "call" => thing.depth > 1
         /\ thing.kind = "handler" => thing.depth > 2
BY Widths, BasePositive DEF Sound, P!Things, P!Kinds

(* What is put on the stack later lies elsewhere.                          *)
LEMMA LaterByteApart ==
  ASSUME bottom \in P!Byte, NEW thing, Sound(thing),
         NEW e \in Nat, thing.depth <= e, e < Base
  PROVE  P!PointerAt(e) \notin CellsOf(thing)
<1>1. CASE thing.kind = "byte"
  <2>1. P!PointerAt(e) # P!PointerAt(thing.depth - 1)
    BY SoundDepth, BasePositive, PlacesDiffer
  <2> QED
    BY <1>1, <2>1 DEF CellsOf
<1>2. CASE thing.kind = "call"
  <2>1. P!PointerAt(e) \notin Pair(P!PointerAt(thing.depth - 1))
    BY <1>2, SoundDepth, BasePositive, ByteApart
  <2> QED
    BY <1>2, <2>1 DEF CellsOf
<1>3. CASE thing.kind = "handler"
  <2>1. P!PointerAt(e) \notin Pair(P!PointerAt(thing.depth - 2))
    BY <1>3, SoundDepth, BasePositive, ByteApart
  <2>2. P!PointerAt(e) # P!PointerAt(thing.depth - 1)
    BY SoundDepth, BasePositive, PlacesDiffer
  <2> QED
    BY <1>3, <2>1, <2>2 DEF CellsOf
<1> QED
  BY <1>1, <1>2, <1>3, SoundDepth

LEMMA LaterAddressApart ==
  ASSUME bottom \in P!Byte, NEW thing, Sound(thing),
         NEW e \in Nat, thing.depth < e, e < Base
  PROVE  Pair(P!PointerAt(e)) \cap CellsOf(thing) = {}
<1> USE BasePositive, SoundDepth
<1>1. CASE thing.kind = "byte"
  <2>1. P!PointerAt(thing.depth - 1) \notin Pair(P!PointerAt(e))
    BY ByteApart
  <2> QED
    BY <1>1, <2>1 DEF CellsOf
<1>2. CASE thing.kind = "call"
  <2>1. Pair(P!PointerAt(thing.depth - 1)) \cap Pair(P!PointerAt(e)) = {}
    BY <1>2, PairsApart
  <2> QED
    BY <1>2, <2>1 DEF CellsOf
<1>3. CASE thing.kind = "handler"
  <2>1. Pair(P!PointerAt(thing.depth - 2)) \cap Pair(P!PointerAt(e)) = {}
    BY <1>3, PairsApart
  <2>2. P!PointerAt(thing.depth - 1) \notin Pair(P!PointerAt(e))
    BY ByteApart
  <2> QED
    BY <1>3, <2>1, <2>2 DEF CellsOf
<1> QED
  BY <1>1, <1>2, <1>3

FrameOf(thing, page) == P!Frame(thing.kind, page, P!PointerAt(thing.depth))

(* A frame is read from its own cells.                                     *)
LEMMA FrameReads ==
  ASSUME bottom \in P!Byte, NEW thing, Sound(thing), NEW page
  PROVE  /\ thing.kind = "call" =>
              FrameOf(thing, page) =
                [kind |-> "call", to |-> P!Moved(P!LoadAddress(page, P!PointerAt(thing.depth - 1)), 1)]
         /\ thing.kind = "handler" =>
              FrameOf(thing, page) =
                [kind |-> "handler", to |-> P!LoadAddress(page, P!PointerAt(thing.depth - 2)),
                 status |-> page[P!PointerAt(thing.depth - 1)]]
         /\ thing.kind = "byte" =>
              FrameOf(thing, page) = [kind |-> "byte", byte |-> page[P!PointerAt(thing.depth - 1)]]
<1>1. thing.depth \in Nat /\ thing.depth > 0 /\ thing.depth <= Base
  BY SoundDepth
<1>2. P!Raised(P!PointerAt(thing.depth)) = P!PointerAt(thing.depth - 1)
  <2>1. thing.depth - 1 \in Nat /\ thing.depth - 1 < Base /\ (thing.depth - 1) + 1 = thing.depth
    BY <1>1, BasePositive
  <2> QED
    BY <2>1, PointerMoves
<1>3. thing.kind = "handler" =>
        P!Raised(P!PointerAt(thing.depth - 1)) = P!PointerAt(thing.depth - 2)
  <2> SUFFICES ASSUME thing.kind = "handler"
               PROVE  P!Raised(P!PointerAt(thing.depth - 1)) = P!PointerAt(thing.depth - 2)
    OBVIOUS
  <2>1. /\ thing.depth - 2 \in Nat /\ thing.depth - 2 < Base
        /\ (thing.depth - 2) + 1 = thing.depth - 1
    BY SoundDepth, BasePositive
  <2> QED
    BY <2>1, PointerMoves
<1> QED
  BY <1>2, <1>3 DEF FrameOf, P!Frame, P!AddressLoaded, P!ByteLoaded, P!AfterByteLoaded

LEMMA FrameDependsOnCells ==
  ASSUME bottom \in P!Byte, NEW thing, Sound(thing), NEW page, NEW other,
         \A place \in CellsOf(thing) : other[place] = page[place]
  PROVE  FrameOf(thing, other) = FrameOf(thing, page)
<1>1. CASE thing.kind = "byte"
  <2>1. other[P!PointerAt(thing.depth - 1)] = page[P!PointerAt(thing.depth - 1)]
    BY <1>1 DEF CellsOf
  <2> QED
    BY <1>1, <2>1, FrameReads
<1>2. CASE thing.kind = "call"
  <2>1. P!LoadAddress(other, P!PointerAt(thing.depth - 1))
          = P!LoadAddress(page, P!PointerAt(thing.depth - 1))
    BY <1>2 DEF CellsOf, Pair, P!LoadAddress
  <2> QED
    BY <1>2, <2>1, FrameReads
<1>3. CASE thing.kind = "handler"
  <2>1. P!LoadAddress(other, P!PointerAt(thing.depth - 2))
          = P!LoadAddress(page, P!PointerAt(thing.depth - 2))
    BY <1>3 DEF CellsOf, Pair, P!LoadAddress
  <2>2. other[P!PointerAt(thing.depth - 1)] = page[P!PointerAt(thing.depth - 1)]
    BY <1>3 DEF CellsOf
  <2> QED
    BY <1>3, <2>1, <2>2, FrameReads
<1> QED
  BY <1>1, <1>2, <1>3, SoundDepth

-----------------------------------------------------------------------------
(* What the three ways of putting something aside leave on the page.       *)

LEMMA AddressStoredReads ==
  ASSUME NEW page \in P!Cells, NEW place \in P!Byte, NEW address \in P!Address
  PROVE  /\ P!StoreAddress(page, place, address) \in P!Cells
         /\ P!LoadAddress(P!StoreAddress(page, place, address), place) = address
         /\ \A other \in 0..Base : other \notin Pair(place) =>
              P!StoreAddress(page, place, address)[other] = page[other]
<1>1. place \in 0..Base /\ place + 1 \in 0..Base /\ place # place + 1
  BY BasePositive DEF P!Byte
<1>2. P!Low(address) \in P!Byte /\ P!High(address) \in P!Byte
  BY TwoBytes
<1>3. P!LoadAddress(P!StoreAddress(page, place, address), place)
        = P!High(address) * Base + P!Low(address)
  BY <1>1 DEF P!LoadAddress, P!StoreAddress, P!Cells
<1>4. P!StoreAddress(page, place, address) \in P!Cells
  BY <1>2 DEF P!StoreAddress, P!Cells
<1> QED
  BY <1>1, <1>3, <1>4, TwoBytes DEF P!StoreAddress, P!Cells, Pair

LEMMA CellsInPage ==
  ASSUME bottom \in P!Byte, NEW thing, Sound(thing)
  PROVE  CellsOf(thing) \subseteq 0..Base
<1>1. \A d \in Nat : d < Base => P!PointerAt(d) \in 0..(Base - 1)
  BY PointerMoves DEF P!Byte
<1>2. P!PointerAt(thing.depth - 1) \in 0..(Base - 1)
  <2>1. thing.depth - 1 \in Nat /\ thing.depth - 1 < Base
    BY SoundDepth, BasePositive
  <2> QED
    BY <1>1, <2>1
<1>3. thing.kind = "handler" => P!PointerAt(thing.depth - 2) \in 0..(Base - 1)
  <2> SUFFICES ASSUME thing.kind = "handler"
               PROVE  P!PointerAt(thing.depth - 2) \in 0..(Base - 1)
    OBVIOUS
  <2>1. thing.depth - 2 \in Nat /\ thing.depth - 2 < Base
    BY SoundDepth, BasePositive
  <2> QED
    BY <1>1, <2>1
<1> QED
  BY <1>2, <1>3, SoundDepth, BasePositive DEF CellsOf, Pair

(* The three ways to put something aside, on a page with the pointer at    *)
(* depth d: what was there stays, and the new frame holds what was put.    *)
LEMMA BytePut ==
  ASSUME bottom \in P!Byte, NEW page \in P!Cells, NEW d \in Nat, d < Base, NEW b \in P!Byte
  PROVE  LET other == P!ByteStored(page, P!PointerAt(d), b)
         IN  /\ other \in P!Cells
             /\ \A thing : Sound(thing) /\ thing.depth <= d =>
                   FrameOf(thing, other) = FrameOf(thing, page)
             /\ P!Frame("byte", other, P!PointerAt(d + 1)) = [kind |-> "byte", byte |-> b]
<1> DEFINE other == P!ByteStored(page, P!PointerAt(d), b)
<1>1. P!PointerAt(d) \in 0..(Base - 1) /\ P!Raised(P!PointerAt(d + 1)) = P!PointerAt(d)
  BY PointerMoves DEF P!Byte
<1>2. other \in P!Cells /\ other[P!PointerAt(d)] = b
      /\ \A place \in 0..Base : place # P!PointerAt(d) => other[place] = page[place]
  BY <1>1, BasePositive DEF P!ByteStored, P!Cells
<1> HIDE DEF other
<1>3. ASSUME NEW thing, Sound(thing), thing.depth <= d
      PROVE  FrameOf(thing, other) = FrameOf(thing, page)
  <2>1. \A place \in CellsOf(thing) : place \in 0..Base /\ place # P!PointerAt(d)
    BY <1>3, CellsInPage, LaterByteApart
  <2> QED
    BY <1>2, <1>3, <2>1, FrameDependsOnCells
<1>4. P!Frame("byte", other, P!PointerAt(d + 1)) = [kind |-> "byte", byte |-> b]
  BY <1>1, <1>2 DEF P!Frame, P!ByteLoaded
<1> QED
  BY <1>2, <1>3, <1>4 DEF other

LEMMA AddressPut ==
  ASSUME bottom \in P!Byte, NEW page \in P!Cells, NEW d \in Nat, d + 1 < Base,
         NEW address \in P!Address,
         NEW other, other = P!AddressStored(page, P!PointerAt(d), address)
  PROVE  /\ other \in P!Cells
         /\ \A thing : Sound(thing) /\ thing.depth <= d => FrameOf(thing, other) = FrameOf(thing, page)
         /\ P!LoadAddress(other, P!PointerAt(d + 1)) = address
         /\ P!AfterAddressStored(P!PointerAt(d)) = P!PointerAt(d + 2)
<1>1. /\ P!PointerAt(d + 1) \in P!Byte /\ P!Lowered(P!PointerAt(d)) = P!PointerAt(d + 1)
      /\ P!Lowered(P!PointerAt(d + 1)) = P!PointerAt(d + 2)
  <2>1. d \in Nat /\ d < Base /\ d + 1 \in Nat /\ d + 1 < Base /\ (d + 1) + 1 = d + 2
    BY BasePositive
  <2> QED
    BY <2>1, PointerMoves
<1>2. other = P!StoreAddress(page, P!PointerAt(d + 1), address)
  BY <1>1 DEF P!AddressStored
<1>3. ASSUME NEW thing, Sound(thing), thing.depth <= d
      PROVE  FrameOf(thing, other) = FrameOf(thing, page)
  <2>1. thing.depth < d + 1
    BY <1>3, SoundDepth
  <2>2. \A place \in CellsOf(thing) : place \in 0..Base /\ place \notin Pair(P!PointerAt(d + 1))
    BY <1>3, <2>1, CellsInPage, LaterAddressApart
  <2> QED
    BY <1>1, <1>2, <1>3, <2>2, FrameDependsOnCells, AddressStoredReads
<1> QED
  BY <1>1, <1>2, <1>3, AddressStoredReads DEF P!AfterAddressStored

-----------------------------------------------------------------------------
(* What is on the stack lies on it without gaps.                           *)
Under(i) == IF i = Len(outstanding) THEN 0 ELSE outstanding[i + 1].depth

StackInv ==
  /\ bottom \in P!Byte /\ outstanding \in Seq(P!Things)
  /\ stack_pointer = P!PointerAt(P!Used)
  /\ \A i \in 1..Len(outstanding) : outstanding[i].depth = P!Width(outstanding[i].kind) + Under(i)
  /\ \A i, j \in 1..Len(outstanding) : i <= j => outstanding[j].depth <= outstanding[i].depth

LEMMA Prepended ==
  ASSUME NEW S, NEW s \in Seq(S), NEW e \in S
  PROVE  /\ <<e>> \o s \in Seq(S) /\ <<e>> \o s # <<>>
         /\ Len(<<e>> \o s) = Len(s) + 1 /\ Len(s) \in Nat
         /\ Head(<<e>> \o s) = e /\ (<<e>> \o s)[1] = e
         /\ \A i \in 1..Len(s) : (<<e>> \o s)[i + 1] = s[i]
<1>1. <<e>> \in Seq(S) /\ Len(<<e>>) = 1 /\ <<e>>[1] = e /\ Len(s) \in Nat
  OBVIOUS
<1>2. <<e>> \o s \in Seq(S) /\ Len(<<e>> \o s) = Len(s) + 1
      /\ \A i \in 1..(Len(s) + 1) : (<<e>> \o s)[i] = IF i <= 1 THEN e ELSE s[i - 1]
  BY <1>1, ConcatProperties
<1>3. <<e>> \o s # <<>> /\ Head(<<e>> \o s) = (<<e>> \o s)[1] /\ (<<e>> \o s)[1] = e
  BY <1>1, <1>2
<1>4. ASSUME NEW i \in 1..Len(s) PROVE (<<e>> \o s)[i + 1] = s[i]
  <2>1. i + 1 \in 1..(Len(s) + 1) /\ ~(i + 1 <= 1) /\ (i + 1) - 1 = i
    BY <1>1
  <2> QED
    BY <1>2, <2>1
<1> QED
  BY <1>1, <1>2, <1>3, <1>4

LEMMA HeadIsFirst ==
  ASSUME NEW S, NEW s \in Seq(S), s # <<>>
  PROVE  Head(s) = s[1]
BY EmptySeq, LenProperties

LEMMA Dropped ==
  ASSUME NEW S, NEW s \in Seq(S), s # <<>>
  PROVE  /\ Tail(s) \in Seq(S) /\ Len(Tail(s)) = Len(s) - 1
         /\ Len(s) \in Nat /\ Len(s) > 0 /\ Head(s) = s[1] /\ s[1] \in S
         /\ \A i \in 1..(Len(s) - 1) : Tail(s)[i] = s[i + 1]
         /\ Tail(s) = <<>> <=> Len(s) = 1
         /\ Tail(s) # <<>> => Head(Tail(s)) = s[2]
<1>1. /\ Tail(s) \in Seq(S) /\ Len(Tail(s)) = Len(s) - 1 /\ Head(s) \in S
      /\ \A i \in 1..Len(Tail(s)) : Tail(s)[i] = s[i + 1]
  BY HeadTailProperties
<1>2. Len(s) \in Nat /\ Len(s) > 0 /\ Head(s) = s[1]
  BY EmptySeq, LenProperties
<1>3. Tail(s) = <<>> <=> Len(s) = 1
  BY <1>1, <1>2, EmptySeq
<1>4. ASSUME Tail(s) # <<>> PROVE Head(Tail(s)) = s[2]
  <2>1. 1 \in 1..Len(Tail(s)) /\ 1 + 1 = 2
    BY <1>1, <1>2, <1>3, <1>4
  <2>2. Head(Tail(s)) = Tail(s)[1]
    BY <1>1, <1>4, HeadIsFirst
  <2> QED
    BY <1>1, <2>1, <2>2
<1> QED
  BY <1>1, <1>2, <1>3, <1>4

LEMMA UsedInRoom ==
  ASSUME StackInv
  PROVE  /\ P!Used \in 0..Room
         /\ \A i \in 1..Len(outstanding) :
              Sound(outstanding[i]) /\ outstanding[i].depth <= P!Used
         /\ outstanding # <<>> => P!Used = outstanding[1].depth
<1>1. /\ Len(outstanding) \in Nat
      /\ \A i \in 1..Len(outstanding) : outstanding[i] \in P!Things /\ outstanding[i].depth \in 0..Room
  <2>1. outstanding \in Seq(P!Things)
    BY DEF StackInv
  <2>2. Len(outstanding) \in Nat /\ \A i \in 1..Len(outstanding) : outstanding[i] \in P!Things
    BY <2>1, ElementOfSeq, LenProperties
  <2>3. \A thing \in P!Things : thing.depth \in 0..Room
    BY DEF P!Things
  <2> QED
    BY <2>2, <2>3
<1>2. ASSUME NEW i \in 1..Len(outstanding)
      PROVE  Sound(outstanding[i])
  <2>1. Under(i) >= 0 /\ Under(i) \in Int
    BY <1>1, BasePositive DEF Under
  <2>2. outstanding[i].kind \in {"call", "handler", "byte"}
    BY <1>1 DEF P!Things, P!Kinds
  <2> QED
    BY <1>1, <2>1, <2>2, Widths DEF StackInv, Sound
<1>3. CASE outstanding = <<>>
  BY <1>1, <1>3, BasePositive DEF P!Used
<1>4. CASE outstanding # <<>>
  <2>1. Len(outstanding) > 0 /\ P!Used = outstanding[1].depth
    BY <1>4, Dropped DEF StackInv, P!Used
  <2>2. \A i \in 1..Len(outstanding) : outstanding[i].depth <= outstanding[1].depth
    BY <1>1, <2>1 DEF StackInv
  <2> QED
    BY <1>1, <1>2, <2>1, <2>2
<1> QED
  BY <1>3, <1>4

(* Every thing that is put on the stack lies on top of it, and what was    *)
(* there stays below.                                                      *)
LEMMA StackPut ==
  ASSUME StackInv, NEW kind \in P!Kinds, NEW o \in BOOLEAN, P!Puts(kind, o),
         stack_pointer' = P!PointerAt(P!Used + P!Width(kind))
  PROVE  StackInv'
<1> DEFINE d == P!Used + P!Width(kind)
           thing == [kind |-> kind, depth |-> d, opened |-> o]
<1>1. d \in 0..Room /\ P!Used \in 0..Room /\ P!Width(kind) \in Nat /\ d = P!Used + P!Width(kind)
  BY UsedInRoom, Widths, BasePositive DEF P!Puts, P!Kinds
<1>2. thing \in P!Things
  BY <1>1 DEF P!Things
<1>3. outstanding' = <<thing>> \o outstanding /\ bottom' = bottom
  BY DEF P!Puts
<1>4. thing.kind = kind /\ thing.depth = d
  OBVIOUS
<1> HIDE DEF thing, d
<1>5. /\ outstanding' \in Seq(P!Things) /\ outstanding' # <<>>
      /\ Len(outstanding') = Len(outstanding) + 1 /\ Len(outstanding) \in Nat
      /\ Head(outstanding') = thing /\ outstanding'[1] = thing
      /\ \A i \in 1..Len(outstanding) : outstanding'[i + 1] = outstanding[i]
  BY <1>2, <1>3, Prepended DEF StackInv
<1>6. stack_pointer' = P!PointerAt(P!Used)'
  <2>1. (P!Used)' = d
    BY <1>4, <1>5 DEF P!Used
  <2> QED
    BY <1>3, <2>1 DEF P!PointerAt, d
<1>7. ASSUME NEW i \in 1..Len(outstanding')
      PROVE  outstanding'[i].depth = P!Width(outstanding'[i].kind) + Under(i)'
  <2>1. CASE i = 1
    <3>1. Under(i)' = P!Used
      <4>1. CASE outstanding = <<>>
        BY <1>5, <2>1, <4>1 DEF Under, P!Used
      <4>2. CASE outstanding # <<>>
        <5>1. Len(outstanding) >= 1
          BY <1>5, <4>2, Dropped DEF StackInv
        <5>2. i # Len(outstanding') /\ outstanding'[i + 1] = outstanding[1]
          BY <1>5, <2>1, <5>1
        <5> QED
          BY <4>2, <5>2, UsedInRoom DEF Under
      <4> QED
        BY <4>1, <4>2
    <3> QED
      BY <1>1, <1>4, <1>5, <2>1, <3>1 DEF d
  <2>2. CASE i > 1
    <3>1. i - 1 \in 1..Len(outstanding) /\ outstanding'[i] = outstanding[i - 1]
      <4>1. i - 1 \in 1..Len(outstanding) /\ (i - 1) + 1 = i
        BY <1>5, <2>2
      <4> QED
        BY <1>5, <4>1
    <3>2. Under(i)' = Under(i - 1)
      <4>1. CASE i = Len(outstanding')
        BY <1>5, <4>1 DEF Under
      <4>2. CASE i # Len(outstanding')
        <5>1. i \in 1..Len(outstanding) /\ i - 1 # Len(outstanding) /\ (i - 1) + 1 = i
          BY <1>5, <2>2, <4>2
        <5> QED
          BY <1>5, <4>2, <5>1 DEF Under
      <4> QED
        BY <4>1, <4>2
    <3> QED
      BY <3>1, <3>2 DEF StackInv
  <2> QED
    BY <1>5, <2>1, <2>2
<1>8. ASSUME NEW i \in 1..Len(outstanding'), NEW j \in 1..Len(outstanding'), i <= j
      PROVE  outstanding'[j].depth <= outstanding'[i].depth
  <2>1. \A k \in 1..Len(outstanding') : k > 1 =>
          k - 1 \in 1..Len(outstanding) /\ outstanding'[k] = outstanding[k - 1]
    <3> SUFFICES ASSUME NEW k \in 1..Len(outstanding'), k > 1
                 PROVE  k - 1 \in 1..Len(outstanding) /\ outstanding'[k] = outstanding[k - 1]
      OBVIOUS
    <3>1. k - 1 \in 1..Len(outstanding) /\ (k - 1) + 1 = k
      BY <1>5
    <3> QED
      BY <1>5, <3>1
  <2>2. CASE i = 1 /\ j > 1
    <3>1. j - 1 \in 1..Len(outstanding) /\ outstanding'[j] = outstanding[j - 1]
      BY <2>1, <2>2
    <3>2. outstanding[j - 1].depth <= P!Used /\ outstanding[j - 1].depth \in Int
      BY <3>1, UsedInRoom DEF Sound, P!Things
    <3> QED
      BY <1>1, <1>4, <1>5, <2>2, <3>1, <3>2
  <2>3. CASE i > 1
    <3>1. i - 1 \in 1..Len(outstanding) /\ outstanding'[i] = outstanding[i - 1]
          /\ j - 1 \in 1..Len(outstanding) /\ outstanding'[j] = outstanding[j - 1]
          /\ i - 1 <= j - 1
      BY <1>5, <1>8, <2>1, <2>3
    <3> QED
      BY <3>1 DEF StackInv
  <2>4. CASE i = 1 /\ j = 1
    BY <1>1, <1>4, <1>5, <2>4
  <2> QED
    BY <1>5, <1>8, <2>2, <2>3, <2>4
<1> QED
  BY <1>3, <1>5, <1>6, <1>7, <1>8 DEF StackInv

LEMMA StackTaken ==
  ASSUME StackInv, NEW kind \in P!Kinds, P!Takes(kind)
  PROVE  /\ (P!Used)' = P!Used - P!Width(kind) /\ P!Used >= P!Width(kind)
         /\ outstanding[1].kind = kind
         /\ stack_pointer' = P!PointerAt(P!Used - P!Width(kind)) => StackInv'
<1>1. /\ outstanding # <<>> /\ outstanding' = Tail(outstanding) /\ bottom' = bottom
      /\ Head(outstanding).kind = kind
  BY DEF P!Takes
<1>2. /\ outstanding' \in Seq(P!Things) /\ Len(outstanding') = Len(outstanding) - 1
      /\ Len(outstanding) \in Nat /\ Len(outstanding) > 0 /\ Head(outstanding) = outstanding[1]
      /\ \A i \in 1..Len(outstanding') : outstanding'[i] = outstanding[i + 1]
      /\ outstanding' = <<>> <=> Len(outstanding) = 1
      /\ outstanding' # <<>> => Head(outstanding') = outstanding[2]
  BY <1>1, Dropped DEF StackInv
<1>3. P!Used = P!Width(kind) + Under(1) /\ (P!Used)' = Under(1)
  <2>1. P!Used = outstanding[1].depth
    BY <1>1, UsedInRoom
  <2>2. outstanding[1].depth = P!Width(kind) + Under(1)
    BY <1>1, <1>2 DEF StackInv
  <2> QED
    BY <1>2, <2>1, <2>2 DEF Under, P!Used
<1>4. Under(1) \in Nat /\ P!Width(kind) \in Nat
  <2>1. \A i \in 1..Len(outstanding) : outstanding[i].depth \in Nat
    BY UsedInRoom DEF Sound, P!Things
  <2> QED
    BY <1>2, <2>1, Widths DEF Under, P!Kinds
<1>5. ASSUME NEW i \in 1..Len(outstanding')
      PROVE  i + 1 \in 1..Len(outstanding) /\ Under(i)' = Under(i + 1)
  <2>1. i + 1 \in 1..Len(outstanding)
    BY <1>2
  <2>2. CASE i = Len(outstanding')
    BY <1>2, <2>2 DEF Under
  <2>3. CASE i # Len(outstanding')
    <3>1. i + 1 \in 1..Len(outstanding') /\ i + 1 # Len(outstanding)
      BY <1>2, <2>3
    <3> QED
      BY <1>2, <2>3, <3>1 DEF Under
  <2> QED
    BY <2>1, <2>2, <2>3
<1>6. ASSUME stack_pointer' = P!PointerAt(P!Used - P!Width(kind))
      PROVE  StackInv'
  <2>1. stack_pointer' = P!PointerAt(P!Used)'
    <3>1. (P!Used)' = P!Used - P!Width(kind)
      BY <1>3, <1>4
    <3> QED
      BY <1>1, <1>6, <3>1 DEF P!PointerAt
  <2>2. \A i \in 1..Len(outstanding') :
          outstanding'[i].depth = P!Width(outstanding'[i].kind) + Under(i)'
    BY <1>2, <1>5 DEF StackInv
  <2>3. ASSUME NEW i \in 1..Len(outstanding'), NEW j \in 1..Len(outstanding'), i <= j
        PROVE  outstanding'[j].depth <= outstanding'[i].depth
    <3>1. i + 1 \in 1..Len(outstanding) /\ j + 1 \in 1..Len(outstanding) /\ i + 1 <= j + 1
      BY <1>2, <2>3
    <3> QED
      BY <1>2, <3>1 DEF StackInv
  <2> QED
    BY <1>1, <1>2, <2>1, <2>2, <2>3 DEF StackInv
<1> QED
  BY <1>1, <1>2, <1>3, <1>4, <1>6

-----------------------------------------------------------------------------
(* The frames follow what is put on the stack and taken off it.            *)
LEMMA FunctionIsSeq ==
  ASSUME NEW n \in Nat, NEW S, NEW f \in [1..n -> S]
  PROVE  f \in Seq(S) /\ Len(f) = n
OBVIOUS

AnyFrame == {P!Frame(kind, page, sp) : kind \in P!Kinds, page \in P!Cells, sp \in P!Byte}

LEMMA FrameAtDepth ==
  ASSUME StackInv, NEW page \in P!Cells
  PROVE  \A i \in 1..Len(outstanding) :
           /\ P!PointerAt(outstanding[i].depth) \in P!Byte
           /\ FrameOf(outstanding[i], page) \in AnyFrame
<1> SUFFICES ASSUME NEW i \in 1..Len(outstanding)
             PROVE  /\ P!PointerAt(outstanding[i].depth) \in P!Byte
                    /\ FrameOf(outstanding[i], page) \in AnyFrame
  OBVIOUS
<1> DEFINE d == outstanding[i].depth
<1>1. d \in Nat /\ d > 0 /\ d <= Base /\ outstanding[i].kind \in P!Kinds
  BY UsedInRoom, SoundDepth DEF P!Kinds
<1>2. P!PointerAt(d) \in P!Byte
  <2> HIDE DEF d
  <2>1. d - 1 \in Nat /\ d - 1 < Base /\ (d - 1) + 1 = d
    BY <1>1, BasePositive
  <2> QED
    BY <2>1, PointerMoves DEF StackInv
<1> QED
  BY <1>1, <1>2 DEF FrameOf, AnyFrame

LEMMA FramesAreSeq ==
  ASSUME StackInv, NEW page \in P!Cells
  PROVE  LET all == [i \in 1..Len(outstanding) |-> FrameOf(outstanding[i], page)]
         IN  all \in Seq(AnyFrame) /\ Len(all) = Len(outstanding)
<1> DEFINE all == [i \in 1..Len(outstanding) |-> FrameOf(outstanding[i], page)]
<1>1. Len(outstanding) \in Nat
  BY LenProperties DEF StackInv
<1>2. all \in [1..Len(outstanding) -> AnyFrame]
  BY FrameAtDepth
<1> QED
  BY <1>1, <1>2, FunctionIsSeq

LEMMA FramesPut ==
  ASSUME StackInv, cell \in P!Cells, cell' \in P!Cells,
         NEW kind \in P!Kinds, NEW o \in BOOLEAN, P!Puts(kind, o),
         stack_pointer' = P!PointerAt(P!Used + P!Width(kind)),
         \A thing : Sound(thing) /\ thing.depth <= P!Used =>
           FrameOf(thing, cell') = FrameOf(thing, cell)
  PROVE  P!frames' = <<P!Frame(kind, cell', stack_pointer')>> \o P!frames
<1> DEFINE new == P!Frame(kind, cell', stack_pointer')
           thing == [kind |-> kind, depth |-> P!Used + P!Width(kind), opened |-> o]
           n == Len(outstanding)
<1>1. /\ outstanding' = <<thing>> \o outstanding /\ bottom' = bottom
      /\ outstanding' \in Seq(P!Things) /\ Len(outstanding') = n + 1 /\ n \in Nat
      /\ outstanding'[1] = thing
      /\ \A i \in 1..n : outstanding'[i + 1] = outstanding[i]
  <2>1. thing \in P!Things
    BY UsedInRoom, Widths, BasePositive DEF P!Puts, P!Kinds, P!Things
  <2>2. outstanding' = <<thing>> \o outstanding /\ bottom' = bottom
    BY DEF P!Puts
  <2> HIDE DEF thing
  <2> QED
    BY <2>1, <2>2, Prepended DEF StackInv
<1>2. P!frames = [i \in 1..n |-> FrameOf(outstanding[i], cell)]
  BY DEF P!frames, FrameOf
<1>3. P!frames \in Seq(AnyFrame) /\ Len(P!frames) = n
  BY <1>2, FramesAreSeq
<1>4. new \in AnyFrame
  <2>1. stack_pointer' \in P!Byte
    <3> DEFINE d == P!Used + P!Width(kind)
    <3>1. d \in Nat /\ d > 0 /\ d <= Base
      BY UsedInRoom, Widths, BasePositive DEF P!Puts, P!Kinds
    <3> HIDE DEF d
    <3>2. d - 1 \in Nat /\ d - 1 < Base /\ (d - 1) + 1 = d
      BY <3>1, BasePositive
    <3> QED
      BY <3>2, PointerMoves DEF StackInv, d
  <2> QED
    BY <2>1 DEF AnyFrame
<1>5. P!frames' = [i \in 1..(n + 1) |->
                     P!Frame(outstanding'[i].kind, cell', P!PointerAt(outstanding'[i].depth))]
  BY <1>1 DEF P!frames, P!PointerAt
<1>6. \A i \in 1..(n + 1) : P!frames'[i] = IF i = 1 THEN new ELSE P!frames[i - 1]
  <2> SUFFICES ASSUME NEW i \in 1..(n + 1)
               PROVE  P!frames'[i] = IF i = 1 THEN new ELSE P!frames[i - 1]
    OBVIOUS
  <2>1. P!frames'[i] = P!Frame(outstanding'[i].kind, cell', P!PointerAt(outstanding'[i].depth))
    BY <1>5
  <2>2. CASE i = 1
    BY <1>1, <2>1, <2>2
  <2>3. CASE i # 1
    <3>1. i - 1 \in 1..n /\ (i - 1) + 1 = i
      BY <1>1, <2>3
    <3>2. outstanding'[i] = outstanding[i - 1]
      BY <1>1, <3>1
    <3>3. P!frames'[i] = FrameOf(outstanding[i - 1], cell')
      BY <2>1, <3>2 DEF FrameOf
    <3>4. Sound(outstanding[i - 1]) /\ outstanding[i - 1].depth <= P!Used
      BY <3>1, UsedInRoom
    <3>5. FrameOf(outstanding[i - 1], cell') = FrameOf(outstanding[i - 1], cell)
      BY <3>4
    <3> QED
      BY <1>2, <2>3, <3>1, <3>3, <3>5
  <2> QED
    BY <2>2, <2>3
<1> HIDE DEF new
<1>7. /\ <<new>> \o P!frames \in Seq(AnyFrame) /\ Len(<<new>> \o P!frames) = n + 1
      /\ (<<new>> \o P!frames)[1] = new
      /\ \A i \in 1..n : (<<new>> \o P!frames)[i + 1] = P!frames[i]
  BY <1>3, <1>4, Prepended
<1>8. P!frames' \in Seq(AnyFrame) /\ Len(P!frames') = n + 1
  <2>1. P!frames' \in [1..(n + 1) -> AnyFrame]
    <3>1. \A i \in 1..(n + 1) : P!frames'[i] \in AnyFrame
      <4> SUFFICES ASSUME NEW i \in 1..(n + 1) PROVE P!frames'[i] \in AnyFrame
        OBVIOUS
      <4>1. i # 1 => i - 1 \in 1..Len(P!frames)
        BY <1>1, <1>3
      <4> QED
        BY <1>3, <1>4, <1>6, <4>1, ElementOfSeq
    <3> QED
      BY <1>5, <3>1
  <2>2. n + 1 \in Nat
    BY <1>1
  <2> QED
    BY <2>1, <2>2, FunctionIsSeq
<1>9. \A i \in 1..Len(P!frames') : P!frames'[i] = (<<new>> \o P!frames)[i]
  <2> SUFFICES ASSUME NEW i \in 1..(n + 1)
               PROVE  P!frames'[i] = (<<new>> \o P!frames)[i]
    BY <1>8
  <2>1. CASE i = 1
    BY <1>6, <1>7, <2>1
  <2>2. CASE i # 1
    <3>1. i - 1 \in 1..n /\ (i - 1) + 1 = i
      BY <1>1, <2>2
    <3> QED
      BY <1>6, <1>7, <2>2, <3>1
  <2> QED
    BY <2>1, <2>2
<1> QED
  BY <1>7, <1>8, <1>9, SeqEqual DEF new

LEMMA FramesTaken ==
  ASSUME StackInv, cell \in P!Cells, UNCHANGED cell, NEW kind \in P!Kinds, P!Takes(kind)
  PROVE  /\ P!frames' = Tail(P!frames)
         /\ P!frames # <<>> /\ Head(P!frames) = P!Frame(kind, cell, stack_pointer)
<1> DEFINE n == Len(outstanding)
<1>1. /\ outstanding # <<>> /\ outstanding' = Tail(outstanding) /\ bottom' = bottom
      /\ Head(outstanding).kind = kind
  BY DEF P!Takes
<1>2. /\ outstanding' \in Seq(P!Things) /\ Len(outstanding') = n - 1
      /\ n \in Nat /\ n > 0 /\ Head(outstanding) = outstanding[1]
      /\ \A i \in 1..(n - 1) : outstanding'[i] = outstanding[i + 1]
  BY <1>1, Dropped DEF StackInv
<1>3. P!frames = [i \in 1..n |-> FrameOf(outstanding[i], cell)]
  BY DEF P!frames, FrameOf
<1>4. P!frames \in Seq(AnyFrame) /\ Len(P!frames) = n /\ P!frames # <<>>
  BY <1>2, <1>3, FramesAreSeq
<1>5. /\ Tail(P!frames) \in Seq(AnyFrame) /\ Len(Tail(P!frames)) = n - 1
      /\ Head(P!frames) = P!frames[1]
      /\ \A i \in 1..(n - 1) : Tail(P!frames)[i] = P!frames[i + 1]
  BY <1>4, Dropped
<1>6. P!frames' = [i \in 1..(n - 1) |-> FrameOf(outstanding[i + 1], cell)]
  <2>1. P!frames' = [i \in 1..(n - 1) |->
                       P!Frame(outstanding'[i].kind, cell', P!PointerAt(outstanding'[i].depth))]
    BY <1>1, <1>2 DEF P!frames, P!PointerAt
  <2> QED
    BY <1>2, <2>1 DEF FrameOf
<1>7. \A i \in 1..(n - 1) : P!frames'[i] = Tail(P!frames)[i]
  <2> SUFFICES ASSUME NEW i \in 1..(n - 1) PROVE P!frames'[i] = Tail(P!frames)[i]
    OBVIOUS
  <2>1. i + 1 \in 1..n
    BY <1>2
  <2> QED
    BY <1>3, <1>5, <1>6, <2>1
<1>8. P!frames' \in Seq(AnyFrame) /\ Len(P!frames') = n - 1
  <2>1. P!frames' \in [1..(n - 1) -> AnyFrame]
    <3>1. \A i \in 1..(n - 1) : P!frames'[i] \in AnyFrame
      BY <1>5, <1>7, ElementOfSeq
    <3> QED
      BY <1>6, <3>1
  <2>2. n - 1 \in Nat
    BY <1>2
  <2> QED
    BY <2>1, <2>2, FunctionIsSeq
<1>9. Head(P!frames) = P!Frame(kind, cell, stack_pointer)
  <2>1. outstanding[1].depth = P!Used /\ outstanding[1].kind = kind /\ 1 \in 1..n
    BY <1>1, <1>2, UsedInRoom
  <2> QED
    BY <1>3, <1>5, <2>1 DEF FrameOf, StackInv
<1> QED
  BY <1>4, <1>5, <1>7, <1>8, <1>9, SeqEqual

(* What dividing leaves.                                                   *)
LEMMA Division ==
  ASSUME NEW x \in Nat, NEW m \in Nat, m > 0
  PROVE  x \div m \in Nat /\ x % m \in 0..(m - 1) /\ x = m * (x \div m) + (x % m)
<1>1. x = m * (x \div m) + (x % m)
  OBVIOUS
<1>3. x % m \in 0..(m - 1)
  OBVIOUS
<1>2. x \div m \in Nat
  OBVIOUS
<1> QED
  BY <1>1, <1>2, <1>3

LEMMA Remainder ==
  ASSUME NEW m \in Nat, m > 0, NEW q \in Int, NEW r \in 0..(m - 1)
  PROVE  (m * q + r) % m = r /\ (m * q + r) \div m = q
OBVIOUS

LEMMA ModAdd ==
  ASSUME NEW x \in Nat, NEW m \in Nat, m > 0, NEW y \in Int, (x % m) + y < m, (x % m) + y >= 0
  PROVE  (x + y) % m = (x % m) + y
<1> DEFINE q == x \div m
<1>1. q \in Nat /\ x % m \in 0..(m - 1) /\ x + y = m * q + ((x % m) + y)
  BY Division
<1> HIDE DEF q
<1>2. (x % m) + y \in 0..(m - 1)
  BY <1>1
<1> QED
  BY <1>1, <1>2, Remainder

LEMMA ModMultiple ==
  ASSUME NEW x \in Nat, NEW m \in Nat, m > 0, NEW k \in Int
  PROVE  (x + m * k) % m = x % m
<1> DEFINE q == x \div m
           r == x % m
<1>1. q \in Nat /\ r \in 0..(m - 1) /\ x = m * q + r
  BY Division
<1> HIDE DEF q, r
<1>2. m * (q + k) = m * q + m * k /\ m * q \in Int /\ m * k \in Int
  BY <1>1
<1>3. x + m * k = m * (q + k) + r
  BY <1>1, <1>2
<1>4. (m * (q + k) + r) % m = r
  BY <1>1, Remainder
<1> QED
  BY <1>3, <1>4 DEF r

LEMMA Multiple ==
  ASSUME NEW m \in Nat, m > 0, NEW x \in Nat, x % m = 0
  PROVE  \E k \in Nat : x = m * k
BY Division

LEMMA ModOfMod ==
  ASSUME NEW x \in Nat, NEW m \in Nat, m > 0, NEW n \in Nat, n > 0, n % m = 0
  PROVE  (x % n) % m = x % m
<1>1. PICK k \in Nat : n = m * k
  BY Multiple
<1> DEFINE q == x \div n
           r == x % n
<1>2. q \in Nat /\ r \in Nat /\ x = n * q + r
  BY Division
<1> HIDE DEF q, r
<1>3. x = r + m * (k * q)
  BY <1>1, <1>2
<1>4. k * q \in Int
  BY <1>1, <1>2
<1>5. (r + m * (k * q)) % m = r % m
  BY <1>2, <1>4, ModMultiple
<1> QED
  BY <1>3, <1>5 DEF r

(* Below a multiple of 2f there is room for an f that is not there yet.    *)
LEMMA RoomForBit ==
  ASSUME NEW f \in Nat, f > 0, NEW m \in Nat, m % (2 * f) = 0,
         NEW x \in Nat, x < m, x % (2 * f) < f
  PROVE  x + f < m
<1> DEFINE w == 2 * f
<1>1. PICK k \in Nat : m = w * k
  BY Multiple
<1> DEFINE q == x \div w
           r == x % w
<1>2. q \in Nat /\ r \in Nat /\ x = w * q + r /\ w = f + f /\ w \in Nat /\ r < f
  <2>1. 2 * f \in Nat /\ 2 * f > 0 /\ 2 * f = f + f
    OBVIOUS
  <2> QED
    BY <2>1, Division
<1> HIDE DEF w, q, r
<1>3. q < k
  BY <1>1, <1>2
<1>4. w * (q + 1) <= w * k /\ w * (q + 1) = w * q + w
  BY <1>1, <1>2, <1>3
<1> QED
  BY <1>1, <1>2, <1>4

LEMMA HigherBit ==
  ASSUME NEW f \in Nat, f > 0, NEW g \in Nat, g > 0, g % (2 * f) = 0
  PROVE  (2 * g) % (2 * f) = 0
<1> DEFINE w == 2 * f
<1>1. w \in Nat /\ w > 0
  OBVIOUS
<1> HIDE DEF w
<1>2. PICK k \in Nat : g = w * k
  BY <1>1, Multiple DEF w
<1>3. 2 * g = w * (2 * k) + 0
  BY <1>1, <1>2
<1>4. (w * (2 * k) + 0) % w = 0
  BY <1>1, Remainder
<1> QED
  BY <1>3, <1>4 DEF w

-----------------------------------------------------------------------------
(* Flags are kept apart: to set or clear one leaves the others.            *)

LEMMA FlagBits ==
  ASSUME NEW f \in {kCarry, kIntDisable, kBreak}
  PROVE  /\ f \in Nat /\ f > 0 /\ Base % (2 * f) = 0
         /\ 2 * f \in Nat /\ 2 * f > 0
BY ProgramAssumption DEF P!ProgramConstants, P!FlagConstants

LEMMA FlagSet ==
  ASSUME NEW f \in {kCarry, kIntDisable, kBreak}, NEW s \in P!Byte
  PROVE  /\ P!With(s, f) \in P!Byte /\ P!Has(P!With(s, f), f)
         /\ P!Without(s, f) \in P!Byte
<1> DEFINE w == 2 * f
           r == s % w
<1>1. /\ f \in Nat /\ f > 0 /\ Base % w = 0 /\ w \in Nat /\ w > 0 /\ w = f + f
      /\ Base \in Nat /\ s \in Nat /\ s < Base
  BY FlagBits, BasePositive DEF P!Byte
<1>2. r \in 0..(w - 1) /\ r <= s
  <2>1. s \div w \in Nat /\ r \in 0..(w - 1) /\ s = w * (s \div w) + r
    BY <1>1, Division
  <2>2. w * (s \div w) \in Nat
    BY <1>1, <2>1
  <2> QED
    BY <1>1, <2>1, <2>2
<1>3. r < f => s + f < Base
  BY <1>1, RoomForBit
<1>4. r < f => (s + f) % w = r + f
  BY <1>1, <1>2, ModAdd
<1>5. P!Has(s, f) <=> r >= f
  BY DEF P!Has
<1>6. P!Has(s + f, f) <=> (s + f) % w >= f
  BY DEF P!Has
<1> HIDE DEF w, r
<1>7. CASE r >= f
  BY <1>1, <1>2, <1>5, <1>7 DEF P!With, P!Without, P!Byte
<1>8. CASE r < f
  BY <1>1, <1>2, <1>3, <1>4, <1>5, <1>6, <1>8 DEF P!With, P!Without, P!Byte
<1> QED
  BY <1>1, <1>2, <1>7, <1>8

LEMMA HigherFlagKeeps ==
  ASSUME NEW f \in {kCarry, kIntDisable, kBreak}, NEW g \in {kCarry, kIntDisable, kBreak},
         g % (2 * f) = 0, NEW s \in P!Byte
  PROVE  /\ P!Has(P!With(s, g), f) <=> P!Has(s, f)
         /\ P!Has(P!Without(s, g), f) <=> P!Has(s, f)
<1> DEFINE w == 2 * f
<1>1. s \in Nat /\ g \in Nat /\ w \in Nat /\ w > 0
  BY FlagBits, BasePositive DEF P!Byte
<1>2. PICK k \in Nat : g = w * k
  BY <1>1, Multiple
<1> HIDE DEF w
<1>3. s + g = s + w * k /\ s - g = s + w * (-k) /\ -k \in Int /\ k \in Int
  BY <1>1, <1>2
<1>4. (s + w * k) % w = s % w /\ (s + w * (-k)) % w = s % w
  BY <1>1, <1>3, ModMultiple
<1>5. (s + g) % w = s % w /\ (s - g) % w = s % w
  BY <1>3, <1>4
<1> QED
  BY <1>5 DEF w, P!Has, P!With, P!Without

LEMMA LowerFlagKeeps ==
  ASSUME NEW f \in {kCarry, kIntDisable, kBreak}, NEW g \in {kCarry, kIntDisable, kBreak},
         g % (2 * f) = 0, NEW s \in P!Byte
  PROVE  /\ P!Has(P!With(s, f), g) <=> P!Has(s, g)
         /\ P!Has(P!Without(s, f), g) <=> P!Has(s, g)
<1> DEFINE w == 2 * f
           m == 2 * g
           t == s % m
<1>1. /\ s \in Nat /\ f \in Nat /\ f > 0 /\ g \in Nat /\ g > 0 /\ w = f + f /\ m = g + g
      /\ w \in Nat /\ w > 0 /\ m \in Nat /\ m > 0
  BY FlagBits, BasePositive DEF P!Byte
<1>2. m % w = 0
  BY <1>1, HigherBit
<1>3. t \in 0..(m - 1) /\ t % w = s % w
  BY <1>1, <1>2, Division, ModOfMod
<1>4. ASSUME s % w < f PROVE (s + f) % m >= g <=> t >= g
  <2>1. t \in Nat /\ t < m /\ t % (2 * f) < f /\ m % (2 * f) = 0 /\ g % (2 * f) = 0
    BY <1>1, <1>2, <1>3, <1>4
  <2>2. t = s % m
    OBVIOUS
  <2> HIDE DEF t, m, w
  <2>3. t + f < m
    BY <1>1, <2>1, RoomForBit
  <2>4. t < g => t + f < g
    BY <1>1, <2>1, RoomForBit
  <2>5. (s % m) + f < m /\ (s % m) + f >= 0
    BY <1>1, <2>1, <2>2, <2>3
  <2>6. (s + f) % m = (s % m) + f
    BY <1>1, <2>5, ModAdd
  <2> QED
    BY <1>1, <2>1, <2>2, <2>4, <2>6
<1>5. ASSUME s % w >= f PROVE (s - f) % m >= g <=> t >= g
  <2>1. t % w \in 0..(w - 1) /\ t % w <= t
    <3>1. t \in Nat
      BY <1>3
    <3>2. t \div w \in Nat /\ t % w \in 0..(w - 1) /\ t = w * (t \div w) + (t % w)
      BY <1>1, <3>1, Division
    <3> HIDE DEF t, w
    <3>3. w * (t \div w) \in Nat
      BY <1>1, <3>2
    <3> QED
      BY <3>1, <3>2, <3>3
  <2>2. t - f \in Nat /\ t - f < m
    BY <1>1, <1>3, <1>5, <2>1
  <2>3. (s + (-f)) % m = t + (-f)
    BY <1>1, <2>2, ModAdd
  <2>4. (t + (-f)) % w = (t % w) + (-f)
    BY <1>1, <1>3, <1>5, <2>1, ModAdd
  <2>5. t - f < g => (t - f) + f < g
    <3>1. (t - f) % w < f
      <4> HIDE DEF w, t
      <4> QED
        BY <1>1, <1>3, <2>1, <2>4
    <3> QED
      BY <1>1, <2>2, <3>1, RoomForBit
  <2> HIDE DEF t, m, w
  <2> QED
    BY <1>1, <1>3, <2>2, <2>3, <2>5
<1> QED
  BY <1>1, <1>3, <1>4, <1>5 DEF P!Has, P!With, P!Without

(* What is loaded from the page is a byte or an address.                   *)
LEMMA Loads ==
  ASSUME NEW page \in P!Cells, NEW sp \in P!Byte
  PROVE  /\ P!Raised(sp) \in P!Byte /\ P!Lowered(sp) \in P!Byte
         /\ P!ByteLoaded(page, sp) \in P!Byte /\ P!AddressLoaded(page, sp) \in P!Address
<1>1. P!Raised(sp) \in P!Byte /\ P!Lowered(sp) \in P!Byte
  BY BasePositive DEF P!Byte, P!Raised, P!Lowered
<1>2. P!Raised(sp) \in 0..Base /\ P!Raised(sp) + 1 \in 0..Base
  BY <1>1, BasePositive DEF P!Byte
<1>3. page[P!Raised(sp)] \in P!Byte /\ page[P!Raised(sp) + 1] \in P!Byte
  BY <1>2 DEF P!Cells
<1> QED
  BY <1>1, <1>3, Pairs DEF P!ByteLoaded, P!AddressLoaded, P!LoadAddress

LEMMA PointerIsByte ==
  ASSUME bottom \in P!Byte, NEW d \in 0..Base
  PROVE  P!PointerAt(d) \in P!Byte
BY BasePositive DEF P!PointerAt, P!Byte

LEMMA HandlerPut ==
  ASSUME P!TypeOK, StackInv, NEW address \in P!Address, NEW byte \in P!Byte,
         NEW o \in BOOLEAN, P!Puts("handler", o),
         cell' = P!ByteStored(P!AddressStored(cell, stack_pointer, address),
                              P!AfterAddressStored(stack_pointer), byte),
         stack_pointer' = P!AfterByteStored(P!AfterAddressStored(stack_pointer))
  PROVE  /\ cell' \in P!Cells /\ stack_pointer' \in P!Byte /\ StackInv'
         /\ P!frames' = <<[kind |-> "handler", to |-> address, status |-> byte]>> \o P!frames
<1> DEFINE d == P!Used
           page == P!AddressStored(cell, stack_pointer, address)
           thing == [kind |-> "handler", depth |-> d + 3, opened |-> o]
<1>1. /\ bottom \in P!Byte /\ cell \in P!Cells /\ "handler" \in P!Kinds
      /\ stack_pointer = P!PointerAt(d) /\ P!Width("handler") = 3
  BY Widths DEF StackInv, P!TypeOK, P!Kinds
<1>2. d \in Nat /\ d + 3 <= Room /\ d + 3 \in 0..Room
  BY <1>1, UsedInRoom, BasePositive DEF P!Puts
<1>3. Sound(thing)
  BY <1>1, <1>2 DEF Sound, P!Things
<1>4. thing.kind = "handler" /\ thing.depth = d + 3
  OBVIOUS
<1> HIDE DEF d, thing
<1>5. /\ d + 1 \in Nat /\ d + 2 \in Nat /\ d + 1 < Base /\ d + 2 < Base
      /\ (d + 2) + 1 = d + 3 /\ d + 3 \in 0..Base /\ d + 1 > 0
      /\ d + 2 # d + 1 /\ d + 2 # (d + 1) - 1
      /\ (d + 3) - 1 = d + 2 /\ (d + 3) - 2 = d + 1
  BY <1>2, BasePositive
<1>6. /\ page \in P!Cells /\ P!LoadAddress(page, P!PointerAt(d + 1)) = address
      /\ P!AfterAddressStored(stack_pointer) = P!PointerAt(d + 2)
      /\ \A t : Sound(t) /\ t.depth <= d => FrameOf(t, page) = FrameOf(t, cell)
  BY <1>1, <1>2, <1>5, AddressPut
<1> HIDE DEF page
<1>7. cell' = P!ByteStored(page, P!PointerAt(d + 2), byte)
  BY <1>6 DEF page
<1>8. /\ cell' \in P!Cells
      /\ \A t : Sound(t) /\ t.depth <= d + 2 => FrameOf(t, cell') = FrameOf(t, page)
  <2> DEFINE e == d + 2
  <2>1. e \in Nat /\ e < Base
    BY <1>5
  <2>2. cell' = P!ByteStored(page, P!PointerAt(e), byte)
    BY <1>7
  <2> HIDE DEF e
  <2>3. /\ cell' \in P!Cells
        /\ \A t : Sound(t) /\ t.depth <= e => FrameOf(t, cell') = FrameOf(t, page)
    <3>1. bottom \in P!Byte /\ page \in P!Cells
      BY <1>1, <1>6
    <3> DEFINE new == P!ByteStored(page, P!PointerAt(e), byte)
    <3>2. /\ new \in P!Cells
          /\ \A t : Sound(t) /\ t.depth <= e => FrameOf(t, new) = FrameOf(t, page)
      BY <2>1, <3>1, BytePut
    <3> HIDE DEF new
    <3>3. cell' = new
      BY <2>2 DEF new
    <3> QED
      BY <3>2, <3>3
  <2> QED
    BY <2>3 DEF e
<1>9. stack_pointer' = P!PointerAt(d + 3) /\ stack_pointer' \in P!Byte
  <2>1. P!Lowered(P!PointerAt(d + 2)) = P!PointerAt((d + 2) + 1)
    BY <1>1, <1>5, PointerMoves
  <2>2. P!PointerAt(d + 3) \in P!Byte
    BY <1>1, <1>5, PointerIsByte
  <2> QED
    BY <1>5, <1>6, <2>1, <2>2 DEF P!AfterByteStored
<1>10. cell'[P!PointerAt(d + 2)] = byte /\ P!LoadAddress(cell', P!PointerAt(d + 1)) = address
  <2>1. P!PointerAt(d + 2) \notin Pair(P!PointerAt(d + 1))
    BY <1>1, <1>5, ByteApart
  <2>2. P!PointerAt(d + 2) \in P!Byte /\ P!PointerAt(d + 1) \in P!Byte
    BY <1>1, <1>5, PointerMoves
  <2>3. /\ P!PointerAt(d + 2) \in 0..Base /\ P!PointerAt(d + 1) \in 0..Base
        /\ P!PointerAt(d + 1) + 1 \in 0..Base
    BY <2>2, BasePositive DEF P!Byte
  <2> QED
    BY <1>6, <1>7, <2>1, <2>3 DEF P!ByteStored, P!LoadAddress, P!Cells, Pair
<1>11. P!Frame("handler", cell', stack_pointer') =
         [kind |-> "handler", to |-> address, status |-> byte]
  <2>1. FrameOf(thing, cell') = [kind |-> "handler", to |-> address, status |-> byte]
    BY <1>1, <1>3, <1>4, <1>5, <1>10, FrameReads
  <2> QED
    BY <1>4, <1>9, <2>1 DEF FrameOf
<1>12. \A t : Sound(t) /\ t.depth <= P!Used => FrameOf(t, cell') = FrameOf(t, cell)
  <2> SUFFICES ASSUME NEW t, Sound(t), t.depth <= d
               PROVE  FrameOf(t, cell') = FrameOf(t, cell)
    BY DEF d
  <2>1. t.depth <= d + 2
    BY <1>2, SoundDepth
  <2> QED
    BY <1>6, <1>8, <2>1
<1>13. stack_pointer' = P!PointerAt(P!Used + P!Width("handler"))
  BY <1>1, <1>9 DEF d
<1>14. P!frames' = <<P!Frame("handler", cell', stack_pointer')>> \o P!frames
  BY <1>1, <1>8, <1>12, <1>13, FramesPut
<1>15. StackInv'
  BY <1>1, <1>13, StackPut
<1> QED
  BY <1>8, <1>9, <1>11, <1>14, <1>15

LEMMA CallPut ==
  ASSUME P!TypeOK, StackInv, NEW address \in P!Address, P!Puts("call", FALSE),
         cell' = P!AddressStored(cell, stack_pointer, address),
         stack_pointer' = P!AfterAddressStored(stack_pointer)
  PROVE  /\ cell' \in P!Cells /\ stack_pointer' \in P!Byte /\ StackInv'
         /\ P!frames' = <<[kind |-> "call", to |-> P!Moved(address, 1)]>> \o P!frames
<1> DEFINE d == P!Used
<1>1. /\ bottom \in P!Byte /\ cell \in P!Cells /\ "call" \in P!Kinds
      /\ stack_pointer = P!PointerAt(d) /\ P!Width("call") = 2
  BY Widths DEF StackInv, P!TypeOK, P!Kinds
<1>2. d \in Nat /\ d + 2 <= Room
  BY <1>1, UsedInRoom, BasePositive DEF P!Puts
<1> HIDE DEF d
<1>3. d + 1 \in Nat /\ d + 1 < Base /\ (d + 1) + 1 = d + 2 /\ d + 2 \in 0..Base
  BY <1>2, BasePositive
<1>4. /\ cell' \in P!Cells /\ P!LoadAddress(cell', P!PointerAt(d + 1)) = address
      /\ stack_pointer' = P!PointerAt(d + 2)
      /\ \A t : Sound(t) /\ t.depth <= d => FrameOf(t, cell') = FrameOf(t, cell)
  BY <1>1, <1>2, <1>3, AddressPut
<1>5. P!Raised(P!PointerAt(d + 2)) = P!PointerAt(d + 1)
  BY <1>1, <1>3, PointerMoves
<1>6. P!Frame("call", cell', stack_pointer') = [kind |-> "call", to |-> P!Moved(address, 1)]
  BY <1>4, <1>5 DEF P!Frame, P!AddressLoaded
<1>7. stack_pointer' = P!PointerAt(P!Used + P!Width("call"))
  BY <1>1, <1>4 DEF d
<1>8. P!frames' = <<P!Frame("call", cell', stack_pointer')>> \o P!frames
  BY <1>1, <1>4, <1>7, FramesPut DEF d
<1>9. StackInv'
  BY <1>1, <1>7, StackPut
<1>10. stack_pointer' \in P!Byte
  BY <1>1, <1>3, <1>4, PointerIsByte
<1> QED
  BY <1>4, <1>6, <1>8, <1>9, <1>10

LEMMA BytePutAside ==
  ASSUME P!TypeOK, StackInv, NEW byte \in P!Byte, P!Puts("byte", FALSE),
         cell' = P!ByteStored(cell, stack_pointer, byte),
         stack_pointer' = P!AfterByteStored(stack_pointer)
  PROVE  /\ cell' \in P!Cells /\ stack_pointer' \in P!Byte /\ StackInv'
         /\ P!frames' = <<[kind |-> "byte", byte |-> byte]>> \o P!frames
<1> DEFINE d == P!Used
<1>1. /\ bottom \in P!Byte /\ cell \in P!Cells /\ "byte" \in P!Kinds
      /\ stack_pointer = P!PointerAt(d) /\ P!Width("byte") = 1
  BY Widths DEF StackInv, P!TypeOK, P!Kinds
<1>2. d \in Nat /\ d + 1 <= Room
  BY <1>1, UsedInRoom, BasePositive DEF P!Puts
<1> HIDE DEF d
<1>3. d < Base /\ d + 1 \in 0..Base
  BY <1>2, BasePositive
<1>4. stack_pointer' = P!PointerAt(d + 1)
  BY <1>1, <1>2, <1>3, PointerMoves DEF P!AfterByteStored
<1>5. /\ cell' \in P!Cells
      /\ P!Frame("byte", cell', stack_pointer') = [kind |-> "byte", byte |-> byte]
      /\ \A t : Sound(t) /\ t.depth <= d => FrameOf(t, cell') = FrameOf(t, cell)
  <2>1. /\ cell' \in P!Cells
        /\ \A t : Sound(t) /\ t.depth <= d => FrameOf(t, cell') = FrameOf(t, cell)
    BY <1>1, <1>2, <1>3, BytePut
  <2>2. P!Frame("byte", cell', P!PointerAt(d + 1)) = [kind |-> "byte", byte |-> byte]
    BY <1>1, <1>2, <1>3, BytePut
  <2> QED
    BY <1>4, <2>1, <2>2
<1>6. stack_pointer' = P!PointerAt(P!Used + P!Width("byte"))
  BY <1>1, <1>4 DEF d
<1>7. P!frames' = <<P!Frame("byte", cell', stack_pointer')>> \o P!frames
  BY <1>1, <1>5, <1>6, FramesPut DEF d
<1>8. StackInv'
  BY <1>1, <1>6, StackPut
<1>9. stack_pointer' \in P!Byte
  BY <1>1, <1>3, <1>4, PointerIsByte
<1> QED
  BY <1>5, <1>7, <1>8, <1>9

(* What is taken off is the frame that was last put on.                    *)
LEMMA Taken ==
  ASSUME P!TypeOK, StackInv, NEW kind \in P!Kinds, P!Takes(kind), UNCHANGED cell,
         stack_pointer' = CASE kind = "call" -> P!AfterAddressLoaded(stack_pointer)
                            [] kind = "handler" -> P!AfterAddressLoaded(P!AfterByteLoaded(stack_pointer))
                            [] kind = "byte" -> P!AfterByteLoaded(stack_pointer)
  PROVE  /\ stack_pointer' \in P!Byte /\ StackInv'
         /\ P!frames # <<>> /\ P!frames' = Tail(P!frames)
         /\ Head(P!frames) = P!Frame(kind, cell, stack_pointer)
<1> DEFINE d == P!Used
           w == P!Width(kind)
<1>1. /\ bottom \in P!Byte /\ cell \in P!Cells /\ stack_pointer = P!PointerAt(d)
  BY DEF StackInv, P!TypeOK
<1>2. d \in Nat /\ d <= Base /\ w \in {1, 2, 3} /\ w <= d
  BY UsedInRoom, StackTaken, Widths, BasePositive DEF P!Kinds
<1>3. stack_pointer' = P!PointerAt(d - w)
  <2> HIDE DEF d
  <2>1. \A e \in 1..Base : P!Raised(P!PointerAt(e)) = P!PointerAt(e - 1)
    <3> SUFFICES ASSUME NEW e \in 1..Base
                 PROVE  P!Raised(P!PointerAt(e)) = P!PointerAt(e - 1)
      OBVIOUS
    <3>1. e - 1 \in Nat /\ e - 1 < Base /\ (e - 1) + 1 = e
      BY BasePositive
    <3> QED
      BY <1>1, <3>1, PointerMoves
  <2>2. CASE kind = "call"
    <3>1. w = 2 /\ d \in 1..Base /\ d - 1 \in 1..Base /\ (d - 1) - 1 = d - 2
      BY <1>2, <2>2, Widths, BasePositive
    <3>2. stack_pointer' = P!Raised(P!Raised(stack_pointer))
      BY <2>2 DEF P!AfterAddressLoaded
    <3> QED
      BY <1>1, <2>1, <3>1, <3>2
  <2>3. CASE kind = "handler"
    <3>1. /\ w = 3 /\ d \in 1..Base /\ d - 1 \in 1..Base /\ (d - 1) - 1 = d - 2
          /\ d - 2 \in 1..Base /\ (d - 2) - 1 = d - 3
      BY <1>2, <2>3, Widths, BasePositive
    <3>2. stack_pointer' = P!Raised(P!Raised(P!Raised(stack_pointer)))
      BY <2>3 DEF P!AfterAddressLoaded, P!AfterByteLoaded
    <3> QED
      BY <1>1, <2>1, <3>1, <3>2
  <2>4. CASE kind = "byte"
    <3>1. w = 1 /\ d \in 1..Base
      BY <1>2, <2>4, Widths, BasePositive
    <3>2. stack_pointer' = P!Raised(stack_pointer)
      BY <2>4 DEF P!AfterByteLoaded
    <3> QED
      BY <1>1, <2>1, <3>1, <3>2
  <2> QED
    BY <2>2, <2>3, <2>4 DEF P!Kinds
<1>4. StackInv'
  BY <1>3, StackTaken
<1>5. stack_pointer' \in P!Byte
  <2>1. d - w \in 0..Base
    BY <1>2, BasePositive
  <2> QED
    BY <1>1, <1>3, <2>1, PointerIsByte
<1> QED
  BY <1>1, <1>4, <1>5, FramesTaken

(* Types of what an instruction is made of.                                *)
LEMMA Instructions ==
  ASSUME P!TypeOK, P!Known(program_counter)
  PROVE  /\ P!Following \in P!Address /\ P!arg \in Int /\ P!Following \in Int
         /\ P!op \in {"jsr", "jmp"} => P!arg \in P!Address
<1>1. program_counter \in Int /\ P!Size(P!op) \in Int
  BY BasePositive DEF P!TypeOK, P!Address, P!Size
<1>2. P!Following \in P!Address
  BY <1>1, MovedTyped DEF P!Following
<1>3. P!arg \in Int /\ (P!op \in {"jsr", "jmp"} => P!arg \in P!Address)
  <2>1. Code[program_counter].arg \in -(Base \div 2)..(Base * Base - 1)
    BY ProgramAssumption DEF P!ProgramConstants, P!Known
  <2>2. Code[program_counter].op \in {"jsr", "jmp"} => Code[program_counter].arg \in P!Address
    BY ProgramAssumption DEF P!ProgramConstants, P!Known
  <2> QED
    BY <2>1, <2>2 DEF P!arg, P!op
<1> QED
  BY <1>2, <1>3, BasePositive DEF P!Address

LEMMA Vectors ==
  /\ NmiVector \in P!Address /\ IrqVector \in P!Address /\ ResetVector \in P!Address
  /\ Inputs \subseteq P!Byte
BY ProgramAssumption DEF P!ProgramConstants

LEMMA KindsApart ==
  "call" \in P!Kinds /\ "handler" \in P!Kinds /\ "byte" \in P!Kinds
BY DEF P!Kinds

(* CPU::reset masks interrupts.                                            *)
LEMMA ResetStatus == kIntDisable \in P!Byte /\ P!Has(kIntDisable, kIntDisable)
<1> DEFINE w == 2 * kIntDisable
<1>1. /\ kIntDisable \in Nat /\ kIntDisable > 0 /\ Base % w = 0 /\ w \in Nat /\ w > 0
      /\ w = kIntDisable + kIntDisable /\ Base \in Nat /\ Base > 0
  BY FlagBits, BasePositive
<1>2. w <= Base
  <2> HIDE DEF w
  <2>1. PICK k \in Nat : Base = w * k
    BY <1>1, Multiple
  <2>2. k > 0
    BY <1>1, <2>1
  <2>3. w * 1 <= w * k
    BY <1>1, <2>1, <2>2
  <2> QED
    BY <1>1, <2>1, <2>3
<1>3. kIntDisable % w = kIntDisable
  <2> HIDE DEF w
  <2>1. kIntDisable \in 0..(w - 1) /\ w * 0 + kIntDisable = kIntDisable
    BY <1>1
  <2> QED
    BY <1>1, <2>1, Remainder
<1> QED
  BY <1>1, <1>2, <1>3 DEF P!Byte, P!Has

LEMMA FlagOrder ==
  kIntDisable % (2 * kCarry) = 0 /\ kBreak % (2 * kIntDisable) = 0
BY ProgramAssumption DEF P!ProgramConstants, P!FlagConstants

-----------------------------------------------------------------------------
(* A handler on the stack gives back a masked status, or one that had let  *)
(* interrupts in.                                                          *)
Masked(s) == P!Has(s, kIntDisable)

MaskedFrames ==
  \A i \in 1..Len(outstanding) :
    outstanding[i].kind = "handler" => Masked(P!frames[i].status) \/ outstanding[i].opened

ProgramInv ==
  P!TypeOK /\ opened \in BOOLEAN /\ StackInv /\ OpenedByProgram /\ MaskedFrames

LEMMA FramesLikeOutstanding ==
  ASSUME StackInv, cell \in P!Cells
  PROVE  P!frames \in Seq(AnyFrame) /\ Len(P!frames) = Len(outstanding)
         /\ Len(outstanding) \in Nat
<1>1. Len(outstanding) \in Nat
  BY LenProperties DEF StackInv
<1> QED
  BY <1>1, FramesAreSeq DEF P!frames, FrameOf

LEMMA MaskedPut ==
  ASSUME StackInv, StackInv', cell \in P!Cells, cell' \in P!Cells, MaskedFrames,
         NEW kind \in P!Kinds, NEW o \in BOOLEAN, P!Puts(kind, o),
         NEW frame, P!frames' = <<frame>> \o P!frames,
         kind = "handler" => Masked(frame.status) \/ o
  PROVE  MaskedFrames'
<1> DEFINE thing == [kind |-> kind, depth |-> P!Used + P!Width(kind), opened |-> o]
           n == Len(outstanding)
<1>1. /\ outstanding' = <<thing>> \o outstanding /\ thing.kind = kind /\ thing.opened = o
  BY DEF P!Puts
<1>2. thing \in P!Things
  BY UsedInRoom, Widths, BasePositive DEF P!Puts, P!Kinds, P!Things
<1> HIDE DEF thing
<1>3. /\ Len(outstanding') = n + 1 /\ n \in Nat /\ outstanding'[1] = thing
      /\ \A i \in 1..n : outstanding'[i + 1] = outstanding[i]
  BY <1>1, <1>2, Prepended DEF StackInv
<1>4. /\ P!frames \in Seq({frame} \union AnyFrame) /\ Len(P!frames) = n
  <2>1. P!frames \in Seq(AnyFrame) /\ Len(P!frames) = n
    BY FramesLikeOutstanding
  <2>2. \A i \in 1..n : P!frames[i] \in {frame} \union AnyFrame
    BY <1>3, <2>1, ElementOfSeq
  <2>3. P!frames \in [1..n -> {frame} \union AnyFrame]
    BY <2>2 DEF P!frames
  <2> QED
    BY <1>3, <2>1, <2>3, FunctionIsSeq
<1>5. /\ P!frames'[1] = frame
      /\ \A i \in 1..n : P!frames'[i + 1] = P!frames[i]
  BY <1>4, Prepended
<1>6. ASSUME NEW i \in 1..Len(outstanding'), outstanding'[i].kind = "handler"
      PROVE  Masked(P!frames'[i].status) \/ outstanding'[i].opened
  <2>1. CASE i = 1
    BY <1>1, <1>3, <1>5, <1>6, <2>1
  <2>2. CASE i # 1
    <3>1. i - 1 \in 1..n /\ (i - 1) + 1 = i
      BY <1>3, <2>2
    <3>2. outstanding'[i] = outstanding[i - 1] /\ P!frames'[i] = P!frames[i - 1]
      BY <1>3, <1>5, <3>1
    <3> QED
      BY <1>6, <3>1, <3>2 DEF MaskedFrames
  <2> QED
    BY <2>1, <2>2
<1> QED
  BY <1>6 DEF MaskedFrames, Masked

LEMMA MaskedTaken ==
  ASSUME StackInv, cell \in P!Cells, MaskedFrames,
         NEW kind \in P!Kinds, P!Takes(kind),
         P!frames # <<>>, P!frames' = Tail(P!frames)
  PROVE  /\ MaskedFrames' /\ Head(outstanding) \in P!Things
         /\ kind = "handler" => Masked(Head(P!frames).status) \/ Head(outstanding).opened
<1> DEFINE n == Len(outstanding)
<1>1. outstanding # <<>> /\ outstanding' = Tail(outstanding) /\ Head(outstanding).kind = kind
  BY DEF P!Takes
<1>2. /\ Len(outstanding') = n - 1 /\ n \in Nat /\ n > 0
      /\ Head(outstanding) = outstanding[1] /\ outstanding[1] \in P!Things
      /\ \A i \in 1..(n - 1) : outstanding'[i] = outstanding[i + 1]
  BY <1>1, Dropped DEF StackInv
<1>3. P!frames \in Seq(AnyFrame) /\ Len(P!frames) = n
  BY FramesLikeOutstanding
<1>4. /\ Head(P!frames) = P!frames[1]
      /\ \A i \in 1..(n - 1) : P!frames'[i] = P!frames[i + 1]
  BY <1>3, Dropped
<1>5. ASSUME NEW i \in 1..Len(outstanding'), outstanding'[i].kind = "handler"
      PROVE  Masked(P!frames'[i].status) \/ outstanding'[i].opened
  <2>1. i \in 1..(n - 1) /\ i + 1 \in 1..n
    BY <1>2
  <2>2. outstanding'[i] = outstanding[i + 1] /\ P!frames'[i] = P!frames[i + 1]
    BY <1>2, <1>4, <2>1
  <2> QED
    BY <1>5, <2>1, <2>2 DEF MaskedFrames
<1>6. MaskedFrames'
  BY <1>5 DEF MaskedFrames, Masked
<1>7. kind = "handler" => Masked(Head(P!frames).status) \/ Head(outstanding).opened
  <2>1. 1 \in 1..n
    BY <1>2
  <2> QED
    BY <1>1, <1>2, <1>4, <2>1 DEF MaskedFrames
<1> QED
  BY <1>2, <1>6, <1>7

-----------------------------------------------------------------------------
(* One step of the program: the invariant stays, and the step is one of    *)
(* the abstract specification.                                             *)
LEMMA InterruptedImplements ==
  ASSUME ProgramInv, P!Interrupted
  PROVE  ProgramInv' /\ Abstract!Enter
<1> DEFINE masked == P!InHandler(status)
<1>1. /\ P!TypeOK /\ StackInv /\ MaskedFrames /\ opened \in BOOLEAN
      /\ status \in P!Byte /\ program_counter \in P!Address /\ old_pc \in P!Address
      /\ cell \in P!Cells
  BY DEF ProgramInv, P!TypeOK
<1>2. /\ P!Puts("handler", opened) /\ opened' = FALSE
      /\ \E vector \in {NmiVector, IrqVector} : P!Enter(vector)
  BY DEF P!Interrupted, P!nmi_, P!irq_
<1>3. /\ cell' = P!ByteStored(P!AddressStored(cell, stack_pointer, program_counter),
                              P!AfterAddressStored(stack_pointer), masked)
      /\ stack_pointer' = P!AfterByteStored(P!AfterAddressStored(stack_pointer))
      /\ program_counter' \in {NmiVector, IrqVector} /\ old_pc' = old_pc /\ status' = masked
  BY <1>2 DEF P!Enter, P!Registers, P!PutAside
<1>4. masked \in P!Byte /\ Masked(masked)
  BY <1>1, FlagSet DEF P!InHandler, Masked
<1>5. masked = P!MaskedStatus(P!UnmarkedStatus(status))
  BY DEF P!InHandler, P!MaskedStatus, P!UnmarkedStatus
<1> HIDE DEF masked
<1>6. /\ cell' \in P!Cells /\ stack_pointer' \in P!Byte /\ StackInv'
      /\ P!frames' = <<[kind |-> "handler", to |-> program_counter, status |-> masked]>> \o P!frames
  BY <1>1, <1>2, <1>3, <1>4, HandlerPut
<1>7. MaskedFrames'
  <2> DEFINE frame == [kind |-> "handler", to |-> program_counter, status |-> masked]
  <2>1. frame.status = masked
    OBVIOUS
  <2> HIDE DEF frame
  <2>2. P!frames' = <<frame>> \o P!frames
    BY <1>6 DEF frame
  <2> QED
    BY <1>1, <1>2, <1>4, <1>6, <2>1, <2>2, KindsApart, MaskedPut
<1>8. program_counter' \in P!Address
  BY <1>3, Vectors
<1>9. P!TypeOK'
  BY <1>1, <1>3, <1>4, <1>6, <1>8 DEF P!TypeOK
<1>10. OpenedByProgram'
  BY <1>3, <1>4 DEF OpenedByProgram, Masked
<1>11. Abstract!Enter
  BY <1>3, <1>5, <1>6, <1>8 DEF Abstract!Enter, Abstract!PutAside, Abstract!Handler
<1> QED
  BY <1>2, <1>6, <1>7, <1>9, <1>10, <1>11 DEF ProgramInv

LEMMA BrokeImplements ==
  ASSUME ProgramInv, P!Broke
  PROVE  ProgramInv' /\ Abstract!Break
<1> DEFINE marked == P!With(status, kBreak)
<1>1. /\ P!TypeOK /\ StackInv /\ MaskedFrames /\ opened \in BOOLEAN /\ OpenedByProgram
      /\ status \in P!Byte /\ program_counter \in P!Address /\ cell \in P!Cells
  BY DEF ProgramInv, P!TypeOK
<1>2. /\ P!Puts("handler", opened) /\ opened' = FALSE
      /\ P!Known(program_counter) /\ P!op = "brk"
  BY DEF P!Broke, P!brk_, P!At
<1>3. /\ cell' = P!ByteStored(P!AddressStored(cell, stack_pointer, P!Following),
                              P!AfterAddressStored(stack_pointer), marked)
      /\ stack_pointer' = P!AfterByteStored(P!AfterAddressStored(stack_pointer))
      /\ program_counter' = IrqVector /\ old_pc' = program_counter
      /\ status' = P!With(marked, kIntDisable)
  BY DEF P!Broke, P!brk_, P!Then, P!Registers
<1>4. marked \in P!Byte /\ status' \in P!Byte /\ Masked(status')
  <2>1. marked \in P!Byte
    BY <1>1, FlagSet
  <2> HIDE DEF marked
  <2> QED
    BY <1>3, <2>1, FlagSet DEF Masked
<1>5. Masked(marked) <=> Masked(status)
  BY <1>1, FlagOrder, HigherFlagKeeps DEF Masked
<1>6. P!Following = P!Moved(program_counter, 2) /\ P!Following \in P!Address
  BY <1>1, <1>2, Instructions DEF P!Following, P!Size
<1>7. marked = P!MarkedStatus(status) /\ status' = P!MaskedStatus(marked)
  BY <1>3 DEF P!MarkedStatus, P!MaskedStatus
<1> HIDE DEF marked
<1> DEFINE next == P!Following
<1>8. next \in P!Address
  BY <1>6
<1>9. cell' = P!ByteStored(P!AddressStored(cell, stack_pointer, next),
                           P!AfterAddressStored(stack_pointer), marked)
  BY <1>3
<1> HIDE DEF next
<1>10. /\ cell' \in P!Cells /\ stack_pointer' \in P!Byte /\ StackInv'
       /\ P!frames' = <<[kind |-> "handler", to |-> next, status |-> marked]>> \o P!frames
  BY <1>1, <1>2, <1>3, <1>4, <1>8, <1>9, HandlerPut
<1>11. MaskedFrames'
  <2> DEFINE frame == [kind |-> "handler", to |-> next, status |-> marked]
  <2>1. frame.status = marked
    OBVIOUS
  <2> HIDE DEF frame
  <2>2. P!frames' = <<frame>> \o P!frames
    BY <1>10 DEF frame
  <2>3. Masked(marked) \/ opened
    BY <1>1, <1>5 DEF OpenedByProgram, Masked
  <2> QED
    BY <1>1, <1>2, <1>10, <2>1, <2>2, <2>3, KindsApart, MaskedPut
<1>12. P!TypeOK'
  BY <1>1, <1>3, <1>4, <1>10, Vectors DEF P!TypeOK
<1>13. OpenedByProgram'
  BY <1>4 DEF OpenedByProgram, Masked
<1>14. Abstract!Break
  BY <1>3, <1>6, <1>7, <1>10, Vectors DEF next, Abstract!Break, Abstract!PutAside, Abstract!Handler
<1> QED
  BY <1>2, <1>10, <1>11, <1>12, <1>13, <1>14 DEF ProgramInv

LEMMA LeftImplements ==
  ASSUME ProgramInv, P!Left
  PROVE  ProgramInv' /\ Abstract!Leave
<1> DEFINE after == P!AfterByteLoaded(stack_pointer)
<1>1. /\ P!TypeOK /\ StackInv /\ MaskedFrames
      /\ program_counter \in P!Address /\ cell \in P!Cells /\ stack_pointer \in P!Byte
  BY DEF ProgramInv, P!TypeOK
<1>2. /\ P!Takes("handler") /\ opened' = Head(outstanding).opened /\ UNCHANGED cell
      /\ stack_pointer' = P!AfterAddressLoaded(after)
      /\ program_counter' = P!AddressLoaded(cell, after) /\ old_pc' = program_counter
      /\ status' = P!ByteLoaded(cell, stack_pointer)
  BY DEF P!Left, P!rti_, P!Then, P!Registers
<1>3. status' \in P!Byte /\ after \in P!Byte /\ program_counter' \in P!Address
  <2>1. status' \in P!Byte /\ after \in P!Byte
    BY <1>1, <1>2, Loads DEF P!AfterByteLoaded
  <2> HIDE DEF after
  <2> QED
    BY <1>1, <1>2, <2>1, Loads
<1>4. /\ stack_pointer' \in P!Byte /\ StackInv'
      /\ P!frames # <<>> /\ P!frames' = Tail(P!frames)
      /\ Head(P!frames) = P!Frame("handler", cell, stack_pointer)
  BY <1>1, <1>2, KindsApart, Taken
<1>5. Head(P!frames) = [kind |-> "handler", to |-> program_counter', status |-> status']
  BY <1>2, <1>4 DEF P!Frame
<1>6. /\ MaskedFrames' /\ Head(outstanding) \in P!Things
      /\ Masked(Head(P!frames).status) \/ Head(outstanding).opened
  BY <1>1, <1>2, <1>4, KindsApart, MaskedTaken
<1>7. OpenedByProgram'
  BY <1>2, <1>5, <1>6 DEF OpenedByProgram, Masked
<1>8. opened' \in BOOLEAN
  BY <1>2, <1>6 DEF P!Things
<1>9. P!TypeOK'
  BY <1>1, <1>2, <1>3, <1>4 DEF P!TypeOK
<1>10. Abstract!Leave
  <2>1. /\ Head(P!frames).kind = "handler" /\ program_counter' = Head(P!frames).to
        /\ status' = Head(P!frames).status
    BY <1>5
  <2> QED
    BY <1>4, <2>1 DEF Abstract!Leave, Abstract!Top, Abstract!TakeBack
<1> QED
  BY <1>4, <1>6, <1>7, <1>8, <1>9, <1>10 DEF ProgramInv

LEMMA CalledImplements ==
  ASSUME ProgramInv, P!Called
  PROVE  ProgramInv' /\ Abstract!CallSubroutine
<1> DEFINE address == P!Moved(P!Following, -1)
<1>1. /\ P!TypeOK /\ StackInv /\ MaskedFrames /\ opened \in BOOLEAN /\ OpenedByProgram
      /\ status \in P!Byte /\ program_counter \in P!Address /\ cell \in P!Cells
  BY DEF ProgramInv, P!TypeOK
<1>2. /\ P!Puts("call", FALSE) /\ opened' = opened
      /\ P!Known(program_counter) /\ P!op = "jsr"
      /\ cell' = P!AddressStored(cell, stack_pointer, address)
      /\ stack_pointer' = P!AfterAddressStored(stack_pointer)
      /\ program_counter' = P!arg /\ old_pc' = program_counter /\ status' = status
  BY DEF P!Called, P!jsr_, P!At, P!Then, P!Registers
<1>3. /\ P!Following \in P!Address /\ P!Following \in Int /\ P!arg \in P!Address
      /\ P!Following = P!Moved(program_counter, 3)
  BY <1>1, <1>2, Instructions DEF P!Following, P!Size
<1>4. address \in P!Address /\ P!Moved(address, 1) = P!Moved(program_counter, 3)
  BY <1>3, MovedTyped, MovedBack
<1> HIDE DEF address
<1>5. /\ cell' \in P!Cells /\ stack_pointer' \in P!Byte /\ StackInv'
      /\ P!frames' = <<[kind |-> "call", to |-> P!Moved(address, 1)]>> \o P!frames
  BY <1>1, <1>2, <1>4, CallPut
<1>6. MaskedFrames'
  <2> DEFINE frame == [kind |-> "call", to |-> P!Moved(address, 1)]
  <2>1. P!frames' = <<frame>> \o P!frames
    BY <1>5
  <2> HIDE DEF frame
  <2>2. "call" # "handler"
    OBVIOUS
  <2> QED
    BY <1>1, <1>2, <1>5, <2>1, <2>2, KindsApart, MaskedPut
<1>7. P!TypeOK'
  BY <1>1, <1>2, <1>3, <1>5 DEF P!TypeOK
<1>8. OpenedByProgram'
  BY <1>1, <1>2 DEF OpenedByProgram
<1>9. Abstract!CallSubroutine
  BY <1>2, <1>3, <1>4, <1>5 DEF Abstract!CallSubroutine, Abstract!PutAside, Abstract!Call
<1> QED
  BY <1>1, <1>2, <1>5, <1>6, <1>7, <1>8, <1>9 DEF ProgramInv

LEMMA ReturnedImplements ==
  ASSUME ProgramInv, P!Returned
  PROVE  ProgramInv' /\ Abstract!Return
<1>1. /\ P!TypeOK /\ StackInv /\ MaskedFrames /\ opened \in BOOLEAN /\ OpenedByProgram
      /\ status \in P!Byte /\ program_counter \in P!Address /\ cell \in P!Cells
      /\ stack_pointer \in P!Byte
  BY DEF ProgramInv, P!TypeOK
<1>2. /\ P!Takes("call") /\ opened' = opened /\ UNCHANGED cell
      /\ stack_pointer' = P!AfterAddressLoaded(stack_pointer)
      /\ program_counter' = P!Moved(P!AddressLoaded(cell, stack_pointer), 1)
      /\ old_pc' = program_counter /\ status' = status
  BY DEF P!Returned, P!rts_, P!Then, P!Registers
<1>3. program_counter' \in P!Address
  <2>1. P!AddressLoaded(cell, stack_pointer) \in Int
    BY <1>1, Loads, BasePositive DEF P!Address
  <2> QED
    BY <1>2, <2>1, MovedTyped
<1>4. /\ stack_pointer' \in P!Byte /\ StackInv'
      /\ P!frames # <<>> /\ P!frames' = Tail(P!frames)
      /\ Head(P!frames) = P!Frame("call", cell, stack_pointer)
  BY <1>1, <1>2, KindsApart, Taken
<1>5. Head(P!frames) = [kind |-> "call", to |-> program_counter']
  BY <1>2, <1>4 DEF P!Frame
<1>6. MaskedFrames'
  BY <1>1, <1>2, <1>4, KindsApart, MaskedTaken
<1>7. P!TypeOK'
  BY <1>1, <1>2, <1>3, <1>4 DEF P!TypeOK
<1>8. OpenedByProgram'
  BY <1>1, <1>2 DEF OpenedByProgram
<1>9. Abstract!Return
  <2>1. Head(P!frames).kind = "call" /\ program_counter' = Head(P!frames).to
    BY <1>5
  <2> QED
    BY <1>2, <1>4, <2>1 DEF Abstract!Return, Abstract!Top, Abstract!TakeBack
<1> QED
  BY <1>1, <1>2, <1>4, <1>6, <1>7, <1>8, <1>9 DEF ProgramInv

LEMMA PutByteImplements ==
  ASSUME ProgramInv, P!PutByte
  PROVE  ProgramInv' /\ Abstract!Save
<1>1. /\ P!TypeOK /\ StackInv /\ MaskedFrames /\ opened \in BOOLEAN /\ OpenedByProgram
      /\ status \in P!Byte /\ program_counter \in P!Address /\ cell \in P!Cells
  BY DEF ProgramInv, P!TypeOK
<1>2. PICK byte \in P!Byte : P!Push(byte) /\ (P!At("pha") \/ P!At("php"))
  <2>1. P!With(status, kBreak) \in P!Byte
    BY <1>1, FlagSet
  <2> QED
    BY <2>1, Vectors DEF P!PutByte, P!pha_, P!php_
<1>3. P!Known(program_counter) /\ P!op \in {"pha", "php"}
  BY <1>2 DEF P!At
<1>4. /\ P!Puts("byte", FALSE) /\ opened' = opened
      /\ cell' = P!ByteStored(cell, stack_pointer, byte)
      /\ stack_pointer' = P!AfterByteStored(stack_pointer)
      /\ program_counter' = P!Following /\ old_pc' = program_counter /\ status' = status
  BY <1>2 DEF P!PutByte, P!Push, P!Then, P!Registers
<1>5. P!Following \in P!Address /\ P!Following = P!Moved(program_counter, 1)
  BY <1>1, <1>3, Instructions DEF P!Following, P!Size
<1>6. /\ cell' \in P!Cells /\ stack_pointer' \in P!Byte /\ StackInv'
      /\ P!frames' = <<[kind |-> "byte", byte |-> byte]>> \o P!frames
  BY <1>1, <1>4, BytePutAside
<1>7. MaskedFrames'
  <2> DEFINE frame == [kind |-> "byte", byte |-> byte]
  <2>1. P!frames' = <<frame>> \o P!frames
    BY <1>6
  <2> HIDE DEF frame
  <2>2. "byte" # "handler"
    OBVIOUS
  <2> QED
    BY <1>1, <1>4, <1>6, <2>1, <2>2, KindsApart, MaskedPut
<1>8. P!TypeOK'
  BY <1>1, <1>4, <1>5, <1>6 DEF P!TypeOK
<1>9. OpenedByProgram'
  BY <1>1, <1>4 DEF OpenedByProgram
<1>10. Abstract!Save
  BY <1>4, <1>5, <1>6 DEF Abstract!Save, Abstract!PutAside, Abstract!Saved
<1> QED
  BY <1>1, <1>4, <1>6, <1>7, <1>8, <1>9, <1>10 DEF ProgramInv

LEMMA TookImplements ==
  ASSUME ProgramInv, P!TookByte \/ P!TookStatus
  PROVE  ProgramInv' /\ Abstract!Restore
<1>1. /\ P!TypeOK /\ StackInv /\ MaskedFrames /\ opened \in BOOLEAN /\ OpenedByProgram
      /\ status \in P!Byte /\ program_counter \in P!Address /\ cell \in P!Cells
      /\ stack_pointer \in P!Byte
  BY DEF ProgramInv, P!TypeOK
<1>2. P!Known(program_counter) /\ P!op \in {"pla", "plp"} /\ P!Takes("byte")
  BY DEF P!TookByte, P!TookStatus, P!pla_, P!plp_, P!At
<1>3. /\ UNCHANGED cell /\ stack_pointer' = P!AfterByteLoaded(stack_pointer)
      /\ program_counter' = P!Following /\ old_pc' = program_counter
      /\ \/ status' = status /\ opened' = opened
         \/ /\ status' = P!ByteLoaded(cell, stack_pointer)
            /\ opened' = ~P!Has(status', kIntDisable)
  BY DEF P!TookByte, P!TookStatus, P!pla_, P!plp_, P!Pull, P!Then, P!Registers
<1>4. P!Following \in P!Address /\ P!Following = P!Moved(program_counter, 1)
  BY <1>1, <1>2, Instructions DEF P!Following, P!Size
<1>5. /\ stack_pointer' \in P!Byte /\ StackInv'
      /\ P!frames # <<>> /\ P!frames' = Tail(P!frames)
      /\ Head(P!frames) = P!Frame("byte", cell, stack_pointer)
  BY <1>1, <1>2, <1>3, KindsApart, Taken
<1>6. Head(P!frames) = [kind |-> "byte", byte |-> P!ByteLoaded(cell, stack_pointer)]
  BY <1>5 DEF P!Frame
<1>7. MaskedFrames'
  BY <1>1, <1>2, <1>5, KindsApart, MaskedTaken
<1>8. status' \in P!Byte
  BY <1>1, <1>3, Loads
<1>9. P!TypeOK'
  BY <1>1, <1>3, <1>4, <1>5, <1>8 DEF P!TypeOK
<1>10. OpenedByProgram'
  BY <1>1, <1>3 DEF OpenedByProgram
<1>11. opened' \in BOOLEAN
  <2>1. P!Has(status', kIntDisable) \in BOOLEAN
    BY DEF P!Has
  <2> QED
    BY <1>1, <1>3, <2>1
<1>12. Abstract!Restore
  <2>1. /\ Head(P!frames).kind = "byte"
        /\ Head(P!frames).byte = P!ByteLoaded(cell, stack_pointer)
    BY <1>6
  <2> QED
    BY <1>3, <1>4, <1>5, <2>1 DEF Abstract!Restore, Abstract!Top, Abstract!TakeBack
<1> QED
  BY <1>5, <1>7, <1>9, <1>10, <1>11, <1>12 DEF ProgramInv

LEMMA NothingOutstanding ==
  ASSUME P!Forgets, stack_pointer' \in P!Byte
  PROVE  StackInv' /\ MaskedFrames' /\ P!frames' = <<>>
<1>1. outstanding' = <<>> /\ bottom' = stack_pointer' /\ Len(outstanding') = 0
  BY DEF P!Forgets
<1>2. P!Used' = 0
  BY <1>1 DEF P!Used
<1>3. P!PointerAt(P!Used)' = stack_pointer'
  <2>1. P!PointerAt(P!Used)' =
          IF P!Used' <= bottom' THEN bottom' - P!Used' ELSE bottom' - P!Used' + Base
    BY DEF P!PointerAt
  <2>2. bottom' \in Nat /\ bottom' = stack_pointer'
    BY <1>1, BasePositive DEF P!Byte
  <2> QED
    BY <1>2, <2>1, <2>2
<1>4. StackInv'
  BY <1>1, <1>3 DEF StackInv
<1>5. MaskedFrames'
  BY <1>1 DEF MaskedFrames
<1>6. P!frames' = <<>>
  BY <1>1 DEF P!frames
<1> QED
  BY <1>4, <1>5, <1>6

LEMMA ForgotImplements ==
  ASSUME ProgramInv, P!BeganAnew \/ P!Restarted
  PROVE  ProgramInv' /\ Abstract!Forget
<1>1. /\ P!TypeOK /\ opened \in BOOLEAN /\ OpenedByProgram
      /\ status \in P!Byte /\ program_counter \in P!Address /\ cell \in P!Cells
  BY DEF ProgramInv, P!TypeOK
<1>2. CASE P!BeganAnew
  <2>1. /\ P!Known(program_counter) /\ P!Forgets /\ opened' = opened /\ cell' = cell
        /\ program_counter' = P!Following /\ old_pc' = program_counter /\ status' = status
        /\ stack_pointer' \in P!Byte
    BY <1>2, Vectors DEF P!BeganAnew, P!txs_, P!At, P!Then, P!Registers
  <2>2. P!Following \in P!Address
    BY <1>1, <2>1, Instructions
  <2>3. StackInv' /\ MaskedFrames' /\ P!frames' = <<>>
    BY <2>1, NothingOutstanding
  <2>4. P!TypeOK'
    BY <1>1, <2>1, <2>2 DEF P!TypeOK
  <2>5. OpenedByProgram'
    BY <1>1, <2>1 DEF OpenedByProgram
  <2> QED
    BY <1>1, <2>1, <2>2, <2>3, <2>4, <2>5 DEF ProgramInv, Abstract!Forget
<1>3. CASE P!Restarted
  <2>1. /\ P!Forgets /\ opened' = FALSE /\ cell' = cell
        /\ program_counter' = ResetVector /\ old_pc' = 0 /\ status' = kIntDisable
        /\ stack_pointer' = Base - 3
    BY <1>3 DEF P!Restarted, P!reset, P!Registers
  <2>2. stack_pointer' \in P!Byte /\ old_pc' \in P!Address
    BY <2>1, BasePositive DEF P!Byte, P!Address
  <2>3. StackInv' /\ MaskedFrames' /\ P!frames' = <<>>
    BY <2>1, <2>2, NothingOutstanding
  <2>4. P!TypeOK'
    BY <1>1, <2>1, <2>2, Vectors, ResetStatus DEF P!TypeOK
  <2>5. OpenedByProgram'
    BY <2>1, ResetStatus DEF OpenedByProgram
  <2> QED
    BY <2>1, <2>3, <2>4, <2>5, Vectors, ResetStatus DEF ProgramInv, Abstract!Forget
<1> QED
  BY <1>2, <1>3

(* Nothing on the stack, and the stack, is touched.                        *)
LEMMA StackRests ==
  ASSUME StackInv, MaskedFrames, UNCHANGED <<bottom, outstanding, cell, stack_pointer>>
  PROVE  StackInv' /\ MaskedFrames' /\ UNCHANGED P!frames
<1>1. UNCHANGED P!frames
  BY DEF P!frames, P!PointerAt
<1>2. StackInv'
  BY DEF StackInv, Under, P!Used, P!PointerAt
<1>3. MaskedFrames'
  BY <1>1 DEF MaskedFrames, Masked
<1> QED
  BY <1>1, <1>2, <1>3

LEMMA WentOnImplements ==
  ASSUME ProgramInv, P!WentOn
  PROVE  ProgramInv' /\ Abstract!Go
<1>1. /\ P!TypeOK /\ StackInv /\ MaskedFrames /\ opened \in BOOLEAN /\ OpenedByProgram
      /\ status \in P!Byte /\ program_counter \in P!Address /\ cell \in P!Cells
      /\ old_pc \in P!Address /\ stack_pointer \in P!Byte
  BY DEF ProgramInv, P!TypeOK
<1> USE DEF P!Then, P!Registers, P!Flags
<1>2. UNCHANGED <<bottom, outstanding, cell, stack_pointer>>
  BY DEF P!WentOn, P!throw, P!jmp_, P!bcs_, P!sec_, P!clc_, P!next, P!cli_, P!sei_
<1>3. program_counter' \in P!Address /\ old_pc' \in P!Address
  <2>1. CASE P!throw
    BY <1>1, <2>1 DEF P!throw
  <2>2. CASE P!jmp_
    BY <1>1, <2>2, Instructions DEF P!jmp_, P!At
  <2>3. CASE P!bcs_
    <3>1. P!Following \in P!Address /\ P!Moved(P!Following, P!arg) \in P!Address
      BY <1>1, <2>3, Instructions, MovedTyped DEF P!bcs_, P!At
    <3> QED
      BY <1>1, <2>3, <3>1 DEF P!bcs_
  <2>4. CASE P!sec_ \/ P!clc_ \/ P!next \/ P!cli_ \/ P!sei_
    BY <1>1, <2>4, Instructions DEF P!sec_, P!clc_, P!next, P!cli_, P!sei_, P!At
  <2> QED
    BY <2>1, <2>2, <2>3, <2>4 DEF P!WentOn
<1>4. status' \in P!Byte /\ opened' \in BOOLEAN /\ OpenedByProgram'
  <2>1. CASE (P!throw \/ P!jmp_ \/ P!bcs_ \/ P!next) /\ UNCHANGED opened
    BY <1>1, <2>1 DEF P!throw, P!jmp_, P!bcs_, P!next, OpenedByProgram
  <2>2. CASE (P!sec_ \/ P!clc_) /\ UNCHANGED opened
    <3>1. /\ P!Has(P!With(status, kCarry), kIntDisable) <=> P!Has(status, kIntDisable)
          /\ P!Has(P!Without(status, kCarry), kIntDisable) <=> P!Has(status, kIntDisable)
          /\ P!With(status, kCarry) \in P!Byte /\ P!Without(status, kCarry) \in P!Byte
      BY <1>1, FlagOrder, LowerFlagKeeps, FlagSet
    <3> QED
      BY <1>1, <2>2, <3>1 DEF P!sec_, P!clc_, OpenedByProgram
  <2>3. CASE P!cli_ /\ opened' = TRUE
    BY <1>1, <2>3, FlagSet DEF P!cli_, OpenedByProgram
  <2>4. CASE P!sei_ /\ opened' = FALSE
    BY <1>1, <2>4, FlagSet DEF P!sei_, OpenedByProgram
  <2> QED
    BY <2>1, <2>2, <2>3, <2>4 DEF P!WentOn
<1>5. StackInv' /\ MaskedFrames' /\ UNCHANGED P!frames
  BY <1>1, <1>2, StackRests
<1>6. P!TypeOK'
  BY <1>1, <1>2, <1>3, <1>4 DEF P!TypeOK
<1>7. Abstract!Go
  BY <1>3, <1>4, <1>5 DEF Abstract!Go
<1> QED
  BY <1>4, <1>5, <1>6, <1>7 DEF ProgramInv

-----------------------------------------------------------------------------
LEMMA ProgramBegins == ExecutionInit => ProgramInv /\ Abstract!Init
<1> SUFFICES ASSUME ExecutionInit PROVE ProgramInv /\ Abstract!Init
  OBVIOUS
<1>1. /\ program_counter = ResetVector /\ old_pc = 0 /\ status = kIntDisable
      /\ stack_pointer = Base - 3 /\ cell = [at \in 0..Base |-> 0]
      /\ bottom = stack_pointer /\ outstanding = <<>> /\ opened = FALSE
  BY DEF ExecutionInit, P!MCProgramInit, P!Init
<1>2. P!TypeOK
  BY <1>1, Vectors, ResetStatus, BasePositive DEF P!TypeOK, P!Byte, P!Address, P!Cells
<1>3. P!frames = <<>>
  BY <1>1 DEF P!frames
<1>4. P!PointerAt(P!Used) = stack_pointer
  BY <1>1, BasePositive DEF P!PointerAt, P!Used
<1>5. StackInv
  BY <1>1, <1>2, <1>4 DEF StackInv, P!TypeOK
<1>6. MaskedFrames /\ OpenedByProgram
  BY <1>1, ResetStatus DEF MaskedFrames, OpenedByProgram
<1> QED
  BY <1>1, <1>2, <1>3, <1>5, <1>6, Vectors, ResetStatus DEF ProgramInv, Abstract!Init

LEMMA ProgramSteps ==
  ProgramInv /\ [ExecutionNext]_<<vars, program_vars, part>>
    => ProgramInv' /\ [Abstract!Next]_(Abstract!vars)
<1> SUFFICES ASSUME ProgramInv, [ExecutionNext]_<<vars, program_vars, part>>
             PROVE  ProgramInv' /\ [Abstract!Next]_(Abstract!vars)
  OBVIOUS
<1>1. CASE P!MCProgramNext
  <2> USE DEF Abstract!Next
  <2>1. CASE P!Interrupted
    BY <2>1, InterruptedImplements
  <2>2. CASE P!Broke
    BY <2>2, BrokeImplements
  <2>3. CASE P!Left
    BY <2>3, LeftImplements
  <2>4. CASE P!Called
    BY <2>4, CalledImplements
  <2>5. CASE P!Returned
    BY <2>5, ReturnedImplements
  <2>6. CASE P!PutByte
    BY <2>6, PutByteImplements
  <2>7. CASE P!TookByte \/ P!TookStatus
    BY <2>7, TookImplements
  <2>8. CASE P!BeganAnew \/ P!Restarted
    BY <2>8, ForgotImplements
  <2>9. CASE P!WentOn
    BY <2>9, WentOnImplements
  <2> QED
    BY <1>1, <2>1, <2>2, <2>3, <2>4, <2>5, <2>6, <2>7, <2>8, <2>9 DEF P!MCProgramNext
<1>2. CASE UNCHANGED program_vars
  <2>1. /\ UNCHANGED <<program_counter, old_pc, status, stack_pointer, cell>>
        /\ UNCHANGED <<bottom, outstanding, opened>>
    BY <1>2 DEF program_vars
  <2>2. StackInv' /\ MaskedFrames' /\ UNCHANGED P!frames
    BY <2>1, StackRests DEF ProgramInv
  <2> QED
    BY <2>1, <2>2 DEF ProgramInv, P!TypeOK, OpenedByProgram, Abstract!vars
<1> QED
  BY <1>1, <1>2 DEF ExecutionNext

(* The pointer, the stack and what is remembered of it agree, and a        *)
(* handler on the stack gives back a status that masks interrupts or one   *)
(* that had let them in: what the two results below rest on.               *)
THEOREM ProgramStays == ExecutionSpec => []ProgramInv
<1>1. ExecutionInit => ProgramInv
  BY ProgramBegins
<1>2. ProgramInv /\ [ExecutionNext]_<<vars, program_vars, part>> => ProgramInv'
  BY ProgramSteps
<1> QED
  BY <1>1, <1>2, PTL DEF ExecutionSpec

(* A handler never runs unmasked because of what it interrupted, nor what  *)
(* it returns to because of the handler (cpu.cpp 270-292, 691-704,         *)
(* 944-948), for every program and every interrupt.                        *)
THEOREM OpenedOnlyByProgram == ExecutionSpec => []OpenedByProgram
<1>1. ProgramInv => OpenedByProgram
  BY DEF ProgramInv
<1> QED
  BY <1>1, ProgramStays, PTL

(* Calls, saved bytes and handlers nest (cpu.cpp 469-493): the program     *)
(* with its wrapping stack page implements the specification that has      *)
(* frames, for every program that takes off what it put on, page size and  *)
(* interleaving of interrupts.                                             *)
THEOREM CallsRefined == ExecutionSpec => CallsImplemented
<1>1. ExecutionInit => Abstract!Init
  BY ProgramBegins
<1>2. ProgramInv /\ [ExecutionNext]_<<vars, program_vars, part>> => [Abstract!Next]_(Abstract!vars)
  BY ProgramSteps
<1> QED
  BY <1>1, <1>2, ProgramStays, PTL DEF ExecutionSpec, CallsImplemented, Abstract!Spec
=============================================================================
