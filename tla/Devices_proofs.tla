----------------------------- MODULE Devices_proofs ---------------------------
(***************************************************************************)
(* The devices side by side, for every value of the constants: the windows *)
(* and registers of the SxROM mapper, the controller's reports, the life   *)
(* of the cartridge and of its saved memory, the list of recent files and  *)
(* the sprites of a line; and the memory behind PPUDATA is Bus_proofs'.    *)
(***************************************************************************)
EXTENDS MCDevices, SequenceTheorems, FiniteSetTheorems, TLAPS

LEMMA Banks ==
  PrgBanks \in Nat /\ PrgBanks >= 1 /\ ChrBanks \in Nat /\ ChrBanks >= 1
BY M001Assumption DEF M001Constants

(* The windows of a cartridge that has just been loaded.                   *)
LEMMA FirstAndLast ==
  /\ 0 \in 0..(PrgBanks - 1) /\ PrgBanks - 1 \in 0..(PrgBanks - 1)
  /\ 0 \in 0..(2 * ChrBanks - 1) /\ 1 \in 0..(2 * ChrBanks - 1)
BY Banks

LEMMA ShiftedInWord ==
  ASSUME latch \in Word, NEW bit \in {0, 1}
  PROVE  Shifted(bit) \in Word
BY DEF Shifted, Word

LEMMA EvenBelow ==
  ASSUME NEW n \in Nat
  PROVE  Even(n) \in Nat /\ Even(n) <= n /\ Even(n) % 2 = 0
BY DEF Even

-----------------------------------------------------------------------------
(* Types: what each register does to the windows.                          *)

LEMMA RegisterTyped ==
  ASSUME TypeOK, NEW op \in Registers, NEW word \in Word, Register(op, word)
  PROVE  /\ control' \in Word
         /\ prg_l' \in 0..(PrgBanks - 1) /\ prg_h' \in 0..(PrgBanks - 1)
         /\ chr_l' \in 0..(2 * ChrBanks - 1) /\ chr_h' \in 0..(2 * ChrBanks - 1)
         /\ mirroring' \in HeaderMirrorings \union {"Single"}
<1> USE DEF prg, chr
<1>1. CASE op = 0
  <2>1. control_write(word)
    BY <1>1 DEF Register
  <2>2. word % 4 \in 0..3
    BY DEF Word
  <2>3. MirroringOf(word) \in HeaderMirrorings \union {"Single"}
    BY <2>2 DEF MirroringOf, HeaderMirrorings
  <2> QED
    BY <2>1, <2>3 DEF control_write, TypeOK
<1>2. CASE op = 1
  <2> DEFINE page == IF Mode8KB THEN Even(word) ELSE word
  <2>1. chr_low_switch(word)
    BY <1>2 DEF Register
  <2>2. page \in Nat /\ (Mode8KB => page % 2 = 0)
    BY EvenBelow DEF Word
  <2>3. /\ page < 2 * ChrBanks /\ chr_l' = page
        /\ chr_h' = IF Mode8KB THEN page + 1 ELSE chr_h
        /\ UNCHANGED <<control, prg, mirroring>>
    BY <2>1 DEF chr_low_switch
  <2> HIDE DEF page
  <2>4. Mode8KB => page + 1 < 2 * ChrBanks
    BY <2>2, <2>3, Banks
  <2> QED
    BY <2>2, <2>3, <2>4, Banks DEF TypeOK
<1>3. CASE op = 2
  <2>1. chr_high_switch(word)
    BY <1>3 DEF Register
  <2> QED
    BY <2>1, Banks DEF chr_high_switch, TypeOK, Word
<1>4. CASE op = 3
  <2> DEFINE bank == word % 16
  <2>1. prg_switch(word)
    BY <1>4 DEF Register
  <2>2. bank \in Nat /\ Even(bank) \in Nat
    BY EvenBelow DEF Word
  <2>3. PrgMode \in 0..3
    BY DEF PrgMode, TypeOK, Word
  <2>4. UNCHANGED <<control, chr, mirroring>>
    BY <2>1 DEF prg_switch
  <2>5. ASSUME PrgMode \in {0, 1}
       PROVE  prg_l' \in 0..(PrgBanks - 1) /\ prg_h' \in 0..(PrgBanks - 1)
    <3>1. Even(bank) + 1 < PrgBanks /\ prg_l' = Even(bank) /\ prg_h' = Even(bank) + 1
      BY <2>1, <2>5 DEF prg_switch
    <3> QED
      BY <2>2, <3>1, Banks
  <2>6. ASSUME PrgMode = 2
       PROVE  prg_l' \in 0..(PrgBanks - 1) /\ prg_h' \in 0..(PrgBanks - 1)
    <3>1. bank < PrgBanks /\ prg_l' = 0 /\ prg_h' = bank
      BY <2>1, <2>6 DEF prg_switch
    <3> QED
      BY <2>2, <3>1, FirstAndLast, Banks
  <2>7. ASSUME PrgMode = 3
       PROVE  prg_l' \in 0..(PrgBanks - 1) /\ prg_h' \in 0..(PrgBanks - 1)
    <3>1. bank < PrgBanks /\ prg_l' = bank /\ prg_h' = PrgBanks - 1
      BY <2>1, <2>7 DEF prg_switch
    <3> QED
      BY <2>2, <3>1, FirstAndLast, Banks
  <2>8. prg_l' \in 0..(PrgBanks - 1) /\ prg_h' \in 0..(PrgBanks - 1)
    BY <2>3, <2>5, <2>6, <2>7
  <2> QED
    BY <2>4, <2>8 DEF TypeOK
<1> QED
  BY <1>1, <1>2, <1>3, <1>4 DEF Registers

LEMMA InitTyped == Init => TypeOK
<1>0. Init => mirroring \in HeaderMirrorings \union {"Single"} /\ aborted \in BOOLEAN
  BY Zenon DEF Init
<1>1. Init => latch \in Word /\ writes \in 0..4 /\ control \in Word
  BY DEF Init, Word
<1>2. Init => /\ prg_l \in 0..(PrgBanks - 1) /\ prg_h \in 0..(PrgBanks - 1)
              /\ chr_l \in 0..(2 * ChrBanks - 1) /\ chr_h \in 0..(2 * ChrBanks - 1)
  BY FirstAndLast DEF Init
<1> QED
  BY <1>0, <1>1, <1>2 DEF TypeOK

LEMMA NextTyped == TypeOK /\ [Next]_vars => TypeOK'
<1> SUFFICES ASSUME TypeOK, [Next]_vars PROVE TypeOK'
  OBVIOUS
<1> USE DEF prg, chr
<1>1. ASSUME NEW bit \in {0, 1}, ShiftIn(bit) PROVE TypeOK'
  <2>1. Shifted(bit) \in Word
    BY ShiftedInWord DEF TypeOK
  <2> QED
    BY <1>1, <2>1 DEF ShiftIn, TypeOK
<1>2. ASSUME NEW op \in Registers, NEW bit \in {0, 1}, Complete(op, bit) PROVE TypeOK'
  <2>1. Shifted(bit) \in Word /\ Register(op, Shifted(bit))
    BY <1>2, ShiftedInWord DEF TypeOK, Complete
  <2> QED
    BY <1>2, <2>1, RegisterTyped DEF Complete, TypeOK, Word
<1>3. ASSUME NEW op \in Registers, NEW bit \in {0, 1}, Abort(op, bit) PROVE TypeOK'
  BY <1>3 DEF Abort, TypeOK
<1>4. ASSUME NEW op \in Registers, ResetRegister(op) PROVE TypeOK'
  <2>1. control \in 0..31
    BY DEF TypeOK, Word
  <2>2. 16 * (control \div 16) + 12 + (control % 4) \in 0..31
    BY <2>1
  <2> QED
    BY <1>4, <2>1, <2>2, Banks DEF ResetRegister, TypeOK, Word
<1>5. CASE read_rom
  BY <1>5, FirstAndLast DEF read_rom, TypeOK, Word
<1>6. CASE UNCHANGED vars
  BY <1>6 DEF vars, TypeOK
<1> QED
  BY <1>1, <1>2, <1>3, <1>4, <1>5, <1>6 DEF Next, on_cpu_write

(* The steps the history watches are the mapper's.                         *)
LEMMA WatchedIsNext == [MCNext]_mc_vars => [Next]_vars
BY DEF MCNext, Watched, restart, Next, on_cpu_write, mc_vars

(* No window ever leaves the cartridge: the assertions of cartridge.cpp    *)
(* 100 and 111 cover every way a register can move one, 001.cpp's chr_l_ + *)
(* 0x1000 and idx + 1 included.                                            *)
THEOREM TypeCorrect == MCSpec => []TypeOK
<1>1. MCInit => TypeOK
  BY InitTyped DEF MCInit
<1>2. TypeOK /\ [MCNext]_mc_vars => TypeOK'
  BY NextTyped, WatchedIsNext
<1> QED
  BY <1>1, <1>2, PTL DEF MCSpec

-----------------------------------------------------------------------------
(* Whole banks: the character mode is the history's.                       *)

BankInv ==
  /\ control >= 16 => four_kb
  /\ WholeBank

LEMMA BankStep == TypeOK /\ BankInv /\ [MCNext]_mc_vars => BankInv'
<1> SUFFICES ASSUME TypeOK, BankInv, [MCNext]_mc_vars PROVE BankInv'
  OBVIOUS
<1> USE DEF prg, chr
<1>1. ASSUME NEW op \in Registers, NEW bit \in {0, 1}, Complete(op, bit),
             four_kb' = (four_kb \/ control' >= 16)
      PROVE  BankInv'
  <2>1. Register(op, Shifted(bit)) /\ Shifted(bit) \in Nat
    BY <1>1, ShiftedInWord DEF Complete, TypeOK, Word
  <2>5. ~Mode8KB => four_kb
    BY DEF TypeOK, Word, Mode8KB, BankInv
  <2>2. CASE op = 0
    <3>1. chr_l' = chr_l /\ chr_h' = chr_h
      BY <2>1, <2>2 DEF Register, control_write
    <3>2. (control' >= 16 => four_kb') /\ (four_kb => four_kb')
      BY <1>1
    <3> QED
      BY <3>1, <3>2, Zenon DEF BankInv, WholeBank
  <2>3. CASE op = 1
    <3> DEFINE page == IF Mode8KB THEN Even(Shifted(bit)) ELSE Shifted(bit)
    <3>1. chr_low_switch(Shifted(bit))
      BY <2>1, <2>3 DEF Register
    <3>2. /\ control' = control /\ chr_l' = page
          /\ chr_h' = IF Mode8KB THEN page + 1 ELSE chr_h
      BY <3>1 DEF chr_low_switch
    <3>3. Mode8KB => page % 2 = 0
      BY <2>1, EvenBelow
    <3> HIDE DEF page
    <3> QED
      BY <1>1, <2>5, <3>2, <3>3 DEF BankInv, WholeBank
  <2>4. CASE op = 2
    <3>1. chr_high_switch(Shifted(bit))
      BY <2>1, <2>4 DEF Register
    <3>2. control' = control /\ chr_l' = chr_l /\ (Mode8KB => chr_h' = chr_h)
      BY <3>1 DEF chr_high_switch
    <3> QED
      BY <1>1, <2>5, <3>2 DEF BankInv, WholeBank
  <2>6. CASE op = 3
    <3>1. UNCHANGED <<control, chr>>
      BY <2>1, <2>6 DEF Register, prg_switch
    <3> QED
      BY <1>1, <3>1 DEF BankInv, WholeBank
  <2> QED
    BY <2>2, <2>3, <2>4, <2>6 DEF Registers
<1>2. ASSUME NEW op \in Registers, ResetRegister(op), UNCHANGED four_kb PROVE BankInv'
  <2>1. control \in 0..31
    BY DEF TypeOK, Word
  <2>2. control < 16 => 16 * (control \div 16) + 12 + (control % 4) < 16
    BY <2>1
  <2> QED
    BY <1>2, <2>1, <2>2 DEF ResetRegister, BankInv, WholeBank
<1>3. CASE read_rom /\ four_kb' = FALSE
  BY <1>3 DEF read_rom, BankInv, WholeBank
<1>4. ASSUME NEW bit \in {0, 1}, ShiftIn(bit), UNCHANGED four_kb PROVE BankInv'
  BY <1>4 DEF ShiftIn, BankInv, WholeBank
<1>5. ASSUME NEW op \in Registers, NEW bit \in {0, 1}, Abort(op, bit), UNCHANGED four_kb
      PROVE  BankInv'
  BY <1>5 DEF Abort, BankInv, WholeBank
<1>6. CASE UNCHANGED mc_vars
  BY <1>6 DEF mc_vars, vars, BankInv, WholeBank
<1>7. CASE restart
  BY <1>7 DEF restart, vars, BankInv, WholeBank
<1> QED
  BY <1>1, <1>2, <1>3, <1>4, <1>5, <1>6, <1>7 DEF MCNext, Watched

(* 8 KiB programs see whole banks, for every number of banks (001.cpp      *)
(* 167-183).                                                               *)
THEOREM WholeBanks == MCSpec => []WholeBank
<1>1. MCInit => BankInv
  BY DEF MCInit, Init, BankInv, WholeBank
<1>2. BankInv => WholeBank
  BY DEF BankInv
<1> QED
  BY <1>1, <1>2, BankStep, TypeCorrect, PTL DEF MCSpec

-----------------------------------------------------------------------------
(* Serial order: the latch is what has been sent, at its high end.         *)

BitsInLatch ==
  /\ sent \in Seq({0, 1}) /\ Len(sent) = writes /\ writes \in 0..4
  /\ writes = 0 => latch = 0
  /\ writes = 1 => latch = 16 * sent[1]
  /\ writes = 2 => latch = 8 * sent[1] + 16 * sent[2]
  /\ writes = 3 => latch = 4 * sent[1] + 8 * sent[2] + 16 * sent[3]
  /\ writes = 4 => latch = 2 * sent[1] + 4 * sent[2] + 8 * sent[3] + 16 * sent[4]

(* For a program that knows what is in the port.                           *)
SentInv == knows => BitsInLatch

LEMMA SentStep == TypeOK /\ SentInv /\ [MCNext]_mc_vars => SentInv'
<1> SUFFICES ASSUME TypeOK, SentInv, [MCNext]_mc_vars PROVE SentInv'
  OBVIOUS
<1>1. ASSUME NEW bit \in {0, 1}, ShiftIn(bit), knows' = knows,
             sent' = IF knows THEN Append(sent, bit) ELSE <<>>
      PROVE  SentInv'
  <2> SUFFICES ASSUME knows PROVE BitsInLatch'
    BY <1>1 DEF SentInv
  <2>0. BitsInLatch /\ sent' = Append(sent, bit)
    BY <1>1 DEF SentInv
  <2>1. /\ writes \in 0..3 /\ writes' = writes + 1 /\ Len(sent) = writes
        /\ sent \in Seq({0, 1}) /\ sent' \in Seq({0, 1}) /\ Len(sent') = writes'
    BY <1>1, <2>0 DEF ShiftIn, BitsInLatch
  <2>2. /\ sent'[writes'] = bit
        /\ \A i \in 1..writes : sent'[i] = sent[i] /\ sent[i] \in {0, 1}
    BY <2>0, <2>1
  <2>3. latch' = latch \div 2 + 16 * bit
    BY <1>1 DEF ShiftIn, Shifted
  <2>4. CASE writes = 0
    BY <2>0, <2>1, <2>2, <2>3, <2>4 DEF BitsInLatch
  <2>5. CASE writes = 1
    BY <2>0, <2>1, <2>2, <2>3, <2>5 DEF BitsInLatch
  <2>6. CASE writes = 2
    BY <2>0, <2>1, <2>2, <2>3, <2>6 DEF BitsInLatch
  <2>7. CASE writes = 3
    BY <2>0, <2>1, <2>2, <2>3, <2>7 DEF BitsInLatch
  <2> QED
    BY <2>1, <2>4, <2>5, <2>6, <2>7
<1>2. ASSUME latch' = 0, writes' = 0, sent' = <<>> PROVE SentInv'
  BY <1>2 DEF SentInv, BitsInLatch
<1>3. ASSUME UNCHANGED <<latch, writes, sent, knows>> PROVE SentInv'
  BY <1>3 DEF SentInv, BitsInLatch
<1>4. ASSUME restart PROVE SentInv'
  <2> SUFFICES ASSUME knows, writes = 0 PROVE BitsInLatch'
    BY <1>4 DEF SentInv, restart
  <2> QED
    BY <1>4 DEF SentInv, BitsInLatch, restart, vars
<1> QED
  BY <1>1, <1>2, <1>3, <1>4
  DEF MCNext, Watched, mc_vars, vars, Complete, Abort, ResetRegister, read_rom

(* What a fifth bit completes.                                             *)
LEMMA CompletesNumber ==
  ASSUME BitsInLatch, writes = 4, NEW bit \in {0, 1}
  PROVE  NumberOf(Append(sent, bit)) = Shifted(bit) /\ Shifted(bit) \in Nat
<1>1. /\ sent \in Seq({0, 1}) /\ Len(sent) = 4
      /\ latch = 2 * sent[1] + 4 * sent[2] + 8 * sent[3] + 16 * sent[4]
  BY DEF BitsInLatch
<1> DEFINE word == Append(sent, bit)
<1>2. Len(sent) = 4 /\ word[5] = bit /\ \A i \in 1..4 : word[i] = sent[i]
  <2>1. \A i \in 1..Len(sent) : Append(sent, bit)[i] = sent[i]
    BY <1>1, AppendProperties
  <2>2. Append(sent, bit)[Len(sent) + 1] = bit
    BY <1>1, AppendProperties
  <2>3. Len(sent) + 1 = 5
    BY <1>1
  <2> QED
    BY <1>1, <2>1, <2>2, <2>3, Zenon
<1>3. \A i \in 1..4 : sent[i] \in {0, 1}
  BY <1>1, ElementOfSeq
<1> HIDE DEF word
<1>4. word[1] = sent[1] /\ word[2] = sent[2] /\ word[3] = sent[3] /\ word[4] = sent[4]
  BY <1>2
<1>5. sent[1] \in {0, 1} /\ sent[2] \in {0, 1} /\ sent[3] \in {0, 1} /\ sent[4] \in {0, 1}
  BY <1>3
<1>6. NumberOf(word) = Shifted(bit) /\ Shifted(bit) \in Nat
  BY <1>1, <1>2, <1>4, <1>5 DEF NumberOf, Shifted
<1> QED
  BY <1>6 DEF word

LEMMA RegisterTakesOn ==
  ASSUME TypeOK, NEW op \in Registers, NEW number \in Nat, Register(op, number)
  PROVE  TakesOn(op, number)
<1>1. Even(number) = 2 * (number \div 2) /\ Even(number % 16) = 2 * ((number % 16) \div 2)
  BY DEF Even
<1>2. PrgMode \in 0..3
  BY DEF PrgMode, TypeOK, Word
<1>3. CASE op = 0
  BY <1>3 DEF Register, control_write, TakesOn
<1>4. CASE op = 1
  <2>1. chr_l' = IF Mode8KB THEN Even(number) ELSE number
    BY <1>4 DEF Register, chr_low_switch
  <2> QED
    BY <1>1, <1>4, <2>1 DEF Mode8KB, TakesOn
<1>5. CASE op = 2
  <2>1. chr_h' = IF Mode8KB THEN chr_h ELSE number
    BY <1>5 DEF Register, chr_high_switch
  <2> QED
    BY <1>5, <2>1 DEF Mode8KB, TakesOn
<1>6. CASE op = 3
  <2>1. prg_switch(number)
    BY <1>6 DEF Register
  <2> QED
    BY <1>1, <1>2, <1>6, <2>1 DEF prg_switch, TakesOn
<1> QED
  BY <1>3, <1>4, <1>5, <1>6 DEF Registers

(* Registers take on the numbers programs sent, for every number of banks  *)
(* and every sequence of writes and resets (001.cpp 75-130).               *)
THEOREM SerialWrites == MCSpec => SerialOrder
<1>1. MCInit => SentInv
  BY DEF MCInit, Init, SentInv, BitsInLatch
<1>2. ASSUME TypeOK, SentInv, NEW op \in Registers, NEW bit \in {0, 1}, Complete(op, bit), knows
      PROVE  TakesOn(op, NumberOf(Append(sent, bit)))
  <2>1. /\ NumberOf(Append(sent, bit)) \in Nat
        /\ Register(op, NumberOf(Append(sent, bit)))
    BY <1>2, CompletesNumber DEF Complete, SentInv
  <2> QED
    BY <1>2, <2>1, RegisterTakesOn
<1>3. TypeOK /\ SentInv /\ [MCNext]_mc_vars =>
        [\A op \in Registers, bit \in {0, 1} :
           Complete(op, bit) /\ knows => TakesOn(op, NumberOf(Append(sent, bit)))]_mc_vars
  BY <1>2
<1> QED
  BY <1>1, <1>3, SentStep, TypeCorrect, PTL DEF MCSpec, SerialOrder

-----------------------------------------------------------------------------
(* The controller                                                          *)

(* A report is as long as the read position says, once the strobe is down; *)
(* after the last button it is one longer at most.                         *)
ReportInv ==
  /\ K!ReportInOrder
  /\ report \in Seq(BOOLEAN)
  /\ buttons_state \subseteq K!Buttons
  /\ disturbed \in BOOLEAN
  /\ read_state \in 0..ButtonCount \union {K!Strobe}
  /\ read_state = K!Strobe \/ read_state = (IF Len(report) < ButtonCount THEN Len(report) ELSE ButtonCount)

LEMMA EmptyReport ==
  ASSUME K!ControllerConstants
  PROVE  /\ Len(<<>>) = 0 /\ <<>> \in Seq(BOOLEAN) /\ DOMAIN <<>> = {}
         /\ 0 \in 0..ButtonCount /\ 0 < ButtonCount
BY DEF K!ControllerConstants

LEMMA UnderTheCount ==
  ASSUME NEW n \in 1..254, NEW r \in 0..n, r < n
  PROVE  r # 255 /\ r # n /\ r \in 0..(n - 1) /\ ~(r >= n)
OBVIOUS

(* A read adds the next button to the report, or a one.                    *)
LEMMA AnswerInOrder ==
  ASSUME K!ControllerConstants, ReportInv, K!on_read
  PROVE  ReportInv'
<1> USE DEF ReportInv, K!ControllerConstants, K!Buttons, K!Strobe
<1>1. UNCHANGED <<buttons_state, disturbed>> /\ read_state' = K!NextRead
  BY DEF K!on_read
<1>2. CASE report' = report /\ read_state' = read_state
  BY <1>1, <1>2 DEF K!ReportInOrder
<1>3. CASE report' = report /\ read_state' # read_state
  <2>1. Len(report) > ButtonCount /\ read_state \in 0..(ButtonCount - 1)
    BY <1>1, <1>3 DEF K!on_read, K!NextRead
  <2> QED
    BY <2>1
<1>4. CASE report' # report
  <2>1. read_state # 255 /\ report' = Append(report, K!Answer) /\ Len(report) <= ButtonCount
    BY <1>4 DEF K!on_read
  <2>2. read_state = Len(report)
    BY <2>1
  <2>3. K!Answer <=> (Len(report) >= ButtonCount \/ Len(report) \in buttons_state)
    <3>1. CASE read_state < ButtonCount
      <4>1. read_state # 255 /\ read_state # ButtonCount /\ read_state \in 0..(ButtonCount - 1) /\ ~(Len(report) >= ButtonCount)
        <5>1. read_state \in 0..ButtonCount /\ ButtonCount \in Nat
          BY <2>1
        <5> HIDE DEF ReportInv, K!Buttons, K!Strobe
        <5> QED
          BY <2>2, <3>1, <5>1, UnderTheCount
      <4>2. K!Answer <=> read_state \in buttons_state
        BY <4>1 DEF K!Answer
      <4> QED
        BY <2>2, <4>1, <4>2, Zenon
    <3>2. CASE read_state = ButtonCount
      <4>1. K!Answer
        BY <3>2 DEF K!Answer
      <4>2. Len(report) >= ButtonCount
        BY <2>2, <3>2
      <4> QED
        BY <4>1, <4>2
    <3> QED
      BY <2>1, <2>2, <3>1, <3>2
  <2>4. /\ report' \in Seq(BOOLEAN) /\ Len(report') = Len(report) + 1
        /\ \A i \in 1..Len(report) : report'[i] = report[i]
        /\ report'[Len(report) + 1] = K!Answer
    <3>1. K!Answer \in BOOLEAN
      BY DEF K!Answer
    <3> HIDE DEF K!Strobe, K!Buttons
    <3> QED
      BY <2>1, <3>1
  <2>5. read_state' = IF Len(report') < ButtonCount THEN Len(report') ELSE ButtonCount
    <3>1. CASE read_state < ButtonCount
      <4>1. read_state' = read_state + 1
        BY <1>1, <2>2, <3>1 DEF K!NextRead
      <4> QED
        BY <2>2, <2>4, <3>1, <4>1
    <3>2. CASE read_state = ButtonCount
      <4>1. read_state' = read_state
        BY <1>1, <3>2 DEF K!NextRead
      <4> QED
        BY <2>2, <2>4, <3>2, <4>1
    <3> QED
      BY <2>1, <2>2, <3>1, <3>2
  <2>6. K!ReportInOrder'
    <3> SUFFICES ASSUME ~disturbed, NEW i \in 1..(Len(report) + 1)
                 PROVE  report'[i] = (i > ButtonCount \/ i - 1 \in buttons_state)
      BY <1>1, <2>4 DEF K!ReportInOrder
    <3>1. CASE i = Len(report) + 1
      <4>1. (Len(report) >= ButtonCount <=> i > ButtonCount) /\ Len(report) = i - 1
        BY <3>1
      <4>2. report'[i] <=> (i > ButtonCount \/ i - 1 \in buttons_state)
        BY <2>3, <2>4, <3>1, <4>1
      <4>3. report'[i] \in BOOLEAN
        BY <2>4, <3>1
      <4> QED
        BY <4>2, <4>3, Zenon
    <3>2. CASE i \in 1..Len(report)
      BY <2>4, <3>2 DEF K!ReportInOrder
    <3> QED
      BY <3>1, <3>2
  <2> QED
    BY <1>1, <2>2, <2>4, <2>5, <2>6
<1> QED
  BY <1>2, <1>3, <1>4

LEMMA ReportStep ==
  ASSUME K!ControllerConstants, ReportInv, [K!Next]_(K!vars)
  PROVE  ReportInv'
<1> USE DEF ReportInv, K!ReportInOrder
<1>1. CASE K!on_read
  BY <1>1, AnswerInOrder
<1>2. ASSUME NEW strobe \in BOOLEAN, K!on_write(strobe)
      PROVE  ReportInv'
  <2>1. report' = <<>> /\ disturbed' = FALSE /\ UNCHANGED buttons_state
    BY <1>2 DEF K!on_write
  <2>2. read_state' = K!Strobe \/ read_state' = 0
    BY <1>2 DEF K!on_write
  <2> QED
    BY <2>1, <2>2, EmptyReport
<1>3. CASE K!Keys
  <2>1. UNCHANGED <<read_state, report>> /\ buttons_state' \subseteq K!Buttons
    BY <1>3 DEF K!Keys, K!press, K!release
  <2>2. disturbed' = (disturbed \/ buttons_state' # buttons_state)
    BY <1>3 DEF K!Keys
  <2>3. K!ReportInOrder'
    BY <2>1, <2>2 DEF K!ReportInOrder
  <2> QED
    BY <2>1, <2>2, <2>3
<1>4. CASE UNCHANGED K!vars
  BY <1>4 DEF K!vars, K!ReportInOrder
<1> QED
  BY <1>1, <1>2, <1>3, <1>4 DEF K!Next

(* The devices start as each does; a step is one of each or a stutter.     *)
LEMMA EachStarts ==
  ASSUME DevicesInit
  PROVE  S!Init /\ K!Init /\ R!Init /\ F!MCInit /\ D!MCInit
BY DEF DevicesInit

LEMMA EachFollows ==
  ASSUME [DevicesNext]_device_vars
  PROVE  /\ [S!Next]_(S!vars) /\ [K!Next]_(K!vars) /\ [R!Next]_(R!vars)
         /\ [F!MCNext]_(F!mc_vars) /\ [D!MCNext]_(D!mc_vars)
BY DEF DevicesNext, device_vars, board_vars, others_vars, cartridge_vars, controller_vars,
       recent_vars, sprite_vars, video_vars, S!vars, K!vars, R!vars, F!mc_vars, F!vars,
       F!history, F!memory, F!flags, D!mc_vars, D!vars

(* A report gives each button once, in order, and then ones, for any       *)
(* number of buttons (controller.cpp 3-28).                                *)
THEOREM ReportsInOrder == DevicesSpec => []ReportInOrder
<1>1. DevicesInit => ReportInv
  BY DevicesAssumption, EachStarts, EmptyReport DEF K!Init, K!Buttons, ReportInv, K!ReportInOrder
<1>2. ReportInv /\ [DevicesNext]_device_vars => ReportInv'
  BY DevicesAssumption, EachFollows, ReportStep
<1>3. ReportInv => ReportInOrder
  BY DEF ReportInv, ReportInOrder
<1> QED
  BY <1>1, <1>2, <1>3, PTL DEF DevicesSpec

-----------------------------------------------------------------------------
(* The cartridge                                                           *)

(* The emulator never has a cartridge other than the bus's                 *)
(* (emulator.cpp 80-106), for any games.                                   *)
THEOREM ReadyEnough == DevicesSpec => []ReadyIsEnough
<1> USE DEF ReadyIsEnough, S!ReadyIsEnough
<1>1. DevicesInit => ReadyIsEnough
  BY EachStarts DEF S!Init
<1>2. ReadyIsEnough /\ [DevicesNext]_device_vars => ReadyIsEnough'
  <2> SUFFICES ASSUME ReadyIsEnough, [S!Next]_(S!vars)
               PROVE  ReadyIsEnough'
    BY EachFollows
  <2>1. CASE S!write \/ S!close \/ S!save_now \/ S!killed \/ UNCHANGED S!vars
    BY <2>1 DEF S!write, S!close, S!save_now, S!killed, S!vars
  <2>2. CASE \E g \in Games, readable \in BOOLEAN : S!read_rom(g, readable)
    BY <2>2 DEF S!read_rom
  <2>3. CASE S!read_rom_fails \/ S!start
    BY <2>3 DEF S!read_rom_fails, S!Destroy, S!start
  <2> QED
    BY <2>1, <2>2, <2>3 DEF S!Next
<1> QED
  BY <1>1, <1>2, PTL DEF DevicesSpec

(* What a game saved last is whole in its file; while the file is open     *)
(* nothing is promised of it, so a kill breaks no promise.                 *)
KeptInv ==
  /\ kept \in [Batteries -> SUBSET [0..(Top - 1) -> Bytes]]
  /\ memory \in S!Memories
  /\ phase = "saving" => cart \in Batteries /\ kept[cart] = {}
  /\ DOMAIN file = Batteries
  /\ \A g \in Batteries : \A saved \in kept[g] :
       /\ file[g].exists /\ file[g].size = Top + 1
       /\ \A p \in 0..(Top - 1) : file[g].byte[p] = saved[p]

LEMMA Places ==
  /\ Top \in Nat /\ Top > 0 /\ S!Zeros \in S!Memories /\ Batteries \subseteq Games
  /\ \A p \in 0..(Top - 1) : p \in S!Places /\ p < Top + 1 /\ p < Top
BY DevicesAssumption DEF S!CartridgeConstants, S!Zeros, S!Memories, S!Places

LEMMA KeptStep ==
  ASSUME KeptInv, [S!Next]_(S!vars)
  PROVE  KeptInv'
<1> USE Places DEF KeptInv
<1>1. CASE S!write
  <2>1. memory' \in S!Memories
    BY <1>1 DEF S!write, S!Memories
  <2> QED
    BY <1>1, <2>1 DEF S!write
<1>2. ASSUME NEW g \in Games, NEW readable \in BOOLEAN, S!read_rom(g, readable)
      PROVE  KeptInv'
  <2>1. memory' \in S!Memories
    BY <1>2 DEF S!read_rom, S!LoadBattery
  <2> QED
    BY <1>2, <2>1 DEF S!read_rom
<1>3. CASE S!read_rom_fails
  BY <1>3 DEF S!read_rom_fails
<1>4. CASE S!close
  <2>1. CASE S!HasBattery /\ phase' = "saving"
    <3>1. cart \in Batteries /\ UNCHANGED <<cart, memory>>
          /\ file' = [file EXCEPT ![cart] = S!File(0, S!Zeros)]
          /\ kept' = [kept EXCEPT ![cart] = {}]
      BY <1>4, <2>1 DEF S!close, S!HasBattery
    <3>2. \A g \in Batteries : g # cart => file'[g] = file[g] /\ kept'[g] = kept[g]
      BY <3>1
    <3>3. kept'[cart] = {} /\ DOMAIN file' = Batteries
          /\ kept' \in [Batteries -> SUBSET [0..(Top - 1) -> Bytes]]
      BY <3>1
    <3> QED
      BY <3>1, <3>2, <3>3
  <2>2. CASE phase' = "stopped" /\ UNCHANGED <<file, kept>>
    BY <1>4, <2>2 DEF S!close
  <2> QED
    BY <1>4, <2>1, <2>2 DEF S!close
<1>5. CASE S!save_now
  <2> DEFINE saved == [p \in 0..(Top - 1) |-> S!Read(p)]
  <2>1. cart \in Batteries /\ phase' = "stopped" /\ UNCHANGED <<cart, memory>>
        /\ file' = [file EXCEPT ![cart] = S!File(Top + 1, memory)]
        /\ kept' = [kept EXCEPT ![cart] = {saved}]
    BY <1>5 DEF S!save_now, S!Saved
  <2>2. \A g \in Batteries : g # cart => file'[g] = file[g] /\ kept'[g] = kept[g]
    BY <2>1
  <2>3. kept'[cart] = {saved} /\ file'[cart] = S!File(Top + 1, memory) /\ DOMAIN file' = Batteries
    BY <2>1
  <2>4. \A p \in 0..(Top - 1) : saved[p] = memory[p]
    BY <2>1 DEF S!Read, S!Claims, S!HasBattery
  <2>5. saved \in [0..(Top - 1) -> Bytes]
    BY <2>4 DEF S!Memories
  <2>6. /\ file'[cart].exists /\ file'[cart].size = Top + 1
        /\ \A p \in 0..(Top - 1) : file'[cart].byte[p] = memory[p]
    BY <2>3 DEF S!File
  <2>7. kept' \in [Batteries -> SUBSET [0..(Top - 1) -> Bytes]]
    BY <2>1, <2>5
  <2> HIDE DEF saved
  <2> QED
    BY <2>1, <2>2, <2>3, <2>4, <2>6, <2>7
<1>6. CASE S!killed
  <2>1. CASE phase = "saving"
    <3>1. PICK n \in S!Places : file' = [file EXCEPT ![cart] = S!File(n, S!Saved)]
      BY <1>6, <2>1 DEF S!killed
    <3>2. cart \in Batteries /\ kept[cart] = {} /\ UNCHANGED <<cart, memory, kept>> /\ phase' = "stopped"
      BY <1>6, <2>1 DEF S!killed
    <3>3. DOMAIN file' = Batteries /\ \A g \in Batteries : g # cart => file'[g] = file[g]
      BY <3>1, <3>2
    <3> QED
      BY <3>2, <3>3
  <2>2. CASE phase # "saving"
    BY <1>6, <2>2 DEF S!killed
  <2> QED
    BY <2>1, <2>2
<1>7. CASE S!start
  BY <1>7 DEF S!start
<1>8. CASE UNCHANGED S!vars
  BY <1>8 DEF S!vars
<1> QED
  BY <1>1, <1>2, <1>3, <1>4, <1>5, <1>6, <1>7, <1>8 DEF S!Next

(* What a game had in its saved memory when the emulator was last closed   *)
(* cleanly it finds when it is loaded again, or zeros if its file cannot   *)
(* be read, whatever other games were loaded, saved or killed since        *)
(* (battery.cpp 9-38, main.cpp 34-35), for any games, any bytes and any    *)
(* size of the memory.                                                     *)
THEOREM SavedIsRestored == DevicesSpec => SavesRestored
<1>1. DevicesInit => KeptInv
  BY EachStarts, Places DEF S!Init, KeptInv
<1>2. KeptInv /\ [DevicesNext]_device_vars => KeptInv'
  BY EachFollows, KeptStep
<1>3. ASSUME KeptInv, [DevicesNext]_device_vars
      PROVE  [\A g \in Batteries, readable \in BOOLEAN : S!read_rom(g, readable) =>
                \A saved \in kept[g], p \in 0..(Top - 1) :
                  IF readable THEN (\A q \in 0..p : saved[q] # EndOfText) => S!Read(p)' = saved[p]
                  ELSE S!Read(p)' = 0]_(S!vars)
  <2>0. ASSUME NEW g \in Batteries, S!read_rom(g, FALSE), NEW p \in 0..(Top - 1)
        PROVE  S!Read(p)' = 0
    BY <2>0, Places DEF S!read_rom, S!LoadBattery, S!Zeros, S!Read, S!Claims, S!HasBattery
  <2> SUFFICES ASSUME NEW g \in Batteries, S!read_rom(g, TRUE),
                      NEW saved \in kept[g], NEW p \in 0..(Top - 1),
                      \A q \in 0..p : saved[q] # EndOfText
               PROVE  S!Read(p)' = saved[p]
    BY <2>0
  <2> USE Places DEF KeptInv
  <2>1. /\ file[g].exists /\ file[g].size = Top + 1
        /\ \A q \in 0..(Top - 1) : file[g].byte[q] = saved[q]
    BY <1>3
  <2>2. S!Loaded(file[g], memory')
    BY <2>1 DEF S!read_rom, S!LoadBattery
  <2>3. \A q \in 0..p : q \in 0..(Top - 1) /\ file[g].byte[q] # EndOfText
    BY <2>1
  <2>4. memory'[p] = file[g].byte[p]
    BY <2>1, <2>2, <2>3 DEF S!Loaded
  <2>5. S!Read(p)' = memory'[p]
    BY DEF S!Read, S!Claims, S!HasBattery, S!read_rom
  <2> QED
    BY <2>1, <2>4, <2>5
<1> QED
  BY <1>1, <1>2, <1>3, PTL DEF DevicesSpec, SavesRestored, S!SavesRestored

-----------------------------------------------------------------------------
(* The memory behind PPUDATA                                               *)

V == INSTANCE Bus_proofs WITH Bytes <- {0, 1}, Base <- 256

LEMMA VideoIsKnown == D!MCSpec => []D!ReadsBack
<1>1. V!VideoConstants
  BY DevicesAssumption DEF V!VideoConstants, D!VideoConstants, V!Tables, D!Tables, V!Space, D!Space
<1> USE DEF D!TableSize, V!TableSize, D!Tables, V!Tables, D!TableMirrors, V!TableMirrors,
            D!Palette, V!Palette, D!PaletteSize, V!PaletteSize
<1>2. ASSUME NEW m, NEW a
      PROVE  D!mirror_addr_(m, a) = V!mirror_addr_(m, a)
  <2>1. ASSUME NEW x
        PROVE  D!Folded(m, x) = V!Folded(m, x)
    BY DEF D!Folded, V!Folded, D!Single, V!Single, D!Vertical, V!Vertical, D!Horizontal, V!Horizontal
  <2>2. ASSUME NEW x
        PROVE  /\ D!PaletteMirror(x) = V!PaletteMirror(x) /\ D!TableMirror(x) = V!TableMirror(x)
               /\ D!BackgroundColour(x) = V!BackgroundColour(x)
    BY DEF D!TableMirror, V!TableMirror, D!BackgroundColour, V!BackgroundColour,
           D!PaletteMirror, V!PaletteMirror
  <2>3. D!Unmirrored(a) = V!Unmirrored(a)
    BY <2>2 DEF D!Unmirrored, V!Unmirrored
  <2> QED
    BY <2>1, <2>3 DEF D!mirror_addr_, V!mirror_addr_
<1>3. ASSUME NEW m, NEW a, NEW b
      PROVE  D!SameTable(m, D!Table(a), D!Table(b)) = V!SameTable(m, V!Table(a), V!Table(b))
  <2>1. ASSUME NEW x, NEW y
        PROVE  D!SameTable(m, x, y) = V!SameTable(m, x, y)
    BY DEF D!SameTable, V!SameTable
  <2>2. D!Table(a) = V!Table(a) /\ D!Table(b) = V!Table(b)
    BY DEF D!Table, V!Table
  <2> QED
    BY <2>1, <2>2
<1>4. D!Mirrorings = V!Mirrorings /\ D!Cells = V!Cells
  BY <1>2 DEF D!Mirrorings, V!Mirrorings, D!Cells, V!Cells
<1>5. D!MCInit => V!MCInit
  BY <1>4, Zenon DEF D!MCInit, V!MCInit, D!Init, V!Init
<1>6. ASSUME NEW a, NEW b
      PROVE  D!Same(a, b) = V!Same(a, b) /\ D!Keeps(a) = V!Keeps(a) /\ D!Cell(a) = V!Cell(a)
             /\ D!IsPalette(a) = V!IsPalette(a)
  BY <1>2, <1>3 DEF D!Same, V!Same, D!Keeps, V!Keeps, D!Cell, V!Cell, D!IsPalette, V!IsPalette,
       D!SameColour, V!SameColour, D!Palette, V!Palette, D!Table, V!Table,
       D!Tables, V!Tables, D!TableSize, V!TableSize
<1>7. ASSUME NEW a
      PROVE  D!MCread(a) => V!MCread(a)
  BY <1>6, Zenon DEF D!MCread, V!MCread, D!read_ppudata, V!read_ppudata, D!AtOnce, V!AtOnce
<1>8. ASSUME NEW a, NEW byte
      PROVE  D!MCwrite(a, byte) => V!MCwrite(a, byte)
  BY <1>6, Zenon DEF D!MCwrite, V!MCwrite, D!write_ppudata, V!write_ppudata
<1>9. ASSUME NEW m
       PROVE  D!MCset_mirroring(m) => V!MCset_mirroring(m)
  BY <1>6, Zenon DEF D!MCset_mirroring, V!MCset_mirroring, D!set_mirroring, V!set_mirroring
<1>10. [D!MCNext]_(D!mc_vars) => [V!MCNext]_(V!mc_vars)
  <2>1. ASSUME NEW a \in Sampled, D!MCread(a)
        PROVE  V!MCNext
    BY <1>7, <2>1, Zenon DEF V!MCNext
  <2>2. ASSUME NEW a \in Sampled, NEW byte \in {0, 1}, D!MCwrite(a, byte)
        PROVE  V!MCNext
    BY <1>8, <2>2, Zenon DEF V!MCNext
  <2>3. ASSUME NEW m \in D!Mirrorings, D!MCset_mirroring(m)
        PROVE  V!MCNext
    BY <1>4, <1>9, <2>3, Zenon DEF V!MCNext
  <2>4. ASSUME D!reset, buffered' = {0}, UNCHANGED <<known, expected>>
        PROVE  V!MCNext
    <3>1. V!reset
      BY <2>4 DEF D!reset, V!reset
    <3> QED
      BY <2>4, <3>1, Zenon DEF V!MCNext
  <2>5. D!MCNext => V!MCNext
    BY <2>1, <2>2, <2>3, <2>4, Zenon DEF D!MCNext
  <2>6. UNCHANGED D!mc_vars => UNCHANGED V!mc_vars
    BY DEF D!mc_vars, V!mc_vars, D!vars, V!vars
  <2> QED
    BY <2>5, <2>6, Zenon
<1>11. V!ReadsBack => D!ReadsBack
  BY DEF V!ReadsBack, D!ReadsBack
<1> QED
  BY <1>1, <1>5, <1>10, <1>11, V!VideoReadsBack, PTL DEF D!MCSpec, V!MCSpec

(* What was written last is read back through every mirror and past a      *)
(* switch of the mirroring (ppu.cpp 159-174 and 595-636).                  *)
THEOREM ReadBack == DevicesSpec => []ReadsBack
<1>1. DevicesInit => D!MCInit
  BY EachStarts
<1>2. [DevicesNext]_device_vars => [D!MCNext]_(D!mc_vars)
  BY EachFollows
<1> QED
  BY <1>1, <1>2, VideoIsKnown, PTL DEF DevicesSpec, D!MCSpec, ReadsBack

-----------------------------------------------------------------------------
(* The list of recent files                                                *)

Orderly(list) == list \in Seq(Files) /\ \A i, j \in 1..Len(list) : list[i] = list[j] => i = j

LEMMA Room == recent_file_max \in Nat /\ recent_file_max >= 1
BY DevicesAssumption DEF R!RecentConstants

LEMMA FirstEntries ==
  ASSUME NEW list \in Seq(Files)
  PROVE  /\ R!FirstOf(list) \in Seq(Files)
         /\ Len(R!FirstOf(list)) = IF Len(list) < recent_file_max THEN Len(list) ELSE recent_file_max
         /\ \A i \in 1..Len(R!FirstOf(list)) : i \in 1..Len(list) /\ R!FirstOf(list)[i] = list[i]
<1> DEFINE n == IF Len(list) < recent_file_max THEN Len(list) ELSE recent_file_max
<1>1. Len(list) \in Nat /\ n \in Nat /\ n <= Len(list)
  BY Room, LenProperties
<1>2. \A i \in 1..n : i \in 1..Len(list) /\ list[i] \in Files
  BY <1>1, ElementOfSeq
<1>3. R!FirstOf(list) = SubSeq(list, 1, n)
  BY DEF R!FirstOf
<1> HIDE DEF n
<1>4. /\ SubSeq(list, 1, n) \in Seq(Files)
      /\ Len(SubSeq(list, 1, n)) = IF 1 <= n THEN n - 1 + 1 ELSE 0
      /\ \A i \in 1..(n - 1 + 1) : SubSeq(list, 1, n)[i] = list[1 + i - 1]
  BY <1>1, <1>2, SubSeqProperties
<1>5. Len(SubSeq(list, 1, n)) = n /\ \A i \in 1..n : SubSeq(list, 1, n)[i] = list[i]
  BY <1>1, <1>4
<1> QED
  BY <1>2, <1>3, <1>4, <1>5 DEF n

LEMMA FirstOfFirst ==
  ASSUME NEW list \in Seq(Files)
  PROVE  R!FirstOf(R!FirstOf(list)) = R!FirstOf(list)
<1> DEFINE first == R!FirstOf(list)
           again == R!FirstOf(first)
<1>1. first \in Seq(Files) /\ Len(first) \in Nat /\ Len(first) <= recent_file_max
  BY FirstEntries, Room, LenProperties
<1> HIDE DEF first
<1>2. /\ again \in Seq(Files) /\ Len(again) = Len(first)
      /\ \A i \in 1..Len(again) : again[i] = first[i]
  BY <1>1, FirstEntries, Room
<1> HIDE DEF again
<1>3. again = first
  BY <1>1, <1>2, SeqEqual
<1> QED
  BY <1>3 DEF again, first

LEMMA FirstOrderly ==
  ASSUME NEW list, Orderly(list)
  PROVE  Orderly(R!FirstOf(list))
BY FirstEntries DEF Orderly

LEMMA PlaceFound ==
  ASSUME NEW list, Orderly(list), NEW i \in 1..Len(list)
  PROVE  R!PlaceOf(list, list[i]) = i
<1>1. DOMAIN list = 1..Len(list)
  BY LenProperties DEF Orderly
<1>2. \A j \in 1..Len(list) : list[j] = list[i] => j = i
  BY DEF Orderly
<1> QED
  BY <1>1, <1>2 DEF R!PlaceOf

LEMMA Put ==
  ASSUME NEW list \in Seq(Files), NEW path \in Files
  PROVE  /\ <<path>> \o list \in Seq(Files) /\ Len(<<path>> \o list) = Len(list) + 1
         /\ Len(list) \in Nat
         /\ \A i \in 1..(Len(list) + 1) :
              (<<path>> \o list)[i] = IF i = 1 THEN path ELSE list[i - 1]
<1>1. <<path>> \in Seq(Files) /\ Len(<<path>>) = 1 /\ <<path>>[1] = path /\ Len(list) \in Nat
  OBVIOUS
<1>2. /\ <<path>> \o list \in Seq(Files) /\ Len(<<path>> \o list) = 1 + Len(list)
      /\ \A i \in 1..(1 + Len(list)) :
           (<<path>> \o list)[i] = IF i <= 1 THEN <<path>>[i] ELSE list[i - 1]
  BY <1>1, ConcatProperties
<1> QED
  BY <1>1, <1>2

LEMMA Removed ==
  ASSUME NEW list \in Seq(Files), NEW place \in 1..Len(list)
  PROVE  /\ R!RemoveAt(list, place) \in Seq(Files)
         /\ Len(R!RemoveAt(list, place)) = Len(list) - 1
         /\ \A i \in 1..(Len(list) - 1) :
              R!RemoveAt(list, place)[i] = IF i < place THEN list[i] ELSE list[i + 1]
<1> DEFINE n == Len(list)
           low == SubSeq(list, 1, place - 1)
           high == SubSeq(list, place + 1, n)
<1>1. n \in Nat /\ place \in Nat /\ 1 <= place /\ place <= n /\ \A i \in 1..n : list[i] \in Files
  BY LenProperties, ElementOfSeq
<1>2. R!RemoveAt(list, place) = low \o high
  BY DEF R!RemoveAt
<1> HIDE DEF n
<1>3. low \in Seq(Files) /\ Len(low) = place - 1 /\ \A i \in 1..(place - 1) : low[i] = list[i]
  <2>1. place - 1 \in Int /\ \A i \in 1..(place - 1) : list[i] \in Files
    BY <1>1
  <2>2. /\ low \in Seq(Files) /\ Len(low) = IF 1 <= place - 1 THEN (place - 1) - 1 + 1 ELSE 0
        /\ \A i \in 1..((place - 1) - 1 + 1) : low[i] = list[1 + i - 1]
    BY <2>1, SubSeqProperties
  <2> QED
    BY <1>1, <2>2
<1>4. /\ high \in Seq(Files) /\ Len(high) = n - place
      /\ \A i \in 1..(n - place) : high[i] = list[place + i]
  <2>1. place + 1 \in Int /\ n \in Int /\ \A i \in (place + 1)..n : list[i] \in Files
    BY <1>1
  <2>2. /\ high \in Seq(Files) /\ Len(high) = IF place + 1 <= n THEN n - (place + 1) + 1 ELSE 0
        /\ \A i \in 1..(n - (place + 1) + 1) : high[i] = list[(place + 1) + i - 1]
    BY <2>1, SubSeqProperties
  <2>3. \A i \in 1..(n - place) : i \in 1..(n - (place + 1) + 1) /\ (place + 1) + i - 1 = place + i
    BY <1>1
  <2> QED
    BY <1>1, <2>2, <2>3
<1> HIDE DEF low, high
<1>5. /\ low \o high \in Seq(Files) /\ Len(low \o high) = Len(low) + Len(high)
      /\ \A i \in 1..(Len(low) + Len(high)) :
           (low \o high)[i] = IF i <= Len(low) THEN low[i] ELSE high[i - Len(low)]
  BY <1>3, <1>4, ConcatProperties
<1>6. ASSUME NEW i \in 1..(n - 1)
      PROVE  (low \o high)[i] = IF i < place THEN list[i] ELSE list[i + 1]
  <2>1. (low \o high)[i] = IF i <= place - 1 THEN low[i] ELSE high[i - (place - 1)]
    BY <1>1, <1>3, <1>4, <1>5, <1>6
  <2>2. CASE i < place
    BY <1>1, <1>3, <1>6, <2>1, <2>2
  <2>3. CASE ~(i < place)
    <3>1. i - (place - 1) \in 1..(n - place) /\ place + (i - (place - 1)) = i + 1 /\ ~(i <= place - 1)
      BY <1>1, <1>6, <2>3
    <3> QED
      BY <1>4, <2>1, <2>3, <3>1
  <2> QED
    BY <2>2, <2>3
<1>7. Len(low \o high) = n - 1
  BY <1>1, <1>3, <1>4, <1>5
<1> QED
  BY <1>2, <1>5, <1>6, <1>7 DEF n

(* A list that was loaded from with a path at a place: the path comes to   *)
(* the front and what was before it moves down by one.                     *)
LEMMA LoadedAgain ==
  ASSUME Orderly(opened), NEW place \in 1..Len(opened), NEW path \in Files, opened[place] = path
  PROVE  LET list == <<path>> \o R!Others(path)
         IN  /\ Orderly(list) /\ Len(list) = Len(opened)
             /\ \A i \in 1..Len(opened) :
                  list[i] = IF i > place THEN opened[i] ELSE IF i = 1 THEN path ELSE opened[i - 1]
<1> DEFINE n == Len(opened)
           others == R!RemoveAt(opened, place)
           list == <<path>> \o others
<1>1. n \in Nat /\ place \in 1..n /\ opened \in Seq(Files)
  BY LenProperties DEF Orderly
<1>2. R!Others(path) = others
  <2>1. R!Contains(opened, path)
    BY <1>1 DEF R!Contains
  <2>2. R!PlaceOf(opened, path) = place
    BY PlaceFound
  <2> QED
    BY <2>1, <2>2 DEF R!Others
<1>3. /\ others \in Seq(Files) /\ Len(others) = n - 1
      /\ \A i \in 1..(n - 1) : others[i] = IF i < place THEN opened[i] ELSE opened[i + 1]
  BY <1>1, Removed
<1> HIDE DEF others
<1>4. /\ list \in Seq(Files) /\ Len(list) = n
      /\ \A i \in 1..n : list[i] = IF i = 1 THEN path ELSE others[i - 1]
  BY <1>1, <1>3, Put
<1> HIDE DEF list
<1>5. ASSUME NEW i \in 1..n
      PROVE  list[i] = IF i > place THEN opened[i] ELSE IF i = 1 THEN path ELSE opened[i - 1]
  <2>1. CASE i = 1
    BY <1>1, <1>4, <1>5, <2>1
  <2>2. CASE i # 1
    <3>1. i - 1 \in 1..(n - 1) /\ (i - 1) + 1 = i /\ (i - 1 < place <=> ~(i > place))
      BY <1>1, <1>5, <2>2
    <3> QED
      BY <1>3, <1>4, <1>5, <2>2, <3>1
  <2> QED
    BY <2>1, <2>2
<1> HIDE DEF n
<1>6. ASSUME NEW i \in 1..n, NEW j \in 1..n, list[i] = list[j]
      PROVE  i = j
  <2> DEFINE From(k) == IF k > place THEN k ELSE IF k = 1 THEN place ELSE k - 1
  <2>1. \A k \in 1..n : From(k) \in 1..n /\ list[k] = opened[From(k)]
    BY <1>1, <1>5
  <2>2. From(i) = From(j)
    BY <1>6, <2>1 DEF Orderly, n
  <2> QED
    BY <1>1, <1>6, <2>2
<1> QED
  BY <1>2, <1>4, <1>5, <1>6 DEF Orderly, n, list

LEMMA LoadedAnew ==
  ASSUME Orderly(opened), NEW path \in Files, \A i \in 1..Len(opened) : opened[i] # path
  PROVE  LET list == <<path>> \o R!Others(path)
         IN  /\ Orderly(list) /\ Len(list) = Len(opened) + 1
             /\ \A i \in 1..(Len(opened) + 1) : list[i] = IF i = 1 THEN path ELSE opened[i - 1]
<1> DEFINE n == Len(opened)
           list == <<path>> \o opened
<1>1. n \in Nat /\ opened \in Seq(Files)
  BY LenProperties DEF Orderly
<1>2. R!Others(path) = opened
  BY <1>1 DEF R!Others, R!Contains
<1>3. /\ list \in Seq(Files) /\ Len(list) = n + 1
      /\ \A i \in 1..(n + 1) : list[i] = IF i = 1 THEN path ELSE opened[i - 1]
  BY <1>1, Put
<1> HIDE DEF list
<1>4. ASSUME NEW i \in 1..(n + 1), NEW j \in 1..(n + 1), list[i] = list[j]
      PROVE  i = j
  <2>1. \A k \in 1..(n + 1) : k # 1 => k - 1 \in 1..n /\ list[k] = opened[k - 1] /\ list[k] # path
    BY <1>1, <1>3
  <2>2. list[1] = path
    BY <1>1, <1>3
  <2>3. CASE i = 1 \/ j = 1
    BY <1>4, <2>1, <2>2, <2>3
  <2>4. CASE i # 1 /\ j # 1
    <3>1. i - 1 \in 1..n /\ j - 1 \in 1..n /\ opened[i - 1] = opened[j - 1]
      BY <1>4, <2>1, <2>4
    <3>2. i - 1 = j - 1
      BY <3>1 DEF Orderly
    <3> QED
      BY <1>1, <1>4, <3>2
  <2> QED
    BY <2>3, <2>4
<1> QED
  BY <1>1, <1>2, <1>3, <1>4 DEF Orderly, list

(* A full list of which the last entry gives way to a path that is not in  *)
(* it.                                                                     *)
LEMMA FullPushed ==
  ASSUME NEW first \in Seq(Files), Len(first) = Len(recent_files), NEW path \in Files,
         recent_files \in Seq(Files), Len(recent_files) >= 1,
         \A i \in 1..Len(first) : first[i] = IF i = 1 THEN path ELSE recent_files[i - 1]
  PROVE  [R!MovedToFront(recent_files, Len(recent_files)) EXCEPT ![1] = path] = first
<1> DEFINE m == Len(recent_files)
           moved == R!MovedToFront(recent_files, m)
           full == [moved EXCEPT ![1] = path]
<1>1. m \in Nat /\ m >= 1 /\ DOMAIN recent_files = 1..m /\ \A i \in 1..m : recent_files[i] \in Files
  BY LenProperties, ElementOfSeq
<1>2. moved \in [1..m -> Files] /\ \A i \in 1..m : i # 1 => moved[i] = recent_files[i - 1]
  BY <1>1 DEF R!MovedToFront
<1> HIDE DEF moved
<1>3. moved \in Seq(Files) /\ Len(moved) = m
  BY <1>1, <1>2
<1>4. full \in Seq(Files) /\ Len(full) = m /\ \A i \in 1..m : full[i] = IF i = 1 THEN path ELSE moved[i]
  BY <1>1, <1>3, ExceptSeq
<1> HIDE DEF full
<1>5. full = first
  BY <1>1, <1>2, <1>4, SeqEqual
<1> QED
  BY <1>5 DEF full, moved, m

(* The menu's list after a path was loaded.                                *)
LEMMA PushedIsFirst ==
  ASSUME Orderly(opened), recent_files = R!FirstOf(opened), NEW path \in Files
  PROVE  /\ Orderly(<<path>> \o R!Others(path))
         /\ R!Pushed(path) = R!FirstOf(<<path>> \o R!Others(path))
<1> DEFINE n == Len(opened)
           m == Len(recent_files)
           list == <<path>> \o R!Others(path)
<1>1. /\ n \in Nat /\ opened \in Seq(Files) /\ recent_files \in Seq(Files) /\ DOMAIN recent_files = 1..m
      /\ m = IF n < recent_file_max THEN n ELSE recent_file_max
      /\ \A i \in 1..m : i \in 1..n /\ recent_files[i] = opened[i]
  BY FirstEntries, LenProperties DEF Orderly
<1>2. Orderly(recent_files)
  BY FirstOrderly
<1>3. R!Contains(recent_files, path) <=> \E i \in 1..m : opened[i] = path
  BY <1>1 DEF R!Contains
<1>4. CASE \E i \in 1..n : opened[i] = path
  <2>1. PICK place \in 1..n : opened[place] = path
    BY <1>4
  <2>2. /\ Orderly(list) /\ Len(list) = n
        /\ \A i \in 1..n : list[i] = IF i > place THEN opened[i] ELSE IF i = 1 THEN path ELSE opened[i - 1]
    BY <2>1, LoadedAgain
  <2> HIDE DEF list
  <2>3. /\ R!FirstOf(list) \in Seq(Files) /\ Len(R!FirstOf(list)) = m
        /\ \A i \in 1..m : R!FirstOf(list)[i] = list[i]
    <3>1. list \in Seq(Files)
      BY <2>2 DEF Orderly
    <3>2. Len(R!FirstOf(list)) = m
      BY <1>1, <2>2, <3>1, FirstEntries
    <3> QED
      BY <3>1, <3>2, FirstEntries
  <2>4. CASE place <= m
    <3>1. place \in 1..m /\ recent_files[place] = path
      BY <1>1, <2>1, <2>4
    <3>2. R!Pushed(path) = R!MovedToFront(recent_files, place)
      <4>1. R!Listed(path)
        BY <1>3, <2>1, <3>1 DEF R!Listed
      <4>2. R!PlaceOf(recent_files, path) = place
        BY <1>2, <3>1, PlaceFound
      <4> QED
        BY <4>1, <4>2 DEF R!Pushed
    <3> DEFINE moved == R!MovedToFront(recent_files, place)
    <3>3. /\ moved \in [1..m -> Files]
          /\ \A i \in 1..m : moved[i] = IF i > place THEN recent_files[i]
                                         ELSE recent_files[IF i = 1 THEN place ELSE i - 1]
      BY <1>1, <3>1, ElementOfSeq DEF R!MovedToFront
    <3> HIDE DEF moved
    <3>4. moved \in Seq(Files) /\ Len(moved) = m
      BY <1>1, <3>3, Room
    <3>5. \A i \in 1..m : moved[i] = list[i]
      BY <1>1, <2>1, <2>2, <3>1, <3>3
    <3>6. moved = R!FirstOf(list)
      BY <2>3, <3>4, <3>5, SeqEqual
    <3> QED
      BY <2>2, <3>2, <3>6 DEF moved, list
  <2>5. CASE place > m
    <3>1. m = recent_file_max /\ n >= m /\ m >= 1
      BY <1>1, <2>1, <2>5, Room
    <3>2. R!Pushed(path) = [R!MovedToFront(recent_files, m) EXCEPT ![1] = path]
      <4>1. \A i \in 1..m : opened[i] # path
        BY <1>1, <2>1, <2>5 DEF Orderly
      <4>2. ~R!Listed(path) /\ Len(recent_files) >= recent_file_max
        BY <1>3, <3>1, <4>1, Room DEF R!Listed
      <4> QED
        BY <3>1, <4>2 DEF R!Pushed, R!RotatedFull
    <3>3. \A i \in 1..m : list[i] = IF i = 1 THEN path ELSE opened[i - 1]
      BY <1>1, <2>1, <2>2, <2>5
    <3> DEFINE first == R!FirstOf(list)
    <3> HIDE DEF first
    <3>4. /\ first \in Seq(Files) /\ Len(first) = m
          /\ \A i \in 1..Len(first) : first[i] = IF i = 1 THEN path ELSE opened[i - 1]
      BY <2>3, <3>3 DEF first
    <3>5. \A i \in 1..m : i # 1 => opened[i - 1] = recent_files[i - 1]
      <4> SUFFICES ASSUME NEW i \in 1..m, i # 1 PROVE opened[i - 1] = recent_files[i - 1]
        OBVIOUS
      <4>1. i - 1 \in 1..m
        BY <1>1
      <4> QED
        BY <1>1, <4>1
    <3>6. /\ Len(first) = Len(recent_files) /\ Len(recent_files) >= 1
          /\ \A i \in 1..Len(first) : first[i] = IF i = 1 THEN path ELSE recent_files[i - 1]
      BY <3>1, <3>4, <3>5
    <3>7. [R!MovedToFront(recent_files, Len(recent_files)) EXCEPT ![1] = path] = first
      BY <1>1, <3>4, <3>6, FullPushed
    <3> QED
      BY <2>2, <3>2, <3>7 DEF first, list
  <2> QED
    BY <1>1, <2>1, <2>4, <2>5, Room
<1>5. CASE \A i \in 1..n : opened[i] # path
  <2>1. /\ Orderly(list) /\ Len(list) = n + 1
        /\ \A i \in 1..(n + 1) : list[i] = IF i = 1 THEN path ELSE opened[i - 1]
    BY <1>5, LoadedAnew
  <2> HIDE DEF list
  <2>2. ~R!Listed(path)
    BY <1>1, <1>3, <1>5 DEF R!Listed
  <2>3. CASE n < recent_file_max
    <3>1. R!Pushed(path) = <<path>> \o recent_files
      BY <1>1, <2>2, <2>3, Room DEF R!Pushed
    <3> DEFINE put == <<path>> \o recent_files
    <3>2. /\ put \in Seq(Files) /\ Len(put) = m + 1
          /\ \A i \in 1..(m + 1) : put[i] = IF i = 1 THEN path ELSE recent_files[i - 1]
      BY <1>1, Put
    <3>3. /\ R!FirstOf(list) \in Seq(Files) /\ Len(R!FirstOf(list)) = m + 1
          /\ \A i \in 1..(m + 1) : R!FirstOf(list)[i] = list[i]
      BY <1>1, <2>1, <2>3, FirstEntries, Room DEF Orderly
    <3> HIDE DEF put
    <3>4. \A i \in 1..(m + 1) : put[i] = list[i]
      <4> SUFFICES ASSUME NEW i \in 1..(m + 1), i # 1 PROVE recent_files[i - 1] = opened[i - 1]
        BY <1>1, <2>1, <2>3, <3>2
      <4>1. i - 1 \in 1..m
        BY <1>1, <2>3
      <4> QED
        BY <1>1, <4>1
    <3> DEFINE first == R!FirstOf(list)
    <3>5. first \in Seq(Files) /\ Len(put) = Len(first) /\ \A i \in 1..Len(put) : put[i] = first[i]
      BY <3>2, <3>3, <3>4
    <3> HIDE DEF first
    <3>6. put = first
      BY <3>2, <3>5, SeqEqual
    <3> QED
      BY <2>1, <3>1, <3>6 DEF put, first, list
  <2>4. CASE n >= recent_file_max
    <3>1. m = recent_file_max /\ n >= m /\ m >= 1
      BY <1>1, <2>4, Room
    <3>2. R!Pushed(path) = [R!MovedToFront(recent_files, m) EXCEPT ![1] = path]
      BY <2>2, <3>1, Room DEF R!Pushed, R!RotatedFull
    <3>3. /\ R!FirstOf(list) \in Seq(Files) /\ Len(R!FirstOf(list)) = m
          /\ \A i \in 1..m : R!FirstOf(list)[i] = list[i]
      BY <1>1, <2>1, <3>1, FirstEntries DEF Orderly
    <3>4. \A i \in 1..m : list[i] = IF i = 1 THEN path ELSE opened[i - 1]
      BY <1>1, <2>1, <3>1
    <3> DEFINE first == R!FirstOf(list)
    <3> HIDE DEF first
    <3>5. /\ first \in Seq(Files) /\ Len(first) = m
          /\ \A i \in 1..Len(first) : first[i] = IF i = 1 THEN path ELSE opened[i - 1]
      BY <3>3, <3>4 DEF first
    <3>6. \A i \in 1..m : i # 1 => opened[i - 1] = recent_files[i - 1]
      <4> SUFFICES ASSUME NEW i \in 1..m, i # 1 PROVE opened[i - 1] = recent_files[i - 1]
        OBVIOUS
      <4>1. i - 1 \in 1..m
        BY <1>1
      <4> QED
        BY <1>1, <4>1
    <3>7. /\ Len(first) = Len(recent_files) /\ Len(recent_files) >= 1
          /\ \A i \in 1..Len(first) : first[i] = IF i = 1 THEN path ELSE recent_files[i - 1]
      BY <3>1, <3>5, <3>6
    <3>8. [R!MovedToFront(recent_files, Len(recent_files)) EXCEPT ![1] = path] = first
      BY <1>1, <3>5, <3>7, FullPushed
    <3> QED
      BY <2>1, <3>2, <3>8 DEF first, list
  <2> QED
    BY <1>1, <2>3, <2>4, Room
<1> QED
  BY <1>4, <1>5

RecentInv ==
  /\ Orderly(opened) /\ Orderly(remembered)
  /\ R!FirstOf(settings.list) = R!FirstOf(remembered)
  /\ running = "saving" => remembered = <<>>
  /\ running \in {"running", "saving"} => recent_files = R!FirstOf(opened)

LEMMA NoneOrderly == Orderly(<<>>)
BY EmptySeq DEF Orderly

LEMMA RecentStarts ==
  ASSUME R!Init
  PROVE  RecentInv
<1>1. Orderly(settings.list)
  <2>1. PICK list \in R!Lists : settings \in {R!Unreadable("absent"), R!Whole(list)}
    BY DEF R!Init
  <2>2. settings.list = <<>> \/ settings.list = list
    BY <2>1 DEF R!Unreadable, R!Whole
  <2>3. PICK n \in 0..(recent_file_max + 1) : list \in [1..n -> Files] /\ R!IsInjective(list)
    BY DEF R!Lists
  <2>4. list \in Seq(Files) /\ Len(list) = n
    BY <2>3, Room
  <2>5. Orderly(list)
    BY <2>3, <2>4 DEF Orderly, R!IsInjective
  <2> QED
    BY <2>2, <2>5, NoneOrderly
<1> QED
  BY <1>1, NoneOrderly DEF R!Init, RecentInv

LEMMA RecentStep ==
  ASSUME RecentInv, [R!Next]_(R!vars)
  PROVE  RecentInv'
<1> USE DEF RecentInv
<1>1. ASSUME NEW path \in Files, R!push_recent_file(path)
      PROVE  RecentInv'
  BY <1>1, PushedIsFirst DEF R!push_recent_file, Orderly
<1>2. CASE R!initialize /\ R!open_read
  <2>1. /\ opened' = R!FirstOf(remembered) /\ recent_files' = R!FirstOf(settings.list)
        /\ running' # "saving" /\ UNCHANGED <<settings, remembered>>
    BY <1>2 DEF R!initialize, R!open_read
  <2>2. Orderly(opened') /\ recent_files' = opened'
    BY <2>1, FirstOrderly
  <2>3. R!FirstOf(opened') = opened'
    BY <2>1, FirstOfFirst DEF Orderly
  <2> QED
    BY <2>1, <2>2, <2>3 DEF Orderly
<1>2a. CASE R!initialize /\ R!open_fails
  <2>1. R!FirstOf(<<>>) = <<>>
    BY NoneOrderly, FirstOfFirst, EmptySeq, Room DEF R!FirstOf, Orderly
  <2> QED
    BY <1>2a, <2>1, NoneOrderly DEF R!initialize, R!open_fails, Orderly
<1>3. CASE R!close
  <2>1. UNCHANGED <<recent_files, opened>> /\ recent_files = R!FirstOf(opened)
    BY <1>3 DEF R!close
  <2>2. CASE running' = "saving" /\ settings' = R!Unreadable("empty") /\ remembered' = <<>>
    BY <2>1, <2>2, NoneOrderly DEF R!Unreadable, Orderly
  <2>3. CASE running' = "stopped" /\ UNCHANGED <<settings, remembered>>
    BY <2>1, <2>3 DEF Orderly
  <2> QED
    BY <1>3, <2>2, <2>3 DEF R!close
<1>4. CASE R!write_file
  <2>1. /\ running' = "stopped" /\ remembered' = opened /\ UNCHANGED <<recent_files, opened>>
        /\ settings'.list = recent_files /\ recent_files = R!FirstOf(opened)
    BY <1>4 DEF R!write_file, R!Whole
  <2>2. R!FirstOf(recent_files) = R!FirstOf(opened)
    BY <2>1, FirstOfFirst DEF Orderly
  <2> QED
    BY <2>1, <2>2 DEF Orderly
<1>5. CASE R!killed
  BY <1>5 DEF R!killed, R!Unreadable, Orderly
<1>6. CASE R!removed
  BY <1>6, NoneOrderly DEF R!removed, R!Unreadable, Orderly
<1>7. CASE UNCHANGED R!vars
  BY <1>7 DEF R!vars, Orderly
<1> QED
  BY <1>1, <1>2, <1>2a, <1>3, <1>4, <1>5, <1>6, <1>7 DEF R!Next, R!initialize

(* The menu shows the ROMs last loaded, each once and the last one first,  *)
(* over every end of the program (global.cpp 16-22 and 86-122), for any    *)
(* paths and any length of the list.                                       *)
THEOREM RecentStaysFirst == DevicesSpec => []RecentFirst
<1>1. DevicesInit => RecentInv
  BY EachStarts, RecentStarts
<1>2. RecentInv /\ [DevicesNext]_device_vars => RecentInv'
  BY EachFollows, RecentStep
<1>3. RecentInv => RecentFirst
  BY DEF RecentInv, RecentFirst, R!RecentFirst
<1> QED
  BY <1>1, <1>2, <1>3, PTL DEF DevicesSpec

-----------------------------------------------------------------------------
(* Sets of numbers                                                         *)

(* A set of natural numbers has a least one.                               *)
LEMMA Least ==
  ASSUME NEW set \in SUBSET Nat, set # {}
  PROVE  \E n \in set : \A m \in set : n <= m
<1> DEFINE Smaller == StrictSubsetOrdering(Nat)
           Ranges == {1..n : n \in set}
<1>1. IsWellFoundedOn(Smaller, FiniteSubsetsOf(Nat))
  BY FS_StrictSubsetOrderingWellFounded
<1>2. Ranges \subseteq FiniteSubsetsOf(Nat) /\ Ranges # {}
  <2>1. \A n \in Nat : IsFiniteSet(1..n) /\ 1..n \in SUBSET Nat
    BY FS_Interval
  <2> QED
    BY <2>1 DEF FiniteSubsetsOf
<1>3. \A n, m \in Nat : m < n => <<1..m, 1..n>> \in Smaller
  <2> SUFFICES ASSUME NEW n \in Nat, NEW m \in Nat, m < n
               PROVE  1..m \subseteq 1..n /\ 1..m # 1..n /\ 1..m \in SUBSET Nat /\ 1..n \in SUBSET Nat
    BY DEF StrictSubsetOrdering
  <2>1. n \in 1..n /\ n \notin 1..m
    OBVIOUS
  <2> QED
    BY <2>1
<1> HIDE DEF Smaller
<1>4. \E part \in Ranges : \A other \in Ranges : ~(<<other, part>> \in Smaller)
  <2> HIDE DEF Ranges
  <2> QED
    BY <1>1, <1>2, WFMin, Zenon
<1>5. PICK n \in set : \A m \in set : ~(<<1..m, 1..n>> \in Smaller)
  BY <1>4
<1>6. ASSUME NEW m \in set
      PROVE  n <= m
  <2>1. ~(m < n)
    BY <1>3, <1>5
  <2> QED
    BY <2>1
<1> QED
  BY <1>6

(* The place of a number in a set is how many are before it.               *)
LEMMA PlaceInSet ==
  ASSUME NEW n \in Nat, NEW A \in SUBSET (1..n), NEW i \in A
  PROVE  /\ Cardinality(A \cap 1..(i - 1)) \in Nat
         /\ Cardinality(A \cap 1..(i - 1)) < Cardinality(A)
         /\ \A j \in A : i < j => Cardinality(A \cap 1..(i - 1)) < Cardinality(A \cap 1..(j - 1))
<1> DEFINE Low(j) == A \cap 1..(j - 1)
<1>1. IsFiniteSet(A) /\ Cardinality(A) \in Nat /\ i \in 1..n
  <2>1. IsFiniteSet(1..n)
    BY FS_Interval
  <2>2. IsFiniteSet(A)
    BY <2>1, FS_Subset
  <2> QED
    BY <2>2, FS_CardinalityType
<1>2. \A part \in SUBSET A : IsFiniteSet(part) /\ Cardinality(part) \in Nat
  BY <1>1, FS_Subset, FS_CardinalityType
<1>3. ASSUME NEW B \in SUBSET A, Low(i) \subseteq B, i \in B
      PROVE  Cardinality(Low(i)) < Cardinality(B)
  <2>1. Low(i) \in SUBSET B /\ Low(i) # B /\ IsFiniteSet(B)
    BY <1>1, <1>2, <1>3
  <2> QED
    BY <1>2, <1>3, <2>1, FS_Subset
<1>4. Low(i) \subseteq A
  OBVIOUS
<1>5. ASSUME NEW j \in A, i < j
      PROVE  Low(i) \subseteq Low(j) /\ i \in Low(j) /\ Low(j) \in SUBSET A
  BY <1>1, <1>5
<1> QED
  BY <1>2, <1>3, <1>4, <1>5

LEMMA Nth ==
  ASSUME NEW n \in Nat, NEW A \in SUBSET (1..n), NEW k \in Nat, k < Cardinality(A)
  PROVE  \E i \in A : Cardinality(A \cap 1..(i - 1)) = k
<1> DEFINE Many == {i \in Nat : Cardinality(A \cap 1..i) > k}
<1>1. IsFiniteSet(A)
  <2>1. IsFiniteSet(1..n)
    BY FS_Interval
  <2> QED
    BY <2>1, FS_Subset
<1>2. \A i : IsFiniteSet(A \cap i) /\ Cardinality(A \cap i) \in Nat
  BY <1>1, FS_Intersection, FS_CardinalityType
<1>3. n \in Many
  <2>1. A \cap 1..n = A
    OBVIOUS
  <2> QED
    BY <1>2, <2>1
<1>4. PICK i \in Many : \A j \in Many : i <= j
  BY <1>3, Least
<1>5. i > 0
  <2>1. A \cap 1..0 = {}
    OBVIOUS
  <2> QED
    BY <1>4, <2>1, FS_EmptySet
<1>6. i - 1 \in Nat /\ Cardinality(A \cap 1..(i - 1)) <= k
  BY <1>2, <1>4, <1>5
<1>7. A \cap 1..i = IF i \in A THEN (A \cap 1..(i - 1)) \union {i} ELSE A \cap 1..(i - 1)
  BY <1>4, <1>5
<1>8. Cardinality((A \cap 1..(i - 1)) \union {i}) <= Cardinality(A \cap 1..(i - 1)) + 1
  BY <1>2, FS_AddElement
<1>9. Cardinality(A \cap 1..i) > k
  BY <1>4
<1> DEFINE before == A \cap 1..(i - 1)
<1>10. Cardinality(before) \in Nat /\ Cardinality(before \union {i}) \in Nat
  <2>1. IsFiniteSet(before \union {i})
    BY <1>2, FS_AddElement
  <2> QED
    BY <1>2, <2>1, FS_CardinalityType
<1>11. i \in A /\ Cardinality(before \union {i}) > k
  <2>1. CASE i \in A
    BY <1>7, <1>9, <2>1
  <2>2. CASE i \notin A
    BY <1>6, <1>7, <1>9, <1>10, <2>2
  <2> QED
    BY <2>1, <2>2
<1>12. Cardinality(before) = k
  <2>1. Cardinality(before) <= k /\ Cardinality(before \union {i}) <= Cardinality(before) + 1
    BY <1>6, <1>8
  <2> HIDE DEF before
  <2> QED
    BY <1>10, <1>11, <2>1
<1> QED
  BY <1>11, <1>12

-----------------------------------------------------------------------------
(* Sprites: what a lookup finds and what a half that holds it shows        *)

Found(lookup) == {i \in DOMAIN lookup.oam : F!CoveredBy(lookup, i)}
Place(lookup, i) == Cardinality(Found(lookup) \cap 1..(i - 1))
EntryOf(lookup, i) ==
  [tile |-> lookup.oam[i].tile, x |-> lookup.oam[i].x, row |-> lookup.line - lookup.oam[i].y]

(* A half that holds one whole lookup.                                     *)
Holds(half, lookup) ==
  /\ DOMAIN half.list = 1..Len(half.list) /\ Len(half.list) \in Nat
  /\ \A k \in 1..Len(half.list) :
       \E i \in Found(lookup) : Place(lookup, i) = k - 1 /\ half.list[k] = EntryOf(lookup, i)
  /\ Len(half.list) <= MaxSprites
  /\ \A i \in Found(lookup) : Place(lookup, i) < MaxSprites => Place(lookup, i) < Len(half.list)
  /\ half.has_sprite_0 <=> 1 \in Found(lookup) /\ MaxSprites > 0

AnySprite == [y : Nat, x : Nat, tile : DOMAIN Opaque]
AnyLookup == [oam : Seq(AnySprite), height : Nat, line : Int]

LEMMA SameSize == \A set : F!Cardinality(set) = Cardinality(set)
BY DEF F!Cardinality, Cardinality

LEMMA SpriteRoom == MaxSprites \in Nat /\ Height \in Nat /\ LastColumn \in Nat
BY DevicesAssumption DEF F!SpriteConstants

LEMMA FoundInSet ==
  ASSUME NEW lookup \in AnyLookup
  PROVE  /\ Len(lookup.oam) \in Nat /\ DOMAIN lookup.oam = 1..Len(lookup.oam)
         /\ Found(lookup) \in SUBSET (1..Len(lookup.oam))
         /\ IsFiniteSet(Found(lookup)) /\ Cardinality(Found(lookup)) \in Nat
<1>1. Len(lookup.oam) \in Nat /\ DOMAIN lookup.oam = 1..Len(lookup.oam)
  BY LenProperties DEF AnyLookup
<1>2. Found(lookup) \in SUBSET (1..Len(lookup.oam))
  BY <1>1 DEF Found
<1>3. IsFiniteSet(1..Len(lookup.oam))
  BY <1>1, FS_Interval
<1>4. IsFiniteSet(Found(lookup))
  BY <1>2, <1>3, FS_Subset
<1> QED
  BY <1>1, <1>2, <1>4, FS_CardinalityType

(* Two sprites that are found are in the order of their places.            *)
LEMMA PlacesInOrder ==
  ASSUME NEW lookup \in AnyLookup, NEW i \in Found(lookup)
  PROVE  /\ Place(lookup, i) \in Nat /\ Place(lookup, i) < Cardinality(Found(lookup))
         /\ \A j \in Found(lookup) :
              /\ i < j <=> Place(lookup, i) < Place(lookup, j)
              /\ i = j <=> Place(lookup, i) = Place(lookup, j)
<1>1. \A j \in Found(lookup) :
        /\ Place(lookup, j) \in Nat /\ Place(lookup, j) < Cardinality(Found(lookup))
        /\ \A m \in Found(lookup) : j < m => Place(lookup, j) < Place(lookup, m)
  BY FoundInSet, PlaceInSet DEF Place
<1>2. \A j \in Found(lookup) : j \in Nat
  BY FoundInSet
<1> QED
  BY <1>1, <1>2

LEMMA FirstPlace ==
  ASSUME NEW lookup \in AnyLookup
  PROVE  Place(lookup, 1) = 0
<1>1. Found(lookup) \cap 1..(1 - 1) = {}
  OBVIOUS
<1> QED
  BY <1>1, FS_EmptySet DEF Place

(* What fg_eval_ looks up into an empty half.                              *)
LEMMA EvaluatedHolds ==
  ASSUME oam \in Pictures, scanline \in Int, tall \in BOOLEAN,
         NEW lookup \in F!Lookups
  PROVE  lookup \in AnyLookup /\ Holds(F!Evaluated(F!NoSprites), lookup)
<1> DEFINE on == F!OnLine(scanline)
           chosen == F!Chosen(scanline, MaxSprites)
           n == IF Cardinality(on) < MaxSprites THEN Cardinality(on) ELSE MaxSprites
           half == F!Evaluated(F!NoSprites)
           list == [k \in DOMAIN chosen |-> F!Entry(oam[chosen[k]], scanline)]
<1>1. lookup = [oam |-> oam, height |-> F!Tallness, line |-> scanline]
  BY DEF F!Lookups
<1>2. oam \in Seq(AnySprite) /\ F!Tallness \in Nat
  <2>1. oam \in Seq(AnySprite)
    BY DevicesAssumption DEF F!SpriteConstants, AnySprite
  <2> QED
    BY <2>1, SpriteRoom DEF F!Tallness
<1>3. lookup \in AnyLookup
  BY <1>1, <1>2 DEF AnyLookup
<1>4. on = Found(lookup)
  <2> SUFFICES ASSUME NEW i \in DOMAIN oam
               PROVE  F!Covers(oam[i], scanline) <=> F!CoveredBy(lookup, i)
    BY <1>1 DEF Found, F!OnLine
  <2>1. oam[i] \in AnySprite
    BY <1>2, LenProperties, ElementOfSeq
  <2>2. oam[i].y \in Nat
    BY <2>1 DEF AnySprite
  <2> DEFINE y == oam[i].y
             height == F!Tallness
  <2>3. F!CoveredBy(lookup, i) <=> y <= scanline /\ scanline < y + height
    BY <1>1 DEF F!CoveredBy
  <2>4. F!Covers(oam[i], scanline) <=> scanline - y \in 0..(height - 1)
    BY DEF F!Covers
  <2>5. y \in Nat /\ height \in Nat
    BY <1>2, <2>2
  <2> HIDE DEF y, height
  <2> QED
    BY <2>3, <2>4, <2>5
<1>5. \A i : F!Before(scanline, i) = Place(lookup, i)
  BY <1>4, SameSize DEF F!Before, Place
<1>6. n \in Nat /\ n <= MaxSprites /\ n <= Cardinality(on) /\ Cardinality(on) \in Nat
      /\ (n = MaxSprites \/ n = Cardinality(on))
  BY <1>3, <1>4, FoundInSet, SpriteRoom
<1>7. DOMAIN chosen = 1..n
      /\ \A k \in 1..n : chosen[k] \in Found(lookup) /\ Place(lookup, chosen[k]) = k - 1
  <2>1. chosen = [k \in 1..n |-> CHOOSE i \in on : F!Before(scanline, i) = k - 1]
    <3> DEFINE size == F!Cardinality(on)
               rank(i) == F!Before(scanline, i)
    <3>1. chosen = [k \in 1..(IF size < MaxSprites THEN size ELSE MaxSprites) |->
                      CHOOSE i \in on : rank(i) = k - 1]
      BY DEF F!Chosen
    <3>2. size = Cardinality(on)
      BY SameSize
    <3> HIDE DEF size, chosen, rank, on
    <3>3. chosen = [k \in 1..n |-> CHOOSE i \in on : rank(i) = k - 1]
      BY <3>1, <3>2
    <3> QED
      BY <3>3 DEF rank
  <2>2. ASSUME NEW k \in 1..n
        PROVE  \E i \in on : F!Before(scanline, i) = k - 1
    <3>1. k - 1 \in Nat /\ k - 1 < Cardinality(Found(lookup))
      BY <1>4, <1>6, <2>2
    <3>2. \E i \in Found(lookup) : Cardinality(Found(lookup) \cap 1..(i - 1)) = k - 1
      BY <1>3, <3>1, FoundInSet, Nth
    <3> QED
      BY <1>4, <1>5, <3>2 DEF Place
  <2> HIDE DEF chosen, n
  <2>3. \A k \in 1..n : chosen[k] \in on /\ F!Before(scanline, chosen[k]) = k - 1
    BY <2>1, <2>2
  <2> QED
    BY <1>4, <1>5, <2>1, <2>3
<1> HIDE DEF n, chosen, on
<1>8. /\ half.list = list /\ half.has_sprite_0 = (FALSE \/ 1 \in {chosen[k] : k \in DOMAIN chosen})
  <2>1. half.list = <<>> \o list /\ half.has_sprite_0 = (FALSE \/ 1 \in F!ToSet(chosen))
    <3>1. MaxSprites - Len(F!NoSprites.list) = MaxSprites
      BY SpriteRoom, EmptySeq DEF F!NoSprites
    <3> QED
      BY <3>1 DEF F!Evaluated, F!NoSprites, chosen
  <2> DEFINE Entries == {F!Entry(oam[chosen[k]], scanline) : k \in 1..n}
  <2>2. list \in Seq(Entries)
    BY <1>6, <1>7
  <2>3. <<>> \o list = list
    <3> HIDE DEF list, Entries
    <3> QED
      BY <2>2, ConcatEmptySeq
  <2> QED
    BY <2>1, <2>3 DEF F!ToSet
<1>9. DOMAIN list = 1..n /\ Len(list) = n
      /\ \A k \in 1..n : list[k] = EntryOf(lookup, chosen[k])
  BY <1>1, <1>6, <1>7 DEF F!Entry, EntryOf
<1>10. half.has_sprite_0 <=> 1 \in Found(lookup) /\ MaxSprites > 0
  <2>1. ASSUME 1 \in Found(lookup), MaxSprites > 0
        PROVE  1 \in 1..n /\ chosen[1] = 1
    <3>1. 0 < Cardinality(Found(lookup))
      BY <1>3, <2>1, FirstPlace, PlacesInOrder
    <3>2. 1 \in 1..n
      BY <1>4, <1>6, <2>1, <3>1, SpriteRoom
    <3>3. chosen[1] \in Found(lookup) /\ Place(lookup, chosen[1]) = 0
      BY <1>7, <3>2
    <3> QED
      BY <1>3, <2>1, <3>2, <3>3, FirstPlace, PlacesInOrder
  <2>2. ASSUME NEW k \in 1..n, chosen[k] = 1
        PROVE  1 \in Found(lookup) /\ MaxSprites > 0
    BY <1>6, <1>7, <2>2, SpriteRoom
  <2> QED
    BY <1>7, <1>8, <2>1, <2>2
<1>11. \A i \in Found(lookup) : Place(lookup, i) < MaxSprites => Place(lookup, i) < n
  BY <1>3, <1>4, <1>6, PlacesInOrder, SpriteRoom
<1> HIDE DEF list, half
<1>12. Holds(half, lookup)
  <2>1. half.list = list
    BY <1>8
  <2>2. \A k \in 1..n :
          \E i \in Found(lookup) : Place(lookup, i) = k - 1 /\ list[k] = EntryOf(lookup, i)
    BY <1>7, <1>9
  <2> QED
    BY <1>6, <1>9, <1>10, <1>11, <2>1, <2>2 DEF Holds
<1> QED
  BY <1>3, <1>12 DEF half

(* What a half that holds a lookup shows in a column.                      *)
LEMMA HoldsShows ==
  ASSUME NEW half, NEW lookup \in AnyLookup, Holds(half, lookup), NEW col \in Nat
  PROVE  LET front == F!Frontmost(half.list, col)
         IN  /\ front = 0 => F!ShownAt(lookup, col) = {}
             /\ front # 0 => \E i \in Found(lookup) : /\ F!InFront(lookup, col, i)
                                                      /\ half.list[front] = EntryOf(lookup, i)
             /\ front = 1 /\ half.has_sprite_0 <=> F!InFront(lookup, col, 1)
<1> DEFINE list == half.list
           at == {k \in DOMAIN list : F!OpaqueAt(list[k], col)}
           shown_at == F!ShownAt(lookup, col)
           front == F!Frontmost(list, col)
<1>1. /\ DOMAIN list = 1..Len(list) /\ Len(list) \in Nat /\ Len(list) <= MaxSprites
      /\ \A k \in 1..Len(list) :
           \E i \in Found(lookup) : Place(lookup, i) = k - 1 /\ list[k] = EntryOf(lookup, i)
      /\ \A i \in Found(lookup) : Place(lookup, i) < MaxSprites => Place(lookup, i) < Len(list)
  BY DEF Holds
<1>2. \A i \in DOMAIN lookup.oam :
        i \in Nat /\ 1 <= i
        /\ Cardinality({j \in 1..(i - 1) : F!CoveredBy(lookup, j)}) = Place(lookup, i)
  <2>1. ASSUME NEW i \in DOMAIN lookup.oam
        PROVE  {j \in 1..(i - 1) : F!CoveredBy(lookup, j)} = Found(lookup) \cap 1..(i - 1)
    <3>1. 1..(i - 1) \subseteq DOMAIN lookup.oam
      BY FoundInSet
    <3> QED
      BY <3>1 DEF Found
  <2>2. \A i \in DOMAIN lookup.oam : i \in Nat /\ 1 <= i
    BY FoundInSet
  <2> QED
    BY <2>1, <2>2 DEF Place
<1>3. \A i : i \in shown_at <=>
        /\ i \in Found(lookup) /\ Place(lookup, i) < MaxSprites
        /\ F!OpaqueAt(EntryOf(lookup, i), col)
  BY <1>2, SameSize DEF F!ShownAt, Found, F!OpaqueAt, EntryOf
<1>4. \A k \in at : \E i \in shown_at : Place(lookup, i) = k - 1 /\ list[k] = EntryOf(lookup, i)
  <2> SUFFICES ASSUME NEW k \in at
               PROVE  \E i \in shown_at : Place(lookup, i) = k - 1 /\ list[k] = EntryOf(lookup, i)
    OBVIOUS
  <2>1. k \in 1..Len(list) /\ F!OpaqueAt(list[k], col)
    BY <1>1
  <2>2. PICK i \in Found(lookup) : Place(lookup, i) = k - 1 /\ list[k] = EntryOf(lookup, i)
    BY <1>1, <2>1
  <2>3. Place(lookup, i) < MaxSprites
    BY <1>1, <2>1, <2>2, SpriteRoom
  <2> HIDE DEF shown_at, at
  <2> QED
    BY <1>3, <2>1, <2>2, <2>3
<1>5. \A i \in shown_at : Place(lookup, i) + 1 \in at /\ list[Place(lookup, i) + 1] = EntryOf(lookup, i)
  <2> SUFFICES ASSUME NEW i \in shown_at
               PROVE  Place(lookup, i) + 1 \in at /\ list[Place(lookup, i) + 1] = EntryOf(lookup, i)
    OBVIOUS
  <2> DEFINE k == Place(lookup, i) + 1
  <2>1. i \in Found(lookup) /\ Place(lookup, i) < MaxSprites /\ F!OpaqueAt(EntryOf(lookup, i), col)
    BY <1>3
  <2>2. Place(lookup, i) \in Nat
    BY <2>1, PlacesInOrder
  <2>3. k \in 1..Len(list) /\ k - 1 = Place(lookup, i)
    BY <1>1, <2>1, <2>2
  <2>4. PICK j \in Found(lookup) : Place(lookup, j) = k - 1 /\ list[k] = EntryOf(lookup, j)
    BY <1>1, <2>3
  <2>5. j = i
    BY <2>1, <2>3, <2>4, PlacesInOrder
  <2> QED
    BY <1>1, <2>1, <2>3, <2>4, <2>5
<1>6. front = IF at = {} THEN 0 ELSE F!Min(at)
  BY DEF F!Frontmost
<1>7. at \in SUBSET Nat /\ 0 \notin at
  BY <1>1
<1>8. at # {} => front \in at /\ \A k \in at : front <= k
  <2>1. at # {} => \E k \in at : \A m \in at : k <= m
    BY <1>7, Least
  <2> HIDE DEF at
  <2> QED
    BY <1>6, <2>1 DEF F!Min
<1>9. ASSUME front # 0
      PROVE  \E i \in Found(lookup) : /\ F!InFront(lookup, col, i) /\ list[front] = EntryOf(lookup, i)
                                      /\ Place(lookup, i) = front - 1
  <2>1. front \in at
    BY <1>6, <1>8, <1>9
  <2>2. PICK i \in shown_at : Place(lookup, i) = front - 1 /\ list[front] = EntryOf(lookup, i)
    BY <1>4, <2>1
  <2>3. ASSUME NEW j \in shown_at, j \in 1..(i - 1)
        PROVE  FALSE
    <3>1. j < i /\ i \in Found(lookup) /\ j \in Found(lookup)
      BY <1>3, <2>3, FoundInSet
    <3>2. Place(lookup, j) < Place(lookup, i) /\ Place(lookup, j) \in Nat /\ Place(lookup, i) \in Nat
      BY <3>1, PlacesInOrder
    <3>3. front <= Place(lookup, j) + 1 /\ front \in Nat
      BY <1>5, <1>7, <1>8, <2>1
    <3> QED
      BY <2>2, <3>2, <3>3
  <2>4. i \in Found(lookup) /\ shown_at \cap 1..(i - 1) = {}
    BY <1>3, <2>3
  <2> QED
    BY <2>2, <2>4 DEF F!InFront
<1>10. front = 0 => shown_at = {}
  BY <1>5, <1>7, <1>8
<1>11. ASSUME F!InFront(lookup, col, 1)
       PROVE  front = 1 /\ half.has_sprite_0
  <2>1. 1 \in shown_at
    BY <1>11 DEF F!InFront
  <2>2. 1 \in Found(lookup) /\ 0 < MaxSprites /\ Place(lookup, 1) = 0
    BY <1>3, <2>1, FirstPlace
  <2>3. 1 \in at
    BY <1>5, <2>1, <2>2
  <2>4. front \in at /\ front <= 1
    BY <1>8, <2>3
  <2> QED
    BY <1>7, <2>2, <2>4 DEF Holds
<1>12. ASSUME front = 1, half.has_sprite_0
       PROVE  F!InFront(lookup, col, 1)
  <2>1. PICK i \in Found(lookup) : F!InFront(lookup, col, i) /\ Place(lookup, i) = 0
    BY <1>9, <1>12
  <2>2. 1 \in Found(lookup) /\ Place(lookup, 1) = 0
    BY <1>12, FirstPlace DEF Holds
  <2>3. i = 1
    BY <2>1, <2>2, PlacesInOrder
  <2> QED
    BY <2>1, <2>3
<1> QED
  BY <1>9, <1>10, <1>11, <1>12

(* The line on which the halves are exchanged next.                        *)
Exchange(line) == IF line \in 1..(VisibleLines - 1) THEN line ELSE 1

ScreenTyped ==
  /\ oam \in Pictures /\ scanline \in -1..LastLine /\ column \in 0..(LastColumn + 1)
  /\ tall \in BOOLEAN /\ render_bg \in BOOLEAN /\ render_fg \in BOOLEAN

(* The half that is stored is empty from the exchange to the lookup and    *)
(* holds the lookup from then on; the half that is read holds the lookup   *)
(* that is shown.                                                          *)
HalvesInv ==
  /\ ScreenTyped
  /\ selector \in BOOLEAN /\ states = [half \in BOOLEAN |-> states[half]]
  /\ scanline \in 1..(VisibleLines - 1) /\ column \in 1..LastColumn =>
       looked_up = {} /\ (emptied => states[~selector] = F!NoSprites)
  /\ \A lookup \in looked_up :
       /\ lookup \in AnyLookup /\ Holds(states[~selector], lookup)
       /\ lookup.line = F!ShownOn(Exchange(IF column = 0 THEN scanline ELSE scanline + 1))
  /\ \A lookup \in shown :
       /\ lookup \in AnyLookup /\ Holds(states[selector], lookup)
       /\ lookup.line = F!ShownOn(IF column = 0 THEN scanline - 1 ELSE scanline)

HitInv ==
  /\ sprite_0_hit \in BOOLEAN /\ touched \in BOOLEAN /\ mixed \in BOOLEAN
  /\ (touched => sprite_0_hit) /\ (sprite_0_hit => touched \/ mixed)

LEMMA Lines == VisibleLines \in Nat /\ LastLine \in Nat /\ VisibleLines > 2 /\ LastLine >= VisibleLines
BY DevicesAssumption DEF F!SpriteConstants

LEMMA PreRender == LastLine \in -1..LastLine /\ LastColumn + 1 \in 0..(LastColumn + 1)
BY Lines, SpriteRoom

LEMMA ScreenStep ==
  ASSUME ScreenTyped, NEW opaque_bg \in BOOLEAN, F!step(opaque_bg)
  PROVE  /\ ScreenTyped'
         /\ column <= LastColumn => column' = column + 1 /\ scanline' = scanline
         /\ column > LastColumn =>
              column' = 0 /\ scanline' = IF scanline = LastLine THEN -1 ELSE scanline + 1
         /\ UNCHANGED <<render_bg, render_fg, tall, oam>>
BY Lines, SpriteRoom DEF ScreenTyped, F!step, F!Advance

LEMMA HalvesStep ==
  ASSUME HalvesInv, NEW opaque_bg \in BOOLEAN, F!step(opaque_bg), F!Watch(opaque_bg)
  PROVE  HalvesInv'
<1> USE Lines, SpriteRoom
<1>1. /\ ScreenTyped /\ ScreenTyped' /\ selector \in BOOLEAN
      /\ column <= LastColumn => column' = column + 1 /\ scanline' = scanline
      /\ column > LastColumn =>
           column' = 0 /\ scanline' = IF scanline = LastLine THEN -1 ELSE scanline + 1
      /\ scanline \in Int /\ column \in Nat /\ column <= LastColumn + 1
  BY ScreenStep DEF HalvesInv, ScreenTyped
<1>2. CASE F!Begins /\ F!Rendering
  <2>1. /\ selector' = ~selector /\ states' = [states EXCEPT ![selector] = F!NoSprites]
        /\ looked_up' = {} /\ shown' = looked_up
    BY <1>2 DEF F!step, F!fg_eval_, F!Flip, F!Evaluates, F!Begins, F!Watch
  <2>2. /\ states' = [half \in BOOLEAN |-> states'[half]] /\ selector' \in BOOLEAN
        /\ states'[selector'] = states[~selector] /\ states'[~selector'] = F!NoSprites
    BY <1>1, <2>1 DEF HalvesInv
  <2>3. scanline' = scanline /\ column' # 0 /\ column = 0 /\ scanline \in 1..(VisibleLines - 1)
    BY <1>1, <1>2 DEF F!Begins
  <2>4. \A lookup \in shown' : lookup.line = F!ShownOn(scanline)
    BY <2>1, <2>3 DEF HalvesInv, Exchange
  <2> QED
    BY <1>1, <2>1, <2>2, <2>3, <2>4 DEF HalvesInv
<1>3. CASE F!Begins /\ ~F!Rendering
  <2>1. UNCHANGED <<states, selector>> /\ looked_up' = {} /\ shown' = {} /\ emptied' = FALSE
    BY <1>3 DEF F!step, F!fg_eval_, F!Evaluates, F!Begins, F!Watch
  <2> QED
    BY <1>1, <2>1 DEF HalvesInv
<1>4. CASE ~F!Begins
  <2>1. UNCHANGED <<emptied, shown>>
    BY <1>4 DEF F!Watch
  <2>2. selector' = selector
    BY <1>1, <1>4 DEF F!step, F!fg_eval_, F!Flip, F!Lookup, F!Evaluates, F!Begins
  <2>3. \A line \in Int : F!ShownOn(IF column' = 0 THEN scanline' - 1 ELSE scanline')
                          = F!ShownOn(IF column = 0 THEN scanline - 1 ELSE scanline)
    BY <1>1, <1>4 DEF F!Begins, F!ShownOn, ScreenTyped
  <2>4. CASE column = LastColumn /\ F!Evaluates
    <3>1. column # 0 /\ column \in 1..LastColumn /\ scanline \in 1..(VisibleLines - 1)
      BY <1>1, <1>4, <2>4 DEF F!Evaluates, F!Begins
    <3>2. /\ states' = [states EXCEPT ![~selector] = F!Evaluated(states[~selector])]
          /\ column' = LastColumn + 1 /\ scanline' = scanline
          /\ looked_up' = IF emptied THEN F!Lookups ELSE {}
      <4>1. F!Lookup
        BY <2>4, <3>1 DEF F!step, F!fg_eval_
      <4>2. states' = [states EXCEPT ![~selector] = F!Evaluated(states[~selector])]
        BY <4>1 DEF F!Lookup, F!Stored
      <4>3. looked_up = {}
        BY <3>1 DEF HalvesInv
      <4>4. looked_up' = IF emptied THEN F!Lookups ELSE looked_up
        BY <1>4, <2>4, <3>1 DEF F!Watch
      <4> QED
        BY <1>1, <2>4, <4>2, <4>3, <4>4
    <3>3. /\ states' = [half \in BOOLEAN |-> states'[half]]
          /\ states'[selector] = states[selector]
          /\ states'[~selector] = F!Evaluated(states[~selector])
      BY <1>1, <3>2 DEF HalvesInv
    <3>4. \A lookup \in shown' :
            /\ lookup \in AnyLookup /\ Holds(states'[selector'], lookup)
            /\ lookup.line = F!ShownOn(IF column' = 0 THEN scanline' - 1 ELSE scanline')
      BY <2>1, <2>2, <2>3, <3>3 DEF HalvesInv
    <3>5. ASSUME NEW lookup \in looked_up'
          PROVE  /\ lookup \in AnyLookup /\ Holds(states'[~selector'], lookup)
                 /\ lookup.line = F!ShownOn(Exchange(IF column' = 0 THEN scanline' ELSE scanline' + 1))
      <4>1. emptied /\ lookup \in F!Lookups
        BY <3>2, <3>5
      <4>2. states[~selector] = F!NoSprites
        BY <3>1, <4>1 DEF HalvesInv
      <4>3. lookup \in AnyLookup /\ Holds(F!Evaluated(F!NoSprites), lookup)
        BY <1>1, <4>1, EvaluatedHolds DEF ScreenTyped
      <4>4. lookup.line = scanline
        BY <4>1 DEF F!Lookups
      <4>5. scanline = F!ShownOn(Exchange(scanline + 1))
        BY <1>1, <3>1 DEF F!ShownOn, Exchange
      <4> QED
        BY <1>1, <2>2, <3>2, <3>3, <4>2, <4>3, <4>4, <4>5
    <3>6. ~(column' \in 1..LastColumn)
      BY <1>1, <3>2
    <3> QED
      BY <1>1, <2>2, <3>3, <3>4, <3>5, <3>6 DEF HalvesInv
  <2>5. CASE ~(column = LastColumn /\ F!Evaluates)
    <3>1. UNCHANGED <<states, looked_up>>
      BY <1>4, <2>5 DEF F!step, F!fg_eval_, F!Evaluates, F!Begins, F!Watch
    <3>2. \A lookup \in shown' :
            /\ lookup \in AnyLookup /\ Holds(states'[selector'], lookup)
            /\ lookup.line = F!ShownOn(IF column' = 0 THEN scanline' - 1 ELSE scanline')
      BY <2>1, <2>2, <2>3, <3>1 DEF HalvesInv
    <3>3. looked_up = {} \/ ~(scanline \in 1..(VisibleLines - 1) /\ column \in 1..LastColumn)
      BY DEF HalvesInv
    <3>4. ~(scanline \in 1..(VisibleLines - 1) /\ column \in 1..LastColumn) =>
            F!ShownOn(Exchange(IF column' = 0 THEN scanline' ELSE scanline' + 1))
            = F!ShownOn(Exchange(IF column = 0 THEN scanline ELSE scanline + 1))
      <4> SUFFICES ASSUME ~(scanline \in 1..(VisibleLines - 1) /\ column \in 1..LastColumn)
                   PROVE  Exchange(IF column' = 0 THEN scanline' ELSE scanline' + 1)
                          = Exchange(IF column = 0 THEN scanline ELSE scanline + 1)
        OBVIOUS
      <4>1. CASE column > LastColumn
        <5>1. column # 0 /\ column' = 0
          BY <1>1, <4>1
        <5> QED
          BY <1>1, <4>1, <5>1 DEF Exchange
      <4>2. CASE column <= LastColumn
        <5>1. column' # 0 /\ scanline' = scanline /\ scanline \notin 1..(VisibleLines - 1)
          BY <1>1, <1>4, <4>2 DEF F!Begins
        <5>2. CASE column = 0
          BY <1>1, <5>1, <5>2 DEF Exchange
        <5>3. CASE column # 0
          BY <5>1, <5>3
        <5> QED
          BY <5>2, <5>3
      <4> QED
        BY <1>1, <4>1, <4>2
    <3>5. \A lookup \in looked_up' :
            /\ lookup \in AnyLookup /\ Holds(states'[~selector'], lookup)
            /\ lookup.line = F!ShownOn(Exchange(IF column' = 0 THEN scanline' ELSE scanline' + 1))
      BY <2>2, <3>1, <3>3, <3>4 DEF HalvesInv
    <3>6. scanline' \in 1..(VisibleLines - 1) /\ column' \in 1..LastColumn =>
            scanline \in 1..(VisibleLines - 1) /\ column \in 1..LastColumn
      BY <1>1, <1>4 DEF F!Begins
    <3> QED
      BY <1>1, <2>1, <2>2, <3>1, <3>2, <3>5, <3>6 DEF HalvesInv
  <2> QED
    BY <2>4, <2>5
<1> QED
  BY <1>2, <1>3, <1>4

LEMMA HalvesPorts ==
  ASSUME HalvesInv, F!MCPorts
  PROVE  HalvesInv'
<1> USE Lines, SpriteRoom
<1>1. CASE F!reset
  <2>1. /\ scanline' = LastLine /\ column' = LastColumn + 1
        /\ render_bg' = FALSE /\ render_fg' = FALSE /\ tall' = FALSE /\ oam' = F!Hidden
        /\ UNCHANGED <<states, selector>> /\ looked_up' = {} /\ shown' = {} /\ emptied' = FALSE
    BY <1>1 DEF F!MCPorts, F!reset, F!flags
  <2>2. F!Hidden \in Pictures
    BY DevicesAssumption DEF F!SpriteConstants
  <2>3. ScreenTyped'
    BY <2>1, <2>2, PreRender, Zenon DEF ScreenTyped
  <2>4. ~(column' \in 1..LastColumn)
    BY <2>1
  <2> QED
    BY <2>1, <2>3, <2>4 DEF HalvesInv
<1>2. CASE ~F!reset
  <2>1. UNCHANGED <<scanline, column, states, selector, emptied, looked_up, shown>>
    BY <1>2 DEF F!MCPorts, F!Ports, F!write_ppumask, F!write_ppuctrl, F!write_oam,
                F!memory, F!history
  <2>2. ScreenTyped'
    BY <1>2, <2>1 DEF F!MCPorts, F!Ports, F!write_ppumask, F!write_ppuctrl, F!write_oam,
                      F!memory, HalvesInv, ScreenTyped
  <2> QED
    BY <2>1, <2>2 DEF HalvesInv
<1> QED
  BY <1>1, <1>2

(* What is drawn in a column, when one whole lookup is shown.              *)
LEMMA Drawn ==
  ASSUME HalvesInv, HalvesInv', NEW opaque_bg \in BOOLEAN, F!step(opaque_bg), F!Draws,
         NEW lookup \in shown'
  PROVE  /\ lookup \in AnyLookup /\ Holds(F!read, lookup) /\ column \in Nat
         /\ lookup.line = F!ShownOn(scanline)
<1>1. column \in Nat /\ column' # 0 /\ scanline' = scanline
  BY ScreenStep DEF HalvesInv, ScreenTyped, F!Draws
<1> QED
  BY <1>1 DEF HalvesInv, F!read

LEMMA HitStep ==
  ASSUME HalvesInv, HalvesInv', HitInv, F!MCNext
  PROVE  HitInv'
<1>1. CASE F!MCPorts
  BY <1>1 DEF HitInv, F!MCPorts, F!Ports, F!reset, F!write_ppumask, F!write_ppuctrl, F!write_oam,
              F!flags, F!history
<1>2. ASSUME NEW opaque_bg \in BOOLEAN, F!step(opaque_bg), F!Watch(opaque_bg)
      PROVE  HitInv'
  <2>1. /\ sprite_0_hit' = (~F!ClearsFlags /\ (sprite_0_hit \/ F!Hits(opaque_bg)))
        /\ touched' = (~F!ClearsFlags /\ (touched \/ F!Touches(opaque_bg)))
        /\ mixed' = (~F!ClearsFlags /\ (mixed \/ (F!Draws /\ shown' = {})))
    BY <1>2 DEF F!step, F!Flags, F!Watch
  <2>2. F!Touches(opaque_bg) => F!Hits(opaque_bg)
    <3> SUFFICES ASSUME F!Touches(opaque_bg) PROVE F!Hits(opaque_bg)
      OBVIOUS
    <3>1. PICK lookup \in shown' : F!InFront(lookup, column, 1)
      BY DEF F!Touches
    <3>2. lookup \in AnyLookup /\ Holds(F!read, lookup) /\ column \in Nat
      BY <1>2, Drawn DEF F!Touches
    <3>3. F!Frontmost(F!read.list, column) = 1 /\ F!read.has_sprite_0
      BY <3>1, <3>2, HoldsShows
    <3> QED
      BY <3>3 DEF F!Touches, F!Hits, F!Foreground
  <2>3. F!Hits(opaque_bg) => F!Touches(opaque_bg) \/ (F!Draws /\ shown' = {})
    <3> SUFFICES ASSUME F!Hits(opaque_bg), NEW lookup \in shown' PROVE F!Touches(opaque_bg)
      BY DEF F!Hits
    <3>1. lookup \in AnyLookup /\ Holds(F!read, lookup) /\ column \in Nat
      BY <1>2, Drawn DEF F!Hits
    <3>2. render_fg /\ F!Frontmost(F!read.list, column) = 1 /\ F!read.has_sprite_0
      BY DEF F!Hits, F!Foreground
    <3>3. F!InFront(lookup, column, 1)
      BY <3>1, <3>2, HoldsShows
    <3> QED
      BY <3>2, <3>3 DEF F!Touches, F!Hits
  <2> HIDE DEF HalvesInv
  <2> QED
    BY <2>1, <2>2, <2>3, Zenon DEF HitInv
<1> QED
  BY <1>1, <1>2 DEF F!MCNext, F!MCstep

SpriteInv == HalvesInv /\ HitInv

LEMMA SpritesStart ==
  ASSUME F!MCInit
  PROVE  SpriteInv
<1>1. HalvesInv
  <2>1. /\ scanline = LastLine /\ column = LastColumn + 1 /\ oam \in Pictures
        /\ render_bg = FALSE /\ render_fg = FALSE /\ tall = FALSE
        /\ states = [half \in BOOLEAN |-> F!NoSprites] /\ selector = FALSE
        /\ looked_up = {} /\ shown = {}
    BY DEF F!MCInit, F!Init
  <2>2. ScreenTyped
    BY <2>1, PreRender, Zenon DEF ScreenTyped
  <2>3. ~(column \in 1..LastColumn)
    BY <2>1, SpriteRoom
  <2>4. states = [half \in BOOLEAN |-> states[half]]
    BY <2>1
  <2> QED
    BY <2>1, <2>2, <2>3, <2>4 DEF HalvesInv
<1> QED
  BY <1>1 DEF F!MCInit, F!Init, HitInv, SpriteInv

LEMMA SpritesStep ==
  ASSUME SpriteInv, [F!MCNext]_(F!mc_vars)
  PROVE  SpriteInv'
<1>1. CASE F!MCNext
  <2>1. HalvesInv'
    BY <1>1, HalvesStep, HalvesPorts DEF SpriteInv, F!MCNext, F!MCstep
  <2> QED
    BY <1>1, <2>1, HitStep DEF SpriteInv
<1>2. CASE UNCHANGED F!mc_vars
  BY <1>2 DEF SpriteInv, HalvesInv, HitInv, ScreenTyped, F!mc_vars, F!vars, F!history, F!memory, F!flags
<1> QED
  BY <1>1, <1>2

(* The hit is the first sprite's, in this picture, as long as every line   *)
(* drawn is a whole lookup's (ppu.cpp 448-454 and 519), for any sprites in *)
(* any number on pictures of any size.                                     *)
THEOREM HitIsFirstSprite == DevicesSpec => []SpriteZeroHit
<1>1. DevicesInit => SpriteInv
  BY EachStarts, SpritesStart
<1>2. SpriteInv /\ [DevicesNext]_device_vars => SpriteInv'
  BY EachFollows, SpritesStep
<1>3. SpriteInv => SpriteZeroHit
  BY DEF SpriteInv, HitInv, SpriteZeroHit, F!SpriteZeroHit
<1> QED
  BY <1>1, <1>2, <1>3, PTL DEF DevicesSpec

(* A line shows the sprites found at the end of the line before it, the    *)
(* first ones there is room for and the first of them in front (ppu.cpp    *)
(* 339-446), for any sprites in any number on pictures of any size.        *)
THEOREM LinesShowLookups == DevicesSpec => SpritesOfLine
<1>1. DevicesInit => SpriteInv
  BY EachStarts, SpritesStart
<1>2. SpriteInv /\ [DevicesNext]_device_vars => SpriteInv'
  BY EachFollows, SpritesStep
<1>3. ASSUME SpriteInv, SpriteInv', [DevicesNext]_device_vars
      PROVE  [\A lookup \in shown' : F!MCstep /\ F!Draws =>
                /\ lookup.line = F!ShownOn(scanline)
                /\ IF F!Foreground = 0 THEN ~render_fg \/ F!ShownAt(lookup, column) = {}
                   ELSE \E i \in DOMAIN oam \union DOMAIN lookup.oam :
                          /\ F!InFront(lookup, column, i)
                          /\ F!read.list[F!Foreground] =
                               [tile |-> lookup.oam[i].tile, x |-> lookup.oam[i].x,
                                row |-> lookup.line - lookup.oam[i].y]]_(F!mc_vars)
  <2> SUFFICES ASSUME NEW lookup \in shown', F!MCstep, F!Draws
               PROVE  /\ lookup.line = F!ShownOn(scanline)
                      /\ IF F!Foreground = 0 THEN ~render_fg \/ F!ShownAt(lookup, column) = {}
                         ELSE \E i \in Found(lookup) :
                                /\ F!InFront(lookup, column, i)
                                /\ F!read.list[F!Foreground] = EntryOf(lookup, i)
    BY DEF Found, EntryOf
  <2>1. PICK opaque_bg \in BOOLEAN : F!step(opaque_bg)
    BY DEF F!MCstep
  <2>2. /\ lookup \in AnyLookup /\ Holds(F!read, lookup) /\ column \in Nat
        /\ lookup.line = F!ShownOn(scanline)
    BY <1>3, <2>1, Drawn DEF SpriteInv
  <2> QED
    BY <2>2, HoldsShows DEF F!Foreground
<1> QED
  BY <1>1, <1>2, <1>3, PTL DEF DevicesSpec, SpritesOfLine, F!SpritesOfLine
=============================================================================
