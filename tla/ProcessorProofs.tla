-------------------------- MODULE ProcessorProofs --------------------------
(***************************************************************************)
(* The processor for every size of word and page, every memory, every      *)
(* program and every order of signals and commands: the state keeps its    *)
(* type, a user program is confined, and a running timer is not lost.      *)
(***************************************************************************)
EXTENDS Processor, FiniteSetTheorems, TLAPS

-----------------------------------------------------------------------------
(* Words, flags and addresses.                                             *)

LEMMA WrapType == \A n \in Int : Wrap(n) \in Word
BY WordSizeAssumption DEF Wrap, Word

LEMMA WordInt == (\A w \in Word : w \in Nat) /\ (\A n \in 0 .. 31 : n \in Word) /\ 0 \in Word
BY WordSizeAssumption DEF Word

LEMMA CombineType == CombineFlags(fl) \in 0 .. 31
BY DEF CombineFlags, Bit

LEMMA DecombineType == \A w : DecombineFlags(w) \in Flags
BY DEF DecombineFlags, HasBit, Flags

LEMMA PageStartType == \A n \in Int : PageStart(n) \in Int /\ n % PageSize \in Int
BY PageAssumption DEF PageStart

LEMMA QuotientType == \A n \in Nat, d \in Nat \ {0} : n \div d \in 0 .. n
OBVIOUS

LEMMA NextPCType == ASSUME BankOK PROVE NextPC \in Word /\ reg[PC] \in Word
<1>1. reg[PC] \in Word
  BY DEF BankOK, Regs, RegNum, NREG, PC
<1>2. reg[PC] + 1 \in Int
  BY <1>1, WordInt
<1> QED
  BY <1>1, <1>2, WrapType DEF NextPC

LEMMA RegistersType ==
  ASSUME BankOK, NEW r \in RegNum PROVE Registers(r) \in Word /\ Operand(r) \in Word
<1>1. reg[r] \in Word
  BY DEF BankOK, Regs
<1>2. NextPC \in Word
  BY NextPCType
<1> QED
  BY <1>1, <1>2 DEF BankOK, Registers, Operand

LEMMA PhysicalReadType ==
  ASSUME MachineOK, NEW a PROVE PhysicalRead(a) \in Word
<1>1. a \in Ram => a \in Word
  BY PageAssumption
<1> QED
  BY <1>1, WordInt DEF PhysicalRead, MachineOK

LEMMA TranslateType ==
  ASSUME MachineOK, NEW a \in Word PROVE Translate(a) \in Word /\ MemRead(a) \in Word
<1>1. PageEntry(a) \in Word
  BY PhysicalReadType DEF PageEntry
<1>2. PageEntry(a) \in Int /\ a \in Int
  BY <1>1, WordInt
<1>3. PageStart(PageEntry(a)) + (a % PageSize) \in Int
  BY <1>2, PageStartType
<1>4. Translate(a) \in Word
  BY <1>3, WrapType, WordInt DEF Translate
<1> QED
  BY <1>4, PhysicalReadType, WordInt DEF MemRead

\* what a memory access can raise
Faults == {"NONE", "MEMORY", "PAGEFAULT", "PAGEPRIV"}
LEMMA FaultType == \A a : Fault(a) \in Faults /\ WriteFault(a) \in Faults
BY DEF Fault, WriteFault, Faults

LEMMA FaultCodes == Faults \subseteq Codes
BY DEF Faults, Codes, Intr

-----------------------------------------------------------------------------
(* Type correctness: the helpers that change the state.                    *)

LEMMA SetRegistersType ==
  ASSUME BankOK, NEW p \in Word, NEW f, \A x \in DOMAIN f : f[x] \in Word,
         SetRegisters(p, f)
  PROVE  BankOK'
BY DEF SetRegisters, BankOK, Regs, RegNum

LEMMA AdvanceType == ASSUME BankOK, Advance PROVE BankOK'
<1>1. NextPC \in Word
  BY NextPCType
<1> QED
  BY <1>1 DEF Advance, BankOK, Regs

LEMMA MemWriteType ==
  ASSUME MachineOK, NEW a \in Word, NEW v \in Word, MemWrite(a, v)
  PROVE  mem' \in [Word -> Word]
BY TranslateType DEF MemWrite, MachineOK

LEMMA FrameType == 
  ASSUME MachineOK, NEW p \in Word, NEW i \in 1 .. FrameSize PROVE Frame(p)[i] \in Word
<1>1. i # FrameSize => i - 1 \in RegNum
  BY DEF FrameSize, RegNum, NREG
<1>2. i # FrameSize => Registers(i - 1) \in Word
  BY <1>1, RegistersType DEF MachineOK
<1>3. CombineFlags(fl) \in Word
  BY CombineType, WordInt
<1> QED
  BY <1>2, <1>3 DEF Frame

LEMMA PushWordType == 
  ASSUME MachineOK, NEW m \in [Word -> Word], NEW i \in 1 .. FrameSize, NEW fr, fr[i] \in Word
  PROVE  PushWord(m, i, fr) \in [Word -> Word]
<1>1. FrameAddr(i) \in Word
  BY WrapType, WordInt DEF FrameAddr, MachineOK, BankOK, FrameSize, NREG
<1> QED
  BY <1>1, TranslateType DEF PushWord

LEMMA PushFrameType ==
  ASSUME MachineOK, NEW p \in Word, PushFrame(Frame(p))
  PROVE  mem' \in [Word -> Word]
<1> DEFINE fr == Frame(p)
           m1 == PushWord(mem, 1, fr)
           m2 == PushWord(m1, 2, fr)
           m3 == PushWord(m2, 3, fr)
           m4 == PushWord(m3, 4, fr)
           m5 == PushWord(m4, 5, fr)
<1>1. \A i \in 1 .. 5 : fr[i] \in Word /\ i \in 1 .. FrameSize
  BY FrameType DEF FrameSize, NREG
<1>2. \A m \in [Word -> Word], i \in 1 .. 5 : PushWord(m, i, fr) \in [Word -> Word]
  BY <1>1, PushWordType
<1>3. mem' = m5 /\ mem \in [Word -> Word]
  BY DEF PushFrame, MachineOK
<1> HIDE DEF fr
<1> QED
  BY <1>2, <1>3

LEMMA PrepareInterruptType ==
  ASSUME MachineOK, NEW ic \in Intr, NEW t \in Word, NEW was \in BOOLEAN,
         PrepareInterrupt(ic, t, was)
  PROVE  MachineOK' /\ interrupted' \in BOOLEAN
<1>1. reg[PC] \in Word
  BY DEF MachineOK, BankOK, Regs, RegNum, NREG, PC
<1>2. mem' \in [Word -> Word]
  BY <1>1, PushFrameType DEF PrepareInterrupt, MachineOK
<1>3. Vector[ic] \in Word /\ Vector["INTRFAULT"] \in Word /\ 0 \in Word
  BY VectorAssumption, WordInt DEF Intr
<1>4. Wrap(sr_syssp - FrameSize) \in Word
  BY WrapType, WordInt DEF MachineOK, BankOK, FrameSize, NREG
<1>5. BankOK'
  BY <1>3, <1>4 DEF PrepareInterrupt, MachineOK, BankOK, Regs
<1>6. SpecialOK' /\ interrupted' \in BOOLEAN /\ interrupt_code' \in Codes
  BY WordInt DEF PrepareInterrupt, MachineOK, SpecialOK, sregs, Codes
<1>7. fl' \in Flags
  BY DEF PrepareInterrupt, MachineOK, Flags
<1> QED
  BY <1>2, <1>5, <1>6, <1>7 DEF MachineOK

LEMMA FetchType ==
  ASSUME TypeOK, NEW was \in BOOLEAN, Fetch(was)
  PROVE  /\ MachineOK' /\ InstrOK'
         /\ interrupted' \in BOOLEAN /\ runwild' \in BOOLEAN /\ stepping' \in BOOLEAN
         /\ countdown' \in Nat
<1>1. runwild' \in BOOLEAN /\ stepping' \in BOOLEAN /\ countdown' \in Nat
  BY DEF Fetch, CountDown, TypeOK, LoopOK
<1>2. reg[PC] \in Word /\ sr_timer \in Word
  BY DEF TypeOK, MachineOK, BankOK, SpecialOK, Regs, RegNum, NREG, PC
<1>3. ASSUME NEW a, Fault(a) # "NONE" PROVE Fault(a) \in Intr
  BY <1>3, FaultType, FaultCodes DEF Faults, Intr
<1>4. CASE PrepareInterrupt("DEBUG", sr_timer, was) /\ UNCHANGED instr
  BY <1>1, <1>2, <1>4, PrepareInterruptType DEF TypeOK, InstrOK, instr, Intr
<1>5. CASE /\ Fault(reg[PC]) # "NONE"
           /\ PrepareInterrupt(Fault(reg[PC]), sr_timer, was) /\ UNCHANGED instr
  BY <1>1, <1>2, <1>3, <1>5, PrepareInterruptType DEF TypeOK, InstrOK, instr
<1>6. ASSUME NEW i \in Code[reg[PC]], NEW e, e = EffectiveAddress(i),
             current' = i, effective_address' = e,
             IF i.ind /\ Fault(e) # "NONE"
                   THEN PrepareInterrupt(Fault(e), sr_timer, was)
                   ELSE /\ interrupt_code' = "NONE"
                        /\ interrupted' = was
                        /\ UNCHANGED <<bank, fl, sregs, sr_timer, mem>>
      PROVE MachineOK' /\ InstrOK' /\ interrupted' \in BOOLEAN
  <2>1. i \in Instr /\ i.num \in Word /\ i.idx \in RegNum
    BY <1>2, CodeAssumption DEF Instr
  <2>2. e \in Word
      <3>1. Operand(i.idx) \in Int /\ i.num \in Int
      BY <2>1, RegistersType, WordInt DEF TypeOK, MachineOK
    <3>2. Wrap(i.num + Operand(i.idx)) \in Word
      BY <3>1, WrapType
    <3> QED
      BY <1>6, <2>1, <3>2 DEF EffectiveAddress
  <2>3. InstrOK'
    BY <1>6, <2>1, <2>2 DEF InstrOK
  <2>4. CASE PrepareInterrupt(Fault(e), sr_timer, was) /\ Fault(e) # "NONE"
    BY <1>2, <1>3, <2>3, <2>4, PrepareInterruptType DEF TypeOK
  <2>5. CASE interrupt_code' = "NONE" /\ interrupted' = was
             /\ UNCHANGED <<bank, fl, sregs, sr_timer, mem>>
    BY <2>3, <2>5 DEF TypeOK, MachineOK, BankOK, SpecialOK, bank, sregs, Codes
  <2> QED
    BY <1>6, <2>4, <2>5
<1> QED
  BY <1>1, <1>4, <1>5, <1>6 DEF Fetch

-----------------------------------------------------------------------------
(* Type correctness: the instructions.                                     *)

Ready == MachineOK /\ kbd_rdy \in BOOLEAN

LEMMA RefuseType ==
  ASSUME Ready, NEW code \in Codes, NEW t \in Word, Refuse(code, t) PROVE Ready'
<1>1. BankOK'
  BY AdvanceType DEF Refuse, Ready, MachineOK
<1> QED
  BY <1>1 DEF Refuse, Kept, sregs, Ready, MachineOK, SpecialOK

\* an instruction that changes nothing but the bank
LEMMA RegisterOnlyType ==
  ASSUME Ready, NEW p \in Word, NEW f, \A x \in DOMAIN f : f[x] \in Word,
         NEW c \in Codes, NEW t \in Word,
         SetRegisters(p, f), interrupt_code' = c, sr_timer' = t,
         UNCHANGED <<fl, mem>>, Kept
  PROVE  Ready'
<1>1. BankOK'
  BY SetRegistersType DEF Ready, MachineOK
<1> QED
  BY <1>1 DEF Kept, sregs, Ready, MachineOK, SpecialOK

LEMMA ResultType ==
  ASSUME Ready, NEW r \in RegNum, NEW v \in Word, NEW t \in Word, NEW c \in Codes,
         Result(r, v, t, c)
  PROVE  Ready'
<1>1. NextPC \in Word
  BY NextPCType DEF Ready, MachineOK
<1> DEFINE f == [x \in {r} |-> v]
<1>2. \A x \in DOMAIN f : f[x] \in Word
  OBVIOUS
<1>3. SetRegisters(NextPC, f)
  BY DEF Result, SetRegister
<1> HIDE DEF f
<1> QED
  BY <1>1, <1>2, <1>3, RegisterOnlyType DEF Result

LEMMA GotoType ==
  ASSUME Ready, NEW a \in Word, NEW f \in Flags, NEW t \in Word, NEW c \in Codes,
         Goto(a, f, t, c)
  PROVE  Ready'
<1>1. DOMAIN << >> = {}
  OBVIOUS
<1>2. BankOK'
  BY <1>1, SetRegistersType DEF Goto, Ready, MachineOK
<1> QED
  BY <1>2 DEF Goto, Kept, sregs, Ready, MachineOK, SpecialOK

LEMMA SetFlagsType ==
  ASSUME Ready, NEW f \in Flags, NEW t \in Word, NEW c \in Codes, SetFlags(f, t, c)
  PROVE  Ready'
BY GotoType, NextPCType DEF SetFlags, Ready, MachineOK

\* a store, with whatever it does to the bank
LEMMA StoredType ==
  ASSUME Ready, NEW a \in Word, NEW v \in Word, NEW t \in Word, NEW c \in Codes,
         Stored(a, v, t, c), BankOK'
  PROVE  Ready'
<1>1. mem' \in [Word -> Word]
  BY MemWriteType DEF Stored, Ready
<1> QED
  BY <1>1 DEF Stored, Kept, sregs, Ready, MachineOK, SpecialOK

LEMMA PushType ==
  ASSUME Ready, NEW pc \in Word, NEW v \in Word, NEW t \in Word, NEW c \in Codes,
         OpPush(pc, v, t, c)
  PROVE  Ready'
<1> DEFINE a == Wrap(Operand(SP) - 1)
           f == [x \in {SP} |-> a]
<1>1. Operand(SP) \in Int
  BY RegistersType, WordInt DEF Ready, MachineOK, SP, RegNum, NREG
<1>2. a \in Word
  BY <1>1, WrapType
<1>3. CASE Refuse(WriteFault(a), t)
  BY <1>3, RefuseType, FaultType, FaultCodes
<1>4. CASE Stored(a, v, t, c) /\ SetRegisters(pc, f)
  <2>1. \A x \in DOMAIN f : f[x] \in Word
    BY <1>2
  <2>2. SetRegisters(pc, f)
    BY <1>4
  <2> HIDE DEF a, f
  <2>3. BankOK'
    BY <2>1, <2>2, SetRegistersType DEF Ready, MachineOK
  <2> QED
    BY <1>2, <1>4, <2>3, StoredType
<1> QED
  BY <1>3, <1>4 DEF OpPush

LEMMA RetType == ASSUME Ready, NEW t \in Word, NEW c \in Codes, OpRet(t, c) PROVE Ready'
<1> DEFINE a == Operand(SP)
           f == [x \in {SP} |-> Wrap(a + 1)]
<1>1. a \in Word
  BY RegistersType DEF Ready, MachineOK, SP, RegNum, NREG
<1>2. Wrap(a + 1) \in Word /\ MemRead(a) \in Word
  BY <1>1, WrapType, WordInt, TranslateType DEF Ready
<1>3. CASE Refuse(Fault(a), t)
  BY <1>3, RefuseType, FaultType, FaultCodes
<1>4. CASE SetRegisters(MemRead(a), f) /\ interrupt_code' = c /\ sr_timer' = t
           /\ UNCHANGED <<fl, mem>> /\ Kept
  <2>1. \A x \in DOMAIN f : f[x] \in Word
    BY <1>2
  <2> HIDE DEF a, f
  <2> QED
    BY <1>2, <1>4, <2>1, RegisterOnlyType
<1> QED
  BY <1>3, <1>4 DEF OpRet

LEMMA PopType ==
  ASSUME Ready, NEW i \in Instr, effective_address \in Word,
         NEW t \in Word, NEW c \in Codes, OpPop(i, t, c)
  PROVE  Ready'
<1> DEFINE a == Operand(SP)
           v == MemRead(a)
           e == effective_address
           f == [x \in {SP, i.idx} |-> IF x = SP THEN Wrap((IF i.idx = SP THEN v ELSE a) + 1) ELSE v]
           g == [x \in {SP} |-> Wrap(a + 1)]
<1>1. a \in Word
  BY RegistersType DEF Ready, MachineOK, SP, RegNum, NREG
<1>2. v \in Word /\ NextPC \in Word
  BY <1>1, TranslateType, NextPCType DEF Ready, MachineOK
<1>3. Wrap(a + 1) \in Word /\ Wrap(v + 1) \in Word
  BY <1>1, <1>2, WrapType, WordInt
<1>4. \A x \in DOMAIN f : f[x] \in Word
  BY <1>2, <1>3
<1>5. \A x \in DOMAIN g : g[x] \in Word
  BY <1>3
<1>6. CASE Refuse(Fault(a), t) \/ Refuse("UNWROP", t) \/ Refuse(WriteFault(e), t)
  BY <1>6, RefuseType, FaultType, FaultCodes DEF Codes, Intr
<1>7. CASE SetRegisters(NextPC, f) /\ interrupt_code' = c /\ sr_timer' = t
           /\ UNCHANGED <<fl, mem>> /\ Kept
  <2> HIDE DEF a, v, f
  <2> QED
    BY <1>2, <1>4, <1>7, RegisterOnlyType
<1>8. CASE Stored(e, v, t, c) /\ SetRegisters(NextPC, g)
  <2> HIDE DEF a, v, g
  <2>1. BankOK'
    BY <1>2, <1>5, <1>8, SetRegistersType DEF Ready, MachineOK
  <2> QED
    BY <1>2, <1>8, <2>1, StoredType
<1> QED
  BY <1>6, <1>7, <1>8 DEF OpPop

LEMMA IretType == ASSUME Ready, NEW t \in Word, NEW c \in Codes, OpIret(t, c) PROVE Ready'
<1> DEFINE word(i) == MemRead(Wrap(sr_syssp + i))
           faults == {i \in 0 .. NREG : Fault(Wrap(sr_syssp + i)) # "NONE"}
           bad == IF 0 \in faults THEN 0 ELSE CHOOSE i \in faults : \A j \in faults : j <= i
           f == DecombineFlags(word(0))
           r == [n \in RegNum |-> word(NREG - n)]
<1>1. \A i \in Int : Wrap(sr_syssp + i) \in Word
  BY WrapType, WordInt DEF Ready, MachineOK, BankOK
<1>2. \A i \in Int : word(i) \in Word
  BY <1>1, TranslateType DEF Ready
<1>3. r \in Regs
  BY <1>2 DEF Regs, RegNum, NREG
<1>4. r[FP] \in Word
  BY <1>2 DEF FP, RegNum, NREG
<1>5. CASE Refuse("PRIVOP", t) \/ Refuse(Fault(Wrap(sr_syssp + bad)), t)
  <2> HIDE DEF bad
  <2> QED
    BY <1>5, RefuseType, FaultType, FaultCodes DEF Codes, Intr
<1>6. CASE /\ reg' = [n \in RegNum |-> IF f.SYS /\ n \in {SP, FP} THEN reg[n] ELSE r[n]]
           /\ sr_sysfp' = IF f.SYS THEN r[FP] ELSE sr_sysfp
           /\ sr_syssp' = Wrap(sr_syssp + FrameSize)
           /\ fl' = f
           /\ interrupt_code' = c /\ sr_timer' = t
           /\ UNCHANGED mem /\ Kept
  <2>1. fl' \in Flags
    BY <1>6, DecombineType
  <2> HIDE DEF r, f
  <2>2. BankOK'
    BY <1>1, <1>3, <1>4, <1>6 DEF Ready, MachineOK, BankOK, Regs, FrameSize, NREG
  <2> QED
    BY <1>6, <2>1, <2>2 DEF Kept, sregs, Ready, MachineOK, SpecialOK
<1> QED
  BY <1>5, <1>6 DEF OpIret

LEMMA SyscallType ==
  ASSUME Ready, NEW v, NEW t \in Word, NEW c \in Codes, OpSyscall(v, t, c) PROVE Ready'
<1>1. CASE Refuse("BADCALL", t) \/ Refuse(Fault(sr_cgbr), t)
  BY <1>1, RefuseType, FaultType, FaultCodes DEF Codes, Intr
<1>2. CASE /\ PushFrame(Frame(NextPC))
           /\ IF FramePushed
              THEN /\ reg' = [reg EXCEPT ![PC] = CallGate]
                   /\ sr_syssp' = Wrap(sr_syssp - FrameSize)
                   /\ fl' = [fl EXCEPT !.SYS = TRUE]
                   /\ interrupt_code' = c
                   /\ UNCHANGED sr_sysfp
              ELSE Advance /\ interrupt_code' = FrameFault /\ UNCHANGED fl
           /\ sr_timer' = t /\ Kept
  <2>1. mem' \in [Word -> Word]
    BY <1>2, NextPCType, PushFrameType DEF Ready, MachineOK
  <2>2. Wrap(sr_syssp - FrameSize) \in Word /\ CallGate \in Word
    BY WrapType, WordInt, VectorAssumption DEF Ready, MachineOK, BankOK, FrameSize, NREG
  <2>3. CASE FramePushed
    <3>1. BankOK'
      BY <1>2, <2>2, <2>3 DEF Ready, MachineOK, BankOK, Regs
    <3>2. fl' \in Flags
      BY <1>2, <2>3 DEF Ready, MachineOK, Flags
    <3> QED
      BY <1>2, <2>1, <2>3, <3>1, <3>2 DEF Kept, sregs, Ready, MachineOK, SpecialOK
  <2>4. CASE ~FramePushed
    <3>1. BankOK'
      BY <1>2, <2>4, AdvanceType DEF Ready, MachineOK
    <3>2. FrameFault \in Codes
      BY FaultType, FaultCodes DEF FrameFault, PushFault
    <3> QED
      BY <1>2, <2>1, <2>4, <3>1, <3>2 DEF Kept, sregs, Ready, MachineOK, SpecialOK
  <2> QED
    BY <2>3, <2>4
<1> QED
  BY <1>1, <1>2 DEF OpSyscall

LEMMA WriteOperandType ==
  ASSUME Ready, NEW i \in Instr, effective_address \in Word,
         NEW v \in Word, NEW t \in Word, NEW c \in Codes, WriteOperand(i, v, t, c)
  PROVE  Ready'
<1> DEFINE e == effective_address
<1>1. CASE Refuse(WriteFault(e), t) \/ Refuse("UNWROP", t)
  BY <1>1, RefuseType, FaultType, FaultCodes DEF Codes, Intr
<1>2. CASE Stored(e, v, t, c) /\ Advance
  BY <1>2, AdvanceType, StoredType DEF Ready, MachineOK
<1>3. CASE Result(i.idx, v, t, c)
  BY <1>3, ResultType DEF Instr
<1> QED
  BY <1>1, <1>2, <1>3 DEF WriteOperand

LEMMA AtasType ==
  ASSUME Ready, NEW i \in Instr, effective_address \in Word,
         NEW v \in Word, NEW t \in Word, NEW c \in Codes, OpAtas(i, v, t, c)
  PROVE  Ready'
<1> DEFINE e == effective_address
           f == [x \in {i.idx, i.reg} |-> IF x = i.reg THEN v ELSE 1]
           g == [x \in {i.reg} |-> v]
<1>1. NextPC \in Word /\ 1 \in Word
  BY NextPCType, WordInt DEF Ready, MachineOK
<1>2. (\A x \in DOMAIN f : f[x] \in Word) /\ (\A x \in DOMAIN g : g[x] \in Word)
  BY <1>1
<1>3. CASE Refuse(WriteFault(e), t) \/ Refuse("UNWROP", t)
  BY <1>3, RefuseType, FaultType, FaultCodes DEF Codes, Intr
<1>4. CASE Stored(e, 1, t, c) /\ SetRegisters(NextPC, g)
  <2> HIDE DEF g
  <2>1. BankOK'
    BY <1>1, <1>2, <1>4, SetRegistersType DEF Ready, MachineOK
  <2> QED
    BY <1>1, <1>4, <2>1, StoredType
<1>5. CASE SetRegisters(NextPC, f) /\ interrupt_code' = c /\ sr_timer' = t
           /\ UNCHANGED <<fl, mem>> /\ Kept
  <2> HIDE DEF f
  <2> QED
    BY <1>1, <1>2, <1>5, RegisterOnlyType
<1> QED
  BY <1>3, <1>4, <1>5 DEF OpAtas, SetRegister

LEMMA PhstoreType ==
  ASSUME Ready, NEW i \in Instr, effective_address \in Word,
         NEW t \in Word, NEW c \in Codes, OpPhstore(i, t, c)
  PROVE  Ready'
<1>1. CASE Refuse("PRIVOP", t) \/ Refuse("MEMORY", t)
  BY <1>1, RefuseType DEF Codes, Intr
<1>2. CASE /\ mem' = [mem EXCEPT ![effective_address] = Operand(i.reg)]
           /\ Advance
           /\ interrupt_code' = c /\ sr_timer' = t
           /\ UNCHANGED fl /\ Kept
  <2>1. Operand(i.reg) \in Word
    BY RegistersType DEF Ready, MachineOK, Instr
  <2>2. mem' \in [Word -> Word] /\ BankOK'
    BY <1>2, <2>1, AdvanceType DEF Ready, MachineOK
  <2> QED
    BY <1>2, <2>2 DEF Kept, sregs, Ready, MachineOK, SpecialOK
<1> QED
  BY <1>1, <1>2 DEF OpPhstore

LEMMA DoioType ==
  ASSUME Ready, NEW i \in Instr, NEW v, NEW t \in Word, NEW c \in Codes, OpDoio(i, v, t, c)
  PROVE  Ready'
<1>1. CASE Refuse("PRIVOP", t) \/ Refuse(Fault(v), t)
  BY <1>1, RefuseType, FaultType, FaultCodes DEF Codes, Intr
<1>2. ASSUME NEW w \in {0, 1}, SetRegister(i.reg, w), kbd_rdy' \in {kbd_rdy, FALSE},
             interrupt_code' = c, sr_timer' = t, UNCHANGED <<fl, sregs, mem>>
      PROVE  Ready'
  <2> DEFINE f == [x \in {i.reg} |-> w]
  <2>1. \A x \in DOMAIN f : f[x] \in Word
    BY WordInt
  <2>2. SetRegisters(NextPC, f)
    BY <1>2 DEF SetRegister
  <2> HIDE DEF f
  <2>3. BankOK'
    BY <2>1, <2>2, NextPCType, SetRegistersType DEF Ready, MachineOK
  <2> QED
    BY <1>2, <2>3 DEF sregs, Ready, MachineOK, SpecialOK
<1> QED
  BY <1>1, <1>2 DEF OpDoio

LEMMA SetSrType ==
  ASSUME Ready, NEW i \in Instr, NEW s, NEW t \in Word, NEW c \in Codes, OpSetSr(i, s, t, c)
  PROVE  Ready'
<1>1. CASE Refuse("PRIVOP", t)
  BY <1>1, RefuseType DEF Codes, Intr
<1>2. CASE ~Refuse("PRIVOP", t)
  <2>1. Operand(i.reg) \in Word /\ NextPC \in Word
    BY RegistersType, NextPCType DEF Ready, MachineOK, Instr
  <2>2. BankOK'
    BY <1>2, <2>1 DEF OpSetSr, Ready, MachineOK, BankOK, Regs
  <2>3. SpecialOK'
    BY <1>2, <2>1 DEF OpSetSr, Ready, MachineOK, SpecialOK
  <2>4. fl' \in Flags
    BY <1>2, DecombineType DEF OpSetSr, Ready, MachineOK
  <2> QED
    BY <1>2, <2>2, <2>3, <2>4 DEF OpSetSr, Ready, MachineOK
<1> QED
  BY <1>1, <1>2

LEMMA FlagSetType ==
  ASSUME NEW f \in Flags, NEW n \in 0 .. NumFlags - 1, NEW b \in BOOLEAN
  PROVE  [f EXCEPT ![FlagName[n + 1]] = b] \in Flags
BY DEF Flags, FlagName, NumFlags

LEMMA GetFlType ==
  ASSUME Ready, NEW i \in Instr, NEW v \in Word, NEW t \in Word, NEW c \in Codes,
         OpGetFl(i, v, t, c)
  PROVE  Ready'
<1> DEFINE f == [x \in {i.reg} |-> Bit(Flag(v), 1)]
<1>1. Bit(Flag(v), 1) \in Word
  BY WordInt DEF Bit
<1>2. Flag(v) \in BOOLEAN
  <2>1. CASE v < NumFlags
    <3>1. v \in 0 .. 4
      BY <2>1, WordInt DEF NumFlags
    <3> QED
      BY <2>1, <3>1 DEF Flag, FlagName, Ready, MachineOK, Flags
  <2> QED
    BY <2>1 DEF Flag
<1>3. fl' \in Flags
  BY <1>2 DEF OpGetFl, Ready, MachineOK, Flags
<1>4. \A x \in DOMAIN f : f[x] \in Word
  BY <1>1
<1>5. SetRegisters(NextPC, f)
  BY DEF OpGetFl, SetRegister
<1> HIDE DEF f
<1>6. BankOK'
  BY <1>4, <1>5, NextPCType, SetRegistersType DEF Ready, MachineOK
<1> QED
  BY <1>3, <1>6 DEF OpGetFl, Kept, sregs, Ready, MachineOK, SpecialOK

LEMMA SetFlType ==
  ASSUME Ready, NEW i \in Instr, NEW v \in Word, NEW t \in Word, NEW c \in Codes,
         OpSetFl(i, v, t, c)
  PROVE  Ready'
<1>1. CASE Refuse("PRIVOP", t)
  BY <1>1, RefuseType DEF Codes, Intr
<1> DEFINE f == IF v < NumFlags THEN [fl EXCEPT ![FlagName[v + 1]] = Operand(i.reg) # 0] ELSE fl
<1>2. CASE SetFlags(f, t, c)
  <2>1. CASE v < NumFlags
    <3>1. v \in 0 .. NumFlags - 1 /\ (Operand(i.reg) # 0) \in BOOLEAN
      BY <2>1, WordInt DEF NumFlags
    <3>2. f \in Flags
      BY <2>1, <3>1, FlagSetType DEF Ready, MachineOK
    <3> QED
      BY <1>2, <3>2, SetFlagsType
  <2>2. CASE ~(v < NumFlags)
    BY <1>2, <2>2, SetFlagsType DEF Ready, MachineOK
  <2> QED
    BY <2>1, <2>2
<1> QED
  BY <1>1, <1>2 DEF OpSetFl

LEMMA SpecialRegisterType ==
  ASSUME Ready, NEW s, NEW t \in Word PROVE SpecialRegister(s, t) \in Word
<1>1. CombineFlags(fl) \in Word
  BY CombineType, WordInt
<1> QED
  BY <1>1, WordInt DEF SpecialRegister, Ready, MachineOK, SpecialOK, BankOK

LEMMA WaitedType == ASSUME NEW t \in Word PROVE Waited(t) \in Word
BY TickAssumption, WordSizeAssumption DEF Waited, Word

LEMMA MoveType ==
  ASSUME Ready, NEW i \in Instr, NEW v \in Word, NEW t \in Word, NEW c \in Codes,
         OpMove(i, v, t, c)
  PROVE  Ready'
<1> DEFINE n == IF Negative(Operand(R0)) THEN 0 ELSE Operand(R0)
           src(k) == Wrap(Operand(i.reg) + k)
           dst(k) == Wrap(v + k)
           good(k) == Fault(src(k)) = "NONE" /\ WriteFault(dst(k)) = "NONE"
           stop == IF t >= 2 /\ MoveTicks * (t - 1) < n THEN MoveTicks * (t - 1) ELSE n
           copied == {k \in 0 .. stop - 1 : \A j \in 0 .. k : good(j)}
           done == Cardinality(copied)
           code == IF done = stop THEN c
                   ELSE IF Fault(src(done)) # "NONE" THEN Fault(src(done)) ELSE WriteFault(dst(done))
           gap == Wrap(v - Operand(i.reg))
           root(k) == IF gap # 0 /\ gap <= k THEN k % gap ELSE k
           written(a) == {k \in 0 .. done - 1 : Translate(dst(k)) = a}
           spent == IF done < stop THEN done \div MoveTicks
                    ELSE IF done > 0 THEN (done - 1) \div MoveTicks ELSE 0
           back == IF done < n THEN reg[PC] ELSE NextPC
           f == [x \in {R0, i.reg, i.idx} \ {PC} |->
                   IF x = i.idx THEN dst(done) ELSE IF x = i.reg THEN src(done)
                   ELSE Wrap(Operand(R0) - done)]
<1>1. Operand(R0) \in Word /\ Operand(i.reg) \in Word
  BY RegistersType DEF Ready, MachineOK, Instr, R0, RegNum, NREG
<1>2. n \in Nat /\ v \in Nat /\ t \in Nat /\ Operand(i.reg) \in Nat /\ Operand(R0) \in Nat
  BY <1>1, WordInt
<1>3. stop \in Int
  <2>1. MoveTicks * (t - 1) \in Int
    BY <1>2, TickAssumption
  <2> QED
    BY <1>2, <2>1
<1>4. done \in Nat
  <2>1. IsFiniteSet(0 .. stop - 1)
    BY <1>3, FS_Interval
  <2>2. copied \subseteq 0 .. stop - 1
    OBVIOUS
  <2> HIDE DEF copied
  <2>3. IsFiniteSet(copied)
    BY <2>1, <2>2, FS_Subset
  <2> QED
    BY <2>3, FS_CardinalityType
<1>5. \A k \in Int : src(k) \in Word /\ dst(k) \in Word
  BY <1>2, WrapType
<1>6. \A k \in Nat : root(k) \in Nat
  <2>1. gap \in Nat
    <3>1. v - Operand(i.reg) \in Int
      BY <1>2
    <3> QED
      BY <3>1, WrapType, WordInt
  <2> HIDE DEF gap
  <2>2. \A k \in Nat : gap # 0 => k % gap \in Nat
    BY <2>1
  <2> QED
    BY <2>1, <2>2
<1>7. CASE Refuse("UNIMPOP", t)
  BY <1>7, RefuseType DEF Codes, Intr
<1>8. CASE /\ SetRegisters(back, f)
           /\ mem' = [a \in Word |-> IF written(a) = {} THEN mem[a]
                                     ELSE MemRead(src(root(CHOOSE k \in written(a) : TRUE)))]
           /\ sr_timer' = IF t <= 2 THEN t ELSE IF t - spent < 2 THEN 2 ELSE t - spent
           /\ interrupt_code' = code
           /\ UNCHANGED fl /\ Kept
  <2>1. back \in Word
    BY NextPCType DEF Ready, MachineOK
  <2>2. \A x \in DOMAIN f : f[x] \in Word
    <3>1. Wrap(Operand(R0) - done) \in Word
      BY <1>2, <1>4, WrapType
    <3>2. src(done) \in Word /\ dst(done) \in Word
      BY <1>4, <1>5
    <3> HIDE DEF src, dst, done
    <3> QED
      BY <3>1, <3>2
  <2>3. SetRegisters(back, f)
    BY <1>8
  <2>4. BankOK'
    <3> HIDE DEF back, f
    <3> QED
      BY <2>1, <2>2, <2>3, SetRegistersType DEF Ready, MachineOK
  <2>5. mem' \in [Word -> Word]
    <3> SUFFICES ASSUME NEW a \in Word PROVE mem'[a] \in Word
      BY <1>8
    <3>1. CASE written(a) = {}
      BY <1>8, <3>1 DEF Ready, MachineOK
    <3>2. CASE written(a) # {}
      <4> DEFINE k == CHOOSE k \in written(a) : TRUE
      <4>1. k \in written(a)
        BY <3>2
      <4> HIDE DEF k, done
      <4>2. k \in Nat
        BY <1>4, <4>1
      <4> HIDE DEF root, src
      <4>3. MemRead(src(root(k))) \in Word
        BY <1>5, <1>6, <4>2, TranslateType DEF Ready
      <4>4. mem'[a] = MemRead(src(root(k)))
        BY <1>8, <3>2 DEF k
      <4> QED
        BY <4>3, <4>4
    <3> QED
      BY <3>1, <3>2
  <2>6. sr_timer' \in Word
    <3>1. spent \in Nat
      <4> HIDE DEF done
      <4> QED
        BY <1>4, QuotientType, TickAssumption
    <3>2. sr_timer' \in 0 .. (IF t <= 2 THEN 2 ELSE t)
      <4> HIDE DEF spent
      <4> QED
        BY <1>2, <1>8, <3>1
    <3> QED
      BY <3>2, WordSizeAssumption DEF Word
  <2>7. interrupt_code' \in Codes
    <3> HIDE DEF src, dst, done, stop
    <3> QED
      BY <1>8, FaultType, FaultCodes
  <2> QED
    BY <1>8, <2>4, <2>5, <2>6, <2>7 DEF Kept, sregs, Ready, MachineOK, SpecialOK
<1> QED
  BY <1>7, <1>8 DEF OpMove

\* execute()'s switch
LEMMA PerformType ==
  ASSUME Ready, NEW i \in Instr, effective_address \in Word,
         NEW v \in Word, NEW t \in Word, NEW c \in Codes, Perform(i, v, t, c)
  PROVE  Ready'
<1> DEFINE o == Operand(i.reg)
<1>1. o \in Word /\ NextPC \in Word /\ reg[PC] \in Word /\ fl \in Flags
  BY RegistersType, NextPCType DEF Ready, MachineOK, Instr
<1>2. i.reg \in RegNum /\ i.idx \in RegNum /\ i.op \in Ops
  BY DEF Instr
<1>3. CASE i.op = "HALT"
  <2>1. OpHalt(t, c)
    BY <1>3 DEF Perform
  <2>2. [fl EXCEPT !.R = FALSE] \in Flags
    BY <1>1 DEF Flags
  <2> QED
    BY <2>1, <2>2, RefuseType, SetFlagsType DEF OpHalt, Codes, Intr
<1>4. CASE i.op = "LOAD"
  BY <1>2, <1>4, ResultType DEF Perform
<1>5. CASE i.op = "ADD"
  <2>1. Wrap(o + v) \in Word
    BY <1>1, WrapType, WordInt
  <2> QED
    BY <1>2, <1>5, <2>1, ResultType DEF Perform
<1>6. CASE i.op = "DIV"
  <2>1. v # 0 => o \div v \in Int
    BY <1>1, QuotientType, WordInt
  <2>2. v # 0 => Wrap(o \div v) \in Word
    BY <2>1, WrapType
  <2>3. OpDiv(i, v, t, c)
    BY <1>6 DEF Perform
  <2> QED
    BY <1>2, <2>2, <2>3, ResultType, RefuseType DEF OpDiv, Codes, Intr
<1>7. CASE i.op = "COMP"
  <2>1. [fl EXCEPT !.Z = (o = v)] \in Flags
    BY <1>1 DEF Flags
  <2> QED
    BY <1>7, <2>1, SetFlagsType DEF Perform
<1>8. CASE i.op = "STORE"
  BY <1>1, <1>8, WriteOperandType DEF Perform
<1>9. CASE i.op = "JUMP"
  BY <1>1, <1>9, GotoType DEF Perform
<1>10. CASE i.op = "JCOND"
  <2>1. OpJcond(i, v, t, c)
    BY <1>10 DEF Perform
  <2> QED
    BY <1>1, <2>1, GotoType, RefuseType DEF OpJcond, Codes, Intr
<1>11. CASE i.op = "GETFL"
  BY <1>11, GetFlType DEF Perform
<1>12. CASE i.op = "SETFL"
  BY <1>12, SetFlType DEF Perform
<1>13. CASE i.op = "GETSR"
  BY <1>2, <1>13, SpecialRegisterType, ResultType DEF Perform
<1>14. CASE i.op = "SETSR"
  BY <1>14, SetSrType DEF Perform
<1>15. CASE i.op = "PUSH" \/ i.op = "CALL"
  BY <1>1, <1>15, PushType DEF Perform
<1>16. CASE i.op = "POP"
  BY <1>16, PopType DEF Perform
<1>17. CASE i.op = "RET"
  BY <1>17, RetType DEF Perform
<1>18. CASE i.op = "DOIO"
  BY <1>18, DoioType DEF Perform
<1>19. CASE i.op = "FAKEIT"
  BY <1>1, <1>19, SetFlagsType DEF Perform
<1>20. CASE i.op = "FLAGSJ"
  <2>1. Goto(v, DecombineFlags(o), t, c) \/ Refuse("PRIVOP", t)
    BY <1>20 DEF Perform
  <2>2. DecombineFlags(o) \in Flags
    BY DecombineType
  <2> QED
    BY <2>1, <2>2, GotoType, RefuseType DEF Codes, Intr
<1>21. CASE i.op = "WAIT" \/ i.op = "PAUSE"
  <2>1. Goto(reg[PC], fl, Waited(t), c) \/ SetFlags(fl, Waited(t), c)
    BY <1>21 DEF Perform
  <2> QED
    BY <1>1, <2>1, GotoType, SetFlagsType, WaitedType
<1>22. CASE i.op = "BREAK"
  <2>1. Goto(IF ~stepping \/ countdown > 0 THEN reg[PC] ELSE NextPC, fl, t, c)
    BY <1>22 DEF Perform
  <2>2. (IF ~stepping \/ countdown > 0 THEN reg[PC] ELSE NextPC) \in Word
    BY <1>1
  <2> QED
    BY <1>1, <2>1, <2>2, GotoType
<1>23. CASE i.op = "IRET"
  BY <1>23, IretType DEF Perform
<1>24. CASE i.op = "SYSCALL"
  BY <1>24, SyscallType DEF Perform
<1>25. CASE i.op = "ATAS"
  BY <1>25, AtasType DEF Perform
<1>26. CASE i.op = "PHLOAD"
  <2>1. OpPhload(i, t, c)
    BY <1>26 DEF Perform
  <2>2. PhysicalRead(effective_address) \in Word
    BY PhysicalReadType DEF Ready
  <2> QED
    BY <1>2, <2>1, <2>2, ResultType, RefuseType DEF OpPhload, Codes, Intr
<1>27. CASE i.op = "PHSTORE"
  BY <1>27, PhstoreType DEF Perform
<1>28. CASE i.op = "VTRAN"
  <2>1. OpVtran(i, v, t, c)
    BY <1>28 DEF Perform
  <2>2. Translate(v) \in Word /\ Fault(v) \in Codes
    BY TranslateType, FaultType, FaultCodes DEF Ready
  <2> QED
    BY <1>2, <2>1, <2>2, ResultType DEF OpVtran
<1>29. CASE i.op = "MOVE"
  BY <1>29, MoveType DEF Perform
<1>30. CASE i.op = "UNIMP"
  BY <1>30, RefuseType DEF Perform, Codes, Intr
<1> QED
  BY <1>2, <1>3, <1>4, <1>5, <1>6, <1>7, <1>8, <1>9, <1>10, <1>11, <1>12, <1>13, <1>14,
     <1>15, <1>16, <1>17, <1>18, <1>19, <1>20, <1>21, <1>22, <1>23, <1>24, <1>25, <1>26,
     <1>27, <1>28, <1>29, <1>30 DEF Ops

ModeOK == runwild \in BOOLEAN /\ stepping \in BOOLEAN /\ countdown \in Nat

LEMMA ExecuteType ==
  ASSUME TypeOK, NEW c0 \in Codes, Execute(c0)
  PROVE  Ready' /\ interrupted' \in BOOLEAN /\ ModeOK'
<1> DEFINE t == Ticked
           c1 == Expired(c0, t)
           e == effective_address
           c2 == IF current.ind /\ Fault(e) # "NONE" THEN Fault(e) ELSE c1
           v == IF ~current.ind THEN e ELSE IF c2 # "NONE" THEN 0 ELSE MemRead(e)
<1>1. t \in Word
  BY WordSizeAssumption DEF Ticked, TypeOK, MachineOK, SpecialOK, Word
<1>2. c1 \in Codes
  BY DEF Expired, Codes, Intr
<1>3. c2 \in Codes
  <2> HIDE DEF c1
  <2> QED
    BY <1>2, FaultType, FaultCodes
<1>4. v \in Word /\ e \in Word /\ current \in Instr
  <2> HIDE DEF c2
  <2> QED
    BY TranslateType, WordInt DEF TypeOK, InstrOK
<1>5. \A c \in Codes : c # "NONE" => c \in Intr
  BY DEF Codes
<1>6. Ready /\ ModeOK
  BY DEF TypeOK, LoopOK, ModeOK, Ready
<1>7. ModeOK'
  <2>1. UNCHANGED mode \/ Stop \/ BreakMode
    BY DEF Execute
  <2>2. CASE UNCHANGED mode
    BY <1>6, <2>2 DEF mode, ModeOK
  <2>3. CASE Stop
    BY <1>6, <2>3 DEF Stop, ModeOK
  <2>4. CASE BreakMode
    BY <2>4 DEF BreakMode, ModeOK
  <2> QED
    BY <2>1, <2>2, <2>3, <2>4
<1>8. Ready' /\ interrupted' \in BOOLEAN
  <2>1. CASE c1 # "NONE" /\ PrepareInterrupt(c1, t, FALSE) /\ UNCHANGED kbd_rdy
    <3> HIDE DEF c1, t
    <3> QED
      BY <1>1, <1>2, <1>5, <1>6, <2>1, PrepareInterruptType DEF Ready
  <2>2. CASE c2 # "NONE" /\ PrepareInterrupt(c2, t, FALSE) /\ UNCHANGED kbd_rdy
    <3> HIDE DEF c2, t
    <3> QED
      BY <1>1, <1>3, <1>5, <1>6, <2>2, PrepareInterruptType DEF Ready
  <2>3. CASE interrupted' = FALSE /\ Perform(current, v, t, c2)
    <3> HIDE DEF c2, t, v
    <3> QED
      BY <1>1, <1>3, <1>4, <1>6, <2>3, PerformType
  <2> QED
    BY <2>1, <2>2, <2>3 DEF Execute, mode
<1> QED
  BY <1>7, <1>8

-----------------------------------------------------------------------------
(* Type correctness: main().                                               *)

LEMMA FetchStepType == ASSUME TypeOK, RunFetch \/ StepFetch \/ StepRefetch PROVE TypeOK'
<1> USE DEF At, To, sigs, Phases
<1>1. CASE RunFetch
  BY <1>1, FetchType DEF RunFetch, TypeOK, LoopOK
<1>2. CASE StepFetch
  BY <1>2, FetchType DEF StepFetch, TypeOK, LoopOK
<1>3. CASE StepRefetch /\ interrupted
  BY <1>3, FetchType DEF StepRefetch, TypeOK, LoopOK
<1>4. CASE StepRefetch /\ ~interrupted
  BY <1>4 DEF StepRefetch, processor, mode, bank, sregs, instr,
              TypeOK, MachineOK, BankOK, SpecialOK, InstrOK, LoopOK
<1> QED
  BY <1>1, <1>2, <1>3, <1>4

LEMMA RunExecuteType == ASSUME TypeOK, RunExecute PROVE TypeOK'
<1> USE DEF At, To, Phases
<1>1. CASE control_c
  BY <1>1 DEF RunExecute, processor, bank, sregs, instr,
              TypeOK, MachineOK, BankOK, SpecialOK, InstrOK, LoopOK
<1>2. CASE ~control_c
  <2>1. Raised \in Codes
    BY DEF Raised, TypeOK, MachineOK, Codes, Intr
  <2>2. Execute(Raised) /\ phase = "exec" /\ phase' = "post"
        /\ UNCHANGED instr /\ UNCHANGED <<control_c, controlccount>>
    BY <1>2 DEF RunExecute
  <2> QED
    BY <2>1, <2>2, ExecuteType DEF TypeOK, Ready, ModeOK, LoopOK, InstrOK, instr
<1> QED
  BY <1>1, <1>2

LEMMA StepExecuteType == ASSUME TypeOK, phase # "off", StepExecute PROVE TypeOK'
<1>1. interrupt_code \in Codes
  BY DEF TypeOK, MachineOK
<1> QED
  BY <1>1, ExecuteType
  DEF StepExecute, To, Phases, TypeOK, Ready, ModeOK, LoopOK, InstrOK, instr

LEMMA DeliverType == ASSUME TypeOK, RunPost \/ StepDeliver PROVE TypeOK'
<1>0. \A c \in Codes : c # "NONE" => c \in Intr
  BY DEF Codes
<1>1. interrupt_code \in Codes /\ sr_timer \in Word
  BY DEF TypeOK, MachineOK, SpecialOK
<1> USE DEF At, To, Phases
<1>2. ASSUME PrepareInterrupt(interrupt_code, sr_timer, interrupted), interrupt_code # "NONE"
      PROVE MachineOK' /\ interrupted' \in BOOLEAN
  BY <1>0, <1>1, <1>2, PrepareInterruptType DEF TypeOK, LoopOK
<1>3. CASE StepDeliver
  BY <1>2, <1>3 DEF StepDeliver, TypeOK, LoopOK, InstrOK, instr, mode, sigs
<1>4. CASE RunPost /\ interrupt_code \notin Maskable \cup {"NONE"} /\ fl.IP
  BY <1>2, <1>4 DEF RunPost, TypeOK, LoopOK, InstrOK, instr, sigs
<1>5. CASE RunPost /\ ~(interrupt_code \notin Maskable \cup {"NONE"} /\ fl.IP)
  BY <1>5 DEF RunPost, mode, bank, sregs, instr, sigs,
              TypeOK, MachineOK, BankOK, SpecialOK, InstrOK, LoopOK
<1> QED
  BY <1>3, <1>4, <1>5

\* the rest of the loop and the signals leave the machine alone
LEMMA LoopType ==
  ASSUME TypeOK,
         StopAtTop \/ Debinfo \/ PostDebinfo \/ ToPrompt \/ OpenPrompt \/ Sigio \/ Sigint
  PROVE  TypeOK'
<1> USE DEF At, To, Phases, TypeOK, MachineOK, BankOK, SpecialOK, InstrOK, LoopOK,
            processor, bank, sregs, instr, mode, sigs
<1>1. CASE StopAtTop
  BY <1>1 DEF StopAtTop
<1>2. CASE Debinfo \/ PostDebinfo
  BY <1>2, FaultType, FaultCodes DEF Debinfo, PostDebinfo, ShowOperand
<1>3. CASE ToPrompt \/ OpenPrompt
  BY <1>3 DEF ToPrompt, OpenPrompt
<1>4. CASE Sigio
  BY <1>4 DEF Sigio, Signalled
<1>5. CASE Sigint
  BY <1>5 DEF Sigint, Signalled
<1> QED
  BY <1>1, <1>2, <1>3, <1>4, <1>5

LEMMA MonitorType == ASSUME TypeOK, Monitor PROVE TypeOK'
<1>1. CASE CommandStep
  BY <1>1, StepExecuteType DEF CommandStep, Typed, At
<1>2. SkipBreak \/ Advance \/ UNCHANGED bank => BankOK'
  BY AdvanceType DEF SkipBreak, TypeOK, MachineOK, bank, BankOK
<1>3. [fl EXCEPT !.R = TRUE] \in Flags
  BY DEF Flags, TypeOK, MachineOK
<1>4. ASSUME BankOK', fl' \in Flags, UNCHANGED <<sregs, sr_timer, mem, instr, interrupt_code>>
      PROVE  MachineOK' /\ InstrOK'
  BY <1>4 DEF TypeOK, MachineOK, SpecialOK, InstrOK, sregs, instr
<1>5. CASE PromptControlC
  <2>1. MachineOK' /\ InstrOK'
    BY <1>2, <1>4, <1>5 DEF PromptControlC, processor, TypeOK, MachineOK
  <2>2. controlccount' \in 0 .. 2 /\ (controlccount' = 2 => phase' = "off")
    <3>1. controlccount \in 0 .. 1
      BY <1>5 DEF PromptControlC, At, TypeOK, LoopOK
    <3>2. controlccount' = 0 \/ controlccount' = controlccount + 1
      BY <1>5 DEF PromptControlC
    <3>3. controlccount + 1 >= 2 => phase' = "off"
      BY <1>5 DEF PromptControlC, To
    <3> QED
      BY <3>1, <3>2, <3>3
  <2> QED
    BY <1>5, <2>1, <2>2 DEF PromptControlC, To, Phases, TypeOK, LoopOK
<1>6. ASSUME NEW p \in Phases, Obeyed(p), BankOK', fl' \in Flags,
             UNCHANGED <<sregs, sr_timer, mem, instr, interrupt_code, interrupted>>,
             runwild' \in BOOLEAN, stepping' \in BOOLEAN, countdown' \in Nat
      PROVE  TypeOK'
  <2>1. kbd_rdy' \in BOOLEAN /\ control_c' \in BOOLEAN /\ interrupted' \in BOOLEAN
    BY <1>6, Zenon DEF Obeyed, TypeOK, LoopOK
  <2>2. phase' \in Phases /\ controlccount' = 0
    BY <1>6 DEF Obeyed, To
  <2> QED
    BY <1>4, <1>6, <2>1, <2>2 DEF TypeOK, LoopOK
<1>7. CASE CommandPause \/ CommandExit
  BY <1>2, <1>6, <1>7
  DEF CommandPause, CommandExit, Idle, mode, TypeOK, MachineOK, LoopOK, Phases
<1>8. ASSUME NEW n \in Counts, CommandStepFirst(n) PROVE TypeOK'
  BY <1>2, <1>3, <1>6, <1>8, MonitorAssumption
  DEF CommandStepFirst, TypeOK, LoopOK, Phases
<1>9. ASSUME NEW n \in Counts, CommandStepMany(n) PROVE TypeOK'
  BY <1>2, <1>6, <1>9, MonitorAssumption
  DEF CommandStepMany, Idle, TypeOK, MachineOK, LoopOK, Phases
<1>10. ASSUME NEW n \in Counts, CommandRun(n) PROVE TypeOK'
  BY <1>2, <1>3, <1>6, <1>10, MonitorAssumption DEF CommandRun, TypeOK, LoopOK, Phases
<1> QED
  BY <1>1, <1>5, <1>7, <1>8, <1>9, <1>10 DEF Monitor

LEMMA NextType == TypeOK /\ [Next]_vars => TypeOK'
<1> SUFFICES ASSUME TypeOK, [Next]_vars PROVE TypeOK'
  OBVIOUS
<1>1. CASE UNCHANGED vars
  BY <1>1 DEF vars, bank, sregs, instr, mode, sigs,
              TypeOK, MachineOK, BankOK, SpecialOK, InstrOK, LoopOK
<1>2. CASE AutoStep \/ CountedStep
  BY <1>2, StepExecuteType DEF AutoStep, CountedStep, At
<1>3. CASE Next
  BY <1>2, <1>3, FetchStepType, RunExecuteType, DeliverType, LoopType, MonitorType
  DEF Next, Loop
<1> QED
  BY <1>1, <1>3

LEMMA InitType == Init => TypeOK
<1> SUFFICES ASSUME Init PROVE TypeOK
  OBVIOUS
<1>1. HaltInstr \in Instr
  BY WordInt DEF HaltInstr, Instr, Ops, RegNum, NREG
<1>2. InstrOK
  BY <1>1, WordInt DEF Init, InstrOK
<1>4. controlccount \in 0 .. 2 /\ (controlccount = 2 => phase = "off") /\ countdown \in Nat
  BY DEF Init
<1>5. LoopOK
  BY <1>4, Zenon DEF Init, LoopOK, Phases
<1>3. MachineOK
  BY WordInt, InitAssumption DEF Init, MachineOK, BankOK, SpecialOK, Codes
<1> QED
  BY <1>2, <1>3, <1>5 DEF TypeOK

\* Every variable of the emulator keeps a value that its C++ type allows, and
\* main() its place in the loop, for every program, memory image, word and
\* page size, command and signal (computer.cpp, fetch(), execute() and main()).
THEOREM TypeCorrect == Spec => []TypeOK
BY InitType, NextType, PTL DEF Spec
=============================================================================
