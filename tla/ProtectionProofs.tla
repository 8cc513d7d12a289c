-------------------------- MODULE ProtectionProofs --------------------------
(***************************************************************************)
(* What user mode cannot do, that a running timer is not lost, and that    *)
(* user mode writes only to words that it reaches through the page table,  *)
(* whichever way the instruction ends.                                     *)
(***************************************************************************)
EXTENDS ProcessorProofs

-----------------------------------------------------------------------------
(* Confinement: what the switch of execute() does in user mode.            *)

\* flags that a user program may give itself
Unprivileged(f) == ~f.SYS /\ f.IP = fl.IP /\ f.VM = fl.VM

LEMMA UserBank ==
  ASSUME ~fl.SYS, NEW p, NEW f, SetRegisters(p, f) PROVE UNCHANGED <<sr_syssp, sr_sysfp>>
BY DEF SetRegisters

LEMMA SameFlags == ASSUME ~fl.SYS PROVE Unprivileged(fl)
BY DEF Unprivileged

LEMMA RefuseConfined == ASSUME ~fl.SYS, NEW code, NEW t, Refuse(code, t) PROVE Confined
BY DEF Refuse, Advance, Kept, Confined, Stays, sregs

LEMMA ResultConfined ==
  ASSUME ~fl.SYS, NEW r, NEW v, NEW t, NEW c, Result(r, v, t, c) PROVE Confined
BY UserBank DEF Result, SetRegister, Kept, Confined, Stays, sregs

LEMMA GotoConfined ==
  ASSUME ~fl.SYS, NEW a, NEW f, Unprivileged(f), NEW t, NEW c, Goto(a, f, t, c) PROVE Confined
BY UserBank DEF Goto, Kept, Confined, Stays, Unprivileged, sregs

LEMMA StoredConfined ==
  ASSUME ~fl.SYS, NEW a, NEW v, NEW t, NEW c, Stored(a, v, t, c),
         UNCHANGED <<sr_syssp, sr_sysfp>>
  PROVE  Confined
BY DEF Stored, Kept, Confined, Stays, sregs

\* the flag a user program sets is Z; reading a flag sets Z as well
LEMMA UserSetsZ == ASSUME fl \in Flags, ~fl.SYS, NEW b \in BOOLEAN
                   PROVE  Unprivileged([fl EXCEPT !.Z = b])
BY DEF Flags, Unprivileged

LEMMA FlagsConfined ==
  ASSUME Ready, ~fl.SYS, NEW i \in Instr, NEW v \in Word, NEW t, NEW c,
         OpGetFl(i, v, t, c) \/ OpSetFl(i, v, t, c)
  PROVE  Confined
<1>0. fl \in Flags
  BY DEF Ready, MachineOK
<1>1. CASE OpGetFl(i, v, t, c)
  <2>1. Unprivileged(fl')
    BY <1>0, <1>1 DEF OpGetFl, Flags, Unprivileged
  <2> QED
    BY <1>1, <2>1, UserBank
    DEF OpGetFl, SetRegister, Kept, Confined, Stays, Unprivileged, sregs
<1>2. CASE OpSetFl(i, v, t, c) /\ v # 1
  BY <1>2, RefuseConfined DEF OpSetFl
<1>3. CASE OpSetFl(i, v, t, c) /\ v = 1
  <2> DEFINE b == Operand(i.reg) # 0
             f == [fl EXCEPT ![FlagName[v + 1]] = b]
  <2>1. FlagName[v + 1] = "Z" /\ v < NumFlags
    BY <1>3 DEF FlagName, NumFlags
  <2>2. SetFlags(f, t, c)
    BY <1>3, <2>1 DEF OpSetFl
  <2>3. f = [fl EXCEPT !.Z = b] /\ b \in BOOLEAN
    BY <2>1
  <2> HIDE DEF b, f
  <2> QED
    BY <1>0, <2>2, <2>3, UserSetsZ, GotoConfined DEF SetFlags
<1> QED
  BY <1>1, <1>2, <1>3

LEMMA StackConfined ==
  ASSUME ~fl.SYS, NEW i, NEW pc, NEW v, NEW t, NEW c,
         OpPush(pc, v, t, c) \/ OpRet(t, c) \/ OpPop(i, t, c)
  PROVE  Confined
<1>1. ASSUME NEW p, NEW f, SetRegisters(p, f), UNCHANGED fl, Kept PROVE Confined
  BY <1>1, UserBank DEF Kept, Confined, Stays, sregs
<1>2. CASE OpPush(pc, v, t, c)
  BY <1>1, <1>2, RefuseConfined DEF OpPush, Stored
<1>3. CASE OpRet(t, c)
  BY <1>1, <1>3, RefuseConfined DEF OpRet
<1>4. CASE OpPop(i, t, c)
  BY <1>1, <1>4, RefuseConfined DEF OpPop, Stored
<1> QED
  BY <1>2, <1>3, <1>4

LEMMA WriteConfined ==
  ASSUME ~fl.SYS, NEW i, NEW v, NEW t, NEW c, WriteOperand(i, v, t, c) \/ OpAtas(i, v, t, c)
  PROVE  Confined
<1>1. ASSUME NEW p, NEW f, SetRegisters(p, f), UNCHANGED fl, Kept PROVE Confined
  BY <1>1, UserBank DEF Kept, Confined, Stays, sregs
<1>2. CASE WriteOperand(i, v, t, c)
  BY <1>2, RefuseConfined, ResultConfined, StoredConfined DEF WriteOperand, Advance
<1>3. CASE OpAtas(i, v, t, c)
  BY <1>1, <1>3, RefuseConfined DEF OpAtas, Stored, SetRegister
<1> QED
  BY <1>2, <1>3

LEMMA MoveConfined ==
  ASSUME ~fl.SYS, NEW i, NEW v, NEW t, NEW c, OpMove(i, v, t, c) PROVE Confined
<1>1. CASE Refuse("UNIMPOP", t)
  BY <1>1, RefuseConfined
<1>2. ASSUME NEW p, NEW f, SetRegisters(p, f), UNCHANGED fl, Kept PROVE Confined
  BY <1>2, UserBank DEF Kept, Confined, Stays, sregs
<1> QED
  BY <1>1, <1>2 DEF OpMove

LEMMA InterruptConfined ==
  ASSUME Ready, ~fl.SYS, NEW ic \in Intr, NEW t, NEW was, PrepareInterrupt(ic, t, was)
  PROVE  Confined
<1>0. fl \in Flags /\ reg \in Regs
  BY DEF Ready, MachineOK, BankOK
<1>1. UNCHANGED <<sregs, sr_sysfp>>
  BY DEF PrepareInterrupt
<1>2. fl'.VM = fl.VM
  BY <1>0 DEF PrepareInterrupt, Flags
<1> DEFINE vecok == sr_intvec # 0 /\ Fault(sr_intvec) = "NONE"
           first == IF vecok /\ FramePushed THEN Vector[ic] ELSE 0
           dest == IF first # 0 THEN first ELSE IF vecok THEN Vector["INTRFAULT"] ELSE 0
<1>3. CASE dest = 0
  BY <1>0, <1>1, <1>2, <1>3 DEF PrepareInterrupt, Confined, Stays, Flags
<1>4. CASE dest # 0
  <2>1. dest \in Entries
    BY <1>4 DEF Entries, Intr
  <2>2. /\ fl' = [fl EXCEPT !.SYS = TRUE, !.IP = TRUE]
        /\ reg' = [reg EXCEPT ![PC] = dest]
        /\ sr_syssp' = Wrap(sr_syssp - FrameSize)
    BY <1>4 DEF PrepareInterrupt
  <2> HIDE DEF dest
  <2>3. fl'.SYS /\ reg'[PC] = dest
    BY <1>0, <2>2 DEF Flags, Regs, RegNum, NREG, PC
  <2> QED
    BY <1>1, <1>2, <2>1, <2>2, <2>3 DEF Confined, EntersSystem
<1> QED
  BY <1>3, <1>4

LEMMA SyscallConfined ==
  ASSUME Ready, ~fl.SYS, NEW v, NEW t, NEW c, OpSyscall(v, t, c) PROVE Confined
<1>0. fl \in Flags /\ reg \in Regs
  BY DEF Ready, MachineOK, BankOK
<1>1. CASE \E code : Refuse(code, t)
  BY <1>1, RefuseConfined
<1>2. CASE /\ reg' = [reg EXCEPT ![PC] = CallGate]
           /\ sr_syssp' = Wrap(sr_syssp - FrameSize)
           /\ fl' = [fl EXCEPT !.SYS = TRUE]
           /\ UNCHANGED sr_sysfp /\ Kept
  BY <1>0, <1>2 DEF Confined, EntersSystem, Entries, Kept, sregs, Flags, Regs, RegNum, NREG, PC
<1>3. CASE Advance /\ UNCHANGED fl /\ Kept
  BY <1>3 DEF Confined, Stays, Advance, Kept, sregs
<1> QED
  BY <1>1, <1>2, <1>3 DEF OpSyscall

LEMMA PerformConfined ==
  ASSUME Ready, ~fl.SYS, NEW i \in Instr, NEW v \in Word, NEW t, NEW c, Perform(i, v, t, c)
  PROVE  Confined
<1>0. fl \in Flags /\ i.op \in Ops
  BY DEF Ready, MachineOK, Instr
<1>1. \A code : Refuse(code, t) => Confined
  BY RefuseConfined
<1>2. \A a : Goto(a, fl, t, c) => Confined
  BY SameFlags, GotoConfined
<1>3. \A r, w, d : Result(r, w, t, d) => Confined
  BY ResultConfined
<1>4. CASE i.op \in {"HALT", "FLAGSJ", "IRET", "SETSR", "PHLOAD", "PHSTORE", "DOIO", "UNIMP"}
  BY <1>1, <1>4 DEF Perform, OpHalt, OpIret, OpSetSr, OpPhload, OpPhstore, OpDoio
<1>5. CASE i.op \in {"LOAD", "ADD", "GETSR", "DIV", "VTRAN"}
  BY <1>1, <1>3, <1>5 DEF Perform, OpDiv, OpVtran
<1>6. CASE i.op = "COMP"
  <2>1. Unprivileged([fl EXCEPT !.Z = (Operand(i.reg) = v)])
    BY <1>0, UserSetsZ
  <2> QED
    BY <1>6, <2>1, GotoConfined DEF Perform, SetFlags
<1>7. CASE i.op \in {"STORE", "ATAS"}
  BY <1>7, WriteConfined DEF Perform
<1>8. CASE i.op \in {"JUMP", "FAKEIT", "BREAK"}
  BY <1>2, <1>8 DEF Perform, SetFlags
<1>9. CASE i.op = "JCOND"
  <2>1. OpJcond(i, v, t, c)
    BY <1>9 DEF Perform
  <2> QED
    BY <1>1, <1>2, <2>1 DEF OpJcond
<1>10. CASE i.op \in {"GETFL", "SETFL"}
  BY <1>10, FlagsConfined DEF Perform
<1>11. CASE i.op \in {"PUSH", "CALL", "POP", "RET"}
  BY <1>11, StackConfined DEF Perform
<1>12. CASE i.op \in {"WAIT", "PAUSE"}
  <2>1. \E a, u : Goto(a, fl, u, c)
    BY <1>12 DEF Perform, SetFlags
  <2> QED
    BY <2>1, SameFlags, GotoConfined
<1>13. CASE i.op = "SYSCALL"
  BY <1>13, SyscallConfined DEF Perform
<1>14. CASE i.op = "MOVE"
  BY <1>14, MoveConfined DEF Perform
<1> QED
  BY <1>0, <1>4, <1>5, <1>6, <1>7, <1>8, <1>9, <1>10, <1>11, <1>12, <1>13, <1>14 DEF Ops

-----------------------------------------------------------------------------
(* Confinement: fetch(), execute() and main().                             *)

LEMMA FetchConfined ==
  ASSUME TypeOK, ~fl.SYS, NEW was, Fetch(was) PROVE Confined
<1>0. Ready
  BY DEF TypeOK, LoopOK, Ready
<1>1. \A a : Fault(a) # "NONE" => Fault(a) \in Intr
  BY FaultType DEF Faults, Intr
<1>2. CASE \E ic \in Intr : PrepareInterrupt(ic, sr_timer, was)
  BY <1>0, <1>2, InterruptConfined
<1>3. CASE UNCHANGED <<bank, fl, sregs>>
  BY <1>3 DEF bank, Confined, Stays
<1>4. (\E ic \in Intr : PrepareInterrupt(ic, sr_timer, was)) \/ UNCHANGED <<bank, fl, sregs>>
  BY <1>1 DEF Fetch, Intr
<1> QED
  BY <1>2, <1>3, <1>4

LEMMA ExecuteConfined ==
  ASSUME TypeOK, ~fl.SYS, NEW c0 \in Codes, Execute(c0) PROVE Confined
<1> DEFINE t == Ticked
           c1 == Expired(c0, t)
           e == effective_address
           c2 == IF current.ind /\ Fault(e) # "NONE" THEN Fault(e) ELSE c1
           v == IF ~current.ind THEN e ELSE IF c2 # "NONE" THEN 0 ELSE MemRead(e)
<1>0. Ready /\ current \in Instr
  BY DEF TypeOK, LoopOK, InstrOK, Ready
<1>1. c1 \in Codes /\ c2 \in Codes
  BY FaultType, FaultCodes DEF Expired, Codes, Intr
<1>2. v \in Word
  <2> HIDE DEF c2
  <2> QED
    BY TranslateType, WordInt DEF TypeOK, InstrOK
<1>3. CASE c1 # "NONE" /\ PrepareInterrupt(c1, t, FALSE)
  <2> HIDE DEF c1, t
  <2> QED
    BY <1>0, <1>1, <1>3, InterruptConfined DEF Codes
<1>4. CASE c2 # "NONE" /\ PrepareInterrupt(c2, t, FALSE)
  <2> HIDE DEF c2, t
  <2> QED
    BY <1>0, <1>1, <1>4, InterruptConfined DEF Codes
<1>5. CASE Perform(current, v, t, c2)
  <2> HIDE DEF c2, t, v
  <2> QED
    BY <1>0, <1>2, <1>5, PerformConfined
<1> QED
  BY <1>3, <1>4, <1>5 DEF Execute

LEMMA NextConfined == ASSUME TypeOK, Next, ~fl.SYS PROVE Confined \/ UNCHANGED vars
<1>0. Ready /\ interrupt_code \in Codes /\ fl \in Flags
  BY DEF TypeOK, LoopOK, Ready, MachineOK
\* steps that execute an instruction
<1>1. CASE RunExecute
  <2>1. Raised \in Codes
    BY <1>0 DEF Raised, Codes, Intr
  <2>2. Execute(Raised) \/ UNCHANGED processor
    BY <1>1 DEF RunExecute
  <2> QED
    BY <2>1, <2>2, ExecuteConfined DEF processor, bank, Confined, Stays
<1>2. CASE AutoStep \/ CountedStep \/ CommandStep
  BY <1>0, <1>2, ExecuteConfined DEF AutoStep, CountedStep, CommandStep, StepExecute
\* steps that fetch one or deliver an interrupt
<1>3. CASE RunFetch \/ StepFetch \/ StepRefetch
  BY <1>3, FetchConfined
  DEF RunFetch, StepFetch, StepRefetch, processor, bank, Confined, Stays
<1>4. CASE RunPost \/ StepDeliver
  <2>1. CASE interrupt_code # "NONE" /\ PrepareInterrupt(interrupt_code, sr_timer, interrupted)
    BY <1>0, <2>1, InterruptConfined DEF Codes
  <2>2. CASE UNCHANGED <<bank, fl, sregs>>
    BY <2>2 DEF bank, Confined, Stays
  <2> QED
    BY <1>4, <2>1, <2>2 DEF RunPost, StepDeliver
\* the loop, the monitor and the signals
<1>5. CASE UNCHANGED processor
  BY <1>5 DEF processor, bank, Confined, Stays
<1>6. CASE StopAtTop \/ Debinfo \/ PostDebinfo \/ ToPrompt \/ OpenPrompt \/ PromptControlC
           \/ Sigio \/ Sigint
  BY <1>5, <1>6 DEF StopAtTop, Debinfo, PostDebinfo, ShowOperand, ToPrompt, OpenPrompt,
                    PromptControlC, Sigio, Sigint, Signalled
<1>7. ASSUME Advance \/ UNCHANGED bank, UNCHANGED sregs,
             UNCHANGED fl \/ fl' = [fl EXCEPT !.R = TRUE]
      PROVE  Confined
  BY <1>0, <1>7 DEF Advance, bank, Confined, Stays, Flags
<1>8. CASE CommandPause \/ CommandExit
  BY <1>7, <1>8 DEF CommandPause, CommandExit, Idle
<1>9. CASE \E n \in Counts : CommandStepFirst(n) \/ CommandStepMany(n) \/ CommandRun(n)
  BY <1>7, <1>9 DEF CommandStepFirst, CommandStepMany, CommandRun, SkipBreak, Idle
<1> QED
  BY <1>1, <1>2, <1>3, <1>4, <1>6, <1>8, <1>9 DEF Next, Loop, Monitor

\* A step that starts in user mode leaves the special registers, the system's
\* stack and the flags SYS, IP and VM alone, or enters the system by the
\* vector or the call gate (the PRIVOP tests of execute(), prepare_interrupt()
\* and SYSCALL), for every user program, memory image and page table.
THEOREM UserIsConfined == Spec => UserConfined
<1>1. TypeOK /\ [Next]_vars => [~fl.SYS => Confined]_vars
  BY NextConfined
<1> QED
  BY <1>1, TypeCorrect, PTL DEF Spec, UserConfined

-----------------------------------------------------------------------------
(* The timer.                                                              *)

LEMMA InterruptKeepsTimer ==
  ASSUME Ready, NEW ic \in Intr, NEW t \in Word, t > 0, NEW was,
         PrepareInterrupt(ic, t, was), sr_timer' = 0
  PROVE  TimerAccounted
<1>0. fl \in Flags /\ reg \in Regs
  BY DEF Ready, MachineOK, BankOK
<1>1. ic = "TIMER"
  BY WordInt DEF PrepareInterrupt
<1> DEFINE vecok == sr_intvec # 0 /\ Fault(sr_intvec) = "NONE"
           first == IF vecok /\ FramePushed THEN Vector[ic] ELSE 0
           dest == IF first # 0 THEN first ELSE IF vecok THEN Vector["INTRFAULT"] ELSE 0
<1>2. CASE dest = 0
  BY <1>0, <1>2 DEF PrepareInterrupt, TimerAccounted, Flags
<1>3. CASE dest # 0
  <2>1. dest \in {Vector["TIMER"], Vector["INTRFAULT"]}
    BY <1>1, <1>3
  <2>2. fl' = [fl EXCEPT !.SYS = TRUE, !.IP = TRUE] /\ reg' = [reg EXCEPT ![PC] = dest]
    BY <1>3 DEF PrepareInterrupt
  <2> HIDE DEF dest
  <2> QED
    BY <1>0, <2>1, <2>2 DEF TimerAccounted, Flags, Regs, RegNum, NREG, PC
<1> QED
  BY <1>2, <1>3

LEMMA MoveKeepsTimer ==
  ASSUME NEW i, NEW v, NEW t \in Word, t > 0, NEW c, OpMove(i, v, t, c) PROVE sr_timer' # 0
<1>1. CASE Refuse("UNIMPOP", t)
  BY <1>1, WordInt DEF Refuse
<1>2. CASE \E spent : sr_timer' = IF t <= 2 THEN t ELSE IF t - spent < 2 THEN 2 ELSE t - spent
  <2>1. PICK spent : sr_timer' = IF t <= 2 THEN t ELSE IF t - spent < 2 THEN 2 ELSE t - spent
    BY <1>2
  <2>2. sr_timer' = t \/ sr_timer' = 2 \/ (sr_timer' = t - spent /\ ~(t - spent < 2))
    BY <2>1
  <2> QED
    BY <2>2
<1> QED
  BY <1>1, <1>2 DEF OpMove

\* Only SETSR sets the timer to zero, and only in system mode.
LEMMA PerformKeepsTimer ==
  ASSUME NEW i \in Instr, NEW v, NEW t \in Word, t > 0, NEW c,
         Perform(i, v, t, c), sr_timer' = 0
  PROVE  i.op = "SETSR" /\ fl.SYS
<1>0. i.op \in Ops /\ t \in Nat
  BY WordInt DEF Instr
<1>1. \A code : Refuse(code, t) => sr_timer' = t
  BY DEF Refuse
<1>2. \A r, w, d : Result(r, w, t, d) => sr_timer' = t
  BY DEF Result
<1>3. \A a, f, u : Goto(a, f, u, c) => sr_timer' = u
  BY DEF Goto
<1>4. \A a, w, d : Stored(a, w, t, d) => sr_timer' = t
  BY DEF Stored
<1>5. CASE i.op = "SETSR"
  BY <1>0, <1>1, <1>5 DEF Perform, OpSetSr
<1>6. CASE i.op = "MOVE"
  BY <1>6, MoveKeepsTimer DEF Perform
<1>7. CASE i.op \in {"WAIT", "PAUSE"}
  <2>1. sr_timer' = Waited(t)
    BY <1>3, <1>7 DEF Perform, SetFlags
  <2> QED
    BY <1>0, <2>1, TickAssumption DEF Waited
<1>8. CASE i.op \in {"HALT", "JCOND", "PHLOAD", "VTRAN", "DIV"}
  <2>1. OpHalt(t, c) => sr_timer' = t
    BY <1>1, <1>3 DEF OpHalt, SetFlags
  <2>2. OpJcond(i, v, t, c) => sr_timer' = t
    BY <1>1, <1>3 DEF OpJcond
  <2>3. OpPhload(i, t, c) => sr_timer' = t
    BY <1>1, <1>2 DEF OpPhload
  <2>4. OpVtran(i, v, t, c) => sr_timer' = t
    BY <1>2 DEF OpVtran
  <2>5. OpDiv(i, v, t, c) => sr_timer' = t
    BY <1>1, <1>2 DEF OpDiv
  <2>6. sr_timer' = t
    BY <1>8, <2>1, <2>2, <2>3, <2>4, <2>5 DEF Perform
  <2> QED
    BY <1>0, <2>6
<1>9. CASE i.op \in {"LOAD", "ADD", "COMP", "JUMP", "GETSR", "FAKEIT", "FLAGSJ", "BREAK", "UNIMP"}
  <2>1. sr_timer' = t
    BY <1>1, <1>2, <1>3, <1>9 DEF Perform, SetFlags
  <2> QED
    BY <1>0, <2>1
<1>10. CASE i.op \in {"STORE", "ATAS", "PUSH", "CALL", "POP", "RET"}
  <2>1. WriteOperand(i, Operand(i.reg), t, c) => sr_timer' = t
    BY <1>1, <1>2, <1>4 DEF WriteOperand
  <2>2. OpAtas(i, v, t, c) => sr_timer' = t
    BY <1>1, <1>4 DEF OpAtas
  <2>3. \A p, w : OpPush(p, w, t, c) => sr_timer' = t
    BY <1>1, <1>4 DEF OpPush
  <2>4. OpPop(i, t, c) => sr_timer' = t
    BY <1>1, <1>4 DEF OpPop
  <2>5. OpRet(t, c) => sr_timer' = t
    BY <1>1 DEF OpRet
  <2>6. sr_timer' = t
    BY <1>10, <2>1, <2>2, <2>3, <2>4, <2>5 DEF Perform
  <2> QED
    BY <1>0, <2>6
<1>11. CASE i.op \in {"GETFL", "SETFL", "DOIO", "IRET", "SYSCALL", "PHSTORE"}
  <2>1. OpGetFl(i, v, t, c) => sr_timer' = t
    BY DEF OpGetFl
  <2>2. OpSetFl(i, v, t, c) => sr_timer' = t
    BY <1>1, <1>3 DEF OpSetFl, SetFlags
  <2>3. OpDoio(i, v, t, c) => sr_timer' = t
    BY <1>1 DEF OpDoio
  <2>4. OpIret(t, c) => sr_timer' = t
    BY <1>1 DEF OpIret
  <2>5. OpSyscall(v, t, c) => sr_timer' = t
    BY <1>1 DEF OpSyscall
  <2>6. OpPhstore(i, t, c) => sr_timer' = t
    BY <1>1 DEF OpPhstore
  <2>7. sr_timer' = t
    BY <1>11, <2>1, <2>2, <2>3, <2>4, <2>5, <2>6 DEF Perform
  <2> QED
    BY <1>0, <2>7
<1> QED
  BY <1>0, <1>5, <1>6, <1>7, <1>8, <1>9, <1>10, <1>11 DEF Ops

LEMMA ExecuteKeepsTimer ==
  ASSUME TypeOK, NEW c0 \in Codes, Execute(c0), sr_timer > 0, sr_timer' = 0
  PROVE  TimerAccounted
<1> DEFINE t == Ticked
           c1 == Expired(c0, t)
           e == effective_address
           c2 == IF current.ind /\ Fault(e) # "NONE" THEN Fault(e) ELSE c1
           v == IF ~current.ind THEN e ELSE IF c2 # "NONE" THEN 0 ELSE MemRead(e)
<1>0. Ready /\ current \in Instr
  BY DEF TypeOK, LoopOK, InstrOK, Ready
<1>1. c1 \in Codes /\ c2 \in Codes
  BY FaultType, FaultCodes DEF Expired, Codes, Intr
<1>2. t \in Word /\ t > 0
  BY WordSizeAssumption DEF Ticked, TypeOK, MachineOK, SpecialOK, Word
<1>3. CASE c1 # "NONE" /\ PrepareInterrupt(c1, t, FALSE)
  <2> HIDE DEF c1, t
  <2> QED
    BY <1>0, <1>1, <1>2, <1>3, InterruptKeepsTimer DEF Codes
<1>4. CASE c2 # "NONE" /\ PrepareInterrupt(c2, t, FALSE)
  <2> HIDE DEF c2, t
  <2> QED
    BY <1>0, <1>1, <1>2, <1>4, InterruptKeepsTimer DEF Codes
<1>5. CASE Perform(current, v, t, c2)
  <2> HIDE DEF c2, t, v
  <2> QED
    BY <1>0, <1>2, <1>5, PerformKeepsTimer DEF TimerAccounted
<1> QED
  BY <1>3, <1>4, <1>5 DEF Execute

LEMMA NextKeepsTimer ==
  ASSUME TypeOK, Next, sr_timer > 0, sr_timer' = 0 PROVE TimerAccounted
<1>0. Ready /\ interrupt_code \in Codes /\ sr_timer \in Word /\ sr_timer' # sr_timer
  BY WordInt DEF TypeOK, LoopOK, Ready, MachineOK, SpecialOK
<1>1. \A a : Fault(a) # "NONE" => Fault(a) \in Intr
  BY FaultType DEF Faults, Intr
<1>2. CASE RunExecute
  <2>1. Raised \in Codes
    BY <1>0 DEF Raised, Codes, Intr
  <2>2. Execute(Raised)
    BY <1>0, <1>2 DEF RunExecute, processor
  <2> QED
    BY <2>1, <2>2, ExecuteKeepsTimer
<1>3. CASE AutoStep \/ CountedStep \/ CommandStep
  BY <1>0, <1>3, ExecuteKeepsTimer DEF AutoStep, CountedStep, CommandStep, StepExecute
<1>4. CASE \E ic \in Intr : \E was : PrepareInterrupt(ic, sr_timer, was)
  BY <1>0, <1>4, InterruptKeepsTimer
<1>5. ASSUME NEW was, Fetch(was) PROVE TimerAccounted
  BY <1>0, <1>1, <1>4, <1>5 DEF Fetch, Intr
<1>6. CASE RunFetch \/ StepFetch \/ StepRefetch
  BY <1>0, <1>5, <1>6 DEF RunFetch, StepFetch, StepRefetch, processor
<1>7. CASE RunPost \/ StepDeliver
  <2>1. interrupt_code # "NONE" => interrupt_code \in Intr
    BY <1>0 DEF Codes
  <2> QED
    BY <1>0, <1>4, <1>7, <2>1 DEF RunPost, StepDeliver
<1>8. CASE StopAtTop \/ Debinfo \/ PostDebinfo \/ ToPrompt \/ OpenPrompt \/ PromptControlC
           \/ Sigio \/ Sigint
  BY <1>0, <1>8 DEF StopAtTop, Debinfo, PostDebinfo, ShowOperand, ToPrompt, OpenPrompt,
                    PromptControlC, Sigio, Sigint, Signalled, processor
<1>9. CASE CommandPause \/ CommandExit
  BY <1>0, <1>9 DEF CommandPause, CommandExit, Idle
<1>10. CASE \E n \in Counts : CommandStepFirst(n) \/ CommandStepMany(n) \/ CommandRun(n)
  BY <1>0, <1>10 DEF CommandStepFirst, CommandStepMany, CommandRun, Idle
<1> QED
  BY <1>2, <1>3, <1>6, <1>7, <1>8, <1>9, <1>10 DEF Next, Loop, Monitor

\* A timer that is running reaches zero only in the TIMER handler (or in
\* INTRFAULT's, or with the processor stopped) or by a SETSR of the system:
\* WAIT, PAUSE, MOVE, the other interrupts and the monitor never swallow it.
THEOREM TimerIsNotLost == Spec => TimerNotLost
<1>1. TypeOK /\ [Next]_vars => [sr_timer > 0 /\ sr_timer' = 0 => TimerAccounted]_vars
  BY NextKeepsTimer
<1> QED
  BY <1>1, TypeCorrect, PTL DEF Spec, TimerNotLost

-----------------------------------------------------------------------------
(* Pages: where a step of user mode writes.                                *)

\* what may be written: words that user code reaches through the page table
Reached(a) == \E b \in Word : Fault(b) = "NONE" /\ Translate(b) = a
Within(m) == \A a \in Word : m[a] # mem[a] => Reached(a)
Protected == \A a \in Word : mem'[a] # mem[a] => Reached(a)

LEMMA WriteFaultFault == \A a : WriteFault(a) = "NONE" => Fault(a) = "NONE"
BY DEF WriteFault

LEMMA StoredProtected ==
  ASSUME Ready, NEW a \in Word, WriteFault(a) = "NONE", NEW v, NEW t, NEW c, Stored(a, v, t, c)
  PROVE  Protected
<1>1. Fault(a) = "NONE"
  BY WriteFaultFault
<1>2. mem' = [mem EXCEPT ![Translate(a)] = v] /\ mem \in [Word -> Word]
  BY DEF Stored, MemWrite, Ready, MachineOK
<1> QED
  BY <1>1, <1>2 DEF Protected, Reached

LEMMA PushWordWithin ==
  ASSUME Ready, NEW m \in [Word -> Word], Within(m), NEW i \in 1 .. FrameSize, NEW fr, fr[i] \in Word
  PROVE  Within(PushWord(m, i, fr)) /\ PushWord(m, i, fr) \in [Word -> Word]
<1>1. FrameAddr(i) \in Word
  BY WrapType, WordInt DEF FrameAddr, Ready, MachineOK, BankOK, FrameSize, NREG
<1>2. PushWord(m, i, fr) \in [Word -> Word]
  BY PushWordType DEF Ready
<1>3. Pushable(i) => Fault(FrameAddr(i)) = "NONE"
  <2>1. i \in 1 .. i
    BY DEF FrameSize, NREG
  <2>2. Pushable(i) => PushFault(i) = "NONE"
    BY <2>1 DEF Pushable
  <2> QED
    BY <2>2, WriteFaultFault DEF PushFault
<1> QED
  BY <1>1, <1>2, <1>3 DEF PushWord, Within, Reached

LEMMA PushFrameProtected ==
  ASSUME Ready, NEW p \in Word, PushFrame(Frame(p)) PROVE Protected
<1> DEFINE fr == Frame(p)
           m1 == PushWord(mem, 1, fr)
           m2 == PushWord(m1, 2, fr)
           m3 == PushWord(m2, 3, fr)
           m4 == PushWord(m3, 4, fr)
           m5 == PushWord(m4, 5, fr)
           Good(m) == m \in [Word -> Word] /\ Within(m)
<1>1. \A i \in 1 .. 5 : fr[i] \in Word /\ i \in 1 .. FrameSize
  BY FrameType DEF FrameSize, NREG, Ready
<1>2. ASSUME NEW m, Good(m), NEW i \in 1 .. 5 PROVE Good(PushWord(m, i, fr))
  BY <1>1, <1>2, PushWordWithin
<1>3. Good(mem)
  BY DEF Ready, MachineOK, Within
<1>4. mem' = m5
  BY DEF PushFrame
<1> HIDE DEF fr, Good
<1>5. Good(m1)
  BY <1>2, <1>3
<1>6. Good(m2)
  BY <1>2, <1>5
<1>7. Good(m3)
  BY <1>2, <1>6
<1>8. Good(m4)
  BY <1>2, <1>7
<1>9. Good(m5)
  BY <1>2, <1>8
<1> QED
  BY <1>4, <1>9 DEF Good, Within, Protected

LEMMA InterruptProtected ==
  ASSUME Ready, NEW ic, NEW t, NEW was, PrepareInterrupt(ic, t, was) PROVE Protected
<1>1. reg[PC] \in Word
  BY NextPCType DEF Ready, MachineOK
<1>2. CASE UNCHANGED mem
  BY <1>2 DEF Protected
<1>3. CASE PushFrame(Frame(reg[PC]))
  BY <1>1, <1>3, PushFrameProtected
<1> QED
  BY <1>2, <1>3 DEF PrepareInterrupt

\* n words that hang together, from the first on, are the first n
LEMMA Prefix ==
  ASSUME NEW stop \in Int, NEW S \in SUBSET (0 .. stop - 1),
         \A k \in S : \A j \in 0 .. k : j \in S,
         NEW k \in 0 .. Cardinality(S) - 1
  PROVE  k \in S
<1>0. IsFiniteSet(0 .. stop - 1)
  BY FS_Interval
<1>1. IsFiniteSet(S)
  BY <1>0, FS_Subset
<1>2. SUFFICES ASSUME k \notin S PROVE FALSE
  OBVIOUS
<1>3. Cardinality(S) \in Nat
  BY <1>1, FS_CardinalityType
<1>4. S \subseteq 0 .. k - 1
  BY <1>2, <1>3
<1>5. IsFiniteSet(0 .. k - 1) /\ Cardinality(0 .. k - 1) = k
  <2>1. k \in Nat /\ k - 1 \in Int
    BY <1>3
  <2> QED
    BY <2>1, FS_Interval
<1>6. Cardinality(S) <= k
  BY <1>4, <1>5, FS_Subset
<1> QED
  BY <1>3, <1>6

LEMMA MoveProtected ==
  ASSUME Ready, NEW i \in Instr, NEW v \in Word, NEW t \in Word, NEW c, OpMove(i, v, t, c)
  PROVE  Protected
<1> DEFINE n == IF Negative(Operand(R0)) THEN 0 ELSE Operand(R0)
           src(k) == Wrap(Operand(i.reg) + k)
           dst(k) == Wrap(v + k)
           good(k) == Fault(src(k)) = "NONE" /\ WriteFault(dst(k)) = "NONE"
           stop == IF t >= 2 /\ MoveTicks * (t - 1) < n THEN MoveTicks * (t - 1) ELSE n
           S == {k \in 0 .. stop - 1 : \A j \in 0 .. k : good(j)}
           gap == Wrap(v - Operand(i.reg))
           root(k) == IF gap # 0 /\ gap <= k THEN k % gap ELSE k
           written(a) == {k \in 0 .. Cardinality(S) - 1 : Translate(dst(k)) = a}
<1>1. CASE UNCHANGED mem
  BY <1>1 DEF Protected
<1>2. CASE mem' = [a \in Word |-> IF written(a) = {} THEN mem[a]
                                  ELSE MemRead(src(root(CHOOSE k \in written(a) : TRUE)))]
  <2>1. n \in Int
    BY RegistersType, WordInt DEF Ready, MachineOK, R0, RegNum, NREG
  <2>2. stop \in Int
    <3>1. MoveTicks \in Int /\ t - 1 \in Int
      BY WordInt, TickAssumption
    <3>2. MoveTicks * (t - 1) \in Int
      BY <3>1
    <3> HIDE DEF n
    <3> QED
      BY <2>1, <3>2
  <2>3. S \subseteq 0 .. stop - 1 /\ \A k \in S : \A j \in 0 .. k : j \in S
    <3> HIDE DEF n, good, stop
    <3> QED
      BY <2>2
  <2>4. \A k \in 0 .. Cardinality(S) - 1 : k \in S
    <3> HIDE DEF S, stop
    <3> QED
      BY <2>2, <2>3, Prefix
  <2>5. \A k \in S : k \in Nat /\ WriteFault(dst(k)) = "NONE"
    <3> HIDE DEF n, stop, dst, src
    <3> QED
      BY <2>2
  <2> SUFFICES ASSUME NEW a \in Word, mem'[a] # mem[a] PROVE Reached(a)
    BY DEF Protected
  <2>6. written(a) # {}
    <3> HIDE DEF written, src, root
    <3> QED
      BY <1>2
  <2>7. PICK k \in 0 .. Cardinality(S) - 1 : Translate(dst(k)) = a
    <3> HIDE DEF S, dst
    <3> QED
      BY <2>6
  <2>8. k \in Nat /\ WriteFault(dst(k)) = "NONE"
    <3> HIDE DEF S, dst
    <3> QED
      BY <2>4, <2>5
  <2>9. dst(k) \in Word
    BY <2>8, WrapType, WordInt
  <2> HIDE DEF dst
  <2> QED
    BY <2>7, <2>8, <2>9, WriteFaultFault DEF Reached
<1> QED
  BY <1>1, <1>2 DEF OpMove, Refuse

LEMMA PerformProtected ==
  ASSUME Ready, ~fl.SYS, effective_address \in Word,
         NEW i \in Instr, NEW v \in Word, NEW t \in Word, NEW c, Perform(i, v, t, c)
  PROVE  Protected
<1>0. i.op \in Ops /\ Operand(SP) \in Word /\ NextPC \in Word
  BY RegistersType, NextPCType DEF Ready, MachineOK, Instr, SP, RegNum, NREG
<1>1. UNCHANGED mem => Protected
  BY DEF Protected
<1>2. \A code : Refuse(code, t) => UNCHANGED mem
  BY DEF Refuse
<1>3. \A r, w, d : Result(r, w, t, d) => UNCHANGED mem
  BY DEF Result
<1>4. \A a, f, u : Goto(a, f, u, c) => UNCHANGED mem
  BY DEF Goto
\* instructions that store nothing, or nothing in user mode
<1>5. CASE i.op \in {"HALT", "LOAD", "ADD", "DIV", "COMP", "JUMP", "JCOND", "GETFL", "SETFL",
                    "GETSR", "SETSR", "RET", "FAKEIT", "FLAGSJ", "WAIT", "PAUSE", "BREAK", "IRET",
                    "PHLOAD", "PHSTORE", "VTRAN", "DOIO", "UNIMP"}
  <2>1. OpHalt(t, c) \/ OpDiv(i, v, t, c) \/ OpJcond(i, v, t, c) => UNCHANGED mem
    BY <1>2, <1>3, <1>4 DEF OpHalt, OpDiv, OpJcond, SetFlags
  <2>2. OpGetFl(i, v, t, c) \/ OpSetFl(i, v, t, c) \/ OpSetSr(i, v, t, c) => UNCHANGED mem
    BY <1>2, <1>4 DEF OpGetFl, OpSetFl, OpSetSr, SetFlags
  <2>3. OpRet(t, c) \/ OpIret(t, c) \/ OpPhload(i, t, c) \/ OpPhstore(i, t, c) => UNCHANGED mem
    BY <1>2, <1>3 DEF OpRet, OpIret, OpPhload, OpPhstore
  <2>4. OpVtran(i, v, t, c) \/ OpDoio(i, v, t, c) => UNCHANGED mem
    BY <1>2, <1>3 DEF OpVtran, OpDoio
  <2> QED
    BY <1>1, <1>2, <1>3, <1>4, <1>5, <2>1, <2>2, <2>3, <2>4 DEF Perform, SetFlags
\* a word at the instruction's address
<1>6. CASE i.op \in {"STORE", "ATAS"}
  <2>1. ASSUME NEW w, WriteOperand(i, w, t, c) PROVE Protected
    BY <1>1, <1>2, <1>3, <2>1, StoredProtected DEF WriteOperand
  <2>2. ASSUME OpAtas(i, v, t, c) PROVE Protected
    BY <1>1, <1>2, <2>2, StoredProtected DEF OpAtas
  <2> QED
    BY <1>6, <2>1, <2>2 DEF Perform
\* a word on the stack, or from it
<1>7. CASE i.op \in {"PUSH", "CALL", "POP"}
  <2>1. Wrap(Operand(SP) - 1) \in Word
    BY <1>0, WrapType, WordInt
  <2>2. ASSUME NEW p, NEW w, OpPush(p, w, t, c) PROVE Protected
    BY <1>1, <1>2, <2>1, <2>2, StoredProtected DEF OpPush
  <2>3. ASSUME OpPop(i, t, c) PROVE Protected
    <3>1. UNCHANGED mem \/ (WriteFault(effective_address) = "NONE"
                            /\ Stored(effective_address, MemRead(Operand(SP)), t, c))
      BY <1>2, <2>3 DEF OpPop
    <3> QED
      BY <1>1, <3>1, StoredProtected
  <2> QED
    BY <1>7, <2>2, <2>3 DEF Perform
\* a frame
<1>8. CASE i.op = "SYSCALL"
  BY <1>0, <1>1, <1>2, <1>8, PushFrameProtected DEF Perform, OpSyscall
<1>9. CASE i.op = "MOVE"
  BY <1>9, MoveProtected DEF Perform
<1> QED
  BY <1>0, <1>5, <1>6, <1>7, <1>8, <1>9 DEF Ops

LEMMA ExecuteProtected ==
  ASSUME TypeOK, ~fl.SYS, NEW c0 \in Codes, Execute(c0) PROVE Protected
<1> DEFINE t == Ticked
           e == effective_address
           c1 == Expired(c0, t)
           c2 == IF current.ind /\ Fault(e) # "NONE" THEN Fault(e) ELSE c1
           v == IF ~current.ind THEN e ELSE IF c2 # "NONE" THEN 0 ELSE MemRead(e)
<1>0. Ready /\ current \in Instr /\ e \in Word
  BY DEF TypeOK, LoopOK, InstrOK, Ready
<1>1. t \in Word
  BY WordSizeAssumption DEF Ticked, TypeOK, MachineOK, SpecialOK, Word
<1>2. v \in Word
  <2> HIDE DEF c2
  <2> QED
    BY TranslateType, WordInt DEF TypeOK, InstrOK
<1>3. CASE PrepareInterrupt(c1, t, FALSE) \/ PrepareInterrupt(c2, t, FALSE)
  BY <1>0, <1>3, InterruptProtected
<1>4. CASE Perform(current, v, t, c2)
  <2> HIDE DEF c2, t, v
  <2> QED
    BY <1>0, <1>1, <1>2, <1>4, PerformProtected
<1> QED
  BY <1>3, <1>4 DEF Execute

LEMMA NextProtected == ASSUME TypeOK, Next, ~fl.SYS PROVE Protected
<1>0. Ready /\ interrupt_code \in Codes
  BY DEF TypeOK, LoopOK, Ready, MachineOK
<1>1. UNCHANGED mem => Protected
  BY DEF Protected
\* steps that execute an instruction
<1>2. CASE RunExecute
  <2>1. Raised \in Codes
    BY <1>0 DEF Raised, Codes, Intr
  <2> QED
    BY <1>1, <1>2, <2>1, ExecuteProtected DEF RunExecute, processor
<1>3. CASE AutoStep \/ CountedStep \/ CommandStep
  BY <1>0, <1>3, ExecuteProtected DEF AutoStep, CountedStep, CommandStep, StepExecute
\* steps that fetch one or deliver an interrupt
<1>4. ASSUME NEW was, Fetch(was) PROVE Protected
  BY <1>0, <1>1, <1>4, InterruptProtected DEF Fetch
<1>5. CASE RunFetch \/ StepFetch \/ StepRefetch
  BY <1>1, <1>4, <1>5 DEF RunFetch, StepFetch, StepRefetch, processor
<1>6. CASE RunPost \/ StepDeliver
  BY <1>0, <1>1, <1>6, InterruptProtected DEF RunPost, StepDeliver
\* the loop, the monitor and the signals
<1>7. CASE StopAtTop \/ Debinfo \/ PostDebinfo \/ ToPrompt \/ OpenPrompt \/ PromptControlC
           \/ Sigio \/ Sigint
  BY <1>1, <1>7 DEF StopAtTop, Debinfo, PostDebinfo, ShowOperand, ToPrompt, OpenPrompt,
                    PromptControlC, Sigio, Sigint, Signalled, processor
<1>8. CASE \/ CommandPause \/ CommandExit
           \/ \E n \in Counts : CommandStepFirst(n) \/ CommandStepMany(n) \/ CommandRun(n)
  BY <1>1, <1>8 DEF CommandPause, CommandExit, CommandStepFirst, CommandStepMany, CommandRun, Idle
<1> QED
  BY <1>2, <1>3, <1>5, <1>6, <1>7, <1>8 DEF Next, Loop, Monitor

\* With virtual memory on, whatever a step of user mode writes - a store, a
\* push, each word that MOVE copies, the frame of an interrupt or a system
\* call, half a frame that faults - it writes through translate() to a page
\* that is resident and not the system's, for every page table.
THEOREM PagesAreProtected == Spec => PagesProtected
<1>1. TypeOK /\ [Next]_vars => [~fl.SYS => Protected]_vars
  BY NextProtected
<1>2. TypeOK /\ [Next]_vars =>
      [~fl.SYS /\ fl.VM => \A a \in Word : mem'[a] # mem[a] =>
         \E b \in Word : Fault(b) = "NONE" /\ Translate(b) = a]_vars
  BY <1>1 DEF Protected, Reached
<1> QED
  BY <1>2, TypeCorrect, PTL DEF Spec, PagesProtected
=============================================================================
