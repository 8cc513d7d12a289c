----------------------------- MODULE Processor -----------------------------
(***************************************************************************)
(* The emulated processor of EEN521/emulator/computer.cpp: fetch(),        *)
(* execute(), prepare_interrupt(), address translation, the two register   *)
(* banks, and the command loop of main() that drives them in run mode and  *)
(* in single-step mode.                                                    *)
(*                                                                         *)
(* The machine is the real one made small.  Words are the integers modulo  *)
(* WordSize; NREG registers stand for sixteen; one page directory entry is *)
(* used; a frame holds the registers and the flags, the three words of     *)
(* interrupt detail in between are left out, and so are the flags N and    *)
(* ERR, which the code treats as it treats Z.  An instruction is a record  *)
(* instead of bit fields, and opcodes that differ only in the arithmetic   *)
(* they perform share one representative.                                  *)
(*                                                                         *)
(* A step is what the C++ code does between two places at which a signal   *)
(* handler's effect (SIGIO, SIGINT) can be noticed.                        *)
(***************************************************************************)
EXTENDS Integers, FiniteSets

CONSTANTS
  WordSize,     \* words are 0 .. WordSize-1 (2^32 in the code)
  PageSize,     \* words in a page (2048 in the code)
  Ram,          \* the physical addresses that system.setup gives memory
  Vector,       \* the interrupt vector in memory: interrupt -> handler
  CallGate,     \* the handler of system call 0, the only one (sr_cglen = 1)
  Code,         \* address -> the instructions that may be found there
  WaitTicks,    \* what WAIT and PAUSE take off the timer (50000)
  MoveTicks,    \* words MOVE copies for one tick of the timer (50)
  Counts,       \* the counts a user gives to "step n" and "run n"
  Commands,     \* the monitor commands the user types
  Signals,      \* the signals that may arrive
  InitState     \* possible initial memory, registers and flags: see Init

R0 == 0
SP == 1
FP == 2
PC == 3
NREG == 4
RegNum == 0 .. NREG - 1
FrameSize == NREG + 1

Word == 0 .. WordSize - 1
Regs == [RegNum -> Word]
Flags == [R : BOOLEAN, Z : BOOLEAN, SYS : BOOLEAN, IP : BOOLEAN, VM : BOOLEAN]
NumFlags == 5
Ops == {"HALT", "LOAD", "ADD", "DIV", "COMP", "STORE", "JUMP", "JCOND",
        "GETFL", "SETFL", "GETSR", "SETSR", "PUSH", "POP", "CALL", "RET",
        "DOIO", "FAKEIT", "FLAGSJ", "WAIT", "PAUSE", "BREAK", "IRET",
        "SYSCALL", "ATAS", "PHLOAD", "PHSTORE", "VTRAN", "MOVE", "UNIMP"}
Instr == [op : Ops, reg : RegNum, idx : RegNum, ind : BOOLEAN, num : Word]
HaltInstr == [op |-> "HALT", reg |-> 0, idx |-> 0, ind |-> FALSE, num |-> 0]
Intr == {"MEMORY", "PAGEFAULT", "UNIMPOP", "HALT", "DIVZERO", "UNWROP",
         "TIMER", "PRIVOP", "KEYBD", "BADCALL", "PAGEPRIV", "DEBUG", "INTRFAULT"}
Maskable == {"TIMER", "KEYBD"}
Phases == {"top", "exec", "post", "refetch", "debinfo", "prompt", "wait",
           "postdebinfo", "counted", "off"}

ASSUME WordSizeAssumption == WordSize \in Nat /\ WordSize >= 32
ASSUME PageAssumption == PageSize \in Nat /\ PageSize >= 4 /\ Ram \subseteq Word
ASSUME VectorAssumption == Vector \in [Intr -> Word] /\ CallGate \in Word
ASSUME CodeAssumption == /\ Code \in [Word -> SUBSET Instr]
                         /\ \A a \in Word : Code[a] # {}
ASSUME TickAssumption == WaitTicks \in Nat /\ MoveTicks \in Nat \ {0}
ASSUME MonitorAssumption ==
  /\ Counts \subseteq Nat
  /\ Commands \subseteq {"step", "run", "pause", "x", "exit"}
  /\ Signals \subseteq {"SIGIO", "SIGINT"}
ASSUME InitAssumption ==
  InitState \subseteq [mem : [Word -> Word], reg : Regs, syssp : Word, fl : Flags,
                       pdbr : Word, intvec : Word, cgbr : Word, debug : Word,
                       timer : Word]

VARIABLES
  reg,                  \* _registers[], the user bank
  sr_syssp, sr_sysfp,   \* the system's SP and FP
  fl,                   \* flr, flz, flsys, flip, flvm
  sr_pdbr, sr_intvec, sr_cgbr, sr_debug,
  sr_timer,
  mem,                  \* physical memory
  interrupt_code, interrupted,
  current, effective_address,
  runwild, stepping, countdown,
  control_c, kbd_rdy, controlccount,
  phase                 \* where main() is in its loop

bank  == <<reg, sr_syssp, sr_sysfp>>
sregs == <<sr_pdbr, sr_intvec, sr_cgbr, sr_debug>>
instr == <<current, effective_address>>
mode  == <<runwild, stepping, countdown>>
sigs  == <<control_c, kbd_rdy, controlccount>>
vars  == <<bank, fl, sregs, sr_timer, mem, interrupt_code, interrupted,
           instr, mode, sigs, phase>>

-----------------------------------------------------------------------------
(* Words, registers, flags.                                                *)

\* (The operators marked "slip" are mistakes that could be made in the
\* definition below them.  Nothing uses them; a run must notice each.)

\* slip: a register wider than a word
WrapNever(n) == n
Wrap(n) == n % WordSize
Negative(w) == 2 * w >= WordSize

\* computer::registers(r): in system mode SP and FP name the system's pair.
Registers(r) == IF fl.SYS /\ r = SP THEN sr_syssp
                ELSE IF fl.SYS /\ r = FP THEN sr_sysfp
                ELSE reg[r]

\* A register as an instruction sees it, after "pc+=1".
NextPC == Wrap(reg[PC] + 1)
Operand(r) == IF r = PC THEN NextPC ELSE Registers(r)

\* PC becomes p, and the registers in the domain of f become what f says,
\* all through registers() and so in the current bank.
SetRegisters(p, f) ==
  LET banked == IF fl.SYS THEN {SP, FP} ELSE {}
  IN /\ reg' = [r \in RegNum |-> IF r \in DOMAIN f \ banked THEN f[r]
                                 ELSE IF r = PC THEN p ELSE reg[r]]
     /\ sr_syssp' = IF SP \in DOMAIN f \cap banked THEN f[SP] ELSE sr_syssp
     /\ sr_sysfp' = IF FP \in DOMAIN f \cap banked THEN f[FP] ELSE sr_sysfp
SetRegister(r, v) == SetRegisters(NextPC, [x \in {r} |-> v])
Advance == reg' = [reg EXCEPT ![PC] = NextPC] /\ UNCHANGED <<sr_syssp, sr_sysfp>>

Bit(b, mask) == IF b THEN mask ELSE 0
HasBit(w, mask) == (w \div mask) % 2 = 1
CombineFlags(f) == Bit(f.R, 1) + Bit(f.Z, 2) + Bit(f.SYS, 4) + Bit(f.IP, 8) + Bit(f.VM, 16)
DecombineFlags(w) == [R |-> HasBit(w, 1), Z |-> HasBit(w, 2), SYS |-> HasBit(w, 4),
                      IP |-> HasBit(w, 8), VM |-> HasBit(w, 16)]

-----------------------------------------------------------------------------
(* Memory.  A page table entry holds the address of a page frame, and in   *)
(* its low bits RES (1) and SYS (2).                                       *)

PhysicalRead(a) == IF a \in Ram THEN mem[a] ELSE 0
PageStart(a) == a - (a % PageSize)
PageTable == PhysicalRead(sr_pdbr)
PageEntry(a) == PhysicalRead(Wrap(PageStart(PageTable) + (a \div PageSize)))

\* computer::translate: the interrupt it raises, and the address it returns
Fault(a) ==
  IF ~fl.VM THEN "NONE"
  ELSE IF PageTable = 0 \/ ~HasBit(PageEntry(a), 1) THEN "PAGEFAULT"
  ELSE IF HasBit(PageEntry(a), 2) /\ ~fl.SYS THEN "PAGEPRIV"
  ELSE "NONE"
Translate(a) ==
  IF ~fl.VM THEN a
  ELSE IF Fault(a) # "NONE" THEN 0
  ELSE Wrap(PageStart(PageEntry(a)) + (a % PageSize))

WriteFault(a) == IF Fault(a) = "NONE" /\ Translate(a) \notin Ram THEN "MEMORY" ELSE Fault(a)
MemRead(a) == IF Fault(a) = "NONE" THEN PhysicalRead(Translate(a)) ELSE 0
MemWrite(a, v) == mem' = [mem EXCEPT ![Translate(a)] = v]

-----------------------------------------------------------------------------
(* Interrupt frames.  Word i of a frame, 1 .. FrameSize, lies i words      *)
(* below the system stack pointer: the registers of the current bank, with *)
(* pc for PC, then the flags.  A page table is never inside a frame.       *)

\* slip: the interrupted instruction is skipped
FrameSkipping(pc) == [i \in 1 .. FrameSize |->
                        IF i = FrameSize THEN CombineFlags(fl)
                        ELSE IF i - 1 = PC THEN NextPC ELSE Registers(i - 1)]
Frame(pc) == [i \in 1 .. FrameSize |->
                IF i = FrameSize THEN CombineFlags(fl)
                ELSE IF i - 1 = PC THEN pc ELSE Registers(i - 1)]
\* slip: the first word goes to where SP points
FrameAddrHigh(i) == Wrap(sr_syssp - i + 1)
FrameAddr(i) == Wrap(sr_syssp - i)
PushFault(i) == WriteFault(FrameAddr(i))
Pushable(i) == \A j \in 1 .. i : PushFault(j) = "NONE"
FramePushed == Pushable(FrameSize)
FrameFault == PushFault(CHOOSE i \in 1 .. FrameSize :
                          PushFault(i) # "NONE" /\ \A j \in 1 .. i - 1 : PushFault(j) = "NONE")

\* the pushes, in order, up to the first that faults
\* slip: the push does not ask for permission
PushWordUnchecked(m, i, fr) == [m EXCEPT ![FrameAddr(i)] = fr[i]]
PushWord(m, i, fr) == IF Pushable(i) THEN [m EXCEPT ![Translate(FrameAddr(i))] = fr[i]] ELSE m
PushFrame(fr) ==
  mem' = PushWord(PushWord(PushWord(PushWord(PushWord(mem, 1, fr), 2, fr), 3, fr), 4, fr), 5, fr)

\* computer::prepare_interrupt(ic); the timer holds t and interrupted was
\* `was'.  When the frame cannot be pushed, or there is no handler, the
\* INTRFAULT handler is entered; without that one the processor stops.
PrepareInterrupt(ic, t, was) ==
  LET vecok == sr_intvec # 0 /\ Fault(sr_intvec) = "NONE"
      first == IF vecok /\ FramePushed THEN Vector[ic] ELSE 0
      dest  == IF first # 0 THEN first ELSE IF vecok THEN Vector["INTRFAULT"] ELSE 0
  IN /\ sr_timer' = IF ic = "TIMER" THEN 0 ELSE t
     /\ interrupt_code' = "NONE"
     /\ interrupted' = (was \/ first = 0)
     /\ IF vecok THEN PushFrame(Frame(reg[PC])) ELSE UNCHANGED mem
     /\ IF dest = 0
        THEN /\ fl' = [fl EXCEPT !.R = FALSE]
             /\ UNCHANGED <<reg, sr_syssp>>
        ELSE /\ fl' = [fl EXCEPT !.SYS = TRUE, !.IP = TRUE]
             /\ reg' = [reg EXCEPT ![PC] = dest]
             /\ sr_syssp' = Wrap(sr_syssp - FrameSize)
     /\ UNCHANGED <<sr_sysfp, sregs>>

-----------------------------------------------------------------------------
(* computer::fetch().  An interrupt it finds is delivered at once, and     *)
(* current_instruction keeps whatever it held.                             *)

EffectiveAddress(i) == IF i.idx = R0 THEN i.num ELSE Wrap(i.num + Operand(i.idx))

CountDown ==
  /\ countdown' = IF countdown > 0 THEN countdown - 1 ELSE 0
  /\ runwild' = (runwild /\ countdown # 1)
  /\ stepping' = (stepping \/ (runwild /\ countdown = 1))

Fetch(was) ==
  /\ CountDown
  /\ \/ /\ reg[PC] = sr_debug /\ ~fl.IP
        /\ PrepareInterrupt("DEBUG", sr_timer, was)
        /\ UNCHANGED instr
     \/ /\ ~(reg[PC] = sr_debug /\ ~fl.IP)
        /\ Fault(reg[PC]) # "NONE"
        /\ PrepareInterrupt(Fault(reg[PC]), sr_timer, was)
        /\ UNCHANGED instr
     \/ /\ ~(reg[PC] = sr_debug /\ ~fl.IP)
        /\ Fault(reg[PC]) = "NONE"
        /\ \E i \in Code[reg[PC]] :
             LET e == EffectiveAddress(i)
             IN /\ current' = i
                /\ effective_address' = e
                /\ IF i.ind /\ Fault(e) # "NONE"
                   THEN PrepareInterrupt(Fault(e), sr_timer, was)
                   ELSE /\ interrupt_code' = "NONE"
                        /\ interrupted' = was
                        /\ UNCHANGED <<bank, fl, sregs, sr_timer, mem>>

-----------------------------------------------------------------------------
(* The cases of execute()'s switch.  i is the instruction, v its operand,  *)
(* t the timer, and c the interrupt code on entry, which an instruction    *)
(* that does not fault leaves alone.  kbd is kbd_rdy after the instruction.*)

Kept == UNCHANGED <<sregs, kbd_rdy>>
\* PC moves on, an interrupt is raised, and nothing else happens
Refuse(code, t) == /\ Advance
                   /\ interrupt_code' = code /\ sr_timer' = t
                   /\ UNCHANGED <<fl, mem>> /\ Kept
\* the instruction's result goes to register r
Result(r, v, t, c) == /\ SetRegister(r, v)
                      /\ interrupt_code' = c /\ sr_timer' = t
                      /\ UNCHANGED <<fl, mem>> /\ Kept
Goto(a, f, t, c) == /\ SetRegisters(a, <<>>)
                    /\ fl' = f
                    /\ interrupt_code' = c /\ sr_timer' = t
                    /\ UNCHANGED mem /\ Kept
SetFlags(f, t, c) == Goto(NextPC, f, t, c)
Stored(a, v, t, c) == /\ MemWrite(a, v)
                      /\ interrupt_code' = c /\ sr_timer' = t
                      /\ UNCHANGED fl /\ Kept

\* write_operand: to memory, to the index register when number is 0, or UNWROP
WriteOperand(i, v, t, c) ==
  \/ /\ i.ind /\ WriteFault(effective_address) = "NONE"
     /\ Stored(effective_address, v, t, c) /\ Advance
  \/ i.ind /\ WriteFault(effective_address) # "NONE" /\ Refuse(WriteFault(effective_address), t)
  \/ ~i.ind /\ i.num = 0 /\ Result(i.idx, v, t, c)
  \/ ~i.ind /\ i.num # 0 /\ Refuse("UNWROP", t)

OpHalt(t, c) == IF fl.SYS THEN SetFlags([fl EXCEPT !.R = FALSE], t, c)
                ELSE Refuse("HALT", t)
OpDiv(i, v, t, c) == IF v = 0 THEN Refuse("DIVZERO", t)
                     ELSE Result(i.reg, Wrap(Operand(i.reg) \div v), t, c)
OpJcond(i, v, t, c) == CASE i.reg = 0 -> Goto(IF fl.Z THEN v ELSE NextPC, fl, t, c)
                         [] i.reg = 1 -> Goto(IF fl.Z THEN NextPC ELSE v, fl, t, c)
                         [] OTHER     -> Refuse("UNIMPOP", t)

FlagName == <<"R", "Z", "SYS", "IP", "VM">>
Flag(n) == IF n < NumFlags THEN fl[FlagName[n + 1]] ELSE FALSE
OpGetFl(i, v, t, c) == /\ SetRegister(i.reg, Bit(Flag(v), 1))
                       /\ fl' = [fl EXCEPT !.Z = Flag(v)]
                       /\ interrupt_code' = c /\ sr_timer' = t
                       /\ UNCHANGED mem /\ Kept
\* Z is the one user flag kept here
\* slip: any flag may be set in user mode
OpSetFlUnchecked(i, v, t, c) ==
  SetFlags(IF v < NumFlags THEN [fl EXCEPT ![FlagName[v + 1]] = Operand(i.reg) # 0] ELSE fl, t, c)
OpSetFl(i, v, t, c) ==
  IF v # 1 /\ ~fl.SYS THEN Refuse("PRIVOP", t)
  ELSE SetFlags(IF v < NumFlags THEN [fl EXCEPT ![FlagName[v + 1]] = Operand(i.reg) # 0]
                ELSE fl, t, c)

SpecialRegister(s, t) ==
  CASE s = 0 -> CombineFlags(fl) [] s = 1 -> sr_pdbr  [] s = 2 -> sr_intvec
    [] s = 3 -> sr_cgbr          [] s = 4 -> sr_debug [] s = 5 -> t
    [] s = 6 -> sr_syssp         [] s = 7 -> sr_sysfp [] OTHER -> 0
OpSetSr(i, s, t, c) ==
  IF ~fl.SYS THEN Refuse("PRIVOP", t)
  ELSE LET v == Operand(i.reg)
       IN /\ reg' = [reg EXCEPT ![PC] = NextPC]
          /\ fl'        = IF s = 0 THEN DecombineFlags(v) ELSE fl
          /\ sr_pdbr'   = IF s = 1 THEN v ELSE sr_pdbr
          /\ sr_intvec' = IF s = 2 THEN v ELSE sr_intvec
          /\ sr_cgbr'   = IF s = 3 THEN v ELSE sr_cgbr
          /\ sr_debug'  = IF s = 4 THEN v ELSE sr_debug
          /\ sr_timer'  = IF s = 5 THEN v ELSE t
          /\ sr_syssp'  = IF s = 6 THEN v ELSE sr_syssp
          /\ sr_sysfp'  = IF s = 7 THEN v ELSE sr_sysfp
          /\ interrupt_code' = c
          /\ UNCHANGED <<mem, kbd_rdy>>

\* The stack of the current mode.  A fault leaves the stack pointer alone.
OpPush(pc, v, t, c) ==
  LET a == Wrap(Operand(SP) - 1)
  IN IF WriteFault(a) # "NONE" THEN Refuse(WriteFault(a), t)
     ELSE Stored(a, v, t, c) /\ SetRegisters(pc, [x \in {SP} |-> a])
OpRet(t, c) ==
  LET a == Operand(SP)
  IN IF Fault(a) # "NONE" THEN Refuse(Fault(a), t)
     ELSE /\ SetRegisters(MemRead(a), [x \in {SP} |-> Wrap(a + 1)])
          /\ interrupt_code' = c /\ sr_timer' = t
          /\ UNCHANGED <<fl, mem>> /\ Kept
OpPop(i, t, c) ==
  LET a == Operand(SP)
      v == MemRead(a)
      e == effective_address
  IN IF Fault(a) # "NONE" THEN Refuse(Fault(a), t)
     ELSE IF ~i.ind /\ i.num # 0 THEN Refuse("UNWROP", t)
     ELSE IF ~i.ind
     THEN /\ SetRegisters(NextPC, [x \in {SP, i.idx} |->
               IF x = SP THEN Wrap((IF i.idx = SP THEN v ELSE a) + 1) ELSE v])
          /\ interrupt_code' = c /\ sr_timer' = t
          /\ UNCHANGED <<fl, mem>> /\ Kept
     ELSE IF WriteFault(e) # "NONE" THEN Refuse(WriteFault(e), t)
     ELSE Stored(e, v, t, c) /\ SetRegisters(NextPC, [x \in {SP} |-> Wrap(a + 1)])

\* WAIT and PAUSE: "if (sr_timer>0) { sr_timer-=50000; if (sr_timer<2) sr_timer=2; }"
\* slip: it is held at zero
WaitedAway(t) == IF t < WaitTicks THEN 0 ELSE t - WaitTicks
Waited(t) == IF t = 0 THEN 0 ELSE IF t - WaitTicks < 2 THEN 2 ELSE t - WaitTicks

OpIret(t, c) ==
  LET word(i) == MemRead(Wrap(sr_syssp + i))
      faults == {i \in 0 .. NREG : Fault(Wrap(sr_syssp + i)) # "NONE"}
      \* flags first, then registers 0, 1, .. from the top of the frame down
      firstbad == IF 0 \in faults THEN 0 ELSE CHOOSE i \in faults : \A j \in faults : j <= i
      f == DecombineFlags(word(0))
      r == [n \in RegNum |-> word(NREG - n)]
  IN IF ~fl.SYS THEN Refuse("PRIVOP", t)
     ELSE IF faults # {} THEN Refuse(Fault(Wrap(sr_syssp + firstbad)), t)
     ELSE /\ reg' = [n \in RegNum |-> IF f.SYS /\ n \in {SP, FP} THEN reg[n] ELSE r[n]]
          /\ sr_sysfp' = IF f.SYS THEN r[FP] ELSE sr_sysfp
          /\ sr_syssp' = Wrap(sr_syssp + FrameSize)
          /\ fl' = f
          /\ interrupt_code' = c /\ sr_timer' = t
          /\ UNCHANGED mem /\ Kept

OpSyscall(v, t, c) ==
  IF v # 0 \/ sr_cgbr = 0 THEN Refuse("BADCALL", t)
  ELSE IF Fault(sr_cgbr) # "NONE" THEN Refuse(Fault(sr_cgbr), t)
  ELSE /\ PushFrame(Frame(NextPC))
       /\ IF FramePushed
          THEN /\ reg' = [reg EXCEPT ![PC] = CallGate]
               /\ sr_syssp' = Wrap(sr_syssp - FrameSize)
               /\ fl' = [fl EXCEPT !.SYS = TRUE]
               /\ interrupt_code' = c
               /\ UNCHANGED sr_sysfp
          ELSE Advance /\ interrupt_code' = FrameFault /\ UNCHANGED fl
       /\ sr_timer' = t /\ Kept

\* write_operand(1), and the register receives the old value unless that faults
OpAtas(i, v, t, c) ==
  \/ /\ i.ind /\ WriteFault(effective_address) = "NONE"
     /\ Stored(effective_address, 1, t, c) /\ SetRegister(i.reg, v)
  \/ i.ind /\ WriteFault(effective_address) # "NONE" /\ Refuse(WriteFault(effective_address), t)
  \/ /\ ~i.ind /\ i.num = 0
     /\ SetRegisters(NextPC, [x \in {i.idx, i.reg} |-> IF x = i.reg THEN v ELSE 1])
     /\ interrupt_code' = c /\ sr_timer' = t
     /\ UNCHANGED <<fl, mem>> /\ Kept
  \/ ~i.ind /\ i.num # 0 /\ Refuse("UNWROP", t)

OpPhload(i, t, c) == IF ~fl.SYS THEN Refuse("PRIVOP", t)
                     ELSE Result(i.reg, PhysicalRead(effective_address), t, c)
OpPhstore(i, t, c) ==
  IF ~fl.SYS THEN Refuse("PRIVOP", t)
  ELSE IF effective_address \notin Ram THEN Refuse("MEMORY", t)
  ELSE /\ mem' = [mem EXCEPT ![effective_address] = Operand(i.reg)]
       /\ Advance
       /\ interrupt_code' = c /\ sr_timer' = t
       /\ UNCHANGED fl /\ Kept
OpVtran(i, v, t, c) == Result(i.reg, Translate(v), t, IF Fault(v) = "NONE" THEN c ELSE Fault(v))

\* MOVE copies until it is done, a word faults, or the timer has run down to
\* 2; then it leaves the registers ready to go on and PC where it was.  No
\* frame is mapped twice and no page table copied over.
OpMove(i, v, t, c) ==
  IF i.ind \/ i.num # 0 THEN Refuse("UNIMPOP", t)
  ELSE LET n == IF Negative(Operand(R0)) THEN 0 ELSE Operand(R0)
           src(k) == Wrap(Operand(i.reg) + k)
           dst(k) == Wrap(v + k)
           good(k) == Fault(src(k)) = "NONE" /\ WriteFault(dst(k)) = "NONE"
           stop == IF t >= 2 /\ MoveTicks * (t - 1) < n THEN MoveTicks * (t - 1) ELSE n
           done == Cardinality({k \in 0 .. stop - 1 : \A j \in 0 .. k : good(j)})
           code == IF done = stop THEN c
                   ELSE IF Fault(src(done)) # "NONE" THEN Fault(src(done)) ELSE WriteFault(dst(done))
           \* word k comes from where word k % gap came from when dst
           \* overlaps the source from above
           gap == Wrap(v - Operand(i.reg))
           root(k) == IF gap # 0 /\ gap <= k THEN k % gap ELSE k
           written(a) == {k \in 0 .. done - 1 : Translate(dst(k)) = a}
           spent == IF done < stop THEN done \div MoveTicks
                    ELSE IF done > 0 THEN (done - 1) \div MoveTicks ELSE 0
           back == IF done < n THEN reg[PC] ELSE NextPC
       IN /\ SetRegisters(back, [x \in {R0, i.reg, i.idx} \ {PC} |->
               IF x = i.idx THEN dst(done) ELSE IF x = i.reg THEN src(done)
               ELSE Wrap(Operand(R0) - done)])
          /\ mem' = [a \in Word |-> IF written(a) = {} THEN mem[a]
                                    ELSE MemRead(src(root(CHOOSE k \in written(a) : TRUE)))]
          /\ sr_timer' = IF t <= 2 THEN t ELSE IF t - spent < 2 THEN 2 ELSE t - spent
          /\ interrupt_code' = code
          /\ UNCHANGED fl /\ Kept

\* DOIO here is a terminal read: it may drain the keyboard
OpDoio(i, v, t, c) ==
  IF Fault(v) # "NONE" THEN Refuse(Fault(v), t)
  ELSE IF ~fl.SYS THEN Refuse("PRIVOP", t)
  ELSE /\ \E w \in {0, 1} : SetRegister(i.reg, w)
       /\ kbd_rdy' \in {kbd_rdy, FALSE}
       /\ interrupt_code' = c /\ sr_timer' = t
       /\ UNCHANGED <<fl, sregs, mem>>

Perform(i, v, t, c) ==
  CASE i.op = "HALT"    -> OpHalt(t, c)
    [] i.op = "LOAD"    -> Result(i.reg, v, t, c)
    [] i.op = "ADD"     -> Result(i.reg, Wrap(Operand(i.reg) + v), t, c)
    [] i.op = "DIV"     -> OpDiv(i, v, t, c)
    [] i.op = "COMP"    -> SetFlags([fl EXCEPT !.Z = (Operand(i.reg) = v)], t, c)
    [] i.op = "STORE"   -> WriteOperand(i, Operand(i.reg), t, c)
    [] i.op = "JUMP"    -> Goto(v, fl, t, c)
    [] i.op = "JCOND"   -> OpJcond(i, v, t, c)
    [] i.op = "GETFL"   -> OpGetFl(i, v, t, c)
    [] i.op = "SETFL"   -> OpSetFl(i, v, t, c)
    [] i.op = "GETSR"   -> Result(i.reg, SpecialRegister(v, t), t, c)
    [] i.op = "SETSR"   -> OpSetSr(i, v, t, c)
    [] i.op = "PUSH"    -> OpPush(NextPC, v, t, c)
    [] i.op = "POP"     -> OpPop(i, t, c)
    [] i.op = "CALL"    -> OpPush(v, NextPC, t, c)
    [] i.op = "RET"     -> OpRet(t, c)
    [] i.op = "DOIO"    -> OpDoio(i, v, t, c)
    [] i.op = "FAKEIT"  -> SetFlags(fl, t, c)
    [] i.op = "FLAGSJ"  -> IF fl.SYS THEN Goto(v, DecombineFlags(Operand(i.reg)), t, c)
                           ELSE Refuse("PRIVOP", t)
    [] i.op = "WAIT"    -> Goto(reg[PC], fl, Waited(t), c)
    [] i.op = "PAUSE"   -> SetFlags(fl, Waited(t), c)
    [] i.op = "BREAK"   -> Goto(IF ~stepping \/ countdown > 0 THEN reg[PC] ELSE NextPC, fl, t, c)
    [] i.op = "IRET"    -> OpIret(t, c)
    [] i.op = "SYSCALL" -> OpSyscall(v, t, c)
    [] i.op = "ATAS"    -> OpAtas(i, v, t, c)
    [] i.op = "PHLOAD"  -> OpPhload(i, t, c)
    [] i.op = "PHSTORE" -> OpPhstore(i, t, c)
    [] i.op = "VTRAN"   -> OpVtran(i, v, t, c)
    [] i.op = "MOVE"    -> OpMove(i, v, t, c)
    [] i.op = "UNIMP"   -> Refuse("UNIMPOP", t)

-----------------------------------------------------------------------------
(* computer::execute(), with the interrupt code c0 on entry.               *)

Stop == runwild' = FALSE /\ stepping' = FALSE /\ UNCHANGED countdown
BreakMode == /\ runwild' = FALSE
             /\ stepping' = TRUE
             /\ countdown' = 0

Ticked == IF sr_timer > 1 THEN sr_timer - 1 ELSE sr_timer
\* slip: the timer is taken to expire at 0
ExpiredAtZero(c, t) == IF c = "NONE" /\ t = 0 THEN "TIMER" ELSE c
Expired(c, t) == IF c = "NONE" /\ t = 1 THEN "TIMER" ELSE c

Execute(c0) ==
  LET t == Ticked
      c1 == Expired(c0, t)
      e == effective_address
      c2 == IF current.ind /\ Fault(e) # "NONE" THEN Fault(e) ELSE c1
      v == IF ~current.ind THEN e ELSE IF c2 # "NONE" THEN 0 ELSE MemRead(e)
      physical == current.op \in {"PHLOAD", "PHSTORE"}
      unhandled == c1 \notin Maskable \cup {"NONE"} /\ fl.IP
  IN \/ /\ c1 # "NONE" /\ ~fl.IP
        /\ PrepareInterrupt(c1, t, FALSE)
        /\ UNCHANGED <<mode, kbd_rdy>>
     \/ /\ c1 = "NONE" \/ fl.IP
        /\ c2 # "NONE" /\ ~physical
        /\ PrepareInterrupt(c2, t, FALSE)
        /\ IF unhandled THEN Stop ELSE UNCHANGED mode
        /\ UNCHANGED kbd_rdy
     \/ /\ c1 = "NONE" \/ fl.IP
        /\ c2 = "NONE" \/ physical
        /\ interrupted' = FALSE
        /\ Perform(current, v, t, c2)
        /\ CASE current.op = "BREAK" -> BreakMode
             [] unhandled            -> Stop
             [] OTHER                -> UNCHANGED mode

-----------------------------------------------------------------------------
(* The loop of main().                                                     *)

At(p) == phase = p
To(p) == phase' = p
processor == <<bank, fl, sregs, sr_timer, mem, instr>>
Halted == ~fl.R \/ control_c

\* "if (c.flr==false || control_c)": the keyboard is cleared and the monitor
\* takes over
StopAtTop ==
  /\ At("top") /\ Halted
  /\ kbd_rdy' = FALSE /\ control_c' = FALSE
  /\ runwild' = FALSE /\ stepping' = FALSE
  /\ To("prompt")
  /\ UNCHANGED <<processor, interrupt_code, interrupted, countdown, controlccount>>

RunFetch == /\ At("top") /\ ~Halted /\ runwild
            /\ Fetch(interrupted)
            /\ To("exec")
            /\ UNCHANGED sigs

\* slip: the keyboard is not held back while IP is on
RaisedUnmasked == IF kbd_rdy /\ interrupt_code = "NONE" THEN "KEYBD" ELSE interrupt_code
Raised == IF kbd_rdy /\ interrupt_code = "NONE" /\ ~fl.IP THEN "KEYBD" ELSE interrupt_code

RunExecute ==
  /\ At("exec")
  /\ IF control_c
     THEN /\ runwild' = FALSE /\ stepping' = TRUE
          /\ To("top")
          /\ UNCHANGED <<processor, interrupt_code, interrupted, countdown, kbd_rdy>>
     ELSE /\ Execute(Raised)
          /\ To("post")
          /\ UNCHANGED instr
  /\ UNCHANGED <<control_c, controlccount>>

RunPost ==
  /\ At("post")
  /\ IF interrupt_code \notin Maskable \cup {"NONE"} /\ fl.IP
     THEN /\ runwild' = FALSE /\ stepping' = TRUE
          /\ PrepareInterrupt(interrupt_code, sr_timer, interrupted)
          /\ UNCHANGED countdown
     ELSE UNCHANGED <<bank, fl, sregs, sr_timer, mem, interrupt_code, interrupted, mode>>
  /\ To("top")
  /\ UNCHANGED <<instr, sigs>>

\* single steps
StepDeliver ==
  /\ At("top") /\ ~Halted /\ ~runwild /\ stepping
  /\ interrupt_code # "NONE" /\ ~fl.IP
  /\ PrepareInterrupt(interrupt_code, sr_timer, interrupted)
  /\ UNCHANGED <<instr, mode, sigs, phase>>

StepFetch ==
  /\ At("top") /\ ~Halted /\ ~runwild /\ stepping
  /\ interrupt_code = "NONE" \/ fl.IP
  /\ Fetch(interrupted)
  /\ To("refetch")
  /\ UNCHANGED sigs

StepRefetch ==
  /\ At("refetch")
  /\ IF interrupted THEN Fetch(FALSE)
     ELSE UNCHANGED <<processor, interrupt_code, interrupted, mode>>
  /\ To("debinfo")
  /\ UNCHANGED sigs

\* debinfo() and postdebinfo() read the operand again to show it
ShowOperand(p, q) ==
  /\ At(p)
  /\ interrupt_code' = IF current.ind /\ Fault(effective_address) # "NONE"
                       THEN Fault(effective_address) ELSE interrupt_code
  /\ To(q)
  /\ UNCHANGED <<processor, interrupted, mode, sigs>>
Debinfo == ShowOperand("debinfo", "prompt")
PostDebinfo == ShowOperand("postdebinfo", "top")

ToPrompt == /\ At("top") /\ ~Halted /\ ~runwild /\ ~stepping
            /\ To("prompt")
            /\ UNCHANGED <<processor, interrupt_code, interrupted, mode, sigs>>

StepExecute == /\ Execute(interrupt_code)
               /\ To("postdebinfo")
               /\ controlccount' = 0
               /\ UNCHANGED <<instr, control_c>>

\* steps still to go: no prompt
AutoStep == /\ At("prompt") /\ stepping /\ countdown > 0 /\ ~control_c
            /\ StepExecute

OpenPrompt == /\ At("prompt") /\ (~stepping \/ countdown = 0 \/ control_c)
              /\ countdown' = 0
              /\ To("wait")
              /\ UNCHANGED <<processor, interrupt_code, interrupted, runwild, stepping, sigs>>

\* control-C at the prompt stands for "x" when stepping and for an empty
\* line otherwise; the second in a row leaves the program
PromptControlC ==
  /\ At("wait") /\ control_c
  /\ kbd_rdy' = FALSE /\ control_c' = FALSE
  /\ controlccount' = IF stepping /\ controlccount = 0 THEN 0 ELSE controlccount + 1
  /\ To(IF controlccount + 1 >= 2 THEN "off" ELSE "top")
  /\ stepping' = (stepping /\ controlccount + 1 >= 2)
  /\ UNCHANGED <<processor, interrupt_code, interrupted, runwild, countdown>>

\* A command line is typed and obeyed.
\* slip: any instruction is stepped over
SkipAlways == Advance
SkipBreak == IF current.op = "BREAK" THEN Advance ELSE UNCHANGED bank
Typed(name) == At("wait") /\ ~control_c /\ name \in Commands
Idle == UNCHANGED <<fl, sregs, sr_timer, mem, instr, interrupt_code, interrupted>>
Obeyed(p) == To(p) /\ controlccount' = 0 /\ kbd_rdy' \in {kbd_rdy, FALSE} /\ UNCHANGED control_c

CommandStepFirst(n) ==
  /\ Typed("step") /\ ~stepping
  /\ fl' = [fl EXCEPT !.R = TRUE]
  /\ stepping' = TRUE /\ countdown' = n
  /\ Obeyed("top")
  /\ UNCHANGED <<bank, sregs, sr_timer, mem, instr, interrupt_code, interrupted, runwild>>
CommandStep == Typed("step") /\ stepping /\ StepExecute
\* (slip: the break is stepped over and then executed all the same)
CommandStepManyOn(n) ==
  /\ Typed("step") /\ stepping /\ n > 0
  /\ countdown' = n
  /\ IF current.op = "BREAK" THEN Advance ELSE UNCHANGED bank
  /\ Obeyed("counted") /\ Idle /\ UNCHANGED <<runwild, stepping>>
CommandStepMany(n) ==
  /\ Typed("step") /\ stepping /\ n > 0
  /\ countdown' = n
  /\ IF current.op = "BREAK"
     THEN Advance /\ Obeyed("top") /\ Idle /\ UNCHANGED <<runwild, stepping>>
     ELSE Obeyed("counted") /\ Idle /\ UNCHANGED <<bank, runwild, stepping>>
CommandRun(n) ==
  /\ Typed("run")
  /\ fl' = [fl EXCEPT !.R = TRUE]
  /\ runwild' = TRUE /\ stepping' = FALSE /\ countdown' = n
  /\ SkipBreak
  /\ Obeyed("top")
  /\ UNCHANGED <<sregs, sr_timer, mem, instr, interrupt_code, interrupted>>
CommandPause ==
  /\ Typed("pause") \/ (Typed("x") /\ stepping)
  /\ stepping' = FALSE
  /\ Obeyed("top") /\ Idle /\ UNCHANGED <<bank, runwild, countdown>>
CommandExit ==
  /\ Typed("exit") \/ (Typed("x") /\ ~stepping)
  /\ Obeyed("off") /\ Idle /\ UNCHANGED <<bank, mode>>
CountedStep == At("counted") /\ StepExecute

Signalled == UNCHANGED <<processor, interrupt_code, interrupted, mode, controlccount>>
Sigio  == /\ "SIGIO" \in Signals /\ phase # "off"
          /\ kbd_rdy' = TRUE
          /\ UNCHANGED <<control_c, phase>> /\ Signalled
Sigint == /\ "SIGINT" \in Signals /\ phase # "off"
          /\ control_c' = TRUE
          /\ IF control_c THEN To("off") ELSE UNCHANGED phase
          /\ UNCHANGED kbd_rdy /\ Signalled

\* The program has been loaded and, when fl.SYS is off, started by a kernel.
Init ==
  /\ \E s \in InitState :
       /\ mem = s.mem /\ reg = s.reg /\ fl = s.fl
       /\ sr_syssp = s.syssp /\ sr_pdbr = s.pdbr /\ sr_intvec = s.intvec
       /\ sr_cgbr = s.cgbr /\ sr_debug = s.debug /\ sr_timer = s.timer
  /\ sr_sysfp = 0
  /\ interrupt_code = "NONE" /\ interrupted = FALSE
  /\ current = HaltInstr /\ effective_address = 0
  /\ runwild \in BOOLEAN       \* the option -r
  /\ stepping = FALSE /\ countdown = 0
  /\ control_c = FALSE /\ kbd_rdy = FALSE /\ controlccount = 0
  /\ phase = "top"

Monitor == \/ PromptControlC \/ CommandStep \/ CommandPause \/ CommandExit
           \/ \E n \in Counts : CommandStepFirst(n) \/ CommandStepMany(n) \/ CommandRun(n)
Loop == \/ StopAtTop \/ RunFetch \/ RunExecute \/ RunPost
        \/ StepDeliver \/ StepFetch \/ StepRefetch \/ Debinfo \/ PostDebinfo
        \/ ToPrompt \/ AutoStep \/ CountedStep \/ OpenPrompt
Next == Loop \/ Monitor \/ Sigio \/ Sigint

Spec == Init /\ [][Next]_vars
\* main() keeps running as long as nothing is typed or signalled
FairSpec == Spec /\ WF_vars(Loop)

-----------------------------------------------------------------------------
(* Properties.                                                             *)

\* Every variable holds a value the C++ variable could hold: the registers
\* and memory hold words, the flags are bits, the phase is a place in main().
BankOK == reg \in Regs /\ sr_syssp \in Word /\ sr_sysfp \in Word
SpecialOK == {sr_pdbr, sr_intvec, sr_cgbr, sr_debug, sr_timer} \subseteq Word
Codes == Intr \cup {"NONE"}
MachineOK == /\ BankOK /\ SpecialOK
             /\ fl \in Flags
             /\ mem \in [Word -> Word]
             /\ interrupt_code \in Codes
InstrOK == current \in Instr /\ effective_address \in Word
LoopOK == /\ interrupted \in BOOLEAN
          /\ runwild \in BOOLEAN /\ stepping \in BOOLEAN /\ countdown \in Nat
          /\ control_c \in BOOLEAN /\ kbd_rdy \in BOOLEAN
          /\ phase \in Phases
          /\ controlccount \in 0 .. 2 /\ (controlccount = 2 => phase = "off")
TypeOK == MachineOK /\ InstrOK /\ LoopOK

Entries == {CallGate} \cup {Vector[ic] : ic \in Intr}

\* Protection.  A step that starts in user mode leaves the special registers,
\* the system's FP and the VM flag alone, and either stays in user mode with
\* the system stack and the IP flag as they were, or enters the system at an
\* address the vector or the call gate names, one frame down (the PRIVOP
\* tests of execute(), and prepare_interrupt() and SYSCALL).
Stays == ~fl'.SYS /\ fl'.IP = fl.IP /\ UNCHANGED sr_syssp
EntersSystem == fl'.SYS /\ reg'[PC] \in Entries /\ sr_syssp' = Wrap(sr_syssp - FrameSize)
Confined == /\ UNCHANGED <<sregs, sr_sysfp>>
            /\ fl'.VM = fl.VM
            /\ Stays \/ EntersSystem
UserConfined == [][~fl.SYS => Confined]_vars

\* Pages.  With virtual memory on, a step that starts in user mode changes
\* memory only inside frames of pages that are resident and not the system's.
PagesProtected ==
  [][~fl.SYS /\ fl.VM =>
       \A a \in Word : mem'[a] # mem[a] =>
         \E b \in Word : Fault(b) = "NONE" /\ Translate(b) = a]_vars

\* A timer that was running is not lost: it reaches zero only when the
\* processor enters the TIMER handler (or INTRFAULT's, or stops for want of
\* either), or because system code sets the register.
TimerAccounted == \/ fl'.SYS /\ fl'.IP /\ reg'[PC] \in {Vector["TIMER"], Vector["INTRFAULT"]}
                  \/ ~fl'.R
                  \/ fl.SYS /\ current.op = "SETSR"
TimerNotLost == [][sr_timer > 0 /\ sr_timer' = 0 => TimerAccounted]_vars

\* The IP flag holds the keyboard back: the KEYBD handler is entered only
\* from code that runs with IP off (main() tests flip before it raises KEYBD).
KeyboardMasked ==
  [][phase # "top" /\ reg'[PC] = Vector["KEYBD"] /\ sr_syssp' = Wrap(sr_syssp - FrameSize) => ~fl.IP]_vars

\* An interrupt the processor raises is not forgotten: the code is cleared
\* only by a step that delivers it or stops the processor.
NoInterruptLost ==
  [][interrupt_code # "NONE" /\ interrupt_code' = "NONE" =>
       (fl'.SYS /\ fl'.IP /\ sr_syssp' = Wrap(sr_syssp - FrameSize)) \/ ~fl'.R]_vars

\* The instruction executed, in run mode or in single steps, is one that was
\* fetched from PC: nothing that happens in between, at the prompt or before
\* it, leaves main() with an older one.
ExecutedWhereFetched ==
  [][phase' # phase /\ phase' \in {"post", "postdebinfo"} => current \in Code[reg[PC]]]_vars

\* A running timer is delivered: from 1 it goes to zero unless the processor
\* leaves run mode or main() ends.
TimerDelivered == (sr_timer = 1) ~> (sr_timer # 1 \/ ~runwild \/ phase = "off")

=============================================================================
