---------------------------- MODULE MCProcessor ----------------------------
(***************************************************************************)
(* Small machines for TLC.  64 words in pages of 8:                        *)
(*    0 .. 15  user code           40 .. 47  user stack (SP starts at 46)  *)
(*   16 .. 23  handlers            48 .. 63  system stack (SP starts at 0, *)
(*   24 .. 31  page table                    that is one past 63)          *)
(*   32 .. 38  data, 39 the page directory                                 *)
(* The instructions that may be found at an address stand for all the      *)
(* programs that have one of them there.                                   *)
(***************************************************************************)
EXTENDS Processor

I(op, r, idx, ind, n) == [op |-> op, reg |-> r, idx |-> idx, ind |-> ind, num |-> n]
Imm(op, r, n) == I(op, r, 0, FALSE, n)
Mem(op, r, n) == I(op, r, 0, TRUE, n)
Plain(op) == Imm(op, 0, 0)
Program(p) == [a \in Word |-> IF a \in DOMAIN p THEN p[a] ELSE {HaltInstr}]

MCRam == 24 .. 63

\* handlers: TIMER 16, KEYBD 19, everything else 21; system call 22
MCVector == [ic \in Intr |-> CASE ic = "TIMER" -> 16 [] ic = "KEYBD" -> 19 [] OTHER -> 21]
MCCallGate == 22

\* Handlers that return: the timer's after setting the timer again, the
\* keyboard's after reading the terminal, the call's with R0 overwritten.
Handlers == [a \in 16 .. 23 |->
  CASE a = 16 -> {Imm("LOAD", R0, 6)}
    [] a = 17 -> {Imm("SETSR", R0, 5)}
    [] a = 19 -> {Mem("DOIO", R0, 34)}
    [] a = 22 -> {Imm("LOAD", R0, 3)}
    [] OTHER  -> {Plain("IRET")}]

State(page, f, t) ==
  [mem |-> [a \in Word |-> IF a \in 24 .. 31 THEN page[a - 24] ELSE IF a = 39 THEN 24 ELSE 0],
   reg |-> [r \in RegNum |-> IF r = SP THEN 46 ELSE 0], syssp |-> 0, fl |-> f,
   pdbr |-> 39, intvec |-> 1, cgbr |-> 1, debug |-> 63, timer |-> t]
NoPages == [p \in 0 .. 7 |-> 0]
UserFlags == [R |-> TRUE, Z |-> FALSE, SYS |-> FALSE, IP |-> FALSE, VM |-> FALSE]

-----------------------------------------------------------------------------
(* A user program that computes, branches, uses its stack, calls a         *)
(* subroutine and the system, pauses and has a break point: interrupted    *)
(* anywhere, and run, stepped and resumed by the monitor.                  *)
UserCode == Program(
  [a \in 0 .. 23 |->
     IF a \in DOMAIN Handlers THEN Handlers[a]
     ELSE CASE a = 0 -> {Mem("LOAD", R0, 32)}
            [] a = 1 -> {Imm("PUSH", R0, 9)}
            [] a = 2 -> {Imm("CALL", R0, 8)}
            [] a = 3 -> {Imm("SYSCALL", R0, 0)}
            [] a = 4 -> {Imm("LOAD", SP, 46)}
            [] a = 5 -> {Imm("JCOND", 0, 1)}
            [] a = 6 -> {Plain("BREAK"), Plain("PAUSE")}
            [] a = 8 -> {Imm("COMP", R0, 1), Imm("ADD", R0, 1)}
            [] a = 9 -> {Mem("STORE", R0, 33)}
            [] a = 10 -> {Plain("RET")}
            [] OTHER -> {Imm("JUMP", R0, 0)}])
UserInit == {State(NoPages, UserFlags, 3)}

\* a shorter one, without break points, for control-C
ControlCode == Program(
  [a \in 0 .. 23 |->
     IF a \in DOMAIN Handlers THEN Handlers[a]
     ELSE CASE a = 0 -> {Imm("LOAD", R0, 1)}
            [] a = 1 -> {Imm("PUSH", R0, 9)}
            [] a = 2 -> {Imm("LOAD", R0, 2)}
            [] a = 3 -> {Imm("SYSCALL", R0, 0)}
            [] a = 4 -> {Imm("LOAD", SP, 46)}
            [] OTHER -> {Imm("JUMP", R0, 0)}])
AllCommands == {"step", "run", "pause", "x", "exit"}

\* The user program as it is seen through the interrupts: while the system
\* runs, it is what the bottom frame of the system stack holds.
UserTop == 0
Framed(i) == mem[Wrap(UserTop - i)]
UserSpace == 24 .. 47
UserReg(n) == IF fl.SYS THEN Framed(n + 1) ELSE reg[n]
User == INSTANCE UserProgram WITH
  Size <- WordSize, Text <- Code, Space <- UserSpace,
  pc <- UserReg(PC),
  r  <- [n \in 0 .. 2 |-> UserReg(n)],
  z  <- IF fl.SYS THEN HasBit(Framed(FrameSize), 2) ELSE fl.Z,
  m  <- [a \in UserSpace |-> mem[a]]

\* Interrupts, system calls, single stepping and control-C are invisible to
\* the user program: what it sees are steps of its own, each instruction once
\* and in order, whatever is delivered in between (prepare_interrupt() and
\* SYSCALL save exactly what IRET restores, nested or not).
UserUndisturbed == User!Spec

-----------------------------------------------------------------------------
(* A user program that divides by zero, halts and pushes where it may not. *)
TrapCode == [ControlCode EXCEPT ![0] = {Imm("DIV", R0, 0), Plain("HALT"), Imm("SETSR", R0, 2)},
                                ![1] = {Imm("ADD", R0, 1)}]
TrapInit == {State(NoPages, UserFlags, 0)}

-----------------------------------------------------------------------------
(* Every instruction, in every mode, with and without virtual memory, on   *)
(* pages that are present, absent or the system's.                         *)
Operations ==
  {Plain("HALT"), Imm("LOAD", SP, 48), Mem("LOAD", R0, 40), Mem("LOAD", R0, 56),
   I("ADD", R0, PC, FALSE, 2), Imm("DIV", R0, 0), Imm("DIV", R0, 3), Imm("COMP", R0, 0),
   Imm("STORE", R0, 4), I("STORE", R0, FP, FALSE, 0), Mem("STORE", SP, 40), Mem("STORE", SP, 8),
   Imm("JCOND", 0, 1), Imm("JCOND", 1, 1), Imm("JCOND", 2, 1), Imm("GETFL", R0, 4),
   Imm("SETFL", R0, 1), Imm("SETFL", R0, 2), Imm("SETFL", R0, 3), Imm("SETFL", SP, 9),
   Imm("GETSR", R0, 5), Imm("PUSH", R0, 9), Plain("POP"), Imm("POP", R0, 3),
   I("POP", R0, SP, FALSE, 0), Mem("POP", R0, 33), Mem("POP", R0, 41), Imm("CALL", R0, 1),
   Plain("RET"), Mem("DOIO", R0, 34), Imm("DOIO", R0, 41), Plain("FAKEIT"),
   Imm("FLAGSJ", R0, 1), Plain("PAUSE"), Plain("WAIT"), Plain("BREAK"), Plain("IRET"),
   Imm("SYSCALL", R0, 0), Imm("SYSCALL", R0, 1), Plain("ATAS"), Imm("ATAS", R0, 3),
   Mem("ATAS", R0, 33), Mem("ATAS", R0, 41), Mem("PHLOAD", R0, 40), Imm("PHLOAD", R0, 40),
   Imm("PHSTORE", R0, 40), Imm("PHSTORE", R0, 8), Imm("VTRAN", R0, 41), Imm("VTRAN", R0, 33),
   I("MOVE", FP, SP, FALSE, 0), Imm("MOVE", R0, 3), Plain("UNIMP")}
  \cup {Imm("SETSR", SP, s) : s \in 0 .. 7}
ZooCode == Program(
  [a \in 0 .. 23 |->
     CASE a = 4  -> Operations
       [] a = 16 -> {Imm("LOAD", R0, 6)}
       [] a = 19 -> {Mem("DOIO", R0, 34)}
       [] a \in {17, 18, 20, 22, 23} -> {Plain("IRET")}
       [] a = 21 -> {Imm("ADD", R0, 1)}
       [] OTHER  -> {Imm("JUMP", R0, 1)}])

\* page tables: frames 8p, resident; the user stack absent, the system stack
\* open to all or the system's own
Page(user, system) ==
  [p \in 0 .. 7 |-> 8 * p + (CASE p = 5 -> user [] p \in {6, 7} -> system
                               [] p \in {2, 3} -> 3 [] OTHER -> 1)]
ZooFlags == [R : {TRUE}, Z : {FALSE}, SYS : BOOLEAN, IP : BOOLEAN, VM : BOOLEAN]
ZooState(page, f) ==
  [State(page, f, 3) EXCEPT !.reg = [r \in RegNum |-> CASE r = SP -> 46 [] r = R0 -> 3
                                                        [] r = FP -> 33 [] r = PC -> 4]]
ZooInit == {ZooState(Page(0, s), f) : s \in {1, 3}, f \in {g \in ZooFlags : g.VM}}
           \cup {ZooState(NoPages, f) : f \in {g \in ZooFlags : ~g.VM}}
=============================================================================
