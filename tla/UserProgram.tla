---------------------------- MODULE UserProgram ----------------------------
(***************************************************************************)
(* What the processor promises a user program: that it runs as if nothing  *)
(* else did.  The program has its three registers and its program counter, *)
(* the flag Z and its memory, and a step executes one of the instructions  *)
(* that may be found at pc.  There are no interrupts, no system stack and  *)
(* no monitor here; a system call is an instruction like another.          *)
(* The instructions are those that raise no interrupt.                     *)
(***************************************************************************)
EXTENDS Integers

CONSTANTS Size,       \* words are 0 .. Size-1
          Text,       \* address -> the instructions that may be found there
          Space       \* the addresses of the program's memory
VARIABLES pc, r, z, m

uvars == <<pc, r, z, m>>
SPn == 1

Plus(a, b) == (a + b) % Size
Value(n) == IF n = 3 THEN Plus(pc, 1) ELSE r[n]
Addr(i) == IF i.idx = 0 THEN i.num ELSE Plus(i.num, Value(i.idx))
Arg(i) == IF i.ind THEN m[Addr(i)] ELSE Addr(i)

Next1 == pc' = Plus(pc, 1)
Set(n, v) == IF n = 3 THEN pc' = v /\ r' = r ELSE Next1 /\ r' = [r EXCEPT ![n] = v]

Load(i)  == i.op = "LOAD" /\ Set(i.reg, Arg(i)) /\ UNCHANGED <<z, m>>
Add(i)   == i.op = "ADD" /\ Set(i.reg, Plus(Value(i.reg), Arg(i))) /\ UNCHANGED <<z, m>>
Comp(i)  == i.op = "COMP" /\ z' = (Value(i.reg) = Arg(i)) /\ Next1 /\ UNCHANGED <<r, m>>
Store(i) == /\ i.op = "STORE" /\ i.ind
            /\ m' = [m EXCEPT ![Addr(i)] = Value(i.reg)]
            /\ Next1 /\ UNCHANGED <<r, z>>
Jump(i)  == i.op = "JUMP" /\ pc' = Arg(i) /\ UNCHANGED <<r, z, m>>
Jcond(i) == /\ i.op = "JCOND"
            /\ pc' = IF z = (i.reg = 0) THEN Arg(i) ELSE Plus(pc, 1)
            /\ UNCHANGED <<r, z, m>>
Push(i, v, to) == /\ r' = [r EXCEPT ![SPn] = Plus(@, Size - 1)]
                  /\ m' = [m EXCEPT ![Plus(r[SPn], Size - 1)] = v]
                  /\ pc' = to /\ UNCHANGED z
Call(i)  == i.op = "CALL" /\ Push(i, Plus(pc, 1), Arg(i))
Ret(i)   == /\ i.op = "RET" /\ pc' = m[r[SPn]]
            /\ r' = [r EXCEPT ![SPn] = Plus(@, 1)]
            /\ UNCHANGED <<z, m>>
Quiet(i) == i.op \in {"PAUSE", "SYSCALL", "BREAK"} /\ Next1 /\ UNCHANGED <<r, z, m>>

Step == \E i \in Text[pc] :
          \/ Load(i) \/ Add(i) \/ Comp(i) \/ Store(i) \/ Jump(i) \/ Jcond(i)
          \/ (i.op = "PUSH" /\ Push(i, Arg(i), Plus(pc, 1)))
          \/ Call(i) \/ Ret(i) \/ Quiet(i)

Init == m \in [Space -> 0 .. Size - 1] /\ r \in [0 .. 2 -> 0 .. Size - 1] /\ z \in BOOLEAN
        /\ pc \in 0 .. Size - 1
Spec == Init /\ [][Step]_uvars
=============================================================================
