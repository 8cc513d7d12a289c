------------------------------ MODULE Compiler ------------------------------
(***************************************************************************)
(* EEN521/compiler: main() compiles a text in two passes, and what comes   *)
(* out is run.  The first pass declares, the second one parses again and   *)
(* keeps the nodes, then every top-level node is translated.  Assembler,   *)
(* linker, loader and processor, which modules of their own are about,     *)
(* are here no more than a machine for the instructions that are written:  *)
(* a label takes no memory, globals are the first words of the memory, the *)
(* stack is at its end.                                                    *)
(***************************************************************************)
EXTENDS Translator, Language

CONSTANTS Sources,      \* the programs, as nodes
          Top           \* the last word of the memory

VARIABLES source,       \* the program that was written
          text,         \* the file: its symbols
          phase,        \* "declare", "parse", "translate", "run", "stopped", "refused"
          at,           \* the symbol to read, or the declaration to translate, next
          prog,         \* the nodes of the second pass
          c,            \* all that the translator keeps and has written
          pc, reg, mem, \* the machine
          compared,     \* the flags of the last COMP: its operands
          out,          \* what was printed
          calls         \* of every call in progress what its caller had

machine == <<pc, reg, mem, compared, out, calls>>
vars == <<source, text, phase, at, prog, c, machine>>

Temporary == 0 .. 7
Registers == Temporary \cup {FP, SP}
Zero == [r \in Registers |-> 0]

Init == /\ source \in Sources /\ text = TextOf(source)
        /\ phase = "declare" /\ at = 1 /\ prog = << >> /\ c = Empty
        /\ pc = 0 /\ reg = Zero /\ mem = [a \in 1 .. Top |-> 0]
        /\ compared = <<0, 0>> /\ out = << >> /\ calls = << >>

-----------------------------------------------------------------------------
Refused == phase' = "refused" /\ UNCHANGED <<at, prog, c>>

MemoryBounds == Adding(N("global", "", 0), <<N("item", "MEMSTART", 0), N("item", "MEMAVAIL", 0)>>)

\* parse(): once over the text to declare what is at top level
Declare ==
  /\ phase = "declare"
  /\ \E r \in {parse_top_level(text, at)} : \E d \in {add_top_level_decl(r.n, c)} :
        IF r.i = 0 \/ d.exit THEN Refused
        ELSE IF r.n.tag = "end"
        THEN /\ phase' = "parse" /\ at' = 1
             /\ prog' = <<MemoryBounds>> /\ c' = add_top_level_decl(MemoryBounds, d)
        ELSE at' = r.i /\ c' = d /\ UNCHANGED <<phase, prog>>
  /\ UNCHANGED <<source, text, machine>>

Parse ==
  /\ phase = "parse"
  /\ \E r \in {parse_top_level(text, at)} :
        IF r.i = 0 THEN Refused
        ELSE IF r.n.tag = "end"
        THEN /\ phase' = "translate" /\ at' = 1 /\ prog' = Append(prog, r.n)
             /\ c' = IF \E n \in Range(prog) : n.tag = "main"
                     THEN Emit(c, <<Place("JUMP", 0, "main", "", FALSE)>>) ELSE c
        ELSE at' = r.i /\ prog' = Append(prog, r.n) /\ UNCHANGED <<phase, c>>
  /\ UNCHANGED <<source, text, machine>>

\* translate_program(), one declaration at a time
Translate ==
  /\ phase = "translate" /\ at <= Len(prog)
  /\ \E d \in {translate_top_level(prog[at], c)} :
        IF ~ExportsDefined(prog, prog[at]) \/ d.exit THEN Refused
        ELSE at' = at + 1 /\ c' = d /\ UNCHANGED <<phase, prog>>
  /\ UNCHANGED <<source, text, machine>>

Load == /\ phase = "translate" /\ at > Len(prog)
        /\ phase' = "run" /\ pc' = 1
        /\ reg' = [Zero EXCEPT ![SP] = Top + 1]
        /\ UNCHANGED <<source, text, at, prog, c, mem, compared, out, calls>>

-----------------------------------------------------------------------------
(* The machine.                                                            *)
code == c.code
IsPlace(i, kind, name, n) == i.op \in {"label", "space"} /\ i.base = kind /\ i.name = name /\ i.n = n
Words(i) == IF i.op = "space" THEN i.reg ELSE 0
DataBefore(k) == FoldLeft(LAMBDA sum, i : sum + Words(i), 0, SubSeq(code, 1, k))
Address(kind, name, n) ==
  CASE kind = "string" -> StringValue(n)
    [] kind = "malloc" -> 1 + DataBefore(Len(code)) + FoldLeft(LAMBDA sum, w : sum + w, 0, SubSeq(c.mallocs, 1, n))
    [] OTHER -> LET k == CHOOSE k \in DOMAIN code : IsPlace(code[k], kind, name, n)
                IN IF kind = "g" THEN 1 + DataBefore(k - 1) ELSE k

word(a) == IF a \in DOMAIN mem THEN mem[a] ELSE 0
EffectiveValue(i) == CASE i.base = "const" -> i.n
                       [] i.base = "reg" -> reg[i.n]
                       [] i.base = "frame" -> reg[FP] + i.n
                       [] OTHER -> Address(i.base, i.name, i.n)
Value(i) == IF i.ind THEN word(EffectiveValue(i)) ELSE EffectiveValue(i)

current == code[pc]
Doing(ops) == phase = "run" /\ current.op \in ops /\ UNCHANGED <<source, text, phase, at, prog, c>>
Next1 == pc' = pc + 1
SetReg(r, v) == reg' = [reg EXCEPT ![r] = v]

ToNext == /\ Doing({"label", "space"}) /\ Next1
          /\ UNCHANGED <<reg, mem, compared, out, calls>>
Loading == /\ Doing({"LOAD"}) /\ Next1 /\ SetReg(current.reg, Value(current))
           /\ UNCHANGED <<mem, compared, out, calls>>
Computing ==
  /\ Doing({"ADD", "SUB", "MUL", "DIV", "MOD"}) /\ Next1
  /\ SetReg(current.reg,
            LET a == reg[current.reg]
                b == Value(current)
            IN CASE current.op = "ADD" -> a + b [] current.op = "SUB" -> a - b
                 [] current.op = "MUL" -> a * b [] current.op = "DIV" -> a \div b
                 [] current.op = "MOD" -> a % b)
  /\ UNCHANGED <<mem, compared, out, calls>>
\* with a register for an operand STORE sets the register
Storing == /\ Doing({"STORE"}) /\ Next1
           /\ IF current.ind
              THEN mem' = [mem EXCEPT ![EffectiveValue(current)] = reg[current.reg]] /\ UNCHANGED reg
              ELSE SetReg(current.n, reg[current.reg]) /\ UNCHANGED mem
           /\ UNCHANGED <<compared, out, calls>>
Comparing == /\ Doing({"COMP"}) /\ Next1 /\ compared' = <<reg[current.reg], Value(current)>>
             /\ UNCHANGED <<reg, mem, out, calls>>
Holds(cond) == LET a == compared[1]
                   b == compared[2]
               IN CASE cond = "EQL" -> a = b [] cond = "NEQ" -> a # b
                    [] cond = "LSS" -> a < b [] cond = "LEQ" -> a <= b
                    [] cond = "GTR" -> a > b [] cond = "GEQ" -> a >= b
Jumps == CASE current.op = "JUMP" -> TRUE
           [] current.op = "JZER" -> reg[current.reg] = 0
           [] current.op = "JNZ" -> reg[current.reg] # 0
           [] current.op = "JCOND" -> Holds(current.name)
Target == IF current.op = "JUMP" /\ current.base = "main" THEN Address("main", "", 0)
          ELSE Address("L", "", current.n)
Jumping == /\ Doing({"JUMP", "JZER", "JNZ", "JCOND"})
           /\ pc' = IF Jumps THEN Target ELSE pc + 1
           /\ UNCHANGED <<reg, mem, compared, out, calls>>

Pushed(v) == /\ SetReg(SP, reg[SP] - 1)
             /\ mem' = [mem EXCEPT ![reg[SP] - 1] = v]
Pushing == /\ Doing({"PUSH"}) /\ Next1 /\ Pushed(Value(current))
           /\ UNCHANGED <<compared, out, calls>>
Popping == /\ Doing({"POP"}) /\ Next1
           /\ reg' = [reg EXCEPT ![SP] = @ + 1, ![current.n] = word(reg[SP])]
           /\ UNCHANGED <<mem, compared, out, calls>>
Calling == /\ Doing({"CALL"}) /\ Pushed(pc + 1) /\ pc' = Value(current)
           /\ calls' = Append(calls, [back |-> pc + 1, fp |-> reg[FP], sp |-> reg[SP]])
           /\ UNCHANGED <<compared, out>>
Returning == /\ Doing({"RET"}) /\ pc' = word(reg[SP]) /\ SetReg(SP, reg[SP] + 1)
             /\ calls' = Front(calls)
             /\ UNCHANGED <<mem, compared, out>>
Printing == /\ Doing({"FAKEIT"}) /\ Next1 /\ out' = Append(out, reg[1])
            /\ UNCHANGED <<reg, mem, compared, calls>>
Halting == /\ phase = "run" /\ current.op = "HALT"
           /\ phase' = "stopped"
           /\ UNCHANGED <<source, text, at, prog, c, machine>>

Compile == Declare \/ Parse \/ Translate \/ Load
Execute == \/ ToNext \/ Loading \/ Computing \/ Storing \/ Comparing \/ Jumping
           \/ Pushing \/ Popping \/ Calling \/ Returning \/ Printing \/ Halting
Next == Compile \/ Execute
Spec == Init /\ [][Next]_vars /\ WF_vars(Execute)

-----------------------------------------------------------------------------
(* Properties.                                                             *)

\* The nodes of the second pass are the program that was written.
Translated == phase = "translate" /\ at > Len(prog)
Parsed == phase = "translate" /\ at = 1
ParsesBack == Parsed => prog = <<MemoryBounds>> \o source

\* Nothing is refused but programs that name what is not there, take a reserved
\* name or leave a loop they are not in; of those none is run.
RefusesIllFormed == /\ phase = "refused" => ~WellFormed(source)
                    /\ Translated => WellFormed(source)

\* When the compiled program halts it has printed what the program says.
PrintsMeaning == phase = "stopped" => out = Meaning(source)

\* Every label, function and global the code refers to stands in it once, so
\* that a jump has one place to go to.
LabelsDefinedOnce ==
  Translated =>
    \A i \in Range(code) :
      i.base \in {"L", "f", "g", "main"} =>
        Cardinality({k \in DOMAIN code :
                       IsPlace(code[k], i.base, IF i.op = "JCOND" THEN "" ELSE i.name, i.n)}) = 1

\* After a top-level declaration nothing of its own is left: every name means
\* what it meant before, no local is counted, no loop is open.
Known(d) == {s \in DOMAIN d.ST : lookup(d, s).kind \notin {"u", "null"}}
OwnScope ==
  [][phase = "translate" /\ at' = at + 1 /\ prog[at].tag # "main" =>
       /\ Known(c') = Known(c) /\ \A s \in Known(c) : lookup(c', s) = lookup(c, s)
       /\ c'.totalsize = c.totalsize /\ c'.breaks = << >>]_vars

\* A function returns behind its call, to the frame and the stack it was
\* called with, whatever it pushed, declared or called.
ReturnsToCaller ==
  [][calls' # calls /\ current.op = "RET" => LET caller == Last(calls)
                  IN pc' = caller.back /\ reg'[FP] = caller.fp /\ reg'[SP] = caller.sp]_vars

\* A program that comes to its end does so when it is compiled, too.
Stops == phase = "run" ~> phase = "stopped"
=============================================================================
