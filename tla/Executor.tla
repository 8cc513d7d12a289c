------------------------------ MODULE Executor ------------------------------
(***************************************************************************)
(* chmarti/Executor/exec.cpp: the first emulator.  At its prompt programs  *)
(* are loaded, run to their end, or made ready and executed step by step.  *)
(* The memory is an array of chunks that come into being when they are     *)
(* first touched; the stack starts behind the last of them, and the        *)
(* pointer there is taken for that of one more chunk.                      *)
(*                                                                         *)
(* The pointers to the chunks are taken to start as NULL: the array of them *)
(* is allocated before anything else is.  Words are integers and stay small*)
(* here; floats are not modelled.                                          *)
(***************************************************************************)
EXTENDS Integers, Sequences, FiniteSets, SequencesExt

CONSTANTS Files,        \* the name of every binary file -> its words
          Positions,    \* where they may be loaded
          Says(_, _),   \* what a program prints that was given a number
          Faulty,       \* the programs that are killed
          CompiledNames,  \* those that My Compilier wrote
          HeapWords,    \* bound: the words behind such a program that it uses
          Input,        \* the numbers that may be typed
          opcodes,      \* the name of every operation -> its number
          numChunks, sizeChunks,
          Junk,         \* what new memory may hold
          MaxCommands, MaxStep, \* the commands of a session, and of a STEP
          MaxOut        \* bound: what is printed

NUMREGS == 20
REG_FP == 13
REG_SP == 14
REG_PC == 15
FLAG_L == 0
FLAG_G == 1
FLAG_E == 2
FLAG_LE == 3
FLAG_GE == 4
FLAG_NE == 5
FLAG_Z == 7             \* behind the array of 7, where nothing else is
blockWords == 2         \* blockSize / 4

VARIABLES registers, flags, memory, chunks,
          notDone, mode,        \* where main() is: "prompt", "run", "step", "exit" or dead of a signal
          left,                 \* of a STEP what is left
          loadedPrograms, sizeInfo, ready,
          disc, descriptors, mounted, \* the blocks of the disc file, the files left open,
                                \* and those of them that are the disc
          typed, out,           \* what was typed last, and what was printed
          commands,             \* how many there were that change something
          intact                \* whether the program made ready was, and is, as it is in its file
cpu == <<registers, flags, memory, chunks>>
programs == <<loadedPrograms, sizeInfo>>
discs == <<disc, descriptors, mounted>>
vars == <<cpu, notDone, mode, left, programs, ready, discs, typed, out, commands, intact>>

getSize == numChunks * sizeChunks
Addresses == 0 .. getSize + sizeChunks - 1
chunk(a) == a \div sizeChunks
NoProgram == ""
NoFiles == [n \in {} |-> 0]
NoFile == << >>

Init == /\ registers = [r \in 0 .. NUMREGS - 1 |-> 0] /\ flags = [f \in 0 .. 7 |-> FALSE]
        /\ memory = [a \in Addresses |-> 0] /\ chunks = {}
        /\ notDone = TRUE /\ mode = "prompt" /\ left = 0
        /\ loadedPrograms = NoFiles /\ sizeInfo = NoFiles /\ ready = NoProgram
        /\ disc = NoFile /\ descriptors = {} /\ mounted = {} /\ typed = 0 /\ out = << >>
        /\ commands = 0 /\ intact = FALSE

-----------------------------------------------------------------------------
(* Memory.  Reading a new chunk clears it; writing to one leaves what the  *)
(* allocator gave, j everywhere else.                                      *)
readDirect(a) == IF chunk(a) \in chunks THEN memory[a] ELSE 0
Touched(as) == {chunk(a) : a \in as}
\* first the addresses in "as" are read, then the words are written
Changes(as, words) ==
  \E read \in {chunks \cup Touched(as)} : \E all \in {read \cup Touched(DOMAIN words)} : \E j \in Junk :
    /\ chunks' = all
    /\ memory' = IF all = chunks THEN [b \in Addresses |-> IF b \in DOMAIN words THEN words[b] ELSE memory[b]]
                 ELSE [b \in Addresses |->
                         CASE b \in DOMAIN words -> words[b]
                           [] chunk(b) \in all \ read -> j
                           [] chunk(b) \in read \ chunks -> 0
                           [] OTHER -> memory[b]]
None == [a \in {} |-> 0]
One(x, v) == [y \in {x} |-> v]
Reads(as) == Changes(as, None)
Write(as, a, v) == Changes(as, One(a, v))

-----------------------------------------------------------------------------
(* Commands.                                                               *)
Takes(n) == mode = "prompt" /\ commands + n <= MaxCommands /\ commands' = commands + n
Prompt == Takes(1)

\* loadFile(): the words and a 0 behind them; what is loaded again goes to
\* its new place, but its old one stays noted (map::insert)
Loaded(words, position) ==
  [a \in position .. position + Len(words) |-> IF a = position + Len(words) THEN 0 ELSE words[a - position + 1]]
\* open() gives the lowest descriptor that is free; 0, 1 and 2 are the terminal's
Opened == Min({d \in 3 .. 3 + Cardinality(descriptors) : d \notin descriptors})
Noted(m, name, v) == [n \in DOMAIN m \cup {name} |-> IF n \in DOMAIN m THEN m[n] ELSE v]
Taken(name, position) == position .. position + Len(Files[name])
Own(name) == loadedPrograms[name] .. loadedPrograms[name] + Len(Files[name]) - 1
\* bound: what the compiler wrote has its variables at absolute places, and is
\* loaded at 0; there is time left for one command then
Allowed(name, position) ==
  IF name \in CompiledNames THEN position = 0 /\ Takes(MaxCommands - 1) ELSE Prompt
loadFile(name, position) ==
  /\ Allowed(name, position)
  /\ \E words \in {Loaded(Files[name], position)} : Changes({}, words)
  /\ descriptors' = descriptors \cup {Opened}      \* nothing closes it
  /\ loadedPrograms' = Noted(loadedPrograms, name, position)
  /\ sizeInfo' = Noted(sizeInfo, name, Len(Files[name]))
  /\ intact' = (intact /\ Own(ready) \cap Taken(name, position) = {})
  /\ UNCHANGED <<registers, flags, notDone, mode, left, ready, disc, mounted, typed, out>>

AsInFile(name) == \A a \in Own(name) : readDirect(a) = Files[name][a - loadedPrograms[name] + 1]
getProgramReady(name) ==
  /\ name \in DOMAIN loadedPrograms
  /\ registers' = [r \in 0 .. NUMREGS - 1 |-> CASE r = REG_PC -> loadedPrograms[name] [] r = REG_SP -> getSize
                                                [] r = 11 -> sizeInfo[name] + 1 [] OTHER -> 0]
  /\ flags' = [f \in 0 .. 7 |-> IF f = FLAG_Z THEN flags[f] ELSE FALSE]
  /\ notDone' = TRUE /\ ready' = name /\ typed' = 0 /\ out' = << >>
  /\ intact' = AsInFile(name)
runProgram(name) ==
  /\ Prompt /\ getProgramReady(name)
  /\ mode' = "run"
  /\ UNCHANGED <<memory, chunks, left, programs, discs>>
debugProgram(name) ==
  /\ Prompt /\ getProgramReady(name)
  /\ UNCHANGED <<memory, chunks, mode, left, programs, discs>>
unknownProgram(name) ==
  mode = "prompt" /\ name \notin DOMAIN loadedPrograms /\ UNCHANGED vars
step(num) ==
  /\ Prompt
  /\ IF notDone THEN mode' = "step" /\ left' = num ELSE UNCHANGED <<mode, left>>
  /\ UNCHANGED <<cpu, notDone, programs, ready, intact, discs, typed, out>>
\* SHOW MEM and SHOW SP CLOSE read, and so may make a chunk
show(as) ==
  /\ Prompt /\ Reads(as)
  /\ UNCHANGED <<registers, flags, notDone, mode, left, programs, ready, intact, discs, typed, out>>
showMem(low, high) == show(low .. high)
showSPClose == LET end == registers[REG_SP]
               IN show(end .. IF end + 8 > getSize THEN getSize ELSE end + 8)
exit == /\ mode = "prompt" /\ mode' = "exit"
        /\ UNCHANGED <<cpu, notDone, left, programs, ready, commands, intact, discs, typed, out>>

-----------------------------------------------------------------------------
(* executeNext(): an instruction i is fetched, decoded and executed.        *)
bits(word, shift, width) == (word \div 2^shift) % 2^width
Named == [n \in {opcodes[o] : o \in DOMAIN opcodes} |-> CHOOSE o \in DOMAIN opcodes : opcodes[o] = n]
Now(r) == IF r = REG_PC THEN registers[REG_PC] + 1 ELSE registers[r]
Signed(word) == IF bits(word, 15, 1) = 1 THEN -(word % 2^15) ELSE word % 2^15
\* register 0 is no index
address(word) == LET reg2 == bits(word, 16, 4)
                 IN IF reg2 = 0 THEN Signed(word) ELSE Now(reg2) + Signed(word)
Decoded(word, direct) ==
  [op |-> LET n == bits(word, 25, 7) IN IF n \in DOMAIN Named THEN Named[n] ELSE "",
   reg1 |-> bits(word, 20, 4), reg2 |-> bits(word, 16, 4),
   effectiveAddr |-> IF bits(word, 24, 1) = 1 THEN readDirect(direct) ELSE direct,
   fetched |-> {registers[REG_PC]} \cup IF bits(word, 24, 1) = 1 THEN {direct} ELSE {}]
Fetched == LET word == readDirect(registers[REG_PC]) IN Decoded(word, address(word))

top == registers[REG_SP] + 1
Control(i) == {i.effectiveAddr + k : k \in 0 .. 3}
\* what an instruction needs in memory; where there is no chunk: SIGSEGV
Uses(i) == i.fetched \cup CASE i.op = "STORE" -> {i.effectiveAddr}
                            [] i.op \in {"CALL", "PUSH"} -> {registers[REG_SP]}
                            [] i.op \in {"RET", "POP"} -> {top}
                            [] i.op = "IOOP" -> Control(i)
                            [] OTHER -> {}
Running == mode \in {"run", "step"}
Killed == /\ mode' = "dead"
          /\ UNCHANGED <<cpu, notDone, left, programs, ready, commands, intact, discs, typed, out>>
Astray(i) == ~(Uses(i) \subseteq Addresses) /\ Killed

\* one instruction is over; a STEP goes on while it has some left
After(done) ==
  /\ notDone' = done
  /\ left' = IF mode = "step" THEN left - 1 ELSE left
  /\ mode' = IF ~done \/ (mode = "step" /\ left = 1) THEN "prompt" ELSE mode
  /\ UNCHANGED <<programs, ready, commands, intact>>
Continue == After(TRUE)
Set(rs) == registers' = [r \in DOMAIN registers |-> IF r \in DOMAIN rs THEN rs[r] ELSE Now(r)]
Advance == Set(None)
Silent == UNCHANGED <<discs, typed, out>>

Truth(b) == IF b THEN 1 ELSE 0
Arithmetic == {"ADD", "SUB", "SUBR", "DIV", "DIVR", "MUL", "MOD", "AND", "OR"}
Divides == {"DIV", "DIVR", "MOD"}
Divisor(i) == IF i.op = "DIVR" THEN Now(i.reg1) ELSE i.effectiveAddr
Result(op, a, b) ==
  CASE op = "ADD" -> a + b [] op = "SUB" -> a - b [] op = "SUBR" -> b - a
    [] op = "MUL" -> a * b [] op = "DIV" -> a \div b [] op = "DIVR" -> b \div a [] op = "MOD" -> a % b
    [] op = "AND" -> Truth(a # 0 /\ b # 0) [] op = "OR" -> Truth(a # 0 \/ b # 0)
Arithmetics(i) ==
  /\ i.op \in Arithmetic /\ (i.op \in Divides => Divisor(i) # 0)
  /\ i.op \in Divides => Now(i.reg1) >= 0 /\ i.effectiveAddr >= 0       \* bound: they divide without sign
  /\ \E v \in {Result(i.op, Now(i.reg1), i.effectiveAddr)} :
       Set(One(i.reg1, v)) /\ flags' = [flags EXCEPT ![FLAG_Z] = v = 0]
  /\ Reads(i.fetched) /\ Continue /\ Silent
\* the emulator dies of SIGFPE
DivideByZero(i) == i.op \in Divides /\ Divisor(i) = 0 /\ Killed

\* LOADH and LOADL have && for &: of the operand they take whether it is 0
LoadHigh(a, v) == IF v % 2^16 = 0 \/ a % 2 = 1 THEN a % 256 ELSE (a % 256) + 1
LoadLow(a, v) == ((a \div 256) % 256) * 256 + Truth(v # 0)
Loads(i) ==
  /\ i.op \in {"LOAD", "LOADH", "LOADL", "MOV", "FLAG"}
  /\ Set(One(i.reg1, CASE i.op = "LOAD" -> i.effectiveAddr
                       [] i.op = "LOADH" -> LoadHigh(Now(i.reg1), i.effectiveAddr)
                       [] i.op = "LOADL" -> LoadLow(Now(i.reg1), i.effectiveAddr)
                       [] i.op = "MOV" -> Now(i.reg2)
                       [] i.op = "FLAG" -> Truth(flags[i.effectiveAddr])))
  /\ Reads(i.fetched) /\ Continue /\ UNCHANGED flags /\ Silent
Store(i) ==
  /\ i.op = "STORE" /\ Write(i.fetched, i.effectiveAddr, Now(i.reg1))
  /\ Advance /\ Continue /\ UNCHANGED flags /\ Silent

\* (slip: more is equal, too)
FlagsAfterMore(val) ==
  [f \in 0 .. 7 |-> CASE f = FLAG_E -> val >= 0 [] f = FLAG_L -> val < 0 [] f = FLAG_G -> val > 0
                      [] f = FLAG_GE -> val >= 0 [] f = FLAG_LE -> val <= 0 [] f = FLAG_NE -> val # 0
                      [] OTHER -> flags[f]]
FlagsAfter(val) ==
  [f \in 0 .. 7 |-> CASE f = FLAG_E -> val = 0 [] f = FLAG_L -> val < 0 [] f = FLAG_G -> val > 0
                      [] f = FLAG_GE -> val >= 0 [] f = FLAG_LE -> val <= 0 [] f = FLAG_NE -> val # 0
                      [] OTHER -> flags[f]]
Compare(i) == /\ i.op = "CMP" /\ flags' = FlagsAfter(Now(i.reg1) - i.effectiveAddr)
              /\ Advance /\ Reads(i.fetched) /\ Continue /\ Silent
Jumps == [JMP |-> TRUE, JMPE |-> flags[FLAG_E], JMPNE |-> ~flags[FLAG_E],
          JMPL |-> flags[FLAG_L], JMPG |-> flags[FLAG_G],
          JMPGE |-> flags[FLAG_G] \/ flags[FLAG_E], JMPLE |-> flags[FLAG_L] \/ flags[FLAG_E]]
Jump(i) == /\ i.op \in DOMAIN Jumps
           /\ IF Jumps[i.op] THEN Set(One(REG_PC, i.effectiveAddr)) ELSE Advance
           /\ Reads(i.fetched) /\ Continue /\ UNCHANGED flags /\ Silent

\* the stack pointer is at the first free word, and goes down
Pushes(i, v, to) == /\ Write(i.fetched, registers[REG_SP], v)
                    /\ Set([r \in {REG_SP, REG_PC} |-> IF r = REG_SP THEN registers[r] - 1 ELSE to])
Call(i) == /\ i.op = "CALL" /\ Pushes(i, Now(REG_PC), i.effectiveAddr)
           /\ Continue /\ UNCHANGED flags /\ Silent
Push(i) == /\ i.op = "PUSH" /\ Pushes(i, i.effectiveAddr, Now(REG_PC))
           /\ Continue /\ UNCHANGED flags /\ Silent
Return(i) == /\ i.op = "RET"
             /\ Set([r \in {REG_SP, REG_PC} |-> IF r = REG_SP THEN top ELSE readDirect(top)])
             /\ Reads(Uses(i)) /\ Continue /\ UNCHANGED flags /\ Silent
Pop(i) == /\ i.op = "POP"
          /\ Set([r \in {REG_SP, i.reg1} |-> IF r = i.reg1 THEN readDirect(top) ELSE top])
          /\ Reads(Uses(i)) /\ Continue /\ UNCHANGED flags /\ Silent

Prints(i) == /\ i.op = "PRINT" /\ Len(out) < MaxOut
             /\ out' = Append(out, i.effectiveAddr)
             /\ Advance /\ Reads(i.fetched) /\ Continue /\ UNCHANGED <<flags, discs, typed>>
Pass(i) == /\ i.op \in {"NEWL", "IRET"}
           /\ Advance /\ Reads(i.fetched) /\ Continue /\ UNCHANGED flags /\ Silent
\* HALT, or an operation that there is not: the counter stays behind it
Halt(i) == /\ i.op \in {"HALT", ""}
           /\ Advance /\ Reads(i.fetched) /\ After(FALSE) /\ UNCHANGED flags /\ Silent

-----------------------------------------------------------------------------
(* handleIO(): the control block b is at effectiveAddr.  There is one disc *)
(* file; mounted, the disc's number is that of the file's descriptor.      *)
Block(i) == LET At(k) == readDirect(i.effectiveAddr + k)
            IN [op |-> At(0), dev |-> At(1), block |-> At(2), addr |-> At(3)]
Words(b) == b.addr .. b.addr + blockWords - 1
Gives(i, num) == Set(One(i.reg1, num)) /\ Continue /\ UNCHANGED flags

IOTYPE_STRING == 2
IOTYPE_FLOAT == 3
ReadIn(i, b) == /\ b.op = 0 /\ b.dev = 0
                /\ IF b.block \in 0 .. IOTYPE_FLOAT /\ b.block # IOTYPE_STRING
                   THEN \E v \in Input : typed' = v /\ Gives(i, v)
                   ELSE UNCHANGED typed /\ Gives(i, 0)
                /\ Reads(Uses(i)) /\ UNCHANGED <<discs, out>>
\* a word stands for a string
WriteOut(i, b) ==
  /\ b.op = 1 /\ b.dev \in {1, 2} /\ Len(out) < MaxOut
  /\ IF b.block \in 0 .. IOTYPE_FLOAT
     THEN /\ out' = Append(out, IF b.block = IOTYPE_STRING THEN readDirect(b.addr) ELSE b.addr)
          /\ Gives(i, 1)
     ELSE UNCHANGED out /\ Gives(i, 0)
  /\ Reads(Uses(i) \cup IF b.block = IOTYPE_STRING THEN {b.addr} ELSE {})
  /\ UNCHANGED <<discs, typed>>
Mount(i, b) ==
  /\ b.op = 2
  /\ IF disc # NoFile
     THEN mounted' = mounted \cup {Opened} /\ descriptors' = descriptors \cup {Opened} /\ Gives(i, Opened)
     ELSE UNCHANGED <<mounted, descriptors>> /\ Gives(i, -1)
  /\ Reads(Uses(i) \cup {b.addr}) /\ UNCHANGED <<disc, typed, out>>
\* bound: no program closes the terminal
Dismount(i, b) ==
  /\ b.op = 3 /\ b.dev \notin 0 .. 2
  /\ mounted' = mounted \ {b.dev} /\ descriptors' = descriptors \ {b.dev}
  /\ Gives(i, IF b.dev \in descriptors THEN 0 ELSE -1)
  /\ Reads(Uses(i)) /\ UNCHANGED <<disc, typed, out>>
Blank == [k \in 1 .. blockWords |-> 0]
Create(i, b) ==
  /\ b.op = 4
  /\ disc' = [n \in 0 .. b.block - 1 |-> Blank] /\ Gives(i, 1)
  /\ Reads(Uses(i) \cup {b.addr}) /\ UNCHANGED <<descriptors, mounted, typed, out>>
\* writing behind the end of the file makes it longer
WriteBlock(i, b) ==
  /\ b.op = 1 /\ b.dev \notin {1, 2}
  /\ IF b.dev \in mounted /\ b.block >= 0
     THEN /\ disc' = [n \in DOMAIN disc \cup 0 .. b.block |->
                       IF n = b.block THEN [k \in 1 .. blockWords |-> readDirect(b.addr + k - 1)]
                       ELSE IF n \in DOMAIN disc THEN disc[n] ELSE Blank]
          /\ Gives(i, 1)
     ELSE UNCHANGED disc /\ Gives(i, 0)
  /\ Reads(Uses(i) \cup Words(b)) /\ UNCHANGED <<descriptors, mounted, typed, out>>
\* what could not be read is written to memory all the same, whatever it is
ReadBlock(i, b) ==
  /\ b.op = 0 /\ b.dev # 0
  /\ LET ok == b.dev \in mounted /\ b.block \in DOMAIN disc
     IN /\ \E j \in Junk : Changes(Uses(i), [a \in Words(b) |-> IF ok THEN disc[b.block][a - b.addr + 1] ELSE j])
        /\ Gives(i, Truth(ok))
  /\ Silent
OtherIo(i, b) == /\ b.op \notin 0 .. 4
                 /\ Gives(i, 0) /\ Reads(Uses(i)) /\ Silent
handleIO(i) ==
  i.op = "IOOP" /\ \E b \in {Block(i)} :
    \/ ReadIn(i, b) \/ WriteOut(i, b) \/ Mount(i, b) \/ Dismount(i, b) \/ Create(i, b)
    \/ WriteBlock(i, b) \/ ReadBlock(i, b) \/ OtherIo(i, b)

executeNext ==
  Running /\ \E i \in {Fetched} :
    \/ Astray(i)
    \/ /\ Uses(i) \subseteq Addresses
       /\ \/ Arithmetics(i) \/ DivideByZero(i) \/ Loads(i) \/ Store(i) \/ Compare(i) \/ Jump(i)
          \/ Call(i) \/ Push(i) \/ Return(i) \/ Pop(i) \/ Prints(i) \/ Pass(i) \/ Halt(i)
          \/ handleIO(i)
Command == \/ \E name \in DOMAIN Files : \/ \E position \in Positions : loadFile(name, position)
                                         \/ runProgram(name) \/ debugProgram(name) \/ unknownProgram(name)
           \/ \E num \in 1 .. MaxStep : step(num)
           \/ \E low, high \in Positions : low <= high /\ showMem(low, high)
           \/ showSPClose
           \/ exit
Next == Command \/ executeNext
Spec == Init /\ [][Next]_vars /\ WF_vars(executeNext)

-----------------------------------------------------------------------------
(* Properties.                                                             *)
\* Wherever a program was loaded, whatever was loaded, run or shown before,
\* whatever new memory held, and however it was stepped through: when it
\* comes to its end it has printed what it is for, and it is not killed.  What
\* the compiler wrote has also taken from the stack what it put there.
RunsAsWritten ==
  intact => /\ mode = "dead" => ready \in Faulty
            /\ mode = "prompt" /\ ~notDone =>
                 /\ ready \notin Faulty /\ out = Says(ready, typed)
                 /\ ready \in CompiledNames => registers[REG_SP] = getSize

\* A program changes its own words, the heap behind it and the stack, nothing
\* of another one.
HeapOf(name) ==
  IF name \in CompiledNames THEN {loadedPrograms[name] + Len(Files[name]) + k : k \in 0 .. HeapWords - 1} ELSE {}
OnlyOwnWords ==
  [][Running /\ intact =>
       \A a \in Addresses : \/ memory'[a] = memory[a] \/ chunk(a) \notin chunks
                            \/ a \in Own(ready) \cup HeapOf(ready) \/ a > registers'[REG_SP]]_vars

\* RUN comes back to the prompt.
RunEnds == mode = "run" /\ intact ~> mode # "run"
=============================================================================
