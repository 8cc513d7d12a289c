------------------------------ MODULE CCompiler ------------------------------
(***************************************************************************)
(* chmarti/My Compilier: the routines that codeGenSetup() writes in front  *)
(* of every program, what codeGenEnd() writes behind it, and main() of     *)
(* comp.cpp.  The routines find their arguments from FP + 2 on and keep    *)
(* their locals below FP.  HP is the first free block of the heap; a block *)
(* begins with its size, and a free one has the address of the next behind *)
(* it.  Names of the lines that follow: what R1 and R2 are used for.       *)
(***************************************************************************)
EXTENDS CodeGenerator

Entering(name) == << Label(name), <<"PUSH", "FP">>, <<"MOV", "FP", "SP">>, <<"ADD", "FP", "1">> >>
Leaving == << <<"POP", "FP">>, <<"RET">> >>
Arg(n) == <<"#", "FP", "+", n>>
Loc(n) == <<"#", "FP", "-", n>>
HP == <<"#", "HP">>
Get(place) == LoadFrom("R1", place)
Store == <<"STORE", "R1", "R2">>
Put(place) == << LoadAddress("R2", place), Store >>
PutWhere(place) == << LoadAddress("R2", place), Followed("R2"), Store >>
Number1(n) == <<"LOAD", "R1", n>>
Number2(n) == <<"LOAD", "R2", n>>
With2(op) == <<op, "R1", "R2">>
\* on with the next line if R1 and R2 compare so, else at the label
Unless(flag, label) == << <<"CMP", "R1", "R2">>, <<"FLAG", "R1", flag>>, <<"CMP", "R1", "0">>, <<"JMPE", label>> >>

Constants ==
  << <<".define", "IOTYPE_CHAR", "0">>, <<".define", "IOTYPE_INT", "1">>, <<".define", "IOTYPE_STRING", "2">>,
     <<".define", "IOTYPE_FLOAT", "3">>, <<".define", "FLAG_L", "0">>, <<".define", "FLAG_G", "1">>,
     <<".define", "FLAG_E", "2">>, <<".define", "FLAG_LE", "3">>, <<".define", "FLAG_GE", "4">>,
     <<".define", "FLAG_NE", "5">>, <<".define", "FLAG_RUN", "6">>, <<".define", "FLAG_Z", "7">> >>
ControlBlock ==
  << Label("io"), <<"io_op:", ".data", "1">>, <<"io_dev:", ".data", "1">>, <<"io_block:", ".data", "IOTYPE_INT">>,
     <<"io_addr:", ".data", "0">> >>

\* printc, printf and printi, of the control block and the value; and readi,
\* readf and readc, of the control block
SetBlock(n, type) == << Number1(n), Store, <<"STORE", "R1", "R2", "+", "1">>, Number1(type), <<"STORE", "R1", "R2", "+", "2">> >>
PrintRoutine(name, type) ==
  Entering(name) \o << LoadFrom("R2", Arg("3")), LoadFrom("R3", Arg("2")) >> \o SetBlock("1", type)
  \o << <<"STORE", "R3", "R2", "+", "3">>, <<"IOOP", "R1", "R2">> >> \o Leaving
ReadRoutine(name, type) ==
  Entering(name) \o << LoadFrom("R2", Arg("2")) >> \o SetBlock("0", type) \o << <<"IOOP", "R11", "R2">> >> \o Leaving

-----------------------------------------------------------------------------
(* create: the words that are wanted, made even, are taken from the front  *)
(* of the first free block that has as many; what is left of it is a block *)
(* of its own.  FP - 1 is the block looked at, FP - 2 the one before it.   *)
MakeEven ==
  << Get(Arg("2")), Number2("2"), With2("MOD"), Number2("0") >> \o Unless("FLAG_NE", "destroyif0e1")
  \o << Get(Arg("2")), Number2("1"), With2("ADD") >> \o Put(Arg("2"))
  \o << <<"JMP", "destroyifd0">>, Label("destroyif0e1"), Label("destroyifd0") >>
\* FP - 3 has the place of its size, FP - 4 that of what is left
Split ==
  << <<"SUB", "SP", "1">>, <<"SUB", "SP", "1">>, Get(Loc("1")), Number2("1"), With2("SUB") >> \o Put(Loc("3"))
  \o << Get(Loc("1")), LoadFrom("R2", Arg("2")), With2("ADD") >> \o Put(Loc("4"))
  \o << Get(Loc("3")), Followed("R1"), LoadFrom("R2", Arg("2")), With2("SUB") >> \o PutWhere(Loc("4"))
  \o << Get(Loc("4")), Number2("1"), With2("ADD") >> \o Put(Loc("4"))
  \o << Get(Loc("1")), Followed("R1") >> \o PutWhere(Loc("4"))
  \o << Get(Arg("2")) >> \o PutWhere(Loc("3"))
Unlink ==
  << Get(Loc("2")), Number2("0") >> \o Unless("FLAG_NE", "destroyif1e1")
  \o << Get(Loc("4")) >> \o PutWhere(Loc("2")) \o << <<"JMP", "destroyifd1">>, Label("destroyif1e1"), Get(Loc("4")) >> \o Put(HP)
  \o << Label("destroyifd1") >>
Giving(words) == << <<"MOV", "R11", "R1">>, <<"ADD", "SP", words>> >> \o Leaving \o << <<"ADD", "SP", "2">> >>
CreateRoutine ==
  Entering("create") \o << <<"SUB", "SP", "1">>, <<"SUB", "SP", "1">>, Number1("0") >> \o Put(Loc("2"))
  \o << Get(HP) >> \o Put(Loc("1")) \o MakeEven
  \o << Label("destroywhiles0"), Get(Loc("1")), Number2("0") >> \o Unless("FLAG_NE", "destroywhiled0")
  \o << Get(Arg("2")), LoadFrom("R2", Loc("1")), <<"LOAD", "R3", "1">>, <<"SUB", "R2", "R3">>, Followed("R2") >>
  \o Unless("FLAG_LE", "destroywhen0") \o Split \o Unlink \o << Get(Loc("1")) >> \o Giving("4")
  \o << Label("destroywhen0"), Get(Loc("1")) >> \o Put(Loc("2")) \o << Get(Loc("1")), Followed("R1") >> \o Put(Loc("1"))
  \o << <<"JMP", "destroywhiles0">>, Label("destroywhiled0"), Number1("0") >> \o Giving("2")
  \o << <<"LOAD", "R11", "0">> >> \o Leaving

\* destroy: the block becomes the first free one
DestroyRoutine ==
  Entering("destroy") \o << Get(HP) >> \o PutWhere(Arg("2")) \o << Get(Arg("2")) >> \o Put(HP)
  \o << Number1("1"), <<"MOV", "R11", "R1">> >> \o Leaving \o << <<"LOAD", "R11", "0">> >> \o Leaving

-----------------------------------------------------------------------------
(* The globals of a program, wherever they are declared (symbolList); they *)
(* are in scope from the start.                                            *)
RECURSIVE Globals(_)
Globals(n) == CASE n.tag = "var" /\ n.n = 1 -> [k \in DOMAIN n.part |-> [n.part[k] EXCEPT !.type = n.type]]
                [] n.tag = "var" -> << >>
                [] OTHER -> FlattenSeq([k \in DOMAIN n.part |-> Globals(n.part[k])])
codeGenVars(c, n) ==
  FoldLeft(LAMBDA d, v : Push(Emit(d, << Label(v.name) \o <<".data", "0">> >>), Declared("var", v.name, v.type, "global", 0)),
           c, Globals(n))

Library ==
  << <<"JMP", "main">> >> \o Constants \o ControlBlock
  \o PrintRoutine("printc", "IOTYPE_CHAR") \o PrintRoutine("printf", "IOTYPE_FLOAT") \o PrintRoutine("printi", "IOTYPE_INT")
  \o ReadRoutine("readi", "IOTYPE_INT") \o ReadRoutine("readf", "IOTYPE_FLOAT") \o ReadRoutine("readc", "IOTYPE_CHAR")
  \o CreateRoutine \o DestroyRoutine \o << <<"HP:", ".data", "0">> >>
\* register 11 comes with the first address behind the program: one free
\* block of 1024 words, whatever memory there is
Beginning ==
  << Label("main"), <<"LOAD", "R1", "1024">>, <<"STORE", "R1", "R11">>, <<"ADD", "R11", "1">>, Number1("0"),
     <<"STORE", "R1", "R11">>, <<"STORE", "R11">> \o HP, <<"MOV", "FP", "SP">>, <<"PUSH", "FP">> >>
codeGenSetup(c, n) == newFunction(newScope(Emit(codeGenVars(Emit(c, Library), n), Beginning)))
codeGenEnd(c) == Emit(c, AddSP(Head(c.scopeDecs)) \o << <<"POP", "FP">>, <<"HALT">> >>)

\* main(): without a tree nothing is written; otherwise what could be
Program(t, n) == codeGenEnd(codeGenStmt(codeGenSetup(Start(t), n), n))
Compiled(t) == LET r == Parsed(t) IN IF Failed(r) THEN Die(Start(t)) ELSE Program(t, r.n)
=============================================================================
