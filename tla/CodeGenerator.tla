---------------------------- MODULE CodeGenerator ----------------------------
(***************************************************************************)
(* chmarti/My Compilier/codegen.h: from the nodes of CParser to the lines  *)
(* of the first assembler, each the sequence of its words; comments are    *)
(* left out.  c is everything the functions share: the lines written so    *)
(* far, the registers in use, the numbers of the next labels, the names in *)
(* scope and what they stand for (the last declaration first), how many    *)
(* words of locals each scope and each function has, and the types, which  *)
(* are places in the text and may be overwritten.                          *)
(*                                                                         *)
(* What a function returns false for, or a register -1, makes c not ok;    *)
(* then nothing more is written.  Where the code follows a NULL, or takes  *)
(* the top of a stack that is empty, it is taken to die.  Floats are left  *)
(* out.                                                                    *)
(***************************************************************************)
EXTENDS CParser, SequencesExt

Declared(kind, name, type, dectype, loc) ==
  [kind |-> kind, name |-> name, type |-> type, dectype |-> dectype, loc |-> loc]
Start(t) ==
  [code |-> << >>, taken |-> {0}, ifs |-> 0, whens |-> 0, whiles |-> 0, funs |-> 0,
   scopeList |-> << >>, scopeDecs |-> << >>, functDecs |-> << >>, ids |-> [s \in {} |-> << >>],
   text |-> t, types |-> Append(t, "INT"), ok |-> TRUE, dead |-> FALSE]
Emit(c, lines) == IF c.ok THEN [c EXCEPT !.code = @ \o lines] ELSE c
Refuse(c) == [c EXCEPT !.ok = FALSE]
Die(c) == [c EXCEPT !.ok = FALSE, !.dead = TRUE]
Count(c, what) == IF c.ok THEN [c EXCEPT ![what] = @ + 1] ELSE c

\* the type of every number; what a type says, and what it points to
IntType(c) == Len(c.types)
VarType(c, type) == c.types[type]
ptr(c, type) == IF type # IntType(c) /\ c.text[type] = "PTR" THEN type + 1 ELSE NULL
Retyped(c, type, varType) == IF c.ok THEN [c EXCEPT !.types[type] = varType] ELSE c

numRegs == 12
Free(c) == (0 .. numRegs - 1) \ c.taken
getFreeReg(c) == IF Free(c) = {} THEN -1 ELSE Min(Free(c))
putFullReg(c, r) == IF c.ok THEN [c EXCEPT !.taken = @ \cup {r}] ELSE c
putFreeReg(c, r) == IF c.ok THEN [c EXCEPT !.taken = @ \ {r}] ELSE c

W(n) == ToString(n)
R(r) == "R" \o W(r)
Label(l) == <<l \o ":">>

-----------------------------------------------------------------------------
(* Scopes and declarations.                                                *)
Declarations(c, name) == IF name \in DOMAIN c.ids THEN c.ids[name] ELSE << >>
Top(c, name) == Head(Declarations(c, name))
IsDeclared(c, name) == Declarations(c, name) # << >>
Push(c, d) ==
  IF ~c.ok THEN c
  ELSE [c EXCEPT !.ids = [s \in DOMAIN @ \cup {d.name} |->
                            IF s = d.name THEN <<d>> \o Declarations(c, s) ELSE @[s]]]
InScope(c, d) == IF c.ok THEN [Push(c, d) EXCEPT !.scopeList = Append(@, d.name)] ELSE c
Popped(c, name) == [c EXCEPT !.ids[name] = Tail(@)]
\* the last dec names that came into scope, which need not be those whose
\* words they are: functions and parameters are on the list, too
LeaveNames(c, dec) ==
  LET n == Len(c.scopeList)
  IN [FoldLeft(Popped, c, SubSeq(c.scopeList, n - dec + 1, n)) EXCEPT !.scopeList = SubSeq(@, 1, n - dec)]
AddSP(n) == IF n > 0 THEN << <<"ADD", "SP", W(n)>> >> ELSE << >>

newFunction(c) == IF c.ok THEN [c EXCEPT !.functDecs = <<0>> \o @] ELSE c
oldFunction(c) == IF c.ok THEN [c EXCEPT !.functDecs = Tail(@)] ELSE c
newScope(c) == IF c.ok THEN [c EXCEPT !.scopeDecs = <<0>> \o @] ELSE c
oldScope(c) ==
  IF ~c.ok THEN c
  ELSE LET dec == Head(c.scopeDecs)
       IN LeaveNames([Emit(c, AddSP(dec)) EXCEPT !.scopeDecs = Tail(@), !.functDecs[1] = @ - dec], dec)

Address(d) == CASE d.dectype = "global" -> <<"#", d.name>>
                [] d.dectype = "param" -> <<"#", "FP", "+", W(d.loc + 1)>>
                [] d.dectype = "local" -> <<"#", "FP", "-", W(d.loc)>>
LoadAddress(r, place) == <<"LOAD", r>> \o place
LoadFrom(r, place) == <<"LOAD", r, "*">> \o place
Followed(r) == <<"LOAD", r, "*", r>>

-----------------------------------------------------------------------------
(* Expressions: c, the register that has the value (or -1), and its type.  *)
ExprRet(c, reg, type) == [c |-> c, reg |-> reg, type |-> type]
NoExpr(c) == ExprRet(c, -1, NULL)

RECURSIVE codeGenExpr(_, _), codeGenFol(_, _), Arguments(_, _), codeGenStmt(_, _)

\* Every "~" but the first asks whether there is a pointer to follow.
codeGenFol(e, n) ==
  LET target == ptr(e.c, e.type)
      c == Emit(e.c, <<Followed(R(e.reg))>>)
  IN CASE n = 0 \/ ~e.c.ok -> e
       [] e.type = NULL -> NoExpr(Die(e.c))
       [] target = NULL \/ VarType(c, target) # "PTR" -> NoExpr(Refuse(c))
       [] OTHER -> codeGenFol(ExprRet(c, e.reg, target), n - 1)
Fol(c, n) ==
  LET e == codeGenExpr(c, n.part[1])
  IN codeGenFol([e EXCEPT !.c = Emit(@, <<Followed(R(e.reg))>>)], n.n - 1)

\* The second operand is written even if there is no register for the first.
Second(left, n) ==
  LET right == codeGenExpr(IF left.c.dead THEN left.c ELSE [left.c EXCEPT !.ok = TRUE], n)
  IN [right EXCEPT !.c.ok = @ /\ left.c.ok]
\* The register of an index is never free again.
Indexed(left, right) ==
  ExprRet(Emit(right.c, << <<"ADD", R(left.reg), R(right.reg)>>, Followed(R(left.reg)) >>), left.reg, left.type)

\* the flag a comparison takes for its value
Compares == {"=", ">", "<", ">=", "<=", "!="}
FlagOf(op) == CASE op = "=" -> "FLAG_E" [] op = ">" -> "FLAG_G" [] op = "<" -> "FLAG_L"
                [] op = ">=" -> "FLAG_GE" [] op = "<=" -> "FLAG_LE" [] op = "!=" -> "FLAG_NE"
OpCode(op) == CASE op = "+" -> "ADD" [] op = "-" -> "SUB" [] op = "/" -> "DIV" [] op = "*" -> "MUL"
                [] op = "AND" -> "AND" [] op = "%" -> "MOD" [] op = "<<" -> "SFTL" [] op = ">>" -> "SFTR"
\* The type of the first operand, a variable's for instance, becomes INT.
Operated(left, right, op) ==
  LET l == R(left.reg)
      r == R(right.reg)
      lines == IF op \in Compares THEN << <<"CMP", l, r>>, <<"FLAG", l, FlagOf(op)>> >> ELSE << <<OpCode(op), l, r>> >>
  IN IF NULL \in {left.type, right.type} THEN NoExpr(Die(right.c))
     ELSE ExprRet(Retyped(putFreeReg(Emit(right.c, lines), right.reg), left.type, "INT"), left.reg, left.type)
Op(c, n) ==
  LET left == codeGenExpr(c, n.part[1])
      right == Second(left, n.part[2])
  IN CASE ~right.c.ok -> NoExpr(right.c)
       [] n.name = "!" -> Indexed(left, right)
       [] OTHER -> Operated(left, right, n.name)

\* the operand is written even if there is no register for it
InFreeReg(c, operand, type) ==
  LET reg == getFreeReg(c)
      d == Emit(putFullReg(c, reg), << <<"LOAD", R(reg)>> \o operand >>)
  IN IF reg = -1 THEN NoExpr(Refuse(Emit(c, << <<"LOAD", R(reg)>> \o operand >>))) ELSE ExprRet(d, reg, type)

\* register 11 is not marked as taken
Create(c, n) ==
  ExprRet(Emit(c, << <<"LOAD", "R1", W(n.n)>>, <<"PUSH", "R1">>, <<"CALL", "create">>, <<"ADD", "SP", "1">> >>),
          11, n.type)

\* What registers are in use is not saved around a call.
Arguments(c, exprs) ==
  IF exprs = << >> \/ ~c.ok THEN c
  ELSE LET e == codeGenExpr(c, Head(exprs))
       IN Arguments(putFreeReg(Emit(e.c, << <<"PUSH", R(e.reg)>> >>), e.reg), Tail(exprs))
codeGenFunctionCall(c, n) == Emit(Arguments(c, n.part), << <<"CALL", n.name>> >> \o AddSP(Len(n.part)))
Function(c, n, d) ==
  LET called == codeGenFunctionCall(c, n)
  IN IF n.tag = "call" /\ called.ok THEN ExprRet(putFullReg(called, 11), 11, d.type) ELSE NoExpr(Die(called))
Id(c, n) ==
  CASE ~IsDeclared(c, n.name) -> NoExpr(Die(c))
    [] Top(c, n.name).kind = "fun" -> Function(c, n, Top(c, n.name))
    [] OTHER -> InFreeReg(c, <<"*">> \o Address(Top(c, n.name)), Top(c, n.name).type)

codeGenExpr(c, n) ==
  CASE ~c.ok -> NoExpr(c)
    [] n.tag = "fol" -> Fol(c, n)
    [] n.tag = "op" -> Op(c, n)
    [] n.tag = "num" -> InFreeReg(c, <<n.name>>, IntType(c))
    [] n.tag = "create" -> Create(c, n)
    [] n.tag \in {"id", "call"} -> Id(c, n)
    [] OTHER -> NoExpr(Die(c))

-----------------------------------------------------------------------------
(* Statements.                                                             *)
InScopeOfItsOwn(c, n) == oldScope(codeGenStmt(newScope(c), n))
\* the value is compared with 0
Branch(c, n, jump, label) ==
  LET e == codeGenExpr(c, n)
  IN putFreeReg(Emit(e.c, << <<"CMP", R(e.reg), "0">>, <<jump, label>> >>), e.reg)

\* an expression and a statement of an if; where the value is 0 it goes on
\* behind them
IfPart(c, n, num, k) ==
  LET next == "if" \o W(num) \o "e" \o W(k)
  IN Emit(InScopeOfItsOwn(Branch(c, n.part[2 * k - 1], "JMPE", next), n.part[2 * k]),
          << <<"JMP", "ifd" \o W(num)>>, Label(next) >>)
codeGenIf(c, n) ==
  LET num == c.ifs
      len == Len(n.part)
      parts == FoldLeft(LAMBDA d, k : IfPart(d, n, num, k), Count(c, "ifs"), [k \in 1 .. len \div 2 |-> k])
  IN Emit(IF len % 2 = 1 THEN InScopeOfItsOwn(parts, n.part[len]) ELSE parts, <<Label("ifd" \o W(num))>>)

codeGenWhile(c, n) ==
  LET start == "whiles" \o W(c.whiles)
      done == "whiled" \o W(c.whiles)
      branched == Branch(Emit(Count(c, "whiles"), <<Label(start)>>), n.part[1], "JMPE", done)
  IN Emit(InScopeOfItsOwn(branched, n.part[2]), << <<"JMP", start>>, Label(done) >>)
codeGenWhen(c, n) ==
  LET label == "when" \o W(c.whens)
  IN Emit(InScopeOfItsOwn(Branch(Count(c, "whens"), n.part[1], "JMPE", label), n.part[2]), <<Label(label)>>)
\* The label has the number of the next WHEN, and whether its statement could
\* be written is not asked.
codeGenUnless(c, n) ==
  LET label == "unl" \o W(c.whens)
      branched == Branch(c, n.part[1], "JMPNE", label)
      body == codeGenStmt(newScope(branched), n.part[2])
  IN Emit(oldScope([body EXCEPT !.ok = branched.ok /\ ~body.dead]), <<Label(label)>>)

\* for READ and DESTROY, and what is assigned to
Usable(c, name) ==
  CASE ~c.ok -> c
    [] ~IsDeclared(c, name) -> Die(c)
    [] Top(c, name).kind = "fun" -> Refuse(c)
    [] OTHER -> c
codeGenRead(c, n) ==
  LET u == Usable(c, n.name)
      d == Top(c, n.name)
  IN IF ~u.ok THEN u ELSE
     Emit(c, << <<"PUSH", "#", "io">>, <<"CALL", IF VarType(c, d.type) = "CHAR" THEN "readc" ELSE "readi">>,
                <<"ADD", "SP", "1">>, <<"STORE", "R11">> \o Address(d) >>)
\* whatever the variable is, its type becomes PTR
codeGenDestroy(c, n) ==
  LET u == Usable(c, n.name)
      d == Top(c, n.name)
  IN IF ~u.ok THEN u ELSE
     Emit(Retyped(c, d.type, "PTR"),
          << LoadFrom("R1", Address(d)), <<"PUSH", "R1">>, <<"CALL", "destroy">>, <<"ADD", "SP", "1">> >>)

codeGenPrint(c, n) ==
  LET e == codeGenExpr(c, n.part[1])
  IN CASE ~e.c.ok -> e.c
       [] e.type = NULL -> Die(e.c)
       [] OTHER -> putFreeReg(Emit(e.c, << <<"PUSH", "#", "io">>, <<"PUSH", R(e.reg)>>,
                                           <<"CALL", IF VarType(e.c, e.type) = "CHAR" THEN "printc" ELSE "printi">>,
                                           <<"ADD", "SP", "2">> >>), e.reg)

codeGenCast(from, to) == {from, to} \subseteq {"INT", "CHAR", "PTR"}
\* the place in register place, and what is added to it
AddStart(c, n, place) ==
  LET sec == codeGenExpr(c, n.part[2])
  IN IF Len(n.part) = 1 THEN c
     ELSE putFreeReg(Emit(sec.c, << <<"ADD", R(place), R(sec.reg)>> >>), sec.reg)
Assigned(e, d, n) ==
  LET place == getFreeReg(e.c)
      found == Emit(IF place = -1 THEN e.c ELSE putFullReg(e.c, place),
                    <<LoadAddress(R(place), Address(d))>> \o [k \in 1 .. n.n |-> Followed(R(place))])
  IN putFreeReg(putFreeReg(Emit(AddStart(found, n, place), << <<"STORE", R(e.reg), R(place)>> >>), place), e.reg)
codeGenAssign(c, n) ==
  LET u == Usable(c, n.name)
      d == Top(c, n.name)
      e == codeGenExpr(c, n.part[1])
  IN CASE ~u.ok -> u
       [] ~e.c.ok -> e.c
       [] e.type = NULL -> Die(e.c)
       [] VarType(e.c, e.type) # VarType(e.c, d.type) /\ ~codeGenCast(VarType(e.c, e.type), VarType(e.c, d.type)) ->
            Refuse(e.c)
       [] OTHER -> Assigned(e, d, n)

\* a parameter keeps its place on the list of names for good
Params(c, params) ==
  FoldLeft(LAMBDA d, i : InScope(d, Declared("var", params[i].name, params[i].type, "param", Len(params) - i + 1)),
           c, [i \in DOMAIN params |-> i])
codeGenFunction(c, n) ==
  LET after == "funs" \o W(c.funs)
      entered == Emit(Count(c, "funs"), << <<"JMP", after>>, Label(n.name),
                        <<"PUSH", "FP">>, <<"MOV", "FP", "SP">>, <<"ADD", "FP", "1">> >>)
      body == InScopeOfItsOwn(newFunction(Params(entered, n.part[1].part)), n.part[2])
  IN Emit(oldFunction(body), << <<"LOAD", "R11", "0">>, <<"POP", "FP">>, <<"RET">>, Label(after) >>)

\* globals were declared before anything else
Local(c, name, type) ==
  IF ~c.ok THEN c
  ELSE LET d == [c EXCEPT !.scopeDecs[1] = @ + 1, !.functDecs[1] = @ + 1]
       IN InScope(d, Declared("var", name, type, "local", Head(d.functDecs)))
Locals(c, n) == Emit(FoldLeft(LAMBDA d, v : Local(d, v.name, n.type), c, n.part), << <<"SUB", "SP", W(Len(n.part))>> >>)
handleDecStmt(c, n) ==
  CASE n.tag = "function" -> codeGenFunction(InScope(c, Declared("fun", n.name, n.type, "fun", 0)), n)
    [] n.n = 1 -> c
    [] OTHER -> Locals(c, n)

\* RETURN takes the words of all the scopes of the function off the stack
\* (slip: it does not)
peekScopeNot(c) == << >>
peekScope(c) == AddSP(Head(c.functDecs))
codeGenRet(c, n) ==
  LET e == codeGenExpr(c, n.part[1])
  IN putFreeReg(Emit(e.c, << <<"MOV", "R11", R(e.reg)>> >> \o peekScope(e.c) \o << <<"POP", "FP">>, <<"RET">> >>), e.reg)

codeGenStmtList(c, n) == FoldLeft(codeGenStmt, c, n.part)
codeGenStmt(c, n) ==
  CASE ~c.ok -> c
    [] n.tag = "if" -> codeGenIf(c, n)
    [] n.tag = "return" -> codeGenRet(c, n)
    [] n.tag = "while" -> codeGenWhile(c, n)
    [] n.tag = "unless" -> codeGenUnless(c, n)
    [] n.tag = "when" -> codeGenWhen(c, n)
    [] n.tag \in {"var", "function"} -> handleDecStmt(c, n)
    [] n.tag = "assign" -> codeGenAssign(c, n)
    [] n.tag = "read" -> codeGenRead(c, n)
    [] n.tag = "destroy" -> codeGenDestroy(c, n)
    [] n.tag = "print" -> codeGenPrint(c, n)
    [] n.tag = "list" -> codeGenStmtList(c, n)
    [] OTHER -> Refuse(c)
=============================================================================
