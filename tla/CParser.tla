------------------------------- MODULE CParser -------------------------------
(***************************************************************************)
(* chmarti/My Compilier/parse.h.  A text t is the sequence of the lexemes  *)
(* that LexicalAnalyzer gives, reserved words in capitals.  A parse        *)
(* function takes the position of the next lexeme and returns the node, the*)
(* position after what it read, and whether the lexeme there was looked at *)
(* and put back (ungetLexeme).  Position 0 is NODE_ERROR, the node Wrong is*)
(* NODE_WRONG: nothing was found, and it is for the caller to say whether  *)
(* that is an error.                                                       *)
(*                                                                         *)
(* The subtype of a type that was just allocated is taken to be anything   *)
(* but NODE_WRONG.  After an error nothing is parsed; the code goes on when*)
(* it was in the body of a function with END behind it, and is refused by  *)
(* the code generator.  Floats are left out.                               *)
(***************************************************************************)
EXTENDS Integers, Sequences

CONSTANT Number         \* the lexemes that are numbers -> their values

reservedWords ==
  {"PRINT", "END", "IF", "WHILE", "ELSE", "THEN", "WHEN", "UNLESS", "ELSIF", "DO", "VAR", "SWITCH", "CASE",
   "FLOAT", "INT", "STRING", "CHAR", "FUNCTION", "WITH", "IS", "GIVES", "RETURN", "CREATE", "PTR", "DESTROY",
   "READ", "GLOBAL", "CONST"}
operators == {"+", "-", "/", "*", "=", ">", "<", "AND", "OR", "%", ">=", "<=", "!=", "<<", ">>", "~", "!"}
EndOfFile == ""
marks == {"{", "}", "(", ")", ";", ":", ",", EndOfFile}
isName(s) == s \notin DOMAIN Number \cup reservedWords \cup operators \cup marks

Lex(t, i) == IF i \in 1 .. Len(t) THEN t[i] ELSE EndOfFile

NULL == 0
Node(tag, name, n, type, part) == [tag |-> tag, name |-> name, n |-> n, type |-> type, part |-> part]
Plain(tag, part) == Node(tag, "", 0, NULL, part)
Named(tag, name) == Node(tag, name, 0, NULL, << >>)
Wrong == Plain("wrong", << >>)
Read(n, i) == [n |-> n, i |-> i, u |-> FALSE]
PutBack(n, i) == [n |-> n, i |-> i, u |-> TRUE]
Error == Read(Wrong, 0)
WrongAt(i) == PutBack(Wrong, i)
Failed(r) == r.i = 0
Found(r) == ~Failed(r) /\ r.n.tag # "wrong"

-----------------------------------------------------------------------------
(* Types.  A type is the position of its first lexeme; what a PTR points   *)
(* to is the type behind it.  A reserved word that is no type makes one of *)
(* its own and stays to be read.                                           *)
Types == {"INT", "CHAR", "FLOAT"}
parseType(t, i) ==
  LET k == CHOOSE j \in i .. Len(t) + 1 : Lex(t, j) # "PTR" /\ \A p \in i .. j - 1 : Lex(t, p) = "PTR"
  IN CASE Lex(t, k) \in Types -> [type |-> i, i |-> k + 1, u |-> FALSE]
       [] Lex(t, k) \in reservedWords -> [type |-> i, i |-> k, u |-> TRUE]
       [] OTHER -> [type |-> NULL, i |-> k, u |-> TRUE]

parseCreate(t, i) ==
  LET type == parseType(t, i)
      s == Lex(t, type.i)
  IN CASE type.type = NULL -> Error
       [] s \in DOMAIN Number -> Read(Node("create", "", Number[s], type.type, << >>), type.i + 1)
       [] OTHER -> PutBack(Node("create", "", 1, type.type, << >>), type.i)

-----------------------------------------------------------------------------
(* Expressions.  Left of "=" (isLeftOp) there is no comparison with "=".   *)
RECURSIVE parseExpr(_, _, _), parseLevel(_, _, _, _), OneOrMore(_, _, _, _), parseArguments(_, _, _, _)

parseArguments(t, i, isLeftOp, exprs) ==
  LET e == parseExpr(t, i, isLeftOp)
      more == Append(exprs, e.n)
  IN CASE ~Found(e) -> Error
       [] Lex(t, e.i) = "," -> parseArguments(t, e.i + 1, isLeftOp, more)
       [] OTHER -> PutBack(Plain("arguments", more), e.i)
parseFunctionCall(fun, t, i, isLeftOp) ==
  LET first == parseExpr(t, i, isLeftOp)
      args == IF Found(first) THEN parseArguments(t, i, isLeftOp, << >>) ELSE first
  IN IF ~Failed(args) /\ Lex(t, args.i) = ")" THEN Read([args.n EXCEPT !.tag = "call", !.name = fun], args.i + 1)
     ELSE Error
parseOperand(t, i, isLeftOp) ==
  LET s == Lex(t, i)
      e == parseExpr(t, i + 1, isLeftOp)
  IN CASE s \in DOMAIN Number -> Read(Named("num", s), i + 1)
       [] s = "(" -> IF Found(e) /\ Lex(t, e.i) = ")" THEN Read(e.n, e.i + 1) ELSE Error
       [] isName(s) /\ Lex(t, i + 1) = "(" -> parseFunctionCall(s, t, i + 2, isLeftOp)
       [] isName(s) -> PutBack(Named("id", s), i + 1)
       [] s = "CREATE" -> parseCreate(t, i + 1)
       [] OTHER -> WrongAt(i)

\* the number of "~" from i on
Follows(t, i) == CHOOSE n \in 0 .. Len(t) : Lex(t, i + n) # "~" /\ \A k \in 0 .. n - 1 : Lex(t, i + k) = "~"
parseFol(t, i, isLeftOp) ==
  LET e == parseOperand(t, i, isLeftOp)
      n == Follows(t, e.i)
  IN CASE Failed(e) -> Error
       [] n = 0 -> e
       [] OTHER -> Read(Node("fol", "", n, NULL, <<e.n>>), e.i + n)

\* From the operators that bind most to those that bind least, one level for
\* each function; "^" is no lexeme, and the level of OR looks for AND again.
NotOperators == {"!"}
PowOperators == {"^"}
MDOperators  == {"*", "/", "%"}
ASOperators  == {"+", "-"}
SHOperators  == {"<<", ">>"}
CMPOperators(isLeftOp) == {"<", ">", "=", "<=", ">=", "!="} \ IF isLeftOp THEN {"="} ELSE {}
ANDOperators == {"AND"}
OROperators  == {"AND"}
Levels(isLeftOp) == <<NotOperators, PowOperators, MDOperators, ASOperators, SHOperators, CMPOperators(isLeftOp),
                      ANDOperators, OROperators>>

\* Operators of a level are taken from the left.  That there is nothing left
\* of the first one is no error here.
OneOrMore(t, left, level, isLeftOp) ==
  IF Failed(left) \/ Lex(t, left.i) \notin Levels(isLeftOp)[level] THEN left
  ELSE LET right == parseLevel(t, left.i + 1, level - 1, isLeftOp)
       IN IF ~Found(right) THEN Error
          ELSE OneOrMore(t, Read(Node("op", Lex(t, left.i), 0, NULL, <<left.n, right.n>>), right.i), level, isLeftOp)
parseLevel(t, i, level, isLeftOp) ==
  IF level = 0 THEN parseFol(t, i, isLeftOp)
  ELSE OneOrMore(t, parseLevel(t, i, level - 1, isLeftOp), level, isLeftOp)
parseExpr(t, i, isLeftOp) == [parseLevel(t, i, Len(Levels(isLeftOp)), isLeftOp) EXCEPT !.u = TRUE]

-----------------------------------------------------------------------------
(* Statements.                                                             *)
RECURSIVE parseStatement(_, _), parseStatementList(_, _, _), parseNames(_, _, _), parseMoreParams(_, _, _),
          parseAssignStmt(_, _, _, _, _)

\* names with commas between them, up to the colon
parseNames(t, i, names) ==
  CASE ~isName(Lex(t, i)) -> Error
    [] Lex(t, i + 1) = "," -> parseNames(t, i + 2, Append(names, Named("id", Lex(t, i))))
    [] Lex(t, i + 1) = ":" -> Read(Plain("names", Append(names, Named("id", Lex(t, i)))), i + 2)
    [] OTHER -> Error
Skip(t, i, s) == IF Lex(t, i) = s THEN i + 1 ELSE i
\* n is 1 for GLOBAL; CONST is noted, and nothing asks for it
parseVarStmt(t, i) ==
  LET names == parseNames(t, i, << >>)
      global == Lex(t, names.i) = "GLOBAL"
      type == parseType(t, Skip(t, Skip(t, names.i, "GLOBAL"), "CONST"))
  IN IF Failed(names) \/ type.type = NULL THEN Error
     ELSE [n |-> Node("var", "", IF global THEN 1 ELSE 0, type.type, names.n.part), i |-> type.i, u |-> type.u]

\* one name, after the type that stands before it
parseMoreParams(t, type, vars) ==
  LET more == Append(vars, Node("id", Lex(t, type.i), 0, type.type, << >>))
  IN CASE type.type = NULL \/ ~isName(Lex(t, type.i)) -> Error
       [] Lex(t, type.i + 1) = "," -> parseMoreParams(t, parseType(t, type.i + 2), more)
       [] OTHER -> PutBack(Plain("params", more), type.i + 1)
parseParams(t, i) ==
  LET type == parseType(t, i)
  IN IF type.type = NULL \/ Lex(t, i) \notin Types \cup {"PTR"} THEN PutBack(Plain("params", << >>), type.i)
     ELSE parseMoreParams(t, type, << >>)
\* A function without a body (no IS) is written to a vector that there is not.
parseFunctionDeclaration(t, i) ==
  LET params == parseParams(t, i + 2)
      gives == Lex(t, params.i) = "GIVES"
      type == parseType(t, params.i + 1)
      is == IF gives THEN type.i ELSE params.i
      body == parseStatement(t, is + 1)
  IN IF /\ isName(Lex(t, i)) /\ Lex(t, i + 1) = ":" /\ ~Failed(params) /\ (gives => type.type # NULL)
        /\ Lex(t, is) = "IS" /\ ~Failed(body) /\ Lex(t, body.i) = "END"
     THEN Read(Node("function", Lex(t, i), 0, IF gives THEN type.type ELSE NULL, <<params.n, body.n>>), body.i + 1)
     ELSE Error

\* n counts how often what the name stands for is followed; the second part
\* is the expression after "!"
parseAssignStmt(t, name, i, start, fol) ==
  LET s == Lex(t, i)
      e == parseExpr(t, i + 1, s = "!")
  IN CASE s = "=" /\ Found(e) -> PutBack(Node("assign", name, fol, NULL, <<e.n>> \o start), e.i)
       [] s = "!" /\ start = << >> /\ Found(e) -> parseAssignStmt(t, name, e.i, <<e.n>>, fol + 1)
       [] s = "~" -> parseAssignStmt(t, name, i + 1, start, fol + 1)
       [] OTHER -> Error

parseExprStmt(tag, t, i) ==
  LET e == parseExpr(t, i, FALSE) IN IF Found(e) THEN PutBack(Plain(tag, <<e.n>>), e.i) ELSE Error
parsePrintStmt(t, i) == parseExprStmt("print", t, i)
parseRetStmt(t, i) == parseExprStmt("return", t, i)
parseIdStmt(tag, t, i) == IF isName(Lex(t, i)) THEN Read(Named(tag, Lex(t, i)), i + 1) ELSE Error

\* an expression, a reserved word, and a statement
parseGuarded(word, t, i) ==
  LET e == parseExpr(t, i, FALSE)
      s == parseStatement(t, e.i + 1)
  IN IF Found(e) /\ Lex(t, e.i) = word /\ Found(s) THEN [s EXCEPT !.n = Plain("", <<e.n, s.n>>)] ELSE Error
Ended(tag, t, r) ==
  IF ~Failed(r) /\ Lex(t, r.i) = "END" THEN Read([r.n EXCEPT !.tag = tag], r.i + 1) ELSE Error
parseWhileStmt(t, i) == Ended("while", t, parseGuarded("DO", t, i))
parseUnlessStmt(t, i) == Ended("unless", t, parseGuarded("THEN", t, i))
parseWhenStmt(t, i) == Ended("when", t, parseGuarded("THEN", t, i))

\* the parts are expression, statement, and so on; the last may be a statement
Joined(r, s) == IF Failed(r) \/ ~Found(s) THEN Error ELSE [s EXCEPT !.n = Plain("", r.n.part \o @.part)]
\* The lexeme after the statement of an ELSIF is not got, and so the last one
\* that was is put back: there is no second ELSIF, and what ends a block, or
\* another statement, is seen twice.
parseElsif(t, r) ==
  LET s == Joined(r, parseGuarded("THEN", t, r.i + 1))
  IN IF s.u \/ Failed(s) THEN s ELSE [s EXCEPT !.i = @ - 1]
parseElse(t, r) ==
  LET s == parseStatement(t, r.i + 1)
  IN IF Found(s) THEN Joined(r, [s EXCEPT !.n = Plain("", <<s.n>>)]) ELSE Error
parseIfStmt(t, i) ==
  LET then == parseGuarded("THEN", t, i)
      elsif == IF ~Failed(then) /\ Lex(t, then.i) = "ELSIF" THEN parseElsif(t, then) ELSE then
  IN Ended("if", t, IF ~Failed(elsif) /\ Lex(t, elsif.i) = "ELSE" THEN parseElse(t, elsif) ELSE elsif)

\* what stands where no statement can begin ends the list
parseStatementList(t, i, stmts) ==
  LET s == parseStatement(t, i)
      more == Append(stmts, s.n)
  IN CASE Failed(s) -> Error
       [] ~Found(s) -> PutBack(Plain("list", stmts), s.i)
       [] Lex(t, s.i) \in {"}", EndOfFile} -> PutBack(Plain("list", more), s.i)
       [] Lex(t, s.i) = ";" -> parseStatementList(t, s.i + 1, more)
       [] OTHER -> Error
parseBlock(t, i) ==
  LET s == parseStatementList(t, i, << >>)
  IN IF ~Failed(s) /\ Lex(t, s.i) = "}" THEN Read(s.n, s.i + 1) ELSE Error

parseStatement(t, i) ==
  LET s == Lex(t, i)
      n == i + 1
  IN CASE s = "IF" -> parseIfStmt(t, n)
       [] s = "WHILE" -> parseWhileStmt(t, n)
       [] s = "VAR" -> parseVarStmt(t, n)
       [] s = "PRINT" -> parsePrintStmt(t, n)
       [] s = "WHEN" -> parseWhenStmt(t, n)
       [] s = "UNLESS" -> parseUnlessStmt(t, n)
       [] s = "FUNCTION" -> parseFunctionDeclaration(t, n)
       [] s = "DESTROY" -> parseIdStmt("destroy", t, n)
       [] s = "READ" -> parseIdStmt("read", t, n)
       [] s = "RETURN" -> parseRetStmt(t, n)
       [] s \in reservedWords -> Error
       [] isName(s) -> parseAssignStmt(t, s, n, << >>, 0)
       [] s = "{" -> parseBlock(t, n)
       [] OTHER -> WrongAt(i)

\* what main() has parsed; what follows the list is not looked at
Parsed(t) == parseStatementList(t, 1, << >>)
=============================================================================
