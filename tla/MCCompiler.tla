----------------------------- MODULE MCCompiler -----------------------------
(***************************************************************************)
(* Programs for TLC.                                                       *)
(***************************************************************************)
EXTENDS Compiler

MCNumber == [s \in {"0", "1", "2", "3", "5", "9"} |->
               CASE s = "0" -> 0 [] s = "1" -> 1 [] s = "2" -> 2 [] s = "3" -> 3 [] s = "5" -> 5 [] s = "9" -> 9]
MCLiteral == {"'text'"}
MCMark == {"(", ")", "{", "}", ",", ";", ":", "=", "!=", "<", ">", "<=", ">=", "+", "-", "*", "/", "%", "&", "<|"}

Num(v) == N("number", "", v)
Var(x) == N("const_or_var", x, 0)
Bin(op, a, b) == Adding(N("binop", op, 0), <<a, b>>)
Neg(a) == Adding(N("neg", "", 0), <<a>>)
CallOf(f, args) == Adding(N("functioncall", f, Len(args)), args)
PtrTo(x) == Adding(N("get_ptr", "", 0), <<Var(x)>>)
Follow(a) == Adding(N("follow_ptr", "", 0), <<a>>)
Str(k) == N("string", "'text'", k)

Set(x, e) == Adding(N("assignment", "", 0), <<Var(x), e>>)
SetAt(p, e) == Adding(N("assign_ptr", "", 0), <<p, e>>)
Show(e) == Adding(N("print", "", 0), <<e>>)
Seq1(ss) == Adding(N("sequence", "", 0), ss)
WhileDo(e, s) == Adding(N("while", "", 0), <<e, s>>)
IfThen(e, s) == Adding(N("if", "", 0), <<e, s>>)
IfElse(e, s, t) == Adding(N("if", "else", 0), <<e, s, Adding(N("else", "", 0), <<t>>)>>)
Stop(tag) == N(tag, "", 0)
Give(e) == Adding(N("return", "", 0), <<e>>)
Sized(x, size) == N("item", x, size)
SizedBy(x, name) == [N("item", x, -1) EXCEPT !.ref_var = name]
Items(tag, items) == Adding(N(tag, "", 0), items)
Fun(f, params, ss) == Adding(N("functiondef", f, Len(params)), [k \in DOMAIN params |-> Var(params[k])] \o <<Seq1(ss)>>)
MainOf(ss) == Adding(N("main", "", 0), <<Seq1(ss)>>)
Exported(kind, f) == Adding(N("export", kind, 0), <<N("exportitem", f, 0)>>)

\* f(a, x) = a - x by way of locals, the second of them behind an array whose
\* size has a name; k() has the parameter of nobody; g and x stand for other
\* variables inside
Functions == <<
  Items("const", <<Sized("two", 2), Sized("minus", -3)>>),
  Items("global", <<Sized("g", 0), Sized("h", 0)>>),
  Fun("f", <<"a", "x">>, <<Items("local", <<SizedBy("arr", "two"), Sized("y", 0)>>),
                           Set("y", Bin("-", Var("a"), Var("x"))), Give(Var("y"))>>),
  Fun("k", << >>, <<Items("local", <<Sized("g", 0)>>), Set("g", Num(3)), Set("h", Num(1)), Give(Var("g"))>>),
  Fun("put", <<"p">>, <<SetAt(Var("p"), Bin("+", Follow(Var("p")), Num(5))), N("return", "void", 0)>>),
  Exported("function", "f")>>
Program(ss) ==
  Functions \o <<MainOf(<<Items("local", <<Sized("x", 0), Sized("y", 0)>>),
                          Set("x", Num(1)), Set("y", Num(0)), Set("g", Num(5))>> \o ss \o <<Stop("halt")>>),
                 Stop("end")>>

\* Expressions.  neg and calls with arguments only where the value is to be
\* in R1: anywhere else they are translated wrong (README, observations).
Leaf == {Num(2), Var("x"), Var("g"), Var("minus")}
Pairs(ops, E, F) == {Bin(op, e, f) : op \in ops, e \in E, f \in F}
E1 == Pairs({"-", "*", "<", "and"}, Leaf, {Num(2), Var("g")}) \cup {CallOf("k", << >>)}
InR1 == {Neg(Var("g"))}
        \cup {CallOf("f", <<Var("g"), e>>) : e \in {Var("x"), CallOf("f", <<Num(2), Var("g")>>)}}
Flat == Pairs({"-", "or"}, {Var("x"), Num(0)}, {Num(2)}) \cup Pairs({">"}, {Var("g")}, {Num(5)}) \cup {CallOf("k", << >>)}
E2 == Pairs({"-", ">=", "and", "or"}, E1, {Var("g")}) \cup Pairs({"-", "=", "and", "or"}, {Var("g"), Num(0)}, Flat)
      \cup Pairs({"!=", "and", "or", "not"}, Flat, Flat) \cup Pairs({"-", "+"}, InR1, {Var("x")})

\* if with else only where neither condition nor then-part takes a label
NoLabel == Leaf \cup InR1 \cup Pairs({"-", "*"}, Leaf, {Num(2), Var("g")})
           \cup Pairs(Relation, Leaf \cup {CallOf("k", << >>)}, {Num(2), Bin("-", Var("g"), Num(3))})

\* statements in which all that can be taken apart is different
Counting(body) == <<Set("y", Num(3)), WhileDo(Bin(">", Var("y"), Num(0)),
                                              Seq1(<<Set("y", Bin("-", Var("y"), Num(1)))>> \o body)), Show(Var("y"))>>
AtOne == Bin("=", Var("y"), Num(1))
Simple == {Show(Var("y")), Set("x", Bin("+", Var("x"), Num(2)))}
Inner == Simple \cup {IfThen(AtOne, s) : s \in Simple} \cup {IfElse(AtOne, s, Show(Num(9))) : s \in Simple}
         \cup {IfElse(AtOne, Show(Num(9)), IfElse(Bin("<", Var("y"), Num(1)), Show(Num(2)), Show(Var("x")))),
               IfThen(AtOne, Stop("break")), IfThen(AtOne, IfThen(Var("x"), Show(Num(3)))),
               Seq1(<<CallOf("put", <<PtrTo("x")>>), Show(Var("x"))>>),
               Seq1(<<Set("x", Num(2)), WhileDo(Var("x"), Set("x", Bin("-", Var("x"), Num(1)))), Show(Var("x"))>>)}
MCSources ==
  {Program(<<Show(e)>>) : e \in Leaf \cup InR1 \cup E1 \cup E2}
  \cup {Program(<<IfThen(e, Show(Num(1)))>>) : e \in InR1 \cup E1 \cup E2}
  \cup {Program(<<IfElse(e, Show(Num(1)), Show(Num(2)))>>) : e \in NoLabel}
  \cup {Program(Counting(<<s, Show(Num(5)), t>>)) : s \in Inner, t \in Simple}
  \cup {Program(<<Set("x", Num(-3)), Show(Var("x")), Set("y", PtrTo("g")), SetAt(Var("y"), Num(9)), Show(Var("g")),
                  Set("y", PtrTo("x")), Show(Bin("-", Follow(Var("y")), Var("g"))),
                  Show(Bin("%", Var("g"), Num(5))), Show(Bin("/", Var("g"), Num(2))),
                  Adding(N("printstr", "", 0), <<Str(0)>>)>>)}
  \cup {<<d>> \o Program(<<Show(Num(1))>>) :
          d \in {Exported("global", "g"), Exported("function", "nobody"),
                 Adding(Exported("function", "k"), Exported("function", "nobody").part), Items("global", <<Sized("MEMSTART", 0)>>),
                 Items("global", <<SizedBy("r", "unknown")>>),
                 Fun("q", << >>, <<Items("local", <<SizedBy("r", "unknown")>>), Give(Num(1))>>),
                 Fun("q", << >>, <<Stop("break"), Give(Num(1))>>)}}
=============================================================================
