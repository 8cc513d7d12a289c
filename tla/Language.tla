------------------------------ MODULE Language ------------------------------
(***************************************************************************)
(* The language itself, for comparison with what the compiler makes of it: *)
(* Text gives the symbols of a program, Meaning what it prints, read off   *)
(* its nodes.  Both stand beside the compiler and use none of it but the   *)
(* shape of a node.  No pointer arithmetic, characters or assembly here.   *)
(***************************************************************************)
EXTENDS Parser, SequencesExt

Numeral(v) == CHOOSE s \in DOMAIN Number : Number[s] = v
Between(texts, s) == IF texts = << >> THEN << >>
                     ELSE FoldLeft(LAMBDA t, u : t \o <<s>> \o u, texts[1], Tail(texts))
Each(Op(_), parts) == [k \in DOMAIN parts |-> Op(parts[k])]

RECURSIVE Text(_)
Item(n) == IF n.tag # "item" \/ n.value = 0 THEN <<n.detail>>
           ELSE <<n.detail, ":", IF n.value > 0 THEN Numeral(n.value) ELSE n.ref_var>>
Named(n) == <<n.detail, "=">> \o IF n.value < 0 THEN <<"-", Numeral(-n.value)>> ELSE <<Numeral(n.value)>>
Text(n) ==
  LET p(k) == Text(n.part[k])
      Arguments == Between(Each(Text, SubSeq(n.part, 1, n.value)), ",")
  IN CASE n.tag = "number" -> <<Numeral(n.value)>>
       [] n.tag \in {"const_or_var", "string"} -> <<n.detail>>
       [] n.tag = "binop" -> <<"(">> \o p(1) \o <<n.detail>> \o p(2) \o <<")">>
       [] n.tag = "neg" -> <<"neg">> \o p(1)
       [] n.tag = "get_ptr" -> <<"&">> \o p(1)
       [] n.tag = "follow_ptr" -> <<"*">> \o p(1)
       [] n.tag = "functioncall" -> <<"call", n.detail, "(">> \o Arguments \o <<")">>
       [] n.tag = "assignment" ->
            p(1) \o <<"=">> \o IF n.part[2].tag = "number" /\ n.part[2].value < 0
                               THEN <<"-", Numeral(-n.part[2].value)>> ELSE p(2)
       [] n.tag = "assign_ptr" -> <<"*">> \o p(1) \o <<"=">> \o p(2)
       [] n.tag \in {"print", "printstr"} -> <<n.tag>> \o p(1)
       [] n.tag = "sequence" -> <<"{">> \o Between(Each(Text, n.part), ";") \o <<"}">>
       [] n.tag = "while" -> <<"while">> \o p(1) \o <<"do">> \o p(2)
       [] n.tag = "if" -> <<"if">> \o p(1) \o <<"then">> \o p(2)
                          \o IF n.detail = "else" THEN <<"else">> \o Text(n.part[3].part[1]) ELSE << >>
       [] n.tag \in {"break", "halt", "end"} -> <<n.tag>>
       [] n.tag = "return" -> <<"return">> \o IF n.detail = "void" THEN << >> ELSE p(1)
       [] n.tag = "local" -> <<"local">> \o Between(Each(Item, n.part), ",")
       [] n.tag = "global" -> <<"global">> \o Between(Each(Item, n.part), ",") \o <<";">>
       [] n.tag = "const" -> <<"const">> \o Between(Each(Named, n.part), ",") \o <<";">>
       [] n.tag \in {"import", "export"} -> <<n.tag, n.detail>> \o Between(Each(Item, n.part), ",") \o <<";">>
       [] n.tag = "functiondef" -> <<"function", n.detail, "(">> \o Arguments \o <<")">> \o p(n.value + 1)
       [] n.tag = "main" -> <<"main">> \o p(1)
TextOf(prog) == FlattenSeq(Each(Text, prog))

-----------------------------------------------------------------------------
(* What a program must have to be one.                                     *)
TopLevel(prog, tag) == {n \in Range(prog) : n.tag = tag}
ItemsOf(ns) == UNION {Range(n.part) : n \in ns}
Names(ns) == {n.detail : n \in ns}
RECURSIVE Breaks(_), LocalItems(_)
\* whether a break stands outside of every loop
Breaks(n) == n.tag = "break" \/ (n.tag # "while" /\ \E p \in Range(n.part) : Breaks(p))
LocalItems(n) == IF n.tag = "local" THEN Range(n.part) ELSE UNION {LocalItems(p) : p \in Range(n.part)}
WellFormed(prog) ==
  LET named == Names(TopLevel(prog, "functiondef")) \cup Names(ItemsOf(TopLevel(prog, "global")))
      sized == ItemsOf(TopLevel(prog, "global")) \cup UNION {LocalItems(n) : n \in Range(prog)}
  IN /\ Names(ItemsOf(TopLevel(prog, "export"))) \subseteq named
     /\ {n.ref_var : n \in {i \in sized : i.value < 0}} \subseteq Names(ItemsOf(TopLevel(prog, "const")))
     /\ named \cap Reserved = {}
     /\ ~\E n \in Range(prog) : Breaks(n)

-----------------------------------------------------------------------------
(* A state of the running program: what the variables of each activation   *)
(* hold (activation 0 has the globals), how many activations there are,    *)
(* what was printed, and whether the statements go on or are being left.   *)
Start == [var |-> << >>, depth |-> 1, out |-> << >>, flow |-> "on", result |-> 0]
Where(s, name) == IF <<s.depth, name>> \in DOMAIN s.var THEN <<s.depth, name>> ELSE <<0, name>>
Put(s, x, v) == [s EXCEPT !.var = [y \in DOMAIN @ \cup {x} |-> IF y = x THEN v ELSE @[y]]]
StringValue(k) == 1000 + k        \* stands for the address of a string
True(v) == v # 0
Bool(b) == IF b THEN 1 ELSE 0

Apply(op, a, b) ==
  CASE op = "+" -> a + b [] op = "-" -> a - b [] op = "*" -> a * b
    [] op = "/" -> a \div b [] op = "%" -> a % b
    [] op = "<" -> Bool(a < b) [] op = ">" -> Bool(a > b) [] op = "<=" -> Bool(a <= b)
    [] op = ">=" -> Bool(a >= b) [] op = "=" -> Bool(a = b) [] op = "!=" -> Bool(a # b)
    [] op = "and" -> Bool(True(a) /\ True(b)) [] op = "or" -> Bool(True(a) \/ True(b))
    [] op = "not" -> Bool(~True(a))

Consts(prog) == [x \in UNION {{p.part[k].detail : k \in DOMAIN p.part} : p \in {q \in Range(prog) : q.tag = "const"}} |->
                   LET p == CHOOSE q \in Range(prog) : q.tag = "const" /\ \E k \in DOMAIN q.part : q.part[k].detail = x
                   IN p.part[CHOOSE k \in DOMAIN p.part : p.part[k].detail = x].value]
Definition(prog, name) == CHOOSE p \in Range(prog) : p.tag = "functiondef" /\ p.detail = name

RECURSIVE Eval(_, _, _), Run(_, _, _), EvalAll(_, _, _, _)
\* the values of the arguments, the last of them evaluated first
EvalAll(prog, args, k, s) ==
  IF k > Len(args) THEN [vs |-> << >>, s |-> s]
  ELSE LET rest == EvalAll(prog, args, k + 1, s)
           r == Eval(prog, args[k], rest.s)
       IN [vs |-> <<r.v>> \o rest.vs, s |-> r.s]
Eval(prog, n, s) ==
  LET Gives(v) == [v |-> v, s |-> s]
  IN CASE n.tag = "number" -> Gives(n.value)
       [] n.tag = "string" -> Gives(StringValue(n.value))
       [] n.tag = "const_or_var" -> Gives(IF n.detail \in DOMAIN Consts(prog) THEN Consts(prog)[n.detail]
                                          ELSE s.var[Where(s, n.detail)])
       [] n.tag = "get_ptr" -> Gives(Where(s, n.part[1].detail))
       [] n.tag = "follow_ptr" -> LET r == Eval(prog, n.part[1], s) IN [r EXCEPT !.v = r.s.var[@]]
       [] n.tag = "neg" -> LET r == Eval(prog, n.part[1], s) IN [r EXCEPT !.v = -@]
       [] n.tag = "binop" -> LET a == Eval(prog, n.part[1], s)
                                 b == Eval(prog, n.part[2], a.s)
                             IN [v |-> Apply(n.detail, a.v, b.v), s |-> b.s]
       [] n.tag = "functioncall" ->
            LET f == Definition(prog, n.detail)
                args == EvalAll(prog, n.part, 1, s)
                inside == [args.s EXCEPT !.depth = @ + 1]
                bound == FoldLeft(LAMBDA t, k : Put(t, <<t.depth, f.part[k].detail>>, args.vs[k]),
                                  inside, [k \in 1 .. f.value |-> k])
                done == Run(prog, f.part[f.value + 1], bound)
                kept == {x \in DOMAIN done.var : x[1] < done.depth}
            IN [v |-> done.result,
                s |-> [done EXCEPT !.depth = @ - 1, !.var = [x \in kept |-> @[x]],
                                   !.flow = IF @ = "return" THEN "on" ELSE @]]

Run(prog, n, s) ==
  LET Value(k) == Eval(prog, n.part[k], s)
      Say(v, t) == [t EXCEPT !.out = Append(@, v)]
  IN CASE s.flow # "on" -> s
       [] n.tag = "sequence" -> FoldLeft(LAMBDA t, p : Run(prog, p, t), s, n.part)
       [] n.tag \in {"print", "printstr"} -> Say(Value(1).v, Value(1).s)
       [] n.tag = "assignment" -> LET r == Value(2) IN Put(r.s, Where(r.s, n.part[1].detail), r.v)
       [] n.tag = "assign_ptr" -> LET r == Value(2)
                                      p == Eval(prog, n.part[1], r.s)
                                  IN Put(p.s, p.v, r.v)
       [] n.tag = "local" -> FoldLeft(LAMBDA t, p : Put(t, <<t.depth, p.detail>>, 0), s, n.part)
       [] n.tag = "functioncall" -> Eval(prog, n, s).s
       [] n.tag = "if" -> LET r == Value(1)
                          IN IF True(r.v) THEN Run(prog, n.part[2], r.s)
                             ELSE IF n.detail = "else" THEN Run(prog, n.part[3].part[1], r.s) ELSE r.s
       [] n.tag = "while" -> LET r == Value(1)
                                 t == Run(prog, n.part[2], r.s)
                             IN IF ~True(r.v) THEN r.s
                                ELSE IF t.flow = "break" THEN [t EXCEPT !.flow = "on"]
                                ELSE Run(prog, n, t)
       [] n.tag \in {"break", "halt"} -> [s EXCEPT !.flow = n.tag]
       [] n.tag = "return" -> IF n.detail = "void" THEN [s EXCEPT !.flow = "return"]
                              ELSE [Value(1).s EXCEPT !.flow = "return", !.result = Value(1).v]

Meaning(prog) ==
  LET Globals == [x \in {<<0, v>> : v \in UNION {{p.part[k].detail : k \in DOMAIN p.part} :
                                                p \in {q \in Range(prog) : q.tag = "global"}}} |-> 0]
  IN Run(prog, (CHOOSE p \in Range(prog) : p.tag = "main").part[1], [Start EXCEPT !.var = Globals]).out
=============================================================================
