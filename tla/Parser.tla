------------------------------- MODULE Parser -------------------------------
(***************************************************************************)
(* EEN521/compiler/parser.cpp, the parser of the language of the custom OS.*)
(* A text t is the sequence of the symbols reader::read() gives: words,    *)
(* numbers, strings and marks; a piece of assembly is one symbol.  Every   *)
(* parse function takes the position of the next symbol and returns the    *)
(* node and the position after what it read.  Position 0 is the exit after *)
(* input.error(): there nothing can be read, and whoever tries fails too.  *)
(* The form "[tag:detail=value, ...]", a node written out, is left out.      *)
(***************************************************************************)
EXTENDS Integers, Sequences, FiniteSetsExt

CONSTANTS Number,       \* the symbols that are numbers -> their values
          Literal,      \* the symbols that are quoted strings
          Mark          \* the symbols that are neither, nor words

NoSymbol == ""
isdigit(s) == s \in DOMAIN Number
isalpha(s) == s \notin DOMAIN Number \cup Literal \cup Mark \cup {NoSymbol}

Sym(t, i) == IF i \in 1 .. Len(t) THEN t[i] ELSE NoSymbol
After(i) == IF i = 0 THEN 0 ELSE i + 1
Expect(t, i, s) == IF i # 0 /\ Sym(t, i) = s THEN i + 1 ELSE 0
When(ok, i) == IF ok THEN i ELSE 0

N(tag, detail, value) ==
  [tag |-> tag, detail |-> detail, ref_var |-> "", value |-> value, part |-> << >>]
Adding(n, parts) == [n EXCEPT !.part = @ \o parts]
Read(n, i) == [n |-> n, i |-> i]

\* the number of the string at i: strings are counted as they are parsed
str_ind(t, i) == Cardinality({j \in 1 .. i - 1 : t[j] \in Literal})

-----------------------------------------------------------------------------
RECURSIVE parse_expression(_, _), parse_statement(_, _), parse_sequence(_, _, _),
          parse_arguments(_, _, _, _), parse_items(_, _, _), parse_const(_, _, _),
          parse_parameters(_, _, _), parse_names(_, _, _, _)

\* The arguments behind "(" in an expression, or in a statement, where a word
\* is always a name and a string is refused.  A "(" is refused in both.
parse_arguments(t, i, n, statement) ==
  LET s == Sym(t, i)
      arg == IF statement /\ isalpha(s) THEN Read(N("const_or_var", s, 0), i + 1)
             ELSE parse_expression(t, i)
      more == Adding(n, <<arg.n>>)
      next == Sym(t, arg.i)
  IN CASE s = ")" -> Read(n, i + 1)
       [] ~(isalpha(s) \/ isdigit(s) \/ s \in {"*", "&"} \/ (~statement /\ s \in Literal)) -> Read(n, 0)
       [] next = ")" -> Read(more, arg.i + 1)
       [] next = "," -> parse_arguments(t, arg.i + 1, more, statement)
       [] OTHER -> Read(more, 0)
\* (slip: the arguments are not counted)
parse_call_uncounted(t, i, statement) ==
  parse_arguments(t, When(isalpha(Sym(t, i)), Expect(t, i + 1, "(")), N("functioncall", Sym(t, i), 0), statement)
parse_call(t, i, statement) ==
  LET r == parse_arguments(t, When(isalpha(Sym(t, i)), Expect(t, i + 1, "(")),
                           N("functioncall", Sym(t, i), 0), statement)
  IN Read([r.n EXCEPT !.value = Len(r.n.part)], r.i)

\* what stands behind "*": an expression in brackets, or a variable
parse_pointer(t, i) ==
  LET r == parse_expression(t, i)
  IN Read(r.n, When(Sym(t, i) = "(" \/ r.n.tag = "const_or_var", r.i))

parse_expression(t, i) ==
  LET s == Sym(t, i)
      one == parse_expression(t, i + 1)
      With(tag) == Read(Adding(N(tag, "", 0), <<one.n>>), one.i)
  IN CASE i = 0 -> Read(N("error", "", 0), 0)
       [] isdigit(s) -> Read(N("number", "", Number[s]), i + 1)
       [] s = "char" ->
            LET str == parse_expression(t, Expect(t, one.i, "of"))
            IN Read(Adding(N("stringindex", "", 0), <<one.n, str.n>>),
                    When(isalpha(Sym(t, one.i + 1)), str.i))
       [] s = "call" -> parse_call(t, i + 1, FALSE)
       [] s = "neg" -> With("neg")
       [] s = "mallocStat" ->
            LET size == Sym(t, i + 1)
            IN Read([N("malloc_stat", "", IF isdigit(size) THEN Number[size] ELSE -1)
                       EXCEPT !.ref_var = IF isdigit(size) THEN "" ELSE size],
                    When(isdigit(size) \/ isalpha(size), i + 2))
       [] s = "*" -> LET r == parse_pointer(t, i + 1)
                     IN Read(Adding(N("follow_ptr", "", 0), <<r.n>>), r.i)
       [] s = "&" -> Read(With("get_ptr").n, When(one.n.tag = "const_or_var", one.i))
       [] s = "(" ->
            LET two == parse_expression(t, After(one.i))
            IN Read(Adding(N("binop", Sym(t, one.i), 0), <<one.n, two.n>>), Expect(t, two.i, ")"))
       [] s \in Literal -> Read(N("string", s, str_ind(t, i)), i + 1)
       [] s = "inchar" -> Read(N("inchar", "", 0), i + 1)
       [] isalpha(s) -> Read(N("const_or_var", s, 0), i + 1)
       [] OTHER -> Read(N("error", "", 0), 0)

-----------------------------------------------------------------------------
\* names with sizes, of local and global
parse_items(t, i, n) ==
  LET size == Sym(t, i + 2)
      sized == Sym(t, i + 1) = ":"
      item == [N("item", Sym(t, i), IF ~sized THEN 0 ELSE IF isdigit(size) THEN Number[size] ELSE -1)
                 EXCEPT !.ref_var = IF sized /\ isalpha(size) THEN size ELSE ""]
      j == IF sized THEN i + 3 ELSE i + 1
  IN IF i = 0 \/ ~isalpha(Sym(t, i)) \/ (sized /\ ~isalpha(size) /\ ~isdigit(size)) THEN Read(n, 0)
     ELSE IF Sym(t, j) = "," THEN parse_items(t, j + 1, Adding(n, <<item>>))
     ELSE Read(Adding(n, <<item>>), j)

parse_const(t, i, n) ==
  LET neg == Sym(t, i + 2) = "-"
      j == IF neg THEN i + 3 ELSE i + 2
      item == N("item", Sym(t, i), IF neg THEN -Number[Sym(t, j)] ELSE Number[Sym(t, j)])
  IN IF ~isalpha(Sym(t, i)) \/ Expect(t, i + 1, "=") = 0 \/ ~isdigit(Sym(t, j)) THEN Read(n, 0)
     ELSE IF Sym(t, j + 1) = "," THEN parse_const(t, j + 2, Adding(n, <<item>>))
     ELSE Read(Adding(n, <<item>>), j + 1)

\* the statements behind "{" up to "}", with ";" between them
parse_next(t, s, n) ==
  CASE Sym(t, s.i) = ";" -> parse_sequence(t, s.i + 1, Adding(n, <<s.n>>))
    [] Sym(t, s.i) = "}" -> Read(Adding(n, <<s.n>>), s.i + 1)
    [] OTHER -> Read(Adding(n, <<s.n>>), 0)
parse_sequence(t, i, n) == parse_next(t, parse_statement(t, i), n)
parse_block(t, i) == parse_sequence(t, Expect(t, i, "{"), N("sequence", "", 0))

parse_statement(t, i) ==
  LET s == Sym(t, i)
      e == parse_expression(t, i + 1)
      Two(tag, first, second) == Read(Adding(N(tag, "", 0), <<first.n, second.n>>), second.i)
  IN CASE i = 0 -> Read(N("error", "", 0), 0)
       [] s \in {"print", "printchar", "printstr"} -> Read(Adding(N(s, "", 0), <<e.n>>), e.i)
       [] s = "char" ->
            LET target == parse_expression(t, i)
                v == parse_expression(t, Expect(t, target.i, "="))
            IN Read(Adding(target.n, <<v.n>>), v.i)
       [] s \in {"halt", "break"} -> Read(N(s, "", 0), i + 1)
       [] s = "while" -> Two("while", e, parse_statement(t, Expect(t, e.i, "do")))
       [] s \in {"local", "global"} -> parse_items(t, i + 1, N(s, "", 0))
       [] s = "const" -> parse_const(t, i + 1, N("const", "", 0))
       [] s = "*" -> LET p == parse_pointer(t, i + 1)
                     IN Two("assign_ptr", p, parse_expression(t, Expect(t, p.i, "=")))
       [] s = "return" -> IF Sym(t, i + 1) = "}" THEN Read(N("return", "void", 0), i + 1)
                          ELSE Read(Adding(N("return", "", 0), <<e.n>>), e.i)
       [] s = "if" ->
            LET then == parse_statement(t, Expect(t, e.i, "then"))
                else == parse_statement(t, After(then.i))
                parts == <<e.n, then.n>>
            IN IF Sym(t, then.i) = "else"
               THEN Read(Adding(N("if", "else", 0),
                                parts \o <<Adding(N("else", "", 0), <<else.n>>)>>), else.i)
               ELSE Read(Adding(N("if", "", 0), parts), then.i)
       [] s = "call" -> parse_call(t, i + 1, TRUE)
       [] s = "<|" -> Read(N("assembly", Sym(t, i + 1), 0), i + 2)
       [] isalpha(s) /\ s # "else" ->
            \* a "-" negates the value of the node, which only a number has
            LET neg == Sym(t, i + 2) = "-"
                v == parse_expression(t, IF neg THEN i + 3 ELSE i + 2)
                value == IF neg THEN [v.n EXCEPT !.value = -@] ELSE v.n
            IN Read(Adding(N("assignment", "", 0), <<N("const_or_var", s, 0), value>>),
                    When(Sym(t, i + 1) = "=", v.i))
       [] s = "{" -> parse_block(t, i)
       [] OTHER -> Read(N("error", "", 0), 0)

-----------------------------------------------------------------------------
parse_parameters(t, i, n) ==
  LET s == Sym(t, i)
      more == Adding(n, <<N("const_or_var", s, 0)>>)
  IN CASE s = ")" -> Read(n, i + 1)
       [] ~isalpha(s) -> Read(n, 0)
       [] Sym(t, i + 1) = ")" -> Read(more, i + 2)
       [] Sym(t, i + 1) = "," -> parse_parameters(t, i + 2, more)
       [] OTHER -> Read(more, 0)

parse_names(t, i, n, item) ==
  LET more == Adding(n, <<N(item, Sym(t, i), 0)>>)
  IN IF ~isalpha(Sym(t, i)) THEN Read(n, 0)
     ELSE IF Sym(t, i + 1) = "," THEN parse_names(t, i + 2, more, item)
     ELSE Read(more, i + 2)

Under(n, r) == Read(Adding(n, <<r.n>>), r.i)
parse_body(t, head) == Under([head.n EXCEPT !.value = Len(head.n.part)], parse_block(t, head.i))
\* with the ";" behind it, if every item may be
Passing(r, Allowed(_)) == Read(r.n, When(\A k \in DOMAIN r.n.part : Allowed(r.n.part[k]), After(r.i)))
Reserved == {"MEMSTART", "MEMAVAIL"}
parse_top_level(t, i) ==
  LET s == Sym(t, i)
      detail == Sym(t, i + 1)
  IN CASE i = 0 -> Read(N("error", "", 0), 0)
       [] s = "function" ->
            parse_body(t, parse_parameters(t, When(isalpha(detail), Expect(t, i + 2, "(")),
                                           N("functiondef", detail, 0)))
       [] s = "global" ->
            Passing(parse_items(t, i + 1, N("global", "", 0)), LAMBDA item : item.detail \notin Reserved)
       [] s = "const" -> Passing(parse_const(t, i + 1, N("const", "", 0)), LAMBDA item : TRUE)
       [] s \in {"import", "export"} ->
            LET r == parse_names(t, i + 2, N(s, detail, 0), IF s = "import" THEN "importitem" ELSE "exportitem")
            IN Read(r.n, When(detail \in {"function", "global"}, r.i))
       [] s = "main" -> Under(N("main", "", 0), parse_block(t, i + 1))
       [] s = "<|" -> Read(N("assembly", Sym(t, i + 1), 0), i + 3)
       [] s = "end" -> Read(N("end", "", 0), i + 1)
       [] OTHER -> Read(N("error", "", 0), 0)
=============================================================================
