---------------------------- MODULE MCToolchain ----------------------------
(* Programs for TLC: every text of a few lines behind a first one.         *)
EXTENDS Toolchain

Ln(kind, name, num) == [kind |-> kind, name |-> name, num |-> num]
Texts(first, lines, n) == {first \o s : s \in UNION {[1 .. m -> lines] : m \in 0 .. n}}

\* As the compiler writes it, a file begins with a jump over its data or with
\* the data, never with a reference to an imported name.
Calling == {Ln("label", "main", 0), Ln("import", "f", 0), Ln("import", "g", 0), Ln("instr", "f", 0),
            Ln("instr", "g", 0), Ln("address", "f", 0), Ln("instr", "main", 0)}
Filling == {Ln("link", "l", 0), Ln("align", NoName, 3)}
Mains(lines, n) == Texts(<<Ln("instr", "main", 0), Ln("label", "main", 0)>>, lines, n)
Library(n) ==
  CASE n = 1 -> <<Ln("export", "f", 0), Ln("export", "g", 0), Ln("space", NoName, 2), Ln("label", "g", 0),
                  Ln("instr", "f", 1), Ln("label", "f", 0), Ln("instr", NoName, 5)>>
    [] n = 2 -> <<Ln("constant", "g", 3), Ln("label", "f", 0), Ln("space", "g", 0), Ln("instr", "g", 0),
                  Ln("address", "f", 0), Ln("data", "g", 0), Ln("export", "f", 0)>>
    [] n = 3 -> <<Ln("label", "f", 0), Ln("export", "f", 0), Ln("export", "f", 0), Ln("export", "f", 0)>>
    [] n = 4 -> <<Ln("link", "k", 0), Ln("string", NoName, 4), Ln("export", "f", 0), Ln("align", NoName, 4), Ln("label", "f", 0),
                  Ln("import", "g", 0), Ln("string", NoName, 3), Ln("instr", "g", 0), Ln("data", NoName, 7)>>
    [] n = 5 -> <<Ln("align", "g", 0), Ln("label", "f", 0), Ln("constant", "g", 2), Ln("export", "f", 0)>>
\* what the fourth one asks for, which asks for it and for main again
Other == <<Ln("link", "l", 0), Ln("link", "m", 0), Ln("export", "g", 0), Ln("instr", NoName, 1), Ln("label", "g", 0)>>
Sets(mains, libraries) == {("m" :> m) @@ ("l" :> Library(n)) @@ ("k" :> IF n = 4 THEN Other ELSE << >>) : m \in mains, n \in libraries}
MCSources == Sets(Mains(Calling, 4), {1, 2, 3}) \cup Sets(Mains(Calling \cup Filling, 3), {1, 4, 5})
MCOrders == {<<"m">>, <<"m", "l", "m">>}
=============================================================================
