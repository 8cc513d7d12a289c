------------------------------ MODULE Toolchain ------------------------------
(***************************************************************************)
(* Assembler and linker together: the files are assembled, in any order,   *)
(* and linked when those on the command line are there, others or not.     *)
(***************************************************************************)
EXTENDS Assembler, FiniteSets, SequencesExt

CONSTANT Orders         \* the files as the linker's command line names them
ASSUME OrderAssumption == Orders \subseteq Seq(File)

VARIABLES order,        \* the one that was chosen
          filenames, phase, i, j, start, symtab, whole, chain, value, reported

L == INSTANCE Linker WITH stored <- object
link == <<filenames, phase, i, j, start, symtab, whole, chain, value, reported>>
vars == <<asm, order, link>>

Refused == \E f \in File : object[f] # NoObject /\ ~object[f].ok
Assembling == filenames = <<>> /\ Assemble /\ UNCHANGED <<order, link>>
Open == /\ filenames = <<>> /\ pass = 0 /\ ~Refused
        /\ order' \in Orders
        /\ \A k \in DOMAIN order' : object[order'[k]].ok
        /\ L!Open(order')
        /\ UNCHANGED asm
Linking == L!Link /\ UNCHANGED <<asm, order>>

TInit == Init /\ order = <<>> /\ L!Begin
TNext == Assembling \/ Open \/ Linking
Spec == TInit /\ [][TNext]_vars
FairSpec == Spec /\ WF_vars(TNext)

-----------------------------------------------------------------------------
(* What the source says, without passes, chains or symbol tables.          *)

Lines(text, kd, s) == {n \in DOMAIN text : text[n].kind = kd /\ text[n].name = s}
\* how many words a line stands for, of which the string takes as few as hold
\* it and its 0
Sizes(text, l, place) ==
  LET number == IF Lines(text, "constant", l.name) = {} THEN l.num
                ELSE text[CHOOSE c \in Lines(text, "constant", l.name) : TRUE].num
  IN CASE l.kind \in {"instr", "address", "data"} -> {1}
       [] l.kind = "string" -> {n \in 1 .. l.num + 1 : 4 * n > l.num /\ 4 * (n - 1) <= l.num}
       [] l.kind = "space" -> {number}
       [] l.kind = "align" -> {n \in 0 .. number - 1 : (place + n) % number = 0}
       [] OTHER -> {0}
\* where each line of a text lies, and behind the last its length
Places(text) == LET p[n \in 1 .. Len(text) + 1] ==
                      IF n = 1 THEN 0 ELSE p[n - 1] + CHOOSE w \in Sizes(text, text[n - 1], p[n - 1]) : TRUE
                IN p
Length(text) == Places(text)[Len(text) + 1]

Text(k) == src[filenames[k]]
\* where the k-th file of the executable begins
Bases == LET b[k \in 1 .. Len(filenames) + 1] == IF k = 1 THEN 0 ELSE b[k - 1] + Length(Text(k - 1))
         IN b
Addr(k, n) == Bases[k] + Places(Text(k))[n]

\* the address a name stands for in file k: its label there, or, when it is
\* imported, the label of that name in a file that exports it
Targets(k, s) ==
  LET homes == IF Lines(Text(k), "import", s) = {} THEN {k}
               ELSE {q \in DOMAIN filenames : Lines(Text(q), "export", s) # {}}
  IN UNION {{Addr(q, n) : n \in Lines(Text(q), "label", s)} : q \in homes}
\* these files, those that they need, the ones that these need, and so on, as
\* far as they are there
Asked(f) == {l.name : l \in {m \in ToSet(src[f]) : m.kind = "link"}}
Closure(F) == LET c[n \in 0 .. Cardinality(File)] ==
                    IF n = 0 THEN F ELSE c[n - 1] \cup {f \in UNION {Asked(g) : g \in c[n - 1]} : object[f].ok}
              IN c[Cardinality(File)]
Meaning(k, n) ==
  LET l == Text(k)[n]
      values == UNION {{Text(k)[c].num : c \in Lines(Text(k), "constant", l.name)},
                       {t - Addr(k, n) - 1 : t \in Targets(k, l.name)}}
  IN IF l.name = NoName THEN {l.num % Half} ELSE {(v + l.num) % Half : v \in values}

-----------------------------------------------------------------------------
(* Properties.                                                             *)

\* The executable is what the source says: every file that is asked for, here
\* or there, is in it once; each instruction, number and address is where its
\* line puts it; and its operand is the number, the constant, or the distance
\* to the label meant, in its own file or another (produce() with the chains,
\* and link() that follows them).
Complete == /\ IsInjective(filenames)
            /\ ToSet(filenames) = Closure(ToSet(order))
Executable ==
  phase = "written" /\ ~reported =>
    /\ Complete
    /\ \A k \in DOMAIN filenames : \A n \in DOMAIN Text(k) :
         Text(k)[n].kind \in {"instr", "data"} \/ (Text(k)[n].kind = "address" /\ Meaning(k, n) # {}) =>
           whole[Addr(k, n) + 1] \in Meaning(k, n)

\* The chain of an imported name, while it grows, links every reference to
\* the one before it and starts at the last.
Uses(s) == {n \in 1 .. next - 1 : /\ src[file][n].name = s
                                  /\ src[file][n].kind \in {"instr", "address"}}
Before(s, n) == {m \in Uses(s) : m < n}
LastUse(S) == IF S = {} THEN 0
           ELSE Places(src[file])[CHOOSE m \in S : \A o \in S : o <= m]
Threaded ==
  pass = 2 =>
    \A s \in Name : Known(s) = "import" =>
      /\ Value(s) = LastUse(Uses(s))
      /\ \A n \in Uses(s) : words[Places(src[file])[n] + 1] = LastUse(Before(s, n))

\* The two passes agree: the second meets every label where the first left
\* it, and deposits as many words as the object file announces.
PassesAgree ==
  /\ pass = 2 /\ next <= Len(src[file]) /\ line.kind = "label" => Value(line.name) = location
  /\ \A f \in File : object[f].ok => object[f].length = Len(object[f].words)

\* Every program is either refused or linked: no chain is followed for ever.
Finished == phase \in {"written", "astray"} \/ (Refused /\ pass = 0)
Terminates == <>Finished
=============================================================================
