------------------------------ MODULE Assembler ------------------------------
(***************************************************************************)
(* The assembler of EEN521/assembler/assemble.cpp: it reads its source     *)
(* twice.  The first pass finds out where everything lies; the second      *)
(* produces the words.  A reference to a label becomes its distance; the   *)
(* references to an imported name are threaded on a chain: each holds the  *)
(* location of the one before, 0 ends the chain, and the object file tells *)
(* the linker where the last one is.                                       *)
(*                                                                         *)
(* A source line is a record: the text is tokenised already.  A word is    *)
(* its low half, the operand; the upper half holds the opcode and the      *)
(* registers, which nothing here depends on.  A line with an error goes on *)
(* in the model as it does in the code, since later lines are assembled    *)
(* all the same.                                                           *)
(***************************************************************************)
EXTENDS Integers, Sequences

CONSTANTS Name, NoName, \* what a line may name, files to link among them
          Half,         \* operands are 0 .. Half-1 (2^16)
          File,         \* the source files
          Sources       \* what the files may hold: a set of functions File -> text

Kinds == {"label", "constant", "import", "export", "link", "instr", "address", "data", "string", "space", "align"}
Line == [kind : Kinds, name : Name, num : Int]
        \cup [kind : {"instr", "data", "string", "space", "align"}, name : {NoName}, num : Int]
ASSUME NameAssumption == NoName \notin Name
ASSUME HalfAssumption == Half \in Nat \ {0}
ASSUME SourceAssumption == Sources \subseteq [File -> Seq(Line)]

VARIABLES
  src,                  \* File -> its text
  file,                 \* the file being assembled
  pass, next, location,
  sym,                  \* the symbol table: Name -> [kind, value]
  exports, imports,     \* export_list and import_list
  links,                \* the object files that .LINK asks for
  errors,               \* error_count > 0
  words,                \* what has been deposited
  object                \* File -> its object file, or NoObject

asm == <<src, file, pass, next, location, sym, exports, imports, links, errors, words, object>>

NoObject == [ok |-> FALSE]
FreshTable == [s \in Name |-> [kind |-> "name", value |-> 0]]
Operand(n) == n % Half

\* assemble() is called for a file
Begin(f) ==
  /\ file' = f /\ pass' = 1 /\ next' = 1 /\ location' = 0
  /\ sym' = FreshTable
  /\ exports' = <<>> /\ imports' = <<>> /\ links' = <<>> /\ words' = <<>>
  /\ errors' = FALSE

Start(f) == /\ pass = 0 /\ object[f] = NoObject
            /\ Begin(f)
            /\ UNCHANGED <<src, object>>

-----------------------------------------------------------------------------
(* assemble_one_line() and process_command().                              *)

At(kind) == /\ pass > 0 /\ next <= Len(src[file]) /\ src[file][next].kind = kind
            /\ next' = next + 1
            /\ UNCHANGED <<src, file, pass, object>>
line == src[file][next]
Known(s) == sym[s].kind
Value(s) == sym[s].value

Error(is) == errors' = (errors \/ is)
Set(s, kind, value) == sym' = [sym EXCEPT ![s] = [kind |-> kind, value |-> value]]
\* produce(): the first pass only counts
Produce(n) == /\ location' = location + 1
              /\ words' = IF pass = 2 THEN Append(words, Operand(n)) ELSE words
NoWord == UNCHANGED <<location, words>>
Lists == <<exports, imports, links>>

\* "name:" and "name = number"
Define(kind, value) ==
  /\ IF Known(line.name) = "import" THEN UNCHANGED sym ELSE Set(line.name, kind, value)
  /\ Error(Known(line.name) = "import" \/ (pass = 1 /\ Known(line.name) # "name"))
  /\ NoWord /\ UNCHANGED Lists
Label    == At("label") /\ Define("label", location)
Constant == At("constant") /\ Define("constant", line.num)

Import ==
  /\ At("import")
  /\ IF pass = 1 /\ Known(line.name) = "name"
     THEN imports' = Append(imports, line.name) /\ Set(line.name, "import", 0)
     ELSE UNCHANGED <<imports, sym>>
  /\ Error(Known(line.name) \in {"label", "constant"})
  /\ NoWord /\ UNCHANGED <<exports, links>>

Export ==
  /\ At("export")
  /\ exports' = IF pass = 1 /\ Known(line.name) # "import" THEN Append(exports, line.name)
                ELSE exports
  /\ Error(Known(line.name) = "import" \/ (pass = 2 /\ Known(line.name) = "name"))
  /\ NoWord /\ UNCHANGED <<sym, imports, links>>

Link == /\ At("link")
        /\ links' = IF pass = 1 THEN Append(links, line.name) ELSE links
        /\ NoWord /\ UNCHANGED <<sym, exports, imports, errors>>

\* PC is one past the instruction when the operand is added to it.
Distance(s) == Value(s) - location - 1
\* (The operators marked "slip" are mistakes that could be made in the
\* definition below them.  Nothing uses them; a run must notice each.)

\* slip: every reference starts a chain of its own
ThreadOne(s, extra) == Set(s, Known(s), location) /\ Produce(extra)
\* the word holds the link, and the name remembers the word
Thread(s, extra) == Set(s, Known(s), location) /\ Produce(Value(s) + extra)

\* An instruction whose operand is a name, or a number, or a name and a
\* number: "- number" adds it like "+ number", and even to a link.
Instruction ==
  /\ At("instr")
  /\ LET s == line.name
     IN \/ s = NoName /\ Produce(line.num) /\ UNCHANGED sym
        \/ s # NoName /\ Known(s) = "label" /\ Produce(Distance(s) + line.num) /\ UNCHANGED sym
        \/ s # NoName /\ Known(s) = "constant" /\ Produce(Value(s) + line.num) /\ UNCHANGED sym
        \/ s # NoName /\ Known(s) = "import" /\ Thread(s, line.num)
        \/ s # NoName /\ Known(s) = "name" /\ pass = 1 /\ Thread(s, line.num)
        \/ s # NoName /\ Known(s) = "name" /\ pass = 2 /\ Produce(line.num) /\ UNCHANGED sym
  /\ Error(pass = 2 /\ line.name # NoName /\ Known(line.name) = "name")
  /\ UNCHANGED Lists

\* ".ADDRESS name"; a constant is ignored
Address ==
  /\ At("address")
  /\ \/ Known(line.name) = "label" /\ Produce(Distance(line.name)) /\ UNCHANGED sym
     \/ Known(line.name) \in {"import", "name"} /\ Thread(line.name, 0)
     \/ Known(line.name) = "constant" /\ NoWord /\ UNCHANGED sym
  /\ Error(pass = 2 /\ Known(line.name) = "name")
  /\ UNCHANGED Lists

\* slip: the first pass does not count the words
ReserveLate(n) == /\ location' = IF pass = 2 THEN location + n ELSE location
                  /\ words' = IF pass = 2 THEN words \o [k \in 1 .. n |-> 0] ELSE words
\* (a negative ".SPACE" takes words back, but not in the second pass)
Reserve(n) == /\ location' = location + IF pass = 1 \/ n > 0 THEN n ELSE 0
              /\ words' = IF pass = 2 THEN words \o [k \in 1 .. n |-> 0] ELSE words

\* get_number(): a number or a name; what a name not defined yet is worth in
\* the first pass is whatever it has.  A line with a bad one stands for nothing.
BadNumber == /\ line.name # NoName
             /\ Known(line.name) \in {"label", "import"} \/ (Known(line.name) = "name" /\ pass = 2)
Number == IF line.name = NoName THEN line.num ELSE Value(line.name)
Numbered(kind, Body) == /\ At(kind)
                        /\ IF BadNumber THEN NoWord ELSE Body
                        /\ Error(BadNumber)
                        /\ UNCHANGED <<sym, Lists>>

\* one number of ".DATA"
Data == Numbered("data", Produce(Number))
Space == Numbered("space", Reserve(Number))

\* ".STRING" of so many characters, and the 0 behind them, four to a word
\* (what they are is left out)
Words(characters) == characters \div 4 + 1
String == /\ At("string")
          /\ Reserve(Words(line.num))
          /\ UNCHANGED <<sym, Lists, errors>>

\* up to the next multiple in this file
Needed(n) == (n - (location % n)) % n
Align == Numbered("align", Number # 0 /\ Reserve(Needed(Number)))
\* nothing, or half a file, has been written
Fail == /\ pass' = 0
        /\ object' = [object EXCEPT ![file] = [ok |-> FALSE, pass |-> pass]]
        /\ UNCHANGED <<src, file, next, location, sym, Lists, errors, words>>

\* the remainder by 0 ends the assembler
AlignByZero ==
  /\ pass > 0 /\ next <= Len(src[file]) /\ line.kind = "align" /\ ~BadNumber /\ Number = 0
  /\ Fail

-----------------------------------------------------------------------------
(* assemble(): between the passes the head of the object file is written   *)
(* and the chains start anew; at the end the imports are written.          *)

Done == pass > 0 /\ next > Len(src[file])
EndPass1 ==
  /\ Done /\ pass = 1
  /\ IF errors THEN Fail
     ELSE /\ pass' = 2 /\ next' = 1 /\ location' = 0
          /\ sym' = [s \in Name |-> IF Known(s) = "import" THEN [sym[s] EXCEPT !.value = 0] ELSE sym[s]]
          /\ object' = [object EXCEPT ![file] =
               [ok |-> FALSE, links |-> links, length |-> location,
                exports |-> [i \in 1 .. Len(exports) |->
                               [name |-> exports[i], value |-> Value(exports[i])]]]]
          /\ UNCHANGED <<src, file, Lists, errors, words>>

EndPass2 ==
  /\ Done /\ pass = 2
  /\ IF errors THEN Fail
     ELSE /\ pass' = 0
          /\ object' = [object EXCEPT ![file] =
               [ok |-> TRUE, links |-> @.links, length |-> @.length, exports |-> @.exports, words |-> words,
                imports |-> [i \in 1 .. Len(imports) |->
                               [name |-> imports[i], chain |-> Value(imports[i])]]]]
          /\ UNCHANGED <<src, file, next, location, sym, Lists, errors, words>>

Init ==
  /\ src \in Sources
  /\ file = (CHOOSE f \in File : TRUE) /\ pass = 0 /\ next = 1 /\ location = 0
  /\ sym = FreshTable /\ exports = <<>> /\ imports = <<>> /\ links = <<>> /\ words = <<>> /\ errors = FALSE
  /\ object = [f \in File |-> NoObject]

Assemble == \/ \E f \in File : Start(f)
            \/ Label \/ Constant \/ Import \/ Export \/ Link
            \/ Instruction \/ Address \/ Data \/ String \/ Space \/ Align \/ AlignByZero
            \/ EndPass1 \/ EndPass2
=============================================================================
