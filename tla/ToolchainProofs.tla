-------------------------- MODULE ToolchainProofs --------------------------
(***************************************************************************)
(* The two passes of the assembler, for every text: what the first one     *)
(* finds out about a place is true in the second, and the chains that the  *)
(* second builds link the references to an imported name.                  *)
(***************************************************************************)
EXTENDS Toolchain, WellFoundedInduction, TLAPS

\* The size of a line can be told when it is read: no number is negative, a
\* name that stands for one is a constant defined above, and no address is
\* asked of a constant.  (For other texts the passes disagree.)
Sized(text) ==
  \A n \in DOMAIN text : LET l == text[n] IN
    /\ l.kind = "string" \/ (l.kind \in {"space", "align"} /\ l.name = NoName) => l.num \in Nat
    /\ l.kind \in {"data", "space", "align"} /\ l.name # NoName =>
         \E c \in Lines(text, "constant", l.name) : c < n
    /\ l.kind \in {"space", "align"} => \A c \in Lines(text, "constant", l.name) : text[c].num \in Nat
    /\ l.kind = "address" => Lines(text, "constant", l.name) = {}
SizesFirst == \A f \in File : Sized(src[f])

\* Where each line lies when a name stands for the constant above.
Above(text, n) == {c \in Lines(text, "constant", text[n].name) : c < n}
NumberAt(text, n) == IF text[n].name = NoName THEN text[n].num
                     ELSE text[CHOOSE c \in Above(text, n) : TRUE].num
Step(text, n, place) ==
  CASE text[n].kind \in {"instr", "address", "data"} -> 1
    [] text[n].kind = "string" -> Words(text[n].num)
    [] text[n].kind = "space" -> NumberAt(text, n)
    [] text[n].kind = "align" -> (NumberAt(text, n) - (place % NumberAt(text, n))) % NumberAt(text, n)
    [] OTHER -> 0
Plan(text) == LET p[n \in 1 .. Len(text) + 1] ==
                    IF n = 1 THEN 0 ELSE p[n - 1] + Step(text, n - 1, p[n - 1])
              IN p

SymKinds == {"name", "label", "constant", "import"}
TypeInv ==
  /\ src \in [File -> Seq(Line)] /\ (pass > 0 => file \in File)
  /\ pass \in 0 .. 2 /\ next \in Nat /\ next >= 1 /\ errors \in BOOLEAN
  /\ sym = [s \in Name |-> [kind |-> sym[s].kind, value |-> sym[s].value]]
  /\ \A s \in Name : Known(s) \in SymKinds
  /\ object = [f \in File |-> object[f]]

\* what a symbol table y says of the first n lines, and of which they are
Agrees(y, text, m) ==
  /\ text[m].kind = "label" => y[text[m].name] = [kind |-> "label", value |-> Plan(text)[m]]
  /\ text[m].kind = "constant" => y[text[m].name] = [kind |-> "constant", value |-> text[m].num]
  /\ text[m].kind = "import" => y[text[m].name].kind = "import"
  /\ text[m].kind = "align" => NumberAt(text, m) # 0
Table(y, text, n) ==
  /\ \A m \in 1 .. n : Agrees(y, text, m)
  /\ \A s \in Name : y[s].kind \in {"constant", "import"} => \E m \in Lines(text, y[s].kind, s) : m <= n

\* a pass that has found no error is where it ought to be
OnCourse == pass > 0 /\ Sized(src[file]) /\ (pass = 1 => ~errors)
Read == IF pass = 1 THEN next - 1 ELSE Len(src[file])
Good ==
  /\ next <= Len(src[file]) + 1
  /\ Table(sym, src[file], Read)
  /\ location \in Int /\ location = Plan(src[file])[next]
  /\ \A s \in Name : Value(s) \in Int
  /\ words \in Seq(Int)
  /\ IF pass = 1 THEN words = << >>
     ELSE Len(words) = location /\ object[file].length = Plan(src[file])[Len(src[file]) + 1]
PassInv == OnCourse => Good
ObjectInv == \A f \in File : Sized(src[f]) /\ object[f].ok => object[f].length = Len(object[f].words)
PassesInv == TypeInv /\ PassInv /\ ObjectInv

\* The references to imported names add nothing, and places are operands.
Plain(text) ==
  /\ Sized(text)
  /\ \A n \in DOMAIN text : Places(text)[n] < Half
  /\ \A n \in DOMAIN text : /\ text[n].kind = "instr" /\ text[n].name # NoName
                            /\ Lines(text, "import", text[n].name) # {}
                            => text[n].num = 0
ImportsPlain == \A f \in File : Plain(src[f])
ChainInv ==
  pass = 2 /\ Plain(src[file]) =>
    \A s \in Name : Known(s) = "import" =>
      /\ Value(s) = LastUse(Uses(s))
      /\ \A n \in Uses(s) : /\ Places(src[file])[n] + 1 \in 1 .. Len(words)
                            /\ words[Places(src[file])[n] + 1] = LastUse(Before(s, n))

-----------------------------------------------------------------------------
(* Where the lines lie.                                                    *)

LEMMA LineIs ==
  ASSUME NEW t \in Seq(Line)
  PROVE  /\ Len(t) \in Nat /\ DOMAIN t = 1 .. Len(t)
         /\ \A m \in 1 .. Len(t) :
              /\ t[m].kind \in Kinds /\ t[m].num \in Int
              /\ t[m].kind \in {"label", "constant", "import", "export", "link", "address"} => t[m].name \in Name
              /\ t[m].name # NoName => t[m].name \in Name
BY DEF Line, Kinds

\* every set of naturals that is not empty has a least element
LEMMA LeastIs ==
  ASSUME NEW S, S \subseteq Nat, S # {}
  PROVE  \E x \in S : \A y \in S : x <= y
<1>1. PICK x \in S : \A y \in S : <<y, x>> \notin OpToRel(<, Nat)
  BY NatLessThanWellFounded, WFMin
<1>2. ASSUME NEW y \in S PROVE x =< y
  <2>1. <<y, x>> \notin {p \in Nat \X Nat : p[1] < p[2]}
    BY <1>1 DEF OpToRel
  <2> QED
    BY <2>1
<1> QED
  BY <1>2

\* the plan of a text as far as its first n places
PlanTo(t, n, p) == p = [k \in 1 .. n |-> IF k = 1 THEN 0 ELSE p[k - 1] + Step(t, k - 1, p[k - 1])]

LEMMA PlanGoesOn ==
  ASSUME NEW t, NEW n \in Nat, n >= 1, NEW p, PlanTo(t, n, p)
  PROVE  \E q : PlanTo(t, n + 1, q)
<1> DEFINE q == [k \in 1 .. n + 1 |-> IF k = n + 1 THEN p[n] + Step(t, n, p[n]) ELSE p[k]]
<1>1. \A k \in 1 .. n : q[k] = p[k]
  OBVIOUS
<1>2. ASSUME NEW k \in 1 .. n + 1
      PROVE  q[k] = IF k = 1 THEN 0 ELSE q[k - 1] + Step(t, k - 1, q[k - 1])
  <2>1. CASE k = n + 1
    <3>1. k # 1 /\ k - 1 = n /\ q[k - 1] = p[n] /\ q[k] = p[n] + Step(t, n, p[n])
      BY <1>1, <2>1
    <3> QED
      BY <3>1
  <2>2. CASE k # n + 1
    <3>1. k \in 1 .. n /\ q[k] = p[k]
      BY <2>2
    <3>2. p[k] = IF k = 1 THEN 0 ELSE p[k - 1] + Step(t, k - 1, p[k - 1])
      BY <3>1 DEF PlanTo
    <3>3. k # 1 => k - 1 \in 1 .. n
      BY <3>1
    <3> QED
      BY <1>1, <3>1, <3>2, <3>3
  <2> QED
    BY <2>1, <2>2
<1>3. q = [k \in 1 .. n + 1 |-> q[k]]
  OBVIOUS
<1> HIDE DEF q
<1>4. PlanTo(t, n + 1, q)
  BY <1>2, <1>3 DEF PlanTo
<1> QED
  BY <1>4

LEMMA PlanIsThere ==
  ASSUME NEW t, NEW n \in Nat, n >= 1
  PROVE  \E p : PlanTo(t, n, p)
<1> DEFINE S == {k \in Nat : k >= 1 /\ ~ \E p : PlanTo(t, k, p)}
<1> SUFFICES ASSUME S # {} PROVE FALSE
  OBVIOUS
<1>1. PICK k \in S : \A m \in S : k <= m
  BY LeastIs
<1>2. k # 1
  <2>1. PlanTo(t, 1, [m \in 1 .. 1 |-> 0])
    BY DEF PlanTo
  <2> QED
    BY <2>1
<1>3. k - 1 \in Nat /\ k - 1 >= 1 /\ k - 1 \notin S
  BY <1>1, <1>2
<1>4. PICK p : PlanTo(t, k - 1, p)
  BY <1>3
<1>5. \E q : PlanTo(t, k - 1 + 1, q)
  BY <1>3, <1>4, PlanGoesOn
<1> QED
  BY <1>1, <1>5

LEMMA PlanIs ==
  ASSUME NEW t \in Seq(Line)
  PROVE  /\ Plan(t) = [n \in 1 .. Len(t) + 1 |-> Plan(t)[n]]
         /\ Plan(t)[1] = 0
         /\ \A n \in 1 .. Len(t) : Plan(t)[n + 1] = Plan(t)[n] + Step(t, n, Plan(t)[n])
<1>1. Len(t) \in Nat /\ Len(t) + 1 \in Nat /\ Len(t) + 1 >= 1
  OBVIOUS
<1>2. \E p : PlanTo(t, Len(t) + 1, p)
  BY <1>1, PlanIsThere
<1>3. Plan(t) = CHOOSE p : PlanTo(t, Len(t) + 1, p)
  BY DEF Plan, PlanTo
<1>4. PlanTo(t, Len(t) + 1, Plan(t))
  BY <1>2, <1>3
<1> DEFINE p == Plan(t)
<1> HIDE DEF p
<1>5. p = [k \in 1 .. Len(t) + 1 |-> IF k = 1 THEN 0 ELSE p[k - 1] + Step(t, k - 1, p[k - 1])]
  BY <1>4 DEF PlanTo, p
<1>6. \A k \in 1 .. Len(t) + 1 : p[k] = IF k = 1 THEN 0 ELSE p[k - 1] + Step(t, k - 1, p[k - 1])
  BY <1>5
<1>7. p[1] = 0
  BY <1>1, <1>6
<1>8. ASSUME NEW n \in 1 .. Len(t) PROVE p[n + 1] = p[n] + Step(t, n, p[n])
  <2>1. n + 1 \in 1 .. Len(t) + 1 /\ n + 1 # 1 /\ n + 1 - 1 = n
    BY <1>1
  <2> QED
    BY <1>6, <2>1
<1> QED
  BY <1>5, <1>7, <1>8 DEF p

-----------------------------------------------------------------------------
(* The symbol table.                                                       *)

\* what remembers the last reference changes no more of the table
Chained(y, z) == \A s \in Name : z[s] = y[s] \/ (y[s].kind \in {"import", "name"} /\ z[s].kind = y[s].kind)

LEMMA TableStays ==
  ASSUME NEW t \in Seq(Line), NEW n \in 0 .. Len(t), NEW y, NEW z, Table(y, t, n), Chained(y, z)
  PROVE  Table(z, t, n)
<1>1. ASSUME NEW m \in 1 .. n PROVE Agrees(z, t, m)
  <2>1. Agrees(y, t, m) /\ m \in 1 .. Len(t)
    BY DEF Table
  <2>2. t[m].kind \in {"label", "constant", "import"} => t[m].name \in Name
    BY <2>1, LineIs
  <2>3. t[m].kind \in {"label", "constant"} => z[t[m].name] = y[t[m].name]
    BY <2>1, <2>2 DEF Agrees, Chained
  <2>4. t[m].kind = "import" => z[t[m].name].kind = "import"
    BY <2>1, <2>2 DEF Agrees, Chained
  <2> QED
    BY <2>1, <2>3, <2>4 DEF Agrees
<1>2. ASSUME NEW s \in Name, z[s].kind \in {"constant", "import"} PROVE \E m \in Lines(t, z[s].kind, s) : m <= n
  <2>1. y[s].kind = z[s].kind
    BY DEF Chained
  <2> QED
    BY <1>2, <2>1 DEF Table
<1> QED
  BY <1>1, <1>2 DEF Table

\* the first definition of a name, in a table that had nothing of it
LEMMA TableDefines ==
  ASSUME NEW t \in Seq(Line), NEW n \in Nat, n < Len(t), NEW y, NEW z, Table(y, t, n),
         t[n + 1].kind \in {"label", "constant", "import"}, y[t[n + 1].name].kind = "name",
         \A s \in Name \ {t[n + 1].name} : z[s] = y[s],
         z[t[n + 1].name].kind = t[n + 1].kind, Agrees(z, t, n + 1)
  PROVE  Table(z, t, n + 1)
<1>0. Len(t) \in Nat /\ DOMAIN t = 1 .. Len(t) /\ n + 1 \in 1 .. Len(t)
  BY LineIs
<1>1. ASSUME NEW m \in 1 .. n PROVE Agrees(z, t, m)
  <2>1. Agrees(y, t, m) /\ m \in 1 .. Len(t)
    BY <1>0 DEF Table
  <2>2. t[m].kind \in {"label", "constant", "import"} => t[m].name \in Name \ {t[n + 1].name}
    <3> SUFFICES ASSUME t[m].kind \in {"label", "constant", "import"} PROVE t[m].name \in Name \ {t[n + 1].name}
      OBVIOUS
    <3>1. t[m].name \in Name
      BY <2>1, LineIs
    <3>2. y[t[m].name].kind # "name"
      BY <2>1 DEF Agrees
    <3> QED
      BY <3>1, <3>2
  <2> QED
    BY <2>1, <2>2 DEF Agrees
<1>2. \A m \in 1 .. n + 1 : m \in 1 .. n \/ m = n + 1
  OBVIOUS
<1>3. ASSUME NEW s \in Name, z[s].kind \in {"constant", "import"} PROVE \E m \in Lines(t, z[s].kind, s) : m <= n + 1
  <2>1. CASE s = t[n + 1].name
    <3>1. n + 1 \in Lines(t, z[s].kind, s)
      BY <1>0, <1>3, <2>1 DEF Lines
    <3> QED
      BY <3>1
  <2>2. CASE s # t[n + 1].name
    <3>1. y[s].kind = z[s].kind
      BY <2>2
    <3>2. PICK m \in Lines(t, z[s].kind, s) : m <= n
      BY <1>3, <3>1 DEF Table
    <3>3. m \in Nat /\ m <= n + 1
      BY <1>0, <3>2 DEF Lines
    <3> QED
      BY <3>3
  <2> QED
    BY <2>1, <2>2
<1> QED
  BY <1>1, <1>2, <1>3 DEF Table

\* a line that the table bears out already
LEMMA TableReads ==
  ASSUME NEW t \in Seq(Line), NEW n \in Nat, n < Len(t), NEW y, Table(y, t, n), Agrees(y, t, n + 1)
  PROVE  Table(y, t, n + 1)
<1>0. DOMAIN t = 1 .. Len(t) /\ Len(t) \in Nat
  BY LineIs
<1>1. \A m \in 1 .. n + 1 : m \in 1 .. n \/ m = n + 1
  OBVIOUS
<1>2. ASSUME NEW s \in Name, y[s].kind \in {"constant", "import"} PROVE \E m \in Lines(t, y[s].kind, s) : m <= n + 1
  <2>1. PICK m \in Lines(t, y[s].kind, s) : m <= n
    BY <1>2 DEF Table
  <2>2. m \in Nat /\ m <= n + 1
    BY <1>0, <2>1 DEF Lines
  <2> QED
    BY <2>2
<1> QED
  BY <1>1, <1>2 DEF Table

\* the number of a line is the one above
LEMMA NumberIs ==
  ASSUME NEW t \in Seq(Line), Sized(t), NEW n \in 0 .. Len(t), NEW k \in 1 .. Len(t), k <= n + 1, NEW y,
         Table(y, t, n), t[k].kind \in {"data", "space", "align"}
  PROVE  /\ t[k].name = NoName => NumberAt(t, k) = t[k].num
         /\ t[k].name # NoName => /\ t[k].name \in Name
                                  /\ y[t[k].name] = [kind |-> "constant", value |-> NumberAt(t, k)]
         /\ NumberAt(t, k) \in Int
         /\ t[k].kind \in {"space", "align"} => NumberAt(t, k) \in Nat
<1>0. DOMAIN t = 1 .. Len(t) /\ Len(t) \in Nat
  BY LineIs
<1>1. CASE t[k].name = NoName
  <2>1. NumberAt(t, k) = t[k].num
    BY <1>1 DEF NumberAt
  <2>2. t[k].num \in Int
    BY LineIs
  <2>3. t[k].kind \in {"space", "align"} => t[k].num \in Nat
    BY <1>0, <1>1 DEF Sized
  <2> QED
    BY <1>1, <2>1, <2>2, <2>3
<1>2. CASE t[k].name # NoName
  <2>1. Above(t, k) # {}
    BY <1>0, <1>2 DEF Sized, Above
  <2>2. PICK c \in Above(t, k) : NumberAt(t, k) = t[c].num
    BY <1>2, <2>1 DEF NumberAt
  <2>3. c \in Lines(t, "constant", t[k].name) /\ c \in 1 .. n /\ c \in 1 .. Len(t)
        /\ t[c].kind = "constant" /\ t[c].name = t[k].name
    BY <1>0, <2>2 DEF Above, Lines
  <2>4. y[t[k].name] = [kind |-> "constant", value |-> NumberAt(t, k)]
    BY <2>2, <2>3 DEF Table, Agrees
  <2>5. t[k].name \in Name /\ t[c].num \in Int
    BY <1>2, <2>3, LineIs
  <2>6. t[k].kind \in {"space", "align"} => t[c].num \in Nat
    BY <1>0, <2>3 DEF Sized
  <2> QED
    BY <1>2, <2>2, <2>4, <2>5, <2>6
<1> QED
  BY <1>1, <1>2

-----------------------------------------------------------------------------
(* One line.                                                               *)

\* the line is read, in either pass
Reads == /\ pass > 0 /\ next <= Len(src[file]) /\ next' = next + 1
         /\ UNCHANGED <<src, file, pass, object>>

LEMMA TextIs ==
  ASSUME TypeInv, pass > 0
  PROVE  src[file] \in Seq(Line) /\ Len(src[file]) \in Nat /\ pass \in {1, 2} /\ file \in File
BY DEF TypeInv

LEMMA OnCourseBefore ==
  ASSUME TypeInv, PassInv, Reads, OnCourse', errors => errors'
  PROVE  OnCourse /\ Good
BY DEF OnCourse, Reads, PassInv

LEMMA TableGoesOn ==
  ASSUME TypeInv, Good, Reads, Chained(sym, sym'), line.kind \notin {"label", "constant", "import"},
         line.kind = "align" => NumberAt(src[file], next) # 0
  PROVE  Table(sym', src[file], Read')
<1> DEFINE t == src[file]
<1>0. t \in Seq(Line) /\ Len(t) \in Nat /\ pass \in {1, 2} /\ next \in Nat /\ next >= 1 /\ next <= Len(t)
  BY TextIs DEF Reads, TypeInv
<1>1. Table(sym, t, Read) /\ Read \in 0 .. Len(t) /\ Read' = IF pass = 1 THEN next ELSE Len(t)
  BY <1>0 DEF Good, Read, Reads
<1>2. Table(sym', t, Read)
  BY <1>0, <1>1, TableStays
<1>3. CASE pass = 1
  <2>1. Read = next - 1 /\ next - 1 \in Nat /\ next - 1 < Len(t) /\ next - 1 + 1 = next
    BY <1>0, <1>3 DEF Read
  <2>2. Agrees(sym', t, next)
    BY DEF Agrees, line
  <2> QED
    BY <1>0, <1>1, <1>2, <1>3, <2>1, <2>2, TableReads
<1>4. CASE pass = 2
  BY <1>0, <1>1, <1>2, <1>4 DEF Read
<1> QED
  BY <1>0, <1>3, <1>4

LEMMA Goes ==
  ASSUME TypeInv, Good, Reads, Table(sym', src[file], Read'), \A s \in Name : sym'[s].value \in Int,
         location' = location + Step(src[file], next, location), location' \in Int,
         words' \in Seq(Int),
         IF pass = 1 THEN words' = words ELSE Len(words') = Len(words) + (location' - location)
  PROVE  Good'
<1> DEFINE t == src[file]
<1>0. t \in Seq(Line) /\ Len(t) \in Nat /\ pass \in {1, 2} /\ next \in 1 .. Len(t)
  BY TextIs DEF Reads, TypeInv
<1>1. src'[file'] = t /\ next' = next + 1 /\ pass' = pass /\ object' = object /\ file' = file
  BY DEF Reads
<1>2. Plan(t)[next + 1] = Plan(t)[next] + Step(t, next, Plan(t)[next])
  BY <1>0, PlanIs
<1>3. location' = Plan(t)[next']
  BY <1>1, <1>2 DEF Good
<1>4. IF pass' = 1 THEN words' = << >> ELSE Len(words') = location' /\ object'[file'].length = Plan(t)[Len(t) + 1]
  <2>1. CASE pass = 1
    BY <1>1, <2>1 DEF Good
  <2>2. CASE pass # 1
    BY <1>1, <2>2 DEF Good
  <2> QED
    BY <2>1, <2>2
<1>5. next' <= Len(t) + 1
  BY <1>0, <1>1
<1>6. Table(sym', t, Read')
  OBVIOUS
<1> HIDE DEF t
<1> QED
  BY <1>1, <1>3, <1>4, <1>5, <1>6 DEF Good, Value, t

\* what Define() does in a pass that goes on without error
LEMMA DefineGoes ==
  ASSUME TypeInv, PassInv, OnCourse', NEW kind \in {"label", "constant"}, NEW v, At(kind), Define(kind, v),
         kind = "label" => v = location, kind = "constant" => v = line.num
  PROVE  Good'
<1> DEFINE t == src[file]
           s == line.name
<1>0. Reads /\ (errors => errors') /\ t[next].kind = kind
  BY DEF At, Define, Error, Reads, line
<1>1. OnCourse /\ Good
  BY <1>0, OnCourseBefore
<1>2. t \in Seq(Line) /\ Len(t) \in Nat /\ pass \in {1, 2} /\ next \in 1 .. Len(t) /\ next - 1 \in Nat
      /\ next - 1 < Len(t) /\ next - 1 + 1 = next
  BY <1>0, TextIs DEF Reads, TypeInv
<1>3. s \in Name /\ t[next].num \in Int /\ s = t[next].name /\ line = t[next]
  BY <1>0, <1>2, LineIs DEF line
<1>4. v \in Int /\ (kind = "label" => v = Plan(t)[next])
  BY <1>1, <1>3 DEF Good
<1>5. Table(sym', t, Read') /\ \A r \in Name : sym'[r].value \in Int
  <2>1. CASE pass = 1
    <3>1. ~errors'
      BY <1>0, <2>1 DEF OnCourse, Reads
    <3>2. sym[s].kind = "name"
      BY <2>1, <3>1, <1>3 DEF Define, Error, Known
    <3>3. sym' = [sym EXCEPT ![s] = [kind |-> kind, value |-> v]]
      BY <3>2 DEF Define, Set, Known
    <3>4. sym'[s] = [kind |-> kind, value |-> v] /\ \A r \in Name \ {s} : sym'[r] = sym[r]
      BY <1>3, <3>3 DEF TypeInv
    <3>5. Agrees(sym', t, next)
      BY <1>0, <1>3, <1>4, <3>4 DEF Agrees
    <3>6. Table(sym, t, next - 1)
      BY <1>1, <2>1 DEF Good, Read
    <3>7. t[next].kind \in {"label", "constant", "import"} /\ sym'[s].kind = t[next].kind
      BY <1>0, <3>4
    <3>8. Table(sym', t, next)
      BY <1>2, <1>3, <3>2, <3>4, <3>5, <3>6, <3>7, TableDefines
    <3>9. \A r \in Name : sym'[r].value \in Int
      BY <1>1, <1>4, <3>4 DEF Good, Value
    <3> QED
      BY <1>0, <1>2, <2>1, <3>8, <3>9 DEF Reads, Read
  <2>2. CASE pass = 2
    <3>1. Table(sym, t, Len(t))
      BY <1>1, <2>2 DEF Good, Read
    <3>2. Agrees(sym, t, next)
      BY <1>2, <3>1 DEF Table
    <3>3. sym[s] = [kind |-> kind, value |-> v]
      BY <1>0, <1>3, <1>4, <3>2 DEF Agrees
    <3>4. sym' = sym
      BY <1>3, <3>3 DEF Define, Set, Known, TypeInv
    <3>5. \A r \in Name : sym'[r].value \in Int
      BY <1>1, <3>4 DEF Good, Value
    <3> QED
      BY <1>0, <2>2, <3>1, <3>4, <3>5 DEF Reads, Read
  <2> QED
    BY <1>2, <2>1, <2>2
<1>6. Step(t, next, location) = 0 /\ location' = location /\ words' = words /\ location \in Int
  BY <1>0, <1>1 DEF Step, Define, NoWord, Good
<1>7. IF pass = 1 THEN words' = words ELSE Len(words') = Len(words) + (location' - location)
  BY <1>1, <1>2, <1>6 DEF Good
<1>8. words' \in Seq(Int)
  BY <1>1, <1>6 DEF Good
<1> QED
  BY <1>0, <1>1, <1>5, <1>6, <1>7, <1>8, Goes

LEMMA ImportGoes ==
  ASSUME TypeInv, PassInv, OnCourse', Import
  PROVE  Good'
<1> DEFINE t == src[file]
           s == line.name
<1>0. Reads /\ (errors => errors') /\ t[next].kind = "import"
  BY DEF Import, At, Error, Reads, line
<1>1. OnCourse /\ Good
  BY <1>0, OnCourseBefore
<1>2. t \in Seq(Line) /\ Len(t) \in Nat /\ pass \in {1, 2} /\ next \in 1 .. Len(t) /\ next - 1 \in Nat
      /\ next - 1 < Len(t) /\ next - 1 + 1 = next
  BY <1>0, TextIs DEF Reads, TypeInv
<1>3. s \in Name /\ s = t[next].name /\ line = t[next]
  BY <1>0, <1>2, LineIs DEF line
<1>5. Table(sym', t, Read') /\ \A r \in Name : sym'[r].value \in Int
  <2>1. CASE pass = 1 /\ sym[s].kind = "name"
    <3>1. sym' = [sym EXCEPT ![s] = [kind |-> "import", value |-> 0]]
      BY <2>1 DEF Import, Set, Known
    <3>2. sym'[s] = [kind |-> "import", value |-> 0] /\ \A r \in Name \ {s} : sym'[r] = sym[r]
      BY <1>3, <3>1 DEF TypeInv
    <3>3. Agrees(sym', t, next)
      BY <1>0, <1>3, <3>2 DEF Agrees
    <3>4. Table(sym, t, next - 1)
      BY <1>1, <2>1 DEF Good, Read
    <3>5. t[next].kind \in {"label", "constant", "import"} /\ sym'[s].kind = t[next].kind
      BY <1>0, <3>2
    <3>6. Table(sym', t, next)
      BY <1>2, <1>3, <2>1, <3>2, <3>3, <3>4, <3>5, TableDefines
    <3>7. \A r \in Name : sym'[r].value \in Int
      BY <1>1, <3>2 DEF Good, Value
    <3> QED
      BY <1>0, <1>2, <2>1, <3>6, <3>7 DEF Reads, Read
  <2>2. CASE pass = 1 /\ sym[s].kind # "name"
    <3>1. ~errors'
      BY <1>0, <2>2 DEF OnCourse, Reads
    <3>2. sym[s].kind = "import" /\ sym' = sym
      BY <1>3, <2>2, <3>1 DEF Import, Error, Known, TypeInv, SymKinds
    <3>3. Agrees(sym, t, next)
      BY <1>0, <1>3, <3>2 DEF Agrees
    <3>4. Table(sym, t, next - 1)
      BY <1>1, <2>2 DEF Good, Read
    <3>5. Table(sym, t, next)
      BY <1>2, <3>3, <3>4, TableReads
    <3> QED
      BY <1>0, <1>1, <1>2, <2>2, <3>2, <3>5 DEF Reads, Read, Good, Value
  <2>3. CASE pass = 2
    <3>1. Table(sym, t, Len(t))
      BY <1>1, <2>3 DEF Good, Read
    <3>2. sym' = sym
      BY <2>3 DEF Import
    <3> QED
      BY <1>0, <1>1, <2>3, <3>1, <3>2 DEF Reads, Read, Good, Value
  <2> QED
    BY <1>2, <2>1, <2>2, <2>3
<1>6. Step(t, next, location) = 0 /\ location' = location /\ words' = words /\ location \in Int
  BY <1>0, <1>1 DEF Step, Import, NoWord, Good
<1>7. IF pass = 1 THEN words' = words ELSE Len(words') = Len(words) + (location' - location)
  BY <1>1, <1>2, <1>6 DEF Good
<1>8. words' \in Seq(Int)
  BY <1>1, <1>6 DEF Good
<1> QED
  BY <1>0, <1>1, <1>5, <1>6, <1>7, <1>8, Goes

\* lines that stand for no word and leave the table
LEMMA ListedGoes ==
  ASSUME TypeInv, PassInv, OnCourse', Export \/ Link
  PROVE  Good'
<1> DEFINE t == src[file]
<1>0. Reads /\ (errors => errors') /\ t[next].kind \in {"export", "link"} /\ line.kind \in {"export", "link"}
  <2>1. CASE Export
    BY <2>1 DEF Export, At, Error, Reads, line
  <2>2. CASE Link
    BY <2>2 DEF Link, At, Reads, line
  <2> QED
    BY <2>1, <2>2
<1>1. OnCourse /\ Good
  BY <1>0, OnCourseBefore
<1>2. sym' = sym
  BY DEF Export, Link
<1>3. Table(sym', t, Read') /\ \A r \in Name : sym'[r].value \in Int
  <2>1. Chained(sym, sym')
    BY <1>2 DEF Chained
  <2> QED
    BY <1>0, <1>1, <1>2, <2>1, TableGoesOn DEF Good, Value
<1>4. Step(t, next, location) = 0 /\ location' = location /\ words' = words /\ location \in Int
  BY <1>0, <1>1 DEF Step, Export, Link, NoWord, Good
<1>5. IF pass = 1 THEN words' = words ELSE Len(words') = Len(words) + (location' - location)
  BY <1>1, <1>4 DEF Good
<1>6. words' \in Seq(Int)
  BY <1>1, <1>4 DEF Good
<1> QED
  BY <1>0, <1>1, <1>3, <1>4, <1>5, <1>6, Goes

\* one word is produced
LEMMA ProduceIs ==
  ASSUME TypeInv, Good, pass > 0, NEW n \in Int, Produce(n)
  PROVE  /\ location' = location + 1 /\ location' \in Int /\ words' \in Seq(Int)
         /\ IF pass = 1 THEN words' = words
            ELSE Len(words') = Len(words) + (location' - location)
<1>1. location \in Int /\ words \in Seq(Int) /\ Len(words) \in Nat
  BY DEF Good
<1>2. Operand(n) \in Int
  BY HalfAssumption DEF Operand
<1>3. pass \in {1, 2}
  BY DEF TypeInv
<1> QED
  BY <1>1, <1>2, <1>3 DEF Produce

\* a word that is a reference, and what that does to the table
LEMMA ThreadIs ==
  ASSUME TypeInv, Good, pass > 0, NEW s \in Name, NEW n \in Int, Known(s) \in {"import", "name"}, Thread(s, n)
  PROVE  /\ Chained(sym, sym') /\ \A r \in Name : sym'[r].value \in Int
         /\ \E k \in Int : Produce(k)
<1>1. sym' = [sym EXCEPT ![s] = [kind |-> sym[s].kind, value |-> location]]
  BY DEF Thread, Set, Known
<1>2. sym'[s] = [kind |-> sym[s].kind, value |-> location] /\ \A r \in Name \ {s} : sym'[r] = sym[r]
  BY <1>1 DEF TypeInv
<1>3. Chained(sym, sym')
  BY <1>2 DEF Chained, Known
<1>4. \A r \in Name : sym'[r].value \in Int
  BY <1>2 DEF Good, Value
<1>5. Value(s) + n \in Int /\ Produce(Value(s) + n)
  BY DEF Good, Thread
<1> QED
  BY <1>3, <1>4, <1>5

\* instructions and addresses: a word each
LEMMA ReferenceGoes ==
  ASSUME TypeInv, PassInv, OnCourse', Instruction \/ Address
  PROVE  Good'
<1> DEFINE t == src[file]
           s == line.name
<1>0. Reads /\ (errors => errors') /\ t[next].kind \in {"instr", "address"} /\ line = t[next]
  BY DEF Instruction, Address, At, Error, Reads, line
<1>1. OnCourse /\ Good
  BY <1>0, OnCourseBefore
<1>2. t \in Seq(Line) /\ Len(t) \in Nat /\ pass \in {1, 2} /\ next \in 1 .. Len(t) /\ pass > 0 /\ DOMAIN t = 1 .. Len(t)
  BY <1>0, TextIs, LineIs DEF Reads, TypeInv
<1>3. line.num \in Int /\ (s # NoName => s \in Name) /\ (t[next].kind = "address" => s \in Name)
  BY <1>0, <1>2, LineIs
<1>4. s \in Name => Distance(s) \in Int /\ Value(s) \in Int
  BY <1>1 DEF Good, Distance
<1>5. Chained(sym, sym') /\ (\A r \in Name : sym'[r].value \in Int) /\ \E k \in Int : Produce(k)
  <2>1. ASSUME sym' = sym PROVE Chained(sym, sym') /\ \A r \in Name : sym'[r].value \in Int
    BY <1>1, <2>1 DEF Chained, Good, Value
  <2>2. CASE Instruction
    <3>1. CASE s = NoName /\ Produce(line.num) /\ sym' = sym
      BY <1>3, <2>1, <3>1
    <3>2. CASE s # NoName /\ Produce(Distance(s) + line.num) /\ sym' = sym
      <4>1. Distance(s) + line.num \in Int
        BY <1>3, <1>4, <3>2
      <4> QED
        BY <2>1, <3>2, <4>1
    <3>3. CASE s # NoName /\ Produce(Value(s) + line.num) /\ sym' = sym
      <4>1. Value(s) + line.num \in Int
        BY <1>3, <1>4, <3>3
      <4> QED
        BY <2>1, <3>3, <4>1
    <3>4. CASE s # NoName /\ Known(s) \in {"import", "name"} /\ Thread(s, line.num)
      BY <1>1, <1>2, <1>3, <3>4, ThreadIs
    <3>5. CASE s # NoName /\ Produce(line.num) /\ sym' = sym
      BY <1>3, <2>1, <3>5
    <3> QED
      BY <2>2, <3>1, <3>2, <3>3, <3>4, <3>5 DEF Instruction
  <2>3. CASE Address
    <3>0. s \in Name /\ t[next].kind = "address"
      BY <1>0, <1>3, <2>3 DEF Address, At
    <3>1. Known(s) # "constant"
      <4>1. Lines(t, "constant", s) = {}
        BY <1>0, <1>1, <1>2, <3>0 DEF OnCourse, Sized
      <4> QED
        BY <1>1, <3>0, <4>1 DEF Good, Table, Known
    <3>2. CASE Produce(Distance(s)) /\ sym' = sym
      BY <1>4, <2>1, <3>0, <3>2
    <3>3. CASE Known(s) \in {"import", "name"} /\ Thread(s, 0)
      BY <1>1, <1>2, <3>0, <3>3, ThreadIs
    <3> QED
      BY <2>3, <3>1, <3>2, <3>3 DEF Address
  <2> QED
    BY <2>2, <2>3
<1>6. PICK k \in Int : Produce(k)
  BY <1>5
<1>7. /\ location' = location + 1 /\ location' \in Int /\ words' \in Seq(Int)
      /\ IF pass = 1 THEN words' = words ELSE Len(words') = Len(words) + (location' - location)
  BY <1>1, <1>2, <1>6, ProduceIs
<1>8. Step(t, next, location) = 1
  BY <1>0 DEF Step
<1>9. Table(sym', t, Read')
  BY <1>0, <1>1, <1>5, TableGoesOn
<1> QED
  BY <1>0, <1>1, <1>5, <1>7, <1>8, <1>9, Goes

\* words are reserved
LEMMA ReserveIs ==
  ASSUME TypeInv, Good, pass > 0, NEW n \in Nat, Reserve(n)
  PROVE  /\ location' = location + n /\ location' \in Int /\ words' \in Seq(Int)
         /\ IF pass = 1 THEN words' = words
            ELSE Len(words') = Len(words) + (location' - location)
<1>1. location \in Int /\ words \in Seq(Int) /\ Len(words) \in Nat /\ pass \in {1, 2}
  BY DEF Good, TypeInv
<1>2. location' = location + n
  BY <1>1 DEF Reserve
<1>3. CASE pass = 1
  BY <1>1, <1>2, <1>3 DEF Reserve
<1>4. CASE pass = 2
  <2> DEFINE z == [k \in 1 .. n |-> 0]
  <2>1. z \in Seq(Int) /\ Len(z) = n
    OBVIOUS
  <2> HIDE DEF z
  <2>2. words \o z \in Seq(Int) /\ Len(words \o z) = Len(words) + n
    BY <1>1, <2>1
  <2>3. words' = words \o z
    BY <1>4 DEF Reserve, z
  <2>4. location' - location = n
    BY <1>1, <1>2
  <2> QED
    BY <1>1, <1>2, <1>4, <2>2, <2>3, <2>4
<1> QED
  BY <1>1, <1>3, <1>4

LEMMA RestIs ==
  ASSUME NEW n \in Nat, n # 0, NEW a \in Int
  PROVE  (n - (a % n)) % n \in 0 .. n - 1
OBVIOUS

\* lines with a number, and strings
LEMMA NumberedGoes ==
  ASSUME TypeInv, PassInv, OnCourse', Data \/ Space \/ Align \/ String
  PROVE  Good'
<1> DEFINE t == src[file]
           k == t[next].kind
           m == NumberAt(t, next)
<1>a. (Data => k = "data") /\ (Space => k = "space") /\ (Align => k = "align") /\ (String => k = "string")
  BY DEF Data, Space, Align, String, Numbered, At
<1>b. Reads /\ (errors => errors') /\ sym' = sym /\ line = t[next]
  <2>1. CASE Data
    BY <2>1 DEF Data, Numbered, At, Error, Reads, line
  <2>2. CASE Space
    BY <2>2 DEF Space, Numbered, At, Error, Reads, line
  <2>3. CASE Align
    BY <2>3 DEF Align, Numbered, At, Error, Reads, line
  <2>4. CASE String
    BY <2>4 DEF String, At, Reads, line
  <2> QED
    BY <2>1, <2>2, <2>3, <2>4
<1>0. Reads /\ (errors => errors') /\ sym' = sym /\ line = t[next]
      /\ k \in {"data", "space", "align", "string"}
      /\ (Data => k = "data") /\ (Space => k = "space") /\ (Align => k = "align") /\ (String => k = "string")
  BY <1>a, <1>b
<1>1. OnCourse /\ Good /\ location \in Int /\ pass > 0
  BY <1>0, OnCourseBefore DEF OnCourse, Good
<1>2. t \in Seq(Line) /\ Len(t) \in Nat /\ pass \in {1, 2} /\ next \in 1 .. Len(t) /\ DOMAIN t = 1 .. Len(t)
  BY <1>0, TextIs, LineIs DEF Reads, TypeInv
<1>3. k \in {"data", "space", "align"} =>
        ~BadNumber /\ Number = m /\ m \in Int /\ (k \in {"space", "align"} => m \in Nat)
  <2> SUFFICES ASSUME k \in {"data", "space", "align"}
               PROVE  ~BadNumber /\ Number = m /\ m \in Int /\ (k \in {"space", "align"} => m \in Nat)
    OBVIOUS
  <2>1. Sized(t) /\ Table(sym, t, Read) /\ Read \in 0 .. Len(t) /\ next <= Read + 1
    BY <1>1, <1>2 DEF OnCourse, Good, Read
  <2>2. /\ t[next].name = NoName => m = t[next].num
        /\ t[next].name # NoName => sym[t[next].name] = [kind |-> "constant", value |-> m]
        /\ m \in Int /\ (k \in {"space", "align"} => m \in Nat)
    BY <1>2, <2>1, NumberIs
  <2> HIDE DEF m
  <2>3. ~BadNumber
    BY <1>0, <2>2 DEF BadNumber, Known
  <2>4. Number = m
    BY <1>0, <2>2 DEF Number, Value
  <2> QED
    BY <2>2, <2>3, <2>4
<1> DEFINE Moved == /\ location' = location + Step(t, next, location) /\ location' \in Int /\ words' \in Seq(Int)
                    /\ IF pass = 1 THEN words' = words
                       ELSE Len(words') = Len(words) + (location' - location)
<1>4. CASE Data
  <2>1. Produce(m) /\ m \in Int
    BY <1>0, <1>3, <1>4 DEF Data, Numbered
  <2>2. Step(t, next, location) = 1
    BY <1>0, <1>4 DEF Step
  <2>3. Moved
    BY <1>1, <2>1, <2>2, ProduceIs
  <2>4. k = "data"
    BY <1>0, <1>4
  <2> QED
    BY <1>0, <1>1, <2>3, <2>4, Goes, TableGoesOn DEF Good, Chained, Value
<1>5. CASE Space
  <2>1. Reserve(m) /\ m \in Nat
    BY <1>0, <1>3, <1>5 DEF Space, Numbered
  <2>2. Step(t, next, location) = m
    BY <1>0, <1>5 DEF Step
  <2>3. Moved
    BY <1>1, <2>1, <2>2, ReserveIs
  <2>4. k = "space"
    BY <1>0, <1>5
  <2> QED
    BY <1>0, <1>1, <2>3, <2>4, Goes, TableGoesOn DEF Good, Chained, Value
<1>6. CASE Align
  <2>1. Reserve(Needed(m)) /\ m \in Nat /\ m # 0
    BY <1>0, <1>3, <1>6 DEF Align, Numbered
  <2>2. Step(t, next, location) = Needed(m)
    BY <1>0, <1>6 DEF Step, Needed
  <2>3. Needed(m) \in Nat
    BY <1>1, <2>1, RestIs DEF Needed
  <2>4. Moved
    BY <1>1, <2>1, <2>2, <2>3, ReserveIs
  <2> QED
    BY <1>0, <1>1, <1>6, <2>1, <2>4, Goes, TableGoesOn DEF Good, Chained, Value
<1>7. CASE String
  <2>1. Reserve(Words(t[next].num)) /\ k = "string"
    BY <1>0, <1>7 DEF String
  <2>2. t[next].num \in Nat
    BY <1>1, <1>2, <2>1 DEF OnCourse, Sized
  <2>3. Words(t[next].num) \in Nat
    BY <2>2 DEF Words
  <2>4. Step(t, next, location) = Words(t[next].num)
    BY <2>1 DEF Step
  <2>5. Moved
    BY <1>1, <2>1, <2>3, <2>4, ReserveIs
  <2> QED
    BY <1>0, <1>1, <2>1, <2>5, Goes, TableGoesOn DEF Good, Chained, Value
<1> QED
  BY <1>4, <1>5, <1>6, <1>7

-----------------------------------------------------------------------------
(* The passes.                                                             *)

LEMMA StartGoes == ASSUME TypeInv, NEW f \in File, Start(f) PROVE Good'
<1>1. src' = src /\ file' = f /\ pass' = 1 /\ next' = 1 /\ location' = 0 /\ words' = << >>
      /\ sym' = FreshTable
  BY DEF Start, Begin
<1>2. src[f] \in Seq(Line) /\ Len(src[f]) \in Nat
  BY DEF TypeInv
<1>3. Table(sym', src[f], 0)
  BY <1>1 DEF Table, FreshTable
<1>4. Plan(src[f])[1] = 0
  BY <1>2, PlanIs
<1>5. \A s \in Name : sym'[s].value \in Int
  BY <1>1 DEF FreshTable
<1>6. Read' = 0 /\ src'[file'] = src[f]
  BY <1>1 DEF Read
<1> QED
  BY <1>1, <1>2, <1>3, <1>4, <1>5, <1>6 DEF Good, Value

LEMMA EndPass1Goes == ASSUME TypeInv, PassInv, OnCourse', EndPass1 PROVE Good'
<1> DEFINE t == src[file]
<1>1. Done /\ pass = 1 /\ ~errors
  BY DEF EndPass1, Fail, OnCourse
<1>2. /\ src' = src /\ file' = file /\ pass' = 2 /\ next' = 1 /\ location' = 0 /\ words' = words
      /\ sym' = [s \in Name |-> IF Known(s) = "import" THEN [sym[s] EXCEPT !.value = 0] ELSE sym[s]]
      /\ object' = [object EXCEPT ![file] =
               [ok |-> FALSE, links |-> links, length |-> location,
                exports |-> [k \in 1 .. Len(exports) |->
                               [name |-> exports[k], value |-> Value(exports[k])]]]]
  BY <1>1 DEF EndPass1
<1>3. t \in Seq(Line) /\ Len(t) \in Nat /\ file \in File
  BY <1>1, TextIs
<1>4. Good
  BY <1>1, <1>2 DEF OnCourse, PassInv
<1>5. next = Len(t) + 1 /\ Table(sym, t, Len(t)) /\ location = Plan(t)[Len(t) + 1] /\ words = << >>
  BY <1>1, <1>3, <1>4 DEF Done, Good, Read, TypeInv
<1>6. \A s \in Name : sym'[s] = sym[s] \/ (sym[s].kind = "import" /\ sym'[s] = [kind |-> "import", value |-> 0])
  BY <1>2 DEF Known, TypeInv
<1>7. Chained(sym, sym') /\ \A s \in Name : sym'[s].value \in Int
  BY <1>4, <1>6 DEF Chained, Good, Value
<1>8. Table(sym', t, Len(t))
  BY <1>3, <1>5, <1>7, TableStays
<1>9. object'[file].length = Plan(t)[Len(t) + 1]
  BY <1>2, <1>3, <1>5 DEF TypeInv
<1>10. Plan(t)[1] = 0
  BY <1>3, PlanIs
<1>11. Read' = Len(t) /\ src'[file'] = t
  BY <1>2 DEF Read
<1> HIDE DEF t
<1> QED
  BY <1>2, <1>3, <1>5, <1>7, <1>8, <1>9, <1>10, <1>11 DEF Good, Value

LEMMA AssembleGoes == ASSUME TypeInv, PassInv, Assemble, OnCourse' PROVE Good'
<1>1. ASSUME NEW f \in File, Start(f) PROVE Good'
  BY <1>1, StartGoes
<1>2. CASE Label
  BY <1>2, DefineGoes DEF Label
<1>3. CASE Constant
  BY <1>3, DefineGoes DEF Constant
<1>4. CASE AlignByZero \/ EndPass2
  BY <1>4 DEF AlignByZero, EndPass2, Fail, OnCourse
<1> QED
  BY <1>1, <1>2, <1>3, <1>4, ImportGoes, ListedGoes, ReferenceGoes, NumberedGoes, EndPass1Goes DEF Assemble

LEMMA FailTypes == ASSUME TypeInv, Fail PROVE TypeInv'
<1>1. pass' = 0 /\ src' = src /\ next' = next /\ errors' = errors /\ sym' = sym
      /\ object' = [object EXCEPT ![file] = [ok |-> FALSE, pass |-> pass]]
  BY DEF Fail
<1>2. object' = [f \in File |-> object'[f]]
  BY <1>1 DEF TypeInv
<1>3. sym' = [s \in Name |-> [kind |-> sym'[s].kind, value |-> sym'[s].value]]
      /\ \A s \in Name : sym'[s].kind \in SymKinds
  BY <1>1 DEF TypeInv, Known
<1> QED
  BY <1>1, <1>2, <1>3 DEF TypeInv, Known

\* what a line may do to the types
LEMMA LineTypes ==
  ASSUME TypeInv, Reads, errors' \in BOOLEAN,
         \/ sym' = sym
         \/ \E s \in Name \cup {NoName}, k \in SymKinds : \E v : sym' = [sym EXCEPT ![s] = [kind |-> k, value |-> v]]
  PROVE  TypeInv'
<1>1. src' = src /\ file' = file /\ pass' = pass /\ object' = object /\ next' = next + 1
  BY DEF Reads
<1>2. sym' = [s \in Name |-> [kind |-> sym'[s].kind, value |-> sym'[s].value]]
      /\ \A s \in Name : sym'[s].kind \in SymKinds
  <2>1. CASE sym' = sym
    BY <2>1 DEF TypeInv, Known
  <2>2. ASSUME NEW s \in Name \cup {NoName}, NEW k \in SymKinds, NEW v,
               sym' = [sym EXCEPT ![s] = [kind |-> k, value |-> v]]
        PROVE  sym' = [r \in Name |-> [kind |-> sym'[r].kind, value |-> sym'[r].value]]
               /\ \A r \in Name : sym'[r].kind \in SymKinds
    <3>1. \A r \in Name : sym'[r] = IF r = s THEN [kind |-> k, value |-> v] ELSE sym[r]
      BY <2>2 DEF TypeInv
    <3>2. sym' = [r \in Name |-> sym'[r]]
      BY <2>2 DEF TypeInv
    <3>3. \A r \in Name : sym[r] = [kind |-> sym[r].kind, value |-> sym[r].value] /\ sym[r].kind \in SymKinds
      BY DEF TypeInv, Known
    <3>4. \A r \in Name : sym'[r] = [kind |-> sym'[r].kind, value |-> sym'[r].value] /\ sym'[r].kind \in SymKinds
      BY <3>1, <3>3
    <3> QED
      BY <3>2, <3>4
  <2> QED
    BY <2>1, <2>2
<1> QED
  BY <1>1, <1>2 DEF TypeInv, Known

LEMMA AssembleTypes == ASSUME TypeInv, Assemble PROVE TypeInv'
<1>1. ASSUME NEW f \in File, Start(f) PROVE TypeInv'
  <2>1. sym' = [s \in Name |-> [kind |-> "name", value |-> 0]] /\ src' = src /\ object' = object
        /\ file' = f /\ pass' = 1 /\ next' = 1 /\ errors' = FALSE
    BY <1>1 DEF Start, Begin, FreshTable
  <2>2. sym' = [s \in Name |-> [kind |-> sym'[s].kind, value |-> sym'[s].value]]
        /\ \A s \in Name : sym'[s].kind \in SymKinds
    BY <2>1 DEF SymKinds
  <2>3. src' = src /\ object' = object /\ file' = f /\ pass' = 1 /\ next' = 1
    BY <2>1
  <2>4. errors' \in BOOLEAN
    BY <2>1
  <2> QED
    BY <2>2, <2>3, <2>4 DEF TypeInv, Known
<1>2. CASE AlignByZero \/ (EndPass1 /\ errors) \/ (EndPass2 /\ errors)
  BY <1>2, FailTypes DEF AlignByZero, EndPass1, EndPass2
<1>3. CASE EndPass1 /\ ~errors
  <2>1. /\ src' = src /\ file' = file /\ pass' = 2 /\ next' = 1 /\ errors' = errors
        /\ sym' = [s \in Name |-> IF Known(s) = "import" THEN [sym[s] EXCEPT !.value = 0] ELSE sym[s]]
        /\ object' = [f \in File |-> object'[f]] /\ pass > 0
    BY <1>3 DEF EndPass1, TypeInv, Done
  <2>2. \A s \in Name : sym[s] = [kind |-> sym[s].kind, value |-> sym[s].value] /\ sym[s].kind \in SymKinds
    BY DEF TypeInv, Known
  <2>3. ASSUME NEW s \in Name
        PROVE  sym'[s] = [kind |-> sym'[s].kind, value |-> sym'[s].value] /\ sym'[s].kind \in SymKinds
    <3>1. CASE Known(s) = "import"
      <4>1. sym'[s] = [sym[s] EXCEPT !.value = 0]
        BY <2>1, <3>1
      <4>2. sym'[s] = [kind |-> sym[s].kind, value |-> 0]
        BY <2>2, <4>1
      <4>3. sym'[s].kind = sym[s].kind /\ sym'[s].value = 0
        BY <4>2
      <4> QED
        BY <2>2, <4>2, <4>3
    <3>2. CASE Known(s) # "import"
      BY <2>1, <2>2, <3>2
    <3> QED
      BY <3>1, <3>2
  <2>4. sym' = [s \in Name |-> sym'[s]]
    BY <2>1
  <2> QED
    BY <2>1, <2>3, <2>4 DEF TypeInv, Known
<1>4. CASE EndPass2 /\ ~errors
  BY <1>4 DEF EndPass2, TypeInv, Known
<1>5. ASSUME Reads PROVE line.name \in Name \cup {NoName} /\ Known(line.name) = sym[line.name].kind
  <2>1. src[file] \in Seq(Line) /\ next \in 1 .. Len(src[file])
    BY <1>5, TextIs DEF Reads, TypeInv
  <2> QED
    BY <2>1, LineIs DEF line, Known
<1>6. ASSUME NEW kind \in {"label", "constant"}, NEW v, At(kind), Define(kind, v) PROVE TypeInv'
  <2>1. Reads /\ errors' \in BOOLEAN
    BY <1>6 DEF At, Reads, Define, Error, TypeInv
  <2> QED
    BY <1>5, <1>6, <2>1, LineTypes DEF Define, Set, SymKinds
<1>7. CASE Import
  <2>1. Reads /\ errors' \in BOOLEAN
    BY <1>7 DEF Import, At, Reads, Error, TypeInv
  <2> QED
    BY <1>5, <1>7, <2>1, LineTypes DEF Import, Set, SymKinds
<1>8. CASE Export
  BY <1>8, LineTypes DEF Export, At, Reads, Error, TypeInv
<1>9. CASE Link
  BY <1>9, LineTypes DEF Link, At, Reads, TypeInv
<1>10. CASE Instruction
  <2>1. Reads /\ errors' \in BOOLEAN
    BY <1>10 DEF Instruction, At, Reads, Error, TypeInv
  <2>2. sym' = sym \/ (Known(line.name) \in {"import", "name"} /\ Set(line.name, Known(line.name), location))
    BY <1>10 DEF Instruction, Thread
  <2> QED
    BY <1>5, <2>1, <2>2, LineTypes DEF Set, SymKinds
<1>11. CASE Address
  <2>1. Reads /\ errors' \in BOOLEAN
    BY <1>11 DEF Address, At, Reads, Error, TypeInv
  <2>2. sym' = sym \/ (Known(line.name) \in {"import", "name"} /\ Set(line.name, Known(line.name), location))
    BY <1>11 DEF Address, Thread
  <2> QED
    BY <1>5, <2>1, <2>2, LineTypes DEF Set, SymKinds
<1>12. CASE Data
  BY <1>12, LineTypes DEF Data, Numbered, At, Reads, Error, TypeInv
<1>13. CASE Space
  BY <1>13, LineTypes DEF Space, Numbered, At, Reads, Error, TypeInv
<1>14. CASE Align
  BY <1>14, LineTypes DEF Align, Numbered, At, Reads, Error, TypeInv
<1>15. CASE String
  BY <1>15, LineTypes DEF String, At, Reads, TypeInv
<1> QED
  BY <1>1, <1>2, <1>3, <1>4, <1>6, <1>7, <1>8, <1>9, <1>10, <1>11, <1>12, <1>13, <1>14, <1>15 DEF Assemble, Label, Constant

\* what is written at the end of the second pass
LEMMA AssembleObjects == ASSUME TypeInv, PassInv, ObjectInv, Assemble PROVE ObjectInv'
<1>1. src' = src
  BY DEF Assemble, Start, Label, Constant, Import, Export, Link, Instruction, Address, Data, String, Space,
         Align, AlignByZero, EndPass1, EndPass2, Numbered, At, Fail
<1>2. CASE object' = object
  BY <1>1, <1>2 DEF ObjectInv
<1>3. ASSUME pass > 0, NEW o, object' = [object EXCEPT ![file] = o],
             Sized(src[file]) /\ o.ok => o.length = Len(o.words)
      PROVE  ObjectInv'
  <2>1. file \in File
    BY <1>3, TextIs
  <2>2. \A f \in File : object'[f] = IF f = file THEN o ELSE object[f]
    BY <1>3, <2>1 DEF TypeInv
  <2> QED
    BY <1>1, <1>3, <2>2 DEF ObjectInv
<1>4. CASE Fail /\ pass > 0
  BY <1>3, <1>4 DEF Fail
<1>5. CASE EndPass1 /\ ~errors
  BY <1>3, <1>5 DEF EndPass1, Done
<1>6. CASE EndPass2 /\ ~errors
  <2> DEFINE t == src[file]
             o == [ok |-> TRUE, links |-> object[file].links, length |-> object[file].length,
                   exports |-> object[file].exports, words |-> words,
                   imports |-> [k \in 1 .. Len(imports) |-> [name |-> imports[k], chain |-> Value(imports[k])]]]
  <2>1. pass = 2 /\ next > Len(t) /\ object' = [object EXCEPT ![file] = o]
    <3>1. object' = [object EXCEPT ![file] =
               [ok |-> TRUE, links |-> @.links, length |-> @.length, exports |-> @.exports, words |-> words,
                imports |-> [k \in 1 .. Len(imports) |-> [name |-> imports[k], chain |-> Value(imports[k])]]]]
      BY <1>6 DEF EndPass2
    <3> QED
      BY <1>6, <3>1, TextIs DEF EndPass2, Done, TypeInv
  <2>2. ASSUME Sized(t) PROVE o.length = Len(o.words)
    <3>1. Good
      BY <2>1, <2>2 DEF PassInv, OnCourse
    <3>2. next = Len(t) + 1
      BY <2>1, <3>1, TextIs DEF Good, TypeInv
    <3> QED
      BY <2>1, <3>1, <3>2 DEF Good
  <2> HIDE DEF o
  <2>3. pass > 0 /\ object' = [object EXCEPT ![file] = o]
    BY <2>1
  <2>4. Sized(src[file]) /\ o.ok => o.length = Len(o.words)
    BY <2>2
  <2> QED
    BY <1>3, <2>3, <2>4
<1> QED
  BY <1>2, <1>4, <1>5, <1>6
     DEF Assemble, Start, Label, Constant, Import, Export, Link, Instruction, Address, Data, String, Space,
         Align, AlignByZero, EndPass1, EndPass2, Numbered, At, Done

LEMMA InitIs == TInit => PassesInv
<1> SUFFICES ASSUME TInit PROVE PassesInv
  OBVIOUS
<1>1. src \in [File -> Seq(Line)] /\ pass = 0 /\ next = 1 /\ errors = FALSE /\ sym = FreshTable
      /\ object = [f \in File |-> NoObject]
  BY SourceAssumption DEF TInit, Init
<1>2. sym = [s \in Name |-> [kind |-> sym[s].kind, value |-> sym[s].value]]
      /\ \A s \in Name : sym[s].kind \in SymKinds
  BY <1>1 DEF FreshTable, SymKinds
<1>3. TypeInv
  <2>1. src \in [File -> Seq(Line)] /\ pass = 0 /\ next = 1
    BY <1>1
  <2>2. object = [f \in File |-> object[f]]
    BY <1>1
  <2>3. errors \in BOOLEAN
    BY <1>1
  <2> QED
    BY <1>2, <2>1, <2>2, <2>3 DEF TypeInv, Known
<1>4. PassInv /\ ObjectInv
  BY <1>1 DEF PassInv, OnCourse, ObjectInv, NoObject
<1> QED
  BY <1>3, <1>4 DEF PassesInv

LEMMA StaysAsIs == ASSUME PassesInv, UNCHANGED asm PROVE PassesInv'
BY DEF asm, PassesInv, TypeInv, PassInv, OnCourse, Good, Read, Table, Agrees, ObjectInv, Known, Value

LEMMA NextKeeps == ASSUME PassesInv, [TNext]_vars PROVE PassesInv'
<1>1. CASE Assembling
  <2>1. TypeInv'
    BY <1>1, AssembleTypes DEF Assembling, PassesInv
  <2>2. PassInv'
    BY <1>1, AssembleGoes DEF Assembling, PassesInv, PassInv
  <2>3. ObjectInv'
    BY <1>1, AssembleObjects DEF Assembling, PassesInv
  <2> QED
    BY <2>1, <2>2, <2>3 DEF PassesInv
<1>2. CASE UNCHANGED asm
  BY <1>2, StaysAsIs
<1> QED
  BY <1>1, <1>2 DEF TNext, Open, Linking, vars

\* The two passes agree, for every text whose sizes can be told when they are
\* read: the second pass meets each label where the first has left it, and
\* deposits as many words as it has announced.
THEOREM PassesDoAgree == Spec => [](SizesFirst => PassesAgree)
<1>1. PassesInv /\ SizesFirst => PassesAgree
  <2> SUFFICES ASSUME PassesInv, SizesFirst PROVE PassesAgree
    OBVIOUS
  <2> DEFINE t == src[file]
  <2>1. ASSUME pass = 2, next <= Len(t), line.kind = "label" PROVE Value(line.name) = location
    <3>1. file \in File /\ t \in Seq(Line) /\ next \in 1 .. Len(t)
      BY <2>1, TextIs DEF PassesInv, TypeInv
    <3>2. Good
      BY <2>1, <3>1 DEF PassesInv, PassInv, OnCourse, SizesFirst
    <3>3. Agrees(sym, t, next)
      BY <2>1, <3>1, <3>2 DEF Good, Table, Read
    <3> QED
      BY <2>1, <3>2, <3>3 DEF Good, Agrees, Value, line
  <2>2. ASSUME NEW f \in File, object[f].ok PROVE object[f].length = Len(object[f].words)
    BY <2>2 DEF PassesInv, ObjectInv, SizesFirst
  <2> QED
    BY <2>1, <2>2 DEF PassesAgree
<1>2. TInit => PassesInv
  BY InitIs
<1>3. PassesInv /\ [TNext]_vars => PassesInv'
  BY NextKeeps
<1> QED
  BY <1>1, <1>2, <1>3, PTL DEF Spec

-----------------------------------------------------------------------------
(* Places, as the source has them.                                         *)

LEMMA DivIs ==
  ASSUME NEW a \in Int, NEW b \in Nat \ {0}
  PROVE  a \div b \in Int /\ a % b \in 0 .. b - 1 /\ a = b * (a \div b) + (a % b)
OBVIOUS

LEMMA ModIs ==
  ASSUME NEW b \in Nat \ {0}, NEW c \in Int, NEW k \in 0 .. b - 1
  PROVE  (b * c + k) % b = k
<1> DEFINE a == b * c + k
<1>1. a \in Int
  OBVIOUS
<1> DEFINE q == a \div b
           r == a % b
<1>2. q \in Int /\ r \in 0 .. b - 1 /\ a = b * q + r
  BY <1>1, DivIs
<1> HIDE DEF q, r
<1>3. b * (c - q) = r - k
  BY <1>2
<1> HIDE DEF a
<1>4. c - q < 1
  <2> SUFFICES ASSUME c - q >= 1 PROVE FALSE
    BY <1>2
  <2>1. b * (c - q) >= b * 1
    BY <1>2
  <2> QED
    BY <1>2, <1>3, <2>1
<1>5. q - c < 1
  <2> SUFFICES ASSUME q - c >= 1 PROVE FALSE
    BY <1>2
  <2>1. b * (q - c) >= b * 1
    BY <1>2
  <2>2. b * (q - c) = k - r
    BY <1>2, <1>3
  <2> QED
    BY <1>2, <2>1, <2>2
<1>6. c = q
  BY <1>2, <1>4, <1>5
<1>7. r = k
  BY <1>2, <1>3, <1>6
<1> QED
  BY <1>7 DEF a, r

\* what is needed up to the next multiple, and nothing else in its range is
LEMMA AlignIs ==
  ASSUME NEW b \in Nat \ {0}, NEW v \in Int
  PROVE  {w \in 0 .. b - 1 : (v + w) % b = 0} = {(b - (v % b)) % b}
<1>1. PICK q \in Int, r \in 0 .. b - 1 : v = b * q + r /\ v % b = r
  BY DivIs
<1>2. ASSUME NEW w \in 0 .. b - 1 PROVE (v + w) % b = 0 <=> (r + w = 0 \/ r + w = b)
  <2>1. CASE r + w < b
    <3>1. v + w = b * q + (r + w) /\ r + w \in 0 .. b - 1
      BY <1>1, <2>1
    <3>2. (b * q + (r + w)) % b = r + w
      BY <3>1, ModIs
    <3> QED
      BY <2>1, <3>1, <3>2
  <2>2. CASE r + w >= b
    <3>1. r + w - b \in 0 .. b - 1 /\ q + 1 \in Int
      BY <2>2
    <3>2. v + w = b * (q + 1) + (r + w - b)
      BY <1>1
    <3>3. (b * (q + 1) + (r + w - b)) % b = r + w - b
      BY <3>1, ModIs
    <3> QED
      BY <2>2, <3>1, <3>2, <3>3
  <2> QED
    BY <2>1, <2>2
<1>3. CASE r = 0
  <2>1. (b - r) % b = 0
    <3>1. b - r = b * 1 + 0 /\ 0 \in 0 .. b - 1
      BY <1>3
    <3> QED
      BY <3>1, ModIs
  <2>2. \A w \in 0 .. b - 1 : (v + w) % b = 0 <=> w = 0
    BY <1>2, <1>3
  <2>3. 0 \in 0 .. b - 1
    OBVIOUS
  <2> QED
    BY <1>1, <2>1, <2>2, <2>3
<1>4. CASE r # 0
  <2>1. (b - r) % b = b - r
    <3>1. b - r = b * 0 + (b - r) /\ b - r \in 0 .. b - 1
      BY <1>4
    <3> QED
      BY <3>1, ModIs
  <2>2. ASSUME NEW w \in 0 .. b - 1 PROVE (v + w) % b = 0 <=> w = b - r
    <3>1. (r + w = 0 \/ r + w = b) <=> w = b - r
      BY <1>1, <1>4
    <3> QED
      BY <1>2, <3>1
  <2>3. b - r \in 0 .. b - 1
    BY <1>4
  <2> QED
    BY <1>1, <2>1, <2>2, <2>3
<1> QED
  BY <1>3, <1>4

\* a line stands for as many words as the plan says, and no other number
LEMMA SizesAre ==
  ASSUME NEW t \in Seq(Line), Sized(t), NEW y, Table(y, t, Len(t)), NEW n \in 1 .. Len(t), NEW v \in Int
  PROVE  Step(t, n, v) \in Nat /\ Sizes(t, t[n], v) = {Step(t, n, v)}
<1> DEFINE m == NumberAt(t, n)
           named == Lines(t, "constant", t[n].name)
           number == IF named = {} THEN t[n].num ELSE t[CHOOSE c \in named : TRUE].num
<1>0. Len(t) \in Nat /\ DOMAIN t = 1 .. Len(t) /\ t[n].kind \in Kinds
  BY LineIs
<1>1. ASSUME t[n].kind \in {"data", "space", "align"}
      PROVE  number = m /\ (t[n].kind \in {"space", "align"} => m \in Nat)
  <2>1. /\ t[n].kind \in {"space", "align"} => m \in Nat
        /\ t[n].name = NoName => m = t[n].num
        /\ t[n].name # NoName => y[t[n].name] = [kind |-> "constant", value |-> m]
    BY <1>0, <1>1, NumberIs
  <2>2. CASE t[n].name = NoName
    <3>1. named = {}
      <4>1. \A c \in 1 .. Len(t) : t[c].kind = "constant" => t[c].name \in Name
        BY LineIs
      <4> QED
        BY <1>0, <2>2, <4>1, NameAssumption DEF Lines
    <3> QED
      BY <2>1, <2>2, <3>1
  <2>3. CASE t[n].name # NoName
    <3>1. named # {}
      BY <1>0, <1>1, <2>3 DEF Sized
    <3>2. ASSUME NEW c \in named PROVE t[c].num = m
      <4>1. c \in 1 .. Len(t) /\ t[c].kind = "constant" /\ t[c].name = t[n].name
        BY <1>0 DEF Lines
      <4>2. y[t[n].name] = [kind |-> "constant", value |-> t[c].num]
        BY <4>1 DEF Table, Agrees
      <4> QED
        BY <2>1, <2>3, <4>2
    <3> HIDE DEF named, m
    <3> QED
      BY <2>1, <3>1, <3>2
  <2> QED
    BY <2>1, <2>2, <2>3
<1>2. CASE t[n].kind \in {"instr", "address", "data"}
  BY <1>2 DEF Step, Sizes
<1>3. CASE t[n].kind = "string"
  <2>1. t[n].num \in Nat
    BY <1>0, <1>3 DEF Sized
  <2>2. {k \in 1 .. t[n].num + 1 : 4 * k > t[n].num /\ 4 * (k - 1) <= t[n].num} = {t[n].num \div 4 + 1}
    BY <2>1
  <2> QED
    BY <1>3, <2>1, <2>2 DEF Step, Sizes, Words
<1>4. CASE t[n].kind = "space"
  <2>1. m \in Nat
    BY <1>1, <1>4
  <2>2. Step(t, n, v) = m
    BY <1>4 DEF Step
  <2>3. Sizes(t, t[n], v) = {number}
    BY <1>4 DEF Sizes
  <2> QED
    BY <1>1, <1>4, <2>1, <2>2, <2>3
<1>5. CASE t[n].kind = "align"
  <2>1. m \in Nat
    BY <1>1, <1>5
  <2>2. m # 0
    BY <1>5 DEF Table, Agrees
  <2>3. Step(t, n, v) = (m - (v % m)) % m
    BY <1>5 DEF Step
  <2>4. Sizes(t, t[n], v) = {w \in 0 .. number - 1 : (v + w) % number = 0}
    BY <1>5 DEF Sizes
  <2> HIDE DEF m, number
  <2>5. Sizes(t, t[n], v) = {(m - (v % m)) % m}
    BY <1>1, <1>5, <2>1, <2>2, <2>4, AlignIs
  <2> QED
    BY <2>1, <2>2, <2>3, <2>5, RestIs
<1>6. CASE t[n].kind \in {"label", "constant", "import", "export", "link"}
  BY <1>6 DEF Step, Sizes
<1> QED
  BY <1>0, <1>2, <1>3, <1>4, <1>5, <1>6 DEF Kinds

\* the places are those of the plan
LEMMA PlacesAre ==
  ASSUME NEW t \in Seq(Line), Sized(t), NEW y, Table(y, t, Len(t))
  PROVE  \A n \in 1 .. Len(t) + 1 : Places(t)[n] = Plan(t)[n] /\ Plan(t)[n] \in Nat
<1> DEFINE N == Len(t)
           p == Plan(t)
           Size(n, v) == CHOOSE w \in Sizes(t, t[n], v) : TRUE
           At0(f) == f = [n \in 1 .. N + 1 |-> IF n = 1 THEN 0 ELSE f[n - 1] + Size(n - 1, f[n - 1])]
<1>0. N \in Nat
  BY LineIs
<1>1. p = [n \in 1 .. N + 1 |-> p[n]] /\ p[1] = 0 /\ \A n \in 1 .. N : p[n + 1] = p[n] + Step(t, n, p[n])
  BY PlanIs
<1>2. ASSUME NEW n \in 1 .. N, NEW v \in Int PROVE Step(t, n, v) \in Nat /\ Size(n, v) = Step(t, n, v)
  <2>1. Step(t, n, v) \in Nat /\ Sizes(t, t[n], v) = {Step(t, n, v)}
    BY SizesAre
  <2> QED
    BY <2>1
<1>3. Places(t) = CHOOSE f : At0(f)
  BY DEF Places
<1> HIDE DEF N, p, Size
<1>4. \A n \in 1 .. N + 1 : p[n] \in Nat
  <2> DEFINE S == {n \in 1 .. N + 1 : p[n] \notin Nat}
  <2> SUFFICES ASSUME S # {} PROVE FALSE
    OBVIOUS
  <2>0. S \subseteq Nat
    BY <1>0
  <2>1. PICK n \in S : \A k \in S : n <= k
    <3> HIDE DEF S
    <3> QED
      BY <2>0, LeastIs
  <2>2. n # 1
    BY <1>1, <2>1
  <2>3. n - 1 \in 1 .. N /\ n - 1 + 1 = n /\ n - 1 \notin S
    BY <1>0, <2>1, <2>2
  <2>4. p[n - 1] \in Nat /\ p[n - 1] \in Int
    BY <1>0, <2>3
  <2>5. p[n] = p[n - 1] + Step(t, n - 1, p[n - 1])
    BY <1>1, <2>3
  <2>6. Step(t, n - 1, p[n - 1]) \in Nat
    BY <1>2, <2>3, <2>4
  <2> QED
    BY <2>1, <2>4, <2>5, <2>6
<1>5. At0(p)
  <2>1. ASSUME NEW n \in 1 .. N + 1 PROVE p[n] = IF n = 1 THEN 0 ELSE p[n - 1] + Size(n - 1, p[n - 1])
    <3>1. CASE n = 1
      BY <1>1, <3>1
    <3>2. CASE n # 1
      <4>1. n - 1 \in 1 .. N /\ n - 1 + 1 = n
        BY <1>0, <3>2
      <4>2. p[n - 1] \in Int
        BY <1>0, <1>4, <4>1
      <4> QED
        BY <1>1, <1>2, <3>2, <4>1, <4>2
    <3> QED
      BY <3>1, <3>2
  <2> QED
    BY <1>1, <2>1
<1> DEFINE q == Places(t)
<1>6. At0(q)
  BY <1>3, <1>5
<1> HIDE DEF q
<1>7. \A n \in 1 .. N + 1 : q[n] = p[n]
  <2> DEFINE S == {n \in 1 .. N + 1 : q[n] # p[n]}
  <2> SUFFICES ASSUME S # {} PROVE FALSE
    OBVIOUS
  <2>0. S \subseteq Nat
    BY <1>0
  <2>1. PICK n \in S : \A k \in S : n <= k
    <3> HIDE DEF S
    <3> QED
      BY <2>0, LeastIs
  <2>2. q[n] = IF n = 1 THEN 0 ELSE q[n - 1] + Size(n - 1, q[n - 1])
    BY <1>6, <2>1
  <2>3. p[n] = IF n = 1 THEN 0 ELSE p[n - 1] + Size(n - 1, p[n - 1])
    BY <1>5, <2>1
  <2>4. n # 1
    BY <2>1, <2>2, <2>3
  <2>5. n - 1 \in 1 .. N + 1 /\ n - 1 \notin S
    BY <1>0, <2>1, <2>4
  <2>6. q[n - 1] = p[n - 1]
    BY <2>5
  <2> QED
    BY <2>1, <2>2, <2>3, <2>6
<1> QED
  BY <1>4, <1>7 DEF N, p, q

-----------------------------------------------------------------------------
(* The chains.                                                             *)

IsUse(s) == line.kind \in {"instr", "address"} /\ line.name = s

LEMMA UsesAre ==
  ASSUME TypeInv, Reads, NEW s
  PROVE  /\ Uses(s)' = IF IsUse(s) THEN Uses(s) \cup {next} ELSE Uses(s)
         /\ Uses(s) \subseteq 1 .. next - 1 /\ next \in Nat
         /\ \A n \in Uses(s) : Before(s, n)' = Before(s, n)
         /\ \A k : k = next /\ IsUse(s) => Before(s, k)' = Uses(s)
<1>1. src' = src /\ file' = file /\ next' = next + 1 /\ next \in Nat /\ next >= 1
  BY DEF Reads, TypeInv
<1>2. Uses(s)' = {n \in 1 .. next : src[file][n].name = s /\ src[file][n].kind \in {"instr", "address"}}
  BY <1>1 DEF Uses
<1>3. Uses(s)' = IF IsUse(s) THEN Uses(s) \cup {next} ELSE Uses(s)
  BY <1>1, <1>2 DEF Uses, IsUse, line
<1>4. Uses(s) \subseteq 1 .. next - 1
  BY DEF Uses
<1>5. ASSUME NEW n \in Uses(s) PROVE Before(s, n)' = Before(s, n)
  <2>1. n < next /\ n \in Nat
    BY <1>1, <1>4
  <2> QED
    BY <1>1, <1>3, <2>1 DEF Before
<1>6. ASSUME NEW k, k = next, IsUse(s) PROVE Before(s, k)' = Uses(s)
  <2>1. Before(s, k)' = {m \in Uses(s) \cup {next} : m < k}
    BY <1>3, <1>6 DEF Before
  <2>2. \A m \in Uses(s) : m < k
    BY <1>1, <1>4, <1>6
  <2> QED
    BY <1>1, <1>6, <2>1, <2>2
<1> QED
  BY <1>1, <1>3, <1>4, <1>5, <1>6

LEMMA PlaceIs ==
  ASSUME TypeInv, PassInv, pass = 2, Sized(src[file])
  PROVE  /\ Good /\ src[file] \in Seq(Line)
         /\ \A n \in 1 .. Len(src[file]) + 1 : Places(src[file])[n] \in Nat
         /\ Places(src[file])[next] = Len(words) /\ location = Len(words)
<1> DEFINE t == src[file]
<1>1. Good /\ t \in Seq(Line) /\ Len(t) \in Nat
  BY TextIs DEF PassInv, OnCourse
<1>2. Table(sym, t, Len(t)) /\ next \in 1 .. Len(t) + 1 /\ location = Plan(t)[next] /\ location = Len(words)
  BY <1>1 DEF Good, Read, TypeInv
<1>3. \A n \in 1 .. Len(t) + 1 : Places(t)[n] = Plan(t)[n] /\ Plan(t)[n] \in Nat
  BY <1>1, <1>2, PlacesAre
<1> QED
  BY <1>1, <1>2, <1>3

\* the last of some uses
LEMMA LastIs ==
  ASSUME NEW S, NEW k \in Nat, S \subseteq 1 .. k - 1
  PROVE  LastUse(S \cup {k}) = Places(src[file])[k]
<1>1. \A m \in S \cup {k} : (\A o \in S \cup {k} : o <= m) <=> m = k
  OBVIOUS
<1>2. (CHOOSE m \in S \cup {k} : \A o \in S \cup {k} : o <= m) = k
  BY <1>1
<1> QED
  BY <1>2 DEF LastUse

\* a line of the second pass: what it leaves of the words, and how a
\* reference to an imported name is put before those there are
LEMMA ChainGoes ==
  ASSUME TypeInv, PassInv, ChainInv, Reads, pass = 2, Plain(src[file]), words' \in Seq(Int),
         Len(words) <= Len(words'), \A k \in 1 .. Len(words) : words'[k] = words[k],
         \A s \in Name : sym'[s].kind = "import" => Known(s) = "import",
         \A s \in Name : Known(s) = "import" =>
           IF IsUse(s) THEN /\ sym'[s].value = location /\ Len(words') = Len(words) + 1
                            /\ words'[Len(words) + 1] = Operand(Value(s))
           ELSE sym'[s].value = Value(s)
  PROVE  ChainInv'
<1> DEFINE t == src[file]
<1>0. Sized(t) /\ src' = src /\ file' = file /\ pass' = 2 /\ t \in Seq(Line) /\ Len(t) \in Nat
      /\ next \in 1 .. Len(t) /\ words \in Seq(Int) /\ Len(words) \in Nat /\ DOMAIN t = 1 .. Len(t)
  BY TextIs, PlaceIs, LineIs DEF Plain, Reads, TypeInv, Good
<1>1. Places(t)[next] = Len(words) /\ location = Len(words) /\ \A n \in 1 .. Len(t) + 1 : Places(t)[n] \in Nat
  BY <1>0, PlaceIs
<1>2. \A S : LastUse(S)' = LastUse(S)
  BY <1>0 DEF LastUse
<1>3. ASSUME NEW s \in Name, sym'[s].kind = "import"
      PROVE  /\ sym'[s].value = LastUse(Uses(s)')
             /\ \A n \in Uses(s)' : /\ Places(t)[n] + 1 \in 1 .. Len(words')
                                    /\ words'[Places(t)[n] + 1] = LastUse(Before(s, n)')
  <2>1. Known(s) = "import"
    BY <1>3
  <2>2. /\ Value(s) = LastUse(Uses(s))
        /\ \A n \in Uses(s) : /\ Places(t)[n] + 1 \in 1 .. Len(words)
                              /\ words[Places(t)[n] + 1] = LastUse(Before(s, n))
    BY <2>1 DEF ChainInv
  <2>3. \A n \in Uses(s) : /\ Places(t)[n] + 1 \in 1 .. Len(words')
                           /\ words'[Places(t)[n] + 1] = LastUse(Before(s, n)')
    <3> SUFFICES ASSUME NEW n \in Uses(s)
                 PROVE  /\ Places(t)[n] + 1 \in 1 .. Len(words')
                        /\ words'[Places(t)[n] + 1] = LastUse(Before(s, n)')
      OBVIOUS
    <3>1. Places(t)[n] + 1 \in 1 .. Len(words) /\ words[Places(t)[n] + 1] = LastUse(Before(s, n))
      BY <2>2
    <3>2. Before(s, n)' = Before(s, n)
      BY UsesAre
    <3> QED
      BY <1>0, <3>1, <3>2
  <2>4. CASE IsUse(s)
    <3>0. PICK k : k = next
      OBVIOUS
    <3>1. Uses(s)' = Uses(s) \cup {k} /\ Uses(s) \subseteq 1 .. k - 1 /\ k \in Nat
          /\ Before(s, k)' = Uses(s)
      BY <2>4, <3>0, UsesAre
    <3>2. LastUse(Uses(s)') = location
      BY <1>1, <3>0, <3>1, LastIs
    <3>3. sym'[s].value = location /\ Len(words') = Len(words) + 1 /\ words'[Len(words) + 1] = Operand(Value(s))
      BY <2>1, <2>4
    <3>4. Value(s) \in 0 .. Half - 1
      <4>1. CASE Uses(s) = {}
        BY <2>2, <4>1, HalfAssumption DEF LastUse
      <4>2. CASE Uses(s) # {}
        <5>1. PICK m \in Uses(s) : \A o \in Uses(s) : o <= m
          <6>1. Uses(s) \subseteq Nat /\ {k - n : n \in Uses(s)} \subseteq Nat /\ {k - n : n \in Uses(s)} # {}
            BY <3>1, <4>2
          <6>2. PICK x \in {k - n : n \in Uses(s)} : \A z \in {k - n : n \in Uses(s)} : x <= z
            BY <6>1, LeastIs
          <6>3. PICK r \in Uses(s) : x = k - r
            BY <6>2
          <6>4. \A o \in Uses(s) : k - r <= k - o
            BY <6>2, <6>3
          <6>5. \A o \in Uses(s) : o <= r
            BY <3>1, <6>1, <6>4
          <6> QED
            BY <6>5
        <5>2. \E r \in Uses(s) : LastUse(Uses(s)) = Places(t)[r]
          BY <4>2, <5>1 DEF LastUse
        <5>3. PICK r \in Uses(s) : LastUse(Uses(s)) = Places(t)[r]
          BY <5>2
        <5>4. r \in 1 .. Len(t)
          BY <1>0, <3>0, <3>1, <5>3
        <5>5. Places(t)[r] \in Nat
          BY <1>0, <1>1, <5>4
        <5>6. Places(t)[r] < Half
          <6>1. \A n \in DOMAIN t : Places(t)[n] < Half
            BY DEF Plain
          <6> QED
            BY <1>0, <5>4, <6>1
        <5> QED
          BY <2>2, <5>3, <5>5, <5>6, HalfAssumption
      <4> QED
        BY <4>1, <4>2
    <3>5. Operand(Value(s)) = Value(s)
      BY <3>4, HalfAssumption DEF Operand
    <3>6. words'[Places(t)[k] + 1] = LastUse(Before(s, k)')
      BY <1>1, <2>2, <3>0, <3>1, <3>3, <3>5
    <3>7. Places(t)[k] + 1 \in 1 .. Len(words')
      BY <1>0, <1>1, <3>0, <3>3
    <3>8. ASSUME NEW n \in Uses(s)'
          PROVE  Places(t)[n] + 1 \in 1 .. Len(words') /\ words'[Places(t)[n] + 1] = LastUse(Before(s, n)')
      BY <2>3, <3>1, <3>6, <3>7
    <3> QED
      BY <3>2, <3>3, <3>8
  <2>5. CASE ~IsUse(s)
    <3>1. Uses(s)' = Uses(s)
      BY <2>5, UsesAre
    <3> QED
      BY <2>1, <2>2, <2>3, <2>5, <3>1
  <2> QED
    BY <2>4, <2>5
<1> QED
  BY <1>0, <1>2, <1>3 DEF ChainInv, Known, Value

\* the words that a line deposits come behind those there are
LEMMA WordsAre ==
  ASSUME Good, pass = 2
  PROVE  /\ \A n \in Int : Produce(n) => /\ words' \in Seq(Int) /\ Len(words') = Len(words) + 1
                                         /\ words'[Len(words) + 1] = Operand(n)
                                         /\ \A k \in 1 .. Len(words) : words'[k] = words[k]
         /\ \A n \in Nat : Reserve(n) => /\ words' \in Seq(Int) /\ Len(words) <= Len(words')
                                         /\ \A k \in 1 .. Len(words) : words'[k] = words[k]
<1>1. words \in Seq(Int) /\ Len(words) \in Nat
  BY DEF Good
<1>2. ASSUME NEW n \in Int, Produce(n)
      PROVE  /\ words' \in Seq(Int) /\ Len(words') = Len(words) + 1
             /\ words'[Len(words) + 1] = Operand(n)
             /\ \A k \in 1 .. Len(words) : words'[k] = words[k]
  <2>1. Operand(n) \in Int
    BY HalfAssumption DEF Operand
  <2>2. words' = Append(words, Operand(n))
    BY <1>2 DEF Produce
  <2> QED
    BY <1>1, <2>1, <2>2
<1>3. ASSUME NEW n \in Nat, Reserve(n)
      PROVE  /\ words' \in Seq(Int) /\ Len(words) <= Len(words')
             /\ \A k \in 1 .. Len(words) : words'[k] = words[k]
  <2> DEFINE z == [k \in 1 .. n |-> 0]
  <2>1. z \in Seq(Int) /\ Len(z) = n
    OBVIOUS
  <2>2. words' = words \o z
    BY <1>3 DEF Reserve
  <2> HIDE DEF z
  <2> QED
    BY <1>1, <2>1, <2>2
<1> QED
  BY <1>2, <1>3

\* a reference to s, for chains
LEMMA ReferenceChains ==
  ASSUME PassesInv, ChainInv, pass = 2, Plain(src[file]), Instruction \/ Address
  PROVE  ChainInv'
<1> DEFINE t == src[file]
           s == line.name
<1>0. Reads /\ t[next].kind \in {"instr", "address"} /\ line = t[next] /\ line.kind \in {"instr", "address"}
  BY DEF Instruction, Address, At, Reads, line
<1>1. TypeInv /\ PassInv /\ Good /\ t \in Seq(Line) /\ Len(t) \in Nat /\ next \in 1 .. Len(t) /\ DOMAIN t = 1 .. Len(t)
      /\ Sized(t)
  BY <1>0, PlaceIs, LineIs DEF PassesInv, Plain, Reads, TypeInv
<1>2. line.num \in Int /\ (s # NoName => s \in Name) /\ (t[next].kind = "address" => s \in Name)
  BY <1>0, <1>1, LineIs
<1>3. s \in Name => Distance(s) \in Int /\ Value(s) \in Int
  BY <1>1 DEF Good, Distance
<1> DEFINE Plainly == sym' = sym /\ (s \in Name => Known(s) # "import") /\ \E k \in Int : Produce(k)
           Chains == s \in Name /\ Known(s) = "import" /\ Thread(s, 0)
           Names == s \in Name /\ Known(s) = "name" /\ \E k \in Int : Thread(s, k)
<1>4. Plainly \/ Chains \/ Names
  <2>1. CASE Instruction
    <3>1. CASE s = NoName /\ Produce(line.num) /\ sym' = sym
      BY <1>2, <3>1, NameAssumption
    <3>2. CASE s # NoName /\ Known(s) = "label" /\ Produce(Distance(s) + line.num) /\ sym' = sym
      <4>1. Distance(s) + line.num \in Int
        BY <1>2, <1>3, <3>2
      <4> QED
        BY <3>2, <4>1
    <3>3. CASE s # NoName /\ Known(s) = "constant" /\ Produce(Value(s) + line.num) /\ sym' = sym
      <4>1. Value(s) + line.num \in Int
        BY <1>2, <1>3, <3>3
      <4> QED
        BY <3>3, <4>1
    <3>4. CASE s # NoName /\ Known(s) = "import" /\ Thread(s, line.num)
      <4>1. Table(sym, t, Len(t)) /\ s \in Name /\ sym[s].kind = "import"
        BY <1>1, <1>2, <3>4 DEF Good, Read, Known
      <4>2. Lines(t, "import", s) # {}
        BY <4>1 DEF Table
      <4>3. t[next].kind = "instr"
        BY <1>0, <2>1 DEF Instruction, At
      <4>4. line.num = 0
        BY <1>0, <1>1, <3>4, <4>2, <4>3 DEF Plain
      <4> QED
        BY <3>4, <4>1, <4>4
    <3>5. CASE s # NoName /\ Known(s) = "name" /\ Produce(line.num) /\ sym' = sym
      BY <1>2, <3>5
    <3> QED
      BY <2>1, <3>1, <3>2, <3>3, <3>4, <3>5 DEF Instruction
  <2>2. CASE Address
    <3>0. s \in Name /\ t[next].kind = "address"
      BY <1>0, <1>2, <2>2 DEF Address, At
    <3>1. Known(s) # "constant"
      <4>1. Lines(t, "constant", s) = {}
        BY <1>0, <1>1, <3>0 DEF Sized
      <4> QED
        BY <1>1, <3>0, <4>1 DEF Good, Table, Known
    <3>2. CASE Known(s) = "label" /\ Produce(Distance(s)) /\ sym' = sym
      BY <1>3, <3>0, <3>2
    <3>3. CASE Known(s) = "import" /\ Thread(s, 0)
      BY <3>0, <3>3
    <3>4. CASE Known(s) = "name" /\ Thread(s, 0)
      BY <3>0, <3>4
    <3> QED
      BY <2>2, <3>1, <3>2, <3>3, <3>4 DEF Address
  <2> QED
    BY <2>1, <2>2
<1>5. \A r \in Name : Known(r) = sym[r].kind /\ Value(r) = sym[r].value
  BY DEF Known, Value
<1>6. CASE Plainly
  <2>1. PICK k \in Int : Produce(k)
    BY <1>6
  <2>2. words' \in Seq(Int) /\ Len(words) <= Len(words') /\ \A n \in 1 .. Len(words) : words'[n] = words[n]
    BY <1>1, <2>1, WordsAre DEF Good
  <2>3. \A r \in Name : Known(r) = "import" => ~IsUse(r) /\ sym'[r].value = Value(r)
    BY <1>5, <1>6 DEF IsUse
  <2>4. \A r \in Name : sym'[r].kind = "import" => Known(r) = "import"
    BY <1>5, <1>6
  <2> QED
    BY <1>0, <1>1, <2>2, <2>3, <2>4, ChainGoes
<1>7. CASE Chains
  <2>1. Produce(Value(s) + 0) /\ sym' = [sym EXCEPT ![s] = [kind |-> "import", value |-> location]]
    BY <1>7 DEF Thread, Set
  <2>2. Value(s) + 0 = Value(s) /\ Value(s) \in Int
    BY <1>3, <1>7
  <2>3. words' \in Seq(Int) /\ Len(words') = Len(words) + 1 /\ words'[Len(words) + 1] = Operand(Value(s))
        /\ \A n \in 1 .. Len(words) : words'[n] = words[n]
    BY <1>1, <2>1, <2>2, WordsAre
  <2>4. sym'[s] = [kind |-> "import", value |-> location] /\ \A r \in Name \ {s} : sym'[r] = sym[r]
    BY <1>1, <1>7, <2>1 DEF TypeInv
  <2>5. \A r \in Name : sym'[r].kind = "import" => Known(r) = "import"
    BY <1>5, <1>7, <2>4
  <2>6. \A r \in Name : IsUse(r) <=> r = s
    BY <1>0 DEF IsUse
  <2>7. Len(words) <= Len(words')
    BY <1>1, <2>3 DEF Good
  <2>8. ASSUME NEW r \in Name, Known(r) = "import"
        PROVE  IF IsUse(r) THEN /\ sym'[r].value = location /\ Len(words') = Len(words) + 1
                                /\ words'[Len(words) + 1] = Operand(Value(r))
               ELSE sym'[r].value = Value(r)
    BY <1>5, <2>3, <2>4, <2>6
  <2> QED
    BY <1>0, <1>1, <2>3, <2>5, <2>7, <2>8, ChainGoes
<1>8. CASE Names
  <2>1. PICK k \in Int : Thread(s, k)
    BY <1>8
  <2>2. Produce(Value(s) + k) /\ sym' = [sym EXCEPT ![s] = [kind |-> "name", value |-> location]]
    BY <1>8, <2>1 DEF Thread, Set
  <2>3. Value(s) + k \in Int
    BY <1>3, <1>8
  <2>4. words' \in Seq(Int) /\ Len(words) <= Len(words') /\ \A n \in 1 .. Len(words) : words'[n] = words[n]
    BY <1>1, <2>2, <2>3, WordsAre DEF Good
  <2>5. sym'[s] = [kind |-> "name", value |-> location] /\ \A r \in Name \ {s} : sym'[r] = sym[r]
    BY <1>1, <1>8, <2>2 DEF TypeInv
  <2>6. \A r \in Name : Known(r) = "import" => ~IsUse(r) /\ sym'[r].value = Value(r)
    BY <1>5, <1>8, <2>5 DEF IsUse
  <2>7. \A r \in Name : sym'[r].kind = "import" => Known(r) = "import"
    BY <1>5, <2>5
  <2> QED
    BY <1>0, <1>1, <2>4, <2>6, <2>7, ChainGoes
<1> QED
  BY <1>4, <1>6, <1>7, <1>8

\* the other lines
LEMMA OtherChains ==
  ASSUME PassesInv, ChainInv, pass = 2, Plain(src[file]), Reads, line.kind \notin {"instr", "address"},
         words' \in Seq(Int), Len(words) <= Len(words'), \A k \in 1 .. Len(words) : words'[k] = words[k],
         sym' = sym
  PROVE  ChainInv'
<1>1. \A r \in Name : ~IsUse(r) /\ Known(r) = sym'[r].kind /\ sym'[r].value = Value(r)
  BY DEF IsUse, Known, Value
<1> QED
  BY <1>1, ChainGoes DEF PassesInv

LEMMA DefineChains ==
  ASSUME PassesInv, ChainInv, pass = 2, Plain(src[file]), NEW kind \in {"label", "constant"}, NEW v, At(kind),
         Define(kind, v), kind = "label" => v = location, kind = "constant" => v = line.num
  PROVE  ChainInv'
<1> DEFINE t == src[file]
           s == line.name
<1>0. Reads /\ t[next].kind = kind /\ line.kind = kind /\ words' = words /\ line = t[next]
  BY DEF At, Define, NoWord, Reads, line
<1>1. TypeInv /\ Good /\ t \in Seq(Line) /\ Len(t) \in Nat /\ next \in 1 .. Len(t) /\ Sized(t)
  BY <1>0, PlaceIs, LineIs DEF PassesInv, Plain, Reads, TypeInv
<1>2. Table(sym, t, Len(t)) /\ location = Plan(t)[next]
  BY <1>1 DEF Good, Read
<1>3. sym[s] = [kind |-> kind, value |-> v] /\ s \in Name
  BY <1>0, <1>1, <1>2, LineIs DEF Table, Agrees
<1>4. sym' = sym
  BY <1>1, <1>3 DEF Define, Set, Known, TypeInv
<1> QED
  BY <1>0, <1>1, <1>4, OtherChains DEF Good

LEMMA NumberedChains ==
  ASSUME PassesInv, ChainInv, pass = 2, Plain(src[file]), Data \/ Space \/ Align \/ String
  PROVE  ChainInv'
<1> DEFINE t == src[file]
           m == NumberAt(t, next)
<1>a. (Data => line.kind = "data") /\ (Space => line.kind = "space") /\ (Align => line.kind = "align")
      /\ (String => line.kind = "string")
  BY DEF Data, Space, Align, String, Numbered, At, line
<1>b. Reads /\ sym' = sym /\ line = t[next]
  <2>1. CASE Data
    BY <2>1 DEF Data, Numbered, At, Reads, line
  <2>2. CASE Space
    BY <2>2 DEF Space, Numbered, At, Reads, line
  <2>3. CASE Align
    BY <2>3 DEF Align, Numbered, At, Reads, line
  <2>4. CASE String
    BY <2>4 DEF String, At, Reads, line
  <2> QED
    BY <2>1, <2>2, <2>3, <2>4
<1>1. TypeInv /\ Good /\ t \in Seq(Line) /\ Len(t) \in Nat /\ next \in 1 .. Len(t) /\ Sized(t) /\ DOMAIN t = 1 .. Len(t)
      /\ words \in Seq(Int) /\ Len(words) \in Nat
  BY <1>b, PlaceIs, LineIs DEF PassesInv, Plain, Reads, TypeInv, Good
<1>2. line.kind \in {"data", "space", "align"} =>
        (BadNumber \/ Number = m) /\ m \in Int /\ (line.kind \in {"space", "align"} => m \in Nat)
  <2>1. Table(sym, t, Len(t))
    BY <1>1 DEF Good, Read
  <2>2. ASSUME line.kind \in {"data", "space", "align"}
        PROVE  /\ t[next].name = NoName => m = t[next].num
               /\ t[next].name # NoName => sym[t[next].name] = [kind |-> "constant", value |-> m]
               /\ m \in Int /\ (t[next].kind \in {"space", "align"} => m \in Nat)
    BY <1>b, <1>1, <2>1, <2>2, NumberIs
  <2> HIDE DEF m
  <2> QED
    BY <1>b, <2>2 DEF Number, Value
<1> HIDE DEF m
<1>3. words' \in Seq(Int) /\ Len(words) <= Len(words') /\ \A k \in 1 .. Len(words) : words'[k] = words[k]
  <2>1. ASSUME words' = words
        PROVE  words' \in Seq(Int) /\ Len(words) <= Len(words') /\ \A k \in 1 .. Len(words) : words'[k] = words[k]
    BY <1>1, <2>1
  <2>2. CASE Data
    <3>1. words' = words \/ (Produce(m) /\ m \in Int)
      BY <1>a, <1>2, <2>2 DEF Data, Numbered, NoWord
    <3> QED
      BY <1>1, <2>1, <3>1, WordsAre
  <2>3. CASE Space
    <3>1. words' = words \/ (Reserve(m) /\ m \in Nat)
      BY <1>a, <1>2, <2>3 DEF Space, Numbered, NoWord
    <3> QED
      BY <1>1, <2>1, <3>1, WordsAre
  <2>4. CASE Align
    <3>1. words' = words \/ (Reserve(Needed(m)) /\ m \in Nat /\ m # 0)
      BY <1>a, <1>2, <2>4 DEF Align, Numbered, NoWord
    <3>2. m \in Nat /\ m # 0 => Needed(m) \in Nat
      BY <1>1, RestIs DEF Needed, Good
    <3> QED
      BY <1>1, <2>1, <3>1, <3>2, WordsAre
  <2>5. CASE String
    <3>1. Reserve(Words(t[next].num)) /\ t[next].kind = "string"
      BY <1>a, <1>b, <2>5 DEF String
    <3>2. t[next].num \in Nat
      BY <1>1, <3>1 DEF Sized
    <3>3. Words(t[next].num) \in Nat
      BY <3>2 DEF Words
    <3> QED
      BY <1>1, <3>1, <3>3, WordsAre
  <2> QED
    BY <2>2, <2>3, <2>4, <2>5
<1>4. line.kind \notin {"instr", "address"}
  BY <1>a
<1> QED
  BY <1>b, <1>3, <1>4, OtherChains

LEMMA ListedChains ==
  ASSUME PassesInv, ChainInv, pass = 2, Plain(src[file]), Import \/ Export \/ Link
  PROVE  ChainInv'
<1>1. (Import => line.kind = "import") /\ (Export => line.kind = "export") /\ (Link => line.kind = "link")
  BY DEF Import, Export, Link, At, line
<1>2. Reads /\ sym' = sym /\ words' = words
  <2>1. CASE Import
    BY <2>1 DEF Import, At, Reads, NoWord
  <2>2. CASE Export
    BY <2>2 DEF Export, At, Reads, NoWord
  <2>3. CASE Link
    BY <2>3 DEF Link, At, Reads, NoWord
  <2> QED
    BY <2>1, <2>2, <2>3
<1>3. words \in Seq(Int) /\ Len(words) \in Nat
  BY PlaceIs DEF PassesInv, Plain, Good
<1> QED
  BY <1>1, <1>2, <1>3, OtherChains

LEMMA AssembleChains == ASSUME PassesInv, ChainInv, Assemble PROVE ChainInv'
<1> SUFFICES ASSUME pass' = 2, Plain(src'[file']) PROVE ChainInv'
  BY DEF ChainInv
<1>1. CASE EndPass1
  <2>1. ~errors /\ pass = 1
    BY <1>1 DEF EndPass1, Fail
  <2>2. next' = 1 /\ sym' = [s \in Name |-> IF Known(s) = "import" THEN [sym[s] EXCEPT !.value = 0] ELSE sym[s]]
    BY <1>1, <2>1 DEF EndPass1
  <2>3. ASSUME NEW s \in Name, sym'[s].kind = "import" PROVE sym'[s].value = 0
    <3>1. sym[s] = [kind |-> sym[s].kind, value |-> sym[s].value]
      BY DEF PassesInv, TypeInv
    <3>2. CASE Known(s) = "import"
      <4>1. sym'[s] = [sym[s] EXCEPT !.value = 0]
        BY <2>2, <3>2
      <4> QED
        BY <3>1, <4>1
    <3>3. CASE Known(s) # "import"
      BY <2>2, <2>3, <3>3 DEF Known
    <3> QED
      BY <3>2, <3>3
  <2>4. \A s : Uses(s)' = {}
    BY <2>2 DEF Uses
  <2>5. \A s \in Name : (Known(s) = "import")' => Value(s)' = LastUse(Uses(s))'
    BY <2>3, <2>4 DEF LastUse, Known, Value
  <2> QED
    BY <2>4, <2>5 DEF ChainInv
<1>2. CASE ~EndPass1
  <2>1. pass = 2 /\ src' = src /\ file' = file
    <3>1. ~(AlignByZero \/ EndPass2 \/ \E f \in File : Start(f))
      BY DEF AlignByZero, EndPass2, Fail, Start, Begin
    <3> QED
      BY <1>2, <3>1 DEF Assemble, Label, Constant, Import, Export, Link, Instruction, Address, Data, String, Space,
         Align, Numbered, At
  <2>2. Plain(src[file])
    BY <2>1
  <2>3. ~(AlignByZero \/ EndPass2 \/ \E f \in File : Start(f))
    BY DEF AlignByZero, EndPass2, Fail, Start, Begin
  <2>4. CASE Label
    BY <2>1, <2>2, <2>4, DefineChains DEF Label
  <2>5. CASE Constant
    BY <2>1, <2>2, <2>5, DefineChains DEF Constant
  <2> QED
    BY <1>2, <2>1, <2>2, <2>3, <2>4, <2>5, ReferenceChains, NumberedChains, ListedChains DEF Assemble
<1> QED
  BY <1>1, <1>2

\* The chain of each imported name, at every moment of the second pass, starts
\* at the last reference to it, and each reference holds the place of the one
\* before: for every text that is plain, wherever and however often names are
\* used, defined and imported.
THEOREM ChainsAreThreaded == Spec => [](ImportsPlain => Threaded)
<1>1. PassesInv /\ ChainInv /\ ImportsPlain => Threaded
  <2> SUFFICES ASSUME PassesInv, ChainInv, ImportsPlain, pass = 2 PROVE Threaded
    BY DEF Threaded
  <2>1. Plain(src[file])
    BY TextIs DEF PassesInv, ImportsPlain
  <2> QED
    BY <2>1 DEF ChainInv, Threaded
<1>2. TInit => PassesInv /\ ChainInv
  BY InitIs DEF TInit, Init, ChainInv
<1>3. PassesInv /\ ChainInv /\ [TNext]_vars => PassesInv' /\ ChainInv'
  <2> SUFFICES ASSUME PassesInv, ChainInv, [TNext]_vars PROVE ChainInv'
    BY NextKeeps
  <2>1. CASE Assembling
    BY <2>1, AssembleChains DEF Assembling
  <2>2. CASE UNCHANGED asm
    <3>1. pass' = pass /\ src' = src /\ file' = file /\ sym' = sym /\ words' = words /\ next' = next
      BY <2>2 DEF asm
    <3>2. \A s : Uses(s)' = Uses(s)
      BY <3>1 DEF Uses
    <3>3. \A s, n : Before(s, n)' = Before(s, n)
      BY <3>2 DEF Before
    <3>4. \A S : LastUse(S)' = LastUse(S)
      BY <3>1 DEF LastUse
    <3>5. \A s : (LastUse(Uses(s)))' = LastUse(Uses(s)) /\ \A n : (LastUse(Before(s, n)))' = LastUse(Before(s, n))
      BY <3>2, <3>3, <3>4
    <3> QED
      BY <3>1, <3>2, <3>5 DEF ChainInv, Known, Value
  <2> QED
    BY <2>1, <2>2 DEF TNext, Open, Linking, vars
<1> QED
  BY <1>1, <1>2, <1>3, PTL DEF Spec
=============================================================================
