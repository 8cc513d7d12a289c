------------------------- MODULE PeripheralsProofs -------------------------
(***************************************************************************)
(* DOIO for every disc file, every program and every text that is typed:   *)
(* what is typed arrives in order, no block of the disc is half written,   *)
(* and an operation that was broken off shows in the error flag.           *)
(***************************************************************************)
EXTENDS Peripherals, SequenceTheorems, WellFoundedInduction, TLAPS

-----------------------------------------------------------------------------
(* How the steps of an operation end.                                      *)

LEMMA StepIsUnderWay == ASSUME Step PROVE io # NoIo
<1> SUFFICES \E op \in DOMAIN Parameters : Doing(op)
  BY DEF Doing, Parameters, NoIo
<1> QED
  BY DEF Step, Parameters, ReadDisc, WriteDisc, SizeDisc, TermInC, TermInW, TermOutC, TermOutW,
         Seconds, Datetime, MtLoad, MtUnload, MtRead, MtWrite

\* an operation that goes on leaves the flag and the interrupt as they are,
\* and one that ends with an interrupt has raised the flag
Outcome == \/ UNCHANGED outcome
           \/ io' = NoIo /\ (interrupted' = FALSE \/ flerr' = TRUE \/ io.op = "TERMOUTW")

LEMMA ReceiveOutcome == ASSUME NEW ws, Receive(ws) PROVE Outcome
BY DEF Receive, Fault, More, Over, Outcome

LEMMA StoredOutcome == ASSUME NEW a, NEW w, Stored(a, w) PROVE Outcome
BY DEF Stored, Fault, Return, More, Over, Outcome

LEMMA StepOutcome == ASSUME Step PROVE Outcome
<1>1. CASE ReadDisc \/ MtRead
  BY <1>1, ReceiveOutcome DEF ReadDisc, MtRead, Return, Over, Outcome
<1>2. CASE WriteDisc \/ MtWrite
  BY <1>2 DEF WriteDisc, MtWrite, Return, Fault, More, Over, Outcome
<1>3. CASE TermInC \/ TermInW
  BY <1>3, StoredOutcome DEF TermInC, TermInW, Stop, Return, Over, Outcome
<1>4. CASE SizeDisc \/ TermOutC \/ TermOutW \/ Seconds \/ Datetime \/ MtLoad \/ MtUnload
  BY <1>4 DEF SizeDisc, TermOutC, TermOutW, Doing, Seconds, Datetime, MtLoad, MtUnload,
              Return, Fault, Over, Outcome
<1> QED
  BY <1>1, <1>2, <1>3, <1>4 DEF Step

\* perform_io_operation() raises the flag before it begins and lowers it when
\* it has succeeded.
FlagInv == io # NoIo => flerr = TRUE

LEMMA NextKeepsFlag == ASSUME FlagInv, Next PROVE FlagInv'
<1>1. CASE \E r \in Requests : Doio(r)
  BY <1>1 DEF Doio, Unreadable, Begun, FlagInv
<1>2. CASE Step
  BY <1>2, StepOutcome, StepIsUnderWay DEF Outcome, FlagInv, outcome
<1>3. CASE Type \/ Sigio \/ Paging \/ Kill
  BY <1>3 DEF Type, Sigio, Paging, Kill, World, FlagInv, outcome
<1> QED
  BY <1>1, <1>2, <1>3 DEF Next

\* Whenever an operation that had begun is broken off by an interrupt, the
\* error flag is left up for the program to see, TERMOUTW apart, whatever the
\* operation, its parameters and the pages that are there.
THEOREM FaultsShow == Spec => FaultShows
<1>1. Init => FlagInv
  BY DEF Init, Start, FlagInv
<1>2. FlagInv /\ [Next]_vars => FlagInv'
  <2>1. UNCHANGED vars /\ FlagInv => FlagInv'
    BY DEF vars, outcome, FlagInv
  <2> QED
    BY <2>1, NextKeepsFlag
<1>3. FlagInv /\ [Next]_vars => [Step /\ interrupted' => flerr' \/ io.op = "TERMOUTW"]_vars
  <2> SUFFICES ASSUME FlagInv, Step, interrupted', io.op # "TERMOUTW" PROVE flerr'
    OBVIOUS
  <2>1. flerr = TRUE
    BY StepIsUnderWay DEF FlagInv
  <2> QED
    BY <2>1, StepOutcome DEF Outcome, outcome
<1> QED
  BY <1>1, <1>2, <1>3, PTL DEF Spec, FaultShows

-----------------------------------------------------------------------------
(* The terminal.                                                           *)
Character == 1 .. 127

\* InOrder, and what it needs of the terminal and the ring: while a signal is
\* pending there is something to read, and a 0 is never among the characters,
\* so that the reader takes it for an empty ring only.
OrderInv ==
  /\ typed \in 0 .. Len(Keys)
  /\ got \in Seq(Character) /\ keyboard \in Seq(Character) /\ tty \in Seq(Character)
  /\ signalled \in BOOLEAN /\ (signalled => tty # << >>)
  /\ missed \in BOOLEAN
  /\ InOrder

\* A sequence is its head and its tail.
LEMMA HeadAndTail == ASSUME NEW S, NEW s \in Seq(S), s # << >> PROVE s = <<Head(s)>> \o Tail(s)
<1>1. /\ Head(s) \in S /\ Tail(s) \in Seq(S) /\ Len(Tail(s)) = Len(s) - 1
      /\ \A i \in 1 .. Len(Tail(s)) : Tail(s)[i] = s[i + 1]
  BY HeadTailProperties
<1>2. Len(s) \in Nat \ {0} /\ Head(s) = s[1]
  BY EmptySeq
<1> DEFINE t == Tail(s)
           h == <<Head(s)>>
<1>3. h \in Seq(S) /\ Len(h) = 1 /\ h[1] = Head(s)
  BY <1>1
<1>4. t \in Seq(S)
  BY <1>1
<1>5. /\ h \o t \in Seq(S) /\ Len(h \o t) = 1 + Len(t)
      /\ \A i \in 1 .. 1 + Len(t) : (h \o t)[i] = IF i <= 1 THEN h[i] ELSE t[i - 1]
  <2> HIDE DEF h, t
  <2>1. /\ h \o t \in Seq(S) /\ Len(h \o t) = Len(h) + Len(t)
        /\ \A i \in 1 .. Len(h) + Len(t) : (h \o t)[i] = IF i <= Len(h) THEN h[i] ELSE t[i - Len(h)]
    BY <1>3, <1>4, ConcatProperties
  <2> QED
    BY <1>3, <2>1
<1>6. \A i \in 1 .. Len(s) : s[i] = (h \o t)[i]
  BY <1>1, <1>2, <1>3, <1>5
<1> QED
  BY <1>1, <1>2, <1>5, <1>6, SeqEqual

\* What one sequence gives up at its front goes to the end of the one before.
LEMMA HandedOver ==
  ASSUME NEW S, NEW s \in Seq(S), NEW t \in Seq(S), t # << >>
  PROVE  Append(s, Head(t)) \o Tail(t) = s \o t
<1>1. Head(t) \in S /\ Tail(t) \in Seq(S)
  BY HeadTailProperties
<1>2. Append(s, Head(t)) = s \o <<Head(t)>>
  BY <1>1, AppendIsConcat
<1>3. <<Head(t)>> \in Seq(S)
  BY <1>1
<1>4. (s \o <<Head(t)>>) \o Tail(t) = s \o (<<Head(t)>> \o Tail(t))
  BY <1>1, <1>3, ConcatAssociative
<1> QED
  BY <1>2, <1>4, HeadAndTail

LEMMA EmptyIsInOrder == /\ << >> \o << >> \o << >> = SubSeq(Keys, 1, 0)
                        /\ 0 \in 0 .. Len(Keys) /\ << >> \in Seq(Character)
<1>1. << >> \in Seq(Character)
  OBVIOUS
<1>2. << >> \o << >> = << >>
  BY <1>1, ConcatEmptySeq
<1>3. SubSeq(Keys, 1, 0) = << >>
  BY SubSeqEmpty
<1> QED
  BY <1>1, <1>2, <1>3, TerminalAssumption, LenProperties

LEMMA QuietKeepsOrder == ASSUME OrderInv, UNCHANGED <<terminal, history>> PROVE OrderInv'
BY DEF OrderInv, terminal, history, InOrder

\* read_keyboard_char() and the store behind it
LEMMA StoredKeepsOrder == ASSUME OrderInv, NEW a, NEW w, Stored(a, w) PROVE OrderInv'
<1>1. UNCHANGED <<tty, signalled, typed>> /\ keyboard' = IF keyboard = << >> THEN << >> ELSE Tail(keyboard)
  BY DEF Stored, Taken
<1>2. keyboard # << >> => Key = Head(keyboard) /\ Key \in Character /\ Key # 0 /\ Tail(keyboard) \in Seq(Character)
  <2> SUFFICES ASSUME keyboard # << >>
               PROVE  Key = Head(keyboard) /\ Key \in Character /\ Key # 0 /\ Tail(keyboard) \in Seq(Character)
    OBVIOUS
  <2>1. Head(keyboard) \in Character /\ Tail(keyboard) \in Seq(Character)
    BY HeadTailProperties DEF OrderInv
  <2>2. 0 \notin Character
    BY DEF Character
  <2> QED
    BY <2>1, <2>2 DEF Key
<1>3. CASE Resident(a)
  <2>1. missed' = missed /\ got' = IF Key = 0 THEN got ELSE Append(got, Key)
    BY <1>3 DEF Stored
  <2>2. CASE keyboard = << >>
    BY <1>1, <2>1, <2>2 DEF OrderInv, InOrder, Key
  <2>3. CASE keyboard # << >>
    <3>1. got' \o keyboard' = got \o keyboard
      BY <1>1, <1>2, <2>1, <2>3, HandedOver DEF OrderInv
    <3>2. got' \in Seq(Character)
      BY <1>2, <2>1, <2>3, AppendProperties DEF OrderInv
    <3>3. got' \o keyboard' \o tty' = got \o keyboard \o tty
      BY <1>1, <3>1
    <3> QED
      BY <1>1, <1>2, <2>1, <2>3, <3>2, <3>3 DEF OrderInv, InOrder
  <2> QED
    BY <2>2, <2>3
<1>4. CASE ~Resident(a)
  <2>1. got' = got /\ missed' = (missed \/ Key # 0)
    BY <1>4 DEF Stored
  <2>2. CASE keyboard = << >>
    BY <1>1, <2>1, <2>2 DEF OrderInv, InOrder, Key
  <2>3. CASE keyboard # << >>
    BY <1>1, <1>2, <2>1, <2>3 DEF OrderInv, InOrder
  <2> QED
    BY <2>2, <2>3
<1> QED
  BY <1>3, <1>4

LEMMA TypeKeepsOrder == ASSUME OrderInv, Type PROVE OrderInv'
<1> DEFINE n == typed + 1
<1>1. /\ typed < Len(Keys) /\ typed' = n /\ tty' = Append(tty, Keys[n]) /\ signalled' = TRUE
      /\ UNCHANGED <<keyboard, got, missed>>
  BY DEF Type
<1>2. typed \in Nat /\ Len(Keys) \in Nat /\ Keys \in Seq(Character)
  BY TerminalAssumption, LenProperties DEF OrderInv, Character
<1>3. n \in 1 .. Len(Keys) /\ typed \in 0 .. Len(Keys) /\ n - 1 = typed
  BY <1>1, <1>2
<1>4. Keys[n] \in Character
  BY <1>2, <1>3, ElementOfSeq
<1>5. tty' \in Seq(Character) /\ tty' # << >>
  BY <1>1, <1>4, AppendProperties DEF OrderInv
<1>6. got \o keyboard \o tty' = Append(got \o keyboard \o tty, Keys[n])
  <2> DEFINE s == got \o keyboard
             k == Keys[n]
  <2>1. s \in Seq(Character) /\ <<k>> \in Seq(Character)
    BY <1>4, ConcatProperties DEF OrderInv
  <2>2. s \o tty \in Seq(Character)
    BY <2>1, ConcatProperties DEF OrderInv
  <2>3. Append(tty, k) = tty \o <<k>> /\ Append(s \o tty, k) = (s \o tty) \o <<k>>
    BY <1>4, <2>2, AppendIsConcat DEF OrderInv
  <2>4. s \o (tty \o <<k>>) = (s \o tty) \o <<k>>
    BY <2>1, ConcatAssociative DEF OrderInv
  <2> QED
    BY <1>1, <2>3, <2>4
<1>7. SubSeq(Keys, 1, n) = Append(SubSeq(Keys, 1, typed), Keys[n])
  <2>1. 1 \in 1 .. Len(Keys) /\ n \in 1 .. Len(Keys)
    BY <1>3
  <2>2. SubSeq(Keys, 1, n) = SubSeq(Keys, 1, n - 1) \o <<Keys[n]>>
    BY <1>2, <2>1, SubSeqRecursiveSecond
  <2>3. SubSeq(Keys, 1, typed) \in Seq(Character)
    BY <1>2, <1>3, SubSeqProperties, ElementOfSeq
  <2> QED
    BY <1>3, <1>4, <2>2, <2>3, AppendIsConcat
<1>8. InOrder'
  <2> SUFFICES ASSUME ~missed PROVE got \o keyboard \o tty' = SubSeq(Keys, 1, n)
    BY <1>1 DEF InOrder
  <2> QED
    BY <1>6, <1>7 DEF OrderInv, InOrder
<1>9. typed' \in 0 .. Len(Keys)
  BY <1>1, <1>3
<1> QED
  BY <1>1, <1>5, <1>8, <1>9 DEF OrderInv

\* sigio() takes one character, whatever was typed
LEMMA SigioKeepsOrder == ASSUME OrderInv, Sigio PROVE OrderInv'
<1>1. /\ signalled /\ signalled' = FALSE /\ tty' = Tail(tty) /\ UNCHANGED <<typed, got>>
      /\ tty # << >>
  BY DEF Sigio, OrderInv
<1>2. Head(tty) \in Character /\ Tail(tty) \in Seq(Character)
  BY <1>1, HeadTailProperties DEF OrderInv
<1>3. CASE Len(keyboard) < kbb_size - 1
  <2>1. keyboard' = Append(keyboard, Head(tty)) /\ missed' = missed
    BY <1>3 DEF Sigio
  <2>2. keyboard' \in Seq(Character)
    BY <1>2, <2>1, AppendProperties DEF OrderInv
  <2>3. keyboard' \o tty' = keyboard \o tty
    BY <1>1, <2>1, HandedOver DEF OrderInv
  <2>4. got \o keyboard' \o tty' = got \o (keyboard' \o tty')
    <3>1. got \in Seq(Character) /\ tty' \in Seq(Character)
      BY <1>1, <1>2 DEF OrderInv
    <3> QED
      BY <2>2, <3>1, ConcatAssociative
  <2>5. got \o keyboard \o tty = got \o (keyboard \o tty)
    BY ConcatAssociative DEF OrderInv
  <2>6. got' \o keyboard' \o tty' = got \o keyboard \o tty
    BY <1>1, <2>3, <2>4, <2>5
  <2> QED
    BY <1>1, <1>2, <2>1, <2>2, <2>6 DEF OrderInv, InOrder
<1>4. CASE ~(Len(keyboard) < kbb_size - 1)
  <2>1. keyboard' = Append(Tail(keyboard), Head(tty)) /\ missed' = TRUE
    BY <1>4 DEF Sigio
  <2>2. keyboard # << >>
    BY <1>4, TerminalAssumption, EmptySeq
  <2>3. Tail(keyboard) \in Seq(Character)
    BY <2>2, HeadTailProperties DEF OrderInv
  <2>4. keyboard' \in Seq(Character)
    BY <1>2, <2>1, <2>3, AppendProperties
  <2> QED
    BY <1>1, <1>2, <2>1, <2>4 DEF OrderInv, InOrder
<1> QED
  BY <1>3, <1>4

LEMMA StepKeepsOrder == ASSUME OrderInv, Step PROVE OrderInv'
<1>1. CASE TermInC \/ TermInW
  BY <1>1, StoredKeepsOrder, QuietKeepsOrder DEF TermInC, TermInW, Stop, Quiet
<1>2. CASE \/ ReadDisc \/ WriteDisc \/ SizeDisc \/ TermOutC \/ TermOutW \/ Seconds \/ Datetime
           \/ MtLoad \/ MtUnload \/ MtRead \/ MtWrite
  <2>1. Quiet
    BY <1>2 DEF ReadDisc, WriteDisc, SizeDisc, TermOutC, TermOutW, Seconds, Datetime,
                MtLoad, MtUnload, MtRead, MtWrite
  <2> QED
    BY <2>1, QuietKeepsOrder DEF Quiet
<1> QED
  BY <1>1, <1>2 DEF Step

LEMMA NextKeepsOrder == ASSUME OrderInv, Next PROVE OrderInv'
<1>1. CASE (\E r \in Requests : Doio(r)) \/ Paging
  BY <1>1, QuietKeepsOrder DEF Doio, Paging
<1>2. CASE Kill
  <2>1. /\ typed' = 0 /\ got' = << >> /\ keyboard' = << >> /\ tty' = << >>
        /\ signalled' = FALSE /\ missed' = FALSE
    BY <1>2 DEF Kill
  <2> QED
    BY <2>1, EmptyIsInOrder DEF OrderInv, InOrder
<1> QED
  BY <1>1, <1>2, StepKeepsOrder, TypeKeepsOrder, SigioKeepsOrder DEF Next

\* Characters reach the program in the order in which they were typed and
\* none is left out, for every text, every size of the ring, every program
\* and every moment at which SIGIO comes, unless one was lost to a fault in
\* the middle of a read or to a full ring.
THEOREM TypedInOrder == Spec => []InOrder
<1>1. Init => OrderInv
  BY EmptyIsInOrder DEF Init, Start, OrderInv, InOrder
<1>2. OrderInv /\ [Next]_vars => OrderInv'
  <2>1. OrderInv /\ UNCHANGED vars => OrderInv'
    BY QuietKeepsOrder DEF vars
  <2> QED
    BY <2>1, NextKeepsOrder
<1>3. OrderInv => InOrder
  BY DEF OrderInv
<1> QED
  BY <1>1, <1>2, <1>3, PTL DEF Spec

-----------------------------------------------------------------------------
(* The disc.                                                               *)

\* the blocks that WRITEDISC has come to
Done(k) == io.op = "WRITEDISC" /\ k \in io.block + 1 .. io.block + io.done

\* The program's numbers were checked against the size of the disc, and while
\* an operation is under way each block is what it was before or, if
\* WRITEDISC has come to it, what memory holds for it.
BlocksInv ==
  /\ disc = [k \in 1 .. Len(DiscFile) |-> disc[k]]
  /\ io # NoIo => {"op", "done", "before"} \subseteq DOMAIN io
  /\ io.op \in DiscOps => /\ {"num", "block", "address"} \subseteq DOMAIN io
                          /\ io.num \in Nat /\ io.block \in Nat /\ io.address \in Int
                          /\ io.block + io.num <= Len(DiscFile)
                          /\ io.done \in 0 .. io.num
  /\ io # NoIo => \A k \in 1 .. Len(DiscFile) : disc[k] = IF Done(k) THEN Image(k) ELSE io.before[k]

LEMMA Least == ASSUME NEW S, S \subseteq Nat, S # {} PROVE \E x \in S : \A y \in S : x <= y
<1>1. PICK x \in S : \A y \in S : <<y, x>> \notin OpToRel(<, Nat)
  BY NatLessThanWellFounded, WFMin
<1>2. ASSUME NEW y \in S PROVE x <= y
  <2>1. <<y, x>> \notin {p \in Nat \X Nat : p[1] < p[2]}
    BY <1>1 DEF OpToRel
  <2>2. <<y, x>> \in Nat \X Nat /\ <<y, x>>[1] = y /\ <<y, x>>[2] = x
    OBVIOUS
  <2>3. ~(y < x)
    BY <2>1, <2>2
  <2> QED
    BY <2>3
<1> QED
  BY <1>2

\* Within() finds the first word that cannot be read, or that all can be.
LEMMA WithinIs ==
  ASSUME NEW a, NEW n \in Nat
  PROVE  /\ Within(a, n) \in 0 .. n
         /\ \A i \in 0 .. Within(a, n) - 1 : Resident(a + i)
<1> DEFINE F == {i \in 0 .. n - 1 : ~Resident(a + i)}
           P(k) == (\A i \in 0 .. k - 1 : Resident(a + i)) /\ (k < n => ~Resident(a + k))
<1>1. \E k \in 0 .. n : P(k)
  <2>1. CASE F = {}
    <3>1. P(n) /\ n \in 0 .. n
      BY <2>1
    <3> QED
      BY <3>1
  <2>2. CASE F # {}
    <3>0. F \subseteq Nat
      OBVIOUS
    <3>1. PICK k \in F : \A y \in F : k <= y
      <4> HIDE DEF F
      <4> QED
        BY <2>2, <3>0, Least
    <3>2. ASSUME NEW i \in 0 .. k - 1 PROVE Resident(a + i)
      <4>1. i \notin F /\ i \in 0 .. n - 1
        BY <3>1
      <4> QED
        BY <4>1
    <3>3. P(k) /\ k \in 0 .. n
      BY <3>1, <3>2
    <3> QED
      BY <3>3
  <2> QED
    BY <2>1, <2>2
<1>2. Within(a, n) = CHOOSE k \in 0 .. n : P(k)
  BY DEF Within
<1>3. Within(a, n) \in 0 .. n /\ P(Within(a, n))
  <2> HIDE DEF P
  <2> QED
    BY <1>1, <1>2
<1> QED
  BY <1>3

\* A block that is gathered is what memory holds, and nothing is made up.
LEMMA GatheredIs ==
  ASSUME Here \in Int, Gathered
  PROVE  Block(Here) = [k \in 1 .. blockWords |-> memory[Here + k - 1]]
<1>1. blockWords \in Nat /\ \A i \in 0 .. blockWords - 1 : Resident(Here + i)
  BY FilesAssumption, WithinIs DEF Gathered
<1>2. ASSUME NEW k \in 1 .. blockWords PROVE Resident(Here + k - 1)
  <2>1. k - 1 \in 0 .. blockWords - 1 /\ Here + (k - 1) = Here + k - 1
    BY <1>1
  <2> QED
    BY <1>1, <2>1
<1> QED
  BY <1>2 DEF Block, Words

LEMMA BlockIsImage ==
  ASSUME BlocksInv, io.op = "WRITEDISC", Gathered
  PROVE  Block(Here) = Image(io.block + io.done + 1)
<1>1. blockWords \in Nat /\ io.block \in Nat /\ io.done \in Nat /\ io.address \in Int
  BY FilesAssumption DEF BlocksInv, DiscOps
<1>2. io.address + ((io.block + io.done + 1) - io.block - 1) * blockWords = Here /\ Here \in Int
  BY <1>1 DEF Here
<1>3. Image(io.block + io.done + 1) = [k \in 1 .. blockWords |-> memory[Here + k - 1]]
  BY <1>2 DEF Image, BlockAt, At
<1> QED
  BY <1>2, <1>3, GatheredIs

\* every step of an operation but one of WRITEDISC
DiscLeft == /\ disc' = disc /\ io.op # "WRITEDISC"
            /\ io' = NoIo \/ (More /\ (io.op = "READDISC" => io.done < io.num))

LEMMA StepLeavesDisc == ASSUME Step, ~WriteDisc PROVE DiscLeft
<1>1. ASSUME NEW ws, Receive(ws) PROVE io' = NoIo \/ More
  BY <1>1 DEF Receive, Fault, Over
<1>2. ASSUME NEW a, NEW w, Stored(a, w) PROVE io' = NoIo \/ More
  BY <1>2 DEF Stored, Fault, Return, Over
<1>3. CASE ReadDisc
  <2>1. disc' = disc /\ io.op # "WRITEDISC"
    BY <1>3 DEF ReadDisc, Doing, files
  <2>2. CASE io.done < io.num
    BY <1>1, <1>3, <2>1, <2>2 DEF ReadDisc, DiscLeft
  <2>3. CASE ~(io.done < io.num)
    <3>1. io' = NoIo
      BY <1>3, <2>3 DEF ReadDisc, Return, Over
    <3> QED
      BY <2>1, <3>1 DEF DiscLeft
  <2> QED
    BY <2>2, <2>3
<1>4. CASE MtRead
  BY <1>1, <1>4 DEF MtRead, Doing, Return, Over, DiscLeft
<1>5. CASE MtWrite
  BY <1>5 DEF MtWrite, Doing, Return, Fault, Over, DiscLeft
<1>6. CASE TermInC \/ TermInW
  BY <1>2, <1>6 DEF TermInC, TermInW, Stop, Doing, files, Return, Over, DiscLeft
<1>7. CASE SizeDisc \/ TermOutC \/ TermOutW \/ Seconds \/ Datetime
  BY <1>7 DEF SizeDisc, TermOutC, TermOutW, Seconds, Datetime, Doing, files, Return, Fault, Over, DiscLeft
<1>8. CASE MtLoad \/ MtUnload
  BY <1>8 DEF MtLoad, MtUnload, Doing, Return, Fault, Over, DiscLeft
<1> QED
  BY <1>3, <1>4, <1>5, <1>6, <1>7, <1>8 DEF Step

\* the next block, the end of the operation, or a fault
LEMMA WriteStep ==
  ASSUME BlocksInv, WriteDisc
  PROVE  LET b == io.block + io.done + 1
         IN /\ io.op = "WRITEDISC" /\ UNCHANGED memory
            /\ \/ io' = NoIo /\ disc' = disc
               \/ More /\ io.done < io.num /\ disc' = [disc EXCEPT ![b] = Image(b)]
<1>1. io.op = "WRITEDISC" /\ UNCHANGED memory
  BY DEF WriteDisc, Doing
<1>0. io.done \in Int /\ io.num \in Int
  BY <1>1 DEF BlocksInv, DiscOps
<1>2. CASE io.done = io.num
  BY <1>0, <1>1, <1>2 DEF WriteDisc, Return, Over
<1>3. CASE io.done < io.num /\ Gathered
  <2>1. disc' = [disc EXCEPT ![io.block + io.done + 1] = Block(Here)] /\ More /\ io.done # io.num
    BY <1>0, <1>1, <1>3 DEF WriteDisc
  <2> QED
    BY <1>1, <1>3, <2>1, BlockIsImage
<1>4. CASE io.done # io.num /\ ~(io.done < io.num /\ Gathered)
  BY <1>1, <1>4 DEF WriteDisc, Fault, Over
<1> QED
  BY <1>2, <1>3, <1>4

LEMMA EndKeepsBlocks == ASSUME BlocksInv, io' = NoIo, disc' = disc PROVE BlocksInv'
BY DEF BlocksInv, NoIo, DiscOps

LEMMA BeginKeepsBlocks == ASSUME BlocksInv, NEW r \in Requests, Doio(r) PROVE BlocksInv'
<1>1. io = NoIo /\ disc' = disc
  BY DEF Doio, files
<1>2. CASE io' = NoIo
  BY <1>1, <1>2, EndKeepsBlocks
<1>3. CASE io' # NoIo
  <2>1. Begun(r, Refusal(r)) /\ Refusal(r) = 0 /\ io' = Undertaken(r)
    BY <1>1, <1>3 DEF Doio, Unreadable, Begun
  <2>2. /\ DOMAIN io' = DOMAIN r \cup {"done", "before"}
        /\ "op" \in DOMAIN r /\ io'.op = r.op /\ io'.done = 0 /\ io'.before = disc
    BY <2>1, RequestAssumption DEF Undertaken
  <2>3. ASSUME r.op \in DiscOps
        PROVE  /\ {"num", "block", "address"} \subseteq DOMAIN r
               /\ io'.num = r.num /\ io'.block = r.block /\ io'.address = r.address
               /\ r.num \in Nat /\ r.block \in Nat /\ r.address \in Int
               /\ r.block + r.num <= Len(DiscFile)
    <3>1. /\ {"num", "block", "address"} \subseteq DOMAIN r
          /\ r.num \in Int /\ r.block \in Int /\ r.address \in Int
      BY <2>3, RequestAssumption DEF Transfers
    <3>2. r.num >= 0 /\ r.block >= 0 /\ r.block + r.num <= Len(disc)
      BY <2>1, <2>3, <3>1 DEF Refusal
    <3>3. Len(disc) = Len(DiscFile)
      BY FilesAssumption, LenProperties DEF BlocksInv
    <3> QED
      BY <2>1, <3>1, <3>2, <3>3 DEF Undertaken
  <2>4. \A k \in 1 .. Len(DiscFile) : ~Done(k)'
    BY <2>2, <2>3 DEF Done, DiscOps
  <2> QED
    BY <1>1, <2>2, <2>3, <2>4 DEF BlocksInv
<1> QED
  BY <1>2, <1>3

\* what More leaves of the operation as it was
LEMMA MoreGoesOn ==
  ASSUME BlocksInv, io # NoIo, More
  PROVE  /\ io' # NoIo /\ DOMAIN io' = DOMAIN io
         /\ io'.done = io.done + 1 /\ io'.op = io.op /\ io'.before = io.before
         /\ io.op \in DiscOps => /\ io'.num = io.num /\ io'.block = io.block
                                 /\ io'.address = io.address
BY DEF BlocksInv, More, NoIo

LEMMA StepKeepsBlocks == ASSUME BlocksInv, Step PROVE BlocksInv'
<1>0. io # NoIo
  BY StepIsUnderWay
<1>1. CASE ~WriteDisc
  <2>1. DiscLeft
    BY <1>1, StepLeavesDisc
  <2>2. CASE io' = NoIo
    BY <2>1, <2>2, EndKeepsBlocks DEF DiscLeft
  <2>3. CASE io' # NoIo
    <3>1. More /\ disc' = disc /\ io.op # "WRITEDISC"
          /\ (io.op \in DiscOps => io.done < io.num)
      BY <2>1, <2>3 DEF DiscLeft, DiscOps
    <3>2. \A k \in 1 .. Len(DiscFile) : ~Done(k) /\ ~Done(k)'
      BY <1>0, <3>1, MoreGoesOn DEF Done
    <3> QED
      BY <1>0, <3>1, <3>2, MoreGoesOn DEF BlocksInv
  <2> QED
    BY <2>2, <2>3
<1>2. CASE WriteDisc
  <2> DEFINE b == io.block + io.done + 1
  <2>1. io.op = "WRITEDISC" /\ UNCHANGED memory
    BY <1>2, WriteStep
  <2>2. CASE io' = NoIo /\ disc' = disc
    BY <2>2, EndKeepsBlocks
  <2>3. CASE More /\ io.done < io.num /\ disc' = [disc EXCEPT ![b] = Image(b)]
    <3>1. /\ io.num \in Nat /\ io.block \in Nat /\ io.address \in Int
          /\ io.block + io.num <= Len(DiscFile) /\ io.done \in 0 .. io.num
      BY <2>1 DEF BlocksInv, DiscOps
    <3>2. disc' = [k \in 1 .. Len(DiscFile) |-> IF k = b THEN Image(b) ELSE disc[k]]
      BY <2>3 DEF BlocksInv
    <3>3. ASSUME NEW k \in 1 .. Len(DiscFile)
          PROVE  Image(k)' = Image(k) /\ (Done(k)' <=> Done(k) \/ k = b)
      <4>1. /\ io'.op = "WRITEDISC" /\ io'.done = io.done + 1
            /\ io'.block = io.block /\ io'.address = io.address
        BY <1>0, <2>1, <2>3, MoreGoesOn DEF DiscOps
      <4>2. Image(k)' = Image(k)
        BY <2>1, <4>1 DEF Image, BlockAt, At
      <4> QED
        BY <2>1, <3>1, <4>1, <4>2 DEF Done
    <3>4. \A k \in 1 .. Len(DiscFile) : disc'[k] = IF Done(k)' THEN Image(k)' ELSE io'.before[k]
      BY <1>0, <2>3, <3>2, <3>3, MoreGoesOn DEF BlocksInv
    <3>5. disc' = [k \in 1 .. Len(DiscFile) |-> disc'[k]]
      BY <3>2
    <3> QED
      BY <1>0, <2>1, <2>3, <3>1, <3>4, <3>5, MoreGoesOn DEF BlocksInv, DiscOps
  <2> QED
    BY <1>2, <2>2, <2>3, WriteStep
<1> QED
  BY <1>1, <1>2

LEMMA NextKeepsBlocks == ASSUME BlocksInv, [Next]_vars PROVE BlocksInv'
<1>1. CASE Type \/ Sigio \/ Paging \/ UNCHANGED vars
  <2>1. UNCHANGED <<disc, io, memory>>
    BY <1>1 DEF Type, Sigio, Paging, World, files, vars
  <2> QED
    BY <2>1 DEF BlocksInv, Done, Image, BlockAt, At
<1>2. CASE Kill
  BY <1>2, EndKeepsBlocks DEF Kill
<1> QED
  BY <1>1, <1>2, BeginKeepsBlocks, StepKeepsBlocks DEF Next

\* Whenever WRITEDISC succeeds, faults or is killed, each block of the disc is
\* as it was or as the program has it in memory, and that only for blocks the
\* program named, for every disc, every size of a block and every request.
THEOREM WholeBlocks == Spec => BlocksWhole
<1> DEFINE Whole(k) == \/ disc'[k] = io.before[k]
                       \/ io.op = "WRITEDISC" /\ k \in io.block + 1 .. io.block + io.num /\ disc'[k] = Image(k)
<1>1. Init => BlocksInv
  BY FilesAssumption, LenProperties DEF Init, Start, BlocksInv, NoIo, DiscOps
<1>2. BlocksInv /\ [Next]_vars => BlocksInv'
  BY NextKeepsBlocks
<1>3. BlocksInv /\ [Next]_vars => [io # NoIo => \A k \in DOMAIN disc : Whole(k)]_vars
  <2> SUFFICES ASSUME BlocksInv, Next, io # NoIo, NEW k \in DOMAIN disc PROVE Whole(k)
    OBVIOUS
  <2>1. k \in 1 .. Len(DiscFile) /\ disc[k] = IF Done(k) THEN Image(k) ELSE io.before[k]
    BY DEF BlocksInv
  <2>2. Done(k) => /\ io.op = "WRITEDISC" /\ k \in io.block + 1 .. io.block + io.num
                   /\ disc[k] = Image(k)
    BY <2>1 DEF BlocksInv, Done, DiscOps
  <2>3. CASE disc' = disc
    BY <2>1, <2>2, <2>3
  <2>4. CASE WriteDisc /\ disc' # disc
    <3> DEFINE b == io.block + io.done + 1
    <3>1. io.op = "WRITEDISC" /\ io.done < io.num /\ disc' = [disc EXCEPT ![b] = Image(b)]
      BY <2>4, WriteStep
    <3>2. b \in io.block + 1 .. io.block + io.num
      BY <3>1 DEF BlocksInv, DiscOps
    <3> QED
      BY <2>1, <2>2, <3>1, <3>2
  <2>5. disc' = disc \/ WriteDisc
    BY StepLeavesDisc DEF DiscLeft, Next, Doio, Type, Sigio, Paging, Kill, World, files
  <2> QED
    BY <2>3, <2>4, <2>5
<1> QED
  BY <1>1, <1>2, <1>3, PTL DEF Spec, BlocksWhole
=============================================================================
