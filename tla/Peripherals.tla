----------------------------- MODULE Peripherals -----------------------------
(***************************************************************************)
(* DOIO of EEN521/emulator: perform_io_operation() of computer.cpp, between*)
(* a kernel whose pages come and go and what outlives the emulator: the    *)
(* disc file and the tapes.  One disc; block numbers so small that their   *)
(* place in the file does not overflow; characters below 128.              *)
(*                                                                         *)
(* An operation is one instruction to the processor but not to the world:  *)
(* SIGIO fills the ring in the middle of it, and the second control-C      *)
(* exits.  So it is a step for each block or character it moves.  A word   *)
(* is the sequence of its bytes, the lowest first.                         *)
(***************************************************************************)
EXTENDS Integers, Sequences, SequencesExt

CONSTANTS PageSize, Addresses,
          Residents,    \* the sets of pages that may be resident together
          blockWords,   \* 128: of 512 bytes
          bytes,        \* 4: of a word
          Boot,         \* memory when the program starts
          DiscFile, TapeFiles,  \* the files at first: blocks, and tapes by their labels
          kbb_size, Keys,       \* Keys: what is typed, in this order
          Requests,     \* what programs ask for
          Clock, DateOf(_),     \* time() and localtime()
          Junk,         \* what an uninitialised int may be
          MaxOps                \* bound

DiscOps == {"READDISC", "WRITEDISC"}
Transfers == DiscOps \cup {"MTREAD", "MTWRITE", "TERMINC", "TERMINW"}
\* kbb_size is 100; to read_keyboard_char() a 0 is no character
ASSUME TerminalAssumption == kbb_size \in Nat \ {0, 1} /\ Keys \in Seq(1 .. 127)
MemoryWord == [1 .. bytes -> 0 .. 255]
ASSUME FilesAssumption ==
  /\ blockWords \in Nat \ {0} /\ bytes \in Nat \ {0} /\ Boot \in [Addresses -> MemoryWord]
  /\ DiscFile \in Seq([1 .. blockWords -> MemoryWord])
  \* what is left of a tape may be shorter than a block
  /\ \A l \in DOMAIN TapeFiles : TapeFiles[l] \in Seq(Seq(MemoryWord))
\* the parameters of a transfer are words
ASSUME RequestAssumption ==
  \A r \in Requests :
    /\ {"op", "paramaddr"} \subseteq DOMAIN r /\ r.op # "none" /\ r.paramaddr \in Int
    /\ r.op \in Transfers => {"num", "address"} \subseteq DOMAIN r /\ r.num \in Int /\ r.address \in Int
    /\ r.op \in DiscOps => "block" \in DOMAIN r /\ r.block \in Int

VARIABLES memory, resident,
          disc, tapes, mtfile,  \* the files, and the tape that is loaded
          tty, signalled, keyboard,     \* typed and not read, SIGIO raised, and the ring
          io,                   \* the operation under way: what was asked for, how much is done,
                                \* and (for the properties) the disc before it
          R0, flerr,
          interrupted,          \* did the last operation raise an interrupt?
          ops, typed, got, missed       \* history: operations, how much was typed, what was put into
                                \* memory, and whether a character was lost
files == <<disc, tapes, mtfile>>
terminal == <<tty, signalled, keyboard>>
outcome == <<R0, flerr, interrupted>>
history == <<typed, got, missed>>
vars == <<memory, resident, files, terminal, io, outcome, ops, history>>

NoIo == [op |-> "none"]
NoTape == [label |-> << >>]
Word(v) == [k \in 1 .. bytes |-> IF k = 1 THEN v ELSE 0]

Start == /\ memory = Boot /\ resident \in Residents
         /\ mtfile = NoTape /\ tty = << >> /\ signalled = FALSE /\ keyboard = << >>
         /\ io = NoIo /\ R0 = 0 /\ flerr = FALSE /\ interrupted = FALSE
         /\ typed = 0 /\ got = << >> /\ missed = FALSE
Init == Start /\ disc = DiscFile /\ tapes = TapeFiles /\ ops = 0

-----------------------------------------------------------------------------
(* Memory.                                                                 *)
Resident(a) == a \in Addresses /\ a \div PageSize \in resident
\* how many of n words from a on are there before the first that faults
Within(a, n) == CHOOSE k \in 0 .. n : /\ \A i \in 0 .. k - 1 : Resident(a + i)
                                      /\ k < n => ~Resident(a + k)
\* what cannot be read is 0
Words(a, n) == [k \in 1 .. n |-> IF Resident(a + k - 1) THEN memory[a + k - 1] ELSE Word(0)]
Write(a, ws) == memory' = [x \in Addresses |-> IF x \in a .. a + Len(ws) - 1 THEN ws[x - a + 1] ELSE memory[x]]
Block(a) == Words(a, blockWords)
\* string_from_memory(): up to maxlen bytes, or all up to a 0; none if one of
\* them cannot be read
Byte(a, j) == memory[a + j \div bytes][1 + (j % bytes)]
Zeros(a) == {j \in 0 .. 2 * bytes : Resident(a + j \div bytes) /\ Byte(a, j) = 0}
Length(a, maxlen) == IF maxlen # 0 THEN maxlen
                     ELSE IF Zeros(a) = {} THEN 2 * bytes + 1 ELSE Min(Zeros(a))
Readable(a, maxlen) == \A j \in 0 .. Length(a, maxlen) - (IF maxlen = 0 THEN 0 ELSE 1) : Resident(a + j \div bytes)
String(a, maxlen) == [k \in 1 .. Length(a, maxlen) |-> Byte(a, k - 1)]

-----------------------------------------------------------------------------
(* How an operation ends.                                                  *)
Over(error, intr) == /\ io' = NoIo /\ flerr' = error /\ interrupted' = intr
\* the result goes to the register
Return(v, error) == Over(error, FALSE) /\ R0' = v
\* the register is left as it was
\* (slip: the flag is lowered before the words are moved)
FaultUnseen == Over(FALSE, TRUE) /\ UNCHANGED R0
Fault == Over(TRUE, TRUE) /\ UNCHANGED R0
More == io' = [io EXCEPT !.done = @ + 1] /\ UNCHANGED outcome

TapeOps == {"MTREAD", "MTWRITE", "MTUNLOAD"}
Parameters == [READDISC |-> 4, WRITEDISC |-> 4, SIZEDISC |-> 2, TERMINC |-> 2, TERMINW |-> 2, TERMOUTC |-> 2,
               TERMOUTW |-> 2, SECONDS |-> 0, DATETIME |-> 8, MTLOAD |-> 2, MTUNLOAD |-> 0, MTREAD |-> 2, MTWRITE |-> 2]
discs == 2              \* discs.size(): the vector begins with a 0 that is no disc
\* the error an operation ends with before it moves anything; there is
\* nothing to be found at discs[2], although 2 is let pass
Refusal(r) ==
  CASE r.op \notin DOMAIN Parameters -> -1
    [] r.op \in TapeOps /\ mtfile = NoTape -> -3
    [] Within(r.paramaddr, Parameters[r.op]) < Parameters[r.op] -> -2
    [] r.op \in DiscOps \cup {"SIZEDISC"} /\ r.unit \notin 1 .. discs -> -3
    [] r.op \in DiscOps /\ (r.unit = discs \/ r.num < 0 \/ r.block < 0 \/ r.block + r.num > Len(disc)) -> -4
    [] OTHER -> 0
\* the word before the parameters says which operation it is
Unreadable(r) == ~Resident(r.paramaddr - 1) /\ interrupted' = TRUE /\ UNCHANGED <<flerr, R0, io>>
\* what is asked for, and nothing done yet
Undertaken(r) == [f \in DOMAIN r \cup {"done", "before"} |->
                    CASE f = "done" -> 0 [] f = "before" -> disc [] OTHER -> r[f]]
Begun(r, e) ==
  /\ Resident(r.paramaddr - 1)
  /\ interrupted' = (e = -2) /\ flerr' = TRUE
  /\ R0' = IF e \in {0, -2} THEN R0 ELSE e
  /\ io' = IF e = 0 THEN Undertaken(r) ELSE NoIo
Doio(r) ==
  /\ io = NoIo /\ ops < MaxOps /\ ops' = ops + 1
  /\ Unreadable(r) \/ Begun(r, Refusal(r))
  /\ UNCHANGED <<memory, resident, files, terminal, history>>

Doing(op) == io.op = op /\ UNCHANGED <<resident, ops>>
Quiet == UNCHANGED <<terminal, history>>

-----------------------------------------------------------------------------
(* Discs.                                                                  *)
Here == io.address + io.done * blockWords
\* (slip: every block goes to the same place)
ReceiveInPlace(ws) == /\ Write(io.address, SubSeq(ws, 1, Within(io.address, blockWords)))
                      /\ IF Within(io.address, blockWords) < blockWords THEN Fault ELSE More
Receive(ws) == /\ Write(Here, SubSeq(ws, 1, Within(Here, blockWords)))
               /\ IF Within(Here, blockWords) < blockWords THEN Fault ELSE More
ReadDisc ==
  /\ Doing("READDISC")
  /\ IF io.done < io.num THEN Receive(disc[io.block + io.done + 1])
     ELSE Return(io.num, FALSE) /\ UNCHANGED memory
  /\ Quiet /\ UNCHANGED files
\* the block is gathered first and then written
\* (slip: only its first word is looked at)
GatheredFirst == Resident(Here)
Gathered == Within(Here, blockWords) = blockWords
WriteDisc ==
  /\ Doing("WRITEDISC")
  /\ CASE io.done = io.num -> Return(io.num, FALSE) /\ UNCHANGED disc
       [] io.done < io.num /\ Gathered -> disc' = [disc EXCEPT ![io.block + io.done + 1] = Block(Here)] /\ More
       [] OTHER -> Fault /\ UNCHANGED disc
  /\ Quiet /\ UNCHANGED <<memory, tapes, mtfile>>
SizeDisc ==
  /\ Doing("SIZEDISC")
  /\ \E n \in IF io.unit = discs THEN Junk ELSE {Len(disc)} :
       Write(io.paramaddr + 1, <<Word(n)>>) /\ Return(n, FALSE)
  /\ Quiet /\ UNCHANGED files

-----------------------------------------------------------------------------
(* The terminal.                                                           *)
Key == IF keyboard = << >> THEN 0 ELSE Head(keyboard)
\* (slip: the ring is left as it is)
TakenNot == UNCHANGED keyboard
Taken == keyboard' = IF keyboard = << >> THEN << >> ELSE Tail(keyboard)
\* the character is gone before it is known whether it can be stored
Stored(a, w) ==
  /\ Taken /\ UNCHANGED <<tty, signalled, typed>>
  /\ IF Resident(a)
     THEN /\ Write(a, <<w>>) /\ got' = IF Key = 0 THEN got ELSE Append(got, Key)
          /\ IF Key = 0 THEN Return(io.done, FALSE) ELSE More
          /\ UNCHANGED missed
     ELSE /\ Fault /\ missed' = (missed \/ Key # 0)
          /\ UNCHANGED <<memory, got>>
Stop == Return(io.done, FALSE) /\ Quiet /\ UNCHANGED memory
TermInC ==
  /\ Doing("TERMINC")
  /\ LET a == io.address + io.done \div bytes
     IN IF io.done < io.num
        THEN Stored(a, IF Resident(a) THEN [memory[a] EXCEPT ![1 + (io.done % bytes)] = Key] ELSE << >>)
        ELSE Stop
  /\ UNCHANGED files
\* (slip: it waits for them)
TermInWWaits ==
  /\ Doing("TERMINW")
  /\ IF io.done < io.num THEN keyboard # << >> /\ Stored(io.address + io.done, Word(Key)) ELSE Stop
  /\ UNCHANGED files
TermInW ==
  /\ Doing("TERMINW")
  /\ IF io.done < io.num /\ keyboard # << >> THEN Stored(io.address + io.done, Word(Key)) ELSE Stop
  /\ UNCHANGED files
\* what is shown is not kept
TermOutC ==
  /\ Doing("TERMOUTC")
  /\ IF Readable(io.address, io.num)
     THEN Return(IF io.num = 0 THEN Length(io.address, 0) ELSE io.num, FALSE)
     ELSE Fault
  /\ Quiet /\ UNCHANGED <<memory, files>>
\* "actual" is not initialised, and the end of the string is looked for
\* before the interrupt: a word that cannot be read is taken for it
Shown == IF io.num > 0 THEN Within(io.address, io.num)
         ELSE CHOOSE k \in Addresses : /\ \A i \in 0 .. k - 1 : Resident(io.address + i) /\ memory[io.address + i][1] # 0
                                            /\ Resident(io.address + k) => memory[io.address + k][1] = 0
TermOutW ==
  /\ Doing("TERMOUTW")
  /\ CASE io.num > 0 /\ Shown < io.num -> Fault
       [] io.num = 0 /\ ~Resident(io.address + Shown) -> Over(FALSE, TRUE) /\ UNCHANGED R0
       [] OTHER -> \E j \in Junk : Return(j + Shown, FALSE)
  /\ Quiet /\ UNCHANGED <<memory, files>>

-----------------------------------------------------------------------------
(* The clock.                                                              *)
Seconds == /\ Doing("SECONDS") /\ \E t \in Clock : Return(t, FALSE)
           /\ Quiet /\ UNCHANGED <<memory, files>>
Datetime == /\ Doing("DATETIME")
            /\ Write(io.paramaddr + 1, [k \in 1 .. 7 |-> Word(DateOf(memory[io.paramaddr])[k])]) /\ Return(1, FALSE)
            /\ Quiet /\ UNCHANGED files

-----------------------------------------------------------------------------
(* The tape.                                                               *)
Loaded(label, writable) == [label |-> label, writable |-> writable, at |-> 0]
\* the tape that was there is unloaded before the label can be read
MtLoad ==
  /\ Doing("MTLOAD")
  /\ LET label == String(io.address, 0)
     IN CASE ~Readable(io.address, 0) -> Fault /\ mtfile' = NoTape /\ UNCHANGED tapes
          [] io.writable -> /\ Return(1, FALSE) /\ mtfile' = Loaded(label, TRUE)
                            /\ tapes' = [l \in DOMAIN tapes \cup {label} |-> IF l = label THEN << >> ELSE tapes[l]]
          [] ~io.writable /\ label \in DOMAIN tapes -> Return(1, FALSE) /\ mtfile' = Loaded(label, FALSE) /\ UNCHANGED tapes
          [] OTHER -> Return(-5, TRUE) /\ mtfile' = NoTape /\ UNCHANGED tapes
  /\ Quiet /\ UNCHANGED <<memory, disc>>
MtUnload == /\ Doing("MTUNLOAD") /\ mtfile' = NoTape /\ Return(1, FALSE)
            /\ Quiet /\ UNCHANGED <<memory, disc, tapes>>
Tape == tapes[mtfile.label]
Padded(b) == [k \in 1 .. blockWords |-> IF k <= Len(b) THEN b[k] ELSE Word(0)]
\* the tape has moved on when the block cannot be stored
MtRead ==
  /\ Doing("MTREAD")
  /\ CASE io.done >= io.num -> Return(io.num, FALSE) /\ UNCHANGED <<memory, mtfile>>
       [] io.done < io.num /\ mtfile.writable -> Return(-5, TRUE) /\ UNCHANGED <<memory, mtfile>>
       [] io.done < io.num /\ ~mtfile.writable /\ mtfile.at = Len(Tape) -> Return(io.done, TRUE) /\ UNCHANGED <<memory, mtfile>>
       [] OTHER -> Receive(Padded(Tape[mtfile.at + 1])) /\ mtfile' = [mtfile EXCEPT !.at = @ + 1]
  /\ Quiet /\ UNCHANGED <<disc, tapes>>
MtWrite ==
  /\ Doing("MTWRITE")
  /\ CASE io.done >= io.num -> Return(io.num, FALSE) /\ UNCHANGED <<tapes, mtfile>>
       [] io.done < io.num /\ ~Gathered -> Fault /\ UNCHANGED <<tapes, mtfile>>
       [] io.done < io.num /\ Gathered /\ ~mtfile.writable -> Return(-5, TRUE) /\ UNCHANGED <<tapes, mtfile>>
       [] OTHER -> /\ More /\ mtfile' = [mtfile EXCEPT !.at = @ + 1]
                   /\ tapes' = [tapes EXCEPT ![mtfile.label] = Append(@, Block(Here))]
  /\ Quiet /\ UNCHANGED <<memory, disc>>

-----------------------------------------------------------------------------
(* The world.                                                              *)
World == UNCHANGED <<memory, files, io, outcome, ops>>
Type == /\ typed < Len(Keys)
        /\ typed' = typed + 1 /\ tty' = Append(tty, Keys[typed']) /\ signalled' = TRUE
        /\ UNCHANGED <<resident, keyboard, got, missed>> /\ World
\* however many characters there are, sigio() reads one
Sigio == /\ signalled /\ signalled' = FALSE /\ tty' = Tail(tty)
         /\ IF Len(keyboard) < kbb_size - 1
            THEN keyboard' = Append(keyboard, Head(tty)) /\ UNCHANGED missed
            ELSE keyboard' = Append(Tail(keyboard), Head(tty)) /\ missed' = TRUE
         /\ UNCHANGED <<resident, typed, got>> /\ World
\* the kernel's pages come and go between two operations
Paging == /\ io = NoIo /\ resident' \in Residents /\ resident' # resident
          /\ UNCHANGED <<terminal, history>> /\ World
\* control-C twice; the emulator is started again, and its terminal emptied
Kill == /\ memory' = Boot /\ resident' \in Residents /\ mtfile' = NoTape
        /\ tty' = << >> /\ signalled' = FALSE /\ keyboard' = << >>
        /\ io' = NoIo /\ R0' = 0 /\ flerr' = FALSE /\ interrupted' = FALSE
        /\ typed' = 0 /\ got' = << >> /\ missed' = FALSE
        /\ UNCHANGED <<disc, tapes, ops>>

Step == \/ ReadDisc \/ WriteDisc \/ SizeDisc \/ TermInC \/ TermInW \/ TermOutC \/ TermOutW
        \/ Seconds \/ Datetime \/ MtLoad \/ MtUnload \/ MtRead \/ MtWrite
Next == \/ \E r \in Requests : Doio(r)
        \/ Step
        \/ Type \/ Sigio \/ Paging \/ Kill
\* the emulator executes the instruction it is at
Spec == Init /\ [][Next]_vars /\ WF_vars(Step)

-----------------------------------------------------------------------------
(* Properties.                                                             *)
At(m, a, n) == [k \in 1 .. n |-> m[a + k - 1]]
\* where memory m holds the k-th block and the k-th byte of the operation
BlockAt(m, k) == At(m, io.address + (k - 1) * blockWords, blockWords)
ByteAt(m, k) == m[io.address + (k - 1) \div bytes][1 + ((k - 1) % bytes)]
\* n is what is reported, everything else is as it is then
Moved(n, m, d, t, at, chars) ==
  CASE io.op \in DiscOps -> \A k \in 1 .. n : BlockAt(m, k) = d[io.block + k]
    [] io.op \in {"MTREAD", "MTWRITE"} -> \A k \in 1 .. n : BlockAt(m, k) = Padded(t[at.label][at.at - n + k])
    [] io.op = "TERMINW" -> \A k \in 1 .. n : m[io.address + k - 1] = Word(chars[Len(chars) - n + k])
    [] io.op = "TERMINC" -> \A k \in 1 .. n : ByteAt(m, k) = chars[Len(chars) - n + k]
    [] OTHER -> TRUE

\* An operation that reports success has moved just what it says: the blocks
\* of the disc that it names, the blocks before the tape's place or the
\* characters last taken, each to or from its own place in memory, however
\* often it or others failed before (perform_io_operation()).
SuccessMoved ==
  [][Step /\ io' = NoIo /\ ~flerr' /\ ~interrupted' => Moved(R0', memory', disc', tapes', mtfile', got')]_vars

\* WRITEDISC leaves no block half written, whether it succeeds, faults or is
\* killed: a block is as it was, or as the program has it in memory, and that
\* only if the program named it.
Image(k) == BlockAt(memory, k - io.block)
BlocksWhole ==
  [][io # NoIo => \A k \in DOMAIN disc :
       \/ disc'[k] = io.before[k]
       \/ io.op = "WRITEDISC" /\ k \in io.block + 1 .. io.block + io.num /\ disc'[k] = Image(k)]_vars

\* What is typed reaches the program in order and all of it: what SIGIO, that
\* does not count, leaves in the terminal comes later.  Only a fault in the
\* middle of a read, or a full ring, loses a character.
InOrder == ~missed => got \o keyboard \o tty = SubSeq(Keys, 1, typed)

\* The program can tell from the error flag that an operation it had begun was
\* broken off by an interrupt (in run mode nothing else tells it).  Not so of
\* TERMOUTW, which takes a word it cannot read for the end of the text.
FaultShows == [][Step /\ interrupted' => flerr' \/ io.op = "TERMOUTW"]_vars

\* Every operation comes to its end, whatever is or is not typed.
Ends == (io # NoIo) ~> (io = NoIo)
=============================================================================
