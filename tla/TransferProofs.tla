--------------------------- MODULE TransferProofs ---------------------------
(***************************************************************************)
(* What DOIO moves: an operation that reports success has moved what it    *)
(* says to or from the places it says, for every disc, tape, text and      *)
(* program.                                                                *)
(***************************************************************************)
EXTENDS PeripheralsProofs

-----------------------------------------------------------------------------
(* The parameters of an operation.                                         *)

\* the number of steps done stays between 0 and what was asked for
ParamInv ==
  /\ io # NoIo => "paramaddr" \in DOMAIN io /\ io.paramaddr \in Int
  /\ io.op \in Transfers => /\ {"num", "address"} \subseteq DOMAIN io
                            /\ io.num \in Int /\ io.address \in Int /\ io.done \in Nat
                            /\ io.done <= io.num \/ io.done = 0

LEMMA EndKeepsParam == ASSUME io' = NoIo PROVE ParamInv'
BY DEF ParamInv, NoIo, Transfers, DiscOps

LEMMA BeginKeepsParam == ASSUME ParamInv, NEW r \in Requests, Doio(r) PROVE ParamInv'
<1>1. io = NoIo
  BY DEF Doio
<1>2. CASE io' = NoIo
  BY <1>2, EndKeepsParam
<1>3. CASE io' # NoIo
  <2>1. Refusal(r) = 0 /\ io' = Undertaken(r)
    BY <1>1, <1>3 DEF Doio, Unreadable, Begun
  <2>2. /\ "paramaddr" \in DOMAIN io' /\ io'.paramaddr \in Int
        /\ io'.op = r.op /\ io'.done = 0
    BY <2>1, RequestAssumption DEF Undertaken
  <2>3. r.op \in Transfers => {"num", "address"} \subseteq DOMAIN io' /\ io'.num \in Int /\ io'.address \in Int
    BY <2>1, RequestAssumption DEF Undertaken
  <2> QED
    BY <1>3, <2>2, <2>3 DEF ParamInv
<1> QED
  BY <1>2, <1>3

\* a step of an operation is its last or one of those it asked for
GoesOn == More /\ io.op \in Transfers /\ io.done < io.num
LEMMA StepGoesOn == ASSUME ParamInv, Step PROVE io' = NoIo \/ GoesOn
<1>1. ASSUME NEW ws, Receive(ws) PROVE io' = NoIo \/ More
  BY <1>1 DEF Receive, Fault, Over
<1>2. ASSUME NEW a, NEW w, Stored(a, w) PROVE io' = NoIo \/ More
  BY <1>2 DEF Stored, Fault, Return, Over
<1> USE DEF Transfers, DiscOps, GoesOn
<1>3. CASE ReadDisc
  BY <1>1, <1>3 DEF ReadDisc, Doing, Return, Over
<1>4. CASE WriteDisc
  BY <1>4 DEF WriteDisc, Doing, Return, Fault, Over, ParamInv
<1>5. CASE TermInC \/ TermInW
  BY <1>2, <1>5 DEF TermInC, TermInW, Doing, Stop, Return, Over
<1>6. CASE MtRead
  BY <1>1, <1>6 DEF MtRead, Doing, Return, Over, ParamInv
<1>7. CASE MtWrite
  BY <1>7 DEF MtWrite, Doing, Return, Fault, Over, ParamInv
<1>8. CASE SizeDisc \/ TermOutC \/ TermOutW \/ Seconds \/ Datetime \/ MtLoad \/ MtUnload
  BY <1>8 DEF SizeDisc, TermOutC, TermOutW, Seconds, Datetime, MtLoad, MtUnload, Return, Fault, Over
<1> QED
  BY <1>3, <1>4, <1>5, <1>6, <1>7, <1>8 DEF Step

LEMMA StepKeepsParam == ASSUME BlocksInv, ParamInv, Step PROVE ParamInv'
<1>1. CASE io' = NoIo
  BY <1>1, EndKeepsParam
<1>2. CASE GoesOn
  <2>1. io # NoIo /\ More /\ io.op \in Transfers /\ io.done < io.num
    BY <1>2, StepIsUnderWay DEF GoesOn
  <2>2. /\ io'.paramaddr = io.paramaddr /\ io'.num = io.num /\ io'.address = io.address
        /\ DOMAIN io' = DOMAIN io /\ io'.op = io.op /\ io'.done = io.done + 1
    BY <2>1, MoreGoesOn DEF More, ParamInv
  <2> QED
    BY <2>1, <2>2 DEF ParamInv
<1> QED
  BY <1>1, <1>2, StepGoesOn

-----------------------------------------------------------------------------
(* What is in memory and in the files.                                     *)

\* a word has its bytes, a block its words; a tape may end in the middle of one
HasBytes(w) == 1 .. bytes \subseteq DOMAIN w
IsBlock(b) == b = [i \in 1 .. blockWords |-> b[i]] /\ \A i \in 1 .. blockWords : HasBytes(b[i])
IsPiece(b) == Len(b) \in Nat /\ \A i \in 1 .. Len(b) : HasBytes(b[i])
IsTape(t) == /\ Len(t) \in Nat /\ t = [k \in 1 .. Len(t) |-> t[k]]
             /\ \A k \in 1 .. Len(t) : IsPiece(t[k])

MemoryOK == \A x \in Addresses : HasBytes(memory[x])
FilesOK == /\ disc = [k \in 1 .. Len(DiscFile) |-> disc[k]]
           /\ \A k \in 1 .. Len(DiscFile) : IsBlock(disc[k])
           /\ \A l \in DOMAIN tapes : IsTape(tapes[l])
ContentInv == MemoryOK /\ FilesOK

\* a tape that is written is at its end
TapeInv ==
  /\ io.op \in TapeOps => mtfile # NoTape
  /\ mtfile # NoTape => /\ {"label", "writable", "at"} \subseteq DOMAIN mtfile
                        /\ mtfile.label \in DOMAIN tapes /\ mtfile.at \in 0 .. Len(Tape)
                        /\ mtfile.writable => mtfile.at = Len(Tape)

LEMMA WordHasBytes == \A v : HasBytes(Word(v))
BY DEF HasBytes, Word

LEMMA PaddedIsBlock == ASSUME NEW b, IsPiece(b) PROVE IsBlock(Padded(b))
<1>1. \A i \in 1 .. blockWords : HasBytes(Padded(b)[i])
  BY WordHasBytes DEF Padded, IsPiece
<1> QED
  BY <1>1 DEF IsBlock, Padded

LEMMA WordsAreBlock == ASSUME ContentInv, NEW a PROVE IsBlock(Block(a))
<1>1. \A i \in 1 .. blockWords : HasBytes(Block(a)[i])
  BY WordHasBytes DEF Block, Words, Resident, ContentInv, MemoryOK
<1> QED
  BY <1>1 DEF IsBlock, Block, Words

LEMMA BlockIsPiece == ASSUME NEW b, IsBlock(b) PROVE Len(b) = blockWords /\ IsPiece(b)
<1>1. Len(b) = blockWords /\ blockWords \in Nat
  BY FilesAssumption DEF IsBlock
<1> QED
  BY <1>1 DEF IsBlock, IsPiece

\* what Write() leaves at every address
LEMMA WriteIs ==
  ASSUME NEW a, NEW ws, Write(a, ws)
  PROVE  \A x \in Addresses : memory'[x] = IF x \in a .. a + Len(ws) - 1 THEN ws[x - a + 1] ELSE memory[x]
BY DEF Write

LEMMA WriteKeepsBytes ==
  ASSUME NEW a \in Int, NEW ws, IsPiece(ws), Write(a, ws), \A x \in Addresses : HasBytes(memory[x])
  PROVE  \A x \in Addresses : HasBytes(memory'[x])
<1> SUFFICES ASSUME NEW x \in Addresses PROVE HasBytes(memory'[x])
  OBVIOUS
<1>1. CASE x \in a .. a + Len(ws) - 1
  <2>1. x - a + 1 \in 1 .. Len(ws)
    BY <1>1 DEF IsPiece
  <2> QED
    BY <1>1, <2>1, WriteIs DEF IsPiece
<1>2. CASE x \notin a .. a + Len(ws) - 1
  BY <1>2, WriteIs
<1> QED
  BY <1>1, <1>2

\* the first words of a block
LEMMA FirstWords ==
  ASSUME NEW b, IsBlock(b), NEW w \in 0 .. blockWords
  PROVE  /\ Len(SubSeq(b, 1, w)) = w /\ IsPiece(SubSeq(b, 1, w))
         /\ \A i \in 1 .. w : SubSeq(b, 1, w)[i] = b[i]
<1> DEFINE S == {b[i] : i \in 1 .. w}
<1>1. w \in Nat /\ blockWords \in Nat
  BY FilesAssumption
<1>2. /\ Len(SubSeq(b, 1, w)) = IF 1 <= w THEN w - 1 + 1 ELSE 0
      /\ \A i \in 1 .. w - 1 + 1 : SubSeq(b, 1, w)[i] = b[1 + i - 1]
  <2>1. \A i \in 1 .. w : b[i] \in S
    OBVIOUS
  <2> HIDE DEF S
  <2> QED
    BY <1>1, <2>1, SubSeqProperties
<1>3. Len(SubSeq(b, 1, w)) = w /\ \A i \in 1 .. w : SubSeq(b, 1, w)[i] = b[i]
  BY <1>1, <1>2
<1> QED
  BY <1>1, <1>3 DEF IsBlock, IsPiece

LEMMA Appended ==
  ASSUME NEW t, IsTape(t), NEW b, IsPiece(b)
  PROVE  /\ IsTape(Append(t, b)) /\ Len(Append(t, b)) = Len(t) + 1
         /\ \A k \in 1 .. Len(t) : Append(t, b)[k] = t[k]
         /\ Append(t, b)[Len(t) + 1] = b
<1> DEFINE S == {t[k] : k \in 1 .. Len(t)} \cup {b}
           u == Append(t, b)
<1>1. t \in Seq(S) /\ b \in S /\ Len(t) \in Nat
  BY DEF IsTape
<1>2. /\ u \in Seq(S) /\ Len(u) = Len(t) + 1 /\ u[Len(t) + 1] = b
      /\ \A k \in 1 .. Len(t) : u[k] = t[k]
  <2> HIDE DEF S
  <2> QED
    BY <1>1, AppendProperties
<1>3. u = [k \in 1 .. Len(u) |-> u[k]] /\ Len(u) \in Nat
  <2> HIDE DEF S, u
  <2> QED
    BY <1>2, LenProperties
<1>4. \A k \in 1 .. Len(u) : IsPiece(u[k])
  <2> HIDE DEF S, u
  <2> SUFFICES ASSUME NEW k \in 1 .. Len(u) PROVE IsPiece(u[k])
    OBVIOUS
  <2>1. CASE k = Len(t) + 1
    BY <1>2, <2>1
  <2>2. CASE k # Len(t) + 1
    BY <1>1, <1>2, <2>2 DEF IsTape
  <2> QED
    BY <2>1, <2>2
<1> QED
  BY <1>2, <1>3, <1>4 DEF IsTape

\* A block is put where it belongs, up to the first word that faults.
LEMMA ReceiveIs ==
  ASSUME NEW ws, IsBlock(ws), Receive(ws), Here \in Int
  PROVE  LET w == Within(Here, blockWords)
         IN /\ w \in 0 .. blockWords
            /\ \A x \in Addresses : memory'[x] = IF x \in Here .. Here + w - 1 THEN ws[x - Here + 1] ELSE memory[x]
            /\ \/ w < blockWords /\ Fault
               \/ w = blockWords /\ More
<1> DEFINE w == Within(Here, blockWords)
           part == SubSeq(ws, 1, w)
<1>1. w \in 0 .. blockWords /\ blockWords \in Nat
  BY WithinIs, FilesAssumption
<1>2. Len(part) = w /\ \A i \in 1 .. w : part[i] = ws[i]
  BY <1>1, FirstWords
<1>3. Write(Here, part)
  BY DEF Receive
<1>4. ASSUME NEW x \in Addresses, x \in Here .. Here + w - 1
      PROVE  memory'[x] = ws[x - Here + 1]
  <2>1. memory'[x] = part[x - Here + 1]
    BY <1>2, <1>3, <1>4, WriteIs
  <2>2. x - Here + 1 \in 1 .. w
    BY <1>1, <1>4
  <2> QED
    BY <1>2, <2>1, <2>2
<1>5. ASSUME NEW x \in Addresses, x \notin Here .. Here + w - 1
      PROVE  memory'[x] = memory[x]
  <2> HIDE DEF w, part
  <2> QED
    BY <1>2, <1>3, <1>5, WriteIs
<1>6. (w < blockWords /\ Fault) \/ (w = blockWords /\ More)
  BY <1>1 DEF Receive
<1> HIDE DEF w, part
<1> QED
  BY <1>1, <1>4, <1>5, <1>6 DEF w

LEMMA ReceiveKeepsBytes ==
  ASSUME NEW ws, IsBlock(ws), Receive(ws), Here \in Int, \A x \in Addresses : HasBytes(memory[x])
  PROVE  \A x \in Addresses : HasBytes(memory'[x])
<1>1. Within(Here, blockWords) \in 0 .. blockWords
  BY WithinIs, FilesAssumption
<1>2. IsPiece(SubSeq(ws, 1, Within(Here, blockWords)))
  BY <1>1, FirstWords
<1> QED
  BY <1>2, WriteKeepsBytes DEF Receive

LEMMA HereInt == ASSUME ParamInv, io.op \in Transfers PROVE Here \in Int
BY FilesAssumption DEF ParamInv, Here

\* the block of the tape that is read next
LEMMA NextIsBlock ==
  ASSUME ContentInv, TapeInv, MtRead, io.done < io.num, ~mtfile.writable, mtfile.at # Len(Tape)
  PROVE  mtfile.at + 1 \in 1 .. Len(Tape) /\ IsBlock(Padded(Tape[mtfile.at + 1]))
<1>1. mtfile # NoTape
  BY DEF MtRead, Doing, TapeInv, TapeOps
<1>2. IsTape(Tape) /\ mtfile.at \in 0 .. Len(Tape)
  BY <1>1 DEF ContentInv, FilesOK, TapeInv, Tape
<1>3. mtfile.at + 1 \in 1 .. Len(Tape)
  BY <1>2 DEF IsTape
<1> QED
  BY <1>2, <1>3, PaddedIsBlock DEF IsTape

LEMMA StoredKeepsBytes ==
  ASSUME MemoryOK, NEW a \in Int, NEW w, Resident(a) => HasBytes(w), Stored(a, w)
  PROVE  MemoryOK'
<1>1. CASE Resident(a)
  <2>1. Write(a, <<w>>)
    BY <1>1 DEF Stored
  <2>2. IsPiece(<<w>>)
    BY <1>1 DEF IsPiece
  <2> QED
    BY <2>1, <2>2, WriteKeepsBytes DEF MemoryOK
<1>2. CASE ~Resident(a)
  BY <1>2 DEF Stored, MemoryOK
<1> QED
  BY <1>1, <1>2

\* the word that TERMINC stores, and the place where it does
CharPlace == io.address + io.done \div bytes
CharWord == [memory[CharPlace] EXCEPT ![1 + (io.done % bytes)] = Key]

LEMMA TermInKeepsBytes ==
  ASSUME ParamInv, MemoryOK, TermInC \/ TermInW PROVE MemoryOK'
<1>1. io.address \in Int /\ io.done \in Nat /\ bytes \in Nat \ {0}
  BY FilesAssumption DEF ParamInv, Transfers, DiscOps, TermInC, TermInW, Doing
<1>2. CASE UNCHANGED memory
  BY <1>2 DEF MemoryOK
<1>3. CASE TermInC /\ Stored(CharPlace, IF Resident(CharPlace) THEN CharWord ELSE << >>)
  <2>1. CharPlace \in Int
    BY <1>1 DEF CharPlace
  <2>2. Resident(CharPlace) => HasBytes(CharWord)
    BY DEF MemoryOK, Resident, CharWord, HasBytes
  <2> HIDE DEF CharPlace, CharWord
  <2> QED
    BY <1>3, <2>1, <2>2, StoredKeepsBytes
<1>4. CASE Stored(io.address + io.done, Word(Key))
  BY <1>1, <1>4, StoredKeepsBytes, WordHasBytes
<1> QED
  BY <1>2, <1>3, <1>4 DEF TermInC, TermInW, Stop, CharPlace, CharWord

LEMMA StepKeepsBytes == ASSUME BlocksInv, ParamInv, ContentInv, TapeInv, Step PROVE MemoryOK'
<1>0. MemoryOK
  BY DEF ContentInv
<1>1. CASE UNCHANGED memory
  BY <1>0, <1>1 DEF MemoryOK
<1>2. CASE ReadDisc
  <2>1. CASE io.done < io.num
    <3>1. /\ io.op \in DiscOps /\ io.num \in Nat /\ io.block \in Nat /\ io.done \in Nat
          /\ io.block + io.num <= Len(DiscFile) /\ Len(DiscFile) \in Nat
      BY <1>2, FilesAssumption, LenProperties DEF ReadDisc, Doing, BlocksInv, DiscOps
    <3>2. io.block + io.done + 1 \in 1 .. Len(DiscFile)
      BY <2>1, <3>1
    <3>3. IsBlock(disc[io.block + io.done + 1])
      BY <3>2 DEF ContentInv, FilesOK
    <3>4. Here \in Int
      BY <3>1, HereInt DEF Transfers
    <3>5. Receive(disc[io.block + io.done + 1])
      BY <1>2, <2>1 DEF ReadDisc
    <3> QED
      BY <1>0, <3>3, <3>4, <3>5, ReceiveKeepsBytes DEF MemoryOK
  <2>2. CASE ~(io.done < io.num)
    BY <1>1, <1>2, <2>2 DEF ReadDisc
  <2> QED
    BY <2>1, <2>2
<1>3. CASE MtRead
  <2>1. CASE io.done < io.num /\ ~mtfile.writable /\ mtfile.at # Len(Tape)
    <3>1. io.op = "MTREAD" /\ io.done \in Int /\ io.num \in Int
      BY <1>3 DEF MtRead, Doing, ParamInv, Transfers
    <3>2. Receive(Padded(Tape[mtfile.at + 1]))
      <4>1. ~(io.done >= io.num)
        BY <2>1, <3>1
      <4> QED
        BY <1>3, <2>1, <4>1 DEF MtRead
    <3>3. Here \in Int
      BY <3>1, HereInt DEF Transfers
    <3> QED
      BY <1>0, <1>3, <2>1, <3>2, <3>3, NextIsBlock, ReceiveKeepsBytes DEF MemoryOK
  <2>2. CASE ~(io.done < io.num /\ ~mtfile.writable /\ mtfile.at # Len(Tape))
    <3>1. io.done >= io.num \/ io.done < io.num
      BY <1>3 DEF MtRead, Doing, ParamInv, Transfers
    <3> QED
      BY <1>1, <1>3, <2>2, <3>1 DEF MtRead
  <2> QED
    BY <2>1, <2>2
<1>4. CASE TermInC \/ TermInW
  BY <1>0, <1>4, TermInKeepsBytes
<1>5. CASE SizeDisc \/ Datetime
  <2>1. io.paramaddr + 1 \in Int
    BY <1>5, StepIsUnderWay DEF Step, ParamInv
  <2>2. PICK ws : IsPiece(ws) /\ Write(io.paramaddr + 1, ws)
    <3>1. \A v : IsPiece(<<Word(v)>>)
      BY WordHasBytes DEF IsPiece
    <3>2. IsPiece([k \in 1 .. 7 |-> Word(DateOf(memory[io.paramaddr])[k])])
      BY WordHasBytes DEF IsPiece
    <3> QED
      BY <1>5, <3>1, <3>2 DEF SizeDisc, Datetime
  <2> QED
    BY <1>0, <2>1, <2>2, WriteKeepsBytes DEF MemoryOK
<1>6. CASE WriteDisc \/ TermOutC \/ TermOutW \/ Seconds \/ MtLoad \/ MtUnload \/ MtWrite
  BY <1>1, <1>6 DEF WriteDisc, TermOutC, TermOutW, Seconds, MtLoad, MtUnload, MtWrite
<1> QED
  BY <1>2, <1>3, <1>4, <1>5, <1>6 DEF Step

\* one more block, or nothing written
LEMMA MtWriteIs ==
  ASSUME ParamInv, ContentInv, TapeInv, MtWrite
  PROVE  /\ mtfile # NoTape /\ IsTape(Tape) /\ mtfile.label \in DOMAIN tapes
         /\ \/ io' = NoIo /\ UNCHANGED <<tapes, mtfile>>
            \/ /\ GoesOn /\ Gathered /\ mtfile.writable /\ mtfile.at = Len(Tape)
               /\ mtfile' = [mtfile EXCEPT !.at = @ + 1]
               /\ tapes' = [tapes EXCEPT ![mtfile.label] = Append(@, Block(Here))]
<1>1. io.op = "MTWRITE"
  BY DEF MtWrite, Doing
<1>2. mtfile # NoTape /\ mtfile.label \in DOMAIN tapes /\ (mtfile.writable => mtfile.at = Len(Tape))
  BY <1>1 DEF TapeInv, TapeOps
<1>3. IsTape(Tape)
  BY <1>2 DEF ContentInv, FilesOK, Tape
<1>4. io.done < io.num <=> ~(io.done >= io.num)
  BY <1>1 DEF ParamInv, Transfers
<1>5. CASE io.done < io.num /\ Gathered /\ mtfile.writable
  <2>1. /\ More
        /\ mtfile' = [mtfile EXCEPT !.at = @ + 1]
        /\ tapes' = [tapes EXCEPT ![mtfile.label] = Append(@, Block(Here))]
    BY <1>4, <1>5 DEF MtWrite
  <2> QED
    BY <1>1, <1>2, <1>3, <1>5, <2>1 DEF GoesOn, Transfers
<1>6. CASE ~(io.done < io.num /\ Gathered /\ mtfile.writable)
  <2>1. (Return(io.num, FALSE) \/ Fault \/ Return(-5, TRUE)) /\ UNCHANGED <<tapes, mtfile>>
    BY <1>4, <1>6 DEF MtWrite
  <2>2. io' = NoIo
    BY <2>1 DEF Return, Fault, Over
  <2> QED
    BY <1>2, <1>3, <2>1, <2>2
<1> QED
  BY <1>5, <1>6

\* nothing of the tape, or the block that is read next
LEMMA MtReadIs ==
  ASSUME ParamInv, ContentInv, TapeInv, MtRead
  PROVE  \/ io' = NoIo /\ UNCHANGED <<memory, mtfile>>
         \/ /\ io.done < io.num /\ ~mtfile.writable
            /\ mtfile.at + 1 \in 1 .. Len(Tape) /\ IsBlock(Padded(Tape[mtfile.at + 1]))
            /\ Receive(Padded(Tape[mtfile.at + 1]))
            /\ mtfile' = [mtfile EXCEPT !.at = @ + 1]
<1>1. io.done < io.num <=> ~(io.done >= io.num)
  BY DEF MtRead, Doing, ParamInv, Transfers
<1>2. CASE io.done < io.num /\ ~mtfile.writable /\ mtfile.at # Len(Tape)
  <2>1. Receive(Padded(Tape[mtfile.at + 1])) /\ mtfile' = [mtfile EXCEPT !.at = @ + 1]
    BY <1>1, <1>2 DEF MtRead
  <2> QED
    BY <1>2, <2>1, NextIsBlock
<1>3. CASE ~(io.done < io.num /\ ~mtfile.writable /\ mtfile.at # Len(Tape))
  <2>1. /\ Return(io.num, FALSE) \/ Return(-5, TRUE) \/ Return(io.done, TRUE)
        /\ UNCHANGED <<memory, mtfile>>
    BY <1>1, <1>3 DEF MtRead
  <2> QED
    BY <2>1 DEF Return, Over
<1> QED
  BY <1>2, <1>3

LEMMA EmptyTape == IsTape(<< >>) /\ Len(<< >>) = 0
BY DEF IsTape, IsPiece

LEMMA StepKeepsFiles == ASSUME BlocksInv, ParamInv, ContentInv, TapeInv, Step PROVE FilesOK'
<1>0. FilesOK
  BY DEF ContentInv
<1>1. CASE UNCHANGED <<disc, tapes>>
  BY <1>0, <1>1 DEF FilesOK
<1>2. CASE WriteDisc
  <2>1. tapes' = tapes
    BY <1>2 DEF WriteDisc
  <2>2. CASE disc' = disc
    BY <1>1, <2>1, <2>2
  <2>3. CASE disc' # disc
    <3>1. disc' = [disc EXCEPT ![io.block + io.done + 1] = Block(Here)]
      BY <1>2, <2>3 DEF WriteDisc
    <3>2. IsBlock(Block(Here))
      BY WordsAreBlock
    <3>3. \A k \in 1 .. Len(DiscFile) : disc'[k] = disc[k] \/ disc'[k] = Block(Here)
      BY <1>0, <3>1 DEF FilesOK
    <3>4. disc' = [k \in 1 .. Len(DiscFile) |-> disc'[k]]
      BY <1>0, <3>1 DEF FilesOK
    <3> QED
      BY <1>0, <2>1, <3>2, <3>3, <3>4 DEF FilesOK
  <2> QED
    BY <2>2, <2>3
<1>3. CASE MtLoad
  <2>1. disc' = disc
    BY <1>3 DEF MtLoad
  <2>2. CASE tapes' # tapes
    <3>1. PICK label : tapes' = [l \in DOMAIN tapes \cup {label} |-> IF l = label THEN << >> ELSE tapes[l]]
      BY <1>3, <2>2 DEF MtLoad
    <3> QED
      BY <1>0, <2>1, <3>1, EmptyTape DEF FilesOK
  <2> QED
    BY <1>1, <2>1, <2>2
<1>4. CASE MtWrite
  <2>1. disc' = disc
    BY <1>4 DEF MtWrite
  <2>2. CASE tapes' = [tapes EXCEPT ![mtfile.label] = Append(@, Block(Here))]
    <3>1. IsTape(Append(Tape, Block(Here)))
      BY <1>4, MtWriteIs, WordsAreBlock, BlockIsPiece, Appended
    <3>2. tapes' = [tapes EXCEPT ![mtfile.label] = Append(Tape, Block(Here))]
      BY <2>2 DEF Tape
    <3> QED
      BY <1>0, <2>1, <3>1, <3>2 DEF FilesOK
  <2>3. CASE tapes' = tapes
    BY <1>1, <2>1, <2>3
  <2> QED
    BY <1>4, <2>2, <2>3, MtWriteIs
<1>5. CASE \/ ReadDisc \/ SizeDisc \/ TermInC \/ TermInW \/ TermOutC \/ TermOutW
           \/ Seconds \/ Datetime \/ MtUnload \/ MtRead
  BY <1>1, <1>5 DEF ReadDisc, SizeDisc, TermInC, TermInW, TermOutC, TermOutW, Seconds, Datetime,
                    MtUnload, MtRead, files
<1> QED
  BY <1>2, <1>3, <1>4, <1>5 DEF Step

LEMMA StepKeepsTape == ASSUME BlocksInv, ParamInv, ContentInv, TapeInv, Step PROVE TapeInv'
<1>1. io'.op \in TapeOps => io.op \in TapeOps
  <2>1. CASE io' = NoIo
    BY <2>1 DEF NoIo, TapeOps
  <2>2. CASE GoesOn
    BY <2>2, MoreGoesOn, StepIsUnderWay DEF GoesOn
  <2> QED
    BY <2>1, <2>2, StepGoesOn
<1>2. CASE UNCHANGED <<tapes, mtfile>>
  BY <1>1, <1>2 DEF TapeInv, Tape
<1>3. CASE MtLoad \/ MtUnload
  <2>1. io' = NoIo
    BY <1>3 DEF MtLoad, MtUnload, Return, Fault, Over
  <2>2. mtfile' # NoTape =>
          /\ {"label", "writable", "at"} \subseteq DOMAIN mtfile' /\ mtfile'.at = 0
          /\ mtfile'.label \in DOMAIN tapes'
          /\ mtfile'.writable => tapes'[mtfile'.label] = << >>
    <3> DEFINE label == String(io.address, 0)
               blank == [l \in DOMAIN tapes \cup {label} |-> IF l = label THEN << >> ELSE tapes[l]]
    <3>1. \/ mtfile' = NoTape
          \/ mtfile' = Loaded(label, TRUE) /\ tapes' = blank
          \/ mtfile' = Loaded(label, FALSE) /\ label \in DOMAIN tapes /\ tapes' = tapes
      BY <1>3 DEF MtLoad, MtUnload
    <3>2. label \in DOMAIN blank /\ blank[label] = << >>
      OBVIOUS
    <3> HIDE DEF label, blank
    <3> QED
      BY <3>1, <3>2 DEF Loaded
  <2>3. FilesOK'
    BY <1>3, StepKeepsFiles
  <2>4. mtfile' # NoTape => Len(Tape') \in Nat
    BY <2>2, <2>3 DEF FilesOK, IsTape, Tape
  <2> QED
    BY <2>1, <2>2, <2>4, EmptyTape DEF TapeInv, Tape, NoIo, TapeOps
<1>4. CASE MtRead
  <2>1. CASE mtfile' = [mtfile EXCEPT !.at = @ + 1] /\ ~mtfile.writable /\ mtfile.at + 1 \in 1 .. Len(Tape)
    <3>1. tapes' = tapes /\ mtfile # NoTape
      BY <1>4 DEF MtRead, Doing, TapeInv, TapeOps
    <3>2. /\ {"label", "writable", "at"} \subseteq DOMAIN mtfile' /\ mtfile'.at = mtfile.at + 1
          /\ mtfile'.label = mtfile.label /\ mtfile'.writable = mtfile.writable
      BY <2>1, <3>1 DEF TapeInv
    <3>3. mtfile'.at \in 0 .. Len(Tape') /\ Tape' = Tape
      BY <2>1, <3>1, <3>2 DEF Tape
    <3> QED
      BY <2>1, <3>1, <3>2, <3>3 DEF TapeInv, NoTape
  <2>2. CASE UNCHANGED mtfile
    BY <1>2, <1>4, <2>2 DEF MtRead
  <2> QED
    BY <1>4, <2>1, <2>2, MtReadIs
<1>5. CASE MtWrite
  <2>1. CASE UNCHANGED <<tapes, mtfile>>
    BY <1>2, <2>1
  <2>2. CASE /\ mtfile' = [mtfile EXCEPT !.at = @ + 1] /\ mtfile.at = Len(Tape)
             /\ tapes' = [tapes EXCEPT ![mtfile.label] = Append(@, Block(Here))]
    <3>1. mtfile # NoTape /\ IsTape(Tape) /\ mtfile.label \in DOMAIN tapes
      BY <1>5, MtWriteIs
    <3>2. /\ {"label", "writable", "at"} \subseteq DOMAIN mtfile' /\ mtfile'.at = mtfile.at + 1
          /\ mtfile'.label = mtfile.label /\ mtfile'.writable = mtfile.writable
      BY <2>2, <3>1 DEF TapeInv
    <3>3. Tape' = Append(Tape, Block(Here)) /\ mtfile'.label \in DOMAIN tapes'
      BY <2>2, <3>1, <3>2 DEF Tape
    <3>4. Len(Tape') = Len(Tape) + 1 /\ Len(Tape) \in Nat
      BY <3>1, <3>3, WordsAreBlock, BlockIsPiece, Appended DEF IsTape
    <3> QED
      BY <2>2, <3>1, <3>2, <3>3, <3>4 DEF TapeInv, NoTape
  <2> QED
    BY <1>5, <2>1, <2>2, MtWriteIs
<1>6. CASE \/ ReadDisc \/ WriteDisc \/ SizeDisc \/ TermInC \/ TermInW \/ TermOutC \/ TermOutW
           \/ Seconds \/ Datetime
  BY <1>2, <1>6 DEF ReadDisc, WriteDisc, SizeDisc, TermInC, TermInW, TermOutC, TermOutW, Seconds,
                    Datetime, files
<1> QED
  BY <1>3, <1>4, <1>5, <1>6 DEF Step

-----------------------------------------------------------------------------
(* What has been moved.                                                    *)

\* Halfway, what is done so far is moved; a part of it that is in memory is
\* where memory is, so that what comes later does not disturb it; and the
\* characters and the tape blocks that are counted are the operation's own.
MovedInv ==
  /\ io # NoIo => Moved(io.done, memory, disc, tapes, mtfile, got)
  /\ io.op \in {"READDISC", "MTREAD"} =>
       \A k \in 1 .. io.done : \A i \in 1 .. blockWords :
         io.address + (k - 1) * blockWords + i - 1 \in Addresses
  /\ io.op = "MTWRITE" => io.done <= mtfile.at
  /\ io.op \in {"TERMINC", "TERMINW"} => io.done <= Len(got)
  /\ io.op = "TERMINW" => \A k \in 1 .. io.done : io.address + k - 1 \in Addresses
  /\ io.op = "TERMINC" => \A k \in 1 .. io.done : io.address + (k - 1) \div bytes \in Addresses

LEMMA BlockAtIs ==
  \A m, k : BlockAt(m, k) = [i \in 1 .. blockWords |-> m[io.address + (k - 1) * blockWords + i - 1]]
BY DEF BlockAt, At

LEMMA ByteAtIs ==
  \A m, k : ByteAt(m, k) = m[io.address + (k - 1) \div bytes][1 + ((k - 1) % bytes)]
BY DEF ByteAt

LEMMA MovedIs ==
  \A n, m, d, t, at, chars :
    /\ io.op \in DiscOps => (Moved(n, m, d, t, at, chars) <=> \A k \in 1 .. n : BlockAt(m, k) = d[io.block + k])
    /\ io.op \in {"MTREAD", "MTWRITE"} =>
         (Moved(n, m, d, t, at, chars) <=>
            \A k \in 1 .. n : BlockAt(m, k) = Padded(t[at.label][at.at - n + k]))
    /\ io.op = "TERMINW" =>
         (Moved(n, m, d, t, at, chars) <=>
            \A k \in 1 .. n : m[io.address + k - 1] = Word(chars[Len(chars) - n + k]))
    /\ io.op = "TERMINC" =>
         (Moved(n, m, d, t, at, chars) <=>
            \A k \in 1 .. n : ByteAt(m, k) = chars[Len(chars) - n + k])
    /\ io.op \notin Transfers => Moved(n, m, d, t, at, chars)
BY DEF Moved, DiscOps, Transfers

\* Blocks lie behind one another.
LEMMA Behind ==
  ASSUME NEW n \in Nat, NEW k \in 1 .. n, NEW b \in Nat
  PROVE  (k - 1) * b + b <= n * b /\ (k - 1) * b \in Nat /\ n * b \in Nat
<1>1. n - k \in Nat /\ k - 1 \in Nat
  OBVIOUS
<1>2. n * b = (k - 1) * b + b + (n - k) * b
  BY <1>1
<1>3. (n - k) * b \in Nat /\ (k - 1) * b \in Nat
  BY <1>1
<1> QED
  BY <1>2, <1>3

\* A block that is received is in its place, and the others stay in theirs.
LEMMA Received ==
  ASSUME BlocksInv, ParamInv, MovedInv, io.op \in {"READDISC", "MTREAD"},
         NEW ws, IsBlock(ws), Receive(ws), io' # NoIo
  PROVE  /\ More
         /\ \A k \in 1 .. io.done : BlockAt(memory', k) = BlockAt(memory, k)
         /\ BlockAt(memory', io.done + 1) = ws
         /\ \A k \in 1 .. io.done + 1 : \A i \in 1 .. blockWords :
              io.address + (k - 1) * blockWords + i - 1 \in Addresses
<1>1. /\ io.address \in Int /\ io.done \in Nat /\ blockWords \in Nat /\ Here \in Int
      /\ Here = io.address + io.done * blockWords
  BY FilesAssumption DEF ParamInv, Transfers, DiscOps, Here
<1>2. /\ More /\ Within(Here, blockWords) = blockWords
      /\ \A x \in Addresses : memory'[x] = IF x \in Here .. Here + blockWords - 1 THEN ws[x - Here + 1] ELSE memory[x]
  <2>1. ~Fault
    BY DEF Fault, Over
  <2> QED
    BY <1>1, <2>1, ReceiveIs
<1>3. ASSUME NEW i \in 1 .. blockWords
      PROVE  Here + i - 1 \in Addresses /\ memory'[Here + i - 1] = ws[i]
  <2>1. i - 1 \in 0 .. blockWords - 1 /\ Here + (i - 1) = Here + i - 1
    BY <1>1
  <2>2. Resident(Here + (i - 1))
    BY <1>1, <1>2, <2>1, WithinIs
  <2>3. Here + i - 1 \in Addresses
    BY <2>1, <2>2 DEF Resident
  <2>4. Here + i - 1 \in Here .. Here + blockWords - 1 /\ (Here + i - 1) - Here + 1 = i
    BY <1>1
  <2>5. memory'[Here + i - 1] = ws[(Here + i - 1) - Here + 1]
    BY <1>2, <2>3, <2>4
  <2> QED
    BY <2>3, <2>4, <2>5
<1>4. BlockAt(memory', io.done + 1) = ws
  <2> DEFINE n == io.done + 1
             a == io.address + (n - 1) * blockWords
  <2>1. a = Here
    BY <1>1
  <2>2. BlockAt(memory', n) = [i \in 1 .. blockWords |-> memory'[a + i - 1]]
    <3> HIDE DEF n
    <3> QED
      BY BlockAtIs
  <2>3. BlockAt(memory', n) = ws
    <3> HIDE DEF a, n
    <3> QED
      BY <1>3, <2>1, <2>2 DEF IsBlock
  <2> QED
    BY <2>3
<1>5. ASSUME NEW k \in 1 .. io.done PROVE BlockAt(memory', k) = BlockAt(memory, k)
  <2> DEFINE a == io.address + (k - 1) * blockWords
  <2>1. a \in Int /\ a + blockWords <= Here
    BY <1>1, Behind
  <2>2. ASSUME NEW i \in 1 .. blockWords PROVE memory'[a + i - 1] = memory[a + i - 1]
    <3>1. a + i - 1 \in Addresses
      BY DEF MovedInv
    <3>2. a + i - 1 \notin Here .. Here + blockWords - 1
      <4> HIDE DEF a
      <4> QED
        BY <1>1, <2>1
    <3> QED
      BY <1>2, <3>1, <3>2
  <2>3. BlockAt(memory', k) = [i \in 1 .. blockWords |-> memory'[a + i - 1]]
    BY BlockAtIs
  <2>4. BlockAt(memory, k) = [i \in 1 .. blockWords |-> memory[a + i - 1]]
    BY BlockAtIs
  <2> QED
    BY <2>2, <2>3, <2>4
<1>6. ASSUME NEW k \in 1 .. io.done + 1, NEW i \in 1 .. blockWords
      PROVE  io.address + (k - 1) * blockWords + i - 1 \in Addresses
  <2>1. CASE k \in 1 .. io.done
    BY <2>1 DEF MovedInv
  <2>2. CASE k = io.done + 1
    <3>1. k - 1 = io.done
      BY <1>1, <2>2
    <3> QED
      BY <1>1, <1>3, <3>1
  <2>3. k \in 1 .. io.done \/ k = io.done + 1
    BY <1>1
  <2> QED
    BY <2>1, <2>2, <2>3
<1> QED
  BY <1>2, <1>4, <1>5, <1>6

\* what stays of an operation that goes on, and the last step of its count
LEMMA GoingOn ==
  ASSUME BlocksInv, ParamInv, Step, io' # NoIo
  PROVE  /\ io # NoIo /\ More /\ io.op \in Transfers /\ io.done < io.num
         /\ io.done \in Nat /\ io.num \in Int /\ io.address \in Int
         /\ io'.op = io.op /\ io'.done = io.done + 1 /\ io'.address = io.address
         /\ io.op \in DiscOps => io'.block = io.block
<1>1. io # NoIo /\ More /\ io.op \in Transfers /\ io.done < io.num
  BY StepIsUnderWay, StepGoesOn DEF GoesOn
<1>2. io'.address = io.address
  BY <1>1 DEF More, ParamInv
<1> QED
  BY <1>1, <1>2, MoreGoesOn DEF ParamInv

LEMMA EndKeepsMoved == ASSUME io' = NoIo PROVE MovedInv'
BY DEF MovedInv, NoIo

LEMMA SameBlocks ==
  ASSUME io'.address = io.address PROVE \A k : BlockAt(memory, k)' = BlockAt(memory', k)
<1> SUFFICES ASSUME NEW k PROVE BlockAt(memory, k)' = BlockAt(memory', k)
  OBVIOUS
<1>1. BlockAt(memory, k)' = [i \in 1 .. blockWords |-> memory'[io.address + (k - 1) * blockWords + i - 1]]
  BY DEF BlockAt, At
<1> QED
  BY <1>1, BlockAtIs

LEMMA ReadDiscMoves ==
  ASSUME BlocksInv, ParamInv, ContentInv, MovedInv, ReadDisc, io' # NoIo PROVE MovedInv'
<1> DEFINE b == io.block + io.done + 1
<1>0. io.op = "READDISC"
  BY DEF ReadDisc, Doing
<1>1. /\ io # NoIo /\ io.done < io.num /\ io.done \in Nat
      /\ io'.op = io.op /\ io'.done = io.done + 1 /\ io'.address = io.address /\ io'.block = io.block
  BY <1>0, GoingOn DEF Step, DiscOps
<1>2. disc' = disc /\ Receive(disc[b])
  BY <1>1 DEF ReadDisc, files
<1>3. IsBlock(disc[b]) /\ io.block \in Nat
  <2>1. io.num \in Nat /\ io.block \in Nat /\ io.block + io.num <= Len(DiscFile) /\ Len(DiscFile) \in Nat
    BY <1>0, FilesAssumption, LenProperties DEF BlocksInv, DiscOps
  <2>2. b \in 1 .. Len(DiscFile)
    BY <1>1, <2>1
  <2> QED
    BY <2>1, <2>2 DEF ContentInv, FilesOK
<1>4. /\ \A k \in 1 .. io.done : BlockAt(memory', k) = BlockAt(memory, k)
      /\ BlockAt(memory', io.done + 1) = disc[b]
      /\ \A k \in 1 .. io.done + 1 : \A i \in 1 .. blockWords :
           io.address + (k - 1) * blockWords + i - 1 \in Addresses
  BY <1>0, <1>2, <1>3, Received
<1>5. \A k \in 1 .. io.done : BlockAt(memory, k) = disc[io.block + k]
  BY <1>0, <1>1, MovedIs DEF MovedInv, DiscOps
<1>6. ASSUME NEW k \in 1 .. io.done + 1
      PROVE  BlockAt(memory, k)' = disc[io.block + k]
  <2>1. k \in 1 .. io.done \/ k = io.done + 1
    BY <1>1
  <2>2. io.block + (io.done + 1) = b
    BY <1>1, <1>3
  <2>3. BlockAt(memory, k)' = BlockAt(memory', k)
    BY <1>1, SameBlocks
  <2> HIDE DEF b
  <2> QED
    BY <1>4, <1>5, <2>1, <2>2, <2>3
<1>7. Moved(io.done, memory, disc, tapes, mtfile, got)'
  BY <1>0, <1>1, <1>2, <1>6 DEF Moved, DiscOps
<1> QED
  BY <1>0, <1>1, <1>4, <1>7 DEF MovedInv

LEMMA MtReadMoves ==
  ASSUME BlocksInv, ParamInv, ContentInv, TapeInv, MovedInv, MtRead, io' # NoIo PROVE MovedInv'
<1> DEFINE b == Padded(Tape[mtfile.at + 1])
<1>0. io.op = "MTREAD"
  BY DEF MtRead, Doing
<1>1. /\ io # NoIo /\ io.done < io.num /\ io.done \in Nat
      /\ io'.op = io.op /\ io'.done = io.done + 1 /\ io'.address = io.address
  BY <1>0, GoingOn DEF Step
<1>2. tapes' = tapes /\ Receive(b) /\ IsBlock(b) /\ mtfile' = [mtfile EXCEPT !.at = @ + 1]
  BY MtReadIs DEF MtRead
<1>3. mtfile'.at = mtfile.at + 1 /\ mtfile'.label = mtfile.label /\ mtfile.at \in Nat
  <2>1. mtfile # NoTape
    BY <1>0 DEF TapeInv, TapeOps
  <2> QED
    BY <1>2, <2>1 DEF TapeInv
<1>4. /\ \A k \in 1 .. io.done : BlockAt(memory', k) = BlockAt(memory, k)
      /\ BlockAt(memory', io.done + 1) = b
      /\ \A k \in 1 .. io.done + 1 : \A i \in 1 .. blockWords :
           io.address + (k - 1) * blockWords + i - 1 \in Addresses
  BY <1>0, <1>2, Received
<1>5. \A k \in 1 .. io.done : BlockAt(memory, k) = Padded(Tape[mtfile.at - io.done + k])
  BY <1>0, <1>1, MovedIs DEF MovedInv, Tape
<1>6. ASSUME NEW k \in 1 .. io.done + 1
      PROVE  BlockAt(memory, k)' = Padded(Tape[mtfile.at - io.done + k])
  <2>1. k \in 1 .. io.done \/ k = io.done + 1
    BY <1>1
  <2>2. k = io.done + 1 => mtfile.at - io.done + k = mtfile.at + 1
    BY <1>1, <1>3
  <2>3. BlockAt(memory, k)' = BlockAt(memory', k)
    BY <1>1, SameBlocks
  <2> QED
    BY <1>4, <1>5, <2>1, <2>2, <2>3
<1>7. Moved(io.done, memory, disc, tapes, mtfile, got)'
  <2>1. \A k \in 1 .. io.done + 1 : mtfile'.at - io'.done + k = mtfile.at - io.done + k
    BY <1>1, <1>3
  <2> QED
    BY <1>0, <1>1, <1>2, <1>3, <1>6, <2>1 DEF Moved, DiscOps, Tape
<1> QED
  BY <1>0, <1>1, <1>4, <1>7 DEF MovedInv

\* The blocks that were written are what memory holds, by BlocksInv.
LEMMA WriteDiscMoves ==
  ASSUME BlocksInv, BlocksInv', ParamInv, WriteDisc, io' # NoIo PROVE MovedInv'
<1>0. io.op = "WRITEDISC"
  BY DEF WriteDisc, Doing
<1>1. io'.op = io.op /\ io'.done = io.done + 1 /\ io.done \in Nat
  BY <1>0, GoingOn DEF Step, DiscOps
<1>2. io'.block \in Nat /\ io'.num \in Nat /\ io'.block + io'.num <= Len(DiscFile) /\ io'.done \in 0 .. io'.num
  BY <1>0, <1>1 DEF BlocksInv, DiscOps
<1>3. ASSUME NEW k \in 1 .. io'.done
      PROVE  BlockAt(memory, k)' = disc'[io'.block + k]
  <2>1. PICK b : b = io'.block + k
    OBVIOUS
  <2>2. b \in io'.block + 1 .. io'.block + io'.done /\ b \in 1 .. Len(DiscFile) /\ b - io'.block = k
    <3>1. Len(DiscFile) \in Nat
      BY FilesAssumption, LenProperties
    <3> QED
      BY <1>1, <1>2, <2>1, <3>1
  <2>3. Done(b)'
    BY <1>0, <1>1, <2>2 DEF Done
  <2>4. disc'[b] = Image(b)'
    BY <2>2, <2>3 DEF BlocksInv
  <2>5. Image(b)' = BlockAt(memory, k)'
    BY <2>2 DEF Image, BlockAt, At
  <2> QED
    BY <2>1, <2>4, <2>5
<1>4. Moved(io.done, memory, disc, tapes, mtfile, got)'
  BY <1>0, <1>1, <1>3 DEF Moved, DiscOps
<1> QED
  BY <1>0, <1>1, <1>4 DEF MovedInv

LEMMA MtWriteMoves ==
  ASSUME BlocksInv, ParamInv, ContentInv, TapeInv, MovedInv, MtWrite, io' # NoIo PROVE MovedInv'
<1>0. io.op = "MTWRITE"
  BY DEF MtWrite, Doing
<1>1. /\ io # NoIo /\ io.done < io.num /\ io.done \in Nat
      /\ io'.op = io.op /\ io'.done = io.done + 1 /\ io'.address = io.address
  BY <1>0, GoingOn DEF Step
<1>2. /\ Gathered /\ mtfile.at = Len(Tape) /\ mtfile' = [mtfile EXCEPT !.at = @ + 1]
      /\ tapes' = [tapes EXCEPT ![mtfile.label] = Append(@, Block(Here))]
      /\ mtfile # NoTape /\ IsTape(Tape) /\ mtfile.label \in DOMAIN tapes /\ memory' = memory
  BY MtWriteIs DEF MtWrite
<1>3. /\ mtfile'.at = mtfile.at + 1 /\ mtfile'.label = mtfile.label
      /\ mtfile.at \in Nat /\ io.done <= mtfile.at
  BY <1>0, <1>2 DEF TapeInv, MovedInv
<1>4. /\ tapes'[mtfile'.label] = Append(Tape, Block(Here))
      /\ \A j \in 1 .. mtfile.at : Append(Tape, Block(Here))[j] = Tape[j]
      /\ Append(Tape, Block(Here))[mtfile.at + 1] = Block(Here)
  <2>1. IsPiece(Block(Here))
    BY WordsAreBlock, BlockIsPiece
  <2> QED
    BY <1>2, <1>3, <2>1, Appended DEF Tape
<1>5. Padded(Block(Here)) = Block(Here) /\ BlockAt(memory, io.done + 1) = Block(Here)
  <2>1. Here \in Int /\ io.address \in Int /\ blockWords \in Nat
    BY <1>0, HereInt, FilesAssumption DEF ParamInv, Transfers
  <2>2. Block(Here) = [k \in 1 .. blockWords |-> memory[Here + k - 1]]
    BY <1>2, <2>1, GatheredIs
  <2> DEFINE n == io.done + 1
             a == io.address + (n - 1) * blockWords
  <2>3. a = Here
    BY <1>1, <2>1 DEF Here
  <2>4. BlockAt(memory, n) = [i \in 1 .. blockWords |-> memory[a + i - 1]]
    <3> HIDE DEF n
    <3> QED
      BY BlockAtIs
  <2>5. BlockAt(memory, n) = Block(Here)
    <3> HIDE DEF a, n
    <3> QED
      BY <2>2, <2>3, <2>4
  <2>6. IsBlock(Block(Here)) /\ Len(Block(Here)) = blockWords
    BY WordsAreBlock, BlockIsPiece
  <2>7. Padded(Block(Here)) = Block(Here)
    BY <2>1, <2>6 DEF Padded, IsBlock
  <2> QED
    BY <2>5, <2>7
<1>6. \A k \in 1 .. io.done : BlockAt(memory, k) = Padded(Tape[mtfile.at - io.done + k])
  BY <1>0, <1>1, MovedIs DEF MovedInv, Tape
<1>7. ASSUME NEW k \in 1 .. io.done + 1
      PROVE  BlockAt(memory, k)' = Padded(tapes'[mtfile'.label][mtfile.at - io.done + k])
  <2>1. BlockAt(memory, k)' = BlockAt(memory, k)
    BY <1>1, <1>2 DEF BlockAt, At
  <2>2. CASE k = io.done + 1
    <3>1. mtfile.at - io.done + k = mtfile.at + 1
      BY <1>1, <1>3, <2>2
    <3> QED
      BY <1>4, <1>5, <2>1, <2>2, <3>1
  <2>3. CASE k # io.done + 1
    <3>1. k \in 1 .. io.done /\ mtfile.at - io.done + k \in 1 .. mtfile.at
      BY <1>1, <1>3, <2>3
    <3> QED
      BY <1>4, <1>6, <2>1, <3>1
  <2> QED
    BY <2>2, <2>3
<1>8. Moved(io.done, memory, disc, tapes, mtfile, got)'
  <2>1. \A k \in 1 .. io.done + 1 : mtfile'.at - io'.done + k = mtfile.at - io.done + k
    BY <1>1, <1>3
  <2> QED
    BY <1>0, <1>1, <1>7, <2>1 DEF Moved, DiscOps
<1> QED
  BY <1>0, <1>1, <1>3, <1>8 DEF MovedInv

\* the character that goes on was taken from the ring and comes last
LEMMA StoredIs ==
  ASSUME OrderInv, NEW a, NEW w, Stored(a, w), io' # NoIo
  PROVE  /\ Resident(a) /\ Write(a, <<w>>) /\ got' = Append(got, Key)
         /\ Len(got) \in Nat /\ Len(got') = Len(got) + 1
         /\ \A j \in 1 .. Len(got) : got'[j] = got[j]
         /\ got'[Len(got) + 1] = Key
<1>1. /\ Resident(a) /\ Write(a, <<w>>) /\ Key # 0 /\ got' = Append(got, Key)
  BY DEF Stored, Fault, Return, Over
<1>2. Key \in Character
  <2>1. keyboard # << >>
    BY <1>1 DEF Key
  <2> QED
    BY <2>1, HeadTailProperties DEF Key, OrderInv
<1> QED
  BY <1>1, <1>2, AppendProperties, LenProperties DEF OrderInv

LEMMA OneWord ==
  ASSUME NEW a \in Int, NEW w, Write(a, <<w>>)
  PROVE  \A x \in Addresses : memory'[x] = IF x = a THEN w ELSE memory[x]
<1>1. Len(<<w>>) = 1 /\ <<w>>[1] = w /\ a + 1 - 1 = a /\ a - a + 1 = 1
  OBVIOUS
<1>2. \A x : x \in a .. a + Len(<<w>>) - 1 <=> x = a
  BY <1>1
<1> QED
  BY <1>1, <1>2, WriteIs

LEMMA TermInWMoves ==
  ASSUME BlocksInv, ParamInv, OrderInv, MovedInv, TermInW, io' # NoIo PROVE MovedInv'
<1> DEFINE a == io.address + io.done
<1>0. io.op = "TERMINW"
  BY DEF TermInW, Doing
<1>1. /\ io # NoIo /\ io.done < io.num /\ io.done \in Nat /\ io.address \in Int
      /\ io'.op = io.op /\ io'.done = io.done + 1 /\ io'.address = io.address
  BY <1>0, GoingOn DEF Step
<1>2. Stored(a, Word(Key))
  BY <1>1 DEF TermInW, Stop, Return, Over
<1>3. /\ Resident(a) /\ Write(a, <<Word(Key)>>)
      /\ Len(got) \in Nat /\ Len(got') = Len(got) + 1
      /\ \A j \in 1 .. Len(got) : got'[j] = got[j]
      /\ got'[Len(got) + 1] = Key
  BY <1>2, StoredIs
<1>4. \A x \in Addresses : memory'[x] = IF x = a THEN Word(Key) ELSE memory[x]
  BY <1>1, <1>3, OneWord
<1>5. /\ io.done <= Len(got) /\ \A k \in 1 .. io.done : io.address + k - 1 \in Addresses
      /\ \A k \in 1 .. io.done : memory[io.address + k - 1] = Word(got[Len(got) - io.done + k])
  BY <1>0, <1>1, MovedIs DEF MovedInv
<1>6. ASSUME NEW k \in 1 .. io.done + 1
      PROVE  /\ io.address + k - 1 \in Addresses
             /\ memory'[io.address + k - 1] = Word(got'[Len(got) - io.done + k])
  <2>1. CASE k = io.done + 1
    <3>1. io.address + k - 1 = a /\ Len(got) - io.done + k = Len(got) + 1
      BY <1>1, <1>3, <2>1
    <3>2. a \in Addresses
      BY <1>3 DEF Resident
    <3> HIDE DEF a
    <3> QED
      BY <1>3, <1>4, <3>1, <3>2
  <2>2. CASE k # io.done + 1
    <3>1. /\ k \in 1 .. io.done /\ io.address + k - 1 # a
          /\ Len(got) - io.done + k \in 1 .. Len(got)
      BY <1>1, <1>3, <1>5, <2>2
    <3> HIDE DEF a
    <3> QED
      BY <1>3, <1>4, <1>5, <3>1
  <2> QED
    BY <2>1, <2>2
<1>7. Moved(io.done, memory, disc, tapes, mtfile, got)'
  <2>1. \A k \in 1 .. io.done + 1 : Len(got') - io'.done + k = Len(got) - io.done + k
    <3>1. /\ Len(got') = Len(got) + 1 /\ io'.done = io.done + 1
          /\ Len(got) \in Nat /\ io.done \in Nat
      BY <1>1, <1>3
    <3> QED
      BY <3>1
  <2> QED
    BY <1>0, <1>1, <1>6, <2>1 DEF Moved, DiscOps
<1>8. io'.done <= Len(got')
  BY <1>1, <1>3, <1>5
<1> QED
  BY <1>0, <1>1, <1>6, <1>7, <1>8 DEF MovedInv

\* Two bytes with the same word and the same place in it are one.
LEMMA BytePlace ==
  ASSUME NEW b \in Int, b > 0, NEW x \in Int, NEW y \in Int, x \div b = y \div b, x % b = y % b
  PROVE  x = y
OBVIOUS

\* Storing a character leaves those before it alone.
LEMMA CharStored ==
  ASSUME ParamInv, MemoryOK, MovedInv, io.op = "TERMINC",
         Resident(CharPlace), Write(CharPlace, <<CharWord>>)
  PROVE  /\ \A k \in 1 .. io.done : ByteAt(memory', k) = ByteAt(memory, k)
         /\ ByteAt(memory', io.done + 1) = Key
<1>1. /\ io.address \in Int /\ io.done \in Nat /\ bytes \in Int /\ bytes > 0
      /\ CharPlace \in Int /\ 1 + (io.done % bytes) \in 1 .. bytes
  BY FilesAssumption DEF ParamInv, Transfers, CharPlace
<1>2. CharPlace \in Addresses /\ 1 .. bytes \subseteq DOMAIN memory[CharPlace]
  BY DEF Resident, MemoryOK, HasBytes
<1>3. \A x \in Addresses : memory'[x] = IF x = CharPlace THEN CharWord ELSE memory[x]
  BY <1>1, OneWord
<1>4. ASSUME NEW k \in 1 .. io.done PROVE ByteAt(memory', k) = ByteAt(memory, k)
  <2> DEFINE x == io.address + (k - 1) \div bytes
             j == 1 + ((k - 1) % bytes)
  <2>1. x \in Addresses
    BY DEF MovedInv
  <2>2. k - 1 \in Int /\ k - 1 # io.done /\ (k - 1) \div bytes \in Int /\ io.done \div bytes \in Int
        /\ j \in 1 .. bytes
    BY <1>1
  <2>3. CASE x = CharPlace
    <3>1. (k - 1) \div bytes = io.done \div bytes
      BY <1>1, <2>2, <2>3 DEF CharPlace
    <3>2. j # 1 + (io.done % bytes)
      BY <1>1, <2>2, <3>1, BytePlace
    <3>3. CharWord[j] = memory[CharPlace][j]
      <4> HIDE DEF j
      <4> QED
        BY <1>2, <2>2, <3>2 DEF CharWord
    <3>4. memory'[x][j] = memory[x][j]
      <4> HIDE DEF x, j
      <4> QED
        BY <1>2, <1>3, <2>3, <3>3
    <3> QED
      BY <3>4, ByteAtIs
  <2>4. CASE x # CharPlace
    <3>1. memory'[x] = memory[x]
      <4> HIDE DEF x
      <4> QED
        BY <1>3, <2>1, <2>4
    <3> QED
      BY <3>1, ByteAtIs
  <2> QED
    BY <2>3, <2>4
<1>5. ByteAt(memory', io.done + 1) = Key
  <2>1. CharWord[1 + (io.done % bytes)] = Key
    BY <1>1, <1>2 DEF CharWord
  <2>2. PICK k : k = io.done + 1
    OBVIOUS
  <2>3. k - 1 = io.done
    BY <1>1, <2>2
  <2>4. ByteAt(memory', k) = memory'[CharPlace][1 + (io.done % bytes)]
    BY <2>3, ByteAtIs DEF CharPlace
  <2> QED
    BY <1>2, <1>3, <2>1, <2>2, <2>4
<1> QED
  BY <1>4, <1>5

LEMMA TermInCMoves ==
  ASSUME BlocksInv, ParamInv, MemoryOK, OrderInv, MovedInv, TermInC, io' # NoIo PROVE MovedInv'
<1>0. io.op = "TERMINC"
  BY DEF TermInC, Doing
<1>1. /\ io # NoIo /\ io.done < io.num /\ io.done \in Nat /\ io.address \in Int
      /\ io'.op = io.op /\ io'.done = io.done + 1 /\ io'.address = io.address
  BY <1>0, GoingOn DEF Step
<1>2. PICK w : Stored(CharPlace, w) /\ (Resident(CharPlace) => w = CharWord)
  BY <1>1 DEF TermInC, Stop, Return, Over, CharPlace, CharWord
<1>3. /\ Resident(CharPlace) /\ Write(CharPlace, <<CharWord>>)
      /\ Len(got) \in Nat /\ Len(got') = Len(got) + 1
      /\ \A j \in 1 .. Len(got) : got'[j] = got[j]
      /\ got'[Len(got) + 1] = Key
  BY <1>2, StoredIs
<1>4. /\ \A k \in 1 .. io.done : ByteAt(memory', k) = ByteAt(memory, k)
      /\ ByteAt(memory', io.done + 1) = Key
  BY <1>0, <1>3, CharStored
<1>5. /\ io.done <= Len(got)
      /\ \A k \in 1 .. io.done : io.address + (k - 1) \div bytes \in Addresses
      /\ \A k \in 1 .. io.done : ByteAt(memory, k) = got[Len(got) - io.done + k]
  BY <1>0, <1>1, MovedIs DEF MovedInv
<1>6. ASSUME NEW k \in 1 .. io.done + 1
      PROVE  /\ io.address + (k - 1) \div bytes \in Addresses
             /\ ByteAt(memory, k)' = got'[Len(got) - io.done + k]
  <2>1. ByteAt(memory, k)' = ByteAt(memory', k)
    BY <1>1, ByteAtIs DEF ByteAt
  <2>2. CASE k = io.done + 1
    <3>1. k - 1 = io.done /\ Len(got) - io.done + k = Len(got) + 1
      BY <1>1, <1>3, <2>2
    <3>2. CharPlace \in Addresses
      BY <1>3 DEF Resident
    <3> QED
      BY <1>3, <1>4, <2>1, <2>2, <3>1, <3>2 DEF CharPlace
  <2>3. CASE k # io.done + 1
    <3>1. k \in 1 .. io.done /\ Len(got) - io.done + k \in 1 .. Len(got)
      BY <1>1, <1>3, <1>5, <2>3
    <3> QED
      BY <1>3, <1>4, <1>5, <2>1, <3>1
  <2> QED
    BY <2>2, <2>3
<1>7. Moved(io.done, memory, disc, tapes, mtfile, got)'
  <2>1. \A k \in 1 .. io.done + 1 : Len(got') - io'.done + k = Len(got) - io.done + k
    BY <1>1, <1>3
  <2> QED
    BY <1>0, <1>1, <1>6, <2>1 DEF Moved, DiscOps
<1>8. io'.done <= Len(got')
  BY <1>1, <1>3, <1>5
<1> QED
  BY <1>0, <1>1, <1>6, <1>7, <1>8 DEF MovedInv

\* The files and the memory that the program starts with.
LEMMA FilesAreOK ==
  /\ \A x \in Addresses : HasBytes(Boot[x])
  /\ DiscFile = [k \in 1 .. Len(DiscFile) |-> DiscFile[k]]
  /\ \A k \in 1 .. Len(DiscFile) : IsBlock(DiscFile[k])
  /\ \A l \in DOMAIN TapeFiles : IsTape(TapeFiles[l])
<1>1. \A w \in MemoryWord : HasBytes(w)
  BY DEF MemoryWord, HasBytes
<1>2. ASSUME NEW l \in DOMAIN TapeFiles PROVE IsTape(TapeFiles[l])
  <2> DEFINE t == TapeFiles[l]
  <2>1. t \in Seq(Seq(MemoryWord))
    BY FilesAssumption
  <2> HIDE DEF t
  <2>2. Len(t) \in Nat /\ t = [k \in 1 .. Len(t) |-> t[k]] /\ \A k \in 1 .. Len(t) : t[k] \in Seq(MemoryWord)
    BY <2>1, LenProperties
  <2>3. ASSUME NEW k \in 1 .. Len(t) PROVE IsPiece(t[k])
    <3>1. t[k] \in Seq(MemoryWord)
      BY <2>2
    <3>2. Len(t[k]) \in Nat /\ \A i \in 1 .. Len(t[k]) : t[k][i] \in MemoryWord
      BY <3>1, LenProperties
    <3> QED
      BY <1>1, <3>2 DEF IsPiece
  <2>4. IsTape(t)
    BY <2>2, <2>3 DEF IsTape
  <2> QED
    BY <2>4 DEF t
<1>3. ASSUME NEW k \in 1 .. Len(DiscFile) PROVE IsBlock(DiscFile[k])
  <2>1. DiscFile[k] \in [1 .. blockWords -> MemoryWord]
    BY FilesAssumption
  <2> QED
    BY <1>1, <2>1 DEF IsBlock
<1>4. DiscFile = [k \in 1 .. Len(DiscFile) |-> DiscFile[k]]
  BY FilesAssumption, LenProperties
<1>5. \A x \in Addresses : HasBytes(Boot[x])
  BY <1>1, FilesAssumption
<1> QED
  BY <1>2, <1>3, <1>4, <1>5

\* A tape operation that is over has done what was asked for, or there was
\* nothing to do.
LEMMA AtEnd ==
  ASSUME ParamInv, io.op \in {"MTREAD", "MTWRITE"}, io.done >= io.num, R0' = io.num,
         UNCHANGED <<memory, files, got>>, Moved(io.done, memory, disc, tapes, mtfile, got)
  PROVE  Moved(R0', memory', disc', tapes', mtfile', got')
<1>1. io.num \in Int /\ io.done \in Nat /\ (io.done <= io.num \/ io.done = 0)
  BY DEF ParamInv, Transfers
<1>2. CASE io.done = io.num
  BY <1>2 DEF files
<1>3. CASE io.done # io.num
  <2>1. ~(\E k : k \in 1 .. io.num)
    BY <1>1, <1>3
  <2> QED
    BY <2>1, MovedIs
<1> QED
  BY <1>2, <1>3

LEMMA StepKeepsMoved ==
  ASSUME BlocksInv, BlocksInv', OrderInv, ParamInv, ContentInv, TapeInv, MovedInv, Step
  PROVE  MovedInv'
<1>1. CASE io' = NoIo
  BY <1>1, EndKeepsMoved
<1>2. CASE io' # NoIo
  <2>1. io.op \in Transfers
    BY <1>2, GoingOn
  <2>2. ReadDisc \/ WriteDisc \/ MtRead \/ MtWrite \/ TermInC \/ TermInW
    BY <2>1 DEF Step, Transfers, DiscOps, Doing, SizeDisc, TermOutC, TermOutW, Seconds, Datetime,
                MtLoad, MtUnload
  <2>3. MemoryOK
    BY DEF ContentInv
  <2> QED
    BY <1>2, <2>2, <2>3, ReadDiscMoves, WriteDiscMoves, MtReadMoves, MtWriteMoves, TermInCMoves, TermInWMoves
<1> QED
  BY <1>1, <1>2

-----------------------------------------------------------------------------
(* What holds all the time, and the theorem.                               *)
TransferInv == BlocksInv /\ OrderInv /\ ParamInv /\ ContentInv /\ TapeInv /\ MovedInv

LEMMA InitTransfer == Init => TransferInv
<1> SUFFICES ASSUME Init PROVE TransferInv
  OBVIOUS
<1>1. io = NoIo /\ mtfile = NoTape /\ memory = Boot /\ disc = DiscFile /\ tapes = TapeFiles
  BY DEF Init, Start
<1>2. BlocksInv
  BY <1>1, FilesAssumption, LenProperties DEF BlocksInv, NoIo, DiscOps
<1>3. OrderInv
  BY EmptyIsInOrder DEF Init, Start, OrderInv, InOrder
<1>4. ParamInv /\ MovedInv
  BY <1>1 DEF ParamInv, MovedInv, NoIo, Transfers, DiscOps
<1>5. TapeInv
  BY <1>1 DEF TapeInv, NoIo, TapeOps
<1>6. ContentInv
  BY <1>1, FilesAreOK DEF ContentInv, MemoryOK, FilesOK
<1> QED
  BY <1>2, <1>3, <1>4, <1>5, <1>6 DEF TransferInv

\* What changes nothing that is moved.
Still == UNCHANGED <<memory, files, io, got>>
LEMMA StillKeepsTransfer ==
  ASSUME ParamInv, ContentInv, TapeInv, MovedInv, Still
  PROVE  ParamInv' /\ ContentInv' /\ TapeInv' /\ MovedInv'
<1>1. ParamInv'
  BY DEF Still, ParamInv
<1>2. ContentInv'
  BY DEF Still, files, ContentInv, MemoryOK, FilesOK
<1>3. TapeInv'
  BY DEF Still, files, TapeInv, Tape
<1>4. MovedInv'
  BY DEF Still, files, MovedInv, Moved, BlockAt, ByteAt, At
<1> QED
  BY <1>1, <1>2, <1>3, <1>4

LEMMA BeginKeepsTransfer ==
  ASSUME ParamInv, ContentInv, TapeInv, MovedInv, OrderInv, NEW r \in Requests, Doio(r)
  PROVE  ParamInv' /\ ContentInv' /\ TapeInv' /\ MovedInv'
<1>1. io = NoIo /\ UNCHANGED <<memory, files, got>>
  BY DEF Doio, history
<1>2. ParamInv' /\ ContentInv'
  BY <1>1, BeginKeepsParam DEF ContentInv, MemoryOK, FilesOK, files
<1>3. CASE io' = NoIo
  <2>1. TapeInv'
    BY <1>1, <1>3 DEF TapeInv, Tape, files, NoIo, TapeOps
  <2> QED
    BY <1>2, <1>3, <2>1, EndKeepsMoved
<1>4. CASE io' # NoIo
  <2>1. Refusal(r) = 0 /\ io' = Undertaken(r)
    BY <1>1, <1>4 DEF Doio, Unreadable, Begun
  <2>2. io'.op = r.op /\ io'.done = 0
    BY <2>1, RequestAssumption DEF Undertaken
  <2>3. io'.op \in TapeOps => mtfile # NoTape
    BY <2>1, <2>2 DEF Refusal
  <2>4. TapeInv'
    BY <1>1, <2>3 DEF TapeInv, Tape, files
  <2>5. Moved(io.done, memory, disc, tapes, mtfile, got)'
    BY <2>2 DEF Moved
  <2>6. io'.op = "MTWRITE" => io'.done <= mtfile'.at
    <3>1. io'.op = "MTWRITE" => mtfile'.at \in 0 .. Len(Tape')
      BY <1>1, <2>3, <2>4 DEF TapeInv, TapeOps, files
    <3> QED
      BY <2>2, <3>1
  <2>7. io'.done <= Len(got')
    BY <1>1, <2>2, LenProperties DEF OrderInv
  <2>8. MovedInv'
    BY <2>2, <2>5, <2>6, <2>7 DEF MovedInv
  <2> QED
    BY <1>2, <2>4, <2>8
<1> QED
  BY <1>3, <1>4

LEMMA KillKeepsTransfer ==
  ASSUME ContentInv, Kill PROVE ParamInv' /\ ContentInv' /\ TapeInv' /\ MovedInv'
<1>1. io' = NoIo /\ mtfile' = NoTape /\ memory' = Boot /\ UNCHANGED <<disc, tapes>>
  BY DEF Kill
<1>2. TapeInv'
  BY <1>1 DEF TapeInv, NoIo, TapeOps
<1>3. ContentInv'
  BY <1>1, FilesAreOK DEF ContentInv, MemoryOK, FilesOK
<1> QED
  BY <1>1, <1>2, <1>3, EndKeepsParam, EndKeepsMoved

LEMMA NextKeepsTransfer == ASSUME TransferInv, [Next]_vars PROVE TransferInv'
<1>1. BlocksInv /\ OrderInv /\ ParamInv /\ ContentInv /\ TapeInv /\ MovedInv
  BY DEF TransferInv
<1>2. BlocksInv' /\ OrderInv'
  BY <1>1, NextKeepsBlocks, NextKeepsOrder, QuietKeepsOrder DEF vars
<1>3. CASE Type \/ Sigio \/ Paging \/ UNCHANGED vars
  <2>1. Still
    BY <1>3 DEF Type, Sigio, Paging, World, Still, history, vars
  <2> QED
    BY <1>1, <1>2, <2>1, StillKeepsTransfer DEF TransferInv
<1>4. CASE Kill
  BY <1>1, <1>2, <1>4, KillKeepsTransfer DEF TransferInv
<1>5. CASE \E r \in Requests : Doio(r)
  BY <1>1, <1>2, <1>5, BeginKeepsTransfer DEF TransferInv
<1>6. CASE Step
  <2>1. ParamInv' /\ TapeInv' /\ MovedInv'
    BY <1>1, <1>2, <1>6, StepKeepsParam, StepKeepsTape, StepKeepsMoved
  <2>2. ContentInv'
    BY <1>1, <1>6, StepKeepsBytes, StepKeepsFiles DEF ContentInv
  <2> QED
    BY <1>2, <2>1, <2>2 DEF TransferInv
<1> QED
  BY <1>3, <1>4, <1>5, <1>6 DEF Next

\* With success, what was halfway is all of it.
LEMMA StepMoves ==
  ASSUME TransferInv, Step, io' = NoIo, ~flerr', ~interrupted'
  PROVE  Moved(R0', memory', disc', tapes', mtfile', got')
<1>1. BlocksInv /\ OrderInv /\ ParamInv /\ ContentInv /\ MovedInv /\ io # NoIo
  BY StepIsUnderWay DEF TransferInv
<1>2. ASSUME NEW ws, Receive(ws) PROVE FALSE
  BY <1>1, <1>2, MoreGoesOn DEF Receive, Fault, Over
<1>3. Moved(io.done, memory, disc, tapes, mtfile, got)
  BY <1>1 DEF MovedInv
<1>4. CASE ReadDisc
  <2>1. R0' = io.num /\ ~(io.done < io.num) /\ UNCHANGED <<memory, files, got>> /\ io.op \in DiscOps
    BY <1>2, <1>4 DEF ReadDisc, Doing, Return, Quiet, history, DiscOps
  <2>2. io.done = io.num
    BY <1>1, <2>1 DEF BlocksInv
  <2> QED
    BY <1>3, <2>1, <2>2 DEF files
<1>5. CASE WriteDisc
  <2>1. R0' = io.num /\ io.done = io.num /\ UNCHANGED <<memory, files, got>>
    BY <1>1, <1>5, MoreGoesOn DEF WriteDisc, Return, Fault, Over, Quiet, history, files
  <2> QED
    BY <1>3, <2>1 DEF files
<1>6. CASE MtRead
  <2>1. R0' = io.num /\ io.done >= io.num /\ UNCHANGED <<memory, files, got>> /\ io.op = "MTREAD"
    BY <1>2, <1>6 DEF MtRead, Doing, Return, Over, Quiet, history, files
  <2> QED
    BY <1>1, <1>3, <2>1, AtEnd
<1>7. CASE MtWrite
  <2>1. R0' = io.num /\ io.done >= io.num /\ UNCHANGED <<memory, files, got>> /\ io.op = "MTWRITE"
    BY <1>1, <1>7, MoreGoesOn DEF MtWrite, Doing, Return, Fault, Over, Quiet, history, files
  <2> QED
    BY <1>1, <1>3, <2>1, AtEnd
<1>8. CASE (TermInC \/ TermInW) /\ Stop
  BY <1>3, <1>8 DEF TermInC, TermInW, Stop, Return, Quiet, history, files
<1>9. ASSUME NEW a, NEW w, Stored(a, w)
      PROVE  Key = 0 /\ Resident(a) /\ Write(a, <<w>>) /\ got' = got /\ R0' = io.done
  BY <1>1, <1>9, MoreGoesOn DEF Stored, Fault, Return, Over
<1>10. CASE TermInC /\ ~Stop
  <2>0. io.op = "TERMINC" /\ UNCHANGED files
    BY <1>10 DEF TermInC, Doing
  <2>1. PICK w : Stored(CharPlace, w) /\ (Resident(CharPlace) => w = CharWord)
    BY <1>10 DEF TermInC, CharPlace, CharWord
  <2>2. Resident(CharPlace) /\ Write(CharPlace, <<CharWord>>) /\ got' = got /\ R0' = io.done
    BY <1>9, <2>1
  <2>3. \A k \in 1 .. io.done : ByteAt(memory', k) = ByteAt(memory, k)
    BY <1>1, <2>0, <2>2, CharStored DEF ContentInv
  <2>4. \A k \in 1 .. io.done : ByteAt(memory, k) = got[Len(got) - io.done + k]
    BY <1>3, <2>0, MovedIs
  <2>5. \A k \in 1 .. io.done : ByteAt(memory', k) = got'[Len(got') - io.done + k]
    BY <2>2, <2>3, <2>4
  <2> QED
    BY <2>0, <2>2, <2>5, MovedIs
<1>11. CASE TermInW /\ ~Stop
  <2>1. keyboard # << >> /\ \E a, w : Stored(a, w)
    BY <1>11 DEF TermInW
  <2>2. Key \in Character /\ 0 \notin Character
    BY <1>1, <2>1, HeadTailProperties DEF OrderInv, Key, Character
  <2> QED
    BY <1>9, <2>1, <2>2
<1>12. CASE io.op \notin Transfers
  BY <1>12, MovedIs
<1> QED
  <2>1. CASE io.op \in Transfers
    <3>1. ReadDisc \/ WriteDisc \/ MtRead \/ MtWrite \/ TermInC \/ TermInW
      BY <2>1 DEF Step, Transfers, DiscOps, Doing, SizeDisc, TermOutC, TermOutW, Seconds, Datetime,
                  MtLoad, MtUnload
    <3> QED
      BY <3>1, <1>4, <1>5, <1>6, <1>7, <1>8, <1>10, <1>11
  <2> QED
    BY <2>1, <1>12

\* Whenever an operation of DOIO reports success, with the error flag down and
\* no interrupt, the number it reports is the number of blocks or characters
\* that it moved, each between the place it names on the disc, on the tape or
\* in what was typed and its own place in memory, whatever was asked for
\* before, faulted halfway or was killed.
THEOREM SuccessesMoved == Spec => SuccessMoved
<1>1. TransferInv /\ [Next]_vars => TransferInv'
  BY NextKeepsTransfer
<1>2. TransferInv /\ [Next]_vars =>
        [Step /\ io' = NoIo /\ ~flerr' /\ ~interrupted' => Moved(R0', memory', disc', tapes', mtfile', got')]_vars
  BY StepMoves
<1> QED
  BY InitTransfer, <1>1, <1>2, PTL DEF Spec, SuccessMoved
=============================================================================
