--------------------------- MODULE KeyboardProofs ---------------------------
(***************************************************************************)
(* The keyboard ring for every buffer size and every alphabet: the indices *)
(* stay in the buffer wherever SIGIO strikes; when it is held off inside   *)
(* the two functions, the ready flag is right, and the ring implements the *)
(* queue of LossyQueue.                                                    *)
(***************************************************************************)
EXTENDS Keyboard, SequenceTheorems, TLAPS

Places == {"idle"} \cup Reading \cup Clearing
\* from the test at the head of read_keyboard_char() to "kbb_n -= 1"
Taking == {"char", "b_load", "b_store", "b_wrap", "b_zero", "n_load", "n_store"}

\* InBounds says nothing of the value that is held in a register between a
\* load and its store; whatever the handler has done to the variable in the
\* meantime, that value is still one the variable may take.
BoundsInv ==
  /\ pc \in Places
  /\ kbb_e \in Slot
  /\ kbb_b \in 0 .. kbb_size
  /\ kbb_n \in 0 .. kbb_size - 1
  /\ kbb_b = kbb_size => pc \in {"b_wrap", "b_zero"}
  /\ pc \in Taking => kbb_n > 0
  /\ pc = "b_store" => tmp \in Slot
  /\ pc = "n_store" => tmp \in 1 .. kbb_size - 1

\* The handler, whatever it interrupts.
LEMMA TypedKeepsBounds == ASSUME BoundsInv, NEW ch \in Char, Typed(ch) PROVE BoundsInv'
<1> USE SizeAssumption DEF BoundsInv, Slot
<1>1. kbb_e' \in Slot
  BY DEF Typed, Wrapped
<1>2. /\ kbb_b' \in 0 .. kbb_size
      /\ kbb_b' = kbb_size => kbb_b = kbb_size
  BY DEF Typed, Wrapped
<1>3. /\ kbb_n' \in 0 .. kbb_size - 1
      /\ kbb_n > 0 => kbb_n' > 0
  BY DEF Typed
<1>4. UNCHANGED <<pc, tmp>>
  BY DEF Typed
<1> QED
  BY <1>1, <1>2, <1>3, <1>4

\* read_keyboard_char(), one access at a time.
LEMMA ReadKeepsBounds ==
  ASSUME BoundsInv,
         \/ Read \/ FetchChar \/ LoadB \/ StoreB \/ TestB \/ ZeroB \/ LoadN \/ StoreN
         \/ TestN \/ Unready \/ TestLine \/ LoadL \/ StoreL
  PROVE  BoundsInv'
<1> USE SizeAssumption DEF BoundsInv, Slot, ring, Go, Places, Reading, Clearing, Taking
<1>1. CASE Read
  BY <1>1 DEF Read
<1>2. CASE FetchChar
  BY <1>2 DEF FetchChar
<1>3. CASE LoadB
  BY <1>3 DEF LoadB
<1>4. CASE StoreB
  BY <1>4 DEF StoreB
<1>5. CASE TestB
  BY <1>5 DEF TestB
<1>6. CASE ZeroB
  BY <1>6 DEF ZeroB
<1>7. CASE LoadN
  BY <1>7 DEF LoadN
<1>8. CASE StoreN
  BY <1>8 DEF StoreN
<1>9. CASE TestN
  BY <1>9 DEF TestN
<1>10. CASE Unready
  BY <1>10 DEF Unready
<1>11. CASE TestLine
  BY <1>11 DEF TestLine
<1>12. CASE LoadL
  BY <1>12 DEF LoadL
<1>13. CASE StoreL
  BY <1>13 DEF StoreL
<1> QED
  BY <1>1, <1>2, <1>3, <1>4, <1>5, <1>6, <1>7, <1>8, <1>9, <1>10, <1>11, <1>12, <1>13

\* clear_keyboard_buffer()
LEMMA ClearKeepsBounds ==
  ASSUME BoundsInv, Clear \/ ClearB \/ ClearE \/ ClearN \/ ClearL
  PROVE  BoundsInv'
<1> USE SizeAssumption DEF BoundsInv, Slot, ring, Go, Places, Reading, Clearing, Taking
<1>1. CASE Clear
  BY <1>1 DEF Clear
<1>2. CASE ClearB
  BY <1>2 DEF ClearB
<1>3. CASE ClearE
  BY <1>3 DEF ClearE
<1>4. CASE ClearN
  BY <1>4 DEF ClearN
<1>5. CASE ClearL
  BY <1>5 DEF ClearL
<1> QED
  BY <1>1, <1>2, <1>3, <1>4, <1>5

\* Wherever the handler interrupts read_keyboard_char() or
\* clear_keyboard_buffer(), no access of the ring leaves the buffer and no
\* character is taken from an empty one (useful.cpp, kb_getter() and the two
\* functions), for every kbb_size above one.
THEOREM Bounds == Spec => []InBounds
<1>1. Init => BoundsInv
  BY SizeAssumption DEF Init, BoundsInv, Slot, Places, Reading, Clearing, Taking
<1>2. BoundsInv /\ [Next]_vars => BoundsInv'
  <2> SUFFICES ASSUME BoundsInv, [Next]_vars PROVE BoundsInv'
    OBVIOUS
  <2>1. CASE Next
    BY <2>1, TypedKeepsBounds, ReadKeepsBounds, ClearKeepsBounds DEF Next, Program
  <2>2. CASE UNCHANGED vars
    BY <2>2 DEF vars, ring, BoundsInv, Slot
  <2> QED
    BY <2>1, <2>2
<1>3. BoundsInv => InBounds
  BY DEF BoundsInv, InBounds, Taking
<1> QED
  BY <1>1, <1>2, <1>3, PTL DEF Spec

-----------------------------------------------------------------------------
(* The flag, with SIGIO held off inside the functions.                     *)

\* Between two calls the flag says whether a character waits.  Inside them it
\* lags behind kbb_n, each time by what the next statements put right.
FlagInv ==
  /\ BoundsInv
  /\ pc \in {"idle", "line", "l_load", "l_store"} => (ready <=> kbb_n > 0)
  /\ pc \in Taking \cup {"n_test", "unready"} => ready = TRUE
  /\ pc = "n_store" => tmp = kbb_n
  /\ pc = "unready" => kbb_n = 0
  /\ pc \in Clearing => ready = FALSE
  /\ pc = "clear_l" => kbb_n = 0

HeldInv == held => FlagInv

LEMMA TypedKeepsFlag ==
  ASSUME FlagInv, held, held', NEW ch \in Char, Typed(ch) PROVE FlagInv'
<1>1. BoundsInv'
  BY TypedKeepsBounds DEF FlagInv
<1>2. pc = "idle" /\ pc' = "idle"
  BY DEF Typed
<1>3. kbb_n' > 0 /\ ready' = TRUE
  BY SizeAssumption DEF Typed, FlagInv, BoundsInv
<1> QED
  BY <1>1, <1>2, <1>3 DEF FlagInv, Taking, Clearing

LEMMA ProgramKeepsFlag == ASSUME FlagInv, Program PROVE FlagInv'
<1>0. BoundsInv'
  BY ReadKeepsBounds, ClearKeepsBounds DEF FlagInv, Program
<1> USE <1>0, SizeAssumption DEF FlagInv, BoundsInv, ring, Go, Clearing, Taking
<1>1. CASE Read
  BY <1>1 DEF Read
<1>2. CASE FetchChar \/ LoadB \/ StoreB \/ TestB \/ ZeroB
  BY <1>2 DEF FetchChar, LoadB, StoreB, TestB, ZeroB
<1>3. CASE LoadN \/ StoreN
  BY <1>3 DEF LoadN, StoreN
<1>4. CASE TestN
  BY <1>4 DEF TestN
<1>5. CASE Unready
  BY <1>5 DEF Unready
<1>6. CASE TestLine \/ LoadL \/ StoreL
  BY <1>6 DEF TestLine, LoadL, StoreL
<1>7. CASE Clear \/ ClearB \/ ClearE \/ ClearN \/ ClearL
  BY <1>7 DEF Clear, ClearB, ClearE, ClearN, ClearL
<1> QED
  BY <1>1, <1>2, <1>3, <1>4, <1>5, <1>6, <1>7 DEF Program

\* With SIGIO held off inside the two functions, main() is never told that a
\* character waits when none does, nor left asleep while one does (the flag
\* kbd_rdy that useful.cpp keeps), whatever the size of the buffer.
THEOREM Truthful == Spec => []ReadyFollowsBuffer
<1>1. Init => HeldInv
  BY SizeAssumption
  DEF Init, HeldInv, FlagInv, BoundsInv, Slot, Places, Reading, Clearing, Taking
<1>2. HeldInv /\ [Next]_vars => HeldInv'
  <2> SUFFICES ASSUME HeldInv, [Next]_vars PROVE HeldInv'
    OBVIOUS
  <2>1. CASE Next
    BY <2>1, TypedKeepsFlag, ProgramKeepsFlag DEF Next, HeldInv
  <2>2. CASE UNCHANGED vars
    BY <2>2 DEF vars, ring, HeldInv, FlagInv, BoundsInv, Slot
  <2> QED
    BY <2>1, <2>2
<1>3. HeldInv => ReadyFollowsBuffer
  BY DEF HeldInv, FlagInv, ReadyFollowsBuffer
<1> QED
  BY <1>1, <1>2, <1>3, PTL DEF Spec

-----------------------------------------------------------------------------
(* The ring as a queue: what is waiting are the count places from first    *)
(* on, going round the buffer.                                             *)

\* a place in the buffer, reached by going once round it at most
Place(x) == IF x < kbb_size THEN x ELSE x - kbb_size

LEMMA PlaceIs == \A x : Place(x) = IF x < kbb_size THEN x ELSE x - kbb_size
BY DEF Place

LEMMA PlaceIsRemainder == ASSUME NEW x \in 0 .. 2 * kbb_size - 1
                          PROVE  x % kbb_size = Place(x) /\ Place(x) \in Slot
<1>0. kbb_size \in Nat /\ kbb_size > 0
  BY SizeAssumption
<1>1. CASE x < kbb_size
  BY <1>0, <1>1 DEF Place, Slot
<1>2. CASE x >= kbb_size
  <2> DEFINE y == x - kbb_size
  <2>1. y \in 0 .. kbb_size - 1 /\ x = y + kbb_size
    BY <1>0, <1>2
  <2>2. (y + kbb_size) % kbb_size = y
    BY <1>0, <2>1
  <2> QED
    BY <1>0, <1>2, <2>1, <2>2 DEF Place, Slot
<1> QED
  BY <1>0, <1>1, <1>2

\* What InBounds and FlagInv leave out: kbb_e is where the next character
\* goes, count places behind the first; what clear_keyboard_buffer() has not
\* put right yet does not matter, for the queue is empty then.
RingInv ==
  /\ FlagInv
  /\ keyboard_buffer \in [Slot -> Char \cup {NUL}]
  /\ pc \notin Clearing => kbb_e = Place(first + count)
  /\ pc = "b_store" => tmp = kbb_b
  /\ pc = "b_zero" => kbb_b = kbb_size
  /\ pc \in {"clear_e", "clear_n", "clear_l"} => kbb_b = 0
  /\ pc \in {"clear_n", "clear_l"} => kbb_e = 0

Waiting == [i \in 1 .. count |-> keyboard_buffer[(first + i - 1) % kbb_size]]
Got == IF begun THEN c ELSE got

LEMMA Boundaries ==
  ASSUME RingInv
  PROVE  /\ count \in 0 .. kbb_size - 1
         /\ first = Place(IF pc \in {"b_load", "b_store"} THEN kbb_b + 1 ELSE kbb_b)
         /\ first \in Slot
         /\ kbb_e \in Slot
<1> USE SizeAssumption DEF RingInv, FlagInv, BoundsInv
<1>1. count \in 0 .. kbb_size - 1
  BY DEF count, Taking, Clearing
<1> DEFINE b == IF pc \in {"b_load", "b_store"} THEN kbb_b + 1 ELSE kbb_b
<1>2. b \in 0 .. kbb_size
  OBVIOUS
<1>3. b \in 0 .. 2 * kbb_size - 1 /\ first = b % kbb_size
  BY <1>2 DEF first
<1> HIDE DEF b
<1>4. first = Place(b) /\ first \in Slot
  BY <1>3, PlaceIsRemainder
<1> QED
  BY <1>1, <1>4 DEF b

LEMMA RingContents ==
  ASSUME NEW buffer \in [Slot -> Char \cup {NUL}], NEW f \in Slot, NEW n \in 0 .. kbb_size - 1
  PROVE  /\ [i \in 1 .. n |-> buffer[(f + i - 1) % kbb_size]] \in Seq(Char \cup {NUL})
         /\ Len([i \in 1 .. n |-> buffer[(f + i - 1) % kbb_size]]) = n
         /\ \A j \in 1 .. n : [i \in 1 .. n |-> buffer[(f + i - 1) % kbb_size]][j] = buffer[Place(f + j - 1)]
<1>1. n \in Nat /\ n <= kbb_size - 1
  BY SizeAssumption
<1>2. ASSUME NEW i \in 1 .. n
      PROVE  /\ (f + i - 1) % kbb_size = Place(f + i - 1)
             /\ Place(f + i - 1) \in Slot
  <2>1. f + i - 1 \in 0 .. 2 * kbb_size - 1
    BY <1>1, SizeAssumption DEF Slot
  <2> QED
    BY <2>1, PlaceIsRemainder
<1> DEFINE w == [i \in 1 .. n |-> buffer[(f + i - 1) % kbb_size]]
<1>3. \A i \in 1 .. n : buffer[(f + i - 1) % kbb_size] \in Char \cup {NUL}
  BY <1>2
<1>4. w \in Seq(Char \cup {NUL}) /\ Len(w) = n
  BY <1>1, <1>3
<1> QED
  BY <1>1, <1>2, <1>4

\* The queue stays as it is when its ends and the buffer do.
LEMMA QueueStays ==
  ASSUME UNCHANGED <<keyboard_buffer, first, count>> PROVE Waiting' = Waiting
BY DEF Waiting

LEMMA TypedKeepsRing ==
  ASSUME RingInv, held, held', NEW ch \in Char, Typed(ch)
  PROVE  /\ RingInv'
         /\ pc = "idle" /\ pc' = "idle"
         /\ kbb_b \in Slot /\ count = kbb_n /\ first = kbb_b /\ kbb_e = Place(kbb_b + kbb_n)
         /\ kbb_b' \in Slot /\ count' = kbb_n' /\ first' = kbb_b' /\ kbb_n' \in 0 .. kbb_size - 1
<1> USE SizeAssumption
<1>1. pc = "idle" /\ pc' = "idle"
  BY DEF Typed
<1>2. FlagInv'
  BY TypedKeepsFlag DEF RingInv
<1>3. kbb_b \in Slot /\ kbb_n \in 0 .. kbb_size - 1
  BY <1>1 DEF RingInv, FlagInv, BoundsInv, Slot
<1>4. kbb_b' \in Slot /\ kbb_n' \in 0 .. kbb_size - 1
  BY <1>1, <1>2 DEF FlagInv, BoundsInv, Slot
<1>5. count = kbb_n /\ count' = kbb_n'
  BY <1>1 DEF count, Clearing
<1>6. first = kbb_b
  BY <1>1, <1>3, Boundaries DEF Place, Slot
<1>7. first' = kbb_b'
  <2>1. first' = kbb_b' % kbb_size
    BY <1>1 DEF first
  <2>2. kbb_b' \in 0 .. 2 * kbb_size - 1
    BY <1>4 DEF Slot
  <2>3. kbb_b' % kbb_size = Place(kbb_b')
    BY <2>2, PlaceIsRemainder
  <2>4. Place(kbb_b') = kbb_b'
    BY <1>4, PlaceIs DEF Slot
  <2> QED
    BY <2>1, <2>3, <2>4
<1>8. keyboard_buffer' \in [Slot -> Char \cup {NUL}]
  BY DEF Typed, RingInv
<1>9. kbb_e = Place(kbb_b + kbb_n)
  BY <1>1, <1>5, <1>6 DEF RingInv, Clearing
<1>10. kbb_e' = Place(kbb_b' + kbb_n')
  BY <1>3, <1>9 DEF Typed, Wrapped, Place, Slot
<1>11. RingInv'
  BY <1>1, <1>2, <1>5, <1>7, <1>8, <1>10 DEF RingInv, Clearing
<1> QED
  BY <1>1, <1>3, <1>4, <1>5, <1>6, <1>7, <1>9, <1>11 DEF Slot

\* The handler puts the character at the end; a full queue loses its first.
LEMMA TypedPuts ==
  ASSUME RingInv, held, held', NEW ch \in Char, Typed(ch)
  PROVE  /\ Waiting' = IF Len(Waiting) < kbb_size - 1 THEN Append(Waiting, ch)
                       ELSE Append(Tail(Waiting), ch)
         /\ Got' = Got
<1> USE SizeAssumption
<1> DEFINE T == Char \cup {NUL}
<1>1. /\ pc = "idle" /\ pc' = "idle" /\ RingInv'
      /\ kbb_b \in Slot /\ count = kbb_n /\ first = kbb_b /\ kbb_e = Place(kbb_b + kbb_n)
      /\ kbb_b' \in Slot /\ count' = kbb_n' /\ first' = kbb_b' /\ kbb_n' \in 0 .. kbb_size - 1
  BY TypedKeepsRing
<1>2. kbb_n \in 0 .. kbb_size - 1 /\ kbb_e \in Slot
  BY Boundaries, <1>1
<1>5. /\ keyboard_buffer \in [Slot -> T]
      /\ keyboard_buffer' = [keyboard_buffer EXCEPT ![kbb_e] = ch]
  BY DEF Typed, RingInv
<1>3. /\ Waiting \in Seq(T) /\ Len(Waiting) = kbb_n
      /\ \A i \in 1 .. kbb_n : Waiting[i] = keyboard_buffer[Place(kbb_b + i - 1)]
  BY <1>1, <1>2, <1>5, RingContents DEF Waiting
<1>9. keyboard_buffer' \in [Slot -> T]
  BY <1>5
<1>4. /\ Waiting' \in Seq(T) /\ Len(Waiting') = kbb_n'
      /\ \A i \in 1 .. kbb_n' : Waiting'[i] = keyboard_buffer'[Place(kbb_b' + i - 1)]
  <2>1. Waiting' = [i \in 1 .. kbb_n' |-> keyboard_buffer'[(kbb_b' + i - 1) % kbb_size]]
    BY <1>1 DEF Waiting
  <2>2. \A buffer \in [Slot -> T], f \in Slot, n \in 0 .. kbb_size - 1 :
          LET w == [i \in 1 .. n |-> buffer[(f + i - 1) % kbb_size]]
          IN /\ w \in Seq(T) /\ Len(w) = n
             /\ \A j \in 1 .. n : w[j] = buffer[Place(f + j - 1)]
    BY RingContents
  <2> QED
    BY <1>1, <1>9, <2>1, <2>2
<1>6. Got' = Got
  BY <1>1 DEF Got, begun, Reading, Typed
<1> HIDE DEF T
<1>7. CASE kbb_n < kbb_size - 1
  <2>1. kbb_n' = kbb_n + 1 /\ kbb_b' = kbb_b
    BY <1>7, <1>2 DEF Typed
  <2>2. /\ Append(Waiting, ch) \in Seq(T) /\ Len(Append(Waiting, ch)) = kbb_n + 1
        /\ \A i \in 1 .. kbb_n : Append(Waiting, ch)[i] = Waiting[i]
        /\ Append(Waiting, ch)[kbb_n + 1] = ch
    BY <1>3, AppendProperties DEF T
  <2>3. ASSUME NEW i \in 1 .. kbb_n + 1 PROVE Waiting'[i] = Append(Waiting, ch)[i]
    <3>1. CASE i = kbb_n + 1
      <4>1. Place(kbb_b + i - 1) = kbb_e
        BY <1>1, <1>2, <3>1 DEF Slot
      <4> QED
        BY <1>2, <1>4, <1>5, <2>1, <2>2, <3>1, <4>1
    <3>2. CASE i \in 1 .. kbb_n
      <4>1. Place(kbb_b + i - 1) \in Slot \ {kbb_e}
        BY <1>1, <1>2, <3>2 DEF Slot, Place
      <4>2. keyboard_buffer'[Place(kbb_b + i - 1)] = keyboard_buffer[Place(kbb_b + i - 1)]
        BY <1>5, <4>1
      <4> QED
        BY <1>3, <1>4, <2>1, <2>2, <3>2, <4>2
    <3>3. i = kbb_n + 1 \/ i \in 1 .. kbb_n
      BY <1>2
    <3> QED
      BY <3>1, <3>2, <3>3
  <2> QED
    BY <1>3, <1>4, <1>6, <1>7, <2>1, <2>2, <2>3, SeqEqual
<1>8. CASE kbb_n = kbb_size - 1
  <2>1. kbb_n' = kbb_n /\ kbb_b' = Wrapped(kbb_b + 1)
    BY <1>8, <1>2 DEF Typed
  <2>2. Waiting # << >>
    BY <1>3, <1>8
  <2>3. /\ Tail(Waiting) \in Seq(T) /\ Len(Tail(Waiting)) = kbb_n - 1
        /\ \A i \in 1 .. kbb_n - 1 : Tail(Waiting)[i] = Waiting[i + 1]
    BY <1>3, <2>2, HeadTailProperties
  <2>4. /\ Append(Tail(Waiting), ch) \in Seq(T) /\ Len(Append(Tail(Waiting), ch)) = kbb_n
        /\ \A i \in 1 .. kbb_n - 1 : Append(Tail(Waiting), ch)[i] = Waiting[i + 1]
        /\ Append(Tail(Waiting), ch)[kbb_n] = ch
    <3>1. ch \in T
      BY DEF T
    <3> QED
      BY <1>2, <2>3, <3>1, AppendProperties
  <2>5. ASSUME NEW i \in 1 .. kbb_n PROVE Waiting'[i] = Append(Tail(Waiting), ch)[i]
    <3>1. CASE i = kbb_n
      <4>1. Place(kbb_b' + i - 1) = kbb_e
        BY <1>1, <1>2, <1>8, <2>1, <3>1 DEF Slot, Place, Wrapped
      <4> QED
        BY <1>2, <1>4, <1>5, <2>1, <2>4, <3>1, <4>1
    <3>2. CASE i \in 1 .. kbb_n - 1
      <4>1. Place(kbb_b' + i - 1) \in Slot \ {kbb_e} /\ Place(kbb_b' + i - 1) = Place(kbb_b + i)
        BY <1>1, <1>2, <1>8, <2>1, <3>2 DEF Slot, Place, Wrapped
      <4>2. keyboard_buffer'[Place(kbb_b' + i - 1)] = keyboard_buffer[Place(kbb_b + i)]
        BY <1>5, <4>1
      <4>3. Waiting[i + 1] = keyboard_buffer[Place(kbb_b + i)]
        <5>1. i + 1 \in 1 .. kbb_n /\ kbb_b + (i + 1) - 1 = kbb_b + i
          BY <1>1, <1>2, <3>2, SizeAssumption DEF Slot
        <5> QED
          BY <1>3, <5>1
      <4> QED
        BY <1>4, <2>1, <2>4, <3>2, <4>2, <4>3
    <3>3. i = kbb_n \/ i \in 1 .. kbb_n - 1
      BY <1>2
    <3> QED
      BY <3>1, <3>2, <3>3
  <2> QED
    BY <1>3, <1>4, <1>6, <1>8, <2>1, <2>4, <2>5, SeqEqual
<1> QED
  BY <1>2, <1>7, <1>8

\* Most accesses move neither end of the queue nor what was read last.
\* The steps inside read_keyboard_char() at which the queue does not change.
Access == \/ LoadB \/ StoreB \/ TestB \/ ZeroB \/ LoadN \/ StoreN \/ TestN \/ Unready
          \/ TestLine \/ LoadL \/ StoreL

LEMMA AccessKeepsQueue ==
  ASSUME RingInv,
         Access \/ (Read /\ kbb_n > 0)
  PROVE  /\ UNCHANGED <<keyboard_buffer, kbb_e, first, count, Got>>
         /\ pc \notin Clearing /\ pc' \notin Clearing
         /\ pc' = "b_store" => tmp' = kbb_b'
         /\ pc' = "b_zero" => kbb_b' = kbb_size
<1> USE SizeAssumption DEF RingInv, FlagInv, BoundsInv, Slot, ring, Go, Clearing, Reading, Taking,
                           begun, count, Got
<1>1. CASE LoadB \/ StoreB \/ TestB
  BY <1>1 DEF LoadB, StoreB, TestB, first
<1>2. CASE ZeroB
  <2>1. first = kbb_size % kbb_size /\ first' = 0 % kbb_size
    BY <1>2 DEF ZeroB, first
  <2>2. kbb_size % kbb_size = 0 /\ 0 % kbb_size = 0
    <3>1. kbb_size \in 0 .. 2 * kbb_size - 1 /\ 0 \in 0 .. 2 * kbb_size - 1
      OBVIOUS
    <3>2. kbb_size % kbb_size = Place(kbb_size) /\ 0 % kbb_size = Place(0)
      BY <3>1, PlaceIsRemainder
    <3> QED
      BY <3>2, PlaceIs
  <2> QED
    BY <1>2, <2>1, <2>2 DEF ZeroB
<1>3. CASE LoadN \/ StoreN \/ TestN \/ Unready
  BY <1>3 DEF LoadN, StoreN, TestN, Unready, first
<1>4. CASE TestLine \/ LoadL \/ StoreL
  BY <1>4 DEF TestLine, LoadL, StoreL, first
<1>5. CASE Read /\ kbb_n > 0
  BY <1>5 DEF Read, first
<1> QED
  BY <1>1, <1>2, <1>3, <1>4, <1>5 DEF Access

\* A read takes the first character when it fetches it.
LEMMA FetchTakes ==
  ASSUME RingInv, FetchChar
  PROVE  /\ RingInv'
         /\ Waiting # << >> /\ Got' = Head(Waiting) /\ Waiting' = Tail(Waiting)
<1> USE SizeAssumption
<1> DEFINE T == Char \cup {NUL}
<1>1. /\ pc = "char" /\ pc' = "b_load" /\ c' = keyboard_buffer[kbb_b]
      /\ UNCHANGED <<keyboard_buffer, kbb_b, kbb_e, kbb_n, kbb_l, ready, tmp, got>>
  BY DEF FetchChar, Go, ring
<1>2. kbb_b \in Slot /\ kbb_n \in 1 .. kbb_size - 1 /\ keyboard_buffer \in [Slot -> T]
  BY <1>1 DEF RingInv, FlagInv, BoundsInv, Slot, Taking
<1>3. count = kbb_n /\ count' = kbb_n - 1
  BY <1>1 DEF count, Clearing
<1>4. first = kbb_b
  BY <1>1, <1>2, Boundaries, PlaceIs DEF Slot
<1>5. first' = Place(kbb_b + 1) /\ Place(kbb_b + 1) \in Slot
  <2>1. first' = (kbb_b + 1) % kbb_size
    BY <1>1 DEF first
  <2>2. kbb_b + 1 \in 0 .. 2 * kbb_size - 1
    BY <1>2 DEF Slot
  <2> QED
    BY <2>1, <2>2, PlaceIsRemainder
<1>6. kbb_e = Place(kbb_b + kbb_n)
  BY <1>1, <1>3, <1>4 DEF RingInv, Clearing
<1>7. RingInv'
  <2>1. FlagInv'
    BY ProgramKeepsFlag DEF RingInv, Program
  <2>2. kbb_e' = Place(first' + count')
    BY <1>1, <1>2, <1>3, <1>5, <1>6, PlaceIs DEF Slot
  <2> QED
    BY <1>1, <1>2, <2>1, <2>2 DEF RingInv, Clearing
<1>8. /\ Waiting \in Seq(T) /\ Len(Waiting) = kbb_n
      /\ \A i \in 1 .. kbb_n : Waiting[i] = keyboard_buffer[Place(kbb_b + i - 1)]
  BY <1>2, <1>3, <1>4, RingContents DEF Waiting
<1>9. /\ Waiting' \in Seq(T) /\ Len(Waiting') = kbb_n - 1
      /\ \A i \in 1 .. kbb_n - 1 : Waiting'[i] = keyboard_buffer[Place(Place(kbb_b + 1) + i - 1)]
  <2>1. Waiting' = [i \in 1 .. kbb_n - 1 |-> keyboard_buffer[(Place(kbb_b + 1) + i - 1) % kbb_size]]
    BY <1>1, <1>3, <1>5 DEF Waiting
  <2>2. kbb_n - 1 \in 0 .. kbb_size - 1
    BY <1>2
  <2> QED
    BY <1>2, <1>5, <2>1, <2>2, RingContents
<1> HIDE DEF T
<1>10. Waiting # << >>
  BY <1>2, <1>8
<1>11. Got' = Head(Waiting)
  <2>1. Got' = keyboard_buffer[kbb_b]
    BY <1>1 DEF Got, begun, Reading
  <2>2. Head(Waiting) = Waiting[1]
    BY <1>8, <1>10
  <2>3. Waiting[1] = keyboard_buffer[Place(kbb_b + 1 - 1)] /\ Place(kbb_b + 1 - 1) = kbb_b
    BY <1>2, <1>8, PlaceIs DEF Slot
  <2> QED
    BY <2>1, <2>2, <2>3
<1>12. Waiting' = Tail(Waiting)
  <2>1. /\ Tail(Waiting) \in Seq(T) /\ Len(Tail(Waiting)) = kbb_n - 1
        /\ \A i \in 1 .. kbb_n - 1 : Tail(Waiting)[i] = Waiting[i + 1]
    BY <1>8, <1>10, HeadTailProperties
  <2>2. ASSUME NEW i \in 1 .. kbb_n - 1 PROVE Waiting'[i] = Tail(Waiting)[i]
    <3>1. i + 1 \in 1 .. kbb_n /\ Place(kbb_b + (i + 1) - 1) = Place(Place(kbb_b + 1) + i - 1)
      BY <1>2, PlaceIs DEF Slot
    <3> QED
      BY <1>8, <1>9, <2>1, <3>1
  <2> QED
    BY <1>9, <2>1, <2>2, SeqEqual
<1> QED
  BY <1>7, <1>10, <1>11, <1>12

LEMMA EmptyQueue == count = 0 => Waiting = << >>
BY DEF Waiting

\* A read that finds nothing, and each step of clear_keyboard_buffer().
LEMMA ClearEmpties ==
  ASSUME RingInv, Clear \/ ClearB \/ ClearE \/ ClearN \/ ClearL
  PROVE  /\ RingInv'
         /\ Waiting' = << >> /\ Got' = Got
         /\ ~Clear => Waiting = << >>
<1>0. FlagInv'
  BY ProgramKeepsFlag DEF RingInv, Program
<1> USE SizeAssumption DEF RingInv, FlagInv, BoundsInv, ring, Go, Clearing, Reading
<1>1. UNCHANGED <<keyboard_buffer, c, got>> /\ ~begun /\ ~begun'
  BY DEF begun, Clear, ClearB, ClearE, ClearN, ClearL
<1>2. count' = 0 /\ (~Clear => count = 0)
  BY DEF count, Clear, ClearB, ClearE, ClearN, ClearL
<1>3. Waiting' = << >>
  BY <1>2 DEF Waiting
<1>4. CASE ClearL
  <2>1. kbb_e' = 0 /\ kbb_b' = 0 /\ pc' = "idle"
    BY <1>4 DEF ClearL
  <2>2. first' = 0 % kbb_size
    BY <2>1 DEF first
  <2>3. 0 % kbb_size = Place(0) /\ Place(0) = 0
    <3>1. 0 \in 0 .. 2 * kbb_size - 1
      OBVIOUS
    <3> QED
      BY <3>1, PlaceIsRemainder, PlaceIs
  <2>4. first' + count' = 0
    BY <1>2, <2>2, <2>3
  <2> QED
    BY <1>0, <1>1, <1>2, <1>3, <2>1, <2>3, <2>4, EmptyQueue DEF Got
<1>5. CASE Clear \/ ClearB \/ ClearE \/ ClearN
  <2>1. RingInv'
    BY <1>0, <1>1, <1>5 DEF Clear, ClearB, ClearE, ClearN
  <2> QED
    BY <1>1, <1>2, <1>3, <2>1, EmptyQueue DEF Got
<1> QED
  BY <1>4, <1>5

LEMMA AccessKeepsRing ==
  ASSUME RingInv,
         Access \/ (Read /\ kbb_n > 0)
  PROVE  RingInv' /\ Waiting' = Waiting /\ Got' = Got
<1>1. FlagInv'
  BY ProgramKeepsFlag DEF RingInv, Program, Access
<1>2. /\ UNCHANGED <<keyboard_buffer, kbb_e, first, count, Got>>
      /\ pc \notin Clearing /\ pc' \notin Clearing
      /\ pc' = "b_store" => tmp' = kbb_b'
      /\ pc' = "b_zero" => kbb_b' = kbb_size
  BY AccessKeepsQueue
<1>3. kbb_e' = Place(first' + count')
  BY <1>2 DEF RingInv
<1>4. pc' \notin {"clear_e", "clear_n", "clear_l"}
  BY <1>2 DEF Clearing
<1> QED
  BY <1>1, <1>2, <1>3, <1>4, QueueStays DEF RingInv

\* A step of the queue of LossyQueue, or none.
QueueStep == Queue!Next \/ UNCHANGED <<Waiting, Got>>

LEMMA ProgramIsQueue == ASSUME RingInv, Program PROVE RingInv' /\ QueueStep
<1>1. CASE Access \/ (Read /\ kbb_n > 0)
  BY <1>1, AccessKeepsRing DEF QueueStep
<1>2. CASE FetchChar
  BY <1>2, FetchTakes DEF QueueStep, Queue!Next, Queue!Get, Waiting, Got
<1>3. CASE Clear \/ ClearB \/ ClearE \/ ClearN \/ ClearL
  BY <1>3, ClearEmpties DEF QueueStep, Queue!Next, Queue!Empty, Waiting, Got
<1>4. CASE Read /\ ~(kbb_n > 0)
  <2>1. /\ pc = "idle" /\ pc' = "idle" /\ got' = NUL /\ UNCHANGED <<ring, c, tmp>>
        /\ kbb_n = 0
    BY <1>4, SizeAssumption DEF Read, RingInv, FlagInv, BoundsInv
  <2>2. FlagInv'
    BY <1>4, ProgramKeepsFlag DEF RingInv, Program
  <2>3. UNCHANGED <<keyboard_buffer, first, count>> /\ count = 0
    BY <2>1 DEF ring, first, count, Clearing
  <2>4. Waiting = << >> /\ Waiting' = Waiting /\ Got' = NUL
    BY <2>1, <2>3, EmptyQueue, QueueStays DEF Got, begun, Reading
  <2>5. kbb_e' = kbb_e /\ Place(first' + count') = Place(first + count)
    BY <2>1, <2>3 DEF ring
  <2>6. RingInv'
    BY <2>1, <2>2, <2>3, <2>5 DEF ring, RingInv, Clearing
  <2> QED
    BY <2>4, <2>6 DEF QueueStep, Queue!Next, Queue!Get, Waiting, Got
<1>5. CASE Read
  BY <1>1, <1>4, <1>5
<1> QED
  BY <1>1, <1>2, <1>3, <1>5 DEF Program, Access

LEMMA TypedIsQueue ==
  ASSUME RingInv, held, held', NEW ch \in Char, Typed(ch) PROVE RingInv' /\ QueueStep
<1>1. Queue!Put(ch)
  BY TypedPuts DEF Queue!Put, Waiting, Got
<1> QED
  BY <1>1, TypedKeepsRing DEF QueueStep, Queue!Next

HeldRing == held => RingInv

\* With SIGIO held off inside the two functions, the ring with its wrapping
\* indices, its count and its flag is the queue of LossyQueue: what is typed
\* comes out in the order in which it was typed, and only the oldest is lost,
\* for every size of the buffer and every alphabet (useful.cpp).
THEOREM RingImplementsQueue == Spec => LossyFifo
<1>1. Init => HeldRing /\ Queue!Init
  <2> SUFFICES ASSUME Init PROVE HeldRing /\ Queue!Init
    OBVIOUS
  <2>1. /\ pc = "idle" /\ kbb_b = 0 /\ kbb_e = 0 /\ kbb_n = 0
        /\ FlagInv
    BY SizeAssumption DEF Init, FlagInv, BoundsInv, Slot, Places, Reading, Clearing, Taking
  <2>2. count = 0 /\ first = 0 % kbb_size
    BY <2>1 DEF count, first, Clearing
  <2>3. 0 % kbb_size = Place(0) /\ Place(0) = 0
    <3>1. 0 \in 0 .. 2 * kbb_size - 1
      BY SizeAssumption
    <3> QED
      BY <3>1, SizeAssumption, PlaceIsRemainder, PlaceIs
  <2>4. kbb_e = Place(first + count)
    BY <2>1, <2>2, <2>3
  <2>5. keyboard_buffer \in [Slot -> Char \cup {NUL}]
    BY DEF Init
  <2>6. Waiting = << >> /\ Got = NUL
    BY <2>1, <2>2, EmptyQueue DEF Init, Got, begun, Reading
  <2> QED
    BY <2>1, <2>4, <2>5, <2>6 DEF HeldRing, RingInv, Queue!Init, Waiting, Got
<1>2. HeldRing /\ [Next]_vars => HeldRing' /\ [held => Queue!Next]_Queue!vars
  <2> SUFFICES ASSUME HeldRing, [Next]_vars PROVE HeldRing' /\ [held => Queue!Next]_Queue!vars
    OBVIOUS
  <2>1. CASE Next
    <3>1. CASE held
      <4>1. RingInv' /\ QueueStep
        BY <2>1, <3>1, ProgramIsQueue, TypedIsQueue DEF Next, HeldRing
      <4>2. [held => Queue!Next]_Queue!vars
        BY <4>1 DEF QueueStep, Queue!vars, Waiting, Got
      <4> QED
        BY <4>1, <4>2 DEF HeldRing
    <3>2. CASE ~held
      BY <2>1, <3>2 DEF Next, HeldRing
    <3> QED
      BY <3>1, <3>2
  <2>2. CASE UNCHANGED vars
    <3>1. UNCHANGED <<ring, pc, c, tmp, got, held, keyboard_buffer, kbb_b, kbb_e, kbb_n>>
      BY <2>2 DEF vars, ring
    <3>2. UNCHANGED <<first, count, Got, Waiting, FlagInv, Queue!vars>>
      BY <3>1 DEF ring, first, count, Got, Waiting, begun, FlagInv, BoundsInv, Queue!vars
    <3>3. RingInv' <=> RingInv
      BY <3>1, <3>2 DEF RingInv
    <3> QED
      BY <3>1, <3>2, <3>3 DEF HeldRing
  <2> QED
    BY <2>1, <2>2
<1> QED
  BY <1>1, <1>2, PTL DEF Spec, LossyFifo
=============================================================================
