----------------------------- MODULE LossyQueue -----------------------------
(***************************************************************************)
(* What the keyboard buffer of EEN521/emulator/useful.cpp promises: the    *)
(* characters come out in the order in which they were typed, and when     *)
(* more than Capacity are waiting it is the oldest that are lost.          *)
(***************************************************************************)
EXTENDS Sequences, Naturals
CONSTANTS Char, Capacity, NUL
VARIABLES waiting,      \* the characters not read yet
          got           \* what the last read returned

Put(c) == /\ waiting' = IF Len(waiting) < Capacity THEN Append(waiting, c)
                        ELSE Append(Tail(waiting), c)
          /\ UNCHANGED got
Get == /\ IF waiting = <<>> THEN got' = NUL /\ UNCHANGED waiting
          ELSE got' = Head(waiting) /\ waiting' = Tail(waiting)
Empty == waiting' = <<>> /\ UNCHANGED got

vars == <<waiting, got>>
Init == waiting = <<>> /\ got = NUL
Next == (\E c \in Char : Put(c)) \/ Get \/ Empty
Spec == Init /\ [][Next]_vars
=============================================================================
