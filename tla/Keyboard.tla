------------------------------ MODULE Keyboard ------------------------------
(***************************************************************************)
(* The keyboard buffer of EEN521/emulator/useful.cpp: a ring that the      *)
(* SIGIO handler kb_getter() fills while the program is anywhere in its    *)
(* own code, in particular half way through read_keyboard_char() or        *)
(* clear_keyboard_buffer(), which share kbb_b, kbb_e, kbb_n, kbb_l and the *)
(* ready flag with it and protect nothing.                                 *)
(*                                                                         *)
(* The handler runs to its end and is one action.  The program's side is   *)
(* one action for each access to a shared variable; "x-=1" is a load and a *)
(* store, since none of the variables is volatile or atomic.               *)
(* "held" is the same code with SIGIO held off inside the two functions,   *)
(* to tell the ring's own logic from the races.                            *)
(***************************************************************************)
EXTENDS Integers

CONSTANTS Char,         \* characters, NEWLINE among them
          NEWLINE, NUL,
          kbb_size,     \* 260 in the code
          MaxLines      \* bound on |kbb_l|: see Typed

ASSUME SizeAssumption == kbb_size \in Nat \ {0, 1}
ASSUME CharAssumption == NEWLINE \in Char /\ NUL \notin Char
ASSUME LinesAssumption == MaxLines \in Nat

VARIABLES keyboard_buffer, kbb_b, kbb_e, kbb_n, kbb_l,
          ready,        \* *kb_ready_flag, the program's kbd_rdy
          pc,           \* where the program is in the two functions
          c,            \* read_keyboard_char()'s local variable
          tmp,          \* the register between a load and its store
          got,          \* what the last read_keyboard_char() returned
          held          \* can SIGIO not arrive inside the functions?

ring == <<keyboard_buffer, kbb_b, kbb_e, kbb_n, kbb_l, ready>>
vars == <<ring, pc, c, tmp, got, held>>

Slot == 0 .. kbb_size - 1
Reading == {"char", "b_load", "b_store", "b_wrap", "b_zero", "n_load", "n_store",
            "n_test", "unready", "line", "l_load", "l_store"}
Clearing == {"clear_b", "clear_e", "clear_n", "clear_l"}

Init == /\ keyboard_buffer \in [Slot -> {NUL}]
        /\ kbb_b = 0 /\ kbb_e = 0 /\ kbb_n = 0 /\ kbb_l = 0
        /\ ready = FALSE
        /\ pc = "idle" /\ c = NUL /\ tmp = 0 /\ got = NUL
        /\ held \in BOOLEAN

-----------------------------------------------------------------------------
(* The signal handler: sigio() reads one character and kb_getter() has it. *)

Wrapped(n) == IF n >= kbb_size THEN 0 ELSE n

Typed(ch) ==
  LET lostch == keyboard_buffer[kbb_e]
      full == kbb_n >= kbb_size - 1
      lines == kbb_l - (IF full /\ lostch = NEWLINE THEN 1 ELSE 0)
                     + (IF ch = NEWLINE THEN 1 ELSE 0)
  IN /\ held => pc = "idle"
     /\ lines \in -MaxLines .. MaxLines
     /\ keyboard_buffer' = [keyboard_buffer EXCEPT ![kbb_e] = ch]
     /\ kbb_e' = Wrapped(kbb_e + 1)
     /\ IF full THEN kbb_b' = Wrapped(kbb_b + 1) /\ UNCHANGED kbb_n
                ELSE kbb_n' = kbb_n + 1 /\ UNCHANGED kbb_b
     /\ kbb_l' = lines
     /\ ready' = IF kbb_n' > 0 THEN TRUE ELSE ready
     /\ UNCHANGED <<pc, c, tmp, got>>

-----------------------------------------------------------------------------
(* read_keyboard_char(), called by the prompt and READCHAR when the flag is *)
(* up, and by the terminal operations of DOIO when kbd_any_ready().        *)

Go(from, to) == pc = from /\ pc' = to

Read ==
  /\ ready \/ kbb_n > 0
  /\ IF kbb_n <= 0 THEN pc = "idle" /\ got' = NUL /\ UNCHANGED pc
                   ELSE Go("idle", "char") /\ UNCHANGED got
  /\ UNCHANGED <<ring, c, tmp>>
FetchChar == Go("char", "b_load") /\ c' = keyboard_buffer[kbb_b] /\ UNCHANGED <<ring, tmp, got>>
LoadB  == Go("b_load", "b_store") /\ tmp' = kbb_b /\ UNCHANGED <<ring, c, got>>
StoreB == /\ Go("b_store", "b_wrap") /\ kbb_b' = tmp + 1
          /\ UNCHANGED <<keyboard_buffer, kbb_e, kbb_n, kbb_l, ready, c, tmp, got>>
\* (slip: one too late.  Like the other slips, a mistake that could be made
\* in the definition below; nothing uses it and a run must notice it.)
TestBLate == /\ Go("b_wrap", IF kbb_b > kbb_size THEN "b_zero" ELSE "n_load")
             /\ UNCHANGED <<ring, c, tmp, got>>
TestB  == /\ Go("b_wrap", IF kbb_b >= kbb_size THEN "b_zero" ELSE "n_load")
          /\ UNCHANGED <<ring, c, tmp, got>>
ZeroB  == /\ Go("b_zero", "n_load") /\ kbb_b' = 0
          /\ UNCHANGED <<keyboard_buffer, kbb_e, kbb_n, kbb_l, ready, c, tmp, got>>
LoadN  == Go("n_load", "n_store") /\ tmp' = kbb_n /\ UNCHANGED <<ring, c, got>>
StoreN == /\ Go("n_store", "n_test") /\ kbb_n' = tmp - 1
          /\ UNCHANGED <<keyboard_buffer, kbb_b, kbb_e, kbb_l, ready, c, tmp, got>>
\* (slip: the flag goes down with the last character but one)
TestNEarly == /\ Go("n_test", IF kbb_n <= 1 THEN "unready" ELSE "line")
              /\ UNCHANGED <<ring, c, tmp, got>>
TestN  == /\ Go("n_test", IF kbb_n <= 0 THEN "unready" ELSE "line")
          /\ UNCHANGED <<ring, c, tmp, got>>
Unready == /\ Go("unready", "line") /\ ready' = FALSE
           /\ UNCHANGED <<keyboard_buffer, kbb_b, kbb_e, kbb_n, kbb_l, c, tmp, got>>
TestLine == /\ Go("line", IF c = NEWLINE THEN "l_load" ELSE "idle")
            /\ got' = IF c = NEWLINE THEN got ELSE c
            /\ UNCHANGED <<ring, c, tmp>>
LoadL  == Go("l_load", "l_store") /\ tmp' = kbb_l /\ UNCHANGED <<ring, c, got>>
StoreL == /\ Go("l_store", "idle") /\ kbb_l' = tmp - 1 /\ got' = c
          /\ UNCHANGED <<keyboard_buffer, kbb_b, kbb_e, kbb_n, ready, c, tmp>>

-----------------------------------------------------------------------------
(* clear_keyboard_buffer()                                                 *)

Clear  == /\ Go("idle", "clear_b") /\ ready' = FALSE
          /\ UNCHANGED <<keyboard_buffer, kbb_b, kbb_e, kbb_n, kbb_l, c, tmp, got>>
ClearB == /\ Go("clear_b", "clear_e") /\ kbb_b' = 0
          /\ UNCHANGED <<keyboard_buffer, kbb_e, kbb_n, kbb_l, ready, c, tmp, got>>
\* (slip: the end is not reset)
ClearEForgotten == Go("clear_e", "clear_n") /\ UNCHANGED <<ring, c, tmp, got>>
ClearE == /\ Go("clear_e", "clear_n") /\ kbb_e' = 0
          /\ UNCHANGED <<keyboard_buffer, kbb_b, kbb_n, kbb_l, ready, c, tmp, got>>
ClearN == /\ Go("clear_n", "clear_l") /\ kbb_n' = 0
          /\ UNCHANGED <<keyboard_buffer, kbb_b, kbb_e, kbb_l, ready, c, tmp, got>>
ClearL == /\ Go("clear_l", "idle") /\ kbb_l' = 0
          /\ UNCHANGED <<keyboard_buffer, kbb_b, kbb_e, kbb_n, ready, c, tmp, got>>

Program == \/ Read \/ FetchChar \/ LoadB \/ StoreB \/ TestB \/ ZeroB \/ LoadN \/ StoreN
           \/ TestN \/ Unready \/ TestLine \/ LoadL \/ StoreL
           \/ Clear \/ ClearB \/ ClearE \/ ClearN \/ ClearL
Next == (Program \/ \E ch \in Char : Typed(ch)) /\ UNCHANGED held
Spec == Init /\ [][Next]_vars

-----------------------------------------------------------------------------
(* Properties.                                                             *)

\* Whatever the handler interrupts, nothing is read or written outside the
\* buffer, the number of characters stays within the ring's capacity, and a
\* read that has begun has a character to take.
InBounds ==
  /\ kbb_e \in Slot
  /\ kbb_b \in 0 .. kbb_size
  /\ kbb_b = kbb_size => pc \in {"b_wrap", "b_zero"}
  /\ kbb_n \in 0 .. kbb_size - 1
  /\ pc \in {"char", "b_load", "b_store", "b_wrap", "b_zero", "n_load", "n_store"} => kbb_n > 0

\* With SIGIO held off the ready flag tells the program the truth: when it is
\* about to look, the flag is up exactly when a character waits (main() sleeps
\* while it is down and reads while it is up).
ReadyFollowsBuffer == held /\ pc = "idle" => (ready <=> kbb_n > 0)

\* With SIGIO held off the ring holds the typed characters in order and loses
\* only the oldest.  A read takes effect when it fetches the character.
begun == pc \in Reading \ {"char"}
first == (IF pc \in {"b_load", "b_store"} THEN kbb_b + 1 ELSE kbb_b) % kbb_size
count == CASE pc \in {"b_load", "b_store", "b_wrap", "b_zero", "n_load", "n_store"} -> kbb_n - 1
           [] pc \in Clearing -> 0
           [] OTHER -> kbb_n
Queue == INSTANCE LossyQueue WITH
  Capacity <- kbb_size - 1,
  waiting  <- [i \in 1 .. count |-> keyboard_buffer[(first + i - 1) % kbb_size]],
  got      <- IF begun THEN c ELSE got
LossyFifo == Queue!Init /\ [][held => Queue!Next]_Queue!vars
=============================================================================
