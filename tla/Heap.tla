-------------------------------- MODULE Heap --------------------------------
(***************************************************************************)
(* The two-level heap of EEN521/custom-os/malloc.p.  rmalloc() and         *)
(* rmfree() give a process a region of the system heap; malloc() and       *)
(* free() give its program blocks of that region.  Both keep their tags in *)
(* the memory they manage: a block is a marker, its length, the data, the  *)
(* length and the marker again, and a search looks for the next word that  *)
(* equals the marker of a free block.                                      *)
(*                                                                         *)
(* The callers behave: they free what they hold, once and with the size    *)
(* they asked for, and write only inside what they hold and never a value  *)
(* that equals a marker.  A call is one step but for the search, each turn *)
(* of whose outer loop is a step of its own.                               *)
(***************************************************************************)
EXTENDS Integers, FiniteSets

CONSTANTS Top,          \* memory is 0 .. Top
          HeapBase,     \* what the cell HEAP_BASE_ADDR holds
          HeapMax,      \* what the cell HEAP_MEM_MAX holds
          Proc,         \* processes: each has a process control block
          RegionSizes,  \* what a process may ask of rmalloc
          Sizes,        \* what a program may ask of malloc
          Data          \* what a program writes in its blocks

Cell == 0 .. Top
ASSUME HeapAssumption == /\ Top \in Nat /\ HeapBase \in Cell /\ HeapMax \in Cell
                         /\ HeapBase + 4 <= HeapMax
ASSUME SizeAssumption == Sizes \subseteq Nat \ {0} /\ RegionSizes \subseteq Nat \ {0}

\* The markers, and where the last marker of a used block lies: `tail' and
\* the size of the block behind its first.
Region  == [free |-> 32767, used |-> -32767, tail |-> 2]
Process == [free |-> 30591, used |-> -30591, tail |-> 3]
Markers == {32767, -32767, 30591, -30591}
ASSUME DataAssumption == Data \subseteq Int \ Markers

OS == "os"
Idle == [op |-> "idle"]

VARIABLES mem,
          held,     \* [owner, base, size]: what rmalloc and malloc returned
                    \* and has not been freed; a region's owner is OS
          pcb,      \* process -> its region, a member of held, or {}
          call      \* the allocation that is searching

vars == <<mem, held, pcb, call>>

Read(m, a) == IF a \in Cell THEN m[a] ELSE 0

-----------------------------------------------------------------------------
(* Initialising a heap, and placing a block at p in poss free words.       *)

RegionInit(m) ==
  IF m[HeapBase] \in {Region.free, Region.used} THEN m
  ELSE LET n == HeapMax - HeapBase - 4
       IN [m EXCEPT ![HeapBase] = Region.free, ![HeapBase + 1] = n,
                    ![HeapMax - 1] = Region.free, ![HeapMax - 2] = n]

\* (The operators marked "slip" are mistakes that could be made in the
\* definition below them.  Nothing uses them; a run must notice each.)

\* slip: the tags are not taken off the length
ProcessInitWhole(m, base, size) ==
  IF m[base] \in {Process.free, Process.used} THEN m
  ELSE [m EXCEPT ![base] = Process.free, ![base + 1] = size,
                 ![base + size - 1] = Process.free, ![2 * size - 2] = size]
\* The length at the end goes to 2 * size - 2, not to base + size - 2.
ProcessInit(m, base, size) ==
  IF m[base] \in {Process.free, Process.used} THEN m
  ELSE [m EXCEPT ![base] = Process.free, ![base + 1] = size - 4,
                 ![base + size - 1] = Process.free, ![2 * size - 2] = size - 4]

\* slip: the block's end is where rmalloc() has it, over the last data word
PlaceOver(kind, m, p, size) ==
  LET e == p + 2 + size
      used == [m EXCEPT ![p] = kind.used, ![p + 1] = size, ![e] = kind.used, ![e - 1] = size]
      rest == m[p + 1] - size - 4
  IN IF size >= m[p + 1] THEN used
     ELSE [used EXCEPT ![e + 1] = kind.free, ![e + 2] = rest,
                       ![e + 3 + rest] = kind.free, ![e + 2 + rest] = rest]
Place(kind, m, p, size) ==
  LET poss == m[p + 1]
      e == p + kind.tail + size
      used == [m EXCEPT ![p] = kind.used, ![p + 1] = size, ![e] = kind.used, ![e - 1] = size]
      rest == poss - size - 4
      last == e + 1 + rest + kind.tail
  IN IF size >= poss THEN used
     ELSE [used EXCEPT ![e + 1] = kind.free, ![e + 2] = rest,
                       ![last] = kind.free, ![last - 1] = rest]

\* The first free block at or behind a, if there is one
FreeFrom(kind, a) == {f \in Cell : f >= a /\ mem[f] = kind.free}
First(S) == CHOOSE f \in S : \A g \in S : f <= g

-----------------------------------------------------------------------------
(* Freeing.  Each of the two merges is tried; then the data is cleared by  *)
(* memset(), which stops one word short.                                   *)

Memset(m, a, v, n) == [x \in Cell |-> IF x \in a .. a + n - 2 THEN v ELSE m[x]]

\* the start of the block before ind (free() takes no account of its longer
\* tail, and so looks one word behind it)
StartBefore(m, ind) == ind - 3 - Read(m, ind - 2)
JoinsBefore(kind, m, ind, low) ==
  ind > low /\ Read(m, ind - 1) = kind.free /\ Read(m, StartBefore(m, ind)) = kind.free
MergeBefore(m, ind, end) ==
  LET start == StartBefore(m, ind)
      size == m[ind + 1] + m[ind - 2] + 4
  IN [m EXCEPT ![ind - 1] = 0, ![ind] = 0, ![start + 1] = size, ![end - 1] = size]
\* slip: the next block is not asked whether it is free
MergeAfterUsed(kind, m, ind, end, high) ==
  LET next == end + 1
      last == next + Read(m, next + 1) + kind.tail
      size == m[end - 1] + Read(m, next + 1) + 4
  IN IF end < high - 1
     THEN [m EXCEPT ![last - 1] = size, ![ind + 1] = size] ELSE m
MergeAfter(kind, m, ind, end, high) ==
  LET next == end + 1
      last == next + Read(m, next + 1) + kind.tail
      size == m[end - 1] + Read(m, next + 1) + 4
  IN IF end < high - 1 /\ Read(m, next) = kind.free /\ Read(m, last) = kind.free
     THEN [m EXCEPT ![last - 1] = size, ![ind + 1] = size] ELSE m

\* rmfree() and free() of the block at base, in a heap from low to high
Release(kind, m, base, size, low, high) ==
  LET ind == base - 2
      end == ind + kind.tail + size
      opened == [m EXCEPT ![ind] = kind.free]
      closed == [opened EXCEPT ![end] = kind.free]
      joins == JoinsBefore(kind, closed, ind, low)
      before == IF joins THEN MergeBefore(closed, ind, end) ELSE closed
      start == IF joins THEN StartBefore(closed, ind) ELSE ind
      after == MergeAfter(kind, before, start, end, high)
  IN IF m[ind] # kind.used THEN m
     ELSE IF Read(opened, end - 1) # size \/ Read(opened, end) # kind.used THEN opened
     ELSE Memset(after, start + 2, 0, after[start + 1])

-----------------------------------------------------------------------------
(* The calls.                                                              *)

\* A process is created: its heap comes from rmalloc().
Rmalloc(p, size) ==
  /\ call = Idle /\ pcb[p] = {}
  /\ mem' = RegionInit(mem)
  /\ call' = [op |-> "rmalloc", proc |-> p, size |-> size, ind |-> HeapBase]
  /\ UNCHANGED <<held, pcb>>

Malloc(p, size) ==
  /\ call = Idle
  /\ \E r \in pcb[p] :
       /\ mem' = ProcessInit(mem, r.base, r.size)
       /\ call' = IF mem'[r.base + 2] + size > r.size THEN Idle      \* returns -1
                  ELSE [op |-> "malloc", proc |-> p, size |-> size, ind |-> r.base]
  /\ UNCHANGED <<held, pcb>>

\* slip: the tags count as room
TooSmallWithTags(f) == Read(mem, f + 1) + 4 < call.size
TooSmall(f) == Read(mem, f + 1) < call.size

\* One turn of "while (done = 0)".  It runs for ever when there is nothing
\* to find, and when what it finds is too small.
Search ==
  LET kind == IF call.op = "rmalloc" THEN Region ELSE Process
      found == FreeFrom(kind, call.ind)
      f == First(found)
      got == [owner |-> IF call.op = "rmalloc" THEN OS ELSE call.proc,
              base |-> f + 2, size |-> call.size]
  IN /\ call # Idle /\ found # {}
     /\ IF TooSmall(f)
        THEN call' = [call EXCEPT !.ind = f] /\ UNCHANGED <<mem, held, pcb>>
        ELSE /\ mem' = Place(kind, mem, f, call.size)
             /\ held' = held \cup {got}
             /\ pcb' = IF call.op = "rmalloc" THEN [pcb EXCEPT ![call.proc] = {got}] ELSE pcb
             /\ call' = Idle

\* A process ends: it holds nothing any more and its region is freed.
Rmfree(p) ==
  /\ call = Idle
  /\ \E r \in pcb[p] :
       /\ \A b \in held : b.owner # p
       /\ mem' = Release(Region, mem, r.base, r.size, HeapBase, HeapMax)
       /\ held' = held \ {r}
  /\ pcb' = [pcb EXCEPT ![p] = {}]
  /\ UNCHANGED call

Free(b) ==
  /\ call = Idle /\ b \in held
  /\ \E r \in pcb[b.owner] :
       mem' = Release(Process, mem, b.base, b.size, r.base, r.base + r.size)
  /\ held' = held \ {b}
  /\ UNCHANGED <<pcb, call>>

\* The program fills a block.
Fill(b, v) ==
  /\ call = Idle /\ b \in held
  /\ mem' = [x \in Cell |-> IF x \in b.base .. b.base + b.size - 1 THEN v ELSE mem[x]]
  /\ UNCHANGED <<held, pcb, call>>

Init == /\ mem = [x \in Cell |-> 0]
        /\ held = {} /\ pcb = [p \in Proc |-> {}] /\ call = Idle

Next == \/ \E p \in Proc : \/ \E n \in RegionSizes : Rmalloc(p, n)
                           \/ \E n \in Sizes : Malloc(p, n)
                           \/ Rmfree(p)
        \/ Search
        \/ \E b \in {x \in held : x.owner # OS} : Free(b) \/ \E v \in Data : Fill(b, v)

Spec == Init /\ [][Next]_vars

-----------------------------------------------------------------------------
(* Properties.                                                             *)

Words(b) == b.base .. b.base + b.size - 1
Blocks == {b \in held : b.owner # OS}
HeapOf(b) == UNION {Words(r) : r \in pcb[b.owner]}

\* What free() will ask of a block is true of every block a program holds:
\* freeing it with its own size succeeds (the error returns of free()).
Freeable ==
  \A b \in Blocks :
    LET end == b.base - 2 + Process.tail + b.size
    IN mem[b.base - 2] = Process.used /\ mem[end - 1] = b.size /\ mem[end] = Process.used

\* The data a program has put in a block changes only when that program
\* writes it: no call touches what somebody holds (Place, Release and Memset
\* write tags and zeros around and between the blocks).
Private ==
  [][\A b \in Blocks \cap held' :
       (\E x \in Words(b) : mem'[x] # mem[x]) => \E v \in Data : Fill(b, v)]_vars

\* No word belongs to two blocks.
Apart == \A b, d \in Blocks : b # d => Words(b) \cap Words(d) = {}

\* malloc() gives a process memory of its own heap.
InOwnHeap == \A b \in Blocks : Words(b) \subseteq HeapOf(b)
=============================================================================
