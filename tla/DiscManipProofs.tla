-------------------------- MODULE DiscManipProofs --------------------------
(***************************************************************************)
(* The list of mounted discs, for any number of discs and file numbers:    *)
(* the program and the operating system agree on what is open.             *)
(***************************************************************************)
EXTENDS DiscManip, SequenceTheorems, WellFoundedInduction, TLAPS

Entry == [name : Disc, num : Fd]

\* The entries are those of the open numbers, and no number has two; so that
\* DismountDisk(), which takes the first it finds, takes the only one.
ListInv ==
  /\ open \in [Fd -> Disc \cup {NoDisc}]
  /\ files \in Seq(Entry)
  /\ \A i \in 1 .. Len(files) : open[files[i].num] = files[i].name
  /\ \A i, j \in 1 .. Len(files) : files[i].num = files[j].num => i = j
  /\ \A n \in Fd : open[n] # NoDisc => \E i \in 1 .. Len(files) : files[i].num = n

-----------------------------------------------------------------------------
(* Operators.                                                              *)

\* open() gives the lowest number that is free
LEMMA MinIs ==
  ASSUME NEW S, S \subseteq Nat, S # {}
  PROVE  Min(S) \in S /\ \A y \in S : Min(S) <= y
<1>1. PICK x \in S : \A y \in S : <<y, x>> \notin OpToRel(<, Nat)
  BY NatLessThanWellFounded, WFMin
<1>2. ASSUME NEW y \in S PROVE x =< y
  <2>1. <<y, x>> \notin {p \in Nat \X Nat : p[1] < p[2]}
    BY <1>1 DEF OpToRel
  <2>2. <<y, x>> \in Nat \X Nat /\ <<y, x>>[1] = y /\ <<y, x>>[2] = x
    OBVIOUS
  <2>3. ~(y < x)
    BY <2>1, <2>2
  <2> QED
    BY <2>3
<1> QED
  BY <1>2 DEF Min

\* the list without one of its entries
LEMMA WithoutIs ==
  ASSUME NEW S, NEW s \in Seq(S), NEW i \in 1 .. Len(s)
  PROVE  /\ Without(s, i) \in Seq(S) /\ Len(Without(s, i)) = Len(s) - 1
         /\ \A j \in 1 .. Len(s) - 1 : Without(s, i)[j] = s[IF j < i THEN j ELSE j + 1]
<1> DEFINE n == Len(s)
           a == SubSeq(s, 1, i - 1)
           b == SubSeq(s, i + 1, n)
<1>1. n \in Nat /\ i \in Int /\ 1 <= i /\ i <= n /\ \A j \in 1 .. n : s[j] \in S
  BY LenProperties, ElementOfSeq
<1>2. /\ a \in Seq(S) /\ Len(a) = i - 1 /\ \A j \in 1 .. i - 1 : a[j] = s[j]
  <2>1. i - 1 \in Int /\ 1 \in Int /\ \A j \in 1 .. i - 1 : s[j] \in S
    BY <1>1
  <2>2. /\ a \in Seq(S) /\ Len(a) = IF 1 <= i - 1 THEN i - 1 - 1 + 1 ELSE 0
        /\ \A j \in 1 .. i - 1 - 1 + 1 : a[j] = s[1 + j - 1]
    BY <2>1, SubSeqProperties
  <2> HIDE DEF a
  <2> QED
    BY <1>1, <2>2
<1>3. /\ b \in Seq(S) /\ Len(b) = n - i /\ \A j \in 1 .. n - i : b[j] = s[i + j]
  <2>1. i + 1 \in Int /\ n \in Int /\ \A j \in i + 1 .. n : s[j] \in S
    BY <1>1
  <2>2. /\ b \in Seq(S) /\ Len(b) = IF i + 1 <= n THEN n - (i + 1) + 1 ELSE 0
        /\ \A j \in 1 .. n - (i + 1) + 1 : b[j] = s[i + 1 + j - 1]
    BY <2>1, SubSeqProperties
  <2> HIDE DEF b
  <2>3. \A j \in 1 .. n - i : j \in 1 .. n - (i + 1) + 1 /\ i + 1 + j - 1 = i + j
    BY <1>1
  <2> QED
    BY <1>1, <2>2, <2>3
<1> HIDE DEF a, b, n
<1>4. /\ a \o b \in Seq(S) /\ Len(a \o b) = n - 1
      /\ \A j \in 1 .. n - 1 : (a \o b)[j] = IF j <= i - 1 THEN a[j] ELSE b[j - (i - 1)]
  <2>1. Len(a) + Len(b) = n - 1
    BY <1>1, <1>2, <1>3
  <2> QED
    BY <1>2, <1>3, <2>1, ConcatProperties
<1>5. \A j \in 1 .. n - 1 : (a \o b)[j] = s[IF j < i THEN j ELSE j + 1]
  <2> SUFFICES ASSUME NEW j \in 1 .. n - 1 PROVE (a \o b)[j] = s[IF j < i THEN j ELSE j + 1]
    OBVIOUS
  <2>1. CASE j < i
    BY <1>1, <1>2, <1>4, <2>1
  <2>2. CASE ~(j < i)
    <3>1. j - (i - 1) \in 1 .. n - i /\ i + (j - (i - 1)) = j + 1 /\ ~(j <= i - 1)
      BY <1>1, <2>2
    <3> QED
      BY <1>3, <1>4, <2>2, <3>1
  <2> QED
    BY <2>1, <2>2
<1> QED
  BY <1>4, <1>5 DEF Without, a, b, n

-----------------------------------------------------------------------------
(* Mounting and dismounting.                                               *)

LEMMA EntriesAre ==
  ASSUME ListInv
  PROVE  /\ Len(files) \in Nat /\ DOMAIN files = 1 .. Len(files)
         /\ \A i \in 1 .. Len(files) : files[i] \in Entry /\ files[i].name # NoDisc /\ files[i].num \in Fd
<1>1. files \in Seq(Entry)
  BY DEF ListInv
<1>2. \A i \in 1 .. Len(files) : files[i] \in Entry
  BY <1>1, ElementOfSeq
<1>3. \A e \in Entry : e.name # NoDisc /\ e.num \in Fd
  BY DiscAssumption DEF Entry
<1> QED
  BY <1>1, <1>2, <1>3, LenProperties

LEMMA MountedIsListed == Mounted => ListInv
<1> SUFFICES ASSUME Mounted PROVE ListInv
  OBVIOUS
<1> DEFINE e == [name |-> First, num |-> Min(Fd)]
<1>1. Min(Fd) \in Fd /\ First \in Disc
  BY DiscAssumption, MinIs
<1>2. e \in Entry /\ files = <<e>> /\ e.num = Min(Fd) /\ e.name = First
  BY <1>1 DEF Mounted, Entry
<1>3. files \in Seq(Entry) /\ Len(files) = 1 /\ files[1] = e
  BY <1>2
<1>4. open = [n \in Fd |-> IF n = Min(Fd) THEN First ELSE NoDisc]
  BY DEF Mounted
<1> QED
  BY <1>1, <1>2, <1>3, <1>4 DEF ListInv

LEMMA MountKeepsList == ASSUME ListInv, NEW d \in Disc, MountDisk(d) PROVE ListInv'
<1> DEFINE free == {n \in Fd : open[n] = NoDisc}
           m == Min(free)
           e == [name |-> d, num |-> m]
<1>1. /\ m \in Fd /\ open[m] = NoDisc
      /\ open' = [open EXCEPT ![m] = d] /\ files' = Append(files, e)
  <2>1. free # {} /\ free \subseteq Nat
    BY DiscAssumption DEF MountDisk
  <2>2. m \in free
    BY <2>1, MinIs
  <2> QED
    BY <2>2 DEF MountDisk
<1> HIDE DEF free, m
<1>2. e \in Entry /\ e.num = m /\ e.name = d /\ d # NoDisc
  BY <1>1, DiscAssumption DEF Entry
<1> HIDE DEF e
<1> DEFINE n == Len(files)
<1>3. n \in Nat /\ \A i \in 1 .. n : files[i] \in Entry /\ files[i].name # NoDisc /\ files[i].num \in Fd
  BY EntriesAre
<1>4. /\ files' \in Seq(Entry) /\ Len(files') = n + 1
      /\ \A i \in 1 .. n : files'[i] = files[i]
      /\ files'[n + 1] = e
  BY <1>1, <1>2, AppendProperties DEF ListInv
<1> HIDE DEF n
<1>5. \A i \in 1 .. n : files[i].num # m
  BY <1>1, <1>3 DEF ListInv, n
<1>6. \A i \in 1 .. n + 1 : i \in 1 .. n \/ i = n + 1
  BY <1>3
<1>7. open' \in [Fd -> Disc \cup {NoDisc}]
  BY <1>1 DEF ListInv
<1>8. \A i \in 1 .. n + 1 : open'[files'[i].num] = files'[i].name
  BY <1>1, <1>2, <1>3, <1>4, <1>5, <1>6 DEF ListInv, n
<1>9. \A i, j \in 1 .. n + 1 : files'[i].num = files'[j].num => i = j
  BY <1>2, <1>4, <1>5, <1>6 DEF ListInv, n
<1>10. ASSUME NEW k \in Fd, open'[k] # NoDisc PROVE \E i \in 1 .. n + 1 : files'[i].num = k
  <2>1. CASE k = m
    BY <1>2, <1>3, <1>4, <2>1
  <2>2. CASE k # m
    <3>1. PICK i \in 1 .. n : files[i].num = k
      BY <1>1, <1>10, <2>2 DEF ListInv, n
    <3> QED
      BY <1>3, <1>4, <3>1
  <2> QED
    BY <2>1, <2>2
<1> QED
  BY <1>4, <1>7, <1>8, <1>9, <1>10 DEF ListInv

LEMMA DismountKeepsList == ASSUME ListInv, NEW k \in Fd, DismountDisk(k) PROVE ListInv'
<1> DEFINE n == Len(files)
<1>1. /\ n \in Nat /\ DOMAIN files = 1 .. n /\ files \in Seq(Entry)
      /\ \A i \in 1 .. n : files[i].num \in Fd
  BY EntriesAre DEF ListInv
<1>2. open' = [open EXCEPT ![k] = NoDisc] /\ open' \in [Fd -> Disc \cup {NoDisc}]
  BY DEF DismountDisk, ListInv
<1>3. WithNum(k) \subseteq 1 .. n /\ \A i \in 1 .. n : i \in WithNum(k) <=> files[i].num = k
  BY <1>1 DEF WithNum
<1>4. CASE WithNum(k) = {}
  <2>1. files' = files
    BY <1>4 DEF DismountDisk
  <2>2. \A i \in 1 .. n : files[i].num # k
    BY <1>3, <1>4
  <2> QED
    BY <1>1, <1>2, <2>1, <2>2 DEF ListInv
<1>5. CASE WithNum(k) # {}
  <2> DEFINE i == Min(WithNum(k))
             at(j) == IF j < i THEN j ELSE j + 1
  <2>1. i \in 1 .. n /\ files[i].num = k /\ files' = Without(files, i)
    <3>1. i \in WithNum(k)
      <4>1. WithNum(k) \subseteq Nat
        BY <1>1, <1>3
      <4> QED
        BY <1>5, <4>1, MinIs
    <3> QED
      BY <1>3, <1>5, <3>1 DEF DismountDisk
  <2> HIDE DEF i
  <2>2. /\ files' \in Seq(Entry) /\ Len(files') = n - 1
        /\ \A j \in 1 .. n - 1 : files'[j] = files[at(j)]
    BY <1>1, <2>1, WithoutIs
  <2>3. /\ \A j \in 1 .. n - 1 : at(j) \in 1 .. n /\ at(j) # i
        /\ \A j, l \in 1 .. n - 1 : at(j) = at(l) => j = l
        /\ \A l \in 1 .. n : l # i => \E j \in 1 .. n - 1 : at(j) = l
    <3>1. ASSUME NEW l \in 1 .. n, l # i PROVE \E j \in 1 .. n - 1 : at(j) = l
      <4>1. CASE l < i
        BY <1>1, <2>1, <4>1
      <4>2. CASE l > i
        <5>1. l - 1 \in 1 .. n - 1 /\ at(l - 1) = l
          BY <1>1, <2>1, <4>2
        <5> QED
          BY <5>1
      <4> QED
        BY <1>1, <2>1, <3>1, <4>1, <4>2
    <3>2. \A j \in 1 .. n - 1 : at(j) \in 1 .. n /\ at(j) # i
      BY <1>1, <2>1
    <3>3. \A j, l \in 1 .. n - 1 : at(j) = at(l) => j = l
      BY <1>1, <2>1
    <3> QED
      BY <3>1, <3>2, <3>3
  <2>4. \A l \in 1 .. n : files[l].num = k => l = i
    BY <2>1 DEF ListInv
  <2> HIDE DEF at, n
  <2>5. \A j \in 1 .. n - 1 : open'[files'[j].num] = files'[j].name
    BY <1>1, <1>2, <2>2, <2>3, <2>4 DEF ListInv, n
  <2>6. \A j, l \in 1 .. n - 1 : files'[j].num = files'[l].num => j = l
    <3> SUFFICES ASSUME NEW j \in 1 .. n - 1, NEW l \in 1 .. n - 1, files'[j].num = files'[l].num
                 PROVE  j = l
      OBVIOUS
    <3>1. at(j) \in 1 .. n /\ at(l) \in 1 .. n /\ files[at(j)].num = files[at(l)].num
      BY <2>2, <2>3
    <3>2. at(j) = at(l)
      BY <3>1 DEF ListInv, n
    <3> QED
      BY <2>3, <3>2
  <2>7. ASSUME NEW m \in Fd, open'[m] # NoDisc PROVE \E j \in 1 .. n - 1 : files'[j].num = m
    <3>1. m # k /\ open[m] # NoDisc
      BY <1>2, <2>7 DEF ListInv
    <3>2. PICK l \in 1 .. n : files[l].num = m
      BY <3>1 DEF ListInv, n
    <3>3. l # i
      BY <2>1, <3>1, <3>2
    <3>4. PICK j \in 1 .. n - 1 : at(j) = l
      BY <2>3, <3>3
    <3> QED
      BY <2>2, <3>2, <3>4
  <2> QED
    BY <1>2, <2>2, <2>5, <2>6, <2>7 DEF ListInv
<1> QED
  BY <1>4, <1>5

LEMMA CrashMounts == Crash => ListInv'
<1> SUFFICES ASSUME Crash PROVE ListInv'
  OBVIOUS
<1> DEFINE e == [name |-> First, num |-> Min(Fd)]
<1>1. Min(Fd) \in Fd /\ First \in Disc
  BY DiscAssumption, MinIs
<1>2. e \in Entry /\ files' = <<e>> /\ e.num = Min(Fd) /\ e.name = First
  BY <1>1 DEF Crash, Entry
<1>3. files' \in Seq(Entry) /\ Len(files') = 1 /\ files'[1] = e
  BY <1>2
<1>4. open' = [n \in Fd |-> IF n = Min(Fd) THEN First ELSE NoDisc]
  BY DEF Crash
<1> QED
  BY <1>1, <1>2, <1>3, <1>4 DEF ListInv

LEMMA NextKeepsList == ASSUME ListInv, [Next]_vars PROVE ListInv'
<1>1. CASE Crash
  BY <1>1, CrashMounts
<1>2. CASE UNCHANGED <<open, files>>
  BY <1>2 DEF ListInv
<1>3. CASE \/ \E d \in Disc : CreateDisk(d)
           \/ \E n \in Fd : UseDisk(n) \/ GetFreeCluster(n)
           \/ Back \/ FormatDiskFull \/ FinishFormat \/ CreateINode \/ FinishCreate
           \/ \E p, b, v : WriteFileBlock(p, b, v)
           \/ DepthSuffices \/ IncreaseDepth \/ MoveData \/ CapacitySuffices \/ AddCluster
           \/ Store \/ FinishWrite \/ UNCHANGED vars
  <2>1. UNCHANGED <<open, files>>
    BY <1>3 DEF CreateDisk, UseDisk, GetFreeCluster, Back, FormatDiskFull, FinishFormat, CreateINode,
                FinishCreate, WriteFileBlock, DepthSuffices, IncreaseDepth, MoveData, CapacitySuffices,
                AddCluster, Store, FinishWrite, Still, vars
  <2> QED
    BY <1>2, <2>1
<1> QED
  BY <1>1, <1>3, MountKeepsList, DismountKeepsList DEF Next

\* At every moment the list of mounted discs has one entry for each open file
\* number, with the name of the disc it is open on, and no other, however
\* often discs were mounted (one of them twice, perhaps), dismounted or the
\* program killed.
THEOREM ListIsOpen == Spec => []Listed
<1>1. Init => ListInv
  BY MountedIsListed DEF Init
<1>2. ListInv /\ [Next]_vars => ListInv'
  BY NextKeepsList
<1>3. ListInv => Listed
  <2> SUFFICES ASSUME ListInv PROVE Listed
    OBVIOUS
  <2>1. /\ DOMAIN files = 1 .. Len(files)
        /\ \A i \in 1 .. Len(files) : files[i].num \in Fd /\ files[i].name # NoDisc
    BY EntriesAre
  <2> QED
    BY <2>1 DEF ListInv, Listed
<1> QED
  BY <1>1, <1>2, <1>3, PTL DEF Spec
=============================================================================
