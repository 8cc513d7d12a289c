----------------------------- MODULE FileProofs -----------------------------
(***************************************************************************)
(* The files of the simple file system, for every disc and block size:     *)
(* each has its clusters to itself, wherever the program is killed.        *)
(***************************************************************************)
EXTENDS DiscManipProofs, FiniteSetTheorems

-----------------------------------------------------------------------------
(* What a disc holds.                                                      *)

Formatted(c) == c[superBlockLocation].kind = "super"
Marked(c) == {Position(c, k) : k \in UsedBits(c) \ {0}}

\* The clusters that lead to a file's blocks: what its inode points to and,
\* at depth 2, what these clusters point to.
Pointing(c, i) == {n \in UNION {ClusterOf(x) : x \in Pointers(i)} : c[n].kind = "ptr"}
Reach(c, i) == Pointers(i) \cup IF Depth(i) = 2 THEN {c[n].first : n \in Pointing(c, i)} ELSE {}
Owned(c, p) == {p} \cup Reach(c, getINode(c, p))
Taken(c, W) == UNION {Owned(c, p) : p \in W}

GoodINode(i) ==
  /\ i = [k \in 0 .. clusterSize - 1 |-> i[k]]
  /\ i[0] = Header(i[0].depth, i[0].currentCap, i[0].size)
  /\ i[0].depth \in 0 .. 2
  /\ i[0].size \in Nat /\ i[0].size <= getSize(i[0].depth)

\* the files at W: each has its clusters to itself, and they are marked
FilesApart(c, W) ==
  /\ \A p \in W : /\ GoodINode(getINode(c, p))
                  /\ Owned(c, p) \subseteq Marked(c)
                  /\ p \notin Reach(c, getINode(c, p))
  /\ \A p, q \in W : p # q => Owned(c, p) \cap Owned(c, q) = {}

\* what an inode of the file at p leads to, in memory, is marked and no
\* other file's
InHand(c, W, p, i) ==
  /\ p \in W /\ GoodINode(i)
  /\ Reach(c, i) \subseteq Marked(c) \ {p}
  /\ \A q \in W \ {p} : Reach(c, i) \cap Owned(c, q) = {}

\* the first blocks of a file, w what was last put into them
Agrees(i, w) ==
  \A b \in Blocks : IF bytesTotal(b) > i[0].size THEN w[b] = Zero ELSE Value(i[1 + b]) = w[b]
Contents(c, w) ==
  /\ w = [p \in DOMAIN w |-> w[p]]
  /\ \A p \in DOMAIN w : /\ w[p] = [b \in Blocks |-> w[p][b]]
                         /\ Depth(getINode(c, p)) = 0 => Agrees(getINode(c, p), w[p])

DiscGood(c, w) == Proper(c) /\ FilesApart(c, DOMAIN w) /\ Contents(c, w)
DiscInv ==
  /\ disc = [d \in Disc |-> disc[d]] /\ wrote = [d \in Disc |-> wrote[d]]
  /\ \A d \in Disc : DiscGood(disc[d], wrote[d])

-----------------------------------------------------------------------------
(* What an operation o has in hand, on a disc that holds c; w is what was  *)
(* written to its files.                                                   *)

Writing == {"depth", "move", "cap", "store", "done", "fail"}

\* formatting: the map is new and there is no file
FormatInv(o, c, w) ==
  o.pc = "format" =>
    /\ DOMAIN w = {} /\ c[1] = MapBlock({0})
    /\ \A k \in 2 .. SuperOf(Cardinality(DOMAIN c)).mapSize : c[k] = ZeroBlock

\* a cluster that is to become an inode is marked and no file's
CreateInv(o, c, w) == o.pc = "create" => o.pos \in Marked(c) \ Taken(c, DOMAIN w)

\* writing: the inode in memory is as above, and a cluster that is to be its
\* is marked and nobody's; the depth, once it is enough, is enough; and the
\* blocks in the inode are what was written, at last with what is being
WriteInv(o, c, w) ==
  o.pc \in Writing =>
    /\ o = [pc |-> o.pc, pos |-> o.pos, block |-> o.block, value |-> o.value,
            iNode |-> o.iNode, cluster |-> o.cluster]
    /\ o.block \in Blocks /\ InHand(c, DOMAIN w, o.pos, o.iNode)
    /\ o.pc = "move" => /\ o.cluster \in Marked(c) \ (Taken(c, DOMAIN w) \cup Reach(c, o.iNode))
                        /\ Depth(o.iNode) < 2
    /\ o.pc \in {"cap", "store", "done"} => bytesTotal(o.block) <= getSize(Depth(o.iNode))
    /\ Depth(o.iNode) = 0 =>
         Agrees(o.iNode, IF o.pc = "done" THEN [w[o.pos] EXCEPT ![o.block] = o.value] ELSE w[o.pos])

OpIs(o, c, w) == /\ o.pc \in {"format", "create"} \cup Writing
                 /\ FormatInv(o, c, w) /\ CreateInv(o, c, w) /\ WriteInv(o, c, w)
OpInv == op = Menu \/ (used \in Disc /\ OpIs(op, Current, wrote[used]))

FileInv == ListInv /\ num \in Fd /\ DiscInv /\ OpInv

-----------------------------------------------------------------------------
(* Sizes.                                                                  *)

LEMMA DivIs ==
  ASSUME NEW a \in Nat, NEW b \in Nat \ {0}
  PROVE  a \div b \in Nat /\ a % b \in 0 .. b - 1 /\ a = b * (a \div b) + (a % b)
OBVIOUS

\* i blocks and k bits
LEMMA DivOf ==
  ASSUME NEW i \in Nat, NEW b \in Nat \ {0}, NEW k \in 0 .. b - 1
  PROVE  (i * b + k) \div b = i /\ (i * b + k) % b = k
<1> DEFINE a == i * b + k
<1>1. a \in Nat
  OBVIOUS
<1> DEFINE q == a \div b
           r == a % b
<1>2. q \in Nat /\ r \in 0 .. b - 1 /\ a = b * q + r
  BY <1>1, DivIs
<1> HIDE DEF q, r
<1>3. b * (i - q) = r - k
  BY <1>2
<1> HIDE DEF a
<1>4. i - q < 1
  <2> SUFFICES ASSUME i - q >= 1 PROVE FALSE
    BY <1>2
  <2>1. b * (i - q) >= b * 1
    BY <1>2
  <2> QED
    BY <1>2, <1>3, <2>1
<1>5. q - i < 1
  <2> SUFFICES ASSUME q - i >= 1 PROVE FALSE
    BY <1>2
  <2>1. b * (q - i) >= b * 1
    BY <1>2
  <2>2. b * (q - i) = k - r
    BY <1>2, <1>3
  <2> QED
    BY <1>2, <2>1, <2>2
<1>6. q = i
  BY <1>2, <1>4, <1>5
<1>7. r = k
  BY <1>2, <1>3, <1>6
<1> QED
  BY <1>6, <1>7 DEF q, r, a

\* The bitmap of a disc with room for t clusters, and the clusters that are
\* on the disc: those whose bits are not more than "usable".
LEMMA SizesAre ==
  ASSUME NEW t \in Nat, t >= 2
  PROVE  LET len == mapBlocks(t)
             usable == t - CeilDiv(1 + len, clusterSize) - 1
         IN /\ len \in Nat /\ 1 <= len /\ len < t /\ usable \in Nat
            /\ \A k \in Nat : 1 + len + k * clusterSize + clusterSize <= t * clusterSize <=> k <= usable
<1> DEFINE b == 64 * BlockSize
           len == mapBlocks(t)
           usable == t - CeilDiv(1 + len, clusterSize) - 1
<1>1. b \in Nat /\ b >= 64
  BY BlockAssumption
<1>2. clusterByteSize * 8 = b
  BY BlockAssumption DEF clusterByteSize, clusterSize
<1> HIDE DEF b
<1>3. len = (t + b - 1) \div b
  BY <1>2 DEF mapBlocks, CeilDiv
<1>4. len \in Nat /\ (t + b - 1) % b \in 0 .. b - 1 /\ t + b - 1 = b * len + ((t + b - 1) % b)
  <2>1. t + b - 1 \in Nat /\ b \in Nat \ {0}
    BY <1>1
  <2> QED
    BY <1>3, <2>1, DivIs
<1> HIDE DEF len
<1>5. 1 <= len
  BY <1>1, <1>4
<1>6. 64 * (len - 1) <= t - 1
  <2>1. b * (len - 1) <= t - 1
    BY <1>1, <1>4
  <2>2. 64 * (len - 1) <= b * (len - 1)
    BY <1>1, <1>4, <1>5
  <2> QED
    BY <1>1, <1>4, <2>1, <2>2
<1>7. usable = t - (len + 8) \div 8 - 1
  BY <1>4 DEF CeilDiv, clusterSize
<1>8. len < t
  BY <1>4, <1>5, <1>6
<1>9. usable \in Nat
  BY <1>4, <1>5, <1>6, <1>7
<1>10. \A k \in Nat : 1 + len + k * 8 + 8 <= t * 8 <=> k <= usable
  BY <1>4, <1>7
<1> QED
  BY <1>4, <1>5, <1>8, <1>9, <1>10 DEF clusterSize, len

-----------------------------------------------------------------------------
(* The bitmap.                                                             *)

\* blocks, clusters, blocks of the bitmap and usable clusters
DiscSize(c) == Cardinality(DOMAIN c)
Total(c) == DiscSize(c) \div clusterSize
MapLen(c) == mapBlocks(Total(c))
Usable(c) == Total(c) - CeilDiv(1 + MapLen(c), clusterSize) - 1

LEMMA DiscIs ==
  ASSUME NEW c, Proper(c)
  PROVE  /\ DiscSize(c) \in Nat /\ DOMAIN c = 0 .. DiscSize(c) - 1
         /\ Total(c) \in Nat /\ Total(c) >= 2 /\ 8 * Total(c) <= DiscSize(c)
         /\ MapLen(c) \in Nat /\ 1 <= MapLen(c) /\ MapLen(c) < Total(c)
         /\ Usable(c) \in Nat
         /\ \A k \in Nat : 1 + MapLen(c) + k * 8 + 8 <= Total(c) * 8 <=> k <= Usable(c)
         /\ SuperOf(DiscSize(c)) = SuperBlock(MapLen(c), Total(c), Usable(c))
<1> DEFINE n == DiscSize(c)
<1>1. n \in Nat /\ n >= 16 /\ c = [k \in 0 .. n - 1 |-> c[k]]
  BY DEF Proper, DiscSize, clusterSize
<1>2. DOMAIN c = 0 .. n - 1
  BY <1>1
<1> HIDE DEF n
<1>3. Total(c) = n \div 8
  BY DEF Total, n, clusterSize
<1>4. Total(c) \in Nat /\ Total(c) >= 2 /\ 8 * Total(c) <= n
  BY <1>1, <1>3
<1>5. SuperOf(n) = SuperBlock(MapLen(c), Total(c), Usable(c))
  BY DEF SuperOf, n, Usable, MapLen, Total
<1> QED
  BY <1>1, <1>2, <1>4, <1>5, SizesAre DEF MapLen, Usable, n, clusterSize

\* what the superblock says of a disc that is formatted, and of one that is not
LEMMA SuperIs ==
  ASSUME NEW c, Proper(c)
  PROVE  /\ Formatted(c) => /\ Super(c) = SuperBlock(MapLen(c), Total(c), Usable(c))
                            /\ Super(c).clusterMap = 1 /\ Super(c).mapSize = MapLen(c)
                            /\ Super(c).total = Total(c) /\ Super(c).usable = Usable(c)
                            /\ \A k : Position(c, k) = 1 + MapLen(c) + k * 8
         /\ ~Formatted(c) => Super(c).mapSize = 0 /\ Super(c).total = 0
<1>1. CASE Formatted(c)
  <2>1. Super(c) = SuperBlock(MapLen(c), Total(c), Usable(c))
    BY <1>1, DiscIs DEF Proper, Formatted, Super, DiscSize
  <2>2. Super(c).clusterMap = 1 /\ Super(c).mapSize = MapLen(c) /\ Super(c).total = Total(c)
        /\ Super(c).usable = Usable(c)
    BY <2>1 DEF SuperBlock
  <2> QED
    BY <1>1, <2>1, <2>2 DEF Position, clusterSize
<1>2. CASE ~Formatted(c)
  BY <1>2 DEF Formatted, Super, SuperBlock
<1> QED
  BY <1>1, <1>2

\* which bits are 1
LEMMA BitIs ==
  ASSUME NEW c, Proper(c)
  PROVE  /\ ~Formatted(c) => UsedBits(c) = {}
         /\ Formatted(c) =>
              /\ UsedBits(c) \subseteq 0 .. MapLen(c) * bitsPerBlock - 1
              /\ \A i \in 0 .. MapLen(c) - 1 : \A k \in 0 .. bitsPerBlock - 1 :
                   i * bitsPerBlock + k \in UsedBits(c) <=> k \in Used(c[1 + i])
<1>1. ASSUME ~Formatted(c) PROVE UsedBits(c) = {}
  BY <1>1, SuperIs DEF UsedBits
<1>2. ASSUME Formatted(c)
      PROVE  /\ UsedBits(c) \subseteq 0 .. MapLen(c) * bitsPerBlock - 1
             /\ \A i \in 0 .. MapLen(c) - 1 : \A k \in 0 .. bitsPerBlock - 1 :
                  i * bitsPerBlock + k \in UsedBits(c) <=> k \in Used(c[1 + i])
  <2> DEFINE len == MapLen(c)
             b == bitsPerBlock
  <2>1. len \in Nat /\ b \in Nat \ {0}
    BY DiscIs, BlockAssumption DEF bitsPerBlock
  <2>2. UsedBits(c) = UNION {{i * b + k : k \in Used(c[1 + i])} : i \in 0 .. len - 1}
    BY <1>2, SuperIs DEF UsedBits
  <2>3. \A i \in 0 .. len - 1 : Used(c[1 + i]) \subseteq 0 .. b - 1
    <3>1. SuperOf(DiscSize(c)).mapSize = len
      BY DiscIs DEF SuperBlock
    <3>2. \A k \in 1 .. len : Used(c[k]) \subseteq 0 .. b - 1
      BY <1>2, <3>1 DEF Proper, Formatted, DiscSize
    <3> QED
      BY <2>1, <3>2
  <2> HIDE DEF len, b
  <2>4. \A i \in 0 .. len - 1 : \A k \in 0 .. b - 1 : i * b + k \in 0 .. len * b - 1
    <3> SUFFICES ASSUME NEW i \in 0 .. len - 1, NEW k \in 0 .. b - 1
                 PROVE  i * b + k \in 0 .. len * b - 1
      OBVIOUS
    <3>1. (len - 1 - i) * b >= 0 /\ i * b >= 0
      BY <2>1
    <3>2. (len - 1 - i) * b = len * b - b - i * b
      BY <2>1
    <3>3. i * b \in Int /\ len * b \in Int
      BY <2>1
    <3> QED
      BY <2>1, <3>1, <3>2, <3>3
  <2>5. \A x \in UsedBits(c) : \E i \in 0 .. len - 1 : \E k \in Used(c[1 + i]) : x = i * b + k
    BY <2>2
  <2>6. UsedBits(c) \subseteq 0 .. len * b - 1
    BY <2>3, <2>4, <2>5
  <2>7. ASSUME NEW i \in 0 .. len - 1, NEW k \in 0 .. b - 1, i * b + k \in UsedBits(c)
        PROVE  k \in Used(c[1 + i])
    <3>1. PICK j \in 0 .. len - 1 : \E l \in Used(c[1 + j]) : i * b + k = j * b + l
      BY <2>5, <2>7
    <3>2. PICK l \in Used(c[1 + j]) : i * b + k = j * b + l
      BY <3>1
    <3>3. i \in Nat /\ j \in Nat /\ l \in 0 .. b - 1
      BY <2>1, <2>3
    <3>4. /\ (i * b + k) \div b = i /\ (i * b + k) % b = k
          /\ (j * b + l) \div b = j /\ (j * b + l) % b = l
      BY <2>1, <3>3, DivOf
    <3>5. i = j /\ k = l
      BY <3>2, <3>4
    <3> QED
      BY <3>5
  <2>8. \A i \in 0 .. len - 1 : \A k \in Used(c[1 + i]) : i * b + k \in UsedBits(c)
    BY <2>2
  <2> QED
    BY <2>6, <2>7, <2>8 DEF len, b
<1> QED
  BY <1>1, <1>2

\* The clusters that are marked are on the disc, behind the bitmap and the
\* root directory's, and do not overlap.
LEMMA MarkedIs ==
  ASSUME NEW c, Proper(c)
  PROVE  /\ Marked(c) # {} => Formatted(c)
         /\ \A x \in Marked(c) :
              /\ x \in Nat /\ x >= 9 + MapLen(c) /\ ClusterOf(x) = x .. x + 7
              /\ x + 8 <= DiscSize(c) /\ ClusterOf(x) \subseteq DOMAIN c
              /\ \E k \in UsedBits(c) \ {0} : x = 1 + MapLen(c) + k * 8
         /\ \A x, y \in Marked(c) : x # y => ClusterOf(x) \cap ClusterOf(y) = {}
<1>1. Marked(c) # {} => Formatted(c)
  BY BitIs DEF Marked
<1>2. ASSUME NEW x \in Marked(c)
      PROVE  /\ x \in Nat /\ x >= 9 + MapLen(c) /\ ClusterOf(x) = x .. x + 7
             /\ x + 8 <= DiscSize(c) /\ ClusterOf(x) \subseteq DOMAIN c
             /\ \E k \in UsedBits(c) \ {0} : x = 1 + MapLen(c) + k * 8
  <2>1. Formatted(c)
    BY <1>1, <1>2
  <2>2. PICK k \in UsedBits(c) \ {0} : x = 1 + MapLen(c) + k * 8
    BY <2>1, SuperIs DEF Marked
  <2>3. k \in Nat \ {0}
    <3>1. k \in 0 .. MapLen(c) * bitsPerBlock - 1
      BY <2>1, BitIs
    <3> QED
      BY <3>1
  <2>4. x + 8 <= Total(c) * 8
    <3>1. Position(c, k) + clusterSize <= SuperOf(DiscSize(c)).total * clusterSize
      BY <2>1, <2>2 DEF Proper, Formatted, DiscSize
    <3>2. SuperOf(DiscSize(c)).total = Total(c)
      BY DiscIs DEF SuperBlock
    <3> QED
      BY <2>1, <2>2, <3>1, <3>2, SuperIs DEF clusterSize
  <2>5. /\ MapLen(c) \in Nat /\ Total(c) \in Nat /\ DiscSize(c) \in Nat
        /\ 8 * Total(c) <= DiscSize(c) /\ DOMAIN c = 0 .. DiscSize(c) - 1
    BY DiscIs
  <2>6. x \in Nat /\ x >= 9 + MapLen(c) /\ x + 8 <= DiscSize(c)
    BY <2>2, <2>3, <2>4, <2>5
  <2>7. ClusterOf(x) = x .. x + 7
    BY <2>6 DEF ClusterOf, clusterSize
  <2> QED
    BY <2>2, <2>5, <2>6, <2>7
<1>3. ASSUME NEW x \in Marked(c), NEW y \in Marked(c), x # y
      PROVE  ClusterOf(x) \cap ClusterOf(y) = {}
  <2>1. PICK k \in UsedBits(c) : x = 1 + MapLen(c) + k * 8
    BY <1>2
  <2>2. PICK l \in UsedBits(c) : y = 1 + MapLen(c) + l * 8
    BY <1>2
  <2>3. k \in Int /\ l \in Int
    BY <1>1, <1>3, BitIs
  <2>4. MapLen(c) \in Nat
    BY DiscIs
  <2>5. ClusterOf(x) = x .. x + 7 /\ ClusterOf(y) = y .. y + 7
    BY <1>2
  <2> QED
    BY <1>3, <2>1, <2>2, <2>3, <2>4, <2>5
<1> QED
  BY <1>1, <1>2, <1>3

\* Two contents of a disc with the same superblock and bitmap
LEMMA SameMap ==
  ASSUME NEW c, Proper(c), NEW e, e = [n \in DOMAIN c |-> e[n]],
         \A n \in 0 .. MapLen(c) : e[n] = c[n],
         \A n \in 0 .. 7 : e[n] = c[n] \/ e[n].kind # "ptr"
  PROVE  /\ Proper(e) /\ DOMAIN e = DOMAIN c /\ Super(e) = Super(c)
         /\ UsedBits(e) = UsedBits(c) /\ Marked(e) = Marked(c)
<1>1. DOMAIN e = DOMAIN c
  OBVIOUS
<1>2. MapLen(c) \in Nat /\ MapLen(c) >= 1
  BY DiscIs
<1>3. e[0] = c[0]
  BY <1>2
<1>4. Super(e) = Super(c)
  BY <1>3 DEF Super, superBlockLocation
<1>5. \A k : Position(e, k) = Position(c, k)
  BY <1>4 DEF Position
<1>6. UsedBits(e) = UsedBits(c)
  <2>1. CASE Formatted(c)
    <3>1. \A i \in 0 .. MapLen(c) - 1 : e[1 + i] = c[1 + i]
      BY <1>2
    <3>2. Super(c).clusterMap = 1 /\ Super(c).mapSize = MapLen(c)
      BY <2>1, SuperIs
    <3>3. UsedBits(c) = UNION {{i * bitsPerBlock + k : k \in Used(c[1 + i])} : i \in 0 .. MapLen(c) - 1}
      BY <3>2 DEF UsedBits
    <3>4. UsedBits(e) = UNION {{i * bitsPerBlock + k : k \in Used(e[1 + i])} : i \in 0 .. MapLen(c) - 1}
      BY <1>4, <3>2 DEF UsedBits
    <3> QED
      BY <3>1, <3>3, <3>4
  <2>2. CASE ~Formatted(c)
    <3>1. Super(c).mapSize = 0
      BY <2>2, SuperIs
    <3> QED
      BY <1>4, <3>1 DEF UsedBits
  <2> QED
    BY <2>1, <2>2
<1>7. Marked(e) = Marked(c)
  BY <1>5, <1>6 DEF Marked
<1>8. Proper(e)
  <2>1. DiscSize(e) = DiscSize(c)
    BY <1>1 DEF DiscSize
  <2>2. DiscSize(e) \in Nat /\ DiscSize(e) >= 2 * clusterSize
    BY <2>1 DEF Proper, DiscSize
  <2>3. e = [k \in 0 .. DiscSize(e) - 1 |-> e[k]]
    BY <2>1, DiscIs
  <2>4. \A k \in 0 .. clusterSize - 1 : e[k].kind # "ptr"
    BY DEF Proper, clusterSize
  <2>5. ASSUME Formatted(e)
        PROVE  /\ e[0] = SuperOf(DiscSize(e))
               /\ 0 \in UsedBits(e)
               /\ \A k \in 1 .. SuperOf(DiscSize(e)).mapSize : Used(e[k]) \subseteq 0 .. bitsPerBlock - 1
               /\ \A k \in UsedBits(e) : Position(e, k) + clusterSize <= SuperOf(DiscSize(e)).total * clusterSize
    <3>1. Formatted(c)
      BY <1>3, <2>5 DEF Formatted, superBlockLocation
    <3>2. SuperOf(DiscSize(c)).mapSize = MapLen(c)
      BY DiscIs DEF SuperBlock
    <3>3. /\ c[0] = SuperOf(DiscSize(c))
          /\ 0 \in UsedBits(c)
          /\ \A k \in 1 .. MapLen(c) : Used(c[k]) \subseteq 0 .. bitsPerBlock - 1
          /\ \A k \in UsedBits(c) : Position(c, k) + clusterSize <= SuperOf(DiscSize(c)).total * clusterSize
      BY <3>1, <3>2 DEF Proper, Formatted, DiscSize, superBlockLocation
    <3>4. \A k \in 1 .. MapLen(c) : e[k] = c[k]
      BY <1>2
    <3> QED
      BY <1>3, <1>5, <1>6, <2>1, <3>2, <3>3, <3>4
  <2> QED
    BY <2>2, <2>3, <2>4, <2>5 DEF Proper, DiscSize, Formatted, superBlockLocation
<1> QED
  BY <1>1, <1>4, <1>6, <1>7, <1>8

\* Whatever is written into marked clusters, superblock and bitmap stay.
LEMMA InsideKeeps ==
  ASSUME NEW c, Proper(c), NEW e, e = [n \in DOMAIN c |-> e[n]],
         \A n \in DOMAIN c : e[n] = c[n] \/ \E x \in Marked(c) : n \in ClusterOf(x)
  PROVE  /\ Proper(e) /\ DOMAIN e = DOMAIN c /\ Super(e) = Super(c)
         /\ UsedBits(e) = UsedBits(c) /\ Marked(e) = Marked(c)
<1>1. /\ MapLen(c) \in Nat /\ DiscSize(c) \in Nat /\ DOMAIN c = 0 .. DiscSize(c) - 1
      /\ MapLen(c) < Total(c) /\ 8 * Total(c) <= DiscSize(c) /\ Total(c) \in Nat /\ Total(c) >= 2
  BY DiscIs
<1>2. \A x \in Marked(c) : x \in Nat /\ x >= 9 + MapLen(c) /\ ClusterOf(x) = x .. x + 7
  BY MarkedIs
<1>3. ASSUME NEW n \in Nat, n <= MapLen(c) \/ n <= 7 PROVE e[n] = c[n]
  <2>1. n \in DOMAIN c
    BY <1>1, <1>3
  <2>2. \A x \in Marked(c) : n \notin ClusterOf(x)
    BY <1>1, <1>2, <1>3
  <2> QED
    BY <2>1, <2>2
<1>4. \A n \in 0 .. MapLen(c) : n \in Nat /\ n <= MapLen(c)
  BY <1>1
<1>5. \A n \in 0 .. 7 : n \in Nat /\ n <= 7
  OBVIOUS
<1>6. (\A n \in 0 .. MapLen(c) : e[n] = c[n]) /\ \A n \in 0 .. 7 : e[n] = c[n]
  BY <1>3, <1>4, <1>5
<1> QED
  BY <1>6, SameMap

-----------------------------------------------------------------------------
(* Getting a cluster.                                                      *)

\* the bit that getFreeCluster() finds
FreeBit(c) == Min((0 .. Super(c).mapSize * bitsPerBlock - 1) \ UsedBits(c))

LEMMA FreeIs ==
  ASSUME NEW c, Proper(c), FreeCluster(c) # 0
  PROVE  /\ Formatted(c)
         /\ FreeBit(c) \in Nat \ {0} /\ FreeBit(c) \notin UsedBits(c)
         /\ FreeBit(c) <= MapLen(c) * bitsPerBlock - 1
         /\ FreeCluster(c) = 1 + MapLen(c) + FreeBit(c) * 8
         /\ FreeCluster(c) + 8 <= Total(c) * 8
<1> DEFINE free == (0 .. Super(c).mapSize * bitsPerBlock - 1) \ UsedBits(c)
<1>1. Super(c).mapSize \in Nat /\ bitsPerBlock \in Nat \ {0}
  <2>1. Super(c).mapSize \in {0, MapLen(c)}
    BY SuperIs
  <2>2. MapLen(c) \in Nat
    BY DiscIs
  <2>3. Super(c).mapSize \in Nat
    BY <2>1, <2>2
  <2> QED
    BY <2>3, BlockAssumption DEF bitsPerBlock
<1>2. free # {} /\ FreeCluster(c) = Position(c, Min(free))
      /\ ~(Position(c, Min(free)) + clusterSize > Super(c).total * clusterSize)
  BY DEF FreeCluster
<1>3. free \subseteq Nat
  <2>1. Super(c).mapSize * bitsPerBlock - 1 \in Int
    BY <1>1
  <2> QED
    BY <2>1
<1>4. Min(free) \in free
  BY <1>2, <1>3, MinIs
<1>5. Formatted(c)
  <2> SUFFICES ASSUME ~Formatted(c) PROVE FALSE
    OBVIOUS
  <2>1. Super(c).mapSize = 0
    BY SuperIs
  <2>2. free = {}
    BY <1>1, <2>1
  <2> QED
    BY <1>2, <2>2
<1>6. FreeBit(c) = Min(free)
  BY DEF FreeBit
<1> HIDE DEF free
<1>7. FreeBit(c) \in 0 .. MapLen(c) * bitsPerBlock - 1 /\ FreeBit(c) \notin UsedBits(c)
  BY <1>4, <1>5, <1>6, SuperIs DEF free
<1>8. MapLen(c) * bitsPerBlock - 1 \in Int
  BY <1>1, DiscIs
<1>9. 0 \in UsedBits(c)
  BY <1>5 DEF Proper, Formatted
<1>10. FreeCluster(c) = 1 + MapLen(c) + FreeBit(c) * 8
  BY <1>2, <1>5, <1>6, SuperIs
<1>11. FreeCluster(c) + 8 <= Total(c) * 8
  <2>1. ~(FreeCluster(c) + 8 > Total(c) * 8)
    BY <1>2, <1>5, SuperIs DEF clusterSize
  <2>2. FreeCluster(c) \in Int /\ Total(c) \in Int
    BY <1>7, <1>8, <1>10, DiscIs
  <2> QED
    BY <2>1, <2>2
<1> QED
  BY <1>5, <1>7, <1>8, <1>9, <1>10, <1>11

\* The cluster becomes marked and is zeros; it was not marked before, and what
\* is in the others stays.
LEMMA TakeIs ==
  ASSUME NEW c, Proper(c), FreeCluster(c) # 0
  PROVE  LET p == FreeCluster(c)
             e == Take(c, p)
         IN /\ Proper(e) /\ DOMAIN e = DOMAIN c /\ Super(e) = Super(c)
            /\ UsedBits(e) = UsedBits(c) \cup {FreeBit(c)}
            /\ p \notin Marked(c) /\ Marked(e) = Marked(c) \cup {p}
            /\ \A x \in Marked(c) : \A n \in ClusterOf(x) : e[n] = c[n]
            /\ \A n \in ClusterOf(p) : e[n] = ZeroBlock
            /\ \A n \in DOMAIN c : e[n] = c[n] \/ e[n].kind # "ptr"
            /\ e[0] = c[0]
<1> DEFINE p == FreeCluster(c)
           bit == FreeBit(c)
           b == bitsPerBlock
           len == MapLen(c)
           m == 1 + (bit \div b)
           r == bit % b
           e == Take(c, p)
<1>1. /\ Formatted(c) /\ bit \in Nat \ {0} /\ bit \notin UsedBits(c) /\ bit <= len * b - 1
      /\ p = 1 + len + bit * 8 /\ p + 8 <= Total(c) * 8
  BY FreeIs
<1>2. /\ len \in Nat /\ 1 <= len /\ len < Total(c) /\ Total(c) \in Nat /\ 8 * Total(c) <= DiscSize(c)
      /\ DiscSize(c) \in Nat /\ DOMAIN c = 0 .. DiscSize(c) - 1
  BY DiscIs
<1>3. b \in Nat \ {0}
  BY BlockAssumption DEF bitsPerBlock
<1> HIDE DEF p, bit, b, len
<1>4. (p - 1 - len) \div 8 = bit
  <2>1. p - 1 - len = bit * 8
    BY <1>1, <1>2
  <2> QED
    BY <1>1, <2>1
<1>5. r \in 0 .. b - 1 /\ bit \div b \in Nat /\ bit = (bit \div b) * b + r
  <2>1. bit \in Nat
    BY <1>1
  <2>2. bit \div b \in Nat /\ r \in 0 .. b - 1 /\ bit = b * (bit \div b) + r
    BY <1>3, <2>1, DivIs
  <2>3. b * (bit \div b) = (bit \div b) * b
    BY <1>3, <2>2
  <2> QED
    BY <2>2, <2>3
<1>6. m \in 1 .. len
  <2> DEFINE q == bit \div b
  <2>1. q \in Nat /\ q * b <= len * b - 1
    <3>1. q * b \in Nat
      BY <1>3, <1>5
    <3>2. bit = q * b + r
      BY <1>5
    <3> HIDE DEF q, r
    <3>3. q \in Nat /\ r \in 0 .. b - 1 /\ len * b \in Nat
      BY <1>2, <1>3, <1>5 DEF q, r
    <3> QED
      BY <1>1, <1>3, <3>1, <3>2, <3>3
  <2> HIDE DEF q
  <2>2. q < len
    <3> SUFFICES ASSUME q >= len PROVE FALSE
      BY <1>2, <2>1
    <3>1. q * b >= len * b
      BY <1>2, <1>3, <2>1
    <3>2. q * b \in Int /\ len * b \in Int
      BY <1>2, <1>3, <2>1
    <3> QED
      BY <2>1, <3>1, <3>2
  <2> QED
    BY <1>2, <2>1, <2>2 DEF q
<1>7. ClusterOf(p) = p .. p + 7 /\ p \in Nat /\ p >= 9 + len
  BY <1>1, <1>2 DEF ClusterOf, clusterSize
<1>8. e = [n \in DOMAIN c |-> IF n \in p .. p + 7 THEN ZeroBlock
                             ELSE IF n = m THEN MapBlock(Used(c[m]) \cup {r}) ELSE c[n]]
  <2>1. Super(c).clusterMap = 1 /\ Super(c).mapSize = len
    BY <1>1, SuperIs DEF len
  <2> QED
    BY <1>4, <1>7, <2>1 DEF Take, clusterSize, b
<1> HIDE DEF e, r, m
<1>9. DOMAIN e = DOMAIN c /\ e = [n \in DOMAIN c |-> e[n]]
  BY <1>8
<1>10. /\ m \in DOMAIN c /\ m \notin p .. p + 7 /\ 0 \in DOMAIN c
       /\ \A n \in 0 .. len : n \in DOMAIN c /\ n \notin p .. p + 7
       /\ \A n \in p .. p + 7 : n \in DOMAIN c
       /\ \A n \in 0 .. 7 : n \in DOMAIN c /\ n \notin p .. p + 7
  BY <1>1, <1>2, <1>6, <1>7
<1>11. /\ e[m] = MapBlock(Used(c[m]) \cup {r})
       /\ \A n \in 0 .. len : n # m => e[n] = c[n]
       /\ \A n \in 0 .. 7 : n # m => e[n] = c[n]
       /\ \A n \in p .. p + 7 : e[n] = ZeroBlock
       /\ e[0] = c[0]
  BY <1>6, <1>8, <1>10
<1>12. Super(e) = Super(c) /\ \A k : Position(e, k) = Position(c, k)
  BY <1>11 DEF Super, Position, superBlockLocation
<1>13. Super(c).clusterMap = 1 /\ Super(c).mapSize = len /\ \A k : Position(c, k) = 1 + len + k * 8
  BY <1>1, SuperIs DEF len
<1>14. Used(e[m]) = Used(c[m]) \cup {r}
  BY <1>11 DEF Used, MapBlock
<1>15. UsedBits(e) = UsedBits(c) \cup {bit}
  <2>1. UsedBits(c) = UNION {{i * b + k : k \in Used(c[1 + i])} : i \in 0 .. len - 1}
    BY <1>13 DEF UsedBits, b
  <2>2. UsedBits(e) = UNION {{i * b + k : k \in Used(e[1 + i])} : i \in 0 .. len - 1}
    BY <1>12, <1>13 DEF UsedBits, b
  <2>3. \A i \in 0 .. len - 1 : i # m - 1 => e[1 + i] = c[1 + i]
    <3> SUFFICES ASSUME NEW i \in 0 .. len - 1, i # m - 1 PROVE e[1 + i] = c[1 + i]
      OBVIOUS
    <3>1. 1 + i \in 0 .. len /\ 1 + i # m
      BY <1>2, <1>6
    <3> QED
      BY <1>11, <3>1
  <2>4. m - 1 \in 0 .. len - 1 /\ 1 + (m - 1) = m /\ bit = (m - 1) * b + r
    <3>1. m - 1 = bit \div b
      BY <1>5 DEF m
    <3> QED
      BY <1>2, <1>5, <1>6, <3>1
  <2>5. ASSUME NEW x \in UsedBits(e) PROVE x \in UsedBits(c) \cup {bit}
    <3>1. PICK i \in 0 .. len - 1 : \E k \in Used(e[1 + i]) : x = i * b + k
      BY <2>2
    <3>2. CASE i = m - 1
      BY <1>14, <2>1, <2>4, <3>1, <3>2
    <3>3. CASE i # m - 1
      BY <2>1, <2>3, <3>1, <3>3
    <3> QED
      BY <3>2, <3>3
  <2>6. ASSUME NEW x \in UsedBits(c) PROVE x \in UsedBits(e)
    <3>1. PICK i \in 0 .. len - 1 : \E k \in Used(c[1 + i]) : x = i * b + k
      BY <2>1
    <3>2. Used(c[1 + i]) \subseteq Used(e[1 + i])
      BY <1>14, <2>3, <2>4
    <3> QED
      BY <2>2, <3>1, <3>2
  <2>7. bit \in UsedBits(e)
    BY <1>14, <2>2, <2>4
  <2> QED
    BY <2>5, <2>6, <2>7
<1>16. p \notin Marked(c)
  <2>1. \A k \in UsedBits(c) : k \in Int
    BY <1>1, BitIs
  <2>2. \A k \in UsedBits(c) : 1 + len + k * 8 # p
    BY <1>1, <1>2, <2>1
  <2> QED
    BY <1>13, <2>2 DEF Marked
<1>17. Marked(e) = Marked(c) \cup {p}
  <2>1. Position(c, bit) = p
    BY <1>1, <1>13
  <2>2. bit # 0
    BY <1>1
  <2> QED
    BY <1>12, <1>15, <2>1, <2>2 DEF Marked
<1>18. \A n \in DOMAIN c : e[n] = c[n] \/ e[n].kind # "ptr"
  BY <1>8 DEF ZeroBlock, MapBlock
<1>19. \A x \in Marked(c) : \A n \in ClusterOf(x) : e[n] = c[n]
  <2> SUFFICES ASSUME NEW x \in Marked(c), NEW n \in ClusterOf(x) PROVE e[n] = c[n]
    OBVIOUS
  <2>1. PICK k \in UsedBits(c) : x = 1 + len + k * 8
    BY MarkedIs DEF len
  <2>2. k \in Int /\ k # bit
    BY <1>1, BitIs
  <2>3. x \in Nat /\ x >= 9 + len /\ n \in x .. x + 7 /\ n \in DOMAIN c
    BY MarkedIs DEF len
  <2>4. n \notin p .. p + 7 /\ n # m
    BY <1>1, <1>2, <1>6, <2>1, <2>2, <2>3
  <2> QED
    BY <1>8, <2>3, <2>4
<1>20. Proper(e)
  <2>1. DiscSize(e) = DiscSize(c)
    BY <1>9 DEF DiscSize
  <2>2. DiscSize(e) \in Nat /\ DiscSize(e) >= 2 * clusterSize
    BY <2>1 DEF Proper, DiscSize
  <2>3. e = [k \in 0 .. DiscSize(e) - 1 |-> e[k]]
    BY <1>2, <1>9, <2>1
  <2>4. \A k \in 0 .. clusterSize - 1 : e[k].kind # "ptr"
    <3>1. \A k \in 0 .. 7 : c[k].kind # "ptr"
      BY DEF Proper, clusterSize
    <3>2. \A k \in 0 .. 7 : e[k].kind # "ptr"
      BY <1>10, <1>18, <3>1
    <3> QED
      BY <3>2 DEF clusterSize
  <2>5. SuperOf(DiscSize(c)).mapSize = len /\ SuperOf(DiscSize(c)).total = Total(c)
    <3>1. SuperOf(DiscSize(c)) = SuperBlock(MapLen(c), Total(c), Usable(c))
      BY DiscIs
    <3>2. SuperOf(DiscSize(c)).mapSize = MapLen(c) /\ SuperOf(DiscSize(c)).total = Total(c)
      BY <3>1 DEF SuperBlock
    <3> QED
      BY <3>2 DEF len
  <2>6. /\ c[0] = SuperOf(DiscSize(c))
        /\ 0 \in UsedBits(c)
        /\ \A k \in 1 .. len : Used(c[k]) \subseteq 0 .. b - 1
        /\ \A k \in UsedBits(c) : Position(c, k) + clusterSize <= Total(c) * clusterSize
    BY <1>1, <2>5 DEF Proper, Formatted, DiscSize, superBlockLocation, b
  <2>7. \A k \in 1 .. len : Used(e[k]) \subseteq 0 .. b - 1
    <3> SUFFICES ASSUME NEW k \in 1 .. len PROVE Used(e[k]) \subseteq 0 .. b - 1
      OBVIOUS
    <3>1. CASE k = m
      BY <1>5, <1>14, <2>6, <3>1
    <3>2. CASE k # m
      BY <1>11, <2>6, <3>2
    <3> QED
      BY <3>1, <3>2
  <2>8. \A k \in UsedBits(e) : Position(e, k) + clusterSize <= Total(c) * clusterSize
    <3>1. Position(e, bit) + clusterSize <= Total(c) * clusterSize
      BY <1>1, <1>12, <1>13 DEF clusterSize
    <3> QED
      BY <1>12, <1>15, <2>6, <3>1
  <2>9. 0 \in UsedBits(e) /\ e[0] = SuperOf(DiscSize(e))
    BY <1>11, <1>15, <2>1, <2>6
  <2> QED
    BY <2>1, <2>2, <2>3, <2>4, <2>5, <2>7, <2>8, <2>9 DEF Proper, DiscSize, b, superBlockLocation
<1> QED
  BY <1>7, <1>9, <1>11, <1>12, <1>15, <1>16, <1>17, <1>18, <1>19, <1>20 DEF p, e, bit

-----------------------------------------------------------------------------
(* Inodes and what they lead to.                                           *)

LEMMA ReachSame ==
  ASSUME NEW c, NEW e, NEW i, \A x \in Pointers(i) : \A n \in ClusterOf(x) : e[n] = c[n]
  PROVE  Reach(e, i) = Reach(c, i)
<1>1. \A n \in UNION {ClusterOf(x) : x \in Pointers(i)} : e[n] = c[n]
  OBVIOUS
<1>2. Pointing(e, i) = Pointing(c, i)
  BY <1>1 DEF Pointing
<1>3. {e[n].first : n \in Pointing(e, i)} = {c[n].first : n \in Pointing(c, i)}
  BY <1>1, <1>2 DEF Pointing
<1> QED
  BY <1>3 DEF Reach

\* what is overwritten with data or zeros leads nowhere
LEMMA ReachShrinks ==
  ASSUME NEW c, NEW e, NEW i,
         \A x \in Pointers(i) : \A n \in ClusterOf(x) : e[n] = c[n] \/ e[n].kind # "ptr"
  PROVE  Reach(e, i) \subseteq Reach(c, i)
<1>1. \A n \in UNION {ClusterOf(x) : x \in Pointers(i)} : e[n] = c[n] \/ e[n].kind # "ptr"
  OBVIOUS
<1>2. \A n \in Pointing(e, i) : n \in Pointing(c, i) /\ e[n].first = c[n].first
  BY <1>1 DEF Pointing
<1> QED
  BY <1>2 DEF Reach

LEMMA INodeSame ==
  ASSUME NEW c, NEW e, NEW p \in Nat, \A n \in ClusterOf(p) : e[n] = c[n]
  PROVE  getINode(e, p) = getINode(c, p)
<1>1. \A k \in 0 .. 7 : e[p + k] = c[p + k]
  BY DEF ClusterOf, clusterSize
<1>2. readCluster(e, p) = readCluster(c, p)
  BY <1>1 DEF readCluster, clusterSize
<1> QED
  BY <1>2 DEF getINode

LEMMA OwnedSame ==
  ASSUME NEW c, NEW e, NEW p \in Nat, \A x \in Owned(c, p) : \A n \in ClusterOf(x) : e[n] = c[n]
  PROVE  getINode(e, p) = getINode(c, p) /\ Owned(e, p) = Owned(c, p)
         /\ Reach(e, getINode(e, p)) = Reach(c, getINode(c, p))
<1>1. getINode(e, p) = getINode(c, p)
  BY INodeSame DEF Owned
<1>2. Reach(e, getINode(c, p)) = Reach(c, getINode(c, p))
  <2>1. \A x \in Pointers(getINode(c, p)) : x \in Owned(c, p)
    BY DEF Owned, Reach
  <2> QED
    BY <2>1, ReachSame
<1> QED
  BY <1>1, <1>2 DEF Owned

LEMMA FilesAre ==
  ASSUME NEW c, NEW W, Proper(c), FilesApart(c, W)
  PROVE  /\ \A p \in W : /\ p \in Marked(c) /\ p \in Nat /\ Owned(c, p) \subseteq Marked(c)
                         /\ InHand(c, W, p, getINode(c, p))
         /\ Taken(c, W) \subseteq Marked(c)
<1>1. \A p \in W : p \in Marked(c) /\ Owned(c, p) \subseteq Marked(c)
  BY DEF FilesApart, Owned
<1>2. \A p \in W : p \in Nat
  BY <1>1, MarkedIs
<1>3. \A p \in W : InHand(c, W, p, getINode(c, p))
  BY DEF FilesApart, InHand, Owned
<1> QED
  BY <1>1, <1>2, <1>3 DEF Taken

\* Files whose inodes stay and that lead to no more than before stay apart.
LEMMA FilesStay ==
  ASSUME NEW c, NEW W, FilesApart(c, W), NEW e, Marked(c) \subseteq Marked(e),
         \A p \in W : getINode(e, p) = getINode(c, p) /\ Reach(e, getINode(c, p)) \subseteq Reach(c, getINode(c, p))
  PROVE  FilesApart(e, W) /\ Taken(e, W) \subseteq Taken(c, W)
         /\ \A p \in W : Owned(e, p) \subseteq Owned(c, p)
<1>1. \A p \in W : Owned(e, p) \subseteq Owned(c, p)
  BY DEF Owned
<1>2. ASSUME NEW p \in W
      PROVE  GoodINode(getINode(e, p)) /\ Owned(e, p) \subseteq Marked(e) /\ p \notin Reach(e, getINode(e, p))
  BY <1>1 DEF FilesApart
<1>3. ASSUME NEW p \in W, NEW q \in W, p # q PROVE Owned(e, p) \cap Owned(e, q) = {}
  BY <1>1, <1>3 DEF FilesApart
<1>4. Taken(e, W) \subseteq Taken(c, W)
  BY <1>1 DEF Taken
<1> QED
  BY <1>1, <1>2, <1>3, <1>4 DEF FilesApart

\* Nothing that a file leads to is written.
LEMMA FilesSame ==
  ASSUME NEW c, NEW W, Proper(c), FilesApart(c, W), NEW e, Marked(c) \subseteq Marked(e),
         \A x \in Taken(c, W) : \A n \in ClusterOf(x) : e[n] = c[n]
  PROVE  /\ FilesApart(e, W) /\ Taken(e, W) = Taken(c, W)
         /\ \A p \in W : getINode(e, p) = getINode(c, p) /\ Owned(e, p) = Owned(c, p)
<1>1. ASSUME NEW p \in W
      PROVE  getINode(e, p) = getINode(c, p) /\ Owned(e, p) = Owned(c, p)
             /\ Reach(e, getINode(c, p)) = Reach(c, getINode(c, p))
  <2>1. p \in Nat
    BY FilesAre
  <2>2. \A x \in Owned(c, p) : x \in Taken(c, W)
    BY DEF Taken
  <2> QED
    BY <2>1, <2>2, OwnedSame
<1>2. FilesApart(e, W)
  BY <1>1, FilesStay
<1> QED
  BY <1>1, <1>2 DEF Taken

\* and no cluster that the inode in memory leads to
LEMMA HandSame ==
  ASSUME NEW c, NEW W, NEW e, NEW p, NEW i, InHand(c, W, p, i), Marked(c) \subseteq Marked(e),
         \A x \in Reach(c, i) : \A n \in ClusterOf(x) : e[n] = c[n],
         \A q \in W : Owned(e, q) \subseteq Owned(c, q)
  PROVE  InHand(e, W, p, i) /\ Reach(e, i) = Reach(c, i)
<1>1. Reach(e, i) = Reach(c, i)
  <2>1. \A x \in Pointers(i) : x \in Reach(c, i)
    BY DEF Reach
  <2> QED
    BY <2>1, ReachSame
<1>2. \A q \in W \ {p} : Reach(c, i) \cap Owned(e, q) = {}
  BY DEF InHand
<1> QED
  BY <1>1, <1>2 DEF InHand

\* getFreeCluster() leaves files and the inode in memory as they are.
LEMMA TakeKeeps ==
  ASSUME NEW c, NEW W, Proper(c), FilesApart(c, W), FreeCluster(c) # 0
  PROVE  LET e == Take(c, FreeCluster(c))
         IN /\ Proper(e) /\ FilesApart(e, W) /\ Taken(e, W) = Taken(c, W)
            /\ Marked(e) = Marked(c) \cup {FreeCluster(c)} /\ FreeCluster(c) \notin Marked(c)
            /\ FreeCluster(c) \in Marked(e) \ Taken(e, W)
            /\ \A p \in W : Owned(e, p) = Owned(c, p)
            /\ \A p, i : InHand(c, W, p, i) =>
                 InHand(e, W, p, i) /\ Reach(e, i) = Reach(c, i) /\ FreeCluster(c) \notin Reach(c, i)
<1> DEFINE e == Take(c, FreeCluster(c))
<1>1. /\ Proper(e) /\ FreeCluster(c) \notin Marked(c) /\ Marked(e) = Marked(c) \cup {FreeCluster(c)}
      /\ \A x \in Marked(c) : \A n \in ClusterOf(x) : e[n] = c[n]
  BY TakeIs
<1> HIDE DEF e
<1>2. Taken(c, W) \subseteq Marked(c)
  BY FilesAre
<1>3. /\ FilesApart(e, W) /\ Taken(e, W) = Taken(c, W)
      /\ \A p \in W : getINode(e, p) = getINode(c, p) /\ Owned(e, p) = Owned(c, p)
  <2>1. \A x \in Taken(c, W) : \A n \in ClusterOf(x) : e[n] = c[n]
    BY <1>1, <1>2
  <2>2. Marked(c) \subseteq Marked(e)
    BY <1>1
  <2> QED
    BY <2>1, <2>2, FilesSame
<1>4. ASSUME NEW p, NEW i, InHand(c, W, p, i)
      PROVE  InHand(e, W, p, i) /\ Reach(e, i) = Reach(c, i) /\ FreeCluster(c) \notin Reach(c, i)
  <2>1. Reach(c, i) \subseteq Marked(c)
    BY <1>4 DEF InHand
  <2>2. \A x \in Reach(c, i) : \A n \in ClusterOf(x) : e[n] = c[n]
    BY <1>1, <2>1
  <2>3. \A q \in W : Owned(e, q) \subseteq Owned(c, q)
    BY <1>3
  <2>4. Marked(c) \subseteq Marked(e)
    BY <1>1
  <2>5. InHand(e, W, p, i) /\ Reach(e, i) = Reach(c, i)
    BY <1>4, <2>2, <2>3, <2>4, HandSame
  <2> QED
    BY <1>1, <2>1, <2>5
<1> QED
  BY <1>1, <1>2, <1>3, <1>4 DEF e

-----------------------------------------------------------------------------
(* Writing a cluster, and the inode.                                       *)

LEMMA WriteIs ==
  ASSUME NEW c, Proper(c), NEW p \in Marked(c), NEW block
  PROVE  LET e == writeCluster(c, p, block)
         IN /\ Proper(e) /\ DOMAIN e = DOMAIN c /\ Super(e) = Super(c)
            /\ UsedBits(e) = UsedBits(c) /\ Marked(e) = Marked(c)
            /\ \A k \in 0 .. 7 : e[p + k] = block[k]
            /\ \A n \in DOMAIN c : n \notin ClusterOf(p) => e[n] = c[n]
            /\ \A x \in Marked(c) \ {p} : \A n \in ClusterOf(x) : e[n] = c[n]
<1> DEFINE e == writeCluster(c, p, block)
<1>1. p \in Nat /\ ClusterOf(p) = p .. p + 7 /\ ClusterOf(p) \subseteq DOMAIN c
  BY MarkedIs
<1>2. e = [n \in DOMAIN c |-> IF n \in ClusterOf(p) THEN block[n - p] ELSE c[n]]
  BY DEF writeCluster
<1> HIDE DEF e
<1>3. e = [n \in DOMAIN c |-> e[n]]
  BY <1>2
<1>4. \A n \in DOMAIN c : n \notin ClusterOf(p) => e[n] = c[n]
  BY <1>2
<1>5. ASSUME NEW k \in 0 .. 7 PROVE e[p + k] = block[k]
  <2>1. p + k \in ClusterOf(p) /\ (p + k) - p = k
    BY <1>1
  <2> QED
    BY <1>1, <1>2, <2>1
<1>6. /\ Proper(e) /\ DOMAIN e = DOMAIN c /\ Super(e) = Super(c)
      /\ UsedBits(e) = UsedBits(c) /\ Marked(e) = Marked(c)
  BY <1>3, <1>4, InsideKeeps
<1>7. ASSUME NEW x \in Marked(c) \ {p}, NEW n \in ClusterOf(x) PROVE e[n] = c[n]
  BY <1>4, MarkedIs
<1> QED
  BY <1>4, <1>5, <1>6, <1>7 DEF e

LEMMA INodeWritten ==
  ASSUME NEW e, NEW p, NEW i, GoodINode(i), \A k \in 0 .. 7 : e[p + k] = i[k]
  PROVE  getINode(e, p) = i
<1>1. i = [k \in 0 .. 7 |-> i[k]] /\ i[0].kind = "inode"
  BY DEF GoodINode, clusterSize, Header
<1>2. readCluster(e, p) = i
  BY <1>1 DEF readCluster, clusterSize
<1> QED
  BY <1>1, <1>2 DEF getINode

LEMMA SizesGrow ==
  /\ getSize(0) \in Nat /\ getSize(1) \in Nat /\ getSize(2) \in Nat
  /\ getSize(0) <= getSize(1) /\ getSize(1) <= getSize(2)
<1> DEFINE b == BlockSize
           q == (7 * b) \div 4
<1>1. b \in Nat \ {0}
  BY BlockAssumption
<1>2. inlineSize = 7 * b /\ clusterByteSize = 8 * b
  BY <1>1 DEF inlineSize, clusterByteSize, clusterSize, dataStart
<1> HIDE DEF b
<1>3. q \in Nat /\ q >= 1 /\ (8 * b) \div 4 = 2 * b
  BY <1>1
<1>4. getSize(0) = 7 * b /\ getSize(1) = q * (8 * b) /\ getSize(2) = q * (8 * b) * (2 * b)
  BY <1>2, <1>3 DEF getSize
<1> HIDE DEF q
<1>5. q * (8 * b) >= 8 * b /\ q * (8 * b) \in Nat
  BY <1>1, <1>3
<1>6. \A x \in Nat : x * (2 * b) \in Nat /\ x * (2 * b) >= x
  BY <1>1
<1> QED
  BY <1>1, <1>4, <1>5, <1>6

LEMMA NewINodeIsGood == GoodINode(NewINode) /\ \A c : Reach(c, NewINode) = {}
<1>1. NewINode[0] = Header(0, inlineSize, 0) /\ NewINode = [k \in 0 .. 7 |-> NewINode[k]]
  BY DEF NewINode, clusterSize
<1>2. NewINode[0].depth = 0 /\ NewINode[0].currentCap = inlineSize /\ NewINode[0].size = 0
  BY <1>1 DEF Header
<1>3. GoodINode(NewINode)
  BY <1>1, <1>2, SizesGrow DEF GoodINode, clusterSize
<1> QED
  BY <1>2, <1>3 DEF Reach, Pointers, Depth

LEMMA DeepenedIs ==
  ASSUME NEW i, GoodINode(i), Depth(i) < 2, NEW p
  PROVE  /\ GoodINode(Deepened(i, p)) /\ Depth(Deepened(i, p)) = Depth(i) + 1
         /\ Pointers(Deepened(i, p)) = {p}
<1> DEFINE j == Deepened(i, p)
<1>1. j = [k \in 0 .. 7 |-> CASE k = 0 -> [i[0] EXCEPT !.depth = @ + 1] [] k = 1 -> PtrBlock(p) [] OTHER -> ZeroBlock]
  BY DEF Deepened, clusterSize
<1> HIDE DEF j
<1>2. j[0] = [i[0] EXCEPT !.depth = @ + 1] /\ j[1] = PtrBlock(p) /\ \A k \in 2 .. 7 : j[k] = ZeroBlock
  BY <1>1
<1>3. i[0].depth \in {0, 1} /\ i[0].size \in Nat /\ i[0].size <= getSize(i[0].depth)
      /\ i[0] = Header(i[0].depth, i[0].currentCap, i[0].size)
  BY DEF GoodINode, Depth
<1>4. j[0] = Header(i[0].depth + 1, i[0].currentCap, i[0].size)
  BY <1>2, <1>3 DEF Header
<1>5. j[0].depth = i[0].depth + 1 /\ j[0].currentCap = i[0].currentCap /\ j[0].size = i[0].size
  BY <1>4 DEF Header
<1>6. j = [k \in 0 .. 7 |-> j[k]]
  BY <1>1
<1>7. j[0].depth \in 0 .. 2 /\ j[0].size <= getSize(j[0].depth)
  <2>1. CASE i[0].depth = 0
    BY <1>3, <1>5, <2>1, SizesGrow
  <2>2. CASE i[0].depth = 1
    BY <1>3, <1>5, <2>2, SizesGrow
  <2> QED
    BY <1>3, <2>1, <2>2
<1>8. GoodINode(j)
  BY <1>3, <1>4, <1>5, <1>6, <1>7 DEF GoodINode, clusterSize
<1>9. Pointers(j) = {p}
  <2>1. Depth(j) # 0
    BY <1>3, <1>5 DEF Depth
  <2>2. j[1].kind = "ptr" /\ j[1].first = p /\ \A k \in 2 .. 7 : j[k].kind # "ptr"
    BY <1>2 DEF PtrBlock, ZeroBlock
  <2>3. {k \in 1 .. 7 : j[k].kind = "ptr"} = {1}
    BY <2>2
  <2> QED
    BY <2>1, <2>2, <2>3 DEF Pointers, clusterSize
<1> QED
  BY <1>5, <1>8, <1>9 DEF Depth, j

\* The pointers of the inode go with its data.
LEMMA MovedReach ==
  ASSUME NEW i, GoodINode(i), Depth(i) < 2, NEW p \in Nat, NEW e,
         \A k \in 0 .. 7 : e[p + k] = MovedData(i)[k]
  PROVE  Reach(e, Deepened(i, p)) \subseteq {p} \cup Pointers(i)
<1> DEFINE j == Deepened(i, p)
<1>1. Depth(j) = Depth(i) + 1 /\ Pointers(j) = {p} /\ Depth(i) \in {0, 1}
  <2>1. Depth(i) \in {0, 1}
    BY DEF GoodINode, Depth
  <2> QED
    BY <2>1, DeepenedIs
<1> HIDE DEF j
<1>2. CASE Depth(i) = 0
  <2>1. Depth(j) # 2
    BY <1>1, <1>2
  <2> QED
    BY <1>1, <2>1 DEF Reach, j
<1>3. CASE Depth(i) = 1
  <2>1. ASSUME NEW n \in Pointing(e, j) PROVE e[n].first \in Pointers(i)
    <3>1. n \in ClusterOf(p) /\ e[n].kind = "ptr"
      BY <1>1, <2>1 DEF Pointing
    <3>2. PICK k \in 0 .. 7 : n = p + k
      <4>1. n - p \in 0 .. 7 /\ n = p + (n - p)
        BY <3>1 DEF ClusterOf, clusterSize
      <4> QED
        BY <4>1
    <3>3. e[n] = IF k = 7 THEN ZeroBlock ELSE i[k + 1]
      BY <3>2 DEF MovedData, clusterSize
    <3>4. k # 7 /\ e[n] = i[k + 1]
      BY <3>1, <3>3 DEF ZeroBlock
    <3>5. k + 1 \in 1 .. 7
      BY <3>4
    <3> QED
      BY <1>3, <3>1, <3>4, <3>5 DEF Pointers, clusterSize
  <2> QED
    BY <1>1, <2>1 DEF Reach, j
<1> QED
  BY <1>1, <1>2, <1>3

\* never the header
LEMMA FirstEmptyIs == ASSUME NEW i PROVE findFirstEmpty(i) \div BlockSize \in {1, 4, 16}
<1> DEFINE b == BlockSize
           s == {x \in probes : IsZeroByte(i, x)}
<1>1. b \in Nat \ {0} /\ clusterByteSize = 8 * b /\ probes = {b, 4 * b, 16 * b}
  BY BlockAssumption DEF clusterByteSize, clusterSize, probes, dataStart
<1>2. 16 * b \in s
  <2>1. ~(16 * b < clusterByteSize - 3) /\ 16 * b \in probes
    BY <1>1
  <2> QED
    BY <2>1 DEF IsZeroByte
<1>3. s \subseteq probes
  OBVIOUS
<1> HIDE DEF s, b
<1>4. s \subseteq Nat
  BY <1>1, <1>3
<1>5. Min(s) \in {b, 4 * b, 16 * b}
  BY <1>1, <1>2, <1>3, <1>4, MinIs
<1>6. b \div b = 1 /\ (4 * b) \div b = 4 /\ (16 * b) \div b = 16
  <2>1. \A k \in Nat : (k * b + 0) \div b = k
    BY <1>1, DivOf
  <2>2. (1 * b + 0) \div b = 1 /\ (4 * b + 0) \div b = 4 /\ (16 * b + 0) \div b = 16
    BY <2>1
  <2>3. 1 * b + 0 = b /\ 4 * b + 0 = 4 * b /\ 16 * b + 0 = 16 * b
    BY <1>1
  <2> QED
    BY <2>2, <2>3
<1>7. findFirstEmpty(i) = Min(s) /\ b = BlockSize
  BY DEF findFirstEmpty, s, b
<1> QED
  BY <1>5, <1>6, <1>7

LEMMA ExtendedIs ==
  ASSUME NEW i, GoodINode(i), Depth(i) = 1, NEW p
  PROVE  LET j == Extended(i, p)
         IN /\ GoodINode(j) /\ Depth(j) = 1
            /\ \A e : Reach(e, j) \subseteq {p} \cup Pointers(i)
<1> DEFINE j == Extended(i, p)
           at == findFirstEmpty(i) \div BlockSize
<1>1. j = [k \in 0 .. 7 |-> CASE k = 0 -> [i[0] EXCEPT !.currentCap = @ + clusterByteSize]
                              [] k = at -> PtrBlock(p) [] OTHER -> i[k]]
  BY DEF Extended, clusterSize
<1>0. at \in {1, 4, 16}
  BY FirstEmptyIs
<1> HIDE DEF j, at
<1>2. j[0] = [i[0] EXCEPT !.currentCap = @ + clusterByteSize] /\ \A k \in 1 .. 7 : j[k] = PtrBlock(p) \/ j[k] = i[k]
  BY <1>0, <1>1
<1>3. i[0].depth = 1 /\ i[0].size \in Nat /\ i[0].size <= getSize(1)
      /\ i[0] = Header(i[0].depth, i[0].currentCap, i[0].size)
  BY DEF GoodINode, Depth
<1>4. j[0] = Header(1, i[0].currentCap + clusterByteSize, i[0].size)
  BY <1>2, <1>3 DEF Header
<1>5. j[0].depth = 1 /\ j[0].currentCap = i[0].currentCap + clusterByteSize /\ j[0].size = i[0].size
  BY <1>4 DEF Header
<1>6. j = [k \in 0 .. 7 |-> j[k]]
  BY <1>1
<1>7. GoodINode(j)
  BY <1>3, <1>4, <1>5, <1>6 DEF GoodINode, clusterSize
<1>8. ASSUME NEW e PROVE Reach(e, j) \subseteq {p} \cup Pointers(i)
  <2>1. Reach(e, j) = Pointers(j)
    BY <1>5 DEF Reach, Depth
  <2>2. \A k \in 1 .. 7 : j[k].kind = "ptr" => j[k].first = p \/ (i[k].kind = "ptr" /\ j[k].first = i[k].first)
    BY <1>2 DEF PtrBlock
  <2>3. Pointers(j) = {j[k].first : k \in {l \in 1 .. 7 : j[l].kind = "ptr"}}
    BY <1>5 DEF Pointers, Depth, clusterSize
  <2>4. Pointers(i) = {i[k].first : k \in {l \in 1 .. 7 : i[l].kind = "ptr"}}
    BY <1>3 DEF Pointers, Depth, clusterSize
  <2> QED
    BY <2>1, <2>2, <2>3, <2>4
<1> QED
  BY <1>5, <1>7, <1>8 DEF Depth, j

-----------------------------------------------------------------------------
(* Following the pointers.                                                 *)

LEMMA ExtractIs ==
  ASSUME NEW c, NEW p, NEW x \in Nat, x < 8 * BlockSize
  PROVE  /\ x \div BlockSize \in 0 .. 7 /\ (x >= BlockSize => x \div BlockSize \in 1 .. 7)
         /\ \/ extractInt(c, p, x) = 0
            \/ /\ c[p + x \div BlockSize].kind = "ptr"
               /\ extractInt(c, p, x) = c[p + x \div BlockSize].first
<1> DEFINE b == BlockSize
           k == x \div b
<1>1. b \in Nat \ {0}
  BY BlockAssumption
<1>2. k \in Nat /\ x % b \in 0 .. b - 1 /\ x = b * k + (x % b)
  BY <1>1, DivIs
<1> HIDE DEF b, k
<1>3. k < 8
  <2> SUFFICES ASSUME k >= 8 PROVE FALSE
    BY <1>2
  <2>1. b * k >= b * 8
    BY <1>1, <1>2
  <2>2. b * k \in Nat /\ x < 8 * b
    BY <1>1, <1>2 DEF b
  <2> QED
    BY <1>1, <1>2, <2>1, <2>2
<1>4. x >= b => k # 0
  BY <1>1, <1>2
<1>5. k \in 0 .. 7 /\ (x >= b => k \in 1 .. 7)
  BY <1>2, <1>3, <1>4
<1>6. extractInt(c, p, x) = 0 \/ (c[p + k].kind = "ptr" /\ extractInt(c, p, x) = c[p + k].first)
  BY DEF extractInt, k, b
<1> QED
  BY <1>5, <1>6 DEF k, b

\* A block of the file has its pointers in the inode and in the clusters.
LEMMA IndexesAre ==
  ASSUME NEW n \in Nat
  PROVE  /\ bytesTotal(n) <= getSize(1) => dataStart + 4 * (n \div 8) < 8 * BlockSize
         /\ bytesTotal(n) <= getSize(2) => dataStart + 4 * (n \div (16 * BlockSize)) < 8 * BlockSize
         /\ 4 * ((n % (16 * BlockSize)) \div 8) \in Nat
         /\ 4 * ((n % (16 * BlockSize)) \div 8) < 8 * BlockSize
         /\ n \div (16 * BlockSize) \in Nat /\ n \div 8 \in Nat
<1> DEFINE b == BlockSize
           q == (7 * b) \div 4
           g == 16 * b
<1>1. b \in Nat \ {0}
  BY BlockAssumption
<1>2. inlineSize = 7 * b /\ clusterByteSize = 8 * b /\ dataStart = b /\ bytesTotal(n) = (n + 1) * b
  BY <1>1 DEF inlineSize, clusterByteSize, clusterSize, dataStart, bytesTotal
<1>3. g \in Nat \ {0}
  BY <1>1
<1> HIDE DEF b, g
<1>4. q \in Nat /\ 4 * q <= 7 * b /\ (8 * b) \div 4 = 2 * b
  BY <1>1
<1>5. getSize(1) = q * (8 * b) /\ getSize(2) = q * (8 * b) * (2 * b)
  BY <1>2, <1>4 DEF getSize
<1> HIDE DEF q
<1>6. \A m \in Nat : (n + 1) * b <= m * b => n + 1 <= m
  <2> SUFFICES ASSUME NEW m \in Nat, (n + 1) * b <= m * b, n + 1 > m PROVE FALSE
    OBVIOUS
  <2>1. n >= m
    OBVIOUS
  <2>2. n * b >= m * b /\ (n + 1) * b = n * b + b /\ n * b \in Nat /\ m * b \in Nat
    BY <1>1, <2>1
  <2> QED
    BY <1>1, <2>2
<1>7. ASSUME bytesTotal(n) <= getSize(1) PROVE b + 4 * (n \div 8) < 8 * b
  <2>1. q * (8 * b) = (8 * q) * b
    BY <1>1, <1>4
  <2>2. n + 1 <= 8 * q
    BY <1>2, <1>4, <1>5, <1>6, <1>7, <2>1
  <2>3. n \div 8 <= q - 1
    BY <1>4, <2>2
  <2> QED
    BY <1>1, <1>4, <2>3
<1>8. n \div g \in Nat /\ n % g \in 0 .. g - 1 /\ n = g * (n \div g) + (n % g)
  BY <1>3, DivIs
<1>9. ASSUME bytesTotal(n) <= getSize(2) PROVE b + 4 * (n \div g) < 8 * b
  <2> DEFINE d == n \div g
  <2>1. q * (8 * b) * (2 * b) = (q * g) * b
    <3>1. q * (8 * b) * (2 * b) = (q * (16 * b)) * b
      BY <1>1, <1>4
    <3> QED
      BY <3>1 DEF g
  <2>2. q * g \in Nat
    BY <1>3, <1>4
  <2>3. n + 1 <= q * g
    BY <1>2, <1>5, <1>6, <1>9, <2>1, <2>2
  <2> HIDE DEF d
  <2>4. d \in Nat /\ n >= g * d
    BY <1>3, <1>8 DEF d
  <2>5. d < q
    <3> SUFFICES ASSUME d >= q PROVE FALSE
      BY <1>4, <2>4
    <3>1. g * d >= q * g
      BY <1>3, <1>4, <2>4
    <3>2. g * d \in Nat
      BY <1>3, <2>4
    <3> QED
      BY <2>2, <2>3, <2>4, <3>1, <3>2
  <2>6. b + 4 * d < 8 * b
    BY <1>1, <1>4, <2>4, <2>5
  <2> QED
    BY <2>6 DEF d
<1>10. 4 * ((n % g) \div 8) \in Nat /\ 4 * ((n % g) \div 8) < 8 * b
  <2> DEFINE m == n % g
  <2>1. m \in Nat /\ m <= 16 * b - 1
    BY <1>1, <1>3, <1>8 DEF g
  <2> HIDE DEF m
  <2>2. 4 * (m \div 8) \in Nat /\ 4 * (m \div 8) < 8 * b
    BY <1>1, <2>1
  <2> QED
    BY <2>2 DEF m
<1> QED
  BY <1>2, <1>7, <1>8, <1>9, <1>10 DEF b, g

LEMMA GapsAre == getGapSizeBlocks(0, 2) = 16 * BlockSize /\ getGapSizeBlocks(1, 2) = 8
<1>1. (8 * BlockSize) \div 4 = 2 * BlockSize /\ 8 * (2 * BlockSize) = 16 * BlockSize
  BY BlockAssumption
<1>2. getGapSizeBlocks(0, 2) = 8 * ((8 * BlockSize) \div 4)
  BY DEF getGapSizeBlocks, clusterSize, clusterByteSize
<1>3. getGapSizeBlocks(1, 2) = 8
  BY DEF getGapSizeBlocks, clusterSize
<1> QED
  BY <1>1, <1>2, <1>3

\* a word of the inode's data is 0 or one of its pointers
LEMMA WordIs ==
  ASSUME NEW i, Depth(i) # 0, NEW x \in Nat, dataStart + x < 8 * BlockSize
  PROVE  extractInt(i, 0, dataStart + x) \in {0} \cup Pointers(i)
<1> DEFINE k == (dataStart + x) \div BlockSize
<1>1. dataStart + x \in Nat /\ dataStart + x >= BlockSize /\ dataStart + x < 8 * BlockSize
  BY BlockAssumption DEF dataStart
<1>2. k \in 1 .. 7
  BY <1>1, ExtractIs
<1>3. \/ extractInt(i, 0, dataStart + x) = 0
      \/ i[0 + k].kind = "ptr" /\ extractInt(i, 0, dataStart + x) = i[0 + k].first
  BY <1>1, ExtractIs
<1> HIDE DEF k
<1>4. 0 + k = k
  BY <1>2
<1> QED
  BY <1>2, <1>3, <1>4 DEF Pointers, clusterSize

LEMMA TopIs ==
  ASSUME NEW i, Depth(i) = 2, NEW n \in Nat, bytesTotal(n) <= getSize(Depth(i))
  PROVE  extractInt(i, 0, dataStart + 4 * (n \div (16 * BlockSize))) \in {0} \cup Pointers(i)
<1> DEFINE x == 4 * (n \div (16 * BlockSize))
<1>1. n \div (16 * BlockSize) \in Nat /\ dataStart + x < 8 * BlockSize
  BY IndexesAre
<1>2. x \in Nat
  BY <1>1
<1> HIDE DEF x
<1>3. extractInt(i, 0, dataStart + x) \in {0} \cup Pointers(i)
  BY <1>1, <1>2, WordIs
<1> QED
  BY <1>3 DEF x

\* The block lies at the start of a cluster that the inode leads to, or 0 is
\* found where a pointer should be.
LEMMA BlockPointerIs ==
  ASSUME NEW c, Proper(c), NEW i, GoodINode(i), Reach(c, i) \subseteq Marked(c),
         NEW n \in Nat, bytesTotal(n) <= getSize(Depth(i))
  PROVE  Depth(i) # 0 => getBlockPointer(c, i, n) \in {0} \cup Reach(c, i)
<1> DEFINE b == BlockSize
<1>1. b \in Nat \ {0} /\ dataStart = b
  BY BlockAssumption DEF dataStart
<1>3. CASE Depth(i) = 1
  <2>1. getBlockPointer(c, i, n) = extractInt(i, 0, dataStart + 4 * (n \div 8))
    BY <1>3 DEF getBlockPointer, getGapSizeBlocks, clusterSize
  <2>2. 4 * (n \div 8) \in Nat /\ dataStart + 4 * (n \div 8) < 8 * b
    BY <1>3, IndexesAre
  <2>3. extractInt(i, 0, dataStart + 4 * (n \div 8)) \in {0} \cup Pointers(i)
    BY <1>3, <2>2, WordIs
  <2> QED
    BY <2>1, <2>3 DEF Reach
<1>4. CASE Depth(i) = 2
  <2> DEFINE g == 16 * b
             top == extractInt(i, 0, dataStart + 4 * (n \div g))
             y == 4 * ((n % g) \div 8)
  <2>1. getGapSizeBlocks(0, 2) = g /\ getGapSizeBlocks(1, 2) = 8
    BY GapsAre
  <2>2. getBlockPointer(c, i, n) = extractInt(c, top, y)
    <3> HIDE DEF g
    <3> QED
      BY <1>4, <2>1 DEF getBlockPointer
  <2>3. y \in Nat /\ y < 8 * BlockSize
    BY IndexesAre
  <2>4. top \in {0} \cup Pointers(i)
    BY <1>4, TopIs
  <2> DEFINE k == y \div BlockSize
  <2>5. k \in 0 .. 7 /\ \/ extractInt(c, top, y) = 0
                        \/ c[top + k].kind = "ptr" /\ extractInt(c, top, y) = c[top + k].first
    <3> HIDE DEF top
    <3> QED
      BY <2>3, ExtractIs
  <2> HIDE DEF k, y, top
  <2>6. CASE top = 0
    <3>1. c[top + k].kind # "ptr"
      BY <2>5, <2>6 DEF Proper, clusterSize
    <3> QED
      BY <2>2, <2>5, <3>1
  <2>7. CASE top \in Pointers(i) /\ c[top + k].kind = "ptr" /\ extractInt(c, top, y) = c[top + k].first
    <3>1. top \in Nat
      BY <2>7, MarkedIs DEF Reach
    <3>2. top + k \in ClusterOf(top)
      BY <2>5, <3>1 DEF ClusterOf, clusterSize
    <3>3. top + k \in Pointing(c, i)
      BY <2>7, <3>2 DEF Pointing
    <3> QED
      BY <1>4, <2>2, <2>7, <3>3 DEF Reach
  <2> QED
    BY <2>2, <2>4, <2>5, <2>6, <2>7
<1>5. Depth(i) \in {0, 1, 2}
  BY DEF GoodINode, Depth
<1> QED
  BY <1>3, <1>4, <1>5

-----------------------------------------------------------------------------
(* Formatting and creating a disc.                                         *)

\* a bitmap that has just been written, before the superblock or behind it
LEMMA NewMapIs ==
  ASSUME NEW c, Proper(c), NEW e, e = [n \in DOMAIN c |-> e[n]],
         e[1] = MapBlock({0}), \A k \in 2 .. MapLen(c) : e[k] = ZeroBlock,
         e[0] = SuperOf(DiscSize(c)) \/ e[0].kind # "super",
         \A k \in 0 .. 7 : e[k].kind # "ptr"
  PROVE  Proper(e) /\ DOMAIN e = DOMAIN c
<1>1. /\ DiscSize(c) \in Nat /\ DiscSize(c) >= 2 * clusterSize /\ DOMAIN c = 0 .. DiscSize(c) - 1
  BY DiscIs DEF Proper, DiscSize
<1>2. DOMAIN e = DOMAIN c /\ DiscSize(e) = DiscSize(c)
  BY DEF DiscSize
<1>3. MapLen(c) \in Nat /\ MapLen(c) >= 1 /\ bitsPerBlock \in Nat \ {0}
  <2>1. MapLen(c) \in Nat /\ MapLen(c) >= 1
    BY DiscIs
  <2>2. bitsPerBlock \in Nat \ {0}
    BY BlockAssumption DEF bitsPerBlock
  <2> QED
    BY <2>1, <2>2
<1>4. SuperOf(DiscSize(c)) = SuperBlock(MapLen(c), Total(c), Usable(c))
  BY DiscIs
<1>5. ASSUME e[0].kind = "super"
      PROVE  /\ 0 \in UsedBits(e)
             /\ \A k \in 1 .. MapLen(c) : Used(e[k]) \subseteq 0 .. bitsPerBlock - 1
             /\ \A k \in UsedBits(e) : Position(e, k) + clusterSize <= Total(c) * clusterSize
  <2>1. Super(e) = SuperBlock(MapLen(c), Total(c), Usable(c))
    BY <1>4, <1>5 DEF Super, superBlockLocation
  <2>2. Super(e).clusterMap = 1 /\ Super(e).mapSize = MapLen(c)
    BY <2>1 DEF SuperBlock
  <2>3. Used(e[1]) = {0} /\ \A k \in 2 .. MapLen(c) : Used(e[k]) = {}
    BY DEF Used, MapBlock, ZeroBlock
  <2>4. UsedBits(e) = UNION {{i * bitsPerBlock + k : k \in Used(e[1 + i])} : i \in 0 .. MapLen(c) - 1}
    BY <2>2 DEF UsedBits
  <2>5. \A i \in 0 .. MapLen(c) - 1 : i # 0 => Used(e[1 + i]) = {}
    BY <1>3, <2>3
  <2>6. 0 \in 0 .. MapLen(c) - 1 /\ Used(e[1 + 0]) = {0} /\ 0 * bitsPerBlock + 0 = 0
    <3>1. 1 + 0 = 1
      OBVIOUS
    <3>2. Used(e[1 + 0]) = {0}
      BY <2>3, <3>1
    <3>3. 0 \in 0 .. MapLen(c) - 1
      BY <1>3
    <3>4. 0 * bitsPerBlock + 0 = 0
      BY <1>3
    <3> QED
      BY <3>2, <3>3, <3>4
  <2>7. 0 \in UsedBits(e)
    BY <2>4, <2>6
  <2>8. ASSUME NEW x \in UsedBits(e) PROVE x = 0
    <3>1. PICK i \in 0 .. MapLen(c) - 1 : \E k \in Used(e[1 + i]) : x = i * bitsPerBlock + k
      BY <2>4
    <3>2. i = 0
      BY <2>5, <3>1
    <3>3. \E k \in {0} : x = 0 * bitsPerBlock + k
      BY <2>6, <3>1, <3>2
    <3> QED
      BY <2>6, <3>3
  <2>9. Position(e, 0) + clusterSize <= Total(c) * clusterSize
    <3>1. 1 + MapLen(c) + 0 * 8 + 8 <= Total(c) * 8
      BY DiscIs
    <3> QED
      BY <2>2, <3>1 DEF Position, clusterSize
  <2>10. \A k \in 1 .. MapLen(c) : Used(e[k]) \subseteq 0 .. bitsPerBlock - 1
    BY <1>3, <2>3
  <2> QED
    BY <2>7, <2>8, <2>9, <2>10
<1>6. SuperOf(DiscSize(c)).mapSize = MapLen(c) /\ SuperOf(DiscSize(c)).total = Total(c)
  BY <1>4 DEF SuperBlock
<1>7. \A k \in 0 .. clusterSize - 1 : e[k].kind # "ptr"
  BY DEF clusterSize
<1>8. e[0].kind = "super" => e[0] = SuperOf(DiscSize(e))
  BY <1>2
<1>9. DiscSize(e) \in Nat /\ DiscSize(e) >= 2 * clusterSize
  BY <1>1, <1>2
<1>10. e = [k \in 0 .. DiscSize(e) - 1 |-> e[k]]
  BY <1>1, <1>2
<1>11. e[0].kind = "super" =>
         /\ \A k \in 1 .. SuperOf(DiscSize(e)).mapSize : Used(e[k]) \subseteq 0 .. bitsPerBlock - 1
         /\ \A k \in UsedBits(e) : Position(e, k) + clusterSize <= SuperOf(DiscSize(e)).total * clusterSize
  BY <1>2, <1>5, <1>6
<1>12. Proper(e)
  BY <1>5, <1>7, <1>8, <1>9, <1>10, <1>11 DEF Proper, DiscSize, superBlockLocation
<1> QED
  BY <1>2, <1>12

LEMMA FormatMapIs ==
  ASSUME NEW c, Proper(c)
  PROVE  LET e == FormatMap(c)
         IN /\ Proper(e) /\ DOMAIN e = DOMAIN c /\ e[1] = MapBlock({0})
            /\ \A k \in 2 .. SuperOf(Cardinality(DOMAIN e)).mapSize : e[k] = ZeroBlock
<1> DEFINE e == FormatMap(c)
<1>1. e = [n \in DOMAIN c |-> IF n \in 1 .. MapLen(c) THEN IF n = 1 THEN MapBlock({0}) ELSE ZeroBlock ELSE c[n]]
  BY DEF FormatMap, MapLen, Total, DiscSize
<1> HIDE DEF e
<1>2. /\ MapLen(c) \in Nat /\ MapLen(c) >= 1 /\ DOMAIN c = 0 .. DiscSize(c) - 1 /\ DiscSize(c) \in Nat
      /\ MapLen(c) < Total(c) /\ 8 * Total(c) <= DiscSize(c) /\ Total(c) \in Nat /\ Total(c) >= 2
  BY DiscIs
<1>3. \A n \in 0 .. MapLen(c) : n \in DOMAIN c
  BY <1>2
<1>4. \A n \in 0 .. 7 : n \in DOMAIN c
  BY <1>2
<1>5. e = [n \in DOMAIN c |-> e[n]]
  BY <1>1
<1>6. e[1] = MapBlock({0})
  <2>1. 1 \in DOMAIN c /\ 1 \in 1 .. MapLen(c)
    BY <1>2, <1>3
  <2> QED
    BY <1>1, <2>1
<1>7. \A k \in 2 .. MapLen(c) : e[k] = ZeroBlock
  <2> SUFFICES ASSUME NEW k \in 2 .. MapLen(c) PROVE e[k] = ZeroBlock
    OBVIOUS
  <2>1. k \in DOMAIN c /\ k \in 1 .. MapLen(c) /\ k # 1
    BY <1>2, <1>3
  <2> QED
    BY <1>1, <2>1
<1>8. e[0] = c[0]
  BY <1>1, <1>4
<1>9. \A k \in 0 .. 7 : e[k].kind # "ptr"
  <2>1. \A k \in 0 .. 7 : c[k].kind # "ptr"
    BY DEF Proper, clusterSize
  <2> QED
    BY <1>1, <1>4, <2>1 DEF MapBlock, ZeroBlock
<1>10. e[0] = SuperOf(DiscSize(c)) \/ e[0].kind # "super"
  BY <1>8 DEF Proper, DiscSize, superBlockLocation
<1>11. Proper(e) /\ DOMAIN e = DOMAIN c
  BY <1>5, <1>6, <1>7, <1>9, <1>10, NewMapIs
<1>12. SuperOf(Cardinality(DOMAIN e)).mapSize = MapLen(c)
  <2>1. SuperOf(DiscSize(c)) = SuperBlock(MapLen(c), Total(c), Usable(c))
    BY DiscIs
  <2> QED
    BY <1>11, <2>1 DEF SuperBlock, DiscSize
<1> QED
  BY <1>6, <1>7, <1>11, <1>12 DEF e

LEMMA FormatSuperIs ==
  ASSUME NEW c, Proper(c), c[1] = MapBlock({0}),
         \A k \in 2 .. SuperOf(Cardinality(DOMAIN c)).mapSize : c[k] = ZeroBlock
  PROVE  Proper(FormatSuper(c)) /\ DOMAIN FormatSuper(c) = DOMAIN c
<1> DEFINE e == FormatSuper(c)
<1>1. /\ MapLen(c) \in Nat /\ MapLen(c) >= 1 /\ DOMAIN c = 0 .. DiscSize(c) - 1 /\ DiscSize(c) \in Nat
      /\ MapLen(c) < Total(c) /\ 8 * Total(c) <= DiscSize(c) /\ Total(c) \in Nat /\ Total(c) >= 2
      /\ SuperOf(DiscSize(c)) = SuperBlock(MapLen(c), Total(c), Usable(c))
  BY DiscIs
<1>2. e = [c EXCEPT ![0] = SuperOf(DiscSize(c))]
  BY DEF FormatSuper, DiscSize, superBlockLocation
<1>3. c = [n \in DOMAIN c |-> c[n]]
  BY DEF Proper
<1> HIDE DEF e
<1>4. e = [n \in DOMAIN c |-> IF n = 0 THEN SuperOf(DiscSize(c)) ELSE c[n]]
  BY <1>2, <1>3
<1>5. e = [n \in DOMAIN c |-> e[n]]
  BY <1>4
<1>6. 0 \in DOMAIN c /\ \A n \in 1 .. MapLen(c) : n \in DOMAIN c
  BY <1>1
<1>7. e[0] = SuperOf(DiscSize(c)) /\ \A n \in DOMAIN c : n # 0 => e[n] = c[n]
  BY <1>4, <1>6
<1>8. e[1] = MapBlock({0})
  <2>1. 1 \in DOMAIN c
    BY <1>1
  <2> QED
    BY <1>7, <2>1
<1>9. \A k \in 2 .. MapLen(c) : e[k] = ZeroBlock
  <2>1. SuperOf(Cardinality(DOMAIN c)).mapSize = MapLen(c)
    BY <1>1 DEF SuperBlock, DiscSize
  <2>2. \A k \in 2 .. MapLen(c) : k \in DOMAIN c /\ k # 0
    BY <1>1
  <2> QED
    BY <1>7, <2>1, <2>2
<1>10. \A k \in 0 .. 7 : e[k].kind # "ptr"
  <2>1. \A k \in 0 .. 7 : k \in DOMAIN c /\ c[k].kind # "ptr"
    BY <1>1 DEF Proper, clusterSize
  <2>2. SuperOf(DiscSize(c)).kind # "ptr"
    BY <1>1 DEF SuperBlock
  <2> QED
    BY <1>7, <2>1, <2>2
<1> QED
  BY <1>5, <1>7, <1>8, <1>9, <1>10, NewMapIs DEF e

LEMMA NewDiscIs == ASSUME NEW n \in Nat, n >= 16 PROVE Proper(NewDisc(n))
<1> DEFINE e == NewDisc(n)
<1>1. e = [k \in 0 .. n - 1 |-> ZeroBlock]
  BY DEF NewDisc
<1> HIDE DEF e
<1>2. DOMAIN e = 0 .. n - 1
  BY <1>1
<1>3. Cardinality(DOMAIN e) = n
  <2>1. 0 \in Int /\ n - 1 \in Int /\ ~(0 > n - 1) /\ n - 1 - 0 + 1 = n
    OBVIOUS
  <2> QED
    BY <1>2, <2>1, FS_Interval
<1>4. \A k \in 0 .. 7 : e[k] = ZeroBlock
  BY <1>1
<1>5. \A k \in 0 .. 7 : e[k].kind # "ptr" /\ e[k].kind # "super"
  BY <1>4 DEF ZeroBlock
<1>6. e = [k \in 0 .. n - 1 |-> e[k]]
  BY <1>1
<1>7. e[0].kind # "super"
  BY <1>5
<1> QED
  BY <1>3, <1>5, <1>6, <1>7 DEF Proper, clusterSize, superBlockLocation, e

-----------------------------------------------------------------------------
(* The operations, on a disc that holds c, with files at W.                *)

\* What the files at Q read stays: their clusters, and the block that 0
\* leads to.
Keeps(c, e, Q) ==
  \A q \in Q : e[0] = c[0] /\ \A x \in Owned(c, q) : \A n \in ClusterOf(x) : e[n] = c[n]

LEMMA InsideKeepsFirst ==
  ASSUME NEW c, Proper(c), NEW e, NEW p \in Marked(c),
         \A n \in DOMAIN c : n \notin ClusterOf(p) => e[n] = c[n]
  PROVE  e[0] = c[0]
<1>1. 0 \in DOMAIN c /\ MapLen(c) \in Nat
  <2>1. DOMAIN c = 0 .. DiscSize(c) - 1 /\ DiscSize(c) \in Nat /\ Total(c) \in Nat /\ Total(c) >= 2
        /\ 8 * Total(c) <= DiscSize(c) /\ MapLen(c) \in Nat
    BY DiscIs
  <2> QED
    BY <2>1
<1>2. p \in Nat /\ p >= 9 + MapLen(c) /\ ClusterOf(p) = p .. p + 7
  BY MarkedIs
<1> QED
  BY <1>1, <1>2

LEMMA MaxIs ==
  ASSUME NEW a \in Nat, NEW b \in Nat
  PROVE  Max({a, b}) \in {a, b} /\ a <= Max({a, b}) /\ b <= Max({a, b})
<1>1. \E x \in {a, b} : \A y \in {a, b} : x >= y
  <2>1. CASE a >= b
    BY <2>1
  <2>2. CASE b >= a
    BY <2>2
  <2> QED
    BY <2>1, <2>2
<1>2. Max({a, b}) \in {a, b} /\ \A y \in {a, b} : Max({a, b}) >= y
  BY <1>1 DEF Max
<1> QED
  BY <1>2

\* the inode with another size
LEMMA SizedIs ==
  ASSUME NEW i, GoodINode(i), NEW s \in Nat, s <= getSize(Depth(i))
  PROVE  LET j == [i EXCEPT ![0].size = s]
         IN /\ GoodINode(j) /\ Depth(j) = Depth(i) /\ j[0].size = s
            /\ \A k \in 1 .. 7 : j[k] = i[k]
            /\ Pointers(j) = Pointers(i) /\ \A c : Reach(c, j) = Reach(c, i)
<1> DEFINE j == [i EXCEPT ![0].size = s]
<1>1. i = [k \in 0 .. 7 |-> i[k]] /\ i[0] = Header(i[0].depth, i[0].currentCap, i[0].size)
      /\ i[0].depth \in 0 .. 2
  BY DEF GoodINode, clusterSize
<1>2. j[0] = [i[0] EXCEPT !.size = s] /\ (\A k \in 1 .. 7 : j[k] = i[k]) /\ j = [k \in 0 .. 7 |-> j[k]]
  BY <1>1
<1> HIDE DEF j
<1>3. j[0] = Header(i[0].depth, i[0].currentCap, s)
  BY <1>1, <1>2 DEF Header
<1>4. j[0].depth = i[0].depth /\ j[0].currentCap = i[0].currentCap /\ j[0].size = s
  BY <1>3 DEF Header
<1>5. GoodINode(j) /\ Depth(j) = Depth(i)
  BY <1>1, <1>2, <1>3, <1>4 DEF GoodINode, Depth, clusterSize
<1>6. Pointers(j) = Pointers(i)
  <2>1. {k \in 1 .. 7 : j[k].kind = "ptr"} = {k \in 1 .. 7 : i[k].kind = "ptr"}
    BY <1>2
  <2>2. {j[k].first : k \in {l \in 1 .. 7 : j[l].kind = "ptr"}}
          = {i[k].first : k \in {l \in 1 .. 7 : i[l].kind = "ptr"}}
    BY <1>2, <2>1
  <2> QED
    BY <1>5, <2>2 DEF Pointers, clusterSize
<1>7. \A c : Reach(c, j) = Reach(c, i)
  BY <1>5, <1>6 DEF Reach, Pointing
<1> QED
  BY <1>2, <1>4, <1>5, <1>6, <1>7 DEF j

\* A block of a marked cluster is none of another's.
LEMMA StartIs ==
  ASSUME NEW c, Proper(c), NEW x \in Marked(c), NEW y \in Marked(c), x \in ClusterOf(y)
  PROVE  x = y
<1>1. x \in ClusterOf(x)
  BY MarkedIs
<1> QED
  BY <1>1, MarkedIs

\* data or zeros are stored in blocks that the inode leads to
LEMMA StoreIs ==
  ASSUME NEW c, NEW W, Proper(c), FilesApart(c, W), NEW p, NEW i, InHand(c, W, p, i),
         NEW e, e = [n \in DOMAIN c |-> e[n]],
         \A n \in DOMAIN c : e[n] = c[n] \/ (n \in Reach(c, i) /\ e[n].kind # "ptr")
  PROVE  /\ Proper(e) /\ FilesApart(e, W) /\ InHand(e, W, p, i)
         /\ Keeps(c, e, W \ {p}) /\ \A q \in W : getINode(e, q) = getINode(c, q)
<1>1. Reach(c, i) \subseteq Marked(c) \ {p} /\ \A q \in W \ {p} : Reach(c, i) \cap Owned(c, q) = {}
  BY DEF InHand
<1>2. \A x \in Marked(c) : ClusterOf(x) \subseteq DOMAIN c /\ x \in ClusterOf(x)
  BY MarkedIs
<1>3. Proper(e) /\ Marked(e) = Marked(c)
  <2>1. \A n \in DOMAIN c : e[n] = c[n] \/ \E x \in Marked(c) : n \in ClusterOf(x)
    BY <1>1, <1>2
  <2> QED
    BY <2>1, InsideKeeps
<1>4. ASSUME NEW x \in Marked(c) \ Reach(c, i), NEW n \in ClusterOf(x) PROVE e[n] = c[n]
  <2>1. n \notin Reach(c, i)
    BY <1>1, <1>4, StartIs
  <2> QED
    BY <1>2, <2>1
<1>5. \A q \in W : q \in Marked(c) /\ q \in Nat /\ Owned(c, q) \subseteq Marked(c)
  BY FilesAre
<1>6. ASSUME NEW q \in W PROVE getINode(e, q) = getINode(c, q)
  <2>1. q \notin Reach(c, i)
    BY <1>1 DEF Owned
  <2> QED
    BY <1>4, <1>5, <2>1, INodeSame
<1>7. ASSUME NEW j, Reach(c, j) \subseteq Marked(c) PROVE Reach(e, j) \subseteq Reach(c, j)
  <2>1. \A x \in Pointers(j) : ClusterOf(x) \subseteq DOMAIN c
    BY <1>2, <1>7 DEF Reach
  <2>2. \A x \in Pointers(j) : \A n \in ClusterOf(x) : e[n] = c[n] \/ e[n].kind # "ptr"
    BY <2>1
  <2> QED
    BY <2>2, ReachShrinks
<1>8. FilesApart(e, W) /\ \A q \in W : Owned(e, q) \subseteq Owned(c, q)
  <2>1. \A q \in W : Reach(c, getINode(c, q)) \subseteq Marked(c)
    BY <1>5 DEF Owned
  <2> QED
    BY <1>3, <1>6, <1>7, <2>1, FilesStay
<1>9. InHand(e, W, p, i)
  <2>1. Reach(e, i) \subseteq Reach(c, i)
    BY <1>1, <1>7
  <2> QED
    BY <1>1, <1>3, <1>8, <2>1 DEF InHand
<1>10. Keeps(c, e, W \ {p})
  <2>1. e[0] = c[0]
    <3>1. 0 \in DOMAIN c /\ \A x \in Marked(c) : x # 0
      <4>1. DOMAIN c = 0 .. DiscSize(c) - 1 /\ DiscSize(c) \in Nat /\ Total(c) \in Nat /\ Total(c) >= 2
            /\ 8 * Total(c) <= DiscSize(c) /\ MapLen(c) \in Nat
        BY DiscIs
      <4>2. \A x \in Marked(c) : x \in Nat /\ x >= 9 + MapLen(c)
        BY MarkedIs
      <4> QED
        BY <4>1, <4>2
    <3> QED
      BY <1>1, <3>1
  <2>2. \A q \in W \ {p} : \A x \in Owned(c, q) : x \in Marked(c) \ Reach(c, i)
    BY <1>1, <1>5
  <2> QED
    BY <1>4, <2>1, <2>2 DEF Keeps
<1> QED
  BY <1>3, <1>6, <1>8, <1>9, <1>10

\* The inode in memory is written to the disc.
LEMMA WriteBackIs ==
  ASSUME NEW c, NEW W, Proper(c), FilesApart(c, W), NEW p, NEW i, InHand(c, W, p, i)
  PROVE  LET e == writeCluster(c, p, i)
         IN /\ Proper(e) /\ FilesApart(e, W) /\ Keeps(c, e, W \ {p})
            /\ getINode(e, p) = i /\ \A q \in W \ {p} : getINode(e, q) = getINode(c, q)
<1> DEFINE e == writeCluster(c, p, i)
<1>1. /\ p \in W /\ GoodINode(i) /\ Reach(c, i) \subseteq Marked(c) \ {p}
      /\ \A q \in W \ {p} : Reach(c, i) \cap Owned(c, q) = {}
  BY DEF InHand
<1>2. \A q \in W : q \in Marked(c) /\ q \in Nat /\ Owned(c, q) \subseteq Marked(c)
  BY FilesAre
<1>3. /\ Proper(e) /\ Marked(e) = Marked(c)
      /\ \A k \in 0 .. 7 : e[p + k] = i[k]
      /\ \A n \in DOMAIN c : n \notin ClusterOf(p) => e[n] = c[n]
      /\ \A x \in Marked(c) \ {p} : \A n \in ClusterOf(x) : e[n] = c[n]
  BY <1>1, <1>2, WriteIs
<1> HIDE DEF e
<1>4. getINode(e, p) = i
  BY <1>1, <1>3, INodeWritten
<1>5. Reach(e, i) = Reach(c, i)
  <2>1. \A x \in Pointers(i) : x \in Marked(c) \ {p}
    BY <1>1 DEF Reach
  <2> QED
    BY <1>3, <2>1, ReachSame
<1>6. Owned(e, p) = {p} \cup Reach(c, i)
  BY <1>4, <1>5 DEF Owned
<1>7. ASSUME NEW q \in W \ {p}
      PROVE  /\ \A x \in Owned(c, q) : \A n \in ClusterOf(x) : e[n] = c[n]
             /\ getINode(e, q) = getINode(c, q) /\ Owned(e, q) = Owned(c, q)
             /\ Reach(e, getINode(e, q)) = Reach(c, getINode(c, q))
             /\ p \notin Owned(c, q)
  <2>1. p \notin Owned(c, q)
    <3>1. p \in Owned(c, p) /\ Owned(c, p) \cap Owned(c, q) = {}
      BY <1>1, <1>7 DEF FilesApart, Owned
    <3> QED
      BY <3>1
  <2>2. \A x \in Owned(c, q) : \A n \in ClusterOf(x) : e[n] = c[n]
    BY <1>2, <1>3, <2>1
  <2> QED
    BY <1>2, <2>1, <2>2, OwnedSame
<1>8. FilesApart(e, W)
  <2>1. ASSUME NEW q \in W
        PROVE  GoodINode(getINode(e, q)) /\ Owned(e, q) \subseteq Marked(e) /\ q \notin Reach(e, getINode(e, q))
    <3>1. CASE q = p
      BY <1>1, <1>2, <1>3, <1>4, <1>5, <1>6, <3>1
    <3>2. CASE q # p
      BY <1>2, <1>3, <1>7, <3>2 DEF FilesApart
    <3> QED
      BY <3>1, <3>2
  <2>2. ASSUME NEW q \in W, NEW r \in W, q # r PROVE Owned(e, q) \cap Owned(e, r) = {}
    <3>1. CASE q = p
      BY <1>1, <1>6, <1>7, <2>2, <3>1
    <3>2. CASE r = p
      BY <1>1, <1>6, <1>7, <2>2, <3>2
    <3>3. CASE q # p /\ r # p
      BY <1>7, <2>2, <3>3 DEF FilesApart
    <3> QED
      BY <3>1, <3>2, <3>3
  <2> QED
    BY <2>1, <2>2 DEF FilesApart
<1>9. e[0] = c[0]
  BY <1>1, <1>2, <1>3, InsideKeepsFirst
<1> QED
  BY <1>3, <1>4, <1>7, <1>8, <1>9 DEF Keeps, e

\* A cluster that is nobody's gets the data of the inode.
LEMMA MoveIs ==
  ASSUME NEW c, NEW W, Proper(c), FilesApart(c, W), NEW p, NEW i, InHand(c, W, p, i), Depth(i) < 2,
         NEW m \in Marked(c) \ (Taken(c, W) \cup Reach(c, i))
  PROVE  LET e == writeCluster(c, m, MovedData(i))
         IN /\ Proper(e) /\ FilesApart(e, W) /\ Keeps(c, e, W)
            /\ \A q \in W : getINode(e, q) = getINode(c, q)
            /\ InHand(e, W, p, Deepened(i, m)) /\ Depth(Deepened(i, m)) # 0
<1> DEFINE e == writeCluster(c, m, MovedData(i))
           j == Deepened(i, m)
<1>1. /\ p \in W /\ GoodINode(i) /\ Reach(c, i) \subseteq Marked(c) \ {p}
      /\ \A q \in W \ {p} : Reach(c, i) \cap Owned(c, q) = {}
  BY DEF InHand
<1>2. Taken(c, W) \subseteq Marked(c) /\ \A q \in W : Owned(c, q) \subseteq Taken(c, W)
  BY FilesAre DEF Taken
<1>3. /\ Proper(e) /\ Marked(e) = Marked(c)
      /\ \A k \in 0 .. 7 : e[m + k] = MovedData(i)[k]
      /\ \A n \in DOMAIN c : n \notin ClusterOf(m) => e[n] = c[n]
      /\ \A x \in Marked(c) \ {m} : \A n \in ClusterOf(x) : e[n] = c[n]
  BY WriteIs
<1>4. m \in Nat
  BY MarkedIs
<1> HIDE DEF e
<1>5. \A x \in Taken(c, W) : \A n \in ClusterOf(x) : e[n] = c[n]
  BY <1>2, <1>3
<1>6. /\ FilesApart(e, W)
      /\ \A q \in W : getINode(e, q) = getINode(c, q) /\ Owned(e, q) = Owned(c, q)
  BY <1>3, <1>5, FilesSame
<1>7. Keeps(c, e, W)
  <2>1. e[0] = c[0]
    BY <1>3, InsideKeepsFirst
  <2> QED
    BY <1>2, <1>5, <2>1 DEF Keeps
<1>8. Reach(e, j) \subseteq {m} \cup Pointers(i) /\ GoodINode(j) /\ Depth(j) # 0
  <2>1. Depth(i) \in {0, 1}
    BY <1>1 DEF GoodINode, Depth
  <2>2. GoodINode(j) /\ Depth(j) = Depth(i) + 1
    BY <1>1, DeepenedIs
  <2>3. Reach(e, j) \subseteq {m} \cup Pointers(i)
    BY <1>1, <1>3, <1>4, MovedReach
  <2> HIDE DEF j
  <2> QED
    BY <2>1, <2>2, <2>3
<1> HIDE DEF j
<1>9. InHand(e, W, p, j)
  <2>1. Pointers(i) \subseteq Reach(c, i)
    BY DEF Reach
  <2>2. m # p /\ \A q \in W : m \notin Owned(c, q)
    BY <1>1, <1>2 DEF Owned
  <2>3. Reach(e, j) \subseteq Marked(e) \ {p}
    BY <1>1, <1>3, <1>8, <2>1, <2>2
  <2>4. \A q \in W \ {p} : Reach(e, j) \cap Owned(e, q) = {}
    BY <1>1, <1>6, <1>8, <2>1, <2>2
  <2> QED
    BY <1>1, <1>8, <2>3, <2>4 DEF InHand
<1> QED
  BY <1>3, <1>6, <1>7, <1>8, <1>9 DEF e, j

\* getting a cluster disturbs no file
LEMMA TakeKeepsAll ==
  ASSUME NEW c, NEW W, Proper(c), FilesApart(c, W), FreeCluster(c) # 0
  PROVE  LET e == Take(c, FreeCluster(c))
         IN Keeps(c, e, W) /\ \A q \in W : getINode(e, q) = getINode(c, q)
<1> DEFINE e == Take(c, FreeCluster(c))
<1>1. e[0] = c[0] /\ \A x \in Marked(c) : \A n \in ClusterOf(x) : e[n] = c[n]
  BY TakeIs
<1> HIDE DEF e
<1>2. \A q \in W : q \in Nat /\ q \in Owned(c, q) /\ Owned(c, q) \subseteq Marked(c)
  BY FilesAre DEF Owned
<1>3. Keeps(c, e, W)
  BY <1>1, <1>2 DEF Keeps
<1>4. \A q \in W : getINode(e, q) = getINode(c, q)
  BY <1>1, <1>2, INodeSame
<1> QED
  BY <1>3, <1>4 DEF e

\* The inode gets a cluster more.
LEMMA AddIs ==
  ASSUME NEW c, NEW W, Proper(c), FilesApart(c, W), FreeCluster(c) # 0,
         NEW p, NEW i, InHand(c, W, p, i), Depth(i) = 1
  PROVE  InHand(Take(c, FreeCluster(c)), W, p, Extended(i, FreeCluster(c)))
<1> DEFINE f == FreeCluster(c)
           e == Take(c, f)
           j == Extended(i, f)
<1>1. /\ p \in W /\ GoodINode(i) /\ Reach(c, i) \subseteq Marked(c) \ {p}
      /\ \A q \in W \ {p} : Reach(c, i) \cap Owned(c, q) = {}
  BY DEF InHand
<1>2. /\ Marked(e) = Marked(c) \cup {f} /\ f \notin Marked(c)
      /\ \A q \in W : Owned(e, q) = Owned(c, q)
  BY TakeKeeps
<1>3. GoodINode(j) /\ Reach(e, j) \subseteq {f} \cup Pointers(i)
  BY <1>1, ExtendedIs
<1> HIDE DEF f, e, j
<1>4. \A q \in W : Owned(c, q) \subseteq Marked(c) /\ q \in Marked(c)
  BY FilesAre
<1>5. Pointers(i) \subseteq Reach(c, i)
  BY DEF Reach
<1>6. Reach(e, j) \subseteq Marked(e) \ {p}
  BY <1>1, <1>2, <1>3, <1>4, <1>5
<1>7. \A q \in W \ {p} : Reach(e, j) \cap Owned(e, q) = {}
  BY <1>1, <1>2, <1>3, <1>4, <1>5
<1>8. InHand(e, W, p, j)
  BY <1>1, <1>3, <1>6, <1>7 DEF InHand
<1> QED
  BY <1>8 DEF f, e, j

\* A cluster that is nobody's becomes an inode.
LEMMA CreateIs ==
  ASSUME NEW c, NEW W, Proper(c), FilesApart(c, W), NEW p \in Marked(c) \ Taken(c, W)
  PROVE  LET e == writeCluster(c, p, NewINode)
         IN /\ Proper(e) /\ FilesApart(e, W \cup {p}) /\ Keeps(c, e, W)
            /\ getINode(e, p) = NewINode /\ \A q \in W : getINode(e, q) = getINode(c, q)
<1> DEFINE e == writeCluster(c, p, NewINode)
<1>1. Taken(c, W) \subseteq Marked(c) /\ \A q \in W : Owned(c, q) \subseteq Taken(c, W) /\ q \in Owned(c, q)
  BY FilesAre DEF Taken, Owned
<1>2. /\ Proper(e) /\ Marked(e) = Marked(c)
      /\ \A k \in 0 .. 7 : e[p + k] = NewINode[k]
      /\ \A n \in DOMAIN c : n \notin ClusterOf(p) => e[n] = c[n]
      /\ \A x \in Marked(c) \ {p} : \A n \in ClusterOf(x) : e[n] = c[n]
  BY WriteIs
<1> HIDE DEF e
<1>3. \A x \in Taken(c, W) : \A n \in ClusterOf(x) : e[n] = c[n]
  BY <1>1, <1>2
<1>4. /\ FilesApart(e, W)
      /\ \A q \in W : getINode(e, q) = getINode(c, q) /\ Owned(e, q) = Owned(c, q)
  BY <1>2, <1>3, FilesSame
<1>5. Keeps(c, e, W)
  <2>1. e[0] = c[0]
    BY <1>2, InsideKeepsFirst
  <2> QED
    BY <1>1, <1>3, <2>1 DEF Keeps
<1>6. GoodINode(NewINode) /\ Reach(e, NewINode) = {}
  BY NewINodeIsGood
<1>7. getINode(e, p) = NewINode
  BY <1>2, <1>6, INodeWritten
<1>8. Owned(e, p) = {p}
  BY <1>6, <1>7 DEF Owned
<1>9. p \notin W /\ \A q \in W : p \notin Owned(e, q)
  BY <1>1, <1>4
<1>10. FilesApart(e, W \cup {p})
  <2>1. ASSUME NEW q \in W \cup {p}
        PROVE  GoodINode(getINode(e, q)) /\ Owned(e, q) \subseteq Marked(e) /\ q \notin Reach(e, getINode(e, q))
    <3>1. CASE q = p
      BY <1>2, <1>6, <1>7, <1>8, <3>1
    <3>2. CASE q \in W
      BY <1>4, <3>2 DEF FilesApart
    <3> QED
      BY <3>1, <3>2
  <2>2. ASSUME NEW q \in W \cup {p}, NEW r \in W \cup {p}, q # r PROVE Owned(e, q) \cap Owned(e, r) = {}
    <3>1. CASE q = p
      BY <1>8, <1>9, <2>2, <3>1
    <3>2. CASE r = p
      BY <1>8, <1>9, <2>2, <3>2
    <3>3. CASE q \in W /\ r \in W
      BY <1>4, <2>2, <3>3 DEF FilesApart
    <3> QED
      BY <3>1, <3>2, <3>3
  <2> QED
    BY <2>1, <2>2 DEF FilesApart
<1> QED
  BY <1>2, <1>4, <1>5, <1>7, <1>10 DEF e

\* What a file reads stays if its clusters and the superblock do.
LEMMA ReadsSame ==
  ASSUME NEW c, NEW W, Proper(c), FilesApart(c, W), NEW e, Proper(e), NEW Q, Keeps(c, e, Q),
         NEW q \in W, q \in Q, NEW b \in Nat
  PROVE  readFileBlock(e, q, b) = readFileBlock(c, q, b)
<1> DEFINE i == getINode(c, q)
<1>1. /\ GoodINode(i) /\ Owned(c, q) = {q} \cup Reach(c, i) /\ Owned(c, q) \subseteq Marked(c)
  BY DEF FilesApart, Owned
<1>2. \A x \in Owned(c, q) : \A n \in ClusterOf(x) : e[n] = c[n]
  BY DEF Keeps
<1>3. getINode(e, q) = i
  BY <1>2, FilesAre, OwnedSame
<1> HIDE DEF i
<1>4. CASE bytesTotal(b) > i[0].size
  BY <1>3, <1>4 DEF readFileBlock, i
<1>5. CASE ~(bytesTotal(b) > i[0].size)
  <2>1. bytesTotal(b) <= getSize(Depth(i))
    <3>1. bytesTotal(b) \in Nat /\ i[0].size \in Nat /\ i[0].size <= getSize(Depth(i))
      BY <1>1, BlockAssumption DEF bytesTotal, GoodINode, Depth
    <3>2. Depth(i) \in {0, 1, 2}
      BY <1>1 DEF GoodINode, Depth
    <3>3. getSize(Depth(i)) \in Nat
      BY <3>2, SizesGrow
    <3> HIDE DEF Depth
    <3> QED
      BY <1>5, <3>1, <3>3
  <2>2. CASE Depth(i) = 0
    <3>1. getBlockPointer(c, i, b) = -1 /\ getBlockPointer(e, i, b) = -1
      BY <2>2 DEF getBlockPointer
    <3> QED
      BY <1>3, <1>5, <3>1 DEF readFileBlock, i
  <2>3. CASE Depth(i) # 0
    <3>1. getBlockPointer(e, i, b) = getBlockPointer(c, i, b)
      <4>1. \A x \in Pointers(i) : x \in Reach(c, i) /\ x \in Nat
        BY <1>1, MarkedIs DEF Reach
      <4> DEFINE g == 16 * BlockSize
                 y == 4 * ((b % g) \div 8)
                 top == extractInt(i, 0, dataStart + 4 * (b \div g))
      <4>2. CASE Depth(i) = 1
        BY <4>2 DEF getBlockPointer
      <4>3. CASE Depth(i) = 2
        <5>1. getGapSizeBlocks(0, 2) = g /\ getGapSizeBlocks(1, 2) = 8
          BY GapsAre
        <5>2. getBlockPointer(c, i, b) = extractInt(c, top, y) /\ getBlockPointer(e, i, b) = extractInt(e, top, y)
          <6> HIDE DEF g
          <6> QED
            BY <4>3, <5>1 DEF getBlockPointer
        <5>3. y \in Nat /\ y < 8 * BlockSize
          BY IndexesAre
        <5>4. y \div BlockSize \in 0 .. 7
          <6> HIDE DEF y
          <6> QED
            BY <5>3, ExtractIs
        <5>5. top \in {0} \cup Pointers(i)
          BY <2>1, <4>3, <1>1, TopIs
        <5> HIDE DEF y, top
        <5>6. CASE top = 0
          <6>1. /\ \A k \in 0 .. 7 : c[k].kind # "ptr"
                /\ \A k \in 0 .. 7 : e[k].kind # "ptr"
            <7>1. \A k \in 0 .. 7 : c[k].kind # "ptr"
              BY DEF Proper, clusterSize
            <7>2. \A k \in 0 .. 7 : e[k].kind # "ptr"
              BY DEF Proper, clusterSize
            <7> QED
              BY <7>1, <7>2
          <6>2. top + y \div BlockSize \in 0 .. 7
            BY <5>4, <5>6
          <6>3. extractInt(c, top, y) = 0 /\ extractInt(e, top, y) = 0
            BY <6>1, <6>2 DEF extractInt
          <6> QED
            BY <5>2, <6>3
        <5>7. CASE top \in Pointers(i)
          <6>1. top + y \div BlockSize \in ClusterOf(top)
            BY <4>1, <5>4, <5>7 DEF ClusterOf, clusterSize
          <6>2. e[top + y \div BlockSize] = c[top + y \div BlockSize]
            BY <1>1, <1>2, <4>1, <5>7, <6>1
          <6>3. extractInt(e, top, y) = extractInt(c, top, y)
            BY <6>2 DEF extractInt
          <6> QED
            BY <5>2, <6>3
        <5> QED
          BY <5>5, <5>6, <5>7
      <4>4. Depth(i) \in {0, 1, 2}
        BY <1>1 DEF GoodINode, Depth
      <4> QED
        BY <2>3, <4>2, <4>3, <4>4
    <3>2. getBlockPointer(c, i, b) \in {0} \cup Reach(c, i)
      BY <1>1, <2>1, <2>3, BlockPointerIs
    <3>3. \A x \in Reach(c, i) : x \in ClusterOf(x)
      BY <1>1, MarkedIs
    <3>4. e[getBlockPointer(c, i, b)] = c[getBlockPointer(c, i, b)]
      BY <1>1, <1>2, <3>2, <3>3 DEF Keeps
    <3>5. getBlockPointer(c, i, b) # -1
      <4>1. \A x \in Reach(c, i) : x \in Nat
        BY <1>1, MarkedIs
      <4> QED
        BY <3>2, <4>1
    <3> QED
      BY <1>3, <1>5, <3>1, <3>4, <3>5 DEF readFileBlock, i
  <2> QED
    BY <2>2, <2>3
<1> QED
  BY <1>4, <1>5

-----------------------------------------------------------------------------
(* The first blocks of a file, in its inode.                               *)

LEMMA ContentsStay ==
  ASSUME NEW c, NEW e, NEW w, Contents(c, w), \A q \in DOMAIN w : getINode(e, q) = getINode(c, q)
  PROVE  Contents(e, w)
BY DEF Contents

\* blocks behind the size are behind the blocks that the size fills
LEMMA BytesAre ==
  ASSUME NEW b \in Nat
  PROVE  /\ bytesTotal(b) \in Nat /\ bytesTotal(b) > 0
         /\ \A s \in Nat : s \div BlockSize \in Nat /\ (bytesTotal(b) > s <=> b >= s \div BlockSize)
         /\ \A a \in Nat : bytesTotal(a) <= bytesTotal(b) <=> a <= b
         /\ bytesTotal(b) <= getSize(0) => b <= 6
<1> DEFINE z == BlockSize
<1>1. z \in Nat \ {0}
  BY BlockAssumption
<1>2. \A a \in Nat : bytesTotal(a) = (a + 1) * z
  BY DEF bytesTotal
<1>3. getSize(0) = 7 * z
  BY <1>1 DEF getSize, inlineSize, clusterByteSize, clusterSize, dataStart
<1> HIDE DEF z
<1>4. \A m, k \in Nat : m <= k => m * z <= k * z
  BY <1>1
<1>5. \A m \in Nat : m * z \in Nat /\ (m + 1) * z = m * z + z
  BY <1>1
<1>6. bytesTotal(b) \in Nat /\ bytesTotal(b) > 0
  BY <1>1, <1>2, <1>5
<1>7. ASSUME NEW s \in Nat PROVE s \div z \in Nat /\ (bytesTotal(b) > s <=> b >= s \div z)
  <2> DEFINE q == s \div z
             r == s % z
  <2>1. q \in Nat /\ r \in 0 .. z - 1 /\ s = z * q + r
    BY <1>1, DivIs
  <2> HIDE DEF q, r
  <2>2. z * q = q * z /\ q * z \in Nat /\ b * z \in Nat
    BY <1>1, <1>5, <2>1
  <2>3. ASSUME b >= q PROVE bytesTotal(b) > s
    <3>1. q * z <= b * z
      BY <1>4, <2>1, <2>3
    <3> QED
      BY <1>1, <1>2, <1>5, <2>1, <2>2, <3>1
  <2>4. ASSUME b < q PROVE ~(bytesTotal(b) > s)
    <3>1. (b + 1) * z <= q * z
      BY <1>4, <2>1, <2>4
    <3> QED
      BY <1>1, <1>2, <1>6, <2>1, <2>2, <3>1
  <2>5. q \in Nat /\ (bytesTotal(b) > s <=> b >= q)
    BY <2>1, <2>3, <2>4
  <2> QED
    BY <2>5 DEF q
<1>8. ASSUME NEW a \in Nat PROVE bytesTotal(a) <= bytesTotal(b) <=> a <= b
  <2>1. bytesTotal(a) = a * z + z /\ bytesTotal(b) = b * z + z /\ a * z \in Nat /\ b * z \in Nat
    BY <1>2, <1>5
  <2>2. ASSUME a > b PROVE ~(bytesTotal(a) <= bytesTotal(b))
    <3>1. (b + 1) * z <= a * z
      BY <1>4, <2>2
    <3>2. b * z + z <= a * z
      BY <1>5, <3>1
    <3> QED
      BY <1>1, <2>1, <3>2
  <2>3. ASSUME a <= b PROVE bytesTotal(a) <= bytesTotal(b)
    <3>1. a * z <= b * z
      BY <1>4, <2>3
    <3> QED
      BY <1>1, <2>1, <3>1
  <2> QED
    BY <2>2, <2>3
<1>9. ASSUME bytesTotal(b) <= getSize(0) PROVE b <= 6
  <2> SUFFICES ASSUME b >= 7 PROVE FALSE
    OBVIOUS
  <2>1. 7 * z <= b * z /\ bytesTotal(b) = b * z + z /\ b * z \in Nat
    BY <1>2, <1>4, <1>5
  <2> QED
    BY <1>1, <1>3, <1>9, <2>1
<1> QED
  BY <1>6, <1>7, <1>8, <1>9 DEF z

\* what a block holds of a value that is written
Stored(v) == IF v = Zero THEN ZeroBlock ELSE DataBlock(v)
LEMMA StoredIs == \A v : Value(Stored(v)) = v /\ Stored(v).kind # "ptr"
BY DEF Stored, Value, ZeroBlock, DataBlock

\* the block and zeros in front of it are stored in the inode
Inlined(i, n, v) ==
  LET size == i[0].size
      sized == [i EXCEPT ![0].size = Max({size, bytesTotal(n)})]
      gap == size \div BlockSize .. n - 1
  IN [k \in 0 .. clusterSize - 1 |->
        CASE k - 1 = n -> Stored(v) [] k - 1 \in gap -> ZeroBlock [] OTHER -> sized[k]]

LEMMA InlinedIs ==
  ASSUME NEW i, GoodINode(i), Depth(i) = 0, NEW n \in Blocks, bytesTotal(n) <= getSize(0), NEW v,
         NEW w, w = [b \in Blocks |-> w[b]], Agrees(i, w)
  PROVE  LET j == Inlined(i, n, v)
         IN GoodINode(j) /\ Depth(j) = 0 /\ Agrees(j, [w EXCEPT ![n] = v])
<1> DEFINE s == i[0].size
           t == Max({s, bytesTotal(n)})
           sized == [i EXCEPT ![0].size = t]
           gap == s \div BlockSize .. n - 1
           j == Inlined(i, n, v)
<1>1. n \in Nat /\ s \in Nat /\ s <= getSize(0) /\ getSize(0) \in Nat /\ bytesTotal(n) \in Nat
      /\ s \div BlockSize \in Nat
  <2>1. n \in Nat
    BY BlocksAssumption
  <2>2. s \in Nat /\ s <= getSize(0)
    BY DEF GoodINode, Depth
  <2> QED
    BY <2>1, <2>2, SizesGrow, BytesAre
<1>2. t \in Nat /\ t <= getSize(0) /\ s <= t /\ bytesTotal(n) <= t /\ (t = s \/ t = bytesTotal(n))
  <2> HIDE DEF s
  <2> QED
    BY <1>1, MaxIs
<1>3. j = [k \in 0 .. 7 |-> CASE k - 1 = n -> Stored(v) [] k - 1 \in gap -> ZeroBlock [] OTHER -> sized[k]]
  BY DEF Inlined, clusterSize
<1>4. GoodINode(sized) /\ Depth(sized) = 0 /\ sized[0].size = t /\ \A k \in 1 .. 7 : sized[k] = i[k]
  <2> HIDE DEF t
  <2> QED
    BY <1>2, SizedIs
<1> HIDE DEF j, sized, t, s
<1>5. n \notin gap /\ -1 \notin gap /\ n # -1
  BY <1>1
<1>6. j[0] = sized[0]
  <2>1. 0 \in 0 .. 7 /\ 0 - 1 = -1
    OBVIOUS
  <2> HIDE DEF gap
  <2> QED
    BY <1>3, <1>5, <2>1
<1>7. j = [k \in 0 .. 7 |-> j[k]]
  BY <1>3
<1>8. GoodINode(j) /\ Depth(j) = 0 /\ j[0].size = t
  BY <1>4, <1>6, <1>7 DEF GoodINode, Depth, clusterSize
<1>9. \A b \in 0 .. 6 : /\ b = n => j[1 + b] = Stored(v)
                        /\ b \in gap => j[1 + b] = ZeroBlock
                        /\ b # n /\ b \notin gap => j[1 + b] = i[1 + b]
  <2> SUFFICES ASSUME NEW b \in 0 .. 6
               PROVE  /\ b = n => j[1 + b] = Stored(v)
                      /\ b \in gap => j[1 + b] = ZeroBlock
                      /\ b # n /\ b \notin gap => j[1 + b] = i[1 + b]
    OBVIOUS
  <2>1. 1 + b \in 0 .. 7 /\ 1 + b \in 1 .. 7 /\ (1 + b) - 1 = b
    OBVIOUS
  <2> HIDE DEF gap
  <2> DEFINE k == 1 + b
  <2>2. k \in 0 .. 7 /\ k \in 1 .. 7 /\ k - 1 = b
    BY <2>1
  <2> HIDE DEF k
  <2>3. j[k] = CASE k - 1 = n -> Stored(v) [] k - 1 \in gap -> ZeroBlock [] OTHER -> sized[k]
    BY <1>3, <2>2
  <2>4. /\ b = n => j[k] = Stored(v)
        /\ b \in gap => j[k] = ZeroBlock
        /\ b # n /\ b \notin gap => j[k] = i[k]
    BY <1>4, <1>5, <2>2, <2>3
  <2> QED
    BY <2>4 DEF k
<1>10. ASSUME NEW b \in Blocks
       PROVE  IF bytesTotal(b) > j[0].size THEN [w EXCEPT ![n] = v][b] = Zero
              ELSE Value(j[1 + b]) = [w EXCEPT ![n] = v][b]
  <2>1. b \in Nat /\ bytesTotal(b) \in Nat
    <3>1. b \in Nat
      BY BlocksAssumption
    <3> QED
      BY <3>1, BytesAre
  <2>2. IF bytesTotal(b) > s THEN w[b] = Zero ELSE Value(i[1 + b]) = w[b]
    BY DEF Agrees, s
  <2>3. bytesTotal(b) > s <=> b >= s \div BlockSize
    BY <1>1, <2>1, BytesAre
  <2>4. bytesTotal(b) <= t => b \in 0 .. 6
    <3> SUFFICES ASSUME bytesTotal(b) <= t PROVE b \in 0 .. 6
      OBVIOUS
    <3>1. bytesTotal(b) <= getSize(0)
      BY <1>1, <1>2, <2>1
    <3>2. b <= 6
      BY <2>1, <3>1, BytesAre
    <3> QED
      BY <2>1, <3>2
  <2>5. bytesTotal(b) <= bytesTotal(n) <=> b <= n
    BY <1>1, <2>1, BytesAre
  <2>6. CASE b = n
    <3>1. b \in 0 .. 6 /\ ~(bytesTotal(b) > t)
      BY <1>2, <2>1, <2>4, <2>6
    <3>2. Value(j[1 + b]) = v
      BY <1>9, <2>6, <3>1, StoredIs
    <3>3. [w EXCEPT ![n] = v][b] = v
      BY <2>6
    <3> QED
      BY <1>8, <3>1, <3>2, <3>3
  <2>7. CASE b # n
    <3>1. [w EXCEPT ![n] = v][b] = w[b]
      BY <2>7
    <3>2. CASE bytesTotal(b) > t
      <4>1. bytesTotal(b) > s
        BY <1>1, <1>2, <2>1, <3>2
      <4> QED
        BY <1>8, <2>2, <3>1, <3>2, <4>1
    <3>3. CASE bytesTotal(b) <= t /\ bytesTotal(b) > s
      <4>1. b < n
        BY <1>1, <1>2, <2>1, <2>5, <2>7, <3>3
      <4>2. b \in gap
        BY <1>1, <2>1, <2>3, <3>3, <4>1
      <4>3. j[1 + b] = ZeroBlock
        BY <1>9, <2>4, <3>3, <4>2
      <4>4. Value(j[1 + b]) = Zero
        BY <4>3 DEF Value, ZeroBlock
      <4>5. w[b] = Zero /\ ~(bytesTotal(b) > t)
        BY <1>2, <2>1, <2>2, <3>3
      <4> QED
        BY <1>8, <3>1, <4>4, <4>5
    <3>4. CASE bytesTotal(b) <= s
      <4>1. ~(bytesTotal(b) > s) /\ ~(bytesTotal(b) > t) /\ bytesTotal(b) <= t
        BY <1>1, <1>2, <2>1, <3>4
      <4>2. b \notin gap
        BY <1>1, <2>1, <2>3, <4>1
      <4>3. j[1 + b] = i[1 + b]
        <5> HIDE DEF gap
        <5> QED
          BY <1>9, <2>4, <2>7, <4>1, <4>2
      <4> QED
        BY <1>8, <2>2, <3>1, <4>1, <4>3
    <3> QED
      BY <1>1, <1>2, <2>1, <3>2, <3>3, <3>4
  <2> QED
    BY <2>6, <2>7
<1> QED
  BY <1>8, <1>10 DEF Agrees, j

\* the block and zeros in front of it are stored in clusters of the file
Placed(c, i, n, v) ==
  LET at(b) == getBlockPointer(c, i, b)
      gap == i[0].size \div BlockSize .. n - 1
  IN [x \in DOMAIN c |-> IF x # 0 /\ x = at(n) THEN Stored(v)
                         ELSE IF x # 0 /\ x \in {at(b) : b \in gap} THEN ZeroBlock ELSE c[x]]

LEMMA PlacedIs ==
  ASSUME NEW c, NEW W, Proper(c), FilesApart(c, W), NEW p, NEW i, InHand(c, W, p, i), Depth(i) # 0,
         NEW n \in Nat, bytesTotal(n) <= getSize(Depth(i)), NEW v
  PROVE  LET e == Placed(c, i, n, v)
         IN /\ Proper(e) /\ FilesApart(e, W) /\ InHand(e, W, p, i)
            /\ Keeps(c, e, W \ {p}) /\ \A q \in W : getINode(e, q) = getINode(c, q)
<1> DEFINE e == Placed(c, i, n, v)
           at(b) == getBlockPointer(c, i, b)
           gap == i[0].size \div BlockSize .. n - 1
<1>1. GoodINode(i) /\ Reach(c, i) \subseteq Marked(c)
  BY DEF InHand
<1>2. i[0].size \div BlockSize \in Nat
  <2>1. i[0].size \in Nat
    BY <1>1 DEF GoodINode
  <2> QED
    BY <2>1, BytesAre
<1>3. \A b \in Nat : b <= n => at(b) \in {0} \cup Reach(c, i)
  <2> SUFFICES ASSUME NEW b \in Nat, b <= n PROVE at(b) \in {0} \cup Reach(c, i)
    OBVIOUS
  <2>1. bytesTotal(b) <= bytesTotal(n) /\ bytesTotal(b) \in Nat /\ bytesTotal(n) \in Nat
    BY BytesAre
  <2>2. getSize(Depth(i)) \in Nat
    <3>1. Depth(i) \in {0, 1, 2}
      BY <1>1 DEF GoodINode, Depth
    <3> HIDE DEF Depth
    <3> QED
      BY <3>1, SizesGrow
  <2>3. bytesTotal(b) <= getSize(Depth(i))
    BY <2>1, <2>2
  <2> QED
    BY <1>1, <2>3, BlockPointerIs
<1>4. \A b \in gap : b \in Nat /\ b <= n
  BY <1>2
<1>5. e = [x \in DOMAIN c |-> IF x # 0 /\ x = at(n) THEN Stored(v)
                              ELSE IF x # 0 /\ x \in {at(b) : b \in gap} THEN ZeroBlock ELSE c[x]]
  BY DEF Placed
<1> HIDE DEF e, at, gap
<1>6. e = [x \in DOMAIN c |-> e[x]]
  BY <1>5
<1>7. ASSUME NEW x \in DOMAIN c PROVE e[x] = c[x] \/ (x \in Reach(c, i) /\ e[x].kind # "ptr")
  <2>1. CASE x # 0 /\ x = at(n)
    <3>1. e[x] = Stored(v)
      BY <1>5, <2>1
    <3> QED
      BY <1>3, <2>1, <3>1, StoredIs
  <2>2. CASE ~(x # 0 /\ x = at(n)) /\ x # 0 /\ x \in {at(b) : b \in gap}
    <3>1. e[x] = ZeroBlock
      BY <1>5, <2>2
    <3>2. x \in Reach(c, i)
      BY <1>3, <1>4, <2>2
    <3> QED
      BY <3>1, <3>2 DEF ZeroBlock
  <2>3. CASE ~(x # 0 /\ x = at(n)) /\ ~(x # 0 /\ x \in {at(b) : b \in gap})
    BY <1>5, <2>3
  <2> QED
    BY <2>1, <2>2, <2>3
<1>8. /\ Proper(e) /\ FilesApart(e, W) /\ InHand(e, W, p, i)
      /\ Keeps(c, e, W \ {p}) /\ \A q \in W : getINode(e, q) = getINode(c, q)
  BY <1>6, <1>7, StoreIs
<1> QED
  BY <1>8 DEF e

-----------------------------------------------------------------------------
(* The steps.                                                              *)

\* the files of d that a step leaves to themselves, and what it owes them
Bystanders(d) ==
  {p \in DOMAIN wrote[d] : p \in DOMAIN wrote'[d] /\ ~(d = used /\ "pos" \in DOMAIN op /\ op.pos = p)}
Undisturbed == \A d \in Disc : Keeps(disc[d], disc'[d], Bystanders(d))

\* a step writes to one disc
LEMMA PutKeeps ==
  ASSUME DiscInv, NEW u \in Disc, NEW e, NEW w,
         disc' = [disc EXCEPT ![u] = e], wrote' = [wrote EXCEPT ![u] = w],
         DiscGood(e, w), Keeps(disc[u], e, Bystanders(u))
  PROVE  DiscInv' /\ Undisturbed /\ disc'[u] = e /\ wrote'[u] = w
<1>1. disc = [d \in Disc |-> disc[d]] /\ wrote = [d \in Disc |-> wrote[d]]
      /\ \A d \in Disc : DiscGood(disc[d], wrote[d])
  BY DEF DiscInv
<1>2. /\ disc'[u] = e /\ wrote'[u] = w
      /\ disc' = [d \in Disc |-> disc'[d]] /\ wrote' = [d \in Disc |-> wrote'[d]]
      /\ \A d \in Disc : d # u => disc'[d] = disc[d] /\ wrote'[d] = wrote[d]
  BY <1>1
<1>3. \A d \in Disc : DiscGood(disc'[d], wrote'[d])
  BY <1>1, <1>2
<1>4. DiscInv'
  BY <1>2, <1>3 DEF DiscInv
<1>5. \A d \in Disc : Keeps(disc[d], disc'[d], Bystanders(d))
  BY <1>2 DEF Keeps
<1> QED
  BY <1>2, <1>4, <1>5 DEF Undisturbed

\* or to none
LEMMA StillKeeps ==
  ASSUME DiscInv, disc' = disc, wrote' = wrote
  PROVE  DiscInv' /\ Undisturbed
<1>1. DiscInv'
  BY DEF DiscInv
<1> QED
  BY <1>1 DEF Undisturbed, Keeps

\* no operation is going on, or there is one and this is what it has in hand
LEMMA OpIsIs ==
  ASSUME DiscInv, OpInv
  PROVE  /\ Idle => op = Menu
         /\ op.pc # "menu" => /\ used \in Disc /\ OpIs(op, Current, wrote[used])
                              /\ DiscGood(Current, wrote[used])
<1>1. Menu.pc = "menu"
  BY DEF Menu
<1>2. OpIs(op, Current, wrote[used]) => op.pc # "menu"
  BY DEF OpIs, Writing
<1>3. used \in Disc => DiscGood(Current, wrote[used])
  BY DEF DiscInv, Current
<1> QED
  BY <1>1, <1>2, <1>3 DEF OpInv, Idle

\* the operation goes on, or ends
LEMMA OpKeeps ==
  ASSUME used \in Disc, open' = open, num' = num, NEW o, NEW e, NEW w, op' = o,
         disc'[used] = e, wrote'[used] = w, o = Menu \/ OpIs(o, e, w)
  PROVE  OpInv'
<1>1. used' = used
  BY DEF used
<1>2. Current' = e /\ wrote'[used'] = w
  BY <1>1 DEF Current
<1>3. op' = Menu \/ (used' \in Disc /\ OpIs(op', Current', wrote'[used']))
  BY <1>1, <1>2
<1> QED
  BY <1>3 DEF OpInv

LEMMA KeepsFewer ==
  ASSUME NEW c, NEW e, NEW Q, Keeps(c, e, Q), NEW R, R \subseteq Q PROVE Keeps(c, e, R)
BY DEF Keeps

LEMMA NoFilesIs == DOMAIN << >> = {} /\ << >> = [p \in {} |-> << >>[p]]
OBVIOUS

\* a disc without files
LEMMA NoFilesGood == ASSUME NEW c, Proper(c) PROVE DiscGood(c, << >>)
<1>1. FilesApart(c, {})
  BY DEF FilesApart
<1>2. Contents(c, << >>)
  BY NoFilesIs DEF Contents
<1> QED
  BY <1>1, <1>2, NoFilesIs DEF DiscGood

LEMMA InitIs == Init => FileInv
<1> SUFFICES ASSUME Init PROVE FileInv
  OBVIOUS
<1>1. ListInv
  BY MountedIsListed DEF Init
<1>2. num \in Fd
  BY DiscAssumption, MinIs DEF Init
<1>3. disc = [d \in Disc |-> disc[d]] /\ \A d \in Disc : Proper(disc[d])
  BY DiscsAssumption DEF Init
<1>4. wrote = [d \in Disc |-> << >>]
  BY DEF Init
<1>5. DiscInv
  BY <1>3, <1>4, NoFilesGood DEF DiscInv
<1>6. OpInv
  BY DEF Init, OpInv
<1> QED
  BY <1>1, <1>2, <1>5, <1>6 DEF FileInv

\* Outside an operation
LEMMA QuietKeeps ==
  ASSUME DiscInv, OpInv, Idle, UNCHANGED <<disc, wrote, op>>
  PROVE  DiscInv' /\ OpInv' /\ Undisturbed
<1>1. op' = Menu
  BY OpIsIs
<1> QED
  BY <1>1, StillKeeps DEF OpInv

LEMMA CrashKeeps == ASSUME DiscInv, Crash PROVE DiscInv' /\ OpInv' /\ Undisturbed
<1>1. op' = Menu /\ disc' = disc /\ wrote' = wrote
  BY DEF Crash
<1> QED
  BY <1>1, StillKeeps DEF OpInv

LEMMA CreateDiskKeeps ==
  ASSUME DiscInv, OpInv, NEW d \in Disc, CreateDisk(d) PROVE DiscInv' /\ OpInv' /\ Undisturbed
<1> DEFINE e == NewDisc(Cardinality(DOMAIN disc[d]))
<1>1. disc' = [disc EXCEPT ![d] = e] /\ wrote' = [wrote EXCEPT ![d] = << >>] /\ op' = op /\ Idle
  BY DEF CreateDisk, AtRoot
<1>2. Proper(e)
  <2>1. Proper(disc[d])
    BY DEF DiscInv, DiscGood
  <2>2. Cardinality(DOMAIN disc[d]) \in Nat /\ Cardinality(DOMAIN disc[d]) >= 16
    BY <2>1 DEF Proper, clusterSize
  <2> QED
    BY <2>2, NewDiscIs
<1> HIDE DEF e
<1>3. Bystanders(d) = {}
  <2>1. wrote'[d] = << >>
    BY <1>1 DEF DiscInv
  <2> QED
    BY <2>1, NoFilesIs DEF Bystanders
<1>4. DiscInv' /\ Undisturbed
  BY <1>1, <1>2, <1>3, NoFilesGood, PutKeeps DEF Keeps
<1>5. OpInv'
  BY <1>1, OpIsIs DEF OpInv
<1> QED
  BY <1>4, <1>5

\* the disc of a number that is open
LEMMA OpenIs == ASSUME ListInv, NEW n \in Fd, open[n] # NoDisc PROVE open[n] \in Disc
BY DEF ListInv

\* with its bytes as they are
LEMMA TakeGood ==
  ASSUME NEW c, NEW w, DiscGood(c, w), FreeCluster(c) # 0
  PROVE  LET e == Take(c, FreeCluster(c))
         IN DiscGood(e, w) /\ Keeps(c, e, DOMAIN w)
<1> DEFINE e == Take(c, FreeCluster(c))
<1>1. Proper(e) /\ FilesApart(e, DOMAIN w)
  BY TakeKeeps DEF DiscGood
<1>2. Keeps(c, e, DOMAIN w) /\ \A q \in DOMAIN w : getINode(e, q) = getINode(c, q)
  BY TakeKeepsAll DEF DiscGood
<1> HIDE DEF e
<1>3. Contents(e, w)
  BY <1>2, ContentsStay DEF DiscGood
<1> QED
  BY <1>1, <1>2, <1>3 DEF DiscGood, e

LEMMA GetFreeClusterKeeps ==
  ASSUME ListInv, DiscInv, OpInv, NEW n \in Fd, GetFreeCluster(n) PROVE DiscInv' /\ OpInv' /\ Undisturbed
<1> DEFINE d == open[n]
           f == IF d = NoDisc THEN 0 ELSE FreeCluster(disc[d])
           e == Take(disc[d], f)
<1>1. /\ disc' = (IF f = 0 THEN disc ELSE [disc EXCEPT ![d] = Take(@, f)])
      /\ wrote' = wrote /\ op' = op /\ Idle
  BY DEF GetFreeCluster, InDisk
<1>2. OpInv'
  BY <1>1, OpIsIs DEF OpInv
<1>3. CASE f = 0
  BY <1>1, <1>2, <1>3, StillKeeps
<1>4. CASE f # 0
  <2>1. d \in Disc /\ f = FreeCluster(disc[d])
    BY <1>4, OpenIs
  <2>2. DiscGood(disc[d], wrote[d]) /\ wrote = [k \in Disc |-> wrote[k]] /\ disc = [k \in Disc |-> disc[k]]
    BY <2>1 DEF DiscInv
  <2>3. DiscGood(e, wrote[d]) /\ Keeps(disc[d], e, DOMAIN wrote[d])
    BY <1>4, <2>1, <2>2, TakeGood
  <2>4. disc' = [disc EXCEPT ![d] = e]
    BY <1>1, <1>4
  <2> HIDE DEF e, d, f
  <2>5. wrote' = [wrote EXCEPT ![d] = wrote[d]]
    BY <1>1, <2>1, <2>2
  <2>6. Keeps(disc[d], e, Bystanders(d))
    BY <2>3, KeepsFewer DEF Bystanders
  <2>7. DiscInv' /\ Undisturbed
    BY <2>1, <2>3, <2>4, <2>5, <2>6, PutKeeps
  <2> QED
    BY <1>2, <2>7
<1> QED
  BY <1>3, <1>4

-----------------------------------------------------------------------------
(* Formatting, and a new inode.                                            *)

LEMMA FormatDiskFullKeeps ==
  ASSUME ListInv, num \in Fd, DiscInv, OpInv, FormatDiskFull PROVE DiscInv' /\ OpInv' /\ Undisturbed
<1> DEFINE e == FormatMap(Current)
           o == [pc |-> "format"]
<1>1. /\ used # NoDisc /\ disc' = [disc EXCEPT ![used] = e] /\ wrote' = [wrote EXCEPT ![used] = << >>]
      /\ op' = o /\ open' = open /\ num' = num
  BY DEF FormatDiskFull, Put, Then
<1>2. used \in Disc
  BY <1>1, OpenIs DEF used
<1>3. Proper(Current)
  BY <1>2 DEF DiscInv, DiscGood, Current
<1>4. /\ Proper(e) /\ e[1] = MapBlock({0})
      /\ \A k \in 2 .. SuperOf(Cardinality(DOMAIN e)).mapSize : e[k] = ZeroBlock
  BY <1>3, FormatMapIs
<1> HIDE DEF e
<1>5. DiscGood(e, << >>)
  BY <1>4, NoFilesGood
<1>6. Keeps(disc[used], e, Bystanders(used))
  <2>1. wrote'[used] = << >>
    BY <1>1, <1>2 DEF DiscInv
  <2>2. Bystanders(used) = {}
    BY <2>1, NoFilesIs DEF Bystanders
  <2> QED
    BY <2>2 DEF Keeps
<1>7. DiscInv' /\ Undisturbed /\ disc'[used] = e /\ wrote'[used] = << >>
  BY <1>1, <1>2, <1>5, <1>6, PutKeeps
<1>8. OpIs(o, e, << >>)
  <2>1. FormatInv(o, e, << >>)
    BY <1>4, NoFilesIs DEF FormatInv
  <2> QED
    BY <2>1 DEF OpIs, CreateInv, WriteInv, Writing
<1> HIDE DEF o
<1>9. OpInv'
  BY <1>1, <1>2, <1>7, <1>8, OpKeeps
<1> QED
  BY <1>7, <1>9

LEMMA FinishFormatKeeps ==
  ASSUME DiscInv, OpInv, FinishFormat PROVE DiscInv' /\ OpInv' /\ Undisturbed
<1> DEFINE e == FormatSuper(Current)
           w == wrote[used]
<1>1. op.pc = "format" /\ disc' = [disc EXCEPT ![used] = e] /\ wrote' = wrote /\ op' = Menu
  BY DEF FinishFormat, Put, Then
<1>2. used \in Disc /\ FormatInv(op, Current, w) /\ DiscGood(Current, w)
  BY <1>1, OpIsIs DEF OpIs
<1>3. /\ DOMAIN w = {} /\ Current[1] = MapBlock({0})
      /\ \A k \in 2 .. SuperOf(Cardinality(DOMAIN Current)).mapSize : Current[k] = ZeroBlock
  BY <1>1, <1>2 DEF FormatInv
<1>4. Proper(e)
  BY <1>2, <1>3, FormatSuperIs DEF DiscGood
<1> HIDE DEF e
<1>5. DiscGood(e, w)
  <2>1. FilesApart(e, DOMAIN w)
    BY <1>3 DEF FilesApart
  <2>2. Contents(e, w)
    BY <1>2, <1>3 DEF DiscGood, Contents
  <2> QED
    BY <1>4, <2>1, <2>2 DEF DiscGood
<1>6. Keeps(disc[used], e, Bystanders(used))
  BY <1>3 DEF Keeps, Bystanders
<1>7. wrote' = [wrote EXCEPT ![used] = w]
  BY <1>1, <1>2 DEF DiscInv
<1> HIDE DEF w
<1>8. DiscInv' /\ Undisturbed
  BY <1>1, <1>2, <1>5, <1>6, <1>7, PutKeeps
<1> QED
  BY <1>1, <1>8 DEF OpInv

LEMMA CreateINodeKeeps ==
  ASSUME ListInv, num \in Fd, DiscInv, OpInv, CreateINode PROVE DiscInv' /\ OpInv' /\ Undisturbed
<1> DEFINE f == FreeCluster(Current)
           e == Take(Current, f)
           w == wrote[used]
           o == [pc |-> "create", pos |-> f]
<1>1. /\ used # NoDisc /\ f # 0 /\ disc' = [disc EXCEPT ![used] = e] /\ wrote' = wrote
      /\ op' = o /\ open' = open /\ num' = num
  BY DEF CreateINode, Put, Then, Still
<1>2. used \in Disc
  BY <1>1, OpenIs DEF used
<1>3. DiscGood(Current, w)
  BY <1>2 DEF DiscInv, Current
<1>4. DiscGood(e, w) /\ Keeps(Current, e, DOMAIN w)
  BY <1>1, <1>3, TakeGood
<1>5. f \in Marked(e) \ Taken(e, DOMAIN w)
  BY <1>1, <1>3, TakeKeeps DEF DiscGood
<1> HIDE DEF e, f
<1>6. Keeps(disc[used], e, Bystanders(used))
  BY <1>4, KeepsFewer DEF Bystanders, Current
<1>7. wrote' = [wrote EXCEPT ![used] = w]
  BY <1>1, <1>2 DEF DiscInv
<1>8. OpIs(o, e, w)
  <2>1. o.pc = "create" /\ o.pos = f
    OBVIOUS
  <2> HIDE DEF o
  <2> QED
    BY <1>5, <2>1 DEF OpIs, FormatInv, CreateInv, WriteInv, Writing
<1> HIDE DEF o, w
<1>9. DiscInv' /\ Undisturbed /\ disc'[used] = e /\ wrote'[used] = w
  BY <1>1, <1>2, <1>4, <1>6, <1>7, PutKeeps
<1>10. OpInv'
  BY <1>1, <1>2, <1>8, <1>9, OpKeeps
<1> QED
  BY <1>9, <1>10

LEMMA FinishCreateKeeps ==
  ASSUME DiscInv, OpInv, FinishCreate PROVE DiscInv' /\ OpInv' /\ Undisturbed
<1> DEFINE p == op.pos
           e == writeCluster(Current, p, NewINode)
           w == wrote[used]
           v == [q \in DOMAIN w \cup {p} |-> IF q \in DOMAIN w THEN w[q] ELSE [b \in Blocks |-> Zero]]
<1>1. op.pc = "create" /\ disc' = [disc EXCEPT ![used] = e] /\ op' = Menu
      /\ wrote' = [wrote EXCEPT ![used] =
           [q \in DOMAIN @ \cup {p} |-> IF q \in DOMAIN @ THEN @[q] ELSE [b \in Blocks |-> Zero]]]
  BY DEF FinishCreate, Put, Then
<1>2. used \in Disc /\ CreateInv(op, Current, w) /\ DiscGood(Current, w)
  BY <1>1, OpIsIs DEF OpIs
<1>3. wrote' = [wrote EXCEPT ![used] = v]
  BY <1>1, <1>2 DEF DiscInv
<1>4. p \in Marked(Current) \ Taken(Current, DOMAIN w)
  BY <1>1, <1>2 DEF CreateInv
<1>5. /\ Proper(e) /\ FilesApart(e, DOMAIN w \cup {p}) /\ Keeps(Current, e, DOMAIN w)
      /\ getINode(e, p) = NewINode /\ \A q \in DOMAIN w : getINode(e, q) = getINode(Current, q)
  BY <1>2, <1>4, CreateIs DEF DiscGood
<1> HIDE DEF e
<1>6. DiscGood(e, v)
  <2>1. Agrees(NewINode, [b \in Blocks |-> Zero])
    <3>1. NewINode[0].size = 0
      BY DEF NewINode, clusterSize, Header
    <3>2. \A b \in Blocks : bytesTotal(b) > 0
      BY BlocksAssumption, BytesAre
    <3> QED
      BY <3>1, <3>2 DEF Agrees
  <2>2. Contents(Current, w)
    BY <1>2 DEF DiscGood
  <2>3. DOMAIN v = DOMAIN w \cup {p} /\ v = [q \in DOMAIN v |-> v[q]]
    OBVIOUS
  <2>4. ASSUME NEW q \in DOMAIN v
        PROVE  /\ v[q] = [b \in Blocks |-> v[q][b]]
               /\ Depth(getINode(e, q)) = 0 => Agrees(getINode(e, q), v[q])
    <3>1. CASE q \in DOMAIN w
      <4>1. v[q] = w[q] /\ getINode(e, q) = getINode(Current, q)
        BY <1>5, <3>1
      <4> HIDE DEF v, w
      <4> QED
        BY <2>2, <3>1, <4>1 DEF Contents
    <3>2. CASE q \notin DOMAIN w
      <4>1. v[q] = [b \in Blocks |-> Zero] /\ getINode(e, q) = NewINode
        BY <1>5, <2>3, <3>2
      <4> HIDE DEF v, w
      <4> QED
        BY <2>1, <4>1
    <3> QED
      BY <3>1, <3>2
  <2> HIDE DEF v
  <2>5. Contents(e, v)
    BY <2>3, <2>4 DEF Contents
  <2> QED
    BY <1>5, <2>3, <2>5 DEF DiscGood
<1> HIDE DEF v
<1>7. Keeps(disc[used], e, Bystanders(used))
  BY <1>5, KeepsFewer DEF Bystanders, Current
<1>8. DiscInv' /\ Undisturbed
  BY <1>1, <1>2, <1>3, <1>6, <1>7, PutKeeps
<1> QED
  BY <1>1, <1>8 DEF OpInv

-----------------------------------------------------------------------------
(* Writing a block.                                                        *)

WriteOp(pc, p, n, v, i, m) ==
  [pc |-> pc, pos |-> p, block |-> n, value |-> v, iNode |-> i, cluster |-> m]

\* what is in hand at each point of the operation
LEMMA InHandIs ==
  ASSUME NEW c, NEW w, NEW p, NEW n \in Blocks, NEW v, NEW i, NEW m, NEW pc \in Writing,
         InHand(c, DOMAIN w, p, i),
         pc = "move" => m \in Marked(c) \ (Taken(c, DOMAIN w) \cup Reach(c, i)) /\ Depth(i) < 2,
         pc \in {"cap", "store", "done"} => bytesTotal(n) <= getSize(Depth(i)),
         Depth(i) = 0 => Agrees(i, IF pc = "done" THEN [w[p] EXCEPT ![n] = v] ELSE w[p])
  PROVE  OpIs(WriteOp(pc, p, n, v, i, m), c, w)
<1> DEFINE o == WriteOp(pc, p, n, v, i, m)
<1>1. /\ o.pc = pc /\ o.pos = p /\ o.block = n /\ o.value = v /\ o.iNode = i /\ o.cluster = m
      /\ o = [pc |-> o.pc, pos |-> o.pos, block |-> o.block, value |-> o.value,
              iNode |-> o.iNode, cluster |-> o.cluster]
  BY DEF WriteOp
<1> HIDE DEF o
<1>2. pc \notin {"format", "create"}
  BY DEF Writing
<1>3. WriteInv(o, c, w)
  BY <1>1 DEF WriteInv
<1>4. FormatInv(o, c, w) /\ CreateInv(o, c, w)
  BY <1>1, <1>2 DEF FormatInv, CreateInv
<1>5. OpIs(o, c, w)
  BY <1>1, <1>3, <1>4 DEF OpIs
<1> QED
  BY <1>5 DEF o

LEMMA WritingIs ==
  ASSUME DiscInv, OpInv, op.pc \in Writing
  PROVE  /\ used \in Disc /\ DiscGood(Current, wrote[used])
         /\ op = WriteOp(op.pc, op.pos, op.block, op.value, op.iNode, op.cluster)
         /\ op.block \in Blocks /\ op.block \in Nat
         /\ InHand(Current, DOMAIN wrote[used], op.pos, op.iNode)
         /\ op.pc = "move" =>
              /\ op.cluster \in Marked(Current) \ (Taken(Current, DOMAIN wrote[used]) \cup Reach(Current, op.iNode))
              /\ Depth(op.iNode) < 2
         /\ op.pc \in {"cap", "store", "done"} => Want <= getSize(Depth(op.iNode))
         /\ Depth(op.iNode) = 0 =>
              Agrees(op.iNode, IF op.pc = "done" THEN [wrote[used][op.pos] EXCEPT ![op.block] = op.value]
                               ELSE wrote[used][op.pos])
         /\ Bystanders(used) \subseteq DOMAIN wrote[used] \ {op.pos}
         /\ wrote = [wrote EXCEPT ![used] = wrote[used]] /\ disc = [disc EXCEPT ![used] = Current]
<1>1. op.pc # "menu"
  BY DEF Writing
<1>2. used \in Disc /\ DiscGood(Current, wrote[used]) /\ WriteInv(op, Current, wrote[used])
  BY <1>1, OpIsIs DEF OpIs
<1>3. op = WriteOp(op.pc, op.pos, op.block, op.value, op.iNode, op.cluster)
  BY <1>2 DEF WriteInv, WriteOp
<1>4. op.block \in Blocks /\ op.block \in Nat
  BY <1>2, BlocksAssumption DEF WriteInv
<1>5. "pos" \in DOMAIN op
  <2>1. "pos" \in DOMAIN WriteOp(op.pc, op.pos, op.block, op.value, op.iNode, op.cluster)
    BY DEF WriteOp
  <2> QED
    BY <1>3, <2>1
<1>6. Bystanders(used) \subseteq DOMAIN wrote[used] \ {op.pos}
  BY <1>5 DEF Bystanders
<1>7. wrote = [wrote EXCEPT ![used] = wrote[used]] /\ disc = [disc EXCEPT ![used] = Current]
  BY <1>2 DEF DiscInv, Current
<1> QED
  BY <1>2, <1>3, <1>4, <1>6, <1>7 DEF WriteInv, Want

\* The disc becomes e, the operation goes on with o or ends.
LEMMA WritingKeeps ==
  ASSUME DiscInv, OpInv, op.pc \in Writing, Still, NEW e, NEW w, NEW o,
         disc' = [disc EXCEPT ![used] = e], wrote' = [wrote EXCEPT ![used] = w], op' = o,
         DiscGood(e, w), Keeps(Current, e, DOMAIN wrote[used] \ {op.pos}), o = Menu \/ OpIs(o, e, w)
  PROVE  DiscInv' /\ OpInv' /\ Undisturbed
<1>1. used \in Disc /\ Bystanders(used) \subseteq DOMAIN wrote[used] \ {op.pos}
  BY WritingIs
<1>2. Keeps(disc[used], e, Bystanders(used))
  BY <1>1, KeepsFewer DEF Current
<1>3. DiscInv' /\ Undisturbed /\ disc'[used] = e /\ wrote'[used] = w
  BY <1>1, <1>2, PutKeeps
<1>4. open' = open /\ num' = num
  BY DEF Still
<1>5. OpInv'
  BY <1>1, <1>3, <1>4, OpKeeps
<1> QED
  BY <1>3, <1>5

LEMMA NothingWritten == \A c, Q : Keeps(c, c, Q)
BY DEF Keeps

LEMMA WriteFileBlockKeeps ==
  ASSUME ListInv, num \in Fd, DiscInv, OpInv, NEW p, NEW b \in Blocks, NEW v, WriteFileBlock(p, b, v)
  PROVE  DiscInv' /\ OpInv' /\ Undisturbed
<1> DEFINE o == WriteOp("depth", p, b, v, getINode(Current, p), 0)
           w == wrote[used]
<1>1. /\ used # NoDisc /\ p \in DOMAIN w /\ disc' = disc /\ wrote' = wrote
      /\ op' = o /\ open' = open /\ num' = num
  BY DEF WriteFileBlock, Then, Still, WriteOp
<1>2. used \in Disc
  BY <1>1, OpenIs DEF used
<1>3. DiscGood(Current, w)
  BY <1>2 DEF DiscInv, Current
<1>4. InHand(Current, DOMAIN w, p, getINode(Current, p))
  BY <1>1, <1>3, FilesAre DEF DiscGood
<1>5. Depth(getINode(Current, p)) = 0 => Agrees(getINode(Current, p), w[p])
  BY <1>1, <1>3 DEF DiscGood, Contents
<1>6. OpIs(o, Current, w)
  BY <1>4, <1>5, InHandIs DEF Writing
<1> HIDE DEF o, w
<1>7. disc'[used] = Current /\ wrote'[used] = w
  BY <1>1 DEF Current, w
<1>8. OpInv'
  BY <1>1, <1>2, <1>6, <1>7, OpKeeps
<1> QED
  BY <1>1, <1>8, StillKeeps

LEMMA DepthSufficesKeeps ==
  ASSUME DiscInv, OpInv, DepthSuffices PROVE DiscInv' /\ OpInv' /\ Undisturbed
<1> DEFINE o == WriteOp("cap", op.pos, op.block, op.value, op.iNode, op.cluster)
           w == wrote[used]
<1>1. op.pc = "depth" /\ Want <= getSize(Depth(op.iNode)) /\ disc' = disc /\ wrote' = wrote /\ Still
      /\ op' = [op EXCEPT !.pc = "cap"]
  BY DEF DepthSuffices, Go, Then
<1>2. op.pc \in Writing
  BY <1>1 DEF Writing
<1>3. op' = o
  BY <1>1, <1>2, WritingIs DEF WriteOp
<1>4. OpIs(o, Current, w)
  <2>1. /\ op.block \in Blocks /\ InHand(Current, DOMAIN w, op.pos, op.iNode)
        /\ Depth(op.iNode) = 0 => Agrees(op.iNode, w[op.pos])
    BY <1>1, <1>2, WritingIs
  <2> HIDE DEF w
  <2> QED
    BY <1>1, <2>1, InHandIs DEF Writing, Want
<1> HIDE DEF o
<1>5. DiscGood(Current, w) /\ disc' = [disc EXCEPT ![used] = Current] /\ wrote' = [wrote EXCEPT ![used] = w]
  BY <1>1, <1>2, WritingIs
<1> HIDE DEF w
<1> QED
  BY <1>1, <1>2, <1>3, <1>4, <1>5, NothingWritten, WritingKeeps

LEMMA CapacitySufficesKeeps ==
  ASSUME DiscInv, OpInv, CapacitySuffices PROVE DiscInv' /\ OpInv' /\ Undisturbed
<1> DEFINE o == WriteOp("store", op.pos, op.block, op.value, op.iNode, op.cluster)
           w == wrote[used]
<1>1. op.pc = "cap" /\ disc' = disc /\ wrote' = wrote /\ Still /\ op' = [op EXCEPT !.pc = "store"]
  BY DEF CapacitySuffices, Go, Then
<1>2. op.pc \in Writing
  BY <1>1 DEF Writing
<1>3. op' = o
  BY <1>1, <1>2, WritingIs DEF WriteOp
<1>4. OpIs(o, Current, w)
  <2>1. /\ op.block \in Blocks /\ InHand(Current, DOMAIN w, op.pos, op.iNode)
        /\ Want <= getSize(Depth(op.iNode))
        /\ Depth(op.iNode) = 0 => Agrees(op.iNode, w[op.pos])
    BY <1>1, <1>2, WritingIs
  <2> HIDE DEF w
  <2> QED
    BY <2>1, InHandIs DEF Writing, Want
<1> HIDE DEF o
<1>5. DiscGood(Current, w) /\ disc' = [disc EXCEPT ![used] = Current] /\ wrote' = [wrote EXCEPT ![used] = w]
  BY <1>1, <1>2, WritingIs
<1> HIDE DEF w
<1> QED
  BY <1>1, <1>2, <1>3, <1>4, <1>5, NothingWritten, WritingKeeps

\* no cluster is free: the operation fails, with the inode as it is
LEMMA FailKeeps ==
  ASSUME DiscInv, OpInv, op.pc \in {"depth", "cap"}, Still, UNCHANGED <<disc, wrote>>, Go("fail")
  PROVE  DiscInv' /\ OpInv' /\ Undisturbed
<1> DEFINE o == WriteOp("fail", op.pos, op.block, op.value, op.iNode, op.cluster)
           w == wrote[used]
<1>1. op.pc \in Writing
  BY DEF Writing
<1>2. op' = o
  BY <1>1, WritingIs DEF WriteOp, Go, Then
<1>3. OpIs(o, Current, w)
  <2>1. /\ op.block \in Blocks /\ InHand(Current, DOMAIN w, op.pos, op.iNode)
        /\ Depth(op.iNode) = 0 => Agrees(op.iNode, w[op.pos])
    BY <1>1, WritingIs
  <2> HIDE DEF w
  <2> QED
    BY <2>1, InHandIs DEF Writing
<1> HIDE DEF o
<1>4. DiscGood(Current, w) /\ disc' = [disc EXCEPT ![used] = Current] /\ wrote' = [wrote EXCEPT ![used] = w]
  BY <1>1, WritingIs
<1> HIDE DEF w
<1> QED
  BY <1>1, <1>2, <1>3, <1>4, NothingWritten, WritingKeeps

LEMMA IncreaseDepthKeeps ==
  ASSUME DiscInv, OpInv, IncreaseDepth PROVE DiscInv' /\ OpInv' /\ Undisturbed
<1> DEFINE f == FreeCluster(Current)
           e == Take(Current, f)
           w == wrote[used]
           o == WriteOp("move", op.pos, op.block, op.value, op.iNode, f)
<1>1. op.pc = "depth" /\ Want > getSize(Depth(op.iNode)) /\ wrote' = wrote /\ Still
  BY DEF IncreaseDepth
<1>2. op.pc \in Writing
  BY <1>1 DEF Writing
<1>3. CASE f = 0
  <2>1. Go("fail") /\ disc' = disc
    BY <1>3 DEF IncreaseDepth, Free
  <2> QED
    BY <1>1, <2>1, FailKeeps
<1>4. CASE f # 0
  <2>1. disc' = [disc EXCEPT ![used] = e] /\ op' = [op EXCEPT !.pc = "move", !.cluster = f]
    BY <1>4 DEF IncreaseDepth, Free, Put, Then
  <2>2. op' = o
    <3> HIDE DEF f
    <3> QED
      BY <1>2, <2>1, WritingIs DEF WriteOp
  <2>3. /\ DiscGood(Current, w) /\ InHand(Current, DOMAIN w, op.pos, op.iNode) /\ op.block \in Blocks
        /\ Depth(op.iNode) = 0 => Agrees(op.iNode, w[op.pos])
        /\ wrote' = [wrote EXCEPT ![used] = w]
    BY <1>1, <1>2, WritingIs
  <2>4. DiscGood(e, w) /\ Keeps(Current, e, DOMAIN w \ {op.pos})
    <3>1. DiscGood(e, w) /\ Keeps(Current, e, DOMAIN w)
      BY <1>4, <2>3, TakeGood
    <3> HIDE DEF e, w
    <3> QED
      BY <3>1, KeepsFewer
  <2>5. /\ f \in Marked(e) \ Taken(e, DOMAIN w)
        /\ InHand(e, DOMAIN w, op.pos, op.iNode) /\ f \notin Reach(e, op.iNode)
    BY <1>4, <2>3, TakeKeeps DEF DiscGood
  <2>6. Depth(op.iNode) < 2
    <3>1. Depth(op.iNode) \in {0, 1, 2}
      BY <2>3 DEF InHand, GoodINode, Depth
    <3>2. Depth(op.iNode) # 2
      <4>1. bytesTotal(op.block) <= getSize(2) /\ bytesTotal(op.block) \in Nat
        BY <1>2, BlocksAssumption, BytesAre, WritingIs
      <4>2. getSize(2) \in Nat
        BY SizesGrow
      <4>3. bytesTotal(op.block) > getSize(Depth(op.iNode))
        BY <1>1 DEF Want
      <4> QED
        BY <4>1, <4>2, <4>3
    <3> QED
      BY <3>1, <3>2
  <2> HIDE DEF f, e, w
  <2>7. OpIs(o, e, w)
    BY <2>3, <2>5, <2>6, InHandIs DEF Writing
  <2> HIDE DEF o
  <2>8. Keeps(Current, e, DOMAIN wrote[used] \ {op.pos})
    BY <2>4 DEF w
  <2> QED
    BY <1>1, <1>2, <2>1, <2>2, <2>3, <2>4, <2>7, <2>8, WritingKeeps
<1> QED
  BY <1>3, <1>4

LEMMA AddClusterKeeps ==
  ASSUME DiscInv, OpInv, AddCluster PROVE DiscInv' /\ OpInv' /\ Undisturbed
<1> DEFINE f == FreeCluster(Current)
           e == Take(Current, f)
           w == wrote[used]
           i == Extended(op.iNode, f)
           o == WriteOp("cap", op.pos, op.block, op.value, i, op.cluster)
<1>1. op.pc = "cap" /\ Depth(op.iNode) = 1 /\ wrote' = wrote /\ Still
  BY DEF AddCluster
<1>2. op.pc \in Writing
  BY <1>1 DEF Writing
<1>3. CASE f = 0
  <2>1. Go("fail") /\ disc' = disc
    BY <1>3 DEF AddCluster, Free
  <2> QED
    BY <1>1, <2>1, FailKeeps
<1>4. CASE f # 0
  <2>1. disc' = [disc EXCEPT ![used] = e] /\ op' = [op EXCEPT !.iNode = i]
    BY <1>4 DEF AddCluster, Free, Put, Then
  <2>2. op' = o
    <3> HIDE DEF i
    <3> QED
      BY <1>1, <1>2, <2>1, WritingIs DEF WriteOp
  <2>3. /\ DiscGood(Current, w) /\ InHand(Current, DOMAIN w, op.pos, op.iNode) /\ op.block \in Blocks
        /\ Want <= getSize(Depth(op.iNode))
        /\ wrote' = [wrote EXCEPT ![used] = w]
    BY <1>1, <1>2, WritingIs
  <2>4. DiscGood(e, w) /\ Keeps(Current, e, DOMAIN w \ {op.pos})
    <3>1. DiscGood(e, w) /\ Keeps(Current, e, DOMAIN w)
      BY <1>4, <2>3, TakeGood
    <3> HIDE DEF e, w
    <3> QED
      BY <3>1, KeepsFewer
  <2>5. InHand(e, DOMAIN w, op.pos, i)
    BY <1>1, <1>4, <2>3, AddIs DEF DiscGood
  <2>6. Depth(i) = 1 /\ Depth(i) # 0
    <3>1. GoodINode(op.iNode)
      BY <2>3 DEF InHand
    <3>2. Depth(i) = 1
      BY <1>1, <3>1, ExtendedIs
    <3> QED
      BY <3>2
  <2> HIDE DEF f, e, w, i
  <2>7. bytesTotal(op.block) <= getSize(Depth(i))
    BY <1>1, <2>3, <2>6 DEF Want
  <2>8. OpIs(o, e, w)
    <3>1. "cap" \in Writing /\ "cap" # "move"
      BY DEF Writing
    <3> QED
      BY <2>3, <2>5, <2>6, <2>7, <3>1, InHandIs
  <2> HIDE DEF o
  <2>9. Keeps(Current, e, DOMAIN wrote[used] \ {op.pos})
    BY <2>4 DEF w
  <2> QED
    BY <1>1, <1>2, <2>1, <2>2, <2>3, <2>4, <2>8, <2>9, WritingKeeps
<1> QED
  BY <1>3, <1>4

LEMMA MoveDataKeeps ==
  ASSUME DiscInv, OpInv, MoveData PROVE DiscInv' /\ OpInv' /\ Undisturbed
<1> DEFINE e == writeCluster(Current, op.cluster, MovedData(op.iNode))
           w == wrote[used]
           i == Deepened(op.iNode, op.cluster)
           o == WriteOp("depth", op.pos, op.block, op.value, i, op.cluster)
<1>1. /\ op.pc = "move" /\ disc' = [disc EXCEPT ![used] = e] /\ wrote' = wrote /\ Still
      /\ op' = [op EXCEPT !.pc = "depth", !.iNode = i]
  BY DEF MoveData, Put, Then
<1>2. op.pc \in Writing
  BY <1>1 DEF Writing
<1>3. op' = o
  <2> HIDE DEF i
  <2> QED
    BY <1>1, <1>2, WritingIs DEF WriteOp
<1>4. /\ DiscGood(Current, w) /\ InHand(Current, DOMAIN w, op.pos, op.iNode) /\ op.block \in Blocks
      /\ op.cluster \in Marked(Current) \ (Taken(Current, DOMAIN w) \cup Reach(Current, op.iNode))
      /\ Depth(op.iNode) < 2
      /\ wrote' = [wrote EXCEPT ![used] = w]
  BY <1>1, <1>2, WritingIs
<1>5. /\ Proper(e) /\ FilesApart(e, DOMAIN w) /\ Keeps(Current, e, DOMAIN w)
      /\ \A q \in DOMAIN w : getINode(e, q) = getINode(Current, q)
      /\ InHand(e, DOMAIN w, op.pos, i) /\ Depth(i) # 0
  BY <1>4, MoveIs DEF DiscGood
<1> HIDE DEF e, i, w
<1>6. DiscGood(e, w)
  BY <1>4, <1>5, ContentsStay DEF DiscGood
<1>7. OpIs(o, e, w)
  BY <1>4, <1>5, InHandIs DEF Writing
<1> HIDE DEF o
<1>8. Keeps(Current, e, DOMAIN wrote[used] \ {op.pos})
  BY <1>5, KeepsFewer DEF w
<1> QED
  BY <1>1, <1>2, <1>3, <1>4, <1>6, <1>7, <1>8, WritingKeeps

LEMMA StoreKeeps ==
  ASSUME DiscInv, OpInv, Store PROVE DiscInv' /\ OpInv' /\ Undisturbed
<1> DEFINE n == op.block
           v == op.value
           w == wrote[used]
           s == op.iNode[0].size
           sized == [op.iNode EXCEPT ![0].size = Max({s, Want})]
<1>1. op.pc = "store" /\ wrote' = wrote /\ Still
  BY DEF Store
<1>2. op.pc \in Writing
  BY <1>1 DEF Writing
<1>3. /\ DiscGood(Current, w) /\ InHand(Current, DOMAIN w, op.pos, op.iNode) /\ n \in Blocks /\ n \in Nat
      /\ Want <= getSize(Depth(op.iNode))
      /\ Depth(op.iNode) = 0 => Agrees(op.iNode, w[op.pos])
      /\ wrote' = [wrote EXCEPT ![used] = w] /\ disc = [disc EXCEPT ![used] = Current]
  BY <1>1, <1>2, WritingIs
<1>4. GoodINode(op.iNode) /\ op.pos \in DOMAIN w
  BY <1>3 DEF InHand
<1>5. CASE Depth(op.iNode) = 0
  <2> DEFINE j == Inlined(op.iNode, n, v)
             o == WriteOp("done", op.pos, n, v, j, op.cluster)
  <2>1. disc' = disc /\ op' = [op EXCEPT !.pc = "done", !.iNode = j]
    BY <1>5 DEF Store, Then, Inlined, Stored, Want
  <2>2. GoodINode(j) /\ Depth(j) = 0 /\ Agrees(j, [w[op.pos] EXCEPT ![n] = v])
    <3>1. w[op.pos] = [b \in Blocks |-> w[op.pos][b]]
      BY <1>3, <1>4 DEF DiscGood, Contents
    <3>2. bytesTotal(n) <= getSize(0)
      BY <1>3, <1>5 DEF Want
    <3> HIDE DEF w, n, v
    <3> QED
      BY <1>3, <1>4, <1>5, <3>1, <3>2, InlinedIs
  <2> HIDE DEF j
  <2>3. op' = o
    BY <1>2, <2>1, WritingIs DEF WriteOp
  <2>4. InHand(Current, DOMAIN w, op.pos, j)
    <3>1. Reach(Current, j) = {}
      BY <2>2 DEF Reach, Pointers
    <3> QED
      BY <1>4, <2>2, <3>1 DEF InHand
  <2>5. OpIs(o, Current, w)
    <3>1. "done" \in Writing /\ "done" # "move"
      BY DEF Writing
    <3>2. bytesTotal(n) <= getSize(Depth(j))
      BY <1>3, <1>5, <2>2 DEF Want
    <3> HIDE DEF w, n, v
    <3> QED
      BY <1>3, <2>2, <2>4, <3>1, <3>2, InHandIs
  <2> HIDE DEF o, w
  <2> QED
    BY <1>1, <1>2, <1>3, <2>1, <2>3, <2>5, NothingWritten, WritingKeeps
<1>6. CASE Depth(op.iNode) # 0
  <2> DEFINE e == Placed(Current, op.iNode, n, v)
             pc == IF getBlockPointer(Current, op.iNode, n) = 0 THEN "fail" ELSE "done"
             o == WriteOp(pc, op.pos, n, v, sized, op.cluster)
  <2>1. disc' = [disc EXCEPT ![used] = e] /\ op' = [op EXCEPT !.pc = pc, !.iNode = sized]
    <3>1. op' = [op EXCEPT !.pc = pc, !.iNode = sized]
      BY <1>6 DEF Store, Then
    <3>2. disc' = [disc EXCEPT ![used] = e]
      BY <1>6 DEF Store, Put, Placed, Stored
    <3> QED
      BY <3>1, <3>2
  <2>2. /\ Proper(e) /\ FilesApart(e, DOMAIN w) /\ InHand(e, DOMAIN w, op.pos, op.iNode)
        /\ Keeps(Current, e, DOMAIN w \ {op.pos})
        /\ \A q \in DOMAIN w : getINode(e, q) = getINode(Current, q)
    <3>1. bytesTotal(n) <= getSize(Depth(op.iNode))
      BY <1>3 DEF Want
    <3> HIDE DEF n, v, w
    <3> QED
      BY <1>3, <1>6, <3>1, PlacedIs DEF DiscGood
  <2>3. /\ GoodINode(sized) /\ Depth(sized) = Depth(op.iNode)
        /\ \A c : Reach(c, sized) = Reach(c, op.iNode)
    <3>1. s \in Nat /\ s <= getSize(Depth(op.iNode)) /\ Want \in Nat
      <4>1. Want \in Nat
        BY <1>3, BytesAre DEF Want
      <4> QED
        BY <1>4, <4>1 DEF GoodINode, Depth
    <3>2. Max({s, Want}) \in Nat /\ Max({s, Want}) <= getSize(Depth(op.iNode))
      <4>1. Max({s, Want}) \in {s, Want}
        BY <3>1, MaxIs
      <4> QED
        BY <1>3, <3>1, <4>1
    <3> QED
      BY <1>4, <3>2, SizedIs
  <2> HIDE DEF e, sized
  <2>4. op' = o
    <3> HIDE DEF pc
    <3> QED
      BY <1>2, <2>1, WritingIs DEF WriteOp
  <2>5. InHand(e, DOMAIN w, op.pos, sized)
    BY <2>2, <2>3 DEF InHand
  <2>6. OpIs(o, e, w)
    <3>1. pc \in Writing /\ pc # "move"
      BY DEF Writing
    <3>2. bytesTotal(n) <= getSize(Depth(sized)) /\ Depth(sized) # 0
      BY <1>3, <1>6, <2>3 DEF Want
    <3> HIDE DEF w, n, v, pc
    <3> QED
      BY <1>3, <2>5, <3>1, <3>2, InHandIs
  <2>7. DiscGood(e, w)
    BY <1>3, <2>2, ContentsStay DEF DiscGood
  <2> HIDE DEF o
  <2>8. Keeps(Current, e, DOMAIN wrote[used] \ {op.pos})
    BY <2>2
  <2> HIDE DEF w
  <2> QED
    BY <1>1, <1>2, <1>3, <2>1, <2>4, <2>6, <2>7, <2>8, WritingKeeps
<1> QED
  BY <1>5, <1>6

LEMMA FinishWriteKeeps ==
  ASSUME DiscInv, OpInv, FinishWrite PROVE DiscInv' /\ OpInv' /\ Undisturbed
<1> DEFINE e == writeCluster(Current, op.pos, op.iNode)
           w == wrote[used]
           x == IF op.pc = "done" THEN [w[op.pos] EXCEPT ![op.block] = op.value] ELSE w[op.pos]
           v == [w EXCEPT ![op.pos] = x]
<1>1. /\ op.pc \in {"done", "fail"} /\ disc' = [disc EXCEPT ![used] = e] /\ op' = Menu /\ Still
      /\ wrote' = IF op.pc = "done" THEN [wrote EXCEPT ![used][op.pos][op.block] = op.value] ELSE wrote
  BY DEF FinishWrite, Put, Then
<1>2. op.pc \in Writing
  BY <1>1 DEF Writing
<1>3. /\ used \in Disc /\ DiscGood(Current, w) /\ InHand(Current, DOMAIN w, op.pos, op.iNode)
      /\ op.block \in Blocks
      /\ Depth(op.iNode) = 0 => Agrees(op.iNode, x)
      /\ wrote = [wrote EXCEPT ![used] = w]
  BY <1>2, WritingIs
<1>4. op.pos \in DOMAIN w /\ w = [q \in DOMAIN w |-> w[q]]
  BY <1>3 DEF InHand, DiscGood, Contents
<1>5. wrote' = [wrote EXCEPT ![used] = v]
  <2>1. CASE op.pc = "done"
    BY <1>1, <1>3, <2>1
  <2>2. CASE op.pc = "fail"
    <3>1. op.pc # "done"
      BY <2>2
    <3>2. v = w
      BY <1>4, <3>1
    <3> HIDE DEF v, w
    <3> QED
      BY <1>1, <1>3, <3>1, <3>2
  <2> QED
    BY <1>1, <2>1, <2>2
<1>6. /\ Proper(e) /\ FilesApart(e, DOMAIN w) /\ Keeps(Current, e, DOMAIN w \ {op.pos})
      /\ getINode(e, op.pos) = op.iNode
      /\ \A q \in DOMAIN w \ {op.pos} : getINode(e, q) = getINode(Current, q)
  BY <1>3, WriteBackIs DEF DiscGood
<1> HIDE DEF e
<1>7. x = [b \in Blocks |-> x[b]]
  <2>1. w[op.pos] = [b \in Blocks |-> w[op.pos][b]]
    BY <1>3, <1>4 DEF DiscGood, Contents
  <2> HIDE DEF w
  <2> QED
    BY <2>1
<1> HIDE DEF x
<1>8. DOMAIN v = DOMAIN w /\ v = [q \in DOMAIN v |-> v[q]] /\ v[op.pos] = x
      /\ \A q \in DOMAIN w \ {op.pos} : v[q] = w[q]
  <2> HIDE DEF w
  <2> QED
    BY <1>4
<1> HIDE DEF v
<1>9. DiscGood(e, v)
  <2>1. ASSUME NEW q \in DOMAIN v
        PROVE  /\ v[q] = [b \in Blocks |-> v[q][b]]
               /\ Depth(getINode(e, q)) = 0 => Agrees(getINode(e, q), v[q])
    <3>1. CASE q = op.pos
      BY <1>3, <1>6, <1>7, <1>8, <3>1
    <3>2. CASE q # op.pos
      <4>1. q \in DOMAIN w /\ v[q] = w[q] /\ getINode(e, q) = getINode(Current, q)
        BY <1>6, <1>8, <3>2
      <4> HIDE DEF w
      <4> QED
        BY <1>3, <4>1 DEF DiscGood, Contents
    <3> QED
      BY <3>1, <3>2
  <2>2. Contents(e, v)
    BY <1>8, <2>1 DEF Contents
  <2> QED
    BY <1>6, <1>8, <2>2 DEF DiscGood
<1>10. Keeps(Current, e, DOMAIN wrote[used] \ {op.pos})
  BY <1>6
<1> HIDE DEF w
<1> QED
  BY <1>1, <1>2, <1>5, <1>9, <1>10, WritingKeeps

-----------------------------------------------------------------------------
(* The invariant, and what follows from it.                                *)

LEMMA NextKeepsNum == ASSUME num \in Fd, [Next]_vars PROVE num' \in Fd
<1>1. CASE Crash
  <2>1. num' = Min(Fd)
    BY <1>1 DEF Crash
  <2> QED
    BY <2>1, DiscAssumption, MinIs
<1>2. CASE \E n \in Fd : UseDisk(n) \/ GetFreeCluster(n)
  BY <1>2 DEF UseDisk, GetFreeCluster
<1>3. CASE \/ \E d \in Disc : MountDisk(d) \/ CreateDisk(d)
           \/ \E n \in Fd : DismountDisk(n)
           \/ Back \/ FormatDiskFull \/ FinishFormat \/ CreateINode \/ FinishCreate
           \/ \E p, b, v : WriteFileBlock(p, b, v)
           \/ DepthSuffices \/ IncreaseDepth \/ MoveData \/ CapacitySuffices \/ AddCluster
           \/ Store \/ FinishWrite \/ UNCHANGED vars
  BY <1>3 DEF MountDisk, CreateDisk, DismountDisk, Back, FormatDiskFull, FinishFormat, CreateINode,
              FinishCreate, WriteFileBlock, DepthSuffices, IncreaseDepth, MoveData, CapacitySuffices,
              AddCluster, Store, FinishWrite, Still, vars
<1> QED
  BY <1>1, <1>2, <1>3 DEF Next

LEMMA NextKeeps == ASSUME FileInv, [Next]_vars PROVE FileInv' /\ Undisturbed
<1>1. ListInv /\ num \in Fd /\ DiscInv /\ OpInv
  BY DEF FileInv
<1>2. DiscInv' /\ OpInv' /\ Undisturbed
  <2>1. ASSUME NEW d \in Disc, MountDisk(d) \/ CreateDisk(d) PROVE DiscInv' /\ OpInv' /\ Undisturbed
    <3>1. CASE MountDisk(d)
      BY <1>1, <3>1, QuietKeeps DEF MountDisk, AtRoot
    <3> QED
      BY <1>1, <2>1, <3>1, CreateDiskKeeps
  <2>2. ASSUME NEW n \in Fd, DismountDisk(n) \/ UseDisk(n) \/ GetFreeCluster(n)
        PROVE  DiscInv' /\ OpInv' /\ Undisturbed
    <3>1. CASE DismountDisk(n) \/ UseDisk(n)
      BY <1>1, <3>1, QuietKeeps DEF DismountDisk, UseDisk, AtRoot
    <3> QED
      BY <1>1, <2>2, <3>1, GetFreeClusterKeeps
  <2>3. CASE Back
    BY <1>1, <2>3, QuietKeeps DEF Back, InDisk
  <2>4. ASSUME NEW p, NEW b \in Blocks, NEW v, WriteFileBlock(p, b, v)
        PROVE  DiscInv' /\ OpInv' /\ Undisturbed
    BY <1>1, <2>4, WriteFileBlockKeeps
  <2>5. CASE FormatDiskFull \/ FinishFormat \/ CreateINode \/ FinishCreate
    BY <1>1, <2>5, FormatDiskFullKeeps, FinishFormatKeeps, CreateINodeKeeps, FinishCreateKeeps
  <2>6. CASE DepthSuffices \/ IncreaseDepth \/ MoveData \/ CapacitySuffices \/ AddCluster
    BY <1>1, <2>6, DepthSufficesKeeps, IncreaseDepthKeeps, MoveDataKeeps, CapacitySufficesKeeps,
       AddClusterKeeps
  <2>7. CASE Store \/ FinishWrite \/ Crash
    BY <1>1, <2>7, StoreKeeps, FinishWriteKeeps, CrashKeeps
  <2>8. CASE UNCHANGED vars
    <3>1. disc' = disc /\ wrote' = wrote /\ op' = op /\ open' = open /\ num' = num
      BY <2>8 DEF vars
    <3>2. used' = used /\ Current' = Current
      BY <3>1 DEF used, Current
    <3>3. OpInv'
      BY <1>1, <3>1, <3>2 DEF OpInv
    <3> QED
      BY <1>1, <3>1, <3>3, StillKeeps
  <2> QED
    BY <2>1, <2>2, <2>3, <2>4, <2>5, <2>6, <2>7, <2>8 DEF Next
<1> QED
  BY <1>1, <1>2, NextKeepsList, NextKeepsNum DEF FileInv

\* Every cluster of a file is its own and lies where it may
LEMMA InvIsExclusive == FileInv => Exclusive
<1> SUFFICES ASSUME FileInv PROVE Exclusive
  OBVIOUS
<1> SUFFICES ASSUME NEW d \in Disc, NEW p \in DOMAIN wrote[d]
             PROVE  /\ \A q \in DOMAIN wrote[d] \ {p} : Clusters(d, p) \cap Clusters(d, q) = {}
                    /\ \A x \in Clusters(d, p) : /\ x \in Marked(disc[d])
                                                 /\ ClusterOf(x) \subseteq DOMAIN disc[d]
  BY DEF Exclusive, Inodes, Marked
<1>1. Proper(disc[d]) /\ FilesApart(disc[d], DOMAIN wrote[d])
  BY DEF FileInv, DiscInv, DiscGood
<1>2. \A q \in DOMAIN wrote[d] : Clusters(d, q) \subseteq Owned(disc[d], q)
  BY DEF Clusters, Owned, Reach
<1>3. \A q \in DOMAIN wrote[d] : Owned(disc[d], q) \subseteq Marked(disc[d])
  BY <1>1 DEF FilesApart
<1>4. \A q \in DOMAIN wrote[d] \ {p} : Owned(disc[d], p) \cap Owned(disc[d], q) = {}
  BY <1>1 DEF FilesApart
<1>5. \A x \in Marked(disc[d]) : ClusterOf(x) \subseteq DOMAIN disc[d]
  BY <1>1, MarkedIs
<1> QED
  BY <1>2, <1>3, <1>4, <1>5

\* Every cluster of a file - its inode's and those it points to - is its own,
\* is marked in the bitmap and lies behind the bitmap and on the disc: for
\* discs of any size and any size of blocks, at every moment of a format, a
\* creation or a write, after any number of them and wherever the program was
\* killed.
THEOREM FilesAreApart == Spec => []Exclusive
<1>1. Init => FileInv
  BY InitIs
<1>2. FileInv /\ [Next]_vars => FileInv'
  BY NextKeeps
<1> QED
  BY <1>1, <1>2, InvIsExclusive, PTL DEF Spec

-----------------------------------------------------------------------------
(* What the files read.                                                    *)

\* Writing to a file, creating one, getting a cluster, formatting another disc
\* or killing the program changes nothing that any other file reads, at any
\* step.
THEOREM OthersRead == Spec => OthersUndisturbed
<1> DEFINE Same == \A d \in Disc : \A p \in Inodes(d) :
                     p \in DOMAIN wrote'[d] /\ ~(d = used /\ "pos" \in DOMAIN op /\ op.pos = p) =>
                       \A b \in Blocks : readFileBlock(disc'[d], p, b) = readFileBlock(disc[d], p, b)
<1>1. Init => FileInv
  BY InitIs
<1>2. FileInv /\ [Next]_vars => FileInv'
  BY NextKeeps
<1>3. FileInv /\ [Next]_vars => Same
  <2> SUFFICES ASSUME FileInv, [Next]_vars, NEW d \in Disc, NEW p \in DOMAIN wrote[d],
                      p \in DOMAIN wrote'[d], ~(d = used /\ "pos" \in DOMAIN op /\ op.pos = p),
                      NEW b \in Blocks
               PROVE  readFileBlock(disc'[d], p, b) = readFileBlock(disc[d], p, b)
    BY DEF Inodes
  <2>1. FileInv' /\ Undisturbed
    BY NextKeeps
  <2>2. Proper(disc[d]) /\ FilesApart(disc[d], DOMAIN wrote[d])
    BY DEF FileInv, DiscInv, DiscGood
  <2>3. Proper(disc'[d])
    BY <2>1 DEF FileInv, DiscInv, DiscGood
  <2>4. p \in Bystanders(d)
    BY DEF Bystanders
  <2>5. Keeps(disc[d], disc'[d], Bystanders(d))
    BY <2>1 DEF Undisturbed
  <2>6. b \in Nat
    BY BlocksAssumption
  <2>7. PICK c : c = disc[d]
    OBVIOUS
  <2>8. PICK e : e = disc'[d]
    OBVIOUS
  <2>9. PICK Q : Q = Bystanders(d)
    OBVIOUS
  <2>10. PICK W : W = DOMAIN wrote[d]
    OBVIOUS
  <2>11. readFileBlock(e, p, b) = readFileBlock(c, p, b)
    BY <2>2, <2>3, <2>4, <2>5, <2>6, <2>7, <2>8, <2>9, <2>10, ReadsSame
  <2> QED
    BY <2>7, <2>8, <2>11
<1>4. OthersUndisturbed <=> [][Same]_vars
  BY DEF OthersUndisturbed
<1> QED
  BY <1>1, <1>2, <1>3, <1>4, PTL DEF Spec

\* A file whose blocks are all in its inode gives back what was last put into
\* each of them, and zeros for those that were skipped or never written: after
\* any writes to it and to others, those that failed and those the program
\* was killed in included.
THEOREM SmallFilesAreRight == Spec => []SmallFilesReadBack
<1>1. Init => FileInv
  BY InitIs
<1>2. FileInv /\ [Next]_vars => FileInv'
  BY NextKeeps
<1>3. FileInv => SmallFilesReadBack
  <2> SUFFICES ASSUME FileInv, NEW d \in Disc, NEW p \in DOMAIN wrote[d],
                      Depth(getINode(disc[d], p)) = 0, NEW b \in Blocks
               PROVE  IF readFileBlock(disc[d], p, b) = NoBlock THEN wrote[d][p][b] = Zero
                      ELSE Value(readFileBlock(disc[d], p, b)) = wrote[d][p][b]
    BY DEF SmallFilesReadBack, ReadsBack, Inodes
  <2> DEFINE i == getINode(disc[d], p)
             r == readFileBlock(disc[d], p, b)
  <2>1. Agrees(i, wrote[d][p])
    BY DEF FileInv, DiscInv, DiscGood, Contents
  <2>2. IF bytesTotal(b) > i[0].size THEN wrote[d][p][b] = Zero ELSE Value(i[1 + b]) = wrote[d][p][b]
    BY <2>1 DEF Agrees
  <2>3. getBlockPointer(disc[d], i, b) = -1
    BY DEF getBlockPointer
  <2>4. r = IF bytesTotal(b) > i[0].size THEN NoBlock ELSE i[1 + b]
    BY <2>3 DEF readFileBlock
  <2> HIDE DEF i, r
  <2>5. CASE bytesTotal(b) > i[0].size
    BY <2>2, <2>4, <2>5 DEF r
  <2>6. CASE ~(bytesTotal(b) > i[0].size)
    <3>1. Value(r) = wrote[d][p][b]
      BY <2>2, <2>4, <2>6
    <3>2. r = NoBlock => Value(r) = Zero
      BY DEF Value, NoBlock
    <3> QED
      BY <3>1, <3>2 DEF r
  <2> QED
    BY <2>5, <2>6
<1> QED
  BY <1>1, <1>2, <1>3, PTL DEF Spec

-----------------------------------------------------------------------------
(* The superblock's number of usable clusters.                             *)

\* how many bits there are from 0 to k
LEMMA BitsTo == ASSUME NEW k \in Nat PROVE IsFiniteSet(0 .. k) /\ Cardinality(0 .. k) = k + 1
<1>1. 0 \in Int /\ k \in Int /\ ~(0 > k) /\ k - 0 + 1 = k + 1
  OBVIOUS
<1> QED
  BY <1>1, FS_Interval

\* the bits of a disc that is formatted: never more than are usable, and all
\* of these, if the bitmap has them, when no cluster is free
LEMMA UsableIs ==
  ASSUME NEW c, Proper(c), Formatted(c)
  PROVE  /\ Cardinality(UsedBits(c)) \in Nat /\ Cardinality(UsedBits(c)) - 1 <= Usable(c)
         /\ FreeCluster(c) = 0 =>
              Cardinality(UsedBits(c)) - 1 = Min({Usable(c), MapLen(c) * bitsPerBlock - 1})
<1> DEFINE u == Usable(c)
           z == MapLen(c) * bitsPerBlock - 1
           bits == UsedBits(c)
           free == (0 .. z) \ bits
<1>1. u \in Nat /\ MapLen(c) \in Nat /\ MapLen(c) >= 1 /\ Total(c) \in Nat
      /\ \A k \in Nat : 1 + MapLen(c) + k * 8 + 8 <= Total(c) * 8 <=> k <= u
  BY DiscIs
<1>2. z \in Nat
  <2>1. bitsPerBlock \in Nat /\ bitsPerBlock >= 1
    BY BlockAssumption DEF bitsPerBlock
  <2>2. MapLen(c) * bitsPerBlock >= 1 * bitsPerBlock /\ MapLen(c) * bitsPerBlock \in Nat
    BY <1>1, <2>1
  <2> QED
    BY <2>1, <2>2
<1>3. bits \subseteq 0 .. z
  BY BitIs
<1>4. Super(c).mapSize = MapLen(c) /\ Super(c).total = Total(c) /\ \A k : Position(c, k) = 1 + MapLen(c) + k * 8
  BY SuperIs
<1>5. FreeCluster(c) = IF free = {} \/ Position(c, Min(free)) + 8 > Total(c) * 8 THEN 0 ELSE Position(c, Min(free))
  BY <1>4 DEF FreeCluster, clusterSize
<1>6. \A k \in bits : Position(c, k) + clusterSize <= SuperOf(DiscSize(c)).total * clusterSize
  BY DEF Proper, Formatted, DiscSize
<1>7. SuperOf(DiscSize(c)).total = Total(c)
  <2>1. SuperOf(DiscSize(c)) = SuperBlock(MapLen(c), Total(c), Usable(c))
    BY DiscIs
  <2> QED
    BY <2>1 DEF SuperBlock
<1> HIDE DEF bits, z, u, free
<1>8. \A k \in bits : k \in Nat /\ k <= u
  <2> SUFFICES ASSUME NEW k \in bits PROVE k \in Nat /\ k <= u
    OBVIOUS
  <2>1. k \in Nat
    BY <1>2, <1>3
  <2>2. 1 + MapLen(c) + k * 8 + 8 <= Total(c) * 8
    BY <1>4, <1>6, <1>7 DEF clusterSize
  <2> QED
    BY <1>1, <2>1, <2>2
<1>9. bits \subseteq 0 .. u
  BY <1>1, <1>8
<1>10. Cardinality(bits) \in Nat /\ Cardinality(bits) - 1 <= u
  <2>1. IsFiniteSet(0 .. u) /\ Cardinality(0 .. u) = u + 1
    BY <1>1, BitsTo
  <2>2. IsFiniteSet(bits) /\ Cardinality(bits) <= Cardinality(0 .. u)
    BY <1>9, <2>1, FS_Subset
  <2>3. Cardinality(bits) \in Nat
    BY <2>2, FS_CardinalityType
  <2> QED
    BY <1>1, <2>1, <2>2, <2>3
<1>11. ASSUME FreeCluster(c) = 0 PROVE Cardinality(bits) - 1 = Min({u, z})
  <2> DEFINE m == Min({u, z})
  <2>1. m \in {u, z} /\ m <= u /\ m <= z
    BY <1>1, <1>2, MinIs
  <2> HIDE DEF m
  <2>2. m \in Nat
    BY <1>1, <1>2, <2>1
  <2>3. bits \subseteq 0 .. m
    <3>1. \A k \in bits : k \in 0 .. z
      BY <1>3
    <3> QED
      BY <1>1, <1>2, <1>8, <2>1, <2>2, <3>1
  <2>4. ASSUME NEW k \in 0 .. m PROVE k \in bits
    <3> SUFFICES ASSUME k \notin bits PROVE FALSE
      OBVIOUS
    <3>1. k \in free /\ free \subseteq Nat
      BY <1>2, <2>1, <2>2 DEF free
    <3>2. Min(free) \in Nat /\ Min(free) <= k
      BY <3>1, MinIs
    <3>3. 1 + MapLen(c) + Min(free) * 8 + 8 <= Total(c) * 8
      <4>1. Min(free) <= u
        BY <1>1, <2>1, <2>2, <3>2
      <4> QED
        BY <1>1, <3>2, <4>1
    <3>4. Position(c, Min(free)) = 1 + MapLen(c) + Min(free) * 8
      BY <1>4
    <3>5. PICK f : f = Min(free)
      OBVIOUS
    <3>6. f \in Nat /\ 1 + MapLen(c) + f * 8 + 8 <= Total(c) * 8 /\ Position(c, Min(free)) = 1 + MapLen(c) + f * 8
      BY <3>2, <3>3, <3>4, <3>5
    <3>7. Position(c, Min(free)) # 0 /\ ~(Position(c, Min(free)) + 8 > Total(c) * 8)
      BY <1>1, <3>6
    <3>8. free # {}
      BY <3>1
    <3> QED
      BY <1>5, <1>11, <3>7, <3>8
  <2>5. bits = 0 .. m
    BY <2>3, <2>4
  <2>6. Cardinality(bits) = m + 1
    BY <2>2, <2>5, BitsTo
  <2>7. Cardinality(bits) - 1 = m
    BY <2>2, <2>6
  <2> QED
    BY <2>7 DEF m
<1> QED
  BY <1>10, <1>11 DEF bits, u, z

\* The superblock's number of usable clusters is the right one for a disc of
\* any size: no more are ever handed out, and when getFreeCluster() finds none
\* that many are, or as many as the bitmap has bits for.
THEOREM UsableIsTheNumber == Spec => []UsableIsRight
<1>1. Init => FileInv
  BY InitIs
<1>2. FileInv /\ [Next]_vars => FileInv'
  BY NextKeeps
<1>3. FileInv => UsableIsRight
  <2> SUFFICES ASSUME FileInv, NEW d \in Disc, Super(disc[d]).total > 0, UsedBits(disc[d]) # {}
               PROVE  /\ Cardinality(UsedBits(disc[d])) - 1 <= Super(disc[d]).usable
                      /\ FreeCluster(disc[d]) = 0 =>
                           Cardinality(UsedBits(disc[d])) - 1
                             = Min({Super(disc[d]).usable, Super(disc[d]).mapSize * bitsPerBlock - 1})
    BY DEF UsableIsRight
  <2>1. Proper(disc[d])
    BY DEF FileInv, DiscInv, DiscGood
  <2>2. Formatted(disc[d])
    BY <2>1, BitIs
  <2>3. Super(disc[d]).usable = Usable(disc[d]) /\ Super(disc[d]).mapSize = MapLen(disc[d])
    BY <2>1, <2>2, SuperIs
  <2> QED
    BY <2>1, <2>2, <2>3, UsableIs
<1> QED
  BY <1>1, <1>2, <1>3, PTL DEF Spec
=============================================================================
