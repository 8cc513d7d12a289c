------------------------------ MODULE SimpleFS ------------------------------
(***************************************************************************)
(* The small file system of chmarti/FileSystems (disc.h, fsStructuresNew.h *)
(* and simplefs.h): a superblock, a bitmap of the clusters, and inodes     *)
(* that hold the first blocks of their file themselves and pointers to     *)
(* clusters once the file has grown.                                       *)
(*                                                                         *)
(* A disc is a function from block numbers to what the block holds.  Bytes *)
(* are kept where the code's arithmetic is about them: the sizes and the   *)
(* byte positions of pointers are those of the code for a BlockSize of 512.*)
(* This module has no state: these are the steps of the operations, each   *)
(* from a disc, or an inode in memory, to the next.                        *)
(***************************************************************************)
EXTENDS Integers, FiniteSets, FiniteSetsExt

CONSTANT BlockSize           \* bytes of a block, 512 in the code
ASSUME BlockAssumption == BlockSize \in Nat \ {0}

superBlockLocation == 0
clusterSize == 8             \* blocks
clusterByteSize == clusterSize * BlockSize
dataStart == BlockSize       \* where the inode's own data begin
inlineSize == clusterByteSize - dataStart
CeilDiv(a, b) == (a + b - 1) \div b

-----------------------------------------------------------------------------
(* What a block holds.  A block of zeros can be read as anything.          *)
ZeroBlock     == [kind |-> "zero"]
DataBlock(v)  == [kind |-> "data", value |-> v]
PtrBlock(p)   == [kind |-> "ptr", first |-> p]         \* an integer and zeros
MapBlock(s)   == [kind |-> "map", used |-> s]          \* the bits that are 1
Header(dep, cap, sz) == [kind |-> "inode", depth |-> dep, currentCap |-> cap, size |-> sz]
SuperBlock(len, total, usable) ==
  [kind |-> "super", clusterMap |-> 1, mapSize |-> len, total |-> total,
   usable |-> usable, rootDir |-> len + 1]

Super(disc) == IF disc[superBlockLocation].kind = "super" THEN disc[superBlockLocation]
               ELSE [SuperBlock(0, 0, 0) EXCEPT !.clusterMap = 0, !.rootDir = 0]
Used(block) == IF block.kind = "map" THEN block.used ELSE {}

\* the word at a byte of the inode or of a cluster read at p
extractInt(disc, p, byte) ==
  LET b == disc[p + byte \div BlockSize]
  IN IF b.kind = "ptr" /\ byte % BlockSize = 0 THEN b.first ELSE 0

ClusterOf(p) == p .. p + clusterSize - 1
NewDisc(blocks) == [n \in 0 .. blocks - 1 |-> ZeroBlock]

-----------------------------------------------------------------------------
(* The bitmap.  Bit k stands for the cluster behind the bitmap's end and   *)
(* the k clusters before it.                                               *)
bitsPerBlock == 8 * BlockSize

UsedBits(disc) ==
  LET sb == Super(disc)
  IN UNION {{i * bitsPerBlock + k : k \in Used(disc[sb.clusterMap + i])} : i \in 0 .. sb.mapSize - 1}
Position(disc, bit) == Super(disc).clusterMap + Super(disc).mapSize + bit * clusterSize

\* getFreeCluster() up to its first write: the position, 0 if there is none
FreeCluster(disc) ==
  LET sb == Super(disc)
      free == (0 .. sb.mapSize * bitsPerBlock - 1) \ UsedBits(disc)
  IN IF free = {} \/ Position(disc, Min(free)) + clusterSize > sb.total * clusterSize
     THEN 0 ELSE Position(disc, Min(free))

\* and its writes: the bit, then zeros
\* (slip: the bit is not written back.  Like the other slips, a mistake that
\* could be made in the definition below; nothing uses it and a run must
\* notice it.)
TakeUnmarked(disc, p) == [n \in DOMAIN disc |-> IF n \in ClusterOf(p) THEN ZeroBlock ELSE disc[n]]
\* (slip: 0x01 << 8 - k, the bit before)
TakeBitBefore(disc, p) ==
  LET bit == (p - Super(disc).clusterMap - Super(disc).mapSize) \div clusterSize - 1
  IN [n \in DOMAIN disc |->
        IF n \in ClusterOf(p) THEN ZeroBlock
        ELSE IF n = 1 THEN MapBlock(Used(disc[n]) \cup {bit % bitsPerBlock}) ELSE disc[n]]
Take(disc, p) ==
  LET sb == Super(disc)
      bit == (p - sb.clusterMap - sb.mapSize) \div clusterSize
      m == sb.clusterMap + bit \div bitsPerBlock
  IN [n \in DOMAIN disc |->
        IF n \in ClusterOf(p) THEN ZeroBlock
        ELSE IF n = m THEN MapBlock(Used(disc[m]) \cup {bit % bitsPerBlock}) ELSE disc[n]]

\* formatDisk(): the bitmap has a block for every clusterByteSize * 8
\* clusters, the first of its bits is the root directory's
mapBlocks(clusters) == CeilDiv(clusters, clusterByteSize * 8)
FormatMap(disc) ==
  [n \in DOMAIN disc |-> IF n \in 1 .. mapBlocks(Cardinality(DOMAIN disc) \div clusterSize)
                         THEN IF n = 1 THEN MapBlock({0}) ELSE ZeroBlock
                         ELSE disc[n]]
\* (slip: the root directory's cluster counts as usable)
SuperOfRoot(blocks) ==
  LET total == blocks \div clusterSize
      len == mapBlocks(total)
  IN SuperBlock(len, total, total - CeilDiv(1 + len, clusterSize))
SuperOf(blocks) ==
  LET total == blocks \div clusterSize
      len == mapBlocks(total)
  IN SuperBlock(len, total, total - CeilDiv(1 + len, clusterSize) - 1)
FormatSuper(disc) == [disc EXCEPT ![superBlockLocation] = SuperOf(Cardinality(DOMAIN disc))]

-----------------------------------------------------------------------------
(* Inodes: the blocks of the cluster, in memory or on the disc.            *)
NewINode == [i \in 0 .. clusterSize - 1 |->
               IF i = 0 THEN Header(0, inlineSize, 0) ELSE ZeroBlock]
readCluster(disc, p) == [i \in 0 .. clusterSize - 1 |-> disc[p + i]]
writeCluster(disc, p, cluster) ==
  [n \in DOMAIN disc |-> IF n \in ClusterOf(p) THEN cluster[n - p] ELSE disc[n]]
getINode(disc, p) ==         \* what is not an inode is read as zeros
  [readCluster(disc, p) EXCEPT ![0] = IF @.kind = "inode" THEN @ ELSE Header(0, 0, 0)]
Depth(iNode) == iNode[0].depth

\* Bytes a file of this depth can have, and blocks behind a pointer at this
\* level.  2 is the deepest: bytesTotal is an int, and none is more than the
\* size at depth 2.
getSize(depth) ==
  CASE depth = 0 -> inlineSize
    [] depth = 1 -> (inlineSize \div 4) * clusterByteSize
    [] depth = 2 -> (inlineSize \div 4) * clusterByteSize * (clusterByteSize \div 4)
getGapSizeBlocks(level, depth) ==
  CASE level = depth - 1 -> clusterSize
    [] level = depth - 2 -> clusterSize * (clusterByteSize \div 4)
bytesTotal(blockNum) == (blockNum + 1) * BlockSize

\* getBlockPointer(), -1 when the data are in the inode itself.  The indexes
\* are those of getPointerPosListBlocks(): its last gap is 0, and so is the
\* last index whatever the block.
getBlockPointer(disc, iNode, blockNum) ==
  LET depth == Depth(iNode)
      gap(level) == getGapSizeBlocks(level, depth)
      top == extractInt(iNode, 0, dataStart + 4 * (blockNum \div gap(0)))
  IN CASE depth = 0 -> -1
       [] depth = 1 -> top
       [] depth = 2 -> extractInt(disc, top, 4 * ((blockNum % gap(0)) \div gap(1)))

\* increaseDepth() once it has the cluster p: the inode's data move there
MovedData(iNode) == [i \in 0 .. clusterSize - 1 |->
                       IF i = clusterSize - 1 THEN ZeroBlock ELSE iNode[i + 1]]
\* (slip: the depth is not increased)
DeepenedFlat(iNode, p) ==
  [i \in 0 .. clusterSize - 1 |->
     CASE i = 0 -> iNode[0] [] i = 1 -> PtrBlock(p) [] OTHER -> ZeroBlock]
Deepened(iNode, p) ==
  [i \in 0 .. clusterSize - 1 |->
     CASE i = 0 -> [iNode[0] EXCEPT !.depth = @ + 1]
       [] i = 1 -> PtrBlock(p)
       [] OTHER -> ZeroBlock]

\* findFirstEmpty(): it looks at bytes dataStart, 4 dataStart, 16 dataStart
\* ... of the inode and gives the first that is 0 or is behind its end
probes == {dataStart, 4 * dataStart, 16 * dataStart}
IsZeroByte(iNode, byte) == byte < clusterByteSize - 3 => extractInt(iNode, 0, byte) % 256 = 0
findFirstEmpty(iNode) == Min({b \in probes : IsZeroByte(iNode, b)})

\* addCluster() at depth 1 once it has the cluster p.  A pointer behind the
\* inode's end is stored in memory that is not the inode's.
Extended(iNode, p) ==
  LET at == findFirstEmpty(iNode) \div BlockSize
  IN [i \in 0 .. clusterSize - 1 |->
        CASE i = 0 -> [iNode[0] EXCEPT !.currentCap = @ + clusterByteSize]
          [] i = at -> PtrBlock(p)
          [] OTHER -> iNode[i]]

\* readFileBlock(): what it returns, or NoBlock when it returns false
NoBlock == [kind |-> "none"]
readFileBlock(disc, p, blockNum) ==
  LET iNode == getINode(disc, p)
      at == getBlockPointer(disc, iNode, blockNum)
  IN IF bytesTotal(blockNum) > iNode[0].size THEN NoBlock
     ELSE IF at = -1 THEN iNode[1 + blockNum] ELSE disc[at]

-----------------------------------------------------------------------------
\* What a disc of createdisk() can hold: it has room for two clusters, its
\* superblock, if there is one, is the one of its size, the bits of what is
\* on the disc alone can be 1, with the root directory's; and no pointer is
\* before the first cluster.
Proper(disc) ==
  LET n == Cardinality(DOMAIN disc)
  IN /\ n \in Nat /\ n >= 2 * clusterSize
     /\ disc = [k \in 0 .. n - 1 |-> disc[k]]
     /\ \A k \in 0 .. clusterSize - 1 : disc[k].kind # "ptr"
     /\ disc[superBlockLocation].kind = "super" =>
          /\ disc[superBlockLocation] = SuperOf(n)
          /\ 0 \in UsedBits(disc)
          /\ \A k \in 1 .. SuperOf(n).mapSize : Used(disc[k]) \subseteq 0 .. bitsPerBlock - 1
          /\ \A k \in UsedBits(disc) : Position(disc, k) + clusterSize <= SuperOf(n).total * clusterSize
=============================================================================
