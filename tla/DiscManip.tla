----------------------------- MODULE DiscManip -----------------------------
(***************************************************************************)
(* The program of chmarti/FileSystems/discManip.cpp: it mounts discs, and  *)
(* formats one, creates files on it and writes and reads their blocks with *)
(* the operations of SimpleFS.  The program can be killed between any two  *)
(* writes to a disc and started again: the discs stay as they are.         *)
(* A cluster is written, and the zeros of a file with a gap are filled in, *)
(* in one step.                                                            *)
(***************************************************************************)
EXTENDS SimpleFS, Sequences

CONSTANTS Disc, NoDisc,  \* names of disc files
          First,         \* the disc that main() mounts
          Fd,            \* file numbers that open() can give, from the lowest
          Discs,         \* what the discs can hold at first
          Data,          \* what can be written to a block, not Zero
          Zero,
          Blocks,        \* the blocks of a file that are written
          MaxFiles,      \* bound on the files of a disc
          MaxWipes,      \* bound on formats and creations
          MaxWiped       \* bound on the blocks of the discs that are

ASSUME DiscAssumption == First \in Disc /\ NoDisc \notin Disc /\ Fd \subseteq Nat /\ Fd # {}
ASSUME DiscsAssumption ==
  \A start \in Discs : start = [d \in Disc |-> start[d]] /\ \A d \in Disc : Proper(start[d])
ASSUME BlocksAssumption == Blocks \subseteq Nat /\ \A b \in Blocks : bytesTotal(b) <= getSize(2)

VARIABLES disc,          \* name -> the disc
          open,          \* file number -> the name of what it is open on
          files,         \* the list of mounted discs
          shown,         \* the name of the disc in the menu, NoDisc at the root
          num,           \* useDisk()'s num
          op,            \* the operation that is going on
          wrote,         \* name -> position of an inode -> what was last put
                         \* into its blocks (an auxiliary variable)
          wipes          \* formats and creations so far
vars == <<disc, open, files, shown, num, op, wrote, wipes>>

Menu == [pc |-> "menu"]
Idle == op.pc = "menu"
AtRoot == Idle /\ shown = NoDisc
InDisk == Idle /\ shown # NoDisc
Mounted == open = [n \in Fd |-> IF n = Min(Fd) THEN First ELSE NoDisc]
           /\ files = <<[name |-> First, num |-> Min(Fd)]>>

Init == /\ disc \in Discs /\ Mounted
        /\ shown = NoDisc /\ num = Min(Fd) /\ op = Menu
        /\ wrote = [d \in Disc |-> << >>] /\ wipes = 0

-----------------------------------------------------------------------------
(* main(): mounting and dismounting                                        *)
MountDisk(d) ==
  LET free == {n \in Fd : open[n] = NoDisc}
  IN /\ AtRoot /\ free # {}
     /\ open' = [open EXCEPT ![Min(free)] = d]
     /\ files' = Append(files, [name |-> d, num |-> Min(free)])
     /\ UNCHANGED <<disc, shown, num, op, wrote, wipes>>

WithNum(n) == {i \in DOMAIN files : files[i].num = n}
Without(s, i) == SubSeq(s, 1, i - 1) \o SubSeq(s, i + 1, Len(s))

\* (slip: the entry stays in the list)
DismountOnly(n) == /\ AtRoot /\ open' = [open EXCEPT ![n] = NoDisc]
                   /\ UNCHANGED <<disc, files, shown, num, op, wrote, wipes>>
DismountDisk(n) ==
  /\ AtRoot
  /\ open' = [open EXCEPT ![n] = NoDisc]
  /\ files' = IF WithNum(n) = {} THEN files ELSE Without(files, Min(WithNum(n)))
  /\ UNCHANGED <<disc, shown, num, op, wrote, wipes>>

Wipe(d) == /\ Cardinality(DOMAIN disc[d]) <= MaxWiped
           /\ wipes < MaxWipes /\ wipes' = wipes + 1
CreateDisk(d) ==
  /\ AtRoot /\ Wipe(d)
  /\ disc' = [disc EXCEPT ![d] = NewDisc(Cardinality(DOMAIN disc[d]))]
  /\ wrote' = [wrote EXCEPT ![d] = << >>]
  /\ UNCHANGED <<open, files, shown, num, op>>

UseDisk(n) ==
  /\ AtRoot /\ WithNum(n) # {}
  /\ shown' = files[Min(WithNum(n))].name /\ num' = n
  /\ UNCHANGED <<disc, open, files, op, wrote, wipes>>
Back == InDisk /\ shown' = NoDisc /\ UNCHANGED <<disc, open, files, num, op, wrote, wipes>>

\* the disc the operations of the menu go to: num's, whatever is shown
used == open[num]
Current == disc[used]
Put(content) == disc' = [disc EXCEPT ![used] = content]
Still == UNCHANGED <<open, files, shown, num, wipes>>
Then(o) == op' = o

-----------------------------------------------------------------------------
(* useDisk(): formatting, clusters and inodes.  On a number that is not    *)
(* open every operation fails before it changes anything.                  *)
FormatDiskFull ==
  /\ InDisk /\ used # NoDisc /\ Wipe(used)
  /\ Put(FormatMap(Current)) /\ Then([pc |-> "format"])
  /\ wrote' = [wrote EXCEPT ![used] = << >>]
  /\ UNCHANGED <<open, files, shown, num>>
FinishFormat == /\ op.pc = "format" /\ Put(FormatSuper(Current)) /\ Then(Menu)
                /\ UNCHANGED wrote /\ Still

\* "Get next free cluster" asks for a number and keeps it
GetFreeCluster(n) ==
  /\ InDisk /\ num' = n
  /\ LET d == open[n]
         p == IF d = NoDisc THEN 0 ELSE FreeCluster(disc[d])
     IN disc' = IF p = 0 THEN disc ELSE [disc EXCEPT ![d] = Take(@, p)]
  /\ UNCHANGED <<open, files, shown, op, wrote, wipes>>

CreateINode ==
  /\ InDisk /\ used # NoDisc /\ Cardinality(DOMAIN wrote[used]) < MaxFiles
  /\ FreeCluster(Current) # 0
  /\ Put(Take(Current, FreeCluster(Current)))
  /\ Then([pc |-> "create", pos |-> FreeCluster(Current)])
  /\ UNCHANGED wrote /\ Still
FinishCreate ==
  /\ op.pc = "create" /\ Put(writeCluster(Current, op.pos, NewINode)) /\ Then(Menu)
  /\ wrote' = [wrote EXCEPT ![used] =
       [p \in DOMAIN @ \cup {op.pos} |-> IF p \in DOMAIN @ THEN @[p] ELSE [b \in Blocks |-> Zero]]]
  /\ Still

-----------------------------------------------------------------------------
(* writeFileBlock().  op holds the inode in memory until it is written     *)
(* back, which happens on success and on failure.                          *)
WriteFileBlock(p, b, v) ==
  /\ InDisk /\ used # NoDisc /\ p \in DOMAIN wrote[used]
  /\ Then([pc |-> "depth", pos |-> p, block |-> b, value |-> v,
           iNode |-> getINode(Current, p), cluster |-> 0])
  /\ UNCHANGED <<disc, wrote>> /\ Still

Want == bytesTotal(op.block)
Go(pc) == Then([op EXCEPT !.pc = pc])
Free == FreeCluster(Current)

DepthSuffices == /\ op.pc = "depth" /\ Want <= getSize(Depth(op.iNode))
                 /\ Go("cap") /\ UNCHANGED <<disc, wrote>> /\ Still
IncreaseDepth ==
  /\ op.pc = "depth" /\ Want > getSize(Depth(op.iNode))
  /\ IF Free = 0 THEN Go("fail") /\ UNCHANGED disc
     ELSE /\ Put(Take(Current, Free))
          /\ Then([op EXCEPT !.pc = "move", !.cluster = Free])
  /\ UNCHANGED wrote /\ Still
MoveData ==
  /\ op.pc = "move" /\ Put(writeCluster(Current, op.cluster, MovedData(op.iNode)))
  /\ Then([op EXCEPT !.pc = "depth", !.iNode = Deepened(op.iNode, op.cluster)])
  /\ UNCHANGED wrote /\ Still

CapacitySuffices == /\ op.pc = "cap" /\ Want <= op.iNode[0].currentCap
                    /\ Go("store") /\ UNCHANGED <<disc, wrote>> /\ Still
\* addCluster(); at depth 2 isFull() never leaves its loop over the words of
\* a cluster, since 0 times 4 is 0, and there is no step
AddCluster ==
  /\ op.pc = "cap" /\ Want > op.iNode[0].currentCap /\ Depth(op.iNode) = 1
  /\ IF Free = 0 THEN Go("fail") /\ UNCHANGED disc
     ELSE /\ Put(Take(Current, Free))
          /\ Then([op EXCEPT !.iNode = Extended(op.iNode, Free)])
  /\ UNCHANGED wrote /\ Still

\* the size, zeros from the old size to the block, and the block
Store ==
  LET size == op.iNode[0].size
      sized == [op.iNode EXCEPT ![0].size = Max({size, Want})]
      gap == size \div BlockSize .. op.block - 1
      at(b) == getBlockPointer(Current, op.iNode, b)
      new == IF op.value = Zero THEN ZeroBlock ELSE DataBlock(op.value)
  IN /\ op.pc = "store"
     /\ IF Depth(op.iNode) = 0
        THEN /\ UNCHANGED disc
             /\ Then([op EXCEPT !.pc = "done", !.iNode =
                  [i \in 0 .. clusterSize - 1 |->
                     CASE i - 1 = op.block -> new [] i - 1 \in gap -> ZeroBlock
                       [] OTHER -> sized[i]]])
        ELSE /\ Then([op EXCEPT !.pc = IF at(op.block) = 0 THEN "fail" ELSE "done", !.iNode = sized])
             /\ Put([n \in DOMAIN Current |->
                  IF n # 0 /\ n = at(op.block) THEN new
                  ELSE IF n # 0 /\ n \in {at(b) : b \in gap} THEN ZeroBlock ELSE Current[n]])
     /\ UNCHANGED wrote /\ Still

FinishWrite ==
  /\ op.pc \in {"done", "fail"} /\ Put(writeCluster(Current, op.pos, op.iNode)) /\ Then(Menu)
  /\ wrote' = IF op.pc = "done" THEN [wrote EXCEPT ![used][op.pos][op.block] = op.value] ELSE wrote
  /\ Still

\* the program is killed and started again
Crash == /\ open' = [n \in Fd |-> IF n = Min(Fd) THEN First ELSE NoDisc]
         /\ files' = <<[name |-> First, num |-> Min(Fd)]>>
         /\ shown' = NoDisc /\ num' = Min(Fd) /\ op' = Menu
         /\ UNCHANGED <<disc, wrote, wipes>>

Next == \/ \E d \in Disc : MountDisk(d) \/ CreateDisk(d)
        \/ \E n \in Fd : DismountDisk(n) \/ UseDisk(n) \/ GetFreeCluster(n)
        \/ Back \/ FormatDiskFull \/ FinishFormat \/ CreateINode \/ FinishCreate
        \/ \E p \in DOMAIN wrote[IF used = NoDisc THEN First ELSE used] :
             \E b \in Blocks : \E v \in Data \cup {Zero} : WriteFileBlock(p, b, v)
        \/ DepthSuffices \/ IncreaseDepth \/ MoveData \/ CapacitySuffices \/ AddCluster
        \/ Store \/ FinishWrite \/ Crash
Spec == Init /\ [][Next]_vars

-----------------------------------------------------------------------------
(* Properties.                                                             *)

\* The list of mounted discs says what every open file number is open on.
Listed == {<<files[i].name, files[i].num>> : i \in DOMAIN files}
            = {<<open[n], n>> : n \in {m \in Fd : open[m] # NoDisc}}

Pointers(iNode) == IF Depth(iNode) = 0 THEN {} ELSE
  {iNode[i].first : i \in {j \in 1 .. clusterSize - 1 : iNode[j].kind = "ptr"}}
Clusters(d, p) == {p} \cup Pointers(getINode(disc[d], p))
Inodes(d) == DOMAIN wrote[d]

\* Every cluster of a file is its own, is marked in the bitmap, and lies
\* behind the bitmap and on the disc, wherever the program was killed.
Exclusive ==
  \A d \in Disc : \A p \in Inodes(d) :
    /\ \A q \in Inodes(d) \ {p} : Clusters(d, p) \cap Clusters(d, q) = {}
    /\ \A c \in Clusters(d, p) :
         /\ c \in {Position(disc[d], k) : k \in UsedBits(disc[d]) \ {0}}
         /\ ClusterOf(c) \subseteq DOMAIN disc[d]

\* The superblock's number of usable clusters is right: never more than that
\* many are handed out, and all of them if the bitmap has room for them.
UsableIsRight ==
  \A d \in Disc : LET sb == Super(disc[d]) IN
    sb.total > 0 /\ UsedBits(disc[d]) # {} =>
      /\ Cardinality(UsedBits(disc[d])) - 1 <= sb.usable
      /\ FreeCluster(disc[d]) = 0 =>
           Cardinality(UsedBits(disc[d])) - 1 = Min({sb.usable, sb.mapSize * bitsPerBlock - 1})

\* A file whose blocks all fit into its inode gives back what was last
\* written to each, and zeros for what was skipped.
Value(block) == IF block.kind = "data" THEN block.value ELSE Zero
ReadsBack(d, p) ==
  \A b \in Blocks : LET r == readFileBlock(disc[d], p, b) IN
    IF r = NoBlock THEN wrote[d][p][b] = Zero ELSE Value(r) = wrote[d][p][b]
SmallFilesReadBack ==
  \A d \in Disc : \A p \in Inodes(d) : Depth(getINode(disc[d], p)) = 0 => ReadsBack(d, p)

\* "given a blockNumber in a file, this function returns the block in the
\* file system where the data actually resides": every block that was
\* written reads back.
FilesReadBack == Idle => \A d \in Disc : \A p \in Inodes(d) : ReadsBack(d, p)

\* An operation on a file, a new file and a kill leave what every other file
\* reads alone.
OthersUndisturbed ==
  [][\A d \in Disc : \A p \in Inodes(d) :
       p \in DOMAIN wrote'[d] /\ ~(d = used /\ "pos" \in DOMAIN op /\ op.pos = p) =>
         \A b \in Blocks : readFileBlock(disc'[d], p, b) = readFileBlock(disc[d], p, b)]_vars

\* "Using Disk": while a disc is shown, it is the one that is changed.
OnTheDiscShown ==
  [][shown # NoDisc => \A d \in Disc \ {shown} : disc'[d] = disc[d]]_vars
=============================================================================
