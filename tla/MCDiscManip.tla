---------------------------- MODULE MCDiscManip ----------------------------
(***************************************************************************)
(* Small discs for TLC, with blocks of 4 bytes: a bitmap block has 32 bits,*)
(* an inode 7 pointers, and a file of depth 1 at most 56 blocks.           *)
(***************************************************************************)
EXTENDS DiscManip

Formatted(clusters) == FormatSuper(FormatMap(NewDisc(clusters * clusterSize)))
\* after n clusters were asked for and got
Given(clusters, n) == [Formatted(clusters) EXCEPT ![1] = MapBlock(0 .. n)]

\* a disc with room for two files and their growth, or one with more clusters
\* than its bitmap has bits for, nearly used up; and a disc not yet formatted
MCDiscs == {[d \in Disc |-> IF d = First THEN a ELSE NewDisc(2 * clusterSize)] :
              a \in {Formatted(5), Given(34, 28)}}
=============================================================================
