---------------------------- MODULE MCPeripherals ----------------------------
(***************************************************************************)
(* Twelve words in four pages, blocks of two words, a disc of two blocks   *)
(* and a tape of two and a half.  Parameter blocks are at 8, the text at 0 *)
(* is the label of the tape.                                               *)
(***************************************************************************)
EXTENDS Peripherals

W(a, b) == <<a, b>>
MCBoot == (0 :> W(1, 2)) @@ (1 :> W(3, 0)) @@ (2 :> W(4, 5)) @@ (3 :> W(6, 7)) @@ (4 :> W(8, 9))
          @@ [a \in 5 .. 11 |-> W(0, 0)]
MCAddresses == 0 .. 11
MCResidents == {0 .. 3, {0, 2, 3}, 0 .. 2}
MCDisc == << <<W(21, 22), W(23, 24)>>, <<W(25, 26), W(27, 28)>> >>
MCTapes == <<1, 2, 3>> :> << <<W(31, 32), W(33, 34)>>, <<W(35, 36), W(37, 38)>>, <<W(39, 0)>> >>
MCKeys == <<10, 11, 12>>
MCDateOf(t) == <<40, 41, 42, 43, 44, 45, 46>>

Asked(names, nums, addresses) == [op : names, paramaddr : {8}, num : nums, address : addresses]
OnDisc(num, block, address) == [op : DiscOps, paramaddr : {8}, unit : {1}, num : {num}, block : {block}, address : {address}]
MCRequests ==
  OnDisc(1, 1, 2) \cup OnDisc(2, 0, 1) \cup OnDisc(2, 0, 2) \cup OnDisc(2, 1, 1) \cup OnDisc(-1, 0, 1)
  \cup [op : {"READDISC"}, paramaddr : {8}, unit : {0, 2}, num : {1}, block : {0}, address : {1}]
  \cup [op : {"SIZEDISC"}, paramaddr : {8}, unit : {1, 2}]
  \cup Asked({"TERMINC"}, {3}, {2}) \cup Asked({"TERMINW"}, {2}, {2})
  \cup Asked({"TERMOUTC", "TERMOUTW"}, {0}, {2}) \cup Asked({"TERMOUTW"}, {3}, {2})
  \cup [op : {"SECONDS", "MTUNLOAD", "NOSUCH"}, paramaddr : {8}]
  \cup [op : {"DATETIME"}, paramaddr : {4}]
  \cup [op : {"MTLOAD"}, paramaddr : {8}, writable : BOOLEAN, address : {0}]
  \cup [op : {"MTLOAD"}, paramaddr : {8}, writable : {FALSE}, address : {3}]
  \cup Asked({"MTREAD"}, {2}, {1, 2}) \cup Asked({"MTWRITE"}, {2}, {1})
=============================================================================
