------------------------------- MODULE MCTrie -------------------------------
(* Instances of the trie for TLC.                                            *)
EXTENDS Trie

\* Paths as the store uses them: of one length, like the digests of addresses
\* and slots, and like those not ending alike after the nibble they part at.
Digests ==
  { << <<0, 0>>, <<0, 0>>, <<0, 0>> >>, << <<0, 0>>, <<0, 0>>, <<1, 1>> >>,
    << <<0, 0>>, <<0, 1>>, <<0, 2>> >>, << <<1, 0>>, <<0, 0>>, <<0, 3>> >> }

Short == [len |-> 1, first |-> 5]
Long == [len |-> 60, first |-> 200]

\* A node with a short value near the end of its path is written in its parent.
DigestValuesAt(path) ==
  CASE path[1] = <<1, 0>> -> {Long}
    [] path[3] = <<0, 0>> -> {Short, Long}
    [] OTHER -> {Short}
=============================================================================
