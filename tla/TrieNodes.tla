----------------------------- MODULE TrieNodes -----------------------------
(* The nodes of the Merkle Patricia trie: node.rs, node/leaf.rs,             *)
(* node/branch.rs, node/extension.rs, node_hash.rs, rlp.rs and the lookups   *)
(* of state.rs in crates/trie.                                               *)
(*                                                                           *)
(* An encoded node is a tuple of its parts, with the length in bytes the     *)
(* encoder gives it.  Keccak is modelled as injective: the hash of an        *)
(* encoding is the encoding, marked as hashed.  A value is known by its      *)
(* length and its first byte.  NIBBLE is the set of nibbles (16 in the code) *)
(* and HASH_LEN the length of a hash (32).                                   *)
EXTENDS NibblePath, TLC

CONSTANTS NIBBLE, HASH_LEN

NoValue == [len |-> 0, first |-> 0]

\* In place of a value: the node that should hold it is not there, and the code
\* panics ("inconsistent internal tree structure").
Inconsistent == [len |-> 0, first |-> 255]

----------------------------------------------------------------------------
(* node_hash.rs                                                              *)

compute_byte_usage(n) == CHOOSE k \in 1 .. 4 : n < 256 ^ k /\ \A j \in 1 .. k - 1 : n >= 256 ^ j

bytes_len(value_len, first_value) ==
  CASE value_len = 1 /\ first_value < 128 -> 1
    [] ~(value_len = 1 /\ first_value < 128) /\ value_len < 56 -> value_len + 1
    [] OTHER -> value_len + compute_byte_usage(value_len) + 1

path_len(nibbles) == bytes_len(nibbles \div 2 + 1, 0)

\* The bytes write_list_header puts before a list of the given length.
ListLen(children_len) ==
  children_len + (IF children_len < 56 THEN 1 ELSE 1 + compute_byte_usage(children_len))

\* NodeHash: Inline holds the encoding itself, Hashed its hash.
const_default == [inline |-> TRUE, len |-> 0, encoded |-> <<>>]

is_valid(hash) == ~(hash.inline /\ hash.len = 0)

from_encoded_raw(encoded, len) ==
  [inline |-> len < HASH_LEN, len |-> IF len < HASH_LEN THEN len ELSE HASH_LEN, encoded |-> encoded]

\* The hash of a root is never inline: a short encoding is hashed as well.
finalize(hash) == [hash EXCEPT !.inline = FALSE, !.len = HASH_LEN]

EMPTY_TRIE_HASH == [inline |-> FALSE, len |-> HASH_LEN, encoded |-> <<"null">>]

----------------------------------------------------------------------------
(* The nodes and their encoding                                              *)

LeafNode(path, value) == [kind |-> "leaf", path |-> path, value |-> value]

ExtensionNode(prefix, child) == [kind |-> "extension", prefix |-> prefix, child |-> child]

BranchNode(choices, path, value) ==
  [kind |-> "branch", choices |-> choices, path |-> path, value |-> value]

EMPTY_CHOICES == [n \in NIBBLE |-> const_default]

\* What a parent writes for a child: nothing as an empty string, a short child
\* as it is and a hash as a string.
ChildLen(hash) ==
  CASE ~is_valid(hash) -> 1
    [] is_valid(hash) /\ hash.inline -> hash.len
    [] OTHER -> bytes_len(HASH_LEN, 128)

RestNibbles(path) == [i \in 1 .. slice_len(path) |-> NibbleAt(path.data, path.offset + i - 1)]

EncodedLeaf(nibbles, value) == <<"leaf", nibbles, value>>
EncodedExtension(nibbles, child) == <<"extension", nibbles, child>>
EncodedBranch(choices, value) == <<"branch", choices, value>>

\* encode_raw of each kind of node: the parts and their length.  A leaf only
\* writes the nibbles after the offset, a branch does not write its path.
leaf_encode_raw(node, offset) ==
  LET nibbles == RestNibbles([data |-> node.path, offset |-> offset])
  IN  [parts |-> EncodedLeaf(nibbles, node.value),
       len |-> ListLen(path_len(Len(nibbles)) + bytes_len(node.value.len, node.value.first))]

extension_encode_raw(node) ==
  [parts |-> EncodedExtension(Nibbles(node.prefix), node.child),
   len |-> ListLen(path_len(vec_len(node.prefix)) + ChildLen(node.child))]

branch_encode_raw(node) ==
  [parts |-> EncodedBranch(node.choices, node.value),
   len |-> ListLen(MapThenSumSet(LAMBDA n : ChildLen(node.choices[n]), NIBBLE)
                   + bytes_len(node.value.len, node.value.first))]

encode_raw(node, offset) ==
  CASE node.kind = "leaf" -> leaf_encode_raw(node, offset)
    [] node.kind = "extension" -> extension_encode_raw(node)
    [] node.kind = "branch" -> branch_encode_raw(node)

HashOf(encoded) == from_encoded_raw(encoded.parts, encoded.len)

compute_hash(node, offset) == HashOf(encode_raw(node, offset))

\* rlp.rs: how a node is kept in the database, the kind as its first byte.
\* Unlike the encoding that is hashed it keeps the whole path of a leaf.
rlp_encode(node) ==
  CASE node.kind = "branch" -> <<0, node.choices, node.path, node.value>>
    [] node.kind = "extension" -> <<1, node.prefix, node.child>>
    [] node.kind = "leaf" -> <<2, node.path, node.value>>

rlp_decode(rlp) ==
  CASE rlp[1] = 0 -> BranchNode(rlp[2], rlp[3], rlp[4])
    [] rlp[1] = 1 -> ExtensionNode(rlp[2], rlp[3])
    [] rlp[1] = 2 -> LeafNode(rlp[2], rlp[3])

----------------------------------------------------------------------------
(* TrieState: the cache in front of the database                             *)

State(db, cache) == [db |-> db, cache |-> cache]

Known(state, hash) == hash \in DOMAIN state.cache \/ hash \in DOMAIN state.db

Missing == [kind |-> "missing"]

get_node(state, hash) ==
  IF hash \in DOMAIN state.cache THEN state.cache[hash]
  ELSE IF hash \in DOMAIN state.db THEN rlp_decode(state.db[hash])
  ELSE Missing

insert_node(state, node, hash) == [state EXCEPT !.cache = (hash :> node) @@ @]

\* insert_self returns the hash and leaves the node in the state.
Held(state, node, hash) == [hash |-> hash, state |-> insert_node(state, node, hash)]

insert_self(state, node, offset) == Held(state, node, compute_hash(node, offset))

----------------------------------------------------------------------------
(* get                                                                       *)

RECURSIVE node_get(_, _, _)

leaf_get(node, path) == IF cmp_rest(path, node.path) THEN node.value ELSE NoValue

extension_get(state, node, path) ==
  LET after == skip_prefix(path, node.prefix)
  IN  IF after.skipped THEN node_get(state, get_node(state, node.child), after.path) ELSE NoValue

branch_get(state, node, path) ==
  IF AtEnd(path) THEN node.value
  ELSE LET child == node.choices[Next_(path)]
       IN  IF is_valid(child) THEN node_get(state, get_node(state, child), offset_add(path, 1))
           ELSE NoValue

node_get(state, node, path) ==
  CASE node = Missing -> Inconsistent
    [] node.kind = "leaf" -> leaf_get(node, path)
    [] node.kind = "extension" -> extension_get(state, node, path)
    [] node.kind = "branch" -> branch_get(state, node, path)

\* What a node adds to a proof: its encoding, unless its parent holds it.
ProofPart(state, node, path) ==
  LET encoded == encode_raw(node, path.offset)
  IN  IF encoded.len >= HASH_LEN THEN <<encoded.parts>> ELSE <<>>

RECURSIVE get_path(_, _, _)

extension_get_path(state, node, path) ==
  LET after == skip_prefix(path, node.prefix)
  IN  IF after.skipped THEN get_path(state, get_node(state, node.child), after.path) ELSE <<>>

branch_get_path(state, node, path) ==
  IF AtEnd(path) \/ ~is_valid(node.choices[Next_(path)]) THEN <<>>
  ELSE get_path(state, get_node(state, node.choices[Next_(path)]), offset_add(path, 1))

get_path(state, node, path) ==
  ProofPart(state, node, path)
  \o (CASE node.kind = "leaf" -> <<>>
        [] node.kind = "extension" -> extension_get_path(state, node, path)
        [] node.kind = "branch" -> branch_get_path(state, node, path))
=============================================================================
