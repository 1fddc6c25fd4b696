---------------------------- MODULE TrieUpdates ----------------------------
(* How a node takes a value in and gives one up: insert and remove of        *)
(* node/leaf.rs, node/extension.rs and node/branch.rs in crates/trie.        *)
(*                                                                           *)
(* Each returns the node that takes the place of the one it was called on    *)
(* and the state with the nodes it made on the way.                          *)
EXTENDS TrieNodes

Result(node, state) == [node |-> node, state |-> state]

----------------------------------------------------------------------------
(* insert                                                                    *)

\* The node over the branch that two paths part at, if they share a prefix.
Over(prefix, held) == Result(ExtensionNode(prefix, held.hash), held.state)

Under(prefix, branch) ==
  IF prefix.data = <<>> THEN branch
  ELSE Over(prefix, insert_self(branch.state, branch.node, 0))

Choice(nibble, held) == [EMPTY_CHOICES EXCEPT ![nibble] = held.hash]

OneLeaf(nibble, held, path, value) ==
  Result(BranchNode(Choice(nibble, held), path, value), held.state)

TwoLeaves(nibble, held, other_nibble, other) ==
  Result(BranchNode([Choice(other_nibble, other) EXCEPT ![nibble] = held.hash], <<>>, NoValue),
         held.state)

\* The branch where the path of a leaf and a new path part, at a nibble of each
\* unless one of them ends there.
leaf_branch(state, leaf, path, value, at) ==
  CASE at = 2 * Len(path.data) ->
         OneLeaf(NibbleAt(leaf.path, at), insert_self(state, leaf, at + 1), path.data, value)
    [] at = 2 * Len(leaf.path) ->
         OneLeaf(NibbleAt(path.data, at), insert_self(state, LeafNode(path.data, value), at + 1),
                 leaf.path, leaf.value)
    [] OTHER ->
         LET made == insert_self(state, LeafNode(path.data, value), at + 1)
         IN  TwoLeaves(NibbleAt(leaf.path, at), insert_self(made.state, leaf, at + 1),
                       NibbleAt(path.data, at), made)

leaf_insert(state, leaf, path, value) ==
  LET offset == count_prefix_slice(path, [data |-> leaf.path, offset |-> path.offset])
  IN  IF cmp_rest(path, leaf.path) THEN Result([leaf EXCEPT !.value = value], state)
      ELSE Under(IF offset = 0 THEN EmptyVec ELSE split_to_vec(path, offset),
                 leaf_branch(state, leaf, path, value, path.offset + offset))

\* The branch where a path leaves the prefix of an extension: what is left of
\* the extension, and a leaf for the path unless it ends there.
Replaced(right, child, state) ==
  IF right.data = <<>> THEN [hash |-> child, state |-> state]
  ELSE insert_self(state, ExtensionNode(right, child), 0)

extension_branch(held, nibble, at, value) ==
  IF AtEnd(at) THEN OneLeaf(nibble, held, at.data, value)
  ELSE TwoLeaves(Next_(at), insert_self(held.state, LeafNode(at.data, value), at.offset + 1),
                 nibble, held)

SplitAt(state, extension, parts, at, value) ==
  Under(parts.left,
        extension_branch(Replaced(parts.right, extension.child, state), parts.nibble, at, value))

extension_split(state, extension, path, value, offset) ==
  SplitAt(state, extension, split_extract_at(extension.prefix, offset),
          offset_add(path, offset), value)

WithChild(extension, held) == Result([extension EXCEPT !.child = held.hash], held.state)
WithChoice(branch, n, held) == Result([branch EXCEPT !.choices[n] = held.hash], held.state)
Kept(made, offset) == insert_self(made.state, made.node, offset)

RECURSIVE node_insert(_, _, _, _)

extension_insert(state, node, path, value) ==
  LET after == skip_prefix(path, node.prefix)
  IN  IF after.skipped
      THEN WithChild(node, Kept(node_insert(state, get_node(state, node.child),
                                            after.path, value), 0))
      ELSE extension_split(state, node, path, value, count_prefix_vec(path, node.prefix))

branch_insert(state, node, path, value) ==
  LET hash == node.choices[Next_(path)]
      rest == offset_add(path, 1)
      child == IF is_valid(hash)
               THEN node_insert(state, get_node(state, hash), rest, value)
               ELSE Result(LeafNode(path.data, value), state)
  IN  IF AtEnd(path) THEN Result([node EXCEPT !.path = path.data, !.value = value], state)
      ELSE WithChoice(node, Next_(path), Kept(child, rest.offset))

node_insert(state, node, path, value) ==
  CASE node.kind = "leaf" -> leaf_insert(state, node, path, value)
    [] node.kind = "extension" -> extension_insert(state, node, path, value)
    [] node.kind = "branch" -> branch_insert(state, node, path, value)

----------------------------------------------------------------------------
(* remove                                                                    *)

NoNode == [kind |-> "none"]

Removed(node, value, state) == [node |-> node, value |-> value, state |-> state]

\* Faulty variant: the path to a child that takes the place of a branch does not
\* take up the nibble of the child.
restructure_unprefixed(state, branch, path_offset) ==
  LET children == {n \in NIBBLE : is_valid(branch.choices[n])}
  IN  Result(IF Cardinality(children) = 1
             THEN get_node(state, branch.choices[CHOOSE n \in children : TRUE]) ELSE branch, state)

\* A branch with the single child left at a nibble.  Over a branch comes an
\* extension, and it takes the place of the branch if that has no value; an
\* extension or a leaf takes its place itself.
OnlyBranch(branch, n, over) ==
  IF branch.path # <<>> THEN WithChoice(branch, n, over)
  ELSE Result(get_node(over.state, over.hash), over.state)

OnlyChild(state, branch, n, child, path_offset) ==
  CASE child.kind = "extension" -> Result([child EXCEPT !.prefix = prepend(@, n)], state)
    [] child.kind = "branch" ->
         OnlyBranch(branch, n,
                    insert_self(state, ExtensionNode(from_single(n, Odd(path_offset)),
                                                     branch.choices[n]), 0))
    [] child.kind = "leaf" -> Result(IF branch.path # <<>> THEN branch ELSE child, state)

\* Step 2 of BranchNode::remove: a branch left with a single child gives way to
\* it.  More than one child counts like none when the branch has a value.
restructure(state, branch, path_offset) ==
  LET children == {n \in NIBBLE : is_valid(branch.choices[n])}
      n == CHOOSE m \in children : TRUE
  IN  IF Cardinality(children) = 1
      THEN OnlyChild(state, branch, n, get_node(state, branch.choices[n]), path_offset)
      ELSE Result(IF branch.path # <<>> THEN LeafNode(branch.path, branch.value) ELSE branch,
                  state)

\* Faulty variant: an extension keeps an extension as its child.
merge_nested(state, extension, child) ==
  IF child.kind \in {"branch", "extension"}
  THEN WithChild(extension, insert_self(state, child, 0)) ELSE Result(child, state)

\* What becomes of an extension whose child was replaced.
merge(state, extension, child) ==
  CASE child.kind = "branch" -> WithChild(extension, insert_self(state, child, 0))
    [] child.kind = "extension" ->
         Result([child EXCEPT !.prefix = extend(extension.prefix, @)], state)
    [] child.kind \in {"leaf", "none"} -> Result(child, state)

Returning(made, value) == Removed(made.node, value, made.state)

\* Step 1 of BranchNode::remove, when the value is below the child at n.
Emptied(branch, n, gone, offset) ==
  IF gone.node = NoNode
  THEN Removed([branch EXCEPT !.choices[n] = const_default], gone.value, gone.state)
  ELSE Returning(WithChoice(branch, n, Kept(gone, offset)), gone.value)

Restructured(gone, path_offset) ==
  Returning(restructure(gone.state, gone.node, path_offset), gone.value)

Merged(extension, gone) == Returning(merge(gone.state, extension, gone.node), gone.value)

RECURSIVE node_remove(_, _, _)

leaf_remove(state, node, path) ==
  IF cmp_rest(path, node.path) THEN Removed(NoNode, node.value, state)
  ELSE Removed(node, NoValue, state)

extension_remove(state, node, path) ==
  LET after == skip_prefix(path, node.prefix)
  IN  IF after.skipped
      THEN Merged(node, node_remove(state, get_node(state, node.child), after.path))
      ELSE Removed(node, NoValue, state)

branch_remove(state, node, path) ==
  LET n == Next_(path)
      rest == offset_add(path, 1)
  IN  Restructured(
        CASE AtEnd(path) /\ node.path # <<>> ->
               Removed([node EXCEPT !.path = <<>>, !.value = NoValue], node.value, state)
          [] ~AtEnd(path) /\ is_valid(node.choices[n]) ->
               Emptied(node, n, node_remove(state, get_node(state, node.choices[n]), rest),
                       rest.offset)
          [] OTHER -> Removed(node, NoValue, state),
        path.offset)

node_remove(state, node, path) ==
  CASE node.kind = "leaf" -> leaf_remove(state, node, path)
    [] node.kind = "extension" -> extension_remove(state, node, path)
    [] node.kind = "branch" -> branch_remove(state, node, path)
=============================================================================
