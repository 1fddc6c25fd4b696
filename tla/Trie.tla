-------------------------------- MODULE Trie --------------------------------
(* The Merkle Patricia trie (crates/trie/trie.rs and state.rs): a root, a     *)
(* cache of the nodes made since the last commit and a database of nodes that *)
(* only grows.                                                                *)
(*                                                                            *)
(* hash() writes the nodes of the trie one transaction each, children first;  *)
(* here every write is a step, and the program may stop between two of them.  *)
(* Whether it stopped or is done, a trie is then opened at some root that     *)
(* hash() has returned.  content is what the calls so far should have left in *)
(* the trie, committed the contents at the roots that were returned.  The     *)
(* bounds are on the number of updates and of roots.                          *)
EXTENDS TrieUpdates

CONSTANTS Paths, ValuesAt(_), MaxUpdates, MaxRoots

ASSUME TrieAssumption ==
  /\ Paths \subseteq Seq(NIBBLE \X NIBBLE)
  /\ \A p \in Paths : \A v \in ValuesAt(p) : v.len > 0
  /\ HASH_LEN \in Nat \ {0}
  /\ MaxUpdates \in Nat
  /\ MaxRoots \in Nat

VARIABLES root, cache, db, pending, removed, content, committed, updates

vars == <<root, cache, db, pending, removed, content, committed, updates>>

EmptyMap == [h \in {} |-> h]

NoContent == [p \in Paths |-> NoValue]

state == State(db, cache)

----------------------------------------------------------------------------
(* Reading                                                                    *)

\* Trie::get in a trie with the given root.
get(st, rt, path) ==
  IF is_valid(rt) THEN node_get(st, get_node(st, rt), NibbleSlice(path)) ELSE NoValue

get_proof(path) ==
  IF ~is_valid(root) THEN <<>>
  ELSE (IF root.inline THEN <<root.encoded>> ELSE <<>>)
       \o get_path(state, get_node(state, root), NibbleSlice(path))

----------------------------------------------------------------------------
(* Committing                                                                 *)

\* The nodes commit_node writes, in order: those below a node first, and none
\* that the cache does not hold.  A node leaves the cache when it is reached.
RECURSIVE commit_node(_, _)
commit_node(held, hash) ==
  LET node == held.cache[hash]
      without == [held EXCEPT !.cache = [h \in DOMAIN @ \ {hash} |-> @[h]]]
      children == IF node.kind = "leaf" THEN {}
                  ELSE IF node.kind = "extension" THEN {0}
                  ELSE {n \in NIBBLE : is_valid(node.choices[n])}
      child(n) == IF node.kind = "extension" THEN node.child ELSE node.choices[n]
      below[left \in SUBSET children] ==
        IF left = {} THEN without
        ELSE commit_node(below[left \ {Max(left)}], child(Max(left)))
      done == below[children]
  IN  IF hash \notin DOMAIN held.cache THEN held
      ELSE [done EXCEPT !.writes = Append(@, [hash |-> hash, node |-> node])]

\* Faulty variant: a node is written before the nodes below it.
Writes_root_first ==
  LET writes == commit_node([cache |-> cache, writes |-> <<>>], root).writes
  IN  [i \in 1 .. Len(writes) |-> writes[Len(writes) + 1 - i]]

Writes == commit_node([cache |-> cache, writes |-> <<>>], root).writes

----------------------------------------------------------------------------
(* The operations                                                             *)

Init ==
  /\ root = const_default
  /\ cache = EmptyMap
  /\ db = EmptyMap
  /\ pending = <<>>
  /\ removed = NoValue
  /\ content = NoContent
  /\ committed = {[root |-> EMPTY_TRIE_HASH, content |-> NoContent]}
  /\ updates = 0

Update == pending = <<>> /\ updates < MaxUpdates /\ updates' = updates + 1

Rooted(held) == root' = held.hash /\ cache' = held.state.cache

insert(path, value) ==
  /\ Update
  /\ IF is_valid(root) /\ Known(state, root)
     THEN Rooted(Kept(node_insert(state, get_node(state, root), NibbleSlice(path), value), 0))
     ELSE Rooted(insert_self(state, LeafNode(path, value), 0))
  /\ content' = [content EXCEPT ![path] = value]
  /\ UNCHANGED <<db, pending, removed, committed>>

Left(gone) ==
  /\ removed' = gone.value
  /\ IF gone.node = NoNode
     THEN root' = const_default /\ cache' = gone.state.cache
     ELSE Rooted(Kept(gone, 0))

remove(path) ==
  /\ Update
  /\ is_valid(root)
  /\ Left(node_remove(state, get_node(state, root), NibbleSlice(path)))
  /\ content' = [content EXCEPT ![path] = NoValue]
  /\ UNCHANGED <<db, pending, committed>>

\* Removing from an empty trie answers None.
remove_empty(path) ==
  /\ Update
  /\ ~is_valid(root)
  /\ removed' = NoValue
  /\ UNCHANGED <<root, cache, db, pending, content, committed>>

\* hash() of a trie that is not empty and has nodes to write; then it writes
\* them, and when the last one is written it clears the cache and returns.
hash ==
  /\ pending = <<>>
  /\ is_valid(root)
  /\ Writes # <<>>
  /\ Cardinality(committed) < MaxRoots
  /\ pending' = Writes
  /\ UNCHANGED <<root, cache, db, removed, content, committed, updates>>

put ==
  /\ pending # <<>>
  /\ db' = (Head(pending).hash :> rlp_encode(Head(pending).node)) @@ db
  /\ pending' = Tail(pending)
  /\ IF Len(pending) = 1
     THEN /\ cache' = EmptyMap
          /\ committed' = committed \cup {[root |-> finalize(root), content |-> content]}
     ELSE UNCHANGED <<cache, committed>>
  /\ UNCHANGED <<root, removed, content, updates>>

\* Trie::open, in the same process or after it stopped.
open(at) ==
  /\ root' = IF at.root = EMPTY_TRIE_HASH THEN const_default ELSE at.root
  /\ cache' = EmptyMap
  /\ pending' = <<>>
  /\ content' = at.content
  /\ UNCHANGED <<db, removed, committed, updates>>

Next ==
  \/ \E path \in Paths : \E value \in ValuesAt(path) : insert(path, value)
  \/ \E path \in Paths : remove(path)
  \/ \E path \in Paths : remove_empty(path)
  \/ hash
  \/ put
  \/ \E at \in committed : open(at)

Spec == Init /\ [][Next]_vars

----------------------------------------------------------------------------
(* What the trie promises to the store above it.                              *)

Reads(st, rt) == [p \in Paths |-> get(st, rt, p)]

\* The nodes of the trie with the offset each is found at.
RECURSIVE Reachable(_, _)
Reachable(hash_, path) ==
  LET node == get_node(state, hash_)
      step(n) == [path EXCEPT !.offset = @ + n]
  IN  {[node |-> node, offset |-> path.offset]} \cup
      CASE node.kind = "leaf" -> {}
        [] node.kind = "extension" -> Reachable(node.child, step(vec_len(node.prefix)))
        [] node.kind = "branch" ->
             UNION {Reachable(node.choices[n], step(1)) :
                      n \in {m \in NIBBLE : is_valid(node.choices[m])}}

\* Every node the root leads to is there, an extension is not empty, starts at
\* the half byte the path is at and leads to a branch, and a branch has at
\* least two children.  These are the conditions the code asserts with
\* "inconsistent internal tree structure", and those that make a trie unique.
WellFormed ==
  is_valid(root) =>
    \A at \in Reachable(root, NibbleSlice(<<>>)) :
      /\ at.node.kind = "extension" =>
           /\ vec_len(at.node.prefix) > 0
           /\ at.node.prefix.first_is_half = Odd(at.offset)
           /\ Known(state, at.node.child)
           /\ get_node(state, at.node.child).kind = "branch"
      /\ at.node.kind = "branch" =>
           LET children == {n \in NIBBLE : is_valid(at.node.choices[n])}
           IN  /\ Cardinality(children) > 1
               /\ \A n \in children : Known(state, at.node.choices[n])

\* A path reads as what was last put there, whatever was inserted, removed,
\* committed and opened before (trie.rs: "Retrieve an RLP-encoded value from the
\* trie given its RLP-encoded path").
GetAgrees == Reads(state, root) = content

\* The trie Ethereum defines for a set of paths of one length, from the nibble at
\* the offset on: its root hash by the contents alone.
RECURSIVE Reference(_, _)
Reference(paths, offset) ==
  LET nibble(p, i) == NibbleAt(p, i)
      one == CHOOSE p \in paths : TRUE
      total == 2 * Len(one)
      shared == Max({k \in 0 .. total - offset :
                       \A p \in paths : \A i \in offset .. offset + k - 1 :
                         nibble(p, i) = nibble(one, i)})
      under(n) == {p \in paths : nibble(p, offset) = n}
      nibbles(k) == [i \in 1 .. k |-> nibble(one, offset + i - 1)]
      child == Reference(paths, offset + shared)
      choices == [n \in NIBBLE |-> IF under(n) = {} THEN const_default
                                   ELSE Reference(under(n), offset + 1)]
  IN  IF Cardinality(paths) = 1
      THEN from_encoded_raw(EncodedLeaf(nibbles(total - offset), content[one]),
                            encode_raw(LeafNode(one, content[one]), offset).len)
      ELSE IF shared > 0
      THEN from_encoded_raw(EncodedExtension(nibbles(shared), child),
                            ListLen(path_len(shared) + ChildLen(child)))
      ELSE from_encoded_raw(EncodedBranch(choices, NoValue),
                            ListLen(MapThenSumSet(LAMBDA n : ChildLen(choices[n]), NIBBLE) + 1))

\* The root hash is that of the contents: no order of insertions and removals,
\* restructuring a branch or an extension on the way, shows in it, and the nodes
\* it leads to are well formed.
RootCanonical ==
  LET present == {p \in Paths : content[p] # NoValue}
  IN  /\ WellFormed
      /\ IF present = {} THEN ~is_valid(root)
         ELSE is_valid(root) /\ finalize(root) = finalize(Reference(present, 0))

\* A root that hash() returned reads as it did then from the database alone,
\* after later commits, and after a commit that stopped half way (state.rs: "All
\* nodes are stored in the DB and no node is ever removed").
OldRootsReadable ==
  \A at \in committed \ {[root |-> EMPTY_TRIE_HASH, content |-> NoContent]} :
    Reads(State(db, EmptyMap), at.root) = at.content

\* No commit leaves a node in the database without the nodes below it, not even
\* one that stopped half way: a later commit takes a node that is not in its
\* cache for written, with all that is below it (commit_node).
CommitClosed ==
  \A h \in DOMAIN db :
    LET node == rlp_decode(db[h])
    IN  /\ node.kind = "extension" => node.child \in DOMAIN db
        /\ node.kind = "branch" =>
             \A n \in NIBBLE : is_valid(node.choices[n]) => node.choices[n] \in DOMAIN db

\* A state root the store has returned stays good: it can be read, and built on by
\* later commits, whatever commit was interrupted since (TrieState::commit).
CommitsDurable == OldRootsReadable /\ CommitClosed

\* What a holder of a root hash learns about a path from the nodes of a proof:
\* a node counts if it is written in its parent or is one of the proof's.
RECURSIVE Verified(_, _, _)
Verified(hash_, nibbles, proof) ==
  LET encoded == hash_.encoded
      n == Len(encoded[2])
  IN  IF ~hash_.inline /\ encoded \notin proof THEN Inconsistent
      ELSE CASE encoded[1] = "leaf" -> IF encoded[2] = nibbles THEN encoded[3] ELSE NoValue
             [] encoded[1] = "extension" ->
                  IF n <= Len(nibbles) /\ SubSeq(nibbles, 1, n) = encoded[2]
                  THEN Verified(encoded[3], SubSeq(nibbles, n + 1, Len(nibbles)), proof)
                  ELSE NoValue
             [] encoded[1] = "branch" ->
                  IF nibbles = <<>> THEN encoded[3]
                  ELSE IF is_valid(encoded[2][Head(nibbles)])
                  THEN Verified(encoded[2][Head(nibbles)], Tail(nibbles), proof)
                  ELSE NoValue

\* The proof of a path is enough to tell from the root hash alone what is stored
\* there, or that nothing is (trie.rs, get_proof: "The proof will still be
\* constructed even if the path is not stored in the trie, proving its absence").
ProofSuffices ==
  is_valid(root) =>
    \A p \in Paths :
      LET proof == get_proof(p)
      IN  Verified(finalize(root), RestNibbles(NibbleSlice(p)),
                   {proof[i] : i \in 1 .. Len(proof)}) = content[p]

\* A removal returns the value that was there and takes no other path with it
\* (trie.rs: "Returns the value if it was succesfully removed or None if it wasn't
\* part of the trie").
RemoveExact ==
  [][\A p \in Paths :
       remove(p) =>
         /\ removed' = get(state, root, p)
         /\ \A q \in Paths \ {p} :
              get(State(db', cache'), root', q) = get(state, root, q)]_vars

\* Reading a path, in the trie or from a proof of it, and removing it give what
\* was put there (Trie::get, Trie::get_proof and Trie::remove each walk the nodes
\* by functions of their own).
ReadsAgree == [](GetAgrees /\ ProofSuffices) /\ RemoveExact
=============================================================================
