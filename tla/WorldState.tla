----------------------------- MODULE WorldState -----------------------------
(* From the outcome of a block to the rows of the store: what the executor   *)
(* reports of the accounts (evm/evm.rs, get_state_transitions), how the      *)
(* store writes it (storage/storage.rs, apply_account_updates), and how the  *)
(* next execution reads it (evm/db.rs).                                      *)
(*                                                                           *)
(* A trie is the function of its contents, and its root is the trie.  A row  *)
(* stands for all the nodes below a root, or for a code: module Trie has the *)
(* writes of one trie.  Storage tries are kept by account.                   *)
EXTENDS Naturals, Sequences, TLC, SequencesExt

CONSTANTS
  Slots,        \* keys of storage
  NoAccount, NoInfo, EMPTY_CODE

EmptyRoot == <<>>

trie_insert(trie, key, value) == (key :> value) @@ trie
trie_remove(trie, key) == Restrict(trie, DOMAIN trie \ {key})

CodeRow(code_hash) == <<"AccountCodes", code_hash>>
StorageRow(address, root) == <<"StorageTriesNodes", address, root>>
StateRow(root) == <<"StateTrieNodes", root>>

\* Trie::hash writes no node of an empty trie.
Hashed(row, root) == IF root = EmptyRoot THEN <<>> ELSE <<row>>

\* Trie::open at a root whose nodes are not there finds nothing.
open_storage_trie(rows, address, root) ==
  IF StorageRow(address, root) \in rows THEN root ELSE EmptyRoot

----------------------------------------------------------------------------
(* What the executor reports                                                 *)

InfoOf(account) ==
  [nonce |-> account.nonce, balance |-> account.balance, code_hash |-> account.code_hash]

is_empty(info) == info.nonce = 0 /\ info.balance = 0 /\ info.code_hash = EMPTY_CODE

StorageOf(account) == IF account = NoAccount THEN EmptyRoot ELSE account.storage_root

ValueAt(trie, slot) == IF slot \in DOMAIN trie THEN trie[slot] ELSE 0

\* The account of revm's bundle for an account that was one thing before the
\* block and is another after it.  An account that was destroyed and made again
\* starts with no storage; one that was only touched is there, and empty.
BundleAccount(address, before, after, status) ==
  LET info(account) == IF account = NoAccount THEN NoInfo ELSE InfoOf(account)
      touched == [nonce |-> 0, balance |-> 0, code_hash |-> EMPTY_CODE]
      original == IF status = "DestroyedChanged" THEN EmptyRoot ELSE StorageOf(before)
  IN  [address |-> address, status |-> status, original_info |-> info(before),
       info |-> IF status = "InMemoryChange" /\ after = NoAccount THEN touched ELSE info(after),
       storage |-> [slot \in Slots |-> [original |-> ValueAt(original, slot),
                                        present |-> ValueAt(StorageOf(after), slot)]]]

is_not_modified(status) == status \in {"Loaded", "LoadedNotExisting"}
is_destroyed(status) == status \in {"Destroyed", "DestroyedAgain"}

AccountUpdate(account) ==
  LET changed == account.info # account.original_info /\ account.info # NoInfo
      changed_slots == {slot \in Slots :
                          account.storage[slot].original # account.storage[slot].present}
  IN  [address |-> account.address,
       removed |-> is_destroyed(account.status),
       info |-> IF changed THEN account.info ELSE NoInfo,
       code |-> changed /\ (account.original_info = NoInfo
                            \/ account.info.code_hash # account.original_info.code_hash),
       added_storage |-> [slot \in changed_slots |-> account.storage[slot].present]]

get_state_transitions(bundle) ==
  LET reported(account) ==
        /\ ~is_not_modified(account.status)
        /\ is_destroyed(account.status) \/ account.info = NoInfo \/ ~is_empty(account.info)
      changes == SelectSeq(bundle, reported)
  IN  [i \in DOMAIN changes |-> AccountUpdate(changes[i])]

----------------------------------------------------------------------------
(* What the store writes                                                     *)

DefaultAccountState ==
  [nonce |-> 0, balance |-> 0, code_hash |-> EMPTY_CODE, storage_root |-> EmptyRoot]

\* Faulty variant: a slot that became zero is kept.
Stored_zeros(trie, added_storage) == added_storage @@ trie

\* Slots that became zero are removed.
Stored(trie, added_storage) ==
  LET zero == {slot \in DOMAIN added_storage : added_storage[slot] = 0}
  IN  Restrict(added_storage @@ trie, (DOMAIN added_storage \cup DOMAIN trie) \ zero)

\* One turn of the loop of apply_account_updates, on the state trie and the rows
\* written so far.
apply_update(rows, held, update) ==
  LET address == update.address
      current == IF address \in DOMAIN held.trie THEN held.trie[address] ELSE DefaultAccountState
      informed == IF update.info = NoInfo THEN current ELSE update.info @@ current
      root == IF DOMAIN update.added_storage = {} THEN current.storage_root
              ELSE Stored(open_storage_trie(rows, address, current.storage_root),
                          update.added_storage)
      code == IF update.code THEN <<CodeRow(update.info.code_hash)>> ELSE <<>>
      storage == IF DOMAIN update.added_storage = {} THEN <<>>
                 ELSE Hashed(StorageRow(address, root), root)
  IN  IF update.removed
      THEN [held EXCEPT !.trie = trie_remove(held.trie, address)]
      ELSE [trie |-> trie_insert(held.trie, address, [informed EXCEPT !.storage_root = root]),
            written |-> held.written \o code \o storage]

\* The root, and the rows in the order they are written.
Written(held) ==
  [root |-> held.trie, written |-> held.written \o Hashed(StateRow(held.trie), held.trie)]

\* Faulty variant: the state is written before what it refers to.
apply_account_updates_early(rows, root, updates) ==
  LET held == FoldLeft(LAMBDA h, update : apply_update(rows, h, update),
                       [trie |-> root, written |-> <<>>], updates)
  IN  [root |-> held.trie, written |-> Hashed(StateRow(held.trie), held.trie) \o held.written]

apply_account_updates(rows, root, updates) ==
  Written(FoldLeft(LAMBDA held, update : apply_update(rows, held, update),
                   [trie |-> root, written |-> <<>>], updates))

----------------------------------------------------------------------------
(* The genesis state, computed for the header and written to the store       *)

\* An account of the genesis file may give a slot the value zero.
NonZero(storage) == Restrict(storage, {slot \in DOMAIN storage : storage[slot] # 0})

GenesisAccountState(account) ==
  [nonce |-> account.nonce, balance |-> account.balance, code_hash |-> account.code_hash,
   storage_root |-> NonZero(account.storage)]

compute_state_root(alloc) == [address \in DOMAIN alloc |-> GenesisAccountState(alloc[address])]

setup_account(held, address, account) ==
  LET root == FoldLeft(LAMBDA trie, slot : IF account.storage[slot] = 0 THEN trie
                                           ELSE trie_insert(trie, slot, account.storage[slot]),
                       EmptyRoot, SetToSeq(DOMAIN account.storage))
  IN  [trie |-> trie_insert(held.trie, address,
                  [nonce |-> account.nonce, balance |-> account.balance,
                   code_hash |-> account.code_hash, storage_root |-> root]),
       written |-> held.written \o <<CodeRow(account.code_hash)>>
                   \o Hashed(StorageRow(address, root), root)]

setup_genesis_state_trie(alloc, order) ==
  Written(FoldLeft(LAMBDA held, address : setup_account(held, address, alloc[address]),
                   [trie |-> EmptyRoot, written |-> <<>>], order))

----------------------------------------------------------------------------
(* What the next execution reads at a root                                   *)

basic(rows, root, address) ==
  IF StateRow(root) \in rows /\ address \in DOMAIN root THEN InfoOf(root[address]) ELSE NoInfo

storage_at(rows, root, address, slot) ==
  IF StateRow(root) \in rows /\ address \in DOMAIN root
  THEN ValueAt(open_storage_trie(rows, address, root[address].storage_root), slot)
  ELSE 0

code_by_hash(rows, code_hash) == CodeRow(code_hash) \in rows
=============================================================================
