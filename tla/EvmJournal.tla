----------------------------- MODULE EvmJournal -----------------------------
(* The world state of evm_mlir: the Db (db.rs) and the Journal (journal.rs)  *)
(* that stands in front of it while a transaction runs.  A journal is a      *)
(* function from the addresses it holds to accounts.  An account that is not *)
(* in it is read from the Db and inserted.  Code is kept in the account      *)
(* itself (the source keeps it under its hash); NoCode is the empty code and *)
(* NoHash the zero hash of an account that was never given a code hash.      *)
EXTENDS Integers, Sequences, Functions, FiniteSets, TLC

CONSTANT NoHash

NoCode == <<>>

Touched == "Touched"
Created == "Created"
SelfDestructed == "SelfDestructed"

\* db.rs: the account a Db holds.
DbAccount(nonce, balance, code, storage) ==
  [nonce |-> nonce, balance |-> balance, code |-> code, storage |-> storage]

EmptyStorage == [k \in {} |-> 0]

\* Insertion into a map, and two maps in one: the entries of the first come first.
put(map, key, value) == [k \in DOMAIN map \union {key} |-> IF k = key THEN value ELSE map[k]]
merged(f, g) == [k \in DOMAIN f \union DOMAIN g |-> IF k \in DOMAIN f THEN f[k] ELSE g[k]]

read_db_storage(db, address, key) ==
  IF address \in DOMAIN db /\ key \in DOMAIN db[address].storage
  THEN db[address].storage[key]
  ELSE 0

----------------------------------------------------------------------------
(* journal.rs                                                                *)

\* From<AccountInfo>, with the status Loaded that _get_account_mut gives it.
Loaded(account) ==
  [nonce |-> account.nonce, balance |-> account.balance, code |-> account.code,
   storage |-> EmptyStorage, status |-> {}]

new_created(balance) ==
  [nonce |-> 0, balance |-> balance, code |-> NoCode, storage |-> EmptyStorage,
   status |-> {Created}]

\* The accounts of the access list: default ones, whatever the Db holds.
get_prefetch_accounts(accessList) ==
  [address \in DOMAIN accessList |->
     [nonce |-> 0, balance |-> 0, code |-> NoHash,
      storage |-> [k \in accessList[address] |-> [original |-> 0, present |-> 0]],
      status |-> {}]]

has_account(j, db, address) == address \in DOMAIN j \/ address \in DOMAIN db

\* _get_account_mut: the journal with the account in it, when there is one.
load(j, db, address) ==
  IF address \in DOMAIN j \/ address \notin DOMAIN db
  THEN j
  ELSE put(j, address, Loaded(db[address]))

get_account(j, db, address) ==
  IF address \in DOMAIN j THEN j[address] ELSE Loaded(db[address])

\* get_account(..).unwrap_or_default(), as far as the balance goes.
balance_or_default(j, db, address) ==
  IF has_account(j, db, address) THEN get_account(j, db, address).balance ELSE 0

is_empty(account) == account.balance = 0 /\ account.nonce = 0 /\ account.code = NoCode

new_account(j, address, balance) == put(j, address, new_created(balance))

add_account_as_warm(j, address) ==
  IF address \in DOMAIN j THEN j ELSE put(j, address, new_created(0))

new_contract(j, address, code, balance) ==
  put(j, address, [nonce |-> 1, balance |-> balance, code |-> code,
                   storage |-> EmptyStorage, status |-> {Created}])

\* set_balance, set_nonce and set_status do nothing when there is no account.
set_balance(j, db, address, balance) ==
  IF ~has_account(j, db, address) THEN j
  ELSE LET account == get_account(j, db, address)
       IN  put(j, address, [account EXCEPT !.balance = balance,
                                           !.status = account.status \union {Touched}])

set_nonce(j, db, address, nonce) ==
  IF ~has_account(j, db, address) THEN j
  ELSE LET account == get_account(j, db, address)
       IN  put(j, address, [account EXCEPT !.nonce = nonce,
                                           !.status = account.status \union {Touched}])

set_status(j, db, address, status) ==
  IF ~has_account(j, db, address) THEN j
  ELSE LET account == get_account(j, db, address)
       IN  put(j, address, [account EXCEPT !.status = account.status \union {status}])

has_code(account) == account.code \notin {NoCode, NoHash}

code_by_address(j, db, address) ==
  IF has_account(j, db, address) /\ has_code(get_account(j, db, address))
  THEN get_account(j, db, address).code
  ELSE NoCode

\* No journal account ever has the status Cold, so warm means present.
account_is_warm(j, address) == address \in DOMAIN j

key_is_warm(j, address, key) ==
  address \in DOMAIN j /\ key \in DOMAIN j[address].storage

slot_of(j, db, address, key) ==
  IF key_is_warm(j, address, key)
  THEN j[address].storage[key]
  ELSE LET value == read_db_storage(db, address, key)
       IN  [original |-> value, present |-> value]

\* read_storage: the journal in which the key is now warm.
warm_key(j, db, address, key) ==
  IF ~has_account(j, db, address) THEN j
  ELSE LET account == get_account(j, db, address)
           slot == slot_of(j, db, address, key)
       IN  put(j, address, [account EXCEPT !.storage = put(account.storage, key, slot)])

write_storage(j, db, address, key, value) ==
  LET account == get_account(j, db, address)
      slot == [slot_of(j, db, address, key) EXCEPT !.present = value]
  IN  put(j, address, [account EXCEPT !.storage = put(account.storage, key, slot),
                                      !.status = account.status \union {Touched}])

\* What the parent context keeps of a callee's journal: all of it, or nothing.
extend_from_successful(j, other) == other

\* Faulty variant: a reverted callee's accounts are merged into the caller's.
extend_from_reverted_merging(j, other) == other

extend_from_reverted(j, other) == j

----------------------------------------------------------------------------
(* db.rs: commit                                                             *)

committed(account) ==
  /\ account.status # {}
  /\ ~({Created, SelfDestructed} \subseteq account.status)

commit_account(db, address, account) ==
  LET old == IF address \in DOMAIN db THEN db[address].storage ELSE EmptyStorage
      new == [k \in DOMAIN account.storage |-> account.storage[k].present]
  IN  DbAccount(account.nonce, account.balance, account.code, merged(new, old))

commit(db, changes) ==
  [address \in DOMAIN db \union {a \in DOMAIN changes : committed(changes[a])} |->
     IF address \in DOMAIN changes /\ committed(changes[address])
     THEN commit_account(db, address, changes[address])
     ELSE db[address]]
=============================================================================
