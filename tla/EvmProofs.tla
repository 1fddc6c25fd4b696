----------------------------- MODULE EvmProofs -----------------------------
(* Proofs of the claims of Evm about static calls and failed calls,          *)
(* for every code, every Db and every transaction.                           *)
EXTENDS Evm, TLAPS

-----------------------------------------------------------------------------
(***************************************************************************)
(* Sequences.                                                              *)
(***************************************************************************)
LEMMA Emptiness ==
  ASSUME NEW S
  PROVE  /\ <<>> \in Seq(S) /\ Len(<<>>) = 0
         /\ \A s \in Seq(S) : s # <<>> => Len(s) \in Nat \ {0}
  OBVIOUS

LEMMA Indexed ==
  ASSUME NEW S, NEW s \in Seq(S)
  PROVE  Len(s) \in Nat /\ s \in [1 .. Len(s) -> S] /\ DOMAIN s = 1 .. Len(s)
  OBVIOUS

LEMMA Sliced ==
  ASSUME NEW S, NEW s, NEW m \in Int, NEW n \in Int, \A i \in m .. n : s[i] \in S
  PROVE  /\ SubSeq(s, m, n) \in Seq(S)
         /\ Len(SubSeq(s, m, n)) = IF m <= n THEN n - m + 1 ELSE 0
         /\ \A i \in 1 .. n - m + 1 : SubSeq(s, m, n)[i] = s[m + i - 1]
  OBVIOUS

LEMMA SlicedEmpty ==
  ASSUME NEW s, NEW m \in Int, NEW n \in Int, n < m
  PROVE  SubSeq(s, m, n) = <<>>
  OBVIOUS

LEMMA JoinedEmpty ==
  ASSUME NEW S, NEW s \in Seq(S)
  PROVE  s \o <<>> = s /\ <<>> \o s = s
  OBVIOUS

LEMMA JoinedTwice ==
  ASSUME NEW S, NEW s \in Seq(S), NEW t \in Seq(S), NEW u \in Seq(S)
  PROVE  (s \o t) \o u = s \o (t \o u)
  OBVIOUS

LEMMA Joined ==
  ASSUME NEW S, NEW s \in Seq(S), NEW t \in Seq(S)
  PROVE  /\ s \o t \in Seq(S) /\ Len(s \o t) = Len(s) + Len(t)
         /\ \A i \in 1 .. Len(s) + Len(t) :
              (s \o t)[i] = IF i <= Len(s) THEN s[i] ELSE t[i - Len(s)]
  OBVIOUS

LEMMA SameElements ==
  ASSUME NEW S, NEW s \in Seq(S), NEW t \in Seq(S), Len(s) = Len(t),
         \A i \in 1 .. Len(s) : s[i] = t[i]
  PROVE  s = t
  OBVIOUS

LEMMA Wider ==
  ASSUME NEW S, NEW T, NEW s \in Seq(S), S \subseteq T
  PROVE  s \in Seq(T)
  OBVIOUS

----------------------------------------------------------------------------
(* Journals                                                                  *)

AccountFields == {"nonce", "balance", "code", "storage", "status"}

\* All that the claims take of a journal: its accounts have the fields of one.
IsJournal(j) == \A a \in DOMAIN j : AccountFields \subseteq DOMAIN j[a]

\* The accounts of p are in j as p has them, and what j stores besides is in the Db.
Reads(d, p, j) ==
  /\ DOMAIN p \subseteq DOMAIN j
  /\ \A a \in DOMAIN p : /\ Observable(j, a) = Observable(p, a)
                         /\ DOMAIN p[a].storage \subseteq DOMAIN j[a].storage
  /\ \A a \in DOMAIN p : \A k \in DOMAIN p[a].storage :
       j[a].storage[k].present = p[a].storage[k].present
  /\ \A a \in DOMAIN j : \A k \in DOMAIN j[a].storage :
       key_is_warm(p, a, k) \/ j[a].storage[k].present = read_db_storage(d, a, k)

LEMMA ReadsReflexive ==
  ASSUME NEW d, NEW j
  PROVE  Reads(d, j, j)
BY DEF Reads, key_is_warm

LEMMA ReadsTransitive ==
  ASSUME NEW d, NEW i, NEW j, NEW k, Reads(d, i, j), Reads(d, j, k)
  PROVE  Reads(d, i, k)
<1>1. DOMAIN i \subseteq DOMAIN k
  BY DEF Reads
<1>2. \A a \in DOMAIN i : /\ Observable(k, a) = Observable(i, a)
                          /\ DOMAIN i[a].storage \subseteq DOMAIN k[a].storage
  BY DEF Reads
<1>3. \A a \in DOMAIN i : \A x \in DOMAIN i[a].storage :
        k[a].storage[x].present = i[a].storage[x].present
  BY DEF Reads
<1>4. ASSUME NEW a \in DOMAIN k, NEW x \in DOMAIN k[a].storage
      PROVE  key_is_warm(i, a, x) \/ k[a].storage[x].present = read_db_storage(d, a, x)
  <2>1. CASE key_is_warm(j, a, x)
    BY <2>1 DEF Reads, key_is_warm
  <2> QED
    BY <2>1 DEF Reads
<1> QED
  BY <1>1, <1>2, <1>3, <1>4 DEF Reads

\* A journal with an account put into it.
LEMMA PutKeepsJournal ==
  ASSUME NEW j, IsJournal(j), NEW a, NEW account, AccountFields \subseteq DOMAIN account
  PROVE  IsJournal(put(j, a, account))
BY DEF IsJournal, put

\* The account that get_account returns has the fields of one.
LEMMA GetAccountFields ==
  ASSUME NEW j, IsJournal(j), NEW d, NEW a
  PROVE  AccountFields \subseteq DOMAIN get_account(j, d, a)
<1>1. AccountFields \subseteq DOMAIN Loaded(d[a])
  BY DEF AccountFields, Loaded
<1> QED
  BY <1>1 DEF IsJournal, get_account

\* What the operations of journal.rs return are journals.
LEMMA JournalOperations ==
  ASSUME NEW j, IsJournal(j), NEW d, NEW a, NEW v, NEW w
  PROVE  /\ IsJournal(load(j, d, a))
         /\ IsJournal(new_account(j, a, v))
         /\ IsJournal(add_account_as_warm(j, a))
         /\ IsJournal(new_contract(j, a, v, w))
         /\ IsJournal(set_balance(j, d, a, v))
         /\ IsJournal(set_nonce(j, d, a, v))
         /\ IsJournal(set_status(j, d, a, v))
         /\ IsJournal(warm_key(j, d, a, v))
         /\ IsJournal(write_storage(j, d, a, v, w))
<1>1. AccountFields \subseteq DOMAIN get_account(j, d, a)
  BY GetAccountFields
<1>2. \A account : AccountFields \subseteq DOMAIN account => IsJournal(put(j, a, account))
  BY PutKeepsJournal
<1>3. IsJournal(load(j, d, a))
  BY <1>2 DEF load, Loaded, AccountFields
<1>4. IsJournal(new_account(j, a, v))
  BY <1>2 DEF new_account, new_created, AccountFields
<1>5. IsJournal(add_account_as_warm(j, a))
  BY <1>2 DEF add_account_as_warm, new_created, AccountFields
<1>6. IsJournal(new_contract(j, a, v, w))
  BY <1>2 DEF new_contract, AccountFields
<1>7. IsJournal(set_balance(j, d, a, v))
  BY <1>1, <1>2, ZenonT(60) DEF set_balance
<1>8. IsJournal(set_nonce(j, d, a, v))
  BY <1>1, <1>2, ZenonT(60) DEF set_nonce
<1>9. IsJournal(set_status(j, d, a, v))
  BY <1>1, <1>2 DEF set_status
<1>10. IsJournal(warm_key(j, d, a, v))
  BY <1>1, <1>2 DEF warm_key
<1>11. IsJournal(write_storage(j, d, a, v, w))
  BY <1>1, <1>2, ZenonT(60) DEF write_storage
<1> QED
  BY <1>3, <1>4, <1>5, <1>6, <1>7, <1>8, <1>9, <1>10, <1>11

\* Loading an account, and making an address or a key warm, only read.
LEMMA ReadingOperations ==
  ASSUME NEW j, IsJournal(j), NEW d, NEW a, NEW key
  PROVE  /\ Reads(d, j, load(j, d, a))
         /\ Reads(d, j, add_account_as_warm(j, a))
         /\ Reads(d, j, warm_key(j, d, a, key))
<1>1. ASSUME a \notin DOMAIN j, NEW account, DOMAIN account.storage = {}
      PROVE  Reads(d, j, put(j, a, account))
  BY <1>1 DEF Reads, put, key_is_warm, Observable
<1>2. Reads(d, j, load(j, d, a))
  BY <1>1, ReadsReflexive DEF load, Loaded, EmptyStorage
<1>3. Reads(d, j, add_account_as_warm(j, a))
  BY <1>1, ReadsReflexive DEF add_account_as_warm, new_created, EmptyStorage
<1>4. Reads(d, j, warm_key(j, d, a, key))
  <2>1. CASE ~has_account(j, d, a)
    BY <2>1, ReadsReflexive DEF warm_key
  <2>2. CASE has_account(j, d, a)
    <3> DEFINE account == get_account(j, d, a)
               slot == slot_of(j, d, a, key)
               warm == [account EXCEPT !.storage = put(account.storage, key, slot)]
    <3>1. warm_key(j, d, a, key) = put(j, a, warm)
      BY <2>2 DEF warm_key
    <3>2. AccountFields \subseteq DOMAIN account
      BY GetAccountFields
    <3>3. a \in DOMAIN j => account = j[a]
      BY DEF get_account
    <3>4. a \notin DOMAIN j => DOMAIN account.storage = {}
      BY DEF get_account, Loaded, EmptyStorage
    <3>5. key_is_warm(j, a, key) => slot = j[a].storage[key]
      BY DEF slot_of
    <3>6. ~key_is_warm(j, a, key) => slot.present = read_db_storage(d, a, key)
      BY DEF slot_of
    <3> HIDE DEF account, slot
    <3>7. /\ warm.balance = account.balance /\ warm.nonce = account.nonce
          /\ warm.code = account.code
          /\ warm.storage = put(account.storage, key, slot)
      BY <3>2 DEF AccountFields
    <3> HIDE DEF warm
    <3>8. /\ DOMAIN warm.storage = DOMAIN account.storage \union {key}
          /\ warm.storage[key] = slot
          /\ \A k \in DOMAIN account.storage \ {key} : warm.storage[k] = account.storage[k]
      BY <3>7 DEF put
    <3>9. /\ DOMAIN put(j, a, warm) = DOMAIN j \union {a}
          /\ put(j, a, warm)[a] = warm
          /\ \A b \in DOMAIN j \ {a} : put(j, a, warm)[b] = j[b]
      BY DEF put
    <3> QED
      BY <3>1, <3>3, <3>4, <3>5, <3>6, <3>7, <3>8, <3>9 DEF Reads, Observable, key_is_warm
  <2> QED
    BY <2>1, <2>2
<1> QED
  BY <1>2, <1>3, <1>4

----------------------------------------------------------------------------
(* Contexts                                                                  *)

FrameFields == {"journal", "ctx_is_static", "pending"}

\* All that the claims take of a context.
IsFrame(m) == /\ FrameFields \subseteq DOMAIN m
              /\ IsJournal(m.journal)
              /\ m.ctx_is_static \in BOOLEAN

\* x is what became of the context m, which only reads when it is static.
Keeps(d, m, x) ==
  /\ IsFrame(x)
  /\ x.ctx_is_static = m.ctx_is_static
  /\ m.ctx_is_static => Reads(d, m.journal, x.journal)

\* Nothing that the claims take is changed.
Same(m, x) ==
  /\ FrameFields \subseteq DOMAIN x
  /\ x.journal = m.journal
  /\ x.ctx_is_static = m.ctx_is_static

LEMMA SameKeeps ==
  ASSUME NEW d, NEW m, NEW x, NEW y, Keeps(d, m, x), Same(x, y)
  PROVE  Keeps(d, m, y)
BY DEF Keeps, Same, IsFrame

LEMMA FrameKeepsItself ==
  ASSUME NEW d, NEW m, IsFrame(m)
  PROVE  Keeps(d, m, m)
BY ReadsReflexive DEF Keeps

\* The helpers of the generated code leave the journal and the flag alone.
LEMMA HelpersAreQuiet ==
  ASSUME NEW m, FrameFields \subseteq DOMAIN m, NEW v, NEW w, NEW s
  PROVE  /\ Same(m, write_result(m, v, w, s))
         /\ Same(m, generate_revert_block(m))
         /\ Same(m, stack_pop(m))
         /\ Same(m, stack_push(m, v))
         /\ Same(m, Pops(m, v))
         /\ Same(m, swap_stack_elements(m, v, w))
         /\ Same(m, consume_gas(m, v))
         /\ Same(m, consume_gas_as_value(m, v))
         /\ Same(m, resize_memory_if_necessary(m, v, w))
         /\ Same(m, create_log(m))
         /\ Same(m, [m EXCEPT !.pending = v])
         /\ Same(m, [m EXCEPT !.last_call_return_data = v])
         /\ Same(m, [m EXCEPT !.transient = v])
         /\ Same(m, [m EXCEPT !.refund = v])
         /\ Same(m, [m EXCEPT !.memory_len = v])
         /\ Same(m, [m EXCEPT !.memory_size = v])
         /\ Same(m, [m EXCEPT !.pc = v, !.last = w])
         /\ Same(m, [m EXCEPT !.pc = v])
<1> USE DEF Same, FrameFields
<1>1. Same(m, write_result(m, v, w, s))
  BY DEF write_result
<1>2. Same(m, generate_revert_block(m))
  BY DEF write_result, generate_revert_block
<1>3. Same(m, stack_pop(m))
  BY DEF stack_pop
<1>4. Same(m, stack_push(m, v))
  BY DEF stack_push
<1>5. Same(m, Pops(m, v))
  BY DEF Pops
<1>6. Same(m, swap_stack_elements(m, v, w))
  BY DEF swap_stack_elements
<1>7. Same(m, consume_gas(m, v))
  BY DEF consume_gas
<1>8. Same(m, consume_gas_as_value(m, v))
  BY DEF consume_gas_as_value
<1>9. Same(m, resize_memory_if_necessary(m, v, w))
  BY DEF resize_memory_if_necessary
<1>10. Same(m, create_log(m))
  BY DEF create_log
<1>11. /\ Same(m, [m EXCEPT !.pending = v])
       /\ Same(m, [m EXCEPT !.last_call_return_data = v])
       /\ Same(m, [m EXCEPT !.transient = v])
       /\ Same(m, [m EXCEPT !.refund = v])
       /\ Same(m, [m EXCEPT !.memory_len = v])
       /\ Same(m, [m EXCEPT !.memory_size = v])
       /\ Same(m, [m EXCEPT !.pc = v, !.last = w])
       /\ Same(m, [m EXCEPT !.pc = v])
  OBVIOUS
<1> QED
  BY <1>1, <1>2, <1>3, <1>4, <1>5, <1>6, <1>7, <1>8, <1>9, <1>10, <1>11, ZenonT(60)

\* So they keep what was kept.
LEMMA HelpersKeep ==
  ASSUME NEW d, NEW m, NEW x, Keeps(d, m, x), NEW v, NEW w, NEW s
  PROVE  /\ Keeps(d, m, write_result(x, v, w, s))
         /\ Keeps(d, m, generate_revert_block(x))
         /\ Keeps(d, m, stack_pop(x))
         /\ Keeps(d, m, stack_push(x, v))
         /\ Keeps(d, m, Pops(x, v))
         /\ Keeps(d, m, swap_stack_elements(x, v, w))
         /\ Keeps(d, m, consume_gas(x, v))
         /\ Keeps(d, m, consume_gas_as_value(x, v))
         /\ Keeps(d, m, resize_memory_if_necessary(x, v, w))
         /\ Keeps(d, m, create_log(x))
         /\ Keeps(d, m, [x EXCEPT !.pending = v])
         /\ Keeps(d, m, [x EXCEPT !.last_call_return_data = v])
         /\ Keeps(d, m, [x EXCEPT !.transient = v])
         /\ Keeps(d, m, [x EXCEPT !.refund = v])
         /\ Keeps(d, m, [x EXCEPT !.memory_len = v])
         /\ Keeps(d, m, [x EXCEPT !.memory_size = v])
         /\ Keeps(d, m, [x EXCEPT !.pc = v, !.last = w])
         /\ Keeps(d, m, [x EXCEPT !.pc = v])
<1>1. FrameFields \subseteq DOMAIN x
  BY DEF Keeps, IsFrame
<1>2. \A y : Same(x, y) => Keeps(d, m, y)
  BY SameKeeps
<1> QED
  BY <1>1, <1>2, HelpersAreQuiet, ZenonT(60)

\* A context may get a new journal; a static one, only one that it read more into.
LEMMA JournalKeeps ==
  ASSUME NEW d, NEW m, NEW x, Keeps(d, m, x), NEW j, IsJournal(j),
         m.ctx_is_static => Reads(d, x.journal, j)
  PROVE  Keeps(d, m, [x EXCEPT !.journal = j])
<1>1. LET y == [x EXCEPT !.journal = j]
      IN  FrameFields \subseteq DOMAIN y /\ y.journal = j /\ y.ctx_is_static = x.ctx_is_static
  BY DEF Keeps, IsFrame, FrameFields
<1> QED
  BY <1>1, ReadsTransitive DEF Keeps, IsFrame

\* The same, for the bodies of operations, which apply one helper after the other.
LEMMA HelpersClosed ==
  ASSUME NEW d, NEW m
  PROVE  /\ \A x, v, w, s : Keeps(d, m, x) => Keeps(d, m, write_result(x, v, w, s))
         /\ \A x : Keeps(d, m, x) => Keeps(d, m, generate_revert_block(x))
         /\ \A x : Keeps(d, m, x) => Keeps(d, m, stack_pop(x))
         /\ \A x, v : Keeps(d, m, x) => Keeps(d, m, stack_push(x, v))
         /\ \A x, v : Keeps(d, m, x) => Keeps(d, m, Pops(x, v))
         /\ \A x, v, w : Keeps(d, m, x) => Keeps(d, m, swap_stack_elements(x, v, w))
         /\ \A x, v : Keeps(d, m, x) => Keeps(d, m, consume_gas(x, v))
         /\ \A x, v : Keeps(d, m, x) => Keeps(d, m, consume_gas_as_value(x, v))
         /\ \A x, v, w : Keeps(d, m, x) => Keeps(d, m, resize_memory_if_necessary(x, v, w))
         /\ \A x : Keeps(d, m, x) => Keeps(d, m, create_log(x))
         /\ \A x, v : Keeps(d, m, x) => Keeps(d, m, [x EXCEPT !.pending = v])
         /\ \A x, v : Keeps(d, m, x) => Keeps(d, m, [x EXCEPT !.last_call_return_data = v])
         /\ \A x, v : Keeps(d, m, x) => Keeps(d, m, [x EXCEPT !.transient = v])
         /\ \A x, v : Keeps(d, m, x) => Keeps(d, m, [x EXCEPT !.refund = v])
         /\ \A x, v : Keeps(d, m, x) => Keeps(d, m, [x EXCEPT !.memory_len = v])
         /\ \A x, v : Keeps(d, m, x) => Keeps(d, m, [x EXCEPT !.memory_size = v])
         /\ \A x, v : Keeps(d, m, x) => Keeps(d, m, [x EXCEPT !.pc = v])
BY HelpersKeep, ZenonT(60)

----------------------------------------------------------------------------
(* The operations that stay in the context                                   *)

LEMMA ArithmeticKeeps ==
  ASSUME NEW d, NEW m, IsFrame(m), NEW op, op.name \in ArithmeticOp, NEW data
  PROVE  Keeps(d, m, arithmetic_op(m, op, data))
<1>1. Keeps(d, m, m)
  BY FrameKeepsItself
<1>2. /\ \A x : Keeps(d, m, x) => Keeps(d, m, generate_revert_block(x))
      /\ \A x, v : Keeps(d, m, x) => Keeps(d, m, stack_push(x, v))
      /\ \A x, v : Keeps(d, m, x) => Keeps(d, m, Pops(x, v))
      /\ \A x, v : Keeps(d, m, x) => Keeps(d, m, consume_gas(x, v))
  BY HelpersClosed, ZenonT(60)
<1> USE <1>1, <1>2 DEF Unary, Binary, Ternary, Charged
<1>3. /\ Keeps(d, m, codegen_add(m)) /\ Keeps(d, m, codegen_mul(m))
      /\ Keeps(d, m, codegen_sub(m)) /\ Keeps(d, m, codegen_div(m))
      /\ Keeps(d, m, codegen_sdiv(m, data)) /\ Keeps(d, m, codegen_mod(m))
      /\ Keeps(d, m, codegen_smod(m, data)) /\ Keeps(d, m, codegen_addmod(m))
      /\ Keeps(d, m, codegen_mulmod(m))
  BY ZenonT(60) DEF codegen_add, codegen_mul, codegen_sub, codegen_div, codegen_sdiv, codegen_mod,
         codegen_smod, codegen_addmod, codegen_mulmod
<1>4. /\ Keeps(d, m, codegen_exp(m)) /\ Keeps(d, m, codegen_signextend(m))
      /\ Keeps(d, m, codegen_lt(m)) /\ Keeps(d, m, codegen_gt(m))
      /\ Keeps(d, m, codegen_slt(m)) /\ Keeps(d, m, codegen_sgt(m))
      /\ Keeps(d, m, codegen_eq(m)) /\ Keeps(d, m, codegen_iszero(m))
  BY ZenonT(60) DEF codegen_exp, codegen_signextend, codegen_lt, codegen_gt, codegen_slt, codegen_sgt,
         codegen_eq, codegen_iszero
<1>5. /\ Keeps(d, m, codegen_and(m)) /\ Keeps(d, m, codegen_or(m))
      /\ Keeps(d, m, codegen_xor(m)) /\ Keeps(d, m, codegen_not(m))
      /\ Keeps(d, m, codegen_byte(m)) /\ Keeps(d, m, codegen_shl(m))
      /\ Keeps(d, m, codegen_shr(m)) /\ Keeps(d, m, codegen_sar(m))
  BY ZenonT(60) DEF codegen_and, codegen_or, codegen_xor, codegen_not, codegen_byte, codegen_shl,
         codegen_shr, codegen_sar
<1> HIDE <1>1, <1>2
<1> QED
  BY <1>3, <1>4, <1>5 DEF arithmetic_op, ArithmeticOp

LEMMA EnvironmentKeeps ==
  ASSUME IsFrame(Current), NEW op, op.name \in EnvironmentOp, NEW data
  PROVE  Keeps(db, Current, environment_op(Current, op, data))
<1> DEFINE m == Current
<1>1. Keeps(db, m, m)
  BY FrameKeepsItself
<1> HIDE DEF m
<1>2. /\ \A x : Keeps(db, m, x) => Keeps(db, m, generate_revert_block(x))
      /\ \A x, v : Keeps(db, m, x) => Keeps(db, m, stack_push(x, v))
      /\ \A x, v : Keeps(db, m, x) => Keeps(db, m, Pops(x, v))
      /\ \A x, v : Keeps(db, m, x) => Keeps(db, m, consume_gas(x, v))
  BY HelpersClosed
<1>3. \A x, a : Keeps(db, m, x) => Keeps(db, m, [x EXCEPT !.journal = load(x.journal, db, a)])
  <2> SUFFICES ASSUME NEW x, NEW a, Keeps(db, m, x)
               PROVE  Keeps(db, m, [x EXCEPT !.journal = load(x.journal, db, a)])
    OBVIOUS
  <2>1. IsJournal(x.journal)
    BY DEF Keeps, IsFrame
  <2>2. IsJournal(load(x.journal, db, a)) /\ Reads(db, x.journal, load(x.journal, db, a))
    BY <2>1, JournalOperations, ReadingOperations, ZenonT(60)
  <2> QED
    BY <2>2, JournalKeeps
<1> USE <1>1, <1>2 DEF Unary, Pushes, Charged
<1>4. /\ Keeps(db, m, codegen_address(m)) /\ Keeps(db, m, codegen_origin(m, tx.caller))
      /\ Keeps(db, m, codegen_caller(m)) /\ Keeps(db, m, codegen_callvalue(m))
      /\ Keeps(db, m, codegen_calldatasize(m)) /\ Keeps(db, m, codegen_codesize(m))
      /\ Keeps(db, m, codegen_gasprice(m, data)) /\ Keeps(db, m, codegen_returndatasize(m))
  BY ZenonT(60) DEF codegen_address, codegen_origin, codegen_caller, codegen_callvalue,
         codegen_calldatasize, codegen_codesize, codegen_gasprice, codegen_returndatasize
<1>5. /\ Keeps(db, m, codegen_blockhash(m, data)) /\ Keeps(db, m, codegen_coinbase(m, data))
      /\ Keeps(db, m, codegen_timestamp(m, data)) /\ Keeps(db, m, codegen_number(m, data))
      /\ Keeps(db, m, codegen_prevrandao(m, data)) /\ Keeps(db, m, codegen_gaslimit(m))
      /\ Keeps(db, m, codegen_chaind(m, data)) /\ Keeps(db, m, codegen_basefee(m, data))
  BY ZenonT(60) DEF codegen_blockhash, codegen_coinbase, codegen_timestamp, codegen_number,
         codegen_prevrandao, codegen_gaslimit, codegen_chaind, codegen_basefee
<1>6. /\ Keeps(db, m, codegen_blobhash(m, data)) /\ Keeps(db, m, codegen_blobbasefee(m, data))
      /\ Keeps(db, m, codegen_pc(m, op)) /\ Keeps(db, m, codegen_msize(m))
      /\ Keeps(db, m, codegen_gas(m))
  BY DEF codegen_blobhash, codegen_blobbasefee, codegen_pc, codegen_msize, codegen_gas
<1>7. Keeps(db, m, codegen_selfbalance(m, db))
  BY <1>3 DEF codegen_selfbalance
<1> HIDE <1>1, <1>2
<1>8. Keeps(db, m, environment_op(m, op, data))
  BY <1>4, <1>5, <1>6, <1>7 DEF environment_op, EnvironmentOp
<1> QED
  BY <1>8 DEF m

\* Operations on the stack and on memory, and logs.
LEMMA MemoryKeeps ==
  ASSUME NEW d, NEW m, IsFrame(m), NEW op, NEW n, NEW data
  PROVE  /\ Keeps(d, m, codegen_pop(m)) /\ Keeps(d, m, codegen_push(m, op))
         /\ Keeps(d, m, codegen_dup(m, n)) /\ Keeps(d, m, codegen_swap(m, n))
         /\ Keeps(d, m, codegen_keccak256(m, data)) /\ Keeps(d, m, codegen_calldataload(m, data))
         /\ Keeps(d, m, codegen_calldatacopy(m)) /\ Keeps(d, m, codegen_codecopy(m))
         /\ Keeps(d, m, codegen_returndatacopy(m)) /\ Keeps(d, m, codegen_mload(m, data))
         /\ Keeps(d, m, codegen_mstore(m)) /\ Keeps(d, m, codegen_mstore8(m))
         /\ Keeps(d, m, codegen_mcopy(m)) /\ Keeps(d, m, codegen_log(m, n))
         /\ Keeps(d, m, codegen_tload(m)) /\ Keeps(d, m, codegen_tstore(m))
<1>1. Keeps(d, m, m)
  BY FrameKeepsItself, ZenonT(60)
<1>2. /\ \A x : Keeps(d, m, x) => Keeps(d, m, generate_revert_block(x))
      /\ \A x, v : Keeps(d, m, x) => Keeps(d, m, stack_push(x, v))
      /\ \A x, v : Keeps(d, m, x) => Keeps(d, m, Pops(x, v))
      /\ \A x, v : Keeps(d, m, x) => Keeps(d, m, consume_gas(x, v))
      /\ \A x, v, w : Keeps(d, m, x) => Keeps(d, m, resize_memory_if_necessary(x, v, w))
  BY HelpersClosed
<1>3. \A x, v, w : Keeps(d, m, x) =>
        Keeps(d, m, [extend_memory_syscall(x, v) EXCEPT !.memory_size = w])
  BY HelpersClosed, ZenonT(60) DEF extend_memory_syscall
<1> USE <1>1, <1>2 DEF Charged
<1>4. Keeps(d, m, codegen_pop(m)) /\ Keeps(d, m, codegen_push(m, op))
  BY HelpersClosed, ZenonT(60) DEF codegen_pop, codegen_push, Pushes
<1>5. Keeps(d, m, codegen_dup(m, n)) /\ Keeps(d, m, codegen_swap(m, n))
  BY HelpersClosed, ZenonT(60) DEF codegen_dup, codegen_swap
<1>6. Keeps(d, m, codegen_calldataload(m, data)) /\ Keeps(d, m, codegen_tload(m))
  BY DEF codegen_calldataload, codegen_tload, Unary
<1>7. Keeps(d, m, codegen_tstore(m))
  BY HelpersClosed, ZenonT(60) DEF codegen_tstore
<1> USE <1>3 DEF extend_memory
<1>8. Keeps(d, m, codegen_keccak256(m, data))
  BY DEF codegen_keccak256
<1>9. Keeps(d, m, codegen_calldatacopy(m))
  BY DEF codegen_calldatacopy
<1>10. Keeps(d, m, codegen_codecopy(m))
  BY DEF codegen_codecopy
<1>11. Keeps(d, m, codegen_returndatacopy(m))
  BY DEF codegen_returndatacopy
<1>12. /\ Keeps(d, m, codegen_mload(m, data))
       /\ Keeps(d, m, codegen_mstore(m)) /\ Keeps(d, m, codegen_mstore8(m))
  BY ZenonT(60) DEF codegen_mload, codegen_mstore, codegen_mstore8
<1>13. Keeps(d, m, codegen_mcopy(m))
  BY DEF codegen_mcopy
<1>14. Keeps(d, m, codegen_log(m, n))
  BY HelpersClosed, ZenonT(60) DEF codegen_log
<1> QED
  BY <1>4, <1>5, <1>6, <1>7, <1>8, <1>9, <1>10, <1>11, <1>12, <1>13, <1>14, ZenonT(60)

\* What reads of other accounts make of a journal.
LEMMA WarmedReads ==
  ASSUME NEW d, NEW j, IsJournal(j), NEW a
  PROVE  IsJournal(Warmed(j, d, a)) /\ Reads(d, j, Warmed(j, d, a))
<1>1. IsJournal(load(j, d, a)) /\ Reads(d, j, load(j, d, a))
  BY JournalOperations, ReadingOperations
<1>2. IsJournal(Warmed(j, d, a)) /\ Reads(d, load(j, d, a), Warmed(j, d, a))
  BY <1>1, JournalOperations, ReadingOperations DEF Warmed
<1> QED
  BY <1>1, <1>2, ReadsTransitive

\* Operations that read the world state.
LEMMA ReadingKeeps ==
  ASSUME NEW d, NEW m, IsFrame(m), NEW data
  PROVE  /\ Keeps(d, m, codegen_sload(m, d)) /\ Keeps(d, m, codegen_balance(m, d))
         /\ Keeps(d, m, codegen_extcodesize(m, d)) /\ Keeps(d, m, codegen_extcodecopy(m, d))
         /\ Keeps(d, m, codegen_extcodehash(m, d, data))
<1>1. Keeps(d, m, m)
  BY FrameKeepsItself, ZenonT(60)
<1>2. /\ \A x : Keeps(d, m, x) => Keeps(d, m, generate_revert_block(x))
      /\ \A x, v : Keeps(d, m, x) => Keeps(d, m, stack_push(x, v))
      /\ \A x, v : Keeps(d, m, x) => Keeps(d, m, Pops(x, v))
      /\ \A x, v : Keeps(d, m, x) => Keeps(d, m, consume_gas(x, v))
      /\ \A x, v, w : Keeps(d, m, x) => Keeps(d, m, resize_memory_if_necessary(x, v, w))
  BY HelpersClosed
<1>3. \A x, v, w : Keeps(d, m, x) =>
        Keeps(d, m, [extend_memory_syscall(x, v) EXCEPT !.memory_size = w])
  BY HelpersClosed, ZenonT(60) DEF extend_memory_syscall
<1>4. \A x : Keeps(d, m, x) => IsJournal(x.journal)
  BY ZenonT(60) DEF Keeps, IsFrame
<1>5. \A v : Keeps(d, m, Pops(m, v)) /\ Pops(m, v).journal = m.journal
  BY <1>1, <1>2, HelpersAreQuiet, ZenonT(60) DEF Same, IsFrame
<1>6. \A v, a : Keeps(d, m, [Pops(m, v) EXCEPT !.journal = Warmed(m.journal, d, a)])
  BY <1>1, <1>4, <1>5, WarmedReads, JournalKeeps
<1>7. \A v, k : Keeps(d, m, [Pops(m, v) EXCEPT !.journal = warm_key(m.journal, d, m.this, k)])
  BY <1>1, <1>4, <1>5, JournalOperations, ReadingOperations, JournalKeeps, ZenonT(60)
<1>8. \A x, a, v, w : Keeps(d, m, x) =>
        Keeps(d, m, [resize_memory_if_necessary(x, v, w) EXCEPT
                       !.journal = Warmed(x.journal, d, a)])
  <2> SUFFICES ASSUME NEW x, NEW a, NEW v, NEW w, Keeps(d, m, x)
               PROVE  Keeps(d, m, [resize_memory_if_necessary(x, v, w) EXCEPT
                                     !.journal = Warmed(x.journal, d, a)])
    OBVIOUS
  <2> DEFINE y == resize_memory_if_necessary(x, v, w)
  <2>1. Keeps(d, m, y) /\ y.journal = x.journal
    BY <1>2, HelpersAreQuiet, ZenonT(60) DEF Same, Keeps, IsFrame
  <2>2. IsJournal(Warmed(x.journal, d, a)) /\ Reads(d, x.journal, Warmed(x.journal, d, a))
    BY <1>4, WarmedReads
  <2> HIDE DEF y
  <2>3. Keeps(d, m, [y EXCEPT !.journal = Warmed(x.journal, d, a)])
    BY <2>1, <2>2, JournalKeeps, ZenonT(60)
  <2> QED
    BY <2>3 DEF y
<1> USE <1>1, <1>2 DEF Charged
<1>9. Keeps(d, m, codegen_sload(m, d))
  BY <1>7 DEF codegen_sload
<1>10. Keeps(d, m, codegen_balance(m, d))
  BY <1>6 DEF codegen_balance
<1>11. Keeps(d, m, codegen_extcodesize(m, d))
  BY <1>6 DEF codegen_extcodesize
<1>12. Keeps(d, m, codegen_extcodehash(m, d, data))
  BY <1>6, ZenonT(60) DEF codegen_extcodehash
<1>13. Keeps(d, m, codegen_extcodecopy(m, d))
  BY <1>3, <1>8, ZenonT(60) DEF codegen_extcodecopy, extend_memory
<1> QED
  BY <1>9, <1>10, <1>11, <1>12, <1>13

\* Operations that write the world state do it only in a context that is not static.
LEMMA WritingKeeps ==
  ASSUME NEW d, NEW m, IsFrame(m)
  PROVE  Keeps(d, m, codegen_sstore(m, d)) /\ Keeps(d, m, codegen_selfdestruct(m, d))
<1>1. Keeps(d, m, m)
  BY FrameKeepsItself
<1>2. /\ \A x : Keeps(d, m, x) => Keeps(d, m, generate_revert_block(x))
      /\ \A x, v : Keeps(d, m, x) => Keeps(d, m, Pops(x, v))
      /\ \A x, v : Keeps(d, m, x) => Keeps(d, m, consume_gas(x, v))
      /\ \A x, v : Keeps(d, m, x) => Keeps(d, m, [x EXCEPT !.refund = v])
  BY HelpersClosed, ZenonT(60)
<1>3. \A x : Keeps(d, m, x) => IsJournal(x.journal)
  BY DEF Keeps, IsFrame
<1>4. ASSUME ~m.ctx_is_static, NEW x, NEW j, Keeps(d, m, x), IsJournal(j)
      PROVE  Keeps(d, m, [x EXCEPT !.journal = j])
  BY <1>4, JournalKeeps
<1>5. Keeps(d, m, codegen_sstore(m, d))
  <2>1. ASSUME ~m.ctx_is_static, NEW k, NEW v, NEW r
        PROVE  Keeps(d, m, [Pops(m, 2) EXCEPT
                              !.journal = write_storage(m.journal, d, m.this, k, v),
                              !.refund = r])
    <3> DEFINE j == write_storage(m.journal, d, m.this, k, v)
    <3>1. IsJournal(j)
      BY <1>1, <1>3, JournalOperations
    <3> HIDE DEF j
    <3>2. Keeps(d, m, [[Pops(m, 2) EXCEPT !.journal = j] EXCEPT !.refund = r])
      BY <1>1, <1>2, <1>4, <2>1, <3>1, ZenonT(60)
    <3>3. \A y : [[y EXCEPT !.journal = j] EXCEPT !.refund = r]
                   = [y EXCEPT !.journal = j, !.refund = r]
      OBVIOUS
    <3> QED
      BY <3>2, <3>3 DEF j
  <2> QED
    BY <1>1, <1>2, <2>1, ZenonT(60) DEF codegen_sstore, check_context_is_not_static
<1>6. ASSUME ~m.ctx_is_static, NEW x, NEW receiver, Keeps(d, m, x)
      PROVE  Keeps(d, m, selfdestruct(x, d, receiver))
  <2> DEFINE loaded == load(load(x.journal, d, x.this), d, receiver)
             paid == IF has_account(loaded, d, receiver)
                     THEN set_balance(loaded, d, receiver,
                                      get_account(loaded, d, receiver).balance
                                      + balance_or_default(x.journal, d, x.this))
                     ELSE new_account(loaded, receiver,
                                      balance_or_default(x.journal, d, x.this))
             last == set_status(set_balance(paid, d, x.this, 0), d, x.this, SelfDestructed)
  <2>1. IsJournal(load(x.journal, d, x.this))
    BY <1>3, <1>6, JournalOperations
  <2>2. IsJournal(loaded)
    BY <2>1, JournalOperations
  <2> HIDE DEF loaded
  <2>3. IsJournal(paid)
    BY <2>2, JournalOperations
  <2> HIDE DEF paid
  <2>4. IsJournal(set_balance(paid, d, x.this, 0))
    BY <2>3, JournalOperations
  <2>5. IsJournal(last)
    BY <2>4, JournalOperations
  <2> HIDE DEF last
  <2>6. Keeps(d, m, [x EXCEPT !.journal = last])
    BY <1>4, <1>6, <2>5
  <2> QED
    BY <2>6 DEF selfdestruct, last, paid, loaded
<1>7. Keeps(d, m, codegen_selfdestruct(m, d))
  BY <1>1, <1>2, <1>6 DEF codegen_selfdestruct, Charged, check_context_is_not_static
<1> QED
  BY <1>5, <1>7

LEMMA StateKeeps ==
  ASSUME IsFrame(Current), NEW op, op.name \in StateOp, NEW data
  PROVE  Keeps(db, Current, state_op(Current, op, data))
<1>1. op.name \in {"POP", "PUSH0", "PUSH", "DUP", "SWAP", "KECCAK256", "CALLDATALOAD",
                   "CALLDATACOPY", "CODECOPY", "RETURNDATACOPY", "MLOAD", "MSTORE", "MSTORE8",
                   "MCOPY", "LOG", "SLOAD", "SSTORE", "TLOAD", "TSTORE", "BALANCE",
                   "EXTCODESIZE", "EXTCODECOPY", "EXTCODEHASH", "SELFDESTRUCT"}
  BY DEF StateOp, SimpleOpcode, NumberedOpcode, ArithmeticOp, EnvironmentOp, FlowOp, CallOp,
         CreateOp
<1> DEFINE m == Current
<1>2. IsFrame(m)
  OBVIOUS
<1> HIDE DEF m
<1>3. Keeps(db, m, state_op(m, op, data))
  BY <1>1, <1>2, MemoryKeeps, ReadingKeeps, WritingKeeps, ZenonT(60) DEF state_op
<1> QED
  BY <1>3 DEF m

LEMMA FlowKeeps ==
  ASSUME NEW d, NEW m, IsFrame(m), NEW op, op.name \in FlowOp
  PROVE  Keeps(d, m, flow_op(m, op))
<1>1. Keeps(d, m, m)
  BY FrameKeepsItself
<1>2. /\ \A x, v, w, s : Keeps(d, m, x) => Keeps(d, m, write_result(x, v, w, s))
      /\ \A x : Keeps(d, m, x) => Keeps(d, m, generate_revert_block(x))
      /\ \A x, v : Keeps(d, m, x) => Keeps(d, m, Pops(x, v))
      /\ \A x, v : Keeps(d, m, x) => Keeps(d, m, consume_gas(x, v))
  BY HelpersClosed
<1>3. \A x, v, w : Keeps(d, m, x) =>
        Keeps(d, m, [extend_memory_syscall(x, v) EXCEPT !.memory_size = w])
  BY HelpersClosed, ZenonT(60) DEF extend_memory_syscall
<1>4. \A x, v : Keeps(d, m, x) => Keeps(d, m, add_jump_op(x, v))
  BY <1>2, HelpersClosed, ZenonT(60) DEF add_jump_op
<1> USE <1>1, <1>2 DEF Charged
<1>5. /\ Keeps(d, m, codegen_jumpdest(m)) /\ Keeps(d, m, codegen_stop(m))
      /\ Keeps(d, m, codegen_invalid(m))
  BY ZenonT(60) DEF codegen_jumpdest, codegen_stop, codegen_invalid, return_empty_result
<1>6. Keeps(d, m, codegen_jump(m)) /\ Keeps(d, m, codegen_jumpi(m))
  BY <1>4 DEF codegen_jump, codegen_jumpi
<1>7. Keeps(d, m, codegen_return(m)) /\ Keeps(d, m, codegen_revert(m))
  BY <1>3 DEF codegen_return, codegen_revert, return_result_from_stack, extend_memory
<1> HIDE <1>1, <1>2
<1> QED
  BY <1>5, <1>6, <1>7 DEF flow_op, FlowOp

----------------------------------------------------------------------------
(* The operations that start a context                                       *)

\* x runs above m.
Linked(d, m, x) ==
  /\ m.ctx_is_static => x.ctx_is_static /\ m.pending.op # "CREATE"
  /\ x.ctx_is_static => Reads(d, m.journal, x.journal)

\* What may replace the context m: itself, or itself and one above it.
Replaces(d, m, contexts) ==
  \/ \E x : contexts = <<x>> /\ Keeps(d, m, x)
  \/ \E x, y : contexts = <<x, y>> /\ Keeps(d, m, x) /\ IsFrame(y) /\ Linked(d, x, y)

LEMMA KeepsTransitive ==
  ASSUME NEW d, NEW m, NEW x, NEW y, Keeps(d, m, x), Keeps(d, x, y)
  PROVE  Keeps(d, m, y)
BY ReadsTransitive DEF Keeps

\* c is what SyscallContext returns, as far as the claims take it.
IsContext(c) == {"journal", "ctx_is_static"} \subseteq DOMAIN c

LEMMA NewFrameFields ==
  ASSUME NEW context, IsContext(context), NEW program, NEW gas, NEW size
  PROVE  Same(context, NewFrame(context, program, gas, size))
<1> DEFINE head == [program |-> program, pc |-> 1, pending |-> NoCall]
           globals == merged(merged(generate_gas_counter_setup_code(gas), generate_stack_setup_code),
                             merged(generate_memory_setup_code,
                                    generate_calldata_setup_code(size)))
           x == NewFrame(context, program, gas, size)
<1>1. DOMAIN head = {"program", "pc", "pending"}
  BY ZenonT(60)
<1>2. DOMAIN globals = {"gas", "stack", "fault", "memory_size", "memory_len", "calldata_size"}
  BY DEF merged, generate_gas_counter_setup_code, generate_stack_setup_code,
         generate_memory_setup_code, generate_calldata_setup_code
<1>3. x = merged(head, merged(globals, context))
  BY DEF NewFrame
<1> HIDE DEF head, globals, x
<1>4. /\ DOMAIN merged(globals, context) = DOMAIN globals \union DOMAIN context
      /\ \A k \in DOMAIN context \ DOMAIN globals : merged(globals, context)[k] = context[k]
  BY DEF merged
<1>5. /\ DOMAIN x = DOMAIN head \union DOMAIN globals \union DOMAIN context
      /\ \A k \in DOMAIN context \ (DOMAIN globals \union DOMAIN head) : x[k] = context[k]
  BY <1>3, <1>4 DEF merged
<1>6. /\ FrameFields \subseteq DOMAIN x
      /\ x.journal = context.journal /\ x.ctx_is_static = context.ctx_is_static
  BY <1>1, <1>2, <1>5 DEF FrameFields, IsContext
<1> QED
  BY <1>6 DEF x, Same

\* The end of a call, with or without a context of the callee.
LEMMA CallReturnedKeeps ==
  ASSUME NEW d, NEW m, NEW x, Keeps(d, m, x), NEW consumed, NEW code
  PROVE  Keeps(d, m, call_returned(x, consumed, code))
<1>1. /\ \A y : Keeps(d, m, y) => Keeps(d, m, generate_revert_block(y))
      /\ \A y, v : Keeps(d, m, y) => Keeps(d, m, stack_push(y, v))
      /\ \A y, v : Keeps(d, m, y) => Keeps(d, m, consume_gas_as_value(y, v))
      /\ \A y, v : Keeps(d, m, y) => Keeps(d, m, [y EXCEPT !.pending = v])
  BY HelpersClosed
<1> QED
  BY <1>1, ZenonT(60) DEF call_returned, ChargedValue

\* The syscall "call".
LEMMA CallReplaces ==
  ASSUME NEW d, NEW m, IsFrame(m), NEW type, NEW gas, NEW callee, NEW value,
         NEW ao, NEW as, NEW ro, NEW rs, NEW input,
         m.ctx_is_static => value = 0
  PROVE  Replaces(d, m, call(m, d, type, gas, callee, value, ao, as, ro, rs, input))
<1>1. Keeps(d, m, m)
  BY FrameKeepsItself, ZenonT(60)
<1>2. \A x, consumed, code : Keeps(d, m, x) => Keeps(d, m, call_returned(x, consumed, code))
  BY CallReturnedKeeps
<1>3. \A x : Keeps(d, m, x) => Replaces(d, m, <<x>>)
  BY DEF Replaces
<1>4. Keeps(d, m, call_precompile(m, callee, gas, input, ro, rs))
  <2>1. /\ \A x, v : Keeps(d, m, x) => Keeps(d, m, [x EXCEPT !.last_call_return_data = v])
        /\ \A x, v, w : Keeps(d, m, x) => Keeps(d, m, resize_memory_if_necessary(x, v, w))
    BY HelpersClosed
  <2> QED
    BY <1>1, <1>2, <2>1 DEF call_precompile
<1> DEFINE loaded == load(load(m.journal, d, callee), d, m.this)
           account == get_account(loaded, d, callee)
           base == gas_cost.CALL_WARM + value_cost(value, account)
           moved == transfer(loaded, d, m.this, callee, value)
           x == [m EXCEPT !.journal = moved]
           sending == gas_sent(m.gas, base, gas)
           stipend == IF value = 0 THEN 0 ELSE call_opcode.STIPEND_GAS_ADDITION
           pending == [op |-> "CALL", consumed |-> base + sending, sent |-> sending + stipend,
                       ret_offset |-> ro, ret_size |-> rs]
           parent == [x EXCEPT !.pending = pending]
           child == callee_frame(x, d, type, callee, value, sending + stipend, as)
<1>5. IsJournal(loaded) /\ Reads(d, m.journal, loaded)
  <2>1. IsJournal(m.journal)
    BY DEF IsFrame
  <2>2. IsJournal(load(m.journal, d, callee)) /\ Reads(d, m.journal, load(m.journal, d, callee))
    BY <2>1, JournalOperations, ReadingOperations
  <2> QED
    BY <2>2, JournalOperations, ReadingOperations, ReadsTransitive
<1> HIDE DEF loaded
<1>6. IsJournal(moved) /\ (m.ctx_is_static => moved = loaded)
  BY <1>5, JournalOperations DEF transfer
<1> HIDE DEF moved
<1>7. Keeps(d, m, [m EXCEPT !.journal = loaded])
  BY <1>1, <1>5, JournalKeeps
<1>8. Keeps(d, m, x) /\ x.journal = moved
  <2>1. Keeps(d, m, x)
    BY <1>1, <1>5, <1>6, JournalKeeps
  <2>2. x.journal = moved
    BY DEF IsFrame, FrameFields
  <2> QED
    BY <2>1, <2>2
<1> HIDE DEF x, pending
<1>9. /\ Keeps(d, m, parent)
      /\ parent.journal = moved
      /\ parent.ctx_is_static = m.ctx_is_static
      /\ parent.pending = pending
  <2>1. FrameFields \subseteq DOMAIN x
    BY <1>8 DEF Keeps, IsFrame
  <2>2. Keeps(d, m, parent) /\ Same(x, parent)
    BY <1>8, <2>1, HelpersClosed, HelpersAreQuiet, ZenonT(60)
  <2>3. parent.pending = pending
    BY <2>1 DEF FrameFields
  <2> QED
    BY <1>8, <2>2, <2>3, ZenonT(60) DEF Same, Keeps
<1>10. /\ FrameFields \subseteq DOMAIN child
       /\ child.journal = moved
       /\ child.ctx_is_static = (x.ctx_is_static \/ type = "STATICCALL")
  <2> DEFINE to == IF type \in {"CALL", "STATICCALL"} THEN callee ELSE x.this
             caller == IF type = "DELEGATECALL" THEN x.caller ELSE x.this
             new_value == IF type = "DELEGATECALL" THEN x.value ELSE value
             static == x.ctx_is_static \/ type = "STATICCALL"
             program == from_bytecode(code_by_address(x.journal, d, callee))
             given == sending + stipend
             context == SyscallContext(x.journal, to, caller, new_value, given, given, static, <<>>)
  <2>1. child = NewFrame(context, program, given, as)
    BY ZenonT(60) DEF callee_frame
  <2>2. /\ IsContext(context)
        /\ context.journal = x.journal
        /\ context.ctx_is_static = static
    BY ZenonT(60) DEF SyscallContext, IsContext
  <2> HIDE DEF child, context, program, given, static
  <2>3. Same(context, child)
    BY <2>1, <2>2, NewFrameFields, ZenonT(60)
  <2> QED
    BY <1>8, <2>2, <2>3, ZenonT(60) DEF static, Same
<1>11. pending.op = "CALL"
  BY DEF pending
<1> HIDE DEF parent, child
<1>12. x.ctx_is_static = m.ctx_is_static /\ m.ctx_is_static \in BOOLEAN
  BY <1>8 DEF Keeps, IsFrame
<1>13. IsFrame(child) /\ Linked(d, parent, child)
  BY <1>6, <1>9, <1>10, <1>11, <1>12, ReadsReflexive, ZenonT(60) DEF IsFrame, Linked
<1>14. Replaces(d, m, <<parent, child>>)
  BY <1>9, <1>13 DEF Replaces
<1>15. call(m, d, type, gas, callee, value, ao, as, ro, rs, input)
         \in {<<call_returned(m, input.undefined, HALT_RETURN_CODE)>>,
              <<call_precompile(m, callee, gas, input, ro, rs)>>,
              <<call_returned(m, 0, REVERT_RETURN_CODE)>>,
              <<call_returned([m EXCEPT !.journal = loaded], gas_cost.CALL_WARM,
                              REVERT_RETURN_CODE)>>,
              <<call_returned([m EXCEPT !.journal = loaded], base, HALT_RETURN_CODE)>>,
              <<parent, child>>}
  BY DEF call, parent, child, x, pending, moved, loaded
<1> QED
  BY <1>1, <1>2, <1>3, <1>4, <1>7, <1>14, <1>15, ZenonT(60)

LEMMA CodegenCallReplaces ==
  ASSUME NEW d, NEW m, IsFrame(m), NEW type, NEW input
  PROVE  Replaces(d, m, codegen_call(m, d, type, input))
<1>1. Keeps(d, m, m)
  BY FrameKeepsItself
<1>2. /\ \A x : Keeps(d, m, x) => Keeps(d, m, generate_revert_block(x))
      /\ \A x, v : Keeps(d, m, x) => Keeps(d, m, Pops(x, v))
      /\ \A x, v : Keeps(d, m, x) => Keeps(d, m, consume_gas(x, v))
  BY HelpersClosed
<1>3. \A x, v, w : Keeps(d, m, x) =>
        Keeps(d, m, [extend_memory_syscall(x, v) EXCEPT !.memory_size = w])
  BY HelpersClosed, ZenonT(60) DEF extend_memory_syscall
<1>4. \A x : Keeps(d, m, x) => Replaces(d, m, <<x>>)
  BY DEF Replaces
<1> DEFINE nargs == IF type \in {"CALL", "CALLCODE"} THEN 7 ELSE 6
           value == IF type \in {"CALL", "CALLCODE"} THEN get_nth_from_stack(m, 2) ELSE 0
           args_offset == Operand(m, nargs - 4)
           args_size == Operand(m, nargs - 3)
           ret_offset == Operand(m, nargs - 2)
           ret_size == Operand(m, nargs - 1)
           extended == extend_memory(Pops(m, nargs), Larger(add32(args_offset, args_size),
                                                            add32(ret_offset, ret_size)),
                                     0, LAMBDA x : x)
           called == call(extended, d, type, Top(m), address_from(get_nth_from_stack(m, 1)), value,
                          args_offset, args_size, ret_offset, ret_size,
                          [input EXCEPT !.len = args_size])
<1>5. codegen_call(m, d, type, input) =
        IF ~check_stack_has_at_least(m, nargs) \/ (m.ctx_is_static /\ value # 0)
        THEN <<generate_revert_block(m)>>
        ELSE IF extended.exit_status # "running" THEN <<extended>> ELSE called
  BY DEF codegen_call
<1> HIDE DEF nargs, value, args_offset, args_size, ret_offset, ret_size
<1>6. Keeps(d, m, extended)
  BY <1>1, <1>2, <1>3, ZenonT(60) DEF extend_memory, Charged
<1> HIDE DEF extended
<1>7. ASSUME ~(m.ctx_is_static /\ value # 0)
      PROVE  Replaces(d, m, called)
  <2>1. IsFrame(extended) /\ (extended.ctx_is_static => value = 0)
    BY <1>6, <1>7 DEF Keeps
  <2>2. Replaces(d, extended, called)
    BY <2>1, CallReplaces
  <2> HIDE DEF called
  <2> QED
    BY <1>6, <2>2, KeepsTransitive, ZenonT(60) DEF Replaces
<1> HIDE DEF called
<1> QED
  BY <1>1, <1>2, <1>4, <1>5, <1>6, <1>7, ZenonT(60)

\* The context of a transaction or of initialization code is not static.
LEMMA NewFrameIsFrame ==
  ASSUME NEW context, IsContext(context), IsJournal(context.journal),
         context.ctx_is_static = FALSE, NEW program, NEW gas, NEW size
  PROVE  /\ IsFrame(NewFrame(context, program, gas, size))
         /\ NewFrame(context, program, gas, size).ctx_is_static = FALSE
<1> DEFINE x == NewFrame(context, program, gas, size)
<1>1. Same(context, x)
  BY NewFrameFields
<1> HIDE DEF x
<1>2. IsFrame(x) /\ x.ctx_is_static = FALSE
  BY <1>1, ZenonT(60) DEF IsFrame, Same
<1> QED
  BY <1>2 DEF x

\* create_aux starts the context of the initialization code, for a context that
\* is not static.
LEMMA CreateReplaces ==
  ASSUME NEW d, NEW m, IsFrame(m), ~m.ctx_is_static, NEW value, NEW init, NEW is_create2, NEW salt
  PROVE  Replaces(d, m, create_aux(m, d, value, init, is_create2, salt))
<1> DEFINE program == from_bytecode(init)
           sender == get_account(m.journal, d, m.this)
           dest == IF is_create2 THEN compute_contract_address2(m.this, salt, init)
                   ELSE compute_contract_address(m.this, sender.nonce)
           words == (Len(init) + 31) \div 32
           hash_cost == IF is_create2 THEN words * gas_cost.HASH_WORD_COST ELSE 0
           loaded == load(m.journal, d, m.this)
           j == add_account_as_warm(loaded, dest)
           fresh == new_account(j, dest, value)
           own == to_bytecode(program)
           pending == [op |-> "CREATE", dest |-> dest, value |-> value,
                       balance |-> sender.balance, nonce |-> sender.nonce,
                       cost |-> words * gas_cost.INIT_WORD_COST + hash_cost]
           parent == [m EXCEPT !.journal = j, !.pending = pending]
           context == SyscallContext(fresh, dest, m.this, m.value, m.gas, m.gas, FALSE, own)
           child == NewFrame(context, program, m.gas, m.calldata_size)
<1>1. create_aux(m, d, value, init, is_create2, salt)
        \in {<<generate_revert_block(m)>>, <<parent, child>>}
  BY DEF create_aux
<1> HIDE DEF program, sender, dest, words, hash_cost, own, pending
<1>2. IsJournal(m.journal)
  BY DEF IsFrame
<1>3. IsJournal(loaded)
  BY <1>2, JournalOperations
<1> HIDE DEF loaded
<1>4. IsJournal(j)
  BY <1>3, JournalOperations
<1> HIDE DEF j
<1>5. IsJournal(fresh)
  BY <1>4, JournalOperations
<1> HIDE DEF fresh
<1>6. IsFrame(child) /\ child.ctx_is_static = FALSE
  <2>1. IsContext(context) /\ context.journal = fresh /\ context.ctx_is_static = FALSE
    BY DEF SyscallContext, IsContext
  <2> HIDE DEF context
  <2> QED
    BY <1>5, <2>1, NewFrameIsFrame, ZenonT(60)
<1>7. /\ FrameFields \subseteq DOMAIN parent
      /\ parent.journal = j
      /\ parent.ctx_is_static = m.ctx_is_static
  BY DEF IsFrame, FrameFields
<1> HIDE DEF parent, child
<1>8. Keeps(d, m, parent)
  BY <1>4, <1>7, ZenonT(60) DEF Keeps, IsFrame
<1>9. Linked(d, parent, child)
  BY <1>6, <1>7 DEF Linked
<1>10. Keeps(d, m, generate_revert_block(m))
  BY FrameKeepsItself, HelpersClosed, ZenonT(60)
<1> QED
  BY <1>1, <1>6, <1>8, <1>9, <1>10 DEF Replaces

LEMMA CodegenCreateReplaces ==
  ASSUME NEW d, NEW m, IsFrame(m), NEW is_create2, NEW init
  PROVE  Replaces(d, m, codegen_create(m, d, is_create2, init))
<1>1. Keeps(d, m, m)
  BY FrameKeepsItself
<1>2. /\ \A x : Keeps(d, m, x) => Keeps(d, m, generate_revert_block(x))
      /\ \A x, v : Keeps(d, m, x) => Keeps(d, m, Pops(x, v))
      /\ \A x, v : Keeps(d, m, x) => Keeps(d, m, consume_gas(x, v))
  BY HelpersClosed
<1>3. \A x, v, w : Keeps(d, m, x) =>
        Keeps(d, m, [extend_memory_syscall(x, v) EXCEPT !.memory_size = w])
  BY HelpersClosed, ZenonT(60) DEF extend_memory_syscall
<1>4. \A x : Keeps(d, m, x) => Replaces(d, m, <<x>>)
  BY DEF Replaces
<1> DEFINE nargs == IF is_create2 THEN 4 ELSE 3
           extended == extend_memory(Pops(m, nargs), add32(Operand(m, 1), Operand(m, 2)),
                                     gas_cost.CREATE, LAMBDA x : x)
           created == create_aux(extended, d, Top(m), init, is_create2,
                                 IF is_create2 THEN get_nth_from_stack(m, 3) ELSE 0)
<1>5. codegen_create(m, d, is_create2, init) =
        IF ~check_stack_has_at_least(m, nargs) \/ m.ctx_is_static
        THEN <<generate_revert_block(m)>>
        ELSE IF extended.exit_status # "running" THEN <<extended>> ELSE created
  BY DEF codegen_create, check_context_is_not_static
<1> HIDE DEF nargs
<1>6. Keeps(d, m, extended)
  BY <1>1, <1>2, <1>3 DEF extend_memory, Charged
<1> HIDE DEF extended
<1>7. ASSUME ~m.ctx_is_static
      PROVE  Replaces(d, m, created)
  <2>1. IsFrame(extended) /\ ~extended.ctx_is_static
    BY <1>6, <1>7 DEF Keeps
  <2>2. Replaces(d, extended, created)
    BY <2>1, CreateReplaces
  <2> HIDE DEF created
  <2> QED
    BY <1>6, <2>2, KeepsTransitive DEF Replaces
<1> HIDE DEF created
<1> QED
  BY <1>1, <1>2, <1>4, <1>5, <1>6, <1>7

----------------------------------------------------------------------------
(* The ends of contexts                                                      *)

LEMMA CallReturnedSame ==
  ASSUME NEW m, FrameFields \subseteq DOMAIN m, NEW consumed, NEW code
  PROVE  Same(m, call_returned(m, consumed, code))
<1>1. \A x, y, z : Same(x, y) /\ Same(y, z) => Same(x, z)
  BY DEF Same
<1>2. \A x : Same(m, x) => FrameFields \subseteq DOMAIN x
  BY DEF Same
<1>3. /\ \A x : Same(m, x) => Same(m, generate_revert_block(x))
      /\ \A x, v : Same(m, x) => Same(m, stack_push(x, v))
      /\ \A x, v : Same(m, x) => Same(m, consume_gas_as_value(x, v))
  BY <1>1, <1>2, HelpersAreQuiet, ZenonT(60)
<1>4. Same(m, [m EXCEPT !.pending = NoCall])
  BY HelpersAreQuiet, ZenonT(60)
<1> QED
  BY <1>3, <1>4 DEF call_returned, ChargedValue

LEMMA CallEndsKeeps ==
  ASSUME NEW d, NEW m, NEW x, IsFrame(m), IsFrame(x), Linked(d, m, x)
  PROVE  Keeps(d, m, call_ends(m, x))
<1> DEFINE p == m.pending
           consumed == p.consumed - (p.sent - gas_used(x)) - gas_refunded(x)
           y == [m EXCEPT !.last_call_return_data = output_size(x)]
           z == resize_memory_if_necessary(y, p.ret_offset, p.ret_size)
           taken == [z EXCEPT !.journal = x.journal]
           undone == [y EXCEPT !.journal = m.journal]
<1>1. call_ends(m, x) = IF is_success(x) THEN call_returned(taken, consumed, SUCCESS_RETURN_CODE)
                        ELSE call_returned(undone, consumed, REVERT_RETURN_CODE)
  BY DEF call_ends, extend_from_successful, extend_from_reverted
<1>2. Keeps(d, m, m)
  BY FrameKeepsItself
<1> HIDE DEF consumed, p
<1>3. Keeps(d, m, y) /\ Same(m, y)
  BY <1>2, HelpersKeep, HelpersAreQuiet, ZenonT(60) DEF IsFrame
<1> HIDE DEF y
<1>4. Keeps(d, m, z) /\ Same(y, z)
  <2>1. FrameFields \subseteq DOMAIN y
    BY <1>3 DEF Same
  <2> QED
    BY <1>3, <2>1, HelpersKeep, HelpersAreQuiet, ZenonT(60)
<1> HIDE DEF z
<1>5. z.journal = m.journal /\ y.journal = m.journal
  BY <1>3, <1>4 DEF Same
<1>6. IsJournal(m.journal) /\ IsJournal(x.journal)
  BY DEF IsFrame
<1>7. m.ctx_is_static => Reads(d, z.journal, x.journal)
  BY <1>5 DEF Linked
<1>8. Keeps(d, m, taken)
  BY <1>4, <1>6, <1>7, JournalKeeps
<1>9. Keeps(d, m, undone)
  BY <1>3, <1>5, <1>6, ReadsReflexive, JournalKeeps, ZenonT(60)
<1> HIDE DEF taken, undone
<1> QED
  BY <1>1, <1>8, <1>9, CallReturnedKeeps

\* The caller of a call that failed has the journal it had.
LEMMA FailedCallKeepsJournal ==
  ASSUME NEW m, NEW x, FrameFields \subseteq DOMAIN m, ~is_success(x)
  PROVE  call_ends(m, x).journal = m.journal
<1> DEFINE p == m.pending
           consumed == p.consumed - (p.sent - gas_used(x)) - gas_refunded(x)
           y == [m EXCEPT !.last_call_return_data = output_size(x)]
           undone == [y EXCEPT !.journal = m.journal]
<1>1. call_ends(m, x) = call_returned(undone, consumed, REVERT_RETURN_CODE)
  BY DEF call_ends, extend_from_reverted
<1> HIDE DEF consumed
<1>2. FrameFields \subseteq DOMAIN undone /\ undone.journal = m.journal
  BY DEF FrameFields
<1> HIDE DEF undone
<1> QED
  BY <1>1, <1>2, CallReturnedSame DEF Same

\* The end of a creation leaves a context that may create as it was, but for the
\* journal.
LEMMA CreateResultIsJournal ==
  ASSUME NEW d, NEW m, NEW x, IsFrame(m), IsFrame(x), NEW code
  PROVE  IsJournal(create_result(m, d, x, code).journal)
<1> DEFINE p == m.pending
           made == new_contract(x.journal, p.dest, code, p.value)
           counted == set_nonce(made, d, m.this, p.nonce + 1)
           deployed == set_balance(counted, d, m.this, p.balance - p.value)
<1>1. create_result(m, d, x, code).journal \in {deployed, x.journal}
  BY DEF create_result, extend_from_successful
<1> HIDE DEF p
<1>2. IsJournal(x.journal)
  BY DEF IsFrame
<1>3. IsJournal(made)
  BY <1>2, JournalOperations
<1> HIDE DEF made
<1>4. IsJournal(counted)
  BY <1>3, JournalOperations
<1> HIDE DEF counted
<1>5. IsJournal(deployed)
  BY <1>4, JournalOperations, ZenonT(60)
<1> QED
  BY <1>1, <1>2, <1>5, ZenonT(60)

LEMMA CreationEndsKeeps ==
  ASSUME NEW m, NEW x, IsFrame(m), IsFrame(x), ~m.ctx_is_static, NEW code
  PROVE  /\ Keeps(db, m, creation_ends(m, db, x, code))
         /\ Keeps(db, m, transaction_creation_ends(m, x, code))
<1> DEFINE result == create_result(m, db, x, code)
           y == [m EXCEPT !.journal = result.journal, !.pending = NoCall]
<1>1. IsJournal(result.journal)
  BY CreateResultIsJournal
<1> HIDE DEF result
<1>2. /\ FrameFields \subseteq DOMAIN y
      /\ y.journal = result.journal
      /\ y.ctx_is_static = m.ctx_is_static
  BY DEF IsFrame, FrameFields
<1> HIDE DEF y
<1>3. Keeps(db, m, y)
  BY <1>1, <1>2 DEF Keeps, IsFrame
<1>4. /\ \A z : Keeps(db, m, z) => Keeps(db, m, generate_revert_block(z))
      /\ \A z, v : Keeps(db, m, z) => Keeps(db, m, stack_push(z, v))
      /\ \A z, v : Keeps(db, m, z) => Keeps(db, m, consume_gas_as_value(z, v))
      /\ \A z, v, w, s : Keeps(db, m, z) => Keeps(db, m, write_result(z, v, w, s))
  BY HelpersClosed
<1>5. creation_ends(m, db, x, code) =
        IF gas_flag_of_value(y, result.gas)
        THEN stack_push(consume_gas_as_value(y, result.gas), result.address)
        ELSE generate_revert_block(y)
  BY DEF creation_ends, ChargedValue, y, result
<1>6. \E v, w : transaction_creation_ends(m, x, code) = write_result(y, v, w, "Stop")
  BY DEF transaction_creation_ends, y, result
<1> QED
  BY <1>3, <1>4, <1>5, <1>6

----------------------------------------------------------------------------
(* Stacks of contexts                                                        *)

Stack(d, s) ==
  /\ s \in Seq({s[i] : i \in DOMAIN s})
  /\ \A i \in DOMAIN s : IsFrame(s[i])
  /\ \A i \in 2 .. Len(s) : Linked(d, s[i - 1], s[i])

LEMMA LinkedKeeps ==
  ASSUME NEW d, NEW m, NEW x, NEW y, Linked(d, m, x), Keeps(d, x, y)
  PROVE  Linked(d, m, y)
BY ReadsTransitive DEF Linked, Keeps

\* A sequence of contexts over any set is one over its own elements.
LEMMA IsStack ==
  ASSUME NEW d, NEW S, NEW s \in Seq(S),
         \A i \in 1 .. Len(s) : IsFrame(s[i]),
         \A i \in 2 .. Len(s) : Linked(d, s[i - 1], s[i])
  PROVE  Stack(d, s)
<1> DEFINE R == {s[i] : i \in DOMAIN s}
<1>1. Len(s) \in Nat /\ DOMAIN s = 1 .. Len(s)
  BY Indexed
<1>2. s \in Seq(R)
  BY <1>1
<1> QED
  BY <1>1, <1>2 DEF Stack

LEMMA StackLength ==
  ASSUME NEW d, NEW s, Stack(d, s)
  PROVE  /\ Len(s) \in Nat
         /\ DOMAIN s = 1 .. Len(s)
         /\ s # <<>> <=> Len(s) > 0
BY Indexed, Emptiness DEF Stack

LEMMA FrontStack ==
  ASSUME NEW d, NEW s, Stack(d, s), s # <<>>
  PROVE  /\ Stack(d, Callers(s))
         /\ Len(Callers(s)) = Len(s) - 1
         /\ \A i \in 1 .. Len(s) - 1 : Callers(s)[i] = s[i]
<1> DEFINE S == {s[i] : i \in DOMAIN s}
           n == Len(s) - 1
           f == SubSeq(s, 1, n)
<1>1. Len(s) \in Nat /\ n \in Nat /\ DOMAIN s = 1 .. Len(s)
  BY StackLength
<1>2. \A i \in 1 .. n : s[i] \in S
  BY <1>1
<1>3. f \in Seq(S) /\ Len(f) = n /\ \A i \in 1 .. n : f[i] = s[i]
  <2> HIDE DEF S
  <2>1. /\ f \in Seq(S)
        /\ Len(f) = IF 1 <= n THEN n - 1 + 1 ELSE 0
        /\ \A i \in 1 .. n - 1 + 1 : f[i] = s[1 + i - 1]
    BY <1>1, <1>2, Sliced
  <2> QED
    BY <1>1, <2>1
<1>4. \A i \in 1 .. Len(f) : IsFrame(f[i])
  BY <1>1, <1>3 DEF Stack
<1>5. \A i \in 2 .. Len(f) : Linked(d, f[i - 1], f[i])
  <2> SUFFICES ASSUME NEW i \in 2 .. n PROVE Linked(d, f[i - 1], f[i])
    BY <1>3
  <2>1. i \in 1 .. n /\ i - 1 \in 1 .. n /\ i \in 2 .. Len(s)
    BY <1>1
  <2> HIDE DEF f, n
  <2> QED
    BY <1>3, <2>1, ZenonT(60) DEF Stack
<1> HIDE DEF f
<1>6. Stack(d, f)
  BY <1>3, <1>4, <1>5, IsStack, ZenonT(60)
<1> QED
  BY <1>3, <1>6 DEF Callers, f

LEMMA PushStack ==
  ASSUME NEW d, NEW s, Stack(d, s), NEW x, IsFrame(x),
         s # <<>> => Linked(d, s[Len(s)], x)
  PROVE  /\ Stack(d, s \o <<x>>)
         /\ Len(s \o <<x>>) = Len(s) + 1
         /\ (s \o <<x>>)[Len(s) + 1] = x
<1> DEFINE S == {s[i] : i \in DOMAIN s} \union {x}
           t == s \o <<x>>
           n == Len(s)
<1>1. n \in Nat /\ DOMAIN s = 1 .. n /\ (s # <<>> <=> n > 0)
  BY StackLength
<1>2. s \in Seq(S)
  BY Wider DEF Stack
<1>3. <<x>> \in Seq(S) /\ Len(<<x>>) = 1 /\ <<x>>[1] = x
  OBVIOUS
<1> HIDE DEF S
<1>4. /\ t \in Seq(S) /\ Len(t) = n + 1
      /\ \A i \in 1 .. n + 1 : t[i] = IF i <= n THEN s[i] ELSE <<x>>[i - n]
  BY <1>2, <1>3, Joined
<1>5. /\ \A i \in 1 .. n : t[i] = s[i]
      /\ t[n + 1] = x
  BY <1>1, <1>3, <1>4
<1>6. \A i \in 1 .. n : IsFrame(s[i])
  BY <1>1 DEF Stack
<1>7. \A i \in 1 .. Len(t) : IsFrame(t[i])
  <2> HIDE DEF t, n
  <2> QED
    BY <1>1, <1>4, <1>5, <1>6
<1>8. \A i \in 2 .. n : Linked(d, s[i - 1], s[i])
  BY DEF Stack
<1>9. \A i \in 2 .. Len(t) : Linked(d, t[i - 1], t[i])
  <2> SUFFICES ASSUME NEW i \in 2 .. n + 1 PROVE Linked(d, t[i - 1], t[i])
    BY <1>4
  <2>1. i - 1 \in 1 .. n /\ i \in Int
    BY <1>1
  <2>2. t[i - 1] = s[i - 1]
    BY <1>5, <2>1
  <2>3. CASE i = n + 1
    <3>1. t[i] = x /\ t[i - 1] = s[n] /\ s # <<>>
      BY <1>1, <1>5, <2>1, <2>2, <2>3
    <3> HIDE DEF t
    <3> QED
      BY <3>1 DEF n
  <2>4. CASE i # n + 1
    <3>1. i \in 2 .. n /\ i \in 1 .. n
      BY <1>1, <2>4
    <3> HIDE DEF t, n
    <3> QED
      BY <1>5, <1>8, <2>2, <3>1
  <2> QED
    BY <2>3, <2>4
<1> HIDE DEF t
<1>10. Stack(d, t)
  BY <1>4, <1>7, <1>9, IsStack
<1> QED
  BY <1>4, <1>5, <1>10 DEF t, n

LEMMA JoinedPair ==
  ASSUME NEW x, NEW y
  PROVE  <<x>> \o <<y>> = <<x, y>>
<1> DEFINE S == {x, y}
           s == <<x>> \o <<y>>
           t == <<x, y>>
<1>1. /\ <<x>> \in Seq(S) /\ Len(<<x>>) = 1 /\ <<x>>[1] = x
      /\ <<y>> \in Seq(S) /\ Len(<<y>>) = 1 /\ <<y>>[1] = y
      /\ t \in Seq(S) /\ Len(t) = 2 /\ t[1] = x /\ t[2] = y
  OBVIOUS
<1> HIDE DEF S
<1>2. /\ s \in Seq(S) /\ Len(s) = 1 + 1
      /\ \A i \in 1 .. 1 + 1 : s[i] = IF i <= 1 THEN <<x>>[i] ELSE <<y>>[i - 1]
  BY <1>1, Joined
<1>3. s[1] = x /\ s[2] = y
  BY <1>1, <1>2
<1> HIDE DEF s, t
<1>4. \A i \in 1 .. Len(s) : s[i] = t[i]
  BY <1>1, <1>2, <1>3
<1>5. s = t
  BY <1>1, <1>2, <1>4, SameElements
<1> QED
  BY <1>5 DEF s, t

\* The context on top may be replaced by what became of it.
LEMMA ReplaceTop ==
  ASSUME NEW d, NEW s, Stack(d, s), s # <<>>, NEW contexts, Replaces(d, s[Len(s)], contexts)
  PROVE  Stack(d, Callers(s) \o contexts)
<1> DEFINE f == Callers(s)
           m == s[Len(s)]
<1>1. Len(s) \in Nat /\ Len(s) > 0 /\ DOMAIN s = 1 .. Len(s)
  BY StackLength
<1>2. Stack(d, f) /\ Len(f) = Len(s) - 1 /\ \A i \in 1 .. Len(s) - 1 : f[i] = s[i]
  BY FrontStack, ZenonT(60)
<1>3. (f # <<>> <=> Len(f) > 0) /\ Len(f) \in Nat
  BY <1>2, StackLength
<1> HIDE DEF f
<1>4. f # <<>> => Linked(d, f[Len(f)], m)
  <2> SUFFICES ASSUME f # <<>> PROVE Linked(d, f[Len(f)], m)
    OBVIOUS
  <2>1. Len(s) \in 2 .. Len(s) /\ Len(s) - 1 \in 1 .. Len(s) - 1
    BY <1>1, <1>2, <1>3
  <2>2. Linked(d, s[Len(s) - 1], s[Len(s)])
    BY <2>1, ZenonT(60) DEF Stack
  <2> QED
    BY <1>2, <2>1, <2>2
<1>5. ASSUME NEW x, Keeps(d, m, x)
      PROVE  /\ Stack(d, f \o <<x>>)
             /\ Len(f \o <<x>>) = Len(f) + 1
             /\ (f \o <<x>>)[Len(f) + 1] = x
  <2>1. IsFrame(x)
    BY <1>5 DEF Keeps
  <2>2. f # <<>> => Linked(d, f[Len(f)], x)
    BY <1>4, <1>5, LinkedKeeps
  <2> QED
    BY <1>2, <2>1, <2>2, PushStack
<1>6. CASE \E x : contexts = <<x>> /\ Keeps(d, m, x)
  BY <1>5, <1>6 DEF f
<1>7. CASE \E x, y : contexts = <<x, y>> /\ Keeps(d, m, x) /\ IsFrame(y) /\ Linked(d, x, y)
  <2>1. PICK x, y : contexts = <<x, y>> /\ Keeps(d, m, x) /\ IsFrame(y) /\ Linked(d, x, y)
    BY <1>7, ZenonT(60)
  <2> DEFINE g == f \o <<x>>
  <2>2. Stack(d, g) /\ Len(g) = Len(f) + 1 /\ g[Len(f) + 1] = x
    BY <1>5, <2>1
  <2> HIDE DEF g
  <2>3. Stack(d, g \o <<y>>)
    BY <2>1, <2>2, PushStack
  <2>4. g \o <<y>> = f \o <<x, y>>
    <3> DEFINE S == {f[i] : i \in DOMAIN f} \union {x, y}
    <3>1. f \in Seq(S)
      BY <1>2, Wider DEF Stack
    <3>2. <<x>> \in Seq(S) /\ <<y>> \in Seq(S)
      OBVIOUS
    <3> HIDE DEF S
    <3>3. (f \o <<x>>) \o <<y>> = f \o (<<x>> \o <<y>>)
      BY <3>1, <3>2, JoinedTwice
    <3> QED
      BY <3>3, JoinedPair, ZenonT(60) DEF g
  <2> QED
    BY <2>1, <2>3, <2>4, ZenonT(60) DEF f
<1> QED
  BY <1>6, <1>7 DEF Replaces

----------------------------------------------------------------------------
(* The steps of the machine                                                  *)

\* The inductive invariant of the two claims.
StaticInv == Stack(db, frames)

\* The context that runs is the last one.
LEMMA CurrentIsFrame ==
  ASSUME StaticInv, frames # <<>>
  PROVE  IsFrame(Current) /\ Current = frames[Len(frames)]
<1>1. Len(frames) \in DOMAIN frames
  BY StackLength DEF StaticInv
<1> QED
  BY <1>1 DEF StaticInv, Stack, Current, Innermost

\* To go on to the next operation changes nothing that the claims take.
LEMMA ExecuteKeeps ==
  ASSUME StaticInv, Running, NEW contexts, Replaces(db, Current, contexts), Execute(contexts)
  PROVE  StaticInv'
<1> DEFINE m == Current
           next == [contexts EXCEPT ![1] = Advanced(Current, contexts[1])]
<1>1. frames # <<>>
  BY DEF Running
<1>2. m = frames[Len(frames)]
  BY <1>1, CurrentIsFrame, ZenonT(60)
<1>3. \A x : Keeps(db, m, x) =>
        /\ Keeps(db, m, Advanced(Current, x))
        /\ \A y : Linked(db, x, y) => Linked(db, Advanced(Current, x), y)
  <2> SUFFICES ASSUME NEW x, Keeps(db, m, x)
               PROVE  /\ Keeps(db, m, Advanced(Current, x))
                      /\ \A y : Linked(db, x, y) => Linked(db, Advanced(Current, x), y)
    OBVIOUS
  <2> DEFINE z == Advanced(Current, x)
  <2>1. FrameFields \subseteq DOMAIN x
    BY DEF Keeps, IsFrame
  <2>2. Same(x, z)
    BY <2>1, HelpersAreQuiet, ZenonT(60) DEF Advanced
  <2>3. z.pending = x.pending
    BY <2>1 DEF Advanced, FrameFields
  <2>4. Keeps(db, m, z)
    BY <2>2, SameKeeps, ZenonT(60)
  <2> HIDE DEF z
  <2>5. \A y : Linked(db, x, y) => Linked(db, z, y)
    BY <2>2, <2>3, ZenonT(60) DEF Linked, Same
  <2> QED
    BY <2>4, <2>5, ZenonT(60) DEF z
<1>4. Replaces(db, m, next)
  <2>1. CASE \E x : contexts = <<x>> /\ Keeps(db, m, x)
    <3>1. PICK x : contexts = <<x>> /\ Keeps(db, m, x)
      BY <2>1
    <3>2. next = <<Advanced(Current, x)>>
      BY <3>1
    <3> HIDE DEF next
    <3> QED
      BY <1>3, <3>1, <3>2 DEF Replaces
  <2>2. CASE \E x, y : contexts = <<x, y>> /\ Keeps(db, m, x) /\ IsFrame(y) /\ Linked(db, x, y)
    <3>1. PICK x, y : contexts = <<x, y>> /\ Keeps(db, m, x) /\ IsFrame(y) /\ Linked(db, x, y)
      BY <2>2
    <3>2. next = <<Advanced(Current, x), y>>
      BY <3>1
    <3> HIDE DEF next
    <3> QED
      BY <1>3, <3>1, <3>2 DEF Replaces
  <2> QED
    BY <2>1, <2>2, ZenonT(60) DEF Replaces
<1>5. frames' = Callers(frames) \o next /\ db' = db
  BY DEF Execute
<1> HIDE DEF next
<1>6. Stack(db, Callers(frames) \o next)
  BY <1>1, <1>2, <1>4, ReplaceTop, ZenonT(60) DEF StaticInv
<1> QED
  BY <1>5, <1>6 DEF StaticInv

LEMMA OperationKeeps ==
  ASSUME StaticInv, Arithmetic \/ Environment \/ StateOperation \/ Flow \/ Call \/ Create
  PROVE  StaticInv'
<1> DEFINE m == Current
           op == NextOp
<1>1. Running
  BY ZenonT(60) DEF Arithmetic, Environment, StateOperation, Flow, Call, Create
<1>2. IsFrame(m)
  BY <1>1, CurrentIsFrame DEF Running
<1>3. \A x : Keeps(db, Current, x) => Replaces(db, Current, <<x>>)
  BY DEF Replaces
<1>4. CASE Arithmetic
  <2>1. PICK data : Execute(<<arithmetic_op(Current, NextOp, data)>>) /\ NextOp.name \in ArithmeticOp
    BY <1>4, ZenonT(60) DEF Arithmetic
  <2> QED
    BY <1>1, <1>2, <1>3, <2>1, ArithmeticKeeps, ExecuteKeeps, ZenonT(60)
<1>5. CASE Environment
  <2>1. PICK data : Execute(<<environment_op(Current, NextOp, data)>>) /\ NextOp.name \in EnvironmentOp
    BY <1>5, ZenonT(60) DEF Environment
  <2> QED
    BY <1>1, <1>2, <1>3, <2>1, EnvironmentKeeps, ExecuteKeeps, ZenonT(60)
<1>6. CASE StateOperation
  <2>1. PICK data : Execute(<<state_op(Current, NextOp, data)>>) /\ NextOp.name \in StateOp
    BY <1>6 DEF StateOperation
  <2> QED
    BY <1>1, <1>2, <1>3, <2>1, StateKeeps, ExecuteKeeps, ZenonT(60)
<1>7. CASE Flow
  <2>1. Execute(<<flow_op(Current, NextOp)>>) /\ NextOp.name \in FlowOp
    BY <1>7, ZenonT(60) DEF Flow
  <2> QED
    BY <1>1, <1>2, <1>3, <2>1, FlowKeeps, ExecuteKeeps, ZenonT(60)
<1>8. CASE Call
  <2>1. PICK input : Execute(codegen_call(Current, db, NextOp.name, input))
    BY <1>8 DEF Call
  <2> QED
    BY <1>1, <1>2, <2>1, CodegenCallReplaces, ExecuteKeeps, ZenonT(60)
<1>9. CASE Create
  <2>1. PICK init : Execute(codegen_create(Current, db, NextOp.name = "CREATE2", init))
    BY <1>9 DEF Create
  <2>2. Replaces(db, Current, codegen_create(Current, db, NextOp.name = "CREATE2", init))
    BY <1>2, CodegenCreateReplaces
  <2> QED
    BY <1>1, <2>1, <2>2, ExecuteKeeps, ZenonT(60)
<1> QED
  BY <1>4, <1>5, <1>6, <1>7, <1>8, <1>9, ZenonT(60)

LEMMA EndOfCodeKeeps ==
  ASSUME StaticInv, EndOfCode
  PROVE  StaticInv'
<1>1. frames # <<>> /\ frames' = Callers(frames) \o <<return_empty_result(Current, "Stop")>>
      /\ db' = db
  BY DEF EndOfCode, Running
<1>2. IsFrame(Current) /\ Current = frames[Len(frames)]
  BY <1>1, CurrentIsFrame
<1>3. Keeps(db, Current, return_empty_result(Current, "Stop"))
  BY <1>2, FrameKeepsItself, HelpersClosed, ZenonT(60) DEF return_empty_result
<1>4. Replaces(db, frames[Len(frames)], <<return_empty_result(Current, "Stop")>>)
  BY <1>2, <1>3 DEF Replaces
<1>5. Stack(db, Callers(frames) \o <<return_empty_result(Current, "Stop")>>)
  BY <1>1, <1>4, ReplaceTop, ZenonT(60) DEF StaticInv
<1> QED
  BY <1>1, <1>5 DEF StaticInv

\* The two contexts on top, and the stack without the last one.
LEMMA TopTwo ==
  ASSUME StaticInv, Len(frames) > 1
  PROVE  LET f == Callers(frames)
         IN  /\ Stack(db, f) /\ f # <<>>
             /\ f[Len(f)] = frames[Len(frames) - 1]
             /\ IsFrame(frames[Len(frames) - 1])
             /\ IsFrame(Current)
             /\ Linked(db, frames[Len(frames) - 1], Current)
<1> DEFINE f == Callers(frames)
           n == Len(frames)
<1>1. n \in Nat /\ DOMAIN frames = 1 .. n /\ frames # <<>>
  BY StackLength DEF StaticInv
<1>2. Stack(db, f) /\ Len(f) = n - 1 /\ \A i \in 1 .. n - 1 : f[i] = frames[i]
  BY <1>1, FrontStack, ZenonT(60) DEF StaticInv
<1> HIDE DEF f
<1>3. f # <<>> /\ f[Len(f)] = frames[n - 1]
  <2>1. n - 1 \in 1 .. n - 1 /\ n - 1 > 0
    BY <1>1
  <2>2. f # <<>>
    BY <1>2, <2>1, StackLength
  <2> QED
    BY <1>2, <2>1, <2>2
<1>4. n - 1 \in DOMAIN frames /\ n \in 2 .. n
  BY <1>1
<1>5. IsFrame(frames[n - 1]) /\ Linked(db, frames[n - 1], frames[n])
  BY <1>4 DEF StaticInv, Stack
<1>6. IsFrame(Current) /\ Current = frames[n]
  BY <1>1, CurrentIsFrame
<1> QED
  BY <1>2, <1>3, <1>5, <1>6 DEF f

\* A context that ended is taken off, and the one below goes on.
LEMMA ContextEnds ==
  ASSUME StaticInv, Len(frames) > 1, NEW x, Keeps(db, frames[Len(frames) - 1], x),
         frames' = Callers(Callers(frames)) \o <<x>>, db' = db
  PROVE  StaticInv'
<1> DEFINE f == Callers(frames)
<1>1. Stack(db, f) /\ f # <<>> /\ f[Len(f)] = frames[Len(frames) - 1]
  BY TopTwo
<1> HIDE DEF f
<1>2. Replaces(db, f[Len(f)], <<x>>)
  BY <1>1 DEF Replaces
<1>3. Stack(db, Callers(f) \o <<x>>)
  BY <1>1, <1>2, ReplaceTop
<1> QED
  BY <1>3 DEF StaticInv, f

LEMMA CallEndsInv ==
  ASSUME StaticInv, CallEnds
  PROVE  StaticInv'
<1> DEFINE caller == frames[Len(frames) - 1]
<1>1. /\ Len(frames) > 1 /\ db' = db
      /\ frames' = Callers(Callers(frames)) \o <<call_ends(caller, Current)>>
  BY DEF CallEnds
<1>2. IsFrame(caller) /\ IsFrame(Current) /\ Linked(db, caller, Current)
  BY <1>1, TopTwo
<1>3. Keeps(db, caller, call_ends(caller, Current))
  BY <1>2, CallEndsKeeps
<1> QED
  BY <1>1, <1>3, ContextEnds

LEMMA CreationEndsInv ==
  ASSUME StaticInv, CreationEnds
  PROVE  StaticInv'
<1> DEFINE creator == frames[Len(frames) - 1]
<1>1. Len(frames) > 1 /\ db' = db /\ creator.pending.op = "CREATE"
  BY DEF CreationEnds
<1>2. PICK code :
        frames' = Callers(Callers(frames))
                  \o <<IF Len(frames) = 2 /\ tx.kind = "CREATE"
                       THEN transaction_creation_ends(creator, Current, code)
                       ELSE creation_ends(creator, db, Current, code)>>
  BY ZenonT(60) DEF CreationEnds
<1>3. IsFrame(creator) /\ IsFrame(Current) /\ Linked(db, creator, Current)
  BY <1>1, TopTwo, ZenonT(60)
<1>4. ~creator.ctx_is_static
  BY <1>1, <1>3 DEF Linked, IsFrame
<1> HIDE DEF creator
<1>5. /\ Keeps(db, creator, creation_ends(creator, db, Current, code))
      /\ Keeps(db, creator, transaction_creation_ends(creator, Current, code))
  BY <1>3, <1>4, CreationEndsKeeps, ZenonT(60)
<1>6. PICK x : Keeps(db, creator, x) /\ frames' = Callers(Callers(frames)) \o <<x>>
  BY <1>2, <1>5
<1> QED
  BY <1>1, <1>6, ContextEnds, ZenonT(60) DEF creator

LEMMA EmptyStack ==
  ASSUME NEW d
  PROVE  Stack(d, <<>>)
BY DEF Stack

\* The contexts of a transaction are not static.
LEMMA TransactKeeps ==
  ASSUME NEW t \in Transactions, Transact(t)
  PROVE  StaticInv'
<1>1. db' = db
  BY ZenonT(60) DEF Transact
<1>2. IsJournal(get_prefetch_accounts(t.access_list))
  BY DEF IsJournal, get_prefetch_accounts, AccountFields
<1>3. ASSUME NEW this, NEW own
      PROVE  LET c == create_syscall_context(t, this, own)
             IN  IsContext(c) /\ IsJournal(c.journal) /\ c.ctx_is_static = FALSE
  BY <1>2, ZenonT(60) DEF create_syscall_context, SyscallContext, IsContext
<1>4. Stack(db, CallTransaction(t))
  <2> DEFINE program == from_bytecode(code_by_address(EmptyStorage, db, t.to))
             context == create_syscall_context(t, t.to, to_bytecode(program))
             x == NewFrame(context, program, context.gas_limit, t.data_zeros + t.data_nonzeros)
  <2>1. CallTransaction(t) = <<x>>
    BY ZenonT(60) DEF CallTransaction
  <2>2. IsContext(context) /\ IsJournal(context.journal) /\ context.ctx_is_static = FALSE
    BY <1>3, ZenonT(60)
  <2> HIDE DEF program, context
  <2>3. IsFrame(x)
    BY <2>2, NewFrameIsFrame, ZenonT(60)
  <2> HIDE DEF x
  <2>4. <<x>> \in Seq({x}) /\ Len(<<x>>) = 1 /\ <<x>>[1] = x
    OBVIOUS
  <2>5. \A i \in 1 .. Len(<<x>>) : IsFrame(<<x>>[i])
    BY <2>3, <2>4
  <2>6. \A i \in 2 .. Len(<<x>>) : Linked(db, <<x>>[i - 1], <<x>>[i])
    BY <2>4
  <2> QED
    BY <2>1, <2>4, <2>5, <2>6, IsStack, ZenonT(60)
<1>5. Stack(db, CreateTransaction(t))
  <2> DEFINE context == create_syscall_context(t, t.caller, <<>>)
             size == t.data_zeros + t.data_nonzeros
             x == NewFrame(context, Program(<<>>), context.gas_limit, size)
             m == [x EXCEPT !.memory_len = size]
  <2>1. CreateTransaction(t) = create_aux(m, db, t.value, t.init, FALSE, 0)
    BY DEF CreateTransaction
  <2>2. IsContext(context) /\ IsJournal(context.journal) /\ context.ctx_is_static = FALSE
    BY <1>3, ZenonT(60)
  <2> HIDE DEF context, size
  <2>3. IsFrame(x) /\ x.ctx_is_static = FALSE
    BY <2>2, NewFrameIsFrame, ZenonT(60)
  <2> HIDE DEF x
  <2>4. IsFrame(m) /\ ~m.ctx_is_static
    <3>1. Keeps(db, x, m)
      BY <2>3, FrameKeepsItself, HelpersClosed, ZenonT(60)
    <3> HIDE DEF m
    <3> QED
      BY <2>3, <3>1 DEF Keeps
  <2> HIDE DEF m
  <2>5. Replaces(db, m, CreateTransaction(t))
    BY <2>1, <2>4, CreateReplaces, ZenonT(60)
  <2>6. Stack(db, <<m>>) /\ <<m>> # <<>> /\ <<m>>[Len(<<m>>)] = m /\ Callers(<<m>>) = <<>>
    <3>1. <<m>> \in Seq({m}) /\ Len(<<m>>) = 1 /\ <<m>>[1] = m /\ <<m>> # <<>>
      OBVIOUS
    <3>2. \A i \in 1 .. Len(<<m>>) : IsFrame(<<m>>[i])
      BY <2>4, <3>1
    <3>3. \A i \in 2 .. Len(<<m>>) : Linked(db, <<m>>[i - 1], <<m>>[i])
      BY <3>1
    <3>4. Stack(db, <<m>>)
      BY <3>1, <3>2, <3>3, IsStack, ZenonT(60)
    <3>5. Callers(<<m>>) = <<>>
      BY <3>1, SlicedEmpty DEF Callers
    <3> QED
      BY <3>1, <3>4, <3>5, ZenonT(60)
  <2>7. Stack(db, <<>> \o CreateTransaction(t))
    BY <2>5, <2>6, ReplaceTop, ZenonT(60)
  <2>8. \E S : CreateTransaction(t) \in Seq(S)
    <3>1. CASE \E y : CreateTransaction(t) = <<y>>
      <4>1. PICK y : CreateTransaction(t) = <<y>>
        BY <3>1
      <4>2. <<y>> \in Seq({y})
        OBVIOUS
      <4> QED
        BY <4>1, <4>2, ZenonT(60)
    <3>2. CASE \E y, z : CreateTransaction(t) = <<y, z>>
      <4>1. PICK y, z : CreateTransaction(t) = <<y, z>>
        BY <3>2
      <4>2. <<y, z>> \in Seq({y, z})
        OBVIOUS
      <4> QED
        BY <4>1, <4>2, ZenonT(60)
    <3> QED
      BY <2>5, <3>1, <3>2 DEF Replaces
  <2> QED
    BY <2>7, <2>8, JoinedEmpty
<1>6. frames' \in {<<>>, CallTransaction(t), CreateTransaction(t)}
  BY TransactToAssumption DEF Transact
<1> QED
  BY <1>1, <1>4, <1>5, <1>6, EmptyStack, ZenonT(60) DEF StaticInv

LEMMA NextKeeps ==
  ASSUME StaticInv, [Next]_vars
  PROVE  StaticInv'
<1>1. CASE Arithmetic \/ Environment \/ StateOperation \/ Flow \/ Call \/ Create
  BY <1>1, OperationKeeps
<1>2. CASE EndOfCode
  BY <1>2, EndOfCodeKeeps
<1>3. CASE CallEnds
  BY <1>3, CallEndsInv
<1>4. CASE CreationEnds
  BY <1>4, CreationEndsInv
<1>5. CASE TransactionEnds
  <2>1. frames' = <<>>
    BY <1>5 DEF TransactionEnds
  <2> QED
    BY <2>1, EmptyStack DEF StaticInv
<1>6. CASE \E t \in Transactions : Transact(t)
  BY <1>6, TransactKeeps
<1>7. CASE UNCHANGED vars
  <2>1. frames' = frames /\ db' = db
    BY <1>7 DEF vars
  <2> QED
    BY <2>1 DEF StaticInv
<1> QED
  BY <1>1, <1>2, <1>3, <1>4, <1>5, <1>6, <1>7, ZenonT(60) DEF Next, Step, Done

\* Along the stack of contexts, a static context has a static one above it, none
\* that creates, and the journal of what is above has only been read into.
THEOREM StaticInductive == Spec => []StaticInv
<1>1. Init => StaticInv
  BY EmptyStack DEF Init, StaticInv
<1>2. StaticInv /\ [Next]_vars => StaticInv'
  BY NextKeeps
<1> QED
  BY <1>1, <1>2, PTL DEF Spec

\* For every program, Db and transaction and any nesting of calls: no operation
\* of evm_mlir, executed below a STATICCALL, changes a balance, a nonce, a code or
\* a stored value that the context which made the call can see.
THEOREM StaticLeavesNoTrace == Spec => []StaticUnchanged
<1>1. StaticInv => StaticUnchanged
  <2> SUFFICES ASSUME StaticInv, NEW i \in 2 .. Len(frames), frames[i].ctx_is_static
               PROVE  Reads(db, frames[i - 1].journal, frames[i].journal)
    BY ZenonT(60) DEF StaticUnchanged, Reads
  <2>1. Linked(db, frames[i - 1], frames[i])
    BY DEF StaticInv, Stack
  <2> QED
    BY <2>1 DEF Linked
<1> QED
  BY <1>1, StaticInductive, PTL

\* The syscall "call" hands the journal of the caller back unchanged when the
\* callee reverted or halted, for every caller and callee.
THEOREM FailedCallsAreUndone == Spec => FailedCallUndone
<1> DEFINE Undone ==
      (Len(frames) > 1 /\ ~Running /\ Len(frames') = Len(frames) - 1
       /\ frames[Len(frames) - 1].pending.op = "CALL" /\ ~is_success(Current)) =>
        LET before == frames[Len(frames) - 1].journal
            after == Innermost(frames').journal
        IN  /\ DOMAIN after = DOMAIN before
            /\ \A a \in DOMAIN after : /\ after[a].storage = before[a].storage
                                       /\ after[a].code = before[a].code
                                       /\ after[a].nonce = before[a].nonce
<1>1. StaticInv /\ [Next]_vars => [Undone]_vars
  <2> SUFFICES ASSUME StaticInv, Next, Len(frames) > 1, ~Running,
                      Len(frames') = Len(frames) - 1,
                      frames[Len(frames) - 1].pending.op = "CALL", ~is_success(Current)
               PROVE  Innermost(frames').journal = frames[Len(frames) - 1].journal
    OBVIOUS
  <2> DEFINE caller == frames[Len(frames) - 1]
  <2>1. Len(frames) \in Nat /\ frames # <<>>
    BY StackLength DEF StaticInv
  <2>2. CallEnds
    <3>1. ~(Arithmetic \/ Environment \/ StateOperation \/ Flow \/ Call \/ Create \/ EndOfCode)
      BY ZenonT(60) DEF Arithmetic, Environment, StateOperation, Flow, Call, Create, EndOfCode
    <3>2. ~CreationEnds
      BY DEF CreationEnds
    <3>3. ~TransactionEnds
      BY <2>1 DEF TransactionEnds
    <3>4. ~\E t \in Transactions : Transact(t)
      BY <2>1 DEF Transact
    <3>5. ~Done
      BY <2>1 DEF Done
    <3> QED
      BY <3>1, <3>2, <3>3, <3>4, <3>5, ZenonT(60) DEF Next, Step
  <2> DEFINE f == Callers(frames)
             x == call_ends(caller, Current)
  <2>3. frames' = Callers(f) \o <<x>>
    BY <2>2 DEF CallEnds
  <2>4. Stack(db, f) /\ f # <<>> /\ f[Len(f)] = caller /\ IsFrame(caller)
    BY TopTwo, ZenonT(60)
  <2>5. x.journal = caller.journal
    BY <2>4, FailedCallKeepsJournal, ZenonT(60) DEF IsFrame
  <2> HIDE DEF f, x, caller
  <2>6. Stack(db, Callers(f))
    BY <2>4, FrontStack, ZenonT(60)
  <2> DEFINE g == Callers(f)
             S == {g[i] : i \in DOMAIN g} \union {x}
  <2>7. g \in Seq(S)
    BY <2>6, Wider DEF Stack
  <2>8. <<x>> \in Seq(S) /\ Len(<<x>>) = 1 /\ <<x>>[1] = x
    OBVIOUS
  <2> HIDE DEF g, S
  <2>9. /\ Len(g \o <<x>>) = Len(g) + 1 /\ Len(g) \in Nat
        /\ \A i \in 1 .. Len(g) + 1 : (g \o <<x>>)[i] =
             IF i <= Len(g) THEN g[i] ELSE <<x>>[i - Len(g)]
    BY <2>7, <2>8, Joined, Indexed, ZenonT(60)
  <2>10. (g \o <<x>>)[Len(g) + 1] = x
    BY <2>8, <2>9
  <2>11. Innermost(frames') = x
    BY <2>3, <2>9, <2>10, ZenonT(60) DEF Innermost, g
  <2> QED
    BY <2>5, <2>11, ZenonT(60) DEF caller
<1> QED
  BY <1>1, StaticInductive, PTL DEF Spec, FailedCallUndone
=============================================================================
