---------------------------- MODULE Algorithms ----------------------------
(* The pure algorithms, one input at a time: the word operations of the two  *)
(* EVM implementations (EvmWords), reading and writing bytecode (EvmProgram),*)
(* what a precompiled contract charges (EvmPrecompiles), the estimate of the *)
(* gas a transaction needs (GasEstimate), RLP (Rlp, RlpTypes), and what a    *)
(* block writes of the accounts it changed (WorldState).                     *)
(*                                                                           *)
(* input is what the algorithms are applied to.  The claims compare them     *)
(* with the definitions of the Ethereum virtual machine; where the code is   *)
(* known to differ from them the claim says for which operands.              *)
EXTENDS EvmProgram, EvmPrecompiles, GasEstimate, RlpTypes, WorldState

CONSTANTS
  CodeBytes, MaxCode,
  PrecompileInputs, GasLimits,
  Estimated, Caps,
  StoredTypes,      \* the types whose values are encoded and decoded
  Samples(_),       \* some values of a type
  Records,          \* node records
  DecodedTypes,     \* the types any bytes are decoded as
  RlpBytes, MaxBytes,
  Addresses,
  AccountStates,    \* the accounts there may be before and after a block
  GenesisAccounts

VARIABLE input

Idle == [kind |-> "idle"]

Init == input = Idle

Operands ==
  /\ input = Idle
  /\ \E a \in Word, b \in Word, n \in Word :
       input' = [kind |-> "words", a |-> a, b |-> b, n |-> n]

Bytecode ==
  /\ input = Idle
  /\ \E code \in BoundedSeq(CodeBytes, MaxCode) : input' = [kind |-> "code", code |-> code]

PrecompileCall ==
  /\ input = Idle
  /\ \E address \in 1 .. 9, called \in PrecompileInputs, gas \in GasLimits :
       input' = [kind |-> "precompile", address |-> address, called |-> called, gas |-> gas]

EstimateRequest ==
  /\ input = Idle
  /\ \E tx \in Estimated, cap \in Caps : input' = [kind |-> "estimate", tx |-> tx, cap |-> cap]

StoredValue ==
  /\ input = Idle
  /\ \E t \in StoredTypes : \E v \in Samples(t) : input' = [kind |-> "value", t |-> t, v |-> v]

NodeRecord ==
  /\ input = Idle
  /\ \E record \in Records : input' = [kind |-> "record", record |-> record]

ReceivedBytes ==
  /\ input = Idle
  /\ \E t \in DecodedTypes, data \in BoundedSeq(RlpBytes, MaxBytes) :
       input' = [kind |-> "bytes", t |-> t, data |-> data]

\* What may have happened to an account in a block.  Only one that was destroyed
\* can have another code than before.
Outcomes ==
  {[before |-> before, after |-> after, status |-> status] :
     before \in AccountStates \cup {NoAccount}, after \in AccountStates \cup {NoAccount},
     status \in {"Loaded", "LoadedNotExisting", "InMemoryChange", "Changed", "Destroyed",
                "DestroyedAgain", "DestroyedChanged"}}

Possible(outcome) ==
  LET before == outcome.before
      after == outcome.after
  IN  CASE outcome.status = "LoadedNotExisting" -> before = NoAccount /\ after = NoAccount
        [] outcome.status = "InMemoryChange" -> before = NoAccount
        [] before = NoAccount -> FALSE
        [] outcome.status = "Loaded" -> before = after
        [] outcome.status \in {"Destroyed", "DestroyedAgain"} -> after = NoAccount
        [] outcome.status = "Changed" ->
             after # NoAccount /\ before.code_hash \in {EMPTY_CODE, after.code_hash}
        [] OTHER -> after # NoAccount

ExecutedBlock ==
  /\ input = Idle
  /\ \E outcome \in [Addresses -> {o \in Outcomes : Possible(o)}],
        order \in SetToSeqs(Addresses) :
       input' = [kind |-> "block", outcome |-> outcome, order |-> order]

GenesisFile ==
  /\ input = Idle
  /\ \E addresses \in SUBSET Addresses : \E alloc \in [addresses -> GenesisAccounts] :
       input' = [kind |-> "genesis", alloc |-> alloc]

Drop == input # Idle /\ input' = Idle

Next ==
  \/ Operands \/ Bytecode \/ PrecompileCall \/ EstimateRequest
  \/ StoredValue \/ NodeRecord \/ ReceivedBytes
  \/ ExecutedBlock \/ GenesisFile
  \/ Drop

Spec == Init /\ [][Next]_input

----------------------------------------------------------------------------
(* The definitions of the machine                                            *)

\* Division rounds to zero and the remainder has the sign of the dividend.
\* The smallest number divided by minus one is itself.
IsQuotient(a, b, q) ==
  LET r == Signed(a) - Signed(q) * Signed(b)
  IN  IF a = MIN_SIGNED /\ b = WORD - 1 THEN q = a
      ELSE Magnitude(r) < Magnitude(Signed(b)) /\ (r = 0 \/ Sign(r) = Sign(Signed(a)))

IsRemainder(a, b, r) ==
  /\ Magnitude(Signed(r)) < Magnitude(Signed(b))
  /\ r = 0 \/ Sign(Signed(r)) = Sign(Signed(a))
  /\ (Signed(a) - Signed(r)) % Magnitude(Signed(b)) = 0

\* The low b + 1 bytes of a word, read as a signed number.
Extended(b, value) ==
  LET bits == BYTE_BITS * (b + 1)
      low == value % 2 ^ bits
  IN  IF b >= WORD_BYTES - 1 THEN value
      ELSE IF low < 2 ^ (bits - 1) THEN low ELSE Unsigned(low - 2 ^ bits)

ByteOf(i, value) ==
  IF i >= WORD_BYTES THEN 0
  ELSE (value \div 2 ^ (BYTE_BITS * (WORD_BYTES - 1 - i))) % 2 ^ BYTE_BITS

ShiftedRight(n, value) == IF n >= WORD_BITS THEN 0 ELSE value \div 2 ^ n
ShiftedLeft(n, value) == IF n >= WORD_BITS THEN 0 ELSE (value * 2 ^ n) % WORD
ShiftedSigned(n, value) ==
  Unsigned(Signed(value) \div 2 ^ (IF n >= WORD_BITS THEN WORD_BITS ELSE n))

----------------------------------------------------------------------------
(* What is claimed                                                           *)

\* The generated code computes the machine's words, but for a shift by all bits
\* but one, for the smallest number divided by minus one, and for a byte whose
\* offset in bits does not fit a word (codegen/operations.rs).
MlirWordsExact ==
  input.kind = "words" =>
    LET a == input.a
        b == input.b
        n == input.n
    IN  /\ b = 0 => MlirSdiv(a, b, n) = 0 /\ MlirSmod(a, b, n) = 0
        /\ b # 0 /\ ~(a = MIN_SIGNED /\ b = WORD - 1) =>
             IsQuotient(a, b, MlirSdiv(a, b, n)) /\ IsRemainder(a, b, MlirSmod(a, b, n))
        /\ n # 0 => (a + b - MlirAddmod(a, b, n)) % n = 0 /\ MlirAddmod(a, b, n) < n
        /\ MlirSignextend(b, a) = Extended(b, a)
        /\ b * BYTE_BITS < WORD => MlirByte(b, a) = ByteOf(b, a)
        /\ b # WORD_BITS - 1 =>
             MlirShr(b, a) = ShiftedRight(b, a) /\ MlirShl(b, a) = ShiftedLeft(b, a)
        /\ MlirSar(b, a) = ShiftedSigned(b, a)

\* The interpreter computes them too, but for a signed remainder by a negative
\* number, a quotient of zero whose operands have different signs, which it
\* panics on, and a sum that is reduced after it has overflowed (vm.rs).
LevmWordsExact ==
  input.kind = "words" =>
    LET a == input.a
        b == input.b
        n == input.n
    IN  /\ b = 0 => LevmSdiv(a, b) = 0 /\ LevmSmod(a, b) = 0
        /\ b # 0 /\ LevmSdiv(a, b) # PANIC => IsQuotient(a, b, LevmSdiv(a, b))
        /\ LevmSdiv(a, b) = PANIC => IsQuotient(a, b, 0) /\ is_negative(a) # is_negative(b)
        /\ b # 0 /\ ~is_negative(b) /\ LevmSmod(a, b) # PANIC => IsRemainder(a, b, LevmSmod(a, b))
        /\ n # 0 /\ a + b < WORD => LevmAddmod(a, b, n) = (a + b) % n
        /\ LevmSignextend(b, a) = Extended(b, a)
        /\ LevmByte(b, a) = ByteOf(b, a)
        /\ LevmShr(b, a) = ShiftedRight(b, a)
        /\ LevmShl(b, a) = ShiftedLeft(b, a)
        /\ LevmSar(b, a) = ShiftedSigned(b, a)
        /\ LevmSlt(a, b) = Flag(Signed(a) < Signed(b))
        /\ LevmSgt(a, b) = Flag(Signed(a) > Signed(b))

\* Both implementations compute the words of the machine, but for the operands
\* named above.
WordsExact == MlirWordsExact /\ LevmWordsExact

\* The places of a bytecode that are opcodes: not those that are data of a push.
IsOpcode(code) ==
  LET at[i \in 1 .. Len(code)] ==
        ~\E j \in 1 .. i - 1 : at[j] /\ code[j].op = "PUSH" /\ i <= j + code[j].n
  IN  at

\* A JUMPDEST is an operation, with its own place, exactly where the byte is not
\* data of a push; the program's size is that of the bytecode, with the missing
\* data of a last push counted; and writing the program and reading it again
\* changes nothing (program.rs, from_bytecode and to_bytecode).
ProgramParses ==
  input.kind = "code" =>
    LET code == input.code
        program == from_bytecode(code)
        written == to_bytecode(program)
    IN  /\ {program.operations[i].arg :
              i \in {j \in DOMAIN program.operations : program.operations[j].name = "JUMPDEST"}}
           = {i - 1 : i \in {j \in DOMAIN code : IsOpcode(code)[j] /\ code[j].op = "JUMPDEST"}}
        /\ program.code_size = Len(written)
        /\ program.code_size >= Len(code)
        /\ program.code_size = Len(code) => from_bytecode(written) = program

\* A precompiled contract never takes more gas than it was sent, except the
\* modular exponentiation of nothing, and takes all of it when it fails
\* (precompiles.rs, execute_precompile).
PrecompileWithinGas ==
  input.kind = "precompile" =>
    LET result == execute_precompile(input.address, input.called, input.gas, 0)
        of_nothing == /\ input.address = 5
                      /\ input.called.len = 0 \/ (input.called.b_size = 0 /\ input.called.m_size = 0)
    IN  /\ result.success /\ ~of_nothing => result.consumed <= input.gas
        /\ ~result.success => result.consumed = input.gas /\ result.size = 0
        /\ result.success => result.consumed > 0 \/ input.address = 9

\* The transaction succeeds with the gas estimated for it, and with that of the
\* request only if there is an estimate.  The estimate is close to what is needed,
\* unless it is the price of a plain transfer, or the sender cannot pay for the
\* limit the search tries first (transaction.rs, EstimateGasRequest).
EstimateSucceeds ==
  input.kind = "estimate" =>
    LET tx == input.tx
        estimate == estimate_gas(tx, input.cap)
    IN  /\ simulate_tx(tx, input.cap) => estimate # FAILED
        /\ estimate # FAILED =>
             /\ simulate_tx(tx, estimate)
             /\ \/ (estimate - tx.needed) * 1000 <= 15 * estimate
                \/ estimate = TRANSACTION_GAS /\ tx.plain
                \/ tx.priced /\ tx.affordable < 2 * tx.needed

\* Whether a decoder can tell a value from others by its encoding.  A typed
\* transaction has to be longer than a short string, as any with a signature is;
\* and no optional field that is present may come after a number that is absent,
\* for it would be taken for the number.
RECURSIVE Readable(_, _)
Readable(t, v) ==
  CASE t.kind = "transaction" -> v.tx_type = 0 \/ Len(encode_canonical(t, v)) > SHORT_MAX
    [] t.kind = "vec" -> \A i \in DOMAIN v : Readable(t.of, v[i])
    [] t.kind = "struct" ->
         /\ \A i \in DOMAIN v \ t.optional : Readable(t.types[i], v[i])
         /\ ~\E i, j \in t.optional :
              i < j /\ v[i] = <<>> /\ v[j] # <<>> /\ t.types[i].kind = "uint"
    [] OTHER -> TRUE

\* A message of discovery with one more element
Longer(t) == [t EXCEPT !.types = Append(t.types, U8)]

\* What is encoded is decoded as it was, whatever bytes follow it, exactly if it
\* is readable: a header with a base fee always is, one that lacks it and has a
\* withdrawals root is not (block.rs, decode_optional_field).  Receipts and the
\* canonical form of transactions always are, and a message of discovery with an
\* element too many is the same message (discv4.rs: "as per the spec, any
\* additional elements should be ignored").
EncodedReadsBack ==
  /\ input.kind = "value" =>
       LET t == input.t
           v == input.v
       IN  /\ \A rest \in {<<>>, <<1>>} :
                (decode_unfinished(t, encode(t, v) \o rest) = Decoded(v, rest)) = Readable(t, v)
           /\ t = TransactionType => decode_canonical(t, encode_canonical(t, v)) = Decoded(v, <<>>)
           /\ t = Receipt =>
                \A tx_type \in 0 .. 3 :
                  LET receipt == Transaction(tx_type, v)
                  IN  decode_receipt(encode_receipt(receipt)) = Decoded(receipt, <<>>)
           /\ t.kind = "struct" =>
                (t.checked \/ (\E i \in t.optional : v[i] = <<>>)
                 \/ decode(t, encode(Longer(t), Append(v, 1))) = Decoded(v, <<>>))
  /\ input.kind = "record" =>
       LET response == [request_hash |-> [i \in 1 .. HASH_BYTES |-> 0], node_record |-> input.record]
       IN  /\ decode_record(encode_record(input.record)) = Decoded(input.record, <<>>)
           /\ decode_enr_response(encode_enr_response(response)) = Decoded(response, <<>>)

\* Whatever is decoded from any bytes is what the bytes it took are by
\* themselves, and would be encoded in no more bytes than those, and decoded from
\* them again; a value may have several encodings, for the decoder does not ask
\* for the shortest prefix (decode.rs, decode_rlp_item).
DecodedReadsBack ==
  input.kind = "bytes" =>
    LET decoded == decode_unfinished(input.t, input.data)
        encoded == encode(input.t, decoded.value)
        taken == Len(input.data) - Len(decoded.rest)
    IN  decoded.result = "Ok" =>
          /\ decoded.rest = From(input.data, taken + 1)
          /\ decode(input.t, SubSeq(input.data, 1, taken)) = Decoded(decoded.value, <<>>)
          /\ Len(encoded) <= taken
          /\ decode(input.t, encoded) = Decoded(decoded.value, <<>>)

\* A value survives being written and read, and bytes being read and written, by
\* the encoder and the decoder of its type (rlp/encode.rs, rlp/decode.rs).
RlpReadsBack == EncodedReadsBack /\ DecodedReadsBack

\* The accounts that exist, before or after the block.
World(accounts) ==
  Restrict(accounts, {address \in DOMAIN accounts : accounts[address] # NoAccount})

\* All rows a world needs, besides the empty code.
RowsOf(root) ==
  {StateRow(root)}
  \cup {CodeRow(root[address].code_hash) : address \in DOMAIN root}
  \cup {StorageRow(address, root[address].storage_root) : address \in DOMAIN root}

Before == World([address \in Addresses |-> input.outcome[address].before])
After == World([address \in Addresses |-> input.outcome[address].after])

\* get_state_transitions and apply_account_updates, as add_block calls them.
Applied ==
  LET bundle == [i \in DOMAIN input.order |->
                   LET outcome == input.outcome[input.order[i]]
                   IN  BundleAccount(input.order[i], outcome.before, outcome.after, outcome.status)]
  IN  apply_account_updates(RowsOf(Before), Before, get_state_transitions(bundle))

\* An account that was destroyed and made again keeps a slot of its old storage.
KeepsOldSlot(outcome) ==
  /\ outcome.status = "DestroyedChanged"
  /\ ~(DOMAIN outcome.before.storage_root \subseteq DOMAIN outcome.after.storage_root)

\* setup_genesis_state_trie, as add_initial_state calls it.
Allocated(order) == setup_genesis_state_trie(input.alloc, order)

\* The state root is that of the accounts as the block left them, and reading at
\* it gives them back, whatever was created, changed, emptied and destroyed;
\* except when an account with storage is destroyed and made again in one block,
\* which is written as a change (evm.rs: "Process DestroyedChanged as changed
\* account").  The state root in the header of the genesis block is the one of the
\* trie that is written, in whatever order the accounts come (storage.rs,
\* add_initial_state: "debug_assert_eq!(genesis_state_root, ...").
StateAsExecuted ==
  /\ input.kind = "block" =>
       LET rows == RowsOf(Before) \cup Range(Applied.written)
           kept == \E address \in Addresses : KeepsOldSlot(input.outcome[address])
       IN  /\ (Applied.root = After) = ~kept
           /\ ~kept /\ After # EmptyRoot => \A address \in Addresses :
                LET after == input.outcome[address].after
                IN  /\ basic(rows, Applied.root, address)
                         = (IF after = NoAccount THEN NoInfo ELSE InfoOf(after))
                    /\ \A slot \in Slots :
                         storage_at(rows, Applied.root, address, slot)
                           = ValueAt(StorageOf(after), slot)
  /\ input.kind = "genesis" =>
       \A order \in SetToSeqs(DOMAIN input.alloc) :
         Allocated(order).root = compute_state_root(input.alloc)

\* What a state root leads to is there: storage tries and codes of its accounts.
Closed(rows) ==
  \A row \in rows : row[1] = "StateTrieNodes" =>
    \A address \in DOMAIN row[2] :
      LET account == row[2][address]
      IN  /\ account.code_hash = EMPTY_CODE \/ code_by_hash(rows, account.code_hash)
          /\ open_storage_trie(rows, address, account.storage_root) = account.storage_root

\* A block that stops half way through writing its accounts leaves no state in
\* the store that refers to what is not there, and neither does one that another
\* block's writes are mixed with: rows are only added (apply_account_updates).
\* The same holds of the genesis state, whose root is there in the end.
RowsClosed ==
  /\ input.kind = "block" =>
       \A n \in 0 .. Len(Applied.written) :
         Closed(RowsOf(Before) \cup Range(SubSeq(Applied.written, 1, n)))
  /\ input.kind = "genesis" =>
       \A order \in SetToSeqs(DOMAIN input.alloc) :
         LET set_up == Allocated(order)
         IN  /\ set_up.root # EmptyRoot => StateRow(set_up.root) \in Range(set_up.written)
             /\ \A n \in 0 .. Len(set_up.written) :
                  Closed(Range(SubSeq(set_up.written, 1, n)))
=============================================================================
