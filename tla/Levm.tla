-------------------------------- MODULE Levm --------------------------------
(* levm/src/vm.rs: the interpreter loop VM::execute.  One step of the model  *)
(* is one turn of the loop.  An unwrap, an assertion or a todo! that fails   *)
(* ends in "panicked", a break in "stopped"; there is no way back from       *)
(* either.  Sums of 64-bit numbers panic when they overflow, as they do in   *)
(* the build of the tests, the only user of the crate.                       *)
EXTENDS LevmFrame

CONSTANTS
  Setups,       \* the machines that are run: arguments of VM::new, fields set later
  Keccak(_)     \* the hash of a sequence of bytes, a word

VARIABLES
  call_frames,          \* VM.call_frames, the frames that wait for a callee
  frame,                \* current_call_frame
  db,                   \* VM.db: accounts, block_hashes
  gas_limit,
  consumed_gas,         \* tx_env.consumed_gas
  warm_addresses,
  block_env,
  status                \* "running", "stopped" or "panicked"

\* What execute never assigns.
fixed == <<gas_limit, block_env>>
vars == <<call_frames, frame, db, consumed_gas, warm_addresses, fixed, status>>

----------------------------------------------------------------------------
(* Accounts and the Db.                                                      *)

EmptyMap == [x \in {} |-> 0]

Account(balance, bytecode) ==
  [balance |-> balance, bytecode |-> bytecode, nonce |-> 0, storage |-> EmptyMap]

is_empty(account) == account.balance = 0 /\ account.nonce = 0 /\ account.bytecode = <<>>

StorageSlot(original_value, current_value) ==
  [original_value |-> original_value, current_value |-> current_value]

has_slot(address, key) ==
  address \in DOMAIN db.accounts /\ key \in DOMAIN db.accounts[address].storage

read_account_storage(address, key) ==
  IF has_slot(address, key) THEN db.accounts[address].storage[key] ELSE StorageSlot(0, 0)

\* An account that is not there is created with its default, which is empty.
write_account_storage(address, key, slot) ==
  LET account == IF address \in DOMAIN db.accounts THEN db.accounts[address] ELSE Account(0, <<>>)
  IN  [db EXCEPT !.accounts =
         (address :> [account EXCEPT !.storage = (key :> slot) @@ account.storage]) @@ db.accounts]

get_account_bytecode(address) ==
  IF address \in DOMAIN db.accounts THEN db.accounts[address].bytecode ELSE <<>>

balance_of(address) == IF address \in DOMAIN db.accounts THEN db.accounts[address].balance ELSE 0

TX_BASE_COST == 21000

\* VM::new, and the accounts and the environment a user of it adds.
Init ==
  \E setup \in Setups :
    /\ call_frames = <<>>
    /\ frame = [new_from_bytecode(setup.bytecode) EXCEPT !.calldata = setup.calldata]
    /\ db = [accounts |-> setup.accounts
                            @@ (setup.address :> Account(setup.balance, setup.bytecode)),
             block_hashes |-> setup.block_hashes]
    /\ gas_limit = setup.gas_limit
    /\ consumed_gas = TX_BASE_COST
    /\ warm_addresses = {setup.address}
    /\ block_env = setup.block_env
    /\ status = "running"

----------------------------------------------------------------------------
(* What the arms of the loop are made of.                                    *)

stack == frame.stack
opcode == opcode_at(frame, frame.pc)

Fetches(ops) == status = "running" /\ opcode.op \in ops

\* The frame after next_opcode, with k operands popped, with a value pushed.
Fetched == increment_pc_by(frame, 1)
Popped(k) == [Fetched EXCEPT !.stack = SubSeq(stack, k + 1, Len(stack))]
Push(f, value) == [f EXCEPT !.stack = <<value>> \o f.stack]

Break(f) ==
  /\ frame' = f
  /\ status' = "stopped"
  /\ UNCHANGED <<call_frames, db, consumed_gas, warm_addresses, fixed>>

Panic ==
  /\ status' = "panicked"
  /\ UNCHANGED <<call_frames, frame, db, consumed_gas, warm_addresses, fixed>>

\* Faulty variant: the gas is checked and not added.
Continue_unpaid(f, cost) ==
  /\ frame' = f
  /\ UNCHANGED <<call_frames, db, consumed_gas, warm_addresses, fixed, status>>

Continue(f, cost) ==
  /\ frame' = f
  /\ consumed_gas' = consumed_gas + cost
  /\ UNCHANGED <<call_frames, db, warm_addresses, fixed, status>>

Exceeds(cost) == consumed_gas + cost > gas_limit

\* An arm that checks the gas and then pops k operands.
Charged(cost, k, arm) ==
  \/ Exceeds(cost) /\ Break(Fetched)
  \/ ~Exceeds(cost) /\ Len(stack) < k /\ Panic
  \/ ~Exceeds(cost) /\ Len(stack) >= k /\ arm

\* An arm that pops k operands, converts them and then checks the gas.
Popping(k, fits, cost, arm) ==
  \/ ~(Len(stack) >= k /\ fits) /\ Panic
  \/ Len(stack) >= k /\ fits /\ Exceeds(cost) /\ Break(Popped(k))
  \/ Len(stack) >= k /\ fits /\ ~Exceeds(cost) /\ arm

\* An offset and an offset behind it, as 64-bit numbers.
FitUsize(offset, end) == offset < USIZE /\ end < USIZE

minimum_word_size(size) == (size + WORD_BYTES - 1) \div WORD_BYTES

----------------------------------------------------------------------------
(* Arms that replace operands by a result.                                   *)

\* constants.rs: gas_cost, for these arms.
ComputeCost ==
  [ADD |-> 3, MUL |-> 5, SUB |-> 3, DIV |-> 5, SDIV |-> 5, MOD |-> 5, SMOD |-> 5, ADDMOD |-> 8,
   MULMOD |-> 8, SIGNEXTEND |-> 5, LT |-> 3, GT |-> 3, SLT |-> 3, SGT |-> 3, EQ |-> 3,
   ISZERO |-> 3, AND |-> 3, OR |-> 3, XOR |-> 3, NOT |-> 3, BYTE |-> 3, SHL |-> 3, SHR |-> 3,
   SAR |-> 3]

Operands(op) == CASE op \in {"ADDMOD", "MULMOD"} -> 3
                  [] op \in {"ISZERO", "NOT"} -> 1
                  [] OTHER -> 2

Computed(op, a, b, n) ==
  CASE op = "ADD" -> (a + b) % WORD
    [] op = "MUL" -> (a * b) % WORD
    [] op = "SUB" -> (a - b) % WORD
    [] op = "DIV" -> IF b = 0 THEN 0 ELSE a \div b
    [] op = "SDIV" -> LevmSdiv(a, b)
    [] op = "MOD" -> IF b = 0 THEN 0 ELSE a % b
    [] op = "SMOD" -> LevmSmod(a, b)
    [] op = "ADDMOD" -> LevmAddmod(a, b, n)
    [] op = "MULMOD" -> LevmMulmod(a, b, n)
    [] op = "SIGNEXTEND" -> LevmSignextend(a, b)
    [] op = "LT" -> Flag(a < b)
    [] op = "GT" -> Flag(a > b)
    [] op = "SLT" -> LevmSlt(a, b)
    [] op = "SGT" -> LevmSgt(a, b)
    [] op = "EQ" -> Flag(a = b)
    [] op = "ISZERO" -> Flag(a = 0)
    [] op = "AND" -> And(a, b)
    [] op = "OR" -> Or(a, b)
    [] op = "XOR" -> Xor(a, b)
    [] op = "NOT" -> Not(a)
    [] op = "BYTE" -> LevmByte(a, b)
    [] op = "SHL" -> LevmShl(a, b)
    [] op = "SHR" -> LevmShr(a, b)
    [] op = "SAR" -> LevmSar(a, b)

\* Dividing by zero goes on with the next opcode before the gas is added.
DividesByZero(op) ==
  \/ op \in {"DIV", "SDIV", "MOD", "SMOD"} /\ stack[2] = 0
  \/ op \in {"ADDMOD", "MULMOD"} /\ stack[3] = 0

Compute ==
  /\ Fetches(DOMAIN ComputeCost)
  /\ LET op == opcode.op
         k == Operands(op)
         result == Computed(op, stack[1], stack[Min({2, k})], stack[k])
     IN  Charged(ComputeCost[op], k,
                 IF result = PANIC THEN Panic
                 ELSE Continue(Push(Popped(k), result),
                               IF DividesByZero(op) THEN 0 ELSE ComputeCost[op]))

\* U256::overflowing_pow, without the flag.
Power(base, exponent) ==
  LET power[i \in 0 .. exponent] == IF i = 0 THEN 1 ELSE (power[i - 1] * base) % WORD
  IN  power[exponent]

Exp ==
  /\ Fetches({"EXP"})
  /\ LET byte_size == Cardinality({i \in 0 .. WORD_BYTES - 1 : stack[2] >= BYTE_VALUES ^ i})
         cost == 10 + 50 * byte_size
     IN  Popping(2, TRUE, cost, Continue(Push(Popped(2), Power(stack[1], stack[2])), cost))

----------------------------------------------------------------------------
(* Arms that push what the machine knows.                                    *)

Known(op) ==
  CASE op = "CALLDATASIZE" -> Len(frame.calldata)
    [] op = "RETURNDATASIZE" -> Len(frame.returndata)
    [] op = "PC" -> frame.pc
    [] op = "COINBASE" -> block_env.coinbase
    [] op = "TIMESTAMP" -> block_env.timestamp
    [] op = "NUMBER" -> block_env.number
    [] op = "PREVRANDAO" -> block_env.prev_randao
    [] op = "GASLIMIT" -> block_env.gas_limit
    [] op = "CHAINID" -> block_env.chain_id
    [] op = "BASEFEE" -> block_env.base_fee_per_gas
    [] op = "BLOBBASEFEE" -> calculate_blob_gas_price(block_env)
    [] op = "PUSH0" -> 0
    [] op = "MSIZE" -> Len(frame.memory)
    [] op = "GAS" -> gas_limit - consumed_gas - 2

KnownOps == {"CALLDATASIZE", "RETURNDATASIZE", "PC", "COINBASE", "TIMESTAMP", "NUMBER",
             "PREVRANDAO", "GASLIMIT", "CHAINID", "BASEFEE", "BLOBBASEFEE", "PUSH0", "MSIZE",
             "GAS"}

PushKnown ==
  /\ Fetches(KnownOps)
  /\ Charged(2, 0, Continue(Push(Fetched, Known(opcode.op)), 2))

\* SELFBALANCE and BLOBHASH end in todo!.
Unfinished ==
  /\ Fetches({"SELFBALANCE", "BLOBHASH"})
  /\ Charged(IF opcode.op = "SELFBALANCE" THEN 5 ELSE 3, 0, Panic)

\* The last 256 blocks only.
LAST_AVAILABLE_BLOCK_LIMIT == 256

BlockHash ==
  /\ Fetches({"BLOCKHASH"})
  /\ LET number == stack[1]
         known == /\ number >= block_env.number - LAST_AVAILABLE_BLOCK_LIMIT
                  /\ number < block_env.number
                  /\ number \in DOMAIN db.block_hashes
     IN  Charged(20, 1, Continue(Push(Popped(1), IF known THEN db.block_hashes[number] ELSE 0), 20))

\* PUSHn: the bytes after the opcode, which must be there.
PushBytes ==
  /\ Fetches({"PUSH"})
  /\ LET n == opcode.n
         next_n_bytes == SubSeq(frame.bytecode, frame.pc + 2, frame.pc + 1 + n)
         value == from_big_endian([i \in 1 .. n |-> next_n_bytes[i].v])
     IN  Charged(3, 0, IF Len(frame.bytecode) < frame.pc + 1 + n THEN Panic
                       ELSE Continue(increment_pc_by(Push(Fetched, value), n), 3))

Dup ==
  /\ Fetches({"DUP"})
  /\ Charged(3, opcode.n, Continue(Push(Fetched, stack[opcode.n]), 3))

\* With depth operands the assertion holds and the index below is out of range.
Swap ==
  /\ Fetches({"SWAP"})
  /\ LET depth == opcode.n
     IN  Charged(3, depth + 1,
                 Continue([Fetched EXCEPT !.stack = [stack EXCEPT ![1] = stack[depth + 1],
                                                                  ![depth + 1] = stack[1]]], 3))

Pop ==
  /\ Fetches({"POP"})
  /\ Charged(2, 1, Continue(Popped(1), 2))

----------------------------------------------------------------------------
(* Jumps.                                                                    *)

\* A byte of data that reads as a JUMPDEST is accepted too.
Jump ==
  /\ Fetches({"JUMP"})
  /\ Charged(8, 1, IF valid_jump(frame, stack[1])
                   THEN Continue([Popped(1) EXCEPT !.pc = stack[1]], 8)
                   ELSE Panic)

Jumpi ==
  /\ Fetches({"JUMPI"})
  /\ Charged(10, 2, IF stack[2] = 0
                    THEN Continue(Popped(2), 10)
                    ELSE IF valid_jump(frame, stack[1])
                         THEN Continue([Popped(2) EXCEPT !.pc = stack[1]], 10)
                         ELSE Panic)

Jumpdest ==
  /\ Fetches({"JUMPDEST"})
  /\ Charged(1, 0, Continue(Fetched, 1))

----------------------------------------------------------------------------
(* Memory, call data and return data.                                        *)

\* Bytes::slice, of a range that must be within the bytes.
Slice(bytes, offset, size) == SubSeq(bytes, offset + 1, offset + size)

CallDataLoad ==
  /\ Fetches({"CALLDATALOAD"})
  /\ Charged(3, 1,
             IF stack[1] + WORD_BYTES > Len(frame.calldata) THEN Panic
             ELSE Continue(Push(Popped(1),
                                from_big_endian(Slice(frame.calldata, stack[1], WORD_BYTES))), 3))

\* CALLDATACOPY and RETURNDATACOPY.
CopyData ==
  /\ Fetches({"CALLDATACOPY", "RETURNDATACOPY"})
  /\ LET data == IF opcode.op = "CALLDATACOPY" THEN frame.calldata ELSE frame.returndata
         dest_offset == stack[1]
         offset == stack[2]
         size == stack[3]
         cost == 3 + 3 * minimum_word_size(size)
                 + expansion_cost(frame.memory, dest_offset + size)
     IN  Popping(3, FitUsize(dest_offset, dest_offset + size) /\ offset < USIZE, cost,
                 CASE size = 0 -> Continue(Popped(3), cost)
                   [] size # 0 /\ offset + size > Len(data) -> Panic
                   [] OTHER ->
                        Continue([Popped(3) EXCEPT !.memory =
                                    store_bytes(frame.memory, dest_offset, Slice(data, offset, size))],
                                 cost))

\* The memory grown for the range, and the bytes of the range.
Keccak256 ==
  /\ Fetches({"KECCAK256"})
  /\ LET offset == stack[1]
         size == stack[2]
         cost == 30 + 6 * minimum_word_size(size) + expansion_cost(frame.memory, offset + size)
         result == Keccak(load_range(frame.memory, offset, size))
     IN  Popping(2, FitUsize(offset, offset + size), cost,
                 Continue([Push(Popped(2), result) EXCEPT
                             !.memory = resize(frame.memory, offset + size)], cost))

Mload ==
  /\ Fetches({"MLOAD"})
  /\ LET offset == stack[1]
         cost == 3 + expansion_cost(frame.memory, offset + WORD_BYTES)
         value == from_big_endian(load_range(frame.memory, offset, WORD_BYTES))
     IN  Popping(1, FitUsize(offset, offset + WORD_BYTES), cost,
                 Continue([Push(Popped(1), value) EXCEPT
                             !.memory = resize(frame.memory, offset + WORD_BYTES)], cost))

\* MSTORE and MSTORE8: the value is popped after the gas is checked.
Mstore ==
  /\ Fetches({"MSTORE", "MSTORE8"})
  /\ LET offset == stack[1]
         size == IF opcode.op = "MSTORE" THEN WORD_BYTES ELSE 1
         cost == 3 + expansion_cost(frame.memory, offset + size)
     IN  Popping(1, FitUsize(offset, offset + size), cost,
                 IF Len(stack) < 2 THEN Panic
                 ELSE Continue([Popped(2) EXCEPT !.memory =
                                  store_bytes(frame.memory, offset, to_big_endian(stack[2], size))],
                               cost))

\* Nothing compares the gas of MCOPY with the limit.
Mcopy ==
  /\ Fetches({"MCOPY"})
  /\ LET dest_offset == stack[1]
         src_offset == stack[2]
         size == stack[3]
         cost == 3 + 3 * minimum_word_size(size)
                 + expansion_cost(frame.memory, Max({src_offset + size, dest_offset + size}))
         fits == src_offset + size < USIZE /\ dest_offset + size < USIZE
     IN  \/ ~(Len(stack) >= 3 /\ fits) /\ Panic
         \/ /\ Len(stack) >= 3 /\ fits
            /\ Continue([Popped(3) EXCEPT !.memory =
                           IF size = 0 THEN frame.memory
                           ELSE copy(frame.memory, src_offset, dest_offset, size)], cost)

\* Every topic is cut to 32 bits, and must fit in them.
Log ==
  /\ Fetches({"LOG"})
  /\ LET topic_count == opcode.n
         offset == stack[1]
         size == stack[2]
         topics == SubSeq(stack, 3, 2 + topic_count)
         cost == 375 + 375 * topic_count + 8 * size + expansion_cost(frame.memory, offset + size)
         log == [address |-> frame.msg_sender, topics |-> topics,
                 data |-> load_range(frame.memory, offset, size)]
     IN  \/ frame.is_static /\ Panic
         \/ /\ ~frame.is_static
            /\ Popping(2 + topic_count,
                       /\ FitUsize(offset, offset + size)
                       /\ \A i \in DOMAIN topics : topics[i] < U32, cost,
                       Continue([Popped(2 + topic_count) EXCEPT
                                   !.memory = resize(frame.memory, offset + size),
                                   !.logs = Append(frame.logs, log)], cost))

----------------------------------------------------------------------------
(* Storage.                                                                  *)

\* The account whose storage a frame works on.
StorageAddress(f) == IF f.delegate # NONE THEN f.delegate ELSE f.code_address

Sload ==
  /\ Fetches({"SLOAD"})
  /\ \/ stack = <<>> /\ Panic
     \/ /\ stack # <<>>
        /\ Continue(Push(Popped(1),
                         read_account_storage(StorageAddress(frame), stack[1]).current_value), 0)

\* A slot that was not there gets the new value as its original one.
Sstore ==
  /\ Fetches({"SSTORE"})
  /\ \/ ~(~frame.is_static /\ Len(stack) >= 2) /\ Panic
     \/ /\ ~frame.is_static
        /\ Len(stack) >= 2
        /\ LET address == StorageAddress(frame)
               original_value == IF has_slot(address, stack[1])
                                 THEN read_account_storage(address, stack[1]).original_value
                                 ELSE stack[2]
           IN  db' = write_account_storage(address, stack[1], StorageSlot(original_value, stack[2]))
        /\ frame' = Popped(2)
        /\ UNCHANGED <<call_frames, consumed_gas, warm_addresses, fixed, status>>

\* Transient storage is kept per frame.
Tload ==
  /\ Fetches({"TLOAD"})
  /\ LET slot == <<frame.msg_sender, stack[1]>>
     IN  Charged(100, 1, Continue(Push(Popped(1), IF slot \in DOMAIN frame.transient_storage
                                                  THEN frame.transient_storage[slot] ELSE 0), 100))

Tstore ==
  /\ Fetches({"TSTORE"})
  /\ Charged(100, 2, Continue([Popped(2) EXCEPT !.transient_storage =
                                 (<<frame.msg_sender, stack[1]>> :> stack[2]) @@ frame.transient_storage],
                              100))

----------------------------------------------------------------------------
(* Calls.  f is the frame of the caller without the operands.                *)

REVERT_FOR_CALL == 0
SUCCESS_FOR_CALL == 1
SUCCESS_FOR_RETURN == 1

generic_call(f, gas, value, msg_sender, to, code_address, delegate, is_static, args_offset, args_size, ret_offset, ret_size) ==
  LET callee_bytecode == get_account_bytecode(code_address)
      calldata == load_range(f.memory, args_offset, args_size)
      caller == [f EXCEPT !.memory = resize(f.memory, args_offset + args_size),
                          !.return_data_offset = ret_offset, !.return_data_size = ret_size]
  IN  /\ UNCHANGED <<db, consumed_gas, fixed>>
      /\ \/ /\ balance_of(f.msg_sender) < value
            /\ frame' = Push(f, REVERT_FOR_CALL)
            /\ UNCHANGED <<call_frames, status>>
         \/ /\ balance_of(f.msg_sender) >= value
            /\ callee_bytecode = <<>>
            /\ frame' = Push(f, SUCCESS_FOR_CALL)
            /\ UNCHANGED <<call_frames, status>>
         \/ /\ balance_of(f.msg_sender) >= value
            /\ callee_bytecode # <<>>
            /\ args_offset + args_size >= USIZE
            /\ status' = "panicked"
            /\ UNCHANGED <<call_frames, frame>>
         \/ /\ balance_of(f.msg_sender) >= value
            /\ callee_bytecode # <<>>
            /\ args_offset + args_size < USIZE
            /\ call_frames' = Append(call_frames, caller)
            /\ frame' = CallFrame(gas, msg_sender, to, code_address, delegate, callee_bytecode, value,
                                  calldata, is_static)
            /\ UNCHANGED status

low_u64(word) == word % USIZE

\* The four offsets and sizes, which start at the operand first.
FitRanges(first) == \A i \in first .. first + 3 : stack[i] < USIZE

\* The account must be there.  The gas is checked and not added.
call_gas_cost(code_address, value, memory_byte_size) ==
  expansion_cost(frame.memory, memory_byte_size)
  + (IF code_address \in warm_addresses THEN 100 ELSE 2600)
  + (IF value # 0 THEN 9000 + 2300 ELSE 0)
  + (IF value # 0 /\ is_empty(db.accounts[code_address]) THEN 25000 ELSE 0)

Call ==
  /\ Fetches({"CALL"})
  /\ LET code_address == low_u64(stack[2])
         value == stack[3]
         memory_byte_size == Max({stack[4] + stack[5], stack[6] + stack[7]})
     IN  Popping(7, FitRanges(4) /\ memory_byte_size < USIZE /\ code_address \in DOMAIN db.accounts,
                 call_gas_cost(code_address, value, memory_byte_size),
                 /\ warm_addresses' = warm_addresses \union {code_address}
                 /\ generic_call(Popped(7), stack[1], value, frame.msg_sender, frame.to, code_address,
                                 NONE, frame.is_static, stack[4], stack[5], stack[6], stack[7]))

\* Faulty variant: the callee of a static context is not static.
CallCode_writable ==
  /\ Fetches({"CALLCODE"})
  /\ LET code_address == low_u64(stack[2])
     IN  \/ ~(Len(stack) >= 7 /\ FitRanges(4)) /\ Panic
         \/ /\ Len(stack) >= 7 /\ FitRanges(4)
            /\ UNCHANGED warm_addresses
            /\ generic_call(Popped(7), stack[1], stack[3], code_address, frame.to, code_address,
                            frame.msg_sender, FALSE, stack[4], stack[5], stack[6], stack[7])

CallCode ==
  /\ Fetches({"CALLCODE"})
  /\ LET code_address == low_u64(stack[2])
     IN  \/ ~(Len(stack) >= 7 /\ FitRanges(4)) /\ Panic
         \/ /\ Len(stack) >= 7 /\ FitRanges(4)
            /\ UNCHANGED warm_addresses
            /\ generic_call(Popped(7), stack[1], stack[3], code_address, frame.to, code_address,
                            frame.msg_sender, frame.is_static, stack[4], stack[5], stack[6], stack[7])

DelegateCall ==
  /\ Fetches({"DELEGATECALL"})
  /\ LET code_address == low_u64(stack[2])
     IN  \/ ~(Len(stack) >= 6 /\ FitRanges(3)) /\ Panic
         \/ /\ Len(stack) >= 6 /\ FitRanges(3)
            /\ UNCHANGED warm_addresses
            /\ generic_call(Popped(6), stack[1], frame.msg_value, frame.msg_sender, frame.to, code_address,
                            frame.msg_sender, frame.is_static, stack[3], stack[4], stack[5], stack[6])

StaticCall ==
  /\ Fetches({"STATICCALL"})
  /\ LET code_address == low_u64(stack[2])
     IN  \/ ~(Len(stack) >= 6 /\ FitRanges(3)) /\ Panic
         \/ /\ Len(stack) >= 6 /\ FitRanges(3)
            /\ UNCHANGED warm_addresses
            /\ generic_call(Popped(6), stack[1], frame.msg_value, frame.msg_sender, code_address, code_address,
                            NONE, TRUE, stack[3], stack[4], stack[5], stack[6])

\* The memory that RETURN reads is grown in the frame that ends.
Return ==
  /\ Fetches({"RETURN"})
  /\ LET offset == stack[1]
         size == stack[2]
         cost == expansion_cost(frame.memory, offset + size)
         return_data == load_range(frame.memory, offset, size)
         parent == call_frames[Len(call_frames)]
         waits == parent.return_data_offset # NONE /\ parent.return_data_size # NONE
     IN  Popping(2, FitUsize(offset, offset + size), cost,
                 \/ /\ call_frames = <<>>
                    /\ Break([Push(Popped(2), SUCCESS_FOR_RETURN) EXCEPT
                                !.memory = resize(frame.memory, offset + size)])
                 \/ /\ call_frames # <<>>
                    /\ frame' = [Push(parent, SUCCESS_FOR_RETURN) EXCEPT
                                   !.returndata = IF waits THEN return_data ELSE parent.returndata,
                                   !.return_data_offset = NONE, !.return_data_size = NONE]
                    /\ call_frames' = SubSeq(call_frames, 1, Len(call_frames) - 1)
                    /\ consumed_gas' = consumed_gas + cost
                    /\ UNCHANGED <<db, warm_addresses, fixed, status>>)

\* STOP ends the loop, also in a frame that was called.
Stop ==
  /\ Fetches({"STOP"})
  /\ Break(Fetched)

\* An unknown byte, and the end of the code.
Unknown ==
  /\ status = "running"
  /\ opcode.op \notin Opcode
  /\ Panic

Step ==
  \/ Compute \/ Exp \/ PushKnown \/ Unfinished \/ BlockHash \/ PushBytes \/ Dup \/ Swap \/ Pop
  \/ Jump \/ Jumpi \/ Jumpdest \/ CallDataLoad \/ CopyData \/ Keccak256 \/ Mload \/ Mstore
  \/ Mcopy \/ Log \/ Sload \/ Sstore \/ Tload \/ Tstore \/ Call \/ CallCode \/ DelegateCall
  \/ StaticCall \/ Return \/ Stop \/ Unknown

\* execute has returned, or its caller has panicked.
Done ==
  /\ status # "running"
  /\ UNCHANGED vars

Next == Step \/ Done

\* The loop runs on its own thread: a turn that can be taken is taken.
Spec == Init /\ [][Next]_vars /\ WF_vars(Step)

----------------------------------------------------------------------------
(* What the LEVM interpreter should guarantee of the programs it runs.       *)

\* The gas of a transaction is within its limit after every operation, whatever
\* frame it runs in.  The one that can overdraw it is MCOPY, whose arm has no
\* check; then only operations that cost nothing follow.
OverdrawnByCopy ==
  [][consumed_gas' > gas_limit =>
       \/ opcode.op = "MCOPY"
       \/ consumed_gas' = consumed_gas]_vars

\* Below a STATICCALL nothing is written, whatever calls are made there: the flag
\* is handed on by CALL, CALLCODE and DELEGATECALL, and SSTORE looks at the flag
\* of its own frame only ("Cannot write to storage in a static context").
StaticUnchanged ==
  [][(\E f \in {frame} \union Range(call_frames) : f.is_static) => db' = db]_vars

\* Cost of a memory of so many bytes, from the first byte on.
MemoryCost(size) == LET words == size \div WORD_BYTES IN (words * words) \div 512 + 3 * words

\* Memory is paid for by the operation that makes it grow, to the last word of
\* it, besides the fixed cost of the operation, which is at least 3
\* (Memory::expansion_cost rounds as Memory::resize does).  The arguments of a
\* call and the value of the outermost RETURN are not paid for.
MemoryCharged ==
  [][Len(call_frames') = Len(call_frames)
     /\ status' = "running"
     /\ Len(frame'.memory) # Len(frame.memory) =>
       consumed_gas' - consumed_gas
         >= 3 + MemoryCost(Len(frame'.memory)) - MemoryCost(Len(frame.memory))]_vars

\* No operation runs, and no memory grows, without the gas for it, but for the
\* exceptions named above (vm.rs: each arm compares and adds its own gas cost).
GasCharged == OverdrawnByCopy /\ MemoryCharged

\* Every run of the loop ends, also of programs that jump back or call themselves
\* without end: each way back to the same opcode goes through one that is charged.
ExecutionEnds == <>(status # "running")
=============================================================================
