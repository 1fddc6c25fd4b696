----------------------------- MODULE LevmFrame -----------------------------
(* The parts of the LEVM interpreter: opcodes.rs and operations.rs (how a    *)
(* program is written as bytes), memory.rs, call_frame.rs and block.rs.      *)
(*                                                                           *)
(* A byte has two readings, as an opcode (op, with n telling PUSH1 from      *)
(* PUSH2 and so on) and as data (v).  USIZE is the number of values of a     *)
(* 64-bit integer and U32 that of a 32-bit one: a word is wider than both.   *)
EXTENDS EvmWords, TLC

CONSTANTS USIZE, U32, TARGET_BLOB_GAS_PER_BLOCK, BLOB_GASPRICE_UPDATE_FRACTION

ASSUME LevmAssumption ==
  /\ USIZE \in Nat \ {0}
  /\ U32 \in Nat \ {0}
  /\ TARGET_BLOB_GAS_PER_BLOCK \in Nat
  /\ BLOB_GASPRICE_UPDATE_FRACTION \in Nat \ {0}

----------------------------------------------------------------------------
(* opcodes.rs, operations.rs                                                 *)

Opcode ==
  {"STOP", "ADD", "MUL", "SUB", "DIV", "SDIV", "MOD", "SMOD", "ADDMOD", "MULMOD", "EXP",
   "SIGNEXTEND", "LT", "GT", "SLT", "SGT", "EQ", "ISZERO", "AND", "OR", "XOR", "NOT",
   "BYTE", "SHL", "SHR", "SAR", "KECCAK256", "CALLDATALOAD", "CALLDATASIZE",
   "CALLDATACOPY", "RETURNDATASIZE", "RETURNDATACOPY", "BLOCKHASH", "COINBASE",
   "TIMESTAMP", "NUMBER", "PREVRANDAO", "GASLIMIT", "CHAINID", "SELFBALANCE", "BASEFEE",
   "BLOBHASH", "BLOBBASEFEE", "POP", "MLOAD", "MSTORE", "MSTORE8", "SLOAD", "SSTORE",
   "JUMP", "JUMPI", "PC", "MSIZE", "GAS", "JUMPDEST", "TLOAD", "TSTORE", "MCOPY",
   "PUSH0", "PUSH", "DUP", "SWAP", "LOG", "CALL", "CALLCODE", "RETURN", "DELEGATECALL",
   "STATICCALL"}

BYTE_VALUES == 2 ^ BYTE_BITS

Byte(op, n, v) == [op |-> op, n |-> n, v |-> v]
DataByte(v) == Byte("DATA", 0, v)

\* The n low bytes of a word, the high one first.
to_big_endian(value, n) ==
  [i \in 1 .. n |-> (value \div BYTE_VALUES ^ (n - i)) % BYTE_VALUES]

from_big_endian(bytes) ==
  LET value[i \in 0 .. Len(bytes)] ==
        IF i = 0 THEN 0 ELSE (value[i - 1] * BYTE_VALUES + bytes[i]) % WORD
  IN  value[Len(bytes)]

\* Operation::to_bytecode, for an operation with its number and its argument.
to_bytecode(op, n, value) ==
  <<Byte(op, n, 0)>>
  \o (IF op = "PUSH" THEN [i \in 1 .. n |-> DataByte(to_big_endian(value, n)[i])] ELSE <<>>)

----------------------------------------------------------------------------
(* memory.rs: the bytes of the memory as a sequence, offsets from zero.      *)

next_multiple_of(offset) == WORD_BYTES * ((offset + WORD_BYTES - 1) \div WORD_BYTES)

Zeros(n) == [i \in 1 .. n |-> 0]

resize(data, offset) ==
  IF next_multiple_of(offset) > Len(data)
  THEN data \o Zeros(next_multiple_of(offset) - Len(data))
  ELSE data

load_range(data, offset, size) == SubSeq(resize(data, offset + size), offset + 1, offset + size)

store_bytes(data, offset, value) ==
  LET room == resize(data, offset + Len(value))
  IN  [i \in DOMAIN room |->
         IF i \in offset + 1 .. offset + Len(value) THEN value[i - offset] ELSE room[i]]

\* The bytes are read before any is written: the ranges may overlap.
copy(data, src_offset, dest_offset, size) ==
  LET top == IF src_offset > dest_offset THEN src_offset ELSE dest_offset
      room == resize(data, top + size)
  IN  store_bytes(room, dest_offset, SubSeq(room, src_offset + 1, src_offset + size))

\* Faulty variant: a part of a word is not counted.
expansion_cost_rounded_down(data, memory_byte_size) ==
  LET cost(size) == LET word == size \div WORD_BYTES IN (word * word) \div 512 + 3 * word
  IN  IF memory_byte_size <= Len(data) THEN 0 ELSE cost(memory_byte_size) - cost(Len(data))

expansion_cost(data, memory_byte_size) ==
  LET cost(size) == LET word == (size + WORD_BYTES - 1) \div WORD_BYTES
                    IN  (word * word) \div 512 + 3 * word
  IN  IF memory_byte_size <= Len(data) THEN 0 ELSE cost(memory_byte_size) - cost(Len(data))

----------------------------------------------------------------------------
(* call_frame.rs.  The top of the stack is its first element; the first byte *)
(* of the code is at pc 0.  NONE is the None of an Option.                   *)

NONE == -1

CallFrame(gas, msg_sender, to, code_address, delegate, bytecode, msg_value, calldata, is_static) ==
  [gas |-> gas, pc |-> 0, msg_sender |-> msg_sender, to |-> to, code_address |-> code_address,
   delegate |-> delegate, bytecode |-> bytecode, msg_value |-> msg_value, stack |-> <<>>,
   memory |-> <<>>, calldata |-> calldata, returndata |-> <<>>, return_data_offset |-> NONE,
   return_data_size |-> NONE, is_static |-> is_static, transient_storage |-> [x \in {} |-> 0],
   logs |-> <<>>]

new_from_bytecode(bytecode) == CallFrame(0, 0, 0, 0, NONE, bytecode, 0, <<>>, FALSE)

\* The opcode at an offset, if there is one.
opcode_at(f, offset) ==
  IF offset < Len(f.bytecode) THEN f.bytecode[offset + 1] ELSE Byte("END", 0, 0)

increment_pc_by(f, count) == [f EXCEPT !.pc = f.pc + count]

valid_jump(f, jump_address) == jump_address < USIZE /\ opcode_at(f, jump_address).op = "JUMPDEST"

----------------------------------------------------------------------------
(* block.rs.  None of the two gas fields counts as zero.                     *)

calc_excess_blob_gas(block_env) ==
  LET sum == block_env.excess_blob_gas + block_env.blob_gas_used
  IN  IF sum < TARGET_BLOB_GAS_PER_BLOCK THEN 0 ELSE sum - TARGET_BLOB_GAS_PER_BLOCK

\* factor * e ^ (numerator / denominator), by the terms of its series.
fake_exponential(factor, numerator, denominator) ==
  LET accum[i \in Nat] == IF i = 0 THEN factor * denominator
                          ELSE (accum[i - 1] * numerator) \div (denominator * i)
      output[i \in Nat] == IF accum[i] = 0 THEN 0 ELSE accum[i] + output[i + 1]
  IN  output[0] \div denominator

MIN_BLOB_GASPRICE == 1

calculate_blob_gas_price(block_env) ==
  fake_exponential(MIN_BLOB_GASPRICE, calc_excess_blob_gas(block_env), BLOB_GASPRICE_UPDATE_FRACTION)
=============================================================================
