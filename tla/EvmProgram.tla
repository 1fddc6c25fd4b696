----------------------------- MODULE EvmProgram -----------------------------
(* evm_mlir/src/program.rs: bytecode to operations and back.  A byte has two *)
(* readings, as an opcode (op, with n telling PUSH1 from PUSH2 and so on)    *)
(* and as data (v): [op |-> "PUSH", n |-> 2, v |-> 1].                       *)
EXTENDS EvmWords

BYTE_VALUES == 2 ^ BYTE_BITS

\* enum Opcode: the opcodes that are told apart only by a number, and the rest.
NumberedOpcode == {"PUSH", "DUP", "SWAP", "LOG"}

SimpleOpcode ==
  {"STOP", "ADD", "MUL", "SUB", "DIV", "SDIV", "MOD", "SMOD", "ADDMOD", "MULMOD",
   "EXP", "SIGNEXTEND", "LT", "GT", "SLT", "SGT", "EQ", "ISZERO", "AND", "OR", "XOR",
   "NOT", "BYTE", "SHL", "SHR", "SAR", "KECCAK256", "ADDRESS", "BALANCE", "ORIGIN",
   "CALLER", "CALLVALUE", "CALLDATALOAD", "CALLDATASIZE", "CALLDATACOPY", "CODESIZE",
   "CODECOPY", "GASPRICE", "EXTCODESIZE", "EXTCODECOPY", "RETURNDATASIZE",
   "RETURNDATACOPY", "EXTCODEHASH", "BLOCKHASH", "COINBASE", "TIMESTAMP", "NUMBER",
   "PREVRANDAO", "GASLIMIT", "CHAINID", "SELFBALANCE", "BASEFEE", "BLOBHASH",
   "BLOBBASEFEE", "POP", "MLOAD", "MSTORE", "MSTORE8", "SLOAD", "SSTORE", "JUMP",
   "JUMPI", "PC", "MSIZE", "GAS", "JUMPDEST", "TLOAD", "TSTORE", "MCOPY", "PUSH0",
   "CREATE", "CALL", "CALLCODE", "RETURN", "DELEGATECALL", "CREATE2", "STATICCALL",
   "REVERT", "INVALID", "SELFDESTRUCT"}

Byte(op, n, v) == [op |-> op, n |-> n, v |-> v]

\* Opcode::try_from: the byte of INVALID is not among the ones it accepts.
try_from(byte) == byte.op \in (SimpleOpcode \union NumberedOpcode) \ {"INVALID"}

Operation(name, n, arg) == [name |-> name, n |-> n, arg |-> arg]

\* BigUint::from_bytes_be
from_bytes_be(bytes) ==
  MapThenSumSet(LAMBDA i : bytes[i].v * BYTE_VALUES ^ (Len(bytes) - i), DOMAIN bytes)

\* The bytes that follow the opcode at pc, as many of the n as there are.
push_data(bytecode, pc, n) ==
  LET last == IF pc + n < Len(bytecode) THEN pc + n ELSE Len(bytecode)
  IN  SubSeq(bytecode, pc + 1, last)

\* parse_operation, by the three groups of its arms.  The first byte of the
\* bytecode is at pc 1 here and at pc 0 in the operations that carry a pc.
push_operation(bytecode, pc, n) ==
  <<Operation("PUSH", n, from_bytes_be(push_data(bytecode, pc, n))), pc + n + 1>>

numbered_operation(op, n, pc) == <<Operation(op, n, 0), pc + 1>>

simple_operation(op, pc) ==
  <<Operation(op, 0, IF op \in {"PC", "JUMPDEST"} THEN pc - 1 ELSE 0), pc + 1>>

\* Faulty variant: the pc is not moved past the data of a push.
parse_operation_into_data(bytecode, pc) ==
  LET byte == bytecode[pc]
  IN  CASE byte.op = "PUSH" ->
             <<push_operation(bytecode, pc, byte.n)[1], pc + 1>>
        [] byte.op \in NumberedOpcode \ {"PUSH"} -> numbered_operation(byte.op, byte.n, pc)
        [] OTHER -> simple_operation(byte.op, pc)

parse_operation(bytecode, pc) ==
  LET byte == bytecode[pc]
  IN  CASE byte.op = "PUSH" -> push_operation(bytecode, pc, byte.n)
        [] byte.op \in NumberedOpcode \ {"PUSH"} -> numbered_operation(byte.op, byte.n, pc)
        [] OTHER -> simple_operation(byte.op, pc)

\* A PUSHn counts n + 1 bytes, also when the bytecode ends before its data.
get_codesize(operations) ==
  LET size[i \in 0 .. Len(operations)] ==
        IF i = 0 THEN 0
        ELSE size[i - 1] + (IF operations[i].name = "PUSH" THEN operations[i].n + 1 ELSE 1)
  IN  size[Len(operations)]

Program(operations) == [operations |-> operations, code_size |-> get_codesize(operations)]

\* A byte that is no opcode becomes the operation Invalid.
from_bytecode(bytecode) ==
  LET end == Len(bytecode) + 1
      from[pc \in 1 .. end] ==
        IF pc = end THEN <<>>
        ELSE IF ~try_from(bytecode[pc])
             THEN <<Operation("INVALID", 0, 0)>> \o from[pc + 1]
             ELSE LET parsed == parse_operation(bytecode, pc)
                  IN  <<parsed[1]>> \o from[IF parsed[2] < end THEN parsed[2] ELSE end]
  IN  Program(from[1])

\* from_bytecode_checked fails when a byte at a place of an opcode is not one;
\* it reads on in the same way.
from_bytecode_checked(bytecode) ==
  LET program == from_bytecode(bytecode)
  IN  [ok |-> \A i \in DOMAIN program.operations : program.operations[i].name # "INVALID",
       program |-> program]

\* BigUint::to_bytes_be behind zeros, n bytes in all.
to_bytes_be(value, n) ==
  [i \in 1 .. n |-> Byte("DATA", 0, (value \div BYTE_VALUES ^ (n - i)) % BYTE_VALUES)]

operation_to_bytecode(op) ==
  IF op.name = "PUSH"
  THEN <<Byte("PUSH", op.n, 0)>> \o to_bytes_be(op.arg, op.n)
  ELSE <<Byte(op.name, op.n, 0)>>

to_bytecode(program) ==
  LET ops == program.operations
      code[i \in 0 .. Len(ops)] ==
        IF i = 0 THEN <<>> ELSE code[i - 1] \o operation_to_bytecode(ops[i])
  IN  code[Len(ops)]
=============================================================================
