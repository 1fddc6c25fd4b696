------------------------------- MODULE EvmOps -------------------------------
(* The operations of evm_mlir that stay inside one execution context: what   *)
(* the code emitted by each codegen function of codegen/operations.rs does   *)
(* to a frame m.  "data" stands for a word the model leaves open: one read   *)
(* from memory, calldata or the block environment, or a hash.                *)
EXTENDS EvmFrame

\* constants.rs: gas_cost
gas_cost ==
  [ADD |-> 3, MUL |-> 5, SUB |-> 3, DIV |-> 5, SDIV |-> 5, MOD |-> 5, SMOD |-> 5,
   ADDMOD |-> 8, MULMOD |-> 8, EXP |-> 10, SIGNEXTEND |-> 5, LT |-> 3, GT |-> 3,
   SLT |-> 3, SGT |-> 3, EQ |-> 3, ISZERO |-> 3, AND |-> 3, OR |-> 3, XOR |-> 3,
   NOT |-> 3, BYTE |-> 3, SHL |-> 3, SHR |-> 3, SAR |-> 3, BALANCE_WARM |-> 100,
   BALANCE_COLD |-> 2600, CALLDATALOAD |-> 3, CALLDATASIZE |-> 2, CALLDATACOPY |-> 3,
   SELFBALANCE |-> 5, BLOBHASH |-> 3, POP |-> 2, MLOAD |-> 3, MSTORE |-> 3,
   MSTORE8 |-> 3, SLOAD_WARM |-> 100, SLOAD_COLD |-> 2100, JUMP |-> 8, JUMPI |-> 10,
   JUMPDEST |-> 1, MCOPY |-> 3, PUSH0 |-> 2, PUSHN |-> 3, DUPN |-> 3, SWAPN |-> 3,
   KECCAK256 |-> 30, CODECOPY |-> 3, LOG |-> 375, BLOCKHASH |-> 20, CALL_WARM |-> 100,
   CALL_COLD |-> 2600, EXTCODEHASH_WARM |-> 100, EXTCODEHASH_COLD |-> 2600,
   EXTCODESIZE_WARM |-> 100, EXTCODESIZE_COLD |-> 2600, EXTCODECOPY_WARM |-> 100,
   EXTCODECOPY_COLD |-> 2600, RETURNDATACOPY |-> 3, SSTORE_MIN_REMAINING_GAS |-> 2300,
   CREATE |-> 32000, TLOAD |-> 100, TSTORE |-> 100, SELFDESTRUCT |-> 5000,
   SELFDESTRUCT_DYNAMIC_GAS |-> 25000, BYTE_DEPOSIT_COST |-> 200, INIT_WORD_COST |-> 2,
   HASH_WORD_COST |-> 6, ENV |-> 2]

----------------------------------------------------------------------------
(* The shapes most codegen functions share: check the stack, consume the     *)
(* gas, branch to the revert block unless both held, else pop and push.      *)

Unary(m, cost, f(_)) ==
  Charged(m, check_stack_has_at_least(m, 1), cost,
          LAMBDA x : stack_push(Pops(x, 1), f(Top(x))))

Binary(m, cost, f(_, _)) ==
  Charged(m, check_stack_has_at_least(m, 2), cost,
          LAMBDA x : stack_push(Pops(x, 2), f(Top(x), get_nth_from_stack(x, 1))))

Ternary(m, cost, f(_, _, _)) ==
  Charged(m, check_stack_has_at_least(m, 3), cost,
          LAMBDA x : stack_push(Pops(x, 3), f(Top(x), get_nth_from_stack(x, 1),
                                              get_nth_from_stack(x, 2))))

\* An operation that pushes a value of the environment.
Pushes(m, cost, value) ==
  Charged(m, check_stack_has_space_for(m, 1), cost, LAMBDA x : stack_push(x, value))

----------------------------------------------------------------------------
(* Arithmetic, comparison and bitwise operations.                            *)

codegen_add(m) == Binary(m, gas_cost.ADD, LAMBDA a, b : a + b)

codegen_sub(m) == Binary(m, gas_cost.SUB, LAMBDA a, b : a - b)

codegen_mul(m) == Binary(m, gas_cost.MUL, LAMBDA a, b : a * b)

codegen_div(m) == Binary(m, gas_cost.DIV, MlirDiv)

codegen_sdiv(m, data) == Binary(m, gas_cost.SDIV, LAMBDA a, b : MlirSdiv(a, b, data))

codegen_mod(m) == Binary(m, gas_cost.MOD, MlirMod)

codegen_smod(m, data) == Binary(m, gas_cost.SMOD, LAMBDA a, b : MlirSmod(a, b, data))

codegen_addmod(m) == Ternary(m, gas_cost.ADDMOD, MlirAddmod)

codegen_mulmod(m) == Ternary(m, gas_cost.MULMOD, MlirMulmod)

exponent_byte_size(exponent) ==
  Cardinality({i \in 0 .. WORD_BYTES - 1 : exponent >= 2 ^ (i * BYTE_BITS)})

codegen_exp(m) ==
  IF ~check_stack_has_at_least(m, 2) THEN generate_revert_block(m)
  ELSE LET base == Top(m)
           exponent == get_nth_from_stack(m, 1)
       IN  Charged(Pops(m, 2), TRUE, gas_cost.EXP + 50 * exponent_byte_size(exponent),
                   LAMBDA x : stack_push(x, MlirExp(base, exponent)))

codegen_signextend(m) == Binary(m, gas_cost.SIGNEXTEND, MlirSignextend)

codegen_lt(m) == Binary(m, gas_cost.LT, LAMBDA a, b : Flag(a < b))

codegen_gt(m) == Binary(m, gas_cost.GT, LAMBDA a, b : Flag(a > b))

codegen_slt(m) == Binary(m, gas_cost.SLT, MlirSlt)

codegen_sgt(m) == Binary(m, gas_cost.SGT, MlirSgt)

codegen_eq(m) == Binary(m, gas_cost.EQ, LAMBDA a, b : Flag(a = b))

codegen_iszero(m) == Unary(m, gas_cost.ISZERO, LAMBDA a : Flag(a = 0))

codegen_and(m) == Binary(m, gas_cost.AND, And)

codegen_or(m) == Binary(m, gas_cost.OR, Or)

codegen_xor(m) == Binary(m, gas_cost.XOR, Xor)

codegen_not(m) == Unary(m, gas_cost.NOT, Not)

codegen_byte(m) == Binary(m, gas_cost.BYTE, MlirByte)

codegen_shl(m) == Binary(m, gas_cost.SHL, MlirShl)

codegen_shr(m) == Binary(m, gas_cost.SHR, MlirShr)

codegen_sar(m) == Binary(m, gas_cost.SAR, MlirSar)

----------------------------------------------------------------------------
(* Stack operations.                                                         *)

codegen_push(m, op) ==
  Pushes(m, IF op.name = "PUSH0" THEN gas_cost.PUSH0 ELSE gas_cost.PUSHN, op.arg)

codegen_pop(m) ==
  Charged(m, check_stack_has_at_least(m, 1), gas_cost.POP, stack_pop)

\* There is no check that the copy fits.
codegen_dup(m, n) ==
  Charged(m, check_stack_has_at_least(m, n), gas_cost.DUPN,
          LAMBDA x : stack_push(x, get_nth_from_stack(x, n - 1)))

codegen_swap(m, n) ==
  Charged(m, check_stack_has_at_least(m, n + 1), gas_cost.SWAPN,
          LAMBDA x : swap_stack_elements(x, 0, n))

----------------------------------------------------------------------------
(* Values of the environment.                                                *)

codegen_address(m) == Pushes(m, gas_cost.ENV, m.this)

codegen_origin(m, origin) == Pushes(m, gas_cost.ENV, origin)

codegen_caller(m) == Pushes(m, gas_cost.ENV, m.caller)

codegen_callvalue(m) == Pushes(m, gas_cost.ENV, m.value)

\* The only push without a check that it fits.
codegen_calldatasize(m) ==
  Charged(m, TRUE, gas_cost.CALLDATASIZE, LAMBDA x : stack_push(x, m.calldata_size))

codegen_codesize(m) == Pushes(m, gas_cost.ENV, m.program.code_size)

codegen_gasprice(m, data) == Pushes(m, gas_cost.ENV, data)

codegen_returndatasize(m) == Pushes(m, gas_cost.ENV, m.last_call_return_data)

codegen_blockhash(m, data) == Unary(m, gas_cost.BLOCKHASH, LAMBDA number : data)

codegen_coinbase(m, data) == Pushes(m, gas_cost.ENV, data)

codegen_timestamp(m, data) == Pushes(m, gas_cost.ENV, data)

codegen_number(m, data) == Pushes(m, gas_cost.ENV, data)

codegen_prevrandao(m, data) == Pushes(m, gas_cost.ENV, data)

\* The gas limit of the context, not of the block.
codegen_gaslimit(m) == Pushes(m, gas_cost.ENV, m.gas_limit)

codegen_chaind(m, data) == Pushes(m, gas_cost.ENV, data)

codegen_basefee(m, data) == Pushes(m, gas_cost.ENV, data)

codegen_blobhash(m, data) == Unary(m, gas_cost.BLOBHASH, LAMBDA index : data)

codegen_blobbasefee(m, data) == Pushes(m, gas_cost.ENV, data)

codegen_pc(m, op) == Pushes(m, gas_cost.ENV, op.arg)

codegen_msize(m) == Pushes(m, gas_cost.ENV, m.memory_size)

codegen_gas(m) ==
  Charged(m, check_stack_has_space_for(m, 1), gas_cost.ENV,
          LAMBDA x : stack_push(x, get_remaining_gas(x)))

\* The executing account is loaded into the journal.
codegen_selfbalance(m, db) ==
  Charged(m, check_stack_has_space_for(m, 1), gas_cost.SELFBALANCE,
          LAMBDA x : stack_push([x EXCEPT !.journal = load(x.journal, db, x.this)],
                                balance_or_default(x.journal, db, x.this)))

----------------------------------------------------------------------------
(* Memory.  An operand that is an offset or a size is truncated to 32 bits.  *)

Operand(m, n) == u32(get_nth_from_stack(m, n))

codegen_keccak256(m, data) ==
  IF ~check_stack_has_at_least(m, 2) THEN generate_revert_block(m)
  ELSE LET offset == Operand(m, 0)
           size == Operand(m, 1)
       IN  Charged(Pops(m, 2), TRUE, 2 * compute_copy_cost(size), LAMBDA x :
             extend_memory(x, add32(offset, size), gas_cost.KECCAK256, LAMBDA y :
               stack_push(y, data)))

codegen_mload(m, data) ==
  IF ~check_stack_has_at_least(m, 1) THEN generate_revert_block(m)
  ELSE extend_memory(Pops(m, 1), add32(Operand(m, 0), WORD_BYTES), gas_cost.MLOAD,
                     LAMBDA x : stack_push(x, data))

codegen_mstore(m) ==
  IF ~check_stack_has_at_least(m, 2) THEN generate_revert_block(m)
  ELSE extend_memory(Pops(m, 2), add32(Operand(m, 0), WORD_BYTES), gas_cost.MSTORE,
                     LAMBDA x : x)

codegen_mstore8(m) ==
  IF ~check_stack_has_at_least(m, 2) THEN generate_revert_block(m)
  ELSE extend_memory(Pops(m, 2), add32(Operand(m, 0), 1), gas_cost.MSTORE8, LAMBDA x : x)

\* The gas for the copy is consumed last, and nobody looks at the flag.
codegen_mcopy(m) ==
  IF ~check_stack_has_at_least(m, 3) THEN generate_revert_block(m)
  ELSE LET dest_offset == Operand(m, 0)
           offset == Operand(m, 1)
           size == Operand(m, 2)
       IN  extend_memory(Pops(m, 3), Larger(add32(offset, size), add32(dest_offset, size)),
                         gas_cost.MCOPY,
                         LAMBDA x : consume_gas(x, compute_copy_cost(size)))

codegen_calldataload(m, data) == Unary(m, gas_cost.CALLDATALOAD, LAMBDA offset : data)

\* The fixed cost is consumed twice and the words copied cost nothing.
codegen_calldatacopy(m) ==
  Charged(m, check_stack_has_at_least(m, 3), gas_cost.CALLDATACOPY, LAMBDA x :
    extend_memory(Pops(x, 3), add32(Operand(x, 0), Operand(x, 2)), gas_cost.CALLDATACOPY,
                  LAMBDA y : y))

codegen_codecopy(m) ==
  IF ~check_stack_has_at_least(m, 3) THEN generate_revert_block(m)
  ELSE LET dest_offset == Operand(m, 0)
           size == Operand(m, 2)
       IN  Charged(Pops(m, 3), TRUE, compute_copy_cost(size), LAMBDA x :
             extend_memory(x, add32(dest_offset, size), gas_cost.CODECOPY, LAMBDA y :
               resize_memory_if_necessary(y, dest_offset, size)))

\* What was not returned cannot be copied.
codegen_returndatacopy(m) ==
  IF ~check_stack_has_at_least(m, 3) THEN generate_revert_block(m)
  ELSE LET dest_offset == Operand(m, 0)
           offset == Operand(m, 1)
           size == Operand(m, 2)
       IN  Charged(Pops(m, 3), TRUE, compute_copy_cost(size), LAMBDA x :
             extend_memory(x, add32(dest_offset, size), gas_cost.RETURNDATACOPY, LAMBDA y :
               IF add32(offset, size) <= y.last_call_return_data
               THEN resize_memory_if_necessary(y, dest_offset, size)
               ELSE generate_revert_block(y)))

----------------------------------------------------------------------------
(* Control flow.                                                             *)

\* The elements of S in the order of their keys.
OrderedBy(S, key(_)) ==
  [k \in 1 .. Cardinality(S) |->
     CHOOSE i \in S : Cardinality({j \in S : key(j) < key(i)}) = k - 1]

\* Faulty variant: the blocks are taken in the order they were generated last.
populate_jumptable_unordered(program) ==
  LET ops == program.operations
      jumpdests == {i \in DOMAIN ops : ops[i].name = "JUMPDEST"}
      jumpdest_pcs == OrderedBy(jumpdests, LAMBDA i : i)
      case_destinations == OrderedBy(jumpdests, LAMBDA i : -ops[i].arg)
  IN  [pc \in {ops[i].arg : i \in jumpdests} |->
         case_destinations[CHOOSE k \in DOMAIN jumpdest_pcs : ops[jumpdest_pcs[k]].arg = pc]]

\* codegen/context.rs: case i of the switch is the pc of the i-th JUMPDEST of
\* the program, and its block the i-th of a map ordered by pc.
populate_jumptable(program) ==
  LET ops == program.operations
      jumpdests == {i \in DOMAIN ops : ops[i].name = "JUMPDEST"}
      jumpdest_pcs == OrderedBy(jumpdests, LAMBDA i : i)
      case_destinations == OrderedBy(jumpdests, LAMBDA i : ops[i].arg)
  IN  [pc \in {ops[i].arg : i \in jumpdests} |->
         case_destinations[CHOOSE k \in DOMAIN jumpdest_pcs : ops[jumpdest_pcs[k]].arg = pc]]

add_jump_op(m, pc_to_jump_to) ==
  LET jumptable == populate_jumptable(m.program)
  IN  IF pc_to_jump_to \in DOMAIN jumptable
      THEN [m EXCEPT !.pc = jumptable[pc_to_jump_to]]
      ELSE generate_revert_block(m)

codegen_jumpdest(m) == Charged(m, TRUE, gas_cost.JUMPDEST, LAMBDA x : x)

codegen_jump(m) ==
  Charged(m, check_stack_has_at_least(m, 1), gas_cost.JUMP,
          LAMBDA x : add_jump_op(Pops(x, 1), Top(x)))

codegen_jumpi(m) ==
  Charged(m, check_stack_has_at_least(m, 2), gas_cost.JUMPI, LAMBDA x :
    IF get_nth_from_stack(x, 1) # 0 THEN add_jump_op(Pops(x, 2), Top(x)) ELSE Pops(x, 2))

codegen_stop(m) == return_empty_result(m, "Stop")

codegen_return(m) ==
  IF ~check_stack_has_at_least(m, 2) THEN generate_revert_block(m)
  ELSE return_result_from_stack(m, "Return")

codegen_revert(m) ==
  IF ~check_stack_has_at_least(m, 2) THEN generate_revert_block(m)
  ELSE return_result_from_stack(m, "Revert")

codegen_invalid(m) == generate_revert_block(m)

----------------------------------------------------------------------------
(* Logs.                                                                     *)

\* syscall.rs: create_log, by which append_log and its variants add a log.
create_log(m) == [m EXCEPT !.logs = m.logs + 1]

\* The dynamic cost is consumed without a look at the flag; a counter that
\* went below zero fails the check of extend_memory.
codegen_log(m, n) ==
  IF ~check_stack_has_at_least(m, 2 + n) \/ ~check_context_is_not_static(m)
  THEN generate_revert_block(m)
  ELSE LET offset == Operand(m, 0)
           size == Operand(m, 1)
           x == consume_gas(Pops(m, 2), compute_log_dynamic_gas(gas_cost.LOG, n,
                                                           get_nth_from_stack(m, 1)))
       IN  extend_memory(x, add32(offset, size), gas_cost.LOG,
                         LAMBDA y : create_log(Pops(y, n)))
=============================================================================
