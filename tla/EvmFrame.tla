------------------------------ MODULE EvmFrame ------------------------------
(* One execution context of evm_mlir: the globals of the compiled module     *)
(* (gas counter, stack, memory size) and the SyscallContext it runs in, with *)
(* the helpers the generated code is made of (utils/*.rs).                   *)
(*                                                                           *)
(* Memory contents are left out, sizes are kept.  There are two of them: the *)
(* global memory_size of the generated code and memory_len, the length of    *)
(* the vector of the context.  OFFSETS is the number of 32-bit offsets and   *)
(* I64 the number of non-negative 64-bit signed integers.                    *)
EXTENDS EvmProgram, EvmJournal

CONSTANTS MAX_STACK_SIZE, OFFSETS, I64

ASSUME FrameAssumption == /\ MAX_STACK_SIZE \in Nat \ {0}
                          /\ OFFSETS \in Nat \ {0}
                          /\ I64 \in Nat \ {0}

U64 == 2 * I64
Signed64(x) == ((x + I64) % U64) - I64
u32(w) == w % OFFSETS
add32(a, b) == (a + b) % OFFSETS
Larger(a, b) == IF a > b THEN a ELSE b

----------------------------------------------------------------------------
(* codegen/context.rs: the state the setup code leaves.                      *)

generate_gas_counter_setup_code(initial_gas) == [gas |-> initial_gas]

\* "fault" records a write or a read outside of the stack.
generate_stack_setup_code == [stack |-> <<>>, fault |-> "none"]

generate_memory_setup_code == [memory_size |-> 0, memory_len |-> 0]

generate_calldata_setup_code(size) == [calldata_size |-> size]

\* No call or creation of this context is running.
NoCall == [op |-> "none"]

\* syscall.rs: CallFrame and SyscallContext::new.  own_code is the program in
\* inner_context, which only transactions and creations set.
SyscallContext(journal, this, caller, value, gas_limit, initial_gas, is_static, own_code) ==
  [journal |-> journal, this |-> this, caller |-> caller, value |-> value,
   gas_limit |-> gas_limit, initial_gas |-> initial_gas, ctx_is_static |-> is_static,
   own_code |-> own_code, last_call_return_data |-> 0, refund |-> 0, logs |-> 0,
   transient |-> EmptyStorage, exit_status |-> "running", gas_remaining |-> 0,
   return_size |-> 0, last |-> "none"]

NewFrame(context, program, gas, calldata_size) ==
  LET globals == merged(merged(generate_gas_counter_setup_code(gas), generate_stack_setup_code),
                        merged(generate_memory_setup_code,
                               generate_calldata_setup_code(calldata_size)))
  IN  merged([program |-> program, pc |-> 1, pending |-> NoCall], merged(globals, context))

----------------------------------------------------------------------------
(* syscall.rs: write_result; utils/misc.rs: the ways a context ends.         *)

write_result(m, size, remaining_gas, status) ==
  [m EXCEPT !.return_size = size, !.gas_remaining = remaining_gas % U64,
            !.exit_status = status]

\* Faulty variant: the gas that is left is kept.
generate_revert_block_keeping(m) == write_result(m, 0, m.gas, "Error")

\* Consumes the gas that is left, so an error costs all of it.
generate_revert_block(m) == write_result([m EXCEPT !.gas = 0], 0, 0, "Error")

return_empty_result(m, status) == write_result(m, 0, m.gas, status)

----------------------------------------------------------------------------
(* utils/stack.rs: the stack is a pointer into an array of MAX_STACK_SIZE.   *)

check_stack_has_space_for(m, n) == Len(m.stack) + n <= MAX_STACK_SIZE

check_stack_has_at_least(m, n) == Len(m.stack) >= n

\* The first element of the sequence is the bottom of the stack.
get_nth_from_stack(m, n) == m.stack[Len(m.stack) - n]

Top(m) == get_nth_from_stack(m, 0)

stack_pop(m) ==
  IF m.stack = <<>>
  THEN [m EXCEPT !.fault = "underflow"]
  ELSE [m EXCEPT !.stack = SubSeq(m.stack, 1, Len(m.stack) - 1)]

stack_push(m, value) ==
  [m EXCEPT !.stack = Append(m.stack, value % WORD),
            !.fault = IF Len(m.stack) < MAX_STACK_SIZE THEN m.fault ELSE "overflow"]

Pops(m, n) ==
  IF check_stack_has_at_least(m, n)
  THEN [m EXCEPT !.stack = SubSeq(m.stack, 1, Len(m.stack) - n)]
  ELSE [m EXCEPT !.fault = "underflow"]

swap_stack_elements(m, a, b) ==
  LET n == Len(m.stack)
  IN  [m EXCEPT !.stack = [m.stack EXCEPT ![n - a] = m.stack[n - b],
                                          ![n - b] = m.stack[n - a]]]

----------------------------------------------------------------------------
(* utils/gas.rs: the counter is signed and is decreased in any case; the     *)
(* flag says whether it sufficed.                                            *)

get_remaining_gas(m) == m.gas

gas_flag(m, amount) == m.gas >= amount

\* Faulty variant: the new value of the counter is not stored.
consume_gas_unstored(m, amount) == m

consume_gas(m, amount) == [m EXCEPT !.gas = m.gas - amount]

\* The amount is an unsigned value read as a signed one.
gas_flag_of_value(m, value) == m.gas >= Signed64(value)

consume_gas_as_value(m, value) == [m EXCEPT !.gas = m.gas - Signed64(value)]

\* Branch to the operation's block, or to the revert block.
Charged(m, fits, amount, Block(_)) ==
  IF fits /\ gas_flag(m, amount)
  THEN Block(consume_gas(m, amount))
  ELSE generate_revert_block(m)

ChargedValue(m, value, Block(_)) ==
  IF gas_flag_of_value(m, value)
  THEN Block(consume_gas_as_value(m, value))
  ELSE generate_revert_block(m)

----------------------------------------------------------------------------
(* utils/memory.rs                                                           *)

compute_memory_cost(size) ==
  LET words == (size + WORD_BYTES - 1) \div WORD_BYTES
  IN  (words * words) \div 512 + 3 * words

compute_copy_cost(size) == 3 * ((size + WORD_BYTES - 1) \div WORD_BYTES)

round_up_32(size) == u32(((u32(size + WORD_BYTES - 1)) \div WORD_BYTES) * WORD_BYTES)

compute_log_dynamic_gas(log_cost, topics, size) == log_cost * topics + 8 * size

\* The syscall: the vector grows to the new size.
extend_memory_syscall(m, new_size) ==
  [m EXCEPT !.memory_len = Larger(m.memory_len, new_size)]

\* The memory grows before the gas for it is known to suffice.
extend_memory(m, required, fixed_gas, Block(_)) ==
  LET rounded == round_up_32(required)
      cost == compute_memory_cost(rounded) - compute_memory_cost(m.memory_size) + fixed_gas
      grown == [extend_memory_syscall(m, rounded) EXCEPT !.memory_size = rounded]
  IN  IF m.memory_size < rounded
      THEN Charged(grown, TRUE, cost, Block)
      ELSE Charged(m, TRUE, fixed_gas, Block)

\* syscall.rs: resize_memory_if_necessary, by which a syscall makes room.
resize_memory_if_necessary(m, offset, size) ==
  [m EXCEPT !.memory_len = Larger(m.memory_len, offset + size)]

\* RETURN and REVERT: the returned range is brought into memory first.
return_result_from_stack(m, status) ==
  LET offset == u32(get_nth_from_stack(m, 0))
      size == u32(get_nth_from_stack(m, 1))
  IN  extend_memory(Pops(m, 2), add32(offset, size), 0,
                    LAMBDA x : write_result(x, size, get_remaining_gas(x), status))

check_context_is_not_static(m) == ~m.ctx_is_static
=============================================================================
